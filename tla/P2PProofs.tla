------------------------------ MODULE P2PProofs -----------------------------
(***************************************************************************)
(* Proofs about P2P: for any number of pages, connections and rooms the    *)
(* tables of the lobby agree after every handler, whatever pages do,       *)
(* break or reload; a room whose host's connection works is neither paused *)
(* nor ended; and a page that has read what is under way to it knows who   *)
(* hosts its room, or who is in the one it hosts.                          *)
(*                                                                         *)
(* The lobby itself does not keep its tables in order: a connection that   *)
(* hosted one room and joined another would lose the link it needs when    *)
(* the first of them ends, for links do not say which room they are for.   *)
(* That no connection does both is up to the pages, which host or join one *)
(* game and are not welcomed twice over one connection.  So the inductive  *)
(* invariant follows the pages, too: whose connection is whose, that a     *)
(* page that hosts never gets a "joined" and one that joins no "hosted".   *)
(* That nothing ends a room under its host rests on the pages, again: the  *)
(* lobby ends the room of a connection that asks for another one.  A page  *)
(* that could ask for a second room would be one that an answer has left   *)
(* idle while its first request is still under way.  So the invariant      *)
(* counts what can still prompt a page that hosts (HostAwaits): at most    *)
(* one welcome, answer or refusal is under way to it, a refusal only when  *)
(* it hosts nothing, and none when the page is idle.                       *)
(* What pages know rests on what is under way to them, in its order, and   *)
(* on two things more (KInv): the rooms that two pages can ask for are     *)
(* never the same one, or the second would take the room from the first,   *)
(* which is not told; and the host that a page that joins knows of is      *)
(* never a page that joins, or "bye" would reach one.                      *)
(***************************************************************************)
EXTENDS P2P, FiniteSetTheorems, SequenceTheorems, TLAPS

----------------------------------------------------------------------------
(* A set of numbers has a least element.                                  *)

\* A set of natural numbers has a least element.
LEMMA LeastExists ==
  ASSUME NEW S \in SUBSET Nat, S # {}
  PROVE  \E n \in S : \A i \in S : n <= i
<1> DEFINE Less == {p \in Nat \X Nat : p[1] < p[2]}
<1>1. IsWellFoundedOn(Less, Nat) BY NatLessThanWellFounded DEF OpToRel
<1>2. \A x, y \in S : <<y, x>> \notin Less => x <= y OBVIOUS
<1> HIDE DEF Less
<1> QED BY <1>1, <1>2, WFMin

----------------------------------------------------------------------------
(* The inductive invariant.                                                *)

RoomRecords == [open : BOOLEAN, host : 0 .. MaxConns, paused : BOOLEAN, timer : BOOLEAN,
                joined : SUBSET Conns]
Notices == [t : {"welcome", "hosted", "joined", "peer", "peerleft", "hostaway", "hostback",
                 "roomclosed"}, room : 0 .. MaxRooms, peer : 0 .. MaxConns]
Errors == [t : {"error"}, code : {"noroom", "toomanyrooms", "self", "hostaway", "full"}]
Messages == Notices \cup Errors

LobbyRecords ==
  [peers : SUBSET Conns, counter : 0 .. MaxConns, rooms : [RoomIds -> RoomRecords],
   created : 0 .. MaxRooms, hosts : [Conns -> 0 .. MaxRooms],
   joinedIn : [Conns -> 0 .. MaxRooms], partners : [Conns -> SUBSET Conns],
   down : [Conns -> Seq(Messages)]]
PageRecords ==
  [ws : 0 .. MaxConns, connected : BOOLEAN, role : {"none", "host", "client"},
   pending : {"none", "host", "reclaim", "join"}, roomId : 0 .. MaxRooms, token : BOOLEAN,
   reclaiming : BOOLEAN, hostPeerId : 0 .. MaxConns, peers : [Conns -> 0 .. MaxConns],
   over : BOOLEAN, saved : 0 .. MaxRooms]

----------------------------------------------------------------------------
(* The invariant.                                                          *)

\* A room that is open has a host or waits for one with the timer running; no
\* other room is anything.
RoomsSound(L) ==
  \A r \in RoomIds :
    LET room == L.rooms[r] IN
    /\ room.paused <=> room.timer
    /\ room.open => /\ room.paused <=> room.host = NoConn
                    /\ ~room.paused => L.hosts[room.host] = r
    /\ ~room.open => room = Gone
    /\ r > L.created => room = Gone

Members(L) == \A r \in RoomIds : L.rooms[r].joined = {c \in Conns : L.joinedIn[c] = r}

\* Who hosts a room hosts it alone, and has joined none.
Hosting(L) ==
  \A c \in Conns : L.hosts[c] # NoRoom =>
    L.rooms[L.hosts[c]].host = c /\ L.joinedIn[c] = NoRoom

\* Members that are there can reach the host.  B are the connections that broke.
Linked(L, B) ==
  \A r \in RoomIds : \A c \in L.rooms[r].joined \ B :
    ~L.rooms[r].paused => L.rooms[r].host \in L.partners[c]

Symmetric(L) == \A c, d \in Conns : d \in L.partners[c] => c \in L.partners[d]

\* A connection that is gone is nowhere, but for those of X that are just going.
Forgotten(L, X) ==
  \A c \in Conns \ L.peers :
    /\ L.down[c] = <<>>
    /\ c \notin X => /\ L.hosts[c] = NoRoom /\ L.joinedIn[c] = NoRoom
                     /\ L.partners[c] = {}

Sound(L, B, X) ==
  /\ L \in LobbyRecords /\ L.peers \subseteq 1 .. L.counter
  /\ RoomsSound(L) /\ Members(L) /\ Hosting(L) /\ Linked(L, B) /\ Symmetric(L)
  /\ Forgotten(L, X)

\* What connections of pages that host, and of pages that join, have and get.
HostMessages == {m \in Messages : m.t # "joined"}
GuestMessages == {m \in Messages : m.t # "hosted"}
HostLike(L, c) == L.joinedIn[c] = NoRoom /\ L.down[c] \in Seq(HostMessages)
GuestLike(L, c) == L.hosts[c] = NoRoom /\ L.down[c] \in Seq(GuestMessages)

\* What a page that hosts waits for: to be welcomed, and then an answer to what it asked
\* for.  A connection that is being refused hosts nothing.
Prompts(L, c) == {i \in DOMAIN L.down[c] : L.down[c][i].t \in {"welcome", "hosted", "error"}}
Idle(L, c) == L.hosts[c] = NoRoom /\ Prompts(L, c) = {}
Answered(L, c) ==
  /\ \A i, j \in Prompts(L, c) : i = j
  /\ \A i \in Prompts(L, c) : L.down[c][i].t # "hosted" => L.hosts[c] = NoRoom

\* At most one such message is under way to a page that hosts, and a welcome only before
\* the first; none is under way to a page that may ask for a room, and it hosts none.
HostAwaits(s, L, B) ==
  /\ s.ws = NoConn => ~s.connected
  /\ s.ws \notin B \cup {NoConn} =>
       /\ Answered(L, s.ws)
       /\ \A i \in Prompts(L, s.ws) : L.down[s.ws][i].t = "welcome" => ~s.connected
       /\ s.connected /\ s.role = "none" /\ s.pending = "none" /\ ~s.over => Idle(L, s.ws)

\* What page p is like.
HostPage(s, L) == /\ s.role \in {"none", "host"}
                  /\ s.ws # NoConn => HostLike(L, s.ws)
GuestPage(s, L) == /\ s.role \in {"none", "client"} /\ s.pending \in {"none", "join"}
                   /\ ~s.reclaiming
                   /\ s.ws # NoConn => GuestLike(L, s.ws)
PageSound(p, s, L, B) ==
  /\ s \in PageRecords /\ s.ws <= L.counter
  /\ s.ws # NoConn => s.ws \in B \cup L.peers
  /\ p \in Hosts => HostPage(s, L) /\ HostAwaits(s, L, B)
  /\ p \in Guests => GuestPage(s, L)

IInv ==
  /\ Sound(lobby, broken, {}) /\ broken \subseteq Conns
  /\ page \in [Pages -> PageRecords]
  /\ \A p \in Pages : PageSound(p, page[p], lobby, broken)
  /\ \A p, q \in Pages : page[p].ws = page[q].ws /\ page[p].ws # NoConn => p = q

----------------------------------------------------------------------------
(* What a handler does to one table is a record with another field.        *)

\* Connections and rooms are numbered from one.
LEMMA Numbering ==
  /\ MaxConns \in Nat /\ MaxRooms \in Nat
  /\ Conns \subseteq Nat /\ NoConn \notin Conns /\ 0 .. MaxConns = Conns \cup {NoConn}
  /\ RoomIds \subseteq Nat /\ NoRoom \notin RoomIds /\ 0 .. MaxRooms = RoomIds \cup {NoRoom}
<1>1. MaxConns \in Nat /\ MaxRooms \in Nat BY LobbyAssumption
<1> QED BY <1>1 DEF Conns, NoConn, RoomIds, NoRoom

\* The fields of the lobby have their types.
LEMMA LobbyFields ==
  ASSUME NEW L \in LobbyRecords
  PROVE  /\ L.peers \in SUBSET Conns /\ L.counter \in 0 .. MaxConns
         /\ L.rooms \in [RoomIds -> RoomRecords] /\ L.created \in 0 .. MaxRooms
         /\ L.hosts \in [Conns -> 0 .. MaxRooms] /\ L.joinedIn \in [Conns -> 0 .. MaxRooms]
         /\ L.partners \in [Conns -> SUBSET Conns] /\ L.down \in [Conns -> Seq(Messages)]
BY DEF LobbyRecords

\* A room that is gone is a room.
LEMMA GoneType ==
  /\ Gone \in RoomRecords /\ ~Gone.open /\ Gone.host = NoConn /\ ~Gone.paused /\ ~Gone.timer
  /\ Gone.joined = {}
BY Numbering DEF Gone, RoomRecords

\* The same tables, but for what is under way.
SameTables(L, M) ==
  /\ M.peers = L.peers /\ M.counter = L.counter /\ M.rooms = L.rooms /\ M.created = L.created
  /\ M.hosts = L.hosts /\ M.joinedIn = L.joinedIn /\ M.partners = L.partners

\* Send appends to what is under way to the registered ones of C.
LEMMA SendIs ==
  ASSUME NEW L \in LobbyRecords, NEW C, NEW m \in Messages
  PROVE  /\ Send(L, C, m) \in LobbyRecords /\ SameTables(L, Send(L, C, m))
         /\ \A d \in Conns : Send(L, C, m).down[d] =
              IF d \in (C \cap L.peers) \ broken THEN Append(L.down[d], m) ELSE L.down[d]
<1> DEFINE q == [d \in Conns |-> IF d \in (C \cap L.peers) \ broken
                                 THEN Append(L.down[d], m) ELSE L.down[d]]
<1>1. q \in [Conns -> Seq(Messages)]
  <2>1. ASSUME NEW d \in Conns PROVE q[d] \in Seq(Messages)
    <3>1. L.down[d] \in Seq(Messages) BY LobbyFields
    <3>2. Append(L.down[d], m) \in Seq(Messages) BY <3>1
    <3> QED BY <3>1, <3>2
  <2> QED BY <2>1
<1>2. Send(L, C, m) = [L EXCEPT !.down = q] BY DEF Send
<1>3. \A d \in Conns : q[d] = IF d \in (C \cap L.peers) \ broken
                              THEN Append(L.down[d], m) ELSE L.down[d]
  OBVIOUS
<1> HIDE DEF q
<1>4. [L EXCEPT !.down = q] \in LobbyRecords BY <1>1 DEF LobbyRecords
<1>5. SameTables(L, [L EXCEPT !.down = q]) /\ [L EXCEPT !.down = q].down = q
  BY DEF SameTables, LobbyRecords
<1> QED BY <1>2, <1>3, <1>4, <1>5

\* Unlink takes the links of a with B, from both sides.
LEMMA UnlinkIs ==
  ASSUME NEW L \in LobbyRecords, NEW a \in Conns, NEW B
  PROVE  \A M : M = Unlink(L, a, B) =>
           /\ M \in LobbyRecords
           /\ M.peers = L.peers /\ M.counter = L.counter /\ M.rooms = L.rooms
           /\ M.created = L.created /\ M.hosts = L.hosts /\ M.joinedIn = L.joinedIn
           /\ M.down = L.down
           /\ M.partners[a] = L.partners[a] \ B
           /\ \A c \in Conns \ {a} :
                M.partners[c] = IF c \in B THEN L.partners[c] \ {a} ELSE L.partners[c]
<1> DEFINE q == [c \in Conns |-> IF c = a THEN L.partners[c] \ B
                                 ELSE IF c \in B THEN L.partners[c] \ {a} ELSE L.partners[c]]
<1>1. q \in [Conns -> SUBSET Conns] BY LobbyFields
<1>2. Unlink(L, a, B) = [L EXCEPT !.partners = q] BY DEF Unlink
<1>3. /\ q[a] = L.partners[a] \ B
      /\ \A c \in Conns \ {a} : q[c] = IF c \in B THEN L.partners[c] \ {a} ELSE L.partners[c]
  OBVIOUS
<1> HIDE DEF q
<1>4. [L EXCEPT !.partners = q] \in LobbyRecords BY <1>1 DEF LobbyRecords
<1> QED BY <1>2, <1>3, <1>4 DEF LobbyRecords

\* Sending keeps the tables sound: only those who are registered get anything.
LEMMA SendKeeps ==
  ASSUME NEW L, NEW B, NEW X, Sound(L, B, X), NEW C, NEW m \in Messages
  PROVE  Sound(Send(L, C, m), B, X)
<1> DEFINE M == Send(L, C, m)
<1>1. /\ M \in LobbyRecords /\ SameTables(L, M)
      /\ \A d \in Conns : M.down[d] =
           IF d \in (C \cap L.peers) \ broken THEN Append(L.down[d], m) ELSE L.down[d]
  BY SendIs DEF Sound
<1> HIDE DEF M
<1>2. RoomsSound(M) /\ Members(M) /\ Hosting(M) /\ Linked(M, B) /\ Symmetric(M)
  BY <1>1 DEF Sound, SameTables, RoomsSound, Members, Hosting, Linked, Symmetric
<1>3. Forgotten(M, X) BY <1>1 DEF Sound, SameTables, Forgotten
<1> QED BY <1>1, <1>2, <1>3 DEF Sound, SameTables, M

\* Links may go that no member needs: not between a host and a member that is there.
LEMMA UnlinkKeeps ==
  ASSUME NEW L, NEW B, NEW X, Sound(L, B, X), NEW a \in Conns, NEW D \in SUBSET Conns,
         \A d \in D : /\ L.joinedIn[a] # NoRoom => a \in B \/ L.hosts[d] # L.joinedIn[a]
                      /\ L.joinedIn[d] # NoRoom => d \in B \/ L.hosts[a] # L.joinedIn[d]
  PROVE  Sound(Unlink(L, a, D), B, X)
<1> DEFINE M == Unlink(L, a, D)
<1>1. /\ M \in LobbyRecords
      /\ M.peers = L.peers /\ M.counter = L.counter /\ M.rooms = L.rooms
      /\ M.created = L.created /\ M.hosts = L.hosts /\ M.joinedIn = L.joinedIn
      /\ M.down = L.down
      /\ M.partners[a] = L.partners[a] \ D
      /\ \A c \in Conns \ {a} :
           M.partners[c] = IF c \in D THEN L.partners[c] \ {a} ELSE L.partners[c]
  <2>1. L \in LobbyRecords /\ M = Unlink(L, a, D) BY DEF Sound
  <2> HIDE DEF M
  <2> QED BY <2>1, UnlinkIs
<1> HIDE DEF M
<1>2. RoomsSound(M) /\ Members(M) /\ Hosting(M)
  BY <1>1 DEF Sound, RoomsSound, Members, Hosting
<1>3. Symmetric(M)
  <2> SUFFICES ASSUME NEW c \in Conns, NEW d \in Conns, d \in M.partners[c]
               PROVE  c \in M.partners[d]
    BY DEF Symmetric
  <2>1. d \in L.partners[c] => c \in L.partners[d] BY DEF Sound, Symmetric
  <2>2. CASE c = a BY <1>1, <2>1, <2>2
  <2>3. CASE c # a /\ d = a BY <1>1, <2>1, <2>3
  <2>4. CASE c # a /\ d # a BY <1>1, <2>1, <2>4
  <2> QED BY <2>2, <2>3, <2>4
<1>4. Forgotten(M, X)
  <2> SUFFICES ASSUME NEW c \in Conns \ M.peers
               PROVE  /\ M.down[c] = <<>>
                      /\ c \notin X => /\ M.hosts[c] = NoRoom /\ M.joinedIn[c] = NoRoom
                                      /\ M.partners[c] = {}
    BY DEF Forgotten
  <2>1. /\ c \in Conns \ L.peers /\ M.down[c] = L.down[c]
        /\ M.hosts[c] = L.hosts[c] /\ M.joinedIn[c] = L.joinedIn[c]
    BY <1>1
  <2>2. /\ L.down[c] = <<>>
        /\ c \notin X => /\ L.hosts[c] = NoRoom /\ L.joinedIn[c] = NoRoom /\ L.partners[c] = {}
    BY <2>1 DEF Sound, Forgotten
  <2>3. \A d : d \in M.partners[c] => d \in L.partners[c]
    <3>1. CASE c = a BY <1>1, <3>1
    <3>2. CASE c # a BY <1>1, <3>2
    <3> QED BY <3>1, <3>2
  <2>4. L.partners[c] = {} => M.partners[c] = {} BY <2>3
  <2> QED BY <2>1, <2>2, <2>4
<1>5. Linked(M, B)
  <2> SUFFICES ASSUME NEW r \in RoomIds, NEW c \in M.rooms[r].joined \ B, ~M.rooms[r].paused
               PROVE  M.rooms[r].host \in M.partners[c]
    BY DEF Linked
  <2> DEFINE h == L.rooms[r].host
  <2>1. c \in L.rooms[r].joined \ B /\ ~L.rooms[r].paused BY <1>1
  <2>2. h \in L.partners[c] BY <2>1 DEF Sound, Linked
  <2>3. L.rooms[r] \in RoomRecords BY LobbyFields DEF Sound
  <2>4. c \in Conns /\ L.joinedIn[c] = r /\ r # NoRoom
    BY <2>1, <2>3, Numbering DEF Sound, Members
  <2>5. h \in Conns BY <2>2, <2>4, LobbyFields DEF Sound
  <2>6. L.rooms[r].open BY <2>1, <2>3, GoneType DEF Sound, RoomsSound
  <2>7. L.hosts[h] = r BY <2>1, <2>6 DEF Sound, RoomsSound
  <2>8. ~(c = a /\ h \in D) BY <2>1, <2>4, <2>7
  <2>9. ~(c \in D /\ h = a) BY <2>1, <2>4, <2>7
  <2> HIDE DEF h
  <2>10. h \in M.partners[c] BY <1>1, <2>2, <2>4, <2>8, <2>9
  <2> QED BY <1>1, <2>10 DEF h
<1> QED BY <1>1, <1>2, <1>3, <1>4, <1>5 DEF Sound, M

\* Connections of D are of the kind of page they were.
Kept(L, M, D) ==
  \A d \in D : /\ HostLike(L, d) => HostLike(M, d)
               /\ GuestLike(L, d) => GuestLike(M, d)

\* Connections of D are asked nothing and given no room.
Calm(L, M, D) ==
  \A d \in D : /\ M.hosts[d] \in {L.hosts[d], NoRoom}
               /\ \A i \in Prompts(M, d) : i \in Prompts(L, d) /\ M.down[d][i] = L.down[d][i]

\* Rooms whose host is not of X stay open and have a host.
Keeping(L, M, X) ==
  \A r \in RoomIds : L.rooms[r].open /\ L.rooms[r].host \notin X \cup {NoConn} =>
                       M.rooms[r].open /\ M.rooms[r].host # NoConn
SameHosts(L, M) ==
  \A r \in RoomIds : /\ M.rooms[r].open <=> L.rooms[r].open
                     /\ M.rooms[r].host = L.rooms[r].host

\* Two calm steps are one.
LEMMA CalmTwice ==
  ASSUME NEW K, NEW L, NEW M, NEW D, Calm(K, L, D), Calm(L, M, D)
  PROVE  Calm(K, M, D)
BY DEF Calm

\* So is one in which nothing is sent.
LEMMA TablesCalm ==
  ASSUME NEW L, NEW M, NEW D,
         \A d \in D : /\ M.down[d] = L.down[d] \/ M.down[d] = <<>>
                      /\ M.hosts[d] \in {L.hosts[d], NoRoom}
  PROVE  Calm(L, M, D)
<1>1. ASSUME NEW d \in D, NEW i \in Prompts(M, d)
      PROVE  i \in Prompts(L, d) /\ M.down[d][i] = L.down[d][i]
  <2>1. CASE M.down[d] = L.down[d] BY <1>1, <2>1 DEF Prompts
  <2>2. CASE M.down[d] = <<>>
    <3>1. DOMAIN M.down[d] = {} BY <2>2
    <3> QED BY <1>1, <3>1 DEF Prompts
  <2> QED BY <1>1, <2>1, <2>2
<1> QED BY <1>1 DEF Calm

\* And one in which those of D are told nothing they wait for.
LEMMA SendCalm ==
  ASSUME NEW L \in LobbyRecords, NEW C, NEW m \in Messages, NEW D \in SUBSET Conns,
         m.t \in {"welcome", "hosted", "error"} => C \cap D = {}
  PROVE  Calm(L, Send(L, C, m), D)
<1> DEFINE M == Send(L, C, m)
<1>1. /\ SameTables(L, M)
      /\ \A d \in Conns : M.down[d] =
           IF d \in (C \cap L.peers) \ broken THEN Append(L.down[d], m) ELSE L.down[d]
  BY SendIs
<1> HIDE DEF M
<1>2. ASSUME NEW d \in D, NEW i \in Prompts(M, d)
      PROVE  i \in Prompts(L, d) /\ M.down[d][i] = L.down[d][i]
  <2>1. L.down[d] \in Seq(Messages) BY LobbyFields
  <2>2. CASE d \in (C \cap L.peers) \ broken
    <3>1. M.down[d] = Append(L.down[d], m) /\ m.t \notin {"welcome", "hosted", "error"}
      BY <1>1, <2>2
    <3>2. i \in 1 .. Len(L.down[d]) + 1 BY <1>2, <2>1, <3>1 DEF Prompts
    <3>3. i # Len(L.down[d]) + 1 BY <1>2, <2>1, <3>1 DEF Prompts
    <3>4. i \in 1 .. Len(L.down[d]) BY <2>1, <3>2, <3>3
    <3>5. M.down[d][i] = L.down[d][i] BY <2>1, <3>1, <3>4
    <3>6. i \in DOMAIN L.down[d] BY <2>1, <3>4
    <3> QED BY <1>2, <3>5, <3>6 DEF Prompts
  <2>3. CASE d \notin (C \cap L.peers) \ broken
    <3>1. M.down[d] = L.down[d] BY <1>1, <2>3
    <3> QED BY <1>2, <3>1 DEF Prompts
  <2> QED BY <2>2, <2>3
<1> QED BY <1>1, <1>2 DEF Calm, SameTables, M

\* The answer to the only thing that was asked.
Fulfilled(M, c) ==
  Answered(M, c) /\ \A i \in Prompts(M, c) : M.down[c][i].t # "welcome"

\* A connection that waits for nothing gets one answer.
LEMMA SendPrompts ==
  ASSUME NEW L \in LobbyRecords, NEW c \in Conns, Prompts(L, c) = {}, NEW m \in Messages,
         m.t # "hosted" => L.hosts[c] = NoRoom
  PROVE  /\ Answered(Send(L, {c}, m), c)
         /\ \A i \in Prompts(Send(L, {c}, m), c) : Send(L, {c}, m).down[c][i] = m
<1> DEFINE M == Send(L, {c}, m)
<1>0. /\ SameTables(L, M)
      /\ \A d \in Conns : M.down[d] =
           IF d \in ({c} \cap L.peers) \ broken THEN Append(L.down[d], m) ELSE L.down[d]
  BY SendIs
<1>2. L.down[c] \in Seq(Messages) BY LobbyFields
<1> HIDE DEF M
<1>1. M.hosts = L.hosts /\ M.down[c] \in {Append(L.down[c], m), L.down[c]}
  BY <1>0 DEF SameTables
<1>3. ASSUME NEW i \in Prompts(M, c) PROVE i = Len(L.down[c]) + 1 /\ M.down[c][i] = m
  <2>1. CASE M.down[c] = L.down[c] BY <1>3, <2>1 DEF Prompts
  <2>2. CASE M.down[c] = Append(L.down[c], m)
    <3>1. i \in 1 .. Len(L.down[c]) + 1 BY <1>2, <1>3, <2>2 DEF Prompts
    <3>2. ASSUME i # Len(L.down[c]) + 1 PROVE FALSE
      <4>1. i \in 1 .. Len(L.down[c]) BY <1>2, <3>1, <3>2
      <4>2. i \in DOMAIN L.down[c] /\ M.down[c][i] = L.down[c][i] BY <1>2, <2>2, <4>1
      <4> QED BY <1>3, <4>2 DEF Prompts
    <3> QED BY <1>2, <2>2, <3>2
  <2> QED BY <1>1, <2>1, <2>2
<1>4. Answered(M, c)
  <2>1. \A i, j \in Prompts(M, c) : i = j BY <1>3
  <2>2. \A i \in Prompts(M, c) : M.down[c][i].t # "hosted" => M.hosts[c] = NoRoom
    BY <1>1, <1>3
  <2> QED BY <2>1, <2>2 DEF Answered
<1> QED BY <1>3, <1>4 DEF M

\* What two steps keep is kept.
LEMMA KeptTwice ==
  ASSUME NEW K, NEW L, NEW M, NEW D, Kept(K, L, D), Kept(L, M, D)
  PROVE  Kept(K, M, D)
BY DEF Kept

\* Nobody hosts or joins.
LEMMA TablesKept ==
  ASSUME NEW L, NEW M, NEW D \in SUBSET Conns,
         \A d \in D : /\ M.down[d] = L.down[d] \/ M.down[d] = <<>>
                      /\ M.hosts[d] \in {L.hosts[d], NoRoom}
                      /\ M.joinedIn[d] \in {L.joinedIn[d], NoRoom}
  PROVE  Kept(L, M, D)
<1>1. <<>> \in Seq(HostMessages) /\ <<>> \in Seq(GuestMessages) OBVIOUS
<1> QED BY <1>1 DEF Kept, HostLike, GuestLike

\* Only pages that host hear of a room hosted, and only ones that join of a game
\* joined.
LEMMA SendKept ==
  ASSUME NEW L \in LobbyRecords, NEW C, NEW m \in Messages, NEW d \in Conns
  PROVE  /\ HostLike(L, d) /\ (d \in C => m.t # "joined") => HostLike(Send(L, C, m), d)
         /\ GuestLike(L, d) /\ (d \in C => m.t # "hosted") => GuestLike(Send(L, C, m), d)
<1> DEFINE M == Send(L, C, m)
<1>1. /\ SameTables(L, M)
      /\ M.down[d] = IF d \in (C \cap L.peers) \ broken THEN Append(L.down[d], m) ELSE L.down[d]
  BY SendIs
<1>2. ASSUME NEW T, NEW q \in Seq(T), m \in T PROVE Append(q, m) \in Seq(T) BY <1>2
<1> HIDE DEF M
<1>3. ASSUME HostLike(L, d), d \in C => m.t # "joined" PROVE HostLike(M, d)
  <2>1. CASE d \in (C \cap L.peers) \ broken
    <3>1. m \in HostMessages BY <1>3, <2>1 DEF HostMessages
    <3>2. Append(L.down[d], m) \in Seq(HostMessages) BY <1>2, <1>3, <3>1 DEF HostLike
    <3> QED BY <1>1, <1>3, <2>1, <3>2 DEF HostLike, SameTables
  <2> QED BY <1>1, <1>3, <2>1 DEF HostLike, SameTables
<1>4. ASSUME GuestLike(L, d), d \in C => m.t # "hosted" PROVE GuestLike(M, d)
  <2>1. CASE d \in (C \cap L.peers) \ broken
    <3>1. m \in GuestMessages BY <1>4, <2>1 DEF GuestMessages
    <3>2. Append(L.down[d], m) \in Seq(GuestMessages) BY <1>2, <1>4, <3>1 DEF GuestLike
    <3> QED BY <1>1, <1>4, <2>1, <3>2 DEF GuestLike, SameTables
  <2> QED BY <1>1, <1>4, <2>1 DEF GuestLike, SameTables
<1> QED BY <1>3, <1>4 DEF M

\* The messages the lobby sends.
LEMMA MessageTypes ==
  /\ \A t \in {"welcome", "hosted", "joined", "peer", "peerleft", "hostaway", "hostback",
               "roomclosed"}, r \in 0 .. MaxRooms, c \in 0 .. MaxConns :
        Msg(t, r, c) \in Messages /\ Msg(t, r, c).t = t
  /\ \A code \in {"noroom", "toomanyrooms", "self", "hostaway", "full"} :
        [t |-> "error", code |-> code] \in Messages
BY DEF Messages, Notices, Errors, Msg

\* Those of C that are reached are told m, and nobody else anything.
Told(L, M, C, m) ==
  \A d \in Conns : M.down[d] = IF d \in (C \cap L.peers) \ broken THEN Append(L.down[d], m)
                                ELSE L.down[d]

\* Room r, which nobody is in any more, is over.
Closes(L, M, r) ==
  /\ \A q \in RoomIds : M.rooms[q] = IF q = r THEN Gone ELSE L.rooms[q]
  /\ \A d \in Conns : M.joinedIn[d] = IF L.joinedIn[d] = r THEN NoRoom ELSE L.joinedIn[d]
  /\ Told(L, M, {d \in Conns : L.joinedIn[d] = r}, Msg("roomclosed", r, 0))

\* Room r has no host at the moment.
Pauses(L, M, r) ==
  /\ \A q \in RoomIds \ {r} : M.rooms[q] = L.rooms[q]
  /\ M.rooms[r].host = NoConn /\ M.rooms[r].joined = L.rooms[r].joined
  /\ Told(L, M, {d \in Conns : L.joinedIn[d] = r}, Msg("hostaway", r, 0))

\* c is in room r no more.
Leaves(L, M, r, c) ==
  /\ \A q \in RoomIds \ {r} : M.rooms[q] = L.rooms[q]
  /\ M.rooms[r].host = L.rooms[r].host /\ M.rooms[r].joined = L.rooms[r].joined \ {c}
  /\ Told(L, M, {L.rooms[r].host}, Msg("peerleft", 0, c))

\* c, which was in no room, is there, and is welcome.
Arrives(L, M, c) ==
  /\ M.rooms = L.rooms /\ M.created = L.created /\ M.hosts = L.hosts
  /\ M.joinedIn = L.joinedIn /\ L.hosts[c] = NoRoom /\ L.joinedIn[c] = NoRoom
  /\ \A d \in Conns \ {c} : M.down[d] = L.down[d]
  /\ M.down[c] \in {<<>>, <<Msg("welcome", 0, c)>>}

\* c is gone, as A says, and with it the room it hosted or joined.
Ends(L, A, M, c) ==
  /\ A.peers = L.peers \ {c} /\ A.rooms = L.rooms /\ A.hosts = L.hosts
  /\ A.joinedIn = L.joinedIn /\ A.created = L.created
  /\ \A d \in Conns : A.down[d] = IF d = c THEN <<>> ELSE L.down[d]
  /\ M.created = L.created
  /\ \A d \in Conns :
       /\ M.hosts[d] = IF d = c THEN NoRoom ELSE L.hosts[d]
       /\ M.joinedIn[d] = IF d = c THEN NoRoom ELSE L.joinedIn[d]
  /\ \/ L.hosts[c] # NoRoom /\ L.joinedIn[c] = NoRoom /\ Pauses(A, M, L.hosts[c])
     \/ L.hosts[c] = NoRoom /\ L.joinedIn[c] # NoRoom /\ Leaves(A, M, L.joinedIn[c], c)
     \/ /\ L.hosts[c] = NoRoom /\ L.joinedIn[c] = NoRoom
        /\ M.rooms = A.rooms /\ M.down = A.down

----------------------------------------------------------------------------
(* Rooms end, wait for their host, and lose a guest.                       *)

\* A room whose host hosts it no more is closed: everybody in it is free, and the
\* links with the host are gone.
LEMMA CloseRoomHolds ==
  ASSUME NEW L, NEW B, NEW X, Sound(L, B, X), NEW r \in RoomIds, NEW host \in 0 .. MaxConns,
         host # NoConn => L.joinedIn[host] = NoRoom /\ L.hosts[host] = r,
         NEW K \in LobbyRecords,
         K.peers = L.peers, K.counter = L.counter, K.rooms = L.rooms, K.created = L.created,
         K.joinedIn = L.joinedIn, K.partners = L.partners, K.down = L.down,
         \A c \in Conns : K.hosts[c] = IF L.hosts[c] = r THEN NoRoom ELSE L.hosts[c],
         NEW M, M = CloseRoom(K, r, host)
  PROVE  /\ Sound(M, B, X) /\ M.peers = L.peers /\ M.counter = L.counter
         /\ M.created = L.created /\ M.hosts = K.hosts
         /\ Closes(L, M, r) /\ Kept(L, M, Conns) /\ Calm(L, M, Conns)
<1> DEFINE guests == K.rooms[r].joined
           rooms == [K.rooms EXCEPT ![r] = Gone]
           joinedIn == [c \in Conns |-> IF c \in guests THEN NoRoom ELSE K.joinedIn[c]]
           F == [K EXCEPT !.rooms = rooms, !.joinedIn = joinedIn]
           U == IF host = NoConn THEN F ELSE Unlink(F, host, guests)
<1>1. /\ rooms \in [RoomIds -> RoomRecords]
      /\ \A q \in RoomIds : rooms[q] = IF q = r THEN Gone ELSE L.rooms[q]
  BY GoneType, LobbyFields DEF Sound
<1>2. /\ joinedIn \in [Conns -> 0 .. MaxRooms]
      /\ \A c \in Conns : joinedIn[c] = IF L.joinedIn[c] = r THEN NoRoom ELSE L.joinedIn[c]
  BY LobbyFields, Numbering DEF Sound, Members
<1>3. guests = {c \in Conns : L.joinedIn[c] = r} BY DEF Sound, Members
<1>4. M = Send(U, guests, Msg("roomclosed", r, 0)) BY DEF CloseRoom
<1> HIDE DEF rooms, joinedIn, guests
<1>5. /\ F \in LobbyRecords /\ F.rooms = rooms /\ F.joinedIn = joinedIn
      /\ F.peers = L.peers /\ F.counter = L.counter /\ F.created = L.created
      /\ F.hosts = K.hosts /\ F.partners = L.partners /\ F.down = L.down
  BY <1>1, <1>2 DEF LobbyRecords
<1> HIDE DEF F
<1>6. Sound(F, B, X)
  <2>1. RoomsSound(F)
    <3> SUFFICES ASSUME NEW q \in RoomIds, q # r
                 PROVE  /\ F.rooms[q].open /\ ~F.rooms[q].paused => F.hosts[F.rooms[q].host] = q
      BY <1>1, <1>5, GoneType DEF Sound, RoomsSound
    <3>1. L.rooms[q] \in RoomRecords BY LobbyFields DEF Sound
    <3>2. L.rooms[q].host \in Conns \cup {NoConn} BY <3>1, Numbering DEF RoomRecords
    <3> QED BY <1>1, <1>5, <3>2 DEF Sound, RoomsSound
  <2>2. Members(F) BY <1>1, <1>2, <1>5, GoneType, Numbering DEF Sound, Members
  <2>3. Hosting(F)
    <3> SUFFICES ASSUME NEW c \in Conns, F.hosts[c] # NoRoom
                 PROVE  F.rooms[F.hosts[c]].host = c /\ F.joinedIn[c] = NoRoom
      BY DEF Hosting
    <3>1. F.hosts[c] = L.hosts[c] /\ L.hosts[c] # r BY <1>5
    <3>2. L.hosts[c] \in RoomIds BY <1>5, <3>1, LobbyFields, Numbering DEF Sound
    <3> QED BY <1>1, <1>2, <1>5, <3>1, <3>2 DEF Sound, Hosting
  <2>4. Linked(F, B) BY <1>1, <1>5, GoneType DEF Sound, Linked
  <2>5. Symmetric(F) BY <1>5 DEF Sound, Symmetric
  <2>6. Forgotten(F, X) BY <1>2, <1>5 DEF Sound, Forgotten
  <2> QED BY <1>5, <2>1, <2>2, <2>3, <2>4, <2>5, <2>6 DEF Sound
<1>7. /\ Sound(U, B, X) /\ U \in LobbyRecords /\ U.rooms = F.rooms /\ U.joinedIn = F.joinedIn
      /\ U.peers = F.peers /\ U.counter = F.counter /\ U.created = F.created
      /\ U.hosts = F.hosts /\ U.down = F.down
  <2>1. CASE host = NoConn BY <1>5, <1>6, <2>1
  <2>2. CASE host # NoConn
    <3>1. host \in Conns BY <2>2, Numbering
    <3>2. F.joinedIn[host] = NoRoom BY <1>2, <1>5, <2>2, <3>1
    <3>3. \A d \in guests : d \in Conns /\ F.joinedIn[d] = NoRoom BY <1>2, <1>3, <1>5
    <3>4. Sound(Unlink(F, host, guests), B, X)
      BY <1>3, <1>6, <3>1, <3>2, <3>3, UnlinkKeeps
    <3>5. U = Unlink(F, host, guests) BY <2>2
    <3> HIDE DEF U
    <3> QED BY <1>5, <3>1, <3>4, <3>5, UnlinkIs
  <2> QED BY <2>1, <2>2
<1> HIDE DEF U
<1>8. Msg("roomclosed", r, 0) \in Messages /\ Msg("roomclosed", r, 0).t = "roomclosed"
  BY MessageTypes, Numbering DEF NoConn
<1>9. Sound(M, B, X) /\ SameTables(U, M) BY <1>4, <1>7, <1>8, SendKeeps, SendIs
<1>10. Kept(L, F, Conns) BY <1>2, <1>5, TablesKept
<1>11. Kept(F, U, Conns) BY <1>7, TablesKept
<1>12. Kept(U, M, Conns) BY <1>4, <1>7, <1>8, SendKept DEF Kept
<1>13. Kept(L, M, Conns) BY <1>10, <1>11, <1>12, KeptTwice
<1>14. Calm(L, U, Conns) BY <1>5, <1>7, TablesCalm
<1>15. Calm(U, M, Conns) BY <1>4, <1>7, <1>8, SendCalm
<1>16. Calm(L, M, Conns) BY <1>14, <1>15, CalmTwice
<1>17. Told(L, M, guests, Msg("roomclosed", r, 0))
  BY <1>4, <1>5, <1>7, <1>8, SendIs DEF Told
<1>18. Closes(L, M, r)
  BY <1>1, <1>2, <1>3, <1>5, <1>7, <1>9, <1>17 DEF Closes, SameTables
<1> QED BY <1>5, <1>7, <1>9, <1>13, <1>16, <1>18 DEF SameTables

\* Whoever hosts a room gives it up.
LEMMA RemoveHostedRoomHolds ==
  ASSUME NEW L, NEW B, NEW X, Sound(L, B, X), NEW c \in Conns, NEW M,
         M = RemoveHostedRoom(L, c)
  PROVE  /\ Sound(M, B, X) /\ M.peers = L.peers /\ M.counter = L.counter
         /\ M.created = L.created
         /\ \A d \in Conns : M.hosts[d] = IF d = c THEN NoRoom ELSE L.hosts[d]
         /\ \A q \in RoomIds : M.rooms[q] = IF q = L.hosts[c] THEN Gone ELSE L.rooms[q]
         /\ Kept(L, M, Conns) /\ Calm(L, M, Conns)
         /\ IF L.hosts[c] = NoRoom THEN M = L ELSE Closes(L, M, L.hosts[c])
<1>1. CASE L.hosts[c] = NoRoom
  <2>1. M = L BY <1>1 DEF RemoveHostedRoom
  <2>2. \A q \in RoomIds : q # L.hosts[c] BY <1>1, Numbering
  <2> QED BY <1>1, <2>1, <2>2 DEF Kept, Calm
<1>2. CASE L.hosts[c] # NoRoom
  <2> DEFINE r == L.hosts[c]
             hosts == [L.hosts EXCEPT ![c] = NoRoom]
             K == [L EXCEPT !.hosts = hosts]
  <2>1. r \in RoomIds /\ c # NoConn /\ c \in 0 .. MaxConns
    BY <1>2, LobbyFields, Numbering DEF Sound
  <2>2. L.joinedIn[c] = NoRoom /\ L.rooms[r].host = c BY <1>2 DEF Sound, Hosting
  <2>3. /\ hosts \in [Conns -> 0 .. MaxRooms]
        /\ \A d \in Conns : hosts[d] = IF d = c THEN NoRoom ELSE L.hosts[d]
    BY LobbyFields, Numbering DEF Sound
  <2>4. \A d \in Conns : hosts[d] = IF L.hosts[d] = r THEN NoRoom ELSE L.hosts[d]
    BY <1>2, <2>2, <2>3 DEF Sound, Hosting
  <2>5. M = CloseRoom(K, r, c) BY <1>2 DEF RemoveHostedRoom
  <2> HIDE DEF hosts
  <2>6. /\ K \in LobbyRecords /\ K.hosts = hosts
        /\ K.peers = L.peers /\ K.counter = L.counter /\ K.rooms = L.rooms
        /\ K.created = L.created /\ K.joinedIn = L.joinedIn /\ K.partners = L.partners
        /\ K.down = L.down
    BY <2>3 DEF Sound, LobbyRecords
  <2> HIDE DEF K
  <2>7. \A d \in Conns : K.hosts[d] = IF L.hosts[d] = r THEN NoRoom ELSE L.hosts[d]
    BY <2>4, <2>6
  <2>8. /\ Sound(M, B, X) /\ M.peers = L.peers /\ M.counter = L.counter
        /\ M.created = L.created /\ M.hosts = K.hosts
        /\ Closes(L, M, r) /\ Kept(L, M, Conns) /\ Calm(L, M, Conns)
    BY <2>1, <2>2, <2>5, <2>6, <2>7, CloseRoomHolds
  <2>9. \A q \in RoomIds : M.rooms[q] = IF q = r THEN Gone ELSE L.rooms[q]
    BY <2>8 DEF Closes
  <2> QED BY <1>2, <2>3, <2>6, <2>8, <2>9
<1> QED BY <1>1, <1>2

\* The timer of a room nobody hosts.
LEMMA ReclaimTimerHolds ==
  ASSUME NEW L, NEW B, NEW X, Sound(L, B, X), NEW r \in RoomIds, L.rooms[r].timer, NEW M,
         M = ReclaimTimer(L, r)
  PROVE  /\ Sound(M, B, X) /\ M.peers = L.peers /\ M.counter = L.counter
         /\ Kept(L, M, Conns) /\ Calm(L, M, Conns) /\ Keeping(L, M, {})
         /\ Closes(L, M, r) /\ M.created = L.created /\ M.hosts = L.hosts
<1>1. L.rooms[r] \in RoomRecords BY LobbyFields DEF Sound
<1>2. L.rooms[r].open BY GoneType DEF Sound, RoomsSound
<1>3. L.rooms[r].paused /\ L.rooms[r].host = NoConn BY <1>2 DEF Sound, RoomsSound
<1>4. \A c \in Conns : L.hosts[c] # r
  BY <1>3, Numbering DEF Sound, Hosting
<1>5. M = CloseRoom(L, r, NoConn) BY DEF ReclaimTimer
<1>6. NoConn \in 0 .. MaxConns /\ L \in LobbyRecords BY Numbering DEF Sound
<1>7. \A c \in Conns : L.hosts[c] = IF L.hosts[c] = r THEN NoRoom ELSE L.hosts[c] BY <1>4
<1>8. /\ Sound(M, B, X) /\ M.peers = L.peers /\ M.counter = L.counter
      /\ M.created = L.created /\ M.hosts = L.hosts
      /\ Closes(L, M, r) /\ Kept(L, M, Conns) /\ Calm(L, M, Conns)
  BY <1>5, <1>6, <1>7, CloseRoomHolds
<1>9. Keeping(L, M, {}) BY <1>3, <1>8 DEF Keeping, Closes
<1> QED BY <1>8, <1>9

\* Whoever hosts a room leaves it paused, its members in it and its timer running.
LEMMA PauseHostedRoomHolds ==
  ASSUME NEW L, NEW B, NEW X, Sound(L, B, X), NEW c \in Conns, NEW M,
         M = PauseHostedRoom(L, c)
  PROVE  /\ Sound(M, B, X) /\ M.peers = L.peers /\ M.counter = L.counter
         /\ \A d \in Conns : M.hosts[d] = IF d = c THEN NoRoom ELSE L.hosts[d]
         /\ M.created = L.created /\ M.joinedIn = L.joinedIn
         /\ IF L.hosts[c] = NoRoom THEN M = L ELSE Pauses(L, M, L.hosts[c])
         /\ Kept(L, M, Conns) /\ Calm(L, M, Conns) /\ Keeping(L, M, {c})
<1>1. CASE L.hosts[c] = NoRoom
  <2>1. M = L BY <1>1 DEF PauseHostedRoom
  <2> QED BY <1>1, <2>1 DEF Kept, Calm, Keeping
<1>2. CASE L.hosts[c] # NoRoom
  <2> DEFINE r == L.hosts[c]
             guests == L.rooms[r].joined
             hosts == [L.hosts EXCEPT ![c] = NoRoom]
             room == [L.rooms[r] EXCEPT !.paused = TRUE, !.host = NoConn, !.timer = TRUE]
             rooms == [L.rooms EXCEPT ![r] = room]
             P == [L EXCEPT !.hosts = hosts, !.rooms = rooms]
             U == Unlink(P, c, guests)
  <2>1. r \in RoomIds /\ r # NoRoom BY <1>2, LobbyFields, Numbering DEF Sound
  <2>2. L.joinedIn[c] = NoRoom /\ L.rooms[r].host = c BY <1>2 DEF Sound, Hosting
  <2>3. L.rooms[r] \in RoomRecords BY <2>1, LobbyFields DEF Sound
  <2>4. L.rooms[r].open BY <2>1, <2>2, GoneType, Numbering DEF Sound, RoomsSound
  <2>5. /\ hosts \in [Conns -> 0 .. MaxRooms]
        /\ \A d \in Conns : hosts[d] = IF d = c THEN NoRoom ELSE L.hosts[d]
    BY LobbyFields, Numbering DEF Sound
  <2>6. /\ room \in RoomRecords /\ room.paused /\ room.timer /\ room.host = NoConn
        /\ room.open /\ room.joined = L.rooms[r].joined
    BY <2>3, <2>4, Numbering DEF RoomRecords
  <2> HIDE DEF room
  <2>7. /\ rooms \in [RoomIds -> RoomRecords]
        /\ \A q \in RoomIds : rooms[q] = IF q = r THEN room ELSE L.rooms[q]
    BY <2>6, LobbyFields DEF Sound
  <2>8. M = Send(U, guests, Msg("hostaway", r, 0))
    <3> DEFINE paused == [L EXCEPT !.hosts[c] = NoRoom, !.rooms[r].paused = TRUE,
                                   !.rooms[r].host = NoConn, !.rooms[r].timer = TRUE]
    <3>1. M = Send(Unlink(paused, c, guests), guests, Msg("hostaway", r, 0))
      BY <1>2 DEF PauseHostedRoom
    <3>2. paused = P
      <4> DEFINE x0 == L.rooms[r]
                 x1 == [x0 EXCEPT !.paused = TRUE]
                 x2 == [x1 EXCEPT !.host = NoConn]
                 x3 == [x2 EXCEPT !.timer = TRUE]
                 D0 == [L EXCEPT !.hosts = hosts]
                 D1 == [D0 EXCEPT !.rooms = [L.rooms EXCEPT ![r] = x1]]
                 D2 == [D0 EXCEPT !.rooms = [L.rooms EXCEPT ![r] = x2]]
                 D3 == [D0 EXCEPT !.rooms = [L.rooms EXCEPT ![r] = x3]]
      <4>1. L \in LobbyRecords /\ L.rooms \in [RoomIds -> RoomRecords] /\ r \in RoomIds
        BY <2>1, LobbyFields DEF Sound
      <4>2. D0 = [L EXCEPT !.hosts[c] = NoRoom] OBVIOUS
      <4>3. x3 = room BY DEF room
      <4>4. paused = [[[[L EXCEPT !.hosts[c] = NoRoom] EXCEPT !.rooms[r].paused = TRUE]
                        EXCEPT !.rooms[r].host = NoConn] EXCEPT !.rooms[r].timer = TRUE]
        OBVIOUS
      <4> HIDE DEF hosts
      <4>5. \A f : [D0 EXCEPT !.rooms = f].rooms = f
                /\ \A g : [[D0 EXCEPT !.rooms = f] EXCEPT !.rooms = g] = [D0 EXCEPT !.rooms = g]
        BY <4>1 DEF LobbyRecords
      <4>6. D0.rooms = L.rooms BY <4>1 DEF LobbyRecords
      <4>7. \A x, y : /\ [L.rooms EXCEPT ![r] = x][r] = x
                     /\ [[L.rooms EXCEPT ![r] = x] EXCEPT ![r] = y] = [L.rooms EXCEPT ![r] = y]
        BY <4>1
      <4> HIDE DEF D0
      <4>8. [D0 EXCEPT !.rooms[r].paused = TRUE] = D1 BY <4>6
      <4> DEFINE f1 == [L.rooms EXCEPT ![r] = x1]
                 f2 == [L.rooms EXCEPT ![r] = x2]
      <4>9. /\ D1.rooms = f1 /\ f1[r] = x1
             /\ \A x : [f1 EXCEPT ![r] = x] = [L.rooms EXCEPT ![r] = x]
             /\ \A y : [D1 EXCEPT !.rooms = y] = [D0 EXCEPT !.rooms = y]
        BY <4>5, <4>7
      <4>10. /\ D2.rooms = f2 /\ f2[r] = x2
             /\ \A x : [f2 EXCEPT ![r] = x] = [L.rooms EXCEPT ![r] = x]
             /\ \A y : [D2 EXCEPT !.rooms = y] = [D0 EXCEPT !.rooms = y]
        BY <4>5, <4>7
      <4> HIDE DEF x1, f1, D1
      <4>11. [D1 EXCEPT !.rooms[r].host = NoConn] = D2 BY <4>9
      <4> HIDE DEF x2, f2, D2
      <4>12. [D2 EXCEPT !.rooms[r].timer = TRUE] = D3 BY <4>10
      <4> HIDE DEF x3
      <4> QED BY <4>2, <4>3, <4>4, <4>8, <4>11, <4>12 DEF P, D0, D3
    <3> HIDE DEF paused, P
    <3> QED BY <3>1, <3>2
  <2>9. guests = {d \in Conns : L.joinedIn[d] = r} BY <2>1 DEF Sound, Members
  <2> HIDE DEF hosts, rooms, guests
  <2>10. /\ P \in LobbyRecords /\ P.hosts = hosts /\ P.rooms = rooms
         /\ P.peers = L.peers /\ P.counter = L.counter /\ P.created = L.created
         /\ P.joinedIn = L.joinedIn /\ P.partners = L.partners /\ P.down = L.down
    BY <2>5, <2>7 DEF Sound, LobbyRecords
  <2> HIDE DEF P
  <2>11. Sound(P, B, X)
    <3>1. RoomsSound(P)
      <4> SUFFICES ASSUME NEW q \in RoomIds, q # r, P.rooms[q].open, ~P.rooms[q].paused
                   PROVE  P.hosts[P.rooms[q].host] = q
        <5>1. L.created \in Nat /\ \A q \in RoomIds : q \in Nat
          BY LobbyFields, Numbering DEF Sound
        <5>2. ~(r > L.created) BY <2>1, <2>4, GoneType DEF Sound, RoomsSound
        <5> QED BY <2>1, <2>4, <2>6, <2>7, <2>10, <5>1, <5>2 DEF Sound, RoomsSound
      <4>1. L.rooms[q] \in RoomRecords BY LobbyFields DEF Sound
      <4>2. L.rooms[q].host \in Conns \cup {NoConn} BY <4>1, Numbering DEF RoomRecords
      <4> QED BY <2>5, <2>7, <2>10, <4>2 DEF Sound, RoomsSound
    <3>2. Members(P) BY <2>1, <2>6, <2>7, <2>10 DEF Sound, Members
    <3>3. Hosting(P)
      <4> SUFFICES ASSUME NEW d \in Conns, P.hosts[d] # NoRoom
                   PROVE  P.rooms[P.hosts[d]].host = d /\ P.joinedIn[d] = NoRoom
        BY DEF Hosting
      <4>1. d # c /\ P.hosts[d] = L.hosts[d] BY <2>5, <2>10
      <4>2. L.hosts[d] \in RoomIds BY <2>10, <4>1, LobbyFields, Numbering DEF Sound
      <4>3. L.rooms[L.hosts[d]].host = d /\ L.joinedIn[d] = NoRoom
        BY <4>1 DEF Sound, Hosting
      <4>4. L.hosts[d] # r BY <2>2, <4>1, <4>3
      <4> QED BY <2>7, <2>10, <4>1, <4>2, <4>3, <4>4
    <3>4. Linked(P, B) BY <2>6, <2>7, <2>10 DEF Sound, Linked
    <3>5. Symmetric(P) BY <2>10 DEF Sound, Symmetric
    <3>6. Forgotten(P, X) BY <2>5, <2>10 DEF Sound, Forgotten
    <3> QED BY <2>10, <3>1, <3>2, <3>3, <3>4, <3>5, <3>6 DEF Sound
  <2>12. Sound(U, B, X)
    <3>1. P.joinedIn[c] = NoRoom BY <2>2, <2>10
    <3>2. P.hosts[c] = NoRoom BY <2>5, <2>10
    <3>3. \A d \in guests : d \in Conns /\ P.joinedIn[d] = r BY <2>9, <2>10
    <3> QED BY <2>1, <2>9, <2>11, <3>1, <3>2, <3>3, UnlinkKeeps
  <2>13. /\ U \in LobbyRecords /\ U.rooms = P.rooms /\ U.joinedIn = P.joinedIn
         /\ U.peers = P.peers /\ U.counter = P.counter /\ U.hosts = P.hosts
         /\ U.created = P.created /\ U.down = P.down
    BY <2>10, UnlinkIs
  <2> HIDE DEF U
  <2>14. Msg("hostaway", r, 0) \in Messages /\ Msg("hostaway", r, 0).t = "hostaway"
    BY <2>1, MessageTypes, Numbering DEF NoConn
  <2>15. Sound(M, B, X) /\ SameTables(U, M)
    BY <2>8, <2>12, <2>13, <2>14, SendKeeps, SendIs
  <2>16. Kept(L, P, Conns) BY <2>5, <2>10, TablesKept
  <2>17. Kept(P, U, Conns) BY <2>13, TablesKept
  <2>18. Kept(U, M, Conns) BY <2>8, <2>13, <2>14, SendKept DEF Kept
  <2>19. Kept(L, M, Conns) BY <2>16, <2>17, <2>18, KeptTwice
  <2>20. Calm(L, U, Conns) BY <2>5, <2>10, <2>13, TablesCalm
  <2>21. Calm(U, M, Conns) BY <2>8, <2>13, <2>14, SendCalm
  <2>22. Calm(L, M, Conns) BY <2>20, <2>21, CalmTwice
  <2>23. Keeping(L, M, {c})
    BY <2>2, <2>7, <2>10, <2>13, <2>15 DEF Keeping, SameTables
  <2>24. Told(L, M, guests, Msg("hostaway", r, 0))
    BY <2>8, <2>10, <2>13, <2>14, SendIs DEF Told
  <2>25. Pauses(L, M, r)
    BY <2>1, <2>6, <2>7, <2>9, <2>10, <2>13, <2>15, <2>24 DEF Pauses, SameTables
  <2> QED BY <1>2, <2>5, <2>10, <2>13, <2>15, <2>19, <2>22, <2>23, <2>25 DEF SameTables
<1> QED BY <1>1, <1>2

\* Whoever joined a room leaves it, and its link with the host.
LEMMA LeaveJoinedRoomHolds ==
  ASSUME NEW L, NEW B, NEW X, Sound(L, B, X), NEW c \in Conns, L.hosts[c] = NoRoom, NEW M,
         M = LeaveJoinedRoom(L, c)
  PROVE  /\ Sound(M, B, X) /\ M.peers = L.peers /\ M.counter = L.counter
         /\ M.hosts = L.hosts /\ M.created = L.created
         /\ \A d \in Conns : M.joinedIn[d] = IF d = c THEN NoRoom ELSE L.joinedIn[d]
         /\ IF L.joinedIn[c] = NoRoom THEN M = L ELSE Leaves(L, M, L.joinedIn[c], c)
         /\ \A q \in RoomIds : q # L.joinedIn[c] => M.rooms[q] = L.rooms[q]
         /\ Kept(L, M, Conns) /\ Calm(L, M, Conns) /\ SameHosts(L, M)
<1>1. CASE L.joinedIn[c] = NoRoom
  <2>1. M = L BY <1>1 DEF LeaveJoinedRoom
  <2> QED BY <1>1, <2>1 DEF Kept, Calm, SameHosts
<1>2. CASE L.joinedIn[c] # NoRoom
  <2> DEFINE r == L.joinedIn[c]
             host == L.rooms[r].host
             joinedIn == [L.joinedIn EXCEPT ![c] = NoRoom]
             room == [L.rooms[r] EXCEPT !.joined = @ \ {c}]
             rooms == [L.rooms EXCEPT ![r] = room]
             F == [L EXCEPT !.joinedIn = joinedIn, !.rooms = rooms]
  <2>1. r \in RoomIds /\ r # NoRoom BY <1>2, LobbyFields, Numbering DEF Sound
  <2>2. L.rooms[r] \in RoomRecords BY <2>1, LobbyFields DEF Sound
  <2>3. c \in L.rooms[r].joined BY <2>1 DEF Sound, Members
  <2>4. L.rooms[r].open BY <2>1, <2>3, GoneType DEF Sound, RoomsSound
  <2>5. /\ joinedIn \in [Conns -> 0 .. MaxRooms]
        /\ \A d \in Conns : joinedIn[d] = IF d = c THEN NoRoom ELSE L.joinedIn[d]
    BY LobbyFields, Numbering DEF Sound
  <2>6. /\ room \in RoomRecords /\ (room.paused <=> L.rooms[r].paused)
        /\ (room.timer <=> L.rooms[r].timer) /\ room.host = L.rooms[r].host
        /\ room.open /\ room.joined = L.rooms[r].joined \ {c}
    BY <2>2, <2>4 DEF RoomRecords
  <2> HIDE DEF room
  <2>7. /\ rooms \in [RoomIds -> RoomRecords]
        /\ \A q \in RoomIds : rooms[q] = IF q = r THEN room ELSE L.rooms[q]
    BY <2>6, LobbyFields DEF Sound
  <2>8. M = IF host \notin L.peers THEN F
            ELSE Send(Unlink(F, c, {host}), {host}, Msg("peerleft", 0, c))
    BY <1>2 DEF LeaveJoinedRoom, room
  <2>9. host \in Conns \cup {NoConn} BY <2>2, Numbering DEF RoomRecords
  <2> HIDE DEF joinedIn, rooms, host
  <2>10. /\ F \in LobbyRecords /\ F.joinedIn = joinedIn /\ F.rooms = rooms
         /\ F.peers = L.peers /\ F.counter = L.counter /\ F.created = L.created
         /\ F.hosts = L.hosts /\ F.partners = L.partners /\ F.down = L.down
    BY <2>5, <2>7 DEF Sound, LobbyRecords
  <2> HIDE DEF F
  <2>11. Sound(F, B, X)
    <3>1. RoomsSound(F)
      <4>1. L.created \in Nat /\ \A q \in RoomIds : q \in Nat
        BY LobbyFields, Numbering DEF Sound
      <4>2. ~(r > L.created) BY <2>1, <2>4, GoneType DEF Sound, RoomsSound
      <4> QED BY <2>1, <2>4, <2>6, <2>7, <2>10, <4>1, <4>2 DEF Sound, RoomsSound
    <3>2. Members(F)
      <4> SUFFICES ASSUME NEW q \in RoomIds
                   PROVE  F.rooms[q].joined = {d \in Conns : F.joinedIn[d] = q}
        BY DEF Members
      <4>1. L.rooms[q].joined = {d \in Conns : L.joinedIn[d] = q} BY DEF Sound, Members
      <4>2. q # NoRoom BY Numbering
      <4> QED BY <2>1, <2>5, <2>6, <2>7, <2>10, <4>1, <4>2
    <3>3. Hosting(F)
      <4> SUFFICES ASSUME NEW d \in Conns, F.hosts[d] # NoRoom
                   PROVE  F.rooms[F.hosts[d]].host = d /\ F.joinedIn[d] = NoRoom
        BY DEF Hosting
      <4>1. L.hosts[d] \in RoomIds BY <2>10, LobbyFields, Numbering DEF Sound
      <4> QED BY <2>5, <2>6, <2>7, <2>10, <4>1 DEF Sound, Hosting
    <3>4. Linked(F, B) BY <2>6, <2>7, <2>10 DEF Sound, Linked
    <3>5. Symmetric(F) BY <2>10 DEF Sound, Symmetric
    <3>6. Forgotten(F, X) BY <2>5, <2>10 DEF Sound, Forgotten
    <3> QED BY <2>10, <3>1, <3>2, <3>3, <3>4, <3>5, <3>6 DEF Sound
  <2>12. /\ Kept(L, F, Conns) /\ Calm(L, F, Conns)
         /\ SameHosts(L, F)
    BY <2>4, <2>5, <2>6, <2>7, <2>10, TablesKept, TablesCalm DEF SameHosts
  <2>13. CASE host \notin L.peers
    <3>1. M = F BY <2>8, <2>13
    <3>2. Leaves(L, M, r, c)
      <4>1. Told(L, M, {host}, Msg("peerleft", 0, c)) BY <2>10, <2>13, <3>1 DEF Told
      <4> QED BY <2>1, <2>6, <2>7, <2>10, <3>1, <4>1 DEF Leaves, host
    <3> QED BY <1>2, <2>5, <2>7, <2>10, <2>11, <2>12, <3>1, <3>2
  <2>14. CASE host \in L.peers
    <3> DEFINE U == Unlink(F, c, {host})
    <3>1. host \in Conns BY <2>14, LobbyFields DEF Sound
    <3>2. Sound(U, B, X)
      <4>1. F.joinedIn[c] = NoRoom /\ F.hosts[c] = NoRoom BY <2>5, <2>10
      <4> QED BY <2>11, <3>1, <4>1, UnlinkKeeps
    <3>3. /\ U \in LobbyRecords /\ U.rooms = F.rooms /\ U.joinedIn = F.joinedIn
          /\ U.peers = F.peers /\ U.counter = F.counter /\ U.hosts = F.hosts
          /\ U.created = F.created /\ U.down = F.down
      BY <2>10, UnlinkIs
    <3>4. M = Send(U, {host}, Msg("peerleft", 0, c)) BY <2>8, <2>14
    <3> HIDE DEF U
    <3>5. Msg("peerleft", 0, c) \in Messages /\ Msg("peerleft", 0, c).t = "peerleft"
      BY MessageTypes, Numbering DEF NoRoom
    <3>6. Sound(M, B, X) /\ SameTables(U, M)
      BY <3>2, <3>3, <3>4, <3>5, SendKeeps, SendIs
    <3>7. Kept(F, U, Conns) BY <3>3, TablesKept
    <3>8. Kept(U, M, Conns) BY <3>3, <3>4, <3>5, SendKept DEF Kept
    <3>9. Kept(L, M, Conns) BY <2>12, <3>7, <3>8, KeptTwice
    <3>10. Calm(F, U, Conns) BY <3>3, TablesCalm
    <3>11. Calm(U, M, Conns) BY <3>3, <3>4, <3>5, SendCalm
    <3>12. Calm(L, M, Conns) BY <2>12, <3>10, <3>11, CalmTwice
    <3>13. SameHosts(L, M) BY <2>12, <3>3, <3>6 DEF SameHosts, SameTables
    <3>14. Leaves(L, M, r, c)
      <4>1. Told(L, M, {host}, Msg("peerleft", 0, c))
        BY <2>10, <3>3, <3>4, <3>5, SendIs DEF Told
      <4> QED BY <2>1, <2>6, <2>7, <2>10, <3>3, <3>6, <4>1 DEF Leaves, host, SameTables
    <3> QED BY <1>2, <2>5, <2>7, <2>10, <3>3, <3>6, <3>9, <3>12, <3>13, <3>14 DEF SameTables
  <2> QED BY <2>13, <2>14
<1> QED BY <1>1, <1>2

\* A connection that is gone takes everything with it.
LEMMA CleanupConnectionHolds ==
  ASSUME NEW L, NEW B, Sound(L, B, {}), NEW c \in L.peers, NEW M,
         M = CleanupConnection(L, c)
  PROVE  /\ Sound(M, B, {}) /\ M.peers = L.peers \ {c} /\ M.counter = L.counter
         /\ Kept(L, M, Conns) /\ Calm(L, M, Conns) /\ Keeping(L, M, {c})
         /\ \E A : Sound(A, B, {c}) /\ Ends(L, A, M, c)
<1> DEFINE peers == L.peers \ {c}
           down == [L.down EXCEPT ![c] = <<>>]
           A == [L EXCEPT !.peers = peers, !.down = down]
           P == PauseHostedRoom(A, c)
           G == LeaveJoinedRoom(P, c)
           all == G.partners[c]
<1>1. c \in Conns BY LobbyFields DEF Sound
<1>2. /\ down \in [Conns -> Seq(Messages)]
      /\ \A d \in Conns : down[d] = IF d = c THEN <<>> ELSE L.down[d]
  <2>1. L.down \in [Conns -> Seq(Messages)] BY LobbyFields DEF Sound
  <2>2. <<>> \in Seq(Messages) OBVIOUS
  <2> QED BY <2>1, <2>2
<1>3. peers \in SUBSET Conns BY LobbyFields DEF Sound
<1>4. M = Unlink(G, c, all) BY DEF CleanupConnection
<1> HIDE DEF down
<1>5. /\ A \in LobbyRecords /\ A.peers = peers /\ A.down = down /\ A.counter = L.counter
      /\ A.rooms = L.rooms /\ A.created = L.created /\ A.hosts = L.hosts
      /\ A.joinedIn = L.joinedIn /\ A.partners = L.partners
  <2> HIDE DEF peers
  <2> QED BY <1>2, <1>3 DEF Sound, LobbyRecords
<1> HIDE DEF A
<1>6. Sound(A, B, {c})
  <2>1. RoomsSound(A) /\ Members(A) /\ Hosting(A) /\ Linked(A, B) /\ Symmetric(A)
    BY <1>5 DEF Sound, RoomsSound, Members, Hosting, Linked, Symmetric
  <2>2. Forgotten(A, {c}) BY <1>2, <1>5 DEF Sound, Forgotten
  <2> QED BY <1>5, <2>1, <2>2 DEF Sound
<1>7. Kept(L, A, Conns) /\ Calm(L, A, Conns) BY <1>2, <1>5, TablesKept, TablesCalm
<1>8. /\ Sound(P, B, {c}) /\ P.peers = A.peers /\ P.counter = A.counter
      /\ P.hosts[c] = NoRoom /\ Kept(A, P, Conns) /\ Calm(A, P, Conns) /\ Keeping(A, P, {c})
      /\ \A d \in Conns : P.hosts[d] = IF d = c THEN NoRoom ELSE A.hosts[d]
      /\ P.created = A.created /\ P.joinedIn = A.joinedIn
      /\ IF A.hosts[c] = NoRoom THEN P = A ELSE Pauses(A, P, A.hosts[c])
  BY <1>1, <1>6, PauseHostedRoomHolds
<1> HIDE DEF P
<1>9. /\ Sound(G, B, {c}) /\ G.peers = P.peers /\ G.counter = P.counter
      /\ G.hosts = P.hosts /\ G.joinedIn[c] = NoRoom /\ Kept(P, G, Conns)
      /\ Calm(P, G, Conns) /\ SameHosts(P, G)
      /\ G.created = P.created
      /\ \A d \in Conns : G.joinedIn[d] = IF d = c THEN NoRoom ELSE P.joinedIn[d]
      /\ IF P.joinedIn[c] = NoRoom THEN G = P ELSE Leaves(P, G, P.joinedIn[c], c)
  BY <1>1, <1>8, LeaveJoinedRoomHolds
<1> HIDE DEF G
<1>10. all \in SUBSET Conns BY <1>1, <1>9, LobbyFields DEF Sound
<1>11. Sound(M, B, {c})
  <2>1. G.hosts[c] = NoRoom /\ G.joinedIn[c] = NoRoom BY <1>8, <1>9
  <2> QED BY <1>1, <1>4, <1>9, <1>10, <2>1, UnlinkKeeps
<1>12. /\ M.peers = G.peers /\ M.counter = G.counter /\ M.hosts = G.hosts
       /\ M.joinedIn = G.joinedIn /\ M.down = G.down /\ M.rooms = G.rooms
       /\ M.created = G.created /\ M.partners[c] = {}
  <2>1. G \in LobbyRecords BY <1>9 DEF Sound
  <2>2. M.partners[c] = G.partners[c] \ all BY <1>1, <1>4, <2>1, UnlinkIs
  <2>3. M.partners[c] = {} BY <2>2
  <2> QED BY <1>1, <1>4, <2>1, <2>3, UnlinkIs
<1>13. Sound(M, B, {})
  BY <1>8, <1>9, <1>11, <1>12 DEF Sound, Forgotten
<1>14. Kept(G, M, Conns) BY <1>12, TablesKept
<1>15. Kept(L, M, Conns) BY <1>7, <1>8, <1>9, <1>14, KeptTwice
<1>16. Calm(G, M, Conns) BY <1>12, TablesCalm
<1>17. Calm(L, M, Conns) BY <1>7, <1>8, <1>9, <1>16, CalmTwice
<1>18. Keeping(L, M, {c}) BY <1>5, <1>8, <1>9, <1>12 DEF Keeping, SameHosts
<1>19. Ends(L, A, M, c)
  <2>1. /\ M.created = L.created
        /\ \A d \in Conns :
             /\ M.hosts[d] = IF d = c THEN NoRoom ELSE L.hosts[d]
             /\ M.joinedIn[d] = IF d = c THEN NoRoom ELSE L.joinedIn[d]
    BY <1>5, <1>8, <1>9, <1>12
  <2>2. \A d \in Conns : A.down[d] = IF d = c THEN <<>> ELSE L.down[d] BY <1>2, <1>5
  <2>3. L.hosts[c] # NoRoom => L.joinedIn[c] = NoRoom BY <1>1 DEF Sound, Hosting
  <2>4. CASE L.hosts[c] # NoRoom
    <3>1. Pauses(A, P, L.hosts[c]) /\ G = P BY <1>5, <1>8, <1>9, <2>3, <2>4
    <3>2. Pauses(A, M, L.hosts[c]) BY <1>12, <3>1 DEF Pauses, Told
    <3> QED BY <1>5, <2>1, <2>2, <2>3, <2>4, <3>2 DEF Ends
  <2>5. CASE L.hosts[c] = NoRoom /\ L.joinedIn[c] # NoRoom
    <3>1. P = A /\ Leaves(A, G, L.joinedIn[c], c) BY <1>5, <1>8, <1>9, <2>5
    <3>2. Leaves(A, M, L.joinedIn[c], c) BY <1>12, <3>1 DEF Leaves, Told
    <3> QED BY <1>5, <2>1, <2>2, <2>5, <3>2 DEF Ends
  <2>6. CASE L.hosts[c] = NoRoom /\ L.joinedIn[c] = NoRoom
    <3>1. P = A /\ G = A BY <1>5, <1>8, <1>9, <2>6
    <3> QED BY <1>5, <1>12, <2>1, <2>2, <2>6, <3>1 DEF Ends
  <2> QED BY <2>4, <2>5, <2>6
<1> QED BY <1>5, <1>6, <1>8, <1>9, <1>12, <1>13, <1>15, <1>17, <1>18, <1>19

----------------------------------------------------------------------------
(* Messages of a connection.                                               *)

\* A new connection is in no table yet.
LEMMA OnConnectionHolds ==
  ASSUME NEW L, NEW B, Sound(L, B, {}), NEW c \in Conns, c = L.counter + 1, NEW M,
         M = OnConnection(L, c)
  PROVE  /\ Sound(M, B, {}) /\ M.peers = L.peers \cup {c} /\ M.counter = c
         /\ Kept(L, M, Conns) /\ Calm(L, M, Conns \ {c}) /\ Keeping(L, M, {})
         /\ HostLike(M, c) /\ GuestLike(M, c) /\ Answered(M, c)
         /\ Arrives(L, M, c)
<1> DEFINE peers == L.peers \cup {c}
           A == [L EXCEPT !.counter = c, !.peers = peers]
<1>1. L.counter \in Nat /\ c \in 0 .. MaxConns /\ peers \in SUBSET Conns /\ c \in Nat
  BY LobbyFields, Numbering DEF Sound
<1>2. M = Send(A, {c}, Msg("welcome", 0, c)) BY DEF OnConnection
<1>3. c \notin L.peers BY <1>1 DEF Sound
<1>4. L.hosts[c] = NoRoom /\ L.joinedIn[c] = NoRoom /\ L.down[c] = <<>>
  BY <1>3 DEF Sound, Forgotten
<1>5. peers \subseteq 1 .. c BY <1>1 DEF Sound
<1> HIDE DEF peers
<1>6. /\ A \in LobbyRecords /\ A.peers = peers /\ A.counter = c /\ A.down = L.down
      /\ A.rooms = L.rooms /\ A.created = L.created /\ A.hosts = L.hosts
      /\ A.joinedIn = L.joinedIn /\ A.partners = L.partners
  BY <1>1 DEF Sound, LobbyRecords
<1> HIDE DEF A
<1>7. Sound(A, B, {})
  <2>1. RoomsSound(A) /\ Members(A) /\ Hosting(A) /\ Linked(A, B) /\ Symmetric(A)
    BY <1>6 DEF Sound, RoomsSound, Members, Hosting, Linked, Symmetric
  <2>2. Forgotten(A, {}) BY <1>6 DEF Sound, Forgotten, peers
  <2> QED BY <1>5, <1>6, <2>1, <2>2 DEF Sound
<1>8. Kept(L, A, Conns) BY <1>6, TablesKept
<1>9. HostLike(A, c) /\ GuestLike(A, c)
  <2>1. <<>> \in Seq(HostMessages) /\ <<>> \in Seq(GuestMessages) OBVIOUS
  <2> QED BY <1>4, <1>6, <2>1 DEF HostLike, GuestLike
<1>10. Msg("welcome", 0, c) \in Messages /\ Msg("welcome", 0, c).t = "welcome"
  BY <1>1, MessageTypes, Numbering DEF NoRoom
<1>11. Sound(M, B, {}) /\ SameTables(A, M) BY <1>2, <1>6, <1>7, <1>10, SendKeeps, SendIs
<1>12. Kept(A, M, Conns) BY <1>2, <1>6, <1>10, SendKept DEF Kept
<1>13. HostLike(M, c) /\ GuestLike(M, c) BY <1>9, <1>12 DEF Kept
<1>14. Kept(L, M, Conns) BY <1>8, <1>12, KeptTwice
<1>15. Calm(L, M, Conns \ {c})
  <2>1. Calm(L, A, Conns \ {c}) BY <1>6, TablesCalm
  <2>2. Calm(A, M, Conns \ {c}) BY <1>2, <1>6, <1>10, SendCalm
  <2> QED BY <2>1, <2>2, CalmTwice
<1>16. Answered(M, c)
  <2>1. Prompts(A, c) = {} /\ A.hosts[c] = NoRoom
    <3>1. DOMAIN A.down[c] = {} BY <1>4, <1>6
    <3> QED BY <1>4, <1>6, <3>1 DEF Prompts
  <2> QED BY <1>2, <1>6, <1>10, <2>1, SendPrompts
<1>17. Keeping(L, M, {}) BY <1>6, <1>11 DEF Keeping, SameTables
<1>18. \A d \in Conns : M.down[d] = IF d \in ({c} \cap A.peers) \ broken
                                   THEN Append(L.down[d], Msg("welcome", 0, c)) ELSE L.down[d]
  BY <1>2, <1>6, <1>10, SendIs
<1>19. M.down[c] \in {<<>>, <<Msg("welcome", 0, c)>>}
  <2>1. \A m : Append(<<>>, m) = <<m>> OBVIOUS
  <2> QED BY <1>4, <1>18, <2>1
<1>20. Arrives(L, M, c)
  <2>1. /\ M.rooms = L.rooms /\ M.created = L.created /\ M.hosts = L.hosts
        /\ M.joinedIn = L.joinedIn
    BY <1>6, <1>11 DEF SameTables
  <2>2. \A d \in Conns \ {c} : M.down[d] = L.down[d] BY <1>6, <1>18
  <2> QED BY <1>4, <1>19, <2>1, <2>2 DEF Arrives
<1> QED BY <1>6, <1>11, <1>13, <1>14, <1>15, <1>16, <1>17, <1>20 DEF SameTables, peers

\* What a message of a page that hosts, or of one that joins, may do.
Served(L, M, B, c) ==
  /\ Sound(M, B, {}) /\ M.peers = L.peers /\ M.counter = L.counter
  /\ Kept(L, M, Conns \ {c}) /\ Calm(L, M, Conns \ {c})
HostServed(L, M, B, c) ==
  Served(L, M, B, c) /\ HostLike(M, c) /\ (Idle(L, c) => Fulfilled(M, c) /\ Keeping(L, M, {}))
GuestServed(L, M, B, c) == Served(L, M, B, c) /\ GuestLike(M, c) /\ Keeping(L, M, {})

\* c hosts the new room r.
Opens(L, M, c, r) ==
  /\ r \in RoomIds /\ r = L.created + 1 /\ L.rooms[r] = Gone /\ M.created = r
  /\ \A q \in RoomIds \ {r} : M.rooms[q] = L.rooms[q]
  /\ M.rooms[r].joined = {}
  /\ \A d \in Conns : M.hosts[d] = IF d = c THEN r ELSE L.hosts[d]
  /\ M.joinedIn = L.joinedIn /\ Told(L, M, {c}, Msg("hosted", r, 0))

\* c hosts room r now, and who was in it is to join again.
TakesOver(L, M, c, r) ==
  /\ r \in RoomIds /\ M.created = L.created
  /\ \A q \in RoomIds \ {r} : M.rooms[q] = L.rooms[q]
  /\ M.rooms[r].joined = {}
  /\ \A d \in Conns :
       /\ M.hosts[d] = IF d = c THEN r
                       ELSE IF L.hosts[d] = r THEN NoRoom ELSE L.hosts[d]
       /\ M.joinedIn[d] = IF L.joinedIn[d] = r THEN NoRoom ELSE L.joinedIn[d]
       /\ M.down[d] = IF d \notin L.peers \ broken THEN L.down[d]
                       ELSE IF d = c THEN Append(L.down[d], Msg("hosted", r, 0))
                       ELSE IF L.joinedIn[d] = r
                         THEN Append(L.down[d], Msg("hostback", r, 0))
                       ELSE L.down[d]

\* c is in room r now.
Enters(L, M, c, r) ==
  LET host == L.rooms[r].host IN
  /\ r \in RoomIds /\ host \in L.peers /\ host # c /\ L.hosts[host] = r
  /\ M.created = L.created /\ M.hosts = L.hosts
  /\ \A q \in RoomIds \ {r} : M.rooms[q] = L.rooms[q]
  /\ M.rooms[r].host = host /\ M.rooms[r].joined = L.rooms[r].joined \cup {c}
  /\ \A d \in Conns :
       /\ M.joinedIn[d] = IF d = c THEN r ELSE L.joinedIn[d]
       /\ M.down[d] = IF d \notin L.peers \ broken THEN L.down[d]
                       ELSE IF d = c THEN Append(L.down[d], Msg("joined", r, host))
                       ELSE IF d = host THEN Append(L.down[d], Msg("peer", 0, c))
                       ELSE L.down[d]

\* c is told why not.
Refuses(L, M, c, code) ==
  SameTables(L, M) /\ Told(L, M, {c}, [t |-> "error", code |-> code])

\* A refusal changes nothing.
LEMMA RefuseHolds ==
  ASSUME NEW L, NEW B, Sound(L, B, {}), NEW c \in Conns,
         NEW code \in {"noroom", "toomanyrooms", "self", "hostaway", "full"}, NEW M,
         M = Refuse(L, c, code)
  PROVE  /\ Sound(M, B, {}) /\ M.peers = L.peers /\ M.counter = L.counter
         /\ Kept(L, M, Conns) /\ Calm(L, M, Conns \ {c}) /\ M.rooms = L.rooms
         /\ Idle(L, c) => Fulfilled(M, c)
         /\ Refuses(L, M, c, code)
<1> DEFINE m == [t |-> "error", code |-> code]
<1>1. m \in Messages /\ m.t = "error" BY MessageTypes
<1>2. M = Send(L, {c}, m) /\ L \in LobbyRecords BY DEF Refuse, Sound
<1> HIDE DEF m
<1>3. Sound(M, B, {}) /\ SameTables(L, M) BY <1>1, <1>2, SendKeeps, SendIs
<1>4. Kept(L, M, Conns) BY <1>1, <1>2, SendKept DEF Kept
<1>5. Calm(L, M, Conns \ {c}) BY <1>1, <1>2, SendCalm
<1>6. Idle(L, c) => Fulfilled(M, c) BY <1>1, <1>2, SendPrompts DEF Idle, Fulfilled
<1>7. Told(L, M, {c}, m) BY <1>1, <1>2, SendIs DEF Told
<1>8. Refuses(L, M, c, code) BY <1>3, <1>7 DEF Refuses, m
<1> QED BY <1>3, <1>4, <1>5, <1>6, <1>8 DEF SameTables

\* A new room, in place of the one the connection hosted.
LEMMA HostHolds ==
  ASSUME NEW L, NEW B, Sound(L, B, {}), NEW c \in L.peers, HostLike(L, c), NEW M,
         M = Host(L, c)
  PROVE  /\ HostServed(L, M, B, c)
         /\ Idle(L, c) => Refuses(L, M, c, "toomanyrooms") \/ \E r \in RoomIds : Opens(L, M, c, r)
<1>0. c \in Conns BY LobbyFields DEF Sound
<1> DEFINE W == RemoveHostedRoom(L, c)
           r == W.created + 1
           room == [Gone EXCEPT !.open = TRUE, !.host = c]
           rooms == [W.rooms EXCEPT ![r] = room]
           hosts == [W.hosts EXCEPT ![c] = r]
           K == [W EXCEPT !.created = r, !.rooms = rooms, !.hosts = hosts]
<1>1. /\ Sound(W, B, {}) /\ W.peers = L.peers /\ W.counter = L.counter
      /\ \A d \in Conns : W.hosts[d] = IF d = c THEN NoRoom ELSE L.hosts[d]
      /\ Kept(L, W, Conns) /\ Calm(L, W, Conns)
      /\ Idle(L, c) => W = L
  <2>1. Idle(L, c) => W = L BY DEF Idle, RemoveHostedRoom
  <2>2. W = RemoveHostedRoom(L, c) OBVIOUS
  <2> HIDE DEF W
  <2> QED BY <1>0, <2>1, <2>2, RemoveHostedRoomHolds
<1>2. \/ M = Refuse(L, c, "toomanyrooms")
      \/ M = Refuse(W, c, "toomanyrooms")
      \/ r \in RoomIds /\ M = Send(K, {c}, Msg("hosted", r, 0))
  BY DEF Host
<1> HIDE DEF W
<1>3. HostLike(W, c) BY <1>0, <1>1 DEF Kept
<1>4. CASE M = Refuse(L, c, "toomanyrooms")
  <2>1. /\ Sound(M, B, {}) /\ M.peers = L.peers /\ M.counter = L.counter
        /\ Kept(L, M, Conns) /\ Calm(L, M, Conns \ {c}) /\ M.rooms = L.rooms
        /\ Idle(L, c) => Fulfilled(M, c)
        /\ Refuses(L, M, c, "toomanyrooms")
    BY <1>0, <1>4, RefuseHolds
  <2> QED BY <1>0, <2>1 DEF HostServed, Served, Kept, Keeping
<1>5. CASE M = Refuse(W, c, "toomanyrooms")
  <2>1. /\ Sound(M, B, {}) /\ M.peers = W.peers /\ M.counter = W.counter
        /\ Kept(W, M, Conns) /\ Calm(W, M, Conns \ {c}) /\ M.rooms = W.rooms
        /\ Idle(W, c) => Fulfilled(M, c)
        /\ Refuses(W, M, c, "toomanyrooms")
    BY <1>0, <1>1, <1>5, RefuseHolds
  <2>2. Kept(L, M, Conns) BY <1>1, <2>1, KeptTwice
  <2>3. Calm(L, M, Conns \ {c}) BY <1>1, <2>1, CalmTwice DEF Calm
  <2>4. Idle(L, c) => Fulfilled(M, c) /\ Keeping(L, M, {}) BY <1>1, <2>1 DEF Keeping
  <2> QED BY <1>0, <1>1, <2>1, <2>2, <2>3, <2>4 DEF HostServed, Served, Kept
<1>6. CASE r \in RoomIds /\ M = Send(K, {c}, Msg("hosted", r, 0))
  <2>1. W.created \in Nat /\ r > W.created /\ r \in 0 .. MaxRooms /\ r # NoRoom
    BY <1>1, <1>6, LobbyFields, Numbering DEF Sound
  <2>2. W.rooms[r] = Gone BY <1>1, <1>6, <2>1 DEF Sound, RoomsSound
  <2>3. /\ room \in RoomRecords /\ room.open /\ room.host = c /\ ~room.paused /\ ~room.timer
        /\ room.joined = {}
    BY <1>0, Numbering DEF Gone, RoomRecords
  <2> HIDE DEF r, room
  <2>4. /\ rooms \in [RoomIds -> RoomRecords]
        /\ \A q \in RoomIds : rooms[q] = IF q = r THEN room ELSE W.rooms[q]
    BY <1>1, <1>6, <2>3, LobbyFields DEF Sound
  <2>5. /\ hosts \in [Conns -> 0 .. MaxRooms]
        /\ \A d \in Conns : hosts[d] = IF d = c THEN r ELSE W.hosts[d]
    BY <1>1, <2>1, LobbyFields DEF Sound
  <2> HIDE DEF rooms, hosts
  <2>6. /\ K \in LobbyRecords /\ K.created = r /\ K.rooms = rooms /\ K.hosts = hosts
        /\ K.peers = W.peers /\ K.counter = W.counter /\ K.joinedIn = W.joinedIn
        /\ K.partners = W.partners /\ K.down = W.down
    BY <1>1, <2>1, <2>4, <2>5 DEF Sound, LobbyRecords
  <2> HIDE DEF K
  <2>7. \A d \in Conns : W.hosts[d] # r
    <3>1. ASSUME NEW d \in Conns, W.hosts[d] = r PROVE FALSE
      <4>1. W.rooms[r].host = d BY <1>1, <2>1, <3>1 DEF Sound, Hosting
      <4> QED BY <2>2, <4>1, GoneType, Numbering
    <3> QED BY <3>1
  <2>8. RoomsSound(K)
    <3>1. ASSUME NEW q \in RoomIds, q # r, K.rooms[q].open, ~K.rooms[q].paused
          PROVE  K.hosts[K.rooms[q].host] = q
      <4>1. K.rooms[q] = W.rooms[q] BY <2>4, <2>6, <3>1
      <4>2. W.rooms[q] \in RoomRecords BY <1>1, LobbyFields DEF Sound
      <4>3. W.rooms[q].host \in Conns
        BY <1>1, <3>1, <4>1, <4>2, Numbering DEF Sound, RoomsSound, RoomRecords
      <4>4. W.hosts[W.rooms[q].host] = q BY <1>1, <3>1, <4>1 DEF Sound, RoomsSound
      <4>5. W.rooms[q].host # c BY <1>0, <1>1, <4>4, Numbering
      <4> QED BY <2>5, <2>6, <4>1, <4>3, <4>4, <4>5
    <3>2. \A q \in RoomIds : q \in Nat BY Numbering
    <3>3. ASSUME NEW q \in RoomIds, q # r
          PROVE  LET x == K.rooms[q] IN
                 /\ x.paused <=> x.timer
                 /\ x.open => (x.paused <=> x.host = NoConn)
                 /\ ~x.open => x = Gone
                 /\ q > K.created => x = Gone
      <4>1. K.rooms[q] = W.rooms[q] BY <2>4, <2>6, <3>3
      <4>2. q > K.created => q > W.created BY <2>1, <2>6, <3>2
      <4> QED BY <1>1, <4>1, <4>2 DEF Sound, RoomsSound
    <3>4. K.rooms[r] = room /\ K.hosts[c] = r /\ ~(r > K.created)
      BY <1>0, <1>6, <2>1, <2>4, <2>5, <2>6
    <3>5. c # NoConn BY <1>0, Numbering
    <3> QED BY <2>3, <3>1, <3>3, <3>4, <3>5 DEF RoomsSound
  <2>9. Members(K)
    <3>1. \A d \in Conns : W.joinedIn[d] # r
      BY <1>1, <1>6, <2>2, GoneType DEF Sound, Members
    <3> QED BY <1>1, <2>3, <2>4, <2>6, <3>1 DEF Sound, Members
  <2>10. Hosting(K)
    <3>1. W.joinedIn[c] = NoRoom BY <1>3 DEF HostLike
    <3>2. ASSUME NEW d \in Conns, d # c, W.hosts[d] # NoRoom
          PROVE  K.rooms[W.hosts[d]].host = d /\ K.joinedIn[d] = NoRoom
      <4>1. W.hosts[d] \in RoomIds /\ W.hosts[d] # r
        BY <1>1, <2>7, <3>2, LobbyFields, Numbering DEF Sound
      <4> QED BY <1>1, <2>4, <2>6, <3>2, <4>1 DEF Sound, Hosting
    <3>3. K.rooms[r].host = c /\ K.joinedIn[c] = NoRoom
      BY <1>6, <2>3, <2>4, <2>6, <3>1
    <3> QED BY <2>5, <2>6, <3>2, <3>3 DEF Hosting
  <2>11. Linked(K, B) BY <1>1, <2>3, <2>4, <2>6 DEF Sound, Linked
  <2>12. Symmetric(K) BY <1>1, <2>6 DEF Sound, Symmetric
  <2>13. Forgotten(K, {}) BY <1>1, <2>5, <2>6 DEF Sound, Forgotten
  <2>14. Sound(K, B, {})
    BY <1>1, <2>6, <2>8, <2>9, <2>10, <2>11, <2>12, <2>13 DEF Sound
  <2>15. Kept(W, K, Conns \ {c}) /\ HostLike(K, c)
    BY <1>3, <2>5, <2>6, TablesKept DEF HostLike
  <2>16. Msg("hosted", r, 0) \in Messages /\ Msg("hosted", r, 0).t = "hosted"
    BY <2>1, MessageTypes, Numbering DEF NoConn
  <2>17. Sound(M, B, {}) /\ SameTables(K, M)
    BY <1>6, <2>6, <2>14, <2>16, SendKeeps, SendIs
  <2>18. Kept(K, M, Conns \ {c}) /\ HostLike(M, c)
    BY <1>0, <1>6, <2>6, <2>15, <2>16, SendKept DEF Kept
  <2>19. Kept(L, W, Conns \ {c}) BY <1>1 DEF Kept
  <2>20. Kept(L, M, Conns \ {c}) BY <2>15, <2>18, <2>19, KeptTwice
  <2>21. Calm(L, M, Conns \ {c})
    <3>1. Calm(L, W, Conns \ {c}) BY <1>1 DEF Calm
    <3>2. Calm(W, K, Conns \ {c}) BY <2>5, <2>6, TablesCalm
    <3>3. Calm(K, M, Conns \ {c}) BY <1>6, <2>6, <2>16, SendCalm
    <3> QED BY <3>1, <3>2, <3>3, CalmTwice
  <2>22. ASSUME Idle(L, c) PROVE Fulfilled(M, c) /\ Keeping(L, M, {})
    <3>1. Prompts(K, c) = {} BY <1>1, <2>6, <2>22 DEF Idle, Prompts
    <3>2. Fulfilled(M, c)
      <4> DEFINE m == Msg("hosted", r, 0)
      <4>1. M = Send(K, {c}, m) /\ m \in Messages /\ m.t = "hosted" BY <1>6, <2>16
      <4> HIDE DEF m
      <4>2. Answered(M, c) /\ \A i \in Prompts(M, c) : M.down[c][i] = m
        BY <1>0, <2>6, <3>1, <4>1, SendPrompts
      <4> QED BY <4>1, <4>2 DEF Fulfilled
    <3>3. ~L.rooms[r].open BY <1>1, <2>2, <2>22, GoneType
    <3>4. \A q \in RoomIds : q # r => M.rooms[q] = L.rooms[q]
      BY <1>1, <2>4, <2>6, <2>17, <2>22 DEF SameTables
    <3> QED BY <3>2, <3>3, <3>4 DEF Keeping
  <2>23. ASSUME Idle(L, c) PROVE Opens(L, M, c, r)
    <3>1. W = L BY <1>1, <2>23
    <3>2. Told(L, M, {c}, Msg("hosted", r, 0))
      BY <1>6, <2>6, <2>16, <3>1, SendIs DEF Told
    <3>3. r = L.created + 1 BY <3>1 DEF r
    <3>4. M.rooms = rooms /\ M.hosts = hosts /\ M.joinedIn = L.joinedIn /\ M.created = r
      BY <2>6, <2>17, <3>1 DEF SameTables
    <3> QED BY <1>6, <2>2, <2>3, <2>4, <2>5, <3>1, <3>2, <3>3, <3>4 DEF Opens
  <2> QED BY <1>1, <1>6, <2>6, <2>17, <2>18, <2>20, <2>21, <2>22, <2>23
      DEF HostServed, Served, SameTables
<1> QED BY <1>2, <1>4, <1>5, <1>6

\* The room the connection hosted, if any, is given up.
LEMMA UnhostHolds ==
  ASSUME NEW L, NEW B, Sound(L, B, {}), NEW c \in Conns, HostLike(L, c)
  PROVE  /\ Served(L, Unhost(L, c), B, c) /\ Keeping(L, Unhost(L, c), {c})
         /\ Unhost(L, c).created = L.created
         /\ \A d \in Conns : Unhost(L, c).hosts[d] = IF d = c THEN NoRoom ELSE L.hosts[d]
         /\ IF L.hosts[c] = NoRoom THEN Unhost(L, c) = L ELSE Closes(L, Unhost(L, c), L.hosts[c])
<1>1. /\ Sound(Unhost(L, c), B, {}) /\ Unhost(L, c).peers = L.peers
      /\ Unhost(L, c).counter = L.counter /\ Kept(L, Unhost(L, c), Conns)
      /\ Calm(L, Unhost(L, c), Conns)
      /\ \A q \in RoomIds : Unhost(L, c).rooms[q] = IF q = L.hosts[c] THEN Gone ELSE L.rooms[q]
      /\ Unhost(L, c).created = L.created
      /\ \A d \in Conns : Unhost(L, c).hosts[d] = IF d = c THEN NoRoom ELSE L.hosts[d]
      /\ IF L.hosts[c] = NoRoom THEN Unhost(L, c) = L ELSE Closes(L, Unhost(L, c), L.hosts[c])
  BY RemoveHostedRoomHolds DEF Unhost
<1>2. Keeping(L, Unhost(L, c), {c})
  <2>1. ASSUME NEW q \in RoomIds, L.rooms[q].open, L.rooms[q].host \notin {c} \cup {NoConn}
        PROVE  q # L.hosts[c]
    BY <2>1, Numbering DEF Sound, Hosting
  <2> QED BY <1>1, <2>1 DEF Keeping
<1> QED BY <1>1, <1>2 DEF Served, Kept, Calm

\* "bye" takes the link with the host only, and the sender is gone.
LEMMA ByeHolds ==
  ASSUME NEW L, NEW B, Sound(L, B, {}), NEW c \in Conns, c \in B, GuestLike(L, c), NEW to, NEW M,
         M = Bye(L, c, to)
  PROVE  /\ GuestServed(L, M, B, c)
         /\ M.rooms = L.rooms /\ M.created = L.created /\ M.hosts = L.hosts
         /\ M.joinedIn = L.joinedIn /\ Told(L, M, {to}, Msg("peerleft", 0, c))
<1>1. CASE to \notin L.peers
  <2>1. M = L BY <1>1 DEF Bye
  <2>2. Told(L, M, {to}, Msg("peerleft", 0, c)) BY <1>1, <2>1 DEF Told
  <2> QED BY <2>1, <2>2 DEF GuestServed, Served, Kept, Calm, Keeping
<1>2. CASE to \in L.peers
  <2> DEFINE S == Send(L, {to}, Msg("peerleft", 0, c))
  <2>1. to \in Conns BY <1>2, LobbyFields DEF Sound
  <2>2. M = Unlink(S, c, {to}) BY <1>2 DEF Bye
  <2>3. Msg("peerleft", 0, c) \in Messages /\ Msg("peerleft", 0, c).t = "peerleft"
    BY MessageTypes, Numbering DEF NoRoom
  <2>4. L \in LobbyRecords BY DEF Sound
  <2>5. Sound(S, B, {}) /\ SameTables(L, S) /\ S \in LobbyRecords
        /\ Told(L, S, {to}, Msg("peerleft", 0, c))
    BY <2>3, <2>4, SendKeeps, SendIs DEF Told
  <2>6. Kept(L, S, Conns) /\ Calm(L, S, Conns \ {c})
    BY <2>3, <2>4, SendKept, SendCalm DEF Kept
  <2> HIDE DEF S
  <2>7. S.hosts[c] = NoRoom BY <2>5 DEF GuestLike, SameTables
  <2>8. Sound(M, B, {}) BY <2>1, <2>2, <2>5, <2>7, UnlinkKeeps
  <2>9. /\ M.peers = S.peers /\ M.counter = S.counter /\ M.hosts = S.hosts
        /\ M.joinedIn = S.joinedIn /\ M.down = S.down /\ M.rooms = S.rooms
        /\ M.created = S.created
    BY <2>2, <2>5, UnlinkIs
  <2>10. Kept(S, M, Conns) BY <2>9, TablesKept
  <2>11. Kept(L, M, Conns) BY <2>6, <2>10, KeptTwice
  <2>12. Calm(L, M, Conns \ {c})
    <3>1. Calm(S, M, Conns \ {c}) BY <2>9, TablesCalm
    <3> QED BY <2>6, <3>1, CalmTwice
  <2>13. Keeping(L, M, {}) BY <2>5, <2>9 DEF Keeping, SameTables
  <2> QED BY <2>5, <2>8, <2>9, <2>11, <2>12, <2>13
      DEF GuestServed, Served, Kept, SameTables, Told
<1> QED BY <1>1, <1>2

\* Another connection, or the same one again, takes a room over, and everybody in
\* it has to join anew.
LEMMA ReclaimHolds ==
  ASSUME NEW L, NEW B, Sound(L, B, {}), NEW c \in L.peers, HostLike(L, c), NEW r, NEW M,
         M = Reclaim(L, c, r)
  PROVE  /\ HostServed(L, M, B, c)
         /\ Idle(L, c) => Refuses(L, M, c, "noroom") \/ TakesOver(L, M, c, r)
<1>0. c \in Conns /\ c # NoConn /\ L.hosts[c] \in 0 .. MaxRooms
  BY LobbyFields, Numbering DEF Sound
<1> DEFINE A == IF L.hosts[c] \in {NoRoom, r} THEN L ELSE RemoveHostedRoom(L, c)
           T == HandedOver(A, c, r)
           guests == L.rooms[r].joined
           S == Send(T, {c}, Msg("hosted", r, 0))
           told == Send(S, guests, Msg("hostback", r, 0))
           joinedIn == [g \in Conns |-> IF g \in guests THEN NoRoom ELSE told.joinedIn[g]]
           room == [told.rooms[r] EXCEPT !.joined = @ \ guests]
           rooms == [told.rooms EXCEPT ![r] = room]
           F == [told EXCEPT !.rooms = rooms, !.joinedIn = joinedIn]
<1>1. CASE r \notin OpenRooms(L)
  <2>1. M = Refuse(L, c, "noroom") BY <1>1 DEF Reclaim
  <2>2. /\ Sound(M, B, {}) /\ M.peers = L.peers /\ M.counter = L.counter
        /\ Kept(L, M, Conns) /\ Calm(L, M, Conns \ {c}) /\ M.rooms = L.rooms
        /\ Idle(L, c) => Fulfilled(M, c)
        /\ Refuses(L, M, c, "noroom")
    BY <1>0, <2>1, RefuseHolds
  <2> QED BY <1>0, <2>2 DEF HostServed, Served, Kept, Keeping
<1>2. CASE r \in OpenRooms(L)
  <2>1. r \in RoomIds /\ L.rooms[r].open /\ r # NoRoom /\ r \in 0 .. MaxRooms
    BY <1>2, Numbering DEF OpenRooms
  <2>2. M = F BY <1>2 DEF Reclaim, HeldGuests
  <2>3. /\ Sound(A, B, {}) /\ A.peers = L.peers /\ A.counter = L.counter
        /\ A.rooms[r] = L.rooms[r] /\ A.hosts[c] \in {NoRoom, r}
        /\ Kept(L, A, Conns) /\ Calm(L, A, Conns)
        /\ Idle(L, c) => A = L
    <3>1. CASE L.hosts[c] \in {NoRoom, r} BY <3>1 DEF Kept, Calm
    <3>2. CASE L.hosts[c] \notin {NoRoom, r}
      <4>1. A = RemoveHostedRoom(L, c) BY <3>2
      <4> HIDE DEF A
      <4>2. /\ Sound(A, B, {}) /\ A.peers = L.peers /\ A.counter = L.counter
            /\ \A d \in Conns : A.hosts[d] = IF d = c THEN NoRoom ELSE L.hosts[d]
            /\ \A q \in RoomIds : A.rooms[q] = IF q = L.hosts[c] THEN Gone ELSE L.rooms[q]
            /\ Kept(L, A, Conns) /\ Calm(L, A, Conns)
        BY <1>0, <4>1, RemoveHostedRoomHolds
      <4> QED BY <1>0, <2>1, <3>2, <4>2 DEF Idle
    <3> QED BY <3>1, <3>2
  <2> HIDE DEF A
  <2>4. HostLike(A, c) BY <1>0, <2>3 DEF Kept
  <2> DEFINE old == A.rooms[r].host
             taken == [A.rooms[r] EXCEPT !.host = c, !.paused = FALSE, !.timer = FALSE]
             hosts == IF old \in A.peers \ {c} THEN [A.hosts EXCEPT ![old] = NoRoom, ![c] = r]
                      ELSE [A.hosts EXCEPT ![c] = r]
             over == [A.rooms EXCEPT ![r] = taken]
  <2>5. A.rooms[r] \in RoomRecords /\ A \in LobbyRecords
    BY <2>1, <2>3, LobbyFields DEF Sound
  <2>6. /\ taken \in RoomRecords /\ taken.open /\ taken.host = c /\ ~taken.paused
        /\ ~taken.timer /\ taken.joined = guests
    BY <1>0, <2>1, <2>3, <2>5, Numbering DEF RoomRecords
  <2>7. /\ hosts \in [Conns -> 0 .. MaxRooms]
        /\ \A d \in Conns : hosts[d] = IF d = c THEN r
                                       ELSE IF A.hosts[d] = r THEN NoRoom ELSE A.hosts[d]
    <3>1. A.hosts \in [Conns -> 0 .. MaxRooms] BY <2>5, LobbyFields
    <3>2. NoRoom \in 0 .. MaxRooms /\ r \in 0 .. MaxRooms BY <2>1, Numbering
    <3>3. ASSUME NEW d \in Conns, A.hosts[d] = r PROVE d = old /\ d \in A.peers
      <4>1. d = old BY <2>1, <2>3, <3>3 DEF Sound, Hosting
      <4>2. d \in A.peers BY <2>1, <2>3, <3>3 DEF Sound, Forgotten
      <4> QED BY <4>1, <4>2
    <3>4. old \in A.peers => old \in Conns /\ A.hosts[old] = r
      <4>1. old \in A.peers => old \in Conns BY <2>5, LobbyFields
      <4> QED BY <2>1, <2>3, <4>1, Numbering DEF Sound, RoomsSound
    <3> HIDE DEF old
    <3>5. CASE old \in A.peers \ {c}
      <4>1. hosts = [A.hosts EXCEPT ![old] = NoRoom, ![c] = r] BY <3>5
      <4> QED BY <1>0, <3>1, <3>2, <3>3, <3>4, <3>5, <4>1
    <3>6. CASE old \notin A.peers \ {c}
      <4>1. hosts = [A.hosts EXCEPT ![c] = r] BY <3>6
      <4> QED BY <1>0, <3>1, <3>2, <3>3, <3>6, <4>1
    <3> QED BY <3>5, <3>6
  <2>8. /\ over \in [RoomIds -> RoomRecords]
        /\ \A q \in RoomIds : over[q] = IF q = r THEN taken ELSE A.rooms[q]
    BY <2>5, <2>6, LobbyFields
  <2>9. T = [A EXCEPT !.rooms = over, !.hosts = hosts]
    <3> DEFINE detached == IF old \in A.peers \ {c} THEN [A EXCEPT !.hosts[old] = NoRoom] ELSE A
    <3>1. /\ detached.rooms = A.rooms
          /\ [detached.hosts EXCEPT ![c] = r] = hosts
          /\ \A x, y : [detached EXCEPT !.rooms = x, !.hosts = y] =
                         [A EXCEPT !.rooms = x, !.hosts = y]
      <4>1. CASE old \in A.peers \ {c} BY <2>5, <4>1 DEF LobbyRecords
      <4>2. CASE old \notin A.peers \ {c} BY <2>5, <4>2
      <4> QED BY <4>1, <4>2
    <3>2. T = [detached EXCEPT !.rooms[r].host = c, !.rooms[r].paused = FALSE,
                               !.rooms[r].timer = FALSE, !.hosts[c] = r]
      BY DEF HandedOver
    <3>3. detached \in LobbyRecords
      <4>1. CASE old \in A.peers \ {c} BY <2>5, <4>1, Numbering DEF LobbyRecords
      <4>2. CASE old \notin A.peers \ {c} BY <2>5, <4>2
      <4> QED BY <4>1, <4>2
    <3> HIDE DEF detached
    <3>4. T = [detached EXCEPT !.rooms = [detached.rooms EXCEPT ![r] =
                  [detached.rooms[r] EXCEPT !.host = c, !.paused = FALSE, !.timer = FALSE]],
                               !.hosts = [detached.hosts EXCEPT ![c] = r]]
      <4> DEFINE f0 == detached.rooms
                 x1 == [f0[r] EXCEPT !.host = c]
                 x2 == [x1 EXCEPT !.paused = FALSE]
                 x3 == [x2 EXCEPT !.timer = FALSE]
                 f1 == [f0 EXCEPT ![r] = x1]
                 f2 == [f0 EXCEPT ![r] = x2]
                 f3 == [f0 EXCEPT ![r] = x3]
                 D1 == [detached EXCEPT !.rooms = f1]
                 D2 == [detached EXCEPT !.rooms = f2]
                 D3 == [detached EXCEPT !.rooms = f3]
      <4>1. f0 \in [RoomIds -> RoomRecords] BY <3>3, LobbyFields
      <4>2. D1 = [detached EXCEPT !.rooms[r].host = c] OBVIOUS
      <4>3. D1.rooms = f1 BY <3>3 DEF LobbyRecords
      <4>4. f1[r] = x1 /\ \A x : [f1 EXCEPT ![r] = x] = [f0 EXCEPT ![r] = x] BY <2>1, <4>1
      <4>5. \A y : [D1 EXCEPT !.rooms = y] = [detached EXCEPT !.rooms = y]
        BY <3>3 DEF LobbyRecords
      <4> HIDE DEF D1, x1, f0, f1
      <4>6. [D1 EXCEPT !.rooms[r].paused = FALSE] = D2 BY <4>3, <4>4, <4>5
      <4>7. D2.rooms = f2 BY <3>3 DEF LobbyRecords
      <4>8. f2[r] = x2 /\ \A x : [f2 EXCEPT ![r] = x] = [f0 EXCEPT ![r] = x] BY <2>1, <4>1
      <4>9. \A y : [D2 EXCEPT !.rooms = y] = [detached EXCEPT !.rooms = y]
        BY <3>3 DEF LobbyRecords
      <4> HIDE DEF D2, x2, f2
      <4>10. [D2 EXCEPT !.rooms[r].timer = FALSE] = D3 BY <4>7, <4>8, <4>9
      <4>11. [D3 EXCEPT !.hosts[c] = r]
               = [detached EXCEPT !.rooms = f3, !.hosts = [detached.hosts EXCEPT ![c] = r]]
        BY <3>3 DEF LobbyRecords
      <4>12. T = [D3 EXCEPT !.hosts[c] = r] BY <3>2, <4>2, <4>6, <4>10
      <4>13. x3 = [detached.rooms[r] EXCEPT !.host = c, !.paused = FALSE, !.timer = FALSE]
        BY DEF x2, x1, f0
      <4> QED BY <4>11, <4>12, <4>13 DEF f0
    <3> QED BY <3>1, <3>4
  <2> HIDE DEF taken, hosts, over, T
  <2>10. /\ T \in LobbyRecords /\ T.rooms = over /\ T.hosts = hosts /\ T.created = A.created
         /\ T.peers = A.peers /\ T.counter = A.counter /\ T.joinedIn = A.joinedIn
         /\ T.partners = A.partners /\ T.down = A.down
    BY <2>5, <2>7, <2>8, <2>9 DEF LobbyRecords
  <2>11. /\ Msg("hosted", r, 0) \in Messages /\ Msg("hosted", r, 0).t = "hosted"
         /\ Msg("hostback", r, 0) \in Messages /\ Msg("hostback", r, 0).t = "hostback"
    BY <2>1, MessageTypes, Numbering DEF NoConn
  <2>12. S \in LobbyRecords /\ SameTables(T, S) /\ Told(T, S, {c}, Msg("hosted", r, 0))
         /\ \A d \in Conns : d \notin T.peers => S.down[d] = T.down[d]
    BY <2>10, <2>11, SendIs DEF Told
  <2>13. told \in LobbyRecords /\ SameTables(S, told)
         /\ Told(S, told, guests, Msg("hostback", r, 0))
         /\ \A d \in Conns : d \notin S.peers => told.down[d] = S.down[d]
    <3> HIDE DEF S
    <3> QED BY <2>11, <2>12, SendIs DEF Told
  <2>14. Kept(A, T, Conns \ {c}) /\ HostLike(T, c)
    BY <2>4, <2>7, <2>10, TablesKept DEF HostLike
  <2>15. Kept(T, S, Conns \ {c}) /\ HostLike(S, c)
    BY <1>0, <2>10, <2>11, <2>14, SendKept DEF Kept
  <2>16. Kept(S, told, Conns) /\ Calm(S, told, Conns)
    <3> HIDE DEF S
    <3> QED BY <2>11, <2>12, SendKept, SendCalm DEF Kept
  <2>told. Calm(T, S, Conns \ {c}) BY <2>10, <2>11, SendCalm
  <2>answer. ASSUME Idle(L, c) PROVE Fulfilled(S, c)
    <3>1. Prompts(T, c) = {} BY <2>3, <2>10, <2>answer DEF Idle, Prompts
    <3> QED BY <1>0, <2>10, <2>11, <3>1, SendPrompts DEF Fulfilled
  <2> HIDE DEF S, told
  <2>17. guests = {d \in Conns : A.joinedIn[d] = r}
    BY <2>1, <2>3 DEF Sound, Members
  <2>18. told.rooms[r] = taken /\ told.joinedIn = A.joinedIn
    BY <2>1, <2>8, <2>10, <2>12, <2>13 DEF SameTables
  <2>19. /\ room \in RoomRecords /\ room.open /\ room.host = c /\ ~room.paused
         /\ ~room.timer /\ room.joined = {}
    BY <2>6, <2>18 DEF RoomRecords
  <2> HIDE DEF room
  <2>20. /\ rooms \in [RoomIds -> RoomRecords]
         /\ \A q \in RoomIds : rooms[q] = IF q = r THEN room ELSE A.rooms[q]
    <3>1. told.rooms \in [RoomIds -> RoomRecords] BY <2>13, LobbyFields
    <3>2. told.rooms = over BY <2>10, <2>12, <2>13 DEF SameTables
    <3>3. \A q \in RoomIds : q # r => told.rooms[q] = A.rooms[q] BY <2>8, <3>2
    <3> QED BY <2>19, <3>1, <3>3
  <2>21. /\ joinedIn \in [Conns -> 0 .. MaxRooms]
         /\ \A d \in Conns : joinedIn[d] = IF A.joinedIn[d] = r THEN NoRoom ELSE A.joinedIn[d]
    BY <2>5, <2>17, <2>18, LobbyFields, Numbering
  <2> HIDE DEF rooms, joinedIn, guests
  <2>22. /\ F \in LobbyRecords /\ F.rooms = rooms /\ F.joinedIn = joinedIn
         /\ F.hosts = told.hosts /\ F.created = told.created /\ F.peers = told.peers
         /\ F.counter = told.counter /\ F.partners = told.partners /\ F.down = told.down
    BY <2>13, <2>20, <2>21 DEF LobbyRecords
  <2> HIDE DEF F
  <2>23. /\ F.hosts = hosts /\ F.created = A.created /\ F.peers = A.peers
         /\ F.counter = A.counter /\ F.partners = A.partners
         /\ \A d \in Conns : d \notin A.peers => F.down[d] = A.down[d]
    BY <2>10, <2>12, <2>13, <2>22 DEF SameTables
  <2>24. RoomsSound(F)
    <3>1. ASSUME NEW q \in RoomIds, q # r, F.rooms[q].open, ~F.rooms[q].paused
          PROVE  F.hosts[F.rooms[q].host] = q
      <4>1. F.rooms[q] = A.rooms[q] BY <2>20, <2>22, <3>1
      <4>2. A.rooms[q] \in RoomRecords BY <2>5, LobbyFields
      <4>3. A.rooms[q].host \in Conns
        BY <2>3, <3>1, <4>1, <4>2, Numbering DEF Sound, RoomsSound, RoomRecords
      <4>4. A.hosts[A.rooms[q].host] = q BY <2>3, <3>1, <4>1 DEF Sound, RoomsSound
      <4>5. A.rooms[q].host # c BY <2>3, <3>1, <4>4, Numbering
      <4> QED BY <2>7, <2>23, <3>1, <4>1, <4>3, <4>4, <4>5
    <3>2. ASSUME NEW q \in RoomIds, q # r
          PROVE  LET x == F.rooms[q] IN
                 /\ x.paused <=> x.timer
                 /\ x.open => (x.paused <=> x.host = NoConn)
                 /\ ~x.open => x = Gone
                 /\ q > F.created => x = Gone
      <4>1. F.rooms[q] = A.rooms[q] BY <2>20, <2>22, <3>2
      <4> QED BY <2>3, <2>23, <4>1 DEF Sound, RoomsSound
    <3>3. F.rooms[r] = room /\ F.hosts[c] = r BY <1>0, <2>1, <2>7, <2>20, <2>22, <2>23
    <3>4. ~(r > F.created) BY <2>1, <2>3, <2>23, GoneType DEF Sound, RoomsSound
    <3> QED BY <1>0, <2>19, <3>1, <3>2, <3>3, <3>4 DEF RoomsSound
  <2>25. Members(F)
    <3> SUFFICES ASSUME NEW q \in RoomIds
                 PROVE  F.rooms[q].joined = {d \in Conns : F.joinedIn[d] = q}
      BY DEF Members
    <3>1. A.rooms[q].joined = {d \in Conns : A.joinedIn[d] = q} /\ q # NoRoom
      BY <2>3, Numbering DEF Sound, Members
    <3> QED BY <2>1, <2>19, <2>20, <2>21, <2>22, <3>1
  <2>26. Hosting(F)
    <3>1. ASSUME NEW d \in Conns, d # c, F.hosts[d] # NoRoom
          PROVE  F.rooms[F.hosts[d]].host = d /\ F.joinedIn[d] = NoRoom
      <4>1. F.hosts[d] = A.hosts[d] /\ A.hosts[d] # r BY <2>7, <2>23, <3>1
      <4>2. A.hosts[d] \in RoomIds BY <2>5, <3>1, <4>1, LobbyFields, Numbering
      <4> QED BY <2>3, <2>20, <2>21, <2>22, <3>1, <4>1, <4>2 DEF Sound, Hosting
    <3>2. F.hosts[c] = r /\ F.rooms[r].host = c
      BY <1>0, <2>1, <2>7, <2>19, <2>20, <2>22, <2>23
    <3>3. F.joinedIn[c] = NoRoom BY <1>0, <2>4, <2>21, <2>22 DEF HostLike
    <3> QED BY <3>1, <3>2, <3>3 DEF Hosting
  <2>27. Linked(F, B) BY <2>3, <2>19, <2>20, <2>22, <2>23 DEF Sound, Linked
  <2>28. Symmetric(F) BY <2>3, <2>23 DEF Sound, Symmetric
  <2>29. Forgotten(F, {}) BY <2>3, <2>7, <2>21, <2>22, <2>23 DEF Sound, Forgotten
  <2>30. Sound(F, B, {})
    BY <2>3, <2>22, <2>23, <2>24, <2>25, <2>26, <2>27, <2>28, <2>29 DEF Sound
  <2>31. Kept(told, F, Conns)
    <3>1. \A d \in Conns : F.joinedIn[d] \in {told.joinedIn[d], NoRoom}
      BY <2>18, <2>21, <2>22
    <3> QED BY <2>22, <3>1, TablesKept
  <2>32. Kept(L, M, Conns \ {c}) /\ HostLike(M, c)
    BY <1>0, <2>2, <2>3, <2>14, <2>15, <2>16, <2>31 DEF Kept
  <2>33. Calm(L, M, Conns \ {c})
    <3>1. Calm(L, A, Conns \ {c}) /\ Calm(S, told, Conns \ {c}) BY <2>3, <2>16 DEF Calm
    <3>2. Calm(A, T, Conns \ {c}) BY <2>7, <2>10, TablesCalm
    <3>3. Calm(told, F, Conns \ {c}) BY <2>22, TablesCalm
    <3> QED BY <2>2, <2>told, <3>1, <3>2, <3>3, CalmTwice
  <2>34. ASSUME Idle(L, c) PROVE Fulfilled(M, c) /\ Keeping(L, M, {})
    <3>1. Fulfilled(S, c) BY <2>answer, <2>34
    <3>2. F.hosts = S.hosts /\ F.down = told.down BY <2>13, <2>22 DEF SameTables
    <3>3. \A i \in Prompts(M, c) : i \in Prompts(S, c) /\ M.down[c][i] = S.down[c][i]
      BY <1>0, <2>2, <2>16, <3>2 DEF Calm, Prompts
    <3>4. Fulfilled(M, c) BY <2>2, <3>1, <3>2, <3>3 DEF Fulfilled, Answered
    <3>5. A.rooms = L.rooms BY <2>3, <2>34
    <3>6. Keeping(L, M, {})
      BY <1>0, <2>2, <2>19, <2>20, <2>22, <3>5, Numbering DEF Keeping
    <3> QED BY <3>4, <3>6
  <2>35. ASSUME Idle(L, c) PROVE TakesOver(L, M, c, r)
    <3>1. A = L BY <2>3, <2>35
    <3>2. L.joinedIn[c] = NoRoom BY DEF HostLike
    <3>3. \A d \in Conns :
            /\ M.hosts[d] = IF d = c THEN r
                ELSE IF L.hosts[d] = r THEN NoRoom ELSE L.hosts[d]
            /\ M.joinedIn[d] = IF L.joinedIn[d] = r THEN NoRoom ELSE L.joinedIn[d]
      BY <2>2, <2>7, <2>21, <2>22, <2>23, <3>1
    <3>4. /\ \A q \in RoomIds \ {r} : M.rooms[q] = L.rooms[q]
          /\ M.rooms[r].joined = {} /\ M.created = L.created
      BY <2>1, <2>2, <2>19, <2>20, <2>22, <2>23, <3>1
    <3>5. ASSUME NEW d \in Conns
          PROVE  M.down[d] = IF d \notin L.peers \ broken THEN L.down[d]
                             ELSE IF d = c THEN Append(L.down[d], Msg("hosted", r, 0))
                             ELSE IF L.joinedIn[d] = r
                               THEN Append(L.down[d], Msg("hostback", r, 0))
                             ELSE L.down[d]
      <4>1. S.peers = L.peers /\ T.peers = L.peers /\ T.down = L.down /\ M.down = told.down
        BY <2>2, <2>10, <2>12, <2>22, <3>1 DEF SameTables
      <4>2. d \in guests <=> L.joinedIn[d] = r BY <2>17, <3>1
      <4>3. c \notin guests BY <2>1, <2>17, <3>1, <3>2
      <4>4. S.down[d] = IF d \in ({c} \cap L.peers) \ broken
                        THEN Append(L.down[d], Msg("hosted", r, 0)) ELSE L.down[d]
        BY <2>12, <4>1 DEF Told
      <4>5. M.down[d] = IF d \in (guests \cap L.peers) \ broken
                        THEN Append(S.down[d], Msg("hostback", r, 0)) ELSE S.down[d]
        BY <2>13, <4>1 DEF Told
      <4> QED BY <4>2, <4>3, <4>4, <4>5
    <3>6. \A d \in Conns :
            /\ M.hosts[d] = IF d = c THEN r
                ELSE IF L.hosts[d] = r THEN NoRoom ELSE L.hosts[d]
            /\ M.joinedIn[d] = IF L.joinedIn[d] = r THEN NoRoom ELSE L.joinedIn[d]
            /\ M.down[d] = IF d \notin L.peers \ broken THEN L.down[d]
                ELSE IF d = c THEN Append(L.down[d], Msg("hosted", r, 0))
                ELSE IF L.joinedIn[d] = r
                  THEN Append(L.down[d], Msg("hostback", r, 0))
                ELSE L.down[d]
      <4> HIDE DEF guests, joinedIn, rooms, hosts
      <4> QED BY <3>3, <3>5
    <3> QED BY ONLY <2>1, <3>4, <3>6 DEF TakesOver
  <2> QED BY <2>2, <2>3, <2>23, <2>30, <2>32, <2>33, <2>34, <2>35 DEF HostServed, Served
<1> QED BY <1>1, <1>2

\* A guest leaves the room it was in and is linked with the host of the next one.
LEMMA JoinHolds ==
  ASSUME NEW L, NEW B, Sound(L, B, {}), NEW c \in L.peers, GuestLike(L, c), NEW r, NEW M,
         M = Join(L, c, r)
  PROVE  /\ GuestServed(L, M, B, c)
         /\ L.joinedIn[c] = NoRoom =>
              \/ \E code \in {"noroom", "self", "hostaway", "full"} : Refuses(L, M, c, code)
              \/ Enters(L, M, c, r)
<1>0. c \in Conns /\ c # NoConn BY LobbyFields, Numbering DEF Sound
<1> DEFINE host == L.rooms[r].host
           A == LeaveJoinedRoom(L, c)
           room == [A.rooms[r] EXCEPT !.joined = @ \cup {c}]
           rooms == [A.rooms EXCEPT ![r] = room]
           joinedIn == [A.joinedIn EXCEPT ![c] = r]
           links == [A.partners EXCEPT ![c] = @ \cup {host}, ![host] = @ \cup {c}]
           I == [A EXCEPT !.rooms = rooms, !.joinedIn = joinedIn, !.partners = links]
           joined == Msg("joined", r, host)
           S == Send(I, {c}, joined)
<1>1. ASSUME NEW code \in {"noroom", "toomanyrooms", "self", "hostaway", "full"},
             M = Refuse(L, c, code)
      PROVE  GuestServed(L, M, B, c) /\ Refuses(L, M, c, code)
  <2>1. /\ Sound(M, B, {}) /\ M.peers = L.peers /\ M.counter = L.counter
        /\ Kept(L, M, Conns) /\ Calm(L, M, Conns \ {c}) /\ M.rooms = L.rooms
        /\ Refuses(L, M, c, code)
    BY <1>0, <1>1, RefuseHolds
  <2> QED BY <1>0, <2>1 DEF GuestServed, Served, Kept, Keeping
<1>2. CASE r \notin OpenRooms(L) \/ host = c \/ L.rooms[r].paused
  <2>1. \E code \in {"noroom", "self", "hostaway"} : M = Refuse(L, c, code)
    BY <1>2 DEF Join
  <2>2. PICK code \in {"noroom", "self", "hostaway"} : M = Refuse(L, c, code) BY <2>1
  <2>3. GuestServed(L, M, B, c) /\ Refuses(L, M, c, code) BY <1>1, <2>2
  <2> QED BY <2>3
<1>3. CASE r \in OpenRooms(L) /\ host # c /\ ~L.rooms[r].paused
  <2>1. r \in RoomIds /\ L.rooms[r].open /\ r # NoRoom /\ r \in 0 .. MaxRooms
    BY <1>3, Numbering DEF OpenRooms
  <2>2. L.rooms[r] \in RoomRecords BY <2>1, LobbyFields DEF Sound
  <2>3. host \in Conns /\ host \in 0 .. MaxConns
    BY <1>3, <2>1, <2>2, Numbering DEF Sound, RoomsSound, RoomRecords
  <2>4. joined \in Messages /\ joined.t = "joined" BY <2>1, <2>3, MessageTypes
  <2>5. L \in LobbyRecords BY DEF Sound
  <2>6. CASE c \in L.rooms[r].joined
    <3>1. M = Send(L, {c}, joined) BY <1>3, <2>6 DEF Join
    <3> HIDE DEF joined
    <3>2. Sound(M, B, {}) /\ SameTables(L, M) BY <2>4, <2>5, <3>1, SendKeeps, SendIs
    <3>3. Kept(L, M, Conns \ {c}) /\ GuestLike(M, c)
      BY <1>0, <2>4, <2>5, <3>1, SendKept DEF Kept
    <3>4. Calm(L, M, Conns \ {c}) BY <2>4, <2>5, <3>1, SendCalm
    <3>5. Keeping(L, M, {}) BY <3>2 DEF Keeping, SameTables
    <3>6. L.joinedIn[c] # NoRoom BY <2>1, <2>6 DEF Sound, Members
    <3> QED BY <3>2, <3>3, <3>4, <3>5, <3>6 DEF GuestServed, Served, SameTables
  <2>7. CASE c \notin L.rooms[r].joined /\ Cardinality(L.rooms[r].joined) >= Slots
    <3>1. M = Refuse(L, c, "full") BY <1>3, <2>7 DEF Join
    <3>2. GuestServed(L, M, B, c) /\ Refuses(L, M, c, "full") BY <1>1, <3>1
    <3> QED BY <3>2
  <2>8. CASE c \notin L.rooms[r].joined /\ ~(Cardinality(L.rooms[r].joined) >= Slots)
    <3>1. /\ Sound(A, B, {}) /\ A.peers = L.peers /\ A.counter = L.counter
          /\ A.hosts = L.hosts /\ A.joinedIn[c] = NoRoom
          /\ L.joinedIn[c] = NoRoom => A = L
          /\ \A q \in RoomIds : q # L.joinedIn[c] => A.rooms[q] = L.rooms[q]
          /\ Kept(L, A, Conns) /\ Calm(L, A, Conns) /\ SameHosts(L, A)
      BY <1>0, LeaveJoinedRoomHolds DEF GuestLike
    <3>2. r # L.joinedIn[c] BY <1>0, <2>1, <2>8 DEF Sound, Members
    <3>3. A.rooms[r] = L.rooms[r] BY <2>1, <3>1, <3>2
    <3>4. M = Send(S, {host}, Msg("peer", 0, c))
      <4>1. Link([A EXCEPT !.rooms[r].joined = @ \cup {c}, !.joinedIn[c] = r], c, host) = I
        BY <3>1 DEF Link, Sound, LobbyRecords
      <4> QED BY <1>3, <2>8, <4>1 DEF Join
    <3> HIDE DEF A
    <3>5. GuestLike(A, c) BY <1>0, <3>1 DEF Kept
    <3>6. A \in LobbyRecords BY <3>1 DEF Sound
    <3>7. /\ room \in RoomRecords /\ room.open /\ room.host = host /\ ~room.paused /\ ~room.timer
          /\ room.joined = L.rooms[r].joined \cup {c}
      <4>1. ~L.rooms[r].timer BY <1>3, <2>1 DEF Sound, RoomsSound
      <4> QED BY <1>0, <1>3, <2>1, <2>2, <3>3, <4>1 DEF RoomRecords
    <3> HIDE DEF room
    <3>8. /\ rooms \in [RoomIds -> RoomRecords]
          /\ \A q \in RoomIds : rooms[q] = IF q = r THEN room ELSE A.rooms[q]
      BY <3>6, <3>7, LobbyFields
    <3>9. /\ joinedIn \in [Conns -> 0 .. MaxRooms]
          /\ \A d \in Conns : joinedIn[d] = IF d = c THEN r ELSE A.joinedIn[d]
      BY <2>1, <3>6, LobbyFields
    <3>10. /\ links \in [Conns -> SUBSET Conns]
           /\ links[c] = A.partners[c] \cup {host} /\ links[host] = A.partners[host] \cup {c}
           /\ \A d \in Conns \ {c, host} : links[d] = A.partners[d]
      <4>1. A.partners \in [Conns -> SUBSET Conns] BY <3>6, LobbyFields
      <4> HIDE DEF host
      <4> QED BY <1>0, <1>3, <2>3, <4>1
    <3> HIDE DEF rooms, joinedIn, links, host
    <3>11. /\ I \in LobbyRecords /\ I.rooms = rooms /\ I.joinedIn = joinedIn
           /\ I.partners = links /\ I.hosts = A.hosts /\ I.created = A.created
           /\ I.peers = A.peers /\ I.counter = A.counter /\ I.down = A.down
      BY <3>6, <3>8, <3>9, <3>10 DEF LobbyRecords
    <3> HIDE DEF I
    <3>12. RoomsSound(I)
      <4>1. ~(r > A.created) BY <2>1, <3>1, <3>3, GoneType DEF Sound, RoomsSound
      <4>2. A.hosts[host] = r BY <1>3, <2>1, <3>1 DEF Sound, RoomsSound, host
      <4>3. host # NoConn BY <2>3, Numbering
      <4>4. I.rooms[r] = room BY <2>1, <3>8, <3>11
      <4>5. \A q \in RoomIds : q # r => I.rooms[q] = A.rooms[q] BY <3>8, <3>11
      <4> QED BY <3>1, <3>7, <3>11, <4>1, <4>2, <4>3, <4>4, <4>5 DEF Sound, RoomsSound
    <3>13. Members(I)
      <4> SUFFICES ASSUME NEW q \in RoomIds
                   PROVE  I.rooms[q].joined = {d \in Conns : I.joinedIn[d] = q}
        BY DEF Members
      <4>1. A.rooms[q].joined = {d \in Conns : A.joinedIn[d] = q} /\ q # NoRoom
        BY <3>1, Numbering DEF Sound, Members
      <4>2. A.joinedIn[c] = NoRoom BY <3>1
      <4>3. I.rooms[q].joined = IF q = r THEN A.rooms[q].joined \cup {c} ELSE A.rooms[q].joined
        BY <3>3, <3>7, <3>8, <3>11
      <4>4. \A d \in Conns : I.joinedIn[d] = IF d = c THEN r ELSE A.joinedIn[d] BY <3>9, <3>11
      <4>5. c \in Conns BY <1>0
      <4> QED BY <4>1, <4>2, <4>3, <4>4, <4>5
    <3>14. Hosting(I)
      <4> SUFFICES ASSUME NEW d \in Conns, I.hosts[d] # NoRoom
                   PROVE  I.rooms[I.hosts[d]].host = d /\ I.joinedIn[d] = NoRoom
        BY DEF Hosting
      <4>1. A.hosts[d] # NoRoom /\ A.hosts[d] \in RoomIds
        BY <3>6, <3>11, LobbyFields, Numbering
      <4>2. d # c BY <3>5, <4>1 DEF GuestLike
      <4>3. A.rooms[A.hosts[d]].host = d /\ A.joinedIn[d] = NoRoom
        BY <3>1, <4>1 DEF Sound, Hosting
      <4>4. I.rooms[A.hosts[d]].host = A.rooms[A.hosts[d]].host
        BY <3>3, <3>7, <3>8, <3>11, <4>1 DEF host
      <4> QED BY <3>9, <3>11, <4>2, <4>3, <4>4
    <3>15. Linked(I, B)
      <4> SUFFICES ASSUME NEW q \in RoomIds, NEW d \in I.rooms[q].joined \ B, ~I.rooms[q].paused
                   PROVE  I.rooms[q].host \in I.partners[d]
        BY DEF Linked
      <4>1. I.rooms[q] \in RoomRecords BY <3>11, LobbyFields
      <4>2. d \in Conns BY <4>1 DEF RoomRecords
      <4>3. A.partners[d] \subseteq I.partners[d]
        BY <1>0, <2>3, <3>10, <3>11, <4>2
      <4>4. CASE q = r /\ d = c BY <1>0, <3>7, <3>8, <3>10, <3>11, <4>4
      <4>5. CASE q = r /\ d # c
        BY <1>3, <3>1, <3>3, <3>7, <3>8, <3>11, <4>3, <4>5 DEF Sound, Linked, host
      <4>6. CASE q # r
        BY <3>1, <3>8, <3>11, <4>3, <4>6 DEF Sound, Linked
      <4> QED BY <4>4, <4>5, <4>6
    <3>16. Symmetric(I)
      <4> SUFFICES ASSUME NEW d \in Conns, NEW e \in Conns, e \in I.partners[d]
                   PROVE  d \in I.partners[e]
        BY DEF Symmetric
      <4>1. e \in A.partners[d] => d \in A.partners[e] BY <3>1 DEF Sound, Symmetric
      <4>2. A.partners[e] \subseteq I.partners[e]
        BY <1>0, <2>3, <3>10, <3>11
      <4>3. CASE e \in A.partners[d] BY <4>1, <4>2, <4>3
      <4>4. CASE e \notin A.partners[d]
        <5>1. (d = c /\ e = host) \/ (d = host /\ e = c)
          BY <3>10, <3>11, <4>4
        <5> QED BY <3>10, <3>11, <5>1
      <4> QED BY <4>3, <4>4
    <3>17. Forgotten(I, {})
      <4>1. host \in A.peers
        <5>1. A.hosts[host] = r BY <1>3, <2>1, <3>1 DEF Sound, RoomsSound, host
        <5> QED BY <2>1, <2>3, <3>1, <5>1 DEF Sound, Forgotten
      <4>2. c \in A.peers BY <3>1
      <4> QED BY <3>1, <3>9, <3>10, <3>11, <4>1, <4>2 DEF Sound, Forgotten
    <3>18. Sound(I, B, {})
      BY <3>1, <3>11, <3>12, <3>13, <3>14, <3>15, <3>16, <3>17 DEF Sound
    <3>19. Kept(A, I, Conns \ {c}) /\ GuestLike(I, c)
      <4>1. \A d \in Conns \ {c} : I.joinedIn[d] = A.joinedIn[d] BY <3>9, <3>11
      <4> QED BY <3>5, <3>11, <4>1, TablesKept DEF GuestLike
    <3> HIDE DEF joined
    <3>in. Calm(A, I, Conns \ {c}) BY <3>11, TablesCalm
    <3>answer. Calm(I, S, Conns \ {c}) BY <2>4, <3>11, SendCalm
    <3>20. Sound(S, B, {}) /\ SameTables(I, S) /\ S \in LobbyRecords
      BY <2>4, <3>11, <3>18, SendKeeps, SendIs
    <3>21. Kept(I, S, Conns \ {c}) /\ GuestLike(S, c)
      BY <1>0, <2>4, <3>11, <3>19, SendKept DEF Kept
    <3> HIDE DEF S
    <3>22. Msg("peer", 0, c) \in Messages /\ Msg("peer", 0, c).t = "peer"
      BY <1>0, MessageTypes, Numbering DEF NoRoom
    <3>23. Sound(M, B, {}) /\ SameTables(S, M)
      BY <3>4, <3>20, <3>22, SendKeeps, SendIs
    <3>24. Kept(S, M, Conns) BY <3>4, <3>20, <3>22, SendKept DEF Kept
    <3>25. Kept(L, M, Conns \ {c}) /\ GuestLike(M, c)
      BY <1>0, <3>1, <3>19, <3>21, <3>24 DEF Kept
    <3>26. Calm(L, M, Conns \ {c})
      <4>1. Calm(L, A, Conns \ {c}) BY <3>1 DEF Calm
      <4>2. Calm(S, M, Conns \ {c}) BY <3>4, <3>20, <3>22, SendCalm
      <4> QED BY <3>in, <3>answer, <4>1, <4>2, CalmTwice
    <3>27. Keeping(L, M, {})
      <4>1. M.rooms = rooms BY <3>11, <3>20, <3>23 DEF SameTables
      <4> QED BY <1>3, <2>3, <3>1, <3>7, <3>8, <4>1, Numbering DEF Keeping, SameHosts
    <3>28. ASSUME L.joinedIn[c] = NoRoom PROVE Enters(L, M, c, r)
      <4>1. A = L BY <3>1, <3>28
      <4>2. L.hosts[host] = r BY <1>3, <2>1 DEF Sound, RoomsSound, host
      <4>3. host \in L.peers BY <2>1, <2>3, <4>2 DEF Sound, Forgotten
      <4>4. M.created = L.created /\ M.hosts = L.hosts /\ M.joinedIn = joinedIn /\ M.rooms = rooms
        BY <3>11, <3>20, <3>23, <4>1 DEF SameTables
      <4>5. Told(L, S, {c}, joined) BY <2>4, <3>11, <4>1, SendIs DEF Told, S
      <4>6. Told(S, M, {host}, Msg("peer", 0, c)) BY <3>4, <3>20, <3>22, SendIs DEF Told
      <4>7. S.peers = L.peers BY <3>11, <3>20, <4>1 DEF SameTables
      <4>8. \A d \in Conns : M.down[d] = IF d \notin L.peers \ broken THEN L.down[d]
                                 ELSE IF d = c THEN Append(L.down[d], Msg("joined", r, host))
                                 ELSE IF d = host THEN Append(L.down[d], Msg("peer", 0, c))
                                 ELSE L.down[d]
        BY <1>3, <4>5, <4>6, <4>7 DEF Told, joined
      <4>9. /\ \A q \in RoomIds \ {r} : M.rooms[q] = L.rooms[q]
            /\ M.rooms[r].host = host /\ M.rooms[r].joined = L.rooms[r].joined \cup {c}
        BY <2>1, <3>7, <3>8, <4>1, <4>4
      <4>10. \A d \in Conns : M.joinedIn[d] = IF d = c THEN r ELSE L.joinedIn[d]
        BY <3>9, <4>1, <4>4
      <4>11. \A d \in Conns :
               /\ M.joinedIn[d] = IF d = c THEN r ELSE L.joinedIn[d]
               /\ M.down[d] = IF d \notin L.peers \ broken THEN L.down[d]
                  ELSE IF d = c THEN Append(L.down[d], Msg("joined", r, host))
                  ELSE IF d = host THEN Append(L.down[d], Msg("peer", 0, c))
                  ELSE L.down[d]
        BY <4>8, <4>10
      <4> QED BY ONLY <1>3, <2>1, <4>2, <4>3, <4>4, <4>9, <4>11 DEF Enters, host
    <3> QED BY <3>1, <3>11, <3>20, <3>23, <3>25, <3>26, <3>27, <3>28
        DEF GuestServed, Served, SameTables
  <2> QED BY <2>6, <2>7, <2>8
<1> QED BY <1>2, <1>3

----------------------------------------------------------------------------
(* The page's table of peers.                                              *)

\* There is an index left for a connection that has none yet: the others have one
\* index each.
LEMMA IndexLeft ==
  ASSUME NEW peers \in [Conns -> 0 .. MaxConns], NEW c \in Conns, peers[c] = 0
  PROVE  FreeIndexes(peers) # {}
<1> DEFINE D == {d \in Conns : peers[d] # 0}
           g == [d \in D |-> peers[d]]
           I == 1 .. MaxConns
<1>1. MaxConns \in Nat BY Numbering
<1>2. IsFiniteSet(I) /\ Cardinality(I) = MaxConns BY <1>1, FS_Interval
<1>3. Conns = I BY DEF Conns
<1>4. SUFFICES ASSUME FreeIndexes(peers) = {} PROVE FALSE OBVIOUS
<1>5. \A i \in I : \E d \in D : g[d] = i
  <2> SUFFICES ASSUME NEW i \in I PROVE \E d \in D : g[d] = i OBVIOUS
  <2>1. i \in {peers[d] : d \in Conns} BY <1>4 DEF FreeIndexes
  <2>2. PICK d \in Conns : peers[d] = i BY <2>1
  <2>3. i # 0 BY <1>1
  <2> QED BY <2>2, <2>3
<1>6. \A d \in D : g[d] \in I BY <1>1
<1>7. g \in Surjection(D, I) BY <1>5, <1>6 DEF Surjection
<1>8. D \subseteq I \ {c} BY <1>3
<1>9. /\ IsFiniteSet(I \ {c}) /\ Cardinality(I \ {c}) = MaxConns - 1
  BY <1>2, <1>3, FS_RemoveElement
<1>10. IsFiniteSet(D) /\ Cardinality(D) <= Cardinality(I \ {c})
  BY <1>8, <1>9, FS_Subset
<1> HIDE DEF g, D, I
<1>11. Cardinality(I) <= Cardinality(D) BY <1>7, <1>10, FS_Surjection
<1>12. Cardinality(D) \in Nat BY <1>10, FS_CardinalityType
<1> QED BY <1>1, <1>2, <1>9, <1>10, <1>11, <1>12

\* A page that learns of a peer numbers it.
LEMMA EnsurePeerType ==
  ASSUME NEW peers \in [Conns -> 0 .. MaxConns], NEW c, NEW preferred
  PROVE  EnsurePeer(peers, c, preferred) \in [Conns -> 0 .. MaxConns]
<1>1. CASE c \notin Conns \/ peers[c] # 0 BY <1>1 DEF EnsurePeer
<1>2. CASE c \in Conns /\ peers[c] = 0
  <2>1. FreeIndexes(peers) # {} BY <1>2, IndexLeft
  <2>2. FreeIndexes(peers) \subseteq 0 .. MaxConns /\ FreeIndexes(peers) \in SUBSET Nat
    BY DEF FreeIndexes
  <2>3. PICK n \in FreeIndexes(peers) : \A i \in FreeIndexes(peers) : n <= i
    BY <2>1, <2>2, LeastExists
  <2>4. Min(FreeIndexes(peers)) \in FreeIndexes(peers) BY <2>3 DEF Min
  <2>5. AllocIndex(peers, preferred) \in 0 .. MaxConns BY <2>2, <2>4 DEF AllocIndex
  <2> QED BY <2>5 DEF EnsurePeer
<1> QED BY <1>1, <1>2

\* A page without peers has a table of them.
LEMMA NoPeersType == NoPeers \in [Conns -> 0 .. MaxConns]
BY Numbering DEF NoPeers, NoConn

\* A page that was just loaded has no connection and no role.
LEMMA FreshPageIs ==
  ASSUME NEW r \in 0 .. MaxRooms
  PROVE  /\ FreshPage(r) \in PageRecords /\ FreshPage(r).ws = NoConn
         /\ FreshPage(r).role = "none" /\ FreshPage(r).pending = "none"
         /\ ~FreshPage(r).reclaiming /\ ~FreshPage(r).connected
BY NoPeersType, Numbering DEF FreshPage, PageRecords

----------------------------------------------------------------------------
(* Pages act.                                                              *)

\* A page that hosts waits for no more than before.
LEMMA AwaitsCalm ==
  ASSUME NEW s, NEW L, NEW M, NEW B, NEW C, HostAwaits(s, L, B), B \subseteq C,
         s.ws \notin C \cup {NoConn} => Calm(L, M, {s.ws})
  PROVE  HostAwaits(s, M, C)
<1>1. s.ws = NoConn => ~s.connected BY DEF HostAwaits
<1>2. ASSUME s.ws \notin C \cup {NoConn}
      PROVE  /\ Answered(M, s.ws)
             /\ \A i \in Prompts(M, s.ws) : M.down[s.ws][i].t = "welcome" => ~s.connected
             /\ s.connected /\ s.role = "none" /\ s.pending = "none" /\ ~s.over => Idle(M, s.ws)
  <2>1. /\ Answered(L, s.ws)
        /\ \A i \in Prompts(L, s.ws) : L.down[s.ws][i].t = "welcome" => ~s.connected
        /\ s.connected /\ s.role = "none" /\ s.pending = "none" /\ ~s.over => Idle(L, s.ws)
    BY <1>2 DEF HostAwaits
  <2>2. /\ M.hosts[s.ws] \in {L.hosts[s.ws], NoRoom}
        /\ \A i \in Prompts(M, s.ws) : i \in Prompts(L, s.ws) /\ M.down[s.ws][i] = L.down[s.ws][i]
    BY <1>2 DEF Calm
  <2>3. Answered(M, s.ws) BY <2>1, <2>2 DEF Answered
  <2>4. Idle(L, s.ws) => Idle(M, s.ws) BY <2>2 DEF Idle
  <2> QED BY <2>1, <2>2, <2>3, <2>4
<1> QED BY <1>1, <1>2 DEF HostAwaits

\* Page p is s now, and what it did to the lobby is no other page's business.
LEMMA PageActs ==
  ASSUME IInv, NEW p \in Pages, NEW s, page' = [page EXCEPT ![p] = s],
         PageSound(p, s, lobby', broken'), Sound(lobby', broken', {}),
         broken \subseteq broken', broken' \subseteq Conns,
         lobby.peers \subseteq lobby'.peers, lobby'.counter >= lobby.counter,
         Kept(lobby, lobby', Conns \ {page[p].ws}),
         Calm(lobby, lobby', Conns \ {page[p].ws, s.ws}),
         \A q \in Pages \ {p} : page[q].ws # NoConn => page[q].ws # s.ws
  PROVE  IInv'
<1>1. page' \in [Pages -> PageRecords] BY DEF IInv, PageSound
<1>2. page'[p] = s /\ \A q \in Pages \ {p} : page'[q] = page[q] BY DEF IInv
<1>3. ASSUME NEW q \in Pages \ {p} PROVE PageSound(q, page[q], lobby', broken')
  <2>1. PageSound(q, page[q], lobby, broken) BY DEF IInv
  <2>2. page[q].ws # NoConn => page[q].ws \in Conns \ {page[p].ws}
    <3>1. page[q].ws \in Conns \cup {NoConn} BY Numbering DEF IInv, PageRecords
    <3> QED BY <3>1 DEF IInv
  <2>3. page[q].ws \in Nat /\ lobby.counter \in Nat /\ lobby'.counter \in Nat
    BY LobbyFields, Numbering DEF IInv, Sound, PageRecords
  <2>4. page[q].ws <= lobby'.counter BY <2>1, <2>3 DEF PageSound
  <2>5. q \in Hosts => HostPage(page[q], lobby')
    BY <2>1, <2>2 DEF PageSound, HostPage, Kept
  <2>6. q \in Guests => GuestPage(page[q], lobby')
    BY <2>1, <2>2 DEF PageSound, GuestPage, Kept
  <2>7. q \in Hosts => HostAwaits(page[q], lobby', broken')
    <3>1. q \in Hosts => HostAwaits(page[q], lobby, broken) BY <2>1 DEF PageSound
    <3>2. page[q].ws # NoConn => page[q].ws \in Conns \ {page[p].ws, s.ws} BY <2>2
    <3>3. page[q].ws # NoConn => Calm(lobby, lobby', {page[q].ws}) BY <3>2 DEF Calm
    <3> QED BY <3>1, <3>3, AwaitsCalm
  <2> QED BY <2>1, <2>4, <2>5, <2>6, <2>7 DEF PageSound
<1>4. \A q \in Pages : PageSound(q, page'[q], lobby', broken') BY <1>2, <1>3
<1>5. ASSUME NEW q \in Pages, NEW t \in Pages, page'[q].ws = page'[t].ws, page'[q].ws # NoConn
      PROVE  q = t
  BY <1>2, <1>5 DEF IInv
<1> QED BY <1>1, <1>4, <1>5 DEF IInv

\* The lobby acts without a page, on connections that broke or on rooms.
LEMMA LobbyActs ==
  ASSUME IInv, UNCHANGED <<page, broken>>, Sound(lobby', broken, {}),
         lobby.peers \ broken \subseteq lobby'.peers, lobby'.counter = lobby.counter,
         Kept(lobby, lobby', Conns), Calm(lobby, lobby', Conns)
  PROVE  IInv'
<1>1. ASSUME NEW q \in Pages PROVE PageSound(q, page[q], lobby', broken)
  <2>1. PageSound(q, page[q], lobby, broken) BY DEF IInv
  <2>2. page[q].ws \in Conns \cup {NoConn} BY Numbering DEF IInv, PageRecords
  <2>3. q \in Hosts => HostPage(page[q], lobby')
    BY <2>1, <2>2 DEF PageSound, HostPage, Kept
  <2>4. q \in Guests => GuestPage(page[q], lobby')
    BY <2>1, <2>2 DEF PageSound, GuestPage, Kept
  <2>5. q \in Hosts => HostAwaits(page[q], lobby', broken)
    <3>1. q \in Hosts => HostAwaits(page[q], lobby, broken) BY <2>1 DEF PageSound
    <3>2. page[q].ws # NoConn => Calm(lobby, lobby', {page[q].ws}) BY <2>2 DEF Calm
    <3> QED BY <3>1, <3>2, AwaitsCalm
  <2> QED BY <2>1, <2>3, <2>4, <2>5 DEF PageSound
<1> QED BY <1>1 DEF IInv

\* A page handles a message, or does what its user asks: L is the lobby before.
Before(p, L) ==
  /\ p \in Pages /\ page[p].ws \in Conns
  /\ Sound(L, broken, {}) /\ L.peers = lobby.peers /\ L.counter = lobby.counter
  /\ Kept(lobby, L, Conns) /\ Calm(lobby, L, Conns \ {page[p].ws}) /\ L.rooms = lobby.rooms
  /\ p \in Hosts => HostAwaits(page[p], L, broken)

\* What a page that hosts asked for: nothing, or one thing while nothing else is under way.
HostAsked(L, M, c) == M = L \/ (HostServed(L, M, broken, c) /\ Idle(L, c))

\* The page stays what it is, on the connection it has.
Stays(p, s) ==
  /\ s \in PageRecords /\ s.ws = page[p].ws
  /\ p \in Hosts => s.role \in {"none", "host"}
  /\ p \in Guests => s.role \in {"none", "client"} /\ s.pending \in {"none", "join"}
                     /\ ~s.reclaiming

\* A page that handles a message is as the invariant says of it.
LEMMA BeforeIs ==
  ASSUME IInv, NEW p, NEW L, Before(p, L)
  PROVE  /\ page[p] \in PageRecords /\ page[p].ws # NoConn
         /\ p \in Hosts => HostLike(L, page[p].ws) /\ HostPage(page[p], lobby)
         /\ p \in Guests => GuestLike(L, page[p].ws) /\ GuestPage(page[p], lobby)
         /\ Reaches(p) => page[p].ws \in L.peers
<1>1. PageSound(p, page[p], lobby, broken) BY DEF IInv, Before
<1>2. page[p].ws # NoConn BY Numbering DEF Before
<1>3. p \in Hosts => HostPage(page[p], lobby) /\ HostLike(lobby, page[p].ws)
  BY <1>1, <1>2 DEF PageSound, HostPage
<1>4. p \in Guests => GuestPage(page[p], lobby) /\ GuestLike(lobby, page[p].ws)
  BY <1>1, <1>2 DEF PageSound, GuestPage
<1>5. p \in Hosts => HostLike(L, page[p].ws) BY <1>3 DEF Before, Kept
<1>6. p \in Guests => GuestLike(L, page[p].ws) BY <1>4 DEF Before, Kept
<1>7. Reaches(p) => page[p].ws \in L.peers BY <1>1, <1>2 DEF PageSound, Reaches, Before
<1> QED BY <1>1, <1>2, <1>3, <1>4, <1>5, <1>6, <1>7 DEF PageSound

\* When a page has handled a message the invariant holds again.
LEMMA PageHandles ==
  ASSUME IInv, NEW p, NEW L, Before(p, L), NEW s, page' = [page EXCEPT ![p] = s],
         Stays(p, s), UNCHANGED broken,
         p \in Hosts => HostAsked(L, lobby', page[p].ws) /\ HostAwaits(s, lobby', broken),
         p \in Guests => lobby' = L \/ GuestServed(L, lobby', broken, page[p].ws)
  PROVE  IInv' /\ Keeping(lobby, lobby', broken')
<1>1. /\ page[p] \in PageRecords /\ page[p].ws # NoConn
      /\ p \in Hosts => HostLike(L, page[p].ws)
      /\ p \in Guests => GuestLike(L, page[p].ws)
  BY BeforeIs
<1>2. p \in Hosts \/ p \in Guests BY DEF Before, Pages
<1>3. /\ Sound(lobby', broken, {}) /\ lobby'.peers = L.peers /\ lobby'.counter = L.counter
      /\ Kept(L, lobby', Conns \ {page[p].ws}) /\ Calm(L, lobby', Conns \ {page[p].ws})
      /\ Keeping(L, lobby', {})
  <2>1. Kept(L, L, Conns \ {page[p].ws}) BY DEF Kept
  <2>2. Calm(L, L, Conns \ {page[p].ws}) BY DEF Calm
  <2>3. Keeping(L, L, {}) BY DEF Keeping
  <2> QED BY <1>2, <2>1, <2>2, <2>3 DEF HostAsked, HostServed, GuestServed, Served, Before
<1>4. /\ p \in Hosts => HostLike(lobby', page[p].ws)
      /\ p \in Guests => GuestLike(lobby', page[p].ws)
  BY <1>1 DEF HostAsked, HostServed, GuestServed
<1>5. PageSound(p, s, lobby', broken')
  <2>1. PageSound(p, page[p], lobby, broken) BY DEF IInv, Before
  <2> QED BY <1>3, <1>4, <2>1 DEF PageSound, HostPage, GuestPage, Stays, Before
<1>6. Kept(lobby, lobby', Conns \ {page[p].ws}) BY <1>3 DEF Kept, Before
<1>calm. Calm(lobby, lobby', Conns \ {page[p].ws, s.ws})
  <2>1. Calm(lobby, lobby', Conns \ {page[p].ws}) BY <1>3, CalmTwice DEF Before
  <2> QED BY <2>1 DEF Calm
<1>keeping. Keeping(lobby, lobby', broken') BY <1>3 DEF Keeping, Before
<1>7. lobby'.counter >= lobby.counter /\ lobby.peers \subseteq lobby'.peers
  BY <1>3, LobbyFields, Numbering DEF Before, Sound
<1>8. \A q \in Pages \ {p} : page[q].ws # NoConn => page[q].ws # s.ws
  BY <1>1 DEF IInv, Stays, Before
<1>9. p \in Pages /\ broken \subseteq broken' /\ broken' \subseteq Conns
  BY DEF Before, IInv
<1> QED BY <1>3, <1>5, <1>6, <1>calm, <1>keeping, <1>7, <1>8, <1>9, PageActs

\* What a page sends is handled by the lobby, or lost.
LEMMA SentByHost ==
  ASSUME IInv, NEW p \in Hosts, NEW L, Before(p, L), NEW handled, Sent(p, L, handled),
         Reaches(p) => HostServed(L, handled, broken, page[p].ws) /\ Idle(L, page[p].ws),
         NEW s, s.ws = page[p].ws, s.role # "none" \/ s.pending # "none"
  PROVE  HostAsked(L, lobby', page[p].ws) /\ HostAwaits(s, lobby', broken)
<1>1. page[p].ws # NoConn BY BeforeIs
<1>2. CASE Reaches(p)
  <2>1. lobby' = handled BY <1>2 DEF Sent
  <2>2. Fulfilled(lobby', page[p].ws) BY <1>2, <2>1 DEF HostServed
  <2> QED BY <1>1, <1>2, <2>1, <2>2 DEF HostAsked, HostAwaits, Fulfilled
<1>3. CASE ~Reaches(p)
  <2>1. lobby' = L /\ page[p].ws \in broken BY <1>1, <1>3 DEF Sent, Reaches
  <2> QED BY <1>1, <2>1 DEF HostAsked, HostAwaits
<1> QED BY <1>2, <1>3

\* ... and a guest.
LEMMA SentByGuest ==
  ASSUME IInv, NEW p \in Guests, NEW L, Before(p, L), NEW handled,
         Sent(p, L, handled), Reaches(p) => GuestServed(L, handled, broken, page[p].ws)
  PROVE  lobby' = L \/ GuestServed(L, lobby', broken, page[p].ws)
BY DEF Sent

\* A page is welcomed, and registers its room again or joins it.
LEMMA HandleWelcomeHolds ==
  ASSUME IInv, NEW p, NEW L, Before(p, L), HandleWelcome(p, L), UNCHANGED broken,
         p \in Hosts /\ Reaches(p) => Idle(L, page[p].ws)
  PROVE  IInv' /\ Keeping(lobby, lobby', broken')
<1> DEFINE me == page[p]
           b == page[p].role = "host" /\ page[p].token
           s == [me EXCEPT !.connected = TRUE, !.reclaiming = b]
<1>1. /\ me \in PageRecords /\ p \in Pages
      /\ p \in Hosts => HostLike(L, me.ws) /\ HostPage(me, lobby)
      /\ p \in Guests => GuestLike(L, me.ws) /\ GuestPage(me, lobby)
      /\ Reaches(p) => me.ws \in L.peers
      /\ Sound(L, broken, {})
  BY BeforeIs DEF Before
<1>2. me.token \in BOOLEAN /\ b \in BOOLEAN BY <1>1 DEF PageRecords
<1>3. page' = [page EXCEPT ![p] = s] BY DEF HandleWelcome
<1>4. Stays(p, s)
  <2>1. p \in Guests => ~b BY <1>1 DEF GuestPage
  <2> HIDE DEF b
  <2>2. s \in PageRecords BY <1>1, <1>2 DEF PageRecords
  <2>3. s.ws = me.ws /\ s.role = me.role /\ s.pending = me.pending /\ (s.reclaiming <=> b)
    BY <1>1, <1>2 DEF PageRecords
  <2> QED BY <1>1, <2>1, <2>2, <2>3 DEF Stays, HostPage, GuestPage
<1>same. s.ws = me.ws /\ s.role = me.role
  <2> HIDE DEF b
  <2> QED BY <1>1 DEF PageRecords
<1>there. me.ws # NoConn BY BeforeIs
<1> HIDE DEF s
<1>5. ASSUME p \in Hosts
      PROVE  HostAsked(L, lobby', me.ws) /\ HostAwaits(s, lobby', broken)
  <2>1. \/ /\ me.role = "host"
           /\ Reregister(p, L) \in {Reclaim(L, me.ws, me.roomId), Host(L, me.ws)}
        \/ Reregister(p, L) = L
    BY <1>1, <1>2, <1>5 DEF Reregister, HostPage
  <2>2. CASE Reregister(p, L) = L
    <3>1. lobby' = L BY <2>2 DEF HandleWelcome, Sent
    <3>2. HostAwaits(s, L, broken)
      <4>1. CASE me.ws \in broken BY <1>same, <1>there, <4>1 DEF HostAwaits
      <4>2. CASE me.ws \notin broken
        <5>1. Idle(L, me.ws) BY <1>5, <1>there, <4>2 DEF Reaches
        <5> QED BY <1>same, <1>there, <5>1 DEF HostAwaits, Idle, Answered
      <4> QED BY <4>1, <4>2
    <3> QED BY <3>1, <3>2 DEF HostAsked
  <2>3. CASE /\ me.role = "host"
             /\ Reregister(p, L) \in {Reclaim(L, me.ws, me.roomId), Host(L, me.ws)}
    <3>1. Reaches(p) => HostServed(L, Reregister(p, L), broken, me.ws)
      <4> HIDE DEF me
      <4> QED BY <1>1, <1>5, <2>3, ReclaimHolds, HostHolds
    <3>2. Sent(p, L, Reregister(p, L)) BY DEF HandleWelcome
    <3> QED BY <1>5, <1>same, <2>3, <3>1, <3>2, SentByHost
  <2> QED BY <2>1, <2>2, <2>3
<1>6. ASSUME p \in Guests
      PROVE  lobby' = L \/ GuestServed(L, lobby', broken, me.ws)
  <2>1. \/ Reregister(p, L) = Join(L, me.ws, me.roomId)
        \/ Reregister(p, L) = L
    BY <1>1, <1>6 DEF Reregister, GuestPage
  <2>2. ASSUME Reaches(p), Reregister(p, L) = L PROVE lobby' = L
    BY <2>2 DEF HandleWelcome, Sent
  <2>3. ASSUME Reaches(p), Reregister(p, L) # L
        PROVE  GuestServed(L, Reregister(p, L), broken, me.ws)
    <3> HIDE DEF me
    <3> QED BY <1>1, <1>6, <2>1, <2>3, JoinHolds
  <2> QED BY <2>2, <2>3 DEF HandleWelcome, Sent
<1> QED BY <1>3, <1>4, <1>5, <1>6, PageHandles

\* Only a page that hosts is told that it does.
LEMMA HandleHostedHolds ==
  ASSUME IInv, NEW p \in Hosts, NEW L, Before(p, L), NEW r \in 0 .. MaxRooms,
         HandleHosted(p, L, r), UNCHANGED broken
  PROVE  IInv' /\ Keeping(lobby, lobby', broken')
<1> DEFINE me == page[p]
           v == IF me.pending = "none" THEN me.saved ELSE r
           s == [me EXCEPT !.role = "host", !.roomId = r, !.token = TRUE, !.reclaiming = FALSE,
                           !.pending = "none", !.saved = v]
<1>1. me \in PageRecords /\ p \in Pages BY BeforeIs DEF Before
<1>2. v \in 0 .. MaxRooms BY <1>1 DEF PageRecords
<1>3. page' = [page EXCEPT ![p] = s] BY DEF HandleHosted
<1> HIDE DEF v
<1>4. s \in PageRecords /\ s.ws = me.ws /\ s.role = "host" /\ s.connected = me.connected
  BY <1>1, <1>2 DEF PageRecords
<1> HIDE DEF s
<1>5. Stays(p, s) BY <1>4, P2PAssumption DEF Stays
<1>6. lobby' = L BY DEF HandleHosted
<1>7. p \notin Guests BY P2PAssumption
<1>8. HostAwaits(s, L, broken)
  <2>1. HostAwaits(me, L, broken) BY DEF Before
  <2> HIDE DEF me
  <2> QED BY <1>4, <2>1 DEF HostAwaits
<1> QED BY <1>3, <1>5, <1>6, <1>7, <1>8, PageHandles DEF HostAsked

\* And only one that joins that it did.
LEMMA HandleJoinedHolds ==
  ASSUME IInv, NEW p \in Guests, NEW L, Before(p, L), NEW r \in 0 .. MaxRooms,
         NEW host \in 0 .. MaxConns, HandleJoined(p, L, r, host), UNCHANGED broken
  PROVE  IInv' /\ Keeping(lobby, lobby', broken')
<1> DEFINE me == page[p]
           peers == EnsurePeer(me.peers, host, 1)
           s == [me EXCEPT !.role = "client", !.pending = "none", !.roomId = r,
                           !.hostPeerId = host, !.peers = peers]
<1>1. me \in PageRecords /\ p \in Pages /\ GuestPage(me, lobby) BY BeforeIs DEF Before
<1>2. peers \in [Conns -> 0 .. MaxConns] BY <1>1, EnsurePeerType DEF PageRecords
<1>3. page' = [page EXCEPT ![p] = s] BY DEF HandleJoined
<1> HIDE DEF peers
<1>4. /\ s \in PageRecords /\ s.ws = me.ws /\ s.role = "client" /\ s.pending = "none"
      /\ s.reclaiming = me.reclaiming
  BY <1>1, <1>2 DEF PageRecords
<1> HIDE DEF s
<1>5. Stays(p, s) BY <1>1, <1>4, P2PAssumption DEF Stays, GuestPage
<1>6. lobby' = L /\ p \notin Hosts BY P2PAssumption DEF HandleJoined
<1> QED BY <1>3, <1>5, <1>6, PageHandles

\* A page that stays what it is and answers nothing.
LEMMA PageNotes ==
  ASSUME IInv, NEW p, NEW L, Before(p, L), NEW s, page' = [page EXCEPT ![p] = s],
         s \in PageRecords, s.ws = page[p].ws, s.role \in {page[p].role, "none"},
         s.pending \in {page[p].pending, "none"}, s.reclaiming = page[p].reclaiming,
         s.connected = page[p].connected,
         s.over \/ (s.role = page[p].role /\ s.pending = page[p].pending /\ ~page[p].over),
         lobby' = L, UNCHANGED broken
  PROVE  IInv' /\ Keeping(lobby, lobby', broken')
<1>1. /\ p \in Hosts => HostPage(page[p], lobby)
      /\ p \in Guests => GuestPage(page[p], lobby)
  BY BeforeIs
<1>2. Stays(p, s) BY <1>1 DEF Stays, HostPage, GuestPage
<1>3. ASSUME p \in Hosts PROVE HostAwaits(s, L, broken)
  <2>1. HostAwaits(page[p], L, broken) BY <1>3 DEF Before
  <2> QED BY <2>1 DEF HostAwaits
<1> QED BY <1>2, <1>3, PageHandles DEF HostAsked

\* A page learns who else is connected.
LEMMA HandlePeersHold ==
  ASSUME IInv, NEW p, NEW L, Before(p, L), NEW c \in 0 .. MaxConns, UNCHANGED broken,
         HandlePeerArrived(p, L, c) \/ HandlePeerLeft(p, L, c)
  PROVE  IInv' /\ Keeping(lobby, lobby', broken')
<1> DEFINE me == page[p]
<1>1. me \in PageRecords /\ p \in Pages BY BeforeIs DEF Before
<1>2. me.peers \in [Conns -> 0 .. MaxConns] BY <1>1 DEF PageRecords
<1>3. ASSUME NEW peers \in [Conns -> 0 .. MaxConns],
             page' = [page EXCEPT ![p] = [me EXCEPT !.peers = peers]], lobby' = L
      PROVE  IInv' /\ Keeping(lobby, lobby', broken')
  <2> DEFINE s == [me EXCEPT !.peers = peers]
  <2>1. /\ s \in PageRecords /\ s.ws = me.ws /\ s.role = me.role /\ s.pending = me.pending
        /\ s.reclaiming = me.reclaiming /\ s.connected = me.connected /\ s.over = me.over
    BY <1>1 DEF PageRecords
  <2>2. page' = [page EXCEPT ![p] = s] BY <1>3
  <2>3. me.over \in BOOLEAN BY <1>1 DEF PageRecords
  <2> HIDE DEF s
  <2>4. s.over \/ (s.role = me.role /\ s.pending = me.pending /\ ~me.over) BY <2>1, <2>3
  <2>5. /\ s.role \in {me.role, "none"} /\ s.pending \in {me.pending, "none"}
        /\ lobby' = L
    BY <1>3, <2>1
  <2> QED BY <2>1, <2>2, <2>4, <2>5, PageNotes
<1>4. CASE HandlePeerArrived(p, L, c)
  <2> DEFINE peers == EnsurePeer(me.peers, c, 0)
  <2>1. peers \in [Conns -> 0 .. MaxConns] BY <1>2, EnsurePeerType
  <2>2. page' = [page EXCEPT ![p] = [me EXCEPT !.peers = peers]] /\ lobby' = L
    BY <1>4 DEF HandlePeerArrived
  <2> HIDE DEF peers
  <2> QED BY <1>3, <2>1, <2>2
<1>5. CASE HandlePeerLeft(p, L, c)
  <2> DEFINE peers == [me.peers EXCEPT ![c] = 0]
  <2>1. peers \in [Conns -> 0 .. MaxConns] BY <1>2, Numbering DEF NoConn
  <2>2. page' = [page EXCEPT ![p] = [me EXCEPT !.peers = peers]] /\ lobby' = L
    BY <1>5 DEF HandlePeerLeft
  <2> HIDE DEF peers
  <2> QED BY <1>3, <2>1, <2>2
<1> QED BY <1>4, <1>5

\* A page learns that its host is away.
LEMMA HandleHostAwayHolds ==
  ASSUME IInv, NEW p, NEW L, Before(p, L), HandleHostAway(p, L), UNCHANGED broken
  PROVE  IInv' /\ Keeping(lobby, lobby', broken')
<1> DEFINE me == page[p]
           s == IF me.role # "client" THEN me
                ELSE [me EXCEPT !.peers = NoPeers, !.hostPeerId = NoConn]
<1>1. me \in PageRecords /\ p \in Pages BY BeforeIs DEF Before
<1>2. page' = [page EXCEPT ![p] = s] BY <1>1 DEF HandleHostAway, IInv
<1>3. /\ s \in PageRecords /\ s.ws = me.ws /\ s.role = me.role /\ s.pending = me.pending
      /\ s.reclaiming = me.reclaiming /\ s.connected = me.connected /\ s.over = me.over
      /\ me.over \in BOOLEAN
  BY <1>1, NoPeersType, Numbering DEF PageRecords
<1> HIDE DEF s
<1>4. s.over \/ (s.role = me.role /\ s.pending = me.pending /\ ~me.over) BY <1>3
<1>5. /\ s.role \in {me.role, "none"} /\ s.pending \in {me.pending, "none"}
      /\ lobby' = L
  BY <1>3 DEF HandleHostAway
<1> QED BY <1>2, <1>3, <1>4, <1>5, PageNotes

\* A guest whose host is back asks to join again.
LEMMA HandleHostBackHolds ==
  ASSUME IInv, NEW p, NEW L, Before(p, L), NEW r, HandleHostBack(p, L, r), UNCHANGED broken
  PROVE  IInv' /\ Keeping(lobby, lobby', broken')
<1> DEFINE me == page[p]
           s == [me EXCEPT !.pending = "join"]
<1>1. /\ me \in PageRecords /\ p \in Pages
      /\ p \in Hosts => HostPage(me, lobby)
      /\ p \in Guests => GuestLike(L, me.ws) /\ GuestPage(me, lobby)
      /\ Reaches(p) => me.ws \in L.peers
      /\ Sound(L, broken, {})
  BY BeforeIs DEF Before
<1>2. CASE me.role = "client" /\ me.roomId = r
  <2>1. page' = [page EXCEPT ![p] = s] /\ Sent(p, L, Join(L, me.ws, r))
    BY <1>2 DEF HandleHostBack
  <2>2. /\ s \in PageRecords /\ s.ws = me.ws /\ s.role = me.role /\ s.pending = "join"
        /\ s.reclaiming = me.reclaiming
    BY <1>1 DEF PageRecords
  <2>3. p \notin Hosts /\ p \in Guests BY <1>1, <1>2 DEF HostPage, Pages
  <2> HIDE DEF s
  <2>4. Stays(p, s) BY <1>1, <2>2, <2>3 DEF Stays, GuestPage
  <2>5. Reaches(p) => GuestServed(L, Join(L, me.ws, r), broken, me.ws)
    <3> HIDE DEF me
    <3> QED BY <1>1, <2>3, JoinHolds
  <2>6. lobby' = L \/ GuestServed(L, lobby', broken, me.ws)
    BY <2>1, <2>3, <2>5, SentByGuest
  <2> QED BY <2>1, <2>3, <2>4, <2>6, PageHandles
<1>3. CASE ~(me.role = "client" /\ me.roomId = r)
  <2>1. page' = [page EXCEPT ![p] = me] /\ lobby' = L
    BY <1>1, <1>3 DEF HandleHostBack, IInv
  <2>2. me.over \in BOOLEAN BY <1>1 DEF PageRecords
  <2> QED BY <1>1, <2>1, <2>2, PageNotes
<1> QED BY <1>2, <1>3

\* A page learns that its room is closed.
LEMMA HandleRoomClosedHolds ==
  ASSUME IInv, NEW p, NEW L, Before(p, L), HandleRoomClosed(p, L), UNCHANGED broken
  PROVE  IInv' /\ Keeping(lobby, lobby', broken')
<1> DEFINE me == page[p]
           s == [me EXCEPT !.peers = NoPeers, !.role = "none", !.pending = "none",
                           !.roomId = NoRoom, !.hostPeerId = NoConn, !.over = TRUE]
<1>1. me \in PageRecords /\ p \in Pages BY BeforeIs DEF Before
<1>2. page' = [page EXCEPT ![p] = s] /\ lobby' = L BY DEF HandleRoomClosed
<1>3. /\ s \in PageRecords /\ s.ws = me.ws /\ s.role = "none" /\ s.pending = "none"
      /\ s.reclaiming = me.reclaiming /\ s.connected = me.connected /\ s.over
  BY <1>1, NoPeersType, Numbering DEF PageRecords
<1> HIDE DEF s
<1> QED BY <1>2, <1>3, PageNotes

\* Only a page that hosts asks for another room when one is refused.
LEMMA HandleErrorHolds ==
  ASSUME IInv, NEW p, NEW L, Before(p, L), NEW code, HandleError(p, L, code), UNCHANGED broken,
         p \in Hosts /\ Reaches(p) => Idle(L, page[p].ws)
  PROVE  IInv' /\ Keeping(lobby, lobby', broken')
<1> DEFINE old == page[p]
           b == old.reclaiming /\ code # "noroom"
           me == [old EXCEPT !.reclaiming = b]
           unattended == /\ old.reclaiming /\ code = "noroom" /\ me.role = "host"
                         /\ me.pending \notin {"host", "reclaim"}
           again == [me EXCEPT !.token = FALSE]
           anew == [me EXCEPT !.pending = "host", !.roomId = NoRoom, !.token = FALSE]
           alone == [me EXCEPT !.pending = "none", !.over = TRUE]
           told == [me EXCEPT !.pending = "none"]
<1>1. /\ old \in PageRecords /\ p \in Pages
      /\ p \in Hosts => HostLike(L, old.ws) /\ HostPage(old, lobby)
      /\ p \in Guests => GuestPage(old, lobby)
      /\ Reaches(p) => old.ws \in L.peers
      /\ Sound(L, broken, {})
  BY BeforeIs DEF Before
<1>there. old.ws # NoConn BY BeforeIs
<1>2. b \in BOOLEAN /\ (b => old.reclaiming) BY <1>1 DEF PageRecords
<1> HIDE DEF b
<1>3. /\ me \in PageRecords /\ me.ws = old.ws /\ me.role = old.role
      /\ me.pending = old.pending /\ me.reclaiming = b
  BY <1>1, <1>2 DEF PageRecords
<1>4. \/ /\ unattended
         /\ page' = [page EXCEPT ![p] = again] /\ Sent(p, L, Host(L, me.ws))
      \/ /\ me.pending = "reclaim"
         /\ page' = [page EXCEPT ![p] = anew] /\ Sent(p, L, Host(L, me.ws))
      \/ page' = [page EXCEPT ![p] = alone] /\ lobby' = L
      \/ page' = [page EXCEPT ![p] = told] /\ lobby' = L
  BY DEF HandleError, b
<1> HIDE DEF old, me
<1>5. ASSUME NEW s \in PageRecords, s.ws = old.ws, s.role = old.role, p \in Hosts,
             s.role # "none" \/ s.pending # "none",
             page' = [page EXCEPT ![p] = s], Sent(p, L, Host(L, old.ws))
      PROVE  IInv' /\ Keeping(lobby, lobby', broken')
  <2>1. p \notin Guests BY <1>5, P2PAssumption
  <2>2. Stays(p, s) BY <1>1, <1>5, <2>1 DEF Stays, HostPage, old
  <2>3. Reaches(p) => HostServed(L, Host(L, old.ws), broken, old.ws)
    BY <1>1, <1>5, HostHolds
  <2>4. HostAsked(L, lobby', old.ws) /\ HostAwaits(s, lobby', broken)
    BY <1>5, <2>3, SentByHost DEF old
  <2> QED BY <1>5, <2>1, <2>2, <2>4, PageHandles DEF old
<1>6. ASSUME NEW s \in PageRecords, s.ws = old.ws, s.role = old.role, s.pending = "none",
             s.reclaiming = b, page' = [page EXCEPT ![p] = s], lobby' = L
      PROVE  IInv' /\ Keeping(lobby, lobby', broken')
  <2>1. Stays(p, s) BY <1>1, <1>2, <1>6 DEF Stays, HostPage, GuestPage, old
  <2>2. ASSUME p \in Hosts PROVE HostAwaits(s, L, broken)
    <3>1. CASE old.ws \in broken BY <1>there, <1>6, <3>1 DEF HostAwaits
    <3>2. CASE old.ws \notin broken
      <4>1. Idle(L, old.ws) BY <1>there, <2>2, <3>2 DEF Reaches, old
      <4> QED BY <1>there, <1>6, <4>1 DEF HostAwaits, Idle, Answered
    <3> QED BY <3>1, <3>2
  <2> QED BY <1>6, <2>1, <2>2, PageHandles DEF HostAsked
<1>7. CASE /\ unattended
           /\ page' = [page EXCEPT ![p] = again] /\ Sent(p, L, Host(L, me.ws))
  <2>1. p \in Hosts BY <1>1, <1>7 DEF GuestPage, Pages
  <2>2. /\ again \in PageRecords /\ again.ws = old.ws /\ again.role = old.role
        /\ again.role # "none"
    BY <1>3, <1>7 DEF PageRecords
  <2>3. page' = [page EXCEPT ![p] = again] /\ Sent(p, L, Host(L, old.ws)) BY <1>3, <1>7
  <2> HIDE DEF again
  <2> QED BY <1>5, <2>1, <2>2, <2>3
<1>8. CASE /\ me.pending = "reclaim"
           /\ page' = [page EXCEPT ![p] = anew] /\ Sent(p, L, Host(L, me.ws))
  <2>1. p \in Hosts BY <1>1, <1>3, <1>8 DEF GuestPage, Pages
  <2>2. /\ anew \in PageRecords /\ anew.ws = old.ws /\ anew.role = old.role
        /\ anew.pending # "none"
    BY <1>3, Numbering DEF PageRecords
  <2>3. page' = [page EXCEPT ![p] = anew] /\ Sent(p, L, Host(L, old.ws)) BY <1>3, <1>8
  <2> HIDE DEF anew
  <2> QED BY <1>5, <2>1, <2>2, <2>3
<1>9. CASE page' = [page EXCEPT ![p] = alone] /\ lobby' = L
  <2>1. /\ alone \in PageRecords /\ alone.ws = old.ws /\ alone.role = old.role
        /\ alone.pending = "none" /\ alone.reclaiming = b
    BY <1>3 DEF PageRecords
  <2> HIDE DEF alone
  <2> QED BY <1>6, <1>9, <2>1
<1>10. CASE page' = [page EXCEPT ![p] = told] /\ lobby' = L
  <2>1. /\ told \in PageRecords /\ told.ws = old.ws /\ told.role = old.role
        /\ told.pending = "none" /\ told.reclaiming = b
    BY <1>3 DEF PageRecords
  <2> HIDE DEF told
  <2> QED BY <1>6, <1>10, <2>1
<1> QED BY <1>4, <1>7, <1>8, <1>9, <1>10

----------------------------------------------------------------------------
(* The steps.                                                              *)

\* A message is taken off what is under way before the page handles it.
LEMMA TakenOff ==
  ASSUME IInv, NEW p \in Pages, page[p].ws # NoConn, lobby.down[page[p].ws] # <<>>, NEW L,
         L = [lobby EXCEPT !.down[page[p].ws] = Tail(@)], NEW m,
         m = Head(lobby.down[page[p].ws])
  PROVE  /\ Before(p, L) /\ m \in Messages
         /\ p \in Hosts => m.t # "joined"
         /\ p \in Guests => m.t # "hosted"
         /\ p \in Hosts /\ Reaches(p) /\ m.t \in {"welcome", "error"} => Idle(L, page[p].ws)
<1> DEFINE c == page[p].ws
           q == lobby.down[c]
           down == [lobby.down EXCEPT ![c] = Tail(q)]
<1>1. page[p] \in PageRecords BY DEF IInv
<1>2. c \in Conns BY <1>1, Numbering DEF PageRecords
<1>3. lobby \in LobbyRecords /\ q \in Seq(Messages) BY <1>2, LobbyFields DEF IInv, Sound
<1>4. ASSUME NEW T, q \in Seq(T) PROVE Tail(q) \in Seq(T) /\ Head(q) \in T
  BY <1>4, HeadTailProperties
<1>5. /\ down \in [Conns -> Seq(Messages)] /\ down[c] = Tail(q)
      /\ \A d \in Conns \ {c} : down[d] = lobby.down[d]
  BY <1>2, <1>3, <1>4, LobbyFields
<1>6. L = [lobby EXCEPT !.down = down] OBVIOUS
<1> HIDE DEF down, q
<1>7. L \in LobbyRecords /\ SameTables(lobby, L) /\ L.down = down
  BY <1>3, <1>5, <1>6 DEF LobbyRecords, SameTables
<1>8. Sound(L, broken, {})
  <2>1. /\ RoomsSound(L) /\ Members(L) /\ Hosting(L) /\ Linked(L, broken) /\ Symmetric(L)
    BY <1>7 DEF IInv, Sound, SameTables, RoomsSound, Members, Hosting, Linked, Symmetric
  <2>2. Forgotten(L, {})
    <3>1. \A d \in Conns \ lobby.peers : d # c BY DEF IInv, Sound, Forgotten
    <3> QED BY <1>5, <1>7, <3>1 DEF IInv, Sound, Forgotten, SameTables
  <2> QED BY <1>7, <2>1, <2>2 DEF IInv, Sound, SameTables
<1>9. Kept(lobby, L, Conns)
  <2>1. ASSUME NEW d \in Conns, NEW T, lobby.down[d] \in Seq(T) PROVE L.down[d] \in Seq(T)
    BY <1>4, <1>5, <1>7, <2>1 DEF q
  <2> QED BY <1>7, <2>1 DEF Kept, HostLike, GuestLike, SameTables
<1>11. PageSound(p, page[p], lobby, broken) BY DEF IInv
<1>prompts. \A i \in Prompts(L, c) :
              /\ i + 1 \in Prompts(lobby, c) /\ L.down[c][i] = lobby.down[c][i + 1]
              /\ i \in Nat \ {0}
  <2>1. ASSUME NEW i \in Prompts(L, c)
        PROVE  i + 1 \in Prompts(lobby, c) /\ L.down[c][i] = lobby.down[c][i + 1] /\ i \in Nat \ {0}
    <3>1. L.down[c] = Tail(q) /\ lobby.down[c] = q /\ q # <<>> BY <1>5, <1>7 DEF q
    <3>2. /\ i \in DOMAIN Tail(q)
          /\ Tail(q)[i].t \in {"welcome", "error", "hosted"}
      BY <2>1, <3>1 DEF Prompts
    <3>3. /\ i \in 1 .. Len(q) - 1
          /\ i + 1 \in DOMAIN q /\ Tail(q)[i] = q[i + 1] /\ i \in Nat \ {0}
      BY <1>3, <3>1, <3>2
    <3> QED BY <3>1, <3>2, <3>3 DEF Prompts
  <2> QED BY <2>1
<1>head. m.t \in {"welcome", "error", "hosted"} => 1 \in Prompts(lobby, c) /\ lobby.down[c][1] = m
  <2>1. 1 \in DOMAIN q /\ m = q[1] BY <1>3 DEF q
  <2> QED BY <2>1 DEF Prompts, q
<1>awaits. p \in Hosts => HostAwaits(page[p], L, broken)
  <2> SUFFICES ASSUME p \in Hosts, c \notin broken PROVE HostAwaits(page[p], L, broken)
    BY <1>11 DEF HostAwaits, PageSound
  <2>1. HostAwaits(page[p], lobby, broken) /\ L.hosts = lobby.hosts
    BY <1>7, <1>11 DEF PageSound, SameTables
  <2>2. Answered(L, c)
    <3>1. Answered(lobby, c) BY <2>1 DEF HostAwaits
    <3>2. \A i, j \in Prompts(L, c) : i = j
      <4>1. ASSUME NEW i \in Prompts(L, c), NEW j \in Prompts(L, c) PROVE i = j
        <5>1. i + 1 = j + 1 /\ i \in Nat /\ j \in Nat BY <1>prompts, <3>1 DEF Answered
        <5> QED BY <5>1
      <4> QED BY <4>1
    <3>3. \A i \in Prompts(L, c) : L.down[c][i].t # "hosted" => L.hosts[c] = NoRoom
      BY <1>prompts, <2>1, <3>1 DEF Answered
    <3> QED BY <3>2, <3>3 DEF Answered
  <2>3. Idle(lobby, c) => Idle(L, c) BY <1>prompts, <2>1 DEF Idle
  <2>4. \A i \in Prompts(L, c) : L.down[c][i].t = "welcome" => ~page[p].connected
    BY <1>prompts, <2>1 DEF HostAwaits
  <2> QED BY <2>1, <2>2, <2>3, <2>4 DEF HostAwaits
<1>calm. Calm(lobby, L, Conns \ {c}) BY <1>5, <1>7, TablesCalm DEF SameTables
<1>10. Before(p, L) BY <1>2, <1>7, <1>8, <1>9, <1>awaits, <1>calm DEF Before, SameTables
<1>asked. ASSUME p \in Hosts, Reaches(p), m.t \in {"welcome", "error"} PROVE Idle(L, c)
  <2>1. Answered(lobby, c)
    BY <1>11, <1>asked DEF PageSound, HostAwaits, Reaches
  <2>2. 1 \in Prompts(lobby, c) /\ lobby.down[c][1] = m BY <1>head, <1>asked
  <2>3. L.hosts[c] = NoRoom BY <1>7, <1>asked, <2>1, <2>2 DEF Answered, SameTables
  <2>4. ASSUME NEW i \in Prompts(L, c) PROVE FALSE
    <3>1. i + 1 = 1 /\ i \in Nat \ {0} BY <1>prompts, <2>1, <2>2 DEF Answered
    <3> QED BY <3>1
  <2> QED BY <2>3, <2>4 DEF Idle
<1>12. p \in Hosts => m \in HostMessages
  BY <1>4, <1>11 DEF PageSound, HostPage, HostLike, q
<1>13. p \in Guests => m \in GuestMessages
  BY <1>4, <1>11 DEF PageSound, GuestPage, GuestLike, q
<1>14. m \in Messages BY <1>3, <1>4 DEF q
<1> QED BY <1>10, <1>12, <1>13, <1>14, <1>asked DEF HostMessages, GuestMessages

\* A page reads the next message of the lobby.
LEMMA DispatchControlHolds ==
  ASSUME IInv, NEW p \in Pages, DispatchControl(p)
  PROVE  IInv' /\ Keeping(lobby, lobby', broken')
<1> DEFINE c == page[p].ws
           m == Head(lobby.down[c])
           L == [lobby EXCEPT !.down[c] = Tail(@)]
<1>1. c # NoConn /\ lobby.down[c] # <<>> /\ UNCHANGED broken BY DEF DispatchControl
<1>2. /\ Before(p, L) /\ m \in Messages
      /\ p \in Hosts => m.t # "joined"
      /\ p \in Guests => m.t # "hosted"
      /\ p \in Hosts /\ Reaches(p) /\ m.t \in {"welcome", "error"} => Idle(L, page[p].ws)
  BY <1>1, TakenOff
<1>3. \/ m.t = "welcome" /\ HandleWelcome(p, L)
      \/ m.t = "hosted" /\ HandleHosted(p, L, m.room)
      \/ m.t = "joined" /\ HandleJoined(p, L, m.room, m.peer)
      \/ m.t = "peer" /\ HandlePeerArrived(p, L, m.peer)
      \/ m.t = "peerleft" /\ HandlePeerLeft(p, L, m.peer)
      \/ m.t = "hostaway" /\ HandleHostAway(p, L)
      \/ m.t = "hostback" /\ HandleHostBack(p, L, m.room)
      \/ m.t = "roomclosed" /\ HandleRoomClosed(p, L)
      \/ m.t = "error" /\ HandleError(p, L, m.code)
  <2>1. m.t \in {"welcome", "hosted", "joined", "peer", "peerleft", "hostaway", "hostback",
                 "roomclosed", "error"}
    BY <1>2 DEF Messages, Notices, Errors
  <2>2. (CASE m.t = "welcome"    -> HandleWelcome(p, L)
          [] m.t = "hosted"     -> HandleHosted(p, L, m.room)
          [] m.t = "joined"     -> HandleJoined(p, L, m.room, m.peer)
          [] m.t = "peer"       -> HandlePeerArrived(p, L, m.peer)
          [] m.t = "peerleft"   -> HandlePeerLeft(p, L, m.peer)
          [] m.t = "hostaway"   -> HandleHostAway(p, L)
          [] m.t = "hostback"   -> HandleHostBack(p, L, m.room)
          [] m.t = "roomclosed" -> HandleRoomClosed(p, L)
          [] m.t = "error"      -> HandleError(p, L, m.code))
    BY DEF DispatchControl
  <2> HIDE DEF c, m, L
  <2> QED BY <2>1, <2>2
<1> HIDE DEF c, m, L
<1>4. m.t # "error" => m.room \in 0 .. MaxRooms /\ m.peer \in 0 .. MaxConns
  BY <1>2 DEF Messages, Notices, Errors
<1>5. p \in Hosts \/ p \in Guests BY DEF Pages
<1>6. CASE m.t = "welcome" /\ HandleWelcome(p, L) BY <1>1, <1>2, <1>6, HandleWelcomeHolds
<1>7. CASE m.t = "hosted" /\ HandleHosted(p, L, m.room)
  BY <1>1, <1>2, <1>4, <1>5, <1>7, HandleHostedHolds
<1>8. CASE m.t = "joined" /\ HandleJoined(p, L, m.room, m.peer)
  BY <1>1, <1>2, <1>4, <1>5, <1>8, HandleJoinedHolds
<1>9. CASE \/ m.t = "peer" /\ HandlePeerArrived(p, L, m.peer)
           \/ m.t = "peerleft" /\ HandlePeerLeft(p, L, m.peer)
  BY <1>1, <1>2, <1>4, <1>9, HandlePeersHold
<1>10. CASE m.t = "hostaway" /\ HandleHostAway(p, L)
  BY <1>1, <1>2, <1>10, HandleHostAwayHolds
<1>11. CASE m.t = "hostback" /\ HandleHostBack(p, L, m.room)
  BY <1>1, <1>2, <1>11, HandleHostBackHolds
<1>12. CASE m.t = "roomclosed" /\ HandleRoomClosed(p, L)
  BY <1>1, <1>2, <1>12, HandleRoomClosedHolds
<1>13. CASE m.t = "error" /\ HandleError(p, L, m.code)
  BY <1>1, <1>2, <1>13, HandleErrorHolds
<1> QED BY <1>3, <1>6, <1>7, <1>8, <1>9, <1>10, <1>11, <1>12, <1>13

\* A page gets a connection that nobody had before.
LEMMA ConnectHolds ==
  ASSUME IInv, NEW p \in Pages, Connect(p)
  PROVE  IInv' /\ Keeping(lobby, lobby', broken')
<1> DEFINE c == lobby.counter + 1
           s == [page[p] EXCEPT !.ws = c]
<1>1. /\ page[p].ws = NoConn /\ c \in Conns /\ lobby' = OnConnection(lobby, c)
      /\ page' = [page EXCEPT ![p] = s] /\ UNCHANGED broken
  BY DEF Connect
<1>2. /\ Sound(lobby', broken, {}) /\ lobby'.peers = lobby.peers \cup {c} /\ lobby'.counter = c
      /\ Kept(lobby, lobby', Conns) /\ Calm(lobby, lobby', Conns \ {c})
      /\ Keeping(lobby, lobby', {})
      /\ HostLike(lobby', c) /\ GuestLike(lobby', c) /\ Answered(lobby', c)
  <2>1. Sound(lobby, broken, {}) /\ c = lobby.counter + 1 /\ c \in Conns BY <1>1 DEF IInv
  <2> HIDE DEF c
  <2> QED BY <1>1, <2>1, OnConnectionHolds
<1>3. lobby.counter \in Nat /\ c \in Nat /\ c \in 0 .. MaxConns
  BY <1>1, LobbyFields, Numbering DEF IInv, Sound
<1>4. page[p] \in PageRecords /\ PageSound(p, page[p], lobby, broken) BY DEF IInv
<1> HIDE DEF c
<1>5. /\ s \in PageRecords /\ s.ws = c /\ s.role = page[p].role /\ s.pending = page[p].pending
      /\ s.reclaiming = page[p].reclaiming /\ s.connected = page[p].connected
  BY <1>3, <1>4 DEF PageRecords
<1> HIDE DEF s
<1>awaits. p \in Hosts => HostAwaits(s, lobby', broken)
  <2>1. p \in Hosts => ~s.connected BY <1>1, <1>4, <1>5 DEF PageSound, HostAwaits
  <2> QED BY <1>2, <1>5, <2>1 DEF HostAwaits
<1>6. PageSound(p, s, lobby', broken')
  BY <1>1, <1>2, <1>3, <1>4, <1>5, <1>awaits DEF PageSound, HostPage, GuestPage
<1>7. \A q \in Pages \ {p} : page[q].ws # NoConn => page[q].ws # s.ws
  <2>1. ASSUME NEW q \in Pages PROVE page[q].ws \in Nat /\ page[q].ws <= lobby.counter
    BY Numbering DEF IInv, PageSound, PageRecords
  <2> QED BY <1>3, <1>5, <2>1 DEF c
<1>8. lobby'.counter >= lobby.counter BY <1>2, <1>3 DEF c
<1>9. broken \subseteq broken' /\ broken' \subseteq Conns BY <1>1 DEF IInv
<1>10. /\ Kept(lobby, lobby', Conns \ {page[p].ws}) /\ lobby.peers \subseteq lobby'.peers
       /\ Keeping(lobby, lobby', broken')
  BY <1>2 DEF Kept, Keeping
<1>11. Calm(lobby, lobby', Conns \ {page[p].ws, s.ws}) BY <1>2, <1>5 DEF Calm
<1> QED BY <1>1, <1>2, <1>6, <1>7, <1>8, <1>9, <1>10, <1>11, PageActs

\* A page learns that its connection is closed.
LEMMA OnLobbyClosedHolds ==
  ASSUME IInv, NEW p \in Pages, OnLobbyClosed(p)
  PROVE  IInv' /\ Keeping(lobby, lobby', broken')
<1> DEFINE s == [page[p] EXCEPT !.ws = NoConn, !.connected = FALSE]
<1>1. page[p] \in PageRecords /\ PageSound(p, page[p], lobby, broken) BY DEF IInv
<1>2. page' = [page EXCEPT ![p] = s] /\ UNCHANGED <<lobby, broken>> BY DEF OnLobbyClosed
<1>3. /\ s \in PageRecords /\ s.ws = NoConn /\ s.role = page[p].role
      /\ s.pending = page[p].pending /\ s.reclaiming = page[p].reclaiming /\ ~s.connected
  BY <1>1, Numbering DEF PageRecords
<1> HIDE DEF s
<1>awaits. HostAwaits(s, lobby, broken) BY <1>3 DEF HostAwaits
<1>4. NoConn <= lobby.counter /\ lobby.counter \in Nat
  BY LobbyFields, Numbering DEF IInv, Sound, NoConn
<1>5. PageSound(p, s, lobby', broken')
  BY <1>1, <1>2, <1>3, <1>4, <1>awaits DEF PageSound, HostPage, GuestPage
<1>6. /\ Sound(lobby', broken', {}) /\ broken \subseteq broken' /\ broken' \subseteq Conns
      /\ lobby.peers \subseteq lobby'.peers /\ lobby'.counter >= lobby.counter
      /\ Kept(lobby, lobby', Conns \ {page[p].ws})
  BY <1>2, <1>4 DEF IInv, Kept
<1>calm. Calm(lobby, lobby', Conns \ {page[p].ws, s.ws}) /\ Keeping(lobby, lobby', broken')
  BY <1>2 DEF Calm, Keeping
<1>7. \A q \in Pages \ {p} : page[q].ws # NoConn => page[q].ws # s.ws BY <1>3
<1> QED BY <1>2, <1>5, <1>6, <1>7, <1>calm, PageActs

\* What a page may do of its own accord before anything reaches the lobby.
LEMMA BeforeNow ==
  ASSUME IInv, NEW p \in Pages, Reaches(p)
  PROVE  Before(p, lobby)
<1>1. page[p].ws \in Conns BY Numbering DEF IInv, PageRecords, Reaches
<1>2. p \in Hosts => HostAwaits(page[p], lobby, broken) BY DEF IInv, PageSound
<1> QED BY <1>1, <1>2 DEF IInv, Before, Kept, Calm

\* A page whose connection is broken, or that has none, only changes itself.
LEMMA PageAlone ==
  ASSUME IInv, NEW p \in Pages, NEW s, page' = [page EXCEPT ![p] = s], Stays(p, s),
         p \in Hosts => HostAwaits(s, lobby, broken), UNCHANGED <<lobby, broken>>
  PROVE  IInv' /\ Keeping(lobby, lobby', broken')
<1>1. PageSound(p, page[p], lobby, broken) /\ lobby.counter \in Nat
  BY LobbyFields, Numbering DEF IInv, Sound
<1>2. PageSound(p, s, lobby', broken')
  BY <1>1 DEF PageSound, HostPage, GuestPage, Stays
<1>3. /\ Sound(lobby', broken', {}) /\ broken \subseteq broken' /\ broken' \subseteq Conns
      /\ lobby.peers \subseteq lobby'.peers /\ lobby'.counter >= lobby.counter
      /\ Kept(lobby, lobby', Conns \ {page[p].ws})
      /\ Calm(lobby, lobby', Conns \ {page[p].ws, s.ws}) /\ Keeping(lobby, lobby', broken')
  BY <1>1 DEF IInv, Kept, Calm, Keeping
<1>4. \A q \in Pages \ {p} : page[q].ws # NoConn => page[q].ws # s.ws
  BY DEF IInv, Stays
<1> QED BY <1>2, <1>3, <1>4, PageActs

\* A page opens a room.
LEMMA HostGameHolds ==
  ASSUME IInv, NEW p \in Hosts, HostGame(p)
  PROVE  IInv' /\ Keeping(lobby, lobby', broken')
<1> DEFINE me == page[p]
           s == [me EXCEPT !.pending = "host"]
           t == [me EXCEPT !.pending = "reclaim", !.roomId = me.saved, !.token = TRUE]
<1>1. /\ me \in PageRecords /\ p \in Pages /\ p \notin Guests
      /\ PageSound(p, me, lobby, broken)
  BY P2PAssumption DEF IInv, Pages
<1>2. /\ s \in PageRecords /\ s.ws = me.ws /\ s.role = me.role /\ s.pending # "none"
      /\ t \in PageRecords /\ t.ws = me.ws /\ t.role = me.role /\ t.pending # "none"
  <2>1. me.saved \in 0 .. MaxRooms BY <1>1 DEF PageRecords
  <2> QED BY <1>1, <2>1 DEF PageRecords
<1>asks. me.connected /\ me.role = "none" /\ me.pending = "none" /\ ~me.over BY DEF HostGame
<1>3. /\ UNCHANGED broken
      /\ \/ page' = [page EXCEPT ![p] = s] /\ Sent(p, lobby, Host(lobby, me.ws))
         \/ page' = [page EXCEPT ![p] = t] /\ Sent(p, lobby, Reclaim(lobby, me.ws, me.saved))
  BY DEF HostGame
<1>4. Stays(p, s) /\ Stays(p, t) BY <1>1, <1>2 DEF Stays, PageSound, HostPage
<1> HIDE DEF s, t
<1>5. CASE Reaches(p)
  <2>1. Before(p, lobby) BY <1>1, <1>5, BeforeNow
  <2>2. me.ws \in lobby.peers /\ HostLike(lobby, me.ws) /\ Sound(lobby, broken, {})
    BY <1>5, <2>1, BeforeIs DEF IInv
  <2>3. \/ lobby' = Host(lobby, me.ws)
        \/ lobby' = Reclaim(lobby, me.ws, me.saved)
    BY <1>3, <1>5 DEF Sent
  <2>4. HostServed(lobby, lobby', broken, me.ws)
    <3> HIDE DEF me
    <3> QED BY <2>2, <2>3, HostHolds, ReclaimHolds
  <2>5. Idle(lobby, me.ws) BY <1>1, <1>5, <1>asks DEF PageSound, HostAwaits, Reaches
  <2>6. HostAsked(lobby, lobby', me.ws) BY <2>4, <2>5 DEF HostAsked
  <2>7. Fulfilled(lobby', me.ws) BY <2>4, <2>5 DEF HostServed
  <2>8. me.ws # NoConn BY <1>5 DEF Reaches
  <2>9. HostAwaits(s, lobby', broken) /\ HostAwaits(t, lobby', broken)
    <3> HIDE DEF me
    <3> QED BY <1>2, <2>7, <2>8 DEF HostAwaits, Fulfilled
  <2> QED BY <1>1, <1>3, <1>4, <2>1, <2>6, <2>9, PageHandles
<1>6. CASE ~Reaches(p)
  <2>1. lobby' = lobby BY <1>3, <1>6 DEF Sent
  <2>2. me.ws # NoConn BY <1>1, <1>asks DEF PageSound, HostAwaits
  <2>3. me.ws \in broken BY <1>6, <2>2 DEF Reaches
  <2>4. HostAwaits(s, lobby, broken) /\ HostAwaits(t, lobby, broken)
    <3> HIDE DEF me
    <3> QED BY <1>2, <2>2, <2>3 DEF HostAwaits
  <2> QED BY <1>1, <1>3, <1>4, <2>1, <2>4, PageAlone
<1> QED BY <1>5, <1>6

\* A page joins a room.
LEMMA JoinGameHolds ==
  ASSUME IInv, NEW p \in Guests, NEW r \in RoomIds, JoinGame(p, r)
  PROVE  IInv' /\ Keeping(lobby, lobby', broken')
<1> DEFINE me == page[p]
           s == [me EXCEPT !.pending = "join"]
<1>1. /\ me \in PageRecords /\ p \in Pages /\ p \notin Hosts
      /\ PageSound(p, me, lobby, broken)
  BY P2PAssumption DEF IInv, Pages
<1>2. /\ s \in PageRecords /\ s.ws = me.ws /\ s.role = me.role /\ s.pending = "join"
      /\ s.reclaiming = me.reclaiming
  BY <1>1 DEF PageRecords
<1>3. /\ UNCHANGED broken /\ page' = [page EXCEPT ![p] = s]
      /\ Sent(p, lobby, Join(lobby, me.ws, r))
  BY DEF JoinGame
<1>4. Stays(p, s) BY <1>1, <1>2 DEF Stays, PageSound, GuestPage
<1> HIDE DEF s
<1>5. CASE Reaches(p)
  <2>1. Before(p, lobby) BY <1>1, <1>5, BeforeNow
  <2>2. me.ws \in lobby.peers /\ GuestLike(lobby, me.ws) /\ Sound(lobby, broken, {})
    BY <1>5, <2>1, BeforeIs DEF IInv
  <2>3. lobby' = Join(lobby, me.ws, r) BY <1>3, <1>5 DEF Sent
  <2>4. GuestServed(lobby, lobby', broken, me.ws)
    <3> HIDE DEF me
    <3> QED BY <2>2, <2>3, JoinHolds
  <2> QED BY <1>1, <1>3, <1>4, <2>1, <2>4, PageHandles
<1>6. CASE ~Reaches(p)
  <2>1. lobby' = lobby BY <1>3, <1>6 DEF Sent
  <2> QED BY <1>1, <1>3, <1>4, <2>1, PageAlone
<1> QED BY <1>5, <1>6

\* More connections may break at any time.
LEMMA MoreBroken ==
  ASSUME NEW L, NEW B, NEW C, Sound(L, B, {}), B \subseteq C
  PROVE  Sound(L, C, {})
BY DEF Sound, Linked

\* A page that is gone starts anew without a connection, and its old one breaks.
LEMMA PageGone ==
  ASSUME IInv, NEW p \in Pages, NEW saved \in 0 .. MaxRooms, Closed(p, saved),
         Sound(lobby', broken', {}), lobby'.peers = lobby.peers, lobby'.counter = lobby.counter,
         Kept(lobby, lobby', Conns \ {page[p].ws}), Calm(lobby, lobby', Conns \ {page[p].ws})
  PROVE  IInv'
<1> DEFINE s == FreshPage(saved)
<1>1. page' = [page EXCEPT ![p] = s] /\ broken' = broken \cup ({page[p].ws} \ {NoConn})
  BY DEF Closed
<1>2. /\ s \in PageRecords /\ s.ws = NoConn /\ s.role = "none" /\ s.pending = "none"
      /\ ~s.reclaiming /\ ~s.connected
  BY FreshPageIs
<1>3. page[p].ws \in Conns \cup {NoConn} BY Numbering DEF IInv, PageRecords
<1>4. broken \subseteq broken' /\ broken' \subseteq Conns BY <1>1, <1>3 DEF IInv
<1>5. NoConn <= lobby.counter /\ lobby.counter \in Nat
  BY LobbyFields, Numbering DEF IInv, Sound, NoConn
<1> HIDE DEF s
<1>awaits. HostAwaits(s, lobby', broken') BY <1>2 DEF HostAwaits
<1>calm. Calm(lobby, lobby', Conns \ {page[p].ws, s.ws}) BY DEF Calm
<1>6. PageSound(p, s, lobby', broken') BY <1>2, <1>5, <1>awaits DEF PageSound, HostPage, GuestPage
<1>7. \A q \in Pages \ {p} : page[q].ws # NoConn => page[q].ws # s.ws BY <1>2
<1>8. lobby.peers \subseteq lobby'.peers /\ lobby'.counter >= lobby.counter BY <1>5
<1> QED BY <1>1, <1>4, <1>6, <1>7, <1>8, <1>calm, PageActs

\* A page is loaded again.
LEMMA ReloadHolds ==
  ASSUME IInv, NEW p \in Pages, Reload(p)
  PROVE  IInv' /\ Keeping(lobby, lobby', broken')
<1>1. Closed(p, page[p].saved) /\ UNCHANGED lobby BY DEF Reload
<1>2. page[p].saved \in 0 .. MaxRooms BY DEF IInv, PageRecords
<1>3. broken \subseteq broken' BY <1>1 DEF Closed
<1>4. Sound(lobby', broken', {}) BY <1>1, <1>3, MoreBroken DEF IInv
<1>5. /\ Kept(lobby, lobby', Conns \ {page[p].ws}) /\ Calm(lobby, lobby', Conns \ {page[p].ws})
      /\ Keeping(lobby, lobby', broken')
  BY <1>1 DEF Kept, Calm, Keeping
<1> QED BY <1>1, <1>2, <1>4, <1>5, PageGone

\* A page leaves its room.
LEMMA LeaveGameHolds ==
  ASSUME IInv, NEW p \in Pages, LeaveGame(p)
  PROVE  IInv' /\ Keeping(lobby, lobby', broken')
<1> DEFINE me == page[p]
<1>1. Closed(p, NoRoom) /\ me.role # "none" BY DEF LeaveGame
<1>2. NoRoom \in 0 .. MaxRooms BY Numbering
<1>3. broken \subseteq broken' /\ (me.ws # NoConn => me.ws \in broken') BY <1>1 DEF Closed
<1>4. Sound(lobby, broken', {}) BY <1>3, MoreBroken DEF IInv
<1>5. CASE lobby' = lobby
  <2>1. /\ Kept(lobby, lobby', Conns \ {page[p].ws}) /\ Calm(lobby, lobby', Conns \ {page[p].ws})
        /\ Keeping(lobby, lobby', broken')
    BY <1>5 DEF Kept, Calm, Keeping
  <2> QED BY <1>1, <1>2, <1>4, <1>5, <2>1, PageGone
<1>6. CASE Reaches(p) /\ me.role = "host" /\ lobby' = Unhost(lobby, me.ws)
  <2>1. Before(p, lobby) BY <1>6, BeforeNow
  <2>2. p \in Hosts BY <1>6, <2>1, BeforeIs DEF GuestPage, Pages
  <2>3. me.ws \in Conns /\ HostLike(lobby, me.ws) BY <2>1, <2>2, BeforeIs DEF Before
  <2>4. Served(lobby, lobby', broken', me.ws) /\ Keeping(lobby, lobby', {me.ws})
    <3> HIDE DEF me
    <3> QED BY <1>4, <1>6, <2>3, UnhostHolds
  <2>5. me.ws # NoConn BY <1>6 DEF Reaches
  <2>6. Keeping(lobby, lobby', broken') BY <1>3, <2>4, <2>5 DEF Keeping
  <2> QED BY <1>1, <1>2, <2>4, <2>6, PageGone DEF Served
<1>7. CASE /\ Reaches(p) /\ me.role # "host"
           /\ lobby' = Bye(lobby, me.ws, me.hostPeerId)
  <2>1. Before(p, lobby) BY <1>7, BeforeNow
  <2>2. p \in Guests BY <1>1, <1>7, <2>1, BeforeIs DEF HostPage, Pages
  <2>3. me.ws \in Conns /\ GuestLike(lobby, me.ws) /\ me.ws \in broken'
    BY <1>3, <2>1, <2>2, BeforeIs DEF Before
  <2>4. GuestServed(lobby, lobby', broken', me.ws)
    <3> HIDE DEF me
    <3> QED BY <1>4, <1>7, <2>3, ByeHolds
  <2>5. Keeping(lobby, lobby', broken') BY <2>4 DEF Keeping, GuestServed
  <2> QED BY <1>1, <1>2, <2>4, <2>5, PageGone DEF GuestServed, Served
<1>8. \/ lobby' = lobby
      \/ Reaches(p) /\ me.role = "host" /\ lobby' = Unhost(lobby, me.ws)
      \/ /\ Reaches(p) /\ me.role # "host"
         /\ lobby' = Bye(lobby, me.ws, me.hostPeerId)
  BY DEF LeaveGame, Sent
<1> QED BY <1>5, <1>6, <1>7, <1>8

\* A connection breaks.
LEMMA BreakHolds ==
  ASSUME IInv, NEW c \in Conns, Break(c)
  PROVE  IInv' /\ Keeping(lobby, lobby', broken')
<1>1. broken' = broken \cup {c} /\ UNCHANGED <<lobby, page>> BY DEF Break
<1>2. Sound(lobby', broken', {}) BY <1>1, MoreBroken DEF IInv
<1>3. \A q \in Pages : PageSound(q, page[q], lobby, broken')
  BY <1>1 DEF IInv, PageSound, HostAwaits
<1> QED BY <1>1, <1>2, <1>3 DEF IInv, Keeping

\* The lobby learns that a connection is broken.
LEMMA CleanupHolds ==
  ASSUME IInv, NEW c \in Conns, Cleanup(c)
  PROVE  IInv' /\ Keeping(lobby, lobby', broken')
<1>1. /\ c \in lobby.peers \cap broken /\ lobby' = CleanupConnection(lobby, c)
      /\ UNCHANGED <<broken, page>>
  BY DEF Cleanup
<1>2. /\ Sound(lobby', broken, {}) /\ lobby'.peers = lobby.peers \ {c}
      /\ lobby'.counter = lobby.counter /\ Kept(lobby, lobby', Conns)
      /\ Calm(lobby, lobby', Conns) /\ Keeping(lobby, lobby', {c})
  <2>1. Sound(lobby, broken, {}) BY DEF IInv
  <2>2. c \in lobby.peers /\ lobby' = CleanupConnection(lobby, c) /\ broken' = broken BY <1>1
  <2> DEFINE N == CleanupConnection(lobby, c)
  <2>3. N = CleanupConnection(lobby, c) OBVIOUS
  <2> HIDE DEF N
  <2>4. /\ Sound(N, broken, {}) /\ N.peers = lobby.peers \ {c} /\ N.counter = lobby.counter
        /\ Kept(lobby, N, Conns) /\ Calm(lobby, N, Conns) /\ Keeping(lobby, N, {c})
    BY <2>1, <2>2, <2>3, CleanupConnectionHolds, ZenonT(40)
  <2>5. lobby' = N BY <2>2, <2>3
  <2> QED BY <2>4, <2>5
<1>3. lobby.peers \ broken \subseteq lobby'.peers BY <1>1, <1>2
<1>4. Keeping(lobby, lobby', broken') BY <1>1, <1>2 DEF Keeping
<1> QED BY <1>1, <1>2, <1>3, <1>4, LobbyActs

\* The time of a room without its host is over.
LEMMA RoomTimerHolds ==
  ASSUME IInv, NEW r \in RoomIds, RoomTimer(r)
  PROVE  IInv' /\ Keeping(lobby, lobby', broken')
<1>1. /\ lobby.rooms[r].timer /\ lobby' = ReclaimTimer(lobby, r)
      /\ UNCHANGED <<broken, page>>
  BY DEF RoomTimer
<1>2. /\ Sound(lobby', broken, {}) /\ lobby'.peers = lobby.peers
      /\ lobby'.counter = lobby.counter /\ Kept(lobby, lobby', Conns)
      /\ Calm(lobby, lobby', Conns) /\ Keeping(lobby, lobby', {})
  BY <1>1, ReclaimTimerHolds DEF IInv
<1>3. Keeping(lobby, lobby', broken') BY <1>2 DEF Keeping
<1> QED BY <1>1, <1>2, <1>3, LobbyActs

----------------------------------------------------------------------------
(* The lobby's tables, and the rooms of hosts that are there.              *)

\* The invariant holds at first.
LEMMA InitHolds ==
  ASSUME Init
  PROVE  IInv
<1>1. lobby \in LobbyRecords
  BY GoneType, Numbering DEF Init, InitLobby, LobbyRecords, NoConn, NoRoom
<1>2. Sound(lobby, broken, {})
  <2>1. /\ lobby.peers = {} /\ lobby.hosts = [c \in Conns |-> NoRoom]
        /\ lobby.joinedIn = [c \in Conns |-> NoRoom] /\ lobby.partners = [c \in Conns |-> {}]
        /\ lobby.rooms = [r \in RoomIds |-> Gone] /\ lobby.down = [c \in Conns |-> <<>>]
    BY DEF Init, InitLobby
  <2>2. RoomsSound(lobby) BY <2>1, GoneType DEF RoomsSound
  <2>3. Members(lobby) BY <2>1, GoneType, Numbering DEF Members
  <2>4. Hosting(lobby) BY <2>1 DEF Hosting
  <2>5. Linked(lobby, broken) BY <2>1, GoneType DEF Linked
  <2>6. Symmetric(lobby) BY <2>1 DEF Symmetric
  <2>7. Forgotten(lobby, {}) BY <2>1 DEF Forgotten
  <2> QED BY <1>1, <2>1, <2>2, <2>3, <2>4, <2>5, <2>6, <2>7 DEF Sound
<1>3. lobby.counter = 0 /\ broken = {} BY DEF Init, InitLobby
<1>4. \A p \in Pages : page[p] = FreshPage(NoRoom) BY DEF Init
<1>5. /\ FreshPage(NoRoom) \in PageRecords /\ FreshPage(NoRoom).ws = NoConn
      /\ FreshPage(NoRoom).role = "none" /\ FreshPage(NoRoom).pending = "none"
      /\ ~FreshPage(NoRoom).reclaiming /\ ~FreshPage(NoRoom).connected
  BY FreshPageIs, Numbering
<1>6. page \in [Pages -> PageRecords] BY <1>5 DEF Init
<1>7. \A p \in Pages : PageSound(p, page[p], lobby, broken)
  BY <1>3, <1>4, <1>5 DEF PageSound, HostPage, GuestPage, HostAwaits, NoConn
<1> QED BY <1>2, <1>3, <1>4, <1>5, <1>6, <1>7 DEF IInv

\* Every step keeps it.
LEMMA NextHolds ==
  ASSUME IInv, [Next]_vars
  PROVE  IInv' /\ Keeping(lobby, lobby', broken')
<1>1. CASE UNCHANGED vars BY <1>1 DEF vars, IInv, Keeping
<1>2. ASSUME NEW p \in Pages,
             Connect(p) \/ OnLobbyClosed(p) \/ DispatchControl(p) \/ LeaveGame(p) \/ Reload(p)
      PROVE  IInv' /\ Keeping(lobby, lobby', broken')
  BY <1>2, ConnectHolds, OnLobbyClosedHolds, DispatchControlHolds, LeaveGameHolds, ReloadHolds
<1>3. ASSUME NEW p \in Hosts, HostGame(p) PROVE IInv' /\ Keeping(lobby, lobby', broken')
  BY <1>3, HostGameHolds
<1>4. ASSUME NEW p \in Guests, NEW r \in RoomIds, JoinGame(p, r)
      PROVE  IInv' /\ Keeping(lobby, lobby', broken')
  BY <1>4, JoinGameHolds
<1>5. ASSUME NEW c \in Conns, Break(c) \/ Cleanup(c)
      PROVE  IInv' /\ Keeping(lobby, lobby', broken')
  BY <1>5, BreakHolds, CleanupHolds
<1>6. ASSUME NEW r \in RoomIds, RoomTimer(r) PROVE IInv' /\ Keeping(lobby, lobby', broken')
  BY <1>6, RoomTimerHolds
<1> QED BY <1>1, <1>2, <1>3, <1>4, <1>5, <1>6 DEF Next

\* The invariant of every behaviour.
THEOREM Invariant == Spec => []IInv
<1>1. Init => IInv BY InitHolds
<1>2. IInv /\ [Next]_vars => IInv' BY NextHolds
<1> QED BY <1>1, <1>2, PTL DEF Spec

\* The lobby's tables agree after every handler of lobby.js: a room and its host,
\* members and memberships, links and links back, and nothing of a connection that
\* is gone.
THEOREM TablesAgree == Spec => []LobbyConsistent
<1>1. IInv => LobbyConsistent
  <2> SUFFICES ASSUME IInv PROVE LobbyConsistent OBVIOUS
  <2>1. /\ RoomsSound(lobby) /\ Members(lobby) /\ Hosting(lobby) /\ Linked(lobby, broken)
        /\ Symmetric(lobby) /\ Forgotten(lobby, {}) /\ lobby \in LobbyRecords
    BY DEF IInv, Sound
  <2>2. \A c \in Conns : lobby.partners[c] \subseteq Conns BY <2>1, LobbyFields
  <2> QED BY <2>1, <2>2
    DEF LobbyConsistent, RoomsSound, Members, Hosting, Linked, Symmetric, Forgotten
<1> QED BY <1>1, Invariant, PTL

\* While the connection that hosts a room works, no handler of lobby.js pauses or ends
\* the room: a page asks for a room only when the connection it has hosts none.
THEOREM RoomsKept == Spec => HostKeepsRoom
<1>1. IInv /\ [Next]_vars =>
        [\A r \in OpenRooms(lobby) :
           lobby.rooms[r].host \notin broken' \cup {NoConn} =>
             lobby'.rooms[r].open /\ ~lobby'.rooms[r].paused]_vars
  <2> SUFFICES ASSUME IInv, [Next]_vars, NEW r \in OpenRooms(lobby),
                      lobby.rooms[r].host \notin broken' \cup {NoConn}
               PROVE  lobby'.rooms[r].open /\ ~lobby'.rooms[r].paused
    OBVIOUS
  <2>1. IInv' /\ Keeping(lobby, lobby', broken') BY NextHolds
  <2>2. r \in RoomIds /\ lobby'.rooms[r].open /\ lobby'.rooms[r].host # NoConn
    BY <2>1 DEF Keeping, OpenRooms
  <2>3. RoomsSound(lobby') BY <2>1 DEF IInv, Sound
  <2> QED BY <2>2, <2>3 DEF RoomsSound
<1> QED BY <1>1, Invariant, PTL DEF HostKeepsRoom, Spec

----------------------------------------------------------------------------
(* What pages will know.                                                   *)

\* Messages after which the lobby has nothing more to say to a page that joins, and that
\* find it in no room.
Finals == {"welcome", "error", "hostback", "roomclosed"}
Away(q) == \E i \in DOMAIN q : q[i].t = "hostaway"
Joins(q) == q # <<>> /\ q[1].t = "joined"

\* A page is told, or knows, that it is in room r and who hosts that.
Believes(s, L, q, r) ==
  /\ IF Joins(q) THEN q[1].room = r ELSE s.role = "client" /\ s.roomId = r
  /\ Away(q) => L.rooms[r].host = NoConn
  /\ ~Away(q) => IF Joins(q) THEN q[1].peer = L.rooms[r].host
                 ELSE /\ s.hostPeerId = L.rooms[r].host
                      /\ s.hostPeerId # NoConn => s.peers[s.hostPeerId] # 0

\* What is under way to a page that joins: first that it has joined, last what ends its
\* stay.  None is under way to a page that may ask for a room, and it is in none.
GuestHears(s, L, B) ==
  /\ s.ws = NoConn => ~s.connected
  /\ s.ws \notin B \cup {NoConn} =>
       LET q == L.down[s.ws]
           r == L.joinedIn[s.ws]
       IN  /\ \A i \in DOMAIN q : /\ q[i].t \in Finals \cup {"joined", "hostaway"}
                                  /\ q[i].t \in Finals => i = Len(q) /\ r = NoRoom
                                  /\ q[i].t = "joined" => i = 1
           /\ s.connected /\ s.role = "none" /\ s.pending = "none" /\ ~s.over =>
                q = <<>> /\ r = NoRoom
           /\ r # NoRoom => Believes(s, L, q, r)

\* A page that hosts knows g when it has read q: nothing after k says that g left.
Remains(q, k, g) == \A j \in DOMAIN q : j > k => ~(q[j].t = "peerleft" /\ q[j].peer = g)
WillKnow(s, q, g) ==
  \/ s.peers[g] # 0 /\ Remains(q, 0, g)
  \/ \E i \in DOMAIN q : q[i].t = "peer" /\ q[i].peer = g /\ Remains(q, i, g)

\* What is under way to a page that hosts agrees with the room its connection hosts.
HostHears(s, L, B) ==
  /\ s.role = "host" => s.pending = "none"
  /\ s.ws \notin B \cup {NoConn} =>
       LET q == L.down[s.ws]
           r == L.hosts[s.ws]
       IN  /\ \A i \in DOMAIN q : /\ q[i].t \in {"welcome", "hosted", "error", "peer", "peerleft"}
                                  /\ q[i].t = "hosted" => q[i].room = r /\ r # NoRoom
                                  /\ q[i].t = "error" /\ s.role = "host" /\ s.token =>
                                       q[i].code = "noroom" /\ s.reclaiming
           /\ r # NoRoom => \/ \E i \in DOMAIN q : q[i].t = "hosted"
                            \/ s.role = "host" /\ s.token /\ s.roomId = r
           /\ s.connected /\ s.role = "host" /\ s.token /\ Prompts(L, s.ws) = {} =>
                r = s.roomId /\ r # NoRoom
           /\ r # NoRoom => \A g \in L.rooms[r].joined \ B : WillKnow(s, q, g)

\* The rooms a page that hosts can ask for, and the hosts a page that joins knows of.
Under(L, c) == IF c = NoConn THEN <<>> ELSE L.down[c]
Heard(L, c, t) == {i \in DOMAIN Under(L, c) : Under(L, c)[i].t = t}
Known(s, L) ==
  ({s.saved} \cup (IF s.token THEN {s.roomId} ELSE {})
     \cup {Under(L, s.ws)[i].room : i \in Heard(L, s.ws, "hosted")}) \ {NoRoom}
Hosters(s, L) ==
  ({s.hostPeerId} \cup {Under(L, s.ws)[i].peer : i \in Heard(L, s.ws, "joined")}) \ {NoConn}

KInv ==
  /\ \A p \in Guests : GuestHears(page[p], lobby, broken)
  /\ \A p \in Hosts : HostHears(page[p], lobby, broken)
  /\ \A p \in Hosts : \A r \in Known(page[p], lobby) : r <= lobby.created
  /\ \A p, q \in Hosts : p # q => Known(page[p], lobby) \cap Known(page[q], lobby) = {}
  /\ \A p, q \in Guests : \A c \in Hosters(page[p], lobby) :
       c <= lobby.counter /\ page[q].ws # c

----------------------------------------------------------------------------
(* What a handler does to connections that did not ask for it.             *)

Notes == {"peer", "peerleft", "hostaway", "hostback", "roomclosed"}
Quietly(L, M, D) ==
  \A d \in D : \A i \in DOMAIN M.down[d] :
    \/ M.down[d][i].t \in Notes
    \/ i \in DOMAIN L.down[d] /\ M.down[d][i] = L.down[d][i]

\* A guest's connection hears nothing, that its host is away, or that it is in no room.
GuestStep(L, M, d) ==
  \/ /\ M.down[d] = L.down[d] /\ M.joinedIn[d] = L.joinedIn[d]
     /\ L.joinedIn[d] # NoRoom => M.rooms[L.joinedIn[d]].host = L.rooms[L.joinedIn[d]].host
  \/ /\ L.joinedIn[d] # NoRoom /\ M.joinedIn[d] = L.joinedIn[d]
     /\ M.rooms[L.joinedIn[d]].host = NoConn
     /\ M.down[d] = Append(L.down[d], Msg("hostaway", L.joinedIn[d], 0))
  \/ /\ L.joinedIn[d] # NoRoom /\ M.joinedIn[d] = NoRoom
     /\ \E t \in {"hostback", "roomclosed"} :
          M.down[d] = Append(L.down[d], Msg(t, L.joinedIn[d], 0))

\* A host's connection hears of every guest that comes, and of none that stays that it left.
HostStep(L, M, d, B) ==
  /\ M.hosts[d] = L.hosts[d]
  /\ \/ /\ M.down[d] = L.down[d]
        /\ L.hosts[d] # NoRoom =>
             M.rooms[L.hosts[d]].joined \ B \subseteq L.rooms[L.hosts[d]].joined
     \/ \E g \in Conns :
          /\ M.down[d] = Append(L.down[d], Msg("peer", 0, g))
          /\ L.hosts[d] # NoRoom =>
               M.rooms[L.hosts[d]].joined \ B \subseteq L.rooms[L.hosts[d]].joined \cup {g}
     \/ \E g \in Conns :
          /\ M.down[d] = Append(L.down[d], Msg("peerleft", 0, g))
          /\ L.hosts[d] # NoRoom =>
               M.rooms[L.hosts[d]].joined \ B \subseteq L.rooms[L.hosts[d]].joined \ {g}

GuestsSpared(L, M, B, D) ==
  \A d \in (D \cap L.peers) \ B : L.hosts[d] = NoRoom => GuestStep(L, M, d)
HostsSpared(L, M, B, D) ==
  \A d \in (D \cap L.peers) \ B : L.joinedIn[d] = NoRoom => HostStep(L, M, d, B)
Spares(L, M, B, D) ==
  GuestsSpared(L, M, B, D) /\ HostsSpared(L, M, B, D) /\ Quietly(L, M, D)

\* Notes are told quietly, and other things to those of C only.
LEMMA ToldQuietly ==
  ASSUME NEW L \in LobbyRecords, NEW M, NEW C, NEW m, Told(L, M, C, m), NEW D \in SUBSET Conns,
         m.t \in Notes \/ C \cap D = {}
  PROVE  Quietly(L, M, D)
<1> SUFFICES ASSUME NEW d \in D, NEW i \in DOMAIN M.down[d]
             PROVE  \/ M.down[d][i].t \in Notes
                    \/ i \in DOMAIN L.down[d] /\ M.down[d][i] = L.down[d][i]
  BY DEF Quietly
<1>1. L.down[d] \in Seq(Messages) BY LobbyFields
<1>2. CASE M.down[d] = L.down[d] BY <1>2
<1>3. CASE M.down[d] = Append(L.down[d], m) /\ d \in C
  <2>1. i \in 1 .. Len(L.down[d]) + 1 BY <1>1, <1>3
  <2>2. CASE i = Len(L.down[d]) + 1 BY <1>1, <1>3, <2>2
  <2>3. CASE i \in 1 .. Len(L.down[d]) BY <1>1, <1>3, <2>3
  <2> QED BY <1>1, <2>1, <2>2, <2>3
<1> QED BY <1>2, <1>3 DEF Told

\* What a note is about does not matter.
LEMMA NoteKinds ==
  \A t \in Notes : \A r, c : Msg(t, r, c).t \in Notes
BY DEF Msg

\* The end of a room concerns its members and its host.
LEMMA ClosesSpares ==
  ASSUME NEW L, NEW X, NEW Z, Sound(L, Z, X), NEW M, NEW r \in RoomIds, Closes(L, M, r), NEW B,
         broken \subseteq B,
         NEW D \in SUBSET Conns, \A d \in D : L.hosts[d] # r /\ M.hosts[d] = L.hosts[d]
  PROVE  Spares(L, M, B, D)
<1>1. /\ L \in LobbyRecords /\ r # NoRoom
      /\ \A q \in RoomIds : M.rooms[q] = IF q = r THEN Gone ELSE L.rooms[q]
      /\ \A d \in Conns : M.joinedIn[d] = IF L.joinedIn[d] = r THEN NoRoom ELSE L.joinedIn[d]
      /\ Told(L, M, {d \in Conns : L.joinedIn[d] = r}, Msg("roomclosed", r, 0))
  BY Numbering DEF Sound, Closes
<1>2. Quietly(L, M, D) BY <1>1, ToldQuietly, NoteKinds DEF Notes
<1>3. ASSUME NEW d \in (D \cap L.peers) \ B
      PROVE  GuestStep(L, M, d) /\ (L.joinedIn[d] = NoRoom => HostStep(L, M, d, B))
  <2>1. /\ d \in Conns /\ L.joinedIn[d] \in RoomIds \cup {NoRoom}
        /\ L.hosts[d] \in RoomIds \cup {NoRoom}
    BY <1>1, LobbyFields, Numbering
  <2>2. M.down[d] = IF L.joinedIn[d] = r THEN Append(L.down[d], Msg("roomclosed", r, 0))
                    ELSE L.down[d]
    BY <1>1, <2>1 DEF Told
  <2>3. CASE L.joinedIn[d] = r BY <1>1, <2>1, <2>2, <2>3 DEF GuestStep
  <2>4. CASE L.joinedIn[d] # r
    <3>1. GuestStep(L, M, d) BY <1>1, <2>1, <2>2, <2>4 DEF GuestStep
    <3>2. HostStep(L, M, d, B) BY <1>1, <2>1, <2>2, <2>4 DEF HostStep
    <3> QED BY <3>1, <3>2
  <2> QED BY <1>1, <2>3, <2>4
<1> QED BY <1>2, <1>3 DEF Spares, GuestsSpared, HostsSpared

\* So does a pause.
LEMMA PausesSpares ==
  ASSUME NEW L, NEW X, NEW Z, Sound(L, Z, X), NEW M, NEW r \in RoomIds, Pauses(L, M, r), NEW B,
         broken \subseteq B,
         \A d \in Conns : M.joinedIn[d] = L.joinedIn[d],
         NEW D \in SUBSET Conns, \A d \in D : L.hosts[d] # r /\ M.hosts[d] = L.hosts[d]
  PROVE  Spares(L, M, B, D)
<1>1. /\ L \in LobbyRecords /\ r # NoRoom
      /\ \A q \in RoomIds \ {r} : M.rooms[q] = L.rooms[q]
      /\ M.rooms[r].host = NoConn
      /\ Told(L, M, {d \in Conns : L.joinedIn[d] = r}, Msg("hostaway", r, 0))
  BY Numbering DEF Sound, Pauses
<1>2. Quietly(L, M, D) BY <1>1, ToldQuietly, NoteKinds DEF Notes
<1>3. ASSUME NEW d \in (D \cap L.peers) \ B
      PROVE  GuestStep(L, M, d) /\ (L.joinedIn[d] = NoRoom => HostStep(L, M, d, B))
  <2>1. /\ d \in Conns /\ L.joinedIn[d] \in RoomIds \cup {NoRoom}
        /\ L.hosts[d] \in RoomIds \cup {NoRoom}
    BY <1>1, LobbyFields, Numbering
  <2>2. M.down[d] = IF L.joinedIn[d] = r THEN Append(L.down[d], Msg("hostaway", r, 0))
                    ELSE L.down[d]
    BY <1>1, <2>1 DEF Told
  <2>3. CASE L.joinedIn[d] = r BY <1>1, <2>1, <2>2, <2>3 DEF GuestStep
  <2>4. CASE L.joinedIn[d] # r
    <3>1. GuestStep(L, M, d) BY <1>1, <2>1, <2>2, <2>4 DEF GuestStep
    <3>2. HostStep(L, M, d, B) BY <1>1, <2>1, <2>2, <2>4 DEF HostStep
    <3> QED BY <3>1, <3>2
  <2> QED BY <1>1, <2>3, <2>4
<1> QED BY <1>2, <1>3 DEF Spares, GuestsSpared, HostsSpared

\* A guest that leaves concerns the host of its room.
LEMMA LeavesSpares ==
  ASSUME NEW L, NEW X, NEW Z, Sound(L, Z, X), NEW M, NEW r \in RoomIds, NEW c \in Conns,
         Leaves(L, M, r, c), NEW B, broken \subseteq B, c \in L.rooms[r].joined,
         NEW D \in SUBSET Conns,
         \A d \in D : M.hosts[d] = L.hosts[d] /\ M.joinedIn[d] = L.joinedIn[d]
  PROVE  Spares(L, M, B, D)
<1>1. /\ L \in LobbyRecords /\ r # NoRoom
      /\ \A q \in RoomIds \ {r} : M.rooms[q] = L.rooms[q]
      /\ M.rooms[r].host = L.rooms[r].host /\ M.rooms[r].joined = L.rooms[r].joined \ {c}
      /\ Told(L, M, {L.rooms[r].host}, Msg("peerleft", 0, c))
  BY Numbering DEF Sound, Leaves
<1>2. Quietly(L, M, D) BY <1>1, ToldQuietly, NoteKinds DEF Notes
<1>3. ASSUME NEW d \in (D \cap L.peers) \ B
      PROVE  (L.hosts[d] = NoRoom => GuestStep(L, M, d)) /\ HostStep(L, M, d, B)
  <2>1. /\ d \in Conns /\ L.joinedIn[d] \in RoomIds \cup {NoRoom}
        /\ L.hosts[d] \in RoomIds \cup {NoRoom}
    BY <1>1, LobbyFields, Numbering
  <2>2. M.down[d] = IF d = L.rooms[r].host THEN Append(L.down[d], Msg("peerleft", 0, c))
                    ELSE L.down[d]
    BY <1>1, <2>1 DEF Told
  <2>3. CASE d = L.rooms[r].host
    <3>1. L.rooms[r].open BY <1>1, GoneType DEF Sound, RoomsSound
    <3>2. L.hosts[d] = r BY <2>1, <2>3, <3>1, Numbering DEF Sound, RoomsSound
    <3>3. HostStep(L, M, d, B)
      BY <1>1, <2>2, <2>3, <3>2 DEF HostStep
    <3> QED BY <1>1, <3>2, <3>3
  <2>4. CASE d # L.rooms[r].host
    <3>1. GuestStep(L, M, d) BY <1>1, <2>1, <2>2, <2>4 DEF GuestStep
    <3>2. HostStep(L, M, d, B) BY <1>1, <2>1, <2>2, <2>4 DEF HostStep
    <3> QED BY <3>1, <3>2
  <2> QED BY <2>3, <2>4
<1> QED BY <1>2, <1>3 DEF Spares, GuestsSpared, HostsSpared

\* A refusal concerns whom it is sent to.
LEMMA RefusesSpares ==
  ASSUME NEW L \in LobbyRecords, NEW M, NEW c, NEW code, Refuses(L, M, c, code), NEW B
  PROVE  Spares(L, M, B, Conns \ {c})
<1> DEFINE m == [t |-> "error", code |-> code]
<1>1. SameTables(L, M) /\ Told(L, M, {c}, m) BY DEF Refuses
<1> HIDE DEF m
<1>2. Quietly(L, M, Conns \ {c}) BY <1>1, ToldQuietly
<1>3. ASSUME NEW d \in Conns \ {c} PROVE GuestStep(L, M, d) /\ HostStep(L, M, d, B)
  BY <1>1 DEF Told, SameTables, GuestStep, HostStep
<1> QED BY <1>2, <1>3 DEF Spares, GuestsSpared, HostsSpared

\* A new room concerns nobody else.
LEMMA OpensSpares ==
  ASSUME NEW L, NEW Z, Sound(L, Z, {}), NEW M, NEW c, NEW r, Opens(L, M, c, r), NEW B
  PROVE  Spares(L, M, B, Conns \ {c})
<1>1. /\ L \in LobbyRecords /\ r \in RoomIds /\ L.rooms[r] = Gone
      /\ \A q \in RoomIds \ {r} : M.rooms[q] = L.rooms[q]
      /\ \A d \in Conns : M.hosts[d] = IF d = c THEN r ELSE L.hosts[d]
      /\ M.joinedIn = L.joinedIn /\ Told(L, M, {c}, Msg("hosted", r, 0))
  BY DEF Opens, Sound
<1>2. Quietly(L, M, Conns \ {c}) BY <1>1, ToldQuietly
<1>3. ASSUME NEW d \in Conns \ {c} PROVE GuestStep(L, M, d) /\ HostStep(L, M, d, B)
  <2>1. /\ d \in Conns /\ L.joinedIn[d] \in RoomIds \cup {NoRoom}
        /\ L.hosts[d] \in RoomIds \cup {NoRoom}
    BY <1>1, LobbyFields, Numbering
  <2>2. L.joinedIn[d] # r BY <1>1, GoneType DEF Sound, Members
  <2>3. L.hosts[d] # r
    <3>1. r # NoRoom /\ L.rooms[r].host # d BY <1>1, GoneType, Numbering
    <3> QED BY <3>1 DEF Sound, Hosting
  <2>4. M.down[d] = L.down[d] BY <1>1 DEF Told
  <2> QED BY <1>1, <2>1, <2>2, <2>3, <2>4 DEF GuestStep, HostStep
<1> QED BY <1>2, <1>3 DEF Spares, GuestsSpared, HostsSpared

\* A room taken over concerns its members, and whoever hosted it.
LEMMA TakesOverSpares ==
  ASSUME NEW L, NEW Z, Sound(L, Z, {}), NEW M, NEW c, NEW r, TakesOver(L, M, c, r), NEW B,
         broken \subseteq B
  PROVE  Spares(L, M, B, {d \in Conns \ {c} : L.hosts[d] # r}) /\ Quietly(L, M, Conns \ {c})
<1>1. /\ L \in LobbyRecords /\ r \in RoomIds /\ r # NoRoom
      /\ \A q \in RoomIds \ {r} : M.rooms[q] = L.rooms[q]
      /\ \A d \in Conns \ {c} : M.hosts[d] = IF L.hosts[d] = r THEN NoRoom ELSE L.hosts[d]
      /\ \A d \in Conns : M.joinedIn[d] = IF L.joinedIn[d] = r THEN NoRoom ELSE L.joinedIn[d]
      /\ \A d \in Conns \ {c} :
           M.down[d] = IF d \in L.peers \ broken /\ L.joinedIn[d] = r
                       THEN Append(L.down[d], Msg("hostback", r, 0)) ELSE L.down[d]
  BY Numbering DEF TakesOver, Sound
<1>2. Quietly(L, M, Conns \ {c})
  <2> SUFFICES ASSUME NEW d \in Conns \ {c}, NEW i \in DOMAIN M.down[d]
               PROVE  \/ M.down[d][i].t \in Notes
                      \/ i \in DOMAIN L.down[d] /\ M.down[d][i] = L.down[d][i]
    BY DEF Quietly
  <2>0. L.down[d] \in Seq(Messages) BY <1>1, LobbyFields
  <2>1. CASE M.down[d] = L.down[d] BY <2>1
  <2>2. CASE M.down[d] = Append(L.down[d], Msg("hostback", r, 0))
    <3> DEFINE m == Msg("hostback", r, 0)
    <3>1. m.t \in Notes BY NoteKinds DEF Notes
    <3> HIDE DEF m
    <3>2. i \in 1 .. Len(L.down[d]) + 1 BY <2>0, <2>2 DEF m
    <3>3. CASE i = Len(L.down[d]) + 1 BY <2>0, <2>2, <3>1, <3>3 DEF m
    <3>4. CASE i \in 1 .. Len(L.down[d]) BY <2>0, <2>2, <3>4 DEF m
    <3> QED BY <2>0, <3>2, <3>3, <3>4
  <2> QED BY <1>1, <2>1, <2>2
<1>3. ASSUME NEW d \in Conns \ {c}, L.hosts[d] # r, d \in L.peers \ B
      PROVE  GuestStep(L, M, d) /\ (L.joinedIn[d] = NoRoom => HostStep(L, M, d, B))
  <2>1. /\ L.joinedIn[d] \in RoomIds \cup {NoRoom}
        /\ L.hosts[d] \in RoomIds \cup {NoRoom}
    BY <1>1, LobbyFields, Numbering
  <2>2. CASE L.joinedIn[d] = r BY <1>1, <1>3, <2>2 DEF GuestStep
  <2>3. CASE L.joinedIn[d] # r
    <3>1. GuestStep(L, M, d) BY <1>1, <2>1, <2>3 DEF GuestStep
    <3>2. HostStep(L, M, d, B) BY <1>1, <1>3, <2>1, <2>3 DEF HostStep
    <3> QED BY <3>1, <3>2
  <2> QED BY <1>1, <2>2, <2>3
<1>4. Quietly(L, M, {d \in Conns \ {c} : L.hosts[d] # r}) BY <1>2 DEF Quietly
<1> QED BY <1>2, <1>3, <1>4 DEF Spares, GuestsSpared, HostsSpared

\* A guest that comes concerns the host of its room.
LEMMA EntersSpares ==
  ASSUME NEW L, NEW Z, Sound(L, Z, {}), NEW M, NEW c \in Conns, NEW r, Enters(L, M, c, r),
         NEW B, broken \subseteq B
  PROVE  Spares(L, M, B, Conns \ {c})
<1> DEFINE host == L.rooms[r].host
<1>1. /\ L \in LobbyRecords /\ r \in RoomIds /\ r # NoRoom /\ L.hosts[host] = r
      /\ M.hosts = L.hosts
      /\ \A q \in RoomIds \ {r} : M.rooms[q] = L.rooms[q]
      /\ M.rooms[r].host = host /\ M.rooms[r].joined = L.rooms[r].joined \cup {c}
      /\ \A d \in Conns \ {c} : M.joinedIn[d] = L.joinedIn[d]
      /\ \A d \in Conns \ {c} :
           M.down[d] = IF d \in L.peers \ broken /\ d = host
                       THEN Append(L.down[d], Msg("peer", 0, c)) ELSE L.down[d]
  BY Numbering DEF Enters, Sound
<1> HIDE DEF host
<1>2. Quietly(L, M, Conns \ {c})
  <2> SUFFICES ASSUME NEW d \in Conns \ {c}, NEW i \in DOMAIN M.down[d]
               PROVE  \/ M.down[d][i].t \in Notes
                      \/ i \in DOMAIN L.down[d] /\ M.down[d][i] = L.down[d][i]
    BY DEF Quietly
  <2>0. L.down[d] \in Seq(Messages) BY <1>1, LobbyFields
  <2>1. CASE M.down[d] = L.down[d] BY <2>1
  <2>2. CASE M.down[d] = Append(L.down[d], Msg("peer", 0, c))
    <3> DEFINE m == Msg("peer", 0, c)
    <3>1. m.t \in Notes BY NoteKinds DEF Notes
    <3> HIDE DEF m
    <3>2. i \in 1 .. Len(L.down[d]) + 1 BY <2>0, <2>2 DEF m
    <3>3. CASE i = Len(L.down[d]) + 1 BY <2>0, <2>2, <3>1, <3>3 DEF m
    <3>4. CASE i \in 1 .. Len(L.down[d]) BY <2>0, <2>2, <3>4 DEF m
    <3> QED BY <2>0, <3>2, <3>3, <3>4
  <2> QED BY <1>1, <2>1, <2>2
<1>3. ASSUME NEW d \in Conns \ {c}, d \in L.peers \ B
      PROVE  (L.hosts[d] = NoRoom => GuestStep(L, M, d)) /\ HostStep(L, M, d, B)
  <2>1. /\ L.joinedIn[d] \in RoomIds \cup {NoRoom}
        /\ L.hosts[d] \in RoomIds \cup {NoRoom}
    BY <1>1, LobbyFields, Numbering
  <2>2. CASE d = host
    <3>1. M.down[d] = Append(L.down[d], Msg("peer", 0, c)) BY <1>1, <1>3, <2>2
    <3>2. L.hosts[d] = r BY <1>1, <2>2
    <3> QED BY <1>1, <3>1, <3>2 DEF HostStep
  <2>3. CASE d # host
    <3>1. GuestStep(L, M, d) BY <1>1, <2>1, <2>3 DEF GuestStep, host
    <3>2. HostStep(L, M, d, B)
      <4>1. L.hosts[d] # NoRoom => L.hosts[d] # r
        BY <1>1, <2>3 DEF Sound, Hosting, host
      <4> QED BY <1>1, <2>1, <2>3, <4>1 DEF HostStep
    <3> QED BY <3>1, <3>2
  <2> QED BY <2>2, <2>3
<1> QED BY <1>2, <1>3 DEF Spares, GuestsSpared, HostsSpared

\* A handler that only changes the links, or the connections of others.
LEMMA SameSpares ==
  ASSUME NEW L, NEW M, NEW B, NEW D,
         \A d \in D : /\ M.down[d] = L.down[d] /\ M.hosts[d] = L.hosts[d]
                      /\ M.joinedIn[d] = L.joinedIn[d],
         M.rooms = L.rooms
  PROVE  Spares(L, M, B, D)
<1>1. Quietly(L, M, D) BY DEF Quietly
<1>2. \A d \in D : GuestStep(L, M, d) /\ HostStep(L, M, d, B) BY DEF GuestStep, HostStep
<1> QED BY <1>1, <1>2 DEF Spares, GuestsSpared, HostsSpared

\* What spares D after a change of others spares it.
LEMMA SparesBefore ==
  ASSUME NEW L, NEW A, NEW M, NEW B, NEW D, Spares(A, M, B, D), D \cap L.peers \subseteq A.peers,
         A.rooms = L.rooms, A.hosts = L.hosts, A.joinedIn = L.joinedIn,
         \A d \in D : A.down[d] = L.down[d]
  PROVE  Spares(L, M, B, D)
<1>1. Quietly(L, M, D) BY DEF Spares, Quietly
<1>2. \A d \in D : /\ GuestStep(A, M, d) => GuestStep(L, M, d)
                   /\ HostStep(A, M, d, B) => HostStep(L, M, d, B)
  BY DEF GuestStep, HostStep
<1> QED BY <1>1, <1>2 DEF Spares, GuestsSpared, HostsSpared

\* The end of a connection concerns who was in a room with it.
LEMMA EndsSpares ==
  ASSUME NEW L, NEW A, NEW M, NEW Z, NEW c \in Conns, Sound(A, Z, {c}), Ends(L, A, M, c),
         NEW B, broken \subseteq B
  PROVE  Spares(L, M, B, Conns \ {c}) /\ Quietly(L, M, Conns)
<1> DEFINE D == Conns \ {c}
<1>1. /\ A.peers = L.peers \ {c} /\ A.rooms = L.rooms /\ A.hosts = L.hosts
      /\ A.joinedIn = L.joinedIn /\ A.down[c] = <<>>
      /\ \A d \in D : A.down[d] = L.down[d]
      /\ \A d \in D : M.hosts[d] = A.hosts[d] /\ M.joinedIn[d] = A.joinedIn[d]
      /\ \A d \in Conns : M.joinedIn[d] = IF d = c THEN NoRoom ELSE A.joinedIn[d]
      /\ D \in SUBSET Conns /\ A \in LobbyRecords
  BY DEF Ends, Sound
<1>2. Spares(A, M, B, D) /\ Quietly(A, M, Conns)
  <2>1. CASE A.hosts[c] # NoRoom /\ A.joinedIn[c] = NoRoom /\ Pauses(A, M, A.hosts[c])
    <3>1. A.hosts[c] \in RoomIds BY <1>1, <2>1, LobbyFields, Numbering
    <3>2. \A d \in D : A.hosts[d] # A.hosts[c] BY <2>1 DEF Sound, Hosting
    <3>3. \A d \in Conns : M.joinedIn[d] = A.joinedIn[d] BY <1>1, <2>1
    <3>4. Spares(A, M, B, D) BY <1>1, <2>1, <3>1, <3>2, <3>3, PausesSpares
    <3>5. Quietly(A, M, Conns) BY <1>1, <2>1, ToldQuietly, NoteKinds DEF Pauses, Notes
    <3> QED BY <3>4, <3>5
  <2>2. CASE A.hosts[c] = NoRoom /\ A.joinedIn[c] # NoRoom /\ Leaves(A, M, A.joinedIn[c], c)
    <3>1. A.joinedIn[c] \in RoomIds BY <1>1, <2>2, LobbyFields, Numbering
    <3>2. c \in A.rooms[A.joinedIn[c]].joined BY <3>1 DEF Sound, Members
    <3>4. Spares(A, M, B, D) BY <1>1, <2>2, <3>1, <3>2, LeavesSpares
    <3>5. Quietly(A, M, Conns) BY <1>1, <2>2, ToldQuietly, NoteKinds DEF Leaves, Notes
    <3> QED BY <3>4, <3>5
  <2>3. CASE M.rooms = A.rooms /\ M.down = A.down
    <3>1. Spares(A, M, B, D) BY <1>1, <2>3, SameSpares
    <3>2. Quietly(A, M, Conns) BY <2>3 DEF Quietly
    <3> QED BY <3>1, <3>2
  <2> QED BY <1>1, <2>1, <2>2, <2>3 DEF Ends
<1>3. Spares(L, M, B, D) BY <1>1, <1>2, SparesBefore
<1>4. Quietly(L, M, Conns)
  <2> SUFFICES ASSUME NEW d \in Conns, NEW i \in DOMAIN M.down[d]
               PROVE  \/ M.down[d][i].t \in Notes
                      \/ i \in DOMAIN L.down[d] /\ M.down[d][i] = L.down[d][i]
    BY DEF Quietly
  <2>1. CASE d # c BY <1>1, <1>2, <2>1 DEF Quietly
  <2>2. CASE d = c
    <3>1. DOMAIN A.down[d] = {} BY <1>1, <2>2
    <3> QED BY <1>2, <3>1 DEF Quietly
  <2> QED BY <2>1, <2>2
<1> QED BY <1>3, <1>4

\* "bye" concerns the host that it names.
LEMMA ByeSpares ==
  ASSUME NEW L \in LobbyRecords, NEW M, NEW c \in Conns, NEW to,
         M.rooms = L.rooms, M.hosts = L.hosts, M.joinedIn = L.joinedIn,
         Told(L, M, {to}, Msg("peerleft", 0, c)), NEW B, broken \subseteq B, c \in B
  PROVE  GuestsSpared(L, M, B, Conns \ {to}) /\ HostsSpared(L, M, B, Conns) /\ Quietly(L, M, Conns)
<1>1. Quietly(L, M, Conns) BY ToldQuietly, NoteKinds DEF Notes
<1>2. ASSUME NEW d \in (Conns \cap L.peers) \ B
      PROVE  (d # to => GuestStep(L, M, d)) /\ HostStep(L, M, d, B)
  <2>1. M.down[d] = IF d = to THEN Append(L.down[d], Msg("peerleft", 0, c)) ELSE L.down[d]
    BY <1>2 DEF Told
  <2>2. CASE d = to
    <3>1. M.rooms[L.hosts[d]].joined \ B \subseteq L.rooms[L.hosts[d]].joined \ {c} OBVIOUS
    <3> QED BY <2>1, <2>2, <3>1 DEF HostStep
  <2>3. CASE d # to BY <2>1, <2>3 DEF GuestStep, HostStep
  <2> QED BY <2>2, <2>3
<1> QED BY <1>1, <1>2 DEF GuestsSpared, HostsSpared

----------------------------------------------------------------------------
(* Pages that did nothing.                                                 *)

\* A page that joins knows what it knew.
LEMMA GuestStays ==
  ASSUME NEW s, NEW L \in LobbyRecords, NEW M, NEW B, NEW C, GuestHears(s, L, B), B \subseteq C,
         s.ws \in Conns \cup {NoConn}, s.ws \notin C \cup {NoConn} => GuestStep(L, M, s.ws)
  PROVE  GuestHears(s, M, C)
<1> SUFFICES ASSUME s.ws \notin C \cup {NoConn}
             PROVE  LET q == M.down[s.ws]
                        r == M.joinedIn[s.ws]
                    IN  /\ \A i \in DOMAIN q : /\ q[i].t \in Finals \cup {"joined", "hostaway"}
                                               /\ q[i].t \in Finals => i = Len(q) /\ r = NoRoom
                                               /\ q[i].t = "joined" => i = 1
                        /\ s.connected /\ s.role = "none" /\ s.pending = "none" /\ ~s.over =>
                             q = <<>> /\ r = NoRoom
                        /\ r # NoRoom => Believes(s, M, q, r)
  BY DEF GuestHears
<1> DEFINE d == s.ws
           q == L.down[d]
           r == L.joinedIn[d]
           n == M.down[d]
           idle == s.connected /\ s.role = "none" /\ s.pending = "none" /\ ~s.over
<1>1. /\ \A i \in DOMAIN q : /\ q[i].t \in Finals \cup {"joined", "hostaway"}
                             /\ q[i].t \in Finals => i = Len(q) /\ r = NoRoom
                             /\ q[i].t = "joined" => i = 1
      /\ idle => q = <<>> /\ r = NoRoom
      /\ r # NoRoom => Believes(s, L, q, r)
  BY DEF GuestHears
<1>2. d \in Conns /\ q \in Seq(Messages) BY LobbyFields
<1>3. GuestStep(L, M, d) OBVIOUS
<1> HIDE DEF d
<1>4. CASE /\ n = q /\ M.joinedIn[d] = r
           /\ r # NoRoom => M.rooms[r].host = L.rooms[r].host
  <2>1. r # NoRoom => Believes(s, M, q, r) BY <1>1, <1>4 DEF Believes
  <2> QED BY <1>1, <1>4, <2>1 DEF d
<1>5. ASSUME NEW t, n = Append(q, Msg(t, r, 0)), r # NoRoom,
             t \in {"hostaway", "hostback", "roomclosed"},
             t # "hostaway" => M.joinedIn[d] = NoRoom
      PROVE  /\ \A i \in DOMAIN n : /\ n[i].t \in Finals \cup {"joined", "hostaway"}
                                    /\ n[i].t \in Finals => i = Len(n) /\ M.joinedIn[d] = NoRoom
                                    /\ n[i].t = "joined" => i = 1
             /\ ~idle
             /\ \A i \in DOMAIN q : n[i] = q[i] /\ i \in DOMAIN n
             /\ Len(q) + 1 \in DOMAIN n /\ n[Len(q) + 1].t = t
             /\ DOMAIN n = DOMAIN q \cup {Len(q) + 1}
             /\ n # <<>> /\ (q = <<>> => Len(q) = 0) /\ (q # <<>> => 1 \in DOMAIN q)
  <2> DEFINE m == Msg(t, r, 0)
  <2>1. m.t = t BY DEF Msg
  <2>2. n = Append(q, m) BY <1>5
  <2> HIDE DEF m, n, q, r, idle
  <2>3. /\ DOMAIN n = 1 .. Len(q) + 1 /\ DOMAIN q = 1 .. Len(q) /\ Len(q) \in Nat
        /\ \A i \in 1 .. Len(q) : n[i] = q[i]
        /\ n[Len(q) + 1] = m /\ Len(n) = Len(q) + 1 /\ n # <<>>
        /\ (q = <<>> => Len(q) = 0) /\ (q # <<>> => 1 \in DOMAIN q)
    BY <1>2, <2>2
  <2>4. \A i \in DOMAIN q : q[i].t \notin Finals BY <1>1, <1>5
  <2>5. ASSUME NEW i \in DOMAIN n
        PROVE  /\ n[i].t \in Finals \cup {"joined", "hostaway"}
               /\ n[i].t \in Finals => i = Len(n) /\ M.joinedIn[d] = NoRoom
               /\ n[i].t = "joined" => i = 1
    <3>1. CASE i \in DOMAIN q BY <1>1, <2>3, <2>4, <3>1
    <3>2. CASE i = Len(q) + 1 BY <1>5, <2>1, <2>3, <3>2 DEF Finals
    <3> QED BY <2>3, <3>1, <3>2
  <2>6. DOMAIN n = DOMAIN q \cup {Len(q) + 1} BY <2>3
  <2> QED BY <1>1, <1>5, <2>1, <2>3, <2>5, <2>6
<1>6. CASE /\ r # NoRoom /\ M.joinedIn[d] = r /\ M.rooms[r].host = NoConn
           /\ n = Append(q, Msg("hostaway", r, 0))
  <2>1. /\ \A i \in DOMAIN n : /\ n[i].t \in Finals \cup {"joined", "hostaway"}
                               /\ n[i].t \in Finals => i = Len(n) /\ M.joinedIn[d] = NoRoom
                               /\ n[i].t = "joined" => i = 1
        /\ ~idle
        /\ \A i \in DOMAIN q : n[i] = q[i] /\ i \in DOMAIN n
        /\ Len(q) + 1 \in DOMAIN n /\ n[Len(q) + 1].t = "hostaway"
        /\ n # <<>> /\ (q = <<>> => Len(q) = 0) /\ (q # <<>> => 1 \in DOMAIN q)
    BY <1>5, <1>6
  <2> HIDE DEF n, q, r, idle
  <2>2. Away(n) BY <2>1 DEF Away
  <2>3. Joins(n) <=> Joins(q)
    <3>1. CASE q = <<>> BY <2>1, <3>1 DEF Joins
    <3>2. CASE q # <<>> BY <2>1, <3>2 DEF Joins
    <3> QED BY <3>1, <3>2
  <2>4. Joins(q) => n[1] = q[1] BY <2>1 DEF Joins
  <2>5. Believes(s, M, n, r) BY <1>1, <1>6, <2>2, <2>3, <2>4 DEF Believes
  <2> QED BY <1>6, <2>1, <2>5 DEF d, n, q, r, idle
<1>7. CASE /\ r # NoRoom /\ M.joinedIn[d] = NoRoom
           /\ \E t \in {"hostback", "roomclosed"} : n = Append(q, Msg(t, r, 0))
  <2>1. /\ \A i \in DOMAIN n : /\ n[i].t \in Finals \cup {"joined", "hostaway"}
                               /\ n[i].t \in Finals => i = Len(n) /\ M.joinedIn[d] = NoRoom
                               /\ n[i].t = "joined" => i = 1
        /\ ~idle
    BY <1>5, <1>7
  <2> HIDE DEF q, r
  <2> QED BY <1>7, <2>1 DEF d
<1> QED BY <1>3, <1>4, <1>6, <1>7 DEF GuestStep

\* What was told before is told still, and the last that was told about g is the same.
LEMMA WillKnowMore ==
  ASSUME NEW s, NEW q \in Seq(Messages), NEW m, NEW g
  PROVE  /\ WillKnow(s, q, g) /\ ~(m.t = "peerleft" /\ m.peer = g) => WillKnow(s, Append(q, m), g)
         /\ m.t = "peer" /\ m.peer = g => WillKnow(s, Append(q, m), g)
<1> DEFINE n == Append(q, m)
<1>1. /\ DOMAIN n = 1 .. Len(q) + 1 /\ DOMAIN q = 1 .. Len(q) /\ Len(q) \in Nat
      /\ \A i \in 1 .. Len(q) : n[i] = q[i]
      /\ n[Len(q) + 1] = m
  OBVIOUS
<1> HIDE DEF n
<1>2. ASSUME ~(m.t = "peerleft" /\ m.peer = g), NEW k, Remains(q, k, g) PROVE Remains(n, k, g)
  <2> SUFFICES ASSUME NEW j \in DOMAIN n, j > k PROVE ~(n[j].t = "peerleft" /\ n[j].peer = g)
    BY DEF Remains
  <2>1. CASE j \in DOMAIN q BY <1>1, <1>2, <2>1 DEF Remains
  <2>2. CASE j = Len(q) + 1 BY <1>1, <1>2, <2>2
  <2> QED BY <1>1, <2>1, <2>2
<1>3. ASSUME WillKnow(s, q, g), ~(m.t = "peerleft" /\ m.peer = g) PROVE WillKnow(s, n, g)
  <2>1. CASE s.peers[g] # 0 /\ Remains(q, 0, g)
    <3>1. Remains(n, 0, g) BY <1>2, <1>3, <2>1
    <3> QED BY <2>1, <3>1 DEF WillKnow
  <2>2. ASSUME NEW i \in DOMAIN q, q[i].t = "peer", q[i].peer = g, Remains(q, i, g)
        PROVE  WillKnow(s, n, g)
    <3>1. Remains(n, i, g) BY <1>2, <1>3, <2>2
    <3>2. i \in DOMAIN n /\ n[i] = q[i] BY <1>1
    <3> QED BY <2>2, <3>1, <3>2 DEF WillKnow
  <2> QED BY <1>3, <2>1, <2>2 DEF WillKnow
<1>4. ASSUME m.t = "peer", m.peer = g PROVE WillKnow(s, n, g)
  <2>1. Remains(n, Len(q) + 1, g) BY <1>1 DEF Remains
  <2>2. Len(q) + 1 \in DOMAIN n BY <1>1
  <2> QED BY <1>1, <1>4, <2>1, <2>2 DEF WillKnow
<1> QED BY <1>3, <1>4 DEF n

\* A page that hosts knows what it knew, and will know who came.
LEMMA HostStays ==
  ASSUME NEW s, NEW L \in LobbyRecords, NEW M, NEW B, NEW C, HostHears(s, L, B), B \subseteq C,
         s.ws \in Conns \cup {NoConn}, s.ws \notin C \cup {NoConn} => HostStep(L, M, s.ws, C)
  PROVE  HostHears(s, M, C)
<1> DEFINE d == s.ws
           q == L.down[d]
           r == L.hosts[d]
           n == M.down[d]
           about == s.connected /\ s.role = "host" /\ s.token
<1> SUFFICES ASSUME d \notin C \cup {NoConn}
             PROVE  /\ \A i \in DOMAIN n :
                         /\ n[i].t \in {"welcome", "hosted", "error", "peer", "peerleft"}
                         /\ n[i].t = "hosted" => n[i].room = M.hosts[d] /\ M.hosts[d] # NoRoom
                         /\ n[i].t = "error" /\ s.role = "host" /\ s.token =>
                              n[i].code = "noroom" /\ s.reclaiming
                    /\ M.hosts[d] # NoRoom =>
                         \/ \E i \in DOMAIN n : n[i].t = "hosted"
                         \/ s.role = "host" /\ s.token /\ s.roomId = M.hosts[d]
                    /\ s.connected /\ s.role = "host" /\ s.token /\ Prompts(M, d) = {} =>
                         M.hosts[d] = s.roomId /\ M.hosts[d] # NoRoom
                    /\ M.hosts[d] # NoRoom =>
                         \A g \in M.rooms[M.hosts[d]].joined \ C : WillKnow(s, n, g)
  BY DEF HostHears
<1>1. /\ \A i \in DOMAIN q :
           /\ q[i].t \in {"welcome", "hosted", "error", "peer", "peerleft"}
           /\ q[i].t = "hosted" => q[i].room = r /\ r # NoRoom
           /\ q[i].t = "error" /\ s.role = "host" /\ s.token => q[i].code = "noroom" /\ s.reclaiming
      /\ r # NoRoom => \/ \E i \in DOMAIN q : q[i].t = "hosted"
                       \/ s.role = "host" /\ s.token /\ s.roomId = r
      /\ s.connected /\ s.role = "host" /\ s.token /\ Prompts(L, d) = {} =>
           r = s.roomId /\ r # NoRoom
      /\ r # NoRoom => \A g \in L.rooms[r].joined \ B : WillKnow(s, q, g)
  BY DEF HostHears
<1>2. d \in Conns /\ q \in Seq(Messages) BY LobbyFields
<1>3. HostStep(L, M, d, C) OBVIOUS
<1>4. M.hosts[d] = r BY <1>3 DEF HostStep
<1> HIDE DEF d
<1>5. CASE /\ n = q
           /\ r # NoRoom => M.rooms[r].joined \ C \subseteq L.rooms[r].joined
  <2>1. Prompts(M, d) = Prompts(L, d) BY <1>5 DEF Prompts
  <2>2. r # NoRoom => \A g \in M.rooms[r].joined \ C : WillKnow(s, n, g) BY <1>1, <1>5
  <2> QED BY <1>1, <1>4, <1>5, <2>1, <2>2
<1>6. ASSUME NEW t \in {"peer", "peerleft"}, NEW g \in Conns, n = Append(q, Msg(t, 0, g)),
             r # NoRoom => M.rooms[r].joined \ C \subseteq
               IF t = "peer" THEN L.rooms[r].joined \cup {g} ELSE L.rooms[r].joined \ {g}
      PROVE  /\ \A i \in DOMAIN n :
                  /\ n[i].t \in {"welcome", "hosted", "error", "peer", "peerleft"}
                  /\ n[i].t = "hosted" => n[i].room = r /\ r # NoRoom
                  /\ n[i].t = "error" /\ s.role = "host" /\ s.token =>
                       n[i].code = "noroom" /\ s.reclaiming
             /\ r # NoRoom => \/ \E i \in DOMAIN n : n[i].t = "hosted"
                              \/ s.role = "host" /\ s.token /\ s.roomId = r
             /\ Prompts(M, d) = {} => Prompts(L, d) = {}
             /\ r # NoRoom => \A e \in M.rooms[r].joined \ C : WillKnow(s, n, e)
  <2> DEFINE m == Msg(t, 0, g)
  <2>1. m.t = t /\ m.peer = g BY DEF Msg
  <2>2. n = Append(q, m) BY <1>6
  <2> HIDE DEF m
  <2>3. /\ DOMAIN n = 1 .. Len(q) + 1 /\ DOMAIN q = 1 .. Len(q) /\ Len(q) \in Nat
        /\ \A i \in 1 .. Len(q) : n[i] = q[i]
        /\ n[Len(q) + 1] = m
    <3> HIDE DEF n, q
    <3> QED BY <1>2, <2>2
  <2>4. Prompts(M, d) = {} => Prompts(L, d) = {} BY <2>3 DEF Prompts
  <2>5. r # NoRoom => \A e \in M.rooms[r].joined \ C : WillKnow(s, n, e)
    <3> SUFFICES ASSUME r # NoRoom, NEW e \in M.rooms[r].joined \ C PROVE WillKnow(s, n, e)
      OBVIOUS
    <3> HIDE DEF n, q
    <3>1. CASE t = "peer" /\ e = g BY <1>2, <2>1, <2>2, <3>1, WillKnowMore
    <3>2. CASE t = "peer" /\ e # g
      <4>1. WillKnow(s, q, e) BY <1>1, <1>6, <3>2
      <4> QED BY <1>2, <2>1, <2>2, <3>2, <4>1, WillKnowMore
    <3>3. CASE t = "peerleft"
      <4>1. WillKnow(s, q, e) /\ e # g BY <1>1, <1>6, <3>3
      <4> QED BY <1>2, <2>1, <2>2, <4>1, WillKnowMore
    <3> QED BY <1>6, <3>1, <3>2, <3>3
  <2>6. \A i \in DOMAIN q : i \in DOMAIN n /\ n[i] = q[i] BY <2>3
  <2>7. \A i \in DOMAIN n : i \in DOMAIN q \/ n[i].t = t BY <2>1, <2>3
  <2> HIDE DEF n, q, r
  <2> QED BY <1>1, <1>6, <2>4, <2>5, <2>6, <2>7
<1>7. CASE \E g \in Conns :
             /\ n = Append(q, Msg("peer", 0, g))
             /\ r # NoRoom => M.rooms[r].joined \ C \subseteq L.rooms[r].joined \cup {g}
  BY <1>1, <1>4, <1>6, <1>7
<1>8. CASE \E g \in Conns :
             /\ n = Append(q, Msg("peerleft", 0, g))
             /\ r # NoRoom => M.rooms[r].joined \ C \subseteq L.rooms[r].joined \ {g}
  BY <1>1, <1>4, <1>6, <1>8
<1> QED BY <1>3, <1>5, <1>7, <1>8 DEF HostStep

\* Notes tell a page of no room and no host.
LEMMA QuietlyKnown ==
  ASSUME NEW s, NEW L, NEW M, s.ws # NoConn => Quietly(L, M, {s.ws})
  PROVE  Known(s, M) \subseteq Known(s, L) /\ Hosters(s, M) \subseteq Hosters(s, L)
<1>1. ASSUME NEW t \in {"hosted", "joined"}, NEW i \in Heard(M, s.ws, t)
      PROVE  i \in Heard(L, s.ws, t) /\ Under(M, s.ws)[i] = Under(L, s.ws)[i]
  <2>1. s.ws # NoConn
    <3>1. DOMAIN <<>> = {} OBVIOUS
    <3> QED BY <1>1, <3>1 DEF Heard, Under
  <2>2. i \in DOMAIN M.down[s.ws] /\ M.down[s.ws][i].t \notin Notes
    BY <1>1, <2>1 DEF Heard, Under, Notes
  <2> QED BY <1>1, <2>1, <2>2 DEF Quietly, Heard, Under
<1> QED BY <1>1 DEF Known, Hosters

\* Rooms and hosts that pages know are rooms and connections.
LEMMA KnownTypes ==
  ASSUME IInv, NEW p \in Pages
  PROVE  Known(page[p], lobby) \subseteq RoomIds /\ Hosters(page[p], lobby) \subseteq Conns
<1> DEFINE s == page[p]
           d == page[p].ws
<1>1. /\ s.saved \in 0 .. MaxRooms /\ s.roomId \in 0 .. MaxRooms
      /\ s.hostPeerId \in 0 .. MaxConns /\ d \in 0 .. MaxConns
  BY DEF IInv, PageRecords
<1>2. ASSUME NEW t \in {"hosted", "joined"}, NEW i \in Heard(lobby, d, t)
      PROVE  Under(lobby, d)[i].room \in 0 .. MaxRooms /\ Under(lobby, d)[i].peer \in 0 .. MaxConns
  <2>1. d # NoConn
    <3>1. DOMAIN <<>> = {} OBVIOUS
    <3> QED BY <1>2, <3>1 DEF Heard, Under
  <2>2. lobby.down[d] \in Seq(Messages) BY <1>1, <2>1, LobbyFields, Numbering DEF IInv, Sound
  <2>3. i \in DOMAIN lobby.down[d] /\ lobby.down[d][i].t = t BY <1>2, <2>1 DEF Heard, Under
  <2>4. lobby.down[d][i] \in Notices BY <2>2, <2>3 DEF Messages, Errors
  <2> QED BY <2>1, <2>4 DEF Under, Notices
<1> QED BY <1>1, <1>2, Numbering DEF Known, Hosters

\* The pages that are not of P are spared what happens to the lobby.
OthersSpared(P, L, M, B) ==
  /\ \A q \in Guests \ P : page[q].ws \notin B \cup {NoConn} => GuestStep(L, M, page[q].ws)
  /\ \A q \in Hosts \ P : page[q].ws \notin B \cup {NoConn} => HostStep(L, M, page[q].ws, B)
  /\ \A q \in Pages \ P : page[q].ws # NoConn => Quietly(L, M, {page[q].ws})

\* What the page of P may come to know: rooms that are new, and hosts.
NewRooms(L, M) == {r \in RoomIds : L.created < r /\ r <= M.created}
Acting(L) == {c \in L.peers : L.hosts[c] # NoRoom}

\* What one page does, or none, keeps what the others know.
LEMMA KnowledgeKept ==
  ASSUME IInv, KInv, NEW P \in SUBSET Pages, \A p, q \in P : p = q,
         OthersSpared(P, lobby, lobby', broken'), broken \subseteq broken',
         lobby'.created >= lobby.created, lobby'.counter >= lobby.counter,
         lobby'.created \in Nat, lobby'.counter \in Nat,
         \A q \in Pages \ P : page'[q] = page[q],
         \A p \in P \cap Guests :
           /\ GuestHears(page'[p], lobby', broken')
           /\ Hosters(page'[p], lobby') \subseteq Hosters(page[p], lobby) \cup Acting(lobby)
           /\ page'[p].ws \in {page[p].ws, NoConn} \/ page'[p].ws > lobby.counter,
         \A p \in P \cap Hosts :
           /\ HostHears(page'[p], lobby', broken')
           /\ Known(page'[p], lobby') \subseteq Known(page[p], lobby) \cup NewRooms(lobby, lobby')
  PROVE  KInv'
<1>1. /\ lobby \in LobbyRecords /\ lobby.created \in Nat /\ lobby.counter \in Nat
      /\ lobby.peers \subseteq 1 .. lobby.counter
  BY LobbyFields DEF IInv, Sound
<1>2. \A q \in Pages : page[q].ws \in Conns \cup {NoConn}
  BY Numbering DEF IInv, PageRecords
<1>3. ASSUME NEW q \in Guests PROVE GuestHears(page'[q], lobby', broken')
  <2>1. CASE q \in P BY <2>1
  <2>2. CASE q \notin P
    <3> DEFINE s == page[q]
    <3>1. /\ GuestHears(s, lobby, broken) /\ page'[q] = s /\ s.ws \in Conns \cup {NoConn}
          /\ s.ws \notin broken' \cup {NoConn} => GuestStep(lobby, lobby', s.ws)
      BY <1>2, <2>2 DEF KInv, OthersSpared, Pages
    <3> HIDE DEF s
    <3> QED BY <1>1, <3>1, GuestStays
  <2> QED BY <2>1, <2>2
<1>4. ASSUME NEW q \in Hosts PROVE HostHears(page'[q], lobby', broken')
  <2>1. CASE q \in P BY <2>1
  <2>2. CASE q \notin P
    <3> DEFINE s == page[q]
    <3>1. /\ HostHears(s, lobby, broken) /\ page'[q] = s /\ s.ws \in Conns \cup {NoConn}
          /\ s.ws \notin broken' \cup {NoConn} => HostStep(lobby, lobby', s.ws, broken')
      BY <1>2, <2>2 DEF KInv, OthersSpared, Pages
    <3> HIDE DEF s
    <3> QED BY <1>1, <3>1, HostStays
  <2> QED BY <2>1, <2>2
<1>5. ASSUME NEW q \in Pages \ P
      PROVE  /\ Known(page'[q], lobby') \subseteq Known(page[q], lobby)
             /\ Hosters(page'[q], lobby') \subseteq Hosters(page[q], lobby)
  BY QuietlyKnown DEF OthersSpared
<1>6. ASSUME NEW q \in Hosts
      PROVE  /\ Known(page'[q], lobby') \subseteq Known(page[q], lobby) \cup NewRooms(lobby, lobby')
             /\ q \notin P => Known(page'[q], lobby') \subseteq Known(page[q], lobby)
             /\ Known(page[q], lobby) \cap NewRooms(lobby, lobby') = {}
  <2>1. \A r \in Known(page[q], lobby) : ~(lobby.created < r)
    <3>1. Known(page[q], lobby) \subseteq Nat BY KnownTypes, Numbering DEF Pages
    <3>2. \A r \in Known(page[q], lobby) : r <= lobby.created BY DEF KInv
    <3> QED BY <1>1, <3>1, <3>2
  <2>2. Known(page[q], lobby) \cap NewRooms(lobby, lobby') = {} BY <2>1 DEF NewRooms
  <2>3. q \in P => Known(page'[q], lobby')
                     \subseteq Known(page[q], lobby) \cup NewRooms(lobby, lobby')
    OBVIOUS
  <2> QED BY <1>5, <2>2, <2>3 DEF Pages
<1>7. ASSUME NEW q \in Hosts, NEW r \in Known(page'[q], lobby') PROVE r <= lobby'.created
  <2>1. CASE r \in NewRooms(lobby, lobby') BY <2>1 DEF NewRooms
  <2>2. CASE r \in Known(page[q], lobby)
    <3>1. r <= lobby.created BY <2>2 DEF KInv
    <3>2. r \in Nat BY <2>2, KnownTypes, Numbering DEF Pages
    <3> QED BY <1>1, <3>1, <3>2
  <2> QED BY <1>6, <1>7, <2>1, <2>2
<1>8. ASSUME NEW p \in Hosts, NEW q \in Hosts, p # q
      PROVE  Known(page'[p], lobby') \cap Known(page'[q], lobby') = {}
  <2>1. p \notin P \/ q \notin P BY <1>8
  <2>2. Known(page[p], lobby) \cap Known(page[q], lobby) = {} BY <1>8 DEF KInv
  <2> QED BY <1>6, <2>1, <2>2
<1>9. ASSUME NEW p \in Guests, NEW q \in Guests, NEW c \in Hosters(page'[p], lobby')
      PROVE  c <= lobby'.counter /\ page'[q].ws # c
  <2>1. c # NoConn BY <1>9 DEF Hosters
  <2>2. c \in Hosters(page[p], lobby) \cup Acting(lobby) BY <1>5, <1>9 DEF Pages
  <2>3. c <= lobby.counter /\ page[q].ws # c
    <3>1. CASE c \in Hosters(page[p], lobby) BY <3>1 DEF KInv
    <3>2. CASE c \in Acting(lobby)
      <4>1. c \in lobby.peers /\ lobby.hosts[c] # NoRoom BY <3>2 DEF Acting
      <4>2. page[q].ws # NoConn => lobby.hosts[page[q].ws] = NoRoom
        BY DEF IInv, PageSound, GuestPage, GuestLike, Pages
      <4> QED BY <1>1, <2>1, <4>1, <4>2
    <3> QED BY <2>2, <3>1, <3>2
  <2>4. c \in Nat
    <3>1. CASE c \in Acting(lobby) BY <1>1, <3>1 DEF Acting
    <3>2. CASE c \in Hosters(page[p], lobby) BY <3>2, KnownTypes, Numbering DEF Pages
    <3> QED BY <2>2, <3>1, <3>2
  <2>5. c <= lobby'.counter BY <1>1, <2>3, <2>4
  <2>6. page'[q].ws # c
    <3>1. page'[q].ws \in {page[q].ws, NoConn} \/ page'[q].ws > lobby.counter BY DEF Pages
    <3>2. page'[q].ws > lobby.counter => page'[q].ws # c BY <1>1, <2>3, <2>4
    <3> QED BY <2>1, <2>3, <3>1, <3>2
  <2> QED BY <2>5, <2>6
<1> QED BY <1>3, <1>4, <1>7, <1>8, <1>9 DEF KInv

----------------------------------------------------------------------------
(* What a page reads.                                                      *)

\* The lobby as it is, but for what page p has taken off its queue.
Here(p, L) ==
  /\ SameTables(lobby, L)
  /\ \A d \in Conns \ {page[p].ws} : L.down[d] = lobby.down[d]
  /\ \A i \in DOMAIN L.down[page[p].ws] :
       \E j \in DOMAIN lobby.down[page[p].ws] :
         lobby.down[page[p].ws][j] = L.down[page[p].ws][i]

\* A page that learns of a peer has a number for it, and for those it knew.
LEMMA EnsurePeerKnows ==
  ASSUME NEW peers \in [Conns -> 0 .. MaxConns], NEW c, NEW preferred, NEW g \in Conns,
         peers[g] # 0 \/ g = c
  PROVE  EnsurePeer(peers, c, preferred)[g] # 0
<1>1. CASE c \notin Conns \/ peers[c] # 0 BY <1>1 DEF EnsurePeer
<1>2. CASE c \in Conns /\ peers[c] = 0
  <2>1. FreeIndexes(peers) # {} BY <1>2, IndexLeft
  <2>2. FreeIndexes(peers) \subseteq 1 .. MaxConns /\ FreeIndexes(peers) \in SUBSET Nat
    BY DEF FreeIndexes
  <2>3. PICK n \in FreeIndexes(peers) : \A i \in FreeIndexes(peers) : n <= i
    BY <2>1, <2>2, LeastExists
  <2>4. Min(FreeIndexes(peers)) \in FreeIndexes(peers) BY <2>3 DEF Min
  <2>5. AllocIndex(peers, preferred) \in 1 .. MaxConns BY <2>2, <2>4 DEF AllocIndex
  <2>6. AllocIndex(peers, preferred) # 0 BY <2>5, Numbering
  <2> QED BY <1>2, <2>6 DEF EnsurePeer
<1> QED BY <1>1, <1>2

\* What is left of a queue whose first message was read.
LEMMA TailIs ==
  ASSUME NEW q \in Seq(Messages), q # <<>>
  PROVE  /\ Tail(q) \in Seq(Messages) /\ Len(q) \in Nat
         /\ DOMAIN q = 1 .. Len(q) /\ DOMAIN Tail(q) = 1 .. Len(q) - 1
         /\ 1 \in DOMAIN q /\ q[1] = Head(q) /\ Len(q) = Len(Tail(q)) + 1
         /\ \A i \in DOMAIN Tail(q) : i + 1 \in DOMAIN q /\ Tail(q)[i] = q[i + 1] /\ i + 1 # 1
         /\ \A j \in DOMAIN q : j # 1 => j - 1 \in DOMAIN Tail(q) /\ Tail(q)[j - 1] = q[j]
<1>1. /\ Len(q) \in Nat /\ Len(q) # 0 /\ DOMAIN q = 1 .. Len(q) /\ q[1] = Head(q)
      /\ Tail(q) \in Seq(Messages) /\ Len(Tail(q)) = Len(q) - 1
      /\ DOMAIN Tail(q) = 1 .. Len(q) - 1
      /\ \A i \in 1 .. Len(q) - 1 : Tail(q)[i] = q[i + 1]
  OBVIOUS
<1> QED BY <1>1

\* A page that knew what would be under way knows it when it has read the first of it.
LEMMA WillKnowRest ==
  ASSUME NEW s, NEW q \in Seq(Messages), q # <<>>, NEW g, WillKnow(s, q, g), NEW z,
         s.peers[g] # 0 /\ ~(Head(q).t = "peerleft" /\ Head(q).peer = g) => z.peers[g] # 0,
         Head(q).t = "peer" /\ Head(q).peer = g => z.peers[g] # 0
  PROVE  WillKnow(z, Tail(q), g)
<1> DEFINE t == Tail(q)
<1>1. /\ DOMAIN q = 1 .. Len(q) /\ Len(q) \in Nat /\ 1 \in DOMAIN q /\ q[1] = Head(q)
      /\ DOMAIN t = 1 .. Len(q) - 1
      /\ \A i \in DOMAIN t : i + 1 \in DOMAIN q /\ t[i] = q[i + 1]
      /\ \A j \in DOMAIN q : j # 1 => j - 1 \in DOMAIN t /\ t[j - 1] = q[j]
  BY TailIs
<1> HIDE DEF t
<1>2. ASSUME NEW k \in Nat, Remains(q, k, g), NEW n \in Nat, n + 1 >= k PROVE Remains(t, n, g)
  <2> SUFFICES ASSUME NEW j \in DOMAIN t, j > n PROVE ~(t[j].t = "peerleft" /\ t[j].peer = g)
    BY DEF Remains
  <2>1. j + 1 \in DOMAIN q /\ t[j] = q[j + 1] /\ j + 1 > k BY <1>1, <1>2
  <2> QED BY <1>2, <2>1 DEF Remains
<1>3. CASE s.peers[g] # 0 /\ Remains(q, 0, g)
  <2>1. ~(Head(q).t = "peerleft" /\ Head(q).peer = g) BY <1>1, <1>3 DEF Remains
  <2>2. Remains(t, 0, g) BY <1>2, <1>3
  <2> QED BY <1>3, <2>1, <2>2 DEF WillKnow, t
<1>4. ASSUME NEW i \in DOMAIN q, q[i].t = "peer", q[i].peer = g, Remains(q, i, g)
      PROVE  WillKnow(z, t, g)
  <2>1. CASE i = 1
    <3>1. Remains(t, 0, g) BY <1>2, <1>4, <2>1
    <3> QED BY <1>1, <1>4, <2>1, <3>1 DEF WillKnow
  <2>2. CASE i # 1
    <3>1. i - 1 \in DOMAIN t /\ t[i - 1] = q[i] /\ i \in Nat /\ i - 1 \in Nat BY <1>1, <2>2
    <3>2. Remains(t, i - 1, g) BY <1>2, <1>4, <3>1
    <3> QED BY <1>4, <3>1, <3>2 DEF WillKnow
  <2> QED BY <2>1, <2>2
<1> QED BY <1>3, <1>4 DEF WillKnow, t

\* What a page that joins may read, and what it is to believe then: M is the lobby L when
\* the message was read.
GuestRead(s, L, M, B, q, r) ==
  /\ Head(q).t \in Finals \cup {"joined", "hostaway"}
  /\ Head(q).t \in Finals => Tail(q) = <<>> /\ r = NoRoom
  /\ ~(s.connected /\ s.role = "none" /\ s.pending = "none" /\ ~s.over)
  /\ Head(q).t = "joined" /\ r # NoRoom =>
       Head(q).room = r /\ (~Away(Tail(q)) => Head(q).peer = L.rooms[r].host)
  /\ Head(q).t = "hostaway" /\ r # NoRoom =>
       s.role = "client" /\ s.roomId = r /\ L.rooms[r].host = NoConn
  /\ \A z : /\ z.ws = s.ws
            /\ z.connected /\ z.role = "none" /\ z.pending = "none" /\ ~z.over =>
                 Tail(q) = <<>> /\ r = NoRoom
            /\ r # NoRoom =>
                 /\ z.role = "client" /\ z.roomId = r
                 /\ ~Away(Tail(q)) =>
                      /\ z.hostPeerId = L.rooms[r].host
                      /\ z.hostPeerId # NoConn => z.peers[z.hostPeerId] # 0
            => GuestHears(z, M, B)

\* What is under way to a page that joins is read in order.
LEMMA GuestReads ==
  ASSUME NEW s, NEW L \in LobbyRecords, NEW M, NEW B, GuestHears(s, L, B), s.ws \in Conns \ B,
         NEW q, q = L.down[s.ws], q # <<>>, SameTables(L, M), M.down[s.ws] = Tail(q),
         NEW r, r = L.joinedIn[s.ws]
  PROVE  GuestRead(s, L, M, B, q, r)
<1> DEFINE t == Tail(q)
           m == Head(q)
<1>1. s.ws \notin B \cup {NoConn} /\ q \in Seq(Messages) BY LobbyFields, Numbering
<1>2. /\ \A i \in DOMAIN q : /\ q[i].t \in Finals \cup {"joined", "hostaway"}
                             /\ q[i].t \in Finals => i = Len(q) /\ r = NoRoom
                             /\ q[i].t = "joined" => i = 1
      /\ s.connected /\ s.role = "none" /\ s.pending = "none" /\ ~s.over =>
           q = <<>> /\ r = NoRoom
      /\ r # NoRoom => Believes(s, L, q, r)
  BY <1>1 DEF GuestHears
<1>3. /\ DOMAIN q = 1 .. Len(q) /\ Len(q) \in Nat /\ 1 \in DOMAIN q /\ q[1] = m
      /\ t \in Seq(Messages) /\ DOMAIN t = 1 .. Len(q) - 1 /\ Len(q) = Len(t) + 1
      /\ \A i \in DOMAIN t : i + 1 \in DOMAIN q /\ t[i] = q[i + 1] /\ i + 1 # 1
      /\ \A j \in DOMAIN q : j # 1 => j - 1 \in DOMAIN t /\ t[j - 1] = q[j]
  BY <1>1, TailIs
<1>4. M.rooms = L.rooms /\ M.joinedIn = L.joinedIn BY DEF SameTables
<1> HIDE DEF t, m
<1>5. m.t \in Finals => t = <<>> /\ r = NoRoom
  <2> SUFFICES ASSUME m.t \in Finals PROVE t = <<>> /\ r = NoRoom OBVIOUS
  <2>1. 1 = Len(q) /\ r = NoRoom BY <1>2, <1>3
  <2>2. Len(t) = 0 BY <1>3, <2>1
  <2> QED BY <1>3, <2>1, <2>2
<1>6. Away(t) => Away(q) BY <1>3 DEF Away
<1>7. Away(q) /\ m.t # "hostaway" => Away(t)
  <2> SUFFICES ASSUME m.t # "hostaway", NEW i \in DOMAIN q, q[i].t = "hostaway" PROVE Away(t)
    BY DEF Away
  <2>1. i # 1 BY <1>3
  <2>2. i - 1 \in DOMAIN t /\ t[i - 1].t = "hostaway" BY <1>3, <2>1
  <2> HIDE DEF Away
  <2> QED BY <2>2 DEF Away
<1>8. Joins(q) <=> m.t = "joined" BY <1>3 DEF Joins
<1>9. ~Joins(t)
  <2> SUFFICES ASSUME Joins(t) PROVE FALSE OBVIOUS
  <2>1. t # <<>> /\ t[1].t = "joined" BY DEF Joins
  <2>2. 1 \in DOMAIN t BY <1>3, <2>1
  <2>3. 1 + 1 \in DOMAIN q /\ t[1] = q[1 + 1] /\ 1 + 1 # 1 BY <1>3, <2>2
  <2> QED BY <1>2, <2>1, <2>3
<1>10. m.t = "joined" /\ r # NoRoom => m.room = r /\ (~Away(t) => m.peer = L.rooms[r].host)
  BY <1>2, <1>3, <1>7, <1>8 DEF Believes
<1>11. m.t = "hostaway" => Away(q) BY <1>3 DEF Away
<1>12. m.t = "hostaway" /\ r # NoRoom =>
         s.role = "client" /\ s.roomId = r /\ L.rooms[r].host = NoConn
  BY <1>2, <1>8, <1>11 DEF Believes
<1>13. ASSUME NEW z, z.ws = s.ws,
              z.connected /\ z.role = "none" /\ z.pending = "none" /\ ~z.over =>
                t = <<>> /\ r = NoRoom,
              r # NoRoom =>
                /\ z.role = "client" /\ z.roomId = r
                /\ ~Away(t) => /\ z.hostPeerId = L.rooms[r].host
                               /\ z.hostPeerId # NoConn => z.peers[z.hostPeerId] # 0
       PROVE  GuestHears(z, M, B)
  <2>1. r # NoRoom => Believes(z, M, t, r)
    <3>1. r # NoRoom /\ Away(t) => L.rooms[r].host = NoConn BY <1>2, <1>6 DEF Believes
    <3> QED BY <1>4, <1>9, <1>13, <3>1 DEF Believes
  <2>2. \A i \in DOMAIN t : /\ t[i].t \in Finals \cup {"joined", "hostaway"}
                            /\ t[i].t \in Finals => i = Len(t) /\ r = NoRoom
                            /\ t[i].t = "joined" => i = 1
    <3> SUFFICES ASSUME NEW i \in DOMAIN t
                 PROVE  /\ t[i].t \in Finals \cup {"joined", "hostaway"}
                        /\ t[i].t \in Finals => i = Len(t) /\ r = NoRoom
                        /\ t[i].t = "joined" => i = 1
      OBVIOUS
    <3>1. i + 1 \in DOMAIN q /\ t[i] = q[i + 1] /\ i + 1 # 1 BY <1>3
    <3>2. i + 1 = Len(q) => i = Len(t) BY <1>3
    <3> QED BY <1>2, <3>1, <3>2
  <2>3. M.down[s.ws] = t /\ M.joinedIn[s.ws] = r BY <1>4 DEF t
  <2> QED BY <1>1, <1>13, <2>1, <2>2, <2>3 DEF GuestHears
<1> QED BY <1>2, <1>3, <1>5, <1>10, <1>12, <1>13 DEF GuestRead, t, m
\* A queue with one more message.
LEMMA AppendIs ==
  ASSUME NEW q \in Seq(Messages), NEW m
  PROVE  /\ \A i \in DOMAIN Append(q, m) :
              (i \in DOMAIN q /\ Append(q, m)[i] = q[i]) \/ Append(q, m)[i] = m
         /\ \E i \in DOMAIN Append(q, m) : Append(q, m)[i] = m
<1> DEFINE n == Append(q, m)
<1>1. /\ Len(q) \in Nat /\ DOMAIN q = 1 .. Len(q) /\ DOMAIN n = 1 .. Len(q) + 1
      /\ n[Len(q) + 1] = m /\ \A i \in 1 .. Len(q) : n[i] = q[i]
  OBVIOUS
<1> HIDE DEF n
<1>2. Len(q) + 1 \in DOMAIN n BY <1>1
<1>3. \A i \in DOMAIN n : (i \in DOMAIN q /\ n[i] = q[i]) \/ n[i] = m BY <1>1
<1> QED BY <1>1, <1>2, <1>3 DEF n

\* A page that asks to join, with nothing under way to it, gets one answer, and is in the
\* room that this names or in none.
LEMMA JoinHears ==
  ASSUME NEW L, NEW Z, Sound(L, Z, {}), NEW c \in L.peers \ broken, L.joinedIn[c] = NoRoom,
         L.down[c] = <<>>, NEW M, NEW r,
         Enters(L, M, c, r) \/ \E code : Refuses(L, M, c, code),
         NEW s, s.ws = c, s.role # "none" \/ s.pending # "none"
  PROVE  /\ GuestHears(s, M, broken)
         /\ Hosters(s, M) \subseteq ({s.hostPeerId} \ {NoConn}) \cup Acting(L)
<1>1. c \in Conns /\ c \notin broken \cup {NoConn} /\ L \in LobbyRecords
  BY LobbyFields, Numbering DEF Sound
<1>2. ASSUME NEW m, M.down[c] = Append(L.down[c], m)
      PROVE  /\ M.down[c] # <<>> /\ Len(M.down[c]) = 1 /\ DOMAIN M.down[c] = {1}
             /\ M.down[c][1] = m
  <2>1. M.down[c] = <<m>> BY <1>2
  <2> QED BY <2>1
<1>3. CASE \E code : Refuses(L, M, c, code)
  <2>1. PICK code : Refuses(L, M, c, code) BY <1>3
  <2> DEFINE m == [t |-> "error", code |-> code]
  <2>2. m.t = "error" OBVIOUS
  <2>3. M.down[c] = Append(L.down[c], m) /\ M.joinedIn[c] = NoRoom
    BY <1>1, <2>1 DEF Refuses, Told, SameTables
  <2> HIDE DEF m
  <2>4. Len(M.down[c]) = 1 /\ DOMAIN M.down[c] = {1} /\ M.down[c][1] = m BY <1>2, <2>3
  <2>5. GuestHears(s, M, broken) BY <1>1, <2>2, <2>3, <2>4 DEF GuestHears, Finals
  <2>6. Heard(M, c, "joined") = {} BY <1>1, <2>2, <2>4 DEF Heard, Under
  <2> QED BY <2>5, <2>6 DEF Hosters
<1>4. CASE Enters(L, M, c, r)
  <2> DEFINE host == L.rooms[r].host
             m == Msg("joined", r, host)
  <2>1. m.t = "joined" /\ m.room = r /\ m.peer = host BY DEF Msg
  <2>2. /\ M.down[c] = Append(L.down[c], m) /\ M.joinedIn[c] = r /\ M.rooms[r].host = host
        /\ host \in L.peers /\ L.hosts[host] = r /\ r # NoRoom
    BY <1>1, <1>4, Numbering DEF Enters
  <2> HIDE DEF m
  <2>3. /\ M.down[c] # <<>> /\ Len(M.down[c]) = 1 /\ DOMAIN M.down[c] = {1} /\ M.down[c][1] = m
    BY <1>2, <2>2
  <2>4. Joins(M.down[c]) /\ ~Away(M.down[c]) BY <2>1, <2>3 DEF Joins, Away
  <2>5. Believes(s, M, M.down[c], r) BY <2>1, <2>2, <2>3, <2>4 DEF Believes
  <2>6. GuestHears(s, M, broken) BY <1>1, <2>1, <2>2, <2>3, <2>5 DEF GuestHears, Finals
  <2>7. host \in Acting(L) BY <2>2 DEF Acting
  <2>8. \A i \in Heard(M, c, "joined") : Under(M, c)[i].peer = host
    BY <1>1, <2>1, <2>3 DEF Heard, Under
  <2> QED BY <2>7, <2>6, <2>8 DEF Hosters
<1> QED BY <1>3, <1>4

\* A page that hosts and asks for a room, with no answer under way to it, gets one.
LEMMA AnswerHeard ==
  ASSUME NEW L, NEW Z, Sound(L, Z, {}), NEW c \in L.peers \ broken, Idle(L, c),
         \A i \in DOMAIN L.down[c] :
           L.down[c][i].t \in {"welcome", "hosted", "error", "peer", "peerleft"},
         NEW s, s.ws = c, s.role = "host" => s.pending = "none", NEW M, NEW m,
         M.down[c] = Append(L.down[c], m),
         \/ /\ m.t = "error" /\ M.hosts[c] = NoRoom
            /\ s.role = "host" /\ s.token => m.code = "noroom" /\ s.reclaiming
         \/ /\ m.t = "hosted" /\ m.room = M.hosts[c] /\ M.hosts[c] # NoRoom
            /\ M.rooms[M.hosts[c]].joined = {}
  PROVE  /\ HostHears(s, M, broken)
         /\ Known(s, M) \subseteq Known(s, L) \cup (IF m.t = "hosted" THEN {m.room} ELSE {})
<1> DEFINE q == L.down[c]
           n == M.down[c]
<1>1. c \in Conns /\ c \notin broken \cup {NoConn} /\ L \in LobbyRecords
  BY LobbyFields, Numbering DEF Sound
<1>2. q \in Seq(Messages) BY <1>1, LobbyFields
<1>5. \A i \in DOMAIN q : q[i].t \in {"peer", "peerleft"} BY DEF Idle, Prompts
<1>app. n = Append(q, m) OBVIOUS
<1> HIDE DEF q, n
<1>3. \A i \in DOMAIN n : (i \in DOMAIN q /\ n[i] = q[i]) \/ n[i] = m BY <1>2, <1>app, AppendIs
<1>4. \E i \in DOMAIN n : n[i] = m BY <1>2, <1>app, AppendIs
<1>6. \A i \in DOMAIN n : n[i].t \in {"peer", "peerleft"} \/ n[i] = m BY <1>3, <1>5
<1>7. Prompts(M, c) # {} BY <1>4 DEF Prompts, n
<1>8. HostHears(s, M, broken)
  <2>1. CASE m.t = "error" BY <1>6, <1>7, <2>1 DEF HostHears, n
  <2>2. CASE m.t = "hosted" BY <1>4, <1>6, <1>7, <2>2 DEF HostHears, n
  <2> QED BY <2>1, <2>2
<1>9. \A i \in Heard(M, c, "hosted") : m.t = "hosted" /\ Under(M, c)[i].room = m.room
  BY <1>1, <1>6 DEF Heard, Under, n
<1>10. \A x \in Known(s, M) : x \in Known(s, L) \/ (m.t = "hosted" /\ x = m.room)
  BY <1>9 DEF Known
<1> QED BY <1>8, <1>10

\* So a page learns of a room it opened, or of one it asked for.
LEMMA AskedHears ==
  ASSUME NEW L, NEW Z, Sound(L, Z, {}), NEW c \in L.peers \ broken, Idle(L, c),
         \A i \in DOMAIN L.down[c] :
           L.down[c][i].t \in {"welcome", "hosted", "error", "peer", "peerleft"},
         NEW s, s.ws = c, s.role = "host" => s.pending = "none", NEW M, NEW r,
         \/ /\ ~(s.role = "host" /\ s.token)
            /\ Refuses(L, M, c, "toomanyrooms") \/ \E e \in RoomIds : Opens(L, M, c, e)
         \/ /\ s.role = "host" /\ s.token => s.reclaiming
            /\ Refuses(L, M, c, "noroom") \/ TakesOver(L, M, c, r)
  PROVE  /\ HostHears(s, M, broken)
         /\ Known(s, M) \subseteq Known(s, L) \cup NewRooms(L, M) \cup {r}
<1>1. c \in Conns /\ L.hosts[c] = NoRoom /\ L.created \in Nat
  BY LobbyFields, Numbering DEF Sound, Idle
<1>2. ASSUME NEW code, Refuses(L, M, c, code),
             s.role = "host" /\ s.token => code = "noroom" /\ s.reclaiming
      PROVE  HostHears(s, M, broken) /\ Known(s, M) \subseteq Known(s, L)
  <2> DEFINE m == [t |-> "error", code |-> code]
  <2>1. m.t = "error" /\ m.code = code OBVIOUS
  <2>2. M.down[c] = Append(L.down[c], m) /\ M.hosts[c] = NoRoom
    BY <1>1, <1>2 DEF Refuses, Told, SameTables
  <2> HIDE DEF m
  <2>4. s.role = "host" /\ s.token => m.code = "noroom" /\ s.reclaiming BY <1>2, <2>1
  <2>3. /\ HostHears(s, M, broken)
        /\ Known(s, M) \subseteq Known(s, L) \cup (IF m.t = "hosted" THEN {m.room} ELSE {})
    BY <2>1, <2>2, <2>4, AnswerHeard
  <2> QED BY <2>1, <2>3
<1>3. ASSUME NEW e \in RoomIds, M.down[c] = Append(L.down[c], Msg("hosted", e, 0)),
             M.hosts[c] = e, M.rooms[e].joined = {}
      PROVE  HostHears(s, M, broken) /\ Known(s, M) \subseteq Known(s, L) \cup {e}
  <2> DEFINE m == Msg("hosted", e, 0)
  <2>1. m.t = "hosted" /\ m.room = e BY DEF Msg
  <2>2. M.down[c] = Append(L.down[c], m) /\ e # NoRoom BY <1>3, Numbering
  <2> HIDE DEF m
  <2>4. m.room = M.hosts[c] /\ M.hosts[c] # NoRoom /\ M.rooms[M.hosts[c]].joined = {}
    BY <1>3, <2>1, <2>2
  <2>3. /\ HostHears(s, M, broken)
        /\ Known(s, M) \subseteq Known(s, L) \cup (IF m.t = "hosted" THEN {m.room} ELSE {})
    BY <2>1, <2>2, <2>4, AnswerHeard
  <2> QED BY <2>1, <2>3
<1>4. CASE \E e \in RoomIds : Opens(L, M, c, e)
  <2>1. PICK e \in RoomIds : Opens(L, M, c, e) BY <1>4
  <2>2. /\ M.down[c] = Append(L.down[c], Msg("hosted", e, 0)) /\ M.hosts[c] = e
        /\ M.rooms[e].joined = {}
    BY <1>1, <2>1 DEF Opens, Told
  <2>3. e \in NewRooms(L, M)
    <3>1. e = L.created + 1 /\ M.created = e BY <2>1 DEF Opens
    <3> QED BY <1>1, <3>1 DEF NewRooms
  <2> QED BY <1>3, <2>2, <2>3
<1>5. CASE TakesOver(L, M, c, r)
  <2>1. /\ r \in RoomIds /\ M.down[c] = Append(L.down[c], Msg("hosted", r, 0)) /\ M.hosts[c] = r
        /\ M.rooms[r].joined = {}
    BY <1>1, <1>5 DEF TakesOver
  <2> QED BY <1>3, <2>1
<1>6. CASE Refuses(L, M, c, "toomanyrooms") /\ ~(s.role = "host" /\ s.token) BY <1>2, <1>6
<1>7. CASE Refuses(L, M, c, "noroom") /\ (s.role = "host" /\ s.token => s.reclaiming)
  BY <1>2, <1>7
<1> QED BY <1>4, <1>5, <1>6, <1>7

----------------------------------------------------------------------------
(* What a page does, and who is spared it.                                 *)

\* Pages whose connections are spared are.
LEMMA OthersAreSpared ==
  ASSUME IInv, NEW P, NEW M, NEW B, broken \subseteq B, NEW D, NEW E, NEW F,
         GuestsSpared(lobby, M, B, D), HostsSpared(lobby, M, B, E), Quietly(lobby, M, F),
         \A q \in Guests \ P : page[q].ws \notin B \cup {NoConn} => page[q].ws \in D,
         \A q \in Hosts \ P : page[q].ws \notin B \cup {NoConn} => page[q].ws \in E,
         \A q \in Pages \ P : page[q].ws # NoConn => page[q].ws \in F
  PROVE  OthersSpared(P, lobby, M, B)
<1>1. ASSUME NEW q \in Guests \ P, page[q].ws \notin B \cup {NoConn}
      PROVE  GuestStep(lobby, M, page[q].ws)
  <2>1. page[q].ws \in lobby.peers /\ lobby.hosts[page[q].ws] = NoRoom
    BY <1>1 DEF IInv, Pages, PageSound, GuestPage, GuestLike
  <2> QED BY <1>1, <2>1 DEF GuestsSpared
<1>2. ASSUME NEW q \in Hosts \ P, page[q].ws \notin B \cup {NoConn}
      PROVE  HostStep(lobby, M, page[q].ws, B)
  <2>1. page[q].ws \in lobby.peers /\ lobby.joinedIn[page[q].ws] = NoRoom
    BY <1>2 DEF IInv, Pages, PageSound, HostPage, HostLike
  <2> QED BY <1>2, <2>1 DEF HostsSpared
<1>3. \A q \in Pages \ P : page[q].ws # NoConn => Quietly(lobby, M, {page[q].ws})
  BY DEF Quietly
<1> QED BY <1>1, <1>2, <1>3 DEF OthersSpared

\* No other page has the connection of p.
LEMMA OtherConnections ==
  ASSUME IInv, NEW p \in Pages, page[p].ws # NoConn, NEW q \in Pages \ {p}, page[q].ws # NoConn
  PROVE  page[q].ws \in Conns \ {page[p].ws}
BY Numbering DEF IInv, PageRecords

\* What a page asks for.
Answers(p, L, M) ==
  LET c == page[p].ws IN
  \/ M = L
  \/ \E code : Refuses(L, M, c, code)
  \/ \E e \in RoomIds : Opens(L, M, c, e)
  \/ p \in Hosts /\ \E r \in Known(page[p], lobby) : TakesOver(L, M, c, r)
  \/ \E r \in RoomIds : Enters(L, M, c, r)

\* Whatever a page asks for, the others are spared it: only it can ask for its room.
LEMMA PageSpares ==
  ASSUME IInv, KInv, NEW p, NEW L, Before(p, L), Here(p, L), NEW M, Answers(p, L, M)
  PROVE  /\ OthersSpared({p}, lobby, M, broken)
         /\ M.created \in Nat /\ M.created >= lobby.created
<1> DEFINE c == page[p].ws
           D == Conns \ {c}
<1>1. /\ p \in Pages /\ c \in Conns /\ c # NoConn /\ Sound(L, broken, {}) /\ SameTables(lobby, L)
      /\ \A d \in D : L.down[d] = lobby.down[d]
  BY Numbering DEF Before, Here
<1>2. lobby \in LobbyRecords /\ L \in LobbyRecords /\ lobby.created \in Nat
  BY <1>1, LobbyFields DEF IInv, Sound
<1>3. \A q \in Pages \ {p} : page[q].ws # NoConn => page[q].ws \in D
  BY <1>1, OtherConnections
<1> HIDE DEF c
<1>4. ASSUME NEW E \in SUBSET D, Spares(L, M, broken, E) PROVE Spares(lobby, M, broken, E)
  <2>1. E \cap lobby.peers \subseteq L.peers BY <1>1 DEF SameTables
  <2> QED BY <1>1, <1>4, <2>1, SparesBefore DEF SameTables
<1>5. ASSUME Spares(L, M, broken, D) PROVE OthersSpared({p}, lobby, M, broken)
  <2>1. Spares(lobby, M, broken, D) BY <1>4, <1>5
  <2>2. \A q \in Guests \ {p} : page[q].ws \notin broken \cup {NoConn} => page[q].ws \in D
    BY <1>3 DEF Pages
  <2>3. \A q \in Hosts \ {p} : page[q].ws \notin broken \cup {NoConn} => page[q].ws \in D
    BY <1>3 DEF Pages
  <2> HIDE DEF D
  <2> QED BY <1>3, <2>1, <2>2, <2>3, OthersAreSpared DEF Spares
<1>6. CASE M = L
  <2>1. Spares(L, M, broken, D) BY <1>6, SameSpares
  <2> QED BY <1>1, <1>2, <1>5, <1>6, <2>1 DEF SameTables
<1>7. CASE \E code : Refuses(L, M, c, code)
  <2>1. PICK code : Refuses(L, M, c, code) BY <1>7
  <2>2. Spares(L, M, broken, D) BY <1>2, <2>1, RefusesSpares
  <2> QED BY <1>1, <1>2, <1>5, <2>1, <2>2 DEF SameTables, Refuses
<1>8. CASE \E e \in RoomIds : Opens(L, M, c, e)
  <2>1. PICK e \in RoomIds : Opens(L, M, c, e) BY <1>8
  <2>2. Spares(L, M, broken, D) BY <1>1, <2>1, OpensSpares
  <2>3. M.created = lobby.created + 1 BY <1>1, <2>1 DEF SameTables, Opens
  <2> QED BY <1>2, <1>5, <2>2, <2>3
<1>9. CASE p \in Hosts /\ \E r \in Known(page[p], lobby) : TakesOver(L, M, c, r)
  <2>1. PICK r \in Known(page[p], lobby) : TakesOver(L, M, c, r) BY <1>9
  <2> DEFINE E == {d \in D : L.hosts[d] # r}
  <2>2. Spares(L, M, broken, E) /\ Quietly(L, M, D) BY <1>1, <2>1, TakesOverSpares
  <2>3. Spares(lobby, M, broken, E) BY <1>4, <2>2
  <2>4. Quietly(lobby, M, D) BY <1>1, <2>2 DEF Quietly
  <2>5. M.created = lobby.created BY <1>1, <2>1 DEF SameTables, TakesOver
  <2>6. r # NoRoom BY DEF Known
  <2>7. \A q \in Guests \ {p} : page[q].ws \notin broken \cup {NoConn} => page[q].ws \in E
    <3> SUFFICES ASSUME NEW q \in Guests \ {p}, page[q].ws # NoConn PROVE page[q].ws \in E
      OBVIOUS
    <3>1. lobby.hosts[page[q].ws] = NoRoom BY DEF IInv, Pages, PageSound, GuestPage, GuestLike
    <3> QED BY <1>1, <1>3, <2>6, <3>1 DEF Pages, SameTables
  <2>8. \A q \in Hosts \ {p} : page[q].ws \notin broken \cup {NoConn} => page[q].ws \in E
    <3> SUFFICES ASSUME NEW q \in Hosts \ {p}, page[q].ws \notin broken \cup {NoConn},
                        lobby.hosts[page[q].ws] = r
                 PROVE  FALSE
      BY <1>1, <1>3 DEF Pages, SameTables
    <3>1. HostHears(page[q], lobby, broken) BY DEF KInv
    <3>2. \/ \E i \in DOMAIN lobby.down[page[q].ws] :
               lobby.down[page[q].ws][i].t = "hosted" /\ lobby.down[page[q].ws][i].room = r
          \/ page[q].token /\ page[q].roomId = r
      BY <2>6, <3>1 DEF HostHears
    <3>3. r \in Known(page[q], lobby) BY <2>6, <3>2 DEF Known, Heard, Under
    <3> QED BY <1>9, <3>3 DEF KInv
  <2>9. OthersSpared({p}, lobby, M, broken)
    <3> HIDE DEF E, D
    <3> QED BY <1>3, <2>3, <2>4, <2>7, <2>8, OthersAreSpared DEF Spares
  <2> QED BY <1>2, <2>5, <2>9
<1>10. CASE \E r \in RoomIds : Enters(L, M, c, r)
  <2>1. PICK r \in RoomIds : Enters(L, M, c, r) BY <1>10
  <2>2. Spares(L, M, broken, D) BY <1>1, <2>1, EntersSpares
  <2>3. M.created = lobby.created BY <1>1, <2>1 DEF SameTables, Enters
  <2> QED BY <1>2, <1>5, <2>2, <2>3
<1> QED BY <1>6, <1>7, <1>8, <1>9, <1>10 DEF Answers, c

\* What is under way to a page that has read something was under way before.
LEMMA HearsNoMore ==
  ASSUME NEW p, NEW L, Here(p, L), NEW s, s.ws = page[p].ws
  PROVE  /\ \A i \in Heard(L, s.ws, "joined") :
              \E j \in Heard(lobby, s.ws, "joined") : Under(L, s.ws)[i] = Under(lobby, s.ws)[j]
         /\ \A i \in Heard(L, s.ws, "hosted") :
              \E j \in Heard(lobby, s.ws, "hosted") : Under(L, s.ws)[i] = Under(lobby, s.ws)[j]
<1>1. CASE s.ws = NoConn
  <2>1. DOMAIN <<>> = {} OBVIOUS
  <2> QED BY <1>1, <2>1 DEF Heard, Under
<1>2. CASE s.ws # NoConn
  <2>1. ASSUME NEW t, NEW i \in Heard(L, s.ws, t)
        PROVE  \E j \in Heard(lobby, s.ws, t) : Under(L, s.ws)[i] = Under(lobby, s.ws)[j]
    <3>1. i \in DOMAIN L.down[s.ws] /\ L.down[s.ws][i].t = t BY <1>2, <2>1 DEF Heard, Under
    <3>2. PICK j \in DOMAIN lobby.down[s.ws] : lobby.down[s.ws][j] = L.down[s.ws][i]
      BY <3>1 DEF Here
    <3>3. j \in Heard(lobby, s.ws, t) BY <1>2, <3>1, <3>2 DEF Heard, Under
    <3> QED BY <1>2, <3>2, <3>3 DEF Under
  <2> QED BY <2>1
<1> QED BY <1>1, <1>2

\* A page that joins and reads a message, or asks to join, keeps what is known.
LEMMA GuestActs ==
  ASSUME IInv, KInv, NEW p \in Guests, NEW L, Before(p, L), Here(p, L), NEW s,
         page' = [page EXCEPT ![p] = s], s.ws = page[p].ws, broken' = broken,
         s.hostPeerId \in Hosters(page[p], lobby) \cup {NoConn},
         \/ lobby' = L /\ (page[p].ws \notin broken => GuestHears(s, L, broken))
         \/ /\ page[p].ws \notin broken /\ \E r : lobby' = Join(L, page[p].ws, r)
            /\ L.joinedIn[page[p].ws] = NoRoom /\ L.down[page[p].ws] = <<>>
            /\ s.role # "none" \/ s.pending # "none"
  PROVE  KInv'
<1> DEFINE me == page[p]
           c == page[p].ws
<1>1. /\ p \in Pages /\ p \notin Hosts /\ c \in Conns /\ c # NoConn /\ Sound(L, broken, {})
      /\ L.peers = lobby.peers /\ L.counter = lobby.counter
  BY Numbering, P2PAssumption DEF Before, Pages
<1>2. GuestLike(L, c) /\ (c \notin broken => c \in L.peers) BY <1>1, BeforeIs DEF Reaches
<1>3. page'[p] = s /\ \A q \in Pages \ {p} : page'[q] = page[q] BY <1>1 DEF IInv
<1>4. Acting(L) = Acting(lobby) BY DEF Here, SameTables, Acting
<1>hosters. Hosters(s, L) \subseteq Hosters(me, lobby)
  BY HearsNoMore DEF Hosters
<1>5. ASSUME Answers(p, L, lobby'), lobby'.counter = lobby.counter,
             GuestHears(s, lobby', broken),
             Hosters(s, lobby') \subseteq Hosters(me, lobby) \cup Acting(lobby)
      PROVE  KInv'
  <2>1. /\ OthersSpared({p}, lobby, lobby', broken)
        /\ lobby'.created \in Nat /\ lobby'.created >= lobby.created
    BY <1>5, PageSpares
  <2>2. lobby'.counter \in Nat /\ lobby'.counter >= lobby.counter
    BY <1>5, LobbyFields DEF IInv, Sound
  <2>3. {p} \in SUBSET Pages BY <1>1
  <2> HIDE DEF KInv, IInv
  <2> QED BY <1>1, <1>3, <1>5, <2>1, <2>2, <2>3, KnowledgeKept
<1>6. CASE lobby' = L /\ (c \notin broken => GuestHears(s, L, broken))
  <2>1. GuestHears(s, L, broken) BY <1>1, <1>6 DEF GuestHears
  <2> QED BY <1>1, <1>5, <1>6, <1>hosters, <2>1 DEF Answers
<1>7. CASE /\ c \notin broken /\ \E r : lobby' = Join(L, c, r)
           /\ L.joinedIn[c] = NoRoom /\ L.down[c] = <<>>
           /\ s.role # "none" \/ s.pending # "none"
  <2>1. PICK r : lobby' = Join(L, c, r) BY <1>7
  <2>2. /\ GuestServed(L, lobby', broken, c)
        /\ \/ \E code \in {"noroom", "self", "hostaway", "full"} : Refuses(L, lobby', c, code)
           \/ Enters(L, lobby', c, r)
    <3> HIDE DEF c
    <3> QED BY <1>1, <1>2, <1>7, <2>1, JoinHolds
  <2>3. Enters(L, lobby', c, r) \/ \E code : Refuses(L, lobby', c, code) BY <2>2
  <2>4. /\ GuestHears(s, lobby', broken)
        /\ Hosters(s, lobby') \subseteq ({s.hostPeerId} \ {NoConn}) \cup Acting(L)
    BY <1>1, <1>2, <1>7, <2>3, JoinHears
  <2>5. Answers(p, L, lobby') BY <2>3 DEF Answers, Enters
  <2>6. lobby'.counter = lobby.counter BY <1>1, <2>2 DEF GuestServed, Served
  <2> QED BY <1>4, <1>5, <2>4, <2>5, <2>6
<1> QED BY <1>6, <1>7

\* What a page that hosts asks for, and only when nothing answers it yet.
Asks(s, me, L, M) ==
  LET c == me.ws IN
  /\ c \notin broken /\ Idle(L, c)
  /\ \/ M = Host(L, c) /\ ~(s.role = "host" /\ s.token)
     \/ /\ s.role = "host" /\ s.token => s.reclaiming
        /\ \E r \in {me.saved} \cup (IF me.token THEN {me.roomId} ELSE {}) : M = Reclaim(L, c, r)

\* A page that hosts and reads a message, or asks for a room, keeps what is known.
LEMMA HostActs ==
  ASSUME IInv, KInv, NEW p \in Hosts, NEW L, Before(p, L), Here(p, L), NEW s,
         page' = [page EXCEPT ![p] = s], s.ws = page[p].ws, broken' = broken,
         ({s.saved} \cup IF s.token THEN {s.roomId} ELSE {})
            \subseteq Known(page[p], lobby) \cup {NoRoom},
         s.role = "host" => s.pending = "none",
         \/ lobby' = L /\ (page[p].ws \notin broken => HostHears(s, L, broken))
         \/ Asks(s, page[p], L, lobby')
  PROVE  KInv'
<1> DEFINE me == page[p]
           c == page[p].ws
<1>1. /\ p \in Pages /\ p \notin Guests /\ c \in Conns /\ c # NoConn /\ Sound(L, broken, {})
      /\ L.peers = lobby.peers /\ L.counter = lobby.counter
  BY Numbering, P2PAssumption DEF Before, Pages
<1>2. HostLike(L, c) /\ (c \notin broken => c \in L.peers) BY <1>1, BeforeIs DEF Reaches
<1>3. page'[p] = s /\ \A q \in Pages \ {p} : page'[q] = page[q] BY <1>1 DEF IInv
<1>4. NewRooms(L, lobby') = NewRooms(lobby, lobby') BY DEF Here, SameTables, NewRooms
<1>known. Known(s, L) \subseteq Known(me, lobby) BY HearsNoMore DEF Known
<1>5. ASSUME Answers(p, L, lobby'), lobby'.counter = lobby.counter,
             HostHears(s, lobby', broken),
             Known(s, lobby') \subseteq Known(me, lobby) \cup NewRooms(lobby, lobby')
      PROVE  KInv'
  <2>1. /\ OthersSpared({p}, lobby, lobby', broken)
        /\ lobby'.created \in Nat /\ lobby'.created >= lobby.created
    BY <1>5, PageSpares
  <2>2. lobby'.counter \in Nat /\ lobby'.counter >= lobby.counter
    BY <1>5, LobbyFields DEF IInv, Sound
  <2>3. {p} \in SUBSET Pages BY <1>1
  <2> HIDE DEF KInv, IInv
  <2> QED BY <1>1, <1>3, <1>5, <2>1, <2>2, <2>3, KnowledgeKept
<1>6. CASE lobby' = L /\ (c \notin broken => HostHears(s, L, broken))
  <2>1. HostHears(s, L, broken) BY <1>6 DEF HostHears
  <2> QED BY <1>1, <1>5, <1>6, <1>known, <2>1 DEF Answers
<1>7. CASE Asks(s, me, L, lobby')
  <2>1. c \notin broken /\ Idle(L, c) /\ c \in L.peers BY <1>2, <1>7 DEF Asks
  <2>2. \A i \in DOMAIN L.down[c] :
          L.down[c][i].t \in {"welcome", "hosted", "error", "peer", "peerleft"}
    <3>1. HostHears(me, lobby, broken) BY DEF KInv
    <3>2. \A j \in DOMAIN lobby.down[c] :
            lobby.down[c][j].t \in {"welcome", "hosted", "error", "peer", "peerleft"}
      BY <1>1, <2>1, <3>1 DEF HostHears
    <3> QED BY <3>2 DEF Here
  <2>3. CASE lobby' = Host(L, c) /\ ~(s.role = "host" /\ s.token)
    <3>1. /\ HostServed(L, lobby', broken, c)
          /\ Refuses(L, lobby', c, "toomanyrooms") \/ \E e \in RoomIds : Opens(L, lobby', c, e)
      <4> HIDE DEF c
      <4> QED BY <1>1, <1>2, <2>1, <2>3, HostHolds
    <3>2. /\ HostHears(s, lobby', broken)
          /\ Known(s, lobby') \subseteq Known(s, L) \cup NewRooms(L, lobby') \cup {NoRoom}
      <4>1. /\ ~(s.role = "host" /\ s.token)
            /\ \/ Refuses(L, lobby', c, "toomanyrooms")
               \/ \E e \in RoomIds : Opens(L, lobby', c, e)
        BY <2>3, <3>1
      <4>2. c \in L.peers \ broken /\ s.ws = c BY <2>1
      <4> HIDE DEF c, me
      <4> QED BY <1>1, <2>1, <2>2, <4>1, <4>2, AskedHears
    <3>3. NoRoom \notin Known(s, lobby') BY DEF Known
    <3>4. Answers(p, L, lobby') BY <3>1 DEF Answers
    <3>5. lobby'.counter = lobby.counter BY <1>1, <3>1 DEF HostServed, Served
    <3> QED BY <1>4, <1>5, <1>known, <3>2, <3>3, <3>4, <3>5
  <2>4. ASSUME s.role = "host" /\ s.token => s.reclaiming,
               NEW r \in {me.saved} \cup (IF me.token THEN {me.roomId} ELSE {}),
               lobby' = Reclaim(L, c, r)
        PROVE  KInv'
    <3>1. /\ HostServed(L, lobby', broken, c)
          /\ Refuses(L, lobby', c, "noroom") \/ TakesOver(L, lobby', c, r)
      <4> HIDE DEF c
      <4> QED BY <1>1, <1>2, <2>1, <2>4, ReclaimHolds
    <3>2. /\ HostHears(s, lobby', broken)
          /\ Known(s, lobby') \subseteq Known(s, L) \cup NewRooms(L, lobby') \cup {r}
      <4>1. /\ s.role = "host" /\ s.token => s.reclaiming
            /\ Refuses(L, lobby', c, "noroom") \/ TakesOver(L, lobby', c, r)
        BY <2>4, <3>1
      <4>2. c \in L.peers \ broken /\ s.ws = c BY <2>1
      <4> HIDE DEF c, me
      <4> QED BY <1>1, <2>1, <2>2, <4>1, <4>2, AskedHears
    <3>3. NoRoom \notin Known(s, lobby') BY DEF Known
    <3>6. r # NoRoom => r \in Known(me, lobby) BY <2>4 DEF Known
    <3>4. Answers(p, L, lobby')
      <4>1. TakesOver(L, lobby', c, r) => r # NoRoom BY Numbering DEF TakesOver
      <4> QED BY <3>1, <3>6, <4>1 DEF Answers
    <3>5. lobby'.counter = lobby.counter BY <1>1, <3>1 DEF HostServed, Served
    <3> QED BY <1>4, <1>5, <1>known, <3>2, <3>3, <3>4, <3>5, <3>6
  <2> QED BY <1>7, <2>3, <2>4 DEF Asks
<1> QED BY <1>6, <1>7

----------------------------------------------------------------------------
(* Messages that pages read.                                               *)

\* The lobby without the first message of a queue.
LEMMA TakenHere ==
  ASSUME IInv, NEW p \in Pages, page[p].ws # NoConn, lobby.down[page[p].ws] # <<>>, NEW L,
         L = [lobby EXCEPT !.down[page[p].ws] = Tail(@)]
  PROVE  /\ Here(p, L) /\ L.down[page[p].ws] = Tail(lobby.down[page[p].ws])
         /\ lobby.down[page[p].ws] \in Seq(Messages)
         /\ 1 \in DOMAIN lobby.down[page[p].ws]
         /\ lobby.down[page[p].ws][1] = Head(lobby.down[page[p].ws])
<1> DEFINE c == page[p].ws
           q == lobby.down[c]
           down == [lobby.down EXCEPT ![c] = Tail(q)]
<1>1. c \in Conns /\ lobby \in LobbyRecords BY Numbering DEF IInv, Sound, PageRecords
<1>2. q \in Seq(Messages) /\ lobby.down \in [Conns -> Seq(Messages)] BY <1>1, LobbyFields
<1>3. /\ down[c] = Tail(q) /\ \A d \in Conns \ {c} : down[d] = lobby.down[d]
  BY <1>1, <1>2
<1>4. L = [lobby EXCEPT !.down = down] OBVIOUS
<1> HIDE DEF down, q, c
<1>5. SameTables(lobby, L) /\ L.down = down BY <1>1, <1>4 DEF SameTables, LobbyRecords
<1>6. \A i \in DOMAIN Tail(q) : \E j \in DOMAIN q : q[j] = Tail(q)[i]
  <2> SUFFICES ASSUME NEW i \in DOMAIN Tail(q) PROVE \E j \in DOMAIN q : q[j] = Tail(q)[i]
    OBVIOUS
  <2>1. q # <<>> BY DEF q, c
  <2>2. i + 1 \in DOMAIN q /\ Tail(q)[i] = q[i + 1] BY <1>2, <2>1, TailIs
  <2> QED BY <2>2
<1>7. q # <<>> BY DEF q, c
<1>8. 1 \in DOMAIN q /\ q[1] = Head(q) BY <1>2, <1>7, TailIs
<1>9. L.down[c] = Tail(q) BY <1>3, <1>5
<1>10. Here(p, L)
  <2>1. SameTables(lobby, L) /\ \A d \in Conns \ {c} : L.down[d] = lobby.down[d] BY <1>3, <1>5
  <2>2. \A i \in DOMAIN L.down[c] : \E j \in DOMAIN q : q[j] = L.down[c][i]
    BY <1>6, <1>9
  <2> QED BY <2>1, <2>2 DEF Here, q, c
<1> QED BY <1>2, <1>8, <1>9, <1>10 DEF q, c

\* A page that joins reads the next message.
LEMMA GuestDispatch ==
  ASSUME IInv, KInv, NEW p \in Guests, DispatchControl(p)
  PROVE  KInv'
<1> DEFINE me == page[p]
           c == page[p].ws
           q == lobby.down[c]
           m == Head(q)
           t == Tail(q)
           r == lobby.joinedIn[c]
           L == [lobby EXCEPT !.down[c] = Tail(@)]
<1>1. c # NoConn /\ q # <<>> /\ broken' = broken /\ p \in Pages
  BY DEF DispatchControl, Pages
<1>2. /\ Before(p, L) /\ m \in Messages /\ m.t # "hosted"
  BY <1>1, TakenOff
<1>3. /\ Here(p, L) /\ L.down[c] = t /\ 1 \in DOMAIN q /\ q[1] = m
  BY <1>1, TakenHere
<1>4. /\ me \in PageRecords /\ GuestPage(me, lobby) /\ c \in Conns /\ p \notin Hosts
      /\ lobby \in LobbyRecords /\ page \in [Pages -> PageRecords]
  BY <1>1, P2PAssumption, Numbering DEF IInv, PageSound, PageRecords, Sound
<1>5. \/ m.t = "welcome" /\ HandleWelcome(p, L)
      \/ m.t = "joined" /\ HandleJoined(p, L, m.room, m.peer)
      \/ m.t = "peer" /\ HandlePeerArrived(p, L, m.peer)
      \/ m.t = "peerleft" /\ HandlePeerLeft(p, L, m.peer)
      \/ m.t = "hostaway" /\ HandleHostAway(p, L)
      \/ m.t = "hostback" /\ HandleHostBack(p, L, m.room)
      \/ m.t = "roomclosed" /\ HandleRoomClosed(p, L)
      \/ m.t = "error" /\ HandleError(p, L, m.code)
  <2>1. m.t \in {"welcome", "joined", "peer", "peerleft", "hostaway", "hostback", "roomclosed",
                 "error"}
    BY <1>2 DEF Messages, Notices, Errors
  <2>2. (CASE m.t = "welcome"    -> HandleWelcome(p, L)
          [] m.t = "hosted"     -> HandleHosted(p, L, m.room)
          [] m.t = "joined"     -> HandleJoined(p, L, m.room, m.peer)
          [] m.t = "peer"       -> HandlePeerArrived(p, L, m.peer)
          [] m.t = "peerleft"   -> HandlePeerLeft(p, L, m.peer)
          [] m.t = "hostaway"   -> HandleHostAway(p, L)
          [] m.t = "hostback"   -> HandleHostBack(p, L, m.room)
          [] m.t = "roomclosed" -> HandleRoomClosed(p, L)
          [] m.t = "error"      -> HandleError(p, L, m.code))
    BY DEF DispatchControl
  <2> HIDE DEF q, m, t, L, c
  <2> QED BY <2>1, <2>2
<1>6. L.joinedIn = lobby.joinedIn /\ L.rooms = lobby.rooms BY <1>3 DEF Here, SameTables
<1> HIDE DEF L
<1>reads. ASSUME c \notin broken
          PROVE
            /\ m.t \in Finals \cup {"joined", "hostaway"}
            /\ m.t \in Finals => t = <<>> /\ r = NoRoom
            /\ ~(me.connected /\ me.role = "none" /\ me.pending = "none" /\ ~me.over)
            /\ m.t = "joined" /\ r # NoRoom =>
                 m.room = r /\ (~Away(t) => m.peer = lobby.rooms[r].host)
            /\ m.t = "hostaway" /\ r # NoRoom =>
                 me.role = "client" /\ me.roomId = r /\ lobby.rooms[r].host = NoConn
            /\ \A z : /\ z.ws = c
                      /\ z.connected /\ z.role = "none" /\ z.pending = "none" /\ ~z.over =>
                           t = <<>> /\ r = NoRoom
                      /\ r # NoRoom =>
                           /\ z.role = "client" /\ z.roomId = r
                           /\ ~Away(t) =>
                                /\ z.hostPeerId = lobby.rooms[r].host
                                /\ z.hostPeerId # NoConn => z.peers[z.hostPeerId] # 0
                      => GuestHears(z, L, broken)
  <2>1. GuestHears(me, lobby, broken) /\ c \in Conns \ broken BY <1>4, <1>reads DEF KInv
  <2>2. SameTables(lobby, L) BY <1>3 DEF Here
  <2>3. q # <<>> /\ L.down[c] = Tail(q) /\ lobby \in LobbyRecords BY <1>1, <1>3, <1>4
  <2>4. me.ws = c /\ q = lobby.down[c] /\ r = lobby.joinedIn[c] OBVIOUS
  <2> HIDE DEF me, c, q, r
  <2>5. me.ws \in Conns \ broken /\ q = lobby.down[me.ws] /\ L.down[me.ws] = Tail(q)
        /\ r = lobby.joinedIn[me.ws]
    BY <2>1, <2>3, <2>4
  <2>6. GuestHears(me, lobby, broken) BY <2>1
  <2>7. GuestRead(me, lobby, L, broken, q, r) BY <2>2, <2>3, <2>5, <2>6, GuestReads
  <2> QED BY <2>4, <2>7 DEF GuestRead
<1>7. ASSUME NEW s, page' = [page EXCEPT ![p] = s], s.ws = c, lobby' = L,
             s.hostPeerId \in {me.hostPeerId, NoConn},
             c \notin broken => t = <<>> /\ r = NoRoom
      PROVE  KInv'
  <2>1. s.hostPeerId \in Hosters(me, lobby) \cup {NoConn} BY <1>7 DEF Hosters
  <2>2. c \notin broken => GuestHears(s, L, broken) BY <1>7, <1>reads
  <2> QED BY <1>1, <1>2, <1>3, <1>7, <2>1, <2>2, GuestActs
<1>8. ASSUME NEW s, page' = [page EXCEPT ![p] = s], s.ws = c, s.hostPeerId = me.hostPeerId,
             NEW e, Sent(p, L, Join(L, c, e)), s.role # "none" \/ s.pending # "none",
             c \notin broken => t = <<>> /\ r = NoRoom
      PROVE  KInv'
  <2>1. s.hostPeerId \in Hosters(me, lobby) \cup {NoConn} BY <1>8 DEF Hosters
  <2>2. CASE c \in broken
    <3>1. lobby' = L BY <1>8, <2>2 DEF Sent, Reaches
    <3> QED BY <1>1, <1>2, <1>3, <1>8, <2>1, <2>2, <3>1, GuestActs
  <2>3. CASE c \notin broken
    <3>1. lobby' = Join(L, c, e) BY <1>1, <1>8, <2>3 DEF Sent, Reaches
    <3>2. L.joinedIn[c] = NoRoom /\ L.down[c] = <<>> BY <1>3, <1>6, <1>8, <2>3
    <3> QED BY <1>1, <1>2, <1>3, <1>8, <2>1, <2>3, <3>1, <3>2, GuestActs
  <2> QED BY <2>2, <2>3
<1>9. ASSUME m.t \in Finals, c \notin broken PROVE t = <<>> /\ r = NoRoom
  BY <1>9, <1>reads
<1>10. CASE m.t = "welcome" /\ HandleWelcome(p, L)
  <2> DEFINE s == [me EXCEPT !.connected = TRUE,
                             !.reclaiming = me.role = "host" /\ me.token]
  <2>1. page' = [page EXCEPT ![p] = s] /\ Sent(p, L, Reregister(p, L))
    BY <1>10 DEF HandleWelcome
  <2>2. s.ws = c /\ s.hostPeerId = me.hostPeerId /\ s.role = me.role BY <1>4 DEF PageRecords
  <2>3. c \notin broken => t = <<>> /\ r = NoRoom BY <1>9, <1>10 DEF Finals
  <2> HIDE DEF s
  <2>4. CASE me.role = "client"
    <3>1. Reregister(p, L) = Join(L, c, me.roomId) BY <2>4 DEF Reregister
    <3> QED BY <1>8, <2>1, <2>2, <2>3, <2>4, <3>1
  <2>5. CASE me.role = "none"
    <3>1. Reregister(p, L) = L BY <2>5 DEF Reregister
    <3>2. lobby' = L BY <2>1, <3>1 DEF Sent
    <3> QED BY <1>7, <2>1, <2>2, <2>3, <3>2
  <2> QED BY <1>4, <2>4, <2>5 DEF GuestPage
<1>11. CASE m.t = "joined" /\ HandleJoined(p, L, m.room, m.peer)
  <2> DEFINE s == [me EXCEPT !.role = "client", !.pending = "none", !.roomId = m.room,
                             !.hostPeerId = m.peer, !.peers = EnsurePeer(@, m.peer, 1)]
  <2>1. page' = [page EXCEPT ![p] = s] /\ lobby' = L BY <1>11 DEF HandleJoined
  <2>2. /\ s.ws = c /\ s.role = "client" /\ s.roomId = m.room /\ s.hostPeerId = m.peer
        /\ s.peers = EnsurePeer(me.peers, m.peer, 1)
    BY <1>4 DEF PageRecords
  <2> HIDE DEF s
  <2>3. m.peer \in Hosters(me, lobby) \cup {NoConn}
    <3>1. 1 \in Heard(lobby, c, "joined") /\ Under(lobby, c)[1] = m
      BY <1>1, <1>3, <1>11 DEF Heard, Under
    <3> QED BY <3>1 DEF Hosters
  <2>4. m.peer \in Conns \cup {NoConn}
    BY <1>2, <1>11, Numbering DEF Messages, Notices, Errors
  <2>5. m.peer # NoConn => s.peers[m.peer] # 0
    <3>1. me.peers \in [Conns -> 0 .. MaxConns] BY <1>4 DEF PageRecords
    <3> QED BY <2>2, <2>4, <3>1, EnsurePeerKnows
  <2>6. c \notin broken => GuestHears(s, L, broken) BY <1>reads, <1>11, <2>2, <2>5
  <2> QED BY <1>1, <1>2, <1>3, <2>1, <2>2, <2>3, <2>6, GuestActs
<1>12. CASE m.t = "peer" /\ HandlePeerArrived(p, L, m.peer)
  <2> DEFINE s == [me EXCEPT !.peers = EnsurePeer(@, m.peer, 0)]
  <2>1. page' = [page EXCEPT ![p] = s] /\ lobby' = L BY <1>12 DEF HandlePeerArrived
  <2>2. s.ws = c /\ s.hostPeerId = me.hostPeerId BY <1>4 DEF PageRecords
  <2>3. c \in broken BY <1>reads, <1>12 DEF Finals
  <2> HIDE DEF s
  <2> QED BY <1>7, <2>1, <2>2, <2>3
<1>13. CASE m.t = "peerleft" /\ HandlePeerLeft(p, L, m.peer)
  <2> DEFINE s == [me EXCEPT !.peers[m.peer] = 0]
  <2>1. page' = [page EXCEPT ![p] = s] /\ lobby' = L BY <1>13 DEF HandlePeerLeft
  <2>2. s.ws = c /\ s.hostPeerId = me.hostPeerId BY <1>4 DEF PageRecords
  <2>3. c \in broken BY <1>reads, <1>13 DEF Finals
  <2> HIDE DEF s
  <2> QED BY <1>7, <2>1, <2>2, <2>3
<1>14. CASE m.t = "hostaway" /\ HandleHostAway(p, L)
  <2> DEFINE s == IF me.role # "client" THEN me
                  ELSE [me EXCEPT !.peers = NoPeers, !.hostPeerId = NoConn]
  <2>1. page' = [page EXCEPT ![p] = s] /\ lobby' = L BY <1>1, <1>4, <1>14 DEF HandleHostAway
  <2>2. /\ s.ws = c /\ s.role = me.role /\ s.roomId = me.roomId /\ s.connected = me.connected
        /\ s.pending = me.pending /\ s.over = me.over
        /\ s.hostPeerId \in {me.hostPeerId, NoConn}
        /\ me.role = "client" => s.hostPeerId = NoConn
    BY <1>4 DEF PageRecords
  <2> HIDE DEF s
  <2>3. s.hostPeerId \in Hosters(me, lobby) \cup {NoConn} BY <2>2 DEF Hosters
  <2>4. c \notin broken => GuestHears(s, L, broken) BY <1>reads, <1>14, <2>2
  <2> QED BY <1>1, <1>2, <1>3, <2>1, <2>2, <2>3, <2>4, GuestActs
<1>15. CASE m.t = "hostback" /\ HandleHostBack(p, L, m.room)
  <2> DEFINE s == [me EXCEPT !.pending = "join"]
  <2>1. s.ws = c /\ s.hostPeerId = me.hostPeerId /\ s.pending = "join" BY <1>4 DEF PageRecords
  <2>2. c \notin broken => t = <<>> /\ r = NoRoom BY <1>9, <1>15 DEF Finals
  <2>3. CASE me.role = "client" /\ me.roomId = m.room
    <3>1. page' = [page EXCEPT ![p] = s] /\ Sent(p, L, Join(L, c, m.room))
      BY <1>15, <2>3 DEF HandleHostBack
    <3> HIDE DEF s
    <3> QED BY <1>8, <2>1, <2>2, <3>1
  <2>4. CASE ~(me.role = "client" /\ me.roomId = m.room)
    <3>1. page' = [page EXCEPT ![p] = me] /\ lobby' = L
      BY <1>1, <1>4, <1>15, <2>4 DEF HandleHostBack
    <3> QED BY <1>7, <2>2, <3>1
  <2> QED BY <2>3, <2>4
<1>16. CASE m.t = "roomclosed" /\ HandleRoomClosed(p, L)
  <2> DEFINE s == [me EXCEPT !.peers = NoPeers, !.role = "none", !.pending = "none",
                             !.roomId = NoRoom, !.hostPeerId = NoConn, !.over = TRUE]
  <2>1. page' = [page EXCEPT ![p] = s] /\ lobby' = L BY <1>16 DEF HandleRoomClosed
  <2>2. s.ws = c /\ s.hostPeerId = NoConn BY <1>4 DEF PageRecords
  <2>3. c \notin broken => t = <<>> /\ r = NoRoom BY <1>9, <1>16 DEF Finals
  <2> HIDE DEF s
  <2> QED BY <1>7, <2>1, <2>2, <2>3
<1>17. CASE m.t = "error" /\ HandleError(p, L, m.code)
  <2>1. ~me.reclaiming /\ me.pending \notin {"host", "reclaim"} BY <1>4 DEF GuestPage
  <2> DEFINE old == [me EXCEPT !.reclaiming = me.reclaiming /\ m.code # "noroom"]
             s == [old EXCEPT !.pending = "none"]
  <2>2. old.pending = me.pending BY <1>4 DEF PageRecords
  <2>3. page' = [page EXCEPT ![p] = s] /\ lobby' = L
    BY <1>17, <2>1, <2>2 DEF HandleError
  <2>4. s.ws = c /\ s.hostPeerId = me.hostPeerId BY <1>4 DEF PageRecords
  <2>5. c \notin broken => t = <<>> /\ r = NoRoom BY <1>9, <1>17 DEF Finals
  <2> HIDE DEF s
  <2> QED BY <1>7, <2>3, <2>4, <2>5
<1> QED BY <1>5, <1>10, <1>11, <1>12, <1>13, <1>14, <1>15, <1>16, <1>17

\* What a page that hosts knows when it has read a message that prompts it for nothing.
LEMMA HostNotes ==
  ASSUME NEW s, NEW L \in LobbyRecords, NEW M, NEW B, HostHears(s, L, B), s.ws \in Conns \ B,
         NEW q, q = L.down[s.ws], q # <<>>, SameTables(L, M), M.down[s.ws] = Tail(q),
         Head(q).t \in {"peer", "peerleft"},
         NEW z, z.ws = s.ws, z.role = s.role, z.pending = s.pending, z.token = s.token,
         z.roomId = s.roomId, z.connected = s.connected, z.reclaiming = s.reclaiming,
         \A g \in Conns : WillKnow(s, q, g) => WillKnow(z, Tail(q), g)
  PROVE  HostHears(z, M, B)
<1> DEFINE c == s.ws
           t == Tail(q)
           r == L.hosts[c]
<1>1. c \notin B \cup {NoConn} /\ q \in Seq(Messages) BY LobbyFields, Numbering
<1>2. /\ \A i \in DOMAIN q :
           /\ q[i].t \in {"welcome", "hosted", "error", "peer", "peerleft"}
           /\ q[i].t = "hosted" => q[i].room = r /\ r # NoRoom
           /\ q[i].t = "error" /\ s.role = "host" /\ s.token => q[i].code = "noroom" /\ s.reclaiming
      /\ r # NoRoom => \/ \E i \in DOMAIN q : q[i].t = "hosted"
                       \/ s.role = "host" /\ s.token /\ s.roomId = r
      /\ s.connected /\ s.role = "host" /\ s.token /\ Prompts(L, c) = {} =>
           r = s.roomId /\ r # NoRoom
      /\ r # NoRoom => \A g \in L.rooms[r].joined \ B : WillKnow(s, q, g)
  BY <1>1 DEF HostHears
<1>3. /\ q[1] = Head(q)
      /\ \A i \in DOMAIN t : i + 1 \in DOMAIN q /\ t[i] = q[i + 1]
      /\ \A j \in DOMAIN q : j # 1 => j - 1 \in DOMAIN t /\ t[j - 1] = q[j]
  BY <1>1, TailIs
<1>4. M.hosts[c] = r /\ M.rooms = L.rooms /\ M.down[c] = t BY DEF SameTables
<1> HIDE DEF t
<1>5. \A i \in DOMAIN t :
        /\ t[i].t \in {"welcome", "hosted", "error", "peer", "peerleft"}
        /\ t[i].t = "hosted" => t[i].room = r /\ r # NoRoom
        /\ t[i].t = "error" /\ s.role = "host" /\ s.token => t[i].code = "noroom" /\ s.reclaiming
  <2> SUFFICES ASSUME NEW i \in DOMAIN t
               PROVE
                 /\ t[i].t \in {"welcome", "hosted", "error", "peer", "peerleft"}
                 /\ t[i].t = "hosted" => t[i].room = r /\ r # NoRoom
                 /\ t[i].t = "error" /\ s.role = "host" /\ s.token =>
                      t[i].code = "noroom" /\ s.reclaiming
    OBVIOUS
  <2>1. i + 1 \in DOMAIN q /\ t[i] = q[i + 1] BY <1>3
  <2> HIDE DEF r, c
  <2> QED BY <1>2, <2>1
<1>6. ASSUME NEW j \in DOMAIN q, q[j].t \in {"welcome", "hosted", "error"}
      PROVE  j - 1 \in DOMAIN t /\ t[j - 1] = q[j]
  <2>1. j # 1 BY <1>3, <1>6
  <2> QED BY <1>3, <2>1
<1>7. (\E i \in DOMAIN q : q[i].t = "hosted") => \E i \in DOMAIN t : t[i].t = "hosted"
  <2> SUFFICES ASSUME NEW j \in DOMAIN q, q[j].t = "hosted"
               PROVE  \E i \in DOMAIN t : t[i].t = "hosted"
    OBVIOUS
  <2>1. j - 1 \in DOMAIN t /\ t[j - 1].t = "hosted" BY <1>6
  <2> QED BY <2>1
<1>8. Prompts(M, c) = {} => Prompts(L, c) = {}
  <2> SUFFICES ASSUME NEW j \in Prompts(L, c) PROVE Prompts(M, c) # {} OBVIOUS
  <2>1. j \in DOMAIN q /\ q[j].t \in {"welcome", "hosted", "error"} BY DEF Prompts
  <2>2. j - 1 \in Prompts(M, c) BY <1>4, <1>6, <2>1 DEF Prompts
  <2> QED BY <2>2
<1>9. r # NoRoom => \A g \in L.rooms[r].joined \ B : WillKnow(z, t, g)
  <2>1. r # NoRoom => L.rooms[r].joined \subseteq Conns
    <3>1. r \in RoomIds \cup {NoRoom} BY LobbyFields, Numbering
    <3> QED BY <3>1, LobbyFields DEF RoomRecords
  <2> QED BY <1>2, <2>1 DEF t
<1>10. s.role = "host" => s.pending = "none" BY DEF HostHears
<1> HIDE DEF r
<1>11. z.ws = c OBVIOUS
<1> HIDE DEF c
<1> QED BY <1>1, <1>2, <1>4, <1>5, <1>7, <1>8, <1>9, <1>10, <1>11 DEF HostHears

\* A page that hosts reads the next message.
LEMMA HostDispatch ==
  ASSUME IInv, KInv, NEW p \in Hosts, DispatchControl(p)
  PROVE  KInv'
<1> DEFINE me == page[p]
           c == page[p].ws
           q == lobby.down[c]
           m == Head(q)
           t == Tail(q)
           L == [lobby EXCEPT !.down[c] = Tail(@)]
<1>1. c # NoConn /\ q # <<>> /\ broken' = broken /\ p \in Pages
  BY DEF DispatchControl, Pages
<1>2. /\ Before(p, L) /\ m \in Messages /\ m.t # "joined"
      /\ Reaches(p) /\ m.t \in {"welcome", "error"} => Idle(L, c)
  BY <1>1, TakenOff
<1>3. /\ Here(p, L) /\ L.down[c] = t /\ q \in Seq(Messages) /\ 1 \in DOMAIN q /\ q[1] = m
  BY <1>1, TakenHere
<1>4. /\ me \in PageRecords /\ HostPage(me, lobby) /\ c \in Conns /\ p \notin Guests
      /\ HostAwaits(me, lobby, broken) /\ HostHears(me, lobby, broken)
      /\ lobby \in LobbyRecords /\ page \in [Pages -> PageRecords]
      /\ me.role = "host" => me.pending = "none"
  BY <1>1, P2PAssumption, Numbering DEF IInv, KInv, HostHears, PageSound, PageRecords, Sound
<1>5. \/ m.t = "welcome" /\ HandleWelcome(p, L)
      \/ m.t = "hosted" /\ HandleHosted(p, L, m.room)
      \/ m.t = "peer" /\ HandlePeerArrived(p, L, m.peer)
      \/ m.t = "peerleft" /\ HandlePeerLeft(p, L, m.peer)
      \/ m.t = "hostaway" /\ HandleHostAway(p, L)
      \/ m.t = "hostback" /\ HandleHostBack(p, L, m.room)
      \/ m.t = "roomclosed" /\ HandleRoomClosed(p, L)
      \/ m.t = "error" /\ HandleError(p, L, m.code)
  <2>1. m.t \in {"welcome", "hosted", "peer", "peerleft", "hostaway", "hostback", "roomclosed",
                 "error"}
    BY <1>2 DEF Messages, Notices, Errors
  <2>2. (CASE m.t = "welcome"    -> HandleWelcome(p, L)
          [] m.t = "hosted"     -> HandleHosted(p, L, m.room)
          [] m.t = "joined"     -> HandleJoined(p, L, m.room, m.peer)
          [] m.t = "peer"       -> HandlePeerArrived(p, L, m.peer)
          [] m.t = "peerleft"   -> HandlePeerLeft(p, L, m.peer)
          [] m.t = "hostaway"   -> HandleHostAway(p, L)
          [] m.t = "hostback"   -> HandleHostBack(p, L, m.room)
          [] m.t = "roomclosed" -> HandleRoomClosed(p, L)
          [] m.t = "error"      -> HandleError(p, L, m.code))
    BY DEF DispatchControl
  <2> HIDE DEF q, m, t, L, c
  <2> QED BY <2>1, <2>2
<1>6. L.hosts = lobby.hosts /\ L.rooms = lobby.rooms /\ SameTables(lobby, L)
  BY <1>3 DEF Here, SameTables
<1>7. /\ DOMAIN t = 1 .. Len(q) - 1 /\ Len(q) \in Nat
      /\ \A i \in DOMAIN t : i + 1 \in DOMAIN q /\ t[i] = q[i + 1] /\ i + 1 # 1
  BY <1>1, <1>3, TailIs
<1> HIDE DEF L
<1>kinds. c \notin broken =>
            \A i \in DOMAIN q :
              /\ q[i].t \in {"welcome", "hosted", "error", "peer", "peerleft"}
              /\ q[i].t = "hosted" => q[i].room = lobby.hosts[c] /\ lobby.hosts[c] # NoRoom
              /\ q[i].t = "error" /\ me.role = "host" /\ me.token =>
                   q[i].code = "noroom" /\ me.reclaiming
  BY <1>1, <1>4 DEF HostHears
<1>quiet. ASSUME c \notin broken, Prompts(L, c) = {}
          PROVE  \A i \in DOMAIN t : t[i].t \in {"peer", "peerleft"}
  <2> SUFFICES ASSUME NEW i \in DOMAIN t PROVE t[i].t \in {"peer", "peerleft"} OBVIOUS
  <2>1. t[i].t \in {"welcome", "hosted", "error", "peer", "peerleft"}
    <3> HIDE DEF q, t, c, me
    <3> QED BY <1>7, <1>kinds, <1>quiet
  <2>2. t[i].t \notin {"welcome", "hosted", "error"} BY <1>3, <1>quiet DEF Prompts
  <2> QED BY <2>1, <2>2
\* Nothing is sent, and the page has nothing to believe.
<1>8. ASSUME NEW s, page' = [page EXCEPT ![p] = s], s.ws = c, lobby' = L, s.saved = me.saved,
             s.token => me.token, s.roomId \in {me.roomId, NoRoom},
             s.role = "host" => s.pending = "none",
             c \notin broken => Idle(L, c) /\ ~(s.role = "host" /\ s.token)
      PROVE  KInv'
  <2>1. ({s.saved} \cup IF s.token THEN {s.roomId} ELSE {}) \subseteq Known(me, lobby) \cup {NoRoom}
    BY <1>8 DEF Known
  <2>2. ASSUME c \notin broken PROVE HostHears(s, L, broken)
    <3>1. \A i \in DOMAIN t : t[i].t \in {"peer", "peerleft"} BY <1>8, <1>quiet, <2>2 DEF Idle
    <3> HIDE DEF t, c, me
    <3> QED BY <1>3, <1>8, <2>2, <3>1 DEF HostHears, Idle
  <2> QED BY <1>1, <1>2, <1>3, <1>8, <2>1, <2>2, HostActs
\* The page asks for a room, and is heard or not.
<1>9. ASSUME NEW s, page' = [page EXCEPT ![p] = s], s.ws = c, s.saved = me.saved,
             s.token => me.token, s.roomId \in {me.roomId, NoRoom},
             s.role = "host" => s.pending = "none",
             \/ Sent(p, L, Host(L, c)) /\ ~(s.role = "host" /\ s.token)
             \/ Sent(p, L, Reclaim(L, c, me.roomId)) /\ me.token /\ s.reclaiming,
             c \notin broken => Idle(L, c)
      PROVE  KInv'
  <2>1. ({s.saved} \cup IF s.token THEN {s.roomId} ELSE {}) \subseteq Known(me, lobby) \cup {NoRoom}
    BY <1>9 DEF Known
  <2>2. CASE c \in broken
    <3>1. lobby' = L BY <1>9, <2>2 DEF Sent, Reaches
    <3> QED BY <1>1, <1>2, <1>3, <1>9, <2>1, <2>2, <3>1, HostActs
  <2>3. CASE c \notin broken
    <3>1. Asks(s, me, L, lobby') BY <1>1, <1>9, <2>3 DEF Sent, Reaches, Asks
    <3> QED BY <1>1, <1>2, <1>3, <1>9, <2>1, <3>1, HostActs
  <2> QED BY <2>2, <2>3
<1>10. c \notin broken /\ m.t \in {"welcome", "error"} => Idle(L, c) BY <1>1, <1>2 DEF Reaches
<1>11. CASE m.t = "welcome" /\ HandleWelcome(p, L)
  <2> DEFINE s == [me EXCEPT !.connected = TRUE,
                             !.reclaiming = me.role = "host" /\ me.token]
  <2>1. page' = [page EXCEPT ![p] = s] /\ Sent(p, L, Reregister(p, L))
    BY <1>11 DEF HandleWelcome
  <2>2. /\ s.ws = c /\ s.role = me.role /\ s.pending = me.pending /\ s.token = me.token
        /\ s.roomId = me.roomId /\ s.saved = me.saved
        /\ s.reclaiming = (me.role = "host" /\ me.token)
    BY <1>4 DEF PageRecords
  <2>3. me.token \in BOOLEAN BY <1>4 DEF PageRecords
  <2> HIDE DEF s
  <2>4. CASE me.role = "host" /\ me.token
    <3>1. Reregister(p, L) = Reclaim(L, c, me.roomId) BY <2>4 DEF Reregister
    <3> QED BY <1>4, <1>9, <1>10, <1>11, <2>1, <2>2, <2>4, <3>1
  <2>5. CASE me.role = "host" /\ ~me.token
    <3>1. Reregister(p, L) = Host(L, c) BY <2>5 DEF Reregister
    <3> QED BY <1>4, <1>9, <1>10, <1>11, <2>1, <2>2, <2>5, <3>1
  <2>6. CASE me.role = "none"
    <3>1. Reregister(p, L) = L BY <2>6 DEF Reregister
    <3>2. lobby' = L BY <2>1, <3>1 DEF Sent
    <3> QED BY <1>8, <1>10, <1>11, <2>1, <2>2, <2>6, <3>2
  <2> QED BY <1>4, <2>3, <2>4, <2>5, <2>6 DEF HostPage
<1>12. CASE m.t = "hosted" /\ HandleHosted(p, L, m.room)
  <2> DEFINE s == [me EXCEPT !.role = "host", !.roomId = m.room, !.token = TRUE,
                             !.reclaiming = FALSE, !.pending = "none",
                             !.saved = IF me.pending = "none" THEN @ ELSE m.room]
  <2>1. page' = [page EXCEPT ![p] = s] /\ lobby' = L BY <1>12 DEF HandleHosted
  <2>2. /\ s.ws = c /\ s.role = "host" /\ s.pending = "none" /\ s.token /\ s.roomId = m.room
        /\ s.saved \in {me.saved, m.room} /\ s.peers = me.peers
    BY <1>4 DEF PageRecords
  <2> HIDE DEF s
  <2>3. ({s.saved} \cup IF s.token THEN {s.roomId} ELSE {}) \subseteq Known(me, lobby) \cup {NoRoom}
    <3>1. 1 \in Heard(lobby, c, "hosted") /\ Under(lobby, c)[1] = m
      BY <1>1, <1>3, <1>12 DEF Heard, Under
    <3>2. m.room \in Known(me, lobby) \cup {NoRoom} BY <3>1 DEF Known
    <3>3. me.saved \in Known(me, lobby) \cup {NoRoom} BY DEF Known
    <3> QED BY <2>2, <3>2, <3>3
  <2>4. ASSUME c \notin broken PROVE HostHears(s, L, broken)
    <3>1. m.room = lobby.hosts[c] /\ lobby.hosts[c] # NoRoom BY <1>3, <1>12, <1>kinds, <2>4
    <3>2. Prompts(L, c) = {}
      <4> SUFFICES ASSUME NEW i \in Prompts(L, c) PROVE FALSE OBVIOUS
      <4>1. Answered(lobby, c) BY <1>1, <1>4, <2>4 DEF HostAwaits
      <4>2. 1 \in Prompts(lobby, c) BY <1>3, <1>12 DEF Prompts
      <4>3. i \in DOMAIN t /\ t[i].t \in {"welcome", "hosted", "error"} BY <1>3 DEF Prompts
      <4>4. i + 1 \in Prompts(lobby, c) /\ i + 1 # 1 BY <1>7, <4>3 DEF Prompts
      <4> QED BY <4>1, <4>2, <4>4 DEF Answered
    <3>3. \A i \in DOMAIN t : t[i].t \in {"peer", "peerleft"} BY <1>quiet, <2>4, <3>2
    <3>4. ASSUME NEW g \in lobby.rooms[lobby.hosts[c]].joined \ broken
          PROVE  WillKnow(s, t, g)
      <4>1. WillKnow(me, q, g) BY <1>1, <1>4, <2>4, <3>1 DEF HostHears
      <4> HIDE DEF q
      <4> QED BY <1>1, <1>3, <1>12, <2>2, <4>1, WillKnowRest
    <3> HIDE DEF t, m, c, me
    <3> QED BY <1>3, <1>6, <2>2, <2>4, <3>1, <3>2, <3>3, <3>4 DEF HostHears
  <2> QED BY <1>1, <1>2, <1>3, <2>1, <2>2, <2>3, <2>4, HostActs
<1>13. ASSUME NEW peers, page' = [page EXCEPT ![p] = [me EXCEPT !.peers = peers]], lobby' = L,
              m.t \in {"peer", "peerleft"},
              \A g \in Conns : /\ me.peers[g] # 0 /\ ~(m.t = "peerleft" /\ m.peer = g) =>
                                 peers[g] # 0
                               /\ m.t = "peer" /\ m.peer = g => peers[g] # 0
       PROVE  KInv'
  <2> DEFINE s == [me EXCEPT !.peers = peers]
  <2>1. /\ s.ws = c /\ s.role = me.role /\ s.pending = me.pending /\ s.token = me.token
        /\ s.roomId = me.roomId /\ s.saved = me.saved /\ s.connected = me.connected
        /\ s.reclaiming = me.reclaiming /\ s.peers = peers /\ page' = [page EXCEPT ![p] = s]
    BY <1>4, <1>13 DEF PageRecords
  <2> HIDE DEF s
  <2>2. ({s.saved} \cup IF s.token THEN {s.roomId} ELSE {}) \subseteq Known(me, lobby) \cup {NoRoom}
    BY <2>1 DEF Known
  <2>3. ASSUME c \notin broken PROVE HostHears(s, L, broken)
    <3>1. \A g \in Conns : WillKnow(me, q, g) => WillKnow(s, t, g)
      <4> SUFFICES ASSUME NEW g \in Conns, WillKnow(me, q, g) PROVE WillKnow(s, t, g) OBVIOUS
      <4>1. me.peers[g] # 0 /\ ~(Head(q).t = "peerleft" /\ Head(q).peer = g) => s.peers[g] # 0
        BY <1>13, <2>1
      <4>2. Head(q).t = "peer" /\ Head(q).peer = g => s.peers[g] # 0 BY <1>13, <2>1
      <4> HIDE DEF q, me
      <4> QED BY <1>1, <1>3, <4>1, <4>2, WillKnowRest
    <3>2. q = lobby.down[me.ws] /\ me.ws \in Conns \ broken /\ L.down[me.ws] = Tail(q)
      BY <1>3, <1>4, <2>3
    <3>3. /\ s.ws = me.ws /\ Head(q).t \in {"peer", "peerleft"} /\ q # <<>>
          /\ lobby \in LobbyRecords /\ HostHears(me, lobby, broken)
      BY <1>1, <1>4, <1>13, <2>1
    <3>4. \A g \in Conns : WillKnow(me, q, g) => WillKnow(s, Tail(q), g) BY <3>1
    <3> HIDE DEF q, me, c
    <3> QED BY <1>6, <2>1, <3>2, <3>3, <3>4, HostNotes
  <2>4. s.role = "host" => s.pending = "none" BY <1>4, <2>1
  <2> QED BY <1>1, <1>2, <1>3, <1>13, <2>1, <2>2, <2>3, <2>4, HostActs
<1>14. me.peers \in [Conns -> 0 .. MaxConns] BY <1>4 DEF PageRecords
<1>15. CASE m.t = "peer" /\ HandlePeerArrived(p, L, m.peer)
  <2> DEFINE peers == EnsurePeer(me.peers, m.peer, 0)
  <2>1. page' = [page EXCEPT ![p] = [me EXCEPT !.peers = peers]] /\ lobby' = L
    BY <1>15 DEF HandlePeerArrived
  <2>2. \A g \in Conns : me.peers[g] # 0 \/ g = m.peer => peers[g] # 0
    BY <1>14, EnsurePeerKnows
  <2> HIDE DEF peers
  <2> QED BY <1>13, <1>15, <2>1, <2>2
<1>16. CASE m.t = "peerleft" /\ HandlePeerLeft(p, L, m.peer)
  <2> DEFINE peers == [me.peers EXCEPT ![m.peer] = 0]
  <2>1. page' = [page EXCEPT ![p] = [me EXCEPT !.peers = peers]] /\ lobby' = L
    BY <1>16 DEF HandlePeerLeft
  <2>2. \A g \in Conns : g # m.peer => peers[g] = me.peers[g] BY <1>14
  <2> HIDE DEF peers
  <2>3. m.t = "peerleft" BY <1>16
  <2>4. \A g \in Conns : /\ me.peers[g] # 0 /\ ~(m.t = "peerleft" /\ m.peer = g) => peers[g] # 0
                         /\ m.t = "peer" /\ m.peer = g => peers[g] # 0
    BY <2>2, <2>3
  <2>5. m.t \in {"peer", "peerleft"} BY <2>3
  <2> HIDE DEF m, me, L
  <2> QED BY <1>13, <2>1, <2>4, <2>5
<1>17. m.t \in {"hostaway", "hostback", "roomclosed"} => c \in broken
  BY <1>3, <1>kinds
<1>18. CASE m.t = "hostaway" /\ HandleHostAway(p, L)
  <2>1. me.role # "client" BY <1>4 DEF HostPage
  <2>2. page' = [page EXCEPT ![p] = me] /\ lobby' = L BY <1>1, <1>4, <1>18, <2>1 DEF HandleHostAway
  <2> QED BY <1>4, <1>8, <1>17, <1>18, <2>2
<1>19. CASE m.t = "hostback" /\ HandleHostBack(p, L, m.room)
  <2>1. me.role # "client" BY <1>4 DEF HostPage
  <2>2. page' = [page EXCEPT ![p] = me] /\ lobby' = L BY <1>1, <1>4, <1>19, <2>1 DEF HandleHostBack
  <2> QED BY <1>4, <1>8, <1>17, <1>19, <2>2
<1>20. CASE m.t = "roomclosed" /\ HandleRoomClosed(p, L)
  <2> DEFINE s == [me EXCEPT !.peers = NoPeers, !.role = "none", !.pending = "none",
                             !.roomId = NoRoom, !.hostPeerId = NoConn, !.over = TRUE]
  <2>1. page' = [page EXCEPT ![p] = s] /\ lobby' = L BY <1>20 DEF HandleRoomClosed
  <2>2. /\ s.ws = c /\ s.saved = me.saved /\ s.token = me.token /\ s.roomId = NoRoom
        /\ s.role = "none"
    BY <1>4 DEF PageRecords
  <2> HIDE DEF s
  <2> QED BY <1>8, <1>17, <1>20, <2>1, <2>2
<1>21. CASE m.t = "error" /\ HandleError(p, L, m.code)
  <2> DEFINE b == me.reclaiming /\ m.code # "noroom"
             old == [me EXCEPT !.reclaiming = b]
             unattended == /\ me.reclaiming /\ m.code = "noroom" /\ old.role = "host"
                           /\ old.pending \notin {"host", "reclaim"}
             again == [old EXCEPT !.token = FALSE]
             anew == [old EXCEPT !.pending = "host", !.roomId = NoRoom, !.token = FALSE]
             alone == [old EXCEPT !.pending = "none", !.over = TRUE]
             told == [old EXCEPT !.pending = "none"]
  <2>1. \/ /\ unattended
           /\ page' = [page EXCEPT ![p] = again] /\ Sent(p, L, Host(L, old.ws))
        \/ /\ old.pending = "reclaim"
           /\ page' = [page EXCEPT ![p] = anew] /\ Sent(p, L, Host(L, old.ws))
        \/ /\ old.pending = "host"
           /\ page' = [page EXCEPT ![p] = alone] /\ lobby' = L
        \/ /\ ~unattended /\ old.pending \notin {"host", "reclaim"}
           /\ page' = [page EXCEPT ![p] = told] /\ lobby' = L
    BY <1>21 DEF HandleError
  <2>2. /\ old.ws = c /\ old.role = me.role /\ old.pending = me.pending /\ old.token = me.token
        /\ old.roomId = me.roomId /\ old.saved = me.saved /\ old \in PageRecords
    <3>1. b \in BOOLEAN BY <1>4 DEF PageRecords
    <3> HIDE DEF b
    <3> QED BY <1>4, <3>1 DEF PageRecords
  <2>3. /\ again.ws = c /\ again.role = me.role /\ again.pending = me.pending /\ ~again.token
        /\ again.roomId = me.roomId /\ again.saved = me.saved
        /\ anew.ws = c /\ anew.role = me.role /\ ~anew.token
        /\ anew.roomId = NoRoom /\ anew.saved = me.saved
        /\ alone.ws = c /\ alone.role = me.role /\ alone.token = me.token
        /\ alone.roomId = me.roomId /\ alone.saved = me.saved /\ alone.pending = "none"
        /\ told.ws = c /\ told.role = me.role /\ told.token = me.token
        /\ told.roomId = me.roomId /\ told.saved = me.saved /\ told.pending = "none"
    <3> HIDE DEF old, me
    <3> QED BY <2>2 DEF PageRecords
  <2>4. c \notin broken => Idle(L, c) BY <1>10, <1>21
  <2>5. c \notin broken /\ me.role = "host" /\ me.token => m.code = "noroom" /\ me.reclaiming
    BY <1>3, <1>21, <1>kinds
  <2>6. unattended => me.role = "host" BY <2>2
  <2>7. c \notin broken /\ me.role = "host" /\ me.token => unattended \/ me.pending # "none"
    BY <2>2, <2>5
  <2> HIDE DEF old, again, anew, alone, told, unattended
  <2>8. CASE unattended /\ page' = [page EXCEPT ![p] = again] /\ Sent(p, L, Host(L, old.ws))
    BY <1>4, <1>9, <2>2, <2>3, <2>4, <2>8
  <2>9. CASE /\ old.pending = "reclaim"
             /\ page' = [page EXCEPT ![p] = anew] /\ Sent(p, L, Host(L, old.ws))
    <3>1. me.role # "host" BY <1>4, <2>2, <2>9
    <3> QED BY <1>9, <2>2, <2>3, <2>4, <2>9, <3>1
  <2>10. CASE old.pending = "host" /\ page' = [page EXCEPT ![p] = alone] /\ lobby' = L
    <3>1. me.role # "host" BY <1>4, <2>2, <2>10
    <3> QED BY <1>8, <2>3, <2>4, <2>10, <3>1
  <2>11. CASE /\ ~unattended /\ old.pending \notin {"host", "reclaim"}
              /\ page' = [page EXCEPT ![p] = told] /\ lobby' = L
    BY <1>4, <1>8, <2>3, <2>4, <2>7, <2>11
  <2> QED BY <2>1, <2>8, <2>9, <2>10, <2>11
<1> QED BY <1>5, <1>11, <1>12, <1>15, <1>16, <1>18, <1>19, <1>20, <1>21

----------------------------------------------------------------------------
(* The other steps.                                                        *)

\* A page that acts of its own accord finds the lobby as it is.
LEMMA HereNow ==
  ASSUME IInv, NEW p \in Pages, page[p].ws # NoConn
  PROVE  Here(p, lobby) /\ Before(p, lobby)
<1>1. Here(p, lobby) BY DEF Here, SameTables
<1>2. Before(p, lobby) BY Numbering DEF Before, IInv, PageRecords, Kept, Calm, PageSound
<1> QED BY <1>1, <1>2

\* A page opens a room.
LEMMA HostGameKnows ==
  ASSUME IInv, KInv, NEW p \in Hosts, HostGame(p)
  PROVE  KInv'
<1> DEFINE me == page[p]
           c == page[p].ws
           s == [me EXCEPT !.pending = "host"]
           z == [me EXCEPT !.pending = "reclaim", !.roomId = me.saved, !.token = TRUE]
<1>1. /\ me \in PageRecords /\ p \in Pages /\ HostAwaits(me, lobby, broken)
      /\ page \in [Pages -> PageRecords]
  BY DEF IInv, Pages, PageSound
<1>2. /\ me.connected /\ me.role = "none" /\ me.pending = "none" /\ ~me.over
      /\ broken' = broken
      /\ \/ page' = [page EXCEPT ![p] = s] /\ Sent(p, lobby, Host(lobby, c))
         \/ page' = [page EXCEPT ![p] = z] /\ Sent(p, lobby, Reclaim(lobby, c, me.saved))
  BY DEF HostGame
<1>3. c # NoConn BY <1>1, <1>2 DEF HostAwaits
<1>4. /\ s.ws = c /\ s.role = "none" /\ s.saved = me.saved /\ s.token = me.token
      /\ s.roomId = me.roomId
      /\ z.ws = c /\ z.role = "none" /\ z.saved = me.saved /\ z.roomId = me.saved
  BY <1>1, <1>2 DEF PageRecords
<1>5. Here(p, lobby) /\ Before(p, lobby) BY <1>1, <1>3, HereNow
<1> HIDE DEF s, z
<1>6. ASSUME NEW x \in {s, z}
      PROVE  /\ x.ws = c /\ x.role # "host"
             /\ ({x.saved} \cup IF x.token THEN {x.roomId} ELSE {})
                  \subseteq Known(me, lobby) \cup {NoRoom}
  BY <1>4 DEF Known
<1>7. CASE c \in broken
  <2>1. lobby' = lobby BY <1>2, <1>7 DEF Sent, Reaches
  <2> QED BY <1>2, <1>5, <1>6, <1>7, <2>1, HostActs
<1>8. CASE c \notin broken
  <2>1. Idle(lobby, c) BY <1>1, <1>2, <1>3, <1>8 DEF HostAwaits
  <2>2. ASSUME NEW x \in {s, z}, page' = [page EXCEPT ![p] = x],
               lobby' = Host(lobby, c) \/ lobby' = Reclaim(lobby, c, me.saved)
        PROVE  KInv'
    <3>1. Asks(x, me, lobby, lobby') BY <1>6, <1>8, <2>1, <2>2 DEF Asks
    <3> QED BY <1>2, <1>5, <1>6, <2>2, <3>1, HostActs
  <2> QED BY <1>2, <1>3, <1>8, <2>2 DEF Sent, Reaches
<1> QED BY <1>7, <1>8

\* A page joins a room.
LEMMA JoinGameKnows ==
  ASSUME IInv, KInv, NEW p \in Guests, NEW r \in RoomIds, JoinGame(p, r)
  PROVE  KInv'
<1> DEFINE me == page[p]
           c == page[p].ws
           s == [me EXCEPT !.pending = "join"]
<1>1. /\ me \in PageRecords /\ p \in Pages /\ GuestHears(me, lobby, broken)
      /\ page \in [Pages -> PageRecords]
  BY DEF IInv, KInv, Pages, PageSound
<1>2. /\ me.connected /\ me.role = "none" /\ me.pending = "none" /\ ~me.over
      /\ broken' = broken
      /\ page' = [page EXCEPT ![p] = s] /\ Sent(p, lobby, Join(lobby, c, r))
  BY DEF JoinGame
<1>3. c # NoConn BY <1>1, <1>2 DEF GuestHears
<1>4. s.ws = c /\ s.pending = "join" /\ s.hostPeerId = me.hostPeerId BY <1>1 DEF PageRecords
<1>5. Here(p, lobby) /\ Before(p, lobby) BY <1>1, <1>3, HereNow
<1>6. s.hostPeerId \in Hosters(me, lobby) \cup {NoConn} BY <1>4 DEF Hosters
<1> HIDE DEF s
<1>7. CASE c \in broken
  <2>1. lobby' = lobby BY <1>2, <1>7 DEF Sent, Reaches
  <2> QED BY <1>2, <1>4, <1>5, <1>6, <1>7, <2>1, GuestActs
<1>8. CASE c \notin broken
  <2>1. lobby.down[c] = <<>> /\ lobby.joinedIn[c] = NoRoom
    BY <1>1, <1>2, <1>3, <1>8 DEF GuestHears
  <2>2. lobby' = Join(lobby, c, r) BY <1>2, <1>3, <1>8 DEF Sent, Reaches
  <2> QED BY <1>2, <1>4, <1>5, <1>6, <1>8, <2>1, <2>2, GuestActs
<1> QED BY <1>7, <1>8

\* The lobby stays as it is, and pages but p do.
LEMMA OnlyPage ==
  ASSUME IInv, NEW P, NEW B, broken \subseteq B
  PROVE  OthersSpared(P, lobby, lobby, B)
<1>1. \A d : /\ GuestStep(lobby, lobby, d) /\ HostStep(lobby, lobby, d, B)
             /\ Quietly(lobby, lobby, {d})
  BY DEF GuestStep, HostStep, Quietly
<1> QED BY <1>1 DEF OthersSpared

\* A page that has no connection any more keeps what is known.
LEMMA PageLeaves ==
  ASSUME IInv, KInv, NEW p \in Pages, NEW s, page' = [page EXCEPT ![p] = s],
         s.ws = NoConn, ~s.connected, s.role = "host" => s.pending = "none",
         s.hostPeerId \in {page[p].hostPeerId, NoConn},
         s.saved \in {page[p].saved, NoRoom},
         s.token => page[p].token /\ s.roomId = page[p].roomId,
         OthersSpared({p}, lobby, lobby', broken'), broken \subseteq broken',
         lobby'.created = lobby.created, lobby'.counter = lobby.counter
  PROVE  KInv'
<1>1. page'[p] = s /\ \A q \in Pages \ {p} : page'[q] = page[q] BY DEF IInv
<1>2. GuestHears(s, lobby', broken') /\ HostHears(s, lobby', broken') BY DEF GuestHears, HostHears
<1>3. Under(lobby', s.ws) = <<>> /\ DOMAIN <<>> = {} BY DEF Under
<1>4. Hosters(s, lobby') \subseteq Hosters(page[p], lobby) BY <1>3 DEF Hosters, Heard
<1>5. Known(s, lobby') \subseteq Known(page[p], lobby) BY <1>3 DEF Known, Heard
<1>6. /\ lobby'.created \in Nat /\ lobby'.created >= lobby.created
      /\ lobby'.counter \in Nat /\ lobby'.counter >= lobby.counter
  BY LobbyFields DEF IInv, Sound
<1>7. {p} \in SUBSET Pages OBVIOUS
<1> HIDE DEF KInv, IInv
<1> QED BY <1>1, <1>2, <1>4, <1>5, <1>6, <1>7, KnowledgeKept

\* A page learns that its connection is closed.
LEMMA OnLobbyClosedKnows ==
  ASSUME IInv, KInv, NEW p \in Pages, OnLobbyClosed(p)
  PROVE  KInv'
<1> DEFINE me == page[p]
           s == [me EXCEPT !.ws = NoConn, !.connected = FALSE]
<1>1. me \in PageRecords BY DEF IInv
<1>2. page' = [page EXCEPT ![p] = s] /\ UNCHANGED <<lobby, broken>> BY DEF OnLobbyClosed
<1>3. /\ s.ws = NoConn /\ ~s.connected /\ s.role = me.role /\ s.pending = me.pending
      /\ s.hostPeerId = me.hostPeerId /\ s.saved = me.saved /\ s.token = me.token
      /\ s.roomId = me.roomId
  BY <1>1 DEF PageRecords
<1>4. me.role = "host" => me.pending = "none"
  BY DEF IInv, KInv, Pages, PageSound, GuestPage, HostHears
<1>5. OthersSpared({p}, lobby, lobby', broken') BY <1>2, OnlyPage
<1> HIDE DEF s
<1> QED BY <1>2, <1>3, <1>4, <1>5, PageLeaves

\* A page that is gone starts anew.
LEMMA ClosedKnows ==
  ASSUME IInv, KInv, NEW p \in Pages, NEW saved \in {page[p].saved, NoRoom}, Closed(p, saved),
         OthersSpared({p}, lobby, lobby', broken'),
         lobby'.created = lobby.created, lobby'.counter = lobby.counter
  PROVE  KInv'
<1> DEFINE s == FreshPage(saved)
<1>1. page' = [page EXCEPT ![p] = s] /\ broken \subseteq broken' BY DEF Closed
<1>2. /\ s.ws = NoConn /\ ~s.connected /\ s.role = "none" /\ s.hostPeerId = NoConn
      /\ s.saved = saved /\ ~s.token
  BY DEF FreshPage
<1> HIDE DEF s
<1> QED BY <1>1, <1>2, PageLeaves

\* A page is loaded again.
LEMMA ReloadKnows ==
  ASSUME IInv, KInv, NEW p \in Pages, Reload(p)
  PROVE  KInv'
<1>1. Closed(p, page[p].saved) /\ lobby' = lobby BY DEF Reload
<1>2. broken \subseteq broken' BY <1>1 DEF Closed
<1>3. OthersSpared({p}, lobby, lobby', broken') BY <1>1, <1>2, OnlyPage
<1> QED BY <1>1, <1>3, ClosedKnows

\* A page leaves its room: "unhost" ends that, and "bye" is told its host, who is no guest.
LEMMA LeaveGameKnows ==
  ASSUME IInv, KInv, NEW p \in Pages, LeaveGame(p)
  PROVE  KInv'
<1> DEFINE me == page[p]
           c == page[p].ws
<1>1. Closed(p, NoRoom) /\ me.role # "none" BY DEF LeaveGame
<1>2. broken \subseteq broken' /\ (c # NoConn => c \in broken') BY <1>1 DEF Closed
<1>3. /\ lobby \in LobbyRecords /\ Sound(lobby, broken, {}) /\ c \in Conns \cup {NoConn}
      /\ p \in Hosts => HostPage(me, lobby)
      /\ p \in Guests => GuestPage(me, lobby)
  BY Numbering DEF IInv, Sound, PageSound, PageRecords
<1>4. CASE lobby' = lobby
  <2>1. OthersSpared({p}, lobby, lobby', broken') BY <1>2, <1>4, OnlyPage
  <2> QED BY <1>1, <1>4, <2>1, ClosedKnows
<1>5. CASE Reaches(p) /\ me.role = "host" /\ lobby' = Unhost(lobby, c)
  <2>1. c \in Conns /\ c # NoConn /\ p \in Hosts /\ HostLike(lobby, c)
    BY <1>3, <1>5 DEF Reaches, Pages, GuestPage, HostPage
  <2>2. /\ lobby'.counter = lobby.counter /\ lobby'.created = lobby.created
        /\ \A d \in Conns : lobby'.hosts[d] = IF d = c THEN NoRoom ELSE lobby.hosts[d]
        /\ IF lobby.hosts[c] = NoRoom THEN lobby' = lobby
           ELSE Closes(lobby, lobby', lobby.hosts[c])
    <3> HIDE DEF c
    <3> QED BY <1>3, <1>5, <2>1, UnhostHolds DEF Served
  <2>3. CASE lobby' = lobby BY <1>4, <2>3
  <2>4. CASE lobby.hosts[c] # NoRoom /\ Closes(lobby, lobby', lobby.hosts[c])
    <3> DEFINE r == lobby.hosts[c]
               D == Conns \ {c}
    <3>1. r \in RoomIds BY <1>3, <2>1, <2>4, LobbyFields, Numbering
    <3>2. \A d \in D : lobby.hosts[d] # r /\ lobby'.hosts[d] = lobby.hosts[d]
      BY <1>3, <2>1, <2>2, <2>4 DEF Sound, Hosting
    <3>3. Spares(lobby, lobby', broken', D)
      <4> HIDE DEF r, c
      <4> QED BY <1>2, <1>3, <2>4, <3>1, <3>2, ClosesSpares DEF r
    <3>4. \A q \in Pages \ {p} : page[q].ws # NoConn => page[q].ws \in D
      BY <2>1, OtherConnections
    <3>5. OthersSpared({p}, lobby, lobby', broken')
      <4> HIDE DEF D
      <4> QED BY <1>2, <3>3, <3>4, OthersAreSpared DEF Spares, Pages
    <3> QED BY <1>1, <2>2, <3>5, ClosedKnows
  <2> QED BY <2>2, <2>3, <2>4
<1>6. CASE /\ Reaches(p) /\ me.role # "host" /\ me.hostPeerId # NoConn
           /\ lobby' = Bye(lobby, c, me.hostPeerId)
  <2> DEFINE to == me.hostPeerId
  <2>1. c \in Conns /\ c # NoConn /\ p \in Guests /\ GuestLike(lobby, c) /\ c \in broken'
    BY <1>1, <1>2, <1>3, <1>6 DEF Reaches, Pages, GuestPage, HostPage
  <2>2. Sound(lobby, broken', {}) BY <1>2, <1>3, MoreBroken
  <2>3. /\ lobby'.counter = lobby.counter /\ lobby'.created = lobby.created
        /\ lobby'.rooms = lobby.rooms /\ lobby'.hosts = lobby.hosts
        /\ lobby'.joinedIn = lobby.joinedIn /\ Told(lobby, lobby', {to}, Msg("peerleft", 0, c))
    <3> HIDE DEF c, to
    <3>1. lobby' = Bye(lobby, c, to) BY <1>6 DEF to
    <3>2. /\ GuestServed(lobby, lobby', broken', c) /\ lobby'.created = lobby.created
          /\ lobby'.rooms = lobby.rooms /\ lobby'.hosts = lobby.hosts
          /\ lobby'.joinedIn = lobby.joinedIn /\ Told(lobby, lobby', {to}, Msg("peerleft", 0, c))
      BY <2>1, <2>2, <3>1, ByeHolds
    <3>3. lobby'.counter = lobby.counter BY <3>2 DEF GuestServed, Served
    <3> QED BY <3>2, <3>3
  <2>4. /\ GuestsSpared(lobby, lobby', broken', Conns \ {to})
        /\ HostsSpared(lobby, lobby', broken', Conns) /\ Quietly(lobby, lobby', Conns)
    <3> HIDE DEF c, to
    <3> QED BY <1>2, <1>3, <2>1, <2>3, ByeSpares
  <2>5. \A q \in Guests \ {p} : page[q].ws # to
    <3>1. to \in Hosters(me, lobby) BY <1>6 DEF Hosters
    <3> QED BY <2>1, <3>1 DEF KInv
  <2>6. \A q \in Pages \ {p} : page[q].ws # NoConn => page[q].ws \in Conns
    BY <2>1, OtherConnections
  <2>7. OthersSpared({p}, lobby, lobby', broken')
    <3>1. \A q \in Guests \ {p} : page[q].ws \notin broken' \cup {NoConn} =>
                                 page[q].ws \in Conns \ {to}
      BY <2>5, <2>6 DEF Pages
    <3>2. \A q \in Hosts \ {p} : page[q].ws \notin broken' \cup {NoConn} => page[q].ws \in Conns
      BY <2>6 DEF Pages
    <3> HIDE DEF to
    <3> QED BY <1>2, <2>4, <2>6, <3>1, <3>2, OthersAreSpared
  <2> QED BY <1>1, <2>3, <2>7, ClosedKnows
<1>7. \/ lobby' = lobby
      \/ Reaches(p) /\ me.role = "host" /\ lobby' = Unhost(lobby, c)
      \/ /\ Reaches(p) /\ me.role # "host" /\ me.hostPeerId # NoConn
         /\ lobby' = Bye(lobby, c, me.hostPeerId)
  BY DEF LeaveGame, Sent
<1> QED BY <1>4, <1>5, <1>6, <1>7

\* The lobby does something on its own, and pages are spared it.
LEMMA LobbyKnows ==
  ASSUME IInv, KInv, UNCHANGED page, broken \subseteq broken',
         OthersSpared({}, lobby, lobby', broken'),
         lobby'.created = lobby.created, lobby'.counter = lobby.counter
  PROVE  KInv'
<1>1. /\ lobby'.created \in Nat /\ lobby'.created >= lobby.created
      /\ lobby'.counter \in Nat /\ lobby'.counter >= lobby.counter
  BY LobbyFields DEF IInv, Sound
<1> DEFINE P == {}
<1>2. /\ P \in SUBSET Pages /\ \A p, q \in P : p = q
      /\ OthersSpared(P, lobby, lobby', broken')
      /\ \A q \in Pages \ P : page'[q] = page[q]
      /\ P \cap Guests = {} /\ P \cap Hosts = {}
  OBVIOUS
<1> HIDE DEF P, KInv, IInv
<1> QED BY <1>1, <1>2, KnowledgeKept

\* A page connects: it is in no room, and nobody knew of the connection.
LEMMA ConnectKnows ==
  ASSUME IInv, KInv, NEW p \in Pages, Connect(p)
  PROVE  KInv'
<1> DEFINE me == page[p]
           c == lobby.counter + 1
           s == [me EXCEPT !.ws = c]
<1>1. /\ me.ws = NoConn /\ c \in Conns /\ lobby' = OnConnection(lobby, c)
      /\ page' = [page EXCEPT ![p] = s] /\ UNCHANGED broken
  BY DEF Connect
<1>2. /\ lobby'.counter = c /\ lobby'.rooms = lobby.rooms /\ lobby'.created = lobby.created
      /\ lobby'.hosts = lobby.hosts /\ lobby'.joinedIn = lobby.joinedIn
      /\ lobby.hosts[c] = NoRoom /\ lobby.joinedIn[c] = NoRoom
      /\ \A d \in Conns \ {c} : lobby'.down[d] = lobby.down[d]
      /\ lobby'.down[c] \in {<<>>, <<Msg("welcome", 0, c)>>}
  <2>1. /\ Sound(lobby, broken, {}) /\ c = lobby.counter + 1 /\ c \in Conns
        /\ lobby' = OnConnection(lobby, c)
    BY <1>1 DEF IInv
  <2> HIDE DEF c
  <2>2. Arrives(lobby, lobby', c) /\ lobby'.counter = c BY <2>1, OnConnectionHolds
  <2> QED BY <2>2 DEF Arrives
<1>3. /\ lobby.counter \in Nat /\ lobby.created \in Nat /\ c \in Nat /\ c > lobby.counter
      /\ c # NoConn
  BY <1>1, LobbyFields, Numbering DEF IInv, Sound
<1>4. \A q \in Pages : page[q].ws \in Conns \cup {NoConn} /\ page[q].ws <= lobby.counter
  BY Numbering DEF IInv, PageSound, PageRecords
<1>5. \A q \in Pages : page[q].ws # NoConn => page[q].ws \in Conns \ {c}
  <2>1. ASSUME NEW q \in Pages PROVE page[q].ws # c
    <3>1. page[q].ws \in Nat BY <1>4, Numbering
    <3> QED BY <1>3, <1>4, <3>1 DEF c
  <2> QED BY <1>4, <2>1
<1>6. me \in PageRecords BY DEF IInv
<1>7. page' = [page EXCEPT ![p] = s] /\ page \in [Pages -> PageRecords] BY <1>1 DEF IInv
<1> HIDE DEF c
<1>8. /\ s.ws = c /\ s.connected = me.connected /\ s.role = me.role /\ s.pending = me.pending
      /\ s.hostPeerId = me.hostPeerId /\ s.saved = me.saved /\ s.token = me.token
      /\ s.roomId = me.roomId
  BY <1>6 DEF PageRecords
<1> HIDE DEF s
<1>9. OthersSpared({p}, lobby, lobby', broken')
  <2> DEFINE D == Conns \ {c}
  <2>1. Spares(lobby, lobby', broken', D) BY <1>2, SameSpares
  <2>2. \A q \in Pages \ {p} : page[q].ws # NoConn => page[q].ws \in D BY <1>5
  <2>3. broken \subseteq broken' BY <1>1
  <2> HIDE DEF D
  <2> QED BY <2>1, <2>2, <2>3, OthersAreSpared DEF Spares, Pages
<1>10. \A i \in DOMAIN lobby'.down[c] : lobby'.down[c][i].t = "welcome" /\ i = Len(lobby'.down[c])
  <2>1. CASE lobby'.down[c] = <<>> BY <2>1
  <2>2. CASE lobby'.down[c] = <<Msg("welcome", 0, c)>> BY <2>2 DEF Msg
  <2> QED BY <1>2, <2>1, <2>2
<1>11. ASSUME p \in Guests
       PROVE  /\ GuestHears(s, lobby', broken')
              /\ Hosters(s, lobby') \subseteq Hosters(me, lobby)
  <2>1. ~s.connected BY <1>1, <1>8, <1>11 DEF KInv, GuestHears
  <2>2. GuestHears(s, lobby', broken')
    BY <1>2, <1>3, <1>8, <1>10, <2>1 DEF GuestHears, Finals
  <2>3. Heard(lobby', s.ws, "joined") = {} BY <1>3, <1>8, <1>10 DEF Heard, Under
  <2> QED BY <1>8, <2>2, <2>3 DEF Hosters
<1>12. ASSUME p \in Hosts
       PROVE  /\ HostHears(s, lobby', broken')
              /\ Known(s, lobby') \subseteq Known(me, lobby)
  <2>1. ~s.connected /\ (s.role = "host" => s.pending = "none")
    <3>1. HostAwaits(me, lobby, broken) BY <1>12 DEF IInv, PageSound, Pages
    <3>2. HostHears(me, lobby, broken) BY <1>12 DEF KInv
    <3>3. me.ws = NoConn BY <1>1
    <3> HIDE DEF me
    <3>4. ~me.connected BY <3>1, <3>3 DEF HostAwaits
    <3>5. me.role = "host" => me.pending = "none" BY <3>2 DEF HostHears
    <3> QED BY <1>8, <3>4, <3>5
  <2>2. HostHears(s, lobby', broken')
    BY <1>2, <1>3, <1>8, <1>10, <2>1 DEF HostHears
  <2>3. Heard(lobby', s.ws, "hosted") = {} BY <1>3, <1>8, <1>10 DEF Heard, Under
  <2> QED BY <1>8, <2>2, <2>3 DEF Known
<1>13. page'[p] = s /\ \A q \in Pages \ {p} : page'[q] = page[q] BY <1>7
<1>14. /\ lobby'.created \in Nat /\ lobby'.created >= lobby.created
       /\ lobby'.counter \in Nat /\ lobby'.counter >= lobby.counter
       /\ broken \subseteq broken' /\ page'[p].ws > lobby.counter
  BY <1>1, <1>2, <1>3, <1>8, <1>13
<1>15. {p} \in SUBSET Pages OBVIOUS
<1> HIDE DEF KInv, IInv
<1> QED BY <1>9, <1>11, <1>12, <1>13, <1>14, <1>15, KnowledgeKept

\* A connection breaks.
LEMMA BreakKnows ==
  ASSUME IInv, KInv, NEW c \in Conns, Break(c)
  PROVE  KInv'
<1>1. broken \subseteq broken' /\ UNCHANGED <<lobby, page>> BY DEF Break
<1>2. OthersSpared({}, lobby, lobby', broken') BY <1>1, OnlyPage
<1> QED BY <1>1, <1>2, LobbyKnows

\* The lobby learns that a connection is broken.
LEMMA CleanupKnows ==
  ASSUME IInv, KInv, NEW c \in Conns, Cleanup(c)
  PROVE  KInv'
<1>1. /\ c \in lobby.peers \cap broken /\ lobby' = CleanupConnection(lobby, c)
      /\ UNCHANGED <<broken, page>>
  BY DEF Cleanup
<1>2. PICK A : Sound(A, broken, {c}) /\ Ends(lobby, A, lobby', c)
  BY <1>1, CleanupConnectionHolds DEF IInv
<1>3. lobby'.counter = lobby.counter BY <1>1, CleanupConnectionHolds DEF IInv
<1>4. lobby'.created = lobby.created BY <1>2 DEF Ends
<1>5. Spares(lobby, lobby', broken', Conns \ {c}) /\ Quietly(lobby, lobby', Conns)
  BY <1>1, <1>2, EndsSpares
<1>6. \A q \in Pages : /\ page[q].ws # NoConn => page[q].ws \in Conns
                       /\ page[q].ws \notin broken' \cup {NoConn} => page[q].ws \in Conns \ {c}
  BY <1>1, Numbering DEF IInv, PageRecords
<1>7. OthersSpared({}, lobby, lobby', broken')
  BY <1>1, <1>5, <1>6, OthersAreSpared DEF Spares, Pages
<1> QED BY <1>1, <1>3, <1>4, <1>7, LobbyKnows

\* The time of a room without its host is over.
LEMMA RoomTimerKnows ==
  ASSUME IInv, KInv, NEW r \in RoomIds, RoomTimer(r)
  PROVE  KInv'
<1>1. /\ lobby.rooms[r].timer /\ lobby' = ReclaimTimer(lobby, r)
      /\ UNCHANGED <<broken, page>> /\ Sound(lobby, broken, {})
  BY DEF RoomTimer, IInv
<1>2. /\ lobby'.counter = lobby.counter /\ lobby'.created = lobby.created
      /\ lobby'.hosts = lobby.hosts /\ Closes(lobby, lobby', r)
  BY <1>1, ReclaimTimerHolds
<1>3. \A d \in Conns : lobby.hosts[d] # r
  <2>1. lobby.rooms[r].open BY <1>1, GoneType DEF Sound, RoomsSound
  <2>2. lobby.rooms[r].host = NoConn BY <1>1, <2>1 DEF Sound, RoomsSound
  <2> QED BY <1>1, <2>2, Numbering DEF Sound, Hosting
<1>4. Spares(lobby, lobby', broken', Conns) BY <1>1, <1>2, <1>3, ClosesSpares
<1>5. \A q \in Pages : page[q].ws # NoConn => page[q].ws \in Conns
  BY Numbering DEF IInv, PageRecords
<1>6. OthersSpared({}, lobby, lobby', broken')
  BY <1>1, <1>4, <1>5, OthersAreSpared DEF Spares, Pages
<1> QED BY <1>1, <1>2, <1>6, LobbyKnows

\* Pages know nothing at first, and nothing of that is wrong.
LEMMA InitKnows ==
  ASSUME Init
  PROVE  KInv
<1> DEFINE s == FreshPage(NoRoom)
<1>1. \A p \in Pages : page[p] = s BY DEF Init
<1>2. /\ s.ws = NoConn /\ ~s.connected /\ s.role = "none" /\ s.hostPeerId = NoConn
      /\ s.saved = NoRoom /\ ~s.token
  BY DEF FreshPage
<1> HIDE DEF s
<1>3. GuestHears(s, lobby, broken) /\ HostHears(s, lobby, broken) BY <1>2 DEF GuestHears, HostHears
<1>4. Under(lobby, s.ws) = <<>> /\ DOMAIN <<>> = {} BY <1>2 DEF Under
<1>5. Hosters(s, lobby) = {} /\ Known(s, lobby) = {} BY <1>2, <1>4 DEF Hosters, Known, Heard
<1> QED BY <1>1, <1>3, <1>5 DEF KInv, Pages

\* Every step keeps what pages know.
LEMMA NextKnows ==
  ASSUME IInv, KInv, [Next]_vars
  PROVE  KInv'
<1>1. CASE UNCHANGED vars
  <2>1. UNCHANGED <<page, lobby, broken>> BY <1>1 DEF vars
  <2>2. OthersSpared({}, lobby, lobby', broken') BY <2>1, OnlyPage
  <2> QED BY <2>1, <2>2, LobbyKnows
<1>2. ASSUME NEW p \in Pages, DispatchControl(p) PROVE KInv'
  BY <1>2, GuestDispatch, HostDispatch DEF Pages
<1>3. ASSUME NEW p \in Pages, Connect(p) \/ OnLobbyClosed(p) \/ LeaveGame(p) \/ Reload(p)
      PROVE  KInv'
  BY <1>3, ConnectKnows, OnLobbyClosedKnows, LeaveGameKnows, ReloadKnows
<1>4. ASSUME NEW p \in Hosts, HostGame(p) PROVE KInv' BY <1>4, HostGameKnows
<1>5. ASSUME NEW p \in Guests, NEW r \in RoomIds, JoinGame(p, r) PROVE KInv'
  BY <1>5, JoinGameKnows
<1>6. ASSUME NEW c \in Conns, Break(c) \/ Cleanup(c) PROVE KInv' BY <1>6, BreakKnows, CleanupKnows
<1>7. ASSUME NEW r \in RoomIds, RoomTimer(r) PROVE KInv' BY <1>7, RoomTimerKnows
<1> QED BY <1>1, <1>2, <1>3, <1>4, <1>5, <1>6, <1>7 DEF Next

\* When nothing is under way to a page, what it believes of its room is what the handlers
\* of lobby.js have made of it: etl-p2p.js has been told of everything that happened there.
THEOREM PagesAgree == Spec => []PagesKnow
<1>1. ASSUME IInv, KInv PROVE PagesKnow
  <2> SUFFICES ASSUME NEW p \in Pages, Quiet(p)
               PROVE  LET me == page[p]
                          r == lobby.joinedIn[me.ws]
                      IN  /\ me.role = "host" =>
                               /\ lobby.hosts[me.ws] = IF me.token THEN me.roomId ELSE NoRoom
                               /\ me.token => \A c \in lobby.rooms[me.roomId].joined \ broken :
                                                me.peers[c] # 0
                          /\ me.role = "client" /\ r # NoRoom =>
                               /\ r = me.roomId /\ me.hostPeerId = lobby.rooms[r].host
                               /\ me.hostPeerId # NoConn => me.peers[me.hostPeerId] # 0
    BY DEF PagesKnow
  <2> DEFINE s == page[p]
             q == lobby.down[s.ws]
  <2>1. /\ s.connected /\ s.ws # NoConn /\ s.ws \notin broken /\ q = <<>>
        /\ DOMAIN q = {}
    BY DEF Quiet, Reaches
  <2>2. /\ p \in Hosts => HostPage(s, lobby) /\ HostHears(s, lobby, broken)
        /\ p \in Guests => GuestPage(s, lobby) /\ GuestHears(s, lobby, broken)
    BY <1>1 DEF IInv, KInv, PageSound
  <2>3. CASE p \in Hosts
    <3> DEFINE r == lobby.hosts[s.ws]
    <3>1. s.role # "client" BY <2>2, <2>3 DEF HostPage
    <3>2. Prompts(lobby, s.ws) = {} BY <2>1 DEF Prompts
    <3>3. /\ r # NoRoom => s.role = "host" /\ s.token /\ s.roomId = r
          /\ s.role = "host" /\ s.token => r = s.roomId /\ r # NoRoom
          /\ r # NoRoom => \A g \in lobby.rooms[r].joined \ broken : WillKnow(s, q, g)
      BY <2>1, <2>2, <2>3, <3>2 DEF HostHears
    <3>4. \A g : WillKnow(s, q, g) => s.peers[g] # 0 BY <2>1 DEF WillKnow
    <3> QED BY <3>1, <3>3, <3>4
  <2>4. CASE p \in Guests
    <3> DEFINE r == lobby.joinedIn[s.ws]
    <3>1. s.role # "host" BY <2>2, <2>4 DEF GuestPage
    <3>2. r # NoRoom => Believes(s, lobby, q, r) BY <2>1, <2>2, <2>4 DEF GuestHears
    <3>3. ~Joins(q) /\ ~Away(q) BY <2>1 DEF Joins, Away
    <3> QED BY <3>1, <3>2, <3>3 DEF Believes
  <2> QED BY <2>3, <2>4 DEF Pages
<1>2. Init => IInv /\ KInv BY InitHolds, InitKnows
<1>3. (IInv /\ KInv) /\ [Next]_vars => (IInv /\ KInv)' BY NextHolds, NextKnows
<1>4. IInv /\ KInv => PagesKnow BY <1>1
<1> QED BY <1>2, <1>3, <1>4, PTL DEF Spec

=============================================================================
