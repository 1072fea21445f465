------------------------------- MODULE WebNet -------------------------------
(***************************************************************************)
(* The network of the engine in a browser, over the relay: a WebSocket for *)
(* each address in use, in a few slots that are reaped and recycled        *)
(* (net_web.c), and the streams of the client's game module, each bound to *)
(* the connection it plays over (net_nxac_web.c).                          *)
(*                                                                         *)
(* Frames arrive in order or are lost with their WebSocket.  Each end      *)
(* notices the end of a WebSocket for itself, and an event of an old one   *)
(* may come when its slot has another.  Time is left out: a slot, a        *)
(* connection or a stream that the code ends after a while may end at any  *)
(* time.  Left out are also the streams of a game hosted in the page.      *)
(***************************************************************************)
EXTENDS Relay, Integers

CONSTANTS Addrs, Named,  \* servers, and those known by a name the relay resolves
          Slots,         \* MAX_WS_CONNECTIONS
          PendingSends,  \* WS_MAX_PENDING_SENDS: kept until the WebSocket is open
          NxQueue,       \* NX_QUEUE: data of a stream that was not read yet
          MaxPackets,             \* bound: datagrams sent
          MaxData, MaxWritten,    \* bounds: data of a stream, from the server and to it
          MaxFaults               \* bound: WebSockets that break, and frames refused

ASSUME WebNetAssumption ==
  Named \subseteq Addrs /\
  {Slots, PendingSends, NxQueue, MaxPackets, MaxData, MaxWritten, MaxFaults} \subseteq Nat

VARIABLES web,       \* the engine's state
          up,        \* under way from the browser to the relay
          packets, sent, dropped,  \* history: datagrams sent, over which WebSocket, and
                                   \* those that found a queue full
          refusals   \* frames a full buffer refused

vars == <<relay, broken, web, up, packets, sent, dropped, refusals>>
history == <<packets, sent, dropped>>

NoSocket == 0
NoAddr == "none"
FreeSlot == [socket |-> NoSocket, open |-> FALSE, addr |-> NoAddr, pending |-> <<>>,
             sequenced |-> FALSE]
NoChannel == [used |-> FALSE, addr |-> NoAddr, state |-> 0, eof |-> FALSE,
              openSent |-> FALSE, queue |-> <<>>,
              read |-> <<>>, written |-> 0]  \* history: what the game module got and sent

Init ==
  /\ relay = InitRelay /\ broken = {}
  /\ web = [slots |-> [i \in 1 .. Slots |-> FreeSlot],
            made |-> 0,                               \* WebSockets, numbered
            home |-> [w \in Sockets |-> 0],           \* the slot given to its events
            url |-> [w \in Sockets |-> NoAddr],
            phase |-> [w \in Sockets |-> "none"],     \* as the browser sees it
            ready |-> {},                             \* sessions: addresses with streams
            channels |-> [c \in Ids |-> NoChannel],
            nextId |-> 1]
  /\ up = [w \in Sockets |-> <<>>]
  /\ packets = 0 /\ sent = [w \in Sockets |-> <<>>] /\ dropped = {}
  /\ refusals = 0

Active(E) == {i \in 1 .. Slots : E.slots[i].socket # NoSocket}
SlotsOf(E, a) == {i \in Active(E) : E.slots[i].addr = a}

\* Whether a frame is taken, or refused because too much is buffered.
MayFail == refusals + Cardinality(broken) < MaxFaults
Outcomes == IF MayFail THEN BOOLEAN ELSE {TRUE}
Counted(ok) == refusals' = IF ok THEN refusals ELSE refusals + 1

----------------------------------------------------------------------------
(* WebSockets and their slots.                                             *)

\* Only forgets that the address may have streams.
MutRelayClosed(E, a) == [E EXCEPT !.ready = @ \ {a}]

\* NET_NxACWebRelayClosed: the streams of the address have failed.
RelayClosed(E, a) ==
  [E EXCEPT !.ready = @ \ {a},
            !.channels = [c \in Ids |-> IF @[c].used /\ @[c].addr = a
                                        THEN [@[c] EXCEPT !.state = -1, !.eof = TRUE]
                                        ELSE @[c]]]

CloseSlot(E, i) ==
  LET closed == RelayClosed(E, E.slots[i].addr)
  IN  [closed EXCEPT !.slots[i] = FreeSlot, !.phase[E.slots[i].socket] = "closing"]

OpenSlot(E, i, a) ==
  LET w == E.made + 1
  IN  [E EXCEPT !.made = w, !.home[w] = i, !.url[w] = a, !.phase[w] = "connecting",
                !.slots[i] = [FreeSlot EXCEPT !.socket = w, !.addr = a]]

\* A slot that carried a game only when all did.
Victims(E) ==
  LET plain == {i \in 1 .. Slots : ~E.slots[i].sequenced}
  IN  IF plain # {} THEN plain ELSE 1 .. Slots

\* The slot an address may get, and the engine's state then.
WS_GetConnection(E, a, i) ==
  LET free == (1 .. Slots) \ Active(E)
  IN  IF SlotsOf(E, a) # {} THEN E
      ELSE OpenSlot(IF free # {} THEN E ELSE CloseSlot(E, i), i, a)
MayGet(E, a) ==
  LET free == (1 .. Slots) \ Active(E)
  IN  IF SlotsOf(E, a) # {} THEN SlotsOf(E, a)
      ELSE IF E.made = MaxSockets THEN {}
      ELSE IF free # {} THEN {i \in free : \A j \in free : i <= j}
      ELSE Victims(E)

Sends(w, msgs) ==
  up' = [up EXCEPT ![w] = IF w \in broken THEN @ ELSE @ \o msgs]

\* A datagram of the netchan, or one that is out of band.
SendPacket(a, t) ==
  /\ packets < MaxPackets /\ packets' = packets + 1
  /\ \E i \in MayGet(web, a) :
       LET E == [WS_GetConnection(web, a, i) EXCEPT !.slots[i].sequenced = @ \/ t = "sequenced"]
           me == E.slots[i]
           m == Frame(t, 0, packets')
           full == ~me.open /\ Len(me.pending) >= PendingSends
       IN  /\ sent' = [sent EXCEPT ![me.socket] = Append(@, packets')]
           /\ dropped' = IF full THEN dropped \cup {packets'} ELSE dropped
           /\ IF me.open THEN web' = E /\ Sends(me.socket, <<m>>)
              ELSE /\ web' = IF full THEN E
                             ELSE [E EXCEPT !.slots[i].pending = Append(@, m)]
                   /\ UNCHANGED up
  /\ UNCHANGED <<relay, broken, refusals>>

\* Its address has only been asked things, a while ago.
WS_ReapIdleConnections(i) ==
  /\ i \in Active(web) /\ ~web.slots[i].sequenced
  /\ web' = CloseSlot(web, i)
  /\ UNCHANGED <<relay, broken, up, history, refusals>>

\* Takes the event of an old WebSocket for one of the slot's new one.
MutConcerns(w) == web.slots[web.home[w]].socket # NoSocket

Concerns(w) == web.slots[web.home[w]].socket = w

WS_OnOpen(w) ==
  LET i == web.home[w] IN
  /\ web.phase[w] = "connecting" /\ relay.conns[w].state # "none" /\ w \notin broken
  /\ web' = IF Concerns(w)
              THEN [web EXCEPT !.phase[w] = "open", !.slots[i].open = TRUE,
                               !.slots[i].pending = <<>>]
              ELSE [web EXCEPT !.phase[w] = "open"]
  /\ Sends(w, IF Concerns(w) THEN web.slots[i].pending ELSE <<>>)
  /\ UNCHANGED <<relay, broken, history, refusals>>

WS_OnClose(w) ==
  LET i == web.home[w]
      closed == [web EXCEPT !.phase[w] = "closed"]
  IN
  /\ web.phase[w] \in {"connecting", "open", "closing"}
  /\ \/ w \in broken
     \/ relay.conns[w].state = "closed" /\ relay.down[w] = <<>> /\ web.phase[w] # "connecting"
  /\ web' = IF Concerns(w)
              THEN [RelayClosed(closed, web.slots[i].addr) EXCEPT !.slots[i] = FreeSlot]
              ELSE closed
  /\ UNCHANGED <<relay, broken, up, history, refusals>>

----------------------------------------------------------------------------
(* Streams, for the game module.                                           *)

\* NET_WebNxACSend: over a connection that carries a game.
Carrying(E, a) == {i \in SlotsOf(E, a) : E.slots[i].open /\ E.slots[i].sequenced}
Text(a, m, ok) ==
  IF ok /\ Carrying(web, a) # {}
    THEN Sends(web.slots[CHOOSE i \in Carrying(web, a) : TRUE].socket, <<m>>)
    ELSE UNCHANGED up

Live(E, c) == E.channels[c].used /\ E.channels[c].state >= 0 /\ ~E.channels[c].eof

NX_CONNECT(a, ok) ==
  /\ web.nextId \in Ids /\ a \in web.ready
  /\ \A c \in Ids : Live(web, c) => web.channels[c].addr # a
  /\ web' = [web EXCEPT !.nextId = @ + 1,
               !.channels[web.nextId] = [NoChannel EXCEPT !.used = TRUE, !.addr = a,
                                          !.openSent = ok /\ Carrying(web, a) # {}]]
  /\ Text(a, Frame("open", web.nextId, 0), ok)
  /\ Counted(ok) /\ UNCHANGED <<relay, broken, history>>

\* Asks again when it could not be asked.
NX_INFO(c, ok) ==
  LET me == web.channels[c] IN
  /\ me.used /\ me.state = 0 /\ ~me.openSent
  /\ web' = [web EXCEPT !.channels[c].openSent = ok /\ Carrying(web, me.addr) # {}]
  /\ Text(me.addr, Frame("open", c, 0), ok)
  /\ Counted(ok) /\ UNCHANGED <<relay, broken, history>>

NX_SEND(c, ok) ==
  LET me == web.channels[c]
      taken == ok /\ Carrying(web, me.addr) # {}
  IN
  /\ me.used /\ me.state = 1 /\ ~me.eof /\ me.written < MaxWritten
  /\ web' = [web EXCEPT !.channels[c].written = IF taken THEN @ + 1 ELSE @]
  /\ Text(me.addr, Frame("data", c, me.written + 1), ok)
  /\ Counted(ok) /\ UNCHANGED <<relay, broken, history>>

NX_RECV(c) ==
  LET me == web.channels[c] IN
  /\ me.used /\ me.state = 1 /\ me.queue # <<>>
  /\ web' = [web EXCEPT !.channels[c].queue = Tail(@),
                        !.channels[c].read = Append(@, Head(me.queue))]
  /\ UNCHANGED <<relay, broken, up, history, refusals>>

\* Also what a shutdown of the game module does with every stream.
NX_CLOSE(c, ok) ==
  LET me == web.channels[c] IN
  /\ me.used
  /\ web' = [web EXCEPT !.channels[c] = NoChannel]
  /\ Text(me.addr, Frame("close", c, 0), ok)
  /\ Counted(ok) /\ UNCHANGED <<relay, broken, history>>

RemoteError(E, c, ok) ==
  /\ web' = [E EXCEPT !.channels[c].state = -1, !.channels[c].eof = TRUE]
  /\ Text(E.channels[c].addr, Frame("close", c, 0), ok)

NxOpened(E, c, ok) ==
  LET me == E.channels[c]
  IN  IF me.state # 0 \/ ~me.openSent THEN RemoteError(E, c, ok)
      ELSE web' = [E EXCEPT !.channels[c].state = 1] /\ UNCHANGED up

NxReceived(E, c, n, ok) ==
  LET me == E.channels[c]
  IN  IF me.state # 1 \/ Len(me.queue) >= NxQueue THEN RemoteError(E, c, ok)
      ELSE web' = [E EXCEPT !.channels[c].queue = Append(@, n)] /\ UNCHANGED up

\* NET_NxACWebRelayMessage
OnText(E, a, m, ok) ==
  CASE m.t = "ready" -> web' = [E EXCEPT !.ready = @ \cup {a}] /\ UNCHANGED up
    [] m.t # "ready" /\ (~E.channels[m.id].used \/ E.channels[m.id].addr # a) ->
         web' = E /\ UNCHANGED up
    [] OTHER ->
         CASE m.t = "opened" -> NxOpened(E, m.id, ok)
           [] m.t = "data"   -> NxReceived(E, m.id, m.n, ok)
           [] m.t = "eof"    -> web' = [E EXCEPT !.channels[m.id].eof = TRUE] /\ UNCHANGED up
           [] m.t = "error"  -> /\ web' = [E EXCEPT !.channels[m.id].state = -1,
                                                    !.channels[m.id].eof = TRUE]
                                /\ UNCHANGED up

WS_OnMessage(w, ok) ==
  LET m == Head(relay.down[w])
      a == web.slots[web.home[w]].addr
  IN
  /\ web.phase[w] \in {"open", "closing"} /\ relay.down[w] # <<>> /\ w \notin broken
  /\ relay' = [relay EXCEPT !.down[w] = Tail(@)]
  /\ IF Concerns(w) /\ m.t # "packet" THEN OnText(web, a, m, ok) ELSE UNCHANGED <<web, up>>
  /\ Counted(ok) /\ UNCHANGED <<broken, history>>

----------------------------------------------------------------------------
(* The relay's callbacks.                                                  *)

Handles(R) == relay' = R /\ UNCHANGED <<broken, web, history>>

Accept(w) ==
  /\ web.phase[w] \in {"connecting", "closing"} /\ w \notin broken
  /\ relay.conns[w].state = "none"
  /\ Handles(OnConnection(relay, w, web.url[w] \notin Named)) /\ UNCHANGED <<up, refusals>>

RelayMessage(w, tooSoon, ok) ==
  LET m == Head(up[w]) IN
  /\ up[w] # <<>> /\ w \in Connections(relay)
  /\ up' = [up EXCEPT ![w] = Tail(@)]
  /\ relay' = IF m.t \in {"oob", "sequenced"} THEN OnPacket(relay, w, m)
              ELSE NxOnText(relay, w, m, tooSoon /\ relay.conns[w].opened, ok)
  /\ dropped' = IF Refused(relay, w, m) THEN dropped \cup {m.n} ELSE dropped
  /\ Counted(ok) /\ UNCHANGED <<broken, web, packets, sent>>

Listening(w) ==
  /\ w \in Connections(relay) /\ ~relay.conns[w].udpReady
  /\ Handles(OnListening(relay, w)) /\ UNCHANGED <<up, refusals>>
Resolved(w) ==
  /\ w \in Connections(relay) /\ ~relay.conns[w].resolved
  /\ Handles(OnResolved(relay, w)) /\ UNCHANGED <<up, refusals>>

\* The server answers what it got; bound: the first answer.
ServerReplies(w) ==
  /\ relay.server[w] # <<>> /\ ~relay.conns[w].receivedSequenced /\ w \in Connections(relay)
  /\ Handles(OnServerPacket(relay, w)) /\ UNCHANGED <<up, refusals>>

\* The browser has closed it, and all it sent before was handled.
BrowserClosed(w) ==
  /\ w \in Connections(relay) /\ w \notin broken
  /\ web.phase[w] \in {"closing", "closed"} /\ up[w] = <<>>
  /\ Handles(CloseConnection(relay, w)) /\ UNCHANGED <<up, refusals>>

\* The name is not known, the UDP socket fails, or nothing came for long.
GivesUp(w) ==
  /\ w \in Connections(relay)
  /\ Handles(CloseConnection(relay, w)) /\ UNCHANGED <<up, refusals>>

Heartbeat(w) ==
  /\ w \in Connections(relay)
  /\ Handles(OnHeartbeat(relay, w)) /\ UNCHANGED <<up, refusals>>
Pong(w) ==
  /\ w \in Connections(relay) /\ ~relay.conns[w].isAlive
  /\ w \notin broken /\ web.phase[w] = "open"
  /\ Handles([relay EXCEPT !.conns[w].isAlive = TRUE]) /\ UNCHANGED <<up, refusals>>

\* The port is the one the server publishes, or it is not, or nobody knows.
Advertised(s, published, ok) ==
  /\ relay.streams[s].checking
  /\ Handles(NxAdvertised(relay, s, published, ok)) /\ Counted(ok) /\ UNCHANGED up
TcpConnected(s, ok) ==
  /\ relay.streams[s].socket = "connecting"
  /\ Handles(NxConnected(relay, s, ok)) /\ Counted(ok) /\ UNCHANGED up
TcpData(s, ok) ==
  /\ relay.streams[s].socket = "open" /\ relay.streams[s].fromServer # <<>>
  /\ Handles(NxData(relay, s, ok)) /\ Counted(ok) /\ UNCHANGED up

\* After a minute, after ten seconds in which nothing moved, or when TCP fails.
Timeout(s, ok) ==
  /\ ~relay.streams[s].closed
  /\ Handles(NxFinish(relay, s, "error", ok)) /\ Counted(ok) /\ UNCHANGED up
TcpEnd(s, ok) ==
  /\ relay.streams[s].socket = "open" /\ relay.streams[s].fin
  /\ relay.streams[s].fromServer = <<>>
  /\ Handles(NxFinish(relay, s, "eof", ok)) /\ Counted(ok) /\ UNCHANGED up

----------------------------------------------------------------------------
(* The server's end of a stream, and the network.                          *)

ServerSends(s) ==
  LET n == relay.streams[s].sent + 1 IN
  /\ relay.streams[s].socket = "open" /\ ~relay.streams[s].fin /\ n <= MaxData
  /\ Handles([relay EXCEPT !.streams[s].sent = n, !.streams[s].fromServer = Append(@, n)])
  /\ UNCHANGED <<up, refusals>>
ServerEnds(s) ==
  /\ relay.streams[s].socket = "open" /\ ~relay.streams[s].fin
  /\ Handles([relay EXCEPT !.streams[s].fin = TRUE]) /\ UNCHANGED <<up, refusals>>

Break(w) ==
  /\ w \notin broken /\ web.phase[w] \in {"connecting", "open"}
  /\ MayFail
  /\ broken' = broken \cup {w}
  /\ relay' = [relay EXCEPT !.down[w] = <<>>] /\ up' = [up EXCEPT ![w] = <<>>]
  /\ UNCHANGED <<web, history, refusals>>

Next ==
  \/ \E a \in Addrs, t \in {"oob", "sequenced"} : SendPacket(a, t)
  \/ \E i \in 1 .. Slots : WS_ReapIdleConnections(i)
  \/ \E w \in Sockets :
       \/ WS_OnOpen(w) \/ WS_OnClose(w) \/ Listening(w) \/ Resolved(w) \/ ServerReplies(w)
       \/ Accept(w) \/ BrowserClosed(w) \/ GivesUp(w) \/ Heartbeat(w) \/ Pong(w) \/ Break(w)
       \/ \E ok \in Outcomes : WS_OnMessage(w, ok)
       \/ \E tooSoon \in BOOLEAN, ok \in Outcomes : RelayMessage(w, tooSoon, ok)
  \/ \E a \in Addrs, ok \in Outcomes : NX_CONNECT(a, ok)
  \/ \E c \in Ids, ok \in Outcomes : NX_INFO(c, ok) \/ NX_SEND(c, ok) \/ NX_CLOSE(c, ok)
  \/ \E c \in Ids : NX_RECV(c) \/ ServerSends(c) \/ ServerEnds(c)
  \/ \E s \in Ids, ok \in Outcomes :
       \/ TcpConnected(s, ok) \/ TcpData(s, ok) \/ Timeout(s, ok) \/ TcpEnd(s, ok)
       \/ \E published \in BOOLEAN : Advertised(s, published, ok)

\* Events are handled and timers fire.  Users, servers and names owe nothing.
Fairness ==
  /\ \A w \in Sockets :
       /\ WF_vars(WS_OnClose(w)) /\ WF_vars(Heartbeat(w))
       /\ WF_vars(\E ok \in Outcomes : WS_OnMessage(w, ok))
       /\ WF_vars(\E tooSoon \in BOOLEAN, ok \in Outcomes : RelayMessage(w, tooSoon, ok))
  /\ \A s \in Ids : WF_vars(\E ok \in Outcomes : Timeout(s, ok))

Spec == Init /\ [][Next]_vars /\ Fairness

----------------------------------------------------------------------------
(* Properties.                                                             *)

\* While a WebSocket works, its datagrams reach the server in the order they were
\* sent, and none is lost but those that found a queue full, which the first of a
\* connection, its handshake, never do.
PacketsInOrder ==
  \A w \in Sockets :
    LET i == web.home[w]
        Numbers(msgs) == LET p == SelectSeq(msgs, LAMBDA m : m.t \in {"oob", "sequenced"})
                         IN  [k \in 1 .. Len(p) |-> p[k].n]
        works == w \notin broken /\ web.phase[w] \in {"connecting", "open"}
                 /\ relay.conns[w].state # "closed"
    IN  /\ works => relay.server[w] \o relay.conns[w].pendingPackets \o Numbers(up[w])
                      \o Numbers(web.slots[i].pending)
                    = SelectSeq(sent[w], LAMBDA n : n \notin dropped)
        /\ \A k \in 1 .. Len(sent[w]) :
             sent[w][k] \in dropped => k > PendingSends \/ k > PendingPackets

\* A game connection keeps its slot until its WebSocket ends: it is not reaped, not
\* recycled while another slot could be, and not closed by the late event of a
\* WebSocket that had the slot before.
GameConnectionKept ==
  [][\A i \in Active(web) :
       LET w == web.slots[i].socket IN
       web.slots[i].sequenced /\ web'.slots[i].socket # w =>
         \/ w \in broken \/ relay.conns[w].state = "closed"
         \/ \A j \in 1 .. Slots : web.slots[j].sequenced]_vars

\* A stream is alive only over a connection that is: an address that may have
\* streams has a connection, it has one stream at most, and a TCP socket belongs to
\* the stream of an open connection.
StreamsOwned ==
  /\ \A a \in Addrs : Cardinality(SlotsOf(web, a)) <= 1
  /\ \A a \in web.ready : SlotsOf(web, a) # {}
  /\ \A c \in Ids : Live(web, c) =>
       /\ web.channels[c].addr \in web.ready
       /\ \A d \in Ids \ {c} : Live(web, d) => web.channels[d].addr # web.channels[c].addr
  /\ \A s \in Ids :
       LET me == relay.streams[s] IN
       ~me.closed \/ me.socket # "none" =>
         ~me.closed /\ me.ws \in Connections(relay) /\ relay.conns[me.ws].stream = s

\* What the game module reads is what the server sent, in order and without a gap,
\* and a stream that ends without an error ends after all of it; the server gets
\* what the module sent in the same way.
StreamExact ==
  \A c \in Ids :
    LET me == web.channels[c]
        data == me.read \o me.queue
    IN  /\ me.used /\ me.state = 1 =>
             /\ data = [k \in 1 .. Len(data) |-> k]
             /\ me.eof => relay.streams[c].fin /\ Len(data) = relay.streams[c].sent
        /\ relay.streams[c].written = [k \in 1 .. Len(relay.streams[c].written) |-> k]

\* A stream that was asked for is answered: it opens, or fails, at the latest when its
\* connection does; unless the relay's answer was refused for a full buffer.
Asking(c) == web.channels[c].used /\ web.channels[c].state = 0 /\ web.channels[c].openSent
OpenIsAnswered ==
  \A c \in Ids : Asking(c) /\ refusals = 0 ~> ~Asking(c) \/ refusals > 0

=============================================================================
