------------------------------- MODULE Relay -------------------------------
(***************************************************************************)
(* The relay between browsers and game servers: for each WebSocket a UDP   *)
(* socket, and at most one stream over TCP to the same server (nxac.js).   *)
(*                                                                         *)
(* The relay runs one callback at a time, so a callback is an operator     *)
(* from a state of the relay to the next one.  What happens between two    *)
(* callbacks of the same connection is the point: a socket is bound and a  *)
(* name is resolved while packets arrive, and the port of a stream is      *)
(* looked up while the stream, or its connection, may end.                 *)
(*                                                                         *)
(* Datagrams are numbers in the order they were sent; a stream's data is   *)
(* the numbers from 1.  Sizes, and so the limits on them, are left out, and *)
(* so is the HTTP download proxy.                                          *)
(***************************************************************************)
EXTENDS Naturals, Sequences, FiniteSets

CONSTANTS MaxSockets,      \* bound: WebSockets ever made
          MaxStreams,      \* bound: streams ever asked for
          maxConnections,  \* at one time
          PendingPackets   \* 64: datagrams kept until they can be sent

ASSUME RelayAssumption ==
  {MaxSockets, MaxStreams, maxConnections, PendingPackets} \subseteq Nat

VARIABLES relay,   \* the relay's state, and what is under way from it to the browser
          broken   \* WebSockets over which nothing gets through any more

Sockets == 1 .. MaxSockets
Ids == 1 .. MaxStreams
NoStream == 0

NoConnection ==
  [state |-> "none",                        \* then "open", then "closed"
   udpReady |-> FALSE, resolved |-> FALSE, pendingPackets |-> <<>>,
   sequenced |-> FALSE, receivedSequenced |-> FALSE,
   isAlive |-> FALSE,
   stream |-> NoStream, opened |-> FALSE]   \* nxac.stream, and lastOpen # 0

UnusedStream ==
  [ws |-> 0, closed |-> TRUE, checking |-> FALSE,  \* checking: its port is looked up
   socket |-> "none",                       \* of TCP: "connecting", "open"
   fromServer |-> <<>>, fin |-> FALSE,      \* sent by the server, not read yet
   written |-> <<>>,                        \* to the server
   sent |-> 0]                              \* history: by the server

InitRelay ==
  [conns |-> [w \in Sockets |-> NoConnection],
   streams |-> [s \in Ids |-> UnusedStream],
   down |-> [w \in Sockets |-> <<>>],
   server |-> [w \in Sockets |-> <<>>]]     \* history: datagrams sent to the server

Connections(R) == {w \in Sockets : R.conns[w].state = "open"}

----------------------------------------------------------------------------
(* Frames to the browser, the end of a stream and of a connection.         *)

Frame(t, id, n) == [t |-> t, id |-> id, n |-> n]

Queued(R, w, m) == [R EXCEPT !.down[w] = IF w \in broken THEN @ ELSE Append(@, m)]

\* NxACRelay.send: ok is whether ws.bufferedAmount is within the limit.
NxSend(R, w, m, ok) == IF R.conns[w].state = "open" /\ ok THEN Queued(R, w, m) ELSE R

\* The reason is the frame that tells the browser, "eof" or "error", or "none".
NxFinish(R, s, reason, ok) ==
  LET w == R.streams[s].ws
      ended == [R EXCEPT !.streams[s].closed = TRUE, !.streams[s].socket = "none",
                         !.streams[s].fromServer = <<>>,
                         !.conns[w].stream = IF @ = s THEN NoStream ELSE @]
  IN  IF R.streams[s].closed THEN R
      ELSE IF reason = "none" THEN ended ELSE NxSend(ended, w, Frame(reason, s, 0), ok)

\* Safe to call again, from any handler.
CloseConnection(R, w) ==
  LET s == R.conns[w].stream
      ended == IF s = NoStream THEN R ELSE NxFinish(R, s, "none", TRUE)
  IN  IF w \notin Connections(R) THEN R
      ELSE [ended EXCEPT !.conns[w] = [NoConnection EXCEPT !.state = "closed"]]

----------------------------------------------------------------------------
(* Connections and datagrams.                                              *)

\* A server is given by its address, or by a name.
OnConnection(R, w, isIp) ==
  IF Cardinality(Connections(R)) >= maxConnections
    THEN [R EXCEPT !.conns[w].state = "closed"]
    ELSE Queued([R EXCEPT !.conns[w] = [NoConnection EXCEPT !.state = "open",
                                         !.resolved = isIp, !.isAlive = TRUE]],
                w, Frame("ready", 0, 0))

\* Before the name is resolved, the address is not that of the server.
SendToServer(R, w, packets) ==
  IF R.conns[w].state = "open" /\ R.conns[w].resolved
    THEN [R EXCEPT !.server[w] = @ \o packets] ELSE R

\* Forgets the name.
MutForwards(c) == c.udpReady

Forwards(c) == c.udpReady /\ c.resolved

FlushPending(R, w) ==
  LET c == R.conns[w]
  IN  IF c.state # "open" \/ ~Forwards(c) THEN R
      ELSE SendToServer([R EXCEPT !.conns[w].pendingPackets = <<>>], w, c.pendingPackets)

\* A datagram that finds the queue full is dropped.
OnPacket(R, w, m) ==
  LET heard == [R EXCEPT !.conns[w].isAlive = TRUE,
                         !.conns[w].sequenced = @ \/ m.t = "sequenced"]
      c == heard.conns[w]
  IN  IF Forwards(c) THEN SendToServer(heard, w, <<m.n>>)
      ELSE IF Len(c.pendingPackets) < PendingPackets
        THEN [heard EXCEPT !.conns[w].pendingPackets = Append(@, m.n)]
        ELSE heard

Refused(R, w, m) ==
  m.t \in {"oob", "sequenced"} /\ ~Forwards(R.conns[w])
  /\ Len(R.conns[w].pendingPackets) >= PendingPackets

OnListening(R, w) == FlushPending([R EXCEPT !.conns[w].udpReady = TRUE], w)
OnResolved(R, w) == FlushPending([R EXCEPT !.conns[w].resolved = TRUE], w)

OnServerPacket(R, w) ==
  Queued([R EXCEPT !.conns[w].receivedSequenced = TRUE], w, Frame("packet", 0, 0))

\* Two in a row without a sign of life end the connection.
OnHeartbeat(R, w) ==
  IF R.conns[w].isAlive THEN [R EXCEPT !.conns[w].isAlive = FALSE]
  ELSE CloseConnection(R, w)

----------------------------------------------------------------------------
(* Streams.                                                                *)

\* tooSoon: less than a second after the last one was opened.
NxOpen(R, w, s, tooSoon, ok) ==
  LET c == R.conns[w]
      playing == c.sequenced /\ c.receivedSequenced /\ c.resolved /\ c.udpReady
  IN  IF c.stream # NoStream \/ tooSoon \/ ~playing
        THEN NxSend(R, w, Frame("error", s, 0), ok)
        ELSE [R EXCEPT !.conns[w].stream = s, !.conns[w].opened = TRUE,
                       !.streams[s] = [UnusedStream EXCEPT !.ws = w, !.closed = FALSE,
                                                           !.checking = TRUE]]

\* Does not look whether the stream has ended meanwhile.
MutNxAdvertised(R, s, published, ok) ==
  LET known == [R EXCEPT !.streams[s].checking = FALSE]
  IN  IF ~published THEN NxFinish(known, s, "error", ok)
      ELSE [known EXCEPT !.streams[s].socket = "connecting"]

\* The rest of open(), after the server has said which port is its own, or has not.
NxAdvertised(R, s, published, ok) ==
  LET known == [R EXCEPT !.streams[s].checking = FALSE]
  IN  IF R.streams[s].closed THEN known
      ELSE IF ~published THEN NxFinish(known, s, "error", ok)
      ELSE [known EXCEPT !.streams[s].socket = "connecting"]

NxConnected(R, s, ok) ==
  LET connected == [R EXCEPT !.streams[s].socket = "open"]
  IN  IF ok THEN NxSend(connected, R.streams[s].ws, Frame("opened", s, 0), ok)
      ELSE NxFinish(connected, s, "error", ok)

\* Goes on when a frame could not be sent.
MutNxData(R, s, ok) ==
  LET n == Head(R.streams[s].fromServer)
      read == [R EXCEPT !.streams[s].fromServer = Tail(@)]
  IN  NxSend(read, R.streams[s].ws, Frame("data", s, n), ok)

\* What cannot be sent ends the stream.
NxData(R, s, ok) ==
  LET n == Head(R.streams[s].fromServer)
      read == [R EXCEPT !.streams[s].fromServer = Tail(@)]
  IN  IF ok THEN NxSend(read, R.streams[s].ws, Frame("data", s, n), ok)
      ELSE NxFinish(read, s, "error", ok)

\* Frames of a stream that is not the connection's are ignored.
NxOnText(R, w, m, tooSoon, ok) ==
  LET s == R.conns[w].stream
  IN  CASE m.t = "open" -> NxOpen(R, w, m.id, tooSoon, ok)
        [] m.t = "close" /\ s = m.id -> NxFinish(R, s, "none", ok)
        [] m.t = "data" /\ s = m.id ->
             IF R.streams[s].socket # "open" THEN NxFinish(R, s, "error", ok)
             ELSE [R EXCEPT !.streams[s].written = Append(@, m.n)]
        [] OTHER -> R

=============================================================================
