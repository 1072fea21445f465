------------------------------ MODULE Download ------------------------------
(***************************************************************************)
(* How a client that lacks files of a pure server gets them: block by      *)
(* block inside the connection, with a window of blocks that are sent and  *)
(* not acknowledged, or by a redirect to a web server; then it asks for    *)
(* the gamestate anew ("donedl") and goes on when nothing is missing.      *)
(*                                                                         *)
(* The client has parsed the gamestate of the map that runs and waits in   *)
(* CA_CONNECTED.  Messages to the client may be lost, the others arrive in *)
(* order and once (Netchan); its commands are executed once and in order   *)
(* (Reliable), and every message acknowledges the executed ones.           *)
(*                                                                         *)
(* A block is known by its file and number; block size[f] of file f is the *)
(* empty one that stands for the end of the file.  Of time only that more  *)
(* than a second, or four, may have passed is kept.                        *)
(***************************************************************************)
EXTENDS Integers, Sequences, FiniteSets, FiniteSetsExt

CONSTANTS MAX_DOWNLOAD_WINDOW,
          Numbers,      \* 2^16: a block number is written as a short
          NumFiles,     \* bound: files the client lacks
          MaxBlocks,    \* bound: blocks of a file
          MaxFailures,  \* bound: writes and web downloads that fail
          MaxCommands,  \* bound: of the client's commands, where it may go on for ever
          MaxInFlight   \* bound: messages under way to the client

ASSUME DownloadAssumption ==
  /\ MAX_DOWNLOAD_WINDOW \in Nat \ {0}
  /\ Numbers \in Nat /\ Numbers > 2 * MAX_DOWNLOAD_WINDOW
  /\ NumFiles \in Nat \ {0} /\ MaxBlocks \in Nat \ {0}
  /\ MaxFailures \in Nat /\ MaxCommands \in Nat
  /\ MaxInFlight \in Nat \ {0}

W == MAX_DOWNLOAD_WINDOW
Files == 1 .. NumFiles

VARIABLES
  size,      \* the number of blocks of every file
  server,    \* client_t: the download part
  client,    \* download_t and the client's commands
  toClient   \* messages under way, oldest first

vars == <<size, server, client, toClient>>

None == 0
Block(f, n) == [file |-> f, n |-> n]
\* The size of a block is zero at the end of a file, and in a slot never used.
NoBlock == Block(None, 0)
Empty(b) == b = NoBlock \/ (b.file # None /\ b.n = size[b.file])
Content(f) == [i \in 1 .. size[f] |-> Block(f, i - 1)]

\* What MSG_ReadShort makes of a number written by MSG_WriteShort.
Short(n) == LET r == n % Numbers IN IF 2 * r < Numbers THEN r ELSE r - Numbers

Command(name, arg) == [name |-> name, arg |-> arg]

\* Com_InitDownloads for the first time: the first file has been asked for.
Init ==
  /\ size \in [Files -> 1 .. MaxBlocks]
  /\ server \in [downloadName : {None}, download : {FALSE},
                 clientBlock : {0}, xmitBlock : {0}, currentBlock : {0}, eof : {FALSE},
                 blocks : {[k \in 0 .. W - 1 |-> NoBlock]},
                 redirects : BOOLEAN,   \* sv_wwwDownload
                 wwwDl : {FALSE}, wwwing : {FALSE}, fallback : {FALSE},
                 lastClientCommand : {0}, dropped : {"no"}]
  /\ client = [downloadName |-> 1, list |-> [i \in 1 .. NumFiles - 1 |-> i + 1],
               block |-> 0, file |-> <<>>, stored |-> [f \in Files |-> <<>>],
               commands |-> <<Command("download", 1)>>, acknowledged |-> 0,
               wwwDl |-> FALSE, aborting |-> FALSE,
               web |-> None,            \* the file that is fetched from the web
               redirected |-> {}, badChecksum |-> {},
               loads |-> FALSE,         \* CL_DownloadsComplete
               failures |-> MaxFailures,
               gaveUp |-> FALSE]        \* history: a file was given up for the next
  /\ toClient = <<>>

\* A full link loses its oldest message.
Sent(m) == Append(IF Len(toClient) < MaxInFlight THEN toClient ELSE Tail(toClient), m)

----------------------------------------------------------------------------
(* The server.                                                             *)

Dropped(s, why) == [s EXCEPT !.dropped = why, !.downloadName = None, !.download = FALSE]

SV_CloseDownload(s) == [s EXCEPT !.downloadName = None, !.download = FALSE]

\* SV_SetupDownloadFile without a redirect.
Opened(s) == [s EXCEPT !.download = TRUE, !.wwwDl = FALSE, !.fallback = FALSE,
                       !.clientBlock = 0, !.xmitBlock = 0, !.currentBlock = 0, !.eof = FALSE]

\* Mutants: the end of the file is not noted; a block too many is read.
MutEof(s) ==
  LET last == size[s.downloadName]
      end  == IF s.clientBlock + W <= last THEN s.clientBlock + W ELSE last + 1
  IN  [s EXCEPT !.currentBlock = IF s.eof THEN @ + 1 ELSE end, !.eof = end = last + 1]

MutWindow(s) ==
  LET last == size[s.downloadName]
      end  == IF s.clientBlock + W + 1 <= last THEN s.clientBlock + W + 1 ELSE last + 1
  IN  IF s.eof THEN s
      ELSE [s EXCEPT !.currentBlock = end,
                     !.eof = end = last + 1,
                     !.blocks = [k \in 0 .. W - 1 |->
                        LET N == {n \in s.currentBlock .. end - 1 : n % W = k}
                        IN  IF N = {} THEN @[k] ELSE Block(s.downloadName, Max(N))]]

\* The window is filled with what is left of the file, and its end behind it.
Filled(s) ==
  LET last == size[s.downloadName]
      end  == IF s.clientBlock + W <= last THEN s.clientBlock + W ELSE last + 1
  IN  IF s.eof THEN s
      ELSE [s EXCEPT !.currentBlock = end,
                     !.eof = end = last + 1,
                     !.blocks = [k \in 0 .. W - 1 |->
                        LET N == {n \in s.currentBlock .. end - 1 : n % W = k}
                        IN  IF N = {} THEN @[k] ELSE Block(s.downloadName, Max(N))]]

\* Mutant: a window that was sent is not sent again.
MutSV_WriteDownloadToClient(late) ==
  LET s == Filled(IF server.download THEN server ELSE Opened(server))
  IN  /\ server.downloadName # None
      /\ ~server.wwwing
      /\ IF ~server.download /\ server.redirects /\ ~server.fallback
         THEN /\ server' = [server EXCEPT !.wwwDl = TRUE]
              /\ toClient' = Sent([kind |-> "redirect", ack |-> server.lastClientCommand,
                                   web |-> server.downloadName])
         ELSE IF s.xmitBlock = s.currentBlock
         THEN server' = s /\ UNCHANGED toClient
         ELSE /\ server' = [s EXCEPT !.xmitBlock = @ + 1]
              /\ toClient' = Sent([kind |-> "block", ack |-> server.lastClientCommand,
                                   number |-> Short(s.xmitBlock),
                                   data |-> s.blocks[s.xmitBlock % W]])
      /\ UNCHANGED <<size, client>>

\* SV_WriteDownloadToClient: a redirect is sent until it is acknowledged, else
\* the next block.  When all of the window was sent and nothing for more than
\* a second, it starts again at the first block that is not acknowledged.
SV_WriteDownloadToClient(late) ==
  LET f == Filled(IF server.download THEN server ELSE Opened(server))
      s == IF f.xmitBlock = f.currentBlock /\ late
           THEN [f EXCEPT !.xmitBlock = f.clientBlock] ELSE f
  IN  /\ server.downloadName # None
      /\ ~server.wwwing
      /\ IF ~server.download /\ server.redirects /\ ~server.fallback
         THEN /\ server' = [server EXCEPT !.wwwDl = TRUE]
              /\ toClient' = Sent([kind |-> "redirect", ack |-> server.lastClientCommand,
                                   web |-> server.downloadName])
         ELSE IF s.clientBlock = s.currentBlock \/ s.xmitBlock = s.currentBlock
         THEN server' = f /\ UNCHANGED toClient
         ELSE /\ server' = [s EXCEPT !.xmitBlock = @ + 1]
              /\ toClient' = Sent([kind |-> "block", ack |-> server.lastClientCommand,
                                   number |-> Short(s.xmitBlock),
                                   data |-> s.blocks[s.xmitBlock % W]])
      /\ UNCHANGED <<size, client>>

\* SV_SendClientMessages: who downloads is sent nothing else, and dropped if
\* there was no acknowledgement for more than four seconds.
SV_SendClientMessages ==
  /\ server.dropped = "no"
  /\ \/ /\ server.downloadName = None
        /\ toClient' = Sent([kind |-> "idle", ack |-> server.lastClientCommand])
        /\ UNCHANGED server
     \/ /\ server.download
        /\ server' = Dropped(server, "timed out")
        /\ UNCHANGED toClient
  /\ UNCHANGED <<size, client>>

\* SV_NextDownload_f: block n is acknowledged.
SV_NextDownload_f(s, n) ==
  IF n # s.clientBlock THEN Dropped(s, "broken download")
  ELSE IF Empty(s.blocks[n % W]) THEN SV_CloseDownload(s)
  ELSE [s EXCEPT !.clientBlock = @ + 1]

\* SV_WWWDownload_f.
SV_WWWDownload_f(s, sub) ==
  IF ~s.wwwDl THEN Dropped(s, "unexpected wwwdl")
  ELSE IF sub = "ack" THEN [s EXCEPT !.wwwing = TRUE]
  ELSE IF ~s.wwwing THEN Dropped(s, "unexpected wwwdl")
  ELSE [SV_CloseDownload(s) EXCEPT !.wwwing = FALSE, !.fallback = @ \/ sub = "fail"]

\* SV_ExecuteClientCommand for the next command of the client.  The gamestate
\* is sent once: the client has the serverId of the map that runs, so that
\* SV_ExecuteClientMessage never finds that it lost one.
SV_ClientCommand ==
  LET c == client.commands[server.lastClientCommand + 1]
      s == [server EXCEPT !.lastClientCommand = @ + 1]
      e == CASE c.name = "download" -> [s EXCEPT !.downloadName = c.arg, !.download = FALSE]
             [] c.name = "nextdl"   -> SV_NextDownload_f(s, c.arg)
             [] c.name = "stopdl"   -> SV_CloseDownload(s)
             [] c.name = "wwwdl"    -> SV_WWWDownload_f(s, c.arg)
             [] c.name = "donedl"   -> s
      gamestate == c.name = "donedl" \/ (c = Command("wwwdl", "fail") /\ e.dropped = "no")
  IN  /\ server.dropped = "no"
      /\ server.lastClientCommand < Len(client.commands)
      /\ server' = e
      /\ toClient' = IF gamestate
                     THEN Sent([kind |-> "gamestate", ack |-> server.lastClientCommand])
                     ELSE toClient
      /\ UNCHANGED <<size, client>>

----------------------------------------------------------------------------
(* The client.                                                             *)

Added(c, name, arg) == [c EXCEPT !.commands = Append(@, Command(name, arg))]

\* Com_NextDownload: the next file of the list is asked for, or, when there
\* is none, the gamestate.
Com_NextDownload(c) ==
  IF c.list = <<>>
  THEN Added([c EXCEPT !.downloadName = None], "donedl", None)
  ELSE Added([c EXCEPT !.downloadName = Head(c.list), !.list = Tail(@),
                       !.block = 0, !.file = <<>>],
             "download", Head(c.list))

\* CL_ParseGamestate and Com_InitDownloads: the files that are missing or are
\* not the server's are asked for, in their order.
Com_InitDownloads(c) ==
  LET missing == {f \in Files : c.stored[f] # Content(f)}
      i == [c EXCEPT !.wwwDl = FALSE, !.aborting = FALSE, !.web = None,
                     !.downloadName = None, !.redirected = {},
                     !.badChecksum = @ \cup (c.redirected \cap missing),
                     !.list = [n \in 1 .. Cardinality(missing) |->
                        CHOOSE f \in missing : Cardinality({g \in missing : g < f}) = n - 1]]
  IN  IF missing = {} THEN [i EXCEPT !.loads = TRUE] ELSE Com_NextDownload(i)

\* A web download fails; what comes until the gamestate is eaten.
WebFails(c) == [Added(c, "wwwdl", "fail") EXCEPT !.aborting = TRUE, !.web = None]

\* CL_ParseDownload for a redirect.
Redirected(c, web, fails) ==
  LET a == Added([c EXCEPT !.wwwDl = TRUE], "wwwdl", "ack")
  IN  IF c.wwwDl THEN c
      ELSE IF c.downloadName \in c.badChecksum \/ fails THEN WebFails(a)
      ELSE [a EXCEPT !.web = web]

\* Mutant: a block that was skipped is not missed.
MutSkips(c, m, fails) ==
  LET w == Added([c EXCEPT !.block = m.number + 1], "nextdl", m.number)
  IN  IF m.number < c.block THEN c
      ELSE IF Empty(m.data)
      THEN Com_NextDownload([w EXCEPT !.stored[c.downloadName] = c.file])
      ELSE [w EXCEPT !.file = Append(@, m.data)]

\* CL_ParseDownload for a block.  A write that fails gives the file up.
Parsed(c, m, fails) ==
  LET w == Added([c EXCEPT !.block = @ + 1], "nextdl", c.block)
  IN  IF m.number # c.block THEN c
      ELSE IF fails THEN Com_NextDownload(Added([c EXCEPT !.gaveUp = TRUE], "stopdl", None))
      ELSE IF Empty(m.data)
      THEN Com_NextDownload([w EXCEPT !.stored[c.downloadName] = c.file])
      ELSE [w EXCEPT !.file = Append(@, m.data)]

\* CL_ParseServerMessage; messages that a newer one overtook are lost.
CL_ParseServerMessage(i, fails) ==
  LET m == toClient[i]
      c == [client EXCEPT !.acknowledged = m.ack,
                          !.failures = IF fails THEN @ - 1 ELSE @]
  IN  /\ ~client.loads
      /\ fails => client.failures > 0 /\ m.kind \in {"block", "redirect"}
      /\ toClient' = SubSeq(toClient, i + 1, Len(toClient))
      /\ \/ m.kind = "gamestate" /\ client' = Com_InitDownloads(c)
         \/ m.kind = "idle" /\ client' = c
         \/ /\ m.kind \in {"block", "redirect"}
            /\ IF client.downloadName = None
               THEN /\ ~fails
                    /\ Len(client.commands) < MaxCommands
                    /\ client' = Added(c, "stopdl", None)
               ELSE client' = IF m.kind = "redirect" THEN Redirected(c, m.web, fails)
                              ELSE Parsed(c, m, fails)
      /\ UNCHANGED <<size, server>>

\* Com_WebDownloadComplete: what was fetched gets the name of the file.
Com_WebDownloadComplete(fails) ==
  LET c == [client EXCEPT !.failures = IF fails THEN @ - 1 ELSE @]
  IN  /\ client.web # None
      /\ fails => client.failures > 0
      /\ client' = IF fails THEN WebFails(c)
                   ELSE Com_NextDownload(
                          [Added(c, "wwwdl", "done") EXCEPT
                             !.stored[c.downloadName] = Content(c.web), !.web = None,
                             !.redirected = @ \cup {c.downloadName}, !.wwwDl = FALSE])
      /\ UNCHANGED <<size, server, toClient>>

Next == \/ \E late \in BOOLEAN : SV_WriteDownloadToClient(late)
        \/ SV_SendClientMessages
        \/ SV_ClientCommand
        \/ \E i \in 1 .. Len(toClient), fails \in BOOLEAN : CL_ParseServerMessage(i, fails)
        \/ \E fails \in BOOLEAN : Com_WebDownloadComplete(fails)

Spec == Init /\ [][Next]_vars

(* Fairness: the server works on, a web download ends, and of the messages *)
(* that help the client, sent again and again, one gets through.           *)
Helps(m) == \/ m.kind = "gamestate"
            \/ m.kind = "redirect" /\ ~client.wwwDl
            \/ m.kind = "block" /\ m.number = client.block

CL_ParseHelpfulMessage ==
  \E i \in 1 .. Len(toClient) : Helps(toClient[i]) /\ CL_ParseServerMessage(i, FALSE)

FairSpec == /\ Spec
            /\ WF_vars(SV_WriteDownloadToClient(TRUE))
            /\ WF_vars(SV_ClientCommand)
            /\ WF_vars(\E fails \in BOOLEAN : Com_WebDownloadComplete(fails))
            /\ SF_vars(CL_ParseHelpfulMessage)

----------------------------------------------------------------------------
(* Properties.                                                             *)

Blocks == [file : {None} \cup Files, n : 0 .. MaxBlocks]
Messages == [kind : {"block"}, ack : Nat, number : -Numbers .. Numbers, data : Blocks]
              \cup [kind : {"redirect"}, ack : Nat, web : Files]
              \cup [kind : {"gamestate", "idle"}, ack : Nat]

\* A file that ends within its window may be sent all over again while its
\* acknowledgements are under way, and a file may be given up while blocks of
\* it are under way: then a block 0 comes when the next file was asked for.
NoStaleBlocks == ~client.gaveUp /\ \A f \in Files : size[f] >= W

\* Every variable keeps its type; the server does not read beyond the file's
\* end, and sends nothing it has not read.
TypeOK ==
  /\ size \in [Files -> 1 .. MaxBlocks]
  /\ toClient \in Seq(Messages) /\ Len(toClient) <= MaxInFlight
  /\ server.downloadName \in {None} \cup Files
  /\ server.download => server.currentBlock <= size[server.downloadName] + 1
  /\ NoStaleBlocks /\ server.download => server.xmitBlock \in 0 .. server.currentBlock
  /\ server.blocks \in [0 .. W - 1 -> Blocks]
  /\ server.lastClientCommand <= Len(client.commands)
  /\ client.acknowledged <= server.lastClientCommand
  /\ \A i \in 1 .. Len(client.file) : client.file[i] \in Blocks

\* The comment at MAX_DOWNLOAD_WINDOW: of the client's commands that are not
\* acknowledged, no more than one for each block of the window are themselves
\* acknowledgements of blocks, so that a window is what has to fit into the
\* ring of commands.
AcksFit ==
  Cardinality({i \in client.acknowledged + 1 .. Len(client.commands) :
                 client.commands[i].name = "nextdl"}) <= W

\* The buffer of MAX_DOWNLOAD_WINDOW blocks, that are read once and may be sent
\* many times: each block from the first that is not acknowledged to the last
\* that was read is in its slot, whatever acknowledgements of this and of
\* other files came, and however often the window was started again.  An
\* acknowledgement of another file can be taken for one of this file, so that
\* the server goes beyond what it has sent, only where NoStaleBlocks fails.
\* Where it holds, the window is small enough for the client's commands.
WindowIntact ==
  /\ NoStaleBlocks => AcksFit
  /\ server.download =>
       /\ server.currentBlock - server.clientBlock <= W
       /\ NoStaleBlocks => server.clientBlock <= server.currentBlock
       /\ \A n \in server.clientBlock .. server.currentBlock - 1 :
             server.blocks[n % W] = Block(server.downloadName, n)

\* Blocks carry a number and no file, and may come late, again or never: what
\* CL_ParseDownload has written is the beginning of the file it asked for.
BlocksExact ==
  NoStaleBlocks /\ client.downloadName # None =>
    /\ Len(client.file) <= size[client.downloadName]
    /\ client.file = SubSeq(Content(client.downloadName), 1, Len(client.file))

\* SV_NextDownload_f and SV_WWWDownload_f drop a client whose command does not
\* fit the server's state: never one that does as the server says, however
\* late its commands are executed.
HonestNeverDropped ==
  NoStaleBlocks => server.dropped \notin {"broken download", "unexpected wwwdl"}

\* The server has executed everything, and no gamestate is on its way.
GamestateLost ==
  /\ client.downloadName = None \/ client.aborting
  /\ server.lastClientCommand = Len(client.commands)
  /\ \A i \in 1 .. Len(toClient) : toClient[i].kind # "gamestate"

\* Blocks, redirects and web downloads lost or failed, in any order: in the
\* end the client has all files and loads, or is dropped, or the gamestate it
\* asked for is lost (the server never sends that one again).  Where a stale
\* block was taken, the server may believe a file complete for which the
\* client still waits.
DownloadsEnd ==
  <>(client.loads \/ server.dropped # "no" \/ GamestateLost \/ ~NoStaleBlocks)
=============================================================================
