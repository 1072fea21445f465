# ET: Legacy, verified parts

TLA+ models of the client/server protocol of this engine, of its browser side
(relay, lobby, the page's network) and of the game's votes, checked with TLC on
small instances and, for most of their safety properties, proved with TLAPS for
every value of the constants. Paths below are relative to the repository root.

    tlasany M.tla                            parse a module
    tlc -workers 2 -config MC_X.cfg MC_X     check an instance
    tlapm XProofs.tla                        check the proofs about X

Proofs exist for X = Netchan, Reliable, Gamestate, Download, Snapshot,
Connection, P2P and Vote.

## 1. The system

The engine (`src/qcommon`) runs a server (`src/server`), a client
(`src/client`) or both. The server loads a game module (`src/game`), the client
a client game (`src/cgame`) and menus (`src/ui`), and calls them through
numbered entry points. One thread runs everything in frames: `Com_Frame` reads
packets into a queue of events, handles them, and runs `SV_Frame` and
`CL_Frame`. The concurrency that matters is therefore between processes, over
UDP (or a WebSocket relay, for browsers): packets are lost, repeated, late and
out of order, either side may restart, and each acts on what it believes of the
other. Inside a process the hard places are where a frame continues something
earlier frames began: fragments under way, a queue, a window of blocks, a map
that is being loaded, a drop that is under way while another begins, a vote that
is on while its voters leave.

In a browser the engine has no UDP. It opens a WebSocket for each address to a
relay (`tools/ws-relay`), which has a UDP socket for it, or, for a game hosted in
another page, meets that page through a lobby (`tools/p2p-lobby`, driven by
`src/web/etl-p2p.js` and `src/web/shell.html`) and exchanges packets over WebRTC
or the lobby. Relay, lobby and page are event loops: one handler runs at a time,
and between any two of them anything may happen to the others.

| component | state | operations | correct when |
|---|---|---|---|
| Network channel: `qcommon/net_chan.c`, `server/sv_net_chan.c`, `client/cl_net_chan.c` | sequence numbers, buffer of unsent fragments, buffer of received ones, queue per client | transmit, next fragment, process, clear queue | what arrives is whole, in order, once, and decodes |
| Reliable commands: `sv_main.c`, `sv_client.c`, `cl_main.c`, `cl_parse.c`, `cl_cgame.c` | a ring of 256 commands on each side, what was acknowledged and executed | add, repeat, parse, execute, overflow, drop | each command is executed once, in order, and both sides agree on the text the encoding uses |
| Connection: `sv_client.c`, `sv_main.c`, `cl_main.c` | slots, challenges, states of a client, the game's players | getchallenge, getinfo, connect, drop, time out | one slot per player, agreed keys, tries and dead slots end |
| World entry and configstrings: `sv_client.c`, `sv_init.c`, `sv_ccmds.c`, `cl_parse.c`, `cl_cgame.c` | map, serverId, gamestate last sent, configstrings of both sides | gamestate, map change, restart, "cp", first usercmd, "cs" | the client ends in the map that runs, with its configstrings |
| Downloads: `sv_client.c`, `cl_parse.c`, `qcommon/download.c` | window of blocks, file being written, redirect | block, acknowledge, repeat, redirect, fail, give up | the file is the server's, the client is not dropped for it, it ends |
| Snapshots: `sv_snapshot.c`, `cl_parse.c`, `cl_cgame.c` | frames and ring of entities on both sides, frame to delta from | build, delta, parse, acknowledge, hand to the client game | what the client game sees is what the server built |
| Scheduling of sends: `sv_snapshot.c` | rates, next time to send | | not starved, not above the rate |
| Events, memory: `qcommon/common.c` | ring of events, zone, hunk | queue, push, allocate, free, mark | order kept, blocks disjoint |
| Command buffer, cvars: `cmd.c`, `cvar.c` | text to execute, latched values | add, insert, wait | text executed in order |
| Message coding: `msg.c`, `huffman.c` | none | write and read deltas | reading gives what was written |
| Relay: `tools/ws-relay/relay.js`, `nxac.js` | a connection per WebSocket: UDP socket, resolved name, queue; an NxAC stream: TCP socket, timer | accept, forward, bind, resolve, reply, heartbeat, close; open, connect, data, end of a stream | datagrams in order and to the right server, no socket without an owner |
| Browser network: `net_web.c`, `net_nxac_web.c` | slots of WebSockets, sends that wait, channels of streams | open, send, reap, recycle, events; connect, send, receive, close | a game keeps its connection, a stream's data is whole |
| Lobby: `tools/p2p-lobby/lobby.js`, `src/web/etl-p2p.js`, `src/web/shell.html` | rooms, members, links; a page's connection, role, peers | host, join, reclaim, unhost, bye, cleanup; reconnect, rejoin, leave | tables agree, pages believe what is so, rooms outlive their host's connection |
| Votes: `g_vote.c`, `g_cmds.c`, `g_main.c`, `g_referee.c`, `g_client.c` | the vote, flags and counts of the players | call, vote, cancel, count, referee's and console's commands, join, leave, change sides | one vote each, the caller is there, it ends |
| Sockets: `net_ip.c` | sockets | open, send, receive | |
| Rest of the game module: `src/game` | players, match, scripts | connect, begin, intermission | |
| Client game: `cgame/cg_snapshot.c` | two snapshots | next snapshot, transitions | never backwards |
| Demos: `cl_demo.c`, `sv_demo.c` | file | record, play, seek | a demo replays as it was |
| TV server: `sv_cl_*.c` | a client inside a server | as client and server | |
| File system, VM, collision, bots, renderers, sound, menus, platform, IRC, database, updates, authentication, trackers, Android | | | see section 9 |

How they interact. A message of the server is made by the game state, snapshot
or download code, begins with the acknowledgement and the unacknowledged
reliable commands, is encoded with a key that depends on the challenge, the
sequence number and the text of the acknowledged command, and is handed to the
netchan, or waits in the client's queue while fragments are going out. The
client's messages are the same without a queue, and end with usercmds. Each
model below takes the promise of the one under it: Reliable, Gamestate,
Download and Snapshot assume the channel that Netchan is proved to implement
(`MessageChannel`: messages arrive in order, once, or are lost), and Gamestate
and Download assume that commands are executed once and in order, which is
proved of Reliable. Connection precedes them all: KeysAgree there is why the
others may leave the challenge out of the key, for users who do not try again
while an answer to the last try may be under way. WebNet composes the engine's
slots, the WebSockets and Relay; P2P composes the pages and Lobby. Vote stands
alone: what it needs of the server is that players come and go by slots.

PROJECT.json lists all components, and the hazards, at the lines where they
bite, with the properties that cover them.

## 2. Modules

| module | models | state | actions and the code they stand for |
|---|---|---|---|
| `MessageChannel` | what a netchan promises | messages waiting, sent, delivered | Submit, Release, Abandon, Deliver |
| `Netchan` | the server-to-client channel | both ends' netchan_t, the queue, every packet ever sent | MakeMessage (`SV_Netchan_Transmit`), NextFragment and NextInQueue (`SV_Netchan_TransmitNextFragment`), SV_DropClient, Netchan_Process |
| `NetchanProofs` | proofs about Netchan | | |
| `Reliable` | both rings of commands | server (client_t), client (clientConnection_t), messages under way | ServerAdds, ServerDrops, ServerSends, ServerReceives, ClientAdds, ClientLeaves, ClientSends, ClientReceives, CL_GetServerCommand |
| `ReliableProofs` | proofs about Reliable | | |
| `Gamestate` | one client's way into the world | sv, cl (client_t), client, one message each way | SV_SetConfigstring, SV_Frame, SV_SpawnServer, SV_MapRestart, SV_ExecuteClientMessage, CL_SendCmd, CL_ParseServerMessage, CL_DownloadsComplete, CL_SetCGameTime |
| `GamestateProofs` | proofs about Gamestate | | |
| `Download` | one client's downloads | server (client_t's download fields), client, messages to it, sizes | SV_WriteDownloadToClient, SV_SendClientMessages, SV_ClientCommand, CL_ParseServerMessage, Com_WebDownloadComplete |
| `DownloadProofs` | proofs about Download | | |
| `Snapshot` | one client's snapshots | frames and entity rings of both | SV_SendClientSnapshot, SV_SendMessageToClient, SV_UserMove, CL_ParseServerMessage, CL_WritePacket |
| `SnapshotProofs` | proofs about Snapshot | | |
| `Connection` | players who come and go | slots, challenges, the game's players, clients, packets outside the connection | CL_Connect_f, CL_CheckForResend, CL_ConnectionlessPacket, SV_ConnectionlessPacket, SV_PacketEvent, CL_PacketEvent, CL_Disconnect_f, CL_CheckTimeout, SV_Frame; Crash and Translate are the environment's |
| `ConnectionProofs` | proofs about Connection | | |
| `Lobby` | the lobby server | rooms, members, links, what is under way to each connection | Host, Join, Reclaim, Unhost, Bye, CleanupConnection, ReclaimTimer: operators from a state of the server to the next, as the handlers call each other |
| `P2P` | Lobby with the pages | a page's transport and the shell's part of it | Connect, HostGame, JoinGame, DispatchControl, OnLobbyClosed, LeaveGame, Reload; Break, Cleanup and RoomTimer are the environment's and the lobby's |
| `P2PProofs` | proofs about P2P and the Lobby in it | | |
| `Relay` | the relay server | connections, NxAC streams, frames under way | OnConnection, OnPacket, OnListening, OnResolved, OnHeartbeat, CloseConnection, NxOpen, NxAdvertised, NxConnected, NxData, NxFinish, operators as in Lobby |
| `WebNet` | Relay with the engine in a browser | slots, WebSockets as the browser sees them, channels, frames under way | SendPacket, WS_ReapIdleConnections, WS_OnOpen, WS_OnMessage, WS_OnClose, NX_CONNECT, NX_INFO, NX_SEND, NX_RECV, NX_CLOSE; one action per event of the relay; ServerSends, ServerEnds, ServerReplies, Pong and Break are the environment's |
| `Vote` | votes | player, team and flags by slot, level.voteInfo, the match's state and time, whether an intermission is queued | Connect, Disconnect, SetTeam, Cmd_CallVote_f, Cmd_Vote_f, G_ref_cmd, Svcmd_PassVote_f, Svcmd_CancelVote_f, Kick, Frame (CheckExitRules, then CheckVote), StartCountdown, LogExit |
| `VoteProofs` | proofs about Vote | | |
| `MC_*` | instances for TLC | | |

Definitions named `Mut...` are slips such code might have (a dropped guard, an
off-by-one, a forgotten reset). No specification uses them; each exists so
that the property it breaks can be seen to depend on the code it mutates.

What is abstracted, and where it is easy to overlook:

- A byte of a message is its message, position and key, so a mix of two
  messages is always seen. A command's text is its number.
- Messages that are merely lost are not kept apart from messages that are not
  sent: rates and pacing (`SV_RateMsec`, `SV_SendMessageToClient`) only choose
  among the schedules the models allow.
- A message that does not decode is taken as one that does nothing, or that
  carries a command the receiver refuses. That is what noise amounts to in
  Reliable; it is not a claim about every bit pattern.
- Gamestate numbers gamestates modulo 4, and Snapshot keeps every number,
  since both only compare numbers that are close. Netchan lets numbers grow:
  none of the code handles the wrap of its 32-bit sequence numbers.
- Time is only kept where it is compared: Connection keeps ages that stop to
  count, Download only whether one second, or four, may have passed.
- In Connection all players are behind one address, where ports and qports
  alone tell them apart, the hardest case. No two players are ever given the
  same port, and a translator does not reuse a port the server still sends to.
  A packet takes less than half of the resend interval. A user may try again at
  any time, as `connect` and `reconnect` allow; `hasty` remembers who did so
  before the last try was over (disconnected, and for longer than a round trip).
  Packets inside the connection of a hasty user may be noise to either end even
  if the challenges agree, since they may be of two tries with other sequence
  numbers: an over-approximation.
- Snapshot leaves out which entities a client sees (any set may be visible)
  and the player state, which is kept with its frame.
- Gamestate and Download assume a pure server and an honest client.
- What a page sends to the lobby is handled at once or lost with a broken
  connection. The page acts on nothing but messages that are under way to it,
  so a delay of its own message would only postpone the answer. The relay's
  frames are queued both ways, since there the order matters.
- A WebSocket that broke is not noticed by either end until its heartbeat or a
  close event: `broken` holds what no longer gets through while both ends still
  count it. Time is left out of P2P and WebNet: a grace period, a timeout or an
  idle slot may end at any time.
- A frame refused for a full buffer is a choice of the action that sends it. The
  notice of the refusal meets the same buffer and is refused too.
- A player in Vote is one stay in a slot. Whoever comes again is another player,
  as for the game module, which keeps nothing of the vote in the session.
- Votes that only set a cvar or load a map are like a poll until they pass. The
  intermission's own vote, on the next map, uses EF_VOTED too and is left out.

## 3. Runs

| run | instance | shows |
|---|---|---|
| `netchan` | fragments of 2, messages up to 4 (two full fragments and the empty one), queue cap 1, 4 messages | Implements (refinement of MessageChannel), FragmentsExact, QueueBounded, Drains |
| `reliable` | rings of 2, three commands each way, one message in flight each way | commands executed exactly once and in order, both ways; keys and acknowledgements agree; every command arrives unless both rings are full for good |
| `gamestate` | one map change, one restart, one configstring change | honest clients are not dropped, no move of another map, the client ends in the world with the right configstrings |
| `gamestate_arrives` | one restart | a counterexample, see section 5 |
| `download` | two files of 1 to 3 blocks, window 2, one failure | window intact, file exact, no wrongful drop, no more acknowledgements unanswered than a window, downloads end |
| `snapshot` | 3 frames, rings of 5 and 7 entities, 5 messages | the server's guess is always valid, snapshots are exact, also when the client game asks for an old number |
| `connection` | one player, two tries, two ports, two slots, a crash or a changed port | keys agree unless the user was hasty, one slot, who is there is not thrown out by late packets, tries end, dead slots are given up |
| `p2p` | a page that hosts and one that joins, four connections, two incidents (broken connections, reloads, games left) | the lobby's tables agree; what a page believes once nothing is under way is so; a room is not lost while its host is there; a host comes back |
| `relay` | three servers known by name, two slots, three WebSockets, one of them accepted by the relay at a time, three datagrams, queues of one | datagrams in order, none lost but from a full queue and never the first; a game's slot is not reaped, recycled or closed by another's event |
| `nxac` | one server known by name, one WebSocket, two streams after each other, one fault (the WebSocket breaks, or a frame is refused for a full buffer), receive queue of one | no stream or TCP socket without its connection, no data lost unnoticed, an open is answered |
| `vote` | two slots, two players and a referee, two incidents, a match that may end | one vote per player and one more after an intermission began, the caller is there, the vote ends |
| `vote_twice` | the same | a counterexample, see section 5 |

Bounds, and why they are enough. Every ring, window and queue is small enough
to overflow or roll over within the run, which is where its arithmetic can go
wrong: a ring of two is full after two commands, and the fourth message leaves
a queue of one. The number of events (map changes, restarts, failures, tries,
incidents) is one or two of each, so that each pair of them occurs in both
orders; the counters themselves are only compared with each other. What grows
with the constants beyond that is covered by the proofs of section 4; section 6
lists what they leave to these instances.
MaxInFlight bounds what is under way and not what may be lost: a packet beyond
the bound is lost, or in Connection pushes another out. Deadlock is not checked
where the model stops at its bounds (all messages made, everyone dropped, no
connections left to make); it is checked in the `gamestate` runs.

In `connection` the second try may come at any time after the first, so that
the user is hasty or not. One player never finds the server full: that answer
of `SV_DirectConnect` (no `Place`), and with it ConnectEnds' exception for a
full server, is not reached in the run. TypeOK and NotThrownOut were also
checked with two players and one slot (783,091 states), and KeysAgree,
OneSlotPerPlayer and NotThrownOut with one player and three tries (1.3
million); the proofs of section 4 are for any number of each.
`relay` and `nxac` are one specification: the first has no streams, the second
one datagram. The properties of `p2p` also held with five connections and three
incidents (2.8 million states) and with two guests (5.5 million), those of
`nxac` that are invariants with two WebSockets (1 million); the runs are smaller
to end within minutes. In `vote`, symmetry and a view that leaves out what a
finished vote leaves behind in fields nothing reads again keep the instance
small; no liveness is checked there, so both are sound.

Fairness. `SV_Frame` and `CL_Frame` run for ever, so what a side does in its
frame is weakly fair: sending, resending, timeouts, the next fragment, the end
of a map's loading. Of the network only this is assumed, where a liveness
property needs it: of a message that is sent again and again one gets through
(strong fairness of its receipt). Nothing is assumed of users, crashes, losses
or the order of things. Netchan's Drains needs no network at all. Lobby, relay
and pages are event loops: that messages are dispatched, timers fire and a
page reconnects (its timer does it) is weakly fair; what users do, what breaks,
and that a server answers or a name resolves is not. Vote needs no fairness:
VoteEnds bounds the time of a vote in any state.

## 4. What is proved

### Netchan

`NetchanProofs` proves, for every fragment size, message length, queue cap and
number of messages:

- `TypeCorrect`: Spec => []TypeOK
- `FragmentsAgree`: Spec => []FragmentsExact
- `QueueInBounds`: Spec => []QueueBounded
- `Refinement`: Spec => Implements, that is, Netchan implements MessageChannel

from `NetchanAssumption` (a fragment has at least one byte, the bounds are
natural numbers). FragmentsExact is PacketsAgree /\ BufferIsPrefix /\
SenderInOrder, and the invariant is `IInv == TypeOK /\ SenderInOrder /\
PacketsAgree /\ BufferIsPrefix`. None of its parts is inductive alone. That the
receiver never joins pieces of two messages (BufferIsPrefix) needs that any two
packets with one sequence number are parts of one message (PacketsAgree),
since the network may deliver any packet ever sent at any time. That in turn
needs that the sequence number belongs to the message under way until its last
fragment has gone (SenderInOrder), which is what the queue is for: a message
made meanwhile would go out under the same number. For the refinement the
abstract channel's `last` is the receiver's incomingSequence, and message
number i on the wire has sequence number i; a step maps to Submit, Release,
Abandon, Deliver or a stutter, and a delivered message is the clear text of
the one sent because all its bytes carry the key of its number (DecodedIsClear).
QueueBounded is inductive with the types alone.

### Votes

`VoteProofs` proves, for every number of slots, players and referees, all times
and limits, and any number of calls and incidents:

- `OneVoteEach`: Spec => []EveryVoteCounted
- `VoteOfItsCaller`: Spec => []CallerPresent
- `VoteInTime`: Spec => []VoteEnds

from `VoteAssumption` (the slots are finitely many, times and limits are natural
numbers, MinTime < VOTE_TIME < StartTime: a vote is first counted a second after
the call, and takes 30; the map starts later than VOTE_TIME after the level was
loaded, since voteTime could else be 0, which means no vote). The invariant is
`IInv`: the types, a player is in one slot (OneSlotEach), nobody has voted who
is not there and has not left (VotersCame), an intermission is queued only in a
match and ballots were set aside only by one that began (OneIntermission), and of
a vote that is on, VoteSound.
VoteSound says of its number of votes that it is the number of ballots, those
taken since an intermission began (`ballots`) and those before (`before`), of
EF_VOTED that exactly those carry it whose vote is in `ballots`, of the slot in voteCaller
that the caller is in it, and of the times that voteTime is not after the call,
the call not after now, and that either less than VOTE_TIME has passed since
voteTime or no frame has run since the call.

Why each part is needed. A newcomer whose slot was cleared has no EF_VOTED, and
that is right only if he has not voted: VotersCame (in the model a player who
has left does not come back; section 5 says what happens when one does). A vote
counts one more ballot only if the voter's is not there already, which needs
the agreement of the flags and the ballots and, for the others' flags,
OneSlotEach. The flags are taken away a second time at the intermission, while the
count stays: that this happens at most once for a vote is OneIntermission, for the
match is over then. VoteEnds is about the time of the call and CheckVote about
voteTime, which for a vote late in a map lies before the call: the last
part relates the two. That one slot's departure can only end the vote or keep
all its fields is a relation of two records, `Kept`, which every handler but
the call, the ballot and the frame is shown to respect (KeptStays).

### Reliable commands

`ReliableProofs` proves, for rings of every size (256 in the code), any number of
commands of both sides and of messages under way:

- `TypeCorrect`: Spec => []TypeOK
- `CommandsAreExact`: Spec => []CommandsExact
- `AcknowledgementsSound`: Spec => []Acknowledgements
- `KeysAlwaysAgree`: Spec => []KeysAgree

from `ReliableAssumption` (a ring has at least one slot, a link takes at least
one message). The invariant relates four copies of one sequence of commands: the
ring of the side that adds them, what messages carry of it, the ring or the
counter of the other side, and what was executed. A ring `Holds` its newest R
commands, each under its number modulo R. Of a message under way (`ToServerSound`,
`ToClientSound`) the invariant says that it acknowledges what has arrived and no
less than the other side believes, that its commands go on where the receiver
stopped or before (`NoGap`), and that each has the text it was given as long as
the ring it came from was not overwritten; and messages are in the order of
their acknowledgements (`InOrder`), or a late one would take back what a
newer one acknowledged. CommandsExact alone is not inductive, because a ring's
slot is read long after it was written: that the slot still holds the command
needs the distance between the two ends of the ring, and that distance is what
the other side's acknowledgements bound. The two directions cannot be proved
apart: the acknowledgement of one travels in the messages of the other. Everything
about texts is under `intact`, since both rings can be overwritten (section 5);
what the key is read from is therefore compared slot by slot, not with
the command's number. The arithmetic is that two numbers less than R apart and
equal modulo R are the same (`SlotsApart`).

### World entry

`GamestateProofs` proves, for any number of maps, restarts, changes and losses:

- `TypeCorrect`: Spec => []TypeOK
- `HonestClientsServed`: Spec => []HonestServed

from `GamestateAssumption` (the bounds are natural numbers). HonestServed says
three things: a client is dropped for a "cp" of another map or for a usercmd
that overtakes its "cp", or a usercmd of one map is executed in another, only
after a restart took the client in without a gamestate (`stranded`, section 5),
and a client that is primed for the last gamestate has the map that runs. None
of it is inductive. The messages carry gamestates modulo 4, serverIds, and the
number of commands the client has, and the server judges a message by these
alone. The invariant says what they imply:

- `Counted` and `Ordered`: commands and gamestates are known in the order they
  were sent, and client and server are at most one gamestate apart;
- `IdsGrow`: ids never go back, and those of the map that runs are exactly those
  from restartedServerId on, for the client's own id, its "cp"s and every message;
- `HasThisMap`: who has the map that runs has acknowledged its gamestate, and has
  a "cp" of its own under way before it makes a usercmd for it;
- `Entering`, `Connected`, `WaitsForThisMap`: while the client is not in the world,
  the map has not been restarted and no command mentions its id, so that only the
  gamestate brings the client there, and a client that missed it says so before it
  has the map;
- `InThisWorld`: one in the world has the map; if its "cp" has not come, a restart
  took it in, and every id it learns is of this map (`Refreshed`);
- `Heard`: no "cp" of this map was executed without being heard;
- `Excused`: a dropped client, or a wrong move, was stranded.

### Downloads

`DownloadProofs` proves, for every window, any number and size of files, any loss,
any number of failures and of messages under way:

- `TypeCorrect`: Spec => []TypeOK
- `WindowKept`: Spec => []WindowIntact
- `BlocksAreExact`: Spec => []BlocksExact, what the client has written of a file is the
  beginning of the file it asked for, where NoStaleBlocks holds
- `HonestClientsKept`: Spec => []HonestNeverDropped

from `DownloadAssumption`: a window of at least one block, more than twice as many
block numbers as the window (the code has 48 and 65536), at least one file, sizes
of at least one block. The invariant has two parts. What always holds (`Types`,
`Acknowledged`, `Window`, `Gone`) gives the window: each block from the first
that is not acknowledged to the last that was read is in its slot, since a slot
is only written when the block it held was acknowledged. What the client gets
holds as long as no block can be taken for a block of another file
(NoStaleBlocks: no file is shorter than the window, and none was given up;
section 5 says what happens otherwise), and is the part called `Fresh`. It
follows the one sequence of the client's commands, of which the server has
executed a part:

- `ClientSide`: every command fits the one before it (`Shape`), the client is in
  the state its last command left it in (`AsAsked`), it has written the beginning
  of the file (`Written`), and a block under way whose number it expects is of
  this file and within a window (`Expected`, `InWindow`). Blocks of an older file
  come before block 0 of this one, and block 0 of an older one never comes again:
  that is where a file as long as the window is needed;
- `ServerSide`: while a file is sent, the next K commands are acknowledgements of
  the K blocks after the one the server waits for, for some K, and the client
  either still writes that file or has all of it (`Sending`: `Receiving`,
  `Received`); otherwise no acknowledgement is outstanding (`NotSending`). A file
  is closed before the next is asked for (`Closed`), nothing follows a request for
  the gamestate (`Unanswered`), and the server knows of a redirect when its answer
  comes (`Redirecting`).

So every command meets the state that it was meant for, which is
HonestNeverDropped, and never more than a window of acknowledgements is
unanswered.

### Snapshots

`SnapshotProofs` proves, for rings of every size, any entities, states and sets of
visible entities, and any loss or delay:

- `TypesHold`: Spec => []TypeOK
- `DeltasKnown`: Spec => []FramesKnown, what the server may delta from, the client has
- `DeltasHold`: Spec => [](MaxEntities <= PARSE_MARGIN => DeltasValid)
- `SnapshotsHold`: Spec => []SnapshotsExact, which has MaxEntities <= PARSE_MARGIN as its
  condition
- `DeltaGivesSnapshot`, about the operators: what CL_ParsePacketEntities makes of an
  old snapshot and the delta SV_EmitPacketEntities made from it is the new one

from `SnapshotAssumption`: the server's ring has room for one snapshot, the
client's for PARSE_MARGIN entities, and there are more frames than DELTA_MARGIN.
DeltasValid and SnapshotsExact are proved if no snapshot has more entities than
PARSE_MARGIN, 128 in the code, and the code does not say so (a snapshot may have
up to 2048 there; section 5): without it an entity of the old frame is overwritten
while it is merged, and what the client counts from there on need not be
what the server counts. The run `snapshot` has snapshots of two entities and a margin of
two; section 5 says what happens without the condition.

The first half of the module is about the operators. The entities of a snapshot are
sorted by number, which is a CHOOSE by rank (`InOrderIs`, from the cardinality of
what comes before); the count of the entities since a message grows by the
last frame's (`CountedIs`); the delta has of the new entities those that changed and
of the others that they are gone (`EmitIs`). CL_ParsePacketEntities is a
recursive function; what it computes is not proved by induction over data but by
one over turns: after k turns, everything whose number is less than the next
one's is done and nothing else (`MergedTo`, kept by `MergeStep`), and a turn reads
what was in the ring at first, since what it writes is at most MaxEntities behind
(`OldRead`).

The second half is the invariant, in three layers. `InStep`: both sides count
messages and entities in step, and no acknowledgement is ahead. `FramesKnown`: a
slot of the client's ring of snapshots that is valid holds one of the last
PACKET_BACKUP messages; this is where the slots of lost messages must be
cleared, for of PACKET_BACKUP messages in a row exactly one has a given slot
(`SlotTaken`). `Known`, which needs the margin: `CountsKnown` says that the server
counts no less than the client has put into its ring, counting what is under
way, for the last acknowledgement and for every one that may still
come; it is an inequality because messages are lost, and it is what makes the
margin safe. `ServerRingKnown` and `ClientRingKnown` say which frames the two rings
still hold entirely: in each ring, those less than its size behind (the server's
is written by other clients' snapshots between two), and so the delta, taken from
the server's ring, is from the same snapshot as the client merges it with. A
snapshot's history variable `built` is compared with, never read by the code.

### Connection

`ConnectionProofs` proves, for any number of players, ports, slots and challenges,
and whatever the timeouts are:

- `OnePlayerOneSlot`: Spec => []OneSlotPerPlayer
- `ChallengesAgree`: Spec => []KeysAgree
- `StayingKeepsSlot`: Spec => NotThrownOut

from `ConnectionAssumption`: no two players share a port, and twice the time a packet
may be under way is less than sv_reconnectlimit. (That it is less than the resend
interval is not used.) OneSlotPerPlayer is of every player. KeysAgree and NotThrownOut
are of those who are not `hasty`, and the first fails for the others (section 5). NotThrownOut also excepts a player who has left an earlier slot that
is free now; section 5 says why.

For the first theorem: the slots say who a client claims to be, the game says whom it
has let in. A refused client leaves its name in a free slot, and the game may still
have the player who had that slot before, so that the two agree in no simple way. The
invariant is that a connected slot is the game's slot of its player (`Admitted`), and
that the game has nobody twice (`NobodyTwice`); each is needed for the other when a
client connects, for the game refuses a guid it has (`Denied`).

That the keys agree rests on everything that is under way, since no answer names the
request it is for. The second invariant, `Agreed`, has these parts, all but the first two
only of players who are not hasty (`Settled`):

- `Owned`: ports and qports tell whose a slot or a packet is;
- `Numbered`: a challenge in the table is there once, and none that a packet or a
  client holds is greater than all of the table, so a new one is new to all;
- `Waited`: a client that is disconnected for so long that its last try is over has no
  request and no answer under way, by their ages;
- `OneTry`: all connects of a player that are under way have the same qport and
  challenge, and those of the try that is going on if there is one;
- `Apart`: no two slots of a player share a port or a qport, and neither the client
  nor a connect that will be let in has the port of one and the qport of another. This
  is what a translated port could break: it needs what a port says of the
  process that had it (its last two conjuncts), and that two connects with the
  same challenge come from the same port, or one of them is refused;
- `Keyed`: once a connectResponse is under way the slot has the client's
  challenge, and before that nothing is claimed;
- `Recent`: the slot of a connected client is at most MaxAge older than the
  youngest connect of the client can be, so that the quick reject of
  `SV_DirectConnect` meets every connect that comes late.

What a hasty player does must not touch the others: a slot it drops is one whose
qport it has, and so none of theirs (`OnlyHeard`, `HeardApart`), and what is under way
to or from it has ports of its own. KeysAgree follows from `Keyed`, NotThrownOut from
`Recent` and `Apart`.

### Lobby

`P2PProofs` proves, for any number of pages, connections and rooms, whatever pages
do, break or reload:

- `TablesAgree`: Spec => []LobbyConsistent
- `RoomsKept`: Spec => HostKeepsRoom
- `PagesAgree`: Spec => []PagesKnow

from `LobbyAssumption` (limits are natural numbers) and `P2PAssumption` (a page hosts or
joins). The lobby alone does not keep its tables in order: a connection that
hosted one room and joined another would lose the link it needs when the first
of them ends, because links do not say which room they are for. That no
connection does both is up to the pages. So the invariant has the lobby's tables
(`RoomsSound`, `Members`, `Hosting`, `Linked`, `Symmetric`, `Forgotten`, together
`Sound`) and the pages (`HostPage`, `GuestPage`): a connection belongs to one page,
a page that hosts is sent no "joined" and one that joins no "hosted", which keeps
its role, and with it what it asks the lobby for. `Forgotten` takes a set of
connections that are just going, because CleanupConnection removes the connection
first and its traces afterwards; every handler the cleanup calls is shown to keep
the tables in between.

That nothing ends a room under a host whose connection works rests on the pages
as well: HOST and RECLAIM end the room the connection hosted before. A page asks
when it is welcomed, when a reclaim is refused, and while it has no role and nothing
pending; the answer to an earlier request that came late could make it look so while
it hosts a room or is about to. So the
invariant counts what can still prompt a page that hosts (`HostAwaits`): at most
one "welcome", "hosted" or "error" is under way to it, an "error" only if it hosts
nothing, and nothing at all when the page may ask. Every handler's lemma proves,
with the tables, that it sends no other connection such a message and gives it no
room (`Calm`), and that it ends no room but those of the connection it serves
(`Keeping`). The cleanup of a connection that was taken over ends nothing, for
the room has another host by then.

What a page believes when nothing more is under way to it follows from what each message
under way will make it believe (`KInv`):

- `GuestHears`, of a page that joins: "joined" can only be the first message under way,
  and what ends a stay ("hostback", "roomclosed", an "error", or the "welcome" of a new
  connection) only the last, after which its connection is in no room. While
  the connection is in a room, the page or the "joined" under way names the room, and
  the host it has, unless a "hostaway" follows and the room has none (`Believes`).
- `HostHears`, of a page that hosts: a "hosted" under way names the room its connection
  hosts; without one, the page itself does. Every guest in that room is in its table
  of peers, or a "peer" under way will put it there, and no "peerleft" after that
  takes it out again (`WillKnow`). A refusal under way to a page with a token is "noroom"
  for the room that it reclaims.
- The rooms that two pages could ask for are different ones (`Known`: those remembered,
  held, or named by a "hosted" under way). Else the second would take the room, and the
  first, which the code does not tell, would go on believing that it hosts it.
- The hosts that a page that joins knows of are no connections of pages that join
  (`Hosters`), so a "bye", of which the server only checks that the recipient
  exists, takes no guest by surprise.

For every handler a lemma says what it does to the connections it was not called for
(`GuestStep`, `HostStep`): nothing, or a change of the room together with the message
that reports it. `KnowledgeKept` then has one page that acts and all others, which keep
what they know by `GuestStays` and `HostStays`.

### How the invariants were found

Each inductive invariant was first checked by TLC on the instance of its run, as an
invariant. Attempts at the proofs corrected the models in five places:

- In P2P, HandleError follows the order of tests in `etl-p2p.js`, as disjoint
  cases; before, a refused reclaim could be read two ways.
- That the server sends nothing it has not read (`xmitBlock` up to `currentBlock`,
  in TypeOK of Download) holds only where no stale block is: with a window of three or more,
  acknowledgements of a file that was given up can push clientBlock beyond the end
  of the next. It takes more messages under way than the run has.
- NotThrownOut held in its first run, which has one slot, and not in general: with
  two slots, two ports, three entries for challenges and two changes of the port, TLC
  shows a player thrown out by its own repeated connect (section 5). It now says
  when.
- PagesKnow said of every page that hosts that its connection hosts its room. A page
  whose room is gone asks for another, and believes that it hosts even when that
  is refused: with `maxRooms` = 1 TLC shows it (section 5). It now says that such a
  page, which has no token, hosts nothing.
- WindowIntact bounds the acknowledgements ("nextdl") that are unanswered. All
  unanswered commands together are not bounded by the window: each late block gets
  a "stopdl".

## 5. Where the code does not do what it says

Two are runs whose counterexample TLC prints, with the comment quoted in
PROJECT.json:

- `gamestate_arrives`: a map_restart while a client waits for its gamestate makes it
  CS_ACTIVE, and a lost or unsent gamestate is then never sent.
- `vote_twice`: the match ends while a vote is on. `BeginIntermission` takes EF_VOTED from
  everybody (`MoveClientToIntermission`), the vote and its count stay, `vote` is allowed
  in an intermission and `CheckVote` goes on: who has voted is counted twice.

The following were met while modelling and have no run of their own; of the first two
TLC gave a counterexample, to KeysAgree without its exception and to SnapshotsExact
without its condition (three entities, a margin of one and a ring of four).

Game server and client:

- `CL_Connect_f` tries again at once, and no connectResponse says which try it answers
  (`CL_ConnectionlessPacket`). The server lets the first try in, its connectResponse is
  late, and the user connects again: the challenge is marked connected, so the second
  try gets another one, and then the late answer ends it. The client is CA_CONNECTED
  with a challenge its slot does not have, and neither can decode the other.
- `CL_ParseSnapshot` accepts a delta if 128 slots of the ring are left behind the old
  frame. A snapshot that puts more entities than that before one of the old frame
  overwrites it before it is copied, and what is kept as a "valid delta parse" has
  another entity in its place. The server tests the same margin before it counts the
  snapshot it is about to send (`sv_snapshot.c`), so a large one is not sent
  uncompressed for its own size.
- A client dropped for another reason while its ring is exactly full overflows
  inside `SV_DropClient` and is dropped twice ("recursively", `sv_main.c`); the
  game module is told twice.
- Commands from before a gamestate are executed after it was parsed
  (`cl_cgame.c`), and an older configstring wins.
- Blocks of a download carry no file. Block 0 of a short file, sent again, is
  taken for block 0 of the next file, and its acknowledgement gets the client
  dropped as broken (`sv_client.c`).
- `CL_AddReliableCommand` (`cl_main.c`) tests with `>` before it adds: with
  exactly 256 outstanding it overwrites the oldest, against its own comment.
  `intact` in Reliable is FALSE from there on, and ClientCommandsExact (in
  CommandsExact) and NoCommandsLost (in Acknowledgements) only hold before.
- The queue takes MAX_NETCHAN_QUEUE + 1 entries, not the 32 of the comment at
  its definition (QueueBounded states what it does).
- `SV_Netchan_Decode` and `CL_Netchan_Decode` read the slot of the
  acknowledged command; with a full ring that slot holds a newer one. When both
  rings are full nothing decodes any more (BothFull).
- A dropped client whose ring is nearly full never gets its "disconnect"; a
  client whose ring is overfull and who disconnects raises an error inside an
  error and ends the process ("fatal" in Reliable).
- After a map change and a map_restart the client learns the new serverId from
  a command and not from a gamestate, and moves for the old map are executed.
- `SV_ExecuteClientCommand` skips "userinfo", "cp", "download" and "donedl"
  while a restart waits, but counts them as executed. In `SV_VerifyPaks_f` the
  test `j > nServerPaks` is never true.
- Acknowledgements of another file may push downloadClientBlock past
  downloadCurrentBlock, and a client may then wait for ever for a file the server
  takes as complete. The gamestate after "donedl" or "wwwdl fail" is sent once
  and not resent. A late redirect is taken for the file asked for next. Each late
  block gets a "stopdl". Block numbers are 16 bits with sign: a file of 32 MB or
  more times out.
- `SV_DropClient` is by its comment called whenever a player leaves, and it is
  what tells the game. `SV_DirectConnect` wipes a slot without it and then asks
  the game, which refuses a guid it still has ("Duplicate etkey"). So when a
  connectResponse is lost, or a client restarts within sv_timeout, the next
  connect is refused, its slot is free for the server and taken for the game,
  and the player cannot come back until someone else gets that slot. In
  Connection this is Denied and Refused; ConnectEnds counts it as an end.
- The quick reject of `SV_DirectConnect` looks at the first slot with the
  client's port or qport, also a free one, and matches by port although
  `SV_PacketEvent` says the port "can't be used". A player that has left a slot
  that is free now, and connects into a later one, is not protected: a repetition of its
  own connect is not "too soon" for the free slot, takes the player's slot and is
  denied by the game, which has the player (LeftEarlier in NotThrownOut). It takes
  two changes of the port with three entries for challenges; the run, which is
  smaller, passes without the exception. A challenge may be used more
  than once; `SV_DropClient` releases only the first entry of an address;
  `svs.challenges[i].firstPing` is reset with an index that then counts slots.
- lastPacketTime is 0 after connectResponse, so a client whose process is
  older than cl_timeout times out if no packet comes within six frames.
- The client handles an out-of-band "disconnect" the server never sends.
- lastValidGamestate is kept and drops nobody.

Votes:

- "Only fail vote if more than half vote no." (`g_main.c`): it fails when two
  noes or more reach the threshold the ayes must exceed, `vote_percent` of the
  voters, which need not be half: at 60 percent of five, three fail and four pass.
- The votes of players who have left stay in the count, and the majority is
  taken of those who are there. A player who leaves and comes back while a vote
  is on has a cleared slot and may vote again.
- `VOTE_TIME` is taken from the end of the map for a call that comes late. With
  no timelimit the end is the start, so voteTime lies VOTE_TIME before the start
  of the map and every vote times out in the next frame; if the difference
  is 0, there is no vote at all.
- When a referee's command moves the caller of a vote, `ClientSpawn` cancels
  the vote and says so to everyone ("Caller switched team"); then `G_ref_cmd`
  puts the saved voteInfo back, and the vote goes on unseen.
- A vote to kick goes by the slot, and nothing ends it when that player leaves:
  who is in the slot when it passes is kicked. Of a spectator's kick both sides
  may vote, but only the caller's side is counted against.

Lobby and pages:

- When a room is taken over (`lobby.js`, reclaim) while its former host is still
  registered, guests get "hostback" without "hostaway" before it. The page
  (`etl-p2p.js`) keeps the old host as its peer number one, which its comments
  say the host always is, and the new host becomes number two.
- A guest that reconnects while its room has no host or is gone is told
  "hostaway" or "noroom" and does not join again by itself; nor does one that is
  refused after "hostback".
- The promises of host() and join() are not settled when the socket is lost
  before the answer comes.
- A page whose fallback to a new room is refused ("toomanyrooms") goes on
  believing that it hosts, and the id of an unattended fallback's room is not
  remembered by the shell around it.
- A host keeps peers of guests that left while it was away; a guest's own ghost
  may fill the slot it comes back for; connections between a guest and a former
  host stay until the cleanup of the page. A reclaim that makes a public
  room private does not send the list.

Relay:

- The notice that too much is buffered is refused for the same full buffer, so
  the stream at the client waits until the game module closes it. There is no
  flow control: a stream fails once more than 64K are unread.
- `test-nxac.mjs` lets the server answer with `\port\` and `nxac.js` reads nport.
- A local endpoint that is closed before it was accepted is kept until its
  listener closes; a peer channel the host's module has not closed makes
  an `open` with its id and address a silent no-op.
- In the download proxy of `relay.js` a client that goes away frees its slot
  while the file is still fetched.

## 6. Only model-checked, and why

- Liveness: Drains, CommandsArrive, EntersWorld, Converges, DownloadsEnd,
  ConnectEnds, AbandonedFreed, HostReturns, OpenIsAnswered and the like. The prover
  has no rules for fairness and ENABLED.
- Connection.TypeOK bounds the challenges by the number of tries, which is so on
  the instance and not in general: with fewer entries than ports in use, requests
  overwrite each other's entries and a new challenge is made for every packet. The
  types without that bound are part of the invariant (`Types`).
- Relay and WebNet: PacketsInOrder is about SelectSeq of a queue, a recursive
  operator of the library, of which the prover knows nothing for every length.
  StreamsOwned and StreamExact can be proved, and are not yet.

## 7. Hazards not covered

Three hazards have no property. Block numbers beyond 32767 need more blocks than
an instance can have. The margin of 128 is not enough for a snapshot with more
entities (section 5), which SnapshotsExact and DeltasValid except. A kick goes by
the slot whoever is in it by then: this happens in Vote, and nothing in the code
promises otherwise.

Five are covered in part. KeysAgree excepts users who try again at once, of whom
the hazard is real. DownloadsEnd counts a lost gamestate after the downloads as an
end, and so does not show that the client gets it. PagesKnow is about who hosts a
room, and does not see the place a new host has in a page's table of peers.
OpenIsAnswered excepts a notice that is refused for the full buffer it tells of.
The table of challenges is full in the run by the entries of one player's ports
only. Section 5 describes what the code does in all but the last.

## 8. Plan

Done, in this order: Netchan with its abstract channel and proofs, Reliable,
Gamestate, Download, Snapshot, Connection; Lobby and P2P; Relay and WebNet;
Vote with its proofs; the proofs about Reliable, Connection, P2P, Gamestate,
Download and Snapshot. Next, models:

1. `Match` (`g_match.c`, `g_main.c`): warmup, countdown, rounds and
   intermission; Vote has of it the end of a match and the countdown's begin.
2. `EventQueue`, `Zone` and `Hunk` (`common.c`): the ring of events with what is
   pushed back, the allocator's rover and merging, the hunk's marks; abstract
   specification: a queue, a set of disjoint blocks.
3. `DeltaCoding` (`msg.c`): reading what was written against the same old state
   gives the new state, over all small states; feeds Snapshot.
4. `Demo` (`cl_demo.c`): a recording that starts in the middle, against
   Snapshot; `ClientGameSnapshots` (`cg_snapshot.c`) on top of it.
5. The leaky bucket of `sv_main.c`, rates of `sv_snapshot.c`, the command buffer.
6. Compositions: Reliable over Netchan's queue (which message acknowledges
   what when it leaves the queue late), Gamestate after Download.

Abstract specifications worth stating: commands as a pair of FIFO channels
(Reliable implements it while the rings are intact), a register per
configstring that the client's copy follows, a file that grows to the server's
(Download), a sequence of worlds of which the client sees a subsequence
(Snapshot), a room as its set of members (Lobby).

Next proofs: StreamsOwned of WebNet, and StreamExact with it.

## 9. Not modelled

Of the modelled parts. Connection: bots, private slots, passwords, limits per
address, ping limits, temporary bans, rate limits, ETTV slaves and `sv_hidden`;
in a challenge pings are only statistics; local clients need no challenge. Lobby
and pages: the push of the list of rooms, settings, the WebRTC handshake itself,
packets relayed over the lobby, NxAC over it, and a restart of the lobby, which
keeps nothing. Relay: limits on sizes, the cache of advertised ports, the HTTP
download proxy, the shutdown. Votes: mutes, bots, cvars that disable votes,
complaints, the votes of an intermission for the next map.

Floating-point geometry and physics (collision, world sectors, movement,
wallhack protection, skill ratings) cannot be enumerated. Renderers, sound,
video, menus, input, platform and Android code have no protocol. The file
system, database, updates, authentication and trackers are I/O around calls
that either succeed or fail; where that matters to a modelled part, the
failure is a choice of that model. The VM only loads native modules. IRC, game
scripts and the TV server have behaviour worth modelling, after the plan above.

The greater part of the repository's 600 thousand lines is of these kinds: three
renderers, the game's and the bots' geometry, menus and tables of data. The
modelled part is the code in which several parties act on shared state.
