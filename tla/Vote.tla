-------------------------------- MODULE Vote --------------------------------
(***************************************************************************)
(* The votes of the game module: a player calls one, the others vote, and  *)
(* a frame of the server counts.  Meanwhile players come, go and change    *)
(* teams, referees give orders that run as a vote does, and the console    *)
(* passes or cancels the vote.                                             *)
(*                                                                         *)
(* A slot is a client of the game module with the entity of that number; a *)
(* player is one stay in a slot, from ClientConnect to ClientDisconnect.   *)
(* Bots neither vote nor count, and muted players are players who do not   *)
(* vote: both are left out, as are the cvars that disable votes.  Time is  *)
(* in seconds; any number of frames fall into one.  An intermission, or a  *)
(* countdown, ends with the module loaded anew: behaviours end there.  The *)
(* intermission's own vote, on the next map, is left out.                  *)
(***************************************************************************)
EXTENDS Integers, FiniteSets

CONSTANTS Slots,
          Players, Referees,  \* those who may come, and those of them who log in
          None,               \* no player, no slot
          VOTE_TIME, MinTime, \* how long a vote may take, and takes
          vote_percent, vote_limit, timelimit, match_minplayers,
          VOTEF_USE_TOTAL_VOTERS, VOTEF_NO_POPULIST_PENALTY,
          Stopwatch,          \* whether g_gametype is GT_WOLF_STOPWATCH
          StartTime,          \* level.startTime
          WarmupLength,       \* of the countdown
          MaxTime,            \* bound: when behaviours end
          MaxCalls,           \* bound: votes of a referee that did not pass
          MaxIncidents        \* bound: players who leave or change sides, referees'
                              \* and the console's commands

\* StartTime: with timelimit 0, voteTime would be 0, no vote, if it were VOTE_TIME.
ASSUME VoteAssumption ==
  /\ Referees \subseteq Players /\ None \notin Players \cup Slots
  /\ IsFiniteSet(Slots)
  /\ {VOTE_TIME, MinTime, vote_limit, timelimit, match_minplayers, StartTime, WarmupLength,
      MaxTime, MaxCalls, MaxIncidents} \subseteq Nat
  /\ MinTime < VOTE_TIME /\ VOTE_TIME < StartTime
  /\ vote_percent \in Int
  /\ {VOTEF_USE_TOTAL_VOTERS, VOTEF_NO_POPULIST_PENALTY, Stopwatch} \subseteq BOOLEAN

VARIABLES
  player,       \* the player in every slot
  team,         \* sess.sessionTeam of every slot
  marked,       \* the slots with EF_VOTED
  voteCount,    \* pers.voteCount of every slot
  vote,         \* level.voteInfo
  gamestate, time, warmupTime,
  intermissionQueued,  \* the match is over, the intermission begins with the next frame
  kicks,        \* the clientkick commands in the command buffer, by slot
  left,         \* players who have been there: who comes again is another one
  incidents,    \* how many there were
  ballots,      \* history: the players whose vote was taken for the last vote, in
                \* the intermission those whose vote was taken since it began,
  before,       \* history: and those whose vote was taken before
  caller, calledAt  \* history: the player who called it, and when

match == <<gamestate, intermissionQueued, warmupTime>>
history == <<ballots, before, caller, calledAt>>

vars == <<player, team, marked, voteCount, vote, match, time, kicks, left, incidents, history>>

Incident == incidents < MaxIncidents /\ incidents' = incidents + 1

Sides == {"axis", "allies"}

\* Of aVoteInfo, where "teams" is for those that reassign the players; NULL is "none".
Requests == {<<"kick", i>> : i \in Slots}
              \cup {<<fn, None>> : fn \in {"surrender", "poll", "teams", "startmatch"}}

Present == {i \in Slots : player[i] # None}
Voters(pl, tm) == {i \in Slots : pl[i] # None /\ tm[i] \in Sides}

CalculateRanks(v, pl, tm) ==
  [v EXCEPT !.numVotingClients = Cardinality(Voters(pl, tm)),
            !.numVotingTeamClients =
               [s \in Sides |-> Cardinality({i \in Voters(pl, tm) : tm[i] = s})]]

Init ==
  /\ player = [i \in Slots |-> None] /\ team = [i \in Slots |-> "free"]
  /\ marked = {} /\ voteCount = [i \in Slots |-> 0]
  /\ vote = [voteTime |-> 0, voteYes |-> 0, voteNo |-> 0, numVotingClients |-> 0,
             numVotingTeamClients |-> [s \in Sides |-> 0],
             vote_fn |-> "none", vote_value |-> None, voteCaller |-> None, voteTeam |-> "free",
             voteCanceled |-> FALSE, votePassed |-> FALSE]
  /\ gamestate \in {"warmup", "playing"} /\ time = StartTime /\ warmupTime = 0
  /\ intermissionQueued = FALSE
  /\ kicks = {} /\ left = {} /\ incidents = 0
  /\ ballots = {} /\ before = {} /\ caller = None /\ calledAt = 0

----------------------------------------------------------------------------
(* Players come, go and change teams.                                      *)

\* A vote whose caller is among them is over.
WithoutCaller(v, slots) ==
  IF v.voteTime # 0 /\ v.voteCaller \in slots
  THEN [v EXCEPT !.voteTime = 0, !.voteCanceled = TRUE] ELSE v

\* ClientConnect and ClientBegin, with everything a spectator's spectating needs.
Fresh(i) == marked \ {i}
Connect(i, p) ==
  /\ player[i] = None /\ p \notin left \cup {player[j] : j \in Slots}
  /\ player' = [player EXCEPT ![i] = p]
  /\ team' = [team EXCEPT ![i] = "spectator"]
  /\ marked' = Fresh(i)
  /\ voteCount' = [voteCount EXCEPT ![i] = 0]
  /\ vote' = CalculateRanks(vote, player', team')
  /\ UNCHANGED <<match, time, kicks, left, incidents, history>>

MutLeaving(v, i) == v
Leaving(v, i) == WithoutCaller(v, {i})
ClientDisconnect(i) ==
  /\ player' = [player EXCEPT ![i] = None]
  /\ team' = [team EXCEPT ![i] = "free"]
  /\ left' = left \cup {player[i]}
  /\ vote' = Leaving(CalculateRanks(vote, player', team'), i)
  /\ UNCHANGED <<marked, voteCount, match, time, history>>

Disconnect(i) == player[i] # None /\ Incident /\ ClientDisconnect(i) /\ UNCHANGED kicks

\* The command buffer: whoever is in the slot by then is dropped.
Kick(i) ==
  /\ i \in kicks /\ kicks' = kicks \ {i} /\ UNCHANGED incidents
  /\ \/ player[i] # None /\ ClientDisconnect(i)
     \/ /\ player[i] = None
        /\ UNCHANGED <<player, team, marked, voteCount, vote, match, time, left, history>>

SetTeam(i, t) ==
  /\ player[i] # None /\ t # team[i]
  /\ IF team[i] = "spectator" THEN UNCHANGED incidents ELSE Incident
  /\ team' = [team EXCEPT ![i] = t]
  /\ vote' = WithoutCaller(CalculateRanks(vote, player, team'), {i})
  /\ UNCHANGED <<player, marked, voteCount, match, time, kicks, left, history>>

----------------------------------------------------------------------------
(* What a vote does, for those who have no ent: a vote that passes, and a  *)
(* referee's.                                                              *)

\* Swapped or shuffled, every player begins anew, as after a change of teams.
Teams(fn) ==
  IF fn # "teams" THEN {team}
  ELSE {t \in [Slots -> Sides \cup {"spectator", "free"}] :
          \A i \in Slots : IF i \in Voters(player, team) THEN t[i] \in Sides ELSE t[i] = team[i]}

Executed(v, tm) ==
  IF v.vote_fn # "teams" THEN v
  ELSE WithoutCaller(CalculateRanks(v, player, tm), Voters(player, tm))

\* A surrender is a G_LogExit, which changes nothing but in a match: the
\* intermission is queued, and the flags of the players are as they were.
Execute(v, queued) ==
  /\ kicks' = kicks \cup (IF v.vote_fn = "kick" THEN {v.vote_value} ELSE {})
  /\ intermissionQueued' = (queued \/ (v.vote_fn = "surrender" /\ gamestate' = "playing"))

----------------------------------------------------------------------------
(* Calling a vote.                                                         *)

\* The checks of the kinds of votes, some with a slot for their argument.
Valid(i, fn, arg, fRefCommand) ==
  CASE fn = "kick" ->
         /\ player[arg] \notin Referees \cup {None}
         /\ fRefCommand \/ team[arg] \in {"spectator", team[i]}
    [] fn = "surrender" -> gamestate = "playing"
    [] fn = "startmatch" ->
         gamestate = "warmup" /\ Cardinality(Voters(player, team)) >= match_minplayers
    [] OTHER -> TRUE

G_voteCmdCheck(i, fn, arg, fRefCommand) ==
  IF ~Valid(i, fn, arg, fRefCommand) THEN [vote EXCEPT !.vote_fn = "none"]
  ELSE [vote EXCEPT !.vote_fn = fn, !.vote_value = IF fn = "kick" THEN arg ELSE @]

WarmupEnds == gamestate = "countdown" /\ warmupTime - time < VOTE_TIME
MayCall(i) ==
  /\ vote.voteTime = 0 /\ gamestate # "intermission"
  /\ \/ player[i] \in Referees
     \/ /\ vote_limit = 0 \/ voteCount[i] < vote_limit
        /\ team[i] # "spectator" /\ (Stopwatch \/ ~WarmupEnds)

\* The vote's time, set back when the match or the warmup is about to end.
MatchEnd == StartTime + timelimit
VoteTime ==
  IF Stopwatch /\ WarmupEnds THEN warmupTime - VOTE_TIME
  ELSE IF gamestate = "playing" /\ MatchEnd - time < VOTE_TIME THEN MatchEnd - VOTE_TIME
  ELSE time

MutUnmarked(i, fn) == (marked \ {vote.voteCaller}) \cup (IF fn = "poll" THEN {} ELSE {i})
Unmarked(i, fn) == (marked \ Present) \cup (IF fn = "poll" THEN {} ELSE {i})
Cmd_CallVote_f(i, fn, arg) ==
  LET v == G_voteCmdCheck(i, fn, arg, FALSE)
  IN  /\ player[i] # None /\ MayCall(i) /\ voteCount[i] < MaxCalls
      /\ IF v.vote_fn = "none" THEN vote' = v /\ UNCHANGED <<marked, voteCount, history>>
         ELSE /\ vote' = [v EXCEPT !.votePassed = FALSE, !.voteCanceled = FALSE,
                                   !.voteYes = IF fn = "poll" THEN 0 ELSE 1, !.voteNo = 0,
                                   !.voteCaller = i, !.voteTeam = team[i],
                                   !.voteTime = VoteTime]
              /\ marked' = Unmarked(i, fn)
              /\ voteCount' = [voteCount EXCEPT ![i] = @ + 1]
              /\ ballots' = (IF fn = "poll" THEN {} ELSE {player[i]}) /\ before' = {}
              /\ caller' = player[i] /\ calledAt' = time
      /\ UNCHANGED <<player, team, match, time, kicks, left, incidents>>

\* A referee's command is a vote that passes at once.  What it wrote into
\* voteInfo is taken back.
MutRestored(saved, v) == v
Restored(saved, v) == saved
G_ref_cmd(i, fn, arg) ==
  LET v == G_voteCmdCheck(i, fn, arg, TRUE)
  IN  /\ player[i] \in Referees /\ Incident /\ UNCHANGED gamestate
      /\ IF v.vote_fn = "none"
         THEN vote' = Restored(vote, v) /\ UNCHANGED <<team, kicks, intermissionQueued>>
         ELSE /\ Execute(v, intermissionQueued)
              /\ team' \in Teams(fn)
              /\ vote' = Restored(vote, Executed(v, team'))
      /\ UNCHANGED <<player, marked, voteCount, time, warmupTime, left, history>>

----------------------------------------------------------------------------
(* Voting, and what the console does to a vote.                            *)

\* Whether the slot may vote on this: on its own side's kicks and surrender.
Concerned(i) ==
  CASE vote.vote_fn = "kick" ->
         \/ team[vote.vote_value] = "spectator"
         \/ team[i] = team[vote.vote_value]
    [] vote.vote_fn = "surrender" -> team[i] = vote.voteTeam
    [] OTHER -> TRUE

Cmd_Vote_f(i, yes) ==
  /\ player[i] # None /\ vote.voteTime # 0
  /\ \/ /\ i \in marked /\ vote.voteCaller = i /\ ~yes
        /\ vote' = [vote EXCEPT !.voteCanceled = TRUE]
        /\ UNCHANGED <<marked, history>>
     \/ /\ i \notin marked /\ team[i] # "spectator" /\ Concerned(i)
        /\ marked' = marked \cup {i}
        /\ vote' = IF yes THEN [vote EXCEPT !.voteYes = @ + 1] ELSE [vote EXCEPT !.voteNo = @ + 1]
        /\ ballots' = ballots \cup {player[i]}
        /\ UNCHANGED <<before, caller, calledAt>>
  /\ UNCHANGED <<player, team, voteCount, match, time, kicks, left, incidents>>

Svcmd_PassVote_f ==
  /\ Incident
  /\ vote' = [vote EXCEPT !.votePassed = TRUE]
  /\ UNCHANGED <<player, team, marked, voteCount, match, time, kicks, left, history>>
Svcmd_CancelVote_f ==
  /\ Incident
  /\ vote' = [vote EXCEPT !.voteCanceled = TRUE]
  /\ UNCHANGED <<player, team, marked, voteCount, match, time, kicks, left, history>>

----------------------------------------------------------------------------
(* The frame.                                                              *)

Percent == IF vote_percent > 99 THEN 99 ELSE IF vote_percent < 1 THEN 1 ELSE vote_percent

TimedOut(now) == now - vote.voteTime >= VOTE_TIME
Total(now) ==
  IF VOTEF_USE_TOTAL_VOTERS /\ TimedOut(now) THEN vote.voteYes + vote.voteNo
  ELSE IF vote.vote_fn \in {"kick", "surrender"} /\ team[vote.voteCaller] # "spectator"
       THEN vote.numVotingTeamClients[IF team[vote.voteCaller] = "axis" THEN "axis" ELSE "allies"]
  ELSE vote.numVotingClients
Threshold(now) == (Percent * Total(now)) \div 100

Passes(now) == vote.voteYes > Threshold(now) \/ vote.votePassed
Fails(now) == vote.voteNo > 1 /\ vote.voteNo >= Threshold(now)

Over(v) == [v EXCEPT !.voteTime = 0]

\* CheckExitRules, with the queued BeginIntermission, which moves the clients
\* and takes their EF_VOTED from them, whatever vote is on.
Moved == marked \ Present
CheckExitRules ==
  IF intermissionQueued
  THEN /\ gamestate' = "intermission" /\ marked' = Moved
       /\ before' = ballots /\ ballots' = {}
  ELSE UNCHANGED <<gamestate, marked, ballots, before>>

CountdownStarted == gamestate = "countdown" /\ vote.vote_fn = "startmatch"

\* It runs after CheckExitRules, when no intermission is queued any more.
CheckVote(now) ==
  IF vote.voteTime = 0 \/ vote.vote_fn = "none" \/ now - vote.voteTime < MinTime
  THEN UNCHANGED <<vote, team, voteCount, kicks>> /\ intermissionQueued' = FALSE
  ELSE IF vote.voteCanceled
  THEN /\ vote' = [Over(vote) EXCEPT !.voteCanceled = FALSE]
       /\ UNCHANGED <<team, voteCount, kicks>> /\ intermissionQueued' = FALSE
  ELSE IF ~CountdownStarted /\ Passes(now)
  THEN /\ Execute(vote, FALSE)
       /\ team' \in Teams(vote.vote_fn)
       /\ vote' = Over(Executed(vote, team'))
       /\ voteCount' = [voteCount EXCEPT ![vote.voteCaller] =
                          IF VOTEF_NO_POPULIST_PENALTY THEN @ - 1 ELSE @]
  ELSE /\ vote' = IF CountdownStarted \/ Fails(now) \/ TimedOut(now)
                  THEN Over(vote) ELSE vote
       /\ UNCHANGED <<team, voteCount, kicks>> /\ intermissionQueued' = FALSE

\* G_RunFrame.  A countdown and an intermission end with a restart.
Frame(now) ==
  /\ now <= MaxTime /\ ~(gamestate = "countdown" /\ now >= warmupTime)
  /\ time' = now
  /\ CheckExitRules
  /\ CheckVote(now)
  /\ UNCHANGED <<player, warmupTime, left, incidents, caller, calledAt>>

\* The ready players' countdown begins.
StartCountdown ==
  /\ gamestate = "warmup" /\ gamestate' = "countdown" /\ warmupTime' = time + WarmupLength
  /\ UNCHANGED <<player, team, marked, voteCount, vote, intermissionQueued, time, kicks, left,
                 incidents, history>>

\* The time limit is hit, or an objective is lost.
LogExit ==
  /\ gamestate = "playing" /\ ~intermissionQueued /\ intermissionQueued' = TRUE
  /\ UNCHANGED <<player, team, marked, voteCount, vote, gamestate, time, warmupTime, kicks, left,
                 incidents, history>>

----------------------------------------------------------------------------

Next == \/ \E i \in Slots, p \in Players : Connect(i, p)
        \/ \E i \in Slots : Disconnect(i) \/ Kick(i)
        \/ \E i \in Slots, t \in Sides \cup {"spectator"} : SetTeam(i, t)
        \/ \E i \in Slots, r \in Requests :
              Cmd_CallVote_f(i, r[1], r[2]) \/ G_ref_cmd(i, r[1], r[2])
        \/ \E i \in Slots, yes \in BOOLEAN : Cmd_Vote_f(i, yes)
        \/ Svcmd_PassVote_f \/ Svcmd_CancelVote_f
        \/ \E now \in {time, time + 1} : Frame(now)
        \/ StartCountdown \/ LogExit

Spec == Init /\ [][Next]_vars

----------------------------------------------------------------------------
(* Properties.                                                             *)

\* EF_VOTED is kept with a client's other flags, through respawns, changes of
\* teams and calls of later votes, and voteYes and voteNo in voteInfo: still
\* every player has one vote, a newcomer to a slot has not voted, and nobody is
\* kept from voting by an earlier vote.  The exception is an intermission that
\* begins while a vote is on (BeginIntermission): then everybody has one more.
EveryVoteCounted ==
  vote.voteTime # 0 =>
    /\ vote.voteYes + vote.voteNo = Cardinality(ballots) + Cardinality(before)
    /\ before # {} => gamestate = "intermission"
    /\ \A i \in Present : i \in marked <=> player[i] \in ballots

\* bg_public.h:745 says of EF_VOTED "already cast a vote", and Cmd_Vote_f answers
\* "Vote already cast" to who has it: no player would be counted twice, in an
\* intermission either.
VotedOnce ==
  vote.voteTime # 0 => vote.voteYes + vote.voteNo <= Cardinality(ballots \cup before)

\* A vote is its caller's: the limit, the side that may vote and counts, and the
\* right to cancel go by the slot in voteCaller.  It never belongs to another
\* player who got the slot.
CallerPresent == vote.voteTime # 0 => player[vote.voteCaller] = caller

\* While a vote is on, nobody can call another.  It ends within VOTE_TIME,
\* whatever referees, the console and those who leave do.
VoteEnds == vote.voteTime # 0 => time - calledAt < VOTE_TIME
=============================================================================
