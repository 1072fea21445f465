----------------------------- MODULE VoteProofs -----------------------------
(***************************************************************************)
(* Proofs about Vote for every number of slots, players and referees, all  *)
(* times and limits, and any number of calls and incidents.                *)
(***************************************************************************)
EXTENDS Vote, FiniteSetTheorems, TLAPS

----------------------------------------------------------------------------
(* The inductive invariant.                                                *)

VoteTeams == Sides \cup {"spectator", "free"}
VoteKinds == {"none", "kick", "surrender", "poll", "teams", "startmatch"}

VoteRecord ==
  [voteTime : Int, voteYes : Nat, voteNo : Nat, numVotingClients : Nat,
   numVotingTeamClients : [Sides -> Nat],
   vote_fn : VoteKinds, vote_value : Slots \cup {None}, voteCaller : Slots \cup {None},
   voteTeam : VoteTeams, voteCanceled : BOOLEAN, votePassed : BOOLEAN]

\* Types of the variables the properties depend on.
TypeOK == /\ player \in [Slots -> Players \cup {None}]
          /\ team \in [Slots -> VoteTeams]
          /\ vote \in VoteRecord
          /\ time \in Nat /\ warmupTime \in Nat /\ calledAt \in Nat
          /\ IsFiniteSet(ballots) /\ IsFiniteSet(before)

\* A player is in one slot.
OneSlotEach == \A i, j \in Present : player[i] = player[j] => i = j

\* Nobody who may still come has voted.
VotersCame == ballots \subseteq left \cup {player[i] : i \in Present}

\* Flags are taken away once, with the step that ends the match.
OneIntermission == /\ intermissionQueued => gamestate = "playing"
                   /\ before # {} => gamestate = "intermission"

\* What is so of a vote with number of votes, flags, caller and times.
VoteSound(v, pl, mk, now) ==
  /\ v.vote_fn # "none"
  /\ v.voteCaller \in Slots /\ pl[v.voteCaller] = caller /\ caller # None
  /\ v.voteTime <= calledAt /\ calledAt <= now
  /\ now - v.voteTime < VOTE_TIME \/ now = calledAt
  /\ v.voteYes + v.voteNo = Cardinality(ballots) + Cardinality(before)
  /\ \A i \in Slots : pl[i] # None => (i \in mk <=> pl[i] \in ballots)

IInv == /\ TypeOK /\ OneSlotEach /\ VotersCame /\ OneIntermission
        /\ vote.voteTime # 0 => VoteSound(vote, player, marked, time)

----------------------------------------------------------------------------
(* What the handlers do to the vote's record.                              *)

\* Numbers, caller and times of w are those of v, or w is over.
Kept(v, w) ==
  /\ w \in VoteRecord
  /\ w.voteTime # 0 => /\ w.voteTime = v.voteTime /\ w.vote_fn = v.vote_fn
                       /\ w.voteCaller = v.voteCaller
                       /\ w.voteYes = v.voteYes /\ w.voteNo = v.voteNo

\* The voters are finitely many, as the slots are.
LEMMA RanksKeep ==
  ASSUME NEW v \in VoteRecord, NEW pl, NEW tm
  PROVE  Kept(v, CalculateRanks(v, pl, tm))
<1>1. Cardinality(Voters(pl, tm)) \in Nat
  <2>1. IsFiniteSet(Voters(pl, tm)) BY VoteAssumption, FS_Subset DEF Voters
  <2> QED BY <2>1, FS_CardinalityType
<1>2. ASSUME NEW s \in Sides
      PROVE  Cardinality({i \in Voters(pl, tm) : tm[i] = s}) \in Nat
  <2>1. IsFiniteSet({i \in Voters(pl, tm) : tm[i] = s})
    BY VoteAssumption, FS_Subset DEF Voters
  <2> QED BY <2>1, FS_CardinalityType
<1>3. [s \in Sides |-> Cardinality({i \in Voters(pl, tm) : tm[i] = s})] \in [Sides -> Nat]
  BY <1>2
<1> DEFINE n == Cardinality(Voters(pl, tm))
           f == [s \in Sides |-> Cardinality({i \in Voters(pl, tm) : tm[i] = s})]
<1>4. CalculateRanks(v, pl, tm) = [v EXCEPT !.numVotingClients = n, !.numVotingTeamClients = f]
  BY DEF CalculateRanks
<1>5. n \in Nat /\ f \in [Sides -> Nat] BY <1>1, <1>3
<1> HIDE DEF n, f
<1> QED BY <1>4, <1>5 DEF Kept, VoteRecord

\* A vote is over when its caller is among those who go, and else goes on.
LEMMA WithoutCallerKeeps ==
  ASSUME NEW v \in VoteRecord, NEW S
  PROVE  /\ Kept(v, WithoutCaller(v, S))
         /\ WithoutCaller(v, S).voteTime # 0 => v.voteCaller \notin S
<1> DEFINE w == [v EXCEPT !.voteTime = 0, !.voteCanceled = TRUE]
<1>1. /\ w \in VoteRecord /\ w.voteTime = 0
  <2>1. [v EXCEPT !.voteTime = 0] \in VoteRecord BY DEF VoteRecord
  <2>2. w = [[v EXCEPT !.voteTime = 0] EXCEPT !.voteCanceled = TRUE] BY DEF VoteRecord
  <2> QED BY <2>1, <2>2 DEF VoteRecord
<1>2. CASE v.voteTime # 0 /\ v.voteCaller \in S
  <2>1. WithoutCaller(v, S) = w BY <1>2 DEF WithoutCaller
  <2> QED BY <1>1, <2>1 DEF Kept
<1>3. CASE ~(v.voteTime # 0 /\ v.voteCaller \in S)
  <2>1. WithoutCaller(v, S) = v BY <1>3 DEF WithoutCaller
  <2> QED BY <1>3, <2>1 DEF Kept
<1> QED BY <1>2, <1>3

\* What keeps a vote twice keeps it.
LEMMA KeptTransitive ==
  ASSUME NEW u, NEW v, NEW w, Kept(u, v), Kept(v, w)
  PROVE  Kept(u, w)
BY DEF Kept

\* What a passed vote does to the record, whoever is moved.
LEMMA ExecutedKeeps ==
  ASSUME NEW v \in VoteRecord, NEW tm
  PROVE  Kept(v, Executed(v, tm))
<1>1. Kept(v, v) BY DEF Kept
<1>2. CalculateRanks(v, player, tm) \in VoteRecord BY RanksKeep DEF Kept
<1> QED BY <1>1, <1>2, RanksKeep, WithoutCallerKeeps, KeptTransitive DEF Executed

----------------------------------------------------------------------------
(* The initial state and the handlers.                                     *)

\* At the start nobody has come and no vote is on.
LEMMA InitIInv == Init => IInv
<1> SUFFICES ASSUME Init PROVE IInv
  OBVIOUS
<1>1. [s \in Sides |-> 0] \in [Sides -> Nat] OBVIOUS
<1>2. vote \in VoteRecord /\ vote.voteTime = 0
  <2> DEFINE f == [s \in Sides |-> 0]
  <2>1. f \in [Sides -> Nat] BY <1>1
  <2>2. vote = [voteTime |-> 0, voteYes |-> 0, voteNo |-> 0, numVotingClients |-> 0,
                numVotingTeamClients |-> f,
                vote_fn |-> "none", vote_value |-> None, voteCaller |-> None,
                voteTeam |-> "free", voteCanceled |-> FALSE, votePassed |-> FALSE]
    BY DEF Init
  <2> HIDE DEF f
  <2> QED BY <2>1, <2>2 DEF VoteRecord, VoteTeams, VoteKinds
<1>3. TypeOK
  BY <1>2, FS_EmptySet, VoteAssumption DEF Init, TypeOK, VoteTeams
<1>4. Present = {} BY DEF Init, Present
<1>5. OneSlotEach /\ VotersCame /\ OneIntermission
  BY <1>4 DEF Init, OneSlotEach, VotersCame, OneIntermission
<1> QED BY <1>2, <1>3, <1>5 DEF IInv

\* Players, flags and time stay, and so does the vote, or it is over: a change of
\* teams, a referee's command, the console's, a cancellation.
LEMMA KeptStays ==
  ASSUME IInv, Kept(vote, vote'), UNCHANGED <<player, marked, time, left, history>>,
         team' \in [Slots -> VoteTeams], warmupTime' \in Nat, OneIntermission'
  PROVE  IInv'
<1>1. TypeOK' BY DEF IInv, TypeOK, Kept, history
<1>2. Present' = Present BY DEF Present
<1>3. OneSlotEach' BY <1>2 DEF IInv, OneSlotEach
<1>4. VotersCame' BY <1>2 DEF IInv, VotersCame, history
<1>5. vote'.voteTime # 0 => VoteSound(vote, player, marked, time)'
  BY DEF IInv, Kept, VoteSound, history
<1> QED BY <1>1, <1>3, <1>4, <1>5 DEF IInv

LEMMA MatchStays ==
  ASSUME IInv, UNCHANGED <<match, history>>
  PROVE  OneIntermission'
BY DEF IInv, OneIntermission, match, history

\* A newcomer has not voted, and is not marked as if.
LEMMA ConnectKeeps ==
  ASSUME IInv, NEW i \in Slots, NEW p \in Players, Connect(i, p)
  PROVE  IInv'
<1>1. /\ player[i] = None /\ p # None
      /\ p \notin left \cup {player[j] : j \in Slots}
      /\ player' = [player EXCEPT ![i] = p]
      /\ team' = [team EXCEPT ![i] = "spectator"]
      /\ marked' = marked \ {i}
      /\ UNCHANGED <<time, match, left, history>>
  BY VoteAssumption DEF Connect, Fresh
<1>2. Kept(vote, vote') BY RanksKeep DEF Connect, IInv, TypeOK
<1>3. TypeOK' BY <1>1, <1>2 DEF IInv, TypeOK, Kept, VoteTeams, match, history
<1>4. Present' = Present \cup {i} BY <1>1 DEF Present, IInv, TypeOK
<1>5. \A j \in Slots : player'[j] = IF j = i THEN p ELSE player[j]
  BY <1>1 DEF IInv, TypeOK
<1>6. OneSlotEach' BY <1>1, <1>4, <1>5 DEF IInv, OneSlotEach, Present
<1>7. \A j \in Present : j # i BY <1>1 DEF Present
<1>8. VotersCame' /\ OneIntermission'
  BY <1>1, <1>4, <1>5, <1>7 DEF IInv, VotersCame, Present, OneIntermission, match, history
<1>9. p \notin ballots BY <1>1 DEF IInv, VotersCame, Present
<1>10. vote'.voteTime # 0 => VoteSound(vote, player, marked, time)'
  <2> SUFFICES ASSUME vote'.voteTime # 0
               PROVE  VoteSound(vote, player, marked, time)'
    OBVIOUS
  <2>1. VoteSound(vote, player, marked, time) BY <1>2 DEF IInv, Kept
  <2>2. vote.voteCaller # i BY <1>1, <2>1 DEF VoteSound
  <2>3. player'[vote'.voteCaller] = caller'
    BY <1>1, <1>2, <1>5, <2>1, <2>2 DEF VoteSound, Kept, history
  <2>4. \A j \in Slots : player'[j] # None => (j \in marked' <=> player'[j] \in ballots')
    BY <1>1, <1>5, <1>9, <2>1 DEF VoteSound, history
  <2> QED BY <1>1, <1>2, <2>1, <2>3, <2>4 DEF VoteSound, Kept, history
<1> QED BY <1>3, <1>6, <1>8, <1>10 DEF IInv

\* Who leaves takes the vote along that was its own; whoever comes is another.
LEMMA DisconnectKeeps ==
  ASSUME IInv, NEW i \in Slots, player[i] # None, ClientDisconnect(i)
  PROVE  IInv'
<1>1. /\ player' = [player EXCEPT ![i] = None]
      /\ team' = [team EXCEPT ![i] = "free"]
      /\ left' = left \cup {player[i]}
      /\ vote' = WithoutCaller(CalculateRanks(vote, player', team'), {i})
      /\ UNCHANGED <<marked, time, match, history>>
  BY DEF ClientDisconnect, Leaving
<1>2. /\ Kept(vote, vote')
      /\ vote'.voteTime # 0 => vote.voteCaller # i
  <2> DEFINE r == CalculateRanks(vote, player', team')
  <2>1. Kept(vote, r) BY RanksKeep DEF IInv, TypeOK
  <2>2. r \in VoteRecord BY <2>1 DEF Kept
  <2>3. /\ Kept(r, WithoutCaller(r, {i}))
        /\ WithoutCaller(r, {i}).voteTime # 0 => r.voteCaller \notin {i}
    BY <2>2, WithoutCallerKeeps
  <2>4. vote' = WithoutCaller(r, {i}) BY <1>1
  <2> HIDE DEF r
  <2> QED BY <2>1, <2>3, <2>4, KeptTransitive DEF Kept
<1>3. TypeOK' BY <1>1, <1>2 DEF IInv, TypeOK, Kept, VoteTeams, match, history
<1>4. \A j \in Slots : player'[j] = IF j = i THEN None ELSE player[j]
  BY <1>1 DEF IInv, TypeOK
<1>5. Present' = Present \ {i} BY <1>4 DEF Present
<1>6. OneSlotEach' BY <1>4, <1>5 DEF IInv, OneSlotEach, Present
<1>7. VotersCame' /\ OneIntermission'
  BY <1>1, <1>4, <1>5 DEF IInv, VotersCame, Present, OneIntermission, match, history
<1>8. vote'.voteTime # 0 => VoteSound(vote, player, marked, time)'
  BY <1>1, <1>2, <1>4 DEF IInv, VoteSound, Kept, history
<1> QED BY <1>3, <1>6, <1>7, <1>8 DEF IInv

\* What is asked for has a kind, and a slot or none for its value.
LEMMA CheckedVote ==
  ASSUME vote \in VoteRecord, NEW r \in Requests, NEW i \in Slots, NEW ref \in BOOLEAN
  PROVE  LET v == G_voteCmdCheck(i, r[1], r[2], ref)
         IN  v \in VoteRecord /\ v.voteTime = vote.voteTime
<1>1. r[1] \in VoteKinds /\ r[2] \in Slots \cup {None}
  BY DEF Requests, VoteKinds
<1> DEFINE ok == Valid(i, r[1], r[2], ref)
<1>2. G_voteCmdCheck(i, r[1], r[2], ref) =
        IF ~ok THEN [vote EXCEPT !.vote_fn = "none"]
        ELSE [vote EXCEPT !.vote_fn = r[1],
                          !.vote_value = IF r[1] = "kick" THEN r[2] ELSE @]
  BY DEF G_voteCmdCheck
<1> HIDE DEF ok
<1>3. CASE ~ok
  BY <1>2, <1>3 DEF VoteRecord, VoteKinds
<1>4. CASE ok
  <2> DEFINE value == IF r[1] = "kick" THEN r[2] ELSE vote.vote_value
  <2>1. value \in Slots \cup {None} BY <1>1 DEF VoteRecord
  <2>2. G_voteCmdCheck(i, r[1], r[2], ref) = [vote EXCEPT !.vote_fn = r[1], !.vote_value = value]
    BY <1>2, <1>4
  <2> HIDE DEF value
  <2> QED BY <1>1, <2>1, <2>2 DEF VoteRecord
<1> QED BY <1>3, <1>4

\* A call puts one vote, with its caller's ballot or none, in the place of none.
LEMMA CallKeeps ==
  ASSUME IInv, NEW i \in Slots, NEW r \in Requests, Cmd_CallVote_f(i, r[1], r[2])
  PROVE  IInv'
<1> DEFINE v == G_voteCmdCheck(i, r[1], r[2], FALSE)
           poll == r[1] = "poll"
<1>1. /\ player[i] # None /\ vote.voteTime = 0
      /\ UNCHANGED <<player, team, time, match, left>>
      /\ TypeOK /\ OneIntermission
  BY DEF Cmd_CallVote_f, MayCall, IInv
<1>2. v \in VoteRecord /\ v.voteTime = 0
  BY <1>1, CheckedVote DEF TypeOK
<1>3. CASE v.vote_fn = "none"
  <2>1. vote' = v /\ UNCHANGED <<marked, history>>
    BY <1>3 DEF Cmd_CallVote_f
  <2>2. Kept(vote, vote') BY <1>2, <2>1 DEF Kept
  <2>3. OneIntermission' BY <1>1, <2>1 DEF OneIntermission, match, history
  <2> QED BY <1>1, <2>1, <2>2, <2>3, KeptStays DEF TypeOK, match
<1>4. CASE v.vote_fn # "none"
  <2> DEFINE yes == IF poll THEN 0 ELSE 1
  <2>1. /\ vote' = [v EXCEPT !.votePassed = FALSE, !.voteCanceled = FALSE,
                             !.voteYes = yes, !.voteNo = 0,
                             !.voteCaller = i, !.voteTeam = team[i], !.voteTime = VoteTime]
        /\ marked' = (marked \ Present) \cup (IF poll THEN {} ELSE {i})
        /\ ballots' = (IF poll THEN {} ELSE {player[i]}) /\ before' = {}
        /\ caller' = player[i] /\ calledAt' = time
    BY <1>4 DEF Cmd_CallVote_f, Unmarked
  <2>2. VoteTime \in Int /\ VoteTime <= time
    BY <1>1, VoteAssumption DEF VoteTime, WarmupEnds, MatchEnd, TypeOK
  <2>3. team[i] \in VoteTeams /\ yes \in Nat BY <1>1 DEF TypeOK
  <2> HIDE DEF v, yes
  <2>4. /\ vote' \in VoteRecord /\ vote'.vote_fn = v.vote_fn
        /\ vote'.voteYes = yes /\ vote'.voteNo = 0
        /\ vote'.voteCaller = i /\ vote'.voteTime = VoteTime
    <3>1. /\ [v EXCEPT !.votePassed = FALSE] \in VoteRecord
          /\ [v EXCEPT !.votePassed = FALSE].vote_fn = v.vote_fn
      BY <1>2 DEF VoteRecord
    <3> DEFINE a == [v EXCEPT !.votePassed = FALSE]
               b == [a EXCEPT !.voteCanceled = FALSE]
               c == [b EXCEPT !.voteYes = yes, !.voteNo = 0]
               d == [c EXCEPT !.voteCaller = i, !.voteTeam = team[i]]
               e == [d EXCEPT !.voteTime = VoteTime]
    <3>2. vote' = e BY <2>1, <1>2 DEF VoteRecord
    <3>3. a \in VoteRecord /\ a.vote_fn = v.vote_fn BY <3>1
    <3> HIDE DEF a
    <3>4. b \in VoteRecord /\ b.vote_fn = v.vote_fn BY <3>3 DEF VoteRecord
    <3> HIDE DEF b
    <3>5. c \in VoteRecord /\ c.vote_fn = v.vote_fn /\ c.voteYes = yes /\ c.voteNo = 0
      BY <2>3, <3>4 DEF VoteRecord
    <3> HIDE DEF c
    <3>6. /\ d \in VoteRecord /\ d.vote_fn = v.vote_fn /\ d.voteYes = yes /\ d.voteNo = 0
          /\ d.voteCaller = i
      BY <2>3, <3>5 DEF VoteRecord
    <3> HIDE DEF d
    <3> QED BY <2>2, <3>2, <3>6 DEF VoteRecord
  <2>5. /\ IsFiniteSet(ballots') /\ Cardinality(ballots') = yes
        /\ IsFiniteSet(before') /\ Cardinality(before') = 0
    BY <2>1, FS_EmptySet, FS_Singleton DEF yes
  <2>6. TypeOK' BY <1>1, <2>1, <2>4, <2>5 DEF TypeOK, match
  <2>7. Present' = Present BY <1>1 DEF Present
  <2>8. OneSlotEach' BY <1>1, <2>7 DEF IInv, OneSlotEach
  <2>9. VotersCame' /\ OneIntermission'
    BY <1>1, <2>1, <2>7 DEF VotersCame, Present, OneIntermission, match
  <2>10. \A j \in Slots : player[j] # None => (j \in marked' <=> player[j] \in ballots')
    BY <1>1, <2>1 DEF IInv, OneSlotEach, Present
  <2>11. VoteSound(vote, player, marked, time)'
    <3>1. 0 < VOTE_TIME /\ yes + 0 = yes BY <2>3, VoteAssumption
    <3> QED BY <1>1, <1>4, <2>1, <2>2, <2>3, <2>4, <2>5, <2>10, <3>1 DEF VoteSound, TypeOK
  <2> QED BY <2>6, <2>8, <2>9, <2>11 DEF IInv
<1> QED BY <1>3, <1>4

\* A vote is of one who has not voted, and whom the mark then keeps from it.
LEMMA VoteKeeps ==
  ASSUME IInv, NEW i \in Slots, NEW yes \in BOOLEAN, Cmd_Vote_f(i, yes)
  PROVE  IInv'
<1>1. /\ player[i] # None /\ vote.voteTime # 0 /\ TypeOK
      /\ VoteSound(vote, player, marked, time)
      /\ UNCHANGED <<player, team, time, match, left, before>> /\ OneIntermission'
  BY DEF Cmd_Vote_f, IInv, history, OneIntermission, match
<1>2. CASE vote' = [vote EXCEPT !.voteCanceled = TRUE] /\ UNCHANGED <<marked, history>>
  <2>1. Kept(vote, vote') BY <1>1, <1>2 DEF Kept, TypeOK, VoteRecord
  <2> QED BY <1>1, <1>2, <2>1, KeptStays DEF TypeOK, match
<1>3. CASE /\ i \notin marked /\ marked' = marked \cup {i}
           /\ vote' = IF yes THEN [vote EXCEPT !.voteYes = @ + 1]
                      ELSE [vote EXCEPT !.voteNo = @ + 1]
           /\ ballots' = ballots \cup {player[i]}
           /\ UNCHANGED <<before, caller, calledAt>>
  <2>1. player[i] \notin ballots BY <1>1, <1>3 DEF VoteSound
  <2>2. IsFiniteSet(ballots') /\ Cardinality(ballots') = Cardinality(ballots) + 1
    BY <1>1, <1>3, <2>1, FS_AddElement DEF TypeOK
  <2>3. /\ vote' \in VoteRecord /\ vote'.vote_fn = vote.vote_fn
        /\ vote'.voteCaller = vote.voteCaller /\ vote'.voteTime = vote.voteTime
        /\ vote'.voteYes + vote'.voteNo = vote.voteYes + vote.voteNo + 1
    <3>1. CASE yes BY <1>1, <1>3, <3>1 DEF TypeOK, VoteRecord
    <3>2. CASE ~yes BY <1>1, <1>3, <3>2 DEF TypeOK, VoteRecord
    <3> QED BY <3>1, <3>2
  <2>4. TypeOK' BY <1>1, <1>3, <2>2, <2>3 DEF TypeOK, match
  <2>5. Present' = Present BY <1>1 DEF Present
  <2>6. OneSlotEach' BY <1>1, <2>5 DEF IInv, OneSlotEach
  <2>7. VotersCame' BY <1>1, <1>3, <2>5 DEF IInv, VotersCame, Present
  <2>8. \A j \in Slots : player[j] # None => (j \in marked' <=> player[j] \in ballots')
    BY <1>1, <1>3 DEF IInv, OneSlotEach, Present, VoteSound
  <2>9. VoteSound(vote, player, marked, time)'
    <3>1. Cardinality(ballots) \in Nat /\ Cardinality(before) \in Nat
      BY <1>1, FS_CardinalityType DEF TypeOK
    <3>2. vote.voteYes \in Nat /\ vote.voteNo \in Nat BY <1>1 DEF TypeOK, VoteRecord
    <3> QED BY <1>1, <1>3, <2>2, <2>3, <2>8, <3>1, <3>2 DEF VoteSound
  <2> QED BY <1>1, <2>4, <2>6, <2>7, <2>9 DEF IInv
<1> QED BY <1>2, <1>3 DEF Cmd_Vote_f

\* After a frame the vote is over, or still in time.
LEMMA FrameKeeps ==
  ASSUME IInv, NEW now \in {time, time + 1}, Frame(now)
  PROVE  IInv'
<1>1. /\ time' = now /\ CheckExitRules /\ CheckVote(now) /\ TypeOK
      /\ UNCHANGED <<player, warmupTime, left, caller, calledAt>>
  BY DEF Frame, IInv
<1>2. /\ Kept(vote, vote') /\ team' \in [Slots -> VoteTeams]
      /\ vote'.voteTime # 0 => now - vote.voteTime < VOTE_TIME
  <2>1. Kept(vote, vote) BY <1>1 DEF Kept, TypeOK
  <2>2. CASE vote.voteTime = 0 \/ vote.vote_fn = "none" \/ now - vote.voteTime < MinTime
    <3>1. UNCHANGED <<vote, team>> BY <1>1, <2>2 DEF CheckVote
    <3>2. vote.voteTime # 0 => now - vote.voteTime < MinTime
      BY <2>2 DEF IInv, VoteSound
    <3>3. now \in Int /\ vote.voteTime \in Int BY <1>1 DEF TypeOK, VoteRecord
    <3> QED BY <1>1, <2>1, <3>1, <3>2, <3>3, VoteAssumption DEF TypeOK
  <2>3. CASE vote'.voteTime = 0 /\ vote' \in VoteRecord /\ team' \in [Slots -> VoteTeams]
    BY <2>3 DEF Kept
  <2>4. CASE vote' = vote /\ team' = team /\ ~TimedOut(now)
    <3>1. now \in Int /\ vote.voteTime \in Int BY <1>1 DEF TypeOK, VoteRecord
    <3> QED BY <1>1, <2>1, <2>4, <3>1, VoteAssumption DEF TypeOK, TimedOut
  <2>5. ASSUME NEW w \in VoteRecord PROVE Over(w) \in VoteRecord /\ Over(w).voteTime = 0
    BY DEF Over, VoteRecord
  <2>6. CASE /\ vote' = [Over(vote) EXCEPT !.voteCanceled = FALSE]
             /\ UNCHANGED team
    <3>1. Over(vote) \in VoteRecord /\ Over(vote).voteTime = 0 BY <1>1, <2>5 DEF TypeOK
    <3>2. vote' \in VoteRecord /\ vote'.voteTime = 0 BY <2>6, <3>1 DEF VoteRecord
    <3> QED BY <1>1, <2>3, <2>6, <3>2 DEF TypeOK
  <2>7. CASE team' \in Teams(vote.vote_fn) /\ vote' = Over(Executed(vote, team'))
    <3>1. Executed(vote, team') \in VoteRecord
      BY <1>1, ExecutedKeeps DEF TypeOK, Kept
    <3>2. team' \in [Slots -> VoteTeams] BY <1>1, <2>7 DEF Teams, TypeOK, VoteTeams
    <3> QED BY <2>3, <2>5, <2>7, <3>1, <3>2
  <2>8. CASE vote' = Over(vote) /\ UNCHANGED team
    BY <1>1, <2>3, <2>5, <2>8 DEF TypeOK
  <2> QED BY <1>1, <2>2, <2>4, <2>6, <2>7, <2>8 DEF CheckVote
\* The intermission takes the flags, and the ballots with them.
<1>3. /\ IsFiniteSet(ballots') /\ IsFiniteSet(before') /\ ballots' \subseteq ballots
      /\ Cardinality(ballots') + Cardinality(before') = Cardinality(ballots) + Cardinality(before)
      /\ before' # {} => gamestate' = "intermission"
      /\ vote.voteTime # 0 =>
           \A i \in Slots : player[i] # None => (i \in marked' <=> player[i] \in ballots')
  <2>1. CASE intermissionQueued
    <3>1. /\ gamestate' = "intermission" /\ marked' = marked \ Present
          /\ before' = ballots /\ ballots' = {}
      BY <1>1, <2>1 DEF CheckExitRules, Moved
    <3>2. before = {} BY <2>1 DEF IInv, OneIntermission
    <3>3. Cardinality(ballots) \in Nat BY <1>1, FS_CardinalityType DEF TypeOK
    <3> QED BY <1>1, <3>1, <3>2, <3>3, FS_EmptySet DEF TypeOK, Present
  <2>2. CASE ~intermissionQueued
    BY <1>1, <2>2 DEF CheckExitRules, IInv, OneIntermission, VoteSound, TypeOK
  <2> QED BY <2>1, <2>2
<1>4. OneIntermission'
  <2>1. intermissionQueued' => gamestate' = "playing" BY <1>1 DEF CheckVote, Execute
  <2> QED BY <1>3, <2>1 DEF OneIntermission
<1>5. TypeOK' BY <1>1, <1>2, <1>3 DEF TypeOK, Kept
<1>6. Present' = Present BY <1>1 DEF Present
<1>7. OneSlotEach' BY <1>1, <1>6 DEF IInv, OneSlotEach
<1>8. VotersCame' BY <1>1, <1>3, <1>6 DEF IInv, VotersCame
<1>9. vote'.voteTime # 0 => VoteSound(vote, player, marked, time)'
  BY <1>1, <1>2, <1>3 DEF IInv, VoteSound, Kept, TypeOK
<1> QED BY <1>4, <1>5, <1>7, <1>8, <1>9 DEF IInv

\* A referee's command leaves the vote as it was.
LEMMA RefereeKeeps ==
  ASSUME IInv, NEW i \in Slots, NEW r \in Requests, G_ref_cmd(i, r[1], r[2])
  PROVE  IInv'
<1>1. TypeOK BY DEF IInv
<1>2. vote' = vote BY DEF G_ref_cmd, Restored
<1>3. team' \in Teams(r[1]) \/ UNCHANGED team BY DEF G_ref_cmd
<1>4. UNCHANGED <<player, marked, time, warmupTime, left, history, gamestate>> BY DEF G_ref_cmd
<1>5. Kept(vote, vote') BY <1>1, <1>2 DEF Kept, TypeOK
<1>6. team' \in [Slots -> VoteTeams] BY <1>1, <1>3 DEF Teams, TypeOK, VoteTeams
<1>7. OneIntermission'
  <2>1. intermissionQueued' => intermissionQueued \/ gamestate' = "playing"
    BY DEF G_ref_cmd, Execute
  <2> QED BY <1>4, <2>1 DEF IInv, OneIntermission, history
<1> QED BY <1>1, <1>4, <1>5, <1>6, <1>7, KeptStays DEF TypeOK

\* The whole invariant is inductive: one step per action of Next.
LEMMA NextIInv == IInv /\ [Next]_vars => IInv'
<1> SUFFICES ASSUME IInv, [Next]_vars PROVE IInv'
  OBVIOUS
<1>1. ASSUME NEW i \in Slots, NEW p \in Players, Connect(i, p) PROVE IInv'
  BY <1>1, ConnectKeeps
<1>2. ASSUME NEW i \in Slots, Disconnect(i) PROVE IInv'
  BY <1>2, DisconnectKeeps DEF Disconnect
<1>3. ASSUME NEW i \in Slots, Kick(i) PROVE IInv'
  <2>1. CASE player[i] # None /\ ClientDisconnect(i) BY <2>1, DisconnectKeeps
  <2>2. CASE UNCHANGED <<player, team, marked, vote, match, time, left, history>>
    <3>1. Kept(vote, vote') BY <2>2 DEF Kept, IInv, TypeOK
    <3> QED BY <2>2, <3>1, KeptStays, MatchStays DEF IInv, TypeOK, match
  <2> QED BY <1>3, <2>1, <2>2 DEF Kick
<1>4. ASSUME NEW i \in Slots, NEW t \in Sides \cup {"spectator"}, SetTeam(i, t) PROVE IInv'
  <2>1. Kept(vote, CalculateRanks(vote, player, team')) BY RanksKeep DEF IInv, TypeOK
  <2>2. Kept(vote, vote')
    BY <1>4, <2>1, WithoutCallerKeeps, KeptTransitive DEF SetTeam, Kept
  <2>3. UNCHANGED <<player, marked, match, time, left, history>> BY <1>4 DEF SetTeam
  <2>4. team' \in [Slots -> VoteTeams] BY <1>4 DEF SetTeam, IInv, TypeOK, VoteTeams
  <2> QED BY <2>2, <2>3, <2>4, KeptStays, MatchStays DEF IInv, TypeOK, match
<1>5. ASSUME NEW i \in Slots, NEW r \in Requests,
             Cmd_CallVote_f(i, r[1], r[2]) \/ G_ref_cmd(i, r[1], r[2])
      PROVE  IInv'
  BY <1>5, CallKeeps, RefereeKeeps
<1>6. ASSUME NEW i \in Slots, NEW yes \in BOOLEAN, Cmd_Vote_f(i, yes) PROVE IInv'
  BY <1>6, VoteKeeps
<1>7. CASE Svcmd_PassVote_f \/ Svcmd_CancelVote_f
  <2>1. vote \in VoteRecord BY DEF IInv, TypeOK
  <2>2. Kept(vote, vote')
    <3>1. CASE Svcmd_PassVote_f
      BY <2>1, <3>1 DEF Svcmd_PassVote_f, Kept, VoteRecord
    <3>2. CASE Svcmd_CancelVote_f
      BY <2>1, <3>2 DEF Svcmd_CancelVote_f, Kept, VoteRecord
    <3> QED BY <1>7, <3>1, <3>2
  <2>3. UNCHANGED <<player, team, marked, time, match, left, history>>
    BY <1>7 DEF Svcmd_PassVote_f, Svcmd_CancelVote_f
  <2> QED BY <2>2, <2>3, KeptStays, MatchStays DEF IInv, TypeOK, match
<1>8. ASSUME NEW now \in {time, time + 1}, Frame(now) PROVE IInv'
  BY <1>8, FrameKeeps
<1>9. CASE StartCountdown \/ LogExit
  <2>1. UNCHANGED <<player, team, marked, vote, time, left, history>>
    BY <1>9 DEF StartCountdown, LogExit
  <2>2. warmupTime' \in Nat
    BY <1>9, VoteAssumption DEF StartCountdown, LogExit, IInv, TypeOK
  <2>3. Kept(vote, vote') BY <2>1 DEF Kept, IInv, TypeOK
  <2>4. OneIntermission'
    BY <1>9 DEF StartCountdown, LogExit, IInv, OneIntermission, history
  <2> QED BY <2>1, <2>2, <2>3, <2>4, KeptStays DEF IInv, TypeOK
<1>10. CASE UNCHANGED vars
  <2>1. Kept(vote, vote') BY <1>10 DEF vars, Kept, IInv, TypeOK
  <2>2. UNCHANGED <<player, team, marked, time, match, left, history>> BY <1>10 DEF vars
  <2> QED BY <2>1, <2>2, KeptStays, MatchStays DEF IInv, TypeOK, match
<1> QED BY <1>1, <1>2, <1>3, <1>4, <1>5, <1>6, <1>7, <1>8, <1>9, <1>10 DEF Next

----------------------------------------------------------------------------
(* What holds of every behaviour.                                          *)

\* The invariant, however players come and go and whoever commands.
THEOREM Invariance == Spec => []IInv
BY InitIInv, NextIInv, PTL DEF Spec

\* Every player has one vote, and one more in an intermission that begins while
\* the vote is on; a newcomer to a slot has not voted, and nobody is kept from
\* voting by an earlier vote (Cmd_CallVote_f, Cmd_Vote_f, MoveClientToIntermission).
THEOREM OneVoteEach == Spec => []EveryVoteCounted
<1>1. IInv => EveryVoteCounted
  BY DEF IInv, OneIntermission, VoteSound, EveryVoteCounted, Present
<1> QED BY <1>1, Invariance, PTL

\* A vote never belongs to another player than the one who called it
\* (ClientDisconnect and SetTeam cancel it, voteCaller is a slot).
THEOREM VoteOfItsCaller == Spec => []CallerPresent
<1>1. IInv => CallerPresent BY DEF IInv, VoteSound, CallerPresent
<1> QED BY <1>1, Invariance, PTL

\* A vote is over in less than VOTE_TIME after the call, whatever the limits of
\* the match and the warmup did to its time (Cmd_CallVote_f and CheckVote).
THEOREM VoteInTime == Spec => []VoteEnds
<1>1. IInv => VoteEnds
  BY VoteAssumption DEF IInv, TypeOK, VoteRecord, VoteSound, VoteEnds
<1> QED BY <1>1, Invariance, PTL
=============================================================================
