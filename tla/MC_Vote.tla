------------------------------ MODULE MC_Vote ------------------------------
(* Vote on a small instance; ordinary players are interchangeable, and of  *)
(* a vote only what is still read tells states apart: of one that is over  *)
(* the voters, and nothing in an intermission, where none can be called.   *)
EXTENDS Vote, TLC

Symmetry == Permutations(Slots) \cup Permutations(Players \ Referees)

Read == [vote EXCEPT !.vote_value = IF vote.vote_fn = "kick" THEN @ ELSE None,
                     !.voteTeam = IF vote.vote_fn = "surrender" THEN @ ELSE "free"]
View ==
  LET now == <<player, team, marked, voteCount, match, time, kicks, left, incidents>>
  IN  CASE vote.voteTime # 0 -> <<now, Read, history>>
        [] vote.voteTime = 0 /\ gamestate = "intermission" -> <<gamestate>>
        [] OTHER -> <<now, vote.numVotingClients, vote.numVotingTeamClients>>
=============================================================================
