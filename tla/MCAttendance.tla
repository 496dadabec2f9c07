---------------------------- MODULE MCAttendance ----------------------------
EXTENDS Attendance

\* Two seats that are lost, return, catch up and fail; no vote
Times ==
  [seats |-> {0, 1}, shaky |-> {0, 1}, voteAfter |-> 9, restartVoteAfter |-> 4,
   catchUpStall |-> 1, minAbsence |-> 1, maxPause |-> 3, maxCatchUp |-> 2,
   rejoinAttempts |-> 1, rejoinWindow |-> 1, flapLosses |-> 2, flapWindow |-> 0,
   resumeCountdown |-> 2, resumeMinPause |-> 2, maxPercent |-> 1, restart |-> FALSE,
   forever |-> 5]

\* Three seats, two of which flap and are put to the vote
Votes ==
  [Times EXCEPT !.seats = 0 .. 2, !.voteAfter = 1, !.restartVoteAfter = 1, !.maxPause = 2,
                !.maxCatchUp = 1, !.flapWindow = 2, !.resumeCountdown = 0,
                !.resumeMinPause = 1, !.forever = 2]

\* A match that a restart brought back
Restarted ==
  [Times EXCEPT !.shaky = {0}, !.voteAfter = 2, !.restartVoteAfter = 3, !.maxPause = 4,
                !.flapWindow = 2, !.resumeCountdown = 1, !.resumeMinPause = 1,
                !.restart = TRUE]

MCSettings == {Times, Votes, Restarted}

\* A seat that is lost again and again
MCFlap ==
  {[Times EXCEPT !.seats = 0 .. 2, !.shaky = {0}, !.restartVoteAfter = 9, !.maxPause = 9,
                 !.flapLosses = 3, !.flapWindow = 3, !.resumeCountdown = 1,
                 !.resumeMinPause = 1, !.forever = 9]}
=============================================================================
