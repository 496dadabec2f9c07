----------------------------- MODULE Attendance -----------------------------
(***************************************************************************)
(* Who is at the table of a running match: how a dedicated server holds    *)
(* the seat of a player whose connection was lost, pauses the match, lets  *)
(* the others vote on going on without him, and gives a seat up.           *)
(*                                                                         *)
(* The host's session calls one handler at a time and update() in every    *)
(* pass; which connections are lost, which come back, how a catch-up goes  *)
(* and who votes for what is the environment's choice.                     *)
(*                                                                         *)
(* A stored time is its age here, how long ago it was: Tick lets every age *)
(* that is running grow by one.  A pass takes no time that counts, so the  *)
(* session looks (Update) after the last handler and before the next tick.  Ages and sums  *)
(* stop at Forever, as the sums of the code do at UINT32_MAX.  The budget  *)
(* of streamed bytes can only refuse a return, which is then a return that *)
(* does not happen.                                                        *)
(***************************************************************************)
EXTENDS Integers, Sequences, FiniteSets

CONSTANTS Settings   \* bound: the matches that are looked at, one of them per behaviour

\* seats: of persons; shaky (bound): the seats whose connection may be lost; the fields of
\* Attendance::Config by their names there; maxPercent (bound): the steps in which a
\* catch-up is acknowledged; restart (bound): a match that a restart brought back is looked
\* at too; forever (bound): ages and sums of times stop there
ASSUME AttendanceAssumption ==
  \A m \in Settings :
    /\ m.seats \subseteq Nat /\ IsFiniteSet(m.seats) /\ m.shaky \subseteq m.seats
    /\ {m.voteAfter, m.restartVoteAfter, m.catchUpStall, m.minAbsence, m.maxPause, m.maxCatchUp,
        m.rejoinWindow, m.flapWindow, m.resumeCountdown, m.resumeMinPause, m.forever} \subseteq Nat
    /\ m.rejoinAttempts \in 1 .. 16 /\ m.flapLosses \in 2 .. 8
    /\ m.maxPercent \in 1 .. 100 /\ m.restart \in BOOLEAN

Choices == {"none", "keep", "continue"}
NoSeat == -1

VARIABLES
  match,     \* one of Settings
  at,        \* the attendance: its seats, the votes, the pause and the countdown
  looked,    \* update() has seen the present state and moment
  fresh,     \* the seats with an attempt that began after the last update(): they are heard
             \* (HostSession::pump_rejoiners) in no pass before the next one
  \* history, as a spectator with a clock would note it
  held,      \* how long no turn could be sealed
  stopped,   \* how long a seat was away, over the match
  pausing,   \* how long the pause that goes on has lasted
  calm,      \* how long no seat has been away, up to ResumeCountdown
  due,       \* a pause of ResumeMinPause has not been followed by a full countdown yet
  trying,    \* per seat: how long it has been catching up in its present absence
  unseen,    \* the seats that have not been at the table since the restart
  uptime     \* how long the match runs, up to RestartVoteAfter

history == <<held, stopped, pausing, calm, due, trying, unseen, uptime>>
vars == <<match, at, looked, fresh, history>>

Seats == match.seats
Shaky == match.shaky
VoteAfter == match.voteAfter
RestartVoteAfter == match.restartVoteAfter
CatchUpStall == match.catchUpStall
MinAbsence == match.minAbsence
MaxPause == match.maxPause
MaxCatchUp == match.maxCatchUp
RejoinAttempts == match.rejoinAttempts
RejoinWindow == match.rejoinWindow
FlapLosses == match.flapLosses
FlapWindow == match.flapWindow
ResumeCountdown == match.resumeCountdown
ResumeMinPause == match.resumeMinPause
MaxPercent == match.maxPercent
Forever == match.forever

------------------------------------------------------------------------------
(* Times *)

Plus(x, y) == IF x + y > Forever THEN Forever ELSE x + y
Longer(x, y) == IF x > y THEN x ELSE y
Shorter(x, y) == IF x < y THEN x ELSE y

(* What the class answers, of its state a *)

Away(state) == state \in {"Absent", "CatchingUp"}
Paused(a) == \E s \in Seats : Away(a.seat[s].state)
CountingDown(a) == a.resuming /\ a.resumeAge < ResumeCountdown
\* HostSession::paused(): nothing is sealed
Held(a) == Paused(a) \/ CountingDown(a)

AwayFor(a, s) ==
  Plus(a.seat[s].awayBefore, IF Away(a.seat[s].state) THEN a.seat[s].away ELSE 0)
\* Mutant: only the pauses that are over count
PauseForOfThePast(a) == a.pauseBefore
PauseFor(a) ==
  Plus(a.pauseBefore, IF Paused(a) THEN Longer(a.pauseAge, MinAbsence) ELSE 0)
HeldFor(a) ==
  Plus(Plus(Plus(a.pauseReal, IF Paused(a) THEN a.pauseAge ELSE 0), a.resumeBefore),
       IF a.resuming THEN Shorter(a.resumeAge, ResumeCountdown) ELSE 0)
CatchingFor(seat) ==
  Plus(seat.spent, IF seat.state = "CatchingUp" THEN seat.catching ELSE 0)

\* (the losses that are older than the flap window are not kept)
FlapActive(seat) == seat.flap /\ seat.losses # <<>> /\ Head(seat.losses) < FlapWindow
\* Mutant: a restart is judged like a lost link
VoteTimeReachedAtOnce(a, s) == AwayFor(a, s) >= VoteAfter
VoteTimeReached(a, s) ==
  IF a.seat[s].excused THEN a.seat[s].away >= RestartVoteAfter ELSE AwayFor(a, s) >= VoteAfter

VoteSubject(a) ==
  LET candidates == {s \in Seats :
        \/ a.seat[s].state = "Absent" /\ VoteTimeReached(a, s)
        \/ a.seat[s].state # "Dropped" /\ FlapActive(a.seat[s])}
      first(s) == \A t \in candidates :
        \/ AwayFor(a, t) < AwayFor(a, s)
        \/ AwayFor(a, t) = AwayFor(a, s) /\ s <= t
  IN  IF candidates = {} THEN NoSeat ELSE CHOOSE s \in candidates : first(s)

ConnectedHumans(a, except) == Cardinality({s \in Seats \ {except} : a.seat[s].state = "Present"})
VotesForContinue(a, subject) == Cardinality({v \in Seats : a.vote[subject][v] = "continue"})
VoteWon(votes, connected) == connected > 0 /\ 2 * votes > connected

\* Mutant: the Hellos are not counted
RejoinAllowedAnyTime(seat) == seat.state # "Dropped" /\ CatchingFor(seat) < MaxCatchUp
\* rejoin_check: a Hello with the seat's key is accepted
RejoinAllowed(seat) ==
  /\ seat.state # "Dropped"
  /\ CatchingFor(seat) < MaxCatchUp
  /\ Len(seat.attempts) < RejoinAttempts

------------------------------------------------------------------------------
(* What the class does to its state *)

\* Mutant: a countdown that is cut short counts as a whole one
FoldedAsWhole(a) ==
  IF a.resuming
  THEN [a EXCEPT !.resumeBefore = Plus(@, ResumeCountdown), !.resuming = FALSE, !.resumeAge = 0]
  ELSE a
Folded(a) ==
  IF a.resuming
  THEN [a EXCEPT !.resumeBefore = Plus(@, Shorter(a.resumeAge, ResumeCountdown)),
                 !.resuming = FALSE, !.resumeAge = 0]
  ELSE a

PauseBegun(a) ==
  [Folded(a) EXCEPT !.owe = CountingDown(a), !.pauseAge = 0]

PauseEnded(a) ==
  LET b == [a EXCEPT !.pauseBefore = Plus(@, Longer(a.pauseAge, MinAbsence)),
                     !.pauseReal = Plus(@, a.pauseAge), !.pauseAge = 0, !.owe = FALSE]
  IN  IF ResumeCountdown > 0 /\ (a.owe \/ a.pauseAge >= ResumeMinPause)
      THEN [Folded(b) EXCEPT !.resuming = TRUE]
      ELSE b

\* Mutant: a countdown that is cut short is forgotten
SettledForgettingTheCountdown(wasPaused, a) ==
  CASE ~wasPaused /\ Paused(a) -> [PauseBegun(a) EXCEPT !.owe = FALSE]
    [] wasPaused /\ ~Paused(a) -> PauseEnded(a)
    [] OTHER -> a
\* settle_pause
Settled(wasPaused, a) ==
  CASE ~wasPaused /\ Paused(a) -> PauseBegun(a)
    [] wasPaused /\ ~Paused(a) -> PauseEnded(a)
    [] OTHER -> a

\* Mutant: who goes leaves his votes behind
ClearedKeepingCastVotes(a, gone, keepAbout) ==
  [a EXCEPT !.vote = [s \in Seats |-> [v \in Seats |->
     IF s \in gone /\ ~keepAbout THEN "none" ELSE a.vote[s][v]]]]
\* clear_votes: those that the seats cast and, not with keepAbout, those about them
Cleared(a, gone, keepAbout) ==
  [a EXCEPT !.vote = [s \in Seats |-> [v \in Seats |->
     IF v \in gone \/ (s \in gone /\ ~keepAbout) THEN "none" ELSE a.vote[s][v]]]]

\* note_loss of a loss now
WithLoss(seat) ==
  LET losses == SubSeq(<<0>> \o seat.losses, 1, Shorter(FlapLosses, Len(seat.losses) + 1))
  IN  [seat EXCEPT !.losses = losses, !.flap = Len(losses) >= FlapLosses]

\* The new absence of a present seat
Gone(seat) == WithLoss([seat EXCEPT !.away = 0, !.spent = 0, !.excused = FALSE])

LostOf(a, s) ==
  LET b == [a EXCEPT !.seat[s] = [Gone(@) EXCEPT !.state = "Absent"]]
  IN  Settled(Paused(a), Cleared(b, {s}, b.seat[s].flap))

Attempted(seat) == [seat EXCEPT !.attempts = Append(@, 0)]
Begun(seat) ==
  [seat EXCEPT !.state = "CatchingUp", !.stalled = 0, !.catching = 0, !.percent = 0]
\* Mutant: a Hello in the middle of an attempt begins the attempt again
ReturningOfStartsAgain(a, s) ==
  LET seat == Attempted(a.seat[s])
      b == [a EXCEPT !.seat[s] =
              CASE seat.state = "CatchingUp" -> Begun(seat)
                [] seat.state = "Present" -> Begun(Gone(seat))
                [] OTHER -> Begun(seat)]
  IN  Settled(Paused(a), Cleared(b, {s}, FlapActive(b.seat[s])))
ReturningOf(a, s) ==
  LET seat == Attempted(a.seat[s])
      b == [a EXCEPT !.seat[s] =
              CASE seat.state = "CatchingUp" -> seat
                [] seat.state = "Present" -> Begun(Gone(seat))
                [] OTHER -> Begun(seat)]
  IN  Settled(Paused(a), Cleared(b, {s}, FlapActive(b.seat[s])))

\* An absence counts as min_absence at least, and an excused one not at all
CaughtUpSeat(seat) ==
  LET absence == Longer(seat.away, MinAbsence)
  IN  [seat EXCEPT !.awayBefore = IF seat.excused THEN @ ELSE Plus(@, absence),
                   !.excused = FALSE, !.state = "Present", !.away = 0, !.spent = 0,
                   !.percent = 0, !.stalled = 0, !.catching = 0]
CaughtUpOf(a, s) ==
  LET b == [a EXCEPT !.seat[s] = CaughtUpSeat(@)]
  IN  Settled(Paused(a), Cleared(b, {s}, FlapActive(b.seat[s])))

FailedCatchUp(seat) ==
  [seat EXCEPT !.spent = CatchingFor(seat), !.state = "Absent", !.percent = 0,
               !.stalled = 0, !.catching = 0]

DroppedSeat(seat) ==
  [seat EXCEPT !.awayBefore = IF Away(seat.state) /\ ~seat.excused THEN Plus(@, seat.away) ELSE @,
               !.excused = FALSE, !.state = "Dropped", !.away = 0, !.percent = 0,
               !.stalled = 0, !.catching = 0, !.flap = FALSE]
\* drop_seat of a set of seats: settle_pause finds the pause over at the last of them
DroppedOf(a, gone) ==
  LET b == [a EXCEPT !.seat =
             [s \in Seats |-> IF s \in gone THEN DroppedSeat(a.seat[s]) ELSE a.seat[s]]]
  IN  Settled(Paused(a), Cleared(b, gone, FALSE))

\* update(), first: a catch-up without progress, or without time left, is let go
LetGo(a) ==
  [a EXCEPT !.seat = [s \in Seats |->
     LET seat == a.seat[s]
     IN  IF /\ seat.state = "CatchingUp"
            /\ CatchingFor(seat) >= MaxCatchUp \/ seat.stalled >= CatchUpStall
         THEN FailedCatchUp(seat) ELSE seat]]

\* Mutant: the vote about a seat that stopped flapping is not closed
FlapsOverKeepingVotes(a) ==
  [a EXCEPT !.seat = [s \in Seats |-> [a.seat[s] EXCEPT !.flap = FlapActive(a.seat[s])]]]
\* Second: a seat that has stopped flapping closes its vote
FlapsOver(a) ==
  LET over == {s \in Seats : a.seat[s].flap /\ ~FlapActive(a.seat[s])}
      closed == {s \in over : ~(a.seat[s].state = "Absent" /\ AwayFor(a, s) >= VoteAfter)}
  IN  [a EXCEPT !.seat = [s \in Seats |-> IF s \in over THEN [a.seat[s] EXCEPT !.flap = FALSE]
                                                        ELSE a.seat[s]],
                !.vote = [s \in Seats |-> IF s \in closed THEN [v \in Seats |-> "none"]
                                                          ELSE a.vote[s]]]

\* Third: a vote that is won drops its seat
VotedOut(a) ==
  LET subject == VoteSubject(a)
  IN  IF subject # NoSeat /\ VoteWon(VotesForContinue(a, subject), ConnectedHumans(a, subject))
      THEN DroppedOf(a, {subject}) ELSE a

\* Mutant: a catch-up is spared
CapKeptButForCatchUps(a) ==
  IF PauseFor(a) >= MaxPause
  THEN DroppedOf(a, {s \in Seats : a.seat[s].state = "Absent"}) ELSE a
\* Last: without any pause left, everybody who is away is dropped
CapKept(a) ==
  IF PauseFor(a) >= MaxPause THEN DroppedOf(a, {s \in Seats : Away(a.seat[s].state)}) ELSE a

UpdateOf(a) == CapKept(VotedOut(FlapsOver(LetGo(a))))

\* The clock moves on by one.  Times that are listed are in order, so the ones that are kept are
\* the first of the losses (newest first) and the last of the attempts (newest last)
Grown(x, running) == IF running THEN Plus(x, 1) ELSE x
Aged(times) == [i \in DOMAIN times |-> times[i] + 1]
RecentLosses(times) ==
  SubSeq(times, 1, Cardinality({i \in DOMAIN times : times[i] <= FlapWindow}))
RecentAttempts(times) ==
  SubSeq(times, 1 + Cardinality({i \in DOMAIN times : times[i] >= RejoinWindow}), Len(times))
Older(seat) ==
  [seat EXCEPT !.away = Grown(@, Away(seat.state)),
               !.stalled = Grown(@, seat.state = "CatchingUp"),
               !.catching = Grown(@, seat.state = "CatchingUp"),
               !.losses = RecentLosses(Aged(@)), !.attempts = RecentAttempts(Aged(@))]
TickOf(a) ==
  [a EXCEPT !.seat = [s \in Seats |-> Older(a.seat[s])],
            !.pauseAge = IF Paused(a) THEN Plus(@, 1) ELSE 0,
            !.resumeAge = IF a.resuming THEN Shorter(@ + 1, ResumeCountdown) ELSE 0]

------------------------------------------------------------------------------
SeatRecord ==
  [state : {"Present", "Absent", "CatchingUp", "Dropped"}, away : 0 .. Forever,
   awayBefore : 0 .. Forever, stalled : 0 .. Forever, catching : 0 .. Forever,
   spent : 0 .. Forever, percent : 0 .. MaxPercent, excused : BOOLEAN, flap : BOOLEAN,
   losses : {times \in Seq(Nat) : Len(times) <= FlapLosses},
   attempts : {times \in Seq(Nat) : Len(times) <= RejoinAttempts}]

AttendanceRecord ==
  [seat : [Seats -> SeatRecord], vote : [Seats -> [Seats -> Choices]],
   pauseBefore : 0 .. Forever, pauseReal : 0 .. Forever, pauseAge : 0 .. Forever,
   owe : BOOLEAN, resuming : BOOLEAN, resumeAge : 0 .. ResumeCountdown, resumeBefore : 0 .. Forever]

\* The state of the class is well typed, and what it measures by is kept short
TypeOK ==
  /\ match \in Settings
  /\ at \in AttendanceRecord
  /\ fresh \subseteq Seats
  /\ looked \in BOOLEAN /\ due \in BOOLEAN
  /\ {held, stopped, pausing} \subseteq 0 .. Forever
  /\ calm \in 0 .. ResumeCountdown /\ uptime \in 0 .. RestartVoteAfter
  /\ trying \in [Seats -> 0 .. Forever]
  /\ unseen \subseteq Seats

SeatIn(state) ==
  [state |-> state, away |-> 0, awayBefore |-> 0, stalled |-> 0, catching |-> 0, spent |-> 0,
   percent |-> 0, excused |-> state = "Absent", flap |-> FALSE, losses |-> <<>>,
   attempts |-> <<>>]

Fresh(state) ==
  [seat |-> [s \in Seats |-> SeatIn(state[s])], vote |-> [s \in Seats |-> [v \in Seats |-> "none"]],
   pauseBefore |-> 0, pauseReal |-> 0, pauseAge |-> 0, owe |-> FALSE, resuming |-> FALSE,
   resumeAge |-> 0, resumeBefore |-> 0]

SeatHumans == at = Fresh([s \in Seats |-> "Present"]) /\ unseen = {}

SeatRestored ==
  \E dropped \in SUBSET Seats :
     /\ at = Fresh([s \in Seats |-> IF s \in dropped THEN "Dropped" ELSE "Absent"])
     /\ unseen = Seats \ dropped

Init ==
  /\ match \in Settings
  /\ SeatHumans \/ (match.restart /\ SeatRestored)
  /\ looked = FALSE /\ fresh = {}
  /\ held = 0 /\ stopped = 0 /\ pausing = 0 /\ calm = ResumeCountdown /\ due = FALSE
  /\ trying = [s \in Seats |-> 0]
  /\ uptime = 0

\* What the spectator notes of a handler's call, which takes no time
Noted ==
  /\ pausing' = IF Paused(at') THEN pausing ELSE 0
  /\ trying' = [s \in Seats |-> IF at'.seat[s].state = "Present" THEN 0 ELSE trying[s]]
  /\ unseen' = {s \in unseen : at'.seat[s].state # "Present"}
  /\ UNCHANGED <<held, stopped, calm, due, uptime>>

State(s) == at.seat[s].state

\* A handler's call; update() follows in this pass or the next, before time that counts goes by
Becomes(a) == at' = a /\ Noted /\ looked' = FALSE /\ UNCHANGED fresh
\* What a seat on its way back says is heard
Heard(s, a) == State(s) = "CatchingUp" /\ s \notin fresh /\ Becomes(a)

Lost(s) ==
  /\ s \in Shaky /\ State(s) = "Present"
  /\ Becomes(LostOf(at, s))

\* A Hello of a new connection with the seat's key
Returning(s) ==
  /\ s \in Shaky \/ Away(State(s))
  /\ RejoinAllowed(at.seat[s])
  /\ at' = ReturningOf(at, s) /\ Noted /\ looked' = FALSE
  /\ fresh' = fresh \cup {s}

Progress(s) ==
  \E percent \in at.seat[s].percent + 1 .. MaxPercent :
    Heard(s, [at EXCEPT !.seat[s].percent = percent, !.seat[s].stalled = 0])

CaughtUp(s) == Heard(s, CaughtUpOf(at, s))

CatchUpFailed(s) == Heard(s, [at EXCEPT !.seat[s] = FailedCatchUp(@)])

Vote(v, s) ==
  /\ State(v) = "Present" /\ v # s
  /\ VoteSubject(at) = s
  /\ \E choice \in Choices \ {"none"} : Becomes([at EXCEPT !.vote[s][v] = choice])

\* The seat left, or was thrown out
Dropped(s) ==
  /\ s \in Shaky /\ State(s) # "Dropped"
  /\ Becomes(DroppedOf(at, {s}))

Update ==
  /\ at' = UpdateOf(at) /\ Noted
  /\ looked' = TRUE /\ fresh' = {}

Tick ==
  /\ looked /\ looked' = FALSE
  /\ at' = TickOf(at)
  /\ held' = IF Held(at) THEN Plus(held, 1) ELSE held
  /\ stopped' = IF Paused(at) THEN Plus(stopped, 1) ELSE stopped
  /\ pausing' = IF Paused(at) THEN Plus(pausing, 1) ELSE 0
  /\ calm' = IF Paused(at) THEN 0 ELSE Shorter(calm + 1, ResumeCountdown)
  /\ due' = ((due /\ calm' < ResumeCountdown) \/ (Paused(at) /\ pausing' >= ResumeMinPause))
  /\ trying' = [s \in Seats |-> IF State(s) = "CatchingUp" THEN Plus(trying[s], 1) ELSE trying[s]]
  /\ uptime' = Shorter(uptime + 1, RestartVoteAfter)
  /\ UNCHANGED <<unseen, fresh>>

Next ==
  /\ \/ \E s \in Seats : \/ Lost(s) \/ Returning(s) \/ Progress(s) \/ CaughtUp(s)
                         \/ CatchUpFailed(s) \/ Dropped(s)
                         \/ \E v \in Seats : Vote(v, s)
     \/ Update
     \/ Tick
  /\ UNCHANGED match

Spec == Init /\ [][Next]_vars

\* What only Update does; it can do it whenever there is something to look at
Looks == ~looked /\ looked' = TRUE

\* The server's loop runs, and time goes by however much is said in it
FairSpec == Spec /\ WF_looked(Looks) /\ SF_<<at, looked, fresh, history>>(Tick)

------------------------------------------------------------------------------
(* Properties *)

\* A stored choice is one of a player who is connected and is not the vote's subject: what
\* votes_for_continue relies on when it counts every choice there is (attendance.cpp:295).  And
\* it was made in a vote that is open: about a seat that is away for long enough, or that flaps
\* until update() finds that it has stopped (attendance.cpp:346); none of an earlier vote about
\* the same seat is left to decide the next one
VotersPresent ==
  \A s, v \in Seats : at.vote[s][v] # "none" =>
    /\ State(v) = "Present" /\ v # s
    /\ \/ State(s) = "Absent" /\ VoteTimeReached(at, s)
       \/ at.seat[s].flap /\ (looked => FlapActive(at.seat[s]))

\* However often it says Hello, is let go and tries again, a seat spends no more than
\* max_catch_up_ms of one absence on catching up
CatchUpBounded == \A s \in Seats : trying[s] <= MaxCatchUp

\* The cap is absolute: all the pauses of a match together are never longer than max_pause_ms,
\* whoever goes, comes back and catches up in them
PausesCapped == stopped <= MaxPause

\* held_ms is the time in which nothing could be sealed, through pauses that overlap and
\* countdowns that are cut short: a limit on the time of play must leave out exactly that
HeldTimeIsReal == HeldFor(at) = held

\* After a pause of resume_min_pause_ms or more the match goes on only when everybody has been
\* there for a whole countdown, whatever short pauses come in between
CountdownBeforePlay == due /\ calm < ResumeCountdown => Held(at)

\* After a restart the others cannot vote out a neighbour who has not come back yet before
\* restart_vote_after_ms: update() drops it no earlier, unless the cap is reached
RestartGrace ==
  [][ \A s \in unseen : Update /\ State(s) # "Dropped" /\ at.seat[s]'.state = "Dropped"
        => uptime >= RestartVoteAfter \/ PauseFor(at) >= MaxPause ]_vars

\* What attendance.hpp:39-40 says of a seat that flaps: the vote stays open across its returns,
\* with the votes already cast, until it is decided or the window went by without another loss.
\* So a choice is there as long as its voter is and the seat has been lost within the window.
FlapVoteStays ==
  [][ \A s, v \in Seats :
        /\ at.vote[s][v] # "none" /\ FlapActive(at.seat[s])
        /\ State(v)' = "Present" /\ State(s)' # "Dropped"
        => at.vote[s][v]' # "none" ]_vars

\* The match always goes on again: pauses, countdowns and new pauses cannot hold it for good
PlaysOn == []<>~Held(at)
=============================================================================
