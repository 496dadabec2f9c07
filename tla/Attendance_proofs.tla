-------------------------- MODULE Attendance_proofs --------------------------
(***************************************************************************)
(* Theorems about Attendance, for every table and every configuration.     *)
(*                                                                         *)
(* Every handler does the same kinds of thing to a seat (Moves), to the    *)
(* votes and to the clocks of the pause (ClocksFollow); Handled puts them  *)
(* together.  One lemma per operation shows that it is Handled, and the    *)
(* inductive invariant is shown to survive whatever is Handled, once.      *)
(***************************************************************************)
EXTENDS Attendance, NumberFacts, SequenceTheorems

\* What is known of a seat: t is what the spectator noted of its catching up, u tells whether
\* it has not been at the table since the restart
SeatInv(seat, t, u) ==
  /\ seat.state = "Present" => t = 0
  /\ Away(seat.state) => t <= CatchingFor(seat)
  /\ t <= MaxCatchUp
  /\ u => /\ seat.state # "Present" /\ ~seat.flap
          /\ Away(seat.state) => /\ seat.excused
                                 /\ uptime < RestartVoteAfter => seat.away <= uptime
SeatsInv(a) == \A s \in Seats : SeatInv(a.seat[s], trying[s], s \in unseen)

VotesInv(a) ==
  \A s, v \in Seats : a.vote[s][v] # "none" => a.seat[v].state = "Present" /\ v # s

\* What is known of the clocks; p is how long the pause that goes on has lasted
ClockInv(a, p) ==
  /\ HeldFor(a) = held
  /\ Paused(a) => ~a.resuming
  /\ ~a.resuming => a.resumeAge = 0
  /\ stopped <= Plus(a.pauseBefore, IF Paused(a) THEN a.pauseAge ELSE 0)
  /\ p = (IF Paused(a) THEN a.pauseAge ELSE 0)
  /\ due /\ ResumeCountdown > 0 => calm < ResumeCountdown
  /\ due /\ calm < ResumeCountdown =>
       IF Paused(a) THEN a.owe \/ a.pauseAge >= ResumeMinPause
                    ELSE a.resuming /\ a.resumeAge <= calm

\* What update() has seen to
LookedInv ==
  looked => /\ \A s \in Seats : State(s) = "CatchingUp" => CatchingFor(at.seat[s]) < MaxCatchUp
            /\ Paused(at) => PauseFor(at) < MaxPause

IInv ==
  /\ TypeOK
  /\ SeatsInv(at)
  /\ VotesInv(at)
  /\ ClockInv(at, pausing)
  /\ stopped <= MaxPause
  /\ LookedInv
------------------------------------------------------------------------------
(* Numbers and times *)

\* What a configuration is.
LEMMA Configuration ==
  ASSUME match \in Settings
  PROVE  /\ Seats \subseteq Nat /\ IsFiniteSet(Seats)
         /\ VoteAfter \in Nat /\ RestartVoteAfter \in Nat /\ CatchUpStall \in Nat
         /\ MinAbsence \in Nat /\ MaxPause \in Nat /\ MaxCatchUp \in Nat
         /\ RejoinWindow \in Nat /\ FlapWindow \in Nat /\ ResumeCountdown \in Nat
         /\ ResumeMinPause \in Nat /\ Forever \in Nat /\ MaxPercent \in Nat
         /\ RejoinAttempts \in Nat \ {0} /\ FlapLosses \in Nat \ {0}
BY AttendanceAssumption
DEF Seats, VoteAfter, RestartVoteAfter, CatchUpStall, MinAbsence, MaxPause, MaxCatchUp,
    RejoinWindow, FlapWindow, ResumeCountdown, ResumeMinPause, Forever, MaxPercent,
    RejoinAttempts, FlapLosses

\* No time at all is a time.
LEMMA Zero ==
  ASSUME match \in Settings
  PROVE  0 \in 0 .. Forever /\ 0 \in 0 .. ResumeCountdown /\ 0 \in 0 .. MaxPercent
BY Configuration

\* A sum of times is a time: it stops at Forever.
LEMMA PlusIsTime ==
  ASSUME match \in Settings, NEW x \in Nat, NEW y \in Nat
  PROVE  Plus(x, y) \in 0 .. Forever
BY Configuration DEF Plus

\* Pruning a list of times leaves a list of times, which is no longer.
LEMMA PrunedTimes ==
  ASSUME match \in Settings, NEW times \in Seq(Nat)
  PROVE  /\ RecentLosses(Aged(times)) \in Seq(Nat)
         /\ Len(RecentLosses(Aged(times))) <= Len(times)
         /\ RecentAttempts(Aged(times)) \in Seq(Nat)
         /\ Len(RecentAttempts(Aged(times))) <= Len(times)
<1> DEFINE n == Len(times)
           aged == Aged(times)
<1>1. n \in Nat /\ DOMAIN times = 1 .. n /\ \A i \in 1 .. n : times[i] \in Nat
  BY LenProperties, ElementOfSeq
<1>2. /\ aged = [i \in 1 .. n |-> times[i] + 1] /\ aged \in [1 .. n -> Nat]
  BY <1>1 DEF Aged
<1>3. aged \in Seq(Nat) /\ Len(aged) = n /\ DOMAIN aged = 1 .. n
  <2>1. aged \in Seq(Nat)
    BY <1>1, <1>2, SeqDef
  <2>2. DOMAIN aged = 1 .. n
    BY <1>2
  <2>3. Len(aged) \in Nat /\ DOMAIN aged = 1 .. Len(aged)
    BY <2>1, LenProperties
  <2> QED  BY <1>1, <2>1, <2>2, <2>3
<1> HIDE DEF aged
<1>4. \A i \in 1 .. n : aged[i] \in Nat
  BY <1>2
<1>5. ASSUME NEW S \in SUBSET (1 .. n)
      PROVE  Cardinality(S) \in 0 .. n
  <2>1. IsFiniteSet(1 .. n) /\ Cardinality(1 .. n) = n
    <3>1. 1 \in Int /\ n \in Int /\ n \in Nat
      BY <1>1
    <3>2. IsFiniteSet(1 .. n) /\ Cardinality(1 .. n) = IF 1 > n THEN 0 ELSE n - 1 + 1
      BY <3>1, FS_Interval, Zenon
    <3> QED  BY <3>1, <3>2
  <2>2. IsFiniteSet(S) /\ Cardinality(S) <= Cardinality(1 .. n)
    BY <2>1, FS_Subset
  <2>3. Cardinality(S) \in Nat
    BY <2>2, FS_CardinalityType
  <2> QED  BY <1>1, <2>1, <2>2, <2>3
<1>6. RecentLosses(aged) \in Seq(Nat) /\ Len(RecentLosses(aged)) <= n
  <2> DEFINE S == {i \in DOMAIN aged : aged[i] <= FlapWindow}
             k == Cardinality(S)
  <2>1. k \in 0 .. n
    BY <1>3, <1>5
  <2>2. RecentLosses(aged) = SubSeq(aged, 1, k)
    BY DEF RecentLosses
  <2> HIDE DEF S, k
  <2>3. \A i \in 1 .. k : aged[i] \in Nat
    BY <1>1, <1>4, <2>1
  <2>4. SubSeq(aged, 1, k) \in Seq(Nat) /\ Len(SubSeq(aged, 1, k)) = IF 1 <= k THEN k - 1 + 1 ELSE 0
    BY <2>1, <2>3, SubSeqProperties
  <2> QED  BY <1>1, <2>1, <2>2, <2>4
<1>7. RecentAttempts(aged) \in Seq(Nat) /\ Len(RecentAttempts(aged)) <= n
  <2> DEFINE S == {i \in DOMAIN aged : aged[i] >= RejoinWindow}
             k == 1 + Cardinality(S)
  <2>1. k \in 1 .. n + 1
    BY <1>1, <1>3, <1>5
  <2>2. RecentAttempts(aged) = SubSeq(aged, k, n)
    BY <1>3 DEF RecentAttempts
  <2> HIDE DEF S, k
  <2>3. \A i \in k .. n : aged[i] \in Nat
    BY <1>1, <1>4, <2>1
  <2>4. SubSeq(aged, k, n) \in Seq(Nat) /\ Len(SubSeq(aged, k, n)) = IF k <= n THEN n - k + 1 ELSE 0
    BY <1>1, <2>1, <2>3, SubSeqProperties
  <2> QED  BY <1>1, <2>1, <2>2, <2>4
<1> QED  BY <1>6, <1>7 DEF aged
------------------------------------------------------------------------------
(* What a handler does to a seat, to the votes and to the clocks *)

\* The changes of a seat from x to y.
Moves(x, y) ==
  \/ /\ y.state = x.state /\ y.catching = x.catching /\ y.spent = x.spent
     /\ y.away = x.away /\ (y.excused <=> x.excused) /\ (y.flap => x.flap)
  \/ x.state = "Present" /\ Away(y.state)
  \/ y.state = "Present"
  \/ y.state = "Dropped" /\ ~y.flap
  \/ /\ Away(x.state) /\ Away(y.state) /\ CatchingFor(y) = CatchingFor(x)
     /\ y.away = x.away /\ (y.excused <=> x.excused) /\ (y.flap <=> x.flap)

\* Who goes takes his votes with him, and nobody gets one.
VotesFollow(a, c) ==
  \A s, v \in Seats :
    /\ c.vote[s][v] \in {a.vote[s][v], "none"}
    /\ a.seat[v].state = "Present" /\ c.seat[v].state # "Present" => c.vote[s][v] = "none"

\* The clocks when the pause goes on as it was, when it begins and when it ends.
SameClocks(a, c) ==
  /\ c.pauseBefore = a.pauseBefore /\ c.pauseReal = a.pauseReal /\ c.pauseAge = a.pauseAge
  /\ (c.owe <=> a.owe) /\ (c.resuming <=> a.resuming) /\ c.resumeAge = a.resumeAge
  /\ c.resumeBefore = a.resumeBefore
ClocksBegin(a, c) ==
  /\ c.pauseBefore = a.pauseBefore /\ c.pauseReal = a.pauseReal /\ c.pauseAge = 0
  /\ (c.owe <=> CountingDown(a)) /\ ~c.resuming
  /\ c.resumeAge = (IF a.resuming THEN 0 ELSE a.resumeAge)
  /\ c.resumeBefore = (IF a.resuming THEN Plus(a.resumeBefore, Shorter(a.resumeAge, ResumeCountdown))
                                     ELSE a.resumeBefore)
ClocksEnd(a, c) ==
  /\ c.pauseBefore = Plus(a.pauseBefore, Longer(a.pauseAge, MinAbsence))
  /\ c.pauseReal = Plus(a.pauseReal, a.pauseAge) /\ c.pauseAge = 0 /\ ~c.owe
  /\ LET counts == ResumeCountdown > 0 /\ (a.owe \/ a.pauseAge >= ResumeMinPause)
     IN  /\ (c.resuming <=> counts \/ a.resuming)
         /\ c.resumeAge = (IF counts /\ a.resuming THEN 0 ELSE a.resumeAge)
         /\ c.resumeBefore = (IF counts /\ a.resuming
                              THEN Plus(a.resumeBefore, Shorter(a.resumeAge, ResumeCountdown))
                              ELSE a.resumeBefore)
ClocksFollow(a, c) ==
  \/ (Paused(a) <=> Paused(c)) /\ SameClocks(a, c)
  \/ ~Paused(a) /\ Paused(c) /\ ClocksBegin(a, c)
  \/ Paused(a) /\ ~Paused(c) /\ ClocksEnd(a, c)

Handled(a, c) ==
  /\ c \in AttendanceRecord
  /\ \A s \in Seats : Moves(a.seat[s], c.seat[s])
  /\ VotesFollow(a, c)
  /\ ClocksFollow(a, c)
------------------------------------------------------------------------------
(* Settling the pause *)

\* A countdown that is folded is over, and its time counts as held.
LEMMA FoldedClocks ==
  ASSUME match \in Settings, NEW a \in AttendanceRecord
  PROVE  LET f == Folded(a)
         IN  /\ f \in AttendanceRecord /\ f.seat = a.seat /\ f.vote = a.vote
             /\ f.pauseBefore = a.pauseBefore /\ f.pauseReal = a.pauseReal
             /\ f.pauseAge = a.pauseAge /\ ~f.resuming
             /\ f.resumeAge = (IF a.resuming THEN 0 ELSE a.resumeAge)
             /\ f.resumeBefore = (IF a.resuming
                                  THEN Plus(a.resumeBefore, Shorter(a.resumeAge, ResumeCountdown))
                                  ELSE a.resumeBefore)
<1> DEFINE before == Plus(a.resumeBefore, Shorter(a.resumeAge, ResumeCountdown))
           f == Folded(a)
<1>1. CASE a.resuming
  <2>1. f = [a EXCEPT !.resumeBefore = before, !.resuming = FALSE, !.resumeAge = 0]
    BY <1>1, Zenon DEF Folded
  <2>2. a.resumeBefore \in Nat /\ Shorter(a.resumeAge, ResumeCountdown) \in Nat
    BY Configuration DEF AttendanceRecord, Shorter
  <2>3. before \in 0 .. Forever
    BY <2>2, PlusIsTime
  <2> HIDE DEF before, f
  <2>4. /\ f \in AttendanceRecord /\ f.seat = a.seat /\ f.vote = a.vote
        /\ f.pauseBefore = a.pauseBefore /\ f.pauseReal = a.pauseReal
        /\ f.pauseAge = a.pauseAge /\ ~f.resuming /\ f.resumeAge = 0 /\ f.resumeBefore = before
    BY <2>1, <2>3, Zero DEF AttendanceRecord
  <2> QED  BY <1>1, <2>4 DEF before, f
<1>2. CASE ~a.resuming
  <2>1. f = a
    BY <1>2 DEF Folded
  <2> QED  BY <1>2, <2>1
<1> QED  BY <1>1, <1>2

\* What the seats and the votes do not tell, settle_pause finds out from the seats.
LEMMA PauseSettled ==
  ASSUME match \in Settings, NEW a \in AttendanceRecord, NEW b \in AttendanceRecord,
         SameClocks(a, b)
  PROVE  LET c == Settled(Paused(a), b)
         IN  /\ c \in AttendanceRecord /\ c.seat = b.seat /\ c.vote = b.vote
             /\ ClocksFollow(a, c)
<1> DEFINE c == Settled(Paused(a), b)
<1>1. CASE (Paused(a) <=> Paused(b))
  <2>1. c = b
    BY <1>1 DEF Settled
  <2> QED  BY <1>1, <2>1 DEF ClocksFollow
<1>2. CASE ~Paused(a) /\ Paused(b)
  <2> DEFINE f == Folded(b)
             owe == CountingDown(b)
  <2>1. c = PauseBegun(b)
    BY <1>2 DEF Settled
  <2>2. PauseBegun(b) = [f EXCEPT !.owe = owe, !.pauseAge = 0]
    BY Zenon DEF PauseBegun
  <2>3. owe \in BOOLEAN /\ (owe <=> CountingDown(a))
    BY DEF CountingDown, AttendanceRecord, SameClocks
  <2>4. /\ f \in AttendanceRecord /\ f.seat = b.seat /\ f.vote = b.vote
        /\ f.pauseBefore = b.pauseBefore /\ f.pauseReal = b.pauseReal /\ ~f.resuming
        /\ f.resumeAge = (IF b.resuming THEN 0 ELSE b.resumeAge)
        /\ f.resumeBefore = (IF b.resuming
                             THEN Plus(b.resumeBefore, Shorter(b.resumeAge, ResumeCountdown))
                             ELSE b.resumeBefore)
    BY FoldedClocks
  <2> HIDE DEF c, owe, f
  <2>5. /\ c \in AttendanceRecord /\ c.seat = f.seat /\ c.vote = f.vote
        /\ c.pauseBefore = f.pauseBefore /\ c.pauseReal = f.pauseReal /\ c.pauseAge = 0
        /\ c.resumeAge = f.resumeAge /\ c.resumeBefore = f.resumeBefore
        /\ (c.owe <=> owe) /\ (c.resuming <=> f.resuming)
    BY <2>1, <2>2, <2>3, <2>4, Zero DEF AttendanceRecord
  <2>6. Paused(c)
    BY <1>2, <2>4, <2>5 DEF Paused
  <2>7. ClocksBegin(a, c)
    BY <2>3, <2>4, <2>5 DEF ClocksBegin, SameClocks
  <2> QED  BY <1>2, <2>4, <2>5, <2>6, <2>7 DEF ClocksFollow, c
<1>3. CASE Paused(a) /\ ~Paused(b)
  <2> DEFINE pauseBefore == Plus(b.pauseBefore, Longer(b.pauseAge, MinAbsence))
             pauseReal == Plus(b.pauseReal, b.pauseAge)
             d == [b EXCEPT !.pauseBefore = pauseBefore, !.pauseReal = pauseReal,
                            !.pauseAge = 0, !.owe = FALSE]
             f == Folded(d)
             counts == ResumeCountdown > 0 /\ (b.owe \/ b.pauseAge >= ResumeMinPause)
  <2>1. c = PauseEnded(b)
    BY <1>3 DEF Settled
  <2>2. PauseEnded(b) = IF counts THEN [f EXCEPT !.resuming = TRUE] ELSE d
    BY Zenon DEF PauseEnded
  <2>3. pauseBefore \in 0 .. Forever /\ pauseReal \in 0 .. Forever
    <3>1. /\ b.pauseBefore \in Nat /\ b.pauseReal \in Nat /\ b.pauseAge \in Nat
          /\ Longer(b.pauseAge, MinAbsence) \in Nat
      BY Configuration DEF AttendanceRecord, Longer
    <3> QED  BY <3>1, PlusIsTime
  <2> HIDE DEF pauseBefore, pauseReal, f, d, counts, c
  <2>4. /\ d \in AttendanceRecord /\ d.seat = b.seat /\ d.vote = b.vote
        /\ d.pauseBefore = pauseBefore /\ d.pauseReal = pauseReal /\ d.pauseAge = 0
        /\ ~d.owe /\ (d.resuming <=> b.resuming) /\ d.resumeAge = b.resumeAge
        /\ d.resumeBefore = b.resumeBefore
    BY <2>3, Zero DEF AttendanceRecord, d
  <2>5. CASE counts
    <3>1. /\ f \in AttendanceRecord /\ f.seat = d.seat /\ f.vote = d.vote
          /\ f.pauseBefore = d.pauseBefore /\ f.pauseReal = d.pauseReal
          /\ f.pauseAge = d.pauseAge
          /\ f.resumeAge = (IF d.resuming THEN 0 ELSE d.resumeAge)
          /\ f.resumeBefore = (IF d.resuming
                               THEN Plus(d.resumeBefore, Shorter(d.resumeAge, ResumeCountdown))
                               ELSE d.resumeBefore)
      BY <2>4, FoldedClocks DEF f
    <3>2. /\ f.owe <=> d.owe
      BY <2>4 DEF f, Folded, AttendanceRecord
    <3>3. c = [f EXCEPT !.resuming = TRUE]
      BY <2>1, <2>2, <2>5
    <3>4. /\ c \in AttendanceRecord /\ c.seat = f.seat /\ c.vote = f.vote
          /\ c.pauseBefore = f.pauseBefore /\ c.pauseReal = f.pauseReal
          /\ c.pauseAge = f.pauseAge /\ (c.owe <=> f.owe) /\ c.resuming
          /\ c.resumeAge = f.resumeAge /\ c.resumeBefore = f.resumeBefore
      BY <3>1, <3>3 DEF AttendanceRecord
    <3>5. ~Paused(c)
      BY <1>3, <2>4, <3>1, <3>4 DEF Paused
    <3>6. ClocksEnd(a, c)
      BY <2>4, <2>5, <3>1, <3>2, <3>4 DEF ClocksEnd, SameClocks, counts, pauseBefore, pauseReal
    <3> QED  BY <1>3, <2>4, <3>1, <3>4, <3>5, <3>6 DEF ClocksFollow, c
  <2>6. CASE ~counts
    <3>1. c = d
      BY <2>1, <2>2, <2>6
    <3>2. ~Paused(d)
      BY <1>3, <2>4 DEF Paused
    <3>3. ClocksEnd(a, d)
      BY <2>4, <2>6 DEF ClocksEnd, SameClocks, counts, pauseBefore, pauseReal
    <3> QED  BY <1>3, <2>4, <3>1, <3>2, <3>3 DEF ClocksFollow, c
  <2> QED  BY <2>5, <2>6
<1> QED  BY <1>1, <1>2, <1>3
------------------------------------------------------------------------------
(* The parts of the invariant survive whatever is handled *)

\* held_ms stays what it was, and a countdown that is owed is not lost.
LEMMA HandledClocks ==
  ASSUME match \in Settings, NEW a \in AttendanceRecord, NEW c \in AttendanceRecord,
         ClocksFollow(a, c), NEW p, ClockInv(a, p),
         stopped \in 0 .. Forever, calm \in 0 .. ResumeCountdown
  PROVE  ClockInv(c, IF Paused(c) THEN p ELSE 0)
<1> USE Configuration DEF AttendanceRecord
<1>1. CASE (Paused(a) <=> Paused(c)) /\ SameClocks(a, c)
  <2>1. HeldFor(c) = HeldFor(a)
    BY <1>1 DEF HeldFor, SameClocks, Plus, Shorter
  <2> QED  BY <1>1, <2>1 DEF ClockInv, SameClocks, Plus
<1>2. CASE ~Paused(a) /\ Paused(c) /\ ClocksBegin(a, c)
  <2>1. HeldFor(c) = HeldFor(a)
    <3>1. CASE a.resuming
      BY <1>2, <3>1 DEF HeldFor, ClocksBegin, Plus, Shorter
    <3>2. CASE ~a.resuming
      BY <1>2, <3>2 DEF HeldFor, ClocksBegin, Plus, Shorter
    <3> QED  BY <3>1, <3>2
  <2>2. due /\ calm < ResumeCountdown => c.owe
    BY <1>2 DEF ClockInv, ClocksBegin, CountingDown
  <2>3. stopped <= Plus(c.pauseBefore, c.pauseAge)
    BY <1>2 DEF ClockInv, ClocksBegin, Plus
  <2> QED  BY <1>2, <2>1, <2>2, <2>3 DEF ClockInv, ClocksBegin
<1>3. CASE Paused(a) /\ ~Paused(c) /\ ClocksEnd(a, c)
  <2>1. HeldFor(c) = HeldFor(a)
    BY <1>3 DEF HeldFor, ClocksEnd, ClockInv, Plus, Shorter
  <2>2. stopped <= Plus(c.pauseBefore, 0)
    BY <1>3 DEF ClockInv, ClocksEnd, Plus, Longer
  <2>3. due /\ calm < ResumeCountdown => c.resuming /\ c.resumeAge <= calm
    BY <1>3 DEF ClockInv, ClocksEnd
  <2>4. ~c.resuming => c.resumeAge = 0
    BY <1>3 DEF ClockInv, ClocksEnd
  <2> QED  BY <1>3, <2>1, <2>2, <2>3, <2>4 DEF ClockInv
<1> QED  BY <1>1, <1>2, <1>3 DEF ClocksFollow

\* A seat that is at the table has nothing noted of it, one that stays away keeps it.
LEMMA SeatMoves ==
  ASSUME match \in Settings, NEW x \in SeatRecord, NEW y \in SeatRecord, Moves(x, y),
         NEW t \in 0 .. Forever, NEW u, SeatInv(x, t, u), NEW v, v => u /\ y.state # "Present"
  PROVE  SeatInv(y, IF y.state = "Present" THEN 0 ELSE t, v)
<1>1. y.spent \in 0 .. Forever /\ y.catching \in 0 .. Forever
  BY DEF SeatRecord
<1>2. CatchingFor(y) \in 0 .. Forever
  BY <1>1, Configuration DEF CatchingFor, Plus
<1> USE Configuration DEF SeatInv
<1>3. CASE y.state = "Present"
  BY <1>3 DEF Away
<1>4. CASE /\ y.state = x.state /\ y.catching = x.catching /\ y.spent = x.spent
           /\ y.away = x.away /\ (y.excused <=> x.excused) /\ (y.flap => x.flap)
  BY <1>3, <1>4 DEF CatchingFor
<1>5. CASE x.state = "Present" /\ Away(y.state)
  BY <1>2, <1>5 DEF Away
<1>6. CASE y.state = "Dropped" /\ ~y.flap
  BY <1>6 DEF Away
<1>7. CASE /\ Away(x.state) /\ Away(y.state) /\ CatchingFor(y) = CatchingFor(x)
           /\ y.away = x.away /\ (y.excused <=> x.excused) /\ (y.flap <=> x.flap)
  BY <1>7 DEF Away
<1> QED  BY <1>3, <1>4, <1>5, <1>6, <1>7 DEF Moves

\* Whoever is counted is still there.
LEMMA HandledVotes ==
  ASSUME NEW a \in AttendanceRecord, NEW c \in AttendanceRecord, VotesFollow(a, c), VotesInv(a)
  PROVE  VotesInv(c)
BY DEF VotesFollow, VotesInv
------------------------------------------------------------------------------
(* One lemma per operation *)

\* clear_votes only takes votes away, and all that the seats that go have cast.
LEMMA VotesCleared ==
  ASSUME NEW b \in AttendanceRecord, NEW gone, NEW keepAbout
  PROVE  LET c == Cleared(b, gone, keepAbout)
         IN  /\ c \in AttendanceRecord /\ c.seat = b.seat /\ SameClocks(b, c)
             /\ \A s, v \in Seats : /\ c.vote[s][v] \in {b.vote[s][v], "none"}
                                    /\ v \in gone => c.vote[s][v] = "none"
<1> DEFINE Y == [s \in Seats |-> [v \in Seats |->
                   IF v \in gone \/ (s \in gone /\ ~keepAbout) THEN "none" ELSE b.vote[s][v]]]
           c == Cleared(b, gone, keepAbout)
<1>1. c = [b EXCEPT !.vote = Y]
  BY Zenon DEF Cleared
<1>2. Y \in [Seats -> [Seats -> Choices]]
  BY DEF AttendanceRecord, Choices
<1>3. \A s, v \in Seats : Y[s][v] \in {b.vote[s][v], "none"} /\ (v \in gone => Y[s][v] = "none")
  OBVIOUS
<1> HIDE DEF Y, c
<1>4. c \in AttendanceRecord /\ c.seat = b.seat /\ c.vote = Y /\ SameClocks(b, c)
  BY <1>1, <1>2 DEF AttendanceRecord, SameClocks
<1> QED  BY <1>3, <1>4 DEF c

\* Seats that move, then clear_votes and settle_pause: the shape of most handlers.
LEMMA SeatsHandled ==
  ASSUME match \in Settings, NEW a \in AttendanceRecord, NEW X \in [Seats -> SeatRecord],
         NEW gone, NEW keepAbout, \A s \in Seats : Moves(a.seat[s], X[s]),
         \A v \in Seats : a.seat[v].state = "Present" /\ X[v].state # "Present" => v \in gone
  PROVE  LET c == Settled(Paused(a), Cleared([a EXCEPT !.seat = X], gone, keepAbout))
         IN  Handled(a, c) /\ c.seat = X
<1> DEFINE b == [a EXCEPT !.seat = X]
           d == Cleared(b, gone, keepAbout)
           c == Settled(Paused(a), d)
<1>1. b \in AttendanceRecord /\ b.seat = X /\ b.vote = a.vote /\ SameClocks(a, b)
  BY DEF AttendanceRecord, SameClocks
<1> HIDE DEF b
<1>2. /\ d \in AttendanceRecord /\ d.seat = b.seat /\ SameClocks(b, d)
      /\ \A s, v \in Seats : /\ d.vote[s][v] \in {b.vote[s][v], "none"}
                             /\ v \in gone => d.vote[s][v] = "none"
  BY <1>1, VotesCleared
<1> HIDE DEF d
<1>3. SameClocks(a, d)
  BY <1>1, <1>2 DEF SameClocks
<1>4. c \in AttendanceRecord /\ c.seat = d.seat /\ c.vote = d.vote /\ ClocksFollow(a, c)
  BY <1>2, <1>3, PauseSettled
<1> HIDE DEF c
<1>5. c.seat = X
  BY <1>1, <1>2, <1>4
<1>6. VotesFollow(a, c)
  BY <1>1, <1>2, <1>4, <1>5 DEF VotesFollow
<1>7. Handled(a, c)
  BY <1>4, <1>5, <1>6 DEF Handled
<1> QED  BY <1>5, <1>7 DEF c, d, b

\* Seats that move while who is away stays away, and votes that are closed: the rest of them.
LEMMA HandledInPause ==
  ASSUME NEW a \in AttendanceRecord, NEW c \in AttendanceRecord, SameClocks(a, c),
         \A s \in Seats : Moves(a.seat[s], c.seat[s]),
         \A s \in Seats : Away(c.seat[s].state) <=> Away(a.seat[s].state),
         \A s \in Seats : a.seat[s].state = "Present" => c.seat[s].state = "Present",
         \A s, v \in Seats : c.vote[s][v] \in {a.vote[s][v], "none"}
  PROVE  Handled(a, c)
<1>1. Paused(a) <=> Paused(c)
  BY DEF Paused
<1>2. VotesFollow(a, c) /\ ClocksFollow(a, c)
  BY <1>1 DEF VotesFollow, ClocksFollow
<1> QED  BY <1>2 DEF Handled

\* A loss is noted at its place: the seat stays a seat, and is in a new absence.
LEMMA GoneSeat ==
  ASSUME match \in Settings, NEW x \in SeatRecord
  PROVE  /\ Gone(x) \in SeatRecord /\ Gone(x).spent = 0 /\ Gone(x).state = x.state
<1> DEFINE losses == SubSeq(<<0>> \o x.losses, 1, Shorter(FlapLosses, Len(x.losses) + 1))
           flap == Len(losses) >= FlapLosses
           w == [x EXCEPT !.away = 0, !.spent = 0, !.excused = FALSE]
<1>1. Gone(x) = [w EXCEPT !.losses = losses, !.flap = flap]
  <2>1. w.losses = x.losses
    BY DEF SeatRecord
  <2> QED  BY <2>1 DEF Gone, WithLoss
<1>2. losses \in Seq(Nat) /\ Len(losses) <= FlapLosses
  <2> DEFINE s == <<0>> \o x.losses
             k == Shorter(FlapLosses, Len(x.losses) + 1)
  <2>1. x.losses \in Seq(Nat) /\ Len(x.losses) \in Nat
    BY LenProperties DEF SeatRecord
  <2>2. <<0>> \in Seq(Nat) /\ Len(<<0>>) = 1
    OBVIOUS
  <2>3. s \in Seq(Nat) /\ Len(s) = Len(x.losses) + 1
    BY <2>1, <2>2, ConcatProperties
  <2> HIDE DEF s
  <2>4. k \in Nat /\ k <= Len(s) /\ k <= FlapLosses /\ k >= 1
    <3>1. FlapLosses \in Nat /\ FlapLosses >= 1
      BY Configuration
    <3> QED  BY <2>1, <2>3, <3>1 DEF Shorter
  <2> HIDE DEF k
  <2>5. \A i \in 1 .. k : s[i] \in Nat
    BY <2>3, <2>4, ElementOfSeq
  <2>6. SubSeq(s, 1, k) \in Seq(Nat) /\ Len(SubSeq(s, 1, k)) = IF 1 <= k THEN k - 1 + 1 ELSE 0
    BY <2>4, <2>5, SubSeqProperties
  <2>7. Len(SubSeq(s, 1, k)) <= FlapLosses
    BY <2>4, <2>6, Configuration
  <2> QED  BY <2>6, <2>7 DEF s, k
<1>3. flap \in BOOLEAN
  OBVIOUS
<1> HIDE DEF losses, flap
<1>4. w \in SeatRecord /\ w.spent = 0 /\ w.state = x.state
  BY Zero DEF SeatRecord
<1> HIDE DEF w
<1>5. losses \in {times \in Seq(Nat) : Len(times) <= FlapLosses}
  BY <1>2
<1>6. PICK v : v = Gone(x)
  OBVIOUS
<1>7. v = [w EXCEPT !.losses = losses, !.flap = flap]
  BY <1>1, <1>6
<1>8. v \in SeatRecord /\ v.spent = w.spent /\ v.state = w.state
  BY <1>3, <1>4, <1>5, <1>7 DEF SeatRecord
<1> QED  BY <1>4, <1>6, <1>8

\* A Hello is counted, and nothing else is known of it.
LEMMA AttemptedSeat ==
  ASSUME NEW x \in SeatRecord, Len(x.attempts) < RejoinAttempts, match \in Settings
  PROVE  /\ Attempted(x) \in SeatRecord /\ Attempted(x).state = x.state
         /\ Attempted(x).away = x.away /\ Attempted(x).spent = x.spent
         /\ Attempted(x).catching = x.catching
         /\ (Attempted(x).excused <=> x.excused) /\ (Attempted(x).flap <=> x.flap)
<1> DEFINE attempts == Append(x.attempts, 0)
<1>1. attempts \in Seq(Nat) /\ Len(attempts) <= RejoinAttempts
  <2>1. x.attempts \in Seq(Nat) /\ Len(x.attempts) \in Nat
    BY LenProperties DEF SeatRecord
  <2>2. attempts \in Seq(Nat) /\ Len(attempts) = Len(x.attempts) + 1
    BY <2>1
  <2>3. RejoinAttempts \in Nat
    BY Configuration
  <2> QED  BY <2>1, <2>2, <2>3
<1>2. Attempted(x) = [x EXCEPT !.attempts = attempts]
  BY DEF Attempted
<1> HIDE DEF attempts
<1>3. attempts \in {times \in Seq(Nat) : Len(times) <= RejoinAttempts}
  BY <1>1
<1> QED  BY <1>2, <1>3 DEF SeatRecord

\* An attempt begins with no time of its own.
LEMMA BegunSeat ==
  ASSUME match \in Settings, NEW x \in SeatRecord
  PROVE  /\ Begun(x) \in SeatRecord /\ Begun(x).state = "CatchingUp"
         /\ Begun(x).away = x.away /\ Begun(x).spent = x.spent /\ Begun(x).catching = 0
         /\ (Begun(x).excused <=> x.excused) /\ (Begun(x).flap <=> x.flap)
<1>1. Begun(x) \in SeatRecord
  BY Zero DEF Begun, SeatRecord
<1> QED  BY <1>1 DEF Begun, SeatRecord

\* An attempt that fails leaves the time that it took.
LEMMA FailedSeat ==
  ASSUME match \in Settings, NEW x \in SeatRecord, x.state = "CatchingUp"
  PROVE  /\ FailedCatchUp(x) \in SeatRecord /\ FailedCatchUp(x).state = "Absent"
         /\ Moves(x, FailedCatchUp(x))
<1> DEFINE y == FailedCatchUp(x)
           spent == CatchingFor(x)
<1>1. spent \in 0 .. Forever
  <2>1. x.spent \in Nat /\ x.catching \in Nat
    BY Configuration DEF SeatRecord
  <2> QED  BY <2>1, PlusIsTime DEF CatchingFor
<1>2. y = [x EXCEPT !.spent = spent, !.state = "Absent", !.percent = 0, !.stalled = 0,
                    !.catching = 0]
  BY DEF FailedCatchUp
<1> HIDE DEF y, spent
<1>3. /\ y \in SeatRecord /\ y.state = "Absent" /\ y.spent = spent /\ y.away = x.away
      /\ y.excused = x.excused /\ y.flap = x.flap
  BY <1>1, <1>2, Zero DEF SeatRecord
<1>4. CatchingFor(y) = spent
  BY <1>1, <1>3, Configuration DEF CatchingFor, Plus
<1> QED  BY <1>3, <1>4 DEF Moves, Away, y, spent

\* A seat that is dropped is neither away nor put to the vote any more.
LEMMA DropsSeat ==
  ASSUME match \in Settings, NEW x \in SeatRecord
  PROVE  LET y == DroppedSeat(x)
         IN  y \in SeatRecord /\ y.state = "Dropped" /\ ~y.flap /\ Moves(x, y)
<1> DEFINE y == DroppedSeat(x)
           awayBefore == IF Away(x.state) /\ ~x.excused THEN Plus(x.awayBefore, x.away)
                                                        ELSE x.awayBefore
<1>1. awayBefore \in 0 .. Forever
  <2>1. x.awayBefore \in 0 .. Forever /\ x.awayBefore \in Nat /\ x.away \in Nat
    BY Configuration DEF SeatRecord
  <2> QED  BY <2>1, PlusIsTime
<1>2. y = [x EXCEPT !.awayBefore = awayBefore, !.excused = FALSE, !.state = "Dropped",
                    !.away = 0, !.percent = 0, !.stalled = 0, !.catching = 0, !.flap = FALSE]
  BY DEF DroppedSeat
<1> HIDE DEF y, awayBefore
<1>3. y \in SeatRecord /\ y.state = "Dropped" /\ ~y.flap
  BY <1>1, <1>2, Zero DEF SeatRecord
<1> QED  BY <1>3 DEF Moves, y

\* A connection is lost (Attendance::lost).
LEMMA LostHandled ==
  ASSUME match \in Settings, NEW a \in AttendanceRecord, NEW s \in Seats,
         a.seat[s].state = "Present"
  PROVE  Handled(a, LostOf(a, s))
<1> DEFINE y == [Gone(a.seat[s]) EXCEPT !.state = "Absent"]
           X == [a.seat EXCEPT ![s] = y]
           b == [a EXCEPT !.seat = X]
<1>1. a.seat \in [Seats -> SeatRecord] /\ a.seat[s] \in SeatRecord
  BY DEF AttendanceRecord
<1>2. y \in SeatRecord /\ y.state = "Absent"
  BY <1>1, GoneSeat DEF SeatRecord
<1>3. LostOf(a, s) = Settled(Paused(a), Cleared(b, {s}, b.seat[s].flap))
  BY DEF LostOf
<1> HIDE DEF y
<1>4. X \in [Seats -> SeatRecord] /\ \A t \in Seats : X[t] = IF t = s THEN y ELSE a.seat[t]
  BY <1>1, <1>2
<1> HIDE DEF X
<1>5. \A t \in Seats : Moves(a.seat[t], X[t])
  BY <1>2, <1>4 DEF Moves, Away
<1>6. \A v \in Seats : a.seat[v].state = "Present" /\ X[v].state # "Present" => v \in {s}
  BY <1>4
<1> QED  BY <1>3, <1>4, <1>5, <1>6, SeatsHandled

\* A Hello with the seat's key (Attendance::returning).
LEMMA ReturningHandled ==
  ASSUME match \in Settings, NEW a \in AttendanceRecord, NEW s \in Seats,
         RejoinAllowed(a.seat[s])
  PROVE  Handled(a, ReturningOf(a, s))
<1> DEFINE x == a.seat[s]
           seat == Attempted(x)
           y == CASE seat.state = "CatchingUp" -> seat
                  [] seat.state = "Present" -> Begun(Gone(seat))
                  [] OTHER -> Begun(seat)
           X == [a.seat EXCEPT ![s] = y]
           b == [a EXCEPT !.seat = X]
<1>1. a.seat \in [Seats -> SeatRecord] /\ x \in SeatRecord
  BY DEF AttendanceRecord
<1>2. /\ x.state \in {"Present", "Absent", "CatchingUp"} /\ Len(x.attempts) < RejoinAttempts
      /\ x.spent \in 0 .. Forever
  BY <1>1 DEF RejoinAllowed, SeatRecord
<1>3. /\ seat \in SeatRecord /\ seat.state = x.state /\ seat.away = x.away
      /\ seat.spent = x.spent /\ seat.catching = x.catching
      /\ (seat.excused <=> x.excused) /\ (seat.flap <=> x.flap)
  BY <1>1, <1>2, AttemptedSeat
<1>4. ReturningOf(a, s) = Settled(Paused(a), Cleared(b, {s}, FlapActive(b.seat[s])))
  BY Zenon DEF ReturningOf
<1> HIDE DEF seat, x
<1>5. y \in SeatRecord /\ y.state = "CatchingUp" /\ Moves(x, y)
  <2>1. CASE x.state = "CatchingUp"
    BY <1>3, <2>1 DEF Moves
  <2>2. CASE x.state = "Present"
    <3>1. Gone(seat) \in SeatRecord
      BY <1>3, GoneSeat
    <3>2. Begun(Gone(seat)) \in SeatRecord /\ Begun(Gone(seat)).state = "CatchingUp"
      BY <3>1, BegunSeat
    <3> QED  BY <1>3, <2>2, <3>2 DEF Moves, Away
  <2>3. CASE x.state = "Absent"
    <3>1. /\ Begun(seat) \in SeatRecord /\ Begun(seat).state = "CatchingUp"
          /\ Begun(seat).away = x.away /\ Begun(seat).spent = x.spent
          /\ Begun(seat).catching = 0 /\ (Begun(seat).excused <=> x.excused)
          /\ (Begun(seat).flap <=> x.flap)
      BY <1>3, BegunSeat
    <3>2. y = Begun(seat)
      BY <1>3, <2>3
    <3> HIDE DEF y
    <3>3. CatchingFor(y) = CatchingFor(x)
      BY <1>2, <2>3, <3>1, <3>2 DEF CatchingFor
    <3> QED  BY <2>3, <3>1, <3>2, <3>3 DEF Moves, Away
  <2> QED  BY <1>2, <2>1, <2>2, <2>3
<1> HIDE DEF y
<1>6. X \in [Seats -> SeatRecord] /\ \A t \in Seats : X[t] = IF t = s THEN y ELSE a.seat[t]
  BY <1>1, <1>5
<1> HIDE DEF X
<1>7. \A t \in Seats : Moves(a.seat[t], X[t])
  BY <1>5, <1>6 DEF Moves, x
<1>8. \A v \in Seats : a.seat[v].state = "Present" /\ X[v].state # "Present" => v \in {s}
  BY <1>6
<1> QED  BY <1>4, <1>6, <1>7, <1>8, SeatsHandled

\* A seat that has caught up is at the table.
LEMMA CatchesUpSeat ==
  ASSUME match \in Settings, NEW x \in SeatRecord
  PROVE  CaughtUpSeat(x) \in SeatRecord /\ CaughtUpSeat(x).state = "Present"
<1> DEFINE absence == Longer(x.away, MinAbsence)
           awayBefore == IF x.excused THEN x.awayBefore ELSE Plus(x.awayBefore, absence)
           y == CaughtUpSeat(x)
<1>1. awayBefore \in 0 .. Forever
  <2>1. x.awayBefore \in 0 .. Forever /\ x.away \in 0 .. Forever
    BY DEF SeatRecord
  <2>2. x.awayBefore \in Nat /\ x.away \in Nat
    BY <2>1, Configuration
  <2>3. absence \in Nat
    BY <2>2, Configuration DEF Longer
  <2> QED  BY <2>1, <2>2, <2>3, PlusIsTime
<1>2. y = [x EXCEPT !.awayBefore = awayBefore, !.excused = FALSE, !.state = "Present",
                    !.away = 0, !.spent = 0, !.percent = 0, !.stalled = 0, !.catching = 0]
  BY DEF CaughtUpSeat
<1> HIDE DEF awayBefore, y
<1>3. y \in SeatRecord /\ y.state = "Present"
  BY <1>1, <1>2, Zero DEF SeatRecord
<1> QED  BY <1>3 DEF y

\* A seat that has caught up (Attendance::caught_up).
LEMMA CaughtUpHandled ==
  ASSUME match \in Settings, NEW a \in AttendanceRecord, NEW s \in Seats
  PROVE  Handled(a, CaughtUpOf(a, s))
<1> DEFINE y == CaughtUpSeat(a.seat[s])
           X == [a.seat EXCEPT ![s] = y]
           b == [a EXCEPT !.seat = X]
<1>1. a.seat \in [Seats -> SeatRecord] /\ a.seat[s] \in SeatRecord
  BY DEF AttendanceRecord
<1>2. y \in SeatRecord /\ y.state = "Present"
  BY <1>1, CatchesUpSeat
<1>3. CaughtUpOf(a, s) = Settled(Paused(a), Cleared(b, {s}, FlapActive(b.seat[s])))
  BY DEF CaughtUpOf
<1> HIDE DEF y
<1>4. X \in [Seats -> SeatRecord] /\ \A t \in Seats : X[t] = IF t = s THEN y ELSE a.seat[t]
  BY <1>1, <1>2
<1> HIDE DEF X
<1>5. \A t \in Seats : Moves(a.seat[t], X[t])
  BY <1>2, <1>4 DEF Moves
<1>6. \A v \in Seats : a.seat[v].state = "Present" /\ X[v].state # "Present" => v \in {s}
  BY <1>4
<1> QED  BY <1>3, <1>4, <1>5, <1>6, SeatsHandled

\* Seats that are dropped (Attendance::drop_seat).
LEMMA DroppedHandled ==
  ASSUME match \in Settings, NEW a \in AttendanceRecord, NEW gone
  PROVE  /\ Handled(a, DroppedOf(a, gone))
         /\ \A s \in Seats : DroppedOf(a, gone).seat[s] =
                               IF s \in gone THEN DroppedSeat(a.seat[s]) ELSE a.seat[s]
<1> DEFINE X == [s \in Seats |-> IF s \in gone THEN DroppedSeat(a.seat[s]) ELSE a.seat[s]]
           b == [a EXCEPT !.seat = X]
<1>1. \A s \in Seats : a.seat[s] \in SeatRecord
  BY DEF AttendanceRecord
<1>2. DroppedOf(a, gone) = Settled(Paused(a), Cleared(b, gone, FALSE))
  BY Zenon DEF DroppedOf
<1>3. \A s \in Seats : X[s] = IF s \in gone THEN DroppedSeat(a.seat[s]) ELSE a.seat[s]
  OBVIOUS
<1>4. X \in [Seats -> SeatRecord]
  BY <1>1, DropsSeat
<1> HIDE DEF X
<1>5. \A s \in Seats : Moves(a.seat[s], X[s])
  BY <1>1, <1>3, DropsSeat DEF Moves
<1>6. \A v \in Seats : a.seat[v].state = "Present" /\ X[v].state # "Present" => v \in gone
  BY <1>3
<1> DEFINE keepAbout == FALSE
           c == Settled(Paused(a), Cleared(b, gone, keepAbout))
<1>8. DroppedOf(a, gone) = c
  BY <1>2
<1> HIDE DEF keepAbout
<1>7. Handled(a, c) /\ c.seat = X
  BY <1>4, <1>5, <1>6, SeatsHandled
<1> HIDE DEF c
<1> QED  BY <1>3, <1>7, <1>8

\* One seat in an attempt that goes on, or fails (Attendance::progress, catch_up_failed).
LEMMA AttemptHandled ==
  ASSUME NEW a \in AttendanceRecord, NEW s \in Seats, NEW y \in SeatRecord,
         Away(a.seat[s].state), Away(y.state), Moves(a.seat[s], y)
  PROVE  Handled(a, [a EXCEPT !.seat[s] = y])
<1> DEFINE X == [a.seat EXCEPT ![s] = y]
           c == [a EXCEPT !.seat = X]
<1>1. X \in [Seats -> SeatRecord] /\ \A t \in Seats : X[t] = IF t = s THEN y ELSE a.seat[t]
  BY DEF AttendanceRecord
<1> HIDE DEF X
<1>2. c \in AttendanceRecord /\ c.seat = X /\ c.vote = a.vote /\ SameClocks(a, c)
  BY <1>1 DEF AttendanceRecord, SameClocks
<1> HIDE DEF c
<1>3. /\ \A t \in Seats : Moves(a.seat[t], c.seat[t])
      /\ \A t \in Seats : Away(c.seat[t].state) <=> Away(a.seat[t].state)
      /\ \A t \in Seats : a.seat[t].state = "Present" => c.seat[t].state = "Present"
      /\ \A t, v \in Seats : c.vote[t][v] \in {a.vote[t][v], "none"}
  BY <1>1, <1>2 DEF Moves, Away
<1>4. Handled(a, c)
  BY <1>2, <1>3, HandledInPause
<1> QED  BY <1>4 DEF c, X

\* update(), first: nobody is catching up any more who has spent max_catch_up_ms on it.
LEMMA LetGoHandled ==
  ASSUME match \in Settings, NEW a \in AttendanceRecord
  PROVE  LET c == LetGo(a)
         IN  /\ Handled(a, c)
             /\ \A s \in Seats :
                  /\ c.seat[s].state \in {a.seat[s].state, "Absent"}
                  /\ c.seat[s].state = "Present" <=> a.seat[s].state = "Present"
                  /\ c.seat[s].state = "CatchingUp" => CatchingFor(c.seat[s]) < MaxCatchUp
             /\ Paused(c) <=> Paused(a)
<1> DEFINE lets(seat) == /\ seat.state = "CatchingUp"
                         /\ CatchingFor(seat) >= MaxCatchUp \/ seat.stalled >= CatchUpStall
           X == [s \in Seats |-> IF lets(a.seat[s]) THEN FailedCatchUp(a.seat[s]) ELSE a.seat[s]]
           c == LetGo(a)
<1>1. a.vote \in [Seats -> [Seats -> Choices]] /\ \A s \in Seats : a.seat[s] \in SeatRecord
  BY DEF AttendanceRecord
<1>2. c = [a EXCEPT !.seat = X]
  BY Zenon DEF LetGo
<1>4. ASSUME NEW s \in Seats
      PROVE  /\ X[s] \in SeatRecord /\ Moves(a.seat[s], X[s])
             /\ X[s].state \in {a.seat[s].state, "Absent"}
             /\ X[s].state = "Present" <=> a.seat[s].state = "Present"
             /\ Away(X[s].state) <=> Away(a.seat[s].state)
             /\ X[s].state = "CatchingUp" => CatchingFor(X[s]) < MaxCatchUp
  <2>1. CASE lets(a.seat[s])
    <3>1. X[s] = FailedCatchUp(a.seat[s])
      BY <2>1
    <3> QED  BY <1>1, <2>1, <3>1, FailedSeat DEF Away
  <2>2. CASE ~lets(a.seat[s])
    <3>1. X[s] = a.seat[s]
      BY <2>2
    <3>2. CatchingFor(a.seat[s]) \in Nat
      <4>1. a.seat[s].spent \in 0 .. Forever /\ a.seat[s].catching \in 0 .. Forever
        BY <1>1 DEF SeatRecord
      <4> QED  BY <4>1, Configuration DEF CatchingFor, Plus
    <3> QED  BY <1>1, <2>2, <3>1, <3>2, Configuration DEF Moves
  <2> QED  BY <2>1, <2>2
<1>5. X \in [Seats -> SeatRecord]
  BY <1>4
<1> HIDE DEF X, lets, c
<1>6. c \in AttendanceRecord /\ c.seat = X /\ c.vote = a.vote /\ SameClocks(a, c)
  BY <1>2, <1>5 DEF AttendanceRecord, SameClocks
<1>7. Paused(c) <=> Paused(a)
  BY <1>4, <1>6 DEF Paused
<1>8. Handled(a, c)
  <2>1. /\ \A s \in Seats : Moves(a.seat[s], c.seat[s])
        /\ \A s \in Seats : Away(c.seat[s].state) <=> Away(a.seat[s].state)
        /\ \A s \in Seats : a.seat[s].state = "Present" => c.seat[s].state = "Present"
        /\ \A s, v \in Seats : c.vote[s][v] \in {a.vote[s][v], "none"}
    BY <1>4, <1>6
  <2> QED  BY <1>6, <2>1, HandledInPause
<1> QED  BY <1>4, <1>6, <1>7, <1>8 DEF c

\* Second: a seat that has stopped flapping is as it was, but for that.
LEMMA FlapsOverHandled ==
  ASSUME NEW a \in AttendanceRecord
  PROVE  LET c == FlapsOver(a)
         IN  /\ Handled(a, c)
             /\ \A s \in Seats : /\ c.seat[s].state = a.seat[s].state
                                 /\ CatchingFor(c.seat[s]) = CatchingFor(a.seat[s])
             /\ Paused(c) <=> Paused(a)
<1> DEFINE over == {s \in Seats : a.seat[s].flap /\ ~FlapActive(a.seat[s])}
           closed == {s \in over : ~(a.seat[s].state = "Absent" /\ AwayFor(a, s) >= VoteAfter)}
           X == [s \in Seats |-> IF s \in over THEN [a.seat[s] EXCEPT !.flap = FALSE] ELSE a.seat[s]]
           Y == [s \in Seats |-> IF s \in closed THEN [v \in Seats |-> "none"] ELSE a.vote[s]]
           c == FlapsOver(a)
<1>1. c = [a EXCEPT !.seat = X, !.vote = Y]
  BY Zenon DEF FlapsOver
<1>2. a.vote \in [Seats -> [Seats -> Choices]] /\ \A s \in Seats : a.seat[s] \in SeatRecord
  BY DEF AttendanceRecord
<1> HIDE DEF over, closed
<1>3. ASSUME NEW s \in Seats
      PROVE  /\ X[s] \in SeatRecord /\ Moves(a.seat[s], X[s]) /\ X[s].state = a.seat[s].state
             /\ CatchingFor(X[s]) = CatchingFor(a.seat[s])
  <2> DEFINE x == a.seat[s]
             y == [x EXCEPT !.flap = FALSE]
  <2>1. x \in SeatRecord
    BY <1>2
  <2>2. X[s] = IF s \in over THEN y ELSE x
    OBVIOUS
  <2> HIDE DEF x, X
  <2>3. /\ y \in SeatRecord /\ y.state = x.state /\ y.catching = x.catching /\ y.spent = x.spent
        /\ y.away = x.away /\ (y.excused <=> x.excused) /\ ~y.flap
    BY <2>1 DEF SeatRecord
  <2> HIDE DEF y
  <2> QED  BY <2>1, <2>2, <2>3 DEF Moves, CatchingFor, x
<1>4. Y \in [Seats -> [Seats -> Choices]] /\ \A s, v \in Seats : Y[s][v] \in {a.vote[s][v], "none"}
  BY <1>2 DEF Choices
<1>5. X \in [Seats -> SeatRecord]
  BY <1>3
<1> HIDE DEF X, Y, c
<1>6. c \in AttendanceRecord /\ c.seat = X /\ c.vote = Y /\ SameClocks(a, c)
  BY <1>1, <1>4, <1>5 DEF AttendanceRecord, SameClocks
<1>7. Paused(c) <=> Paused(a)
  BY <1>3, <1>6 DEF Paused
<1>8. Handled(a, c)
  <2>1. /\ \A s \in Seats : Moves(a.seat[s], c.seat[s])
        /\ \A s \in Seats : Away(c.seat[s].state) <=> Away(a.seat[s].state)
        /\ \A s \in Seats : a.seat[s].state = "Present" => c.seat[s].state = "Present"
        /\ \A s, v \in Seats : c.vote[s][v] \in {a.vote[s][v], "none"}
    BY <1>3, <1>4, <1>6
  <2> QED  BY <1>6, <2>1, HandledInPause, SMTT(40)
<1> QED  BY <1>3, <1>6, <1>7, <1>8 DEF c

\* The vote is about a seat that is put to it: of finitely many candidates one has been away
\* longest, and of those one comes first.
LEMMA SubjectIsCandidate ==
  ASSUME match \in Settings, NEW a \in AttendanceRecord, VoteSubject(a) # NoSeat
  PROVE  /\ VoteSubject(a) \in Seats
         /\ LET seat == a.seat[VoteSubject(a)]
            IN  \/ seat.state = "Absent" /\ VoteTimeReached(a, VoteSubject(a))
                \/ seat.state # "Dropped" /\ FlapActive(seat)
<1> DEFINE candidates == {s \in Seats :
              \/ a.seat[s].state = "Absent" /\ VoteTimeReached(a, s)
              \/ a.seat[s].state # "Dropped" /\ FlapActive(a.seat[s])}
           first(s) == \A t \in candidates :
              \/ AwayFor(a, t) < AwayFor(a, s)
              \/ AwayFor(a, t) = AwayFor(a, s) /\ s <= t
<1>1. candidates # {} /\ VoteSubject(a) = CHOOSE s \in candidates : first(s)
  BY DEF VoteSubject
<1>2. candidates \subseteq Nat /\ \A t \in candidates : AwayFor(a, t) \in 0 .. Forever
  <2>1. candidates \subseteq Seats /\ Seats \subseteq Nat
    BY Configuration
  <2>2. ASSUME NEW t \in Seats PROVE AwayFor(a, t) \in 0 .. Forever
    <3>1. a.seat[t].awayBefore \in 0 .. Forever /\ a.seat[t].away \in 0 .. Forever
      BY DEF AttendanceRecord, SeatRecord
    <3> QED  BY <3>1, Configuration DEF AwayFor, Plus
  <2> QED  BY <2>1, <2>2
<1> HIDE DEF candidates
<1>3. PICK longest \in candidates : \A t \in candidates : AwayFor(a, t) <= AwayFor(a, longest)
  <2> DEFINE T == {Forever - AwayFor(a, t) : t \in candidates}
  <2>1. T \in SUBSET Nat /\ T # {}
    <3>1. \A t \in candidates : Forever - AwayFor(a, t) \in Nat
      BY <1>2, Configuration
    <3> QED  BY <1>1, <3>1
  <2>2. \E n \in T : \A m \in T : n <= m
    <3> HIDE DEF T
    <3> QED  BY <2>1, LeastNumber
  <2>3. PICK s \in candidates : \A t \in candidates : Forever - AwayFor(a, s) <= Forever - AwayFor(a, t)
    BY <2>2
  <2> QED  BY <1>2, <2>3, Configuration
<1>4. PICK s \in candidates : first(s)
  <2> DEFINE T == {t \in candidates : AwayFor(a, t) = AwayFor(a, longest)}
  <2>1. T \in SUBSET Nat /\ T # {}
    BY <1>2
  <2>2. PICK s \in T : \A t \in T : s <= t
    <3> HIDE DEF T
    <3> QED  BY <2>1, LeastNumber
  <2>3. ASSUME NEW t \in candidates
        PROVE  AwayFor(a, t) < AwayFor(a, s) \/ (AwayFor(a, t) = AwayFor(a, s) /\ s <= t)
    BY <1>2, <1>3, <2>2, Configuration
  <2> QED  BY <2>2, <2>3
<1>5. VoteSubject(a) \in candidates
  <2> HIDE DEF first
  <2> QED  BY <1>1, <1>4
<1> QED  BY <1>5 DEF candidates

\* Third: whoever is voted out is dropped.
LEMMA VotedOutHandled ==
  ASSUME match \in Settings, NEW a \in AttendanceRecord
  PROVE  LET c == VotedOut(a)
         IN  /\ Handled(a, c)
             /\ \A s \in Seats :
                  \/ c.seat[s] = a.seat[s]
                  \/ /\ c.seat[s].state = "Dropped"
                     /\ \/ a.seat[s].state = "Absent" /\ VoteTimeReached(a, s)
                        \/ FlapActive(a.seat[s])
<1> DEFINE subject == VoteSubject(a)
<1>1. CASE subject # NoSeat /\ VoteWon(VotesForContinue(a, subject), ConnectedHumans(a, subject))
  <2>1. VotedOut(a) = DroppedOf(a, {subject})
    BY <1>1 DEF VotedOut
  <2>2. /\ subject \in Seats
        /\ \/ a.seat[subject].state = "Absent" /\ VoteTimeReached(a, subject)
           \/ FlapActive(a.seat[subject])
    BY <1>1, SubjectIsCandidate
  <2> HIDE DEF subject
  <2>3. /\ Handled(a, DroppedOf(a, {subject}))
        /\ \A s \in Seats : DroppedOf(a, {subject}).seat[s] =
                              IF s = subject THEN DroppedSeat(a.seat[s]) ELSE a.seat[s]
    BY DroppedHandled
  <2>4. \A s \in Seats : DroppedSeat(a.seat[s]).state = "Dropped"
    BY DropsSeat DEF AttendanceRecord
  <2> QED  BY <2>1, <2>2, <2>3, <2>4
<1>2. CASE ~(subject # NoSeat /\ VoteWon(VotesForContinue(a, subject), ConnectedHumans(a, subject)))
  <2>1. VotedOut(a) = a
    BY <1>2 DEF VotedOut
  <2>2. Handled(a, a)
    BY DEF Handled, Moves, VotesFollow, ClocksFollow, SameClocks
  <2> QED  BY <2>1, <2>2
<1> QED  BY <1>1, <1>2

\* Last: when no pause is left, nobody is away any more.
LEMMA CapKeptHandled ==
  ASSUME match \in Settings, NEW a \in AttendanceRecord
  PROVE  LET c == CapKept(a)
         IN  /\ Handled(a, c)
             /\ \A s \in Seats : \/ c.seat[s] = a.seat[s]
                                 \/ c.seat[s].state = "Dropped" /\ PauseFor(a) >= MaxPause
             /\ Paused(c) => c = a /\ ~(PauseFor(a) >= MaxPause)
<1> DEFINE gone == {s \in Seats : Away(a.seat[s].state)}
<1>1. CASE PauseFor(a) >= MaxPause
  <2>1. CapKept(a) = DroppedOf(a, gone)
    BY <1>1 DEF CapKept
  <2>2. /\ Handled(a, DroppedOf(a, gone))
        /\ \A s \in Seats : DroppedOf(a, gone).seat[s] =
                              IF s \in gone THEN DroppedSeat(a.seat[s]) ELSE a.seat[s]
    <3> HIDE DEF gone
    <3> QED  BY DroppedHandled
  <2>3. \A s \in Seats : DroppedSeat(a.seat[s]).state = "Dropped"
    BY DropsSeat DEF AttendanceRecord
  <2>4. ~Paused(DroppedOf(a, gone))
    BY <2>2, <2>3 DEF Paused, Away
  <2> QED  BY <1>1, <2>1, <2>2, <2>3, <2>4
<1>2. CASE ~(PauseFor(a) >= MaxPause)
  <2>1. CapKept(a) = a
    BY <1>2 DEF CapKept
  <2>2. Handled(a, a)
    BY DEF Handled, Moves, VotesFollow, ClocksFollow, SameClocks
  <2> QED  BY <1>2, <2>1, <2>2
<1> QED  BY <1>1, <1>2
------------------------------------------------------------------------------
(* The steps *)

\* The match does not change.
LEMMA SameMatch ==
  ASSUME match' = match
  PROVE  /\ Seats' = Seats /\ Forever' = Forever /\ MaxCatchUp' = MaxCatchUp
         /\ MaxPause' = MaxPause /\ MinAbsence' = MinAbsence
         /\ ResumeCountdown' = ResumeCountdown /\ ResumeMinPause' = ResumeMinPause
         /\ RestartVoteAfter' = RestartVoteAfter /\ AttendanceRecord' = AttendanceRecord
BY DEF Seats, Forever, MaxCatchUp, MaxPause, MinAbsence, ResumeCountdown, ResumeMinPause,
       RestartVoteAfter, AttendanceRecord, SeatRecord, MaxPercent, FlapLosses, RejoinAttempts

\* What the invariant says of the next state, in the words of this one.
LEMMA NextClocks ==
  ASSUME match' = match, UNCHANGED <<held, stopped, calm, due>>, ClockInv(at', pausing')
  PROVE  ClockInv(at, pausing)'
<1>1. Paused(at)' <=> Paused(at')
  BY SameMatch DEF Paused
<1>2. HeldFor(at)' = HeldFor(at')
  BY <1>1, SameMatch DEF HeldFor, Plus, Shorter
<1> QED  BY <1>1, <1>2, SameMatch DEF ClockInv, Plus

\* Seats that are what they should be in the new attendance are so in the next state.
LEMMA NextSeats ==
  ASSUME match' = match, UNCHANGED uptime,
         \A s \in Seats : SeatInv(at'.seat[s], trying'[s], s \in unseen')
  PROVE  SeatsInv(at)'
BY SameMatch DEF SeatsInv, SeatInv, CatchingFor, Plus

\* Votes that are of seats that are away are so in the next state.
LEMMA NextVotes ==
  ASSUME match' = match, VotesInv(at')
  PROVE  VotesInv(at)'
BY SameMatch DEF VotesInv

\* A call that moves seats, the pause and the votes as a handler does, and is noted.
LEMMA NotedStep ==
  ASSUME IInv, match' = match, Noted, looked' = FALSE, fresh' \in SUBSET Seats,
         at' \in AttendanceRecord, \A s \in Seats : Moves(at.seat[s], at'.seat[s]),
         ClocksFollow(at, at'), VotesInv(at')
  PROVE  IInv'
<1>1. match \in Settings /\ at \in AttendanceRecord
  BY DEF IInv, TypeOK
<1>3. ClockInv(at, pausing)'
  <2>1. stopped \in 0 .. Forever /\ calm \in 0 .. ResumeCountdown /\ ClockInv(at, pausing)
    BY DEF IInv, TypeOK
  <2>2. ClockInv(at', IF Paused(at') THEN pausing ELSE 0)
    BY <1>1, <2>1, HandledClocks
  <2>3. ClockInv(at', pausing')
    BY <2>2 DEF Noted
  <2> QED  BY <2>3, NextClocks DEF Noted
<1>4. SeatsInv(at)'
  <2> SUFFICES ASSUME NEW s \in Seats
               PROVE  SeatInv(at'.seat[s], trying'[s], s \in unseen')
    BY NextSeats DEF Noted
  <2>1. at.seat[s] \in SeatRecord /\ at'.seat[s] \in SeatRecord
    BY <1>1 DEF AttendanceRecord
  <2> DEFINE u == s \in unseen
             v == s \in unseen'
             t == IF at'.seat[s].state = "Present" THEN 0 ELSE trying[s]
  <2>2. trying[s] \in 0 .. Forever /\ SeatInv(at.seat[s], trying[s], u)
    BY DEF IInv, TypeOK, SeatsInv
  <2>3. trying'[s] = t /\ (v => u /\ at'.seat[s].state # "Present")
    BY DEF Noted
  <2> HIDE DEF u, v
  <2>4. SeatInv(at'.seat[s], t, v)
    BY <1>1, <2>1, <2>2, <2>3, SeatMoves
  <2> QED  BY <2>3, <2>4 DEF v
<1>5. VotesInv(at)'
  BY NextVotes
<1>6. TypeOK'
  <2>1. pausing' \in 0 .. Forever
    BY <1>1, Zero DEF Noted, IInv, TypeOK
  <2>2. trying' \in [Seats -> 0 .. Forever]
    BY <1>1, Zero DEF Noted, IInv, TypeOK
  <2>3. unseen' \subseteq Seats
    BY DEF Noted, IInv, TypeOK
  <2> QED  BY <1>1, <2>1, <2>2, <2>3, SameMatch DEF Noted, IInv, TypeOK
<1>7. stopped' <= MaxPause' /\ LookedInv'
  BY SameMatch DEF Noted, IInv, LookedInv
<1> QED  BY <1>3, <1>4, <1>5, <1>6, <1>7 DEF IInv

\* A handler that only notes what it did: the invariant holds after it.
LEMMA HandledStep ==
  ASSUME IInv, match' = match, Handled(at, at'), Noted, looked' = FALSE, fresh' \in SUBSET Seats
  PROVE  IInv'
<1>1. at \in AttendanceRecord /\ VotesInv(at)
  BY DEF IInv, TypeOK
<1>2. at' \in AttendanceRecord /\ VotesFollow(at, at')
  BY DEF Handled
<1>3. VotesInv(at')
  BY <1>1, <1>2, HandledVotes
<1> QED  BY <1>2, <1>3, NotedStep DEF Handled

\* A lost connection keeps the invariant.
LEMMA LostStep ==
  ASSUME IInv, NEW s \in Seats, Lost(s), match' = match
  PROVE  IInv'
<1>1. match \in Settings /\ at \in AttendanceRecord /\ fresh \in SUBSET Seats
  BY DEF IInv, TypeOK
<1>2. Handled(at, at')
  BY <1>1, LostHandled DEF Lost, Becomes, State
<1> QED  BY <1>1, <1>2, HandledStep DEF Lost, Becomes

\* A Hello of a seat that is away keeps the invariant.
LEMMA ReturningStep ==
  ASSUME IInv, NEW s \in Seats, Returning(s), match' = match
  PROVE  IInv'
<1>1. match \in Settings /\ at \in AttendanceRecord /\ fresh \in SUBSET Seats
  BY DEF IInv, TypeOK
<1>2. Handled(at, at')
  BY <1>1, ReturningHandled DEF Returning
<1> QED  BY <1>1, <1>2, HandledStep DEF Returning

\* An attempt that goes on keeps the invariant.
LEMMA ProgressStep ==
  ASSUME IInv, NEW s \in Seats, Progress(s), match' = match
  PROVE  IInv'
<1>1. match \in Settings /\ at \in AttendanceRecord /\ fresh \in SUBSET Seats
  BY DEF IInv, TypeOK
<1> DEFINE x == at.seat[s]
           heard(percent) == [x EXCEPT !.percent = percent, !.stalled = 0]
<1>2. x \in SeatRecord
  BY <1>1 DEF AttendanceRecord
<1>3. PICK percent \in at.seat[s].percent + 1 .. MaxPercent :
             Heard(s, [at EXCEPT !.seat[s].percent = percent, !.seat[s].stalled = 0])
  BY DEF Progress
<1>4. x.state = "CatchingUp" /\ at' = [at EXCEPT !.seat[s] = heard(percent)]
  <2>1. at' = [at EXCEPT !.seat[s].percent = percent, !.seat[s].stalled = 0]
    BY <1>3 DEF Heard, Becomes
  <2>2. @ = [at EXCEPT !.seat[s] = heard(percent)]
    BY <1>1 DEF AttendanceRecord
  <2> QED  BY <1>3, <2>1, <2>2 DEF Heard, State
<1>5. percent \in 0 .. MaxPercent
  <2>1. x.percent \in 0 .. MaxPercent
    BY <1>2 DEF SeatRecord
  <2> QED  BY <1>1, <1>3, <2>1, Configuration
<1> DEFINE y == heard(percent)
<1> HIDE DEF x
<1>6. /\ y \in SeatRecord /\ y.state = x.state /\ y.catching = x.catching /\ y.spent = x.spent
      /\ y.away = x.away /\ (y.excused <=> x.excused) /\ (y.flap <=> x.flap)
  BY <1>1, <1>2, <1>5, Zero DEF SeatRecord
<1> HIDE DEF y, heard
<1>7. Away(x.state) /\ Away(y.state) /\ Moves(x, y)
  BY <1>4, <1>6 DEF Away, Moves
<1>8. Handled(at, [at EXCEPT !.seat[s] = y])
  BY <1>1, <1>6, <1>7, AttemptHandled DEF x
<1>9. Handled(at, at')
  BY <1>4, <1>8 DEF y
<1> QED  BY <1>1, <1>3, <1>9, HandledStep DEF Heard, Becomes

\* A seat that is back at the table keeps the invariant: the pause ends, or counts down.
LEMMA CaughtUpStep ==
  ASSUME IInv, NEW s \in Seats, CaughtUp(s), match' = match
  PROVE  IInv'
<1>1. match \in Settings /\ at \in AttendanceRecord /\ fresh \in SUBSET Seats
  BY DEF IInv, TypeOK
<1>2. Handled(at, at')
  BY <1>1, CaughtUpHandled DEF CaughtUp, Heard, Becomes
<1> QED  BY <1>1, <1>2, HandledStep DEF CaughtUp, Heard, Becomes

\* An attempt that fails keeps the invariant: what it took is not given back.
LEMMA CatchUpFailedStep ==
  ASSUME IInv, NEW s \in Seats, CatchUpFailed(s), match' = match
  PROVE  IInv'
<1> DEFINE x == at.seat[s]
           y == FailedCatchUp(x)
<1>1. match \in Settings /\ at \in AttendanceRecord /\ fresh \in SUBSET Seats
  BY DEF IInv, TypeOK
<1>2. at' = [at EXCEPT !.seat[s] = y] /\ x.state = "CatchingUp"
  BY DEF CatchUpFailed, Heard, Becomes, State
<1>3. y \in SeatRecord /\ y.state = "Absent" /\ Moves(x, y)
  BY <1>1, <1>2, FailedSeat DEF AttendanceRecord
<1> HIDE DEF y
<1>4. Handled(at, at')
  BY <1>1, <1>2, <1>3, AttemptHandled DEF Away
<1> QED  BY <1>1, <1>4, HandledStep DEF CatchUpFailed, Heard, Becomes

\* A seat that quits keeps the invariant.
LEMMA DroppedStep ==
  ASSUME IInv, NEW s \in Seats, Dropped(s), match' = match
  PROVE  IInv'
<1>1. match \in Settings /\ at \in AttendanceRecord /\ fresh \in SUBSET Seats
  BY DEF IInv, TypeOK
<1>2. Handled(at, at')
  BY <1>1, DroppedHandled DEF Dropped, Becomes
<1> QED  BY <1>1, <1>2, HandledStep DEF Dropped, Becomes

\* A vote, of a seat that may vote, keeps the invariant.
LEMMA VoteStep ==
  ASSUME IInv, NEW v \in Seats, NEW s \in Seats, Vote(v, s), match' = match
  PROVE  IInv'
<1>1. /\ match \in Settings /\ at \in AttendanceRecord /\ fresh \in SUBSET Seats
      /\ at.vote \in [Seats -> [Seats -> Choices]] /\ VotesInv(at)
  BY DEF IInv, TypeOK, AttendanceRecord
<1>2. PICK choice \in Choices : at' = [at EXCEPT !.vote[s][v] = choice]
  BY DEF Vote, Becomes
<1> DEFINE Y == [at.vote EXCEPT ![s] = [at.vote[s] EXCEPT ![v] = choice]]
<1>3. at' = [at EXCEPT !.vote = Y]
  BY <1>1, <1>2
<1>4. /\ Y \in [Seats -> [Seats -> Choices]]
      /\ \A t, u \in Seats : Y[t][u] = IF t = s /\ u = v THEN choice ELSE at.vote[t][u]
  BY <1>1
<1> HIDE DEF Y
<1>5. at' \in AttendanceRecord /\ at'.seat = at.seat /\ at'.vote = Y /\ SameClocks(at, at')
  BY <1>1, <1>3, <1>4 DEF AttendanceRecord, SameClocks
<1>6. (\A t \in Seats : Moves(at.seat[t], at'.seat[t])) /\ ClocksFollow(at, at')
  BY <1>5 DEF Moves, ClocksFollow, Paused
<1>7. VotesInv(at')
  BY <1>1, <1>4, <1>5 DEF VotesInv, Vote, State
<1>8. Noted /\ looked' = FALSE /\ fresh' \in SUBSET Seats
  BY <1>1 DEF Vote, Becomes
<1> QED  BY <1>5, <1>6, <1>7, <1>8, NotedStep
------------------------------------------------------------------------------
(* update() *)

\* What is known of an attendance, apart from what update() has seen to.
Known(a, p) == a \in AttendanceRecord /\ SeatsInv(a) /\ VotesInv(a) /\ ClockInv(a, p)

\* A part of update(): nobody comes to the table in it, and no pause begins.
Quiet(a, c) ==
  /\ Handled(a, c)
  /\ \A s \in Seats : c.seat[s].state = "Present" => a.seat[s].state = "Present"
  /\ Paused(c) => Paused(a)

\* Each part keeps what is known.
LEMMA QuietKeeps ==
  ASSUME match \in Settings, trying \in [Seats -> 0 .. Forever], stopped \in 0 .. Forever,
         calm \in 0 .. ResumeCountdown,
         NEW a, NEW p, Known(a, p), NEW c, Quiet(a, c)
  PROVE  Known(c, IF Paused(c) THEN p ELSE 0)
<1>1. /\ a \in AttendanceRecord /\ c \in AttendanceRecord
      /\ VotesFollow(a, c) /\ ClocksFollow(a, c)
  BY DEF Known, Quiet, Handled
<1>2. ClockInv(c, IF Paused(c) THEN p ELSE 0)
  BY <1>1, HandledClocks DEF Known
<1>3. VotesInv(c)
  BY <1>1, HandledVotes DEF Known
<1>4. SeatsInv(c)
  <2> SUFFICES ASSUME NEW s \in Seats
               PROVE  SeatInv(c.seat[s], trying[s], s \in unseen)
    BY DEF SeatsInv
  <2> DEFINE x == a.seat[s]
             y == c.seat[s]
             u == s \in unseen
             t == IF y.state = "Present" THEN 0 ELSE trying[s]
  <2>1. x \in SeatRecord /\ y \in SeatRecord
    BY <1>1 DEF AttendanceRecord
  <2>2. Moves(x, y) /\ (y.state = "Present" => x.state = "Present")
    BY DEF Quiet, Handled
  <2>3. trying[s] \in 0 .. Forever /\ SeatInv(x, trying[s], u)
    BY DEF Known, SeatsInv
  <2> HIDE DEF u, x, y
  <2>4. (u => u /\ y.state # "Present") /\ t = trying[s]
    BY <2>2, <2>3 DEF SeatInv
  <2>5. SeatInv(y, t, u)
    BY <2>1, <2>2, <2>3, <2>4, SeatMoves
  <2> QED  BY <2>4, <2>5 DEF u, y
<1> QED  BY <1>1, <1>2, <1>3, <1>4 DEF Known

\* As long as the pause goes on, its time is the same.
LEMMA QuietPause ==
  ASSUME NEW a, NEW c, Quiet(a, c), Paused(c)
  PROVE  Paused(a) /\ PauseFor(c) = PauseFor(a)
BY DEF Quiet, Handled, ClocksFollow, SameClocks, PauseFor

\* The four parts of update(), with what each of them may do to a seat.
LEMMA UpdateParts ==
  ASSUME match \in Settings, NEW a \in AttendanceRecord
  PROVE  LET b == LetGo(a)
             c == FlapsOver(b)
             d == VotedOut(c)
             e == CapKept(d)
         IN  /\ Quiet(a, b) /\ Quiet(b, c) /\ Quiet(c, d) /\ Quiet(d, e) /\ e = UpdateOf(a)
             /\ \A s \in Seats :
                  /\ b.seat[s].state \in {a.seat[s].state, "Absent"}
                  /\ b.seat[s].state = "CatchingUp" => CatchingFor(b.seat[s]) < MaxCatchUp
                  /\ c.seat[s].state = b.seat[s].state
                  /\ CatchingFor(c.seat[s]) = CatchingFor(b.seat[s])
                  /\ \/ d.seat[s] = c.seat[s]
                     \/ /\ d.seat[s].state = "Dropped"
                        /\ \/ c.seat[s].state = "Absent" /\ VoteTimeReached(c, s)
                           \/ FlapActive(c.seat[s])
                  /\ \/ e.seat[s] = d.seat[s]
                     \/ e.seat[s].state = "Dropped" /\ PauseFor(d) >= MaxPause
             /\ Paused(e) => e = d /\ ~(PauseFor(d) >= MaxPause)
<1> DEFINE b == LetGo(a)
           c == FlapsOver(b)
           d == VotedOut(c)
           e == CapKept(d)
<1>1. /\ Handled(a, b) /\ (Paused(b) <=> Paused(a))
      /\ \A s \in Seats :
           /\ b.seat[s].state \in {a.seat[s].state, "Absent"}
           /\ b.seat[s].state = "Present" <=> a.seat[s].state = "Present"
           /\ b.seat[s].state = "CatchingUp" => CatchingFor(b.seat[s]) < MaxCatchUp
  BY LetGoHandled
<1>2. b \in AttendanceRecord
  BY <1>1 DEF Handled
<1> HIDE DEF b
<1>3. /\ Handled(b, c) /\ (Paused(c) <=> Paused(b))
      /\ \A s \in Seats : /\ c.seat[s].state = b.seat[s].state
                          /\ CatchingFor(c.seat[s]) = CatchingFor(b.seat[s])
  BY <1>2, FlapsOverHandled
<1>4. c \in AttendanceRecord
  BY <1>3 DEF Handled
<1> HIDE DEF c
<1>5. /\ Handled(c, d)
      /\ \A s \in Seats :
           \/ d.seat[s] = c.seat[s]
           \/ /\ d.seat[s].state = "Dropped"
              /\ \/ c.seat[s].state = "Absent" /\ VoteTimeReached(c, s)
                 \/ FlapActive(c.seat[s])
  BY <1>4, VotedOutHandled
<1>6. d \in AttendanceRecord
  BY <1>5 DEF Handled
<1>7. Paused(d) => Paused(c)
  BY <1>5 DEF Paused, Away
<1> HIDE DEF d
<1>8. /\ Handled(d, e) /\ (Paused(e) => e = d /\ ~(PauseFor(d) >= MaxPause))
      /\ \A s \in Seats : \/ e.seat[s] = d.seat[s]
                          \/ e.seat[s].state = "Dropped" /\ PauseFor(d) >= MaxPause
  BY <1>6, CapKeptHandled
<1> HIDE DEF e
<1>9. Quiet(a, b) /\ Quiet(b, c) /\ Quiet(c, d) /\ Quiet(d, e)
  BY <1>1, <1>3, <1>5, <1>7, <1>8 DEF Quiet
<1>10. e = UpdateOf(a)
  BY DEF UpdateOf, b, c, d, e
<1> QED  BY <1>1, <1>3, <1>5, <1>8, <1>9, <1>10 DEF b, c, d, e

\* update(): what its four parts do one after the other keeps the invariant.
LEMMA UpdateStep ==
  ASSUME IInv, Update, match' = match
  PROVE  IInv'
<1> DEFINE b == LetGo(at)
           c == FlapsOver(b)
           d == VotedOut(c)
<1>1. /\ match \in Settings /\ at \in AttendanceRecord /\ Known(at, pausing)
      /\ trying \in [Seats -> 0 .. Forever] /\ stopped \in 0 .. Forever
      /\ calm \in 0 .. ResumeCountdown
  BY DEF IInv, TypeOK, Known
<1>2. /\ Quiet(at, b) /\ Quiet(b, c) /\ Quiet(c, d) /\ Quiet(d, at')
      /\ \A s \in Seats :
           /\ b.seat[s].state = "CatchingUp" => CatchingFor(b.seat[s]) < MaxCatchUp
           /\ c.seat[s].state = b.seat[s].state
           /\ CatchingFor(c.seat[s]) = CatchingFor(b.seat[s])
           /\ d.seat[s] = c.seat[s] \/ d.seat[s].state = "Dropped"
           /\ at'.seat[s] = d.seat[s] \/ at'.seat[s].state = "Dropped"
      /\ Paused(at') => at' = d /\ ~(PauseFor(d) >= MaxPause)
  BY <1>1, UpdateParts DEF Update
<1> HIDE DEF b, c, d
<1> DEFINE p == IF Paused(b) THEN pausing ELSE 0
           q == IF Paused(c) THEN p ELSE 0
           r == IF Paused(d) THEN q ELSE 0
<1>3. Known(b, p)
  BY <1>1, <1>2, QuietKeeps
<1>4. Known(c, q)
  <2> HIDE DEF p
  <2> QED  BY <1>1, <1>2, <1>3, QuietKeeps
<1>5. Known(d, r)
  <2> HIDE DEF q
  <2> QED  BY <1>1, <1>2, <1>4, QuietKeeps
<1>6. Known(at', IF Paused(at') THEN r ELSE 0)
  <2> HIDE DEF r
  <2> QED  BY <1>1, <1>2, <1>5, QuietKeeps
<1>7. pausing' = IF Paused(at') THEN r ELSE 0
  BY <1>2 DEF Quiet, Update, Noted
<1> HIDE DEF r
<1>8. Known(at', pausing')
  BY <1>6, <1>7
<1>9. ClockInv(at, pausing)' /\ VotesInv(at)'
  BY <1>8, NextClocks, NextVotes DEF Known, Update, Noted
<1>10. trying' = trying /\ unseen' \subseteq unseen
  <2>1. \A s \in Seats : at'.seat[s].state = "Present" => trying[s] = 0
    BY <1>8 DEF Known, SeatsInv, SeatInv
  <2> QED  BY <1>1, <2>1 DEF Update, Noted
<1>11. SeatsInv(at)'
  <2>1. \A s \in Seats : SeatInv(at'.seat[s], trying'[s], s \in unseen')
    BY <1>8, <1>10 DEF Known, SeatsInv, SeatInv
  <2> QED  BY <2>1, NextSeats DEF Update, Noted
<1>12. TypeOK'
  <2>1. pausing' \in 0 .. Forever
    BY <1>1, Zero DEF Update, Noted, IInv, TypeOK
  <2>2. at' \in AttendanceRecord /\ trying' \in [Seats -> 0 .. Forever] /\ unseen' \subseteq Seats
    BY <1>1, <1>8, <1>10 DEF Known, IInv, TypeOK
  <2> QED  BY <2>1, <2>2, SameMatch DEF Update, Noted, IInv, TypeOK
<1>13. LookedInv'
  <2>1. ASSUME NEW s \in Seats, at'.seat[s].state = "CatchingUp"
        PROVE  CatchingFor(at'.seat[s]) < MaxCatchUp
    BY <1>2, <2>1
  <2>2. Paused(at') => PauseFor(at') < MaxPause
    <3>1. PauseFor(at') \in Nat
      <4>1. at'.pauseBefore \in 0 .. Forever /\ at'.pauseAge \in 0 .. Forever
        BY <1>8 DEF Known, AttendanceRecord
      <4> QED  BY <1>1, <4>1, Configuration DEF PauseFor, Plus, Longer
    <3> QED  BY <1>1, <1>2, <3>1, Configuration
  <2>3. (Paused(at)' <=> Paused(at')) /\ PauseFor(at)' = PauseFor(at')
    BY SameMatch DEF Paused, PauseFor, Plus, Longer
  <2>4. \A s \in Seats : CatchingFor(at.seat[s])' = CatchingFor(at'.seat[s])
    BY SameMatch DEF CatchingFor, Plus
  <2> QED  BY <2>1, <2>2, <2>3, <2>4, SameMatch DEF LookedInv, State
<1>14. stopped' <= MaxPause'
  BY SameMatch DEF Update, Noted, IInv
<1> QED  BY <1>9, <1>11, <1>12, <1>13, <1>14 DEF IInv
------------------------------------------------------------------------------
(* The tick *)

\* A seat that is one tick older.
LEMMA OlderSeat ==
  ASSUME match \in Settings, NEW x \in SeatRecord
  PROVE  LET y == Older(x)
         IN  /\ y \in SeatRecord /\ y.state = x.state /\ y.spent = x.spent
             /\ (y.excused <=> x.excused) /\ (y.flap <=> x.flap)
             /\ y.away = Grown(x.away, Away(x.state))
             /\ y.catching = Grown(x.catching, x.state = "CatchingUp")
<1> DEFINE y == Older(x)
           away == Grown(x.away, Away(x.state))
           stalled == Grown(x.stalled, x.state = "CatchingUp")
           catching == Grown(x.catching, x.state = "CatchingUp")
           losses == RecentLosses(Aged(x.losses))
           attempts == RecentAttempts(Aged(x.attempts))
<1>1. away \in 0 .. Forever /\ stalled \in 0 .. Forever /\ catching \in 0 .. Forever
  <2>1. x.away \in 0 .. Forever /\ x.stalled \in 0 .. Forever /\ x.catching \in 0 .. Forever
    BY DEF SeatRecord
  <2>2. \A n \in 0 .. Forever : Plus(n, 1) \in 0 .. Forever
    BY Configuration DEF Plus
  <2> QED  BY <2>1, <2>2 DEF Grown
<1>2. losses \in {times \in Seq(Nat) : Len(times) <= FlapLosses}
  <2>1. x.losses \in Seq(Nat) /\ Len(x.losses) <= FlapLosses
    BY DEF SeatRecord
  <2>2. losses \in Seq(Nat) /\ Len(losses) <= Len(x.losses)
    BY <2>1, PrunedTimes
  <2> HIDE DEF y, away, stalled, catching, losses, attempts
  <2>3. Len(losses) \in Nat /\ Len(x.losses) \in Nat /\ FlapLosses \in Nat
    BY <2>1, <2>2, LenProperties, Configuration
  <2>4. Len(losses) <= FlapLosses
    BY <2>1, <2>2, <2>3
  <2> QED  BY <2>2, <2>4
<1>3. attempts \in {times \in Seq(Nat) : Len(times) <= RejoinAttempts}
  <2>1. x.attempts \in Seq(Nat) /\ Len(x.attempts) <= RejoinAttempts
    BY DEF SeatRecord
  <2>2. attempts \in Seq(Nat) /\ Len(attempts) <= Len(x.attempts)
    BY <2>1, PrunedTimes
  <2> HIDE DEF y, away, stalled, catching, losses, attempts
  <2>3. Len(attempts) \in Nat /\ Len(x.attempts) \in Nat /\ RejoinAttempts \in Nat
    BY <2>1, <2>2, LenProperties, Configuration
  <2>4. Len(attempts) <= RejoinAttempts
    BY <2>1, <2>2, <2>3
  <2> QED  BY <2>2, <2>4
<1>4. y = [x EXCEPT !.away = away, !.stalled = stalled, !.catching = catching,
                    !.losses = losses, !.attempts = attempts]
  BY Zenon DEF Older
<1> HIDE DEF y, away, stalled, catching, losses, attempts
<1>5. /\ y \in SeatRecord /\ y.state = x.state /\ y.spent = x.spent
      /\ (y.excused <=> x.excused) /\ (y.flap <=> x.flap)
      /\ y.away = away /\ y.catching = catching
  BY <1>1, <1>2, <1>3, <1>4 DEF SeatRecord
<1> QED  BY <1>5 DEF y, away, catching

\* The seats and the clocks that are one tick older.
LEMMA OlderAttendance ==
  ASSUME match \in Settings, NEW a \in AttendanceRecord
  PROVE  LET c == TickOf(a)
         IN  /\ c \in AttendanceRecord /\ c.vote = a.vote
             /\ \A s \in Seats : c.seat[s] = Older(a.seat[s])
             /\ Paused(c) <=> Paused(a)
             /\ c.pauseBefore = a.pauseBefore /\ c.pauseReal = a.pauseReal
             /\ (c.owe <=> a.owe) /\ (c.resuming <=> a.resuming)
             /\ c.resumeBefore = a.resumeBefore
             /\ c.pauseAge = (IF Paused(a) THEN Plus(a.pauseAge, 1) ELSE 0)
             /\ c.resumeAge = (IF a.resuming THEN Shorter(a.resumeAge + 1, ResumeCountdown) ELSE 0)
<1> DEFINE c == TickOf(a)
           X == [s \in Seats |-> Older(a.seat[s])]
           pauseAge == IF Paused(a) THEN Plus(a.pauseAge, 1) ELSE 0
           resumeAge == IF a.resuming THEN Shorter(a.resumeAge + 1, ResumeCountdown) ELSE 0
<1>1. c = [a EXCEPT !.seat = X, !.pauseAge = pauseAge, !.resumeAge = resumeAge]
  BY Zenon DEF TickOf
<1>2. \A s \in Seats : a.seat[s] \in SeatRecord /\ X[s] = Older(a.seat[s])
  BY DEF AttendanceRecord
<1>3. X \in [Seats -> SeatRecord]
  BY <1>2, OlderSeat
<1>4. pauseAge \in 0 .. Forever /\ resumeAge \in 0 .. ResumeCountdown
  <2>1. a.pauseAge \in 0 .. Forever /\ a.resumeAge \in 0 .. ResumeCountdown
    BY DEF AttendanceRecord
  <2> QED  BY <2>1, Configuration DEF Plus, Shorter
<1> HIDE DEF X, pauseAge, resumeAge, c
<1>5. /\ c \in AttendanceRecord /\ c.seat = X /\ c.vote = a.vote
      /\ c.pauseBefore = a.pauseBefore /\ c.pauseReal = a.pauseReal
      /\ (c.owe <=> a.owe) /\ (c.resuming <=> a.resuming)
      /\ c.resumeBefore = a.resumeBefore
      /\ c.pauseAge = pauseAge /\ c.resumeAge = resumeAge
  BY <1>1, <1>3, <1>4 DEF AttendanceRecord
<1>6. \A s \in Seats : c.seat[s] = Older(a.seat[s]) /\ c.seat[s].state = a.seat[s].state
  BY <1>2, <1>5, OlderSeat
<1>7. Paused(c) <=> Paused(a)
  BY <1>6 DEF Paused
<1> QED  BY <1>5, <1>6, <1>7 DEF c, pauseAge, resumeAge

\* What the spectator measures is what the class measures, tick by tick.
LEMMA TickStep ==
  ASSUME IInv, Tick, match' = match
  PROVE  IInv'
<1>1. /\ match \in Settings /\ at \in AttendanceRecord /\ looked /\ at' = TickOf(at)
      /\ fresh \in SUBSET Seats /\ unseen \in SUBSET Seats
      /\ due \in BOOLEAN
  BY DEF IInv, TypeOK, Tick
<1>2. /\ stopped \in Nat /\ stopped <= Forever /\ held \in Nat /\ held <= Forever
      /\ pausing \in Nat /\ calm \in Nat /\ calm <= ResumeCountdown
      /\ uptime \in Nat /\ uptime <= RestartVoteAfter
      /\ trying \in [Seats -> 0 .. Forever]
  BY Configuration DEF IInv, TypeOK
<1>3. /\ at' \in AttendanceRecord /\ at'.vote = at.vote
      /\ \A s \in Seats : at'.seat[s] = Older(at.seat[s])
      /\ Paused(at') <=> Paused(at)
      /\ at'.pauseBefore = at.pauseBefore /\ at'.pauseReal = at.pauseReal
      /\ (at'.owe <=> at.owe) /\ (at'.resuming <=> at.resuming)
      /\ at'.resumeBefore = at.resumeBefore
      /\ at'.pauseAge = (IF Paused(at) THEN Plus(at.pauseAge, 1) ELSE 0)
      /\ at'.resumeAge = (IF at.resuming THEN Shorter(at.resumeAge + 1, ResumeCountdown) ELSE 0)
  BY <1>1, OlderAttendance
<1>4. /\ at.pauseBefore \in Nat /\ at.pauseReal \in Nat
      /\ at.pauseAge \in Nat /\ at.pauseAge <= Forever
      /\ at.resumeAge \in Nat /\ at.resumeAge <= ResumeCountdown /\ at.resumeBefore \in Nat
  BY <1>1, Configuration DEF AttendanceRecord
<1>5. ClockInv(at, pausing)
  BY DEF IInv
<1>6. /\ Forever \in Nat /\ ResumeCountdown \in Nat /\ ResumeMinPause \in Nat /\ MaxPause \in Nat
      /\ MinAbsence \in Nat /\ RestartVoteAfter \in Nat /\ MaxCatchUp \in Nat
  BY <1>1, Configuration
<1>7. /\ held' = (IF Held(at) THEN Plus(held, 1) ELSE held)
      /\ stopped' = (IF Paused(at) THEN Plus(stopped, 1) ELSE stopped)
      /\ pausing' = (IF Paused(at) THEN Plus(pausing, 1) ELSE 0)
      /\ calm' = (IF Paused(at) THEN 0 ELSE Shorter(calm + 1, ResumeCountdown))
      /\ (due' <=> (due /\ calm' < ResumeCountdown) \/ (Paused(at) /\ pausing' >= ResumeMinPause))
      /\ uptime' = Shorter(uptime + 1, RestartVoteAfter)
  BY DEF Tick
<1>8. HeldFor(at') = held'
  <2>1. CASE Paused(at)
    BY <1>2, <1>3, <1>4, <1>5, <1>6, <1>7, <2>1 DEF ClockInv, HeldFor, Held, Plus
  <2>2. CASE ~Paused(at) /\ at.resuming
    BY <1>2, <1>3, <1>4, <1>5, <1>6, <1>7, <2>2
    DEF ClockInv, HeldFor, Held, CountingDown, Plus, Shorter
  <2>3. CASE ~Paused(at) /\ ~at.resuming
    BY <1>2, <1>3, <1>4, <1>5, <1>6, <1>7, <2>3
    DEF ClockInv, HeldFor, Held, CountingDown, Plus
  <2> QED  BY <2>1, <2>2, <2>3
<1>9. stopped' <= Plus(at'.pauseBefore, IF Paused(at') THEN at'.pauseAge ELSE 0)
  BY <1>2, <1>3, <1>4, <1>5, <1>6, <1>7 DEF ClockInv, Plus
<1>10. stopped' <= MaxPause
  <2>1. CASE Paused(at)
    <3>1. PauseFor(at) < MaxPause /\ stopped <= PauseFor(at)
      BY <1>1, <1>2, <1>4, <1>5, <1>6, <2>1 DEF IInv, LookedInv, ClockInv, PauseFor, Plus, Longer
    <3>2. PauseFor(at) \in Nat
      BY <1>4, <1>6 DEF PauseFor, Plus, Longer
    <3> QED  BY <1>2, <1>6, <1>7, <2>1, <3>1, <3>2 DEF Plus
  <2>2. CASE ~Paused(at)
    BY <1>7, <2>2 DEF IInv
  <2> QED  BY <2>1, <2>2
<1>11. ClockInv(at, pausing)'
  <2>1. (Paused(at)' <=> Paused(at')) /\ HeldFor(at)' = HeldFor(at')
    BY SameMatch DEF Paused, HeldFor, Plus, Shorter
  <2>2. pausing' = (IF Paused(at') THEN at'.pauseAge ELSE 0)
    BY <1>3, <1>5, <1>7 DEF ClockInv
  <2>3. due' /\ ResumeCountdown > 0 => calm' < ResumeCountdown
    BY <1>2, <1>5, <1>6, <1>7 DEF ClockInv
  <2>4. due' /\ calm' < ResumeCountdown =>
          IF Paused(at') THEN at'.owe \/ at'.pauseAge >= ResumeMinPause
                         ELSE at'.resuming /\ at'.resumeAge <= calm'
    <3>1. CASE Paused(at)
      BY <1>2, <1>3, <1>4, <1>5, <1>6, <1>7, <3>1 DEF ClockInv, Plus
    <3>2. CASE ~Paused(at)
      BY <1>2, <1>3, <1>4, <1>5, <1>6, <1>7, <3>2 DEF ClockInv, Shorter
    <3> QED  BY <3>1, <3>2
  <2>5. (Paused(at') => ~at'.resuming) /\ (~at'.resuming => at'.resumeAge = 0)
    BY <1>3, <1>5 DEF ClockInv
  <2> QED  BY <1>8, <1>9, <2>1, <2>2, <2>3, <2>4, <2>5, SameMatch DEF ClockInv, Plus
<1>12. SeatsInv(at)'
  <2> SUFFICES ASSUME NEW s \in Seats
               PROVE  SeatInv(at.seat[s], trying[s], s \in unseen)'
    BY SameMatch DEF SeatsInv
  <2> DEFINE x == at.seat[s]
             y == at'.seat[s]
  <2>1. x \in SeatRecord
    BY <1>1 DEF AttendanceRecord
  <2>2. /\ y.state = x.state /\ y.spent = x.spent /\ (y.excused <=> x.excused)
        /\ (y.flap <=> x.flap) /\ y.away = Grown(x.away, Away(x.state))
        /\ y.catching = Grown(x.catching, x.state = "CatchingUp")
    BY <1>1, <1>3, <2>1, OlderSeat
  <2>3. /\ SeatInv(x, trying[s], s \in unseen) /\ trying[s] \in Nat /\ trying[s] <= Forever
        /\ x.state = "CatchingUp" => CatchingFor(x) < MaxCatchUp
    BY <1>1, <1>2, <1>6 DEF IInv, SeatsInv, LookedInv, State
  <2>4. x.spent \in Nat /\ x.catching \in Nat /\ x.away \in Nat
    BY <1>6, <2>1 DEF SeatRecord
  <2>5. /\ trying'[s] = (IF x.state = "CatchingUp" THEN Plus(trying[s], 1) ELSE trying[s])
        /\ unseen' = unseen
    BY DEF Tick, State
  <2> HIDE DEF x, y
  <2>6. Away(y.state) => trying'[s] <= CatchingFor(y)
    <3>1. CASE x.state = "CatchingUp"
      BY <1>6, <2>2, <2>3, <2>4, <2>5, <3>1 DEF SeatInv, CatchingFor, Grown, Plus, Away
    <3>2. CASE x.state # "CatchingUp"
      BY <1>6, <2>2, <2>3, <2>4, <2>5, <3>2 DEF SeatInv, CatchingFor, Grown, Plus, Away
    <3> QED  BY <3>1, <3>2
  <2>7. trying'[s] <= MaxCatchUp
    <3>1. CASE x.state = "CatchingUp"
      <4>1. trying[s] <= CatchingFor(x) /\ CatchingFor(x) \in Nat
        BY <1>6, <2>3, <2>4, <3>1 DEF SeatInv, CatchingFor, Plus, Away
      <4> QED  BY <1>6, <2>3, <2>5, <3>1, <4>1 DEF Plus
    <3>2. CASE x.state # "CatchingUp"
      BY <2>3, <2>5, <3>2 DEF SeatInv
    <3> QED  BY <3>1, <3>2
  <2>8. s \in unseen' =>
          /\ y.state # "Present" /\ ~y.flap
          /\ Away(y.state) => /\ y.excused
                              /\ uptime' < RestartVoteAfter => y.away <= uptime'
    BY <1>2, <1>6, <1>7, <2>2, <2>3, <2>4, <2>5 DEF SeatInv, Grown, Plus, Shorter
  <2>9. y.state = "Present" => trying'[s] = 0
    BY <2>2, <2>3, <2>5 DEF SeatInv
  <2>10. CatchingFor(at.seat[s])' = CatchingFor(y)
    BY SameMatch DEF CatchingFor, Plus, y
  <2> QED  BY <2>6, <2>7, <2>8, <2>9, <2>10, SameMatch DEF SeatInv, y
<1>13. VotesInv(at)'
  <2>1. \A s \in Seats : at'.seat[s].state = at.seat[s].state
    BY <1>1, <1>3, OlderSeat DEF AttendanceRecord
  <2>2. VotesInv(at')
    BY <1>3, <2>1 DEF IInv, VotesInv
  <2> QED  BY <2>2, NextVotes
<1>14. TypeOK'
  <2>1. /\ held' \in 0 .. Forever /\ stopped' \in 0 .. Forever /\ pausing' \in 0 .. Forever
        /\ calm' \in 0 .. ResumeCountdown /\ uptime' \in 0 .. RestartVoteAfter
    BY <1>2, <1>6, <1>7 DEF Plus, Shorter
  <2>2. trying' \in [Seats -> 0 .. Forever]
    BY <1>2, <1>6 DEF Tick, Plus
  <2>3. /\ fresh' \subseteq Seats /\ unseen' \subseteq Seats
        /\ looked' \in BOOLEAN /\ due' \in BOOLEAN
    BY <1>1 DEF Tick
  <2> QED  BY <1>1, <1>3, <2>1, <2>2, <2>3, SameMatch DEF TypeOK
<1>15. LookedInv'
  BY DEF Tick, LookedInv
<1> QED  BY <1>10, <1>11, <1>12, <1>13, <1>14, <1>15, SameMatch DEF IInv
------------------------------------------------------------------------------
(* Theorems *)

\* A match that begins has nobody away.
LEMMA Initially == Init => IInv
<1> SUFFICES ASSUME Init PROVE IInv
  OBVIOUS
<1>1. match \in Settings
  BY DEF Init
<1>2. PICK state \in [Seats -> {"Present", "Absent", "Dropped"}] :
        /\ at = Fresh(state) /\ unseen \subseteq Seats
        /\ \A s \in unseen : state[s] = "Absent"
  <2>1. CASE SeatHumans
    <3>1. [s \in Seats |-> "Present"] \in [Seats -> {"Present", "Absent", "Dropped"}]
      OBVIOUS
    <3> QED  BY <2>1, <3>1 DEF SeatHumans
  <2>2. CASE SeatRestored
    <3>1. PICK dropped \in SUBSET Seats :
            /\ at = Fresh([s \in Seats |-> IF s \in dropped THEN "Dropped" ELSE "Absent"])
            /\ unseen = Seats \ dropped
      BY <2>2 DEF SeatRestored
    <3> DEFINE state == [s \in Seats |-> IF s \in dropped THEN "Dropped" ELSE "Absent"]
    <3>2. /\ state \in [Seats -> {"Present", "Absent", "Dropped"}]
          /\ \A s \in unseen : state[s] = "Absent"
      BY <3>1
    <3> HIDE DEF state
    <3> QED  BY <3>1, <3>2 DEF state
  <2> QED  BY <2>1, <2>2 DEF Init
<1>3. /\ looked = FALSE /\ fresh = {} /\ held = 0 /\ stopped = 0 /\ pausing = 0
      /\ calm = ResumeCountdown /\ due = FALSE /\ trying = [s \in Seats |-> 0] /\ uptime = 0
  BY DEF Init
<1>4. ASSUME NEW s \in Seats
      PROVE  LET seat == SeatIn(state[s])
             IN  /\ seat \in SeatRecord /\ seat.state = state[s] /\ ~seat.flap
                 /\ seat.away = 0 /\ seat.spent = 0 /\ seat.catching = 0
                 /\ (seat.excused <=> state[s] = "Absent")
  <2> DEFINE seat == SeatIn(state[s])
             excused == state[s] = "Absent"
  <2>1. <<>> \in {times \in Seq(Nat) : Len(times) <= FlapLosses}
    BY <1>1, Configuration
  <2>2. <<>> \in {times \in Seq(Nat) : Len(times) <= RejoinAttempts}
    BY <1>1, Configuration
  <2>3. /\ state[s] \in {"Present", "Absent", "CatchingUp", "Dropped"} /\ excused \in BOOLEAN
    BY <1>2
  <2>4. seat =
    [state |-> state[s], away |-> 0, awayBefore |-> 0, stalled |-> 0, catching |-> 0, spent |-> 0,
     percent |-> 0, excused |-> excused, flap |-> FALSE, losses |-> <<>>, attempts |-> <<>>]
    BY DEF SeatIn
  <2> HIDE DEF excused
  <2>5. seat \in SeatRecord
    BY <1>1, <2>1, <2>2, <2>3, <2>4, Zero DEF SeatRecord
  <2> HIDE DEF seat
  <2>6. /\ seat.state = state[s] /\ ~seat.flap /\ seat.away = 0 /\ seat.spent = 0
        /\ seat.catching = 0 /\ seat.excused = excused
    BY <2>4
  <2> QED  BY <2>5, <2>6 DEF excused, seat
<1>5. /\ at \in AttendanceRecord /\ \A s \in Seats : at.seat[s] = SeatIn(state[s])
      /\ \A s, v \in Seats : at.vote[s][v] = "none"
      /\ at.pauseBefore = 0 /\ at.pauseReal = 0 /\ at.pauseAge = 0 /\ ~at.resuming
      /\ at.resumeAge = 0 /\ at.resumeBefore = 0
  <2> DEFINE X == [s \in Seats |-> SeatIn(state[s])]
             Y == [s \in Seats |-> [v \in Seats |-> "none"]]
  <2>1. X \in [Seats -> SeatRecord] /\ \A s \in Seats : X[s] = SeatIn(state[s])
    BY <1>4
  <2>2. Y \in [Seats -> [Seats -> Choices]] /\ \A s, v \in Seats : Y[s][v] = "none"
    BY DEF Choices
  <2>3. at = [seat |-> X, vote |-> Y, pauseBefore |-> 0, pauseReal |-> 0, pauseAge |-> 0,
              owe |-> FALSE, resuming |-> FALSE, resumeAge |-> 0, resumeBefore |-> 0]
    BY <1>2 DEF Fresh
  <2> HIDE DEF X, Y
  <2> QED  BY <1>1, <2>1, <2>2, <2>3, Zero DEF AttendanceRecord
<1>6. SeatsInv(at)
  BY <1>1, <1>2, <1>3, <1>4, <1>5, Configuration DEF SeatsInv, SeatInv, CatchingFor, Plus, Away
<1>7. ClockInv(at, pausing)
  BY <1>1, <1>3, <1>5, Configuration DEF ClockInv, HeldFor, Plus
<1>8. TypeOK
  <2>1. /\ held \in 0 .. Forever /\ stopped \in 0 .. Forever /\ pausing \in 0 .. Forever
        /\ calm \in 0 .. ResumeCountdown /\ uptime \in 0 .. RestartVoteAfter
        /\ trying \in [Seats -> 0 .. Forever]
    BY <1>1, <1>3, Configuration
  <2> QED  BY <1>1, <1>2, <1>3, <1>5, <2>1 DEF TypeOK
<1>9. VotesInv(at) /\ LookedInv /\ stopped <= MaxPause
  BY <1>1, <1>3, <1>5, Configuration DEF VotesInv, LookedInv
<1> QED  BY <1>6, <1>7, <1>8, <1>9 DEF IInv

\* Nothing happens.
LEMMA Stuttering ==
  ASSUME IInv, UNCHANGED vars
  PROVE  IInv'
<1>1. /\ match' = match /\ at' = at /\ looked' = looked /\ fresh' = fresh /\ held' = held
      /\ stopped' = stopped /\ pausing' = pausing /\ calm' = calm /\ due' = due
      /\ trying' = trying /\ unseen' = unseen /\ uptime' = uptime
  BY DEF vars, history
<1>2. TypeOK'
  BY <1>1, SameMatch DEF IInv, TypeOK
<1>3. SeatsInv(at)'
  BY <1>1, NextSeats DEF IInv, SeatsInv
<1>4. VotesInv(at)' /\ ClockInv(at, pausing)'
  BY <1>1, NextVotes, NextClocks DEF IInv
<1>5. LookedInv'
  <2>1. (Paused(at)' <=> Paused(at)) /\ PauseFor(at)' = PauseFor(at)
    BY <1>1, SameMatch DEF Paused, PauseFor, Plus, Longer
  <2>2. \A s \in Seats : CatchingFor(at.seat[s])' = CatchingFor(at.seat[s])
    BY <1>1, SameMatch DEF CatchingFor, Plus
  <2> QED  BY <1>1, <2>1, <2>2, SameMatch DEF IInv, LookedInv, State
<1> QED  BY <1>1, <1>2, <1>3, <1>4, <1>5, SameMatch DEF IInv

\* Every call and every tick keeps the invariant.
LEMMA Inductive == IInv /\ [Next]_vars => IInv'
<1> SUFFICES ASSUME IInv, [Next]_vars PROVE IInv'
  OBVIOUS
<1>1. CASE Next
  <2>1. match' = match
    BY <1>1 DEF Next
  <2>2. ASSUME NEW s \in Seats, Lost(s) PROVE IInv'
    BY <2>1, <2>2, LostStep
  <2>3. ASSUME NEW s \in Seats, Returning(s) PROVE IInv'
    BY <2>1, <2>3, ReturningStep
  <2>4. ASSUME NEW s \in Seats, Progress(s) PROVE IInv'
    BY <2>1, <2>4, ProgressStep
  <2>5. ASSUME NEW s \in Seats, CaughtUp(s) PROVE IInv'
    BY <2>1, <2>5, CaughtUpStep
  <2>6. ASSUME NEW s \in Seats, CatchUpFailed(s) PROVE IInv'
    BY <2>1, <2>6, CatchUpFailedStep
  <2>7. ASSUME NEW s \in Seats, Dropped(s) PROVE IInv'
    BY <2>1, <2>7, DroppedStep
  <2>8. ASSUME NEW s \in Seats, NEW v \in Seats, Vote(v, s) PROVE IInv'
    BY <2>1, <2>8, VoteStep
  <2>9. CASE Update
    BY <2>1, <2>9, UpdateStep
  <2>10. CASE Tick
    BY <2>1, <2>10, TickStep
  <2> QED  BY <1>1, <2>2, <2>3, <2>4, <2>5, <2>6, <2>7, <2>8, <2>9, <2>10 DEF Next
<1>2. CASE UNCHANGED vars
  BY <1>2, Stuttering
<1> QED  BY <1>1, <1>2

\* The invariant holds in every match, for every configuration of Attendance.
THEOREM Invariance == Spec => []IInv
BY Initially, Inductive, PTL DEF Spec

\* The attendance is well typed: no sum of times leaves its range, and no list of losses or
\* attempts outgrows its limit, however often seats are lost and return.
THEOREM TypeCorrect == Spec => []TypeOK
<1>1. IInv => TypeOK
  BY DEF IInv
<1> QED  BY <1>1, Invariance, PTL

\* An absence spends no more than max_catch_up_ms on catching up, over all its attempts.
THEOREM CatchUpTimeBounded == Spec => []CatchUpBounded
<1>1. IInv => CatchUpBounded
  BY DEF IInv, SeatsInv, SeatInv, CatchUpBounded
<1> QED  BY <1>1, Invariance, PTL

\* All the pauses of a match together are no longer than max_pause_ms.
THEOREM PauseCapAbsolute == Spec => []PausesCapped
<1>1. IInv => PausesCapped
  BY DEF IInv, PausesCapped
<1> QED  BY <1>1, Invariance, PTL

\* held_ms measures exactly the time in which nothing could be sealed.
THEOREM HeldTimeExact == Spec => []HeldTimeIsReal
<1>1. IInv => HeldTimeIsReal
  BY DEF IInv, ClockInv, HeldTimeIsReal
<1> QED  BY <1>1, Invariance, PTL

\* After a long pause nothing is sealed before everybody was there for a whole countdown.
THEOREM CountdownComesFirst == Spec => []CountdownBeforePlay
<1>1. IInv => CountdownBeforePlay
  <2> SUFFICES ASSUME IInv, due, calm < ResumeCountdown PROVE Held(at)
    BY DEF CountdownBeforePlay
  <2>1. match \in Settings /\ at \in AttendanceRecord /\ calm \in 0 .. ResumeCountdown
    BY DEF IInv, TypeOK
  <2>2. at.resumeAge \in 0 .. ResumeCountdown
    BY <2>1 DEF AttendanceRecord
  <2>3. ~Paused(at) => at.resuming /\ at.resumeAge <= calm
    BY DEF IInv, ClockInv
  <2> QED  BY <2>1, <2>2, <2>3, Configuration DEF Held, CountingDown
<1> QED  BY <1>1, Invariance, PTL

\* After a restart nobody who has not come back yet is dropped by update() before
\* restart_vote_after_ms, as long as the cap on the pauses is not reached.
THEOREM RestartGraceKept == Spec => RestartGrace
<1>1. ASSUME IInv, Update, UNCHANGED match, NEW s \in unseen, State(s) # "Dropped",
             (at.seat[s])'.state = "Dropped"
      PROVE  uptime >= RestartVoteAfter \/ PauseFor(at) >= MaxPause
  <2> DEFINE b == LetGo(at)
             c == FlapsOver(b)
             d == VotedOut(c)
  <2>1. /\ match \in Settings /\ at \in AttendanceRecord /\ Known(at, pausing)
        /\ trying \in [Seats -> 0 .. Forever] /\ stopped \in 0 .. Forever
        /\ calm \in 0 .. ResumeCountdown /\ s \in Seats /\ uptime \in 0 .. RestartVoteAfter
    BY <1>1 DEF IInv, TypeOK, Known
  <2>2. /\ Quiet(at, b) /\ Quiet(b, c) /\ Quiet(c, d)
        /\ b.seat[s].state \in {at.seat[s].state, "Absent"}
        /\ c.seat[s].state = b.seat[s].state
        /\ \/ d.seat[s] = c.seat[s]
           \/ /\ d.seat[s].state = "Dropped"
              /\ \/ c.seat[s].state = "Absent" /\ VoteTimeReached(c, s)
                 \/ FlapActive(c.seat[s])
        /\ \/ at'.seat[s] = d.seat[s]
           \/ at'.seat[s].state = "Dropped" /\ PauseFor(d) >= MaxPause
    BY <1>1, <2>1, UpdateParts DEF Update
  <2> HIDE DEF b, c, d
  <2> DEFINE p == IF Paused(b) THEN pausing ELSE 0
             q == IF Paused(c) THEN p ELSE 0
  <2>3. Known(b, p)
    BY <2>1, <2>2, QuietKeeps
  <2>4. Known(c, q)
    <3> HIDE DEF p
    <3> QED  BY <2>1, <2>2, <2>3, QuietKeeps
  <2>5. c.seat[s] \in SeatRecord /\ SeatInv(c.seat[s], trying[s], TRUE)
    BY <1>1, <2>1, <2>4 DEF Known, SeatsInv, SeatInv, AttendanceRecord
  <2>6. Away(c.seat[s].state)
    BY <1>1, <2>1, <2>2, <2>5 DEF State, SeatInv, SeatRecord, Away
  <2>7. CASE d.seat[s] = c.seat[s]
    <3>1. PauseFor(d) >= MaxPause
      BY <1>1, <2>2, <2>6, <2>7 DEF Away
    <3>2. Paused(d)
      BY <2>1, <2>6, <2>7 DEF Paused
    <3>3. PauseFor(d) = PauseFor(at)
      BY <2>2, <3>2, QuietPause
    <3> QED  BY <3>1, <3>3
  <2>8. CASE VoteTimeReached(c, s) /\ c.seat[s].state = "Absent"
    <3>1. c.seat[s].away >= RestartVoteAfter
      BY <2>5, <2>6, <2>8 DEF SeatInv, VoteTimeReached
    <3>2. c.seat[s].away \in Nat
      <4>1. Forever \in Nat
        BY <2>1, Configuration, Zenon
      <4>2. c.seat[s].away \in 0 .. Forever
        BY <2>5 DEF SeatRecord
      <4> QED  BY <4>1, <4>2
    <3>3. uptime < RestartVoteAfter => c.seat[s].away <= uptime
      BY <2>5, <2>6, Zenon DEF SeatInv
    <3>4. RestartVoteAfter \in Nat /\ uptime \in Nat
      BY <2>1, Configuration
    <3> QED  BY <3>1, <3>2, <3>3, <3>4
  <2>9. CASE FlapActive(c.seat[s])
    BY <2>5, <2>9 DEF SeatInv, FlapActive
  <2> QED  BY <2>2, <2>7, <2>8, <2>9
<1>2. IInv /\ [Next]_vars =>
        [\A s \in unseen : Update /\ State(s) # "Dropped" /\ at.seat[s]'.state = "Dropped"
           => uptime >= RestartVoteAfter \/ PauseFor(at) >= MaxPause]_vars
  BY <1>1 DEF Next
<1> QED  BY <1>2, Invariance, PTL DEF Spec, RestartGrace
------------------------------------------------------------------------------
(* The votes are open *)

\* A seat that is put to the vote, or flaps and update() has not found yet that it stopped
Put(seat) ==
  \/ seat.flap
  \/ /\ seat.state = "Absent"
     /\ IF seat.excused THEN seat.away >= RestartVoteAfter
                        ELSE Plus(seat.awayBefore, seat.away) >= VoteAfter

\* An absence that is a restart's is none of a seat that flaps: flapping takes a lost link
VotesOpen(a) ==
  \A s \in Seats : /\ a.seat[s].excused => ~a.seat[s].flap
                   /\ Put(a.seat[s]) \/ \A v \in Seats : a.vote[s][v] = "none"
FlapsSeen(a) == \A s \in Seats : a.seat[s].flap => FlapActive(a.seat[s])

OpenInv == VotesOpen(at) /\ (looked => FlapsSeen(at))

\* The vote about a seat that is absent long enough, or flaps, is open.
LEMMA CandidateIsPut ==
  ASSUME NEW a, NEW s,
         \/ a.seat[s].state = "Absent" /\ VoteTimeReached(a, s)
         \/ FlapActive(a.seat[s])
  PROVE  Put(a.seat[s])
BY DEF Put, VoteTimeReached, AwayFor, Away, FlapActive

\* clear_votes after seats that changed: the vote about a seat that goes is closed, or it flaps.
LEMMA OpenAfterClearing ==
  ASSUME match \in Settings, NEW a \in AttendanceRecord, NEW X \in [Seats -> SeatRecord],
         NEW gone, NEW keepAbout, VotesOpen(a),
         \A s \in Seats : X[s].excused => ~X[s].flap,
         \A s \in Seats : s \in gone /\ keepAbout => X[s].flap,
         \A s \in Seats : s \notin gone => X[s] = a.seat[s]
  PROVE  VotesOpen(Settled(Paused(a), Cleared([a EXCEPT !.seat = X], gone, keepAbout)))
<1> DEFINE b == [a EXCEPT !.seat = X]
           Y == [s \in Seats |-> [v \in Seats |->
                   IF v \in gone \/ (s \in gone /\ ~keepAbout) THEN "none" ELSE a.vote[s][v]]]
           d == Cleared(b, gone, keepAbout)
           c == Settled(Paused(a), d)
<1>1. b \in AttendanceRecord /\ b.seat = X /\ b.vote = a.vote /\ SameClocks(a, b)
  BY DEF AttendanceRecord, SameClocks
<1>2. d = [b EXCEPT !.vote = Y]
  <2> HIDE DEF b
  <2>1. d = [b EXCEPT !.vote = [s \in Seats |-> [v \in Seats |->
                IF v \in gone \/ (s \in gone /\ ~keepAbout) THEN "none" ELSE b.vote[s][v]]]]
    BY Zenon DEF Cleared
  <2> QED  BY <1>1, <2>1, Zenon
<1> HIDE DEF b
<1>3. d \in AttendanceRecord /\ d.seat = X /\ SameClocks(b, d)
  <2> HIDE DEF Y
  <2> QED  BY <1>1, VotesCleared
<1>4. d.vote = Y
  <2> HIDE DEF Y, d
  <2> QED  BY <1>1, <1>2 DEF AttendanceRecord
<1>5. SameClocks(a, d)
  <2> HIDE DEF Y, d
  <2> QED  BY <1>1, <1>3 DEF SameClocks
<1> HIDE DEF d
<1>6. c.seat = X /\ c.vote = Y
  <2> HIDE DEF Y
  <2> QED  BY <1>3, <1>4, <1>5, PauseSettled
<1> HIDE DEF c
<1>7. ASSUME NEW s \in Seats
      PROVE  Put(X[s]) \/ \A v \in Seats : Y[s][v] = "none"
  <2>1. CASE s \notin gone
    <3>1. \A v \in Seats : a.vote[s][v] = "none" => Y[s][v] = "none"
      OBVIOUS
    <3> HIDE DEF Y
    <3> QED  BY <2>1, <3>1 DEF VotesOpen
  <2>2. CASE s \in gone /\ keepAbout
    BY <2>2 DEF Put
  <2>3. CASE s \in gone /\ ~keepAbout
    BY <2>3
  <2> QED  BY <2>1, <2>2, <2>3
<1> HIDE DEF Y
<1>8. VotesOpen(c)
  BY <1>6, <1>7 DEF VotesOpen
<1> QED  BY <1>8 DEF c, d, b

\* Seats that change in what is no concern of a vote, under the same votes.
LEMMA OpenAsBefore ==
  ASSUME NEW a, NEW c, VotesOpen(a), c.vote = a.vote,
         \A s \in Seats : /\ c.seat[s].excused => a.seat[s].excused
                          /\ c.seat[s].flap => a.seat[s].flap
                          /\ Put(a.seat[s]) => Put(c.seat[s])
  PROVE  VotesOpen(c)
BY DEF VotesOpen

\* A new absence is no restart's.
LEMMA GoneIsNotExcused ==
  ASSUME match \in Settings, NEW x \in SeatRecord
  PROVE  ~Gone(x).excused
<1> DEFINE w == [x EXCEPT !.away = 0, !.spent = 0, !.excused = FALSE]
<1>1. w \in SeatRecord /\ ~w.excused
  BY Zero DEF SeatRecord
<1> HIDE DEF w
<1>2. Gone(x) = WithLoss(w)
  BY DEF Gone, w
<1>3. WithLoss(w).excused = w.excused
  BY <1>1 DEF WithLoss, SeatRecord
<1> QED  BY <1>1, <1>2, <1>3

\* A lost link closes the vote about the seat, unless it flaps.
LEMMA LostOpen ==
  ASSUME match \in Settings, NEW a \in AttendanceRecord, NEW s \in Seats, VotesOpen(a)
  PROVE  VotesOpen(LostOf(a, s))
<1> DEFINE y == [Gone(a.seat[s]) EXCEPT !.state = "Absent"]
           X == [a.seat EXCEPT ![s] = y]
           b == [a EXCEPT !.seat = X]
<1>1. a.seat \in [Seats -> SeatRecord] /\ a.seat[s] \in SeatRecord
  BY DEF AttendanceRecord
<1>2. Gone(a.seat[s]) \in SeatRecord /\ ~Gone(a.seat[s]).excused
  BY <1>1, GoneSeat, GoneIsNotExcused
<1>3. y \in SeatRecord /\ ~y.excused
  BY <1>2 DEF SeatRecord
<1>4. LostOf(a, s) = Settled(Paused(a), Cleared(b, {s}, b.seat[s].flap))
  BY DEF LostOf
<1> HIDE DEF y
<1>5. X \in [Seats -> SeatRecord] /\ \A t \in Seats : X[t] = IF t = s THEN y ELSE a.seat[t]
  BY <1>1, <1>3
<1>6. b.seat = X
  BY DEF AttendanceRecord
<1> HIDE DEF X
<1>7. /\ \A t \in Seats : X[t].excused => ~X[t].flap
      /\ \A t \in Seats : t \in {s} /\ X[s].flap => X[t].flap
      /\ \A t \in Seats : t \notin {s} => X[t] = a.seat[t]
  BY <1>3, <1>5 DEF VotesOpen
<1>8. LostOf(a, s) = Settled(Paused(a), Cleared(b, {s}, X[s].flap))
  BY <1>4, <1>6
<1> QED  BY <1>5, <1>7, <1>8, OpenAfterClearing

\* A return closes the vote about the seat, unless it flaps.
LEMMA ReturningOpen ==
  ASSUME match \in Settings, NEW a \in AttendanceRecord, NEW s \in Seats,
         RejoinAllowed(a.seat[s]), VotesOpen(a)
  PROVE  VotesOpen(ReturningOf(a, s))
<1> DEFINE x == a.seat[s]
           seat == Attempted(x)
           y == CASE seat.state = "CatchingUp" -> seat
                  [] seat.state = "Present" -> Begun(Gone(seat))
                  [] OTHER -> Begun(seat)
           X == [a.seat EXCEPT ![s] = y]
           b == [a EXCEPT !.seat = X]
<1>1. a.seat \in [Seats -> SeatRecord] /\ x \in SeatRecord /\ (x.excused => ~x.flap)
  BY DEF AttendanceRecord, VotesOpen
<1>2. Len(x.attempts) < RejoinAttempts
  BY DEF RejoinAllowed
<1>3. /\ seat \in SeatRecord /\ (seat.excused <=> x.excused) /\ (seat.flap <=> x.flap)
  BY <1>1, <1>2, AttemptedSeat
<1>4. ReturningOf(a, s) = Settled(Paused(a), Cleared(b, {s}, FlapActive(b.seat[s])))
  BY Zenon DEF ReturningOf
<1> HIDE DEF seat, x
<1>5. y \in SeatRecord /\ (y.excused => ~y.flap)
  <2>1. CASE seat.state = "CatchingUp"
    BY <1>1, <1>3, <2>1
  <2>2. CASE seat.state = "Present"
    <3>1. Gone(seat) \in SeatRecord /\ ~Gone(seat).excused
      BY <1>3, GoneSeat, GoneIsNotExcused
    <3>2. Begun(Gone(seat)) \in SeatRecord /\ ~Begun(Gone(seat)).excused
      BY <3>1, BegunSeat
    <3> QED  BY <2>2, <3>2
  <2>3. CASE seat.state \notin {"CatchingUp", "Present"}
    <3>1. /\ Begun(seat) \in SeatRecord /\ (Begun(seat).excused <=> seat.excused)
          /\ (Begun(seat).flap <=> seat.flap)
      BY <1>3, BegunSeat
    <3>2. y = Begun(seat)
      BY <2>3
    <3> QED  BY <1>1, <1>3, <3>1, <3>2
  <2> QED  BY <2>1, <2>2, <2>3
<1> HIDE DEF y
<1>6. X \in [Seats -> SeatRecord] /\ \A t \in Seats : X[t] = IF t = s THEN y ELSE a.seat[t]
  BY <1>1, <1>5
<1>7. b.seat = X
  BY DEF AttendanceRecord
<1> HIDE DEF X
<1>8. /\ \A t \in Seats : X[t].excused => ~X[t].flap
      /\ \A t \in Seats : t \in {s} /\ FlapActive(X[s]) => X[t].flap
      /\ \A t \in Seats : t \notin {s} => X[t] = a.seat[t]
  BY <1>5, <1>6 DEF VotesOpen, FlapActive
<1>9. ReturningOf(a, s) = Settled(Paused(a), Cleared(b, {s}, FlapActive(X[s])))
  BY <1>4, <1>7
<1> QED  BY <1>6, <1>8, <1>9, OpenAfterClearing

\* Who has caught up is no longer voted about, unless his seat flaps.
LEMMA CaughtUpOpen ==
  ASSUME match \in Settings, NEW a \in AttendanceRecord, NEW s \in Seats, VotesOpen(a)
  PROVE  VotesOpen(CaughtUpOf(a, s))
<1> DEFINE x == a.seat[s]
           awayBefore == IF x.excused THEN x.awayBefore
                         ELSE Plus(x.awayBefore, Longer(x.away, MinAbsence))
           y == CaughtUpSeat(x)
           X == [a.seat EXCEPT ![s] = y]
           b == [a EXCEPT !.seat = X]
<1>1. a.seat \in [Seats -> SeatRecord] /\ x \in SeatRecord
  BY DEF AttendanceRecord
<1>2. y \in SeatRecord /\ ~y.excused
  <2>1. y = [x EXCEPT !.awayBefore = awayBefore, !.excused = FALSE, !.state = "Present",
                      !.away = 0, !.spent = 0, !.percent = 0, !.stalled = 0, !.catching = 0]
    BY DEF CaughtUpSeat
  <2> HIDE DEF awayBefore
  <2>2. ~y.excused
    BY <1>1, <2>1 DEF SeatRecord
  <2> QED  BY <1>1, <2>2, CatchesUpSeat
<1>3. CaughtUpOf(a, s) = Settled(Paused(a), Cleared(b, {s}, FlapActive(b.seat[s])))
  BY DEF CaughtUpOf
<1> HIDE DEF x, y
<1>4. X \in [Seats -> SeatRecord] /\ \A t \in Seats : X[t] = IF t = s THEN y ELSE a.seat[t]
  BY <1>1, <1>2
<1>5. b.seat = X
  BY DEF AttendanceRecord
<1> HIDE DEF X
<1>6. /\ \A t \in Seats : X[t].excused => ~X[t].flap
      /\ \A t \in Seats : t \in {s} /\ FlapActive(X[s]) => X[t].flap
      /\ \A t \in Seats : t \notin {s} => X[t] = a.seat[t]
  BY <1>2, <1>4 DEF VotesOpen, FlapActive
<1>7. CaughtUpOf(a, s) = Settled(Paused(a), Cleared(b, {s}, FlapActive(X[s])))
  BY <1>3, <1>5
<1> QED  BY <1>4, <1>6, <1>7, OpenAfterClearing

\* Seats that are dropped take the vote about them with them, and no seat begins to flap.
LEMMA DroppedOpen ==
  ASSUME match \in Settings, NEW a \in AttendanceRecord, NEW gone, VotesOpen(a)
  PROVE  /\ VotesOpen(DroppedOf(a, gone))
         /\ FlapsSeen(a) => FlapsSeen(DroppedOf(a, gone))
<1> DEFINE X == [s \in Seats |-> IF s \in gone THEN DroppedSeat(a.seat[s]) ELSE a.seat[s]]
           b == [a EXCEPT !.seat = X]
           keepAbout == FALSE
           c == Settled(Paused(a), Cleared(b, gone, keepAbout))
<1>1. \A s \in Seats : a.seat[s] \in SeatRecord
  BY DEF AttendanceRecord
<1>2. DroppedOf(a, gone) = c
  BY Zenon DEF DroppedOf
<1>3. /\ X \in [Seats -> SeatRecord]
      /\ \A s \in Seats : X[s] = IF s \in gone THEN DroppedSeat(a.seat[s]) ELSE a.seat[s]
  BY <1>1, DropsSeat
<1> HIDE DEF X
<1>4. \A s \in Seats : s \in gone => ~X[s].flap
  BY <1>1, <1>3, DropsSeat
<1>5. /\ \A s \in Seats : X[s].excused => ~X[s].flap
      /\ \A s \in Seats : s \in gone /\ keepAbout => X[s].flap
      /\ \A s \in Seats : s \notin gone => X[s] = a.seat[s]
  BY <1>3, <1>4 DEF VotesOpen
<1> HIDE DEF keepAbout
<1>6. VotesOpen(c)
  BY <1>3, <1>5, OpenAfterClearing
<1>7. \A s \in Seats : DroppedOf(a, gone).seat[s] = X[s]
  BY <1>3, DroppedHandled
<1>8. FlapsSeen(a) => FlapsSeen(DroppedOf(a, gone))
  BY <1>4, <1>5, <1>7 DEF FlapsSeen
<1> QED  BY <1>2, <1>6, <1>8

\* An attempt that fails leaves the vote about the seat as it is: it is one about a seat that
\* flaps, or none.
LEMMA FailedIsPut ==
  ASSUME match \in Settings, NEW x \in SeatRecord, x.state = "CatchingUp"
  PROVE  LET y == FailedCatchUp(x)
         IN  (y.excused => x.excused) /\ (y.flap => x.flap) /\ (Put(x) => Put(y))
<1> DEFINE spent == CatchingFor(x)
           y == FailedCatchUp(x)
<1>1. y = [x EXCEPT !.spent = spent, !.state = "Absent", !.percent = 0, !.stalled = 0,
                    !.catching = 0]
  BY DEF FailedCatchUp
<1> HIDE DEF spent, y
<1>2. (y.excused <=> x.excused) /\ (y.flap <=> x.flap)
  BY <1>1 DEF SeatRecord
<1> QED  BY <1>2 DEF Put, y

\* update(), first: a catch-up that is let go.
LEMMA LetGoOpen ==
  ASSUME match \in Settings, NEW a \in AttendanceRecord, VotesOpen(a)
  PROVE  VotesOpen(LetGo(a))
<1> DEFINE lets(seat) == /\ seat.state = "CatchingUp"
                         /\ CatchingFor(seat) >= MaxCatchUp \/ seat.stalled >= CatchUpStall
           X == [s \in Seats |-> IF lets(a.seat[s]) THEN FailedCatchUp(a.seat[s]) ELSE a.seat[s]]
           c == LetGo(a)
<1>1. \A s \in Seats : a.seat[s] \in SeatRecord
  BY DEF AttendanceRecord
<1>2. c = [a EXCEPT !.seat = X]
  BY Zenon DEF LetGo
<1>3. \A s \in Seats : /\ X[s].excused => a.seat[s].excused
                       /\ X[s].flap => a.seat[s].flap
                       /\ Put(a.seat[s]) => Put(X[s])
  BY <1>1, FailedIsPut
<1> HIDE DEF X, c
<1>4. c.seat = X /\ c.vote = a.vote
  BY <1>2 DEF AttendanceRecord
<1>5. VotesOpen(c)
  BY <1>3, <1>4, OpenAsBefore
<1> QED  BY <1>5 DEF c

\* Second: a seat that has stopped flapping is put to the vote for its absence, or the vote is
\* closed; the others that flap do.
LEMMA FlapsOverOpen ==
  ASSUME match \in Settings, NEW a \in AttendanceRecord, VotesOpen(a)
  PROVE  VotesOpen(FlapsOver(a)) /\ FlapsSeen(FlapsOver(a))
<1> DEFINE over == {s \in Seats : a.seat[s].flap /\ ~FlapActive(a.seat[s])}
           closed == {s \in over : ~(a.seat[s].state = "Absent" /\ AwayFor(a, s) >= VoteAfter)}
           X == [s \in Seats |-> IF s \in over THEN [a.seat[s] EXCEPT !.flap = FALSE] ELSE a.seat[s]]
           Y == [s \in Seats |-> IF s \in closed THEN [v \in Seats |-> "none"] ELSE a.vote[s]]
           c == FlapsOver(a)
<1>1. c = [a EXCEPT !.seat = X, !.vote = Y]
  BY Zenon DEF FlapsOver
<1>2. \A s \in Seats : a.seat[s] \in SeatRecord
  BY DEF AttendanceRecord
<1>3. ASSUME NEW s \in Seats
      PROVE  /\ X[s].excused => ~X[s].flap
             /\ Put(X[s]) \/ \A v \in Seats : Y[s][v] = "none"
             /\ X[s].flap => FlapActive(X[s])
  <2> DEFINE x == a.seat[s]
             y == [x EXCEPT !.flap = FALSE]
  <2>1. x \in SeatRecord /\ (x.excused => ~x.flap)
    BY <1>2 DEF VotesOpen
  <2>2. CASE s \notin over
    <3>1. X[s] = x /\ Y[s] = a.vote[s]
      BY <2>2
    <3>2. x.flap => FlapActive(x)
      BY <2>2
    <3> HIDE DEF X, Y, over, closed
    <3> QED  BY <2>1, <3>1, <3>2 DEF VotesOpen
  <2>3. CASE s \in over /\ s \in closed
    <3>1. X[s] = y /\ \A v \in Seats : Y[s][v] = "none"
      BY <2>3
    <3>2. ~y.flap
      BY <2>1 DEF SeatRecord
    <3> HIDE DEF X, Y, over, closed, x, y
    <3> QED  BY <3>1, <3>2
  <2>4. CASE s \in over /\ s \notin closed
    <3>1. X[s] = y
      BY <2>4
    <3>2. x.flap /\ x.state = "Absent" /\ Plus(x.awayBefore, x.away) >= VoteAfter
      BY <2>4 DEF AwayFor, Away
    <3>3. /\ ~y.flap /\ ~y.excused /\ y.state = "Absent" /\ y.awayBefore = x.awayBefore
          /\ y.away = x.away
      BY <2>1, <3>2 DEF SeatRecord
    <3> HIDE DEF X, Y, over, closed, x, y
    <3> QED  BY <3>1, <3>2, <3>3 DEF Put
  <2> QED  BY <2>2, <2>3, <2>4
<1> HIDE DEF X, Y, over, closed, c
<1>4. c.seat = X /\ c.vote = Y
  BY <1>1 DEF AttendanceRecord
<1>5. VotesOpen(c) /\ FlapsSeen(c)
  BY <1>3, <1>4 DEF VotesOpen, FlapsSeen
<1> QED  BY <1>5 DEF c

\* update(): its four parts keep the votes open, and it finds every seat that stopped flapping.
LEMMA UpdateOpen ==
  ASSUME match \in Settings, NEW a \in AttendanceRecord, VotesOpen(a)
  PROVE  VotesOpen(UpdateOf(a)) /\ FlapsSeen(UpdateOf(a))
<1> DEFINE b == LetGo(a)
           c == FlapsOver(b)
           d == VotedOut(c)
           e == CapKept(d)
<1>1. b \in AttendanceRecord /\ VotesOpen(b)
  BY LetGoHandled, LetGoOpen DEF Handled
<1> HIDE DEF b
<1>2. c \in AttendanceRecord /\ VotesOpen(c) /\ FlapsSeen(c)
  BY <1>1, FlapsOverHandled, FlapsOverOpen DEF Handled
<1> HIDE DEF c
<1>3. d \in AttendanceRecord
  BY <1>2, VotedOutHandled DEF Handled
<1>4. VotesOpen(d) /\ FlapsSeen(d)
  <2>1. \/ d = c
        \/ d = DroppedOf(c, {VoteSubject(c)})
    BY DEF VotedOut
  <2> HIDE DEF d
  <2> QED  BY <1>2, <2>1, DroppedOpen
<1> HIDE DEF d
<1>5. VotesOpen(e) /\ FlapsSeen(e)
  <2> DEFINE gone == {s \in Seats : Away(d.seat[s].state)}
  <2>1. e = d \/ e = DroppedOf(d, gone)
    BY DEF CapKept
  <2> HIDE DEF e, gone
  <2> QED  BY <1>3, <1>4, <2>1, DroppedOpen
<1>6. e = UpdateOf(a)
  BY DEF UpdateOf, b, c, d, e
<1> QED  BY <1>5, <1>6

\* An absence only grows with time.
LEMMA TickOpen ==
  ASSUME match \in Settings, NEW a \in AttendanceRecord, VotesOpen(a)
  PROVE  VotesOpen(TickOf(a))
<1> DEFINE c == TickOf(a)
<1>1. c.vote = a.vote /\ \A s \in Seats : c.seat[s] = Older(a.seat[s])
  BY OlderAttendance
<1> HIDE DEF c
<1>2. ASSUME NEW s \in Seats
      PROVE  /\ c.seat[s].excused => a.seat[s].excused
             /\ c.seat[s].flap => a.seat[s].flap
             /\ Put(a.seat[s]) => Put(c.seat[s])
  <2> DEFINE x == a.seat[s]
             y == c.seat[s]
  <2>1. x \in SeatRecord
    BY DEF AttendanceRecord
  <2>2. y = Older(x)
    BY <1>1
  <2> HIDE DEF x, y
  <2>3. /\ y.state = x.state /\ (y.excused <=> x.excused) /\ (y.flap <=> x.flap)
        /\ y.away = Grown(x.away, Away(x.state))
    BY <2>1, <2>2, OlderSeat
  <2>4. y.awayBefore = x.awayBefore
    <3> DEFINE away == Grown(x.away, Away(x.state))
               stalled == Grown(x.stalled, x.state = "CatchingUp")
               catching == Grown(x.catching, x.state = "CatchingUp")
               losses == RecentLosses(Aged(x.losses))
               attempts == RecentAttempts(Aged(x.attempts))
    <3>1. y = [x EXCEPT !.away = away, !.stalled = stalled, !.catching = catching,
                        !.losses = losses, !.attempts = attempts]
      BY <2>2, Zenon DEF Older
    <3> HIDE DEF away, stalled, catching, losses, attempts
    <3> QED  BY <2>1, <3>1 DEF SeatRecord
  <2>5. /\ x.away \in Nat /\ x.away <= Forever /\ x.awayBefore \in Nat
        /\ Forever \in Nat /\ VoteAfter \in Nat /\ RestartVoteAfter \in Nat
    BY <2>1, Configuration DEF SeatRecord
  <2>6. y.away \in Nat /\ y.away >= x.away
    BY <2>3, <2>5 DEF Grown, Plus
  <2>7. Put(x) => Put(y)
    BY <2>3, <2>4, <2>5, <2>6 DEF Put, Plus
  <2> QED  BY <2>3, <2>7 DEF x, y
<1>3. VotesOpen(c)
  BY <1>1, <1>2, OpenAsBefore
<1> QED  BY <1>3 DEF c

\* A choice is made in the vote that is open.
LEMMA VoteOpen ==
  ASSUME match \in Settings, at \in AttendanceRecord, VotesOpen(at),
         NEW v \in Seats, NEW s \in Seats, Vote(v, s)
  PROVE  VotesOpen(at')
<1>1. Put(at.seat[s])
  <2>1. VoteSubject(at) = s /\ s # NoSeat
    BY Configuration DEF Vote, NoSeat
  <2> QED  BY <2>1, SubjectIsCandidate, CandidateIsPut
<1>2. PICK choice \in Choices : at' = [at EXCEPT !.vote[s][v] = choice]
  BY DEF Vote, Becomes
<1> DEFINE Y == [at.vote EXCEPT ![s] = [at.vote[s] EXCEPT ![v] = choice]]
<1>3. at.vote \in [Seats -> [Seats -> Choices]]
  BY DEF AttendanceRecord
<1>4. at' = [at EXCEPT !.vote = Y]
  BY <1>2, <1>3
<1>5. \A t, u \in Seats : t # s => Y[t][u] = at.vote[t][u]
  BY <1>3
<1> HIDE DEF Y
<1>6. at'.seat = at.seat /\ at'.vote = Y
  BY <1>4 DEF AttendanceRecord
<1> QED  BY <1>1, <1>5, <1>6 DEF VotesOpen

\* An attempt that goes on, or fails.
LEMMA HeardOpen ==
  ASSUME match \in Settings, at \in AttendanceRecord, VotesOpen(at), NEW s \in Seats,
         Progress(s) \/ CatchUpFailed(s)
  PROVE  VotesOpen(at')
<1> DEFINE x == at.seat[s]
<1>1. x \in SeatRecord
  BY DEF AttendanceRecord
<1>2. CASE Progress(s)
  <2>1. PICK percent \in at.seat[s].percent + 1 .. MaxPercent :
               at' = [at EXCEPT !.seat[s].percent = percent, !.seat[s].stalled = 0]
    BY <1>2 DEF Progress, Heard, Becomes
  <2> DEFINE y == [x EXCEPT !.percent = percent, !.stalled = 0]
  <2>2. /\ at'.vote = at.vote
        /\ \A t \in Seats : at'.seat[t] = IF t = s THEN y ELSE at.seat[t]
    BY <2>1 DEF AttendanceRecord
  <2> HIDE DEF x
  <2>3. /\ y.state = x.state /\ y.away = x.away /\ y.awayBefore = x.awayBefore
        /\ (y.excused <=> x.excused) /\ (y.flap <=> x.flap)
    BY <1>1 DEF SeatRecord
  <2> HIDE DEF y
  <2>4. Put(x) => Put(y)
    BY <2>3 DEF Put
  <2> QED  BY <2>2, <2>3, <2>4, OpenAsBefore DEF x
<1>3. CASE CatchUpFailed(s)
  <2> DEFINE y == FailedCatchUp(x)
  <2>1. at' = [at EXCEPT !.seat[s] = y] /\ x.state = "CatchingUp"
    BY <1>3 DEF CatchUpFailed, Heard, Becomes, State
  <2>2. (y.excused => x.excused) /\ (y.flap => x.flap) /\ (Put(x) => Put(y))
    BY <1>1, <2>1, FailedIsPut
  <2> HIDE DEF y
  <2>3. /\ at'.vote = at.vote
        /\ \A t \in Seats : at'.seat[t] = IF t = s THEN y ELSE at.seat[t]
    BY <2>1 DEF AttendanceRecord
  <2> QED  BY <2>2, <2>3, OpenAsBefore
<1> QED  BY <1>2, <1>3

\* What is said of the next attendance is so in the next state.
LEMMA NextOpen ==
  ASSUME match' = match, VotesOpen(at'), looked' => FlapsSeen(at')
  PROVE  OpenInv'
<1>1. /\ VoteAfter' = VoteAfter /\ RestartVoteAfter' = RestartVoteAfter
      /\ Forever' = Forever /\ FlapWindow' = FlapWindow /\ Seats' = Seats
  BY DEF VoteAfter, RestartVoteAfter, Forever, FlapWindow, Seats
<1>2. VotesOpen(at)'
  BY <1>1 DEF VotesOpen, Put, Plus
<1>3. looked' => FlapsSeen(at)'
  BY <1>1 DEF FlapsSeen, FlapActive
<1> QED  BY <1>2, <1>3 DEF OpenInv

\* A match begins without a vote, and with nobody who has been lost.
LEMMA OpenInitially == Init => OpenInv
<1> SUFFICES ASSUME Init PROVE OpenInv
  OBVIOUS
<1>1. PICK state : at = Fresh(state)
  BY DEF Init, SeatHumans, SeatRestored
<1>2. \A s \in Seats : ~at.seat[s].flap /\ \A v \in Seats : at.vote[s][v] = "none"
  BY <1>1 DEF Fresh, SeatIn
<1> QED  BY <1>2 DEF OpenInv, VotesOpen, Init

\* Every step keeps the votes open.
LEMMA OpenInductive == IInv /\ OpenInv /\ [Next]_vars => OpenInv'
<1> SUFFICES ASSUME IInv, OpenInv, [Next]_vars PROVE OpenInv'
  OBVIOUS
<1>1. match \in Settings /\ at \in AttendanceRecord /\ VotesOpen(at)
  BY DEF IInv, TypeOK, OpenInv
<1>2. CASE Next
  <2>1. match' = match
    BY <1>2 DEF Next
  <2>2. ASSUME NEW s \in Seats, Lost(s) PROVE OpenInv'
    BY <1>1, <2>1, <2>2, LostOpen, NextOpen DEF Lost, Becomes
  <2>3. ASSUME NEW s \in Seats, Returning(s) PROVE OpenInv'
    BY <1>1, <2>1, <2>3, ReturningOpen, NextOpen DEF Returning
  <2>4. ASSUME NEW s \in Seats, Progress(s) \/ CatchUpFailed(s) PROVE OpenInv'
    <3>1. ~looked'
      BY <2>4 DEF Progress, CatchUpFailed, Heard, Becomes
    <3> QED  BY <1>1, <2>1, <2>4, <3>1, HeardOpen, NextOpen
  <2>5. ASSUME NEW s \in Seats, CaughtUp(s) PROVE OpenInv'
    BY <1>1, <2>1, <2>5, CaughtUpOpen, NextOpen DEF CaughtUp, Heard, Becomes
  <2>6. ASSUME NEW s \in Seats, Dropped(s) PROVE OpenInv'
    BY <1>1, <2>1, <2>6, DroppedOpen, NextOpen DEF Dropped, Becomes
  <2>7. ASSUME NEW s \in Seats, NEW v \in Seats, Vote(v, s) PROVE OpenInv'
    <3>1. ~looked'
      BY <2>7 DEF Vote, Becomes
    <3> QED  BY <1>1, <2>1, <2>7, <3>1, VoteOpen, NextOpen
  <2>8. CASE Update
    BY <1>1, <2>1, <2>8, UpdateOpen, NextOpen DEF Update
  <2>9. CASE Tick
    BY <1>1, <2>1, <2>9, TickOpen, NextOpen DEF Tick
  <2> QED  BY <1>2, <2>2, <2>3, <2>4, <2>5, <2>6, <2>7, <2>8, <2>9 DEF Next
<1>3. CASE UNCHANGED vars
  <2>1. match' = match /\ at' = at /\ looked' = looked
    BY <1>3 DEF vars
  <2> QED  BY <1>1, <2>1, NextOpen DEF OpenInv
<1> QED  BY <1>2, <1>3

\* Every choice that is counted in a vote is one of a player who is connected and is not its
\* subject, and was made in this vote: none is left of an earlier one about the same seat
\* (attendance.cpp, votes_for_continue and update).
THEOREM CountedVotersArePresent == Spec => []VotersPresent
<1>1. IInv /\ OpenInv => VotersPresent
  <2> SUFFICES ASSUME IInv, OpenInv, NEW s \in Seats, NEW v \in Seats, at.vote[s][v] # "none"
               PROVE  /\ State(v) = "Present" /\ v # s
                      /\ \/ State(s) = "Absent" /\ VoteTimeReached(at, s)
                         \/ at.seat[s].flap /\ (looked => FlapActive(at.seat[s]))
    BY DEF VotersPresent
  <2>1. State(v) = "Present" /\ v # s
    BY DEF IInv, VotesInv, State
  <2>2. Put(at.seat[s]) /\ (looked /\ at.seat[s].flap => FlapActive(at.seat[s]))
    BY DEF OpenInv, VotesOpen, FlapsSeen
  <2>3. \/ State(s) = "Absent" /\ VoteTimeReached(at, s)
        \/ at.seat[s].flap
    BY <2>2 DEF Put, VoteTimeReached, AwayFor, Away, State
  <2> QED  BY <2>1, <2>2, <2>3
<1>2. Spec => [](IInv /\ OpenInv)
  BY Initially, OpenInitially, Inductive, OpenInductive, PTL DEF Spec
<1> QED  BY <1>1, <1>2, PTL
=============================================================================
