------------------------------ MODULE Sequencer ------------------------------
(***************************************************************************)
(* The turn sequencer of a host (class ants::net::Sequencer): which        *)
(* command goes into which turn, who holds the sealing up, and which state *)
(* hash reports differ.  The class has no clock and no sockets, so this    *)
(* module has no variables either: an object of the class is a record and  *)
(* each method an operator from the record before to the record after.     *)
(* SequencerMachine makes a state machine of one object, Match gives it a  *)
(* host, links and guests.                                                 *)
(*                                                                         *)
(* The queue of the code is one vector that seal() puts into canonical     *)
(* order: by issuer, each issuer's commands in the order they came.  Such  *)
(* a list is determined by the commands of each issuer, so the queue and a *)
(* turn are functions from seats to sequences.                             *)
(***************************************************************************)
EXTENDS Naturals, Sequences, FiniteSets

CONSTANTS Seats,          \* the seats of the match, numbers
          HostSeat,       \* the host's own seat; not in Seats: a dedicated server
          Command,        \* what a client may order
          Drop,           \* the sequencer's own command: the seat is out
          MaxLag,         \* Config::max_lag_turns
          MaxPerTurn,     \* Config::max_commands_per_turn
          MaxCarried,     \* Config::max_carried_commands
          RefereeWindow   \* kRefereeWindowTurns

ASSUME SequencerAssumption ==
  /\ IsFiniteSet(Seats) /\ Seats \subseteq Nat
  /\ HostSeat \in Nat
  /\ Drop \notin Command
  /\ MaxLag \in Nat /\ MaxCarried \in Nat /\ RefereeWindow \in Nat
  /\ MaxPerTurn \in Nat \ {0}

Seatless == HostSeat \notin Seats

Turns == [Seats -> Seq(Command \cup {Drop})]
NoCommands == [p \in Seats |-> <<>>]

NewSequencer ==
  [active |-> [p \in Seats |-> FALSE], acked |-> [p \in Seats |-> 0],
   queue |-> NoCommands, queuedBy |-> [p \in Seats |-> 0],
   carry |-> NoCommands, nextTurn |-> 0,
   reports |-> <<>>, referee |-> <<>>]

\* reports is a partial function from <<turn, seat>>, referee one from turns
Fields == {"active", "acked", "queue", "queuedBy", "carry", "nextTurn", "reports", "referee"}

SequencerType(s) ==
  /\ DOMAIN s = Fields
  /\ s.active \in [Seats -> BOOLEAN]
  /\ s.acked \in [Seats -> Nat]
  /\ s.queue \in Turns
  /\ s.queuedBy \in [Seats -> Nat]
  /\ s.carry \in [Seats -> Seq(Command)]
  /\ s.nextTurn \in Nat
  /\ DOMAIN s.reports \subseteq Nat \X Seats
  /\ DOMAIN s.referee \subseteq Nat
------------------------------------------------------------------------------
Lesser(m, n) == IF m < n THEN m ELSE n

Activated(s, p) == [s EXCEPT !.active[p] = TRUE, !.acked[p] = s.nextTurn]

\* A player that is gone has nothing waiting for a later turn; what it has in the
\* turn that is being filled stays there.
Deactivated(s, p) == [s EXCEPT !.active[p] = FALSE, !.carry[p] = <<>>]

HasRoom(s, p) == s.queuedBy[p] < MaxPerTurn
Accepts(s, p) == s.active[p] /\ (HasRoom(s, p) \/ Len(s.carry[p]) < MaxCarried)

\* submit() of a command that Accepts lets in
Submitted(s, p, c) ==
  IF HasRoom(s, p)
  THEN [s EXCEPT !.queue[p] = Append(@, c), !.queuedBy[p] = @ + 1]
  ELSE [s EXCEPT !.carry[p] = Append(@, c)]

SystemDrop(s, p) == [s EXCEPT !.queue[p] = Append(@, Drop)]

Resumed(s, turn) == [NewSequencer EXCEPT !.nextTurn = turn]

AckedSet(s, p, n) == [s EXCEPT !.acked[p] = Lesser(n, s.nextTurn)]
------------------------------------------------------------------------------
(* Acknowledgements and flow control *)

\* What every active seat, and the sealing, has passed
Low(s) == CHOOSE n \in {s.nextTurn} \cup {s.acked[p] : p \in {q \in Seats : s.active[q]}} :
            /\ n <= s.nextTurn
            /\ \A p \in Seats : s.active[p] => n <= s.acked[p]

Kept(f, keys) == [k \in DOMAIN f \cap keys |-> f[k]]

\* Mutant: a report goes when its turn, and not yet the next one, is acknowledged
OnAckForgetsEarly(s, p, turn) ==
  LET needed == Lesser(turn + 1, s.nextTurn)
      a == IF needed > s.acked[p] THEN [s EXCEPT !.acked[p] = needed] ELSE s
  IN [a EXCEPT !.reports = Kept(@, {k \in DOMAIN @ : k[1] >= Low(a)}),
               !.referee = Kept(@, {k \in DOMAIN @ : k >= Low(a)})]

OnAck(s, p, turn) ==
  LET needed == Lesser(turn + 1, s.nextTurn)
      a == IF needed > s.acked[p] THEN [s EXCEPT !.acked[p] = needed] ELSE s
      low == Low(a)
  IN [a EXCEPT !.reports = Kept(@, {k \in DOMAIN @ : k[1] + 1 >= low}),
               !.referee = Kept(@, {k \in DOMAIN @ : k + 1 >= low})]

Behind(s, p) == IF s.active[p] THEN s.nextTurn - Lesser(s.acked[p], s.nextTurn) ELSE 0

TooFarBehind(s) == {p \in Seats : Behind(s, p) > MaxLag}

\* Mutant: one turn too many
CanSealOneMore(s) == \A p \in Seats : Behind(s, p) <= MaxLag + 1

CanSeal(s) == TooFarBehind(s) = {}

\* The one that is furthest behind, of a tie the lowest seat
Laggard(s) == CHOOSE p \in TooFarBehind(s) : \A q \in TooFarBehind(s) :
                \/ Behind(s, p) > Behind(s, q)
                \/ Behind(s, p) = Behind(s, q) /\ p <= q
------------------------------------------------------------------------------
(* seal() *)

Share(s, p) == Lesser(Len(s.carry[p]), MaxPerTurn)

SealedTurn(s) == s.queue

\* Mutants: the next turn starts empty-handed, what waited being forgotten; ... does not
\* count what it took
SealedForgets(s) ==
  [s EXCEPT !.nextTurn = @ + 1, !.queue = NoCommands, !.carry = NoCommands,
            !.queuedBy = [p \in Seats |-> 0]]
SealedCountsNothing(s) ==
  [s EXCEPT !.nextTurn = @ + 1,
            !.queue = [p \in Seats |-> SubSeq(s.carry[p], 1, Share(s, p))],
            !.queuedBy = [p \in Seats |-> 0],
            !.carry = [p \in Seats |-> SubSeq(s.carry[p], Share(s, p) + 1, Len(s.carry[p]))]]

\* What waited goes first into the next turn, as much as a turn takes of each player
Sealed(s) ==
  [s EXCEPT !.nextTurn = @ + 1,
            !.queue = [p \in Seats |-> SubSeq(s.carry[p], 1, Share(s, p))],
            !.queuedBy = [p \in Seats |-> Share(s, p)],
            !.carry = [p \in Seats |-> SubSeq(s.carry[p], Share(s, p) + 1, Len(s.carry[p]))]]
------------------------------------------------------------------------------
(* State hashes *)

With(f, k, v) == [x \in DOMAIN f \cup {k} |-> IF x = k THEN v ELSE f[x]]

TakesReport(s, p, turn) == s.active[p] /\ turn < s.nextTurn

OnHash(s, p, turn, hash) ==
  IF TakesReport(s, p, turn) THEN [s EXCEPT !.reports = With(@, <<turn, p>>, hash)] ELSE s

Reported(s, turn) == {p \in Seats : <<turn, p>> \in DOMAIN s.reports}

\* The seats named by the desyncs that on_hash returns; s is the record after OnHash
HashDesyncs(s, p, turn) ==
  IF ~TakesReport(s, p, turn) THEN {}
  ELSE IF Seatless
       THEN {q \in {p} : turn \in DOMAIN s.referee /\ s.reports[<<turn, q>>] # s.referee[turn]}
       ELSE {q \in Reported(s, turn) \ {HostSeat} :
               /\ HostSeat \in Reported(s, turn)
               /\ s.reports[<<turn, q>>] # s.reports[<<turn, HostSeat>>]}

TakesReferee(s, turn) == Seatless /\ turn < s.nextTurn /\ turn + RefereeWindow >= s.nextTurn

OnRefereeHash(s, turn, hash) ==
  IF TakesReferee(s, turn) THEN [s EXCEPT !.referee = With(@, turn, hash)] ELSE s

\* Mutant: a seat that has not reported yet is taken to differ
RefereeDesyncsOfTheSilent(s, turn) ==
  IF TakesReferee(s, turn)
  THEN {q \in Seats : q \in Reported(s, turn) => s.reports[<<turn, q>>] # s.referee[turn]} ELSE {}

\* ... and those of on_referee_hash, s the record after OnRefereeHash
RefereeDesyncs(s, turn) ==
  IF TakesReferee(s, turn)
  THEN {q \in Reported(s, turn) : s.reports[<<turn, q>>] # s.referee[turn]} ELSE {}
=============================================================================
