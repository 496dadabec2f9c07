-------------------------- MODULE MCSequencerMachine --------------------------
(* A small sequencer: two seats, turns of one command of a seat, two
   more that may wait.  The commands are interchangeable. *)
EXTENDS SequencerMachine, FiniteSetsExt, TLC

CONSTANTS MaxTurns, MaxTaken

\* Bounds: turns sealed, commands and Drops taken of all seats together
Bounded ==
  /\ sq.nextTurn <= MaxTurns
  /\ MapThenSumSet(LAMBDA p : Len(taken[p]), Seats) <= MaxTaken

Interchangeable == Permutations(Command)
=============================================================================
