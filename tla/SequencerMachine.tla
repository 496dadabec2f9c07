--------------------------- MODULE SequencerMachine ---------------------------
(***************************************************************************)
(* One sequencer, driven through the calls that decide what a turn holds:  *)
(* seats come and go, commands are handed in, turns are sealed, and a      *)
(* machine that takes the host's place starts over (resume).               *)
(* Acknowledgements and hash reports, which touch none of this state, are  *)
(* in Match.                                                               *)
(***************************************************************************)
EXTENDS Sequencer

VARIABLES sq,     \* the sequencer
          taken,  \* history: per seat, what was taken in and has not been thrown away
          out     \* history: per seat, what the sealed turns held of it

vars == <<sq, taken, out>>

TypeOK ==
  /\ SequencerType(sq)
  /\ taken \in Turns
  /\ out \in Turns

Init ==
  /\ sq = NewSequencer
  /\ taken = NoCommands
  /\ out = NoCommands

Join(p) ==
  /\ ~sq.active[p]
  /\ sq' = Activated(sq, p)
  /\ UNCHANGED <<taken, out>>

\* A seat that goes takes the commands with it that wait for a later turn
Leave(p) ==
  /\ sq.active[p]
  /\ sq' = Deactivated(sq, p)
  /\ taken' = [taken EXCEPT ![p] = out[p] \o sq.queue[p]]
  /\ UNCHANGED out

Submit(p, c) ==
  /\ Accepts(sq, p)
  /\ sq' = Submitted(sq, p, c)
  /\ taken' = [taken EXCEPT ![p] = Append(@, c)]
  /\ UNCHANGED out

\* A Drop is submitted for a seat that was made inactive first
SubmitDrop(p) ==
  /\ ~sq.active[p]
  /\ sq' = SystemDrop(sq, p)
  /\ taken' = [taken EXCEPT ![p] = Append(@, Drop)]
  /\ UNCHANGED out

Seal ==
  /\ sq' = Sealed(sq)
  /\ out' = [p \in Seats |-> out[p] \o SealedTurn(sq)[p]]
  /\ UNCHANGED taken

\* A new host: nothing of the old host's unsealed commands survives
Resume(turn) ==
  /\ sq' = Resumed(sq, turn)
  /\ taken' = NoCommands
  /\ out' = NoCommands

Next ==
  \/ \E p \in Seats : Join(p) \/ Leave(p) \/ SubmitDrop(p)
  \/ \E p \in Seats, c \in Command : Submit(p, c)
  \/ Seal
  \/ \E turn \in 0 .. sq.nextTurn : Resume(turn)

Spec == Init /\ [][Next]_vars
------------------------------------------------------------------------------
\* What was sent first is run first (the comment in submit()): a player that has
\* commands waiting has a full turn, so a new one never finds room in front of them.
FullTurnFirst ==
  \A p \in Seats : sq.carry[p] # <<>> => sq.queuedBy[p] = MaxPerTurn

\* Nothing that submit() took is lost, doubled or put out of order by the carrying
\* from turn to turn: the sealed turns, the turn being filled and the waiting
\* commands are, in that order, what was taken in.
NothingLost ==
  \A p \in Seats : taken[p] = out[p] \o sq.queue[p] \o sq.carry[p]
=============================================================================
