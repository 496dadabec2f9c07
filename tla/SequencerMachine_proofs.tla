------------------------ MODULE SequencerMachine_proofs ------------------------
(***************************************************************************)
(* What the sequencer does with the commands it takes, for every number of *)
(* seats and every limit.  NothingLost is not inductive alone: a command   *)
(* goes to the end of the queue or to the end of what waits, and only      *)
(* because a seat that has something waiting has a full turn (FullTurnFirst*)
(* with the bound on queuedBy) is it the end of both.                      *)
(***************************************************************************)
EXTENDS SequencerMachine, SequenceTheorems, TLAPS

QueuedByBound == \A p \in Seats : sq.queuedBy[p] <= MaxPerTurn

\* A seat that is out has nothing waiting: its Drop is the last of it.
GoneWaitsForNothing == \A p \in Seats : ~sq.active[p] => sq.carry[p] = <<>>

IInv == TypeOK /\ QueuedByBound /\ FullTurnFirst /\ GoneWaitsForNothing /\ NothingLost

\* What a turn takes of the waiting commands and what it leaves are the waiting commands.
LEMMA Split ==
  ASSUME NEW S, NEW s \in Seq(S), NEW k \in 0 .. Len(s)
  PROVE  /\ SubSeq(s, 1, k) \in Seq(S)
         /\ SubSeq(s, k + 1, Len(s)) \in Seq(S)
         /\ Len(SubSeq(s, 1, k)) = k
         /\ Len(SubSeq(s, k + 1, Len(s))) = Len(s) - k
         /\ SubSeq(s, 1, k) \o SubSeq(s, k + 1, Len(s)) = s
<1>0. Len(s) \in Nat /\ \A i \in 1 .. Len(s) : s[i] \in S
  BY LenProperties, ElementOfSeq
<1>1. ASSUME NEW m \in 1 .. Len(s) + 1, NEW n \in 0 .. Len(s)
      PROVE  /\ SubSeq(s, m, n) \in Seq(S)
             /\ Len(SubSeq(s, m, n)) = IF m <= n THEN n - m + 1 ELSE 0
  <2>1. m \in Int /\ n \in Int /\ \A i \in m .. n : s[i] \in S
    BY <1>0
  <2> QED  BY <2>1, SubSeqProperties
<1>2. SubSeq(s, 1, k) \o SubSeq(s, k + 1, Len(s)) = SubSeq(s, 1, Len(s))
  <2>1. 1 \in 1 .. Len(s) + 1 /\ k \in 1 - 1 .. Len(s) /\ Len(s) \in k .. Len(s)
    BY <1>0
  <2> QED  BY <2>1, ConcatAdjacentSubSeq
<1>3. SubSeq(s, 1, Len(s)) = s
  BY SubSeqFull
<1>4. /\ SubSeq(s, 1, k) \in Seq(S)
      /\ Len(SubSeq(s, 1, k)) = k
  <2>1. 1 \in 1 .. Len(s) + 1 /\ k \in 0 .. Len(s)
    BY <1>0
  <2>2. /\ SubSeq(s, 1, k) \in Seq(S)
        /\ Len(SubSeq(s, 1, k)) = IF 1 <= k THEN k - 1 + 1 ELSE 0
    BY <1>1, <2>1
  <2> QED  BY <1>0, <2>2
<1>5. /\ SubSeq(s, k + 1, Len(s)) \in Seq(S)
      /\ Len(SubSeq(s, k + 1, Len(s))) = Len(s) - k
  <2>1. k + 1 \in 1 .. Len(s) + 1 /\ Len(s) \in 0 .. Len(s)
    BY <1>0
  <2>2. /\ SubSeq(s, k + 1, Len(s)) \in Seq(S)
        /\ Len(SubSeq(s, k + 1, Len(s))) = IF k + 1 <= Len(s) THEN Len(s) - (k + 1) + 1 ELSE 0
    BY <1>1, <2>1
  <2> QED  BY <1>0, <2>2
<1> QED  BY <1>2, <1>3, <1>4, <1>5

\* What a turn takes of the waiting commands of a seat, as seal() does: at most a turn's
\* worth, at most what waits, and all of it unless the turn is full.
LEMMA ShareBounds ==
  ASSUME SequencerType(sq), NEW p \in Seats
  PROVE  /\ Share(sq, p) \in 0 .. Len(sq.carry[p])
         /\ Share(sq, p) <= MaxPerTurn
         /\ Share(sq, p) < Len(sq.carry[p]) => Share(sq, p) = MaxPerTurn
<1>1. sq.carry[p] \in Seq(Command)
  BY DEF SequencerType
<1>2. Len(sq.carry[p]) \in Nat
  BY <1>1, LenProperties
<1> QED  BY <1>2, SequencerAssumption DEF Share, Lesser

\* The type of a sequencer and the order of its commands are invariant.
LEMMA InitIInv == Init => IInv
<1> SUFFICES ASSUME Init PROVE IInv
  OBVIOUS
<1> USE SequencerAssumption
<1>1. \A S : <<>> \in Seq(S)
  OBVIOUS
<1>2. NoCommands \in Turns /\ NoCommands \in [Seats -> Seq(Command)]
  BY <1>1 DEF NoCommands, Turns
<1>3. TypeOK
  BY <1>2 DEF Init, TypeOK, SequencerType, Fields, NewSequencer
<1>4. QueuedByBound /\ FullTurnFirst /\ GoneWaitsForNothing
  BY DEF Init, QueuedByBound, FullTurnFirst, GoneWaitsForNothing, NewSequencer, NoCommands
<1>5. NothingLost
  BY DEF Init, NothingLost, NewSequencer, NoCommands
<1> QED  BY <1>3, <1>4, <1>5 DEF IInv

\* set_active(p, true) of a seat that is out keeps the invariant: nothing of it waits.
LEMMA JoinIInv == ASSUME IInv, NEW p \in Seats, Join(p) PROVE IInv'
<1> USE DEF IInv, Join, Activated
<1>1. TypeOK'
  BY DEF TypeOK, SequencerType, Fields
<1>2. QueuedByBound' /\ FullTurnFirst' /\ GoneWaitsForNothing' /\ NothingLost'
  BY DEF TypeOK, SequencerType, Fields, QueuedByBound, FullTurnFirst, GoneWaitsForNothing, NothingLost
<1> QED  BY <1>1, <1>2

\* The types of the sequences that NothingLost puts together
LEMMA CommandSequences ==
  ASSUME TypeOK, NEW p \in Seats
  PROVE  /\ taken[p] \in Seq(Command \cup {Drop})
         /\ out[p] \in Seq(Command \cup {Drop})
         /\ sq.queue[p] \in Seq(Command \cup {Drop})
         /\ sq.carry[p] \in Seq(Command)
         /\ sq.carry[p] \in Seq(Command \cup {Drop})
         /\ out[p] \o sq.queue[p] \in Seq(Command \cup {Drop})
<1>1. /\ taken[p] \in Seq(Command \cup {Drop})
      /\ out[p] \in Seq(Command \cup {Drop})
      /\ sq.queue[p] \in Seq(Command \cup {Drop})
      /\ sq.carry[p] \in Seq(Command)
  BY DEF TypeOK, SequencerType, Turns
<1>2. sq.carry[p] \in Seq(Command \cup {Drop})
  BY <1>1, SeqMonotonic
<1>3. out[p] \o sq.queue[p] \in Seq(Command \cup {Drop})
  BY <1>1, ConcatProperties
<1> QED  BY <1>1, <1>2, <1>3

\* set_active(p, false) keeps it: what waited is thrown away, what is in the turn stays.
LEMMA LeaveIInv == ASSUME IInv, NEW p \in Seats, Leave(p) PROVE IInv'
<1> USE DEF IInv, Leave, Deactivated
<1>1. \A q \in Seats : out[q] \o sq.queue[q] \in Seq(Command \cup {Drop})
  BY CommandSequences
<1>2. <<>> \in Seq(Command)
  OBVIOUS
<1>3. TypeOK'
  BY <1>1, <1>2 DEF TypeOK, SequencerType, Fields, Turns
<1>4. QueuedByBound' /\ FullTurnFirst' /\ GoneWaitsForNothing'
  BY DEF TypeOK, SequencerType, Fields, QueuedByBound, FullTurnFirst, GoneWaitsForNothing
<1>5. NothingLost'
  <2> SUFFICES ASSUME NEW q \in Seats
               PROVE  taken'[q] = out'[q] \o sq'.queue[q] \o sq'.carry[q]
    BY DEF NothingLost
  <2>1. CASE q = p
    <3>1. (out[q] \o sq.queue[q]) \o <<>> = out[q] \o sq.queue[q]
      BY <1>1, ConcatEmptySeq
    <3>2. taken'[q] = out[q] \o sq.queue[q] /\ sq'.carry[q] = <<>> /\ sq'.queue = sq.queue
      BY <2>1 DEF TypeOK, SequencerType, Fields, Turns
    <3> QED  BY <3>1, <3>2
  <2>2. CASE q # p
    BY <2>2 DEF NothingLost, TypeOK, SequencerType, Fields, Turns
  <2> QED  BY <2>1, <2>2
<1> QED  BY <1>3, <1>4, <1>5

\* submit() keeps it: a command waits only when the turn is full.
LEMMA SubmitIInv == ASSUME IInv, NEW p \in Seats, NEW c \in Command, Submit(p, c) PROVE IInv'
<1> DEFINE S == Command \cup {Drop}
<1>9. TypeOK /\ QueuedByBound /\ FullTurnFirst /\ GoneWaitsForNothing /\ NothingLost
  BY DEF IInv
<1>0. /\ taken[p] \in Seq(S) /\ out[p] \in Seq(S) /\ sq.queue[p] \in Seq(S)
      /\ sq.carry[p] \in Seq(Command) /\ sq.carry[p] \in Seq(S) /\ out[p] \o sq.queue[p] \in Seq(S)
  BY <1>9, CommandSequences
<1>1. /\ Append(taken[p], c) \in Seq(S)
      /\ Append(sq.queue[p], c) \in Seq(S)
      /\ Append(sq.carry[p], c) \in Seq(Command)
  <2>1. c \in S
    OBVIOUS
  <2> QED  BY <1>0, <2>1, AppendProperties
<1>2. taken' = [taken EXCEPT ![p] = Append(@, c)] /\ out' = out
  BY DEF Submit
<1>3. taken[p] = out[p] \o sq.queue[p] \o sq.carry[p]
  BY <1>9 DEF NothingLost
<1> DEFINE newQueue == [sq.queue EXCEPT ![p] = Append(@, c)]
           newCount == [sq.queuedBy EXCEPT ![p] = @ + 1]
           newCarry == [sq.carry EXCEPT ![p] = Append(@, c)]
<1>6. DOMAIN sq = Fields /\ c \in S
  BY <1>9 DEF TypeOK, SequencerType
<1>7. sq' = IF HasRoom(sq, p) THEN [sq EXCEPT !.queue = newQueue, !.queuedBy = newCount]
                              ELSE [sq EXCEPT !.carry = newCarry]
  BY Zenon DEF Submit, Submitted
<1>8. /\ DOMAIN sq' = Fields /\ sq'.active = sq.active /\ sq'.acked = sq.acked
      /\ sq'.nextTurn = sq.nextTurn /\ sq'.reports = sq.reports /\ sq'.referee = sq.referee
      /\ HasRoom(sq, p) => sq'.queue = newQueue /\ sq'.queuedBy = newCount /\ sq'.carry = sq.carry
      /\ ~HasRoom(sq, p) => sq'.queue = sq.queue /\ sq'.queuedBy = sq.queuedBy /\ sq'.carry = newCarry
  <2> HIDE DEF newQueue, newCount, newCarry
  <2>1. CASE HasRoom(sq, p)
    BY <1>6, <1>7, <2>1 DEF Fields
  <2>2. CASE ~HasRoom(sq, p)
    BY <1>6, <1>7, <2>2 DEF Fields
  <2> QED  BY <2>1, <2>2
<1>4. CASE HasRoom(sq, p)
  <2>1. /\ sq'.queue = [sq.queue EXCEPT ![p] = Append(@, c)]
        /\ sq'.queuedBy = [sq.queuedBy EXCEPT ![p] = @ + 1]
        /\ sq'.carry = sq.carry
    BY <1>4, <1>8
  <2>2. sq.carry[p] = <<>>
    BY <1>4, <1>9, SequencerAssumption DEF FullTurnFirst, TypeOK, SequencerType, HasRoom
  <2>3. TypeOK'
    <3>1. taken' \in Turns /\ out' \in Turns
      BY <1>1, <1>2, <1>9 DEF TypeOK, Turns
    <3>2. /\ newQueue \in Turns /\ newCount \in [Seats -> Nat]
          /\ newCarry \in [Seats -> Seq(Command)]
      <4>1. newQueue \in Turns
        BY <1>1, <1>9 DEF TypeOK, SequencerType, Turns
      <4>2. newCount \in [Seats -> Nat]
        BY <1>9 DEF TypeOK, SequencerType
      <4>3. newCarry \in [Seats -> Seq(Command)]
        BY <1>1, <1>9 DEF TypeOK, SequencerType
      <4> QED  BY <4>1, <4>2, <4>3
    <3>3. SequencerType(sq')
      <4> HIDE DEF newQueue, newCount, newCarry
      <4>1. SequencerType(sq)
        BY <1>9 DEF TypeOK
      <4> QED  BY <1>4, <1>8, <3>2, <4>1 DEF SequencerType
    <3> QED  BY <3>1, <3>3 DEF TypeOK
  <2>4. QueuedByBound' /\ FullTurnFirst' /\ GoneWaitsForNothing'
    <3>1. /\ sq.queuedBy \in [Seats -> Nat] /\ sq.queuedBy[p] < MaxPerTurn /\ MaxPerTurn \in Nat
          /\ sq'.active = sq.active
      BY <1>4, <1>8, <1>9, SequencerAssumption DEF TypeOK, SequencerType, HasRoom
    <3>2. QueuedByBound'
      BY <1>9, <2>1, <3>1 DEF QueuedByBound
    <3>3. FullTurnFirst'
      <4>1. \A q \in Seats : q # p => sq'.queuedBy[q] = sq.queuedBy[q]
        BY <2>1, <3>1
      <4> QED  BY <4>1, <1>9, <2>1, <2>2 DEF FullTurnFirst
    <3>4. GoneWaitsForNothing'
      BY <1>9, <2>1, <3>1 DEF GoneWaitsForNothing
    <3> QED  BY <3>2, <3>3, <3>4
  <2>5. Append(taken[p], c) = out[p] \o Append(sq.queue[p], c) \o sq.carry[p]
    <3>1. taken[p] = out[p] \o sq.queue[p]
      BY <1>0, <1>3, <2>2, ConcatEmptySeq
    <3>2. Append(out[p] \o sq.queue[p], c) = out[p] \o Append(sq.queue[p], c)
      <4> DEFINE x == out[p]  y == sq.queue[p]
      <4>1. x \in Seq(S) /\ y \in Seq(S) /\ c \in S
        BY <1>0, <1>6
      <4> HIDE DEF x, y, S
      <4>2. Append(x \o y, c) = x \o Append(y, c)
        BY <4>1, SMTT(40)
      <4> QED  BY <4>2 DEF x, y
    <3>3. out[p] \o Append(sq.queue[p], c) \in Seq(S)
      BY <1>0, <1>1, ConcatProperties
    <3>4. (out[p] \o Append(sq.queue[p], c)) \o <<>> = out[p] \o Append(sq.queue[p], c)
      BY <3>3, ConcatEmptySeq
    <3> QED  BY <2>2, <3>1, <3>2, <3>4
  <2>6. NothingLost'
    BY <1>2, <1>9, <2>1, <2>5 DEF NothingLost, TypeOK, SequencerType, Turns
  <2> QED  BY <2>3, <2>4, <2>6 DEF IInv
<1>5. CASE ~HasRoom(sq, p)
  <2>1. /\ sq'.queue = sq.queue
        /\ sq'.queuedBy = sq.queuedBy
        /\ sq'.carry = [sq.carry EXCEPT ![p] = Append(@, c)]
    BY <1>5, <1>8
  <2>2. sq.queuedBy[p] = MaxPerTurn
    BY <1>5, <1>9, SequencerAssumption DEF QueuedByBound, TypeOK, SequencerType, HasRoom
  <2>3. TypeOK'
    <3>1. taken' \in Turns /\ out' \in Turns
      BY <1>1, <1>2, <1>9 DEF TypeOK, Turns
    <3>2. /\ newQueue \in Turns /\ newCount \in [Seats -> Nat]
          /\ newCarry \in [Seats -> Seq(Command)]
      <4>1. newQueue \in Turns
        BY <1>1, <1>9 DEF TypeOK, SequencerType, Turns
      <4>2. newCount \in [Seats -> Nat]
        BY <1>9 DEF TypeOK, SequencerType
      <4>3. newCarry \in [Seats -> Seq(Command)]
        BY <1>1, <1>9 DEF TypeOK, SequencerType
      <4> QED  BY <4>1, <4>2, <4>3
    <3>3. SequencerType(sq')
      <4> HIDE DEF newQueue, newCount, newCarry
      <4>1. SequencerType(sq)
        BY <1>9 DEF TypeOK
      <4> QED  BY <1>5, <1>8, <3>2, <4>1 DEF SequencerType
    <3> QED  BY <3>1, <3>3 DEF TypeOK
  <2>4. QueuedByBound' /\ FullTurnFirst' /\ GoneWaitsForNothing'
    <3>1. /\ sq.carry \in [Seats -> Seq(Command)] /\ sq.active[p] /\ sq'.active = sq.active
      BY <1>8, <1>9 DEF TypeOK, SequencerType, Submit, Accepts
    <3>2. \A q \in Seats : q # p => sq'.carry[q] = sq.carry[q]
      BY <2>1, <3>1
    <3>3. QueuedByBound'
      BY <1>9, <2>1 DEF QueuedByBound
    <3>4. FullTurnFirst'
      BY <1>9, <2>1, <2>2, <3>2 DEF FullTurnFirst
    <3>5. GoneWaitsForNothing'
      BY <1>9, <3>1, <3>2 DEF GoneWaitsForNothing
    <3> QED  BY <3>3, <3>4, <3>5
  <2>5. Append(taken[p], c) = out[p] \o sq.queue[p] \o Append(sq.carry[p], c)
    <3> DEFINE x == out[p] \o sq.queue[p]  y == sq.carry[p]
    <3>1. x \in Seq(S) /\ y \in Seq(S) /\ c \in S
      BY <1>0, <1>6, SMTT(40)
    <3> HIDE DEF x, y, S
    <3>2. Append(x \o y, c) = x \o Append(y, c)
      BY <3>1
    <3> QED  BY <1>3, <3>2 DEF x, y
  <2>6. NothingLost'
    BY <1>2, <1>9, <2>1, <2>5 DEF NothingLost, TypeOK, SequencerType, Turns
  <2> QED  BY <2>3, <2>4, <2>6 DEF IInv
<1> QED  BY <1>4, <1>5 DEF IInv

\* submit_system() of a Drop keeps it: a seat that is out has nothing waiting, so the Drop
\* overtakes nothing.
LEMMA SubmitDropIInv == ASSUME IInv, NEW p \in Seats, SubmitDrop(p) PROVE IInv'
<1> DEFINE S == Command \cup {Drop}
           newQueue == [sq.queue EXCEPT ![p] = Append(@, Drop)]
<1>1. TypeOK /\ QueuedByBound /\ FullTurnFirst /\ GoneWaitsForNothing /\ NothingLost
  BY DEF IInv
<1>2. /\ taken[p] \in Seq(S) /\ out[p] \in Seq(S) /\ sq.queue[p] \in Seq(S)
      /\ sq.carry[p] \in Seq(S)
  BY <1>1, CommandSequences
<1>3. DOMAIN sq = Fields /\ Drop \in S
  BY <1>1 DEF TypeOK, SequencerType
<1>4. sq' = [sq EXCEPT !.queue = newQueue]
  BY Zenon DEF SubmitDrop, SystemDrop
<1>5. /\ DOMAIN sq' = Fields /\ sq'.active = sq.active /\ sq'.acked = sq.acked
      /\ sq'.nextTurn = sq.nextTurn /\ sq'.reports = sq.reports /\ sq'.referee = sq.referee
      /\ sq'.queue = newQueue /\ sq'.queuedBy = sq.queuedBy /\ sq'.carry = sq.carry
  <2> HIDE DEF newQueue
  <2> QED  BY <1>3, <1>4 DEF Fields
<1>6. taken' = [taken EXCEPT ![p] = Append(@, Drop)] /\ out' = out
  BY DEF SubmitDrop
<1>7. Append(taken[p], Drop) \in Seq(S) /\ Append(sq.queue[p], Drop) \in Seq(S)
  BY <1>2, <1>3, AppendProperties
<1>8. TypeOK'
  <2>1. newQueue \in Turns /\ taken' \in Turns /\ out' \in Turns
    BY <1>1, <1>6, <1>7 DEF TypeOK, SequencerType, Turns
  <2> HIDE DEF newQueue
  <2> QED  BY <1>1, <1>5, <2>1 DEF TypeOK, SequencerType
<1>9. QueuedByBound' /\ FullTurnFirst' /\ GoneWaitsForNothing'
  BY <1>1, <1>5 DEF QueuedByBound, FullTurnFirst, GoneWaitsForNothing
<1>10. NothingLost'
  <2>1. sq.carry[p] = <<>>
    BY <1>1 DEF SubmitDrop, GoneWaitsForNothing
  <2>2. taken[p] = out[p] \o sq.queue[p]
    <3>1. out[p] \o sq.queue[p] \in Seq(S)
      BY <1>1, CommandSequences
    <3>2. taken[p] = (out[p] \o sq.queue[p]) \o <<>>
      BY <1>1, <2>1 DEF NothingLost
    <3> QED  BY <3>1, <3>2, ConcatEmptySeq
  <2>3. Append(out[p] \o sq.queue[p], Drop) = out[p] \o Append(sq.queue[p], Drop)
    <3> DEFINE x == out[p]  y == sq.queue[p]
    <3>1. x \in Seq(S) /\ y \in Seq(S) /\ Drop \in S
      BY <1>2, <1>3
    <3> HIDE DEF x, y, S
    <3>2. Append(x \o y, Drop) = x \o Append(y, Drop)
      BY <3>1
    <3> QED  BY <3>2 DEF x, y
  <2>4. out[p] \o Append(sq.queue[p], Drop) \in Seq(S)
    BY <1>2, <1>7, ConcatProperties
  <2>5. Append(taken[p], Drop) = out[p] \o Append(sq.queue[p], Drop) \o sq.carry[p]
    BY <2>1, <2>2, <2>3, <2>4, ConcatEmptySeq
  <2> QED  BY <1>1, <1>5, <1>6, <2>5 DEF NothingLost, TypeOK, SequencerType, Turns
<1> QED  BY <1>8, <1>9, <1>10 DEF IInv

\* seal() keeps it: what is taken from the waiting commands is the head of them, and
\* some are left only when the next turn is full.
LEMMA SealIInv == ASSUME IInv, Seal PROVE IInv'
<1> DEFINE S == Command \cup {Drop}
           newQueue == [p \in Seats |-> SubSeq(sq.carry[p], 1, Share(sq, p))]
           newCount == [p \in Seats |-> Share(sq, p)]
           newCarry == [p \in Seats |-> SubSeq(sq.carry[p], Share(sq, p) + 1, Len(sq.carry[p]))]
<1>1. TypeOK /\ QueuedByBound /\ FullTurnFirst /\ GoneWaitsForNothing /\ NothingLost
  BY DEF IInv
<1>2. ASSUME NEW p \in Seats
      PROVE  /\ Share(sq, p) \in 0 .. Len(sq.carry[p]) /\ Len(sq.carry[p]) \in Nat
             /\ Share(sq, p) \in Nat /\ Share(sq, p) <= MaxPerTurn
             /\ newQueue[p] \in Seq(Command) /\ newCarry[p] \in Seq(Command)
             /\ Len(newCarry[p]) = Len(sq.carry[p]) - Share(sq, p)
             /\ newQueue[p] \o newCarry[p] = sq.carry[p]
             /\ newCarry[p] # <<>> => Share(sq, p) = MaxPerTurn
             /\ sq.carry[p] = <<>> => newCarry[p] = <<>>
  <2>1. sq.carry[p] \in Seq(Command)
    BY <1>1, CommandSequences
  <2>2. /\ Share(sq, p) \in 0 .. Len(sq.carry[p])
        /\ Share(sq, p) <= MaxPerTurn
        /\ Share(sq, p) < Len(sq.carry[p]) => Share(sq, p) = MaxPerTurn
    BY <1>1, ShareBounds DEF TypeOK
  <2>3. Len(sq.carry[p]) \in Nat
    BY <2>1, LenProperties
  <2>4. /\ newQueue[p] \in Seq(Command) /\ newCarry[p] \in Seq(Command)
        /\ Len(newCarry[p]) = Len(sq.carry[p]) - Share(sq, p)
        /\ newQueue[p] \o newCarry[p] = sq.carry[p]
    BY <2>1, <2>2, Split
  <2>5. newCarry[p] # <<>> => Len(newCarry[p]) # 0
    BY <2>4, EmptySeq
  <2>6. newCarry[p] # <<>> => Share(sq, p) = MaxPerTurn
    BY <2>2, <2>3, <2>4, <2>5
  <2>7. sq.carry[p] = <<>> => Len(sq.carry[p]) = 0
    OBVIOUS
  <2>8. sq.carry[p] = <<>> => newCarry[p] = <<>>
    BY <2>2, <2>3, <2>4, <2>5, <2>7
  <2>9. Share(sq, p) \in Nat
    BY <2>2, <2>3
  <2> HIDE DEF newQueue, newCarry
  <2> QED  BY <2>2, <2>3, <2>4, <2>6, <2>8, <2>9
<1>3. sq' = [sq EXCEPT !.nextTurn = @ + 1, !.queue = newQueue, !.queuedBy = newCount,
                       !.carry = newCarry]
  BY Zenon DEF Seal, Sealed
<1>4. /\ DOMAIN sq' = Fields /\ sq'.active = sq.active /\ sq'.acked = sq.acked
      /\ sq'.nextTurn = sq.nextTurn + 1 /\ sq'.reports = sq.reports /\ sq'.referee = sq.referee
      /\ sq'.queue = newQueue /\ sq'.queuedBy = newCount /\ sq'.carry = newCarry
  <2>1. DOMAIN sq = Fields
    BY <1>1 DEF TypeOK, SequencerType
  <2> HIDE DEF newQueue, newCount, newCarry
  <2> QED  BY <1>3, <2>1 DEF Fields
<1>5. out' = [p \in Seats |-> out[p] \o sq.queue[p]] /\ taken' = taken
  BY DEF Seal, SealedTurn
<1>6. TypeOK'
  <2>1. \A p \in Seats : newQueue[p] \in Seq(S)
    BY <1>2, SeqMonotonic
  <2>2. newQueue \in Turns
    BY <2>1 DEF Turns
  <2>3. newCount \in [Seats -> Nat] /\ newCarry \in [Seats -> Seq(Command)]
    BY <1>2
  <2>4. out' \in Turns
    BY <1>1, <1>5, CommandSequences DEF Turns
  <2> HIDE DEF newQueue, newCount, newCarry
  <2> QED  BY <1>1, <1>4, <1>5, <2>2, <2>3, <2>4 DEF TypeOK, SequencerType
<1>7. QueuedByBound' /\ FullTurnFirst' /\ GoneWaitsForNothing'
  BY <1>1, <1>2, <1>4 DEF QueuedByBound, FullTurnFirst, GoneWaitsForNothing
<1>8. NothingLost'
  <2> SUFFICES ASSUME NEW p \in Seats
               PROVE  taken[p] = (out[p] \o sq.queue[p]) \o newQueue[p] \o newCarry[p]
    BY <1>4, <1>5 DEF NothingLost
  <2>1. out[p] \o sq.queue[p] \in Seq(S)
    BY <1>1, CommandSequences
  <2>2. newQueue[p] \in Seq(S) /\ newCarry[p] \in Seq(S)
    BY <1>2, SeqMonotonic
  <2>3. taken[p] = (out[p] \o sq.queue[p]) \o sq.carry[p]
    BY <1>1 DEF NothingLost
  <2>4. newQueue[p] \o newCarry[p] = sq.carry[p]
    BY <1>2
  <2> HIDE DEF newQueue, newCarry, S
  <2> DEFINE x == out[p] \o sq.queue[p]  y == newQueue[p]  z == newCarry[p]
  <2>5. x \o y \o z = x \o (y \o z)
    <3>1. x \in Seq(S) /\ y \in Seq(S) /\ z \in Seq(S)
      BY <2>1, <2>2
    <3> HIDE DEF x, y, z
    <3> QED  BY <3>1, ConcatAssociative
  <2> QED  BY <2>3, <2>4, <2>5
<1> QED  BY <1>6, <1>7, <1>8 DEF IInv

\* resume() starts over with nothing queued.
LEMMA ResumeIInv == ASSUME IInv, NEW turn \in 0 .. sq.nextTurn, Resume(turn) PROVE IInv'
<1>1. turn \in Nat
  BY DEF IInv, TypeOK, SequencerType
<1>2. /\ DOMAIN sq' = Fields
      /\ sq'.active = [p \in Seats |-> FALSE] /\ sq'.acked = [p \in Seats |-> 0]
      /\ sq'.nextTurn = turn /\ sq'.reports = <<>> /\ sq'.referee = <<>>
      /\ sq'.queue = NoCommands /\ sq'.queuedBy = [p \in Seats |-> 0]
      /\ sq'.carry = NoCommands
  BY DEF Resume, Resumed, NewSequencer, Fields
<1>3. NoCommands \in Turns /\ NoCommands \in [Seats -> Seq(Command)]
  BY DEF NoCommands, Turns
<1>4. TypeOK'
  BY <1>1, <1>2, <1>3 DEF Resume, TypeOK, SequencerType
<1>5. QueuedByBound' /\ FullTurnFirst' /\ GoneWaitsForNothing'
  BY <1>2, SequencerAssumption DEF QueuedByBound, FullTurnFirst, GoneWaitsForNothing, NoCommands
<1>6. NothingLost'
  BY <1>2 DEF Resume, NothingLost, NoCommands
<1> QED  BY <1>4, <1>5, <1>6 DEF IInv

\* The inductive invariant holds always.
THEOREM Inductive == Spec => []IInv
<1>1. Init => IInv
  BY InitIInv
<1>2. IInv /\ [Next]_vars => IInv'
  <2> SUFFICES ASSUME IInv, [Next]_vars PROVE IInv'
    OBVIOUS
  <2>1. ASSUME NEW p \in Seats, Join(p) PROVE IInv'
    BY <2>1, JoinIInv
  <2>2. ASSUME NEW p \in Seats, Leave(p) PROVE IInv'
    BY <2>2, LeaveIInv
  <2>3. ASSUME NEW p \in Seats, SubmitDrop(p) PROVE IInv'
    BY <2>3, SubmitDropIInv
  <2>4. ASSUME NEW p \in Seats, NEW c \in Command, Submit(p, c) PROVE IInv'
    BY <2>4, SubmitIInv
  <2>5. CASE Seal
    BY <2>5, SealIInv
  <2>6. ASSUME NEW turn \in 0 .. sq.nextTurn, Resume(turn) PROVE IInv'
    BY <2>6, ResumeIInv
  <2>7. CASE UNCHANGED vars
    BY <2>7 DEF vars, IInv, TypeOK, QueuedByBound, FullTurnFirst, GoneWaitsForNothing, NothingLost
  <2> QED  BY <2>1, <2>2, <2>3, <2>4, <2>5, <2>6, <2>7 DEF Next
<1> QED  BY <1>1, <1>2, PTL DEF Spec

\* A sequencer is one: queue and waiting commands of every seat, counters, turn.
THEOREM TypeCorrect == Spec => []TypeOK
<1>1. IInv => TypeOK
  BY DEF IInv
<1> QED  BY <1>1, Inductive, PTL

\* A seat that has commands waiting has a full turn (the comment in submit()).
THEOREM WaitingBehindAFullTurn == Spec => []FullTurnFirst
<1>1. IInv => FullTurnFirst
  BY DEF IInv
<1> QED  BY <1>1, Inductive, PTL

\* No command that submit() took is lost, doubled or overtaken by a later one of the
\* same player, whatever the limits are and however the turns fall.
THEOREM CommandsKept == Spec => []NothingLost
<1>1. IInv => NothingLost
  BY DEF IInv
<1> QED  BY <1>1, Inductive, PTL
=============================================================================
