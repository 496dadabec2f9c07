----------------------------- MODULE Match_proofs -----------------------------
(***************************************************************************)
(* All machines of a match play the same turns, for any number of guests   *)
(* and bots, any limits and any way in which guests go.  Agreement is not  *)
(* inductive alone: a guest takes what comes to it, so the invariant has   *)
(* to say that a turn on its way is the turn of the history that its       *)
(* number says, and that the history has as many turns as the sequencer    *)
(* counts.  From it follows that the match implements MatchHistory.        *)
(*                                                                         *)
(* And what a match promises each guest, whatever becomes of the links:    *)
(* nobody is left behind, no turn is missing, nobody is accused falsely,   *)
(* the orders of a guest are kept in their order, one Drop is the last     *)
(* that comes of who goes, and a game that differs from the host's is      *)
(* found out.  The host knows of a guest only what its messages say and a  *)
(* guest of the match only what comes to it, so each invariant follows     *)
(* what it is about from where it is made, over the link, to where it is   *)
(* used.                                                                   *)
(***************************************************************************)
EXTENDS Match, NumberFacts, SequenceTheorems

HostOK ==
  /\ SequencerType(sq)
  /\ present \in [Guests -> BOOLEAN]
  /\ violations \in [Guests -> Nat]
  /\ frozen \in BOOLEAN
  /\ holdup \in Seats \cup {Nobody}
  /\ named \subseteq Seats

LinksOK ==
  /\ wire \in [Guests -> BOOLEAN]
  /\ toHost \in [Guests -> Seq(ToHostMsg)]

GuestsOK ==
  /\ mode \in [Guests -> {"Normal", "Lost"}]
  /\ desynced \in [Guests -> BOOLEAN]
  /\ clicked \in [Seats -> 0 .. MaxCommands]
  /\ astray \in [Machines -> 0 .. Never]

\* A turn that is on its way is the turn of the history that its number says.
RightTurn(m) == m.type = "Turn" => m.turn < Len(log) /\ m.commands = log[m.turn + 1]
RightTurnsComing == \A g \in Guests : \A i \in 1 .. Len(toGuest[g]) : RightTurn(toGuest[g][i])

TurnsOK ==
  /\ log \in Seq(Turns)
  /\ Len(log) = sq.nextTurn /\ Len(log) <= MaxTurns
  /\ toGuest \in [Guests -> Seq(ToGuestMsg)]
  /\ got \in [Machines -> Seq(Turns)]
  /\ ran \in [Machines -> Nat]
  /\ \A m \in Machines : ran[m] <= Len(got[m])
  /\ got[HostSeat] = log
  /\ Agreement
  /\ RightTurnsComing

IInv == HostOK /\ LinksOK /\ GuestsOK /\ TurnsOK

------------------------------------------------------------------------------
(* What the methods of the sequencer keep *)

\* Dropping seats leaves a sequencer, and the turn it is at.
LEMMA OutType ==
  ASSUME NEW s, SequencerType(s), NEW gone
  PROVE  SequencerType(Out(s, gone)) /\ Out(s, gone).nextTurn = s.nextTurn
<1> DEFINE active == [p \in Seats |-> s.active[p] /\ p \notin gone]
           carry == [p \in Seats |-> IF p \in gone THEN <<>> ELSE s.carry[p]]
           queue == [p \in Seats |-> IF p \in gone THEN Append(s.queue[p], Drop) ELSE s.queue[p]]
<1>1. active \in [Seats -> BOOLEAN]
  BY DEF SequencerType
<1>2. carry \in [Seats -> Seq(Command)]
  BY DEF SequencerType
<1>3. queue \in Turns
  BY DEF SequencerType, Turns
<1>4. Out(s, gone) = [s EXCEPT !.active = active, !.carry = carry, !.queue = queue]
  BY Zenon DEF Out
<1> HIDE DEF active, carry, queue
<1>5. SequencerType([s EXCEPT !.active = active, !.carry = carry, !.queue = queue])
  BY <1>1, <1>2, <1>3 DEF SequencerType, Fields
<1>6. [s EXCEPT !.active = active, !.carry = carry, !.queue = queue].nextTurn = s.nextTurn
  BY DEF SequencerType, Fields
<1> QED  BY <1>4, <1>5, <1>6

\* submit() of a command leaves a sequencer, and the turn it is at.
LEMMA SubmittedType ==
  ASSUME NEW s, SequencerType(s), NEW p \in Seats, NEW c \in Command
  PROVE  SequencerType(Submitted(s, p, c)) /\ Submitted(s, p, c).nextTurn = s.nextTurn
<1>1. s.queue \in Turns /\ s.carry \in [Seats -> Seq(Command)] /\ s.queuedBy \in [Seats -> Nat]
      /\ DOMAIN s = Fields
  BY DEF SequencerType
<1> DEFINE queue == [s.queue EXCEPT ![p] = Append(@, c)]
           queuedBy == [s.queuedBy EXCEPT ![p] = @ + 1]
           carry == [s.carry EXCEPT ![p] = Append(@, c)]
<1>2. queue \in Turns /\ queuedBy \in [Seats -> Nat] /\ carry \in [Seats -> Seq(Command)]
  BY <1>1 DEF Turns
<1>3. CASE HasRoom(s, p)
  <2>1. Submitted(s, p, c) = [s EXCEPT !.queue = queue, !.queuedBy = queuedBy]
    BY <1>3, <1>1 DEF Submitted, Fields
  <2> HIDE DEF queue, queuedBy
  <2>2. SequencerType([s EXCEPT !.queue = queue, !.queuedBy = queuedBy])
    BY <1>2 DEF SequencerType, Fields
  <2>3. [s EXCEPT !.queue = queue, !.queuedBy = queuedBy].nextTurn = s.nextTurn
    BY <1>1 DEF Fields
  <2> QED  BY <2>1, <2>2, <2>3
<1>4. CASE ~HasRoom(s, p)
  <2>1. Submitted(s, p, c) = [s EXCEPT !.carry = carry]
    BY <1>4, <1>1 DEF Submitted, Fields
  <2> HIDE DEF carry
  <2>2. SequencerType([s EXCEPT !.carry = carry])
    BY <1>2 DEF SequencerType, Fields
  <2>3. [s EXCEPT !.carry = carry].nextTurn = s.nextTurn
    BY <1>1 DEF Fields
  <2> QED  BY <2>1, <2>2, <2>3
<1> QED  BY <1>3, <1>4

\* What is kept of a partial function is defined on some of the same keys.
LEMMA KeptDomain ==
  ASSUME NEW f, NEW keys
  PROVE  DOMAIN Kept(f, keys) \subseteq DOMAIN f
BY DEF Kept

\* An acknowledgement leaves a sequencer, and the turn it is at.
LEMMA OnAckType ==
  ASSUME NEW s, SequencerType(s), NEW p \in Seats, NEW turn \in Nat
  PROVE  SequencerType(OnAck(s, p, turn)) /\ OnAck(s, p, turn).nextTurn = s.nextTurn
<1> DEFINE needed == Lesser(turn + 1, s.nextTurn)
           a == IF needed > s.acked[p] THEN [s EXCEPT !.acked[p] = needed] ELSE s
           reports == Kept(a.reports, {k \in DOMAIN a.reports : k[1] + 1 >= Low(a)})
           referee == Kept(a.referee, {k \in DOMAIN a.referee : k + 1 >= Low(a)})
<1>1. needed \in Nat
  BY DEF SequencerType, Lesser
<1>2. SequencerType(a) /\ a.nextTurn = s.nextTurn
  <2> HIDE DEF needed
  <2>1. CASE needed > s.acked[p]
    <3> DEFINE acked == [s.acked EXCEPT ![p] = needed]
    <3>1. acked \in [Seats -> Nat] /\ DOMAIN s = Fields
      BY <1>1 DEF SequencerType
    <3>2. a = [s EXCEPT !.acked = acked]
      BY <2>1, <3>1 DEF Fields
    <3> HIDE DEF acked, a
    <3>3. SequencerType([s EXCEPT !.acked = acked])
      BY <3>1 DEF SequencerType, Fields
    <3>4. [s EXCEPT !.acked = acked].nextTurn = s.nextTurn
      BY <3>1 DEF Fields
    <3> QED  BY <3>2, <3>3, <3>4
  <2>2. CASE ~(needed > s.acked[p])
    BY <2>2
  <2> QED  BY <2>1, <2>2
<1>3. OnAck(s, p, turn) = [a EXCEPT !.reports = reports, !.referee = referee]
  BY Zenon DEF OnAck
<1> HIDE DEF a
<1>4. DOMAIN reports \subseteq DOMAIN a.reports /\ DOMAIN referee \subseteq DOMAIN a.referee
  BY KeptDomain
<1> HIDE DEF reports, referee
<1>5. DOMAIN reports \subseteq Nat \X Seats /\ DOMAIN referee \subseteq Nat
  BY <1>2, <1>4 DEF SequencerType
<1>6. SequencerType([a EXCEPT !.reports = reports, !.referee = referee])
  BY <1>2, <1>5 DEF SequencerType, Fields
<1>7. [a EXCEPT !.reports = reports, !.referee = referee].nextTurn = s.nextTurn
  BY <1>2 DEF SequencerType, Fields
<1> QED  BY <1>3, <1>6, <1>7

\* A client's hash report leaves a sequencer, and the turn it is at; it names seats.
LEMMA OnHashType ==
  ASSUME NEW s, SequencerType(s), NEW p \in Seats, NEW turn \in Nat, NEW hash
  PROVE  /\ SequencerType(OnHash(s, p, turn, hash))
         /\ OnHash(s, p, turn, hash).nextTurn = s.nextTurn
         /\ HashDesyncs(OnHash(s, p, turn, hash), p, turn) \subseteq Seats
<1> DEFINE reports == With(s.reports, <<turn, p>>, hash)
<1>1. DOMAIN reports \subseteq Nat \X Seats /\ DOMAIN s = Fields
  BY DEF SequencerType, With
<1>2. CASE TakesReport(s, p, turn)
  <2>1. OnHash(s, p, turn, hash) = [s EXCEPT !.reports = reports]
    BY <1>2, Zenon DEF OnHash
  <2> HIDE DEF reports
  <2>2. SequencerType([s EXCEPT !.reports = reports])
    BY <1>1 DEF SequencerType, Fields
  <2>3. [s EXCEPT !.reports = reports].nextTurn = s.nextTurn
    BY <1>1 DEF Fields
  <2> QED  BY <2>1, <2>2, <2>3 DEF HashDesyncs, Reported
<1>3. CASE ~TakesReport(s, p, turn)
  BY <1>3 DEF OnHash, HashDesyncs, Reported
<1> QED  BY <1>2, <1>3

\* So does the referee's.
LEMMA OnRefereeHashType ==
  ASSUME NEW s, SequencerType(s), NEW turn \in Nat, NEW hash
  PROVE  /\ SequencerType(OnRefereeHash(s, turn, hash))
         /\ OnRefereeHash(s, turn, hash).nextTurn = s.nextTurn
         /\ RefereeDesyncs(OnRefereeHash(s, turn, hash), turn) \subseteq Seats
<1> DEFINE referee == With(s.referee, turn, hash)
<1>1. DOMAIN referee \subseteq Nat /\ DOMAIN s = Fields
  BY DEF SequencerType, With
<1>2. CASE TakesReferee(s, turn)
  <2>1. OnRefereeHash(s, turn, hash) = [s EXCEPT !.referee = referee]
    BY <1>2, Zenon DEF OnRefereeHash
  <2> HIDE DEF referee
  <2>2. SequencerType([s EXCEPT !.referee = referee])
    BY <1>1 DEF SequencerType, Fields
  <2>3. [s EXCEPT !.referee = referee].nextTurn = s.nextTurn
    BY <1>1 DEF Fields
  <2> QED  BY <2>1, <2>2, <2>3 DEF RefereeDesyncs, Reported
<1>3. CASE ~TakesReferee(s, turn)
  BY <1>3 DEF OnRefereeHash, RefereeDesyncs, Reported
<1> QED  BY <1>2, <1>3

\* What a turn takes of the waiting commands, and what it leaves, are commands.
LEMMA Halves ==
  ASSUME NEW S, NEW q \in Seq(S), NEW k \in 0 .. Len(q)
  PROVE  SubSeq(q, 1, k) \in Seq(S) /\ SubSeq(q, k + 1, Len(q)) \in Seq(S)
<1>1. Len(q) \in Nat /\ \A i \in 1 .. Len(q) : q[i] \in S
  BY LenProperties, ElementOfSeq
<1>2. 1 \in Int /\ k \in Int /\ \A i \in 1 .. k : q[i] \in S
  BY <1>1
<1>3. k + 1 \in Int /\ Len(q) \in Int /\ \A i \in k + 1 .. Len(q) : q[i] \in S
  BY <1>1
<1>4. SubSeq(q, 1, k) \in Seq(S)
  BY <1>2, SubSeqProperties
<1>5. SubSeq(q, k + 1, Len(q)) \in Seq(S)
  BY <1>3, SubSeqProperties
<1> QED  BY <1>4, <1>5

\* seal() leaves a sequencer that is one turn on.
LEMMA SealedType ==
  ASSUME NEW s, SequencerType(s)
  PROVE  SequencerType(Sealed(s)) /\ Sealed(s).nextTurn = s.nextTurn + 1
<1> DEFINE queue == [p \in Seats |-> SubSeq(s.carry[p], 1, Share(s, p))]
           carry == [p \in Seats |-> SubSeq(s.carry[p], Share(s, p) + 1, Len(s.carry[p]))]
           queuedBy == [p \in Seats |-> Share(s, p)]
           nextTurn == s.nextTurn + 1
<1>1. s.carry \in [Seats -> Seq(Command)] /\ s.nextTurn \in Nat /\ DOMAIN s = Fields
  BY DEF SequencerType
<1>2. \A p \in Seats : Share(s, p) \in 0 .. Len(s.carry[p])
  <2> TAKE p \in Seats
  <2>1. Len(s.carry[p]) \in Nat
    BY <1>1, LenProperties
  <2> QED  BY <2>1, SequencerAssumption DEF Share, Lesser
<1>3. \A p \in Seats : /\ SubSeq(s.carry[p], 1, Share(s, p)) \in Seq(Command)
                       /\ SubSeq(s.carry[p], Share(s, p) + 1, Len(s.carry[p])) \in Seq(Command)
                       /\ Share(s, p) \in Nat
  <2> TAKE p \in Seats
  <2>1. s.carry[p] \in Seq(Command) /\ Share(s, p) \in 0 .. Len(s.carry[p])
    BY <1>1, <1>2
  <2> QED  BY <2>1, Halves
<1>4. Seq(Command) \subseteq Seq(Command \cup {Drop})
  BY SeqMonotonic
<1>5. queue \in Turns /\ carry \in [Seats -> Seq(Command)] /\ queuedBy \in [Seats -> Nat]
      /\ nextTurn \in Nat
  BY <1>1, <1>3, <1>4 DEF Turns
<1>6. Sealed(s) = [s EXCEPT !.nextTurn = nextTurn, !.queue = queue, !.queuedBy = queuedBy,
                            !.carry = carry]
  BY Zenon DEF Sealed
<1> HIDE DEF queue, carry, queuedBy, nextTurn
<1>7. SequencerType([s EXCEPT !.nextTurn = nextTurn, !.queue = queue, !.queuedBy = queuedBy,
                              !.carry = carry])
  BY <1>5 DEF SequencerType, Fields
<1>8. [s EXCEPT !.nextTurn = nextTurn, !.queue = queue, !.queuedBy = queuedBy,
                !.carry = carry].nextTurn = nextTurn
  BY <1>1 DEF Fields
<1> QED  BY <1>6, <1>7, <1>8 DEF nextTurn

\* Who holds the sealing up is one of those who are too far behind.  (Of the sets of those
\* that are before a seat in the order of laggard() one is the smallest.)
LEMMA LaggardIsASeat ==
  ASSUME NEW s, SequencerType(s), ~CanSeal(s)
  PROVE  Laggard(s) \in TooFarBehind(s)
<1> DEFINE T == TooFarBehind(s)
           worse(p, q) == \/ Behind(s, p) > Behind(s, q)
                          \/ Behind(s, p) = Behind(s, q) /\ p < q
           W == [p \in T |-> {q \in T : worse(q, p)}]
           R == StrictSubsetOrdering(T)
<1>1. T # {} /\ T \subseteq Seats /\ Seats \subseteq Nat /\ IsFiniteSet(T)
  BY SequencerAssumption, FS_Subset DEF CanSeal, TooFarBehind
<1>2. \A p \in Seats : Behind(s, p) \in Nat
  BY DEF Behind, Lesser, SequencerType
<1>3. IsWellFoundedOn(R, FiniteSubsetsOf(T))
  BY FS_StrictSubsetOrderingWellFounded
<1>4. \A p \in T : W[p] \in FiniteSubsetsOf(T)
  BY <1>1, FS_Subset DEF FiniteSubsetsOf
<1>5. \A p, q \in T : q \in W[p] => <<W[q], W[p]>> \in R
  <2> TAKE p, q \in T
  <2> HAVE q \in W[p]
  <2>0. worse(q, p) /\ p \in Nat /\ q \in Nat /\ Behind(s, p) \in Nat /\ Behind(s, q) \in Nat
    BY <1>1, <1>2
  <2>1. \A r \in T : worse(r, q) => worse(r, p)
    <3> TAKE r \in T
    <3>1. r \in Nat /\ Behind(s, r) \in Nat
      BY <1>1, <1>2
    <3> QED  BY <2>0, <3>1
  <2>2. q \notin W[q]
    BY <2>0
  <2>3. W[q] \subseteq W[p] /\ W[q] # W[p]
    BY <2>1, <2>2
  <2> QED  BY <1>1, <2>3 DEF StrictSubsetOrdering
<1>6. PICK p \in T : \A q \in T : ~ (<<W[q], W[p]>> \in R)
  <2> DEFINE Ws == {W[p] : p \in T}
  <2> HIDE DEF R, W, T
  <2>1. Ws \subseteq FiniteSubsetsOf(T) /\ Ws # {}
    BY <1>1, <1>4
  <2>2. PICK x \in Ws : \A y \in Ws : ~ (<<y, x>> \in R)
    <3> HIDE DEF Ws
    <3> QED  BY <1>3, <2>1, WFMin
  <2> QED  BY <2>2
<1>7. \A q \in T : \/ Behind(s, p) > Behind(s, q)
                   \/ Behind(s, p) = Behind(s, q) /\ p <= q
  <2> TAKE q \in T
  <2>1. q \notin W[p]
    BY <1>5, <1>6
  <2>2. ~worse(q, p)
    BY <2>1
  <2>3. p \in Nat /\ q \in Nat /\ Behind(s, p) \in Nat /\ Behind(s, q) \in Nat
    BY <1>1, <1>2
  <2> QED  BY <2>2, <2>3
<1> QED  BY <1>7 DEF Laggard
------------------------------------------------------------------------------
(* What several actions do *)

\* The seats and the machines of a match.
LEMMA Players ==
  /\ Guests \subseteq Seats /\ Bots \subseteq Seats /\ IsFiniteSet(Seats)
  /\ Guests \subseteq Machines /\ HostSeat \in Machines /\ HostSeat \notin Guests
  /\ Command = 1 .. MaxCommands /\ MaxCommands \in Nat /\ MaxTurns \in Nat
  /\ HashEvery \in Nat \ {0}
BY MatchAssumption, SequencerAssumption DEF Machines

\* A function on 1 .. n is a sequence.
LEMMA FunctionIsSeq ==
  ASSUME NEW S, NEW n \in Nat, NEW f \in [1 .. n -> S]
  PROVE  f \in Seq(S)
BY SeqDef

\* A step that neither seals nor sends nor takes nor runs a turn leaves the turns as they are.
LEMMA TurnsKept ==
  ASSUME TurnsOK, sq'.nextTurn = sq.nextTurn, UNCHANGED <<log, toGuest, got, ran>>
  PROVE  TurnsOK'
BY DEF TurnsOK, Agreement, RightTurnsComing, RightTurn

\* So does a step that only runs some of the turns that are there.
LEMMA TurnsKeptByRunning ==
  ASSUME TurnsOK, sq'.nextTurn = sq.nextTurn, UNCHANGED <<log, toGuest, got>>,
         ran' \in [Machines -> Nat], \A m \in Machines : ran'[m] <= Len(got[m])
  PROVE  TurnsOK'
BY DEF TurnsOK, Agreement, RightTurnsComing, RightTurn

\* Executing turns that are there stays within them.
LEMMA RunsOK ==
  ASSUME TurnsOK, NEW m \in Machines, NEW n \in ran[m] + 1 .. Len(got[m]),
         ran' = [ran EXCEPT ![m] = n]
  PROVE  ran' \in [Machines -> Nat] /\ \A k \in Machines : ran'[k] <= Len(got[k])
<1>1. got[m] \in Seq(Turns) /\ ran[m] \in Nat /\ Len(got[m]) \in Nat
  BY LenProperties DEF TurnsOK
<1>2. n \in Nat /\ n <= Len(got[m])
  BY <1>1
<1> QED  BY <1>2 DEF TurnsOK

\* Nor does one that tells the guests of a desync change the turns.
LEMMA ToldOfDesync ==
  ASSUME TurnsOK, sq'.nextTurn = sq.nextTurn, UNCHANGED <<log, got>>,
         ran' \in [Machines -> Nat], \A m \in Machines : ran'[m] <= Len(got[m]),
         NEW msgs \in Seq([type : {"Desync"}, turn : Nat]), toGuest' = Tell(msgs)
  PROVE  TurnsOK'
<1>1. msgs \in Seq(ToGuestMsg)
  BY SeqMonotonic DEF ToGuestMsg
<1>2. toGuest' \in [Guests -> Seq(ToGuestMsg)]
  BY <1>1, ConcatProperties DEF TurnsOK, Tell
<1>3. ASSUME NEW g \in Guests, NEW i \in 1 .. Len(toGuest'[g])
      PROVE  RightTurn(toGuest'[g][i])
  <2>1. CASE g \notin Listeners
    BY <2>1 DEF TurnsOK, Tell, RightTurnsComing
  <2>2. CASE g \in Listeners
    <3>1. toGuest'[g] = toGuest[g] \o msgs /\ toGuest[g] \in Seq(ToGuestMsg)
      BY <2>2 DEF Tell, TurnsOK
    <3>2. /\ Len(toGuest'[g]) = Len(toGuest[g]) + Len(msgs)
          /\ \A j \in 1 .. Len(toGuest[g]) + Len(msgs) :
               toGuest'[g][j] = IF j <= Len(toGuest[g]) THEN toGuest[g][j]
                                                        ELSE msgs[j - Len(toGuest[g])]
      BY <3>1, <1>1, ConcatProperties
    <3>3. Len(toGuest[g]) \in Nat /\ Len(msgs) \in Nat
      BY <3>1, LenProperties
    <3>4. CASE i <= Len(toGuest[g])
      BY <3>2, <3>3, <3>4 DEF TurnsOK, RightTurnsComing
    <3>5. CASE i > Len(toGuest[g])
      <4>1. i - Len(toGuest[g]) \in 1 .. Len(msgs)
        BY <3>2, <3>3, <3>5
      <4>2. msgs[i - Len(toGuest[g])] \in [type : {"Desync"}, turn : Nat]
        BY <4>1, ElementOfSeq
      <4>3. toGuest'[g][i] = msgs[i - Len(toGuest[g])]
        BY <3>2, <3>3, <3>5
      <4> QED  BY <4>2, <4>3 DEF RightTurn
    <3> QED  BY <3>3, <3>4, <3>5
  <2> QED  BY <2>1, <2>2
<1>4. RightTurnsComing'
  BY <1>3 DEF RightTurnsComing, RightTurn
<1> QED  BY <1>2, <1>4 DEF TurnsOK, Agreement

\* Desyncs that were found freeze the match, name seats and change no turn.
LEMMA FoundOK ==
  ASSUME HostOK, TurnsOK, sq'.nextTurn = sq.nextTurn, UNCHANGED <<log, got>>,
         ran' \in [Machines -> Nat], \A m \in Machines : ran'[m] <= Len(got[m]),
         NEW turn \in Nat, NEW players \in SUBSET Seats, Found(turn, players)
  PROVE  frozen' \in BOOLEAN /\ named' \subseteq Seats /\ TurnsOK'
<1>1. named' \subseteq Seats
  BY DEF Found, HostOK
<1>2. CASE players = {}
  <2>1. UNCHANGED <<frozen, toGuest>>
    BY <1>2 DEF Found
  <2> QED  BY <1>1, <2>1, TurnsKeptByRunning DEF HostOK
<1>3. CASE players # {}
  <2> DEFINE msgs == [i \in 1 .. Cardinality(players) |-> DesyncMsg(turn)]
  <2>1. Cardinality(players) \in Nat
    BY Players, FS_Subset, FS_CardinalityType
  <2>2. msgs \in [1 .. Cardinality(players) -> [type : {"Desync"}, turn : Nat]]
    BY DEF DesyncMsg
  <2>4. msgs \in Seq([type : {"Desync"}, turn : Nat])
    BY <2>1, <2>2, FunctionIsSeq
  <2>3. frozen' = TRUE /\ toGuest' = Tell(msgs)
    BY <1>3 DEF Found
  <2> HIDE DEF msgs
  <2> QED  BY <1>1, <2>4, <2>3, ToldOfDesync
<1> QED  BY <1>2, <1>3

\* What is no longer read leaves well-typed links.
LEMMA UnreadType ==
  ASSUME NEW inbox \in [Guests -> Seq(ToHostMsg)], NEW gone
  PROVE  Unread(inbox, gone) \in [Guests -> Seq(ToHostMsg)]
<1>1. <<>> \in Seq(ToHostMsg)
  OBVIOUS
<1> QED  BY <1>1 DEF Unread

\* Guests that are out change their entries alone.
LEMMA LeavesType ==
  ASSUME HostOK, LinksOK, NEW gone, Leaves(gone)
  PROVE  present' \in [Guests -> BOOLEAN] /\ wire' \in [Guests -> BOOLEAN]
BY DEF HostOK, LinksOK, Leaves

\* drop() of a guest
LEMMA DropGuestOK ==
  ASSUME HostOK, LinksOK, NEW g \in Guests, DropGuest(g)
  PROVE  /\ SequencerType(sq') /\ sq'.nextTurn = sq.nextTurn
         /\ present' \in [Guests -> BOOLEAN]
         /\ LinksOK'
<1>1. SequencerType(sq') /\ sq'.nextTurn = sq.nextTurn
  BY OutType DEF HostOK, DropGuest
<1>2. present' \in [Guests -> BOOLEAN] /\ wire' \in [Guests -> BOOLEAN]
  BY LeavesType DEF DropGuest
<1>3. toHost' \in [Guests -> Seq(ToHostMsg)]
  BY UnreadType DEF DropGuest, LinksOK
<1> QED  BY <1>1, <1>2, <1>3 DEF LinksOK

\* What is said into a link is well typed.
LEMMA SayType ==
  ASSUME LinksOK, NEW g \in Guests, NEW msgs \in Seq(ToHostMsg)
  PROVE  Say(g, msgs) \in [Guests -> Seq(ToHostMsg)]
<1>1. toHost[g] \o msgs \in Seq(ToHostMsg)
  BY ConcatProperties DEF LinksOK
<1> QED  BY <1>1 DEF Say, LinksOK
------------------------------------------------------------------------------
(* The steps of the host *)

\* violation() of a guest
LEMMA ViolationOK ==
  ASSUME HostOK, LinksOK, NEW g \in Guests, NEW inbox \in [Guests -> Seq(ToHostMsg)],
         Violation(g, inbox)
  PROVE  /\ SequencerType(sq') /\ sq'.nextTurn = sq.nextTurn
         /\ present' \in [Guests -> BOOLEAN]
         /\ violations' \in [Guests -> Nat]
         /\ LinksOK'
<1>1. violations' \in [Guests -> Nat]
  BY DEF Violation, HostOK
<1>2. CASE violations[g] + 1 >= ViolationLimit
  <2>1. sq' = Out(sq, {g}) /\ Leaves({g}) /\ toHost' = Unread(inbox, {g})
    BY <1>2 DEF Violation
  <2>2. SequencerType(sq') /\ sq'.nextTurn = sq.nextTurn
    BY <2>1, OutType DEF HostOK
  <2>3. present' \in [Guests -> BOOLEAN] /\ wire' \in [Guests -> BOOLEAN]
    BY <2>1, LeavesType
  <2>4. toHost' \in [Guests -> Seq(ToHostMsg)]
    BY <2>1, UnreadType
  <2> QED  BY <1>1, <2>2, <2>3, <2>4 DEF LinksOK
<1>3. CASE ~(violations[g] + 1 >= ViolationLimit)
  <2>1. toHost' = inbox /\ UNCHANGED <<sq, present, wire>>
    BY <1>3 DEF Violation
  <2> QED  BY <1>1, <2>1 DEF HostOK, LinksOK
<1> QED  BY <1>2, <1>3

\* A command of a guest: it waits for its turn, is forgotten, or costs the guest a violation.
LEMMA HostCommandOK ==
  ASSUME IInv, NEW g \in Guests, NEW c \in Command,
         NEW inbox \in [Guests -> Seq(ToHostMsg)],
         HostCommand(g, c, inbox), UNCHANGED <<log, holdup, got, ran>>
  PROVE  HostOK' /\ LinksOK' /\ TurnsOK'
<1>1. UNCHANGED <<frozen, named, toGuest>>
  BY DEF HostCommand
<1>2. /\ SequencerType(sq') /\ sq'.nextTurn = sq.nextTurn
      /\ present' \in [Guests -> BOOLEAN]
      /\ violations' \in [Guests -> Nat]
      /\ LinksOK'
  <2>1. CASE StartDelay /\ sq.nextTurn = 0
    BY <2>1 DEF HostCommand, IInv, HostOK, LinksOK
  <2>2. CASE ~(StartDelay /\ sq.nextTurn = 0) /\ Accepts(sq, g)
    <3>1. sq' = Submitted(sq, g, c) /\ toHost' = inbox /\ UNCHANGED <<present, wire, violations>>
      BY <2>2 DEF HostCommand
    <3>2. SequencerType(sq') /\ sq'.nextTurn = sq.nextTurn
      BY <3>1, SubmittedType, Players DEF IInv, HostOK
    <3> QED  BY <3>1, <3>2 DEF IInv, HostOK, LinksOK
  <2>3. CASE ~(StartDelay /\ sq.nextTurn = 0) /\ ~Accepts(sq, g)
    <3>1. Violation(g, inbox)
      BY <2>3 DEF HostCommand
    <3> QED  BY <3>1, ViolationOK DEF IInv
  <2> QED  BY <2>1, <2>2, <2>3
<1> QED  BY <1>1, <1>2, TurnsKept DEF IInv, HostOK

\* An acknowledgement of a guest
LEMMA HostAckOK ==
  ASSUME IInv, NEW g \in Guests, NEW turn \in Nat,
         NEW inbox \in [Guests -> Seq(ToHostMsg)],
         HostAck(g, turn, inbox), UNCHANGED <<log, holdup, got, ran>>
  PROVE  HostOK' /\ LinksOK' /\ TurnsOK'
<1>1. /\ sq' = OnAck(sq, g, turn) /\ toHost' = inbox
      /\ UNCHANGED <<present, wire, violations, frozen, named, toGuest>>
  BY DEF HostAck
<1>2. SequencerType(sq') /\ sq'.nextTurn = sq.nextTurn
  BY <1>1, OnAckType, Players DEF IInv, HostOK
<1>3. TurnsOK'
  BY <1>1, <1>2, TurnsKept DEF IInv
<1> QED  BY <1>1, <1>2, <1>3 DEF IInv, HostOK, LinksOK

\* A state hash that a guest reports, and the desyncs that it shows
LEMMA HostHashOK ==
  ASSUME IInv, NEW g \in Guests, NEW turn \in Nat, NEW hash,
         NEW inbox \in [Guests -> Seq(ToHostMsg)],
         HostHash(g, turn, hash, inbox), UNCHANGED <<log, holdup, got, ran>>
  PROVE  HostOK' /\ LinksOK' /\ TurnsOK'
<1> DEFINE s == OnHash(sq, g, turn, hash)
<1>1. /\ sq' = s /\ Found(turn, HashDesyncs(s, g, turn)) /\ toHost' = inbox
      /\ UNCHANGED <<present, wire, violations>>
  BY DEF HostHash
<1>2. SequencerType(s) /\ s.nextTurn = sq.nextTurn /\ HashDesyncs(s, g, turn) \subseteq Seats
  BY OnHashType, Players DEF IInv, HostOK
<1> HIDE DEF s
<1>4. ran' \in [Machines -> Nat] /\ \A m \in Machines : ran'[m] <= Len(got[m])
  BY DEF IInv, TurnsOK
<1>3. frozen' \in BOOLEAN /\ named' \subseteq Seats /\ TurnsOK'
  BY <1>1, <1>2, <1>4, FoundOK DEF IInv
<1> QED  BY <1>1, <1>2, <1>3 DEF IInv, HostOK, LinksOK

\* The last word of a guest
LEMMA HostLeaveOK ==
  ASSUME IInv, NEW g \in Guests, HostLeave(g), UNCHANGED <<log, holdup, got, ran>>
  PROVE  HostOK' /\ LinksOK' /\ TurnsOK'
<1>1. DropGuest(g) /\ UNCHANGED <<violations, frozen, named, toGuest>>
  BY DEF HostLeave
<1>2. /\ SequencerType(sq') /\ sq'.nextTurn = sq.nextTurn
      /\ present' \in [Guests -> BOOLEAN] /\ LinksOK'
  BY <1>1, DropGuestOK DEF IInv
<1> QED  BY <1>1, <1>2, TurnsKept DEF IInv, HostOK

\* A message of a guest is a well-typed one, and what is left of the inbox is too.
LEMMA InboxOK ==
  ASSUME LinksOK, NEW g \in Guests, toHost[g] # <<>>
  PROVE  /\ Head(toHost[g]) \in ToHostMsg
         /\ [toHost EXCEPT ![g] = Tail(@)] \in [Guests -> Seq(ToHostMsg)]
<1>1. toHost[g] \in Seq(ToHostMsg)
  BY DEF LinksOK
<1>2. Head(toHost[g]) \in ToHostMsg /\ Tail(toHost[g]) \in Seq(ToHostMsg)
  BY <1>1, HeadTailProperties
<1> QED  BY <1>2 DEF LinksOK

\* poll_clients(), one message
LEMMA HostHearsOK == ASSUME IInv, NEW g \in Guests, HostHears(g) PROVE IInv'
<1> DEFINE m == Head(toHost[g])
           inbox == [toHost EXCEPT ![g] = Tail(@)]
<1>1. m \in ToHostMsg /\ inbox \in [Guests -> Seq(ToHostMsg)]
  BY InboxOK DEF IInv, HostHears
<1>2. UNCHANGED <<log, holdup, mode, desynced, got, ran, clicked, astray>>
  BY DEF HostHears, guestVars
<1>3. \/ m.type = "Command" /\ HostCommand(g, m.command, inbox)
      \/ m.type = "TurnAck" /\ HostAck(g, m.turn, inbox)
      \/ m.type = "Hash" /\ HostHash(g, m.turn, m.hash, inbox)
      \/ m.type = "Leave" /\ HostLeave(g)
  BY Zenon DEF HostHears
<1> HIDE DEF m, inbox
<1>4. /\ m.type = "Command" => m.command \in Command
      /\ m.type = "TurnAck" => m.turn \in Nat
      /\ m.type = "Hash" => m.turn \in Nat
  BY <1>1 DEF ToHostMsg, LeaveMsg
<1>5. HostOK' /\ LinksOK' /\ TurnsOK'
  <2>1. CASE m.type = "Command" /\ HostCommand(g, m.command, inbox)
    BY <2>1, <1>1, <1>2, <1>4, HostCommandOK
  <2>2. CASE m.type = "TurnAck" /\ HostAck(g, m.turn, inbox)
    BY <2>2, <1>1, <1>2, <1>4, HostAckOK
  <2>3. CASE m.type = "Hash" /\ HostHash(g, m.turn, m.hash, inbox)
    BY <2>3, <1>1, <1>2, <1>4, HostHashOK
  <2>4. CASE m.type = "Leave" /\ HostLeave(g)
    BY <2>4, <1>2, HostLeaveOK
  <2> QED  BY <1>3, <2>1, <2>2, <2>3, <2>4
<1>6. GuestsOK'
  BY <1>2 DEF IInv, GuestsOK
<1> QED  BY <1>5, <1>6 DEF IInv

\* A guest that is lost, in whatever way
LEMMA LosesGuestOK == ASSUME IInv, NEW g \in Guests, LosesGuest(g) PROVE IInv'
<1>1. /\ DropGuest(g)
      /\ UNCHANGED <<log, violations, frozen, holdup, named, toGuest, mode, desynced, got, ran,
                     clicked, astray>>
  BY DEF LosesGuest, guestVars
<1>2. /\ SequencerType(sq') /\ sq'.nextTurn = sq.nextTurn
      /\ present' \in [Guests -> BOOLEAN] /\ LinksOK'
  BY <1>1, DropGuestOK DEF IInv
<1>3. TurnsOK'
  BY <1>1, <1>2, TurnsKept DEF IInv
<1> QED  BY <1>1, <1>2, <1>3 DEF IInv, HostOK, GuestsOK

\* submit_local(), submit_bot()
LEMMA HostClicksOK == ASSUME IInv, NEW p \in Seats, HostClicks(p) PROVE IInv'
<1>1. /\ clicked[p] < MaxCommands /\ clicked' = [clicked EXCEPT ![p] = @ + 1]
      /\ sq' = IF Accepts(sq, p) THEN Submitted(sq, p, clicked'[p]) ELSE sq
      /\ UNCHANGED <<log, present, violations, frozen, holdup, named, wire, toHost, toGuest, mode,
                     desynced, got, ran, astray>>
  BY DEF HostClicks, Click, linkVars, guestVars
<1>2. clicked[p] \in 0 .. MaxCommands /\ MaxCommands \in Nat
  BY Players DEF IInv, GuestsOK
<1>3. clicked' \in [Seats -> 0 .. MaxCommands] /\ clicked'[p] \in Command
  BY <1>1, <1>2, Players DEF IInv, GuestsOK
<1>4. SequencerType(sq') /\ sq'.nextTurn = sq.nextTurn
  BY <1>1, <1>3, SubmittedType DEF IInv, HostOK
<1>5. TurnsOK'
  BY <1>1, <1>4, TurnsKept DEF IInv
<1> QED  BY <1>1, <1>3, <1>4, <1>5 DEF IInv, HostOK, LinksOK, GuestsOK

\* The loop while somebody lags
LEMMA HostWaitsOK == ASSUME IInv, HostWaits PROVE IInv'
<1>1. /\ ~CanSeal(sq)
      /\ UNCHANGED <<log, violations, frozen, named, toGuest, mode, desynced, got, ran, clicked,
                     astray>>
  BY DEF HostWaits, guestVars
<1>2. /\ SequencerType(sq') /\ sq'.nextTurn = sq.nextTurn
      /\ present' \in [Guests -> BOOLEAN] /\ LinksOK' /\ holdup' \in Seats \cup {Nobody}
  <2> DEFINE p == Laggard(sq)
  <2>1. CASE p # holdup /\ holdup' = p /\ UNCHANGED <<sq, present, wire, toHost>>
    <3>1. p \in Seats
      BY <1>1, LaggardIsASeat DEF IInv, HostOK, TooFarBehind
    <3> QED  BY <2>1, <3>1 DEF IInv, HostOK, LinksOK
  <2>2. CASE p \in Guests /\ DropGuest(p) /\ holdup' = Nobody
    BY <2>2, DropGuestOK DEF IInv
  <2> QED  BY <2>1, <2>2 DEF HostWaits
<1>3. TurnsOK'
  BY <1>1, <1>2, TurnsKept DEF IInv
<1> QED  BY <1>1, <1>2, <1>3 DEF IInv, HostOK, GuestsOK

\* A prefix does not change when something is appended behind it.
LEMMA PrefixOfAppend ==
  ASSUME NEW S, NEW q \in Seq(S), NEW e \in S, NEW k \in 0 .. Len(q)
  PROVE  SubSeq(Append(q, e), 1, k) = SubSeq(q, 1, k)
<1>1. /\ Append(q, e) \in Seq(S) /\ Len(Append(q, e)) = Len(q) + 1
      /\ \A i \in 1 .. Len(q) : Append(q, e)[i] = q[i]
  BY AppendProperties
<1>2. Len(q) \in Nat
  BY LenProperties
<1>3. Len(Append(q, e)) \in Nat /\ k \in 0 .. Len(Append(q, e))
  BY <1>1, <1>2
<1>4. SubSeq(q, 1, k) \in Seq(S) /\ SubSeq(Append(q, e), 1, k) \in Seq(S)
  BY <1>1, <1>3, Halves
<1>5. \A i \in 1 .. k : q[i] \in S /\ Append(q, e)[i] \in S
  BY <1>1, <1>2, ElementOfSeq
<1>6. /\ Len(SubSeq(q, 1, k)) = IF 1 <= k THEN k - 1 + 1 ELSE 0
      /\ \A i \in 1 .. k - 1 + 1 : SubSeq(q, 1, k)[i] = q[1 + i - 1]
  BY <1>5, SubSeqProperties
<1>7. /\ Len(SubSeq(Append(q, e), 1, k)) = IF 1 <= k THEN k - 1 + 1 ELSE 0
      /\ \A i \in 1 .. k - 1 + 1 : SubSeq(Append(q, e), 1, k)[i] = Append(q, e)[1 + i - 1]
  BY <1>5, SubSeqProperties
<1>8. \A i \in 1 .. k : SubSeq(Append(q, e), 1, k)[i] = SubSeq(q, 1, k)[i]
  BY <1>1, <1>2, <1>6, <1>7
<1>9. Len(SubSeq(q, 1, k)) = k /\ Len(SubSeq(Append(q, e), 1, k)) = k
  BY <1>6, <1>7
<1> QED  BY <1>4, <1>8, <1>9, SeqEqual

\* The prefix that is one longer
LEMMA NextPrefix ==
  ASSUME NEW S, NEW q \in Seq(S), NEW k \in 0 .. Len(q) - 1
  PROVE  Append(SubSeq(q, 1, k), q[k + 1]) = SubSeq(q, 1, k + 1)
<1>1. Len(q) \in Nat
  BY LenProperties
<1>2. 1 \in 1 .. Len(q) /\ k + 1 \in 1 .. Len(q) /\ k \in 0 .. Len(q)
  BY <1>1
<1>3. SubSeq(q, 1, k + 1) = SubSeq(q, 1, (k + 1) - 1) \o <<q[k + 1]>>
  BY <1>2, SubSeqRecursiveSecond
<1>4. SubSeq(q, 1, k) \in Seq(S) /\ q[k + 1] \in S
  BY <1>2, Halves, ElementOfSeq
<1>5. Append(SubSeq(q, 1, k), q[k + 1]) = SubSeq(q, 1, k) \o <<q[k + 1]>>
  BY <1>4, AppendIsConcat
<1> QED  BY <1>3, <1>5

\* The turn is sealed, logged, sent and given to the host's own runner.
LEMMA HostSealsTurns ==
  ASSUME IInv, NEW turn \in Turns, sq'.nextTurn = sq.nextTurn + 1, sq.nextTurn < MaxTurns,
         log' = Append(log, turn), toGuest' = Tell(<<TurnMsg(sq.nextTurn, turn)>>),
         got' = [got EXCEPT ![HostSeat] = Append(@, turn)], ran' = ran
  PROVE  TurnsOK'
<1>0. /\ log \in Seq(Turns) /\ Len(log) \in Nat /\ Len(log) = sq.nextTurn
      /\ got \in [Machines -> Seq(Turns)] /\ HostSeat \in Machines
  BY Players, LenProperties DEF IInv, TurnsOK
<1>1. /\ log' \in Seq(Turns) /\ Len(log') = Len(log) + 1
      /\ \A i \in 1 .. Len(log) : log'[i] = log[i]
      /\ log'[Len(log) + 1] = turn
  BY <1>0, AppendProperties
<1>2. Len(log') = sq'.nextTurn /\ Len(log') <= MaxTurns
  BY <1>0, <1>1, Players
<1> DEFINE msg == TurnMsg(sq.nextTurn, turn)
<1>3. msg \in ToGuestMsg /\ msg.type = "Turn" /\ msg.turn = Len(log) /\ msg.commands = turn
  BY <1>0 DEF TurnMsg, ToGuestMsg
<1> HIDE DEF msg
<1> DEFINE sent == <<msg>>
<1>4. sent \in Seq(ToGuestMsg) /\ Len(sent) = 1 /\ sent[1] = msg
  BY <1>3
<1>5. toGuest' = [g \in Guests |-> IF g \in Listeners THEN toGuest[g] \o sent ELSE toGuest[g]]
  BY DEF Tell, msg
<1> HIDE DEF sent
<1>6. toGuest' \in [Guests -> Seq(ToGuestMsg)]
  <2>1. toGuest \in [Guests -> Seq(ToGuestMsg)]
    BY DEF IInv, TurnsOK
  <2>2. \A g \in Guests : toGuest[g] \o sent \in Seq(ToGuestMsg)
    <3> TAKE g \in Guests
    <3>1. toGuest[g] \in Seq(ToGuestMsg)
      BY <2>1
    <3> QED  BY <3>1, <1>4, ConcatProperties
  <2> QED  BY <2>1, <2>2, <1>5
<1>7. got' \in [Machines -> Seq(Turns)] /\ got'[HostSeat] = log'
  BY <1>0, <1>1 DEF IInv, TurnsOK
<1>8. \A m \in Machines : m # HostSeat => got'[m] = got[m]
  BY <1>0
<1>9. \A m \in Machines : ran'[m] <= Len(got'[m])
  <2> TAKE m \in Machines
  <2>1. ran[m] <= Len(got[m]) /\ ran[m] \in Nat
    BY DEF IInv, TurnsOK
  <2>2. CASE m = HostSeat
    BY <2>1, <2>2, <1>0, <1>1, <1>7 DEF IInv, TurnsOK
  <2>3. CASE m # HostSeat
    BY <2>1, <2>3, <1>8
  <2> QED  BY <2>2, <2>3
<1>10. Agreement'
  <2> SUFFICES ASSUME NEW m \in Machines
               PROVE  Len(got'[m]) <= Len(log') /\ got'[m] = SubSeq(log', 1, Len(got'[m]))
    BY DEF Agreement
  <2>1. CASE m = HostSeat
    <3>1. SubSeq(log', 1, Len(log')) = log'
      BY <1>1, SubSeqFull
    <3>2. Len(log') <= Len(log')
      BY <1>0, <1>1
    <3>3. got'[m] = log'
      BY <2>1, <1>7
    <3> QED  BY <3>1, <3>2, <3>3
  <2>2. CASE m # HostSeat
    <3>1. got'[m] = got[m] /\ Len(got[m]) <= Len(log) /\ got[m] = SubSeq(log, 1, Len(got[m]))
      BY <2>2, <1>8 DEF IInv, TurnsOK, Agreement
    <3>2. Len(got[m]) \in 0 .. Len(log)
      <4>1. got[m] \in Seq(Turns) /\ Len(got[m]) \in Nat
        BY <1>0, LenProperties
      <4>2. Len(got[m]) <= Len(log)
        BY <3>1
      <4> QED  BY <4>1, <4>2, <1>0
    <3>3. SubSeq(log', 1, Len(got[m])) = SubSeq(log, 1, Len(got[m]))
      BY <3>2, <1>0, PrefixOfAppend
    <3>4. Len(got[m]) <= Len(log')
      BY <3>2, <1>0, <1>1
    <3>5. got[m] = SubSeq(log', 1, Len(got[m]))
      BY <3>1, <3>3
    <3> QED  BY <3>1, <3>4, <3>5
  <2> QED  BY <2>1, <2>2
<1> DEFINE right(m) == m.type = "Turn" => m.turn < Len(log') /\ m.commands = log'[m.turn + 1]
<1>11. ASSUME NEW g \in Guests, NEW i \in 1 .. Len(toGuest'[g])
       PROVE  right(toGuest'[g][i])
  <2>0. toGuest[g] \in Seq(ToGuestMsg) /\ Len(toGuest[g]) \in Nat
    BY LenProperties DEF IInv, TurnsOK
  <2>1. ASSUME i <= Len(toGuest[g]), toGuest'[g][i] = toGuest[g][i]
        PROVE  right(toGuest'[g][i])
    <3> DEFINE m == toGuest[g][i]
    <3>1. i \in 1 .. Len(toGuest[g])
      BY <2>0, <2>1
    <3>2. m \in ToGuestMsg /\ RightTurn(m)
      BY <2>0, <3>1, ElementOfSeq DEF IInv, TurnsOK, RightTurnsComing
    <3> HIDE DEF m
    <3>3. m.type = "Turn" => m.turn \in Nat
      BY <3>2 DEF ToGuestMsg
    <3>4. right(m)
      BY <3>2, <3>3, <1>0, <1>1 DEF RightTurn
    <3> QED  BY <2>1, <3>4 DEF m
  <2>2. CASE g \notin Listeners
    <3>1. toGuest'[g] = toGuest[g]
      BY <2>2, <1>5
    <3> HIDE DEF right
    <3> QED  BY <3>1, <2>0, <2>1
  <2>3. CASE g \in Listeners
    <3>1. toGuest'[g] = toGuest[g] \o sent
      BY <2>3, <1>5
    <3>2. /\ Len(toGuest'[g]) = Len(toGuest[g]) + 1
          /\ \A j \in 1 .. Len(toGuest[g]) + 1 :
               toGuest'[g][j] = IF j <= Len(toGuest[g]) THEN toGuest[g][j]
                                                        ELSE sent[j - Len(toGuest[g])]
      <4>1. /\ Len(toGuest[g] \o sent) = Len(toGuest[g]) + Len(sent)
            /\ \A j \in 1 .. Len(toGuest[g]) + Len(sent) :
                 (toGuest[g] \o sent)[j] = IF j <= Len(toGuest[g]) THEN toGuest[g][j]
                                                                  ELSE sent[j - Len(toGuest[g])]
        BY <2>0, <1>4, ConcatProperties
      <4> QED  BY <4>1, <3>1, <1>4
    <3>3. CASE i <= Len(toGuest[g])
      BY <3>2, <3>3, <2>0, <2>1
    <3>4. CASE i = Len(toGuest[g]) + 1
      <4>1. toGuest'[g][i] = msg
        BY <3>2, <3>4, <2>0, <1>4
      <4>2. right(msg)
        BY <1>0, <1>1, <1>3
      <4> QED  BY <4>1, <4>2
    <3>5. i <= Len(toGuest[g]) \/ i = Len(toGuest[g]) + 1
      BY <3>2, <2>0
    <3> QED  BY <3>3, <3>4, <3>5
  <2> QED  BY <2>2, <2>3
<1>12. RightTurnsComing'
  BY <1>11 DEF RightTurnsComing, RightTurn
<1> QED  BY <1>1, <1>2, <1>6, <1>7, <1>9, <1>10, <1>12 DEF IInv, TurnsOK

\* A turn of the sealing loop
LEMMA HostSealsOK == ASSUME IInv, HostSeals PROVE IInv'
<1>1. PICK gone \in SUBSET CanFail :
        sq' = Out(Sealed(sq), gone) /\ Leaves(gone) /\ toHost' = Unread(toHost, gone)
  BY DEF HostSeals
<1>2. SequencerType(sq') /\ sq'.nextTurn = sq.nextTurn + 1
  <2>1. SequencerType(Sealed(sq)) /\ Sealed(sq).nextTurn = sq.nextTurn + 1
    BY SealedType DEF IInv, HostOK
  <2> QED  BY <1>1, <2>1, OutType
<1>3. present' \in [Guests -> BOOLEAN] /\ wire' \in [Guests -> BOOLEAN]
  BY <1>1, LeavesType DEF IInv
<1>4. toHost' \in [Guests -> Seq(ToHostMsg)]
  BY <1>1, UnreadType DEF IInv, LinksOK
<1>5. SealedTurn(sq) \in Turns
  BY DEF IInv, HostOK, SequencerType, SealedTurn
<1>6. TurnsOK'
  BY <1>2, <1>5, HostSealsTurns DEF HostSeals
<1>7. holdup' = Nobody /\ UNCHANGED <<violations, frozen, named, mode, desynced, clicked, astray>>
  BY DEF HostSeals, guestVars
<1> QED  BY <1>2, <1>3, <1>4, <1>6, <1>7 DEF IInv, HostOK, LinksOK, GuestsOK

\* run_local(), one turn
LEMMA HostRunsOK == ASSUME IInv, HostRuns PROVE IInv'
<1> DEFINE turn == ran[HostSeat]
           own == IF Seatless THEN Bots ELSE Bots \cup {HostSeat}
           needed == Lesser(turn + 1, sq.nextTurn)
           level == [sq EXCEPT !.acked = [p \in Seats |-> IF p \in own /\ needed > @[p]
                                                          THEN needed ELSE @[p]]]
           acked == IF own = {} THEN level ELSE OnAck(level, CHOOSE p \in own : TRUE, turn)
           hash == Hash(HostSeat, turn)
           reported == IF Seatless THEN OnRefereeHash(acked, turn, hash)
                                   ELSE OnHash(acked, HostSeat, turn, hash)
           players == IF Seatless THEN RefereeDesyncs(reported, turn)
                                  ELSE HashDesyncs(reported, HostSeat, turn)
<1>1. /\ ran[HostSeat] < Len(got[HostSeat]) /\ ran' = [ran EXCEPT ![HostSeat] = @ + 1]
      /\ UNCHANGED <<log, present, violations, holdup, wire, toHost, mode, desynced, got,
                     clicked, astray>>
  BY DEF HostRuns, guestVars
<1>2. IF (turn + 1) % HashEvery # 0
      THEN sq' = acked /\ UNCHANGED <<frozen, named, toGuest>>
      ELSE sq' = reported /\ Found(turn, players)
  BY Zenon DEF HostRuns
<1>3. HostSeat \in Machines /\ got[HostSeat] \in Seq(Turns) /\ turn \in Nat
      /\ SequencerType(sq) /\ sq.nextTurn \in Nat /\ Len(got[HostSeat]) \in Nat
  BY Players, LenProperties DEF IInv, HostOK, TurnsOK, SequencerType
<1>4. ran' \in [Machines -> Nat] /\ \A m \in Machines : ran'[m] <= Len(got[m])
  <2>1. turn + 1 \in ran[HostSeat] + 1 .. Len(got[HostSeat])
    BY <1>1, <1>3
  <2> QED  BY <2>1, <1>1, <1>3, RunsOK DEF IInv
<1>5. own \subseteq Seats /\ needed \in Nat /\ (~Seatless => HostSeat \in Seats)
  BY <1>3, Players DEF Seatless, Lesser
<1> HIDE DEF turn, own, needed
<1>6. SequencerType(level) /\ level.nextTurn = sq.nextTurn
  <2> DEFINE acks == [p \in Seats |-> IF p \in own /\ needed > sq.acked[p] THEN needed
                                                                        ELSE sq.acked[p]]
  <2>1. acks \in [Seats -> Nat] /\ DOMAIN sq = Fields
    BY <1>3, <1>5 DEF SequencerType
  <2>2. level = [sq EXCEPT !.acked = acks]
    BY <2>1 DEF Fields
  <2> HIDE DEF acks, level
  <2>3. SequencerType([sq EXCEPT !.acked = acks])
    BY <2>1, <1>3 DEF SequencerType, Fields
  <2>4. [sq EXCEPT !.acked = acks].nextTurn = sq.nextTurn
    BY <2>1 DEF Fields
  <2> QED  BY <2>2, <2>3, <2>4
<1> HIDE DEF level
<1>7. SequencerType(acked) /\ acked.nextTurn = sq.nextTurn
  <2>1. CASE own = {}
    BY <2>1, <1>6
  <2>2. CASE own # {}
    <3>1. (CHOOSE p \in own : TRUE) \in Seats
      BY <2>2, <1>5
    <3> QED  BY <2>2, <3>1, <1>3, <1>6, OnAckType
  <2> QED  BY <2>1, <2>2
<1> HIDE DEF acked
<1>8. SequencerType(reported) /\ reported.nextTurn = sq.nextTurn /\ players \subseteq Seats
  <2>1. CASE Seatless
    BY <2>1, <1>3, <1>7, OnRefereeHashType
  <2>2. CASE ~Seatless
    BY <2>2, <1>3, <1>5, <1>7, OnHashType
  <2> QED  BY <2>1, <2>2
<1> HIDE DEF reported, players
<1>9. /\ SequencerType(sq') /\ sq'.nextTurn = sq.nextTurn
      /\ frozen' \in BOOLEAN /\ named' \subseteq Seats /\ TurnsOK'
  <2>1. CASE (turn + 1) % HashEvery # 0
    <3>1. sq' = acked /\ UNCHANGED <<frozen, named, toGuest>>
      BY <2>1, <1>2
    <3>2. TurnsOK'
      BY <3>1, <1>1, <1>4, <1>7, TurnsKeptByRunning DEF IInv
    <3> QED  BY <3>1, <3>2, <1>7 DEF IInv, HostOK
  <2>2. CASE ~((turn + 1) % HashEvery # 0)
    <3>1. sq' = reported /\ Found(turn, players)
      BY <2>2, <1>2
    <3> QED  BY <3>1, <1>1, <1>3, <1>4, <1>8, FoundOK DEF IInv
  <2> QED  BY <2>1, <2>2
<1> QED  BY <1>1, <1>9 DEF IInv, HostOK, LinksOK, GuestsOK
------------------------------------------------------------------------------
(* The steps of a guest and of the world *)

\* A box of which a guest has read something, or a link lost something, holds right
\* turns still.
LEMMA FewerComing ==
  ASSUME TurnsOK, log' = log, NEW g \in Guests, NEW box \in Seq(ToGuestMsg),
         \A i \in 1 .. Len(box) : \E j \in 1 .. Len(toGuest[g]) : box[i] = toGuest[g][j],
         toGuest' = [toGuest EXCEPT ![g] = box]
  PROVE  toGuest' \in [Guests -> Seq(ToGuestMsg)] /\ RightTurnsComing'
<1>1. toGuest' \in [Guests -> Seq(ToGuestMsg)]
  BY DEF TurnsOK
<1>2. ASSUME NEW f \in Guests, NEW i \in 1 .. Len(toGuest'[f])
      PROVE  RightTurn(toGuest'[f][i])
  <2>1. CASE f = g
    <3>1. toGuest'[f] = box
      BY <2>1 DEF TurnsOK
    <3>2. PICK j \in 1 .. Len(toGuest[g]) : box[i] = toGuest[g][j]
      BY <3>1
    <3>3. RightTurn(toGuest[g][j])
      BY DEF TurnsOK, RightTurnsComing
    <3> QED  BY <3>1, <3>2, <3>3
  <2>2. CASE f # g
    <3>1. toGuest'[f] = toGuest[f]
      BY <2>2 DEF TurnsOK
    <3> QED  BY <3>1 DEF TurnsOK, RightTurnsComing
  <2> QED  BY <2>1, <2>2
<1>3. RightTurnsComing'
  BY <1>2 DEF RightTurnsComing, RightTurn
<1> QED  BY <1>1, <1>3

\* submit() of a guest
LEMMA GuestClicksOK == ASSUME IInv, NEW g \in Guests, GuestClicks(g) PROVE IInv'
<1>1. /\ clicked[g] < MaxCommands /\ clicked' = [clicked EXCEPT ![g] = @ + 1]
      /\ toHost' = Say(g, <<CommandMsg(clicked'[g])>>)
      /\ UNCHANGED <<sq, log, present, violations, frozen, holdup, named, wire, toGuest, mode,
                     desynced, got, ran, astray>>
  BY DEF GuestClicks, Click, hostVars, guestVars
<1>2. g \in Seats /\ clicked[g] \in 0 .. MaxCommands /\ MaxCommands \in Nat
  BY Players DEF IInv, GuestsOK
<1>3. clicked' \in [Seats -> 0 .. MaxCommands] /\ clicked'[g] \in Command
  BY <1>1, <1>2, Players DEF IInv, GuestsOK
<1>4. <<CommandMsg(clicked'[g])>> \in Seq(ToHostMsg)
  BY <1>3 DEF CommandMsg, ToHostMsg
<1>5. toHost' \in [Guests -> Seq(ToHostMsg)]
  BY <1>1, <1>4, SayType DEF IInv
<1>6. TurnsOK'
  BY <1>1, TurnsKept DEF IInv
<1> QED  BY <1>1, <1>3, <1>5, <1>6 DEF IInv, HostOK, LinksOK, GuestsOK

\* poll_host(), one message: a turn that is taken is the one after those that were taken.
LEMMA GuestHearsOK == ASSUME IInv, NEW g \in Guests, GuestHears(g) PROVE IInv'
<1> DEFINE m == Head(toGuest[g])
<1>1. /\ toGuest[g] # <<>> /\ toGuest' = [toGuest EXCEPT ![g] = Tail(toGuest[g])]
      /\ UNCHANGED <<sq, log, present, violations, frozen, holdup, named, wire, toHost, mode,
                     ran, clicked, astray>>
  BY DEF GuestHears, hostVars
<1>2. \/ m.type = "Turn" /\ got' = Take(g, m) /\ desynced' = desynced
      \/ desynced' = [desynced EXCEPT ![g] = TRUE] /\ got' = got
  BY DEF GuestHears
<1>3. /\ toGuest[g] \in Seq(ToGuestMsg) /\ log \in Seq(Turns)
      /\ got \in [Machines -> Seq(Turns)] /\ ran \in [Machines -> Nat]
      /\ g \in Machines /\ g # HostSeat
  BY Players DEF IInv, TurnsOK
<1>4. /\ Len(toGuest[g]) \in Nat \ {0} /\ m = toGuest[g][1] /\ m \in ToGuestMsg
      /\ Tail(toGuest[g]) \in Seq(ToGuestMsg)
      /\ Len(Tail(toGuest[g])) = Len(toGuest[g]) - 1
      /\ \A i \in 1 .. Len(Tail(toGuest[g])) : Tail(toGuest[g])[i] = toGuest[g][i + 1]
  BY <1>1, <1>3, EmptySeq, HeadTailProperties
<1>5. \A i \in 1 .. Len(Tail(toGuest[g])) :
        \E j \in 1 .. Len(toGuest[g]) : Tail(toGuest[g])[i] = toGuest[g][j]
  <2> TAKE i \in 1 .. Len(Tail(toGuest[g]))
  <2>1. i + 1 \in 1 .. Len(toGuest[g])
    BY <1>4
  <2> QED  BY <1>4, <2>1
<1>6. toGuest' \in [Guests -> Seq(ToGuestMsg)] /\ RightTurnsComing'
  BY <1>1, <1>4, <1>5, FewerComing DEF IInv
<1>7. RightTurn(m)
  BY <1>4 DEF IInv, TurnsOK, RightTurnsComing
<1> HIDE DEF m
<1>8. /\ got' \in [Machines -> Seq(Turns)] /\ got'[HostSeat] = log
      /\ \A n \in Machines : ran[n] <= Len(got'[n])
      /\ \A n \in Machines : Len(got'[n]) <= Len(log) /\ got'[n] = SubSeq(log, 1, Len(got'[n]))
  <2>1. CASE got' = got
    BY <2>1 DEF IInv, TurnsOK, Agreement
  <2>2. CASE m.type = "Turn" /\ m.turn = Len(got[g])
                             /\ got' = [got EXCEPT ![g] = Append(@, m.commands)]
    <3> DEFINE k == Len(got[g])
    <3>1. /\ k < Len(log) /\ m.commands = log[k + 1] /\ got[g] = SubSeq(log, 1, k)
          /\ ran[g] <= k
      BY <2>2, <1>3, <1>7 DEF IInv, TurnsOK, Agreement, RightTurn
    <3>2. k \in Nat /\ Len(log) \in Nat /\ got[g] \in Seq(Turns) /\ ran[g] \in Nat
      BY <1>3, LenProperties
    <3>3. k \in 0 .. Len(log) - 1 /\ k + 1 \in 1 .. Len(log)
      BY <3>1, <3>2
    <3>4. m.commands \in Turns
      BY <3>1, <3>3, <1>3, ElementOfSeq
    <3>5. Append(got[g], m.commands) = SubSeq(log, 1, k + 1)
      BY <3>1, <3>3, <1>3, NextPrefix
    <3>6. Append(got[g], m.commands) \in Seq(Turns) /\ Len(Append(got[g], m.commands)) = k + 1
      BY <3>2, <3>4, AppendProperties
    <3>7. got'[g] = Append(got[g], m.commands) /\ \A n \in Machines : n # g => got'[n] = got[n]
      BY <2>2, <1>3
    <3> HIDE DEF k
    <3>8. got' \in [Machines -> Seq(Turns)] /\ got'[HostSeat] = log
      BY <2>2, <3>6, <3>7, <1>3, Players DEF IInv, TurnsOK
    <3>9. ASSUME NEW n \in Machines
          PROVE  /\ ran[n] <= Len(got'[n]) /\ Len(got'[n]) <= Len(log)
                 /\ got'[n] = SubSeq(log, 1, Len(got'[n]))
      <4>1. CASE n = g
        BY <4>1, <3>1, <3>2, <3>3, <3>5, <3>6, <3>7
      <4>2. CASE n # g
        BY <4>2, <3>7 DEF IInv, TurnsOK, Agreement
      <4> QED  BY <4>1, <4>2
    <3> QED  BY <3>8, <3>9
  <2> QED  BY <2>1, <2>2, <1>2 DEF Take
<1>9. desynced' \in [Guests -> BOOLEAN]
  BY <1>2 DEF IInv, GuestsOK
<1>10. Agreement'
  BY <1>1, <1>8 DEF Agreement
<1>11. TurnsOK'
  BY <1>1, <1>6, <1>8, <1>10 DEF IInv, TurnsOK
<1> QED  BY <1>1, <1>9, <1>11 DEF IInv, HostOK, LinksOK, GuestsOK

\* The link is lost: nothing comes any more.
LEMMA GuestLostOK == ASSUME IInv, NEW g \in Guests, GuestLost(g) PROVE IInv'
<1>1. /\ mode' = [mode EXCEPT ![g] = "Lost"] /\ toGuest' = [toGuest EXCEPT ![g] = <<>>]
      /\ UNCHANGED <<sq, log, present, violations, frozen, holdup, named, wire, toHost,
                     desynced, got, ran, clicked, astray>>
  BY DEF GuestLost, hostVars
<1> DEFINE box == <<>>
<1>2. box \in Seq(ToGuestMsg) /\ \A i \in 1 .. Len(box) :
                                 \E j \in 1 .. Len(toGuest[g]) : box[i] = toGuest[g][j]
  BY EmptySeq
<1>3. toGuest' \in [Guests -> Seq(ToGuestMsg)] /\ RightTurnsComing'
  <2>1. toGuest' = [toGuest EXCEPT ![g] = box]
    BY <1>1
  <2> HIDE DEF box
  <2> QED  BY <2>1, <1>1, <1>2, FewerComing DEF IInv
<1>4. TurnsOK'
  BY <1>1, <1>3 DEF IInv, TurnsOK, Agreement
<1>5. mode' \in [Guests -> {"Normal", "Lost"}]
  BY <1>1 DEF IInv, GuestsOK
<1> QED  BY <1>1, <1>4, <1>5 DEF IInv, HostOK, LinksOK, GuestsOK

\* leave()
LEMMA GuestLeavesOK == ASSUME IInv, NEW g \in Guests, GuestLeaves(g) PROVE IInv'
<1>1. /\ toHost' = Say(g, <<LeaveMsg>>) /\ wire' = [wire EXCEPT ![g] = FALSE]
      /\ UNCHANGED <<sq, log, present, violations, frozen, holdup, named, toGuest, mode, desynced,
                     got, ran, clicked, astray>>
  BY DEF GuestLeaves, hostVars, guestVars
<1>2. <<LeaveMsg>> \in Seq(ToHostMsg)
  BY DEF ToHostMsg
<1>3. toHost' \in [Guests -> Seq(ToHostMsg)]
  BY <1>1, <1>2, SayType DEF IInv
<1>4. wire' \in [Guests -> BOOLEAN]
  BY <1>1 DEF IInv, LinksOK
<1>5. TurnsOK'
  BY <1>1, TurnsKept DEF IInv
<1> QED  BY <1>1, <1>3, <1>4, <1>5 DEF IInv, HostOK, LinksOK, GuestsOK

\* The state hashes that a guest reports of the turns it runs in one go
LEMMA ReportsType ==
  ASSUME NEW g \in Machines, NEW from \in Nat, NEW to \in Nat
  PROVE  LET before == from \div HashEvery
         IN [i \in 1 .. (to \div HashEvery) - before |->
               HashMsg((before + i) * HashEvery - 1, Hash(g, (before + i) * HashEvery - 1))]
              \in Seq([type : {"Hash"}, turn : Nat, hash : Hashes])
<1> DEFINE before == from \div HashEvery
           many == (to \div HashEvery) - before
           end(i) == (before + i) * HashEvery - 1
           reports == [i \in 1 .. many |-> HashMsg(end(i), Hash(g, end(i)))]
           S == [type : {"Hash"}, turn : Nat, hash : Hashes]
<1>1. HashEvery \in Nat /\ HashEvery >= 1
  BY Players
<1>2. before \in Nat /\ many \in Int
  <2>1. \A a, b \in Nat : b >= 1 => a \div b \in Nat
    OBVIOUS
  <2>2. before \in Nat /\ to \div HashEvery \in Nat
    BY <2>1, <1>1
  <2> QED  BY <2>2
<1>3. ASSUME NEW i \in 1 .. many
      PROVE  HashMsg(end(i), Hash(g, end(i))) \in S
  <2>1. \A a, b \in Nat : a >= 1 /\ b >= 1 => a * b - 1 \in Nat
    OBVIOUS
  <2> DEFINE a == before + i
  <2>2. a \in Nat /\ a >= 1
    BY <1>2
  <2> HIDE DEF a
  <2>3. a * HashEvery - 1 \in Nat
    BY <1>1, <2>1, <2>2
  <2>4. end(i) \in Nat
    BY <2>3 DEF a
  <2> HIDE DEF end
  <2>5. Hash(g, end(i)) \in Hashes
    BY DEF Hash, Hashes
  <2> QED  BY <2>4, <2>5 DEF HashMsg
<1> HIDE DEF S
<1>4. reports \in [1 .. many -> S]
  <2> HIDE DEF many, end
  <2> QED  BY <1>3
<1> HIDE DEF reports
<1>5. reports \in Seq(S)
  <2>1. CASE many \in Nat
    <3> HIDE DEF many
    <3> QED  BY <2>1, <1>4, FunctionIsSeq
  <2>2. CASE many \notin Nat
    <3>1. 1 .. many = 1 .. 0
      BY <1>2, <2>2
    <3>2. reports \in [1 .. 0 -> S]
      BY <3>1, <1>4
    <3> QED  BY <3>2, FunctionIsSeq
  <2> QED  BY <2>1, <2>2
<1> QED  BY <1>5 DEF reports, S

\* The runner of a guest: what it reports is well typed.
LEMMA GuestRunsOK == ASSUME IInv, NEW g \in Guests, GuestRuns(g) PROVE IInv'
<1>1. UNCHANGED <<sq, log, present, violations, frozen, holdup, named, wire, toGuest, mode,
                  desynced, got, clicked, astray>>
  BY DEF GuestRuns, hostVars, guestVars
<1>2. g \in Machines /\ ran[g] \in Nat /\ got[g] \in Seq(Turns) /\ Len(got[g]) \in Nat
  BY Players, LenProperties DEF IInv, TurnsOK
<1> DEFINE before == ran[g] \div HashEvery
           many(n) == (n \div HashEvery) - before
           end(i) == (before + i) * HashEvery - 1
           reports(n) == [i \in 1 .. many(n) |-> HashMsg(end(i), Hash(g, end(i)))]
<1>3. PICK n \in ran[g] + 1 .. Len(got[g]) :
        /\ ran' = [ran EXCEPT ![g] = n]
        /\ toHost' = IF mode[g] = "Normal" THEN Say(g, reports(n) \o <<AckMsg(n - 1)>>) ELSE toHost
  BY DEF GuestRuns
<1>4. n \in Nat /\ n - 1 \in Nat
  BY <1>2
<1>5. reports(n) \in Seq([type : {"Hash"}, turn : Nat, hash : Hashes])
  BY <1>2, <1>4, ReportsType
<1> HIDE DEF reports
<1>7. reports(n) \in Seq(ToHostMsg)
  BY <1>5, SeqMonotonic DEF ToHostMsg
<1>8. reports(n) \o <<AckMsg(n - 1)>> \in Seq(ToHostMsg)
  <2>1. <<AckMsg(n - 1)>> \in Seq(ToHostMsg)
    BY <1>4 DEF AckMsg, ToHostMsg
  <2> QED  BY <1>7, <2>1, ConcatProperties
<1>9. toHost' \in [Guests -> Seq(ToHostMsg)]
  BY <1>3, <1>8, SayType DEF IInv, LinksOK
<1>10. ran' \in [Machines -> Nat] /\ \A m \in Machines : ran'[m] <= Len(got[m])
  BY <1>2, <1>3, RunsOK DEF IInv
<1>11. TurnsOK'
  BY <1>1, <1>10, TurnsKeptByRunning DEF IInv
<1> QED  BY <1>1, <1>9, <1>11 DEF IInv, HostOK, LinksOK, GuestsOK

\* The connection breaks: what arrives is a part of what was on its way.
LEMMA BreaksOK == ASSUME IInv, NEW g \in Guests, Breaks(g) PROVE IInv'
<1>1. /\ wire' = [wire EXCEPT ![g] = FALSE]
      /\ UNCHANGED <<sq, log, present, violations, frozen, holdup, named, mode, desynced, got,
                     ran, clicked, astray>>
  BY DEF Breaks, hostVars, guestVars
<1>2. PICK i \in 0 .. Len(toHost[g]) : toHost' = [toHost EXCEPT ![g] = SubSeq(@, 1, i)]
  BY DEF Breaks
<1>3. PICK k \in 0 .. Len(toGuest[g]) : toGuest' = [toGuest EXCEPT ![g] = SubSeq(@, 1, k)]
  BY DEF Breaks
<1>4. /\ toHost[g] \in Seq(ToHostMsg) /\ toGuest[g] \in Seq(ToGuestMsg)
      /\ Len(toGuest[g]) \in Nat
  BY LenProperties DEF IInv, LinksOK, TurnsOK
<1> DEFINE box == SubSeq(toGuest[g], 1, k)
<1>5. SubSeq(toHost[g], 1, i) \in Seq(ToHostMsg) /\ box \in Seq(ToGuestMsg)
  BY <1>4, Halves
<1>6. \A j \in 1 .. Len(box) : \E n \in 1 .. Len(toGuest[g]) : box[j] = toGuest[g][n]
  <2>1. \A j \in 1 .. k : j \in 1 .. Len(toGuest[g]) /\ toGuest[g][j] \in ToGuestMsg
    BY <1>4, ElementOfSeq
  <2>2. 1 \in Int /\ k \in Int
    BY <1>4
  <2>3. /\ Len(box) = IF 1 <= k THEN k - 1 + 1 ELSE 0
        /\ \A j \in 1 .. k - 1 + 1 : box[j] = toGuest[g][1 + j - 1]
    BY <2>1, <2>2, SubSeqProperties
  <2> HIDE DEF box
  <2>4. \A j \in 1 .. Len(box) : j \in 1 .. k /\ box[j] = toGuest[g][j]
    BY <2>2, <2>3
  <2> QED  BY <2>1, <2>4
<1> HIDE DEF box
<1>7. toGuest' \in [Guests -> Seq(ToGuestMsg)] /\ RightTurnsComing'
  <2>1. toGuest' = [toGuest EXCEPT ![g] = box]
    BY <1>3 DEF box
  <2> QED  BY <2>1, <1>1, <1>5, <1>6, FewerComing DEF IInv
<1>8. wire' \in [Guests -> BOOLEAN] /\ toHost' \in [Guests -> Seq(ToHostMsg)]
  BY <1>1, <1>2, <1>5 DEF IInv, LinksOK
<1>9. TurnsOK'
  BY <1>1, <1>7 DEF IInv, TurnsOK, Agreement
<1> QED  BY <1>1, <1>8, <1>9 DEF IInv, HostOK, LinksOK, GuestsOK

\* A game goes astray at a turn of the match.
LEMMA GoesAstrayOK == ASSUME IInv, NEW m \in Machines, GoesAstray(m) PROVE IInv'
<1>1. /\ astray' = [astray EXCEPT ![m] = ran[m]]
      /\ UNCHANGED <<sq, log, present, violations, frozen, holdup, named, wire, toHost, toGuest,
                     mode, desynced, got, ran, clicked>>
  BY DEF GoesAstray, hostVars, linkVars, guestVars
<1>2. /\ ran[m] \in Nat /\ ran[m] <= Len(got[m]) /\ Len(got[m]) <= Len(log)
      /\ Len(log) <= MaxTurns
  BY DEF IInv, TurnsOK, Agreement
<1>3. Len(got[m]) \in Nat /\ Len(log) \in Nat /\ MaxTurns \in Nat
  BY LenProperties, Players DEF IInv, TurnsOK
<1>4. ran[m] \in 0 .. Never
  BY <1>2, <1>3 DEF Never
<1>5. astray' \in [Machines -> 0 .. Never]
  BY <1>1, <1>4 DEF IInv, GuestsOK
<1>6. TurnsOK'
  BY <1>1, TurnsKept DEF IInv
<1> QED  BY <1>1, <1>5, <1>6 DEF IInv, HostOK, LinksOK, GuestsOK
------------------------------------------------------------------------------
(* The theorems *)

\* start(): nothing is sealed, nothing is on its way, nothing was run.
LEMMA InitIInv == Init => IInv
<1> SUFFICES ASSUME Init PROVE IInv
  OBVIOUS
<1>1. HostOK
  <2>1. /\ [p \in Seats |-> <<>>] \in Turns /\ [p \in Seats |-> <<>>] \in [Seats -> Seq(Command)]
        /\ DOMAIN <<>> = {}
    BY EmptySeq DEF Turns
  <2>2. SequencerType(sq)
    BY <2>1 DEF Init, NewSequencer, NoCommands, SequencerType, Fields
  <2> QED  BY <2>2 DEF Init, HostOK
<1>2. LinksOK
  BY EmptySeq DEF Init, LinksOK
<1>3. GuestsOK
  BY Players DEF Init, GuestsOK, Never
<1>4. TurnsOK
  <2>1. SubSeq(<<>>, 1, 0) = <<>>
    BY SubSeqEmpty
  <2>2. sq.nextTurn = 0
    BY DEF Init, NewSequencer
  <2>3. Agreement /\ RightTurnsComing
    BY <2>1, EmptySeq DEF Init, Agreement, RightTurnsComing
  <2> QED  BY <2>2, <2>3, EmptySeq, Players DEF Init, TurnsOK
<1> QED  BY <1>1, <1>2, <1>3, <1>4 DEF IInv

\* Every step of the match keeps the invariant.
LEMMA NextIInv == IInv /\ [Next]_vars => IInv'
<1> SUFFICES ASSUME IInv, [Next]_vars PROVE IInv'
  OBVIOUS
<1>1. CASE UNCHANGED vars
  BY <1>1 DEF vars, hostVars, linkVars, guestVars, IInv, HostOK, LinksOK, GuestsOK, TurnsOK,
              Agreement, RightTurnsComing, RightTurn
<1>2. CASE HostSeals
  BY <1>2, HostSealsOK
<1>3. CASE HostWaits
  BY <1>3, HostWaitsOK
<1>4. CASE HostRuns
  BY <1>4, HostRunsOK
<1>5. ASSUME NEW p \in Seats, HostClicks(p) PROVE IInv'
  BY <1>5, HostClicksOK
<1>6. ASSUME NEW g \in Guests, HostHears(g) PROVE IInv'
  BY <1>6, HostHearsOK
<1>7. ASSUME NEW g \in Guests,
             HostFindsClosed(g) \/ HostSendFails(g) \/ HostSilence(g) \/ HostPolice(g)
      PROVE  IInv'
  BY <1>7, LosesGuestOK DEF HostFindsClosed, HostSendFails, HostSilence, HostPolice
<1>8. ASSUME NEW g \in Guests, GuestStep(g) PROVE IInv'
  <2>1. CASE GuestFindsClosed(g) \/ GuestSilence(g)
    BY <2>1, GuestLostOK DEF GuestFindsClosed, GuestSilence
  <2> QED  BY <1>8, <2>1, GuestClicksOK, GuestHearsOK, GuestRunsOK, GuestLeavesOK DEF GuestStep
<1>9. ASSUME NEW g \in Guests, Breaks(g) PROVE IInv'
  BY <1>9, BreaksOK
<1>10. ASSUME NEW m \in Machines, GoesAstray(m) PROVE IInv'
  BY <1>10, GoesAstrayOK
<1> QED  BY <1>1, <1>2, <1>3, <1>4, <1>5, <1>6, <1>7, <1>8, <1>9, <1>10 DEF Next, HostStep

\* The invariant holds in every reachable state of a match.
THEOREM Inductive == Spec => []IInv
BY InitIInv, NextIInv, PTL DEF Spec

\* All variables of a match are always well typed, and no runner has executed a turn that
\* it was not given.
THEOREM TypeCorrect == Spec => []TypeOK
<1>1. IInv => TypeOK
  BY DEF IInv, HostOK, LinksOK, GuestsOK, TurnsOK, TypeOK
<1> QED  BY <1>1, Inductive, PTL

\* Every machine has been given the turns of one history, from the first on (Agreement),
\* for any number of guests and bots and whatever breaks, lags, leaves or goes astray.
THEOREM MachinesAgree == Spec => []Agreement
<1>1. IInv => Agreement
  BY DEF IInv, TurnsOK
<1> QED  BY <1>1, Inductive, PTL
------------------------------------------------------------------------------
(* One history: the match implements MatchHistory *)

Played == [m \in Machines |-> SubSeq(got[m], 1, ran[m])]

\* A prefix of a prefix
LEMMA PrefixOfPrefix ==
  ASSUME NEW S, NEW q \in Seq(S), NEW k \in 1 .. Len(q), NEW n \in 1 .. k
  PROVE  SubSeq(SubSeq(q, 1, k), 1, n) = SubSeq(q, 1, n)
<1>1. Len(q) \in Nat
  BY LenProperties
<1>2. /\ 1 \in 1 .. Len(q) /\ k \in 1 .. Len(q)
      /\ 1 \in 1 .. k - 1 + 1 /\ n \in 1 .. k - 1 + 1
  BY <1>1
<1>3. SubSeq(SubSeq(q, 1, k), 1, n) = SubSeq(q, 1 + 1 - 1, 1 + n - 1)
  BY <1>2, SubSeqOfSubSeq
<1>4. 1 + 1 - 1 = 1 /\ 1 + n - 1 = n
  BY <1>1
<1> QED  BY <1>3, <1>4

\* What the runners were given and have executed
LEMMA RunOfGot ==
  ASSUME IInv, NEW m \in Machines
  PROVE  /\ got[m] \in Seq(Turns) /\ Len(got[m]) \in Nat /\ ran[m] \in 0 .. Len(got[m])
         /\ got[m] = SubSeq(log, 1, Len(got[m])) /\ Len(got[m]) <= Len(log)
         /\ log \in Seq(Turns) /\ Len(log) \in Nat
         /\ Len(Played[m]) = ran[m]
<1>1. /\ got[m] \in Seq(Turns) /\ log \in Seq(Turns) /\ ran[m] \in Nat /\ ran[m] <= Len(got[m])
      /\ got[m] = SubSeq(log, 1, Len(got[m])) /\ Len(got[m]) <= Len(log)
  BY DEF IInv, TurnsOK, Agreement
<1>2. Len(got[m]) \in Nat /\ Len(log) \in Nat /\ ran[m] \in Int /\ 1 \in Int
  BY <1>1, LenProperties
<1>3. \A i \in 1 .. ran[m] : got[m][i] \in Turns
  <2> TAKE i \in 1 .. ran[m]
  <2>1. i \in 1 .. Len(got[m])
    BY <1>1, <1>2
  <2> QED  BY <1>1, <2>1, ElementOfSeq
<1>4. Len(SubSeq(got[m], 1, ran[m])) = IF 1 <= ran[m] THEN ran[m] - 1 + 1 ELSE 0
  BY <1>2, <1>3, SubSeqProperties
<1>5. Len(Played[m]) = ran[m]
  BY <1>1, <1>4 DEF Played
<1> QED  BY <1>1, <1>2, <1>5

\* Taking a turn changes nothing of what was executed.
LEMMA PlayedKept ==
  ASSUME IInv, NEW m \in Machines, NEW turn \in Turns,
         got' = [got EXCEPT ![m] = Append(@, turn)], ran' = ran
  PROVE  Played' = Played
<1>1. \A k \in Machines : SubSeq(got'[k], 1, ran[k]) = SubSeq(got[k], 1, ran[k])
  <2> TAKE k \in Machines
  <2>1. CASE k = m
    <3>1. got'[m] = Append(got[m], turn)
      BY DEF IInv, TurnsOK
    <3>2. got[m] \in Seq(Turns) /\ ran[m] \in 0 .. Len(got[m])
      BY RunOfGot
    <3>3. SubSeq(Append(got[m], turn), 1, ran[m]) = SubSeq(got[m], 1, ran[m])
      BY <3>2, PrefixOfAppend
    <3> QED  BY <2>1, <3>1, <3>3
  <2>2. CASE k # m
    <3>1. got'[k] = got[k]
      BY <2>2 DEF IInv, TurnsOK
    <3> QED  BY <3>1
  <2> QED  BY <2>1, <2>2
<1> QED  BY <1>1 DEF Played

\* A sealed turn is the next one of the history.
LEMMA SealsHistory == ASSUME IInv, HostSeals PROVE History!Seal
<1> DEFINE turn == SealedTurn(sq)
<1>1. /\ log' = Append(log, turn) /\ ran' = ran
      /\ got' = [got EXCEPT ![HostSeat] = Append(@, turn)]
  BY DEF HostSeals
<1>2. turn \in Turns
  BY DEF IInv, HostOK, SequencerType, SealedTurn
<1> HIDE DEF turn
<1>3. Played' = Played
  BY <1>1, <1>2, Players, PlayedKept
<1>4. log \in Seq(Turns) /\ Len(log) \in Nat
  BY Players, RunOfGot
<1>5. Len(log') = Len(log) + 1
  BY <1>1, <1>2, <1>4, AppendProperties
<1>6. SubSeq(log', 1, Len(log)) = log
  <2>1. Len(log) \in 0 .. Len(log)
    BY <1>4
  <2>2. SubSeq(Append(log, turn), 1, Len(log)) = SubSeq(log, 1, Len(log))
    BY <1>2, <1>4, <2>1, PrefixOfAppend
  <2> QED  BY <1>1, <1>4, <2>2, SubSeqFull
<1> QED  BY <1>3, <1>5, <1>6 DEF History!Seal, Played

\* Turns that are executed are the next ones of the history.
LEMMA RunsHistory ==
  ASSUME IInv, NEW m \in Machines, NEW n \in ran[m] + 1 .. Len(got[m]),
         ran' = [ran EXCEPT ![m] = n], UNCHANGED <<log, got>>
  PROVE  History!Play(m)
<1>1. /\ got[m] \in Seq(Turns) /\ Len(got[m]) \in Nat /\ ran[m] \in 0 .. Len(got[m])
      /\ got[m] = SubSeq(log, 1, Len(got[m])) /\ Len(got[m]) <= Len(log)
      /\ log \in Seq(Turns) /\ Len(log) \in Nat
      /\ Len(Played[m]) = ran[m]
  BY RunOfGot
<1>2. n \in Len(Played[m]) + 1 .. Len(log) /\ n \in 1 .. Len(got[m])
      /\ Len(got[m]) \in 1 .. Len(log)
  BY <1>1
<1>3. SubSeq(got[m], 1, n) = SubSeq(log, 1, n)
  BY <1>1, <1>2, PrefixOfPrefix
<1>4. Played' = [Played EXCEPT ![m] = SubSeq(log, 1, n)]
  BY <1>3 DEF Played, IInv, TurnsOK
<1> QED  BY <1>2, <1>4 DEF History!Play, Played

\* A step of the match is a step of the history or changes nothing of it.
LEMMA NextHistory == IInv /\ [Next]_vars => [History!Next]_(History!vars)
<1> SUFFICES ASSUME IInv, [Next]_vars PROVE [History!Next]_(History!vars)
  OBVIOUS
<1>1. ASSUME UNCHANGED <<log, got, ran>> PROVE [History!Next]_(History!vars)
  BY <1>1 DEF History!vars
<1>2. CASE UNCHANGED vars
  BY <1>1, <1>2 DEF vars, hostVars
<1>3. CASE HostSeals
  BY <1>3, SealsHistory DEF History!Next
<1>4. CASE HostWaits
  BY <1>1, <1>4 DEF HostWaits
<1>5. CASE HostRuns
  <2>1. /\ ran[HostSeat] < Len(got[HostSeat]) /\ ran' = [ran EXCEPT ![HostSeat] = @ + 1]
        /\ UNCHANGED <<log, got>>
    BY <1>5 DEF HostRuns
  <2>2. HostSeat \in Machines /\ Len(got[HostSeat]) \in Nat /\ ran[HostSeat] \in Nat
    BY Players, RunOfGot
  <2>3. ran[HostSeat] + 1 \in ran[HostSeat] + 1 .. Len(got[HostSeat])
    BY <2>1, <2>2
  <2> QED  BY <2>1, <2>2, <2>3, RunsHistory DEF History!Next
<1>6. ASSUME NEW p \in Seats, HostClicks(p) PROVE [History!Next]_(History!vars)
  BY <1>1, <1>6 DEF HostClicks
<1>7. ASSUME NEW g \in Guests, HostHears(g) PROVE [History!Next]_(History!vars)
  BY <1>1, <1>7 DEF HostHears
<1>8. ASSUME NEW g \in Guests,
             HostFindsClosed(g) \/ HostSendFails(g) \/ HostSilence(g) \/ HostPolice(g)
      PROVE  [History!Next]_(History!vars)
  BY <1>1, <1>8 DEF HostFindsClosed, HostSendFails, HostSilence, HostPolice, LosesGuest
<1>9. ASSUME NEW g \in Guests, GuestStep(g) PROVE [History!Next]_(History!vars)
  <2>1. CASE GuestClicks(g) \/ GuestFindsClosed(g) \/ GuestSilence(g) \/ GuestLeaves(g)
    BY <1>1, <2>1
       DEF GuestClicks, GuestFindsClosed, GuestSilence, GuestLost, GuestLeaves, hostVars
  <2>2. CASE GuestHears(g)
    <3> DEFINE m == Head(toGuest[g])
    <3>1. /\ (m.type = "Turn" /\ got' = Take(g, m)) \/ got' = got
          /\ ran' = ran /\ log' = log /\ toGuest[g] # <<>>
      BY <2>2 DEF GuestHears, hostVars
    <3>2. m \in ToGuestMsg /\ g \in Machines
      BY <3>1, Players, HeadTailProperties DEF IInv, TurnsOK
    <3> HIDE DEF m
    <3>3. CASE got' = got
      BY <1>1, <3>1, <3>3
    <3>4. CASE m.type = "Turn" /\ got' = [got EXCEPT ![g] = Append(@, m.commands)]
      <4>1. m.commands \in Turns
        BY <3>2, <3>4 DEF ToGuestMsg
      <4>2. Played' = Played
        BY <3>1, <3>2, <3>4, <4>1, PlayedKept
      <4> QED  BY <3>1, <4>2 DEF History!vars, Played
    <3> QED  BY <3>1, <3>3, <3>4 DEF Take
  <2>3. CASE GuestRuns(g)
    <3>1. UNCHANGED <<log, got>>
      BY <2>3 DEF GuestRuns, hostVars
    <3>2. PICK n \in ran[g] + 1 .. Len(got[g]) : ran' = [ran EXCEPT ![g] = n]
      BY <2>3 DEF GuestRuns
    <3>3. g \in Machines
      BY Players
    <3> QED  BY <3>1, <3>2, <3>3, RunsHistory DEF History!Next
  <2> QED  BY <1>9, <2>1, <2>2, <2>3 DEF GuestStep
<1>10. ASSUME NEW g \in Guests, Breaks(g) PROVE [History!Next]_(History!vars)
  BY <1>1, <1>10 DEF Breaks, hostVars
<1>11. ASSUME NEW m \in Machines, GoesAstray(m) PROVE [History!Next]_(History!vars)
  BY <1>1, <1>11 DEF GoesAstray, hostVars
<1> QED
  BY <1>2, <1>3, <1>4, <1>5, <1>6, <1>7, <1>8, <1>9, <1>10, <1>11 DEF Next, HostStep

\* The match implements the history that MatchHistory promises (PlaysOneHistory): what is
\* sealed is never changed, and every machine plays it from the first turn on.
THEOREM OneHistory == Spec => PlaysOneHistory
<1>1. Init => History!Init
  <2>1. SubSeq(<<>>, 1, 0) = <<>>
    BY SubSeqEmpty
  <2> QED  BY <2>1 DEF Init, History!Init
<1> QED  BY <1>1, Inductive, NextHistory, PTL DEF Spec, PlaysOneHistory, History!Spec
------------------------------------------------------------------------------
(* Nobody is left behind: the host knows of its guests what their acknowledgements  *)
(* say, and nowhere from the runner to the sequencer do they say more than was run. *)


\* Whoever is in the match is waited for.
Awaited ==
  /\ \A g \in Guests : present[g] => sq.active[g]
  /\ ~Seatless => sq.active[HostSeat]

\* The sequencer takes nobody to be further than he is.
AcksAreRun == \A m \in Machines \cap Seats : sq.acked[m] <= ran[m]

\* Neither does an acknowledgement that is on its way.
TrueAck(g, m) == m.type = "TurnAck" => m.turn < ran[g]
TrueAcks(box) == \A g \in Guests : \A i \in 1 .. Len(box[g]) : TrueAck(g, box[g][i])

\* Nobody who is waited for is further behind than that.
LagBound ==
  ~Seatless => \A p \in Seats : sq.active[p] => sq.nextTurn - sq.acked[p] <= MaxLag + 1

LagInv == Awaited /\ AcksAreRun /\ TrueAcks(toHost) /\ LagBound
------------------------------------------------------------------------------
(* What the methods of the sequencer do to those it waits for *)

\* Dropping seats: nobody else goes, and nothing is acknowledged.
LEMMA OutKeeps ==
  ASSUME NEW s, SequencerType(s), NEW gone
  PROVE  /\ Out(s, gone).acked = s.acked
         /\ \A p \in Seats : Out(s, gone).active[p] <=> s.active[p] /\ p \notin gone
<1> DEFINE active == [p \in Seats |-> s.active[p] /\ p \notin gone]
           carry == [p \in Seats |-> IF p \in gone THEN <<>> ELSE s.carry[p]]
           queue == [p \in Seats |-> IF p \in gone THEN Append(s.queue[p], Drop) ELSE s.queue[p]]
<1>1. Out(s, gone) = [s EXCEPT !.active = active, !.carry = carry, !.queue = queue]
  BY Zenon DEF Out
<1>2. \A p \in Seats : active[p] <=> s.active[p] /\ p \notin gone
  OBVIOUS
<1> HIDE DEF active, carry, queue
<1>3. Out(s, gone).acked = s.acked /\ Out(s, gone).active = active
  BY <1>1 DEF SequencerType, Fields
<1> QED  BY <1>2, <1>3

\* A command acknowledges nothing.
LEMMA SubmittedKeeps ==
  ASSUME NEW s, SequencerType(s), NEW p \in Seats, NEW c \in Command
  PROVE  Submitted(s, p, c).acked = s.acked /\ Submitted(s, p, c).active = s.active
BY DEF Submitted, SequencerType, Fields

\* An acknowledgement of the turn moves the one who gives it, as far as it says at most.
LEMMA OnAckMoves ==
  ASSUME NEW s, SequencerType(s), NEW p \in Seats, NEW turn \in Nat
  PROVE  LET t == OnAck(s, p, turn)
         IN /\ t.active = s.active
            /\ \A q \in Seats : /\ s.acked[q] <= t.acked[q]
                                /\ q # p => t.acked[q] = s.acked[q]
            /\ t.acked[p] = s.acked[p] \/ t.acked[p] <= turn + 1
<1> DEFINE needed == Lesser(turn + 1, s.nextTurn)
           a == IF needed > s.acked[p] THEN [s EXCEPT !.acked[p] = needed] ELSE s
           reports == Kept(a.reports, {k \in DOMAIN a.reports : k[1] + 1 >= Low(a)})
           referee == Kept(a.referee, {k \in DOMAIN a.referee : k + 1 >= Low(a)})
           t == OnAck(s, p, turn)
<1>1. needed \in Nat /\ needed <= turn + 1
  BY DEF SequencerType, Lesser
<1> HIDE DEF needed
<1>2. /\ DOMAIN a = Fields /\ a.active = s.active
      /\ \A q \in Seats : s.acked[q] <= a.acked[q] /\ (q # p => a.acked[q] = s.acked[q])
      /\ a.acked[p] = s.acked[p] \/ a.acked[p] = needed
  <2>1. DOMAIN s = Fields /\ s.acked \in [Seats -> Nat]
    BY DEF SequencerType
  <2>2. CASE needed > s.acked[p]
    <3> DEFINE acked == [s.acked EXCEPT ![p] = needed]
    <3>1. a = [s EXCEPT !.acked = acked]
      BY <2>1, <2>2 DEF Fields
    <3>2. /\ acked[p] = needed
          /\ \A q \in Seats : s.acked[q] <= acked[q] /\ (q # p => acked[q] = s.acked[q])
      BY <2>1, <2>2, <1>1
    <3> HIDE DEF acked, a
    <3>3. DOMAIN a = Fields /\ a.active = s.active /\ a.acked = acked
      BY <3>1, <2>1 DEF Fields
    <3> QED  BY <3>2, <3>3
  <2>3. CASE ~(needed > s.acked[p])
    BY <2>1, <2>3
  <2> QED  BY <2>2, <2>3
<1>3. t = [a EXCEPT !.reports = reports, !.referee = referee]
  BY Zenon DEF OnAck, needed
<1> HIDE DEF a, reports, referee, t
<1>4. t.acked = a.acked /\ t.active = a.active
  BY <1>2, <1>3 DEF Fields
<1> QED  BY <1>1, <1>2, <1>4 DEF t

\* A client's hash report acknowledges nothing.
LEMMA HashesKeep ==
  ASSUME NEW s, SequencerType(s), NEW p \in Seats, NEW turn \in Nat, NEW hash
  PROVE  OnHash(s, p, turn, hash).acked = s.acked /\ OnHash(s, p, turn, hash).active = s.active
<1> DEFINE reports == With(s.reports, <<turn, p>>, hash)
<1>1. DOMAIN s = Fields
  BY DEF SequencerType
<1>2. OnHash(s, p, turn, hash) = IF TakesReport(s, p, turn) THEN [s EXCEPT !.reports = reports] ELSE s
  BY Zenon DEF OnHash
<1> HIDE DEF reports
<1> QED  BY <1>1, <1>2 DEF Fields

\* Neither does the referee's.
LEMMA HashesKeepReferee ==
  ASSUME NEW s, SequencerType(s), NEW turn \in Nat, NEW hash
  PROVE  /\ OnRefereeHash(s, turn, hash).acked = s.acked
         /\ OnRefereeHash(s, turn, hash).active = s.active
<1> DEFINE referee == With(s.referee, turn, hash)
<1>1. DOMAIN s = Fields
  BY DEF SequencerType
<1>2. OnRefereeHash(s, turn, hash) = IF TakesReferee(s, turn) THEN [s EXCEPT !.referee = referee] ELSE s
  BY Zenon DEF OnRefereeHash
<1> HIDE DEF referee
<1> QED  BY <1>1, <1>2 DEF Fields

\* Neither does seal().
LEMMA SealedKeeps ==
  ASSUME NEW s, SequencerType(s)
  PROVE  Sealed(s).acked = s.acked /\ Sealed(s).active = s.active
<1> DEFINE queue == [p \in Seats |-> SubSeq(s.carry[p], 1, Share(s, p))]
           carry == [p \in Seats |-> SubSeq(s.carry[p], Share(s, p) + 1, Len(s.carry[p]))]
           queuedBy == [p \in Seats |-> Share(s, p)]
           nextTurn == s.nextTurn + 1
<1>1. Sealed(s) = [s EXCEPT !.nextTurn = nextTurn, !.queue = queue, !.queuedBy = queuedBy,
                            !.carry = carry]
  BY Zenon DEF Sealed
<1> HIDE DEF queue, carry, queuedBy, nextTurn
<1> QED  BY <1>1 DEF SequencerType, Fields
------------------------------------------------------------------------------
(* What several actions do *)

\* Sequence numbers, and a host that is a player is one of the seats.
LEMMA Numbers ==
  ASSUME IInv
  PROVE  /\ SequencerType(sq) /\ MaxLag \in Nat /\ HostSeat \notin Guests
         /\ sq.acked \in [Seats -> Nat] /\ sq.nextTurn \in Nat
         /\ ran \in [Machines -> Nat] /\ Guests \subseteq Seats /\ Guests \subseteq Machines
         /\ HostSeat \in Machines /\ (~Seatless => HostSeat \in Seats)
BY SequencerAssumption, Players DEF IInv, HostOK, TurnsOK, SequencerType, Seatless

\* What is read no more holds no false acknowledgement.
LEMMA UnreadTrue ==
  ASSUME NEW box \in [Guests -> Seq(ToHostMsg)], NEW gone, TrueAcks(box)
  PROVE  TrueAcks(Unread(box, gone))
<1>1. Len(<<>>) = 0
  BY EmptySeq
<1> QED  BY <1>1 DEF TrueAcks, Unread

\* A step that acknowledges nothing and drops only guests that leave
LEMMA LagKept ==
  ASSUME IInv, LagInv, sq'.nextTurn = sq.nextTurn, sq'.acked = sq.acked, ran' = ran,
         NEW gone \in SUBSET Guests,
         \A p \in Seats : sq'.active[p] <=> sq.active[p] /\ p \notin gone,
         \A g \in Guests : present'[g] <=> present[g] /\ g \notin gone,
         TrueAcks(toHost)'
  PROVE  LagInv'
<1>1. Awaited'
  BY Numbers DEF LagInv, Awaited
<1>2. AcksAreRun'
  BY DEF LagInv, AcksAreRun
<1>3. LagBound'
  BY DEF LagInv, LagBound
<1> QED  BY <1>1, <1>2, <1>3 DEF LagInv

\* drop() of seats of guests
LEMMA OutLag ==
  ASSUME IInv, LagInv, ran' = ran, NEW gone \in SUBSET Guests, sq' = Out(sq, gone), Leaves(gone),
         TrueAcks(toHost)'
  PROVE  LagInv'
<1>1. SequencerType(sq) /\ present \in [Guests -> BOOLEAN]
  BY DEF IInv, HostOK
<1>2. /\ sq'.nextTurn = sq.nextTurn /\ sq'.acked = sq.acked
      /\ \A p \in Seats : sq'.active[p] <=> sq.active[p] /\ p \notin gone
  BY <1>1, OutType, OutKeeps
<1>3. \A g \in Guests : present'[g] <=> present[g] /\ g \notin gone
  BY DEF Leaves
<1> QED  BY <1>2, <1>3, LagKept

\* A step that leaves the sequencer, the guests and the links to the host alone
LEMMA NoLag ==
  ASSUME IInv, LagInv, UNCHANGED <<sq, present, ran>>, TrueAcks(toHost)'
  PROVE  LagInv'
BY DEF LagInv, Awaited, AcksAreRun, LagBound

\* drop() of a guest
LEMMA DropGuestLag ==
  ASSUME IInv, LagInv, ran' = ran, NEW g \in Guests, DropGuest(g)
  PROVE  LagInv'
<1>1. sq' = Out(sq, {g}) /\ Leaves({g}) /\ toHost' = Unread(toHost, {g})
  BY DEF DropGuest
<1>2. TrueAcks(Unread(toHost, {g}))
  BY UnreadTrue DEF IInv, LinksOK, LagInv
<1>3. TrueAcks(toHost)'
  BY <1>1, <1>2 DEF TrueAcks, TrueAck
<1> QED  BY <1>1, <1>3, OutLag

\* What a guest says goes behind what it said.
LEMMA SayLag ==
  ASSUME IInv, LagInv, NEW g \in Guests, NEW msgs \in Seq(ToHostMsg), toHost' = Say(g, msgs),
         \A i \in 1 .. Len(msgs) : msgs[i].type = "TurnAck" => msgs[i].turn < ran'[g],
         ran' \in [Machines -> Nat], \A h \in Guests : ran[h] <= ran'[h]
  PROVE  TrueAcks(toHost)'
<1> SUFFICES ASSUME NEW h \in Guests, NEW i \in 1 .. Len(toHost'[h]),
                    toHost'[h][i].type = "TurnAck"
             PROVE  toHost'[h][i].turn < ran'[h]
  BY DEF TrueAcks, TrueAck
<1>1. toHost[h] \in Seq(ToHostMsg) /\ Len(toHost[h]) \in Nat /\ Len(msgs) \in Nat
      /\ ran[h] \in Nat /\ ran'[h] \in Nat
  BY Numbers, LenProperties DEF IInv, LinksOK
<1>2. ASSUME i <= Len(toHost[h]), toHost'[h][i] = toHost[h][i]
      PROVE  toHost'[h][i].turn < ran'[h]
  <2> DEFINE m == toHost[h][i]
  <2>1. i \in 1 .. Len(toHost[h])
    BY <1>1, <1>2
  <2>2. m \in ToHostMsg /\ m.type = "TurnAck" /\ m.turn < ran[h]
    BY <1>1, <1>2, <2>1, ElementOfSeq DEF LagInv, TrueAcks, TrueAck
  <2> HIDE DEF m
  <2>3. m.turn \in Nat
    BY <2>2 DEF ToHostMsg, LeaveMsg
  <2>4. m.turn < ran'[h]
    BY <2>2, <2>3, <1>1
  <2> QED  BY <1>2, <2>4 DEF m
<1>3. CASE toHost'[h] = toHost[h]
  BY <1>1, <1>2, <1>3
<1>4. CASE h = g /\ toHost'[h] = toHost[h] \o msgs
  <2>1. /\ Len(toHost'[h]) = Len(toHost[h]) + Len(msgs)
        /\ \A j \in 1 .. Len(toHost[h]) + Len(msgs) :
             toHost'[h][j] = IF j <= Len(toHost[h]) THEN toHost[h][j] ELSE msgs[j - Len(toHost[h])]
    BY <1>1, <1>4, ConcatProperties
  <2>2. CASE i <= Len(toHost[h])
    <3>1. toHost'[h][i] = toHost[h][i]
      BY <2>1, <2>2
    <3> QED  BY <1>2, <2>2, <3>1
  <2>3. CASE ~(i <= Len(toHost[h]))
    <3>1. i - Len(toHost[h]) \in 1 .. Len(msgs)
      BY <1>1, <2>1, <2>3
    <3>2. toHost'[h][i] = msgs[i - Len(toHost[h])]
      BY <2>1, <2>3
    <3> QED  BY <1>4, <3>1, <3>2
  <2> QED  BY <2>2, <2>3
<1>5. toHost'[h] = toHost[h] \/ (h = g /\ toHost'[h] = toHost[h] \o msgs)
  BY DEF Say, IInv, LinksOK
<1> QED  BY <1>3, <1>4, <1>5
------------------------------------------------------------------------------
(* The steps *)

\* violation() of a guest
LEMMA ViolationLag ==
  ASSUME IInv, LagInv, ran' = ran, NEW g \in Guests,
         NEW inbox \in [Guests -> Seq(ToHostMsg)], TrueAcks(inbox), Violation(g, inbox)
  PROVE  LagInv'
<1>1. CASE violations[g] + 1 >= ViolationLimit
  <2>1. sq' = Out(sq, {g}) /\ Leaves({g}) /\ toHost' = Unread(inbox, {g})
    BY <1>1 DEF Violation
  <2>2. TrueAcks(Unread(inbox, {g}))
    BY UnreadTrue
  <2>3. TrueAcks(toHost)'
    BY <2>1, <2>2 DEF TrueAcks, TrueAck
  <2> QED  BY <2>1, <2>3, OutLag
<1>2. CASE ~(violations[g] + 1 >= ViolationLimit)
  <2>1. toHost' = inbox /\ UNCHANGED <<sq, present, wire>>
    BY <1>2 DEF Violation
  <2>2. TrueAcks(toHost)'
    BY <2>1 DEF TrueAcks, TrueAck
  <2> QED  BY <2>1, <2>2, NoLag
<1> QED  BY <1>1, <1>2

\* poll_clients(), one message: an acknowledgement says what the guest has run.
LEMMA HostHearsLag == ASSUME IInv, LagInv, NEW g \in Guests, HostHears(g) PROVE LagInv'
<1> DEFINE m == Head(toHost[g])
           inbox == [toHost EXCEPT ![g] = Tail(@)]
<1>1. m \in ToHostMsg /\ inbox \in [Guests -> Seq(ToHostMsg)] /\ toHost[g] # <<>>
  BY InboxOK DEF IInv, HostHears
<1>2. ran' = ran
  BY DEF HostHears
<1>3. \/ m.type = "Command" /\ HostCommand(g, m.command, inbox)
      \/ m.type = "TurnAck" /\ HostAck(g, m.turn, inbox)
      \/ m.type = "Hash" /\ HostHash(g, m.turn, m.hash, inbox)
      \/ m.type = "Leave" /\ HostLeave(g)
  BY Zenon DEF HostHears
<1>4. /\ toHost \in [Guests -> Seq(ToHostMsg)] /\ Len(toHost[g]) \in Nat \ {0} /\ m = toHost[g][1]
      /\ Len(Tail(toHost[g])) = Len(toHost[g]) - 1
      /\ \A i \in 1 .. Len(Tail(toHost[g])) : Tail(toHost[g])[i] = toHost[g][i + 1]
  BY <1>1, EmptySeq, HeadTailProperties DEF IInv, LinksOK
<1>5. TrueAck(g, m)
  BY <1>4 DEF LagInv, TrueAcks
<1>6. TrueAcks(inbox)
  <2> SUFFICES ASSUME NEW h \in Guests, NEW i \in 1 .. Len(inbox[h])
               PROVE  TrueAck(h, inbox[h][i])
    BY DEF TrueAcks
  <2>1. CASE h = g
    <3>1. inbox[h] = Tail(toHost[g])
      BY <2>1, <1>4
    <3>2. i + 1 \in 1 .. Len(toHost[g]) /\ inbox[h][i] = toHost[g][i + 1]
      BY <3>1, <1>4
    <3>3. TrueAck(g, toHost[g][i + 1])
      BY <3>2 DEF LagInv, TrueAcks
    <3> QED  BY <2>1, <3>2, <3>3
  <2>2. CASE h # g
    <3>1. inbox[h] = toHost[h]
      BY <2>2, <1>4
    <3> QED  BY <3>1 DEF LagInv, TrueAcks
  <2> QED  BY <2>1, <2>2
<1> HIDE DEF m, inbox
<1>7. /\ m.type = "Command" => m.command \in Command
      /\ m.type = "TurnAck" => m.turn \in Nat
      /\ m.type = "Hash" => m.turn \in Nat
  BY <1>1 DEF ToHostMsg, LeaveMsg
<1>8. TrueAcks(inbox) => (toHost' = inbox => TrueAcks(toHost)')
  BY <1>2 DEF TrueAcks, TrueAck
<1>9. CASE m.type = "Command" /\ HostCommand(g, m.command, inbox)
  <2>1. CASE StartDelay /\ sq.nextTurn = 0
    BY <2>1, <1>2, <1>6, <1>8, <1>9, NoLag DEF HostCommand
  <2>2. CASE ~(StartDelay /\ sq.nextTurn = 0) /\ Accepts(sq, g)
    <3>1. /\ sq' = Submitted(sq, g, m.command) /\ toHost' = inbox
          /\ UNCHANGED <<present, wire, violations>>
      BY <2>2, <1>9 DEF HostCommand
    <3>2. /\ sq'.nextTurn = sq.nextTurn /\ sq'.acked = sq.acked /\ sq'.active = sq.active
      BY <3>1, <1>7, <1>9, Numbers, SubmittedType, SubmittedKeeps
    <3> DEFINE gone == {}
    <3>3. /\ gone \in SUBSET Guests
          /\ \A p \in Seats : sq'.active[p] <=> sq.active[p] /\ p \notin gone
          /\ \A h \in Guests : present'[h] <=> present[h] /\ h \notin gone
      BY <3>1, <3>2
    <3> HIDE DEF gone
    <3> QED  BY <3>1, <3>2, <3>3, <1>2, <1>6, <1>8, LagKept
  <2>3. CASE ~(StartDelay /\ sq.nextTurn = 0) /\ ~Accepts(sq, g)
    <3>1. Violation(g, inbox)
      BY <2>3, <1>9 DEF HostCommand
    <3> QED  BY <3>1, <1>1, <1>2, <1>6, ViolationLag
  <2> QED  BY <2>1, <2>2, <2>3
<1>10. CASE m.type = "TurnAck" /\ HostAck(g, m.turn, inbox)
  <2> DEFINE turn == m.turn
  <2>1. sq' = OnAck(sq, g, turn) /\ toHost' = inbox /\ present' = present
    BY <1>10 DEF HostAck
  <2>2. turn \in Nat /\ turn < ran[g]
    BY <1>5, <1>7, <1>10 DEF TrueAck
  <2> HIDE DEF turn
  <2>3. /\ sq'.active = sq.active
        /\ \A q \in Seats : sq.acked[q] <= sq'.acked[q] /\ (q # g => sq'.acked[q] = sq.acked[q])
        /\ sq'.acked[g] = sq.acked[g] \/ sq'.acked[g] <= turn + 1
        /\ sq'.nextTurn = sq.nextTurn /\ SequencerType(sq')
    <3>1. SequencerType(sq) /\ g \in Seats
      BY Numbers
    <3>2. sq'.nextTurn = sq.nextTurn /\ SequencerType(sq')
      BY <3>1, <2>1, <2>2, OnAckType
    <3>3. /\ sq'.active = sq.active
          /\ \A q \in Seats : sq.acked[q] <= sq'.acked[q] /\ (q # g => sq'.acked[q] = sq.acked[q])
          /\ sq'.acked[g] = sq.acked[g] \/ sq'.acked[g] <= turn + 1
      BY <3>1, <2>1, <2>2, OnAckMoves
    <3> QED  BY <3>2, <3>3
  <2>4. sq'.acked \in [Seats -> Nat]
    BY <2>3 DEF SequencerType
  <2>5. Awaited'
    BY <2>1, <2>3 DEF LagInv, Awaited
  <2>6. AcksAreRun'
    <3> SUFFICES ASSUME NEW n \in Machines \cap Seats PROVE sq'.acked[n] <= ran[n]
      BY <1>2 DEF AcksAreRun
    <3>1. sq'.acked[n] \in Nat /\ ran[n] \in Nat /\ sq.acked[n] <= ran[n]
      BY <2>4, Numbers DEF LagInv, AcksAreRun
    <3> QED  BY <3>1, <2>2, <2>3
  <2>7. LagBound'
    <3> SUFFICES ASSUME ~Seatless, NEW p \in Seats, sq.active[p]
                 PROVE  sq.nextTurn - sq'.acked[p] <= MaxLag + 1
      BY <2>3 DEF LagBound
    <3>1. /\ sq.nextTurn - sq.acked[p] <= MaxLag + 1 /\ sq.acked[p] <= sq'.acked[p]
          /\ sq.acked[p] \in Nat /\ sq'.acked[p] \in Nat /\ sq.nextTurn \in Nat /\ MaxLag \in Nat
      BY <2>3, <2>4, Numbers DEF LagInv, LagBound
    <3> QED  BY <3>1
  <2> QED  BY <2>1, <2>5, <2>6, <2>7, <1>6, <1>8 DEF LagInv
<1>11. CASE m.type = "Hash" /\ HostHash(g, m.turn, m.hash, inbox)
  <2>1. sq' = OnHash(sq, g, m.turn, m.hash) /\ toHost' = inbox /\ present' = present
    BY <1>11 DEF HostHash
  <2>2. sq'.nextTurn = sq.nextTurn /\ sq'.acked = sq.acked /\ sq'.active = sq.active
    BY <2>1, <1>7, <1>11, Numbers, OnHashType, HashesKeep
  <2> DEFINE gone == {}
  <2>3. /\ gone \in SUBSET Guests
        /\ \A p \in Seats : sq'.active[p] <=> sq.active[p] /\ p \notin gone
        /\ \A h \in Guests : present'[h] <=> present[h] /\ h \notin gone
    BY <2>1, <2>2
  <2> HIDE DEF gone
  <2> QED  BY <2>1, <2>2, <2>3, <1>2, <1>6, <1>8, LagKept
<1>12. CASE m.type = "Leave" /\ HostLeave(g)
  BY <1>2, <1>12, DropGuestLag DEF HostLeave
<1> QED  BY <1>3, <1>9, <1>10, <1>11, <1>12

\* A turn of the sealing loop: of the players who host nobody seals while one is too far behind.
LEMMA HostSealsLag == ASSUME IInv, LagInv, HostSeals PROVE LagInv'
<1>1. PICK gone \in SUBSET CanFail :
        sq' = Out(Sealed(sq), gone) /\ Leaves(gone) /\ toHost' = Unread(toHost, gone)
  BY DEF HostSeals
<1>2. (Seatless \/ CanSeal(sq)) /\ ran' = ran
  BY DEF HostSeals
<1>3. /\ sq'.nextTurn = sq.nextTurn + 1 /\ sq'.acked = sq.acked
      /\ \A p \in Seats : sq'.active[p] <=> sq.active[p] /\ p \notin gone
  <2>1. /\ SequencerType(Sealed(sq)) /\ Sealed(sq).nextTurn = sq.nextTurn + 1
        /\ Sealed(sq).acked = sq.acked /\ Sealed(sq).active = sq.active
    BY Numbers, SealedType, SealedKeeps
  <2> QED  BY <1>1, <2>1, OutType, OutKeeps
<1>4. Awaited'
  <2>1. gone \subseteq Guests /\ HostSeat \notin gone
    BY Numbers DEF CanFail
  <2>2. \A g \in Guests : present'[g] <=> present[g] /\ g \notin gone
    BY <1>1 DEF Leaves
  <2> QED  BY <1>3, <2>1, <2>2, Numbers DEF LagInv, Awaited
<1>5. AcksAreRun'
  BY <1>2, <1>3 DEF LagInv, AcksAreRun
<1>6. TrueAcks(toHost)'
  <2>1. TrueAcks(Unread(toHost, gone))
    BY UnreadTrue DEF IInv, LinksOK, LagInv
  <2> QED  BY <1>1, <1>2, <2>1 DEF TrueAcks, TrueAck
<1>7. LagBound'
  <2> SUFFICES ASSUME ~Seatless, NEW p \in Seats, sq'.active[p]
               PROVE  sq'.nextTurn - sq'.acked[p] <= MaxLag + 1
    BY DEF LagBound
  <2>0. sq.active[p] /\ sq'.nextTurn = sq.nextTurn + 1 /\ sq'.acked[p] = sq.acked[p]
    BY <1>3
  <2>1. sq.nextTurn \in Nat /\ sq.acked[p] \in Nat /\ MaxLag \in Nat
    BY Numbers
  <2>2. ~(Behind(sq, p) > MaxLag)
    BY <1>2 DEF CanSeal, TooFarBehind
  <2>3. Behind(sq, p) = sq.nextTurn - Lesser(sq.acked[p], sq.nextTurn)
    BY <2>0 DEF Behind
  <2>4. sq.nextTurn + 1 - sq.acked[p] <= MaxLag + 1
    BY <2>1, <2>2, <2>3 DEF Lesser
  <2> QED  BY <2>0, <2>1, <2>4
<1> QED  BY <1>4, <1>5, <1>6, <1>7 DEF LagInv

\* The loop while somebody lags
LEMMA HostWaitsLag == ASSUME IInv, LagInv, HostWaits PROVE LagInv'
<1>1. ran' = ran
  BY DEF HostWaits
<1>2. CASE UNCHANGED <<sq, present, wire, toHost>>
  <2>1. TrueAcks(toHost)'
    BY <1>1, <1>2 DEF LagInv, TrueAcks, TrueAck
  <2> QED  BY <1>1, <1>2, <2>1, NoLag
<1>3. ASSUME NEW g \in Guests, DropGuest(g) PROVE LagInv'
  BY <1>1, <1>3, DropGuestLag
<1> QED  BY <1>2, <1>3 DEF HostWaits

\* submit_local(), submit_bot()
LEMMA HostClicksLag == ASSUME IInv, LagInv, NEW p \in Seats, HostClicks(p) PROVE LagInv'
<1>1. /\ clicked' = [clicked EXCEPT ![p] = @ + 1] /\ clicked[p] < MaxCommands
      /\ sq' = IF Accepts(sq, p) THEN Submitted(sq, p, clicked'[p]) ELSE sq
      /\ UNCHANGED <<present, toHost, ran>>
  BY DEF HostClicks, Click, linkVars
<1>2. clicked'[p] \in Command
  <2>1. clicked[p] \in 0 .. MaxCommands /\ clicked'[p] = clicked[p] + 1
    BY <1>1 DEF IInv, GuestsOK
  <2> QED  BY <1>1, <2>1, Players
<1>3. sq'.nextTurn = sq.nextTurn /\ sq'.acked = sq.acked /\ sq'.active = sq.active
  BY <1>1, <1>2, Numbers, SubmittedType, SubmittedKeeps
<1>4. TrueAcks(toHost)'
  BY <1>1 DEF LagInv, TrueAcks, TrueAck
<1> QED  BY <1>1, <1>3, <1>4 DEF LagInv, Awaited, AcksAreRun, LagBound

\* run_local(), one turn: the host acknowledges what it runs, for itself and for its bots.
LEMMA HostRunsLag == ASSUME IInv, LagInv, HostRuns PROVE LagInv'
<1> DEFINE turn == ran[HostSeat]
           own == IF Seatless THEN Bots ELSE Bots \cup {HostSeat}
           needed == Lesser(turn + 1, sq.nextTurn)
           level == [sq EXCEPT !.acked = [p \in Seats |-> IF p \in own /\ needed > @[p]
                                                          THEN needed ELSE @[p]]]
           acked == IF own = {} THEN level ELSE OnAck(level, CHOOSE p \in own : TRUE, turn)
           hash == Hash(HostSeat, turn)
           reported == IF Seatless THEN OnRefereeHash(acked, turn, hash)
                                   ELSE OnHash(acked, HostSeat, turn, hash)
<1>1. ran' = [ran EXCEPT ![HostSeat] = @ + 1] /\ UNCHANGED <<present, toHost>>
  BY DEF HostRuns
<1>2. sq' = acked \/ sq' = reported
  BY Zenon DEF HostRuns
<1>3. /\ HostSeat \in Machines /\ HostSeat \notin Guests /\ turn \in Nat
      /\ SequencerType(sq) /\ sq.nextTurn \in Nat /\ MaxLag \in Nat
      /\ sq.acked \in [Seats -> Nat] /\ DOMAIN sq = Fields /\ ran \in [Machines -> Nat]
  BY Numbers DEF SequencerType
<1>4. /\ own \subseteq Seats /\ own \cap Guests = {} /\ (~Seatless => HostSeat \in Seats)
      /\ needed \in Nat /\ needed <= turn + 1
  BY <1>3, Players, MatchAssumption DEF Seatless, Lesser
<1> HIDE DEF turn, own, needed
<1>5. /\ SequencerType(level) /\ level.nextTurn = sq.nextTurn /\ level.active = sq.active
      /\ \A p \in Seats : /\ sq.acked[p] <= level.acked[p]
                          /\ level.acked[p] = sq.acked[p]
                               \/ (p \in own /\ level.acked[p] <= turn + 1)
  <2> DEFINE acks == [p \in Seats |-> IF p \in own /\ needed > sq.acked[p] THEN needed
                                                                        ELSE sq.acked[p]]
  <2>1. acks \in [Seats -> Nat]
    BY <1>3, <1>4
  <2>2. \A p \in Seats : /\ sq.acked[p] <= acks[p]
                         /\ acks[p] = sq.acked[p] \/ (p \in own /\ acks[p] <= turn + 1)
    BY <1>3, <1>4
  <2>3. level = [sq EXCEPT !.acked = acks]
    BY <1>3 DEF Fields
  <2> HIDE DEF acks, level
  <2>4. SequencerType([sq EXCEPT !.acked = acks])
    BY <2>1, <1>3 DEF SequencerType, Fields
  <2>5. level.nextTurn = sq.nextTurn /\ level.active = sq.active /\ level.acked = acks
    BY <2>3, <1>3 DEF Fields
  <2> QED  BY <2>2, <2>3, <2>4, <2>5
<1> HIDE DEF level
<1>6. level.acked \in [Seats -> Nat]
  BY <1>5 DEF SequencerType
<1>7. /\ SequencerType(acked) /\ acked.nextTurn = sq.nextTurn /\ acked.active = sq.active
      /\ \A p \in Seats : /\ level.acked[p] <= acked.acked[p]
                          /\ acked.acked[p] = level.acked[p]
                               \/ (p \in own /\ acked.acked[p] <= turn + 1)
  <2>1. CASE own = {}
    BY <2>1, <1>5, <1>6
  <2>2. CASE own # {}
    <3> DEFINE q == CHOOSE p \in own : TRUE
    <3>1. q \in own /\ q \in Seats
      BY <2>2, <1>4
    <3>2. acked = OnAck(level, q, turn)
      BY <2>2
    <3> HIDE DEF q, acked
    <3>3. /\ acked.active = level.active
          /\ \A p \in Seats : /\ level.acked[p] <= acked.acked[p]
                              /\ p # q => acked.acked[p] = level.acked[p]
          /\ acked.acked[q] = level.acked[q] \/ acked.acked[q] <= turn + 1
          /\ SequencerType(acked) /\ acked.nextTurn = level.nextTurn
      BY <3>1, <3>2, <1>3, <1>5, OnAckMoves, OnAckType
    <3>4. ASSUME NEW p \in Seats
          PROVE  /\ level.acked[p] <= acked.acked[p]
                 /\ acked.acked[p] = level.acked[p] \/ (p \in own /\ acked.acked[p] <= turn + 1)
      <4>1. CASE p = q
        BY <4>1, <3>1, <3>3
      <4>2. CASE p # q
        BY <4>2, <3>3
      <4> QED  BY <4>1, <4>2
    <3> QED  BY <3>3, <3>4, <1>5
  <2> QED  BY <2>1, <2>2
<1> HIDE DEF acked
<1>8. /\ sq'.acked = acked.acked /\ sq'.active = acked.active /\ sq'.nextTurn = acked.nextTurn
  <2>1. CASE Seatless
    BY <2>1, <1>2, <1>3, <1>7, HashesKeepReferee, OnRefereeHashType
  <2>2. CASE ~Seatless
    BY <2>2, <1>2, <1>3, <1>4, <1>7, HashesKeep, OnHashType
  <2> QED  BY <2>1, <2>2
<1> HIDE DEF reported
<1>9. acked.acked \in [Seats -> Nat]
  BY <1>7 DEF SequencerType
<1>10. \A p \in Seats : /\ sq.acked[p] <= sq'.acked[p] /\ sq'.acked[p] \in Nat
                        /\ sq'.acked[p] = sq.acked[p]
                             \/ (p \in own /\ sq'.acked[p] <= turn + 1)
  <2> TAKE p \in Seats
  <2>1. sq.acked[p] \in Nat /\ level.acked[p] \in Nat /\ acked.acked[p] \in Nat
    BY <1>3, <1>6, <1>9
  <2>2. sq.acked[p] <= level.acked[p] /\ level.acked[p] <= acked.acked[p]
    BY <1>5, <1>7
  <2>3. level.acked[p] = sq.acked[p] \/ (p \in own /\ level.acked[p] <= turn + 1)
    BY <1>5
  <2>4. acked.acked[p] = level.acked[p] \/ (p \in own /\ acked.acked[p] <= turn + 1)
    BY <1>7
  <2>5. sq'.acked[p] = acked.acked[p]
    BY <1>8
  <2> QED  BY <2>1, <2>2, <2>3, <2>4, <2>5
<1>11. Awaited'
  BY <1>1, <1>7, <1>8 DEF LagInv, Awaited
<1>12. AcksAreRun'
  <2> SUFFICES ASSUME NEW n \in Machines \cap Seats PROVE sq'.acked[n] <= ran'[n]
    BY DEF AcksAreRun
  <2>1. sq.acked[n] <= ran[n] /\ ran[n] \in Nat /\ sq.acked[n] \in Nat
    BY <1>3 DEF LagInv, AcksAreRun
  <2>2. CASE n = HostSeat
    <3>1. ran'[n] = turn + 1 /\ ran[n] = turn
      BY <2>2, <1>1, <1>3 DEF turn
    <3> QED  BY <3>1, <2>1, <1>10, <1>3
  <2>3. CASE n # HostSeat
    <3>1. ran'[n] = ran[n] /\ n \in Guests
      BY <2>3, <1>1, <1>3 DEF Machines
    <3>2. sq'.acked[n] = sq.acked[n]
      BY <3>1, <1>4, <1>10
    <3> QED  BY <3>1, <3>2, <2>1
  <2> QED  BY <2>2, <2>3
<1>13. TrueAcks(toHost)'
  <2>1. \A g \in Guests : ran'[g] = ran[g]
    BY <1>1, <1>3, Numbers
  <2> QED  BY <2>1, <1>1 DEF LagInv, TrueAcks, TrueAck
<1>14. LagBound'
  <2> SUFFICES ASSUME ~Seatless, NEW p \in Seats, sq.active[p]
               PROVE  sq.nextTurn - sq'.acked[p] <= MaxLag + 1
    BY <1>7, <1>8 DEF LagBound
  <2>1. sq.nextTurn - sq.acked[p] <= MaxLag + 1
    BY DEF LagInv, LagBound
  <2>2. sq.acked[p] \in Nat /\ sq'.acked[p] \in Nat /\ sq.acked[p] <= sq'.acked[p]
    BY <1>3, <1>10
  <2> QED  BY <2>1, <2>2, <1>3
<1> QED  BY <1>11, <1>12, <1>13, <1>14 DEF LagInv

\* submit() of a guest
LEMMA GuestClicksLag == ASSUME IInv, LagInv, NEW g \in Guests, GuestClicks(g) PROVE LagInv'
<1>1. /\ clicked[g] < MaxCommands /\ clicked' = [clicked EXCEPT ![g] = @ + 1]
      /\ toHost' = Say(g, <<CommandMsg(clicked'[g])>>) /\ UNCHANGED <<sq, present, ran>>
  BY DEF GuestClicks, Click, hostVars
<1> DEFINE msgs == <<CommandMsg(clicked'[g])>>
<1>2. clicked[g] \in 0 .. MaxCommands /\ clicked'[g] = clicked[g] + 1
  BY <1>1, Players DEF IInv, GuestsOK
<1>3. clicked'[g] \in Command
  BY <1>1, <1>2, Players
<1>4. /\ msgs \in Seq(ToHostMsg)
      /\ \A i \in 1 .. Len(msgs) : msgs[i].type = "TurnAck" => msgs[i].turn < ran'[g]
  BY <1>3 DEF CommandMsg, ToHostMsg
<1> HIDE DEF msgs
<1>5. ran' \in [Machines -> Nat] /\ \A h \in Guests : ran[h] <= ran'[h]
  BY <1>1, Numbers
<1>6. TrueAcks(toHost)'
  BY <1>1, <1>4, <1>5, SayLag DEF msgs
<1> QED  BY <1>1, <1>6, NoLag

\* leave()
LEMMA GuestLeavesLag == ASSUME IInv, LagInv, NEW g \in Guests, GuestLeaves(g) PROVE LagInv'
<1>1. toHost' = Say(g, <<LeaveMsg>>) /\ UNCHANGED <<sq, present, ran>>
  BY DEF GuestLeaves, hostVars
<1> DEFINE msgs == <<LeaveMsg>>
<1>2. /\ msgs \in Seq(ToHostMsg)
      /\ \A i \in 1 .. Len(msgs) : msgs[i].type = "TurnAck" => msgs[i].turn < ran'[g]
  BY DEF LeaveMsg, ToHostMsg
<1> HIDE DEF msgs
<1>3. ran' \in [Machines -> Nat] /\ \A h \in Guests : ran[h] <= ran'[h]
  BY <1>1, Numbers
<1>4. TrueAcks(toHost)'
  BY <1>1, <1>2, <1>3, SayLag DEF msgs
<1> QED  BY <1>1, <1>4, NoLag

\* The runner of a guest acknowledges the last turn that it ran.
LEMMA GuestRunsLag == ASSUME IInv, LagInv, NEW g \in Guests, GuestRuns(g) PROVE LagInv'
<1>1. UNCHANGED <<sq, present, got>>
  BY DEF GuestRuns, hostVars
<1>2. /\ g \in Machines /\ g \in Seats /\ ran[g] \in Nat /\ Len(got[g]) \in Nat
      /\ ran \in [Machines -> Nat]
  BY Players, RunOfGot DEF IInv, TurnsOK
<1> DEFINE before == ran[g] \div HashEvery
           many(n) == (n \div HashEvery) - before
           end(i) == (before + i) * HashEvery - 1
           reports(n) == [i \in 1 .. many(n) |-> HashMsg(end(i), Hash(g, end(i)))]
<1>3. PICK n \in ran[g] + 1 .. Len(got[g]) :
        /\ ran' = [ran EXCEPT ![g] = n]
        /\ toHost' = IF mode[g] = "Normal" THEN Say(g, reports(n) \o <<AckMsg(n - 1)>>) ELSE toHost
  BY DEF GuestRuns
<1>4. n \in Nat /\ n - 1 \in Nat /\ ran[g] < n /\ ran'[g] = n
  BY <1>2, <1>3
<1>5. ran' \in [Machines -> Nat] /\ \A h \in Machines : ran[h] <= ran'[h]
  BY <1>2, <1>3, <1>4
<1> DEFINE said == reports(n)
           msgs == said \o <<AckMsg(n - 1)>>
<1>6. said \in Seq([type : {"Hash"}, turn : Nat, hash : Hashes])
  BY <1>2, <1>4, ReportsType
<1>7. msgs \in Seq(ToHostMsg) /\ \A i \in 1 .. Len(msgs) : msgs[i].type = "TurnAck" => msgs[i].turn < ran'[g]
  <2> HIDE DEF said
  <2>1. said \in Seq(ToHostMsg)
    BY <1>6, SeqMonotonic DEF ToHostMsg
  <2> DEFINE last == <<AckMsg(n - 1)>>
  <2>2. last \in Seq(ToHostMsg) /\ Len(last) = 1 /\ last[1].turn = n - 1
    BY <1>4 DEF AckMsg, ToHostMsg
  <2> HIDE DEF last
  <2>3. /\ said \o last \in Seq(ToHostMsg) /\ Len(said \o last) = Len(said) + 1
        /\ \A j \in 1 .. Len(said) + 1 :
             (said \o last)[j] = IF j <= Len(said) THEN said[j] ELSE last[j - Len(said)]
    BY <2>1, <2>2, ConcatProperties
  <2>4. Len(said) \in Nat
    BY <2>1, LenProperties
  <2>5. ASSUME NEW i \in 1 .. Len(said) + 1, (said \o last)[i].type = "TurnAck"
        PROVE  (said \o last)[i].turn < n
    <3>1. CASE i <= Len(said)
      <4>1. i \in 1 .. Len(said) /\ (said \o last)[i] = said[i]
        BY <3>1, <2>3, <2>4
      <4>2. said[i] \in [type : {"Hash"}, turn : Nat, hash : Hashes]
        BY <4>1, <1>6, ElementOfSeq
      <4> QED  BY <4>1, <4>2, <2>5
    <3>2. CASE ~(i <= Len(said))
      <4>1. i = Len(said) + 1
        BY <3>2, <2>4
      <4>2. (said \o last)[i] = last[1]
        <5>1. i - Len(said) = 1
          BY <4>1, <2>4
        <5> QED  BY <5>1, <3>2, <2>3
      <4> QED  BY <4>2, <2>2, <1>4
    <3> QED  BY <3>1, <3>2
  <2> QED  BY <2>3, <2>5, <1>4 DEF last
<1> HIDE DEF said, msgs
<1>8. TrueAcks(toHost)'
  <2>1. CASE mode[g] = "Normal"
    <3>1. toHost' = Say(g, msgs)
      BY <2>1, <1>3 DEF said, msgs
    <3> QED  BY <3>1, <1>5, <1>7, Numbers, SayLag
  <2>2. CASE mode[g] # "Normal"
    <3> DEFINE none == <<>>
    <3>1. none \in Seq(ToHostMsg) /\ \A i \in 1 .. Len(none) :
                                      none[i].type = "TurnAck" => none[i].turn < ran'[g]
      BY EmptySeq
    <3>2. \A h \in Guests : toHost[h] \in Seq(ToHostMsg) /\ toHost[h] \o none = toHost[h]
      BY ConcatEmptySeq DEF IInv, LinksOK
    <3>3. toHost' = Say(g, none)
      BY <2>2, <1>3, <3>2 DEF Say, IInv, LinksOK
    <3> HIDE DEF none
    <3> QED  BY <3>1, <3>3, <1>5, Numbers, SayLag
  <2> QED  BY <2>1, <2>2
<1>9. AcksAreRun'
  <2> SUFFICES ASSUME NEW m \in Machines \cap Seats PROVE sq.acked[m] <= ran'[m]
    BY <1>1 DEF AcksAreRun
  <2>1. sq.acked[m] <= ran[m] /\ ran[m] <= ran'[m] /\ sq.acked[m] \in Nat
        /\ ran[m] \in Nat /\ ran'[m] \in Nat
    BY <1>2, <1>5, Numbers DEF LagInv, AcksAreRun
  <2> QED  BY <2>1
<1>10. Awaited' /\ LagBound'
  BY <1>1 DEF LagInv, Awaited, LagBound
<1> QED  BY <1>8, <1>9, <1>10 DEF LagInv

\* The connection breaks: what arrives is a part of what was said.
LEMMA BreaksLag == ASSUME IInv, LagInv, NEW g \in Guests, Breaks(g) PROVE LagInv'
<1>1. UNCHANGED <<sq, present, ran>>
  BY DEF Breaks, hostVars
<1>2. PICK k \in 0 .. Len(toHost[g]) : toHost' = [toHost EXCEPT ![g] = SubSeq(@, 1, k)]
  BY DEF Breaks
<1>3. toHost \in [Guests -> Seq(ToHostMsg)] /\ Len(toHost[g]) \in Nat
  BY LenProperties DEF IInv, LinksOK
<1>4. TrueAcks(toHost)'
  <2> SUFFICES ASSUME NEW h \in Guests, NEW i \in 1 .. Len(toHost'[h]),
                      toHost'[h][i].type = "TurnAck"
               PROVE  toHost'[h][i].turn < ran[h]
    BY <1>1 DEF TrueAcks, TrueAck
  <2>1. CASE h = g
    <3>1. toHost'[h] = SubSeq(toHost[g], 1, k)
      BY <2>1, <1>2, <1>3
    <3>2. \A j \in 1 .. k : j \in 1 .. Len(toHost[g]) /\ toHost[g][j] \in ToHostMsg
      BY <1>3, ElementOfSeq
    <3>3. 1 \in Int /\ k \in Int
      BY <1>3
    <3>4. /\ Len(SubSeq(toHost[g], 1, k)) = IF 1 <= k THEN k - 1 + 1 ELSE 0
          /\ \A j \in 1 .. k - 1 + 1 : SubSeq(toHost[g], 1, k)[j] = toHost[g][1 + j - 1]
      BY <3>2, <3>3, SubSeqProperties
    <3>5. i \in 1 .. k /\ toHost'[h][i] = toHost[g][i]
      BY <3>1, <3>3, <3>4
    <3> QED  BY <2>1, <3>2, <3>5 DEF LagInv, TrueAcks, TrueAck
  <2>2. CASE h # g
    <3>1. toHost'[h] = toHost[h]
      BY <2>2, <1>2, <1>3
    <3> QED  BY <3>1 DEF LagInv, TrueAcks, TrueAck
  <2> QED  BY <2>1, <2>2
<1> QED  BY <1>1, <1>4, NoLag
------------------------------------------------------------------------------
(* The theorem *)

\* start(): everybody is waited for, and level.
LEMMA InitLag == Init => LagInv
<1> SUFFICES ASSUME Init PROVE LagInv
  OBVIOUS
<1>1. /\ sq.active = [p \in Seats |-> TRUE] /\ sq.acked = [p \in Seats |-> 0] /\ sq.nextTurn = 0
      /\ toHost = [g \in Guests |-> <<>>] /\ ran = [m \in Machines |-> 0]
  BY DEF Init, NewSequencer
<1>2. Guests \subseteq Seats /\ MaxLag \in Nat /\ Len(<<>>) = 0
  BY Players, SequencerAssumption, EmptySeq
<1> QED  BY <1>1, <1>2 DEF LagInv, Awaited, AcksAreRun, TrueAcks, LagBound, Seatless

\* Every step keeps it.
LEMMA NextLag == IInv /\ LagInv /\ [Next]_vars => LagInv'
<1> SUFFICES ASSUME IInv, LagInv, [Next]_vars PROVE LagInv'
  OBVIOUS
<1>1. ASSUME UNCHANGED <<sq, present, ran, toHost>> PROVE LagInv'
  <2>1. TrueAcks(toHost)'
    BY <1>1 DEF LagInv, TrueAcks, TrueAck
  <2> QED  BY <1>1, <2>1, NoLag
<1>2. CASE UNCHANGED vars
  BY <1>1, <1>2 DEF vars, hostVars, linkVars
<1>3. CASE HostSeals \/ HostWaits \/ HostRuns
  BY <1>3, HostSealsLag, HostWaitsLag, HostRunsLag
<1>4. ASSUME NEW p \in Seats, HostClicks(p) PROVE LagInv'
  BY <1>4, HostClicksLag
<1>5. ASSUME NEW g \in Guests, HostHears(g) PROVE LagInv'
  BY <1>5, HostHearsLag
<1>6. ASSUME NEW g \in Guests,
             HostFindsClosed(g) \/ HostSendFails(g) \/ HostSilence(g) \/ HostPolice(g)
      PROVE  LagInv'
  <2>1. DropGuest(g) /\ ran' = ran
    BY <1>6 DEF HostFindsClosed, HostSendFails, HostSilence, HostPolice, LosesGuest
  <2> QED  BY <2>1, DropGuestLag
<1>7. ASSUME NEW g \in Guests, GuestStep(g) PROVE LagInv'
  <2>1. CASE GuestHears(g)
    BY <1>1, <2>1 DEF GuestHears, hostVars
  <2>2. CASE GuestFindsClosed(g) \/ GuestSilence(g)
    BY <1>1, <2>2 DEF GuestFindsClosed, GuestSilence, GuestLost, hostVars
  <2> QED  BY <1>7, <2>1, <2>2, GuestClicksLag, GuestRunsLag, GuestLeavesLag DEF GuestStep
<1>8. ASSUME NEW g \in Guests, Breaks(g) PROVE LagInv'
  BY <1>8, BreaksLag
<1>9. ASSUME NEW m \in Machines, GoesAstray(m) PROVE LagInv'
  BY <1>1, <1>9 DEF GoesAstray, hostVars, linkVars
<1> QED  BY <1>2, <1>3, <1>4, <1>5, <1>6, <1>7, <1>8, <1>9 DEF Next, HostStep

\* No turn is sealed while a player who is in the match has more than MaxLag turns still to
\* run (NobodyLeftBehind), for any number of guests, whatever becomes of their links and
\* in whatever order their acknowledgements come.
THEOREM NobodyIsLeftBehind == Spec => []NobodyLeftBehind
<1>1. IInv /\ LagInv => NobodyLeftBehind
  <2> SUFFICES ASSUME IInv, LagInv, ~Seatless,
                      NEW m \in Machines, m = HostSeat \/ present[m]
               PROVE  Len(log) - ran[m] <= MaxLag + 1
    BY Players DEF NobodyLeftBehind
  <2>1. m \in Seats /\ sq.active[m]
    BY Numbers DEF Machines, LagInv, Awaited
  <2>2. Len(log) - sq.acked[m] <= MaxLag + 1 /\ sq.acked[m] <= ran[m]
    BY <2>1 DEF LagInv, LagBound, AcksAreRun, IInv, TurnsOK
  <2>3. Len(log) \in Nat /\ sq.acked[m] \in Nat /\ ran[m] \in Nat /\ MaxLag \in Nat
    BY <2>1, Numbers DEF IInv, TurnsOK
  <2> QED  BY <2>2, <2>3
<1> QED  BY <1>1, InitIInv, InitLag, NextIInv, NextLag, PTL DEF Spec

------------------------------------------------------------------------------
(* What the methods of the sequencer do, field by field *)

\* drop() of seats
LEMMA OutFields ==
  ASSUME NEW s, SequencerType(s), NEW gone
  PROVE  LET t == Out(s, gone)
         IN /\ t.queue = [p \in Seats |-> IF p \in gone THEN Append(s.queue[p], Drop) ELSE s.queue[p]]
            /\ t.carry = [p \in Seats |-> IF p \in gone THEN <<>> ELSE s.carry[p]]
            /\ t.queuedBy = s.queuedBy /\ t.reports = s.reports /\ t.referee = s.referee
<1> DEFINE active == [p \in Seats |-> s.active[p] /\ p \notin gone]
           carry == [p \in Seats |-> IF p \in gone THEN <<>> ELSE s.carry[p]]
           queue == [p \in Seats |-> IF p \in gone THEN Append(s.queue[p], Drop) ELSE s.queue[p]]
<1>1. Out(s, gone) = [s EXCEPT !.active = active, !.carry = carry, !.queue = queue]
  BY Zenon DEF Out
<1> HIDE DEF active, carry, queue
<1>2. /\ Out(s, gone).queue = queue /\ Out(s, gone).carry = carry
      /\ Out(s, gone).queuedBy = s.queuedBy /\ Out(s, gone).reports = s.reports
      /\ Out(s, gone).referee = s.referee
  BY <1>1 DEF SequencerType, Fields
<1> QED  BY <1>2 DEF queue, carry

\* submit()
LEMMA SubmittedFields ==
  ASSUME NEW s, SequencerType(s), NEW p \in Seats, NEW c \in Command
  PROVE  LET t == Submitted(s, p, c)
         IN /\ t.reports = s.reports /\ t.referee = s.referee
            /\ \A q \in Seats \ {p} : /\ t.queue[q] = s.queue[q] /\ t.carry[q] = s.carry[q]
                                      /\ t.queuedBy[q] = s.queuedBy[q]
            /\ HasRoom(s, p) => /\ t.queue[p] = Append(s.queue[p], c) /\ t.carry[p] = s.carry[p]
                                /\ t.queuedBy[p] = s.queuedBy[p] + 1
            /\ ~HasRoom(s, p) => /\ t.carry[p] = Append(s.carry[p], c)
                                 /\ t.queue[p] = s.queue[p] /\ t.queuedBy[p] = s.queuedBy[p]
BY DEF Submitted, SequencerType, Fields, Turns

\* seal()
LEMMA SealedFields ==
  ASSUME NEW s, SequencerType(s)
  PROVE  LET t == Sealed(s)
         IN /\ t.queue = [p \in Seats |-> SubSeq(s.carry[p], 1, Share(s, p))]
            /\ t.carry = [p \in Seats |-> SubSeq(s.carry[p], Share(s, p) + 1, Len(s.carry[p]))]
            /\ t.queuedBy = [p \in Seats |-> Share(s, p)]
            /\ t.reports = s.reports /\ t.referee = s.referee
<1> DEFINE queue == [p \in Seats |-> SubSeq(s.carry[p], 1, Share(s, p))]
           carry == [p \in Seats |-> SubSeq(s.carry[p], Share(s, p) + 1, Len(s.carry[p]))]
           queuedBy == [p \in Seats |-> Share(s, p)]
           nextTurn == s.nextTurn + 1
<1>1. Sealed(s) = [s EXCEPT !.nextTurn = nextTurn, !.queue = queue, !.queuedBy = queuedBy,
                            !.carry = carry]
  BY Zenon DEF Sealed
<1> HIDE DEF queue, carry, queuedBy, nextTurn
<1>2. /\ Sealed(s).queue = queue /\ Sealed(s).carry = carry /\ Sealed(s).queuedBy = queuedBy
      /\ Sealed(s).reports = s.reports /\ Sealed(s).referee = s.referee
  BY <1>1 DEF SequencerType, Fields
<1> QED  BY <1>2 DEF queue, carry, queuedBy

\* What every active seat has passed exists, and is no more than any of them has.
LEMMA LowIsPassed ==
  ASSUME NEW s, SequencerType(s)
  PROVE  Low(s) \in Nat /\ \A p \in Seats : s.active[p] => Low(s) <= s.acked[p]
<1>1. PICK T : T = {s.nextTurn} \cup {s.acked[p] : p \in {q \in Seats : s.active[q]}}
  OBVIOUS
<1>2. T \in SUBSET Nat /\ T # {} /\ s.nextTurn \in T
      /\ \A p \in Seats : s.active[p] => s.acked[p] \in T
  BY <1>1 DEF SequencerType
<1>3. PICK n \in T : \A m \in T : n <= m
  BY <1>2, LeastNumber
<1>4. n <= s.nextTurn /\ \A p \in Seats : s.active[p] => n <= s.acked[p]
  BY <1>2, <1>3
<1>5. Low(s) \in T /\ Low(s) <= s.nextTurn /\ \A p \in Seats : s.active[p] => Low(s) <= s.acked[p]
  BY <1>1, <1>4 DEF Low
<1> QED  BY <1>2, <1>5

\* t is s after acknowledgements: what was submitted stays, and a report is forgotten only
\* when all who are waited for have acknowledged the turn after its turn.
Acknowledged(s, t) ==
  /\ SequencerType(t)
  /\ t.nextTurn = s.nextTurn /\ t.active = s.active
  /\ t.queue = s.queue /\ t.carry = s.carry /\ t.queuedBy = s.queuedBy
  /\ \A p \in Seats : s.acked[p] <= t.acked[p]
  /\ \A k \in DOMAIN t.reports : k \in DOMAIN s.reports /\ t.reports[k] = s.reports[k]
  /\ \A k \in DOMAIN t.referee : k \in DOMAIN s.referee /\ t.referee[k] = s.referee[k]
  /\ \A k \in DOMAIN s.reports : k \notin DOMAIN t.reports =>
       \A p \in Seats : s.active[p] => k[1] + 1 < t.acked[p]
  /\ \A k \in DOMAIN s.referee : k \notin DOMAIN t.referee =>
       \A p \in Seats : s.active[p] => k + 1 < t.acked[p]

\* Only what was acknowledged changed.
LEMMA AckedAlone ==
  ASSUME NEW s, SequencerType(s), NEW acks \in [Seats -> Nat],
         \A p \in Seats : s.acked[p] <= acks[p]
  PROVE  /\ Acknowledged(s, [s EXCEPT !.acked = acks])
         /\ [s EXCEPT !.acked = acks].acked = acks
<1>1. PICK t : t = [s EXCEPT !.acked = acks]
  OBVIOUS
<1>2. /\ t.acked = acks /\ t.nextTurn = s.nextTurn /\ t.active = s.active
      /\ t.queue = s.queue /\ t.carry = s.carry /\ t.queuedBy = s.queuedBy
      /\ t.reports = s.reports /\ t.referee = s.referee /\ DOMAIN t = Fields
  BY <1>1 DEF SequencerType, Fields
<1>3. SequencerType(t)
  BY <1>2 DEF SequencerType
<1>4. Acknowledged(s, t)
  BY <1>2, <1>3 DEF Acknowledged
<1> QED  BY <1>1, <1>2, <1>4

\* What is kept of the reports: those of turns that not all have passed yet
LEMMA KeptOf ==
  ASSUME NEW f, NEW keys, keys \subseteq DOMAIN f
  PROVE  DOMAIN Kept(f, keys) = keys /\ \A k \in keys : Kept(f, keys)[k] = f[k]
BY DEF Kept

\* Reports that are dropped are those of turns that all who are waited for have passed.
LEMMA ForgottenWhenPassed ==
  ASSUME NEW s, NEW a, SequencerType(s), SequencerType(a), Acknowledged(s, a),
         a.reports = s.reports, a.referee = s.referee
  PROVE  LET t == [a EXCEPT !.reports = Kept(@, {k \in DOMAIN @ : k[1] + 1 >= Low(a)}),
                            !.referee = Kept(@, {k \in DOMAIN @ : k + 1 >= Low(a)})]
         IN Acknowledged(s, t) /\ t.acked = a.acked
<1>1. PICK R, F : /\ R = {k \in DOMAIN s.reports : k[1] + 1 >= Low(a)}
                  /\ F = {k \in DOMAIN s.referee : k + 1 >= Low(a)}
  OBVIOUS
<1>2. PICK reports, referee : reports = Kept(s.reports, R) /\ referee = Kept(s.referee, F)
  OBVIOUS
<1>3. PICK t : t = [a EXCEPT !.reports = reports, !.referee = referee]
  OBVIOUS
<1>4. t = [a EXCEPT !.reports = Kept(@, {k \in DOMAIN @ : k[1] + 1 >= Low(a)}),
                    !.referee = Kept(@, {k \in DOMAIN @ : k + 1 >= Low(a)})]
  BY <1>1, <1>2, <1>3
<1>5. /\ DOMAIN reports = R /\ \A k \in R : reports[k] = s.reports[k]
      /\ DOMAIN referee = F /\ \A k \in F : referee[k] = s.referee[k]
  BY <1>1, <1>2, KeptOf
<1>6. /\ t.acked = a.acked /\ t.nextTurn = a.nextTurn /\ t.active = a.active
      /\ t.queue = a.queue /\ t.carry = a.carry /\ t.queuedBy = a.queuedBy
      /\ t.reports = reports /\ t.referee = referee /\ DOMAIN t = Fields
  BY <1>3 DEF SequencerType, Fields
<1>7. DOMAIN reports \subseteq Nat \X Seats /\ DOMAIN referee \subseteq Nat
  BY <1>1, <1>5 DEF SequencerType
<1>8. SequencerType(t)
  BY <1>6, <1>7 DEF SequencerType
<1>9. Low(a) \in Nat /\ \A p \in Seats : a.active[p] => Low(a) <= a.acked[p] /\ a.acked[p] \in Nat
  BY LowIsPassed DEF SequencerType
<1>10. /\ DOMAIN s.reports \subseteq Nat \X Seats /\ DOMAIN s.referee \subseteq Nat
       /\ a.active = s.active
  BY DEF SequencerType, Acknowledged
<1>11. ASSUME NEW k \in DOMAIN s.reports, k \notin DOMAIN t.reports, NEW p \in Seats, s.active[p]
       PROVE  k[1] + 1 < t.acked[p]
  <2>1. k[1] \in Nat /\ ~(k[1] + 1 >= Low(a))
    BY <1>11, <1>1, <1>5, <1>6, <1>10
  <2>2. Low(a) <= a.acked[p] /\ a.acked[p] \in Nat /\ Low(a) \in Nat
    BY <1>9, <1>10, <1>11
  <2> QED  BY <2>1, <2>2, <1>6
<1>12. ASSUME NEW k \in DOMAIN s.referee, k \notin DOMAIN t.referee, NEW p \in Seats, s.active[p]
       PROVE  k + 1 < t.acked[p]
  <2>1. k \in Nat /\ ~(k + 1 >= Low(a))
    BY <1>12, <1>1, <1>5, <1>6, <1>10
  <2>2. Low(a) <= a.acked[p] /\ a.acked[p] \in Nat /\ Low(a) \in Nat
    BY <1>9, <1>10, <1>12
  <2> QED  BY <2>1, <2>2, <1>6
<1>13. /\ \A k \in DOMAIN t.reports : k \in DOMAIN s.reports /\ t.reports[k] = s.reports[k]
       /\ \A k \in DOMAIN t.referee : k \in DOMAIN s.referee /\ t.referee[k] = s.referee[k]
  BY <1>1, <1>5, <1>6
<1>14. Acknowledged(s, t)
  BY <1>6, <1>8, <1>11, <1>12, <1>13 DEF Acknowledged
<1> QED  BY <1>4, <1>6, <1>14

\* on_ack(): the one who gives it moves, no further than it says and no less, unless the
\* turn is not sealed.
LEMMA OnAckFields ==
  ASSUME NEW s, SequencerType(s), NEW p \in Seats, NEW turn \in Nat
  PROVE  LET t == OnAck(s, p, turn)
         IN /\ Acknowledged(s, t)
            /\ \A q \in Seats \ {p} : t.acked[q] = s.acked[q]
            /\ t.acked[p] = s.acked[p] \/ t.acked[p] <= turn + 1
            /\ turn < s.nextTurn => turn < t.acked[p]
<1>1. PICK needed : needed = Lesser(turn + 1, s.nextTurn)
  OBVIOUS
<1>2. /\ needed \in Nat /\ needed <= turn + 1 /\ (turn < s.nextTurn => needed = turn + 1)
      /\ s.acked \in [Seats -> Nat] /\ s.nextTurn \in Nat
  BY <1>1 DEF SequencerType, Lesser
<1>3. PICK acks : acks = IF needed > s.acked[p] THEN [s.acked EXCEPT ![p] = needed] ELSE s.acked
  OBVIOUS
<1>4. /\ acks \in [Seats -> Nat] /\ \A q \in Seats : s.acked[q] <= acks[q]
      /\ \A q \in Seats \ {p} : acks[q] = s.acked[q]
      /\ acks[p] = s.acked[p] \/ acks[p] = needed
      /\ needed <= acks[p]
  BY <1>2, <1>3
<1>5. PICK a : a = IF needed > s.acked[p] THEN [s EXCEPT !.acked[p] = needed] ELSE s
  OBVIOUS
<1>6. /\ Acknowledged(s, a) /\ a.acked = acks /\ SequencerType(a)
      /\ a.reports = s.reports /\ a.referee = s.referee
  <2>1. DOMAIN s = Fields
    BY DEF SequencerType
  <2>2. CASE needed > s.acked[p]
    <3>1. a = [s EXCEPT !.acked = acks]
      BY <1>3, <1>5, <2>1, <2>2 DEF Fields
    <3>2. Acknowledged(s, a) /\ a.acked = acks
      BY <3>1, <1>4, AckedAlone
    <3> QED  BY <3>1, <3>2, <2>1 DEF Acknowledged, Fields
  <2>3. CASE ~(needed > s.acked[p])
    <3>1. a = s /\ acks = s.acked
      BY <1>3, <1>5, <2>3
    <3>2. Acknowledged(s, s)
      BY DEF Acknowledged, SequencerType
    <3> QED  BY <3>1, <3>2
  <2> QED  BY <2>2, <2>3
<1>9. PICK t : t = [a EXCEPT !.reports = Kept(@, {k \in DOMAIN @ : k[1] + 1 >= Low(a)}),
                             !.referee = Kept(@, {k \in DOMAIN @ : k + 1 >= Low(a)})]
  OBVIOUS
<1>10. Acknowledged(s, t) /\ t.acked = a.acked
  BY <1>6, <1>9, ForgottenWhenPassed
<1>11. OnAck(s, p, turn) = t
  BY <1>1, <1>5, <1>9, Zenon DEF OnAck
<1>12. turn < s.nextTurn => turn < acks[p]
  <2>1. acks[p] \in Nat /\ needed <= acks[p]
    BY <1>4
  <2> QED  BY <2>1, <1>2
<1> QED  BY <1>2, <1>4, <1>6, <1>10, <1>11, <1>12

\* The hashes of a client and of the referee go where the reports are, and nowhere else.
LEMMA OnHashFields ==
  ASSUME NEW s, SequencerType(s), NEW p \in Seats, NEW turn \in Nat, NEW hash
  PROVE  LET t == OnHash(s, p, turn, hash)
         IN /\ t.nextTurn = s.nextTurn /\ t.active = s.active /\ t.acked = s.acked
            /\ t.queue = s.queue /\ t.carry = s.carry /\ t.queuedBy = s.queuedBy
            /\ t.referee = s.referee
            /\ t.reports = IF TakesReport(s, p, turn) THEN With(s.reports, <<turn, p>>, hash)
                                                      ELSE s.reports
<1> DEFINE reports == With(s.reports, <<turn, p>>, hash)
<1>1. DOMAIN s = Fields
  BY DEF SequencerType
<1>2. OnHash(s, p, turn, hash) = IF TakesReport(s, p, turn) THEN [s EXCEPT !.reports = reports] ELSE s
  BY Zenon DEF OnHash
<1> HIDE DEF reports
<1>3. CASE TakesReport(s, p, turn)
  BY <1>1, <1>2, <1>3 DEF Fields, reports
<1>4. CASE ~TakesReport(s, p, turn)
  BY <1>2, <1>4
<1> QED  BY <1>3, <1>4

LEMMA OnRefereeHashFields ==
  ASSUME NEW s, SequencerType(s), NEW turn \in Nat, NEW hash
  PROVE  LET t == OnRefereeHash(s, turn, hash)
         IN /\ t.nextTurn = s.nextTurn /\ t.active = s.active /\ t.acked = s.acked
            /\ t.queue = s.queue /\ t.carry = s.carry /\ t.queuedBy = s.queuedBy
            /\ t.reports = s.reports
            /\ t.referee = IF TakesReferee(s, turn) THEN With(s.referee, turn, hash)
                                                    ELSE s.referee
<1> DEFINE referee == With(s.referee, turn, hash)
<1>1. DOMAIN s = Fields
  BY DEF SequencerType
<1>2. OnRefereeHash(s, turn, hash) = IF TakesReferee(s, turn) THEN [s EXCEPT !.referee = referee] ELSE s
  BY Zenon DEF OnRefereeHash
<1> HIDE DEF referee
<1>3. CASE TakesReferee(s, turn)
  BY <1>1, <1>2, <1>3 DEF Fields, referee
<1>4. CASE ~TakesReferee(s, turn)
  BY <1>2, <1>4
<1> QED  BY <1>3, <1>4

\* run_local(): the host's own turn is acknowledged for all its seats, and then its hash is
\* reported if it is one of a turn whose hash is taken.
RunStep(turn, acked, reported, players) ==
  /\ turn \in Nat /\ turn = ran[HostSeat] /\ turn < Len(log)
  /\ ran' = [ran EXCEPT ![HostSeat] = turn + 1]
  /\ UNCHANGED <<log, present, violations, holdup, wire, toHost, mode, desynced, got,
                 clicked, astray>>
  /\ Acknowledged(sq, acked)
  /\ \A p \in Seats \ (Bots \cup {HostSeat}) : acked.acked[p] = sq.acked[p]
  /\ \A p \in Seats \cap (Bots \cup {HostSeat}) :
       /\ acked.acked[p] = sq.acked[p] \/ acked.acked[p] <= turn + 1
       /\ turn < acked.acked[p]
  /\ reported = IF Seatless THEN OnRefereeHash(acked, turn, Hash(HostSeat, turn))
                            ELSE OnHash(acked, HostSeat, turn, Hash(HostSeat, turn))
  /\ players \subseteq Seats
  /\ players = IF Seatless THEN RefereeDesyncs(reported, turn)
                           ELSE HashDesyncs(reported, HostSeat, turn)
  /\ \/ /\ (turn + 1) % HashEvery # 0
        /\ sq' = acked /\ UNCHANGED <<frozen, named, toGuest>>
     \/ /\ (turn + 1) % HashEvery = 0
        /\ sq' = reported /\ Found(turn, players)

LEMMA HostRunsSteps ==
  ASSUME IInv, HostRuns
  PROVE  \E turn, acked, reported, players : RunStep(turn, acked, reported, players)
<1>1. PICK turn, own, needed :
        /\ turn = ran[HostSeat]
        /\ own = IF Seatless THEN Bots ELSE Bots \cup {HostSeat}
        /\ needed = Lesser(turn + 1, sq.nextTurn)
  OBVIOUS
<1>2. PICK level :
        level = [sq EXCEPT !.acked = [p \in Seats |-> IF p \in own /\ needed > @[p]
                                                      THEN needed ELSE @[p]]]
  OBVIOUS
<1>3. PICK acked : acked = IF own = {} THEN level ELSE OnAck(level, CHOOSE p \in own : TRUE, turn)
  OBVIOUS
<1>4. PICK reported :
        reported = IF Seatless THEN OnRefereeHash(acked, turn, Hash(HostSeat, turn))
                               ELSE OnHash(acked, HostSeat, turn, Hash(HostSeat, turn))
  OBVIOUS
<1>5. PICK players : players = IF Seatless THEN RefereeDesyncs(reported, turn)
                                           ELSE HashDesyncs(reported, HostSeat, turn)
  OBVIOUS
<1>6. /\ turn \in Nat /\ turn < Len(got[HostSeat]) /\ ran' = [ran EXCEPT ![HostSeat] = turn + 1]
      /\ UNCHANGED <<log, present, violations, holdup, wire, toHost, mode, desynced, got,
                     clicked, astray>>
  BY <1>1, Numbers DEF HostRuns, guestVars
<1>7. \/ /\ (turn + 1) % HashEvery # 0
         /\ sq' = acked /\ UNCHANGED <<frozen, named, toGuest>>
      \/ /\ (turn + 1) % HashEvery = 0
         /\ sq' = reported /\ Found(turn, players)
  <2>1. IF (turn + 1) % HashEvery # 0
        THEN sq' = acked /\ UNCHANGED <<frozen, named, toGuest>>
        ELSE sq' = reported /\ Found(turn, players)
    BY <1>1, <1>2, <1>3, <1>4, <1>5, Zenon DEF HostRuns
  <2> QED  BY <2>1
<1>8. /\ SequencerType(sq) /\ sq.nextTurn \in Nat /\ sq.acked \in [Seats -> Nat]
      /\ Len(log) = sq.nextTurn /\ got[HostSeat] = log
  BY Numbers DEF IInv, TurnsOK
<1>9. turn < Len(log) /\ needed = turn + 1
  BY <1>1, <1>6, <1>8 DEF Lesser
<1>10. own \subseteq Seats /\ \A p \in Seats : p \in own <=> p \in Bots \cup {HostSeat}
  BY <1>1, Players DEF Seatless
<1>11. PICK acks : acks = [p \in Seats |-> IF p \in own /\ needed > sq.acked[p]
                                          THEN needed ELSE sq.acked[p]]
  OBVIOUS
<1>12. /\ acks \in [Seats -> Nat]
       /\ \A p \in Seats : /\ sq.acked[p] <= acks[p]
                           /\ acks[p] = sq.acked[p] \/ (p \in own /\ acks[p] = turn + 1)
                           /\ p \in own => turn < acks[p]
  <2>1. ASSUME NEW p \in Seats
        PROVE  /\ acks[p] \in Nat /\ sq.acked[p] <= acks[p]
               /\ acks[p] = sq.acked[p] \/ (p \in own /\ acks[p] = turn + 1)
               /\ p \in own => turn < acks[p]
    <3>1. sq.acked[p] \in Nat /\ turn \in Nat /\ needed = turn + 1
      BY <1>6, <1>8, <1>9
    <3>2. acks[p] = IF p \in own /\ needed > sq.acked[p] THEN needed ELSE sq.acked[p]
      BY <1>11
    <3>3. CASE p \in own /\ needed > sq.acked[p]
      BY <3>1, <3>2, <3>3
    <3>4. CASE ~(p \in own /\ needed > sq.acked[p])
      <4>1. acks[p] = sq.acked[p]
        BY <3>2, <3>4
      <4>2. p \in own => ~(turn + 1 > sq.acked[p])
        BY <3>1, <3>4
      <4> QED  BY <3>1, <4>1, <4>2
    <3> QED  BY <3>3, <3>4
  <2> QED  BY <2>1, <1>11
<1>13. level = [sq EXCEPT !.acked = acks]
  BY <1>2, <1>8, <1>11 DEF SequencerType, Fields
<1>14. Acknowledged(sq, level) /\ level.acked = acks
  BY <1>8, <1>12, <1>13, AckedAlone
<1>15. level.reports = sq.reports /\ level.referee = sq.referee
  BY <1>8, <1>13 DEF SequencerType, Fields
<1>16. /\ Acknowledged(level, acked)
       /\ \A p \in Seats : /\ acked.acked[p] = acks[p] \/ (p \in own /\ acked.acked[p] <= turn + 1)
                           /\ p \in own => turn < acked.acked[p]
  <2>1. CASE own = {}
    <3>1. acked = level
      BY <1>3, <2>1
    <3>2. Acknowledged(level, level)
      BY <1>14 DEF Acknowledged, SequencerType
    <3>3. acked.acked = acks
      BY <3>1, <1>14
    <3>4. Acknowledged(level, acked)
      BY <3>1, <3>2
    <3> QED  BY <3>3, <3>4, <2>1, Zenon
  <2>2. CASE own # {}
    <3>1. PICK q \in own : acked = OnAck(level, q, turn)
      BY <1>3, <2>2
    <3>2. q \in Seats /\ SequencerType(level) /\ level.nextTurn = sq.nextTurn
      BY <1>10, <1>14 DEF Acknowledged
    <3>3. /\ Acknowledged(level, acked)
          /\ \A p \in Seats \ {q} : acked.acked[p] = level.acked[p]
          /\ acked.acked[q] = level.acked[q] \/ acked.acked[q] <= turn + 1
          /\ turn < level.nextTurn => turn < acked.acked[q]
      BY <3>1, <3>2, <1>6, OnAckFields
    <3>4. turn < acked.acked[q]
      BY <3>2, <3>3, <1>8, <1>9
    <3>5. ASSUME NEW p \in Seats
          PROVE  /\ acked.acked[p] = acks[p] \/ (p \in own /\ acked.acked[p] <= turn + 1)
                 /\ p \in own => turn < acked.acked[p]
      <4>1. CASE p = q
        <5>1. acked.acked[p] = acks[p] \/ acked.acked[p] <= turn + 1
          BY <4>1, <3>3, <1>14
        <5>2. p \in own /\ turn < acked.acked[p]
          BY <4>1, <3>1, <3>4
        <5> QED  BY <5>1, <5>2, Zenon
      <4>2. CASE p # q
        BY <4>2, <3>3, <1>12, <1>14
      <4> QED  BY <4>1, <4>2
    <3> QED  BY <3>3, <3>5
  <2> QED  BY <2>1, <2>2
<1>17. Acknowledged(sq, acked)
  <2>1. /\ SequencerType(acked) /\ acked.nextTurn = sq.nextTurn /\ acked.active = sq.active
        /\ acked.queue = sq.queue /\ acked.carry = sq.carry /\ acked.queuedBy = sq.queuedBy
        /\ level.active = sq.active
    BY <1>14, <1>16 DEF Acknowledged
  <2>2. \A p \in Seats : sq.acked[p] <= acked.acked[p]
    <3> TAKE p \in Seats
    <3>1. sq.acked[p] <= level.acked[p] /\ level.acked[p] <= acked.acked[p]
      BY <1>14, <1>16 DEF Acknowledged
    <3>2. sq.acked[p] \in Nat /\ level.acked[p] \in Nat /\ acked.acked[p] \in Nat
      BY <1>8, <1>12, <1>14, <2>1 DEF SequencerType
    <3> QED  BY <3>1, <3>2
  <2>3. /\ \A k \in DOMAIN acked.reports : k \in DOMAIN sq.reports /\ acked.reports[k] = sq.reports[k]
        /\ \A k \in DOMAIN acked.referee : k \in DOMAIN sq.referee /\ acked.referee[k] = sq.referee[k]
    BY <1>15, <1>16 DEF Acknowledged
  <2>4. /\ \A k \in DOMAIN sq.reports : k \notin DOMAIN acked.reports =>
             \A p \in Seats : sq.active[p] => k[1] + 1 < acked.acked[p]
        /\ \A k \in DOMAIN sq.referee : k \notin DOMAIN acked.referee =>
             \A p \in Seats : sq.active[p] => k + 1 < acked.acked[p]
    BY <1>15, <1>16, <2>1 DEF Acknowledged
  <2> QED  BY <2>1, <2>2, <2>3, <2>4 DEF Acknowledged
<1>18. players \in SUBSET Seats
  <2>1. SequencerType(acked)
    BY <1>17 DEF Acknowledged
  <2>2. CASE Seatless
    BY <1>4, <1>5, <1>6, <2>1, <2>2, OnRefereeHashType
  <2>3. CASE ~Seatless
    BY <1>4, <1>5, <1>6, <2>1, <2>3, OnHashType, Numbers
  <2> QED  BY <2>2, <2>3
<1>19. ASSUME NEW p \in Seats
       PROVE  /\ acked.acked[p] = sq.acked[p] \/ (p \in own /\ acked.acked[p] <= turn + 1)
              /\ p \in own => turn < acked.acked[p]
  <2>1. /\ acked.acked[p] = acks[p] \/ (p \in own /\ acked.acked[p] <= turn + 1)
        /\ p \in own => turn < acked.acked[p]
    BY <1>16
  <2>2. acks[p] = sq.acked[p] \/ (p \in own /\ acks[p] = turn + 1)
    BY <1>12
  <2>3. turn + 1 <= turn + 1
    BY <1>6
  <2> QED  BY <2>1, <2>2, <2>3
<1>20. /\ \A p \in Seats \ (Bots \cup {HostSeat}) : acked.acked[p] = sq.acked[p]
       /\ \A p \in Seats \cap (Bots \cup {HostSeat}) :
            /\ acked.acked[p] = sq.acked[p] \/ acked.acked[p] <= turn + 1
            /\ turn < acked.acked[p]
  BY <1>10, <1>19
<1>21. RunStep(turn, acked, reported, players)
  BY <1>1, <1>4, <1>5, <1>6, <1>7, <1>9, <1>17, <1>18, <1>20 DEF RunStep
<1> QED  BY <1>21

------------------------------------------------------------------------------
(* No turn is missing: what comes to a guest *)

\* How many turns a guest has still to be told of
Due(g) == Len(log) - Len(got[g])

\* On a link that both ends take to stand come those turns, in their order, and then what
\* there is to say of a desync.
Complete(g) ==
  LET box == toGuest[g]
  IN /\ Due(g) <= Len(box)
     /\ \A i \in 1 .. Len(box) : /\ box[i].type = "Turn" <=> i <= Due(g)
                                 /\ i <= Due(g) => box[i].turn = Len(got[g]) + i - 1

\* As long as the match is not stopped nothing but turns is sent.
OnlyTurns(g) == ~frozen => \A i \in 1 .. Len(toGuest[g]) : toGuest[g][i].type = "Turn"

GapInv ==
  \A g \in Guests : /\ present[g] /\ wire[g] /\ mode[g] = "Normal" => Complete(g)
                    /\ OnlyTurns(g)

\* The lengths of what is counted
LEMMA Lengths ==
  ASSUME IInv, NEW g \in Guests
  PROVE  /\ Len(log) \in Nat /\ Len(got[g]) \in Nat /\ Due(g) \in Nat
         /\ toGuest[g] \in Seq(ToGuestMsg) /\ Len(toGuest[g]) \in Nat
         /\ got[g] \in Seq(Turns) /\ log \in Seq(Turns)
<1>1. /\ log \in Seq(Turns) /\ got[g] \in Seq(Turns) /\ toGuest[g] \in Seq(ToGuestMsg)
      /\ Len(got[g]) <= Len(log)
  BY Players DEF IInv, TurnsOK, Agreement
<1>2. Len(log) \in Nat /\ Len(got[g]) \in Nat /\ Len(toGuest[g]) \in Nat
  BY <1>1, LenProperties
<1> QED  BY <1>1, <1>2 DEF Due

\* For a guest to whom nothing is sent or taken nothing changes, whoever else goes.
LEMMA GapKeptFor ==
  ASSUME GapInv, NEW g \in Guests,
         Len(log') = Len(log), got'[g] = got[g], toGuest'[g] = toGuest[g],
         frozen => frozen', present'[g] => present[g], wire'[g] => wire[g],
         mode'[g] = "Normal" => mode[g] = "Normal"
  PROVE  /\ present'[g] /\ wire'[g] /\ mode'[g] = "Normal" => Complete(g)'
         /\ OnlyTurns(g)'
<1>1. present'[g] /\ wire'[g] /\ mode'[g] = "Normal" => Complete(g)
  BY DEF GapInv
<1>2. OnlyTurns(g)
  BY DEF GapInv
<1>3. Complete(g)' <=> Complete(g)
  BY DEF Complete, Due
<1>4. OnlyTurns(g)'
  BY <1>2 DEF OnlyTurns
<1> QED  BY <1>1, <1>3, <1>4

\* A step that sends and takes nothing
LEMMA GapKept ==
  ASSUME GapInv, UNCHANGED <<log, got, toGuest, frozen>>,
         \A g \in Guests : /\ present'[g] => present[g]
                           /\ wire'[g] => wire[g]
                           /\ mode'[g] = "Normal" => mode[g] = "Normal"
  PROVE  GapInv'
<1> SUFFICES ASSUME NEW g \in Guests
             PROVE  /\ present'[g] /\ wire'[g] /\ mode'[g] = "Normal" => Complete(g)'
                    /\ OnlyTurns(g)'
  BY DEF GapInv
<1> QED  BY GapKeptFor

\* Guests that are out, and nobody else, are no longer present and have no link.
LEMMA FewerThere ==
  ASSUME NEW gone, Leaves(gone)
  PROVE  \A g \in Guests : (present'[g] => present[g]) /\ (wire'[g] => wire[g])
BY DEF Leaves

\* What is sent comes after all that was sent before.
LEMMA SentAfter ==
  ASSUME IInv, NEW g \in Guests, NEW msgs \in Seq(ToGuestMsg), toGuest' = Tell(msgs)
  PROVE  \/ toGuest'[g] = toGuest[g] /\ g \notin Listeners
         \/ /\ g \in Listeners
            /\ Len(toGuest'[g]) = Len(toGuest[g]) + Len(msgs)
            /\ \A i \in 1 .. Len(toGuest[g]) : toGuest'[g][i] = toGuest[g][i]
            /\ \A i \in 1 .. Len(msgs) : toGuest'[g][Len(toGuest[g]) + i] = msgs[i]
<1>1. toGuest[g] \in Seq(ToGuestMsg) /\ Len(toGuest[g]) \in Nat /\ Len(msgs) \in Nat
  BY Lengths, LenProperties
<1>2. CASE g \notin Listeners
  BY <1>2 DEF Tell
<1>3. CASE g \in Listeners
  <2>1. toGuest'[g] = toGuest[g] \o msgs
    BY <1>3 DEF Tell
  <2>2. /\ Len(toGuest[g] \o msgs) = Len(toGuest[g]) + Len(msgs)
        /\ \A i \in 1 .. Len(toGuest[g]) + Len(msgs) :
             (toGuest[g] \o msgs)[i] = IF i <= Len(toGuest[g]) THEN toGuest[g][i]
                                       ELSE msgs[i - Len(toGuest[g])]
    BY <1>1, ConcatProperties
  <2>3. ASSUME NEW i \in 1 .. Len(toGuest[g]) PROVE toGuest'[g][i] = toGuest[g][i]
    BY <1>1, <2>1, <2>2
  <2>4. ASSUME NEW i \in 1 .. Len(msgs)
        PROVE  toGuest'[g][Len(toGuest[g]) + i] = msgs[i]
    <3>1. /\ Len(toGuest[g]) + i \in 1 .. Len(toGuest[g]) + Len(msgs)
          /\ ~(Len(toGuest[g]) + i <= Len(toGuest[g]))
          /\ Len(toGuest[g]) + i - Len(toGuest[g]) = i
      BY <1>1
    <3>2. toGuest'[g][Len(toGuest[g]) + i] = (toGuest[g] \o msgs)[Len(toGuest[g]) + i]
      BY <2>1
    <3> QED  BY <2>2, <3>1, <3>2
  <2> QED  BY <1>3, <2>1, <2>2, <2>3, <2>4
<1> QED  BY <1>2, <1>3

\* The desyncs that are told come after the turns, and the match is stopped.
LEMMA FoundGap ==
  ASSUME IInv, GapInv, NEW turn \in Nat, NEW players \in SUBSET Seats, Found(turn, players),
         UNCHANGED <<log, got, mode, present, wire>>
  PROVE  GapInv'
<1>1. CASE players = {}
  <2>1. UNCHANGED <<frozen, toGuest>>
    BY <1>1 DEF Found
  <2> QED  BY <2>1, GapKept
<1>2. CASE players # {}
  <2>1. Cardinality(players) \in Nat
    BY Players, FS_Subset, FS_CardinalityType
  <2>2. PICK msgs : msgs = [i \in 1 .. Cardinality(players) |-> DesyncMsg(turn)]
    OBVIOUS
  <2>3. msgs \in [1 .. Cardinality(players) -> ToGuestMsg]
    BY <2>2 DEF DesyncMsg, ToGuestMsg
  <2>4. msgs \in Seq(ToGuestMsg) /\ DOMAIN msgs = 1 .. Cardinality(players)
    BY <2>1, <2>3, FunctionIsSeq
  <2>5. Len(msgs) \in Nat /\ DOMAIN msgs = 1 .. Len(msgs)
    BY <2>4, LenProperties
  <2>6. \A i \in 1 .. Len(msgs) : msgs[i].type = "Desync"
    BY <2>2, <2>4, <2>5 DEF DesyncMsg
  <2>7. frozen' = TRUE /\ toGuest' = Tell(msgs)
    BY <1>2, <2>2 DEF Found
  <2> SUFFICES ASSUME NEW g \in Guests
               PROVE  /\ present'[g] /\ wire'[g] /\ mode'[g] = "Normal" => Complete(g)'
                      /\ OnlyTurns(g)'
    BY DEF GapInv
  <2>8. CASE toGuest'[g] = toGuest[g]
    BY <2>7, <2>8, GapKeptFor
  <2>9. CASE toGuest'[g] # toGuest[g]
    <3>1. /\ Len(toGuest'[g]) = Len(toGuest[g]) + Len(msgs)
          /\ \A i \in 1 .. Len(toGuest[g]) : toGuest'[g][i] = toGuest[g][i]
          /\ \A i \in 1 .. Len(msgs) : toGuest'[g][Len(toGuest[g]) + i] = msgs[i]
      BY <2>4, <2>7, <2>9, SentAfter
    <3>2. Due(g)' = Due(g) /\ Due(g) \in Nat /\ Len(toGuest[g]) \in Nat /\ Len(got'[g]) = Len(got[g])
      BY Lengths DEF Due
    <3>3. ASSUME present'[g] /\ wire'[g] /\ mode'[g] = "Normal" PROVE Complete(g)'
      <4>1. /\ Due(g) <= Len(toGuest[g])
            /\ \A i \in 1 .. Len(toGuest[g]) :
                 /\ toGuest[g][i].type = "Turn" <=> i <= Due(g)
                 /\ i <= Due(g) => toGuest[g][i].turn = Len(got[g]) + i - 1
        BY <3>3 DEF GapInv, Complete
      <4>2. ASSUME NEW i \in 1 .. Len(toGuest'[g])
            PROVE  /\ toGuest'[g][i].type = "Turn" <=> i <= Due(g)
                   /\ i <= Due(g) => toGuest'[g][i].turn = Len(got[g]) + i - 1
        <5>1. CASE i <= Len(toGuest[g])
          <6>1. i \in 1 .. Len(toGuest[g])
            BY <5>1, <3>2
          <6> QED  BY <6>1, <3>1, <4>1
        <5>2. CASE ~(i <= Len(toGuest[g]))
          <6>1. PICK j \in 1 .. Len(msgs) : i = Len(toGuest[g]) + j
            <7>1. i - Len(toGuest[g]) \in 1 .. Len(msgs) /\ i = Len(toGuest[g]) + (i - Len(toGuest[g]))
              BY <5>2, <3>1, <3>2, <2>5
            <7> QED  BY <7>1
          <6>2. toGuest'[g][i].type = "Desync"
            BY <6>1, <3>1, <2>6
          <6>3. ~(i <= Due(g))
            BY <5>2, <4>1, <3>2
          <6> QED  BY <6>2, <6>3
        <5> QED  BY <5>1, <5>2
      <4>3. Due(g) <= Len(toGuest'[g])
        BY <4>1, <3>1, <3>2, <2>5
      <4> QED  BY <4>2, <4>3, <3>2 DEF Complete
    <3>4. OnlyTurns(g)'
      BY <2>7 DEF OnlyTurns
    <3> QED  BY <3>3, <3>4
  <2> QED  BY <2>8, <2>9
<1> QED  BY <1>1, <1>2

\* Sealing: the new turn comes after the others, to everybody whose link stands.
LEMMA HostSealsGap == ASSUME IInv, GapInv, HostSeals PROVE GapInv'
<1>1. PICK msg : msg = TurnMsg(sq.nextTurn, SealedTurn(sq))
  OBVIOUS
<1>2. /\ ~frozen /\ log' = Append(log, SealedTurn(sq)) /\ toGuest' = Tell(<<msg>>)
      /\ got' = [got EXCEPT ![HostSeat] = Append(@, SealedTurn(sq))]
      /\ UNCHANGED <<frozen, mode>>
  BY <1>1 DEF HostSeals, guestVars
<1>3. \E gone : Leaves(gone)
  BY DEF HostSeals
<1>4. \A g \in Guests : (present'[g] => present[g]) /\ (wire'[g] => wire[g])
  BY <1>3, FewerThere
<1>5. SealedTurn(sq) \in Turns /\ log \in Seq(Turns) /\ Len(log) = sq.nextTurn /\ sq.nextTurn \in Nat
  BY Numbers DEF IInv, HostOK, TurnsOK, SequencerType, SealedTurn
<1>6. msg \in ToGuestMsg /\ msg.type = "Turn" /\ msg.turn = Len(log)
  BY <1>1, <1>5 DEF TurnMsg, ToGuestMsg
<1>7. Len(log') = Len(log) + 1
  BY <1>2, <1>5, AppendProperties
<1>8. <<msg>> \in Seq(ToGuestMsg) /\ Len(<<msg>>) = 1 /\ <<msg>>[1] = msg
  BY <1>6
<1>9. PICK msgs \in Seq(ToGuestMsg) : msgs = <<msg>>
  BY <1>8
<1> SUFFICES ASSUME NEW g \in Guests
             PROVE  /\ present'[g] /\ wire'[g] /\ mode'[g] = "Normal" => Complete(g)'
                    /\ OnlyTurns(g)'
  BY DEF GapInv
<1>10. g # HostSeat /\ got'[g] = got[g]
  BY <1>2, Numbers DEF IInv, TurnsOK
<1>11. /\ Len(log) \in Nat /\ Len(got[g]) \in Nat /\ Due(g) \in Nat /\ Len(toGuest[g]) \in Nat
       /\ Due(g) = Len(log) - Len(got[g])
  BY Lengths DEF Due
<1>12. Due(g)' = Due(g) + 1 /\ Len(got'[g]) = Len(got[g])
  BY <1>7, <1>10, <1>11 DEF Due
<1>13. CASE g \notin Listeners
  <2>1. toGuest'[g] = toGuest[g]
    BY <1>2, <1>13 DEF Tell
  <2>2. ~(present'[g] /\ wire'[g])
    BY <1>4, <1>13 DEF Listeners
  <2>3. OnlyTurns(g)'
    BY <2>1, <1>2 DEF OnlyTurns, GapInv
  <2> QED  BY <2>2, <2>3
<1>14. CASE g \in Listeners
  <2>1. \/ toGuest'[g] = toGuest[g] /\ g \notin Listeners
        \/ /\ g \in Listeners
           /\ Len(toGuest'[g]) = Len(toGuest[g]) + Len(msgs)
           /\ \A i \in 1 .. Len(toGuest[g]) : toGuest'[g][i] = toGuest[g][i]
           /\ \A i \in 1 .. Len(msgs) : toGuest'[g][Len(toGuest[g]) + i] = msgs[i]
    <3>1. toGuest' = Tell(msgs)
      BY <1>2, <1>9
    <3> QED  BY <3>1, SentAfter
  <2>2. /\ Len(toGuest'[g]) = Len(toGuest[g]) + 1
        /\ \A i \in 1 .. Len(toGuest[g]) : toGuest'[g][i] = toGuest[g][i]
        /\ toGuest'[g][Len(toGuest[g]) + 1] = msg
    BY <2>1, <1>8, <1>9, <1>14
  <2>3. \A i \in 1 .. Len(toGuest[g]) : toGuest[g][i].type = "Turn"
    BY <1>2 DEF GapInv, OnlyTurns
  <2>4. ASSUME NEW i \in 1 .. Len(toGuest'[g]) PROVE toGuest'[g][i].type = "Turn"
    <3>1. i \in 1 .. Len(toGuest[g]) \/ i = Len(toGuest[g]) + 1
      BY <2>2, <1>11
    <3> QED  BY <3>1, <2>2, <2>3, <1>6
  <2>5. ASSUME present'[g] /\ wire'[g] /\ mode'[g] = "Normal" PROVE Complete(g)'
    <3>1. /\ Due(g) <= Len(toGuest[g])
          /\ \A i \in 1 .. Len(toGuest[g]) :
               /\ toGuest[g][i].type = "Turn" <=> i <= Due(g)
               /\ i <= Due(g) => toGuest[g][i].turn = Len(got[g]) + i - 1
      <4>1. mode[g] = "Normal"
        BY <2>5, <1>2
      <4> QED  BY <2>5, <4>1, <1>4 DEF GapInv, Complete
    <3>2. Due(g) = Len(toGuest[g])
      <4>1. CASE Len(toGuest[g]) = 0
        BY <4>1, <3>1, <1>11
      <4>2. CASE Len(toGuest[g]) # 0
        <5>1. Len(toGuest[g]) \in 1 .. Len(toGuest[g])
          BY <4>2, <1>11
        <5>2. Len(toGuest[g]) <= Due(g)
          BY <5>1, <2>3, <3>1
        <5>3. Due(g) <= Len(toGuest[g])
          BY <3>1
        <5>4. Due(g) \in Nat /\ Len(toGuest[g]) \in Nat
          BY <1>11
        <5> QED  BY <5>2, <5>3, <5>4
      <4> QED  BY <4>1, <4>2
    <3>3. ASSUME NEW i \in 1 .. Len(toGuest'[g])
          PROVE  /\ i <= Due(g) + 1
                 /\ toGuest'[g][i].turn = Len(got[g]) + i - 1
      <4>1. i <= Due(g) + 1
        <5>1. Len(toGuest'[g]) = Len(toGuest[g]) + 1
          BY <2>2
        <5> QED  BY <5>1, <3>2, <1>11
      <4>2. CASE i \in 1 .. Len(toGuest[g])
        <5>1. i <= Due(g)
          BY <4>2, <3>2, <1>11
        <5>2. toGuest[g][i].turn = Len(got[g]) + i - 1 /\ toGuest'[g][i] = toGuest[g][i]
          BY <5>1, <4>2, <3>1, <2>2
        <5> QED  BY <4>1, <5>2
      <4>3. CASE i = Len(toGuest[g]) + 1
        <5>1. toGuest'[g][i] = msg
          BY <4>3, <2>2
        <5>2. Len(log) = Len(got[g]) + i - 1
          BY <4>3, <3>2, <1>11
        <5> QED  BY <4>1, <5>1, <5>2, <1>6
      <4>4. i \in 1 .. Len(toGuest[g]) \/ i = Len(toGuest[g]) + 1
        BY <2>2, <1>11
      <4> QED  BY <4>2, <4>3, <4>4
    <3>4. Due(g)' <= Len(toGuest'[g])
      BY <3>2, <2>2, <1>11, <1>12
    <3> QED  BY <3>3, <3>4, <2>4, <1>12 DEF Complete
  <2>6. OnlyTurns(g)'
    BY <2>4 DEF OnlyTurns
  <2> QED  BY <2>5, <2>6
<1> QED  BY <1>13, <1>14

\* poll_host(): the turn that comes is the next one, and is taken.
LEMMA GuestHearsGap == ASSUME IInv, GapInv, NEW g \in Guests, GuestHears(g) PROVE GapInv'
<1>1. PICK m : m = Head(toGuest[g])
  OBVIOUS
<1>2. /\ mode[g] = "Normal" /\ toGuest[g] # <<>>
      /\ \/ m.type = "Turn" /\ got' = Take(g, m)
         \/ m.type = "Desync" /\ got' = got
      /\ toGuest' = [toGuest EXCEPT ![g] = Tail(@)]
      /\ UNCHANGED <<log, frozen, present, wire, mode>>
  BY <1>1 DEF GuestHears, hostVars
<1>3. /\ toGuest \in [Guests -> Seq(ToGuestMsg)] /\ got \in [Machines -> Seq(Turns)]
      /\ Guests \subseteq Machines
  BY Players DEF IInv, TurnsOK
<1>4. /\ Len(toGuest[g]) \in Nat \ {0} /\ m = toGuest[g][1] /\ m \in ToGuestMsg
      /\ Len(Tail(toGuest[g])) = Len(toGuest[g]) - 1
      /\ \A i \in 1 .. Len(Tail(toGuest[g])) : Tail(toGuest[g])[i] = toGuest[g][i + 1]
  BY <1>1, <1>2, <1>3, EmptySeq, HeadTailProperties
<1> SUFFICES ASSUME NEW h \in Guests
             PROVE  /\ present'[h] /\ wire'[h] /\ mode'[h] = "Normal" => Complete(h)'
                    /\ OnlyTurns(h)'
  BY DEF GapInv
<1>5. CASE h # g
  <2>1. toGuest'[h] = toGuest[h] /\ got'[h] = got[h]
    BY <1>2, <1>3, <1>5 DEF Take
  <2> QED  BY <2>1, <1>2, GapKeptFor
<1>6. CASE h = g
  <2>1. /\ Len(log) \in Nat /\ Len(got[g]) \in Nat /\ Due(g) \in Nat /\ Len(toGuest[g]) \in Nat
        /\ Due(g) = Len(log) - Len(got[g])
    BY Lengths DEF Due
  <2>2. /\ Len(toGuest'[g]) = Len(toGuest[g]) - 1
        /\ \A i \in 1 .. Len(toGuest'[g]) : toGuest'[g][i] = toGuest[g][i + 1]
    BY <1>2, <1>3, <1>4
  <2>3. \A i \in 1 .. Len(toGuest'[g]) : i \in Nat /\ i + 1 \in 1 .. Len(toGuest[g])
    <3>1. Len(toGuest'[g]) = Len(toGuest[g]) - 1
      BY <2>2
    <3> QED  BY <3>1, <2>1
  <2>4. OnlyTurns(g)'
    <3> SUFFICES ASSUME ~frozen, NEW i \in 1 .. Len(toGuest'[g])
                 PROVE  toGuest'[g][i].type = "Turn"
      BY <1>2 DEF OnlyTurns
    <3>1. toGuest[g][i + 1].type = "Turn"
      BY <2>3 DEF GapInv, OnlyTurns
    <3> QED  BY <3>1, <2>2
  <2>5. ASSUME present'[g] /\ wire'[g] /\ mode'[g] = "Normal" PROVE Complete(g)'
    <3>1. Complete(g)
      BY <2>5, <1>2 DEF GapInv
    <3>2. Due(g) <= Len(toGuest[g])
      BY <3>1 DEF Complete
    <3>3. \A i \in 1 .. Len(toGuest[g]) :
            /\ toGuest[g][i].type = "Turn" <=> i <= Due(g)
            /\ i <= Due(g) => toGuest[g][i].turn = Len(got[g]) + i - 1
      BY <3>1 DEF Complete
    <3>4. /\ m.type = "Turn" <=> 1 <= Due(g)
          /\ 1 <= Due(g) => m.turn = Len(got[g])
      <4>1. 1 \in 1 .. Len(toGuest[g]) /\ Len(got[g]) + 1 - 1 = Len(got[g])
        BY <1>4, <2>1
      <4> QED  BY <4>1, <3>3, <1>4
    <3>5. \A i \in 1 .. Len(toGuest'[g]) :
            /\ toGuest'[g][i].type = "Turn" <=> i + 1 <= Due(g)
            /\ i + 1 <= Due(g) => toGuest'[g][i].turn = Len(got[g]) + (i + 1) - 1
      BY <2>2, <2>3, <3>3
    <3>6. CASE m.type = "Turn"
      <4>1. 1 <= Due(g) /\ m.turn = Len(got[g])
        BY <3>6, <3>4
      <4>2. got' = [got EXCEPT ![g] = Append(@, m.commands)] /\ m.commands \in Turns
        BY <1>2, <1>4, <3>6, <4>1 DEF Take, ToGuestMsg
      <4>3. Len(got'[g]) = Len(got[g]) + 1
        BY <4>2, <1>3, AppendProperties
      <4>4. Due(g)' = Due(g) - 1
        BY <4>3, <1>2, <2>1 DEF Due
      <4>5. Due(g)' <= Len(toGuest'[g])
        <5>1. Len(toGuest'[g]) = Len(toGuest[g]) - 1
          BY <2>2
        <5>2. Due(g) \in Nat /\ Len(toGuest[g]) \in Nat
          BY <2>1
        <5> QED  BY <5>1, <5>2, <4>4, <3>2
      <4>6. ASSUME NEW i \in 1 .. Len(toGuest'[g])
            PROVE  /\ toGuest'[g][i].type = "Turn" <=> i <= Due(g)'
                   /\ i <= Due(g)' => toGuest'[g][i].turn = Len(got'[g]) + i - 1
        <5>1. i \in Nat
          BY <2>3
        <5>2. /\ i + 1 <= Due(g) <=> i <= Due(g)'
              /\ Len(got[g]) + (i + 1) - 1 = Len(got'[g]) + i - 1
          BY <5>1, <4>3, <4>4, <2>1
        <5> QED  BY <5>2, <3>5
      <4> QED  BY <4>5, <4>6 DEF Complete
    <3>7. CASE m.type = "Desync"
      <4>1. Due(g) = 0
        BY <3>7, <3>4, <2>1
      <4>2. got' = got /\ Due(g)' = Due(g)
        BY <3>7, <1>2 DEF Due
      <4>3. Due(g)' <= Len(toGuest'[g])
        <5>1. Len(toGuest'[g]) = Len(toGuest[g]) - 1
          BY <2>2
        <5> QED  BY <5>1, <4>1, <4>2, <1>4
      <4>4. ASSUME NEW i \in 1 .. Len(toGuest'[g])
            PROVE  /\ toGuest'[g][i].type = "Turn" <=> i <= Due(g)'
                   /\ i <= Due(g)' => toGuest'[g][i].turn = Len(got'[g]) + i - 1
        <5>1. ~(i + 1 <= Due(g)) /\ ~(i <= Due(g)')
          BY <2>3, <4>1, <4>2
        <5> QED  BY <5>1, <3>5
      <4> QED  BY <4>3, <4>4 DEF Complete
    <3> QED  BY <3>6, <3>7, <1>2
  <2> QED  BY <2>4, <2>5, <1>6
<1> QED  BY <1>5, <1>6

\* A link that breaks is no longer one that stands; what comes is part of what was sent.
LEMMA BreaksGap == ASSUME IInv, GapInv, NEW g \in Guests, Breaks(g) PROVE GapInv'
<1>1. /\ wire' = [wire EXCEPT ![g] = FALSE] /\ wire \in [Guests -> BOOLEAN]
      /\ UNCHANGED <<log, got, frozen, present, mode>>
  BY DEF Breaks, hostVars, guestVars, IInv, LinksOK
<1>2. PICK k \in 0 .. Len(toGuest[g]) : toGuest' = [toGuest EXCEPT ![g] = SubSeq(@, 1, k)]
  BY DEF Breaks
<1>3. toGuest \in [Guests -> Seq(ToGuestMsg)] /\ Len(toGuest[g]) \in Nat
  BY Lengths DEF IInv, TurnsOK
<1> SUFFICES ASSUME NEW h \in Guests
             PROVE  /\ present'[h] /\ wire'[h] /\ mode'[h] = "Normal" => Complete(h)'
                    /\ OnlyTurns(h)'
  BY DEF GapInv
<1>4. CASE h # g
  <2>1. toGuest'[h] = toGuest[h] /\ wire'[h] = wire[h]
    BY <1>1, <1>2, <1>3, <1>4
  <2> QED  BY <2>1, <1>1, GapKeptFor
<1>5. CASE h = g
  <2>1. ~wire'[g]
    BY <1>1
  <2>2. toGuest'[g] = SubSeq(toGuest[g], 1, k)
    BY <1>2, <1>3
  <2>3. \A j \in 1 .. k : j \in 1 .. Len(toGuest[g]) /\ toGuest[g][j] \in ToGuestMsg
    BY <1>3, ElementOfSeq
  <2>4. 1 \in Int /\ k \in Int
    BY <1>3
  <2>5. /\ Len(SubSeq(toGuest[g], 1, k)) = IF 1 <= k THEN k - 1 + 1 ELSE 0
        /\ \A j \in 1 .. k - 1 + 1 : SubSeq(toGuest[g], 1, k)[j] = toGuest[g][1 + j - 1]
    BY <2>3, <2>4, SubSeqProperties
  <2>6. \A i \in 1 .. Len(toGuest'[g]) : i \in 1 .. k /\ toGuest'[g][i] = toGuest[g][i]
    BY <2>2, <2>4, <2>5
  <2>7. OnlyTurns(g)'
    BY <1>1, <2>3, <2>6 DEF GapInv, OnlyTurns
  <2> QED  BY <2>1, <2>7, <1>5
<1> QED  BY <1>4, <1>5

\* go_lost()
LEMMA GuestLostGap == ASSUME IInv, GapInv, NEW g \in Guests, GuestLost(g) PROVE GapInv'
<1>1. /\ mode' = [mode EXCEPT ![g] = "Lost"] /\ toGuest' = [toGuest EXCEPT ![g] = <<>>]
      /\ UNCHANGED <<log, got, frozen, present, wire>>
      /\ mode \in [Guests -> {"Normal", "Lost"}] /\ toGuest \in [Guests -> Seq(ToGuestMsg)]
  BY DEF GuestLost, hostVars, IInv, GuestsOK, TurnsOK
<1> SUFFICES ASSUME NEW h \in Guests
             PROVE  /\ present'[h] /\ wire'[h] /\ mode'[h] = "Normal" => Complete(h)'
                    /\ OnlyTurns(h)'
  BY DEF GapInv
<1>2. CASE h # g
  <2>1. toGuest'[h] = toGuest[h] /\ mode'[h] = mode[h]
    BY <1>1, <1>2
  <2> QED  BY <2>1, <1>1, GapKeptFor
<1>3. CASE h = g
  <2>1. mode'[g] # "Normal" /\ toGuest'[g] = <<>> /\ Len(<<>>) = 0
    BY <1>1, EmptySeq
  <2>2. OnlyTurns(g)'
    BY <2>1 DEF OnlyTurns
  <2> QED  BY <2>1, <2>2, <1>3
<1> QED  BY <1>2, <1>3

\* poll_clients(): nothing is sent, but for the desyncs that a report shows.
LEMMA HostHearsGap == ASSUME IInv, GapInv, NEW g \in Guests, HostHears(g) PROVE GapInv'
<1>1. PICK m, inbox : m = Head(toHost[g]) /\ inbox = [toHost EXCEPT ![g] = Tail(@)]
  OBVIOUS
<1>2. /\ toHost[g] # <<>> /\ UNCHANGED <<log, got, mode>>
      /\ \/ m.type = "Command" /\ HostCommand(g, m.command, inbox)
         \/ m.type = "TurnAck" /\ HostAck(g, m.turn, inbox)
         \/ m.type = "Hash" /\ HostHash(g, m.turn, m.hash, inbox)
         \/ m.type = "Leave" /\ HostLeave(g)
  BY <1>1, Zenon DEF HostHears, guestVars
<1>3. m \in ToHostMsg
  BY <1>1, <1>2, InboxOK DEF IInv
<1>4. CASE m.type = "Command" /\ HostCommand(g, m.command, inbox)
  <2>1. UNCHANGED <<frozen, toGuest>>
    BY <1>4 DEF HostCommand
  <2>2. UNCHANGED <<present, wire>> \/ Leaves({g})
    BY <1>4 DEF HostCommand, Violation
  <2>3. \A h \in Guests : (present'[h] => present[h]) /\ (wire'[h] => wire[h])
    BY <2>2, FewerThere
  <2> QED  BY <2>1, <2>3, <1>2, GapKept
<1>5. CASE m.type = "TurnAck" /\ HostAck(g, m.turn, inbox)
  BY <1>2, <1>5, GapKept DEF HostAck
<1>6. CASE m.type = "Hash" /\ HostHash(g, m.turn, m.hash, inbox)
  <2>1. m.turn \in Nat
    BY <1>3, <1>6 DEF ToHostMsg, LeaveMsg
  <2>2. PICK s : s = OnHash(sq, g, m.turn, m.hash)
    OBVIOUS
  <2>3. Found(m.turn, HashDesyncs(s, g, m.turn)) /\ UNCHANGED <<present, wire>>
    BY <1>6, <2>2 DEF HostHash
  <2>4. HashDesyncs(s, g, m.turn) \in SUBSET Seats
    BY <2>1, <2>2, OnHashType, Players DEF IInv, HostOK
  <2> QED  BY <2>1, <2>3, <2>4, <1>2, FoundGap
<1>7. CASE m.type = "Leave" /\ HostLeave(g)
  <2>1. UNCHANGED <<frozen, toGuest>> /\ Leaves({g})
    BY <1>7 DEF HostLeave, DropGuest
  <2>2. \A h \in Guests : (present'[h] => present[h]) /\ (wire'[h] => wire[h])
    BY <2>1, FewerThere
  <2> QED  BY <2>1, <2>2, <1>2, GapKept
<1> QED  BY <1>2, <1>4, <1>5, <1>6, <1>7

\* Every step keeps what comes to the guests complete.
LEMMA NextGap == IInv /\ GapInv /\ [Next]_vars => GapInv'
<1> SUFFICES ASSUME IInv, GapInv, [Next]_vars PROVE GapInv'
  OBVIOUS
<1>1. ASSUME UNCHANGED <<log, got, toGuest, frozen, mode>>,
             UNCHANGED <<present, wire>> \/ \E gone : Leaves(gone)
      PROVE  GapInv'
  <2>1. \A g \in Guests : /\ present'[g] => present[g]
                          /\ wire'[g] => wire[g]
                          /\ mode'[g] = "Normal" => mode[g] = "Normal"
    BY <1>1, FewerThere
  <2> QED  BY <1>1, <2>1, GapKept
<1>2. CASE UNCHANGED vars
  BY <1>1, <1>2 DEF vars, hostVars, linkVars, guestVars
<1>3. CASE HostSeals
  BY <1>3, HostSealsGap
<1>4. CASE HostWaits
  <2>1. UNCHANGED <<log, got, toGuest, frozen, mode>>
    BY <1>4 DEF HostWaits, guestVars
  <2>2. UNCHANGED <<present, wire>> \/ \E gone : Leaves(gone)
    BY <1>4 DEF HostWaits, DropGuest
  <2> QED  BY <1>1, <2>1, <2>2
<1>5. CASE HostRuns
  <2>1. PICK turn, acked, reported, players : RunStep(turn, acked, reported, players)
    BY <1>5, HostRunsSteps
  <2>2. /\ turn \in Nat /\ players \in SUBSET Seats
        /\ UNCHANGED <<log, got, present, wire, mode>>
        /\ UNCHANGED <<frozen, named, toGuest>> \/ Found(turn, players)
    BY <2>1 DEF RunStep
  <2>3. CASE UNCHANGED <<frozen, named, toGuest>>
    BY <1>1, <2>2, <2>3
  <2>4. CASE Found(turn, players)
    BY <2>2, <2>4, FoundGap
  <2> QED  BY <2>2, <2>3, <2>4
<1>6. ASSUME NEW p \in Seats, HostClicks(p) PROVE GapInv'
  BY <1>1, <1>6 DEF HostClicks, linkVars, guestVars
<1>7. ASSUME NEW g \in Guests, HostHears(g) PROVE GapInv'
  BY <1>7, HostHearsGap
<1>8. ASSUME NEW g \in Guests,
             HostFindsClosed(g) \/ HostSendFails(g) \/ HostSilence(g) \/ HostPolice(g)
      PROVE  GapInv'
  <2>1. LosesGuest(g)
    BY <1>8 DEF HostFindsClosed, HostSendFails, HostSilence, HostPolice
  <2> QED  BY <1>1, <2>1 DEF LosesGuest, DropGuest, guestVars
<1>9. ASSUME NEW g \in Guests, GuestStep(g) PROVE GapInv'
  <2>1. CASE GuestClicks(g) \/ GuestRuns(g)
    BY <1>1, <2>1 DEF GuestClicks, GuestRuns, hostVars, guestVars
  <2>2. CASE GuestFindsClosed(g) \/ GuestSilence(g)
    BY <2>2, GuestLostGap DEF GuestFindsClosed, GuestSilence
  <2>3. CASE GuestLeaves(g)
    <3>1. \A h \in Guests : wire'[h] => wire[h]
      BY <2>3 DEF GuestLeaves, IInv, LinksOK
    <3> QED  BY <2>3, <3>1, GapKept DEF GuestLeaves, hostVars, guestVars
  <2> QED  BY <1>9, <2>1, <2>2, <2>3, GuestHearsGap DEF GuestStep
<1>10. ASSUME NEW g \in Guests, Breaks(g) PROVE GapInv'
  BY <1>10, BreaksGap
<1>11. ASSUME NEW m \in Machines, GoesAstray(m) PROVE GapInv'
  BY <1>1, <1>11 DEF GoesAstray, hostVars, linkVars, guestVars
<1> QED  BY <1>2, <1>3, <1>4, <1>5, <1>6, <1>7, <1>8, <1>9, <1>10, <1>11 DEF Next, HostStep

\* start(): nothing was sealed, and nothing is on its way.
LEMMA InitGap == Init => GapInv
<1> SUFFICES ASSUME Init, NEW g \in Guests PROVE Complete(g) /\ OnlyTurns(g)
  BY DEF GapInv
<1>1. log = <<>> /\ got[g] = <<>> /\ toGuest[g] = <<>> /\ Len(<<>>) = 0
  BY Players, EmptySeq DEF Init
<1> QED  BY <1>1 DEF Complete, OnlyTurns, Due

\* As long as a guest and the host both take the link to stand, what the guest has and what
\* is on its way is the whole history (NoGap), for any number of guests and whatever the
\* other guests and their links do.
THEOREM NoTurnIsMissing == Spec => []NoGap
<1>1. IInv /\ GapInv => NoGap
  <2> SUFFICES ASSUME IInv, GapInv, NEW g \in Guests, present[g], wire[g], mode[g] = "Normal",
                      NEW turns, turns = {i \in DOMAIN toGuest[g] : toGuest[g][i].type = "Turn"}
               PROVE  Len(got[g]) + Cardinality(turns) = Len(log)
    BY DEF NoGap
  <2>1. /\ Len(log) \in Nat /\ Len(got[g]) \in Nat /\ Due(g) \in Nat /\ Len(toGuest[g]) \in Nat
        /\ DOMAIN toGuest[g] = 1 .. Len(toGuest[g])
    BY Lengths, LenProperties
  <2>2. /\ Due(g) <= Len(toGuest[g])
        /\ \A i \in 1 .. Len(toGuest[g]) : toGuest[g][i].type = "Turn" <=> i <= Due(g)
    BY DEF GapInv, Complete
  <2>3. turns = 1 .. Due(g)
    BY <2>1, <2>2
  <2>4. Cardinality(1 .. Due(g)) = Due(g)
    <3>1. /\ 1 \in Int /\ Due(g) \in Int
      BY <2>1
    <3>2. Cardinality(1 .. Due(g)) = IF 1 > Due(g) THEN 0 ELSE Due(g) - 1 + 1
      BY <3>1, FS_Interval
    <3> QED  BY <2>1, <3>2
  <2>5. Due(g) = Len(log) - Len(got[g])
    BY DEF Due
  <2>6. Cardinality(turns) = Len(log) - Len(got[g])
    BY <2>3, <2>4, <2>5
  <2>7. Len(log) \in Nat /\ Len(got[g]) \in Nat
    BY <2>1
  <2> QED  BY <2>6, <2>7
<1> QED  BY <1>1, InitIInv, InitGap, NextIInv, NextGap, PTL DEF Spec

------------------------------------------------------------------------------
(* Nobody is accused falsely: the hashes *)

\* A hash that is on its way is that of a turn that its machine has run.
TrueHash(g, m) == m.type = "Hash" => m.turn < ran[g] /\ m.hash = Hash(g, m.turn)
TrueHashes == \A g \in Guests : \A i \in 1 .. Len(toHost[g]) : TrueHash(g, toHost[g][i])

\* So is one that was reported, and one that the referee has.
TrueReports ==
  \A k \in DOMAIN sq.reports :
    k[2] \in Machines /\ k[1] < ran[k[2]] /\ sq.reports[k] = Hash(k[2], k[1])
TrueReferee ==
  \A t \in DOMAIN sq.referee : t < ran[HostSeat] /\ sq.referee[t] = Hash(HostSeat, t)

\* Who is named differs from the host in a turn that both have run.
Differs(p) ==
  \E t \in Nat : t < ran[p] /\ t < ran[HostSeat] /\ Hash(p, t) # Hash(HostSeat, t)
TrueNamed == \A p \in named : p \in Guests /\ Differs(p)

TruthInv == TrueHashes /\ TrueReports /\ TrueReferee /\ TrueNamed

\* The step changes no hash of a turn that was run, and takes no turn back.
PastKept ==
  /\ ran' \in [Machines -> Nat] /\ \A m \in Machines : ran[m] <= ran'[m]
  /\ \A m \in Machines, t \in Nat : t < ran[m] => Hash(m, t)' = Hash(m, t)

\* What there is to read was there before; so the step says nothing new to the host.
Old(box) ==
  \A g \in Guests : \A i \in 1 .. Len(box[g]) :
    \E j \in 1 .. Len(toHost[g]) : box[g][i] = toHost[g][j]
NothingSaid == Old(toHost')

\* A step in which no game goes astray keeps the past.
LEMMA PastIsKept ==
  ASSUME IInv, astray' = astray, ran' = ran
  PROVE  PastKept
<1>1. ran \in [Machines -> Nat]
  BY Numbers
<1>2. \A m \in Machines : ran[m] <= ran'[m]
  BY <1>1
<1> QED  BY <1>1, <1>2 DEF PastKept, Hash

LEMMA RunningKeepsPast ==
  ASSUME IInv, astray' = astray, NEW m \in Machines, NEW n \in Nat, ran[m] <= n,
         ran' = [ran EXCEPT ![m] = n]
  PROVE  PastKept
<1>1. ran \in [Machines -> Nat]
  BY Numbers
<1>2. \A k \in Machines : ran[k] <= ran'[k]
  BY <1>1
<1>3. ran' \in [Machines -> Nat]
  BY <1>1
<1> QED  BY <1>2, <1>3 DEF PastKept, Hash

\* Neither does a game that goes astray from its next turn on change what was run.
LEMMA AstrayKeepsPast ==
  ASSUME IInv, NEW n \in Machines, GoesAstray(n)
  PROVE  PastKept
<1>1. /\ astray[n] = Never /\ astray' = [astray EXCEPT ![n] = ran[n]] /\ ran' = ran
      /\ ran \in [Machines -> Nat] /\ astray \in [Machines -> 0 .. Never]
  BY Numbers DEF GoesAstray, IInv, GuestsOK
<1>2. ASSUME NEW m \in Machines, NEW t \in Nat, t < ran[m] PROVE Hash(m, t)' = Hash(m, t)
  <2>1. CASE m = n
    <3>1. ran[m] <= Len(got[m]) /\ Len(got[m]) <= Len(log) /\ Len(log) <= MaxTurns
      BY DEF IInv, TurnsOK, Agreement
    <3>2. Len(got[m]) \in Nat /\ Len(log) \in Nat /\ MaxTurns \in Nat /\ ran[m] \in Nat
      BY <1>1, LenProperties, Players DEF IInv, TurnsOK
    <3>3. ~(t >= Never)
      BY <1>2, <3>1, <3>2 DEF Never
    <3>4. ~(t >= ran[m])
      BY <1>2, <3>2
    <3>5. astray'[m] = ran[m] /\ astray[m] = Never
      BY <1>1, <2>1
    <3> QED  BY <3>3, <3>4, <3>5 DEF Hash
  <2>2. CASE m # n
    BY <1>1, <2>2 DEF Hash
  <2> QED  BY <2>1, <2>2
<1>3. \A m \in Machines : ran[m] <= ran'[m]
  BY <1>1
<1> QED  BY <1>1, <1>2, <1>3 DEF PastKept

\* The messages that are there stay true.
LEMMA HashesStayTrue ==
  ASSUME IInv, TrueHashes, PastKept, NothingSaid
  PROVE  TrueHashes'
<1> SUFFICES ASSUME NEW g \in Guests, NEW i \in 1 .. Len(toHost'[g]), NEW m,
                    m = toHost'[g][i], m.type = "Hash"
             PROVE  m.turn < ran'[g] /\ m.hash = Hash(g, m.turn)'
  BY DEF TrueHashes, TrueHash, Hash
<1>1. PICK j \in 1 .. Len(toHost[g]) : toHost'[g][i] = toHost[g][j]
  BY DEF NothingSaid, Old
<1>2. m = toHost[g][j]
  BY <1>1
<1>3. m \in ToHostMsg /\ m.type = "Hash"
  BY <1>1, <1>2, ElementOfSeq DEF IInv, LinksOK
<1>4. m.turn \in Nat
  BY <1>3 DEF ToHostMsg, LeaveMsg
<1>5. m.turn < ran[g] /\ m.hash = Hash(g, m.turn)
  BY <1>2, <1>3 DEF TrueHashes, TrueHash
<1>6. g \in Machines /\ ran[g] \in Nat /\ ran'[g] \in Nat /\ ran[g] <= ran'[g]
  BY Numbers DEF PastKept
<1>7. m.turn < ran'[g]
  BY <1>4, <1>5, <1>6
<1>8. Hash(g, m.turn)' = Hash(g, m.turn)
  BY <1>4, <1>5, <1>6 DEF PastKept
<1> QED  BY <1>5, <1>7, <1>8

\* A report that was true, or the one that comes, is true afterwards.
LEMMA ReportsStayTrue ==
  ASSUME IInv, TrueReports, PastKept, DOMAIN sq'.reports \subseteq Nat \X Seats,
         NEW turn \in Nat, NEW p, p \in Machines, turn < ran'[p], NEW hash, hash = Hash(p, turn)',
         \A k \in DOMAIN sq'.reports :
           \/ k \in DOMAIN sq.reports /\ sq'.reports[k] = sq.reports[k]
           \/ k = <<turn, p>> /\ sq'.reports[k] = hash
  PROVE  TrueReports'
<1> SUFFICES ASSUME NEW k \in DOMAIN sq'.reports
             PROVE  /\ k[2] \in Machines /\ k[1] < ran'[k[2]]
                    /\ sq'.reports[k] = Hash(k[2], k[1])'
  BY DEF TrueReports, Machines
<1>1. CASE k \in DOMAIN sq.reports /\ sq'.reports[k] = sq.reports[k]
  <2>1. PICK t, q : t = k[1] /\ q = k[2]
    OBVIOUS
  <2>2. t \in Nat /\ q \in Machines /\ t < ran[q] /\ sq.reports[k] = Hash(q, t)
    BY <1>1, <2>1 DEF TrueReports
  <2>3. ran[q] \in Nat /\ ran'[q] \in Nat /\ ran[q] <= ran'[q] /\ Hash(q, t)' = Hash(q, t)
    BY <2>2, Numbers DEF PastKept
  <2>4. t < ran'[q]
    BY <2>2, <2>3
  <2> QED  BY <1>1, <2>1, <2>2, <2>3, <2>4
<1>2. CASE k = <<turn, p>> /\ sq'.reports[k] = hash
  <2>1. k[1] = turn /\ k[2] = p
    BY <1>2
  <2> QED  BY <1>2, <2>1
<1> QED  BY <1>1, <1>2

LEMMA RefereeStaysTrue ==
  ASSUME IInv, TrueReferee, PastKept, DOMAIN sq'.referee \subseteq Nat,
         NEW turn \in Nat, turn < ran'[HostSeat], NEW hash, hash = Hash(HostSeat, turn)',
         \A t \in DOMAIN sq'.referee :
           \/ t \in DOMAIN sq.referee /\ sq'.referee[t] = sq.referee[t]
           \/ t = turn /\ sq'.referee[t] = hash
  PROVE  TrueReferee'
<1> SUFFICES ASSUME NEW t \in DOMAIN sq'.referee
             PROVE  t < ran'[HostSeat] /\ sq'.referee[t] = Hash(HostSeat, t)'
  BY DEF TrueReferee
<1>1. CASE t \in DOMAIN sq.referee /\ sq'.referee[t] = sq.referee[t]
  <2>1. t \in Nat /\ t < ran[HostSeat] /\ sq.referee[t] = Hash(HostSeat, t)
    BY <1>1 DEF TrueReferee
  <2>2. /\ ran[HostSeat] \in Nat /\ ran'[HostSeat] \in Nat /\ ran[HostSeat] <= ran'[HostSeat]
        /\ Hash(HostSeat, t)' = Hash(HostSeat, t)
    BY <2>1, Numbers DEF PastKept
  <2>3. t < ran'[HostSeat]
    BY <2>1, <2>2
  <2> QED  BY <1>1, <2>1, <2>2, <2>3
<1>2. CASE t = turn /\ sq'.referee[t] = hash
  BY <1>2
<1> QED  BY <1>1, <1>2

\* Who was named rightly stays so.
LEMMA NamedStaysTrue ==
  ASSUME IInv, TrueNamed, PastKept, NEW p \in named
  PROVE  p \in Guests /\ Differs(p)'
<1>1. p \in Guests /\ p \in Machines /\ HostSeat \in Machines
  BY Numbers DEF TrueNamed
<1>2. PICK t \in Nat : t < ran[p] /\ t < ran[HostSeat] /\ Hash(p, t) # Hash(HostSeat, t)
  BY DEF TrueNamed, Differs
<1>3. Hash(p, t)' = Hash(p, t) /\ Hash(HostSeat, t)' = Hash(HostSeat, t)
  BY <1>1, <1>2 DEF PastKept
<1>4. /\ ran[p] \in Nat /\ ran'[p] \in Nat /\ ran[p] <= ran'[p]
      /\ ran[HostSeat] \in Nat /\ ran'[HostSeat] \in Nat /\ ran[HostSeat] <= ran'[HostSeat]
  BY <1>1, Numbers DEF PastKept
<1>5. t < ran'[p] /\ t < ran'[HostSeat]
  BY <1>2, <1>4
<1> QED  BY <1>1, <1>2, <1>3, <1>5 DEF Differs

\* Whose report differs from the host's differs from the host.
LEMMA DifferentReports ==
  ASSUME TrueReports', NEW q, NEW turn \in Nat,
         <<turn, q>> \in DOMAIN sq'.reports,
         NEW hash, hash = Hash(HostSeat, turn)', turn < ran'[HostSeat],
         sq'.reports[<<turn, q>>] # hash, q # HostSeat
  PROVE  q \in Guests /\ Differs(q)'
<1>1. q \in Machines /\ turn < ran'[q] /\ sq'.reports[<<turn, q>>] = Hash(q, turn)'
  BY DEF TrueReports, Machines, Hash
<1> QED  BY <1>1 DEF Machines, Differs

\* The desyncs of a report, and of the referee's, name those who differ.
LEMMA DesyncsAreTrue ==
  ASSUME TrueReports', TrueReferee', NEW p \in Seats, NEW turn \in Nat,
         p # HostSeat \/ ~Seatless,
         TakesReport(sq', p, turn) => <<turn, p>> \in DOMAIN sq'.reports,
         NEW q \in HashDesyncs(sq', p, turn)
  PROVE  q \in Guests /\ Differs(q)'
<1>0. TakesReport(sq', p, turn)
  BY DEF HashDesyncs
<1>1. CASE Seatless
  <2>1. q = p /\ turn \in DOMAIN sq'.referee /\ sq'.reports[<<turn, q>>] # sq'.referee[turn]
    BY <1>0, <1>1 DEF HashDesyncs
  <2>2. turn < ran'[HostSeat] /\ sq'.referee[turn] = Hash(HostSeat, turn)'
    BY <2>1 DEF TrueReferee
  <2>3. <<turn, q>> \in DOMAIN sq'.reports /\ q # HostSeat
    BY <1>0, <1>1, <2>1
  <2> QED  BY <2>1, <2>2, <2>3, DifferentReports
<1>2. CASE ~Seatless
  <2>1. /\ q \in Seats /\ <<turn, q>> \in DOMAIN sq'.reports /\ q # HostSeat
        /\ <<turn, HostSeat>> \in DOMAIN sq'.reports
        /\ sq'.reports[<<turn, q>>] # sq'.reports[<<turn, HostSeat>>]
    BY <1>0, <1>2 DEF HashDesyncs, Reported
  <2>2. turn < ran'[HostSeat] /\ sq'.reports[<<turn, HostSeat>>] = Hash(HostSeat, turn)'
    BY <2>1 DEF TrueReports, Hash
  <2> QED  BY <2>1, <2>2, DifferentReports
<1> QED  BY <1>1, <1>2

LEMMA RefereeDesyncsAreTrue ==
  ASSUME TrueReports', TrueReferee', NEW turn \in Nat, Seatless,
         TakesReferee(sq', turn) => turn \in DOMAIN sq'.referee,
         NEW q \in RefereeDesyncs(sq', turn)
  PROVE  q \in Guests /\ Differs(q)'
<1>1. TakesReferee(sq', turn)
  BY DEF RefereeDesyncs
<1>2. q \in Seats /\ <<turn, q>> \in DOMAIN sq'.reports /\ sq'.reports[<<turn, q>>] # sq'.referee[turn]
  BY <1>1 DEF RefereeDesyncs, Reported
<1>3. turn < ran'[HostSeat] /\ sq'.referee[turn] = Hash(HostSeat, turn)'
  BY <1>1 DEF TrueReferee
<1>4. q # HostSeat
  BY <1>2 DEF Seatless
<1> QED  BY <1>2, <1>3, <1>4, DifferentReports

\* What is read no more, what is left when a message was read and what arrives on a link
\* that breaks were there before.
LEMMA UnreadIsOld ==
  ASSUME NEW box, Old(box), NEW gone
  PROVE  Old(Unread(box, gone))
<1>1. Len(<<>>) = 0
  BY EmptySeq
<1> QED  BY <1>1 DEF Old, Unread

LEMMA SameIsOld == Old(toHost)
BY DEF Old

LEMMA TailOf ==
  ASSUME IInv, NEW g \in Guests, toHost[g] # <<>>
  PROVE  /\ Len(toHost[g]) \in Nat \ {0} /\ Head(toHost[g]) = toHost[g][1]
         /\ Len(Tail(toHost[g])) = Len(toHost[g]) - 1
         /\ \A i \in 1 .. Len(Tail(toHost[g])) :
              i + 1 \in 1 .. Len(toHost[g]) /\ Tail(toHost[g])[i] = toHost[g][i + 1]
<1>1. toHost[g] \in Seq(ToHostMsg)
  BY DEF IInv, LinksOK
<1>2. /\ Len(toHost[g]) \in Nat \ {0} /\ Head(toHost[g]) = toHost[g][1]
      /\ Len(Tail(toHost[g])) = Len(toHost[g]) - 1
      /\ \A i \in 1 .. Len(Tail(toHost[g])) : Tail(toHost[g])[i] = toHost[g][i + 1]
  BY <1>1, EmptySeq, HeadTailProperties
<1>3. ASSUME NEW i \in 1 .. Len(Tail(toHost[g])) PROVE i + 1 \in 1 .. Len(toHost[g])
  <2>1. Len(Tail(toHost[g])) = Len(toHost[g]) - 1 /\ Len(toHost[g]) \in Nat
    BY <1>2
  <2> QED  BY <2>1
<1> QED  BY <1>2, <1>3

LEMMA InboxIsOld ==
  ASSUME IInv, NEW g \in Guests, toHost[g] # <<>>
  PROVE  Old([toHost EXCEPT ![g] = Tail(@)])
<1>1. PICK inbox : inbox = [toHost EXCEPT ![g] = Tail(@)]
  OBVIOUS
<1>2. ASSUME NEW h \in Guests, NEW i \in 1 .. Len(inbox[h])
      PROVE  \E j \in 1 .. Len(toHost[h]) : inbox[h][i] = toHost[h][j]
  <2>1. CASE h = g
    <3>1. inbox[h] = Tail(toHost[g])
      BY <1>1, <2>1 DEF IInv, LinksOK
    <3>2. i + 1 \in 1 .. Len(toHost[g]) /\ Tail(toHost[g])[i] = toHost[g][i + 1]
      BY <3>1, TailOf
    <3> QED  BY <2>1, <3>1, <3>2
  <2>2. CASE h # g
    <3>1. inbox[h] = toHost[h]
      BY <1>1, <2>2 DEF IInv, LinksOK
    <3> QED  BY <3>1
  <2> QED  BY <2>1, <2>2
<1> QED  BY <1>1, <1>2 DEF Old

LEMMA CutOf ==
  ASSUME IInv, NEW g \in Guests, NEW k \in 0 .. Len(toHost[g])
  PROVE  LET cut == SubSeq(toHost[g], 1, k)
         IN /\ cut \in Seq(ToHostMsg) /\ Len(cut) = k /\ DOMAIN cut = 1 .. k
            /\ \A i \in 1 .. k : i \in 1 .. Len(toHost[g]) /\ cut[i] = toHost[g][i]
<1>1. toHost[g] \in Seq(ToHostMsg) /\ Len(toHost[g]) \in Nat
  BY LenProperties DEF IInv, LinksOK
<1>2. \A j \in 1 .. k : j \in 1 .. Len(toHost[g]) /\ toHost[g][j] \in ToHostMsg
  BY <1>1, ElementOfSeq
<1>3. 1 \in Int /\ k \in Int /\ k \in Nat
  BY <1>1
<1>4. /\ SubSeq(toHost[g], 1, k) \in Seq(ToHostMsg)
      /\ Len(SubSeq(toHost[g], 1, k)) = IF 1 <= k THEN k - 1 + 1 ELSE 0
      /\ \A j \in 1 .. k - 1 + 1 : SubSeq(toHost[g], 1, k)[j] = toHost[g][1 + j - 1]
  BY <1>2, <1>3, SubSeqProperties
<1>5. Len(SubSeq(toHost[g], 1, k)) = k
  BY <1>3, <1>4
<1>6. \A j \in 1 .. k : SubSeq(toHost[g], 1, k)[j] = toHost[g][j]
  BY <1>3, <1>4
<1>7. DOMAIN SubSeq(toHost[g], 1, k) = 1 .. k
  BY <1>4, <1>5, LenProperties
<1> QED  BY <1>2, <1>4, <1>5, <1>6, <1>7

LEMMA CutIsOld ==
  ASSUME IInv, NEW g \in Guests, NEW k \in 0 .. Len(toHost[g])
  PROVE  Old([toHost EXCEPT ![g] = SubSeq(@, 1, k)])
<1>1. PICK inbox : inbox = [toHost EXCEPT ![g] = SubSeq(@, 1, k)]
  OBVIOUS
<1>2. ASSUME NEW h \in Guests, NEW i \in 1 .. Len(inbox[h])
      PROVE  \E j \in 1 .. Len(toHost[h]) : inbox[h][i] = toHost[h][j]
  <2>1. CASE h = g
    <3>1. inbox[h] = SubSeq(toHost[g], 1, k)
      BY <1>1, <2>1 DEF IInv, LinksOK
    <3>2. i \in 1 .. Len(toHost[g]) /\ inbox[h][i] = toHost[g][i]
      BY <3>1, CutOf
    <3> QED  BY <2>1, <3>2
  <2>2. CASE h # g
    <3>1. inbox[h] = toHost[h]
      BY <1>1, <2>2 DEF IInv, LinksOK
    <3> QED  BY <3>1
  <2> QED  BY <2>1, <2>2
<1> QED  BY <1>1, <1>2 DEF Old

\* What a guest says comes after all that it said before.
LEMMA SaidAfter ==
  ASSUME IInv, NEW g \in Guests, NEW msgs \in Seq(ToHostMsg), toHost' = Say(g, msgs)
  PROVE  /\ \A h \in Guests \ {g} : toHost'[h] = toHost[h]
         /\ \/ ~wire[g] /\ toHost'[g] = toHost[g]
            \/ /\ wire[g]
               /\ Len(toHost'[g]) = Len(toHost[g]) + Len(msgs)
               /\ \A i \in 1 .. Len(toHost[g]) : toHost'[g][i] = toHost[g][i]
               /\ \A i \in 1 .. Len(msgs) : toHost'[g][Len(toHost[g]) + i] = msgs[i]
<1>1. toHost[g] \in Seq(ToHostMsg) /\ Len(toHost[g]) \in Nat /\ Len(msgs) \in Nat
  BY LenProperties DEF IInv, LinksOK
<1>2. CASE ~wire[g]
  BY <1>2 DEF Say
<1>3. CASE wire[g]
  <2>1. toHost'[g] = toHost[g] \o msgs /\ \A h \in Guests \ {g} : toHost'[h] = toHost[h]
    BY <1>3 DEF Say, IInv, LinksOK
  <2>2. /\ Len(toHost[g] \o msgs) = Len(toHost[g]) + Len(msgs)
        /\ \A i \in 1 .. Len(toHost[g]) + Len(msgs) :
             (toHost[g] \o msgs)[i] = IF i <= Len(toHost[g]) THEN toHost[g][i]
                                      ELSE msgs[i - Len(toHost[g])]
    BY <1>1, ConcatProperties
  <2>3. ASSUME NEW i \in 1 .. Len(toHost[g]) PROVE toHost'[g][i] = toHost[g][i]
    BY <1>1, <2>1, <2>2
  <2>4. ASSUME NEW i \in 1 .. Len(msgs)
        PROVE  toHost'[g][Len(toHost[g]) + i] = msgs[i]
    <3>1. /\ Len(toHost[g]) + i \in 1 .. Len(toHost[g]) + Len(msgs)
          /\ ~(Len(toHost[g]) + i <= Len(toHost[g]))
          /\ Len(toHost[g]) + i - Len(toHost[g]) = i
      BY <1>1
    <3>2. toHost'[g][Len(toHost[g]) + i] = (toHost[g] \o msgs)[Len(toHost[g]) + i]
      BY <2>1
    <3> QED  BY <2>2, <3>1, <3>2
  <2> QED  BY <1>3, <2>1, <2>2, <2>3, <2>4
<1> QED  BY <1>2, <1>3

\* A guest that says only what is true leaves true messages.
LEMMA SayTrue ==
  ASSUME IInv, TrueHashes, PastKept, NEW g \in Guests, NEW msgs \in Seq(ToHostMsg),
         toHost' = Say(g, msgs),
         \A i \in 1 .. Len(msgs) : msgs[i].type = "Hash" =>
           msgs[i].turn < ran'[g] /\ \A t \in {msgs[i].turn} : msgs[i].hash = Hash(g, t)'
  PROVE  TrueHashes'
<1> SUFFICES ASSUME NEW h \in Guests, NEW i \in 1 .. Len(toHost'[h]), NEW m,
                    m = toHost'[h][i], m.type = "Hash"
             PROVE  m.turn < ran'[h] /\ m.hash = Hash(h, m.turn)'
  BY DEF TrueHashes, TrueHash, Hash
<1>1. toHost[h] \in Seq(ToHostMsg) /\ Len(toHost[h]) \in Nat /\ Len(msgs) \in Nat
  BY LenProperties DEF IInv, LinksOK
<1>2. ASSUME NEW j \in 1 .. Len(toHost[h]), m = toHost[h][j]
      PROVE  m.turn < ran'[h] /\ m.hash = Hash(h, m.turn)'
  <2>1. m \in ToHostMsg
    BY <1>1, <1>2, ElementOfSeq
  <2>2. m.turn \in Nat
    BY <2>1 DEF ToHostMsg, LeaveMsg
  <2>3. m.turn < ran[h] /\ m.hash = Hash(h, m.turn)
    BY <1>2 DEF TrueHashes, TrueHash
  <2>4. h \in Machines /\ ran[h] \in Nat /\ ran'[h] \in Nat /\ ran[h] <= ran'[h]
    BY Numbers DEF PastKept
  <2>5. m.turn < ran'[h]
    BY <2>2, <2>3, <2>4
  <2>6. Hash(h, m.turn)' = Hash(h, m.turn)
    BY <2>2, <2>3, <2>4 DEF PastKept
  <2> QED  BY <2>3, <2>5, <2>6
<1>3. /\ \A k \in Guests \ {g} : toHost'[k] = toHost[k]
      /\ \/ ~wire[g] /\ toHost'[g] = toHost[g]
         \/ /\ wire[g]
            /\ Len(toHost'[g]) = Len(toHost[g]) + Len(msgs)
            /\ \A j \in 1 .. Len(toHost[g]) : toHost'[g][j] = toHost[g][j]
            /\ \A j \in 1 .. Len(msgs) : toHost'[g][Len(toHost[g]) + j] = msgs[j]
  BY SaidAfter
<1>4. CASE toHost'[h] = toHost[h]
  BY <1>2, <1>4
<1>5. CASE toHost'[h] # toHost[h]
  <2>1. h = g
    BY <1>3, <1>5
  <2>2. i \in 1 .. Len(toHost[g]) \/ \E j \in 1 .. Len(msgs) : i = Len(toHost[g]) + j
    <3>1. Len(toHost'[g]) = Len(toHost[g]) + Len(msgs) /\ i \in 1 .. Len(toHost'[g])
      BY <1>3, <1>5, <2>1
    <3>2. CASE i <= Len(toHost[g])
      BY <3>1, <3>2, <1>1, <2>1
    <3>3. CASE ~(i <= Len(toHost[g]))
      <4>1. i - Len(toHost[g]) \in 1 .. Len(msgs) /\ i = Len(toHost[g]) + (i - Len(toHost[g]))
        BY <3>1, <3>3, <1>1, <2>1
      <4> QED  BY <4>1
    <3> QED  BY <3>2, <3>3
  <2>3. CASE i \in 1 .. Len(toHost[g])
    BY <1>2, <1>3, <1>5, <2>1, <2>3
  <2>4. ASSUME NEW j \in 1 .. Len(msgs), i = Len(toHost[g]) + j
        PROVE  m.turn < ran'[h] /\ m.hash = Hash(h, m.turn)'
    <3>1. m = msgs[j]
      BY <1>3, <1>5, <2>1, <2>4
    <3> QED  BY <3>1, <2>1
  <2> QED  BY <2>2, <2>3, <2>4
<1> QED  BY <1>4, <1>5

\* A step that reports nothing: of the reports none is new.
NothingReported ==
  /\ \A k \in DOMAIN sq'.reports : k \in DOMAIN sq.reports /\ sq'.reports[k] = sq.reports[k]
  /\ \A t \in DOMAIN sq'.referee : t \in DOMAIN sq.referee /\ sq'.referee[t] = sq.referee[t]

LEMMA SameReports ==
  ASSUME sq'.reports = sq.reports, sq'.referee = sq.referee
  PROVE  NothingReported
BY DEF NothingReported

\* A step that reports nothing and names nobody
LEMMA TruthKept ==
  ASSUME IInv, IInv', TruthInv, PastKept, TrueHashes', NothingReported, named' = named
  PROVE  TruthInv'
<1>1. DOMAIN sq'.reports \subseteq Nat \X Seats /\ DOMAIN sq'.referee \subseteq Nat
  BY DEF IInv, HostOK, SequencerType
<1>2. TrueReports'
  <2> SUFFICES ASSUME NEW k \in DOMAIN sq'.reports, NEW t, NEW q, t = k[1], q = k[2]
               PROVE  q \in Machines /\ t < ran'[q] /\ sq'.reports[k] = Hash(q, t)'
    BY DEF TrueReports, Machines, Hash
  <2>1. k \in DOMAIN sq.reports /\ sq'.reports[k] = sq.reports[k]
    BY DEF NothingReported
  <2>2. t \in Nat /\ q \in Machines /\ t < ran[q] /\ sq.reports[k] = Hash(q, t)
    BY <1>1, <2>1 DEF TruthInv, TrueReports
  <2>3. ran[q] \in Nat /\ ran'[q] \in Nat /\ ran[q] <= ran'[q] /\ Hash(q, t)' = Hash(q, t)
    BY <2>2, Numbers DEF PastKept
  <2>4. t < ran'[q]
    BY <2>2, <2>3
  <2> QED  BY <2>1, <2>2, <2>3, <2>4
<1>3. TrueReferee'
  <2> SUFFICES ASSUME NEW t \in DOMAIN sq'.referee
               PROVE  t < ran'[HostSeat] /\ sq'.referee[t] = Hash(HostSeat, t)'
    BY DEF TrueReferee
  <2>1. t \in DOMAIN sq.referee /\ sq'.referee[t] = sq.referee[t] /\ t \in Nat
    BY <1>1 DEF NothingReported
  <2>2. t < ran[HostSeat] /\ sq.referee[t] = Hash(HostSeat, t)
    BY <2>1 DEF TruthInv, TrueReferee
  <2>3. /\ ran[HostSeat] \in Nat /\ ran'[HostSeat] \in Nat /\ ran[HostSeat] <= ran'[HostSeat]
        /\ Hash(HostSeat, t)' = Hash(HostSeat, t)
    BY <2>1, <2>2, Numbers DEF PastKept
  <2>4. t < ran'[HostSeat]
    BY <2>1, <2>2, <2>3
  <2> QED  BY <2>1, <2>2, <2>3, <2>4
<1>4. TrueNamed'
  BY NamedStaysTrue DEF TruthInv, TrueNamed
<1> QED  BY <1>2, <1>3, <1>4 DEF TruthInv

\* drop() of a guest says and reports nothing.
LEMMA DropGuestSilent ==
  ASSUME IInv, NEW g \in Guests, DropGuest(g)
  PROVE  NothingSaid /\ NothingReported
<1>1. sq' = Out(sq, {g}) /\ toHost' = Unread(toHost, {g}) /\ SequencerType(sq)
  BY Numbers DEF DropGuest
<1>2. sq'.reports = sq.reports /\ sq'.referee = sq.referee
  BY <1>1, OutFields
<1>3. Old(Unread(toHost, {g}))
  BY SameIsOld, UnreadIsOld
<1> QED  BY <1>1, <1>2, <1>3, SameReports DEF NothingSaid

\* run_local(): the host reports the hash of the turn that it ran, and names those whose
\* report of it differs.
LEMMA HostRunsTruth == ASSUME IInv, IInv', TruthInv, HostRuns PROVE TruthInv'
<1>1. PICK turn, acked, reported, players : RunStep(turn, acked, reported, players)
  BY HostRunsSteps
<1>2. /\ turn \in Nat /\ turn = ran[HostSeat] /\ ran' = [ran EXCEPT ![HostSeat] = turn + 1]
      /\ toHost' = toHost /\ astray' = astray /\ Acknowledged(sq, acked)
  BY <1>1 DEF RunStep
<1>3. HostSeat \in Machines /\ turn < ran'[HostSeat] /\ turn + 1 \in Nat /\ ran[HostSeat] <= turn + 1
  BY <1>2, Numbers
<1>4. PastKept
  BY <1>2, <1>3, RunningKeepsPast
<1>5. TrueHashes'
  <2>1. NothingSaid
    BY <1>2, SameIsOld DEF NothingSaid
  <2> QED  BY <2>1, <1>4, HashesStayTrue DEF TruthInv
<1>6. PICK hash : hash = Hash(HostSeat, turn)
  OBVIOUS
<1>7. hash = Hash(HostSeat, turn)'
  BY <1>2, <1>6 DEF Hash
<1>8. /\ \A k \in DOMAIN acked.reports : k \in DOMAIN sq.reports /\ acked.reports[k] = sq.reports[k]
      /\ \A k \in DOMAIN acked.referee : k \in DOMAIN sq.referee /\ acked.referee[k] = sq.referee[k]
      /\ SequencerType(acked)
  BY <1>2 DEF Acknowledged
<1>9. DOMAIN sq'.reports \subseteq Nat \X Seats /\ DOMAIN sq'.referee \subseteq Nat
  BY DEF IInv, HostOK, SequencerType
<1>10. CASE sq' = acked /\ UNCHANGED <<frozen, named, toGuest>>
  <2>1. NothingReported
    BY <1>8, <1>10 DEF NothingReported
  <2> QED  BY <2>1, <1>4, <1>5, <1>10, TruthKept
<1>11. CASE sq' = reported /\ Found(turn, players)
  <2>1. named' = named \cup players
    BY <1>11 DEF Found
  <2>2. CASE Seatless
    <3>1. reported = OnRefereeHash(acked, turn, hash) /\ players = RefereeDesyncs(sq', turn)
      BY <1>1, <1>6, <1>11, <2>2 DEF RunStep
    <3>2. /\ sq'.nextTurn = acked.nextTurn /\ sq'.reports = acked.reports
          /\ sq'.referee = IF TakesReferee(acked, turn) THEN With(acked.referee, turn, hash)
                                                       ELSE acked.referee
      BY <1>2, <1>8, <1>11, <3>1, OnRefereeHashFields
    <3>3. ASSUME NEW t \in DOMAIN sq'.referee
          PROVE  \/ t \in DOMAIN sq.referee /\ sq'.referee[t] = sq.referee[t]
                 \/ t = turn /\ sq'.referee[t] = hash
      <4>1. CASE TakesReferee(acked, turn)
        <5>1. sq'.referee = With(acked.referee, turn, hash)
          BY <4>1, <3>2
        <5>2. \/ t = turn /\ sq'.referee[t] = hash
              \/ t \in DOMAIN acked.referee /\ sq'.referee[t] = acked.referee[t]
          BY <5>1 DEF With
        <5> QED  BY <5>2, <1>8
      <4>2. CASE ~TakesReferee(acked, turn)
        BY <4>2, <3>2, <1>8
      <4> QED  BY <4>1, <4>2
    <3>4. TrueReferee'
      BY <3>3, <1>2, <1>3, <1>4, <1>7, <1>9, RefereeStaysTrue DEF TruthInv
    <3>5. TrueReports'
      <4>1. \A k \in DOMAIN sq'.reports :
              \/ k \in DOMAIN sq.reports /\ sq'.reports[k] = sq.reports[k]
              \/ k = <<turn, HostSeat>> /\ sq'.reports[k] = hash
        BY <3>2, <1>8
      <4> QED  BY <4>1, <1>2, <1>3, <1>4, <1>7, <1>9, ReportsStayTrue DEF TruthInv
    <3>6. TakesReferee(sq', turn) => turn \in DOMAIN sq'.referee
      BY <3>2 DEF TakesReferee, With
    <3>7. \A q \in players : q \in Guests /\ Differs(q)'
      BY <3>1, <3>4, <3>5, <3>6, <1>2, <2>2, RefereeDesyncsAreTrue
    <3>8. TrueNamed'
      BY <2>1, <3>7, <1>4, NamedStaysTrue DEF TruthInv, TrueNamed
    <3> QED  BY <1>5, <3>4, <3>5, <3>8 DEF TruthInv
  <2>3. CASE ~Seatless
    <3>0. HostSeat \in Seats
      BY <2>3 DEF Seatless
    <3>1. reported = OnHash(acked, HostSeat, turn, hash) /\ players = HashDesyncs(sq', HostSeat, turn)
      BY <1>1, <1>6, <1>11, <2>3 DEF RunStep
    <3>2. /\ sq'.nextTurn = acked.nextTurn /\ sq'.active = acked.active
          /\ sq'.referee = acked.referee
          /\ sq'.reports = IF TakesReport(acked, HostSeat, turn)
                           THEN With(acked.reports, <<turn, HostSeat>>, hash) ELSE acked.reports
      BY <1>2, <1>8, <1>11, <3>0, <3>1, OnHashFields
    <3>3. ASSUME NEW k \in DOMAIN sq'.reports
          PROVE  \/ k \in DOMAIN sq.reports /\ sq'.reports[k] = sq.reports[k]
                 \/ k = <<turn, HostSeat>> /\ sq'.reports[k] = hash
      <4>1. CASE TakesReport(acked, HostSeat, turn)
        <5>1. sq'.reports = With(acked.reports, <<turn, HostSeat>>, hash)
          BY <4>1, <3>2
        <5>2. \/ k = <<turn, HostSeat>> /\ sq'.reports[k] = hash
              \/ k \in DOMAIN acked.reports /\ sq'.reports[k] = acked.reports[k]
          BY <5>1 DEF With
        <5> QED  BY <5>2, <1>8
      <4>2. CASE ~TakesReport(acked, HostSeat, turn)
        BY <4>2, <3>2, <1>8
      <4> QED  BY <4>1, <4>2
    <3>4. TrueReports'
      BY <3>3, <1>2, <1>3, <1>4, <1>7, <1>9, ReportsStayTrue DEF TruthInv
    <3>5. TrueReferee'
      <4>1. \A t \in DOMAIN sq'.referee :
              \/ t \in DOMAIN sq.referee /\ sq'.referee[t] = sq.referee[t]
              \/ t = turn /\ sq'.referee[t] = hash
        BY <3>2, <1>8
      <4> QED  BY <4>1, <1>2, <1>3, <1>4, <1>7, <1>9, RefereeStaysTrue DEF TruthInv
    <3>6. TakesReport(sq', HostSeat, turn) => <<turn, HostSeat>> \in DOMAIN sq'.reports
      BY <3>2 DEF TakesReport, With
    <3>7. \A q \in players : q \in Guests /\ Differs(q)'
      BY <3>0, <3>1, <3>4, <3>5, <3>6, <1>2, <2>3, DesyncsAreTrue
    <3>8. TrueNamed'
      BY <2>1, <3>7, <1>4, NamedStaysTrue DEF TruthInv, TrueNamed
    <3> QED  BY <1>5, <3>4, <3>5, <3>8 DEF TruthInv
  <2> QED  BY <2>2, <2>3
<1> QED  BY <1>1, <1>10, <1>11 DEF RunStep

\* A message of a guest: it is one of those that were there, and the rest were too.
LEMMA HeardMessage ==
  ASSUME IInv, NEW g \in Guests, HostHears(g)
  PROVE  \E m \in ToHostMsg, inbox \in [Guests -> Seq(ToHostMsg)] :
           /\ present[g] /\ toHost[g] # <<>> /\ m = toHost[g][1]
           /\ inbox = [toHost EXCEPT ![g] = Tail(@)] /\ Old(inbox)
           /\ UNCHANGED <<log, holdup, mode, desynced, got, ran, clicked, astray>>
           /\ \/ m.type = "Command" /\ m.command \in Command /\ HostCommand(g, m.command, inbox)
              \/ m.type = "TurnAck" /\ m.turn \in Nat /\ HostAck(g, m.turn, inbox)
              \/ /\ m.type = "Hash" /\ m.turn \in Nat
                 /\ HostHash(g, m.turn, m.hash, inbox)
              \/ m.type = "Leave" /\ HostLeave(g)
<1>1. PICK m, inbox : m = Head(toHost[g]) /\ inbox = [toHost EXCEPT ![g] = Tail(@)]
  OBVIOUS
<1>2. /\ present[g] /\ toHost[g] # <<>>
      /\ UNCHANGED <<log, holdup, mode, desynced, got, ran, clicked, astray>>
  BY DEF HostHears, guestVars
<1>3. \/ m.type = "Command" /\ HostCommand(g, m.command, inbox)
      \/ m.type = "TurnAck" /\ HostAck(g, m.turn, inbox)
      \/ m.type = "Hash" /\ HostHash(g, m.turn, m.hash, inbox)
      \/ m.type = "Leave" /\ HostLeave(g)
  BY <1>1, Zenon DEF HostHears
<1>4. m \in ToHostMsg /\ inbox \in [Guests -> Seq(ToHostMsg)] /\ m = toHost[g][1]
  BY <1>1, <1>2, InboxOK, TailOf DEF IInv
<1>5. Old(inbox)
  BY <1>1, <1>2, InboxIsOld
<1>6. /\ m.type = "Command" => m.command \in Command
      /\ m.type = "TurnAck" => m.turn \in Nat
      /\ m.type = "Hash" => m.turn \in Nat
  BY <1>4 DEF ToHostMsg, LeaveMsg
<1>7. \/ m.type = "Command" /\ m.command \in Command /\ HostCommand(g, m.command, inbox)
      \/ m.type = "TurnAck" /\ m.turn \in Nat /\ HostAck(g, m.turn, inbox)
      \/ /\ m.type = "Hash" /\ m.turn \in Nat
         /\ HostHash(g, m.turn, m.hash, inbox)
      \/ m.type = "Leave" /\ HostLeave(g)
  BY <1>3, <1>6
<1> QED  BY <1>1, <1>2, <1>4, <1>5, <1>7

\* A command reports nothing, whether it is taken or not.
LEMMA CommandReportsNothing ==
  ASSUME IInv, NEW g \in Guests, NEW c \in Command, NEW inbox, Old(inbox),
         HostCommand(g, c, inbox)
  PROVE  NothingSaid /\ NothingReported /\ named' = named
<1>1. SequencerType(sq) /\ g \in Seats
  BY Numbers
<1>2. Old(Unread(inbox, {g}))
  BY UnreadIsOld
<1>3. named' = named
  BY DEF HostCommand
<1>4. CASE sq' = sq /\ toHost' = inbox
  BY <1>3, <1>4, SameReports DEF NothingSaid
<1>5. CASE sq' = Submitted(sq, g, c) /\ toHost' = inbox
  <2>1. sq'.reports = sq.reports /\ sq'.referee = sq.referee
    BY <1>1, <1>5, SubmittedFields
  <2> QED  BY <2>1, <1>3, <1>5, SameReports DEF NothingSaid
<1>6. CASE sq' = Out(sq, {g}) /\ toHost' = Unread(inbox, {g})
  <2>1. sq'.reports = sq.reports /\ sq'.referee = sq.referee
    BY <1>1, <1>6, OutFields
  <2> QED  BY <2>1, <1>2, <1>3, <1>6, SameReports DEF NothingSaid
<1> QED  BY <1>4, <1>5, <1>6 DEF HostCommand, Violation

\* poll_clients(): a report that comes is that of the turn it names, and who differs in it
\* is named.
LEMMA HostHearsTruth ==
  ASSUME IInv, IInv', TruthInv, NEW g \in Guests, HostHears(g)
  PROVE  TruthInv'
<1>1. PICK m \in ToHostMsg, inbox \in [Guests -> Seq(ToHostMsg)] :
        /\ toHost[g] # <<>> /\ m = toHost[g][1] /\ Old(inbox)
        /\ ran' = ran /\ astray' = astray
        /\ \/ m.type = "Command" /\ m.command \in Command /\ HostCommand(g, m.command, inbox)
           \/ m.type = "TurnAck" /\ m.turn \in Nat /\ HostAck(g, m.turn, inbox)
           \/ /\ m.type = "Hash" /\ m.turn \in Nat
              /\ HostHash(g, m.turn, m.hash, inbox)
           \/ m.type = "Leave" /\ HostLeave(g)
  BY HeardMessage
<1>2. PastKept
  BY <1>1, PastIsKept
<1>3. NothingSaid => TrueHashes'
  BY <1>2, HashesStayTrue DEF TruthInv
<1>4. SequencerType(sq) /\ g \in Seats /\ g \in Machines /\ g # HostSeat
  BY Numbers
<1>5. CASE m.type = "Command" /\ m.command \in Command /\ HostCommand(g, m.command, inbox)
  <2>1. NothingSaid /\ NothingReported /\ named' = named
    BY <1>1, <1>5, CommandReportsNothing
  <2> QED  BY <2>1, <1>2, <1>3, TruthKept
<1>6. CASE m.type = "TurnAck" /\ m.turn \in Nat /\ HostAck(g, m.turn, inbox)
  <2>1. sq' = OnAck(sq, g, m.turn) /\ toHost' = inbox /\ named' = named
    BY <1>6 DEF HostAck
  <2>2. Acknowledged(sq, sq')
    BY <2>1, <1>4, <1>6, OnAckFields
  <2>3. NothingReported
    BY <2>2 DEF Acknowledged, NothingReported
  <2>4. NothingSaid
    BY <2>1, <1>1 DEF NothingSaid
  <2> QED  BY <2>1, <2>3, <2>4, <1>2, <1>3, TruthKept
<1>7. CASE m.type = "Hash" /\ m.turn \in Nat /\ HostHash(g, m.turn, m.hash, inbox)
  <2>1. PICK turn, hash : turn = m.turn /\ hash = m.hash
    OBVIOUS
  <2>2. /\ sq' = OnHash(sq, g, turn, hash) /\ toHost' = inbox /\ turn \in Nat
        /\ Found(turn, HashDesyncs(sq', g, turn))
    BY <2>1, <1>7 DEF HostHash
  <2>3. named' = named \cup HashDesyncs(sq', g, turn)
    BY <2>2 DEF Found
  <2>4. turn < ran'[g] /\ hash = Hash(g, turn)'
    <3>1. TrueHash(g, m)
      <4>1. 1 \in 1 .. Len(toHost[g])
        <5>1. Len(toHost[g]) \in Nat \ {0}
          BY <1>1, TailOf
        <5> QED  BY <5>1
      <4> QED  BY <4>1, <1>1 DEF TruthInv, TrueHashes
    <3>2. turn < ran[g] /\ hash = Hash(g, turn)
      BY <3>1, <2>1, <1>7 DEF TrueHash
    <3> QED  BY <3>2, <1>1 DEF Hash
  <2>5. TrueHashes'
    <3>1. NothingSaid
      BY <2>2, <1>1 DEF NothingSaid
    <3> QED  BY <3>1, <1>3
  <2>6. /\ sq'.nextTurn = sq.nextTurn /\ sq'.active = sq.active /\ sq'.referee = sq.referee
        /\ sq'.reports = IF TakesReport(sq, g, turn) THEN With(sq.reports, <<turn, g>>, hash)
                                                     ELSE sq.reports
    BY <2>2, <1>4, OnHashFields
  <2>7. DOMAIN sq'.reports \subseteq Nat \X Seats /\ DOMAIN sq'.referee \subseteq Nat
    BY DEF IInv, HostOK, SequencerType
  <2>8. TrueReports'
    <3>1. \A k \in DOMAIN sq'.reports :
            \/ k \in DOMAIN sq.reports /\ sq'.reports[k] = sq.reports[k]
            \/ k = <<turn, g>> /\ sq'.reports[k] = hash
      BY <2>6 DEF With
    <3> QED  BY <3>1, <2>2, <2>4, <2>7, <1>2, <1>4, ReportsStayTrue DEF TruthInv
  <2>9. TrueReferee'
    <3>1. \A t \in DOMAIN sq'.referee : t < ran'[HostSeat] /\ sq'.referee[t] = Hash(HostSeat, t)'
      BY <2>6, <1>1 DEF TruthInv, TrueReferee, Hash
    <3> QED  BY <3>1 DEF TrueReferee
  <2>10. TakesReport(sq', g, turn) => <<turn, g>> \in DOMAIN sq'.reports
    BY <2>6 DEF TakesReport, With
  <2>11. \A q \in HashDesyncs(sq', g, turn) : q \in Guests /\ Differs(q)'
    BY <2>2, <2>8, <2>9, <2>10, <1>4, DesyncsAreTrue
  <2>12. TrueNamed'
    BY <2>3, <2>11, <1>2, NamedStaysTrue DEF TruthInv, TrueNamed
  <2> QED  BY <2>5, <2>8, <2>9, <2>12 DEF TruthInv
<1>8. CASE m.type = "Leave" /\ HostLeave(g)
  <2>1. DropGuest(g) /\ named' = named
    BY <1>8 DEF HostLeave
  <2>2. NothingSaid /\ NothingReported
    BY <2>1, DropGuestSilent
  <2> QED  BY <2>1, <2>2, <1>2, <1>3, TruthKept
<1> QED  BY <1>1, <1>5, <1>6, <1>7, <1>8

\* A guest that says something that is no hash
LEMMA OtherWordsTruth ==
  ASSUME IInv, IInv', TruthInv, UNCHANGED <<sq, named, ran, astray>>, NEW g \in Guests,
         NEW m \in ToHostMsg, m.type # "Hash", toHost' = Say(g, <<m>>)
  PROVE  TruthInv'
<1>1. PastKept
  BY PastIsKept
<1>2. PICK msgs : msgs = <<m>>
  OBVIOUS
<1>3. msgs \in Seq(ToHostMsg) /\ \A i \in 1 .. Len(msgs) : msgs[i].type # "Hash"
  BY <1>2
<1>4. TrueHashes'
  BY <1>1, <1>2, <1>3, SayTrue DEF TruthInv
<1>5. NothingReported
  BY SameReports
<1> QED  BY <1>1, <1>4, <1>5, TruthKept

\* What the runner of a guest says after it has executed turns: the hashes of the turns
\* that end a period of HashEvery and that it has run now, and last the acknowledgement.
Speech(g, n, msgs, many) ==
  /\ many = (n \div HashEvery) - (ran[g] \div HashEvery)
  /\ Len(msgs) = many + 1 /\ msgs[many + 1] = AckMsg(n - 1)
  /\ \A i \in 1 .. many : \A t \in {((ran[g] \div HashEvery) + i) * HashEvery - 1} :
       t \in Nat /\ t < n /\ msgs[i] = HashMsg(t, Hash(g, t))

LEMMA GuestRunsSays ==
  ASSUME IInv, NEW g \in Guests, GuestRuns(g)
  PROVE  \E n \in Nat, msgs \in Seq(ToHostMsg), many \in Nat :
           /\ ran[g] < n /\ n <= Len(got[g]) /\ ran' = [ran EXCEPT ![g] = n]
           /\ toHost' = IF mode[g] = "Normal" THEN Say(g, msgs) ELSE toHost
           /\ Speech(g, n, msgs, many)
<1>1. /\ g \in Machines /\ ran[g] \in Nat /\ Len(got[g]) \in Nat /\ HashEvery \in Nat \ {0}
  BY Players, RunOfGot DEF IInv, TurnsOK
<1>2. PICK before : before = ran[g] \div HashEvery
  OBVIOUS
<1>3. PICK n \in ran[g] + 1 .. Len(got[g]) :
        LET reports == [i \in 1 .. (n \div HashEvery) - before |->
                          LET t == (before + i) * HashEvery - 1 IN HashMsg(t, Hash(g, t))]
        IN /\ ran' = [ran EXCEPT ![g] = n]
           /\ toHost' = IF mode[g] = "Normal" THEN Say(g, reports \o <<AckMsg(n - 1)>>) ELSE toHost
  BY <1>2 DEF GuestRuns
<1> PICK reports :
      reports = [i \in 1 .. (n \div HashEvery) - before |->
                   LET t == (before + i) * HashEvery - 1 IN HashMsg(t, Hash(g, t))]
  OBVIOUS
<1>4. n \in Nat /\ n - 1 \in Nat /\ ran[g] < n /\ n <= Len(got[g])
  BY <1>1
<1>5. PICK many : many = (n \div HashEvery) - before
  OBVIOUS
<1>6. PICK last : last = n \div HashEvery
  OBVIOUS
<1>7. /\ before \in Nat /\ last \in Nat /\ before <= last /\ last * HashEvery <= n
      /\ before * HashEvery <= ran[g]
  <2>1. before \in Nat /\ before * HashEvery <= ran[g]
    BY <1>1, <1>2, Quotient
  <2>2. last \in Nat /\ last * HashEvery <= n
    BY <1>1, <1>4, <1>6, Quotient
  <2>3. ran[g] <= n
    BY <1>1, <1>4
  <2>4. before <= last
    BY <1>1, <1>2, <1>4, <1>6, <2>3, QuotientGrows
  <2> QED  BY <2>1, <2>2, <2>4
<1>8. many \in Nat /\ many = last - before
  BY <1>5, <1>6, <1>7
<1>9. reports = [i \in 1 .. many |-> LET t == (before + i) * HashEvery - 1
                                     IN HashMsg(t, Hash(g, t))]
  BY <1>3, <1>5
<1>10. ASSUME NEW i \in 1 .. many
       PROVE  /\ (before + i) * HashEvery - 1 \in Nat /\ (before + i) * HashEvery - 1 < n
              /\ reports[i] = HashMsg((before + i) * HashEvery - 1,
                                      Hash(g, (before + i) * HashEvery - 1))
              /\ reports[i] \in ToHostMsg
  <2>1. PICK t : t = (before + i) * HashEvery - 1
    OBVIOUS
  <2>2. before + i \in Nat /\ before + i >= 1 /\ before + i <= last
    BY <1>7, <1>8
  <2>3. (before + i) * HashEvery <= last * HashEvery
    BY <2>2, <1>1, <1>7
  <2>4. (before + i) * HashEvery >= 1
    BY <2>2, <1>1
  <2>5. (before + i) * HashEvery \in Nat /\ last * HashEvery \in Nat
    BY <2>2, <1>1, <1>7
  <2>6. t \in Nat /\ t < n
    BY <2>1, <2>3, <2>4, <2>5, <1>4, <1>7
  <2>7. reports[i] = HashMsg(t, Hash(g, t))
    BY <2>1, <1>9
  <2>8. Hash(g, t) \in Hashes
    BY <1>1 DEF Hash, Hashes
  <2>9. reports[i] \in ToHostMsg
    BY <2>6, <2>7, <2>8 DEF HashMsg, ToHostMsg
  <2> QED  BY <2>1, <2>6, <2>7, <2>9
<1>11. reports \in [1 .. many -> ToHostMsg]
  BY <1>9, <1>10
<1>12. reports \in Seq(ToHostMsg)
  BY <1>8, <1>11, FunctionIsSeq
<1>13. Len(reports) = many
  <2>1. DOMAIN reports = 1 .. many
    BY <1>11
  <2>2. DOMAIN reports = 1 .. Len(reports) /\ Len(reports) \in Nat
    BY <1>12, LenProperties
  <2>3. 1 .. many = 1 .. Len(reports) /\ many \in Nat /\ Len(reports) \in Nat
    BY <2>1, <2>2, <1>8
  <2> QED  BY <2>3, SameEnd
<1>14. PICK ack : ack = <<AckMsg(n - 1)>>
  OBVIOUS
<1>15. ack \in Seq(ToHostMsg) /\ Len(ack) = 1 /\ ack[1] = AckMsg(n - 1)
  BY <1>4, <1>14 DEF AckMsg, ToHostMsg
<1>16. PICK msgs : msgs = reports \o ack
  OBVIOUS
<1>17. /\ reports \o ack \in Seq(ToHostMsg) /\ Len(reports \o ack) = Len(reports) + Len(ack)
       /\ \A j \in 1 .. Len(reports) + Len(ack) :
            (reports \o ack)[j] = IF j <= Len(reports) THEN reports[j] ELSE ack[j - Len(reports)]
  BY <1>12, <1>15, ConcatProperties
<1>18. /\ msgs \in Seq(ToHostMsg) /\ Len(msgs) = many + 1
       /\ \A j \in 1 .. many + 1 : msgs[j] = IF j <= many THEN reports[j] ELSE ack[j - many]
  BY <1>13, <1>15, <1>16, <1>17
<1>19. msgs[many + 1] = AckMsg(n - 1)
  <2>1. many + 1 \in 1 .. many + 1 /\ ~(many + 1 <= many)
    BY <1>8
  <2>2. (many + 1) - many = 1
    BY <1>8
  <2>3. msgs[many + 1] = ack[(many + 1) - many]
    BY <2>1, <1>18
  <2> QED  BY <2>2, <2>3, <1>15
<1>20. \A i \in 1 .. many : msgs[i] = reports[i]
  <2>1. \A i \in 1 .. many : i \in 1 .. many + 1 /\ i <= many
    BY <1>8
  <2> QED  BY <2>1, <1>18
<1>21. toHost' = IF mode[g] = "Normal" THEN Say(g, msgs) ELSE toHost
  BY <1>3, <1>14, <1>16
<1>22. \A i \in 1 .. many : \A t \in {(before + i) * HashEvery - 1} :
         t \in Nat /\ t < n /\ msgs[i] = HashMsg(t, Hash(g, t))
  BY <1>10, <1>20
<1>23. Speech(g, n, msgs, many)
  BY <1>2, <1>5, <1>18, <1>19, <1>22 DEF Speech
<1> QED  BY <1>3, <1>4, <1>8, <1>18, <1>21, <1>23

LEMMA GuestRunsTruth == ASSUME IInv, IInv', TruthInv, NEW g \in Guests, GuestRuns(g) PROVE TruthInv'
<1>1. PICK n \in Nat, msgs \in Seq(ToHostMsg), many \in Nat :
        /\ ran[g] < n /\ n <= Len(got[g]) /\ ran' = [ran EXCEPT ![g] = n]
        /\ toHost' = IF mode[g] = "Normal" THEN Say(g, msgs) ELSE toHost
        /\ Speech(g, n, msgs, many)
  BY GuestRunsSays
<1>2. UNCHANGED <<sq, named, astray>>
  BY DEF GuestRuns, hostVars
<1>3. g \in Machines /\ ran[g] \in Nat /\ ran[g] <= n /\ ran'[g] = n
  BY <1>1, Numbers
<1>4. PastKept
  BY <1>1, <1>2, <1>3, RunningKeepsPast
<1>5. TrueHashes'
  <2>1. CASE mode[g] = "Normal"
    <3>1. ASSUME NEW i \in 1 .. Len(msgs), msgs[i].type = "Hash"
          PROVE  msgs[i].turn < ran'[g] /\ \A t \in {msgs[i].turn} : msgs[i].hash = Hash(g, t)'
      <4>1. Len(msgs) = many + 1 /\ i \in Nat /\ 1 <= i /\ i <= Len(msgs)
        BY <1>1 DEF Speech
      <4>2. msgs[many + 1].type # "Hash"
        BY <1>1 DEF Speech, AckMsg
      <4>3. i # many + 1
        BY <3>1, <4>2
      <4>4. i \in 1 .. many
        BY <4>1, <4>3
      <4>5. PICK t : t = ((ran[g] \div HashEvery) + i) * HashEvery - 1
        OBVIOUS
      <4>6. t < n /\ msgs[i] = HashMsg(t, Hash(g, t))
        BY <1>1, <4>4, <4>5 DEF Speech
      <4>7. msgs[i].turn = t /\ msgs[i].hash = Hash(g, t)
        BY <4>6 DEF HashMsg
      <4>8. Hash(g, t)' = Hash(g, t)
        BY <1>2 DEF Hash
      <4> QED  BY <1>3, <4>6, <4>7, <4>8
    <3>2. toHost' = Say(g, msgs)
      BY <1>1, <2>1
    <3> QED  BY <3>1, <3>2, <1>4, SayTrue DEF TruthInv
  <2>2. CASE mode[g] # "Normal"
    <3>1. NothingSaid
      BY <1>1, <2>2, SameIsOld DEF NothingSaid
    <3> QED  BY <3>1, <1>4, HashesStayTrue DEF TruthInv
  <2> QED  BY <2>1, <2>2
<1>6. NothingReported
  BY <1>2, SameReports
<1> QED  BY <1>2, <1>4, <1>5, <1>6, TruthKept

\* A step that leaves the games as they are, says nothing new, reports nothing and names
\* nobody
LEMMA QuietTruth ==
  ASSUME IInv, IInv', TruthInv, NothingSaid, NothingReported, UNCHANGED <<named, ran, astray>>
  PROVE  TruthInv'
<1>1. PastKept
  BY PastIsKept
<1>2. TrueHashes'
  BY <1>1, HashesStayTrue DEF TruthInv
<1> QED  BY <1>1, <1>2, TruthKept

LEMMA HostSealsTruth == ASSUME IInv, IInv', TruthInv, HostSeals PROVE TruthInv'
<1>1. PICK gone \in SUBSET CanFail : sq' = Out(Sealed(sq), gone) /\ toHost' = Unread(toHost, gone)
  BY DEF HostSeals
<1>2. UNCHANGED <<named, ran, astray>>
  BY DEF HostSeals
<1>3. SequencerType(sq)
  BY Numbers
<1>4. PICK s : s = Sealed(sq)
  OBVIOUS
<1>5. s.reports = sq.reports /\ s.referee = sq.referee /\ SequencerType(s)
  BY <1>3, <1>4, SealedFields, SealedType
<1>6. sq'.reports = s.reports /\ sq'.referee = s.referee
  BY <1>1, <1>4, <1>5, OutFields
<1>7. NothingReported
  BY <1>5, <1>6, SameReports
<1>8. NothingSaid
  BY <1>1, SameIsOld, UnreadIsOld DEF NothingSaid
<1> QED  BY <1>2, <1>7, <1>8, QuietTruth

LEMMA LosesGuestTruth ==
  ASSUME IInv, IInv', TruthInv, NEW g \in Guests, LosesGuest(g) PROVE TruthInv'
<1>1. DropGuest(g) /\ UNCHANGED <<named, ran, astray>>
  BY DEF LosesGuest
<1>2. NothingSaid /\ NothingReported
  BY <1>1, DropGuestSilent
<1> QED  BY <1>1, <1>2, QuietTruth

LEMMA HostWaitsTruth == ASSUME IInv, IInv', TruthInv, HostWaits PROVE TruthInv'
<1>1. UNCHANGED <<named, ran, astray>>
  BY DEF HostWaits
<1>2. CASE UNCHANGED <<sq, toHost>>
  <2>1. NothingSaid /\ NothingReported
    BY <1>2, SameIsOld, SameReports DEF NothingSaid
  <2> QED  BY <1>1, <2>1, QuietTruth
<1>3. ASSUME NEW g \in Guests, DropGuest(g) PROVE TruthInv'
  <2>1. NothingSaid /\ NothingReported
    BY <1>3, DropGuestSilent
  <2> QED  BY <1>1, <2>1, QuietTruth
<1> QED  BY <1>2, <1>3 DEF HostWaits

LEMMA HostClicksTruth ==
  ASSUME IInv, IInv', TruthInv, NEW p \in Seats, HostClicks(p) PROVE TruthInv'
<1>1. /\ UNCHANGED <<named, ran, astray, toHost>>
      /\ sq' = IF Accepts(sq, p) THEN Submitted(sq, p, clicked'[p]) ELSE sq
  BY DEF HostClicks, linkVars
<1>2. SequencerType(sq)
  BY Numbers
<1>3. PICK c : c = clicked'[p]
  OBVIOUS
<1>4. c \in Command
  <2>1. clicked[p] < MaxCommands /\ clicked'[p] = clicked[p] + 1 /\ clicked[p] \in 0 .. MaxCommands
    BY Players DEF HostClicks, Click, IInv, GuestsOK
  <2> QED  BY <1>3, <2>1, Players
<1>5. sq'.reports = sq.reports /\ sq'.referee = sq.referee
  <2>1. CASE sq' = sq
    BY <2>1
  <2>2. CASE sq' = Submitted(sq, p, c)
    BY <1>2, <1>4, <2>2, SubmittedFields
  <2> QED  BY <1>1, <1>3, <2>1, <2>2
<1>6. NothingSaid /\ NothingReported
  BY <1>1, <1>5, SameIsOld, SameReports DEF NothingSaid
<1> QED  BY <1>1, <1>6, QuietTruth

LEMMA GuestStepTruth ==
  ASSUME IInv, IInv', TruthInv, NEW g \in Guests, GuestStep(g) \/ Breaks(g) PROVE TruthInv'
<1>1. CASE GuestClicks(g)
  <2>1. PICK c : c = clicked'[g]
    OBVIOUS
  <2>2. c \in Command
    <3>1. clicked[g] < MaxCommands /\ clicked'[g] = clicked[g] + 1 /\ clicked[g] \in 0 .. MaxCommands
      BY <1>1, Players DEF GuestClicks, Click, IInv, GuestsOK
    <3> QED  BY <2>1, <3>1, Players
  <2>3. PICK m : m = CommandMsg(c)
    OBVIOUS
  <2>4. m \in ToHostMsg /\ m.type # "Hash"
    BY <2>2, <2>3 DEF CommandMsg, ToHostMsg
  <2>5. toHost' = Say(g, <<m>>) /\ UNCHANGED <<sq, named, ran, astray>>
    BY <1>1, <2>1, <2>3 DEF GuestClicks, hostVars
  <2> QED  BY <2>4, <2>5, OtherWordsTruth
<1>2. CASE GuestLeaves(g)
  <2>1. LeaveMsg \in ToHostMsg /\ LeaveMsg.type # "Hash"
    BY DEF LeaveMsg, ToHostMsg
  <2>2. toHost' = Say(g, <<LeaveMsg>>) /\ UNCHANGED <<sq, named, ran, astray>>
    BY <1>2 DEF GuestLeaves, hostVars
  <2> QED  BY <2>1, <2>2, OtherWordsTruth
<1>3. CASE GuestRuns(g)
  BY <1>3, GuestRunsTruth
<1>4. CASE GuestHears(g) \/ GuestLost(g)
  <2>1. UNCHANGED <<sq, toHost, named, ran, astray>>
    BY <1>4 DEF GuestHears, GuestLost, hostVars
  <2>2. NothingSaid /\ NothingReported
    BY <2>1, SameIsOld, SameReports DEF NothingSaid
  <2> QED  BY <2>1, <2>2, QuietTruth
<1>5. CASE Breaks(g)
  <2>1. UNCHANGED <<sq, named, ran, astray>>
    BY <1>5 DEF Breaks, hostVars
  <2>2. PICK k \in 0 .. Len(toHost[g]) : toHost' = [toHost EXCEPT ![g] = SubSeq(@, 1, k)]
    BY <1>5 DEF Breaks
  <2>3. NothingSaid /\ NothingReported
    BY <2>1, <2>2, CutIsOld, SameReports DEF NothingSaid
  <2> QED  BY <2>1, <2>3, QuietTruth
<1> QED  BY <1>1, <1>2, <1>3, <1>4, <1>5 DEF GuestStep, GuestFindsClosed, GuestSilence

LEMMA NextTruth == ASSUME IInv, IInv', TruthInv, [Next]_vars PROVE TruthInv'
<1>1. CASE HostStep
  <2>1. CASE HostSeals
    BY <2>1, HostSealsTruth
  <2>2. CASE HostWaits
    BY <2>2, HostWaitsTruth
  <2>3. CASE HostRuns
    BY <2>3, HostRunsTruth
  <2>4. ASSUME NEW p \in Seats, HostClicks(p) PROVE TruthInv'
    BY <2>4, HostClicksTruth
  <2>5. ASSUME NEW g \in Guests, HostHears(g) PROVE TruthInv'
    BY <2>5, HostHearsTruth
  <2>6. ASSUME NEW g \in Guests,
               HostFindsClosed(g) \/ HostSendFails(g) \/ HostSilence(g) \/ HostPolice(g)
        PROVE  TruthInv'
    BY <2>6, LosesGuestTruth DEF HostFindsClosed, HostSendFails, HostSilence, HostPolice
  <2> QED  BY <1>1, <2>1, <2>2, <2>3, <2>4, <2>5, <2>6 DEF HostStep
<1>2. ASSUME NEW g \in Guests, GuestStep(g) \/ Breaks(g) PROVE TruthInv'
  BY <1>2, GuestStepTruth
<1>3. ASSUME NEW m \in Machines, GoesAstray(m) PROVE TruthInv'
  <2>1. PastKept
    BY <1>3, AstrayKeepsPast
  <2>2. UNCHANGED <<sq, toHost, named>>
    BY <1>3 DEF GoesAstray, hostVars, linkVars
  <2>3. NothingSaid /\ NothingReported
    BY <2>2, SameIsOld, SameReports DEF NothingSaid
  <2>4. TrueHashes'
    BY <2>1, <2>3, HashesStayTrue DEF TruthInv
  <2> QED  BY <2>1, <2>2, <2>3, <2>4, TruthKept
<1>4. CASE UNCHANGED vars
  <2>1. UNCHANGED <<sq, toHost, named, ran, astray>>
    BY <1>4 DEF vars, hostVars, linkVars
  <2>2. NothingSaid /\ NothingReported
    BY <2>1, SameIsOld, SameReports DEF NothingSaid
  <2> QED  BY <2>1, <2>2, QuietTruth
<1> QED  BY <1>1, <1>2, <1>3, <1>4 DEF Next

LEMMA InitTruth == ASSUME Init PROVE TruthInv
<1>1. /\ \A g \in Guests : toHost[g] = <<>>
      /\ named = {}
  BY DEF Init
<1>2. sq.reports = <<>> /\ sq.referee = <<>>
  BY DEF Init, NewSequencer
<1>3. TrueHashes
  BY <1>1 DEF TrueHashes
<1>4. TrueReports /\ TrueReferee
  BY <1>2 DEF TrueReports, TrueReferee
<1> QED  BY <1>1, <1>3, <1>4 DEF TruthInv, TrueNamed

\* Who is named differs from the host in a turn of the history.
LEMMA TruthNoFalseAlarm == ASSUME IInv, TruthInv PROVE NoFalseAlarm
<1> SUFFICES ASSUME NEW p \in named
             PROVE  p \in Guests /\ \E turn \in 0 .. Len(log) - 1 :
                                       Hash(p, turn) # Hash(HostSeat, turn)
  BY DEF NoFalseAlarm
<1>1. p \in Guests /\ p \in Machines
  BY Players DEF TruthInv, TrueNamed
<1>2. PICK t \in Nat : t < ran[p] /\ Hash(p, t) # Hash(HostSeat, t)
  BY DEF TruthInv, TrueNamed, Differs
<1>3. ran[p] \in Nat /\ Len(got[p]) \in Nat /\ ran[p] <= Len(got[p])
  BY <1>1, RunOfGot, LenProperties DEF IInv, TurnsOK
<1>4. Len(log) \in Nat /\ Len(got[p]) <= Len(log)
  BY <1>1, LenProperties DEF IInv, TurnsOK, Agreement
<1>5. t \in 0 .. Len(log) - 1
  BY <1>2, <1>3, <1>4
<1> QED  BY <1>1, <1>2, <1>5

\* A desync is never a false alarm (Sequencer::on_hash, on_referee_hash): whoever is
\* named has run a turn with another hash than the host's.
THEOREM NobodyIsAccusedFalsely == Spec => []NoFalseAlarm
<1>1. Init => IInv /\ TruthInv
  BY InitIInv, InitTruth
<1>2. IInv /\ TruthInv /\ [Next]_vars => (IInv /\ TruthInv)'
  BY NextIInv, NextTruth
<1>3. IInv /\ TruthInv => NoFalseAlarm
  BY TruthNoFalseAlarm
<1> QED  BY <1>1, <1>2, <1>3, PTL DEF Spec

------------------------------------------------------------------------------
(* The seat of a guest: what a step can do to what there is of it *)

SeatSame(g) ==
  /\ log' = log /\ present'[g] = present[g] /\ clicked'[g] = clicked[g]
  /\ sq'.queue[g] = sq.queue[g] /\ sq'.carry[g] = sq.carry[g] /\ sq'.queuedBy[g] = sq.queuedBy[g]

\* Nothing changes but that its link may be found dead.
SeatRests(g) == SeatSame(g) /\ toHost'[g] = toHost[g] /\ (wire'[g] => wire[g])

\* A message is read that is no command, or none that is taken.
SeatIsHeard(g) ==
  /\ SeatSame(g) /\ present[g] /\ wire'[g] = wire[g]
  /\ toHost[g] # <<>> /\ toHost'[g] = Tail(toHost[g])
  /\ \/ toHost[g][1].type # "Command"
     \/ violations'[g] # 0
     \/ StartDelay /\ Len(log) = 0

\* A command is read and taken.
SeatOrders(g) ==
  /\ log' = log /\ present[g] /\ present'[g] /\ clicked'[g] = clicked[g] /\ wire'[g] = wire[g]
  /\ toHost[g] # <<>> /\ toHost'[g] = Tail(toHost[g]) /\ toHost[g][1].type = "Command"
  /\ \/ /\ HasRoom(sq, g)
        /\ sq'.queue[g] = Append(sq.queue[g], toHost[g][1].command)
        /\ sq'.carry[g] = sq.carry[g] /\ sq'.queuedBy[g] = sq.queuedBy[g] + 1
     \/ /\ ~HasRoom(sq, g)
        /\ sq'.carry[g] = Append(sq.carry[g], toHost[g][1].command)
        /\ sq'.queue[g] = sq.queue[g] /\ sq'.queuedBy[g] = sq.queuedBy[g]

\* The guest is out.
SeatGoes(g) ==
  /\ present[g] /\ ~present'[g] /\ ~wire'[g] /\ toHost'[g] = <<>>
  /\ clicked'[g] = clicked[g] /\ sq'.carry[g] = <<>>

SeatIsDropped(g) ==
  /\ SeatGoes(g) /\ log' = log
  /\ sq'.queue[g] = Append(sq.queue[g], Drop) /\ sq'.queuedBy[g] = sq.queuedBy[g]

\* The guest says something that is no command, or gives its next command.
SeatTalks(g) ==
  /\ SeatSame(g) /\ wire[g] /\ (wire'[g] => wire[g])
  /\ \E msgs \in Seq(ToHostMsg) : /\ toHost'[g] = toHost[g] \o msgs
                                  /\ \A i \in 1 .. Len(msgs) : msgs[i].type # "Command"

SeatClicks(g) ==
  /\ log' = log /\ present'[g] = present[g] /\ sq' = sq /\ wire[g] /\ wire'[g]
  /\ clicked'[g] = clicked[g] + 1 /\ clicked'[g] \in Command
  /\ toHost'[g] = toHost[g] \o <<CommandMsg(clicked'[g])>>
  /\ StartDelay => Len(log) > 0

\* Its link breaks.
SeatIsCutOff(g) ==
  /\ SeatSame(g) /\ wire[g] /\ ~wire'[g]
  /\ \E k \in 0 .. Len(toHost[g]) : toHost'[g] = SubSeq(toHost[g], 1, k)

\* A turn is sealed.
SeatTurns(g) ==
  /\ log' = Append(log, sq.queue) /\ sq.queue \in Turns
  /\ sq'.queuedBy[g] = Share(sq, g)

SeatPlays(g) ==
  /\ SeatTurns(g) /\ present'[g] = present[g] /\ wire'[g] = wire[g]
  /\ toHost'[g] = toHost[g] /\ clicked'[g] = clicked[g]
  /\ sq'.queue[g] = SubSeq(sq.carry[g], 1, Share(sq, g))
  /\ sq'.carry[g] = SubSeq(sq.carry[g], Share(sq, g) + 1, Len(sq.carry[g]))

\* ... and the guest is out, as the turn cannot be sent.
SeatEnds(g) ==
  /\ SeatTurns(g) /\ SeatGoes(g)
  /\ sq'.queue[g] = Append(SubSeq(sq.carry[g], 1, Share(sq, g)), Drop)

SeatStep(g) ==
  /\ violations'[g] = 0 => violations[g] = 0
  /\ \/ SeatRests(g) \/ SeatIsHeard(g) \/ SeatOrders(g) \/ SeatIsDropped(g) \/ SeatTalks(g)
     \/ SeatClicks(g) \/ SeatIsCutOff(g) \/ SeatPlays(g) \/ SeatEnds(g)

\* A step that touches nothing of the seats
LEMMA AllRest ==
  ASSUME UNCHANGED <<log, present, violations, clicked, wire, toHost>>,
         sq'.queue = sq.queue, sq'.carry = sq.carry, sq'.queuedBy = sq.queuedBy,
         NEW g \in Guests
  PROVE  SeatStep(g)
BY DEF SeatStep, SeatRests, SeatSame

\* What drop() of seats leaves of a seat
LEMMA OutSeat ==
  ASSUME NEW s, SequencerType(s), NEW gone, NEW t, t = Out(s, gone), NEW g \in Seats
  PROVE  /\ g \in gone => t.queue[g] = Append(s.queue[g], Drop) /\ t.carry[g] = <<>>
         /\ g \notin gone => t.queue[g] = s.queue[g] /\ t.carry[g] = s.carry[g]
         /\ t.queuedBy[g] = s.queuedBy[g]
<1>1. /\ t.queue = [p \in Seats |-> IF p \in gone THEN Append(s.queue[p], Drop) ELSE s.queue[p]]
      /\ t.carry = [p \in Seats |-> IF p \in gone THEN <<>> ELSE s.carry[p]]
      /\ t.queuedBy = s.queuedBy
  BY OutFields
<1> QED  BY <1>1

\* A hash touches no seat.
LEMMA OnHashSeats ==
  ASSUME NEW s, SequencerType(s), NEW p \in Seats, NEW turn \in Nat, NEW hash,
         NEW t, t = OnHash(s, p, turn, hash)
  PROVE  t.queue = s.queue /\ t.carry = s.carry /\ t.queuedBy = s.queuedBy
<1>1. OnHash(s, p, turn, hash).queue = s.queue
  BY OnHashFields, ZenonT(60)
<1>2. OnHash(s, p, turn, hash).carry = s.carry
  BY OnHashFields, ZenonT(60)
<1>3. OnHash(s, p, turn, hash).queuedBy = s.queuedBy
  BY OnHashFields, ZenonT(60)
<1> QED  BY <1>1, <1>2, <1>3

\* drop() of one guest
LEMMA DropGuestSeats ==
  ASSUME IInv, NEW h \in Guests, present[h], DropGuest(h), UNCHANGED <<log, violations, clicked>>,
         NEW g \in Guests
  PROVE  SeatStep(g)
<1>1. /\ sq' = Out(sq, {h}) /\ Leaves({h}) /\ toHost' = Unread(toHost, {h})
      /\ SequencerType(sq) /\ g \in Seats
  BY Numbers DEF DropGuest
<1>2. /\ g \in {h} => sq'.queue[g] = Append(sq.queue[g], Drop) /\ sq'.carry[g] = <<>>
      /\ g \notin {h} => sq'.queue[g] = sq.queue[g] /\ sq'.carry[g] = sq.carry[g]
      /\ sq'.queuedBy[g] = sq.queuedBy[g]
  BY <1>1, OutSeat
<1>3. /\ present'[g] <=> (present[g] /\ g # h)
      /\ wire'[g] <=> (wire[g] /\ g # h)
      /\ toHost'[g] = IF g = h THEN <<>> ELSE toHost[g]
  BY <1>1 DEF Leaves, Unread
<1>4. CASE g = h
  <2>1. SeatIsDropped(g)
    BY <1>2, <1>3, <1>4 DEF SeatIsDropped, SeatGoes
  <2> QED  BY <2>1 DEF SeatStep
<1>5. CASE g # h
  <2>1. present'[g] = present[g]
    BY <1>1, <1>5 DEF Leaves, IInv, HostOK
  <2>2. SeatRests(g)
    BY <1>2, <1>3, <1>5, <2>1 DEF SeatRests, SeatSame
  <2> QED  BY <2>2 DEF SeatStep
<1> QED  BY <1>4, <1>5

\* poll_clients(): one message of one guest
LEMMA HostHearsSeats ==
  ASSUME IInv, NEW h \in Guests, HostHears(h), NEW g \in Guests
  PROVE  SeatStep(g)
<1>1. PICK m \in ToHostMsg, inbox \in [Guests -> Seq(ToHostMsg)] :
        /\ present[h] /\ toHost[h] # <<>> /\ m = toHost[h][1]
        /\ inbox = [toHost EXCEPT ![h] = Tail(@)] /\ Old(inbox)
        /\ UNCHANGED <<log, holdup, mode, desynced, got, ran, clicked, astray>>
        /\ \/ m.type = "Command" /\ m.command \in Command /\ HostCommand(h, m.command, inbox)
           \/ m.type = "TurnAck" /\ m.turn \in Nat /\ HostAck(h, m.turn, inbox)
           \/ /\ m.type = "Hash" /\ m.turn \in Nat
              /\ HostHash(h, m.turn, m.hash, inbox)
           \/ m.type = "Leave" /\ HostLeave(h)
  BY HeardMessage
<1>2. /\ SequencerType(sq) /\ g \in Seats /\ h \in Seats /\ violations \in [Guests -> Nat]
      /\ toHost \in [Guests -> Seq(ToHostMsg)] /\ present \in [Guests -> BOOLEAN]
      /\ sq.nextTurn = Len(log)
  BY Numbers DEF IInv, HostOK, LinksOK, TurnsOK
<1>3. inbox[g] = IF g = h THEN Tail(toHost[g]) ELSE toHost[g]
  BY <1>1, <1>2
<1>4. ASSUME UNCHANGED <<present, wire>>, toHost' = inbox, violations'[g] = violations[g],
             m.type # "Command" \/ (StartDelay /\ Len(log) = 0),
             sq'.queue = sq.queue, sq'.carry = sq.carry, sq'.queuedBy = sq.queuedBy
      PROVE  SeatStep(g)
  <2>1. SeatSame(g)
    BY <1>1, <1>4 DEF SeatSame
  <2>2. CASE g = h
    <3>1. SeatIsHeard(g)
      BY <1>1, <1>3, <1>4, <2>1, <2>2 DEF SeatIsHeard
    <3> QED  BY <3>1, <1>4 DEF SeatStep
  <2>3. CASE g # h
    <3>1. SeatRests(g)
      BY <1>3, <1>4, <2>1, <2>3 DEF SeatRests
    <3> QED  BY <3>1, <1>4 DEF SeatStep
  <2> QED  BY <2>2, <2>3
<1>5. CASE m.type = "Command" /\ m.command \in Command /\ HostCommand(h, m.command, inbox)
  <2>0. PICK c \in Command : c = m.command
    BY <1>5
  <2>1. CASE StartDelay /\ sq.nextTurn = 0
    <3>1. toHost' = inbox /\ UNCHANGED <<sq, present, wire, violations>>
      BY <1>5, <2>1 DEF HostCommand
    <3> QED  BY <3>1, <2>1, <1>2, <1>4
  <2>2. CASE ~(StartDelay /\ sq.nextTurn = 0) /\ Accepts(sq, h)
    <3>1. sq' = Submitted(sq, h, c) /\ toHost' = inbox /\ UNCHANGED <<present, wire, violations>>
      BY <1>5, <2>0, <2>2 DEF HostCommand
    <3>2. CASE g = h
      <4>0. SequencerType(sq) /\ g \in Seats /\ sq' = Submitted(sq, g, c)
        BY <3>1, <3>2, <1>2
      <4>1. \/ /\ HasRoom(sq, g)
               /\ sq'.queue[g] = Append(sq.queue[g], c)
               /\ sq'.carry[g] = sq.carry[g] /\ sq'.queuedBy[g] = sq.queuedBy[g] + 1
            \/ /\ ~HasRoom(sq, g)
               /\ sq'.carry[g] = Append(sq.carry[g], c)
               /\ sq'.queue[g] = sq.queue[g] /\ sq'.queuedBy[g] = sq.queuedBy[g]
        BY <4>0, SubmittedFields, SMTT(40)
      <4>2. c = toHost[g][1].command /\ toHost[g][1].type = "Command" /\ present'[g]
        BY <1>1, <1>5, <2>0, <3>1, <3>2
      <4>3. SeatOrders(g)
        BY <4>1, <4>2, <3>1, <3>2, <1>1, <1>3 DEF SeatOrders
      <4> QED  BY <4>3, <3>1 DEF SeatStep
    <3>3. CASE g # h
      <4>1. /\ sq'.queue[g] = sq.queue[g] /\ sq'.carry[g] = sq.carry[g]
            /\ sq'.queuedBy[g] = sq.queuedBy[g]
        BY <3>1, <3>3, <1>2, SubmittedFields
      <4>2. SeatRests(g)
        BY <4>1, <3>1, <3>3, <1>1, <1>3 DEF SeatRests, SeatSame
      <4> QED  BY <4>2, <3>1 DEF SeatStep
    <3> QED  BY <3>2, <3>3
  <2>3. CASE ~(StartDelay /\ sq.nextTurn = 0) /\ ~Accepts(sq, h)
    <3>1. Violation(h, inbox)
      BY <1>5, <2>3 DEF HostCommand
    <3>2. violations' = [violations EXCEPT ![h] = @ + 1]
      BY <3>1 DEF Violation
    <3>3. violations'[g] = 0 => violations[g] = 0 /\ g # h
      BY <3>2, <1>2
    <3>4. CASE toHost' = inbox /\ UNCHANGED <<sq, present, wire>>
      <4>1. CASE g = h
        <5>1. SeatIsHeard(g)
          BY <3>3, <3>4, <4>1, <1>1, <1>3 DEF SeatIsHeard, SeatSame
        <5> QED  BY <5>1, <3>3 DEF SeatStep
      <4>2. CASE g # h
        <5>1. SeatRests(g)
          BY <3>4, <4>2, <1>1, <1>3 DEF SeatRests, SeatSame
        <5> QED  BY <5>1, <3>3 DEF SeatStep
      <4> QED  BY <4>1, <4>2
    <3>5. CASE sq' = Out(sq, {h}) /\ Leaves({h}) /\ toHost' = Unread(inbox, {h})
      <4>0. SequencerType(sq) /\ g \in Seats /\ sq' = Out(sq, {h})
        BY <3>5, <1>2
      <4>1. /\ g \in {h} => sq'.queue[g] = Append(sq.queue[g], Drop) /\ sq'.carry[g] = <<>>
            /\ g \notin {h} => sq'.queue[g] = sq.queue[g] /\ sq'.carry[g] = sq.carry[g]
            /\ sq'.queuedBy[g] = sq.queuedBy[g]
        <5>1. g \in {h} => sq'.queue[g] = Append(sq.queue[g], Drop) /\ sq'.carry[g] = <<>>
          BY <4>0, OutSeat
        <5>2. g \notin {h} => sq'.queue[g] = sq.queue[g]
          BY <4>0, OutSeat
        <5>3. g \notin {h} => sq'.carry[g] = sq.carry[g]
          BY <4>0, OutSeat
        <5>4. sq'.queuedBy[g] = sq.queuedBy[g]
          BY <4>0, OutSeat
        <5> QED  BY <5>1, <5>2, <5>3, <5>4
      <4>2. /\ present'[g] <=> (present[g] /\ g # h)
            /\ wire'[g] <=> (wire[g] /\ g # h)
            /\ toHost'[g] = IF g = h THEN <<>> ELSE toHost[g]
        BY <3>5, <1>3 DEF Leaves, Unread
      <4>3. CASE g = h
        <5>1. SeatIsDropped(g)
          BY <4>1, <4>2, <4>3, <1>1 DEF SeatIsDropped, SeatGoes
        <5> QED  BY <5>1, <3>3 DEF SeatStep
      <4>4. CASE g # h
        <5>1. present'[g] = present[g]
          BY <3>5, <4>4, <1>2 DEF Leaves
        <5>2. SeatRests(g)
          BY <4>1, <4>2, <4>4, <5>1, <1>1 DEF SeatRests, SeatSame
        <5> QED  BY <5>2, <3>3 DEF SeatStep
      <4> QED  BY <4>3, <4>4
    <3> QED  BY <3>1, <3>4, <3>5 DEF Violation
  <2> QED  BY <2>1, <2>2, <2>3
<1>6. CASE m.type = "TurnAck" /\ m.turn \in Nat /\ HostAck(h, m.turn, inbox)
  <2>1. /\ sq' = OnAck(sq, h, m.turn) /\ toHost' = inbox
        /\ UNCHANGED <<present, wire, violations>>
    BY <1>6 DEF HostAck
  <2>2. Acknowledged(sq, sq')
    BY <2>1, <1>2, <1>6, OnAckFields
  <2> QED  BY <2>1, <2>2, <1>4, <1>6 DEF Acknowledged
<1>7. CASE m.type = "Hash" /\ m.turn \in Nat /\ HostHash(h, m.turn, m.hash, inbox)
  <2>0. PICK turn, hash : turn = m.turn /\ hash = m.hash
    OBVIOUS
  <2>1. /\ sq' = OnHash(sq, h, turn, hash) /\ toHost' = inbox /\ turn \in Nat
        /\ UNCHANGED <<present, wire, violations>>
    BY <1>7, <2>0 DEF HostHash
  <2>2. sq'.queue = sq.queue /\ sq'.carry = sq.carry /\ sq'.queuedBy = sq.queuedBy
    <3>1. SequencerType(sq) /\ h \in Seats /\ turn \in Nat /\ sq' = OnHash(sq, h, turn, hash)
      BY <2>1, <1>2
    <3> QED  BY <3>1, OnHashSeats
  <2> QED  BY <2>1, <2>2, <1>4, <1>7
<1>8. CASE m.type = "Leave" /\ HostLeave(h)
  <2>1. DropGuest(h) /\ UNCHANGED violations
    BY <1>8 DEF HostLeave
  <2> QED  BY <2>1, <1>1, DropGuestSeats
<1> QED  BY <1>1, <1>5, <1>6, <1>7, <1>8

\* A guest that says nothing but what is no command
LEMMA TalkSeats ==
  ASSUME IInv, NEW h \in Guests, NEW msgs \in Seq(ToHostMsg), toHost' = Say(h, msgs),
         \A i \in 1 .. Len(msgs) : msgs[i].type # "Command",
         UNCHANGED <<log, present, violations, clicked, sq>>,
         \A k \in Guests : wire'[k] => wire[k], NEW g \in Guests
  PROVE  SeatStep(g)
<1>1. SeatSame(g)
  BY DEF SeatSame
<1>2. CASE g = h /\ wire[h]
  <2>1. toHost'[g] = toHost[g] \o msgs
    BY <1>2 DEF Say, IInv, LinksOK
  <2>2. SeatTalks(g)
    BY <1>1, <1>2, <2>1 DEF SeatTalks
  <2> QED  BY <2>2 DEF SeatStep
<1>3. CASE ~(g = h /\ wire[h])
  <2>1. toHost'[g] = toHost[g]
    BY <1>3 DEF Say, IInv, LinksOK
  <2>2. SeatRests(g)
    BY <1>1, <2>1 DEF SeatRests
  <2> QED  BY <2>2 DEF SeatStep
<1> QED  BY <1>2, <1>3

LEMMA GuestClicksSeats ==
  ASSUME IInv, NEW h \in Guests, GuestClicks(h), NEW g \in Guests
  PROVE  SeatStep(g)
<1>1. /\ wire[h] /\ clicked[h] < MaxCommands /\ clicked' = [clicked EXCEPT ![h] = @ + 1]
      /\ toHost' = Say(h, <<CommandMsg(clicked'[h])>>) /\ (StartDelay => ran[h] > 0)
      /\ UNCHANGED <<sq, log, present, violations, wire>>
  BY DEF GuestClicks, Click, hostVars
<1>2. /\ clicked \in [Seats -> 0 .. MaxCommands] /\ h \in Seats /\ g \in Seats
      /\ Command = 1 .. MaxCommands /\ MaxCommands \in Nat
      /\ toHost \in [Guests -> Seq(ToHostMsg)]
  BY Players DEF IInv, GuestsOK, LinksOK
<1>3. CASE g = h
  <2>1. clicked'[g] = clicked[g] + 1 /\ clicked'[g] \in Command
    BY <1>1, <1>2, <1>3
  <2>2. toHost'[g] = toHost[g] \o <<CommandMsg(clicked'[g])>>
    BY <1>1, <1>2, <1>3 DEF Say
  <2>3. StartDelay => Len(log) > 0
    <3>1. h \in Machines /\ ran[h] \in Nat /\ Len(got[h]) \in Nat /\ ran[h] <= Len(got[h])
      BY Players, RunOfGot, LenProperties DEF IInv, TurnsOK
    <3>2. Len(log) \in Nat /\ Len(got[h]) <= Len(log)
      BY <3>1, LenProperties DEF IInv, TurnsOK, Agreement
    <3> QED  BY <1>1, <3>1, <3>2
  <2>4. SeatClicks(g)
    BY <1>1, <1>3, <2>1, <2>2, <2>3 DEF SeatClicks
  <2> QED  BY <2>4, <1>1 DEF SeatStep
<1>4. CASE g # h
  <2>1. toHost'[g] = toHost[g] /\ clicked'[g] = clicked[g]
    BY <1>1, <1>2, <1>4 DEF Say
  <2>2. SeatRests(g)
    BY <1>1, <2>1 DEF SeatRests, SeatSame
  <2> QED  BY <2>2, <1>1 DEF SeatStep
<1> QED  BY <1>3, <1>4

LEMMA GuestRunsSeats ==
  ASSUME IInv, NEW h \in Guests, GuestRuns(h), NEW g \in Guests
  PROVE  SeatStep(g)
<1>1. PICK n \in Nat, msgs \in Seq(ToHostMsg), many \in Nat :
        /\ toHost' = IF mode[h] = "Normal" THEN Say(h, msgs) ELSE toHost
        /\ Speech(h, n, msgs, many)
  BY GuestRunsSays
<1>2. UNCHANGED <<log, present, violations, clicked, sq, wire>>
  BY DEF GuestRuns, hostVars
<1>3. CASE toHost' = toHost
  BY <1>2, <1>3, AllRest
<1>4. CASE toHost' = Say(h, msgs)
  <2>1. ASSUME NEW i \in 1 .. Len(msgs) PROVE msgs[i].type # "Command"
    <3>1. Len(msgs) = many + 1 /\ i \in Nat /\ 1 <= i /\ i <= Len(msgs)
      BY <1>1 DEF Speech
    <3>2. CASE i = many + 1
      BY <1>1, <3>2 DEF Speech, AckMsg
    <3>3. CASE i # many + 1
      <4>1. i \in 1 .. many
        BY <3>1, <3>3
      <4>2. PICK t : t = ((ran[h] \div HashEvery) + i) * HashEvery - 1
        OBVIOUS
      <4>3. msgs[i] = HashMsg(t, Hash(h, t))
        BY <1>1, <4>1, <4>2 DEF Speech
      <4> QED  BY <4>3 DEF HashMsg
    <3> QED  BY <3>2, <3>3
  <2>2. \A k \in Guests : wire'[k] => wire[k]
    BY <1>2
  <2> QED  BY <1>2, <1>4, <2>1, <2>2, TalkSeats
<1> QED  BY <1>1, <1>3, <1>4

LEMMA HostSealsSeats ==
  ASSUME IInv, HostSeals, NEW g \in Guests
  PROVE  SeatStep(g)
<1>1. PICK gone \in SUBSET CanFail :
        sq' = Out(Sealed(sq), gone) /\ Leaves(gone) /\ toHost' = Unread(toHost, gone)
  BY DEF HostSeals
<1>2. log' = Append(log, sq.queue) /\ UNCHANGED <<violations, clicked>>
  BY DEF HostSeals, SealedTurn
<1>3. SequencerType(sq) /\ g \in Seats /\ sq.queue \in Turns
  BY Numbers DEF SequencerType
<1>4. PICK s : s = Sealed(sq)
  OBVIOUS
<1>5. /\ s.queue = [p \in Seats |-> SubSeq(sq.carry[p], 1, Share(sq, p))]
      /\ s.carry = [p \in Seats |-> SubSeq(sq.carry[p], Share(sq, p) + 1, Len(sq.carry[p]))]
      /\ s.queuedBy = [p \in Seats |-> Share(sq, p)]
  BY <1>3, <1>4, SealedFields
<1>6. SequencerType(s)
  BY <1>3, <1>4, SealedType
<1>7. sq' = Out(s, gone)
  BY <1>1, <1>4
<1>8. sq'.queuedBy[g] = s.queuedBy[g]
  BY <1>3, <1>6, <1>7, OutSeat
<1>9. SeatTurns(g)
  BY <1>2, <1>3, <1>5, <1>8 DEF SeatTurns
<1>10. CASE g \in gone
  <2>1. sq'.queue[g] = Append(s.queue[g], Drop) /\ sq'.carry[g] = <<>>
    BY <1>3, <1>6, <1>7, <1>10, OutSeat
  <2>2. present[g] /\ ~present'[g] /\ ~wire'[g] /\ toHost'[g] = <<>>
    BY <1>1, <1>10 DEF CanFail, Leaves, Unread
  <2>3. SeatEnds(g)
    BY <1>2, <1>3, <1>5, <1>9, <2>1, <2>2 DEF SeatEnds, SeatGoes
  <2> QED  BY <2>3, <1>2 DEF SeatStep
<1>11. CASE g \notin gone
  <2>1. sq'.queue[g] = s.queue[g]
    BY <1>3, <1>6, <1>7, <1>11, OutSeat
  <2>2. sq'.carry[g] = s.carry[g]
    BY <1>3, <1>6, <1>7, <1>11, OutSeat
  <2>3. present'[g] = present[g] /\ wire'[g] = wire[g] /\ toHost'[g] = toHost[g]
    BY <1>1, <1>11 DEF Leaves, Unread, IInv, HostOK, LinksOK
  <2>4. SeatPlays(g)
    BY <1>2, <1>3, <1>5, <1>9, <2>1, <2>2, <2>3 DEF SeatPlays
  <2> QED  BY <2>4, <1>2 DEF SeatStep
<1> QED  BY <1>10, <1>11

LEMMA HostRunsSeats ==
  ASSUME IInv, HostRuns, NEW g \in Guests
  PROVE  SeatStep(g)
<1>1. PICK turn, acked, reported, players : RunStep(turn, acked, reported, players)
  BY HostRunsSteps
<1>2. UNCHANGED <<log, present, violations, clicked, wire, toHost>> /\ turn \in Nat
  BY <1>1 DEF RunStep
<1>3. /\ acked.queue = sq.queue /\ acked.carry = sq.carry /\ acked.queuedBy = sq.queuedBy
      /\ SequencerType(acked)
  BY <1>1 DEF RunStep, Acknowledged
<1>4. CASE sq' = acked
  BY <1>2, <1>3, <1>4, AllRest
<1>5. CASE sq' = reported
  <2>1. PICK hash : hash = Hash(HostSeat, turn)
    OBVIOUS
  <2>2. CASE Seatless
    <3>1. sq' = OnRefereeHash(acked, turn, hash)
      BY <1>1, <1>5, <2>1, <2>2 DEF RunStep
    <3>2. sq'.queue = acked.queue
      BY <3>1, <1>2, <1>3, OnRefereeHashFields
    <3>3. sq'.carry = acked.carry
      BY <3>1, <1>2, <1>3, OnRefereeHashFields
    <3>4. sq'.queuedBy = acked.queuedBy
      BY <3>1, <1>2, <1>3, OnRefereeHashFields
    <3> QED  BY <1>2, <1>3, <3>2, <3>3, <3>4, AllRest
  <2>3. CASE ~Seatless
    <3>1. sq' = OnHash(acked, HostSeat, turn, hash) /\ HostSeat \in Seats
      BY <1>1, <1>5, <2>1, <2>3 DEF RunStep, Seatless
    <3>2. sq'.queue = acked.queue /\ sq'.carry = acked.carry /\ sq'.queuedBy = acked.queuedBy
      BY <3>1, <1>2, <1>3, OnHashSeats
    <3> QED  BY <1>2, <1>3, <3>2, AllRest
  <2> QED  BY <2>2, <2>3
<1> QED  BY <1>1, <1>4, <1>5 DEF RunStep

LEMMA HostClicksSeats ==
  ASSUME IInv, NEW p \in Seats, HostClicks(p), NEW g \in Guests
  PROVE  SeatStep(g)
<1>1. /\ UNCHANGED <<log, present, violations, wire, toHost>>
      /\ sq' = IF Accepts(sq, p) THEN Submitted(sq, p, clicked'[p]) ELSE sq
      /\ clicked' = [clicked EXCEPT ![p] = @ + 1] /\ clicked[p] < MaxCommands
      /\ p \in Bots \cup ({HostSeat} \cap Seats)
  BY DEF HostClicks, Click, linkVars
<1>2. g # p /\ g \in Seats
  BY <1>1, Players, MatchAssumption
<1>3. PICK c : c = clicked'[p]
  OBVIOUS
<1>4. c \in Command /\ clicked'[g] = clicked[g]
  <2>1. clicked[p] < MaxCommands /\ clicked'[p] = clicked[p] + 1 /\ clicked[p] \in 0 .. MaxCommands
        /\ clicked'[g] = clicked[g]
    BY <1>1, <1>2 DEF IInv, GuestsOK
  <2> QED  BY <1>3, <2>1, Players
<1>5. SequencerType(sq)
  BY Numbers
<1>6. sq'.queue[g] = sq.queue[g] /\ sq'.carry[g] = sq.carry[g] /\ sq'.queuedBy[g] = sq.queuedBy[g]
  <2>1. CASE sq' = sq
    BY <2>1
  <2>2. CASE sq' = Submitted(sq, p, c)
    BY <1>2, <1>4, <1>5, <2>2, SubmittedFields
  <2> QED  BY <1>1, <1>3, <2>1, <2>2
<1>7. SeatRests(g)
  BY <1>1, <1>4, <1>6 DEF SeatRests, SeatSame
<1> QED  BY <1>1, <1>7 DEF SeatStep

\* Every step does to a seat one of the things above.
LEMMA NextSeats ==
  ASSUME IInv, [Next]_vars, NEW g \in Guests
  PROVE  SeatStep(g)
<1>1. ASSUME UNCHANGED <<log, present, violations, clicked, sq, wire, toHost>> PROVE SeatStep(g)
  BY <1>1, AllRest
<1>2. CASE UNCHANGED vars
  BY <1>1, <1>2 DEF vars, hostVars, linkVars
<1>3. CASE HostWaits
  <2>1. UNCHANGED <<log, violations, clicked>>
    BY <1>3 DEF HostWaits
  <2>2. CASE UNCHANGED <<sq, present, wire, toHost>>
    BY <1>1, <2>1, <2>2
  <2>3. ASSUME NEW p \in Guests, present[p], DropGuest(p) PROVE SeatStep(g)
    BY <2>1, <2>3, DropGuestSeats
  <2> QED  BY <1>3, <2>2, <2>3 DEF HostWaits
<1>4. ASSUME NEW h \in Guests,
             HostFindsClosed(h) \/ HostSendFails(h) \/ HostSilence(h) \/ HostPolice(h)
      PROVE  SeatStep(g)
  <2>1. present[h] /\ LosesGuest(h)
    BY <1>4 DEF HostFindsClosed, HostSendFails, HostSilence, HostPolice, CanFail
  <2>2. DropGuest(h) /\ UNCHANGED <<log, violations, clicked>>
    BY <2>1 DEF LosesGuest
  <2> QED  BY <2>1, <2>2, DropGuestSeats
<1>5. ASSUME NEW h \in Guests, GuestStep(h) PROVE SeatStep(g)
  <2>1. CASE GuestHears(h) \/ GuestFindsClosed(h) \/ GuestSilence(h)
    <3>1. UNCHANGED <<log, present, violations, clicked, sq, wire, toHost>>
      BY <2>1 DEF GuestHears, GuestFindsClosed, GuestSilence, GuestLost, hostVars
    <3> QED  BY <1>1, <3>1
  <2>2. CASE GuestLeaves(h)
    <3>1. PICK msgs : msgs = <<LeaveMsg>>
      OBVIOUS
    <3>2. msgs \in Seq(ToHostMsg) /\ \A i \in 1 .. Len(msgs) : msgs[i].type # "Command"
      BY <3>1 DEF LeaveMsg, ToHostMsg
    <3>3. /\ toHost' = Say(h, msgs) /\ UNCHANGED <<log, present, violations, clicked, sq>>
          /\ \A k \in Guests : wire'[k] => wire[k]
      BY <2>2, <3>1 DEF GuestLeaves, hostVars, IInv, LinksOK
    <3> QED  BY <3>2, <3>3, TalkSeats
  <2> QED  BY <1>5, <2>1, <2>2, GuestClicksSeats, GuestRunsSeats DEF GuestStep
<1>6. ASSUME NEW h \in Guests, Breaks(h) PROVE SeatStep(g)
  <2>1. /\ wire[h] /\ wire' = [wire EXCEPT ![h] = FALSE]
        /\ UNCHANGED <<log, present, violations, clicked, sq>>
    BY <1>6 DEF Breaks, hostVars
  <2>2. PICK k \in 0 .. Len(toHost[h]) : toHost' = [toHost EXCEPT ![h] = SubSeq(@, 1, k)]
    BY <1>6 DEF Breaks
  <2>3. SeatSame(g)
    BY <2>1 DEF SeatSame
  <2>4. CASE g = h
    <3>1. SeatIsCutOff(g)
      BY <2>1, <2>2, <2>3, <2>4 DEF SeatIsCutOff, IInv, LinksOK
    <3> QED  BY <3>1, <2>1 DEF SeatStep
  <2>5. CASE g # h
    <3>1. SeatRests(g)
      BY <2>1, <2>2, <2>3, <2>5 DEF SeatRests, IInv, LinksOK
    <3> QED  BY <3>1, <2>1 DEF SeatStep
  <2> QED  BY <2>4, <2>5
<1>7. ASSUME NEW m \in Machines, GoesAstray(m) PROVE SeatStep(g)
  <2>1. UNCHANGED <<log, present, violations, clicked, sq, wire, toHost>>
    BY <1>7 DEF GoesAstray, hostVars, linkVars
  <2> QED  BY <1>1, <2>1
<1> QED
  BY <1>2, <1>3, <1>4, <1>5, <1>6, <1>7, HostSealsSeats, HostRunsSeats, HostClicksSeats,
     HostHearsSeats DEF Next, HostStep

------------------------------------------------------------------------------
(* Who goes has one Drop, and it is the last of the seat. *)

NoDropIn(q) == \A i \in 1 .. Len(q) : q[i] # Drop
EndsInDrop(q) == Len(q) > 0 /\ q[Len(q)] = Drop /\ \A i \in 1 .. Len(q) - 1 : q[i] # Drop

\* Of a guest that is in the match there is no Drop; of one that is out there is one, at
\* the end of a turn of the history or of the turn that is being filled, and nothing after
\* it, and nothing can come of it.
DropOf(g) ==
  /\ present[g] => NoDropIn(sq.queue[g]) /\ \A k \in 1 .. Len(log) : NoDropIn(log[k][g])
  /\ ~present[g] =>
       /\ ~wire[g] /\ toHost[g] = <<>> /\ sq.carry[g] = <<>>
       /\ \/ /\ EndsInDrop(sq.queue[g])
             /\ \A k \in 1 .. Len(log) : NoDropIn(log[k][g])
          \/ /\ sq.queue[g] = <<>>
             /\ \E k \in 1 .. Len(log) :
                  /\ EndsInDrop(log[k][g])
                  /\ \A j \in 1 .. Len(log) : /\ j < k => NoDropIn(log[j][g])
                                              /\ j > k => log[j][g] = <<>>

\* The types of what there is of a seat
LEMMA SeatTypes ==
  ASSUME IInv, NEW g \in Guests
  PROVE  /\ g \in Seats /\ Len(log) \in Nat
         /\ sq.queue[g] \in Seq(Command \cup {Drop}) /\ Len(sq.queue[g]) \in Nat
         /\ sq.carry[g] \in Seq(Command) /\ Len(sq.carry[g]) \in Nat
         /\ sq.queuedBy[g] \in Nat
         /\ toHost[g] \in Seq(ToHostMsg) /\ Len(toHost[g]) \in Nat
         /\ clicked[g] \in 0 .. MaxCommands
         /\ \A k \in 1 .. Len(log) : /\ log[k] \in Turns
                                     /\ log[k][g] \in Seq(Command \cup {Drop})
                                     /\ Len(log[k][g]) \in Nat
<1>1. g \in Seats /\ SequencerType(sq) /\ log \in Seq(Turns)
  BY Numbers DEF IInv, TurnsOK
<1>2. /\ sq.queue[g] \in Seq(Command \cup {Drop}) /\ sq.carry[g] \in Seq(Command)
      /\ sq.queuedBy[g] \in Nat
  BY <1>1 DEF SequencerType, Turns
<1>3. toHost[g] \in Seq(ToHostMsg) /\ clicked[g] \in 0 .. MaxCommands
  BY <1>1 DEF IInv, LinksOK, GuestsOK
<1>4. ASSUME NEW k \in 1 .. Len(log)
      PROVE  /\ log[k] \in Turns /\ log[k][g] \in Seq(Command \cup {Drop})
             /\ Len(log[k][g]) \in Nat
  <2>1. log[k] \in Turns
    BY <1>1, ElementOfSeq
  <2>2. log[k][g] \in Seq(Command \cup {Drop})
    BY <1>1, <2>1 DEF Turns
  <2> QED  BY <2>1, <2>2, LenProperties
<1> QED  BY <1>1, <1>2, <1>3, <1>4, LenProperties

\* Commands are no Drop.
LEMMA CommandsAreNoDrop ==
  ASSUME NEW q \in Seq(Command)
  PROVE  NoDropIn(q)
<1>1. \A i \in 1 .. Len(q) : q[i] \in Command
  BY ElementOfSeq
<1> QED  BY <1>1, SequencerAssumption DEF NoDropIn

\* What is carried into the next turn, and what waits on
LEMMA SharedOut ==
  ASSUME NEW s, SequencerType(s), NEW p \in Seats
  PROVE  /\ Share(s, p) \in Nat /\ Share(s, p) <= Len(s.carry[p]) /\ Len(s.carry[p]) \in Nat
         /\ Share(s, p) < Len(s.carry[p]) => Share(s, p) = MaxPerTurn
         /\ LET q == SubSeq(s.carry[p], 1, Share(s, p))
            IN /\ q \in Seq(Command) /\ Len(q) = Share(s, p)
               /\ \A i \in 1 .. Share(s, p) : q[i] = s.carry[p][i]
         /\ LET c == SubSeq(s.carry[p], Share(s, p) + 1, Len(s.carry[p]))
            IN /\ c \in Seq(Command) /\ Len(c) = Len(s.carry[p]) - Share(s, p)
               /\ \A i \in 1 .. Len(s.carry[p]) - Share(s, p) : c[i] = s.carry[p][Share(s, p) + i]
<1>1. PICK q, n : q = s.carry[p] /\ n = Share(s, p)
  OBVIOUS
<1>2. q \in Seq(Command) /\ Len(q) \in Nat
  BY <1>1, LenProperties DEF SequencerType
<1>3. /\ n \in Nat /\ n <= Len(q) /\ (n < Len(q) => n = MaxPerTurn)
  BY <1>1, <1>2, SequencerAssumption DEF Share, Lesser
<1>4. n \in 0 .. Len(q)
  BY <1>2, <1>3
<1>5. SubSeq(q, 1, n) \in Seq(Command) /\ SubSeq(q, n + 1, Len(q)) \in Seq(Command)
  BY <1>2, <1>4, Halves
<1>6. /\ Len(SubSeq(q, 1, n)) = n /\ \A i \in 1 .. n : SubSeq(q, 1, n)[i] = q[i]
  <2>1. 1 \in Int /\ n \in Int /\ \A i \in 1 .. n : q[i] \in Command
    BY <1>2, <1>3, ElementOfSeq
  <2>2. /\ Len(SubSeq(q, 1, n)) = IF 1 <= n THEN n - 1 + 1 ELSE 0
        /\ \A i \in 1 .. n - 1 + 1 : SubSeq(q, 1, n)[i] = q[1 + i - 1]
    BY <2>1, SubSeqProperties
  <2>3. Len(SubSeq(q, 1, n)) = n
    BY <2>2, <1>3
  <2>4. \A i \in 1 .. n : SubSeq(q, 1, n)[i] = q[i]
    BY <2>2, <1>3
  <2> QED  BY <2>3, <2>4
<1>7. /\ Len(SubSeq(q, n + 1, Len(q))) = Len(q) - n
      /\ \A i \in 1 .. Len(q) - n : SubSeq(q, n + 1, Len(q))[i] = q[n + i]
  <2>0. PICK m : m = Len(q)
    OBVIOUS
  <2>1. n + 1 \in Int /\ m \in Int /\ \A i \in n + 1 .. m : q[i] \in Command
    BY <2>0, <1>2, <1>3, ElementOfSeq
  <2>2. /\ Len(SubSeq(q, n + 1, m)) = IF n + 1 <= m THEN m - (n + 1) + 1 ELSE 0
        /\ \A i \in 1 .. m - (n + 1) + 1 : SubSeq(q, n + 1, m)[i] = q[(n + 1) + i - 1]
    BY <2>1, SubSeqProperties
  <2>3. Len(SubSeq(q, n + 1, m)) = m - n
    BY <2>0, <2>2, <1>2, <1>3
  <2>4. ASSUME NEW i \in 1 .. m - n PROVE SubSeq(q, n + 1, m)[i] = q[n + i]
    <3>1. i \in 1 .. m - (n + 1) + 1 /\ (n + 1) + i - 1 = n + i
      BY <2>0, <1>2, <1>3
    <3> QED  BY <3>1, <2>2
  <2> QED  BY <2>0, <2>3, <2>4
<1> QED  BY <1>1, <1>2, <1>3, <1>5, <1>6, <1>7

\* A Drop that is put at the end of a turn in which there is none
LEMMA DropAtTheEnd ==
  ASSUME NEW q \in Seq(Command \cup {Drop}), NoDropIn(q)
  PROVE  EndsInDrop(Append(q, Drop))
<1>1. /\ Len(Append(q, Drop)) = Len(q) + 1 /\ Append(q, Drop)[Len(q) + 1] = Drop
      /\ \A i \in 1 .. Len(q) : Append(q, Drop)[i] = q[i]
      /\ Len(q) \in Nat
  BY AppendProperties, LenProperties
<1>2. Len(q) + 1 - 1 = Len(q) /\ Len(q) + 1 > 0
  BY <1>1
<1>3. \A i \in 1 .. Len(q) : Append(q, Drop)[i] # Drop
  BY <1>1 DEF NoDropIn
<1> QED  BY <1>1, <1>2, <1>3 DEF EndsInDrop

\* The turn that was filled is the last of the history.
LEMMA TurnIsLast ==
  ASSUME IInv, NEW g \in Guests, SeatTurns(g)
  PROVE  /\ Len(log') = Len(log) + 1 /\ log'[Len(log) + 1] = sq.queue
         /\ \A k \in 1 .. Len(log) : log'[k] = log[k]
         /\ \A k \in 1 .. Len(log') : k \in 1 .. Len(log) \/ k = Len(log) + 1
<1>1. log \in Seq(Turns) /\ sq.queue \in Turns /\ log' = Append(log, sq.queue)
  BY DEF IInv, TurnsOK, SeatTurns
<1>2. /\ Len(log') = Len(log) + 1 /\ log'[Len(log) + 1] = sq.queue
      /\ \A k \in 1 .. Len(log) : log'[k] = log[k]
  BY <1>1, AppendProperties
<1>3. Len(log) \in Nat
  BY <1>1, LenProperties
<1>4. \A k \in 1 .. Len(log') : k \in 1 .. Len(log) \/ k = Len(log) + 1
  BY <1>2, <1>3
<1> QED  BY <1>2, <1>4

\* A sequence of no elements
LEMMA EmptyHas ==
  ASSUME NEW S, NEW q \in Seq(S), Len(q) = 0
  PROVE  q = <<>>
BY EmptySeq

\* No step takes a Drop back, adds a second or puts something behind it.
LEMMA DropStep ==
  ASSUME IInv, NEW g \in Guests, DropOf(g), SeatStep(g)
  PROVE  DropOf(g)'
<1>0. /\ g \in Seats /\ Len(log) \in Nat /\ sq.queue[g] \in Seq(Command \cup {Drop})
      /\ sq.carry[g] \in Seq(Command) /\ SequencerType(sq)
  BY SeatTypes, Numbers
<1>1. ASSUME log' = log, present'[g] = present[g], sq'.queue[g] = sq.queue[g],
             sq'.carry[g] = sq.carry[g],
             ~present[g] => ~wire'[g] /\ toHost'[g] = <<>>
      PROVE  DropOf(g)'
  <2>1. CASE present[g]
    BY <1>1, <2>1 DEF DropOf
  <2>2. CASE ~present[g]
    BY <1>1, <2>2 DEF DropOf
  <2> QED  BY <2>1, <2>2
<1>2. wire[g] => present[g]
  BY DEF DropOf
<1>3. CASE SeatRests(g) \/ SeatIsHeard(g) \/ SeatTalks(g) \/ SeatIsCutOff(g) \/ SeatClicks(g)
  <2>1. /\ log' = log /\ present'[g] = present[g] /\ sq'.queue[g] = sq.queue[g]
        /\ sq'.carry[g] = sq.carry[g]
    BY <1>3 DEF SeatRests, SeatIsHeard, SeatTalks, SeatIsCutOff, SeatClicks, SeatSame
  <2>2. ~present[g] => (wire'[g] => wire[g]) /\ toHost'[g] = toHost[g]
    BY <1>2, <1>3 DEF SeatRests, SeatIsHeard, SeatTalks, SeatIsCutOff, SeatClicks
  <2>3. ~present[g] => ~wire[g] /\ toHost[g] = <<>>
    BY DEF DropOf
  <2> QED  BY <2>1, <2>2, <2>3, <1>1
<1>4. CASE SeatOrders(g)
  <2>1. /\ log' = log /\ present[g] /\ present'[g]
        /\ NoDropIn(sq.queue[g]) /\ \A k \in 1 .. Len(log) : NoDropIn(log[k][g])
    BY <1>4 DEF SeatOrders, DropOf
  <2>2. PICK c : c = toHost[g][1].command
    OBVIOUS
  <2>3. c \in Command
    <3>1. toHost[g][1] \in ToHostMsg
      BY <1>4, TailOf, InboxOK DEF SeatOrders, IInv
    <3> QED  BY <2>2, <3>1, <1>4 DEF SeatOrders, ToHostMsg, LeaveMsg
  <2>4. sq'.queue[g] = sq.queue[g] \/ sq'.queue[g] = Append(sq.queue[g], c)
    BY <1>4, <2>2 DEF SeatOrders
  <2>5. NoDropIn(Append(sq.queue[g], c))
    <3>1. /\ Len(Append(sq.queue[g], c)) = Len(sq.queue[g]) + 1
          /\ Append(sq.queue[g], c)[Len(sq.queue[g]) + 1] = c
          /\ \A i \in 1 .. Len(sq.queue[g]) : Append(sq.queue[g], c)[i] = sq.queue[g][i]
          /\ Len(sq.queue[g]) \in Nat
      BY <1>0, <2>3, AppendProperties, LenProperties
    <3>2. c # Drop
      BY <2>3, SequencerAssumption
    <3>3. \A i \in 1 .. Len(sq.queue[g]) : sq.queue[g][i] # Drop
      BY <2>1 DEF NoDropIn
    <3>4. \A i \in 1 .. Len(sq.queue[g]) + 1 : i \in 1 .. Len(sq.queue[g]) \/ i = Len(sq.queue[g]) + 1
      BY <3>1
    <3> QED  BY <3>1, <3>2, <3>3, <3>4 DEF NoDropIn
  <2>6. NoDropIn(sq'.queue[g])
    BY <2>1, <2>4, <2>5
  <2> QED  BY <2>1, <2>6 DEF DropOf, NoDropIn
<1>5. CASE SeatIsDropped(g)
  <2>1. /\ log' = log /\ present[g] /\ ~present'[g] /\ ~wire'[g] /\ toHost'[g] = <<>>
        /\ sq'.carry[g] = <<>> /\ sq'.queue[g] = Append(sq.queue[g], Drop)
    BY <1>5 DEF SeatIsDropped, SeatGoes
  <2>2. NoDropIn(sq.queue[g]) /\ \A k \in 1 .. Len(log) : NoDropIn(log[k][g])
    BY <2>1 DEF DropOf
  <2>3. EndsInDrop(sq'.queue[g])
    BY <1>0, <2>1, <2>2, DropAtTheEnd
  <2> QED  BY <2>1, <2>2, <2>3 DEF DropOf, NoDropIn, EndsInDrop
<1>6. PICK q, c : /\ q = SubSeq(sq.carry[g], 1, Share(sq, g))
                  /\ c = SubSeq(sq.carry[g], Share(sq, g) + 1, Len(sq.carry[g]))
  OBVIOUS
<1>7. /\ q \in Seq(Command) /\ c \in Seq(Command) /\ Len(q) = Share(sq, g)
      /\ Len(c) = Len(sq.carry[g]) - Share(sq, g)
      /\ Share(sq, g) \in Nat /\ Share(sq, g) <= Len(sq.carry[g]) /\ Len(sq.carry[g]) \in Nat
  BY <1>0, <1>6, SharedOut
<1>8. NoDropIn(q)
  BY <1>7, CommandsAreNoDrop
<1>9. CASE SeatEnds(g)
  <2>1. /\ SeatTurns(g) /\ present[g] /\ ~present'[g] /\ ~wire'[g] /\ toHost'[g] = <<>>
        /\ sq'.carry[g] = <<>> /\ sq'.queue[g] = Append(q, Drop)
    BY <1>6, <1>9 DEF SeatEnds, SeatGoes
  <2>2. NoDropIn(sq.queue[g]) /\ \A k \in 1 .. Len(log) : NoDropIn(log[k][g])
    BY <2>1 DEF DropOf
  <2>3. \A k \in 1 .. Len(log') : NoDropIn(log'[k][g])
    <3> SUFFICES ASSUME NEW k \in 1 .. Len(log') PROVE NoDropIn(log'[k][g])
      OBVIOUS
    <3>1. CASE k \in 1 .. Len(log)
      BY <2>1, <2>2, <3>1, TurnIsLast
    <3>2. CASE k = Len(log) + 1
      BY <2>1, <2>2, <3>2, TurnIsLast
    <3> QED  BY <2>1, <3>1, <3>2, TurnIsLast
  <2>4. EndsInDrop(sq'.queue[g])
    <3>1. q \in Seq(Command \cup {Drop})
      BY <1>7, SeqMonotonic
    <3> QED  BY <2>1, <3>1, <1>8, DropAtTheEnd
  <2> QED  BY <2>1, <2>3, <2>4 DEF DropOf, NoDropIn, EndsInDrop
<1>10. CASE SeatPlays(g)
  <2>1. /\ SeatTurns(g) /\ present'[g] = present[g] /\ wire'[g] = wire[g] /\ toHost'[g] = toHost[g]
        /\ sq'.queue[g] = q /\ sq'.carry[g] = c
    BY <1>6, <1>10 DEF SeatPlays
  <2>2. CASE present[g]
    <3>1. NoDropIn(sq.queue[g]) /\ \A k \in 1 .. Len(log) : NoDropIn(log[k][g])
      BY <2>2 DEF DropOf
    <3>2. \A k \in 1 .. Len(log') : NoDropIn(log'[k][g])
      <4> SUFFICES ASSUME NEW k \in 1 .. Len(log') PROVE NoDropIn(log'[k][g])
        OBVIOUS
      <4>1. CASE k \in 1 .. Len(log)
        BY <2>1, <3>1, <4>1, TurnIsLast
      <4>2. CASE k = Len(log) + 1
        BY <2>1, <3>1, <4>2, TurnIsLast
      <4> QED  BY <2>1, <4>1, <4>2, TurnIsLast
    <3> QED  BY <2>1, <2>2, <3>2, <1>8 DEF DropOf, NoDropIn
  <2>3. CASE ~present[g]
    <3>1. ~wire[g] /\ toHost[g] = <<>> /\ sq.carry[g] = <<>>
      BY <2>3 DEF DropOf
    <3>2. q = <<>> /\ c = <<>>
      <4>1. Len(sq.carry[g]) = 0
        BY <3>1, EmptySeq
      <4>2. Len(q) = 0 /\ Len(c) = 0
        BY <4>1, <1>7
      <4> QED  BY <4>2, <1>7, EmptyHas
    <3>3. \E k \in 1 .. Len(log') :
            /\ EndsInDrop(log'[k][g])
            /\ \A j \in 1 .. Len(log') : /\ j < k => NoDropIn(log'[j][g])
                                         /\ j > k => log'[j][g] = <<>>
      <4>1. /\ Len(log') = Len(log) + 1 /\ log'[Len(log) + 1] = sq.queue
            /\ \A k \in 1 .. Len(log) : log'[k] = log[k]
            /\ \A k \in 1 .. Len(log') : k \in 1 .. Len(log) \/ k = Len(log) + 1
        BY <2>1, TurnIsLast
      <4>2. Len(log) + 1 \in 1 .. Len(log') /\ 1 .. Len(log) \subseteq 1 .. Len(log')
        BY <4>1, <1>0
      <4>3. CASE EndsInDrop(sq.queue[g]) /\ \A k \in 1 .. Len(log) : NoDropIn(log[k][g])
        <5>1. PICK k : k = Len(log) + 1
          OBVIOUS
        <5>2. EndsInDrop(log'[k][g])
          BY <4>1, <4>3, <5>1
        <5>3. ASSUME NEW j \in 1 .. Len(log')
              PROVE  (j < k => NoDropIn(log'[j][g])) /\ ~(j > k)
          <6>1. ~(j > k)
            BY <5>1, <4>1, <1>0
          <6>2. j < k => j \in 1 .. Len(log)
            BY <5>1, <4>1, <1>0
          <6> QED  BY <6>1, <6>2, <4>1, <4>3
        <5> QED  BY <5>1, <5>2, <5>3, <4>2
      <4>4. ASSUME sq.queue[g] = <<>>,
                   NEW k \in 1 .. Len(log), EndsInDrop(log[k][g]),
                   \A j \in 1 .. Len(log) : /\ j < k => NoDropIn(log[j][g])
                                            /\ j > k => log[j][g] = <<>>
            PROVE  \E i \in 1 .. Len(log') :
                     /\ EndsInDrop(log'[i][g])
                     /\ \A j \in 1 .. Len(log') : /\ j < i => NoDropIn(log'[j][g])
                                                  /\ j > i => log'[j][g] = <<>>
        <5>1. EndsInDrop(log'[k][g]) /\ k \in 1 .. Len(log')
          BY <4>1, <4>2, <4>4
        <5>2. ASSUME NEW j \in 1 .. Len(log')
              PROVE  (j < k => NoDropIn(log'[j][g])) /\ (j > k => log'[j][g] = <<>>)
          <6>1. CASE j \in 1 .. Len(log)
            BY <6>1, <4>1, <4>4
          <6>2. CASE j = Len(log) + 1
            <7>1. ~(j < k)
              BY <6>2, <1>0
            <7> QED  BY <7>1, <6>2, <4>1, <4>4
          <6> QED  BY <6>1, <6>2, <4>1
        <5> QED  BY <5>1, <5>2
      <4> QED  BY <2>3, <4>3, <4>4 DEF DropOf
    <3> QED  BY <2>1, <2>3, <3>1, <3>2, <3>3 DEF DropOf, NoDropIn, EndsInDrop
  <2> QED  BY <2>2, <2>3
<1> QED  BY <1>3, <1>4, <1>5, <1>9, <1>10 DEF SeatStep

LEMMA InitDrop == ASSUME Init, NEW g \in Guests PROVE DropOf(g)
<1>1. present[g] /\ log = <<>> /\ sq.queue = NoCommands /\ g \in Seats
  BY Players DEF Init, NewSequencer
<1>2. sq.queue[g] = <<>>
  BY <1>1 DEF NoCommands
<1>3. Len(<<>>) = 0
  BY EmptySeq
<1> QED  BY <1>1, <1>2, <1>3 DEF DropOf, NoDropIn

\* The rows of what there is of a seat: a turn each, the turn that is being filled, what
\* waits for a later turn and what the host has still to read
LEMMA SaidRows ==
  ASSUME IInv, NEW g \in Guests
  PROVE  /\ DOMAIN Said(g) = 1 .. Len(log) + 3
         /\ \A k \in 1 .. Len(log) : Said(g)[k] = log[k][g]
         /\ Said(g)[Len(log) + 1] = sq.queue[g] /\ Said(g)[Len(log) + 2] = sq.carry[g]
         /\ Said(g)[Len(log) + 3] = OnTheWay(g)
<1>0. Len(log) \in Nat
  BY SeatTypes
<1>1. DOMAIN Said(g) = 1 .. Len(log) + 3
  BY DEF Said
<1>2. ASSUME NEW k \in 1 .. Len(log) PROVE Said(g)[k] = log[k][g]
  <2>1. k \in 1 .. Len(log) + 3 /\ k <= Len(log)
    BY <1>0
  <2> QED  BY <2>1 DEF Said
<1>3. ASSUME NEW j \in {1, 2, 3}
      PROVE  Said(g)[Len(log) + j] = <<sq.queue[g], sq.carry[g], OnTheWay(g)>>[j]
  <2>1. Len(log) + j \in 1 .. Len(log) + 3 /\ ~(Len(log) + j <= Len(log)) /\ (Len(log) + j) - Len(log) = j
    BY <1>0
  <2> QED  BY <2>1 DEF Said
<1>4. Said(g)[Len(log) + 1] = sq.queue[g]
  BY <1>3
<1>5. Said(g)[Len(log) + 2] = sq.carry[g]
  BY <1>3
<1>6. Said(g)[Len(log) + 3] = OnTheWay(g)
  BY <1>3
<1> QED  BY <1>1, <1>2, <1>4, <1>5, <1>6

\* ... and what is in one place of them
LEMMA InPlace ==
  ASSUME IInv, NEW g \in Guests, NEW x \in Places(g)
  PROVE  \E k \in 1 .. Len(log) + 3, i \in Nat :
           /\ x = <<k, i>> /\ x[1] = k /\ x[2] = i
           /\ \/ k \in 1 .. Len(log) /\ i \in 1 .. Len(log[k][g]) /\ At(g, x) = log[k][g][i]
              \/ k = Len(log) + 1 /\ i \in 1 .. Len(sq.queue[g]) /\ At(g, x) = sq.queue[g][i]
              \/ k = Len(log) + 2 /\ i \in 1 .. Len(sq.carry[g]) /\ At(g, x) = sq.carry[g][i]
              \/ /\ k = Len(log) + 3 /\ i \in 1 .. Len(toHost[g])
                 /\ toHost[g][i].type = "Command" /\ At(g, x) = toHost[g][i].command
<1> PICK k \in DOMAIN Said(g) : \E i \in DOMAIN Said(g)[k] : x = <<k, i>>
  BY DEF Places
<1>0. PICK i \in DOMAIN Said(g)[k] : x = <<k, i>>
  OBVIOUS
<1>1. k \in 1 .. Len(log) + 3 /\ Len(log) \in Nat
  BY SaidRows, SeatTypes
<1>2. x[1] = k /\ x[2] = i /\ At(g, x) = Said(g)[k][i]
  BY <1>0 DEF At
<1>3. CASE k \in 1 .. Len(log)
  <2>1. Said(g)[k] = log[k][g] /\ DOMAIN log[k][g] = 1 .. Len(log[k][g])
    BY <1>3, SaidRows, SeatTypes, LenProperties
  <2> QED  BY <1>0, <1>1, <1>2, <1>3, <2>1
<1>4. CASE k = Len(log) + 1
  <2>1. Said(g)[k] = sq.queue[g] /\ DOMAIN sq.queue[g] = 1 .. Len(sq.queue[g])
    BY <1>4, SaidRows, SeatTypes, LenProperties
  <2> QED  BY <1>0, <1>1, <1>2, <1>4, <2>1
<1>5. CASE k = Len(log) + 2
  <2>1. Said(g)[k] = sq.carry[g] /\ DOMAIN sq.carry[g] = 1 .. Len(sq.carry[g])
    BY <1>5, SaidRows, SeatTypes, LenProperties
  <2> QED  BY <1>0, <1>1, <1>2, <1>5, <2>1
<1>6. CASE k = Len(log) + 3
  <2>1. Said(g)[k] = OnTheWay(g) /\ DOMAIN toHost[g] = 1 .. Len(toHost[g])
    BY <1>6, SaidRows, SeatTypes, LenProperties
  <2>2. /\ i \in 1 .. Len(toHost[g]) /\ toHost[g][i].type = "Command"
        /\ At(g, x) = toHost[g][i].command
    BY <1>0, <1>2, <2>1 DEF OnTheWay
  <2> QED  BY <1>0, <1>1, <1>2, <1>6, <2>2
<1> QED
  <2>1. k \in 1 .. Len(log) \/ k = Len(log) + 1 \/ k = Len(log) + 2 \/ k = Len(log) + 3
    BY <1>1
  <2> QED  BY <2>1, <1>3, <1>4, <1>5, <1>6

LEMMA APlace ==
  ASSUME IInv, NEW g \in Guests, NEW k \in 1 .. Len(log) + 3, NEW i,
         \/ k \in 1 .. Len(log) /\ i \in 1 .. Len(log[k][g])
         \/ k = Len(log) + 1 /\ i \in 1 .. Len(sq.queue[g])
         \/ k = Len(log) + 2 /\ i \in 1 .. Len(sq.carry[g])
         \/ k = Len(log) + 3 /\ i \in 1 .. Len(toHost[g]) /\ toHost[g][i].type = "Command"
  PROVE  <<k, i>> \in Places(g) /\ At(g, <<k, i>>) = Said(g)[k][i]
<1>0. Len(log) \in Nat /\ DOMAIN Said(g) = 1 .. Len(log) + 3
  BY SaidRows, SeatTypes
<1>1. CASE k \in 1 .. Len(log) /\ i \in 1 .. Len(log[k][g])
  <2>1. Said(g)[k] = log[k][g] /\ DOMAIN log[k][g] = 1 .. Len(log[k][g])
    BY <1>1, SaidRows, SeatTypes, LenProperties
  <2> QED  BY <1>0, <1>1, <2>1 DEF Places, At
<1>2. CASE k = Len(log) + 1 /\ i \in 1 .. Len(sq.queue[g])
  <2>1. Said(g)[k] = sq.queue[g] /\ DOMAIN sq.queue[g] = 1 .. Len(sq.queue[g])
    BY <1>2, SaidRows, SeatTypes, LenProperties
  <2> QED  BY <1>0, <1>2, <2>1 DEF Places, At
<1>3. CASE k = Len(log) + 2 /\ i \in 1 .. Len(sq.carry[g])
  <2>1. Said(g)[k] = sq.carry[g] /\ DOMAIN sq.carry[g] = 1 .. Len(sq.carry[g])
    BY <1>3, SaidRows, SeatTypes, LenProperties
  <2> QED  BY <1>0, <1>3, <2>1 DEF Places, At
<1>4. CASE k = Len(log) + 3 /\ i \in 1 .. Len(toHost[g]) /\ toHost[g][i].type = "Command"
  <2>1. Said(g)[k] = OnTheWay(g) /\ DOMAIN toHost[g] = 1 .. Len(toHost[g])
    BY <1>4, SaidRows, SeatTypes, LenProperties
  <2>2. i \in DOMAIN OnTheWay(g)
    BY <1>4, <2>1 DEF OnTheWay
  <2> QED  BY <1>0, <2>1, <2>2 DEF Places, At
<1> QED  BY <1>1, <1>2, <1>3, <1>4

\* A Drop of a seat that has one is the last thing of it.
LEMMA LastOfRow ==
  ASSUME IInv, NEW g \in Guests, DropOf(g), ~present[g]
  PROVE  \E x \in Places(g) :
           At(g, x) = Drop /\ \A y \in Places(g) \ {x} : At(g, y) # Drop /\ Before(y, x)
<1>0. /\ sq.carry[g] = <<>> /\ toHost[g] = <<>> /\ Len(log) \in Nat
      /\ Len(sq.carry[g]) = 0 /\ Len(toHost[g]) = 0
  BY SeatTypes, EmptySeq DEF DropOf
<1>1. CASE EndsInDrop(sq.queue[g]) /\ \A k \in 1 .. Len(log) : NoDropIn(log[k][g])
  <2>1. PICK n, m, x : n = Len(log) + 1 /\ m = Len(sq.queue[g]) /\ x = <<n, m>>
    OBVIOUS
  <2>2. m \in Nat /\ m > 0 /\ m \in 1 .. m /\ n \in 1 .. Len(log) + 3
    BY <1>0, <1>1, <2>1, SeatTypes DEF EndsInDrop
  <2>3. x \in Places(g) /\ At(g, x) = Said(g)[n][m] /\ Said(g)[n] = sq.queue[g]
    BY <2>1, <2>2, APlace, SaidRows
  <2>4. At(g, x) = Drop
    BY <2>1, <2>3, <1>1 DEF EndsInDrop
  <2>5. ASSUME NEW y \in Places(g), y # x PROVE At(g, y) # Drop /\ Before(y, x)
    <3>1. PICK k \in 1 .. Len(log) + 3, i \in Nat :
            /\ y = <<k, i>> /\ y[1] = k /\ y[2] = i
            /\ \/ k \in 1 .. Len(log) /\ i \in 1 .. Len(log[k][g]) /\ At(g, y) = log[k][g][i]
               \/ k = Len(log) + 1 /\ i \in 1 .. Len(sq.queue[g]) /\ At(g, y) = sq.queue[g][i]
               \/ k = Len(log) + 2 /\ i \in 1 .. Len(sq.carry[g])
               \/ k = Len(log) + 3 /\ i \in 1 .. Len(toHost[g])
      BY InPlace
    <3>2. i \notin 1 .. Len(sq.carry[g]) /\ i \notin 1 .. Len(toHost[g])
      BY <1>0
    <3>3. x[1] = n /\ x[2] = m
      BY <2>1
    <3>4. CASE k \in 1 .. Len(log) /\ i \in 1 .. Len(log[k][g]) /\ At(g, y) = log[k][g][i]
      <4>1. k < n
        BY <3>4, <2>1, <1>0
      <4>2. At(g, y) # Drop
        BY <3>4, <1>1 DEF NoDropIn
      <4> QED  BY <3>1, <3>3, <4>1, <4>2 DEF Before
    <3>5. CASE k = Len(log) + 1 /\ i \in 1 .. Len(sq.queue[g]) /\ At(g, y) = sq.queue[g][i]
      <4>1. i # m
        BY <2>1, <2>5, <3>1, <3>5
      <4>2. i \in 1 .. Len(sq.queue[g]) - 1 /\ i < m
        BY <4>1, <3>5, <2>1, <2>2
      <4>3. At(g, y) # Drop
        BY <3>5, <4>2, <1>1 DEF EndsInDrop
      <4> QED  BY <2>1, <3>1, <3>3, <3>5, <4>2, <4>3 DEF Before
    <3> QED  BY <3>1, <3>2, <3>4, <3>5
  <2> QED  BY <2>3, <2>4, <2>5
<1>2. ASSUME sq.queue[g] = <<>>, NEW n \in 1 .. Len(log), EndsInDrop(log[n][g]),
             \A j \in 1 .. Len(log) : /\ j < n => NoDropIn(log[j][g])
                                      /\ j > n => log[j][g] = <<>>
      PROVE  \E x \in Places(g) :
               At(g, x) = Drop /\ \A y \in Places(g) \ {x} : At(g, y) # Drop /\ Before(y, x)
  <2>1. PICK m, x : m = Len(log[n][g]) /\ x = <<n, m>>
    OBVIOUS
  <2>2. m \in Nat /\ m > 0 /\ m \in 1 .. m /\ n \in 1 .. Len(log) + 3
    BY <1>0, <1>2, <2>1, SeatTypes DEF EndsInDrop
  <2>3. x \in Places(g) /\ At(g, x) = Said(g)[n][m] /\ Said(g)[n] = log[n][g]
    BY <1>2, <2>1, <2>2, APlace, SaidRows
  <2>4. At(g, x) = Drop
    BY <2>1, <2>3, <1>2 DEF EndsInDrop
  <2>5. ASSUME NEW y \in Places(g), y # x PROVE At(g, y) # Drop /\ Before(y, x)
    <3>1. PICK k \in 1 .. Len(log) + 3, i \in Nat :
            /\ y = <<k, i>> /\ y[1] = k /\ y[2] = i
            /\ \/ k \in 1 .. Len(log) /\ i \in 1 .. Len(log[k][g]) /\ At(g, y) = log[k][g][i]
               \/ k = Len(log) + 1 /\ i \in 1 .. Len(sq.queue[g])
               \/ k = Len(log) + 2 /\ i \in 1 .. Len(sq.carry[g])
               \/ k = Len(log) + 3 /\ i \in 1 .. Len(toHost[g])
      BY InPlace
    <3>2. /\ i \notin 1 .. Len(sq.carry[g]) /\ i \notin 1 .. Len(toHost[g])
          /\ i \notin 1 .. Len(sq.queue[g])
      <4>1. Len(sq.queue[g]) = 0
        BY <1>2, EmptySeq
      <4> QED  BY <1>0, <4>1
    <3>3. x[1] = n /\ x[2] = m
      BY <2>1
    <3>4. k \in 1 .. Len(log) /\ i \in 1 .. Len(log[k][g]) /\ At(g, y) = log[k][g][i]
      BY <3>1, <3>2
    <3>5. CASE k < n
      <4>1. At(g, y) # Drop
        BY <3>4, <3>5, <1>2 DEF NoDropIn
      <4> QED  BY <3>1, <3>3, <3>5, <4>1 DEF Before
    <3>6. CASE k = n
      <4>1. i # m
        BY <2>1, <2>5, <3>1, <3>6
      <4>2. i \in 1 .. Len(log[n][g]) - 1 /\ i < m
        BY <4>1, <3>4, <3>6, <2>1, <2>2
      <4>3. At(g, y) # Drop
        BY <3>4, <3>6, <4>2, <1>2 DEF EndsInDrop
      <4> QED  BY <3>1, <3>3, <3>6, <4>2, <4>3 DEF Before
    <3>7. CASE k > n
      <4>1. Len(log[k][g]) = 0
        BY <3>4, <3>7, <1>2, EmptySeq
      <4> QED  BY <3>4, <4>1
    <3> QED
      <4>1. k < n \/ k = n \/ k > n
        BY <3>4, <1>0
      <4> QED  BY <4>1, <3>5, <3>6, <3>7
  <2> QED  BY <2>3, <2>4, <2>5
<1> QED  BY <1>1, <1>2 DEF DropOf

LEMMA NoDropOfThePresent ==
  ASSUME IInv, NEW g \in Guests, DropOf(g), present[g], NEW x \in Places(g)
  PROVE  At(g, x) # Drop
<1>1. PICK k \in 1 .. Len(log) + 3, i \in Nat :
           /\ x = <<k, i>> /\ x[1] = k /\ x[2] = i
           /\ \/ k \in 1 .. Len(log) /\ i \in 1 .. Len(log[k][g]) /\ At(g, x) = log[k][g][i]
              \/ k = Len(log) + 1 /\ i \in 1 .. Len(sq.queue[g]) /\ At(g, x) = sq.queue[g][i]
              \/ k = Len(log) + 2 /\ i \in 1 .. Len(sq.carry[g]) /\ At(g, x) = sq.carry[g][i]
              \/ /\ k = Len(log) + 3 /\ i \in 1 .. Len(toHost[g])
                 /\ toHost[g][i].type = "Command" /\ At(g, x) = toHost[g][i].command
  BY InPlace
<1>2. CASE k \in 1 .. Len(log) /\ i \in 1 .. Len(log[k][g]) /\ At(g, x) = log[k][g][i]
  BY <1>2 DEF DropOf, NoDropIn
<1>3. CASE k = Len(log) + 1 /\ i \in 1 .. Len(sq.queue[g]) /\ At(g, x) = sq.queue[g][i]
  BY <1>3 DEF DropOf, NoDropIn
<1>4. CASE k = Len(log) + 2 /\ i \in 1 .. Len(sq.carry[g]) /\ At(g, x) = sq.carry[g][i]
  <2>1. sq.carry[g] \in Seq(Command)
    BY SeatTypes
  <2> QED  BY <2>1, <1>4, CommandsAreNoDrop DEF NoDropIn
<1>5. CASE /\ k = Len(log) + 3 /\ i \in 1 .. Len(toHost[g])
           /\ toHost[g][i].type = "Command" /\ At(g, x) = toHost[g][i].command
  <2>1. toHost[g][i] \in ToHostMsg
    BY <1>5, SeatTypes, ElementOfSeq
  <2>2. At(g, x) \in Command
    BY <2>1, <1>5 DEF ToHostMsg, LeaveMsg
  <2> QED  BY <2>2, SequencerAssumption
<1> QED  BY <1>1, <1>2, <1>3, <1>4, <1>5

\* A guest that goes, in whatever way, has exactly one Drop in the history, and nothing of
\* it comes after (lose(), Sequencer::system_drop, set_active): whatever waited for a later
\* turn or was on its way is gone with it.
THEOREM OneDropAndTheLast == Spec => []DropIsLast
<1> DEFINE Inv == \A g \in Guests : DropOf(g)
<1>1. Init => IInv /\ Inv
  BY InitIInv, InitDrop
<1>2. IInv /\ Inv /\ [Next]_vars => (IInv /\ Inv)'
  <2> SUFFICES ASSUME IInv, Inv, [Next]_vars PROVE IInv' /\ Inv'
    OBVIOUS
  <2>1. IInv'
    BY NextIInv
  <2>2. ASSUME NEW g \in Guests PROVE DropOf(g)'
    BY NextSeats, DropStep
  <2> QED  BY <2>1, <2>2
<1>3. IInv /\ Inv => DropIsLast
  BY LastOfRow, NoDropOfThePresent DEF DropIsLast
<1> HIDE DEF Inv
<1> QED  BY <1>1, <1>2, <1>3, PTL DEF Spec

------------------------------------------------------------------------------
(* The orders of a guest that broke no rule are kept, in their order. *)

\* A turn of the seat, or the one that is being filled: first the orders lo + 1 .. hi, then
\* the sequencer's own command if it is there
Part(q, lo, hi) ==
  /\ lo <= hi /\ hi <= lo + Len(q)
  /\ \A i \in 1 .. Len(q) : /\ lo + i <= hi => q[i] = lo + i
                            /\ lo + i > hi => q[i] = Drop

\* A link on which the orders lo + 1 .. hi come, in their order, among other messages
IsOrder(m) == m.type = "Command"
Coming(box, lo, hi) ==
  /\ \A i \in 1 .. Len(box) : IsOrder(box[i]) => lo < box[i].command /\ box[i].command <= hi
  /\ \A i, j \in 1 .. Len(box) :
       i < j /\ IsOrder(box[i]) /\ IsOrder(box[j]) => box[i].command < box[j].command
  /\ \A c \in lo + 1 .. hi : \E i \in 1 .. Len(box) : IsOrder(box[i]) /\ box[i].command = c

\* The turn k of the history ends with the order e[k].
InHistory(g, e) ==
  /\ e \in [0 .. Len(log) -> Nat] /\ e[0] = 0
  /\ \A j, k \in 0 .. Len(log) : j <= k => e[j] <= e[k]
  /\ \A k \in 1 .. Len(log) : Part(log[k][g], e[k - 1], e[k])

\* The turn that is being filled ends with the order a, what waits with b and what is on its
\* way with z, the last that was given if the link stands.
Ledger(g, e, a, b, z) ==
  /\ InHistory(g, e)
  /\ a <= b /\ b <= z /\ z <= clicked[g]
  /\ Part(sq.queue[g], e[Len(log)], a)
  /\ b = a + Len(sq.carry[g]) /\ \A i \in 1 .. Len(sq.carry[g]) : sq.carry[g][i] = a + i
  /\ Coming(toHost[g], b, z)
  /\ present[g] /\ wire[g] => z = clicked[g]

\* Something waits only where the turn that is being filled has no room.
CarryOf(g) == Len(sq.carry[g]) > 0 => ~HasRoom(sq, g)

\* Before the first turn a machine whose dialog is up gives no orders.
StartOf(g) ==
  StartDelay /\ Len(log) = 0 => \A i \in 1 .. Len(toHost[g]) : ~IsOrder(toHost[g][i])

OrdersOf(g) ==
  /\ DropOf(g) /\ CarryOf(g) /\ StartOf(g)
  /\ violations[g] = 0 => \E e : \E a, b, z \in Nat : Ledger(g, e, a, b, z)

\* An order of a link is a number.
LEMMA OrderIsNumber ==
  ASSUME NEW box \in Seq(ToHostMsg), NEW i \in 1 .. Len(box), IsOrder(box[i])
  PROVE  box[i].command \in Command /\ box[i].command \in Nat
<1>1. box[i] \in ToHostMsg
  BY ElementOfSeq
<1>2. box[i].command \in Command
  BY <1>1 DEF ToHostMsg, LeaveMsg, IsOrder
<1> QED  BY <1>2, Players

\* The tail of a link
LEMMA TailOfLink ==
  ASSUME NEW box \in Seq(ToHostMsg), box # <<>>
  PROVE  /\ Tail(box) \in Seq(ToHostMsg) /\ Len(box) \in Nat \ {0}
         /\ Len(Tail(box)) = Len(box) - 1 /\ Len(Tail(box)) \in Nat
         /\ 1 \in 1 .. Len(box)
         /\ \A i \in 1 .. Len(Tail(box)) : i + 1 \in 1 .. Len(box) /\ Tail(box)[i] = box[i + 1]
         /\ \A j \in 1 .. Len(box) : j # 1 => j - 1 \in 1 .. Len(Tail(box)) /\ Tail(box)[j - 1] = box[j]
<1>1. /\ Len(box) \in Nat \ {0} /\ Tail(box) \in Seq(ToHostMsg)
      /\ Len(Tail(box)) = Len(box) - 1
      /\ \A i \in 1 .. Len(Tail(box)) : Tail(box)[i] = box[i + 1]
  BY EmptySeq, HeadTailProperties
<1>2. Len(Tail(box)) \in Nat /\ 1 \in 1 .. Len(box)
  BY <1>1
<1>3. ASSUME NEW i \in 1 .. Len(Tail(box)) PROVE i + 1 \in 1 .. Len(box)
  BY <1>1, <1>2
<1>4. ASSUME NEW j \in 1 .. Len(box), j # 1
      PROVE  j - 1 \in 1 .. Len(Tail(box)) /\ Tail(box)[j - 1] = box[j]
  <2>1. j - 1 \in 1 .. Len(Tail(box)) /\ (j - 1) + 1 = j
    BY <1>1, <1>2, <1>4
  <2>2. Tail(box)[j - 1] = box[(j - 1) + 1]
    BY <2>1, <1>1
  <2> QED  BY <2>1, <2>2
<1> QED  BY <1>1, <1>2, <1>3, <1>4

\* A message that is no order is read.
LEMMA ComingOthers ==
  ASSUME NEW box \in Seq(ToHostMsg), box # <<>>, ~IsOrder(box[1]),
         NEW lo \in Nat, NEW hi \in Nat, Coming(box, lo, hi)
  PROVE  Coming(Tail(box), lo, hi)
<1>1. PICK t : t = Tail(box)
  OBVIOUS
<1>2. /\ Len(box) \in Nat /\ Len(t) \in Nat
      /\ \A i \in 1 .. Len(t) : i + 1 \in 1 .. Len(box) /\ t[i] = box[i + 1]
      /\ \A j \in 1 .. Len(box) : j # 1 => j - 1 \in 1 .. Len(t) /\ t[j - 1] = box[j]
  BY <1>1, TailOfLink
<1>3. ASSUME NEW i \in 1 .. Len(t), IsOrder(t[i]) PROVE lo < t[i].command /\ t[i].command <= hi
  BY <1>2, <1>3 DEF Coming
<1>4. ASSUME NEW i \in 1 .. Len(t), NEW j \in 1 .. Len(t), i < j, IsOrder(t[i]), IsOrder(t[j])
      PROVE  t[i].command < t[j].command
  <2>1. i + 1 < j + 1
    BY <1>2, <1>4
  <2> QED  BY <2>1, <1>2, <1>4 DEF Coming
<1>5. ASSUME NEW c \in lo + 1 .. hi PROVE \E i \in 1 .. Len(t) : IsOrder(t[i]) /\ t[i].command = c
  <2>1. PICK j \in 1 .. Len(box) : IsOrder(box[j]) /\ box[j].command = c
    BY DEF Coming
  <2>2. j # 1
    BY <2>1
  <2> QED  BY <2>1, <2>2, <1>2
<1> QED  BY <1>1, <1>3, <1>4, <1>5 DEF Coming

\* An order is read: it is the next one.
LEMMA ComingNext ==
  ASSUME NEW box \in Seq(ToHostMsg), box # <<>>, IsOrder(box[1]),
         NEW lo \in Nat, NEW hi \in Nat, Coming(box, lo, hi)
  PROVE  box[1].command = lo + 1 /\ lo + 1 <= hi /\ Coming(Tail(box), lo + 1, hi)
<1>1. PICK t, n : t = Tail(box) /\ n = lo + 1
  OBVIOUS
<1>2. /\ Len(box) \in Nat /\ Len(t) \in Nat /\ 1 \in 1 .. Len(box)
      /\ \A i \in 1 .. Len(t) : i + 1 \in 1 .. Len(box) /\ t[i] = box[i + 1]
      /\ \A j \in 1 .. Len(box) : j # 1 => j - 1 \in 1 .. Len(t) /\ t[j - 1] = box[j]
  BY <1>1, TailOfLink
<1>3. box[1].command \in Nat /\ lo < box[1].command /\ box[1].command <= hi
  BY <1>2, OrderIsNumber DEF Coming
<1>4. n \in Nat /\ n <= hi /\ n \in lo + 1 .. hi /\ n <= box[1].command
  BY <1>1, <1>3
<1>5. ASSUME NEW j \in 1 .. Len(box), j # 1, IsOrder(box[j])
      PROVE  box[1].command < box[j].command
  <2>1. 1 < j
    BY <1>2, <1>5
  <2> QED  BY <2>1, <1>2, <1>5 DEF Coming
<1>6. box[1].command = n
  <2>1. PICK j \in 1 .. Len(box) : IsOrder(box[j]) /\ box[j].command = n
    BY <1>1, <1>4 DEF Coming
  <2>2. j # 1 => box[1].command < n
    BY <1>5, <2>1
  <2>3. j = 1
    BY <2>2, <1>3, <1>4
  <2> QED  BY <2>1, <2>3
<1>7. ASSUME NEW i \in 1 .. Len(t), IsOrder(t[i]) PROVE n < t[i].command /\ t[i].command <= hi
  <2>1. i + 1 \in 1 .. Len(box) /\ t[i] = box[i + 1] /\ i + 1 # 1
    BY <1>2
  <2>2. box[1].command < box[i + 1].command /\ box[i + 1].command <= hi
    BY <2>1, <1>5, <1>7 DEF Coming
  <2> QED  BY <2>1, <2>2, <1>6
<1>8. ASSUME NEW i \in 1 .. Len(t), NEW j \in 1 .. Len(t), i < j, IsOrder(t[i]), IsOrder(t[j])
      PROVE  t[i].command < t[j].command
  <2>1. i + 1 < j + 1
    BY <1>2, <1>8
  <2> QED  BY <2>1, <1>2, <1>8 DEF Coming
<1>9. ASSUME NEW c \in n + 1 .. hi PROVE \E i \in 1 .. Len(t) : IsOrder(t[i]) /\ t[i].command = c
  <2>1. c \in lo + 1 .. hi /\ c # n
    BY <1>1, <1>4
  <2>2. PICK j \in 1 .. Len(box) : IsOrder(box[j]) /\ box[j].command = c
    BY <2>1 DEF Coming
  <2>3. j # 1
    BY <2>1, <2>2, <1>6
  <2> QED  BY <2>2, <2>3, <1>2
<1>10. Coming(t, n, hi)
  BY <1>7, <1>8, <1>9 DEF Coming
<1> QED  BY <1>1, <1>4, <1>6, <1>10

\* Messages that are no orders are said.
LEMMA ComingMore ==
  ASSUME NEW box \in Seq(ToHostMsg), NEW msgs \in Seq(ToHostMsg),
         \A i \in 1 .. Len(msgs) : ~IsOrder(msgs[i]),
         NEW lo \in Nat, NEW hi \in Nat, Coming(box, lo, hi)
  PROVE  Coming(box \o msgs, lo, hi)
<1>1. PICK t, n, k : t = box \o msgs /\ n = Len(box) /\ k = Len(msgs)
  OBVIOUS
<1>2. n \in Nat /\ k \in Nat
  BY <1>1, LenProperties
<1>3. Len(t) = n + k /\ \A i \in 1 .. n + k : t[i] = IF i <= n THEN box[i] ELSE msgs[i - n]
  BY <1>1, ConcatProperties
<1>4. ASSUME NEW i \in 1 .. Len(t), IsOrder(t[i]) PROVE i \in 1 .. n /\ t[i] = box[i]
  <2>1. CASE i <= n
    BY <1>2, <1>3, <2>1
  <2>2. CASE ~(i <= n)
    <3>1. i - n \in 1 .. k
      BY <1>2, <1>3, <2>2
    <3>2. t[i] = msgs[i - n]
      BY <1>3, <2>2
    <3> QED  BY <1>1, <1>4, <3>1, <3>2
  <2> QED  BY <2>1, <2>2
<1>5. \A i \in 1 .. n : i \in 1 .. Len(t) /\ t[i] = box[i]
  BY <1>2, <1>3
<1>6. \A i \in 1 .. Len(t) : IsOrder(t[i]) => lo < t[i].command /\ t[i].command <= hi
  BY <1>1, <1>4 DEF Coming
<1>7. ASSUME NEW i \in 1 .. Len(t), NEW j \in 1 .. Len(t), i < j, IsOrder(t[i]), IsOrder(t[j])
      PROVE  t[i].command < t[j].command
  BY <1>1, <1>4, <1>7 DEF Coming
<1>8. ASSUME NEW c \in lo + 1 .. hi PROVE \E i \in 1 .. Len(t) : IsOrder(t[i]) /\ t[i].command = c
  <2>1. PICK j \in 1 .. n : IsOrder(box[j]) /\ box[j].command = c
    BY <1>1 DEF Coming
  <2> QED  BY <2>1, <1>5
<1> QED  BY <1>1, <1>6, <1>7, <1>8 DEF Coming

\* The next order is given.
LEMMA ComingLast ==
  ASSUME NEW box \in Seq(ToHostMsg), NEW lo \in Nat, NEW hi \in Nat, lo <= hi,
         Coming(box, lo, hi), NEW m \in ToHostMsg, IsOrder(m), m.command = hi + 1
  PROVE  Coming(box \o <<m>>, lo, hi + 1)
<1>1. PICK t, n, msgs : t = box \o msgs /\ n = Len(box) /\ msgs = <<m>>
  OBVIOUS
<1>2. n \in Nat /\ msgs \in Seq(ToHostMsg) /\ Len(msgs) = 1 /\ msgs[1] = m
  BY <1>1, LenProperties
<1>3. Len(t) = n + 1 /\ \A i \in 1 .. n + 1 : t[i] = IF i <= n THEN box[i] ELSE msgs[i - n]
  BY <1>1, <1>2, ConcatProperties
<1>4. /\ \A i \in 1 .. n : i \in 1 .. Len(t) /\ t[i] = box[i]
      /\ n + 1 \in 1 .. Len(t) /\ t[n + 1] = m
      /\ \A i \in 1 .. Len(t) : i \in 1 .. n \/ i = n + 1
  <2>1. \A i \in 1 .. n : i \in 1 .. n + 1 /\ i <= n
    BY <1>2
  <2>2. n + 1 \in 1 .. n + 1 /\ ~(n + 1 <= n) /\ (n + 1) - n = 1
    BY <1>2
  <2>3. \A i \in 1 .. n + 1 : i \in 1 .. n \/ i = n + 1
    BY <1>2
  <2>4. t[n + 1] = m
    BY <2>2, <1>2, <1>3
  <2> QED  BY <2>1, <2>2, <2>3, <2>4, <1>3
<1>5. ASSUME NEW i \in 1 .. n, IsOrder(box[i])
      PROVE  lo < box[i].command /\ box[i].command <= hi /\ box[i].command \in Nat
  BY <1>1, <1>5, OrderIsNumber DEF Coming
<1>6. ASSUME NEW i \in 1 .. Len(t), IsOrder(t[i]) PROVE lo < t[i].command /\ t[i].command <= hi + 1
  <2>1. CASE i \in 1 .. n
    <3>1. lo < t[i].command /\ t[i].command <= hi /\ t[i].command \in Nat
      BY <1>4, <1>5, <1>6, <2>1
    <3> QED  BY <3>1
  <2>2. CASE i = n + 1
    <3>1. t[i].command = hi + 1
      BY <1>4, <2>2
    <3> QED  BY <3>1
  <2> QED  BY <1>4, <2>1, <2>2
<1>7. ASSUME NEW i \in 1 .. Len(t), NEW j \in 1 .. Len(t), i < j, IsOrder(t[i]), IsOrder(t[j])
      PROVE  t[i].command < t[j].command
  <2>1. i \in 1 .. n
    BY <1>2, <1>3, <1>7
  <2>2. CASE j \in 1 .. n
    BY <1>1, <1>4, <1>7, <2>1, <2>2 DEF Coming
  <2>3. CASE j = n + 1
    <3>1. t[i].command <= hi /\ t[i].command \in Nat /\ t[j].command = hi + 1
      BY <1>4, <1>5, <1>7, <2>1, <2>3
    <3> QED  BY <3>1
  <2> QED  BY <1>4, <2>2, <2>3
<1>8. ASSUME NEW c \in lo + 1 .. hi + 1
      PROVE  \E i \in 1 .. Len(t) : IsOrder(t[i]) /\ t[i].command = c
  <2>1. CASE c = hi + 1
    BY <1>4, <2>1
  <2>2. CASE c # hi + 1
    <3>1. c \in lo + 1 .. hi
      BY <2>2
    <3>2. PICK j \in 1 .. n : IsOrder(box[j]) /\ box[j].command = c
      BY <1>1, <3>1 DEF Coming
    <3> QED  BY <3>2, <1>4
  <2> QED  BY <2>1, <2>2
<1> QED  BY <1>1, <1>6, <1>7, <1>8 DEF Coming

\* The link breaks: up to some order all are there, and none after it.
LEMMA ComingCut ==
  ASSUME NEW box \in Seq(ToHostMsg), NEW lo \in Nat, NEW hi \in Nat, lo <= hi,
         Coming(box, lo, hi), NEW cut \in Seq(ToHostMsg), NEW k \in 0 .. Len(box), Len(cut) = k,
         \A i \in 1 .. k : i \in 1 .. Len(box) /\ cut[i] = box[i]
  PROVE  \E z \in Nat : lo <= z /\ z <= hi /\ Coming(cut, lo, z)
<1>1. PICK T : T = {n \in Nat : lo <= n /\ \A i \in 1 .. k : IsOrder(box[i]) => box[i].command <= n}
  OBVIOUS
<1>2. hi \in T /\ T \in SUBSET Nat
  BY <1>1 DEF Coming
<1>3. PICK z \in T : \A n \in T : z <= n
  BY <1>2, LeastNumber
<1>4. /\ z \in Nat /\ lo <= z /\ z <= hi
      /\ \A i \in 1 .. k : IsOrder(box[i]) => box[i].command <= z
  BY <1>1, <1>2, <1>3
<1>5. \A i \in 1 .. Len(cut) : IsOrder(cut[i]) => lo < cut[i].command /\ cut[i].command <= z
  BY <1>4 DEF Coming
<1>6. \A i, j \in 1 .. Len(cut) :
        i < j /\ IsOrder(cut[i]) /\ IsOrder(cut[j]) => cut[i].command < cut[j].command
  BY DEF Coming
<1>7. ASSUME NEW c \in lo + 1 .. z
      PROVE  \E i \in 1 .. Len(cut) : IsOrder(cut[i]) /\ cut[i].command = c
  <2>1. c \in lo + 1 .. hi /\ c \in Nat /\ c > lo /\ c <= z
    BY <1>4
  <2>2. PICK j \in 1 .. Len(box) : IsOrder(box[j]) /\ box[j].command = c
    BY <2>1 DEF Coming
  <2>3. CASE j <= k
    <3>1. j \in 1 .. k
      BY <2>3
    <3> QED  BY <2>2, <3>1
  <2>4. CASE ~(j <= k)
    <3>1. ASSUME NEW i \in 1 .. k, IsOrder(box[i]) PROVE box[i].command <= c - 1
      <4>1. i < j /\ i \in 1 .. Len(box)
        BY <2>4
      <4>2. box[i].command < c
        BY <4>1, <2>2, <3>1 DEF Coming
      <4>3. box[i].command \in Nat
        BY <4>1, <3>1, OrderIsNumber
      <4> QED  BY <4>2, <4>3, <2>1
    <3>2. c - 1 \in Nat /\ lo <= c - 1
      BY <2>1
    <3>3. c - 1 \in T
      BY <1>1, <3>1, <3>2
    <3>4. z <= c - 1
      BY <1>3, <3>3
    <3> QED  BY <3>4, <2>1, <1>4
  <2> QED  BY <2>3, <2>4
<1> QED  BY <1>4, <1>5, <1>6, <1>7 DEF Coming

\* A turn in which there is no Drop holds all of its orders, and takes the next or a Drop.
LEMMA PartIsFull ==
  ASSUME NEW q \in Seq(Command \cup {Drop}), NoDropIn(q),
         NEW lo \in Nat, NEW hi \in Nat, Part(q, lo, hi)
  PROVE  hi = lo + Len(q) /\ Len(q) \in Nat
<1>1. Len(q) \in Nat
  BY LenProperties
<1>2. lo <= hi /\ hi <= lo + Len(q)
  BY DEF Part
<1>3. SUFFICES ASSUME hi < lo + Len(q) PROVE FALSE
  BY <1>1, <1>2
<1>4. Len(q) \in 1 .. Len(q) /\ lo + Len(q) > hi
  BY <1>1, <1>2, <1>3
<1>5. q[Len(q)] = Drop
  BY <1>4 DEF Part
<1> QED  BY <1>4, <1>5 DEF NoDropIn

LEMMA PartOrder ==
  ASSUME NEW q \in Seq(Command \cup {Drop}), NoDropIn(q), NEW c \in Command,
         NEW lo \in Nat, NEW hi \in Nat, Part(q, lo, hi), c = hi + 1
  PROVE  Part(Append(q, c), lo, hi + 1)
<1>1. PICK r, n : r = Append(q, c) /\ n = Len(q)
  OBVIOUS
<1>2. n \in Nat /\ hi = lo + n
  BY <1>1, PartIsFull
<1>3. Len(r) = n + 1 /\ r[n + 1] = c /\ \A i \in 1 .. n : r[i] = q[i]
  BY <1>1, AppendProperties
<1>4. \A i \in 1 .. n : r[i] = lo + i
  <2>1. \A i \in 1 .. n : lo + i <= hi
    BY <1>2
  <2> QED  BY <2>1, <1>1, <1>3 DEF Part
<1>5. lo <= hi + 1 /\ hi + 1 <= lo + Len(r)
  BY <1>2, <1>3
<1>6. ASSUME NEW i \in 1 .. Len(r) PROVE r[i] = lo + i /\ ~(lo + i > hi + 1)
  <2>1. i \in 1 .. n \/ i = n + 1
    BY <1>2, <1>3
  <2>2. i = n + 1 => r[i] = lo + i
    BY <1>2, <1>3
  <2>3. ~(lo + i > hi + 1)
    BY <1>2, <1>3
  <2> QED  BY <2>1, <2>2, <2>3, <1>4
<1> QED  BY <1>1, <1>5, <1>6 DEF Part

LEMMA PartDrop ==
  ASSUME NEW q \in Seq(Command \cup {Drop}), NoDropIn(q),
         NEW lo \in Nat, NEW hi \in Nat, Part(q, lo, hi)
  PROVE  Part(Append(q, Drop), lo, hi)
<1>1. PICK r, n : r = Append(q, Drop) /\ n = Len(q)
  OBVIOUS
<1>2. n \in Nat /\ hi = lo + n
  BY <1>1, PartIsFull
<1>3. Len(r) = n + 1 /\ r[n + 1] = Drop /\ \A i \in 1 .. n : r[i] = q[i]
  BY <1>1, AppendProperties
<1>4. \A i \in 1 .. n : r[i] = lo + i /\ ~(lo + i > hi)
  <2>1. \A i \in 1 .. n : lo + i <= hi
    BY <1>2
  <2>2. \A i \in 1 .. n : ~(lo + i > hi)
    BY <1>2
  <2> QED  BY <2>1, <2>2, <1>1, <1>3 DEF Part
<1>5. lo <= hi /\ hi <= lo + Len(r)
  BY <1>2, <1>3
<1>6. ASSUME NEW i \in 1 .. Len(r)
      PROVE  (lo + i <= hi => r[i] = lo + i) /\ (lo + i > hi => r[i] = Drop)
  <2>1. i \in 1 .. n \/ i = n + 1
    BY <1>2, <1>3
  <2>2. i = n + 1 => ~(lo + i <= hi) /\ r[i] = Drop
    BY <1>2, <1>3
  <2> QED  BY <2>1, <2>2, <1>4
<1> QED  BY <1>1, <1>5, <1>6 DEF Part

\* What waited is the beginning of a turn.
LEMMA PartOfCarry ==
  ASSUME NEW q, NEW a \in Nat, NEW n \in Nat, Len(q) = n, \A i \in 1 .. n : q[i] = a + i
  PROVE  Part(q, a, a + n)
<1>1. a <= a + n /\ a + n <= a + Len(q) /\ \A i \in 1 .. n : ~(a + i > a + n)
  OBVIOUS
<1> QED  BY <1>1 DEF Part

\* Nothing comes on a link that is empty.
LEMMA NothingComing ==
  ASSUME NEW a \in Nat
  PROVE  Coming(<<>>, a, a)
<1>1. Len(<<>>) = 0
  BY EmptySeq
<1>2. \A i \in 1 .. Len(<<>>) : FALSE
  BY <1>1
<1>3. \A c \in a + 1 .. a : FALSE
  OBVIOUS
<1> QED  BY <1>2, <1>3 DEF Coming

\* A turn more
LEMMA HistoryGrows ==
  ASSUME IInv, NEW g \in Guests, SeatTurns(g), NEW e, InHistory(g, e), NEW a \in Nat,
         Part(sq.queue[g], e[Len(log)], a)
  PROVE  \E f : /\ InHistory(g, f)' /\ f[Len(log')] = a
<1>1. PICK n : n = Len(log)
  OBVIOUS
<1>2. /\ n \in Nat /\ Len(log') = n + 1 /\ log'[n + 1] = sq.queue
      /\ \A k \in 1 .. n : log'[k] = log[k]
      /\ \A k \in 1 .. Len(log') : k \in 1 .. n \/ k = n + 1
  BY <1>1, TurnIsLast, SeatTypes
<1>3. PICK f : f = [k \in 0 .. n + 1 |-> IF k <= n THEN e[k] ELSE a]
  OBVIOUS
<1>4. /\ e \in [0 .. n -> Nat] /\ e[0] = 0 /\ \A j, k \in 0 .. n : j <= k => e[j] <= e[k]
      /\ \A k \in 1 .. n : Part(log[k][g], e[k - 1], e[k])
  BY <1>1 DEF InHistory
<1>5. /\ \A k \in 0 .. n : f[k] = e[k]
      /\ f[n + 1] = a
  <2>1. \A k \in 0 .. n : k \in 0 .. n + 1 /\ k <= n
    BY <1>2
  <2>2. n + 1 \in 0 .. n + 1 /\ ~(n + 1 <= n)
    BY <1>2
  <2> QED  BY <2>1, <2>2, <1>3
<1>6. /\ 0 \in 0 .. n /\ n \in 0 .. n /\ n + 1 - 1 = n
      /\ \A k \in 0 .. n + 1 : k \in 0 .. n \/ k = n + 1
      /\ \A k \in 1 .. n : k - 1 \in 0 .. n /\ k \in 0 .. n
      /\ \A k \in 0 .. n : k <= n
  BY <1>2
<1>7. f \in [0 .. n + 1 -> Nat]
  <2>1. \A k \in 0 .. n + 1 : f[k] \in Nat
    BY <1>4, <1>5, <1>6
  <2> QED  BY <2>1, <1>3
<1>8. e[n] <= a
  BY <1>1 DEF Part
<1>9. ASSUME NEW j \in 0 .. n + 1, NEW k \in 0 .. n + 1, j <= k PROVE f[j] <= f[k]
  <2>1. CASE k \in 0 .. n
    <3>1. j \in 0 .. n
      BY <2>1, <1>9, <1>2
    <3> QED  BY <2>1, <3>1, <1>4, <1>5, <1>9
  <2>2. CASE k = n + 1 /\ j \in 0 .. n
    <3>1. e[j] <= e[n] /\ e[j] \in Nat /\ e[n] \in Nat
      BY <2>2, <1>4, <1>6
    <3>2. e[j] <= a
      BY <3>1, <1>8
    <3> QED  BY <3>2, <2>2, <1>5
  <2>3. CASE k = n + 1 /\ j = n + 1
    BY <2>3, <1>5
  <2> QED  BY <2>1, <2>2, <2>3, <1>6
<1>10. ASSUME NEW k \in 1 .. n + 1 PROVE Part(log'[k][g], f[k - 1], f[k])
  <2>1. CASE k \in 1 .. n
    <3>1. f[k - 1] = e[k - 1] /\ f[k] = e[k] /\ log'[k] = log[k]
      BY <2>1, <1>2, <1>5, <1>6
    <3> QED  BY <3>1, <2>1, <1>4
  <2>2. CASE k = n + 1
    <3>1. k - 1 = n
      BY <2>2, <1>2
    <3>2. f[k - 1] = e[n] /\ f[k] = a /\ log'[k] = sq.queue
      BY <3>1, <2>2, <1>2, <1>5, <1>6
    <3> QED  BY <3>2, <1>1
  <2> QED  BY <2>1, <2>2, <1>2
<1>11. f[0] = 0
  BY <1>4, <1>5, <1>6
<1>12. InHistory(g, f)'
  <2>1. Len(log') = n + 1
    BY <1>2
  <2> QED  BY <2>1, <1>7, <1>9, <1>10, <1>11 DEF InHistory
<1> QED  BY <1>12, <1>2, <1>5

\* What is given to the turn that follows: the share of what waited, and what waits on
LEMMA BooksOfTurn ==
  ASSUME IInv, NEW g \in Guests, SeatTurns(g),
         NEW e, NEW a \in Nat, NEW b \in Nat, NEW z \in Nat, Ledger(g, e, a, b, z)
  PROVE  /\ \E f : InHistory(g, f)' /\ f[Len(log')] = a
         /\ a + Share(sq, g) \in Nat /\ a + Share(sq, g) <= b
         /\ LET q == SubSeq(sq.carry[g], 1, Share(sq, g))
            IN q \in Seq(Command) /\ Part(q, a, a + Share(sq, g))
         /\ LET c == SubSeq(sq.carry[g], Share(sq, g) + 1, Len(sq.carry[g]))
            IN /\ b = a + Share(sq, g) + Len(c)
               /\ \A i \in 1 .. Len(c) : c[i] = a + Share(sq, g) + i
<1>0. SequencerType(sq) /\ g \in Seats
  BY Numbers
<1>1. PICK n, m, q, c : /\ n = Share(sq, g) /\ m = Len(sq.carry[g])
                        /\ q = SubSeq(sq.carry[g], 1, Share(sq, g))
                        /\ c = SubSeq(sq.carry[g], Share(sq, g) + 1, Len(sq.carry[g]))
  OBVIOUS
<1>2. /\ n \in Nat /\ n <= m /\ m \in Nat
      /\ q \in Seq(Command) /\ Len(q) = n /\ \A i \in 1 .. n : q[i] = sq.carry[g][i]
      /\ Len(c) = m - n /\ \A i \in 1 .. m - n : c[i] = sq.carry[g][n + i]
  BY <1>0, <1>1, SharedOut
<1>3. /\ InHistory(g, e) /\ Part(sq.queue[g], e[Len(log)], a)
      /\ b = a + m /\ \A i \in 1 .. m : sq.carry[g][i] = a + i
  BY <1>1 DEF Ledger
<1>4. \E f : InHistory(g, f)' /\ f[Len(log')] = a
  BY <1>3, HistoryGrows
<1>5. \A i \in 1 .. n : q[i] = a + i
  <2>1. \A i \in 1 .. n : i \in 1 .. m
    BY <1>2
  <2> QED  BY <2>1, <1>2, <1>3
<1>6. Part(q, a, a + n)
  BY <1>2, <1>5, PartOfCarry
<1>7. \A i \in 1 .. Len(c) : c[i] = a + n + i
  <2>1. \A i \in 1 .. m - n : n + i \in 1 .. m /\ a + (n + i) = a + n + i
    BY <1>2
  <2> QED  BY <2>1, <1>2, <1>3
<1>8. b = a + n + Len(c) /\ a + n \in Nat /\ a + n <= b
  BY <1>2, <1>3
<1> QED  BY <1>1, <1>2, <1>4, <1>6, <1>7, <1>8

LEMMA LedgerPlays ==
  ASSUME IInv, NEW g \in Guests, SeatPlays(g),
         NEW e, NEW a \in Nat, NEW b \in Nat, NEW z \in Nat, Ledger(g, e, a, b, z)
  PROVE  \E f : \E i, j, k \in Nat : Ledger(g, f, i, j, k)'
<1>1. SeatTurns(g)
  BY DEF SeatPlays
<1>2. PICK q, c, n : /\ q = SubSeq(sq.carry[g], 1, Share(sq, g))
                     /\ c = SubSeq(sq.carry[g], Share(sq, g) + 1, Len(sq.carry[g]))
                     /\ n = Share(sq, g)
  OBVIOUS
<1>3. /\ \E f : InHistory(g, f)' /\ f[Len(log')] = a
      /\ a + n \in Nat /\ a + n <= b /\ Part(q, a, a + n)
      /\ b = a + n + Len(c) /\ \A i \in 1 .. Len(c) : c[i] = a + n + i
  <2>1. \E f : InHistory(g, f)' /\ f[Len(log')] = a
    BY <1>1, BooksOfTurn
  <2>2. a + n \in Nat /\ a + n <= b
    BY <1>1, <1>2, BooksOfTurn
  <2>3. Part(q, a, a + n)
    BY <1>1, <1>2, BooksOfTurn
  <2>4. b = a + n + Len(c)
    <3>1. Len(c) = Len(sq.carry[g]) - n /\ n \in Nat /\ Len(sq.carry[g]) \in Nat
      <4>1. SequencerType(sq) /\ g \in Seats
        BY Numbers
      <4> QED  BY <4>1, <1>2, SharedOut
    <3>2. b = a + Len(sq.carry[g])
      BY DEF Ledger
    <3>3. PICK m, w : m = Len(sq.carry[g]) /\ w = Len(c)
      OBVIOUS
    <3>4. m \in Nat /\ n \in Nat /\ w = m - n /\ b = a + m
      BY <3>1, <3>2, <3>3
    <3>5. b = a + n + w
      BY <3>4
    <3> QED  BY <3>3, <3>5
  <2>5. \A i \in 1 .. Len(c) : c[i] = a + n + i
    BY <1>1, <1>2, BooksOfTurn
  <2> QED  BY <2>1, <2>2, <2>3, <2>4, <2>5
<1>4. PICK f : InHistory(g, f)' /\ f[Len(log')] = a
  BY <1>3
<1>5. /\ sq'.queue[g] = q /\ sq'.carry[g] = c /\ toHost'[g] = toHost[g] /\ clicked'[g] = clicked[g]
      /\ present'[g] = present[g] /\ wire'[g] = wire[g]
  BY <1>2 DEF SeatPlays
<1>6. b <= z /\ z <= clicked[g] /\ Coming(toHost[g], b, z) /\ (present[g] /\ wire[g] => z = clicked[g])
  BY DEF Ledger
<1>7. Coming(toHost'[g], b, z) /\ Part(sq'.queue[g], f[Len(log')], a + n)
  BY <1>3, <1>4, <1>5, <1>6
<1>8. Ledger(g, f, a + n, b, z)'
  BY <1>3, <1>4, <1>5, <1>6, <1>7 DEF Ledger
<1> QED  BY <1>3, <1>8

LEMMA LedgerEnds ==
  ASSUME IInv, NEW g \in Guests, SeatEnds(g),
         NEW e, NEW a \in Nat, NEW b \in Nat, NEW z \in Nat, Ledger(g, e, a, b, z)
  PROVE  \E f : \E i, j, k \in Nat : Ledger(g, f, i, j, k)'
<1>1. SeatTurns(g)
  BY DEF SeatEnds
<1>2. PICK q, n : q = SubSeq(sq.carry[g], 1, Share(sq, g)) /\ n = Share(sq, g)
  OBVIOUS
<1>3. /\ \E f : InHistory(g, f)' /\ f[Len(log')] = a
      /\ a + n \in Nat /\ a + n <= b /\ q \in Seq(Command) /\ Part(q, a, a + n)
  BY <1>1, <1>2, BooksOfTurn
<1>4. PICK f : InHistory(g, f)' /\ f[Len(log')] = a
  BY <1>3
<1>5. PICK w : w = a + n
  OBVIOUS
<1>6. /\ sq'.queue[g] = Append(q, Drop) /\ sq'.carry[g] = <<>> /\ toHost'[g] = <<>>
      /\ clicked'[g] = clicked[g] /\ ~present'[g]
  BY <1>2 DEF SeatEnds, SeatGoes
<1>7. Part(sq'.queue[g], a, w)
  <2>1. q \in Seq(Command \cup {Drop})
    BY <1>3, SeqMonotonic
  <2>2. NoDropIn(q)
    BY <1>3, CommandsAreNoDrop
  <2>3. w \in Nat /\ Part(q, a, w)
    BY <1>3, <1>5
  <2>4. Part(Append(q, Drop), a, w)
    BY <2>1, <2>2, <2>3, PartDrop
  <2> QED  BY <2>4, <1>6
<1>8. w \in Nat /\ w <= clicked'[g]
  <2>1. b <= z /\ z <= clicked[g] /\ clicked[g] \in Nat
    BY Players, SeatTypes DEF Ledger
  <2> QED  BY <2>1, <1>3, <1>5, <1>6
<1>9. Coming(toHost'[g], w, w)
  BY <1>6, <1>8, NothingComing
<1>10. Len(sq'.carry[g]) = 0
  BY <1>6, EmptySeq
<1>11. w = w + Len(sq'.carry[g]) /\ \A i \in 1 .. Len(sq'.carry[g]) : FALSE
  BY <1>8, <1>10
<1>12. Ledger(g, f, w, w, w)'
  BY <1>4, <1>6, <1>7, <1>8, <1>9, <1>11 DEF Ledger
<1> QED  BY <1>8, <1>12

LEMMA LedgerIsDropped ==
  ASSUME IInv, NEW g \in Guests, DropOf(g), SeatIsDropped(g),
         NEW e, NEW a \in Nat, NEW b \in Nat, NEW z \in Nat, Ledger(g, e, a, b, z)
  PROVE  \E f : \E i, j, k \in Nat : Ledger(g, f, i, j, k)'
<1>1. /\ log' = log /\ present[g] /\ ~present'[g] /\ toHost'[g] = <<>> /\ clicked'[g] = clicked[g]
      /\ sq'.carry[g] = <<>> /\ sq'.queue[g] = Append(sq.queue[g], Drop)
  BY DEF SeatIsDropped, SeatGoes
<1>2. InHistory(g, e) /\ Part(sq.queue[g], e[Len(log)], a) /\ a <= b /\ b <= z /\ z <= clicked[g]
  BY DEF Ledger
<1>3. InHistory(g, e)'
  BY <1>1, <1>2 DEF InHistory
<1>4. PICK lo : lo = e[Len(log)]
  OBVIOUS
<1>5. lo \in Nat
  BY <1>2, <1>4, SeatTypes DEF InHistory
<1>6. Part(Append(sq.queue[g], Drop), lo, a)
  <2>1. sq.queue[g] \in Seq(Command \cup {Drop}) /\ NoDropIn(sq.queue[g])
    BY <1>1, SeatTypes DEF DropOf
  <2>2. Part(sq.queue[g], lo, a)
    BY <1>2, <1>4
  <2> QED  BY <2>1, <2>2, <1>5, PartDrop
<1>7. Part(sq'.queue[g], e[Len(log')], a)
  BY <1>1, <1>4, <1>6
<1>8. a <= clicked'[g]
  <2>1. clicked[g] \in Nat
    BY Players, SeatTypes
  <2> QED  BY <2>1, <1>1, <1>2
<1>9. Coming(toHost'[g], a, a)
  BY <1>1, NothingComing
<1>10. Len(sq'.carry[g]) = 0
  BY <1>1, EmptySeq
<1>11. a = a + Len(sq'.carry[g]) /\ \A i \in 1 .. Len(sq'.carry[g]) : FALSE
  BY <1>10
<1>12. Ledger(g, e, a, a, a)'
  BY <1>1, <1>3, <1>7, <1>8, <1>9, <1>11 DEF Ledger
<1> QED  BY <1>12

LEMMA LedgerOrders ==
  ASSUME IInv, NEW g \in Guests, DropOf(g), CarryOf(g), SeatOrders(g),
         NEW e, NEW a \in Nat, NEW b \in Nat, NEW z \in Nat, Ledger(g, e, a, b, z)
  PROVE  \E f : \E i, j, k \in Nat : Ledger(g, f, i, j, k)'
<1>1. /\ log' = log /\ present[g] /\ present'[g] /\ clicked'[g] = clicked[g] /\ wire'[g] = wire[g]
      /\ toHost[g] # <<>> /\ toHost'[g] = Tail(toHost[g]) /\ IsOrder(toHost[g][1])
  BY DEF SeatOrders, IsOrder
<1>2. /\ InHistory(g, e) /\ Part(sq.queue[g], e[Len(log)], a)
      /\ b = a + Len(sq.carry[g]) /\ \A i \in 1 .. Len(sq.carry[g]) : sq.carry[g][i] = a + i
      /\ Coming(toHost[g], b, z) /\ b <= z /\ z <= clicked[g]
      /\ (wire[g] => z = clicked[g])
  BY <1>1 DEF Ledger
<1>3. InHistory(g, e)'
  BY <1>1, <1>2 DEF InHistory
<1>4. PICK c : c = toHost[g][1].command
  OBVIOUS
<1>5. c = b + 1 /\ b + 1 <= z /\ Coming(Tail(toHost[g]), b + 1, z)
  <2>1. toHost[g] \in Seq(ToHostMsg)
    BY SeatTypes
  <2> QED  BY <2>1, <1>1, <1>2, <1>4, ComingNext
<1>6. c \in Command
  <2>1. toHost[g] \in Seq(ToHostMsg) /\ 1 \in 1 .. Len(toHost[g])
    BY <1>1, SeatTypes, TailOfLink
  <2> QED  BY <2>1, <1>1, <1>4, OrderIsNumber
<1>7. Coming(toHost'[g], b + 1, z) /\ b + 1 \in Nat
  BY <1>1, <1>5
<1>8. PICK lo : lo = e[Len(log)]
  OBVIOUS
<1>9. lo \in Nat /\ Part(sq.queue[g], lo, a)
  BY <1>2, <1>8, SeatTypes DEF InHistory
<1>10. CASE /\ HasRoom(sq, g) /\ sq'.queue[g] = Append(sq.queue[g], c)
            /\ sq'.carry[g] = sq.carry[g]
  <2>1. Len(sq.carry[g]) = 0
    BY <1>10, SeatTypes DEF CarryOf
  <2>2. b = a
    BY <2>1, <1>2
  <2>3. sq.queue[g] \in Seq(Command \cup {Drop}) /\ NoDropIn(sq.queue[g])
    BY <1>1, SeatTypes DEF DropOf
  <2>4. Part(Append(sq.queue[g], c), lo, a + 1)
    <3>1. c = a + 1
      BY <2>2, <1>5
    <3> QED  BY <3>1, <2>3, <1>6, <1>9, PartOrder
  <2>5. Part(sq'.queue[g], e[Len(log')], a + 1)
    BY <2>4, <1>1, <1>8, <1>10
  <2>6. Len(sq'.carry[g]) = 0
    BY <2>1, <1>10
  <2>7. a + 1 = a + 1 + Len(sq'.carry[g]) /\ \A i \in 1 .. Len(sq'.carry[g]) : FALSE
    BY <2>6
  <2>8. Coming(toHost'[g], a + 1, z) /\ a + 1 <= z /\ a + 1 \in Nat
    BY <2>2, <1>5, <1>7
  <2>9. Ledger(g, e, a + 1, a + 1, z)'
    BY <2>5, <2>7, <2>8, <1>1, <1>2, <1>3 DEF Ledger
  <2> QED  BY <2>8, <2>9
<1>11. CASE sq'.queue[g] = sq.queue[g] /\ sq'.carry[g] = Append(sq.carry[g], c)
  <2>1. PICK n : n = Len(sq.carry[g])
    OBVIOUS
  <2>2. /\ n \in Nat /\ Len(sq'.carry[g]) = n + 1 /\ sq'.carry[g][n + 1] = c
        /\ \A i \in 1 .. n : sq'.carry[g][i] = sq.carry[g][i]
    <3>1. sq.carry[g] \in Seq(Command)
      BY SeatTypes
    <3> QED  BY <3>1, <2>1, <1>6, <1>11, AppendProperties, LenProperties
  <2>3. b + 1 = a + Len(sq'.carry[g]) /\ a <= b + 1
    BY <2>1, <2>2, <1>2
  <2>4. ASSUME NEW i \in 1 .. Len(sq'.carry[g]) PROVE sq'.carry[g][i] = a + i
    <3>1. CASE i \in 1 .. n
      BY <3>1, <2>1, <2>2, <1>2
    <3>2. CASE i = n + 1
      <4>1. a + (n + 1) = b + 1
        BY <2>1, <2>2, <1>2
      <4> QED  BY <4>1, <3>2, <2>2, <1>5
    <3>3. i \in 1 .. n \/ i = n + 1
      BY <2>2
    <3> QED  BY <3>1, <3>2, <3>3
  <2>5. Part(sq'.queue[g], e[Len(log')], a)
    BY <1>1, <1>2, <1>11
  <2>6. Ledger(g, e, a, b + 1, z)'
    BY <2>3, <2>4, <2>5, <1>1, <1>2, <1>3, <1>5, <1>7 DEF Ledger
  <2> QED  BY <2>6, <1>7
<1> QED  BY <1>4, <1>10, <1>11 DEF SeatOrders

LEMMA LedgerRests ==
  ASSUME IInv, NEW g \in Guests, SeatSame(g), NEW e, NEW a \in Nat, NEW b \in Nat, NEW z \in Nat,
         Ledger(g, e, a, b, z), NEW x \in Nat, b <= x, x <= clicked[g],
         Coming(toHost'[g], b, x), present[g] /\ wire'[g] => x = clicked[g]
  PROVE  \E f : \E i, j, k \in Nat : Ledger(g, f, i, j, k)'
<1>1. /\ log' = log /\ present'[g] = present[g] /\ clicked'[g] = clicked[g]
      /\ sq'.queue[g] = sq.queue[g] /\ sq'.carry[g] = sq.carry[g]
  BY DEF SeatSame
<1>2. InHistory(g, e)'
  BY <1>1 DEF Ledger, InHistory
<1>3. Ledger(g, e, a, b, x)'
  BY <1>1, <1>2 DEF Ledger
<1> QED  BY <1>3

\* The link of a guest that broke no rule: a message is read that is no order, something is
\* said, the next order is given, or the link breaks.
LEMMA LedgerOfLink ==
  ASSUME IInv, NEW g \in Guests, DropOf(g), StartOf(g), violations'[g] = 0,
         SeatRests(g) \/ SeatIsHeard(g) \/ SeatTalks(g) \/ SeatIsCutOff(g),
         NEW e, NEW a \in Nat, NEW b \in Nat, NEW z \in Nat, Ledger(g, e, a, b, z)
  PROVE  \E f : \E i, j, k \in Nat : Ledger(g, f, i, j, k)'
<1>1. /\ b <= z /\ z <= clicked[g] /\ Coming(toHost[g], b, z)
      /\ (present[g] /\ wire[g] => z = clicked[g])
  BY DEF Ledger
<1>2. toHost[g] \in Seq(ToHostMsg) /\ clicked[g] \in Nat
  BY Players, SeatTypes
<1>3. SeatSame(g)
  BY DEF SeatRests, SeatIsHeard, SeatTalks, SeatIsCutOff
<1>4. CASE SeatRests(g)
  <2>1. toHost'[g] = toHost[g] /\ (wire'[g] => wire[g])
    BY <1>4 DEF SeatRests
  <2>2. Coming(toHost'[g], b, z) /\ (present[g] /\ wire'[g] => z = clicked[g])
    BY <2>1, <1>1
  <2> QED  BY <2>2, <1>1, <1>3, LedgerRests
<1>5. CASE SeatIsHeard(g)
  <2>1. toHost[g] # <<>> /\ toHost'[g] = Tail(toHost[g]) /\ wire'[g] = wire[g]
    BY <1>5 DEF SeatIsHeard
  <2>2. ~IsOrder(toHost[g][1])
    <3>1. 1 \in 1 .. Len(toHost[g])
      BY <1>2, <2>1, TailOfLink
    <3> QED  BY <3>1, <1>5 DEF SeatIsHeard, StartOf, IsOrder
  <2>3. Coming(Tail(toHost[g]), b, z)
    BY <1>1, <1>2, <2>1, <2>2, ComingOthers
  <2>4. Coming(toHost'[g], b, z) /\ (present[g] /\ wire'[g] => z = clicked[g])
    BY <2>1, <2>3, <1>1
  <2> QED  BY <2>4, <1>1, <1>3, LedgerRests
<1>6. CASE SeatTalks(g)
  <2>1. PICK msgs \in Seq(ToHostMsg) : /\ toHost'[g] = toHost[g] \o msgs
                                       /\ \A i \in 1 .. Len(msgs) : msgs[i].type # "Command"
    BY <1>6 DEF SeatTalks
  <2>2. \A i \in 1 .. Len(msgs) : ~IsOrder(msgs[i])
    BY <2>1 DEF IsOrder
  <2>3. Coming(toHost[g] \o msgs, b, z)
    BY <1>1, <1>2, <2>2, ComingMore
  <2>4. Coming(toHost'[g], b, z) /\ (present[g] /\ wire'[g] => z = clicked[g])
    BY <2>1, <2>3, <1>1, <1>6 DEF SeatTalks
  <2> QED  BY <2>4, <1>1, <1>3, LedgerRests
<1>7. CASE SeatIsCutOff(g)
  <2>1. ~wire'[g]
    BY <1>7 DEF SeatIsCutOff
  <2>2. PICK k \in 0 .. Len(toHost[g]) : toHost'[g] = SubSeq(toHost[g], 1, k)
    BY <1>7 DEF SeatIsCutOff
  <2>3. PICK cut : cut = SubSeq(toHost[g], 1, k)
    OBVIOUS
  <2>4. cut \in Seq(ToHostMsg) /\ Len(cut) = k
    BY <2>3, CutOf
  <2>5. \A i \in 1 .. k : i \in 1 .. Len(toHost[g]) /\ cut[i] = toHost[g][i]
    BY <2>3, CutOf
  <2>6. PICK x \in Nat : b <= x /\ x <= z /\ Coming(cut, b, x)
    BY <1>1, <1>2, <2>4, <2>5, ComingCut
  <2>7. x <= clicked[g]
    BY <2>6, <1>1, <1>2
  <2>8. Coming(toHost'[g], b, x) /\ (present[g] /\ wire'[g] => x = clicked[g])
    BY <2>1, <2>2, <2>3, <2>6
  <2> QED  BY <2>6, <2>7, <2>8, <1>3, LedgerRests
<1> QED  BY <1>4, <1>5, <1>6, <1>7

LEMMA LedgerClicks ==
  ASSUME IInv, NEW g \in Guests, DropOf(g), SeatClicks(g),
         NEW e, NEW a \in Nat, NEW b \in Nat, NEW z \in Nat, Ledger(g, e, a, b, z)
  PROVE  \E f : \E i, j, k \in Nat : Ledger(g, f, i, j, k)'
<1>1. /\ log' = log /\ present'[g] = present[g] /\ sq' = sq /\ wire[g]
      /\ clicked'[g] = clicked[g] + 1 /\ clicked'[g] \in Command
      /\ toHost'[g] = toHost[g] \o <<CommandMsg(clicked'[g])>>
  BY DEF SeatClicks
<1>2. present[g]
  BY <1>1 DEF DropOf
<1>3. /\ b <= z /\ z = clicked[g] /\ Coming(toHost[g], b, z) /\ toHost[g] \in Seq(ToHostMsg)
  BY <1>1, <1>2, SeatTypes DEF Ledger
<1>4. PICK m : m = CommandMsg(clicked'[g])
  OBVIOUS
<1>5. m \in ToHostMsg /\ IsOrder(m) /\ m.command = z + 1
  BY <1>1, <1>3, <1>4 DEF CommandMsg, ToHostMsg, IsOrder
<1>6. Coming(toHost[g] \o <<m>>, b, z + 1)
  BY <1>3, <1>5, ComingLast
<1>7. Coming(toHost'[g], b, z + 1) /\ b <= z + 1 /\ z + 1 <= clicked'[g] /\ z + 1 \in Nat
  BY <1>1, <1>3, <1>4, <1>6
<1>8. InHistory(g, e)'
  BY <1>1 DEF Ledger, InHistory
<1>9. Ledger(g, e, a, b, z + 1)'
  BY <1>1, <1>3, <1>7, <1>8 DEF Ledger
<1> QED  BY <1>7, <1>9

LEMMA CarryStep ==
  ASSUME IInv, NEW g \in Guests, CarryOf(g), SeatStep(g)
  PROVE  CarryOf(g)'
<1>0. g \in Seats /\ SequencerType(sq) /\ sq.carry[g] \in Seq(Command)
  BY Numbers, SeatTypes
<1>1. CASE sq'.carry[g] = sq.carry[g] /\ sq'.queuedBy[g] = sq.queuedBy[g]
  BY <1>1 DEF CarryOf, HasRoom
<1>2. CASE sq'.carry[g] = <<>>
  <2>1. Len(sq'.carry[g]) = 0
    BY <1>2, EmptySeq
  <2> QED  BY <2>1 DEF CarryOf
<1>3. CASE SeatOrders(g)
  <2>1. CASE HasRoom(sq, g) /\ sq'.carry[g] = sq.carry[g]
    <3>1. ~(Len(sq'.carry[g]) > 0)
      BY <2>1 DEF CarryOf
    <3> QED  BY <3>1 DEF CarryOf
  <2>2. CASE ~HasRoom(sq, g) /\ sq'.queuedBy[g] = sq.queuedBy[g]
    <3>1. ~HasRoom(sq, g)'
      BY <2>2 DEF HasRoom
    <3> QED  BY <3>1 DEF CarryOf
  <2> QED  BY <2>1, <2>2, <1>3 DEF SeatOrders
<1>4. CASE SeatPlays(g)
  <2>1. PICK n, c : n = Share(sq, g) /\ c = SubSeq(sq.carry[g], Share(sq, g) + 1, Len(sq.carry[g]))
    OBVIOUS
  <2>2. /\ n \in Nat /\ n <= Len(sq.carry[g]) /\ Len(sq.carry[g]) \in Nat
        /\ (n < Len(sq.carry[g]) => n = MaxPerTurn) /\ Len(c) = Len(sq.carry[g]) - n
    BY <1>0, <2>1, SharedOut
  <2>3. sq'.carry[g] = c /\ sq'.queuedBy[g] = n
    BY <1>4, <2>1 DEF SeatPlays, SeatTurns
  <2>4. Len(c) > 0 => n = MaxPerTurn
    BY <2>2
  <2>5. ASSUME Len(sq'.carry[g]) > 0 PROVE ~HasRoom(sq, g)'
    <3>1. sq'.queuedBy[g] = MaxPerTurn /\ MaxPerTurn \in Nat
      BY <2>3, <2>4, <2>5, SequencerAssumption
    <3> QED  BY <3>1 DEF HasRoom
  <2> QED  BY <2>5 DEF CarryOf
<1>5. CASE SeatRests(g) \/ SeatIsHeard(g) \/ SeatTalks(g) \/ SeatIsCutOff(g) \/ SeatClicks(g)
  <2>1. sq'.carry[g] = sq.carry[g] /\ sq'.queuedBy[g] = sq.queuedBy[g]
    BY <1>5 DEF SeatRests, SeatIsHeard, SeatTalks, SeatIsCutOff, SeatClicks, SeatSame
  <2> QED  BY <2>1, <1>1
<1>6. CASE SeatIsDropped(g) \/ SeatEnds(g)
  <2>1. sq'.carry[g] = <<>>
    BY <1>6 DEF SeatIsDropped, SeatEnds, SeatGoes
  <2> QED  BY <2>1, <1>2
<1> QED  BY <1>3, <1>4, <1>5, <1>6 DEF SeatStep

LEMMA StartStep ==
  ASSUME IInv, NEW g \in Guests, StartOf(g), SeatStep(g)
  PROVE  StartOf(g)'
<1>0. toHost[g] \in Seq(ToHostMsg) /\ Len(log) \in Nat
  BY SeatTypes
<1>1. ASSUME SeatTurns(g) PROVE StartOf(g)'
  <2>1. Len(log') = Len(log) + 1
    BY <1>1, TurnIsLast
  <2>2. Len(log') # 0
    BY <2>1, <1>0
  <2> QED  BY <2>2 DEF StartOf
<1>2. CASE SeatPlays(g) \/ SeatEnds(g)
  BY <1>1, <1>2 DEF SeatPlays, SeatEnds
<1>3. CASE SeatClicks(g)
  <2>1. StartDelay => ~(Len(log') = 0)
    BY <1>0, <1>3 DEF SeatClicks
  <2> QED  BY <2>1 DEF StartOf
<1>4. CASE SeatIsDropped(g)
  <2>1. toHost'[g] = <<>>
    BY <1>4 DEF SeatIsDropped, SeatGoes
  <2>2. \A i \in 1 .. Len(toHost'[g]) : FALSE
    BY <2>1, EmptySeq
  <2> QED  BY <2>2 DEF StartOf
<1>5. CASE SeatRests(g)
  BY <1>5 DEF SeatRests, SeatSame, StartOf
<1>6. CASE SeatIsHeard(g) \/ SeatOrders(g)
  <2>1. log' = log /\ toHost[g] # <<>> /\ toHost'[g] = Tail(toHost[g])
    BY <1>6 DEF SeatIsHeard, SeatOrders, SeatSame
  <2>2. \A i \in 1 .. Len(Tail(toHost[g])) : i + 1 \in 1 .. Len(toHost[g]) /\ Tail(toHost[g])[i] = toHost[g][i + 1]
    BY <1>0, <2>1, TailOfLink
  <2> QED  BY <2>1, <2>2 DEF StartOf
<1>7. CASE SeatTalks(g)
  <2>1. PICK msgs \in Seq(ToHostMsg) : /\ toHost'[g] = toHost[g] \o msgs
                                       /\ \A i \in 1 .. Len(msgs) : msgs[i].type # "Command"
    BY <1>7 DEF SeatTalks
  <2>2. PICK t, n, k : t = toHost[g] \o msgs /\ n = Len(toHost[g]) /\ k = Len(msgs)
    OBVIOUS
  <2>3. n \in Nat /\ k \in Nat
    BY <1>0, <2>2, LenProperties
  <2>4. Len(t) = n + k /\ \A i \in 1 .. n + k : t[i] = IF i <= n THEN toHost[g][i] ELSE msgs[i - n]
    BY <1>0, <2>2, ConcatProperties
  <2>5. ASSUME StartDelay /\ Len(log) = 0, NEW i \in 1 .. Len(t) PROVE ~IsOrder(t[i])
    <3>1. CASE i <= n
      <4>1. i \in 1 .. Len(toHost[g]) /\ t[i] = toHost[g][i]
        BY <3>1, <2>2, <2>3, <2>4
      <4> QED  BY <4>1, <2>5 DEF StartOf
    <3>2. CASE ~(i <= n)
      <4>1. i - n \in 1 .. k /\ t[i] = msgs[i - n]
        BY <3>2, <2>3, <2>4
      <4> QED  BY <4>1, <2>1, <2>2 DEF IsOrder
    <3> QED  BY <3>1, <3>2
  <2>6. log' = log
    BY <1>7 DEF SeatTalks, SeatSame
  <2> QED  BY <2>1, <2>2, <2>5, <2>6 DEF StartOf
<1>8. CASE SeatIsCutOff(g)
  <2>1. PICK k \in 0 .. Len(toHost[g]) : toHost'[g] = SubSeq(toHost[g], 1, k)
    BY <1>8 DEF SeatIsCutOff
  <2>2. PICK cut : cut = SubSeq(toHost[g], 1, k)
    OBVIOUS
  <2>3. Len(cut) = k
    BY <2>2, CutOf
  <2>4. \A i \in 1 .. k : i \in 1 .. Len(toHost[g]) /\ cut[i] = toHost[g][i]
    BY <2>2, CutOf
  <2>5. log' = log
    BY <1>8 DEF SeatIsCutOff, SeatSame
  <2> QED  BY <2>1, <2>2, <2>3, <2>4, <2>5 DEF StartOf
<1> QED  BY <1>2, <1>3, <1>4, <1>5, <1>6, <1>7, <1>8 DEF SeatStep

\* Every step keeps the books of the orders.
LEMMA OrdersStep ==
  ASSUME IInv, NEW g \in Guests, OrdersOf(g), SeatStep(g)
  PROVE  OrdersOf(g)'
<1>0. DropOf(g) /\ CarryOf(g) /\ StartOf(g)
  BY DEF OrdersOf
<1>1. DropOf(g)' /\ CarryOf(g)' /\ StartOf(g)'
  BY <1>0, DropStep, CarryStep, StartStep
<1>2. ASSUME violations'[g] = 0
      PROVE  \E f : \E i, j, k \in Nat : Ledger(g, f, i, j, k)'
  <2>1. violations[g] = 0
    BY <1>2 DEF SeatStep
  <2>2. PICK e : \E a, b, z \in Nat : Ledger(g, e, a, b, z)
    BY <2>1 DEF OrdersOf
  <2>3. PICK a \in Nat, b \in Nat, z \in Nat : Ledger(g, e, a, b, z)
    BY <2>2
  <2>4. CASE SeatRests(g) \/ SeatIsHeard(g) \/ SeatTalks(g) \/ SeatIsCutOff(g)
    BY <2>4, <2>3, <1>0, <1>2, LedgerOfLink
  <2>5. CASE SeatOrders(g)
    BY <2>5, <2>3, <1>0, LedgerOrders
  <2>6. CASE SeatIsDropped(g)
    BY <2>6, <2>3, <1>0, LedgerIsDropped
  <2>7. CASE SeatClicks(g)
    BY <2>7, <2>3, <1>0, LedgerClicks
  <2>8. CASE SeatPlays(g)
    BY <2>8, <2>3, LedgerPlays
  <2>9. CASE SeatEnds(g)
    BY <2>9, <2>3, LedgerEnds
  <2> QED  BY <2>4, <2>5, <2>6, <2>7, <2>8, <2>9 DEF SeatStep
<1> QED  BY <1>1, <1>2 DEF OrdersOf

LEMMA InitOrders == ASSUME Init, NEW g \in Guests PROVE OrdersOf(g)
<1>1. /\ log = <<>> /\ sq.queue = NoCommands /\ sq.carry = NoCommands /\ g \in Seats
      /\ toHost[g] = <<>> /\ clicked[g] = 0
  BY Players DEF Init, NewSequencer
<1>2. sq.queue[g] = <<>> /\ sq.carry[g] = <<>>
  BY <1>1 DEF NoCommands
<1>3. Len(<<>>) = 0
  BY EmptySeq
<1>4. DropOf(g)
  BY InitDrop
<1>5. CarryOf(g) /\ StartOf(g)
  BY <1>1, <1>2, <1>3 DEF CarryOf, StartOf
<1>6. PICK e : e = [k \in 0 .. 0 |-> 0]
  OBVIOUS
<1>7. e \in [0 .. 0 -> Nat] /\ e[0] = 0 /\ \A j, k \in 0 .. 0 : e[j] <= e[k]
  BY <1>6
<1>8. InHistory(g, e)
  BY <1>1, <1>3, <1>7 DEF InHistory
<1>9. Part(<<>>, 0, 0) /\ Coming(<<>>, 0, 0)
  BY <1>3, NothingComing DEF Part
<1>10. Ledger(g, e, 0, 0, 0)
  BY <1>1, <1>2, <1>3, <1>7, <1>8, <1>9 DEF Ledger
<1> QED  BY <1>4, <1>5, <1>10 DEF OrdersOf

\* The books of the orders, row by row of what there is of a seat (Said)
Books(g, e, a, b, z) ==
  [k \in 0 .. Len(log) + 3 |-> IF k <= Len(log) THEN e[k] ELSE <<a, b, z>>[k - Len(log)]]

Continues(f, e, a, b, z) ==
  /\ \A k \in 0 .. Len(log) : f[k] = e[k] /\ f[k] \in Nat
  /\ f[Len(log) + 1] = a /\ f[Len(log) + 2] = b /\ f[Len(log) + 3] = z
  /\ \A k \in 0 .. Len(log) + 3 : f[k] \in Nat
  /\ f[0] = 0
  /\ \A j, k \in 0 .. Len(log) + 3 : j <= k => f[j] <= f[k]

LEMMA BooksAre ==
  ASSUME IInv, NEW g \in Guests, NEW e, NEW a \in Nat, NEW b \in Nat, NEW z \in Nat,
         Ledger(g, e, a, b, z)
  PROVE  Continues(Books(g, e, a, b, z), e, a, b, z)
<1>0. PICK f : f = Books(g, e, a, b, z)
  OBVIOUS
<1>1. PICK n : n = Len(log)
  OBVIOUS
<1>2. n \in Nat
  BY <1>1, SeatTypes
<1>3. e \in [0 .. n -> Nat] /\ e[0] = 0 /\ \A j, k \in 0 .. n : j <= k => e[j] <= e[k]
  BY <1>1 DEF Ledger, InHistory
<1>4. e[n] <= a /\ a <= b /\ b <= z
  BY <1>1 DEF Ledger, Part
<1>5. \A k \in 0 .. n : f[k] = e[k] /\ f[k] \in Nat
  <2>1. \A k \in 0 .. n : k \in 0 .. n + 3 /\ k <= n
    BY <1>2
  <2> QED  BY <2>1, <1>0, <1>1, <1>3 DEF Books
<1>6. ASSUME NEW j \in {1, 2, 3} PROVE f[n + j] = <<a, b, z>>[j]
  <2>1. n + j \in 0 .. n + 3 /\ ~(n + j <= n) /\ (n + j) - n = j
    BY <1>2
  <2> QED  BY <2>1, <1>0, <1>1 DEF Books
<1>7. f[n + 1] = a
  BY <1>6
<1>8. f[n + 2] = b
  BY <1>6
<1>9. f[n + 3] = z
  BY <1>6
<1>10. \A k \in 0 .. n + 3 : k \in 0 .. n \/ k = n + 1 \/ k = n + 2 \/ k = n + 3
  BY <1>2
<1>11. \A k \in 0 .. n + 3 : f[k] \in Nat
  BY <1>5, <1>7, <1>8, <1>9, <1>10
<1>12. f[0] = 0
  <2>1. 0 \in 0 .. n
    BY <1>2
  <2> QED  BY <2>1, <1>3, <1>5
<1>13. \A k \in 0 .. n : f[k] <= a /\ f[k] <= b /\ f[k] <= z
  <2> SUFFICES ASSUME NEW k \in 0 .. n PROVE f[k] <= a /\ f[k] <= b /\ f[k] <= z
    OBVIOUS
  <2>1. n \in 0 .. n /\ k <= n
    BY <1>2
  <2>2. f[k] <= e[n] /\ f[k] \in Nat /\ e[n] \in Nat
    BY <2>1, <1>3, <1>5
  <2> QED  BY <2>2, <1>4
<1>14. ASSUME NEW j \in 0 .. n + 3, NEW k \in 0 .. n + 3, j <= k PROVE f[j] <= f[k]
  <2>1. CASE k \in 0 .. n
    <3>1. j \in 0 .. n
      BY <2>1, <1>14, <1>2
    <3> QED  BY <2>1, <3>1, <1>3, <1>5, <1>14
  <2>2. CASE j \in 0 .. n /\ k \notin 0 .. n
    BY <2>2, <1>7, <1>8, <1>9, <1>10, <1>13
  <2>3. CASE j \notin 0 .. n /\ k \notin 0 .. n
    <3>1. a <= b /\ a <= z /\ b <= z /\ a <= a /\ b <= b /\ z <= z
      BY <1>4
    <3>2. /\ j = n + 2 => k # n + 1
          /\ j = n + 3 => k # n + 1 /\ k # n + 2
      BY <1>2, <1>14
    <3> QED  BY <2>3, <3>1, <3>2, <1>7, <1>8, <1>9, <1>10
  <2> QED  BY <2>1, <2>2, <2>3
<1>15. Continues(f, e, a, b, z)
  BY <1>1, <1>5, <1>7, <1>8, <1>9, <1>11, <1>12, <1>14 DEF Continues
<1> QED  BY <1>0, <1>15

\* What is in a place of a row, if it is no Drop, is one of the orders of that row; two of
\* one row stand in their order; and every order of a row has a place in it.
LEMMA OrderOfPlace ==
  ASSUME IInv, NEW g \in Guests, NEW e, NEW a \in Nat, NEW b \in Nat, NEW z \in Nat,
         Ledger(g, e, a, b, z), NEW f, Continues(f, e, a, b, z),
         NEW x \in Places(g), At(g, x) # Drop
  PROVE  /\ x[1] \in 1 .. Len(log) + 3
         /\ At(g, x) \in Nat /\ f[x[1] - 1] < At(g, x) /\ At(g, x) <= f[x[1]]
<1>1. PICK n : n = Len(log)
  OBVIOUS
<1>2. n \in Nat
  BY <1>1, SeatTypes
<1>3. PICK k \in 1 .. n + 3, i \in Nat :
           /\ x = <<k, i>> /\ x[1] = k /\ x[2] = i
           /\ \/ k \in 1 .. n /\ i \in 1 .. Len(log[k][g]) /\ At(g, x) = log[k][g][i]
              \/ k = n + 1 /\ i \in 1 .. Len(sq.queue[g]) /\ At(g, x) = sq.queue[g][i]
              \/ k = n + 2 /\ i \in 1 .. Len(sq.carry[g]) /\ At(g, x) = sq.carry[g][i]
              \/ /\ k = n + 3 /\ i \in 1 .. Len(toHost[g])
                 /\ toHost[g][i].type = "Command" /\ At(g, x) = toHost[g][i].command
  BY <1>1, InPlace
<1>4. PICK v : v = At(g, x)
  OBVIOUS
<1>5. /\ \A j \in 0 .. n : f[j] = e[j] /\ f[j] \in Nat
      /\ f[n + 1] = a /\ f[n + 2] = b /\ f[n + 3] = z
  <2>1. \A j \in 0 .. Len(log) : f[j] = e[j] /\ f[j] \in Nat
    BY DEF Continues
  <2>2. f[Len(log) + 1] = a /\ f[Len(log) + 2] = b /\ f[Len(log) + 3] = z
    BY DEF Continues
  <2> QED  BY <2>1, <2>2, <1>1
<1>6. ASSUME NEW q, NEW lo \in Nat, NEW hi \in Nat, Part(q, lo, hi), i \in 1 .. Len(q), v = q[i]
      PROVE  v \in Nat /\ lo < v /\ v <= hi
  <2>1. lo + i <= hi
    <3>1. ~(lo + i > hi)
      BY <1>4, <1>6 DEF Part
    <3> QED  BY <3>1, <1>3
  <2>2. v = lo + i
    BY <2>1, <1>6 DEF Part
  <2>3. i > 0
    BY <1>6
  <2> QED  BY <2>1, <2>2, <2>3, <1>3
<1>7. CASE k \in 1 .. n /\ i \in 1 .. Len(log[k][g]) /\ v = log[k][g][i]
  <2>1. k - 1 \in 0 .. n /\ k \in 0 .. n
    BY <1>2, <1>7
  <2>2. Part(log[k][g], e[k - 1], e[k])
    BY <1>1, <1>7 DEF Ledger, InHistory
  <2>3. Part(log[k][g], f[k - 1], f[k]) /\ f[k - 1] \in Nat /\ f[k] \in Nat
    BY <2>1, <2>2, <1>5
  <2>4. v \in Nat /\ f[k - 1] < v /\ v <= f[k]
    BY <2>3, <1>6, <1>7
  <2> QED  BY <2>4, <1>1, <1>3, <1>4
<1>8. CASE k = n + 1 /\ i \in 1 .. Len(sq.queue[g]) /\ v = sq.queue[g][i]
  <2>1. k - 1 = n /\ n \in 0 .. n
    BY <1>2, <1>8
  <2>2. Part(sq.queue[g], e[n], a)
    BY <1>1 DEF Ledger
  <2>3. Part(sq.queue[g], f[k - 1], f[k]) /\ f[k - 1] \in Nat /\ f[k] \in Nat
    BY <2>1, <2>2, <1>5, <1>8
  <2>4. v \in Nat /\ f[k - 1] < v /\ v <= f[k]
    BY <2>3, <1>6, <1>8
  <2> QED  BY <2>4, <1>1, <1>3, <1>4
<1>9. CASE k = n + 2 /\ i \in 1 .. Len(sq.carry[g]) /\ v = sq.carry[g][i]
  <2>1. k - 1 = n + 1
    BY <1>2, <1>9
  <2>2. v = a + i /\ b = a + Len(sq.carry[g])
    BY <1>9 DEF Ledger
  <2>3. Len(sq.carry[g]) \in Nat /\ i > 0 /\ i <= Len(sq.carry[g])
    BY <1>9, SeatTypes
  <2>4. v \in Nat /\ a < v /\ v <= b
    BY <2>2, <2>3, <1>3
  <2> QED  BY <2>1, <2>4, <1>1, <1>3, <1>4, <1>5, <1>9
<1>10. CASE /\ k = n + 3 /\ i \in 1 .. Len(toHost[g])
            /\ toHost[g][i].type = "Command" /\ v = toHost[g][i].command
  <2>1. k - 1 = n + 2
    BY <1>2, <1>10
  <2>2. Coming(toHost[g], b, z) /\ IsOrder(toHost[g][i]) /\ toHost[g] \in Seq(ToHostMsg)
    BY <1>10, SeatTypes DEF Ledger, IsOrder
  <2>3. b < v /\ v <= z
    BY <2>2, <1>10 DEF Coming
  <2>4. v \in Nat
    BY <2>2, <1>10, OrderIsNumber
  <2> QED  BY <2>1, <2>3, <2>4, <1>1, <1>3, <1>4, <1>5, <1>10
<1> QED  BY <1>3, <1>4, <1>7, <1>8, <1>9, <1>10

\* The row of an order: the first that ends with it or after it
LEMMA RowOfOrder ==
  ASSUME IInv, NEW f, NEW e, NEW a, NEW b, NEW z \in Nat, Continues(f, e, a, b, z),
         NEW d \in 1 .. z
  PROVE  \E k \in 1 .. Len(log) + 3 : f[k - 1] < d /\ d <= f[k]
<1>1. PICK n : n = Len(log)
  OBVIOUS
<1>2. n \in Nat
  BY <1>1, LenProperties DEF IInv, TurnsOK
<1>3. /\ f[n + 3] = z /\ f[0] = 0 /\ \A k \in 0 .. n + 3 : f[k] \in Nat
  BY <1>1 DEF Continues
<1>4. PICK T : T = {k \in 0 .. n + 3 : d <= f[k]}
  OBVIOUS
<1>5. n + 3 \in T /\ T \in SUBSET Nat
  BY <1>2, <1>3, <1>4
<1>6. PICK k \in T : \A j \in T : k <= j
  BY <1>5, LeastNumber
<1>7. k \in 0 .. n + 3 /\ d <= f[k]
  BY <1>4, <1>6
<1>8. k # 0
  BY <1>3, <1>7
<1>9. k - 1 \in 0 .. n + 3 /\ k \in 1 .. n + 3 /\ ~(k <= k - 1)
  BY <1>2, <1>7, <1>8
<1>10. k - 1 \notin T
  BY <1>6, <1>9
<1>11. f[k - 1] < d
  BY <1>3, <1>4, <1>9, <1>10
<1> QED  BY <1>1, <1>7, <1>9, <1>11

\* ... and a place in it
LEMMA PlaceOfOrder ==
  ASSUME IInv, NEW g \in Guests, NEW e, NEW a \in Nat, NEW b \in Nat, NEW z \in Nat,
         Ledger(g, e, a, b, z), NEW f, Continues(f, e, a, b, z), NEW d \in 1 .. z
  PROVE  \E x \in Places(g) : At(g, x) = d
<1>1. PICK n : n = Len(log)
  OBVIOUS
<1>2. n \in Nat
  BY <1>1, SeatTypes
<1>3. PICK k \in 1 .. n + 3 : f[k - 1] < d /\ d <= f[k]
  BY <1>1, RowOfOrder
<1>4. \A j \in 0 .. n : f[j] = e[j] /\ f[j] \in Nat
  BY <1>1 DEF Continues
<1>5. f[n + 1] = a /\ f[n + 2] = b /\ f[n + 3] = z
  BY <1>1 DEF Continues
<1>6. ASSUME NEW q, NEW lo \in Nat, NEW hi \in Nat, Part(q, lo, hi), Len(q) \in Nat, lo < d, d <= hi
      PROVE  d - lo \in 1 .. Len(q) /\ q[d - lo] = d
  <2>1. hi <= lo + Len(q)
    BY <1>6 DEF Part
  <2>2. d - lo \in 1 .. Len(q) /\ lo + (d - lo) = d
    BY <2>1, <1>6
  <2>3. lo + (d - lo) <= hi
    BY <2>2, <1>6
  <2> QED  BY <2>2, <2>3, <1>6 DEF Part
<1>7. CASE k \in 1 .. n
  <2>1. k - 1 \in 0 .. n /\ k \in 0 .. n
    BY <1>2, <1>7
  <2>2. Part(log[k][g], e[k - 1], e[k]) /\ Len(log[k][g]) \in Nat
    BY <1>1, <1>7, SeatTypes DEF Ledger, InHistory
  <2>3. Part(log[k][g], f[k - 1], f[k]) /\ f[k - 1] \in Nat /\ f[k] \in Nat
    BY <2>1, <2>2, <1>4
  <2>4. PICK i : i = d - f[k - 1]
    OBVIOUS
  <2>5. i \in 1 .. Len(log[k][g]) /\ log[k][g][i] = d
    BY <2>2, <2>3, <2>4, <1>3, <1>6
  <2>6. <<k, i>> \in Places(g) /\ At(g, <<k, i>>) = Said(g)[k][i]
    BY <2>5, <1>1, <1>7, APlace
  <2>7. Said(g)[k] = log[k][g]
    BY <1>1, <1>7, SaidRows
  <2> QED  BY <2>5, <2>6, <2>7
<1>8. CASE k = n + 1
  <2>1. k - 1 = n /\ n \in 0 .. n
    BY <1>2, <1>8
  <2>2. Part(sq.queue[g], e[n], a) /\ Len(sq.queue[g]) \in Nat
    BY <1>1, SeatTypes DEF Ledger
  <2>3. Part(sq.queue[g], f[k - 1], f[k]) /\ f[k - 1] \in Nat /\ f[k] \in Nat
    BY <2>1, <2>2, <1>4, <1>5, <1>8
  <2>4. PICK i : i = d - f[k - 1]
    OBVIOUS
  <2>5. i \in 1 .. Len(sq.queue[g]) /\ sq.queue[g][i] = d
    BY <2>2, <2>3, <2>4, <1>3, <1>6
  <2>6. <<k, i>> \in Places(g) /\ At(g, <<k, i>>) = Said(g)[k][i]
    BY <2>5, <1>1, <1>8, APlace
  <2>7. Said(g)[k] = sq.queue[g]
    BY <1>1, <1>8, SaidRows
  <2> QED  BY <2>5, <2>6, <2>7
<1>9. CASE k = n + 2
  <2>1. k - 1 = n + 1
    BY <1>2, <1>9
  <2>2. /\ b = a + Len(sq.carry[g]) /\ \A j \in 1 .. Len(sq.carry[g]) : sq.carry[g][j] = a + j
        /\ Len(sq.carry[g]) \in Nat
    BY SeatTypes DEF Ledger
  <2>3. a < d /\ d <= b
    BY <2>1, <1>3, <1>5, <1>9
  <2>4. PICK i : i = d - a
    OBVIOUS
  <2>5. i \in 1 .. Len(sq.carry[g]) /\ a + i = d
    BY <2>2, <2>3, <2>4
  <2>6. <<k, i>> \in Places(g) /\ At(g, <<k, i>>) = Said(g)[k][i]
    BY <2>5, <1>1, <1>9, APlace
  <2>7. Said(g)[k] = sq.carry[g]
    BY <1>1, <1>9, SaidRows
  <2> QED  BY <2>2, <2>5, <2>6, <2>7
<1>10. CASE k = n + 3
  <2>1. k - 1 = n + 2
    BY <1>2, <1>10
  <2>2. b < d /\ d <= z
    BY <2>1, <1>3, <1>5, <1>10
  <2>3. d \in b + 1 .. z
    BY <2>2
  <2>4. PICK i \in 1 .. Len(toHost[g]) : IsOrder(toHost[g][i]) /\ toHost[g][i].command = d
    BY <2>3 DEF Ledger, Coming
  <2>5. toHost[g][i].type = "Command"
    BY <2>4 DEF IsOrder
  <2>6. <<k, i>> \in Places(g) /\ At(g, <<k, i>>) = Said(g)[k][i]
    BY <2>5, <1>1, <1>10, APlace
  <2>7. Said(g)[k] = OnTheWay(g) /\ DOMAIN toHost[g] = 1 .. Len(toHost[g])
    BY <1>1, <1>10, SaidRows, SeatTypes, LenProperties
  <2>8. OnTheWay(g)[i] = d
    BY <2>4, <2>5, <2>7 DEF OnTheWay
  <2> QED  BY <2>6, <2>7, <2>8
<1>11. k \in 1 .. n \/ k = n + 1 \/ k = n + 2 \/ k = n + 3
  BY <1>2
<1> QED  BY <1>7, <1>8, <1>9, <1>10, <1>11

\* Two orders of one row stand in their order.
LEMMA InTheirOrder ==
  ASSUME IInv, NEW g \in Guests, NEW e, NEW a \in Nat, NEW b \in Nat, NEW z \in Nat,
         Ledger(g, e, a, b, z), NEW f, Continues(f, e, a, b, z),
         NEW x \in Places(g), At(g, x) # Drop, NEW y \in Places(g), At(g, y) # Drop,
         Before(x, y)
  PROVE  At(g, x) < At(g, y)
<1>1. PICK n : n = Len(log)
  OBVIOUS
<1>2. n \in Nat
  BY <1>1, SeatTypes
<1>3. PICK k \in 1 .. n + 3, i \in Nat :
           /\ x = <<k, i>> /\ x[1] = k /\ x[2] = i
           /\ \/ k \in 1 .. n /\ i \in 1 .. Len(log[k][g]) /\ At(g, x) = log[k][g][i]
              \/ k = n + 1 /\ i \in 1 .. Len(sq.queue[g]) /\ At(g, x) = sq.queue[g][i]
              \/ k = n + 2 /\ i \in 1 .. Len(sq.carry[g]) /\ At(g, x) = sq.carry[g][i]
              \/ /\ k = n + 3 /\ i \in 1 .. Len(toHost[g])
                 /\ toHost[g][i].type = "Command" /\ At(g, x) = toHost[g][i].command
  BY <1>1, InPlace, SMTT(40)
<1>4. PICK l \in 1 .. n + 3, j \in Nat :
           /\ y = <<l, j>> /\ y[1] = l /\ y[2] = j
           /\ \/ l \in 1 .. n /\ j \in 1 .. Len(log[l][g]) /\ At(g, y) = log[l][g][j]
              \/ l = n + 1 /\ j \in 1 .. Len(sq.queue[g]) /\ At(g, y) = sq.queue[g][j]
              \/ l = n + 2 /\ j \in 1 .. Len(sq.carry[g]) /\ At(g, y) = sq.carry[g][j]
              \/ /\ l = n + 3 /\ j \in 1 .. Len(toHost[g])
                 /\ toHost[g][j].type = "Command" /\ At(g, y) = toHost[g][j].command
  BY <1>1, InPlace
<1>5. PICK v, w : v = At(g, x) /\ w = At(g, y)
  OBVIOUS
<1>6. v \in Nat /\ v <= f[k]
  <2>1. At(g, x) \in Nat /\ At(g, x) <= f[x[1]]
    BY OrderOfPlace
  <2> QED  BY <2>1, <1>3, <1>5
<1>7. w \in Nat /\ f[l - 1] < w
  <2>1. At(g, y) \in Nat /\ f[y[1] - 1] < At(g, y)
    BY OrderOfPlace
  <2> QED  BY <2>1, <1>4, <1>5
<1>8. CASE k < l
  <2>1. k <= l - 1 /\ k \in 0 .. n + 3 /\ l - 1 \in 0 .. n + 3
    BY <1>2, <1>8
  <2>2. f[k] <= f[l - 1] /\ f[k] \in Nat /\ f[l - 1] \in Nat
    BY <2>1, <1>1 DEF Continues
  <2>3. v < w
    BY <2>2, <1>6, <1>7
  <2> QED  BY <2>3, <1>5
<1>9. CASE k = l /\ i < j
  <2>1. ASSUME NEW q, NEW lo \in Nat, NEW hi \in Nat, Part(q, lo, hi),
               i \in 1 .. Len(q), j \in 1 .. Len(q), v = q[i], w = q[j]
        PROVE  v < w
    <3>1. /\ lo + i <= hi => q[i] = lo + i
          /\ lo + i > hi => q[i] = Drop
          /\ lo + j <= hi => q[j] = lo + j
          /\ lo + j > hi => q[j] = Drop
      BY <2>1 DEF Part
    <3>2. ~(lo + i > hi) /\ ~(lo + j > hi)
      BY <3>1, <2>1, <1>5
    <3>3. q[i] = lo + i /\ q[j] = lo + j
      BY <3>1, <3>2
    <3>4. lo + i < lo + j
      BY <1>9
    <3> QED  BY <3>3, <3>4, <2>1
  <2>2. CASE k \in 1 .. n
    <3>1. Part(log[k][g], e[k - 1], e[k]) /\ e \in [0 .. n -> Nat]
      BY <2>2, <1>1 DEF Ledger, InHistory
    <3>2. k - 1 \in 0 .. n /\ k \in 0 .. n /\ k # n + 1 /\ k # n + 2 /\ k # n + 3
      BY <2>2, <1>2
    <3>3. e[k - 1] \in Nat /\ e[k] \in Nat
      BY <3>1, <3>2
    <3>4. /\ i \in 1 .. Len(log[k][g]) /\ v = log[k][g][i]
          /\ j \in 1 .. Len(log[k][g]) /\ w = log[k][g][j]
      BY <3>2, <1>3, <1>4, <1>5, <1>9
    <3>5. v < w
      BY <3>1, <3>3, <3>4, <2>1
    <3> QED  BY <3>5, <1>5
  <2>3. CASE k = n + 1
    <3>1. Part(sq.queue[g], e[n], a) /\ e \in [0 .. n -> Nat]
      BY <1>1 DEF Ledger, InHistory
    <3>2. n \in 0 .. n /\ k \notin 1 .. n /\ k # n + 2 /\ k # n + 3
      BY <2>3, <1>2
    <3>3. e[n] \in Nat
      BY <3>1, <3>2
    <3>4. /\ i \in 1 .. Len(sq.queue[g]) /\ v = sq.queue[g][i]
          /\ j \in 1 .. Len(sq.queue[g]) /\ w = sq.queue[g][j]
      BY <3>2, <1>3, <1>4, <1>5, <1>9
    <3>5. v < w
      BY <3>1, <3>3, <3>4, <2>1
    <3> QED  BY <3>5, <1>5
  <2>4. CASE k = n + 2
    <3>1. k \notin 1 .. n /\ k # n + 1 /\ k # n + 3
      BY <2>4, <1>2
    <3>2. /\ i \in 1 .. Len(sq.carry[g]) /\ v = sq.carry[g][i]
          /\ j \in 1 .. Len(sq.carry[g]) /\ w = sq.carry[g][j]
      BY <3>1, <1>3, <1>4, <1>5, <1>9
    <3>3. v = a + i /\ w = a + j
      BY <3>2 DEF Ledger
    <3>4. a + i < a + j
      BY <1>9
    <3> QED  BY <3>3, <3>4, <1>5
  <2>5. CASE k = n + 3
    <3>1. k \notin 1 .. n /\ k # n + 1 /\ k # n + 2
      BY <2>5, <1>2
    <3>2. /\ i \in 1 .. Len(toHost[g]) /\ IsOrder(toHost[g][i]) /\ v = toHost[g][i].command
          /\ j \in 1 .. Len(toHost[g]) /\ IsOrder(toHost[g][j]) /\ w = toHost[g][j].command
      BY <3>1, <1>3, <1>4, <1>5, <1>9 DEF IsOrder
    <3>3. Coming(toHost[g], b, z)
      BY DEF Ledger
    <3>4. v < w
      BY <3>2, <3>3, <1>9 DEF Coming
    <3> QED  BY <3>4, <1>5
  <2> QED
    <3>1. k \in 1 .. n \/ k = n + 1 \/ k = n + 2 \/ k = n + 3
      BY <1>2
    <3> QED  BY <3>1, <2>2, <2>3, <2>4, <2>5
<1>10. k < l \/ (k = l /\ i < j)
  BY <1>3, <1>4 DEF Before
<1> QED  BY <1>8, <1>9, <1>10

LEMMA LedgerKeepsOrders ==
  ASSUME IInv, NEW g \in Guests, NEW e, NEW a \in Nat, NEW b \in Nat, NEW z \in Nat,
         Ledger(g, e, a, b, z),
         NEW orders, orders = {x \in Places(g) : At(g, x) # Drop},
         NEW given, given = {At(g, x) : x \in orders}
  PROVE  /\ \A x, y \in orders : Before(x, y) => At(g, x) < At(g, y)
         /\ \A c \in given : 1 .. c \subseteq given
         /\ present[g] /\ wire[g] => given = 1 .. clicked[g]
<1>1. PICK f : Continues(f, e, a, b, z)
  BY BooksAre
<1>2. \A x, y \in orders : Before(x, y) => At(g, x) < At(g, y)
  BY <1>1, InTheirOrder
<1>3. ASSUME NEW x \in orders PROVE At(g, x) \in 1 .. z
  <2>1. PICK v, k : v = At(g, x) /\ k = x[1]
    OBVIOUS
  <2>2. k \in 1 .. Len(log) + 3 /\ v \in Nat /\ f[k - 1] < v /\ v <= f[k]
    BY <2>1, <1>1, <1>3, OrderOfPlace
  <2>3. PICK m : m = Len(log) + 3
    OBVIOUS
  <2>4. m \in Nat /\ k - 1 \in 0 .. m /\ k \in 0 .. m /\ m \in 0 .. m /\ k <= m
    BY <2>2, <2>3, SeatTypes
  <2>5. f[k - 1] \in Nat /\ f[k] \in Nat /\ f[k] <= f[m] /\ f[m] = z
    BY <2>3, <2>4, <1>1 DEF Continues
  <2>6. v \in 1 .. z
    BY <2>2, <2>5
  <2> QED  BY <2>1, <2>6
<1>4. ASSUME NEW d \in 1 .. z PROVE d \in given
  <2>1. PICK x \in Places(g) : At(g, x) = d
    BY <1>1, PlaceOfOrder
  <2>2. d # Drop
    <3>1. z <= clicked[g] /\ clicked[g] \in 0 .. MaxCommands
      BY SeatTypes DEF Ledger
    <3>2. d \in 1 .. MaxCommands
      BY <3>1, MatchAssumption
    <3> QED  BY <3>2, MatchAssumption, SequencerAssumption
  <2> QED  BY <2>1, <2>2
<1>5. given = 1 .. z
  BY <1>3, <1>4
<1>6. \A c \in given : 1 .. c \subseteq given
  <2>1. \A c \in 1 .. z : 1 .. c \subseteq 1 .. z
    OBVIOUS
  <2> QED  BY <2>1, <1>5
<1>7. present[g] /\ wire[g] => z = clicked[g]
  BY DEF Ledger
<1> QED  BY <1>2, <1>5, <1>6, <1>7

\* The orders of a guest that broke no rule reach the history in the order in which they
\* were given, none missing between two of them: for every limit on what a turn takes of a
\* seat and on what may wait, whatever is carried from turn to turn (Sequencer::submit,
\* seal()) and wherever the link breaks; and while it stands, none is lost at all.
THEOREM OrdersAreKept == Spec => []OrdersKept
<1> DEFINE Inv == \A g \in Guests : OrdersOf(g)
<1>1. Init => IInv /\ Inv
  BY InitIInv, InitOrders
<1>2. IInv /\ Inv /\ [Next]_vars => (IInv /\ Inv)'
  <2> SUFFICES ASSUME IInv, Inv, [Next]_vars PROVE IInv' /\ Inv'
    OBVIOUS
  <2>1. IInv'
    BY NextIInv
  <2>2. ASSUME NEW g \in Guests PROVE OrdersOf(g)'
    BY NextSeats, OrdersStep
  <2> QED  BY <2>1, <2>2
<1>3. IInv /\ Inv => OrdersKept
  <2> SUFFICES ASSUME IInv, Inv, NEW g \in Guests, violations[g] = 0
               PROVE  LET orders == {x \in Places(g) : At(g, x) # Drop}
                          given == {At(g, x) : x \in orders}
                      IN /\ \A x, y \in orders : Before(x, y) => At(g, x) < At(g, y)
                         /\ \A c \in given : 1 .. c \subseteq given
                         /\ present[g] /\ wire[g] => given = 1 .. clicked[g]
    BY DEF OrdersKept
  <2>1. PICK e : \E a, b, z \in Nat : Ledger(g, e, a, b, z)
    BY DEF OrdersOf
  <2>2. PICK a \in Nat, b \in Nat, z \in Nat : Ledger(g, e, a, b, z)
    BY <2>1
  <2>3. PICK orders : orders = {x \in Places(g) : At(g, x) # Drop}
    OBVIOUS
  <2>4. PICK given : given = {At(g, x) : x \in orders}
    OBVIOUS
  <2>5. /\ \A x, y \in orders : Before(x, y) => At(g, x) < At(g, y)
        /\ \A c \in given : 1 .. c \subseteq given
        /\ present[g] /\ wire[g] => given = 1 .. clicked[g]
    BY <2>2, <2>3, <2>4, LedgerKeepsOrders
  <2> QED  BY <2>3, <2>4, <2>5
<1> HIDE DEF Inv
<1> QED  BY <1>1, <1>2, <1>3, PTL DEF Spec

------------------------------------------------------------------------------
(* Whose game differs is named *)

\* A turn of which a hash is taken, and the hash of it on a link
Hashed(u) == (u + 1) % HashEvery = 0
IsHash(m, u) == m.type = "Hash" /\ m.turn = u

\* Before every acknowledgement of a link come the hashes of the turns that it acknowledges,
\* but for those that were dealt with.
Preceded(box, dealt) ==
  \A i \in 1 .. Len(box) : box[i].type = "TurnAck" =>
    \A u \in Nat : Hashed(u) /\ u <= box[i].turn =>
      u \in dealt \/ \E j \in 1 .. i - 1 : IsHash(box[j], u)

\* Every hash of the first n turns was dealt with or is on the link.
Told(box, dealt, n) ==
  \A u \in Nat : Hashed(u) /\ u < n => u \in dealt \/ \E j \in 1 .. Len(box) : IsHash(box[j], u)

\* More was dealt with.
LEMMA MoreDealt ==
  ASSUME NEW box, NEW dealt, NEW more, dealt \subseteq more
  PROVE  /\ Preceded(box, dealt) => Preceded(box, more)
         /\ \A n : Told(box, dealt, n) => Told(box, more, n)
<1>1. Preceded(box, dealt) => Preceded(box, more)
  BY DEF Preceded
<1>2. \A n : Told(box, dealt, n) => Told(box, more, n)
  BY DEF Told
<1> QED  BY <1>1, <1>2

\* A message is read: if it was a hash, it was dealt with.
LEMMA ReadOne ==
  ASSUME NEW box \in Seq(ToHostMsg), box # <<>>, NEW dealt,
         \A u \in Nat : Hashed(u) /\ IsHash(box[1], u) => u \in dealt
  PROVE  /\ Preceded(box, dealt) => Preceded(Tail(box), dealt)
         /\ \A n : Told(box, dealt, n) => Told(Tail(box), dealt, n)
<1>1. PICK t : t = Tail(box)
  OBVIOUS
<1>2. /\ Len(box) \in Nat /\ Len(t) \in Nat
      /\ \A i \in 1 .. Len(t) : i + 1 \in 1 .. Len(box) /\ t[i] = box[i + 1]
      /\ \A j \in 1 .. Len(box) : j # 1 => j - 1 \in 1 .. Len(t) /\ t[j - 1] = box[j]
  BY <1>1, TailOfLink
<1>3. ASSUME Preceded(box, dealt), NEW i \in 1 .. Len(t), t[i].type = "TurnAck",
             NEW u \in Nat, Hashed(u), u <= t[i].turn, u \notin dealt
      PROVE  \E j \in 1 .. i - 1 : IsHash(t[j], u)
  <2>1. i + 1 \in 1 .. Len(box) /\ t[i] = box[i + 1]
    BY <1>2
  <2>2. PICK j \in 1 .. (i + 1) - 1 : IsHash(box[j], u)
    BY <2>1, <1>3 DEF Preceded
  <2>3. j # 1
    BY <2>2, <1>3
  <2>4. j \in 1 .. Len(box) /\ j - 1 \in 1 .. i - 1
    BY <2>1, <2>2, <2>3, <1>2
  <2>5. t[j - 1] = box[j]
    BY <2>3, <2>4, <1>2
  <2> QED  BY <2>2, <2>4, <2>5
<1>4. ASSUME NEW n, Told(box, dealt, n), NEW u \in Nat, Hashed(u), u < n, u \notin dealt
      PROVE  \E j \in 1 .. Len(t) : IsHash(t[j], u)
  <2>1. PICK j \in 1 .. Len(box) : IsHash(box[j], u)
    BY <1>4 DEF Told
  <2>2. j # 1
    BY <2>1, <1>4
  <2> QED  BY <2>1, <2>2, <1>2
<1>5. Preceded(box, dealt) => Preceded(t, dealt)
  BY <1>3 DEF Preceded
<1>6. \A n : Told(box, dealt, n) => Told(t, dealt, n)
  BY <1>4 DEF Told
<1> QED  BY <1>1, <1>5, <1>6

\* The link breaks: what arrives is a beginning of what was on it.
LEMMA CutShort ==
  ASSUME NEW box, NEW dealt, Preceded(box, dealt), NEW k \in Nat, NEW cut, Len(cut) = k,
         \A i \in 1 .. k : i \in 1 .. Len(box) /\ cut[i] = box[i]
  PROVE  Preceded(cut, dealt)
<1>1. ASSUME NEW i \in 1 .. k, cut[i].type = "TurnAck",
             NEW u \in Nat, Hashed(u), u <= cut[i].turn, u \notin dealt
      PROVE  \E j \in 1 .. i - 1 : IsHash(cut[j], u)
  <2>1. PICK j \in 1 .. i - 1 : IsHash(box[j], u)
    BY <1>1 DEF Preceded
  <2>2. j \in 1 .. k
    BY <2>1
  <2> QED  BY <2>1, <2>2
<1> QED  BY <1>1 DEF Preceded

\* More is said: all the acknowledgements among it come with their hashes before them.
LEMMA SaidMore ==
  ASSUME NEW old \in Seq(ToHostMsg), NEW msgs \in Seq(ToHostMsg), NEW dealt,
         NEW box, box = old \o msgs, Preceded(old, dealt),
         NEW m \in Nat,
         \A i \in 1 .. Len(msgs) : msgs[i].type = "TurnAck" =>
           /\ msgs[i].turn < m
           /\ \A j \in 1 .. Len(msgs) : msgs[j].type = "Hash" => j < i,
         Told(box, dealt, m)
  PROVE  Preceded(box, dealt)
<1>1. PICK n, k : n = Len(old) /\ k = Len(msgs)
  OBVIOUS
<1>2. n \in Nat /\ k \in Nat
  BY <1>1, LenProperties
<1>3. Len(box) = n + k /\ \A i \in 1 .. n + k : box[i] = IF i <= n THEN old[i] ELSE msgs[i - n]
  BY <1>1, ConcatProperties
<1>4. ASSUME NEW i \in 1 .. Len(box), box[i].type = "TurnAck",
             NEW u \in Nat, Hashed(u), u <= box[i].turn, u \notin dealt
      PROVE  \E j \in 1 .. i - 1 : IsHash(box[j], u)
  <2>1. CASE i <= n
    <3>1. i \in 1 .. n /\ box[i] = old[i]
      BY <2>1, <1>2, <1>3
    <3>2. PICK j \in 1 .. i - 1 : IsHash(old[j], u)
      BY <3>1, <1>1, <1>4 DEF Preceded
    <3>3. box[j] = old[j]
      BY <3>1, <3>2, <1>2, <1>3
    <3> QED  BY <3>2, <3>3
  <2>2. CASE ~(i <= n)
    <3>1. i - n \in 1 .. k /\ box[i] = msgs[i - n]
      BY <2>2, <1>2, <1>3
    <3>2. box[i].turn \in Nat
      <4>1. msgs[i - n] \in ToHostMsg
        BY <3>1, <1>1, ElementOfSeq
      <4> QED  BY <4>1, <3>1, <1>4 DEF ToHostMsg, LeaveMsg
    <3>3. u < m
      BY <3>1, <3>2, <1>1, <1>4
    <3>4. PICK j \in 1 .. Len(box) : IsHash(box[j], u)
      BY <3>3, <1>4 DEF Told
    <3>5. CASE j <= n
      BY <3>4, <3>5, <2>2, <1>2
    <3>6. CASE ~(j <= n)
      <4>1. j - n \in 1 .. k /\ box[j] = msgs[j - n]
        BY <3>6, <1>2, <1>3
      <4>2. j - n < i - n
        BY <4>1, <3>1, <3>4, <1>1, <1>4 DEF IsHash
      <4>3. j \in 1 .. i - 1
        BY <4>2, <1>2, <1>3
      <4> QED  BY <3>4, <4>3
    <3> QED  BY <3>5, <3>6
  <2> QED  BY <2>1, <2>2
<1> QED  BY <1>4 DEF Preceded

\* A number that the period divides is that many periods.
LEMMA Multiple ==
  ASSUME NEW n \in Nat, NEW d \in Nat \ {0}, n % d = 0
  PROVE  n = (n \div d) * d
OBVIOUS

\* The runner of a guest says the hashes of all the turns that it has run since it spoke
\* last, and then acknowledges the last of them.
LEMMA SpeechTells ==
  ASSUME IInv, NEW g \in Guests, NEW n \in Nat, NEW msgs \in Seq(ToHostMsg), NEW many \in Nat,
         ran[g] < n, Speech(g, n, msgs, many), NEW u \in Nat, Hashed(u), ran[g] <= u, u < n
  PROVE  \E i \in 1 .. Len(msgs) : IsHash(msgs[i], u)
<1>1. PICK r, h : r = ran[g] /\ h = HashEvery
  OBVIOUS
<1>2. r \in Nat /\ h \in Nat \ {0}
  BY <1>1, Players, Numbers, MatchAssumption DEF Machines
<1>3. PICK q, b, c : q = (u + 1) \div h /\ b = r \div h /\ c = n \div h
  OBVIOUS
<1>4. q \in Nat /\ u + 1 = q * h
  <2>1. u + 1 \in Nat /\ (u + 1) % h = 0
    BY <1>1 DEF Hashed
  <2> QED  BY <2>1, <1>2, <1>3, Multiple, Quotient
<1>5. b \in Nat /\ b * h <= r
  BY <1>2, <1>3, Quotient
<1>6. c \in Nat
  BY <1>2, <1>3, Quotient
<1>7. q <= c
  <2>1. u + 1 \in Nat /\ u + 1 <= n
    OBVIOUS
  <2> QED  BY <2>1, <1>2, <1>3, QuotientGrows
<1>8. b < q
  <2>1. SUFFICES ASSUME q <= b PROVE FALSE
    BY <1>4, <1>5
  <2>2. q * h <= b * h
    BY <2>1, <1>2, <1>4, <1>5
  <2>3. q * h \in Nat /\ b * h \in Nat
    BY <1>2, <1>4, <1>5
  <2> QED  BY <2>2, <2>3, <1>1, <1>2, <1>4, <1>5
<1>9. many = c - b
  BY <1>1, <1>3 DEF Speech
<1>10. PICK i : i = q - b
  OBVIOUS
<1>11. i \in 1 .. many /\ b + i = q
  BY <1>4, <1>5, <1>6, <1>7, <1>8, <1>9, <1>10
<1>12. (b + i) * h - 1 = u
  <2>1. (b + i) * h = q * h
    BY <1>11
  <2>2. q * h - 1 = u
    BY <1>4
  <2> QED  BY <2>1, <2>2
<1>13. msgs[i] = HashMsg(u, Hash(g, u))
  BY <1>1, <1>3, <1>11, <1>12 DEF Speech
<1>14. i \in 1 .. Len(msgs)
  BY <1>11 DEF Speech
<1> QED  BY <1>13, <1>14 DEF IsHash, HashMsg

\* ... so after it, too, every hash of the turns that it has run is on the link.
LEMMA SpeechIsTold ==
  ASSUME IInv, NEW g \in Guests, NEW n \in Nat, NEW msgs \in Seq(ToHostMsg), NEW many \in Nat,
         ran[g] < n, Speech(g, n, msgs, many), NEW dealt,
         NEW box, box = toHost[g] \o msgs,
         Preceded(toHost[g], dealt), Told(toHost[g], dealt, ran[g])
  PROVE  Preceded(box, dealt) /\ Told(box, dealt, n)
<1>1. PICK old, k, l : old = toHost[g] /\ k = Len(toHost[g]) /\ l = Len(msgs)
  OBVIOUS
<1>2. old \in Seq(ToHostMsg) /\ k \in Nat /\ l \in Nat
  BY <1>1, SeatTypes, LenProperties
<1>3. Len(box) = k + l /\ \A i \in 1 .. k + l : box[i] = IF i <= k THEN old[i] ELSE msgs[i - k]
  BY <1>1, <1>2, ConcatProperties
<1>4. /\ \A i \in 1 .. k : i \in 1 .. Len(box) /\ box[i] = old[i]
      /\ \A i \in 1 .. l : k + i \in 1 .. Len(box) /\ box[k + i] = msgs[i]
  <2>1. \A i \in 1 .. k : i \in 1 .. k + l /\ i <= k
    BY <1>2
  <2>2. \A i \in 1 .. l : k + i \in 1 .. k + l /\ ~(k + i <= k) /\ (k + i) - k = i
    BY <1>2
  <2> QED  BY <2>1, <2>2, <1>3
<1>5. ASSUME NEW u \in Nat, Hashed(u), u < n, u \notin dealt
      PROVE  \E j \in 1 .. Len(box) : IsHash(box[j], u)
  <2>1. CASE u < ran[g]
    <3>1. PICK j \in 1 .. k : IsHash(old[j], u)
      BY <2>1, <1>1, <1>5 DEF Told
    <3> QED  BY <3>1, <1>4
  <2>2. CASE ~(u < ran[g])
    <3>1. ran[g] <= u
      BY <2>2, Numbers, Players DEF Machines
    <3>2. PICK j \in 1 .. l : IsHash(msgs[j], u)
      BY <3>1, <1>1, <1>5, SpeechTells
    <3> QED  BY <3>2, <1>4
  <2> QED  BY <2>1, <2>2
<1>6. Told(box, dealt, n)
  BY <1>5 DEF Told
<1>7. ASSUME NEW i \in 1 .. Len(msgs), msgs[i].type = "TurnAck"
      PROVE  msgs[i].turn < n /\ \A j \in 1 .. Len(msgs) : msgs[j].type = "Hash" => j < i
  <2>1. Len(msgs) = many + 1 /\ msgs[many + 1] = AckMsg(n - 1)
    BY DEF Speech
  <2>2. ASSUME NEW j \in 1 .. many PROVE msgs[j].type = "Hash"
    <3>1. PICK t : msgs[j] = HashMsg(t, Hash(g, t))
      BY DEF Speech
    <3> QED  BY <3>1 DEF HashMsg
  <2>3. msgs[many + 1].type = "TurnAck" /\ msgs[many + 1].turn = n - 1
    BY <2>1 DEF AckMsg
  <2>4. \A j \in 1 .. Len(msgs) : j \in 1 .. many \/ j = many + 1
    BY <2>1
  <2>5. i = many + 1
    BY <2>2, <2>4, <1>7
  <2>6. \A j \in 1 .. Len(msgs) : msgs[j].type = "Hash" => j < i
    BY <2>3, <2>4, <2>5
  <2> QED  BY <2>3, <2>5, <2>6
<1>8. Preceded(box, dealt)
  BY <1>1, <1>2, <1>6, <1>7, SaidMore
<1> QED  BY <1>6, <1>8

\* Words that are neither acknowledgements nor hashes change nothing of it.
LEMMA OtherWordsTold ==
  ASSUME NEW old \in Seq(ToHostMsg), NEW msgs \in Seq(ToHostMsg), NEW dealt,
         NEW box, box = old \o msgs,
         \A i \in 1 .. Len(msgs) : msgs[i].type # "TurnAck"
  PROVE  /\ Preceded(old, dealt) => Preceded(box, dealt)
         /\ \A n : Told(old, dealt, n) => Told(box, dealt, n)
<1>1. PICK k, l : k = Len(old) /\ l = Len(msgs)
  OBVIOUS
<1>2. k \in Nat /\ l \in Nat
  BY <1>1, LenProperties
<1>3. Len(box) = k + l /\ \A i \in 1 .. k + l : box[i] = IF i <= k THEN old[i] ELSE msgs[i - k]
  BY <1>1, ConcatProperties
<1>4. \A i \in 1 .. k : i \in 1 .. Len(box) /\ box[i] = old[i]
  BY <1>2, <1>3
<1>5. \A n : Told(old, dealt, n) => Told(box, dealt, n)
  BY <1>1, <1>4 DEF Told
<1>6. Told(box, dealt, 0)
  BY DEF Told
<1>7. Preceded(old, dealt) => Preceded(box, dealt)
  <2>1. \A i \in 1 .. Len(msgs) : msgs[i].type = "TurnAck" =>
          /\ msgs[i].turn < 0
          /\ \A j \in 1 .. Len(msgs) : msgs[j].type = "Hash" => j < i
    OBVIOUS
  <2> QED  BY <2>1, <1>6, SaidMore
<1> QED  BY <1>5, <1>7

\* The seats that the host acknowledges and reports for as it runs its own turns: its
\* player's and its bots'.
Own == Bots \cup ({HostSeat} \cap Seats)

\* A dedicated server finds a divergence by its referee only.  It needs a bot to acknowledge
\* for, for else the reports of its guests are forgotten before it runs their turns; and it
\* takes the referee's hash of a turn only if that is not too far back.
RefereeIsKept == Seatless => Bots # {}
RefereeKeepsUp == Seatless => sq.nextTurn <= ran[HostSeat] + RefereeWindow

\* The host's own hash of a turn is there; all who are waited for have passed the turn.
OwnHave(u) == IF Seatless THEN u \in DOMAIN sq.referee ELSE <<u, HostSeat>> \in DOMAIN sq.reports
Passed(u) == \A p \in Seats : sq.active[p] => u + 1 < sq.acked[p]

\* The host's own seats acknowledge no more than the host has run, and the host has its
\* own hashes of what it ran until everybody has passed them.
OwnStay == \A p \in Own : sq.active[p] /\ sq.acked[p] <= ran[HostSeat]
OwnKept == \A u \in Nat : Hashed(u) /\ u < ran[HostSeat] => OwnHave(u) \/ Passed(u)
OwnInv == OwnStay /\ OwnKept

\* The hash of a guest was compared with the host's; or it waits for the host's.
Settled(g, u) ==
  /\ u < ran[HostSeat] /\ u < ran[g]
  /\ Hash(g, u) # Hash(HostSeat, u) => frozen /\ g \in named
Waits(g, u) == ran[HostSeat] <= u /\ <<u, g>> \in DOMAIN sq.reports
Handled(g) == {u \in Nat : Hashed(u) /\ (Waits(g, u) \/ Settled(g, u))}

\* Of every turn that a guest has acknowledged the hash was handled, and it will be so with
\* the acknowledgements that come; while the link stands no hash gets lost.
GuestTold(g) ==
  present[g] =>
    /\ \A u \in Nat : Hashed(u) /\ u < sq.acked[g] => u \in Handled(g)
    /\ Preceded(toHost[g], Handled(g))
    /\ mode[g] = "Normal" /\ wire[g] => Told(toHost[g], Handled(g), ran[g])

FoundInv == OwnInv /\ \A g \in Guests : GuestTold(g)

\* A step in which the host runs no turn, and forgets only what all have passed
Calm ==
  /\ PastKept /\ ran'[HostSeat] = ran[HostSeat]
  /\ (frozen => frozen') /\ named \subseteq named'
  /\ \A p \in Seats : (sq'.active[p] => sq.active[p]) /\ sq.acked[p] <= sq'.acked[p]
  /\ \A p \in Own : sq'.active[p] /\ sq'.acked[p] = sq.acked[p]
  /\ \A k \in DOMAIN sq.reports : k \notin DOMAIN sq'.reports =>
       \A p \in Seats : sq'.active[p] => k[1] + 1 < sq'.acked[p]
  /\ \A k \in DOMAIN sq.referee : k \notin DOMAIN sq'.referee =>
       \A p \in Seats : sq'.active[p] => k + 1 < sq'.acked[p]

\* There is somebody whom the host acknowledges for.
LEMMA OwnSeats ==
  ASSUME RefereeIsKept
  PROVE  /\ Own # {} /\ Own \subseteq Seats /\ Own \cap Guests = {}
         /\ ~Seatless => HostSeat \in Own
         /\ \A p \in Seats : p \in Own <=> p \in Bots \cup {HostSeat}
BY MatchAssumption, Players DEF Own, RefereeIsKept, Seatless

\* After such a step the host's own hashes are there as before ...
LEMMA CalmOwn ==
  ASSUME RefereeIsKept, IInv, IInv', OwnInv, Calm
  PROVE  OwnInv'
<1>1. OwnStay'
  BY OwnSeats DEF OwnInv, OwnStay, Calm
<1>2. ASSUME NEW u \in Nat, Hashed(u), u < ran'[HostSeat], ~OwnHave(u)', NEW p \in Seats, sq'.active[p]
      PROVE  u + 1 < sq'.acked[p]
  <2>1. u < ran[HostSeat] /\ sq.active[p] /\ sq.acked[p] <= sq'.acked[p]
    BY <1>2 DEF Calm
  <2>2. sq.acked[p] \in Nat /\ sq'.acked[p] \in Nat
    BY DEF IInv, HostOK, SequencerType
  <2>3. CASE Passed(u)
    <3>1. u + 1 < sq.acked[p]
      BY <2>1, <2>3 DEF Passed
    <3> QED  BY <2>1, <2>2, <3>1
  <2>4. CASE OwnHave(u) /\ Seatless
    <3>1. u \in DOMAIN sq.referee /\ u \notin DOMAIN sq'.referee
      BY <1>2, <2>4 DEF OwnHave
    <3> QED  BY <1>2, <3>1 DEF Calm
  <2>5. CASE OwnHave(u) /\ ~Seatless
    <3>1. <<u, HostSeat>> \in DOMAIN sq.reports /\ <<u, HostSeat>> \notin DOMAIN sq'.reports
      BY <1>2, <2>5 DEF OwnHave
    <3>2. <<u, HostSeat>>[1] + 1 < sq'.acked[p]
      BY <1>2, <3>1 DEF Calm
    <3> QED  BY <3>2
  <2> QED  BY <1>2, <2>1, <2>3, <2>4, <2>5 DEF OwnInv, OwnKept
<1>3. OwnKept'
  BY <1>2 DEF OwnKept, Passed
<1> QED  BY <1>1, <1>3 DEF OwnInv

\* ... and what was handled stays so.
LEMMA CalmHandled ==
  ASSUME RefereeIsKept, IInv, IInv', OwnInv, Calm, NEW g \in Guests
  PROVE  Handled(g) \subseteq Handled(g)'
<1> SUFFICES ASSUME NEW u \in Nat, Hashed(u), Waits(g, u) \/ Settled(g, u)
             PROVE  Waits(g, u)' \/ Settled(g, u)'
  BY DEF Handled, Hashed
<1>1. CASE Waits(g, u)
  <2>1. <<u, g>> \in DOMAIN sq.reports /\ ran'[HostSeat] <= u
    BY <1>1 DEF Waits, Calm
  <2>2. PICK p \in Own : p \in Seats
    BY OwnSeats
  <2>3. sq'.active[p] /\ sq'.acked[p] = sq.acked[p] /\ sq.acked[p] <= ran[HostSeat]
    BY <2>2 DEF Calm, OwnInv, OwnStay
  <2>4. ~(u + 1 < sq'.acked[p])
    <3>1. sq.acked[p] \in Nat /\ ran[HostSeat] \in Nat /\ ran[HostSeat] <= u
      BY <1>1, <2>2, Numbers DEF Waits
    <3> QED  BY <2>3, <3>1
  <2>5. <<u, g>>[1] = u
    OBVIOUS
  <2>6. <<u, g>> \in DOMAIN sq'.reports
    BY <2>1, <2>2, <2>3, <2>4, <2>5 DEF Calm
  <2> QED  BY <2>1, <2>6 DEF Waits
<1>2. CASE Settled(g, u)
  <2>1. g \in Machines /\ HostSeat \in Machines
    BY Numbers
  <2>2. /\ u < ran[HostSeat] /\ u < ran[g]
        /\ Hash(g, u) # Hash(HostSeat, u) => frozen /\ g \in named
    BY <1>2 DEF Settled
  <2>3. /\ ran[g] \in Nat /\ ran'[g] \in Nat /\ ran[g] <= ran'[g]
        /\ ran'[HostSeat] = ran[HostSeat]
        /\ Hash(g, u)' = Hash(g, u) /\ Hash(HostSeat, u)' = Hash(HostSeat, u)
    BY <2>1, <2>2, Numbers DEF PastKept, Calm
  <2>4. u < ran'[g] /\ u < ran'[HostSeat]
    BY <2>2, <2>3
  <2>5. Hash(g, u)' # Hash(HostSeat, u)' => frozen' /\ g \in named'
    BY <2>2, <2>3 DEF Calm
  <2> QED  BY <2>4, <2>5 DEF Settled
<1> QED  BY <1>1, <1>2

\* A guest that has no part in such a step
LEMMA CalmGuest ==
  ASSUME RefereeIsKept, IInv, IInv', OwnInv, Calm, NEW g \in Guests, GuestTold(g),
         present'[g] => /\ present[g] /\ sq'.acked[g] = sq.acked[g] /\ toHost'[g] = toHost[g]
                        /\ ran'[g] = ran[g]
                        /\ mode'[g] = "Normal" /\ wire'[g] => mode[g] = "Normal" /\ wire[g]
  PROVE  GuestTold(g)'
<1> SUFFICES ASSUME present'[g]
             PROVE  /\ \A u \in Nat : Hashed(u) /\ u < sq'.acked[g] => u \in Handled(g)'
                    /\ Preceded(toHost'[g], Handled(g)')
                    /\ mode'[g] = "Normal" /\ wire'[g] => Told(toHost'[g], Handled(g)', ran'[g])
  BY DEF GuestTold, Preceded, Told, Hashed, IsHash
<1>1. Handled(g) \subseteq Handled(g)'
  BY CalmHandled
<1>2. /\ \A u \in Nat : Hashed(u) /\ u < sq.acked[g] => u \in Handled(g)
      /\ Preceded(toHost[g], Handled(g))
      /\ mode[g] = "Normal" /\ wire[g] => Told(toHost[g], Handled(g), ran[g])
  BY DEF GuestTold
<1>3. PICK box, dealt, more : box = toHost[g] /\ dealt = Handled(g) /\ more = Handled(g)'
  OBVIOUS
<1>4. /\ Preceded(box, dealt) => Preceded(box, more)
      /\ \A n : Told(box, dealt, n) => Told(box, more, n)
  BY <1>1, <1>3, MoreDealt
<1> QED  BY <1>1, <1>2, <1>3, <1>4

\* The guest has no part in the step, or it goes.
Apart(g) ==
  present'[g] => /\ present[g] /\ sq'.acked[g] = sq.acked[g] /\ toHost'[g] = toHost[g]
                 /\ ran'[g] = ran[g]
                 /\ mode'[g] = "Normal" /\ wire'[g] => mode[g] = "Normal" /\ wire[g]

LEMMA CalmStep ==
  ASSUME RefereeIsKept, IInv, IInv', FoundInv, Calm,
         \A g \in Guests : Apart(g) \/ GuestTold(g)'
  PROVE  FoundInv'
<1>1. OwnInv
  BY DEF FoundInv
<1>2. OwnInv'
  BY <1>1, CalmOwn
<1>3. ASSUME NEW g \in Guests PROVE GuestTold(g)'
  <2>1. CASE Apart(g)
    <3>1. GuestTold(g)
      BY DEF FoundInv
    <3> QED  BY <1>1, <2>1, <3>1, CalmGuest DEF Apart
  <2> QED  BY <2>1
<1> QED  BY <1>2, <1>3 DEF FoundInv

\* A step that neither runs a turn nor acknowledges, reports or forgets, in which at most
\* guests are dropped
LEMMA SilentIsCalm ==
  ASSUME RefereeIsKept, IInv, OwnInv, UNCHANGED <<ran, astray, frozen, named>>,
         sq'.acked = sq.acked, sq'.reports = sq.reports, sq'.referee = sq.referee,
         NEW gone \in SUBSET Guests,
         \A p \in Seats : sq'.active[p] <=> sq.active[p] /\ p \notin gone
  PROVE  Calm
<1>1. PastKept
  BY PastIsKept
<1>2. ASSUME NEW p \in Seats PROVE (sq'.active[p] => sq.active[p]) /\ sq.acked[p] <= sq'.acked[p]
  <2>1. sq.acked[p] \in Nat
    BY Numbers
  <2> QED  BY <2>1
<1>3. \A p \in Own : sq'.active[p] /\ sq'.acked[p] = sq.acked[p]
  BY OwnSeats DEF OwnInv, OwnStay
<1> QED  BY <1>1, <1>2, <1>3 DEF Calm

\* drop() of guests, after a turn was sealed or not
LEMMA OutFound ==
  ASSUME RefereeIsKept, IInv, IInv', FoundInv, UNCHANGED <<ran, astray, frozen, named, mode>>,
         NEW s, SequencerType(s), s.acked = sq.acked, s.active = sq.active,
         s.reports = sq.reports, s.referee = sq.referee,
         NEW gone \in SUBSET Guests, sq' = Out(s, gone), Leaves(gone),
         \A h \in Guests \ gone : toHost'[h] = toHost[h]
  PROVE  FoundInv'
<1>0. PICK t : t = Out(s, gone)
  OBVIOUS
<1>5. t.reports = s.reports /\ t.referee = s.referee
  BY <1>0, OutFields
<1>6. t.acked = s.acked /\ \A p \in Seats : t.active[p] <=> s.active[p] /\ p \notin gone
  BY <1>0, OutKeeps
<1>1. /\ sq'.acked = sq.acked /\ sq'.reports = sq.reports /\ sq'.referee = sq.referee
      /\ \A p \in Seats : sq'.active[p] <=> sq.active[p] /\ p \notin gone
  BY <1>0, <1>5, <1>6
<1>2. Calm
  BY <1>1, SilentIsCalm DEF FoundInv
<1>3. \A h \in Guests : /\ present'[h] <=> present[h] /\ h \notin gone
                        /\ wire'[h] <=> wire[h] /\ h \notin gone
  BY DEF Leaves
<1>4. ASSUME NEW h \in Guests PROVE Apart(h)
  BY <1>1, <1>3 DEF Apart
<1> QED  BY <1>2, <1>4, CalmStep

LEMMA DropGuestFound ==
  ASSUME RefereeIsKept, IInv, IInv', FoundInv, UNCHANGED <<ran, astray, frozen, named, mode>>,
         NEW g \in Guests, DropGuest(g)
  PROVE  FoundInv'
<1>1. sq' = Out(sq, {g}) /\ Leaves({g}) /\ \A h \in Guests \ {g} : toHost'[h] = toHost[h]
  BY DEF DropGuest, Unread
<1>2. SequencerType(sq)
  BY Numbers
<1> QED  BY <1>1, <1>2, OutFound

LEMMA HostSealsFound == ASSUME RefereeIsKept, IInv, IInv', FoundInv, HostSeals PROVE FoundInv'
<1>1. PICK gone \in SUBSET CanFail :
        sq' = Out(Sealed(sq), gone) /\ Leaves(gone) /\ toHost' = Unread(toHost, gone)
  BY DEF HostSeals
<1>2. UNCHANGED <<ran, astray, frozen, named, mode>>
  BY DEF HostSeals, guestVars
<1>3. PICK s : s = Sealed(sq)
  OBVIOUS
<1>4. SequencerType(sq)
  BY Numbers
<1>5. s.reports = sq.reports /\ s.referee = sq.referee /\ SequencerType(s)
  BY <1>3, <1>4, SealedFields, SealedType
<1>6. s.acked = sq.acked /\ s.active = sq.active
  BY <1>3, <1>4, SealedKeeps
<1>7. gone \in SUBSET Guests /\ \A h \in Guests \ gone : toHost'[h] = toHost[h]
  BY <1>1 DEF CanFail, Unread
<1> QED  BY <1>1, <1>2, <1>3, <1>5, <1>6, <1>7, OutFound

LEMMA HostClicksFound ==
  ASSUME RefereeIsKept, IInv, IInv', FoundInv, NEW p \in Seats, HostClicks(p) PROVE FoundInv'
<1>1. /\ UNCHANGED <<ran, astray, frozen, named, mode, toHost, wire, present>>
      /\ sq' = IF Accepts(sq, p) THEN Submitted(sq, p, clicked'[p]) ELSE sq
  BY DEF HostClicks, linkVars, guestVars
<1>2. SequencerType(sq)
  BY Numbers
<1>3. PICK c : c = clicked'[p]
  OBVIOUS
<1>4. c \in Command
  <2>1. clicked[p] < MaxCommands /\ clicked'[p] = clicked[p] + 1 /\ clicked[p] \in 0 .. MaxCommands
    BY Players DEF HostClicks, Click, IInv, GuestsOK
  <2> QED  BY <1>3, <2>1, Players
<1>5. /\ sq'.reports = sq.reports /\ sq'.referee = sq.referee /\ sq'.acked = sq.acked
      /\ sq'.active = sq.active
  <2>1. CASE sq' = sq
    BY <2>1
  <2>2. CASE sq' = Submitted(sq, p, c)
    BY <1>2, <1>4, <2>2, SubmittedFields, SubmittedKeeps
  <2> QED  BY <1>1, <1>3, <2>1, <2>2
<1>9. PICK gone \in SUBSET Guests : gone = {}
  OBVIOUS
<1>6. \A q \in Seats : sq'.active[q] <=> sq.active[q] /\ q \notin gone
  BY <1>5, <1>9
<1>7. Calm
  BY <1>1, <1>5, <1>6, SilentIsCalm DEF FoundInv
<1>8. \A g \in Guests : Apart(g)
  BY <1>1, <1>5 DEF Apart
<1> QED  BY <1>7, <1>8, CalmStep

LEMMA HostWaitsFound == ASSUME RefereeIsKept, IInv, IInv', FoundInv, HostWaits PROVE FoundInv'
<1>1. UNCHANGED <<ran, astray, frozen, named, mode>>
  BY DEF HostWaits, guestVars
<1>2. CASE UNCHANGED <<sq, toHost, present, wire>>
  <2>0. PICK gone \in SUBSET Guests : gone = {}
    OBVIOUS
  <2>1. \A q \in Seats : sq'.active[q] <=> sq.active[q] /\ q \notin gone
    BY <1>2, <2>0
  <2>2. Calm
    BY <1>1, <1>2, <2>1, SilentIsCalm DEF FoundInv
  <2>3. \A g \in Guests : Apart(g)
    BY <1>1, <1>2 DEF Apart
  <2> QED  BY <2>2, <2>3, CalmStep
<1>3. ASSUME NEW g \in Guests, DropGuest(g) PROVE FoundInv'
  BY <1>1, <1>3, DropGuestFound
<1> QED  BY <1>2, <1>3 DEF HostWaits

\* Why a guest is told what it has to be: what was dealt with before the step, and what the
\* step deals with, is enough for what is acknowledged and comes.
LEMMA ToldBy ==
  ASSUME NEW g \in Guests, NEW dealt, dealt \subseteq Handled(g)',
         present'[g] =>
           /\ \A u \in Nat : Hashed(u) /\ u < sq'.acked[g] => u \in dealt
           /\ Preceded(toHost'[g], dealt)
           /\ mode'[g] = "Normal" /\ wire'[g] => Told(toHost'[g], dealt, ran'[g])
  PROVE  GuestTold(g)'
<1> SUFFICES ASSUME present'[g]
             PROVE  /\ \A u \in Nat : Hashed(u) /\ u < sq'.acked[g] => u \in Handled(g)'
                    /\ Preceded(toHost'[g], Handled(g)')
                    /\ mode'[g] = "Normal" /\ wire'[g] => Told(toHost'[g], Handled(g)', ran'[g])
  BY DEF GuestTold, Preceded, Told, Hashed, IsHash
<1>1. PICK box, more : box = toHost'[g] /\ more = Handled(g)'
  OBVIOUS
<1>2. dealt \subseteq more
  BY <1>1
<1>3. /\ Preceded(box, dealt) => Preceded(box, more)
      /\ \A n : Told(box, dealt, n) => Told(box, more, n)
  BY <1>2, MoreDealt
<1> QED  BY <1>1, <1>2, <1>3

\* A step of a guest: nothing of the host changes, and the other guests have no part in it.
GuestActs(g) ==
  /\ PastKept /\ UNCHANGED <<sq, present, frozen, named>>
  /\ \A h \in Machines \ {g} : ran'[h] = ran[h]
  /\ \A h \in Guests \ {g} : toHost'[h] = toHost[h] /\ mode'[h] = mode[h] /\ wire'[h] = wire[h]

LEMMA GuestFound ==
  ASSUME RefereeIsKept, IInv, IInv', FoundInv, NEW g \in Guests, GuestActs(g),
         present[g] /\ GuestTold(g) =>
           /\ Preceded(toHost'[g], Handled(g))
           /\ mode'[g] = "Normal" /\ wire'[g] => Told(toHost'[g], Handled(g), ran'[g])
  PROVE  FoundInv'
<1>1. HostSeat \in Machines \ {g} /\ Guests \subseteq Machines
  BY Numbers
<1>2. ASSUME NEW p \in Seats PROVE sq.acked[p] <= sq'.acked[p]
  <2>1. sq.acked[p] \in Nat
    BY Numbers
  <2> QED  BY <2>1 DEF GuestActs
<1>3. \A p \in Own : sq'.active[p]
  BY DEF FoundInv, OwnInv, OwnStay, GuestActs
<1>4. Calm
  BY <1>1, <1>2, <1>3 DEF Calm, GuestActs
<1>5. \A h \in Guests \ {g} : Apart(h)
  BY <1>1 DEF Apart, GuestActs
<1>6. GuestTold(g)'
  <2>1. OwnInv /\ GuestTold(g)
    BY DEF FoundInv
  <2>2. PICK dealt : dealt = Handled(g)
    OBVIOUS
  <2>3. dealt \subseteq Handled(g)'
    BY <2>1, <2>2, <1>4, CalmHandled
  <2>4. present'[g] = present[g] /\ sq'.acked[g] = sq.acked[g]
    BY DEF GuestActs
  <2>5. present[g] => \A u \in Nat : Hashed(u) /\ u < sq.acked[g] => u \in dealt
    BY <2>1, <2>2 DEF GuestTold
  <2>6. present'[g] =>
           /\ \A u \in Nat : Hashed(u) /\ u < sq'.acked[g] => u \in dealt
           /\ Preceded(toHost'[g], dealt)
           /\ mode'[g] = "Normal" /\ wire'[g] => Told(toHost'[g], dealt, ran'[g])
    BY <2>1, <2>2, <2>4, <2>5
  <2> QED  BY <2>3, <2>6, ToldBy
<1> QED  BY <1>4, <1>5, <1>6, CalmStep

\* A guest gives an order or leaves: its words are no acknowledgement.
LEMMA GuestSaysFound ==
  ASSUME RefereeIsKept, IInv, IInv', FoundInv, NEW g \in Guests, NEW m \in ToHostMsg,
         m.type # "TurnAck", toHost' = Say(g, <<m>>),
         UNCHANGED <<sq, present, frozen, named, ran, astray, mode>>,
         \A h \in Guests : wire'[h] => wire[h], \A h \in Guests \ {g} : wire'[h] = wire[h]
  PROVE  FoundInv'
<1>1. PICK msgs, old, box : msgs = <<m>> /\ old = toHost[g] /\ box = toHost'[g]
  OBVIOUS
<1>2. /\ msgs \in Seq(ToHostMsg) /\ old \in Seq(ToHostMsg)
      /\ \A i \in 1 .. Len(msgs) : msgs[i].type # "TurnAck"
  BY <1>1 DEF IInv, LinksOK
<1>3. \A h \in Guests \ {g} : toHost'[h] = toHost[h]
  BY <1>1, <1>2, SaidAfter
<1>4. GuestActs(g)
  BY <1>3, PastIsKept DEF GuestActs
<1>5. PICK dealt : dealt = Handled(g)
  OBVIOUS
<1>6. ASSUME present[g], GuestTold(g)
      PROVE  /\ Preceded(box, dealt)
             /\ mode'[g] = "Normal" /\ wire'[g] => Told(box, dealt, ran'[g])
  <2>1. /\ Preceded(old, dealt)
        /\ mode[g] = "Normal" /\ wire[g] => Told(old, dealt, ran[g])
    BY <1>1, <1>5, <1>6 DEF GuestTold
  <2>2. CASE box = old
    BY <2>1, <2>2
  <2>3. CASE box = old \o msgs
    <3>1. /\ Preceded(old, dealt) => Preceded(box, dealt)
          /\ \A n : Told(old, dealt, n) => Told(box, dealt, n)
      BY <1>2, <2>3, OtherWordsTold
    <3> QED  BY <2>1, <3>1
  <2>4. box = old \/ box = old \o msgs
    BY <1>1 DEF Say, IInv, LinksOK
  <2> QED  BY <2>2, <2>3, <2>4
<1>7. present[g] /\ GuestTold(g) =>
           /\ Preceded(toHost'[g], Handled(g))
           /\ mode'[g] = "Normal" /\ wire'[g] => Told(toHost'[g], Handled(g), ran'[g])
  BY <1>1, <1>5, <1>6
<1> QED  BY <1>4, <1>7, GuestFound

\* A guest runs turns, and says their hashes before it acknowledges them.
LEMMA GuestRunsFound ==
  ASSUME RefereeIsKept, IInv, IInv', FoundInv, NEW g \in Guests, GuestRuns(g) PROVE FoundInv'
<1>1. PICK n \in Nat, msgs \in Seq(ToHostMsg), many \in Nat :
        /\ ran[g] < n /\ n <= Len(got[g]) /\ ran' = [ran EXCEPT ![g] = n]
        /\ toHost' = IF mode[g] = "Normal" THEN Say(g, msgs) ELSE toHost
        /\ Speech(g, n, msgs, many)
  BY GuestRunsSays
<1>2. UNCHANGED <<sq, present, frozen, named, astray, mode, wire>>
  BY DEF GuestRuns, hostVars, guestVars
<1>3. g \in Machines /\ ran \in [Machines -> Nat]
  BY Numbers
<1>4. ran[g] <= n /\ ran'[g] = n /\ \A h \in Machines \ {g} : ran'[h] = ran[h]
  BY <1>1, <1>3
<1>5. PastKept
  BY <1>1, <1>2, <1>3, <1>4, RunningKeepsPast
<1>6. PICK old, box, dealt : old = toHost[g] /\ box = toHost'[g] /\ dealt = Handled(g)
  OBVIOUS
<1>7. /\ \A h \in Guests \ {g} : toHost'[h] = toHost[h]
      /\ box = IF mode[g] = "Normal" /\ wire[g] THEN toHost[g] \o msgs ELSE old
  BY <1>1, <1>6 DEF Say, IInv, LinksOK
<1>8. GuestActs(g)
  BY <1>2, <1>4, <1>5, <1>7 DEF GuestActs
<1>9. ASSUME present[g], GuestTold(g)
      PROVE  /\ Preceded(box, dealt)
             /\ mode'[g] = "Normal" /\ wire'[g] => Told(box, dealt, n)
  <2>1. /\ Preceded(toHost[g], dealt)
        /\ mode[g] = "Normal" /\ wire[g] => Told(toHost[g], dealt, ran[g])
    BY <1>6, <1>9 DEF GuestTold
  <2>2. CASE mode[g] = "Normal" /\ wire[g]
    <3>1. box = toHost[g] \o msgs /\ Told(toHost[g], dealt, ran[g])
      BY <1>7, <2>1, <2>2
    <3>2. Preceded(box, dealt) /\ Told(box, dealt, n)
      BY <1>1, <2>1, <3>1, SpeechIsTold
    <3> QED  BY <3>2
  <2>3. CASE ~(mode[g] = "Normal" /\ wire[g])
    BY <1>2, <1>6, <1>7, <2>1, <2>3
  <2> QED  BY <2>2, <2>3
<1>10. present[g] /\ GuestTold(g) =>
           /\ Preceded(toHost'[g], Handled(g))
           /\ mode'[g] = "Normal" /\ wire'[g] => Told(toHost'[g], Handled(g), ran'[g])
  BY <1>4, <1>6, <1>9
<1> QED  BY <1>8, <1>10, GuestFound

\* The link breaks: what arrives up to some point comes in its order.
LEMMA BreaksFound ==
  ASSUME RefereeIsKept, IInv, IInv', FoundInv, NEW g \in Guests, Breaks(g) PROVE FoundInv'
<1>1. /\ UNCHANGED <<sq, present, frozen, named, ran, astray, mode>>
      /\ wire' = [wire EXCEPT ![g] = FALSE]
  BY DEF Breaks, hostVars, guestVars
<1>2. PICK k \in 0 .. Len(toHost[g]) : toHost' = [toHost EXCEPT ![g] = SubSeq(@, 1, k)]
  BY DEF Breaks
<1>3. PICK cut, old, dealt : cut = SubSeq(toHost[g], 1, k) /\ old = toHost[g] /\ dealt = Handled(g)
  OBVIOUS
<1>4. k \in Nat /\ Len(cut) = k /\ \A i \in 1 .. k : i \in 1 .. Len(old) /\ cut[i] = old[i]
  BY <1>3, CutOf
<1>5. toHost'[g] = cut /\ \A h \in Guests \ {g} : toHost'[h] = toHost[h]
  BY <1>2, <1>3 DEF IInv, LinksOK
<1>6. ~wire'[g] /\ \A h \in Guests \ {g} : wire'[h] = wire[h]
  BY <1>1 DEF IInv, LinksOK
<1>7. GuestActs(g)
  BY <1>1, <1>5, <1>6, PastIsKept DEF GuestActs
<1>8. Preceded(old, dealt) => Preceded(cut, dealt)
  BY <1>4, CutShort
<1>9. present[g] /\ GuestTold(g) => Preceded(old, dealt)
  BY <1>3 DEF GuestTold
<1>10. present[g] /\ GuestTold(g) =>
           /\ Preceded(toHost'[g], Handled(g))
           /\ mode'[g] = "Normal" /\ wire'[g] => Told(toHost'[g], Handled(g), ran'[g])
  BY <1>3, <1>5, <1>6, <1>8, <1>9
<1> QED  BY <1>7, <1>10, GuestFound

LEMMA GuestStepFound ==
  ASSUME RefereeIsKept, IInv, IInv', FoundInv, NEW g \in Guests, GuestStep(g) \/ Breaks(g)
  PROVE  FoundInv'
<1>1. CASE GuestClicks(g)
  <2>1. PICK c : c = clicked'[g]
    OBVIOUS
  <2>2. c \in Command
    <3>1. clicked[g] < MaxCommands /\ clicked'[g] = clicked[g] + 1 /\ clicked[g] \in 0 .. MaxCommands
      BY <1>1, Players DEF GuestClicks, Click, IInv, GuestsOK
    <3> QED  BY <2>1, <3>1, Players
  <2>3. PICK m : m = CommandMsg(c)
    OBVIOUS
  <2>4. m \in ToHostMsg /\ m.type # "TurnAck"
    BY <2>2, <2>3 DEF CommandMsg, ToHostMsg
  <2>5. toHost' = Say(g, <<m>>) /\ UNCHANGED <<sq, present, frozen, named, ran, astray, mode, wire>>
    BY <1>1, <2>1, <2>3 DEF GuestClicks, hostVars, guestVars
  <2> QED  BY <2>4, <2>5, GuestSaysFound
<1>2. CASE GuestLeaves(g)
  <2>1. PICK m : m = LeaveMsg
    OBVIOUS
  <2>2. m \in ToHostMsg /\ m.type # "TurnAck"
    BY <2>1 DEF LeaveMsg, ToHostMsg
  <2>3. /\ toHost' = Say(g, <<m>>) /\ UNCHANGED <<sq, present, frozen, named, ran, astray, mode>>
        /\ wire' = [wire EXCEPT ![g] = FALSE]
    BY <1>2, <2>1 DEF GuestLeaves, hostVars, guestVars
  <2>4. (\A h \in Guests : wire'[h] => wire[h]) /\ \A h \in Guests \ {g} : wire'[h] = wire[h]
    BY <2>3 DEF IInv, LinksOK
  <2> QED  BY <2>2, <2>3, <2>4, GuestSaysFound
<1>3. CASE GuestRuns(g)
  BY <1>3, GuestRunsFound
<1>4. CASE GuestHears(g) \/ GuestLost(g)
  <2>1. /\ UNCHANGED <<sq, toHost, present, frozen, named, ran, astray, wire>>
        /\ \A h \in Guests \ {g} : mode'[h] = mode[h]
        /\ mode'[g] = "Normal" => mode[g] = "Normal"
    BY <1>4 DEF GuestHears, GuestLost, hostVars, IInv, GuestsOK
  <2>2. GuestActs(g)
    BY <2>1, PastIsKept DEF GuestActs
  <2>3. present[g] /\ GuestTold(g) =>
           /\ Preceded(toHost'[g], Handled(g))
           /\ mode'[g] = "Normal" /\ wire'[g] => Told(toHost'[g], Handled(g), ran'[g])
    BY <2>1 DEF GuestTold
  <2> QED  BY <2>2, <2>3, GuestFound
<1>5. CASE Breaks(g)
  BY <1>5, BreaksFound
<1> QED  BY <1>1, <1>2, <1>3, <1>4, <1>5 DEF GuestStep, GuestFindsClosed, GuestSilence

\* The host reads a message: what it says and what it acknowledges has to be handled.
LEMMA ReadFound ==
  ASSUME RefereeIsKept, IInv, IInv', FoundInv, Calm, NEW g \in Guests,
         present[g], toHost[g] # <<>>, toHost' = [toHost EXCEPT ![g] = Tail(@)],
         UNCHANGED <<present, wire, mode, ran>>,
         \A p \in Seats \ {g} : sq'.acked[p] = sq.acked[p],
         \A u \in Nat : Hashed(u) /\ IsHash(toHost[g][1], u) => u \in Handled(g)',
         \A u \in Nat : Hashed(u) /\ u < sq'.acked[g] => u \in Handled(g)'
  PROVE  FoundInv'
<1>1. \A h \in Guests \ {g} : Apart(h)
  BY Numbers DEF Apart
<1>2. OwnInv /\ GuestTold(g)
  BY DEF FoundInv
<1>3. PICK old, dealt, more : old = toHost[g] /\ dealt = Handled(g) /\ more = Handled(g)'
  OBVIOUS
<1>4. dealt \subseteq more
  BY <1>2, <1>3, CalmHandled
<1>5. /\ Preceded(old, dealt)
      /\ mode[g] = "Normal" /\ wire[g] => Told(old, dealt, ran[g])
  BY <1>2, <1>3 DEF GuestTold
<1>6. /\ Preceded(old, dealt) => Preceded(old, more)
      /\ \A n : Told(old, dealt, n) => Told(old, more, n)
  BY <1>4, MoreDealt
<1>7. old \in Seq(ToHostMsg) /\ toHost'[g] = Tail(old)
  BY <1>3 DEF IInv, LinksOK
<1>8. /\ Preceded(old, more) => Preceded(Tail(old), more)
      /\ \A n : Told(old, more, n) => Told(Tail(old), more, n)
  <2>1. \A u \in Nat : Hashed(u) /\ IsHash(old[1], u) => u \in more
    BY <1>3
  <2>2. old # <<>>
    BY <1>3
  <2> QED  BY <2>1, <2>2, <1>7, ReadOne
<1>9. present'[g] =>
           /\ \A u \in Nat : Hashed(u) /\ u < sq'.acked[g] => u \in more
           /\ Preceded(toHost'[g], more)
           /\ mode'[g] = "Normal" /\ wire'[g] => Told(toHost'[g], more, ran'[g])
  BY <1>3, <1>5, <1>6, <1>7, <1>8
<1>10. more \subseteq Handled(g)'
  BY <1>3
<1>11. GuestTold(g)'
  BY <1>9, <1>10, ToldBy
<1> QED  BY <1>1, <1>11, CalmStep

\* A command, taken or not, or one that breaks a rule
LEMMA CommandFound ==
  ASSUME RefereeIsKept, IInv, IInv', FoundInv, NEW g \in Guests, present[g], toHost[g] # <<>>,
         NEW inbox, inbox = [toHost EXCEPT ![g] = Tail(@)],
         toHost[g][1].type = "Command", UNCHANGED <<ran, astray, mode>>,
         NEW c \in Command, HostCommand(g, c, inbox)
  PROVE  FoundInv'
<1>1. SequencerType(sq) /\ g \in Seats
  BY Numbers
<1>2. UNCHANGED <<frozen, named>>
  BY DEF HostCommand
<1>3. CASE sq' = Out(sq, {g}) /\ Leaves({g}) /\ toHost' = Unread(inbox, {g})
  <2>1. \A h \in Guests \ {g} : toHost'[h] = toHost[h]
    BY <1>3 DEF Unread, IInv, LinksOK
  <2> QED  BY <1>1, <1>2, <1>3, <2>1, OutFound
<1>4. CASE (sq' = sq \/ sq' = Submitted(sq, g, c)) /\ toHost' = inbox /\ UNCHANGED <<present, wire>>
  <2>1. /\ sq'.reports = sq.reports /\ sq'.referee = sq.referee /\ sq'.acked = sq.acked
        /\ sq'.active = sq.active
    BY <1>1, <1>4, SubmittedFields, SubmittedKeeps
  <2>2. PICK gone \in SUBSET Guests : gone = {}
    OBVIOUS
  <2>3. \A q \in Seats : sq'.active[q] <=> sq.active[q] /\ q \notin gone
    BY <2>1, <2>2
  <2>4. OwnInv /\ GuestTold(g)
    BY DEF FoundInv
  <2>5. Calm
    BY <1>2, <2>1, <2>3, <2>4, SilentIsCalm
  <2>6. Handled(g) \subseteq Handled(g)'
    BY <2>4, <2>5, CalmHandled
  <2>7. \A u \in Nat : ~IsHash(toHost[g][1], u)
    BY DEF IsHash
  <2>8. \A u \in Nat : Hashed(u) /\ u < sq'.acked[g] => u \in Handled(g)'
    BY <2>1, <2>4, <2>6 DEF GuestTold
  <2>9. \A p \in Seats \ {g} : sq'.acked[p] = sq.acked[p]
    BY <2>1
  <2>10. \A u \in Nat : Hashed(u) /\ IsHash(toHost[g][1], u) => u \in Handled(g)'
    BY <2>7, SMTT(40)
  <2> QED  BY <1>4, <2>5, <2>8, <2>9, <2>10, ReadFound
<1> QED  BY <1>3, <1>4 DEF HostCommand, Violation

\* An acknowledgement: the hashes came before it.
LEMMA AckFound ==
  ASSUME RefereeIsKept, IInv, IInv', FoundInv, NEW g \in Guests, present[g], toHost[g] # <<>>,
         NEW inbox, inbox = [toHost EXCEPT ![g] = Tail(@)],
         toHost[g][1].type = "TurnAck", UNCHANGED <<ran, astray, mode>>,
         NEW turn \in Nat, turn = toHost[g][1].turn, HostAck(g, turn, inbox)
  PROVE  FoundInv'
<1>1. SequencerType(sq) /\ g \in Seats
  BY Numbers
<1>2. sq' = OnAck(sq, g, turn) /\ toHost' = inbox /\ UNCHANGED <<present, wire, frozen, named>>
  BY DEF HostAck
<1>3. /\ Acknowledged(sq, sq')
      /\ \A q \in Seats \ {g} : sq'.acked[q] = sq.acked[q]
      /\ sq'.acked[g] = sq.acked[g] \/ sq'.acked[g] <= turn + 1
  BY <1>1, <1>2, OnAckFields, SMTT(40)
<1>4. OwnInv /\ GuestTold(g)
  BY DEF FoundInv
<1>5. Calm
  <2>1. PastKept
    BY PastIsKept
  <2>2. \A p \in Own : sq'.active[p] /\ sq'.acked[p] = sq.acked[p]
    BY <1>3, <1>4, OwnSeats DEF OwnInv, OwnStay, Acknowledged
  <2>3. sq'.active = sq.active /\ \A p \in Seats : sq.acked[p] <= sq'.acked[p]
    BY <1>3 DEF Acknowledged
  <2>4. /\ \A k \in DOMAIN sq.reports : k \notin DOMAIN sq'.reports =>
             \A p \in Seats : sq.active[p] => k[1] + 1 < sq'.acked[p]
        /\ \A k \in DOMAIN sq.referee : k \notin DOMAIN sq'.referee =>
             \A p \in Seats : sq.active[p] => k + 1 < sq'.acked[p]
    BY <1>3 DEF Acknowledged
  <2> QED  BY <1>2, <2>1, <2>2, <2>3, <2>4 DEF Calm
<1>6. Handled(g) \subseteq Handled(g)'
  BY <1>4, <1>5, CalmHandled
<1>7. ASSUME NEW u \in Nat, Hashed(u), u < sq'.acked[g] PROVE u \in Handled(g)'
  <2>1. CASE u < sq.acked[g]
    BY <1>4, <1>6, <1>7, <2>1 DEF GuestTold
  <2>2. CASE ~(u < sq.acked[g])
    <3>1. sq.acked[g] \in Nat /\ sq'.acked[g] \in Nat
      BY <1>1 DEF IInv, HostOK, SequencerType
    <3>2. u <= turn
      BY <1>3, <1>7, <2>2, <3>1
    <3>3. 1 \in 1 .. Len(toHost[g])
      <4>1. Len(toHost[g]) \in Nat \ {0}
        BY TailOf
      <4> QED  BY <4>1
    <3>4. Preceded(toHost[g], Handled(g))
      BY <1>4 DEF GuestTold
    <3>5. u \in Handled(g) \/ \E j \in 1 .. 1 - 1 : IsHash(toHost[g][j], u)
      BY <1>7, <3>2, <3>3, <3>4 DEF Preceded
    <3> QED  BY <1>6, <3>5
  <2> QED  BY <2>1, <2>2
<1>8. \A u \in Nat : Hashed(u) /\ IsHash(toHost[g][1], u) => u \in Handled(g)'
  BY DEF IsHash
<1> QED  BY <1>2, <1>3, <1>5, <1>7, <1>8, ReadFound

\* A report: it waits for the host's, or it is compared with it.
LEMMA HashFound ==
  ASSUME RefereeIsKept, IInv, IInv', LagInv, TruthInv, FoundInv, NEW g \in Guests,
         present[g], toHost[g] # <<>>,
         NEW inbox, inbox = [toHost EXCEPT ![g] = Tail(@)],
         toHost[g][1].type = "Hash", UNCHANGED <<ran, astray, mode>>,
         NEW turn \in Nat, turn = toHost[g][1].turn, NEW hash, hash = toHost[g][1].hash,
         HostHash(g, turn, hash, inbox)
  PROVE  FoundInv'
<1>1. SequencerType(sq) /\ g \in Seats /\ g \in Machines /\ g # HostSeat /\ HostSeat \in Machines
  BY Numbers
<1>2. /\ sq' = OnHash(sq, g, turn, hash) /\ toHost' = inbox /\ UNCHANGED <<present, wire>>
      /\ Found(turn, HashDesyncs(sq', g, turn))
  BY DEF HostHash
<1>3. turn < ran[g] /\ hash = Hash(g, turn)
  <2>1. 1 \in 1 .. Len(toHost[g])
    <3>1. Len(toHost[g]) \in Nat \ {0}
      BY TailOf
    <3> QED  BY <3>1
  <2>2. TrueHash(g, toHost[g][1])
    BY <2>1 DEF TruthInv, TrueHashes
  <2> QED  BY <2>2 DEF TrueHash
<1>4. TakesReport(sq, g, turn)
  <2>1. sq.active[g]
    BY DEF LagInv, Awaited
  <2>2. ran[g] \in Nat /\ Len(got[g]) \in Nat /\ ran[g] <= Len(got[g])
    BY <1>1, RunOfGot, LenProperties DEF IInv, TurnsOK
  <2>3. Len(log) \in Nat /\ Len(got[g]) <= Len(log) /\ Len(log) = sq.nextTurn
    BY <1>1, LenProperties DEF IInv, TurnsOK, Agreement
  <2>4. turn < sq.nextTurn
    BY <1>3, <2>2, <2>3
  <2> QED  BY <2>1, <2>4 DEF TakesReport
<1>5. /\ sq'.nextTurn = sq.nextTurn /\ sq'.active = sq.active /\ sq'.acked = sq.acked
      /\ sq'.referee = sq.referee /\ sq'.reports = With(sq.reports, <<turn, g>>, hash)
  BY <1>1, <1>2, <1>4, OnHashFields
<1>6. /\ <<turn, g>> \in DOMAIN sq'.reports /\ sq'.reports[<<turn, g>>] = hash
      /\ \A k \in DOMAIN sq.reports : /\ k \in DOMAIN sq'.reports
                                      /\ k # <<turn, g>> => sq'.reports[k] = sq.reports[k]
  BY <1>5 DEF With
<1>7. TakesReport(sq', g, turn)
  BY <1>4, <1>5 DEF TakesReport
<1>8. /\ frozen => frozen'
      /\ named' = named \cup HashDesyncs(sq', g, turn)
      /\ HashDesyncs(sq', g, turn) # {} => frozen'
  BY <1>2 DEF Found
<1>9. OwnInv /\ GuestTold(g)
  BY DEF FoundInv
<1>10. Calm
  <2>1. PastKept
    BY PastIsKept
  <2>2. \A p \in Own : sq'.active[p] /\ sq'.acked[p] = sq.acked[p]
    BY <1>5, <1>9 DEF OwnInv, OwnStay
  <2>3. \A p \in Seats : sq.acked[p] <= sq'.acked[p]
    <3>1. \A p \in Seats : sq.acked[p] \in Nat
      BY Numbers
    <3> QED  BY <1>5, <3>1
  <2> QED  BY <1>5, <1>6, <1>8, <2>1, <2>2, <2>3 DEF Calm
<1>11. Handled(g) \subseteq Handled(g)'
  BY <1>9, <1>10, CalmHandled
<1>12. ASSUME Hashed(turn) PROVE turn \in Handled(g)'
  <2>1. CASE ran[HostSeat] <= turn
    BY <1>6, <1>12, <2>1 DEF Handled, Waits, Hashed
  <2>2. CASE turn < sq.acked[g]
    BY <1>9, <1>11, <1>12, <2>2 DEF GuestTold
  <2>3. CASE ~(ran[HostSeat] <= turn) /\ ~(turn < sq.acked[g])
    <3>1. ran[HostSeat] \in Nat /\ sq.acked[g] \in Nat
      BY <1>1, Numbers
    <3>2. turn < ran[HostSeat] /\ ~(turn + 1 < sq.acked[g])
      BY <2>3, <3>1
    <3>3. OwnHave(turn)
      <4>1. ~Passed(turn)
        BY <1>1, <1>4, <3>2 DEF Passed, TakesReport
      <4> QED  BY <1>9, <1>12, <3>2, <4>1 DEF OwnInv, OwnKept
    <3>4. ASSUME hash # Hash(HostSeat, turn) PROVE g \in HashDesyncs(sq', g, turn)
      <4>1. CASE Seatless
        <5>1. turn \in DOMAIN sq'.referee /\ sq'.referee[turn] = Hash(HostSeat, turn)
          BY <1>5, <3>3, <4>1 DEF OwnHave, TruthInv, TrueReferee
        <5>2. sq'.reports[<<turn, g>>] # sq'.referee[turn]
          BY <1>6, <3>4, <5>1
        <5> QED  BY <1>7, <4>1, <5>1, <5>2 DEF HashDesyncs
      <4>2. CASE ~Seatless
        <5>1. PICK k : k = <<turn, HostSeat>>
          OBVIOUS
        <5>2. k \in DOMAIN sq.reports /\ k[1] = turn /\ k[2] = HostSeat /\ k # <<turn, g>>
          BY <1>1, <3>3, <4>2, <5>1 DEF OwnHave
        <5>3. sq.reports[k] = Hash(HostSeat, turn)
          BY <5>2 DEF TruthInv, TrueReports
        <5>4. k \in DOMAIN sq'.reports /\ sq'.reports[k] = Hash(HostSeat, turn)
          BY <1>6, <5>2, <5>3
        <5>5. HostSeat \in Reported(sq', turn) /\ g \in Reported(sq', turn) \ {HostSeat}
          BY <1>1, <1>6, <4>2, <5>1, <5>4 DEF Reported, Seatless
        <5>6. sq'.reports[<<turn, g>>] # sq'.reports[<<turn, HostSeat>>]
          BY <1>6, <3>4, <5>1, <5>4
        <5> QED  BY <1>7, <4>2, <5>5, <5>6 DEF HashDesyncs
      <4> QED  BY <4>1, <4>2
    <3>5. Hash(g, turn)' = Hash(g, turn) /\ Hash(HostSeat, turn)' = Hash(HostSeat, turn)
      BY DEF Hash
    <3>6. Hash(g, turn)' # Hash(HostSeat, turn)' => frozen' /\ g \in named'
      BY <1>3, <1>8, <3>4, <3>5
    <3>7. Settled(g, turn)'
      BY <1>3, <3>2, <3>6 DEF Settled
    <3> QED  BY <1>12, <3>7 DEF Handled, Hashed
  <2> QED  BY <2>1, <2>2, <2>3
<1>13. \A u \in Nat : Hashed(u) /\ IsHash(toHost[g][1], u) => u \in Handled(g)'
  BY <1>12 DEF IsHash
<1>14. \A u \in Nat : Hashed(u) /\ u < sq'.acked[g] => u \in Handled(g)'
  BY <1>5, <1>9, <1>11 DEF GuestTold
<1>15. \A p \in Seats \ {g} : sq'.acked[p] = sq.acked[p]
  BY <1>5
<1> QED  BY <1>2, <1>10, <1>13, <1>14, <1>15, ReadFound

LEMMA HostHearsFound ==
  ASSUME RefereeIsKept, IInv, IInv', LagInv, TruthInv, FoundInv, NEW g \in Guests, HostHears(g)
  PROVE  FoundInv'
<1>1. PICK m \in ToHostMsg, inbox \in [Guests -> Seq(ToHostMsg)] :
        /\ present[g] /\ toHost[g] # <<>> /\ m = toHost[g][1]
        /\ inbox = [toHost EXCEPT ![g] = Tail(@)]
        /\ UNCHANGED <<log, holdup, mode, desynced, got, ran, clicked, astray>>
        /\ \/ m.type = "Command" /\ m.command \in Command /\ HostCommand(g, m.command, inbox)
           \/ m.type = "TurnAck" /\ m.turn \in Nat /\ HostAck(g, m.turn, inbox)
           \/ /\ m.type = "Hash" /\ m.turn \in Nat
              /\ HostHash(g, m.turn, m.hash, inbox)
           \/ m.type = "Leave" /\ HostLeave(g)
  BY HeardMessage
<1>2. UNCHANGED <<ran, astray, mode>>
  BY <1>1
<1>3. CASE m.type = "Command" /\ m.command \in Command /\ HostCommand(g, m.command, inbox)
  BY <1>1, <1>2, <1>3, CommandFound
<1>4. CASE m.type = "TurnAck" /\ m.turn \in Nat /\ HostAck(g, m.turn, inbox)
  BY <1>1, <1>2, <1>4, AckFound
<1>5. CASE m.type = "Hash" /\ m.turn \in Nat /\ HostHash(g, m.turn, m.hash, inbox)
  BY <1>1, <1>2, <1>5, HashFound
<1>6. CASE m.type = "Leave" /\ HostLeave(g)
  <2>1. DropGuest(g) /\ UNCHANGED <<frozen, named>>
    BY <1>6 DEF HostLeave
  <2> QED  BY <1>2, <2>1, DropGuestFound
<1> QED  BY <1>1, <1>3, <1>4, <1>5, <1>6

\* The host runs a turn.  A report of it waits until then, for the host's own seats have not
\* passed it, and is compared now.
RunKeeps(turn, players) ==
  /\ turn \in Nat /\ turn = ran[HostSeat] /\ ran' = [ran EXCEPT ![HostSeat] = turn + 1]
  /\ UNCHANGED <<present, wire, toHost, mode, astray>>
  /\ sq'.active = sq.active
  /\ \A p \in Seats : sq.acked[p] <= sq'.acked[p]
  /\ \A p \in Seats \ Own : sq'.acked[p] = sq.acked[p]
  /\ \A p \in Own : sq'.acked[p] = sq.acked[p] \/ sq'.acked[p] <= turn + 1
  /\ \A k \in DOMAIN sq.reports : k \notin DOMAIN sq'.reports =>
       \A p \in Seats : sq.active[p] => k[1] + 1 < sq'.acked[p]
  /\ \A k \in DOMAIN sq.referee : k \notin DOMAIN sq'.referee =>
       \A p \in Seats : sq.active[p] => k + 1 < sq'.acked[p]
  /\ frozen => frozen'
  /\ named \subseteq named'
  /\ Hashed(turn) =>
       /\ players \subseteq named' /\ (players # {} => frozen')
       /\ IF Seatless
          THEN TakesReferee(sq', turn) /\ turn \in DOMAIN sq'.referee /\ players = RefereeDesyncs(sq', turn)
          ELSE TakesReport(sq', HostSeat, turn) /\ <<turn, HostSeat>> \in DOMAIN sq'.reports
               /\ players = HashDesyncs(sq', HostSeat, turn)

LEMMA HostRunsKeeps ==
  ASSUME RefereeIsKept, RefereeKeepsUp, IInv, LagInv, HostRuns
  PROVE  \E turn, players : RunKeeps(turn, players)
<1>1. PICK turn, acked, reported, players : RunStep(turn, acked, reported, players)
  BY HostRunsSteps
<1>2. /\ turn \in Nat /\ turn = ran[HostSeat] /\ turn < Len(log)
      /\ ran' = [ran EXCEPT ![HostSeat] = turn + 1]
      /\ UNCHANGED <<present, wire, toHost, mode, astray>>
      /\ Acknowledged(sq, acked)
      /\ \A p \in Seats \ (Bots \cup {HostSeat}) : acked.acked[p] = sq.acked[p]
      /\ \A p \in Seats \cap (Bots \cup {HostSeat}) :
            acked.acked[p] = sq.acked[p] \/ acked.acked[p] <= turn + 1
  BY <1>1 DEF RunStep
<1>3. /\ SequencerType(acked) /\ acked.active = sq.active /\ acked.nextTurn = sq.nextTurn
      /\ \A p \in Seats : sq.acked[p] <= acked.acked[p]
      /\ \A k \in DOMAIN sq.reports : k \notin DOMAIN acked.reports =>
           \A p \in Seats : sq.active[p] => k[1] + 1 < acked.acked[p]
      /\ \A k \in DOMAIN sq.referee : k \notin DOMAIN acked.referee =>
           \A p \in Seats : sq.active[p] => k + 1 < acked.acked[p]
  BY <1>2 DEF Acknowledged
<1>4. turn < acked.nextTurn
  BY <1>2, <1>3 DEF IInv, TurnsOK
<1>5. /\ \A p \in Seats \ Own : acked.acked[p] = sq.acked[p]
      /\ \A p \in Own : acked.acked[p] = sq.acked[p] \/ acked.acked[p] <= turn + 1
  BY <1>2, OwnSeats
<1>6. CASE (turn + 1) % HashEvery # 0 /\ sq' = acked /\ UNCHANGED <<frozen, named, toGuest>>
  <2>1. ~Hashed(turn)
    BY <1>6 DEF Hashed
  <2>2. RunKeeps(turn, players)
    BY <1>2, <1>3, <1>5, <1>6, <2>1 DEF RunKeeps
  <2> QED  BY <2>2
<1>7. CASE sq' = reported /\ Found(turn, players)
  <2>1. /\ frozen => frozen'
        /\ named' = named \cup players
        /\ players # {} => frozen'
    BY <1>7 DEF Found
  <2>2. PICK hash : hash = Hash(HostSeat, turn)
    OBVIOUS
  <2>3. CASE Seatless
    <3>1. sq' = OnRefereeHash(acked, turn, hash) /\ players = RefereeDesyncs(sq', turn)
      BY <1>1, <1>7, <2>2, <2>3 DEF RunStep
    <3>2. TakesReferee(acked, turn)
      <4>1. sq.nextTurn <= turn + RefereeWindow /\ RefereeWindow \in Nat /\ sq.nextTurn \in Nat
        BY <1>2, <2>3, Numbers, SequencerAssumption DEF RefereeKeepsUp
      <4>3. turn + RefereeWindow >= acked.nextTurn
        BY <1>2, <1>3, <4>1
      <4> QED  BY <1>4, <2>3, <4>3 DEF TakesReferee
    <3>3. /\ sq'.nextTurn = acked.nextTurn /\ sq'.active = acked.active /\ sq'.acked = acked.acked
          /\ sq'.reports = acked.reports /\ sq'.referee = With(acked.referee, turn, hash)
      BY <1>2, <1>3, <3>1, <3>2, OnRefereeHashFields
    <3>4. DOMAIN acked.referee \subseteq DOMAIN sq'.referee /\ turn \in DOMAIN sq'.referee
      BY <3>3 DEF With
    <3>5. TakesReferee(sq', turn)
      BY <3>2, <3>3 DEF TakesReferee
    <3>6. \A k \in DOMAIN sq.referee : k \notin DOMAIN sq'.referee =>
           \A p \in Seats : sq.active[p] => k + 1 < sq'.acked[p]
      BY <1>3, <3>3, <3>4
    <3>7. RunKeeps(turn, players)
      BY <1>2, <1>3, <1>5, <2>1, <2>3, <3>1, <3>3, <3>4, <3>5, <3>6 DEF RunKeeps
    <3> QED  BY <3>7
  <2>4. CASE ~Seatless
    <3>0. HostSeat \in Seats
      BY <2>4 DEF Seatless
    <3>1. sq' = OnHash(acked, HostSeat, turn, hash) /\ players = HashDesyncs(sq', HostSeat, turn)
      BY <1>1, <1>7, <2>2, <2>4 DEF RunStep
    <3>2. TakesReport(acked, HostSeat, turn)
      BY <1>3, <1>4, <2>4 DEF TakesReport, LagInv, Awaited
    <3>3. /\ sq'.nextTurn = acked.nextTurn /\ sq'.active = acked.active /\ sq'.acked = acked.acked
          /\ sq'.referee = acked.referee
          /\ sq'.reports = With(acked.reports, <<turn, HostSeat>>, hash)
      BY <1>2, <1>3, <3>0, <3>1, <3>2, OnHashFields
    <3>4. DOMAIN acked.reports \subseteq DOMAIN sq'.reports /\ <<turn, HostSeat>> \in DOMAIN sq'.reports
      BY <3>3 DEF With
    <3>5. TakesReport(sq', HostSeat, turn)
      BY <3>2, <3>3 DEF TakesReport
    <3>6. \A k \in DOMAIN sq.reports : k \notin DOMAIN sq'.reports =>
           \A p \in Seats : sq.active[p] => k[1] + 1 < sq'.acked[p]
      BY <1>3, <3>3, <3>4
    <3>7. RunKeeps(turn, players)
      BY <1>2, <1>3, <1>5, <2>1, <2>4, <3>1, <3>3, <3>4, <3>5, <3>6 DEF RunKeeps
    <3> QED  BY <3>7
  <2> QED  BY <2>3, <2>4
<1> QED  BY <1>1, <1>6, <1>7 DEF RunStep

\* run_local()
LEMMA HostRunsFound ==
  ASSUME RefereeIsKept, RefereeKeepsUp, IInv, IInv', LagInv, TruthInv', FoundInv, HostRuns
  PROVE  FoundInv'
<1>1. PICK turn, players : RunKeeps(turn, players)
  BY HostRunsKeeps
<1>2. /\ turn \in Nat /\ turn = ran[HostSeat] /\ ran' = [ran EXCEPT ![HostSeat] = turn + 1]
      /\ UNCHANGED <<present, wire, toHost, mode, astray>>
      /\ sq'.active = sq.active
      /\ \A p \in Seats : sq.acked[p] <= sq'.acked[p]
      /\ \A p \in Seats \ Own : sq'.acked[p] = sq.acked[p]
  BY <1>1 DEF RunKeeps
<1>3. HostSeat \in Machines /\ ran \in [Machines -> Nat] /\ turn + 1 \in Nat /\ ran[HostSeat] <= turn + 1
  BY <1>2, Numbers
<1>4. ran'[HostSeat] = turn + 1 /\ \A m \in Machines \ {HostSeat} : ran'[m] = ran[m]
  BY <1>2, <1>3
<1>5. PastKept
  BY <1>2, <1>3, RunningKeepsPast
<1>6. OwnInv /\ OwnStay /\ OwnKept
  BY DEF FoundInv, OwnInv
<1>7. sq.acked \in [Seats -> Nat] /\ sq'.acked \in [Seats -> Nat]
  BY DEF IInv, HostOK, SequencerType
<1>8. OwnStay'
  <2>1. ASSUME NEW p \in Own PROVE sq'.active[p] /\ sq'.acked[p] <= turn + 1
    <3>1. sq.active[p] /\ sq.acked[p] <= turn
      BY <1>2, <1>6 DEF OwnStay
    <3>2. sq'.acked[p] = sq.acked[p] \/ sq'.acked[p] <= turn + 1
      BY <1>1 DEF RunKeeps
    <3>3. sq.acked[p] \in Nat
      BY <1>7, OwnSeats
    <3> QED  BY <1>2, <3>1, <3>2, <3>3
  <2> QED  BY <1>4, <2>1 DEF OwnStay
<1>9. ASSUME NEW u \in Nat, Hashed(u), u < turn + 1, ~OwnHave(u)', NEW p \in Seats, sq'.active[p]
      PROVE  u + 1 < sq'.acked[p]
  <2>1. u # turn
    BY <1>1, <1>9 DEF RunKeeps, OwnHave
  <2>2. u < ran[HostSeat]
    BY <1>2, <1>9, <2>1
  <2>3. sq.active[p] /\ sq.acked[p] <= sq'.acked[p] /\ sq.acked[p] \in Nat /\ sq'.acked[p] \in Nat
    BY <1>2, <1>7, <1>9
  <2>4. CASE Passed(u)
    <3>1. u + 1 < sq.acked[p]
      BY <2>3, <2>4 DEF Passed
    <3> QED  BY <2>3, <3>1
  <2>5. CASE OwnHave(u) /\ Seatless
    <3>1. u \in DOMAIN sq.referee /\ u \notin DOMAIN sq'.referee
      BY <1>9, <2>5 DEF OwnHave
    <3> QED  BY <1>1, <2>3, <3>1 DEF RunKeeps
  <2>6. CASE OwnHave(u) /\ ~Seatless
    <3>1. <<u, HostSeat>> \in DOMAIN sq.reports /\ <<u, HostSeat>> \notin DOMAIN sq'.reports
      BY <1>9, <2>6 DEF OwnHave
    <3>2. <<u, HostSeat>>[1] + 1 < sq'.acked[p]
      BY <1>1, <2>3, <3>1 DEF RunKeeps
    <3> QED  BY <3>2
  <2> QED  BY <1>6, <1>9, <2>2, <2>4, <2>5, <2>6 DEF OwnKept
<1>10. OwnKept'
  BY <1>4, <1>9 DEF OwnKept, Passed, Hashed
<1>11. ASSUME NEW g \in Guests, NEW u \in Nat, Hashed(u), Waits(g, u) \/ Settled(g, u)
       PROVE  Waits(g, u)' \/ Settled(g, u)'
  <2>1. g \in Machines /\ HostSeat \in Machines /\ g # HostSeat /\ g \in Seats
    BY Numbers
  <2>2. ran[g] \in Nat /\ ran'[g] = ran[g]
    BY <1>3, <1>4, <2>1
  <2>3. CASE Settled(g, u)
    <3>1. /\ u < turn /\ u < ran[g]
          /\ Hash(g, u) # Hash(HostSeat, u) => frozen /\ g \in named
      BY <1>2, <2>3 DEF Settled
    <3>2. Hash(g, u)' = Hash(g, u) /\ Hash(HostSeat, u)' = Hash(HostSeat, u)
      BY <1>2 DEF Hash
    <3>3. Hash(g, u)' # Hash(HostSeat, u)' => frozen' /\ g \in named'
      BY <1>1, <3>1, <3>2 DEF RunKeeps
    <3>4. u < ran'[HostSeat] /\ u < ran'[g]
      BY <1>2, <1>4, <2>2, <3>1
    <3> QED  BY <3>3, <3>4 DEF Settled
  <2>4. CASE Waits(g, u)
    <3>1. turn <= u /\ <<u, g>> \in DOMAIN sq.reports
      BY <1>2, <2>4 DEF Waits
    <3>2. PICK p \in Own : p \in Seats
      BY OwnSeats
    <3>3. sq'.active[p] /\ sq'.acked[p] <= turn + 1 /\ sq'.acked[p] \in Nat /\ sq.active[p]
      BY <1>2, <1>4, <1>7, <1>8, <3>2 DEF OwnStay
    <3>4. ~(u + 1 < sq'.acked[p])
      BY <1>2, <3>1, <3>3
    <3>5. <<u, g>>[1] = u
      OBVIOUS
    <3>6. <<u, g>> \in DOMAIN sq'.reports
      BY <1>1, <3>1, <3>2, <3>3, <3>4, <3>5 DEF RunKeeps
    <3>7. CASE turn + 1 <= u
      BY <1>4, <3>6, <3>7 DEF Waits
    <3>8. CASE ~(turn + 1 <= u)
      <4>1. u = turn
        BY <1>2, <3>1, <3>8
      <4>2. PICK k : k = <<u, g>>
        OBVIOUS
      <4>8. k[1] = u /\ k[2] = g
        BY <4>2
      <4>3. u < ran'[g] /\ sq'.reports[<<u, g>>] = Hash(g, u)'
        BY <3>6, <4>2, <4>8 DEF TruthInv, TrueReports, Machines, Hash
      <4>4. g \in Reported(sq', u)
        BY <2>1, <3>6 DEF Reported
      <4>5. ASSUME Hash(g, u)' # Hash(HostSeat, u)' PROVE g \in players
        <5>1. CASE Seatless
          <6>1. /\ TakesReferee(sq', u) /\ u \in DOMAIN sq'.referee
                /\ players = RefereeDesyncs(sq', u)
            BY <1>1, <1>11, <4>1, <5>1 DEF RunKeeps
          <6>2. sq'.referee[u] = Hash(HostSeat, u)'
            BY <6>1 DEF TruthInv, TrueReferee
          <6> QED  BY <4>3, <4>4, <4>5, <6>1, <6>2 DEF RefereeDesyncs
        <5>2. CASE ~Seatless
          <6>1. /\ TakesReport(sq', HostSeat, u) /\ <<u, HostSeat>> \in DOMAIN sq'.reports
                /\ players = HashDesyncs(sq', HostSeat, u)
            BY <1>1, <1>11, <4>1, <5>2 DEF RunKeeps
          <6>2. PICK h : h = <<u, HostSeat>>
            OBVIOUS
          <6>6. h[1] = u /\ h[2] = HostSeat
            BY <6>2
          <6>3. sq'.reports[<<u, HostSeat>>] = Hash(HostSeat, u)'
            BY <6>1, <6>2, <6>6 DEF TruthInv, TrueReports, Machines, Hash
          <6>4. HostSeat \in Reported(sq', u) /\ g \in Reported(sq', u) \ {HostSeat}
            BY <2>1, <4>4, <5>2, <6>1 DEF Reported, Seatless
          <6>5. sq'.reports[<<u, g>>] # sq'.reports[<<u, HostSeat>>]
            BY <4>3, <4>5, <6>3
          <6> QED  BY <5>2, <6>1, <6>4, <6>5 DEF HashDesyncs
        <5> QED  BY <5>1, <5>2
      <4>6. Hash(g, u)' # Hash(HostSeat, u)' => frozen' /\ g \in named'
        BY <1>1, <1>11, <4>1, <4>5 DEF RunKeeps
      <4>7. u < ran'[HostSeat]
        BY <1>2, <1>4, <4>1
      <4> QED  BY <4>3, <4>6, <4>7 DEF Settled
    <3> QED  BY <3>7, <3>8
  <2> QED  BY <1>11, <2>3, <2>4
<1>12. ASSUME NEW g \in Guests PROVE GuestTold(g)'
  <2>1. PICK dealt : dealt = Handled(g)
    OBVIOUS
  <2>2. dealt \subseteq Handled(g)'
    BY <1>11, <2>1 DEF Handled, Hashed
  <2>3. g \in Seats \ Own /\ g \in Machines \ {HostSeat}
    BY OwnSeats, Numbers
  <2>4. sq'.acked[g] = sq.acked[g] /\ ran'[g] = ran[g]
    BY <1>2, <1>4, <2>3
  <2>5. GuestTold(g)
    BY DEF FoundInv
  <2>6. present'[g] =>
           /\ \A u \in Nat : Hashed(u) /\ u < sq'.acked[g] => u \in dealt
           /\ Preceded(toHost'[g], dealt)
           /\ mode'[g] = "Normal" /\ wire'[g] => Told(toHost'[g], dealt, ran'[g])
    BY <1>2, <2>1, <2>4, <2>5 DEF GuestTold
  <2> QED  BY <2>2, <2>6, ToldBy
<1> QED  BY <1>8, <1>10, <1>12 DEF FoundInv, OwnInv

LEMMA NextFound ==
  ASSUME RefereeIsKept, RefereeKeepsUp, IInv, IInv', LagInv, TruthInv, TruthInv', FoundInv,
         [Next]_vars
  PROVE  FoundInv'
<1>1. CASE HostStep
  <2>1. CASE HostSeals
    BY <2>1, HostSealsFound
  <2>2. CASE HostWaits
    BY <2>2, HostWaitsFound
  <2>3. CASE HostRuns
    BY <2>3, HostRunsFound
  <2>4. ASSUME NEW p \in Seats, HostClicks(p) PROVE FoundInv'
    BY <2>4, HostClicksFound
  <2>5. ASSUME NEW g \in Guests, HostHears(g) PROVE FoundInv'
    BY <2>5, HostHearsFound
  <2>6. ASSUME NEW g \in Guests,
               HostFindsClosed(g) \/ HostSendFails(g) \/ HostSilence(g) \/ HostPolice(g)
        PROVE  FoundInv'
    <3>1. DropGuest(g) /\ UNCHANGED <<ran, astray, frozen, named, mode>>
      BY <2>6 DEF HostFindsClosed, HostSendFails, HostSilence, HostPolice, LosesGuest, guestVars
    <3> QED  BY <3>1, DropGuestFound
  <2> QED  BY <1>1, <2>1, <2>2, <2>3, <2>4, <2>5, <2>6 DEF HostStep
<1>2. ASSUME NEW g \in Guests, GuestStep(g) \/ Breaks(g) PROVE FoundInv'
  BY <1>2, GuestStepFound
<1>3. ASSUME PastKept, UNCHANGED <<sq, toHost, present, frozen, named, ran, mode, wire>>
      PROVE  FoundInv'
  <2>1. \A p \in Seats : sq.acked[p] \in Nat
    BY Numbers
  <2>2. \A p \in Own : sq.active[p]
    BY DEF FoundInv, OwnInv, OwnStay
  <2>3. Calm
    BY <1>3, <2>1, <2>2 DEF Calm
  <2>4. \A g \in Guests : Apart(g)
    BY <1>3 DEF Apart
  <2> QED  BY <2>3, <2>4, CalmStep
<1>4. ASSUME NEW m \in Machines, GoesAstray(m) PROVE FoundInv'
  <2>1. PastKept
    BY <1>4, AstrayKeepsPast
  <2> QED  BY <1>3, <1>4, <2>1 DEF GoesAstray, hostVars, linkVars, guestVars
<1>5. CASE UNCHANGED vars
  <2>1. PastKept
    BY <1>5, PastIsKept DEF vars
  <2> QED  BY <1>3, <1>5, <2>1 DEF vars, hostVars, linkVars, guestVars
<1> QED  BY <1>1, <1>2, <1>4, <1>5 DEF Next

LEMMA InitFound == ASSUME RefereeIsKept, Init PROVE FoundInv
<1>1. /\ \A g \in Guests : toHost[g] = <<>>
      /\ \A m \in Machines : ran[m] = 0
      /\ \A p \in Seats : sq.acked[p] = 0 /\ sq.active[p]
  BY DEF Init, NewSequencer
<1>2. HostSeat \in Machines /\ Guests \subseteq Machines /\ Guests \subseteq Seats
  BY Players
<1>3. Len(<<>>) = 0
  BY EmptySeq
<1>4. OwnInv
  BY <1>1, <1>2, OwnSeats DEF OwnInv, OwnStay, OwnKept
<1>5. ASSUME NEW g \in Guests PROVE GuestTold(g)
  <2>1. \A i \in 1 .. Len(toHost[g]) : FALSE
    BY <1>1, <1>3
  <2>2. Preceded(toHost[g], Handled(g))
    BY <2>1 DEF Preceded
  <2>3. \A u \in Nat : ~(u < 0)
    OBVIOUS
  <2>4. sq.acked[g] = 0 /\ ran[g] = 0
    BY <1>1, <1>2
  <2>5. Told(toHost[g], Handled(g), ran[g])
    BY <2>3, <2>4 DEF Told
  <2> QED  BY <2>2, <2>3, <2>4, <2>5 DEF GuestTold
<1> QED  BY <1>4, <1>5 DEF FoundInv

\* What was compared and differs has stopped the match.
LEMMA FoundIsDivergence == ASSUME RefereeIsKept, IInv, FoundInv PROVE DivergenceFound
<1> SUFFICES ASSUME NEW g \in Guests, present[g], NEW turn \in 0 .. Len(log) - 1,
                    Compared(g, turn), Hash(g, turn) # Hash(HostSeat, turn)
             PROVE  frozen /\ g \in named
  BY DEF DivergenceFound
<1>1. turn \in Nat /\ ran[HostSeat] \in Nat /\ sq.acked[g] \in Nat
  <2>1. Len(log) \in Nat
    BY LenProperties DEF IInv, TurnsOK
  <2> QED  BY <2>1, Numbers
<1>2. Hashed(turn) /\ turn < sq.acked[g] /\ turn < ran[HostSeat]
  BY <1>1 DEF Compared, Hashed
<1>3. turn \in Handled(g)
  BY <1>1, <1>2 DEF FoundInv, GuestTold
<1>4. ~(ran[HostSeat] <= turn)
  BY <1>1, <1>2
<1> QED  BY <1>3, <1>4 DEF Handled, Waits, Settled

\* While the referee, if there is one, keeps up, divergences are found.
LEMMA FoundWhileUp ==
  ASSUME RefereeIsKept
  PROVE  Spec /\ []RefereeKeepsUp => []DivergenceFound
<1>1. Init => IInv /\ LagInv /\ TruthInv /\ FoundInv
  BY InitIInv, InitLag, InitTruth, InitFound
<1>2. IInv /\ LagInv /\ TruthInv /\ FoundInv /\ RefereeKeepsUp /\ [Next]_vars
        => (IInv /\ LagInv /\ TruthInv /\ FoundInv)'
  <2> SUFFICES ASSUME IInv, LagInv, TruthInv, FoundInv, RefereeKeepsUp, [Next]_vars
               PROVE  (IInv /\ LagInv /\ TruthInv /\ FoundInv)'
    OBVIOUS
  <2>1. IInv'
    BY NextIInv
  <2>2. LagInv'
    BY NextLag
  <2>3. TruthInv'
    BY <2>1, NextTruth
  <2>4. FoundInv'
    BY <2>1, <2>3, NextFound
  <2> QED  BY <2>1, <2>2, <2>3, <2>4
<1>3. IInv /\ FoundInv => DivergenceFound
  BY FoundIsDivergence
<1> QED  BY <1>1, <1>2, <1>3, PTL DEF Spec

\* Who plays another game than a host that is a player is found out (Sequencer::on_hash, and
\* on_ack, which forgets reports): whatever order the reports and the acknowledgements come in,
\* once the host knows that a guest has run a turn of which a hash is taken, and has run it
\* itself, a guest whose hash differs is named and the match stopped.
THEOREM DivergencesAreFound ==
  ASSUME ~Seatless
  PROVE  Spec => []DivergenceFound
<1>1. RefereeIsKept
  BY DEF RefereeIsKept
<1>2. RefereeKeepsUp
  BY DEF RefereeKeepsUp
<1>3. Spec /\ []RefereeKeepsUp => []DivergenceFound
  BY <1>1, FoundWhileUp
<1> QED  BY <1>2, <1>3, PTL

\* So it is with a dedicated server that plays for a bot (on_referee_hash), as long as its
\* referee is never further back than the referee's window.
THEOREM RefereeFindsDivergences ==
  ASSUME Bots # {}
  PROVE  Spec /\ []RefereeKeepsUp => []DivergenceFound
BY FoundWhileUp DEF RefereeIsKept
=============================================================================
