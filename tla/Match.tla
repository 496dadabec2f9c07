-------------------------------- MODULE Match --------------------------------
(***************************************************************************)
(* A match in lock step: the host's session (HostSession of a host that    *)
(* holds no seats for players who are away), the sessions of its guests    *)
(* (ClientSession in its normal mode, no host migration, no reconnect),    *)
(* the runners that execute the turns, and the links between them.         *)
(*                                                                         *)
(* HostSeat in Seats: a player hosts.  Otherwise a dedicated server does:  *)
(* its runner, the referee, is the machine HostSeat, and it waits for      *)
(* nobody.                                                                 *)
(*                                                                         *)
(* A step of a process is one message, one executed turn, one pass of the  *)
(* sealing; update() of the code runs them in a fixed order, the model in  *)
(* any.  What the code decides by a clock (silence, the time a laggard is  *)
(* given) may happen at any moment.  Chat, pings and lag notices change    *)
(* nothing of a match; that a send of one of them can find out that a link *)
(* is gone is HostSendFails.                                               *)
(***************************************************************************)
EXTENDS Sequencer

CONSTANTS Guests,          \* the seats of the guests
          Bots,            \* the seats that the host plays for
          LaggardDrop,     \* laggard_drop_ms is not 0
          StartDelay,      \* start_delay_ms is not 0
          ViolationLimit,  \* Config::violation_limit
          HashEvery,       \* kHashEveryTurns
          Nobody,          \* no seat (kNoSeat)
          MaxTurns,        \* bound: the turns of the match
          MaxCommands,     \* bound: the commands that a seat gives
          MaxBroken        \* bound: the machines whose game goes astray

ASSUME MatchAssumption ==
  /\ Seats = Guests \cup Bots \cup ({HostSeat} \cap Seats)
  /\ Guests \cap Bots = {} /\ HostSeat \notin Guests \cup Bots
  /\ Command = 1 .. MaxCommands
  /\ LaggardDrop \in BOOLEAN /\ StartDelay \in BOOLEAN
  /\ Nobody \notin Seats
  /\ ViolationLimit \in Nat \ {0} /\ HashEvery \in Nat \ {0}
  /\ MaxTurns \in Nat /\ MaxCommands \in Nat /\ MaxBroken \in Nat

Machines == Guests \cup {HostSeat}

VARIABLES
  \* the host
  sq,          \* its sequencer
  log,         \* history: the turns sealed, in order
  present,     \* per guest: Client::present
  violations,  \* per guest: Client::violations
  frozen,      \* two machines no longer play the same game: no more turns
  holdup,      \* stall_player_: the seat that was found to hold the sealing up
  named,       \* the seats that a desync named
  \* the links
  wire,        \* per guest: the connection stands
  toHost, toGuest,
  \* the machines
  mode,        \* per guest: Normal or Lost
  desynced,    \* per guest: it was told of a desync
  got,         \* per machine: the turns its runner has taken
  ran,         \* per machine: how many of them it has executed
  clicked,     \* per seat: the commands given, the k-th is the number k
  astray       \* per machine: the turn at which its game goes astray, if ever

hostVars == <<sq, log, present, violations, frozen, holdup, named>>
linkVars == <<wire, toHost, toGuest>>
guestVars == <<mode, desynced>>
vars == <<hostVars, linkVars, guestVars, got, ran, clicked, astray>>

Never == MaxTurns + 1

\* The state hash of a machine after a turn: a game that went astray is like no other
Hash(m, turn) == IF turn >= astray[m] THEN <<"astray", m>> ELSE <<"same">>
------------------------------------------------------------------------------
(* Messages *)

CommandMsg(c) == [type |-> "Command", command |-> c]
AckMsg(t) == [type |-> "TurnAck", turn |-> t]
HashMsg(t, h) == [type |-> "Hash", turn |-> t, hash |-> h]
LeaveMsg == [type |-> "Leave"]
\* Mutant: the sequencer's own command has no place in the message
TurnMsgOfOrders(t, cs) ==
  [type |-> "Turn", turn |-> t,
   commands |-> [p \in Seats |-> SelectSeq(cs[p], LAMBDA c : c # Drop)]]
\* Mutant: the host's player is left out, as if the guests had its commands already
TurnMsgOfGuests(t, cs) ==
  [type |-> "Turn", turn |-> t,
   commands |-> [p \in Seats |-> IF p = HostSeat THEN <<>> ELSE cs[p]]]
TurnMsg(t, cs) == [type |-> "Turn", turn |-> t, commands |-> cs]
DesyncMsg(t) == [type |-> "Desync", turn |-> t]

\* A guest speaks into a link that may be dead already: then nobody hears it
Say(g, msgs) == IF wire[g] THEN [toHost EXCEPT ![g] = @ \o msgs] ELSE toHost

\* Mutant: who lags is spared the next turn
ListenersWhoKeepUp == {g \in Guests : present[g] /\ wire[g] /\ Behind(sq, g) = 0}
Listeners == {g \in Guests : present[g] /\ wire[g]}

\* Mutant: who lags is not looked at
CanFailOfThoseWhoKeepUp == {g \in Guests : present[g] /\ ~wire[g] /\ Behind(sq, g) <= MaxLag}
\* The guests whose link a broadcast can find closed: it stands no longer, and the
\* host may have noticed
CanFail == {g \in Guests : present[g] /\ ~wire[g]}

Tell(msgs) == [g \in Guests |-> IF g \in Listeners THEN toGuest[g] \o msgs ELSE toGuest[g]]

------------------------------------------------------------------------------
Hashes == {<<"same">>} \cup ({"astray"} \X Machines)

ToHostMsg ==
  [type : {"Command"}, command : Command] \cup [type : {"TurnAck"}, turn : Nat]
    \cup [type : {"Hash"}, turn : Nat, hash : Hashes] \cup {LeaveMsg}

ToGuestMsg ==
  [type : {"Turn"}, turn : Nat, commands : Turns] \cup [type : {"Desync"}, turn : Nat]

TypeOK ==
  /\ SequencerType(sq)
  /\ log \in Seq(Turns)
  /\ present \in [Guests -> BOOLEAN]
  /\ violations \in [Guests -> Nat]
  /\ frozen \in BOOLEAN
  /\ holdup \in Seats \cup {Nobody}
  /\ named \subseteq Seats
  /\ wire \in [Guests -> BOOLEAN]
  /\ toHost \in [Guests -> Seq(ToHostMsg)]
  /\ toGuest \in [Guests -> Seq(ToGuestMsg)]
  /\ mode \in [Guests -> {"Normal", "Lost"}]
  /\ desynced \in [Guests -> BOOLEAN]
  /\ got \in [Machines -> Seq(Turns)]
  /\ ran \in [Machines -> Nat]
  /\ \A m \in Machines : ran[m] <= Len(got[m])
  /\ clicked \in [Seats -> 0 .. MaxCommands]
  /\ astray \in [Machines -> 0 .. Never]

\* start(): everybody is active and level with the sequencer
Init ==
  /\ sq = [NewSequencer EXCEPT !.active = [p \in Seats |-> TRUE]]
  /\ log = <<>>
  /\ present = [g \in Guests |-> TRUE]
  /\ violations = [g \in Guests |-> 0]
  /\ frozen = FALSE
  /\ holdup = Nobody
  /\ named = {}
  /\ wire = [g \in Guests |-> TRUE]
  /\ toHost = [g \in Guests |-> <<>>]
  /\ toGuest = [g \in Guests |-> <<>>]
  /\ mode = [g \in Guests |-> "Normal"]
  /\ desynced = [g \in Guests |-> FALSE]
  /\ got = [m \in Machines |-> <<>>]
  /\ ran = [m \in Machines |-> 0]
  /\ clicked = [p \in Seats |-> 0]
  /\ astray = [m \in Machines |-> Never]
------------------------------------------------------------------------------
(* The host *)

\* Mutants of a drop: what waited still comes, after the Drop; ... the seat is still
\* waited for; ... the Drop takes the place of a command
OutWithoutClearing(s, gone) ==
  [s EXCEPT !.active = [p \in Seats |-> @[p] /\ p \notin gone],
            !.queue = [p \in Seats |-> IF p \in gone THEN Append(@[p], Drop) ELSE @[p]]]
OutStillAwaited(s, gone) ==
  [s EXCEPT !.carry = [p \in Seats |-> IF p \in gone THEN <<>> ELSE @[p]],
            !.queue = [p \in Seats |-> IF p \in gone THEN Append(@[p], Drop) ELSE @[p]]]
OutTakesAPlace(s, gone) ==
  [s EXCEPT !.active = [p \in Seats |-> @[p] /\ p \notin gone],
            !.carry = [p \in Seats |-> IF p \in gone THEN <<>> ELSE @[p]],
            !.queuedBy = [p \in Seats |-> IF p \in gone THEN @[p] - 1 ELSE @[p]],
            !.queue = [p \in Seats |-> IF p \in gone THEN Append(@[p], Drop) ELSE @[p]]]

\* drop() of seats: their acknowledgements no longer matter, and their Drop goes
\* into the turn that is being filled
Out(s, gone) ==
  [s EXCEPT !.active = [p \in Seats |-> @[p] /\ p \notin gone],
            !.carry = [p \in Seats |-> IF p \in gone THEN <<>> ELSE @[p]],
            !.queue = [p \in Seats |-> IF p \in gone THEN Append(@[p], Drop) ELSE @[p]]]

Leaves(gone) ==
  /\ present' = [g \in Guests |-> present[g] /\ g \notin gone]
  /\ wire' = [g \in Guests |-> wire[g] /\ g \notin gone]

\* ... and nothing more is read of what they sent
Unread(inbox, gone) == [g \in Guests |-> IF g \in gone THEN <<>> ELSE inbox[g]]

DropGuest(g) ==
  /\ sq' = Out(sq, {g})
  /\ Leaves({g})
  /\ toHost' = Unread(toHost, {g})

\* violation(): too many of them and the guest is thrown out
Violation(g, inbox) ==
  /\ violations' = [violations EXCEPT ![g] = @ + 1]
  /\ IF violations[g] + 1 >= ViolationLimit
     THEN /\ sq' = Out(sq, {g})
          /\ Leaves({g})
          /\ toHost' = Unread(inbox, {g})
     ELSE /\ toHost' = inbox
          /\ UNCHANGED <<sq, present, wire>>

\* Desyncs that were found: everybody is told, and no turn is sealed any more
Found(turn, players) ==
  /\ named' = named \cup players
  /\ IF players = {} THEN UNCHANGED <<frozen, toGuest>>
     ELSE /\ frozen' = TRUE
          /\ toGuest' = Tell([i \in 1 .. Cardinality(players) |-> DesyncMsg(turn)])

HostCommand(g, c, inbox) ==
  /\ IF StartDelay /\ sq.nextTurn = 0
     THEN /\ toHost' = inbox
          /\ UNCHANGED <<sq, present, wire, violations>>
     ELSE IF Accepts(sq, g)
          THEN /\ sq' = Submitted(sq, g, c)
               /\ toHost' = inbox
               /\ UNCHANGED <<present, wire, violations>>
          ELSE Violation(g, inbox)
  /\ UNCHANGED <<frozen, named, toGuest>>

HostAck(g, turn, inbox) ==
  /\ sq' = OnAck(sq, g, turn)
  /\ toHost' = inbox
  /\ UNCHANGED <<present, wire, violations, frozen, named, toGuest>>

HostHash(g, turn, hash, inbox) ==
  LET s == OnHash(sq, g, turn, hash)
  IN /\ sq' = s
     /\ Found(turn, HashDesyncs(s, g, turn))
     /\ toHost' = inbox
     /\ UNCHANGED <<present, wire, violations>>

HostLeave(g) ==
  /\ DropGuest(g)
  /\ UNCHANGED <<violations, frozen, named, toGuest>>

\* poll_clients(), one message of one guest
HostHears(g) ==
  /\ present[g] /\ toHost[g] # <<>>
  /\ LET m == Head(toHost[g])
         inbox == [toHost EXCEPT ![g] = Tail(@)]
     IN \/ m.type = "Command" /\ HostCommand(g, m.command, inbox)
        \/ m.type = "TurnAck" /\ HostAck(g, m.turn, inbox)
        \/ m.type = "Hash" /\ HostHash(g, m.turn, m.hash, inbox)
        \/ m.type = "Leave" /\ HostLeave(g)
  /\ UNCHANGED <<log, holdup, guestVars, got, ran, clicked, astray>>

\* The link is found closed: by poll_clients() after all was read, or at once by a
\* send that fails.  lose() drops the seat: this host holds none.
LosesGuest(g) ==
  /\ DropGuest(g)
  /\ UNCHANGED <<log, violations, frozen, holdup, named, toGuest, guestVars, got, ran,
                 clicked, astray>>

HostFindsClosed(g) == g \in CanFail /\ toHost[g] = <<>> /\ LosesGuest(g)
HostSendFails(g) == g \in CanFail /\ LosesGuest(g)

\* Nothing has come of the guest for silence_timeout_ms
HostSilence(g) == present[g] /\ wire[g] /\ LosesGuest(g)

\* police_laggards(), a host without a seat: too far behind, or its acks stand still
HostPolice(g) == Seatless /\ ~frozen /\ present[g] /\ Behind(sq, g) > 0 /\ LosesGuest(g)

Click(p) ==
  /\ clicked[p] < MaxCommands
  /\ clicked' = [clicked EXCEPT ![p] = @ + 1]

\* submit_local() of the host's player, submit_bot() of a bot
HostClicks(p) ==
  /\ p \in Bots \cup ({HostSeat} \cap Seats)
  /\ Click(p)
  /\ sq' = IF Accepts(sq, p) THEN Submitted(sq, p, clicked'[p]) ELSE sq
  /\ UNCHANGED <<log, present, violations, frozen, holdup, named, linkVars, guestVars, got,
                 ran, astray>>

\* One turn of the sealing loop of update(): the turn goes to everybody, to the host's
\* own runner too; guests whose link is found closed by it are out, with the next turn.
HostSeals ==
  /\ ~frozen /\ sq.nextTurn < MaxTurns
  /\ Seatless \/ CanSeal(sq)
  /\ \E gone \in SUBSET CanFail :
       /\ sq' = Out(Sealed(sq), gone)
       /\ Leaves(gone)
       /\ toHost' = Unread(toHost, gone)
  /\ log' = Append(log, SealedTurn(sq))
  /\ toGuest' = Tell(<<TurnMsg(sq.nextTurn, SealedTurn(sq))>>)
  /\ got' = [got EXCEPT ![HostSeat] = Append(@, SealedTurn(sq))]
  /\ holdup' = Nobody
  /\ UNCHANGED <<violations, frozen, named, guestVars, ran, clicked, astray>>

\* ... and the same loop while somebody lags too far: a new laggard is noted, one that
\* has held the match up for too long is dropped
HostWaits ==
  /\ ~frozen /\ sq.nextTurn < MaxTurns
  /\ ~Seatless /\ ~CanSeal(sq)
  /\ LET p == Laggard(sq)
     IN \/ /\ p # holdup
           /\ holdup' = p
           /\ UNCHANGED <<sq, present, wire, toHost>>
        \/ /\ p = holdup
           /\ LaggardDrop /\ p \in Guests /\ present[p]
           /\ DropGuest(p)
           /\ holdup' = Nobody
  /\ UNCHANGED <<log, violations, frozen, named, toGuest, guestVars, got, ran, clicked, astray>>

\* run_local(), one turn: the host acknowledges it for itself and for its bots, and
\* reports its own hash
HostRuns ==
  /\ ran[HostSeat] < Len(got[HostSeat])
  /\ ran' = [ran EXCEPT ![HostSeat] = @ + 1]
  /\ LET turn == ran[HostSeat]
         own == IF Seatless THEN Bots ELSE Bots \cup {HostSeat}
         needed == Lesser(turn + 1, sq.nextTurn)
         level == [sq EXCEPT !.acked = [p \in Seats |-> IF p \in own /\ needed > @[p]
                                                        THEN needed ELSE @[p]]]
         acked == IF own = {} THEN level ELSE OnAck(level, CHOOSE p \in own : TRUE, turn)
         hash == Hash(HostSeat, turn)
         reported == IF Seatless THEN OnRefereeHash(acked, turn, hash)
                                 ELSE OnHash(acked, HostSeat, turn, hash)
     IN IF (turn + 1) % HashEvery # 0
        THEN sq' = acked /\ UNCHANGED <<frozen, named, toGuest>>
        ELSE /\ sq' = reported
             /\ Found(turn, IF Seatless THEN RefereeDesyncs(reported, turn)
                                        ELSE HashDesyncs(reported, HostSeat, turn))
  /\ UNCHANGED <<log, present, violations, holdup, wire, toHost, guestVars, got, clicked,
                 astray>>
------------------------------------------------------------------------------
(* A guest *)

\* Mutant: orders are given while the dialog is still up
GuestClicksEarly(g) ==
  /\ mode[g] = "Normal" /\ wire[g]
  /\ Click(g)
  /\ toHost' = Say(g, <<CommandMsg(clicked'[g])>>)
  /\ UNCHANGED <<hostVars, wire, toGuest, guestVars, got, ran, astray>>

\* submit(): a machine whose dialog is still up gives no orders
GuestClicks(g) ==
  /\ mode[g] = "Normal" /\ wire[g]
  /\ StartDelay => ran[g] > 0
  /\ Click(g)
  /\ toHost' = Say(g, <<CommandMsg(clicked'[g])>>)
  /\ UNCHANGED <<hostVars, wire, toGuest, guestVars, got, ran, astray>>

\* Mutant: only the turn that runs next is taken
TakeToRun(m, t) == IF t.turn = ran[m] THEN [got EXCEPT ![m] = Append(@, t.commands)] ELSE got

\* LockstepRunner::enqueue(): only the next turn is taken
Take(m, t) == IF t.turn = Len(got[m]) THEN [got EXCEPT ![m] = Append(@, t.commands)] ELSE got

\* poll_host(), one message
GuestHears(g) ==
  /\ mode[g] = "Normal" /\ toGuest[g] # <<>>
  /\ LET m == Head(toGuest[g])
     IN \/ /\ m.type = "Turn"
           /\ got' = Take(g, m)
           /\ UNCHANGED desynced
        \/ /\ m.type = "Desync"
           /\ desynced' = [desynced EXCEPT ![g] = TRUE]
           /\ UNCHANGED got
  /\ toGuest' = [toGuest EXCEPT ![g] = Tail(@)]
  /\ UNCHANGED <<hostVars, wire, toHost, mode, ran, clicked, astray>>

\* The runner executes turns, a few in a frame that was long; then the hashes are sent
\* and one acknowledgement, of the last turn.
GuestRuns(g) ==
  /\ \E n \in ran[g] + 1 .. Len(got[g]) :
       LET before == ran[g] \div HashEvery
           reports == [i \in 1 .. (n \div HashEvery) - before |->
                         LET t == (before + i) * HashEvery - 1 IN HashMsg(t, Hash(g, t))]
       IN /\ ran' = [ran EXCEPT ![g] = n]
          /\ toHost' = IF mode[g] = "Normal" THEN Say(g, reports \o <<AckMsg(n - 1)>>) ELSE toHost
  /\ UNCHANGED <<hostVars, wire, toGuest, guestVars, got, clicked, astray>>

\* go_lost(): the link is closed and all that came was read, or the host was silent
\* for host_silence_ms.  Nothing more is read; the turns that are there still run.
GuestLost(g) ==
  /\ mode[g] = "Normal"
  /\ mode' = [mode EXCEPT ![g] = "Lost"]
  /\ toGuest' = [toGuest EXCEPT ![g] = <<>>]
  /\ UNCHANGED <<hostVars, wire, toHost, desynced, got, ran, clicked, astray>>

GuestFindsClosed(g) == ~wire[g] /\ toGuest[g] = <<>> /\ GuestLost(g)
GuestSilence(g) == wire[g] /\ GuestLost(g)

\* leave(): the last word, and the link is closed
GuestLeaves(g) ==
  /\ mode[g] = "Normal" /\ wire[g]
  /\ toHost' = Say(g, <<LeaveMsg>>)
  /\ wire' = [wire EXCEPT ![g] = FALSE]
  /\ UNCHANGED <<hostVars, toGuest, guestVars, got, ran, clicked, astray>>
------------------------------------------------------------------------------
(* The world *)

\* The connection breaks: what was on its way arrives up to some point
Breaks(g) ==
  /\ wire[g]
  /\ wire' = [wire EXCEPT ![g] = FALSE]
  /\ \E i \in 0 .. Len(toHost[g]) : toHost' = [toHost EXCEPT ![g] = SubSeq(@, 1, i)]
  /\ \E i \in 0 .. Len(toGuest[g]) : toGuest' = [toGuest EXCEPT ![g] = SubSeq(@, 1, i)]
  /\ UNCHANGED <<hostVars, guestVars, got, ran, clicked, astray>>

\* The simulation of a machine does something else than the others' from its next turn on
GoesAstray(m) ==
  /\ astray[m] = Never
  /\ Cardinality({n \in Machines : astray[n] # Never}) < MaxBroken
  /\ astray' = [astray EXCEPT ![m] = ran[m]]
  /\ UNCHANGED <<hostVars, linkVars, guestVars, got, ran, clicked>>

HostStep ==
  \/ HostSeals \/ HostWaits \/ HostRuns
  \/ \E p \in Seats : HostClicks(p)
  \/ \E g \in Guests : HostHears(g) \/ HostFindsClosed(g) \/ HostSendFails(g)
                       \/ HostSilence(g) \/ HostPolice(g)

GuestStep(g) ==
  \/ GuestClicks(g) \/ GuestHears(g) \/ GuestRuns(g)
  \/ GuestFindsClosed(g) \/ GuestSilence(g) \/ GuestLeaves(g)

Next ==
  \/ HostStep
  \/ \E g \in Guests : GuestStep(g) \/ Breaks(g)
  \/ \E m \in Machines : GoesAstray(m)

Spec == Init /\ [][Next]_vars

\* update() of the host runs all the time: it reads, seals, watches a laggard and runs
\* its own turns.  Nothing is assumed of a guest or of a link.
HostFairness ==
  /\ WF_vars(HostSeals) /\ WF_vars(HostWaits) /\ WF_vars(HostRuns)
  /\ \A g \in Guests : WF_vars(HostHears(g)) /\ WF_vars(HostFindsClosed(g))

\* ... and here update() of every guest runs too
GuestFairness ==
  \A g \in Guests : WF_vars(GuestHears(g)) /\ WF_vars(GuestRuns(g)) /\ WF_vars(GuestFindsClosed(g))

HostSpec == Spec /\ HostFairness
FairSpec == HostSpec /\ GuestFairness
------------------------------------------------------------------------------
(* Properties *)

\* Every machine has been given the turns of one history, from the first on, none
\* changed, left out or doubled (sequencer.hpp: "they all apply the same commands at
\* the same tick").
Agreement ==
  \A m \in Machines : Len(got[m]) <= Len(log) /\ got[m] = SubSeq(log, 1, Len(got[m]))

\* As long as a guest and the host both take the link to stand, no turn is missing
\* between them: what the guest has and what is on its way is the whole history.
NoGap ==
  \A g \in Guests :
    present[g] /\ wire[g] /\ mode[g] = "Normal" =>
      LET turns == {i \in DOMAIN toGuest[g] : toGuest[g][i].type = "Turn"}
      IN Len(got[g]) + Cardinality(turns) = Len(log)

\* What there is of a seat, from the first turn to what the host has still to read
OnTheWay(g) ==
  [i \in {j \in DOMAIN toHost[g] : toHost[g][j].type = "Command"} |-> toHost[g][i].command]
Said(g) == [k \in 1 .. Len(log) + 3 |-> IF k <= Len(log) THEN log[k][g]
                                         ELSE <<sq.queue[g], sq.carry[g], OnTheWay(g)>>[k - Len(log)]]
Places(g) == UNION {{k} \X DOMAIN Said(g)[k] : k \in DOMAIN Said(g)}
At(g, x) == Said(g)[x[1]][x[2]]
Before(x, y) == x[1] < y[1] \/ (x[1] = y[1] /\ x[2] < y[2])

\* The orders of a guest that broke no rule reach the history in the order in which they
\* were given, with none missing between two of them, whatever is carried from turn to
\* turn and wherever the link breaks; and all of them, while the link stands.
OrdersKept ==
  \A g \in Guests : violations[g] = 0 =>
    LET orders == {x \in Places(g) : At(g, x) # Drop}
        given == {At(g, x) : x \in orders}
    IN /\ \A x, y \in orders : Before(x, y) => At(g, x) < At(g, y)
       /\ \A c \in given : 1 .. c \subseteq given
       /\ present[g] /\ wire[g] => given = 1 .. clicked[g]

\* A guest that goes, in whatever way, has exactly one Drop in the history, and nothing
\* of it comes after.
DropIsLast ==
  \A g \in Guests :
    IF present[g] THEN \A x \in Places(g) : At(g, x) # Drop
    ELSE \E x \in Places(g) :
           At(g, x) = Drop /\ \A y \in Places(g) \ {x} : At(g, y) # Drop /\ Before(y, x)

\* "Nobody is left behind by more than a few seconds" (sequencer.hpp): no turn is sealed
\* while a player who is in the match has more than MaxLag turns still to run, although
\* the host only knows what the acknowledgements told it.
NobodyLeftBehind ==
  ~Seatless => /\ \A g \in Guests : present[g] => Len(log) - ran[g] <= MaxLag + 1
               /\ Len(log) - ran[HostSeat] <= MaxLag + 1

\* A turn of which a state hash is taken, that the guest and the host have both run and
\* the host knows it
Compared(g, turn) ==
  /\ (turn + 1) % HashEvery = 0
  /\ sq.acked[g] > turn /\ ran[HostSeat] > turn

\* A guest whose game differs from the host's is named, however the reports and the
\* acknowledgements of the others fall, and the match stops.
DivergenceFound ==
  \A g \in Guests : present[g] =>
    \A turn \in 0 .. Len(log) - 1 :
      Compared(g, turn) /\ Hash(g, turn) # Hash(HostSeat, turn) => frozen /\ g \in named

\* Nobody is accused whose game is the host's.
NoFalseAlarm ==
  \A p \in named : p \in Guests /\ \E turn \in 0 .. Len(log) - 1 :
                     Hash(p, turn) # Hash(HostSeat, turn)

\* The host always gets on, whatever its guests do: the next turn is sealed, unless the
\* match was stopped.
HostGetsOn ==
  \A k \in 0 .. MaxTurns - 1 : sq.nextTurn = k /\ ~frozen ~> sq.nextTurn > k \/ frozen

\* A guest whose link stands and who does not give the host up runs every turn there is.
SurvivorsPlayAll ==
  \A g \in Guests : <>[](wire[g] /\ mode[g] = "Normal") => <>[](ran[g] = Len(log))

\* Both ends of a broken link come to know of it.
LossIsNoticed == \A g \in Guests : ~wire[g] ~> ~present[g] /\ mode[g] = "Lost"

History == INSTANCE MatchHistory
             WITH history <- log, played <- [m \in Machines |-> SubSeq(got[m], 1, ran[m])]

\* The machines play one history (MatchHistory).
PlaysOneHistory == History!Spec
=============================================================================
