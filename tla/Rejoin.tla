------------------------------- MODULE Rejoin -------------------------------
(***************************************************************************)
(* The way back into a match that runs on a dedicated server: a player     *)
(* whose link is lost makes new ones and says Hello with the key of his    *)
(* seat (ClientSession in the modes Reconnecting, Rejoining, CatchingUp);  *)
(* the server stops the match, streams the turns he has not got out of its *)
(* log, compares the states and gives the seat back                        *)
(* (HostSession::accept_rejoin, pump_rejoiners).  A second machine with    *)
(* the same key, which holds nothing, is a second window.                  *)
(*                                                                         *)
(* Links are FIFO both ways; each end knows only of its own closing, and   *)
(* of the other's when it has read all.  The server reads the Hellos of    *)
(* different links in any order.  A turn is its number and the seats that  *)
(* it drops.  When a vote is won or the cap is reached is Attendance's     *)
(* business, and a decision of the environment here; percentages, pings    *)
(* and the flood budgets are left out.                                     *)
(***************************************************************************)
EXTENDS Naturals, Sequences, FiniteSets, FiniteSetsExt, Functions, SequencesExt

CONSTANTS Seats, Machines,
          SeatOf,      \* Machines -> Seats: whose key a machine has
          Latecomers,  \* machines that start from nothing, in the middle of the match
          Window,      \* stream_window_bytes, in turns
          BatchTurns,  \* kMaxBatchTurns
          MaxTurns,    \* bound: turns of the match
          Worlds       \* what can happen to a match, see RejoinAssumption

ASSUME RejoinAssumption ==
  /\ IsFiniteSet(Seats) /\ Seats = 0 .. Cardinality(Seats) - 1
  /\ SeatOf \in [Machines -> Seats] /\ Latecomers \subseteq Machines
  /\ \A s \in Seats : \E m \in Machines \ Latecomers : SeatOf[m] = s
  /\ \A a, b \in Machines \ Latecomers : SeatOf[a] = SeatOf[b] => a = b
  /\ {MaxTurns, Window, BatchTurns} \subseteq Nat \ {0}
  /\ \A w \in Worlds : w.links >= Cardinality(Seats)
  /\ Worlds \subseteq
       [late : SUBSET Latecomers,   \* the second windows that there are
        astray : SUBSET Latecomers, \* those whose state will not be the match's
        limit : 0 .. MaxTurns,      \* the turns that the log holds before it is full
        links : Nat,                \* bound: connections of a behaviour
        faults : Nat,               \* bound: breaks, time-outs, quits, votes, refusals
        gone : SUBSET Seats,        \* the seats that turn 0 dropped, if there are any
        deaths : Nat,               \* bound: deaths of the server
        power : BOOLEAN]            \* whether its power may fail as well

VARIABLES
  world,      \* which of Worlds this is
  machine,    \* per machine: its ClientSession
  links,      \* the connections in the order in which they were made
  att,        \* per seat: Attendance's state
  client,     \* per seat: the link of its player in the match, 0: none
  rejoiners,  \* those who are coming back (rejoiners_)
  log,        \* the turns sealed
  life,       \* how many times a turn was lost
  queue,      \* the Drops for the next turn
  faults,     \* how many of MaxFaults there were
  deaths      \* how often the server died

LogLimit == world.limit
MaxLinks == world.links
MaxFaults == world.faults

server == <<att, client, rejoiners, log, queue, life, deaths>>
state == <<machine, links, server, faults>>
vars == <<world, state>>

Session(mode, link) ==
  [mode |-> mode, link |-> link, held |-> <<>>, done |-> 0, known |-> FALSE, total |-> 0,
   claimed |-> FALSE, why |-> "none"]

Link(m, hello) ==
  [of |-> m, up |-> hello, down |-> <<>>, copen |-> TRUE, sopen |-> TRUE, cut |-> FALSE]

\* What a machine has of a turn, beyond its number: before which loss it was sealed
Lives == 0 .. world.deaths
Have(t) == Len(t.held)
TurnAt(k, L) == [type |-> "Turn", turn |-> k, life |-> L[k + 1].life]

First(s) == CHOOSE m \in Machines \ Latecomers : SeatOf[m] = s

Reasons == {"Superseded", "Dropped", "RejoinFailed", "BadRequest"}
Messages ==
  [type : {"Hello"}, have : Nat] \cup [type : {"Loaded"}, ok : BOOLEAN]
    \cup [type : {"Ack"}, turns : Nat] \cup [type : {"CaughtUp"}, turns : Nat]
    \cup [type : {"Leave", "Welcome", "Start", "Presence", "Desync"}]
    \cup [type : {"CatchUp"}, first : Nat, total : Nat]
    \cup [type : {"Batch"}, first : Nat, lives : Seq(Lives)]
    \cup [type : {"Turn"}, turn : Nat, life : Lives] \cup [type : {"Reject"}, why : Reasons]

TypeOK ==
  /\ world \in Worlds
  /\ machine \in [Machines ->
       [mode : {"Normal", "Reconnecting", "Rejoining", "CatchingUp", "Lost"},
        link : 0 .. MaxLinks, held : Seq(Lives), done : 0 .. MaxTurns, known : BOOLEAN,
        total : 0 .. MaxTurns, claimed : BOOLEAN,  why : Reasons \cup {"none"}]]
  /\ \A m \in Machines : machine[m].done <= Have(machine[m])
  /\ links \in Seq([of : Machines, up : Seq(Messages), down : Seq(Messages),
                    copen : BOOLEAN, sopen : BOOLEAN, cut : BOOLEAN])
  /\ att \in [Seats -> {"Present", "Absent", "CatchingUp", "Dropped"}]
  /\ client \in [Seats -> 0 .. Len(links)]
  /\ \A r \in rejoiners :
       /\ r \in [link : DOMAIN links, seat : Seats, total : 0 .. MaxTurns, next : 0 .. MaxTurns,
                 acked : 0 .. MaxTurns, loading : BOOLEAN, verify : BOOLEAN]
       /\ r.acked <= r.next /\ r.next <= r.total
  /\ log \in Seq([drops : Seq(Seats), life : Lives]) /\ Len(log) <= MaxTurns
  /\ deaths \in 0 .. world.deaths
  /\ queue \in Seq(Seats) /\ Len(queue) <= Cardinality(Seats)
  /\ life \in Lives /\ faults \in 0 .. MaxFaults

\* Begun with a link for each seat, in the order of the seats; some may be gone
Init ==
  /\ world \in Worlds
  /\ links = [i \in 1 .. Cardinality(Seats) |->
                [Link(First(i - 1), <<>>) EXCEPT !.copen = i - 1 \notin world.gone,
                                                 !.sopen = i - 1 \notin world.gone]]
  /\ log = IF world.gone = {} THEN <<>>
           ELSE <<[drops |-> SetToSeq(world.gone), life |-> 0]>>
  /\ machine = [m \in Machines |->
       IF m \in Latecomers THEN Session(IF m \in world.late THEN "Reconnecting" ELSE "Lost", 0)
       ELSE IF SeatOf[m] \in world.gone THEN Session("Lost", 0)
       ELSE [Session("Normal", SeatOf[m] + 1) EXCEPT !.held = [k \in DOMAIN log |-> 0],
                                                     !.done = Len(log)]]
  /\ att = [s \in Seats |-> IF s \in world.gone THEN "Dropped" ELSE "Present"]
  /\ client = [s \in Seats |-> IF s \in world.gone THEN 0 ELSE s + 1]
  /\ rejoiners = {} /\ queue = <<>> /\ life = 0 /\ faults = 0 /\ deaths = 0

Fault == faults < MaxFaults /\ faults' = faults + 1
------------------------------------------------------------------------------
(* Links *)

\* What is said over a link that either end has closed or that is cut gets nowhere
Carries(k) == k.sopen /\ k.copen /\ ~k.cut

\* The server says msgs over the links S of L, closes them
Told(L, S, msgs) ==
  [l \in DOMAIN L |-> IF l \in S /\ Carries(L[l]) THEN [L[l] EXCEPT !.down = @ \o msgs] ELSE L[l]]
Shut(L, S) ==
  [l \in DOMAIN L |-> IF l \in S THEN [L[l] EXCEPT !.sopen = FALSE, !.up = <<>>] ELSE L[l]]
Dismissed(L, S, why) == Shut(Told(L, S, <<[type |-> "Reject", why |-> why]>>), S)

\* A machine says msgs over link l of L, closes it
Said(L, l, msgs) == IF Carries(L[l]) THEN [L EXCEPT ![l].up = @ \o msgs] ELSE L
Left(L, l) == IF l = 0 THEN L ELSE [L EXCEPT ![l].copen = FALSE, ![l].down = <<>>]

Read(L, l, way) ==
  IF way = "up" THEN [L EXCEPT ![l].up = Tail(@)] ELSE [L EXCEPT ![l].down = Tail(@)]

\* The server has read all of l and sees that it is closed (or silent)
SeesEnd(l) == links[l].up = <<>> /\ (~links[l].copen \/ links[l].cut \/ ~links[l].sopen)
------------------------------------------------------------------------------
(* The server *)

Usable == Len(log) <= LogLimit

\* Mutant: the match waits for those who are away, not for those who catch up
PausedForAbsent == \E s \in Seats : att[s] = "Absent"
Paused == \E s \in Seats : att[s] \in {"Absent", "CatchingUp"}

Comer(s) == {r.link : r \in {q \in rejoiners : q.seat = s}}

Sealed == Append(log, [drops |-> queue, life |-> life])

\* One seal of HostSession::update()
Seal ==
  /\ ~Paused /\ Len(log) < MaxTurns
  /\ log' = Sealed /\ queue' = <<>>
  /\ links' = Told(links, {client[s] : s \in Seats}, <<TurnAt(Len(log), Sealed)>>)
  /\ UNCHANGED <<machine, att, client, rejoiners, life, deaths, faults>>

\* drop() and what finish_drop() does beyond it: the seat is given up, its links end
GivenUp(s, L) ==
  /\ att' = [att EXCEPT ![s] = "Dropped"]
  /\ client' = [client EXCEPT ![s] = 0]
  /\ rejoiners' = {r \in rejoiners : r.seat # s}
  /\ queue' = Append(queue, s)
  /\ links' = L

\* poll_clients(): a player leaves
HearsLeave(s) ==
  LET l == client[s]
  IN /\ l # 0 /\ links[l].up # <<>>
     /\ IF Head(links[l].up).type = "Leave"
        THEN GivenUp(s, Shut(Read(links, l, "up"), {l}))
        ELSE links' = Read(links, l, "up") /\ UNCHANGED <<att, client, rejoiners, queue>>
     /\ UNCHANGED <<machine, log, life, deaths, faults>>

\* lose()
Loses(s) ==
  LET l == client[s]
  IN /\ l # 0 /\ SeesEnd(l)
     /\ IF Usable
        THEN /\ att' = [att EXCEPT ![s] = "Absent"]
             /\ client' = [client EXCEPT ![s] = 0]
             /\ links' = Shut(links, {l})
             /\ UNCHANGED <<rejoiners, queue>>
        ELSE GivenUp(s, Shut(links, {l}))
     /\ UNCHANGED <<machine, log, life, deaths, faults>>

\* Mutant: a seat that is dropped is voted on
VotedOutAgain(s) ==
  /\ IF att[s] = "Absent" THEN UNCHANGED faults ELSE Fault
  /\ GivenUp(s, Dismissed(links, ({client[s]} \cup Comer(s)) \ {0}, "Dropped"))
  /\ UNCHANGED <<machine, log, life, deaths>>

\* finish_drop(): the others have voted, or the cap on the pauses is reached
VotedOut(s) ==
  /\ att[s] # "Dropped"
  /\ IF att[s] = "Absent" THEN UNCHANGED faults ELSE Fault
  /\ GivenUp(s, Dismissed(links, ({client[s]} \cup Comer(s)) \ {0}, "Dropped"))
  /\ UNCHANGED <<machine, log, life, deaths>>

\* Mutant: an attempt that goes on is forgotten about
TakenOverOfClient(s, l) == {client[s]} \ {0}
\* accept_rejoin(): the newer link wins over whatever the seat had
TakenOver(s, l) == ({client[s]} \cup Comer(s)) \ {0, l}

Accepts(l, s, have) ==
  LET fromNothing == have = 0
      answer == IF fromNothing THEN [type |-> "Start"]
                ELSE [type |-> "CatchUp", first |-> have, total |-> Len(log)]
  IN /\ links' = Told(Dismissed(Read(links, l, "up"), TakenOver(s, l), "Superseded"), {l},
                      <<[type |-> "Welcome"], answer>>)
     /\ client' = [client EXCEPT ![s] = 0]
     /\ att' = [att EXCEPT ![s] = "CatchingUp"]
     /\ rejoiners' = {r \in rejoiners : r.link \notin TakenOver(s, l)}
                       \cup {[link |-> l, seat |-> s, total |-> Len(log), next |-> have,
                              acked |-> have, loading |-> fromNothing, verify |-> FALSE]}

\* RoomManager::route_hello() and accept_rejoin().  (That the machine has closed the link
\* is not looked at; a budget of the seat may refuse.)
HearsHello(l) ==
  LET m == links[l].of
      s == SeatOf[m]
      have == Head(links[l].up).have
      refused(why) == /\ links' = Dismissed(Read(links, l, "up"), {l}, why)
                      /\ UNCHANGED <<att, client, rejoiners>>
  IN /\ links[l].up # <<>> /\ Head(links[l].up).type = "Hello"
     /\ \/ att[s] = "Dropped" /\ refused("Dropped") /\ UNCHANGED faults
        \/ att[s] # "Dropped" /\ ~Usable /\ refused("RejoinFailed") /\ UNCHANGED faults
        \/ att[s] # "Dropped" /\ Usable /\ have > Len(log) /\ refused("BadRequest") /\ UNCHANGED faults
        \/ /\ att[s] # "Dropped" /\ Usable /\ have <= Len(log)
           /\ \/ refused("RejoinFailed") /\ Fault
              \/ Accepts(l, s, have) /\ UNCHANGED faults
     /\ UNCHANGED <<machine, log, queue, life, deaths>>

\* Fate::Failed: the connection of the attempt is closed, the seat stays away
Failed(r, L) ==
  /\ rejoiners' = rejoiners \ {r}
  /\ att' = [att EXCEPT ![r.seat] = "Absent"]
  /\ links' = Shut(L, {r.link})
  /\ UNCHANGED <<client, queue>>

Becomes(r, q, L) ==
  /\ rejoiners' = (rejoiners \ {r}) \cup {q}
  /\ links' = L
  /\ UNCHANGED <<att, client, queue>>

\* pump_rejoiners(): what one of them says
RejoinerHeard(r) ==
  LET l == r.link
      m == Head(links[l].up)
      L == Read(links, l, "up")
      ackTo == Min({m.turns, r.next})
  IN /\ links[l].up # <<>>
     /\ \/ /\ m.type = "Loaded" /\ r.loading /\ m.ok
           /\ Becomes(r, [r EXCEPT !.loading = FALSE],
                      Told(L, {l}, <<[type |-> "CatchUp", first |-> 0, total |-> r.total]>>))
        \/ /\ m.type = "Loaded" /\ r.loading /\ ~m.ok
           /\ Failed(r, Told(L, {l}, <<[type |-> "Reject", why |-> "RejoinFailed"]>>))
        \/ /\ m.type = "Ack"
           /\ Becomes(r, [r EXCEPT !.acked = Max({@, ackTo})], L)
        \/ /\ m.type = "CaughtUp" /\ ~r.loading /\ m.turns = r.total
           /\ Becomes(r, [r EXCEPT !.verify = TRUE], L)
        \/ /\ \/ m.type = "Loaded" /\ ~r.loading
              \/ m.type = "CaughtUp" /\ (r.loading \/ m.turns # r.total)
           /\ Failed(r, L)
        \/ /\ m.type = "Leave"
           /\ GivenUp(r.seat, Shut(L, {l}))
     /\ UNCHANGED <<machine, log, life, deaths, faults>>

\* The link of an attempt has ended; Attendance lets an attempt go that gets nowhere
RejoinerEnds(r) ==
  /\ \/ SeesEnd(r.link) /\ UNCHANGED faults
     \/ Fault
  /\ Failed(r, links)
  /\ UNCHANGED <<machine, log, life, deaths>>

\* A batch, while the window is open
Streams(r) ==
  /\ ~r.loading /\ r.next < r.total /\ r.next - r.acked < Window
  /\ LET n == Min({BatchTurns, r.total - r.next})
         lives == [k \in 1 .. n |-> log[r.next + k].life]
     IN Becomes(r, [r EXCEPT !.next = @ + n],
                Told(links, {r.link}, <<[type |-> "Batch", first |-> r.next, lives |-> lives]>>))
  /\ UNCHANGED <<machine, log, life, deaths, faults>>

\* A machine whose state is not the match's
Stray(m) ==
  \/ m \in world.astray
  \/ \E k \in DOMAIN machine[m].held :
       k > Len(log) \/ (k <= Len(log) /\ machine[m].held[k] # log[k].life)

\* Mutant: whoever has all the turns is back
VerifiesTurns(r) ==
  LET l == r.link
  IN /\ r.verify
     /\ client' = [client EXCEPT ![r.seat] = l]
     /\ att' = [att EXCEPT ![r.seat] = "Present"]
     /\ rejoiners' = rejoiners \ {r}
     /\ links' = Told(links, {l}, <<[type |-> "Presence"]>>)
     /\ UNCHANGED <<queue, machine, log, life, deaths, faults>>

\* The states are compared; Presence is sent at the end of the pass
Verifies(r) ==
  LET l == r.link
  IN /\ r.verify
     /\ IF Stray(links[l].of)
        THEN Failed(r, Told(links, {l}, <<[type |-> "Desync"]>>))
        ELSE /\ client' = [client EXCEPT ![r.seat] = l]
             /\ att' = [att EXCEPT ![r.seat] = "Present"]
             /\ rejoiners' = rejoiners \ {r}
             /\ links' = Told(links, {l}, <<[type |-> "Presence"]>>)
             /\ UNCHANGED queue
     /\ UNCHANGED <<machine, log, life, deaths, faults>>
------------------------------------------------------------------------------
(* A machine *)

Alive(m) == machine[m].mode # "Lost"
Becoming(m, t) == machine' = [machine EXCEPT ![m] = t]

\* attempt_failed(), enter_reconnecting(): the next link is due
Again(t) ==
  [t EXCEPT !.mode = "Reconnecting", !.link = 0, !.known = FALSE, !.claimed = FALSE]
\* reject(): the server's word is final
Rejected(t, why) == [t EXCEPT !.mode = "Lost", !.why = why, !.link = 0]
\* begin_normal()
BackIn(t) == [t EXCEPT !.mode = "Normal", !.known = FALSE, !.claimed = FALSE]

\* handle_stream_message()
Streamed(t, m) ==
  CASE m.type = "Welcome" /\ t.mode = "Rejoining" -> [t EXCEPT !.mode = "CatchingUp"]
    [] m.type = "CatchUp" /\ t.mode = "CatchingUp" /\ ~t.known /\ m.first = Have(t) ->
         [t EXCEPT !.known = TRUE, !.total = m.total]
    [] /\ m.type = "Batch" /\ t.mode = "CatchingUp" /\ t.known /\ ~t.claimed
       /\ m.first = Have(t) /\ m.first + Len(m.lives) <= t.total -> [t EXCEPT !.held = @ \o m.lives]
    [] m.type \in {"Presence", "Turn"} /\ ~t.claimed -> t
    [] m.type = "Presence" /\ t.claimed -> BackIn(t)
    [] m.type = "Turn" /\ t.claimed -> [BackIn(t) EXCEPT !.held = Append(@, m.life)]
    [] m.type = "Reject" -> Rejected(t, m.why)
    [] m.type = "Start" -> t
    [] OTHER -> Rejected(t, "RejoinFailed")

\* poll_host(); a live turn is run at once
Played(t, m) ==
  CASE m.type = "Turn" /\ m.turn = Have(t) ->
         [t EXCEPT !.held = Append(@, m.life), !.done = @ + 1]
    [] m.type = "Reject" -> Rejected(t, m.why)
    [] OTHER -> t

Hears(m) ==
  LET t == machine[m]
      l == t.link
      msg == Head(links[l].down)
      L == Read(links, l, "down")
      loads == t.mode # "Normal" /\ msg.type = "Start" /\ ~t.known
      u == IF t.mode = "Normal" THEN Played(t, msg) ELSE Streamed(t, msg)
  IN /\ l # 0 /\ links[l].down # <<>>
     /\ Becoming(m, u)
     /\ \/ u.mode = "Lost" /\ links' = Left(L, l)
        \/ u.mode # "Lost" /\ ~loads /\ links' = L
        \/ /\ u.mode # "Lost" /\ loads
           /\ \E ok \in {TRUE, m \notin world.astray} :
                links' = Said(L, l, <<[type |-> "Loaded", ok |-> ok]>>)
     /\ UNCHANGED <<server, faults>>

\* Mutant: the server is told only when all turns have run
StepsTellingTheEnd(m) ==
  LET t == machine[m]
      all == Have(t) >= t.total
      claim == [type |-> "CaughtUp", turns |-> t.total]
  IN /\ t.mode = "CatchingUp" /\ t.known /\ ~t.claimed /\ (t.done < Have(t) \/ all)
     /\ Becoming(m, [t EXCEPT !.done = Have(t), !.claimed = all])
     /\ links' = Said(links, t.link, IF all THEN <<claim>> ELSE <<>>)
     /\ UNCHANGED <<server, faults>>

\* catch_up_step(): the turns at hand are run, and the server is told how far
Steps(m) ==
  LET t == machine[m]
      all == Have(t) >= t.total
      ack == [type |-> "Ack", turns |-> Have(t)]
      claim == [type |-> "CaughtUp", turns |-> t.total]
  IN /\ t.mode = "CatchingUp" /\ t.known /\ ~t.claimed /\ (t.done < Have(t) \/ all)
     /\ Becoming(m, [t EXCEPT !.done = Have(t), !.claimed = all])
     /\ links' = Said(links, t.link, (IF t.done < Have(t) THEN <<ack>> ELSE <<>>)
                                      \o (IF all THEN <<claim>> ELSE <<>>))
     /\ UNCHANGED <<server, faults>>

\* The link is closed and all is read; or the server was silent for too long, or gave no
\* Welcome in rejoin_timeout_ms.  What the machine said before is still on its way.
LosesLink(m) ==
  LET t == machine[m]
      l == t.link
  IN /\ l # 0 /\ Alive(m)
     /\ \/ links[l].down = <<>> /\ (~links[l].sopen \/ links[l].cut) /\ UNCHANGED faults
        \/ Fault
     /\ Becoming(m, Again(t))
     /\ links' = Left(links, l)
     /\ UNCHANGED server

\* attach() and send_rejoin_hello()
Attaches(m) ==
  LET t == machine[m]
  IN /\ t.mode = "Reconnecting" /\ Len(links) < MaxLinks
     /\ links' = Append(links, Link(m, <<[type |-> "Hello", have |-> Have(t)]>>))
     /\ Becoming(m, [t EXCEPT !.mode = "Rejoining", !.link = Len(links) + 1])
     /\ UNCHANGED <<server, faults>>

\* leave(); or the time that it may take to come back, give_up_ms(), is over, and nothing is said
Quits(m) ==
  LET t == machine[m]
  IN /\ Alive(m) /\ Fault
     /\ \E told \in {TRUE, t.mode \notin {"Reconnecting", "Rejoining"}} :
          links' = IF t.link = 0 THEN links
                   ELSE Left(IF told THEN Said(links, t.link, <<[type |-> "Leave"]>>) ELSE links,
                             t.link)
     /\ Becoming(m, [t EXCEPT !.mode = "Lost", !.link = 0])
     /\ UNCHANGED server

\* A link breaks; of what is on its way some arrives
Breaks(l) ==
  /\ Carries(links[l]) /\ Fault
  /\ \E i \in 0 .. Len(links[l].up), j \in 0 .. Len(links[l].down) :
       links' = [links EXCEPT ![l].cut = TRUE, ![l].up = SubSeq(@, 1, i),
                              ![l].down = SubSeq(@, 1, j)]
  /\ UNCHANGED <<machine, server>>

\* Mutant: a turn is sent before it is written
WrittenLater ==
  {<<log, {}>>} \cup
    (IF Paused \/ Len(log) = MaxTurns THEN {} ELSE {<<log, S>> : S \in SUBSET Seats})
\* What the record, which is written first, holds of the turns and who has been sent the
\* last of them when the process dies in the middle of a pass
Written ==
  {<<log, {}>>} \cup
    (IF Paused \/ Len(log) = MaxTurns THEN {}
     ELSE {<<Sealed, S>> : S \in SUBSET Seats})

\* Mutant: everybody comes back
DroppedInOfNobody(turns) == {}
\* finish_replay(): who the turns of the record drop
DroppedIn(turns) == {s \in Seats : \E k \in DOMAIN turns : s \in Range(turns[k].drops)}

\* The process dies and the next one brings the match back from its record (append_turn,
\* parse_restart_record, replay_step, start_restored); in between nobody is answered.  Of
\* what is on its way over a link all or nothing arrives.  When the power fails, the
\* last turn may not have reached the disk (bound: one turn).  Without a record, when the
\* log is full, the match is over.
Restarts ==
  /\ deaths < world.deaths /\ deaths' = deaths + 1 /\ Usable
  /\ \E w \in Written, n \in IF world.power THEN {0, 1} ELSE {0}, D \in SUBSET DOMAIN links :
       LET kept == SubSeq(w[1], 1, Len(w[1]) - n)
           sent == Told(links, {client[s] : s \in w[2]}, <<TurnAt(Len(log), Sealed)>>)
       IN /\ Len(kept) <= LogLimit /\ n <= Len(w[1])
          /\ \A l \in D : sent[l].down # <<>>
          /\ log' = kept /\ life' = life + n
          /\ att' = [s \in Seats |-> IF s \in DroppedIn(kept) THEN "Dropped" ELSE "Absent"]
          /\ links' = [l \in DOMAIN links |->
               [sent[l] EXCEPT !.cut = TRUE, !.sopen = FALSE, !.up = <<>>,
                               !.down = IF l \in D THEN <<>> ELSE @]]
  /\ UNCHANGED <<machine, faults>>
  /\ client' = [s \in Seats |-> 0]
  /\ rejoiners' = {} /\ queue' = <<>>

ServerStep ==
  \/ \E s \in Seats : HearsLeave(s) \/ Loses(s)
  \/ \E l \in DOMAIN links : HearsHello(l)
  \/ \E r \in rejoiners : RejoinerHeard(r) \/ RejoinerEnds(r) \/ Streams(r) \/ Verifies(r)

MachineStep(m) == Hears(m) \/ Steps(m) \/ LosesLink(m) \/ Attaches(m)

Next ==
  /\ \/ ServerStep \/ Seal \/ Restarts \/ \E s \in Seats : VotedOut(s)
     \/ \E m \in Machines : MachineStep(m) \/ Quits(m)
     \/ \E l \in DOMAIN links : Breaks(l)
  /\ UNCHANGED world

Spec == Init /\ [][Next]_vars

\* Both run all the time (that the cap on the pauses is reached is not counted on)
FairSpec == Spec /\ WF_state(ServerStep) /\ \A m \in Machines : WF_state(MachineStep(m))
------------------------------------------------------------------------------
(* Properties *)

\* A seat that returns, is taken over by a second window, is let go, dropped or quits, with
\* messages of several links still to be read: it has one player, who plays or comes back,
\* and Attendance knows which.
SeatTakenOnce ==
  \A s \in Seats :
    /\ Cardinality(Comer(s)) = (IF att[s] = "CatchingUp" THEN 1 ELSE 0)
    /\ client[s] # 0 <=> att[s] = "Present"

\* A player whose seat was given back misses nothing: what he holds and what is on its way to
\* him is the whole match.
InStep ==
  \A m \in Machines :
    LET l == machine[m].link
        turns == {i \in DOMAIN links[l].down : links[l].down[i].type = "Turn"}
    IN l # 0 /\ client[SeatOf[m]] = l /\ links[l].sopen /\ ~links[l].cut =>
         /\ Have(machine[m]) + Cardinality(turns) = Len(log)
         /\ machine[m].mode = "Normal" \/ machine[m].claimed

\* A seat is dropped once, in a turn, however many ways there were to lose it at the same
\* time, and who is dropped is not in the match.
DroppedOnce ==
  LET turn(k) == Sealed[k].drops
      drops(s) == UNION {{k} \X {i \in DOMAIN turn(k) : turn(k)[i] = s} : k \in DOMAIN Sealed}
  IN \A s \in Seats : Cardinality(drops(s)) = (IF att[s] = "Dropped" THEN 1 ELSE 0)

\* The record has every turn that anybody has (restart_record.hpp:24-25 "the record always
\* holds every turn that any player has run, and a restart loses NO turn"), wherever in the
\* pass the process dies.
RecordHasAll == ~world.power => \A m \in Machines : Have(machine[m]) <= Len(log)

\* A machine whose history is not the match's never plays: one that has turns that the power
\* took from the record, and comes back when the match has gone on with other ones; one whose
\* map is another.
OneHistory == \A s \in Seats : client[s] # 0 => ~Stray(links[client[s]].of)

\* A machine is told that another took its seat only when another did (session.cpp:544: "a
\* second window with the same key").
ReplacedByAnother ==
  \A m \in Machines : machine[m].why = "Superseded" =>
    \E l \in DOMAIN links : SeatOf[links[l].of] = SeatOf[m] /\ links[l].of # m

\* When nothing more breaks, everybody who has not been told that it is over plays, over the
\* link that the server takes for his: neither waits for the other.
Settled ==
  \A m \in Machines :
    Alive(m) => machine[m].mode = "Normal" /\ client[SeatOf[m]] = machine[m].link
Settles == <>[]Settled
=============================================================================
