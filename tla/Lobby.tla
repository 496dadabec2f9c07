------------------------------- MODULE Lobby -------------------------------
(***************************************************************************)
(* The room before a match (HostLobby) and the machines that wait in it    *)
(* (ClientLobby): a room on the local network, whose host has a seat and   *)
(* starts when he likes, and a lobby room of the server, which the guest   *)
(* who came first leads.  A lobby room holds the seat of a guest whose     *)
(* link ended, gives it back for its key, keeps the leader's START until   *)
(* every person's game is there, and may be opened again after its match   *)
(* with a seat reserved for each person of it.                             *)
(*                                                                         *)
(* What a press says of the seats is what its sender was shown: a message  *)
(* is made from the room as it is, and read as late as one likes.  Time is *)
(* left out: whatever waits for a time may happen at any moment.  So are   *)
(* what the plan says of maps, bots and teams, chat, names that change,    *)
(* public rooms, thumbs, and the counters of floods and offences, which    *)
(* take more messages to bite than a behaviour has here.                   *)
(***************************************************************************)
EXTENDS Naturals, Sequences, FiniteSets, FiniteSetsExt, Functions

CONSTANTS People, Seats, Worlds

ASSUME LobbyAssumption ==
  /\ IsFiniteSet(Seats) /\ Seats = 1 .. Cardinality(Seats)
  /\ Worlds \subseteq
       [people : SUBSET People, \* who comes
        lobby : BOOLEAN,     \* a lobby room of the server, or a local network's
        links : Nat,         \* bound: connections of a behaviour
        starts : Nat,        \* bound: starts
        presses : Nat,       \* bound: presses of a leader
        faults : Nat,        \* bound: links that break or are left open, leavers, failures
        pause : BOOLEAN,     \* what is on its way arrives before the next start
        least : Nat,         \* min_players
        match : Seq(People)] \* rematch: whose seats are reserved, in their order
  /\ \A w \in Worlds : /\ Len(w.match) <= Cardinality(Seats) /\ IsInjective(w.match)
                       /\ w.match # <<>> => w.lobby

VARIABLES
  world,      \* which of Worlds this is
  phase,      \* HostLobby's phase_
  guest,      \* per seat: its Guest; the host of a local room has one more
  leader,     \* the seat that leads, 0: none
  starting,   \* the place in the order of him whose START waits, 0: none
  joins,      \* Welcomes of new guests so far
  starts,     \* starts so far
  hostLoaded, \* host_loaded_
  links,      \* the connections, in the order in which they were made
  client,     \* per person: the ClientLobby
  presses,    \* how many of world.presses there were
  faults      \* how many of world.faults

room == <<phase, guest, leader, starting, joins, starts, hostLoaded>>
bounds == <<presses, faults>>
state == <<room, links, client, bounds>>
vars == <<world, state>>

NoGuest == [key |-> 0, name |-> "-", conn |-> 0, loaded |-> FALSE, game |-> FALSE,
            held |-> FALSE, reserved |-> FALSE]
Nobody == [phase |-> "Off", link |-> 0, key |-> 0, start |-> 0]

Taken == {s \in Seats : guest[s].key # 0}
Connected == {s \in Seats : guest[s].conn # 0}
Reserved(g) == {s \in Seats : g[s].reserved}
OfMatch(g, s) == g[s].key \in 1 .. Len(world.match)
Seating == [s \in Seats |-> guest[s].name]

TypeOK ==
  /\ world \in Worlds /\ phase \in {"Room", "Loading", "Begun"}
  /\ leader \in {0} \cup Seats /\ starting \in 0 .. joins
  /\ joins <= world.links + Len(world.match) /\ starts <= world.starts
  /\ hostLoaded \in BOOLEAN /\ presses <= world.presses /\ faults <= world.faults
  /\ \A s \in Seats :
       /\ guest[s] \in [key : 0 .. joins, name : People \cup {"-"}, conn : 0 .. Len(links),
                        loaded : BOOLEAN, game : BOOLEAN, held : BOOLEAN, reserved : BOOLEAN]
       /\ guest[s].held => guest[s].conn = 0 /\ ~guest[s].reserved
       /\ guest[s].loaded => phase # "Room"
       /\ \A t \in Seats \ {s} : s \in Taken => guest[s].key # guest[t].key
       /\ \A t \in Connected \ {s} : guest[s].conn # guest[t].conn
  /\ \A p \in People :
       client[p] \in [phase : {"Off", "Joining", "InRoom", "Loading", "Loaded", "Begun"},
                      link : 0 .. Len(links), key : 0 .. joins, start : 0 .. starts]

\* The key that a person of the match keeps
KeyOf(p) ==
  IF \E s \in DOMAIN world.match : world.match[s] = p
  THEN CHOOSE s \in DOMAIN world.match : world.match[s] = p ELSE 0

Init ==
  /\ world \in Worlds
  /\ phase = "Room" /\ leader = 0 /\ starting = 0 /\ starts = 0 /\ hostLoaded = FALSE
  /\ joins = Len(world.match) /\ presses = 0 /\ faults = 0 /\ links = <<>>
  /\ guest = [s \in Seats |->
                IF s \in DOMAIN world.match
                THEN [NoGuest EXCEPT !.key = s, !.name = world.match[s], !.reserved = TRUE]
                ELSE NoGuest]
  /\ client = [p \in People |-> [Nobody EXCEPT !.key = KeyOf(p)]]

-----------------------------------------------------------------------------
(* What the room does in one go *)

Fault == faults < world.faults /\ faults' = faults + 1

\* What nobody will read any more is not kept
Unread(l, lk) == client[lk[l].of].link # l

ToGuests(g, m, lk) ==
  [l \in DOMAIN lk |->
     IF lk[l].open /\ ~Unread(l, lk) /\ \E s \in Seats : g[s].conn = l
     THEN [lk[l] EXCEPT !.down = Append(@, m)] ELSE lk[l]]

\* The room closes a link, 0: there is none, with a last word or none
Closed(l, m, lk) ==
  IF l = 0 THEN lk
  ELSE [lk EXCEPT ![l].open = FALSE, ![l].up = <<>>,
                  ![l].down = IF lk[l].open /\ ~Unread(l, lk) THEN @ \o m ELSE @]

\* elect_leader: the earliest, of the match while a seat of it is kept
Elected(g) ==
  LET may == {s \in Seats : /\ world.lobby /\ g[s].key # 0 /\ ~g[s].reserved
                            /\ Reserved(g) # {} => OfMatch(g, s)}
  IN  IF may = {} THEN 0 ELSE CHOOSE s \in may : \A t \in may : g[s].key <= g[t].key

\* cancel_with: everybody is told, nobody has loaded anything
CancelsWith(g, lk) ==
  /\ phase' = "Room" /\ hostLoaded' = FALSE
  /\ guest' = [s \in Seats |-> [g[s] EXCEPT !.loaded = FALSE]]
  /\ links' = ToGuests(g, [type |-> "Cancel"], lk)

\* remove_guest, with what the guest is told: <<>> when nothing
Removes(s, told, lk) ==
  LET g == [guest EXCEPT ![s] = NoGuest]
      lc == Closed(guest[s].conn, told, lk)
  IN  /\ leader' = Elected(g)
      /\ IF phase = "Loading" THEN CancelsWith(g, lc)
         ELSE guest' = g /\ links' = lc /\ UNCHANGED <<phase, hostLoaded>>
      /\ UNCHANGED <<starting, joins, starts>>

Kicked == <<[type |-> "Reject"]>>

\* Mutant: it is the host that is waited for
AllLoadedByTheHost(g, hl) == hl

\* check_all_loaded
AllLoaded(g, hl) == hl /\ \A s \in Seats : g[s].conn # 0 => g[s].loaded
ChecksAllLoaded(g, hl, lk) ==
  /\ guest' = g /\ hostLoaded' = hl
  /\ IF AllLoaded(g, hl) THEN phase' = "Begun" /\ links' = ToGuests(g, [type |-> "Begin"], lk)
     ELSE phase' = phase /\ links' = lk

\* start: a server's own map is loaded already
Starts ==
  /\ starts < world.starts
  /\ world.pause => \A s \in Connected :
       /\ \A i \in DOMAIN links[guest[s].conn].up : links[guest[s].conn].up[i].type # "Loaded"
       /\ \A i \in DOMAIN links[guest[s].conn].down : links[guest[s].conn].down[i].type # "Cancel"
  /\ starts' = starts + 1 /\ phase' = "Loading" /\ starting' = 0 /\ hostLoaded' = world.lobby
  /\ guest' = [s \in Seats |-> [guest[s] EXCEPT !.loaded = FALSE]]
  /\ links' = ToGuests(guest, [type |-> "Start", start |-> starts + 1], links)
  /\ UNCHANGED <<leader, joins>>

-----------------------------------------------------------------------------
(* HostLobby: connections that have not said Hello *)

\* Mutant: the seat is still held when its person is back
TakesOverHeld(s, l, h, lk) ==
  /\ guest' = [guest EXCEPT ![s].conn = l, ![s].game = h.game]
  /\ links' = [Closed(guest[s].conn, Kicked, lk) EXCEPT
                 ![l].down = <<[type |-> "Welcome", key |-> guest[s].key]>>]
  /\ UNCHANGED <<phase, leader, starting, joins, starts, hostLoaded>>

\* Mutant: nobody is elected when a person of the match is back
TakesOverUnelected(s, l, h, lk) ==
  /\ guest' = [guest EXCEPT ![s].conn = l, ![s].held = FALSE, ![s].game = h.game,
                            ![s].reserved = @ /\ h.game /\ ~h.asks]
  /\ links' = [Closed(IF guest[s].conn = l THEN 0 ELSE guest[s].conn, Kicked, lk) EXCEPT
                 ![l].down = <<[type |-> "Welcome", key |-> guest[s].key]>>]
  /\ UNCHANGED <<phase, leader, starting, joins, starts, hostLoaded>>

\* take_over: the person of the seat, on a new link
TakesOver(s, l, h, lk) ==
  LET back == guest[s].reserved /\ (~h.game \/ h.asks)
      g == [guest EXCEPT ![s].conn = l, ![s].held = FALSE, ![s].game = h.game,
                         ![s].reserved = @ /\ ~back]
      old == IF guest[s].conn = l THEN 0 ELSE guest[s].conn
  IN  /\ guest' = g
      /\ leader' = IF back THEN Elected(g) ELSE leader
      /\ links' = [Closed(old, Kicked, lk) EXCEPT
                     ![l].down = IF Unread(l, lk) THEN <<>>
                                 ELSE <<[type |-> "Welcome", key |-> guest[s].key]>>]
      /\ UNCHANGED <<phase, starting, joins, starts, hostLoaded>>

AnyoneBack == \E s \in Taken : ~guest[s].reserved /\ OfMatch(guest, s)

Sits(l, h, lk) ==
  /\ Seats # Taken
  /\ LET s == Min(Seats \ Taken)
         g == [guest EXCEPT ![s] = [NoGuest EXCEPT !.key = joins + 1, !.name = links[l].of,
                                                  !.conn = l, !.game = h.game]]
    IN  /\ guest' = g /\ joins' = joins + 1 /\ leader' = Elected(g)
        /\ links' = [lk EXCEPT ![l].down =
                       IF Unread(l, lk) THEN <<>>
                       ELSE <<[type |-> "Welcome", key |-> IF world.lobby THEN joins + 1 ELSE 0]>>]
        /\ UNCHANGED <<phase, starting, starts, hostLoaded>>

\* handle_hello
HearsHello(l) ==
  /\ phase # "Begun" /\ links[l].open /\ links[l].up # <<>> /\ links[l].up[1].type = "Hello"
  /\ LET h == links[l].up[1]
         lk == [links EXCEPT ![l].up = Tail(@)]
         mine == {s \in Taken : h.key # 0 /\ guest[s].key = h.key}
         running == \/ phase # "Room" \/ starting # 0
                    \/ Reserved(guest) # {} /\ ~AnyoneBack
     IN  \/ /\ phase = "Room"
            /\ \E s \in mine : TakesOver(s, l, h, lk)
         \/ /\ ~(phase = "Room" /\ mine # {}) /\ ~running
            /\ Sits(l, h, lk)
         \/ /\ ~(phase = "Room" /\ mine # {}) /\ (running \/ Taken = Seats)
            /\ links' = Closed(l, Kicked, lk) /\ UNCHANGED room
  /\ UNCHANGED <<world, client, bounds>>

-----------------------------------------------------------------------------
(* HostLobby: the messages of the guests *)

\* A message of seat s, and the links without it
Hears(s, type, Does(_, _)) ==
  LET l == guest[s].conn
  IN  /\ phase # "Begun" /\ l # 0 /\ links[l].up # <<>> /\ links[l].up[1].type = type
      /\ Does(links[l].up[1], [links EXCEPT ![l].up = Tail(@)])
      /\ UNCHANGED <<world, client, bounds>>

HearsLeave(s) == Hears(s, "Leave", LAMBDA m, lk : Removes(s, <<>>, lk))

\* An early or a late one is counted, and is no offence
StartPossible == Reserved(guest) = {} /\ Cardinality(Taken) >= world.least

HearsStartRequest(s) ==
  Hears(s, "StartRequest", LAMBDA m, lk :
    /\ starting' = IF phase = "Room" /\ starting = 0 /\ s = leader /\ StartPossible
                   THEN guest[s].key ELSE starting
    /\ links' = lk /\ UNCHANGED <<phase, guest, leader, joins, starts, hostLoaded>>)

CanMove(m) == phase = "Room" /\ starting = 0 /\ m.from \in Taken

\* move_seat: a guest goes with all that is his own, the lead included
HearsSeatMove(s) ==
  Hears(s, "SeatMove", LAMBDA m, lk :
    /\ IF s = leader /\ m.guard = Seating /\ CanMove(m)
       THEN LET g == [guest EXCEPT ![m.from] = guest[m.to], ![m.to] = guest[m.from]]
            IN  guest' = g /\ leader' = Elected(g)
       ELSE UNCHANGED <<guest, leader>>
    /\ links' = lk /\ UNCHANGED <<phase, starting, joins, starts, hostLoaded>>)

CanRemove(m) == phase = "Room" /\ m.seat # leader /\ m.seat \in Taken

HearsRemove(s) ==
  Hears(s, "Remove", LAMBDA m, lk :
    IF s = leader /\ m.guard = Seating /\ CanRemove(m) THEN Removes(m.seat, Kicked, lk)
    ELSE links' = lk /\ UNCHANGED room)

\* It carries no number of the start that it answers; outside of a start it is an offence
HearsLoaded(s) ==
  Hears(s, "Loaded", LAMBDA m, lk :
    /\ IF phase # "Loading" THEN links' = lk /\ UNCHANGED <<guest, phase, hostLoaded>>
       ELSE IF m.ok THEN ChecksAllLoaded([guest EXCEPT ![s].loaded = TRUE], hostLoaded, lk)
       ELSE CancelsWith(guest, lk)
    /\ UNCHANGED <<leader, starting, joins, starts>>)

-----------------------------------------------------------------------------
(* HostLobby: the rest of update(), and the host of a local room *)

\* The link of a guest ended: the seat waits for its key, or is free
SeatEnds(s) ==
  LET l == guest[s].conn
  IN  /\ phase # "Begun" /\ l # 0 /\ ~links[l].open /\ links[l].up = <<>>
      /\ IF guest[s].reserved \/ (world.lobby /\ phase = "Room")
         THEN /\ guest' = [guest EXCEPT ![s].conn = 0, ![s].game = FALSE,
                                        ![s].held = ~guest[s].reserved]
              /\ UNCHANGED <<phase, leader, starting, joins, starts, hostLoaded, links>>
         ELSE Removes(s, <<>>, links)
      /\ UNCHANGED <<world, client, bounds>>

HoldRunsOut(s) ==
  /\ guest[s].held /\ starting = 0 /\ Removes(s, <<>>, links)
  /\ UNCHANGED <<world, client, bounds>>

ReservationEnds(s) ==
  /\ phase # "Begun" /\ guest[s].reserved /\ Removes(s, Kicked, links)
  /\ UNCHANGED <<world, client, bounds>>

\* Mutant: a kept seat is taken for its person
MatchHereOnPaper == \E s \in Taken : OfMatch(guest, s)

\* expire_orphans: nobody of the match is here, and somebody else is
MatchHere == \E s \in Taken : IF guest[s].reserved THEN guest[s].conn # 0 ELSE OfMatch(guest, s)

OrphansEnd ==
  /\ phase = "Room" /\ Reserved(guest) # {} /\ ~MatchHere /\ Taken # Reserved(guest)
  /\ LET g == [s \in Seats |-> IF guest[s].reserved THEN NoGuest ELSE guest[s]]
     IN  guest' = g /\ leader' = Elected(g)
  /\ UNCHANGED <<world, phase, starting, joins, starts, hostLoaded, links, client, bounds>>

\* silence_ms: nothing comes over a link that its person does not use any more
Silence(s) ==
  LET l == guest[s].conn
  IN  /\ world.lobby /\ phase = "Room" /\ l # 0 /\ links[l].open /\ links[l].up = <<>>
      /\ client[links[l].of].link # l
      /\ links' = [links EXCEPT ![l].open = FALSE]
      /\ UNCHANGED <<world, room, client, bounds>>

LoadTimesOut ==
  /\ phase = "Loading" /\ CancelsWith(guest, links)
  /\ UNCHANGED <<world, leader, starting, joins, starts, client, bounds>>

EveryoneInGame == \A s \in Taken : guest[s].conn # 0 /\ guest[s].game /\ ~guest[s].reserved
StillLeads == phase = "Room" /\ leader # 0 /\ guest[leader].key = starting

EndStart ==
  /\ starting' = 0
  /\ UNCHANGED <<phase, guest, leader, joins, starts, hostLoaded, links>>

\* pump_start, and what the room's owner does in the same pass (lobby_waiting_pass):
\* he starts, or cannot; a START that nobody can carry out, or that waited too long, ends
PumpsStart ==
  /\ starting # 0
  /\ \/ (StillLeads /\ StartPossible /\ EveryoneInGame /\ Starts)
     \/ EndStart
  /\ UNCHANGED <<world, client, bounds>>

\* The host of a local room
HostStarts ==
  /\ ~world.lobby /\ phase = "Room" /\ Cardinality(Taken) + 1 >= world.least /\ Starts
  /\ UNCHANGED <<world, client, bounds>>
HostLoads ==
  /\ ~world.lobby /\ phase = "Loading" /\ ~hostLoaded
  /\ ChecksAllLoaded(guest, TRUE, links)
  /\ UNCHANGED <<world, leader, starting, joins, starts, client, bounds>>
\* ... who cannot load the map, or thinks better of it
HostCancels ==
  /\ ~world.lobby /\ phase = "Loading" /\ Fault /\ CancelsWith(guest, links)
  /\ UNCHANGED <<world, leader, starting, joins, starts, client, presses>>
HostKicks(s) ==
  /\ ~world.lobby /\ phase # "Begun" /\ s \in Taken /\ Fault /\ Removes(s, Kicked, links)
  /\ UNCHANGED <<world, client, presses>>

-----------------------------------------------------------------------------
(* ClientLobby, and the person before it *)

Mine(p) == links[client[p].link]
InUse(p) == client[p].link # 0 /\ Mine(p).open

\* A new link, with the key that one has: a page, or a game, which may ask for its color.
\* One that was used before is closed, or just not used any more
Opens(p, game, asks) ==
  /\ p \in world.people
  /\ client[p].phase = "Off" \/ (world.lobby /\ client[p].phase = "InRoom")
  /\ Len(links) < world.links
  /\ world.lobby \/ game
  /\ asks => game /\ world.match # <<>>
  /\ \E closes \in BOOLEAN :
       /\ IF closes THEN faults' = faults ELSE InUse(p) /\ Fault
       /\ links' = Append([l \in DOMAIN links |->
                             IF l # client[p].link THEN links[l]
                             ELSE [links[l] EXCEPT !.open = @ /\ ~closes, !.down = <<>>]],
                          [of |-> p, open |-> TRUE, down |-> <<>>,
                           up |-> <<[type |-> "Hello", key |-> client[p].key, game |-> game,
                                     asks |-> asks]>>])
  /\ client' = [client EXCEPT ![p].phase = "Joining", ![p].link = Len(links) + 1]
  /\ UNCHANGED <<world, room, presses>>

Becomes(p, new, n) == client' = [client EXCEPT ![p].phase = new, ![p].start = n]

\* What a message does to the machine; one that does not fit its phase does nothing
Takes(p, m) ==
  LET c == client[p]
      fits == \/ m.type = "Welcome" /\ c.phase = "Joining"
              \/ m.type = "Reject"
              \/ m.type = "Start" /\ c.phase = "InRoom"
              \/ m.type = "Cancel" /\ c.phase \in {"Loading", "Loaded"}
              \/ m.type = "Begin" /\ c.phase = "Loaded"
      next == CASE m.type = "Welcome" -> [c EXCEPT !.phase = "InRoom", !.key = m.key]
                [] m.type = "Reject" -> [c EXCEPT !.phase = "Off", !.start = 0]
                [] m.type = "Start" -> [c EXCEPT !.phase = "Loading", !.start = m.start]
                [] m.type = "Cancel" -> [c EXCEPT !.phase = "InRoom", !.start = 0]
                [] m.type = "Begin" -> [c EXCEPT !.phase = "Begun"]
  IN  client' = [client EXCEPT ![p] = IF fits THEN next ELSE c]

Reads(p) ==
  /\ client[p].phase \notin {"Off", "Begun"} /\ Mine(p).down # <<>>
  /\ Takes(p, Mine(p).down[1])
  /\ links' = [links EXCEPT ![client[p].link].down = Tail(@)]
  /\ UNCHANGED <<world, room, bounds>>

NoticesTheEnd(p) ==
  /\ client[p].phase \notin {"Off", "Begun"} /\ ~Mine(p).open /\ Mine(p).down = <<>>
  /\ Becomes(p, "Off", 0) /\ UNCHANGED <<world, room, links, bounds>>

Says(p, m) ==
  links' = IF InUse(p) THEN [links EXCEPT ![client[p].link].up = Append(@, m)] ELSE links

\* report_loaded
Loads(p, ok) ==
  /\ client[p].phase = "Loading"
  /\ IF ok THEN faults' = faults ELSE Fault
  /\ Says(p, [type |-> "Loaded", ok |-> ok])
  /\ Becomes(p, IF ok THEN "Loaded" ELSE "InRoom", IF ok THEN client[p].start ELSE 0)
  /\ UNCHANGED <<world, room, presses>>

Leaves(p) ==
  /\ client[p].phase \in {"InRoom", "Loading", "Loaded"} /\ InUse(p) /\ Fault
  /\ links' = [links EXCEPT ![client[p].link].open = FALSE,
                            ![client[p].link].up = Append(@, [type |-> "Leave"])]
  /\ Becomes(p, "Off", 0)
  /\ UNCHANGED <<world, room, presses>>

\* What only a machine sends that was told that it leads
Presses(p, m) ==
  /\ client[p].phase = "InRoom" /\ InUse(p) /\ presses < world.presses
  /\ leader # 0 /\ guest[leader].conn = client[p].link
  /\ Says(p, m) /\ presses' = presses + 1
  /\ UNCHANGED <<world, room, client, faults>>
PressesStart(p) == Presses(p, [type |-> "StartRequest"])
PressesMove(p, from, to) ==
  /\ from # to /\ from \in Taken
  /\ Presses(p, [type |-> "SeatMove", from |-> from, to |-> to, guard |-> Seating])
PressesRemove(p, s) == Presses(p, [type |-> "Remove", seat |-> s, guard |-> Seating])

\* A link fails, with what is on its way to the machine, and perhaps to the room
Breaks(l) ==
  /\ links[l].open /\ Fault
  /\ \E kept \in BOOLEAN :
       /\ kept => \E s \in Seats : guest[s].conn = l
       /\ links' = [links EXCEPT ![l].open = FALSE, ![l].down = <<>>,
                                 ![l].up = IF kept THEN @ ELSE <<>>]
  /\ UNCHANGED <<world, room, client, presses>>

-----------------------------------------------------------------------------
HearsGuest(s) ==
  \/ HearsLeave(s) \/ HearsStartRequest(s) \/ HearsSeatMove(s) \/ HearsRemove(s) \/ HearsLoaded(s)
OfTheRoom ==
  \/ \E l \in DOMAIN links : HearsHello(l)
  \/ \E s \in Seats : \/ HearsGuest(s) \/ SeatEnds(s) \/ HoldRunsOut(s)
                     \/ ReservationEnds(s) \/ Silence(s)
  \/ OrphansEnd \/ LoadTimesOut \/ PumpsStart
OfTheHost == HostStarts \/ HostLoads \/ HostCancels \/ \E s \in Seats : HostKicks(s)
OfAMachine ==
  \E p \in People :
    \/ \E game, asks \in BOOLEAN : Opens(p, game, asks)
    \/ Reads(p) \/ NoticesTheEnd(p) \/ Leaves(p) \/ PressesStart(p)
    \/ \E ok \in BOOLEAN : Loads(p, ok)
    \/ \E s, t \in Seats : PressesMove(p, s, t)
    \/ \E s \in Seats : PressesRemove(p, s)

Next == OfTheRoom \/ OfTheHost \/ OfAMachine \/ \E l \in DOMAIN links : Breaks(l)
Spec == Init /\ [][Next]_vars
\* The room is updated again and again: a time that runs there is over some day.  The three
\* hours of a reservation are longer than anybody waits, and a person does what he likes
FairSpec == Spec /\ WF_state(PumpsStart) /\ WF_state(LoadTimesOut) /\ WF_state(OrphansEnd)

-----------------------------------------------------------------------------
(* Properties *)

\* Whoever leads a lobby room came first of those who may lead, and somebody leads it as soon as
\* somebody may: whatever sits down, comes back, changes seats, leaves or runs out (elect_leader
\* is called by hand at each of these, not by what reads the leader).
LeaderIsFirst ==
  LET may == {s \in Taken : ~guest[s].reserved /\ (Reserved(guest) = {} \/ OfMatch(guest, s))}
  IN  world.lobby =>
        /\ leader = 0 <=> may = {}
        /\ leader # 0 => leader \in may /\ \A s \in may : guest[leader].key <= guest[s].key

\* A guest who has read all that the room sent is where the room is: in the room, loading the
\* map of this very start, or in the match; and while a lobby room's match loads, every seat has
\* a game at its end.  A machine that is left behind by the Begin waits for it for good, and
\* nobody knows (the Start, Loaded, Begin and Cancel of two starts cross, seats are held and
\* taken over; lobby.hpp:5-6 "the match begins when everybody is loaded").
InStep ==
  /\ world.lobby /\ phase = "Loading" => EveryoneInGame
  /\ \A s \in Connected :
       LET l == guest[s].conn
           c == client[links[l].of]
       IN  c.link = l /\ links[l].open /\ links[l].down = <<>> =>
             /\ phase = "Room" => c.phase = "InRoom"
             /\ phase = "Loading" =>
                  \/ c.phase \in {"Loading", "Loaded"} /\ c.start = starts
                  \/ [type |-> "Loaded", ok |-> FALSE] \in Range(links[l].up)
             /\ phase = "Begun" => c.phase = "Begun"

\* A START that waits is over some day, the loading too; and a lobby room in which only others
\* are, while seats are kept for persons of the match of whom nobody is there, is led again some
\* day: nobody in it could start, remove the kept seats or let somebody in (expire_orphans).
Leaderless ==
  /\ world.lobby /\ phase = "Room" /\ leader = 0 /\ Taken # Reserved(guest)
  /\ \A s \in Reserved(guest) : guest[s].conn = 0
Settles ==
  /\ (starting # 0) ~> (starting = 0)
  /\ (phase = "Loading") ~> (phase # "Loading")
  /\ Leaderless ~> ~Leaderless
=============================================================================
