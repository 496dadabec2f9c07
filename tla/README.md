# The network core of Ants in TLA+

Ants is a remake of a real-time strategy game for up to four players (C++17). Its matches run
in deterministic lock step: a host (a player's machine on a local network, or a dedicated
server that plays nobody) seals a *turn* of commands every 50 ms, sends it to everybody, and
every machine executes the same turns on its own simulation. This directory holds TLA+ models
of that core, configurations with which TLC checks them, and proofs that TLAPS checks.

All line numbers are in `PROJECT.json` (`map`: which definition stands for which lines).

## 1. Inventory

| Part | Source | State it keeps | Operations | Talks to |
|---|---|---|---|---|
| turn sequencer | `src/ants_net/sequencer.cpp` | active seats, acknowledgements, the queue of the turn being filled, waiting commands, hash reports | set_active, submit, submit_system, resume, on_ack, on_hash, on_referee_hash, seal | called by the host session |
| host session | `src/ants_net/session.cpp` (first half) | a client record per seat (connection, present, violations, lag clocks), frozen, stall clock, returning players | start, update (poll, silence, attendance, seal, police, run), drop, lose, rejoin | sequencer, attendance, turn log, runner, links |
| client session | `src/ants_net/session.cpp` (second half) | mode (Normal, Electing, Following, Fetching, Promoted, Lost, Reconnecting, Rejoining, CatchingUp), clocks, links to the other guests | submit, poll_host, poll_peers, election, reconnect, catch-up | host link, peer links, runner |
| lock-step runner | `src/ants_net/lockstep.cpp` | queue of turns, next turn to receive and to execute, log of the last turns, pacing | on_turn, update, fast_forward, set_held | simulation, jitter buffer |
| jitter buffer, latency | `jitter.cpp`, `latency.cpp` | samples of lateness, target | on_arrivals, on_stall | runner |
| turn log | `turnlog.cpp` | all turns of a match, bytes, shared budget | append, read, release | host session |
| attendance | `attendance.cpp` | per seat Present / Absent / CatchingUp / Dropped, votes, pause and its cap, flap counters | lost, returning, caught_up, catch_up_failed, vote, update | host session |
| lobby | `lobby.cpp` | seats, colors, leader, the running start (who has loaded), held rooms, rematch | hello, start, loaded, cancel, leave, move seat, update | room, net game |
| rooms of the server | `ants_server/room.cpp`, `room_manager.cpp` | rooms by code, places, parked connections, queue of rooms to restore | create, route, update, restore, close | lobby, host session, stores |
| restart record | `ants_server/restart_record.cpp` | a file per running match: head, turns, checks | append before send, read back, refuse | room |
| replay store, recorder | `ants_server/replay_store.cpp`, `ants_replay/` | files within limits of count, age and bytes | keep, evict, list | room |
| history, statistics, accounts, submissions | `ants_server/*.cpp`, `ants_db/` | tables of SQLite | HTTP handlers of one thread | control interface |
| simulation | `ants_sim/` | the game | apply_command, tick, state_hash | runner |
| bots | `ants_ai/` | plans of computer players | one decision after a tick | host session (submit_bot) |
| chat hub | `hub/*.py` (asyncio) | connections, logins, lines, limits | handlers that await | browser clients, SQLite |
| application, web, tools, assets | `ants_app/`, `web/`, `tools/` | screens | | |

The processes of a match are one host and up to three guests (four with a dedicated server),
each with its own clock. They share nothing but FIFO links that can break at any moment, with
whatever was still on its way lost. Within a process everything runs in one thread, in
`update()`, in a fixed order.

### What is hard, and what makes each part correct

* **Sequencer**: commands above a turn's share are carried into later turns. None may be
  lost, doubled or overtaken; a seat that is gone must leave nothing behind its `Drop`. Hash
  reports of different machines arrive in any order, long after the turn, and are pruned by
  acknowledgements: the comparison must still take place.
* **Sessions**: a guest can leave, be thrown out, lag out, fall silent or lose its link, some
  of them at once and in the middle of a broadcast. Every machine must nevertheless run the
  same turns, with one `Drop` for the seat. A host with a seat waits for laggards and must
  not wait for ever.
* **Runner**: takes only the very next turn, so a single missing one stops a machine for good.
* **Attendance**: pauses, countdowns, votes and second attempts overlap. Every way out of
  Present must clear a seat's votes, no attempt may extend an absence, the cap must hold
  whoever comes and goes, and the match must go on in the end.
* **Host migration**: guests find out at different times that the host is gone and must end
  up with one host and one history; the candidate may die too, and an answer may come late.
* **Rejoin**: a player's old link, his new one and a second window are heard in any order
  while others are dropped, and the stream he is given must end exactly where the match is.
* **Lobby**: the start barrier under cancellations, leavers, a held room, pages that become
  games; the leader is a stored value that a dozen handlers must elect anew.
* **Restart record**: crash between any two steps of seal, write, send, run; with the power, the
  last turns of the record go too.

`PROJECT.json` lists these at their lines under `hazards`, with the properties that watch them
or the reason why there is none yet.

## 2. Plan

1. `MatchHistory`: the abstract promise of lock step. *Done.*
2. `Sequencer`, `SequencerMachine` and its proofs. *Done.*
3. `Match`: host, guests, runners and links around the sequencer; implements `MatchHistory`.
   *Done*, with proofs that it implements `MatchHistory` and of all its safety properties.
4. `Attendance`: one room's seats on a bounded clock: losses, returns, catch-ups, votes,
   flapping, the cap, the countdown, the restart. *Done*, with proofs of all its safety properties.
5. `HostMigration`: three to four seats, election, fetching of turns, `resume`. *Done*, with proofs
   of what holds in every world.
6. `Rejoin`: the host that holds seats: `accept_rejoin`, `pump_rejoiners`, the reconnecting
   client. *Done*, with proofs of all its safety properties. The clocks of `Attendance` are choices
   there: the two modules share the state of a seat, not its times.
7. `Lobby`: the start barrier, leader, seats, held room, rematch. *Done* for local rooms and
   lobby rooms of the server, with proofs of all its invariants.
8. The restart of the server: crash between write, send and run, and what the record holds.
   *Done* inside `Rejoin` (who comes back after a restart, and with what, is the same
   protocol); the replay in slices and the players parked until it ends are open.
9. `TurnLog` and the budget shared by all rooms; pacing of the runner over integers. The log
   that is full is in `Rejoin`; the rest is open.
10. `Hub`: lines, presence and logins with a step per await. Open.

Theorems worth proving: the invariants of the sequencer, of `Match` (and that it implements
`MatchHistory`), of `Attendance`, of `Rejoin` and of `Lobby`, and `TypeOK`, `InStep` and
`NoHostBeside` of `HostMigration`, and its `OneHost` and `SurvivorsAgree` as long as one machine dies
(all done, section 6). What is left is `OneHost` and `SurvivorsAgree` for several deaths in worlds that are `whole`.

## 3. Modules

`Attendance`, `HostMigration`, `Rejoin` and `Lobby` have a variable (`match` or `world`) that `Init`
chooses out of a constant set and no step changes: the circumstances of a behaviour, that is its limits,
who is there and what may fail. One run so covers several scenarios, each with bounds of its own.

| Module | Stands for | Notes |
|---|---|---|
| `MatchHistory` | the promise of the core | a history that grows, machines that play prefixes of it |
| `Sequencer` | class `Sequencer` | no variables: an object is a record, a method an operator on it |
| `SequencerMachine` | one `Sequencer` object | seats come and go, commands, seals, resume; history variables `taken`, `out` |
| `SequencerMachine_proofs` | | theorems about it |
| `Match` | `HostSession` (no seats held), `ClientSession` (normal mode), `LockstepRunner`, links | one action per message, executed turn, pass of the sealing loop, failure |
| `Match_proofs` | | agreement, and the refinement of `MatchHistory`; what each guest is promised: nobody left behind, no gap, no false alarm, orders kept, the `Drop` last, divergences found |
| `NumberFacts` | | the least and the greatest of a set of numbers, counting: lemmas of the other proofs |
| `Attendance` | class `Attendance` | operators on a record `at`, one action per method, a clock that ticks |
| `Attendance_proofs` | | all its invariants and `RestartGrace` |
| `HostMigration` | the election in `ClientSession`, `HostSession::resume` | one action per message and time-out; machines die, links break |
| `HostMigration_proofs` | | in every world: its types, that a guest is in step with its host, and that nobody takes over beside the first host |
| `HostMigrationSingle_proofs` | | one host and one history when one machine dies |
| `Rejoin` | a `HostSession` that holds seats, `ClientSession` from Reconnecting to CatchingUp, `Room::begin_restored` and the record | links are records with two ends, machines make new ones |
| `Rejoin_proofs` | | all its invariants |
| `Lobby` | `HostLobby`, `ClientLobby` | one action per message, press and time; local room or lobby room |
| `Lobby_proofs` | | all its invariants |
| `MC...` | | bounds, constants and worlds for TLC |

### `Sequencer`

`queue_` is one vector that `seal()` sorts by issuer, stably (`canonical_order`). Such a list is
determined by the sequence of each issuer, so `queue` and a turn are functions from seats to
sequences of commands. A command is a token; what may be in one, and that clients cannot send
a `Drop`, is the difference between the constants `Command` and `Drop`. `reports_` with
`have_report_` is one partial function on pairs of turn and seat; `referee_` one on turns.

### `Match`

| State | Code |
|---|---|
| `sq`, `log` | `sequencer_`; the turns that `seal()` returned |
| `present`, `violations` | `Client::present`, `Client::violations` |
| `frozen`, `holdup`, `named` | `frozen_`, `stall_player_`, the seats of `desyncs_` |
| `wire`, `toHost`, `toGuest` | whether a connection stands, what is on its way |
| `mode`, `desynced` | `ClientSession::mode_` (Normal, Lost), `desynced_` |
| `got`, `ran` | the turns `on_turn` took, `next_execute_` |
| `clicked`, `astray` | the world: orders given by a player; the turn from which a simulation differs |

`update()` runs its parts in a fixed order; the model runs them in any order, one message, turn
or pass at a time. Every order of the code is among those. What a clock decides (silence,
`laggard_drop_ms`, the lag policy of a server) may happen at any moment. A guest runs any number
of its turns in one frame and then sends the hashes and one acknowledgement, as the code does.
`HostSeals` covers a turn whose broadcast finds links closed: those guests are dropped into
the *next* turn. A `wire` that broke keeps an arbitrary prefix of what was under way in each
direction.

The guests are the program's own `ClientSession`s, so malformed messages and floods do not
occur; a command refused for want of room is the one violation. Chat, pings, lag notices and
the lobby messages that a running match ignores are left out: they change nothing here.

### `Attendance`

| State | Code |
|---|---|
| `at.seat[s]` | `Seat`: `away`, `stalled`, `catching` are the ages of `since_ms`, `progress_ms`, `catch_start_ms`; `spent` is `catching_before_ms`; `losses`, `attempts` are ages, newest and oldest first |
| `at.vote` | `Seat::vote` of every seat |
| `at.pauseBefore`, `pauseReal`, `pauseAge`, `owe`, `resuming`, `resumeAge`, `resumeBefore` | the members of the class |
| `looked` | `update()` has been called since the last handler and tick |
| `held`, `stopped`, `pausing`, `calm`, `due`, `trying`, `unseen`, `uptime` | history: what a spectator with a clock sees |

The code stores when a thing happened and compares differences; the model stores how long ago
it was and lets `Tick` age everything that runs. That needs no bound on the clock, only one on
ages (`Forever`), and it is exact up to the wrap of the 32-bit clock. An age of a state that a
seat is not in is kept at 0, a loss or an attempt that no rule can see any more is
forgotten. `HostSession::update` calls the handlers and then `update()` in every pass, with the
same time, so `Tick` waits for `Update` after a handler: a pass takes milliseconds, the rules
count seconds. `update()` itself is one action, its four stages in the order of the code.
`DroppedOf` drops a set: `settle_pause` sees the pause end at the last of them either way.
The stream budget (`charge_stream`) can only turn a return down.

### `HostMigration`

| State | Code |
|---|---|
| `session[g]` | the members of `ClientSession` under "host migration": `mode_`, `host_seat_`, `epoch_`, `answers_`, `expected_mask_`, `following_`, `hint_`, `host_refusals_`, `dead_`, `fetch_from_` ...; mode "Host" is a `HostSession` |
| `got[g]` | the log of the runner, each turn as the seat that sealed it |
| `clients[h]` | whom the `HostSession` of h takes to be present |
| `alive`, `open`, `net`, `cuts` | the world: machines, links and what is on its way |
| `silent[g]` | whom `peer_alive` / `host_alive` give up, by `peer_silence_ms` / `host_silence_ms` |

Two machines hold the same turn of a number iff the same host sealed it for both, so a history
is a sequence of seats; what turns hold is the business of `Match`. Times are replaced by what
they are for: with `steady`, a silence is noticed only when all that was sent has been
heard and nothing more will come (the limits are seconds); without it every time-out may fire
at any moment. The pace of the pings and the limit of four Requests a second are left out.

### `Rejoin`

| State | Code |
|---|---|
| `links` | connections in the order in which they were made: their owner, what is under way up and down, which end has closed (`copen`, `sopen`), whether it is cut |
| `machine[m]` | `ClientSession`: `mode_`, the link, the turns held and executed, `catch_known_`, `catch_total_`, `caught_up_sent_`, the reason of a Reject |
| `att[s]`, `client[s]` | `Attendance::Seat::state`; `Client::conn` |
| `rejoiners` | `rejoiners_`: link, stage, next turn of the stream, acknowledged, promised total |
| `log`, `queue` | the turns sealed and in the record; the Drops for the next turn |
| `life`, `deaths` | how many times turns were lost with the power; deaths of the server |

A closed link is seen by the other end when it has read everything; the server reads different
links in any order. A seal, its line in the record and its broadcast are one action; that the
process may die between them is in `Restarts` (`Written`: the turn is in the record, and any of
the players have been sent it). A broadcast that fails on a link (session.cpp:185) is a `Loses` of
that link right after, which may always follow. A restart with `power` may take the last turn from the record,
though it was sent. A turn carries the `life` in which it was
sealed: two histories that part are two lives. `Verifies` compares what the state hash
compares. Attendance's decisions (vote won, cap reached, return refused) are choices, bounded by
`faults`. A machine in `Latecomers` has the key and nothing else: a second window.

### `Lobby`

| State | Code |
|---|---|
| `phase`, `guest`, `leader`, `hostLoaded` | `phase_`, `guests_` (key, connection, loaded, game or page, held, reserved), the leader, `host_loaded_` |
| `starting` | the START that waits (`pump_start`) |
| `joins`, `starts` | the join order; how many starts there were |
| `links`, `client[p]` | as in `Rejoin`; `ClientLobby`: phase, link, key, and the start it read |

A press is a message made from the room as its sender sees it, and it is heard when the room
has moved on. `seating_hash` covers the state and the name of a slot; persons have different
names here. `removed`, `held` and `reserved` seats are three ways to keep a place in the order.
A room opened again after its match has a reservation for every person of it.

## 4. Runs

| Run | Instance | Question |
|---|---|---|
| `sequencer` | 2 seats, 2 interchangeable commands, a turn takes 1 per seat, 2 may wait, 3 turns, 5 commands | is anything lost, doubled or overtaken? |
| `match_orders` | LAN host, 1 guest, 3 turns, 3 commands each, 1 per turn, 1 waiting, 2 violations allowed | do orders survive carrying, breaking links and drops; is the `Drop` last; is nobody left behind; does `Match` implement `MatchHistory`? |
| `match_two_guests` | LAN host, 2 guests, 2 turns, hash each turn, 1 machine astray, 1 guest may go | the same turns everywhere, and no gap |
| `match_referee` | server, 1 guest, 1 bot, 4 turns, hash every 2nd, 1 machine astray, start delay | is whoever differs named, and nobody else; does the start delay cost no order? |
| `match_survivors` | LAN host, 1 guest, 3 turns, `laggard_drop_ms` | do guests play everything, are losses noticed, does the host get on? |
| `attendance` | worlds `Times` (2 seats, no vote), `Votes` (3 seats, 2 shaky, flap at 2 losses), `Restarted` (2 seats after a restart, or not) | do cap, catch-up time, countdown, held time and votes agree with what a spectator with a clock sees; does the match go on? |
| `migration` | worlds `Three` (3 machines, the host and the next one die), `Four` (three guests are left), `CutOffGuest` (a link or a machine), `Hung` (every time-out may fire) | one host, one history, nobody hosting beside the match, everybody together in the end |
| `rejoin` | 2 seats, a second window; worlds: links that fail twice, a second window, one astray, a full log, a restart of the server, a restart and two faults, a restart with loss of power | one player per seat, who misses nothing; one history; nobody waits for ever |
| `lobby` | 3 persons, 3 seats; worlds `Local`, `Waiting`, `Pressing`, `Gather`, `Rematch` | does the earliest lead, does the match begin for everybody, does nothing wait for ever? |
| `migration_second` | 4 machines, host and candidate die | violates `OneHost`, see section 7 |
| `rejoin_superseded` | 2 machines, links that fail twice | violates `ReplacedByAnother`, see section 7 |
| `lobby_hasty` | `Local`, the second start does not wait | violates `InStep`, see section 7 |

Five configurations more are to be run by hand. `MCMatchRefereeAlone.cfg`, `MCAttendanceFlap.cfg`,
`MCHostMigrationCrossing.cfg` and `MCHostMigrationLate.cfg` each show a departure of section 7;
`MCMatchHostAlone.cfg` checks `HostGetsOn` under the host's fairness alone (section 5).

**Bounds.** A command waits, is carried and is refused already with a share of one per turn and
one or two places to wait; a third command reaches the refusal. Three turns reach a turn that is
sealed, one that is carried into and one that follows a drop. `MaxLag` 0 or 1 makes the
sealing stop within the turns there are. Two guests are enough for one to be ahead of the
other; `FewLosses` (at most one guest goes) keeps that run small, and the runs with one
guest have no such bound. `RefereeWindow` is above `MaxTurns` in the runs
(128 turns in the code, 6.4 s): a referee that is later than that is out of scope.

The times of `attendance` are the smallest that keep the rules apart: one tick of stall
below the two of the catch-up time, so that a catch-up fails for either reason; a cap that takes
a long pause and a short one; a countdown of two, so that it can be cut short. A restart's
vote comes a tick later than a lost link's, and before the cap. `shaky` names the seats whose
link breaks; a Hello per tick is enough to try again, to take over a live link and to be
refused. `forever` is above every limit that matters in its world, and where it is not (`held`)
both sides of the comparison stop there.

In `migration` one turn and two histories are enough to tell a survivor that is ahead, behind or
astray; three seats make a candidate and a follower, four a second follower that learns
of everything later. `CutOffGuest` is the smallest world in which somebody is alone with a
living host elsewhere. The refusal limit of the code is 3; the worlds take 3, 2 and 1. The
safety of the history and of the one host is stated for `steady` worlds without cuts: without
those limits on the network no election of this kind (no majority is asked for) can give it, and
the code does not claim it; `Hung` checks what must hold even then (`InStep`, which is also proved
for every world).

In `rejoin` a batch and the window of the stream are one turn, so that a stream of two turns
already stops and waits for an acknowledgement. Two turns give a match that went on while
somebody was away. Four connections are two returns; six in the world with a restart, where
everybody has to come back, and five where the power may fail.

In `lobby` `presses` bounds what a leader presses, `links` how often anybody comes. Two starts show a
cancelled one and the next. With `pause` the next start waits until what was on its way is
read: that is what the two seconds (`kRetryMs`) of a server's room give on an ordinary link; without
it see section 7. `Rematch` keeps the seats of two persons, one of whom never comes back.

`CHECK_DEADLOCK FALSE`: a bounded match stops when all turns are sealed and run, and a room in
which everybody has gone has nothing left to do.

**Mutants.** The modules hold, before the definition they change, the mutants named in
`PROJECT.json`: forms of the code with one plausible bug. Each property fails under its mutant.

## 5. Fairness

`HostFairness`: `update()` of the host is called for ever, and each call polls every guest, seals
or looks at the laggard, and runs the host's own turns; so each of these steps is weakly
fair. `GuestFairness` adds the same for every guest's `update()`. The run `match_survivors` checks
its properties under both (`FairSpec`). What carries `HostGetsOn` among them are the host's own
timers for silent and lagging guests: it holds under `HostFairness` alone too (`HostSpec`), when
guests may do nothing at all, which `MCMatchHostAlone.cfg` shows by hand. It needs `LaggardDrop`:
with the default `laggard_drop_ms` of 0 the code waits for a guest for ever, on purpose (docs/NETWORK_PORT.md, flow control of a host with a seat).

`FairSpec` of `Attendance`: the server's loop goes on, so what is to be looked at is looked at
(weakly fair), and time goes by however much the players send in between (strongly fair: a
handler in the model postpones `Tick` until the next `Update`, but takes no time). The players
owe nothing: no return, no vote, no progress. `Looks` is the change of `looked` that only
`Update` makes.

`HostMigration`: `update()` of every machine runs all the time, which delivers messages, notices
silence and looks at the times of an election. Deaths and cuts owe nothing and are bounded.
With the flag `patient` a machine gives up waiting for a lower seat (`elect_timeout_ms`, four seconds)
only when that seat has not lost the host at all; without it also when the lower seat hangs
for that long.

`Rejoin`: the server's pass and each machine's `update()`; the cap of the pauses is *not*
counted on, so `Settles` says that a way back leads somewhere by itself.

`Lobby`: only what a clock of the room does (`PumpsStart`, `LoadTimesOut`, `OrphansEnd`). Persons
owe nothing: no load, no press, no return. The three hours of a reservation are not counted on.

## 6. Proofs

`SequencerMachine_proofs` proves for every set of seats and commands and all limits that
`TypeOK` (proved only), `FullTurnFirst` and `NothingLost` are invariants of `SequencerMachine`. The inductive
invariant `IInv` adds to them `QueuedByBound` (the count of a turn never exceeds the share) and
`GoneWaitsForNothing` (an inactive seat has nothing waiting): without the latter a `Drop`
could overtake a command, without the former `FullTurnFirst` would not survive a command that
finds room. Assumed: `SequencerAssumption` only.

`Match_proofs` proves for any guests, bots and limits, with a host that plays or a server that
referees, that `TypeOK` and `Agreement` are invariants of `Match` and that `Match` implements
`MatchHistory` (`OneHistory`, the run's `PlaysOneHistory`). `Agreement` is not inductive: a guest
takes whatever comes to it with the number it waits for. The inductive invariant `IInv` therefore adds
`RightTurnsComing` (a turn on its way to a guest is the turn of the history that its number
says), that the history has as many turns as the sequencer counts (`Len(log) = sq.nextTurn`,
so a sealed turn gets the next number), and that the host's own runner has all of it.
The refinement then needs that what a runner has executed is a prefix of what it was given:
a step that seals maps to `Seal`, a step that runs maps to `Play`, all others to a stutter.
Note what is not in `IInv`: nothing about who is present, what is acknowledged or
where a link breaks. The agreement rests on the numbering of the turns alone.

Its second part proves what `Match` promises each guest. The host knows of a guest only what its
messages say, and a guest of the match only what comes to it; so each invariant follows what it
is about from where it is made, over the link, to where it is used.

* `NobodyLeftBehind`: an acknowledgement on its way says no more than its sender has run
  (`TrueAcks`), the sequencer takes nobody to be further than he is (`AcksAreRun`), whoever is in
  the match is waited for (`Awaited`) and lags by `MaxLag + 1` at most (`LagBound`).
* `NoGap`: the invariant `GapInv` gives each turn its place in the queue of the link; the property
  itself only counts.
* `NoFalseAlarm`: the invariant `TruthInv` says of every hash, in a message, in `reports_` or in
  `referee_`, that it is that of a turn its machine has run.
* `DropIsLast`: every step does one of six things to a seat (`SeatStep`); who is present has no
  `Drop`, who is not has one, in the queue of the turn or in the history, with nothing behind it.
* `OrdersKept`: a ledger gives for every turn the order with which it ends, and for the queue, the
  waiting commands and the messages the orders they start and end with. The orders of one
  guest are numbered, so order and completeness are equations between neighbours.
* `DivergenceFound`, for a host that plays (`DivergencesAreFound`, assumes `~Seatless`) and for a
  server that acknowledges for a bot (`RefereeFindsDivergences`, assumes a bot, and holds for the
  behaviours in which the referee is never further behind than `RefereeWindow`). The invariant
  `FoundInv` says that hashes precede on the link the acknowledgement that covers them
  (`Preceded`), that the host keeps its own hashes until everybody has passed them (`OwnKept`),
  and that a seat the host acknowledges for is never acknowledged beyond what the host ran
  (`OwnStay`). A server without bots satisfies neither hypothesis, and there the property
  fails: `MCMatchRefereeAlone.cfg`, section 7.

`NoGap`, `OrdersKept` and `DropIsLast` are stated over places in the history (which turn, which of its
commands), not by walking along it; this is what makes them provable, since what a recursion
computes for every history is beyond the provers.

Assumed of `Match`: `MatchAssumption` (who the seats are, and the ranges of the limits) and
`SequencerAssumption`. `MaxTurns`, `MaxCommands` and `MaxBroken` may be any numbers, so the
bounds of the runs are not bounds of the theorems.

`Attendance_proofs` proves all invariants of `Attendance` and the action property `RestartGrace`,
for every table and every configuration in `Settings`. Every handler does the same few things to
seats, votes and clocks (`Handled`); the invariant is shown once to survive whatever is
`Handled`, and each handler to be `Handled`. `IInv` relates what the class computes from its clocks to what
the spectator measures: `HeldFor(at) = held`, the time stopped to the pauses that are over and
the one that goes on, what a seat has spent on catching up to what the spectator saw of it, and a
countdown that is due to one that runs or will (`ClockInv`, `SeatInv`); `VotesInv` says that no
vote of an absent seat is ever stored, which is more than that none is counted. `OpenInv` adds that
choices are stored only about a seat that is absent long enough or flaps (so none is left of a
vote that is over), and, for the seat that stops flapping while it is away, that an absence which a
restart excuses is never one of a seat that flaps.
A loss or an attempt can only be forgotten at one end of its list because they are in the order
of their ages (`TickOf`), and the lists keep to their limits.

`Rejoin_proofs` proves all invariants of `Rejoin` for any seats, machines, links, faults and deaths of
the server. The invariant follows the links: `AnyLine` says what can be on its way over a link, seen from
the machine at its end; `PlayerLine` what the server knows of the link it takes for a
player's, `ComerLine` of that of somebody who comes back. `SeatInv` adds that a machine which has
said over one link that it is back has been told nothing over another since, and that no
open link is nobody's: without it a second window could take a seat twice.
`DroppedOnce` needs only what each step does to the Drops (`DropsInv`); `OneHistory` that what is
acknowledged and verified is a prefix of the record's log.

`Lobby_proofs` proves the types of `Lobby`, `LeaderIsFirst`, and `InStep` for the worlds with `pause`
(without it `lobby_hasty` violates it), for any persons, seats and bounds. The leader is a stored value
that twelve handlers elect anew; `First` says of whom: the one with the least key among those who may lead.
`InStep` compares a machine that has read everything with the room; the invariant has to
speak of every machine before that. `Fits` says, for each phase of the room, which words can be under way
to a machine in which phase (a Start that is cancelled is followed by its Cancel, a Begin finds
only machines that have loaded), and `InLine` that all guests whose links stand fit. `Fine` says
what can be on a link at all: a Hello is the first word of a link that is nobody's yet, a Start
has no later number than the room's. `Joined` counts keys against the Hellos that were read, so
the numbers of a room are bounded by the links that were made. A handler reads one message, closes links
and says one thing to all; `Fine`, `InLine` and `GuestsInv` have one lemma for each of these, and every
handler is a composition of them.

`HostMigration_proofs` proves `TypeOK` and `InStep` of `HostMigration` for any machines and all worlds: any
number of deaths and cuts, time-outs that fire when they like, several hosts at once. A guest appends
whatever turn has the number that it waits for and comes from its host, so `IInv` has to say that
the link brings the right one. `Stream` says it of a guest that has its host, and of one that will
have it when it takes the Resume that waits for it: what is behind that word ends
with just the turns it lacks. Such a machine may take part in elections until then, fetch turns,
promise another candidate to follow it; none of this may lengthen or change its history below what the Resume says.
`Sound` ties each message to the state of its sender (an Accept never says more
turns than its sender has, a Resume is of a host, and what that host sealed comes behind it). `HostAt`
says that epochs are counted: whoever is in epoch e, a host of every epoch up to e has been. So no epoch
exceeds the number of seats, which is `TypeOK`'s bound. `TurnsAt` says that only hosts sealed, `OwnAt`
what a guest has of its host's turns. Almost every step is one of a machine
that hosts nothing (`GuestKeeps`): it reads at most one message of each link, cuts itself off
and says what is true of itself. The others have a lemma each: a turn is taken
(`TurnKeeps`), a Resume is (`JoinKeeps`), somebody becomes host (`PromoteKeeps`), a host seals (`SealKeeps`),
a machine dies or a link breaks (`WorldKeeps`).

The proof corrected the statement. `InStep` said that a guest's history is a beginning of its host's, also
where time-outs deceive, and the runs with four machines found nothing against it. It is
false for five: after false time-outs two candidates of epoch 1 host a part of the others each and both seal a first
turn; when both stop, a guest of each part elects with the other in epoch 2, and `on_resume` compares only
the *number* of turns, so it joins with a different turn of the same number. What holds in every world is the
present `InStep`: the guest has every turn its host itself sealed and it was given, and what is under way
continues where its history ends. That histories agree below that is `SurvivorsAgree`, which needs limits on the network.

The least element of a set of numbers is taken from `NumberFacts`, whose lemmas are derived
from the library's theorems on finite sets; nothing is proved by an induction of our own.

`OneGame` proves `NoHostBeside` for every world: any number of machines, deaths and cuts. A guest that
still plays with the first host answers nobody but with a refusal that names this host, and a candidate
that holds such a refusal does not promote itself; but it asks first, a link to it can break,
and it can ask again. So the invariant `BesideInv` speaks of every pair of a guest `b` that still plays there
(`Stays`) and a machine `g` that does not (`Departs`) with a link between them. `RefusedInv` says that as soon
as `g` has proposed, it holds the refusal of `b`, or one or the proposal itself is on its way
(`Pending`): `b` is never among those that `g` may take for dead, since a silence is noticed only on an
empty link. `LoyalInv` says that nothing else is on its way from `b`; `FirstEpoch` that nobody who comes from
the first host is beyond its first election, so that no proposal is dropped for its
epoch; `FreshInv` and `SilentInv` that nobody has given `b` up before. `Behaves` collects what a step of one
machine may do to all that, and every handler is shown once to behave. The first form of the statement, of
every host, is false (section 7, `MCHostMigrationLate.cfg`): the proof failed at `FirstEpoch`, and TLC
found the behaviour.

`HostMigrationSingle_proofs` proves `OneHost` (`OneSuccessor`) and `SurvivorsAgree` (`SameTurns`) for the
case the election is made for: one machine dies, any one, at any moment. Hypothesis of both is `Single`:
no time-out deceives and no link between two that live breaks (`Clear`), the guests are `Patient`, and no
second machine has died in the state that is spoken of or before it. Without patience or after
a second death there can be two hosts (section 7: `MCHostMigrationCrossing.cfg`, `migration_second`), and a machine
that a broken link parts from all the others hosts for itself.
Machines, turns, messages under way, the moment at which each one notices the death, and how far each one had got are any.
Neither property is inductive, since both are about what is decided in an election that takes many messages. `SingleInv`
says in which of three phases the match is:

* *Before* (`BeforeAt`): the first host lives, every guest plays with it and nothing is under way but its turns.
* *Meanwhile* (`MeanwhileAt`): it is dead and nobody hosts. The lowest of the others, `Heir`, is everybody's candidate
  (`LowestIsHeir`), and each of the rest is at one of five points of its conversation with it (`Line`):
  not asked, or Heir has withdrawn; asked; its answer on its way; answered, with the number of turns that it has *now*; or
  Heir has counted and waits for the turns of the furthest (`Brings` says which of them are under way).
  An acceptance stays true because who follows reads no turns of anybody. A refusal names the dead host, which the
  guest has heard lately, and says that Heir has proposals left (`MayBelieve`, the code's `host_alive_ms` against
  `RefusalLimit` times `retry_ms`), so Heir does not surrender, and asks again. Nobody else ever finds that it is
  its turn (`OnlyHeirsTurn`).
* *After* (`AfterAt`): Heir hosts and serves all the others; each has a beginning of Heir's turns, and whoever has not read
  the Resume yet has it before it, naming at least as many turns as it has (so nobody is lost by it).

`OneHost` is read off each phase. `SurvivorsAgree` is, before and meanwhile, that all turns anybody has
are the first host's (`TurnsAt` of `IInv`), hence equal; the step to the last phase (`HeirPromotes`) needs that Heir
has heard from all (`AllAnswered`) and has as many turns as each: that is what the fetching is for,
and the mutant of `migration` that leaves it out breaks `SurvivorsAgree`.

Only model-checked: `OneHost` and `SurvivorsAgree` where several machines die (they are false in general, section 7,
and hold under the limits that the worlds of `migration` state), and all liveness, which is out of this prover's
reach.

## 7. Departures

Where the code does something else than its documents and comments say. The first three are
runs.

`migration_second`: host and candidate (seat 1) die without closing their links. 2 notices it
first, asks 3, and is refused with the name of 1, whom 3 has not missed yet. 2 takes 1 for its
hint, but 1 is in `dead_` already, so the lowest that lives is 2 at once; it asks again within one
frame, is refused again, and as the name is the hint goes on to `promote()` without 3
(session.cpp:1115). 3 later promotes itself. docs/NETWORK_PORT.md:73 says "A second failure during
the election is handled by the same rule", :69 "so nobody diverges".

`rejoin_superseded`: whichever Hello is *read* last wins a seat (`accept_rejoin`), and neither it nor
`RoomManager::update` asks whether its link still stands. A machine that gives up a slow attempt and
makes the next one can have the Hello of the first read after that of the second: its live link
is told Superseded, which is final, though there is no second window and the older link won.

`lobby_hasty`: a Loaded has no number of the start it answers. When a start is cancelled and the next
follows while a guest's Loaded is on its way, it counts for the second start; the Begin then
reaches a guest that is still loading, is ignored, and the guest waits in Loaded while the match
runs. A server's room waits two seconds after a cancel, a local host does not.

Four more have no run in `PROJECT.json`, but a configuration each.

* `MCMatchRefereeAlone.cfg` violates `DivergenceFound`: `on_ack` erases clients' hash reports once all
  *active seats* are past the turn. A server's referee has no seat, so it does not count. If it
  runs a turn only after every client has acknowledged two turns more (its runner keeps one to
  four turns in hand like any other), the report it should compare is gone: the divergence at that
  turn is not seen, contrary to docs/NETWORK_PORT.md:305-306 ("the referee compares every state hash").
  With a bot in the room the server acknowledges for the bot's seat as it runs and the
  reports stay (`match_referee`).
* `MCAttendanceFlap.cfg` violates `FlapVoteStays`: every loss sets `flap` anew from the distance to the
  loss two before it (`note_loss`). A seat that flaps (losses at 0, 20, 40 s) and is lost again at
  95 s, within 60 s of its last loss, has 95 - 20 > 60 s between the losses compared: it stops
  flapping *because* it was lost once more, `lost()` clears the votes about it, and the vote is
  closed. attendance.hpp:39-40 says the vote stays open, with the votes already cast, until 60 s
  have gone by without another loss.
* `MCHostMigrationCrossing.cfg` violates `OneHost` (session.cpp:1019): `on_refuse` takes every Refuse of the seat that is followed for its withdrawal.
  When the lowest guest hangs for the four seconds of `elect_timeout_ms`, 2 and 3 propose at the
  same moment; 2 refuses 3's proposal and 3 accepts 2's; 2's Refuse, which answers the proposal that
  3 has withdrawn, makes 3 leave the candidate it just accepted and ignore its Resume. Two hosts,
  where docs/NETWORK_PORT.md:60 says "only one candidate per election". `migration` is patient and
  does not get there.
* `MCHostMigrationLate.cfg` violates `NoHostBesideAny` (session.cpp:988): `on_propose` drops a proposal
  of an epoch that is not its own next one, without an answer. Host 0 dies, 1 takes over, 2 reads its
  Resume and then loses its link to 1. It elects in epoch 2; its Propose reaches 3 before 3 has
  read the Resume, and is dropped. 3 then plays with 1, and 2, which hears nothing from 3 for
  `accept_timeout_ms`, takes it for dead and promotes itself beside the match that goes on. Had the Propose
  come later, 3 would have refused it with the name of the host, as docs/NETWORK_PORT.md:61-62 promises
  a guest that lost only its own link. The same happens, with two histories, when the new host
  *dies* with its Resume read by one and not by the other. `NoHostBeside` is therefore stated of the first
  host, and the worlds of `migration` are `whole`: nobody dies while its word that it has
  taken over is on its way.

## 8. Not modelled

Pacing and the jitter buffer (timing only: they decide when a turn runs, never which);
prediction (a second engine for the screen); rules of the simulation (checked by golden
hashes in the repository); decisions of the bots; byte layout of messages; files, SQL and HTTP
of the server's stores; the application. They make up nearly all of the repository's lines, and the
models cover what is left: the protocols between machines.

Of what is modelled: pings, chat, lag notices and gap notices of the sessions; the flood budgets,
which need more messages to bite than a behaviour has here; the bytes of the turn log and of
the record, and damaged records; the replay of a record in slices and the players parked
meanwhile; in the lobby the plan (map, fog, teams, bots), renaming, public rooms, thumbs, the
offence counters, the time-outs of Hello and Welcome and the early start of a server's room that is
no lobby room.
