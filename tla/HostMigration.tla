----------------------------- MODULE HostMigration -----------------------------
(***************************************************************************)
(* What the guests of a match do when its host is gone (ClientSession in   *)
(* the modes Electing, Following, Fetching and Promoted, promote_to_host   *)
(* and HostSession::resume).  Every machine holds the turns it was given;  *)
(* the guests are linked to each other as well.  They choose the lowest    *)
(* seat that lives, it fetches the turns that another one has and it has   *)
(* not, tells the others where it resumes, and seals on.                   *)
(*                                                                         *)
(* A turn is known by who sealed it: two machines hold the same turn k iff *)
(* the same host sealed it for both.  What turns hold, how they are run    *)
(* and the pace of the sealing are Match's business.                       *)
(*                                                                         *)
(* Steady = TRUE: seconds of silence mean that there is nothing more to    *)
(* come.  A time-out fires only when all that was sent has been heard and  *)
(* the other machine is not going to speak.  Steady = FALSE: any time-out  *)
(* may fire at any moment (machines that stand still for seconds, links    *)
(* that are that slow).                                                    *)
(***************************************************************************)
EXTENDS Naturals, Sequences, FiniteSets, FiniteSetsExt

CONSTANTS Worlds,     \* bound: the circumstances that are looked at, one of them per behaviour
          None        \* no seat (255)

\* seats: of the match, numbers (the lowest takes over); firstHost: who hosts when it
\* begins; steady: above; patient: see MyTurn; whole: see Crash; refusalLimit:
\* Config::host_refusals_limit; and the bounds: the turns of the match, the machines that
\* die, the links that break between two living machines
ASSUME MigrationAssumption ==
  \A w \in Worlds :
    /\ w.seats \subseteq Nat /\ IsFiniteSet(w.seats)
    /\ w.firstHost \in w.seats /\ None \notin w.seats
    /\ {w.steady, w.patient, w.whole} \subseteq BOOLEAN
    /\ w.refusalLimit \in Nat \ {0}
    /\ {w.maxTurns, w.maxCrashes, w.maxCuts} \subseteq Nat

VARIABLES
  world,    \* one of Worlds
  session,  \* per seat: the election state of its ClientSession
  got,      \* per seat: the turns its runner was given, each as the seat that sealed it
  clients,  \* per seat: whom its HostSession takes to be present
  alive,    \* the machines that run
  open,     \* the links that stand, sets of two seats
  net,      \* net[a][b]: what a sent to b and b has not read
  silent,   \* per seat: from whom it has heard nothing for peer_silence_ms (or, of its
            \* host, host_silence_ms)
  cuts      \* the links that broke

state == <<session, got, clients, alive, open, net, silent, cuts>>
vars == <<world, state>>

Seats == world.seats
FirstHost == world.firstHost
Steady == world.steady
Patient == world.patient
Whole == world.whole
RefusalLimit == world.refusalLimit
MaxTurns == world.maxTurns
MaxCrashes == world.maxCrashes
MaxCuts == world.maxCuts

NewSession ==
  [mode |-> "Normal", host |-> FirstHost, epoch |-> 0, dead |-> {}, hint |-> None,
   following |-> None, proposed |-> FALSE, expected |-> {}, answers |-> <<>>,
   refusals |-> 0, source |-> None, target |-> 0]

\* answers is a partial function: the peers that have answered the proposal
Answers == [accepted : {TRUE}, next : Nat] \cup [accepted : {FALSE}, lowest : Seats]

Messages ==
  [type : {"Turn"}, turn : Nat, by : Seats] \cup [type : {"Propose"}, epoch : Nat]
    \cup [type : {"Accept"}, epoch : Nat, next : Nat]
    \cup [type : {"Refuse"}, epoch : Nat, lowest : Seats]
    \cup [type : {"Resume"}, epoch : Nat, turn : Nat] \cup [type : {"Request"}, turn : Nat]

Modes == {"Normal", "Electing", "Following", "Fetching", "Host", "Lost"}

TypeOK ==
  /\ \A g \in Seats :
       /\ session[g].mode \in Modes
       /\ session[g].host \in Seats
       /\ session[g].epoch \in 0 .. Cardinality(Seats)
       /\ session[g].dead \subseteq Seats /\ session[g].expected \subseteq Seats \ {g}
       /\ session[g].hint \in Seats \cup {None} /\ session[g].following \in Seats \cup {None}
       /\ session[g].source \in Seats \cup {None} /\ session[g].target \in 0 .. MaxTurns
       /\ session[g].proposed \in BOOLEAN
       /\ session[g].refusals \in 0 .. RefusalLimit
       /\ DOMAIN session[g].answers \subseteq session[g].expected
       /\ \A s \in DOMAIN session[g].answers : session[g].answers[s] \in Answers
       /\ \A b \in Seats : \A i \in DOMAIN net[g][b] : net[g][b][i] \in Messages
  /\ got \in [Seats -> Seq(Seats)]
  /\ clients \in [Seats -> SUBSET Seats]
  /\ alive \subseteq Seats
  /\ \A link \in open : link \subseteq Seats /\ Cardinality(link) = 2
  /\ silent \in [Seats -> SUBSET Seats]
  /\ cuts \in 0 .. MaxCuts

Init ==
  /\ world \in Worlds
  /\ session = [g \in Seats |-> IF g = FirstHost THEN [NewSession EXCEPT !.mode = "Host"]
                                                 ELSE NewSession]
  /\ got = [g \in Seats |-> <<>>]
  /\ clients = [g \in Seats |-> IF g = FirstHost THEN Seats \ {FirstHost} ELSE {}]
  /\ alive = Seats
  /\ open = {{a, b} : a, b \in Seats} \ {{a} : a \in Seats}
  /\ net = [a \in Seats |-> [b \in Seats |-> <<>>]]
  /\ silent = [g \in Seats |-> {}]
  /\ cuts = 0
------------------------------------------------------------------------------
(* Links *)

Linked(a, b) == {a, b} \in open

\* A machine that hears: a HostSession takes no message of an election (it counts them
\* as violations), a session that is Lost reads nothing
Listens(b) == session[b].mode \notin {"Host", "Lost"}

\* a says to each seat b the messages box[b]; into a closed link, to nobody
Post(n, a, box) ==
  [n EXCEPT ![a] = [b \in Seats |-> IF Linked(a, b) /\ Listens(b) THEN @[b] \o box[b] ELSE @[b]]]

To(b, msgs) == [s \in Seats |-> IF s = b THEN msgs ELSE <<>>]
ToAll(S, msg) == [s \in Seats |-> IF s \in S THEN <<msg>> ELSE <<>>]

\* Mutant: begins one turn late
TurnsFromNext(g, first) ==
  [i \in 1 .. Len(got[g]) - first - 1 |->
     [type |-> "Turn", turn |-> first + i, by |-> got[g][first + i + 1]]]

TurnsFrom(g, first) ==
  [i \in 1 .. Len(got[g]) - first |->
     [type |-> "Turn", turn |-> first + i - 1, by |-> got[g][first + i]]]

Electing(g) == session[g].mode \in {"Electing", "Following", "Fetching"}

\* Nothing is on its way between a and b, and b is not about to answer
Quiet(a, b) == net[a][b] = <<>> /\ net[b][a] = <<>>
Deaf(b) == b \notin alive \/ ~Listens(b)
TimeOut(a, b) == ~Steady \/ (net[b][a] = <<>> /\ (Deaf(b) \/ ~Linked(a, b) \/ net[a][b] = <<>>))

PeerAlive(g, s) == Linked(g, s) /\ s \notin silent[g]

\* lowest_alive(): as far as a session with the record t can see
LowestAlive(g, t) == Min({s \in Seats : \/ s = g
                                        \/ s \notin t.dead /\ (s = t.hint \/ PeerAlive(g, s))})

ElectionEpoch(t) == t.epoch + 1
------------------------------------------------------------------------------
(* The election, as operators from a session's record to the next one *)

BegunElection(t) ==
  [t EXCEPT !.mode = "Electing", !.dead = {t.host}, !.answers = <<>>, !.proposed = FALSE,
            !.expected = {}, !.following = None, !.hint = None, !.refusals = 0]

\* Mutant: the answers to the last proposal are kept
WithdrawnWithAnswers(t) == [t EXCEPT !.proposed = FALSE, !.expected = {}]

Withdrawn(t) == [t EXCEPT !.proposed = FALSE, !.expected = {}, !.answers = <<>>]
RefuseMsg(t, low) == [type |-> "Refuse", epoch |-> ElectionEpoch(t), lowest |-> low]

\* go_lost()
GoneLost(t) == [Withdrawn(t) EXCEPT !.mode = "Lost", !.following = None, !.dead = {},
                                    !.hint = None, !.source = None, !.target = 0]

\* begin_election() closes the link to the host: nothing more is read of it
CutOff(g, n) == [n EXCEPT ![session[g].host][g] = <<>>]

Followers(g, t) ==
  {s \in t.expected : /\ s \in DOMAIN t.answers /\ t.answers[s].accepted
                      /\ s \notin t.dead /\ Linked(g, s)}

\* promote(), promote_to_host() and HostSession::resume(), in the same frame
Promote(g, t, n) ==
  LET resume == [type |-> "Resume", epoch |-> ElectionEpoch(t), turn |-> Len(got[g])]
      told == [s \in Seats |-> IF s \in Followers(g, t)
                               THEN <<resume>> \o TurnsFrom(g, t.answers[s].next) ELSE <<>>]
  IN /\ session' = [session EXCEPT ![g] = [NewSession EXCEPT !.mode = "Host", !.host = g,
                                                             !.epoch = ElectionEpoch(t)]]
     /\ clients' = [clients EXCEPT ![g] = Followers(g, t)]
     /\ net' = Post([a \in Seats |-> [n[a] EXCEPT ![g] = <<>>]], g, told)

\* Mutant: the candidate does not ask who is ahead of it
PlanFetchNothing(g, t, n) == Promote(g, t, n)

\* plan_fetch(): from the follower that got furthest, of a tie the lowest seat
PlanFetch(g, t, n) ==
  LET ahead == {s \in Followers(g, t) : t.answers[s].next > Len(got[g])}
      furthest == {s \in ahead : \A r \in ahead : t.answers[r].next <= t.answers[s].next}
  IN IF ahead = {} THEN Promote(g, t, n)
     ELSE /\ session' = [session EXCEPT ![g] =
                [t EXCEPT !.mode = "Fetching", !.source = Min(furthest),
                          !.target = t.answers[Min(furthest)].next]]
          /\ net' = Post(n, g, To(Min(furthest), <<[type |-> "Request", turn |-> Len(got[g])]>>))
          /\ UNCHANGED clients
------------------------------------------------------------------------------
(* A session hears *)

\* host_alive(): the link stands and the host was heard within host_alive_ms.  It was
\* not when it has been dead for two seconds; and by the last of RefusalLimit
\* proposals, each retry_ms after the other, a host that was dead at the first has
\* been silent for as long as that.
MayBelieve(g, asks) ==
  LET h == session[g].host
  IN /\ session[g].mode = "Normal" /\ h \notin silent[g]
     /\ Linked(g, h) \/ net[h][g] # <<>>
     /\ Steady /\ h \notin alive => session[asks].refusals + 1 < RefusalLimit
MayDoubt(g) ==
  LET h == session[g].host
  IN ~Steady \/ h \in silent[g] \/ (net[h][g] = <<>> /\ (h \notin alive \/ ~Linked(g, h)))

\* on_propose() of a session that elects, t, for the candidate s.  A session that had
\* proposed withdraws first: the candidate is sent a Refuse and behind it the Accept.
AnswerProposal(g, s, t, n) ==
  LET refuse(low) == /\ session' = [session EXCEPT ![g] = t]
                     /\ net' = Post(n, g, To(s, <<RefuseMsg(t, low)>>))
  IN IF t.following \notin {None, s} /\ t.following \notin t.dead /\ PeerAlive(g, t.following)
     THEN refuse(t.following)
     ELSE IF LowestAlive(g, t) < s
     THEN refuse(LowestAlive(g, t))
     ELSE /\ session' = [session EXCEPT ![g] =
                [Withdrawn(t) EXCEPT !.following = s, !.mode = "Following",
                                     !.source = None, !.target = 0]]
          /\ net' = Post(n, g, [x \in Seats |->
               (IF x \in t.expected THEN <<RefuseMsg(t, s)>> ELSE <<>>)
               \o (IF x = s THEN <<[type |-> "Accept", epoch |-> ElectionEpoch(t),
                                    next |-> Len(got[g])]>> ELSE <<>>)])

HearPropose(g, s, m, n) ==
  LET t == session[g]
      h == t.host
  IN IF m.epoch # ElectionEpoch(t) THEN net' = n /\ UNCHANGED <<session, open>>
     ELSE \/ /\ MayBelieve(g, s)
             /\ net' = Post(n, g, To(s, <<RefuseMsg(t, h)>>))
             /\ UNCHANGED <<session, open>>
          \/ /\ t.mode = "Normal" /\ MayDoubt(g)
             /\ AnswerProposal(g, s, [BegunElection(t) EXCEPT !.dead = @ \ {s}], CutOff(g, n))
             /\ open' = open \ {{g, h}}
          \/ /\ Electing(g)
             /\ AnswerProposal(g, s, [t EXCEPT !.dead = @ \ {s}], n)
             /\ UNCHANGED open

HearAnswer(g, s, m, n) ==
  LET t == session[g]
      counts == t.proposed /\ m.epoch = ElectionEpoch(t) /\ s \in t.expected
      answer == IF m.type = "Accept" THEN [accepted |-> TRUE, next |-> m.next]
                                     ELSE [accepted |-> FALSE, lowest |-> m.lowest]
      noted == [x \in DOMAIN t.answers \cup {s} |-> IF x = s THEN answer ELSE t.answers[x]]
  IN /\ session' = [session EXCEPT ![g] =
          IF m.type = "Refuse" /\ m.epoch = ElectionEpoch(t) /\ t.following = s
          THEN [t EXCEPT !.following = None, !.mode = "Electing"]
          ELSE IF counts THEN [t EXCEPT !.answers = noted] ELSE t]
     /\ net' = n

Honours(g, s, m) == Electing(g) /\ m.epoch = ElectionEpoch(session[g]) /\ session[g].following = s

\* on_resume(): the link to the new host is the host link from now on
HearResume(g, s, m, n) ==
  LET t == session[g]
  IN /\ net' = n
     /\ session' = [session EXCEPT ![g] =
          IF ~Honours(g, s, m) THEN t
          ELSE IF m.turn < Len(got[g]) THEN GoneLost(t)
          ELSE [NewSession EXCEPT !.host = s, !.epoch = m.epoch]]

\* A turn of the host, or one that was asked for
TakesTurn(g, s, m) ==
  /\ m.turn = Len(got[g])
  /\ \/ session[g].mode = "Normal" /\ session[g].host = s
     \/ session[g].mode = "Fetching" /\ session[g].source = s

Hear(g, s) ==
  /\ g \in alive /\ Listens(g) /\ net[s][g] # <<>>
  /\ silent' = [silent EXCEPT ![g] = @ \ {s}]
  /\ LET m == Head(net[s][g])
         n == [net EXCEPT ![s][g] = Tail(@)]
     IN \/ /\ m.type = "Turn"
           /\ got' = IF TakesTurn(g, s, m) THEN [got EXCEPT ![g] = Append(@, m.by)] ELSE got
           /\ net' = n
           /\ UNCHANGED <<session, open>>
        \/ /\ m.type = "Propose"
           /\ HearPropose(g, s, m, n)
           /\ UNCHANGED got
        \/ /\ m.type \in {"Accept", "Refuse"}
           /\ HearAnswer(g, s, m, n)
           /\ UNCHANGED <<got, open>>
        \/ /\ m.type = "Resume"
           /\ HearResume(g, s, m, n)
           /\ UNCHANGED <<got, open>>
        \/ /\ m.type = "Request"
           /\ net' = Post(n, g, To(s, TurnsFrom(g, m.turn)))
           /\ UNCHANGED <<session, got, open>>
  /\ UNCHANGED <<clients, alive, cuts>>
------------------------------------------------------------------------------
(* A session acts *)

\* poll_host(): the host's link is closed and all of it was read, or it was silent
NoticesLoss(g) ==
  LET t == session[g]
  IN /\ g \in alive /\ t.mode = "Normal"
     /\ net[t.host][g] = <<>>
     /\ ~Linked(g, t.host) \/ t.host \in silent[g]
     /\ session' = [session EXCEPT ![g] = BegunElection(t)]
     /\ open' = open \ {{g, t.host}}
     /\ net' = CutOff(g, net)
     /\ UNCHANGED <<got, clients, alive, silent, cuts>>

\* Its turn: no lower seat lives, or the one that was waited for did not propose in
\* elect_timeout_ms
MyTurn(g) ==
  LET low == LowestAlive(g, session[g])
      unaware == low \in alive /\ session[low].mode = "Normal"
                   /\ session[low].host \in alive /\ Linked(low, session[low].host)
      deaf == low \notin alive \/ ~Electing(low)
  IN \/ low = g \/ ~Steady
     \/ Quiet(g, low) /\ (IF Patient THEN unaware ELSE deaf)

Propose(g) ==
  LET t == session[g]
      peers == {s \in Seats \ {g} : s \notin t.dead /\ PeerAlive(g, s)}
  IN /\ g \in alive /\ t.mode = "Electing" /\ ~t.proposed /\ MyTurn(g)
     /\ session' = [session EXCEPT ![g] = [t EXCEPT !.proposed = TRUE, !.expected = peers,
                                                    !.answers = <<>>]]
     /\ net' = Post(net, g, ToAll(peers, [type |-> "Propose", epoch |-> ElectionEpoch(t)]))
     /\ UNCHANGED <<got, clients, alive, open, silent, cuts>>

Unanswered(t) == t.expected \ DOMAIN t.answers
Refusers(t) == {s \in DOMAIN t.answers : ~t.answers[s].accepted}

\* Mutant: the host is not asked for
HostRefusersNone(t) == {}

HostRefusers(t) == {s \in Refusers(t) : t.answers[s].lowest = t.host}

\* resolve(): all have answered, or the time for it is over
Resolve(g) ==
  LET t == session[g]
      lower == {t.answers[s].lowest : s \in Refusers(t) \ HostRefusers(t)}
      above == {s \in Refusers(t) \ HostRefusers(t) : t.answers[s].lowest >= g}
      defer == {l \in lower : l < g /\ l # t.hint}
      u == [t EXCEPT !.dead = @ \cup Unanswered(t) \cup above
                                \cup {l \in lower : l < g /\ l = t.hint}]
  IN /\ g \in alive /\ t.mode = "Electing" /\ t.proposed /\ MyTurn(g)
     /\ \A s \in Unanswered(t) : TimeOut(g, s)
     /\ IF HostRefusers(t) # {}
        THEN /\ UNCHANGED clients
             /\ IF t.refusals + 1 >= RefusalLimit
                THEN session' = [session EXCEPT ![g] = GoneLost(u)] /\ UNCHANGED net
                ELSE /\ session' = [session EXCEPT ![g] =
                           [Withdrawn(u) EXCEPT !.refusals = @ + 1]]
                     /\ net' = Post(net, g, ToAll(t.expected, RefuseMsg(t, g)))
        ELSE IF defer # {}
        THEN /\ session' = [session EXCEPT ![g] = [Withdrawn(u) EXCEPT !.hint = Min(defer)]]
             /\ net' = Post(net, g, ToAll(t.expected, RefuseMsg(t, Min(defer))))
             /\ UNCHANGED clients
        ELSE PlanFetch(g, u, net)
     /\ UNCHANGED <<got, alive, open, silent, cuts>>

\* Mutant: only a closed link tells that the candidate is gone
GivesUpClosed(g) ==
  LET t == session[g]
  IN /\ g \in alive /\ t.mode = "Following"
     /\ t.following \in t.dead \/ ~Linked(g, t.following)
     /\ session' = [session EXCEPT ![g] = [t EXCEPT !.dead = @ \cup {t.following},
                                                    !.following = None, !.mode = "Electing"]]
     /\ UNCHANGED <<got, clients, alive, open, net, silent, cuts>>

\* election_tick() of a follower: the candidate died, or it never resumed
GivesUpCandidate(g) ==
  LET t == session[g]
  IN /\ g \in alive /\ t.mode = "Following"
     /\ \/ t.following \in t.dead \/ ~PeerAlive(g, t.following)
        \/ ~Steady
     /\ Steady => net[t.following][g] = <<>>
     /\ session' = [session EXCEPT ![g] = [t EXCEPT !.dead = @ \cup {t.following},
                                                    !.following = None, !.mode = "Electing"]]
     /\ UNCHANGED <<got, clients, alive, open, net, silent, cuts>>

\* fetch_tick(): it has what it asked for, or the source died
FetchTick(g) ==
  LET t == session[g]
      fetched == [t EXCEPT !.source = None, !.target = 0]
  IN /\ g \in alive /\ t.mode = "Fetching"
     /\ IF Len(got[g]) >= t.target THEN Promote(g, fetched, net)
        ELSE /\ ~Linked(g, t.source) \/ TimeOut(g, t.source)
             /\ PlanFetch(g, [fetched EXCEPT !.dead = @ \cup {t.source}], net)
     /\ UNCHANGED <<got, alive, open, silent, cuts>>

\* No host after election_limit_ms
ElectionLimit(g) ==
  /\ ~Steady /\ g \in alive /\ Electing(g)
  /\ session' = [session EXCEPT ![g] = GoneLost(@)]
  /\ UNCHANGED <<got, clients, alive, open, net, silent, cuts>>

\* g has heard nothing of s for as long as it takes
Silence(g, s) ==
  /\ g \in alive /\ Listens(g) /\ s # g /\ s \notin silent[g]
  /\ Linked(g, s) /\ net[s][g] = <<>>
  /\ Steady => \/ s \notin alive \/ session[s].mode = "Lost"
               \/ session[s].mode = "Host" /\ g \notin clients[s]
  /\ silent' = [silent EXCEPT ![g] = @ \cup {s}]
  /\ UNCHANGED <<session, got, clients, alive, open, net, cuts>>
------------------------------------------------------------------------------
(* A host *)

HostSeals(h) ==
  /\ h \in alive /\ session[h].mode = "Host" /\ Len(got[h]) < MaxTurns
  /\ got' = [got EXCEPT ![h] = Append(@, h)]
  /\ net' = Post(net, h, ToAll(clients[h], [type |-> "Turn", turn |-> Len(got[h]), by |-> h]))
  /\ UNCHANGED <<session, clients, alive, open, silent, cuts>>

\* A client whose link is closed, or that was silent, is dropped
HostDrops(h, g) ==
  /\ h \in alive /\ g \in clients[h]
  /\ ~Linked(h, g) \/ g \notin alive \/ session[g].mode = "Lost" \/ ~Steady
  /\ clients' = [clients EXCEPT ![h] = @ \ {g}]
  /\ open' = open \ {{h, g}}
  /\ UNCHANGED <<session, got, alive, net, silent, cuts>>
------------------------------------------------------------------------------
(* The world *)

\* A machine dies.  Of what it had sent some arrives; its links are closed, or (the
\* power is cut) stand and stay silent.  Whole = TRUE: not while its word that it has
\* taken over is on the way.
Crash(m) ==
  /\ m \in alive /\ Cardinality(Seats \ alive) < MaxCrashes
  /\ Whole => \A b \in Seats : \A i \in DOMAIN net[m][b] : net[m][b][i].type # "Resume"
  /\ alive' = alive \ {m}
  /\ open' \in {open, {link \in open : m \notin link}}
  /\ \E keep \in [Seats -> 0 .. MaxTurns] :
       /\ \A b \in Seats : keep[b] <= Len(net[m][b])
       /\ net' = [a \in Seats |-> [b \in Seats |->
                    IF a = m THEN SubSeq(net[m][b], 1, keep[b])
                    ELSE IF b = m THEN <<>> ELSE net[a][b]]]
  /\ UNCHANGED <<session, got, clients, silent, cuts>>

\* A link between a host and one of its guests breaks
Cut(h, g) ==
  /\ cuts < MaxCuts
  /\ h \in alive /\ session[h].mode = "Host" /\ g \in clients[h] /\ Linked(h, g)
  /\ cuts' = cuts + 1
  /\ open' = open \ {{h, g}}
  /\ UNCHANGED <<session, got, clients, alive, net, silent>>

SessionStep(g) ==
  \/ NoticesLoss(g) \/ Propose(g) \/ Resolve(g) \/ GivesUpCandidate(g) \/ FetchTick(g)
  \/ \E s \in Seats : Hear(g, s) \/ Silence(g, s)

HostStep(h) == HostSeals(h) \/ \E g \in Seats : HostDrops(h, g)

\* A machine is a guest or the host
Update(m) == SessionStep(m) \/ HostStep(m)

Next ==
  /\ \E m \in Seats : Update(m) \/ ElectionLimit(m) \/ Crash(m)
                      \/ \E g \in Seats : Cut(m, g)
  /\ UNCHANGED world

Spec == Init /\ [][Next]_vars

\* update() of every living machine runs all the time, links deliver, silence is noticed
FairSpec ==
  /\ Spec
  /\ \A g \in UNION {w.seats : w \in Worlds} : WF_state(Update(g))
------------------------------------------------------------------------------
(* Properties *)

Prefix(a, b) == Len(a) <= Len(b) /\ SubSeq(b, 1, Len(a)) = a

Playing(m) == m \in alive /\ session[m].mode # "Lost"

\* No time-out deceives, and every loss of a link is the death of a machine
Clear == Steady /\ MaxCuts = 0

\* Two machines that are still in the match were never given different turns of the
\* same number, however the host was lost (NETWORK_PORT.md: "so nobody diverges").
SurvivorsAgree ==
  Clear => \A a, b \in Seats :
             Playing(a) /\ Playing(b) => Prefix(got[a], got[b]) \/ Prefix(got[b], got[a])

\* A host died and the guests found out at different moments: two of them do not go on
\* as hosts.
OneHost == Clear => Cardinality({h \in alive : session[h].mode = "Host"}) <= 1

\* A guest has every turn that its host sealed and it was given, none of them twice or in the
\* place of another, and while its link stands what is on its way to it ends with just the turns
\* that it lacks, in their order: whatever time-outs fired.  (Of the turns before, see
\* SurvivorsAgree.)
InStep ==
  \A g \in Seats : session[g].mode = "Normal" =>
    LET h == session[g].host
        lacks == Len(got[h]) - Len(got[g])
        q == net[h][g]
    IN /\ Len(got[g]) <= Len(got[h])
       /\ \A k \in DOMAIN got[g] : got[h][k] = h => got[g][k] = h
       /\ {g, h} \subseteq alive /\ g \in clients[h] /\ Linked(g, h) =>
            /\ lacks <= Len(q)
            /\ \A k \in 1 .. lacks : q[Len(q) - lacks + k] =
                 [type |-> "Turn", turn |-> Len(got[g]) + k - 1, by |-> got[h][Len(got[g]) + k]]

\* g becomes host, though b, which it reaches, still plays with the host h that g lost
TakesOverBeside(g, b, h) ==
  /\ session[g].mode # "Host" /\ session'[g].mode = "Host" /\ session[g].host = h
  /\ b \in alive /\ session[b].mode = "Normal" /\ session[b].host = h
  /\ h \in alive /\ b \in clients[h] /\ Linked(b, h) /\ Linked(g, b)

\* A guest whose own link to the host of the match broke does not become a host beside the one
\* that another, whom it can ask, still plays with.
NoHostBeside ==
  [][\A g \in Seats : \A b \in Seats \ {g} : Steady => ~TakesOverBeside(g, b, FirstHost)]_vars

\* The same of every host.
NoHostBesideAny ==
  [][\A g \in Seats : \A b \in Seats \ {g} :
       Steady => ~TakesOverBeside(g, b, session[g].host)]_vars

\* When no more machines die, the ones that are in the match come together under one
\* host that lives, and none of them is lost.
Reunited ==
  \A g \in alive : /\ session[g].mode \in {"Host", "Normal"}
                   /\ session[g].host \in alive /\ session[session[g].host].mode = "Host"
Recovers == Clear => <>[]Reunited
==============================================================================
