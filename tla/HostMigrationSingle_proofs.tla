---------------------- MODULE HostMigrationSingle_proofs ----------------------
(***************************************************************************)
(* The host dies, or any one machine, in every world in which no time-out  *)
(* deceives: at most one machine hosts, and all that live were given the   *)
(* same turns, whoever noticed the death when and however far each one     *)
(* had got.                                                                *)
(*                                                                         *)
(* The match passes through three phases.  Before: the first host lives    *)
(* and nobody elects.  Meanwhile: it is dead and nobody hosts; the lowest  *)
(* of the others, Heir, and each of the rest are at one of five points of  *)
(* their conversation (Line), and all turns that anybody has are the dead  *)
(* host's.  After: Heir hosts, and what each of the rest has is the        *)
(* beginning of what Heir has.  The invariant says which phase it is; the  *)
(* step from the second to the third needs that Heir has heard how far     *)
(* each of the rest got, and has fetched what it lacked.                   *)
(***************************************************************************)
EXTENDS HostMigration_proofs

------------------------------------------------------------------------------
(* One machine dies *)

\* No time-out deceives, no link between two living machines breaks, and one machine died or none.
OneDeath(A) == \A a, b \in Seats \ A : a = b
Single == Clear /\ Patient /\ OneDeath(alive)

\* Who takes over when the host dies, and the others then
Others == Seats \ {FirstHost}
Heir == IF Others = {} THEN FirstHost ELSE Min(Others)
Peers == Others \ {Heir}

OnlyTurns(q) == \A i \in DOMAIN q : q[i].type = "Turn"
Asks == [type |-> "Propose", epoch |-> 1]
Withdraws == [type |-> "Refuse", epoch |-> 1, lowest |-> Heir]
Agrees(n) == [type |-> "Accept", epoch |-> 1, next |-> n]
Believes == [type |-> "Refuse", epoch |-> 1, lowest |-> FirstHost]
Fetches(n) == [type |-> "Request", turn |-> n]
Brings(q, e, n) ==
  e <= n /\ Len(q) = n - e /\ \A i \in 1 .. n - e : q[i].type = "Turn" /\ q[i].turn = e + i - 1
Resumes(q, n) ==
  /\ q # <<>> /\ q[1].type = "Resume" /\ q[1].epoch = 1 /\ n <= q[1].turn
  /\ \A i \in DOMAIN q : i # 1 => q[i].type = "Turn"

\* The session of Heir until it hosts, and that of another guest until it has its new host
HeirOK(t) ==
  /\ t.mode \in {"Normal", "Electing", "Fetching"} /\ t.host = FirstHost /\ t.epoch = 0
  /\ t.mode # "Normal" => t.dead = {FirstHost} /\ t.hint = None /\ t.following = None
  /\ t.mode = "Normal" => ~t.proposed
  /\ t.proposed => t.expected = Peers
  /\ t.mode = "Fetching" => t.proposed /\ t.source \in Peers
GuestOK(s) ==
  /\ s.mode \in {"Normal", "Electing", "Following"} /\ s.host = FirstHost /\ s.epoch = 0
  /\ ~s.proposed
  /\ s.mode # "Normal" => s.dead = {FirstHost} /\ s.hint = None /\ s.expected = {}
  /\ s.following = IF s.mode = "Following" THEN Heir ELSE None

\* t and s: the sessions of Heir and of g; e and n: how many turns they have; up: what g said to
\* Heir; down: what Heir said to g
Uncalled(t, up, down) == ~t.proposed /\ up = <<>> /\ (down = <<>> \/ down = <<Withdraws>>)
Called(g, t, up, down) ==
  /\ t.mode = "Electing" /\ t.proposed /\ g \notin DOMAIN t.answers
  /\ up = <<>> /\ (down = <<Asks>> \/ down = <<Withdraws, Asks>>)
Answering(g, t, s, n, up, down) ==
  /\ t.mode = "Electing" /\ t.proposed /\ g \notin DOMAIN t.answers /\ down = <<>>
  /\ \/ s.mode = "Following" /\ up = <<Agrees(n)>>
     \/ t.refusals + 1 < RefusalLimit /\ up = <<Believes>>
Answered(g, t, s, n, up, down) ==
  /\ t.mode = "Electing" /\ t.proposed /\ g \in DOMAIN t.answers /\ up = <<>> /\ down = <<>>
  /\ \/ s.mode = "Following" /\ t.answers[g].accepted /\ t.answers[g].next = n
     \/ t.refusals + 1 < RefusalLimit /\ ~t.answers[g].accepted /\ t.answers[g].lowest = FirstHost
Awaited(g, t, s, n, e, up, down) ==
  /\ t.mode = "Fetching" /\ g \in DOMAIN t.answers /\ s.mode = "Following"
  /\ t.answers[g].accepted /\ t.answers[g].next = n /\ n <= t.target
  /\ g # t.source => up = <<>> /\ down = <<>>
  /\ g = t.source => /\ n = t.target
                     /\ \/ e < n /\ down = <<Fetches(e)>> /\ up = <<>>
                        \/ down = <<>> /\ Brings(up, e, n)
Line(g, t, s, n, e, up, down) ==
  \/ Uncalled(t, up, down) \/ Called(g, t, up, down) \/ Answering(g, t, s, n, up, down)
  \/ Answered(g, t, s, n, up, down) \/ Awaited(g, t, s, n, e, up, down)

\* The living see each other.
Sees(A, O, L) ==
  /\ \A a, b \in A : a # b => {a, b} \in O
  /\ \A g \in Seats : \A s \in L[g] : s \notin A
\* Before the host dies; until Heir takes over; and then
BeforeAt(S, C, A, N) ==
  /\ FirstHost \in A /\ \A g \in A : g = FirstHost \/ g \in C[FirstHost]
  /\ \A g \in Others : S[g].mode = "Normal" /\ S[g].host = FirstHost
  /\ \A g \in Others : \A b \in Seats : N[g][b] = <<>>
  /\ \A g \in Seats : OnlyTurns(N[FirstHost][g])
MeanwhileAt(S, G, A, N) ==
  /\ A = Others
  /\ Others # {} => HeirOK(S[Heir])
  /\ \A g \in Peers :
       GuestOK(S[g]) /\ Line(g, S[Heir], S[g], Len(G[g]), Len(G[Heir]), N[g][Heir], N[Heir][g])
  /\ \A g, b \in Peers : N[g][b] = <<>>
  /\ \A g \in Seats : OnlyTurns(N[FirstHost][g])
Led(g, s, n, q) ==
  \/ s.mode = "Normal" /\ s.host = Heir /\ OnlyTurns(q)
  \/ s.mode = "Following" /\ GuestOK(s) /\ Resumes(q, n)
AfterAt(S, G, C, A, N) ==
  /\ A = Others /\ Others # {} /\ S[Heir].mode = "Host" /\ Peers \subseteq C[Heir]
  /\ \A g \in Peers : Led(g, S[g], Len(G[g]), N[Heir][g])
  /\ \A g \in Peers : /\ Len(G[g]) <= Len(G[Heir])
                      /\ \A k \in 1 .. Len(G[g]) : G[g][k] = G[Heir][k]
  /\ \A g, b \in Peers : N[g][b] = <<>>
  /\ \A g \in Seats : OnlyTurns(N[FirstHost][g])
PhaseAt(S, G, C, A, N) ==
  BeforeAt(S, C, A, N) \/ MeanwhileAt(S, G, A, N) \/ AfterAt(S, G, C, A, N)
SingleInv ==
  Single => Sees(alive, open, silent) /\ PhaseAt(session, got, clients, alive, net)

\* What is known in every phase
Aware ==
  IInv /\ FirstHostInv /\ FirstEpoch /\ FreshInv /\ Single /\ Sees(alive, open, silent)

------------------------------------------------------------------------------
(* The seats, and queues of turns *)

\* Heir is the lowest of the others, if there are any.
LEMMA SeatFacts ==
  ASSUME IInv, MigrationAssumption
  PROVE  /\ Seats \subseteq Nat /\ FirstHost \in Seats /\ None \notin Seats
         /\ Others \subseteq Seats /\ FirstHost \notin Others /\ Seats = Others \cup {FirstHost}
         /\ Peers \subseteq Others /\ Heir \notin Peers
         /\ Others # {} => Heir \in Others /\ Others = Peers \cup {Heir}
<1>1. Seats \subseteq Nat /\ FirstHost \in Seats /\ None \notin Seats
  BY StateFacts, WorldFacts
<1>2. Others \subseteq Nat
  BY <1>1 DEF Others
<1>3. Others # {} => Heir \in Others
  BY <1>2, MinIn DEF Heir
<1> QED  BY <1>1, <1>3 DEF Others, Peers

\* Who lives hears of who lives.
LEMMA Reaches ==
  ASSUME Aware, MigrationAssumption, NEW a \in alive, NEW b \in alive, a # b
  PROVE  Linked(a, b) /\ b \notin silent[a] /\ PeerAlive(a, b)
<1>1. a \in Seats
  BY StateFacts DEF Aware
<1> QED  BY <1>1, Zenon DEF Aware, Sees, Linked, PeerAlive

\* Who knows that the host died knows that Heir is the lowest.
LEMMA LowestIsHeir ==
  ASSUME Aware, MigrationAssumption, alive = Others, NEW g \in Others,
         NEW t, t.dead = {FirstHost}, t.hint = None
  PROVE  LowestAlive(g, t) = Heir
<1>1. PICK T : T = {s \in Seats : \/ s = g
                                  \/ s \notin t.dead /\ (s = t.hint \/ PeerAlive(g, s))}
  OBVIOUS
<1>2. Seats = Others \cup {FirstHost} /\ FirstHost \notin Others
  BY SeatFacts, Zenon DEF Aware
<1>3. \A s \in Others : s = g \/ PeerAlive(g, s)
  BY Reaches
<1>4. T = Others
  <2>1. FirstHost \notin T
    BY <1>1, <1>2
  <2>2. ASSUME NEW s \in Others PROVE s \in T
    <3>1. s \in Seats /\ s \notin t.dead
      BY <1>2, <2>2
    <3> QED  BY <3>1, <1>1, <1>3
  <2> QED  BY <1>1, <1>2, <2>1, <2>2
<1>5. LowestAlive(g, t) = Min(T)
  BY <1>1, Zenon DEF LowestAlive
<1> QED  BY <1>4, <1>5 DEF Heir

\* What is behind a turn, before another queue, and what arrives of a queue that broke off
LEMMA OnlyTurnsTail ==
  ASSUME NEW q \in Seq(Messages), q # <<>>, OnlyTurns(q)
  PROVE  OnlyTurns(Tail(q)) /\ Head(q).type = "Turn"
<1>1. Head(q) = q[1] /\ Len(q) \in Nat \ {0} /\ Tail(q) \in Seq(Messages)
      /\ Len(Tail(q)) = Len(q) - 1 /\ \A i \in 1 .. Len(q) - 1 : Tail(q)[i] = q[i + 1]
  BY TailAt
<1>2. DOMAIN q = 1 .. Len(q) /\ DOMAIN Tail(q) = 1 .. Len(q) - 1
  BY <1>1
<1>3. \A i \in DOMAIN Tail(q) : i + 1 \in DOMAIN q /\ Tail(q)[i] = q[i + 1]
  BY <1>1, <1>2
<1>4. 1 \in DOMAIN q
  BY <1>1, <1>2
<1> QED  BY <1>1, <1>3, <1>4 DEF OnlyTurns

\* More turns, behind the others
LEMMA OnlyTurnsMore ==
  ASSUME NEW p \in Seq(Messages), NEW q \in Seq(Messages), OnlyTurns(p), OnlyTurns(q)
  PROVE  OnlyTurns(p \o q)
<1>1. PICK k, l : k = Len(p) /\ l = Len(q)
  OBVIOUS
<1>2. Joined(p \o q, p, q, k, l)
  BY <1>1, JoinedFacts
<1>3. k \in Nat /\ l \in Nat /\ DOMAIN (p \o q) = 1 .. k + l
  BY <1>2 DEF Joined
<1>4. ASSUME NEW i \in 1 .. k + l PROVE (p \o q)[i].type = "Turn"
  <2>1. CASE i <= k
    BY <2>1, <1>1, <1>2, <1>3 DEF Joined, OnlyTurns
  <2>2. CASE ~(i <= k)
    <3>1. PICK j \in 1 .. l : i = k + j
      BY <2>2, <1>3
    <3>2. (p \o q)[i] = q[j]
      BY <3>1, <1>2 DEF Joined
    <3> QED  BY <3>1, <3>2, <1>1 DEF OnlyTurns
  <2> QED  BY <2>1, <2>2
<1> QED  BY <1>3, <1>4 DEF OnlyTurns

LEMMA OnlyTurnsPart ==
  ASSUME NEW r, NEW q, Part(r, q), OnlyTurns(q)
  PROVE  OnlyTurns(r)
BY Zenon DEF Part, OnlyTurns

------------------------------------------------------------------------------
(* Who lives hears of who lives *)

\* Whatever the phase: nobody who lives is lost, and who hosts has all the others as its clients.
Well ==
  \A a \in alive : /\ session[a].mode # "Lost"
                   /\ session[a].mode = "Host" => \A b \in alive \ {a} : b \in clients[a]

\* In every phase that is so.
LEMMA PhaseWell ==
  ASSUME Aware, MigrationAssumption, PhaseAt(session, got, clients, alive, net)
  PROVE  Well
<1>1. alive \subseteq Seats /\ Seats = Others \cup {FirstHost} /\ FirstHost \notin Others
      /\ (Others # {} => Heir \in Others /\ Others = Peers \cup {Heir})
  BY SeatFacts, StateFacts, Zenon DEF Aware
<1>2. CASE BeforeAt(session, clients, alive, net)
  BY <1>1, <1>2 DEF BeforeAt, Well, Aware, FirstHostInv
<1>3. CASE MeanwhileAt(session, got, alive, net)
  BY <1>1, <1>3 DEF MeanwhileAt, Well, HeirOK, GuestOK
<1>4. CASE AfterAt(session, got, clients, alive, net)
  <2>1. \A g \in Peers : session[g].mode \in {"Normal", "Following"}
    BY <1>4 DEF AfterAt, Led
  <2> QED  BY <1>1, <1>4, <2>1 DEF AfterAt, Well
<1> QED  BY <1>2, <1>3, <1>4, Zenon DEF PhaseAt

\* No time-out deceives.
LEMMA SingleFacts ==
  ASSUME Aware, MigrationAssumption
  PROVE  /\ Steady /\ Patient /\ MaxCuts = 0 /\ OneDeath(alive) /\ cuts = 0
         /\ world \in Worlds /\ silent \in [Seats -> SUBSET Seats] /\ alive \subseteq Seats
         /\ session \in [Seats -> Sessions]
<1>1. Steady /\ Patient /\ MaxCuts = 0 /\ OneDeath(alive)
  BY Zenon DEF Aware, Single, Clear
<1>2. cuts \in 0 .. MaxCuts /\ world \in Worlds /\ silent \in [Seats -> SUBSET Seats]
  BY Zenon DEF Aware, IInv
<1>3. cuts = 0
  BY <1>1, <1>2
<1> QED  BY <1>1, <1>2, <1>3, StateFacts DEF Aware

\* A guest that plays and that has lost its host: the host is dead.
LEMMA LostHost ==
  ASSUME Aware, MigrationAssumption, NEW a \in alive, session[a].mode = "Normal",
         NEW h, h = session[a].host, ~Linked(a, h) \/ h \in silent[a]
  PROVE  h \notin alive /\ h \in Seats /\ h # a
<1>1. a \in Seats
  BY SingleFacts
<1>2. h \in Seats
  BY <1>1, SingleFacts DEF Sessions
<1>3. h # a
  BY <1>1, StateFacts DEF Aware, IInvAt, HostAt
<1> QED  BY <1>2, <1>3, Reaches

\* A link of a machine that is dead is closed.
LEMMA CutDead ==
  ASSUME Aware, MigrationAssumption, NEW a, NEW h, h \notin alive, alive' = alive,
         open' = open \ {{a, h}}, \A x \in Seats : \A s \in silent'[x] : s \notin alive
  PROVE  Sees(alive', open', silent')
<1>1. ASSUME NEW x \in alive, NEW y \in alive, x # y PROVE {x, y} \in open'
  <2>1. {x, y} \in open
    BY <1>1, Zenon DEF Aware, Sees
  <2>2. {x, y} # {a, h}
    BY <1>1
  <2> QED  BY <2>1, <2>2
<1> QED  BY <1>1 DEF Sees

\* A session hears: it leaves only a host that is dead.
LEMMA HearSees ==
  ASSUME Aware, MigrationAssumption, NEW g \in Seats, NEW s \in Seats, Hear(g, s)
  PROVE  Sees(alive', open', silent')
<1>1. PICK m, n : m = Head(net[s][g]) /\ n = HeardNet(g, s)
  BY Zenon
<1>2. /\ g \in alive /\ silent' = SilentThen(g, s) /\ alive' = alive
      /\ HearsTurn(g, s, m, n) \/ HearsPropose(g, s, m, n) \/ HearsAnswer(g, s, m, n)
         \/ HearsResume(g, s, m, n) \/ HearsRequest(g, s, m, n)
  BY <1>1, HearFacts, Zenon DEF Aware
<1>3. \A x \in Seats : \A r \in silent'[x] : r \in silent[x]
  BY <1>2, SingleFacts DEF SilentThen
<1>4. \A x \in Seats : \A r \in silent'[x] : r \notin alive
  BY <1>3, Zenon DEF Aware, Sees
<1>5. ASSUME open' = open PROVE Sees(alive', open', silent')
  BY <1>2, <1>4, <1>5, Zenon DEF Aware, Sees
<1>6. PICK t : t = session[g]
  OBVIOUS
<1>7. CASE TakesItsWord(g, s, t, n)
  <2>1. t.mode = "Normal" /\ open' = open \ {{g, t.host}} /\ MayDoubt(g)
    BY <1>7, Zenon DEF TakesItsWord
  <2>2. t.host \in silent[g] \/ t.host \notin alive \/ ~Linked(g, t.host)
    BY <2>1, <1>6, SingleFacts, Zenon DEF MayDoubt
  <2>3. t.host \notin alive
    BY <2>1, <2>2, <1>2, <1>6, LostHost, Zenon
  <2> QED  BY <2>1, <2>3, <1>2, <1>4, CutDead, Zenon
<1>8. ASSUME HearPropose(g, s, m, n), ~TakesItsWord(g, s, t, n) PROVE open' = open
  BY <1>8, <1>6, ProposeCases, Zenon DEF Ignores, SaysHostLives, Votes
<1> QED  BY <1>2, <1>5, <1>7, <1>8, Zenon DEF HearsTurn, HearsPropose, HearsAnswer, HearsResume,
            HearsRequest

\* It stays so that the living see each other.
LEMMA SeesStep ==
  ASSUME Aware, MigrationAssumption, Well, Next
  PROVE  Sees(alive', open', silent')
<1>1. PICK m \in Seats : \/ Update(m) \/ ElectionLimit(m) \/ Crash(m)
                         \/ \E g \in Seats : Cut(m, g)
  BY Zenon DEF Next
<1>2. /\ \A a, b \in alive : a # b => {a, b} \in open
      /\ \A x \in Seats : \A s \in silent[x] : s \notin alive
  BY Zenon DEF Aware, Sees
<1>3. ASSUME alive' = alive, open' = open, silent' = silent PROVE Sees(alive', open', silent')
  BY <1>2, <1>3, Zenon DEF Sees
<1>4. CASE NoticesLoss(m)
  <2>1. m \in alive /\ session[m].mode = "Normal" /\ alive' = alive /\ silent' = silent
        /\ (~Linked(m, session[m].host) \/ session[m].host \in silent[m])
        /\ open' = open \ {{m, session[m].host}}
    BY <1>4, Zenon DEF NoticesLoss
  <2> QED  BY <2>1, <1>2, LostHost, CutDead
<1>5. CASE Propose(m) \/ GivesUpCandidate(m) \/ HostSeals(m) \/ Resolve(m) \/ FetchTick(m)
  BY <1>3, <1>5, Zenon DEF Propose, GivesUpCandidate, HostSeals, Resolve, FetchTick
<1>6. CASE \E s \in Seats : Hear(m, s)
  BY <1>6, HearSees
<1>7. ASSUME NEW s \in Seats, Silence(m, s) PROVE Sees(alive', open', silent')
  <2>1. m \in alive /\ s # m /\ alive' = alive /\ open' = open
        /\ silent' = [silent EXCEPT ![m] = @ \cup {s}]
        /\ \/ s \notin alive \/ session[s].mode = "Lost"
           \/ session[s].mode = "Host" /\ m \notin clients[s]
    BY <1>7, SingleFacts, Zenon DEF Silence
  <2>2. s \notin alive
    BY <2>1, Zenon DEF Well
  <2>3. ASSUME NEW x \in Seats, NEW r \in silent'[x] PROVE r \in silent[x] \/ r = s
    BY <2>1, <2>3, SingleFacts
  <2> QED  BY <2>1, <2>2, <2>3, <1>2, Zenon DEF Sees
<1>8. ASSUME NEW g \in Seats, HostDrops(m, g) PROVE Sees(alive', open', silent')
  <2>1. m \in alive /\ open' = open \ {{m, g}} /\ alive' = alive /\ silent' = silent
        /\ (~Linked(m, g) \/ g \notin alive \/ session[g].mode = "Lost")
    BY <1>8, SingleFacts, Zenon DEF HostDrops
  <2>2. CASE g \notin alive
    BY <2>1, <2>2, <1>2, CutDead, Zenon
  <2>3. CASE g \in alive /\ g # m
    BY <2>1, <2>3, Reaches, Zenon DEF Well
  <2>4. CASE g = m
    <3>1. \A x, y \in alive : x # y => {x, y} # {m, g}
      BY <2>4
    <3> QED  BY <3>1, <2>1, <1>2 DEF Sees
  <2> QED  BY <2>2, <2>3, <2>4
<1>9. ~ElectionLimit(m) /\ ~\E g \in Seats : Cut(m, g)
  <2>1. ~(cuts < MaxCuts)
    BY SingleFacts
  <2> QED  BY <2>1, SingleFacts, Zenon DEF ElectionLimit, Cut
<1>10. CASE Crash(m)
  <2>1. alive' = alive \ {m} /\ open' \in {open, {link \in open : m \notin link}}
        /\ silent' = silent
    BY <1>10, Zenon DEF Crash
  <2> QED  BY <2>1, <1>2 DEF Sees
<1> QED  BY <1>1, <1>4, <1>5, <1>6, <1>7, <1>8, <1>9, <1>10, Zenon DEF Update, SessionStep, HostStep

------------------------------------------------------------------------------
(* What a step of a machine leaves as it is *)

\* Who acts lives, and acts as a host or as a session.
LEMMA WhoActs ==
  ASSUME Aware, MigrationAssumption, NEW m \in Seats, Update(m)
  PROVE  /\ m \in alive
         /\ session[m].mode = "Host" => HostStep(m)
         /\ session[m].mode # "Host" => SessionStep(m)
<1>1. ASSUME SessionStep(m) PROVE m \in alive /\ session[m].mode # "Host"
  BY <1>1, Zenon DEF SessionStep, NoticesLoss, Propose, Resolve, GivesUpCandidate, FetchTick, Hear,
     Silence, Listens
<1>2. clients[m] # {} => session[m].mode = "Host"
  BY StateFacts, Zenon DEF Aware, IInvAt, HostAt
<1>3. ASSUME HostStep(m) PROVE m \in alive /\ session[m].mode = "Host"
  BY <1>2, <1>3, Zenon DEF HostStep, HostSeals, HostDrops
<1> QED  BY <1>1, <1>3, Zenon DEF Update

\* A machine acts or dies: what is said among the others stays.
LEMMA ActsFrame ==
  ASSUME Aware, MigrationAssumption, NEW m \in Seats, Update(m) \/ Crash(m)
  PROVE  Frame(m) /\ net' \in Lines
<1>1. IInv
  BY Zenon DEF Aware
<1>2. Frame(m)
  BY <1>1, NoticesLossFrame, ProposeFrame, ResolveFrame, GivesUpFrame, FetchFrame, HearFrame,
     SilenceFrame, SealsFrame, DropsFrame, CrashFrame, Zenon DEF Update, SessionStep, HostStep
<1>3. Kept
  BY <1>1, NoticesLossKeeps, ProposeKeeps, ResolveKeeps, GivesUpCandidateKeeps, FetchTickKeeps,
     HearKeeps, SilenceKeeps, HostSealsKeeps, HostDropsKeeps, CrashKeeps, Zenon
     DEF Update, SessionStep, HostStep
<1> QED  BY <1>2, <1>3, Zenon DEF Kept, IInvAt, TypesAt

\* Nothing arrives of nothing.
LEMMA EmptyPart ==
  ASSUME NEW r \in Seq(Messages), NEW q, q = <<>>, Part(r, q)
  PROVE  r = <<>>
<1>1. \A i \in DOMAIN r : FALSE
  BY DEF Part
<1>2. Len(r) \in Nat /\ DOMAIN r = 1 .. Len(r)
  OBVIOUS
<1>3. 1 \notin 1 .. Len(r)
  BY <1>1, <1>2
<1>4. Len(r) = 0
  BY <1>2, <1>3
<1> QED  BY <1>4, EmptySeq

\* A machine dies: what it said arrives in part.
LEMMA CrashSays ==
  ASSUME Aware, MigrationAssumption, NEW x \in Seats, Crash(x), NEW b \in Seats
  PROVE  Part(net'[x][b], net[x][b])
<1>1. PICK keep \in [Seats -> 0 .. MaxTurns] :
        /\ \A y \in Seats : keep[y] <= Len(net[x][y])
        /\ net' = [a \in Seats |-> [y \in Seats |->
                     IF a = x THEN SubSeq(net[x][y], 1, keep[y])
                     ELSE IF y = x THEN <<>> ELSE net[a][y]]]
  BY Zenon DEF Crash
<1>2. PICK q, k, r : q = net[x][b] /\ k = keep[b] /\ r = net'[x][b]
  BY Zenon
<1>3. q \in Seq(Messages) /\ k \in Nat /\ k <= Len(q)
  BY <1>1, <1>2, StateFacts DEF Aware, Lines
<1>4. r = SubSeq(q, 1, k)
  BY <1>1, <1>2
<1>5. \A i \in DOMAIN r : i \in DOMAIN q /\ r[i] = q[i]
  BY <1>3, <1>4, Begin
<1> QED  BY <1>2, <1>5, Zenon DEF Part

\* What others said to others stays; what the first host said is turns.
LEMMA Undisturbed ==
  ASSUME Aware, MigrationAssumption, NEW m \in Seats, Frame(m), net' \in Lines
  PROVE  /\ \A x, y \in Seats : x # m /\ y # m => net'[x][y] = net[x][y]
         /\ \A x \in Seats : x # m /\ net[x][m] = <<>> => net'[x][m] = <<>>
         /\ \A x, y \in Seats : x # m /\ OnlyTurns(net[x][y]) => OnlyTurns(net'[x][y])
         /\ \A x \in Seats : x # m => session'[x] = session[x]
<1>1. ASSUME NEW x \in Seats, x # m, net[x][m] = <<>> PROVE net'[x][m] = <<>>
  <2>1. Part(net'[x][m], net[x][m]) /\ net'[x][m] \in Seq(Messages)
    BY <1>1 DEF Frame, Rest, Lines
  <2> QED  BY <2>1, <1>1, EmptyPart
<1>2. ASSUME NEW x \in Seats, NEW y \in Seats, x # m, OnlyTurns(net[x][y])
      PROVE  OnlyTurns(net'[x][y])
  <2>1. CASE y = m
    <3>1. Part(net'[x][m], net[x][m])
      BY <1>2, Zenon DEF Frame, Rest
    <3> QED  BY <3>1, <2>1, <1>2, OnlyTurnsPart, Zenon
  <2>2. CASE y # m
    BY <2>2, <1>2 DEF Frame, Rest
  <2> QED  BY <2>1, <2>2
<1>3. \A x, y \in Seats : x # m /\ y # m => net'[x][y] = net[x][y]
  BY DEF Frame, Rest
<1>4. \A x \in Seats : x # m => session'[x] = session[x]
  BY DEF Frame
<1> QED  BY <1>1, <1>2, <1>3, <1>4, Zenon

\* A turn is read: the session is as it was.
LEMMA ReadsTurn ==
  ASSUME Aware, MigrationAssumption, NEW g \in Seats, NEW s \in Seats, Hear(g, s),
         OnlyTurns(net[s][g]), NEW m, m = Head(net[s][g])
  PROVE  /\ g \in alive /\ m \in Messages /\ Sound(s, m, session, got) /\ m.type = "Turn"
         /\ session' = session /\ alive' = alive /\ clients' = clients
         /\ Heard(s, g, net, net') /\ OnlyTurns(net'[s][g])
         /\ got' = IF TakesTurn(g, s, m) THEN [got EXCEPT ![g] = Append(@, m.by)] ELSE got
<1>1. PICK n : n = HeardNet(g, s)
  OBVIOUS
<1>2. /\ g \in alive /\ Heard(s, g, net, n) /\ m \in Messages /\ m = net[s][g][1]
      /\ 1 \in DOMAIN net[s][g] /\ Sound(s, m, session, got)
      /\ clients' = clients /\ alive' = alive
      /\ HearsTurn(g, s, m, n) \/ HearsPropose(g, s, m, n) \/ HearsAnswer(g, s, m, n)
         \/ HearsResume(g, s, m, n) \/ HearsRequest(g, s, m, n)
  BY <1>1, HearFacts, Zenon DEF Aware
<1>3. m.type = "Turn"
  BY <1>2, Zenon DEF OnlyTurns
<1>4. HearsTurn(g, s, m, n)
  BY <1>2, <1>3 DEF HearsPropose, HearsAnswer, HearsResume, HearsRequest
<1>5. net' = n /\ session' = session
      /\ got' = IF TakesTurn(g, s, m) THEN [got EXCEPT ![g] = Append(@, m.by)] ELSE got
  BY <1>4, Zenon DEF HearsTurn
<1>6. OnlyTurns(n[s][g])
  <2>1. net[s][g] \in Seq(Messages)
    BY StateFacts DEF Aware, Lines
  <2> QED  BY <2>1, <1>2, OnlyTurnsTail, Zenon DEF Heard
<1> QED  BY <1>2, <1>3, <1>5, <1>6, Zenon

\* A host seals: those that it serves are sent the turn.
LEMMA SealFacts ==
  ASSUME Aware, MigrationAssumption, NEW h \in Seats, HostSeals(h)
  PROVE  /\ session' = session /\ clients' = clients /\ alive' = alive
         /\ Gains(h, h, got, got') /\ Grows(got, got')
         /\ \A x \in Seats : x # h => net'[x] = net[x]
         /\ \A b \in Seats : \E q \in Seq(Messages) : OnlyTurns(q) /\ net'[h][b] = net[h][b] \o q
<1>1. PICK m : m = [type |-> "Turn", turn |-> Len(got[h]), by |-> h]
  OBVIOUS
<1>2. PICK box : box = ToAll(clients[h], m)
  OBVIOUS
<1>3. /\ session' = session /\ clients' = clients /\ alive' = alive
      /\ net' = Post(net, h, box) /\ got' = [got EXCEPT ![h] = Append(@, h)]
  BY <1>1, <1>2, Zenon DEF HostSeals
<1>4. got \in [Seats -> Seq(Seats)] /\ net \in Lines
  BY StateFacts DEF Aware
<1>5. Gains(h, h, got, got') /\ Grows(got, got')
  BY <1>3, <1>4, GainsFacts
<1>6. Len(got[h]) \in Nat
  BY <1>4
<1>7. m \in Messages /\ m.type = "Turn"
  BY <1>1, <1>6 DEF Messages
<1>8. box \in Boxes /\ \A s \in Seats : box[s] = IF s \in clients[h] THEN <<m>> ELSE <<>>
  BY <1>2, <1>7, ToAllFacts
<1>9. OnlyTurns(<<m>>) /\ OnlyTurns(<<>>) /\ <<m>> \in Seq(Messages) /\ <<>> \in Seq(Messages)
  BY <1>7 DEF OnlyTurns
<1>10. \A x \in Seats : x # h => net'[x] = net[x]
  BY <1>3, <1>4 DEF Post, Lines
<1>12. ASSUME NEW b \in Seats
       PROVE  \E q \in Seq(Messages) : OnlyTurns(q) /\ net'[h][b] = net[h][b] \o q
  <2>1. net'[h][b] = net[h][b] \o box[b] \/ net'[h][b] = net[h][b]
    <3>1. Posted(net', net, h, box)
      BY <1>3, <1>4, <1>8, PostFacts
    <3> QED  BY <3>1, Zenon DEF Posted
  <2>2. net[h][b] \o <<>> = net[h][b]
    BY <1>4 DEF Lines
  <2>3. box[b] \in {<<m>>, <<>>}
    BY <1>8
  <2> QED  BY <2>1, <2>2, <2>3, <1>9
<1> QED  BY <1>3, <1>5, <1>10, <1>12

------------------------------------------------------------------------------
(* Before the host dies *)

\* One step more than the crash of a machine when none died: the host does, and the others live.
LEMMA HostDies ==
  ASSUME Aware, MigrationAssumption, BeforeAt(session, clients, alive, net), Crash(FirstHost),
         OneDeath(alive')
  PROVE  MeanwhileAt(session', got', alive', net')
<1>1. /\ FirstHost \in Seats /\ FirstHost \notin Others /\ Others \subseteq Seats
      /\ Seats = Others \cup {FirstHost} /\ Peers \subseteq Others
      /\ Others # {} => Heir \in Others
      /\ None \notin Seats
  BY SeatFacts, Zenon DEF Aware
<1>2. alive' = alive \ {FirstHost} /\ session' = session /\ got' = got
  BY Zenon DEF Crash
<1>3. alive' = Others
  <2>1. \A a \in Seats \ alive' : a = FirstHost
    BY <1>1, <1>2 DEF OneDeath
  <2> QED  BY <2>1, <1>1, <1>2, SingleFacts
<1>4. Frame(FirstHost) /\ net' \in Lines
  BY <1>1, ActsFrame
<1>5. PICK M : M = net'
  OBVIOUS
<1>6. \A x \in Others, y \in Seats : M[x][y] = <<>>
  <2>1. \A x \in Others : \A y \in Seats : net[x][y] = <<>>
    BY Zenon DEF BeforeAt
  <2>2. ASSUME NEW x \in Others, NEW y \in Seats PROVE M[x][y] = <<>>
    <3>1. CASE y = FirstHost
      BY <3>1, <2>1, <1>1, <1>4, <1>5, Undisturbed
    <3>2. CASE y # FirstHost
      BY <3>2, <2>1, <1>1, <1>4, <1>5, Undisturbed
    <3> QED  BY <3>1, <3>2
  <2> QED  BY <2>2
<1>7. \A g \in Seats : OnlyTurns(M[FirstHost][g])
  <2>1. ASSUME NEW g \in Seats PROVE OnlyTurns(M[FirstHost][g])
    BY <1>1, <1>5, CrashSays, OnlyTurnsPart DEF BeforeAt
  <2> QED  BY <2>1
<1>8. ASSUME NEW g \in Others
      PROVE  /\ session[g].mode = "Normal" /\ session[g].host = FirstHost /\ session[g].epoch = 0
             /\ session[g].following = None /\ ~session[g].proposed
  BY <1>1, <1>8 DEF BeforeAt, Aware, FirstEpoch, FreshInv, Fresh
<1>9. Others # {} => HeirOK(session[Heir])
  BY <1>1, <1>8 DEF HeirOK
<1>10. ASSUME NEW g \in Peers
       PROVE  /\ GuestOK(session[g])
              /\ Line(g, session[Heir], session[g], Len(got[g]), Len(got[Heir]),
                      M[g][Heir], M[Heir][g])
  <2>1. g \in Others /\ g \in Seats /\ Heir \in Others /\ Heir \in Seats
    BY <1>1, <1>10
  <2>2. GuestOK(session[g])
    BY <2>1, <1>8 DEF GuestOK
  <2>3. M[g][Heir] = <<>> /\ M[Heir][g] = <<>> /\ ~session[Heir].proposed
    BY <2>1, <1>6, <1>8
  <2> QED  BY <2>2, <2>3, Zenon DEF Line, Uncalled
<1>11. \A g, b \in Peers : M[g][b] = <<>>
  BY <1>1, <1>6
<1> QED  BY <1>2, <1>3, <1>5, <1>7, <1>9, <1>10, <1>11, Zenon DEF MeanwhileAt

\* The first host lives, or dies in this step.
LEMMA BeforeStep ==
  ASSUME Aware, MigrationAssumption, Well, BeforeAt(session, clients, alive, net),
         NEW m \in Seats, Update(m) \/ Crash(m), OneDeath(alive')
  PROVE  PhaseAt(session', got', clients', alive', net')
<1>1. /\ FirstHost \in Seats /\ FirstHost \notin Others /\ Others \subseteq Seats
      /\ Seats = Others \cup {FirstHost}
  BY SeatFacts, Zenon DEF Aware
<1>2. /\ FirstHost \in alive /\ \A g \in alive : g = FirstHost \/ g \in clients[FirstHost]
      /\ \A g \in Others : session[g].mode = "Normal" /\ session[g].host = FirstHost
      /\ \A g \in Others : \A b \in Seats : net[g][b] = <<>>
      /\ \A g \in Seats : OnlyTurns(net[FirstHost][g])
      /\ session[FirstHost].mode = "Host"
  BY Zenon DEF BeforeAt, Aware, FirstHostInv
<1>3. Frame(m) /\ net' \in Lines
  BY ActsFrame
\* Nothing but the first host's turns: it is as before.
<1>4. ASSUME session' = session, FirstHost \in alive', alive' \subseteq alive,
             \A g \in alive' : g = FirstHost \/ g \in clients'[FirstHost],
             \A g \in Others : \A b \in Seats : net'[g][b] = <<>>,
             \A g \in Seats : OnlyTurns(net'[FirstHost][g])
      PROVE  PhaseAt(session', got', clients', alive', net')
  BY <1>2, <1>4, Zenon DEF PhaseAt, BeforeAt
<1>5. CASE Crash(m)
  <2>1. CASE m = FirstHost
    BY <1>5, <2>1, HostDies, Zenon DEF PhaseAt
  <2>2. CASE m # FirstHost
    <3>1. alive' = alive \ {m} /\ session' = session /\ clients' = clients
      BY <1>5, Zenon DEF Crash
    <3>2. \A g \in Seats : OnlyTurns(net'[FirstHost][g])
      BY <1>1, <1>2, <1>3, <2>2, Undisturbed
    <3>3. ASSUME NEW g \in Others, NEW b \in Seats PROVE net'[g][b] = <<>>
      <4>1. CASE g # m /\ b # m
        BY <4>1, <3>3, <1>1, <1>2, <1>3, Undisturbed
      <4>2. CASE g # m /\ b = m
        BY <4>2, <3>3, <1>1, <1>2, <1>3, Undisturbed
      <4>3. CASE g = m
        <5>1. net[m][b] = <<>>
          BY <4>3, <3>3, <1>2
        <5>2. Part(net'[m][b], net[m][b]) /\ net'[m][b] \in Seq(Messages)
          BY <1>3, <1>5, <3>3, CrashSays DEF Lines
        <5> QED  BY <5>1, <5>2, <4>3, EmptyPart
      <4> QED  BY <4>1, <4>2, <4>3
    <3> QED  BY <3>1, <3>2, <3>3, <2>2, <1>2, <1>4
  <2> QED  BY <2>1, <2>2
<1>6. CASE Update(m) /\ m = FirstHost
  <2>1. HostStep(m)
    BY <1>2, <1>6, WhoActs
  <2>2. CASE HostSeals(m)
    <3>1. /\ session' = session /\ clients' = clients /\ alive' = alive
          /\ \A x \in Seats : x # m => net'[x] = net[x]
          /\ \A b \in Seats : \E q \in Seq(Messages) : OnlyTurns(q) /\ net'[m][b] = net[m][b] \o q
      BY <2>2, SealFacts, Zenon
    <3>2. ASSUME NEW g \in Others, NEW b \in Seats PROVE net'[g][b] = <<>>
      <4>1. g \in Seats /\ g # m
        BY <3>2, <1>1, <1>6
      <4>2. net'[g] = net[g]
        BY <4>1, <3>1
      <4> QED  BY <4>2, <3>2, <1>2, Zenon
    <3>3. ASSUME NEW b \in Seats PROVE OnlyTurns(net'[m][b])
      <4>1. net[m][b] \in Seq(Messages) /\ OnlyTurns(net[m][b])
        BY <1>1, <1>2, <1>6, StateFacts DEF Aware, Lines
      <4> QED  BY <4>1, <3>1, OnlyTurnsMore
    <3> QED  BY <3>1, <3>2, <3>3, <1>2, <1>4, <1>6
  <2>3. ASSUME NEW g \in Seats, HostDrops(m, g)
        PROVE  PhaseAt(session', got', clients', alive', net')
    <3>1. /\ g \in clients[m] /\ (~Linked(m, g) \/ g \notin alive \/ session[g].mode = "Lost")
          /\ clients' = [clients EXCEPT ![m] = @ \ {g}]
          /\ session' = session /\ alive' = alive /\ net' = net
      BY <2>3, SingleFacts, Zenon DEF HostDrops
    <3>2. g = m \/ g \notin alive
      BY <3>1, <1>2, <1>6, Reaches, Zenon DEF Well
    <3>3. clients'[m] = clients[m] \ {g}
      BY <3>1, StateFacts DEF Aware
    <3>4. \A x \in alive : x = FirstHost \/ x \in clients'[FirstHost]
      BY <3>2, <3>3, <1>2, <1>6
    <3> QED  BY <3>1, <3>4, <1>2, <1>4
  <2> QED  BY <2>1, <2>2, <2>3, Zenon DEF HostStep
<1>7. CASE Update(m) /\ m \in Others
  <2>1. m \in alive /\ session[m].mode = "Normal" /\ session[m].host = FirstHost
    BY <1>2, <1>7, WhoActs
  <2>2. SessionStep(m)
    BY <2>1, <1>7, WhoActs
  <2>3. ~NoticesLoss(m)
    BY <2>1, <1>2, LostHost, Zenon DEF NoticesLoss
  <2>4. ~Propose(m) /\ ~Resolve(m) /\ ~GivesUpCandidate(m) /\ ~FetchTick(m)
    BY <2>1 DEF Propose, Resolve, GivesUpCandidate, FetchTick
  <2>5. ASSUME NEW s \in Seats, Silence(m, s) PROVE PhaseAt(session', got', clients', alive', net')
    BY <2>5, <1>2, <1>4, Zenon DEF Silence
  <2>6. ASSUME NEW s \in Seats, Hear(m, s) PROVE PhaseAt(session', got', clients', alive', net')
    <3>1. s = FirstHost
      BY <2>6, <1>1, <1>2 DEF Hear
    <3>2. session' = session /\ alive' = alive /\ clients' = clients
          /\ Heard(s, m, net, net') /\ OnlyTurns(net'[s][m])
      BY <2>6, <3>1, <1>2, ReadsTurn
    <3>3. \A g \in Others : \A b \in Seats : net'[g][b] = <<>>
      BY <3>1, <3>2, <1>1, <1>2 DEF Heard
    <3>4. \A g \in Seats : OnlyTurns(net'[FirstHost][g])
      BY <3>1, <3>2, <1>1, <1>2 DEF Heard
    <3> QED  BY <3>2, <3>3, <3>4, <1>2, <1>4
  <2> QED  BY <2>2, <2>3, <2>4, <2>5, <2>6, Zenon DEF SessionStep
<1> QED  BY <1>1, <1>5, <1>6, <1>7

------------------------------------------------------------------------------
(* After Heir has taken over *)

\* A queue that begins with the new host's word: more turns come, or the word is read.
LEMMA ResumesMore ==
  ASSUME NEW p \in Seq(Messages), NEW q \in Seq(Messages), NEW n, Resumes(p, n), OnlyTurns(q)
  PROVE  Resumes(p \o q, n)
<1>1. PICK k, l, r : k = Len(p) /\ l = Len(q) /\ r = p \o q
  BY Zenon
<1>2. Joined(r, p, q, k, l)
  BY <1>1, JoinedFacts
<1>3. k \in Nat /\ l \in Nat /\ r \in Seq(Messages) /\ DOMAIN r = 1 .. k + l /\ DOMAIN p = 1 .. k
  BY <1>1, <1>2 DEF Joined
<1>4. p # <<>> /\ p[1].type = "Resume" /\ p[1].epoch = 1 /\ n <= p[1].turn
      /\ \A i \in DOMAIN p : i # 1 => p[i].type = "Turn"
  BY Zenon DEF Resumes
<1>5. k # 0
  BY <1>1, <1>4, EmptySeq
<1>6. r[1] = p[1]
  BY <1>2, <1>3, <1>5 DEF Joined
<1>7. ASSUME NEW i \in 1 .. k + l, i # 1 PROVE r[i].type = "Turn"
  <2>1. CASE i <= k
    BY <2>1, <1>2, <1>3, <1>4, <1>7 DEF Joined
  <2>2. CASE ~(i <= k)
    <3>1. PICK j \in 1 .. l : i = k + j
      BY <2>2, <1>3
    <3>2. r[i] = q[j]
      BY <3>1, <1>2 DEF Joined
    <3> QED  BY <3>1, <3>2, <1>1 DEF OnlyTurns
  <2> QED  BY <2>1, <2>2
<1>8. r # <<>>
  BY <1>3, <1>5
<1> QED  BY <1>1, <1>3, <1>4, <1>6, <1>7, <1>8 DEF Resumes

LEMMA ResumesTail ==
  ASSUME NEW q \in Seq(Messages), NEW n, Resumes(q, n)
  PROVE  /\ Head(q).type = "Resume" /\ Head(q).epoch = 1 /\ n <= Head(q).turn
         /\ OnlyTurns(Tail(q))
<1>1. /\ q # <<>> /\ q[1].type = "Resume" /\ q[1].epoch = 1 /\ n <= q[1].turn
      /\ \A i \in DOMAIN q : i # 1 => q[i].type = "Turn"
  BY Zenon DEF Resumes
<1>2. Head(q) = q[1] /\ Len(q) \in Nat \ {0} /\ Tail(q) \in Seq(Messages)
      /\ Len(Tail(q)) = Len(q) - 1 /\ \A i \in 1 .. Len(q) - 1 : Tail(q)[i] = q[i + 1]
  BY <1>1, TailAt
<1>3. DOMAIN q = 1 .. Len(q) /\ DOMAIN Tail(q) = 1 .. Len(q) - 1
  BY <1>2
<1>4. \A i \in DOMAIN Tail(q) : i + 1 \in DOMAIN q /\ i + 1 # 1 /\ Tail(q)[i] = q[i + 1]
  BY <1>2, <1>3
<1> QED  BY <1>1, <1>2, <1>4 DEF OnlyTurns

\* The host died, and no other machine does.
LEMMA NoOtherDies ==
  ASSUME Aware, MigrationAssumption, alive = Others, NEW m \in Seats, Crash(m)
  PROVE  ~OneDeath(alive')
<1>1. m \in alive /\ alive' = alive \ {m}
  BY Zenon DEF Crash
<1>2. m # FirstHost /\ FirstHost \notin alive' /\ m \notin alive' /\ FirstHost \in Seats
  BY <1>1, SeatFacts DEF Aware
<1> QED  BY <1>2, Zenon DEF OneDeath

\* Another guest hears: it reads a turn, or learns who its new host is.
LEMMA LedHears ==
  ASSUME Aware, MigrationAssumption, AfterAt(session, got, clients, alive, net),
         NEW g \in Peers, NEW s \in Seats, Hear(g, s)
  PROVE  AfterAt(session', got', clients', alive', net')
<1>1. /\ FirstHost \in Seats /\ FirstHost \notin Others /\ Others \subseteq Seats
      /\ Seats = Others \cup {FirstHost} /\ Peers \subseteq Others /\ Heir \notin Peers
      /\ Others # {} => Heir \in Others /\ Others = Peers \cup {Heir}
  BY SeatFacts, Zenon DEF Aware
<1>2. /\ alive = Others /\ Others # {} /\ session[Heir].mode = "Host"
      /\ Peers \subseteq clients[Heir]
      /\ \A x \in Peers : Led(x, session[x], Len(got[x]), net[Heir][x])
      /\ \A x \in Peers : /\ Len(got[x]) <= Len(got[Heir])
                          /\ \A k \in 1 .. Len(got[x]) : got[x][k] = got[Heir][k]
      /\ \A x, b \in Peers : net[x][b] = <<>>
      /\ \A x \in Seats : OnlyTurns(net[FirstHost][x])
  BY Zenon DEF AfterAt
<1>3. g \in Seats /\ Heir \in Seats /\ g # Heir /\ g # FirstHost
  BY <1>1, <1>2
<1>4. got \in [Seats -> Seq(Seats)] /\ net \in Lines /\ session \in [Seats -> Sessions]
  BY StateFacts DEF Aware
<1>5. net[s][g] # <<>> /\ g \in alive
  BY Zenon DEF Hear
<1>6. s \in {FirstHost, Heir}
  BY <1>1, <1>2, <1>5
<1>7. \/ session[g].mode = "Normal" /\ session[g].host = Heir /\ OnlyTurns(net[Heir][g])
      \/ /\ session[g].mode = "Following" /\ GuestOK(session[g])
         /\ Resumes(net[Heir][g], Len(got[g]))
  BY <1>2, Zenon DEF Led
\* What is to be shown
<1>8. ASSUME clients' = clients, alive' = alive, Heard(s, g, net, net'), NEW n,
             OnlyTurns(net'[FirstHost][g]),
             \A x \in Seats : x # g => session'[x] = session[x] /\ got'[x] = got[x],
             n = Len(got'[g]), Led(g, session'[g], n, net'[Heir][g]), n <= Len(got[Heir]),
             \A k \in 1 .. n : got'[g][k] = got[Heir][k]
      PROVE  AfterAt(session', got', clients', alive', net')
  <2>1. \A a, b \in Seats : a # s \/ b # g => net'[a][b] = net[a][b]
    BY <1>8, Zenon DEF Heard
  <2>2. \A x \in Peers : x # g => Led(x, session'[x], Len(got'[x]), net'[Heir][x])
    BY <2>1, <1>1, <1>2, <1>3, <1>8
  <2>3. \A x \in Peers : /\ Len(got'[x]) <= Len(got'[Heir])
                         /\ \A k \in 1 .. Len(got'[x]) : got'[x][k] = got'[Heir][k]
    <3>1. got'[Heir] = got[Heir]
      BY <1>3, <1>8
    <3>2. ASSUME NEW x \in Peers
          PROVE  /\ Len(got'[x]) <= Len(got'[Heir])
                 /\ \A k \in 1 .. Len(got'[x]) : got'[x][k] = got'[Heir][k]
      <4>1. CASE x = g
        BY <4>1, <3>1, <1>8, Zenon
      <4>2. CASE x # g
        <5>1. got'[x] = got[x]
          BY <4>2, <1>1, <1>8
        <5> QED  BY <5>1, <3>1, <1>2, ZenonT(60)
      <4> QED  BY <4>1, <4>2
    <3> QED  BY <3>2, Zenon
  <2>4. \A x, b \in Peers : net'[x][b] = <<>>
    BY <2>1, <1>1, <1>2, <1>6
  <2>5. \A x \in Seats : OnlyTurns(net'[FirstHost][x])
    BY <2>1, <1>1, <1>2, <1>8
  <2>6. session'[Heir] = session[Heir]
    BY <1>3, <1>8
  <2>7. \A x \in Peers : Led(x, session'[x], Len(got'[x]), net'[Heir][x])
    BY <2>2, <1>8, Zenon
  <2> QED  BY <2>3, <2>4, <2>5, <2>6, <2>7, <1>2, <1>8, Zenon DEF AfterAt
<1>9. CASE OnlyTurns(net[s][g])
  <2>1. PICK m : m = Head(net[s][g])
    OBVIOUS
  <2>2. /\ m \in Messages /\ Sound(s, m, session, got) /\ m.type = "Turn"
        /\ session' = session /\ alive' = alive /\ clients' = clients
        /\ Heard(s, g, net, net') /\ OnlyTurns(net'[s][g])
        /\ got' = IF TakesTurn(g, s, m) THEN [got EXCEPT ![g] = Append(@, m.by)] ELSE got
    BY <2>1, <1>3, <1>9, ReadsTurn
  <2>3. OnlyTurns(net'[FirstHost][g])
    BY <2>2, <1>1, <1>2, <1>3 DEF Heard
  <2>4. \A x \in Seats : x # g => session'[x] = session[x] /\ got'[x] = got[x]
    BY <2>2, <1>4
  <2>5. s # Heir => net'[Heir][g] = net[Heir][g]
    BY <2>2, <1>3 DEF Heard
  <2>6. s = Heir => session[g].mode = "Normal"
    <3>1. SUFFICES ASSUME s = Heir, session[g].mode = "Following" PROVE FALSE
      BY <1>7, Zenon
    <3>2. Resumes(net[Heir][g], Len(got[g])) /\ net[Heir][g] \in Seq(Messages)
      BY <3>1, <1>3, <1>4, <1>7 DEF Lines
    <3>3. m.type = "Resume"
      BY <3>1, <3>2, <2>1, ResumesTail
    <3> QED  BY <3>3, <2>2
  <2>7. CASE ~TakesTurn(g, s, m)
    <3>1. got' = got
      BY <2>2, <2>7
    <3>2. Led(g, session'[g], Len(got'[g]), net'[Heir][g])
      <4>1. CASE s = Heir
        BY <4>1, <3>1, <2>2, <2>6, <1>7 DEF Led
      <4>2. CASE s # Heir
        BY <4>2, <3>1, <2>2, <2>5, <1>2
      <4> QED  BY <4>1, <4>2
    <3> QED  BY <3>1, <3>2, <2>2, <2>3, <2>4, <1>2, <1>8, Zenon
  <2>8. CASE TakesTurn(g, s, m)
    <3>1. /\ m.turn = Len(got[g])
          /\ \/ session[g].mode = "Normal" /\ session[g].host = s
             \/ session[g].mode = "Fetching" /\ session[g].source = s
      BY <2>8, Zenon DEF TakesTurn
    <3>2. s = Heir /\ session[g].mode = "Normal" /\ session[g].host = Heir
      BY <3>1, <1>7
    <3>3. m.turn < Len(got[Heir]) /\ m.by = got[Heir][m.turn + 1]
      BY <3>2, <2>2, Zenon DEF Sound
    <3>4. PICK n : n = Len(got[g])
      OBVIOUS
    <3>5. n \in Nat /\ Len(got[Heir]) \in Nat /\ got[Heir] \in Seq(Seats)
      BY <3>4, <1>3, <1>4
    <3>6. m.by \in Seats
      BY <3>1, <3>3, <3>4, <3>5
    <3>7. Gains(g, m.by, got, got')
      BY <3>6, <2>2, <2>8, <1>3, <1>4, GainsFacts
    <3>8. Len(got'[g]) = n + 1 /\ got'[g][n + 1] = got[Heir][n + 1]
          /\ \A k \in 1 .. n : got'[g][k] = got[g][k]
      BY <3>1, <3>3, <3>4, <3>7 DEF Gains
    <3>9. \A k \in 1 .. n + 1 : got'[g][k] = got[Heir][k]
      <4>1. \A k \in 1 .. n : got[g][k] = got[Heir][k]
        BY <3>4, <1>2
      <4> QED  BY <4>1, <3>5, <3>8
    <3>10. n + 1 <= Len(got[Heir])
      BY <3>1, <3>3, <3>4, <3>5
    <3>11. Led(g, session'[g], n + 1, net'[Heir][g])
      BY <3>2, <2>2 DEF Led
    <3> QED  BY <3>8, <3>9, <3>10, <3>11, <2>2, <2>3, <2>4, <1>8, Zenon
  <2> QED  BY <2>7, <2>8
<1>10. CASE ~OnlyTurns(net[s][g])
  <2>1. s = Heir /\ session[g].mode = "Following" /\ GuestOK(session[g])
        /\ Resumes(net[Heir][g], Len(got[g]))
    BY <1>2, <1>3, <1>6, <1>7, <1>10
  <2>2. PICK m, n : m = Head(net[s][g]) /\ n = HeardNet(g, s)
    BY Zenon
  <2>3. /\ Heard(s, g, net, n) /\ m \in Messages
        /\ clients' = clients /\ alive' = alive
        /\ HearsTurn(g, s, m, n) \/ HearsPropose(g, s, m, n) \/ HearsAnswer(g, s, m, n)
           \/ HearsResume(g, s, m, n) \/ HearsRequest(g, s, m, n)
    BY <2>2, <1>3, HearFacts, Zenon DEF Aware
  <2>4. m.type = "Resume" /\ m.epoch = 1 /\ Len(got[g]) <= m.turn /\ OnlyTurns(Tail(net[Heir][g]))
    <3>1. net[Heir][g] \in Seq(Messages)
      BY <1>3, <1>4 DEF Lines
    <3> QED  BY <3>1, <2>1, <2>2, ResumesTail
  <2>5. HearResume(g, s, m, n) /\ got' = got
    BY <2>3, <2>4 DEF HearsTurn, HearsPropose, HearsAnswer, HearsResume, HearsRequest
  <2>6. Honours(g, s, m)
    BY <2>1, <2>4, <1>1 DEF Honours, Electing, GuestOK, ElectionEpoch
  <2>7. ~(m.turn < Len(got[g]))
    <3>1. m.turn \in Nat
      BY <2>3, <2>4 DEF Messages
    <3> QED  BY <3>1, <2>4, <1>3, <1>4
  <2>8. net' = n
        /\ session' = [session EXCEPT ![g] = [NewSession EXCEPT !.host = s, !.epoch = m.epoch]]
    BY <2>5, <2>6, <2>7, Zenon DEF HearResume
  <2>9. session'[g].mode = "Normal" /\ session'[g].host = Heir
    <3>1. PICK u : u = [NewSession EXCEPT !.host = s, !.epoch = m.epoch]
      OBVIOUS
    <3>2. session'[g] = u
      BY <3>1, <2>8, <1>3, <1>4
    <3>3. u.mode = "Normal" /\ u.host = s
      BY <3>1 DEF NewSession
    <3> QED  BY <3>2, <3>3, <2>1
  <2>10. \A x \in Seats : x # g => session'[x] = session[x]
    BY <2>8, <1>4
  <2>11. net'[Heir][g] = Tail(net[Heir][g]) /\ net'[FirstHost][g] = net[FirstHost][g]
    BY <2>1, <2>3, <2>8, <1>1, <1>3, Zenon DEF Heard
  <2>12. Led(g, session'[g], Len(got'[g]), net'[Heir][g])
    BY <2>4, <2>9, <2>11, Zenon DEF Led
  <2> QED  BY <2>3, <2>5, <2>8, <2>10, <2>11, <2>12, <1>2, <1>3, <1>8, Zenon
<1> QED  BY <1>9, <1>10

\* Heir hosts, and goes on to.
LEMMA AfterStep ==
  ASSUME Aware, MigrationAssumption, Well, AfterAt(session, got, clients, alive, net),
         NEW m \in Seats, Update(m) \/ Crash(m), OneDeath(alive')
  PROVE  AfterAt(session', got', clients', alive', net')
<1>1. /\ FirstHost \in Seats /\ FirstHost \notin Others /\ Others \subseteq Seats
      /\ Seats = Others \cup {FirstHost} /\ Peers \subseteq Others /\ Heir \notin Peers
      /\ Others # {} => Heir \in Others /\ Others = Peers \cup {Heir}
  BY SeatFacts, Zenon DEF Aware
<1>2. /\ alive = Others /\ Others # {} /\ session[Heir].mode = "Host"
      /\ Peers \subseteq clients[Heir]
      /\ \A x \in Peers : Led(x, session[x], Len(got[x]), net[Heir][x])
      /\ \A x \in Peers : /\ Len(got[x]) <= Len(got[Heir])
                          /\ \A k \in 1 .. Len(got[x]) : got[x][k] = got[Heir][k]
      /\ \A x, b \in Peers : net[x][b] = <<>>
      /\ \A x \in Seats : OnlyTurns(net[FirstHost][x])
  BY Zenon DEF AfterAt
<1>3. Update(m) /\ m \in alive
  BY <1>2, NoOtherDies, WhoActs
<1>4. got \in [Seats -> Seq(Seats)] /\ net \in Lines /\ session \in [Seats -> Sessions]
      /\ clients \in [Seats -> SUBSET Seats]
  BY StateFacts DEF Aware
<1>5. CASE m = Heir
  <2>1. HostStep(m)
    BY <1>2, <1>3, <1>5, WhoActs
  <2>2. CASE HostSeals(m)
    <3>1. /\ session' = session /\ clients' = clients /\ alive' = alive
          /\ Gains(m, m, got, got') /\ Grows(got, got')
          /\ \A x \in Seats : x # m => net'[x] = net[x]
          /\ \A b \in Seats : \E q \in Seq(Messages) : OnlyTurns(q) /\ net'[m][b] = net[m][b] \o q
      BY <2>2, SealFacts, Zenon
    <3>2. ASSUME NEW x \in Peers
          PROVE  /\ Led(x, session'[x], Len(got'[x]), net'[Heir][x])
                 /\ Len(got'[x]) <= Len(got'[Heir])
                 /\ \A k \in 1 .. Len(got'[x]) : got'[x][k] = got'[Heir][k]
      <4>1. x \in Seats /\ x # m /\ net[m][x] \in Seq(Messages) /\ Len(got[x]) \in Nat
        BY <3>2, <1>1, <1>4, <1>5 DEF Lines
      <4>2. got'[x] = got[x]
        BY <4>1, <3>1 DEF Gains
      <4>3. PICK q \in Seq(Messages) : OnlyTurns(q) /\ net'[m][x] = net[m][x] \o q
        BY <4>1, <3>1
      <4>4. Led(x, session[x], Len(got[x]), net[m][x])
        BY <1>2, <1>5, <3>2
      <4>5. OnlyTurns(net[m][x]) => OnlyTurns(net'[m][x])
        BY <4>1, <4>3, OnlyTurnsMore
      <4>6. Resumes(net[m][x], Len(got[x])) => Resumes(net'[m][x], Len(got[x]))
        BY <4>1, <4>3, ResumesMore
      <4>7. Led(x, session'[x], Len(got'[x]), net'[Heir][x])
        BY <4>2, <4>4, <4>5, <4>6, <3>1, <1>5, Zenon DEF Led
      <4>8. Len(got[Heir]) \in Nat /\ Len(got[Heir]) <= Len(got'[Heir]) /\ Len(got'[Heir]) \in Nat
            /\ \A k \in 1 .. Len(got[Heir]) : got'[Heir][k] = got[Heir][k]
        <5>1. Grows(got, got') /\ Heir \in Seats
          BY <3>1, <1>1, <1>2
        <5> QED  BY <5>1 DEF Grows
      <4>9. Len(got[x]) <= Len(got[Heir]) /\ \A k \in 1 .. Len(got[x]) : got[x][k] = got[Heir][k]
        BY <1>2, <3>2
      <4> QED  BY <4>1, <4>2, <4>7, <4>8, <4>9, SMTT(40)
    <3>3. \A x, b \in Peers : net'[x][b] = <<>>
      <4>1. \A x \in Peers : x \in Seats /\ x # m
        BY <1>1, <1>5
      <4> QED  BY <4>1, <3>1, <1>2
    <3>4. \A x \in Seats : OnlyTurns(net'[FirstHost][x])
      <4>1. net'[FirstHost] = net[FirstHost]
        BY <3>1, <1>1, <1>2, <1>5
      <4> QED  BY <4>1, <1>2
    <3> QED  BY <3>1, <3>2, <3>3, <3>4, <1>2, Zenon DEF AfterAt
  <2>3. ASSUME NEW g \in Seats, HostDrops(m, g)
        PROVE  AfterAt(session', got', clients', alive', net')
    <3>1. /\ g \in clients[m] /\ (~Linked(m, g) \/ g \notin alive \/ session[g].mode = "Lost")
          /\ clients' = [clients EXCEPT ![m] = @ \ {g}]
          /\ session' = session /\ got' = got /\ alive' = alive /\ net' = net
      BY <2>3, SingleFacts, Zenon DEF HostDrops
    <3>2. g \notin Peers
      BY <3>1, <1>1, <1>2, <1>3, <1>5, Reaches, Zenon DEF Well
    <3>3. clients'[m] = clients[m] \ {g}
      BY <3>1, <1>4
    <3>4. Peers \subseteq clients'[Heir]
      BY <3>2, <3>3, <1>2, <1>5
    <3> QED  BY <3>1, <3>4, <1>2, Zenon DEF AfterAt
  <2> QED  BY <2>1, <2>2, <2>3, Zenon DEF HostStep
<1>6. CASE m \in Peers
  <2>1. \/ session[m].mode = "Normal" /\ session[m].host = Heir
        \/ session[m].mode = "Following" /\ GuestOK(session[m])
    BY <1>2, <1>6, Zenon DEF Led
  <2>2. SessionStep(m)
    BY <2>1, <1>3, WhoActs
  <2>3. PeerAlive(m, Heir) /\ Linked(m, Heir) /\ Heir \notin silent[m]
    BY <1>1, <1>2, <1>3, <1>6, Reaches
  <2>4. ~NoticesLoss(m)
    BY <2>1, <2>3 DEF NoticesLoss
  <2>5. ~Propose(m) /\ ~Resolve(m) /\ ~FetchTick(m)
    BY <2>1 DEF Propose, Resolve, FetchTick
  <2>6. ~GivesUpCandidate(m)
    BY <2>1, <2>3, <1>1, <1>2, SingleFacts DEF GivesUpCandidate, GuestOK
  <2>7. ASSUME NEW s \in Seats, Silence(m, s) PROVE AfterAt(session', got', clients', alive', net')
    BY <2>7, <1>2, Zenon DEF Silence, AfterAt
  <2> QED  BY <2>2, <2>4, <2>5, <2>6, <2>7, <1>6, LedHears, Zenon DEF SessionStep
<1> QED  BY <1>1, <1>2, <1>3, <1>5, <1>6

------------------------------------------------------------------------------
(* Until Heir takes over: what is between it and another *)

\* What is so until Heir takes over, of the one m that acts
LEMMA MeanwhileFacts ==
  ASSUME Aware, MigrationAssumption, MeanwhileAt(session, got, alive, net), NEW m \in alive
  PROVE  /\ alive = Others /\ Heir \in alive /\ Heir \in Seats /\ FirstHost \notin alive
         /\ FirstHost \in Seats /\ FirstHost # Heir
         /\ HeirOK(session[Heir]) /\ session[m].mode # "Host"
         /\ m = Heir \/ m \in Peers
         /\ \A g \in Peers :
              /\ g \in alive /\ g \in Seats /\ g # Heir /\ g # FirstHost /\ GuestOK(session[g])
              /\ Line(g, session[Heir], session[g], Len(got[g]), Len(got[Heir]), net[g][Heir],
                      net[Heir][g])
         /\ \A g, b \in Peers : net[g][b] = <<>>
         /\ \A g \in Seats : OnlyTurns(net[FirstHost][g])
<1>1. /\ FirstHost \in Seats /\ FirstHost \notin Others /\ Others \subseteq Seats
      /\ Peers \subseteq Others /\ Heir \notin Peers
      /\ Others # {} => Heir \in Others /\ Others = Peers \cup {Heir}
  BY SeatFacts, Zenon DEF Aware
<1>2. /\ alive = Others /\ HeirOK(session[Heir])
      /\ \A g \in Peers :
           /\ GuestOK(session[g])
           /\ Line(g, session[Heir], session[g], Len(got[g]), Len(got[Heir]), net[g][Heir],
                   net[Heir][g])
      /\ \A g, b \in Peers : net[g][b] = <<>>
      /\ \A g \in Seats : OnlyTurns(net[FirstHost][g])
  BY Zenon DEF MeanwhileAt
<1>3. Heir \in Others /\ (m = Heir \/ m \in Peers)
  BY <1>1, <1>2
<1>4. session[m].mode # "Host"
  BY <1>2, <1>3 DEF HeirOK, GuestOK
<1>5. FirstHost \notin alive /\ FirstHost # Heir /\ Heir \in Seats /\ Heir \in alive
  BY <1>1, <1>2, <1>3
<1>6. \A g \in Peers : g \in alive /\ g \in Seats /\ g # Heir /\ g # FirstHost
  BY <1>1, <1>2, <1>3
<1> QED  BY <1>1, <1>2, <1>3, <1>4, <1>5, <1>6, Zenon

\* One of the others moves.
LEMMA PeerMoves ==
  ASSUME Aware, MigrationAssumption, MeanwhileAt(session, got, alive, net), NEW g \in Peers,
         alive' = alive, \A x \in Seats : x # g => session'[x] = session[x] /\ got'[x] = got[x],
         \A x, y \in Seats : x # g /\ y # g => net'[x][y] = net[x][y],
         OnlyTurns(net'[FirstHost][g]), \A b \in Peers : net'[g][b] = <<>> /\ net'[b][g] = <<>>,
         GuestOK(session'[g]),
         Line(g, session[Heir], session'[g], Len(got'[g]), Len(got[Heir]), net'[g][Heir],
              net'[Heir][g])
  PROVE  MeanwhileAt(session', got', alive', net')
<1>1. g \in Others
  BY SeatFacts DEF Aware
<1>2. g \in alive
  BY <1>1, Zenon DEF MeanwhileAt
<1>3. PICK S, G, N : S = session' /\ G = got' /\ N = net'
  BY Zenon
<1>4. /\ alive = Others /\ Heir \in Seats /\ FirstHost \in Seats /\ HeirOK(session[Heir])
      /\ \A x \in Peers :
           /\ x \in Seats /\ x # Heir /\ x # FirstHost /\ GuestOK(session[x])
           /\ Line(x, session[Heir], session[x], Len(got[x]), Len(got[Heir]), net[x][Heir],
                   net[Heir][x])
      /\ \A x, b \in Peers : net[x][b] = <<>>
      /\ \A x \in Seats : OnlyTurns(net[FirstHost][x])
  BY <1>2, MeanwhileFacts, Zenon
<1>5. S[Heir] = session[Heir] /\ G[Heir] = got[Heir]
  BY <1>3, <1>4
<1>6. ASSUME NEW x \in Peers
      PROVE  /\ GuestOK(S[x])
             /\ Line(x, S[Heir], S[x], Len(G[x]), Len(G[Heir]), N[x][Heir], N[Heir][x])
  <2>1. CASE x = g
    BY <2>1, <1>3, <1>5, Zenon
  <2>2. CASE x # g
    <3>1. /\ S[x] = session[x] /\ G[x] = got[x] /\ N[x][Heir] = net[x][Heir]
          /\ N[Heir][x] = net[Heir][x]
      BY <2>2, <1>3, <1>4
    <3> QED  BY <3>1, <1>4, <1>5, Zenon
  <2> QED  BY <2>1, <2>2
<1>7. \A x, b \in Peers : N[x][b] = <<>>
  BY <1>3, <1>4
<1>8. \A x \in Seats : OnlyTurns(N[FirstHost][x])
  BY <1>3, <1>4
<1> QED  BY <1>3, <1>4, <1>5, <1>6, <1>7, <1>8, Zenon DEF MeanwhileAt

\* Heir moves.
LEMMA HeirMoves ==
  ASSUME Aware, MigrationAssumption, MeanwhileAt(session, got, alive, net), Heir \in alive,
         alive' = alive, \A x \in Seats : x # Heir => session'[x] = session[x] /\ got'[x] = got[x],
         \A x, y \in Seats : x # Heir /\ y # Heir => net'[x][y] = net[x][y],
         OnlyTurns(net'[FirstHost][Heir]), HeirOK(session'[Heir]),
         \A g \in Peers : Line(g, session'[Heir], session[g], Len(got[g]), Len(got'[Heir]),
                               net'[g][Heir], net'[Heir][g])
  PROVE  MeanwhileAt(session', got', alive', net')
<1>1. PICK S, G, N : S = session' /\ G = got' /\ N = net'
  BY Zenon
<1>2. /\ alive = Others /\ FirstHost \in Seats /\ FirstHost # Heir
      /\ \A x \in Peers : x \in Seats /\ x # Heir /\ GuestOK(session[x])
      /\ \A x, b \in Peers : net[x][b] = <<>>
      /\ \A x \in Seats : OnlyTurns(net[FirstHost][x])
  BY MeanwhileFacts, Zenon
<1>3. ASSUME NEW x \in Peers
      PROVE  /\ GuestOK(S[x])
             /\ Line(x, S[Heir], S[x], Len(G[x]), Len(G[Heir]), N[x][Heir], N[Heir][x])
  <2>1. S[x] = session[x] /\ G[x] = got[x]
    BY <1>1, <1>2
  <2> QED  BY <2>1, <1>1, <1>2, Zenon
<1>4. \A x, b \in Peers : N[x][b] = <<>>
  BY <1>1, <1>2
<1>5. ASSUME NEW x \in Seats PROVE OnlyTurns(N[FirstHost][x])
  <2>1. CASE x = Heir
    BY <2>1, <1>1, Zenon
  <2>2. CASE x # Heir
    BY <2>2, <1>1, <1>2
  <2> QED  BY <2>1, <2>2
<1> QED  BY <1>1, <1>2, <1>3, <1>4, <1>5, Zenon DEF MeanwhileAt

\* What is between Heir and one that does not follow it does not depend on that one's session.
LEMMA LineFree ==
  ASSUME NEW g, NEW t, NEW s, NEW n, NEW e, NEW up, NEW down, Line(g, t, s, n, e, up, down),
         s.mode # "Following", NEW u, NEW k
  PROVE  Line(g, t, u, k, e, up, down)
BY Zenon DEF Line, Answering, Answered, Awaited

\* Heir has not proposed: nobody has an answer to give.
LEMMA NotProposed ==
  ASSUME NEW g, NEW t, NEW s, NEW n, NEW e, NEW up, NEW down, Line(g, t, s, n, e, up, down),
         HeirOK(t), ~t.proposed
  PROVE  Uncalled(t, up, down)
BY Zenon DEF Line, Called, Answering, Answered, Awaited, HeirOK

\* a says msgs to b, and nothing to others.
Said(M, n, a, b, msgs) ==
  /\ M[a][b] = n[a][b] \o msgs
  /\ \A x, y \in Seats : x # a \/ y # b => M[x][y] = n[x][y]

\* Post says it so, if the link stands.
LEMMA SaysTo ==
  ASSUME NEW n \in Lines, NEW a \in Seats, NEW b \in Seats, Linked(a, b), Listens(b),
         NEW msgs \in Seq(Messages), NEW M, M = Post(n, a, To(b, msgs))
  PROVE  Said(M, n, a, b, msgs)
<1>1. PICK box : box = To(b, msgs)
  OBVIOUS
<1>2. box \in Boxes /\ \A y \in Seats : box[y] = IF y = b THEN msgs ELSE <<>>
  BY <1>1 DEF To, Boxes
<1>3. Posted(M, n, a, box)
  BY <1>1, <1>2, PostFacts
<1>4. M[a][b] = n[a][b] \o msgs
  BY <1>2, <1>3 DEF Posted
<1>5. ASSUME NEW x \in Seats, NEW y \in Seats, x # a \/ y # b PROVE M[x][y] = n[x][y]
  <2>1. CASE x # a
    BY <2>1, <1>3 DEF Posted
  <2>2. CASE x = a /\ y # b
    <3>1. n[a][y] \o <<>> = n[a][y] /\ box[y] = <<>>
      BY <2>2, <1>2 DEF Lines
    <3> QED  BY <3>1, <2>2, <1>3 DEF Posted
  <2> QED  BY <2>1, <2>2, <1>5
<1> QED  BY <1>4, <1>5 DEF Said

\* What is read of a queue of one message or two
LEMMA OneOrTwo ==
  ASSUME NEW x, NEW y
  PROVE  /\ <<x>> # <<>> /\ Head(<<x>>) = x /\ Tail(<<x>>) = <<>>
         /\ <<x, y>> # <<>> /\ Head(<<x, y>>) = x /\ Tail(<<x, y>>) = <<y>>
OBVIOUS

\* The messages of the election
LEMMA ElectionWords ==
  ASSUME IInv, MigrationAssumption, NEW n \in Nat
  PROVE  /\ Asks \in Messages /\ Agrees(n) \in Messages /\ Believes \in Messages
         /\ Fetches(n) \in Messages
         /\ Others # {} => Withdraws \in Messages
<1>1. FirstHost \in Seats /\ Others \subseteq Seats /\ (Others # {} => Heir \in Others)
  BY SeatFacts, Zenon
<1> QED  BY <1>1 DEF Messages, Asks, Agrees, Believes, Fetches, Withdraws

\* Whoever elects reads nothing more of its host.
LEMMA CutOffAt ==
  ASSUME NEW a \in Seats, NEW n \in Lines, NEW h \in Seats, h = session[a].host,
         NEW M, M = CutOff(a, n), NEW x \in Seats, NEW y \in Seats
  PROVE  M[x][y] = IF x = h /\ y = a THEN <<>> ELSE n[x][y]
<1>1. M = [n EXCEPT ![h][a] = <<>>]
  BY Zenon DEF CutOff
<1>2. DOMAIN n = Seats /\ n[x] \in [Seats -> Seq(Messages)]
  BY DEF Lines
<1>3. DOMAIN n[x] = Seats
  BY <1>2
<1>4. x = h => M[x] = [n[x] EXCEPT ![a] = <<>>]
  BY <1>1, <1>2
<1>5. x # h => M[x] = n[x]
  BY <1>1, <1>2
<1>6. x = h => M[x][y] = IF y = a THEN <<>> ELSE n[x][y]
  BY <1>3, <1>4, Zenon
<1> QED  BY <1>5, <1>6

------------------------------------------------------------------------------
(* Until Heir takes over: the others *)

\* A guest that has Heir's word before it: what it takes from the network
LEMMA HearsOf ==
  ASSUME Aware, MigrationAssumption, NEW g \in Seats, NEW s \in Seats, Hear(g, s),
         NEW m, m = Head(net[s][g]), NEW n, n = HeardNet(g, s)
  PROVE  /\ n \in Lines /\ n[s][g] = Tail(net[s][g]) /\ net[s][g] # <<>>
         /\ \A x, y \in Seats : x # s \/ y # g => n[x][y] = net[x][y]
         /\ clients' = clients /\ alive' = alive
         /\ HearsTurn(g, s, m, n) \/ HearsPropose(g, s, m, n) \/ HearsAnswer(g, s, m, n)
            \/ HearsResume(g, s, m, n) \/ HearsRequest(g, s, m, n)
<1>1. IInv
  BY Zenon DEF Aware
<1>2. /\ Heard(s, g, net, n) /\ clients' = clients /\ alive' = alive /\ n \in Lines
      /\ HearsTurn(g, s, m, n) \/ HearsPropose(g, s, m, n) \/ HearsAnswer(g, s, m, n)
         \/ HearsResume(g, s, m, n) \/ HearsRequest(g, s, m, n)
  BY <1>1, HearFacts, Zenon
<1> QED  BY <1>2, Zenon DEF Heard

\* It hears that Heir does not ask any more.
LEMMA HearsWithdraws ==
  ASSUME Aware, MigrationAssumption, MeanwhileAt(session, got, alive, net), NEW g \in Peers,
         Hear(g, Heir), Head(net[Heir][g]) = Withdraws, NEW n, n = HeardNet(g, Heir)
  PROVE  /\ net' = n /\ got' = got /\ GuestOK(session'[g])
         /\ \A x \in Seats : x # g => session'[x] = session[x]
<1>1. /\ g \in Seats /\ Heir \in Seats /\ GuestOK(session[g]) /\ None \notin Seats
      /\ session \in [Seats -> Sessions]
  <2>1. g \in alive
    BY Zenon DEF Hear
  <2> QED  BY <2>1, MeanwhileFacts, SeatFacts, StateFacts, Zenon DEF Aware
<1>2. PICK m, s : m = Withdraws /\ s = session[g]
  BY Zenon
<1>3. m.type = "Refuse" /\ m.epoch = 1
  BY <1>2 DEF Withdraws
<1>4. HearsAnswer(g, Heir, m, n)
  BY <1>1, <1>2, <1>3, HearsOf DEF HearsTurn, HearsPropose, HearsResume, HearsRequest
<1>5. net' = n /\ got' = got
  BY <1>4, Zenon DEF HearsAnswer, HearAnswer
<1>6. s \in Sessions /\ GuestOK(s) /\ ~s.proposed
  BY <1>1, <1>2 DEF GuestOK
<1>7. PICK answer, noted :
        /\ answer = IF m.type = "Accept" THEN [accepted |-> TRUE, next |-> m.next]
                                         ELSE [accepted |-> FALSE, lowest |-> m.lowest]
        /\ noted = [x \in DOMAIN s.answers \cup {Heir} |-> IF x = Heir
                                                           THEN answer ELSE s.answers[x]]
  BY Zenon
<1>8. PICK u : u = IF m.type = "Refuse" /\ m.epoch = ElectionEpoch(s) /\ s.following = Heir
                   THEN [s EXCEPT !.following = None, !.mode = "Electing"]
                   ELSE IF s.proposed /\ m.epoch = ElectionEpoch(s) /\ Heir \in s.expected
                   THEN [s EXCEPT !.answers = noted] ELSE s
  OBVIOUS
<1>9. GuestOK(u)
  <2>1. CASE u = s
    BY <2>1, <1>6
  <2>2. CASE u = [s EXCEPT !.following = None, !.mode = "Electing"] /\ s.following = Heir
    <3>1. s.mode = "Following"
      BY <2>2, <1>1, <1>6 DEF GuestOK
    <3>2. /\ u.mode = "Electing" /\ u.following = None /\ u.host = s.host /\ u.epoch = s.epoch
          /\ u.proposed = s.proposed /\ u.dead = s.dead /\ u.hint = s.hint
          /\ u.expected = s.expected
      BY <2>2, <1>6 DEF Sessions
    <3> QED  BY <3>1, <3>2, <1>6 DEF GuestOK
  <2> QED  BY <2>1, <2>2, <1>6, <1>8
<1>10. session'[g] = u /\ \A x \in Seats : x # g => session'[x] = session[x]
  <2>1. session' = [session EXCEPT ![g] = u]
    BY <1>2, <1>4, <1>7, <1>8, Zenon DEF HearsAnswer, HearAnswer
  <2> QED  BY <2>1, <1>1
<1> QED  BY <1>5, <1>9, <1>10

\* The two answers to Heir's proposal: that the host lives, and that it is followed
SaysHost(g, n, M, S) ==
  /\ MayBelieve(g, Heir) /\ S = session[g]
  /\ M[g][Heir] = n[g][Heir] \o <<Believes>>
  /\ \A x, y \in Seats : x # g \/ y # Heir => M[x][y] = n[x][y]
Follows(g, n, M, S) ==
  /\ S.mode = "Following" /\ GuestOK(S)
  /\ M[g][Heir] = n[g][Heir] \o <<Agrees(Len(got[g]))>>
  /\ \A x, y \in Seats :
       x # g \/ y # Heir => M[x][y] = IF x = FirstHost /\ y = g /\ session[g].mode = "Normal"
                                      THEN <<>> ELSE n[x][y]

\* Nobody is lower than Heir, as far as u knows: it is followed.
LEMMA AgreesTo ==
  ASSUME Aware, MigrationAssumption, MeanwhileAt(session, got, alive, net), NEW g \in Peers,
         NEW u \in Sessions, u.dead = {FirstHost}, u.hint = None, u.expected = {}, u.epoch = 0,
         u.host = FirstHost, u.following \in {None, Heir}, NEW n \in Lines,
         Listens(Heir), AnswerProposal(g, Heir, u, n)
  PROVE  /\ session' = [session EXCEPT ![g] = Accepting(u, Heir)]
         /\ Accepting(u, Heir).mode = "Following" /\ GuestOK(Accepting(u, Heir))
         /\ net'[g][Heir] = n[g][Heir] \o <<Agrees(Len(got[g]))>>
         /\ \A x, y \in Seats : x # g \/ y # Heir => net'[x][y] = n[x][y]
<1>1. /\ g \in Others /\ Heir \in Seats /\ g \in Seats /\ None \notin Seats /\ alive = Others
      /\ Heir \in Others /\ g # Heir /\ g \in alive /\ Heir \in alive
  <2>1. g \in Others
    BY SeatFacts, Zenon DEF Aware
  <2>2. g \in alive
    BY <2>1, Zenon DEF MeanwhileAt
  <2> QED  BY <2>1, <2>2, MeanwhileFacts, SeatFacts, Zenon DEF Aware
<1>2. LowestAlive(g, u) = Heir
  BY <1>1, LowestIsHeir
<1>3. ~(LowestAlive(g, u) < Heir)
  <2>1. Heir \in Nat
    BY <1>1, SeatFacts DEF Aware
  <2> QED  BY <2>1, <1>2
<1>4. ~(u.following \notin {None, Heir} /\ u.following \notin u.dead /\ PeerAlive(g, u.following))
  OBVIOUS
<1>5. PICK box : box = [x \in Seats |->
               (IF x \in u.expected THEN <<RefuseMsg(u, Heir)>> ELSE <<>>)
               \o (IF x = Heir THEN <<[type |-> "Accept", epoch |-> ElectionEpoch(u),
                                    next |-> Len(got[g])]>> ELSE <<>>)]
  OBVIOUS
<1>6. session' = [session EXCEPT ![g] = Accepting(u, Heir)] /\ net' = Post(n, g, box)
  BY <1>3, <1>4, <1>5, Zenon DEF AnswerProposal, Accepting
<1>7. [type |-> "Accept", epoch |-> ElectionEpoch(u), next |-> Len(got[g])] = Agrees(Len(got[g]))
  BY DEF Agrees, ElectionEpoch
<1>8. Len(got[g]) \in Nat
  BY <1>1, StateFacts DEF Aware
<1>9. Agrees(Len(got[g])) \in Messages
  BY <1>8, ElectionWords DEF Aware
<1>10. box = To(Heir, <<Agrees(Len(got[g]))>>)
  <2>1. PICK a : a = Agrees(Len(got[g]))
    OBVIOUS
  <2>2. box = [x \in Seats |-> <<>> \o (IF x = Heir THEN <<a>> ELSE <<>>)]
    BY <2>1, <1>5, <1>7
  <2>3. \A x \in Seats : <<>> \o (IF x = Heir THEN <<a>> ELSE <<>>)
                           = IF x = Heir THEN <<a>> ELSE <<>>
    BY <1>9, <2>1
  <2>4. box = [x \in Seats |-> IF x = Heir THEN <<a>> ELSE <<>>]
    BY <2>2, <2>3, Zenon
  <2> QED  BY <2>1, <2>4, Zenon DEF To
<1>11. Linked(g, Heir)
  BY <1>1, Reaches
<1>12. <<Agrees(Len(got[g]))>> \in Seq(Messages)
  BY <1>9
<1>13. /\ net'[g][Heir] = n[g][Heir] \o <<Agrees(Len(got[g]))>>
       /\ \A x, y \in Seats : x # g \/ y # Heir => net'[x][y] = n[x][y]
  <2>1. PICK msgs : msgs = <<Agrees(Len(got[g]))>>
    OBVIOUS
  <2>2. net' = Post(n, g, To(Heir, msgs))
    BY <2>1, <1>6, <1>10, Zenon
  <2>3. Said(net', n, g, Heir, msgs)
    <3>1. g \in Seats /\ Heir \in Seats /\ msgs \in Seq(Messages)
      BY <2>1, <1>1, <1>12
    <3> QED  BY <3>1, <2>2, <1>11, SaysTo, Zenon
  <2> QED  BY <2>1, <2>3, Zenon DEF Said
<1>14. Accepting(u, Heir).mode = "Following" /\ GuestOK(Accepting(u, Heir))
  <2>1. PICK a : a = Accepting(u, Heir)
    OBVIOUS
  <2>2. /\ a.mode = "Following" /\ a.following = Heir /\ a.host = u.host /\ a.epoch = u.epoch
        /\ a.proposed = FALSE /\ a.dead = u.dead /\ a.hint = u.hint /\ a.expected = {}
    BY <2>1 DEF Accepting, Withdrawn, Sessions
  <2> QED  BY <2>1, <2>2 DEF GuestOK
<1> QED  BY <1>6, <1>13, <1>14, Zenon

\* A guest reads that Heir asks it: it has heard the host lately, or follows.
LEMMA HearsAsks ==
  ASSUME Aware, MigrationAssumption, MeanwhileAt(session, got, alive, net), NEW g \in Peers,
         Hear(g, Heir), Head(net[Heir][g]) = Asks, Listens(Heir), NEW n, n = HeardNet(g, Heir)
  PROVE  /\ got' = got /\ \A x \in Seats : x # g => session'[x] = session[x]
         /\ SaysHost(g, n, net', session'[g]) \/ Follows(g, n, net', session'[g])
<1>1. /\ g \in Seats /\ Heir \in Seats /\ g \in alive /\ Heir \in alive /\ GuestOK(session[g])
      /\ None \notin Seats /\ session \in [Seats -> Sessions] /\ FirstHost \in Seats
      /\ FirstHost # Heir /\ g # Heir
  <2>1. g \in alive
    BY Zenon DEF Hear
  <2> QED  BY <2>1, MeanwhileFacts, SeatFacts, StateFacts, Zenon DEF Aware
<1>2. PICK m, s : m = Asks /\ s = session[g]
  BY Zenon
<1>3. m.type = "Propose" /\ m.epoch = 1
  BY <1>2 DEF Asks
<1>4. s \in Sessions /\ GuestOK(s) /\ s.host = FirstHost /\ s.epoch = 0
  BY <1>1, <1>2 DEF GuestOK
<1>5. n \in Lines /\ HearsPropose(g, Heir, m, n)
  BY <1>1, <1>2, <1>3, HearsOf DEF HearsTurn, HearsAnswer, HearsResume, HearsRequest
<1>6. got' = got /\ HearPropose(g, Heir, m, n)
  BY <1>5, Zenon DEF HearsPropose
<1>7. m.epoch = ElectionEpoch(s)
  BY <1>3, <1>4 DEF ElectionEpoch
<1>8. SaysHostLives(g, Heir, s, n) \/ TakesItsWord(g, Heir, s, n) \/ Votes(g, Heir, s, n)
  BY <1>2, <1>6, <1>7, ProposeCases, Zenon
<1>9. CASE SaysHostLives(g, Heir, s, n)
  <2>1. MayBelieve(g, Heir) /\ net' = Post(n, g, To(Heir, <<RefuseMsg(s, s.host)>>))
        /\ session' = session
    BY <1>9, Zenon DEF SaysHostLives
  <2>2. RefuseMsg(s, s.host) = Believes
    BY <1>4 DEF RefuseMsg, Believes, ElectionEpoch
  <2>3. <<Believes>> \in Seq(Messages)
    BY ElectionWords DEF Aware
  <2>4. Linked(g, Heir)
    BY <1>1, Reaches
  <2>5. /\ net'[g][Heir] = n[g][Heir] \o <<Believes>>
        /\ \A x, y \in Seats : x # g \/ y # Heir => net'[x][y] = n[x][y]
    <3>1. PICK msgs : msgs = <<Believes>>
      OBVIOUS
    <3>2. net' = Post(n, g, To(Heir, msgs)) /\ msgs \in Seq(Messages)
      BY <3>1, <2>1, <2>2, <2>3, Zenon
    <3>3. Said(net', n, g, Heir, msgs)
      <4>1. g \in Seats /\ Heir \in Seats /\ n \in Lines
        BY <1>1, <1>5
      <4> QED  BY <4>1, <3>2, <2>4, SaysTo, Zenon
    <3> QED  BY <3>1, <3>3, Zenon DEF Said
  <2> QED  BY <2>1, <2>5, <1>6, Zenon DEF SaysHost
<1>10. CASE TakesItsWord(g, Heir, s, n)
  <2>1. PICK u, k : u = Convinced(s, Heir) /\ k = CutOff(g, n)
    BY Zenon
  <2>2. s.mode = "Normal" /\ AnswerProposal(g, Heir, u, k)
    BY <2>1, <1>10, Zenon DEF TakesItsWord
  <2>3. /\ u \in Sessions /\ u.dead = {FirstHost} /\ u.hint = None /\ u.expected = {} /\ u.epoch = 0
        /\ u.host = FirstHost /\ u.following = None
    <3>1. PICK b : b = BegunElection(s)
      OBVIOUS
    <3>2. /\ b \in Sessions /\ b.dead = {FirstHost} /\ b.hint = None /\ b.following = None
          /\ b.host = FirstHost /\ b.epoch = 0
      BY <3>1, <1>4, SingleFacts, BegunFields
    <3>3. b.expected = {}
      BY <3>1, <1>4 DEF BegunElection, Sessions
    <3>4. u = [b EXCEPT !.dead = @ \ {Heir}]
      BY <2>1, <3>1, Zenon DEF Convinced
    <3>5. u \in Sessions /\ u.dead = b.dead \ {Heir} /\ u.hint = b.hint /\ u.expected = b.expected
          /\ u.epoch = b.epoch /\ u.host = b.host /\ u.following = b.following
      BY <3>2, <3>4 DEF Sessions
    <3> QED  BY <3>2, <3>3, <3>5, <1>1
  <2>4. k \in Lines /\ \A x, y \in Seats :
          k[x][y] = IF x = FirstHost /\ y = g THEN <<>> ELSE n[x][y]
    <3>1. k \in Lines
      BY <2>1, <1>1, <1>5, RestSame, RestCutOff, Zenon
    <3> QED  BY <3>1, <2>1, <1>1, <1>2, <1>4, <1>5, CutOffAt
  <2>5. /\ session' = [session EXCEPT ![g] = Accepting(u, Heir)]
        /\ Accepting(u, Heir).mode = "Following" /\ GuestOK(Accepting(u, Heir))
        /\ net'[g][Heir] = k[g][Heir] \o <<Agrees(Len(got[g]))>>
        /\ \A x, y \in Seats : x # g \/ y # Heir => net'[x][y] = k[x][y]
    BY <2>2, <2>3, <2>4, AgreesTo
  <2>6. k[g][Heir] = n[g][Heir]
    BY <2>4, <1>1
  <2>7. session'[g] = Accepting(u, Heir) /\ \A x \in Seats : x # g => session'[x] = session[x]
    BY <2>5, <1>1
  <2>8. \A x, y \in Seats :
          x # g \/ y # Heir => net'[x][y] = IF x = FirstHost /\ y = g /\ session[g].mode = "Normal"
                                            THEN <<>> ELSE n[x][y]
    BY <2>2, <2>4, <2>5, <1>2
  <2> QED  BY <2>5, <2>6, <2>7, <2>8, <1>6, Zenon DEF Follows
<1>11. CASE Votes(g, Heir, s, n)
  <2>1. PICK u : u = Revives(s, Heir)
    OBVIOUS
  <2>2. Electing(g) /\ AnswerProposal(g, Heir, u, n)
    BY <2>1, <1>11, Zenon DEF Votes
  <2>3. s.mode # "Normal" /\ s.dead = {FirstHost} /\ s.hint = None /\ s.expected = {}
        /\ s.following \in {None, Heir}
    BY <2>2, <1>2, <1>4 DEF Electing, GuestOK
  <2>4. /\ u \in Sessions /\ u.dead = s.dead \ {Heir} /\ u.hint = s.hint /\ u.expected = s.expected
        /\ u.epoch = s.epoch /\ u.host = s.host /\ u.following = s.following
    BY <2>1, <1>4 DEF Revives, Sessions
  <2>5. /\ session' = [session EXCEPT ![g] = Accepting(u, Heir)]
        /\ Accepting(u, Heir).mode = "Following" /\ GuestOK(Accepting(u, Heir))
        /\ net'[g][Heir] = n[g][Heir] \o <<Agrees(Len(got[g]))>>
        /\ \A x, y \in Seats : x # g \/ y # Heir => net'[x][y] = n[x][y]
    <3>1. u.dead = {FirstHost}
      BY <2>3, <2>4, <1>1
    <3>2. u \in Sessions /\ u.hint = None /\ u.expected = {} /\ u.epoch = 0 /\ u.host = FirstHost
          /\ u.following \in {None, Heir}
      BY <2>3, <2>4, <1>4
    <3>3. AnswerProposal(g, Heir, u, n) /\ n \in Lines
      BY <2>2, <1>5
    <3> QED  BY <3>1, <3>2, <3>3, AgreesTo, SMTT(40)
  <2>6. session'[g] = Accepting(u, Heir) /\ \A x \in Seats : x # g => session'[x] = session[x]
    BY <2>5, <1>1
  <2>7. \A x, y \in Seats :
          x # g \/ y # Heir => net'[x][y] = IF x = FirstHost /\ y = g /\ session[g].mode = "Normal"
                                            THEN <<>> ELSE n[x][y]
    BY <2>3, <2>5, <1>2
  <2> QED  BY <2>5, <2>6, <2>7, <1>6, Zenon DEF Follows
<1> QED  BY <1>8, <1>9, <1>10, <1>11

\* One of the others reads what the first host said.
LEMMA PeerHearsFirst ==
  ASSUME Aware, MigrationAssumption, MeanwhileAt(session, got, alive, net), NEW g \in Peers,
         Hear(g, FirstHost)
  PROVE  MeanwhileAt(session', got', alive', net')
<1>1. g \in alive
  BY Zenon DEF Hear
<1>2. /\ g \in Seats /\ g # Heir /\ g # FirstHost /\ Heir \in Seats /\ FirstHost \in Seats
      /\ FirstHost # Heir /\ GuestOK(session[g])
      /\ Line(g, session[Heir], session[g], Len(got[g]), Len(got[Heir]), net[g][Heir], net[Heir][g])
      /\ \A x, b \in Peers : net[x][b] = <<>>
      /\ \A x \in Peers : x \in Seats /\ x # FirstHost
      /\ OnlyTurns(net[FirstHost][g])
  BY <1>1, MeanwhileFacts, Zenon
<1>3. PICK m : m = Head(net[FirstHost][g])
  OBVIOUS
<1>4. /\ session' = session /\ alive' = alive
      /\ Heard(FirstHost, g, net, net') /\ OnlyTurns(net'[FirstHost][g])
      /\ got' = IF TakesTurn(g, FirstHost, m) THEN [got EXCEPT ![g] = Append(@, m.by)] ELSE got
  BY <1>2, <1>3, ReadsTurn
<1>5. \A x, y \in Seats : x # FirstHost \/ y # g => net'[x][y] = net[x][y]
  BY <1>4, Zenon DEF Heard
<1>6. got \in [Seats -> Seq(Seats)]
  BY StateFacts DEF Aware
<1>7. \A x \in Seats : x # g => session'[x] = session[x] /\ got'[x] = got[x]
  BY <1>4, <1>6
<1>8. net'[g][Heir] = net[g][Heir] /\ net'[Heir][g] = net[Heir][g]
  BY <1>2, <1>5
<1>9. Line(g, session[Heir], session'[g], Len(got'[g]), Len(got[Heir]),
           net'[g][Heir], net'[Heir][g])
  <2>1. CASE TakesTurn(g, FirstHost, m)
    <3>1. session[g].mode # "Following"
      BY <2>1 DEF TakesTurn
    <3>2. Line(g, session[Heir], session[g], Len(got'[g]), Len(got[Heir]),
               net[g][Heir], net[Heir][g])
      BY <3>1, <1>2, LineFree, Zenon
    <3> QED  BY <3>2, <1>4, <1>8, Zenon
  <2>2. CASE ~TakesTurn(g, FirstHost, m)
    <3>1. got' = got
      BY <2>2, <1>4, Zenon
    <3> QED  BY <3>1, <1>2, <1>4, <1>8, Zenon
  <2> QED  BY <2>1, <2>2
<1>10. \A b \in Peers : net'[g][b] = <<>> /\ net'[b][g] = <<>>
  BY <1>2, <1>5
<1>11. \A x, y \in Seats : x # g /\ y # g => net'[x][y] = net[x][y]
  BY <1>5
<1>12. GuestOK(session'[g])
  BY <1>2, <1>4, Zenon
<1> QED  BY <1>4, <1>7, <1>9, <1>10, <1>11, <1>12, PeerMoves, Zenon

\* One of the others notices that the host is gone.
LEMMA PeerNotices ==
  ASSUME Aware, MigrationAssumption, MeanwhileAt(session, got, alive, net), NEW g \in Peers,
         NoticesLoss(g)
  PROVE  MeanwhileAt(session', got', alive', net')
<1>1. PICK s, u : s = session[g] /\ u = BegunElection(s)
  BY Zenon
<1>2. /\ g \in alive /\ s.mode = "Normal" /\ session' = [session EXCEPT ![g] = u]
      /\ net' = CutOff(g, net) /\ got' = got /\ alive' = alive
  BY <1>1, Zenon DEF NoticesLoss
<1>3. /\ g \in Seats /\ g # Heir /\ g # FirstHost /\ Heir \in Seats /\ FirstHost \in Seats
      /\ FirstHost # Heir /\ GuestOK(s)
      /\ Line(g, session[Heir], s, Len(got[g]), Len(got[Heir]), net[g][Heir], net[Heir][g])
      /\ \A x, b \in Peers : net[x][b] = <<>>
      /\ \A x \in Peers : x \in Seats /\ x # FirstHost
  BY <1>1, <1>2, MeanwhileFacts, Zenon
<1>4. session \in [Seats -> Sessions] /\ net \in Lines /\ s \in Sessions
  BY <1>1, <1>3, StateFacts DEF Aware
<1>5. s.host = FirstHost /\ s.epoch = 0 /\ None \notin Seats
  BY <1>3, SeatFacts DEF GuestOK, Aware
<1>6. GuestOK(u)
  <2>1. /\ u.mode = "Electing" /\ u.dead = {s.host} /\ u.hint = None
        /\ u.following = None /\ u.proposed = FALSE /\ u.host = s.host /\ u.epoch = s.epoch
    BY <1>1, <1>4, SingleFacts, BegunFields
  <2>2. u.expected = {}
    BY <1>1, <1>4 DEF BegunElection, Sessions
  <2> QED  BY <2>1, <2>2, <1>5 DEF GuestOK
<1>7. \A x, y \in Seats : net'[x][y] = IF x = FirstHost /\ y = g THEN <<>> ELSE net[x][y]
  BY <1>1, <1>2, <1>3, <1>4, <1>5, CutOffAt
<1>8. session'[g] = u /\ \A x \in Seats : x # g => session'[x] = session[x] /\ got'[x] = got[x]
  BY <1>2, <1>3, <1>4
<1>9. net'[g][Heir] = net[g][Heir] /\ net'[Heir][g] = net[Heir][g] /\ net'[FirstHost][g] = <<>>
  BY <1>3, <1>7
<1>10. Line(g, session[Heir], session'[g], Len(got'[g]), Len(got[Heir]),
            net'[g][Heir], net'[Heir][g])
  <2>1. s.mode # "Following"
    BY <1>2
  <2>2. Line(g, session[Heir], u, Len(got[g]), Len(got[Heir]), net[g][Heir], net[Heir][g])
    BY <2>1, <1>3, LineFree, Zenon
  <2> QED  BY <2>2, <1>2, <1>8, <1>9, Zenon
<1>11. \A b \in Peers : net'[g][b] = <<>> /\ net'[b][g] = <<>>
  BY <1>3, <1>7
<1>12. \A x, y \in Seats : x # g /\ y # g => net'[x][y] = net[x][y]
  BY <1>7
<1>13. OnlyTurns(net'[FirstHost][g]) /\ GuestOK(session'[g])
  BY <1>6, <1>8, <1>9 DEF OnlyTurns
<1> QED  BY <1>2, <1>8, <1>10, <1>11, <1>12, <1>13, PeerMoves, Zenon

\* One of the others reads what Heir said, and maybe answers.
LEMMA PeerHearsHeir ==
  ASSUME Aware, MigrationAssumption, MeanwhileAt(session, got, alive, net), NEW g \in Peers,
         Hear(g, Heir)
  PROVE  MeanwhileAt(session', got', alive', net')
<1>1. PICK t, s, n, k, e : /\ t = session[Heir] /\ s = session[g] /\ n = HeardNet(g, Heir)
                           /\ k = Len(got[g]) /\ e = Len(got[Heir])
  BY Zenon
<1>2. g \in alive /\ net[Heir][g] # <<>>
  BY Zenon DEF Hear
<1>3. /\ g \in Seats /\ g # Heir /\ g # FirstHost /\ Heir \in Seats /\ FirstHost \in Seats
      /\ FirstHost # Heir /\ HeirOK(t) /\ GuestOK(s) /\ FirstHost \notin alive
      /\ Line(g, t, s, k, e, net[g][Heir], net[Heir][g])
      /\ \A x, b \in Peers : net[x][b] = <<>>
      /\ \A x \in Peers : x \in Seats /\ x # FirstHost /\ x # Heir
      /\ OnlyTurns(net[FirstHost][g]) /\ Heir \in alive
  BY <1>1, <1>2, MeanwhileFacts, Zenon
<1>4. /\ n \in Lines /\ n[Heir][g] = Tail(net[Heir][g])
      /\ \A x, y \in Seats : x # Heir \/ y # g => n[x][y] = net[x][y]
      /\ alive' = alive
  BY <1>1, <1>2, <1>3, HearsOf
<1>5. got \in [Seats -> Seq(Seats)] /\ session \in [Seats -> Sessions] /\ net \in Lines
      /\ k \in Nat /\ e \in Nat
  BY <1>1, <1>3, StateFacts DEF Aware
<1>6. Listens(Heir)
  BY <1>1, <1>3 DEF HeirOK, Listens
\* What is to be shown
<1>7. ASSUME got' = got, \A x \in Seats : x # g => session'[x] = session[x],
             NEW u, u = session'[g], GuestOK(u),
             NEW up, net'[g][Heir] = up, NEW down, net'[Heir][g] = down,
             \A x, y \in Seats : /\ (x # g \/ y # Heir) /\ (x # Heir \/ y # g)
                                 => net'[x][y] \in {<<>>, net[x][y]},
             \A x, y \in Seats : x # g /\ y # g => net'[x][y] = net[x][y],
             Line(g, t, u, k, e, up, down)
      PROVE  MeanwhileAt(session', got', alive', net')
  <2>1. Line(g, session[Heir], session'[g], Len(got'[g]), Len(got[Heir]),
             net'[g][Heir], net'[Heir][g])
    BY <1>1, <1>7, Zenon
  <2>2. \A b \in Peers : net'[g][b] = <<>> /\ net'[b][g] = <<>>
    <3>1. ASSUME NEW b \in Peers PROVE net'[g][b] = <<>> /\ net'[b][g] = <<>>
      <4>1. b \in Seats /\ b # Heir /\ net[g][b] = <<>> /\ net[b][g] = <<>>
        BY <1>3, <3>1
      <4>2. net'[g][b] \in {<<>>, net[g][b]} /\ net'[b][g] \in {<<>>, net[b][g]}
        BY <4>1, <1>3, <1>7
      <4> QED  BY <4>1, <4>2
    <3> QED  BY <3>1
  <2>3. OnlyTurns(net'[FirstHost][g])
    <3>1. net'[FirstHost][g] \in {<<>>, net[FirstHost][g]}
      BY <1>3, <1>7
    <3>2. OnlyTurns(<<>>)
      BY DEF OnlyTurns
    <3> QED  BY <3>1, <3>2, <1>3, Zenon
  <2>4. \A x \in Seats : x # g => session'[x] = session[x] /\ got'[x] = got[x]
    BY <1>7, Zenon
  <2>5. GuestOK(session'[g])
    BY <1>7, Zenon
  <2> QED  BY <2>1, <2>2, <2>3, <2>4, <2>5, <1>4, <1>7, PeerMoves, Zenon
\* It hears that Heir does not ask any more.
<1>8. ASSUME NEW rest, net[Heir][g] = <<Withdraws>> \/ net[Heir][g] = <<Withdraws, Asks>>,
             rest = Tail(net[Heir][g]), Line(g, t, session'[g], k, e, net[g][Heir], rest)
      PROVE  MeanwhileAt(session', got', alive', net')
  <2>1. Head(net[Heir][g]) = Withdraws
    BY <1>8, OneOrTwo
  <2>2. net' = n /\ got' = got /\ GuestOK(session'[g])
        /\ \A x \in Seats : x # g => session'[x] = session[x]
    BY <2>1, <1>1, HearsWithdraws
  <2>3. net'[g][Heir] = net[g][Heir] /\ net'[Heir][g] = rest
    BY <2>2, <1>3, <1>4, <1>8
  <2>4. \A x, y \in Seats : /\ (x # g \/ y # Heir) /\ (x # Heir \/ y # g)
                            => net'[x][y] \in {<<>>, net[x][y]}
    BY <2>2, <1>4
  <2>5. \A x, y \in Seats : x # g /\ y # g => net'[x][y] = net[x][y]
    BY <2>2, <1>4
  <2> QED  BY <2>2, <2>3, <2>4, <2>5, <1>7, <1>8, Zenon
<1>9. CASE Uncalled(t, net[g][Heir], net[Heir][g])
  <2>1. ~t.proposed /\ net[g][Heir] = <<>> /\ net[Heir][g] = <<Withdraws>>
    BY <1>2, <1>9 DEF Uncalled
  <2>2. Tail(net[Heir][g]) = <<>>
    BY <2>1, OneOrTwo
  <2>3. Line(g, t, session'[g], k, e, net[g][Heir], Tail(net[Heir][g]))
    BY <2>1, <2>2, Zenon DEF Line, Uncalled
  <2> QED  BY <2>1, <2>3, <1>8, Zenon
<1>10. CASE Called(g, t, net[g][Heir], net[Heir][g])
  <2>1. /\ t.mode = "Electing" /\ t.proposed /\ g \notin DOMAIN t.answers /\ net[g][Heir] = <<>>
        /\ net[Heir][g] = <<Asks>> \/ net[Heir][g] = <<Withdraws, Asks>>
    BY <1>10, Zenon DEF Called
  <2>2. CASE net[Heir][g] = <<Withdraws, Asks>>
    <3>1. Tail(net[Heir][g]) = <<Asks>>
      BY <2>2, OneOrTwo
    <3>2. Line(g, t, session'[g], k, e, net[g][Heir], Tail(net[Heir][g]))
      BY <2>1, <3>1, Zenon DEF Line, Called
    <3> QED  BY <2>2, <3>2, <1>8, Zenon
  <2>3. CASE net[Heir][g] = <<Asks>>
    <3>1. Head(net[Heir][g]) = Asks /\ n[Heir][g] = <<>> /\ n[g][Heir] = <<>>
      BY <2>1, <2>3, <1>3, <1>4, OneOrTwo
    <3>2. /\ got' = got /\ \A x \in Seats : x # g => session'[x] = session[x]
          /\ SaysHost(g, n, net', session'[g]) \/ Follows(g, n, net', session'[g])
      BY <3>1, <1>1, <1>6, HearsAsks
    <3>3. CASE SaysHost(g, n, net', session'[g])
      <4>1. /\ MayBelieve(g, Heir) /\ session'[g] = s
            /\ net'[g][Heir] = n[g][Heir] \o <<Believes>>
            /\ \A x, y \in Seats : x # g \/ y # Heir => net'[x][y] = n[x][y]
        BY <3>3, <1>1, Zenon DEF SaysHost
      <4>2. net'[g][Heir] = <<Believes>>
        <5>1. Believes \in Messages
          BY ElectionWords DEF Aware
        <5> QED  BY <5>1, <4>1, <3>1
      <4>3. t.refusals + 1 < RefusalLimit
        <5>1. s.host = FirstHost
          BY <1>3 DEF GuestOK
        <5> QED  BY <5>1, <4>1, <1>1, <1>3, SingleFacts DEF MayBelieve
      <4>4. net'[Heir][g] = <<>>
        BY <3>1, <4>1, <1>3
      <4>5. Line(g, t, s, k, e, <<Believes>>, <<>>)
        BY <2>1, <4>3, Zenon DEF Line, Answering
      <4>6. \A x, y \in Seats : /\ (x # g \/ y # Heir) /\ (x # Heir \/ y # g)
                                => net'[x][y] \in {<<>>, net[x][y]}
        BY <4>1, <1>4
      <4>7. \A x, y \in Seats : x # g /\ y # g => net'[x][y] = net[x][y]
        BY <4>1, <1>4
      <4> QED  BY <3>2, <4>1, <4>2, <4>4, <4>5, <4>6, <4>7, <1>3, <1>7, Zenon
    <3>4. CASE Follows(g, n, net', session'[g])
      <4>1. PICK u : u = session'[g]
        OBVIOUS
      <4>2. /\ u.mode = "Following" /\ GuestOK(u)
            /\ net'[g][Heir] = n[g][Heir] \o <<Agrees(k)>>
            /\ \A x, y \in Seats :
                 x # g \/ y # Heir =>
                   net'[x][y] = IF x = FirstHost /\ y = g /\ session[g].mode = "Normal"
                                THEN <<>> ELSE n[x][y]
        BY <3>4, <4>1, <1>1, Zenon DEF Follows
      <4>3. net'[g][Heir] = <<Agrees(k)>>
        <5>1. Agrees(k) \in Messages
          BY <1>5, ElectionWords DEF Aware
        <5> QED  BY <5>1, <4>2, <3>1
      <4>4. net'[Heir][g] = <<>>
        BY <3>1, <4>2, <1>3
      <4>5. Line(g, t, u, k, e, <<Agrees(k)>>, <<>>)
        BY <2>1, <4>2, Zenon DEF Line, Answering
      <4>6. \A x, y \in Seats : /\ (x # g \/ y # Heir) /\ (x # Heir \/ y # g)
                                => net'[x][y] \in {<<>>, net[x][y]}
        BY <4>2, <1>4
      <4>7. \A x, y \in Seats : x # g /\ y # g => net'[x][y] = net[x][y]
        BY <4>2, <1>4
      <4> QED  BY <3>2, <4>1, <4>2, <4>3, <4>4, <4>5, <4>6, <4>7, <1>7, Zenon
    <3> QED  BY <3>2, <3>3, <3>4
  <2> QED  BY <2>1, <2>2, <2>3
<1>11. ~Answering(g, t, s, k, net[g][Heir], net[Heir][g])
       /\ ~Answered(g, t, s, k, net[g][Heir], net[Heir][g])
  BY <1>2, Zenon DEF Answering, Answered
\* It is asked for the turns that Heir lacks.
<1>12. CASE Awaited(g, t, s, k, e, net[g][Heir], net[Heir][g])
  <2>1. /\ t.mode = "Fetching" /\ g \in DOMAIN t.answers /\ s.mode = "Following"
        /\ t.answers[g].accepted /\ t.answers[g].next = k /\ k <= t.target
        /\ g = t.source /\ k = t.target /\ e < k /\ net[Heir][g] = <<Fetches(e)>>
        /\ net[g][Heir] = <<>>
    BY <1>2, <1>12, Zenon DEF Awaited
  <2>2. Head(net[Heir][g]) = Fetches(e) /\ n[Heir][g] = <<>> /\ n[g][Heir] = <<>>
    BY <2>1, <1>3, <1>4, OneOrTwo
  <2>3. PICK m, T : m = Fetches(e) /\ T = TurnsFrom(g, e)
    BY Zenon
  <2>4. m.type = "Request" /\ m.turn = e
    BY <2>3 DEF Fetches
  <2>5. HearsRequest(g, Heir, m, n)
    BY <2>2, <2>3, <2>4, <1>1, <1>3, HearsOf DEF HearsTurn, HearsPropose, HearsAnswer, HearsResume
  <2>6. net' = Post(n, g, To(Heir, T)) /\ session' = session /\ got' = got
    BY <2>3, <2>4, <2>5, Zenon DEF HearsRequest
  <2>7. AreTurns(T, g, e)
    BY <2>3, <1>3, <1>5, TurnsFromFacts
  <2>8. T \in Seq(Messages) /\ Linked(g, Heir)
    BY <2>7, <1>2, <1>3, Reaches DEF AreTurns
  <2>9. Said(net', n, g, Heir, T)
    BY <2>6, <2>8, <1>3, <1>4, <1>6, SaysTo, Zenon
  <2>10. net'[g][Heir] = n[g][Heir] \o T
         /\ \A x, y \in Seats : x # g \/ y # Heir => net'[x][y] = n[x][y]
    BY <2>9, Zenon DEF Said
  <2>11. net'[g][Heir] = T /\ net'[Heir][g] = <<>>
    BY <2>2, <2>8, <2>10, <1>3
  <2>12. Brings(T, e, k)
    <3>1. Len(T) = k - e
      <4>1. e <= Len(got[g])
        BY <2>1, <1>1, <1>5
      <4>2. Len(T) = Len(got[g]) - e
        BY <4>1, <2>7, Zenon DEF AreTurns
      <4> QED  BY <4>2, <1>1
    <3>2. DOMAIN T = 1 .. k - e
      BY <3>1, <2>8
    <3>3. \A i \in 1 .. k - e : T[i].type = "Turn" /\ T[i].turn = e + i - 1
      BY <3>2, <2>7 DEF AreTurns
    <3> QED  BY <3>1, <3>3, <2>1, <1>5 DEF Brings
  <2>13. Line(g, t, s, k, e, T, <<>>)
    BY <2>1, <2>12, Zenon DEF Line, Awaited
  <2>14. \A x, y \in Seats : /\ (x # g \/ y # Heir) /\ (x # Heir \/ y # g)
                             => net'[x][y] \in {<<>>, net[x][y]}
    BY <2>10, <1>4
  <2>15. \A x, y \in Seats : x # g /\ y # g => net'[x][y] = net[x][y]
    BY <2>10, <1>4
  <2>16. \A x \in Seats : x # g => session'[x] = session[x]
    BY <2>6
  <2>17. GuestOK(s) /\ s = session'[g]
    BY <2>6, <1>1, <1>3
  <2> QED  BY <2>6, <2>11, <2>13, <2>14, <2>15, <2>16, <2>17, <1>7, Zenon
<1> QED  BY <1>3, <1>9, <1>10, <1>11, <1>12, Zenon DEF Line

\* Heir lives: whoever knows that the host died waits for it.
LEMMA OnlyHeirsTurn ==
  ASSUME Aware, MigrationAssumption, MeanwhileAt(session, got, alive, net), NEW g \in Peers,
         session[g].mode = "Electing"
  PROVE  ~MyTurn(g)
<1>1. g \in Others
  BY SeatFacts DEF Aware
<1>2. g \in alive
  BY <1>1, Zenon DEF MeanwhileAt
<1>3. /\ alive = Others /\ g # Heir /\ GuestOK(session[g]) /\ HeirOK(session[Heir])
      /\ FirstHost \notin alive /\ Heir \in alive
  BY <1>2, MeanwhileFacts, Zenon
<1>4. LowestAlive(g, session[g]) = Heir
  BY <1>1, <1>3, LowestIsHeir DEF GuestOK
<1>5. session[Heir].host = FirstHost
  BY <1>3 DEF HeirOK
<1> QED  BY <1>3, <1>4, <1>5, SingleFacts DEF MyTurn

\* Another guest acts while nobody hosts.
LEMMA MeanwhilePeer ==
  ASSUME Aware, MigrationAssumption, Well, MeanwhileAt(session, got, alive, net), NEW g \in Peers,
         Update(g)
  PROVE  MeanwhileAt(session', got', alive', net')
<1>1. g \in Seats
  BY SeatFacts DEF Aware
<1>2. g \in alive
  BY <1>1, WhoActs
<1>3. /\ g # Heir /\ GuestOK(session[g]) /\ Heir \in alive /\ FirstHost \notin alive
      /\ session[g].mode # "Host" /\ None \notin Seats /\ Heir # FirstHost
      /\ \A x, b \in Peers : net[x][b] = <<>>
  BY <1>2, MeanwhileFacts, SeatFacts, Zenon DEF Aware
<1>4. SessionStep(g)
  BY <1>1, <1>3, WhoActs
<1>5. CASE NoticesLoss(g)
  BY <1>5, PeerNotices
<1>6. ~Propose(g) /\ ~Resolve(g)
  BY OnlyHeirsTurn, Zenon DEF Propose, Resolve
<1>7. ~FetchTick(g)
  BY <1>3 DEF FetchTick, GuestOK
<1>8. ~GivesUpCandidate(g)
  <2>1. PeerAlive(g, Heir)
    BY <1>2, <1>3, Reaches
  <2> QED  BY <2>1, <1>3, SingleFacts DEF GivesUpCandidate, GuestOK
<1>9. CASE \E s \in Seats : Silence(g, s)
  BY <1>9, Zenon DEF Silence, MeanwhileAt
<1>10. ASSUME NEW s \in Seats, Hear(g, s) PROVE MeanwhileAt(session', got', alive', net')
  <2>1. net[s][g] # <<>>
    BY <1>10, Zenon DEF Hear
  <2>2. s = FirstHost \/ s = Heir
    BY <2>1, <1>3 DEF Peers, Others
  <2> QED  BY <2>2, <1>10, PeerHearsFirst, PeerHearsHeir
<1> QED  BY <1>4, <1>5, <1>6, <1>7, <1>8, <1>9, <1>10, Zenon DEF SessionStep

------------------------------------------------------------------------------
(* Until Heir takes over: Heir *)

\* Heir notices that the host is gone.
LEMMA HeirNotices ==
  ASSUME Aware, MigrationAssumption, MeanwhileAt(session, got, alive, net), Heir \in alive,
         NoticesLoss(Heir)
  PROVE  MeanwhileAt(session', got', alive', net')
<1>1. PICK s, u : s = session[Heir] /\ u = BegunElection(s)
  BY Zenon
<1>2. /\ s.mode = "Normal" /\ session' = [session EXCEPT ![Heir] = u]
      /\ net' = CutOff(Heir, net) /\ got' = got /\ alive' = alive
  BY <1>1, Zenon DEF NoticesLoss
<1>3. /\ Heir \in Seats /\ FirstHost \in Seats /\ FirstHost # Heir /\ HeirOK(s)
      /\ \A g \in Peers :
           /\ g \in Seats /\ g # Heir /\ g # FirstHost
           /\ Line(g, s, session[g], Len(got[g]), Len(got[Heir]), net[g][Heir], net[Heir][g])
  BY <1>1, <1>2, MeanwhileFacts, Zenon
<1>4. session \in [Seats -> Sessions] /\ net \in Lines /\ s \in Sessions
  BY <1>1, <1>3, StateFacts DEF Aware
<1>5. s.host = FirstHost /\ s.epoch = 0 /\ ~s.proposed
  BY <1>2, <1>3 DEF HeirOK
<1>6. HeirOK(u) /\ ~u.proposed
  <2>1. /\ u.mode = "Electing" /\ u.dead = {s.host} /\ u.hint = None
        /\ u.following = None /\ u.proposed = FALSE /\ u.host = s.host /\ u.epoch = s.epoch
    BY <1>1, <1>4, SingleFacts, BegunFields
  <2> QED  BY <2>1, <1>5 DEF HeirOK
<1>7. \A x, y \in Seats : net'[x][y] = IF x = FirstHost /\ y = Heir THEN <<>> ELSE net[x][y]
  BY <1>1, <1>2, <1>3, <1>4, <1>5, CutOffAt
<1>8. session'[Heir] = u
      /\ \A x \in Seats : x # Heir => session'[x] = session[x] /\ got'[x] = got[x]
  BY <1>2, <1>3, <1>4
<1>9. ASSUME NEW g \in Peers
      PROVE  Line(g, session'[Heir], session[g], Len(got[g]), Len(got'[Heir]),
                  net'[g][Heir], net'[Heir][g])
  <2>1. Uncalled(s, net[g][Heir], net[Heir][g])
    BY <1>3, <1>5, NotProposed
  <2>2. net'[g][Heir] = net[g][Heir] /\ net'[Heir][g] = net[Heir][g]
    BY <1>3, <1>7
  <2>3. Uncalled(u, net'[g][Heir], net'[Heir][g])
    BY <2>1, <2>2, <1>6, Zenon DEF Uncalled
  <2> QED  BY <2>3, <1>8, Zenon DEF Line
<1>10. \A x, y \in Seats : x # Heir /\ y # Heir => net'[x][y] = net[x][y]
  BY <1>7
<1>11. OnlyTurns(net'[FirstHost][Heir]) /\ HeirOK(session'[Heir])
  <2>1. net'[FirstHost][Heir] = <<>>
    BY <1>3, <1>7
  <2> QED  BY <2>1, <1>6, <1>8 DEF OnlyTurns
<1> QED  BY <1>2, <1>8, <1>9, <1>10, <1>11, HeirMoves, Zenon

\* Heir reads what the first host said.
LEMMA HeirHearsFirst ==
  ASSUME Aware, MigrationAssumption, MeanwhileAt(session, got, alive, net), Heir \in alive,
         Hear(Heir, FirstHost)
  PROVE  MeanwhileAt(session', got', alive', net')
<1>1. PICK s : s = session[Heir]
  OBVIOUS
<1>2. /\ Heir \in Seats /\ FirstHost \in Seats /\ FirstHost # Heir /\ HeirOK(s)
      /\ OnlyTurns(net[FirstHost][Heir])
      /\ \A g \in Peers :
           /\ g \in Seats /\ g # Heir /\ g # FirstHost
           /\ Line(g, s, session[g], Len(got[g]), Len(got[Heir]), net[g][Heir], net[Heir][g])
  BY <1>1, MeanwhileFacts, Zenon
<1>3. PICK m : m = Head(net[FirstHost][Heir])
  OBVIOUS
<1>4. /\ session' = session /\ alive' = alive
      /\ Heard(FirstHost, Heir, net, net') /\ OnlyTurns(net'[FirstHost][Heir])
      /\ got' = IF TakesTurn(Heir, FirstHost, m)
                THEN [got EXCEPT ![Heir] = Append(@, m.by)] ELSE got
  BY <1>2, <1>3, ReadsTurn
<1>5. \A x, y \in Seats : x # FirstHost \/ y # Heir => net'[x][y] = net[x][y]
  BY <1>4, Zenon DEF Heard
<1>6. got \in [Seats -> Seq(Seats)]
  BY StateFacts DEF Aware
<1>7. \A x \in Seats : x # Heir => session'[x] = session[x] /\ got'[x] = got[x]
  BY <1>4, <1>6
<1>8. ASSUME NEW g \in Peers
      PROVE  Line(g, session'[Heir], session[g], Len(got[g]), Len(got'[Heir]),
                  net'[g][Heir], net'[Heir][g])
  <2>1. net'[g][Heir] = net[g][Heir] /\ net'[Heir][g] = net[Heir][g]
    BY <1>2, <1>5
  <2>2. CASE TakesTurn(Heir, FirstHost, m)
    <3>1. ~s.proposed
      <4>1. s.mode = "Normal" \/ (s.mode = "Fetching" /\ s.source = FirstHost)
        BY <2>2, <1>1, Zenon DEF TakesTurn
      <4>2. FirstHost \notin Peers
        BY <1>2
      <4> QED  BY <4>1, <4>2, <1>2 DEF HeirOK
    <3>2. Uncalled(s, net[g][Heir], net[Heir][g])
      BY <3>1, <1>2, NotProposed
    <3> QED  BY <2>1, <3>2, <1>1, <1>4, Zenon DEF Line
  <2>3. CASE ~TakesTurn(Heir, FirstHost, m)
    <3>1. got' = got
      BY <2>3, <1>4, Zenon
    <3> QED  BY <2>1, <3>1, <1>1, <1>2, <1>4, Zenon
  <2> QED  BY <2>2, <2>3
<1>9. \A x, y \in Seats : x # Heir /\ y # Heir => net'[x][y] = net[x][y]
  BY <1>5
<1>10. HeirOK(session'[Heir])
  BY <1>1, <1>2, <1>4, Zenon
<1> QED  BY <1>4, <1>7, <1>8, <1>9, <1>10, HeirMoves, Zenon

\* A message of those that bring the turns from e on is read: the rest brings those behind it.
LEMMA BringsTail ==
  ASSUME NEW q \in Seq(Messages), q # <<>>, NEW e \in Nat, NEW n \in Nat, Brings(q, e, n)
  PROVE  Head(q).type = "Turn" /\ Head(q).turn = e /\ Brings(Tail(q), e + 1, n)
<1>1. e <= n /\ Len(q) = n - e /\ \A i \in 1 .. n - e : q[i].type = "Turn" /\ q[i].turn = e + i - 1
  BY DEF Brings
<1>2. Head(q) = q[1] /\ Len(q) \in Nat \ {0} /\ Len(Tail(q)) = Len(q) - 1
      /\ \A i \in 1 .. Len(q) - 1 : Tail(q)[i] = q[i + 1]
  BY TailAt
<1>3. 1 \in 1 .. n - e /\ e + 1 <= n
  BY <1>1, <1>2
<1>4. Head(q).type = "Turn" /\ Head(q).turn = e
  BY <1>1, <1>2, <1>3
<1>5. ASSUME NEW i \in 1 .. n - (e + 1)
      PROVE  Tail(q)[i].type = "Turn" /\ Tail(q)[i].turn = e + 1 + i - 1
  <2>1. i \in 1 .. Len(q) - 1 /\ i + 1 \in 1 .. n - e
    BY <1>1, <1>5
  <2>2. Tail(q)[i] = q[i + 1] /\ q[i + 1].type = "Turn" /\ q[i + 1].turn = e + (i + 1) - 1
    BY <2>1, <1>1, <1>2
  <2>3. e + (i + 1) - 1 = e + 1 + i - 1
    OBVIOUS
  <2> QED  BY <2>2, <2>3
<1>6. Len(Tail(q)) = n - (e + 1)
  BY <1>1, <1>2
<1> QED  BY <1>3, <1>4, <1>5, <1>6 DEF Brings

\* Heir hears an answer to its proposal.
LEMMA HeirHearsAnswer ==
  ASSUME Aware, MigrationAssumption, MeanwhileAt(session, got, alive, net), Heir \in alive,
         NEW g \in Peers, Hear(Heir, g),
         Answering(g, session[Heir], session[g], Len(got[g]), net[g][Heir], net[Heir][g])
  PROVE  MeanwhileAt(session', got', alive', net')
<1>1. PICK t, s, k, n, m : /\ t = session[Heir] /\ s = session[g] /\ k = Len(got[g])
                           /\ n = HeardNet(Heir, g) /\ m = Head(net[g][Heir])
  BY Zenon
<1>2. /\ Heir \in Seats /\ FirstHost \in Seats /\ FirstHost # Heir /\ HeirOK(t)
      /\ OnlyTurns(net[FirstHost][Heir])
      /\ \A x \in Peers :
           /\ x \in Seats /\ x # Heir /\ x # FirstHost
           /\ Line(x, t, session[x], Len(got[x]), Len(got[Heir]), net[x][Heir], net[Heir][x])
  BY <1>1, MeanwhileFacts, Zenon
<1>3. /\ t.mode = "Electing" /\ t.proposed /\ g \notin DOMAIN t.answers /\ net[Heir][g] = <<>>
      /\ \/ s.mode = "Following" /\ net[g][Heir] = <<Agrees(k)>>
         \/ t.refusals + 1 < RefusalLimit /\ net[g][Heir] = <<Believes>>
  BY <1>1, Zenon DEF Answering
<1>4. net[g][Heir] = <<m>> /\ Tail(net[g][Heir]) = <<>>
      /\ \/ s.mode = "Following" /\ m = Agrees(k)
         \/ t.refusals + 1 < RefusalLimit /\ m = Believes
  BY <1>1, <1>3, OneOrTwo
<1>5. m.type \in {"Accept", "Refuse"} /\ m.epoch = 1
  BY <1>4 DEF Agrees, Believes
<1>6. session \in [Seats -> Sessions] /\ t \in Sessions /\ None \notin Seats
  BY <1>1, <1>2, StateFacts, SeatFacts DEF Aware
<1>7. t.following = None /\ t.expected = Peers /\ t.epoch = 0 /\ t.host = FirstHost
      /\ t.dead = {FirstHost} /\ t.hint = None
  BY <1>2, <1>3 DEF HeirOK
<1>8. /\ n \in Lines /\ n[g][Heir] = <<>>
      /\ \A x, y \in Seats : x # g \/ y # Heir => n[x][y] = net[x][y]
      /\ alive' = alive /\ HearsAnswer(Heir, g, m, n)
  <2>1. g \in Seats
    BY <1>2
  <2>2. /\ n \in Lines /\ n[g][Heir] = Tail(net[g][Heir])
        /\ \A x, y \in Seats : x # g \/ y # Heir => n[x][y] = net[x][y]
        /\ alive' = alive
        /\ HearsTurn(Heir, g, m, n) \/ HearsPropose(Heir, g, m, n) \/ HearsAnswer(Heir, g, m, n)
           \/ HearsResume(Heir, g, m, n) \/ HearsRequest(Heir, g, m, n)
    BY <2>1, <1>1, <1>2, HearsOf
  <2>3. HearsAnswer(Heir, g, m, n)
    BY <2>2, <1>5 DEF HearsTurn, HearsPropose, HearsResume, HearsRequest
  <2> QED  BY <2>2, <2>3, <1>4, Zenon
<1>9. PICK answer : answer = IF m.type = "Accept" THEN [accepted |-> TRUE, next |-> m.next]
                                                  ELSE [accepted |-> FALSE, lowest |-> m.lowest]
  OBVIOUS
<1>10. PICK noted : noted = [x \in DOMAIN t.answers \cup {g} |-> IF x = g
                                                                 THEN answer ELSE t.answers[x]]
  OBVIOUS
<1>11. PICK u : u = [t EXCEPT !.answers = noted]
  OBVIOUS
<1>12. t.proposed /\ m.epoch = ElectionEpoch(t) /\ g \in t.expected /\ t.following # g
  BY <1>2, <1>3, <1>5, <1>6, <1>7 DEF ElectionEpoch
<1>13. net' = n /\ got' = got /\ session' = [session EXCEPT ![Heir] = u]
  BY <1>1, <1>8, <1>9, <1>10, <1>11, <1>12, Zenon DEF HearsAnswer, HearAnswer
<1>14. /\ u.mode = t.mode /\ u.dead = t.dead /\ u.hint = t.hint
       /\ u.following = t.following /\ u.proposed = t.proposed /\ u.host = t.host
       /\ u.epoch = t.epoch /\ u.expected = t.expected /\ u.answers = noted
  BY <1>6, <1>11, NotedFields
<1>15. u.refusals = t.refusals
  BY <1>6, <1>11 DEF Sessions
<1>16. HeirOK(u)
  BY <1>3, <1>7, <1>14 DEF HeirOK
<1>17. /\ DOMAIN noted = DOMAIN t.answers \cup {g} /\ noted[g] = answer
       /\ \A x \in DOMAIN t.answers : x # g => noted[x] = t.answers[x]
  BY <1>10
<1>18. session'[Heir] = u
       /\ \A x \in Seats : x # Heir => session'[x] = session[x] /\ got'[x] = got[x]
  BY <1>2, <1>6, <1>13
<1>19. Answered(g, u, s, k, <<>>, <<>>)
  <2>1. CASE s.mode = "Following" /\ m = Agrees(k)
    <3>1. answer.accepted /\ answer.next = k
      BY <2>1, <1>9 DEF Agrees
    <3> QED  BY <3>1, <2>1, <1>3, <1>14, <1>17 DEF Answered
  <2>2. CASE t.refusals + 1 < RefusalLimit /\ m = Believes
    <3>1. ~answer.accepted /\ answer.lowest = FirstHost
      BY <2>2, <1>9 DEF Believes
    <3> QED  BY <3>1, <2>2, <1>3, <1>14, <1>15, <1>17 DEF Answered
  <2> QED  BY <2>1, <2>2, <1>4
<1>20. ASSUME NEW x \in Peers, x # g, NEW a, NEW l, NEW e, NEW up, NEW down,
              Line(x, t, a, l, e, up, down)
       PROVE  Line(x, u, a, l, e, up, down)
  <2>1. ~Uncalled(t, up, down) /\ ~Awaited(x, t, a, l, e, up, down)
    BY <1>3 DEF Uncalled, Awaited
  <2>2. Called(x, t, up, down) => Called(x, u, up, down)
    BY <1>14, <1>17, <1>20, Zenon DEF Called
  <2>3. Answering(x, t, a, l, up, down) => Answering(x, u, a, l, up, down)
    BY <1>14, <1>15, <1>17, <1>20, Zenon DEF Answering
  <2>4. Answered(x, t, a, l, up, down) => Answered(x, u, a, l, up, down)
    BY <1>14, <1>15, <1>17, <1>20 DEF Answered
  <2> QED  BY <2>1, <2>2, <2>3, <2>4, <1>20, Zenon DEF Line
<1>21. ASSUME NEW x \in Peers
       PROVE  Line(x, session'[Heir], session[x], Len(got[x]), Len(got'[Heir]),
                   net'[x][Heir], net'[Heir][x])
  <2>1. CASE x = g
    <3>1. net'[x][Heir] = <<>> /\ net'[Heir][x] = <<>>
      BY <2>1, <1>2, <1>3, <1>8, <1>13
    <3>2. Answered(x, session'[Heir], session[x], Len(got[x]), net'[x][Heir], net'[Heir][x])
      BY <3>1, <2>1, <1>1, <1>18, <1>19, Zenon
    <3> QED  BY <3>2, Zenon DEF Line
  <2>2. CASE x # g
    <3>1. net'[x][Heir] = net[x][Heir] /\ net'[Heir][x] = net[Heir][x]
      BY <2>2, <1>2, <1>8, <1>13
    <3>2. Line(x, u, session[x], Len(got[x]), Len(got[Heir]), net[x][Heir], net[Heir][x])
      BY <2>2, <1>2, <1>20, <1>21
    <3> QED  BY <3>1, <3>2, <1>13, <1>18, Zenon
  <2> QED  BY <2>1, <2>2
<1>22. \A x, y \in Seats : x # Heir /\ y # Heir => net'[x][y] = net[x][y]
  BY <1>8, <1>13
<1>23. OnlyTurns(net'[FirstHost][Heir]) /\ HeirOK(session'[Heir])
  <2>1. net'[FirstHost][Heir] = net[FirstHost][Heir]
    BY <1>2, <1>8, <1>13
  <2> QED  BY <2>1, <1>2, <1>16, <1>18, Zenon
<1> QED  BY <1>8, <1>18, <1>21, <1>22, <1>23, HeirMoves, Zenon

\* Heir is given a turn that it asked for.
LEMMA HeirHearsTurn ==
  ASSUME Aware, MigrationAssumption, MeanwhileAt(session, got, alive, net), Heir \in alive,
         NEW g \in Peers, Hear(Heir, g),
         Awaited(g, session[Heir], session[g], Len(got[g]), Len(got[Heir]),
                 net[g][Heir], net[Heir][g])
  PROVE  MeanwhileAt(session', got', alive', net')
<1>1. PICK t, e, n, m : /\ t = session[Heir] /\ e = Len(got[Heir])
                        /\ n = HeardNet(Heir, g) /\ m = Head(net[g][Heir])
  BY Zenon
<1>2. /\ Heir \in Seats /\ FirstHost \in Seats /\ FirstHost # Heir /\ HeirOK(t)
      /\ OnlyTurns(net[FirstHost][Heir])
      /\ \A x \in Peers :
           /\ x \in Seats /\ x # Heir /\ x # FirstHost
           /\ Line(x, t, session[x], Len(got[x]), e, net[x][Heir], net[Heir][x])
  BY <1>1, MeanwhileFacts, Zenon
<1>3. net[g][Heir] # <<>>
  BY Zenon DEF Hear
<1>4. /\ t.mode = "Fetching" /\ g = t.source /\ net[Heir][g] = <<>>
      /\ Brings(net[g][Heir], e, Len(got[g]))
  BY <1>1, <1>3, Zenon DEF Awaited
<1>5. got \in [Seats -> Seq(Seats)] /\ net \in Lines /\ e \in Nat /\ Len(got[g]) \in Nat
      /\ net[g][Heir] \in Seq(Messages)
  BY <1>1, <1>2, StateFacts, SMTT(40) DEF Aware, Lines
<1>6. m.type = "Turn" /\ m.turn = e /\ Brings(Tail(net[g][Heir]), e + 1, Len(got[g]))
  BY <1>1, <1>3, <1>4, <1>5, BringsTail
<1>7. /\ n[g][Heir] = Tail(net[g][Heir])
      /\ \A x, y \in Seats : x # g \/ y # Heir => n[x][y] = net[x][y]
      /\ alive' = alive /\ HearsTurn(Heir, g, m, n)
  BY <1>1, <1>2, <1>6, HearsOf DEF HearsAnswer, HearsPropose, HearsResume, HearsRequest
<1>8. TakesTurn(Heir, g, m)
  BY <1>1, <1>4, <1>6 DEF TakesTurn
<1>9. net' = n /\ session' = session /\ got' = [got EXCEPT ![Heir] = Append(@, m.by)]
  BY <1>7, <1>8, Zenon DEF HearsTurn
<1>10. Len(got'[Heir]) = e + 1
  <2>1. got'[Heir] = Append(got[Heir], m.by)
    BY <1>2, <1>5, <1>9
  <2> QED  BY <2>1, <1>1, <1>2, <1>5
<1>11. \A x \in Seats : x # Heir => session'[x] = session[x] /\ got'[x] = got[x]
  BY <1>5, <1>9
<1>12. ASSUME NEW x \in Peers
       PROVE  Line(x, session'[Heir], session[x], Len(got[x]), Len(got'[Heir]),
                   net'[x][Heir], net'[Heir][x])
  <2>1. t.proposed
    BY <1>2, <1>4 DEF HeirOK
  <2>2. Awaited(x, t, session[x], Len(got[x]), e, net[x][Heir], net[Heir][x])
    BY <2>1, <1>2, <1>4, <1>12, Zenon DEF Line, Uncalled, Called, Answering, Answered
  <2>3. CASE x = g
    <3>1. net'[x][Heir] = Tail(net[x][Heir]) /\ net'[Heir][x] = <<>>
      BY <2>3, <1>2, <1>4, <1>7, <1>9
    <3>2. Brings(net'[x][Heir], e + 1, Len(got[x]))
      BY <2>3, <3>1, <1>6
    <3>3. Awaited(x, t, session[x], Len(got[x]), e + 1, net'[x][Heir], net'[Heir][x])
      BY <2>2, <2>3, <3>1, <3>2, <1>4, Zenon DEF Awaited
    <3> QED  BY <3>3, <1>1, <1>9, <1>10, Zenon DEF Line
  <2>4. CASE x # g
    <3>1. net'[x][Heir] = net[x][Heir] /\ net'[Heir][x] = net[Heir][x]
      BY <2>4, <1>2, <1>7, <1>9
    <3>2. Awaited(x, t, session[x], Len(got[x]), e + 1, net'[x][Heir], net'[Heir][x])
      BY <2>2, <2>4, <3>1, <1>4, Zenon DEF Awaited
    <3> QED  BY <3>2, <1>1, <1>9, <1>10, Zenon DEF Line
  <2> QED  BY <2>3, <2>4
<1>13. \A x, y \in Seats : x # Heir /\ y # Heir => net'[x][y] = net[x][y]
  BY <1>7, <1>9
<1>14. OnlyTurns(net'[FirstHost][Heir]) /\ HeirOK(session'[Heir])
  <2>1. net'[FirstHost][Heir] = net[FirstHost][Heir]
    BY <1>2, <1>7, <1>9
  <2> QED  BY <2>1, <1>1, <1>2, <1>9, Zenon
<1> QED  BY <1>7, <1>11, <1>12, <1>13, <1>14, HeirMoves, Zenon

\* Heir's draft u knows that the host died; all the others follow it, and it knows how far they got.
Elected(u) ==
  /\ Draft(Heir, u, got) /\ u.host = FirstHost /\ u.epoch = 0 /\ u.dead = {FirstHost}
  /\ u.hint = None /\ u.following = None /\ u.proposed /\ u.expected = Peers
  /\ \A g \in Peers : /\ session[g].mode = "Following" /\ g \in DOMAIN u.answers
                      /\ u.answers[g].accepted /\ u.answers[g].next = Len(got[g])
                      /\ net[Heir][g] = <<>>

\* All the others are its followers.
LEMMA AllFollow ==
  ASSUME Aware, MigrationAssumption, MeanwhileAt(session, got, alive, net), Heir \in alive,
         NEW u, Elected(u)
  PROVE  Followers(Heir, u) = Peers
<1>1. /\ u.dead = {FirstHost} /\ u.expected = Peers
      /\ \A g \in Peers : g \in DOMAIN u.answers /\ u.answers[g].accepted
  BY Zenon DEF Elected
<1>2. \A g \in Peers : g # FirstHost /\ g \in alive /\ g # Heir
  BY MeanwhileFacts, Zenon
<1>3. \A g \in Peers : Linked(Heir, g)
  BY <1>2, Reaches
<1> QED  BY <1>1, <1>2, <1>3 DEF Followers

\* Only the first host ever sealed.
LEMMA FirstHostsTurns ==
  ASSUME Aware, MigrationAssumption, \A x \in Others : session[x].mode # "Host",
         NEW g \in Seats, NEW k \in 1 .. Len(got[g])
  PROVE  got[g][k] = FirstHost
<1>1. got[g] \in Seq(Seats)
  BY StateFacts DEF Aware
<1>2. got[g][k] \in Seats
  BY <1>1
<1>3. session[got[g][k]].mode = "Host"
  BY StateFacts DEF Aware, IInvAt, TurnsAt
<1> QED  BY <1>2, <1>3 DEF Others

\* Heir takes over, and has all that the others have.
LEMMA HeirPromotes ==
  ASSUME Aware, MigrationAssumption, MeanwhileAt(session, got, alive, net), Heir \in alive,
         NEW t, Elected(t), \A g \in Peers : Len(got[g]) <= Len(got[Heir]),
         Promote(Heir, t, net), got' = got, alive' = alive
  PROVE  AfterAt(session', got', clients', alive', net')
<1>1. PICK e, r, n :
        /\ e = Len(got[Heir])
        /\ r = [type |-> "Resume", epoch |-> ElectionEpoch(t), turn |-> Len(got[Heir])]
        /\ n = [a \in Seats |-> [net[a] EXCEPT ![Heir] = <<>>]]
  BY Zenon
<1>2. Followers(Heir, t) = Peers
  BY AllFollow
<1>3. PICK told : told = [s \in Seats |->
                            IF s \in Peers THEN <<r>> \o TurnsFrom(Heir, t.answers[s].next)
                                          ELSE <<>>]
  OBVIOUS
<1>4. PICK u : u = [NewSession EXCEPT !.mode = "Host", !.host = Heir, !.epoch = ElectionEpoch(t)]
  OBVIOUS
<1>5. /\ session' = [session EXCEPT ![Heir] = u] /\ clients' = [clients EXCEPT ![Heir] = Peers]
      /\ net' = Post(n, Heir, told)
  BY <1>1, <1>2, <1>3, <1>4, Zenon DEF Promote
<1>6. /\ Heir \in Seats /\ alive = Others /\ FirstHost \in Seats /\ FirstHost # Heir
      /\ \A x, b \in Peers : net[x][b] = <<>>
      /\ \A x \in Seats : OnlyTurns(net[FirstHost][x])
      /\ \A x \in Peers :
           /\ x \in alive /\ x \in Seats /\ x # Heir /\ x # FirstHost
           /\ GuestOK(session[x])
      /\ HeirOK(session[Heir])
  BY MeanwhileFacts, Zenon
<1>7. net \in Lines /\ got \in [Seats -> Seq(Seats)] /\ session \in [Seats -> Sessions]
      /\ clients \in [Seats -> SUBSET Seats]
  BY StateFacts DEF Aware
<1>8. e \in Nat /\ \A g \in Peers : Len(got[g]) \in Nat /\ Len(got[g]) <= e
  BY <1>1, <1>6, <1>7
<1>9. ElectionEpoch(t) = 1
  BY DEF Elected, ElectionEpoch
<1>10. r \in Messages /\ r.type = "Resume" /\ r.epoch = 1 /\ r.turn = e
  BY <1>1, <1>8, <1>9 DEF Messages
<1>11. \A g \in Peers : t.answers[g].next = Len(got[g]) /\ session[g].mode = "Following"
                        /\ net[Heir][g] = <<>>
  BY Zenon DEF Elected
<1>12. ASSUME NEW g \in Peers
       PROVE  told[g] \in Seq(Messages) /\ Resumes(told[g], Len(got[g]))
  <2>1. PICK T, v : T = TurnsFrom(Heir, Len(got[g])) /\ v = <<r>>
    BY Zenon
  <2>2. AreTurns(T, Heir, Len(got[g]))
    BY <2>1, <1>6, <1>7, <1>8, TurnsFromFacts
  <2>3. T \in Seq(Messages) /\ OnlyTurns(T)
    BY <2>2 DEF AreTurns, OnlyTurns
  <2>4. v \in Seq(Messages) /\ Resumes(v, Len(got[g]))
    <3>1. v # <<>> /\ v[1] = r /\ v \in Seq(Messages) /\ DOMAIN v = {1}
      BY <2>1, <1>10
    <3> QED  BY <3>1, <1>8, <1>10 DEF Resumes
  <2>5. Resumes(v \o T, Len(got[g])) /\ v \o T \in Seq(Messages)
    BY <2>3, <2>4, ResumesMore
  <2>6. told[g] = v \o T
    <3>1. told[g] = <<r>> \o TurnsFrom(Heir, t.answers[g].next)
      BY <1>3, <1>6, Zenon
    <3> QED  BY <3>1, <2>1, <1>11, Zenon
  <2> QED  BY <2>5, <2>6, Zenon
<1>13. told \in Boxes
  <2>1. \A s \in Seats : told[s] \in Seq(Messages)
    <3>1. SUFFICES ASSUME NEW s \in Seats PROVE told[s] \in Seq(Messages)
      OBVIOUS
    <3>2. CASE s \notin Peers
      BY <3>2, <1>3
    <3> QED  BY <3>2, <1>12
  <2>2. told = [s \in Seats |-> told[s]]
    BY <1>3
  <2> QED  BY <2>1, <2>2 DEF Boxes
<1>14. n \in Lines /\ \A a, b \in Seats : n[a][b] = IF b = Heir THEN <<>> ELSE net[a][b]
  BY <1>1, <1>7, EmptySeq DEF Lines
<1>15. Posted(net', n, Heir, told)
  BY <1>5, <1>6, <1>13, <1>14, PostFacts, Zenon
<1>16. \A a, b \in Seats : a # Heir => net'[a][b] = IF b = Heir THEN <<>> ELSE net[a][b]
  BY <1>14, <1>15 DEF Posted
<1>17. ASSUME NEW g \in Peers PROVE net'[Heir][g] = told[g]
  <2>1. Linked(Heir, g)
    BY <1>6, <1>17, Reaches
  <2>2. Listens(g)
    BY <1>6, <1>17 DEF Listens, GuestOK
  <2>3. net'[Heir][g] = n[Heir][g] \o told[g]
    BY <2>1, <2>2, <1>6, <1>15, <1>17, Zenon DEF Posted
  <2>4. n[Heir][g] = <<>>
    BY <1>6, <1>11, <1>14, <1>17
  <2>5. told[g] \in Seq(Messages)
    BY <1>12
  <2> QED  BY <2>3, <2>4, <2>5
<1>18. session'[Heir] = u /\ u.mode = "Host" /\ clients'[Heir] = Peers
       /\ \A x \in Seats : x # Heir => session'[x] = session[x]
  BY <1>4, <1>5, <1>6, <1>7 DEF NewSession
<1>19. ASSUME NEW g \in Peers
       PROVE  Led(g, session'[g], Len(got'[g]), net'[Heir][g])
  <2>1. session'[g] = session[g] /\ session[g].mode = "Following" /\ GuestOK(session[g])
    BY <1>6, <1>11, <1>18
  <2>2. Resumes(net'[Heir][g], Len(got[g]))
    BY <1>12, <1>17
  <2> QED  BY <2>1, <2>2, Zenon DEF Led
<1>20. \A x \in Others : session[x].mode # "Host"
  <2>1. Others = Peers \cup {Heir}
    BY <1>6, SeatFacts DEF Aware
  <2> QED  BY <2>1, <1>6 DEF GuestOK, HeirOK
<1>21. ASSUME NEW g \in Peers
       PROVE  /\ Len(got'[g]) <= Len(got'[Heir])
              /\ \A k \in 1 .. Len(got'[g]) : got'[g][k] = got'[Heir][k]
  <2>1. g \in Seats /\ Len(got[g]) \in Nat /\ Len(got[g]) <= Len(got[Heir])
        /\ Len(got[Heir]) \in Nat
    BY <1>1, <1>6, <1>8
  <2>2. ASSUME NEW k \in 1 .. Len(got[g]) PROVE got[g][k] = got[Heir][k]
    <3>1. k \in 1 .. Len(got[Heir])
      BY <2>1
    <3> QED  BY <3>1, <2>1, <1>6, <1>20, FirstHostsTurns
  <2> QED  BY <2>1, <2>2
<1>22. \A g, b \in Peers : net'[g][b] = <<>>
  BY <1>6, <1>16
<1>23. \A x \in Seats : OnlyTurns(net'[FirstHost][x])
  <2>1. OnlyTurns(<<>>)
    BY DEF OnlyTurns
  <2>2. \A x \in Seats : net'[FirstHost][x] \in {<<>>, net[FirstHost][x]}
    BY <1>6, <1>16
  <2> QED  BY <2>1, <2>2, <1>6
<1>24. Others # {}
  BY <1>6
<1> QED  BY <1>6, <1>18, <1>19, <1>21, <1>22, <1>23, <1>24 DEF AfterAt

\* Heir asks for the turns that it lacks, or takes over.
LEMMA HeirPlans ==
  ASSUME Aware, MigrationAssumption, MeanwhileAt(session, got, alive, net), Heir \in alive,
         NEW t, Elected(t), \A g \in Peers : net[g][Heir] = <<>>,
         PlanFetch(Heir, t, net), got' = got, alive' = alive
  PROVE  PhaseAt(session', got', clients', alive', net')
<1>1. PICK T : T = {s \in Followers(Heir, t) : t.answers[s].next > Len(got[Heir])}
  OBVIOUS
<1>2. PICK furthest : furthest = Furthest(t, T)
  OBVIOUS
<1>3. PICK x, e, u :
        /\ x = Min(furthest) /\ e = Len(got[Heir])
        /\ u = [t EXCEPT !.mode = "Fetching", !.source = x, !.target = t.answers[x].next]
  BY Zenon
<1>4. Followers(Heir, t) = Peers
  BY AllFollow
<1>5. /\ Draft(Heir, t, got) /\ t \in Sessions
      /\ \A g \in Peers : /\ session[g].mode = "Following" /\ g \in DOMAIN t.answers
                          /\ t.answers[g].accepted /\ t.answers[g].next = Len(got[g])
                          /\ net[Heir][g] = <<>>
  BY Zenon DEF Elected, Draft
<1>6. /\ Heir \in Seats /\ FirstHost \in Seats /\ FirstHost # Heir
      /\ OnlyTurns(net[FirstHost][Heir])
      /\ \A g \in Peers :
           /\ g \in alive /\ g \in Seats /\ g # Heir /\ g # FirstHost
           /\ GuestOK(session[g])
  BY MeanwhileFacts, Zenon
<1>7. got \in [Seats -> Seq(Seats)] /\ net \in Lines /\ session \in [Seats -> Sessions]
  BY StateFacts DEF Aware
<1>8. e \in Nat /\ \A g \in Peers : Len(got[g]) \in Nat
  BY <1>3, <1>6, <1>7
<1>9. CASE T = {}
  <2>1. Promote(Heir, t, net)
    BY <1>1, <1>9, Zenon DEF PlanFetch
  <2>2. \A g \in Peers : Len(got[g]) <= Len(got[Heir])
    BY <1>1, <1>3, <1>4, <1>5, <1>8, <1>9
  <2> QED  BY <2>1, <2>2, HeirPromotes, Zenon DEF PhaseAt
<1>10. CASE T # {}
  <2>1. session' = [session EXCEPT ![Heir] = u] /\ clients' = clients
        /\ net' = Post(net, Heir, To(x, <<[type |-> "Request", turn |-> Len(got[Heir])]>>))
    BY <1>1, <1>2, <1>3, <1>10, Zenon DEF PlanFetch, Furthest
  <2>2. T \in SUBSET Followers(Heir, t)
    BY <1>1
  <2>3. IInv
    BY Zenon DEF Aware
  <2>4. x \in T /\ t.answers[x].next \in Nat /\ \A r \in T : t.answers[r].next <= t.answers[x].next
    <3>1. x = Min(Furthest(t, T)) /\ Draft(Heir, t, got) /\ Heir \in Seats
      BY <1>2, <1>3, <1>5, <1>6, Zenon
    <3>2. /\ x \in T /\ x \in Seats /\ t.answers[x].next \in Nat /\ t.answers[x].next <= MaxTurns
          /\ \A r \in T : t.answers[r].next <= t.answers[x].next
      BY <3>1, <1>10, <2>2, <2>3, SourceFacts, Zenon
    <3> QED  BY <3>2, Zenon
  <2>5. x \in Peers /\ e < Len(got[x]) /\ t.answers[x].next = Len(got[x])
    BY <1>1, <1>3, <1>4, <1>5, <1>8, <2>4
  <2>6. \A g \in Peers : Len(got[g]) <= Len(got[x])
    <3>1. ASSUME NEW g \in Peers PROVE Len(got[g]) <= Len(got[x])
      <4>1. CASE g \in T
        BY <4>1, <2>4, <2>5, <1>5
      <4>2. CASE g \notin T
        BY <4>2, <2>5, <1>1, <1>3, <1>4, <1>5, <1>8
      <4> QED  BY <4>1, <4>2
    <3> QED  BY <3>1
  <2>7. /\ u.mode = "Fetching" /\ u.source = x /\ u.target = Len(got[x]) /\ u.answers = t.answers
        /\ u.host = t.host /\ u.epoch = t.epoch /\ u.dead = t.dead /\ u.hint = t.hint
        /\ u.following = t.following /\ u.proposed = t.proposed /\ u.expected = t.expected
    BY <1>3, <1>5, <2>5 DEF Sessions
  <2>8. HeirOK(u)
    BY <2>5, <2>7 DEF HeirOK, Elected
  <2>9. session'[Heir] = u
        /\ \A y \in Seats : y # Heir => session'[y] = session[y] /\ got'[y] = got[y]
    BY <2>1, <1>6, <1>7
  <2>10. Said(net', net, Heir, x, <<Fetches(e)>>)
    <3>1. PICK msgs : msgs = <<Fetches(e)>>
      OBVIOUS
    <3>2. msgs \in Seq(Messages)
      BY <3>1, <1>8, ElectionWords DEF Aware
    <3>3. net' = Post(net, Heir, To(x, msgs))
      BY <3>1, <2>1, <1>3, Zenon DEF Fetches
    <3>4. Linked(Heir, x) /\ Listens(x) /\ x \in Seats
      BY <2>5, <1>6, Reaches DEF Listens, GuestOK
    <3>5. Said(net', net, Heir, x, msgs)
      BY <3>2, <3>3, <3>4, <1>6, <1>7, SaysTo, Zenon
    <3> QED  BY <3>1, <3>5, Zenon
  <2>11. net'[Heir][x] = <<Fetches(e)>>
         /\ \A a, b \in Seats : a # Heir \/ b # x => net'[a][b] = net[a][b]
    <3>1. net'[Heir][x] = net[Heir][x] \o <<Fetches(e)>>
      BY <2>10, Zenon DEF Said
    <3>2. net[Heir][x] = <<>> /\ Fetches(e) \in Messages
      BY <2>5, <1>5, <1>8, ElectionWords DEF Aware
    <3>3. net'[Heir][x] = <<Fetches(e)>>
      BY <3>1, <3>2
    <3> QED  BY <3>3, <2>10, Zenon DEF Said
  <2>12. ASSUME NEW g \in Peers
         PROVE  Line(g, session'[Heir], session[g], Len(got[g]), Len(got'[Heir]),
                     net'[g][Heir], net'[Heir][g])
    <3>1. net'[g][Heir] = <<>>
      BY <2>11, <2>12, <1>6
    <3>2. g # x => net'[Heir][g] = <<>>
      BY <2>11, <2>12, <1>5, <1>6
    <3>3. Awaited(g, u, session[g], Len(got[g]), e, net'[g][Heir], net'[Heir][g])
      BY <3>1, <3>2, <2>5, <2>6, <2>7, <2>11, <1>5, Zenon DEF Awaited
    <3> QED  BY <3>3, <2>9, <1>3, Zenon DEF Line
  <2>13. \A a, b \in Seats : a # Heir /\ b # Heir => net'[a][b] = net[a][b]
    BY <2>11
  <2>14. OnlyTurns(net'[FirstHost][Heir]) /\ HeirOK(session'[Heir])
    <3>1. net'[FirstHost][Heir] = net[FirstHost][Heir]
      BY <2>11, <1>6
    <3> QED  BY <3>1, <2>8, <2>9, <1>6, Zenon
  <2>15. MeanwhileAt(session', got', alive', net')
    BY <2>9, <2>12, <2>13, <2>14, HeirMoves, Zenon
  <2> QED  BY <2>15, Zenon DEF PhaseAt
<1> QED  BY <1>9, <1>10

\* Heir has waited for what it asked for: it has it.
LEMMA HeirFetched ==
  ASSUME Aware, MigrationAssumption, MeanwhileAt(session, got, alive, net), Heir \in alive,
         FetchTick(Heir)
  PROVE  PhaseAt(session', got', clients', alive', net')
<1>1. PICK t, u, e : t = session[Heir] /\ u = Fetched(t) /\ e = Len(got[Heir])
  BY Zenon
<1>2. /\ Heir \in Seats /\ HeirOK(t)
      /\ \A g \in Peers :
           /\ g \in alive /\ g \in Seats /\ g # Heir /\ GuestOK(session[g])
           /\ Line(g, t, session[g], Len(got[g]), e, net[g][Heir], net[Heir][g])
  BY <1>1, MeanwhileFacts, Zenon
<1>3. /\ t.mode = "Fetching" /\ got' = got /\ alive' = alive
      /\ \/ Len(got[Heir]) >= t.target /\ Promote(Heir, Fetched(t), net)
         \/ /\ ~(Len(got[Heir]) >= t.target)
            /\ ~Linked(Heir, t.source) \/ TimeOut(Heir, t.source)
            /\ PlanFetch(Heir, Orphaned(t), net)
  BY <1>1, <1>2, FetchCases
<1>4. t.proposed /\ t.source \in Peers
  BY <1>2, <1>3 DEF HeirOK
<1>5. \A g \in Peers : Awaited(g, t, session[g], Len(got[g]), e, net[g][Heir], net[Heir][g])
  BY <1>2, <1>3, <1>4, Zenon DEF Line, Uncalled, Called, Answering, Answered
<1>6. IInv
  BY Zenon DEF Aware
<1>7. SessionOK(Heir, t, got) /\ t \in Sessions /\ t.target \in Nat
  <2>1. SessionOK(Heir, t, got) /\ t \in Sessions
    BY <1>1, <1>2, <1>6, OwnSession
  <2> QED  BY <2>1 DEF Sessions
<1>8. got \in [Seats -> Seq(Seats)] /\ e \in Nat /\ \A g \in Peers : Len(got[g]) \in Nat
  BY <1>1, <1>2, StateFacts DEF Aware
<1>9. CASE Len(got[Heir]) >= t.target
  <2>1. Promote(Heir, u, net)
    BY <1>1, <1>3, <1>9
  <2>2. /\ u.mode = t.mode /\ u.dead = t.dead /\ u.hint = t.hint /\ u.following = t.following
        /\ u.proposed = t.proposed /\ u.host = t.host /\ u.epoch = t.epoch
        /\ u.expected = t.expected /\ u.answers = t.answers /\ u.refusals = t.refusals
        /\ u.target = 0 /\ u \in Sessions
    BY <1>1, <1>7 DEF Fetched, Sessions
  <2>3. Draft(Heir, u, got)
    <3>1. MaxTurns \in Nat
      BY <1>6, StateFacts
    <3> QED  BY <3>1, <2>2, <1>7 DEF SessionOK, Draft
  <2>4. ASSUME NEW g \in Peers
        PROVE  /\ session[g].mode = "Following" /\ g \in DOMAIN t.answers
               /\ t.answers[g].accepted /\ t.answers[g].next = Len(got[g])
               /\ net[Heir][g] = <<>> /\ Len(got[g]) <= Len(got[Heir])
    <3>1. /\ session[g].mode = "Following" /\ g \in DOMAIN t.answers
          /\ t.answers[g].accepted /\ t.answers[g].next = Len(got[g])
          /\ Len(got[g]) <= t.target
          /\ g # t.source => net[Heir][g] = <<>>
          /\ g = t.source => /\ Len(got[g]) = t.target
                             /\ net[Heir][g] = <<>> \/ e < Len(got[g])
      BY <1>5, <2>4, Zenon DEF Awaited
    <3>2. Len(got[g]) <= e /\ ~(e < t.target)
      BY <3>1, <1>1, <1>7, <1>8, <1>9
    <3> QED  BY <3>1, <3>2, <1>1
  <2>5. Elected(u)
    BY <2>2, <2>3, <2>4, <1>2, <1>3, <1>4 DEF Elected, HeirOK
  <2>6. AfterAt(session', got', clients', alive', net')
    BY <2>1, <2>4, <2>5, <1>3, HeirPromotes
  <2> QED  BY <2>6, Zenon DEF PhaseAt
<1>10. CASE ~(Len(got[Heir]) >= t.target)
  <2>1. PICK g : g = t.source
    OBVIOUS
  <2>2. g \in Peers /\ Linked(Heir, g)
    BY <2>1, <1>2, <1>4, Reaches
  <2>3. TimeOut(Heir, g) /\ ~Deaf(g)
    BY <2>1, <2>2, <1>2, <1>3, <1>10 DEF Deaf, Listens, GuestOK
  <2>4. net[g][Heir] = <<>> /\ net[Heir][g] = <<>>
    BY <2>2, <2>3, SingleFacts, Zenon DEF TimeOut
  <2>5. Len(got[g]) = t.target
        /\ (net[Heir][g] = <<Fetches(e)>> \/ Brings(net[g][Heir], e, Len(got[g])))
    BY <2>1, <2>2, <1>5, Zenon DEF Awaited
  <2>6. Brings(net[g][Heir], e, t.target)
    BY <2>4, <2>5, OneOrTwo
  <2>7. t.target - e = 0
    <3>1. Len(net[g][Heir]) = t.target - e
      BY <2>6, Zenon DEF Brings
    <3> QED  BY <3>1, <2>4
  <2> QED  BY <2>7, <1>1, <1>7, <1>8, <1>10
<1> QED  BY <1>9, <1>10

\* What two short queues make together
LEMMA OneAndOne ==
  ASSUME NEW D, NEW x \in D, NEW y \in D
  PROVE  <<>> \o <<y>> = <<y>> /\ <<x>> \o <<y>> = <<x, y>>
<1>1. PICK p, q, r : p = <<x>> /\ q = <<y>> /\ r = <<x, y>>
  OBVIOUS
<1>2. p \in Seq(D) /\ q \in Seq(D) /\ r \in Seq(D)
  BY <1>1
<1>3. Len(p) = 1 /\ Len(q) = 1 /\ Len(r) = 2 /\ p[1] = x /\ q[1] = y /\ r[1] = x /\ r[2] = y
  BY <1>1
<1>4. <<>> \o q = q
  BY <1>2
<1>5. p \o q \in Seq(D) /\ Len(p \o q) = Len(p) + Len(q)
      /\ \A i \in 1 .. Len(p) + Len(q) : (p \o q)[i] = IF i <= Len(p) THEN p[i] ELSE q[i - Len(p)]
  BY <1>2, ConcatProperties
<1>6. p \o q = r
  <2>1. PICK w : w = p \o q
    OBVIOUS
  <2>2. w \in Seq(D) /\ Len(w) = Len(r) /\ w[1] = x /\ w[2] = y
    BY <2>1, <1>3, <1>5
  <2>3. \A i \in 1 .. Len(w) : w[i] = r[i]
    BY <2>2, <1>3
  <2>4. w = r
    BY <2>2, <2>3, <1>2, SeqEqual
  <2> QED  BY <2>1, <2>4
<1> QED  BY <1>1, <1>4, <1>6, Zenon

\* Heir asks all the others to follow it.
LEMMA HeirProposes ==
  ASSUME Aware, MigrationAssumption, MeanwhileAt(session, got, alive, net), Heir \in alive,
         Propose(Heir)
  PROVE  MeanwhileAt(session', got', alive', net')
<1>1. PICK t, peers, m : /\ t = session[Heir]
                         /\ peers = {s \in Seats \ {Heir} : s \notin t.dead /\ PeerAlive(Heir, s)}
                         /\ m = [type |-> "Propose", epoch |-> ElectionEpoch(t)]
  BY Zenon
<1>2. PICK u : u = [t EXCEPT !.proposed = TRUE, !.expected = peers, !.answers = <<>>]
  OBVIOUS
<1>3. /\ t.mode = "Electing" /\ ~t.proposed
      /\ session' = [session EXCEPT ![Heir] = u] /\ net' = Post(net, Heir, ToAll(peers, m))
      /\ got' = got /\ alive' = alive
  BY <1>1, <1>2, Zenon DEF Propose
<1>4. /\ Heir \in Seats /\ FirstHost \in Seats /\ FirstHost # Heir /\ HeirOK(t)
      /\ alive = Others /\ OnlyTurns(net[FirstHost][Heir])
      /\ \A g \in Peers :
           /\ g \in alive /\ g \in Seats /\ g # Heir /\ g # FirstHost /\ GuestOK(session[g])
           /\ Line(g, t, session[g], Len(got[g]), Len(got[Heir]), net[g][Heir], net[Heir][g])
  BY <1>1, MeanwhileFacts, Zenon
<1>5. net \in Lines /\ session \in [Seats -> Sessions] /\ t \in Sessions
  BY <1>1, <1>4, StateFacts DEF Aware
<1>6. t.dead = {FirstHost} /\ t.epoch = 0
  BY <1>3, <1>4 DEF HeirOK
<1>7. \A g \in Peers : Linked(Heir, g) /\ PeerAlive(Heir, g)
  BY <1>4, Reaches
<1>8. peers = Peers
  BY <1>1, <1>4, <1>6, <1>7 DEF Peers, Others
<1>9. m = Asks
  BY <1>1, <1>6 DEF Asks, ElectionEpoch
<1>10. PICK box : box = ToAll(Peers, Asks)
  OBVIOUS
<1>11. Asks \in Messages
  BY ElectionWords DEF Aware
<1>12. box \in Boxes /\ \A s \in Seats : box[s] = IF s \in Peers THEN <<Asks>> ELSE <<>>
  BY <1>10, <1>11, ToAllFacts
<1>13. Posted(net', net, Heir, box)
  BY <1>3, <1>4, <1>5, <1>8, <1>9, <1>10, <1>12, PostFacts
<1>14. \A x, y \in Seats : x # Heir => net'[x][y] = net[x][y]
  BY <1>13 DEF Posted
<1>15. ASSUME NEW g \in Peers
       PROVE  net[g][Heir] = <<>>
              /\ (net'[Heir][g] = <<Asks>> \/ net'[Heir][g] = <<Withdraws, Asks>>)
  <2>1. Uncalled(t, net[g][Heir], net[Heir][g])
    BY <1>3, <1>4, NotProposed
  <2>2. net'[Heir][g] = net[Heir][g] \o <<Asks>>
    <3>1. Linked(Heir, g) /\ Listens(g) /\ box[g] = <<Asks>>
      BY <1>4, <1>7, <1>12, <1>15 DEF Listens, GuestOK
    <3> QED  BY <3>1, <1>4, <1>13, <1>15 DEF Posted
  <2>3. PICK x, y : x = Withdraws /\ y = Asks
    OBVIOUS
  <2>7. x \in Messages /\ y \in Messages
    BY <1>4, <1>11, <2>3, ElectionWords DEF Aware
  <2>8. <<>> \o <<y>> = <<y>> /\ <<x>> \o <<y>> = <<x, y>>
    BY <2>7, OneAndOne, Zenon
  <2>4. net[g][Heir] = <<>> /\ (net[Heir][g] = <<>> \/ net[Heir][g] = <<Withdraws>>)
    BY <2>1, Zenon DEF Uncalled
  <2>5. CASE net[Heir][g] = <<>>
    <3>1. net'[Heir][g] = <<Asks>>
      BY <2>2, <2>3, <2>5, <2>8, Zenon
    <3> QED  BY <3>1, <2>4
  <2>6. CASE net[Heir][g] = <<Withdraws>>
    <3>1. net'[Heir][g] = <<Withdraws, Asks>>
      BY <2>2, <2>3, <2>6, <2>8, Zenon
    <3> QED  BY <3>1, <2>4
  <2> QED  BY <2>4, <2>5, <2>6
<1>16. /\ u.mode = t.mode /\ u.dead = t.dead /\ u.hint = t.hint /\ u.following = t.following
       /\ u.host = t.host /\ u.epoch = t.epoch
       /\ u.proposed = TRUE /\ u.expected = Peers /\ u.answers = <<>>
  BY <1>2, <1>5, <1>8 DEF Sessions
<1>17. HeirOK(u)
  BY <1>3, <1>4, <1>16 DEF HeirOK
<1>18. session'[Heir] = u
       /\ \A x \in Seats : x # Heir => session'[x] = session[x] /\ got'[x] = got[x]
  BY <1>3, <1>4, <1>5
<1>19. ASSUME NEW g \in Peers
       PROVE  Line(g, session'[Heir], session[g], Len(got[g]), Len(got'[Heir]),
                   net'[g][Heir], net'[Heir][g])
  <2>1. net'[g][Heir] = <<>>
    BY <1>4, <1>14, <1>15
  <2>2. g \notin DOMAIN u.answers
    BY <1>16
  <2>3. Called(g, u, net'[g][Heir], net'[Heir][g])
    BY <2>1, <2>2, <1>3, <1>15, <1>16, Zenon DEF Called
  <2> QED  BY <2>3, <1>18, Zenon DEF Line
<1>20. \A x, y \in Seats : x # Heir /\ y # Heir => net'[x][y] = net[x][y]
  BY <1>14
<1>21. OnlyTurns(net'[FirstHost][Heir]) /\ HeirOK(session'[Heir])
  <2>1. net'[FirstHost][Heir] = net[FirstHost][Heir]
    BY <1>4, <1>14
  <2> QED  BY <2>1, <1>4, <1>17, <1>18, Zenon
<1> QED  BY <1>3, <1>18, <1>19, <1>20, <1>21, HeirMoves, Zenon

\* When Heir counts the answers, all have answered.
LEMMA AllAnswered ==
  ASSUME Aware, MigrationAssumption, MeanwhileAt(session, got, alive, net), Heir \in alive,
         NEW t, t = session[Heir], t.mode = "Electing", t.proposed,
         \A s \in Unanswered(t) : TimeOut(Heir, s)
  PROVE  /\ t.expected = Peers /\ DOMAIN t.answers = Peers
         /\ \A g \in Peers : Answered(g, t, session[g], Len(got[g]), net[g][Heir], net[Heir][g])
<1>1. /\ Heir \in Seats /\ HeirOK(t)
      /\ \A g \in Peers :
           /\ g \in alive /\ g \in Seats /\ g # Heir /\ GuestOK(session[g])
           /\ Line(g, t, session[g], Len(got[g]), Len(got[Heir]), net[g][Heir], net[Heir][g])
  BY MeanwhileFacts, Zenon
<1>2. t.expected = Peers
  BY <1>1 DEF HeirOK
<1>3. DOMAIN t.answers \subseteq Peers
  <2>1. SessionOK(Heir, t, got)
    BY <1>1, OwnSession DEF Aware
  <2> QED  BY <2>1, <1>2 DEF SessionOK, Draft
<1>4. ASSUME NEW g \in Peers
      PROVE  Answered(g, t, session[g], Len(got[g]), net[g][Heir], net[Heir][g])
  <2>1. Linked(Heir, g) /\ ~Deaf(g)
    BY <1>1, <1>4, Reaches DEF Deaf, Listens, GuestOK
  <2>2. TimeOut(Heir, g) => net[g][Heir] = <<>> /\ net[Heir][g] = <<>>
    BY <2>1, SingleFacts, Zenon DEF TimeOut
  <2>3. ASSUME g \notin DOMAIN t.answers PROVE net[g][Heir] = <<>> /\ net[Heir][g] = <<>>
    <3>1. g \in Unanswered(t)
      BY <2>3, <1>2, <1>4 DEF Unanswered
    <3> QED  BY <3>1, <2>2
  <2>4. ~Called(g, t, net[g][Heir], net[Heir][g])
    BY <2>3, OneOrTwo, Zenon DEF Called
  <2>5. ~Answering(g, t, session[g], Len(got[g]), net[g][Heir], net[Heir][g])
    BY <2>3, OneOrTwo, Zenon DEF Answering
  <2>6. /\ ~Uncalled(t, net[g][Heir], net[Heir][g])
        /\ ~Awaited(g, t, session[g], Len(got[g]), Len(got[Heir]), net[g][Heir], net[Heir][g])
    BY DEF Uncalled, Awaited
  <2> QED  BY <2>4, <2>5, <2>6, <1>1, <1>4, Zenon DEF Line
<1>5. Peers \subseteq DOMAIN t.answers
  BY <1>4 DEF Answered
<1> QED  BY <1>2, <1>3, <1>4, <1>5

\* Nobody names another seat than the host: the others are as they were.
LEMMA NobodyNamed ==
  ASSUME NEW t, t.dead = {FirstHost}, t.host = FirstHost, Unanswered(t) = {},
         \A s \in DOMAIN t.answers : t.answers[s].accepted \/ t.answers[s].lowest = FirstHost
  PROVE  Mourned(Heir, t) = {FirstHost} /\ Deferred(Heir, t) = {}
<1>1. Refusers(t) \ HostRefusers(t) = {}
  BY DEF Refusers, HostRefusers
<1>2. Named(t) = {} /\ Higher(Heir, t) = {}
  BY <1>1 DEF Named, Higher
<1> QED  BY <1>2 DEF Mourned, Deferred

\* The answers are in: nobody but the host was named.
LEMMA AnsweredFacts ==
  ASSUME Aware, MigrationAssumption, MeanwhileAt(session, got, alive, net), Heir \in alive,
         Resolve(Heir), NEW t, t = session[Heir]
  PROVE  /\ t.expected = Peers /\ DOMAIN t.answers = Peers
         /\ Mourned(Heir, t) = {FirstHost} /\ Deferred(Heir, t) = {}
         /\ \A g \in Peers :
              /\ net[g][Heir] = <<>> /\ net[Heir][g] = <<>>
              /\ \/ /\ session[g].mode = "Following" /\ t.answers[g].accepted
                    /\ t.answers[g].next = Len(got[g])
                 \/ /\ t.refusals + 1 < RefusalLimit /\ ~t.answers[g].accepted
                    /\ t.answers[g].lowest = FirstHost
<1>1. Heir \in Seats /\ HeirOK(t) /\ IInv
  BY MeanwhileFacts, Zenon DEF Aware
<1>2. t.mode = "Electing" /\ t.proposed /\ \A s \in Unanswered(t) : TimeOut(Heir, s)
  BY <1>1, ResolveCases
<1>3. /\ t.expected = Peers /\ DOMAIN t.answers = Peers
      /\ \A g \in Peers : Answered(g, t, session[g], Len(got[g]), net[g][Heir], net[Heir][g])
  BY <1>2, AllAnswered, Zenon
<1>4. \A g \in Peers :
        /\ net[g][Heir] = <<>> /\ net[Heir][g] = <<>>
        /\ \/ /\ session[g].mode = "Following" /\ t.answers[g].accepted
              /\ t.answers[g].next = Len(got[g])
           \/ /\ t.refusals + 1 < RefusalLimit /\ ~t.answers[g].accepted
              /\ t.answers[g].lowest = FirstHost
  BY <1>3, Zenon DEF Answered
<1>5. Unanswered(t) = {}
  BY <1>3 DEF Unanswered
<1>6. \A s \in DOMAIN t.answers : t.answers[s].accepted \/ t.answers[s].lowest = FirstHost
  BY <1>3, <1>4, Zenon
<1>7. t.dead = {FirstHost} /\ t.host = FirstHost
  BY <1>1, <1>2 DEF HeirOK
<1>8. Mourned(Heir, t) = {FirstHost} /\ Deferred(Heir, t) = {}
  BY <1>5, <1>6, <1>7, NobodyNamed
<1> QED  BY <1>3, <1>4, <1>8, Zenon

\* Heir tells all the others that it withdraws.
LEMMA HeirRetries ==
  ASSUME Aware, MigrationAssumption, MeanwhileAt(session, got, alive, net), Heir \in alive,
         Resolve(Heir), NEW t, t = session[Heir], Retries(Heir, t)
  PROVE  MeanwhileAt(session', got', alive', net')
<1>1. PICK u, box : /\ u = [Withdrawn(Resolved(Heir, t)) EXCEPT !.refusals = @ + 1]
                    /\ box = ToAll(Peers, Withdraws)
  BY Zenon
<1>2. /\ Heir \in Seats /\ FirstHost \in Seats /\ FirstHost # Heir /\ HeirOK(t)
      /\ OnlyTurns(net[FirstHost][Heir]) /\ alive = Others
      /\ \A g \in Peers :
           /\ g \in alive /\ g \in Seats /\ g # Heir /\ g # FirstHost
           /\ GuestOK(session[g])
  BY MeanwhileFacts, Zenon
<1>3. t.mode = "Electing" /\ t.proposed /\ got' = got /\ alive' = alive
  BY <1>2, ResolveCases DEF Aware
<1>4. /\ t.expected = Peers /\ Mourned(Heir, t) = {FirstHost}
      /\ \A g \in Peers : net[g][Heir] = <<>> /\ net[Heir][g] = <<>>
  BY AnsweredFacts, Zenon
<1>5. /\ t.dead = {FirstHost} /\ t.epoch = 0 /\ t.host = FirstHost /\ t.hint = None
      /\ t.following = None
  BY <1>2, <1>3 DEF HeirOK
<1>6. RefuseMsg(t, Heir) = Withdraws
  BY <1>5 DEF RefuseMsg, ElectionEpoch, Withdraws
<1>7. session' = [session EXCEPT ![Heir] = u] /\ net' = Post(net, Heir, box)
  BY <1>1, <1>4, <1>6, Zenon DEF Retries
<1>8. net \in Lines /\ session \in [Seats -> Sessions] /\ got \in [Seats -> Seq(Seats)]
  BY StateFacts DEF Aware
<1>9. Withdraws \in Messages
  BY <1>2, ElectionWords DEF Aware
<1>10. box \in Boxes /\ \A s \in Seats : box[s] = IF s \in Peers THEN <<Withdraws>> ELSE <<>>
  BY <1>1, <1>9, ToAllFacts
<1>11. Posted(net', net, Heir, box)
  BY <1>2, <1>7, <1>8, <1>10, PostFacts
<1>12. \A x, y \in Seats : x # Heir => net'[x][y] = net[x][y]
  BY <1>11 DEF Posted
<1>13. ASSUME NEW g \in Peers
       PROVE  net'[g][Heir] = <<>> /\ net'[Heir][g] = <<Withdraws>>
  <2>1. Linked(Heir, g) /\ Listens(g) /\ box[g] = <<Withdraws>>
    BY <1>2, <1>10, <1>13, Reaches DEF Listens, GuestOK
  <2>2. net'[Heir][g] = net[Heir][g] \o <<Withdraws>>
    BY <2>1, <1>2, <1>11, <1>13 DEF Posted
  <2>3. PICK x : x = Withdraws
    OBVIOUS
  <2>4. <<>> \o <<x>> = <<x>>
    BY <2>3, <1>9, OneAndOne, Zenon
  <2>5. net'[g][Heir] = <<>>
    BY <1>2, <1>4, <1>12, <1>13
  <2> QED  BY <2>2, <2>3, <2>4, <2>5, <1>4, <1>13, Zenon
<1>14. /\ u.mode = "Electing" /\ u.dead = {FirstHost} /\ u.hint = None /\ u.following = None
       /\ u.host = FirstHost /\ u.epoch = 0 /\ u.proposed = FALSE
  <2>1. PICK r : r = Resolved(Heir, t)
    OBVIOUS
  <2>2. /\ r \in Sessions /\ r.dead = Mourned(Heir, t) /\ r.host = t.host /\ r.hint = t.hint
        /\ r.following = t.following /\ r.mode = t.mode /\ r.epoch = t.epoch
    BY <2>1, <1>2, ResolvedSession DEF Aware
  <2>3. u = [Withdrawn(r) EXCEPT !.refusals = @ + 1]
    BY <1>1, <2>1
  <2> QED  BY <2>2, <2>3, <1>3, <1>4, <1>5 DEF Withdrawn, Sessions
<1>15. HeirOK(u) /\ ~u.proposed
  BY <1>14 DEF HeirOK
<1>16. session'[Heir] = u
       /\ \A x \in Seats : x # Heir => session'[x] = session[x] /\ got'[x] = got[x]
  BY <1>2, <1>3, <1>7, <1>8
<1>17. ASSUME NEW g \in Peers
       PROVE  Line(g, session'[Heir], session[g], Len(got[g]), Len(got'[Heir]),
                   net'[g][Heir], net'[Heir][g])
  <2>1. Uncalled(u, net'[g][Heir], net'[Heir][g])
    BY <1>13, <1>15, <1>17, Zenon DEF Uncalled
  <2> QED  BY <2>1, <1>16, Zenon DEF Line
<1>18. \A x, y \in Seats : x # Heir /\ y # Heir => net'[x][y] = net[x][y]
  BY <1>12
<1>19. OnlyTurns(net'[FirstHost][Heir]) /\ HeirOK(session'[Heir])
  <2>1. net'[FirstHost][Heir] = net[FirstHost][Heir]
    BY <1>2, <1>12
  <2> QED  BY <2>1, <1>2, <1>15, <1>16, Zenon
<1> QED  BY <1>3, <1>16, <1>17, <1>18, <1>19, HeirMoves, Zenon

\* Heir counts the answers: it asks again later, or goes on to host.
LEMMA HeirResolves ==
  ASSUME Aware, MigrationAssumption, MeanwhileAt(session, got, alive, net), Heir \in alive,
         Resolve(Heir)
  PROVE  PhaseAt(session', got', clients', alive', net')
<1>1. PICK t, r : t = session[Heir] /\ r = Resolved(Heir, t)
  BY Zenon
<1>2. Heir \in Seats /\ HeirOK(t) /\ IInv
  BY <1>1, MeanwhileFacts, Zenon DEF Aware
<1>3. /\ t.mode = "Electing" /\ t.proposed /\ got' = got /\ alive' = alive
      /\ \/ HostRefusers(t) # {} /\ clients' = clients /\ (Surrenders(Heir, t) \/ Retries(Heir, t))
         \/ HostRefusers(t) = {} /\ Deferred(Heir, t) # {} /\ clients' = clients /\ Defers(Heir, t)
         \/ HostRefusers(t) = {} /\ Deferred(Heir, t) = {}
            /\ PlanFetch(Heir, Resolved(Heir, t), net)
  BY <1>1, <1>2, ResolveCases
<1>4. /\ t.expected = Peers /\ DOMAIN t.answers = Peers
      /\ Mourned(Heir, t) = {FirstHost} /\ Deferred(Heir, t) = {}
      /\ \A g \in Peers :
           /\ net[g][Heir] = <<>> /\ net[Heir][g] = <<>>
           /\ \/ /\ session[g].mode = "Following" /\ t.answers[g].accepted
                 /\ t.answers[g].next = Len(got[g])
              \/ /\ t.refusals + 1 < RefusalLimit /\ ~t.answers[g].accepted
                 /\ t.answers[g].lowest = FirstHost
  BY <1>1, AnsweredFacts, Zenon
<1>5. SessionOK(Heir, t, got) /\ t \in Sessions
  BY <1>1, <1>2, OwnSession
<1>6. CASE HostRefusers(t) # {}
  <2>1. PICK g \in Peers : ~t.answers[g].accepted
    BY <1>4, <1>6 DEF HostRefusers, Refusers
  <2>2. t.refusals + 1 < RefusalLimit
    BY <2>1, <1>4
  <2>3. ~Surrenders(Heir, t)
    <3>1. t.refusals \in Nat /\ RefusalLimit \in Nat
      BY <1>2, <1>5, StateFacts DEF Sessions
    <3> QED  BY <3>1, <2>2 DEF Surrenders
  <2>4. Retries(Heir, t)
    BY <2>3, <1>3, <1>6
  <2> QED  BY <2>4, <1>1, HeirRetries, Zenon DEF PhaseAt
<1>7. CASE HostRefusers(t) = {}
  <2>1. PlanFetch(Heir, r, net)
    BY <1>1, <1>3, <1>4, <1>7
  <2>2. /\ r \in Sessions /\ r.dead = {FirstHost} /\ r.host = t.host /\ r.hint = t.hint
        /\ r.following = t.following /\ r.epoch = t.epoch /\ r.refusals = t.refusals
        /\ r.proposed = t.proposed /\ r.expected = t.expected /\ r.answers = t.answers
        /\ r.target = t.target
    BY <1>1, <1>2, <1>4, ResolvedSession
  <2>3. t.host = FirstHost /\ t.epoch = 0 /\ t.hint = None /\ t.following = None
    BY <1>2, <1>3 DEF HeirOK
  <2>4. Draft(Heir, r, got)
    BY <2>2, <1>5 DEF SessionOK, Draft
  <2>5. ASSUME NEW g \in Peers
        PROVE  /\ session[g].mode = "Following" /\ g \in DOMAIN r.answers
               /\ r.answers[g].accepted /\ r.answers[g].next = Len(got[g])
               /\ net[Heir][g] = <<>>
    <3>1. t.answers[g].accepted \/ g \in HostRefusers(t)
      BY <2>3, <2>5, <1>4 DEF HostRefusers, Refusers
    <3> QED  BY <3>1, <2>2, <2>5, <1>4, <1>7
  <2>6. Elected(r)
    BY <2>2, <2>3, <2>4, <2>5, <1>3, <1>4, Zenon DEF Elected
  <2>7. \A g \in Peers : net[g][Heir] = <<>>
    BY <1>4
  <2> QED  BY <2>1, <2>6, <2>7, <1>3, HeirPlans, Zenon
<1> QED  BY <1>6, <1>7

\* Heir acts.
LEMMA HeirStep ==
  ASSUME Aware, MigrationAssumption, MeanwhileAt(session, got, alive, net), Heir \in alive,
         Update(Heir)
  PROVE  PhaseAt(session', got', clients', alive', net')
<1>1. PICK t : t = session[Heir]
  OBVIOUS
<1>2. /\ Heir \in Seats /\ HeirOK(t) /\ t.mode # "Host" /\ None \notin Seats
      /\ \A g \in Peers :
           Line(g, t, session[g], Len(got[g]), Len(got[Heir]), net[g][Heir], net[Heir][g])
  BY <1>1, MeanwhileFacts, SeatFacts, Zenon DEF Aware
<1>3. SessionStep(Heir)
  BY <1>1, <1>2, WhoActs
<1>4. SUFFICES ASSUME ~FetchTick(Heir), ~Resolve(Heir)
               PROVE  MeanwhileAt(session', got', alive', net')
  BY HeirFetched, HeirResolves, Zenon DEF PhaseAt
<1>5. ~GivesUpCandidate(Heir)
  BY <1>1, <1>2 DEF GivesUpCandidate, HeirOK
<1>6. CASE NoticesLoss(Heir) \/ Propose(Heir)
  BY <1>6, HeirNotices, HeirProposes
<1>7. CASE \E s \in Seats : Silence(Heir, s)
  BY <1>7, Zenon DEF Silence, MeanwhileAt
<1>8. ASSUME NEW s \in Seats, Hear(Heir, s) PROVE MeanwhileAt(session', got', alive', net')
  <2>1. CASE s = FirstHost
    BY <2>1, <1>8, HeirHearsFirst
  <2>2. CASE s \in Peers
    <3>1. net[s][Heir] # <<>>
      BY <1>8, Zenon DEF Hear
    <3>2. \/ Answering(s, t, session[s], Len(got[s]), net[s][Heir], net[Heir][s])
          \/ Awaited(s, t, session[s], Len(got[s]), Len(got[Heir]), net[s][Heir], net[Heir][s])
      BY <3>1, <2>2, <1>2, Zenon DEF Line, Uncalled, Called, Answered
    <3> QED  BY <3>2, <2>2, <1>1, <1>8, HeirHearsAnswer, HeirHearsTurn, Zenon
  <2>3. CASE s = Heir
    <3>1. net[Heir][Heir] # <<>>
      BY <2>3, <1>8, Zenon DEF Hear
    <3>2. net[Heir][Heir] = <<>>
      BY <1>2, StateFacts DEF Aware, IInvAt, TypesAt
    <3> QED  BY <3>1, <3>2
  <2> QED  BY <2>1, <2>2, <2>3 DEF Peers, Others
<1> QED  BY <1>3, <1>4, <1>5, <1>6, <1>7, <1>8, Zenon DEF SessionStep

\* Somebody acts while nobody hosts.
LEMMA MeanwhileStep ==
  ASSUME Aware, MigrationAssumption, Well, MeanwhileAt(session, got, alive, net),
         NEW m \in Seats, Update(m) \/ Crash(m), OneDeath(alive')
  PROVE  PhaseAt(session', got', clients', alive', net')
<1>1. m \in alive
  BY WhoActs, Zenon DEF Crash
<1>2. /\ alive = Others /\ Heir \in alive /\ (m = Heir \/ m \in Peers)
  BY <1>1, MeanwhileFacts, Zenon
<1>3. ~Crash(m)
  BY <1>1, <1>2, NoOtherDies
<1>4. CASE m = Heir
  BY <1>2, <1>3, <1>4, HeirStep
<1>5. CASE m \in Peers
  BY <1>3, <1>5, MeanwhilePeer, Zenon DEF PhaseAt
<1> QED  BY <1>2, <1>4, <1>5

------------------------------------------------------------------------------
(* Every step stays in a phase *)

\* Nobody is dead at first.
LEMMA SingleInit ==
  ASSUME Init, MigrationAssumption
  PROVE  SingleInv
<1>1. FirstHost \in Seats /\ Others \subseteq Seats
  BY WorldFacts DEF Init, Others
<1>2. /\ \A g \in Others : session[g].mode = "Normal" /\ session[g].host = FirstHost
      /\ clients[FirstHost] = Others /\ alive = Seats
      /\ \A a, b \in Seats : net[a][b] = <<>> /\ silent[a] = {}
  BY <1>1 DEF Init, NewSession, Others
<1>3. Sees(alive, open, silent)
  <2>1. open = {{a, b} : a, b \in Seats} \ {{a} : a \in Seats}
    BY DEF Init
  <2>2. ASSUME NEW a \in Seats, NEW b \in Seats, a # b PROVE {a, b} \in open
    <3>1. \A x \in Seats : {a, b} # {x}
      BY <2>2
    <3> QED  BY <2>1, <3>1
  <2> QED  BY <1>2, <2>2 DEF Sees
<1>4. BeforeAt(session, clients, alive, net)
  BY <1>1, <1>2 DEF BeforeAt, OnlyTurns, Others
<1> QED  BY <1>3, <1>4, Zenon DEF SingleInv, PhaseAt

\* What holds of the values in the next state holds in the next state: the world is the same.
LEMMA NextPhase ==
  ASSUME world' = world, PhaseAt(session', got', clients', alive', net'),
         Sees(alive', open', silent')
  PROVE  PhaseAt(session, got, clients, alive, net)' /\ Sees(alive, open, silent)'
<1>1. Seats' = Seats /\ FirstHost' = FirstHost /\ RefusalLimit' = RefusalLimit
  BY DEF Seats, FirstHost, RefusalLimit
<1>2. Others' = Others
  BY <1>1 DEF Others
<1>3. Heir' = Heir
  BY <1>1, <1>2 DEF Heir
<1>4. Peers' = Peers
  BY <1>2, <1>3 DEF Peers
<1>5. Withdraws' = Withdraws /\ Believes' = Believes
  BY <1>1, <1>3 DEF Withdraws, Believes
<1>6. Sees(alive, open, silent)'
  BY <1>1, Zenon DEF Sees
<1>7. CASE BeforeAt(session', clients', alive', net')
  <2>1. BeforeAt(session, clients, alive, net)'
    BY <1>1, <1>2, <1>7, Zenon DEF BeforeAt, OnlyTurns
  <2> QED  BY <2>1, <1>6, Zenon DEF PhaseAt
<1>8. CASE MeanwhileAt(session', got', alive', net')
  <2>1. ASSUME HeirOK(session'[Heir]) PROVE HeirOK(session[Heir])'
    BY <2>1, <1>1, <1>3, <1>4, Zenon DEF HeirOK
  <2>2. ASSUME NEW g \in Peers, GuestOK(session'[g]) PROVE GuestOK(session[g])'
    BY <2>2, <1>1, <1>3, Zenon DEF GuestOK
  <2>3. ASSUME NEW g \in Peers,
               Line(g, session'[Heir], session'[g], Len(got'[g]), Len(got'[Heir]), net'[g][Heir],
                    net'[Heir][g])
        PROVE  Line(g, session[Heir], session[g], Len(got[g]), Len(got[Heir]), net[g][Heir],
                    net[Heir][g])'
    BY <2>3, <1>1, <1>3, <1>5, Zenon DEF Line, Uncalled, Called, Answering, Answered, Awaited
  <2>4. MeanwhileAt(session, got, alive, net)'
    BY <2>1, <2>2, <2>3, <1>1, <1>2, <1>3, <1>4, <1>8, Zenon DEF MeanwhileAt, OnlyTurns
  <2> QED  BY <2>4, <1>6, Zenon DEF PhaseAt
<1>9. CASE AfterAt(session', got', clients', alive', net')
  <2>1. ASSUME NEW g \in Peers, Led(g, session'[g], Len(got'[g]), net'[Heir][g])
        PROVE  Led(g, session[g], Len(got[g]), net[Heir][g])'
    BY <2>1, <1>1, <1>3, Zenon DEF Led, GuestOK, Resumes, OnlyTurns
  <2>2. AfterAt(session, got, clients, alive, net)'
    BY <2>1, <1>1, <1>2, <1>3, <1>4, <1>9, Zenon DEF AfterAt, OnlyTurns
  <2> QED  BY <2>2, <1>6, Zenon DEF PhaseAt
<1> QED  BY <1>7, <1>8, <1>9, Zenon DEF PhaseAt

\* No step leaves the phases.
LEMMA SingleStep ==
  ASSUME IInv, MigrationAssumption, SteadyInv, SingleInv, [Next]_vars
  PROVE  SingleInv'
<1>1. world' = world
  BY Zenon DEF Next, vars
<1>2. Seats' = Seats /\ Steady' = Steady /\ Patient' = Patient /\ MaxCuts' = MaxCuts
  BY <1>1 DEF Seats, Steady, Patient, MaxCuts
<1>3. SUFFICES ASSUME Clear, Patient, OneDeath(alive')
               PROVE  PhaseAt(session', got', clients', alive', net')
                      /\ Sees(alive', open', silent')
  <2>1. Single' => Clear /\ Patient /\ OneDeath(alive')
    BY <1>2, Zenon DEF Single, Clear, OneDeath
  <2> QED  BY <1>1, <1>3, <2>1, NextPhase, Zenon DEF SingleInv
<1>4. alive' \subseteq alive
  <2>1. CASE Next
    <3>1. BesideInv /\ Steady
      BY <1>3, Zenon DEF Clear, SteadyInv
    <3>2. PICK a \in Seats : Behaves(a) /\ Frame(a)
      BY <2>1, <3>1, OneBehaves, Zenon
    <3> QED  BY <3>2 DEF Frame
  <2>2. CASE UNCHANGED vars
    BY <2>2, Zenon DEF vars, state
  <2> QED  BY <2>1, <2>2, Zenon
<1>5. OneDeath(alive)
  BY <1>3, <1>4 DEF OneDeath
<1>6. Single /\ Sees(alive, open, silent) /\ PhaseAt(session, got, clients, alive, net)
  BY <1>3, <1>5, Zenon DEF Single, SingleInv
<1>7. Aware
  BY <1>6, Zenon DEF Single, Clear, SteadyInv, BesideInv, Aware
<1>8. Well
  BY <1>6, <1>7, PhaseWell
<1>9. CASE Next
  <2>1. PICK m \in Seats : \/ Update(m) \/ ElectionLimit(m) \/ Crash(m)
                           \/ \E g \in Seats : Cut(m, g)
    BY <1>9, Zenon DEF Next
  <2>2. ~ElectionLimit(m) /\ ~\E g \in Seats : Cut(m, g)
    <3>1. ~(cuts < MaxCuts)
      BY <1>7, SingleFacts
    <3> QED  BY <3>1, <1>7, SingleFacts, Zenon DEF ElectionLimit, Cut
  <2>3. Update(m) \/ Crash(m)
    BY <2>1, <2>2
  <2>4. PhaseAt(session', got', clients', alive', net')
    BY <2>3, <1>3, <1>6, <1>7, <1>8, BeforeStep, MeanwhileStep, AfterStep, Zenon DEF PhaseAt
  <2> QED  BY <2>4, <1>7, <1>8, <1>9, SeesStep
<1>10. CASE UNCHANGED vars
  BY <1>6, <1>10, Zenon DEF vars, state
<1> QED  BY <1>9, <1>10, Zenon

\* In every phase at most one machine hosts.
LEMMA PhaseHosts ==
  ASSUME Aware, MigrationAssumption, PhaseAt(session, got, clients, alive, net),
         NEW a \in alive, NEW b \in alive, session[a].mode = "Host", session[b].mode = "Host"
  PROVE  a = b
<1>1. /\ alive \subseteq Seats /\ Seats = Others \cup {FirstHost} /\ FirstHost \notin Others
      /\ Others # {} => Others = Peers \cup {Heir}
  BY SeatFacts, StateFacts, Zenon DEF Aware
<1>2. CASE BeforeAt(session, clients, alive, net)
  BY <1>1, <1>2 DEF BeforeAt
<1>3. CASE MeanwhileAt(session, got, alive, net)
  BY <1>3, MeanwhileFacts
<1>4. CASE AfterAt(session, got, clients, alive, net)
  BY <1>1, <1>4 DEF AfterAt, Led
<1> QED  BY <1>2, <1>3, <1>4, Zenon DEF PhaseAt

\* In every phase two machines that live were given the same turns, as far as both have some.
LEMMA PhaseTurns ==
  ASSUME Aware, MigrationAssumption, PhaseAt(session, got, clients, alive, net),
         NEW a \in alive, NEW b \in alive, NEW k \in Nat \ {0}, k <= Len(got[a]), k <= Len(got[b])
  PROVE  got[a][k] = got[b][k]
<1>1. /\ alive \subseteq Seats /\ Seats = Others \cup {FirstHost} /\ FirstHost \notin Others
      /\ Others # {} => Others = Peers \cup {Heir}
  BY SeatFacts, StateFacts, Zenon DEF Aware
<1>2. got \in [Seats -> Seq(Seats)]
  BY StateFacts DEF Aware
<1>3. k \in 1 .. Len(got[a]) /\ k \in 1 .. Len(got[b])
  BY <1>1, <1>2
<1>4. ASSUME \A x \in Others : session[x].mode # "Host" PROVE got[a][k] = got[b][k]
  <2>1. got[a][k] = FirstHost /\ got[b][k] = FirstHost
    BY <1>1, <1>3, <1>4, FirstHostsTurns
  <2> QED  BY <2>1
<1>5. CASE BeforeAt(session, clients, alive, net)
  BY <1>4, <1>5 DEF BeforeAt
<1>6. CASE MeanwhileAt(session, got, alive, net)
  <2>1. \A x \in Others : session[x].mode # "Host"
    BY <1>6, MeanwhileFacts, Zenon DEF MeanwhileAt
  <2> QED  BY <1>4, <2>1
<1>7. CASE AfterAt(session, got, clients, alive, net)
  <2>1. alive = Peers \cup {Heir}
        /\ \A g \in Peers : \A j \in 1 .. Len(got[g]) : got[g][j] = got[Heir][j]
    BY <1>1, <1>7, Zenon DEF AfterAt
  <2>2. got[a][k] = got[Heir][k] /\ got[b][k] = got[Heir][k]
    BY <2>1, <1>3
  <2> QED  BY <2>2
<1> QED  BY <1>5, <1>6, <1>7, Zenon DEF PhaseAt

\* A sequence that agrees with a longer one is a beginning of it.
LEMMA PrefixAt ==
  ASSUME NEW a \in Seq(Seats), NEW b \in Seq(Seats), Len(a) <= Len(b),
         \A k \in 1 .. Len(a) : a[k] = b[k]
  PROVE  Prefix(a, b)
<1>1. PICK c : c = SubSeq(b, 1, Len(a))
  OBVIOUS
<1>2. c \in Seq(Seats) /\ Len(c) = Len(a) /\ \A k \in 1 .. Len(a) : c[k] = a[k]
  BY <1>1
<1>3. c = a
  BY <1>2, SeqEqual
<1> QED  BY <1>1, <1>3 DEF Prefix

\* What every phase promises
LEMMA SinglePromise ==
  ASSUME IInv, MigrationAssumption, SteadyInv, SingleInv, Single
  PROVE  OneHost /\ SurvivorsAgree
<1>1. Aware /\ PhaseAt(session, got, clients, alive, net)
  BY Zenon DEF Aware, SingleInv, SteadyInv, BesideInv, Single, Clear
<1>2. OneHost
  <2>1. PICK H : H = {h \in alive : session[h].mode = "Host"}
    OBVIOUS
  <2>2. \A a, b \in H : a = b
    BY <2>1, <1>1, PhaseHosts
  <2>3. H = {} \/ \E h : H = {h}
    BY <2>2
  <2>4. Cardinality(H) <= 1
    <3>1. CASE H = {}
      <4>1. Cardinality(H) = 0
        BY <3>1, FS_EmptySet, Zenon
      <4> QED  BY <4>1
    <3>2. ASSUME NEW h, H = {h} PROVE Cardinality(H) <= 1
      <4>1. Cardinality(H) = 1
        BY <3>2, FS_Singleton, Zenon
      <4> QED  BY <4>1
    <3> QED  BY <2>3, <3>1, <3>2
  <2> QED  BY <2>1, <2>4 DEF OneHost
<1>3. SurvivorsAgree
  <2>1. SUFFICES ASSUME NEW a \in Seats, NEW b \in Seats, Playing(a), Playing(b)
                 PROVE  Prefix(got[a], got[b]) \/ Prefix(got[b], got[a])
    BY Zenon DEF SurvivorsAgree
  <2>2. a \in alive /\ b \in alive
    BY <2>1 DEF Playing
  <2>3. PICK p, q : p = got[a] /\ q = got[b]
    BY Zenon
  <2>4. p \in Seq(Seats) /\ q \in Seq(Seats)
    BY <2>3, <1>1, StateFacts
  <2>5. \A k \in Nat \ {0} : k <= Len(p) /\ k <= Len(q) => p[k] = q[k]
    BY <2>2, <2>3, <1>1, PhaseTurns
  <2>6. CASE Len(p) <= Len(q)
    <3>1. \A k \in 1 .. Len(p) : p[k] = q[k]
      BY <2>4, <2>5, <2>6
    <3> QED  BY <3>1, <2>3, <2>4, <2>6, PrefixAt
  <2>7. CASE Len(q) <= Len(p)
    <3>1. \A k \in 1 .. Len(q) : q[k] = p[k]
      BY <2>4, <2>5, <2>7
    <3> QED  BY <3>1, <2>3, <2>4, <2>7, PrefixAt
  <2>8. Len(p) <= Len(q) \/ Len(q) <= Len(p)
    BY <2>4
  <2> QED  BY <2>6, <2>7, <2>8
<1> QED  BY <1>2, <1>3

\* The match passes through the phases.
THEOREM ThreePhases == Spec => []SingleInv
<1>1. Init => SingleInv
  BY MigrationAssumption, SingleInit, Zenon
<1>2. IInv /\ SteadyInv /\ SingleInv /\ [Next]_vars => SingleInv'
  BY MigrationAssumption, SingleStep, Zenon
<1>3. Spec => []SteadyInv
  BY SteadyAlways
<1> QED  BY <1>1, <1>2, <1>3, Invariant, PTL DEF Spec

\* A machine died, no time-out deceives and no other link breaks: at most one machine hosts,
\* whoever found out when, and however far each had got.
THEOREM OneSuccessor == Spec => [](Single => OneHost)
<1>1. IInv /\ SteadyInv /\ SingleInv => (Single => OneHost)
  BY MigrationAssumption, SinglePromise, Zenon
<1> QED  BY <1>1, ThreePhases, SteadyAlways, Invariant, PTL DEF Spec

\* And no two that play were given different turns of the same number.
THEOREM SameTurns == Spec => [](Single => SurvivorsAgree)
<1>1. IInv /\ SteadyInv /\ SingleInv => (Single => SurvivorsAgree)
  BY MigrationAssumption, SinglePromise, Zenon
<1> QED  BY <1>1, ThreePhases, SteadyAlways, Invariant, PTL DEF Spec
=============================================================================
