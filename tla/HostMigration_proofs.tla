------------------------ MODULE HostMigration_proofs ------------------------
(***************************************************************************)
(* What HostMigration promises, proved for every world.  Whatever time-    *)
(* outs fire: its types, and that a guest is in step with its host.  On    *)
(* sound links: that no guest of the first host takes over beside it.      *)
(*                                                                         *)
(* For the first two, nearly every step is one of a machine that hosts     *)
(* nothing and will not by it: it reads at most one message of each link,  *)
(* breaks links and says what is true of itself.  GuestKeeps is about all  *)
(* of these at once.  The others, one lemma for each, are the steps by     *)
(* which somebody gets a turn or a host, and those of the world.  For the  *)
(* third, Behaves says what a step of one machine may do to what the other *)
(* guests know of the host, and what it says to them.                      *)
(***************************************************************************)
EXTENDS HostMigration, NumberFacts, SequenceTheorems

Sessions ==
  [mode : Modes, host : Seats, epoch : Nat, dead : SUBSET Seats, hint : Seats \cup {None},
   following : Seats \cup {None}, proposed : BOOLEAN, expected : SUBSET Seats,
   answers : UNION {[T -> Answers] : T \in SUBSET Seats}, refusals : Nat,
   source : Seats \cup {None}, target : Nat]
Lines == [Seats -> [Seats -> Seq(Messages)]]

\* Below, S, G, C, A, O and N are the values of session, got, clients, alive, open and net.

\* It knows whom it follows and whom it fetches from.
Directed(t) ==
  /\ t.mode = "Following" => t.following \in Seats
  /\ t.mode = "Fetching" => t.source \in Seats

\* The session of g, when it is t; a draft of it may not know whom it fetches from.
Draft(g, t, G) ==
  /\ t \in Sessions
  /\ t.expected \subseteq Seats \ {g} /\ DOMAIN t.answers \subseteq t.expected
  /\ t.target <= MaxTurns /\ t.refusals <= RefusalLimit
  /\ \A s \in DOMAIN t.answers : t.answers[s].accepted => t.answers[s].next <= Len(G[s])

SessionOK(g, t, G) == Draft(g, t, G) /\ Directed(t)

\* A message of s
Sound(s, m, S, G) ==
  /\ m.type = "Turn" => m.turn < Len(G[s]) /\ m.by = G[s][m.turn + 1]
  /\ m.type = "Accept" => m.next <= Len(G[s])
  /\ m.type = "Resume" =>
       /\ S[s].mode = "Host" /\ S[s].epoch = m.epoch /\ m.turn <= Len(G[s])
       /\ \A k \in 1 .. Len(G[s]) : k <= m.turn => G[s][k] # s

\* q ends with the turns of h from the one behind from on, and they are behind its i-th message
Ends(q, i, h, from, G) ==
  /\ Len(G[h]) - from <= Len(q) - i
  /\ \A k \in 1 .. Len(G[h]) : from < k =>
       q[Len(q) - Len(G[h]) + k] = [type |-> "Turn", turn |-> k - 1, by |-> G[h][k]]

Served(h, x, C, A, O) == {h, x} \subseteq A /\ x \in C[h] /\ {h, x} \in O

\* What is under way from h to a guest x of its, and to one that will be when it takes the word
\* of h that waits for it
Stream(h, x, S, G, C, A, O, N) ==
  Served(h, x, C, A, O) =>
    /\ S[x].mode = "Normal" /\ S[x].host = h => Ends(N[h][x], 0, h, Len(G[x]), G)
    /\ S[x].mode \notin {"Host", "Lost"} =>
         \A i \in DOMAIN N[h][x] :
           N[h][x][i].type = "Resume" /\ Len(G[x]) <= N[h][x][i].turn =>
             Ends(N[h][x], i, h, Len(G[x]), G)

TypesAt(S, G, C, A, O, N) ==
  /\ S \in [Seats -> Sessions] /\ G \in [Seats -> Seq(Seats)]
  /\ C \in [Seats -> SUBSET Seats] /\ A \subseteq Seats
  /\ \A link \in O : \E a, b \in Seats : a # b /\ link = {a, b}
  /\ N \in Lines /\ \A g \in Seats : N[g][g] = <<>>

\* Epochs are counted by the machines that became host
HostAt(g, S, C) ==
  /\ S[g].mode = "Host" => S[g].host = g
  /\ S[g].mode = "Normal" => S[g].host # g /\ S[S[g].host].mode = "Host"
  /\ C[g] # {} => S[g].mode = "Host"
  /\ \A e \in Nat : e <= S[g].epoch => \E h \in Seats : S[h].mode = "Host" /\ S[h].epoch = e

\* Only hosts ever sealed
TurnsAt(g, S, G) ==
  Len(G[g]) <= MaxTurns /\ \A k \in 1 .. Len(G[g]) : S[G[g][k]].mode = "Host"

\* A guest has what its host sealed, as far as it has anything
OwnAt(g, S, G) ==
  S[g].mode = "Normal" =>
    /\ Len(G[g]) <= Len(G[S[g].host])
    /\ \A k \in 1 .. Len(G[g]) : G[S[g].host][k] = S[g].host => G[g][k] = S[g].host

IInvAt(S, G, C, A, O, N) ==
  /\ TypesAt(S, G, C, A, O, N)
  /\ \A g \in Seats : SessionOK(g, S[g], G)
  /\ \A g \in Seats : HostAt(g, S, C)
  /\ \A g \in Seats : TurnsAt(g, S, G)
  /\ \A g \in Seats : OwnAt(g, S, G)
  /\ \A s, g \in Seats : \A i \in DOMAIN N[s][g] : Sound(s, N[s][g][i], S, G)
  /\ \A h, x \in Seats : Stream(h, x, S, G, C, A, O, N)

IInv ==
  /\ world \in Worlds
  /\ IInvAt(session, got, clients, alive, open, net)
  /\ silent \in [Seats -> SUBSET Seats] /\ cuts \in 0 .. MaxCuts
------------------------------------------------------------------------------
(* What the invariant says *)

\* What a world is.
LEMMA WorldFacts ==
  ASSUME world \in Worlds, MigrationAssumption
  PROVE  /\ Seats \subseteq Nat /\ IsFiniteSet(Seats) /\ FirstHost \in Seats /\ None \notin Seats
         /\ MaxTurns \in Nat /\ MaxCuts \in Nat /\ RefusalLimit \in Nat \ {0}
BY DEF MigrationAssumption, Seats, FirstHost, MaxTurns, MaxCuts, RefusalLimit

\* No link leads from a machine to itself.
LEMMA NoLoop ==
  ASSUME NEW S, NEW G, NEW C, NEW A, NEW O, NEW N, TypesAt(S, G, C, A, O, N), NEW a
  PROVE  {a, a} \notin O
<1>1. SUFFICES ASSUME {a, a} \in O PROVE FALSE
  OBVIOUS
<1>2. PICK x, y \in Seats : x # y /\ {a, a} = {x, y}
  BY <1>1 DEF TypesAt
<1> QED  BY <1>2

\* The last message of a sequence is gone, or all are as they were: what is at the head.
LEMMA TailAt ==
  ASSUME NEW T, NEW q \in Seq(T), q # <<>>
  PROVE  /\ Tail(q) \in Seq(T) /\ Head(q) \in T /\ Head(q) = q[1] /\ Len(q) \in Nat \ {0}
         /\ Len(Tail(q)) = Len(q) - 1
         /\ \A i \in 1 .. Len(q) - 1 : Tail(q)[i] = q[i + 1]
BY HeadTailProperties, EmptySeq
------------------------------------------------------------------------------
(* A machine that hosts nothing moves *)

TakesAt(g, s, m, S, G) ==
  /\ m.type = "Turn" /\ m.turn = Len(G[g])
  /\ \/ S[g].mode = "Normal" /\ S[g].host = s
     \/ S[g].mode = "Fetching" /\ S[g].source = s

\* What is left of the queue q from a to g
Reads(g, a, q, S, G, O, N) ==
  \/ q = N[a][g]
  \/ N[a][g] # <<>> /\ q = Tail(N[a][g]) /\ ~TakesAt(g, a, Head(N[a][g]), S, G)
  \/ q = <<>> /\ {a, g} \notin O

\* The session of g is t from now on
Changes(g, t, S, G) ==
  /\ S[g].mode # "Host" /\ t.mode # "Host"
  /\ SessionOK(g, t, G) /\ t.epoch = S[g].epoch
  /\ t.mode = "Normal" => S[g].mode = "Normal" /\ t.host = S[g].host
  /\ S[g].mode = "Lost" => t.mode = "Lost"

\* The queues are M from now on, and the links P
Talks(g, P, M, S, G, O, N) ==
  /\ P \subseteq O
  /\ M \in Lines /\ M[g][g] = <<>>
  /\ \A a \in Seats \ {g} :
       /\ \A b \in Seats \ {g} : M[a][b] = N[a][b]
       /\ Reads(g, a, M[a][g], S, G, P, N)
  /\ \A b \in Seats : \A i \in DOMAIN M[g][b] : Sound(g, M[g][b][i], S, G)

\* What was under way in q stays so when the first of it, which is no turn that x lacks, is read.
LEMMA EndsTail ==
  ASSUME NEW q \in Seq(Messages), q # <<>>, NEW i \in Nat, NEW h \in Seats, NEW n \in Nat,
         NEW G \in [Seats -> Seq(Seats)], Ends(q, i, h, n, G), n <= Len(G[h]),
         i > 0 \/ ~(Head(q).type = "Turn" /\ Head(q).turn = n)
  PROVE  Ends(Tail(q), IF i = 0 THEN 0 ELSE i - 1, h, n, G)
<1>1. PICK L, K : L = Len(G[h]) /\ K = Len(q)
  OBVIOUS
<1>2. L \in Nat /\ K \in Nat \ {0} /\ Len(Tail(q)) = K - 1 /\ Head(q) = q[1]
      /\ \A j \in 1 .. K - 1 : Tail(q)[j] = q[j + 1]
  <2>1. L \in Nat
    BY <1>1
  <2> QED  BY <1>1, <2>1, TailAt
<1>3. L - n <= K - i
      /\ \A k \in 1 .. L : n < k => q[K - L + k] = [type |-> "Turn", turn |-> k - 1, by |-> G[h][k]]
  BY <1>1, Zenon DEF Ends
<1>4. L - n <= K - 1
  <2>1. CASE i > 0
    BY <2>1, <1>2, <1>3
  <2>2. CASE i = 0 /\ L - n = K
    <3>1. n + 1 \in 1 .. L /\ n < n + 1 /\ K - L + (n + 1) = 1
      BY <2>2, <1>2
    <3>2. q[1] = [type |-> "Turn", turn |-> (n + 1) - 1, by |-> G[h][n + 1]]
      BY <3>1, <1>3
    <3>3. Head(q).type = "Turn" /\ Head(q).turn = n
      BY <3>2, <1>2
    <3> QED  BY <3>3, <2>2
  <2> QED  BY <2>1, <2>2, <1>2, <1>3
<1>5. ASSUME NEW k \in 1 .. L, n < k
      PROVE  Tail(q)[K - 1 - L + k] = [type |-> "Turn", turn |-> k - 1, by |-> G[h][k]]
  <2>1. K - 1 - L + k \in 1 .. K - 1 /\ (K - 1 - L + k) + 1 = K - L + k
    BY <1>2, <1>4, <1>5
  <2>2. Tail(q)[K - 1 - L + k] = q[K - L + k]
    BY <2>1, <1>2
  <2> QED  BY <2>2, <1>3, <1>5
<1>6. L - n <= (K - 1) - (IF i = 0 THEN 0 ELSE i - 1)
  BY <1>2, <1>3, <1>4
<1> QED  BY <1>1, <1>2, <1>5, <1>6, Zenon DEF Ends

\* Such a step changes nothing that others know of: who hosts, and who has which turns.
LEMMA GuestKeeps ==
  ASSUME world \in Worlds, MigrationAssumption,
         NEW S, NEW G, NEW C, NEW A, NEW O, NEW N, IInvAt(S, G, C, A, O, N),
         NEW g \in Seats, NEW t, Changes(g, t, S, G), NEW P, NEW M, Talks(g, P, M, S, G, O, N),
         NEW S2, S2 = [S EXCEPT ![g] = t]
  PROVE  IInvAt(S2, G, C, A, P, M)
<1>1. TypesAt(S, G, C, A, O, N) /\ SessionOK(g, t, G)
  BY Zenon DEF IInvAt, Changes
<1>2. S \in [Seats -> Sessions] /\ G \in [Seats -> Seq(Seats)] /\ N \in Lines /\ t \in Sessions
  BY <1>1, Zenon DEF TypesAt, SessionOK, Draft
<1>3. S2 \in [Seats -> Sessions] /\ S2[g] = t /\ \A x \in Seats \ {g} : S2[x] = S[x]
  BY <1>2
<1>4. \A x \in Seats : S[x].mode = "Host" => S2[x] = S[x]
  BY <1>3 DEF Changes
<1>5. \A x \in Seats : S2[x].mode = "Host" => S2[x] = S[x]
  BY <1>3 DEF Changes
<1>6. \A x \in Seats : S2[x].epoch = S[x].epoch
  BY <1>3 DEF Changes
<1>7. \A x \in Seats : S2[x].mode = "Normal" => S[x].mode = "Normal" /\ S2[x].host = S[x].host
  BY <1>3 DEF Changes
<1>8. TypesAt(S2, G, C, A, P, M)
  <2>1. \A link \in P : \E a, b \in Seats : a # b /\ link = {a, b}
    BY <1>1 DEF TypesAt, Talks
  <2>2. ASSUME NEW a \in Seats PROVE M[a][a] = <<>>
    <3>1. CASE a = g
      BY <3>1, Zenon DEF Talks
    <3>2. CASE a # g
      <4>1. M[a][a] = N[a][a]
        BY <3>2 DEF Talks
      <4> QED  BY <4>1, <1>1, Zenon DEF TypesAt
    <3> QED  BY <3>1, <3>2, Zenon
  <2>3. M \in Lines
    BY Zenon DEF Talks
  <2> QED  BY <1>1, <1>3, <2>1, <2>2, <2>3, Zenon DEF TypesAt
<1>9. ASSUME NEW x \in Seats PROVE SessionOK(x, S2[x], G)
  BY <1>1, <1>3, <1>9, Zenon DEF IInvAt
<1>10. ASSUME NEW x \in Seats PROVE HostAt(x, S2, C)
  <2>1. HostAt(x, S, C)
    BY Zenon DEF IInvAt
  <2>2. S2[x].mode = "Host" => S2[x].host = x
    BY <2>1, <1>5, Zenon DEF HostAt
  <2>3. S2[x].mode = "Normal" => S2[x].host # x /\ S2[S2[x].host].mode = "Host"
    <3>1. SUFFICES ASSUME S2[x].mode = "Normal" PROVE S2[x].host # x /\ S2[S2[x].host].mode = "Host"
      BY Zenon
    <3>2. S[x].mode = "Normal" /\ S2[x].host = S[x].host /\ S[x].host # x /\ S[S[x].host].mode = "Host"
      BY <3>1, <2>1, <1>7, Zenon DEF HostAt
    <3>3. S[x].host \in Seats
      BY <1>2 DEF Sessions
    <3> QED  BY <3>2, <3>3, <1>4, Zenon
  <2>4. C[x] # {} => S2[x].mode = "Host"
    BY <2>1, <1>4, Zenon DEF HostAt
  <2>5. ASSUME NEW e \in Nat, e <= S2[x].epoch
        PROVE  \E h \in Seats : S2[h].mode = "Host" /\ S2[h].epoch = e
    <3>1. e <= S[x].epoch
      BY <2>5, <1>6, Zenon
    <3>2. PICK h \in Seats : S[h].mode = "Host" /\ S[h].epoch = e
      BY <3>1, <2>1, Zenon DEF HostAt
    <3> QED  BY <3>2, <1>4, Zenon
  <2> QED  BY <2>2, <2>3, <2>4, <2>5, Zenon DEF HostAt
<1>11. ASSUME NEW x \in Seats PROVE TurnsAt(x, S2, G)
  <2>1. TurnsAt(x, S, G)
    BY Zenon DEF IInvAt
  <2>2. ASSUME NEW k \in 1 .. Len(G[x]) PROVE S2[G[x][k]].mode = "Host"
    <3>1. G[x] \in Seq(Seats)
      BY <1>2
    <3>2. G[x][k] \in Seats
      BY <3>1, <2>2
    <3> QED  BY <3>2, <2>1, <1>4, Zenon DEF TurnsAt
  <2> QED  BY <2>1, <2>2, Zenon DEF TurnsAt
<1>12. ASSUME NEW x \in Seats PROVE OwnAt(x, S2, G)
  <2>1. OwnAt(x, S, G)
    BY Zenon DEF IInvAt
  <2>2. CASE S2[x].mode = "Normal"
    <3>1. S[x].mode = "Normal" /\ S2[x].host = S[x].host
      BY <2>2, <1>7, Zenon
    <3> QED  BY <3>1, <2>1, Zenon DEF OwnAt
  <2>3. CASE S2[x].mode # "Normal"
    BY <2>3, Zenon DEF OwnAt
  <2> QED  BY <2>2, <2>3, Zenon
<1>13. ASSUME NEW a \in Seats, NEW m, Sound(a, m, S, G) PROVE Sound(a, m, S2, G)
  BY <1>13, <1>4, Zenon DEF Sound
<1>14. ASSUME NEW a \in Seats, NEW b \in Seats, a # g, NEW i \in DOMAIN M[a][b]
       PROVE  Sound(a, M[a][b][i], S, G)
  <2>1. \A j \in DOMAIN N[a][b] : Sound(a, N[a][b][j], S, G)
    BY Zenon DEF IInvAt
  <2>2. CASE M[a][b] = N[a][b]
    BY <2>1, <2>2, <1>14, Zenon
  <2>3. CASE N[a][b] # <<>> /\ M[a][b] = Tail(N[a][b])
    <3>1. N[a][b] \in Seq(Messages)
      BY <1>2 DEF Lines
    <3>2. PICK q : q = N[a][b]
      OBVIOUS
    <3>3. Tail(q) \in Seq(Messages) /\ Len(q) \in Nat \ {0} /\ Len(Tail(q)) = Len(q) - 1
          /\ \A j \in 1 .. Len(q) - 1 : Tail(q)[j] = q[j + 1]
      BY <3>1, <3>2, <2>3, TailAt
    <3>4. i \in 1 .. Len(q) - 1
      BY <3>2, <3>3, <2>3
    <3>5. i + 1 \in 1 .. Len(q) /\ DOMAIN q = 1 .. Len(q)
      BY <3>1, <3>2, <3>3, <3>4
    <3> QED  BY <2>1, <2>3, <3>2, <3>3, <3>4, <3>5
  <2>4. CASE M[a][b] = <<>>
    BY <2>4
  <2> QED  BY <2>2, <2>3, <2>4, <1>14, Zenon DEF Talks, Reads
<1>15. ASSUME NEW a \in Seats, NEW b \in Seats, NEW i \in DOMAIN M[a][b]
       PROVE  Sound(a, M[a][b][i], S2, G)
  <2>1. Sound(a, M[a][b][i], S, G)
    BY <1>14, <1>15, Zenon DEF Talks
  <2> QED  BY <2>1, <1>13, Zenon
<1>16. ASSUME NEW h \in Seats, NEW x \in Seats PROVE Stream(h, x, S2, G, C, A, P, M)
  <2>1. SUFFICES ASSUME Served(h, x, C, A, P) PROVE Stream(h, x, S2, G, C, A, P, M)
    BY Zenon DEF Stream
  <2>2. Served(h, x, C, A, O)
    BY <2>1 DEF Served, Talks
  <2>3. Stream(h, x, S, G, C, A, O, N)
    BY Zenon DEF IInvAt
  <2>4. h # g
    BY <2>2, Zenon DEF Served, IInvAt, HostAt, Changes
  <2>5. h # x
    BY <2>2, <1>1, NoLoop DEF Served
  <2>6. S2[x].mode \notin {"Host", "Lost"} => S[x].mode \notin {"Host", "Lost"}
    BY <1>3, <1>4 DEF Changes
  <2>7. CASE M[h][x] = N[h][x]
    <3>1. S2[x].mode = "Normal" /\ S2[x].host = h => Ends(M[h][x], 0, h, Len(G[x]), G)
      BY <2>2, <2>3, <2>7, <1>7, Zenon DEF Stream
    <3>2. S2[x].mode \notin {"Host", "Lost"} =>
            \A i \in DOMAIN M[h][x] :
              M[h][x][i].type = "Resume" /\ Len(G[x]) <= M[h][x][i].turn =>
                Ends(M[h][x], i, h, Len(G[x]), G)
      BY <2>2, <2>3, <2>7, <2>6, Zenon DEF Stream
    <3> QED  BY <3>1, <3>2, Zenon DEF Stream
  <2>8. CASE x = g /\ N[h][g] # <<>> /\ M[h][g] = Tail(N[h][g]) /\ ~TakesAt(g, h, Head(N[h][g]), S, G)
    <3>1. PICK q : q = N[h][g]
      OBVIOUS
    <3>2. q \in Seq(Messages) /\ q # <<>>
      BY <3>1, <2>8, <1>2 DEF Lines
    <3>3. PICK n : n = Len(G[g])
      OBVIOUS
    <3>4. n \in Nat /\ Len(G[h]) \in Nat
      BY <3>3, <1>2
    <3>5. ASSUME S2[g].mode = "Normal", S2[g].host = h
          PROVE  Ends(Tail(q), 0, h, n, G)
      <4>1. S[g].mode = "Normal" /\ S[g].host = h
        BY <3>5, <1>7, Zenon
      <4>2. Ends(q, 0, h, n, G)
        BY <4>1, <2>2, <2>3, <2>8, <3>1, <3>3, Zenon DEF Stream
      <4>3. n <= Len(G[h])
        BY <4>1, <3>3, Zenon DEF IInvAt, OwnAt
      <4>4. ~(Head(q).type = "Turn" /\ Head(q).turn = n)
        BY <4>1, <2>8, <3>1, <3>3, Zenon DEF TakesAt
      <4>5. Ends(Tail(q), IF 0 = 0 THEN 0 ELSE 0 - 1, h, n, G)
        BY <4>2, <4>3, <4>4, <3>2, <3>4, <1>2, EndsTail
      <4> QED  BY <4>5
    <3>6. ASSUME S2[g].mode \notin {"Host", "Lost"}, NEW i \in DOMAIN Tail(q),
                 Tail(q)[i].type = "Resume", n <= Tail(q)[i].turn
          PROVE  Ends(Tail(q), i, h, n, G)
      <4>1. Len(q) \in Nat \ {0} /\ i \in 1 .. Len(q) - 1 /\ Tail(q)[i] = q[i + 1]
        BY <3>2, <3>6, TailAt
      <4>2. i + 1 \in DOMAIN q /\ q[i + 1].type = "Resume" /\ n <= q[i + 1].turn
        BY <4>1, <3>2, <3>6
      <4>3. Ends(q, i + 1, h, n, G)
        BY <4>2, <2>2, <2>3, <2>6, <2>8, <3>1, <3>3, <3>6, Zenon DEF Stream
      <4>4. n <= Len(G[h])
        <5>1. Sound(h, q[i + 1], S, G)
          BY <4>2, <3>1, Zenon DEF IInvAt
        <5>2. q[i + 1].turn <= Len(G[h])
          BY <5>1, <4>2, Zenon DEF Sound
        <5>3. q[i + 1] \in Messages
          BY <3>2, <4>2
        <5>4. q[i + 1].turn \in Nat
          BY <5>3, <4>2 DEF Messages
        <5> QED  BY <5>2, <5>4, <4>2, <3>4
      <4>5. i + 1 \in Nat /\ i + 1 > 0 /\ (IF i + 1 = 0 THEN 0 ELSE (i + 1) - 1) = i
        BY <4>1
      <4>6. Ends(Tail(q), IF i + 1 = 0 THEN 0 ELSE (i + 1) - 1, h, n, G)
        BY <4>3, <4>4, <4>5, <3>2, <3>4, <1>2, EndsTail
      <4> QED  BY <4>5, <4>6
    <3>7. M[h][x] = Tail(q) /\ Len(G[x]) = n
      BY <3>1, <3>3, <2>8
    <3> QED  BY <3>5, <3>6, <3>7, <2>8, Zenon DEF Stream
  <2>9. CASE x = g /\ {h, g} \notin P
    BY <2>9, <2>1, Zenon DEF Served
  <2> QED  BY <2>4, <2>5, <2>7, <2>8, <2>9, Zenon DEF Talks, Reads
<1> QED  BY <1>8, <1>9, <1>10, <1>11, <1>12, <1>15, <1>16, Zenon DEF IInvAt
------------------------------------------------------------------------------
(* Who gets a turn *)

\* Nothing that was had is lost.
Grows(G, H) ==
  /\ G \in [Seats -> Seq(Seats)] /\ H \in [Seats -> Seq(Seats)]
  /\ \A x \in Seats : /\ Len(G[x]) <= Len(H[x])
                      /\ \A k \in 1 .. Len(G[x]) : H[x][k] = G[x][k]

\* g has one turn more, which by sealed
Gains(g, by, G, H) ==
  /\ H \in [Seats -> Seq(Seats)]
  /\ \A x \in Seats \ {g} : H[x] = G[x]
  /\ Len(H[g]) = Len(G[g]) + 1 /\ H[g][Len(G[g]) + 1] = by
  /\ \A k \in 1 .. Len(G[g]) : H[g][k] = G[g][k]

LEMMA GainsFacts ==
  ASSUME NEW G \in [Seats -> Seq(Seats)], NEW g \in Seats, NEW by \in Seats,
         NEW H, H = [G EXCEPT ![g] = Append(@, by)]
  PROVE  Gains(g, by, G, H) /\ Grows(G, H)
<1>1. G[g] \in Seq(Seats)
  OBVIOUS
<1>2. Append(G[g], by) \in Seq(Seats) /\ Len(Append(G[g], by)) = Len(G[g]) + 1
      /\ Append(G[g], by)[Len(G[g]) + 1] = by
      /\ \A k \in 1 .. Len(G[g]) : Append(G[g], by)[k] = G[g][k]
  BY <1>1, AppendProperties
<1>3. H \in [Seats -> Seq(Seats)] /\ H[g] = Append(G[g], by) /\ \A x \in Seats \ {g} : H[x] = G[x]
  BY <1>2
<1>4. Gains(g, by, G, H)
  BY <1>2, <1>3, Zenon DEF Gains
<1>5. ASSUME NEW x \in Seats
      PROVE  Len(G[x]) <= Len(H[x]) /\ \A k \in 1 .. Len(G[x]) : H[x][k] = G[x][k]
  <2>1. CASE x = g
    <3>1. Len(G[g]) \in Nat
      BY <1>1
    <3> QED  BY <2>1, <3>1, <1>2, <1>3
  <2>2. CASE x # g
    <3>1. H[x] = G[x] /\ Len(G[x]) \in Nat
      BY <2>2, <1>3
    <3> QED  BY <3>1
  <2> QED  BY <2>1, <2>2, Zenon
<1> QED  BY <1>3, <1>4, <1>5, Zenon DEF Grows

\* What was true of a message and of a session stays true then.
LEMMA SoundGrows ==
  ASSUME NEW S, NEW G, NEW H, Grows(G, H), NEW a \in Seats, NEW m \in Messages, Sound(a, m, S, G)
  PROVE  Sound(a, m, S, H)
<1>1. PICK L, K : L = Len(G[a]) /\ K = Len(H[a])
  OBVIOUS
<1>2. L \in Nat /\ K \in Nat /\ L <= K /\ \A k \in 1 .. L : H[a][k] = G[a][k]
  <2>1. G[a] \in Seq(Seats) /\ H[a] \in Seq(Seats)
    BY DEF Grows
  <2>2. L \in Nat /\ K \in Nat
    BY <1>1, <2>1
  <2>3. L <= K /\ \A k \in 1 .. L : H[a][k] = G[a][k]
    BY <1>1, Zenon DEF Grows
  <2> QED  BY <2>2, <2>3
<1>3. ASSUME m.type = "Turn" PROVE m.turn < K /\ m.by = H[a][m.turn + 1]
  <2>1. m.turn \in Nat /\ m.turn < L /\ m.by = G[a][m.turn + 1]
    BY <1>1, <1>3 DEF Messages, Sound
  <2>2. m.turn + 1 \in 1 .. L
    BY <1>2, <2>1
  <2> QED  BY <1>2, <2>1, <2>2
<1>4. ASSUME m.type = "Accept" PROVE m.next <= K
  <2>1. m.next \in Nat /\ m.next <= L
    BY <1>1, <1>4 DEF Messages, Sound
  <2> QED  BY <2>1, <1>2
<1>5. ASSUME m.type = "Resume"
      PROVE  m.turn <= K /\ \A k \in 1 .. K : k <= m.turn => H[a][k] # a
  <2>1. m.turn \in Nat /\ m.turn <= L
    BY <1>1, <1>5 DEF Messages, Sound
  <2>2. ASSUME NEW k \in 1 .. K, k <= m.turn PROVE H[a][k] # a
    <3>1. k \in 1 .. L
      BY <2>1, <2>2, <1>2
    <3>2. G[a][k] # a
      BY <3>1, <2>2, <1>1, <1>5, Zenon DEF Sound
    <3> QED  BY <3>1, <3>2, <1>2
  <2> QED  BY <2>1, <2>2, <1>2
<1> QED  BY <1>1, <1>3, <1>4, <1>5, Zenon DEF Sound

LEMMA SessionGrows ==
  ASSUME NEW G, NEW H, Grows(G, H), NEW g \in Seats, NEW t, SessionOK(g, t, G)
  PROVE  SessionOK(g, t, H)
<1>1. ASSUME NEW s \in DOMAIN t.answers, t.answers[s].accepted
      PROVE  t.answers[s].next <= Len(H[s])
  <2>1. s \in Seats /\ t.answers[s] \in Answers
    BY <1>1 DEF SessionOK, Draft, Sessions
  <2>2. t.answers[s].next \in Nat
    BY <2>1, <1>1 DEF Answers
  <2>3. Len(G[s]) \in Nat /\ Len(H[s]) \in Nat /\ Len(G[s]) <= Len(H[s])
    BY <2>1, SMT DEF Grows
  <2>4. t.answers[s].next <= Len(G[s])
    BY <1>1, Zenon DEF SessionOK, Draft
  <2> QED  BY <2>2, <2>3, <2>4
<1> QED  BY <1>1, Zenon DEF SessionOK, Draft

\* What ends with the turns from n on ends with those from the next one on.
LEMMA EndsLater ==
  ASSUME NEW q \in Seq(Messages), NEW i \in Nat, NEW h \in Seats, NEW n \in Nat,
         NEW G \in [Seats -> Seq(Seats)], Ends(q, i, h, n, G)
  PROVE  Ends(q, i, h, n + 1, G)
<1>1. PICK L, K : L = Len(G[h]) /\ K = Len(q)
  OBVIOUS
<1>2. L \in Nat /\ K \in Nat
  BY <1>1
<1>3. L - n <= K - i
      /\ \A k \in 1 .. L : n < k => q[K - L + k] = [type |-> "Turn", turn |-> k - 1, by |-> G[h][k]]
  BY <1>1, Zenon DEF Ends
<1>4. L - (n + 1) <= K - i
  BY <1>2, <1>3
<1>5. \A k \in 1 .. L : n + 1 < k => n < k
  BY <1>2
<1> QED  BY <1>1, <1>3, <1>4, <1>5, Zenon DEF Ends

\* And still does when the first of it is read.
LEMMA EndsTaken ==
  ASSUME NEW q \in Seq(Messages), q # <<>>, NEW i \in Nat, NEW h \in Seats, NEW n \in Nat,
         NEW G \in [Seats -> Seq(Seats)], Ends(q, i, h, n, G)
  PROVE  Ends(Tail(q), IF i = 0 THEN 0 ELSE i - 1, h, n + 1, G)
<1>1. PICK L, K : L = Len(G[h]) /\ K = Len(q)
  OBVIOUS
<1>2. L \in Nat /\ K \in Nat \ {0} /\ Len(Tail(q)) = K - 1
      /\ \A j \in 1 .. K - 1 : Tail(q)[j] = q[j + 1]
  <2>1. L \in Nat
    BY <1>1
  <2> QED  BY <1>1, <2>1, TailAt
<1>3. L - n <= K - i
      /\ \A k \in 1 .. L : n < k => q[K - L + k] = [type |-> "Turn", turn |-> k - 1, by |-> G[h][k]]
  BY <1>1, Zenon DEF Ends
<1>4. L - (n + 1) <= (K - 1) - (IF i = 0 THEN 0 ELSE i - 1)
  BY <1>2, <1>3
<1>5. ASSUME NEW k \in 1 .. L, n + 1 < k
      PROVE  Tail(q)[K - 1 - L + k] = [type |-> "Turn", turn |-> k - 1, by |-> G[h][k]]
  <2>1. K - 1 - L + k \in 1 .. K - 1 /\ (K - 1 - L + k) + 1 = K - L + k /\ n < k
    BY <1>2, <1>3, <1>5
  <2>2. Tail(q)[K - 1 - L + k] = q[K - L + k]
    BY <2>1, <1>2
  <2> QED  BY <2>1, <2>2, <1>3, <1>5
<1> QED  BY <1>1, <1>2, <1>4, <1>5, Zenon DEF Ends

\* Only the turns of h count.
LEMMA EndsSame ==
  ASSUME NEW q, NEW i, NEW h, NEW n, NEW G, NEW H, H[h] = G[h], Ends(q, i, h, n, G)
  PROVE  Ends(q, i, h, n, H)
BY Zenon DEF Ends

\* The first message from s to g is read.
Heard(s, g, N, M) ==
  /\ M \in Lines /\ N[s][g] # <<>> /\ M[s][g] = Tail(N[s][g])
  /\ \A a, b \in Seats : a # s \/ b # g => M[a][b] = N[a][b]

LEMMA HeardFacts ==
  ASSUME NEW N \in Lines, NEW s \in Seats, NEW g \in Seats, N[s][g] # <<>>,
         NEW M, M = [N EXCEPT ![s][g] = Tail(@)]
  PROVE  Heard(s, g, N, M)
<1>1. N[s] \in [Seats -> Seq(Messages)] /\ N[s][g] \in Seq(Messages)
  BY DEF Lines
<1>2. Tail(N[s][g]) \in Seq(Messages)
  BY <1>1, TailAt
<1>3. M = [N EXCEPT ![s] = [N[s] EXCEPT ![g] = Tail(N[s][g])]]
  OBVIOUS
<1>4. [N[s] EXCEPT ![g] = Tail(N[s][g])] \in [Seats -> Seq(Messages)]
  BY <1>1, <1>2
<1>5. M \in Lines /\ M[s][g] = Tail(N[s][g])
  BY <1>1, <1>3, <1>4 DEF Lines
<1>6. ASSUME NEW a \in Seats, NEW b \in Seats, a # s \/ b # g PROVE M[a][b] = N[a][b]
  BY <1>1, <1>3, <1>6 DEF Lines
<1> QED  BY <1>5, <1>6, Zenon DEF Heard

\* What is still under way was under way, one place behind.
LEMMA HeardMessage ==
  ASSUME NEW N \in Lines, NEW s \in Seats, NEW g \in Seats, NEW M, Heard(s, g, N, M),
         NEW a \in Seats, NEW b \in Seats, NEW i \in DOMAIN M[a][b]
  PROVE  /\ M[a][b][i] \in Messages
         /\ a = s /\ b = g => i + 1 \in DOMAIN N[a][b] /\ M[a][b][i] = N[a][b][i + 1]
         /\ a # s \/ b # g => i \in DOMAIN N[a][b] /\ M[a][b][i] = N[a][b][i]
<1>1. M[a][b] \in Seq(Messages) /\ N[a][b] \in Seq(Messages)
  BY DEF Lines, Heard
<1>2. CASE a = s /\ b = g
  <2>1. PICK q : q = N[s][g]
    OBVIOUS
  <2>2. q \in Seq(Messages) /\ q # <<>> /\ M[a][b] = Tail(q)
    BY <1>1, <1>2, <2>1 DEF Heard
  <2>3. Len(q) \in Nat \ {0} /\ Len(Tail(q)) = Len(q) - 1 /\ Tail(q) \in Seq(Messages)
        /\ \A j \in 1 .. Len(q) - 1 : Tail(q)[j] = q[j + 1]
    BY <2>2, TailAt
  <2>4. i \in 1 .. Len(q) - 1
    BY <2>2, <2>3
  <2>5. i + 1 \in DOMAIN q /\ Tail(q)[i] = q[i + 1]
    BY <2>2, <2>3, <2>4
  <2> QED  BY <1>1, <1>2, <2>1, <2>2, <2>5
<1>3. CASE a # s \/ b # g
  <2>1. M[a][b] = N[a][b]
    BY <1>3, Zenon DEF Heard
  <2> QED  BY <1>1, <1>3, <2>1
<1> QED  BY <1>2, <1>3, Zenon

\* A guest takes the turn that it lacked, from its host or from whom it asked for it.
LEMMA TurnKeeps ==
  ASSUME world \in Worlds, MigrationAssumption,
         NEW S, NEW G, NEW C, NEW A, NEW O, NEW N, IInvAt(S, G, C, A, O, N),
         NEW g \in Seats, NEW s \in Seats, NEW M, Heard(s, g, N, M), NEW m, m = Head(N[s][g]),
         TakesAt(g, s, m, S, G), NEW H, Gains(g, m.by, G, H), Grows(G, H)
  PROVE  IInvAt(S, H, C, A, O, M)
<1>0. MaxTurns \in Nat
  BY WorldFacts
<1>1. TypesAt(S, G, C, A, O, N)
  BY Zenon DEF IInvAt
<1>2. S \in [Seats -> Sessions] /\ G \in [Seats -> Seq(Seats)] /\ N \in Lines
  BY <1>1, Zenon DEF TypesAt
<1>3. PICK q : q = N[s][g]
  OBVIOUS
<1>4. PICK n : n = Len(G[g])
  OBVIOUS
<1>5. q \in Seq(Messages) /\ q # <<>> /\ n \in Nat
  <2>1. N[s][g] \in Seq(Messages) /\ G[g] \in Seq(Seats)
    BY <1>2 DEF Lines
  <2>2. N[s][g] # <<>>
    BY Zenon DEF Heard
  <2> QED  BY <2>1, <2>2, <1>3, <1>4
<1>6. m = q[1] /\ m \in Messages /\ 1 \in DOMAIN q
  <2>1. Head(q) = q[1] /\ Head(q) \in Messages /\ Len(q) \in Nat \ {0}
    BY <1>5, TailAt
  <2>2. 1 \in DOMAIN q
    BY <1>5, <2>1
  <2> QED  BY <2>1, <2>2, <1>3
<1>7. Sound(s, m, S, G)
  BY <1>3, <1>6, Zenon DEF IInvAt
<1>8. m.type = "Turn" /\ m.turn = n /\ n < Len(G[s]) /\ m.by = G[s][n + 1]
  BY <1>4, <1>7, Zenon DEF Sound, TakesAt
<1>9. Len(G[s]) \in Nat /\ n + 1 \in 1 .. Len(G[s])
  <2>1. G[s] \in Seq(Seats)
    BY <1>2, Zenon
  <2>2. Len(G[s]) \in Nat
    BY <2>1
  <2> QED  BY <2>2, <1>5, <1>8
<1>12. H \in [Seats -> Seq(Seats)] /\ Len(H[g]) = n + 1 /\ H[g][n + 1] = m.by
       /\ \A k \in 1 .. n : H[g][k] = G[g][k]
  BY <1>4, Zenon DEF Gains
<1>13. \A x \in Seats \ {g} : H[x] = G[x]
  BY Zenon DEF Gains
<1>14. s # g
  BY <1>1, Zenon DEF TypesAt, Heard
<1>15. C[g] = {} /\ S[g].mode # "Host"
  <2>1. S[g].mode # "Host"
    BY DEF TakesAt
  <2> QED  BY <2>1, Zenon DEF IInvAt, HostAt
<1>16. TypesAt(S, H, C, A, O, M)
  <2>1. ASSUME NEW a \in Seats PROVE M[a][a] = <<>>
    BY <1>1, <1>14, Zenon DEF TypesAt, Heard
  <2>2. M \in Lines
    BY Zenon DEF Heard
  <2> QED  BY <1>1, <1>12, <2>1, <2>2, Zenon DEF TypesAt
<1>17. ASSUME NEW x \in Seats PROVE SessionOK(x, S[x], H)
  <2>1. SessionOK(x, S[x], G)
    BY Zenon DEF IInvAt
  <2> QED  BY <2>1, SessionGrows, Zenon
<1>18. ASSUME NEW x \in Seats PROVE HostAt(x, S, C)
  BY Zenon DEF IInvAt
<1>19. ASSUME NEW x \in Seats PROVE TurnsAt(x, S, H)
  <2>1. TurnsAt(x, S, G) /\ TurnsAt(s, S, G)
    BY Zenon DEF IInvAt
  <2>2. CASE x # g
    BY <2>1, <2>2, <1>13, Zenon DEF TurnsAt
  <2>3. CASE x = g
    <3>1. n + 1 <= MaxTurns
      BY <2>1, <1>0, <1>8, <1>9, <1>5 DEF TurnsAt
    <3>2. ASSUME NEW k \in 1 .. n + 1 PROVE S[H[g][k]].mode = "Host"
      <4>1. CASE k \in 1 .. n
        BY <4>1, <2>1, <2>3, <1>4, <1>12, Zenon DEF TurnsAt
      <4>2. CASE k = n + 1
        <5>1. H[g][k] = G[s][n + 1]
          BY <4>2, <1>8, <1>12, Zenon
        <5>2. S[G[s][n + 1]].mode = "Host"
          BY <2>1, <1>9, Zenon DEF TurnsAt
        <5> QED  BY <5>1, <5>2, Zenon
      <4> QED  BY <4>1, <4>2, <3>2, <1>5
    <3> QED  BY <3>1, <3>2, <2>3, <1>12, Zenon DEF TurnsAt
  <2> QED  BY <2>2, <2>3, Zenon
<1>20. ASSUME NEW x \in Seats PROVE OwnAt(x, S, H)
  <2>1. OwnAt(x, S, G)
    BY Zenon DEF IInvAt
  <2>2. SUFFICES ASSUME S[x].mode = "Normal" PROVE OwnAt(x, S, H)
    BY Zenon DEF OwnAt
  <2>3. PICK h \in Seats : h = S[x].host
    BY <1>2 DEF Sessions
  <2>4. h # g
    <3>1. HostAt(x, S, C)
      BY <1>18
    <3>2. S[h].mode = "Host"
      BY <3>1, <2>2, <2>3, Zenon DEF HostAt
    <3> QED  BY <3>2, <1>15, Zenon
  <2>5. H[h] = G[h]
    BY <2>4, <1>13
  <2>6. CASE x # g
    BY <2>1, <2>3, <2>5, <2>6, <1>13, Zenon DEF OwnAt
  <2>7. CASE x = g
    <3>1. h = s
      BY <2>2, <2>3, <2>7, Zenon DEF TakesAt
    <3>2. n + 1 <= Len(G[s])
      BY <1>5, <1>8, <1>9
    <3>3. ASSUME NEW k \in 1 .. n + 1, G[s][k] = s PROVE H[g][k] = s
      <4>1. CASE k \in 1 .. n
        <5>1. G[g][k] = s
          BY <4>1, <3>3, <3>1, <2>1, <2>2, <2>3, <2>7, <1>4, Zenon DEF OwnAt
        <5> QED  BY <5>1, <4>1, <1>12
      <4>2. CASE k = n + 1
        BY <4>2, <3>3, <1>8, <1>12
      <4> QED  BY <4>1, <4>2, <3>3, <1>5
    <3>4. S[g].host = s /\ H[s] = G[s]
      BY <3>1, <2>3, <2>5, <2>7, Zenon
    <3>5. OwnAt(g, S, H)
      BY <3>2, <3>3, <3>4, <1>12, Zenon DEF OwnAt
    <3> QED  BY <3>5, <2>7, Zenon
  <2> QED  BY <2>6, <2>7, Zenon
<1>21. ASSUME NEW a \in Seats, NEW b \in Seats, NEW i \in DOMAIN M[a][b]
       PROVE  Sound(a, M[a][b][i], S, H)
  <2>1. M[a][b][i] \in Messages
        /\ (a = s /\ b = g => i + 1 \in DOMAIN N[a][b] /\ M[a][b][i] = N[a][b][i + 1])
        /\ (a # s \/ b # g => i \in DOMAIN N[a][b] /\ M[a][b][i] = N[a][b][i])
    BY <1>2, <1>21, HeardMessage
  <2>2. Sound(a, M[a][b][i], S, G)
    BY <2>1, Zenon DEF IInvAt
  <2> QED  BY <2>1, <2>2, SoundGrows, Zenon
<1>22. ASSUME NEW h \in Seats, NEW x \in Seats PROVE Stream(h, x, S, H, C, A, O, M)
  <2>1. SUFFICES ASSUME Served(h, x, C, A, O) PROVE Stream(h, x, S, H, C, A, O, M)
    BY Zenon DEF Stream
  <2>2. Stream(h, x, S, G, C, A, O, N)
    BY Zenon DEF IInvAt
  <2>3. h # g
    BY <2>1, <1>15 DEF Served
  <2>4. H[h] = G[h]
    BY <2>3, <1>13
  <2>5. CASE x # g
    <3>1. M[h][x] = N[h][x] /\ H[x] = G[x]
      BY <2>5, <1>13, Zenon DEF Heard
    <3>2. ASSUME S[x].mode = "Normal", S[x].host = h PROVE Ends(M[h][x], 0, h, Len(H[x]), H)
      BY <3>1, <3>2, <2>1, <2>2, <2>4, EndsSame, Zenon DEF Stream
    <3>3. ASSUME S[x].mode \notin {"Host", "Lost"}, NEW i \in DOMAIN M[h][x],
                 M[h][x][i].type = "Resume", Len(H[x]) <= M[h][x][i].turn
          PROVE  Ends(M[h][x], i, h, Len(H[x]), H)
      BY <3>1, <3>3, <2>1, <2>2, <2>4, EndsSame, Zenon DEF Stream
    <3> QED  BY <3>2, <3>3, Zenon DEF Stream
  <2>6. CASE x = g /\ h # s
    <3>1. M[h][g] = N[h][g] /\ N[h][g] \in Seq(Messages)
      BY <2>6, <1>2 DEF Heard, Lines
    <3>2. ~(S[g].mode = "Normal" /\ S[g].host = h)
      BY <2>6 DEF TakesAt
    <3>3. ASSUME S[g].mode \notin {"Host", "Lost"}, NEW i \in DOMAIN M[h][g],
                 M[h][g][i].type = "Resume", n + 1 <= M[h][g][i].turn
          PROVE  Ends(M[h][g], i, h, n + 1, H)
      <4>1. N[h][g][i] \in Messages /\ i \in Nat
        BY <3>1, <3>3
      <4>2. N[h][g][i].turn \in Nat /\ N[h][g][i].type = "Resume"
        BY <4>1, <3>1, <3>3 DEF Messages
      <4>3. n <= N[h][g][i].turn
        BY <4>2, <3>1, <3>3, <1>5
      <4>4. Ends(N[h][g], i, h, n, G)
        BY <4>2, <4>3, <3>1, <3>3, <2>1, <2>2, <2>6, <1>4, Zenon DEF Stream
      <4>5. Ends(N[h][g], i, h, n + 1, G)
        BY <4>1, <4>4, <3>1, <1>2, <1>5, EndsLater
      <4> QED  BY <4>5, <3>1, <2>4, EndsSame, Zenon
    <3> QED  BY <3>2, <3>3, <2>6, <1>12, Zenon DEF Stream
  <2>7. CASE x = g /\ h = s
    <3>1. M[s][g] = Tail(q)
      BY <1>3, Zenon DEF Heard
    <3>2. ASSUME S[g].mode = "Normal", S[g].host = s PROVE Ends(Tail(q), 0, s, n + 1, H)
      <4>1. Ends(q, 0, s, n, G)
        BY <3>2, <2>1, <2>2, <2>7, <1>3, <1>4, Zenon DEF Stream
      <4>2. Ends(Tail(q), IF 0 = 0 THEN 0 ELSE 0 - 1, s, n + 1, G)
        BY <4>1, <1>2, <1>5, EndsTaken
      <4> QED  BY <4>2, <2>4, <2>7, EndsSame
    <3>3. ASSUME S[g].mode \notin {"Host", "Lost"}, NEW i \in DOMAIN Tail(q),
                 Tail(q)[i].type = "Resume", n + 1 <= Tail(q)[i].turn
          PROVE  Ends(Tail(q), i, s, n + 1, H)
      <4>1. Tail(q) \in Seq(Messages) /\ Len(q) \in Nat \ {0} /\ Len(Tail(q)) = Len(q) - 1
            /\ \A j \in 1 .. Len(q) - 1 : Tail(q)[j] = q[j + 1]
        BY <1>5, TailAt
      <4>2. i \in 1 .. Len(q) - 1 /\ Tail(q)[i] = q[i + 1] /\ i + 1 \in DOMAIN q
        BY <4>1, <3>3, <1>5
      <4>3. q[i + 1] \in Messages /\ q[i + 1].type = "Resume" /\ n + 1 <= q[i + 1].turn
        BY <4>2, <3>3, <1>5
      <4>4. q[i + 1].turn \in Nat
        BY <4>3 DEF Messages
      <4>5. n <= q[i + 1].turn
        BY <4>3, <4>4, <1>5
      <4>6. Ends(q, i + 1, s, n, G)
        BY <4>2, <4>3, <4>5, <3>3, <2>1, <2>2, <2>7, <1>3, <1>4, Zenon DEF Stream
      <4>7. i + 1 \in Nat /\ (IF i + 1 = 0 THEN 0 ELSE (i + 1) - 1) = i
        BY <4>2
      <4>8. Ends(Tail(q), IF i + 1 = 0 THEN 0 ELSE (i + 1) - 1, s, n + 1, G)
        BY <4>6, <4>7, <1>2, <1>5, EndsTaken
      <4>9. Ends(Tail(q), i, s, n + 1, G)
        BY <4>7, <4>8
      <4> QED  BY <4>9, <2>4, <2>7, EndsSame, Zenon
    <3> QED  BY <3>1, <3>2, <3>3, <2>7, <1>12, Zenon DEF Stream
  <2> QED  BY <2>5, <2>6, <2>7, Zenon
<1> QED  BY <1>16, <1>17, <1>18, <1>19, <1>20, <1>21, <1>22, Zenon DEF IInvAt
------------------------------------------------------------------------------
(* Who gets a host *)

\* What is known of the hosts does not change while these stay what they are.
LEMMA SameHosts ==
  ASSUME NEW S, NEW S2, NEW G \in [Seats -> Seq(Seats)],
         \A x \in Seats : S[x].mode = "Host" => S2[x] = S[x]
  PROVE  /\ \A a \in Seats : \A m : Sound(a, m, S, G) => Sound(a, m, S2, G)
         /\ \A x \in Seats : TurnsAt(x, S, G) => TurnsAt(x, S2, G)
<1>1. ASSUME NEW a \in Seats, NEW m, Sound(a, m, S, G) PROVE Sound(a, m, S2, G)
  BY <1>1, Zenon DEF Sound
<1>2. ASSUME NEW x \in Seats, TurnsAt(x, S, G) PROVE TurnsAt(x, S2, G)
  <2>1. ASSUME NEW k \in 1 .. Len(G[x]) PROVE S2[G[x][k]].mode = "Host"
    <3>1. G[x] \in Seq(Seats)
      OBVIOUS
    <3>2. G[x][k] \in Seats
      BY <3>1, <2>1
    <3> QED  BY <3>2, <1>2, <2>1, Zenon DEF TurnsAt
  <2> QED  BY <1>2, <2>1, Zenon DEF TurnsAt
<1> QED  BY <1>1, <1>2, Zenon

\* A guest takes the word of the one that is host now.
LEMMA JoinKeeps ==
  ASSUME NEW S, NEW G, NEW C, NEW A, NEW O, NEW N, IInvAt(S, G, C, A, O, N),
         NEW g \in Seats, NEW s \in Seats, NEW M, Heard(s, g, N, M), NEW m, m = Head(N[s][g]),
         m.type = "Resume", S[g].mode \notin {"Host", "Lost"}, Len(G[g]) <= m.turn,
         NEW t, SessionOK(g, t, G), t.mode = "Normal", t.host = s, t.epoch = m.epoch,
         NEW S2, S2 = [S EXCEPT ![g] = t]
  PROVE  IInvAt(S2, G, C, A, O, M)
<1>1. TypesAt(S, G, C, A, O, N)
  BY Zenon DEF IInvAt
<1>2. S \in [Seats -> Sessions] /\ G \in [Seats -> Seq(Seats)] /\ N \in Lines /\ t \in Sessions
  BY <1>1, Zenon DEF TypesAt, SessionOK, Draft
<1>3. S2 \in [Seats -> Sessions] /\ S2[g] = t /\ \A x \in Seats \ {g} : S2[x] = S[x]
  BY <1>2
<1>4. \A x \in Seats : S[x].mode = "Host" => S2[x] = S[x]
  BY <1>3
<1>5. PICK q : q = N[s][g]
  OBVIOUS
<1>6. PICK n : n = Len(G[g])
  OBVIOUS
<1>7. q \in Seq(Messages) /\ q # <<>> /\ n \in Nat
  <2>1. N[s][g] \in Seq(Messages) /\ G[g] \in Seq(Seats)
    BY <1>2 DEF Lines
  <2>2. N[s][g] # <<>>
    BY Zenon DEF Heard
  <2> QED  BY <2>1, <2>2, <1>5, <1>6
<1>8. m = q[1] /\ m \in Messages /\ 1 \in DOMAIN q
  <2>1. Head(q) = q[1] /\ Head(q) \in Messages /\ Len(q) \in Nat \ {0}
    BY <1>7, TailAt
  <2>2. 1 \in DOMAIN q
    BY <1>7, <2>1
  <2> QED  BY <2>1, <2>2, <1>5
<1>9. Sound(s, m, S, G)
  BY <1>5, <1>8, Zenon DEF IInvAt
<1>10. S[s].mode = "Host" /\ S[s].epoch = m.epoch /\ m.turn <= Len(G[s])
       /\ \A k \in 1 .. Len(G[s]) : k <= m.turn => G[s][k] # s
  BY <1>9, Zenon DEF Sound
<1>11. s # g /\ S2[s] = S[s]
  BY <1>4, <1>10
<1>12. m.turn \in Nat /\ Len(G[s]) \in Nat
  <2>1. G[s] \in Seq(Seats)
    BY <1>2, Zenon
  <2> QED  BY <2>1, <1>8 DEF Messages
<1>13. TypesAt(S2, G, C, A, O, M)
  <2>1. ASSUME NEW a \in Seats PROVE M[a][a] = <<>>
    <3>1. a # s \/ a # g
      BY <1>11
    <3>2. M[a][a] = N[a][a]
      BY <3>1, Zenon DEF Heard
    <3> QED  BY <3>2, <1>1, Zenon DEF TypesAt
  <2>2. M \in Lines
    BY Zenon DEF Heard
  <2> QED  BY <1>1, <1>3, <2>1, <2>2, Zenon DEF TypesAt
<1>14. ASSUME NEW x \in Seats PROVE SessionOK(x, S2[x], G)
  BY <1>3, <1>14, Zenon DEF IInvAt
<1>15. ASSUME NEW x \in Seats PROVE HostAt(x, S2, C)
  <2>1. HostAt(x, S, C) /\ HostAt(s, S, C)
    BY Zenon DEF IInvAt
  <2>2. CASE x = g
    <3>1. C[g] = {}
      BY <2>1, <2>2, Zenon DEF HostAt
    <3>2. ASSUME NEW e \in Nat, e <= t.epoch
          PROVE  \E h \in Seats : S2[h].mode = "Host" /\ S2[h].epoch = e
      <4>1. e <= S[s].epoch
        BY <3>2, <1>10
      <4>2. PICK h \in Seats : S[h].mode = "Host" /\ S[h].epoch = e
        BY <4>1, <2>1, Zenon DEF HostAt
      <4> QED  BY <4>2, <1>4, Zenon
    <3>3. t.mode # "Host" /\ t.host # g /\ S2[t.host].mode = "Host"
      BY <1>10, <1>11
    <3>4. HostAt(g, S2, C)
      BY <3>1, <3>2, <3>3, <1>3, Zenon DEF HostAt
    <3> QED  BY <3>4, <2>2
  <2>3. CASE x # g
    <3>1. S2[x] = S[x] /\ S[x].host \in Seats
      BY <2>3, <1>2, <1>3 DEF Sessions
    <3>2. S[x].mode = "Normal" => S[x].host # x /\ S2[S[x].host].mode = "Host"
      BY <2>1, <3>1, <1>4, Zenon DEF HostAt
    <3>3. ASSUME NEW e \in Nat, e <= S[x].epoch
          PROVE  \E h \in Seats : S2[h].mode = "Host" /\ S2[h].epoch = e
      <4>1. PICK h \in Seats : S[h].mode = "Host" /\ S[h].epoch = e
        BY <3>3, <2>1, Zenon DEF HostAt
      <4> QED  BY <4>1, <1>4, Zenon
    <3> QED  BY <3>1, <3>2, <3>3, <2>1, Zenon DEF HostAt
  <2> QED  BY <2>2, <2>3, Zenon
<1>16. ASSUME NEW x \in Seats PROVE TurnsAt(x, S2, G)
  BY <1>2, <1>4, SameHosts, Zenon DEF IInvAt
<1>17. ASSUME NEW x \in Seats PROVE OwnAt(x, S2, G)
  <2>1. CASE x = g
    <3>1. n <= Len(G[s])
      BY <1>6, <1>7, <1>10, <1>12
    <3>2. ASSUME NEW k \in 1 .. n PROVE G[s][k] # s
      <4>1. k \in 1 .. Len(G[s]) /\ k <= m.turn
        BY <3>1, <1>6, <1>7, <1>12
      <4> QED  BY <4>1, <1>10
    <3>3. S2[g].host = s
      BY <1>3
    <3>4. OwnAt(g, S2, G)
      BY <3>1, <3>2, <3>3, <1>6, Zenon DEF OwnAt
    <3> QED  BY <3>4, <2>1, Zenon
  <2>2. CASE x # g
    <3>1. S2[x] = S[x]
      BY <2>2, <1>3
    <3>2. OwnAt(x, S, G)
      BY Zenon DEF IInvAt
    <3> QED  BY <3>1, <3>2, Zenon DEF OwnAt
  <2> QED  BY <2>1, <2>2, Zenon
<1>18. ASSUME NEW a \in Seats, NEW b \in Seats, NEW i \in DOMAIN M[a][b]
       PROVE  Sound(a, M[a][b][i], S2, G)
  <2>1. (a = s /\ b = g => i + 1 \in DOMAIN N[a][b] /\ M[a][b][i] = N[a][b][i + 1])
        /\ (a # s \/ b # g => i \in DOMAIN N[a][b] /\ M[a][b][i] = N[a][b][i])
    BY <1>2, <1>18, HeardMessage
  <2>2. Sound(a, M[a][b][i], S, G)
    BY <2>1, Zenon DEF IInvAt
  <2> QED  BY <2>2, <1>2, <1>4, SameHosts, Zenon
<1>19. ASSUME NEW h \in Seats, NEW x \in Seats PROVE Stream(h, x, S2, G, C, A, O, M)
  <2>1. SUFFICES ASSUME Served(h, x, C, A, O) PROVE Stream(h, x, S2, G, C, A, O, M)
    BY Zenon DEF Stream
  <2>2. Stream(h, x, S, G, C, A, O, N)
    BY Zenon DEF IInvAt
  <2>3. CASE x # g
    <3>1. M[h][x] = N[h][x] /\ S2[x] = S[x]
      BY <2>3, <1>3, Zenon DEF Heard
    <3> QED  BY <3>1, <2>2, Zenon DEF Stream
  <2>4. CASE x = g /\ h # s
    <3>1. M[h][g] = N[h][g] /\ S2[g].host # h
      BY <2>4, <1>3 DEF Heard
    <3> QED  BY <3>1, <2>1, <2>2, <2>4, Zenon DEF Stream
  <2>5. CASE x = g /\ h = s
    <3>1. M[s][g] = Tail(q)
      BY <1>5, Zenon DEF Heard
    <3>2. n <= Len(G[s])
      BY <1>6, <1>7, <1>10, <1>12
    <3>3. Ends(q, 1, s, n, G)
      BY <1>5, <1>6, <1>8, <2>1, <2>2, <2>5, Zenon DEF Stream
    <3>4. Ends(Tail(q), IF 1 = 0 THEN 0 ELSE 1 - 1, s, n, G)
      <4>1. 1 \in Nat /\ 1 > 0
        OBVIOUS
      <4> QED  BY <4>1, <3>2, <3>3, <1>2, <1>7, EndsTail, Zenon
    <3>5. Ends(Tail(q), 0, s, n, G)
      BY <3>4
    <3>6. ASSUME NEW i \in DOMAIN Tail(q), Tail(q)[i].type = "Resume", n <= Tail(q)[i].turn
          PROVE  Ends(Tail(q), i, s, n, G)
      <4>1. Tail(q) \in Seq(Messages) /\ Len(q) \in Nat \ {0} /\ Len(Tail(q)) = Len(q) - 1
            /\ \A j \in 1 .. Len(q) - 1 : Tail(q)[j] = q[j + 1]
        BY <1>7, TailAt
      <4>2. i \in 1 .. Len(q) - 1 /\ Tail(q)[i] = q[i + 1] /\ i + 1 \in DOMAIN q
        BY <4>1, <3>6, <1>7
      <4>3. q[i + 1].type = "Resume" /\ n <= q[i + 1].turn
        BY <4>2, <3>6
      <4>4. Ends(q, i + 1, s, n, G)
        BY <4>2, <4>3, <2>1, <2>2, <2>5, <1>5, <1>6, Zenon DEF Stream
      <4>5. i + 1 \in Nat /\ i + 1 > 0 /\ (IF i + 1 = 0 THEN 0 ELSE (i + 1) - 1) = i
        BY <4>2
      <4>6. Ends(Tail(q), IF i + 1 = 0 THEN 0 ELSE (i + 1) - 1, s, n, G)
        BY <4>4, <4>5, <3>2, <1>2, <1>7, EndsTail
      <4> QED  BY <4>5, <4>6
    <3> QED  BY <3>1, <3>5, <3>6, <2>5, <1>6, Zenon DEF Stream
  <2> QED  BY <2>3, <2>4, <2>5, Zenon
<1> QED  BY <1>13, <1>14, <1>15, <1>16, <1>17, <1>18, <1>19, Zenon DEF IInvAt

\* The queues are M when g takes over and tells F
TellsTrueOf(g, M, S, G) == \A b \in Seats : \A i \in DOMAIN M[g][b] : Sound(g, M[g][b][i], S, G)
TellsAll(g, F, M, S, G, O) ==
  \A b \in Seats : \A i \in DOMAIN M[g][b] :
    /\ b \in F /\ {g, b} \in O /\ S[b].mode \notin {"Host", "Lost"}
    /\ M[g][b][i].type = "Resume" /\ Len(G[b]) <= M[g][b][i].turn
    => Ends(M[g][b], i, g, Len(G[b]), G)
HearsNothing(g, N, M) ==
  \A a \in Seats \ {g} : \A b \in Seats : M[a][b] = IF b = g THEN <<>> ELSE N[a][b]

\* A machine becomes host of those that it told so.
LEMMA PromoteKeeps ==
  ASSUME NEW S, NEW G, NEW C, NEW A, NEW O, NEW N, IInvAt(S, G, C, A, O, N),
         NEW g \in Seats, S[g].mode # "Host",
         NEW t, SessionOK(g, t, G), t.mode = "Host", t.host = g, t.epoch = S[g].epoch + 1,
         NEW S2, S2 = [S EXCEPT ![g] = t],
         NEW F \in SUBSET Seats, NEW D, D = [C EXCEPT ![g] = F],
         NEW M \in Lines, M[g][g] = <<>>,
         HearsNothing(g, N, M), TellsTrueOf(g, M, S2, G), TellsAll(g, F, M, S, G, O)
  PROVE  IInvAt(S2, G, D, A, O, M)
<1>1. TypesAt(S, G, C, A, O, N)
  BY Zenon DEF IInvAt
<1>13. \A a \in Seats \ {g} : \A b \in Seats : M[a][b] = IF b = g THEN <<>> ELSE N[a][b]
  BY DEF HearsNothing
<1>2. S \in [Seats -> Sessions] /\ G \in [Seats -> Seq(Seats)] /\ N \in Lines /\ t \in Sessions
      /\ C \in [Seats -> SUBSET Seats]
  BY <1>1, Zenon DEF TypesAt, SessionOK, Draft
<1>3. S2 \in [Seats -> Sessions] /\ S2[g] = t /\ \A x \in Seats \ {g} : S2[x] = S[x]
  BY <1>2
<1>4. \A x \in Seats : S[x].mode = "Host" => S2[x] = S[x]
  BY <1>3
<1>5. D \in [Seats -> SUBSET Seats] /\ D[g] = F /\ \A x \in Seats \ {g} : D[x] = C[x]
  BY <1>2
<1>6. TypesAt(S2, G, D, A, O, M)
  <2>1. ASSUME NEW a \in Seats PROVE M[a][a] = <<>>
    <3>1. CASE a = g
      BY <3>1
    <3>2. CASE a # g
      <4>1. M[a][a] = N[a][a]
        BY <3>2, <1>13
      <4> QED  BY <4>1, <1>1, Zenon DEF TypesAt
    <3> QED  BY <3>1, <3>2, Zenon
  <2> QED  BY <1>1, <1>3, <1>5, <2>1, Zenon DEF TypesAt
<1>7. ASSUME NEW x \in Seats PROVE SessionOK(x, S2[x], G)
  BY <1>3, <1>7, Zenon DEF IInvAt
<1>8. ASSUME NEW x \in Seats PROVE HostAt(x, S2, D)
  <2>1. HostAt(x, S, C) /\ HostAt(g, S, C)
    BY Zenon DEF IInvAt
  <2>2. CASE x = g
    <3>1. S[g].epoch \in Nat
      BY <1>2 DEF Sessions
    <3>2. ASSUME NEW e \in Nat, e <= t.epoch
          PROVE  \E h \in Seats : S2[h].mode = "Host" /\ S2[h].epoch = e
      <4>1. CASE e = t.epoch
        BY <4>1, <1>3
      <4>2. CASE e # t.epoch
        <5>1. e <= S[g].epoch
          BY <4>2, <3>1, <3>2
        <5>2. PICK h \in Seats : S[h].mode = "Host" /\ S[h].epoch = e
          BY <5>1, <2>1, Zenon DEF HostAt
        <5> QED  BY <5>2, <1>4, Zenon
      <4> QED  BY <4>1, <4>2
    <3>3. t.mode # "Normal"
      OBVIOUS
    <3>4. HostAt(g, S2, D)
      BY <3>2, <3>3, <1>3, Zenon DEF HostAt
    <3> QED  BY <3>4, <2>2
  <2>3. CASE x # g
    <3>1. S2[x] = S[x] /\ S[x].host \in Seats /\ D[x] = C[x]
      BY <2>3, <1>2, <1>3, <1>5 DEF Sessions
    <3>2. S[x].mode = "Normal" => S[x].host # x /\ S2[S[x].host].mode = "Host"
      BY <2>1, <3>1, <1>4, Zenon DEF HostAt
    <3>3. ASSUME NEW e \in Nat, e <= S[x].epoch
          PROVE  \E h \in Seats : S2[h].mode = "Host" /\ S2[h].epoch = e
      <4>1. PICK h \in Seats : S[h].mode = "Host" /\ S[h].epoch = e
        BY <3>3, <2>1, Zenon DEF HostAt
      <4> QED  BY <4>1, <1>4, Zenon
    <3> QED  BY <3>1, <3>2, <3>3, <2>1, Zenon DEF HostAt
  <2> QED  BY <2>2, <2>3, Zenon
<1>9. ASSUME NEW x \in Seats PROVE TurnsAt(x, S2, G)
  BY <1>2, <1>4, SameHosts, Zenon DEF IInvAt
<1>10. ASSUME NEW x \in Seats PROVE OwnAt(x, S2, G)
  <2>1. CASE x = g
    <3>1. S2[g].mode # "Normal"
      BY <1>3
    <3> QED  BY <3>1, <2>1, Zenon DEF OwnAt
  <2>2. CASE x # g
    <3>1. S2[x] = S[x]
      BY <2>2, <1>3
    <3>2. OwnAt(x, S, G)
      BY Zenon DEF IInvAt
    <3> QED  BY <3>1, <3>2, Zenon DEF OwnAt
  <2> QED  BY <2>1, <2>2, Zenon
<1>11. ASSUME NEW a \in Seats, NEW b \in Seats, NEW i \in DOMAIN M[a][b]
       PROVE  Sound(a, M[a][b][i], S2, G)
  <2>1. CASE a = g
    BY <2>1, <1>11, Zenon DEF TellsTrueOf
  <2>2. CASE a # g /\ b # g
    <3>1. M[a][b] = N[a][b]
      BY <2>2, <1>13
    <3>2. Sound(a, M[a][b][i], S, G)
      BY <3>1, <1>11, Zenon DEF IInvAt
    <3> QED  BY <3>2, <1>2, <1>4, SameHosts, Zenon
  <2>3. CASE a # g /\ b = g
    <3>1. M[a][b] = <<>>
      BY <2>3, <1>13
    <3> QED  BY <3>1, <1>11
  <2> QED  BY <2>1, <2>2, <2>3, Zenon
<1>12. ASSUME NEW h \in Seats, NEW x \in Seats PROVE Stream(h, x, S2, G, D, A, O, M)
  <2>1. SUFFICES ASSUME Served(h, x, D, A, O) PROVE Stream(h, x, S2, G, D, A, O, M)
    BY Zenon DEF Stream
  <2>2. Stream(h, x, S, G, C, A, O, N)
    BY Zenon DEF IInvAt
  <2>3. h # x
    BY <2>1, <1>1, NoLoop DEF Served
  <2>4. CASE x = g
    <3>1. S2[g].mode = "Host"
      BY <1>3
    <3> QED  BY <3>1, <2>4 DEF Stream
  <2>5. CASE x # g /\ h # g
    <3>1. M[h][x] = N[h][x] /\ S2[x] = S[x] /\ D[h] = C[h]
      BY <2>5, <1>3, <1>5, <1>13
    <3>2. Served(h, x, C, A, O)
      BY <3>1, <2>1, Zenon DEF Served
    <3> QED  BY <3>1, <3>2, <2>2, Zenon DEF Stream
  <2>6. CASE h = g
    <3>1. S2[x] = S[x] /\ x \in F /\ {g, x} \in O
      BY <2>1, <2>3, <2>6, <1>3, <1>5 DEF Served
    <3>2. ~(S[x].mode = "Normal" /\ S[x].host = g)
      <4>1. HostAt(x, S, C)
        BY Zenon DEF IInvAt
      <4> QED  BY <4>1, Zenon DEF HostAt
    <3>3. \A i \in DOMAIN M[g][x] :
            M[g][x][i].type = "Resume" /\ Len(G[x]) <= M[g][x][i].turn
            /\ S2[x].mode \notin {"Host", "Lost"} => Ends(M[g][x], i, g, Len(G[x]), G)
      BY <3>1, Zenon DEF TellsAll
    <3> QED  BY <3>1, <3>2, <3>3, <2>6, Zenon DEF Stream
  <2> QED  BY <2>4, <2>5, <2>6, Zenon
<1> QED  BY <1>6, <1>7, <1>8, <1>9, <1>10, <1>11, <1>12, Zenon DEF IInvAt
------------------------------------------------------------------------------
(* The host, and the world *)

\* What ends with all turns of h still does when h seals one and says it.
LEMMA EndsMore ==
  ASSUME NEW q \in Seq(Messages), NEW i \in Nat, i <= Len(q), NEW h \in Seats, NEW n \in Nat,
         NEW G \in [Seats -> Seq(Seats)], n <= Len(G[h]), Ends(q, i, h, n, G),
         NEW H, Gains(h, h, G, H),
         NEW m \in Messages, m = [type |-> "Turn", turn |-> Len(G[h]), by |-> h]
  PROVE  Ends(Append(q, m), i, h, n, H)
<1>1. PICK L, K : L = Len(G[h]) /\ K = Len(q)
  OBVIOUS
<1>2. L \in Nat /\ K \in Nat /\ Len(Append(q, m)) = K + 1 /\ Append(q, m)[K + 1] = m
      /\ \A j \in 1 .. K : Append(q, m)[j] = q[j]
  <2>1. L \in Nat
    BY <1>1
  <2> QED  BY <2>1, <1>1, AppendProperties
<1>3. L - n <= K - i
      /\ \A k \in 1 .. L : n < k => q[K - L + k] = [type |-> "Turn", turn |-> k - 1, by |-> G[h][k]]
  BY <1>1, Zenon DEF Ends
<1>4. Len(H[h]) = L + 1 /\ H[h][L + 1] = h /\ \A k \in 1 .. L : H[h][k] = G[h][k]
  BY <1>1, Zenon DEF Gains
<1>5. (L + 1) - n <= (K + 1) - i
  BY <1>2, <1>3
<1>6. ASSUME NEW k \in 1 .. L + 1, n < k
      PROVE  Append(q, m)[(K + 1) - (L + 1) + k] = [type |-> "Turn", turn |-> k - 1, by |-> H[h][k]]
  <2>1. CASE k = L + 1
    <3>1. (K + 1) - (L + 1) + k = K + 1 /\ k - 1 = L
      BY <2>1, <1>2
    <3>2. m = [type |-> "Turn", turn |-> k - 1, by |-> H[h][k]]
      BY <3>1, <2>1, <1>1, <1>4
    <3> QED  BY <3>1, <3>2, <1>2
  <2>2. CASE k # L + 1
    <3>1. k \in 1 .. L
      BY <2>2, <1>2, <1>6
    <3>2. K - L + k \in 1 .. K /\ (K + 1) - (L + 1) + k = K - L + k
      BY <3>1, <1>2, <1>3, <1>6
    <3>3. Append(q, m)[K - L + k] = q[K - L + k]
      BY <3>2, <1>2
    <3> QED  BY <3>1, <3>2, <3>3, <1>3, <1>4, <1>6
  <2> QED  BY <2>1, <2>2
<1>7. Len(Append(q, m)) = K + 1
  BY <1>2
<1> QED  BY <1>4, <1>5, <1>6, <1>7, Zenon DEF Ends

\* The queues are M when h has said m to its guests
Says(h, m, M, S, C, O, N) ==
  /\ \A a \in Seats \ {h} : \A b \in Seats : M[a][b] = N[a][b]
  /\ \A b \in Seats : M[h][b] = N[h][b] \/ M[h][b] = Append(N[h][b], m)
  /\ \A b \in Seats : b \in C[h] /\ {h, b} \in O /\ S[b].mode \notin {"Host", "Lost"} =>
                         M[h][b] = Append(N[h][b], m)

\* A host seals a turn and says it to its guests.
LEMMA SealKeeps ==
  ASSUME MaxTurns \in Nat,
         NEW S, NEW G, NEW C, NEW A, NEW O, NEW N, IInvAt(S, G, C, A, O, N),
         NEW h \in Seats, S[h].mode = "Host", Len(G[h]) < MaxTurns,
         NEW H, Gains(h, h, G, H), Grows(G, H),
         NEW m, m = [type |-> "Turn", turn |-> Len(G[h]), by |-> h],
         NEW M \in Lines, M[h][h] = <<>>, Says(h, m, M, S, C, O, N)
  PROVE  IInvAt(S, H, C, A, O, M)
<1>0. /\ \A a \in Seats \ {h} : \A b \in Seats : M[a][b] = N[a][b]
      /\ \A b \in Seats : M[h][b] = N[h][b] \/ M[h][b] = Append(N[h][b], m)
      /\ \A b \in Seats : b \in C[h] /\ {h, b} \in O /\ S[b].mode \notin {"Host", "Lost"} =>
                             M[h][b] = Append(N[h][b], m)
  BY Zenon DEF Says
<1> USE <1>0
<1>1. TypesAt(S, G, C, A, O, N)
  BY Zenon DEF IInvAt
<1>2. S \in [Seats -> Sessions] /\ G \in [Seats -> Seq(Seats)] /\ N \in Lines
  BY <1>1, Zenon DEF TypesAt
<1>3. PICK L : L = Len(G[h])
  OBVIOUS
<1>4. L \in Nat /\ \A a, b \in Seats : N[a][b] \in Seq(Messages) /\ M[a][b] \in Seq(Messages)
  BY <1>2, <1>3 DEF Lines
<1>5. H \in [Seats -> Seq(Seats)] /\ Len(H[h]) = L + 1 /\ H[h][L + 1] = h
      /\ \A k \in 1 .. L : H[h][k] = G[h][k]
  BY <1>3, Zenon DEF Gains
<1>6. \A x \in Seats \ {h} : H[x] = G[x]
  BY Zenon DEF Gains
<1>7. m \in Messages
  BY <1>3, <1>4 DEF Messages
<1>8. TypesAt(S, H, C, A, O, M)
  <2>1. ASSUME NEW a \in Seats PROVE M[a][a] = <<>>
    <3>1. CASE a = h
      BY <3>1
    <3>2. CASE a # h
      <4>1. M[a][a] = N[a][a]
        BY <3>2
      <4> QED  BY <4>1, <1>1, Zenon DEF TypesAt
    <3> QED  BY <3>1, <3>2, Zenon
  <2> QED  BY <1>1, <1>5, <2>1, Zenon DEF TypesAt
<1>9. ASSUME NEW x \in Seats PROVE SessionOK(x, S[x], H)
  <2>1. SessionOK(x, S[x], G)
    BY Zenon DEF IInvAt
  <2> QED  BY <2>1, SessionGrows, Zenon
<1>10. ASSUME NEW x \in Seats PROVE TurnsAt(x, S, H)
  <2>1. TurnsAt(x, S, G)
    BY Zenon DEF IInvAt
  <2>2. CASE x # h
    <3>1. H[x] = G[x]
      BY <2>2, <1>6
    <3> QED  BY <2>1, <3>1, Zenon DEF TurnsAt
  <2>3. CASE x = h
    <3>1. L + 1 <= MaxTurns
      BY <1>3, <1>4
    <3>2. ASSUME NEW k \in 1 .. L + 1 PROVE S[H[h][k]].mode = "Host"
      <4>1. CASE k \in 1 .. L
        BY <4>1, <2>1, <2>3, <1>3, <1>5, Zenon DEF TurnsAt
      <4>2. CASE k = L + 1
        BY <4>2, <1>5, Zenon
      <4>3. L \in Nat
        BY <1>4
      <4>4. k \in 1 .. L \/ k = L + 1
        BY <4>3, <3>2
      <4> QED  BY <4>1, <4>2, <4>4, Zenon
    <3> QED  BY <3>1, <3>2, <2>3, <1>5, Zenon DEF TurnsAt
  <2> QED  BY <2>2, <2>3, Zenon
<1>11. ASSUME NEW x \in Seats PROVE OwnAt(x, S, H)
  <2>1. OwnAt(x, S, G)
    BY Zenon DEF IInvAt
  <2>2. SUFFICES ASSUME S[x].mode = "Normal" PROVE OwnAt(x, S, H)
    BY Zenon DEF OwnAt
  <2>3. x # h
    BY <2>2
  <2>4. H[x] = G[x] /\ Len(G[x]) \in Nat
    BY <2>3, <1>2, <1>6
  <2>5. CASE S[x].host = h
    <3>1. Len(G[x]) <= L /\ \A k \in 1 .. Len(G[x]) : G[h][k] = h => G[x][k] = h
      BY <2>1, <2>2, <2>5, <1>3, Zenon DEF OwnAt
    <3>2. Len(G[x]) <= L + 1
      BY <3>1, <2>4, <1>4
    <3>3. ASSUME NEW k \in 1 .. Len(G[x]), H[h][k] = h PROVE G[x][k] = h
      <4>1. k \in 1 .. L
        <5>1. PICK n : n = Len(G[x])
          OBVIOUS
        <5>2. n <= L /\ n \in Nat /\ L \in Nat
          BY <5>1, <3>1, <2>4, <1>4
        <5>3. k \in 1 .. n
          BY <5>1, <3>3
        <5> QED  BY <5>2, <5>3
      <4>2. G[h][k] = h
        BY <4>1, <3>3, <1>5, Zenon
      <4>3. \A j \in 1 .. Len(G[x]) : G[h][j] = h => G[x][j] = h
        BY <3>1
      <4> QED  BY <4>2, <4>3, <3>3, Zenon
    <3>4. Len(H[x]) <= Len(H[h])
      BY <3>2, <2>4, <1>5
    <3>5. \A k \in 1 .. Len(H[x]) : H[h][k] = h => H[x][k] = h
      BY <3>3, <2>4, Zenon
    <3> QED  BY <3>4, <3>5, <2>5, Zenon DEF OwnAt
  <2>6. CASE S[x].host # h
    <3>1. S[x].host \in Seats
      BY <1>2 DEF Sessions
    <3>2. H[S[x].host] = G[S[x].host]
      BY <3>1, <2>6, <1>6, SMTT(40)
    <3> QED  BY <3>2, <2>1, <2>4, Zenon DEF OwnAt
  <2> QED  BY <2>5, <2>6, Zenon
<1>12. Sound(h, m, S, H)
  <2>1. m.type = "Turn" /\ m.turn = L /\ m.by = h
    BY <1>3
  <2>2. m.turn < Len(H[h]) /\ m.by = H[h][m.turn + 1]
    BY <2>1, <1>4, <1>5
  <2> QED  BY <2>1, <2>2 DEF Sound
<1>13. ASSUME NEW a \in Seats, NEW b \in Seats, NEW i \in DOMAIN M[a][b]
       PROVE  Sound(a, M[a][b][i], S, H)
  <2>1. ASSUME NEW j \in DOMAIN N[a][b] PROVE Sound(a, N[a][b][j], S, H)
    <3>1. Sound(a, N[a][b][j], S, G)
      BY Zenon DEF IInvAt
    <3>2. N[a][b] \in Seq(Messages)
      BY <1>4
    <3>3. N[a][b][j] \in Messages
      BY <3>2
    <3> QED  BY <3>1, <3>3, SoundGrows, Zenon
  <2>2. CASE M[a][b] = N[a][b]
    BY <2>1, <2>2, <1>13, Zenon
  <2>3. CASE a = h /\ M[a][b] = Append(N[h][b], m)
    <3>1. PICK q : q = N[h][b]
      OBVIOUS
    <3>2. q \in Seq(Messages) /\ M[a][b] = Append(q, m)
      BY <3>1, <2>3, <1>4
    <3>3. Len(q) \in Nat /\ Len(Append(q, m)) = Len(q) + 1 /\ Append(q, m)[Len(q) + 1] = m
          /\ (\A j \in 1 .. Len(q) : Append(q, m)[j] = q[j]) /\ Append(q, m) \in Seq(Messages)
      BY <3>2, <1>7, AppendProperties
    <3>4. i \in 1 .. Len(q) + 1
      BY <3>2, <3>3, <1>13
    <3>5. CASE i = Len(q) + 1
      BY <3>5, <3>2, <3>3, <2>3, <1>12
    <3>6. CASE i \in 1 .. Len(q)
      <4>1. i \in DOMAIN N[a][b] /\ M[a][b][i] = N[a][b][i]
        BY <3>1, <3>2, <3>3, <3>6, <2>3
      <4> QED  BY <4>1, <2>1, Zenon
    <3> QED  BY <3>3, <3>4, <3>5, <3>6
  <2> QED  BY <2>2, <2>3, Zenon
<1>14. ASSUME NEW y \in Seats, NEW x \in Seats PROVE Stream(y, x, S, H, C, A, O, M)
  <2>1. SUFFICES ASSUME Served(y, x, C, A, O), S[x].mode \notin {"Host", "Lost"}
                 PROVE  Stream(y, x, S, H, C, A, O, M)
    BY DEF Stream
  <2>2. Stream(y, x, S, G, C, A, O, N)
    BY Zenon DEF IInvAt
  <2>3. x # h
    BY <2>1
  <2>4. H[x] = G[x]
    BY <2>3, <1>6
  <2>5. CASE y # h
    <3>1. M[y][x] = N[y][x] /\ H[y] = G[y]
      BY <2>5, <1>6
    <3>2. ASSUME S[x].mode = "Normal", S[x].host = y PROVE Ends(M[y][x], 0, y, Len(H[x]), H)
      BY <3>1, <3>2, <2>1, <2>2, <2>4, EndsSame, Zenon DEF Stream
    <3>3. ASSUME NEW i \in DOMAIN M[y][x], M[y][x][i].type = "Resume",
                 Len(H[x]) <= M[y][x][i].turn
          PROVE  Ends(M[y][x], i, y, Len(H[x]), H)
      BY <3>1, <3>3, <2>1, <2>2, <2>4, EndsSame, Zenon DEF Stream
    <3> QED  BY <3>2, <3>3, Zenon DEF Stream
  <2>6. CASE y = h
    <3>1. PICK q, n : q = N[h][x] /\ n = Len(G[x])
      OBVIOUS
    <3>2. q \in Seq(Messages) /\ n \in Nat /\ Len(q) \in Nat
      BY <3>1, <1>2, <1>4
    <3>3. x \in C[h] /\ {h, x} \in O
      BY <2>1, <2>6, Zenon DEF Served
    <3>4. M[h][x] = Append(q, m)
      BY <3>1, <3>3, <2>1, Zenon
    <3>5. ASSUME S[x].mode = "Normal", S[x].host = h PROVE Ends(Append(q, m), 0, h, n, H)
      <4>1. Ends(q, 0, h, n, G)
        BY <3>1, <3>5, <2>1, <2>2, <2>6, Zenon DEF Stream
      <4>2. n <= Len(G[h])
        <5>1. OwnAt(x, S, G)
          BY Zenon DEF IInvAt
        <5> QED  BY <5>1, <3>1, <3>5, Zenon DEF OwnAt
      <4>3. 0 \in Nat /\ 0 <= Len(q)
        BY <3>2
      <4> QED  BY <4>1, <4>2, <4>3, <3>2, <1>2, <1>7, EndsMore, Zenon
    <3>6. ASSUME NEW i \in DOMAIN Append(q, m), Append(q, m)[i].type = "Resume",
                 n <= Append(q, m)[i].turn
          PROVE  Ends(Append(q, m), i, h, n, H)
      <4>1. Len(Append(q, m)) = Len(q) + 1 /\ Append(q, m)[Len(q) + 1] = m
            /\ (\A j \in 1 .. Len(q) : Append(q, m)[j] = q[j]) /\ Append(q, m) \in Seq(Messages)
        BY <3>2, <1>7, AppendProperties
      <4>2. i # Len(q) + 1
        BY <4>1, <3>6
      <4>3. i \in 1 .. Len(q) /\ i \in DOMAIN q /\ Append(q, m)[i] = q[i]
        BY <4>1, <4>2, <3>2, <3>6
      <4>4. q[i].type = "Resume" /\ n <= q[i].turn /\ q[i] \in Messages
        BY <4>3, <3>2, <3>6
      <4>5. Ends(q, i, h, n, G)
        BY <4>3, <4>4, <3>1, <2>1, <2>2, <2>6, Zenon DEF Stream
      <4>6. n <= Len(G[h])
        <5>1. Sound(h, q[i], S, G)
          BY <4>3, <3>1, Zenon DEF IInvAt
        <5>2. q[i].turn <= Len(G[h])
          BY <5>1, <4>4, Zenon DEF Sound
        <5>3. q[i].turn \in Nat
          BY <4>4 DEF Messages
        <5> QED  BY <5>2, <5>3, <4>4, <3>2, <1>3, <1>4
      <4>7. i \in Nat /\ i <= Len(q)
        BY <4>3, <3>2
      <4> QED  BY <4>5, <4>6, <4>7, <3>2, <1>2, <1>7, EndsMore, Zenon
    <3> QED  BY <3>1, <3>4, <3>5, <3>6, <2>4, <2>6, Zenon DEF Stream
  <2> QED  BY <2>5, <2>6, Zenon
<1>15. \A x \in Seats : HostAt(x, S, C)
  BY Zenon DEF IInvAt
<1> QED  BY <1>8, <1>9, <1>10, <1>11, <1>13, <1>14, <1>15, Zenon DEF IInvAt

Fewer(D, C) == D \in [Seats -> SUBSET Seats] /\ \A x \in Seats : D[x] \subseteq C[x]

\* The queues M are the beginnings of those of N, between the machines B all of it
Arrives(M, N, B) ==
  /\ M \in Lines
  /\ \A a, b \in Seats : \A i \in DOMAIN M[a][b] :
       i \in DOMAIN N[a][b] /\ M[a][b][i] = N[a][b][i]
  /\ \A a, b \in Seats : {a, b} \subseteq B => M[a][b] = N[a][b]

\* Machines die, links break, clients are dropped: there is less of everything, and between two
\* that live nothing gets lost.
LEMMA WorldKeeps ==
  ASSUME NEW S, NEW G, NEW C, NEW A, NEW O, NEW N, IInvAt(S, G, C, A, O, N),
         NEW D, Fewer(D, C), NEW B \in SUBSET A, NEW P \in SUBSET O, NEW M, Arrives(M, N, B)
  PROVE  IInvAt(S, G, D, B, P, M)
<1>0. /\ D \in [Seats -> SUBSET Seats] /\ \A x \in Seats : D[x] \subseteq C[x]
      /\ M \in Lines
      /\ \A a, b \in Seats : \A i \in DOMAIN M[a][b] :
           i \in DOMAIN N[a][b] /\ M[a][b][i] = N[a][b][i]
      /\ \A a, b \in Seats : {a, b} \subseteq B => M[a][b] = N[a][b]
  BY Zenon DEF Fewer, Arrives
<1> USE <1>0
<1>1. TypesAt(S, G, C, A, O, N)
  BY Zenon DEF IInvAt
<1>2. TypesAt(S, G, D, B, P, M)
  <2>1. ASSUME NEW a \in Seats PROVE M[a][a] = <<>>
    <3>1. N[a][a] = <<>>
      BY <1>1, Zenon DEF TypesAt
    <3>2. M[a][a] \in Seq(Messages)
      BY DEF Lines
    <3>3. \A i \in DOMAIN M[a][a] : i \in DOMAIN N[a][a]
      BY Zenon
    <3>4. DOMAIN M[a][a] = {}
      BY <3>1, <3>3
    <3> QED  BY <3>2, <3>4, EmptySeq
  <2>2. \A link \in P : \E a, b \in Seats : a # b /\ link = {a, b}
    BY <1>1 DEF TypesAt
  <2>3. B \subseteq Seats /\ S \in [Seats -> Sessions] /\ G \in [Seats -> Seq(Seats)]
    BY <1>1 DEF TypesAt
  <2> QED  BY <2>1, <2>2, <2>3, Zenon DEF TypesAt
<1>3. ASSUME NEW x \in Seats PROVE HostAt(x, S, D)
  <2>1. HostAt(x, S, C)
    BY Zenon DEF IInvAt
  <2>2. D[x] # {} => S[x].mode = "Host"
    <3>1. D[x] # {} => C[x] # {}
      OBVIOUS
    <3> QED  BY <3>1, <2>1, Zenon DEF HostAt
  <2> QED  BY <2>1, <2>2, Zenon DEF HostAt
<1>4. ASSUME NEW a \in Seats, NEW b \in Seats, NEW i \in DOMAIN M[a][b]
      PROVE  Sound(a, M[a][b][i], S, G)
  BY <1>4, Zenon DEF IInvAt
<1>5. ASSUME NEW h \in Seats, NEW x \in Seats PROVE Stream(h, x, S, G, D, B, P, M)
  <2>1. SUFFICES ASSUME Served(h, x, D, B, P) PROVE Stream(h, x, S, G, D, B, P, M)
    BY Zenon DEF Stream
  <2>2. Served(h, x, C, A, O) /\ {h, x} \subseteq B
    BY <2>1 DEF Served
  <2>3. M[h][x] = N[h][x]
    BY <2>2, Zenon
  <2>4. Stream(h, x, S, G, C, A, O, N)
    BY Zenon DEF IInvAt
  <2> QED  BY <2>2, <2>3, <2>4, Zenon DEF Stream
<1> QED  BY <1>2, <1>3, <1>4, <1>5, Zenon DEF IInvAt
------------------------------------------------------------------------------
(* What is said *)

Boxes == [Seats -> Seq(Messages)]

Posted(M, n, a, box) ==
  /\ M \in Lines
  /\ \A x \in Seats \ {a} : \A b \in Seats : M[x][b] = n[x][b]
  /\ \A b \in Seats : /\ Linked(a, b) /\ Listens(b) => M[a][b] = n[a][b] \o box[b]
                      /\ ~(Linked(a, b) /\ Listens(b)) => M[a][b] = n[a][b]

\* r is p and behind it q.
Joined(r, p, q, k, l) ==
  /\ r \in Seq(Messages) /\ k \in Nat /\ l \in Nat /\ Len(r) = k + l
  /\ \A j \in 1 .. k : r[j] = p[j]
  /\ \A j \in 1 .. l : r[k + j] = q[j]

LEMMA JoinedFacts ==
  ASSUME NEW p \in Seq(Messages), NEW q \in Seq(Messages), NEW r, r = p \o q,
         NEW k, k = Len(p), NEW l, l = Len(q)
  PROVE  Joined(r, p, q, k, l)
<1>1. k \in Nat /\ l \in Nat
  OBVIOUS
<1>2. r \in Seq(Messages) /\ Len(r) = k + l
      /\ \A j \in 1 .. k + l : r[j] = IF j <= k THEN p[j] ELSE q[j - k]
  BY ConcatProperties
<1>3. ASSUME NEW j \in 1 .. k PROVE r[j] = p[j]
  <2>1. j \in 1 .. k + l /\ j <= k
    BY <1>1, <1>3
  <2> QED  BY <1>2, <2>1, Zenon
<1>4. ASSUME NEW j \in 1 .. l PROVE r[k + j] = q[j]
  <2>1. k + j \in 1 .. k + l /\ ~(k + j <= k) /\ (k + j) - k = j
    BY <1>1, <1>4
  <2>2. r[k + j] = q[(k + j) - k]
    BY <1>2, <2>1, Zenon
  <2> QED  BY <2>1, <2>2
<1> QED  BY <1>1, <1>2, <1>3, <1>4, Zenon DEF Joined

LEMMA PostFacts ==
  ASSUME NEW n \in Lines, NEW a \in Seats, NEW box \in Boxes, NEW M, M = Post(n, a, box)
  PROVE  Posted(M, n, a, box)
<1>1. PICK f : f = [b \in Seats |-> IF Linked(a, b) /\ Listens(b) THEN n[a][b] \o box[b] ELSE n[a][b]]
  OBVIOUS
<1>2. M = [n EXCEPT ![a] = f]
  BY <1>1 DEF Post
<1>3. ASSUME NEW b \in Seats
      PROVE  /\ n[a][b] \in Seq(Messages) /\ n[a][b] \o box[b] \in Seq(Messages)
             /\ Linked(a, b) /\ Listens(b) => f[b] = n[a][b] \o box[b]
             /\ ~(Linked(a, b) /\ Listens(b)) => f[b] = n[a][b]
  <2>1. n[a][b] \in Seq(Messages) /\ box[b] \in Seq(Messages)
    BY DEF Lines, Boxes
  <2>2. n[a][b] \o box[b] \in Seq(Messages)
    BY <2>1, ConcatProperties
  <2>3. f[b] = IF Linked(a, b) /\ Listens(b) THEN n[a][b] \o box[b] ELSE n[a][b]
    BY <1>1, Zenon
  <2> QED  BY <2>1, <2>2, <2>3, Zenon
<1>4. f \in [Seats -> Seq(Messages)]
  <2>1. \A b \in Seats : f[b] \in Seq(Messages)
    BY <1>3, Zenon
  <2>2. f = [b \in Seats |-> f[b]]
    BY <1>1
  <2> QED  BY <2>1, <2>2
<1>5. M \in Lines /\ M[a] = f /\ \A x \in Seats \ {a} : M[x] = n[x]
  BY <1>2, <1>4 DEF Lines
<1> QED  BY <1>3, <1>5, Zenon DEF Posted

LEMMA ToFacts ==
  ASSUME NEW b \in Seats, NEW msgs \in Seq(Messages), NEW box, box = To(b, msgs)
  PROVE  /\ box \in Boxes
         /\ \A s \in Seats : \A i \in DOMAIN box[s] : i \in DOMAIN msgs /\ box[s][i] = msgs[i]
<1>1. ASSUME NEW s \in Seats PROVE box[s] = IF s = b THEN msgs ELSE <<>>
  BY Zenon DEF To
<1>2. box \in Boxes
  <2>1. \A s \in Seats : box[s] \in Seq(Messages)
    BY <1>1, EmptySeq
  <2>2. box = [s \in Seats |-> box[s]]
    BY DEF To
  <2> QED  BY <2>1, <2>2 DEF Boxes
<1>3. ASSUME NEW s \in Seats, NEW i \in DOMAIN box[s] PROVE i \in DOMAIN msgs /\ box[s][i] = msgs[i]
  <2>1. CASE s = b
    BY <2>1, <1>1, <1>3
  <2>2. CASE s # b
    <3>1. box[s] = <<>>
      BY <2>2, <1>1
    <3> QED  BY <3>1, <1>3
  <2> QED  BY <2>1, <2>2, Zenon
<1> QED  BY <1>2, <1>3, Zenon

LEMMA ToOneFacts ==
  ASSUME NEW b \in Seats, NEW m \in Messages, NEW box, box = To(b, <<m>>)
  PROVE  box \in Boxes /\ \A s \in Seats : \A i \in DOMAIN box[s] : box[s][i] = m
<1>1. PICK msgs : msgs = <<m>>
  OBVIOUS
<1>2. msgs \in Seq(Messages) /\ \A i \in DOMAIN msgs : msgs[i] = m
  BY <1>1
<1>3. box = To(b, msgs)
  BY <1>1, Zenon
<1>4. /\ box \in Boxes
      /\ \A s \in Seats : \A i \in DOMAIN box[s] : i \in DOMAIN msgs /\ box[s][i] = msgs[i]
  BY <1>2, <1>3, ToFacts, Zenon
<1> QED  BY <1>2, <1>4, Zenon

\* box holds nothing but m.
Repeats(box, m) == \A s \in Seats : \A i \in DOMAIN box[s] : box[s][i] = m

LEMMA ToAllFacts ==
  ASSUME NEW T, NEW msg \in Messages, NEW box, box = ToAll(T, msg)
  PROVE  /\ box \in Boxes /\ Repeats(box, msg)
         /\ \A s \in Seats : box[s] = IF s \in T THEN <<msg>> ELSE <<>>
<1>1. ASSUME NEW s \in Seats PROVE box[s] = IF s \in T THEN <<msg>> ELSE <<>>
  BY Zenon DEF ToAll
<1>2. <<msg>> \in Seq(Messages) /\ <<>> \in Seq(Messages)
  OBVIOUS
<1>3. box \in Boxes
  <2>1. \A s \in Seats : box[s] \in Seq(Messages)
    BY <1>1, <1>2
  <2>2. box = [s \in Seats |-> box[s]]
    BY DEF ToAll
  <2> QED  BY <2>1, <2>2 DEF Boxes
<1>4. ASSUME NEW s \in Seats, NEW i \in DOMAIN box[s] PROVE box[s][i] = msg
  <2>1. CASE s \in T
    <3>1. box[s] = <<msg>>
      BY <2>1, <1>1
    <3> QED  BY <3>1, <1>4
  <2>2. CASE s \notin T
    <3>1. box[s] = <<>>
      BY <2>2, <1>1
    <3> QED  BY <3>1, <1>4
  <2> QED  BY <2>1, <2>2, Zenon
<1> QED  BY <1>1, <1>3, <1>4, Zenon DEF Repeats

\* T is the turns from first on.
AreTurns(T, g, first) ==
  /\ T \in Seq(Messages)
  /\ first <= Len(got[g]) => Len(T) = Len(got[g]) - first
  /\ \A i \in DOMAIN T :
       /\ i \in Nat \ {0} /\ first + i <= Len(got[g])
       /\ T[i] = [type |-> "Turn", turn |-> first + i - 1, by |-> got[g][first + i]]
  /\ \A i \in Nat \ {0} : first + i <= Len(got[g]) => i \in DOMAIN T

LEMMA TurnsFromFacts ==
  ASSUME got \in [Seats -> Seq(Seats)], NEW g \in Seats, NEW first \in Nat,
         NEW T, T = TurnsFrom(g, first)
  PROVE  AreTurns(T, g, first)
<1>1. PICK L : L = Len(got[g])
  OBVIOUS
<1>2. got[g] \in Seq(Seats) /\ L \in Nat
  BY <1>1
<1>3. T = [i \in 1 .. L - first |-> [type |-> "Turn", turn |-> first + i - 1, by |-> got[g][first + i]]]
  BY <1>1 DEF TurnsFrom
<1>4. DOMAIN T = 1 .. L - first
  BY <1>3
<1>5. ASSUME NEW i \in 1 .. L - first
      PROVE  /\ T[i] = [type |-> "Turn", turn |-> first + i - 1, by |-> got[g][first + i]]
             /\ T[i] \in Messages
  <2>1. T[i] = [type |-> "Turn", turn |-> first + i - 1, by |-> got[g][first + i]]
    BY <1>3, Zenon
  <2>2. first + i \in 1 .. L /\ first + i - 1 \in Nat
    BY <1>2
  <2>3. got[g][first + i] \in Seats
    BY <2>2, <1>1, <1>2
  <2> QED  BY <2>1, <2>2, <2>3 DEF Messages
<1>6. PICK K \in Nat : 1 .. L - first = 1 .. K /\ (first <= L => K = L - first)
  <2>1. CASE first <= L
    BY <2>1, <1>2
  <2>2. CASE ~(first <= L)
    <3>1. 1 .. L - first = 1 .. 0
      BY <2>2, <1>2
    <3> QED  BY <3>1, <2>2
  <2> QED  BY <2>1, <2>2
<1>7. T = [i \in 1 .. K |-> T[i]] /\ \A i \in 1 .. K : T[i] \in Messages
  <2>1. T = [i \in 1 .. L - first |-> T[i]]
    BY <1>3
  <2> QED  BY <2>1, <1>5, <1>6
<1>8. T \in Seq(Messages) /\ Len(T) = K
  <2>1. T \in [1 .. K -> Messages]
    BY <1>7
  <2>2. T \in Seq(Messages)
    BY <2>1
  <2>3. DOMAIN T = 1 .. K
    BY <1>4, <1>6
  <2> QED  BY <2>2, <2>3
<1>9. first <= L => Len(T) = L - first
  BY <1>6, <1>8
<1>10. ASSUME NEW i \in DOMAIN T
       PROVE  /\ i \in Nat \ {0} /\ first + i <= L
              /\ T[i] = [type |-> "Turn", turn |-> first + i - 1, by |-> got[g][first + i]]
  <2>1. i \in 1 .. L - first
    BY <1>4, <1>10
  <2>2. i \in Nat \ {0} /\ first + i <= L
    BY <2>1, <1>2
  <2> QED  BY <2>1, <2>2, <1>5, Zenon
<1>11. ASSUME NEW i \in Nat \ {0}, first + i <= L PROVE i \in DOMAIN T
  BY <1>2, <1>4, <1>11
<1> QED  BY <1>1, <1>8, <1>9, <1>10, <1>11, Zenon DEF AreTurns

\* A machine that hosts nothing says what is true of it.
LEMMA PostTalks ==
  ASSUME IInv, NEW g \in Seats, NEW P, NEW n, Talks(g, P, n, session, got, open, net),
         NEW box \in Boxes,
         \A b \in Seats : \A i \in DOMAIN box[b] : Sound(g, box[b][i], session, got),
         NEW M, M = Post(n, g, box)
  PROVE  Talks(g, P, M, session, got, open, net)
<1>1. n \in Lines /\ n[g][g] = <<>> /\ P \subseteq open
  BY Zenon DEF Talks
<1>2. Posted(M, n, g, box)
  BY <1>1, PostFacts, Zenon
<1>3. ~Linked(g, g)
  <2>1. TypesAt(session, got, clients, alive, open, net)
    BY Zenon DEF IInv, IInvAt
  <2> QED  BY <2>1, NoLoop, Zenon DEF Linked
<1>4. M[g][g] = <<>> /\ M \in Lines
  BY <1>1, <1>2, <1>3, Zenon DEF Posted
<1>5. ASSUME NEW a \in Seats \ {g}
      PROVE  /\ \A b \in Seats \ {g} : M[a][b] = net[a][b]
             /\ Reads(g, a, M[a][g], session, got, P, net)
  <2>1. \A b \in Seats : M[a][b] = n[a][b]
    BY <1>2 DEF Posted
  <2>2. \A b \in Seats \ {g} : M[a][b] = net[a][b]
    BY <2>1 DEF Talks
  <2>3. Reads(g, a, n[a][g], session, got, P, net)
    BY Zenon DEF Talks
  <2> QED  BY <2>1, <2>2, <2>3, Zenon
<1>6. ASSUME NEW b \in Seats, NEW i \in DOMAIN M[g][b] PROVE Sound(g, M[g][b][i], session, got)
  <2>1. \A j \in DOMAIN n[g][b] : Sound(g, n[g][b][j], session, got)
    BY Zenon DEF Talks
  <2>2. CASE M[g][b] = n[g][b]
    BY <2>1, <2>2, <1>6, Zenon
  <2>3. CASE M[g][b] = n[g][b] \o box[b]
    <3>1. PICK p, q, r : p = n[g][b] /\ q = box[b] /\ r = M[g][b]
      BY Zenon
    <3>2. p \in Seq(Messages) /\ q \in Seq(Messages)
      BY <3>1, <1>1 DEF Lines, Boxes
    <3>3. r = p \o q /\ i \in DOMAIN r
      BY <3>1, <2>3, <1>6, Zenon
    <3>4. r \in Seq(Messages) /\ Len(r) = Len(p) + Len(q) /\ Len(p) \in Nat /\ Len(q) \in Nat
          /\ \A j \in 1 .. Len(p) + Len(q) : r[j] = IF j <= Len(p) THEN p[j] ELSE q[j - Len(p)]
      BY <3>2, <3>3, ConcatProperties
    <3>7. i \in 1 .. Len(p) + Len(q)
      BY <3>3, <3>4
    <3>5. CASE i <= Len(p)
      <4>1. i \in DOMAIN p /\ r[i] = p[i]
        BY <3>2, <3>4, <3>5, <3>7
      <4> QED  BY <4>1, <3>1, <2>1, Zenon
    <3>6. CASE ~(i <= Len(p))
      <4>1. i - Len(p) \in DOMAIN q /\ r[i] = q[i - Len(p)]
        BY <3>2, <3>4, <3>6, <3>7
      <4> QED  BY <4>1, <3>1, Zenon
    <3> QED  BY <3>5, <3>6
  <2> QED  BY <2>2, <2>3, <1>2, Zenon DEF Posted
<1> QED  BY <1>1, <1>4, <1>5, <1>6, Zenon DEF Talks

\* It says nothing, or reads a message first, or closes the link to its host.
LEMMA NothingTalks ==
  ASSUME IInv, NEW g \in Seats, NEW P \in SUBSET open
  PROVE  Talks(g, P, net, session, got, open, net)
<1>1. net \in Lines /\ net[g][g] = <<>>
  BY Zenon DEF IInv, IInvAt, TypesAt
<1>2. \A b \in Seats : \A i \in DOMAIN net[g][b] : Sound(g, net[g][b][i], session, got)
  BY Zenon DEF IInv, IInvAt
<1> QED  BY <1>1, <1>2 DEF Talks, Reads

LEMMA HeardTalks ==
  ASSUME IInv, NEW g \in Seats, NEW s \in Seats, NEW n, Heard(s, g, net, n),
         ~TakesAt(g, s, Head(net[s][g]), session, got)
  PROVE  Talks(g, open, n, session, got, open, net)
<1>1. net \in Lines /\ net[g][g] = <<>>
  BY Zenon DEF IInv, IInvAt, TypesAt
<1>2. s # g /\ n \in Lines
  BY <1>1, Zenon DEF Heard
<1>3. n[g][g] = <<>>
  BY <1>1, <1>2, Zenon DEF Heard
<1>4. ASSUME NEW a \in Seats \ {g}
      PROVE  /\ \A b \in Seats \ {g} : n[a][b] = net[a][b]
             /\ Reads(g, a, n[a][g], session, got, open, net)
  BY Zenon DEF Heard, Reads
<1>5. ASSUME NEW b \in Seats PROVE n[g][b] = net[g][b]
  BY <1>2, Zenon DEF Heard
<1>6. \A b \in Seats : \A i \in DOMAIN n[g][b] : Sound(g, n[g][b][i], session, got)
  BY <1>5, Zenon DEF IInv, IInvAt
<1> QED  BY <1>2, <1>3, <1>4, <1>6, Zenon DEF Talks

LEMMA CutOffTalks ==
  ASSUME IInv, NEW g \in Seats, session[g].mode = "Normal",
         NEW n, Talks(g, open, n, session, got, open, net), NEW M, M = CutOff(g, n)
  PROVE  Talks(g, open \ {{g, session[g].host}}, M, session, got, open, net)
<1>1. PICK h : h = session[g].host
  OBVIOUS
<1>2. h \in Seats /\ h # g
  <2>1. session \in [Seats -> Sessions]
    BY Zenon DEF IInv, IInvAt, TypesAt
  <2>2. HostAt(g, session, clients)
    BY Zenon DEF IInv, IInvAt
  <2>3. h # g
    BY <2>2, <1>1, Zenon DEF HostAt
  <2> QED  BY <2>1, <2>3, <1>1 DEF Sessions
<1>3. n \in Lines /\ n[g][g] = <<>>
  BY Zenon DEF Talks
<1>4. M = [n EXCEPT ![h] = [n[h] EXCEPT ![g] = <<>>]]
  BY <1>1 DEF CutOff
<1>5. n[h] \in [Seats -> Seq(Messages)] /\ <<>> \in Seq(Messages)
  BY <1>2, <1>3 DEF Lines
<1>6. M \in Lines /\ M[h][g] = <<>> /\ \A a, b \in Seats : a # h \/ b # g => M[a][b] = n[a][b]
  BY <1>2, <1>3, <1>4, <1>5 DEF Lines
<1>7. PICK P : P = open \ {{g, h}}
  OBVIOUS
<1>8. P \subseteq open /\ {h, g} \notin P
  BY <1>7
<1>9. ASSUME NEW a \in Seats \ {g}
      PROVE  /\ \A b \in Seats \ {g} : M[a][b] = net[a][b]
             /\ Reads(g, a, M[a][g], session, got, P, net)
  <2>1. ASSUME NEW b \in Seats \ {g} PROVE M[a][b] = net[a][b]
    <3>1. M[a][b] = n[a][b]
      BY <1>6
    <3>2. n[a][b] = net[a][b]
      BY Zenon DEF Talks
    <3> QED  BY <3>1, <3>2
  <2>2. CASE a = h
    BY <2>1, <2>2, <1>6, <1>8, Zenon DEF Reads
  <2>3. CASE a # h
    <3>1. M[a][g] = n[a][g]
      BY <2>3, <1>6
    <3>2. Reads(g, a, n[a][g], session, got, open, net)
      BY Zenon DEF Talks
    <3>3. {a, g} \notin open => {a, g} \notin P
      BY <1>8
    <3> QED  BY <2>1, <3>1, <3>2, <3>3, Zenon DEF Reads
  <2> QED  BY <2>2, <2>3, Zenon
<1>10. ASSUME NEW b \in Seats, NEW i \in DOMAIN M[g][b] PROVE Sound(g, M[g][b][i], session, got)
  <2>1. M[g][b] = n[g][b]
    BY <1>2, <1>6
  <2> QED  BY <2>1, <1>10, Zenon DEF Talks
<1>11. M[g][g] = <<>>
  BY <1>2, <1>3, <1>6
<1> QED  BY <1>1, <1>6, <1>7, <1>8, <1>9, <1>10, <1>11, Zenon DEF Talks
------------------------------------------------------------------------------
(* What becomes of a session *)

\* NewSession, for one that guests or hosts
SessionWith(md, h, e) ==
  [mode |-> md, host |-> h, epoch |-> e, dead |-> {}, hint |-> None, following |-> None,
   proposed |-> FALSE, expected |-> {}, answers |-> <<>>, refusals |-> 0,
   source |-> None, target |-> 0]

LEMMA NewSessionOK ==
  ASSUME world \in Worlds, MigrationAssumption, NEW g \in Seats, NEW G, NEW h \in Seats,
         NEW e \in Nat, NEW md \in {"Normal", "Host"}, NEW t, t = SessionWith(md, h, e)
  PROVE  SessionOK(g, t, G) /\ t.mode = md /\ t.host = h /\ t.epoch = e
<1>1. MaxTurns \in Nat /\ RefusalLimit \in Nat /\ FirstHost \in Seats
  BY WorldFacts
<1>2. md \in Modes
  BY DEF Modes
<1>3. <<>> \in UNION {[T -> Answers] : T \in SUBSET Seats} /\ DOMAIN <<>> = {}
  <2>1. <<>> \in [{} -> Answers] /\ {} \in SUBSET Seats
    OBVIOUS
  <2> QED  BY <2>1
<1>4. t \in Sessions
  BY <1>2, <1>3 DEF Sessions, SessionWith
<1>5. t.expected = {} /\ t.answers = <<>> /\ t.target = 0 /\ t.refusals = 0
      /\ t.mode = md /\ t.host = h /\ t.epoch = e
  BY DEF SessionWith
<1>6. t.expected \subseteq Seats \ {g} /\ DOMAIN t.answers = {} /\ t.target <= MaxTurns
      /\ t.refusals <= RefusalLimit
  BY <1>1, <1>3, <1>5
<1>7. SessionOK(g, t, G)
  <2>1. Directed(t)
    BY <1>5 DEF Directed
  <2> QED  BY <2>1, <1>4, <1>6 DEF SessionOK, Draft
<1> QED  BY <1>5, <1>7, Zenon

\* Nothing of a session is asked of others any more.
Idle(t, u) ==
  /\ u.proposed = FALSE /\ u.expected = {} /\ u.answers = <<>>
  /\ u.host = t.host /\ u.epoch = t.epoch

LEMMA BegunOK ==
  ASSUME world \in Worlds, MigrationAssumption, NEW g \in Seats, NEW G, NEW t, SessionOK(g, t, G),
         NEW u, u = BegunElection(t)
  PROVE  SessionOK(g, u, G) /\ u.mode = "Electing" /\ Idle(t, u)
<1>1. t \in Sessions /\ t.target <= MaxTurns /\ RefusalLimit \in Nat
  BY WorldFacts, Zenon DEF SessionOK, Draft
<1>2. <<>> \in UNION {[T -> Answers] : T \in SUBSET Seats} /\ DOMAIN <<>> = {}
  <2>1. <<>> \in [{} -> Answers] /\ {} \in SUBSET Seats
    OBVIOUS
  <2> QED  BY <2>1
<1>3. u \in Sessions
  BY <1>1, <1>2 DEF Sessions, Modes, BegunElection
<1>4. u.expected = {} /\ u.answers = <<>> /\ u.target = t.target /\ u.refusals = 0
      /\ u.mode = "Electing" /\ u.proposed = FALSE /\ u.host = t.host /\ u.epoch = t.epoch
  BY <1>1 DEF Sessions, BegunElection
<1>5. SessionOK(g, u, G)
  <2>1. Directed(u)
    BY <1>4 DEF Directed
  <2> QED  BY <2>1, <1>1, <1>2, <1>3, <1>4 DEF SessionOK, Draft
<1> QED  BY <1>4, <1>5 DEF Idle

LEMMA WithdrawnOK ==
  ASSUME NEW g \in Seats, NEW G, NEW t, SessionOK(g, t, G), NEW u, u = Withdrawn(t)
  PROVE  SessionOK(g, u, G) /\ u.mode = t.mode /\ Idle(t, u)
<1>1. t \in Sessions /\ t.target <= MaxTurns /\ t.refusals <= RefusalLimit
  BY Zenon DEF SessionOK, Draft
<1>2. <<>> \in UNION {[T -> Answers] : T \in SUBSET Seats} /\ DOMAIN <<>> = {}
  <2>1. <<>> \in [{} -> Answers] /\ {} \in SUBSET Seats
    OBVIOUS
  <2> QED  BY <2>1
<1>3. u \in Sessions
  BY <1>1, <1>2 DEF Sessions, Withdrawn
<1>4. u.expected = {} /\ u.answers = <<>> /\ u.target = t.target /\ u.refusals = t.refusals
      /\ u.mode = t.mode /\ u.proposed = FALSE /\ u.host = t.host /\ u.epoch = t.epoch
  BY <1>1 DEF Sessions, Withdrawn
<1>5. SessionOK(g, u, G)
  <2>1. u.following = t.following /\ u.source = t.source
    BY <1>1 DEF Sessions, Withdrawn
  <2>2. Directed(u)
    BY <2>1, <1>4 DEF Directed, SessionOK, Draft
  <2> QED  BY <2>2, <1>1, <1>2, <1>3, <1>4 DEF SessionOK, Draft
<1> QED  BY <1>4, <1>5 DEF Idle

\* Changes of the fields that nothing but the session itself depends on.
LEMMA FieldsOK ==
  ASSUME NEW g \in Seats, NEW G, NEW t, SessionOK(g, t, G), NEW u, u \in Sessions, Directed(u),
         u.expected = t.expected, u.answers = t.answers,
         u.target <= MaxTurns, u.refusals <= RefusalLimit
  PROVE  SessionOK(g, u, G)
BY DEF SessionOK, Draft

LEMMA GoneLostOK ==
  ASSUME world \in Worlds, MigrationAssumption, NEW g \in Seats, NEW G, NEW t, SessionOK(g, t, G),
         NEW u, u = GoneLost(t)
  PROVE  SessionOK(g, u, G) /\ u.mode = "Lost" /\ u.epoch = t.epoch
<1>1. PICK v : v = Withdrawn(t)
  OBVIOUS
<1>2. SessionOK(g, v, G) /\ v.epoch = t.epoch
  <2>1. SessionOK(g, v, G) /\ Idle(t, v)
    BY <1>1, WithdrawnOK, Zenon
  <2> QED  BY <2>1, Zenon DEF Idle
<1>3. u = [v EXCEPT !.mode = "Lost", !.following = None, !.dead = {}, !.hint = None,
                    !.source = None, !.target = 0]
  BY <1>1 DEF GoneLost
<1>4. v \in Sessions /\ v.refusals <= RefusalLimit /\ MaxTurns \in Nat
  BY <1>2, WorldFacts, Zenon DEF SessionOK, Draft
<1>5. u \in Sessions
  <2>1. "Lost" \in Modes
    BY DEF Modes
  <2>2. u = [mode |-> "Lost", host |-> v.host, epoch |-> v.epoch, dead |-> {}, hint |-> None,
             following |-> None, proposed |-> v.proposed, expected |-> v.expected,
             answers |-> v.answers, refusals |-> v.refusals, source |-> None, target |-> 0]
    BY <1>3, <1>4 DEF Sessions
  <2>3. v.host \in Seats /\ v.epoch \in Nat /\ v.proposed \in BOOLEAN /\ v.expected \in SUBSET Seats
        /\ v.answers \in UNION {[T -> Answers] : T \in SUBSET Seats} /\ v.refusals \in Nat
    BY <1>4 DEF Sessions
  <2> QED  BY <2>1, <2>2, <2>3 DEF Sessions
<1>6. u.expected = v.expected /\ u.answers = v.answers /\ u.target = 0 /\ u.refusals = v.refusals
      /\ u.mode = "Lost" /\ u.epoch = v.epoch
  BY <1>3, <1>4 DEF Sessions
<1>7. u.target <= MaxTurns /\ u.refusals <= RefusalLimit
  BY <1>4, <1>6
<1>8. SessionOK(g, u, G)
  <2>1. Directed(u)
    BY <1>6 DEF Directed
  <2> QED  BY <2>1, <1>2, <1>5, <1>6, <1>7, FieldsOK, Zenon
<1> QED  BY <1>2, <1>6, <1>8, Zenon

LEMMA DirectedSame ==
  ASSUME NEW g, NEW G, NEW t, SessionOK(g, t, G),
         NEW u, u.mode = t.mode, u.following = t.following, u.source = t.source
  PROVE  Directed(u)
BY DEF SessionOK, Draft, Directed

\* What is seen of the others.
LEMMA LowestAliveSeat ==
  ASSUME world \in Worlds, MigrationAssumption, NEW g \in Seats, NEW t
  PROVE  LowestAlive(g, t) \in Seats
<1>1. PICK T : T = {s \in Seats : \/ s = g
                                  \/ s \notin t.dead /\ (s = t.hint \/ PeerAlive(g, s))}
  OBVIOUS
<1>2. T \subseteq Seats /\ g \in T /\ T \in SUBSET Nat
  BY <1>1, WorldFacts
<1>3. PICK n \in T : \A k \in T : n <= k
  BY <1>2, LeastNumber
<1>4. Min(T) \in T
  BY <1>3 DEF Min
<1> QED  BY <1>1, <1>2, <1>4, Zenon DEF LowestAlive
------------------------------------------------------------------------------
(* The steps of a machine that hosts nothing *)

Kept == IInvAt(session', got', clients', alive', open', net')

\* What is typed, of the state as it is.
LEMMA StateFacts ==
  ASSUME IInv, MigrationAssumption
  PROVE  /\ world \in Worlds /\ IInvAt(session, got, clients, alive, open, net)
         /\ session \in [Seats -> Sessions] /\ got \in [Seats -> Seq(Seats)]
         /\ clients \in [Seats -> SUBSET Seats] /\ alive \subseteq Seats /\ net \in Lines
         /\ MaxTurns \in Nat /\ RefusalLimit \in Nat \ {0}
<1>1. world \in Worlds /\ IInvAt(session, got, clients, alive, open, net)
  BY Zenon DEF IInv
<1> QED  BY <1>1, WorldFacts, Zenon DEF IInvAt, TypesAt

LEMMA GuestMoves ==
  ASSUME IInv, MigrationAssumption, NEW g \in Seats, NEW t, Changes(g, t, session, got),
         Talks(g, open', net', session, got, open, net),
         session' = [session EXCEPT ![g] = t], got' = got, clients' = clients, alive' = alive
  PROVE  Kept
<1>1. IInvAt(session', got, clients, alive, open', net')
  BY StateFacts, GuestKeeps, Zenon
<1> QED  BY <1>1, Zenon DEF Kept

\* One that stays as it is
LEMMA StaysAsItIs ==
  ASSUME IInv, MigrationAssumption, NEW g \in Seats, session[g].mode # "Host"
  PROVE  Changes(g, session[g], session, got) /\ session = [session EXCEPT ![g] = session[g]]
<1>1. SessionOK(g, session[g], got)
  BY StateFacts, Zenon DEF IInvAt
<1>2. session = [session EXCEPT ![g] = session[g]]
  BY StateFacts
<1> QED  BY <1>1, <1>2, Zenon DEF Changes

\* One that elects
LEMMA ElectsOn ==
  ASSUME NEW g, NEW t, NEW u, SessionOK(g, u, got), u.epoch = t.epoch, t.epoch = session[g].epoch,
         u.mode \notin {"Host", "Normal"}, session[g].mode \notin {"Host", "Lost"}
  PROVE  Changes(g, u, session, got)
BY DEF Changes

\* on_propose(): whatever is answered, it is true.
LEMMA AnswerProposalFacts ==
  ASSUME IInv, MigrationAssumption, NEW g \in Seats, NEW s \in Seats,
         NEW t, SessionOK(g, t, got), t.epoch = session[g].epoch,
         t.mode \in {"Electing", "Following", "Fetching"}, session[g].mode \notin {"Host", "Lost"},
         NEW P, NEW n, Talks(g, P, n, session, got, open, net), AnswerProposal(g, s, t, n)
  PROVE  /\ \E u : Changes(g, u, session, got) /\ session' = [session EXCEPT ![g] = u]
         /\ Talks(g, P, net', session, got, open, net)
<1>1. t \in Sessions /\ t.expected \subseteq Seats /\ t.epoch \in Nat
  BY DEF SessionOK, Draft, Sessions
<1>2. ASSUME NEW low \in Seats PROVE RefuseMsg(t, low) \in Messages /\ RefuseMsg(t, low).type = "Refuse"
  BY <1>1 DEF RefuseMsg, ElectionEpoch, Messages
<1>3. Changes(g, t, session, got)
  <2>1. t.mode \notin {"Host", "Normal"}
    OBVIOUS
  <2> QED  BY <2>1, ElectsOn, Zenon
<1>4. ASSUME NEW low \in Seats,
             session' = [session EXCEPT ![g] = t], net' = Post(n, g, To(s, <<RefuseMsg(t, low)>>))
      PROVE  /\ \E u : Changes(g, u, session, got) /\ session' = [session EXCEPT ![g] = u]
             /\ Talks(g, P, net', session, got, open, net)
  <2>1. PICK m, box : m = RefuseMsg(t, low) /\ box = To(s, <<m>>)
    BY Zenon
  <2>2. m \in Messages /\ m.type = "Refuse"
    BY <1>2, <2>1, Zenon
  <2>4. box \in Boxes /\ \A b \in Seats : \A i \in DOMAIN box[b] : box[b][i] = m
    BY <2>1, <2>2, ToOneFacts
  <2>5. Sound(g, m, session, got)
    BY <2>2 DEF Sound
  <2>6. \A b \in Seats : \A i \in DOMAIN box[b] : Sound(g, box[b][i], session, got)
    BY <2>4, <2>5, Zenon
  <2>7. net' = Post(n, g, box)
    BY <1>4, <2>1, Zenon
  <2>8. Talks(g, P, net', session, got, open, net)
    BY <2>4, <2>6, <2>7, PostTalks, Zenon
  <2> QED  BY <1>3, <1>4, <2>8, Zenon
<1>5. PICK u : u = [Withdrawn(t) EXCEPT !.following = s, !.mode = "Following",
                                        !.source = None, !.target = 0]
  OBVIOUS
<1>6. PICK acc, ref, box :
        /\ acc = [type |-> "Accept", epoch |-> ElectionEpoch(t), next |-> Len(got[g])]
        /\ ref = RefuseMsg(t, s)
        /\ box = [x \in Seats |-> (IF x \in t.expected THEN <<ref>> ELSE <<>>)
                                  \o (IF x = s THEN <<acc>> ELSE <<>>)]
  OBVIOUS
<1>7. \/ \E low \in Seats : /\ session' = [session EXCEPT ![g] = t]
                            /\ net' = Post(n, g, To(s, <<RefuseMsg(t, low)>>))
      \/ session' = [session EXCEPT ![g] = u] /\ net' = Post(n, g, box)
  <2>1. CASE t.following \notin {None, s} /\ t.following \notin t.dead /\ PeerAlive(g, t.following)
    <3>1. t.following \in Seats
      BY <2>1, <1>1 DEF Sessions
    <3>2. /\ session' = [session EXCEPT ![g] = t]
          /\ net' = Post(n, g, To(s, <<RefuseMsg(t, t.following)>>))
      BY <2>1, Zenon DEF AnswerProposal
    <3> QED  BY <3>1, <3>2, Zenon
  <2>2. CASE /\ ~(t.following \notin {None, s} /\ t.following \notin t.dead /\ PeerAlive(g, t.following))
             /\ LowestAlive(g, t) < s
    <3>1. LowestAlive(g, t) \in Seats
      BY StateFacts, LowestAliveSeat, Zenon
    <3>2. /\ session' = [session EXCEPT ![g] = t]
          /\ net' = Post(n, g, To(s, <<RefuseMsg(t, LowestAlive(g, t))>>))
      BY <2>2, Zenon DEF AnswerProposal
    <3> QED  BY <3>1, <3>2, Zenon
  <2>3. CASE /\ ~(t.following \notin {None, s} /\ t.following \notin t.dead /\ PeerAlive(g, t.following))
             /\ ~(LowestAlive(g, t) < s)
    BY <2>3, <1>5, <1>6, Zenon DEF AnswerProposal
  <2> QED  BY <2>1, <2>2, <2>3, Zenon
<1>8. ASSUME session' = [session EXCEPT ![g] = u], net' = Post(n, g, box)
      PROVE  /\ \E v : Changes(g, v, session, got) /\ session' = [session EXCEPT ![g] = v]
             /\ Talks(g, P, net', session, got, open, net)
  <2>1. Changes(g, u, session, got)
    <3>1. PICK w : w = Withdrawn(t)
      OBVIOUS
    <3>2. SessionOK(g, w, got) /\ Idle(t, w)
      BY <3>1, WithdrawnOK, Zenon
    <3>3. u = [w EXCEPT !.following = s, !.mode = "Following", !.source = None, !.target = 0]
      BY <1>5, <3>1
    <3>4. w \in Sessions /\ w.refusals <= RefusalLimit /\ MaxTurns \in Nat
      BY <3>2, StateFacts, Zenon DEF SessionOK, Draft
    <3>5. u \in Sessions
      BY <3>3, <3>4 DEF Sessions, Modes
    <3>6. u.expected = w.expected /\ u.answers = w.answers /\ u.target = 0 /\ u.refusals = w.refusals
          /\ u.mode = "Following" /\ u.epoch = w.epoch
      BY <3>3, <3>4 DEF Sessions
    <3>7. u.target <= MaxTurns /\ u.refusals <= RefusalLimit
      BY <3>4, <3>6
    <3>8. SessionOK(g, u, got)
      <4>1. u.following = s
        BY <3>3, <3>4 DEF Sessions
      <4>2. Directed(u)
        BY <4>1, <3>6 DEF Directed
      <4> QED  BY <4>2, <3>2, <3>5, <3>6, <3>7, FieldsOK, Zenon
    <3>9. u.epoch = t.epoch /\ u.mode \notin {"Host", "Normal"}
      BY <3>2, <3>6 DEF Idle
    <3> QED  BY <3>8, <3>9, ElectsOn, Zenon
  <2>2. acc \in Messages /\ acc.type = "Accept" /\ acc.next = Len(got[g])
    <3>1. got[g] \in Seq(Seats)
      BY StateFacts
    <3> QED  BY <3>1, <1>1, <1>6 DEF Messages, ElectionEpoch
  <2>3. ref \in Messages /\ ref.type = "Refuse"
    BY <1>2, <1>6, Zenon
  <2>4. Sound(g, acc, session, got) /\ Sound(g, ref, session, got)
    <3>1. Len(got[g]) \in Nat
      BY StateFacts
    <3> QED  BY <3>1, <2>2, <2>3 DEF Sound
  <2>5. ASSUME NEW x \in Seats
        PROVE  box[x] \in Seq(Messages) /\ \A i \in DOMAIN box[x] : box[x][i] \in {acc, ref}
    <3>1. PICK p, q : p = (IF x \in t.expected THEN <<ref>> ELSE <<>>)
                      /\ q = (IF x = s THEN <<acc>> ELSE <<>>)
      BY Zenon
    <3>2. box[x] = p \o q
      BY <3>1, <1>6, Zenon
    <3>3. p \in Seq(Messages) /\ \A i \in DOMAIN p : p[i] = ref
      BY <3>1, <2>3
    <3>4. q \in Seq(Messages) /\ \A i \in DOMAIN q : q[i] = acc
      BY <3>1, <2>2
    <3>5. PICK r : r = p \o q
      OBVIOUS
    <3>6. r \in Seq(Messages) /\ Len(r) = Len(p) + Len(q) /\ Len(p) \in Nat /\ Len(q) \in Nat
          /\ \A j \in 1 .. Len(p) + Len(q) : r[j] = IF j <= Len(p) THEN p[j] ELSE q[j - Len(p)]
      BY <3>3, <3>4, <3>5, ConcatProperties
    <3>7. ASSUME NEW i \in DOMAIN r PROVE r[i] \in {acc, ref}
      <4>1. i \in 1 .. Len(p) + Len(q)
        BY <3>6, <3>7
      <4>2. CASE i <= Len(p)
        <5>1. i \in DOMAIN p /\ r[i] = p[i]
          BY <4>1, <4>2, <3>3, <3>6
        <5> QED  BY <5>1, <3>3
      <4>3. CASE ~(i <= Len(p))
        <5>1. i - Len(p) \in DOMAIN q /\ r[i] = q[i - Len(p)]
          BY <4>1, <4>3, <3>4, <3>6
        <5> QED  BY <5>1, <3>4
      <4> QED  BY <4>2, <4>3
    <3> QED  BY <3>2, <3>5, <3>6, <3>7, Zenon
  <2>6. box \in Boxes
    <3>1. box = [x \in Seats |-> box[x]]
      BY <1>6
    <3> QED  BY <2>5, <3>1 DEF Boxes
  <2>7. \A x \in Seats : \A i \in DOMAIN box[x] : Sound(g, box[x][i], session, got)
    BY <2>4, <2>5
  <2>8. Talks(g, P, net', session, got, open, net)
    BY <2>6, <2>7, <1>8, PostTalks, Zenon
  <2> QED  BY <1>8, <2>1, <2>8, Zenon
<1> QED  BY <1>4, <1>7, <1>8, Zenon

LEMMA HearTurnKeeps ==
  ASSUME IInv, MigrationAssumption, NEW g \in Seats, NEW s \in Seats, Heard(s, g, net, net'),
         Listens(g), NEW m, m = Head(net[s][g]), m.type = "Turn",
         got' = IF TakesTurn(g, s, m) THEN [got EXCEPT ![g] = Append(@, m.by)] ELSE got,
         session' = session, open' = open, clients' = clients, alive' = alive
  PROVE  Kept
<1>1. TakesAt(g, s, m, session, got) <=> TakesTurn(g, s, m)
  BY Zenon DEF TakesAt, TakesTurn
<1>2. CASE TakesTurn(g, s, m)
  <2>1. m \in Messages
    <3>1. net[s][g] \in Seq(Messages) /\ net[s][g] # <<>>
      BY StateFacts DEF Lines, Heard
    <3> QED  BY <3>1, TailAt
  <2>2. m.by \in Seats
    BY <2>1 DEF Messages
  <2>3. got' = [got EXCEPT ![g] = Append(@, m.by)]
    BY <1>2, Zenon
  <2>4. Gains(g, m.by, got, got') /\ Grows(got, got')
    BY <2>2, <2>3, StateFacts, GainsFacts
  <2>5. IInvAt(session, got', clients, alive, open, net')
    BY <1>1, <1>2, <2>4, StateFacts, TurnKeeps, Zenon
  <2> QED  BY <2>5, Zenon DEF Kept
<1>3. CASE ~TakesTurn(g, s, m)
  <2>1. Talks(g, open, net', session, got, open, net)
    BY <1>1, <1>3, HeardTalks, Zenon
  <2>2. session[g].mode # "Host"
    BY DEF Listens
  <2>3. Changes(g, session[g], session, got) /\ session = [session EXCEPT ![g] = session[g]]
    BY <2>2, StaysAsItIs, Zenon
  <2>4. got' = got
    BY <1>3, Zenon
  <2> QED  BY <2>1, <2>3, <2>4, GuestMoves, Zenon
<1> QED  BY <1>2, <1>3, Zenon

LEMMA HearProposeKeeps ==
  ASSUME IInv, MigrationAssumption, NEW g \in Seats, NEW s \in Seats, NEW n, Heard(s, g, net, n),
         Listens(g), NEW m, m = Head(net[s][g]), m.type = "Propose", HearPropose(g, s, m, n),
         got' = got, clients' = clients, alive' = alive
  PROVE  Kept
<1>1. PICK t : t = session[g]
  OBVIOUS
<1>2. SessionOK(g, t, got) /\ t \in Sessions /\ t.mode \notin {"Host", "Lost"}
  <2>1. SessionOK(g, t, got)
    BY <1>1, StateFacts, Zenon DEF IInvAt
  <2> QED  BY <2>1, <1>1 DEF SessionOK, Draft, Listens
<1>3. Changes(g, t, session, got) /\ session = [session EXCEPT ![g] = t]
  BY <1>1, <1>2, StaysAsItIs
<1>4. Talks(g, open, n, session, got, open, net)
  <2>1. ~TakesAt(g, s, Head(net[s][g]), session, got)
    BY DEF TakesAt
  <2> QED  BY <2>1, HeardTalks, Zenon
<1>5. CASE net' = n /\ UNCHANGED <<session, open>>
  <2>1. Talks(g, open', net', session, got, open, net)
    BY <1>4, <1>5
  <2>2. session' = [session EXCEPT ![g] = t]
    BY <1>3, <1>5
  <2> QED  BY <1>3, <2>1, <2>2, GuestMoves, Zenon
<1>6. CASE net' = Post(n, g, To(s, <<RefuseMsg(t, t.host)>>)) /\ UNCHANGED <<session, open>>
  <2>1. PICK r, box : r = RefuseMsg(t, t.host) /\ box = To(s, <<r>>)
    BY Zenon
  <2>2. r \in Messages /\ r.type = "Refuse"
    BY <1>2, <2>1 DEF RefuseMsg, ElectionEpoch, Messages, Sessions
  <2>4. box \in Boxes /\ \A b \in Seats : \A i \in DOMAIN box[b] : box[b][i] = r
    BY <2>1, <2>2, ToOneFacts
  <2>5. Sound(g, r, session, got)
    BY <2>2 DEF Sound
  <2>6. \A b \in Seats : \A i \in DOMAIN box[b] : Sound(g, box[b][i], session, got)
    BY <2>4, <2>5, Zenon
  <2>7. net' = Post(n, g, box)
    BY <1>6, <2>1, Zenon
  <2>8. Talks(g, open, net', session, got, open, net)
    BY <1>4, <2>4, <2>6, <2>7, PostTalks, Zenon
  <2>9. Talks(g, open', net', session, got, open, net) /\ session' = [session EXCEPT ![g] = t]
    BY <2>8, <1>3, <1>6
  <2> QED  BY <1>3, <2>9, GuestMoves, Zenon
<1>7. CASE /\ t.mode = "Normal"
           /\ AnswerProposal(g, s, [BegunElection(t) EXCEPT !.dead = @ \ {s}], CutOff(g, n))
           /\ open' = open \ {{g, t.host}}
  <2>1. PICK v, u : v = BegunElection(t) /\ u = [v EXCEPT !.dead = @ \ {s}]
    BY Zenon
  <2>2. SessionOK(g, v, got) /\ v.mode = "Electing" /\ Idle(t, v)
    BY <1>2, <2>1, StateFacts, BegunOK, Zenon
  <2>3. v \in Sessions /\ v.target <= MaxTurns /\ v.refusals <= RefusalLimit
    BY <2>2, Zenon DEF SessionOK, Draft
  <2>4. u \in Sessions /\ u.expected = v.expected /\ u.answers = v.answers /\ u.target = v.target
        /\ u.refusals = v.refusals /\ u.mode = v.mode /\ u.epoch = v.epoch
    BY <2>1, <2>3 DEF Sessions
  <2>5. SessionOK(g, u, got)
    <3>1. Directed(u)
      BY <2>2, <2>4 DEF Directed
    <3> QED  BY <3>1, <2>2, <2>3, <2>4, FieldsOK, Zenon
  <2>6. u.mode \in {"Electing", "Following", "Fetching"} /\ u.epoch = session[g].epoch
    BY <2>2, <2>4, <1>1 DEF Idle
  <2>7. PICK M : M = CutOff(g, n)
    OBVIOUS
  <2>8. Talks(g, open \ {{g, session[g].host}}, M, session, got, open, net)
    BY <1>1, <1>4, <1>7, <2>7, CutOffTalks, Zenon
  <2>9. Talks(g, open', M, session, got, open, net)
    BY <2>8, <1>1, <1>7, Zenon
  <2>10. AnswerProposal(g, s, u, M)
    BY <1>7, <2>1, <2>7, Zenon
  <2>11. session[g].mode \notin {"Host", "Lost"}
    BY <1>1, <1>2
  <2>12. /\ \E w : Changes(g, w, session, got) /\ session' = [session EXCEPT ![g] = w]
         /\ Talks(g, open', net', session, got, open, net)
    BY <2>5, <2>6, <2>9, <2>10, <2>11, AnswerProposalFacts, Zenon
  <2> QED  BY <2>12, GuestMoves, Zenon
<1>8. CASE /\ Electing(g)
           /\ AnswerProposal(g, s, [t EXCEPT !.dead = @ \ {s}], n)
           /\ UNCHANGED open
  <2>1. PICK u : u = [t EXCEPT !.dead = @ \ {s}]
    OBVIOUS
  <2>2. t.target <= MaxTurns /\ t.refusals <= RefusalLimit
    BY <1>2, Zenon DEF SessionOK, Draft
  <2>3. u \in Sessions /\ u.expected = t.expected /\ u.answers = t.answers /\ u.target = t.target
        /\ u.refusals = t.refusals /\ u.mode = t.mode /\ u.epoch = t.epoch
    BY <2>1, <1>2 DEF Sessions
  <2>4. SessionOK(g, u, got)
    <3>1. u.following = t.following /\ u.source = t.source
      BY <2>1, <1>2 DEF Sessions
    <3>2. Directed(u)
      BY <3>1, <2>3, <1>2, DirectedSame
    <3> QED  BY <3>2, <1>2, <2>2, <2>3, FieldsOK, Zenon
  <2>5. u.mode \in {"Electing", "Following", "Fetching"} /\ u.epoch = session[g].epoch
    BY <2>3, <1>1, <1>8 DEF Electing
  <2>6. AnswerProposal(g, s, u, n) /\ open' = open
    BY <1>8, <2>1, Zenon
  <2>7. session[g].mode \notin {"Host", "Lost"}
    BY <1>1, <1>2
  <2>8. /\ \E w : Changes(g, w, session, got) /\ session' = [session EXCEPT ![g] = w]
        /\ Talks(g, open', net', session, got, open, net)
    BY <2>4, <2>5, <2>6, <2>7, <1>4, AnswerProposalFacts, Zenon
  <2> QED  BY <2>8, GuestMoves, Zenon
<1>9. \/ net' = n /\ UNCHANGED <<session, open>>
      \/ net' = Post(n, g, To(s, <<RefuseMsg(t, t.host)>>)) /\ UNCHANGED <<session, open>>
      \/ /\ t.mode = "Normal"
         /\ AnswerProposal(g, s, [BegunElection(t) EXCEPT !.dead = @ \ {s}], CutOff(g, n))
         /\ open' = open \ {{g, t.host}}
      \/ /\ Electing(g)
         /\ AnswerProposal(g, s, [t EXCEPT !.dead = @ \ {s}], n)
         /\ UNCHANGED open
  BY <1>1, Zenon DEF HearPropose
<1> QED  BY <1>5, <1>6, <1>7, <1>8, <1>9, Zenon

LEMMA HearAnswerKeeps ==
  ASSUME IInv, MigrationAssumption, NEW g \in Seats, NEW s \in Seats, NEW n, Heard(s, g, net, n),
         Listens(g), NEW m, m = Head(net[s][g]), m.type \in {"Accept", "Refuse"},
         HearAnswer(g, s, m, n), got' = got, open' = open, clients' = clients, alive' = alive
  PROVE  Kept
<1>1. PICK t : t = session[g]
  OBVIOUS
<1>2. SessionOK(g, t, got) /\ t \in Sessions /\ t.mode \notin {"Host", "Lost"}
  <2>1. SessionOK(g, t, got)
    BY <1>1, StateFacts, Zenon DEF IInvAt
  <2> QED  BY <2>1, <1>1 DEF SessionOK, Draft, Listens
<1>3. net[s][g] \in Seq(Messages) /\ net[s][g] # <<>>
  <2>1. net[s][g] # <<>>
    BY Zenon DEF Heard
  <2> QED  BY <2>1, StateFacts DEF Lines
<1>4. m \in Messages /\ m = net[s][g][1] /\ 1 \in DOMAIN net[s][g]
  <2>1. PICK q : q = net[s][g]
    OBVIOUS
  <2>2. Head(q) \in Messages /\ Head(q) = q[1] /\ Len(q) \in Nat \ {0}
    BY <1>3, <2>1, TailAt
  <2>3. 1 \in DOMAIN q
    BY <1>3, <2>1, <2>2
  <2> QED  BY <2>1, <2>2, <2>3
<1>5. Sound(s, m, session, got)
  <2>1. Sound(s, net[s][g][1], session, got)
    BY <1>4, StateFacts, Zenon DEF IInvAt
  <2> QED  BY <1>4, <2>1, Zenon
<1>6. PICK answer : answer = IF m.type = "Accept" THEN [accepted |-> TRUE, next |-> m.next]
                                                  ELSE [accepted |-> FALSE, lowest |-> m.lowest]
  OBVIOUS
<1>7. answer \in Answers /\ (answer.accepted => answer.next <= Len(got[s]))
  <2>1. CASE m.type = "Accept"
    <3>1. m.next \in Nat /\ m.next <= Len(got[s])
      BY <2>1, <1>4, <1>5 DEF Messages, Sound
    <3>2. answer = [accepted |-> TRUE, next |-> m.next]
      BY <2>1, <1>6, Zenon
    <3> QED  BY <3>1, <3>2 DEF Answers
  <2>2. CASE m.type = "Refuse"
    <3>1. m.lowest \in Seats
      BY <2>2, <1>4 DEF Messages
    <3>2. m.type # "Accept"
      BY <2>2
    <3>3. answer = [accepted |-> FALSE, lowest |-> m.lowest]
      BY <3>2, <1>6, Zenon
    <3> QED  BY <3>1, <3>3 DEF Answers
  <2> QED  BY <2>1, <2>2
<1>8. PICK noted : noted = [x \in DOMAIN t.answers \cup {s} |-> IF x = s THEN answer ELSE t.answers[x]]
  OBVIOUS
<1>9. PICK u : session' = [session EXCEPT ![g] = u]
               /\ \/ u = [t EXCEPT !.following = None, !.mode = "Electing"]
                         /\ m.type = "Refuse" /\ m.epoch = ElectionEpoch(t) /\ t.following = s
                  \/ u = [t EXCEPT !.answers = noted] /\ s \in t.expected
                  \/ u = t
  <2>1. session' = [session EXCEPT ![g] =
          IF m.type = "Refuse" /\ m.epoch = ElectionEpoch(t) /\ t.following = s
          THEN [t EXCEPT !.following = None, !.mode = "Electing"]
          ELSE IF t.proposed /\ m.epoch = ElectionEpoch(t) /\ s \in t.expected
               THEN [t EXCEPT !.answers = noted] ELSE t]
    BY <1>1, <1>6, <1>8, Zenon DEF HearAnswer
  <2> QED  BY <2>1, Zenon
<1>10. t.target <= MaxTurns /\ t.refusals <= RefusalLimit /\ t.expected \subseteq Seats \ {g}
       /\ DOMAIN t.answers \subseteq t.expected
  BY <1>2, Zenon DEF SessionOK, Draft
<1>11. Changes(g, t, session, got)
  BY <1>1, <1>2, StaysAsItIs
<1>12. Changes(g, u, session, got)
  <2>1. CASE u = t
    BY <2>1, <1>11
  <2>2. CASE u = [t EXCEPT !.following = None, !.mode = "Electing"]
    <3>1. u \in Sessions /\ u.expected = t.expected /\ u.answers = t.answers /\ u.target = t.target
          /\ u.refusals = t.refusals /\ u.mode = "Electing" /\ u.epoch = t.epoch
      BY <2>2, <1>2 DEF Sessions, Modes
    <3>2. SessionOK(g, u, got)
      <4>1. Directed(u)
        BY <3>1 DEF Directed
      <4> QED  BY <4>1, <3>1, <1>2, <1>10, FieldsOK, Zenon
    <3> QED  BY <3>1, <3>2, <1>1, <1>2 DEF Changes
  <2>3. CASE u = [t EXCEPT !.answers = noted] /\ s \in t.expected
    <3>1. PICK D : D = DOMAIN t.answers \cup {s}
      OBVIOUS
    <3>2. DOMAIN noted = D /\ D \subseteq t.expected /\ D \in SUBSET Seats
      BY <3>1, <1>8, <1>10, <2>3
    <3>3. ASSUME NEW x \in D
          PROVE  noted[x] \in Answers /\ (noted[x].accepted => noted[x].next <= Len(got[x]))
      <4>1. noted[x] = IF x = s THEN answer ELSE t.answers[x]
        BY <3>1, <3>3, <1>8, Zenon
      <4>2. CASE x = s
        BY <4>1, <4>2, <1>7, Zenon
      <4>3. CASE x # s
        <5>1. x \in DOMAIN t.answers
          BY <4>3, <3>1, <3>3
        <5>2. t.answers[x] \in Answers
          BY <5>1, <1>2 DEF Sessions
        <5>3. t.answers[x].accepted => t.answers[x].next <= Len(got[x])
          BY <5>1, <1>2, Zenon DEF SessionOK, Draft
        <5> QED  BY <4>1, <4>3, <5>2, <5>3, Zenon
      <4> QED  BY <4>2, <4>3, Zenon
    <3>4. noted \in UNION {[T -> Answers] : T \in SUBSET Seats}
      <4>1. noted = [x \in D |-> noted[x]]
        BY <3>1, <1>8
      <4>2. noted \in [D -> Answers]
        BY <4>1, <3>3
      <4> QED  BY <4>2, <3>2
    <3>5. u \in Sessions /\ u.expected = t.expected /\ u.answers = noted /\ u.target = t.target
          /\ u.refusals = t.refusals /\ u.mode = t.mode /\ u.epoch = t.epoch /\ u.host = t.host
      BY <2>3, <3>4, <1>2 DEF Sessions
    <3>6. SessionOK(g, u, got)
      <4>1. u.following = t.following /\ u.source = t.source
        BY <2>3, <1>2 DEF Sessions
      <4>2. Directed(u)
        BY <4>1, <3>5, <1>2, DirectedSame
      <4> QED  BY <4>2, <3>2, <3>3, <3>5, <1>10, Zenon DEF SessionOK, Draft
    <3> QED  BY <3>5, <3>6, <1>1, <1>2 DEF Changes
  <2> QED  BY <2>1, <2>2, <2>3, <1>9, Zenon
<1>13. Talks(g, open', net', session, got, open, net)
  <2>1. ~TakesAt(g, s, Head(net[s][g]), session, got)
    BY DEF TakesAt
  <2>2. Talks(g, open, n, session, got, open, net)
    BY <2>1, HeardTalks, Zenon
  <2>3. net' = n
    BY Zenon DEF HearAnswer
  <2> QED  BY <2>2, <2>3, Zenon
<1> QED  BY <1>9, <1>12, <1>13, GuestMoves, Zenon

LEMMA HearResumeKeeps ==
  ASSUME IInv, MigrationAssumption, NEW g \in Seats, NEW s \in Seats, NEW n, Heard(s, g, net, n),
         Listens(g), NEW m, m = Head(net[s][g]), m.type = "Resume",
         HearResume(g, s, m, n), got' = got, open' = open, clients' = clients, alive' = alive
  PROVE  Kept
<1>1. PICK t : t = session[g]
  OBVIOUS
<1>2. SessionOK(g, t, got) /\ t \in Sessions /\ t.mode \notin {"Host", "Lost"}
  <2>1. SessionOK(g, t, got)
    BY <1>1, StateFacts, Zenon DEF IInvAt
  <2> QED  BY <2>1, <1>1 DEF SessionOK, Draft, Listens
<1>3. Talks(g, open', net', session, got, open, net)
  <2>1. ~TakesAt(g, s, Head(net[s][g]), session, got)
    BY DEF TakesAt
  <2>2. Talks(g, open, n, session, got, open, net)
    BY <2>1, HeardTalks, Zenon
  <2>3. net' = n
    BY Zenon DEF HearResume
  <2> QED  BY <2>2, <2>3, Zenon
<1>7. session' = [session EXCEPT ![g] =
          IF ~Honours(g, s, m) THEN t
          ELSE IF m.turn < Len(got[g]) THEN GoneLost(t)
          ELSE [NewSession EXCEPT !.host = s, !.epoch = m.epoch]]
  BY <1>1, Zenon DEF HearResume
<1>4. CASE ~Honours(g, s, m)
  <2>1. session' = [session EXCEPT ![g] = t]
    BY <1>4, <1>7, Zenon
  <2>2. Changes(g, t, session, got)
    BY <1>1, <1>2, StaysAsItIs
  <2> QED  BY <2>1, <2>2, <1>3, GuestMoves, Zenon
<1>5. CASE Honours(g, s, m) /\ m.turn < Len(got[g])
  <2>1. PICK u : u = GoneLost(t)
    OBVIOUS
  <2>2. session' = [session EXCEPT ![g] = u]
    BY <1>5, <1>7, <2>1, Zenon
  <2>3. SessionOK(g, u, got) /\ u.mode = "Lost" /\ u.epoch = t.epoch
    <3>1. world \in Worlds
      BY StateFacts
    <3>2. SessionOK(g, u, got)
      BY <1>2, <2>1, <3>1, GoneLostOK, Zenon
    <3>3. u.mode = "Lost" /\ u.epoch = t.epoch
      BY <1>2, <2>1 DEF GoneLost, Withdrawn, Sessions
    <3> QED  BY <3>2, <3>3
  <2>4. Changes(g, u, session, got)
    BY <2>3, <1>1, <1>2 DEF Changes
  <2> QED  BY <2>2, <2>4, <1>3, GuestMoves, Zenon
<1>6. CASE Honours(g, s, m) /\ ~(m.turn < Len(got[g]))
  <2>1. PICK u : u = [NewSession EXCEPT !.host = s, !.epoch = m.epoch]
    OBVIOUS
  <2>2. session' = [session EXCEPT ![g] = u]
    BY <1>6, <1>7, <2>1, Zenon
  <2>3. u = SessionWith("Normal", s, m.epoch)
    BY <2>1 DEF NewSession, SessionWith
  <2>4. net[s][g] \in Seq(Messages) /\ net[s][g] # <<>>
    <3>1. net[s][g] # <<>>
      BY Zenon DEF Heard
    <3> QED  BY <3>1, StateFacts DEF Lines
  <2>5. m \in Messages
    BY <2>4, TailAt
  <2>6. m.epoch \in Nat /\ m.turn \in Nat
    BY <2>5 DEF Messages
  <2>7. PICK md, e : md = "Normal" /\ e = m.epoch
    OBVIOUS
  <2>13. md \in {"Normal", "Host"} /\ e \in Nat /\ u = SessionWith(md, s, e)
    BY <2>3, <2>6, <2>7
  <2>8. SessionOK(g, u, got) /\ u.mode = "Normal" /\ u.host = s /\ u.epoch = m.epoch
    <3>1. SessionOK(g, u, got) /\ u.mode = md /\ u.host = s /\ u.epoch = e
      <4>1. world \in Worlds
        BY StateFacts
      <4>2. SessionOK(g, u, got)
        BY <2>13, <4>1, NewSessionOK, ZenonT(60)
      <4>3. u.mode = md /\ u.host = s /\ u.epoch = e
        BY <2>13 DEF SessionWith
      <4> QED  BY <4>2, <4>3
    <3> QED  BY <3>1, <2>7, Zenon
  <2>9. Len(got[g]) <= m.turn
    <3>1. got[g] \in Seq(Seats)
      BY StateFacts, Zenon
    <3>2. Len(got[g]) \in Nat
      BY <3>1
    <3> QED  BY <3>2, <2>6, <1>6
  <2>10. session[g].mode \notin {"Host", "Lost"}
    BY <1>1, <1>2
  <2>11. Heard(s, g, net, net')
    BY Zenon DEF HearResume
  <2>12. IInvAt(session', got, clients, alive, open, net')
    BY <2>2, <2>8, <2>9, <2>10, <2>11, StateFacts, JoinKeeps, Zenon
  <2> QED  BY <2>12, Zenon DEF Kept
<1> QED  BY <1>4, <1>5, <1>6, Zenon

\* Sound turns of a machine's own
LEMMA TurnsFromSound ==
  ASSUME IInv, MigrationAssumption, NEW g \in Seats, NEW first \in Nat,
         NEW T, T = TurnsFrom(g, first), NEW i \in DOMAIN T, NEW S
  PROVE  T[i] \in Messages /\ T[i].type = "Turn" /\ Sound(g, T[i], S, got)
<1>1. got \in [Seats -> Seq(Seats)]
  BY StateFacts
<1>2. /\ i \in Nat \ {0} /\ first + i <= Len(got[g]) /\ T \in Seq(Messages)
      /\ T[i] = [type |-> "Turn", turn |-> first + i - 1, by |-> got[g][first + i]]
  <2>1. AreTurns(T, g, first)
    BY <1>1, TurnsFromFacts, Zenon
  <2> QED  BY <2>1, Zenon DEF AreTurns
<1>3. T[i] \in Messages
  BY <1>2
<1>4. PICK k : k = first + i
  OBVIOUS
<1>5. k \in Nat /\ k <= Len(got[g]) /\ Len(got[g]) \in Nat /\ k - 1 < Len(got[g]) /\ (k - 1) + 1 = k
  <2>1. Len(got[g]) \in Nat
    BY <1>1
  <2> QED  BY <2>1, <1>2, <1>4
<1>6. T[i].type = "Turn" /\ T[i].turn = k - 1 /\ T[i].by = got[g][k]
  BY <1>2, <1>4
<1>7. Sound(g, T[i], S, got)
  BY <1>5, <1>6 DEF Sound
<1> QED  BY <1>3, <1>6, <1>7

LEMMA HearRequestKeeps ==
  ASSUME IInv, MigrationAssumption, NEW g \in Seats, NEW s \in Seats, NEW n, Heard(s, g, net, n),
         Listens(g), NEW m, m = Head(net[s][g]), m.type = "Request",
         net' = Post(n, g, To(s, TurnsFrom(g, m.turn))),
         session' = session, got' = got, open' = open, clients' = clients, alive' = alive
  PROVE  Kept
<1>1. m \in Messages
  <2>1. net[s][g] # <<>>
    BY Zenon DEF Heard
  <2>2. net[s][g] \in Seq(Messages)
    BY StateFacts DEF Lines
  <2> QED  BY <2>1, <2>2, TailAt
<1>2. m.turn \in Nat
  BY <1>1 DEF Messages
<1>3. PICK T, box : T = TurnsFrom(g, m.turn) /\ box = To(s, T)
  BY Zenon
<1>4. T \in Seq(Messages) /\ \A i \in DOMAIN T : Sound(g, T[i], session, got)
  <2>1. T \in Seq(Messages)
    <3>1. AreTurns(T, g, m.turn)
      BY <1>2, <1>3, StateFacts, TurnsFromFacts, Zenon
    <3> QED  BY <3>1, Zenon DEF AreTurns
  <2>2. \A i \in DOMAIN T : Sound(g, T[i], session, got)
    BY <1>2, <1>3, TurnsFromSound
  <2> QED  BY <2>1, <2>2
<1>5. box \in Boxes /\ \A b \in Seats : \A i \in DOMAIN box[b] : i \in DOMAIN T /\ box[b][i] = T[i]
  <2>1. T \in Seq(Messages) /\ box = To(s, T)
    BY <1>3, <1>4
  <2>2. box \in Boxes
    BY <2>1, ToFacts
  <2>3. \A b \in Seats : \A i \in DOMAIN box[b] : i \in DOMAIN T /\ box[b][i] = T[i]
    BY <2>1, ToFacts
  <2> QED  BY <2>2, <2>3
<1>6. \A b \in Seats : \A i \in DOMAIN box[b] : Sound(g, box[b][i], session, got)
  BY <1>4, <1>5, Zenon
<1>7. Talks(g, open, n, session, got, open, net)
  <2>1. ~TakesAt(g, s, Head(net[s][g]), session, got)
    BY DEF TakesAt
  <2> QED  BY <2>1, HeardTalks, Zenon
<1>8. net' = Post(n, g, box)
  BY <1>3, Zenon
<1>9. Talks(g, open, net', session, got, open, net)
  BY <1>5, <1>6, <1>7, <1>8, PostTalks, Zenon
<1>10. Talks(g, open', net', session, got, open, net)
  BY <1>9, Zenon
<1>11. session[g].mode # "Host"
  BY DEF Listens
<1>12. Changes(g, session[g], session, got) /\ session' = [session EXCEPT ![g] = session[g]]
  BY <1>11, StaysAsItIs
<1> QED  BY <1>10, <1>12, GuestMoves, Zenon

LEMMA HearKeeps ==
  ASSUME IInv, MigrationAssumption, NEW g \in Seats, NEW s \in Seats, Hear(g, s)
  PROVE  Kept
<1>1. Listens(g) /\ net[s][g] # <<>> /\ clients' = clients /\ alive' = alive
  BY Zenon DEF Hear
<1>2. PICK m, n : m = Head(net[s][g]) /\ n = [net EXCEPT ![s][g] = Tail(@)]
  BY Zenon
<1>3. Heard(s, g, net, n)
  BY <1>1, <1>2, StateFacts, HeardFacts
<1>4. CASE /\ m.type = "Turn"
           /\ got' = IF TakesTurn(g, s, m) THEN [got EXCEPT ![g] = Append(@, m.by)] ELSE got
           /\ net' = n /\ session' = session /\ open' = open
  <2>1. Heard(s, g, net, net')
    BY <1>3, <1>4
  <2> QED  BY <1>1, <1>2, <1>4, <2>1, HearTurnKeeps, Zenon
<1>5. CASE m.type = "Propose" /\ HearPropose(g, s, m, n) /\ got' = got
  BY <1>1, <1>2, <1>3, <1>5, HearProposeKeeps, Zenon
<1>6. CASE m.type \in {"Accept", "Refuse"} /\ HearAnswer(g, s, m, n) /\ got' = got /\ open' = open
  BY <1>1, <1>2, <1>3, <1>6, HearAnswerKeeps, Zenon
<1>7. CASE m.type = "Resume" /\ HearResume(g, s, m, n) /\ got' = got /\ open' = open
  BY <1>1, <1>2, <1>3, <1>7, HearResumeKeeps, Zenon
<1>8. CASE /\ m.type = "Request" /\ net' = Post(n, g, To(s, TurnsFrom(g, m.turn)))
           /\ session' = session /\ got' = got /\ open' = open
  BY <1>1, <1>2, <1>3, <1>8, HearRequestKeeps, Zenon
<1>9. \/ /\ m.type = "Turn"
         /\ got' = IF TakesTurn(g, s, m) THEN [got EXCEPT ![g] = Append(@, m.by)] ELSE got
         /\ net' = n /\ session' = session /\ open' = open
      \/ m.type = "Propose" /\ HearPropose(g, s, m, n) /\ got' = got
      \/ m.type \in {"Accept", "Refuse"} /\ HearAnswer(g, s, m, n) /\ got' = got /\ open' = open
      \/ m.type = "Resume" /\ HearResume(g, s, m, n) /\ got' = got /\ open' = open
      \/ /\ m.type = "Request" /\ net' = Post(n, g, To(s, TurnsFrom(g, m.turn)))
         /\ session' = session /\ got' = got /\ open' = open
  BY <1>2, Zenon DEF Hear
<1> QED  BY <1>4, <1>5, <1>6, <1>7, <1>8, <1>9, Zenon

\* What the session of a guest or of one that elects is
LEMMA OwnSession ==
  ASSUME IInv, MigrationAssumption, NEW g \in Seats, NEW t, t = session[g]
  PROVE  SessionOK(g, t, got) /\ t \in Sessions
<1>1. SessionOK(g, t, got)
  BY StateFacts, Zenon DEF IInvAt
<1> QED  BY <1>1, Zenon DEF SessionOK, Draft

LEMMA NoticesLossKeeps ==
  ASSUME IInv, MigrationAssumption, NEW g \in Seats, NoticesLoss(g)
  PROVE  Kept
<1>1. PICK t, u, M : t = session[g] /\ u = BegunElection(t) /\ M = CutOff(g, net)
  BY Zenon
<1>2. /\ t.mode = "Normal" /\ session' = [session EXCEPT ![g] = u]
      /\ open' = open \ {{g, session[g].host}} /\ net' = M
      /\ got' = got /\ clients' = clients /\ alive' = alive
  BY <1>1, Zenon DEF NoticesLoss
<1>3. SessionOK(g, t, got)
  BY <1>1, OwnSession, Zenon
<1>4. SessionOK(g, u, got) /\ u.mode = "Electing" /\ Idle(t, u)
  BY <1>1, <1>3, StateFacts, BegunOK
<1>5. Changes(g, u, session, got)
  BY <1>1, <1>2, <1>4 DEF Changes, Idle
<1>6. Talks(g, open, net, session, got, open, net)
  BY NothingTalks
<1>7. Talks(g, open', net', session, got, open, net)
  <2>1. Talks(g, open \ {{g, session[g].host}}, M, session, got, open, net)
    BY <1>1, <1>2, <1>6, CutOffTalks, Zenon
  <2> QED  BY <1>2, <2>1, Zenon
<1> QED  BY <1>2, <1>5, <1>7, GuestMoves, Zenon

\* One machine tells some others one thing that is true.
LEMMA TellsTrue ==
  ASSUME IInv, MigrationAssumption, NEW g \in Seats, NEW T, NEW m \in Messages,
         Sound(g, m, session, got), NEW M, M = Post(net, g, ToAll(T, m))
  PROVE  Talks(g, open, M, session, got, open, net)
<1>1. PICK box : box = ToAll(T, m)
  OBVIOUS
<1>2. box \in Boxes /\ \A s \in Seats : \A i \in DOMAIN box[s] : box[s][i] = m
  <2>1. box \in Boxes
    BY <1>1, ToAllFacts, Zenon
  <2>2. Repeats(box, m)
    BY <1>1, ToAllFacts, Zenon
  <2> QED  BY <2>1, <2>2, Zenon DEF Repeats
<1>3. \A s \in Seats : \A i \in DOMAIN box[s] : Sound(g, box[s][i], session, got)
  BY <1>2, Zenon
<1>4. Talks(g, open, net, session, got, open, net)
  BY NothingTalks
<1>5. M = Post(net, g, box)
  BY <1>1, Zenon
<1> QED  BY <1>2, <1>3, <1>4, <1>5, PostTalks, Zenon

LEMMA ProposeKeeps ==
  ASSUME IInv, MigrationAssumption, NEW g \in Seats, Propose(g)
  PROVE  Kept
<1>1. PICK t, peers, m :
        /\ t = session[g] /\ peers = {s \in Seats \ {g} : s \notin t.dead /\ PeerAlive(g, s)}
        /\ m = [type |-> "Propose", epoch |-> ElectionEpoch(t)]
  BY Zenon
<1>2. PICK u : u = [t EXCEPT !.proposed = TRUE, !.expected = peers, !.answers = <<>>]
  OBVIOUS
<1>3. /\ t.mode = "Electing" /\ session' = [session EXCEPT ![g] = u]
      /\ net' = Post(net, g, ToAll(peers, m))
      /\ got' = got /\ clients' = clients /\ alive' = alive /\ open' = open
  BY <1>1, <1>2, Zenon DEF Propose
<1>4. SessionOK(g, t, got) /\ t \in Sessions
  BY <1>1, OwnSession, Zenon
<1>5. peers \subseteq Seats \ {g}
  BY <1>1
<1>6. <<>> \in UNION {[T -> Answers] : T \in SUBSET Seats} /\ DOMAIN <<>> = {}
  <2>1. <<>> \in [{} -> Answers] /\ {} \in SUBSET Seats
    OBVIOUS
  <2> QED  BY <2>1
<1>7. u \in Sessions /\ u.expected = peers /\ u.answers = <<>> /\ u.target = t.target
      /\ u.refusals = t.refusals /\ u.mode = t.mode /\ u.epoch = t.epoch
  BY <1>2, <1>4, <1>5, <1>6 DEF Sessions
<1>8. SessionOK(g, u, got)
  <2>1. t.target <= MaxTurns /\ t.refusals <= RefusalLimit
    BY <1>4, Zenon DEF SessionOK, Draft
  <2>2. Directed(u)
    BY <1>3, <1>7 DEF Directed
  <2> QED  BY <2>1, <2>2, <1>5, <1>6, <1>7 DEF SessionOK, Draft
<1>9. Changes(g, u, session, got)
  BY <1>1, <1>3, <1>7, <1>8 DEF Changes
<1>10. m \in Messages /\ Sound(g, m, session, got)
  <2>1. t.epoch \in Nat
    BY <1>4 DEF Sessions
  <2> QED  BY <2>1, <1>1 DEF Messages, ElectionEpoch, Sound
<1>11. Talks(g, open, net', session, got, open, net)
  BY <1>3, <1>10, TellsTrue, Zenon
<1>12. Talks(g, open', net', session, got, open, net)
  BY <1>3, <1>11, Zenon
<1> QED  BY <1>3, <1>9, <1>12, GuestMoves, Zenon

\* The places behind the k-th and the next one.
Behind(j, L, first, i, k) == j \in 1 .. L - first /\ i = k + (1 + j) /\ first + j \in 1 .. L

LEMMA BehindMark ==
  ASSUME NEW L \in Nat, NEW first \in Nat, NEW k \in Nat, NEW i \in 1 .. k + (1 + (L - first)),
         ~(i <= k), i # k + 1, NEW j, j = i - k - 1
  PROVE  Behind(j, L, first, i, k)
BY DEF Behind

\* promote_to_host(): what a machine that takes over says to a follower
LEMMA ToldFacts ==
  ASSUME IInv, MigrationAssumption, NEW g \in Seats, NEW b \in Seats, NEW first \in Nat,
         first <= Len(got[b]),
         NEW r \in Messages, r.type = "Resume", r.turn = Len(got[g]),
         NEW p \in Seq(Messages), \A i \in DOMAIN p : p[i].type # "Resume",
         NEW T, T = TurnsFrom(g, first), NEW q, q = p \o (<<r>> \o T),
         NEW i \in DOMAIN q, q[i].type = "Resume", Len(got[b]) <= r.turn
  PROVE  Ends(q, i, g, Len(got[b]), got)
<1>1. PICK L, n, k : L = Len(got[g]) /\ n = Len(got[b]) /\ k = Len(p)
  OBVIOUS
<1>2. L \in Nat /\ n \in Nat /\ k \in Nat /\ first <= n /\ n <= L
  <2>1. got[g] \in Seq(Seats) /\ got[b] \in Seq(Seats)
    BY StateFacts, Zenon
  <2> QED  BY <2>1, <1>1
<1>3. AreTurns(T, g, first)
  BY StateFacts, TurnsFromFacts, Zenon
<1>4. T \in Seq(Messages) /\ Len(T) = L - first
  <2>1. T \in Seq(Messages) /\ (first <= L => Len(T) = L - first)
    BY <1>1, <1>3, Zenon DEF AreTurns
  <2> QED  BY <2>1, <1>2
<1>13. PICK U : U = [j \in 1 .. L |-> [type |-> "Turn", turn |-> j - 1, by |-> got[g][j]]]
  OBVIOUS
<1>5. ASSUME NEW j \in 1 .. L - first PROVE T[j] = U[first + j]
  <2>1. DOMAIN T = 1 .. L - first
    BY <1>4, <1>2
  <2>2. T[j] = [type |-> "Turn", turn |-> first + j - 1, by |-> got[g][first + j]]
    BY <1>3, <1>5, <2>1, Zenon DEF AreTurns
  <2>3. first + j \in 1 .. L
    BY <1>2, <1>5
  <2>4. PICK x : x = first + j
    OBVIOUS
  <2>5. x \in 1 .. L /\ T[j] = [type |-> "Turn", turn |-> x - 1, by |-> got[g][x]]
    <3>1. [type |-> "Turn", turn |-> x - 1, by |-> got[g][x]]
            = [type |-> "Turn", turn |-> first + j - 1, by |-> got[g][first + j]]
      BY <2>4
    <3> QED  BY <2>2, <2>3, <2>4, <3>1, Zenon
  <2>6. U[x] = [type |-> "Turn", turn |-> x - 1, by |-> got[g][x]]
    BY <1>13, <2>5, Zenon
  <2> QED  BY <2>4, <2>5, <2>6, Zenon
<1>14. \A j \in 1 .. L : U[j].type = "Turn"
  BY <1>13
<1>6. PICK v, w : v = <<r>> /\ w = v \o T
  OBVIOUS
<1>7. Joined(w, v, T, 1, L - first) /\ v[1] = r
  <2>1. v \in Seq(Messages) /\ 1 = Len(v) /\ v[1] = r
    BY <1>6
  <2>2. L - first = Len(T) /\ w = v \o T
    BY <1>4, <1>6
  <2> QED  BY <2>1, <2>2, <1>4, JoinedFacts, Zenon
<1>8. PICK l : l = Len(w) /\ l = 1 + (L - first) /\ Joined(q, p, w, k, l)
  <2>1. q = p \o w
    BY <1>6, Zenon
  <2>2. w \in Seq(Messages) /\ Len(w) = 1 + (L - first)
    BY <1>7, Zenon DEF Joined
  <2> QED  BY <2>1, <2>2, <1>1, JoinedFacts, Zenon
<1>15. l \in Nat /\ q \in Seq(Messages) /\ Len(q) = k + l /\ (\A j \in 1 .. k : q[j] = p[j])
       /\ (\A j \in 1 .. l : q[k + j] = w[j])
  <2>1. Joined(q, p, w, k, l)
    BY <1>8
  <2> QED  BY <2>1 DEF Joined
<1>16. w[1] = r /\ \A j \in 1 .. L - first : w[1 + j] = T[j]
  <2>1. 1 \in 1 .. 1
    OBVIOUS
  <2> QED  BY <2>1, <1>7, Zenon DEF Joined
<1>17. ASSUME NEW j \in 1 .. L - first PROVE q[k + (1 + j)] = U[first + j]
  <2>1. 1 + j \in 1 .. l
    <3>1. l = 1 + (L - first)
      BY <1>8
    <3> QED  BY <3>1, <1>2, <1>17
  <2>2. q[k + (1 + j)] = w[1 + j]
    BY <2>1, <1>15
  <2> QED  BY <2>2, <1>5, <1>16, <1>17
<1>9. i = k + 1
  <2>1. i \in 1 .. k + l
    BY <1>15
  <2>2. CASE i \in 1 .. k
    <3>1. i \in DOMAIN p /\ q[i] = p[i]
      BY <2>2, <1>1, <1>15
    <3> QED  BY <3>1
  <2>3. CASE ~(i <= k) /\ i # k + 1
    <3>1. PICK j : j = i - k - 1
      OBVIOUS
    <3>5. l = 1 + (L - first)
      BY <1>8
    <3>2. j \in 1 .. L - first /\ i = k + (1 + j) /\ first + j \in 1 .. L
      <4>1. i \in 1 .. k + (1 + (L - first))
        BY <2>1, <3>5, Zenon
      <4>2. Behind(j, L, first, i, k)
        BY <4>1, <2>3, <3>1, <1>2, BehindMark, Zenon
      <4> QED  BY <4>2, Zenon DEF Behind
    <3>3. q[i] = U[first + j]
      BY <3>2, <1>17, Zenon
    <3>4. U[first + j].type = "Turn"
      BY <3>2, <1>14, Zenon
    <3> QED  BY <3>3, <3>4
  <2> QED  BY <2>1, <2>2, <2>3, <1>2
<1>10. L - n <= (k + l) - i
  BY <1>2, <1>8, <1>9
<1>11. ASSUME NEW j \in 1 .. L, n < j
       PROVE  q[(k + l) - L + j] = [type |-> "Turn", turn |-> j - 1, by |-> got[g][j]]
  <2>1. PICK d : d = j - first
    OBVIOUS
  <2>2. d \in 1 .. L - first /\ first + d = j /\ (k + l) - L + j = k + (1 + d)
    BY <2>1, <1>2, <1>8, <1>11
  <2>3. q[k + (1 + d)] = U[first + d]
    BY <2>2, <1>17, Zenon
  <2>4. U[j] = [type |-> "Turn", turn |-> j - 1, by |-> got[g][j]]
    BY <1>11, <1>13, Zenon
  <2> QED  BY <2>2, <2>3, <2>4, Zenon
<1>12. Len(q) = k + l /\ Len(got[g]) = L
  BY <1>1, <1>15
<1> QED  BY <1>1, <1>10, <1>11, <1>12, Zenon DEF Ends
------------------------------------------------------------------------------
(* A machine takes over *)

LEMMA ElementsIn ==
  ASSUME NEW W \in SUBSET Messages, NEW q \in Seq(Messages), \A i \in DOMAIN q : q[i] \in W
  PROVE  q \in Seq(W)
<1>1. PICK k : k = Len(q)
  OBVIOUS
<1>2. k \in Nat /\ DOMAIN q = 1 .. k /\ q = [i \in 1 .. k |-> q[i]]
  BY <1>1
<1> QED  BY <1>2

\* Those that accepted told how many turns they have.
LEMMA FollowersFacts ==
  ASSUME NEW g \in Seats, NEW t, Draft(g, t, got), NEW s \in Followers(g, t)
  PROVE  s \in Seats /\ s # g /\ t.answers[s].next \in Nat /\ t.answers[s].next <= Len(got[s])
<1>1. s \in t.expected /\ s \in DOMAIN t.answers /\ t.answers[s].accepted
  BY DEF Followers
<1>2. s \in Seats \ {g} /\ t.answers[s].next <= Len(got[s]) /\ t \in Sessions
  BY <1>1 DEF Draft
<1>3. PICK T \in SUBSET Seats : t.answers \in [T -> Answers]
  BY <1>2 DEF Sessions
<1>4. t.answers[s] \in Answers
  BY <1>1, <1>3
<1>5. t.answers[s].next \in Nat
  BY <1>1, <1>4 DEF Answers
<1> QED  BY <1>2, <1>5

LEMMA TakesOverKeeps ==
  ASSUME IInv, MigrationAssumption, NEW g \in Seats, session[g].mode # "Host",
         NEW t, Draft(g, t, got), t.epoch = session[g].epoch, Promote(g, t, net),
         got' = got, alive' = alive, open' = open
  PROVE  Kept
<1>1. PICK F, r, n :
        /\ F = Followers(g, t)
        /\ r = [type |-> "Resume", epoch |-> ElectionEpoch(t), turn |-> Len(got[g])]
        /\ n = [a \in Seats |-> [net[a] EXCEPT ![g] = <<>>]]
  BY Zenon
<1>2. PICK told : told = [s \in Seats |-> IF s \in F THEN <<r>> \o TurnsFrom(g, t.answers[s].next)
                                                     ELSE <<>>]
  OBVIOUS
<1>3. PICK u : u = [NewSession EXCEPT !.mode = "Host", !.host = g, !.epoch = ElectionEpoch(t)]
  OBVIOUS
<1>4. /\ session' = [session EXCEPT ![g] = u] /\ clients' = [clients EXCEPT ![g] = F]
      /\ net' = Post(n, g, told)
  BY <1>1, <1>2, <1>3, Zenon DEF Promote
<1>5. t.epoch \in Nat /\ ElectionEpoch(t) = session[g].epoch + 1 /\ ElectionEpoch(t) \in Nat
  BY DEF Draft, Sessions, ElectionEpoch
<1>6. SessionOK(g, u, got) /\ u.mode = "Host" /\ u.host = g /\ u.epoch = session[g].epoch + 1
  <2>1. PICK md, e : md = "Host" /\ e = ElectionEpoch(t)
    OBVIOUS
  <2>2. u = SessionWith(md, g, e)
    BY <1>3, <2>1 DEF NewSession, SessionWith
  <2>3. md \in {"Normal", "Host"} /\ e \in Nat /\ world \in Worlds
    BY <2>1, <1>5, StateFacts
  <2>4. SessionOK(g, u, got)
    BY <2>2, <2>3, NewSessionOK, ZenonT(60)
  <2>5. u.mode = md /\ u.host = g /\ u.epoch = e
    BY <2>2 DEF SessionWith
  <2> QED  BY <2>1, <2>4, <2>5, <1>5
<1>7. got[g] \in Seq(Seats) /\ Len(got[g]) \in Nat
  BY StateFacts
<1>8. r \in Messages /\ r.type = "Resume" /\ r.turn = Len(got[g]) /\ r.epoch = u.epoch
  BY <1>1, <1>5, <1>6, <1>7 DEF Messages
<1>9. PICK S2 : S2 = session'
  OBVIOUS
<1>10. S2[g] = u
  <2>1. session \in [Seats -> Sessions]
    BY StateFacts
  <2> QED  BY <2>1, <1>4, <1>9
<1>11. Sound(g, r, S2, got)
  <2>1. \A k \in 1 .. Len(got[g]) : session[got[g][k]].mode = "Host"
    BY StateFacts, Zenon DEF IInvAt, TurnsAt
  <2>2. \A k \in 1 .. Len(got[g]) : got[g][k] # g
    BY <2>1
  <2> QED  BY <2>2, <1>6, <1>7, <1>8, <1>10 DEF Sound
<1>12. PICK W : W = {m \in Messages : Sound(g, m, S2, got) /\ (m.type = "Resume" => m = r)}
  OBVIOUS
<1>13. W \in SUBSET Messages /\ r \in W
  BY <1>8, <1>11, <1>12
<1>14. ASSUME NEW b \in Seats
       PROVE  /\ net[g][b] \in Seq(W) /\ net[g][b] \in Seq(Messages)
              /\ \A i \in DOMAIN net[g][b] : net[g][b][i].type # "Resume"
  <2>1. net[g][b] \in Seq(Messages)
    BY StateFacts DEF Lines
  <2>2. ASSUME NEW i \in DOMAIN net[g][b]
        PROVE  net[g][b][i].type # "Resume" /\ net[g][b][i] \in W
    <3>1. Sound(g, net[g][b][i], session, got)
      BY <2>2, StateFacts, Zenon DEF IInvAt
    <3>2. PICK m : m = net[g][b][i]
      OBVIOUS
    <3>3. m \in Messages /\ Sound(g, m, session, got)
      BY <2>1, <2>2, <3>1, <3>2
    <3>4. m.type # "Resume"
      BY <3>3, Zenon DEF Sound
    <3>5. Sound(g, m, S2, got)
      BY <3>3, <3>4, Zenon DEF Sound
    <3> QED  BY <3>2, <3>3, <3>4, <3>5, <1>12
  <2> QED  BY <2>1, <2>2, <1>13, ElementsIn
<1>15. ASSUME NEW s \in F
       PROVE  TurnsFrom(g, t.answers[s].next) \in Seq(W)
  <2>1. PICK first, T : first = t.answers[s].next /\ T = TurnsFrom(g, first)
    BY Zenon
  <2>2. first \in Nat
    BY <2>1, <1>1, FollowersFacts
  <2>3. T \in Seq(Messages)
    <3>1. AreTurns(T, g, first)
      BY <2>1, <2>2, StateFacts, TurnsFromFacts, Zenon
    <3> QED  BY <3>1, Zenon DEF AreTurns
  <2>4. \A i \in DOMAIN T : T[i] \in Messages /\ T[i].type = "Turn" /\ Sound(g, T[i], S2, got)
    BY <2>1, <2>2, TurnsFromSound
  <2>5. \A i \in DOMAIN T : T[i] \in W
    BY <2>4, <1>12
  <2> QED  BY <2>1, <2>3, <2>5, <1>13, ElementsIn
<1>16. told \in Boxes /\ \A s \in Seats : told[s] \in Seq(W)
  <2>1. \A s \in Seats : told[s] \in Seq(W)
    <3>1. SUFFICES ASSUME NEW s \in Seats PROVE told[s] \in Seq(W)
      OBVIOUS
    <3>2. CASE s \in F
      <4>1. PICK v, T : v = <<r>> /\ T = TurnsFrom(g, t.answers[s].next)
        BY Zenon
      <4>2. v \in Seq(W) /\ T \in Seq(W)
        BY <4>1, <3>2, <1>13, <1>15
      <4>3. v \o T \in Seq(W)
        BY <4>2
      <4>4. told[s] = v \o T
        BY <4>1, <3>2, <1>2, Zenon
      <4> QED  BY <4>3, <4>4, Zenon
    <3>3. CASE s \notin F
      BY <3>3, <1>2
    <3> QED  BY <3>2, <3>3
  <2>2. \A s \in Seats : told[s] \in Seq(Messages)
    BY <2>1, <1>13
  <2>3. told = [s \in Seats |-> told[s]]
    BY <1>2
  <2> QED  BY <2>1, <2>2, <2>3 DEF Boxes
<1>17. /\ n \in Lines
       /\ \A a, b \in Seats : n[a][b] = IF b = g THEN <<>> ELSE net[a][b]
  <2>1. net \in Lines
    BY StateFacts
  <2> QED  BY <2>1, <1>1 DEF Lines
<1>18. PICK M : M = net' /\ Posted(M, n, g, told)
  BY <1>4, <1>16, <1>17, PostFacts, Zenon
<1>19. M \in Lines /\ \A a \in Seats \ {g} : \A b \in Seats : M[a][b] = IF b = g THEN <<>> ELSE net[a][b]
  BY <1>17, <1>18 DEF Posted
<1>20. M[g][g] = <<>>
  <2>1. TypesAt(session, got, clients, alive, open, net)
    BY StateFacts, Zenon DEF IInvAt
  <2>2. {g, g} \notin open
    BY <2>1, NoLoop, Zenon
  <2>3. ~Linked(g, g)
    BY <2>2, Zenon DEF Linked
  <2>4. M[g][g] = n[g][g]
    BY <2>3, <1>18, Zenon DEF Posted
  <2> QED  BY <2>4, <1>17
<1>21. ASSUME NEW b \in Seats PROVE M[g][b] \in Seq(W)
  <2>1. n[g][b] \in Seq(W)
    <3>1. <<>> \in Seq(W)
      OBVIOUS
    <3>2. n[g][b] = <<>> \/ n[g][b] = net[g][b]
      BY <1>17
    <3> QED  BY <3>1, <3>2, <1>14
  <2>2. n[g][b] \o told[b] \in Seq(W)
    BY <2>1, <1>16
  <2> QED  BY <2>1, <2>2, <1>18 DEF Posted
<1>22. \A b \in Seats : \A i \in DOMAIN M[g][b] : M[g][b][i] \in W
  BY <1>21
<1>23. \A b \in Seats : \A i \in DOMAIN M[g][b] : Sound(g, M[g][b][i], S2, got)
  BY <1>12, <1>22
<1>24. F \in SUBSET Seats
  BY <1>1, FollowersFacts
<1>25. ASSUME NEW b \in Seats, NEW i \in DOMAIN M[g][b],
              b \in F, {g, b} \in open, session[b].mode \notin {"Host", "Lost"},
              M[g][b][i].type = "Resume", Len(got[b]) <= M[g][b][i].turn
       PROVE  Ends(M[g][b], i, g, Len(got[b]), got)
  <2>1. M[g][b][i] = r
    <3>1. M[g][b][i] \in W
      BY <1>22
    <3> QED  BY <3>1, <1>25, <1>12
  <2>2. PICK first, p, T, q : /\ first = t.answers[b].next /\ p = net[g][b]
                              /\ T = TurnsFrom(g, first) /\ q = p \o (<<r>> \o T)
    BY Zenon
  <2>3. first \in Nat /\ first <= Len(got[b]) /\ b # g
    BY <2>2, <1>1, <1>25, FollowersFacts
  <2>4. p \in Seq(Messages) /\ \A j \in DOMAIN p : p[j].type # "Resume"
    BY <2>2, <1>14
  <2>5. M[g][b] = q
    <3>1. Linked(g, b) /\ Listens(b)
      BY <1>25 DEF Linked, Listens
    <3>2. M[g][b] = n[g][b] \o told[b]
      BY <3>1, <1>18, Zenon DEF Posted
    <3>3. n[g][b] = p
      BY <2>2, <2>3, <1>17
    <3>4. told[b] = <<r>> \o T
      BY <2>2, <1>2, <1>25, Zenon
    <3> QED  BY <3>2, <3>3, <3>4, <2>2, Zenon
  <2>6. i \in DOMAIN q /\ q[i].type = "Resume" /\ Len(got[b]) <= r.turn
    BY <2>1, <2>5, <1>25
  <2>7. Ends(q, i, g, Len(got[b]), got)
    BY <2>2, <2>3, <2>4, <2>6, <1>8, ToldFacts, Zenon
  <2> QED  BY <2>5, <2>7, Zenon
<1>26. PICK D : D = clients' /\ D = [clients EXCEPT ![g] = F]
  BY <1>4
<1>27. S2 = [session EXCEPT ![g] = u]
  BY <1>4, <1>9
<1>28. IInvAt(S2, got, D, alive, open, M)
  <2>1. IInvAt(session, got, clients, alive, open, net)
    BY StateFacts, Zenon
  <2>2. \A b \in Seats : \A i \in DOMAIN M[g][b] :
          /\ b \in F /\ {g, b} \in open /\ session[b].mode \notin {"Host", "Lost"}
          /\ M[g][b][i].type = "Resume" /\ Len(got[b]) <= M[g][b][i].turn
          => Ends(M[g][b], i, g, Len(got[b]), got)
    BY <1>25, Zenon
  <2>5. TellsAll(g, F, M, session, got, open)
    BY <2>2, Zenon DEF TellsAll
  <2>3. M \in Lines /\ D = [clients EXCEPT ![g] = F]
    BY <1>19, <1>26
  <2>4. \A a \in Seats \ {g} : \A b \in Seats : M[a][b] = IF b = g THEN <<>> ELSE net[a][b]
    BY <1>19
  <2>6. HearsNothing(g, net, M)
    BY <2>4, Zenon DEF HearsNothing
  <2>7. TellsTrueOf(g, M, S2, got)
    BY <1>23, Zenon DEF TellsTrueOf
  <2> QED  BY <2>1, <2>3, <2>5, <2>6, <2>7, <1>6, <1>20, <1>24, <1>27, PromoteKeeps, Zenon
<1> QED  BY <1>9, <1>18, <1>26, <1>28, Zenon DEF Kept

LEMMA MinIn ==
  ASSUME NEW T \in SUBSET Nat, T # {}
  PROVE  Min(T) \in T
<1>1. PICK n \in T : \A k \in T : n <= k
  BY LeastNumber
<1> QED  BY <1>1 DEF Min

\* Those of T that got furthest
Furthest(t, T) == {s \in T : \A r \in T : t.answers[r].next <= t.answers[s].next}

LEMMA SourceFacts ==
  ASSUME IInv, MigrationAssumption, NEW g \in Seats, NEW t, Draft(g, t, got),
         NEW T \in SUBSET Followers(g, t), T # {}, NEW x, x = Min(Furthest(t, T))
  PROVE  /\ x \in T /\ x \in Seats /\ t.answers[x].next \in Nat /\ t.answers[x].next <= MaxTurns
         /\ \A r \in T : t.answers[r].next <= t.answers[x].next
<1>1. MaxTurns \in Nat /\ T \subseteq Seats
  BY StateFacts, FollowersFacts
<1>2. ASSUME NEW s \in T
      PROVE  t.answers[s].next \in Nat /\ t.answers[s].next <= MaxTurns
  <2>1. s \in Seats /\ t.answers[s].next \in Nat /\ t.answers[s].next <= Len(got[s])
    BY FollowersFacts
  <2>2. Len(got[s]) <= MaxTurns
    BY <2>1, StateFacts, Zenon DEF IInvAt, TurnsAt
  <2>3. Len(got[s]) \in Nat
    BY <2>1, StateFacts
  <2> QED  BY <1>1, <2>1, <2>2, <2>3
<1>3. PICK D : D = {MaxTurns - t.answers[s].next : s \in T}
  OBVIOUS
<1>4. D \in SUBSET Nat /\ D # {}
  BY <1>1, <1>2, <1>3
<1>5. PICK n \in D : \A k \in D : n <= k
  BY <1>4, LeastNumber
<1>6. PICK s \in T : n = MaxTurns - t.answers[s].next
  BY <1>3, <1>5
<1>7. ASSUME NEW r \in T PROVE t.answers[r].next <= t.answers[s].next
  <2>1. n <= MaxTurns - t.answers[r].next
    BY <1>3, <1>5
  <2> QED  BY <2>1, <1>1, <1>2, <1>6
<1>8. s \in Furthest(t, T)
  BY <1>7 DEF Furthest
<1>9. Furthest(t, T) \in SUBSET Nat
  <2>1. Seats \subseteq Nat
    BY StateFacts, WorldFacts
  <2> QED  BY <2>1, <1>1 DEF Furthest
<1>10. x \in T /\ \A r \in T : t.answers[r].next <= t.answers[x].next
  <2>1. x \in Furthest(t, T)
    BY <1>8, <1>9, MinIn
  <2> QED  BY <2>1 DEF Furthest
<1> QED  BY <1>1, <1>2, <1>10

\* plan_fetch(): who is to ask asks, and who is not takes over.
LEMMA PlanFetchKeeps ==
  ASSUME IInv, MigrationAssumption, NEW g \in Seats, session[g].mode \notin {"Host", "Lost"},
         NEW t, Draft(g, t, got), t.epoch = session[g].epoch, PlanFetch(g, t, net),
         got' = got, alive' = alive, open' = open
  PROVE  Kept
<1>1. PICK T : T = {s \in Followers(g, t) : t.answers[s].next > Len(got[g])}
  OBVIOUS
<1>2. PICK furthest : furthest = Furthest(t, T)
  OBVIOUS
<1>3. PICK x, m, u :
        /\ x = Min(furthest) /\ m = [type |-> "Request", turn |-> Len(got[g])]
        /\ u = [t EXCEPT !.mode = "Fetching", !.source = x, !.target = t.answers[x].next]
  BY Zenon
<1>4. CASE T = {}
  <2>1. Promote(g, t, net)
    BY <1>1, <1>4, Zenon DEF PlanFetch
  <2>2. session[g].mode # "Host"
    OBVIOUS
  <2> QED  BY <2>1, <2>2, TakesOverKeeps, Zenon
<1>5. CASE T # {}
  <2>1. session' = [session EXCEPT ![g] = u] /\ net' = Post(net, g, To(x, <<m>>))
        /\ clients' = clients
    BY <1>1, <1>2, <1>3, <1>5, Zenon DEF PlanFetch, Furthest
  <2>2. T \in SUBSET Followers(g, t)
    BY <1>1
  <2>3. x \in Seats /\ t.answers[x].next \in Nat /\ t.answers[x].next <= MaxTurns
    <3>1. x = Min(Furthest(t, T))
      BY <1>2, <1>3, Zenon
    <3> QED  BY <3>1, <1>5, <2>2, SourceFacts, Zenon
  <2>4. t \in Sessions /\ t.refusals <= RefusalLimit
    BY Zenon DEF Draft
  <2>5. u \in Sessions /\ u.expected = t.expected /\ u.answers = t.answers
        /\ u.target = t.answers[x].next /\ u.refusals = t.refusals /\ u.mode = "Fetching"
        /\ u.epoch = t.epoch
    BY <1>3, <2>3, <2>4 DEF Sessions, Modes
  <2>6. SessionOK(g, u, got)
    <3>1. u.target <= MaxTurns /\ u.refusals <= RefusalLimit
      BY <2>3, <2>4, <2>5
    <3>2. u.source = x
      BY <1>3, <2>4 DEF Sessions
    <3>3. Directed(u)
      BY <3>2, <2>3, <2>5 DEF Directed
    <3>4. Draft(g, u, got)
      BY <3>1, <2>5 DEF Draft
    <3> QED  BY <3>3, <3>4, Zenon DEF SessionOK
  <2>7. Changes(g, u, session, got)
    BY <2>5, <2>6 DEF Changes
  <2>8. m \in Messages /\ Sound(g, m, session, got)
    <3>1. got[g] \in Seq(Seats)
      BY StateFacts
    <3> QED  BY <3>1, <1>3 DEF Messages, Sound
  <2>9. PICK box : box = To(x, <<m>>)
    OBVIOUS
  <2>10. box \in Boxes /\ \A s \in Seats : \A i \in DOMAIN box[s] : box[s][i] = m
    BY <2>3, <2>8, <2>9, ToOneFacts
  <2>11. \A b \in Seats : \A i \in DOMAIN box[b] : Sound(g, box[b][i], session, got)
    BY <2>8, <2>10, Zenon
  <2>12. Talks(g, open, net, session, got, open, net)
    BY NothingTalks
  <2>13. net' = Post(net, g, box)
    BY <2>1, <2>9, Zenon
  <2>14. Talks(g, open, net', session, got, open, net)
    BY <2>10, <2>11, <2>12, <2>13, PostTalks, Zenon
  <2>15. Talks(g, open', net', session, got, open, net)
    BY <2>14, Zenon
  <2> QED  BY <2>1, <2>7, <2>15, GuestMoves, Zenon
<1> QED  BY <1>4, <1>5, Zenon
------------------------------------------------------------------------------
(* The steps of a machine that elects *)

\* Who refused named a seat.
LEMMA RefusersFacts ==
  ASSUME NEW g \in Seats, NEW t, SessionOK(g, t, got), NEW s \in Refusers(t)
  PROVE  s \in Seats /\ t.answers[s].lowest \in Seats
<1>1. s \in DOMAIN t.answers /\ ~t.answers[s].accepted
  BY DEF Refusers
<1>2. s \in Seats /\ t \in Sessions
  BY <1>1 DEF SessionOK, Draft
<1>3. PICK T \in SUBSET Seats : t.answers \in [T -> Answers]
  BY <1>2 DEF Sessions
<1>4. t.answers[s] \in Answers
  BY <1>1, <1>3
<1> QED  BY <1>1, <1>2, <1>4 DEF Answers

\* More are taken to be dead.
LEMMA DeadOK ==
  ASSUME NEW g \in Seats, NEW t, SessionOK(g, t, got), NEW D \in SUBSET Seats,
         NEW u, u = [t EXCEPT !.dead = D]
  PROVE  SessionOK(g, u, got) /\ u.mode = t.mode /\ u.epoch = t.epoch
<1>1. t \in Sessions /\ t.target <= MaxTurns /\ t.refusals <= RefusalLimit
  BY Zenon DEF SessionOK, Draft
<1>2. u \in Sessions /\ u.expected = t.expected /\ u.answers = t.answers /\ u.target = t.target
      /\ u.refusals = t.refusals /\ u.mode = t.mode /\ u.epoch = t.epoch
  BY <1>1 DEF Sessions
<1>3. u.target <= MaxTurns /\ u.refusals <= RefusalLimit
  BY <1>1, <1>2
<1>4. SessionOK(g, u, got)
  <2>1. u.following = t.following /\ u.source = t.source
    BY <1>1 DEF Sessions
  <2>2. Directed(u)
    BY <2>1, <1>2, DirectedSame
  <2> QED  BY <2>2, <1>2, <1>3, FieldsOK, Zenon
<1> QED  BY <1>2, <1>4, Zenon

LEMMA ResolveKeeps ==
  ASSUME IInv, MigrationAssumption, NEW g \in Seats, Resolve(g)
  PROVE  Kept
<1>1. PICK t : t = session[g]
  OBVIOUS
<1>2. PICK lower, above :
        /\ lower = {t.answers[s].lowest : s \in Refusers(t) \ HostRefusers(t)}
        /\ above = {s \in Refusers(t) \ HostRefusers(t) : t.answers[s].lowest >= g}
  BY Zenon
<1>3. PICK defer, D :
        /\ defer = {l \in lower : l < g /\ l # t.hint}
        /\ D = t.dead \cup Unanswered(t) \cup above \cup {l \in lower : l < g /\ l = t.hint}
  BY Zenon
<1>4. PICK u : u = [t EXCEPT !.dead = D]
  OBVIOUS
<1>5. PICK w : w = Withdrawn(u)
  OBVIOUS
<1>6. /\ t.mode = "Electing" /\ got' = got /\ alive' = alive /\ open' = open
      /\ \/ /\ clients' = clients /\ session' = [session EXCEPT ![g] = GoneLost(u)] /\ net' = net
         \/ /\ clients' = clients /\ t.refusals + 1 < RefusalLimit
            /\ session' = [session EXCEPT ![g] = [w EXCEPT !.refusals = @ + 1]]
            /\ net' = Post(net, g, ToAll(t.expected, RefuseMsg(t, g)))
         \/ /\ clients' = clients /\ defer # {}
            /\ session' = [session EXCEPT ![g] = [w EXCEPT !.hint = Min(defer)]]
            /\ net' = Post(net, g, ToAll(t.expected, RefuseMsg(t, Min(defer))))
         \/ PlanFetch(g, u, net)
  <2>1. t.refusals + 1 >= RefusalLimit \/ t.refusals + 1 < RefusalLimit
    <3>1. t \in Sessions
      BY <1>1, OwnSession, Zenon
    <3> QED  BY <3>1, StateFacts DEF Sessions
  <2>2. u = [t EXCEPT !.dead = @ \cup Unanswered(t) \cup above \cup {l \in lower : l < g /\ l = t.hint}]
    BY <1>3, <1>4
  <2> DEFINE t0 == session[g]
             lower0 == {t0.answers[s].lowest : s \in Refusers(t0) \ HostRefusers(t0)}
             above0 == {s \in Refusers(t0) \ HostRefusers(t0) : t0.answers[s].lowest >= g}
             defer0 == {l \in lower0 : l < g /\ l # t0.hint}
             u0 == [t0 EXCEPT !.dead = @ \cup Unanswered(t0) \cup above0
                                         \cup {l \in lower0 : l < g /\ l = t0.hint}]
  <2>4. /\ t0.mode = "Electing" /\ got' = got /\ alive' = alive /\ open' = open
        /\ IF HostRefusers(t0) # {}
           THEN /\ clients' = clients
                /\ IF t0.refusals + 1 >= RefusalLimit
                   THEN session' = [session EXCEPT ![g] = GoneLost(u0)] /\ net' = net
                   ELSE /\ session' = [session EXCEPT ![g] = [Withdrawn(u0) EXCEPT !.refusals = @ + 1]]
                        /\ net' = Post(net, g, ToAll(t0.expected, RefuseMsg(t0, g)))
           ELSE IF defer0 # {}
           THEN /\ session' = [session EXCEPT ![g] = [Withdrawn(u0) EXCEPT !.hint = Min(defer0)]]
                /\ net' = Post(net, g, ToAll(t0.expected, RefuseMsg(t0, Min(defer0))))
                /\ clients' = clients
           ELSE PlanFetch(g, u0, net)
    BY Zenon DEF Resolve
  <2>5. t0 = t
    BY <1>1
  <2>6. lower0 = lower /\ above0 = above
    BY <1>1, <1>2, Zenon
  <2> HIDE DEF lower0, above0
  <2>7. defer0 = defer /\ u0 = u
    BY <1>1, <1>3, <2>2, <2>6, Zenon
  <2> HIDE DEF t0, defer0, u0
  <2>3. /\ t.mode = "Electing" /\ got' = got /\ alive' = alive /\ open' = open
        /\ IF HostRefusers(t) # {}
           THEN /\ clients' = clients
                /\ IF t.refusals + 1 >= RefusalLimit
                   THEN session' = [session EXCEPT ![g] = GoneLost(u)] /\ net' = net
                   ELSE /\ session' = [session EXCEPT ![g] = [w EXCEPT !.refusals = @ + 1]]
                        /\ net' = Post(net, g, ToAll(t.expected, RefuseMsg(t, g)))
           ELSE IF defer # {}
           THEN /\ session' = [session EXCEPT ![g] = [w EXCEPT !.hint = Min(defer)]]
                /\ net' = Post(net, g, ToAll(t.expected, RefuseMsg(t, Min(defer))))
                /\ clients' = clients
           ELSE PlanFetch(g, u, net)
    BY <1>5, <2>4, <2>5, <2>7, Zenon
  <2> QED  BY <2>1, <2>3, Zenon
<1>7. SessionOK(g, t, got) /\ t \in Sessions
  BY <1>1, OwnSession, Zenon
<1>8. lower \subseteq Seats /\ above \subseteq Seats
  BY <1>2, <1>7, RefusersFacts
<1>9. D \in SUBSET Seats
  <2>1. t.dead \subseteq Seats /\ t.expected \subseteq Seats
    BY <1>7 DEF Sessions
  <2> QED  BY <2>1, <1>3, <1>8 DEF Unanswered
<1>10. SessionOK(g, u, got) /\ u.mode = t.mode /\ u.epoch = t.epoch
  <2>1. SessionOK(g, u, got)
    BY <1>4, <1>7, <1>9, DeadOK, Zenon
  <2>2. u.mode = t.mode /\ u.epoch = t.epoch
    BY <1>4, <1>7 DEF Sessions
  <2> QED  BY <2>1, <2>2
<1>11. SessionOK(g, w, got) /\ w.mode = t.mode /\ w.epoch = t.epoch /\ w \in Sessions
       /\ w.target <= MaxTurns /\ w.refusals <= RefusalLimit
  <2>1. SessionOK(g, w, got)
    BY <1>5, <1>10, WithdrawnOK, Zenon
  <2>2. w.mode = u.mode /\ w.epoch = u.epoch
    BY <1>5, <1>10 DEF Withdrawn, SessionOK, Draft, Sessions
  <2> QED  BY <2>1, <2>2, <1>10 DEF SessionOK, Draft
<1>12. session[g].mode \notin {"Host", "Lost"} /\ t.epoch = session[g].epoch /\ MaxTurns \in Nat
       /\ RefusalLimit \in Nat
  BY <1>1, <1>6, StateFacts
<1>13. ASSUME NEW low \in Seats, net' = Post(net, g, ToAll(t.expected, RefuseMsg(t, low)))
       PROVE  Talks(g, open', net', session, got, open, net)
  <2>1. PICK m : m = RefuseMsg(t, low)
    OBVIOUS
  <2>2. m \in Messages /\ Sound(g, m, session, got)
    BY <2>1, <1>7, <1>13 DEF RefuseMsg, ElectionEpoch, Messages, Sessions, Sound
  <2>3. net' = Post(net, g, ToAll(t.expected, m))
    BY <2>1, <1>13, Zenon
  <2>4. Talks(g, open, net', session, got, open, net)
    BY <2>2, <2>3, TellsTrue, Zenon
  <2> QED  BY <2>4, <1>6, Zenon
<1>14. CASE clients' = clients /\ session' = [session EXCEPT ![g] = GoneLost(u)] /\ net' = net
  <2>1. PICK v : v = GoneLost(u)
    OBVIOUS
  <2>2. SessionOK(g, v, got) /\ v.mode = "Lost" /\ v.epoch = u.epoch
    <3>1. SessionOK(g, v, got)
      BY <2>1, <1>10, StateFacts, GoneLostOK, Zenon
    <3>2. v.mode = "Lost" /\ v.epoch = u.epoch
      BY <2>1, <1>10 DEF GoneLost, Withdrawn, SessionOK, Draft, Sessions
    <3> QED  BY <3>1, <3>2
  <2>3. Changes(g, v, session, got)
    BY <2>2, <1>10, <1>12 DEF Changes
  <2>4. Talks(g, open, net, session, got, open, net)
    BY NothingTalks
  <2>5. Talks(g, open', net', session, got, open, net)
    BY <2>4, <1>6, <1>14, Zenon
  <2> QED  BY <2>1, <2>3, <2>5, <1>6, <1>14, GuestMoves, Zenon
<1>15. CASE /\ clients' = clients /\ t.refusals + 1 < RefusalLimit
            /\ session' = [session EXCEPT ![g] = [w EXCEPT !.refusals = @ + 1]]
            /\ net' = Post(net, g, ToAll(t.expected, RefuseMsg(t, g)))
  <2>1. PICK v : v = [w EXCEPT !.refusals = @ + 1]
    OBVIOUS
  <2>2. w.refusals = t.refusals
    BY <1>4, <1>5, <1>7 DEF Withdrawn, Sessions
  <2>3. v \in Sessions /\ v.expected = w.expected /\ v.answers = w.answers /\ v.target = w.target
        /\ v.refusals = w.refusals + 1 /\ v.mode = w.mode /\ v.epoch = w.epoch
    BY <2>1, <1>11 DEF Sessions
  <2>4. v.target <= MaxTurns /\ v.refusals <= RefusalLimit
    <3>1. w.refusals \in Nat
      BY <1>11 DEF Sessions
    <3> QED  BY <3>1, <2>2, <2>3, <1>11, <1>12, <1>15
  <2>5. SessionOK(g, v, got)
    <3>1. Directed(v)
      BY <2>3, <1>6, <1>11 DEF Directed
    <3> QED  BY <3>1, <2>3, <2>4, <1>11, FieldsOK, Zenon
  <2>6. Changes(g, v, session, got)
    BY <2>3, <2>5, <1>6, <1>11, <1>12 DEF Changes
  <2>7. Talks(g, open', net', session, got, open, net)
    BY <1>13, <1>15, Zenon
  <2> QED  BY <2>1, <2>6, <2>7, <1>6, <1>15, GuestMoves, Zenon
<1>16. CASE /\ clients' = clients /\ defer # {}
            /\ session' = [session EXCEPT ![g] = [w EXCEPT !.hint = Min(defer)]]
            /\ net' = Post(net, g, ToAll(t.expected, RefuseMsg(t, Min(defer))))
  <2>1. PICK low, v : low = Min(defer) /\ v = [w EXCEPT !.hint = low]
    BY Zenon
  <2>2. low \in Seats
    <3>1. defer \in SUBSET Nat /\ defer \subseteq Seats
      BY <1>3, <1>8, StateFacts, WorldFacts
    <3>2. low \in defer
      BY <3>1, <2>1, <1>16, MinIn
    <3> QED  BY <3>1, <3>2
  <2>3. v \in Sessions /\ v.expected = w.expected /\ v.answers = w.answers /\ v.target = w.target
        /\ v.refusals = w.refusals /\ v.mode = w.mode /\ v.epoch = w.epoch
    BY <2>1, <2>2, <1>11 DEF Sessions
  <2>4. SessionOK(g, v, got)
    <3>1. Directed(v)
      BY <2>3, <1>6, <1>11 DEF Directed
    <3> QED  BY <3>1, <2>3, <1>11, FieldsOK
  <2>5. Changes(g, v, session, got)
    BY <2>3, <2>4, <1>6, <1>11, <1>12 DEF Changes
  <2>6. Talks(g, open', net', session, got, open, net)
    BY <2>1, <2>2, <1>13, <1>16, Zenon
  <2> QED  BY <2>1, <2>5, <2>6, <1>6, <1>16, GuestMoves, Zenon
<1>17. CASE PlanFetch(g, u, net)
  <2>1. u.epoch = session[g].epoch
    BY <1>10, <1>12
  <2>2. Draft(g, u, got)
    BY <1>10, Zenon DEF SessionOK
  <2> QED  BY <2>1, <2>2, <1>6, <1>12, <1>17, PlanFetchKeeps, Zenon
<1> QED  BY <1>6, <1>14, <1>15, <1>16, <1>17, Zenon

LEMMA GivesUpCandidateKeeps ==
  ASSUME IInv, MigrationAssumption, NEW g \in Seats, GivesUpCandidate(g)
  PROVE  Kept
<1>1. PICK t : t = session[g]
  OBVIOUS
<1>2. PICK u : u = [t EXCEPT !.dead = @ \cup {t.following}, !.following = None, !.mode = "Electing"]
  OBVIOUS
<1>3. /\ t.mode = "Following" /\ session' = [session EXCEPT ![g] = u]
      /\ got' = got /\ clients' = clients /\ alive' = alive /\ open' = open /\ net' = net
  BY <1>1, <1>2, Zenon DEF GivesUpCandidate
<1>4. SessionOK(g, t, got) /\ t \in Sessions
  BY <1>1, OwnSession, Zenon
<1>5. t.following \in Seats /\ t.target <= MaxTurns /\ t.refusals <= RefusalLimit
  BY <1>3, <1>4 DEF SessionOK, Draft, Directed
<1>6. u \in Sessions /\ u.expected = t.expected /\ u.answers = t.answers /\ u.target = t.target
      /\ u.refusals = t.refusals /\ u.mode = "Electing" /\ u.epoch = t.epoch
  BY <1>2, <1>4, <1>5 DEF Sessions, Modes
<1>7. SessionOK(g, u, got)
  <2>1. Directed(u)
    BY <1>6 DEF Directed
  <2> QED  BY <2>1, <1>4, <1>5, <1>6, FieldsOK
<1>8. Changes(g, u, session, got)
  BY <1>1, <1>3, <1>6, <1>7 DEF Changes
<1>9. Talks(g, open, net, session, got, open, net)
  BY NothingTalks
<1>10. Talks(g, open', net', session, got, open, net)
  BY <1>3, <1>9, Zenon
<1> QED  BY <1>3, <1>8, <1>10, GuestMoves, Zenon

LEMMA FetchTickKeeps ==
  ASSUME IInv, MigrationAssumption, NEW g \in Seats, FetchTick(g)
  PROVE  Kept
<1>1. PICK t : t = session[g]
  OBVIOUS
<1>2. PICK v, u : /\ v = [t EXCEPT !.source = None, !.target = 0]
                  /\ u = [v EXCEPT !.dead = @ \cup {t.source}]
  BY Zenon
<1>3. /\ t.mode = "Fetching" /\ got' = got /\ alive' = alive /\ open' = open
      /\ Promote(g, v, net) \/ PlanFetch(g, u, net)
  BY <1>1, <1>2, Zenon DEF FetchTick
<1>4. SessionOK(g, t, got) /\ t \in Sessions
  BY <1>1, OwnSession, Zenon
<1>5. t.source \in Seats /\ t.refusals <= RefusalLimit /\ MaxTurns \in Nat
  BY <1>3, <1>4, StateFacts DEF SessionOK, Draft, Directed
<1>6. v \in Sessions /\ v.expected = t.expected /\ v.answers = t.answers /\ v.target = 0
      /\ v.refusals = t.refusals /\ v.epoch = t.epoch /\ v.dead = t.dead
  BY <1>2, <1>4, <1>5 DEF Sessions
<1>7. Draft(g, v, got)
  <2>1. v.target <= MaxTurns
    BY <1>5, <1>6
  <2> QED  BY <2>1, <1>4, <1>5, <1>6 DEF SessionOK, Draft
<1>8. u \in Sessions /\ u.expected = v.expected /\ u.answers = v.answers /\ u.target = v.target
      /\ u.refusals = v.refusals /\ u.epoch = v.epoch
  <2>1. v.dead \cup {t.source} \in SUBSET Seats
    BY <1>5, <1>6 DEF Sessions
  <2>2. u = [v EXCEPT !.dead = v.dead \cup {t.source}]
    BY <1>2
  <2> QED  BY <2>1, <2>2, <1>6 DEF Sessions
<1>9. Draft(g, u, got)
  BY <1>7, <1>8 DEF Draft
<1>10. session[g].mode \notin {"Host", "Lost"} /\ v.epoch = session[g].epoch
       /\ u.epoch = session[g].epoch
  BY <1>1, <1>3, <1>6, <1>8
<1>11. CASE Promote(g, v, net)
  <2>1. session[g].mode # "Host"
    BY <1>10
  <2> QED  BY <2>1, <1>3, <1>7, <1>10, <1>11, TakesOverKeeps, Zenon
<1>12. CASE PlanFetch(g, u, net)
  BY <1>3, <1>9, <1>10, <1>12, PlanFetchKeeps, Zenon
<1> QED  BY <1>3, <1>11, <1>12, Zenon

LEMMA ElectionLimitKeeps ==
  ASSUME IInv, MigrationAssumption, NEW g \in Seats, ElectionLimit(g)
  PROVE  Kept
<1>1. PICK t, u : t = session[g] /\ u = GoneLost(t)
  BY Zenon
<1>2. /\ t.mode \in {"Electing", "Following", "Fetching"} /\ session' = [session EXCEPT ![g] = u]
      /\ got' = got /\ clients' = clients /\ alive' = alive /\ open' = open /\ net' = net
  BY <1>1, Zenon DEF ElectionLimit, Electing
<1>3. SessionOK(g, t, got)
  BY <1>1, OwnSession, Zenon
<1>4. SessionOK(g, u, got)
  BY <1>1, <1>3, StateFacts, GoneLostOK, Zenon
<1>5. u.mode = "Lost" /\ u.epoch = t.epoch
  BY <1>1, <1>3 DEF GoneLost, Withdrawn, SessionOK, Draft, Sessions
<1>6. Changes(g, u, session, got)
  BY <1>1, <1>2, <1>4, <1>5 DEF Changes
<1>7. Talks(g, open, net, session, got, open, net)
  BY NothingTalks
<1>8. Talks(g, open', net', session, got, open, net)
  BY <1>2, <1>7, Zenon
<1> QED  BY <1>2, <1>6, <1>8, GuestMoves, Zenon

LEMMA SilenceKeeps ==
  ASSUME IInv, NEW g \in Seats, NEW s \in Seats, Silence(g, s)
  PROVE  Kept
BY Zenon DEF IInv, Silence, Kept
------------------------------------------------------------------------------
(* The steps of a host and of the world *)

LEMMA HostSealsKeeps ==
  ASSUME IInv, MigrationAssumption, NEW h \in Seats, HostSeals(h)
  PROVE  Kept
<1>1. PICK m, box : /\ m = [type |-> "Turn", turn |-> Len(got[h]), by |-> h]
                    /\ box = ToAll(clients[h], m)
  BY Zenon
<1>2. /\ session[h].mode = "Host" /\ Len(got[h]) < MaxTurns
      /\ got' = [got EXCEPT ![h] = Append(@, h)] /\ net' = Post(net, h, box)
      /\ session' = session /\ clients' = clients /\ alive' = alive /\ open' = open
  BY <1>1, Zenon DEF HostSeals
<1>3. PICK G : G = got'
  OBVIOUS
<1>4. Gains(h, h, got, G) /\ Grows(got, G)
  BY <1>2, <1>3, StateFacts, GainsFacts
<1>5. m \in Messages
  <2>1. got[h] \in Seq(Seats)
    BY StateFacts
  <2> QED  BY <2>1, <1>1 DEF Messages
<1>6. box \in Boxes /\ \A b \in Seats : box[b] = IF b \in clients[h] THEN <<m>> ELSE <<>>
  <2>1. box \in Boxes
    <3>1. PICK T : T = clients[h]
      OBVIOUS
    <3>2. box = ToAll(T, m)
      BY <1>1, <3>1, Zenon
    <3> QED  BY <3>2, <1>5, ToAllFacts
  <2>2. box = [b \in Seats |-> IF b \in clients[h] THEN <<m>> ELSE <<>>]
    BY <1>1, Zenon DEF ToAll
  <2> QED  BY <2>1, <2>2
<1>7. PICK M : M = net' /\ Posted(M, net, h, box)
  BY <1>2, <1>6, StateFacts, PostFacts, Zenon
<1>8. M \in Lines /\ \A a \in Seats \ {h} : \A b \in Seats : M[a][b] = net[a][b]
  BY <1>7, Zenon DEF Posted
<1>9. ASSUME NEW b \in Seats
      PROVE  /\ M[h][b] = net[h][b] \/ M[h][b] = Append(net[h][b], m)
             /\ b \in clients[h] /\ {h, b} \in open /\ session[b].mode \notin {"Host", "Lost"} =>
                  M[h][b] = Append(net[h][b], m)
  <2>1. net[h][b] \in Seq(Messages)
    BY StateFacts DEF Lines
  <2>2. PICK q : q = net[h][b]
    OBVIOUS
  <2>3. q \o <<m>> = Append(q, m) /\ q \o <<>> = q
    BY <2>1, <2>2, <1>5
  <2>4. Linked(h, b) /\ Listens(b) => M[h][b] = q \o box[b]
    BY <2>2, <1>7, Zenon DEF Posted
  <2>5. ~(Linked(h, b) /\ Listens(b)) => M[h][b] = q
    BY <2>2, <1>7, Zenon DEF Posted
  <2>6. box[b] = <<m>> \/ box[b] = <<>>
    BY <1>6, Zenon
  <2>7. M[h][b] = q \/ M[h][b] = Append(q, m)
    BY <2>3, <2>4, <2>5, <2>6
  <2>8. ASSUME b \in clients[h], {h, b} \in open, session[b].mode \notin {"Host", "Lost"}
        PROVE  M[h][b] = Append(q, m)
    <3>1. Linked(h, b) /\ Listens(b)
      BY <2>8, Zenon DEF Linked, Listens
    <3>2. box[b] = <<m>>
      BY <2>8, <1>6, Zenon
    <3> QED  BY <3>1, <3>2, <2>3, <2>4
  <2> QED  BY <2>2, <2>7, <2>8, Zenon
<1>10. M[h][h] = <<>>
  <2>1. TypesAt(session, got, clients, alive, open, net)
    BY StateFacts, Zenon DEF IInvAt
  <2>2. {h, h} \notin open
    BY <2>1, NoLoop, Zenon
  <2>4. net[h][h] = <<>>
    BY <2>1, Zenon DEF TypesAt
  <2>3. ~Linked(h, h)
    BY <2>2, Zenon DEF Linked
  <2> QED  BY <2>3, <2>4, <1>7, Zenon DEF Posted
<1>11. IInvAt(session, G, clients, alive, open, M)
  <2>1. MaxTurns \in Nat /\ IInvAt(session, got, clients, alive, open, net)
    BY StateFacts, Zenon
  <2>2. Says(h, m, M, session, clients, open, net)
    BY <1>8, <1>9, Zenon DEF Says
  <2>3. M \in Lines
    BY <1>8
  <2> QED  BY <2>1, <2>2, <2>3, <1>1, <1>2, <1>4, <1>10, SealKeeps, Zenon
<1> QED  BY <1>2, <1>3, <1>7, <1>11, Zenon DEF Kept

LEMMA HostDropsKeeps ==
  ASSUME IInv, MigrationAssumption, NEW h \in Seats, NEW g \in Seats, HostDrops(h, g)
  PROVE  Kept
<1>1. PICK D, P : D = clients' /\ P = open'
  BY Zenon
<1>2. /\ D = [clients EXCEPT ![h] = @ \ {g}] /\ P = open \ {{h, g}}
      /\ session' = session /\ got' = got /\ alive' = alive /\ net' = net
  BY <1>1, Zenon DEF HostDrops
<1>3. Fewer(D, clients)
  BY <1>2, StateFacts DEF Fewer
<1>4. P \in SUBSET open /\ alive \in SUBSET alive /\ Arrives(net, net, alive)
  BY <1>2, StateFacts DEF Arrives
<1>5. IInvAt(session, got, D, alive, P, net)
  BY <1>3, <1>4, StateFacts, WorldKeeps, Zenon
<1> QED  BY <1>1, <1>2, <1>5, Zenon DEF Kept

LEMMA CutKeeps ==
  ASSUME IInv, MigrationAssumption, NEW h \in Seats, NEW g \in Seats, Cut(h, g)
  PROVE  Kept
<1>1. PICK P : P = open'
  OBVIOUS
<1>2. /\ P = open \ {{h, g}} /\ clients' = clients
      /\ session' = session /\ got' = got /\ alive' = alive /\ net' = net
  BY <1>1, Zenon DEF Cut
<1>3. Fewer(clients, clients)
  BY StateFacts DEF Fewer
<1>4. P \in SUBSET open /\ alive \in SUBSET alive /\ Arrives(net, net, alive)
  BY <1>2, StateFacts DEF Arrives
<1>5. IInvAt(session, got, clients, alive, P, net)
  BY <1>3, <1>4, StateFacts, WorldKeeps, Zenon
<1> QED  BY <1>1, <1>2, <1>5, Zenon DEF Kept

\* What a machine that died had sent arrives up to some message.
LEMMA Begin ==
  ASSUME NEW q \in Seq(Messages), NEW k \in Nat, k <= Len(q), NEW r, r = SubSeq(q, 1, k)
  PROVE  r \in Seq(Messages) /\ \A i \in DOMAIN r : i \in DOMAIN q /\ r[i] = q[i]
<1>1. PICK l : l = Len(q)
  OBVIOUS
<1>2. l \in Nat /\ DOMAIN q = 1 .. l /\ \A i \in 1 .. l : q[i] \in Messages
  BY <1>1
<1>3. Len(r) = k /\ DOMAIN r = 1 .. k /\ \A i \in 1 .. k : r[i] = q[i]
  BY <1>1, <1>2
<1>4. r = [i \in 1 .. k |-> r[i]]
  BY <1>3
<1>5. \A i \in 1 .. k : i \in DOMAIN q /\ r[i] \in Messages
  BY <1>1, <1>2, <1>3
<1> QED  BY <1>3, <1>4, <1>5

LEMMA CrashKeeps ==
  ASSUME IInv, MigrationAssumption, NEW x \in Seats, Crash(x)
  PROVE  Kept
<1>1. PICK keep \in [Seats -> 0 .. MaxTurns] :
        /\ \A b \in Seats : keep[b] <= Len(net[x][b])
        /\ net' = [a \in Seats |-> [b \in Seats |->
                     IF a = x THEN SubSeq(net[x][b], 1, keep[b])
                     ELSE IF b = x THEN <<>> ELSE net[a][b]]]
  BY Zenon DEF Crash
<1>2. PICK B, P, M : B = alive' /\ P = open' /\ M = net'
  BY Zenon
<1>3. /\ B = alive \ {x} /\ P \in {open, {link \in open : x \notin link}}
      /\ session' = session /\ got' = got /\ clients' = clients
  BY <1>2, Zenon DEF Crash
<1>4. Fewer(clients, clients)
  BY StateFacts DEF Fewer
<1>5. P \in SUBSET open /\ B \in SUBSET alive
  BY <1>3
<1>6. \A a, b \in Seats : M[a][b] = IF a = x THEN SubSeq(net[x][b], 1, keep[b])
                                    ELSE IF b = x THEN <<>> ELSE net[a][b]
  BY <1>1, <1>2
<1>7. ASSUME NEW a \in Seats, NEW b \in Seats
      PROVE  M[a][b] \in Seq(Messages)
             /\ \A i \in DOMAIN M[a][b] : i \in DOMAIN net[a][b] /\ M[a][b][i] = net[a][b][i]
  <2>1. net[a][b] \in Seq(Messages)
    BY StateFacts DEF Lines
  <2>2. CASE a = x
    <3>1. M[a][b] = SubSeq(net[a][b], 1, keep[b])
      BY <2>2, <1>6
    <3>2. keep[b] \in Nat /\ keep[b] <= Len(net[a][b])
      BY <2>2, <1>1, StateFacts
    <3> QED  BY <2>1, <3>1, <3>2, Begin
  <2>3. CASE a # x /\ b = x
    <3>1. M[a][b] = <<>>
      BY <2>3, <1>6
    <3> QED  BY <3>1
  <2>4. CASE a # x /\ b # x
    <3>1. M[a][b] = net[a][b]
      BY <2>4, <1>6
    <3> QED  BY <2>1, <3>1
  <2> QED  BY <2>2, <2>3, <2>4
<1>8. M \in Lines
  <2>1. M = [a \in Seats |-> [b \in Seats |-> M[a][b]]]
    BY <1>1, <1>2
  <2> QED  BY <2>1, <1>7 DEF Lines
<1>9. \A a, b \in Seats : {a, b} \subseteq B => M[a][b] = net[a][b]
  BY <1>3, <1>6
<1>10. \A a, b \in Seats : \A i \in DOMAIN M[a][b] :
         i \in DOMAIN net[a][b] /\ M[a][b][i] = net[a][b][i]
  BY <1>7, Zenon
<1>11. IInvAt(session, got, clients, B, P, M)
  <2>1. Arrives(M, net, B)
    BY <1>8, <1>9, <1>10, Zenon DEF Arrives
  <2> QED  BY <2>1, <1>4, <1>5, StateFacts, WorldKeeps, Zenon
<1> QED  BY <1>2, <1>3, <1>11, Zenon DEF Kept
------------------------------------------------------------------------------
(* The invariant holds *)

LEMMA InitOK ==
  ASSUME Init, MigrationAssumption
  PROVE  IInv
<1>1. world \in Worlds
  BY DEF Init
<1>2. FirstHost \in Seats /\ MaxTurns \in Nat /\ MaxCuts \in Nat
  BY <1>1, WorldFacts
<1>3. PICK u, t : u = SessionWith("Normal", FirstHost, 0) /\ t = SessionWith("Host", FirstHost, 0)
  BY Zenon
<1>4. /\ session = [g \in Seats |-> IF g = FirstHost THEN t ELSE u]
      /\ got = [g \in Seats |-> <<>>]
      /\ clients = [g \in Seats |-> IF g = FirstHost THEN Seats \ {FirstHost} ELSE {}]
      /\ alive = Seats
      /\ open = {{a, b} : a, b \in Seats} \ {{a} : a \in Seats}
      /\ net = [a \in Seats |-> [b \in Seats |-> <<>>]]
      /\ silent = [g \in Seats |-> {}] /\ cuts = 0
  <2>1. u = NewSession
    BY <1>3 DEF SessionWith, NewSession
  <2>2. t = [NewSession EXCEPT !.mode = "Host"]
    <3>1. PICK n : n = [NewSession EXCEPT !.mode = "Host"]
      OBVIOUS
    <3>2. n = SessionWith("Host", FirstHost, 0)
      BY ONLY <3>1 DEF SessionWith, NewSession
    <3> QED  BY <3>1, <3>2, <1>3, Zenon
  <2>3. session = [g \in Seats |-> IF g = FirstHost THEN [NewSession EXCEPT !.mode = "Host"]
                                                    ELSE NewSession]
    BY Zenon DEF Init
  <2>4. session = [g \in Seats |-> IF g = FirstHost THEN t ELSE u]
    BY <2>1, <2>2, <2>3, Zenon
  <2>5. open = {{a, b} : a, b \in Seats} \ {{a} : a \in Seats}
    BY DEF Init
  <2>6. /\ got = [g \in Seats |-> <<>>]
        /\ clients = [g \in Seats |-> IF g = FirstHost THEN Seats \ {FirstHost} ELSE {}]
        /\ alive = Seats /\ net = [a \in Seats |-> [b \in Seats |-> <<>>]]
        /\ silent = [g \in Seats |-> {}] /\ cuts = 0
    BY Zenon DEF Init
  <2> QED  BY <2>4, <2>5, <2>6
<1>5. ASSUME NEW g \in Seats
      PROVE  SessionOK(g, u, got) /\ SessionOK(g, t, got) /\ u \in Sessions /\ t \in Sessions
  <2>1. 0 \in Nat /\ "Normal" \in {"Normal", "Host"} /\ "Host" \in {"Normal", "Host"}
    OBVIOUS
  <2>2. SessionOK(g, u, got)
    BY <2>1, <1>1, <1>2, <1>3, NewSessionOK, Zenon
  <2>3. SessionOK(g, t, got)
    BY <2>1, <1>1, <1>2, <1>3, NewSessionOK, Zenon
  <2> QED  BY <2>2, <2>3, Zenon DEF SessionOK, Draft
<1>6. /\ u.mode = "Normal" /\ u.host = FirstHost /\ u.epoch = 0
      /\ t.mode = "Host" /\ t.host = FirstHost /\ t.epoch = 0
  BY <1>3 DEF SessionWith
<1>7. /\ session \in [Seats -> Sessions] /\ session[FirstHost] = t
      /\ \A g \in Seats \ {FirstHost} : session[g] = u
  BY <1>2, <1>4, <1>5
<1>8. /\ got \in [Seats -> Seq(Seats)] /\ net \in Lines
      /\ \A a, b \in Seats : net[a][b] = <<>> /\ got[a] = <<>>
  <2>1. <<>> \in Seq(Seats) /\ <<>> \in Seq(Messages)
    OBVIOUS
  <2>2. got \in [Seats -> Seq(Seats)]
    BY <2>1, <1>4
  <2>3. net \in Lines
    BY <2>1, <1>4 DEF Lines
  <2>4. \A a, b \in Seats : net[a][b] = <<>> /\ got[a] = <<>>
    BY <1>4
  <2> QED  BY <2>2, <2>3, <2>4
<1>9. TypesAt(session, got, clients, alive, open, net)
  <2>1. clients \in [Seats -> SUBSET Seats]
    BY <1>4
  <2>2. ASSUME NEW link \in open PROVE \E a, b \in Seats : a # b /\ link = {a, b}
    <3>1. PICK a \in Seats, b \in Seats : link = {a, b}
      BY <2>2, <1>4
    <3>2. link # {a}
      BY <2>2, <1>4
    <3> QED  BY <3>1, <3>2
  <2>3. alive \subseteq Seats
    BY <1>4
  <2> QED  BY <2>1, <2>2, <2>3, <1>7, <1>8, Zenon DEF TypesAt
<1>10. ASSUME NEW g \in Seats
       PROVE  /\ SessionOK(g, session[g], got) /\ HostAt(g, session, clients)
              /\ TurnsAt(g, session, got) /\ OwnAt(g, session, got)
  <2>1. SessionOK(g, session[g], got)
    BY <1>5, <1>7
  <2>2. HostAt(g, session, clients)
    <3>1. session[g].epoch = 0
      BY <1>6, <1>7
    <3>2. ASSUME NEW e \in Nat, e <= session[g].epoch
          PROVE  \E h \in Seats : session[h].mode = "Host" /\ session[h].epoch = e
      BY <3>1, <3>2, <1>2, <1>6, <1>7
    <3>3. CASE g = FirstHost
      BY <3>2, <3>3, <1>6, <1>7 DEF HostAt
    <3>4. CASE g # FirstHost
      <4>1. clients[g] = {} /\ session[g] = u
        BY <3>4, <1>4, <1>7
      <4>2. session[g].mode = "Normal" /\ session[g].host = FirstHost
        BY <4>1, <1>6
      <4>3. session[session[g].host].mode = "Host"
        BY <4>2, <1>6, <1>7
      <4> QED  BY <3>2, <3>4, <4>1, <4>2, <4>3 DEF HostAt
    <3> QED  BY <3>3, <3>4
  <2>3. Len(got[g]) = 0 /\ Len(got[FirstHost]) = 0
    BY <1>2, <1>8
  <2>4. TurnsAt(g, session, got)
    BY <2>3, <1>2 DEF TurnsAt
  <2>5. OwnAt(g, session, got)
    <3>1. session[g].mode = "Normal" => session[g].host = FirstHost
      BY <1>6, <1>7
    <3> QED  BY <3>1, <2>3 DEF OwnAt
  <2> QED  BY <2>1, <2>2, <2>4, <2>5
<1>11. ASSUME NEW s \in Seats, NEW g \in Seats, NEW i \in DOMAIN net[s][g]
       PROVE  Sound(s, net[s][g][i], session, got)
  BY <1>8, <1>11
<1>12. ASSUME NEW h \in Seats, NEW x \in Seats
       PROVE  Stream(h, x, session, got, clients, alive, open, net)
  <2>1. Len(got[h]) = 0 /\ Len(got[x]) = 0 /\ Len(net[h][x]) = 0 /\ DOMAIN net[h][x] = {}
    BY <1>8
  <2>2. Ends(net[h][x], 0, h, Len(got[x]), got)
    BY <2>1 DEF Ends
  <2> QED  BY <2>1, <2>2, Zenon DEF Stream
<1>13. IInvAt(session, got, clients, alive, open, net)
  BY <1>9, <1>10, <1>11, <1>12, Zenon DEF IInvAt
<1>14. silent \in [Seats -> SUBSET Seats] /\ cuts \in 0 .. MaxCuts
  BY <1>2, <1>4
<1> QED  BY <1>1, <1>13, <1>14, Zenon DEF IInv

\* What holds of the values in the next state holds in the next state: the world is the same.
LEMMA NextState ==
  ASSUME world' = world, world \in Worlds, Kept,
         silent' \in [Seats -> SUBSET Seats], cuts' \in 0 .. MaxCuts
  PROVE  IInv'
<1>1. /\ Seats' = Seats /\ MaxTurns' = MaxTurns /\ MaxCuts' = MaxCuts
      /\ RefusalLimit' = RefusalLimit
  BY DEF Seats, MaxTurns, MaxCuts, RefusalLimit
<1>2. Answers' = Answers /\ Messages' = Messages
  BY <1>1 DEF Answers, Messages
<1>3. Sessions' = Sessions
  BY <1>1, <1>2 DEF Sessions, Modes
<1>4. Lines' = Lines
  BY <1>1, <1>2 DEF Lines
<1>5. TypesAt(session, got, clients, alive, open, net)'
  <2>1. TypesAt(session', got', clients', alive', open', net')
    BY Zenon DEF Kept, IInvAt
  <2> QED  BY <2>1, <1>1, <1>3, <1>4 DEF TypesAt
<1>6. (\A g \in Seats : SessionOK(g, session[g], got))'
  <2>1. \A g \in Seats : SessionOK(g, session'[g], got')
    BY Zenon DEF Kept, IInvAt
  <2> QED  BY <2>1, <1>1, <1>3, Zenon DEF SessionOK, Draft, Directed
<1>7. (\A g \in Seats : HostAt(g, session, clients))'
  <2>1. \A g \in Seats : HostAt(g, session', clients')
    BY Zenon DEF Kept, IInvAt
  <2> QED  BY <2>1, <1>1, Zenon DEF HostAt
<1>8. (\A g \in Seats : TurnsAt(g, session, got))'
  <2>1. \A g \in Seats : TurnsAt(g, session', got')
    BY Zenon DEF Kept, IInvAt
  <2> QED  BY <2>1, <1>1, Zenon DEF TurnsAt
<1>9. (\A g \in Seats : OwnAt(g, session, got))'
  <2>1. \A g \in Seats : OwnAt(g, session', got')
    BY Zenon DEF Kept, IInvAt
  <2> QED  BY <2>1, <1>1, Zenon DEF OwnAt
<1>10. (\A s, g \in Seats : \A i \in DOMAIN net[s][g] : Sound(s, net[s][g][i], session, got))'
  <2>1. \A s, g \in Seats : \A i \in DOMAIN net'[s][g] : Sound(s, net'[s][g][i], session', got')
    BY Zenon DEF Kept, IInvAt
  <2> QED  BY <2>1, <1>1, Zenon DEF Sound
<1>11. (\A h, x \in Seats : Stream(h, x, session, got, clients, alive, open, net))'
  <2>1. \A h, x \in Seats : Stream(h, x, session', got', clients', alive', open', net')
    BY Zenon DEF Kept, IInvAt
  <2> QED  BY <2>1, <1>1, Zenon DEF Stream, Served, Ends
<1>12. IInvAt(session, got, clients, alive, open, net)'
  BY <1>5, <1>6, <1>7, <1>8, <1>9, <1>10, <1>11, Zenon DEF IInvAt
<1> QED  BY <1>1, <1>12 DEF IInv

LEMMA StepOK ==
  ASSUME IInv, MigrationAssumption, [Next]_vars
  PROVE  IInv'
<1>1. world' = world
  BY DEF Next, vars
<1>2. world \in Worlds /\ silent \in [Seats -> SUBSET Seats] /\ cuts \in 0 .. MaxCuts
      /\ MaxCuts \in Nat
  BY WorldFacts DEF IInv
<1>3. SUFFICES Kept /\ silent' \in [Seats -> SUBSET Seats] /\ cuts' \in 0 .. MaxCuts
  BY <1>1, <1>2, NextState, Zenon
<1>4. CASE UNCHANGED vars
  <2>1. /\ session' = session /\ got' = got /\ clients' = clients /\ alive' = alive
        /\ open' = open /\ net' = net /\ silent' = silent /\ cuts' = cuts
    BY <1>4 DEF vars, state
  <2> QED  BY <2>1, <1>2, StateFacts, Zenon DEF Kept
<1>5. ASSUME NEW m \in Seats, NoticesLoss(m) \/ Propose(m) \/ Resolve(m) \/ GivesUpCandidate(m)
                              \/ FetchTick(m) \/ ElectionLimit(m) \/ HostSeals(m)
      PROVE  Kept /\ silent' = silent /\ cuts' = cuts
  <2>1. Kept
    BY <1>5, NoticesLossKeeps, ProposeKeeps, ResolveKeeps, GivesUpCandidateKeeps, FetchTickKeeps,
       ElectionLimitKeeps, HostSealsKeeps, Zenon
  <2>2. silent' = silent /\ cuts' = cuts
    BY <1>5, Zenon DEF NoticesLoss, Propose, Resolve, GivesUpCandidate, FetchTick, ElectionLimit,
       HostSeals
  <2> QED  BY <2>1, <2>2
<1>6. ASSUME NEW m \in Seats, NEW s \in Seats, Hear(m, s) \/ Silence(m, s)
      PROVE  /\ Kept /\ cuts' = cuts
             /\ \E D \in SUBSET Seats : silent' = [silent EXCEPT ![m] = D]
  <2>1. Kept
    BY <1>6, HearKeeps, SilenceKeeps, Zenon
  <2>2. CASE Hear(m, s)
    <3>1. silent' = [silent EXCEPT ![m] = silent[m] \ {s}] /\ cuts' = cuts
      BY <2>2, Zenon DEF Hear
    <3>2. silent[m] \ {s} \in SUBSET Seats
      BY <1>2
    <3> QED  BY <2>1, <3>1, <3>2
  <2>3. CASE Silence(m, s)
    <3>1. silent' = [silent EXCEPT ![m] = silent[m] \cup {s}] /\ cuts' = cuts
      BY <2>3, Zenon DEF Silence
    <3>2. silent[m] \cup {s} \in SUBSET Seats
      BY <1>2
    <3> QED  BY <2>1, <3>1, <3>2
  <2> QED  BY <2>2, <2>3, <1>6
<1>7. ASSUME NEW m \in Seats, NEW g \in Seats, HostDrops(m, g)
      PROVE  Kept /\ silent' = silent /\ cuts' = cuts
  <2>1. Kept
    BY <1>7, HostDropsKeeps, Zenon
  <2> QED  BY <2>1, <1>7, Zenon DEF HostDrops
<1>8. ASSUME NEW m \in Seats, Crash(m)
      PROVE  Kept /\ silent' = silent /\ cuts' = cuts
  <2>1. Kept
    BY <1>8, CrashKeeps, Zenon
  <2> QED  BY <2>1, <1>8, Zenon DEF Crash
<1>9. ASSUME NEW m \in Seats, NEW g \in Seats, Cut(m, g)
      PROVE  Kept /\ silent' = silent /\ cuts' \in 0 .. MaxCuts
  <2>1. Kept
    BY <1>9, CutKeeps, Zenon
  <2>2. silent' = silent /\ cuts' = cuts + 1 /\ cuts < MaxCuts
    BY <1>9, Zenon DEF Cut
  <2>3. cuts' \in 0 .. MaxCuts
    BY <2>2, <1>2
  <2> QED  BY <2>1, <2>2, <2>3
<1>10. CASE Next
  <2>1. PICK m \in Seats : Update(m) \/ ElectionLimit(m) \/ Crash(m) \/ \E g \in Seats : Cut(m, g)
    BY <1>10 DEF Next
  <2>2. \/ NoticesLoss(m) \/ Propose(m) \/ Resolve(m) \/ GivesUpCandidate(m) \/ FetchTick(m)
           \/ ElectionLimit(m) \/ HostSeals(m)
        \/ \E s \in Seats : Hear(m, s) \/ Silence(m, s)
        \/ \E g \in Seats : HostDrops(m, g)
        \/ Crash(m)
        \/ \E g \in Seats : Cut(m, g)
    BY <2>1, Zenon DEF Update, SessionStep, HostStep
  <2>3. CASE \E s \in Seats : Hear(m, s) \/ Silence(m, s)
    <3>1. PICK s \in Seats : Hear(m, s) \/ Silence(m, s)
      BY <2>3
    <3>2. PICK D \in SUBSET Seats : silent' = [silent EXCEPT ![m] = D]
      BY <3>1, <1>6
    <3>3. silent' \in [Seats -> SUBSET Seats]
      BY <3>2, <1>2
    <3>4. Kept /\ cuts' = cuts
      BY <3>1, <1>6
    <3> QED  BY <3>3, <3>4, <1>2
  <2>4. CASE ~\E s \in Seats : Hear(m, s) \/ Silence(m, s)
    <3>1. Kept
      BY <2>2, <2>4, <1>5, <1>7, <1>8, <1>9, Zenon
    <3>2. silent' = silent
      BY <2>2, <2>4, <1>5, <1>7, <1>8, <1>9, Zenon
    <3>3. cuts' = cuts \/ cuts' \in 0 .. MaxCuts
      BY <2>2, <2>4, <1>5, <1>7, <1>8, <1>9, Zenon
    <3> QED  BY <3>1, <3>2, <3>3, <1>2
  <2> QED  BY <2>3, <2>4
<1> QED  BY <1>4, <1>10

\* The invariant of every behaviour.
THEOREM Invariant == Spec => []IInv
<1>1. Init => IInv
  BY InitOK, MigrationAssumption
<1>2. IInv /\ [Next]_vars => IInv'
  BY StepOK, MigrationAssumption
<1> QED  BY <1>1, <1>2, PTL DEF Spec
------------------------------------------------------------------------------
(* What follows *)

\* A machine has had no more epochs than there are machines: each was of a host of its own.
LEMMA EpochBound ==
  ASSUME IInv, MigrationAssumption, NEW g \in Seats
  PROVE  session[g].epoch \in 0 .. Cardinality(Seats)
<1>1. IsFiniteSet(Seats) /\ session \in [Seats -> Sessions]
  BY StateFacts, WorldFacts
<1>2. PICK E : E = session[g].epoch /\ E \in Nat
  BY <1>1 DEF Sessions
<1>3. \A e \in Nat : e <= E => \E h \in Seats : session[h].mode = "Host" /\ session[h].epoch = e
  BY <1>2, StateFacts, Zenon DEF IInvAt, HostAt
<1>4. PICK f : f = [e \in 0 .. E |-> CHOOSE h \in Seats : session[h].epoch = e]
  OBVIOUS
<1>5. ASSUME NEW e \in 0 .. E PROVE f[e] \in Seats /\ session[f[e]].epoch = e
  <2>1. \E h \in Seats : session[h].epoch = e
    <3>1. e \in Nat /\ e <= E
      BY <1>2, <1>5
    <3> QED  BY <3>1, <1>3
  <2>2. f[e] = CHOOSE h \in Seats : session[h].epoch = e
    BY <1>4, <1>5
  <2> QED  BY <2>1, <2>2, Zenon
<1>6. f \in Injection(0 .. E, Seats)
  <2>1. f \in [0 .. E -> Seats]
    BY <1>4, <1>5
  <2>2. \A a, b \in 0 .. E : f[a] = f[b] => a = b
    BY <1>5
  <2> QED  BY <2>1, <2>2 DEF Injection, IsInjective
<1>7. Cardinality(0 .. E) <= Cardinality(Seats) /\ Cardinality(Seats) \in Nat
  BY <1>1, <1>6, FS_Injection, FS_CardinalityType
<1>8. Cardinality(0 .. E) = E + 1
  <2>1. 0 \in Int /\ E \in Int /\ ~(0 > E) /\ E - 0 + 1 = E + 1
    BY <1>2
  <2> QED  BY <2>1, FS_Interval
<1> QED  BY <1>2, <1>7, <1>8

LEMMA TypesFollow ==
  ASSUME IInv, MigrationAssumption
  PROVE  TypeOK
<1>1. TypesAt(session, got, clients, alive, open, net) /\ RefusalLimit \in Nat /\ MaxTurns \in Nat
  BY StateFacts, Zenon DEF IInvAt
<1>2. ASSUME NEW g \in Seats
      PROVE  /\ session[g].mode \in Modes
             /\ session[g].host \in Seats
             /\ session[g].dead \subseteq Seats /\ session[g].expected \subseteq Seats \ {g}
             /\ session[g].hint \in Seats \cup {None} /\ session[g].following \in Seats \cup {None}
             /\ session[g].source \in Seats \cup {None} /\ session[g].target \in 0 .. MaxTurns
             /\ session[g].proposed \in BOOLEAN
             /\ session[g].refusals \in 0 .. RefusalLimit
             /\ DOMAIN session[g].answers \subseteq session[g].expected
             /\ \A s \in DOMAIN session[g].answers : session[g].answers[s] \in Answers
             /\ \A b \in Seats : \A i \in DOMAIN net[g][b] : net[g][b][i] \in Messages
  <2>1. PICK t : t = session[g] /\ Draft(g, t, got)
    BY OwnSession, Zenon DEF SessionOK
  <2>2. /\ t \in Sessions /\ t.expected \subseteq Seats \ {g} /\ DOMAIN t.answers \subseteq t.expected
        /\ t.target <= MaxTurns /\ t.refusals <= RefusalLimit
    BY <2>1, Zenon DEF Draft
  <2>3. /\ t.mode \in Modes /\ t.host \in Seats /\ t.dead \subseteq Seats
        /\ t.hint \in Seats \cup {None} /\ t.following \in Seats \cup {None}
        /\ t.source \in Seats \cup {None} /\ t.target \in Nat
        /\ t.proposed \in BOOLEAN /\ t.refusals \in Nat
        /\ t.answers \in UNION {[T -> Answers] : T \in SUBSET Seats}
    BY <2>2 DEF Sessions
  <2>4. \A s \in DOMAIN t.answers : t.answers[s] \in Answers
    BY <2>3
  <2>5. \A b \in Seats : \A i \in DOMAIN net[g][b] : net[g][b][i] \in Messages
    BY <1>1 DEF TypesAt, Lines
  <2>6. t.target \in 0 .. MaxTurns /\ t.refusals \in 0 .. RefusalLimit
    BY <2>2, <2>3, <1>1
  <2> QED  BY <2>1, <2>2, <2>3, <2>4, <2>5, <2>6, Zenon
<1>3. ASSUME NEW link \in open PROVE link \subseteq Seats /\ Cardinality(link) = 2
  <2>1. PICK a \in Seats, b \in Seats : a # b /\ link = {a, b}
    BY <1>1 DEF TypesAt
  <2>2. IsFiniteSet({a}) /\ Cardinality({a}) = 1
    BY FS_Singleton
  <2>3. Cardinality({a} \cup {b}) = 2
    <3>1. b \notin {a}
      BY <2>1
    <3>2. Cardinality({a} \cup {b}) = Cardinality({a}) + 1
      BY <2>2, <3>1, FS_AddElement, Zenon
    <3> QED  BY <2>2, <3>2
  <2>4. {a} \cup {b} = link
    BY <2>1
  <2> QED  BY <2>1, <2>3, <2>4
<1>4. /\ got \in [Seats -> Seq(Seats)] /\ clients \in [Seats -> SUBSET Seats] /\ alive \subseteq Seats
      /\ silent \in [Seats -> SUBSET Seats] /\ cuts \in 0 .. MaxCuts
  BY StateFacts DEF IInv
<1> QED  BY <1>2, <1>3, <1>4, EpochBound, Zenon DEF TypeOK

\* A guest and what is on its way to it
LEMMA StepFollows ==
  ASSUME IInv, MigrationAssumption
  PROVE  InStep
<1>1. SUFFICES ASSUME NEW g \in Seats, session[g].mode = "Normal", NEW h, h = session[g].host
               PROVE  /\ Len(got[g]) <= Len(got[h])
                      /\ \A k \in DOMAIN got[g] : got[h][k] = h => got[g][k] = h
                      /\ {g, h} \subseteq alive /\ g \in clients[h] /\ Linked(g, h) =>
                           /\ Len(got[h]) - Len(got[g]) <= Len(net[h][g])
                           /\ \A k \in 1 .. Len(got[h]) - Len(got[g]) :
                                net[h][g][Len(net[h][g]) - (Len(got[h]) - Len(got[g])) + k] =
                                  [type |-> "Turn", turn |-> Len(got[g]) + k - 1,
                                   by |-> got[h][Len(got[g]) + k]]
  BY Zenon DEF InStep
<1>2. h \in Seats /\ got[g] \in Seq(Seats) /\ got[h] \in Seq(Seats) /\ net[h][g] \in Seq(Messages)
  <2>1. h \in Seats
    BY <1>1, StateFacts DEF Sessions
  <2> QED  BY <2>1, StateFacts DEF Lines
<1>3. PICK n, L, K, q : n = Len(got[g]) /\ L = Len(got[h]) /\ q = net[h][g] /\ K = Len(q)
  BY Zenon
<1>4. n \in Nat /\ L \in Nat /\ K \in Nat /\ DOMAIN got[g] = 1 .. n
  BY <1>2, <1>3
<1>5. n <= L /\ \A k \in 1 .. n : got[h][k] = h => got[g][k] = h
  <2>1. OwnAt(g, session, got)
    BY StateFacts, Zenon DEF IInvAt
  <2> QED  BY <2>1, <1>1, <1>3, Zenon DEF OwnAt
<1>6. ASSUME {g, h} \subseteq alive, g \in clients[h], Linked(g, h)
      PROVE  L - n <= K /\ \A k \in 1 .. L - n :
               q[K - (L - n) + k] = [type |-> "Turn", turn |-> n + k - 1, by |-> got[h][n + k]]
  <2>1. {g, h} = {h, g}
    OBVIOUS
  <2>2. Served(h, g, clients, alive, open)
    BY <2>1, <1>6, Zenon DEF Served, Linked
  <2>3. Stream(h, g, session, got, clients, alive, open, net)
    BY <1>2, StateFacts, Zenon DEF IInvAt
  <2>4. Ends(q, 0, h, n, got)
    BY <2>2, <2>3, <1>1, <1>3, Zenon DEF Stream
  <2>5. L - n <= K - 0 /\ \A k \in 1 .. L : n < k =>
          q[K - L + k] = [type |-> "Turn", turn |-> k - 1, by |-> got[h][k]]
    BY <2>4, <1>3, Zenon DEF Ends
  <2>6. ASSUME NEW k \in 1 .. L - n
        PROVE  q[K - (L - n) + k] = [type |-> "Turn", turn |-> n + k - 1, by |-> got[h][n + k]]
    <3>1. PICK j : j = n + k
      OBVIOUS
    <3>2. j \in 1 .. L /\ n < j /\ K - L + j = K - (L - n) + k /\ j - 1 = n + k - 1
      BY <3>1, <2>6, <1>4
    <3>3. q[K - L + j] = [type |-> "Turn", turn |-> j - 1, by |-> got[h][j]]
      BY <3>2, <2>5
    <3> QED  BY <3>1, <3>2, <3>3
  <2> QED  BY <2>5, <2>6, <1>4
<1> QED  BY <1>3, <1>4, <1>5, <1>6, Zenon

\* Whatever machines die and whatever time-outs fire, the state is typed: an epoch is no larger
\* than the number of seats, no more turns are asked for than there are, answers are of those
\* who were asked.
THEOREM TypeCorrect == Spec => []TypeOK
<1>1. IInv => TypeOK
  BY TypesFollow, MigrationAssumption
<1> QED  BY <1>1, Invariant, PTL

\* Whatever machines die and whatever time-outs fire, a guest has what its host sealed, and what
\* it lacks is on its way to it.
THEOREM StaysInStep == Spec => []InStep
<1>1. IInv => InStep
  BY StepFollows, MigrationAssumption
<1> QED  BY <1>1, Invariant, PTL
------------------------------------------------------------------------------
(* A guest that lost the host of the match, beside one that plays on with it *)

\* b still plays with the host that everybody began with; g elects another one.
Stays(b) == b \in alive /\ session[b].mode = "Normal" /\ session[b].host = FirstHost
Departs(g) == g \in alive /\ Electing(g) /\ session[g].host = FirstHost

\* out: what g sent to b and b did not read; in: what b sent to g
Pending(out, in) ==
  \/ \E i \in DOMAIN out : out[i].type = "Propose" /\ out[i].epoch = 1
  \/ \E i \in DOMAIN in : in[i].type = "Refuse" /\ in[i].epoch = 1

\* The session of g is t and has not heard heardNot for long: it counts on the answer of b, and
\* that is that the host lives.
Refused(b, t, heardNot, out, in) ==
  /\ b \notin t.dead /\ b \notin heardNot /\ b # t.hint /\ b # t.following /\ t.mode # "Fetching"
  /\ t.proposed =>
       /\ b \in t.expected
       /\ b \in DOMAIN t.answers => ~t.answers[b].accepted /\ t.answers[b].lowest = FirstHost
       /\ b \notin DOMAIN t.answers => Pending(out, in)

\* A guest of the first host says nothing but that.
Loyal(q) == \A i \in DOMAIN q : /\ q[i].type \in {"Turn", "Refuse"}
                                /\ q[i].type = "Refuse" => q[i].lowest = FirstHost

FirstHostInv == session[FirstHost].mode = "Host" /\ session[FirstHost].epoch = 0
FirstEpoch == \A x \in Seats : session[x].host = FirstHost => session[x].epoch = 0
\* Who plays with a host follows nobody and asks nobody.
Fresh(t) == t.mode = "Normal" => t.following = None /\ ~t.proposed
FreshInv == \A x \in Seats : Fresh(session[x])
SilentInv ==
  \A g \in Seats : \A s \in silent[g] : s \notin alive \/ session[s].mode \in {"Lost", "Host"}
LoyalInv == \A b \in Seats : Stays(b) => \A g \in Seats : Loyal(net[b][g])
RefusedInv ==
  \A g, b \in Seats : Departs(g) /\ Stays(b) /\ Linked(g, b) =>
    Refused(b, session[g], silent[g], net[g][b], net[b][g])

BesideInv == FirstHostInv /\ FirstEpoch /\ FreshInv /\ SilentInv /\ LoyalInv /\ RefusedInv

\* What is asked of a step of the machine a
SettledKept(a) == session[a].mode \in {"Host", "Lost"} => session'[a] = session[a]
EpochKept(a) == session'[a].host = FirstHost => session'[a].epoch = 0
FreshKept(a) == Fresh(session'[a])
SilentKept(a) ==
  \A s \in silent'[a] : s \in silent[a] \/ s \notin alive \/ session[s].mode \in {"Lost", "Host"}
LeavesSo(a) ==
  \A b \in Seats \ {a} : Departs(a)' /\ Stays(b) /\ Linked(a, b)' =>
    Refused(b, session'[a], silent'[a], net'[a][b], net'[b][a])
Lasting(a, g) ==
  Departs(g) /\ Linked(g, a) /\ Pending(net[g][a], net[a][g]) => Pending(net'[g][a], net'[a][g])
StaysSo(a) ==
  Stays(a)' => /\ Stays(a) /\ \A g \in Seats : Loyal(net'[a][g])
               /\ \A g \in Seats \ {a} : Lasting(a, g)
TakesSo(a) ==
  session[a].mode # "Host" /\ session'[a].mode = "Host" /\ session[a].host = FirstHost =>
    \A b \in Seats \ {a} : ~(Stays(b) /\ Linked(a, b))
Behaves(a) ==
  /\ SettledKept(a) /\ EpochKept(a) /\ FreshKept(a) /\ SilentKept(a)
  /\ LeavesSo(a) /\ StaysSo(a) /\ TakesSo(a)
------------------------------------------------------------------------------
(* What a step of one machine leaves as it is *)

\* What a hears of x is part of what was under way.
Part(r, q) == \A i \in DOMAIN r : \E j \in DOMAIN q : r[i] = q[j]
Rest(a, M, N) ==
  \A x \in Seats \ {a} : /\ \A y \in Seats \ {a} : M[x][y] = N[x][y]
                         /\ Part(M[x][a], N[x][a])
Frame(a) ==
  /\ open' \subseteq open /\ alive' \subseteq alive
  /\ \A x \in Seats \ {a} : session'[x] = session[x] /\ silent'[x] = silent[x]
  /\ Rest(a, net', net)

LEMMA PartSame ==
  ASSUME NEW q
  PROVE  Part(q, q)
BY Zenon DEF Part

LEMMA RestSame ==
  ASSUME NEW a, NEW N
  PROVE  Rest(a, N, N)
BY PartSame, Zenon DEF Rest

LEMMA RestPost ==
  ASSUME NEW a \in Seats, NEW n \in Lines, NEW N, Rest(a, n, N), NEW box, NEW M, M = Post(n, a, box)
  PROVE  Rest(a, M, N)
<1>1. ASSUME NEW x \in Seats \ {a} PROVE M[x] = n[x]
  BY DEF Post, Lines
<1> QED  BY <1>1, Zenon DEF Rest

LEMMA RestHeard ==
  ASSUME NEW N \in Lines, NEW a \in Seats, NEW s \in Seats, NEW M, Heard(s, a, N, M)
  PROVE  Rest(a, M, N)
<1>1. ASSUME NEW x \in Seats, NEW y \in Seats, y # a PROVE M[x][y] = N[x][y]
  BY <1>1, Zenon DEF Heard
<1>2. ASSUME NEW x \in Seats, NEW i \in DOMAIN M[x][a]
      PROVE  \E j \in DOMAIN N[x][a] : M[x][a][i] = N[x][a][j]
  <2>1. /\ x = s /\ a = a => i + 1 \in DOMAIN N[x][a] /\ M[x][a][i] = N[x][a][i + 1]
        /\ x # s \/ a # a => i \in DOMAIN N[x][a] /\ M[x][a][i] = N[x][a][i]
    BY <1>2, HeardMessage
  <2> QED  BY <2>1, Zenon
<1>3. ASSUME NEW x \in Seats PROVE Part(M[x][a], N[x][a])
  BY <1>2, Zenon DEF Part
<1> QED  BY <1>1, <1>3, Zenon DEF Rest

LEMMA RestCutOff ==
  ASSUME NEW a \in Seats, NEW n \in Lines, NEW N, Rest(a, n, N), NEW M, M = CutOff(a, n)
  PROVE  Rest(a, M, N) /\ M \in Lines
<1>1. PICK h : h = session[a].host
  OBVIOUS
<1>2. M = [n EXCEPT ![h][a] = <<>>]
  BY <1>1, Zenon DEF CutOff
<1>3. ASSUME NEW x \in Seats, NEW y \in Seats
      PROVE  M[x][y] = IF x = h /\ y = a THEN <<>> ELSE n[x][y]
  <2>1. DOMAIN n = Seats /\ n[x] \in [Seats -> Seq(Messages)]
    BY DEF Lines
  <2>2. DOMAIN n[x] = Seats
    BY <2>1
  <2>3. x = h => M[x] = [n[x] EXCEPT ![a] = <<>>]
    BY <1>2, <2>1
  <2>4. x # h => M[x] = n[x]
    BY <1>2, <2>1
  <2>5. CASE x = h
    <3>1. M[x] = [n[x] EXCEPT ![a] = <<>>]
      BY <2>3, <2>5
    <3>2. M[x][y] = IF y = a THEN <<>> ELSE n[x][y]
      BY <3>1, <2>2, Zenon
    <3> QED  BY <3>2, <2>5, Zenon
  <2>6. CASE x # h
    BY <2>4, <2>6
  <2> QED  BY <2>5, <2>6
<1>4. ASSUME NEW x \in Seats \ {a}, NEW y \in Seats \ {a} PROVE M[x][y] = N[x][y]
  <2>1. M[x][y] = n[x][y]
    BY <1>3
  <2>2. n[x][y] = N[x][y]
    BY Zenon DEF Rest
  <2> QED  BY <2>1, <2>2
<1>5. ASSUME NEW x \in Seats \ {a} PROVE Part(M[x][a], N[x][a])
  <2>1. CASE x = h
    <3>1. M[x][a] = <<>>
      BY <2>1, <1>3
    <3> QED  BY <3>1 DEF Part
  <2>2. CASE x # h
    BY <2>2, <1>3, Zenon DEF Rest
  <2> QED  BY <2>1, <2>2
<1>6. M \in Lines
  <2>1. CASE h \in Seats
    BY <1>2, <2>1, EmptySeq DEF Lines
  <2>2. CASE h \notin Seats
    BY <1>2, <2>2 DEF Lines
  <2> QED  BY <2>1, <2>2
<1> QED  BY <1>4, <1>5, <1>6, Zenon DEF Rest

HeardNet(g, s) == [net EXCEPT ![s][g] = Tail(@)]
SilentThen(g, s) == [silent EXCEPT ![g] = @ \ {s}]
Speaks(a, n) == \E box : net' = Post(n, a, box)
HearsTurn(g, s, m, n) ==
  /\ m.type = "Turn" /\ net' = n /\ session' = session /\ open' = open
  /\ got' = IF TakesTurn(g, s, m) THEN [got EXCEPT ![g] = Append(@, m.by)] ELSE got
HearsPropose(g, s, m, n) == m.type = "Propose" /\ HearPropose(g, s, m, n) /\ got' = got
HearsAnswer(g, s, m, n) ==
  m.type \in {"Accept", "Refuse"} /\ HearAnswer(g, s, m, n) /\ got' = got /\ open' = open
HearsResume(g, s, m, n) == m.type = "Resume" /\ HearResume(g, s, m, n) /\ got' = got /\ open' = open
HearsRequest(g, s, m, n) ==
  /\ m.type = "Request" /\ net' = Post(n, g, To(s, TurnsFrom(g, m.turn)))
  /\ session' = session /\ got' = got /\ open' = open

\* A closer look at Hear: the message, and what is left under way.
LEMMA HearFacts ==
  ASSUME IInv, MigrationAssumption, NEW g \in Seats, NEW s \in Seats, Hear(g, s),
         NEW m, m = Head(net[s][g]), NEW n, n = HeardNet(g, s)
  PROVE  /\ g \in alive /\ Listens(g) /\ Heard(s, g, net, n) /\ n \in Lines
         /\ m \in Messages /\ m = net[s][g][1] /\ 1 \in DOMAIN net[s][g]
            /\ Sound(s, m, session, got)
         /\ silent' = SilentThen(g, s) /\ clients' = clients /\ alive' = alive
         /\ HearsTurn(g, s, m, n) \/ HearsPropose(g, s, m, n) \/ HearsAnswer(g, s, m, n)
            \/ HearsResume(g, s, m, n) \/ HearsRequest(g, s, m, n)
<1>1. net \in Lines /\ net[s][g] \in Seq(Messages)
  BY StateFacts DEF Lines
<1>2. net[s][g] # <<>> /\ g \in alive /\ Listens(g)
  BY Zenon DEF Hear
<1>3. Heard(s, g, net, n)
  BY <1>1, <1>2, HeardFacts, Zenon DEF HeardNet
<1>4. n \in Lines
  BY <1>3, Zenon DEF Heard
<1>5. m \in Messages /\ m = net[s][g][1] /\ 1 \in DOMAIN net[s][g]
  <2>1. PICK q : q = net[s][g]
    OBVIOUS
  <2>2. Head(q) \in Messages /\ Head(q) = q[1] /\ Len(q) \in Nat \ {0}
    BY <1>1, <1>2, <2>1, TailAt
  <2>3. 1 \in DOMAIN q
    BY <1>1, <2>1, <2>2
  <2> QED  BY <2>1, <2>2, <2>3
<1>6. Sound(s, m, session, got)
  <2>1. Sound(s, net[s][g][1], session, got)
    BY <1>5, StateFacts, Zenon DEF IInvAt
  <2> QED  BY <1>5, <2>1, Zenon
<1>7. /\ silent' = SilentThen(g, s) /\ clients' = clients /\ alive' = alive
      /\ HearsTurn(g, s, m, n) \/ HearsPropose(g, s, m, n) \/ HearsAnswer(g, s, m, n)
         \/ HearsResume(g, s, m, n) \/ HearsRequest(g, s, m, n)
  BY Zenon DEF Hear, HeardNet, SilentThen, HearsTurn, HearsPropose, HearsAnswer, HearsResume,
     HearsRequest
<1> QED  BY <1>2, <1>3, <1>4, <1>5, <1>6, <1>7, Zenon

\* The session t of one that accepts the candidate s
Accepting(t, s) == [Withdrawn(t) EXCEPT !.following = s, !.mode = "Following",
                                        !.source = None, !.target = 0]
Declines(g, s, t, n) ==
  session' = [session EXCEPT ![g] = t] /\ \E low : net' = Post(n, g, To(s, <<RefuseMsg(t, low)>>))
Accepts(g, s, t, n) == session' = [session EXCEPT ![g] = Accepting(t, s)] /\ Speaks(g, n)

\* on_propose(): refused, or accepted.
LEMMA AnswerCases ==
  ASSUME NEW g, NEW s, NEW t, NEW n, AnswerProposal(g, s, t, n)
  PROVE  Declines(g, s, t, n) \/ Accepts(g, s, t, n)
<1>1. CASE t.following \notin {None, s} /\ t.following \notin t.dead /\ PeerAlive(g, t.following)
  BY <1>1, Zenon DEF AnswerProposal, Declines
<1>2. CASE /\ ~(t.following \notin {None, s} /\ t.following \notin t.dead /\ PeerAlive(g, t.following))
           /\ LowestAlive(g, t) < s
  BY <1>2, Zenon DEF AnswerProposal, Declines
<1>3. CASE /\ ~(t.following \notin {None, s} /\ t.following \notin t.dead /\ PeerAlive(g, t.following))
           /\ ~(LowestAlive(g, t) < s)
  BY <1>3, Zenon DEF AnswerProposal, Accepts, Accepting, Speaks
<1> QED  BY <1>1, <1>2, <1>3, Zenon

LEMMA AnswerSpeaks ==
  ASSUME NEW g, NEW s, NEW t, NEW n, AnswerProposal(g, s, t, n)
  PROVE  Speaks(g, n) /\ \E u : session' = [session EXCEPT ![g] = u]
<1>1. CASE Declines(g, s, t, n)
  <2>1. Speaks(g, n)
    BY <1>1, Zenon DEF Declines, Speaks
  <2>2. \E u : session' = [session EXCEPT ![g] = u]
    BY <1>1, Zenon DEF Declines
  <2> QED  BY <2>1, <2>2
<1>2. CASE Accepts(g, s, t, n)
  <2>1. \E u : session' = [session EXCEPT ![g] = u]
    BY <1>2, Zenon DEF Accepts
  <2> QED  BY <1>2, <2>1 DEF Accepts
<1> QED  BY <1>1, <1>2, AnswerCases, Zenon

\* One that had not noticed the loss, and takes the sender's word for it
Convinced(t, s) == [BegunElection(t) EXCEPT !.dead = @ \ {s}]
Revives(t, s) == [t EXCEPT !.dead = @ \ {s}]
Ignores(n) == net' = n /\ session' = session /\ open' = open
SaysHostLives(g, s, t, n) ==
  MayBelieve(g, s) /\ net' = Post(n, g, To(s, <<RefuseMsg(t, t.host)>>))
  /\ session' = session /\ open' = open
TakesItsWord(g, s, t, n) ==
  t.mode = "Normal" /\ MayDoubt(g) /\ AnswerProposal(g, s, Convinced(t, s), CutOff(g, n))
  /\ open' = open \ {{g, t.host}}
Votes(g, s, t, n) ==
  Electing(g) /\ AnswerProposal(g, s, Revives(t, s), n) /\ open' = open

LEMMA ProposeCases ==
  ASSUME NEW g, NEW s, NEW m, NEW n, HearPropose(g, s, m, n), NEW t, t = session[g]
  PROVE  \/ Ignores(n) /\ m.epoch # ElectionEpoch(t)
         \/ /\ m.epoch = ElectionEpoch(t)
            /\ SaysHostLives(g, s, t, n) \/ TakesItsWord(g, s, t, n) \/ Votes(g, s, t, n)
<1>1. CASE m.epoch # ElectionEpoch(t)
  BY <1>1, Zenon DEF HearPropose, Ignores
<1>2. CASE m.epoch = ElectionEpoch(t)
  BY <1>2, Zenon DEF HearPropose, SaysHostLives, TakesItsWord, Votes, Convinced, Revives
<1> QED  BY <1>1, <1>2, Zenon

LEMMA OneSession ==
  ASSUME IInv, MigrationAssumption, NEW g \in Seats,
         session' = session \/ \E u : session' = [session EXCEPT ![g] = u]
  PROVE  \A x \in Seats \ {g} : session'[x] = session[x]
BY StateFacts

LEMMA SpeaksRest ==
  ASSUME NEW a \in Seats, NEW n \in Lines, NEW N, Rest(a, n, N), Speaks(a, n)
  PROVE  Rest(a, net', N)
<1>1. PICK box : net' = Post(n, a, box)
  BY DEF Speaks
<1> QED  BY <1>1, RestPost, Zenon

LEMMA HearFrame ==
  ASSUME IInv, MigrationAssumption, NEW g \in Seats, NEW s \in Seats, Hear(g, s)
  PROVE  Frame(g)
<1>1. PICK m, n : m = Head(net[s][g]) /\ n = HeardNet(g, s)
  BY Zenon
<1>2. /\ Heard(s, g, net, n) /\ n \in Lines /\ net \in Lines
      /\ silent' = SilentThen(g, s) /\ alive' = alive
      /\ HearsTurn(g, s, m, n) \/ HearsPropose(g, s, m, n) \/ HearsAnswer(g, s, m, n)
         \/ HearsResume(g, s, m, n) \/ HearsRequest(g, s, m, n)
  BY <1>1, HearFacts, StateFacts, Zenon
<1>3. Rest(g, n, net)
  BY <1>2, RestHeard, Zenon
<1>4. Speaks(g, n) => Rest(g, net', net)
  BY <1>2, <1>3, SpeaksRest, Zenon
<1>5. PICK k : k = CutOff(g, n)
  OBVIOUS
<1>6. Speaks(g, k) => Rest(g, net', net)
  <2>1. Rest(g, k, net) /\ k \in Lines
    BY <1>2, <1>3, <1>5, RestCutOff, Zenon
  <2> QED  BY <2>1, SpeaksRest, Zenon
<1>7. /\ Rest(g, net', net) /\ open' \subseteq open
      /\ session' = session \/ \E u : session' = [session EXCEPT ![g] = u]
  <2>1. CASE HearsTurn(g, s, m, n)
    <3>1. net' = n /\ session' = session /\ open' = open
      BY <2>1, Zenon DEF HearsTurn
    <3> QED  BY <3>1, <1>3
  <2>2. CASE HearsPropose(g, s, m, n)
    <3>1. PICK t : t = session[g]
      OBVIOUS
    <3>2. HearPropose(g, s, m, n)
      BY <2>2, Zenon DEF HearsPropose
    <3>3. Ignores(n) \/ SaysHostLives(g, s, t, n) \/ TakesItsWord(g, s, t, n) \/ Votes(g, s, t, n)
      BY <3>1, <3>2, ProposeCases, Zenon
    <3>4. CASE Ignores(n)
      <4>1. net' = n /\ session' = session /\ open' = open
        BY <3>4, Zenon DEF Ignores
      <4> QED  BY <4>1, <1>3
    <3>5. CASE SaysHostLives(g, s, t, n)
      <4>1. Speaks(g, n) /\ session' = session /\ open' = open
        BY <3>5, Zenon DEF SaysHostLives, Speaks
      <4> QED  BY <4>1, <1>4
    <3>6. CASE TakesItsWord(g, s, t, n)
      <4>1. AnswerProposal(g, s, Convinced(t, s), k) /\ open' = open \ {{g, t.host}}
        BY <3>6, <1>5, Zenon DEF TakesItsWord
      <4>2. Speaks(g, k) /\ \E u : session' = [session EXCEPT ![g] = u]
        BY <4>1, AnswerSpeaks, Zenon
      <4>3. open' \subseteq open
        BY <4>1
      <4> QED  BY <4>2, <4>3, <1>6, Zenon
    <3>7. CASE Votes(g, s, t, n)
      <4>1. AnswerProposal(g, s, Revives(t, s), n) /\ open' \subseteq open
        BY <3>7 DEF Votes
      <4>2. Speaks(g, n) /\ \E u : session' = [session EXCEPT ![g] = u]
        BY <4>1, AnswerSpeaks, Zenon
      <4> QED  BY <4>1, <4>2, <1>4, Zenon
    <3> QED  BY <3>3, <3>4, <3>5, <3>6, <3>7, Zenon
  <2>3. CASE HearsAnswer(g, s, m, n)
    <3>1. net' = n /\ open' = open /\ \E u : session' = [session EXCEPT ![g] = u]
      BY <2>3, Zenon DEF HearsAnswer, HearAnswer
    <3> QED  BY <3>1, <1>3
  <2>4. CASE HearsResume(g, s, m, n)
    <3>1. net' = n /\ open' = open /\ \E u : session' = [session EXCEPT ![g] = u]
      BY <2>4, Zenon DEF HearsResume, HearResume
    <3> QED  BY <3>1, <1>3
  <2>5. CASE HearsRequest(g, s, m, n)
    <3>1. Speaks(g, n) /\ session' = session /\ open' = open
      BY <2>5, Zenon DEF HearsRequest, Speaks
    <3> QED  BY <3>1, <1>4
  <2> QED  BY <2>1, <2>2, <2>3, <2>4, <2>5, <1>2, Zenon
<1>8. \A x \in Seats \ {g} : session'[x] = session[x]
  BY <1>7, OneSession, Zenon
<1>9. \A x \in Seats \ {g} : silent'[x] = silent[x]
  <2>1. silent \in [Seats -> SUBSET Seats]
    BY Zenon DEF IInv
  <2> QED  BY <2>1, <1>2 DEF SilentThen
<1> QED  BY <1>2, <1>7, <1>8, <1>9 DEF Frame

LEMMA QuietFrame ==
  ASSUME NEW a, open' \subseteq open, alive' \subseteq alive, session' = session,
         silent' = silent, net' = net
  PROVE  Frame(a)
BY RestSame, Zenon DEF Frame

LEMMA TellsFrame ==
  ASSUME IInv, MigrationAssumption, NEW a \in Seats, Speaks(a, net), open' \subseteq open,
         alive' \subseteq alive, silent' = silent,
         session' = session \/ \E u : session' = [session EXCEPT ![a] = u]
  PROVE  Frame(a)
<1>1. Rest(a, net', net)
  <2>1. net \in Lines /\ Rest(a, net, net)
    BY StateFacts, RestSame, Zenon
  <2> QED  BY <2>1, SpeaksRest, Zenon
<1>2. \A x \in Seats \ {a} : session'[x] = session[x]
  BY OneSession, Zenon
<1> QED  BY <1>1, <1>2, Zenon DEF Frame

LEMMA NoticesLossFrame ==
  ASSUME IInv, MigrationAssumption, NEW a \in Seats, NoticesLoss(a)
  PROVE  Frame(a)
<1>1. /\ session' = [session EXCEPT ![a] = BegunElection(session[a])]
      /\ open' = open \ {{a, session[a].host}} /\ net' = CutOff(a, net)
      /\ alive' = alive /\ silent' = silent
  BY Zenon DEF NoticesLoss
<1>2. Rest(a, net', net)
  <2>1. net \in Lines /\ Rest(a, net, net)
    BY StateFacts, RestSame, Zenon
  <2> QED  BY <1>1, <2>1, RestCutOff, Zenon
<1>3. \A x \in Seats \ {a} : session'[x] = session[x]
  BY <1>1, OneSession, Zenon
<1>4. open' \subseteq open
  BY <1>1
<1> QED  BY <1>1, <1>2, <1>3, <1>4, Zenon DEF Frame

LEMMA ProposeFrame ==
  ASSUME IInv, MigrationAssumption, NEW a \in Seats, Propose(a)
  PROVE  Frame(a)
<1>1. Speaks(a, net)
  BY Zenon DEF Propose, Speaks
<1>2. /\ \E u : session' = [session EXCEPT ![a] = u]
      /\ alive' = alive /\ open' = open /\ silent' = silent
  BY Zenon DEF Propose
<1> QED  BY <1>1, <1>2, TellsFrame

\* promote() says good-bye to what it did not read.
LEMMA PromoteFrame ==
  ASSUME IInv, MigrationAssumption, NEW a \in Seats, NEW t, Promote(a, t, net),
         open' = open, alive' = alive, silent' = silent
  PROVE  Frame(a)
<1>1. PICK n : n = [x \in Seats |-> [net[x] EXCEPT ![a] = <<>>]]
  OBVIOUS
<1>2. Speaks(a, n)
  BY <1>1, Zenon DEF Promote, Speaks
<1>3. \E u : session' = [session EXCEPT ![a] = u]
  BY Zenon DEF Promote
<1>4. net \in Lines
  BY StateFacts, Zenon
<1>5. n \in Lines /\ \A x, y \in Seats : n[x][y] = IF y = a THEN <<>> ELSE net[x][y]
  BY <1>1, <1>4, EmptySeq DEF Lines
<1>6. Rest(a, n, net)
  <2>1. ASSUME NEW x \in Seats PROVE Part(n[x][a], net[x][a])
    <3>1. n[x][a] = <<>>
      BY <1>5
    <3> QED  BY <3>1 DEF Part
  <2> QED  BY <1>5, <2>1 DEF Rest
<1>7. Rest(a, net', net)
  BY <1>2, <1>5, <1>6, SpeaksRest, Zenon
<1>8. \A x \in Seats \ {a} : session'[x] = session[x]
  BY <1>3, OneSession, Zenon
<1> QED  BY <1>7, <1>8, Zenon DEF Frame

\* One that elected, t, has a host or asks for turns: itself is the host then.
Fetching(a, t) ==
  /\ \E u : session' = [session EXCEPT ![a] = u] /\ u.mode = "Fetching" /\ u.host = t.host
                                                   /\ u.epoch = t.epoch
  /\ Speaks(a, net)

LEMMA PlanCases ==
  ASSUME IInv, MigrationAssumption, NEW a \in Seats, NEW t \in Sessions, PlanFetch(a, t, net)
  PROVE  Promote(a, t, net) \/ Fetching(a, t)
<1>1. PICK ahead : ahead = {s \in Followers(a, t) : t.answers[s].next > Len(got[a])}
  OBVIOUS
<1>2. PICK furthest : furthest = {s \in ahead : \A r \in ahead : t.answers[r].next <= t.answers[s].next}
  OBVIOUS
<1>3. CASE ahead = {}
  BY <1>1, <1>3, Zenon DEF PlanFetch
<1>4. CASE ahead # {}
  <2>1. PICK u : u = [t EXCEPT !.mode = "Fetching", !.source = Min(furthest),
                               !.target = t.answers[Min(furthest)].next]
    OBVIOUS
  <2>2. session' = [session EXCEPT ![a] = u] /\ Speaks(a, net)
    BY <1>1, <1>2, <1>4, <2>1, Zenon DEF PlanFetch, Speaks
  <2>3. u.mode = "Fetching" /\ u.host = t.host /\ u.epoch = t.epoch
    BY <2>1 DEF Sessions
  <2> QED  BY <2>2, <2>3, Zenon DEF Fetching
<1> QED  BY <1>3, <1>4

LEMMA PlanFrame ==
  ASSUME IInv, MigrationAssumption, NEW a \in Seats, NEW t \in Sessions, PlanFetch(a, t, net),
         open' = open, alive' = alive, silent' = silent
  PROVE  Frame(a)
<1>1. CASE Fetching(a, t)
  <2>1. Speaks(a, net) /\ \E u : session' = [session EXCEPT ![a] = u]
    BY <1>1, Zenon DEF Fetching
  <2> QED  BY <2>1, TellsFrame
<1> QED  BY <1>1, PlanCases, PromoteFrame, Zenon

\* resolve(): whom the refusers named, who did so wrongly, and the session that knows it
Named(t) == {t.answers[s].lowest : s \in Refusers(t) \ HostRefusers(t)}
Higher(g, t) == {s \in Refusers(t) \ HostRefusers(t) : t.answers[s].lowest >= g}
Deferred(g, t) == {l \in Named(t) : l < g /\ l # t.hint}
Mourned(g, t) ==
  t.dead \cup Unanswered(t) \cup Higher(g, t) \cup {l \in Named(t) : l < g /\ l = t.hint}
Resolved(g, t) == [t EXCEPT !.dead = Mourned(g, t)]
Surrenders(g, t) ==
  t.refusals + 1 >= RefusalLimit /\ session' = [session EXCEPT ![g] = GoneLost(Resolved(g, t))]
  /\ net' = net
Retries(g, t) ==
  /\ t.refusals + 1 < RefusalLimit
  /\ session' = [session EXCEPT ![g] = [Withdrawn(Resolved(g, t)) EXCEPT !.refusals = @ + 1]]
  /\ net' = Post(net, g, ToAll(t.expected, RefuseMsg(t, g)))
Defers(g, t) ==
  /\ session' = [session EXCEPT ![g] = [Withdrawn(Resolved(g, t)) EXCEPT !.hint = Min(Deferred(g, t))]]
  /\ net' = Post(net, g, ToAll(t.expected, RefuseMsg(t, Min(Deferred(g, t)))))

LEMMA ResolveCases ==
  ASSUME IInv, MigrationAssumption, NEW g \in Seats, Resolve(g), NEW t, t = session[g]
  PROVE  /\ g \in alive /\ t.mode = "Electing" /\ t.proposed /\ MyTurn(g)
         /\ \A s \in Unanswered(t) : TimeOut(g, s)
         /\ got' = got /\ alive' = alive /\ open' = open /\ silent' = silent
         /\ \/ HostRefusers(t) # {} /\ clients' = clients /\ (Surrenders(g, t) \/ Retries(g, t))
            \/ HostRefusers(t) = {} /\ Deferred(g, t) # {} /\ clients' = clients /\ Defers(g, t)
            \/ HostRefusers(t) = {} /\ Deferred(g, t) = {} /\ PlanFetch(g, Resolved(g, t), net)
<1>1. t.refusals + 1 >= RefusalLimit \/ t.refusals + 1 < RefusalLimit
  <2>1. t \in Sessions
    BY OwnSession, Zenon
  <2> QED  BY <2>1, StateFacts DEF Sessions
<1> DEFINE t0 == session[g]
           lower0 == {t0.answers[s].lowest : s \in Refusers(t0) \ HostRefusers(t0)}
           above0 == {s \in Refusers(t0) \ HostRefusers(t0) : t0.answers[s].lowest >= g}
           defer0 == {l \in lower0 : l < g /\ l # t0.hint}
           u0 == [t0 EXCEPT !.dead = @ \cup Unanswered(t0) \cup above0
                                       \cup {l \in lower0 : l < g /\ l = t0.hint}]
<1>2. /\ g \in alive /\ t0.mode = "Electing" /\ t0.proposed /\ MyTurn(g)
      /\ \A s \in Unanswered(t0) : TimeOut(g, s)
      /\ got' = got /\ alive' = alive /\ open' = open /\ silent' = silent
      /\ IF HostRefusers(t0) # {}
         THEN /\ clients' = clients
              /\ IF t0.refusals + 1 >= RefusalLimit
                 THEN session' = [session EXCEPT ![g] = GoneLost(u0)] /\ net' = net
                 ELSE
                 /\ session' = [session EXCEPT ![g] = [Withdrawn(u0) EXCEPT !.refusals = @ + 1]]
                      /\ net' = Post(net, g, ToAll(t0.expected, RefuseMsg(t0, g)))
         ELSE IF defer0 # {}
         THEN /\ session' = [session EXCEPT ![g] = [Withdrawn(u0) EXCEPT !.hint = Min(defer0)]]
              /\ net' = Post(net, g, ToAll(t0.expected, RefuseMsg(t0, Min(defer0))))
              /\ clients' = clients
         ELSE PlanFetch(g, u0, net)
  BY Zenon DEF Resolve
<1>3. t0 = t
  OBVIOUS
<1>4. lower0 = Named(t) /\ above0 = Higher(g, t)
  BY Zenon DEF Named, Higher
<1> HIDE DEF lower0, above0
<1>5. defer0 = Deferred(g, t)
  BY <1>4, Zenon DEF Deferred
<1>6. u0 = Resolved(g, t)
  <2>1. u0 = [t EXCEPT !.dead = t.dead \cup Unanswered(t) \cup above0
                                   \cup {l \in lower0 : l < g /\ l = t.hint}]
    OBVIOUS
  <2> QED  BY <2>1, <1>4, Zenon DEF Resolved, Mourned
<1> HIDE DEF t0, defer0, u0
<1>7. /\ g \in alive /\ t.mode = "Electing" /\ t.proposed /\ MyTurn(g)
      /\ \A s \in Unanswered(t) : TimeOut(g, s)
      /\ got' = got /\ alive' = alive /\ open' = open /\ silent' = silent
  BY <1>2, <1>3, Zenon
<1>8. HostRefusers(t) # {} => /\ clients' = clients
                              /\ \/ t.refusals + 1 >= RefusalLimit /\ Surrenders(g, t)
                                 \/ /\ ~(t.refusals + 1 >= RefusalLimit)
                                    /\ t.refusals + 1 < RefusalLimit => Retries(g, t)
  BY <1>2, <1>3, <1>6, Zenon DEF Surrenders, Retries
<1>9. HostRefusers(t) = {} => \/ Deferred(g, t) # {} /\ clients' = clients /\ Defers(g, t)
                              \/ Deferred(g, t) = {} /\ PlanFetch(g, Resolved(g, t), net)
  BY <1>2, <1>3, <1>5, <1>6, Zenon DEF Defers
<1> QED  BY <1>1, <1>7, <1>8, <1>9, Zenon

\* The session that knows it is one still.
LEMMA ResolvedSession ==
  ASSUME IInv, MigrationAssumption, NEW g \in Seats, NEW t, t = session[g]
  PROVE  /\ Resolved(g, t) \in Sessions
         /\ Resolved(g, t).dead = Mourned(g, t) /\ Resolved(g, t).host = t.host
         /\ Resolved(g, t).hint = t.hint /\ Resolved(g, t).following = t.following
         /\ Resolved(g, t).mode = t.mode /\ Resolved(g, t).epoch = t.epoch
         /\ Resolved(g, t).refusals = t.refusals /\ Resolved(g, t).proposed = t.proposed
         /\ Resolved(g, t).expected = t.expected /\ Resolved(g, t).answers = t.answers
         /\ Resolved(g, t).source = t.source /\ Resolved(g, t).target = t.target
<1>1. SessionOK(g, t, got) /\ t \in Sessions
  BY OwnSession, Zenon
<1>2. Mourned(g, t) \in SUBSET Seats
  <2>1. Named(t) \subseteq Seats /\ Higher(g, t) \subseteq Seats
    BY <1>1, RefusersFacts DEF Named, Higher
  <2>2. t.dead \subseteq Seats /\ Unanswered(t) \subseteq Seats
    BY <1>1 DEF Sessions, Unanswered
  <2> QED  BY <2>1, <2>2 DEF Mourned
<1> QED  BY <1>1, <1>2 DEF Resolved, Sessions

LEMMA ResolveFrame ==
  ASSUME IInv, MigrationAssumption, NEW a \in Seats, Resolve(a)
  PROVE  Frame(a)
<1>1. PICK t : t = session[a]
  OBVIOUS
<1>2. /\ alive' = alive /\ open' = open /\ silent' = silent
      /\ Surrenders(a, t) \/ Retries(a, t) \/ Defers(a, t) \/ PlanFetch(a, Resolved(a, t), net)
  BY <1>1, ResolveCases, Zenon
<1>3. open' \subseteq open /\ alive' \subseteq alive
  BY <1>2
<1>4. CASE Surrenders(a, t)
  <2>1. net' = net /\ \E u : session' = [session EXCEPT ![a] = u]
    BY <1>4, Zenon DEF Surrenders
  <2>2. \A x \in Seats \ {a} : session'[x] = session[x]
    BY <2>1, OneSession, Zenon
  <2>3. Rest(a, net', net)
    BY <2>1, RestSame, Zenon
  <2> QED  BY <1>2, <1>3, <2>2, <2>3, Zenon DEF Frame
<1>5. CASE Retries(a, t)
  <2>1. Speaks(a, net) /\ \E u : session' = [session EXCEPT ![a] = u]
    BY <1>5, Zenon DEF Retries, Speaks
  <2> QED  BY <2>1, <1>2, <1>3, TellsFrame, Zenon
<1>6. CASE Defers(a, t)
  <2>1. Speaks(a, net) /\ \E u : session' = [session EXCEPT ![a] = u]
    BY <1>6, Zenon DEF Defers, Speaks
  <2> QED  BY <2>1, <1>2, <1>3, TellsFrame, Zenon
<1>7. CASE PlanFetch(a, Resolved(a, t), net)
  <2>1. Resolved(a, t) \in Sessions
    BY <1>1, ResolvedSession, Zenon
  <2> QED  BY <2>1, <1>2, <1>7, PlanFrame, Zenon
<1> QED  BY <1>2, <1>4, <1>5, <1>6, <1>7, Zenon

\* fetch_tick(): the session that no longer fetches, and the one whose source died
Fetched(t) == [t EXCEPT !.source = None, !.target = 0]
Orphaned(t) == [Fetched(t) EXCEPT !.dead = @ \cup {t.source}]

LEMMA FetchCases ==
  ASSUME NEW g \in Seats, FetchTick(g), NEW t, t = session[g]
  PROVE  /\ g \in alive /\ t.mode = "Fetching"
         /\ got' = got /\ alive' = alive /\ open' = open /\ silent' = silent
         /\ \/ Len(got[g]) >= t.target /\ Promote(g, Fetched(t), net)
            \/ /\ ~(Len(got[g]) >= t.target)
               /\ ~Linked(g, t.source) \/ TimeOut(g, t.source)
               /\ PlanFetch(g, Orphaned(t), net)
BY Zenon DEF FetchTick, Fetched, Orphaned

LEMMA OrphanedSession ==
  ASSUME IInv, MigrationAssumption, NEW g \in Seats, NEW t, t = session[g], t.mode = "Fetching"
  PROVE  Orphaned(t) \in Sessions
<1>1. t \in Sessions
  BY OwnSession, Zenon
<1>2. t.source \in Seats
  BY OwnSession DEF SessionOK, Directed
<1>3. Fetched(t) \in Sessions
  BY <1>1 DEF Fetched, Sessions
<1> QED  BY <1>1, <1>2, <1>3 DEF Orphaned, Sessions

LEMMA FetchFrame ==
  ASSUME IInv, MigrationAssumption, NEW a \in Seats, FetchTick(a)
  PROVE  Frame(a)
<1>1. PICK t : t = session[a]
  OBVIOUS
<1>2. /\ t.mode = "Fetching" /\ alive' = alive /\ open' = open /\ silent' = silent
      /\ Promote(a, Fetched(t), net) \/ PlanFetch(a, Orphaned(t), net)
  BY <1>1, FetchCases, Zenon
<1>3. Orphaned(t) \in Sessions
  BY <1>1, <1>2, OrphanedSession, Zenon
<1> QED  BY <1>2, <1>3, PromoteFrame, PlanFrame, Zenon

LEMMA GivesUpFrame ==
  ASSUME IInv, MigrationAssumption, NEW a \in Seats, GivesUpCandidate(a)
  PROVE  Frame(a)
<1>1. /\ net' = net /\ open' = open /\ alive' = alive /\ silent' = silent
      /\ \E u : session' = [session EXCEPT ![a] = u]
  BY Zenon DEF GivesUpCandidate
<1>2. \A x \in Seats \ {a} : session'[x] = session[x]
  BY <1>1, OneSession, Zenon
<1>3. Rest(a, net', net) /\ open' \subseteq open /\ alive' \subseteq alive
  BY <1>1, RestSame
<1> QED  BY <1>1, <1>2, <1>3, Zenon DEF Frame

LEMMA LimitFrame ==
  ASSUME IInv, MigrationAssumption, NEW a \in Seats, ElectionLimit(a)
  PROVE  Frame(a)
<1>1. /\ net' = net /\ open' = open /\ alive' = alive /\ silent' = silent
      /\ \E u : session' = [session EXCEPT ![a] = u]
  BY Zenon DEF ElectionLimit
<1>2. \A x \in Seats \ {a} : session'[x] = session[x]
  BY <1>1, OneSession, Zenon
<1>3. Rest(a, net', net) /\ open' \subseteq open /\ alive' \subseteq alive
  BY <1>1, RestSame
<1> QED  BY <1>1, <1>2, <1>3, Zenon DEF Frame

LEMMA SilenceFrame ==
  ASSUME IInv, MigrationAssumption, NEW a \in Seats, NEW s \in Seats, Silence(a, s)
  PROVE  Frame(a)
<1>1. /\ net' = net /\ open' = open /\ alive' = alive /\ session' = session
      /\ silent' = [silent EXCEPT ![a] = @ \cup {s}]
  BY Zenon DEF Silence
<1>2. \A x \in Seats \ {a} : silent'[x] = silent[x]
  BY <1>1 DEF IInv
<1>3. Rest(a, net', net) /\ open' \subseteq open /\ alive' \subseteq alive
  BY <1>1, RestSame
<1> QED  BY <1>1, <1>2, <1>3, Zenon DEF Frame

LEMMA SealsFrame ==
  ASSUME IInv, MigrationAssumption, NEW a \in Seats, HostSeals(a)
  PROVE  Frame(a)
<1>1. Speaks(a, net)
  BY Zenon DEF HostSeals, Speaks
<1>2. session' = session /\ alive' = alive /\ open' = open /\ silent' = silent
  BY Zenon DEF HostSeals
<1> QED  BY <1>1, <1>2, TellsFrame

LEMMA DropsFrame ==
  ASSUME NEW a, NEW g, HostDrops(a, g)
  PROVE  Frame(a)
<1>1. session' = session /\ alive' = alive /\ net' = net /\ silent' = silent
      /\ open' = open \ {{a, g}}
  BY Zenon DEF HostDrops
<1> QED  BY <1>1, QuietFrame

LEMMA CutFrame ==
  ASSUME NEW a, NEW g, Cut(a, g)
  PROVE  Frame(a)
<1>1. session' = session /\ alive' = alive /\ net' = net /\ silent' = silent
      /\ open' = open \ {{a, g}}
  BY Zenon DEF Cut
<1> QED  BY <1>1, QuietFrame

LEMMA CrashFrame ==
  ASSUME IInv, MigrationAssumption, NEW a \in Seats, Crash(a)
  PROVE  Frame(a)
<1>1. session' = session /\ silent' = silent /\ alive' = alive \ {a}
      /\ open' \in {open, {link \in open : a \notin link}}
  BY Zenon DEF Crash
<1>2. open' \subseteq open /\ alive' \subseteq alive
  BY <1>1
<1>3. PICK keep \in [Seats -> 0 .. MaxTurns] : net' = [x \in Seats |-> [b \in Seats |->
                            IF x = a THEN SubSeq(net[a][b], 1, keep[b])
                            ELSE IF b = a THEN <<>> ELSE net[x][b]]]
  BY Zenon DEF Crash
<1>4. Rest(a, net', net)
  <2>1. ASSUME NEW x \in Seats \ {a}, NEW y \in Seats
        PROVE  net'[x][y] = IF y = a THEN <<>> ELSE net[x][y]
    BY <1>3
  <2>2. ASSUME NEW x \in Seats \ {a} PROVE Part(net'[x][a], net[x][a])
    <3>1. net'[x][a] = <<>>
      BY <2>1
    <3> QED  BY <3>1 DEF Part
  <2> QED  BY <2>1, <2>2 DEF Rest
<1> QED  BY <1>1, <1>2, <1>4, Zenon DEF Frame
------------------------------------------------------------------------------
(* What a step makes of the session *)

LEMMA BegunFields ==
  ASSUME world \in Worlds, MigrationAssumption, NEW t \in Sessions, NEW u, u = BegunElection(t)
  PROVE  /\ u \in Sessions /\ u.mode = "Electing" /\ u.dead = {t.host} /\ u.hint = None
         /\ u.following = None /\ u.proposed = FALSE /\ u.host = t.host /\ u.epoch = t.epoch
<1>1. <<>> \in UNION {[T -> Answers] : T \in SUBSET Seats}
  <2>1. <<>> \in [{} -> Answers] /\ {} \in SUBSET Seats
    OBVIOUS
  <2> QED  BY <2>1
<1> QED  BY <1>1 DEF BegunElection, Sessions, Modes

LEMMA RevivedFields ==
  ASSUME NEW t \in Sessions, NEW s, NEW u, u = [t EXCEPT !.dead = @ \ {s}]
  PROVE  /\ u \in Sessions /\ u.mode = t.mode /\ u.dead \subseteq t.dead /\ u.hint = t.hint
         /\ u.following = t.following /\ u.proposed = t.proposed /\ u.host = t.host
         /\ u.epoch = t.epoch /\ u.expected = t.expected /\ u.answers = t.answers
BY DEF Sessions

LEMMA LostFields ==
  ASSUME NEW t \in Sessions, NEW u, u = GoneLost(t)
  PROVE  u.mode = "Lost" /\ u.host = t.host /\ u.epoch = t.epoch
BY DEF GoneLost, Withdrawn, Sessions

LEMMA LedFields ==
  ASSUME NEW s, NEW e, NEW u, u = [NewSession EXCEPT !.host = s, !.epoch = e]
  PROVE  u.mode = "Normal" /\ u.host = s /\ u.epoch = e
BY DEF NewSession

LEMMA DeclinesFields ==
  ASSUME NEW t \in Sessions, NEW u, u = [t EXCEPT !.following = None, !.mode = "Electing"]
  PROVE  /\ u.mode = "Electing" /\ u.dead = t.dead /\ u.hint = t.hint
         /\ u.following = None /\ u.proposed = t.proposed /\ u.host = t.host /\ u.epoch = t.epoch
         /\ u.expected = t.expected /\ u.answers = t.answers
BY DEF Sessions

LEMMA NotedFields ==
  ASSUME NEW t \in Sessions, NEW f, NEW u, u = [t EXCEPT !.answers = f]
  PROVE  /\ u.mode = t.mode /\ u.dead = t.dead /\ u.hint = t.hint
         /\ u.following = t.following /\ u.proposed = t.proposed /\ u.host = t.host
         /\ u.epoch = t.epoch /\ u.expected = t.expected /\ u.answers = f
BY DEF Sessions

LEMMA TheSession ==
  ASSUME IInv, MigrationAssumption, NEW a \in Seats, NEW u, session' = [session EXCEPT ![a] = u]
  PROVE  session'[a] = u
BY StateFacts
------------------------------------------------------------------------------
(* The step of a machine, beside the others *)

LEMMA StayerFacts ==
  ASSUME BesideInv, NEW b \in Seats, Stays(b)
  PROVE  b # FirstHost /\ \A g \in Seats : b \notin silent[g] /\ Loyal(net[b][g])
<1>1. b # FirstHost
  BY DEF Stays, BesideInv, FirstHostInv
<1>2. ASSUME NEW g \in Seats PROVE b \notin silent[g]
  BY DEF Stays, BesideInv, SilentInv
<1>3. ASSUME NEW g \in Seats PROVE Loyal(net[b][g])
  BY Zenon DEF BesideInv, LoyalInv
<1> QED  BY <1>1, <1>2, <1>3, Zenon

LEMMA DeparterFacts ==
  ASSUME BesideInv, NEW g \in Seats, NEW b \in Seats, Departs(g), Stays(b), Linked(g, b)
  PROVE  Refused(b, session[g], silent[g], net[g][b], net[b][g]) /\ session[g].epoch = 0
<1>1. Refused(b, session[g], silent[g], net[g][b], net[b][g])
  BY Zenon DEF BesideInv, RefusedInv
<1>2. session[g].epoch = 0
  BY Zenon DEF Departs, BesideInv, FirstEpoch
<1> QED  BY <1>1, <1>2

\* Who hosts and goes on hosting, or dies
LEMMA HostBehaves ==
  ASSUME BesideInv, NEW a \in Seats, session[a].mode = "Host" \/ a \notin alive',
         session'[a] = session[a], silent'[a] = silent[a]
  PROVE  Behaves(a)
<1>1. SettledKept(a) /\ SilentKept(a) /\ TakesSo(a)
  BY Zenon DEF SettledKept, SilentKept, TakesSo
<1>2. EpochKept(a) /\ FreshKept(a)
  BY Zenon DEF EpochKept, FreshKept, BesideInv, FirstEpoch, FreshInv
<1>3. ~Stays(a)' /\ ~Departs(a)'
  BY DEF Stays, Departs, Electing
<1>4. LeavesSo(a) /\ StaysSo(a)
  BY <1>3, Zenon DEF LeavesSo, StaysSo
<1> QED  BY <1>1, <1>2, <1>4, Zenon DEF Behaves

\* Who elects and keeps its host and its epoch, or is lost
LEMMA ElectsBehaves ==
  ASSUME BesideInv, NEW a \in Seats, NEW u, session'[a] = u,
         session[a].mode \notin {"Host", "Lost"},
         silent'[a] = silent[a], u.host = session[a].host, u.epoch = session[a].epoch,
         u.mode \notin {"Host", "Normal"}, LeavesSo(a)
  PROVE  Behaves(a)
<1>1. SettledKept(a) /\ SilentKept(a) /\ TakesSo(a)
  BY Zenon DEF SettledKept, SilentKept, TakesSo
<1>2. EpochKept(a) /\ FreshKept(a)
  BY Zenon DEF EpochKept, FreshKept, Fresh, BesideInv, FirstEpoch
<1>3. StaysSo(a)
  BY DEF Stays, StaysSo
<1> QED  BY <1>1, <1>2, <1>3, Zenon DEF Behaves

LEMMA NoticesLossBehaves ==
  ASSUME IInv, MigrationAssumption, BesideInv, world' = world, NEW a \in Seats, NoticesLoss(a)
  PROVE  Behaves(a)
<1>1. PICK t, u : t = session[a] /\ u = BegunElection(t)
  BY Zenon
<1>2. t.mode = "Normal" /\ session' = [session EXCEPT ![a] = u] /\ silent' = silent
  BY <1>1, Zenon DEF NoticesLoss
<1>3. session'[a] = u
  BY <1>2, TheSession, Zenon
<1>4. /\ u.mode = "Electing" /\ u.dead = {t.host} /\ u.hint = None
      /\ u.following = None /\ u.proposed = FALSE /\ u.host = t.host /\ u.epoch = t.epoch
  <2>1. t \in Sessions
    BY <1>1, OwnSession, Zenon
  <2> QED  BY <1>1, <2>1, BegunFields, StateFacts, Zenon
<1>5. LeavesSo(a)
  <2>1. SUFFICES ASSUME NEW b \in Seats \ {a}, Departs(a)', Stays(b)
                 PROVE  Refused(b, u, silent[a], net'[a][b], net'[b][a])
    BY <1>2, <1>3, Zenon DEF LeavesSo
  <2>2. u.host = FirstHost
    BY <2>1, <1>3 DEF Departs, FirstHost
  <2>3. b # FirstHost /\ b \notin silent[a]
    BY <2>1, StayerFacts, Zenon
  <2>4. b # None
    BY StateFacts, WorldFacts
  <2> QED  BY <2>2, <2>3, <2>4, <1>4 DEF Refused
<1> QED  BY <1>1, <1>2, <1>3, <1>4, <1>5, ElectsBehaves

LEMMA GivesUpBehaves ==
  ASSUME IInv, MigrationAssumption, BesideInv, world' = world, NEW a \in Seats, GivesUpCandidate(a)
  PROVE  Behaves(a)
<1>1. PICK t, u : /\ t = session[a]
                  /\ u = [t EXCEPT !.dead = @ \cup {t.following}, !.following = None,
                                   !.mode = "Electing"]
  BY Zenon
<1>2. a \in alive /\ t.mode = "Following" /\ session' = [session EXCEPT ![a] = u]
      /\ silent' = silent
      /\ net' = net /\ open' = open
  BY <1>1, Zenon DEF GivesUpCandidate
<1>3. session'[a] = u
  BY <1>2, TheSession, Zenon
<1>4. /\ u.mode = "Electing" /\ u.dead = t.dead \cup {t.following} /\ u.hint = t.hint
      /\ u.following = None /\ u.proposed = t.proposed /\ u.host = t.host /\ u.epoch = t.epoch
      /\ u.expected = t.expected /\ u.answers = t.answers
  <2>1. t \in Sessions
    BY <1>1, OwnSession, Zenon
  <2> QED  BY <1>1, <2>1 DEF Sessions
<1>5. LeavesSo(a)
  <2>1. SUFFICES ASSUME NEW b \in Seats \ {a}, Departs(a)', Stays(b), Linked(a, b)'
                 PROVE  Refused(b, u, silent[a], net[a][b], net[b][a])
    BY <1>2, <1>3, Zenon DEF LeavesSo
  <2>2. Departs(a) /\ Linked(a, b)
    BY <2>1, <1>1, <1>2, <1>3, <1>4 DEF Departs, Electing, Linked, FirstHost
  <2>3. Refused(b, t, silent[a], net[a][b], net[b][a])
    BY <2>1, <2>2, <1>1, DeparterFacts, Zenon
  <2>4. b # None
    BY StateFacts, WorldFacts
  <2> QED  BY <2>3, <2>4, <1>4 DEF Refused
<1> QED  BY <1>1, <1>2, <1>3, <1>4, <1>5, ElectsBehaves

LEMMA SilenceBehaves ==
  ASSUME IInv, MigrationAssumption, BesideInv, world' = world, Steady, NEW a \in Seats,
         NEW s \in Seats, Silence(a, s)
  PROVE  Behaves(a)
<1>1. /\ a \in alive /\ Listens(a)
      /\ s \notin alive \/ session[s].mode \in {"Lost", "Host"}
      /\ silent' = [silent EXCEPT ![a] = @ \cup {s}]
      /\ session' = session /\ net' = net /\ open' = open /\ alive' = alive
  BY DEF Silence
<1>2. silent'[a] = silent[a] \cup {s}
  BY <1>1 DEF IInv
<1>3. SettledKept(a) /\ SilentKept(a) /\ TakesSo(a)
  BY <1>1, <1>2 DEF SettledKept, SilentKept, TakesSo
<1>4. EpochKept(a) /\ FreshKept(a)
  BY <1>1, Zenon DEF EpochKept, FreshKept, BesideInv, FirstEpoch, FreshInv
<1>5. StaysSo(a)
  <2>1. Stays(a)' => Stays(a)
    BY <1>1 DEF Stays, FirstHost
  <2>2. Stays(a) => \A g \in Seats : Loyal(net'[a][g])
    BY <1>1, StayerFacts, Zenon
  <2>3. \A g \in Seats \ {a} : Lasting(a, g)
    BY <1>1, Zenon DEF Lasting
  <2> QED  BY <2>1, <2>2, <2>3, Zenon DEF StaysSo
<1>6. LeavesSo(a)
  <2>1. SUFFICES ASSUME NEW b \in Seats \ {a}, Departs(a)', Stays(b), Linked(a, b)'
                 PROVE  Refused(b, session[a], silent[a] \cup {s}, net[a][b], net[b][a])
    BY <1>1, <1>2, Zenon DEF LeavesSo
  <2>2. Departs(a) /\ Linked(a, b)
    BY <2>1, <1>1 DEF Departs, Electing, Linked, FirstHost
  <2>3. Refused(b, session[a], silent[a], net[a][b], net[b][a])
    BY <2>1, <2>2, DeparterFacts, Zenon
  <2>4. b # s
    BY <2>1, <1>1 DEF Stays, FirstHost
  <2> QED  BY <2>3, <2>4 DEF Refused
<1> QED  BY <1>3, <1>4, <1>5, <1>6, Zenon DEF Behaves

\* What was pending is, when more is said; and so is what is said now.
LEMMA MorePending ==
  ASSUME NEW n \in Lines, NEW a \in Seats, NEW box \in Boxes, net' = Post(n, a, box),
         NEW b \in Seats
  PROVE  /\ \A i \in DOMAIN n[a][b] : i \in DOMAIN net'[a][b] /\ net'[a][b][i] = n[a][b][i]
         /\ Linked(a, b) /\ Listens(b) =>
              \A i \in DOMAIN box[b] : \E j \in DOMAIN net'[a][b] : net'[a][b][j] = box[b][i]
         /\ \A j \in DOMAIN net'[a][b] :
              \/ \E i \in DOMAIN n[a][b] : net'[a][b][j] = n[a][b][i]
              \/ \E i \in DOMAIN box[b] : net'[a][b][j] = box[b][i]
<1>1. Posted(net', n, a, box)
  BY PostFacts, Zenon
<1>2. PICK p, q, r : p = n[a][b] /\ q = box[b] /\ r = net'[a][b]
  BY Zenon
<1>3. p \in Seq(Messages) /\ q \in Seq(Messages)
  BY <1>2 DEF Lines, Boxes
<1>4. CASE Linked(a, b) /\ Listens(b)
  <2>1. r = p \o q
    BY <1>1, <1>2, <1>4, Zenon DEF Posted
  <2>2. PICK k, l : k = Len(p) /\ l = Len(q)
    BY Zenon
  <2>3. Joined(r, p, q, k, l)
    BY <2>1, <2>2, <1>3, JoinedFacts, Zenon
  <2>4. /\ r \in Seq(Messages) /\ k \in Nat /\ l \in Nat /\ Len(r) = k + l
        /\ \A j \in 1 .. k : r[j] = p[j]
        /\ \A j \in 1 .. l : r[k + j] = q[j]
    BY <2>3, Zenon DEF Joined
  <2>5. DOMAIN r = 1 .. k + l /\ DOMAIN p = 1 .. k /\ DOMAIN q = 1 .. l
    BY <2>2, <2>4, <1>3
  <2>6. \A i \in DOMAIN p : i \in DOMAIN r /\ r[i] = p[i]
    BY <2>4, <2>5
  <2>7. \A i \in DOMAIN q : \E j \in DOMAIN r : r[j] = q[i]
    <3>1. SUFFICES ASSUME NEW i \in DOMAIN q PROVE k + i \in DOMAIN r /\ r[k + i] = q[i]
      BY Zenon
    <3> QED  BY <2>4, <2>5
  <2>8. ASSUME NEW j \in DOMAIN r
        PROVE  (\E i \in DOMAIN p : r[j] = p[i]) \/ \E i \in DOMAIN q : r[j] = q[i]
    <3>1. CASE j <= k
      <4>1. j \in DOMAIN p /\ r[j] = p[j]
        BY <3>1, <2>4, <2>5
      <4> QED  BY <4>1
    <3>2. CASE ~(j <= k)
      <4>1. j - k \in 1 .. l /\ k + (j - k) = j
        BY <3>2, <2>4, <2>5
      <4>2. j - k \in DOMAIN q /\ r[j] = q[j - k]
        BY <4>1, <2>4, <2>5
      <4> QED  BY <4>2
    <3> QED  BY <3>1, <3>2
  <2> QED  BY <2>6, <2>7, <2>8, <1>2, Zenon
<1>5. CASE ~(Linked(a, b) /\ Listens(b))
  <2>1. r = p
    BY <1>1, <1>2, <1>5, Zenon DEF Posted
  <2> QED  BY <2>1, <1>2, <1>5, Zenon
<1> QED  BY <1>4, <1>5, Zenon

LEMMA ProposeBehaves ==
  ASSUME IInv, MigrationAssumption, BesideInv, world' = world, NEW a \in Seats, Propose(a)
  PROVE  Behaves(a)
<1>1. PICK t, P : t = session[a] /\ P = {s \in Seats \ {a} : s \notin t.dead /\ PeerAlive(a, s)}
  BY Zenon
<1>2. PICK u, m : /\ u = [t EXCEPT !.proposed = TRUE, !.expected = P, !.answers = <<>>]
                  /\ m = [type |-> "Propose", epoch |-> ElectionEpoch(t)]
  BY Zenon
<1>3. /\ a \in alive /\ t.mode = "Electing" /\ session' = [session EXCEPT ![a] = u]
      /\ net' = Post(net, a, ToAll(P, m)) /\ silent' = silent /\ open' = open
  BY <1>1, <1>2, Zenon DEF Propose
<1>4. session'[a] = u
  BY <1>3, TheSession, Zenon
<1>5. t \in Sessions /\ net \in Lines
  BY <1>1, OwnSession, StateFacts, Zenon
<1>6. /\ u.mode = t.mode /\ u.dead = t.dead /\ u.hint = t.hint
      /\ u.following = t.following /\ u.proposed = TRUE /\ u.host = t.host /\ u.epoch = t.epoch
      /\ u.expected = P /\ u.answers = <<>>
  BY <1>2, <1>5 DEF Sessions
<1>7. LeavesSo(a)
  <2>1. SUFFICES ASSUME NEW b \in Seats \ {a}, Departs(a)', Stays(b), Linked(a, b)'
                 PROVE  Refused(b, u, silent[a], net'[a][b], net'[b][a])
    BY <1>3, <1>4, Zenon DEF LeavesSo
  <2>2. Departs(a) /\ Linked(a, b)
    BY <2>1, <1>1, <1>3, <1>4, <1>6 DEF Departs, Electing, Linked, FirstHost
  <2>3. Refused(b, t, silent[a], net[a][b], net[b][a]) /\ t.epoch = 0
    BY <2>1, <2>2, <1>1, DeparterFacts, Zenon
  <2>4. b \in P
    BY <2>2, <2>3, <1>1 DEF Refused, PeerAlive
  <2>5. m \in Messages /\ m.type = "Propose" /\ m.epoch = 1
    BY <2>3, <1>2 DEF Messages, ElectionEpoch
  <2>6. PICK box : box = ToAll(P, m)
    OBVIOUS
  <2>7. box \in Boxes /\ box[b] = <<m>>
    <3>1. box \in Boxes /\ box[b] = IF b \in P THEN <<m>> ELSE <<>>
      BY <2>5, <2>6, ToAllFacts
    <3> QED  BY <2>4, <3>1
  <2>8. Listens(b)
    BY <2>1 DEF Stays, Listens
  <2>9. \E j \in DOMAIN net'[a][b] : net'[a][b][j] = m
    <3>1. net' = Post(net, a, box) /\ b \in Seats
      BY <2>6, <1>3
    <3>2. \A i \in DOMAIN box[b] : \E j \in DOMAIN net'[a][b] : net'[a][b][j] = box[b][i]
      BY <3>1, <2>2, <2>7, <2>8, <1>5, MorePending
    <3>3. 1 \in DOMAIN box[b] /\ box[b][1] = m
      BY <2>7
    <3> QED  BY <3>2, <3>3, Zenon
  <2>10. Pending(net'[a][b], net'[b][a])
    BY <2>5, <2>9, Zenon DEF Pending
  <2>11. DOMAIN u.answers = {}
    BY <1>6
  <2> QED  BY <2>3, <2>4, <2>10, <2>11, <1>3, <1>6 DEF Refused
<1> QED  BY <1>1, <1>3, <1>4, <1>6, <1>7, ElectsBehaves

\* Who becomes host of its own epoch
LEMMA PromoteBehaves ==
  ASSUME IInv, MigrationAssumption, BesideInv, world' = world, NEW a \in Seats, NEW t,
         Promote(a, t, net),
         session[a].mode \notin {"Host", "Lost"}, silent' = silent, TakesSo(a)
  PROVE  Behaves(a)
<1>1. PICK u : u = [NewSession EXCEPT !.mode = "Host", !.host = a, !.epoch = ElectionEpoch(t)]
  OBVIOUS
<1>2. session' = [session EXCEPT ![a] = u]
  BY <1>1, Zenon DEF Promote
<1>3. session'[a] = u
  BY <1>2, TheSession, Zenon
<1>4. u.mode = "Host" /\ u.host = a
  BY <1>1 DEF NewSession
<1>5. a # FirstHost
  BY DEF BesideInv, FirstHostInv
<1>6. SettledKept(a) /\ SilentKept(a)
  BY DEF SettledKept, SilentKept
<1>7. EpochKept(a) /\ FreshKept(a)
  BY <1>3, <1>4, <1>5 DEF EpochKept, FreshKept, Fresh
<1>8. ~Stays(a)' /\ ~Departs(a)'
  BY <1>3, <1>4 DEF Stays, Departs, Electing
<1>9. LeavesSo(a) /\ StaysSo(a)
  BY <1>8, Zenon DEF LeavesSo, StaysSo
<1> QED  BY <1>6, <1>7, <1>9, Zenon DEF Behaves

\* In Resolve: whom it reaches and who plays on has told it that the host lives.
LEMMA HostRefuses ==
  ASSUME IInv, MigrationAssumption, BesideInv, Steady, NEW a \in Seats, Departs(a),
         NEW b \in Seats \ {a}, Stays(b), Linked(a, b), NEW t, t = session[a], t.proposed,
         \A s \in Unanswered(t) : TimeOut(a, s)
  PROVE  b \in HostRefusers(t) /\ b \notin Mourned(a, t)
<1>1. Refused(b, t, silent[a], net[a][b], net[b][a])
  BY DeparterFacts, Zenon
<1>2. ASSUME b \notin DOMAIN t.answers PROVE FALSE
  <2>1. b \in Unanswered(t) /\ Pending(net[a][b], net[b][a])
    BY <1>1, <1>2 DEF Refused, Unanswered
  <2>2. TimeOut(a, b)
    BY <2>1
  <2>3. b \in alive /\ Listens(b)
    BY DEF Stays, Listens
  <2>4. net[b][a] = <<>> /\ net[a][b] = <<>>
    BY <2>2, <2>3 DEF TimeOut, Deaf
  <2> QED  BY <2>1, <2>4 DEF Pending
<1>3. ~t.answers[b].accepted /\ t.answers[b].lowest = FirstHost /\ t.host = FirstHost
      /\ b \in DOMAIN t.answers
  BY <1>1, <1>2 DEF Refused, Departs
<1>4. b \in HostRefusers(t)
  BY <1>3 DEF HostRefusers, Refusers
<1>5. b \notin t.dead /\ b # t.hint
  BY <1>1 DEF Refused
<1>6. b \notin Mourned(a, t)
  BY <1>3, <1>4, <1>5 DEF Mourned, Unanswered, Higher
<1> QED  BY <1>4, <1>6

LEMMA ResolveBehaves ==
  ASSUME IInv, MigrationAssumption, BesideInv, Steady, world' = world, NEW a \in Seats, Resolve(a)
  PROVE  Behaves(a)
<1>1. PICK t, r : t = session[a] /\ r = Resolved(a, t)
  BY Zenon
<1>2. /\ a \in alive /\ t.mode = "Electing" /\ t.proposed
      /\ \A s \in Unanswered(t) : TimeOut(a, s)
      /\ alive' = alive /\ open' = open /\ silent' = silent
      /\ \/ HostRefusers(t) # {} /\ (Surrenders(a, t) \/ Retries(a, t))
         \/ HostRefusers(t) = {} /\ Defers(a, t)
         \/ HostRefusers(t) = {} /\ PlanFetch(a, r, net)
  <2>1. /\ a \in alive /\ t.mode = "Electing" /\ t.proposed /\ MyTurn(a)
        /\ \A s \in Unanswered(t) : TimeOut(a, s)
        /\ got' = got /\ alive' = alive /\ open' = open /\ silent' = silent
        /\ \/ HostRefusers(t) # {} /\ clients' = clients /\ (Surrenders(a, t) \/ Retries(a, t))
           \/ HostRefusers(t) = {} /\ Deferred(a, t) # {} /\ clients' = clients /\ Defers(a, t)
           \/ HostRefusers(t) = {} /\ Deferred(a, t) = {} /\ PlanFetch(a, Resolved(a, t), net)
    BY <1>1, ResolveCases
  <2> QED  BY <2>1, <1>1, Zenon
<1>3. /\ r \in Sessions /\ r.host = t.host /\ r.mode = t.mode /\ r.epoch = t.epoch
      /\ r.dead = Mourned(a, t) /\ r.hint = t.hint /\ r.following = t.following
  <2>1. t = session[a] /\ r = Resolved(a, t)
    BY <1>1
  <2> QED  BY <2>1, ResolvedSession
<1>4. ASSUME NEW b \in Seats \ {a}, Stays(b), Linked(a, b), t.host = FirstHost
      PROVE  /\ b \in HostRefusers(t) /\ b \notin Mourned(a, t)
             /\ Refused(b, t, silent[a], net[a][b], net[b][a])
  <2>1. Departs(a)
    BY <1>1, <1>2, <1>4 DEF Departs, Electing
  <2> QED  BY <2>1, <1>1, <1>2, <1>4, HostRefuses, DeparterFacts, Zenon
<1>5. CASE HostRefusers(t) # {} /\ Surrenders(a, t)
  <2>1. PICK u : u = GoneLost(r)
    OBVIOUS
  <2>2. session'[a] = u
    BY <1>1, <1>5, <2>1, TheSession, Zenon DEF Surrenders
  <2>3. u.mode = "Lost" /\ u.host = t.host /\ u.epoch = t.epoch
    BY <2>1, <1>3, LostFields
  <2>4. LeavesSo(a)
    BY <2>2, <2>3 DEF LeavesSo, Departs, Electing
  <2> QED  BY <1>1, <1>2, <2>2, <2>3, <2>4, ElectsBehaves
<1>6. CASE HostRefusers(t) # {} /\ Retries(a, t)
  <2>1. PICK u : u = [Withdrawn(r) EXCEPT !.refusals = @ + 1]
    OBVIOUS
  <2>2. session' = [session EXCEPT ![a] = u]
    BY <1>1, <1>6, <2>1, Zenon DEF Retries
  <2>3. session'[a] = u
    BY <2>2, TheSession, Zenon
  <2>4. /\ u.mode = t.mode /\ u.dead = Mourned(a, t) /\ u.hint = t.hint /\ u.following = t.following
        /\ u.proposed = FALSE /\ u.host = t.host /\ u.epoch = t.epoch
    BY <2>1, <1>3 DEF Withdrawn, Sessions
  <2>5. LeavesSo(a)
    <3>1. SUFFICES ASSUME NEW b \in Seats \ {a}, Departs(a)', Stays(b), Linked(a, b)'
                   PROVE  Refused(b, u, silent[a], net'[a][b], net'[b][a])
      BY <1>2, <2>3, Zenon DEF LeavesSo
    <3>2. t.host = FirstHost /\ Linked(a, b)
      BY <3>1, <1>2, <2>3, <2>4 DEF Departs, Linked, FirstHost
    <3>3. b \notin Mourned(a, t) /\ Refused(b, t, silent[a], net[a][b], net[b][a])
      BY <3>1, <3>2, <1>4, Zenon
    <3> QED  BY <3>3, <2>4, <1>2 DEF Refused
  <2> QED  BY <1>1, <1>2, <2>3, <2>4, <2>5, ElectsBehaves
<1>7. ASSUME HostRefusers(t) = {}, NEW b \in Seats \ {a}, Stays(b), Linked(a, b), t.host = FirstHost
      PROVE  FALSE
  BY <1>4, <1>7
<1>8. ASSUME HostRefusers(t) = {}, session'[a].host = t.host
      PROVE  LeavesSo(a)
  <2>1. SUFFICES ASSUME NEW b \in Seats \ {a}, Departs(a)', Stays(b), Linked(a, b)'
                 PROVE  FALSE
    BY Zenon DEF LeavesSo
  <2>2. t.host = FirstHost /\ Linked(a, b)
    BY <2>1, <1>2, <1>8 DEF Departs, Linked, FirstHost
  <2> QED  BY <2>1, <2>2, <1>7, <1>8, Zenon
<1>9. CASE HostRefusers(t) = {} /\ Defers(a, t)
  <2>1. PICK u : u = [Withdrawn(r) EXCEPT !.hint = Min(Deferred(a, t))]
    OBVIOUS
  <2>2. session' = [session EXCEPT ![a] = u]
    BY <1>1, <1>9, <2>1, Zenon DEF Defers
  <2>3. session'[a] = u
    BY <2>2, TheSession, Zenon
  <2>4. u.mode = t.mode /\ u.host = t.host /\ u.epoch = t.epoch
    BY <2>1, <1>3 DEF Withdrawn, Sessions
  <2>5. LeavesSo(a)
    BY <2>3, <2>4, <1>8, <1>9, Zenon
  <2> QED  BY <1>1, <1>2, <2>3, <2>4, <2>5, ElectsBehaves
<1>10. CASE HostRefusers(t) = {} /\ Fetching(a, r)
  <2>1. PICK u : /\ session' = [session EXCEPT ![a] = u]
                 /\ u.mode = "Fetching" /\ u.host = t.host /\ u.epoch = t.epoch
    BY <1>3, <1>10, Zenon DEF Fetching
  <2>2. session'[a] = u
    BY <2>1, TheSession, Zenon
  <2>3. LeavesSo(a)
    BY <2>1, <2>2, <1>8, <1>10, Zenon
  <2> QED  BY <1>1, <1>2, <2>1, <2>2, <2>3, ElectsBehaves
<1>11. CASE HostRefusers(t) = {} /\ Promote(a, r, net)
  <2>1. TakesSo(a)
    BY <1>1, <1>7, <1>11, Zenon DEF TakesSo
  <2> QED  BY <2>1, <1>1, <1>2, <1>11, PromoteBehaves, Zenon
<1> QED  BY <1>2, <1>3, <1>5, <1>6, <1>9, <1>10, <1>11, PlanCases, Zenon

LEMMA FetchBehaves ==
  ASSUME IInv, MigrationAssumption, BesideInv, world' = world, NEW a \in Seats, FetchTick(a)
  PROVE  Behaves(a)
<1>1. PICK t : t = session[a]
  OBVIOUS
<1>2. /\ a \in alive /\ t.mode = "Fetching" /\ alive' = alive /\ open' = open /\ silent' = silent
      /\ Promote(a, Fetched(t), net) \/ PlanFetch(a, Orphaned(t), net)
  BY <1>1, FetchCases, Zenon
<1>3. ASSUME NEW b \in Seats \ {a}, Stays(b), Linked(a, b), t.host = FirstHost
      PROVE  FALSE
  <2>1. Departs(a)
    BY <1>1, <1>2, <1>3 DEF Departs, Electing
  <2>2. Refused(b, t, silent[a], net[a][b], net[b][a])
    BY <2>1, <1>1, <1>3, DeparterFacts, Zenon
  <2> QED  BY <2>2, <1>2, Zenon DEF Refused
<1>4. t \in Sessions /\ t.source \in Seats
  BY <1>1, <1>2, OwnSession DEF SessionOK, Directed
<1>5. Orphaned(t) \in Sessions /\ Orphaned(t).host = t.host /\ Orphaned(t).epoch = t.epoch
  <2>1. Orphaned(t) \in Sessions
    BY <1>1, <1>2, OrphanedSession, Zenon
  <2> QED  BY <2>1, <1>4 DEF Orphaned, Fetched, Sessions
<1>6. ASSUME NEW r, Promote(a, r, net)
      PROVE  Behaves(a)
  <2>1. TakesSo(a)
    BY <1>1, <1>3, Zenon DEF TakesSo
  <2> QED  BY <2>1, <1>1, <1>2, <1>6, PromoteBehaves, Zenon
<1>7. CASE Fetching(a, Orphaned(t))
  <2>1. PICK u : /\ session' = [session EXCEPT ![a] = u]
                 /\ u.mode = "Fetching" /\ u.host = t.host /\ u.epoch = t.epoch
    BY <1>5, <1>7, Zenon DEF Fetching
  <2>2. session'[a] = u
    BY <2>1, TheSession, Zenon
  <2>3. LeavesSo(a)
    <3>1. SUFFICES ASSUME NEW b \in Seats \ {a}, Departs(a)', Stays(b), Linked(a, b)'
                   PROVE  FALSE
      BY Zenon DEF LeavesSo
    <3>2. t.host = FirstHost /\ Linked(a, b)
      BY <3>1, <1>2, <2>1, <2>2 DEF Departs, Linked, FirstHost
    <3> QED  BY <3>1, <3>2, <1>3, Zenon
  <2> QED  BY <1>1, <1>2, <2>1, <2>2, <2>3, ElectsBehaves
<1> QED  BY <1>2, <1>5, <1>6, <1>7, PlanCases, Zenon
------------------------------------------------------------------------------
(* What it hears *)

\* A session hears what is no proposal and no answer, or ignores it.
LEMMA HeardFields ==
  ASSUME IInv, MigrationAssumption, NEW a \in Seats, NEW s \in Seats, Hear(a, s)
  PROVE  /\ a \in alive /\ s # a /\ alive' = alive /\ silent'[a] = silent[a] \ {s}
         /\ session[a].mode \notin {"Host", "Lost"}
<1>1. a \in alive /\ Listens(a) /\ alive' = alive /\ silent' = [silent EXCEPT ![a] = @ \ {s}]
      /\ net[s][a] # <<>>
  BY Zenon DEF Hear
<1>2. silent'[a] = silent[a] \ {s}
  BY <1>1 DEF IInv
<1>3. s # a
  BY <1>1, StateFacts DEF IInvAt, TypesAt
<1> QED  BY <1>1, <1>2, <1>3 DEF Listens

\* What a said to b and b to a, less the message that a heard
LEMMA LessOne ==
  ASSUME NEW s \in Seats, NEW a \in Seats, net \in Lines,
         NEW n, Heard(s, a, net, n), s # a, NEW b \in Seats
  PROVE  /\ n[a][b] = net[a][b]
         /\ b # s => n[b][a] = net[b][a]
         /\ \A i \in DOMAIN net[b][a] :
              \/ b = s /\ net[b][a][i] = net[s][a][1]
              \/ \E j \in DOMAIN n[b][a] : n[b][a][j] = net[b][a][i]
<1>1. n[a][b] = net[a][b] /\ (b # s => n[b][a] = net[b][a])
  BY Zenon DEF Heard
<1>2. ASSUME NEW i \in DOMAIN net[b][a]
      PROVE  \/ b = s /\ net[b][a][i] = net[s][a][1]
             \/ \E j \in DOMAIN n[b][a] : n[b][a][j] = net[b][a][i]
  <2>1. CASE b # s
    BY <2>1, <1>1, <1>2, Zenon
  <2>2. CASE b = s /\ i = 1
    BY <2>2
  <2>3. CASE b = s /\ i # 1
    <3>1. PICK q, r : q = net[s][a] /\ r = n[s][a]
      BY Zenon
    <3>2. r = Tail(q) /\ q # <<>> /\ q \in Seq(Messages) /\ i \in DOMAIN q
      BY <3>1, <1>2, <2>3 DEF Heard, Lines
    <3>3. /\ r \in Seq(Messages) /\ Len(r) = Len(q) - 1 /\ Len(q) \in Nat
          /\ \A k \in 1 .. Len(q) - 1 : r[k] = q[k + 1]
      BY <3>2, TailAt
    <3>4. i - 1 \in 1 .. Len(q) - 1 /\ i - 1 + 1 = i
      BY <3>2, <3>3, <2>3
    <3>5. i - 1 \in DOMAIN r /\ r[i - 1] = q[i]
      BY <3>3, <3>4
    <3> QED  BY <3>1, <3>5, <2>3
  <2> QED  BY <2>1, <2>2, <2>3
<1> QED  BY <1>1, <1>2, Zenon

\* a adds to what is under way in n.
SaysMore(a, n) ==
  /\ \A x \in Seats \ {a} : \A y \in Seats : net'[x][y] = n[x][y]
  /\ \A y \in Seats : Part(n[a][y], net'[a][y])

LEMMA SaysNothing ==
  ASSUME NEW a, NEW n, net' = n
  PROVE  SaysMore(a, n)
BY PartSame, Zenon DEF SaysMore

LEMMA SaysThat ==
  ASSUME NEW n \in Lines, NEW a \in Seats, NEW box \in Boxes, net' = Post(n, a, box)
  PROVE  SaysMore(a, n)
<1>1. \A x \in Seats \ {a} : \A y \in Seats : net'[x][y] = n[x][y]
  <2>1. Posted(net', n, a, box)
    BY PostFacts, Zenon
  <2> QED  BY <2>1, Zenon DEF Posted
<1>2. ASSUME NEW y \in Seats PROVE Part(n[a][y], net'[a][y])
  <2>1. \A i \in DOMAIN n[a][y] : i \in DOMAIN net'[a][y] /\ net'[a][y][i] = n[a][y][i]
    BY MorePending, Zenon
  <2> QED  BY <2>1, Zenon DEF Part
<1> QED  BY <1>1, <1>2, Zenon DEF SaysMore

Telling(m) == m.type = "Refuse" /\ m.epoch = 1
Asking(m) == m.type = "Propose" /\ m.epoch = 1

\* What was pending is, if it was not the message that is heard.
LEMMA PendingOut ==
  ASSUME net \in Lines, NEW s \in Seats, NEW a \in Seats, NEW n, Heard(s, a, net, n), s # a,
         SaysMore(a, n), NEW b \in Seats \ {a}, Pending(net[a][b], net[b][a]),
         ~(b = s /\ Telling(net[s][a][1]))
  PROVE  Pending(net'[a][b], net'[b][a])
<1>1. /\ n[a][b] = net[a][b] /\ net'[b][a] = n[b][a]
      /\ \A i \in DOMAIN net[b][a] : \/ b = s /\ net[b][a][i] = net[s][a][1]
                                     \/ \E j \in DOMAIN n[b][a] : n[b][a][j] = net[b][a][i]
  <2>1. /\ n[a][b] = net[a][b]
        /\ \A i \in DOMAIN net[b][a] : \/ b = s /\ net[b][a][i] = net[s][a][1]
                                       \/ \E j \in DOMAIN n[b][a] : n[b][a][j] = net[b][a][i]
    BY LessOne
  <2>2. net'[b][a] = n[b][a]
    BY Zenon DEF SaysMore
  <2> QED  BY <2>1, <2>2, Zenon
<1>2. Part(net[a][b], net'[a][b])
  BY <1>1, Zenon DEF SaysMore
<1>3. CASE \E i \in DOMAIN net[a][b] : Asking(net[a][b][i])
  <2>1. \E i \in DOMAIN net'[a][b] : Asking(net'[a][b][i])
    BY <1>2, <1>3, Zenon DEF Part
  <2> QED  BY <2>1, Zenon DEF Pending, Asking
<1>4. CASE \E i \in DOMAIN net[b][a] : Telling(net[b][a][i])
  <2>1. \E i \in DOMAIN net'[b][a] : Telling(net'[b][a][i])
    BY <1>1, <1>4, Zenon
  <2> QED  BY <2>1, Zenon DEF Pending, Telling
<1> QED  BY <1>3, <1>4, Zenon DEF Pending, Asking, Telling

LEMMA PendingIn ==
  ASSUME net \in Lines, NEW s \in Seats, NEW a \in Seats, NEW n, Heard(s, a, net, n), s # a,
         SaysMore(a, n), NEW g \in Seats \ {a}, Pending(net[g][a], net[a][g]),
         ~(g = s /\ Asking(net[s][a][1]))
  PROVE  Pending(net'[g][a], net'[a][g])
<1>1. /\ n[a][g] = net[a][g] /\ net'[g][a] = n[g][a]
      /\ \A i \in DOMAIN net[g][a] : \/ g = s /\ net[g][a][i] = net[s][a][1]
                                     \/ \E j \in DOMAIN n[g][a] : n[g][a][j] = net[g][a][i]
  <2>1. /\ n[a][g] = net[a][g]
        /\ \A i \in DOMAIN net[g][a] : \/ g = s /\ net[g][a][i] = net[s][a][1]
                                       \/ \E j \in DOMAIN n[g][a] : n[g][a][j] = net[g][a][i]
    BY LessOne
  <2>2. net'[g][a] = n[g][a]
    BY Zenon DEF SaysMore
  <2> QED  BY <2>1, <2>2, Zenon
<1>2. Part(net[a][g], net'[a][g])
  BY <1>1, Zenon DEF SaysMore
<1>3. CASE \E i \in DOMAIN net[g][a] : Asking(net[g][a][i])
  <2>1. \E i \in DOMAIN net'[g][a] : Asking(net'[g][a][i])
    BY <1>1, <1>3, Zenon
  <2> QED  BY <2>1, Zenon DEF Pending, Asking
<1>4. CASE \E i \in DOMAIN net[a][g] : Telling(net[a][g][i])
  <2>1. \E i \in DOMAIN net'[a][g] : Telling(net'[a][g][i])
    BY <1>2, <1>4, Zenon DEF Part
  <2> QED  BY <2>1, Zenon DEF Pending, Telling
<1> QED  BY <1>3, <1>4, Zenon DEF Pending, Asking, Telling

\* What is loyal stays so when loyal messages are added.
LEMMA SaysLoyal ==
  ASSUME NEW n \in Lines, NEW a \in Seats, NEW box \in Boxes, net' = Post(n, a, box),
         \A y \in Seats : Loyal(n[a][y]) /\ Loyal(box[y])
  PROVE  \A y \in Seats : Loyal(net'[a][y])
<1>1. SUFFICES ASSUME NEW y \in Seats, NEW j \in DOMAIN net'[a][y]
               PROVE  /\ net'[a][y][j].type \in {"Turn", "Refuse"}
                      /\ net'[a][y][j].type = "Refuse" => net'[a][y][j].lowest = FirstHost
  BY Zenon DEF Loyal
<1>2. \/ \E i \in DOMAIN n[a][y] : net'[a][y][j] = n[a][y][i]
      \/ \E i \in DOMAIN box[y] : net'[a][y][j] = box[y][i]
  BY <1>1, MorePending, Zenon
<1> QED  BY <1>2 DEF Loyal

\* It hears what changes nothing of its session.
LEMMA HearsOn ==
  ASSUME IInv, MigrationAssumption, BesideInv, world' = world, NEW a \in Seats, NEW s \in Seats,
         Hear(a, s),
         NEW n, Heard(s, a, net, n), NEW m, m = net[s][a][1],
         session' = session, open' = open, SaysMore(a, n), ~Telling(m),
         Stays(a) => \A g \in Seats : Loyal(net'[a][g]),
         Stays(a) /\ Asking(m) => Lasting(a, s)
  PROVE  Behaves(a)
<1>1. /\ a \in alive /\ s # a /\ alive' = alive /\ silent'[a] = silent[a] \ {s}
      /\ session[a].mode \notin {"Host", "Lost"}
  BY HeardFields, Zenon
<1>2. net \in Lines
  BY StateFacts
<1>3. SettledKept(a) /\ SilentKept(a) /\ TakesSo(a)
  BY <1>1 DEF SettledKept, SilentKept, TakesSo
<1>4. EpochKept(a) /\ FreshKept(a)
  BY Zenon DEF EpochKept, FreshKept, BesideInv, FirstEpoch, FreshInv
<1>5. StaysSo(a)
  <2>1. SUFFICES ASSUME Stays(a)'
                 PROVE  Stays(a) /\ \A g \in Seats \ {a} : Lasting(a, g)
    BY Zenon DEF StaysSo
  <2>2. Stays(a)
    BY <2>1, <1>1 DEF Stays, FirstHost
  <2>3. ASSUME NEW g \in Seats \ {a} PROVE Lasting(a, g)
    <3>1. CASE g = s /\ Asking(m)
      BY <2>2, <3>1, Zenon
    <3>2. CASE ~(g = s /\ Asking(m))
      BY <3>2, <1>1, <1>2, PendingIn, Zenon DEF Lasting
    <3> QED  BY <3>1, <3>2, Zenon
  <2> QED  BY <2>2, <2>3, Zenon
<1>6. LeavesSo(a)
  <2>1. SUFFICES ASSUME NEW b \in Seats \ {a}, Departs(a)', Stays(b), Linked(a, b)'
                 PROVE  Refused(b, session[a], silent[a] \ {s}, net'[a][b], net'[b][a])
    BY <1>1, Zenon DEF LeavesSo
  <2>2. Departs(a) /\ Linked(a, b)
    BY <2>1, <1>1 DEF Departs, Electing, Linked, FirstHost
  <2>3. Refused(b, session[a], silent[a], net[a][b], net[b][a])
    BY <2>1, <2>2, DeparterFacts, Zenon
  <2>4. Pending(net[a][b], net[b][a]) => Pending(net'[a][b], net'[b][a])
    BY <1>1, <1>2, PendingOut, Zenon
  <2> QED  BY <2>3, <2>4 DEF Refused
<1> QED  BY <1>3, <1>4, <1>5, <1>6, Zenon DEF Behaves

LEMMA LoyalLeft ==
  ASSUME IInv, MigrationAssumption, BesideInv, NEW a \in Seats, NEW s \in Seats, Hear(a, s),
         NEW n, Heard(s, a, net, n), Stays(a)
  PROVE  \A g \in Seats : Loyal(n[a][g])
<1>1. s # a /\ net \in Lines
  BY HeardFields, StateFacts, Zenon
<1>2. \A g \in Seats : n[a][g] = net[a][g]
  BY <1>1, Zenon DEF Heard
<1>3. \A g \in Seats : Loyal(net[a][g])
  BY StayerFacts, Zenon
<1> QED  BY <1>2, <1>3

LEMMA HearTurnBehaves ==
  ASSUME IInv, MigrationAssumption, BesideInv, world' = world, NEW a \in Seats, NEW s \in Seats,
         Hear(a, s),
         NEW n, Heard(s, a, net, n), NEW m, m = net[s][a][1], HearsTurn(a, s, m, n)
  PROVE  Behaves(a)
<1>1. net' = n /\ session' = session /\ open' = open /\ m.type = "Turn"
  BY Zenon DEF HearsTurn
<1>2. SaysMore(a, n) /\ ~Telling(m) /\ ~Asking(m)
  BY <1>1, SaysNothing DEF Telling, Asking
<1>3. Stays(a) => \A g \in Seats : Loyal(net'[a][g])
  BY <1>1, LoyalLeft, Zenon
<1> QED  BY <1>1, <1>2, <1>3, HearsOn, Zenon

LEMMA HearRequestBehaves ==
  ASSUME IInv, MigrationAssumption, BesideInv, world' = world, NEW a \in Seats, NEW s \in Seats,
         Hear(a, s),
         NEW n, Heard(s, a, net, n), NEW m, m = net[s][a][1], m \in Messages,
         HearsRequest(a, s, m, n)
  PROVE  Behaves(a)
<1>1. PICK T, box : T = TurnsFrom(a, m.turn) /\ box = To(s, T)
  BY Zenon
<1>2. net' = Post(n, a, box) /\ session' = session /\ open' = open /\ m.type = "Request"
  BY <1>1, Zenon DEF HearsRequest
<1>3. m.turn \in Nat
  BY <1>2 DEF Messages
<1>4. T \in Seq(Messages) /\ \A i \in DOMAIN T : T[i].type = "Turn"
  <2>1. T \in Seq(Messages)
    <3>1. AreTurns(T, a, m.turn)
      BY <1>1, <1>3, StateFacts, TurnsFromFacts, Zenon
    <3> QED  BY <3>1, Zenon DEF AreTurns
  <2>2. ASSUME NEW i \in DOMAIN T PROVE T[i].type = "Turn"
    BY <2>2, <1>1, <1>3, TurnsFromSound, Zenon
  <2> QED  BY <2>1, <2>2
<1>5. box \in Boxes /\ \A g \in Seats : \A i \in DOMAIN box[g] : i \in DOMAIN T /\ box[g][i] = T[i]
  <2>1. T \in Seq(Messages) /\ box = To(s, T)
    BY <1>1, <1>4
  <2>2. box \in Boxes
    BY <2>1, ToFacts
  <2>3. \A g \in Seats : \A i \in DOMAIN box[g] : i \in DOMAIN T /\ box[g][i] = T[i]
    BY <2>1, ToFacts
  <2> QED  BY <2>2, <2>3
<1>6. n \in Lines
  BY Zenon DEF Heard
<1>7. SaysMore(a, n)
  BY <1>2, <1>5, <1>6, SaysThat, Zenon
<1>8. ~Telling(m) /\ ~Asking(m)
  BY <1>2 DEF Telling, Asking
<1>9. ASSUME Stays(a) PROVE \A g \in Seats : Loyal(net'[a][g])
  <2>1. \A g \in Seats : Loyal(box[g])
    BY <1>4, <1>5 DEF Loyal
  <2>2. \A g \in Seats : Loyal(n[a][g])
    BY <1>9, LoyalLeft, Zenon
  <2>3. \A g \in Seats : Loyal(n[a][g]) /\ Loyal(box[g])
    BY <2>1, <2>2, Zenon
  <2> QED  BY <2>3, <1>2, <1>5, <1>6, SaysLoyal, Zenon
<1> QED  BY <1>2, <1>7, <1>8, <1>9, HearsOn, Zenon

LEMMA HearResumeBehaves ==
  ASSUME IInv, MigrationAssumption, BesideInv, world' = world, NEW a \in Seats, NEW s \in Seats,
         Hear(a, s),
         NEW n, Heard(s, a, net, n), NEW m, m = net[s][a][1], Sound(s, m, session, got),
         HearsResume(a, s, m, n)
  PROVE  Behaves(a)
<1>1. PICK t : t = session[a]
  OBVIOUS
<1>2. /\ m.type = "Resume" /\ net' = n /\ open' = open
      /\ session' = [session EXCEPT ![a] =
           IF ~Honours(a, s, m) THEN t
           ELSE IF m.turn < Len(got[a]) THEN GoneLost(t)
           ELSE [NewSession EXCEPT !.host = s, !.epoch = m.epoch]]
  BY <1>1, Zenon DEF HearsResume, HearResume
<1>3. t \in Sessions /\ session \in [Seats -> Sessions]
  BY <1>1, OwnSession, StateFacts, Zenon
<1>4. /\ a \in alive /\ silent'[a] = silent[a] \ {s} /\ session[a].mode \notin {"Host", "Lost"}
  BY HeardFields, Zenon
<1>5. CASE ~Honours(a, s, m)
  <2>1. session' = session
    BY <1>1, <1>2, <1>3, <1>5
  <2>2. SaysMore(a, n) /\ ~Telling(m) /\ ~Asking(m)
    BY <1>2, SaysNothing DEF Telling, Asking
  <2>3. Stays(a) => \A g \in Seats : Loyal(net'[a][g])
    BY <1>2, LoyalLeft, Zenon
  <2> QED  BY <1>2, <2>1, <2>2, <2>3, HearsOn, Zenon
<1>6. CASE Honours(a, s, m)
  <2>1. PICK u : /\ session'[a] = u
                 /\ u = GoneLost(t) \/ u = [NewSession EXCEPT !.host = s, !.epoch = m.epoch]
    BY <1>2, <1>3, <1>6
  <2>2. \/ u.mode = "Lost" /\ u.host = t.host /\ u.epoch = t.epoch
        \/ /\ u.mode = "Normal" /\ u.host = s /\ u.epoch = m.epoch
           /\ u.following = None /\ u.proposed = FALSE
    <3>1. CASE u = GoneLost(t)
      BY <3>1, <1>3, LostFields, Zenon
    <3>2. CASE u = [NewSession EXCEPT !.host = s, !.epoch = m.epoch]
      BY <3>2 DEF NewSession
    <3> QED  BY <2>1, <3>1, <3>2
  <2>3. session[s].mode = "Host" /\ session[s].epoch = m.epoch /\ m.epoch = t.epoch + 1
    BY <1>1, <1>2, <1>6 DEF Sound, Honours, ElectionEpoch
  <2>4. s # FirstHost
    BY <2>3, <1>3 DEF BesideInv, FirstHostInv, Sessions
  <2>5. EpochKept(a)
    BY <2>1, <2>2, <2>4, <1>1 DEF EpochKept, BesideInv, FirstEpoch
  <2>6. SettledKept(a) /\ SilentKept(a) /\ TakesSo(a)
    BY <1>4, <2>1, <2>2 DEF SettledKept, SilentKept, TakesSo
  <2>7. ~Stays(a)' /\ ~Departs(a)'
    BY <2>1, <2>2, <2>4 DEF Stays, Departs, Electing, FirstHost
  <2>8. LeavesSo(a) /\ StaysSo(a)
    BY <2>7, Zenon DEF LeavesSo, StaysSo
  <2>9. FreshKept(a)
    BY <2>1, <2>2 DEF FreshKept, Fresh
  <2> QED  BY <2>5, <2>6, <2>8, <2>9, Zenon DEF Behaves
<1> QED  BY <1>5, <1>6

LEMMA HearAnswerBehaves ==
  ASSUME IInv, MigrationAssumption, BesideInv, world' = world, NEW a \in Seats, NEW s \in Seats,
         Hear(a, s),
         NEW n, Heard(s, a, net, n), NEW m, m = net[s][a][1], m \in Messages,
         1 \in DOMAIN net[s][a],
         HearsAnswer(a, s, m, n)
  PROVE  Behaves(a)
<1>1. PICK t : t = session[a]
  OBVIOUS
<1>2. PICK answer, noted :
        /\ answer = IF m.type = "Accept" THEN [accepted |-> TRUE, next |-> m.next]
                                         ELSE [accepted |-> FALSE, lowest |-> m.lowest]
        /\ noted = [x \in DOMAIN t.answers \cup {s} |-> IF x = s THEN answer ELSE t.answers[x]]
  BY Zenon
<1>3. PICK u : u = IF m.type = "Refuse" /\ m.epoch = ElectionEpoch(t) /\ t.following = s
                   THEN [t EXCEPT !.following = None, !.mode = "Electing"]
                   ELSE IF t.proposed /\ m.epoch = ElectionEpoch(t) /\ s \in t.expected
                   THEN [t EXCEPT !.answers = noted] ELSE t
  OBVIOUS
<1>4. /\ m.type \in {"Accept", "Refuse"} /\ net' = n /\ open' = open
      /\ session' = [session EXCEPT ![a] = u]
  BY <1>1, <1>2, <1>3, Zenon DEF HearsAnswer, HearAnswer
<1>5. session'[a] = u
  BY <1>4, TheSession, Zenon
<1>6. /\ t \in Sessions /\ net \in Lines /\ a \in alive /\ alive' = alive /\ s # a
         /\ silent'[a] = silent[a] \ {s}
      /\ session[a].mode \notin {"Host", "Lost"}
  BY <1>1, OwnSession, StateFacts, HeardFields, Zenon
<1>7. SaysMore(a, n) /\ ~Asking(m)
  BY <1>4, SaysNothing DEF Asking
<1>8. u.host = t.host /\ u.epoch = t.epoch /\ u.dead = t.dead /\ u.hint = t.hint
      /\ u.proposed = t.proposed /\ u.expected = t.expected
  BY <1>3, <1>6, DeclinesFields, NotedFields DEF Sessions
<1>9. \/ /\ m.type = "Refuse" /\ t.following = s /\ u.mode = "Electing" /\ u.following = None
         /\ u.answers = t.answers
      \/ /\ t.proposed /\ m.epoch = ElectionEpoch(t) /\ s \in t.expected
         /\ u.mode = t.mode /\ u.following = t.following /\ u.answers = noted
      \/ ~(t.proposed /\ m.epoch = ElectionEpoch(t) /\ s \in t.expected) /\ u = t
  BY <1>3, <1>6, DeclinesFields, NotedFields DEF Sessions
<1>10. Fresh(t)
  BY <1>1, Zenon DEF BesideInv, FreshInv
<1>11. s # None
  BY StateFacts, WorldFacts
<1>12. t.mode = "Normal" => u = t
  BY <1>9, <1>10, <1>3, <1>11 DEF Fresh
<1>13. u.mode \in {t.mode, "Electing"}
  BY <1>9
<1>14. SettledKept(a) /\ SilentKept(a) /\ TakesSo(a) /\ FreshKept(a)
  BY <1>1, <1>5, <1>6, <1>10, <1>12, <1>13 DEF SettledKept, SilentKept, TakesSo, FreshKept, Fresh
<1>15. EpochKept(a)
  BY <1>1, <1>5, <1>8, Zenon DEF EpochKept, BesideInv, FirstEpoch
<1>16. StaysSo(a)
  <2>1. SUFFICES ASSUME Stays(a)'
                 PROVE  /\ Stays(a) /\ \A g \in Seats : Loyal(net'[a][g])
                        /\ \A g \in Seats \ {a} : Lasting(a, g)
    BY Zenon DEF StaysSo
  <2>2. Stays(a)
    BY <2>1, <1>1, <1>5, <1>6, <1>8, <1>13 DEF Stays, FirstHost
  <2>3. \A g \in Seats : Loyal(net'[a][g])
    BY <2>2, <1>4, LoyalLeft, Zenon
  <2>4. ASSUME NEW g \in Seats \ {a} PROVE Lasting(a, g)
    BY <1>6, <1>7, PendingIn, Zenon DEF Lasting
  <2> QED  BY <2>2, <2>3, <2>4, Zenon
<1>17. LeavesSo(a)
  <2>1. SUFFICES ASSUME NEW b \in Seats \ {a}, Departs(a)', Stays(b), Linked(a, b)'
                 PROVE  Refused(b, u, silent[a] \ {s}, net'[a][b], net'[b][a])
    BY <1>5, <1>6, Zenon DEF LeavesSo
  <2>2. Departs(a) /\ Linked(a, b)
    <3>1. t.mode # "Normal"
      BY <2>1, <1>5, <1>12 DEF Departs, Electing
    <3>2. t.mode \in Modes
      BY <1>6 DEF Sessions
    <3> QED  BY <2>1, <3>1, <3>2, <1>1, <1>4, <1>5, <1>6, <1>8
                DEF Departs, Electing, Linked, FirstHost, Modes
  <2>3. Refused(b, t, silent[a], net[a][b], net[b][a]) /\ t.epoch = 0
    BY <2>1, <2>2, <1>1, DeparterFacts, Zenon
  <2>4. b \notin u.dead /\ b \notin silent[a] \ {s} /\ b # u.hint /\ b # u.following
        /\ u.mode # "Fetching"
    <3>1. b # None
      BY StateFacts, WorldFacts
    <3> QED  BY <2>3, <3>1, <1>8, <1>9 DEF Refused
  <2>5. SUFFICES ASSUME u.proposed
                 PROVE  /\ b \in DOMAIN u.answers =>
                             ~u.answers[b].accepted /\ u.answers[b].lowest = FirstHost
                        /\ b \notin DOMAIN u.answers => Pending(net'[a][b], net'[b][a])
    BY <2>3, <2>4, <1>8 DEF Refused
  <2>6. /\ b \in t.expected
        /\ b \in DOMAIN t.answers => ~t.answers[b].accepted /\ t.answers[b].lowest = FirstHost
        /\ b \notin DOMAIN t.answers => Pending(net[a][b], net[b][a])
    BY <2>3, <2>5, <1>8 DEF Refused
  <2>7. ASSUME ~(b = s /\ Telling(m)), b \notin DOMAIN t.answers
        PROVE  Pending(net'[a][b], net'[b][a])
    BY <2>6, <2>7, <1>6, <1>7, PendingOut, Zenon
  <2>8. CASE b # s
    <3>1. \/ u.answers = t.answers
          \/ /\ b \in DOMAIN u.answers <=> b \in DOMAIN t.answers
             /\ b \in DOMAIN t.answers => u.answers[b] = t.answers[b]
      BY <2>8, <1>2, <1>9
    <3> QED  BY <3>1, <2>6, <2>7, <2>8
  <2>9. CASE b = s
    <3>1. Loyal(net[s][a])
      BY <2>1, <2>9, StayerFacts, Zenon
    <3>2. m.type = "Refuse" /\ m.lowest = FirstHost
      BY <3>1, <1>4 DEF Loyal
    <3>3. b # t.following
      BY <2>3 DEF Refused
    <3>4. CASE t.proposed /\ m.epoch = ElectionEpoch(t) /\ s \in t.expected
      <4>1. u.answers = noted
        BY <3>3, <3>4, <2>9, <1>9
      <4>2. b \in DOMAIN noted /\ noted[b] = [accepted |-> FALSE, lowest |-> FirstHost]
        BY <3>2, <2>9, <1>2
      <4> QED  BY <4>1, <4>2
    <3>5. CASE ~(t.proposed /\ m.epoch = ElectionEpoch(t) /\ s \in t.expected)
      <4>1. u = t /\ ~Telling(m)
        BY <3>3, <3>5, <2>3, <2>5, <2>6, <2>9, <1>8, <1>9 DEF Telling, ElectionEpoch
      <4> QED  BY <4>1, <2>6, <2>7
    <3> QED  BY <3>4, <3>5
  <2> QED  BY <2>8, <2>9
<1> QED  BY <1>14, <1>15, <1>16, <1>17, Zenon DEF Behaves

\* Who declines names a seat.
LEMMA DeclineCases ==
  ASSUME IInv, MigrationAssumption, NEW g \in Seats, NEW s \in Seats, NEW t \in Sessions,
         NEW n \in Lines,
         AnswerProposal(g, s, t, n)
  PROVE  \/ session' = [session EXCEPT ![g] = t] /\ SaysMore(g, n)
         \/ Accepts(g, s, t, n)
<1>1. ASSUME NEW low \in Seats, net' = Post(n, g, To(s, <<RefuseMsg(t, low)>>))
      PROVE  SaysMore(g, n)
  <2>1. PICK r, box : r = RefuseMsg(t, low) /\ box = To(s, <<r>>)
    BY Zenon
  <2>2. r \in Messages
    BY <2>1 DEF RefuseMsg, ElectionEpoch, Messages, Sessions
  <2>3. box \in Boxes
    BY <2>1, <2>2, ToOneFacts, Zenon
  <2> QED  BY <2>1, <2>3, <1>1, SaysThat, Zenon
<1>2. CASE t.following \notin {None, s} /\ t.following \notin t.dead /\ PeerAlive(g, t.following)
  <2>1. t.following \in Seats
    BY <1>2 DEF Sessions
  <2>2. session' = [session EXCEPT ![g] = t]
        /\ net' = Post(n, g, To(s, <<RefuseMsg(t, t.following)>>))
    BY <1>2, Zenon DEF AnswerProposal
  <2> QED  BY <2>1, <2>2, <1>1, Zenon
<1>3. CASE /\ ~(t.following \notin {None, s} /\ t.following \notin t.dead /\ PeerAlive(g, t.following))
           /\ LowestAlive(g, t) < s
  <2>1. LowestAlive(g, t) \in Seats
    BY StateFacts, LowestAliveSeat, Zenon
  <2>2. session' = [session EXCEPT ![g] = t]
        /\ net' = Post(n, g, To(s, <<RefuseMsg(t, LowestAlive(g, t))>>))
    BY <1>3, Zenon DEF AnswerProposal
  <2> QED  BY <2>1, <2>2, <1>1, Zenon
<1>4. CASE /\ ~(t.following \notin {None, s} /\ t.following \notin t.dead /\ PeerAlive(g, t.following))
           /\ ~(LowestAlive(g, t) < s)
  BY <1>4, Zenon DEF AnswerProposal, Accepts, Accepting, Speaks
<1> QED  BY <1>2, <1>3, <1>4, Zenon

\* It has answered a candidate; those who play on may count on v.
LEMMA VoteBehaves ==
  ASSUME IInv, MigrationAssumption, BesideInv, world' = world, NEW a \in Seats, NEW s \in Seats,
         Hear(a, s),
         NEW v, session'[a] = v, v.mode \notin {"Host", "Lost", "Normal"},
         v.host = session[a].host, v.epoch = session[a].epoch,
         \A b \in Seats \ {a} : Stays(b) /\ Linked(a, b)' /\ v.host = FirstHost =>
           Refused(b, v, silent[a], net'[a][b], net'[b][a])
  PROVE  Behaves(a)
<1>1. /\ a \in alive /\ alive' = alive /\ silent'[a] = silent[a] \ {s}
      /\ session[a].mode \notin {"Host", "Lost"}
  BY HeardFields, Zenon
<1>2. LeavesSo(a)
  <2>1. SUFFICES ASSUME NEW b \in Seats \ {a}, Departs(a)', Stays(b), Linked(a, b)'
                 PROVE  Refused(b, v, silent[a] \ {s}, net'[a][b], net'[b][a])
    BY <1>1, Zenon DEF LeavesSo
  <2>2. Refused(b, v, silent[a], net'[a][b], net'[b][a])
    BY <2>1 DEF Departs, FirstHost
  <2> QED  BY <2>2 DEF Refused
<1>3. SettledKept(a) /\ SilentKept(a) /\ TakesSo(a) /\ FreshKept(a) /\ StaysSo(a)
  BY <1>1 DEF SettledKept, SilentKept, TakesSo, FreshKept, Fresh, StaysSo, Stays
<1>4. EpochKept(a)
  BY Zenon DEF EpochKept, BesideInv, FirstEpoch
<1> QED  BY <1>2, <1>3, <1>4, Zenon DEF Behaves

LEMMA HearProposeBehaves ==
  ASSUME IInv, MigrationAssumption, BesideInv, world' = world, NEW a \in Seats, NEW s \in Seats,
         Hear(a, s),
         NEW n, Heard(s, a, net, n), NEW m, m = net[s][a][1], m \in Messages,
         1 \in DOMAIN net[s][a],
         HearsPropose(a, s, m, n)
  PROVE  Behaves(a)
<1>1. PICK t : t = session[a]
  OBVIOUS
<1>2. /\ m.type = "Propose"
      /\ \/ Ignores(n) /\ m.epoch # ElectionEpoch(t)
         \/ /\ m.epoch = ElectionEpoch(t)
            /\ SaysHostLives(a, s, t, n) \/ TakesItsWord(a, s, t, n) \/ Votes(a, s, t, n)
  <2>1. HearPropose(a, s, m, n) /\ m.type = "Propose"
    BY Zenon DEF HearsPropose
  <2>2. \/ Ignores(n) /\ m.epoch # ElectionEpoch(t)
        \/ /\ m.epoch = ElectionEpoch(t)
           /\ SaysHostLives(a, s, t, n) \/ TakesItsWord(a, s, t, n) \/ Votes(a, s, t, n)
    BY <2>1, <1>1, ProposeCases
  <2> QED  BY <2>1, <2>2
<1>3. /\ t \in Sessions /\ net \in Lines /\ a \in alive /\ alive' = alive /\ s # a
         /\ silent'[a] = silent[a] \ {s}
      /\ session[a].mode \notin {"Host", "Lost"} /\ n \in Lines
  BY <1>1, OwnSession, StateFacts, HeardFields, Zenon DEF Heard
<1>4. Stays(a) => \A g \in Seats : Loyal(n[a][g])
  BY LoyalLeft, Zenon
<1>5. Stays(a) => t.epoch = 0 /\ t.host = FirstHost
  BY <1>1 DEF Stays, BesideInv, FirstEpoch
<1>6. ~Telling(m)
  BY <1>2 DEF Telling
<1>7. CASE Ignores(n) /\ m.epoch # ElectionEpoch(t)
  <2>1. net' = n /\ session' = session /\ open' = open
    BY <1>7, Zenon DEF Ignores
  <2>2. SaysMore(a, n) /\ (Stays(a) => ~Asking(m))
    BY <1>5, <1>7, <2>1, SaysNothing DEF Asking, ElectionEpoch
  <2> QED  BY <2>1, <2>2, <1>4, <1>6, HearsOn, Zenon
<1>8. CASE SaysHostLives(a, s, t, n)
  <2>1. PICK r, box : r = RefuseMsg(t, t.host) /\ box = To(s, <<r>>)
    BY Zenon
  <2>2. net' = Post(n, a, box) /\ session' = session /\ open' = open
    BY <1>8, <2>1, Zenon DEF SaysHostLives
  <2>3. r \in Messages /\ r.type = "Refuse" /\ r.lowest = t.host /\ r.epoch = t.epoch + 1
    BY <2>1, <1>3 DEF RefuseMsg, ElectionEpoch, Messages, Sessions
  <2>4. box \in Boxes /\ (\A g \in Seats : \A i \in DOMAIN box[g] : box[g][i] = r) /\ box[s] = <<r>>
    BY <2>1, <2>3, ToOneFacts DEF To
  <2>5. SaysMore(a, n)
    BY <2>2, <2>4, <1>3, SaysThat, Zenon
  <2>6. ASSUME Stays(a) PROVE \A g \in Seats : Loyal(net'[a][g])
    <3>1. \A g \in Seats : Loyal(n[a][g]) /\ Loyal(box[g])
      BY <2>3, <2>4, <2>6, <1>4, <1>5 DEF Loyal
    <3> QED  BY <3>1, <2>2, <2>4, <1>3, SaysLoyal, Zenon
  <2>7. ASSUME Stays(a), Departs(s), Linked(s, a) PROVE Pending(net'[s][a], net'[a][s])
    <3>1. Linked(a, s) /\ Listens(s)
      <4>1. {a, s} = {s, a}
        OBVIOUS
      <4> QED  BY <4>1, <2>7 DEF Linked, Departs, Electing, Listens
    <3>2. \A i \in DOMAIN box[s] : \E j \in DOMAIN net'[a][s] : net'[a][s][j] = box[s][i]
      BY <3>1, <2>2, <2>4, <1>3, MorePending
    <3>3. 1 \in DOMAIN box[s] /\ box[s][1] = r
      BY <2>4
    <3>4. PICK j \in DOMAIN net'[a][s] : net'[a][s][j] = r
      BY <3>2, <3>3, Zenon
    <3>5. r.type = "Refuse" /\ r.epoch = 1
      BY <2>3, <2>7, <1>5
    <3> QED  BY <3>4, <3>5, Zenon DEF Pending
  <2>8. Stays(a) => Lasting(a, s)
    BY <2>7, Zenon DEF Lasting
  <2> QED  BY <2>2, <2>5, <2>6, <2>8, <1>6, HearsOn, Zenon
<1>9. ASSUME NEW b \in Seats \ {a}, Stays(b)
      PROVE  b # s /\ b # FirstHost /\ b \notin silent[a]
  <2>1. b # FirstHost /\ b \notin silent[a] /\ Loyal(net[b][a])
    BY <1>9, StayerFacts, Zenon
  <2> QED  BY <2>1, <1>2 DEF Loyal
<1>10. CASE TakesItsWord(a, s, t, n)
  <2>1. PICK d, w, k : d = BegunElection(t) /\ w = Convinced(t, s) /\ k = CutOff(a, n)
    BY Zenon
  <2>2. t.mode = "Normal" /\ AnswerProposal(a, s, w, k)
    BY <1>10, <2>1, Zenon DEF TakesItsWord
  <2>3. /\ d \in Sessions /\ d.mode = "Electing" /\ d.dead = {t.host} /\ d.hint = None
        /\ d.following = None /\ d.proposed = FALSE /\ d.host = t.host /\ d.epoch = t.epoch
    BY <2>1, <1>3, StateFacts, BegunFields, Zenon
  <2>4. /\ w \in Sessions /\ w.mode = d.mode /\ w.dead \subseteq d.dead /\ w.hint = d.hint
        /\ w.following = d.following /\ w.proposed = d.proposed /\ w.host = d.host
           /\ w.epoch = d.epoch
    BY <2>1, <2>3 DEF Convinced, Sessions
  <2>5. PICK v : session'[a] = v /\ (v = w \/ v = Accepting(w, s))
    <3>1. CASE session' = [session EXCEPT ![a] = w]
      BY <3>1, TheSession, Zenon
    <3>2. CASE session' = [session EXCEPT ![a] = Accepting(w, s)]
      BY <3>2, TheSession, Zenon
    <3> QED  BY <3>1, <3>2, <2>2, AnswerCases, Zenon DEF Declines, Accepts
  <2>6. /\ v.mode \in {"Electing", "Following"} /\ v.dead = w.dead /\ v.hint = None
        /\ v.following \in {None, s} /\ v.proposed = FALSE /\ v.host = t.host /\ v.epoch = t.epoch
    <3>1. CASE v = w
      BY <3>1, <2>3, <2>4
    <3>2. CASE v = Accepting(w, s)
      BY <3>2, <2>3, <2>4 DEF Accepting, Withdrawn, Sessions
    <3> QED  BY <3>1, <3>2, <2>5
  <2>7. ASSUME NEW b \in Seats \ {a}, Stays(b), v.host = FirstHost
        PROVE  Refused(b, v, silent[a], net'[a][b], net'[b][a])
    <3>1. b # None
      BY StateFacts, WorldFacts
    <3>2. b # s /\ b # FirstHost /\ b \notin silent[a]
      BY <2>7, <1>9
    <3> QED  BY <3>1, <3>2, <2>3, <2>4, <2>6, <2>7 DEF Refused
  <2> QED  BY <2>5, <2>6, <2>7, <1>1, VoteBehaves
<1>11. CASE Votes(a, s, t, n)
  <2>1. PICK w : w = Revives(t, s)
    OBVIOUS
  <2>2. Electing(a) /\ AnswerProposal(a, s, w, n) /\ open' = open
    BY <1>11, <2>1, Zenon DEF Votes
  <2>3. /\ w \in Sessions /\ w.mode = t.mode /\ w.dead \subseteq t.dead /\ w.hint = t.hint
        /\ w.following = t.following /\ w.proposed = t.proposed /\ w.host = t.host
           /\ w.epoch = t.epoch
        /\ w.expected = t.expected /\ w.answers = t.answers
    BY <2>1, <1>3, RevivedFields DEF Revives
  <2>4. ASSUME NEW b \in Seats \ {a}, Stays(b), Linked(a, b)', t.host = FirstHost
        PROVE  Refused(b, t, silent[a], net[a][b], net[b][a])
    <3>1. Departs(a) /\ Linked(a, b)
      BY <2>2, <2>4, <1>1, <1>3 DEF Departs, Linked
    <3> QED  BY <2>4, <3>1, <1>1, DeparterFacts, Zenon
  <2>5. CASE session' = [session EXCEPT ![a] = w] /\ SaysMore(a, n)
    <3>1. session'[a] = w
      BY <2>5, TheSession, Zenon
    <3>2. ASSUME NEW b \in Seats \ {a}, Stays(b), Linked(a, b)', w.host = FirstHost
          PROVE  Refused(b, w, silent[a], net'[a][b], net'[b][a])
      <4>1. Refused(b, t, silent[a], net[a][b], net[b][a])
        BY <3>2, <2>3, <2>4
      <4>2. Pending(net[a][b], net[b][a]) => Pending(net'[a][b], net'[b][a])
        BY <2>5, <1>3, <1>6, PendingOut, Zenon
      <4> QED  BY <4>1, <4>2, <2>3 DEF Refused
    <3> QED  BY <2>2, <2>3, <3>1, <3>2, <1>1, VoteBehaves DEF Electing
  <2>6. CASE Accepts(a, s, w, n)
    <3>1. PICK v : v = Accepting(w, s)
      OBVIOUS
    <3>2. session' = [session EXCEPT ![a] = v]
      BY <2>6, <3>1, Zenon DEF Accepts
    <3>3. session'[a] = v
      BY <3>2, TheSession, Zenon
    <3>4. /\ v.mode = "Following" /\ v.dead = w.dead /\ v.hint = w.hint
          /\ v.following = s /\ v.proposed = FALSE /\ v.host = w.host /\ v.epoch = w.epoch
      BY <3>1, <2>3 DEF Accepting, Withdrawn, Sessions
    <3>5. ASSUME NEW b \in Seats \ {a}, Stays(b), Linked(a, b)', v.host = FirstHost
          PROVE  Refused(b, v, silent[a], net'[a][b], net'[b][a])
      <4>1. Refused(b, t, silent[a], net[a][b], net[b][a]) /\ b # s
        BY <3>4, <3>5, <2>3, <2>4, <1>9
      <4> QED  BY <4>1, <2>3, <3>4 DEF Refused
    <3> QED  BY <2>3, <3>3, <3>4, <3>5, <1>1, VoteBehaves
  <2> QED  BY <2>2, <2>3, <2>5, <2>6, <1>3, DeclineCases, Zenon
<1> QED  BY <1>2, <1>7, <1>8, <1>10, <1>11, Zenon

LEMMA HearBehaves ==
  ASSUME IInv, MigrationAssumption, BesideInv, world' = world, NEW a \in Seats, NEW s \in Seats,
         Hear(a, s)
  PROVE  Behaves(a)
<1>1. PICK m, n : m = Head(net[s][a]) /\ n = HeardNet(a, s)
  BY Zenon
<1>2. /\ Heard(s, a, net, n) /\ m \in Messages /\ m = net[s][a][1] /\ 1 \in DOMAIN net[s][a]
      /\ Sound(s, m, session, got)
      /\ HearsTurn(a, s, m, n) \/ HearsPropose(a, s, m, n) \/ HearsAnswer(a, s, m, n)
         \/ HearsResume(a, s, m, n) \/ HearsRequest(a, s, m, n)
  BY <1>1, HearFacts, Zenon
<1>3. CASE HearsTurn(a, s, m, n)
  BY <1>2, <1>3, HearTurnBehaves, Zenon
<1>4. CASE HearsPropose(a, s, m, n)
  BY <1>2, <1>4, HearProposeBehaves, Zenon
<1>5. CASE HearsAnswer(a, s, m, n)
  BY <1>2, <1>5, HearAnswerBehaves, Zenon
<1>6. CASE HearsResume(a, s, m, n)
  BY <1>2, <1>6, HearResumeBehaves, Zenon
<1>7. CASE HearsRequest(a, s, m, n)
  BY <1>2, <1>7, HearRequestBehaves, Zenon
<1> QED  BY <1>2, <1>3, <1>4, <1>5, <1>6, <1>7, Zenon

\* The steps of the host, and of the world
LEMMA OthersBehave ==
  ASSUME IInv, MigrationAssumption, BesideInv, NEW a \in Seats,
         HostSeals(a) \/ Crash(a) \/ \E g \in Seats : HostDrops(a, g) \/ Cut(a, g)
  PROVE  Behaves(a) /\ Frame(a)
<1>1. session' = session /\ silent' = silent /\ (session[a].mode = "Host" \/ a \notin alive')
  <2>1. CASE HostSeals(a)
    BY <2>1 DEF HostSeals
  <2>2. CASE Crash(a)
    BY <2>2 DEF Crash
  <2>3. CASE \E g \in Seats : HostDrops(a, g)
    <3>1. session' = session /\ silent' = silent /\ clients[a] # {}
      BY <2>3 DEF HostDrops
    <3>2. session[a].mode = "Host"
      BY <3>1, StateFacts DEF IInvAt, HostAt
    <3> QED  BY <3>1, <3>2
  <2>4. CASE \E g \in Seats : Cut(a, g)
    BY <2>4 DEF Cut
  <2> QED  BY <2>1, <2>2, <2>3, <2>4
<1>2. Behaves(a)
  BY <1>1, HostBehaves, Zenon
<1>3. Frame(a)
  BY SealsFrame, CrashFrame, DropsFrame, CutFrame, Zenon
<1> QED  BY <1>2, <1>3

\* Whoever acts
LEMMA OneBehaves ==
  ASSUME IInv, MigrationAssumption, BesideInv, Steady, Next
  PROVE  \E a \in Seats : Behaves(a) /\ Frame(a)
<1>1. PICK a \in Seats : Update(a) \/ ElectionLimit(a) \/ Crash(a) \/ \E g \in Seats : Cut(a, g)
  BY Zenon DEF Next
<1>2. world' = world
  BY Zenon DEF Next
<1>3. CASE NoticesLoss(a)
  BY <1>2, <1>3, NoticesLossBehaves, NoticesLossFrame, Zenon
<1>4. CASE Propose(a)
  BY <1>2, <1>4, ProposeBehaves, ProposeFrame, Zenon
<1>5. CASE Resolve(a)
  BY <1>2, <1>5, ResolveBehaves, ResolveFrame, Zenon
<1>6. CASE GivesUpCandidate(a)
  BY <1>2, <1>6, GivesUpBehaves, GivesUpFrame, Zenon
<1>7. CASE FetchTick(a)
  BY <1>2, <1>7, FetchBehaves, FetchFrame, Zenon
<1>8. ASSUME NEW s \in Seats, Hear(a, s) PROVE Behaves(a) /\ Frame(a)
  BY <1>2, <1>8, HearBehaves, HearFrame, Zenon
<1>9. ASSUME NEW s \in Seats, Silence(a, s) PROVE Behaves(a) /\ Frame(a)
  BY <1>2, <1>9, SilenceBehaves, SilenceFrame, Zenon
<1>10. CASE HostSeals(a) \/ Crash(a) \/ \E g \in Seats : HostDrops(a, g) \/ Cut(a, g)
  BY <1>10, OthersBehave, Zenon
<1>11. ~ElectionLimit(a)
  BY Zenon DEF ElectionLimit
<1> QED  BY <1>1, <1>3, <1>4, <1>5, <1>6, <1>7, <1>8, <1>9, <1>10, <1>11, Zenon
         DEF Update, SessionStep, HostStep

\* What is so of others when one acts stays so.
LEMMA PartPending ==
  ASSUME NEW q, NEW r, Part(r, q), Loyal(q)
  PROVE  Loyal(r)
BY DEF Part, Loyal

LEMMA BesideStep ==
  ASSUME IInv, IInv', MigrationAssumption, BesideInv, world' = world, NEW a \in Seats, Behaves(a),
         Frame(a)
  PROVE  BesideInv'
<1>1. /\ Seats' = Seats /\ FirstHost' = FirstHost /\ open' \subseteq open /\ alive' \subseteq alive
      /\ \A x \in Seats \ {a} : session'[x] = session[x] /\ silent'[x] = silent[x]
  BY Zenon DEF Seats, FirstHost, Frame
<1>2. \A x \in Seats \ {a} : \A y \in Seats \ {a} : net'[x][y] = net[x][y]
  BY Zenon DEF Frame, Rest
<1>3. \A x \in Seats \ {a} : Part(net'[x][a], net[x][a])
  BY Zenon DEF Frame, Rest
<1>4. \A x \in Seats : session[x].mode \in {"Host", "Lost"} => session'[x] = session[x]
  BY <1>1 DEF Behaves, SettledKept
<1>5. FirstHostInv'
  <2>1. FirstHost \in Seats
    BY StateFacts, WorldFacts
  <2> QED  BY <1>1, <1>4, <2>1 DEF BesideInv, FirstHostInv
<1>6. FirstEpoch'
  BY <1>1 DEF BesideInv, FirstEpoch, Behaves, EpochKept
<1>7. FreshInv'
  BY <1>1 DEF BesideInv, FreshInv, Behaves, FreshKept, Fresh
<1>8. SilentInv'
  <2>1. SUFFICES ASSUME NEW g \in Seats, NEW s \in silent'[g]
                 PROVE  s \notin alive' \/ session'[s].mode \in {"Lost", "Host"}
    BY <1>1 DEF SilentInv
  <2>2. s \in Seats
    <3>1. silent' \in [Seats -> SUBSET Seats]
      BY <1>1, Zenon DEF IInv
    <3> QED  BY <2>1, <3>1
  <2>3. s \notin alive \/ session[s].mode \in {"Lost", "Host"}
    <3>1. CASE g = a
      BY <2>1, <3>1 DEF BesideInv, SilentInv, Behaves, SilentKept
    <3>2. CASE g # a
      BY <2>1, <3>2, <1>1 DEF BesideInv, SilentInv
    <3> QED  BY <3>1, <3>2
  <2> QED  BY <2>2, <2>3, <1>1, <1>4
<1>9. ASSUME NEW b \in Seats \ {a}, Stays(b)' PROVE Stays(b)
  BY <1>1, <1>9 DEF Stays
<1>10. ASSUME NEW g \in Seats \ {a}, Departs(g)' PROVE Departs(g)
  BY <1>1, <1>10 DEF Departs, Electing
<1>11. ASSUME NEW g, NEW b, Linked(g, b)' PROVE Linked(g, b)
  BY <1>1, <1>11 DEF Linked
<1>12. LoyalInv'
  <2>1. SUFFICES ASSUME NEW b \in Seats, Stays(b)', NEW g \in Seats
                 PROVE  Loyal(net'[b][g])
    BY <1>1 DEF LoyalInv, Loyal
  <2>2. CASE b = a
    BY <2>1, <2>2, Zenon DEF Behaves, StaysSo
  <2>3. CASE b # a
    <3>1. Loyal(net[b][g])
      BY <2>1, <2>3, <1>9, Zenon DEF BesideInv, LoyalInv
    <3> QED  BY <2>3, <3>1, <1>2, <1>3, PartPending
  <2> QED  BY <2>2, <2>3
<1>13. RefusedInv'
  <2>1. SUFFICES ASSUME NEW g \in Seats, NEW b \in Seats, Departs(g)', Stays(b)', Linked(g, b)'
                 PROVE  Refused(b, session'[g], silent'[g], net'[g][b], net'[b][g])
    BY <1>1 DEF RefusedInv, Refused
  <2>2. g # b
    BY <2>1 DEF Departs, Electing, Stays
  <2>3. CASE g # a /\ b # a
    <3>1. Refused(b, session[g], silent[g], net[g][b], net[b][g])
      BY <2>1, <2>3, <1>9, <1>10, <1>11, DeparterFacts, Zenon
    <3> QED  BY <3>1, <2>3, <1>1, <1>2
  <2>4. CASE g = a
    BY <2>1, <2>2, <2>4, <1>9, Zenon DEF Behaves, LeavesSo
  <2>5. CASE b = a
    <3>1. Departs(g) /\ Linked(g, a) /\ Stays(a) /\ Lasting(a, g)
      BY <2>1, <2>2, <2>5, <1>10, <1>11, Zenon DEF Behaves, StaysSo
    <3>2. Refused(a, session[g], silent[g], net[g][a], net[a][g])
      BY <3>1, DeparterFacts, Zenon
    <3>3. session'[g] = session[g] /\ silent'[g] = silent[g]
      BY <2>2, <2>5, <1>1
    <3> QED  BY <3>1, <3>2, <3>3, <2>5 DEF Refused, Lasting
  <2> QED  BY <2>3, <2>4, <2>5
<1> QED  BY <1>5, <1>6, <1>7, <1>8, <1>12, <1>13, Zenon DEF BesideInv

\* In a steady world
SteadyInv == Steady => BesideInv

LEMMA SteadyInit ==
  ASSUME Init, MigrationAssumption
  PROVE  SteadyInv
<1>1. FirstHost \in Seats
  BY WorldFacts DEF Init
<1>2. \A x \in Seats : /\ session[x].mode = IF x = FirstHost THEN "Host" ELSE "Normal"
                       /\ session[x].epoch = 0 /\ session[x].following = None
                          /\ ~session[x].proposed
  BY DEF Init, NewSession
<1>3. \A x, y \in Seats : net[x][y] = <<>> /\ silent[x] = {}
  BY DEF Init
<1>4. FirstHostInv /\ FirstEpoch /\ FreshInv /\ SilentInv
  BY <1>1, <1>2, <1>3 DEF FirstHostInv, FirstEpoch, FreshInv, Fresh, SilentInv
<1>5. LoyalInv
  BY <1>3 DEF LoyalInv, Loyal
<1>6. RefusedInv
  BY <1>2 DEF RefusedInv, Departs, Electing
<1> QED  BY <1>4, <1>5, <1>6, Zenon DEF SteadyInv, BesideInv

LEMMA SteadyStep ==
  ASSUME IInv, MigrationAssumption, SteadyInv, [Next]_vars
  PROVE  SteadyInv'
<1>1. CASE Next /\ Steady
  <2>1. BesideInv /\ world' = world
    BY <1>1, Zenon DEF SteadyInv, Next
  <2>2. PICK a \in Seats : Behaves(a) /\ Frame(a)
    BY <1>1, <2>1, OneBehaves, Zenon
  <2>3. BesideInv'
    BY <1>1, <2>1, <2>2, StepOK, BesideStep, Zenon
  <2> QED  BY <2>3, Zenon DEF SteadyInv
<1>2. CASE Next /\ ~Steady
  <2>1. Steady' = Steady
    BY <1>2, Zenon DEF Next, Steady
  <2> QED  BY <2>1, <1>2, Zenon DEF SteadyInv
<1>3. CASE UNCHANGED vars
  <2>1. SUFFICES ASSUME BesideInv
                 PROVE  BesideInv'
    BY <1>3, Zenon DEF vars, SteadyInv, Steady
  <2>2. PICK h \in Seats : h = FirstHost
    BY StateFacts, WorldFacts
  <2>3. session[h].mode = "Host"
    BY <2>1, <2>2 DEF BesideInv, FirstHostInv
  <2>4. world' = world /\ session' = session /\ silent' = silent /\ net' = net /\ open' = open
        /\ alive' = alive
    BY <1>3, Zenon DEF vars, state
  <2>5. Behaves(h)
    BY <2>1, <2>3, <2>4, HostBehaves, Zenon
  <2>6. Frame(h)
    BY <2>4, QuietFrame
  <2> QED  BY <2>1, <2>4, <2>5, <2>6, StepOK, BesideStep, Zenon
<1> QED  BY <1>1, <1>2, <1>3, Zenon

\* It holds of every state, if no time-out deceives.
THEOREM SteadyAlways == Spec => []SteadyInv
<1>1. Init => SteadyInv
  BY MigrationAssumption, SteadyInit, Zenon
<1>2. IInv /\ SteadyInv /\ [Next]_vars => SteadyInv'
  BY MigrationAssumption, SteadyStep, Zenon
<1> QED  BY <1>1, <1>2, Invariant, PTL DEF Spec

\* The guests of a match whose host lives: one that lost it, and whose time-outs do not deceive it,
\* does not become a host beside it while it reaches one that plays on with it.
THEOREM OneGame == Spec => NoHostBeside
<1>1. ASSUME IInv, MigrationAssumption, SteadyInv, Next
      PROVE  \A g \in Seats : \A b \in Seats \ {g} : Steady => ~TakesOverBeside(g, b, FirstHost)
  <2>1. SUFFICES ASSUME NEW g \in Seats, NEW b \in Seats \ {g}, Steady,
                        TakesOverBeside(g, b, FirstHost)
                 PROVE  FALSE
    BY Zenon
  <2>2. /\ session[g].mode # "Host" /\ session'[g].mode = "Host" /\ session[g].host = FirstHost
        /\ Stays(b) /\ Linked(g, b)
    BY <2>1, Zenon DEF TakesOverBeside, Stays
  <2>3. BesideInv
    BY <2>1, <1>1, Zenon DEF SteadyInv
  <2>4. PICK a \in Seats : Behaves(a) /\ Frame(a)
    BY <2>1, <2>3, <1>1, OneBehaves, Zenon
  <2>5. g = a
    BY <2>2, <2>4, Zenon DEF Frame
  <2>6. TakesSo(g)
    BY <2>4, <2>5, Zenon DEF Behaves
  <2> QED  BY <2>2, <2>6, Zenon DEF TakesSo
<1>2. ASSUME IInv, MigrationAssumption, SteadyInv, [Next]_vars
      PROVE  [\A g \in Seats : \A b \in Seats \ {g} : Steady => ~TakesOverBeside(g, b, FirstHost)]_vars
  BY <1>1, <1>2, Zenon
<1>3. IInv /\ SteadyInv /\ [Next]_vars
      => [\A g \in Seats : \A b \in Seats \ {g} : Steady => ~TakesOverBeside(g, b, FirstHost)]_vars
  BY <1>2, MigrationAssumption, Zenon
<1> QED  BY <1>3, SteadyAlways, Invariant, PTL DEF Spec, NoHostBeside
==============================================================================
