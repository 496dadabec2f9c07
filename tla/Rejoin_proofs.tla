---------------------------- MODULE Rejoin_proofs ----------------------------
(***************************************************************************)
(* What Rejoin promises, proved for every number of seats, machines,       *)
(* links, faults and deaths.  The invariant follows the links: what can be *)
(* on its way over one, seen from the machine at its end (AnyLine), and    *)
(* what the server knows when it takes a link for a player's (PlayerLine)  *)
(* or for that of somebody who is coming back (ComerLine).                 *)
(***************************************************************************)
EXTENDS Rejoin, SequenceTheorems, FiniteSetTheorems, TLAPS

SessionRecord ==
  [mode : {"Normal", "Reconnecting", "Rejoining", "CatchingUp", "Lost"},
   link : 0 .. MaxLinks, held : Seq(Lives), done : 0 .. MaxTurns, known : BOOLEAN,
   total : 0 .. MaxTurns, claimed : BOOLEAN,  why : Reasons \cup {"none"}]
LinkRecord ==
  [of : Machines, up : Seq(Messages), down : Seq(Messages),
   copen : BOOLEAN, sopen : BOOLEAN, cut : BOOLEAN]
TurnRecord == [drops : Seq(Seats), life : Lives]

Kinds(msgs) == {msgs[i].type : i \in DOMAIN msgs}

\* What a message may say: of the turns that there can be, or the record has if it keeps all
TurnsKnown == IF world.power THEN MaxTurns ELSE Len(log)
Sayable(x, top) ==
  /\ x.type = "Turn" => x.turn < top
  /\ x.type = "Batch" => x.first + Len(x.lives) <= top
  /\ x.type = "CatchUp" => x.first <= x.total /\ x.total <= top

\* What goes over a link k with the machine of session t at its end: nothing is said over it
\* before its Hello is heard; Start comes before CatchUp; turns come to who plays or has said
\* that he is back, and not before the word that he is
AnyLine(k, t, top) ==
  /\ ~k.copen => k.down = <<>>
  /\ k.up # <<>> => k.sopen
  /\ \A i \in DOMAIN k.up : k.up[i].type = "Hello" =>
       /\ i = 1 /\ k.down = <<>> /\ (k.copen => t.mode = "Rejoining")
       /\ \A j \in DOMAIN k.up : j # 1 => k.up[j].type = "Leave"
  /\ \A i \in DOMAIN k.down :
       k.down[i].type = "Start" => i = 1 \/ (i = 2 /\ k.down[1].type = "Welcome")
  /\ k.copen =>
       /\ t.known => "Start" \notin Kinds(k.down)
       /\ "Turn" \in Kinds(k.down) => t.mode = "Normal" \/ t.claimed
       /\ t.claimed /\ k.down # <<>> => k.down[1].type # "Turn"
  /\ \A i \in DOMAIN k.down : Sayable(k.down[i], top)

\* What is on its way to a player are the turns of L that he has not got
Coming(down, have, L) ==
  LET n == Len(L) - have
  IN /\ n \in 0 .. Len(down)
     /\ \A i \in DOMAIN down :
          /\ down[i].type = "Turn" <=> i > Len(down) - n
          /\ down[i].type = "Turn" => down[i].turn = Len(L) - 1 - (Len(down) - i)

\* The link of a player
PlayerLine(k, t, L) ==
  /\ k.sopen /\ "Hello" \notin Kinds(k.up)
  /\ \A i \in DOMAIN k.down : k.down[i].type = "Turn" =>
       k.down[i].turn < Len(L) /\ k.down[i].life = L[k.down[i].turn + 1].life
  /\ k.copen =>
       /\ t.mode = "Normal" \/ t.claimed
       /\ ~k.cut => Coming(k.down, Have(t), L) /\ (t.claimed => k.down # <<>>)

\* The link of r, who is coming back
ComerLine(k, t, r, L) ==
  /\ k.sopen /\ "Hello" \notin Kinds(k.up) /\ r.total = Len(L)
  /\ "Presence" \notin Kinds(k.down) /\ "Turn" \notin Kinds(k.down)
  /\ k.copen =>
       /\ r.verify => t.claimed /\ t.total = r.total
       /\ \A i \in DOMAIN k.up : k.up[i].type = "CaughtUp" => t.claimed /\ t.total = k.up[i].turns

SessionInv(t, top) ==
  /\ t.link = 0 <=> t.mode \in {"Lost", "Reconnecting"}
  /\ t.link # 0 /\ t.known => t.mode = "CatchingUp" /\ Have(t) <= t.total
  /\ t.link # 0 /\ t.claimed => t.known /\ Have(t) = t.total
  /\ t.mode = "Reconnecting" => ~t.known /\ ~t.claimed
  /\ Have(t) <= top

\* A machine has one link, which it has not closed
Sessions(s) == \A m \in Machines : SeatOf[m] = s =>
  /\ SessionInv(machine[m], TurnsKnown)
  /\ machine[m].link # 0 =>
       machine[m].link \in DOMAIN links /\ links[machine[m].link].of = m

Lines(s) == \A l \in DOMAIN links : SeatOf[links[l].of] = s =>
  /\ links[l].copen <=> machine[links[l].of].link = l
  /\ AnyLine(links[l], machine[links[l].of], TurnsKnown)

IsClient(s, l) == client[s] = l
IsComer(s, l) == \E r \in rejoiners : r.seat = s /\ r.link = l

Player(s) ==
  /\ client[s] # 0 <=> att[s] = "Present"
  /\ client[s] # 0 =>
       LET k == links[client[s]]
       IN /\ SeatOf[k.of] = s /\ PlayerLine(k, machine[k.of], log)
          /\ ~Stray(k.of)

Returns(s) ==
  /\ \A r \in rejoiners : r.seat = s =>
       LET k == links[r.link]
       IN /\ SeatOf[k.of] = s /\ ComerLine(k, machine[k.of], r, log)
          /\ att[s] = "CatchingUp"
  /\ \A q, r \in rejoiners : q.seat = s /\ r.seat = s => q = r
  /\ att[s] = "CatchingUp" => \E r \in rejoiners : r.seat = s

\* A link that the server has open is of one of them, or has its Hello to be read or lost
Unheard(k) == IF k.up = <<>> THEN k.cut ELSE k.up[1].type = "Hello"
Open(s) == \A l \in DOMAIN links : SeatOf[links[l].of] = s =>
  (links[l].sopen => IsClient(s, l) \/ IsComer(s, l) \/ Unheard(links[l]))

\* The machine that has said over l that it is back has got nothing over any other link since
Claims(s, l) ==
  \/ IsClient(s, l)
  \/ \E r \in rejoiners : r.seat = s /\ r.link = l /\ r.verify
  \/ "CaughtUp" \in Kinds(links[l].up)
Untold(t) == t.mode = "Rejoining" /\ Kinds(links[t.link].down) \subseteq {"Reject"}
Moved(s) == \A l \in DOMAIN links : SeatOf[links[l].of] = s =>
  (Claims(s, l) => LET t == machine[links[l].of] IN t.link \in {0, l} \/ Untold(t))

SeatInv(s) ==
  Sessions(s) /\ Lines(s) /\ Player(s) /\ Returns(s) /\ Open(s) /\ Moved(s)

\* A seat is dropped in one place
IsDropped(L, s) == \E k \in DOMAIN L : \E i \in DOMAIN L[k].drops : L[k].drops[i] = s
OnePlace(L) ==
  \A k, h \in DOMAIN L : \A i \in DOMAIN L[k].drops, j \in DOMAIN L[h].drops :
    L[k].drops[i] = L[h].drops[j] => k = h /\ i = j
DropsInv ==
  /\ \A s \in Seats : att[s] = "Dropped" <=> IsDropped(Sealed, s)
  /\ OnePlace(Sealed)

IInv ==
  /\ TypeOK /\ life <= deaths
  /\ \A s \in Seats : SeatInv(s)
  /\ DropsInv
------------------------------------------------------------------------------
(* Sequences of messages *)

\* A sequence without its first message.
LEMMA TailFacts ==
  ASSUME NEW S, NEW q \in Seq(S), q # <<>>
  PROVE  /\ Head(q) = q[1] /\ Head(q) \in S /\ 1 \in DOMAIN q
         /\ Tail(q) \in Seq(S) /\ Len(Tail(q)) = Len(q) - 1 /\ Len(q) \in Nat \ {0}
         /\ \A i \in DOMAIN Tail(q) : i + 1 \in DOMAIN q /\ Tail(q)[i] = q[i + 1]
         /\ Kinds(Tail(q)) \subseteq Kinds(q)
         /\ Head(q).type \in Kinds(q)
<1>1. Len(q) \in Nat \ {0} /\ DOMAIN q = 1 .. Len(q)
  BY EmptySeq
<1>2. Head(q) = q[1] /\ Head(q) \in S /\ 1 \in DOMAIN q
  BY <1>1
<1>3. Tail(q) \in Seq(S) /\ Len(Tail(q)) = Len(q) - 1
  BY <1>1
<1>4. \A i \in DOMAIN Tail(q) : i + 1 \in DOMAIN q /\ Tail(q)[i] = q[i + 1]
  BY <1>1
<1> QED  BY <1>1, <1>2, <1>3, <1>4 DEF Kinds

\* Messages that are said after others.
LEMMA ConcatFacts ==
  ASSUME NEW S, NEW q \in Seq(S), NEW r \in Seq(S)
  PROVE  /\ q \o r \in Seq(S) /\ Len(q \o r) = Len(q) + Len(r)
         /\ DOMAIN q = 1 .. Len(q) /\ DOMAIN r = 1 .. Len(r)
         /\ DOMAIN (q \o r) = 1 .. (Len(q) + Len(r))
         /\ \A i \in 1 .. Len(q) : (q \o r)[i] = q[i]
         /\ \A i \in 1 .. Len(r) : (q \o r)[Len(q) + i] = r[i]
         /\ \A i \in 1 .. (Len(q) + Len(r)) :
              \/ i \in 1 .. Len(q) /\ (q \o r)[i] = q[i]
              \/ i > Len(q) /\ i - Len(q) \in 1 .. Len(r) /\ (q \o r)[i] = r[i - Len(q)]
<1>1. Len(q) \in Nat /\ Len(r) \in Nat
  OBVIOUS
<1> QED  BY <1>1

\* What is said is what was said and what is said after it.
LEMMA ConcatKinds ==
  ASSUME NEW S, NEW q \in Seq(S), NEW r \in Seq(S)
  PROVE  Kinds(q \o r) = Kinds(q) \cup Kinds(r)
<1> DEFINE c == q \o r
<1>1. DOMAIN q = 1 .. Len(q) /\ DOMAIN r = 1 .. Len(r) /\ DOMAIN c = 1 .. (Len(q) + Len(r))
  BY ConcatFacts
<1>2. Len(q) \in Nat /\ Len(r) \in Nat
  OBVIOUS
<1>3. \A i \in DOMAIN q : i \in DOMAIN c /\ c[i] = q[i]
  BY <1>1, <1>2, ConcatFacts
<1>4. \A i \in DOMAIN r : Len(q) + i \in DOMAIN c /\ c[Len(q) + i] = r[i]
  BY <1>1, <1>2, ConcatFacts
<1>5. \A i \in DOMAIN c : \/ i \in DOMAIN q /\ c[i] = q[i]
                          \/ i - Len(q) \in DOMAIN r /\ c[i] = r[i - Len(q)]
  BY <1>1, <1>2, ConcatFacts
<1> HIDE DEF c
<1>6. Kinds(c) = Kinds(q) \cup Kinds(r)
  <2>1. Kinds(q) \subseteq Kinds(c)
    BY <1>3 DEF Kinds
  <2>2. Kinds(r) \subseteq Kinds(c)
    BY <1>4 DEF Kinds
  <2>3. Kinds(c) \subseteq Kinds(q) \cup Kinds(r)
    BY <1>5 DEF Kinds
  <2> QED  BY <2>1, <2>2, <2>3
<1> QED  BY <1>6 DEF c

\* One message, or two.
LEMMA FewKinds ==
  /\ \A x : Kinds(<<x>>) = {x.type} /\ Len(<<x>>) = 1 /\ <<x>>[1] = x
  /\ \A x, y : Kinds(<<x, y>>) = {x.type, y.type} /\ Len(<<x, y>>) = 2
               /\ <<x, y>>[1] = x /\ <<x, y>>[2] = y
  /\ Kinds(<<>>) = {}
<1>1. ASSUME NEW x  PROVE Kinds(<<x>>) = {x.type} /\ Len(<<x>>) = 1 /\ <<x>>[1] = x
  BY DEF Kinds
<1>2. ASSUME NEW x, NEW y
      PROVE  /\ Kinds(<<x, y>>) = {x.type, y.type} /\ Len(<<x, y>>) = 2
             /\ <<x, y>>[1] = x /\ <<x, y>>[2] = y
  <2>1. DOMAIN <<x, y>> = {1, 2}
    OBVIOUS
  <2>2. <<x, y>>[1] = x /\ <<x, y>>[2] = y
    OBVIOUS
  <2> QED  BY <2>1, <2>2 DEF Kinds
<1>3. Kinds(<<>>) = {}
  BY DEF Kinds
<1> QED  BY <1>1, <1>2, <1>3

\* Of what is on its way some arrives.
LEMMA SubSeqFacts ==
  ASSUME NEW S, NEW q \in Seq(S), NEW n \in 0 .. Len(q)
  PROVE  /\ SubSeq(q, 1, n) \in Seq(S) /\ Len(SubSeq(q, 1, n)) = n
         /\ DOMAIN SubSeq(q, 1, n) = 1 .. n
         /\ \A i \in 1 .. n : SubSeq(q, 1, n)[i] = q[i] /\ i \in DOMAIN q
         /\ Kinds(SubSeq(q, 1, n)) \subseteq Kinds(q)
<1>1. Len(q) \in Nat /\ DOMAIN q = 1 .. Len(q)
  OBVIOUS
<1>2. SubSeq(q, 1, n) \in Seq(S) /\ Len(SubSeq(q, 1, n)) = n
  BY <1>1
<1>3. DOMAIN SubSeq(q, 1, n) = 1 .. n /\ \A i \in 1 .. n : SubSeq(q, 1, n)[i] = q[i] /\ i \in DOMAIN q
  BY <1>1, <1>2
<1> QED  BY <1>2, <1>3 DEF Kinds

\* What a message has, by its type.
LEMMA MessageFields ==
  ASSUME NEW x \in Messages
  PROVE  /\ x.type = "Hello" => x.have \in Nat
         /\ x.type = "Loaded" => x.ok \in BOOLEAN
         /\ x.type = "Ack" => x.turns \in Nat
         /\ x.type = "CaughtUp" => x.turns \in Nat
         /\ x.type = "CatchUp" => x.first \in Nat /\ x.total \in Nat
         /\ x.type = "Batch" => x.first \in Nat /\ x.lives \in Seq(Lives)
         /\ x.type = "Turn" => x.turn \in Nat /\ x.life \in Lives
         /\ x.type = "Reject" => x.why \in Reasons
BY DEF Messages

\* The messages that there are.
LEMMA MessageKinds ==
  /\ \A n \in Nat : [type |-> "Hello", have |-> n] \in Messages
  /\ \A b \in BOOLEAN : [type |-> "Loaded", ok |-> b] \in Messages
  /\ \A n \in Nat : [type |-> "Ack", turns |-> n] \in Messages
  /\ \A n \in Nat : [type |-> "CaughtUp", turns |-> n] \in Messages
  /\ \A k \in {"Leave", "Welcome", "Start", "Presence", "Desync"} : [type |-> k] \in Messages
  /\ \A a, b \in Nat : [type |-> "CatchUp", first |-> a, total |-> b] \in Messages
  /\ \A a \in Nat : \A q \in Seq(Lives) : [type |-> "Batch", first |-> a, lives |-> q] \in Messages
  /\ \A a \in Nat : \A i \in Lives : [type |-> "Turn", turn |-> a, life |-> i] \in Messages
  /\ \A y \in Reasons : [type |-> "Reject", why |-> y] \in Messages
BY DEF Messages
------------------------------------------------------------------------------
(* One link *)

ToldLine(k, msgs) == IF Carries(k) THEN [k EXCEPT !.down = @ \o msgs] ELSE k
ShutLine(k) == [k EXCEPT !.sopen = FALSE, !.up = <<>>]
HeardLine(k) == [k EXCEPT !.up = Tail(@)]

\* What a link has.
LEMMA LinkFields ==
  ASSUME NEW k \in LinkRecord
  PROVE  /\ k.of \in Machines /\ k.up \in Seq(Messages) /\ k.down \in Seq(Messages)
         /\ k.copen \in BOOLEAN /\ k.sopen \in BOOLEAN /\ k.cut \in BOOLEAN
BY DEF LinkRecord

\* A link over which the server says something.
LEMMA ToldFields ==
  ASSUME NEW k \in LinkRecord, NEW msgs \in Seq(Messages)
  PROVE  LET c == ToldLine(k, msgs)
         IN /\ c \in LinkRecord
            /\ c.of = k.of /\ c.up = k.up /\ (c.copen <=> k.copen) /\ (c.sopen <=> k.sopen)
            /\ c.cut <=> k.cut
            /\ Carries(k) => c.down = k.down \o msgs
            /\ ~Carries(k) => c.down = k.down
<1> DEFINE c == ToldLine(k, msgs)
<1>1. CASE Carries(k)
  <2>1. c = [k EXCEPT !.down = k.down \o msgs]
    BY <1>1 DEF ToldLine
  <2>2. k.down \o msgs \in Seq(Messages)
    BY LinkFields, ConcatFacts
  <2> QED  BY <1>1, <2>1, <2>2, Zenon DEF LinkRecord
<1>2. CASE ~Carries(k)
  BY <1>2 DEF ToldLine
<1> QED  BY <1>1, <1>2

\* A link that the server closes.
LEMMA ShutFields ==
  ASSUME NEW k \in LinkRecord
  PROVE  LET c == ShutLine(k)
         IN /\ c \in LinkRecord
            /\ c.of = k.of /\ c.up = <<>> /\ (c.copen <=> k.copen) /\ ~c.sopen
            /\ c.cut <=> k.cut
            /\ c.down = k.down
<1>1. <<>> \in Seq(Messages)
  OBVIOUS
<1> QED  BY <1>1, Zenon DEF ShutLine, LinkRecord

\* A link of which the server reads a message.
LEMMA HeardFields ==
  ASSUME NEW k \in LinkRecord, k.up # <<>>
  PROVE  LET c == HeardLine(k)
         IN /\ c \in LinkRecord
            /\ c.of = k.of /\ c.up = Tail(k.up) /\ (c.copen <=> k.copen) /\ (c.sopen <=> k.sopen)
            /\ c.cut <=> k.cut
            /\ c.down = k.down
            /\ Kinds(c.up) \subseteq Kinds(k.up)
<1>1. Tail(k.up) \in Seq(Messages) /\ Kinds(Tail(k.up)) \subseteq Kinds(k.up)
  BY LinkFields, TailFacts
<1> QED  BY <1>1 DEF HeardLine, LinkRecord

\* A link that is closed stays in order.
LEMMA AnyShut ==
  ASSUME NEW k \in LinkRecord, NEW t, NEW top, AnyLine(k, t, top)
  PROVE  AnyLine(ShutLine(k), t, top)
BY ShutFields DEF AnyLine

\* So does one of which a message is read: the Hello is the first one.
LEMMA AnyHeard ==
  ASSUME NEW k \in LinkRecord, NEW t, NEW top, AnyLine(k, t, top), k.up # <<>>
  PROVE  AnyLine(HeardLine(k), t, top) /\ "Hello" \notin Kinds(HeardLine(k).up)
<1> DEFINE c == HeardLine(k)
<1>1. /\ c.up = Tail(k.up) /\ c.down = k.down /\ (c.copen <=> k.copen) /\ (c.sopen <=> k.sopen)
  BY HeardFields
<1>2. \A i \in DOMAIN c.up : i \in Nat \ {0} /\ i + 1 \in DOMAIN k.up /\ c.up[i] = k.up[i + 1]
  BY <1>1, TailFacts, LinkFields
<1> HIDE DEF c
<1>3. \A i \in DOMAIN c.up : c.up[i].type # "Hello"
  BY <1>2 DEF AnyLine
<1>4. c.up # <<>> => c.sopen
  BY <1>1 DEF AnyLine
<1>5. AnyLine(c, t, top)
  BY <1>1, <1>3, <1>4 DEF AnyLine
<1> QED  BY <1>3, <1>5 DEF c, Kinds

\* And one over which the server says what it may say there.
LEMMA AnyTold ==
  ASSUME NEW k \in LinkRecord, NEW t, NEW top, AnyLine(k, t, top), NEW msgs \in Seq(Messages),
         msgs # <<>>, "Hello" \notin Kinds(k.up),
         \/ "Start" \notin Kinds(msgs)
         \/ /\ k.down = <<>> /\ Len(msgs) = 2 /\ msgs[1].type = "Welcome"
            /\ k.copen => ~t.known,
         "Turn" \in Kinds(msgs) /\ k.copen => t.mode = "Normal" \/ t.claimed,
         k.copen /\ t.claimed /\ k.down = <<>> => msgs[1].type # "Turn",
         \A i \in DOMAIN msgs : Sayable(msgs[i], top)
  PROVE  AnyLine(ToldLine(k, msgs), t, top)
<1> DEFINE c == ToldLine(k, msgs)
<1>1. CASE ~Carries(k)
  BY <1>1 DEF ToldLine
<1>2. CASE Carries(k)
  <2>1. /\ c.up = k.up /\ c.down = k.down \o msgs /\ (c.copen <=> k.copen) /\ (c.sopen <=> k.sopen)
        /\ k.copen
    BY <1>2, ToldFields DEF Carries
  <2>2. /\ k.down \in Seq(Messages) /\ Len(k.down) \in Nat /\ Len(msgs) \in Nat \ {0}
        /\ DOMAIN k.down = 1 .. Len(k.down) /\ DOMAIN msgs = 1 .. Len(msgs)
    BY LinkFields, EmptySeq
  <2>3. /\ DOMAIN c.down = 1 .. (Len(k.down) + Len(msgs))
        /\ \A i \in DOMAIN k.down : c.down[i] = k.down[i]
        /\ \A i \in DOMAIN msgs : c.down[Len(k.down) + i] = msgs[i]
        /\ \A i \in DOMAIN c.down :
              \/ i \in DOMAIN k.down /\ c.down[i] = k.down[i]
              \/ /\ i > Len(k.down) /\ i - Len(k.down) \in DOMAIN msgs
                 /\ c.down[i] = msgs[i - Len(k.down)]
    BY <2>1, <2>2, ConcatFacts, SMTT(40)
  <2>4. Kinds(c.down) = Kinds(k.down) \cup Kinds(msgs)
    BY <2>1, <2>2, ConcatKinds
  <2> HIDE DEF c
  <2>5. \A i \in DOMAIN c.up : c.up[i].type # "Hello"
    BY <2>1 DEF Kinds
  <2>6. ASSUME NEW i \in DOMAIN c.down, c.down[i].type = "Start"
        PROVE  i = 1 \/ (i = 2 /\ c.down[1].type = "Welcome")
    <3>1. CASE i \in DOMAIN k.down /\ c.down[i] = k.down[i]
      <4>1. 1 \in DOMAIN k.down
        BY <3>1, <2>2
      <4> QED  BY <3>1, <4>1, <2>3, <2>6 DEF AnyLine
    <3>2. CASE /\ i > Len(k.down) /\ i - Len(k.down) \in DOMAIN msgs
               /\ c.down[i] = msgs[i - Len(k.down)]
      <4>1. "Start" \in Kinds(msgs)
        BY <3>2, <2>6 DEF Kinds
      <4>2. k.down = <<>> /\ Len(msgs) = 2 /\ msgs[1].type = "Welcome"
        BY <4>1
      <4>3. Len(k.down) = 0
        BY <4>2
      <4>4. i \in 1 .. 2 /\ c.down[1] = msgs[1]
        BY <3>2, <4>2, <4>3, <2>2, <2>3
      <4> QED  BY <4>2, <4>4
    <3> QED  BY <3>1, <3>2, <2>3
  <2>7. t.known => "Start" \notin Kinds(c.down)
    BY <2>1, <2>4 DEF AnyLine
  <2>8. "Turn" \in Kinds(c.down) => t.mode = "Normal" \/ t.claimed
    BY <2>1, <2>4 DEF AnyLine
  <2>9. t.claimed => c.down[1].type # "Turn"
    <3>1. CASE k.down = <<>>
      <4>1. Len(k.down) = 0 /\ 1 \in DOMAIN msgs
        BY <3>1, <2>2
      <4>2. c.down[1] = msgs[1]
        BY <4>1, <2>3
      <4> QED  BY <4>2, <3>1, <2>1
    <3>2. CASE k.down # <<>>
      <4>1. 1 \in DOMAIN k.down
        BY <3>2, <2>2, EmptySeq
      <4> QED  BY <4>1, <3>2, <2>1, <2>3 DEF AnyLine
    <3> QED  BY <3>1, <3>2
  <2>10. \A i \in DOMAIN c.down : Sayable(c.down[i], top)
    BY <2>3 DEF AnyLine
  <2>11. c.up # <<>> => c.sopen
    BY <2>1 DEF AnyLine
  <2>12. AnyLine(c, t, top)
    BY <2>1, <2>5, <2>6, <2>7, <2>8, <2>9, <2>10, <2>11 DEF AnyLine
  <2> QED  BY <2>12 DEF c
<1> QED  BY <1>1, <1>2

\* A player's link of which a message is read is still that.
LEMMA PlayerHeard ==
  ASSUME NEW k \in LinkRecord, NEW t, NEW L, PlayerLine(k, t, L), k.up # <<>>
  PROVE  PlayerLine(HeardLine(k), t, L)
<1> DEFINE c == HeardLine(k)
<1>1. /\ c.down = k.down /\ (c.copen <=> k.copen) /\ (c.sopen <=> k.sopen)
      /\ (c.cut <=> k.cut) /\ Kinds(c.up) \subseteq Kinds(k.up)
  BY HeardFields
<1> HIDE DEF c
<1>2. PlayerLine(c, t, L)
  BY <1>1 DEF PlayerLine
<1> QED  BY <1>2 DEF c

\* So is the link of somebody who is coming back.
LEMMA ComerHeard ==
  ASSUME NEW k \in LinkRecord, NEW t, NEW r, NEW L, ComerLine(k, t, r, L), k.up # <<>>
  PROVE  ComerLine(HeardLine(k), t, r, L)
<1> DEFINE c == HeardLine(k)
<1>1. /\ c.down = k.down /\ (c.copen <=> k.copen) /\ (c.sopen <=> k.sopen)
      /\ c.up = Tail(k.up) /\ Kinds(c.up) \subseteq Kinds(k.up)
  BY HeardFields
<1>2. \A i \in DOMAIN c.up : i + 1 \in DOMAIN k.up /\ c.up[i] = k.up[i + 1]
  BY <1>1, TailFacts, LinkFields
<1> HIDE DEF c
<1>3. ComerLine(c, t, r, L)
  BY <1>1, <1>2 DEF ComerLine
<1> QED  BY <1>3 DEF c

\* He may be told everything but turns and that he is back.
LEMMA ComerTold ==
  ASSUME NEW k \in LinkRecord, NEW t, NEW r, NEW L, ComerLine(k, t, r, L),
         NEW msgs \in Seq(Messages), "Presence" \notin Kinds(msgs), "Turn" \notin Kinds(msgs)
  PROVE  ComerLine(ToldLine(k, msgs), t, r, L)
<1> DEFINE c == ToldLine(k, msgs)
<1>1. /\ c.up = k.up /\ (c.copen <=> k.copen) /\ (c.sopen <=> k.sopen)
      /\ c.down = k.down \/ c.down = k.down \o msgs
  BY ToldFields
<1>2. Kinds(c.down) \subseteq Kinds(k.down) \cup Kinds(msgs)
  <2>1. Kinds(k.down \o msgs) = Kinds(k.down) \cup Kinds(msgs)
    BY ConcatKinds, LinkFields
  <2> HIDE DEF c
  <2> QED  BY <1>1, <2>1, Zenon
<1> HIDE DEF c
<1>3. ComerLine(c, t, r, L)
  BY <1>1, <1>2 DEF ComerLine
<1> QED  BY <1>3 DEF c

\* Over the links, one by one.
LEMMA ToldLinks ==
  ASSUME NEW L \in Seq(LinkRecord), NEW S, NEW msgs \in Seq(Messages)
  PROVE  /\ Told(L, S, msgs) \in Seq(LinkRecord) /\ Len(Told(L, S, msgs)) = Len(L)
         /\ DOMAIN Told(L, S, msgs) = DOMAIN L
         /\ \A l \in DOMAIN L :
              /\ l \in S => Told(L, S, msgs)[l] = ToldLine(L[l], msgs)
              /\ l \notin S => Told(L, S, msgs)[l] = L[l]
<1> DEFINE c == Told(L, S, msgs)
<1>1. DOMAIN L = 1 .. Len(L) /\ Len(L) \in Nat
  OBVIOUS
<1>2. \A l \in DOMAIN L : /\ l \in S => c[l] = ToldLine(L[l], msgs)
                          /\ l \notin S => c[l] = L[l]
  BY DEF Told, ToldLine
<1>3. DOMAIN c = DOMAIN L
  BY DEF Told
<1>4. \A l \in DOMAIN L : L[l] \in LinkRecord
  BY <1>1
<1>5. \A l \in DOMAIN L : ToldLine(L[l], msgs) \in LinkRecord
  BY <1>4, ToldFields
<1>6. \A l \in DOMAIN L : c[l] \in LinkRecord
  BY <1>2, <1>4, <1>5
<1>7. c = [l \in 1 .. Len(L) |-> c[l]]
  BY <1>1, <1>3 DEF Told
<1> HIDE DEF c
<1>8. c \in Seq(LinkRecord) /\ Len(c) = Len(L)
  BY <1>1, <1>3, <1>6, <1>7
<1> QED  BY <1>2, <1>3, <1>8 DEF c

\* Links that the server closes.
LEMMA ShutLinks ==
  ASSUME NEW L \in Seq(LinkRecord), NEW S
  PROVE  /\ Shut(L, S) \in Seq(LinkRecord) /\ Len(Shut(L, S)) = Len(L)
         /\ DOMAIN Shut(L, S) = DOMAIN L
         /\ \A l \in DOMAIN L :
              /\ l \in S => Shut(L, S)[l] = ShutLine(L[l])
              /\ l \notin S => Shut(L, S)[l] = L[l]
<1> DEFINE c == Shut(L, S)
<1>1. DOMAIN L = 1 .. Len(L) /\ Len(L) \in Nat
  OBVIOUS
<1>2. \A l \in DOMAIN L : /\ l \in S => c[l] = ShutLine(L[l])
                          /\ l \notin S => c[l] = L[l]
  BY DEF Shut, ShutLine
<1>3. DOMAIN c = DOMAIN L
  BY DEF Shut
<1>4. \A l \in DOMAIN L : L[l] \in LinkRecord
  BY <1>1
<1>5. \A l \in DOMAIN L : ShutLine(L[l]) \in LinkRecord
  BY <1>4, ShutFields
<1>6. \A l \in DOMAIN L : c[l] \in LinkRecord
  BY <1>2, <1>4, <1>5
<1>7. c = [l \in 1 .. Len(L) |-> c[l]]
  BY <1>1, <1>3 DEF Shut
<1> HIDE DEF c
<1>8. c \in Seq(LinkRecord) /\ Len(c) = Len(L)
  BY <1>1, <1>3, <1>6, <1>7
<1> QED  BY <1>2, <1>3, <1>8 DEF c

RejectLine(k, why) == ShutLine(ToldLine(k, <<[type |-> "Reject", why |-> why]>>))

\* Links whose machines are rejected.
LEMMA DismissedLinks ==
  ASSUME NEW L \in Seq(LinkRecord), NEW S, NEW why \in Reasons
  PROVE  /\ Dismissed(L, S, why) \in Seq(LinkRecord) /\ Len(Dismissed(L, S, why)) = Len(L)
         /\ DOMAIN Dismissed(L, S, why) = DOMAIN L
         /\ \A l \in DOMAIN L :
              /\ l \in S => Dismissed(L, S, why)[l] = RejectLine(L[l], why)
              /\ l \notin S => Dismissed(L, S, why)[l] = L[l]
<1> DEFINE msgs == <<[type |-> "Reject", why |-> why]>>
           T == Told(L, S, msgs)
<1>1. msgs \in Seq(Messages)
  BY MessageKinds
<1> HIDE DEF msgs
<1>2. /\ T \in Seq(LinkRecord) /\ Len(T) = Len(L) /\ DOMAIN T = DOMAIN L
      /\ \A l \in DOMAIN L : /\ l \in S => T[l] = ToldLine(L[l], msgs)
                             /\ l \notin S => T[l] = L[l]
  BY <1>1, ToldLinks
<1>3. Dismissed(L, S, why) = Shut(T, S)
  BY DEF Dismissed, msgs
<1> HIDE DEF T
<1>4. /\ Shut(T, S) \in Seq(LinkRecord) /\ Len(Shut(T, S)) = Len(T)
      /\ DOMAIN Shut(T, S) = DOMAIN T
      /\ \A l \in DOMAIN T : /\ l \in S => Shut(T, S)[l] = ShutLine(T[l])
                             /\ l \notin S => Shut(T, S)[l] = T[l]
  BY <1>2, ShutLinks
<1> QED  BY <1>2, <1>3, <1>4 DEF RejectLine, msgs

\* A link of which the server reads.
LEMMA HeardLinks ==
  ASSUME NEW L \in Seq(LinkRecord), NEW l \in DOMAIN L, L[l].up # <<>>
  PROVE  /\ Read(L, l, "up") \in Seq(LinkRecord) /\ Len(Read(L, l, "up")) = Len(L)
         /\ DOMAIN Read(L, l, "up") = DOMAIN L
         /\ Read(L, l, "up")[l] = HeardLine(L[l])
         /\ \A x \in DOMAIN L : x # l => Read(L, l, "up")[x] = L[x]
<1> DEFINE c == Read(L, l, "up")
<1>1. DOMAIN L = 1 .. Len(L) /\ Len(L) \in Nat /\ L[l] \in LinkRecord
  OBVIOUS
<1>2. HeardLine(L[l]) \in LinkRecord
  BY <1>1, HeardFields
<1>3. c = [L EXCEPT ![l] = HeardLine(L[l])]
  BY DEF Read, HeardLine
<1> QED  BY <1>1, <1>2, <1>3

\* A link whose machine is rejected.
LEMMA RejectFields ==
  ASSUME NEW k \in LinkRecord, NEW why \in Reasons
  PROVE  LET c == RejectLine(k, why)
         IN /\ c \in LinkRecord
            /\ c.of = k.of /\ c.up = <<>> /\ (c.copen <=> k.copen) /\ ~c.sopen
            /\ Kinds(c.down) \subseteq Kinds(k.down) \cup {"Reject"}
<1> DEFINE msgs == <<[type |-> "Reject", why |-> why]>>
           d == ToldLine(k, msgs)
<1>1. msgs \in Seq(Messages) /\ Kinds(msgs) = {"Reject"}
  BY MessageKinds, FewKinds
<1> HIDE DEF msgs
<1>2. d \in LinkRecord /\ d.of = k.of /\ (d.copen <=> k.copen)
      /\ (d.down = k.down \/ d.down = k.down \o msgs)
  BY <1>1, ToldFields
<1>3. Kinds(d.down) \subseteq Kinds(k.down) \cup {"Reject"}
  <2>1. Kinds(k.down \o msgs) = Kinds(k.down) \cup Kinds(msgs)
    BY <1>1, ConcatKinds, LinkFields
  <2> HIDE DEF d
  <2> QED  BY <1>1, <1>2, <2>1, Zenon
<1> HIDE DEF d
<1> QED  BY <1>2, <1>3, ShutFields DEF RejectLine, d, msgs

\* A rejected link is in order, if its Hello was read.
LEMMA AnyRejected ==
  ASSUME NEW k \in LinkRecord, NEW t, NEW top, AnyLine(k, t, top), NEW why \in Reasons,
         "Hello" \notin Kinds(k.up)
  PROVE  AnyLine(RejectLine(k, why), t, top)
<1> DEFINE x == [type |-> "Reject", why |-> why]
           msgs == <<x>>
<1>1. msgs \in Seq(Messages) /\ Kinds(msgs) = {"Reject"} /\ msgs # <<>> /\ msgs[1] = x
      /\ DOMAIN msgs = {1}
  BY MessageKinds, FewKinds
<1>2. Sayable(x, top) /\ x.type = "Reject"
  BY DEF Sayable
<1> HIDE DEF msgs, x
<1>3. AnyLine(ToldLine(k, msgs), t, top)
  BY <1>1, <1>2, AnyTold
<1>4. ToldLine(k, msgs) \in LinkRecord
  BY <1>1, ToldFields
<1> QED  BY <1>3, <1>4, AnyShut DEF RejectLine, msgs, x
------------------------------------------------------------------------------
(* One seat at a time *)

\* The world stays what it is.
LEMMA SameWorld ==
  ASSUME world' = world
  PROVE  /\ Lives' = Lives /\ MaxLinks' = MaxLinks /\ MaxFaults' = MaxFaults
         /\ LogLimit' = LogLimit /\ Messages' = Messages
         /\ LinkRecord' = LinkRecord /\ SessionRecord' = SessionRecord
         /\ TurnRecord' = TurnRecord
         /\ (log' = log => TurnsKnown' = TurnsKnown)
<1>1. Lives' = Lives /\ MaxLinks' = MaxLinks /\ MaxFaults' = MaxFaults /\ LogLimit' = LogLimit
  BY DEF Lives, MaxLinks, MaxFaults, LogLimit
<1>2. Messages' = Messages /\ TurnRecord' = TurnRecord
  BY <1>1 DEF Messages, TurnRecord
<1>3. SessionRecord' = SessionRecord
  BY <1>1 DEF SessionRecord
<1>4. LinkRecord' = LinkRecord
  BY <1>2 DEF LinkRecord
<1>5. log' = log => TurnsKnown' = TurnsKnown
  BY DEF TurnsKnown
<1> QED  BY <1>1, <1>2, <1>3, <1>4, <1>5

\* A step that is about seat s alone.
About(s) ==
  /\ world' = world /\ log' = log
  /\ DOMAIN links \subseteq DOMAIN links'
  /\ \A l \in DOMAIN links :
       /\ links'[l].of = links[l].of
       /\ SeatOf[links[l].of] # s => links'[l] = links[l]
  /\ \A l \in DOMAIN links' : l \notin DOMAIN links => SeatOf[links'[l].of] = s
  /\ \A m \in Machines : SeatOf[m] # s => machine'[m] = machine[m]
  /\ \A t \in Seats : t # s => client'[t] = client[t] /\ att'[t] = att[t]
  /\ \A r : r.seat # s => (r \in rejoiners' <=> r \in rejoiners)

\* The types of what the invariant is about.
Typed ==
  /\ links \in Seq(LinkRecord) /\ machine \in [Machines -> SessionRecord]
  /\ \A m \in Machines : machine[m].done <= Have(machine[m])
  /\ client \in [Seats -> 0 .. Len(links)]
  /\ att \in [Seats -> {"Present", "Absent", "CatchingUp", "Dropped"}]
  /\ \A r \in rejoiners :
       /\ r \in [link : DOMAIN links, seat : Seats, total : 0 .. MaxTurns, next : 0 .. MaxTurns,
                 acked : 0 .. MaxTurns, loading : BOOLEAN, verify : BOOLEAN]
       /\ r.acked <= r.next /\ r.next <= r.total

\* They are part of the type invariant.
LEMMA TypedHere == TypeOK => Typed
<1> SUFFICES ASSUME TypeOK PROVE Typed
  OBVIOUS
<1>1. links \in Seq(LinkRecord)
  BY DEF TypeOK, LinkRecord
<1>2. machine \in [Machines -> SessionRecord]
  BY DEF TypeOK, SessionRecord
<1>3. \A m \in Machines : machine[m].done <= Have(machine[m])
  BY DEF TypeOK
<1> QED  BY <1>1, <1>2, <1>3 DEF TypeOK, Typed

\* What holds of the other seats still holds of them.
LEMMA OtherSeats ==
  ASSUME Typed, RejoinAssumption, NEW s \in Seats, About(s), NEW t \in Seats, t # s, SeatInv(t)
  PROVE  SeatInv(t)'
<1> USE DEF SeatInv
<1>1. /\ world' = world /\ log' = log /\ TurnsKnown' = TurnsKnown
      /\ client'[t] = client[t] /\ att'[t] = att[t]
  BY SameWorld DEF About
<1>2. \A m \in Machines : SeatOf[m] = t => machine'[m] = machine[m]
  BY DEF About
<1>3. \A l \in DOMAIN links : l \in DOMAIN links' /\ links'[l].of = links[l].of
                              /\ links[l].of \in Machines
  BY LinkFields DEF About, Typed
<1>4. \A l \in DOMAIN links : SeatOf[links[l].of] = t => links'[l] = links[l]
  BY DEF About
<1>5. \A l \in DOMAIN links' : SeatOf[links'[l].of] = t =>
        /\ l \in DOMAIN links /\ links'[l] = links[l] /\ links[l].of \in Machines
        /\ SeatOf[links[l].of] = t /\ machine'[links[l].of] = machine[links[l].of]
  BY <1>2, <1>3, <1>4 DEF About
<1>6. \A r : r.seat = t => (r \in rejoiners' <=> r \in rejoiners)
  BY DEF About
<1>7. \A m \in Machines : SeatOf[m] = t /\ machine[m].link # 0 =>
        /\ machine[m].link \in DOMAIN links /\ links[machine[m].link].of = m
        /\ links'[machine[m].link] = links[machine[m].link]
  BY <1>4 DEF Sessions
<1>8. Sessions(t)'
  BY <1>1, <1>2, <1>3, <1>7 DEF Sessions
<1>9. Lines(t)'
  BY <1>1, <1>5 DEF Lines
<1>10. Player(t)'
  <2>1. ASSUME client[t] # 0
        PROVE  LET k == links[client[t]]
               IN /\ links'[client[t]] = k /\ SeatOf[k.of] = t /\ PlayerLine(k, machine[k.of], log)
                  /\ machine'[k.of] = machine[k.of] /\ ~Stray(k.of)
    <3>1. client[t] \in DOMAIN links
      BY <2>1 DEF Typed
    <3>2. SeatOf[links[client[t]].of] = t
      BY <2>1 DEF Player
    <3> QED  BY <2>1, <3>1, <3>2, <1>2, <1>3, <1>4 DEF Player
  <2>2. client[t] # 0 => ~Stray(links[client[t]].of)'
    BY <1>1, <2>1 DEF Stray
  <2> QED  BY <1>1, <2>1, <2>2 DEF Player
<1>11. Returns(t)'
  <2>1. ASSUME NEW r \in rejoiners, r.seat = t
        PROVE  LET k == links[r.link]
               IN links'[r.link] = k /\ machine'[k.of] = machine[k.of]
    <3>1. r.link \in DOMAIN links /\ SeatOf[links[r.link].of] = t
      BY <2>1 DEF Typed, Returns
    <3> QED  BY <3>1, <1>2, <1>3, <1>4
  <2> QED  BY <1>1, <1>6, <2>1 DEF Returns
<1>12. \A l : (IsClient(t, l)' <=> IsClient(t, l)) /\ (IsComer(t, l)' <=> IsComer(t, l))
  BY <1>1, <1>6 DEF IsClient, IsComer
<1>13. Open(t)'
  BY <1>5, <1>12 DEF Open
<1>14. Moved(t)'
  <2>1. \A l \in DOMAIN links : SeatOf[links[l].of] = t => (Claims(t, l)' <=> Claims(t, l))
    BY <1>4, <1>6, <1>12 DEF Claims
  <2>2. \A m \in Machines : SeatOf[m] = t /\ machine[m].link # 0 =>
          (Untold(machine[m])' <=> Untold(machine[m]))
    BY <1>2, <1>7 DEF Untold
  <2>3. SUFFICES ASSUME NEW l \in DOMAIN links', SeatOf[links'[l].of] = t, Claims(t, l)',
                        machine'[links'[l].of].link \notin {0, l}
                 PROVE  Untold(machine[links[l].of])'
    BY <1>5 DEF Moved
  <2> QED  BY <1>5, <2>1, <2>2, <2>3 DEF Moved
<1> QED  BY <1>8, <1>9, <1>10, <1>11, <1>13, <1>14
------------------------------------------------------------------------------
(* Who is dropped *)

\* What Sealed is made of.
LEMMA SealedFacts ==
  ASSUME NEW L \in Seq(TurnRecord), NEW q \in Seq(Seats), NEW n \in Lives
  PROVE  LET S == Append(L, [drops |-> q, life |-> n])
         IN /\ S \in Seq(TurnRecord) /\ Len(S) = Len(L) + 1 /\ Len(L) \in Nat
            /\ DOMAIN L = 1 .. Len(L) /\ DOMAIN S = DOMAIN L \cup {Len(L) + 1}
            /\ Len(L) + 1 \notin DOMAIN L
            /\ \A k \in DOMAIN L : S[k] = L[k]
            /\ S[Len(L) + 1].drops = q /\ S[Len(L) + 1].life = n
<1>1. [drops |-> q, life |-> n] \in TurnRecord
  BY DEF TurnRecord
<1> QED  BY <1>1

\* A seat that is dropped is put on the queue: it is in one place, if it was in none.
LEMMA QueuedOnce ==
  ASSUME NEW L \in Seq(TurnRecord), NEW q \in Seq(Seats), NEW n \in Lives, NEW s \in Seats,
         OnePlace(Append(L, [drops |-> q, life |-> n])),
         ~IsDropped(Append(L, [drops |-> q, life |-> n]), s)
  PROVE  LET S == Append(L, [drops |-> q, life |-> n])
             R == Append(L, [drops |-> Append(q, s), life |-> n])
         IN OnePlace(R) /\ \A t \in Seats : IsDropped(R, t) <=> t = s \/ IsDropped(S, t)
<1> DEFINE S == Append(L, [drops |-> q, life |-> n])
           p == Append(q, s)
           R == Append(L, [drops |-> p, life |-> n])
           z == Len(L) + 1
<1>1. /\ DOMAIN S = DOMAIN L \cup {z} /\ z \notin DOMAIN L /\ S[z].drops = q
      /\ \A k \in DOMAIN L : S[k] = L[k]
  BY SealedFacts
<1>2. /\ p \in Seq(Seats) /\ Len(q) \in Nat /\ DOMAIN q = 1 .. Len(q)
      /\ DOMAIN p = DOMAIN q \cup {Len(q) + 1}
      /\ Len(q) + 1 \notin DOMAIN q /\ p[Len(q) + 1] = s
      /\ \A i \in DOMAIN q : p[i] = q[i]
  OBVIOUS
<1>3. /\ DOMAIN R = DOMAIN L \cup {z} /\ R[z].drops = p
      /\ \A k \in DOMAIN L : R[k] = L[k]
  BY <1>2, SealedFacts
<1>4. OnePlace(S) /\ ~IsDropped(S, s)
  OBVIOUS
<1> HIDE DEF S, R, z, p
<1>5. \A k \in DOMAIN R : \A i \in DOMAIN R[k].drops :
        \/ k \in DOMAIN S /\ i \in DOMAIN S[k].drops /\ R[k].drops[i] = S[k].drops[i]
           /\ R[k].drops[i] # s
        \/ k = z /\ i = Len(q) + 1 /\ R[k].drops[i] = s
  BY <1>1, <1>2, <1>3, <1>4, SMTT(40) DEF IsDropped
<1>6. \A k \in DOMAIN S : \A i \in DOMAIN S[k].drops :
        k \in DOMAIN R /\ i \in DOMAIN R[k].drops /\ R[k].drops[i] = S[k].drops[i]
  BY <1>1, <1>2, <1>3, Zenon
<1>7. OnePlace(R)
  BY <1>4, <1>5 DEF OnePlace
<1>8. z \in DOMAIN R /\ Len(q) + 1 \in DOMAIN R[z].drops /\ R[z].drops[Len(q) + 1] = s
  BY <1>2, <1>3
<1>9. \A t \in Seats : IsDropped(R, t) <=> t = s \/ IsDropped(S, t)
  BY <1>5, <1>6, <1>8, SMTT(40) DEF IsDropped
<1> QED  BY <1>7, <1>9, Zenon DEF S, R, p

\* How many numbers there are up to n, and between two.
LEMMA CountTo ==
  /\ \A n \in Nat : IsFiniteSet(1 .. n) /\ Cardinality(1 .. n) = n
  /\ \A n \in Nat : \A k \in 0 .. n :
       IsFiniteSet((k + 1) .. n) /\ Cardinality((k + 1) .. n) = n - k
<1>1. ASSUME NEW n \in Nat, NEW k \in 0 .. n
      PROVE  IsFiniteSet((k + 1) .. n) /\ Cardinality((k + 1) .. n) = n - k
  <2>1. k + 1 \in Int /\ n \in Int
    OBVIOUS
  <2>2. /\ IsFiniteSet((k + 1) .. n)
        /\ Cardinality((k + 1) .. n) = IF k + 1 > n THEN 0 ELSE n - (k + 1) + 1
    BY <2>1, FS_Interval
  <2>3. (IF k + 1 > n THEN 0 ELSE n - (k + 1) + 1) = n - k
    OBVIOUS
  <2> QED  BY <2>2, <2>3
<1>2. ASSUME NEW n \in Nat
      PROVE  IsFiniteSet(1 .. n) /\ Cardinality(1 .. n) = n
  <2>1. 0 \in 0 .. n /\ 0 + 1 = 1 /\ n - 0 = n
    OBVIOUS
  <2> QED  BY <1>1, <2>1, Zenon
<1> QED  BY <1>1, <1>2

\* The queue has room for every seat.
LEMMA QueueFits ==
  ASSUME RejoinAssumption, NEW L \in Seq(TurnRecord), NEW q \in Seq(Seats), NEW n \in Lives,
         OnePlace(Append(L, [drops |-> q, life |-> n]))
  PROVE  Len(q) <= Cardinality(Seats)
<1> DEFINE S == Append(L, [drops |-> q, life |-> n])
           z == Len(L) + 1
<1>1. z \in DOMAIN S /\ S[z].drops = q
  BY SealedFacts
<1>2. Len(q) \in Nat /\ DOMAIN q = 1 .. Len(q) /\ q \in [1 .. Len(q) -> Seats]
  OBVIOUS
<1>3. OnePlace(S)
  OBVIOUS
<1> HIDE DEF S
<1>4. \A i, j \in DOMAIN q : q[i] = q[j] => i = j
  BY <1>1, <1>3 DEF OnePlace
<1>5. q \in Injection(1 .. Len(q), Seats)
  BY <1>2, <1>4, Zenon DEF Injection, IsInjective
<1>6. IsFiniteSet(Seats)
  BY DEF RejoinAssumption
<1>7. Cardinality(1 .. Len(q)) <= Cardinality(Seats)
  BY <1>5, <1>6, FS_Injection
<1>8. Cardinality(1 .. Len(q)) = Len(q)
  BY <1>2, CountTo
<1> QED  BY <1>7, <1>8

\* The lesser and the greater of two numbers.
LEMMA LesserGreater ==
  ASSUME NEW a \in Nat, NEW b \in Nat
  PROVE  /\ Min({a, b}) \in {a, b} /\ Min({a, b}) <= a /\ Min({a, b}) <= b
         /\ Max({a, b}) \in {a, b} /\ Max({a, b}) >= a /\ Max({a, b}) >= b
<1>1. \E x \in {a, b} : \A y \in {a, b} : x <= y
  OBVIOUS
<1>2. \E x \in {a, b} : \A y \in {a, b} : x >= y
  OBVIOUS
<1>3. Min({a, b}) \in {a, b} /\ \A y \in {a, b} : Min({a, b}) <= y
  BY <1>1 DEF Min
<1>4. Max({a, b}) \in {a, b} /\ \A y \in {a, b} : Max({a, b}) >= y
  BY <1>2 DEF Max
<1> QED  BY <1>3, <1>4

------------------------------------------------------------------------------
(* A step of the server that is about one seat *)

\* What happens to the Drops: none more, or that of s.
Queues(s) ==
  \/ queue' = queue /\ (att'[s] = "Dropped" <=> att[s] = "Dropped")
  \/ queue' = Append(queue, s) /\ att[s] # "Dropped" /\ att'[s] = "Dropped"

\* What has to be shown of a step that is about a seat.
LEMMA SeatStep ==
  ASSUME IInv, RejoinAssumption, NEW s \in Seats, About(s), SeatInv(s)', Typed', Queues(s),
         life' = life, deaths' = deaths, faults' = faults \/ Fault
  PROVE  IInv'
<1> USE RejoinAssumption
<1>1. TypeOK /\ Typed /\ world' = world /\ log' = log
  BY TypedHere DEF IInv, About
<1>2. \A t \in Seats : SeatInv(t)'
  BY <1>1, OtherSeats DEF IInv
<1>3. /\ log \in Seq(TurnRecord) /\ queue \in Seq(Seats) /\ life \in Lives
      /\ DropsInv
  BY DEF IInv, TypeOK, TurnRecord
<1>4. \A t \in Seats : t # s => att'[t] = att[t]
  BY DEF About
<1>5. Sealed' = Append(log, [drops |-> queue', life |-> life])
  BY <1>1 DEF Sealed
<1>6. queue' \in Seq(Seats) /\ OnePlace(Sealed') /\ \A t \in Seats : att'[t] = "Dropped" <=> IsDropped(Sealed', t)
  <2>1. CASE queue' = queue /\ (att'[s] = "Dropped" <=> att[s] = "Dropped")
    BY <2>1, <1>3, <1>4, <1>5, Zenon DEF DropsInv, Sealed
  <2>2. CASE queue' = Append(queue, s) /\ att[s] # "Dropped" /\ att'[s] = "Dropped"
    <3>1. OnePlace(Sealed) /\ ~IsDropped(Sealed, s)
      BY <2>2, <1>3 DEF DropsInv
    <3>2. /\ OnePlace(Sealed')
          /\ \A t \in Seats : IsDropped(Sealed', t) <=> t = s \/ IsDropped(Sealed, t)
      BY <3>1, <2>2, <1>3, <1>5, QueuedOnce, Zenon DEF Sealed
    <3> QED  BY <2>2, <3>2, <1>3, <1>4, SMTT(40) DEF DropsInv
  <2> QED  BY <2>1, <2>2 DEF Queues
<1>7. DropsInv'
  BY <1>6 DEF DropsInv, OnePlace, IsDropped
<1>8. Len(queue') <= Cardinality(Seats)
  BY <1>3, <1>5, <1>6, QueueFits, Zenon
<1>9. faults' \in 0 .. MaxFaults
  <2>1. MaxFaults \in Nat /\ faults \in 0 .. MaxFaults
    BY <1>1 DEF TypeOK, RejoinAssumption, MaxFaults
  <2> QED  BY <2>1 DEF Fault
<1>10. TypeOK'
  <2>1. /\ Lives' = Lives /\ MaxLinks' = MaxLinks /\ MaxFaults' = MaxFaults
        /\ Messages' = Messages
    BY <1>1, SameWorld
  <2>2. world' \in Worlds /\ deaths' \in 0 .. world'.deaths /\ life' \in Lives
        /\ log' \in Seq([drops : Seq(Seats), life : Lives]) /\ Len(log') <= MaxTurns
    BY <1>1 DEF TypeOK
  <2> QED  BY <1>6, <1>8, <1>9, <2>1, <2>2, Zenon DEF TypeOK, Typed, SessionRecord, LinkRecord
<1>11. life' <= deaths'
  BY DEF IInv
<1> QED  BY <1>2, <1>7, <1>10, <1>11 DEF IInv

\* Who has said that he is back has a link that the server knows as his.
LEMMA ClaimsAreKnown ==
  ASSUME Typed, NEW s \in Seats, SeatInv(s), NEW l \in DOMAIN links, SeatOf[links[l].of] = s,
         "CaughtUp" \in Kinds(links[l].up)
  PROVE  IsClient(s, l) \/ IsComer(s, l)
<1>1. links[l].up # <<>> /\ links[l].up \in Seq(Messages)
  BY LinkFields DEF Kinds, Typed
<1>2. AnyLine(links[l], machine[links[l].of], TurnsKnown)
  BY DEF SeatInv, Lines
<1>3. links[l].sopen
  BY <1>1, <1>2 DEF AnyLine
<1>4. ASSUME links[l].up[1].type = "Hello"
      PROVE  FALSE
  <2>1. \A j \in DOMAIN links[l].up : j # 1 => links[l].up[j].type = "Leave"
    BY <1>1, <1>2, <1>4, TailFacts DEF AnyLine
  <2> QED  BY <1>4, <2>1 DEF Kinds
<1> QED  BY <1>1, <1>3, <1>4 DEF SeatInv, Open, Unheard

\* A step in which seat s loses whatever link it has.
LEMMA SeatCloses ==
  ASSUME Typed, NEW s \in Seats, SeatInv(s), About(s), UNCHANGED machine, DOMAIN links' = DOMAIN links,
         client'[s] = 0, att'[s] \in {"Absent", "Dropped"},
         \A r \in rejoiners' : r.seat # s,
         \A l \in DOMAIN links : SeatOf[links[l].of] = s =>
           /\ links'[l].copen <=> links[l].copen
           /\ AnyLine(links'[l], machine[links[l].of], TurnsKnown)
           /\ IsClient(s, l) \/ IsComer(s, l) => ~links'[l].sopen /\ links'[l].up = <<>>
           /\ ~(IsClient(s, l) \/ IsComer(s, l)) => links'[l] = links[l]
  PROVE  SeatInv(s)'
<1>1. /\ TurnsKnown' = TurnsKnown /\ machine' = machine
      /\ \A l \in DOMAIN links : l \in Nat \ {0} /\ links'[l].of = links[l].of
  BY SameWorld DEF About, Typed
<1>2. Sessions(s)'
  BY <1>1 DEF SeatInv, Sessions
<1>3. Lines(s)'
  BY <1>1 DEF SeatInv, Lines
<1>4. Player(s)'
  BY DEF Player
<1>5. Returns(s)'
  BY DEF Returns
<1>6. Open(s)'
  <2>1. \A l \in DOMAIN links : SeatOf[links[l].of] = s /\ links'[l].sopen => Unheard(links[l])
    BY <1>1 DEF SeatInv, Open
  <2> QED  BY <1>1, <2>1 DEF Open, Unheard
<1>7. \A l \in DOMAIN links : SeatOf[links[l].of] = s => ~Claims(s, l)'
  <2> SUFFICES ASSUME NEW l \in DOMAIN links, SeatOf[links[l].of] = s, Claims(s, l)'
               PROVE  FALSE
    OBVIOUS
  <2>1. "CaughtUp" \in Kinds(links'[l].up)
    BY <1>1 DEF Claims, IsClient
  <2>2. links'[l].up # <<>>
    BY <2>1 DEF Kinds
  <2> QED  BY <2>1, <2>2, ClaimsAreKnown
<1>8. Moved(s)'
  BY <1>1, <1>7 DEF Moved
<1> QED  BY <1>2, <1>3, <1>4, <1>5, <1>6, <1>8 DEF SeatInv

\* A step in which the server goes on with r, who is coming back, over his link.
LEMMA SeatGoesOn ==
  ASSUME Typed, NEW s \in Seats, SeatInv(s), About(s), UNCHANGED machine, DOMAIN links' = DOMAIN links,
         NEW r \in rejoiners, r.seat = s, NEW q, q.seat = s, q.link = r.link,
         rejoiners' = (rejoiners \ {r}) \cup {q},
         client'[s] = client[s], att'[s] = att[s],
         \A l \in DOMAIN links : l # r.link => links'[l] = links[l],
         links'[r.link].copen <=> links[r.link].copen,
         Kinds(links'[r.link].up) \subseteq Kinds(links[r.link].up),
         AnyLine(links'[r.link], machine[links[r.link].of], TurnsKnown),
         ComerLine(links'[r.link], machine[links[r.link].of], q, log),
         q.verify => Claims(s, r.link)
  PROVE  SeatInv(s)'
<1>1. /\ TurnsKnown' = TurnsKnown /\ machine' = machine /\ log' = log /\ world' = world
      /\ \A l \in DOMAIN links : l \in Nat \ {0} /\ links'[l].of = links[l].of
  BY SameWorld DEF About, Typed
<1>2. /\ r.link \in DOMAIN links /\ SeatOf[links[r.link].of] = s
      /\ att[s] = "CatchingUp" /\ client[s] = 0
      /\ \A p \in rejoiners : p.seat = s => p = r
  BY DEF SeatInv, Returns, Player, Typed
<1>3. \A p \in rejoiners' : p.seat = s => p = q
  BY <1>2
<1>4. q \in rejoiners'
  OBVIOUS
<1>5. Sessions(s)'
  BY <1>1 DEF SeatInv, Sessions
<1>6. Lines(s)'
  BY <1>1 DEF SeatInv, Lines
<1>7. Player(s)'
  BY <1>2 DEF Player
<1>8. Returns(s)'
  BY <1>1, <1>2, <1>3, <1>4 DEF Returns
<1>9. \A l : (IsClient(s, l)' <=> IsClient(s, l)) /\ (IsComer(s, l)' <=> IsComer(s, l))
  BY <1>2, <1>3, <1>4 DEF IsClient, IsComer
<1>10. IsComer(s, r.link)
  BY DEF IsComer
<1>11. Open(s)'
  BY <1>1, <1>9, <1>10 DEF SeatInv, Open
<1>12. \A l \in DOMAIN links : SeatOf[links[l].of] = s /\ Claims(s, l)' => l = r.link /\ Claims(s, l)
  <2> SUFFICES ASSUME NEW l \in DOMAIN links, SeatOf[links[l].of] = s, Claims(s, l)'
               PROVE  l = r.link /\ Claims(s, l)
    OBVIOUS
  <2>1. ~IsClient(s, l)'
    BY <1>1, <1>2, <1>9 DEF IsClient
  <2>2. CASE \E p \in rejoiners' : p.seat = s /\ p.link = l /\ p.verify
    BY <1>3, <2>2
  <2>3. CASE "CaughtUp" \in Kinds(links'[l].up)
    <3>1. "CaughtUp" \in Kinds(links[l].up)
      BY <2>3
    <3>2. IsComer(s, l)
      BY <1>1, <1>2, <3>1, ClaimsAreKnown DEF IsClient
    <3> QED  BY <1>2, <3>1, <3>2 DEF IsComer, Claims
  <2> QED  BY <2>1, <2>2, <2>3 DEF Claims
<1>13. Moved(s)'
  <2> SUFFICES ASSUME NEW l \in DOMAIN links, SeatOf[links[l].of] = s, Claims(s, l)',
                      machine[links[l].of].link \notin {0, l}
               PROVE  Untold(machine[links[l].of])'
    BY <1>1 DEF Moved
  <2>1. l = r.link /\ Untold(machine[links[l].of])
    BY <1>12 DEF SeatInv, Moved
  <2>2. links[l].of \in Machines
    BY LinkFields DEF Typed
  <2>3. machine[links[l].of].link \in DOMAIN links
    BY <2>2 DEF SeatInv, Sessions
  <2> QED  BY <1>1, <2>1, <2>3 DEF Untold
<1> QED  BY <1>5, <1>6, <1>7, <1>8, <1>11, <1>13 DEF SeatInv

\* The server is done with what seat s had: it waits for him again, or he is dropped.
LEMMA Closing ==
  ASSUME IInv, RejoinAssumption, NEW s \in Seats, world' = world, log' = log,
         UNCHANGED <<machine, life, deaths>>, faults' = faults \/ Fault,
         links' \in Seq(LinkRecord), Len(links') = Len(links),
         client' = [client EXCEPT ![s] = 0],
         NEW a, att' = [att EXCEPT ![s] = a], att[s] # "Dropped",
         \/ a = "Absent" /\ queue' = queue
         \/ a = "Dropped" /\ queue' = Append(queue, s),
         rejoiners' = {r \in rejoiners : r.seat # s},
         \A l \in DOMAIN links :
           /\ links'[l].of = links[l].of
           /\ SeatOf[links[l].of] # s => links'[l] = links[l],
         \A l \in DOMAIN links : SeatOf[links[l].of] = s =>
           /\ links'[l].copen <=> links[l].copen
           /\ AnyLine(links'[l], machine[links[l].of], TurnsKnown)
           /\ IsClient(s, l) \/ IsComer(s, l) => ~links'[l].sopen /\ links'[l].up = <<>>
           /\ ~(IsClient(s, l) \/ IsComer(s, l)) => links'[l] = links[l]
  PROVE  IInv'
<1>1. Typed /\ SeatInv(s) /\ TypeOK
  BY TypedHere DEF IInv
<1>2. DOMAIN links' = DOMAIN links
  BY <1>1 DEF Typed
<1>3. /\ client'[s] = 0 /\ att'[s] = a /\ a \in {"Absent", "Dropped"}
      /\ \A t \in Seats : t # s => client'[t] = client[t] /\ att'[t] = att[t]
  BY <1>1 DEF Typed
<1>4. About(s)
  BY <1>2, <1>3 DEF About
<1>5. SeatInv(s)'
  BY <1>1, <1>2, <1>3, <1>4, SeatCloses
<1>6. Typed'
  <2>1. LinkRecord' = LinkRecord /\ SessionRecord' = SessionRecord
    BY SameWorld
  <2>2. client' \in [Seats -> 0 .. Len(links')]
    <3>1. 0 \in 0 .. Len(links)
      BY <1>1 DEF Typed
    <3> QED  BY <3>1, <1>1 DEF Typed
  <2>3. att' \in [Seats -> {"Present", "Absent", "CatchingUp", "Dropped"}]
    BY <1>1, <1>3 DEF Typed
  <2> QED  BY <1>1, <1>2, <2>1, <2>2, <2>3 DEF Typed
<1>7. Queues(s)
  BY <1>3 DEF Queues
<1> QED  BY <1>4, <1>5, <1>6, <1>7, SeatStep

\* The links that are a seat's, for the server.
LEMMA LinksOfSeat ==
  ASSUME IInv, NEW s \in Seats
  PROVE  /\ client[s] # 0 => /\ client[s] \in DOMAIN links /\ SeatOf[links[client[s]].of] = s
                             /\ links[client[s]].sopen /\ "Hello" \notin Kinds(links[client[s]].up)
                             /\ att[s] = "Present"
                             /\ \A r \in rejoiners : r.seat # s
         /\ \A r \in rejoiners : r.seat = s =>
              /\ r.link \in DOMAIN links /\ SeatOf[links[r.link].of] = s
              /\ links[r.link].sopen /\ "Hello" \notin Kinds(links[r.link].up)
              /\ att[s] = "CatchingUp" /\ client[s] = 0
              /\ \A q \in rejoiners : q.seat = s => q = r
         /\ \A r \in rejoiners : r.seat \in Seats
         /\ \A l \in DOMAIN links : l # 0 /\ links[l] \in LinkRecord /\ links[l].of \in Machines
         /\ links \in Seq(LinkRecord)
<1>1. Typed /\ SeatInv(s)
  BY TypedHere DEF IInv
<1>2. \A l \in DOMAIN links : l # 0 /\ links[l] \in LinkRecord /\ links[l].of \in Machines
  <2>1. \A l \in DOMAIN links : l # 0 /\ links[l] \in LinkRecord
    BY <1>1 DEF Typed
  <2> QED  BY <2>1, LinkFields
<1>3. client[s] # 0 => /\ client[s] \in DOMAIN links /\ SeatOf[links[client[s]].of] = s
                       /\ links[client[s]].sopen /\ "Hello" \notin Kinds(links[client[s]].up)
                       /\ att[s] = "Present"
  BY <1>1 DEF Typed, SeatInv, Player, PlayerLine
<1>4. \A r \in rejoiners : r.seat = s =>
              /\ r.link \in DOMAIN links /\ SeatOf[links[r.link].of] = s
              /\ links[r.link].sopen /\ "Hello" \notin Kinds(links[r.link].up)
              /\ att[s] = "CatchingUp"
              /\ \A q \in rejoiners : q.seat = s => q = r
  BY <1>1 DEF Typed, SeatInv, Returns, ComerLine
<1> QED  BY <1>1, <1>2, <1>3, <1>4 DEF Typed

\* Every link is in order.
LEMMA LineHere ==
  ASSUME IInv, RejoinAssumption, NEW l \in DOMAIN links
  PROVE  /\ AnyLine(links[l], machine[links[l].of], TurnsKnown)
         /\ links[l].copen <=> machine[links[l].of].link = l
         /\ SeatOf[links[l].of] \in Seats
<1>1. links[l].of \in Machines
  BY TypedHere, LinkFields DEF IInv, Typed
<1>2. SeatOf[links[l].of] \in Seats
  BY <1>1 DEF RejoinAssumption
<1> QED  BY <1>2 DEF IInv, SeatInv, Lines

\* A player's connection is lost.
LEMMA LosesStep ==
  ASSUME IInv, RejoinAssumption, world' = world, NEW s \in Seats, Loses(s)
  PROVE  IInv'
<1> DEFINE l == client[s]
<1>1. /\ l # 0 /\ UNCHANGED <<machine, log, life, deaths, faults>>
      /\ client' = [client EXCEPT ![s] = 0] /\ links' = Shut(links, {l})
      /\ \/ att' = [att EXCEPT ![s] = "Absent"] /\ UNCHANGED <<rejoiners, queue>>
         \/ /\ att' = [att EXCEPT ![s] = "Dropped"] /\ queue' = Append(queue, s)
            /\ rejoiners' = {r \in rejoiners : r.seat # s}
  BY DEF Loses, GivenUp
<1>2. /\ l \in DOMAIN links /\ SeatOf[links[l].of] = s /\ att[s] = "Present"
      /\ \A r \in rejoiners : r.seat # s
      /\ links \in Seq(LinkRecord)
  BY <1>1, LinksOfSeat
<1>3. /\ links' \in Seq(LinkRecord) /\ Len(links') = Len(links)
      /\ \A x \in DOMAIN links : /\ x = l => links'[x] = ShutLine(links[x])
                                 /\ x # l => links'[x] = links[x]
  BY <1>1, <1>2, ShutLinks
<1>4. \A x \in DOMAIN links : links[x] \in LinkRecord
  BY LinksOfSeat
<1>5. rejoiners' = {r \in rejoiners : r.seat # s}
  BY <1>1, <1>2
<1>6. \A x \in DOMAIN links : SeatOf[links[x].of] = s =>
           /\ links'[x].copen <=> links[x].copen
           /\ AnyLine(links'[x], machine[links[x].of], TurnsKnown)
           /\ IsClient(s, x) \/ IsComer(s, x) => ~links'[x].sopen /\ links'[x].up = <<>>
           /\ ~(IsClient(s, x) \/ IsComer(s, x)) => links'[x] = links[x]
  <2> SUFFICES ASSUME NEW x \in DOMAIN links, SeatOf[links[x].of] = s
               PROVE  /\ links'[x].copen <=> links[x].copen
                      /\ AnyLine(links'[x], machine[links[x].of], TurnsKnown)
                      /\ IsClient(s, x) \/ IsComer(s, x) => ~links'[x].sopen /\ links'[x].up = <<>>
                      /\ ~(IsClient(s, x) \/ IsComer(s, x)) => links'[x] = links[x]
    OBVIOUS
  <2>1. AnyLine(links[x], machine[links[x].of], TurnsKnown)
    BY LineHere
  <2>2. (IsClient(s, x) <=> x = l) /\ ~IsComer(s, x)
    BY <1>2 DEF IsClient, IsComer
  <2>3. CASE x = l
    BY <1>3, <1>4, <2>1, <2>2, <2>3, ShutFields, AnyShut
  <2>4. CASE x # l
    BY <1>3, <2>1, <2>2, <2>4
  <2> QED  BY <2>3, <2>4
<1>7. \A x \in DOMAIN links :
           /\ links'[x].of = links[x].of
           /\ SeatOf[links[x].of] # s => links'[x] = links[x]
  BY <1>2, <1>3, <1>4, ShutFields
<1>8. CASE att' = [att EXCEPT ![s] = "Absent"] /\ UNCHANGED <<rejoiners, queue>>
  BY <1>1, <1>2, <1>3, <1>5, <1>6, <1>7, <1>8, Closing, Zenon
<1>9. CASE att' = [att EXCEPT ![s] = "Dropped"] /\ queue' = Append(queue, s)
  BY <1>1, <1>2, <1>3, <1>5, <1>6, <1>7, <1>9, Closing, Zenon
<1> QED  BY <1>1, <1>8, <1>9

\* The one link that a seat has for the server is closed, and every other one stays as it is.
LEMMA ClosingOne ==
  ASSUME IInv, RejoinAssumption, NEW s \in Seats, world' = world, log' = log,
         UNCHANGED <<machine, life, deaths>>, faults' = faults \/ Fault,
         links' \in Seq(LinkRecord), Len(links') = Len(links),
         client' = [client EXCEPT ![s] = 0],
         att[s] # "Dropped",
         \/ att' = [att EXCEPT ![s] = "Absent"] /\ queue' = queue
         \/ att' = [att EXCEPT ![s] = "Dropped"] /\ queue' = Append(queue, s),
         rejoiners' = {r \in rejoiners : r.seat # s},
         NEW l \in DOMAIN links, SeatOf[links[l].of] = s,
         \A x \in DOMAIN links : IsClient(s, x) \/ IsComer(s, x) => x = l,
         \A x \in DOMAIN links : x # l => links'[x] = links[x],
         \E k \in LinkRecord :
           /\ links'[l] = ShutLine(k) /\ k.of = links[l].of /\ (k.copen <=> links[l].copen)
           /\ AnyLine(k, machine[links[l].of], TurnsKnown),
         IsClient(s, l) \/ IsComer(s, l)
  PROVE  IInv'
<1> PICK k \in LinkRecord :
      /\ links'[l] = ShutLine(k) /\ k.of = links[l].of /\ (k.copen <=> links[l].copen)
      /\ AnyLine(k, machine[links[l].of], TurnsKnown)
  OBVIOUS
<1>1. \A x \in DOMAIN links : SeatOf[links[x].of] = s =>
           /\ links'[x].copen <=> links[x].copen
           /\ AnyLine(links'[x], machine[links[x].of], TurnsKnown)
           /\ IsClient(s, x) \/ IsComer(s, x) => ~links'[x].sopen /\ links'[x].up = <<>>
           /\ ~(IsClient(s, x) \/ IsComer(s, x)) => links'[x] = links[x]
  <2> SUFFICES ASSUME NEW x \in DOMAIN links, SeatOf[links[x].of] = s
               PROVE  /\ links'[x].copen <=> links[x].copen
                      /\ AnyLine(links'[x], machine[links[x].of], TurnsKnown)
                      /\ IsClient(s, x) \/ IsComer(s, x) => ~links'[x].sopen /\ links'[x].up = <<>>
                      /\ ~(IsClient(s, x) \/ IsComer(s, x)) => links'[x] = links[x]
    OBVIOUS
  <2>1. CASE x = l
    BY <2>1, ShutFields, AnyShut
  <2>2. CASE x # l
    BY <2>2, LineHere, Zenon
  <2> QED  BY <2>1, <2>2
<1>2. \A x \in DOMAIN links :
           /\ links'[x].of = links[x].of
           /\ SeatOf[links[x].of] # s => links'[x] = links[x]
  BY ShutFields
<1>3. CASE att' = [att EXCEPT ![s] = "Absent"] /\ queue' = queue
  BY <1>1, <1>2, <1>3, Closing, Zenon
<1>4. CASE att' = [att EXCEPT ![s] = "Dropped"] /\ queue' = Append(queue, s)
  BY <1>1, <1>2, <1>4, Closing, Zenon
<1> QED  BY <1>3, <1>4

\* A player leaves, or says something else.
LEMMA HearsLeaveStep ==
  ASSUME IInv, RejoinAssumption, world' = world, NEW s \in Seats, HearsLeave(s)
  PROVE  IInv'
<1> DEFINE l == client[s]
           L == Read(links, l, "up")
<1>1. /\ l # 0 /\ UNCHANGED <<machine, log, life, deaths, faults>> /\ links[l].up # <<>>
      /\ \/ GivenUp(s, Shut(L, {l}))
         \/ links' = L /\ UNCHANGED <<att, client, rejoiners, queue>>
  BY DEF HearsLeave
<1>2. /\ l \in DOMAIN links /\ SeatOf[links[l].of] = s /\ att[s] = "Present"
      /\ \A r \in rejoiners : r.seat # s
      /\ links \in Seq(LinkRecord) /\ links[l] \in LinkRecord
  BY <1>1, LinksOfSeat
<1>3. /\ L \in Seq(LinkRecord) /\ Len(L) = Len(links) /\ DOMAIN L = DOMAIN links
      /\ L[l] = HeardLine(links[l])
      /\ \A x \in DOMAIN links : x # l => L[x] = links[x]
  BY <1>1, <1>2, HeardLinks
<1> HIDE DEF L
<1>4. /\ L[l] \in LinkRecord /\ L[l].of = links[l].of /\ (L[l].copen <=> links[l].copen)
      /\ Kinds(L[l].up) \subseteq Kinds(links[l].up) /\ (L[l].sopen <=> links[l].sopen)
  BY <1>1, <1>2, <1>3, HeardFields
<1>5. AnyLine(L[l], machine[links[l].of], TurnsKnown)
  BY <1>1, <1>2, <1>3, LineHere, AnyHeard
<1>6. \A x : (IsClient(s, x) <=> x = l) /\ ~IsComer(s, x)
  BY <1>2 DEF IsClient, IsComer
<1>7. CASE GivenUp(s, Shut(L, {l}))
  <2>1. /\ att' = [att EXCEPT ![s] = "Dropped"] /\ client' = [client EXCEPT ![s] = 0]
        /\ rejoiners' = {r \in rejoiners : r.seat # s} /\ queue' = Append(queue, s)
        /\ links' = Shut(L, {l})
    BY <1>7 DEF GivenUp
  <2>2. /\ links' \in Seq(LinkRecord) /\ Len(links') = Len(links)
        /\ links'[l] = ShutLine(L[l])
        /\ \A x \in DOMAIN links : x # l => links'[x] = links[x]
    BY <1>2, <1>3, <2>1, ShutLinks
  <2>3. /\ \A x \in DOMAIN links : IsClient(s, x) \/ IsComer(s, x) => x = l
        /\ IsClient(s, l) \/ IsComer(s, l)
    BY <1>6
  <2>4. att[s] # "Dropped" /\ UNCHANGED <<machine, life, deaths>> /\ log' = log /\ faults' = faults
    BY <1>1, <1>2
  <2> HIDE DEF l
  <2> QED  BY <1>2, <1>4, <1>5, <2>1, <2>2, <2>3, <2>4, ClosingOne, Zenon
<1>8. CASE links' = L /\ UNCHANGED <<att, client, rejoiners, queue>>
  <2>1. Typed /\ SeatInv(s)
    BY TypedHere DEF IInv
  <2>2. About(s)
    BY <1>1, <1>2, <1>3, <1>4, <1>8 DEF About
  <2>3. /\ TurnsKnown' = TurnsKnown /\ machine' = machine /\ log' = log /\ world' = world
        /\ \A x \in DOMAIN links : links'[x].of = links[x].of
                                   /\ (links'[x].copen <=> links[x].copen)
    BY <1>1, <1>3, <1>4, <1>8, SameWorld, Zenon
  <2>4. PlayerLine(L[l], machine[links[l].of], log)
    BY <1>1, <1>2, <1>3, <2>1, PlayerHeard DEF SeatInv, Player
  <2>5. Sessions(s)'
    BY <1>3, <1>8, <2>1, <2>3 DEF SeatInv, Sessions
  <2>6. Lines(s)'
    BY <1>3, <1>5, <1>8, <2>1, <2>3 DEF SeatInv, Lines
  <2>7. Player(s)'
    <3>1. client' = client /\ links'[l].of = links[l].of /\ ~Stray(links[l].of)
      BY <1>1, <1>2, <1>8, <2>1, <2>3, SMTT(40) DEF SeatInv, Player
    <3>2. ~Stray(links[client[s]].of)'
      BY <2>3, <3>1 DEF Stray
    <3> QED  BY <1>2, <1>4, <1>8, <2>1, <2>3, <2>4, <3>1, <3>2 DEF SeatInv, Player
  <2>8. Returns(s)'
    BY <1>2, <1>8, <2>1 DEF SeatInv, Returns
  <2>9. \A x : (IsClient(s, x)' <=> x = l) /\ ~IsComer(s, x)'
    BY <1>2, <1>8 DEF IsClient, IsComer
  <2>10. Open(s)'
    BY <1>3, <1>6, <1>8, <2>1, <2>3, <2>9 DEF SeatInv, Open
  <2>11. \A x \in DOMAIN links : Claims(s, x)' => Claims(s, x)
    BY <1>3, <1>4, <1>6, <1>8, <2>9 DEF Claims
  <2>12. Moved(s)'
    <3> SUFFICES ASSUME NEW x \in DOMAIN links, SeatOf[links[x].of] = s, Claims(s, x)',
                        machine[links[x].of].link \notin {0, x}
                 PROVE  Untold(machine[links[x].of])'
      BY <1>3, <1>8, <2>3 DEF Moved
    <3>1. Untold(machine[links[x].of])
      BY <2>1, <2>11 DEF SeatInv, Moved
    <3>2. machine[links[x].of].link \in DOMAIN links
      BY <2>1, LinksOfSeat DEF SeatInv, Sessions
    <3>3. \A y \in DOMAIN links : links'[y].down = links[y].down
      <4> SUFFICES ASSUME NEW y \in DOMAIN links PROVE links'[y].down = links[y].down
        OBVIOUS
      <4>1. L[l].down = links[l].down
        BY <1>1, <1>2, <1>3, HeardFields
      <4> QED  BY <1>3, <1>8, <4>1, Zenon
    <3> QED  BY <2>3, <3>1, <3>2, <3>3 DEF Untold
  <2>13. SeatInv(s)'
    BY <2>5, <2>6, <2>7, <2>8, <2>10, <2>12 DEF SeatInv
  <2>14. Typed'
    <3>1. LinkRecord' = LinkRecord /\ SessionRecord' = SessionRecord
      BY SameWorld
    <3> QED  BY <1>1, <1>3, <1>8, <2>1, <3>1 DEF Typed
  <2>15. Queues(s)
    BY <1>8 DEF Queues
  <2> QED  BY <1>1, <2>2, <2>13, <2>14, <2>15, SeatStep
<1> QED  BY <1>1, <1>7, <1>8

\* A player is voted out, or the cap is reached.
LEMMA VotedOutStep ==
  ASSUME IInv, RejoinAssumption, world' = world, NEW s \in Seats, VotedOut(s)
  PROVE  IInv'
<1> DEFINE S == ({client[s]} \cup Comer(s)) \ {0}
<1>1. /\ att[s] # "Dropped" /\ UNCHANGED <<machine, log, life, deaths>>
      /\ faults' = faults \/ Fault
      /\ links' = Dismissed(links, S, "Dropped")
      /\ att' = [att EXCEPT ![s] = "Dropped"] /\ client' = [client EXCEPT ![s] = 0]
      /\ rejoiners' = {r \in rejoiners : r.seat # s} /\ queue' = Append(queue, s)
  BY DEF VotedOut, GivenUp
<1>2. \A x \in DOMAIN links : links[x] \in LinkRecord /\ x # 0
  BY LinksOfSeat
<1>3. \A x \in DOMAIN links : x \in S <=> IsClient(s, x) \/ IsComer(s, x)
  BY <1>2 DEF Comer, IsClient, IsComer
<1>4. \A x \in S : x \in DOMAIN links /\ SeatOf[links[x].of] = s /\ "Hello" \notin Kinds(links[x].up)
  BY LinksOfSeat DEF Comer
<1>5. /\ links' \in Seq(LinkRecord) /\ Len(links') = Len(links)
      /\ \A x \in DOMAIN links : /\ x \in S => links'[x] = RejectLine(links[x], "Dropped")
                                 /\ x \notin S => links'[x] = links[x]
  BY <1>1, LinksOfSeat, DismissedLinks DEF Reasons
<1>6. "Dropped" \in Reasons
  BY DEF Reasons
<1> HIDE DEF S
<1>7. \A x \in DOMAIN links :
           /\ links'[x].of = links[x].of
           /\ SeatOf[links[x].of] # s => links'[x] = links[x]
  BY <1>2, <1>4, <1>5, <1>6, RejectFields
<1>8. \A x \in DOMAIN links : SeatOf[links[x].of] = s =>
           /\ links'[x].copen <=> links[x].copen
           /\ AnyLine(links'[x], machine[links[x].of], TurnsKnown)
           /\ IsClient(s, x) \/ IsComer(s, x) => ~links'[x].sopen /\ links'[x].up = <<>>
           /\ ~(IsClient(s, x) \/ IsComer(s, x)) => links'[x] = links[x]
  <2> SUFFICES ASSUME NEW x \in DOMAIN links, SeatOf[links[x].of] = s
               PROVE  /\ links'[x].copen <=> links[x].copen
                      /\ AnyLine(links'[x], machine[links[x].of], TurnsKnown)
                      /\ IsClient(s, x) \/ IsComer(s, x) => ~links'[x].sopen /\ links'[x].up = <<>>
                      /\ ~(IsClient(s, x) \/ IsComer(s, x)) => links'[x] = links[x]
    OBVIOUS
  <2>1. AnyLine(links[x], machine[links[x].of], TurnsKnown)
    BY LineHere
  <2>2. CASE x \in S
    BY <1>2, <1>3, <1>4, <1>5, <1>6, <2>1, <2>2, RejectFields, AnyRejected
  <2>3. CASE x \notin S
    BY <1>3, <1>5, <2>1, <2>3
  <2> QED  BY <2>2, <2>3
<1> QED  BY <1>1, <1>5, <1>7, <1>8, Closing, Zenon

\* L are the links, with that of r, who is coming back, as the server has it now.
Only(L, r) ==
  /\ L \in Seq(LinkRecord) /\ Len(L) = Len(links) /\ DOMAIN L = DOMAIN links
  /\ \A x \in DOMAIN links : x # r.link => L[x] = links[x]
  /\ L[r.link].of = links[r.link].of /\ (L[r.link].copen <=> links[r.link].copen)
  /\ AnyLine(L[r.link], machine[links[r.link].of], TurnsKnown)

\* An attempt is over: it has failed, or the player has left.
LEMMA AttemptOver ==
  ASSUME IInv, RejoinAssumption, world' = world, NEW r \in rejoiners, NEW L, Only(L, r),
         UNCHANGED <<machine, log, life, deaths>>, faults' = faults \/ Fault,
         Failed(r, L) \/ GivenUp(r.seat, Shut(L, {r.link}))
  PROVE  IInv'
<1> DEFINE l == r.link
           s == r.seat
<1>0. s \in Seats
  BY TypedHere DEF IInv, Typed
<1>1. /\ s \in Seats /\ l \in DOMAIN links /\ SeatOf[links[l].of] = s
      /\ att[s] = "CatchingUp" /\ client[s] = 0
      /\ \A q \in rejoiners : q.seat = s => q = r
  BY <1>0, LinksOfSeat
<1>2. /\ links' \in Seq(LinkRecord) /\ Len(links') = Len(links)
      /\ links'[l] = ShutLine(L[l])
      /\ \A x \in DOMAIN links : x # l => links'[x] = links[x]
  <2>1. links' = Shut(L, {l})
    BY DEF Failed, GivenUp
  <2> QED  BY <1>1, <2>1, ShutLinks DEF Only
<1>3. client' = [client EXCEPT ![s] = 0]
  <2>1. client = [client EXCEPT ![s] = 0]
    BY <1>1, TypedHere DEF IInv, Typed
  <2> QED  BY <2>1 DEF Failed, GivenUp
<1>4. rejoiners' = {q \in rejoiners : q.seat # s}
  BY <1>1 DEF Failed, GivenUp
<1>5. \/ att' = [att EXCEPT ![s] = "Absent"] /\ queue' = queue
      \/ att' = [att EXCEPT ![s] = "Dropped"] /\ queue' = Append(queue, s)
  BY DEF Failed, GivenUp
<1>6. \A x \in DOMAIN links : IsClient(s, x) \/ IsComer(s, x) => x = l
  BY <1>1, LinksOfSeat DEF IsClient, IsComer
<1>7. IsComer(s, l)
  BY DEF IsComer
<1>8. \E k \in LinkRecord :
         /\ links'[l] = ShutLine(k) /\ k.of = links[l].of /\ (k.copen <=> links[l].copen)
         /\ AnyLine(k, machine[links[l].of], TurnsKnown)
  <2>1. L[l] \in LinkRecord
    BY <1>1 DEF Only
  <2> QED  BY <1>2, <2>1 DEF Only
<1>9. att[s] # "Dropped"
  BY <1>1
<1> HIDE DEF l, s
<1> QED  BY <1>1, <1>2, <1>3, <1>4, <1>5, <1>6, <1>7, <1>8, <1>9, ClosingOne, Zenon

\* An attempt goes on.
LEMMA AttemptGoesOn ==
  ASSUME IInv, RejoinAssumption, world' = world, NEW r \in rejoiners, NEW q, NEW L, Only(L, r),
         UNCHANGED <<machine, log, life, deaths, faults>>, Becomes(r, q, L),
         Kinds(L[r.link].up) \subseteq Kinds(links[r.link].up),
         q.seat = r.seat, q.link = r.link,
         q \in [link : DOMAIN links, seat : Seats, total : 0 .. MaxTurns, next : 0 .. MaxTurns,
                acked : 0 .. MaxTurns, loading : BOOLEAN, verify : BOOLEAN],
         q.acked <= q.next, q.next <= q.total,
         ComerLine(L[r.link], machine[links[r.link].of], q, log),
         q.verify => Claims(r.seat, r.link)
  PROVE  IInv'
<1> DEFINE l == r.link
           s == r.seat
<1>0. s \in Seats
  BY TypedHere DEF IInv, Typed
<1>1. /\ s \in Seats /\ l \in DOMAIN links /\ SeatOf[links[l].of] = s
      /\ att[s] = "CatchingUp" /\ client[s] = 0
      /\ \A p \in rejoiners : p.seat = s => p = r
  BY <1>0, LinksOfSeat
<1>2. /\ rejoiners' = (rejoiners \ {r}) \cup {q} /\ links' = L
      /\ att' = att /\ client' = client /\ queue' = queue
  BY DEF Becomes
<1>3. Typed /\ SeatInv(s) /\ TypeOK
  BY <1>1, TypedHere DEF IInv
<1>4. DOMAIN links' = DOMAIN links
  BY <1>2 DEF Only
<1>5. About(s)
  BY <1>1, <1>2 DEF About, Only
<1>6. SeatInv(s)'
  <2>1. /\ \A x \in DOMAIN links : x # r.link => links'[x] = links[x]
        /\ links'[r.link].copen <=> links[r.link].copen
        /\ AnyLine(links'[r.link], machine[links[r.link].of], TurnsKnown)
    BY <1>2 DEF Only
  <2>2. q.seat = s /\ (q.verify => Claims(s, r.link))
    OBVIOUS
  <2> HIDE DEF l
  <2> QED  BY <1>1, <1>2, <1>3, <1>4, <1>5, <2>1, <2>2, SeatGoesOn
<1>7. Typed'
  <2>1. LinkRecord' = LinkRecord /\ SessionRecord' = SessionRecord
    BY SameWorld
  <2>2. links' \in Seq(LinkRecord) /\ Len(links') = Len(links)
    BY <1>2 DEF Only
  <2> QED  BY <1>2, <1>3, <1>4, <2>1, <2>2 DEF Typed
<1>8. Queues(s)
  BY <1>2 DEF Queues
<1> QED  BY <1>1, <1>5, <1>6, <1>7, <1>8, SeatStep

\* The server says something to r, over L.
LEMMA OnlyTold ==
  ASSUME IInv, RejoinAssumption, NEW r \in rejoiners, NEW L, Only(L, r),
         NEW msgs \in Seq(Messages), msgs # <<>>, "Hello" \notin Kinds(L[r.link].up),
         "Start" \notin Kinds(msgs), "Turn" \notin Kinds(msgs),
         \A i \in DOMAIN msgs : Sayable(msgs[i], TurnsKnown)
  PROVE  Only(Told(L, {r.link}, msgs), r) /\ Told(L, {r.link}, msgs)[r.link] = ToldLine(L[r.link], msgs)
<1> DEFINE l == r.link
           M == Told(L, {l}, msgs)
<1>1. l \in DOMAIN links
  BY TypedHere DEF IInv, Typed
<1>2. /\ M \in Seq(LinkRecord) /\ Len(M) = Len(L) /\ DOMAIN M = DOMAIN L
      /\ M[l] = ToldLine(L[l], msgs)
      /\ \A x \in DOMAIN L : x # l => M[x] = L[x]
  BY <1>1, ToldLinks DEF Only
<1>3. L[l] \in LinkRecord
  BY <1>1 DEF Only
<1>4. M[l].of = L[l].of /\ (M[l].copen <=> L[l].copen)
  BY <1>2, <1>3, ToldFields
<1>5. msgs[1].type # "Turn"
  <2>1. 1 \in DOMAIN msgs
    BY EmptySeq
  <2> QED  BY <2>1 DEF Kinds
<1>6. AnyLine(M[l], machine[links[l].of], TurnsKnown)
  <2>1. AnyLine(L[l], machine[links[l].of], TurnsKnown) /\ "Hello" \notin Kinds(L[l].up)
    BY DEF Only
  <2> HIDE DEF M, l
  <2>2. AnyLine(ToldLine(L[l], msgs), machine[links[l].of], TurnsKnown)
    BY <1>3, <1>5, <2>1, AnyTold
  <2> QED  BY <1>2, <2>2
<1> HIDE DEF M
<1>7. Only(M, r)
  BY <1>2, <1>4, <1>6 DEF Only
<1> QED  BY <1>2, <1>7, Zenon DEF M

\* The server reads what r says.
LEMMA OnlyHeard ==
  ASSUME IInv, RejoinAssumption, NEW r \in rejoiners, links[r.link].up # <<>>
  PROVE  LET L == Read(links, r.link, "up")
         IN /\ Only(L, r) /\ L[r.link] = HeardLine(links[r.link])
            /\ Kinds(L[r.link].up) \subseteq Kinds(links[r.link].up)
            /\ "Hello" \notin Kinds(L[r.link].up)
            /\ ComerLine(L[r.link], machine[links[r.link].of], r, log)
            /\ L[r.link] \in LinkRecord
<1> DEFINE l == r.link
           L == Read(links, l, "up")
<1>0. r.seat \in Seats
  BY TypedHere DEF IInv, Typed
<1>1. /\ r.seat \in Seats /\ l \in DOMAIN links /\ links[l] \in LinkRecord
      /\ links \in Seq(LinkRecord)
  BY <1>0, LinksOfSeat
<1>2. /\ L \in Seq(LinkRecord) /\ Len(L) = Len(links) /\ DOMAIN L = DOMAIN links
      /\ L[l] = HeardLine(links[l])
      /\ \A x \in DOMAIN links : x # l => L[x] = links[x]
  BY <1>1, HeardLinks
<1> HIDE DEF L
<1>3. /\ L[l].of = links[l].of /\ (L[l].copen <=> links[l].copen)
      /\ Kinds(L[l].up) \subseteq Kinds(links[l].up)
      /\ L[l] \in LinkRecord
  <2> HIDE DEF l
  <2>1. links[l].up # <<>>
    BY DEF l
  <2> DEFINE k == links[l]
             c == HeardLine(k)
  <2>2. k \in LinkRecord /\ k.up # <<>>
    BY <1>1, <2>1
  <2> HIDE DEF k
  <2>3. /\ c \in LinkRecord /\ c.of = k.of /\ (c.copen <=> k.copen)
        /\ Kinds(c.up) \subseteq Kinds(k.up)
    BY <2>2, HeardFields, Zenon
  <2> HIDE DEF c
  <2> QED  BY <1>2, <2>3 DEF k, c
<1>4. AnyLine(L[l], machine[links[l].of], TurnsKnown) /\ "Hello" \notin Kinds(L[l].up)
  BY <1>1, <1>2, LineHere, AnyHeard
<1>5. ComerLine(links[l], machine[links[l].of], r, log)
  BY <1>1 DEF IInv, SeatInv, Returns
<1>6. ComerLine(L[l], machine[links[l].of], r, log)
  BY <1>1, <1>2, <1>5, ComerHeard
<1>7. Only(L, r)
  BY <1>2, <1>3, <1>4 DEF Only
<1> QED  BY <1>2, <1>3, <1>4, <1>6, <1>7 DEF L

\* Who is coming back says something.
LEMMA RejoinerHeardStep ==
  ASSUME IInv, RejoinAssumption, world' = world, NEW r \in rejoiners, RejoinerHeard(r)
  PROVE  IInv'
<1> DEFINE l == r.link
           m == Head(links[l].up)
           L == Read(links, l, "up")
           ackTo == Min({m.turns, r.next})
           all == <<[type |-> "CatchUp", first |-> 0, total |-> r.total]>>
           no == <<[type |-> "Reject", why |-> "RejoinFailed"]>>
<1>1. /\ links[l].up # <<>> /\ UNCHANGED <<machine, log, life, deaths, faults>>
      /\ \/ /\ m.type = "Loaded" /\ r.loading /\ m.ok
            /\ Becomes(r, [r EXCEPT !.loading = FALSE], Told(L, {l}, all))
         \/ Failed(r, Told(L, {l}, no))
         \/ m.type = "Ack" /\ Becomes(r, [r EXCEPT !.acked = Max({@, ackTo})], L)
         \/ m.type = "CaughtUp" /\ m.turns = r.total /\ Becomes(r, [r EXCEPT !.verify = TRUE], L)
         \/ Failed(r, L)
         \/ GivenUp(r.seat, Shut(L, {l}))
  BY DEF RejoinerHeard
<1>2. /\ Only(L, r) /\ L[l] = HeardLine(links[l])
      /\ Kinds(L[l].up) \subseteq Kinds(links[l].up)
      /\ "Hello" \notin Kinds(L[l].up)
      /\ ComerLine(L[l], machine[links[l].of], r, log)
      /\ L[l] \in LinkRecord
  BY <1>1, OnlyHeard, Zenon
<1>3. /\ r \in [link : DOMAIN links, seat : Seats, total : 0 .. MaxTurns, next : 0 .. MaxTurns,
                 acked : 0 .. MaxTurns, loading : BOOLEAN, verify : BOOLEAN]
      /\ r.acked <= r.next /\ r.next <= r.total
      /\ MaxTurns \in Nat
  BY TypedHere DEF IInv, Typed, RejoinAssumption
<1>4. /\ l \in DOMAIN links /\ links[l] \in LinkRecord /\ SeatOf[links[l].of] = r.seat
      /\ att[r.seat] = "CatchingUp" /\ r.seat \in Seats
  BY <1>3, LinksOfSeat
<1>5. ComerLine(links[l], machine[links[l].of], r, log)
  BY <1>4 DEF IInv, SeatInv, Returns
<1>6. m = links[l].up[1] /\ m \in Messages /\ 1 \in DOMAIN links[l].up /\ m.type \in Kinds(links[l].up)
  BY <1>1, <1>4, LinkFields, TailFacts
<1>7. r.verify => Claims(r.seat, l)
  BY DEF Claims
<1> HIDE DEF L, m, ackTo, all, no
<1>8. CASE /\ m.type = "Loaded" /\ r.loading /\ m.ok
           /\ Becomes(r, [r EXCEPT !.loading = FALSE], Told(L, {l}, all))
  <2> DEFINE q == [r EXCEPT !.loading = FALSE]
             M == Told(L, {l}, all)
  <2>1. /\ all \in Seq(Messages) /\ Kinds(all) = {"CatchUp"} /\ all # <<>>
        /\ \A i \in DOMAIN all : Sayable(all[i], TurnsKnown)
    <3>1. [type |-> "CatchUp", first |-> 0, total |-> r.total] \in Messages
      BY <1>3, MessageKinds
    <3>2. Sayable([type |-> "CatchUp", first |-> 0, total |-> r.total], TurnsKnown)
      <4>1. r.total <= TurnsKnown
        BY <1>3, <1>5 DEF ComerLine, TurnsKnown
      <4> QED  BY <4>1, <1>3 DEF Sayable
    <3> QED  BY <3>1, <3>2, FewKinds DEF all
  <2>2. Only(M, r) /\ M[l] = ToldLine(L[l], all)
    <3>1. "Start" \notin Kinds(all) /\ "Turn" \notin Kinds(all)
      BY <2>1
    <3>2. Only(M, r)
      BY <1>2, <2>1, <3>1, OnlyTold, Zenon
    <3>3. M[l] = ToldLine(L[l], all)
      BY <1>2, <1>4, <2>1, ToldLinks DEF Only
    <3> QED  BY <3>2, <3>3
  <2>3. M[l].up = L[l].up
    BY <1>2, <2>1, <2>2, ToldFields
  <2>4. /\ q.seat = r.seat /\ q.link = r.link /\ q.next = r.next /\ q.acked = r.acked
        /\ q.total = r.total /\ (q.verify <=> r.verify)
        /\ q \in [link : DOMAIN links, seat : Seats, total : 0 .. MaxTurns, next : 0 .. MaxTurns,
                  acked : 0 .. MaxTurns, loading : BOOLEAN, verify : BOOLEAN]
    BY <1>3, Zenon
  <2>5. ComerLine(M[l], machine[links[l].of], r, log)
    BY <1>2, <2>1, <2>2, ComerTold, SMTT(40)
  <2> HIDE DEF q, M
  <2>6. ComerLine(M[l], machine[links[l].of], q, log)
    BY <2>4, <2>5 DEF ComerLine
  <2>7. Becomes(r, q, M)
    BY <1>8 DEF q, M
  <2> HIDE DEF l
  <2>8. l = r.link
    BY DEF l
  <2> QED  BY <1>1, <1>2, <1>3, <1>7, <2>2, <2>3, <2>4, <2>6, <2>7, <2>8, AttemptGoesOn, Zenon
<1>9. CASE Failed(r, Told(L, {l}, no))
  <2>1. /\ no \in Seq(Messages) /\ Kinds(no) = {"Reject"} /\ no # <<>>
        /\ \A i \in DOMAIN no : Sayable(no[i], TurnsKnown)
    <3>1. [type |-> "Reject", why |-> "RejoinFailed"] \in Messages
      BY MessageKinds DEF Reasons
    <3>2. Sayable([type |-> "Reject", why |-> "RejoinFailed"], TurnsKnown)
      BY DEF Sayable
    <3> QED  BY <3>1, <3>2, FewKinds DEF no
  <2>2. Only(Told(L, {l}, no), r)
    BY <1>2, <2>1, OnlyTold, Zenon
  <2> QED  BY <1>1, <1>9, <2>2, AttemptOver, Zenon
<1>10. CASE m.type = "Ack" /\ Becomes(r, [r EXCEPT !.acked = Max({@, ackTo})], L)
  <2> DEFINE to == Max({r.acked, ackTo})
             q == [r EXCEPT !.acked = to]
  <2>1. m.turns \in Nat /\ r.next \in Nat /\ r.acked \in Nat
    BY <1>3, <1>6, <1>10, MessageFields
  <2>2. ackTo \in Nat /\ ackTo <= r.next
    BY <2>1, LesserGreater DEF ackTo
  <2>3. to \in Nat /\ to <= r.next
    BY <1>3, <2>1, <2>2, LesserGreater
  <2> HIDE DEF to
  <2>4. to \in 0 .. MaxTurns
    BY <1>3, <2>3
  <2>5. /\ q.seat = r.seat /\ q.link = r.link /\ q.next = r.next /\ q.acked = to
        /\ q.total = r.total /\ (q.verify <=> r.verify)
        /\ q \in [link : DOMAIN links, seat : Seats, total : 0 .. MaxTurns, next : 0 .. MaxTurns,
                  acked : 0 .. MaxTurns, loading : BOOLEAN, verify : BOOLEAN]
    BY <1>3, <2>4, SMTT(40)
  <2>6. Becomes(r, q, L)
    BY <1>10 DEF to
  <2> HIDE DEF q
  <2>7. ComerLine(L[l], machine[links[l].of], q, log)
    BY <1>2, <2>5 DEF ComerLine
  <2> QED  BY <1>1, <1>2, <1>3, <1>7, <2>3, <2>5, <2>6, <2>7, AttemptGoesOn, Zenon
<1>11. CASE m.type = "CaughtUp" /\ m.turns = r.total /\ Becomes(r, [r EXCEPT !.verify = TRUE], L)
  <2> DEFINE q == [r EXCEPT !.verify = TRUE]
  <2>1. /\ q.seat = r.seat /\ q.link = r.link /\ q.next = r.next /\ q.acked = r.acked
        /\ q.total = r.total
        /\ q \in [link : DOMAIN links, seat : Seats, total : 0 .. MaxTurns, next : 0 .. MaxTurns,
                  acked : 0 .. MaxTurns, loading : BOOLEAN, verify : BOOLEAN]
    BY <1>3, Zenon
  <2>2. Becomes(r, q, L)
    BY <1>11
  <2> HIDE DEF q
  <2>3. L[l].copen <=> links[l].copen
    BY <1>2 DEF Only
  <2>4. ComerLine(L[l], machine[links[l].of], q, log)
    BY <1>2, <1>5, <1>6, <1>11, <2>1, <2>3, Zenon DEF ComerLine
  <2>5. Claims(r.seat, l)
    BY <1>6, <1>11 DEF Claims
  <2> QED  BY <1>1, <1>2, <1>3, <2>1, <2>2, <2>4, <2>5, AttemptGoesOn, Zenon
<1>12. CASE Failed(r, L)
  BY <1>1, <1>2, <1>12, AttemptOver, Zenon
<1>13. CASE GivenUp(r.seat, Shut(L, {l}))
  BY <1>1, <1>2, <1>13, AttemptOver, Zenon
<1> QED  BY <1>1, <1>8, <1>9, <1>10, <1>11, <1>12, <1>13, SMTT(40)

\* The links as they are.
LEMMA OnlyHere ==
  ASSUME IInv, RejoinAssumption, NEW r \in rejoiners
  PROVE  /\ Only(links, r) /\ r.link \in DOMAIN links /\ links[r.link] \in LinkRecord
         /\ "Hello" \notin Kinds(links[r.link].up)
         /\ ComerLine(links[r.link], machine[links[r.link].of], r, log)
<1>1. r.seat \in Seats
  BY TypedHere DEF IInv, Typed
<1>2. /\ r.link \in DOMAIN links /\ links[r.link] \in LinkRecord /\ links \in Seq(LinkRecord)
      /\ "Hello" \notin Kinds(links[r.link].up)
  BY <1>1, LinksOfSeat
<1>3. ComerLine(links[r.link], machine[links[r.link].of], r, log)
  BY <1>1 DEF IInv, SeatInv, Returns
<1>4. AnyLine(links[r.link], machine[links[r.link].of], TurnsKnown)
  BY <1>2, LineHere
<1> QED  BY <1>2, <1>3, <1>4 DEF Only

\* The link of an attempt has ended, or the attempt is let go.
LEMMA RejoinerEndsStep ==
  ASSUME IInv, RejoinAssumption, world' = world, NEW r \in rejoiners, RejoinerEnds(r)
  PROVE  IInv'
BY OnlyHere, AttemptOver, Zenon DEF RejoinerEnds

\* A batch is sent to him.
LEMMA StreamsStep ==
  ASSUME IInv, RejoinAssumption, world' = world, NEW r \in rejoiners, Streams(r)
  PROVE  IInv'
<1> DEFINE l == r.link
           n == Min({BatchTurns, r.total - r.next})
           lives == [k \in 1 .. n |-> log[r.next + k].life]
           x == [type |-> "Batch", first |-> r.next, lives |-> lives]
           msgs == <<x>>
           q == [r EXCEPT !.next = @ + n]
           M == Told(links, {l}, msgs)
<1>1. /\ r.next < r.total /\ UNCHANGED <<machine, log, life, deaths, faults>>
      /\ Becomes(r, q, M)
  BY DEF Streams
<1>2. /\ r \in [link : DOMAIN links, seat : Seats, total : 0 .. MaxTurns, next : 0 .. MaxTurns,
                 acked : 0 .. MaxTurns, loading : BOOLEAN, verify : BOOLEAN]
      /\ r.acked <= r.next /\ r.next <= r.total
      /\ MaxTurns \in Nat /\ BatchTurns \in Nat
  BY TypedHere DEF IInv, Typed, RejoinAssumption
<1>3. /\ Only(links, r) /\ l \in DOMAIN links /\ links[l] \in LinkRecord
      /\ "Hello" \notin Kinds(links[l].up)
      /\ ComerLine(links[l], machine[links[l].of], r, log)
  BY OnlyHere
<1>4. log \in Seq(TurnRecord) /\ Len(log) \in Nat /\ r.total = Len(log) /\ Len(log) <= MaxTurns
      /\ DOMAIN log = 1 .. Len(log)
  BY <1>3 DEF IInv, TypeOK, TurnRecord, ComerLine
<1>5. n \in Nat /\ n <= r.total - r.next
  <2>1. r.total - r.next \in Nat
    BY <1>2
  <2> QED  BY <1>2, <2>1, LesserGreater
<1> HIDE DEF n
<1>6. lives \in Seq(Lives) /\ Len(lives) = n
  <2>1. \A k \in 1 .. n : r.next + k \in DOMAIN log
    BY <1>2, <1>4, <1>5
  <2>2. \A k \in DOMAIN log : log[k] \in TurnRecord
    BY <1>4
  <2>3. \A k \in DOMAIN log : log[k].life \in Lives
    BY <2>2 DEF TurnRecord
  <2>4. \A k \in 1 .. n : lives[k] \in Lives
    BY <2>1, <2>3
  <2> QED  BY <1>5, <2>4
<1> HIDE DEF lives
<1>7. x \in Messages
  BY <1>2, <1>6, MessageKinds
<1>8. Sayable(x, TurnsKnown)
  <2>1. r.next + n <= TurnsKnown
    BY <1>2, <1>4, <1>5 DEF TurnsKnown
  <2> QED  BY <1>6, <2>1 DEF Sayable
<1>9. x.type = "Batch"
  OBVIOUS
<1> HIDE DEF x
<1>10. /\ msgs \in Seq(Messages) /\ Kinds(msgs) = {"Batch"} /\ msgs # <<>>
       /\ \A i \in DOMAIN msgs : Sayable(msgs[i], TurnsKnown)
  BY <1>7, <1>8, <1>9, FewKinds
<1>11. "Start" \notin Kinds(msgs) /\ "Turn" \notin Kinds(msgs) /\ "Presence" \notin Kinds(msgs)
  BY <1>10
<1> HIDE DEF msgs
<1>12. Only(M, r)
  BY <1>3, <1>10, <1>11, OnlyTold, Zenon
<1>13. M[l] = ToldLine(links[l], msgs)
  BY <1>3, <1>10, ToldLinks DEF Only
<1>14. M[l].up = links[l].up
  BY <1>3, <1>10, <1>13, ToldFields
<1>15. ComerLine(M[l], machine[links[l].of], r, log)
  <2> HIDE DEF l, M
  <2>1. ComerLine(ToldLine(links[l], msgs), machine[links[l].of], r, log)
    BY <1>3, <1>10, <1>11, ComerTold
  <2> QED  BY <1>13, <2>1
<1>16. /\ q.seat = r.seat /\ q.link = r.link /\ q.next = r.next + n /\ q.acked = r.acked
       /\ q.total = r.total /\ (q.verify <=> r.verify)
       /\ q \in [link : DOMAIN links, seat : Seats, total : 0 .. MaxTurns, next : 0 .. MaxTurns,
                 acked : 0 .. MaxTurns, loading : BOOLEAN, verify : BOOLEAN]
  <2>1. r.next + n \in 0 .. MaxTurns
    BY <1>2, <1>5, SMTT(40)
  <2> QED  BY <1>2, <2>1
<1> HIDE DEF q, M
<1>17. ComerLine(M[l], machine[links[l].of], q, log)
  BY <1>15, <1>16 DEF ComerLine
<1>18. q.acked <= q.next /\ q.next <= q.total
  BY <1>2, <1>5, <1>16
<1>19. q.verify => Claims(r.seat, l)
  BY <1>16 DEF Claims
<1> QED  BY <1>1, <1>12, <1>14, <1>16, <1>17, <1>18, <1>19, AttemptGoesOn, Zenon

\* The one coming back is a player again: what he holds is the match's.
LEMMA BackAtTheTable ==
  ASSUME IInv, RejoinAssumption, world' = world, NEW r \in rejoiners, r.verify,
         ~Stray(links[r.link].of),
         client' = [client EXCEPT ![r.seat] = r.link],
         att' = [att EXCEPT ![r.seat] = "Present"],
         rejoiners' = rejoiners \ {r},
         links' = Told(links, {r.link}, <<[type |-> "Presence"]>>),
         UNCHANGED <<queue, machine, log, life, deaths, faults>>
  PROVE  IInv'
<1>p. PICK l, s, k, t, msgs, c :
       /\ l = r.link /\ s = r.seat /\ k = links[r.link] /\ t = machine[links[r.link].of]
       /\ msgs = <<[type |-> "Presence"]>> /\ c = ToldLine(links[r.link], <<[type |-> "Presence"]>>)
  OBVIOUS
<1>0. /\ k = links[l] /\ t = machine[k.of] /\ c = ToldLine(k, msgs) /\ l = r.link /\ s = r.seat
      /\ ~Stray(k.of) /\ r.verify
      /\ client' = [client EXCEPT ![s] = l] /\ att' = [att EXCEPT ![s] = "Present"]
      /\ rejoiners' = rejoiners \ {r} /\ links' = Told(links, {l}, msgs)
      /\ machine' = machine /\ log' = log /\ queue' = queue
  BY <1>p
<1>1. /\ Only(links, r) /\ l \in DOMAIN links /\ k \in LinkRecord
      /\ "Hello" \notin Kinds(k.up)
      /\ ComerLine(k, t, r, log)
  BY <1>p, OnlyHere
<1>2. s \in Seats
  BY <1>p, TypedHere DEF IInv, Typed
<1>3. /\ SeatOf[k.of] = s /\ att[s] = "CatchingUp" /\ client[s] = 0
      /\ \A q \in rejoiners : q.seat = s => q = r
      /\ links \in Seq(LinkRecord)
      /\ \A x \in DOMAIN links : x # 0 /\ links[x].of \in Machines
  BY <1>p, <1>2, LinksOfSeat
<1>4. Typed /\ SeatInv(s)
  BY <1>2, TypedHere DEF IInv
<1>5. /\ msgs \in Seq(Messages) /\ Kinds(msgs) = {"Presence"} /\ msgs # <<>> /\ Len(msgs) = 1
      /\ msgs[1].type = "Presence" /\ DOMAIN msgs = {1}
      /\ \A i \in DOMAIN msgs : Sayable(msgs[i], TurnsKnown)
  <2>1. [type |-> "Presence"] \in Messages
    BY MessageKinds
  <2>2. Sayable([type |-> "Presence"], TurnsKnown)
    BY DEF Sayable
  <2> QED  BY <1>p, <2>1, <2>2, FewKinds
<1>6. /\ links' \in Seq(LinkRecord) /\ Len(links') = Len(links) /\ DOMAIN links' = DOMAIN links
      /\ links'[l] = c
      /\ \A x \in DOMAIN links : x # l => links'[x] = links[x]
  <2>1. l \in {l} /\ \A x : x # l => x \notin {l}
    OBVIOUS
  <2>2. /\ links' \in Seq(LinkRecord) /\ Len(links') = Len(links) /\ DOMAIN links' = DOMAIN links
        /\ \A x \in DOMAIN links : /\ x \in {l} => links'[x] = ToldLine(links[x], msgs)
                                   /\ x \notin {l} => links'[x] = links[x]
    <3>1. links' = Told(links, {l}, msgs)
      BY <1>0
    <3>2. links \in Seq(LinkRecord) /\ msgs \in Seq(Messages)
      BY <1>3, <1>5
    <3>3. PICK M : M = Told(links, {l}, msgs)
      OBVIOUS
    <3>4. /\ M \in Seq(LinkRecord) /\ Len(M) = Len(links) /\ DOMAIN M = DOMAIN links
          /\ \A x \in DOMAIN links : /\ x \in {l} => M[x] = ToldLine(links[x], msgs)
                                     /\ x \notin {l} => M[x] = links[x]
      BY <3>2, <3>3, ToldLinks
    <3> QED  BY <3>1, <3>3, <3>4, Zenon
  <2> QED  BY <1>0, <1>1, <2>1, <2>2, Zenon
<1>7. /\ c.of = k.of /\ (c.copen <=> k.copen) /\ c.up = k.up /\ (c.sopen <=> k.sopen)
      /\ (c.cut <=> k.cut)
      /\ Carries(k) => c.down = k.down \o msgs
      /\ ~Carries(k) => c.down = k.down
  <2>1. c = ToldLine(k, msgs)
    BY <1>0
  <2>2. k \in LinkRecord /\ msgs \in Seq(Messages)
    BY <1>1, <1>5
  <2> QED  BY <2>1, <2>2, ToldFields, Zenon
<1>8. /\ \A x \in DOMAIN links : links'[x].of = links[x].of /\ (links'[x].copen <=> links[x].copen)
      /\ client'[s] = l /\ att'[s] = "Present"
      /\ \A u \in Seats : u # s => client'[u] = client[u] /\ att'[u] = att[u]
      /\ TurnsKnown' = TurnsKnown
  <2>1. TurnsKnown' = TurnsKnown
    BY <1>0, SameWorld
  <2>2. ASSUME NEW x \in DOMAIN links
        PROVE  links'[x].of = links[x].of /\ (links'[x].copen <=> links[x].copen)
    <3>1. k = links[l]
      BY <1>0
    <3> QED  BY <1>6, <1>7, <3>1, Zenon
  <2>3. /\ client'[s] = l /\ att'[s] = "Present"
        /\ \A u \in Seats : u # s => client'[u] = client[u] /\ att'[u] = att[u]
    BY <1>0, <1>2, <1>4 DEF Typed
  <2> QED  BY <2>1, <2>2, <2>3, Zenon
<1>9. AnyLine(c, t, TurnsKnown)
  <2>1. AnyLine(k, t, TurnsKnown)
    BY <1>0, <1>1, LineHere
  <2>2. "Start" \notin Kinds(msgs) /\ "Turn" \notin Kinds(msgs) /\ msgs[1].type # "Turn"
    BY <1>5
  <2> QED  BY <1>0, <1>1, <1>5, <2>1, <2>2, AnyTold
<1>10. \A i \in DOMAIN c.down : c.down[i].type # "Turn"
  <2>1. k.down \in Seq(Messages)
    BY <1>1, LinkFields
  <2>2. Kinds(k.down \o msgs) = Kinds(k.down) \cup Kinds(msgs)
    BY <1>5, <2>1, ConcatKinds
  <2>3. "Turn" \notin Kinds(c.down)
    <3>1. "Turn" \notin Kinds(k.down)
      BY <1>1 DEF ComerLine
    <3>2. CASE Carries(k)
      <4>1. Kinds(c.down) = Kinds(k.down) \cup {"Presence"}
        BY <1>5, <1>7, <2>2, <3>2, Zenon
      <4> QED  BY <3>1, <4>1
    <3>3. CASE ~Carries(k)
      BY <1>7, <3>1, <3>3
    <3> QED  BY <3>2, <3>3
  <2> QED  BY <2>3 DEF Kinds
<1>11. k.copen => t.link = l /\ t.claimed /\ t.mode = "CatchingUp" /\ Have(t) = Len(log)
  <2> SUFFICES ASSUME k.copen PROVE t.link = l /\ t.claimed /\ t.mode = "CatchingUp" /\ Have(t) = Len(log)
    OBVIOUS
  <2>1. t.link = l /\ l # 0 /\ k.of \in Machines
    BY <1>0, <1>1, <1>3, LineHere
  <2>2. t.claimed /\ t.total = r.total /\ r.total = Len(log)
    BY <1>0, <1>1 DEF ComerLine
  <2>3. SessionInv(t, TurnsKnown)
    BY <1>0, <1>3, <1>4, <2>1 DEF SeatInv, Sessions
  <2> QED  BY <2>1, <2>2, <2>3 DEF SessionInv
<1>12. PlayerLine(c, t, log)
  <2>1. c.down \in Seq(Messages) /\ Len(c.down) \in Nat
    <3>1. c \in LinkRecord
      BY <1>0, <1>1, <1>5, ToldFields
    <3> QED  BY <3>1, LinkFields
  <2>2. k.copen /\ ~k.cut => c.down # <<>>
    <3> SUFFICES ASSUME k.copen, ~k.cut PROVE c.down # <<>>
      OBVIOUS
    <3>1. c.down = k.down \o msgs
      BY <1>1, <1>7 DEF Carries, ComerLine
    <3>2. k.down \in Seq(Messages) /\ Len(k.down) \in Nat
      BY <1>1, LinkFields
    <3>3. Len(c.down) = Len(k.down) + 1
      BY <1>5, <3>1, <3>2, ConcatFacts
    <3>4. Len(c.down) # 0
      BY <3>2, <3>3
    <3> QED  BY <3>4
  <2>3. ASSUME Have(t) = Len(log)  PROVE Coming(c.down, Have(t), log)
    <3>1. Len(log) \in Nat
      BY DEF IInv, TypeOK
    <3>2. Len(log) - Have(t) = 0
      BY <2>3, <3>1
    <3>3. 0 \in 0 .. Len(c.down) /\ DOMAIN c.down = 1 .. Len(c.down)
      BY <2>1
    <3>4. \A i \in DOMAIN c.down : ~(i > Len(c.down) - 0)
      BY <2>1, <3>3
    <3> QED  BY <1>10, <3>2, <3>3, <3>4, Zenon DEF Coming
  <2>4. c.sopen /\ "Hello" \notin Kinds(c.up)
    BY <1>1, <1>7 DEF ComerLine
  <2> QED  BY <1>7, <1>10, <1>11, <2>2, <2>3, <2>4 DEF PlayerLine
<1>13. About(s)
  BY <1>0, <1>3, <1>6, <1>8, Zenon DEF About
<1>14. Sessions(s)'
  <2>1. \A m \in Machines : SeatOf[m] = s =>
          /\ SessionInv(machine[m], TurnsKnown)
          /\ machine[m].link # 0 =>
               /\ machine[m].link \in DOMAIN links'
               /\ links'[machine[m].link].of = m
    BY <1>4, <1>6, <1>8, ZenonT(60) DEF SeatInv, Sessions
  <2> QED  BY <1>0, <1>8, <2>1, Zenon DEF Sessions
<1>15. Lines(s)'
  <2> SUFFICES ASSUME NEW x \in DOMAIN links, SeatOf[links[x].of] = s
               PROVE  /\ links[x].copen <=> machine[links[x].of].link = x
                      /\ AnyLine(links'[x], machine[links[x].of], TurnsKnown)
    BY <1>0, <1>6, <1>8, ZenonT(60) DEF Lines
  <2> QED  BY <1>0, <1>4, <1>6, <1>9, Zenon DEF SeatInv, Lines
<1>16. Player(s)'
  <2>1. links'[l].of = k.of /\ ~Stray(k.of)'
    <3>1. k = links[l] /\ l \in DOMAIN links
      BY <1>0, <1>1
    <3>2. links'[l].of = k.of
      BY <1>8, <3>1, Zenon
    <3>3. ~Stray(k.of)'
      BY <1>0, Zenon DEF Stray
    <3> QED  BY <3>2, <3>3
  <2>3. ~Stray(links[client[s]].of)'
    BY <1>8, <2>1, Zenon
  <2>2. links'[client'[s]] = c /\ c.of = k.of
    BY <1>6, <1>7, <1>8, Zenon
  <2>4. client'[s] # 0
    BY <1>1, <1>3, <1>8
  <2> QED  BY <1>0, <1>3, <1>8, <1>12, <2>2, <2>3, <2>4 DEF Player
<1>17. \A q \in rejoiners' : q.seat # s
  BY <1>0, <1>3
<1>18. Returns(s)'
  BY <1>8, <1>17 DEF Returns
<1>19. \A x : IsClient(s, x)' <=> x = l
  BY <1>8 DEF IsClient
<1>20. \A x \in DOMAIN links : IsClient(s, x) \/ IsComer(s, x) => x = l
  BY <1>0, <1>3 DEF IsClient, IsComer
<1>21. Open(s)'
  BY <1>4, <1>6, <1>8, <1>19, <1>20, ZenonT(60) DEF SeatInv, Open
<1>22. \A x \in DOMAIN links : SeatOf[links[x].of] = s /\ Claims(s, x)' => x = l
  <2> SUFFICES ASSUME NEW x \in DOMAIN links, SeatOf[links[x].of] = s, Claims(s, x)', x # l
               PROVE  FALSE
    OBVIOUS
  <2>1. "CaughtUp" \in Kinds(links[x].up)
    BY <1>6, <1>17, <1>19, Zenon DEF Claims
  <2>2. s \in Seats /\ Typed /\ SeatInv(s)
    BY <1>2, <1>4
  <2> QED  BY <1>20, <2>1, <2>2, ClaimsAreKnown
<1>23. Moved(s)'
  <2> SUFFICES ASSUME NEW x \in DOMAIN links, SeatOf[links[x].of] = s, Claims(s, x)',
                      machine[links[x].of].link \notin {0, x}
               PROVE  Untold(machine[links[x].of])'
    BY <1>0, <1>6, <1>8, Zenon DEF Moved
  <2>1. x = l /\ Claims(s, x)
    BY <1>0, <1>22, Zenon DEF Claims
  <2>2. Untold(machine[links[x].of])
    BY <1>4, <2>1 DEF SeatInv, Moved
  <2>5. links[x].of \in Machines
    BY <1>3
  <2>3. machine[links[x].of].link \in DOMAIN links
    BY <1>4, <2>5 DEF SeatInv, Sessions
  <2>4. machine[links[x].of].link # l
    BY <2>1
  <2>6. links'[machine[links[x].of].link] = links[machine[links[x].of].link]
    BY <1>6, <2>3, <2>4, Zenon
  <2>7. machine' = machine /\ links'[x].of = links[x].of
    BY <1>0, <1>8, Zenon
  <2> QED  BY <2>2, <2>6, <2>7, Zenon DEF Untold
<1>24. SeatInv(s)'
  BY <1>14, <1>15, <1>16, <1>18, <1>21, <1>23 DEF SeatInv
<1>25. Typed'
  <2>1. LinkRecord' = LinkRecord /\ SessionRecord' = SessionRecord
    BY SameWorld
  <2>2. l \in 0 .. Len(links)
    BY <1>1, <1>3
  <2>3. client' \in [Seats -> 0 .. Len(links')]
    BY <1>0, <1>4, <1>6, <2>2, Zenon DEF Typed
  <2>4. att' \in [Seats -> {"Present", "Absent", "CatchingUp", "Dropped"}]
    BY <1>0, <1>4 DEF Typed
  <2> QED  BY <1>0, <1>4, <1>6, <2>1, <2>3, <2>4, Zenon DEF Typed
<1>26. Queues(s)
  BY <1>0, <1>3, <1>8 DEF Queues
<1> QED  BY <1>2, <1>13, <1>24, <1>25, <1>26, SeatStep

\* The states are compared.
LEMMA VerifiesStep ==
  ASSUME IInv, RejoinAssumption, world' = world, NEW r \in rejoiners, Verifies(r)
  PROVE  IInv'
<1> DEFINE no == <<[type |-> "Desync"]>>
<1>1. /\ r.verify /\ UNCHANGED <<machine, log, life, deaths, faults>>
      /\ Stray(links[r.link].of) => Failed(r, Told(links, {r.link}, no))
      /\ ~Stray(links[r.link].of) =>
           /\ client' = [client EXCEPT ![r.seat] = r.link]
           /\ att' = [att EXCEPT ![r.seat] = "Present"]
           /\ rejoiners' = rejoiners \ {r}
           /\ links' = Told(links, {r.link}, <<[type |-> "Presence"]>>)
           /\ UNCHANGED queue
  BY DEF Verifies
<1>2. CASE Stray(links[r.link].of)
  <2>1. /\ no \in Seq(Messages) /\ Kinds(no) = {"Desync"} /\ no # <<>>
        /\ \A i \in DOMAIN no : Sayable(no[i], TurnsKnown)
    <3>1. [type |-> "Desync"] \in Messages
      BY MessageKinds
    <3>2. Sayable([type |-> "Desync"], TurnsKnown)
      BY DEF Sayable
    <3> QED  BY <3>1, <3>2, FewKinds
  <2> HIDE DEF no
  <2>2. "Start" \notin Kinds(no) /\ "Turn" \notin Kinds(no)
    BY <2>1
  <2>3. Only(Told(links, {r.link}, no), r)
    BY <2>1, <2>2, OnlyHere, OnlyTold, Zenon
  <2> QED  BY <1>1, <1>2, <2>3, AttemptOver, Zenon
<1>3. CASE ~Stray(links[r.link].of)
  BY <1>1, <1>3, BackAtTheTable
<1> QED  BY <1>2, <1>3

\* A link whose Hello is about to be read: nothing has been said over it, and it is nobody's
\* link yet.
LEMMA HelloHere ==
  ASSUME IInv, RejoinAssumption, NEW l \in DOMAIN links, links[l].up # <<>>,
         Head(links[l].up).type = "Hello"
  PROVE  LET k == links[l]
             t == machine[k.of]
             s == SeatOf[k.of]
         IN /\ s \in Seats /\ k \in LinkRecord /\ k.of \in Machines
            /\ k.down = <<>> /\ k.sopen /\ (k.copen => ~t.known)
            /\ Kinds(Tail(k.up)) \subseteq {"Leave"}
            /\ Head(k.up).have \in Nat
            /\ ~IsClient(s, l) /\ ~IsComer(s, l)
            /\ AnyLine(HeardLine(k), t, TurnsKnown) /\ HeardLine(k) \in LinkRecord
            /\ "Hello" \notin Kinds(HeardLine(k).up)
<1>1. PICK k, t, s : k = links[l] /\ t = machine[k.of] /\ s = SeatOf[k.of]
  OBVIOUS
<1>2. Typed
  BY TypedHere DEF IInv
<1>3. k \in LinkRecord /\ k.of \in Machines /\ l # 0 /\ k.up \in Seq(Messages) /\ k.up # <<>>
  BY <1>1, <1>2, LinkFields DEF Typed
<1>4. AnyLine(k, t, TurnsKnown) /\ s \in Seats /\ (k.copen <=> t.link = l)
  BY <1>1, LineHere
<1>5. Head(k.up) = k.up[1] /\ Head(k.up) \in Messages /\ 1 \in DOMAIN k.up /\ Head(k.up).type = "Hello"
      /\ "Hello" \in Kinds(k.up)
      /\ \A i \in DOMAIN Tail(k.up) : i + 1 \in DOMAIN k.up /\ Tail(k.up)[i] = k.up[i + 1]
  BY <1>1, <1>3, TailFacts
<1>6. Head(k.up).have \in Nat
  BY <1>5, MessageFields
<1>7. /\ k.down = <<>> /\ (k.copen => t.mode = "Rejoining") /\ k.sopen
      /\ \A j \in DOMAIN k.up : j # 1 => k.up[j].type = "Leave"
  BY <1>3, <1>4, <1>5 DEF AnyLine
<1>8. Kinds(Tail(k.up)) \subseteq {"Leave"}
  <2>1. \A i \in DOMAIN Tail(k.up) : i \in Nat \ {0}
    BY <1>3, TailFacts
  <2>2. \A i \in DOMAIN Tail(k.up) : Tail(k.up)[i].type = "Leave"
    BY <1>5, <1>7, <2>1
  <2> QED  BY <2>2 DEF Kinds
<1>9. k.copen => ~t.known
  <2>1. SessionInv(t, TurnsKnown)
    BY <1>1, <1>3, <1>4 DEF IInv, SeatInv, Sessions
  <2> QED  BY <1>3, <1>4, <1>7, <2>1 DEF SessionInv
<1>10. ~IsClient(s, l) /\ ~IsComer(s, l)
  <2>1. client[s] # 0 => "Hello" \notin Kinds(links[client[s]].up)
    BY <1>4, LinksOfSeat
  <2>2. \A r \in rejoiners : r.seat = s => "Hello" \notin Kinds(links[r.link].up)
    BY <1>4, LinksOfSeat
  <2> QED  BY <1>1, <1>3, <1>5, <2>1, <2>2 DEF IsClient, IsComer
<1>11. /\ AnyLine(HeardLine(k), t, TurnsKnown) /\ HeardLine(k) \in LinkRecord
       /\ "Hello" \notin Kinds(HeardLine(k).up)
  BY <1>3, <1>4, AnyHeard, HeardFields
<1> QED  BY <1>1, <1>3, <1>4, <1>6, <1>7, <1>8, <1>9, <1>10, <1>11

\* A player who says Hello is refused: nothing but his link ends.
LEMMA RefusedStep ==
  ASSUME IInv, RejoinAssumption, world' = world, NEW l \in DOMAIN links, links[l].up # <<>>,
         Head(links[l].up).type = "Hello", NEW why \in Reasons,
         links' = Dismissed(Read(links, l, "up"), {l}, why),
         UNCHANGED <<machine, att, client, rejoiners, log, queue, life, deaths>>,
         faults' = faults \/ Fault
  PROVE  IInv'
<1>p. PICK k, t, s, c : k = links[l] /\ t = machine[k.of] /\ s = SeatOf[k.of]
                        /\ c = RejectLine(HeardLine(k), why)
  OBVIOUS
<1>1. /\ s \in Seats /\ k \in LinkRecord /\ k.of \in Machines
      /\ ~IsClient(s, l) /\ ~IsComer(s, l)
      /\ AnyLine(HeardLine(k), t, TurnsKnown) /\ HeardLine(k) \in LinkRecord
      /\ "Hello" \notin Kinds(HeardLine(k).up) /\ k.up # <<>> /\ k.down = <<>>
  BY <1>p, HelloHere
<1>2. Typed /\ SeatInv(s) /\ links \in Seq(LinkRecord)
      /\ \A x \in DOMAIN links : x # 0 /\ links[x].of \in Machines
  BY <1>1, TypedHere, LinksOfSeat DEF IInv
<1>3. /\ links' \in Seq(LinkRecord) /\ Len(links') = Len(links) /\ DOMAIN links' = DOMAIN links
      /\ links'[l] = c
      /\ \A x \in DOMAIN links : x # l => links'[x] = links[x]
  <2>1. PICK L, M : L = Read(links, l, "up") /\ M = Dismissed(L, {l}, why)
    OBVIOUS
  <2>2. /\ L \in Seq(LinkRecord) /\ Len(L) = Len(links) /\ DOMAIN L = DOMAIN links
        /\ L[l] = HeardLine(links[l])
        /\ \A x \in DOMAIN links : x # l => L[x] = links[x]
    BY <1>2, <2>1, HeardLinks
  <2>3. /\ M \in Seq(LinkRecord) /\ Len(M) = Len(L) /\ DOMAIN M = DOMAIN L
        /\ \A x \in DOMAIN L : /\ x \in {l} => M[x] = RejectLine(L[x], why)
                               /\ x \notin {l} => M[x] = L[x]
    BY <2>1, <2>2, DismissedLinks
  <2>4. links' = M
    BY <2>1
  <2> QED  BY <1>p, <2>2, <2>3, <2>4, Zenon
<1>4. /\ c.of = k.of /\ c.up = <<>> /\ (c.copen <=> k.copen) /\ ~c.sopen
      /\ Kinds(c.down) \subseteq {"Reject"}
  <2>1. /\ HeardLine(k).of = k.of /\ (HeardLine(k).copen <=> k.copen)
        /\ HeardLine(k).down = <<>>
    BY <1>1, HeardFields
  <2>2. /\ c.of = HeardLine(k).of /\ c.up = <<>> /\ (c.copen <=> HeardLine(k).copen) /\ ~c.sopen
        /\ Kinds(c.down) \subseteq Kinds(HeardLine(k).down) \cup {"Reject"}
    BY <1>p, <1>1, RejectFields, Zenon
  <2>3. Kinds(HeardLine(k).down) = {}
    BY <2>1, FewKinds
  <2> QED  BY <2>1, <2>2, <2>3
<1>5. AnyLine(c, t, TurnsKnown)
  BY <1>p, <1>1, AnyRejected
<1>6. /\ machine' = machine /\ log' = log /\ client' = client /\ rejoiners' = rejoiners /\ att' = att
      /\ queue' = queue
  OBVIOUS
<1>7. TurnsKnown' = TurnsKnown
  BY SameWorld
<1>8. \A x \in DOMAIN links : links'[x].of = links[x].of /\ (links'[x].copen <=> links[x].copen)
  <2>1. k = links[l]
    BY <1>p
  <2>2. ASSUME NEW x \in DOMAIN links
        PROVE  links'[x].of = links[x].of /\ (links'[x].copen <=> links[x].copen)
    BY <1>3, <1>4, <2>1, Zenon
  <2> QED  BY <2>2, Zenon
<1>9. About(s)
  BY <1>p, <1>3, <1>6, <1>8, Zenon DEF About
<1>10. Sessions(s)'
  <2>1. \A m \in Machines : SeatOf[m] = s =>
          /\ SessionInv(machine[m], TurnsKnown)
          /\ machine[m].link # 0 =>
               /\ machine[m].link \in DOMAIN links'
               /\ links'[machine[m].link].of = m
    BY <1>2, <1>3, <1>8, Zenon DEF SeatInv, Sessions
  <2> QED  BY <1>6, <1>7, <2>1, Zenon DEF Sessions
<1>11. Lines(s)'
  <2>1. ASSUME NEW x \in DOMAIN links, SeatOf[links[x].of] = s
        PROVE  /\ links[x].copen <=> machine[links[x].of].link = x
               /\ AnyLine(links'[x], machine[links[x].of], TurnsKnown)
    <3>1. /\ links[x].copen <=> machine[links[x].of].link = x
          /\ AnyLine(links[x], machine[links[x].of], TurnsKnown)
      BY <1>2, <2>1 DEF SeatInv, Lines
    <3>2. x = l => links'[x] = c /\ machine[links[x].of] = t
      BY <1>p, <1>3
    <3> QED  BY <1>3, <1>5, <3>1, <3>2, Zenon
  <2>2. ASSUME NEW x \in DOMAIN links', SeatOf[links'[x].of] = s
        PROVE  /\ links'[x].copen <=> machine[links'[x].of].link = x
               /\ AnyLine(links'[x], machine[links'[x].of], TurnsKnown)
    <3>1. /\ x \in DOMAIN links /\ links'[x].of = links[x].of
          /\ links'[x].copen <=> links[x].copen
      BY <1>3, <1>8, Zenon
    <3> QED  BY <2>1, <2>2, <3>1, Zenon
  <2> QED  BY <1>6, <1>7, <2>2, Zenon DEF Lines
<1>12. Player(s)'
  <2>1. client[s] # 0 => client[s] \in DOMAIN links /\ client[s] # l
    BY <1>1, LinksOfSeat DEF IsClient
  <2>2. client[s] # 0 => links'[client[s]] = links[client[s]]
    BY <1>3, <2>1, Zenon
  <2>3. client[s] # 0 => ~Stray(links[client[s]].of)'
    <3> SUFFICES ASSUME client[s] # 0 PROVE ~Stray(links[client[s]].of)'
      OBVIOUS
    <3>1. PICK w : w = links[client[s]].of
      OBVIOUS
    <3>2. ~Stray(w)
      BY <1>2, <3>1 DEF SeatInv, Player
    <3>3. ~Stray(w)'
      BY <1>6, <3>2 DEF Stray
    <3>4. links'[client'[s]].of = w
      BY <1>6, <2>2, <3>1
    <3> QED  BY <3>3, <3>4
  <2> QED  BY <1>2, <1>6, <2>2, <2>3 DEF SeatInv, Player
<1>13. Returns(s)'
  <2>1. \A r \in rejoiners : r.seat = s => links'[r.link] = links[r.link]
    <3> SUFFICES ASSUME NEW r \in rejoiners, r.seat = s PROVE links'[r.link] = links[r.link]
      BY Zenon
    <3>1. r.link \in DOMAIN links
      BY <1>1, LinksOfSeat
    <3>2. r.link # l
      BY <1>1 DEF IsComer
    <3> QED  BY <1>3, <3>1, <3>2, Zenon
  <2>2. \A r \in rejoiners : r.seat = s =>
          /\ SeatOf[links'[r.link].of] = s /\ att[s] = "CatchingUp"
          /\ ComerLine(links'[r.link], machine[links'[r.link].of], r, log)
    BY <1>2, <2>1, Zenon DEF SeatInv, Returns
  <2>3. /\ \A q, r \in rejoiners : q.seat = s /\ r.seat = s => q = r
        /\ att[s] = "CatchingUp" => \E r \in rejoiners : r.seat = s
    BY <1>2 DEF SeatInv, Returns
  <2>4. ASSUME NEW r \in rejoiners', r.seat = s
        PROVE  /\ SeatOf[links'[r.link].of] = s /\ att'[s] = "CatchingUp"
               /\ ComerLine(links'[r.link], machine'[links'[r.link].of], r, log')
    <3>1. r \in rejoiners
      BY <1>6
    <3>2. /\ SeatOf[links'[r.link].of] = s /\ att[s] = "CatchingUp"
          /\ ComerLine(links'[r.link], machine[links'[r.link].of], r, log)
      BY <2>2, <2>4, <3>1, Zenon
    <3> QED  BY <1>6, <3>2
  <2>5. /\ \A q, r \in rejoiners' : q.seat = s /\ r.seat = s => q = r
        /\ att'[s] = "CatchingUp" => \E r \in rejoiners' : r.seat = s
    BY <1>6, <2>3
  <2> QED  BY <2>4, <2>5, Zenon DEF Returns
<1>14. \A x : (IsClient(s, x)' <=> IsClient(s, x)) /\ (IsComer(s, x)' <=> IsComer(s, x))
  BY <1>6 DEF IsClient, IsComer
<1>15. Open(s)'
  BY <1>2, <1>3, <1>4, <1>8, <1>14, Zenon DEF SeatInv, Open
<1>16. \A x \in DOMAIN links : Claims(s, x)' => Claims(s, x) /\ x # l
  <2> SUFFICES ASSUME NEW x \in DOMAIN links, Claims(s, x)' PROVE Claims(s, x) /\ x # l
    OBVIOUS
  <2>1. CASE x # l
    BY <1>3, <1>6, <1>14, <2>1, Zenon DEF Claims
  <2>2. CASE x = l
    <3>1. Kinds(links'[x].up) = {}
      BY <1>3, <1>4, <2>2, FewKinds
    <3> QED  BY <1>1, <1>6, <1>14, <2>2, <3>1, Zenon DEF Claims, IsComer
  <2> QED  BY <2>1, <2>2
<1>17. Moved(s)'
  <2> SUFFICES ASSUME NEW x \in DOMAIN links, SeatOf[links[x].of] = s, Claims(s, x)',
                      machine[links[x].of].link \notin {0, x}
               PROVE  Untold(machine[links[x].of])'
    BY <1>3, <1>6, <1>8, Zenon DEF Moved
  <2>1. PICK y : y = machine[links[x].of].link
    OBVIOUS
  <2>2. Untold(machine[links[x].of])
    BY <1>2, <1>16 DEF SeatInv, Moved
  <2>3. y \in DOMAIN links
    BY <1>2, <2>1 DEF SeatInv, Sessions
  <2>4. Kinds(links'[y].down) \subseteq {"Reject"}
    BY <1>3, <1>4, <2>1, <2>2, <2>3, Zenon DEF Untold
  <2>5. links'[x].of = links[x].of /\ machine' = machine
    BY <1>6, <1>8, Zenon
  <2> QED  BY <2>1, <2>2, <2>4, <2>5, Zenon DEF Untold
<1>18. SeatInv(s)'
  BY <1>10, <1>11, <1>12, <1>13, <1>15, <1>17 DEF SeatInv
<1>19. Typed'
  <2>1. LinkRecord' = LinkRecord /\ SessionRecord' = SessionRecord
    BY SameWorld
  <2> QED  BY <1>2, <1>3, <1>6, <2>1, Zenon DEF Typed
<1>20. Queues(s)
  BY <1>6 DEF Queues
<1> QED  BY <1>1, <1>9, <1>18, <1>19, <1>20, SeatStep

\* A player who says Hello is let in: whatever his seat had is over, and he is coming back.
LEMMA AcceptsStep ==
  ASSUME IInv, RejoinAssumption, world' = world, NEW l \in DOMAIN links, links[l].up # <<>>,
         Head(links[l].up).type = "Hello", att[SeatOf[links[l].of]] # "Dropped",
         Head(links[l].up).have <= Len(log),
         Accepts(l, SeatOf[links[l].of], Head(links[l].up).have),
         UNCHANGED <<machine, log, queue, life, deaths, faults>>
  PROVE  IInv'
<1>p. PICK k, t, s, have, h, S, answer, msgs, d, q :
        /\ k = links[l] /\ t = machine[links[l].of] /\ s = SeatOf[links[l].of]
        /\ have = Head(links[l].up).have /\ h = HeardLine(links[l])
        /\ S = TakenOver(SeatOf[links[l].of], l)
        /\ answer = IF have = 0 THEN [type |-> "Start"]
                    ELSE [type |-> "CatchUp", first |-> have, total |-> Len(log)]
        /\ msgs = <<[type |-> "Welcome"], answer>>
        /\ d = ToldLine(h, msgs)
        /\ q = [link |-> l, seat |-> s, total |-> Len(log), next |-> have, acked |-> have,
                loading |-> (have = 0), verify |-> FALSE]
  BY Zenon
<1>0. /\ k = links[l] /\ t = machine[k.of] /\ s = SeatOf[k.of] /\ h = HeardLine(k)
      /\ d = ToldLine(h, msgs) /\ have = Head(k.up).have /\ have <= Len(log) /\ att[s] # "Dropped"
  BY <1>p
<1>a. /\ links' = Told(Dismissed(Read(links, l, "up"), S, "Superseded"), {l}, msgs)
      /\ client' = [client EXCEPT ![s] = 0]
      /\ att' = [att EXCEPT ![s] = "CatchingUp"]
      /\ rejoiners' = {r \in rejoiners : r.link \notin S} \cup {q}
  BY <1>p DEF Accepts
<1>b. machine' = machine /\ log' = log /\ queue' = queue /\ TurnsKnown' = TurnsKnown
  BY SameWorld
<1>1. /\ s \in Seats /\ k \in LinkRecord /\ k.of \in Machines
      /\ ~IsClient(s, l) /\ ~IsComer(s, l)
      /\ AnyLine(h, t, TurnsKnown) /\ h \in LinkRecord
      /\ "Hello" \notin Kinds(h.up) /\ k.up # <<>> /\ k.down = <<>>
      /\ k.sopen /\ (k.copen => ~t.known)
      /\ Kinds(Tail(k.up)) \subseteq {"Leave"}
      /\ have \in Nat
  BY <1>0, HelloHere
<1>2. Typed /\ SeatInv(s) /\ links \in Seq(LinkRecord)
      /\ \A x \in DOMAIN links : x # 0 /\ links[x] \in LinkRecord /\ links[x].of \in Machines
  BY <1>1, TypedHere, LinksOfSeat DEF IInv
<1>3. Len(log) \in Nat /\ Len(log) <= MaxTurns /\ Len(log) <= TurnsKnown /\ MaxTurns \in Nat
  <2>1. Len(log) \in Nat /\ Len(log) <= MaxTurns /\ MaxTurns \in Nat
    BY DEF IInv, TypeOK, RejoinAssumption
  <2> QED  BY <2>1 DEF TurnsKnown
<1>4. \A x \in DOMAIN links : x \in S <=> IsClient(s, x) \/ IsComer(s, x)
  <2>1. S = ({client[s]} \cup Comer(s)) \ {0, l}
    BY <1>p DEF TakenOver
  <2> QED  BY <1>1, <1>2, <2>1 DEF Comer, IsClient, IsComer
<1>5. \A x \in S : /\ x \in DOMAIN links /\ SeatOf[links[x].of] = s /\ x # l
                   /\ "Hello" \notin Kinds(links[x].up)
  <2>1. S = ({client[s]} \cup Comer(s)) \ {0, l}
    BY <1>p DEF TakenOver
  <2> QED  BY <1>1, <2>1, LinksOfSeat DEF Comer
<1>6. /\ msgs \in Seq(Messages) /\ msgs # <<>> /\ Len(msgs) = 2 /\ msgs[1].type = "Welcome"
      /\ "Turn" \notin Kinds(msgs) /\ "Presence" \notin Kinds(msgs)
      /\ \A i \in DOMAIN msgs : Sayable(msgs[i], TurnsKnown)
  <2>1. [type |-> "Welcome"] \in Messages
    BY MessageKinds
  <2>2. answer \in Messages /\ answer.type \in {"Start", "CatchUp"} /\ Sayable(answer, TurnsKnown)
    <3>1. CASE have = 0
      <4>1. answer = [type |-> "Start"]
        BY <1>p, <3>1
      <4> QED  BY <4>1, MessageKinds DEF Sayable
    <3>2. CASE have # 0
      <4>1. answer = [type |-> "CatchUp", first |-> have, total |-> Len(log)]
        BY <1>p, <3>2
      <4>2. answer \in Messages
        BY <1>1, <1>3, <4>1, MessageKinds
      <4> QED  BY <1>0, <1>3, <4>1, <4>2 DEF Sayable
    <3> QED  BY <3>1, <3>2
  <2>3. Sayable([type |-> "Welcome"], TurnsKnown)
    BY DEF Sayable
  <2>4. msgs = <<[type |-> "Welcome"], answer>>
    BY <1>p
  <2>5. /\ Kinds(msgs) = {"Welcome", answer.type} /\ Len(msgs) = 2
        /\ msgs[1] = [type |-> "Welcome"] /\ msgs[2] = answer
    BY <2>4, FewKinds
  <2>6. msgs \in Seq(Messages) /\ msgs # <<>>
    BY <2>1, <2>2, <2>4
  <2>7. DOMAIN msgs = {1, 2}
    BY <2>4
  <2> QED  BY <2>2, <2>3, <2>5, <2>6, <2>7
<1>7. /\ links' \in Seq(LinkRecord) /\ Len(links') = Len(links) /\ DOMAIN links' = DOMAIN links
      /\ links'[l] = d
      /\ \A x \in S : links'[x] = RejectLine(links[x], "Superseded")
      /\ \A x \in DOMAIN links : x # l /\ x \notin S => links'[x] = links[x]
  <2>1. PICK L, M, N : L = Read(links, l, "up") /\ M = Dismissed(L, S, "Superseded")
                       /\ N = Told(M, {l}, msgs)
    OBVIOUS
  <2>2. /\ L \in Seq(LinkRecord) /\ Len(L) = Len(links) /\ DOMAIN L = DOMAIN links
        /\ L[l] = HeardLine(links[l])
        /\ \A x \in DOMAIN links : x # l => L[x] = links[x]
    BY <1>2, <2>1, HeardLinks
  <2>3. /\ M \in Seq(LinkRecord) /\ Len(M) = Len(L) /\ DOMAIN M = DOMAIN L
        /\ \A x \in DOMAIN L : /\ x \in S => M[x] = RejectLine(L[x], "Superseded")
                               /\ x \notin S => M[x] = L[x]
    BY <2>1, <2>2, DismissedLinks DEF Reasons
  <2>4. /\ N \in Seq(LinkRecord) /\ Len(N) = Len(M) /\ DOMAIN N = DOMAIN M
        /\ \A x \in DOMAIN M : /\ x \in {l} => N[x] = ToldLine(M[x], msgs)
                               /\ x \notin {l} => N[x] = M[x]
    BY <1>6, <2>1, <2>3, ToldLinks
  <2>5. links' = N
    BY <1>a, <2>1
  <2>6. N[l] = d
    BY <1>0, <1>5, <2>2, <2>3, <2>4
  <2>7. \A x \in S : N[x] = RejectLine(links[x], "Superseded")
    BY <1>5, <2>2, <2>3, <2>4
  <2>8. \A x \in DOMAIN links : x # l /\ x \notin S => N[x] = links[x]
    BY <2>2, <2>3, <2>4
  <2> QED  BY <2>2, <2>3, <2>4, <2>5, <2>6, <2>7, <2>8
<1>8. /\ d.of = k.of /\ d.up = Tail(k.up) /\ (d.copen <=> k.copen) /\ d.sopen
      /\ Kinds(d.down) \subseteq Kinds(msgs)
  <2>1. /\ h.of = k.of /\ h.up = Tail(k.up) /\ (h.copen <=> k.copen) /\ (h.sopen <=> k.sopen)
        /\ h.down = <<>>
    BY <1>0, <1>1, HeardFields
  <2>2. /\ d.of = h.of /\ d.up = h.up /\ (d.copen <=> h.copen) /\ (d.sopen <=> h.sopen)
        /\ d.down = h.down \/ d.down = h.down \o msgs
    <3>1. d = ToldLine(h, msgs)
      BY <1>0
    <3>2. h \in LinkRecord /\ msgs \in Seq(Messages)
      BY <1>1, <1>6
    <3> QED  BY <3>1, <3>2, ToldFields, Zenon
  <2>3. h.down \o msgs = msgs
    BY <1>6, <2>1
  <2>4. Kinds(h.down) = {}
    BY <2>1, FewKinds
  <2> QED  BY <1>1, <2>1, <2>2, <2>3, <2>4
<1>9. AnyLine(d, t, TurnsKnown)
  <2>1. /\ h.down = <<>> /\ (h.copen => ~t.known)
    BY <1>0, <1>1, HeardFields
  <2>2. Len(msgs) = 2 /\ msgs[1].type = "Welcome"
    BY <1>6
  <2>3. msgs[1].type # "Turn" /\ "Turn" \notin Kinds(msgs)
    BY <1>6
  <2>4. AnyLine(ToldLine(h, msgs), t, TurnsKnown)
    BY <1>1, <1>6, <2>1, <2>2, <2>3, AnyTold
  <2> QED  BY <1>0, <2>4
<1>10. /\ q.link = l /\ q.seat = s /\ q.total = Len(log) /\ q.next = have /\ q.acked = have
       /\ ~q.verify
       /\ q \in [link : DOMAIN links, seat : Seats, total : 0 .. MaxTurns, next : 0 .. MaxTurns,
                 acked : 0 .. MaxTurns, loading : BOOLEAN, verify : BOOLEAN]
  <2>1. q = [link |-> l, seat |-> s, total |-> Len(log), next |-> have, acked |-> have,
                loading |-> (have = 0), verify |-> FALSE]
    BY <1>p
  <2>2. have \in 0 .. MaxTurns /\ Len(log) \in 0 .. MaxTurns
    BY <1>0, <1>1, <1>3
  <2> QED  BY <1>1, <2>1, <2>2
<1>11. ComerLine(d, t, q, log)
  <2>1. "Hello" \notin Kinds(d.up) /\ "CaughtUp" \notin Kinds(d.up)
    BY <1>1, <1>8
  <2>2. \A i \in DOMAIN d.up : d.up[i].type # "CaughtUp"
    BY <2>1 DEF Kinds
  <2>3. "Presence" \notin Kinds(d.down) /\ "Turn" \notin Kinds(d.down)
    BY <1>6, <1>8
  <2> QED  BY <1>8, <1>10, <2>1, <2>2, <2>3 DEF ComerLine
<1>12. \A x \in S : /\ links'[x].of = links[x].of /\ links'[x].up = <<>>
                    /\ (links'[x].copen <=> links[x].copen) /\ ~links'[x].sopen
                    /\ AnyLine(links'[x], machine[links[x].of], TurnsKnown)
  <2> SUFFICES ASSUME NEW x \in S
               PROVE  /\ links'[x].of = links[x].of /\ links'[x].up = <<>>
                      /\ (links'[x].copen <=> links[x].copen) /\ ~links'[x].sopen
                      /\ AnyLine(links'[x], machine[links[x].of], TurnsKnown)
    OBVIOUS
  <2>1. PICK y, w, why : y = links[x] /\ w = machine[links[x].of] /\ why = "Superseded"
    OBVIOUS
  <2>2. y \in LinkRecord /\ "Hello" \notin Kinds(y.up) /\ why \in Reasons
    BY <1>2, <1>5, <2>1 DEF Reasons
  <2>3. AnyLine(y, w, TurnsKnown)
    BY <1>5, <2>1, LineHere
  <2>4. links'[x] = RejectLine(y, why)
    BY <1>7, <2>1
  <2>5. AnyLine(RejectLine(y, why), w, TurnsKnown)
    BY <2>2, <2>3, AnyRejected
  <2>6. /\ RejectLine(y, why).of = y.of /\ RejectLine(y, why).up = <<>>
        /\ (RejectLine(y, why).copen <=> y.copen) /\ ~RejectLine(y, why).sopen
    BY <2>2, RejectFields
  <2> QED  BY <2>1, <2>4, <2>5, <2>6
<1>13. \A x \in DOMAIN links : links'[x].of = links[x].of /\ (links'[x].copen <=> links[x].copen)
  <2> SUFFICES ASSUME NEW x \in DOMAIN links
               PROVE  links'[x].of = links[x].of /\ (links'[x].copen <=> links[x].copen)
    OBVIOUS
  <2>1. CASE x = l
    BY <1>0, <1>7, <1>8, <2>1
  <2>2. CASE x \in S
    BY <1>12, <2>2
  <2>3. CASE x # l /\ x \notin S
    BY <1>7, <2>3
  <2> QED  BY <2>1, <2>2, <2>3
<1>14. /\ client'[s] = 0 /\ att'[s] = "CatchingUp"
       /\ \A u \in Seats : u # s => client'[u] = client[u] /\ att'[u] = att[u]
  BY <1>a, <1>1, <1>2 DEF Typed
<1>15. \A r \in rejoiners : r.link \in S <=> r.seat = s
  <2> SUFFICES ASSUME NEW r \in rejoiners PROVE r.link \in S <=> r.seat = s
    OBVIOUS
  <2>1. r.seat \in Seats
    BY <1>1, LinksOfSeat
  <2>2. r.link \in DOMAIN links /\ SeatOf[links[r.link].of] = r.seat
    BY <2>1, LinksOfSeat
  <2>3. CASE r.seat = s
    BY <1>4, <2>2, <2>3 DEF IsComer
  <2>4. CASE r.seat # s
    BY <1>5, <2>2, <2>4
  <2> QED  BY <2>3, <2>4
<1>16. /\ \A r : r.seat # s => (r \in rejoiners' <=> r \in rejoiners)
       /\ \A r \in rejoiners' : r.seat = s => r = q
       /\ q \in rejoiners'
  BY <1>a, <1>10, <1>15
<1>17. About(s)
  <2>1. \A x \in DOMAIN links : SeatOf[links[x].of] # s => links'[x] = links[x]
    BY <1>0, <1>5, <1>7
  <2> QED  BY <1>7, <1>13, <1>14, <1>16, <1>b, <2>1 DEF About
<1>18. Sessions(s)'
  <2>1. \A m \in Machines : SeatOf[m] = s =>
          /\ SessionInv(machine[m], TurnsKnown)
          /\ machine[m].link # 0 =>
               /\ machine[m].link \in DOMAIN links'
               /\ links'[machine[m].link].of = m
    BY <1>2, <1>7, <1>13, Zenon DEF SeatInv, Sessions
  <2> QED  BY <1>b, <2>1 DEF Sessions
<1>19. Lines(s)'
  <2>1. ASSUME NEW x \in DOMAIN links, SeatOf[links[x].of] = s
        PROVE  /\ links[x].copen <=> machine[links[x].of].link = x
               /\ AnyLine(links'[x], machine[links[x].of], TurnsKnown)
    <3>1. /\ links[x].copen <=> machine[links[x].of].link = x
          /\ AnyLine(links[x], machine[links[x].of], TurnsKnown)
      BY <1>2, <2>1 DEF SeatInv, Lines
    <3>2. x = l => links'[x] = d /\ machine[links[x].of] = t
      BY <1>0, <1>7
    <3> QED  BY <1>7, <1>9, <1>12, <3>1, <3>2
  <2>2. ASSUME NEW x \in DOMAIN links', SeatOf[links'[x].of] = s
        PROVE  /\ links'[x].copen <=> machine[links'[x].of].link = x
               /\ AnyLine(links'[x], machine[links'[x].of], TurnsKnown)
    <3>1. /\ x \in DOMAIN links /\ links'[x].of = links[x].of
          /\ links'[x].copen <=> links[x].copen
      BY <1>7, <1>13
    <3> QED  BY <2>1, <2>2, <3>1
  <2> QED  BY <1>b, <2>2 DEF Lines
<1>20. Player(s)'
  BY <1>14 DEF Player
<1>21. Returns(s)'
  <2>1. /\ SeatOf[links'[q.link].of] = s
        /\ ComerLine(links'[q.link], machine[links'[q.link].of], q, log)
    BY <1>0, <1>7, <1>8, <1>10, <1>11
  <2>2. ASSUME NEW r \in rejoiners', r.seat = s
        PROVE  /\ SeatOf[links'[r.link].of] = s /\ att'[s] = "CatchingUp"
               /\ ComerLine(links'[r.link], machine'[links'[r.link].of], r, log')
    <3>1. r = q
      BY <1>16, <2>2
    <3> QED  BY <1>14, <1>b, <2>1, <3>1
  <2>3. /\ \A p, r \in rejoiners' : p.seat = s /\ r.seat = s => p = r
        /\ att'[s] = "CatchingUp" => \E r \in rejoiners' : r.seat = s
    BY <1>10, <1>16
  <2> QED  BY <2>2, <2>3 DEF Returns
<1>22. IsComer(s, l)'
  BY <1>10, <1>16 DEF IsComer
<1>23. Open(s)'
  <2> SUFFICES ASSUME NEW x \in DOMAIN links, SeatOf[links[x].of] = s, links'[x].sopen, x # l
               PROVE  Unheard(links'[x])
    BY <1>7, <1>13, <1>22 DEF Open
  <2>1. x \notin S
    BY <1>12
  <2>2. links'[x] = links[x]
    BY <1>7, <2>1
  <2>3. ~IsClient(s, x) /\ ~IsComer(s, x)
    BY <1>4, <2>1
  <2> QED  BY <1>2, <2>2, <2>3 DEF SeatInv, Open
<1>24. \A x \in DOMAIN links : SeatOf[links[x].of] = s => ~Claims(s, x)'
  <2> SUFFICES ASSUME NEW x \in DOMAIN links, SeatOf[links[x].of] = s, Claims(s, x)'
               PROVE  FALSE
    OBVIOUS
  <2>1. "CaughtUp" \in Kinds(links'[x].up)
    BY <1>2, <1>10, <1>14, <1>16 DEF Claims, IsClient
  <2>2. CASE x = l
    BY <1>1, <1>7, <1>8, <2>1, <2>2
  <2>3. CASE x \in S
    <3>1. Kinds(links'[x].up) = {}
      BY <1>12, <2>3, FewKinds
    <3> QED  BY <2>1, <3>1
  <2>4. CASE x # l /\ x \notin S
    <3>1. "CaughtUp" \in Kinds(links[x].up)
      BY <1>7, <2>1, <2>4
    <3>2. s \in Seats /\ Typed /\ SeatInv(s)
      BY <1>1, <1>2
    <3>3. IsClient(s, x) \/ IsComer(s, x)
      BY <3>1, <3>2, ClaimsAreKnown
    <3> QED  BY <1>4, <2>4, <3>3
  <2> QED  BY <2>2, <2>3, <2>4
<1>25. Moved(s)'
  BY <1>7, <1>13, <1>24 DEF Moved
<1>26. SeatInv(s)'
  BY <1>18, <1>19, <1>20, <1>21, <1>23, <1>25 DEF SeatInv
<1>27. Typed'
  <2>1. LinkRecord' = LinkRecord /\ SessionRecord' = SessionRecord
    BY SameWorld
  <2>2. client' \in [Seats -> 0 .. Len(links)]
    <3>1. 0 \in 0 .. Len(links)
      BY <1>2
    <3> QED  BY <1>a, <1>2, <3>1, Zenon DEF Typed
  <2>3. att' \in [Seats -> {"Present", "Absent", "CatchingUp", "Dropped"}]
    BY <1>a, <1>2, Zenon DEF Typed
  <2>4. q.acked <= q.next /\ q.next <= q.total
    BY <1>0, <1>1, <1>3, <1>10
  <2>5. \A r \in rejoiners' : r \in rejoiners \/ r = q
    BY <1>a
  <2> QED  BY <1>2, <1>7, <1>b, <1>10, <2>1, <2>2, <2>3, <2>4, <2>5 DEF Typed
<1>28. Queues(s)
  BY <1>0, <1>b, <1>14 DEF Queues
<1> QED  BY <1>1, <1>17, <1>26, <1>27, <1>28, SeatStep

\* A Hello is heard.
LEMMA HearsHelloStep ==
  ASSUME IInv, RejoinAssumption, world' = world, NEW l \in DOMAIN links, HearsHello(l)
  PROVE  IInv'
<1>1. /\ links[l].up # <<>> /\ Head(links[l].up).type = "Hello"
      /\ UNCHANGED <<machine, log, queue, life, deaths>> /\ (faults' = faults \/ Fault)
      /\ \/ /\ \E why \in Reasons : links' = Dismissed(Read(links, l, "up"), {l}, why)
            /\ UNCHANGED <<att, client, rejoiners>>
         \/ /\ att[SeatOf[links[l].of]] # "Dropped" /\ faults' = faults
            /\ Head(links[l].up).have <= Len(log)
            /\ Accepts(l, SeatOf[links[l].of], Head(links[l].up).have)
  BY DEF HearsHello, Reasons
<1>2. CASE /\ \E why \in Reasons : links' = Dismissed(Read(links, l, "up"), {l}, why)
           /\ UNCHANGED <<att, client, rejoiners>>
  <2> PICK why \in Reasons : links' = Dismissed(Read(links, l, "up"), {l}, why)
    BY <1>2
  <2> QED  BY <1>1, <1>2, RefusedStep
<1>3. CASE /\ att[SeatOf[links[l].of]] # "Dropped" /\ faults' = faults
           /\ Head(links[l].up).have <= Len(log)
           /\ Accepts(l, SeatOf[links[l].of], Head(links[l].up).have)
  BY <1>1, <1>3, AcceptsStep
<1> QED  BY <1>1, <1>2, <1>3, Zenon
------------------------------------------------------------------------------
(* A step of a machine *)

\* What the links of machine m of seat s are after a step that leaves it with session u.
OwnLinks(m, s, u) ==
  /\ \A x \in DOMAIN links' : links'[x].of = m =>
       /\ links'[x].copen <=> u.link = x
       /\ AnyLine(links'[x], u, TurnsKnown)
       /\ links'[x].sopen => IsClient(s, x) \/ IsComer(s, x) \/ Unheard(links'[x])
       /\ Claims(s, x)' =>
            \/ u.link \in {0, x}
            \/ u.mode = "Rejoining" /\ Kinds(links'[u.link].down) \subseteq {"Reject"}
  /\ client[s] # 0 /\ links[client[s]].of = m =>
       /\ PlayerLine(links'[client[s]], u, log)
       /\ ~Stray(m)'
  /\ \A r \in rejoiners : links[r.link].of = m => ComerLine(links'[r.link], u, r, log)

\* What has to be shown of a step in which machine m, and its links, are all that changes.
LEMMA OwnStep ==
  ASSUME IInv, RejoinAssumption, world' = world, UNCHANGED server, faults' = faults \/ Fault,
         NEW m \in Machines, NEW s, s = SeatOf[m],
         NEW u \in SessionRecord, u.done <= Have(u), machine' = [machine EXCEPT ![m] = u],
         links' \in Seq(LinkRecord), Len(links) <= Len(links'),
         \A x \in DOMAIN links : /\ links'[x].of = links[x].of
                                 /\ links[x].of # m => links'[x] = links[x],
         \A x \in DOMAIN links' : x \notin DOMAIN links => links'[x].of = m,
         SessionInv(u, TurnsKnown),
         u.link # 0 => u.link \in DOMAIN links' /\ links'[u.link].of = m,
         OwnLinks(m, s, u)
  PROVE  IInv'
<1> USE DEF OwnLinks
<1>1. s \in Seats
  BY DEF RejoinAssumption
<1>2. Typed /\ SeatInv(s) /\ links \in Seq(LinkRecord)
      /\ \A x \in DOMAIN links : x # 0 /\ links[x] \in LinkRecord /\ links[x].of \in Machines
  BY <1>1, TypedHere, LinksOfSeat DEF IInv
<1>3. /\ client' = client /\ att' = att /\ rejoiners' = rejoiners /\ log' = log /\ queue' = queue
      /\ life' = life /\ deaths' = deaths
  BY DEF server
<1>4. TurnsKnown' = TurnsKnown
  BY <1>3, SameWorld
<1>5. /\ machine'[m] = u
      /\ \A w \in Machines : w # m => machine'[w] = machine[w]
  BY <1>2 DEF Typed
<1>6. DOMAIN links \subseteq DOMAIN links'
  BY <1>2
<1>7. About(s)
  BY <1>3, <1>5, <1>6 DEF About
<1>8. \A x \in DOMAIN links' : links'[x].of # m =>
        /\ x \in DOMAIN links /\ links'[x] = links[x] /\ links[x].of \in Machines
        /\ machine'[links[x].of] = machine[links[x].of]
  BY <1>2, <1>5
<1>9. Sessions(s)'
  <2>1. ASSUME NEW w \in Machines, SeatOf[w] = s
        PROVE  /\ SessionInv(machine'[w], TurnsKnown)
               /\ machine'[w].link # 0 =>
                    /\ machine'[w].link \in DOMAIN links'
                    /\ links'[machine'[w].link].of = w
    <3>1. CASE w = m
      BY <1>5, <3>1
    <3>2. CASE w # m
      <4>1. /\ SessionInv(machine[w], TurnsKnown)
            /\ machine[w].link # 0 =>
                 /\ machine[w].link \in DOMAIN links
                 /\ links[machine[w].link].of = w
        BY <1>2, <2>1 DEF SeatInv, Sessions
      <4> QED  BY <1>5, <1>6, <3>2, <4>1
    <3> QED  BY <3>1, <3>2
  <2> QED  BY <1>4, <2>1 DEF Sessions
<1>10. Lines(s)'
  <2>1. ASSUME NEW x \in DOMAIN links', SeatOf[links'[x].of] = s
        PROVE  /\ links'[x].copen <=> machine'[links'[x].of].link = x
               /\ AnyLine(links'[x], machine'[links'[x].of], TurnsKnown)
    <3>1. CASE links'[x].of = m
      BY <1>5, <3>1
    <3>2. CASE links'[x].of # m
      <4>1. /\ x \in DOMAIN links /\ links'[x] = links[x]
            /\ machine'[links[x].of] = machine[links[x].of]
        BY <1>8, <3>2
      <4>2. /\ links[x].copen <=> machine[links[x].of].link = x
            /\ AnyLine(links[x], machine[links[x].of], TurnsKnown)
        BY <1>2, <2>1, <4>1 DEF SeatInv, Lines
      <4> QED  BY <4>1, <4>2
    <3> QED  BY <3>1, <3>2
  <2> QED  BY <1>4, <2>1 DEF Lines
<1>11. Player(s)'
  <2>1. CASE client[s] = 0
    BY <1>2, <1>3, <2>1 DEF SeatInv, Player
  <2>2. CASE client[s] # 0
    <3>1. PICK x, w : x = client[s] /\ w = links[client[s]].of
      OBVIOUS
    <3>2. /\ x \in DOMAIN links /\ links'[x].of = w /\ SeatOf[w] = s /\ w \in Machines
          /\ PlayerLine(links[x], machine[w], log) /\ ~Stray(w) /\ att[s] = "Present"
      BY <1>1, <1>2, <2>2, <3>1, LinksOfSeat DEF SeatInv, Player
    <3>3. PlayerLine(links'[x], machine'[w], log) /\ ~Stray(w)'
      <4>1. CASE w = m
        <5>1. PlayerLine(links'[x], u, log) /\ ~Stray(m)'
          BY <2>2, <3>1, <4>1
        <5>2. ~Stray(w)'
          BY <4>1, <5>1
        <5> QED  BY <1>5, <4>1, <5>1, <5>2
      <4>2. CASE w # m
        <5>1. links'[x] = links[x] /\ machine'[w] = machine[w]
          BY <1>5, <3>1, <3>2, <4>2
        <5>2. ~Stray(w)'
          BY <1>3, <3>2, <5>1 DEF Stray
        <5> QED  BY <3>2, <5>1, <5>2
      <4> QED  BY <4>1, <4>2
    <3>4. client'[s] = x /\ att'[s] = "Present" /\ links'[x].of = w /\ log' = log
      BY <1>3, <3>1, <3>2
    <3>5. ~Stray(links[client[s]].of)'
      BY <3>3, <3>4
    <3>6. PlayerLine(links'[x], machine'[links'[x].of], log')
      BY <3>3, <3>4
    <3> QED  BY <2>2, <3>1, <3>2, <3>4, <3>5, <3>6 DEF Player
  <2> QED  BY <2>1, <2>2
<1>12. Returns(s)'
  <2>1. ASSUME NEW r \in rejoiners, r.seat = s
        PROVE  /\ SeatOf[links'[r.link].of] = s /\ att[s] = "CatchingUp"
               /\ ComerLine(links'[r.link], machine'[links'[r.link].of], r, log)
    <3>1. PICK x, w : x = r.link /\ w = links[r.link].of
      OBVIOUS
    <3>2. /\ x \in DOMAIN links /\ links'[x].of = w /\ SeatOf[w] = s /\ w \in Machines
          /\ ComerLine(links[x], machine[w], r, log) /\ att[s] = "CatchingUp"
      BY <1>1, <1>2, <2>1, <3>1, LinksOfSeat DEF SeatInv, Returns
    <3>3. CASE w = m
      BY <1>5, <3>1, <3>2, <3>3
    <3>4. CASE w # m
      BY <1>5, <3>1, <3>2, <3>4
    <3> QED  BY <3>3, <3>4
  <2>2. /\ \A q, r \in rejoiners : q.seat = s /\ r.seat = s => q = r
        /\ att[s] = "CatchingUp" => \E r \in rejoiners : r.seat = s
    BY <1>2 DEF SeatInv, Returns
  <2>3. ASSUME NEW r \in rejoiners', r.seat = s
        PROVE  /\ SeatOf[links'[r.link].of] = s /\ att'[s] = "CatchingUp"
               /\ ComerLine(links'[r.link], machine'[links'[r.link].of], r, log')
    <3>1. r \in rejoiners
      BY <1>3
    <3> QED  BY <1>3, <2>1, <2>3, <3>1
  <2> QED  BY <1>3, <2>2, <2>3 DEF Returns
<1>13. \A x : (IsClient(s, x)' <=> IsClient(s, x)) /\ (IsComer(s, x)' <=> IsComer(s, x))
  BY <1>3 DEF IsClient, IsComer
<1>14. Open(s)'
  <2> SUFFICES ASSUME NEW x \in DOMAIN links', SeatOf[links'[x].of] = s, links'[x].sopen
               PROVE  IsClient(s, x) \/ IsComer(s, x) \/ Unheard(links'[x])
    BY <1>13 DEF Open
  <2>1. CASE links'[x].of = m
    BY <2>1
  <2>2. CASE links'[x].of # m
    BY <1>2, <1>8, <2>2 DEF SeatInv, Open
  <2> QED  BY <2>1, <2>2
<1>15. Moved(s)'
  <2> SUFFICES ASSUME NEW x \in DOMAIN links', SeatOf[links'[x].of] = s, Claims(s, x)',
                      machine'[links'[x].of].link \notin {0, x}
               PROVE  Untold(machine[links[x].of])'
    BY DEF Moved
  <2>1. PICK w, y : w = links'[x].of /\ y = machine'[links'[x].of].link
    OBVIOUS
  <2>2. CASE w = m
    <3>1. machine'[w] = u /\ y = u.link /\ links'[x].of = m
      BY <1>5, <2>1, <2>2
    <3>2. u.mode = "Rejoining" /\ Kinds(links'[u.link].down) \subseteq {"Reject"}
      BY <2>1, <3>1
    <3> QED  BY <2>2, <3>1, <3>2, Zenon DEF Untold
  <2>3. CASE w # m
    <3>1. /\ x \in DOMAIN links /\ links'[x] = links[x] /\ w \in Machines /\ w = links[x].of
          /\ machine'[w] = machine[w]
      BY <1>8, <2>1, <2>3
    <3>2. Claims(s, x)
      BY <1>3, <1>13, <3>1 DEF Claims
    <3>3. Untold(machine[w])
      BY <1>2, <2>1, <3>1, <3>2 DEF SeatInv, Moved
    <3>4. y \in DOMAIN links /\ links[y].of = w
      BY <1>2, <2>1, <3>1 DEF SeatInv, Sessions
    <3>5. links'[y] = links[y]
      BY <2>3, <3>4
    <3> QED  BY <2>1, <3>1, <3>3, <3>5, ZenonT(60) DEF Untold
  <2> QED  BY <2>2, <2>3
<1>16. SeatInv(s)'
  BY <1>9, <1>10, <1>11, <1>12, <1>14, <1>15 DEF SeatInv
<1>17. Typed'
  <2>1. LinkRecord' = LinkRecord /\ SessionRecord' = SessionRecord
    BY SameWorld
  <2>2. machine' \in [Machines -> SessionRecord]
    BY <1>2 DEF Typed
  <2>3. \A w \in Machines : machine'[w].done <= Have(machine'[w])
    BY <1>2, <1>5 DEF Typed
  <2>4. client' \in [Seats -> 0 .. Len(links')]
    <3>1. 0 .. Len(links) \subseteq 0 .. Len(links')
      BY <1>2
    <3> QED  BY <1>2, <1>3, <3>1 DEF Typed
  <2>5. \A r \in rejoiners' :
          /\ r \in [link : DOMAIN links', seat : Seats, total : 0 .. MaxTurns, next : 0 .. MaxTurns,
                    acked : 0 .. MaxTurns, loading : BOOLEAN, verify : BOOLEAN]
          /\ r.acked <= r.next /\ r.next <= r.total
    BY <1>2, <1>3, <1>6 DEF Typed
  <2> QED  BY <1>2, <1>3, <2>1, <2>2, <2>3, <2>4, <2>5 DEF Typed
<1>18. Queues(s)
  BY <1>3 DEF Queues
<1> QED  BY <1>1, <1>3, <1>7, <1>16, <1>17, <1>18, SeatStep

\* What the link l, which was k, of machine m of seat s is after a step that makes it c and
\* leaves the machine, whose session was t, with session u.
OneLink(m, s, t, l, k, u, c) ==
  /\ m \in Machines /\ s = SeatOf[m] /\ t = machine[m] /\ l = t.link /\ l \in DOMAIN links /\ k = links[l]
  /\ u \in SessionRecord /\ u.done <= Have(u) /\ machine' = [machine EXCEPT ![m] = u]
  /\ c \in LinkRecord /\ links' = [links EXCEPT ![l] = c]
  /\ SessionInv(u, TurnsKnown) /\ u.link \in {0, l}
  /\ c.of = m /\ (c.copen <=> u.link = l) /\ (c.sopen <=> k.sopen)
  /\ AnyLine(c, u, TurnsKnown)
  /\ c.sopen /\ Unheard(k) => Unheard(c)
  /\ Untold(t) => u.link = 0 \/ (u.mode = "Rejoining" /\ Kinds(c.down) \subseteq {"Reject"})
  /\ client[s] = l => PlayerLine(c, u, log)
  /\ client[s] # 0 /\ links[client[s]].of = m => ~Stray(m)'
  /\ \A r \in rejoiners : r.link = l => ComerLine(c, u, r, log)

\* What has to be shown of a step in which machine m and the link l that it has are all that
\* changes.
LEMMA LinkStep ==
  ASSUME IInv, RejoinAssumption, world' = world, UNCHANGED server, faults' = faults \/ Fault,
         NEW m, NEW s, NEW t, NEW l, NEW k, NEW u, NEW c, OneLink(m, s, t, l, k, u, c)
  PROVE  IInv'
<1> USE DEF OneLink
<1>1. s \in Seats
  BY DEF RejoinAssumption
<1>2. Typed /\ SeatInv(s) /\ links \in Seq(LinkRecord)
      /\ \A x \in DOMAIN links : x # 0 /\ links[x] \in LinkRecord /\ links[x].of \in Machines
  BY <1>1, TypedHere, LinksOfSeat DEF IInv
<1>3. k \in LinkRecord /\ k.of = m /\ k.copen /\ l # 0
  <2>1. k.of = m
    BY <1>2 DEF SeatInv, Sessions
  <2> QED  BY <1>2, <2>1, LineHere
<1>4. /\ links' \in Seq(LinkRecord) /\ Len(links') = Len(links) /\ DOMAIN links' = DOMAIN links
      /\ links'[l] = c
      /\ \A x \in DOMAIN links : x # l => links'[x] = links[x]
  BY <1>2
<1>5. \A x \in DOMAIN links : x # l /\ links[x].of = m =>
        /\ ~links[x].copen
        /\ AnyLine(links[x], u, TurnsKnown)
  <2> SUFFICES ASSUME NEW x \in DOMAIN links, x # l, links[x].of = m
               PROVE  ~links[x].copen /\ AnyLine(links[x], u, TurnsKnown)
    OBVIOUS
  <2>1. PICK y : y = links[x]
    OBVIOUS
  <2>2. ~y.copen /\ AnyLine(y, t, TurnsKnown)
    BY <2>1, LineHere
  <2>3. AnyLine(y, u, TurnsKnown)
    BY <2>2 DEF AnyLine
  <2> QED  BY <2>1, <2>2, <2>3
<1>6. \A x \in DOMAIN links' : links'[x].of = m =>
        /\ links'[x].copen <=> u.link = x
        /\ AnyLine(links'[x], u, TurnsKnown)
        /\ links'[x].sopen => IsClient(s, x) \/ IsComer(s, x) \/ Unheard(links'[x])
  <2> SUFFICES ASSUME NEW x \in DOMAIN links, links'[x].of = m
               PROVE  /\ links'[x].copen <=> u.link = x
                      /\ AnyLine(links'[x], u, TurnsKnown)
                      /\ links'[x].sopen => IsClient(s, x) \/ IsComer(s, x) \/ Unheard(links'[x])
    BY <1>4
  <2>1. CASE x = l
    <3>1. k.sopen => IsClient(s, l) \/ IsComer(s, l) \/ Unheard(k)
      BY <1>2, <1>3 DEF SeatInv, Open
    <3> QED  BY <1>4, <2>1, <3>1
  <2>2. CASE x # l
    <3>1. links'[x] = links[x] /\ links[x].of = m /\ ~links[x].copen /\ AnyLine(links[x], u, TurnsKnown)
      BY <1>4, <1>5, <2>2
    <3>2. links[x].sopen => IsClient(s, x) \/ IsComer(s, x) \/ Unheard(links[x])
      BY <1>2, <3>1 DEF SeatInv, Open
    <3>3. x # 0
      BY <1>2
    <3> QED  BY <2>2, <3>1, <3>2, <3>3
  <2> QED  BY <2>1, <2>2
<1>7. \A x \in DOMAIN links' : links'[x].of = m /\ Claims(s, x)' =>
         \/ u.link \in {0, x}
         \/ u.mode = "Rejoining" /\ Kinds(links'[u.link].down) \subseteq {"Reject"}
  <2> SUFFICES ASSUME NEW x \in DOMAIN links, x # l, links[x].of = m, Claims(s, x)', u.link # 0
               PROVE  u.mode = "Rejoining" /\ Kinds(links'[u.link].down) \subseteq {"Reject"}
    BY <1>4
  <2>1. /\ client' = client /\ rejoiners' = rejoiners /\ links'[x] = links[x]
    BY <1>4 DEF server
  <2>2. Claims(s, x)
    BY <2>1 DEF Claims, IsClient
  <2>3. Untold(t)
    BY <1>2, <1>3, <2>2, Zenon DEF SeatInv, Moved
  <2> QED  BY <1>4, <2>3
<1>8. client[s] # 0 /\ links[client[s]].of = m =>
           /\ PlayerLine(links'[client[s]], u, log)
           /\ ~Stray(m)'
  <2> SUFFICES ASSUME client[s] # 0, links[client[s]].of = m
               PROVE  PlayerLine(links'[client[s]], u, log)
    OBVIOUS
  <2>1. PICK x, y : x = client[s] /\ y = links[client[s]]
    OBVIOUS
  <2>2. x \in DOMAIN links /\ PlayerLine(y, t, log) /\ y = links[x]
    BY <1>1, <1>2, <2>1, LinksOfSeat DEF SeatInv, Player
  <2>3. CASE x = l
    BY <1>4, <2>1, <2>3
  <2>4. CASE x # l
    <3>1. ~y.copen
      BY <1>5, <2>1, <2>2, <2>4
    <3>2. PlayerLine(y, u, log)
      BY <2>2, <3>1 DEF PlayerLine
    <3> QED  BY <1>4, <2>1, <2>2, <2>4, <3>2
  <2> QED  BY <2>3, <2>4
<1>9. \A r \in rejoiners : links[r.link].of = m => ComerLine(links'[r.link], u, r, log)
  <2> SUFFICES ASSUME NEW r \in rejoiners, links[r.link].of = m
               PROVE  ComerLine(links'[r.link], u, r, log)
    OBVIOUS
  <2>1. PICK x, y : x = r.link /\ y = links[r.link]
    OBVIOUS
  <2>2. r.seat \in Seats
    BY <1>1, LinksOfSeat
  <2>3. x \in DOMAIN links /\ SeatOf[y.of] = r.seat /\ y = links[x]
    BY <2>1, <2>2, LinksOfSeat
  <2>4. r.seat = s
    BY <2>1, <2>3
  <2>5. ComerLine(y, t, r, log)
    BY <1>2, <2>1, <2>4 DEF SeatInv, Returns
  <2>6. CASE x = l
    BY <1>4, <2>1, <2>6, Zenon
  <2>7. CASE x # l
    <3>1. ~y.copen
      BY <1>5, <2>1, <2>3, <2>7
    <3>2. ComerLine(y, u, r, log)
      BY <2>5, <3>1 DEF ComerLine
    <3> QED  BY <1>4, <2>1, <2>3, <2>7, <3>2
  <2> QED  BY <2>6, <2>7
<1>10. \A x \in DOMAIN links : /\ links'[x].of = links[x].of
                               /\ links[x].of # m => links'[x] = links[x]
  BY <1>3, <1>4
<1>11. u.link # 0 => u.link \in DOMAIN links' /\ links'[u.link].of = m
  BY <1>4
<1>12. Len(links) <= Len(links') /\ \A x \in DOMAIN links' : x \notin DOMAIN links => links'[x].of = m
  BY <1>2, <1>4
<1>13. links' \in Seq(LinkRecord)
  BY <1>4
<1>14. OwnLinks(m, s, u)
  BY <1>6, <1>7, <1>8, <1>9 DEF OwnLinks
<1>15. \A x \in DOMAIN links' : x \notin DOMAIN links => links'[x].of = m
  BY <1>12
<1>16. Len(links) <= Len(links')
  BY <1>12
<1> HIDE DEF OwnLinks
<1>17. m \in Machines /\ s = SeatOf[m] /\ u \in SessionRecord /\ u.done <= Have(u)
       /\ machine' = [machine EXCEPT ![m] = u] /\ SessionInv(u, TurnsKnown)
  OBVIOUS
<1> HIDE DEF OneLink
<1> QED  BY <1>10, <1>11, <1>13, <1>14, <1>15, <1>16, <1>17, OwnStep, Zenon

\* The link and the session of a machine that has a link.
LEMMA LinkOf ==
  ASSUME IInv, RejoinAssumption, NEW m \in Machines, machine[m].link # 0
  PROVE  LET t == machine[m]
             k == links[t.link]
             s == SeatOf[m]
         IN /\ s \in Seats /\ t \in SessionRecord /\ t.done <= Have(t) /\ SessionInv(t, TurnsKnown)
            /\ t.link \in DOMAIN links /\ k \in LinkRecord /\ k.of = m /\ k.copen
            /\ AnyLine(k, t, TurnsKnown)
            /\ client[s] = t.link => PlayerLine(k, t, log)
            /\ \A r \in rejoiners : r.link = t.link => ComerLine(k, t, r, log)
            /\ client[s] # 0 /\ links[client[s]].of = m => ~Stray(m) /\ (client[s] = t.link \/ Untold(t))
            /\ TurnsKnown \in Nat /\ TurnsKnown <= MaxTurns /\ Have(t) \in Nat
<1>1. PICK t, l, k, s : t = machine[m] /\ l = machine[m].link /\ k = links[machine[m].link] /\ s = SeatOf[m]
  OBVIOUS
<1>2. s \in Seats /\ Typed /\ SeatInv(s)
  BY <1>1, TypedHere DEF RejoinAssumption, IInv
<1>3. t \in SessionRecord /\ t.done <= Have(t)
  BY <1>1, <1>2 DEF Typed
<1>4. SessionInv(t, TurnsKnown) /\ l \in DOMAIN links /\ k.of = m /\ k = links[l] /\ t.link = l
  BY <1>1, <1>2 DEF SeatInv, Sessions
<1>5. k \in LinkRecord /\ k.copen /\ AnyLine(k, t, TurnsKnown)
  BY <1>1, <1>2, <1>4, LinksOfSeat, LineHere
<1>6. client[s] = l => PlayerLine(k, t, log)
  BY <1>1, <1>2, <1>4 DEF SeatInv, Player
<1>7. \A r \in rejoiners : r.link = l => ComerLine(k, t, r, log)
  <2> SUFFICES ASSUME NEW r \in rejoiners, r.link = l PROVE ComerLine(k, t, r, log)
    OBVIOUS
  <2>1. r.seat \in Seats
    BY <1>2, LinksOfSeat
  <2>2. r.seat = s
    BY <1>1, <1>4, <2>1, LinksOfSeat
  <2> QED  BY <1>1, <1>2, <1>4, <2>2 DEF SeatInv, Returns
<1>8. client[s] # 0 /\ links[client[s]].of = m => ~Stray(m) /\ (client[s] = l \/ Untold(t))
  <2> SUFFICES ASSUME client[s] # 0, links[client[s]].of = m PROVE ~Stray(m) /\ (client[s] = l \/ Untold(t))
    OBVIOUS
  <2>1. client[s] \in DOMAIN links /\ ~Stray(m)
    BY <1>2, LinksOfSeat DEF SeatInv, Player
  <2>2. Claims(s, client[s])
    BY DEF Claims, IsClient
  <2>3. t.link \in {0, client[s]} \/ Untold(t)
    BY <1>1, <1>2, <2>1, <2>2 DEF SeatInv, Moved
  <2> QED  BY <1>1, <1>4, <2>1, <2>3
<1>9. TurnsKnown \in Nat /\ TurnsKnown <= MaxTurns /\ Have(t) \in Nat
  <2>1. t.held \in Seq(Lives)
    BY <1>3 DEF SessionRecord
  <2>2. Have(t) \in Nat
    BY <2>1 DEF Have
  <2>3. Len(log) \in Nat /\ Len(log) <= MaxTurns /\ MaxTurns \in Nat
    BY DEF IInv, TypeOK, RejoinAssumption
  <2> QED  BY <2>2, <2>3 DEF TurnsKnown
<1> QED  BY <1>1, <1>2, <1>3, <1>4, <1>5, <1>6, <1>7, <1>8, <1>9

\* What a session has.
LEMMA SessionFields ==
  ASSUME NEW t \in SessionRecord
  PROVE  /\ t.mode \in {"Normal", "Reconnecting", "Rejoining", "CatchingUp", "Lost"}
         /\ t.link \in 0 .. MaxLinks /\ t.held \in Seq(Lives) /\ t.done \in 0 .. MaxTurns
         /\ t.known \in BOOLEAN /\ t.total \in 0 .. MaxTurns /\ t.claimed \in BOOLEAN
         /\ t.why \in Reasons \cup {"none"} /\ Have(t) \in Nat
BY DEF SessionRecord, Have

\* Whether a machine strays is a matter of what it holds.
LEMMA SameStray ==
  ASSUME world' = world, log' = log, NEW m \in Machines, machine'[m].held = machine[m].held, ~Stray(m)
  PROVE  ~Stray(m)'
BY DEF Stray

SaidLine(k, msgs) == IF Carries(k) THEN [k EXCEPT !.up = @ \o msgs] ELSE k
LeftLine(k) == [k EXCEPT !.copen = FALSE, !.down = <<>>]
ReadLine(k) == [k EXCEPT !.down = Tail(@)]

\* A link over which its machine says something that is no Hello.
LEMMA SaidFields ==
  ASSUME NEW k \in LinkRecord, NEW msgs \in Seq(Messages), "Hello" \notin Kinds(msgs)
  PROVE  LET c == SaidLine(k, msgs)
         IN /\ c \in LinkRecord
            /\ c.of = k.of /\ c.down = k.down /\ (c.copen <=> k.copen) /\ (c.sopen <=> k.sopen)
            /\ c.cut <=> k.cut
            /\ Kinds(c.up) \subseteq Kinds(k.up) \cup Kinds(msgs)
            /\ c.up # k.up => k.sopen
            /\ \A i \in DOMAIN c.up : \/ i \in DOMAIN k.up /\ c.up[i] = k.up[i]
                                      \/ \E j \in DOMAIN msgs : c.up[i] = msgs[j]
            /\ Unheard(k) => Unheard(c)
<1>1. PICK c, z : c = SaidLine(k, msgs) /\ z = k.up
  OBVIOUS
<1>2. z \in Seq(Messages) /\ Len(z) \in Nat
  BY <1>1, LinkFields
<1>3. CASE Carries(k)
  <2>1. PICK w : w = z \o msgs
    BY Zenon
  <2>2. /\ w \in Seq(Messages) /\ Len(w) = Len(z) + Len(msgs)
        /\ DOMAIN z = 1 .. Len(z) /\ DOMAIN msgs = 1 .. Len(msgs) /\ DOMAIN w = 1 .. (Len(z) + Len(msgs))
        /\ \A i \in 1 .. Len(z) : w[i] = z[i]
        /\ \A i \in 1 .. (Len(z) + Len(msgs)) :
              \/ i \in 1 .. Len(z) /\ w[i] = z[i]
              \/ i > Len(z) /\ i - Len(z) \in 1 .. Len(msgs) /\ w[i] = msgs[i - Len(z)]
    BY <1>2, <2>1, ConcatFacts
  <2>3. c = [k EXCEPT !.up = w]
    BY <1>1, <1>3, <2>1 DEF SaidLine
  <2>4. /\ c \in LinkRecord /\ c.up = w
        /\ c.of = k.of /\ c.down = k.down /\ (c.copen <=> k.copen) /\ (c.sopen <=> k.sopen)
        /\ c.cut <=> k.cut
    BY <2>2, <2>3 DEF LinkRecord
  <2>5. Kinds(w) = Kinds(z) \cup Kinds(msgs)
    BY <1>2, <2>1, ConcatKinds
  <2>6. \A i \in DOMAIN w : \/ i \in DOMAIN z /\ w[i] = z[i]
                            \/ \E j \in DOMAIN msgs : w[i] = msgs[j]
    BY <2>2, Zenon
  <2>7. Unheard(k) => Unheard(c)
    <3> SUFFICES ASSUME Unheard(k) PROVE Unheard(c)
      OBVIOUS
    <3>1. z # <<>> /\ z[1].type = "Hello"
      BY <1>1, <1>3 DEF Unheard, Carries
    <3>2. 1 \in 1 .. Len(z)
      BY <1>2, <3>1, EmptySeq
    <3>3. w[1] = z[1] /\ Len(w) # 0
      BY <1>2, <2>2, <3>2
    <3>4. w # <<>>
      BY <3>3
    <3> QED  BY <2>4, <3>1, <3>3, <3>4 DEF Unheard
  <2> QED  BY <1>1, <1>3, <2>4, <2>5, <2>6, <2>7 DEF Carries
<1>4. CASE ~Carries(k)
  <2>1. c = k
    BY <1>1, <1>4 DEF SaidLine
  <2> QED  BY <1>1, <2>1
<1> QED  BY <1>3, <1>4

\* It stays in order: before the Hello is read only Leave is said.
LEMMA AnySaid ==
  ASSUME NEW k \in LinkRecord, NEW t, NEW top, AnyLine(k, t, top),
         NEW msgs \in Seq(Messages), "Hello" \notin Kinds(msgs),
         "Hello" \in Kinds(k.up) => Kinds(msgs) \subseteq {"Leave"}
  PROVE  AnyLine(SaidLine(k, msgs), t, top)
<1>1. PICK c : c = SaidLine(k, msgs)
  OBVIOUS
<1>2. /\ c.down = k.down /\ (c.copen <=> k.copen) /\ (c.sopen <=> k.sopen)
      /\ c.up # k.up => k.sopen
      /\ \A i \in DOMAIN c.up : \/ i \in DOMAIN k.up /\ c.up[i] = k.up[i]
                                \/ \E j \in DOMAIN msgs : c.up[i] = msgs[j]
  BY <1>1, SaidFields
<1>3. c.up # <<>> => c.sopen
  BY <1>2 DEF AnyLine
<1>4. ASSUME NEW i \in DOMAIN c.up, c.up[i].type = "Hello"
      PROVE  /\ i = 1 /\ c.down = <<>> /\ (c.copen => t.mode = "Rejoining")
             /\ \A j \in DOMAIN c.up : j # 1 => c.up[j].type = "Leave"
  <2>1. i \in DOMAIN k.up /\ k.up[i].type = "Hello"
    BY <1>2, <1>4 DEF Kinds
  <2>2. "Hello" \in Kinds(k.up)
    BY <2>1 DEF Kinds
  <2>3. \A j \in DOMAIN msgs : msgs[j].type = "Leave"
    BY <2>2, Zenon DEF Kinds
  <2>4. /\ i = 1 /\ k.down = <<>> /\ (k.copen => t.mode = "Rejoining")
        /\ \A j \in DOMAIN k.up : j # 1 => k.up[j].type = "Leave"
    BY <2>1 DEF AnyLine
  <2> QED  BY <1>2, <2>3, <2>4
<1> QED  BY <1>1, <1>2, <1>3, <1>4 DEF AnyLine

\* A link that its machine closes.
LEMMA LeftFields ==
  ASSUME NEW k \in LinkRecord
  PROVE  LET c == LeftLine(k)
         IN /\ c \in LinkRecord
            /\ c.of = k.of /\ c.up = k.up /\ ~c.copen /\ (c.sopen <=> k.sopen)
            /\ c.cut <=> k.cut
            /\ c.down = <<>>
            /\ \A t, u, top : AnyLine(k, t, top) => AnyLine(c, u, top)
<1>1. PICK c : c = LeftLine(k)
  OBVIOUS
<1>2. <<>> \in Seq(Messages)
  OBVIOUS
<1>3. /\ c \in LinkRecord
      /\ c.of = k.of /\ c.up = k.up /\ ~c.copen /\ (c.sopen <=> k.sopen) /\ (c.cut <=> k.cut)
      /\ c.down = <<>>
  BY <1>1, <1>2, Zenon DEF LeftLine, LinkRecord
<1>4. ASSUME NEW t, NEW u, NEW top, AnyLine(k, t, top) PROVE AnyLine(c, u, top)
  <2>1. DOMAIN c.down = {}
    BY <1>3
  <2> QED  BY <1>3, <1>4, <2>1 DEF AnyLine
<1> QED  BY <1>1, <1>3, <1>4

\* Machine m, whose session was t, leaves its link, which was k, and is left with session u; it
\* may have said so, or have read a message, which makes the link h.
Leaving(m, t, k, u, h) ==
  /\ m \in Machines /\ t = machine[m] /\ t.link # 0 /\ k = links[t.link]
  /\ u \in SessionRecord /\ machine' = [machine EXCEPT ![m] = u]
  /\ u.link = 0 /\ u.mode \in {"Lost", "Reconnecting"} /\ u.held = t.held /\ u.done = t.done
  /\ u.mode = "Reconnecting" => ~u.known /\ ~u.claimed
  /\ h \in LinkRecord /\ links' = [links EXCEPT ![t.link] = LeftLine(h)]
  /\ h.of = m /\ (h.sopen <=> k.sopen) /\ (Unheard(k) => Unheard(h))
  /\ AnyLine(LeftLine(h), u, TurnsKnown)
  /\ Kinds(h.up) \subseteq Kinds(k.up) \cup {"Leave"}

\* That keeps the invariant.
LEMMA LeavesLink ==
  ASSUME IInv, RejoinAssumption, world' = world, UNCHANGED server, faults' = faults \/ Fault,
         NEW m, NEW t, NEW k, NEW u, NEW h, Leaving(m, t, k, u, h)
  PROVE  IInv'
<1> USE DEF Leaving
<1>p. PICK l, s, c : l = t.link /\ s = SeatOf[m] /\ c = LeftLine(h)
  OBVIOUS
<1>1. /\ s \in Seats /\ t \in SessionRecord /\ t.done <= Have(t) /\ SessionInv(t, TurnsKnown)
      /\ l \in DOMAIN links /\ k \in LinkRecord /\ k.of = m /\ l # 0
      /\ client[s] = l => PlayerLine(k, t, log)
      /\ \A r \in rejoiners : r.link = l => ComerLine(k, t, r, log)
      /\ client[s] # 0 /\ links[client[s]].of = m => ~Stray(m)
  BY <1>p, LinkOf
<1>2. /\ c \in LinkRecord /\ c.of = m /\ c.up = h.up /\ ~c.copen /\ (c.sopen <=> k.sopen)
      /\ c.down = <<>> /\ AnyLine(c, u, TurnsKnown) /\ (c.cut <=> h.cut)
  BY <1>p, LeftFields
<1>3. SessionInv(u, TurnsKnown)
  BY <1>1 DEF SessionInv, Have
<1>4. c.sopen /\ Unheard(k) => Unheard(c)
  BY <1>2 DEF Unheard
<1>5. Kinds(c.up) \subseteq Kinds(k.up) \cup {"Leave"} /\ DOMAIN c.down = {} /\ Kinds(c.down) = {}
  BY <1>2, FewKinds, SMTT(40)
<1>6. client[s] = l => PlayerLine(c, u, log)
  <2> SUFFICES ASSUME PlayerLine(k, t, log) PROVE PlayerLine(c, u, log)
    BY <1>1, SMTT(40)
  <2>1. c.sopen /\ "Hello" \notin Kinds(c.up)
    BY <1>2, <1>5 DEF PlayerLine
  <2> QED  BY <1>2, <1>5, <2>1 DEF PlayerLine
<1>7. \A r \in rejoiners : r.link = l => ComerLine(c, u, r, log)
  <2> SUFFICES ASSUME NEW r \in rejoiners, ComerLine(k, t, r, log) PROVE ComerLine(c, u, r, log)
    BY <1>1
  <2>1. c.sopen /\ "Hello" \notin Kinds(c.up) /\ r.total = Len(log)
    BY <1>2, <1>5 DEF ComerLine
  <2> QED  BY <1>2, <1>5, <2>1 DEF ComerLine
<1>8. client[s] # 0 /\ links[client[s]].of = m => ~Stray(m)'
  <2>1. log' = log /\ machine'[m].held = machine[m].held
    BY TypedHere DEF server, IInv, Typed
  <2> QED  BY <1>1, <2>1, SameStray
<1>9. u.done <= Have(u)
  BY <1>1 DEF Have
<1>10. links' = [links EXCEPT ![l] = c] /\ t.link = l /\ s = SeatOf[m] /\ k = links[l]
  BY <1>p
<1>11. u.link \in {0, l} /\ (c.copen <=> u.link = l)
  BY <1>1, <1>2
<1>12. Untold(t) => u.link = 0 \/ (u.mode = "Rejoining" /\ Kinds(c.down) \subseteq {"Reject"})
  OBVIOUS
<1>13. OneLink(m, s, t, l, k, u, c)
  BY <1>1, <1>2, <1>3, <1>4, <1>6, <1>7, <1>8, <1>9, <1>10, <1>11, <1>12 DEF OneLink
<1> QED  BY <1>13, LinkStep

\* A machine leaves a link, says something over it, reads what is on its way.
LEMMA OwnLinkNow ==
  ASSUME NEW L \in Seq(LinkRecord), NEW l \in DOMAIN L
  PROVE  /\ l # 0 /\ Left(L, l) = [L EXCEPT ![l] = LeftLine(L[l])]
         /\ \A msgs : Said(L, l, msgs) = [L EXCEPT ![l] = SaidLine(L[l], msgs)]
         /\ Read(L, l, "down") = [L EXCEPT ![l] = ReadLine(L[l])]
         /\ \A c \in LinkRecord : /\ [L EXCEPT ![l] = c] \in Seq(LinkRecord)
                                  /\ l \in DOMAIN [L EXCEPT ![l] = c]
                                  /\ [L EXCEPT ![l] = c][l] = c
                                  /\ \A d : [[L EXCEPT ![l] = c] EXCEPT ![l] = d] = [L EXCEPT ![l] = d]
<1>1. l # 0 /\ L \in [1 .. Len(L) -> LinkRecord] /\ l \in 1 .. Len(L)
  OBVIOUS
<1>2. Left(L, l) = [L EXCEPT ![l] = LeftLine(L[l])]
  BY <1>1, Zenon DEF Left, LeftLine
<1>3. \A msgs : Said(L, l, msgs) = [L EXCEPT ![l] = SaidLine(L[l], msgs)]
  BY <1>1, Zenon DEF Said, SaidLine
<1>4. Read(L, l, "down") = [L EXCEPT ![l] = ReadLine(L[l])]
  BY <1>1 DEF Read, ReadLine
<1>5. \A c \in LinkRecord : /\ [L EXCEPT ![l] = c] \in Seq(LinkRecord)
                           /\ l \in DOMAIN [L EXCEPT ![l] = c]
                           /\ [L EXCEPT ![l] = c][l] = c
  BY <1>1
<1>6. \A c, d : [[L EXCEPT ![l] = c] EXCEPT ![l] = d] = [L EXCEPT ![l] = d]
  BY <1>1, Zenon
<1> QED  BY <1>1, <1>2, <1>3, <1>4, <1>5, <1>6

\* The bounds are numbers.
LEMMA Bounds ==
  ASSUME IInv, RejoinAssumption
  PROVE  MaxLinks \in Nat /\ MaxTurns \in Nat /\ 0 \in 0 .. MaxLinks
<1>1. MaxLinks \in Nat /\ MaxTurns \in Nat
  BY DEF IInv, TypeOK, RejoinAssumption, MaxLinks
<1> QED  BY <1>1

\* A session whose next link is due.
LEMMA AgainSession ==
  ASSUME 0 \in 0 .. MaxLinks, NEW t \in SessionRecord, NEW u, u = Again(t)
  PROVE  /\ u \in SessionRecord /\ u.link = 0 /\ u.mode = "Reconnecting" /\ u.held = t.held
         /\ u.done = t.done /\ ~u.known /\ ~u.claimed
<1>1. u = [t EXCEPT !.mode = "Reconnecting", !.link = 0, !.known = FALSE, !.claimed = FALSE]
  BY DEF Again
<1>2. u = [mode |-> "Reconnecting", link |-> 0, held |-> t.held, done |-> t.done, known |-> FALSE,
           total |-> t.total, claimed |-> FALSE, why |-> t.why]
  BY <1>1, Zenon DEF SessionRecord
<1>3. t.held \in Seq(Lives) /\ t.done \in 0 .. MaxTurns /\ t.total \in 0 .. MaxTurns
      /\ t.why \in Reasons \cup {"none"}
  BY SessionFields
<1> QED  BY <1>2, <1>3 DEF SessionRecord

\* A machine loses its link.
LEMMA LosesLinkStep ==
  ASSUME IInv, RejoinAssumption, world' = world, NEW m \in Machines, LosesLink(m)
  PROVE  IInv'
<1>p. PICK t, l, k, u : t = machine[m] /\ l = t.link /\ k = links[l] /\ u = Again(t)
  OBVIOUS
<1>1. /\ l # 0 /\ machine' = [machine EXCEPT ![m] = u] /\ links' = Left(links, l)
      /\ UNCHANGED server
      /\ faults' = faults \/ Fault
  BY <1>p DEF LosesLink, Becoming
<1>2. /\ t \in SessionRecord /\ k \in LinkRecord /\ k.of = m /\ AnyLine(k, t, TurnsKnown)
  BY <1>p, <1>1, LinkOf
<1>3. links' = [links EXCEPT ![t.link] = LeftLine(k)]
  <2>1. l \in DOMAIN links /\ links \in Seq(LinkRecord)
    BY <1>p, <1>1, LinkOf, TypedHere DEF IInv, Typed
  <2> QED  BY <1>p, <1>1, <2>1, OwnLinkNow
<1>4. /\ u \in SessionRecord /\ u.link = 0 /\ u.mode = "Reconnecting" /\ u.held = t.held
      /\ u.done = t.done /\ ~u.known /\ ~u.claimed
  <2>1. 0 \in 0 .. MaxLinks
    BY Bounds
  <2>2. u = Again(t) /\ t \in SessionRecord
    BY <1>p, <1>2
  <2> QED  BY <2>1, <2>2, AgainSession
<1>5. AnyLine(LeftLine(k), u, TurnsKnown)
  BY <1>2, LeftFields
<1>6. Leaving(m, t, k, u, k)
  BY <1>p, <1>1, <1>2, <1>3, <1>4, <1>5 DEF Leaving
<1>7. faults' = faults \/ Fault
  BY <1>1
<1>8. UNCHANGED server
  BY <1>1 DEF server
<1> QED  BY <1>6, <1>7, <1>8, LeavesLink

\* A session that is over.
LEMMA LostSession ==
  ASSUME 0 \in 0 .. MaxLinks, NEW t \in SessionRecord, NEW u, u = [t EXCEPT !.mode = "Lost", !.link = 0]
  PROVE  u \in SessionRecord /\ u.link = 0 /\ u.mode = "Lost" /\ u.held = t.held /\ u.done = t.done
BY Zenon DEF SessionRecord

\* One that the server, or the machine itself, has ended with a reason.
LEMMA RejectedSession ==
  ASSUME 0 \in 0 .. MaxLinks, NEW t \in SessionRecord, NEW why \in Reasons, NEW u, u = Rejected(t, why)
  PROVE  u \in SessionRecord /\ u.link = 0 /\ u.mode = "Lost" /\ u.held = t.held /\ u.done = t.done
BY Zenon DEF SessionRecord, Rejected

\* A machine without a link gives up.
LEMMA QuitsAlone ==
  ASSUME IInv, RejoinAssumption, world' = world, UNCHANGED <<server, links>>, faults' = faults \/ Fault,
         NEW m \in Machines, NEW t, t = machine[m], t.link = 0,
         machine' = [machine EXCEPT ![m] = [t EXCEPT !.mode = "Lost", !.link = 0]]
  PROVE  IInv'
<1>p. PICK u, s : u = [t EXCEPT !.mode = "Lost", !.link = 0] /\ s = SeatOf[m]
  OBVIOUS
<1>1. s \in Seats /\ Typed /\ SeatInv(s) /\ links \in Seq(LinkRecord)
      /\ \A x \in DOMAIN links : x # 0
  <2>1. s \in Seats
    BY <1>p DEF RejoinAssumption
  <2> QED  BY <2>1, TypedHere, LinksOfSeat DEF IInv
<1>2. t \in SessionRecord /\ SessionInv(t, TurnsKnown) /\ t.done <= Have(t)
  BY <1>p, <1>1 DEF Typed, SeatInv, Sessions
<1>3. /\ u \in SessionRecord /\ u.link = 0 /\ u.mode = "Lost" /\ u.held = t.held /\ u.done = t.done
  <2>2. u = [t EXCEPT !.mode = "Lost", !.link = 0]
    BY <1>p
  <2>3. 0 \in 0 .. MaxLinks /\ t \in SessionRecord
    BY <1>2, Bounds
  <2> QED  BY <2>2, <2>3, LostSession, ZenonT(60)
<1>4. SessionInv(u, TurnsKnown) /\ u.done <= Have(u)
  BY <1>2, <1>3 DEF SessionInv, Have
<1>5. links' = links /\ client' = client /\ rejoiners' = rejoiners /\ log' = log
  BY DEF server
<1>6. \A x \in DOMAIN links : links[x].of = m => ~links[x].copen /\ AnyLine(links[x], u, TurnsKnown)
  <2> SUFFICES ASSUME NEW x \in DOMAIN links, links[x].of = m
               PROVE  ~links[x].copen /\ AnyLine(links[x], u, TurnsKnown)
    OBVIOUS
  <2>1. PICK y : y = links[x]
    OBVIOUS
  <2>2. ~y.copen /\ AnyLine(y, t, TurnsKnown)
    BY <1>1, <2>1, LineHere
  <2>3. AnyLine(y, u, TurnsKnown)
    BY <2>2 DEF AnyLine
  <2> QED  BY <2>1, <2>2, <2>3
<1>7. \A x \in DOMAIN links : links[x].of = m /\ links[x].sopen =>
         IsClient(s, x) \/ IsComer(s, x) \/ Unheard(links[x])
  BY <1>p, <1>1 DEF SeatInv, Open
<1>8. client[s] # 0 /\ links[client[s]].of = m => PlayerLine(links[client[s]], u, log) /\ ~Stray(m)'
  <2> SUFFICES ASSUME client[s] # 0, links[client[s]].of = m
               PROVE  PlayerLine(links[client[s]], u, log) /\ ~Stray(m)'
    OBVIOUS
  <2>1. PICK y : y = links[client[s]]
    OBVIOUS
  <2>2. client[s] \in DOMAIN links /\ PlayerLine(y, t, log) /\ ~Stray(m)
    BY <1>1, <2>1, LinksOfSeat DEF SeatInv, Player
  <2>3. ~y.copen
    BY <1>6, <2>1, <2>2
  <2>4. PlayerLine(y, u, log)
    BY <2>2, <2>3 DEF PlayerLine
  <2>5. machine'[m].held = machine[m].held
    BY <1>p, <1>1, <1>3 DEF Typed
  <2> QED  BY <1>5, <2>1, <2>2, <2>4, <2>5, SameStray
<1>9. \A r \in rejoiners : links[r.link].of = m => ComerLine(links[r.link], u, r, log)
  <2> SUFFICES ASSUME NEW r \in rejoiners, links[r.link].of = m
               PROVE  ComerLine(links[r.link], u, r, log)
    OBVIOUS
  <2>1. PICK y : y = links[r.link]
    OBVIOUS
  <2>2. r.seat \in Seats
    BY <1>1, LinksOfSeat
  <2>3. r.link \in DOMAIN links /\ SeatOf[y.of] = r.seat
    BY <2>1, <2>2, LinksOfSeat
  <2>4. r.seat = s
    BY <1>p, <2>1, <2>3
  <2>5. ComerLine(y, t, r, log)
    BY <1>1, <2>1, <2>4 DEF SeatInv, Returns
  <2>6. ~y.copen
    BY <1>6, <2>1, <2>3
  <2>7. ComerLine(y, u, r, log)
    BY <2>5, <2>6 DEF ComerLine
  <2> QED  BY <2>1, <2>7
<1>10. OwnLinks(m, s, u)
  <2>1. \A x \in DOMAIN links' : links'[x].of = m =>
          /\ links'[x].copen <=> u.link = x
          /\ AnyLine(links'[x], u, TurnsKnown)
          /\ links'[x].sopen => IsClient(s, x) \/ IsComer(s, x) \/ Unheard(links'[x])
    BY <1>1, <1>3, <1>5, <1>6, <1>7
  <2> QED  BY <1>3, <1>5, <1>8, <1>9, <2>1 DEF OwnLinks
<1>11. /\ \A x \in DOMAIN links : /\ links'[x].of = links[x].of
                                  /\ links[x].of # m => links'[x] = links[x]
       /\ \A x \in DOMAIN links' : x \notin DOMAIN links => links'[x].of = m
       /\ Len(links) <= Len(links') /\ links' \in Seq(LinkRecord)
  BY <1>1, <1>5
<1>12. u.link # 0 => u.link \in DOMAIN links' /\ links'[u.link].of = m
  BY <1>3
<1>13. machine' = [machine EXCEPT ![m] = u] /\ s = SeatOf[m] /\ UNCHANGED server
  BY <1>p
<1> QED  BY <1>3, <1>4, <1>10, <1>11, <1>12, <1>13, OwnStep, Zenon

\* A player leaves, or the time is over.
LEMMA QuitsStep ==
  ASSUME IInv, RejoinAssumption, world' = world, NEW m \in Machines, Quits(m)
  PROVE  IInv'
<1>p. PICK t, l, k : t = machine[m] /\ l = t.link /\ k = links[l]
  OBVIOUS
<1>q. PICK u, leave : u = [t EXCEPT !.mode = "Lost", !.link = 0] /\ leave = <<[type |-> "Leave"]>>
  BY Zenon
<1>1. /\ machine' = [machine EXCEPT ![m] = u]
      /\ UNCHANGED server
      /\ faults' = faults \/ Fault
      /\ \E told \in BOOLEAN :
           links' = IF l = 0 THEN links ELSE Left(IF told THEN Said(links, l, leave) ELSE links, l)
  BY <1>p, <1>q, Zenon DEF Quits, Becoming
<1>2. CASE l = 0
  <2>1. links' = links
    BY <1>1, <1>2
  <2>2. t = machine[m] /\ t.link = 0
    BY <1>p, <1>2
  <2>3. machine' = [machine EXCEPT ![m] = u]
    BY <1>1
  <2>4. machine' = [machine EXCEPT ![m] = [t EXCEPT !.mode = "Lost", !.link = 0]]
    BY <1>q, <2>3
  <2>5. UNCHANGED <<server, links>>
    BY <1>1, <2>1 DEF server
  <2>6. faults' = faults \/ Fault
    BY <1>1
  <2> QED  BY <2>2, <2>4, <2>5, <2>6, QuitsAlone, Zenon
<1>3. CASE l # 0
  <2>1. /\ t \in SessionRecord /\ k \in LinkRecord /\ k.of = m /\ AnyLine(k, t, TurnsKnown)
        /\ l \in DOMAIN links
    BY <1>p, <1>3, LinkOf
  <2>2. leave \in Seq(Messages) /\ Kinds(leave) = {"Leave"} /\ "Hello" \notin Kinds(leave)
    BY <1>q, MessageKinds, FewKinds
  <2>3. PICK told \in BOOLEAN : links' = Left(IF told THEN Said(links, l, leave) ELSE links, l)
    BY <1>1, <1>3
  <2>4. PICK h : h = IF told THEN SaidLine(k, leave) ELSE k
    OBVIOUS
  <2>5. links' = [links EXCEPT ![l] = LeftLine(h)]
    <3>1. links \in Seq(LinkRecord) /\ links[l] = k
      BY <1>p, TypedHere DEF IInv, Typed
    <3>2. CASE told
      <4>1. PICK M : M = Said(links, l, leave)
        OBVIOUS
      <4>2. h \in LinkRecord /\ M = [links EXCEPT ![l] = h]
        BY <2>1, <2>2, <2>4, <3>1, <3>2, <4>1, SaidFields, OwnLinkNow
      <4>3. M \in Seq(LinkRecord) /\ l \in DOMAIN M /\ M[l] = h
            /\ \A d : [M EXCEPT ![l] = d] = [links EXCEPT ![l] = d]
        BY <2>1, <3>1, <4>2, OwnLinkNow
      <4>4. links' = Left(M, l)
        BY <2>3, <3>2, <4>1
      <4> QED  BY <4>3, <4>4, OwnLinkNow, ZenonT(60)
    <3>3. CASE ~told
      BY <2>1, <2>3, <2>4, <3>1, <3>3, OwnLinkNow
    <3> QED  BY <3>2, <3>3
  <2>6. /\ h \in LinkRecord /\ h.of = m /\ (h.sopen <=> k.sopen) /\ (Unheard(k) => Unheard(h))
        /\ AnyLine(h, t, TurnsKnown) /\ Kinds(h.up) \subseteq Kinds(k.up) \cup {"Leave"}
    BY <2>1, <2>2, <2>4, SaidFields, AnySaid, Zenon
  <2>7. u \in SessionRecord /\ u.link = 0 /\ u.mode = "Lost" /\ u.held = t.held /\ u.done = t.done
    <3>2. u = [t EXCEPT !.mode = "Lost", !.link = 0]
      BY <1>q
    <3>3. 0 \in 0 .. MaxLinks /\ t \in SessionRecord
      BY <2>1, Bounds
    <3> QED  BY <3>2, <3>3, LostSession, Zenon
  <2>8. t = machine[m] /\ t.link # 0 /\ k = links[t.link] /\ links' = [links EXCEPT ![t.link] = LeftLine(h)]
    BY <1>p, <1>3, <2>5
  <2>9. machine' = [machine EXCEPT ![m] = u]
    BY <1>1
  <2>10. Leaving(m, t, k, u, h)
    <3>1. AnyLine(LeftLine(h), u, TurnsKnown)
      BY <2>6, LeftFields
    <3> QED  BY <2>6, <2>7, <2>8, <2>9, <3>1 DEF Leaving
  <2>11. UNCHANGED server
    BY <1>1 DEF server
  <2>12. faults' = faults \/ Fault
    BY <1>1
  <2> QED  BY <2>10, <2>11, <2>12, LeavesLink
<1> QED  BY <1>2, <1>3

\* A machine runs the turns that it holds, and says how far it is.
LEMMA StepsStep ==
  ASSUME IInv, RejoinAssumption, world' = world, NEW m \in Machines, Steps(m)
  PROVE  IInv'
<1>p. PICK t, l, k, s, all, u, ack, claim, msgs, c :
        /\ t = machine[m] /\ l = t.link /\ k = links[l] /\ s = SeatOf[m]
        /\ all = (Have(t) >= t.total)
        /\ u = [t EXCEPT !.done = Have(t), !.claimed = all]
        /\ ack = <<[type |-> "Ack", turns |-> Have(t)]>>
        /\ claim = <<[type |-> "CaughtUp", turns |-> t.total]>>
        /\ msgs = (IF t.done < Have(t) THEN ack ELSE <<>>) \o (IF all THEN claim ELSE <<>>)
        /\ c = SaidLine(k, msgs)
  BY Zenon
<1>1. /\ t.mode = "CatchingUp" /\ t.known /\ ~t.claimed
      /\ machine' = [machine EXCEPT ![m] = u] /\ links' = Said(links, l, msgs)
      /\ UNCHANGED server /\ faults' = faults
  BY <1>p, Zenon DEF Steps, Becoming
<1>2. l # 0
  <2>1. SessionInv(t, TurnsKnown)
    BY <1>p DEF IInv, SeatInv, Sessions, RejoinAssumption
  <2> QED  BY <1>p, <1>1, <2>1 DEF SessionInv
<1>3. /\ s \in Seats /\ t \in SessionRecord /\ t.done <= Have(t) /\ SessionInv(t, TurnsKnown)
      /\ l \in DOMAIN links /\ k \in LinkRecord /\ k.of = m /\ k.copen
      /\ AnyLine(k, t, TurnsKnown)
      /\ client[s] = l => PlayerLine(k, t, log)
      /\ \A r \in rejoiners : r.link = l => ComerLine(k, t, r, log)
      /\ client[s] # 0 /\ links[client[s]].of = m => ~Stray(m) /\ (client[s] = l \/ Untold(t))
      /\ TurnsKnown \in Nat /\ TurnsKnown <= MaxTurns /\ Have(t) \in Nat
  BY <1>p, <1>2, LinkOf
<1>4. t.total \in 0 .. MaxTurns /\ MaxTurns \in Nat
  BY <1>3, SessionFields DEF RejoinAssumption
<1>5. ack \in Seq(Messages) /\ claim \in Seq(Messages) /\ Kinds(ack) = {"Ack"} /\ Kinds(claim) = {"CaughtUp"}
  BY <1>p, <1>3, <1>4, MessageKinds, FewKinds
<1>6. /\ msgs \in Seq(Messages) /\ Kinds(msgs) \subseteq {"Ack", "CaughtUp"}
      /\ "CaughtUp" \in Kinds(msgs) => all
      /\ \A i \in DOMAIN msgs : msgs[i].type = "CaughtUp" => msgs[i].turns = t.total
  <2>1. PICK a, b : /\ a = (IF t.done < Have(t) THEN ack ELSE <<>>)
                    /\ b = (IF all THEN claim ELSE <<>>)
    OBVIOUS
  <2>2. a \in Seq(Messages) /\ b \in Seq(Messages) /\ Kinds(a) \subseteq {"Ack"}
        /\ Kinds(b) \subseteq {"CaughtUp"} /\ ("CaughtUp" \in Kinds(b) => all)
    BY <1>5, <2>1, FewKinds
  <2>3. msgs = a \o b
    BY <1>p, <2>1
  <2>4. msgs \in Seq(Messages) /\ Kinds(msgs) = Kinds(a) \cup Kinds(b)
    BY <2>2, <2>3, ConcatFacts, ConcatKinds
  <2>5. \A i \in DOMAIN b : b[i].turns = t.total
    BY <1>p, <2>1
  <2>6. \A i \in DOMAIN a : a[i].type # "CaughtUp"
    <3> SUFFICES ASSUME NEW i \in DOMAIN a PROVE a[i].type # "CaughtUp"
      OBVIOUS
    <3>1. a[i].type \in Kinds(a)
      BY DEF Kinds
    <3>2. a[i].type \in {"Ack"}
      BY <2>2, <3>1
    <3> QED  BY <3>2
  <2>7. /\ DOMAIN a = 1 .. Len(a) /\ DOMAIN b = 1 .. Len(b) /\ DOMAIN msgs = 1 .. (Len(a) + Len(b))
        /\ \A i \in 1 .. (Len(a) + Len(b)) :
              \/ i \in 1 .. Len(a) /\ msgs[i] = a[i]
              \/ i > Len(a) /\ i - Len(a) \in 1 .. Len(b) /\ msgs[i] = b[i - Len(a)]
    BY <2>2, <2>3, ConcatFacts
  <2>8. \A i \in DOMAIN msgs : msgs[i].type = "CaughtUp" => msgs[i].turns = t.total
    BY <2>5, <2>6, <2>7
  <2> QED  BY <2>2, <2>4, <2>8
<1>7. /\ c \in LinkRecord
      /\ c.of = k.of /\ c.down = k.down /\ (c.copen <=> k.copen) /\ (c.sopen <=> k.sopen)
      /\ Kinds(c.up) \subseteq Kinds(k.up) \cup Kinds(msgs)
      /\ \A i \in DOMAIN c.up : \/ i \in DOMAIN k.up /\ c.up[i] = k.up[i]
                                \/ \E j \in DOMAIN msgs : c.up[i] = msgs[j]
      /\ Unheard(k) => Unheard(c)
  <2>1. "Hello" \notin Kinds(msgs)
    BY <1>6
  <2>2. c = SaidLine(k, msgs) /\ k \in LinkRecord /\ msgs \in Seq(Messages)
    BY <1>p, <1>3, <1>6
  <2> QED  BY <2>1, <2>2, SaidFields
<1>8. "Hello" \notin Kinds(k.up)
  BY <1>1, <1>3 DEF AnyLine, Kinds
<1>9. AnyLine(c, t, TurnsKnown)
  <2>1. "Hello" \notin Kinds(msgs)
    BY <1>6
  <2> QED  BY <1>p, <1>3, <1>6, <1>8, <2>1, AnySaid, Zenon
<1>10. /\ u \in SessionRecord /\ u.mode = "CatchingUp" /\ u.link = l /\ u.held = t.held /\ u.known
       /\ u.done = Have(t) /\ (u.claimed <=> all) /\ u.total = t.total
  <2>1. Have(t) \in 0 .. MaxTurns /\ all \in BOOLEAN
    BY <1>p, <1>3, <1>4 DEF SessionInv
  <2> QED  BY <1>p, <1>1, <1>3, <2>1, Zenon DEF SessionRecord
<1>11. SessionInv(u, TurnsKnown) /\ u.done <= Have(u)
  <2>1. Have(u) = Have(t)
    BY <1>10 DEF Have
  <2>2. Have(t) <= t.total /\ Have(t) <= TurnsKnown
    BY <1>p, <1>1, <1>2, <1>3 DEF SessionInv
  <2>3. u.claimed => Have(u) = u.total
    <3>1. all <=> Have(t) >= t.total
      BY <1>p, Zenon
    <3> QED  BY <1>3, <1>4, <1>10, <2>1, <2>2, <3>1
  <2> QED  BY <1>2, <1>3, <1>10, <2>1, <2>2, <2>3 DEF SessionInv
<1>12. "Turn" \notin Kinds(c.down)
  BY <1>1, <1>3, <1>7 DEF AnyLine
<1>13. AnyLine(c, u, TurnsKnown)
  <2>1. "Hello" \notin Kinds(c.up)
    BY <1>6, <1>7, <1>8
  <2>2. \A i \in DOMAIN c.up : c.up[i].type # "Hello"
    BY <2>1 DEF Kinds
  <2>3. \A i \in DOMAIN c.down : c.down[i].type # "Turn"
    BY <1>12 DEF Kinds
  <2>4. c.down # <<>> => 1 \in DOMAIN c.down
    BY <1>7, LinkFields, EmptySeq
  <2>5. c.copen => "Start" \notin Kinds(c.down)
    BY <1>1, <1>9 DEF AnyLine
  <2> QED  BY <1>9, <1>12, <2>2, <2>3, <2>4, <2>5 DEF AnyLine
<1>14. client[s] # l
  BY <1>1, <1>3 DEF PlayerLine
<1>15. client[s] # 0 /\ links[client[s]].of = m => ~Stray(m)'
  <2>1. log' = log /\ machine'[m].held = machine[m].held
    BY <1>p, <1>1, <1>10, TypedHere DEF server, IInv, Typed
  <2> QED  BY <1>3, <2>1, SameStray
<1>16. \A r \in rejoiners : r.link = l => ComerLine(c, u, r, log)
  <2> SUFFICES ASSUME NEW r \in rejoiners, ComerLine(k, t, r, log) PROVE ComerLine(c, u, r, log)
    BY <1>3
  <2>1. /\ k.sopen /\ r.total = Len(log)
        /\ "Presence" \notin Kinds(k.down) /\ "Turn" \notin Kinds(k.down)
        /\ ~r.verify
        /\ \A i \in DOMAIN k.up : k.up[i].type # "CaughtUp"
    BY <1>1, <1>3 DEF ComerLine
  <2>2. \A i \in DOMAIN c.up : c.up[i].type = "CaughtUp" => u.claimed /\ u.total = c.up[i].turns
    BY <1>6, <1>7, <1>10, <2>1 DEF Kinds
  <2>3. "Hello" \notin Kinds(c.up)
    BY <1>6, <1>7, <1>8
  <2> QED  BY <1>7, <2>1, <2>2, <2>3 DEF ComerLine
<1>17. ~Untold(t)
  BY <1>1 DEF Untold
<1>18. links' = [links EXCEPT ![l] = c]
  <2>1. links = [links EXCEPT ![l] = k]
    BY <1>p, <1>3, LinksOfSeat DEF IInv, TypeOK
  <2> QED  BY <1>p, <1>1, <2>1, Zenon DEF Said, SaidLine
<1>19. OneLink(m, s, t, l, k, u, c)
  <2>1. m \in Machines /\ s = SeatOf[m] /\ t = machine[m] /\ l = t.link /\ l \in DOMAIN links /\ k = links[l]
    BY <1>p, <1>3
  <2>2. u.link \in {0, l} /\ c.of = m /\ (c.copen <=> u.link = l) /\ (c.sopen <=> k.sopen)
    BY <1>3, <1>7, <1>10
  <2> QED  BY <1>1, <1>7, <1>10, <1>11, <1>13, <1>14, <1>15, <1>16, <1>17, <1>18, <2>1, <2>2 DEF OneLink
<1> QED  BY <1>1, <1>19, LinkStep

\* A machine whose next link is due makes it and says Hello.
LEMMA AttachesStep ==
  ASSUME IInv, RejoinAssumption, world' = world, NEW m \in Machines, Attaches(m)
  PROVE  IInv'
<1>p. PICK t, s, n, hello, k, u :
        /\ t = machine[m] /\ s = SeatOf[m] /\ n = Len(links) + 1
        /\ hello = <<[type |-> "Hello", have |-> Have(t)]>>
        /\ k = Link(m, hello)
        /\ u = [t EXCEPT !.mode = "Rejoining", !.link = n]
  BY Zenon
<1>1. /\ t.mode = "Reconnecting" /\ n <= MaxLinks
      /\ links' = Append(links, k) /\ machine' = [machine EXCEPT ![m] = u]
      /\ UNCHANGED server
      /\ faults' = faults
  <2>1. Len(links) < MaxLinks /\ Len(links) \in Nat /\ MaxLinks \in Nat
    <3>1. links \in Seq(LinkRecord)
      BY TypedHere DEF IInv, Typed
    <3> QED  BY <3>1, Bounds DEF Attaches
  <2> QED  BY <1>p, <2>1 DEF Attaches, Becoming
<1>2. s \in Seats /\ Typed /\ SeatInv(s) /\ links \in Seq(LinkRecord)
      /\ \A x \in DOMAIN links : x # 0 /\ links[x].of \in Machines
  <2>1. s \in Seats
    BY <1>p DEF RejoinAssumption
  <2> QED  BY <2>1, TypedHere, LinksOfSeat DEF IInv
<1>3. /\ t \in SessionRecord /\ SessionInv(t, TurnsKnown) /\ t.done <= Have(t) /\ t.link = 0
      /\ ~t.known /\ ~t.claimed /\ Have(t) \in Nat
  <2>1. t \in SessionRecord /\ t.done <= Have(t) /\ SessionInv(t, TurnsKnown)
    BY <1>p, <1>2 DEF Typed, SeatInv, Sessions
  <2> QED  BY <1>1, <2>1, SessionFields DEF SessionInv
<1>4. hello \in Seq(Messages) /\ Kinds(hello) = {"Hello"} /\ Len(hello) = 1 /\ hello[1].type = "Hello"
      /\ DOMAIN hello = {1} /\ hello # <<>>
  <2>1. [type |-> "Hello", have |-> Have(t)] \in Messages
    BY <1>3, MessageKinds
  <2> QED  BY <1>p, <2>1, FewKinds
<1>5. /\ k.of = m /\ k.up = hello /\ k.down = <<>> /\ k.copen /\ k.sopen /\ ~k.cut /\ k \in LinkRecord
  BY <1>p, <1>4 DEF Link, LinkRecord
<1>6. /\ u \in SessionRecord /\ u.link = n /\ u.mode = "Rejoining" /\ u.held = t.held /\ u.done = t.done
      /\ ~u.known /\ ~u.claimed
  <2>1. n \in 0 .. MaxLinks
    BY <1>1, <1>2, <1>p, Bounds
  <2> QED  BY <1>p, <1>3, <2>1, Zenon DEF SessionRecord
<1>7. n \notin DOMAIN links /\ n # 0 /\ DOMAIN links' = DOMAIN links \cup {n} /\ links' \in Seq(LinkRecord)
      /\ links'[n] = k /\ (\A x \in DOMAIN links : links'[x] = links[x]) /\ Len(links) <= Len(links')
  BY <1>p, <1>1, <1>2, <1>5
<1>8. SessionInv(u, TurnsKnown) /\ u.done <= Have(u)
  BY <1>3, <1>6, <1>7 DEF SessionInv, Have
<1>9. client' = client /\ rejoiners' = rejoiners /\ log' = log
  BY <1>1 DEF server
<1>10. AnyLine(k, u, TurnsKnown) /\ Unheard(k) /\ Kinds(k.down) = {}
  <2>1. DOMAIN k.down = {} /\ Kinds(k.down) = {}
    BY <1>5, FewKinds
  <2> QED  BY <1>4, <1>5, <1>6, <2>1 DEF AnyLine, Unheard
<1>11. \A x \in DOMAIN links : links[x].of = m => ~links[x].copen /\ AnyLine(links[x], u, TurnsKnown)
  <2> SUFFICES ASSUME NEW x \in DOMAIN links, links[x].of = m
               PROVE  ~links[x].copen /\ AnyLine(links[x], u, TurnsKnown)
    OBVIOUS
  <2>1. PICK y : y = links[x]
    OBVIOUS
  <2>2. ~y.copen /\ AnyLine(y, t, TurnsKnown)
    BY <1>p, <1>2, <1>3, <2>1, LineHere, Zenon
  <2>3. AnyLine(y, u, TurnsKnown)
    BY <2>2 DEF AnyLine
  <2> QED  BY <2>1, <2>2, <2>3
<1>12. \A x \in DOMAIN links' : links'[x].of = m =>
         /\ links'[x].copen <=> u.link = x
         /\ AnyLine(links'[x], u, TurnsKnown)
         /\ links'[x].sopen => IsClient(s, x) \/ IsComer(s, x) \/ Unheard(links'[x])
  <2> SUFFICES ASSUME NEW x \in DOMAIN links', links'[x].of = m
               PROVE  /\ links'[x].copen <=> u.link = x
                      /\ AnyLine(links'[x], u, TurnsKnown)
                      /\ links'[x].sopen => IsClient(s, x) \/ IsComer(s, x) \/ Unheard(links'[x])
    OBVIOUS
  <2>1. CASE x = n
    BY <1>5, <1>6, <1>7, <1>10, <2>1
  <2>2. CASE x \in DOMAIN links
    <3>1. links[x].sopen => IsClient(s, x) \/ IsComer(s, x) \/ Unheard(links[x])
      BY <1>p, <1>2, <1>7, <2>2 DEF SeatInv, Open
    <3>2. links'[x] = links[x] /\ u.link # x
      BY <1>6, <1>7, <2>2
    <3> QED  BY <1>11, <2>2, <3>1, <3>2
  <2> QED  BY <1>7, <2>1, <2>2
<1>13. Kinds(links'[u.link].down) \subseteq {"Reject"}
  BY <1>6, <1>7, <1>10
<1>14. client[s] # 0 /\ links[client[s]].of = m => PlayerLine(links'[client[s]], u, log) /\ ~Stray(m)'
  <2> SUFFICES ASSUME client[s] # 0, links[client[s]].of = m
               PROVE  PlayerLine(links'[client[s]], u, log) /\ ~Stray(m)'
    OBVIOUS
  <2>1. PICK y : y = links[client[s]]
    OBVIOUS
  <2>2. client[s] \in DOMAIN links /\ PlayerLine(y, t, log) /\ ~Stray(m)
    BY <1>p, <1>2, <2>1, LinksOfSeat DEF SeatInv, Player
  <2>3. ~y.copen
    BY <1>11, <2>1, <2>2
  <2>4. PlayerLine(y, u, log)
    BY <2>2, <2>3 DEF PlayerLine
  <2>5. machine'[m].held = machine[m].held
    BY <1>p, <1>1, <1>2, <1>6 DEF Typed
  <2>6. ~Stray(m)'
    BY <1>9, <2>2, <2>5, SameStray
  <2> QED  BY <1>7, <2>1, <2>2, <2>4, <2>6
<1>15. \A r \in rejoiners : links[r.link].of = m => ComerLine(links'[r.link], u, r, log)
  <2> SUFFICES ASSUME NEW r \in rejoiners, links[r.link].of = m
               PROVE  ComerLine(links'[r.link], u, r, log)
    OBVIOUS
  <2>1. PICK y : y = links[r.link]
    OBVIOUS
  <2>2. r.seat \in Seats
    BY <1>2, LinksOfSeat
  <2>3. r.link \in DOMAIN links /\ SeatOf[y.of] = r.seat
    BY <2>1, <2>2, LinksOfSeat
  <2>4. r.seat = s
    BY <1>p, <2>1, <2>3
  <2>5. ComerLine(y, t, r, log)
    BY <1>p, <1>2, <2>1, <2>4 DEF SeatInv, Returns
  <2>6. ~y.copen
    BY <1>11, <2>1, <2>3
  <2>7. ComerLine(y, u, r, log)
    BY <2>5, <2>6 DEF ComerLine
  <2> QED  BY <1>7, <2>1, <2>3, <2>7
<1>16. OwnLinks(m, s, u)
  BY <1>6, <1>12, <1>13, <1>14, <1>15 DEF OwnLinks
<1>17. \A x \in DOMAIN links : /\ links'[x].of = links[x].of
                               /\ links[x].of # m => links'[x] = links[x]
  BY <1>7
<1>18. \A x \in DOMAIN links' : x \notin DOMAIN links => links'[x].of = m
  BY <1>5, <1>7
<1>19. u.link # 0 => u.link \in DOMAIN links' /\ links'[u.link].of = m
  BY <1>5, <1>6, <1>7
<1>20. links' \in Seq(LinkRecord) /\ Len(links) <= Len(links')
  BY <1>7
<1>21. machine' = [machine EXCEPT ![m] = u] /\ s = SeatOf[m] /\ UNCHANGED server
  BY <1>p, <1>1
<1> QED  BY <1>1, <1>6, <1>8, <1>16, <1>17, <1>18, <1>19, <1>20, <1>21, OwnStep, Zenon

CutLine(k, i, j) == [k EXCEPT !.cut = TRUE, !.up = SubSeq(@, 1, i), !.down = SubSeq(@, 1, j)]

\* It has the beginning of what was on its way.
Shortened(c, k) ==
  /\ c \in LinkRecord /\ c.cut
  /\ c.of = k.of /\ (c.copen <=> k.copen) /\ (c.sopen <=> k.sopen)
  /\ DOMAIN c.up \subseteq DOMAIN k.up /\ DOMAIN c.down \subseteq DOMAIN k.down
  /\ \A x \in DOMAIN c.up : c.up[x] = k.up[x]
  /\ \A x \in DOMAIN c.down : c.down[x] = k.down[x]
  /\ Kinds(c.up) \subseteq Kinds(k.up) /\ Kinds(c.down) \subseteq Kinds(k.down)
  /\ k.down = <<>> => c.down = <<>>
  /\ c.up # <<>> => k.up # <<>> /\ c.up[1] = k.up[1]
  /\ c.down # <<>> => 1 \in DOMAIN c.down /\ k.down # <<>> /\ c.down[1] = k.down[1]

\* A broken link does.
LEMMA CutFields ==
  ASSUME NEW k \in LinkRecord, NEW i \in 0 .. Len(k.up), NEW j \in 0 .. Len(k.down)
  PROVE  Shortened(CutLine(k, i, j), k)
<1>p. PICK a, b, p, q, c :
        a = k.up /\ b = k.down /\ p = SubSeq(a, 1, i) /\ q = SubSeq(b, 1, j) /\ c = CutLine(k, i, j)
  BY Zenon
<1>1. a \in Seq(Messages) /\ b \in Seq(Messages) /\ i \in 0 .. Len(a) /\ j \in 0 .. Len(b)
  BY <1>p, LinkFields
<1>2. /\ p \in Seq(Messages) /\ DOMAIN p = 1 .. i /\ Len(p) = i
      /\ (\A x \in 1 .. i : p[x] = a[x] /\ x \in DOMAIN a) /\ Kinds(p) \subseteq Kinds(a)
  BY <1>p, <1>1, SubSeqFacts
<1>3. /\ q \in Seq(Messages) /\ DOMAIN q = 1 .. j /\ Len(q) = j
      /\ (\A x \in 1 .. j : q[x] = b[x] /\ x \in DOMAIN b) /\ Kinds(q) \subseteq Kinds(b)
  BY <1>p, <1>1, SubSeqFacts
<1>4. c = [k EXCEPT !.cut = TRUE, !.up = p, !.down = q]
  BY <1>p DEF CutLine
<1>5. /\ c \in LinkRecord /\ c.cut /\ c.up = p /\ c.down = q
      /\ c.of = k.of /\ (c.copen <=> k.copen) /\ (c.sopen <=> k.sopen)
  BY <1>2, <1>3, <1>4, Zenon DEF LinkRecord
<1>6. p # <<>> => 1 \in 1 .. i
  BY <1>2, EmptySeq
<1>7. q # <<>> => 1 \in 1 .. j
  BY <1>3, EmptySeq
<1>8. 1 \in DOMAIN a => a # <<>>
  OBVIOUS
<1>9. 1 \in DOMAIN b => b # <<>>
  OBVIOUS
<1>10. p # <<>> => a # <<>> /\ p[1] = a[1]
  BY <1>2, <1>6, <1>8
<1>11. q # <<>> => 1 \in DOMAIN q /\ b # <<>> /\ q[1] = b[1]
  BY <1>3, <1>7, <1>9
<1>12. Shortened(c, k)
  BY <1>p, <1>2, <1>3, <1>5, <1>10, <1>11 DEF Shortened
<1> QED  BY <1>p, <1>12

\* A link breaks.
LEMMA BreaksStep ==
  ASSUME IInv, RejoinAssumption, world' = world, NEW l \in DOMAIN links, Breaks(l)
  PROVE  IInv'
<1>p. PICK k, m, s, t : k = links[l] /\ m = k.of /\ s = SeatOf[m] /\ t = machine[m]
  OBVIOUS
<1>1. k \in LinkRecord /\ m \in Machines /\ l # 0 /\ s \in Seats /\ links \in Seq(LinkRecord) /\ Typed
  BY <1>p, TypedHere, LinkFields DEF RejoinAssumption, IInv, Typed
<1>2. k.copen /\ k.sopen /\ ~k.cut /\ UNCHANGED <<machine, server>> /\ Fault
  BY <1>p DEF Breaks, Carries
<1>3. t.link = l
  BY <1>p, <1>2, LineHere
<1>4. PICK i \in 0 .. Len(k.up), j \in 0 .. Len(k.down) :
        links' = [links EXCEPT ![l].cut = TRUE, ![l].up = SubSeq(@, 1, i), ![l].down = SubSeq(@, 1, j)]
  BY <1>p, Zenon DEF Breaks
<1>5. PICK c : c = CutLine(k, i, j)
  OBVIOUS
<1>6. links' = [links EXCEPT ![l] = c]
  BY <1>p, <1>1, <1>4, <1>5, Zenon DEF CutLine
<1>7. /\ c \in LinkRecord /\ c.cut
      /\ c.of = k.of /\ (c.copen <=> k.copen) /\ (c.sopen <=> k.sopen)
      /\ DOMAIN c.up \subseteq DOMAIN k.up /\ DOMAIN c.down \subseteq DOMAIN k.down
      /\ \A x \in DOMAIN c.up : c.up[x] = k.up[x]
      /\ \A x \in DOMAIN c.down : c.down[x] = k.down[x]
      /\ Kinds(c.up) \subseteq Kinds(k.up) /\ Kinds(c.down) \subseteq Kinds(k.down)
      /\ k.down = <<>> => c.down = <<>>
      /\ c.up # <<>> => k.up # <<>> /\ c.up[1] = k.up[1]
      /\ c.down # <<>> => 1 \in DOMAIN c.down /\ k.down # <<>> /\ c.down[1] = k.down[1]
  <2>1. k \in LinkRecord
    BY <1>1
  <2>2. i \in 0 .. Len(k.up) /\ j \in 0 .. Len(k.down)
    BY <1>4
  <2>3. c = CutLine(k, i, j)
    BY <1>5
  <2>4. Shortened(CutLine(k, i, j), k)
    BY <2>1, <2>2, CutFields
  <2> QED  BY <2>3, <2>4 DEF Shortened
<1>8. /\ t \in SessionRecord /\ t.done <= Have(t) /\ SessionInv(t, TurnsKnown)
      /\ AnyLine(k, t, TurnsKnown)
      /\ client[s] = l => PlayerLine(k, t, log)
      /\ \A r \in rejoiners : r.link = l => ComerLine(k, t, r, log)
      /\ client[s] # 0 /\ links[client[s]].of = m => ~Stray(m)
  BY <1>p, <1>1, <1>3, LinkOf, Zenon
<1>9. AnyLine(c, t, TurnsKnown)
  <2>1. c.up # <<>> => c.sopen
    BY <1>2, <1>7
  <2>2. \A x \in DOMAIN c.up : c.up[x].type = "Hello" =>
         /\ x = 1 /\ c.down = <<>> /\ (c.copen => t.mode = "Rejoining")
         /\ \A y \in DOMAIN c.up : y # 1 => c.up[y].type = "Leave"
    BY <1>7, <1>8 DEF AnyLine
  <2>3. \A x \in DOMAIN c.down :
          c.down[x].type = "Start" => x = 1 \/ (x = 2 /\ c.down[1].type = "Welcome")
    <3> SUFFICES ASSUME NEW x \in DOMAIN c.down, c.down[x].type = "Start"
                 PROVE  x = 1 \/ (x = 2 /\ c.down[1].type = "Welcome")
      OBVIOUS
    <3>1. x = 1 \/ (x = 2 /\ k.down[1].type = "Welcome")
      BY <1>7, <1>8 DEF AnyLine
    <3>2. c.down # <<>>
      OBVIOUS
    <3> QED  BY <1>7, <3>1, <3>2
  <2>4. /\ t.known => "Start" \notin Kinds(c.down)
        /\ "Turn" \in Kinds(c.down) => t.mode = "Normal" \/ t.claimed
        /\ t.claimed /\ c.down # <<>> => c.down[1].type # "Turn"
    BY <1>2, <1>7, <1>8 DEF AnyLine
  <2>5. \A x \in DOMAIN c.down : Sayable(c.down[x], TurnsKnown)
    BY <1>7, <1>8 DEF AnyLine
  <2> QED  BY <1>2, <1>7, <2>1, <2>2, <2>3, <2>4, <2>5 DEF AnyLine
<1>10. client[s] = l => PlayerLine(c, t, log)
  <2> SUFFICES ASSUME PlayerLine(k, t, log) PROVE PlayerLine(c, t, log)
    BY <1>8
  <2>1. /\ "Hello" \notin Kinds(k.up)
        /\ \A x \in DOMAIN k.down : k.down[x].type = "Turn" =>
             k.down[x].turn < Len(log) /\ k.down[x].life = log[k.down[x].turn + 1].life
        /\ t.mode = "Normal" \/ t.claimed
    BY <1>2 DEF PlayerLine
  <2>2. \A x \in DOMAIN c.down : x \in DOMAIN k.down /\ c.down[x] = k.down[x]
    BY <1>7
  <2>3. \A x \in DOMAIN c.down : c.down[x].type = "Turn" =>
             c.down[x].turn < Len(log) /\ c.down[x].life = log[c.down[x].turn + 1].life
    BY <2>1, <2>2, Zenon
  <2>4. "Hello" \notin Kinds(c.up) /\ c.cut /\ c.sopen
    BY <1>2, <1>7, <2>1
  <2> QED  BY <2>1, <2>3, <2>4 DEF PlayerLine
<1>11. \A r \in rejoiners : r.link = l => ComerLine(c, t, r, log)
  <2> SUFFICES ASSUME NEW r \in rejoiners, ComerLine(k, t, r, log) PROVE ComerLine(c, t, r, log)
    BY <1>8
  <2>1. /\ "Hello" \notin Kinds(c.up) /\ "Presence" \notin Kinds(c.down) /\ "Turn" \notin Kinds(c.down)
        /\ r.total = Len(log)
        /\ r.verify => t.claimed /\ t.total = r.total
        /\ \A x \in DOMAIN c.up : c.up[x].type = "CaughtUp" => t.claimed /\ t.total = c.up[x].turns
    BY <1>2, <1>7 DEF ComerLine
  <2> QED  BY <1>2, <1>7, <2>1 DEF ComerLine
<1>12. client[s] # 0 /\ links[client[s]].of = m => ~Stray(m)'
  <2>1. log' = log /\ machine'[m].held = machine[m].held
    BY <1>2 DEF server
  <2> QED  BY <1>1, <1>8, <2>1, SameStray
<1>13. Unheard(k) => Unheard(c)
  BY <1>2, <1>7 DEF Unheard
<1>14. Untold(t) => t.link = 0 \/ (t.mode = "Rejoining" /\ Kinds(c.down) \subseteq {"Reject"})
  <2>1. Kinds(links[t.link].down) = Kinds(k.down)
    BY <1>p, <1>3
  <2> QED  BY <1>7, <2>1 DEF Untold
<1>15. machine' = [machine EXCEPT ![m] = t]
  BY <1>p, <1>1, <1>2 DEF Typed
<1>16. OneLink(m, s, t, l, k, t, c)
  <2>1. t.link \in {0, l} /\ c.of = m /\ (c.copen <=> t.link = l) /\ (c.sopen <=> k.sopen)
    BY <1>p, <1>2, <1>3, <1>7
  <2>2. m \in Machines /\ s = SeatOf[m] /\ t = machine[m] /\ l = t.link /\ l \in DOMAIN links /\ k = links[l]
    BY <1>p, <1>1, <1>3
  <2> QED  BY <1>6, <1>7, <1>8, <1>9, <1>10, <1>11, <1>12, <1>13, <1>14, <1>15, <2>1, <2>2 DEF OneLink
<1>17. UNCHANGED server
  BY <1>2 DEF server
<1> QED  BY <1>2, <1>16, <1>17, LinkStep

\* A link of which its machine has read a message: its Hello is heard.
LEMMA ReadFields ==
  ASSUME NEW k \in LinkRecord, k.down # <<>>, NEW t, NEW top, AnyLine(k, t, top)
  PROVE  LET h == ReadLine(k)
         IN /\ h \in LinkRecord
            /\ h.of = k.of /\ h.up = k.up /\ (h.copen <=> k.copen) /\ (h.sopen <=> k.sopen)
            /\ h.cut <=> k.cut
            /\ k.copen
            /\ h.down = Tail(k.down) /\ Kinds(h.down) \subseteq Kinds(k.down)
            /\ 1 \in DOMAIN k.down /\ Head(k.down) = k.down[1] /\ Head(k.down) \in Messages
            /\ Head(k.down).type \in Kinds(k.down) /\ Sayable(Head(k.down), top)
            /\ "Hello" \notin Kinds(k.up)
            /\ \A i \in DOMAIN h.down : i + 1 \in DOMAIN k.down /\ h.down[i] = k.down[i + 1]
            /\ "Start" \in Kinds(h.down) => Head(k.down).type = "Welcome"
<1>1. PICK h, q : h = ReadLine(k) /\ q = k.down
  OBVIOUS
<1>2. q \in Seq(Messages) /\ q # <<>>
  BY <1>1, LinkFields
<1>3. /\ Head(q) = q[1] /\ Head(q) \in Messages /\ 1 \in DOMAIN q
      /\ Tail(q) \in Seq(Messages)
      /\ \A i \in DOMAIN Tail(q) : i + 1 \in DOMAIN q /\ Tail(q)[i] = q[i + 1]
      /\ Kinds(Tail(q)) \subseteq Kinds(q)
      /\ Head(q).type \in Kinds(q)
  BY <1>2, TailFacts
<1>4. /\ h \in LinkRecord
      /\ h.of = k.of /\ h.up = k.up /\ (h.copen <=> k.copen) /\ (h.sopen <=> k.sopen)
      /\ (h.cut <=> k.cut) /\ h.down = Tail(q)
  BY <1>1, <1>3, Zenon DEF ReadLine, LinkRecord
<1>5. k.copen /\ Sayable(Head(q), top) /\ "Hello" \notin Kinds(k.up)
  BY <1>1, <1>2, <1>3 DEF AnyLine, Kinds
<1>6. "Start" \in Kinds(h.down) => Head(q).type = "Welcome"
  <2> SUFFICES ASSUME NEW i \in DOMAIN Tail(q), Tail(q)[i].type = "Start"
               PROVE  Head(q).type = "Welcome"
    BY <1>4 DEF Kinds
  <2>1. i + 1 \in DOMAIN q /\ q[i + 1].type = "Start" /\ i \in Nat \ {0}
    BY <1>2, <1>3
  <2>2. i + 1 = 1 \/ q[1].type = "Welcome"
    BY <1>1, <2>1 DEF AnyLine
  <2> QED  BY <1>3, <2>1, <2>2
<1> QED  BY <1>1, <1>3, <1>4, <1>5, <1>6

\* Machine m, whose session was t, reads a message of its link, which was k, keeps it, as h,
\* and is left with session u.
Hearing(m, t, k, h, u) ==
  /\ m \in Machines /\ t = machine[m] /\ t.link # 0 /\ k = links[t.link]
  /\ k.down # <<>> /\ h = ReadLine(k)
  /\ u \in SessionRecord /\ u.link = t.link /\ machine' = [machine EXCEPT ![m] = u]
  /\ SessionInv(u, TurnsKnown) /\ u.done <= Have(u)
  /\ ~Untold(t)
  /\ u.known => "Start" \notin Kinds(h.down)
  /\ "Turn" \in Kinds(h.down) => u.mode = "Normal" \/ u.claimed
  /\ u.claimed /\ h.down # <<>> => h.down[1].type # "Turn"
  /\ client[SeatOf[m]] = t.link => PlayerLine(h, u, log) /\ ~Stray(m)'
  /\ "Presence" \notin Kinds(k.down) /\ t.claimed => u.claimed /\ u.total = t.total

\* That keeps the invariant, and if it answers as well that it has loaded the match.
LEMMA HearsLink ==
  ASSUME IInv, RejoinAssumption, world' = world, UNCHANGED server, faults' = faults,
         NEW m, NEW t, NEW k, NEW h, NEW u, Hearing(m, t, k, h, u),
         NEW ok \in BOOLEAN, NEW c, c \in {h, SaidLine(h, <<[type |-> "Loaded", ok |-> ok]>>)},
         links' = [links EXCEPT ![t.link] = c]
  PROVE  IInv'
<1>p. PICK l, s, loaded :
        l = t.link /\ s = SeatOf[m] /\ loaded = <<[type |-> "Loaded", ok |-> ok]>>
  OBVIOUS
<1>1. /\ m \in Machines /\ t = machine[m] /\ l # 0 /\ k = links[l] /\ t.link = l
      /\ k.down # <<>> /\ h = ReadLine(k)
      /\ u \in SessionRecord /\ u.link = l /\ machine' = [machine EXCEPT ![m] = u]
      /\ SessionInv(u, TurnsKnown) /\ u.done <= Have(u)
      /\ ~Untold(t)
  BY <1>p DEF Hearing
<1>2. /\ u.known => "Start" \notin Kinds(h.down)
      /\ "Turn" \in Kinds(h.down) => u.mode = "Normal" \/ u.claimed
      /\ u.claimed /\ h.down # <<>> => h.down[1].type # "Turn"
      /\ client[s] = l => PlayerLine(h, u, log) /\ ~Stray(m)'
      /\ "Presence" \notin Kinds(k.down) /\ t.claimed => u.claimed /\ u.total = t.total
  BY <1>p DEF Hearing
<1>3. /\ s \in Seats /\ t \in SessionRecord
      /\ l \in DOMAIN links /\ k \in LinkRecord /\ k.of = m /\ k.copen
      /\ AnyLine(k, t, TurnsKnown)
      /\ \A r \in rejoiners : r.link = l => ComerLine(k, t, r, log)
      /\ client[s] # 0 /\ links[client[s]].of = m => client[s] = l
  BY <1>p, <1>1, LinkOf
<1>4. /\ h \in LinkRecord
      /\ h.of = m /\ h.up = k.up /\ h.copen /\ (h.sopen <=> k.sopen) /\ (h.cut <=> k.cut)
      /\ Kinds(h.down) \subseteq Kinds(k.down)
      /\ "Hello" \notin Kinds(k.up)
      /\ \A i \in DOMAIN h.down : i + 1 \in DOMAIN k.down /\ h.down[i] = k.down[i + 1]
      /\ "Start" \in Kinds(h.down) => Head(k.down).type = "Welcome"
      /\ Head(k.down) = k.down[1]
  BY <1>1, <1>3, ReadFields, ZenonT(60)
<1>5. loaded \in Seq(Messages) /\ Kinds(loaded) = {"Loaded"}
  BY <1>p, MessageKinds, FewKinds
<1>6. /\ c \in LinkRecord /\ c.of = m /\ c.down = h.down /\ c.copen /\ (c.sopen <=> h.sopen)
      /\ (c.cut <=> h.cut)
      /\ Kinds(c.up) \subseteq Kinds(h.up) \cup {"Loaded"}
      /\ \A i \in DOMAIN c.up : \/ i \in DOMAIN h.up /\ c.up[i] = h.up[i]
                                \/ c.up[i].type = "Loaded"
      /\ Unheard(h) => Unheard(c)
      /\ c.up # <<>> => c.sopen
  <2>1. h.up # <<>> => h.sopen
    BY <1>3, <1>4 DEF AnyLine
  <2>2. CASE c = h
    BY <1>4, <2>1, <2>2
  <2>3. CASE c = SaidLine(h, loaded)
    <3>1. /\ c \in LinkRecord
          /\ c.of = h.of /\ c.down = h.down /\ (c.copen <=> h.copen) /\ (c.sopen <=> h.sopen)
          /\ c.cut <=> h.cut
          /\ Kinds(c.up) \subseteq Kinds(h.up) \cup Kinds(loaded)
          /\ c.up # h.up => h.sopen
          /\ \A i \in DOMAIN c.up : \/ i \in DOMAIN h.up /\ c.up[i] = h.up[i]
                                    \/ \E j \in DOMAIN loaded : c.up[i] = loaded[j]
          /\ Unheard(h) => Unheard(c)
      <4>1. "Hello" \notin Kinds(loaded)
        BY <1>5
      <4>2. h \in LinkRecord /\ loaded \in Seq(Messages)
        BY <1>4, <1>5
      <4> QED  BY <2>3, <4>1, <4>2, SaidFields
    <3>2. \A j \in DOMAIN loaded : loaded[j].type = "Loaded"
      BY <1>p
    <3> QED  BY <1>4, <1>5, <2>1, <3>1, <3>2
  <2> QED  BY <1>p, <2>2, <2>3
<1>7. "Hello" \notin Kinds(c.up)
  BY <1>4, <1>6
<1>8. AnyLine(c, u, TurnsKnown)
  <2>1. \A i \in DOMAIN c.up : c.up[i].type # "Hello"
    BY <1>7 DEF Kinds
  <2>2. \A i \in DOMAIN c.down : Sayable(c.down[i], TurnsKnown)
    BY <1>3, <1>4, <1>6 DEF AnyLine
  <2>3. \A i \in DOMAIN c.down : c.down[i].type = "Start" => i = 1
    <3> SUFFICES ASSUME NEW i \in DOMAIN c.down, c.down[i].type = "Start" PROVE i = 1
      OBVIOUS
    <3>1. i + 1 \in DOMAIN k.down /\ k.down[i + 1].type = "Start" /\ i \in Nat \ {0}
      <4>1. c.down \in Seq(Messages)
        BY <1>6, LinkFields
      <4> QED  BY <1>4, <1>6, <4>1
    <3>2. i + 1 = 1 \/ i + 1 = 2
      BY <1>3, <3>1 DEF AnyLine
    <3> QED  BY <3>1, <3>2
  <2> QED  BY <1>2, <1>6, <2>1, <2>2, <2>3 DEF AnyLine
<1>9. client[s] = l => PlayerLine(c, u, log) /\ ~Stray(m)'
  <2> SUFFICES ASSUME PlayerLine(h, u, log) PROVE PlayerLine(c, u, log)
    BY <1>2
  <2>1. /\ h.sopen
        /\ \A i \in DOMAIN h.down : h.down[i].type = "Turn" =>
             h.down[i].turn < Len(log) /\ h.down[i].life = log[h.down[i].turn + 1].life
        /\ u.mode = "Normal" \/ u.claimed
        /\ ~h.cut => Coming(h.down, Have(u), log) /\ (u.claimed => h.down # <<>>)
    BY <1>4 DEF PlayerLine
  <2>2. c.sopen /\ c.down = h.down /\ (c.cut <=> h.cut)
    BY <1>6, <2>1
  <2> QED  BY <1>7, <2>1, <2>2 DEF PlayerLine
<1>10. \A r \in rejoiners : r.link = l => ComerLine(c, u, r, log)
  <2> SUFFICES ASSUME NEW r \in rejoiners, ComerLine(k, t, r, log) PROVE ComerLine(c, u, r, log)
    BY <1>3
  <2>1. /\ k.sopen /\ r.total = Len(log)
        /\ "Presence" \notin Kinds(k.down) /\ "Turn" \notin Kinds(k.down)
        /\ r.verify => t.claimed /\ t.total = r.total
        /\ \A i \in DOMAIN k.up : k.up[i].type = "CaughtUp" => t.claimed /\ t.total = k.up[i].turns
    BY <1>3 DEF ComerLine
  <2>2. \A i \in DOMAIN c.up : c.up[i].type = "CaughtUp" => t.claimed /\ t.total = c.up[i].turns
    BY <1>4, <1>6, <2>1
  <2>3. "Presence" \notin Kinds(c.down) /\ "Turn" \notin Kinds(c.down)
    BY <1>4, <1>6, <2>1
  <2> QED  BY <1>2, <1>4, <1>6, <1>7, <2>1, <2>2, <2>3 DEF ComerLine
<1>11. Unheard(k) => Unheard(c)
  BY <1>4, <1>6 DEF Unheard
<1>12. links' = [links EXCEPT ![l] = c]
  BY <1>p
<1>13. OneLink(m, s, t, l, k, u, c)
  <2>1. m \in Machines /\ s = SeatOf[m] /\ t = machine[m] /\ l = t.link /\ l \in DOMAIN links /\ k = links[l]
    BY <1>p, <1>1, <1>3
  <2>2. u.link \in {0, l} /\ c.of = m /\ (c.copen <=> u.link = l) /\ (c.sopen <=> k.sopen)
    BY <1>1, <1>4, <1>6
  <2>3. u \in SessionRecord /\ u.done <= Have(u) /\ machine' = [machine EXCEPT ![m] = u]
        /\ SessionInv(u, TurnsKnown) /\ c \in LinkRecord
    BY <1>1, <1>6
  <2>4. client[s] # 0 /\ links[client[s]].of = m => ~Stray(m)'
    BY <1>3, <1>9
  <2>5. Untold(t) => u.link = 0 \/ (u.mode = "Rejoining" /\ Kinds(c.down) \subseteq {"Reject"})
    BY <1>1
  <2> QED  BY <1>8, <1>9, <1>10, <1>11, <1>12, <2>1, <2>2, <2>3, <2>4, <2>5 DEF OneLink
<1> QED  BY <1>13, LinkStep

\* The next message of what is on its way to a player.
LEMMA ComingTail ==
  ASSUME NEW q \in Seq(Messages), q # <<>>, NEW have \in Nat, NEW L, Len(L) \in Nat, Coming(q, have, L)
  PROVE  /\ q[1].type = "Turn" => q[1].turn = have /\ Coming(Tail(q), have + 1, L)
         /\ q[1].type # "Turn" => Coming(Tail(q), have, L)
<1>p. PICK n, N, z : n = Len(L) - have /\ N = Len(q) /\ z = Tail(q)
  BY Zenon
<1>1. /\ z \in Seq(Messages) /\ Len(z) = N - 1 /\ N \in Nat \ {0} /\ 1 \in DOMAIN q
      /\ DOMAIN q = 1 .. N /\ DOMAIN z = 1 .. (N - 1)
      /\ \A i \in DOMAIN z : i + 1 \in DOMAIN q /\ z[i] = q[i + 1]
  <2>1. z \in Seq(Messages) /\ Len(z) = N - 1 /\ N \in Nat \ {0} /\ 1 \in DOMAIN q
        /\ \A i \in DOMAIN z : i + 1 \in DOMAIN q /\ z[i] = q[i + 1]
    BY <1>p, TailFacts
  <2> QED  BY <1>p, <2>1
<1>2. /\ n \in 0 .. N
      /\ \A i \in DOMAIN q : /\ q[i].type = "Turn" <=> i > N - n
                             /\ q[i].type = "Turn" => q[i].turn = Len(L) - 1 - (N - i)
  BY <1>p DEF Coming
<1>3. CASE q[1].type = "Turn"
  <2>1. 1 > N - n
    BY <1>1, <1>2, <1>3
  <2>2. n = N
    BY <1>1, <1>2, <2>1
  <2>3. q[1].turn = have
    <3>1. q[1].turn = Len(L) - 1 - (N - 1)
      BY <1>1, <1>2, <1>3, Zenon
    <3> QED  BY <1>p, <1>1, <2>2, <3>1
  <2>4. Len(L) - (have + 1) \in 0 .. Len(z) /\ Len(L) - (have + 1) = N - 1
    BY <1>p, <1>1, <2>2
  <2>5. ASSUME NEW i \in DOMAIN z
        PROVE  /\ z[i].type = "Turn" <=> i > (N - 1) - (N - 1)
               /\ z[i].type = "Turn" => z[i].turn = Len(L) - 1 - ((N - 1) - i)
    <3>1. i \in 1 .. (N - 1) /\ i + 1 \in DOMAIN q /\ z[i] = q[i + 1]
      BY <1>1
    <3>2. z[i].type = "Turn" /\ z[i].turn = Len(L) - 1 - (N - (i + 1))
      <4>1. i + 1 > N - n
        BY <1>1, <2>2, <3>1
      <4> QED  BY <1>2, <3>1, <4>1
    <3>3. N - (i + 1) = (N - 1) - i /\ i > (N - 1) - (N - 1)
      BY <1>1, <3>1
    <3> QED  BY <3>2, <3>3
  <2>6. Coming(z, have + 1, L)
    BY <1>1, <2>4, <2>5, Zenon DEF Coming
  <2> QED  BY <1>p, <1>3, <2>3, <2>6
<1>4. CASE q[1].type # "Turn"
  <2>1. n <= N - 1
    <3>1. ~(1 > N - n)
      BY <1>1, <1>2, <1>4
    <3> QED  BY <1>1, <1>2, <3>1
  <2>2. n \in 0 .. Len(z)
    BY <1>1, <1>2, <2>1
  <2>3. ASSUME NEW i \in DOMAIN z
        PROVE  /\ z[i].type = "Turn" <=> i > (N - 1) - n
               /\ z[i].type = "Turn" => z[i].turn = Len(L) - 1 - ((N - 1) - i)
    <3>1. i \in 1 .. (N - 1) /\ i + 1 \in DOMAIN q /\ z[i] = q[i + 1]
      BY <1>1
    <3>2. /\ z[i].type = "Turn" <=> i + 1 > N - n
          /\ z[i].type = "Turn" => z[i].turn = Len(L) - 1 - (N - (i + 1))
      BY <1>2, <3>1
    <3>3. N - (i + 1) = (N - 1) - i /\ (i + 1 > N - n <=> i > (N - 1) - n)
      BY <1>1, <1>2, <3>1
    <3> QED  BY <3>2, <3>3
  <2>4. Coming(z, have, L)
    BY <1>p, <1>1, <2>2, <2>3 DEF Coming
  <2> QED  BY <1>p, <1>4, <2>4
<1> QED  BY <1>3, <1>4

\* So the link of a player is that of a player when he has read a message.
LEMMA PlayerReads ==
  ASSUME NEW k \in LinkRecord, k.down # <<>>, NEW t \in SessionRecord, NEW top, AnyLine(k, t, top),
         NEW L, Len(L) \in Nat, PlayerLine(k, t, L), NEW h, h = ReadLine(k), NEW x, x = Head(k.down)
  PROVE  /\ x.type = "Turn" => x.turn < Len(L) /\ x.life = L[x.turn + 1].life
         /\ x.type = "Turn" /\ ~k.cut => x.turn = Have(t)
         /\ \A u : /\ u.mode = "Normal" /\ ~u.claimed
                   /\ Have(u) = IF x.type = "Turn" /\ x.turn = Have(t) THEN Have(t) + 1 ELSE Have(t)
                   => PlayerLine(h, u, L)
<1>p. PICK q : q = k.down
  OBVIOUS
<1>1. /\ h \in LinkRecord /\ h.up = k.up /\ (h.copen <=> k.copen) /\ (h.sopen <=> k.sopen)
      /\ (h.cut <=> k.cut) /\ k.copen /\ h.down = Tail(q)
      /\ 1 \in DOMAIN q /\ x = q[1]
      /\ \A i \in DOMAIN h.down : i + 1 \in DOMAIN q /\ h.down[i] = q[i + 1]
  BY <1>p, ReadFields
<1>2. q \in Seq(Messages) /\ q # <<>> /\ Have(t) \in Nat
  BY <1>p, LinkFields, SessionFields
<1>3. /\ k.sopen /\ "Hello" \notin Kinds(k.up)
      /\ \A i \in DOMAIN q : q[i].type = "Turn" =>
           q[i].turn < Len(L) /\ q[i].life = L[q[i].turn + 1].life
      /\ ~k.cut => Coming(q, Have(t), L)
  BY <1>p, <1>1 DEF PlayerLine
<1>4. x.type = "Turn" => x.turn < Len(L) /\ x.life = L[x.turn + 1].life
  BY <1>1, <1>3
<1>5. ~k.cut => /\ x.type = "Turn" => x.turn = Have(t) /\ Coming(Tail(q), Have(t) + 1, L)
                /\ x.type # "Turn" => Coming(Tail(q), Have(t), L)
  BY <1>1, <1>2, <1>3, ComingTail
<1>6. ASSUME NEW u, u.mode = "Normal", ~u.claimed,
             Have(u) = IF x.type = "Turn" /\ x.turn = Have(t) THEN Have(t) + 1 ELSE Have(t)
      PROVE  PlayerLine(h, u, L)
  <2>1. /\ h.sopen /\ "Hello" \notin Kinds(h.up)
        /\ \A i \in DOMAIN h.down : h.down[i].type = "Turn" =>
             h.down[i].turn < Len(L) /\ h.down[i].life = L[h.down[i].turn + 1].life
    BY <1>1, <1>3
  <2>2. ~h.cut => Coming(h.down, Have(u), L)
    BY <1>1, <1>5, <1>6, SMTT(40)
  <2> QED  BY <1>6, <2>1, <2>2 DEF PlayerLine
<1> QED  BY <1>4, <1>5, <1>6

\* Machine m, whose session was t, has read message x of its link, which was k and is h now.
Reads(m, t, k, x, h) ==
  /\ m \in Machines /\ t = machine[m] /\ t.link # 0 /\ k = links[t.link]
  /\ k.down # <<>> /\ x = Head(k.down) /\ h = ReadLine(k)

\* What is known then.  A machine that plays, or comes back, over another link than the one that
\* the server takes for its player's reads nothing but that it is let go.
LEMMA ReadsFacts ==
  ASSUME IInv, RejoinAssumption, NEW m, NEW t, NEW k, NEW x, NEW h, Reads(m, t, k, x, h)
  PROVE  /\ SeatOf[m] \in Seats /\ t \in SessionRecord /\ t.done <= Have(t) /\ SessionInv(t, TurnsKnown)
         /\ t.link \in DOMAIN links /\ k \in LinkRecord /\ k.of = m /\ k.copen
         /\ AnyLine(k, t, TurnsKnown)
         /\ client[SeatOf[m]] = t.link => PlayerLine(k, t, log) /\ ~Stray(m)
         /\ TurnsKnown \in Nat /\ TurnsKnown <= MaxTurns /\ MaxTurns \in Nat /\ Have(t) \in Nat
         /\ x \in Messages /\ x.type \in Kinds(k.down) /\ Sayable(x, TurnsKnown) /\ x = k.down[1]
         /\ h \in LinkRecord /\ h.of = m /\ h.up = k.up /\ (h.sopen <=> k.sopen)
         /\ Kinds(h.down) \subseteq Kinds(k.down)
         /\ "Start" \in Kinds(h.down) => x.type = "Welcome"
         /\ x.type # "Reject" => ~Untold(t)
<1>1. m \in Machines /\ t = machine[m] /\ t.link # 0 /\ k = links[t.link]
      /\ k.down # <<>> /\ x = Head(k.down) /\ h = ReadLine(k)
  BY DEF Reads
<1>2. /\ SeatOf[m] \in Seats /\ t \in SessionRecord /\ t.done <= Have(t) /\ SessionInv(t, TurnsKnown)
      /\ t.link \in DOMAIN links /\ k \in LinkRecord /\ k.of = m /\ k.copen
      /\ AnyLine(k, t, TurnsKnown)
      /\ client[SeatOf[m]] = t.link => PlayerLine(k, t, log)
      /\ client[SeatOf[m]] # 0 /\ links[client[SeatOf[m]]].of = m => ~Stray(m)
      /\ TurnsKnown \in Nat /\ TurnsKnown <= MaxTurns /\ Have(t) \in Nat
  BY <1>1, LinkOf
<1>3. /\ h \in LinkRecord
      /\ h.of = k.of /\ h.up = k.up /\ (h.sopen <=> k.sopen)
      /\ Kinds(h.down) \subseteq Kinds(k.down)
      /\ Head(k.down) = k.down[1] /\ Head(k.down) \in Messages
      /\ Head(k.down).type \in Kinds(k.down) /\ Sayable(Head(k.down), TurnsKnown)
      /\ "Start" \in Kinds(h.down) => Head(k.down).type = "Welcome"
  BY <1>1, <1>2, ReadFields, ZenonT(60)
<1>4. client[SeatOf[m]] = t.link => ~Stray(m)
  BY <1>1, <1>2
<1>5. x.type # "Reject" => ~Untold(t)
  BY <1>1, <1>3 DEF Untold
<1>6. MaxTurns \in Nat
  BY DEF RejoinAssumption
<1> QED  BY <1>1, <1>2, <1>3, <1>4, <1>5, <1>6

\* A player's machine reads a message: a turn that is due, or nothing to it.
LEMMA PlaysHearing ==
  ASSUME IInv, RejoinAssumption, world' = world, UNCHANGED server,
         NEW m, NEW t, NEW k, NEW x, NEW h, Reads(m, t, k, x, h), t.mode = "Normal",
         NEW u, u = Played(t, x), u.mode # "Lost", machine' = [machine EXCEPT ![m] = u]
  PROVE  Hearing(m, t, k, h, u)
<1>0. m \in Machines /\ t = machine[m] /\ t.link # 0 /\ k = links[t.link]
      /\ k.down # <<>> /\ x = Head(k.down) /\ h = ReadLine(k)
  BY DEF Reads
<1>1. /\ SeatOf[m] \in Seats /\ t \in SessionRecord /\ t.done <= Have(t) /\ SessionInv(t, TurnsKnown)
      /\ k \in LinkRecord /\ AnyLine(k, t, TurnsKnown)
      /\ client[SeatOf[m]] = t.link => PlayerLine(k, t, log) /\ ~Stray(m)
      /\ TurnsKnown \in Nat /\ TurnsKnown <= MaxTurns /\ MaxTurns \in Nat /\ Have(t) \in Nat
      /\ x \in Messages /\ x.type \in Kinds(k.down) /\ Sayable(x, TurnsKnown)
  BY ReadsFacts
<1>2. t.held \in Seq(Lives) /\ t.done \in 0 .. MaxTurns /\ ~t.known /\ ~t.claimed
  BY <1>0, <1>1, SessionFields, Zenon DEF SessionInv
<1>3. x.type # "Reject"
  BY DEF Played, Rejected
<1>4. ~Untold(t)
  BY <1>3, ReadsFacts
<1>5. Len(log) \in Nat
  BY DEF IInv, TypeOK
<1>6. PICK due : due = (x.type = "Turn" /\ x.turn = Have(t))
  OBVIOUS
<1>7. due => x.life \in Lives /\ Have(t) < TurnsKnown
  BY <1>1, <1>6, MessageFields, Zenon DEF Sayable
<1>8. /\ u \in SessionRecord /\ u.mode = "Normal" /\ u.link = t.link /\ ~u.known /\ ~u.claimed
      /\ Have(u) = IF due THEN Have(t) + 1 ELSE Have(t)
      /\ u.done <= Have(u) /\ Have(u) <= TurnsKnown
      /\ u.held = IF due THEN Append(t.held, x.life) ELSE t.held
  <2>1. CASE due
    <3>1. u = [t EXCEPT !.held = Append(t.held, x.life), !.done = t.done + 1]
      BY <1>6, <2>1, Zenon DEF Played
    <3>2. Append(t.held, x.life) \in Seq(Lives) /\ Len(Append(t.held, x.life)) = Len(t.held) + 1
      BY <1>2, <1>7, <2>1
    <3>3. t.done + 1 \in 0 .. MaxTurns /\ t.done + 1 <= Have(t) + 1 /\ Have(t) + 1 <= TurnsKnown
      BY <1>1, <1>2, <1>7, <2>1
    <3>4. /\ u \in SessionRecord /\ u.mode = t.mode /\ u.link = t.link /\ u.known = t.known
          /\ u.claimed = t.claimed /\ u.held = Append(t.held, x.life) /\ u.done = t.done + 1
      BY <1>1, <3>1, <3>2, <3>3, ZenonT(60) DEF SessionRecord
    <3> QED  BY <1>2, <2>1, <3>2, <3>3, <3>4 DEF Have
  <2>2. CASE ~due
    <3>1. u = t
      BY <1>3, <1>6, <2>2, Zenon DEF Played
    <3>2. Have(t) <= TurnsKnown
      BY <1>1 DEF SessionInv
    <3> QED  BY <1>1, <1>2, <2>2, <3>1, <3>2
  <2> QED  BY <1>6, <2>1, <2>2
<1>9. SessionInv(u, TurnsKnown)
  BY <1>0, <1>8, Zenon DEF SessionInv
<1>10. ASSUME client[SeatOf[m]] = t.link
       PROVE  PlayerLine(h, u, log) /\ ~Stray(m)'
  <2>1. PlayerLine(k, t, log) /\ ~Stray(m)
    BY <1>1, <1>10
  <2>2. /\ x.type = "Turn" => x.turn < Len(log) /\ x.life = log[x.turn + 1].life
        /\ \A v : /\ v.mode = "Normal" /\ ~v.claimed
                  /\ Have(v) = IF x.type = "Turn" /\ x.turn = Have(t) THEN Have(t) + 1 ELSE Have(t)
                  => PlayerLine(h, v, log)
    <3>1. k \in LinkRecord /\ k.down # <<>> /\ t \in SessionRecord /\ AnyLine(k, t, TurnsKnown)
          /\ Len(log) \in Nat /\ h = ReadLine(k) /\ x = Head(k.down)
      BY <1>0, <1>1, <1>5
    <3> QED  BY <2>1, <3>1, PlayerReads
  <2>3. PlayerLine(h, u, log)
    BY <1>6, <1>8, <2>2, Zenon
  <2>4. log' = log /\ machine'[m] = u
    BY <1>0, TypedHere DEF server, IInv, Typed
  <2>5. ~Stray(m)'
    <3>1. CASE ~due
      BY <1>0, <1>8, <2>1, <2>4, <3>1, SameStray, Zenon
    <3>2. CASE due
      <4>1. /\ m \notin world.astray
            /\ \A j \in DOMAIN t.held : ~(j > Len(log)) /\ t.held[j] = log[j].life
        BY <1>0, <1>2, <1>5, <2>1 DEF Stray
      <4>2. x.life = log[Have(t) + 1].life /\ Have(t) + 1 <= Len(log)
        <5>1. x.type = "Turn" /\ x.turn = Have(t)
          BY <1>6, <3>2, Zenon
        <5>2. Have(t) < Len(log) /\ x.life = log[Have(t) + 1].life
          BY <2>2, <5>1
        <5> QED  BY <1>1, <1>5, <5>2
      <4>3. \A j \in DOMAIN u.held : ~(j > Len(log)) /\ u.held[j] = log[j].life
        <5> SUFFICES ASSUME NEW j \in DOMAIN u.held PROVE ~(j > Len(log)) /\ u.held[j] = log[j].life
          OBVIOUS
        <5>1. u.held = Append(t.held, x.life)
          BY <1>8, <3>2
        <5>2. \/ j \in DOMAIN t.held /\ u.held[j] = t.held[j]
              \/ j = Have(t) + 1 /\ u.held[j] = x.life
          BY <1>2, <5>1 DEF Have
        <5> QED  BY <1>1, <1>5, <4>1, <4>2, <5>2
      <4> QED  BY <2>4, <4>1, <4>3 DEF Stray
    <3> QED  BY <1>6, <3>1, <3>2
  <2> QED  BY <2>3, <2>5
<1> QED  BY <1>0, <1>2, <1>4, <1>8, <1>9, <1>10, Zenon DEF Hearing

\* What a machine that comes back does with a message, when it goes on.
GoesOn(t, x, u) ==
  \/ x.type = "Welcome" /\ t.mode = "Rejoining" /\ u = [t EXCEPT !.mode = "CatchingUp"]
  \/ /\ x.type = "CatchUp" /\ t.mode = "CatchingUp" /\ ~t.known /\ x.first = Have(t)
     /\ u = [t EXCEPT !.known = TRUE, !.total = x.total]
  \/ /\ x.type = "Batch" /\ t.mode = "CatchingUp" /\ t.known /\ ~t.claimed
     /\ x.first = Have(t) /\ x.first + Len(x.lives) <= t.total
     /\ u = [t EXCEPT !.held = t.held \o x.lives]
  \/ x.type \in {"Presence", "Turn"} /\ ~t.claimed /\ u = t
  \/ x.type = "Presence" /\ t.claimed /\ u = BackIn(t)
  \/ x.type = "Turn" /\ t.claimed
  \/ x.type = "Start" /\ u = t

\* There is nothing else.
LEMMA StreamedCases ==
  ASSUME NEW t \in SessionRecord, NEW x, NEW u, u = Streamed(t, x), u.mode # "Lost"
  PROVE  GoesOn(t, x, u)
<1> USE DEF GoesOn
<1>1. ASSUME NEW why PROVE Rejected(t, why).mode = "Lost"
  BY DEF Rejected, SessionRecord
<1>2. x.type # "Reject" /\ u # Rejected(t, "RejoinFailed")
  BY <1>1, Zenon DEF Streamed
<1>3. CASE x.type = "Welcome"
  BY <1>2, <1>3 DEF Streamed
<1>4. CASE x.type = "CatchUp"
  BY <1>2, <1>4 DEF Streamed
<1>5. CASE x.type = "Batch"
  BY <1>2, <1>5, Zenon DEF Streamed
<1>6. CASE x.type = "Presence"
  BY <1>2, <1>6 DEF Streamed
<1>7. CASE x.type = "Turn"
  BY <1>2, <1>7 DEF Streamed
<1>8. CASE x.type = "Start"
  BY <1>2, <1>8 DEF Streamed
<1>9. CASE x.type \notin {"Welcome", "CatchUp", "Batch", "Presence", "Turn", "Start", "Reject"}
  BY <1>2, <1>9, Zenon DEF Streamed
<1> QED  BY <1>2, <1>3, <1>4, <1>5, <1>6, <1>7, <1>8, <1>9, Zenon

\* A machine that comes back reads a message and goes on: it may be back now.
LEMMA StreamsHearing ==
  ASSUME IInv, RejoinAssumption, world' = world, UNCHANGED server,
         NEW m, NEW t, NEW k, NEW x, NEW h, Reads(m, t, k, x, h), t.mode # "Normal",
         NEW u, u = Streamed(t, x), u.mode # "Lost", machine' = [machine EXCEPT ![m] = u]
  PROVE  Hearing(m, t, k, h, u)
<1>0. m \in Machines /\ t = machine[m] /\ t.link # 0 /\ k = links[t.link]
      /\ k.down # <<>> /\ x = Head(k.down) /\ h = ReadLine(k)
  BY DEF Reads
<1>1. /\ SeatOf[m] \in Seats /\ t \in SessionRecord /\ t.done <= Have(t) /\ SessionInv(t, TurnsKnown)
      /\ k \in LinkRecord /\ AnyLine(k, t, TurnsKnown) /\ k.copen
      /\ client[SeatOf[m]] = t.link => PlayerLine(k, t, log) /\ ~Stray(m)
      /\ TurnsKnown \in Nat /\ TurnsKnown <= MaxTurns /\ MaxTurns \in Nat /\ Have(t) \in Nat
      /\ x \in Messages /\ x.type \in Kinds(k.down) /\ Sayable(x, TurnsKnown) /\ x = k.down[1]
      /\ Kinds(h.down) \subseteq Kinds(k.down)
      /\ "Start" \in Kinds(h.down) => x.type = "Welcome"
  BY ReadsFacts
<1>2. /\ t.held \in Seq(Lives) /\ t.done \in 0 .. MaxTurns /\ t.total \in 0 .. MaxTurns
      /\ t.mode \in {"Rejoining", "CatchingUp"} /\ Have(t) <= TurnsKnown
      /\ t.known => t.mode = "CatchingUp" /\ Have(t) <= t.total
      /\ t.claimed => t.known /\ Have(t) = t.total
  BY <1>0, <1>1, SessionFields, Zenon DEF SessionInv
<1>3. Len(log) \in Nat /\ m \notin {} /\ machine'[m] = u /\ log' = log
  BY <1>0, TypedHere DEF server, IInv, Typed, TypeOK
<1>4. x.type # "Reject" => ~Untold(t)
  BY ReadsFacts
<1>5. client[SeatOf[m]] = t.link => t.claimed
  BY <1>1 DEF PlayerLine
<1>6. "Turn" \in Kinds(k.down) => t.claimed
  BY <1>1 DEF AnyLine
<1>7. ASSUME ~t.claimed, ~u.claimed,
             u \in SessionRecord, u.link = t.link, SessionInv(u, TurnsKnown), u.done <= Have(u),
             x.type # "Reject",
             u.known => "Start" \notin Kinds(h.down)
      PROVE  Hearing(m, t, k, h, u)
  <2>1. "Turn" \notin Kinds(h.down)
    BY <1>1, <1>6, <1>7
  <2> QED  BY <1>0, <1>4, <1>5, <1>7, <2>1, Zenon DEF Hearing
<1>8. CASE x.type = "Welcome" /\ t.mode = "Rejoining" /\ u = [t EXCEPT !.mode = "CatchingUp"]
  <2>1. /\ u \in SessionRecord /\ u.link = t.link /\ u.held = t.held /\ u.done = t.done
        /\ u.known = t.known /\ u.claimed = t.claimed /\ u.mode = "CatchingUp"
    BY <1>1, <1>8, Zenon DEF SessionRecord
  <2>2. ~t.known /\ ~t.claimed
    BY <1>2, <1>8
  <2>3. SessionInv(u, TurnsKnown) /\ u.done <= Have(u)
    BY <1>0, <1>1, <1>2, <2>1, <2>2, Zenon DEF SessionInv, Have
  <2> QED  BY <1>7, <1>8, <2>1, <2>2, <2>3
<1>9. CASE /\ x.type = "CatchUp" /\ t.mode = "CatchingUp" /\ ~t.known /\ x.first = Have(t)
           /\ u = [t EXCEPT !.known = TRUE, !.total = x.total]
  <2>1. x.first \in Nat /\ x.total \in Nat /\ x.first <= x.total /\ x.total <= TurnsKnown
    BY <1>1, <1>9, MessageFields DEF Sayable
  <2>2. x.total \in 0 .. MaxTurns
    BY <1>1, <2>1
  <2>3. /\ u \in SessionRecord /\ u.link = t.link /\ u.held = t.held /\ u.done = t.done
        /\ u.known /\ u.claimed = t.claimed /\ u.mode = "CatchingUp" /\ u.total = x.total
    BY <1>1, <1>9, <2>2, Zenon DEF SessionRecord
  <2>4. ~t.claimed
    BY <1>2, <1>9
  <2>5. SessionInv(u, TurnsKnown) /\ u.done <= Have(u)
    BY <1>0, <1>1, <1>2, <1>9, <2>1, <2>3, <2>4, ZenonT(60) DEF SessionInv, Have
  <2>6. "Start" \notin Kinds(h.down)
    BY <1>1, <1>9
  <2> QED  BY <1>7, <1>9, <2>3, <2>4, <2>5, <2>6
<1>10. CASE /\ x.type = "Batch" /\ t.mode = "CatchingUp" /\ t.known /\ ~t.claimed
            /\ x.first = Have(t) /\ x.first + Len(x.lives) <= t.total
            /\ u = [t EXCEPT !.held = t.held \o x.lives]
  <2>1. x.first \in Nat /\ x.lives \in Seq(Lives) /\ x.first + Len(x.lives) <= TurnsKnown
    BY <1>1, <1>10, MessageFields DEF Sayable
  <2>2. t.held \o x.lives \in Seq(Lives) /\ Len(t.held \o x.lives) = Have(t) + Len(x.lives)
        /\ Len(x.lives) \in Nat
    BY <1>2, <2>1, ConcatFacts DEF Have
  <2>3. /\ u \in SessionRecord /\ u.link = t.link /\ u.held = t.held \o x.lives /\ u.done = t.done
        /\ u.known = t.known /\ u.claimed = t.claimed /\ u.mode = t.mode /\ u.total = t.total
    BY <1>1, <1>10, <2>2, Zenon DEF SessionRecord
  <2>4. Have(u) = Have(t) + Len(x.lives)
    BY <2>2, <2>3 DEF Have
  <2>5. u.done <= Have(u) /\ Have(u) <= t.total /\ Have(u) <= TurnsKnown
    BY <1>1, <1>2, <1>10, <2>1, <2>2, <2>3, <2>4
  <2>6. SessionInv(u, TurnsKnown)
    BY <1>0, <1>10, <2>3, <2>5, Zenon DEF SessionInv
  <2>7. "Start" \notin Kinds(h.down)
    BY <1>1, <1>10
  <2> QED  BY <1>7, <1>10, <2>3, <2>5, <2>6, <2>7
<1>11. CASE x.type \in {"Presence", "Turn"} /\ ~t.claimed /\ u = t
  <2>1. "Start" \notin Kinds(h.down)
    BY <1>1, <1>11
  <2> QED  BY <1>1, <1>7, <1>11, <2>1
<1>12. CASE x.type = "Presence" /\ t.claimed /\ u = BackIn(t)
  <2>1. /\ u \in SessionRecord /\ u.link = t.link /\ u.held = t.held /\ u.done = t.done
        /\ ~u.known /\ ~u.claimed /\ u.mode = "Normal"
    BY <1>1, <1>12, Zenon DEF SessionRecord, BackIn
  <2>2. Have(u) = Have(t)
    BY <2>1 DEF Have
  <2>3. SessionInv(u, TurnsKnown) /\ u.done <= Have(u)
    BY <1>0, <1>1, <1>2, <2>1, <2>2, Zenon DEF SessionInv
  <2>4. ASSUME client[SeatOf[m]] = t.link
        PROVE  PlayerLine(h, u, log) /\ ~Stray(m)'
    <3>1. PlayerLine(k, t, log) /\ ~Stray(m)
      BY <1>1, <2>4
    <3>2. \A v : /\ v.mode = "Normal" /\ ~v.claimed
                 /\ Have(v) = IF x.type = "Turn" /\ x.turn = Have(t) THEN Have(t) + 1 ELSE Have(t)
                 => PlayerLine(h, v, log)
      <4>1. k \in LinkRecord /\ k.down # <<>> /\ t \in SessionRecord /\ AnyLine(k, t, TurnsKnown)
            /\ Len(log) \in Nat /\ h = ReadLine(k) /\ x = Head(k.down)
        BY <1>0, <1>1, <1>3, Zenon
      <4> QED  BY <3>1, <4>1, PlayerReads
    <3>3. PlayerLine(h, u, log)
      BY <1>12, <2>1, <2>2, <3>2
    <3> QED  BY <1>0, <1>3, <2>1, <3>1, <3>3, SameStray, Zenon
  <2>5. "Presence" \in Kinds(k.down) /\ ~Untold(t)
    BY <1>1, <1>4, <1>12
  <2> QED  BY <1>0, <2>1, <2>3, <2>4, <2>5, Zenon DEF Hearing
<1>13. CASE x.type = "Turn" /\ t.claimed
  BY <1>0, <1>1, <1>13, Zenon DEF AnyLine
<1>14. CASE x.type = "Start" /\ u = t
  <2>1. ~t.known /\ ~t.claimed
    BY <1>1, <1>2, <1>14 DEF AnyLine
  <2> QED  BY <1>1, <1>7, <1>14, <2>1
<1>15. GoesOn(t, x, u)
  <2>1. t \in SessionRecord
    BY <1>1
  <2> QED  BY <2>1, StreamedCases
<1> QED  BY <1>8, <1>9, <1>10, <1>11, <1>12, <1>13, <1>14, <1>15, Zenon DEF GoesOn

\* A machine that comes back is over only with a reason.
LEMMA StreamedLost ==
  ASSUME NEW t \in SessionRecord, NEW x, NEW u, u = Streamed(t, x), u.mode = "Lost", t.mode # "Lost",
         x.type = "Reject" => x.why \in Reasons
  PROVE  \E why \in Reasons : u = Rejected(t, why)
<1>1. "RejoinFailed" \in Reasons
  BY DEF Reasons
<1>2. CASE x.type = "Welcome"
  BY <1>1, <1>2 DEF Streamed, SessionRecord
<1>3. CASE x.type = "CatchUp"
  BY <1>1, <1>3 DEF Streamed, SessionRecord
<1>4. CASE x.type = "Batch"
  BY <1>1, <1>4 DEF Streamed, SessionRecord
<1>5. CASE x.type = "Presence"
  BY <1>1, <1>5 DEF Streamed, SessionRecord, BackIn
<1>6. CASE x.type = "Turn"
  BY <1>1, <1>6 DEF Streamed, SessionRecord, BackIn
<1>7. CASE x.type = "Reject"
  BY <1>7 DEF Streamed
<1>8. CASE x.type \notin {"Welcome", "CatchUp", "Batch", "Presence", "Turn", "Reject"}
  BY <1>1, <1>8, Zenon DEF Streamed
<1> QED  BY <1>2, <1>3, <1>4, <1>5, <1>6, <1>7, <1>8

\* A machine reads a message.
LEMMA HearsStep ==
  ASSUME IInv, RejoinAssumption, world' = world, NEW m \in Machines, Hears(m)
  PROVE  IInv'
<1>p. PICK t, l, k, x, h, L :
        /\ t = machine[m] /\ l = t.link /\ k = links[l] /\ x = Head(k.down) /\ h = ReadLine(k)
        /\ L = Read(links, l, "down")
  OBVIOUS
<1>q. PICK u, loads :
        /\ u = IF t.mode = "Normal" THEN Played(t, x) ELSE Streamed(t, x)
        /\ loads = (t.mode # "Normal" /\ x.type = "Start" /\ ~t.known)
  OBVIOUS
<1>1. /\ l # 0 /\ k.down # <<>> /\ machine' = [machine EXCEPT ![m] = u]
      /\ \/ u.mode = "Lost" /\ links' = Left(L, l)
         \/ u.mode # "Lost" /\ ~loads /\ links' = L
         \/ u.mode # "Lost" /\ loads
            /\ \E ok \in {TRUE, m \notin world.astray} :
                 links' = Said(L, l, <<[type |-> "Loaded", ok |-> ok]>>)
      /\ UNCHANGED <<server, faults>>
  BY <1>p, <1>q, Zenon DEF Hears, Becoming
<1>2. Reads(m, t, k, x, h) /\ t.link = l
  BY <1>p, <1>1 DEF Reads
<1>3. /\ t \in SessionRecord /\ l \in DOMAIN links /\ k \in LinkRecord /\ k.of = m
      /\ AnyLine(k, t, TurnsKnown) /\ links \in Seq(LinkRecord)
      /\ x \in Messages /\ h \in LinkRecord /\ h.of = m /\ h.up = k.up /\ (h.sopen <=> k.sopen)
      /\ links[l] = k
  BY <1>p, <1>2, ReadsFacts, TypedHere DEF IInv, Typed
<1>4. /\ L = [links EXCEPT ![l] = h] /\ L \in Seq(LinkRecord) /\ l \in DOMAIN L /\ L[l] = h
      /\ \A d : [L EXCEPT ![l] = d] = [links EXCEPT ![l] = d]
  <2>1. L = [links EXCEPT ![l] = h]
    BY <1>p, <1>3, OwnLinkNow
  <2> QED  BY <1>3, <2>1, OwnLinkNow
<1>5. UNCHANGED server
  BY <1>1 DEF server
<1>6. faults' = faults
  BY <1>1
<1>7. CASE u.mode # "Lost"
  <2>1. Hearing(m, t, k, h, u)
    <3>1. CASE t.mode = "Normal"
      <4>1. u = Played(t, x)
        BY <1>q, <3>1
      <4> QED  BY <1>1, <1>2, <1>5, <1>7, <3>1, <4>1, PlaysHearing, Zenon
    <3>2. CASE t.mode # "Normal"
      <4>1. u = Streamed(t, x)
        BY <1>q, <3>2
      <4> QED  BY <1>1, <1>2, <1>5, <1>7, <3>2, <4>1, StreamsHearing, Zenon
    <3> QED  BY <3>1, <3>2
  <2>2. CASE links' = L
    <3>1. PICK c : c = h
      OBVIOUS
    <3>2. links' = [links EXCEPT ![t.link] = c] /\ TRUE \in BOOLEAN
      BY <1>2, <1>4, <2>2, <3>1
    <3>3. c \in {h, SaidLine(h, <<[type |-> "Loaded", ok |-> TRUE]>>)}
      BY <3>1
    <3> QED  BY <1>5, <1>6, <2>1, <3>2, <3>3, HearsLink, Zenon
  <2>3. CASE \E ok \in {TRUE, m \notin world.astray} :
                 links' = Said(L, l, <<[type |-> "Loaded", ok |-> ok]>>)
    <3>1. PICK ok \in {TRUE, m \notin world.astray} :
                 links' = Said(L, l, <<[type |-> "Loaded", ok |-> ok]>>)
      BY <2>3, Zenon
    <3>2. PICK msgs, c : msgs = <<[type |-> "Loaded", ok |-> ok]>> /\ c = SaidLine(h, msgs)
      BY Zenon
    <3>3. links' = [links EXCEPT ![t.link] = c]
      <4>1. links' = Said(L, l, msgs)
        BY <3>1, <3>2
      <4>2. Said(L, l, msgs) = [L EXCEPT ![l] = SaidLine(L[l], msgs)]
        <5>1. L \in Seq(LinkRecord) /\ l \in DOMAIN L
          BY <1>4
        <5>2. \A z : Said(L, l, z) = [L EXCEPT ![l] = SaidLine(L[l], z)]
          BY <5>1, OwnLinkNow
        <5> QED  BY <5>2
      <4> QED  BY <1>2, <1>4, <3>2, <4>1, <4>2, Zenon
    <3>4. ok \in BOOLEAN /\ c \in {h, SaidLine(h, <<[type |-> "Loaded", ok |-> ok]>>)}
      BY <3>1, <3>2, Zenon
    <3> QED  BY <1>5, <1>6, <2>1, <3>3, <3>4, HearsLink, Zenon
  <2> QED  BY <1>1, <1>7, <2>2, <2>3
<1>8. CASE u.mode = "Lost"
  <2>1. links' = [links EXCEPT ![t.link] = LeftLine(h)]
    <3>1. links' = Left(L, l)
      BY <1>1, <1>8
    <3>2. links' = [L EXCEPT ![l] = LeftLine(h)]
      BY <1>4, <3>1, OwnLinkNow, ZenonT(60)
    <3> QED  BY <1>2, <1>4, <3>2, Zenon
  <2>2. t.mode # "Lost"
    <3>1. SessionInv(t, TurnsKnown)
      BY <1>2, ReadsFacts
    <3> QED  BY <1>1, <1>2, <3>1 DEF SessionInv
  <2>3. \E why \in Reasons : u = Rejected(t, why)
    <3>1. "RejoinFailed" \in Reasons /\ (x.type = "Reject" => x.why \in Reasons)
      BY <1>3, MessageFields DEF Reasons
    <3>2. CASE t.mode = "Normal"
      <4>1. u = Played(t, x)
        BY <1>q, <3>2
      <4>2. CASE x.type = "Reject"
        BY <3>1, <4>1, <4>2 DEF Played
      <4>3. CASE x.type # "Reject"
        <5>1. u.mode = t.mode
          BY <1>3, <4>1, <4>3 DEF Played, SessionRecord
        <5> QED  BY <1>8, <2>2, <5>1
      <4> QED  BY <4>2, <4>3
    <3>3. CASE t.mode # "Normal"
      <4>1. u = Streamed(t, x)
        BY <1>q, <3>3
      <4> QED  BY <1>3, <1>8, <2>2, <3>1, <4>1, StreamedLost
    <3> QED  BY <3>2, <3>3
  <2>4. u \in SessionRecord /\ u.link = 0 /\ u.mode = "Lost" /\ u.held = t.held /\ u.done = t.done
    <3>1. PICK why \in Reasons : u = Rejected(t, why)
      BY <2>3
    <3> QED  BY <1>3, <3>1, Bounds, RejectedSession
  <2>5. AnyLine(LeftLine(h), u, TurnsKnown)
    <3>1. "Hello" \notin Kinds(h.up) /\ (h.up # <<>> => h.sopen)
      <4>1. "Hello" \notin Kinds(k.up)
        BY <1>1, <1>3, ReadFields
      <4>2. k.up # <<>> => k.sopen
        BY <1>3 DEF AnyLine
      <4> QED  BY <1>3, <4>1, <4>2
    <3>2. PICK c : c = LeftLine(h)
      OBVIOUS
    <3>3. c.up = h.up /\ ~c.copen /\ (c.sopen <=> h.sopen) /\ c.down = <<>> /\ DOMAIN c.down = {}
      BY <1>3, <3>2, LeftFields
    <3> QED  BY <3>1, <3>2, <3>3 DEF AnyLine, Kinds
  <2>6. Unheard(k) => Unheard(h)
    <3>1. h.cut <=> k.cut
      BY <1>p, <1>1, <1>3, ReadFields
    <3> QED  BY <1>3, <3>1 DEF Unheard
  <2>7. Leaving(m, t, k, u, h)
    BY <1>p, <1>1, <1>2, <1>3, <2>1, <2>4, <2>5, <2>6 DEF Leaving
  <2> QED  BY <1>5, <1>6, <2>7, LeavesLink
<1> QED  BY <1>7, <1>8
------------------------------------------------------------------------------
(* A turn is sealed *)

\* What may be said may be said later.
LEMMA AnyMore ==
  ASSUME NEW k \in LinkRecord, NEW t, NEW a \in Nat, NEW b \in Nat, a <= b, AnyLine(k, t, a)
  PROVE  AnyLine(k, t, b)
<1>1. \A i \in DOMAIN k.down : k.down[i] \in Messages
  BY LinkFields
<1>2. ASSUME NEW i \in DOMAIN k.down PROVE Sayable(k.down[i], b)
  <2>1. PICK x : x = k.down[i]
    OBVIOUS
  <2>2. x \in Messages /\ Sayable(x, a)
    BY <1>1, <2>1 DEF AnyLine
  <2>3. /\ x.type = "Turn" => x.turn \in Nat
        /\ x.type = "Batch" => x.first \in Nat /\ Len(x.lives) \in Nat
        /\ x.type = "CatchUp" => x.first \in Nat /\ x.total \in Nat
    BY <2>2, MessageFields
  <2> QED  BY <2>1, <2>2, <2>3, SMTT(40) DEF Sayable
<1> QED  BY <1>2 DEF AnyLine

\* One more turn is on its way.
LEMMA ComingMore ==
  ASSUME NEW q \in Seq(Messages), NEW have \in Nat, NEW L, NEW S, Len(L) \in Nat, Len(S) = Len(L) + 1,
         Coming(q, have, L), NEW x \in Messages, x.type = "Turn", x.turn = Len(L)
  PROVE  Coming(q \o <<x>>, have, S)
<1>p. PICK n, N, z, msgs : n = Len(L) - have /\ N = Len(q) /\ msgs = <<x>> /\ z = q \o msgs
  BY Zenon
<1>1. msgs \in Seq(Messages) /\ Len(msgs) = 1 /\ msgs[1] = x /\ N \in Nat
  BY <1>p
<1>2. /\ z \in Seq(Messages) /\ Len(z) = N + 1 /\ DOMAIN q = 1 .. N /\ DOMAIN z = 1 .. (N + 1)
      /\ \A i \in 1 .. N : z[i] = q[i]
      /\ z[N + 1] = x
  BY <1>p, <1>1, ConcatFacts
<1>3. /\ n \in 0 .. N
      /\ \A i \in 1 .. N : /\ q[i].type = "Turn" <=> i > N - n
                           /\ q[i].type = "Turn" => q[i].turn = Len(L) - 1 - (N - i)
  BY <1>p, <1>2, Zenon DEF Coming
<1>4. Len(S) - have = n + 1 /\ n + 1 \in 0 .. (N + 1)
  BY <1>p, <1>1, <1>3
<1>5. ASSUME NEW i \in DOMAIN z
      PROVE  /\ z[i].type = "Turn" <=> i > (N + 1) - (n + 1)
             /\ z[i].type = "Turn" => z[i].turn = Len(S) - 1 - ((N + 1) - i)
  <2>1. CASE i \in 1 .. N
    <3>1. /\ z[i].type = "Turn" <=> i > N - n
          /\ z[i].type = "Turn" => z[i].turn = Len(L) - 1 - (N - i)
      BY <1>2, <1>3, <2>1
    <3>2. N - n = (N + 1) - (n + 1) /\ Len(L) - 1 - (N - i) = Len(S) - 1 - ((N + 1) - i)
      BY <1>1, <1>3, <2>1
    <3> QED  BY <3>1, <3>2
  <2>2. CASE i = N + 1
    <3>1. z[i].type = "Turn" /\ z[i].turn = Len(L)
      BY <1>2, <2>2
    <3>2. i > (N + 1) - (n + 1) /\ Len(S) - 1 - ((N + 1) - i) = Len(L)
      BY <1>1, <1>3, <2>2
    <3> QED  BY <3>1, <3>2
  <2> QED  BY <1>1, <1>2, <2>1, <2>2
<1>6. Coming(z, have, S)
  BY <1>2, <1>4, <1>5, Zenon DEF Coming
<1> QED  BY <1>p, <1>6

\* The link of a player over which a turn is sent.
LEMMA PlayerTold ==
  ASSUME NEW k \in LinkRecord, NEW t \in SessionRecord, NEW L \in Seq(TurnRecord), NEW S,
         Len(S) = Len(L) + 1, \A i \in DOMAIN L : S[i] = L[i],
         PlayerLine(k, t, L), NEW x \in Messages, x.type = "Turn", x.turn = Len(L),
         x.life = S[Len(L) + 1].life
  PROVE  PlayerLine(ToldLine(k, <<x>>), t, S)
<1>p. PICK c, q, msgs, z : c = ToldLine(k, msgs) /\ q = k.down /\ msgs = <<x>> /\ z = q \o msgs
  BY Zenon
<1>1. /\ msgs \in Seq(Messages) /\ Len(msgs) = 1 /\ msgs[1] = x /\ q \in Seq(Messages)
      /\ Len(q) \in Nat /\ Len(L) \in Nat /\ DOMAIN L = 1 .. Len(L) /\ Have(t) \in Nat
  BY <1>p, LinkFields, SessionFields
<1>2. /\ c.up = k.up /\ (c.copen <=> k.copen) /\ (c.sopen <=> k.sopen) /\ (c.cut <=> k.cut)
      /\ Carries(k) => c.down = z
      /\ ~Carries(k) => c.down = q
  BY <1>p, <1>1, ToldFields, Zenon
<1>3. /\ k.sopen /\ "Hello" \notin Kinds(k.up)
      /\ \A i \in DOMAIN q : q[i].type = "Turn" =>
           q[i].turn < Len(L) /\ q[i].life = L[q[i].turn + 1].life
      /\ k.copen => /\ t.mode = "Normal" \/ t.claimed
                    /\ ~k.cut => Coming(q, Have(t), L) /\ (t.claimed => q # <<>>)
  BY <1>p DEF PlayerLine
<1>4. \A i \in DOMAIN q : q[i].type = "Turn" =>
           q[i].turn < Len(S) /\ q[i].life = S[q[i].turn + 1].life
  <2> SUFFICES ASSUME NEW i \in DOMAIN q, q[i].type = "Turn"
               PROVE  q[i].turn < Len(S) /\ q[i].life = S[q[i].turn + 1].life
    OBVIOUS
  <2>1. q[i] \in Messages
    BY <1>1
  <2>2. q[i].turn \in Nat
    BY <2>1, MessageFields
  <2>3. q[i].turn < Len(L) /\ q[i].life = L[q[i].turn + 1].life
    BY <1>3
  <2>4. q[i].turn + 1 \in DOMAIN L
    BY <1>1, <2>2, <2>3
  <2> QED  BY <1>1, <2>2, <2>3, <2>4
<1>5. CASE Carries(k)
  <2>1. /\ DOMAIN q = 1 .. Len(q) /\ DOMAIN z = 1 .. (Len(q) + 1) /\ Len(z) = Len(q) + 1
        /\ \A i \in 1 .. Len(q) : z[i] = q[i]
        /\ z[Len(q) + 1] = x
    BY <1>p, <1>1, ConcatFacts
  <2>2. \A i \in DOMAIN z : (i \in DOMAIN q /\ z[i] = q[i]) \/ z[i] = x
    BY <1>1, <2>1
  <2>3. \A i \in DOMAIN z : z[i].type = "Turn" =>
           z[i].turn < Len(S) /\ z[i].life = S[z[i].turn + 1].life
    BY <1>1, <1>4, <2>2
  <2>4. Coming(q, Have(t), L) /\ (t.mode = "Normal" \/ t.claimed)
    BY <1>3, <1>5 DEF Carries
  <2>5. Coming(z, Have(t), S)
    BY <1>p, <1>1, <2>4, ComingMore
  <2>6. z # <<>>
    BY <2>1
  <2>7. PlayerLine(c, t, S)
    BY <1>2, <1>3, <1>5, <2>3, <2>4, <2>5, <2>6 DEF PlayerLine
  <2> QED  BY <1>p, <2>7
<1>6. CASE ~Carries(k)
  <2>1. k.copen => k.cut
    BY <1>3, <1>6 DEF Carries
  <2>2. PlayerLine(c, t, S)
    BY <1>2, <1>3, <1>4, <1>6, <2>1 DEF PlayerLine
  <2> QED  BY <1>p, <2>2
<1> QED  BY <1>5, <1>6

\* Seal, of the seats: the match goes on only when nobody is away or coming back.
LEMMA NobodyAway ==
  ASSUME IInv, RejoinAssumption, ~Paused
  PROVE  rejoiners = {} /\ \A s \in Seats : att[s] \in {"Present", "Dropped"}
<1>1. \A s \in Seats : att[s] \in {"Present", "Dropped"}
  BY TypedHere DEF IInv, Typed, Paused
<1>2. \A r \in rejoiners : r.seat \in Seats /\ att[r.seat] = "CatchingUp"
  BY TypedHere DEF IInv, Typed, SeatInv, Returns
<1> QED  BY <1>1, <1>2

\* The turn that is sealed next, said over the links C of players: all links are in order.
LEMMA TurnTold ==
  ASSUME IInv, RejoinAssumption, NEW x \in Messages, x.type = "Turn", NEW C, NEW T, T = Told(links, C, <<x>>),
         \A l \in C : \E s \in Seats : l = client[s],
         NEW b \in Nat, TurnsKnown \in Nat, TurnsKnown <= b, C = {} \/ x.turn < b
  PROVE  /\ T \in Seq(LinkRecord) /\ Len(T) = Len(links) /\ DOMAIN T = DOMAIN links
         /\ \A l \in DOMAIN links :
              /\ T[l].of = links[l].of /\ T[l].up = links[l].up
              /\ (T[l].copen <=> links[l].copen) /\ (T[l].sopen <=> links[l].sopen)
              /\ T[l].cut <=> links[l].cut
              /\ AnyLine(T[l], machine[links[l].of], b)
              /\ l \in C => /\ T[l] = ToldLine(links[l], <<x>>)
                            /\ client[SeatOf[links[l].of]] = l
                            /\ PlayerLine(links[l], machine[links[l].of], log)
              /\ l \notin C => T[l] = links[l]
<1>1. /\ <<x>> \in Seq(Messages) /\ Kinds(<<x>>) = {"Turn"} /\ <<x>>[1] = x /\ DOMAIN <<x>> = {1}
      /\ <<x>> # <<>>
  BY FewKinds
<1>2. links \in Seq(LinkRecord)
  BY TypedHere DEF IInv, Typed
<1>3. /\ T \in Seq(LinkRecord) /\ Len(T) = Len(links) /\ DOMAIN T = DOMAIN links
      /\ \A l \in DOMAIN links : /\ l \in C => T[l] = ToldLine(links[l], <<x>>)
                                 /\ l \notin C => T[l] = links[l]
  <2>1. PICK M, msgs : msgs = <<x>> /\ M = Told(links, C, msgs)
    OBVIOUS
  <2>2. M = Told(links, C, msgs)
    BY <2>1
  <2>3. msgs \in Seq(Messages)
    BY <1>1, <2>1
  <2>4. /\ M \in Seq(LinkRecord) /\ Len(M) = Len(links) /\ DOMAIN M = DOMAIN links
        /\ \A l \in DOMAIN links : /\ l \in C => M[l] = ToldLine(links[l], msgs)
                                   /\ l \notin C => M[l] = links[l]
    BY <1>2, <2>2, <2>3, ToldLinks
  <2>5. T = M
    BY <2>1
  <2> QED  BY <2>1, <2>4, <2>5, Zenon
<1>4. ASSUME NEW l \in DOMAIN links
      PROVE  /\ T[l].of = links[l].of /\ T[l].up = links[l].up
             /\ (T[l].copen <=> links[l].copen) /\ (T[l].sopen <=> links[l].sopen)
             /\ T[l].cut <=> links[l].cut
             /\ AnyLine(T[l], machine[links[l].of], b)
             /\ l \in C => /\ client[SeatOf[links[l].of]] = l
                           /\ PlayerLine(links[l], machine[links[l].of], log)
  <2>1. PICK k, t, msgs, c : /\ k = links[l] /\ t = machine[links[l].of] /\ msgs = <<x>>
                             /\ c = ToldLine(k, msgs)
    OBVIOUS
  <2>2. k \in LinkRecord /\ l # 0 /\ AnyLine(k, t, TurnsKnown)
    BY <1>2, <2>1, LineHere
  <2>3. AnyLine(k, t, b)
    BY <2>2, AnyMore
  <2>4. /\ c.of = k.of /\ c.up = k.up /\ (c.copen <=> k.copen) /\ (c.sopen <=> k.sopen)
        /\ c.cut <=> k.cut
    BY <1>1, <2>1, <2>2, ToldFields, Zenon
  <2>5. CASE l \notin C
    BY <1>3, <2>1, <2>3, <2>5, Zenon
  <2>6. CASE l \in C
    <3>1. PICK s \in Seats : l = client[s]
      BY <2>6
    <3>2. client[s] # 0 /\ Player(s)
      BY <2>2, <3>1 DEF IInv, SeatInv
    <3>3. SeatOf[k.of] = s /\ PlayerLine(k, t, log) /\ T[l] = c
      BY <1>3, <2>1, <2>6, <3>1, <3>2 DEF Player
    <3>4. AnyLine(c, t, b)
      <4>1. CASE ~Carries(k)
        BY <2>1, <2>3, <4>1 DEF ToldLine
      <4>2. CASE Carries(k)
        <5>1. /\ "Hello" \notin Kinds(k.up)
              /\ t.mode = "Normal" \/ t.claimed
              /\ t.claimed => k.down # <<>>
          BY <3>3, <4>2 DEF PlayerLine, Carries
        <5>2. Sayable(x, b)
          BY <2>6 DEF Sayable
        <5>3. \A i \in DOMAIN msgs : Sayable(msgs[i], b)
          BY <1>1, <2>1, <5>2
        <5>4. /\ msgs \in Seq(Messages) /\ msgs # <<>> /\ "Start" \notin Kinds(msgs)
          BY <1>1, <2>1
        <5> QED  BY <2>1, <2>2, <2>3, <5>1, <5>3, <5>4, AnyTold, Zenon
      <4> QED  BY <4>1, <4>2
    <3> QED  BY <2>1, <2>4, <3>1, <3>3, <3>4
  <2> QED  BY <2>5, <2>6
<1> QED  BY <1>3, <1>4, Zenon

\* One seal.
LEMMA SealStep ==
  ASSUME IInv, RejoinAssumption, world' = world, Seal
  PROVE  IInv'
<1>p. PICK S, x, C, n :
        /\ S = Sealed /\ x = TurnAt(Len(log), Sealed) /\ C = {client[s] : s \in Seats} /\ n = Len(log)
  BY Zenon
<1>1. /\ ~Paused /\ n < MaxTurns /\ log' = S /\ queue' = <<>> /\ links' = Told(links, C, <<x>>)
      /\ UNCHANGED <<machine, att, client, rejoiners, life, deaths, faults>>
  BY <1>p DEF Seal
<1>2. /\ Typed /\ links \in Seq(LinkRecord) /\ log \in Seq(TurnRecord) /\ queue \in Seq(Seats)
      /\ life \in Lives /\ MaxTurns \in Nat /\ TypeOK /\ DropsInv /\ life <= deaths
  BY TypedHere, Zenon DEF IInv, Typed, TypeOK, TurnRecord, RejoinAssumption
<1>3. /\ S \in Seq(TurnRecord) /\ Len(S) = n + 1 /\ n \in Nat /\ n + 1 \in DOMAIN S
      /\ DOMAIN log = 1 .. n /\ DOMAIN S = DOMAIN log \cup {n + 1}
      /\ \A i \in DOMAIN log : S[i] = log[i]
      /\ S[n + 1].drops = queue /\ S[n + 1].life = life
  BY <1>p, <1>2, SealedFacts DEF Sealed
<1>4. x = [type |-> "Turn", turn |-> n, life |-> life]
  BY <1>p, <1>3 DEF TurnAt
<1>5. x \in Messages /\ x.type = "Turn" /\ x.turn = n /\ x.life = S[n + 1].life
      /\ <<x>> \in Seq(Messages) /\ Kinds(<<x>>) = {"Turn"} /\ <<x>>[1] = x /\ DOMAIN <<x>> = {1}
      /\ <<x>> # <<>>
  BY <1>2, <1>3, <1>4, MessageKinds, FewKinds
<1>7. PICK a, b : a = TurnsKnown /\ b = IF world.power THEN MaxTurns ELSE n + 1
  OBVIOUS
<1>8. TurnsKnown' = b /\ a \in Nat /\ b \in Nat /\ a <= b /\ n < b
  <2>1. Len(log') = n + 1 /\ n = Len(log)
    BY <1>p, <1>1, <1>3
  <2>2. TurnsKnown' = b
    BY <1>7, <2>1 DEF TurnsKnown
  <2>3. a = IF world.power THEN MaxTurns ELSE n
    BY <1>7, <2>1 DEF TurnsKnown
  <2> QED  BY <1>1, <1>2, <1>3, <1>7, <2>2, <2>3
<1>9. \A l \in DOMAIN links :
        /\ l # 0 /\ links[l] \in LinkRecord /\ links[l].of \in Machines /\ SeatOf[links[l].of] \in Seats
        /\ links[l].copen <=> machine[links[l].of].link = l
  BY <1>2, LineHere, LinkFields
<1>10. /\ links' \in Seq(LinkRecord) /\ Len(links') = Len(links) /\ DOMAIN links' = DOMAIN links
       /\ \A l \in DOMAIN links :
            /\ links'[l].of = links[l].of /\ links'[l].up = links[l].up
            /\ (links'[l].copen <=> links[l].copen) /\ (links'[l].sopen <=> links[l].sopen)
            /\ links'[l].cut <=> links[l].cut
            /\ AnyLine(links'[l], machine[links[l].of], b)
            /\ l \in C => /\ links'[l] = ToldLine(links[l], <<x>>)
                          /\ client[SeatOf[links[l].of]] = l
                          /\ PlayerLine(links[l], machine[links[l].of], log)
            /\ l \notin C => links'[l] = links[l]
  <2>1. PICK T : T = Told(links, C, <<x>>)
    OBVIOUS
  <2>2. \A l \in C : \E s \in Seats : l = client[s]
    BY <1>p
  <2>3. /\ T \in Seq(LinkRecord) /\ Len(T) = Len(links) /\ DOMAIN T = DOMAIN links
        /\ \A l \in DOMAIN links :
            /\ T[l].of = links[l].of /\ T[l].up = links[l].up
            /\ (T[l].copen <=> links[l].copen) /\ (T[l].sopen <=> links[l].sopen)
            /\ T[l].cut <=> links[l].cut
            /\ AnyLine(T[l], machine[links[l].of], b)
            /\ l \in C => /\ T[l] = ToldLine(links[l], <<x>>)
                          /\ client[SeatOf[links[l].of]] = l
                          /\ PlayerLine(links[l], machine[links[l].of], log)
            /\ l \notin C => T[l] = links[l]
    <3>1. x \in Messages /\ x.type = "Turn" /\ b \in Nat /\ TurnsKnown \in Nat /\ TurnsKnown <= b /\ x.turn < b
      BY <1>5, <1>7, <1>8
    <3> QED  BY <2>1, <2>2, <3>1, TurnTold
  <2>4. links' = T
    BY <1>1, <2>1
  <2> QED  BY <2>3, <2>4
<1>13. \A l \in DOMAIN links : l \in C => PlayerLine(links'[l], machine[links[l].of], S)
  <2> SUFFICES ASSUME NEW l \in DOMAIN links, l \in C PROVE PlayerLine(links'[l], machine[links[l].of], S)
    OBVIOUS
  <2>1. PICK k, t : k = links[l] /\ t = machine[links[l].of]
    OBVIOUS
  <2>2. k \in LinkRecord /\ t \in SessionRecord /\ PlayerLine(k, t, log) /\ links'[l] = ToldLine(k, <<x>>)
    BY <1>2, <1>9, <1>10, <2>1, Zenon DEF Typed
  <2>3. Len(S) = Len(log) + 1 /\ x.turn = Len(log) /\ x.life = S[Len(log) + 1].life /\ log \in Seq(TurnRecord)
    BY <1>p, <1>2, <1>3, <1>5
  <2>4. PlayerLine(ToldLine(k, <<x>>), t, S)
    BY <1>3, <1>5, <2>2, <2>3, PlayerTold, Zenon
  <2> QED  BY <2>1, <2>2, <2>4
<1>14. \A m \in Machines : ~Stray(m) => ~Stray(m)'
  <2> SUFFICES ASSUME NEW m \in Machines, ~Stray(m) PROVE ~Stray(m)'
    OBVIOUS
  <2>1. /\ m \notin world.astray
        /\ \A j \in DOMAIN machine[m].held : ~(j > Len(log)) /\ machine[m].held[j] = log[j].life
              /\ j \in Nat \ {0}
    <3>1. machine[m].held \in Seq(Lives)
      BY <1>2, SessionFields DEF Typed
    <3>2. \A j \in DOMAIN machine[m].held : j \in Nat \ {0}
      BY <3>1
    <3> QED  BY <1>3, <1>p, <3>2 DEF Stray
  <2>2. machine' = machine /\ log' = S /\ Len(S) = Len(log) + 1
    BY <1>p, <1>1, <1>3
  <2>3. \A j \in DOMAIN machine[m].held : ~(j > Len(S)) /\ machine[m].held[j] = S[j].life
    BY <1>p, <1>3, <2>1, <2>2
  <2> QED  BY <2>1, <2>2, <2>3 DEF Stray
<1>15. rejoiners = {} /\ rejoiners' = {} /\ machine' = machine /\ client' = client /\ att' = att
  BY <1>1, NobodyAway
<1>16. ASSUME NEW s \in Seats PROVE SeatInv(s)'
  <2>0. SeatInv(s)
    BY DEF IInv
  <2>1. Sessions(s)'
    <3>1. \A m \in Machines : SeatOf[m] = s => SessionInv(machine[m], a)
      BY <1>7, <2>0 DEF SeatInv, Sessions
    <3>2. \A m \in Machines : Have(machine[m]) \in Nat
      BY <1>2, SessionFields DEF Typed
    <3>3. \A m \in Machines : SeatOf[m] = s => SessionInv(machine[m], b)
      BY <1>8, <3>1, <3>2 DEF SessionInv
    <3>4. \A m \in Machines : SeatOf[m] = s /\ machine[m].link # 0 =>
            machine[m].link \in DOMAIN links' /\ links'[machine[m].link].of = m
      BY <1>10, <2>0 DEF SeatInv, Sessions
    <3> QED  BY <1>8, <1>15, <3>3, <3>4 DEF Sessions
  <2>2. Lines(s)'
    BY <1>10, <1>8, <1>9, <1>15 DEF Lines
  <2>3. Player(s)'
    <3>1. client[s] # 0 => client[s] \in DOMAIN links /\ client[s] \in C /\ SeatOf[links[client[s]].of] = s
                           /\ ~Stray(links[client[s]].of)
      BY <1>p, <2>0, LinksOfSeat DEF SeatInv, Player
    <3>2. client[s] # 0 =>
             /\ SeatOf[links'[client[s]].of] = s
             /\ PlayerLine(links'[client[s]], machine'[links'[client[s]].of], log')
      BY <1>1, <1>10, <1>13, <1>15, <3>1, Zenon
    <3>3. client[s] # 0 => ~Stray(links[client[s]].of)'
      <4> SUFFICES ASSUME client[s] # 0 PROVE ~Stray(links[client[s]].of)'
        OBVIOUS
      <4>1. PICK m \in Machines : m = links[client[s]].of
        BY <1>9, <3>1
      <4>2. ~Stray(m)' /\ links'[client[s]].of = m
        BY <1>10, <1>14, <3>1, <4>1
      <4> QED  BY <1>15, <4>2 DEF Stray
    <3> QED  BY <1>15, <2>0, <3>2, <3>3 DEF SeatInv, Player
  <2>4. Returns(s)'
    BY <1>15, <2>0 DEF SeatInv, Returns
  <2>5. \A l : (IsClient(s, l)' <=> IsClient(s, l)) /\ (IsComer(s, l)' <=> IsComer(s, l))
    BY <1>15 DEF IsClient, IsComer
  <2>6. Open(s)'
    BY <1>10, <2>0, <2>5 DEF SeatInv, Open, Unheard
  <2>7. \A l \in DOMAIN links : Claims(s, l)' <=> Claims(s, l)
    BY <1>10, <1>15, <2>5 DEF Claims
  <2>8. Moved(s)'
    <3> SUFFICES ASSUME NEW l \in DOMAIN links, SeatOf[links[l].of] = s, Claims(s, l),
                        machine[links[l].of].link \notin {0, l}
                 PROVE  Untold(machine[links[l].of])'
      BY <1>10, <1>15, <2>7 DEF Moved
    <3>1. PICK m, t : m = links[l].of /\ t = machine[links[l].of]
      OBVIOUS
    <3>2. Untold(t) /\ m \in Machines
      BY <1>9, <2>0, <3>1 DEF SeatInv, Moved
    <3>3. t.link \in DOMAIN links /\ links[t.link].of = m /\ ~t.claimed
      BY <2>0, <3>1, <3>2 DEF SeatInv, Sessions, SessionInv, Untold
    <3>4. t.link \notin C
      <4> SUFFICES ASSUME t.link \in C PROVE FALSE
        OBVIOUS
      <4>1. PlayerLine(links[t.link], t, log) /\ links[t.link].copen
        BY <1>9, <1>10, <3>1, <3>2, <3>3
      <4> QED  BY <3>2, <3>3, <4>1 DEF PlayerLine, Untold
    <3>5. links'[t.link] = links[t.link]
      BY <1>10, <3>3, <3>4
    <3>6. machine'[links'[l].of] = t
      BY <1>10, <1>15, <3>1
    <3> QED  BY <3>2, <3>5, <3>6 DEF Untold
  <2> QED  BY <2>1, <2>2, <2>3, <2>4, <2>6, <2>8 DEF SeatInv
<1>17. DropsInv'
  <2>1. PICK R : R = Append(S, [drops |-> <<>>, life |-> life])
    BY Zenon
  <2>2. Sealed' = R
    BY <1>1, <2>1 DEF Sealed
  <2>3. /\ DOMAIN R = DOMAIN S \cup {n + 2} /\ n + 2 \notin DOMAIN S /\ R[n + 2].drops = <<>>
        /\ \A i \in DOMAIN S : R[i] = S[i]
    <3>1. <<>> \in Seq(Seats)
      OBVIOUS
    <3>2. Len(S) + 1 = n + 2
      BY <1>3
    <3> QED  BY <1>2, <1>3, <2>1, <3>1, <3>2, SealedFacts
  <2>4. \A k \in DOMAIN R : \A i \in DOMAIN R[k].drops : k \in DOMAIN S /\ R[k] = S[k]
    BY <2>3
  <2>5. \A s \in Seats : IsDropped(R, s) <=> IsDropped(S, s)
    BY <2>3, <2>4 DEF IsDropped
  <2>6. OnePlace(R)
    BY <1>2, <1>p, <2>4 DEF OnePlace, DropsInv
  <2>7. \A s \in Seats : att'[s] = "Dropped" <=> IsDropped(R, s)
    BY <1>2, <1>p, <1>15, <2>5 DEF DropsInv
  <2> QED  BY <2>2, <2>6, <2>7 DEF DropsInv, OnePlace, IsDropped
<1>18. TypeOK'
  <2>1. /\ Lives' = Lives /\ MaxLinks' = MaxLinks /\ MaxFaults' = MaxFaults
        /\ Messages' = Messages /\ TurnRecord' = TurnRecord /\ LinkRecord' = LinkRecord
    BY SameWorld
  <2>2. links' \in Seq(LinkRecord')
    BY <1>10, <2>1
  <2>3. client' \in [Seats -> 0 .. Len(links')]
    BY <1>2, <1>10, <1>15 DEF Typed
  <2>4. log' \in Seq([drops : Seq(Seats), life : Lives']) /\ Len(log') <= MaxTurns
    BY <1>1, <1>2, <1>3, <2>1 DEF TurnRecord
  <2>5. queue' \in Seq(Seats) /\ Len(queue') <= Cardinality(Seats)
    <3>1. Cardinality(Seats) \in Nat
      BY FS_CardinalityType DEF RejoinAssumption
    <3> QED  BY <1>1, <3>1
  <2>6. world' \in Worlds /\ deaths' \in 0 .. world'.deaths /\ life' \in Lives' /\ faults' \in 0 .. MaxFaults'
    BY <1>1, <1>2, <2>1 DEF TypeOK
  <2> QED  BY <1>2, <1>15, <2>1, <2>2, <2>3, <2>4, <2>5, <2>6, Zenon DEF TypeOK, LinkRecord
<1>19. life' <= deaths'
  BY <1>1, <1>2
<1> QED  BY <1>16, <1>17, <1>18, <1>19 DEF IInv
------------------------------------------------------------------------------
(* The server dies *)

\* A link whose other end is gone, of which all that is on its way, or nothing, arrives.
DeadLine(k, none) ==
  [k EXCEPT !.cut = TRUE, !.sopen = FALSE, !.up = <<>>, !.down = IF none THEN <<>> ELSE k.down]

\* What it has.
LEMMA DeadFields ==
  ASSUME NEW k \in LinkRecord, NEW none
  PROVE  LET c == DeadLine(k, none)
         IN /\ c \in LinkRecord
            /\ c.of = k.of /\ c.up = <<>> /\ (c.copen <=> k.copen) /\ ~c.sopen
            /\ \A t, top : AnyLine(k, t, top) => AnyLine(c, t, top)
<1>1. PICK c, q : c = DeadLine(k, none) /\ q = IF none THEN <<>> ELSE k.down
  OBVIOUS
<1>2. q \in Seq(Messages) /\ <<>> \in Seq(Messages)
  BY <1>1, LinkFields
<1>3. /\ c \in LinkRecord /\ c.down = q
      /\ c.of = k.of /\ c.up = <<>> /\ (c.copen <=> k.copen) /\ ~c.sopen
  BY <1>1, <1>2, Zenon DEF DeadLine, LinkRecord
<1>4. ASSUME NEW t, NEW top, AnyLine(k, t, top) PROVE AnyLine(c, t, top)
  <2>1. CASE q = k.down
    BY <1>3, <1>4, <2>1 DEF AnyLine
  <2>2. CASE q = <<>>
    <3>1. DOMAIN c.down = {} /\ Kinds(c.down) = {} /\ c.down = <<>>
      BY <1>3, <2>2, FewKinds
    <3> QED  BY <1>3, <1>4, <3>1 DEF AnyLine
  <2> QED  BY <1>1, <2>1, <2>2
<1> QED  BY <1>1, <1>3, <1>4

\* Written: what the record may hold is the log, or the log and the turn that is sealed; the
\* turn is sent to players.
LEMMA WrittenFacts ==
  ASSUME IInv, RejoinAssumption, NEW w \in Written
  PROVE  /\ Sealed \in Seq(TurnRecord) /\ w[1] \in Seq(TurnRecord)
         /\ Len(log) \in Nat /\ Len(w[1]) \in Nat /\ Len(log) <= Len(w[1]) /\ Len(w[1]) <= MaxTurns
         /\ DOMAIN w[1] \subseteq DOMAIN Sealed /\ \A k \in DOMAIN w[1] : w[1][k] = Sealed[k]
         /\ w[2] \subseteq Seats /\ (w[2] = {} \/ Len(log) < Len(w[1]))
         /\ TurnAt(Len(log), Sealed) \in Messages /\ TurnAt(Len(log), Sealed).type = "Turn"
         /\ TurnAt(Len(log), Sealed).turn = Len(log)
<1>1. /\ log \in Seq(TurnRecord) /\ queue \in Seq(Seats) /\ life \in Lives /\ MaxTurns \in Nat
      /\ Len(log) <= MaxTurns
  BY DEF IInv, TypeOK, TurnRecord, RejoinAssumption
<1>2. PICK S, n : S = Sealed /\ n = Len(log)
  BY Zenon
<1>3. /\ S \in Seq(TurnRecord) /\ Len(S) = n + 1 /\ n \in Nat
      /\ DOMAIN log = 1 .. n /\ DOMAIN S = DOMAIN log \cup {n + 1}
      /\ \A i \in DOMAIN log : S[i] = log[i]
      /\ S[n + 1].life = life
  BY <1>1, <1>2, SealedFacts DEF Sealed
<1>4. TurnAt(n, S) = [type |-> "Turn", turn |-> n, life |-> life]
  BY <1>3 DEF TurnAt
<1>5. TurnAt(n, S) \in Messages /\ TurnAt(n, S).type = "Turn" /\ TurnAt(n, S).turn = n
  BY <1>1, <1>3, <1>4, MessageKinds
<1>6. \/ w = <<log, {}>>
      \/ n # MaxTurns /\ \E T \in SUBSET Seats : w = <<S, T>>
  BY <1>2 DEF Written
<1>7. CASE w = <<log, {}>>
  BY <1>1, <1>2, <1>3, <1>5, <1>7
<1>8. CASE n # MaxTurns /\ \E T \in SUBSET Seats : w = <<S, T>>
  <2>1. PICK T \in SUBSET Seats : w = <<S, T>>
    BY <1>8
  <2>2. w[1] = S /\ w[2] = T /\ n + 1 <= MaxTurns
    BY <1>1, <1>2, <1>3, <1>8, <2>1
  <2> QED  BY <1>1, <1>2, <1>3, <1>5, <2>2
<1> QED  BY <1>6, <1>7, <1>8

\* The process dies, and the next one brings the match back from its record.
LEMMA RestartsStep ==
  ASSUME IInv, RejoinAssumption, world' = world, Restarts
  PROVE  IInv'
<1>1. PICK w \in Written, n \in IF world.power THEN {0, 1} ELSE {0}, D \in SUBSET DOMAIN links :
       LET kept == SubSeq(w[1], 1, Len(w[1]) - n)
           sent == Told(links, {client[s] : s \in w[2]}, <<TurnAt(Len(log), Sealed)>>)
       IN /\ Len(kept) <= LogLimit /\ n <= Len(w[1])
          /\ \A l \in D : sent[l].down # <<>>
          /\ log' = kept /\ life' = life + n
          /\ att' = [s \in Seats |-> IF s \in DroppedIn(kept) THEN "Dropped" ELSE "Absent"]
          /\ links' = [l \in DOMAIN links |->
               [sent[l] EXCEPT !.cut = TRUE, !.sopen = FALSE, !.up = <<>>,
                               !.down = IF l \in D THEN <<>> ELSE @]]
  BY Zenon DEF Restarts
<1>p. PICK K, x, C, T, top :
        /\ K = SubSeq(w[1], 1, Len(w[1]) - n) /\ x = TurnAt(Len(log), Sealed)
        /\ C = {client[s] : s \in w[2]} /\ T = Told(links, C, <<x>>)
        /\ top = IF world.power THEN MaxTurns ELSE Len(K)
  BY Zenon
<1>2. /\ n <= Len(w[1]) /\ log' = K /\ life' = life + n
      /\ att' = [s \in Seats |-> IF s \in DroppedIn(K) THEN "Dropped" ELSE "Absent"]
      /\ links' = [l \in DOMAIN links |->
           [T[l] EXCEPT !.cut = TRUE, !.sopen = FALSE, !.up = <<>>,
                        !.down = IF l \in D THEN <<>> ELSE @]]
  BY <1>1, <1>p, Zenon
<1>3. /\ deaths < world.deaths /\ deaths' = deaths + 1 /\ UNCHANGED <<machine, faults>>
      /\ client' = [s \in Seats |-> 0] /\ rejoiners' = {} /\ queue' = <<>>
  BY Zenon DEF Restarts
<1>4. /\ Typed /\ links \in Seq(LinkRecord) /\ log \in Seq(TurnRecord)
      /\ life \in Lives /\ MaxTurns \in Nat /\ TypeOK /\ DropsInv /\ life <= deaths
      /\ deaths \in Nat /\ world.deaths \in Nat /\ life \in Nat
      /\ n \in {0, 1} /\ (~world.power => n = 0)
  <2>1. /\ Typed /\ links \in Seq(LinkRecord) /\ log \in Seq(TurnRecord)
        /\ life \in Lives /\ MaxTurns \in Nat /\ TypeOK /\ DropsInv /\ life <= deaths
    BY TypedHere, Zenon DEF IInv, Typed, TypeOK, TurnRecord, RejoinAssumption
  <2>2. n \in {0, 1} /\ (~world.power => n = 0)
    BY <1>1, Zenon
  <2>3. world \in Worlds /\ deaths \in 0 .. world.deaths
    BY <2>1 DEF TypeOK
  <2>4. world.deaths \in Nat
    <3>1. \A w0 \in Worlds : w0.deaths \in Nat
      BY DEF RejoinAssumption
    <3> QED  BY <2>3, <3>1
  <2>5. deaths \in Nat /\ life \in Nat
    <3>1. life \in 0 .. world.deaths
      BY <2>1 DEF Lives
    <3> QED  BY <2>3, <2>4, <3>1
  <2> QED  BY <2>1, <2>2, <2>4, <2>5
<1>5. /\ Sealed \in Seq(TurnRecord) /\ w[1] \in Seq(TurnRecord)
      /\ Len(log) \in Nat /\ Len(w[1]) \in Nat /\ Len(log) <= Len(w[1]) /\ Len(w[1]) <= MaxTurns
      /\ DOMAIN w[1] \subseteq DOMAIN Sealed /\ \A k \in DOMAIN w[1] : w[1][k] = Sealed[k]
      /\ w[2] \subseteq Seats /\ (w[2] = {} \/ Len(log) < Len(w[1]))
      /\ x \in Messages /\ x.type = "Turn" /\ x.turn = Len(log)
  BY <1>p, <1>1, WrittenFacts, Zenon
<1>6. /\ K \in Seq(TurnRecord) /\ Len(K) = Len(w[1]) - n /\ Len(K) \in Nat /\ Len(K) <= MaxTurns
      /\ DOMAIN K \subseteq DOMAIN Sealed /\ \A k \in DOMAIN K : K[k] = Sealed[k]
  <2>p. PICK W, a, j : W = w[1] /\ a = Len(W) /\ j = a - n
    BY Zenon
  <2>0. W \in Seq(TurnRecord) /\ a = Len(W) /\ j = a - n /\ a \in Nat
    BY <1>5, <2>p
  <2>1. j \in 0 .. a
    <3>1. a \in Nat /\ n \in {0, 1} /\ n <= a /\ j = a - n
      BY <1>2, <1>4, <2>0, <2>p, Zenon
    <3> QED  BY <3>1
  <2>a. K = SubSeq(W, 1, j)
    BY <1>p, <2>p
  <2>b. W \in Seq(TurnRecord) /\ j \in 0 .. Len(W)
    BY <2>0, <2>1
  <2>c. /\ K \in Seq(TurnRecord) /\ Len(K) = j /\ DOMAIN K = 1 .. j
        /\ \A k \in 1 .. j : K[k] = W[k] /\ k \in DOMAIN W
    BY <2>a, <2>b, SubSeqFacts
  <2>2. /\ K \in Seq(TurnRecord) /\ Len(K) = Len(w[1]) - n /\ DOMAIN K = 1 .. (Len(w[1]) - n)
        /\ \A k \in DOMAIN K : K[k] = w[1][k] /\ k \in DOMAIN w[1]
    BY <2>p, <2>c, Zenon
  <2>3. Len(K) \in Nat /\ Len(K) <= MaxTurns
    <3>1. a <= MaxTurns /\ MaxTurns \in Nat /\ a \in Nat
      BY <1>4, <1>5, <2>p
    <3> QED  BY <2>1, <2>c, <3>1
  <2>4. DOMAIN K \subseteq DOMAIN w[1]
    BY <2>2
  <2> QED  BY <1>5, <2>2, <2>3, <2>4, Zenon
<1>7. /\ TurnsKnown' = top /\ top \in Nat /\ TurnsKnown \in Nat /\ TurnsKnown <= top
      /\ C = {} \/ x.turn < top
  <2>1. TurnsKnown' = top
    BY <1>p, <1>2, Zenon DEF TurnsKnown
  <2>2. TurnsKnown = IF world.power THEN MaxTurns ELSE Len(log)
    BY DEF TurnsKnown
  <2>3. C = {} \/ Len(log) < Len(w[1])
    BY <1>p, <1>5
  <2>4. Len(log) < Len(w[1]) => Len(log) < MaxTurns
    BY <1>4, <1>5
  <2>5. ~world.power => Len(K) = Len(w[1])
    BY <1>4, <1>5, <1>6
  <2>6. /\ top \in Nat /\ TurnsKnown \in Nat /\ TurnsKnown <= top
    BY <1>p, <1>4, <1>5, <1>6, <2>2, <2>5
  <2>7. C = {} \/ x.turn < top
    BY <1>p, <1>4, <1>5, <2>3, <2>4, <2>5, Zenon
  <2> QED  BY <2>1, <2>6, <2>7
<1>8. /\ T \in Seq(LinkRecord) /\ Len(T) = Len(links) /\ DOMAIN T = DOMAIN links
      /\ \A l \in DOMAIN links :
           /\ T[l].of = links[l].of
           /\ T[l].copen <=> links[l].copen
           /\ AnyLine(T[l], machine[links[l].of], top)
  <2>1. \A l \in C : \E s \in Seats : l = client[s]
    BY <1>p, <1>5
  <2>2. T = Told(links, C, <<x>>)
    BY <1>p
  <2>3. x \in Messages /\ x.type = "Turn"
    BY <1>5
  <2>4. top \in Nat /\ TurnsKnown \in Nat /\ TurnsKnown <= top /\ (C = {} \/ x.turn < top)
    BY <1>7
  <2> QED  BY <2>1, <2>2, <2>3, <2>4, TurnTold
<1>9. /\ DOMAIN links' = DOMAIN links /\ \A l \in DOMAIN links : links'[l] = DeadLine(T[l], l \in D)
      /\ \A l \in DOMAIN links : T[l] \in LinkRecord
  <2>1. DOMAIN links' = DOMAIN links
    BY <1>2, Zenon
  <2>2. ASSUME NEW l \in DOMAIN links PROVE links'[l] = DeadLine(T[l], l \in D) /\ T[l] \in LinkRecord
    <3>1. T[l] \in LinkRecord
      BY <1>8
    <3>2. links'[l] = [T[l] EXCEPT !.cut = TRUE, !.sopen = FALSE, !.up = <<>>,
                                   !.down = IF l \in D THEN <<>> ELSE @]
      BY <1>2, Zenon
    <3> QED  BY <3>1, <3>2 DEF DeadLine, LinkRecord
  <2> QED  BY <2>1, <2>2
<1>10. \A l \in DOMAIN links :
         /\ links'[l] \in LinkRecord /\ links'[l].of = links[l].of /\ links'[l].up = <<>>
         /\ (links'[l].copen <=> links[l].copen) /\ ~links'[l].sopen
         /\ AnyLine(links'[l], machine[links[l].of], top)
  <2> SUFFICES ASSUME NEW l \in DOMAIN links
               PROVE  /\ links'[l] \in LinkRecord /\ links'[l].of = links[l].of /\ links'[l].up = <<>>
                      /\ (links'[l].copen <=> links[l].copen) /\ ~links'[l].sopen
                      /\ AnyLine(links'[l], machine[links[l].of], top)
    OBVIOUS
  <2>1. PICK y, none, t, c : /\ y = T[l] /\ none = (l \in D) /\ t = machine[links[l].of]
                             /\ c = DeadLine(y, none)
    OBVIOUS
  <2>2. y \in LinkRecord /\ AnyLine(y, t, top) /\ y.of = links[l].of /\ (y.copen <=> links[l].copen)
        /\ links'[l] = c
    BY <1>8, <1>9, <2>1
  <2>3. /\ c \in LinkRecord
        /\ c.of = y.of /\ c.up = <<>> /\ (c.copen <=> y.copen) /\ ~c.sopen
        /\ \A v, b : AnyLine(y, v, b) => AnyLine(c, v, b)
    <3>1. y \in LinkRecord
      BY <2>2
    <3> QED  BY <2>1, <3>1, DeadFields
  <2> QED  BY <2>1, <2>2, <2>3
<1>11. links' \in Seq(LinkRecord) /\ Len(links') = Len(links)
  <2>1. DOMAIN links = 1 .. Len(links) /\ Len(links) \in Nat
    BY <1>4
  <2>2. links' = [l \in 1 .. Len(links) |-> links'[l]]
    BY <1>2, <2>1, Zenon
  <2>3. \A l \in 1 .. Len(links) : links'[l] \in LinkRecord
    BY <1>10, <2>1
  <2> QED  BY <2>1, <2>2, <2>3
<1>12. \A l \in DOMAIN links :
         /\ l # 0 /\ links[l].of \in Machines /\ SeatOf[links[l].of] \in Seats
         /\ links[l].copen <=> machine[links[l].of].link = l
  BY <1>4, LineHere, LinkFields
<1>13. machine' = machine /\ \A s \in Seats : client'[s] = 0 /\ att'[s] \in {"Absent", "Dropped"}
  BY <1>2, <1>3, Zenon
<1>14. ASSUME NEW s \in Seats PROVE SeatInv(s)'
  <2>0. SeatInv(s)
    BY DEF IInv
  <2>1. Sessions(s)'
    <3>1. \A m \in Machines : Have(machine[m]) \in Nat
      BY <1>4, SessionFields DEF Typed
    <3>2. \A m \in Machines : SeatOf[m] = s => SessionInv(machine[m], top)
      BY <1>7, <2>0, <3>1 DEF SeatInv, Sessions, SessionInv
    <3>3. \A m \in Machines : SeatOf[m] = s /\ machine[m].link # 0 =>
            machine[m].link \in DOMAIN links' /\ links'[machine[m].link].of = m
      BY <1>9, <1>10, <2>0 DEF SeatInv, Sessions
    <3> QED  BY <1>7, <1>13, <3>2, <3>3 DEF Sessions
  <2>2. Lines(s)'
    BY <1>7, <1>9, <1>10, <1>12, <1>13 DEF Lines
  <2>3. Player(s)' /\ Returns(s)'
    BY <1>3, <1>13 DEF Player, Returns
  <2>4. Open(s)'
    BY <1>9, <1>10 DEF Open
  <2>5. \A l \in DOMAIN links : ~Claims(s, l)'
    BY <1>3, <1>10, <1>12, <1>13, FewKinds DEF Claims, IsClient
  <2>6. Moved(s)'
    BY <1>9, <2>5 DEF Moved
  <2> QED  BY <2>1, <2>2, <2>3, <2>4, <2>6 DEF SeatInv
<1>15. life' \in Lives /\ life' <= deaths' /\ deaths' \in 0 .. world.deaths
  <2>1. PICK d, v : d = world.deaths /\ v = life
    OBVIOUS
  <2>2. /\ d \in Nat /\ v \in Nat /\ deaths \in Nat /\ n \in {0, 1} /\ v <= deaths /\ deaths < d
        /\ life' = v + n /\ deaths' = deaths + 1
    BY <1>2, <1>3, <1>4, <2>1, Zenon
  <2>3. life' <= deaths' /\ deaths' \in 0 .. d /\ life' \in 0 .. d
    BY <2>2
  <2> QED  BY <2>1, <2>3 DEF Lives
<1>16. DropsInv'
  <2>0. PICK e : e = life'
    OBVIOUS
  <2>1. PICK R, z : R = Append(K, [drops |-> <<>>, life |-> e]) /\ z = Len(K) + 1
    BY Zenon
  <2>2. Sealed' = R
    BY <1>2, <1>3, <2>0, <2>1, Zenon DEF Sealed
  <2>3. /\ DOMAIN R = DOMAIN K \cup {z} /\ z \notin DOMAIN K /\ R[z].drops = <<>>
        /\ \A k \in DOMAIN K : R[k] = K[k]
    <3>1. PICK q : q = <<>>
      OBVIOUS
    <3>2. q \in Seq(Seats) /\ e \in Lives /\ K \in Seq(TurnRecord)
      BY <1>6, <1>15, <2>0, <3>1
    <3>3. R = Append(K, [drops |-> q, life |-> e])
      BY <2>1, <3>1
    <3>4. /\ DOMAIN R = DOMAIN K \cup {Len(K) + 1} /\ Len(K) + 1 \notin DOMAIN K
          /\ R[Len(K) + 1].drops = q /\ \A k \in DOMAIN K : R[k] = K[k]
      BY <3>2, <3>3, SealedFacts
    <3> QED  BY <2>1, <3>1, <3>4
  <2>4. \A k \in DOMAIN R : \A i \in DOMAIN R[k].drops :
          k \in DOMAIN K /\ k \in DOMAIN Sealed /\ R[k] = Sealed[k]
    BY <1>6, <2>3
  <2>5. OnePlace(R)
    BY <1>4, <2>4 DEF OnePlace, DropsInv
  <2>6. \A s \in Seats : IsDropped(R, s) <=> s \in DroppedIn(K)
    BY <2>3, <2>4 DEF IsDropped, DroppedIn, Range
  <2>7. \A s \in Seats : att'[s] = "Dropped" <=> IsDropped(R, s)
    BY <1>2, <2>6, Zenon
  <2> QED  BY <2>2, <2>5, <2>7 DEF DropsInv, OnePlace, IsDropped
<1>17. TypeOK'
  <2>1. /\ Lives' = Lives /\ MaxLinks' = MaxLinks /\ MaxFaults' = MaxFaults
        /\ Messages' = Messages /\ LinkRecord' = LinkRecord
    BY SameWorld
  <2>2. links' \in Seq(LinkRecord')
    BY <1>11, <2>1
  <2>3. client' \in [Seats -> 0 .. Len(links')]
    BY <1>3, <1>4, <1>11
  <2>4. log' \in Seq([drops : Seq(Seats), life : Lives']) /\ Len(log') <= MaxTurns
    BY <1>2, <1>6, <2>1, Zenon DEF TurnRecord
  <2>5. queue' \in Seq(Seats) /\ Len(queue') <= Cardinality(Seats)
    <3>1. Cardinality(Seats) \in Nat
      BY FS_CardinalityType DEF RejoinAssumption
    <3> QED  BY <1>3, <3>1
  <2>6. world' \in Worlds /\ deaths' \in 0 .. world'.deaths /\ life' \in Lives' /\ faults' \in 0 .. MaxFaults'
    BY <1>3, <1>4, <1>15, <2>1 DEF TypeOK
  <2>7. att' \in [Seats -> {"Present", "Absent", "CatchingUp", "Dropped"}]
    BY <1>2, Zenon
  <2> QED  BY <1>3, <1>4, <2>1, <2>2, <2>3, <2>4, <2>5, <2>6, <2>7, Zenon DEF TypeOK, LinkRecord
<1> QED  BY <1>14, <1>15, <1>16, <1>17 DEF IInv
------------------------------------------------------------------------------
(* The match begins *)

\* A finite set in some order: everything once.
LEMMA InSomeOrder ==
  ASSUME NEW S, IsFiniteSet(S), NEW G \in SUBSET S
  PROVE  /\ SetToSeq(G) \in Seq(S)
         /\ \A i, j \in DOMAIN SetToSeq(G) : SetToSeq(G)[i] = SetToSeq(G)[j] => i = j
         /\ \A x : x \in G <=> \E i \in DOMAIN SetToSeq(G) : SetToSeq(G)[i] = x
<1>1. IsFiniteSet(G)
  BY FS_Subset
<1>2. PICK n : n = Cardinality(G)
  OBVIOUS
<1>3. n \in Nat /\ ExistsBijection(1 .. n, G)
  BY <1>1, <1>2, FS_CardinalityType
<1>4. PICK f : f \in Bijection(1 .. n, G)
  BY <1>3 DEF ExistsBijection
<1>5. f \in [1 .. n -> G] /\ IsInjective(f)
  BY <1>4 DEF Bijection, Injection, Surjection
<1>6. PICK q : q = SetToSeq(G)
  OBVIOUS
<1>7. q \in [1 .. n -> G] /\ IsInjective(q)
  BY <1>2, <1>5, <1>6 DEF SetToSeq
<1>8. q \in Injection(1 .. n, G)
  BY <1>7 DEF Injection
<1>9. Cardinality(1 .. n) = n
  BY <1>3, CountTo
<1>10. q \in Surjection(1 .. n, G)
  BY <1>1, <1>2, <1>8, <1>9, FS_Injection
<1>11. \A x \in G : \E i \in 1 .. n : q[i] = x
  BY <1>10 DEF Surjection
<1>12. DOMAIN q = 1 .. n /\ q \in Seq(S)
  BY <1>3, <1>7
<1>13. \A i, j \in DOMAIN q : q[i] = q[j] => i = j
  BY <1>7 DEF IsInjective
<1>14. \A x : x \in G <=> \E i \in DOMAIN q : q[i] = x
  BY <1>7, <1>11, <1>12
<1> QED  BY <1>6, <1>12, <1>13, <1>14

\* The machine that a seat begins with.
LEMMA FirstFacts ==
  ASSUME RejoinAssumption
  PROVE  /\ \A s \in Seats : /\ First(s) \in Machines /\ First(s) \notin Latecomers
                             /\ SeatOf[First(s)] = s
         /\ \A m \in Machines : m \notin Latecomers => First(SeatOf[m]) = m
<1>1. /\ \A s \in Seats : \E m \in Machines \ Latecomers : SeatOf[m] = s
      /\ \A a, b \in Machines \ Latecomers : SeatOf[a] = SeatOf[b] => a = b
      /\ \A m \in Machines : SeatOf[m] \in Seats
  BY DEF RejoinAssumption
<1>2. \A s \in Seats : First(s) \in Machines \ Latecomers /\ SeatOf[First(s)] = s
  BY <1>1 DEF First
<1> QED  BY <1>1, <1>2

\* What there is at the beginning.
Begun(n) ==
  /\ log \in Seq(TurnRecord) /\ Len(log) = n /\ \A k \in DOMAIN log : log[k].life = 0
  /\ DOMAIN links = 1 .. Cardinality(Seats)
  /\ \A l \in DOMAIN links :
       /\ links[l] \in LinkRecord /\ links[l].of = First(l - 1)
       /\ links[l].up = <<>> /\ links[l].down = <<>> /\ ~links[l].cut
       /\ (links[l].copen <=> l - 1 \notin world.gone) /\ (links[l].sopen <=> l - 1 \notin world.gone)
  /\ \A m \in Machines :
       /\ machine[m] \in SessionRecord
       /\ ~machine[m].known /\ ~machine[m].claimed
       /\ \A k \in DOMAIN machine[m].held : machine[m].held[k] = 0 /\ k \in 1 .. n
       /\ \/ /\ m \in Latecomers \/ SeatOf[m] \in world.gone
             /\ machine[m].link = 0 /\ machine[m].mode \in {"Lost", "Reconnecting"}
             /\ Have(machine[m]) = 0 /\ machine[m].done = 0
          \/ /\ m \notin Latecomers /\ SeatOf[m] \notin world.gone
             /\ machine[m].link = SeatOf[m] + 1 /\ machine[m].mode = "Normal"
             /\ Have(machine[m]) = n /\ machine[m].done = n
  /\ \A s \in Seats :
       /\ att[s] = IF s \in world.gone THEN "Dropped" ELSE "Present"
       /\ client[s] = IF s \in world.gone THEN 0 ELSE s + 1
  /\ rejoiners = {} /\ life = 0 /\ deaths = 0

\* What a world is.
LEMMA WorldFields ==
  ASSUME RejoinAssumption, world \in Worlds
  PROVE  /\ world.late \subseteq Latecomers /\ world.astray \subseteq Latecomers
         /\ world.gone \subseteq Seats
         /\ world.links \in Nat /\ world.faults \in Nat /\ world.deaths \in Nat
         /\ world.links >= Cardinality(Seats) /\ world.power \in BOOLEAN
<1>1. world \in [late : SUBSET Latecomers, astray : SUBSET Latecomers, limit : 0 .. MaxTurns,
                 links : Nat, faults : Nat, gone : SUBSET Seats, deaths : Nat, power : BOOLEAN]
  BY DEF RejoinAssumption
<1>2. world.links >= Cardinality(Seats)
  BY DEF RejoinAssumption
<1> QED  BY <1>1, <1>2

\* The log at the beginning: turn 0, if it drops anybody.
LEMMA BegunLog ==
  ASSUME RejoinAssumption, world \in Worlds,
         log = IF world.gone = {} THEN <<>> ELSE <<[drops |-> SetToSeq(world.gone), life |-> 0]>>
  PROVE  /\ log \in Seq(TurnRecord) /\ Len(log) \in {0, 1}
         /\ \A k \in DOMAIN log : log[k].life = 0
         /\ \A k \in DOMAIN log : k = 1 /\ log[k].drops = SetToSeq(world.gone)
         /\ world.gone # {} => 1 \in DOMAIN log
<1>1. PICK q : q = SetToSeq(world.gone)
  OBVIOUS
<1>2. q \in Seq(Seats)
  <2>1. world.gone \in SUBSET Seats /\ IsFiniteSet(Seats)
    BY WorldFields DEF RejoinAssumption
  <2> QED  BY <1>1, <2>1, InSomeOrder
<1>3. 0 \in Lives
  BY WorldFields DEF Lives
<1>4. PICK r : r = [drops |-> q, life |-> 0]
  BY Zenon
<1>5. r \in TurnRecord /\ r.life = 0 /\ r.drops = q
  BY <1>2, <1>3, <1>4 DEF TurnRecord
<1>6. log = IF world.gone = {} THEN <<>> ELSE <<r>>
  BY <1>1, <1>4
<1>7. CASE world.gone = {}
  BY <1>6, <1>7
<1>8. CASE world.gone # {}
  <2>1. log = <<r>>
    BY <1>6, <1>8
  <2> QED  BY <1>1, <1>5, <2>1
<1> QED  BY <1>7, <1>8

\* And so it does begin.
LEMMA InitBegun ==
  ASSUME RejoinAssumption, Init
  PROVE  Begun(Len(log))
<1>p. PICK n, N, G : n = Len(log) /\ N = Cardinality(Seats) /\ G = world.gone
  BY Zenon
<1>1. /\ log \in Seq(TurnRecord) /\ n \in {0, 1} /\ \A k \in DOMAIN log : log[k].life = 0
  BY <1>p, BegunLog, Zenon DEF Init
<1>2. /\ N \in Nat /\ Seats = 0 .. N - 1 /\ G \subseteq Seats /\ N <= MaxLinks
      /\ MaxLinks \in Nat /\ MaxTurns \in Nat /\ 1 <= MaxTurns /\ 0 \in Lives
  <2>1. world \in Worlds
    BY Zenon DEF Init
  <2>2. N \in Nat /\ Seats = 0 .. N - 1
    BY <1>p, FS_CardinalityType DEF RejoinAssumption
  <2>3. G \subseteq Seats /\ N <= MaxLinks /\ MaxLinks \in Nat
    BY <1>p, <2>1, <2>2, WorldFields, Zenon DEF MaxLinks
  <2>4. MaxTurns \in Nat /\ 1 <= MaxTurns
    <3>1. MaxTurns \in Nat \ {0}
      BY DEF RejoinAssumption
    <3> QED  BY <3>1
  <2>5. 0 \in Lives
    BY <2>1, WorldFields DEF Lives
  <2> QED  BY <2>2, <2>3, <2>4, <2>5
<1>3. \A l \in 1 .. N : l - 1 \in Seats
  BY <1>2
<1>4. DOMAIN links = 1 .. N
  BY <1>p, Zenon DEF Init
<1>5. ASSUME NEW l \in DOMAIN links
      PROVE  /\ links[l] \in LinkRecord /\ links[l].of = First(l - 1)
             /\ links[l].up = <<>> /\ links[l].down = <<>> /\ ~links[l].cut
             /\ (links[l].copen <=> l - 1 \notin G) /\ (links[l].sopen <=> l - 1 \notin G)
  <2>1. PICK f, b, e : f = First(l - 1) /\ b = (l - 1 \notin G) /\ e = <<>>
    OBVIOUS
  <2>2. f \in Machines
    BY <1>3, <1>4, <2>1, FirstFacts
  <2>3. links[l] = [of |-> f, up |-> e, down |-> e, copen |-> b, sopen |-> b, cut |-> FALSE]
    BY <1>p, <1>4, <2>1, Zenon DEF Init, Link
  <2>4. e \in Seq(Messages) /\ b \in BOOLEAN
    BY <2>1
  <2>5. links[l] \in LinkRecord
    BY <2>2, <2>3, <2>4 DEF LinkRecord
  <2>6. /\ links[l].of = f /\ links[l].up = e /\ links[l].down = e /\ ~links[l].cut
        /\ links[l].copen = b /\ links[l].sopen = b
    BY <2>3
  <2>7. b <=> l - 1 \notin G
    BY <2>1, Zenon
  <2> QED  BY <2>1, <2>5, <2>6, <2>7
<1>6. ASSUME NEW m \in Machines
      PROVE  /\ machine[m] \in SessionRecord
             /\ ~machine[m].known /\ ~machine[m].claimed
             /\ \A k \in DOMAIN machine[m].held : machine[m].held[k] = 0 /\ k \in 1 .. n
             /\ \/ /\ m \in Latecomers \/ SeatOf[m] \in G
                   /\ machine[m].link = 0 /\ machine[m].mode \in {"Lost", "Reconnecting"}
                   /\ Have(machine[m]) = 0 /\ machine[m].done = 0
                \/ /\ m \notin Latecomers /\ SeatOf[m] \notin G
                   /\ machine[m].link = SeatOf[m] + 1 /\ machine[m].mode = "Normal"
                   /\ Have(machine[m]) = n /\ machine[m].done = n
  <2>1. PICK t, e, q, i :
          t = machine[m] /\ e = <<>> /\ q = [k \in DOMAIN log |-> 0] /\ i = SeatOf[m] + 1
    BY Zenon
  <2>2. e \in Seq(Lives) /\ Len(e) = 0 /\ DOMAIN e = {}
    BY <2>1
  <2>3. q \in Seq(Lives) /\ Len(q) = n /\ \A k \in DOMAIN q : q[k] = 0 /\ k \in 1 .. n
    <3>1. DOMAIN log = 1 .. n /\ n \in Nat
      BY <1>1, <1>p
    <3> QED  BY <1>2, <2>1, <3>1
  <2>4. i \in 0 .. MaxLinks /\ 0 \in 0 .. MaxLinks /\ n \in 0 .. MaxTurns /\ 0 \in 0 .. MaxTurns
    <3>1. SeatOf[m] \in 0 .. N - 1
      BY <1>2 DEF RejoinAssumption
    <3> QED  BY <1>1, <1>2, <2>1, <3>1
  <2>5. /\ \A x \in {"Lost", "Reconnecting"} :
             [mode |-> x, link |-> 0, held |-> e, done |-> 0, known |-> FALSE, total |-> 0,
              claimed |-> FALSE, why |-> "none"] \in SessionRecord
        /\ [mode |-> "Normal", link |-> i, held |-> q, done |-> n, known |-> FALSE, total |-> 0,
            claimed |-> FALSE, why |-> "none"] \in SessionRecord
    BY <2>2, <2>3, <2>4 DEF SessionRecord, Reasons
  <2>6. CASE m \in Latecomers \/ SeatOf[m] \in G
    <3>1. PICK x \in {"Lost", "Reconnecting"} :
            t = [mode |-> x, link |-> 0, held |-> e, done |-> 0, known |-> FALSE, total |-> 0,
                 claimed |-> FALSE, why |-> "none"]
      BY <1>p, <2>1, <2>6, Zenon DEF Init, Session
    <3>2. t \in SessionRecord
      BY <2>5, <3>1, Zenon
    <3> QED  BY <2>1, <2>2, <2>6, <3>1, <3>2 DEF Have
  <2>7. CASE m \notin Latecomers /\ SeatOf[m] \notin G
    <3>1. t = [mode |-> "Normal", link |-> i, held |-> q, done |-> n, known |-> FALSE, total |-> 0,
               claimed |-> FALSE, why |-> "none"]
      BY <1>p, <2>1, <2>7, Zenon DEF Init, Session
    <3>2. t \in SessionRecord
      BY <2>5, <3>1
    <3> QED  BY <2>1, <2>3, <2>7, <3>1, <3>2 DEF Have
  <2> QED  BY <2>6, <2>7
<1>7. /\ \A s \in Seats :
           /\ att[s] = IF s \in G THEN "Dropped" ELSE "Present"
           /\ client[s] = IF s \in G THEN 0 ELSE s + 1
      /\ rejoiners = {} /\ life = 0 /\ deaths = 0
  BY <1>p, Zenon DEF Init
<1>8. Len(log) = n
  BY <1>p
<1> QED  BY <1>p, <1>1, <1>4, <1>5, <1>6, <1>7, <1>8 DEF Begun

\* What is there at the beginning is in order.
LEMMA InitSeats ==
  ASSUME RejoinAssumption, world \in Worlds, NEW n \in {0, 1}, Begun(n), NEW s \in Seats
  PROVE  SeatInv(s)
<1>p. PICK N, G : N = Cardinality(Seats) /\ G = world.gone
  OBVIOUS
<1>1. /\ N \in Nat /\ Seats = 0 .. N - 1 /\ G \subseteq Seats
      /\ \A m \in Machines : SeatOf[m] \in Seats
      /\ MaxTurns \in Nat /\ 1 <= MaxTurns
      /\ log \in Seq(TurnRecord) /\ Len(log) = n /\ DOMAIN log = 1 .. n
      /\ TurnsKnown \in Nat /\ n <= TurnsKnown
  <2>1. N \in Nat /\ Seats = 0 .. N - 1
    BY <1>p, FS_CardinalityType DEF RejoinAssumption
  <2>2. G \subseteq Seats /\ \A m \in Machines : SeatOf[m] \in Seats
    BY <1>p, WorldFields, Zenon DEF RejoinAssumption
  <2>3. MaxTurns \in Nat /\ 1 <= MaxTurns
    <3>1. MaxTurns \in Nat \ {0}
      BY DEF RejoinAssumption
    <3> QED  BY <3>1
  <2>4. log \in Seq(TurnRecord) /\ Len(log) = n
    BY DEF Begun
  <2>5. TurnsKnown \in Nat /\ n <= TurnsKnown
    BY <2>3, <2>4 DEF TurnsKnown
  <2> QED  BY <2>1, <2>2, <2>3, <2>4, <2>5
<1>2. \A l \in DOMAIN links :
        /\ l \in 1 .. N /\ l - 1 \in Seats /\ l # 0
        /\ links[l].of \in Machines /\ SeatOf[links[l].of] = l - 1 /\ links[l].of \notin Latecomers
        /\ links[l].up = <<>> /\ links[l].down = <<>>
        /\ (links[l].copen <=> l - 1 \notin G) /\ (links[l].sopen <=> l - 1 \notin G)
  <2> SUFFICES ASSUME NEW l \in DOMAIN links
               PROVE  /\ l \in 1 .. N /\ l - 1 \in Seats /\ l # 0
                      /\ links[l].of \in Machines /\ SeatOf[links[l].of] = l - 1
                      /\ links[l].of \notin Latecomers
                      /\ links[l].up = <<>> /\ links[l].down = <<>>
                      /\ (links[l].copen <=> l - 1 \notin G) /\ (links[l].sopen <=> l - 1 \notin G)
    OBVIOUS
  <2>1. l \in 1 .. N
    BY <1>p DEF Begun
  <2>2. PICK i : i = l - 1
    OBVIOUS
  <2>3. i \in Seats /\ l # 0
    BY <1>1, <2>1, <2>2
  <2>4. First(i) \in Machines /\ First(i) \notin Latecomers /\ SeatOf[First(i)] = i
    BY <2>3, FirstFacts, Zenon
  <2>5. links[l].of = First(i) /\ links[l].up = <<>> /\ links[l].down = <<>>
    BY <2>2 DEF Begun
  <2>6. (links[l].copen <=> l - 1 \notin G) /\ (links[l].sopen <=> l - 1 \notin G)
    BY <1>p DEF Begun
  <2> QED  BY <2>1, <2>2, <2>3, <2>4, <2>5, <2>6
<1>3. \A l \in DOMAIN links :
        /\ l - 1 \notin G => /\ machine[links[l].of].link = l /\ machine[links[l].of].mode = "Normal"
                             /\ Have(machine[links[l].of]) = n
        /\ l - 1 \in G => machine[links[l].of].link = 0
  <2> SUFFICES ASSUME NEW l \in DOMAIN links
               PROVE  /\ l - 1 \notin G => /\ machine[links[l].of].link = l
                                           /\ machine[links[l].of].mode = "Normal"
                                           /\ Have(machine[links[l].of]) = n
                      /\ l - 1 \in G => machine[links[l].of].link = 0
    OBVIOUS
  <2>1. (l - 1) + 1 = l
    BY <1>2
  <2> QED  BY <1>p, <1>2, <2>1 DEF Begun
<1>4. \A m \in Machines : SessionInv(machine[m], TurnsKnown)
  <2> SUFFICES ASSUME NEW m \in Machines PROVE SessionInv(machine[m], TurnsKnown)
    OBVIOUS
  <2>1. ~machine[m].known /\ ~machine[m].claimed /\ Have(machine[m]) \in {0, n}
        /\ \/ machine[m].link = 0 /\ machine[m].mode \in {"Lost", "Reconnecting"}
           \/ machine[m].link # 0 /\ machine[m].mode = "Normal"
    <3>1. SeatOf[m] + 1 # 0
      BY <1>1
    <3> QED  BY <3>1 DEF Begun
  <2>2. Have(machine[m]) <= TurnsKnown
    BY <1>1, <2>1
  <2> QED  BY <2>1, <2>2 DEF SessionInv
<1>5. \A m \in Machines : machine[m].link # 0 =>
        machine[m].link \in DOMAIN links /\ links[machine[m].link].of = m
  <2> SUFFICES ASSUME NEW m \in Machines, machine[m].link # 0
               PROVE  machine[m].link \in DOMAIN links /\ links[machine[m].link].of = m
    OBVIOUS
  <2>1. machine[m].link = SeatOf[m] + 1 /\ m \notin Latecomers
    BY DEF Begun
  <2>2. PICK l : l = SeatOf[m] + 1
    OBVIOUS
  <2>3. l \in 1 .. N /\ l - 1 = SeatOf[m]
    <3>1. SeatOf[m] \in 0 .. N - 1
      BY <1>1
    <3>2. N \in Nat
      BY <1>1
    <3> QED  BY <2>2, <3>1, <3>2
  <2>4. l \in DOMAIN links /\ links[l].of = First(SeatOf[m])
    <3>1. l \in DOMAIN links
      BY <1>p, <2>3 DEF Begun
    <3>2. links[l].of = First(l - 1)
      BY <3>1 DEF Begun
    <3> QED  BY <2>3, <3>1, <3>2
  <2> QED  BY <2>1, <2>2, <2>4, FirstFacts
<1>6. Sessions(s)
  BY <1>4, <1>5 DEF Sessions
<1>7. Lines(s)
  <2>1. \A l \in DOMAIN links : AnyLine(links[l], machine[links[l].of], TurnsKnown)
    BY <1>2, FewKinds DEF AnyLine
  <2>2. \A l \in DOMAIN links : links[l].copen <=> machine[links[l].of].link = l
    BY <1>2, <1>3
  <2> QED  BY <2>1, <2>2 DEF Lines
<1>8. Player(s)
  <2>1. client[s] # 0 <=> att[s] = "Present"
    BY <1>1 DEF Begun
  <2>2. ASSUME client[s] # 0
        PROVE  LET k == links[client[s]]
               IN SeatOf[k.of] = s /\ PlayerLine(k, machine[k.of], log) /\ ~Stray(k.of)
    <3>1. PICK l : l = client[s]
      OBVIOUS
    <3>2. l = s + 1 /\ s \notin G /\ l \in 1 .. N /\ l - 1 = s
      <4>1. s \notin G /\ client[s] = s + 1
        BY <1>p, <2>2 DEF Begun
      <4>2. s \in 0 .. N - 1
        BY <1>1
      <4> QED  BY <1>1, <3>1, <4>1, <4>2
    <3>3. l \in DOMAIN links
      BY <1>p, <3>2 DEF Begun
    <3>4. PICK k, t : k = links[l] /\ t = machine[k.of]
      OBVIOUS
    <3>5. /\ k.of \in Machines /\ SeatOf[k.of] = s /\ k.of \notin Latecomers
          /\ k.up = <<>> /\ k.down = <<>> /\ k.sopen /\ t.mode = "Normal" /\ Have(t) = n
          /\ ~t.claimed
      BY <1>2, <1>3, <3>2, <3>3, <3>4 DEF Begun
    <3>6. Coming(k.down, Have(t), log)
      BY <1>1, <3>5 DEF Coming
    <3>7. PlayerLine(k, t, log)
      BY <3>5, <3>6, FewKinds DEF PlayerLine
    <3>8. ~Stray(k.of)
      <4>1. k.of \notin world.astray
        BY <3>5, WorldFields, Zenon
      <4>2. \A i \in DOMAIN t.held : t.held[i] = 0 /\ i \in 1 .. n
        BY <3>4, <3>5 DEF Begun
      <4>3. \A i \in 1 .. n : log[i].life = 0 /\ ~(i > Len(log))
        BY <1>1 DEF Begun
      <4> QED  BY <3>4, <4>1, <4>2, <4>3, Zenon DEF Stray
    <3> QED  BY <3>1, <3>4, <3>5, <3>7, <3>8
  <2> QED  BY <2>1, <2>2 DEF Player
<1>9. Returns(s)
  BY DEF Returns, Begun
<1>10. Open(s)
  <2> SUFFICES ASSUME NEW l \in DOMAIN links, SeatOf[links[l].of] = s, links[l].sopen
               PROVE  client[s] = l
    BY DEF Open, IsClient
  <2>1. s \notin G /\ s + 1 = l
    BY <1>2
  <2> QED  BY <1>p, <2>1 DEF Begun
<1>11. Moved(s)
  <2>1. \A l \in DOMAIN links : machine[links[l].of].link \in {0, l}
    BY <1>3
  <2> QED  BY <2>1 DEF Moved
<1> QED  BY <1>6, <1>7, <1>8, <1>9, <1>10, <1>11 DEF SeatInv

\* The Drops of turn 0 are those of the seats that are gone.
LEMMA InitDrops ==
  ASSUME RejoinAssumption, Init
  PROVE  DropsInv
<1>p. PICK G, q, e, S, n : /\ G = world.gone /\ q = SetToSeq(G) /\ e = <<>>
                           /\ S = Append(log, [drops |-> e, life |-> 0]) /\ n = Len(log)
  BY Zenon
<1>1. /\ log \in Seq(TurnRecord) /\ n \in Nat
      /\ \A k \in DOMAIN log : k = 1 /\ log[k].drops = q
      /\ G # {} => 1 \in DOMAIN log
  BY <1>p, BegunLog, Zenon DEF Init
<1>2. /\ \A i, j \in DOMAIN q : q[i] = q[j] => i = j
      /\ \A x : x \in G <=> \E i \in DOMAIN q : q[i] = x
  <2>1. G \in SUBSET Seats /\ IsFiniteSet(Seats)
    BY <1>p, WorldFields, Zenon DEF Init, RejoinAssumption
  <2> QED  BY <1>p, <2>1, InSomeOrder
<1>3. Sealed = S
  BY <1>p, Zenon DEF Init, Sealed
<1>4. /\ DOMAIN S = DOMAIN log \cup {n + 1} /\ S[n + 1].drops = e
      /\ \A k \in DOMAIN log : S[k] = log[k]
  <2>1. e \in Seq(Seats)
    BY <1>p
  <2>2. 0 \in Lives
    <3>1. world \in Worlds
      BY Zenon DEF Init
    <3> QED  BY <3>1, WorldFields DEF Lives
  <2> QED  BY <1>1, <1>p, <2>1, <2>2, SealedFacts
<1>5. DOMAIN e = {}
  BY <1>p
<1>6. \A k \in DOMAIN S : \A i \in DOMAIN S[k].drops :
        k = 1 /\ k \in DOMAIN log /\ S[k].drops = q /\ i \in DOMAIN q
  BY <1>1, <1>4, <1>5
<1>7. OnePlace(S)
  BY <1>2, <1>6 DEF OnePlace
<1>8. \A s \in Seats : IsDropped(S, s) <=> s \in G
  <2> SUFFICES ASSUME NEW s \in Seats PROVE IsDropped(S, s) <=> s \in G
    OBVIOUS
  <2>1. IsDropped(S, s) => s \in G
    BY <1>2, <1>6 DEF IsDropped
  <2>2. ASSUME s \in G PROVE IsDropped(S, s)
    <3>1. PICK i \in DOMAIN q : q[i] = s
      BY <1>2, <2>2
    <3>2. 1 \in DOMAIN log
      BY <1>1, <2>2
    <3>3. 1 \in DOMAIN S /\ S[1].drops = q
      BY <1>1, <1>4, <3>2
    <3> QED  BY <3>1, <3>3 DEF IsDropped
  <2> QED  BY <2>1, <2>2
<1>9. \A s \in Seats : att[s] = "Dropped" <=> s \in G
  BY <1>p, Zenon DEF Init
<1> QED  BY <1>3, <1>7, <1>8, <1>9 DEF DropsInv

\* The match begins in order.
LEMMA InitOrder ==
  ASSUME RejoinAssumption, Init
  PROVE  IInv
<1>p. PICK n, N, G : n = Len(log) /\ N = Cardinality(Seats) /\ G = world.gone
  BY Zenon
<1>1. n \in {0, 1} /\ Begun(n) /\ world \in Worlds
  BY <1>p, InitBegun, BegunLog, Zenon DEF Init
<1>2. \A s \in Seats : SeatInv(s)
  BY <1>1, InitSeats, Zenon
<1>3. DropsInv
  BY InitDrops
<1>4. life = 0 /\ deaths = 0 /\ rejoiners = {} /\ queue = <<>> /\ faults = 0
  BY Zenon DEF Init
<1>5. /\ N \in Nat /\ Seats = 0 .. N - 1 /\ MaxTurns \in Nat /\ 1 <= MaxTurns
      /\ world.faults \in Nat /\ world.deaths \in Nat
  <2>1. MaxTurns \in Nat \ {0} /\ N \in Nat /\ Seats = 0 .. N - 1
    BY <1>p, FS_CardinalityType DEF RejoinAssumption
  <2> QED  BY <1>1, <2>1, WorldFields
<1>6. TypeOK
  <2>1. machine \in [Machines -> SessionRecord]
    <3>1. \A m \in Machines : machine[m] \in SessionRecord
      BY <1>1 DEF Begun
    <3>2. machine = [m \in Machines |-> machine[m]]
      BY Zenon DEF Init
    <3> QED  BY <3>1, <3>2
  <2>2. \A m \in Machines : machine[m].done <= Have(machine[m])
    <3>1. n <= n /\ 0 <= 0
      BY <1>1
    <3> QED  BY <1>1, <3>1 DEF Begun
  <2>3. links \in Seq(LinkRecord) /\ Len(links) = N
    <3>1. links = [i \in 1 .. N |-> links[i]]
      BY <1>p, Zenon DEF Init
    <3>2. \A i \in 1 .. N : links[i] \in LinkRecord
      BY <1>1, <1>p DEF Begun
    <3> QED  BY <1>5, <3>1, <3>2
  <2>4. att \in [Seats -> {"Present", "Absent", "CatchingUp", "Dropped"}]
    BY Zenon DEF Init
  <2>5. client \in [Seats -> 0 .. Len(links)]
    <3>1. \A s \in Seats : (IF s \in G THEN 0 ELSE s + 1) \in 0 .. N
      BY <1>5
    <3> QED  BY <1>p, <2>3, <3>1, Zenon DEF Init
  <2>6. log \in Seq(TurnRecord) /\ Len(log) <= MaxTurns
    BY <1>1, <1>5, <1>p DEF Begun
  <2>7. queue \in Seq(Seats) /\ Len(queue) <= Cardinality(Seats)
    BY <1>4, <1>5, <1>p
  <2>8. deaths \in 0 .. world.deaths /\ life \in Lives /\ faults \in 0 .. MaxFaults
    BY <1>4, <1>5 DEF Lives, MaxFaults
  <2>9. world \in Worlds
    BY <1>1
  <2>10. \A r \in rejoiners : FALSE
    BY <1>4
  <2> QED  BY <2>1, <2>2, <2>3, <2>4, <2>5, <2>6, <2>7, <2>8, <2>9, <2>10, Zenon
           DEF TypeOK, SessionRecord, LinkRecord, TurnRecord
<1> QED  BY <1>2, <1>3, <1>4, <1>6 DEF IInv

\* Nothing happens.
LEMMA Stutters ==
  ASSUME IInv, UNCHANGED vars
  PROVE  IInv'
<1>1. /\ world' = world /\ machine' = machine /\ links' = links /\ att' = att /\ client' = client
      /\ rejoiners' = rejoiners /\ log' = log /\ life' = life /\ queue' = queue
      /\ faults' = faults /\ deaths' = deaths
  BY DEF vars, state, server
<1>2. /\ TurnsKnown' = TurnsKnown /\ Lives' = Lives /\ MaxLinks' = MaxLinks
      /\ MaxFaults' = MaxFaults /\ Messages' = Messages
  BY <1>1, SameWorld
<1>3. TypeOK'
  BY <1>1, <1>2 DEF IInv, TypeOK
<1>4. ASSUME NEW s \in Seats PROVE SeatInv(s)'
  <2>0. SeatInv(s)
    BY DEF IInv
  <2>1. Sessions(s)' /\ Lines(s)'
    BY <1>1, <1>2, <2>0 DEF SeatInv, Sessions, Lines
  <2>2. Player(s)' /\ Returns(s)'
    BY <1>1, <2>0 DEF SeatInv, Player, Returns, Stray
  <2>3. Open(s)' /\ Moved(s)'
    BY <1>1, <2>0 DEF SeatInv, Open, Moved, Claims, Untold, IsClient, IsComer
  <2> QED  BY <2>1, <2>2, <2>3 DEF SeatInv
<1>5. DropsInv'
  BY <1>1 DEF IInv, DropsInv, Sealed
<1> QED  BY <1>1, <1>3, <1>4, <1>5 DEF IInv

\* Every step leaves it in order.
LEMMA Inductive ==
  ASSUME RejoinAssumption, IInv, [Next]_vars
  PROVE  IInv'
<1>1. CASE UNCHANGED vars
  BY <1>1, Stutters
<1>2. CASE Next
  <2>1. world' = world
    BY <1>2 DEF Next
  <2>2. CASE \E s \in Seats : HearsLeave(s) \/ Loses(s)
    BY <2>1, <2>2, HearsLeaveStep, LosesStep
  <2>3. CASE \E l \in DOMAIN links : HearsHello(l)
    BY <2>1, <2>3, HearsHelloStep
  <2>4. CASE \E r \in rejoiners : RejoinerHeard(r) \/ RejoinerEnds(r) \/ Streams(r) \/ Verifies(r)
    BY <2>1, <2>4, RejoinerHeardStep, RejoinerEndsStep, StreamsStep, VerifiesStep
  <2>5. CASE Seal
    BY <2>1, <2>5, SealStep
  <2>6. CASE Restarts
    BY <2>1, <2>6, RestartsStep
  <2>7. CASE \E s \in Seats : VotedOut(s)
    BY <2>1, <2>7, VotedOutStep
  <2>8. CASE \E m \in Machines : MachineStep(m) \/ Quits(m)
    BY <2>1, <2>8, HearsStep, StepsStep, LosesLinkStep, AttachesStep, QuitsStep DEF MachineStep
  <2>9. CASE \E l \in DOMAIN links : Breaks(l)
    BY <2>1, <2>9, BreaksStep
  <2> QED  BY <1>2, <2>2, <2>3, <2>4, <2>5, <2>6, <2>7, <2>8, <2>9 DEF Next, ServerStep
<1> QED  BY <1>1, <1>2
------------------------------------------------------------------------------
(* What a match promises *)

\* Every reachable state is in order, whatever breaks and whoever dies: the links carry what
\* the machine at their end and the server's place for it call for.
THEOREM Invariance == Spec => []IInv
<1>1. Init => IInv
  BY InitOrder, RejoinAssumption
<1>2. IInv /\ [Next]_vars => IInv'
  BY Inductive, RejoinAssumption
<1> QED  BY <1>1, <1>2, PTL DEF Spec

\* The fields of sessions, links, seats and attempts stay in their ranges; in particular the
\* queue of Drops never outgrows the seats, and acked <= next <= total for every attempt.
THEOREM TypeCorrect == Spec => []TypeOK
<1>1. IInv => TypeOK
  BY DEF IInv
<1> QED  BY <1>1, Invariance, PTL

\* A seat has one player, who plays or comes back, and Attendance knows which: accept_rejoin()
\* closes whatever else the seat had, and no way to lose the seat leaves an attempt behind.
LEMMA InvTaken ==
  ASSUME IInv
  PROVE  SeatTakenOnce
<1> SUFFICES ASSUME NEW s \in Seats
             PROVE  /\ Cardinality(Comer(s)) = (IF att[s] = "CatchingUp" THEN 1 ELSE 0)
                    /\ client[s] # 0 <=> att[s] = "Present"
  BY DEF SeatTakenOnce
<1>1. Player(s) /\ Returns(s)
  BY DEF IInv, SeatInv
<1>2. client[s] # 0 <=> att[s] = "Present"
  BY <1>1 DEF Player
<1>3. CASE att[s] = "CatchingUp"
  <2>1. PICK r \in rejoiners : r.seat = s
    BY <1>1, <1>3 DEF Returns
  <2>2. {q \in rejoiners : q.seat = s} = {r}
    BY <1>1, <2>1 DEF Returns
  <2>3. Comer(s) = {r.link}
    BY <2>2 DEF Comer
  <2>4. Cardinality(Comer(s)) = 1
    BY <2>3, FS_Singleton, Zenon
  <2> QED  BY <1>2, <1>3, <2>4
<1>4. CASE att[s] # "CatchingUp"
  <2>1. {q \in rejoiners : q.seat = s} = {}
    BY <1>1, <1>4 DEF Returns
  <2>2. Comer(s) = {}
    BY <2>1 DEF Comer
  <2>3. Cardinality(Comer(s)) = 0
    BY <2>2, FS_EmptySet
  <2> QED  BY <1>2, <1>4, <2>3
<1> QED  BY <1>3, <1>4

\* At every moment every seat has one player at most.
THEOREM SeatIsTakenOnce == Spec => []SeatTakenOnce
<1>1. IInv => SeatTakenOnce
  BY InvTaken
<1> QED  BY <1>1, Invariance, PTL

\* What is on its way to a player is the rest of the match.
LEMMA InvInStep ==
  ASSUME IInv
  PROVE  InStep
<1> SUFFICES ASSUME NEW m \in Machines, machine[m].link # 0,
                    client[SeatOf[m]] = machine[m].link,
                    links[machine[m].link].sopen, ~links[machine[m].link].cut
             PROVE  LET l == machine[m].link
                        turns == {i \in DOMAIN links[l].down : links[l].down[i].type = "Turn"}
                    IN /\ Have(machine[m]) + Cardinality(turns) = Len(log)
                       /\ machine[m].mode = "Normal" \/ machine[m].claimed
  BY Zenon DEF InStep
<1>p. PICK l, k, t, q, s, n, T :
        /\ l = machine[m].link /\ k = links[l] /\ t = machine[m] /\ q = k.down
        /\ s = SeatOf[m] /\ n = Len(log) - Have(t)
        /\ T = {i \in DOMAIN q : q[i].type = "Turn"}
  BY Zenon
<1>1. Typed /\ s \in Seats /\ SeatInv(s)
  <2>1. Typed
    BY TypedHere DEF IInv
  <2>2. s \in Seats
    BY RejoinAssumption, <1>p DEF RejoinAssumption
  <2> QED  BY <2>1, <2>2 DEF IInv
<1>2. l \in DOMAIN links /\ k.of = m /\ l # 0 /\ client[s] = l
  BY <1>1, <1>p DEF SeatInv, Sessions
<1>3. k.copen
  BY <1>1, <1>2, <1>p DEF SeatInv, Lines
<1>4. PlayerLine(k, t, log)
  BY <1>1, <1>2, <1>p, SMTT(40) DEF SeatInv, Player
<1>5. (t.mode = "Normal" \/ t.claimed) /\ Coming(q, Have(t), log)
  BY <1>3, <1>4, <1>p DEF PlayerLine
<1>6. k \in LinkRecord /\ t \in SessionRecord /\ log \in Seq(TurnRecord)
  BY <1>1, <1>2, <1>p DEF Typed, IInv, TypeOK, TurnRecord
<1>7. /\ Len(q) \in Nat /\ DOMAIN q = 1 .. Len(q) /\ Have(t) \in Nat /\ Len(log) \in Nat
  BY <1>6, <1>p, LinkFields, SessionFields
<1>8. n \in 0 .. Len(q) /\ \A i \in DOMAIN q : q[i].type = "Turn" <=> i > Len(q) - n
  BY <1>5, <1>p DEF Coming
<1>9. Len(q) - n \in 0 .. Len(q) /\ Len(q) - (Len(q) - n) = n
  BY <1>7, <1>8
<1>10. T = (Len(q) - n + 1) .. Len(q)
  <2>1. PICK a, b : a = Len(q) /\ b = Len(q) - n
    BY Zenon
  <2>2. a \in Nat /\ b \in 0 .. a /\ DOMAIN q = 1 .. a /\ \A i \in 1 .. a : q[i].type = "Turn" <=> i > b
    BY <1>7, <1>8, <1>9, <2>1
  <2>3. T = {i \in 1 .. a : i > b}
    BY <1>p, <2>2
  <2>4. T = (b + 1) .. a
    BY <2>2, <2>3
  <2> QED  BY <2>1, <2>4
<1>11. Cardinality(T) = n
  BY <1>7, <1>9, <1>10, CountTo, SMTT(40)
<1>12. Have(t) + Cardinality(T) = Len(log)
  BY <1>7, <1>11, <1>p
<1> QED  BY <1>5, <1>12, <1>p, Zenon

\* A player whose seat was given back misses nothing.
THEOREM AlwaysInStep == Spec => []InStep
<1>1. IInv => InStep
  BY InvInStep
<1> QED  BY <1>1, Invariance, PTL

\* A seat that is dropped has one place in the turns and in what is queued for the next.
LEMMA InvDropped ==
  ASSUME IInv
  PROVE  DroppedOnce
<1>p. PICK S : S = Sealed
  OBVIOUS
<1> DEFINE turn(k) == S[k].drops
           drops(s) == UNION {{k} \X {i \in DOMAIN turn(k) : turn(k)[i] = s} : k \in DOMAIN S}
<1>1. ASSUME NEW s \in Seats
      PROVE  Cardinality(drops(s)) = (IF att[s] = "Dropped" THEN 1 ELSE 0)
  <2>1. (att[s] = "Dropped" <=> IsDropped(S, s)) /\ OnePlace(S)
    BY <1>p DEF IInv, DropsInv
  <2>2. CASE IsDropped(S, s)
    <3>1. PICK k \in DOMAIN S : \E i \in DOMAIN turn(k) : turn(k)[i] = s
      BY <2>2 DEF IsDropped
    <3>2. PICK i \in DOMAIN turn(k) : turn(k)[i] = s
      BY <3>1
    <3>3. \A h \in DOMAIN S : \A j \in DOMAIN turn(h) : turn(h)[j] = s => h = k /\ j = i
      BY <2>1, <3>2 DEF OnePlace
    <3>4. <<k, i>> \in drops(s)
      BY <3>2
    <3>5. \A x \in drops(s) : x = <<k, i>>
      BY <3>3
    <3>6. drops(s) = {<<k, i>>}
      BY <3>4, <3>5
    <3>7. Cardinality(drops(s)) = 1
      BY <3>6, FS_Singleton, Zenon
    <3> QED  BY <2>1, <2>2, <3>7
  <2>3. CASE ~IsDropped(S, s)
    <3>1. drops(s) = {}
      BY <2>3 DEF IsDropped
    <3>2. Cardinality(drops(s)) = 0
      BY <3>1, FS_EmptySet
    <3> QED  BY <2>1, <2>3, <3>2
  <2> QED  BY <2>2, <2>3
<1> QED  BY <1>1, <1>p DEF DroppedOnce

\* A seat is dropped once, over the deaths of the server too.
THEOREM IsDroppedOnce == Spec => []DroppedOnce
<1>1. IInv => DroppedOnce
  BY InvDropped
<1> QED  BY <1>1, Invariance, PTL

\* The record, which is written before a turn is sent, has every turn that anybody has.
THEOREM NothingIsLost == Spec => []RecordHasAll
<1>1. ASSUME IInv PROVE RecordHasAll
  <2>1. ASSUME ~world.power, NEW m \in Machines PROVE Have(machine[m]) <= Len(log)
    <3>1. SeatOf[m] \in Seats
      BY RejoinAssumption DEF RejoinAssumption
    <3>2. SessionInv(machine[m], TurnsKnown)
      BY <1>1, <3>1 DEF IInv, SeatInv, Sessions
    <3> QED  BY <2>1, <3>2 DEF SessionInv, TurnsKnown
  <2> QED  BY <2>1 DEF RecordHasAll
<1> QED  BY <1>1, Invariance, PTL

\* Whoever plays has the match's own history.
THEOREM HistoryIsOne == Spec => []OneHistory
<1>1. ASSUME IInv PROVE OneHistory
  BY <1>1 DEF IInv, SeatInv, Player, OneHistory
<1> QED  BY <1>1, Invariance, PTL
=============================================================================
