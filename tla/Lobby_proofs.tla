---------------------------- MODULE Lobby_proofs ----------------------------
(***************************************************************************)
(* What Lobby promises, proved for every number of persons and seats, and  *)
(* for every world: its types, that a lobby room is led by who came first, *)
(* and, where the next start waits for what is on its way, that a guest    *)
(* who has read everything is where the room is.                           *)
(*                                                                         *)
(* A step of the room reads one message, closes links and says one thing   *)
(* to all guests, in this order; Fine is what each of the three preserves  *)
(* of the links, InLine what it preserves of the guests at their ends.     *)
(***************************************************************************)
EXTENDS Lobby, NumberFacts, SequenceTheorems

Phases == {"Room", "Loading", "Begun"}
Names == People \cup {"-"}
GuestRecord ==
  [key : Nat, name : Names, conn : Nat, loaded : BOOLEAN, game : BOOLEAN, held : BOOLEAN,
   reserved : BOOLEAN]
Ups ==
  [type : {"Hello"}, key : Nat, game : BOOLEAN, asks : BOOLEAN]
    \cup [type : {"Leave", "StartRequest"}]
    \cup [type : {"SeatMove"}, from : Seats, to : Seats, guard : [Seats -> Names]]
    \cup [type : {"Remove"}, seat : Seats, guard : [Seats -> Names]]
    \cup [type : {"Loaded"}, ok : BOOLEAN]
Downs ==
  [type : {"Welcome"}, key : Nat] \cup [type : {"Start"}, start : Nat]
    \cup [type : {"Reject", "Cancel", "Begin"}]
LinkRecord == [of : People, open : BOOLEAN, up : Seq(Ups), down : Seq(Downs)]
ClientRecord ==
  [phase : {"Off", "Joining", "InRoom", "Loading", "Loaded", "Begun"}, link : Nat, key : Nat,
   start : Nat]

\* The guests: n links were made, j Welcomes given, the room is in phase ph
GuestsInv(g, j, ph, n) ==
  /\ g \in [Seats -> GuestRecord]
  /\ \A s \in Seats :
       /\ g[s].key <= j /\ g[s].conn <= n
       /\ g[s].held => g[s].conn = 0 /\ ~g[s].reserved
       /\ g[s].loaded => ph # "Room"
       /\ \A t \in Seats \ {s} : /\ g[s].key # 0 => g[s].key # g[t].key
                                 /\ g[s].conn # 0 => g[s].conn # g[t].conn

\* Who may lead, and x as the one who does
MayLead(g) ==
  {s \in Seats : world.lobby /\ g[s].key # 0 /\ ~g[s].reserved
                 /\ (Reserved(g) # {} => OfMatch(g, s))}
First(g, x) ==
  /\ MayLead(g) = {} => x = 0
  /\ MayLead(g) # {} => x \in MayLead(g) /\ \A t \in MayLead(g) : g[x].key <= g[t].key

\* A Hello is the first that is said over a link, before it is anybody's
Greets(k) == k.up # <<>> /\ k.up[1].type = "Hello"
Greeting(L) == {l \in DOMAIN L : Greets(L[l])}
Known(m, j, st) == (m.type = "Welcome" => m.key <= j) /\ (m.type = "Start" => m.start <= st)
AnyLine(l, k, c, g, j, st) ==
  /\ \A i \in DOMAIN k.up : k.up[i].type = "Hello" =>
       /\ i = 1 /\ k.down = <<>>
       /\ \A s \in Seats : g[s].conn # l
       /\ c.link = l /\ k.open => c.phase = "Joining"
  /\ \A i \in DOMAIN k.down : Known(k.down[i], j, st)

\* What is left of the links of this state, when they are L and the guests g
Fine(L, g, j, st) ==
  /\ L \in Seq(LinkRecord) /\ Len(L) = Len(links)
  /\ \A l \in DOMAIN links : /\ L[l].of = links[l].of
                             /\ Greets(L[l]) => Greets(links[l])
                             /\ L[l].open => links[l].open
  /\ \A l \in DOMAIN L : AnyLine(l, L[l], client[L[l].of], g, j, st)

\* A guest whose link stands, what is under way over it, and the room, which is in phase ph with
\* its start st: what the machine will be when it has read everything
Reports(up, ok) == \E i \in DOMAIN up : up[i].type = "Loaded" /\ up[i].ok = ok
One(d, a) == Len(d) = 1 /\ d[1].type = a
Two(d, a, b) == Len(d) = 2 /\ d[1].type = a /\ d[2].type = b
Three(d, a, b, e) == Len(d) = 3 /\ d[1].type = a /\ d[2].type = b /\ d[3].type = e
Fits(k, c, ph, st, loaded) ==
  LET d == k.down
  IN  /\ ph = "Room" =>
           \/ /\ c.phase = "Joining"
              /\ One(d, "Welcome") \/ Three(d, "Welcome", "Start", "Cancel")
           \/ /\ c.phase = "InRoom"
              /\ d = <<>> \/ One(d, "Cancel") \/ Two(d, "Start", "Cancel")
           \/ c.phase \in {"Loading", "Loaded"} /\ One(d, "Cancel")
      /\ ph = "Loading" =>
           /\ \/ c.phase = "Joining" /\ Two(d, "Welcome", "Start") /\ d[2].start = st
              \/ c.phase = "InRoom" /\ One(d, "Start") /\ d[1].start = st
              \/ c.phase = "InRoom" /\ d = <<>> /\ Reports(k.up, FALSE)
              \/ c.phase \in {"Loading", "Loaded"} /\ d = <<>> /\ c.start = st
           /\ loaded \/ Reports(k.up, TRUE) => c.phase = "Loaded"
      /\ ph = "Begun" =>
           \/ c.phase = "Loaded" /\ One(d, "Begin")
           \/ c.phase = "Begun" /\ d = <<>>

\* So it is over the links L, with the guests g
Used(l, L) == L[l].open /\ client[L[l].of].link = l
InLine(L, g, ph, st) ==
  \A s \in Seats : g[s].conn # 0 /\ Used(g[s].conn, L) =>
    Fits(L[g[s].conn], client[L[g[s].conn].of], ph, st, g[s].loaded)

\* Every seat has a game at its end
Gathered(g) == \A s \in Seats : g[s].key # 0 => g[s].conn # 0 /\ g[s].game /\ ~g[s].reserved

\* A machine has the link that it made last, or none yet
ClientInv(p) ==
  LET c == client[p]
  IN  /\ c \in ClientRecord /\ c.key <= joins /\ c.start <= starts
      /\ c.link # 0 => c.link \in DOMAIN links /\ links[c.link].of = p
      /\ c.link = 0 => c.phase = "Off"

\* A guest is new with a Hello of its own
Joined == joins + Cardinality(Greeting(links)) <= Len(links) + Len(world.match)

IInv ==
  /\ world \in Worlds /\ phase \in Phases /\ hostLoaded \in BOOLEAN
  /\ joins \in Nat /\ starts \in 0 .. world.starts /\ starting \in 0 .. joins
  /\ presses \in 0 .. world.presses /\ faults \in 0 .. world.faults
  /\ Len(links) <= world.links /\ Joined
  /\ GuestsInv(guest, joins, phase, Len(links))
  /\ First(guest, leader)
  /\ Fine(links, guest, joins, starts)
  /\ client \in [People -> ClientRecord] /\ \A p \in People : ClientInv(p)
  /\ world.lobby /\ phase = "Loading" => Gathered(guest)
  /\ world.pause => InLine(links, guest, phase, starts)
------------------------------------------------------------------------------
(* Messages and links *)

\* A sequence without its first message.
LEMMA TailFacts ==
  ASSUME NEW S, NEW q \in Seq(S), q # <<>>
  PROVE  /\ q[1] \in S /\ 1 \in DOMAIN q /\ Tail(q) \in Seq(S)
         /\ Len(Tail(q)) = Len(q) - 1 /\ Len(q) \in Nat \ {0}
         /\ \A i \in DOMAIN Tail(q) : /\ i \in Nat \ {0} /\ i + 1 \in DOMAIN q
                                      /\ Tail(q)[i] = q[i + 1]
         /\ \A i \in DOMAIN q : i # 1 => i - 1 \in DOMAIN Tail(q) /\ Tail(q)[i - 1] = q[i]
<1>1. Len(q) \in Nat \ {0} /\ DOMAIN q = 1 .. Len(q)
  BY EmptySeq
<1>2. Tail(q) \in Seq(S) /\ Len(Tail(q)) = Len(q) - 1
  BY <1>1
<1>3. DOMAIN Tail(q) = 1 .. Len(q) - 1
  BY <1>1, <1>2
<1>4. \A i \in 1 .. Len(q) - 1 : Tail(q)[i] = q[i + 1]
  BY <1>1
<1>5. q[1] \in S /\ 1 \in DOMAIN q
  BY <1>1
<1>6. \A i \in DOMAIN Tail(q) : i \in Nat \ {0} /\ i + 1 \in DOMAIN q /\ Tail(q)[i] = q[i + 1]
  BY <1>1, <1>3, <1>4
<1>7. \A i \in DOMAIN q : i # 1 => i - 1 \in DOMAIN Tail(q) /\ Tail(q)[i - 1] = q[i]
  BY <1>1, <1>3, <1>4
<1> QED  BY <1>1, <1>2, <1>5, <1>6, <1>7

\* A sequence with one message more.
LEMMA AppendFacts ==
  ASSUME NEW S, NEW q \in Seq(S), NEW m \in S
  PROVE  /\ Append(q, m) \in Seq(S) /\ Len(Append(q, m)) = Len(q) + 1 /\ Len(q) \in Nat
         /\ DOMAIN Append(q, m) = DOMAIN q \cup {Len(q) + 1}
         /\ Append(q, m)[Len(q) + 1] = m
         /\ \A i \in DOMAIN q : Append(q, m)[i] = q[i]
OBVIOUS

\* A word of the room, with its parts.
LEMMA DownFields ==
  ASSUME NEW m \in Downs
  PROVE  /\ m.type = "Welcome" => m.key \in Nat
         /\ m.type = "Start" => m.start \in Nat
         /\ m.type \in {"Welcome", "Start", "Reject", "Cancel", "Begin"}
BY DEF Downs

LEMMA DownKinds ==
  /\ \A n \in Nat : [type |-> "Welcome", key |-> n] \in Downs
  /\ \A n \in Nat : [type |-> "Start", start |-> n] \in Downs
  /\ \A t \in {"Reject", "Cancel", "Begin"} : [type |-> t] \in Downs
BY DEF Downs

\* A word of a guest, with its parts.
LEMMA UpFields ==
  ASSUME NEW m \in Ups
  PROVE  /\ m.type = "Hello" => m.key \in Nat /\ m.game \in BOOLEAN /\ m.asks \in BOOLEAN
         /\ m.type = "SeatMove" => m.from \in Seats /\ m.to \in Seats
         /\ m.type = "Remove" => m.seat \in Seats
         /\ m.type = "Loaded" => m.ok \in BOOLEAN /\ m = [type |-> "Loaded", ok |-> m.ok]
BY DEF Ups

LEMMA UpKinds ==
  /\ \A n \in Nat : \A a, b \in BOOLEAN :
       [type |-> "Hello", key |-> n, game |-> a, asks |-> b] \in Ups
  /\ \A t \in {"Leave", "StartRequest"} : [type |-> t] \in Ups
  /\ \A a, b \in Seats : \A h \in [Seats -> Names] :
       /\ [type |-> "SeatMove", from |-> a, to |-> b, guard |-> h] \in Ups
       /\ [type |-> "Remove", seat |-> a, guard |-> h] \in Ups
  /\ \A b \in BOOLEAN : [type |-> "Loaded", ok |-> b] \in Ups
BY DEF Ups

\* What a link has.
LEMMA LinkFields ==
  ASSUME NEW k \in LinkRecord
  PROVE  /\ k.of \in People /\ k.open \in BOOLEAN
         /\ k.up \in Seq(Ups) /\ k.down \in Seq(Downs)
BY DEF LinkRecord

\* A link of which the room reads.
HeardLine(k) == [k EXCEPT !.up = Tail(@)]
LEMMA HeardFields ==
  ASSUME NEW k \in LinkRecord, k.up # <<>>
  PROVE  LET c == HeardLine(k)
         IN  /\ c \in LinkRecord /\ c.of = k.of /\ c.open = k.open
             /\ c.up = Tail(k.up) /\ c.down = k.down
<1>1. Tail(k.up) \in Seq(Ups)
  BY LinkFields, TailFacts
<1> QED  BY <1>1 DEF HeardLine, LinkRecord

\* A link over which the room says something.
SaidLine(k, m) == [k EXCEPT !.down = Append(@, m)]
LEMMA SaidFields ==
  ASSUME NEW k \in LinkRecord, NEW m \in Downs
  PROVE  LET c == SaidLine(k, m)
         IN  /\ c \in LinkRecord /\ c.of = k.of /\ c.open = k.open
             /\ c.up = k.up /\ c.down = Append(k.down, m)
<1>1. Append(k.down, m) \in Seq(Downs)
  BY LinkFields, AppendFacts
<1> QED  BY <1>1 DEF SaidLine, LinkRecord

\* A link that the room closes, with a last word or none.
ShutLine(k, m) == [k EXCEPT !.open = FALSE, !.up = <<>>, !.down = @ \o m]
Words == {<<>>, Kicked}
LEMMA ShutFields ==
  ASSUME NEW k \in LinkRecord, NEW m \in Words
  PROVE  LET c == ShutLine(k, m)
         IN  /\ c \in LinkRecord /\ c.of = k.of /\ c.open = FALSE /\ c.up = <<>>
             /\ \A i \in DOMAIN c.down : \/ i \in DOMAIN k.down /\ c.down[i] = k.down[i]
                                         \/ c.down[i] = [type |-> "Reject"]
<1>1. m \in Seq(Downs) /\ \A i \in DOMAIN m : m[i] = [type |-> "Reject"]
  <2>1. [type |-> "Reject"] \in Downs
    BY DownKinds
  <2>2. CASE m = <<>>
    BY <2>2
  <2>3. CASE m = <<[type |-> "Reject"]>>
    <3> DEFINE w == [type |-> "Reject"]
    <3> HIDE DEF w
    <3>1. <<w>> \in Seq(Downs) /\ \A i \in DOMAIN <<w>> : <<w>>[i] = w
      BY <2>1 DEF w
    <3> QED  BY <3>1, <2>3 DEF w
  <2> QED  BY <2>2, <2>3, Zenon DEF Words, Kicked
<1>2. k.down \in Seq(Downs) /\ <<>> \in Seq(Ups)
  BY LinkFields
<1>3. k.down \o m \in Seq(Downs)
  BY <1>1, <1>2
<1>4. \A i \in DOMAIN (k.down \o m) : \/ i \in DOMAIN k.down /\ (k.down \o m)[i] = k.down[i]
                                      \/ (k.down \o m)[i] = [type |-> "Reject"]
  <2>1. Len(k.down) \in Nat /\ Len(m) \in Nat /\ DOMAIN m = 1 .. Len(m)
        /\ DOMAIN k.down = 1 .. Len(k.down)
    BY <1>1, <1>2
  <2>2. DOMAIN (k.down \o m) = 1 .. (Len(k.down) + Len(m))
    BY <1>1, <1>2
  <2>3. \A i \in 1 .. (Len(k.down) + Len(m)) :
          (k.down \o m)[i] = IF i <= Len(k.down) THEN k.down[i] ELSE m[i - Len(k.down)]
    BY <1>1, <1>2
  <2> QED  BY <1>1, <2>1, <2>2, <2>3
<1>5. ShutLine(k, m) = [k EXCEPT !.open = FALSE, !.up = <<>>, !.down = k.down \o m]
  BY DEF ShutLine
<1> QED  BY <1>2, <1>3, <1>4, <1>5, Zenon DEF LinkRecord

------------------------------------------------------------------------------
(* What the room does to the links *)

\* The links as a list.
LEMMA Listed ==
  ASSUME NEW L \in Seq(LinkRecord), NEW M, DOMAIN M = DOMAIN L, M = [l \in DOMAIN M |-> M[l]],
         \A l \in DOMAIN L : M[l] \in LinkRecord
  PROVE  M \in Seq(LinkRecord) /\ Len(M) = Len(L)
<1>1. DOMAIN L = 1 .. Len(L) /\ Len(L) \in Nat
  OBVIOUS
<1>2. M = [l \in 1 .. Len(L) |-> M[l]]
  BY <1>1, Zenon
<1>3. \A l \in 1 .. Len(L) : M[l] \in LinkRecord
  BY <1>1
<1>4. M \in [1 .. Len(L) -> LinkRecord]
  BY <1>2, <1>3
<1> QED  BY <1>1, <1>4

\* What the numbers of links are.
LEMMA FineLinks ==
  ASSUME links \in Seq(LinkRecord), NEW L, NEW g, NEW j, NEW st, Fine(L, g, j, st)
  PROVE  /\ DOMAIN L = 1 .. Len(links) /\ DOMAIN links = 1 .. Len(links) /\ Len(links) \in Nat
         /\ \A l \in DOMAIN L : L[l] \in LinkRecord
         /\ \A l \in DOMAIN L : L[l].up \in Seq(Ups) /\ L[l].down \in Seq(Downs)
         /\ \A l \in DOMAIN L : L[l].of \in People
<1>1. DOMAIN L = 1 .. Len(links) /\ DOMAIN links = 1 .. Len(links) /\ Len(links) \in Nat
  BY DEF Fine
<1>2. \A l \in DOMAIN L : L[l] \in LinkRecord
  BY <1>1 DEF Fine
<1> QED  BY <1>1, <1>2, LinkFields

\* One message is read.
HeardLinks(l, L) == [L EXCEPT ![l].up = Tail(@)]
HeardAt(l, L, M) == /\ M[l] = HeardLine(L[l]) /\ ~Greets(M[l])
                    /\ \A i \in DOMAIN M[l].up : M[l].up[i].type # "Hello"
                    /\ \A x \in DOMAIN links : x # l => M[x] = L[x]
LEMMA FineHeard ==
  ASSUME links \in Seq(LinkRecord), NEW L, NEW g, NEW j, NEW st, Fine(L, g, j, st),
         NEW l \in DOMAIN links, L[l].up # <<>>,
         NEW M, M = HeardLinks(l, L)
  PROVE  Fine(M, g, j, st) /\ HeardAt(l, L, M)
<1>1. /\ DOMAIN L = DOMAIN links /\ \A x \in DOMAIN L : L[x] \in LinkRecord
      /\ L \in Seq(LinkRecord)
  BY FineLinks DEF Fine
<1>2. /\ M[l] = HeardLine(L[l]) /\ DOMAIN M = DOMAIN L
      /\ \A x \in DOMAIN L : x # l => M[x] = L[x]
  BY <1>1 DEF HeardLine, HeardLinks
<1>3. M = [x \in DOMAIN M |-> M[x]]
  BY <1>1 DEF HeardLinks
<1>4. /\ M[l] \in LinkRecord /\ M[l].of = L[l].of /\ M[l].open = L[l].open
      /\ M[l].up = Tail(L[l].up) /\ M[l].down = L[l].down
  BY <1>1, <1>2, HeardFields
<1>5. \A x \in DOMAIN L : M[x] \in LinkRecord
  BY <1>1, <1>2, <1>4
<1>6. M \in Seq(LinkRecord) /\ Len(M) = Len(L)
  BY <1>1, <1>2, <1>3, <1>5, Listed
<1>7. AnyLine(l, L[l], client[L[l].of], g, j, st)
  BY <1>1 DEF Fine
<1>8. \A i \in DOMAIN M[l].up : M[l].up[i].type # "Hello"
  <2>1. \A i \in DOMAIN M[l].up : i \in Nat \ {0} /\ i + 1 \in DOMAIN L[l].up
                                  /\ M[l].up[i] = L[l].up[i + 1]
    BY <1>1, <1>4, LinkFields, TailFacts
  <2> QED  BY <1>7, <2>1 DEF AnyLine
<1>9. ~Greets(M[l])
  <2>1. M[l].up # <<>> => 1 \in DOMAIN M[l].up
    BY <1>4, LinkFields, TailFacts
  <2> QED  BY <1>8, <2>1 DEF Greets
<1>10. AnyLine(l, M[l], client[M[l].of], g, j, st)
  BY <1>4, <1>7, <1>8 DEF AnyLine
<1>11. \A x \in DOMAIN links : /\ M[x].of = links[x].of
                               /\ Greets(M[x]) => Greets(links[x])
                               /\ M[x].open => links[x].open
  BY <1>1, <1>2, <1>4, <1>9 DEF Fine
<1>12. \A x \in DOMAIN M : AnyLine(x, M[x], client[M[x].of], g, j, st)
  BY <1>1, <1>2, <1>10 DEF Fine
<1>13. Fine(M, g, j, st)
  BY <1>6, <1>11, <1>12 DEF Fine
<1> QED  BY <1>1, <1>2, <1>8, <1>9, <1>13 DEF HeardAt

\* A link is closed, or none: 0 is no link.
ShutAt(l, L, M) == /\ l # 0 => M[l].open = FALSE /\ M[l].up = <<>>
                   /\ \A x \in DOMAIN links : x # l => M[x] = L[x]
LEMMA FineClosed ==
  ASSUME links \in Seq(LinkRecord), NEW L, NEW g, NEW j, NEW st, Fine(L, g, j, st),
         NEW l \in 0 .. Len(links), NEW m \in Words,
         NEW M, M = Closed(l, m, L)
  PROVE  Fine(M, g, j, st) /\ ShutAt(l, L, M)
<1>1. /\ DOMAIN L = 1 .. Len(links) /\ DOMAIN links = 1 .. Len(links) /\ Len(links) \in Nat
      /\ \A x \in DOMAIN L : L[x] \in LinkRecord
      /\ L \in Seq(LinkRecord)
  BY FineLinks DEF Fine
<1>2. CASE l = 0
  BY <1>1, <1>2 DEF Closed, ShutAt
<1>3. CASE l # 0
  <2>1. l \in DOMAIN L
    BY <1>1, <1>3
  <2>2. PICK n \in Words : n = IF L[l].open /\ ~Unread(l, L) THEN m ELSE <<>>
    BY DEF Words
  <2>3. /\ L[l].down \o <<>> = L[l].down /\ DOMAIN M = DOMAIN L
        /\ \A x \in DOMAIN L : x # l => M[x] = L[x]
    BY <1>1, <1>3, <2>1, LinkFields DEF Closed
  <2>4. M[l] = ShutLine(L[l], n)
    BY <1>3, <2>1, <2>2, <2>3 DEF Closed, ShutLine
  <2>5. M = [x \in DOMAIN M |-> M[x]]
    BY <1>1, <1>3 DEF Closed
  <2>6. /\ M[l] \in LinkRecord /\ M[l].of = L[l].of /\ M[l].open = FALSE /\ M[l].up = <<>>
        /\ \A i \in DOMAIN M[l].down : \/ i \in DOMAIN L[l].down /\ M[l].down[i] = L[l].down[i]
                                       \/ M[l].down[i] = [type |-> "Reject"]
    <3>1. PICK k \in LinkRecord : k = L[l]
      BY <1>1, <2>1
    <3>2. M[l] = ShutLine(k, n)
      BY <2>4, <3>1
    <3>3. /\ ShutLine(k, n) \in LinkRecord /\ ShutLine(k, n).of = k.of
          /\ ShutLine(k, n).open = FALSE /\ ShutLine(k, n).up = <<>>
          /\ \A i \in DOMAIN ShutLine(k, n).down :
               \/ i \in DOMAIN k.down /\ ShutLine(k, n).down[i] = k.down[i]
               \/ ShutLine(k, n).down[i] = [type |-> "Reject"]
      BY <2>2, ShutFields
    <3> QED  BY <3>1, <3>2, <3>3
  <2>7. \A x \in DOMAIN L : M[x] \in LinkRecord
    BY <1>1, <2>3, <2>6
  <2>8. M \in Seq(LinkRecord) /\ Len(M) = Len(L)
    BY <1>1, <2>3, <2>5, <2>7, Listed
  <2>9. AnyLine(l, L[l], client[L[l].of], g, j, st)
    BY <2>1 DEF Fine
  <2>10. \A i \in DOMAIN M[l].down : Known(M[l].down[i], j, st)
    <3>1. Known([type |-> "Reject"], j, st)
      BY DEF Known
    <3> QED  BY <2>6, <2>9, <3>1 DEF AnyLine
  <2>11. AnyLine(l, M[l], client[M[l].of], g, j, st) /\ ~Greets(M[l])
    BY <2>6, <2>10 DEF AnyLine, Greets
  <2>12. \A x \in DOMAIN links : /\ M[x].of = links[x].of
                                 /\ Greets(M[x]) => Greets(links[x])
                                 /\ M[x].open => links[x].open
    BY <1>1, <2>3, <2>6, <2>11 DEF Fine
  <2>13. \A x \in DOMAIN M : AnyLine(x, M[x], client[M[x].of], g, j, st)
    BY <2>3, <2>11 DEF Fine
  <2>14. Fine(M, g, j, st)
    BY <2>8, <2>12, <2>13 DEF Fine
  <2> QED  BY <1>1, <2>3, <2>6, <2>14 DEF ShutAt
<1> QED  BY <1>2, <1>3

\* All guests are told something.
TellsOver(l, g, L) == L[l].open /\ ~Unread(l, L) /\ \E s \in Seats : g[s].conn = l
LEMMA FineTold ==
  ASSUME links \in Seq(LinkRecord), NEW L, NEW g, NEW j, NEW st, Fine(L, g, j, st),
         NEW m \in Downs, Known(m, j, st)
  PROVE  LET M == ToGuests(g, m, L)
         IN  /\ Fine(M, g, j, st)
             /\ \A l \in DOMAIN links :
                  M[l] = IF TellsOver(l, g, L) THEN SaidLine(L[l], m) ELSE L[l]
<1> DEFINE M == ToGuests(g, m, L)
<1>1. /\ DOMAIN L = 1 .. Len(links) /\ DOMAIN links = 1 .. Len(links) /\ Len(links) \in Nat
      /\ \A x \in DOMAIN L : L[x] \in LinkRecord
      /\ L \in Seq(LinkRecord)
  BY FineLinks DEF Fine
<1>2. /\ DOMAIN M = DOMAIN L /\ M = [x \in DOMAIN M |-> M[x]]
      /\ \A l \in DOMAIN links : M[l] = IF TellsOver(l, g, L) THEN SaidLine(L[l], m) ELSE L[l]
  BY <1>1 DEF ToGuests, TellsOver, SaidLine
<1> HIDE DEF M
<1>3. ASSUME NEW l \in DOMAIN L
      PROVE  /\ M[l] \in LinkRecord /\ M[l].of = L[l].of /\ M[l].open = L[l].open
             /\ M[l].up = L[l].up
             /\ AnyLine(l, M[l], client[M[l].of], g, j, st)
  <2>1. AnyLine(l, L[l], client[L[l].of], g, j, st)
    BY DEF Fine
  <2>2. CASE ~TellsOver(l, g, L)
    BY <1>1, <1>2, <2>1, <2>2
  <2>3. CASE TellsOver(l, g, L)
    <3>1. M[l] = SaidLine(L[l], m)
      BY <1>1, <1>2, <2>3
    <3>2. /\ M[l] \in LinkRecord /\ M[l].of = L[l].of /\ M[l].open = L[l].open
          /\ M[l].up = L[l].up /\ M[l].down = Append(L[l].down, m)
      BY <1>1, <3>1, SaidFields
    <3>3. \A i \in DOMAIN M[l].down : M[l].down[i] = m \/ (i \in DOMAIN L[l].down /\ M[l].down[i] = L[l].down[i])
      BY <1>1, <3>2, LinkFields, AppendFacts
    <3>4. \A i \in DOMAIN M[l].down : Known(M[l].down[i], j, st)
      BY <2>1, <3>3 DEF AnyLine
    <3>5. \A i \in DOMAIN L[l].up : L[l].up[i].type # "Hello"
      BY <2>1, <2>3 DEF TellsOver, AnyLine
    <3> QED  BY <3>2, <3>4, <3>5 DEF AnyLine
  <2> QED  BY <2>2, <2>3
<1>4. M \in Seq(LinkRecord) /\ Len(M) = Len(L)
  BY <1>1, <1>2, <1>3, Listed
<1>5. \A x \in DOMAIN links : /\ M[x].of = links[x].of
                              /\ Greets(M[x]) => Greets(links[x])
                              /\ M[x].open => links[x].open
  BY <1>1, <1>3 DEF Fine, Greets
<1>6. Fine(M, g, j, st)
  BY <1>2, <1>3, <1>4, <1>5 DEF Fine
<1> QED  BY <1>2, <1>6 DEF M

\* Guests who have no links that others had not; more keys and starts are known.
LEMMA FineGuests ==
  ASSUME NEW L, NEW g, NEW j \in Nat, NEW st \in Nat, Fine(L, g, j, st), NEW h,
         links \in Seq(LinkRecord),
         \A s \in Seats : h[s].conn # 0 => \E t \in Seats : g[t].conn = h[s].conn,
         NEW jj \in Nat, NEW sst \in Nat, j <= jj, st <= sst
  PROVE  Fine(L, h, jj, sst)
<1>1. ASSUME NEW l \in DOMAIN L PROVE AnyLine(l, L[l], client[L[l].of], h, jj, sst)
  <2>0. l # 0 /\ L[l].down \in Seq(Downs)
    BY FineLinks
  <2>1. AnyLine(l, L[l], client[L[l].of], g, j, st) /\ l # 0 /\ L[l].down \in Seq(Downs)
    BY <2>0 DEF Fine
  <2>2. ASSUME NEW m \in Downs, Known(m, j, st) PROVE Known(m, jj, sst)
    BY <2>2, DownFields DEF Known
  <2>3. \A i \in DOMAIN L[l].down : L[l].down[i] \in Downs
    BY <2>1
  <2>4. \A i \in DOMAIN L[l].down : Known(L[l].down[i], jj, sst)
    BY <2>1, <2>2, <2>3 DEF AnyLine
  <2>5. (\A s \in Seats : g[s].conn # l) => (\A s \in Seats : h[s].conn # l)
    BY <2>1
  <2> QED  BY <2>1, <2>4, <2>5 DEF AnyLine
<1> QED  BY <1>1 DEF Fine

------------------------------------------------------------------------------
(* Guests, and who leads them *)

\* What a guest has.
LEMMA GuestFields ==
  ASSUME NEW a \in GuestRecord
  PROVE  /\ a.key \in Nat /\ a.name \in Names /\ a.conn \in Nat /\ a.loaded \in BOOLEAN
         /\ a.game \in BOOLEAN /\ a.held \in BOOLEAN /\ a.reserved \in BOOLEAN
BY DEF GuestRecord

LEMMA NoGuestFields ==
  /\ NoGuest \in GuestRecord /\ NoGuest.key = 0 /\ NoGuest.conn = 0 /\ NoGuest.loaded = FALSE
  /\ NoGuest.held = FALSE /\ NoGuest.reserved = FALSE
BY DEF NoGuest, GuestRecord, Names

\* elect_leader finds the first.
LEMMA ElectedIsFirst ==
  ASSUME NEW g \in [Seats -> GuestRecord]
  PROVE  First(g, Elected(g))
<1>1. PICK may : may = MayLead(g)
  OBVIOUS
<1>2. Elected(g) = IF may = {} THEN 0
                   ELSE CHOOSE s \in may : \A t \in may : g[s].key <= g[t].key
  BY <1>1 DEF Elected, MayLead
<1>3. may \subseteq Seats
  BY <1>1 DEF MayLead
<1>4. CASE may = {}
  BY <1>1, <1>2, <1>4 DEF First
<1>5. CASE may # {}
  <2>1. PICK T : T = {g[s].key : s \in may}
    OBVIOUS
  <2>2. T \in SUBSET Nat /\ T # {}
    BY <2>1, <1>3, <1>5, GuestFields
  <2>3. PICK n \in T : \A m \in T : n <= m
    BY <2>2, LeastNumber
  <2>4. PICK x \in may : g[x].key = n
    BY <2>1
  <2>5. \A t \in may : g[x].key <= g[t].key
    BY <2>1, <2>3, <2>4
  <2>6. \E s \in may : \A t \in may : g[s].key <= g[t].key
    BY <2>5
  <2>7. Elected(g) \in may /\ \A t \in may : g[Elected(g)].key <= g[t].key
    BY <1>2, <1>5, <2>6, Zenon
  <2> QED  BY <1>1, <1>5, <2>7, Zenon DEF First
<1> QED  BY <1>4, <1>5

\* Who is first depends on keys and reservations.
LEMMA StillFirst ==
  ASSUME NEW g, NEW h, NEW x, First(g, x),
         \A s \in Seats : h[s].key = g[s].key /\ h[s].reserved = g[s].reserved
  PROVE  First(h, x)
<1>1. Reserved(h) = Reserved(g)
  BY DEF Reserved
<1>2. \A s \in Seats : OfMatch(h, s) <=> OfMatch(g, s)
  BY DEF OfMatch
<1>3. MayLead(h) = MayLead(g)
  BY <1>1, <1>2 DEF MayLead
<1>4. \A s \in MayLead(g) : h[s].key = g[s].key
  BY DEF MayLead
<1> QED  BY <1>3, <1>4 DEF First

\* Who leads has a seat.
LEMMA FirstHasASeat ==
  ASSUME NEW g, NEW x, First(g, x)
  PROVE  x \in {0} \cup Seats
BY DEF First, MayLead

\* Guests of whom some are gone, or have no link any more, and nobody else has loaded.
Thin(g, h) ==
  /\ h \in [Seats -> GuestRecord]
  /\ \A s \in Seats : /\ h[s].key \in {0, g[s].key} /\ h[s].conn \in {0, g[s].conn}
                      /\ h[s].held => h[s].conn = 0 /\ ~h[s].reserved
                      /\ h[s].loaded => g[s].loaded

LEMMA ThinGuests ==
  ASSUME NEW g, NEW h, NEW j \in Nat, NEW n \in Nat, NEW ph, NEW pn,
         GuestsInv(g, j, ph, n), Thin(g, h),
         (\E s \in Seats : h[s].loaded) => pn # "Room"
  PROVE  GuestsInv(h, j, pn, n)
<1>1. ASSUME NEW s \in Seats
      PROVE  /\ h[s].key <= j /\ h[s].conn <= n
             /\ h[s].held => h[s].conn = 0 /\ ~h[s].reserved
             /\ h[s].loaded => pn # "Room"
  <2>1. g[s].key <= j /\ g[s].conn <= n /\ h[s].key \in {0, g[s].key} /\ h[s].conn \in {0, g[s].conn}
    BY DEF GuestsInv, Thin
  <2>2. h[s].key <= j /\ h[s].conn <= n
    BY <2>1
  <2> QED  BY <2>2 DEF Thin
<1>2. ASSUME NEW s \in Seats, NEW t \in Seats \ {s}
      PROVE  /\ h[s].key # 0 => h[s].key # h[t].key
             /\ h[s].conn # 0 => h[s].conn # h[t].conn
  <2>1. /\ g[s].key # 0 => g[s].key # g[t].key
        /\ g[s].conn # 0 => g[s].conn # g[t].conn
    BY DEF GuestsInv
  <2> QED  BY <2>1 DEF Thin
<1> QED  BY <1>1, <1>2 DEF GuestsInv, Thin

\* One of them is gone.
LEMMA GoneIsThin ==
  ASSUME NEW g, NEW j, NEW n, NEW ph, GuestsInv(g, j, ph, n), NEW S
  PROVE  /\ Thin(g, [s \in Seats |-> IF s \in S THEN NoGuest ELSE g[s]])
         /\ \A t \in Seats : [g EXCEPT ![t] = NoGuest] = [s \in Seats |-> IF s \in {t} THEN NoGuest ELSE g[s]]
<1>1. g \in [Seats -> GuestRecord]
  BY DEF GuestsInv
<1>2. PICK h : h = [s \in Seats |-> IF s \in S THEN NoGuest ELSE g[s]]
  OBVIOUS
<1>3. h \in [Seats -> GuestRecord] /\ \A s \in Seats : h[s] = NoGuest \/ h[s] = g[s]
  BY <1>1, <1>2, NoGuestFields
<1>4. Thin(g, h)
  BY <1>3, NoGuestFields DEF Thin, GuestsInv
<1> QED  BY <1>1, <1>2, <1>4

\* Nobody has loaded anything.
Unloaded(g) == [s \in Seats |-> [g[s] EXCEPT !.loaded = FALSE]]
Loadless(g, h) ==
  \A s \in Seats : /\ h[s].key = g[s].key /\ h[s].conn = g[s].conn
                   /\ h[s].reserved = g[s].reserved /\ h[s].game = g[s].game
                   /\ h[s].loaded = FALSE
LEMMA UnloadedIsThin ==
  ASSUME NEW g \in [Seats -> GuestRecord],
         \A s \in Seats : g[s].held => g[s].conn = 0 /\ ~g[s].reserved,
         NEW h, h = Unloaded(g)
  PROVE  Thin(g, h) /\ Loadless(g, h)
<1>1. ASSUME NEW s \in Seats
      PROVE  /\ h[s] \in GuestRecord /\ h[s].key = g[s].key /\ h[s].conn = g[s].conn
             /\ h[s].reserved = g[s].reserved /\ h[s].game = g[s].game /\ h[s].held = g[s].held
             /\ h[s].loaded = FALSE
  <2>1. g[s] \in GuestRecord /\ h[s] = [g[s] EXCEPT !.loaded = FALSE]
    BY DEF Unloaded
  <2> QED  BY <2>1 DEF GuestRecord
<1>2. h \in [Seats -> GuestRecord]
  BY <1>1 DEF Unloaded
<1>3. Thin(g, h)
  BY <1>1, <1>2 DEF Thin
<1> QED  BY <1>1, <1>3 DEF Loadless

\* Thinner than what is thinner.
LEMMA ThinnerIsThin ==
  ASSUME NEW g, NEW h, NEW i, Thin(g, h), Thin(h, i)
  PROVE  Thin(g, i)
BY DEF Thin

\* Two guests change seats.
Swapped(a, b, g) == [g EXCEPT ![a] = g[b], ![b] = g[a]]
Among(g, h) == \A s \in Seats : \E t \in Seats : h[s] = g[t]
LEMMA SwappedGuests ==
  ASSUME NEW g, NEW j, NEW n, NEW ph, GuestsInv(g, j, ph, n), NEW a \in Seats, NEW b \in Seats,
         NEW h, h = Swapped(a, b, g)
  PROVE  GuestsInv(h, j, ph, n) /\ Among(g, h)
<1>1. g \in [Seats -> GuestRecord]
  BY DEF GuestsInv
<1>3. PICK f : f = [s \in Seats |-> IF s = b THEN a ELSE IF s = a THEN b ELSE s]
  OBVIOUS
<1>4. \A s \in Seats : f[s] \in Seats /\ h[s] = g[f[s]]
  BY <1>1, <1>3 DEF Swapped
<1>5. \A s \in Seats : \A t \in Seats \ {s} : f[s] # f[t]
  BY <1>3
<1>6. h \in [Seats -> GuestRecord]
  BY <1>1 DEF Swapped
<1>7. GuestsInv(h, j, ph, n)
  BY <1>4, <1>5, <1>6 DEF GuestsInv
<1> QED  BY <1>4, <1>7 DEF Among

\* A guest is on a link that is nobody's.
SeatedGuests(s, a, g) == [g EXCEPT ![s] = a]
Fresh(a, s, g) == a.key = g[s].key \/ \A t \in Seats : a.key # g[t].key
LEMMA GuestOnALink ==
  ASSUME NEW g, NEW j \in Nat, NEW n, GuestsInv(g, j, "Room", n), NEW s \in Seats,
         NEW l, l <= n, \A t \in Seats : g[t].conn # l,
         NEW a \in GuestRecord, a.conn = l, a.held = FALSE, a.loaded = FALSE,
         NEW i \in Nat, j <= i, a.key <= i, Fresh(a, s, g),
         NEW h, h = SeatedGuests(s, a, g)
  PROVE  GuestsInv(h, i, "Room", n)
<1>1. g \in [Seats -> GuestRecord]
  BY DEF GuestsInv
<1>3. h \in [Seats -> GuestRecord] /\ h[s] = a /\ \A t \in Seats : t # s => h[t] = g[t]
  BY <1>1 DEF SeatedGuests
<1>4. ASSUME NEW t \in Seats
      PROVE  /\ h[t].key <= i /\ h[t].conn <= n
             /\ h[t].held => h[t].conn = 0 /\ ~h[t].reserved
             /\ ~h[t].loaded
  <2>1. CASE t = s
    BY <2>1, <1>3
  <2>2. CASE t # s
    <3>1. h[t] = g[t] /\ g[t].key <= j /\ g[t].key \in Nat
      BY <2>2, <1>1, <1>3, GuestFields DEF GuestsInv
    <3>2. h[t].key <= i
      BY <3>1
    <3> QED  BY <3>1, <3>2 DEF GuestsInv
  <2> QED  BY <2>1, <2>2
<1>5. ASSUME NEW t \in Seats, NEW u \in Seats \ {t}
      PROVE  /\ h[t].key # 0 => h[t].key # h[u].key
             /\ h[t].conn # 0 => h[t].conn # h[u].conn
  <2>1. CASE t = s
    BY <2>1, <1>3 DEF GuestsInv, Fresh
  <2>2. CASE u = s
    BY <2>2, <1>3 DEF GuestsInv, Fresh
  <2>3. CASE t # s /\ u # s
    BY <2>3, <1>3 DEF GuestsInv
  <2> QED  BY <2>1, <2>2, <2>3
<1>6. GuestsInv(h, i, "Room", n)
  BY <1>3, <1>4, <1>5 DEF GuestsInv
<1> QED  BY <1>6

------------------------------------------------------------------------------
(* Guests who are where the room is *)

\* What is reported when a message has been read.
LEMMA ReportsHeard ==
  ASSUME NEW up \in Seq(Ups), up # <<>>, NEW ok
  PROVE  /\ Reports(Tail(up), ok) => Reports(up, ok)
         /\ up[1].type # "Loaded" => (Reports(Tail(up), ok) <=> Reports(up, ok))
<1>1. /\ \A i \in DOMAIN Tail(up) : i + 1 \in DOMAIN up /\ Tail(up)[i] = up[i + 1]
      /\ \A i \in DOMAIN up : i # 1 => i - 1 \in DOMAIN Tail(up) /\ Tail(up)[i - 1] = up[i]
  BY TailFacts
<1>2. Reports(Tail(up), ok) => Reports(up, ok)
  BY <1>1 DEF Reports
<1>3. ASSUME up[1].type # "Loaded", Reports(up, ok) PROVE Reports(Tail(up), ok)
  <2>1. PICK i \in DOMAIN up : up[i].type = "Loaded" /\ up[i].ok = ok
    BY <1>3 DEF Reports
  <2>2. i # 1
    BY <1>3, <2>1
  <2> QED  BY <1>1, <2>1, <2>2 DEF Reports
<1> QED  BY <1>2, <1>3

\* The same under way, and the same reported.
LEMMA FitsSame ==
  ASSUME NEW k, NEW c, NEW ph, NEW st, NEW ld, Fits(k, c, ph, st, ld), NEW k2, NEW ld2,
         k2.down = k.down, ld2 => ld,
         \A ok \in BOOLEAN : Reports(k2.up, ok) <=> Reports(k.up, ok)
  PROVE  Fits(k2, c, ph, st, ld2)
BY DEF Fits

\* In the room no report counts.
LEMMA FitsInTheRoom ==
  ASSUME NEW k, NEW c, NEW st, NEW ld, Fits(k, c, "Room", st, ld), NEW k2, NEW ld2,
         k2.down = k.down
  PROVE  Fits(k2, c, "Room", st, ld2)
BY DEF Fits

\* A guest who says that the map is loaded has loaded it.
LEMMA FitsLoaded ==
  ASSUME NEW k, k.up \in Seq(Ups), NEW c, NEW st, NEW ld, Fits(k, c, "Loading", st, ld),
         k.up # <<>>, k.up[1].type = "Loaded", k.up[1].ok = TRUE,
         NEW k2, k2.down = k.down, k2.up = Tail(k.up)
  PROVE  Fits(k2, c, "Loading", st, TRUE)
<1>1. Reports(k.up, TRUE)
  <2>1. 1 \in DOMAIN k.up
    BY TailFacts
  <2> QED  BY <2>1 DEF Reports
<1>2. c.phase = "Loaded"
  BY <1>1 DEF Fits
<1>3. k.down = <<>> /\ c.start = st
  BY <1>2 DEF Fits
<1> QED  BY <1>2, <1>3 DEF Fits

\* Longer by one.
LEMMA MoreUnderWay ==
  ASSUME NEW d \in Seq(Downs), NEW m \in Downs
  PROVE  /\ d = <<>> => One(Append(d, m), m.type) /\ Append(d, m)[1] = m
         /\ \A a : One(d, a) => Two(Append(d, m), a, m.type) /\ Append(d, m)[2] = m
         /\ \A a, b : Two(d, a, b) => Three(Append(d, m), a, b, m.type)
<1>1. /\ Len(Append(d, m)) = Len(d) + 1 /\ Len(d) \in Nat /\ DOMAIN d = 1 .. Len(d)
      /\ Append(d, m)[Len(d) + 1] = m
      /\ \A i \in 1 .. Len(d) : Append(d, m)[i] = d[i]
  BY AppendFacts
<1>2. PICK e : e = Append(d, m)
  OBVIOUS
<1>3. /\ Len(e) = Len(d) + 1 /\ Len(d) \in Nat /\ e[Len(d) + 1] = m
      /\ \A i \in 1 .. Len(d) : e[i] = d[i]
  BY <1>1, <1>2
<1>4. d = <<>> => One(e, m.type) /\ e[1] = m
  <2>1. d = <<>> => Len(d) = 0
    OBVIOUS
  <2> QED  BY <1>3, <2>1 DEF One
<1>5. \A a : One(d, a) => Two(e, a, m.type) /\ e[2] = m
  BY <1>3 DEF One, Two
<1>6. \A a, b : Two(d, a, b) => Three(e, a, b, m.type)
  BY <1>3 DEF Two, Three
<1> QED  BY <1>2, <1>4, <1>5, <1>6

\* The start is cancelled.
LEMMA FitsCancelled ==
  ASSUME NEW k, k.down \in Seq(Downs), NEW c, NEW st, NEW ld, Fits(k, c, "Loading", st, ld),
         NEW k2, k2.down = Append(k.down, [type |-> "Cancel"]), NEW ld2, NEW i
  PROVE  Fits(k2, c, "Room", i, ld2)
<1>1. PICK m \in Downs : m = [type |-> "Cancel"]
  BY DownKinds
<1>2. m.type = "Cancel" /\ k2.down = Append(k.down, m)
  BY <1>1
<1>3. PICK d : d = k.down
  OBVIOUS
<1>4. PICK e : e = k2.down
  OBVIOUS
<1>5. /\ d = <<>> => One(e, "Cancel")
      /\ One(d, "Start") => Two(e, "Start", "Cancel")
      /\ Two(d, "Welcome", "Start") => Three(e, "Welcome", "Start", "Cancel")
  BY <1>2, <1>3, <1>4, MoreUnderWay
<1> QED  BY <1>3, <1>4, <1>5 DEF Fits

\* The room starts when no Cancel is under way and no report.
LEMMA FitsStarted ==
  ASSUME NEW k, k.down \in Seq(Downs), NEW c, NEW st, NEW ld, Fits(k, c, "Room", st, ld),
         \A i \in DOMAIN k.up : k.up[i].type # "Loaded",
         \A i \in DOMAIN k.down : k.down[i].type # "Cancel",
         NEW i \in Nat,
         NEW k2, k2.up = k.up, k2.down = Append(k.down, [type |-> "Start", start |-> i])
  PROVE  Fits(k2, c, "Loading", i, FALSE)
<1>1. PICK m \in Downs : m = [type |-> "Start", start |-> i]
  BY DownKinds
<1>2. m.type = "Start" /\ m.start = i /\ k2.down = Append(k.down, m)
  BY <1>1
<1>3. PICK d \in Seq(Downs) : d = k.down
  OBVIOUS
<1>4. PICK e : e = k2.down
  OBVIOUS
<1>5. /\ d = <<>> => One(e, "Start") /\ e[1].start = i
      /\ One(d, "Welcome") => Two(e, "Welcome", "Start") /\ e[2].start = i
  <2>1. e = Append(d, m)
    BY <1>2, <1>3, <1>4
  <2>2. /\ d = <<>> => One(e, m.type) /\ e[1] = m
        /\ One(d, "Welcome") => Two(e, "Welcome", m.type) /\ e[2] = m
    BY <2>1, MoreUnderWay
  <2> QED  BY <1>2, <2>2
<1>6. ~One(d, "Cancel") /\ ~Two(d, "Start", "Cancel") /\ ~Three(d, "Welcome", "Start", "Cancel")
  <2>1. DOMAIN d = 1 .. Len(d) /\ Len(d) \in Nat
    OBVIOUS
  <2>2. \A n \in 1 .. Len(d) : d[n].type # "Cancel"
    BY <1>3, <2>1
  <2> QED  BY <2>1, <2>2 DEF One, Two, Three
<1>7. ~Reports(k2.up, TRUE)
  BY DEF Reports
<1>8. \/ c.phase = "Joining" /\ One(d, "Welcome")
      \/ c.phase = "InRoom" /\ d = <<>>
  BY <1>3, <1>6 DEF Fits
<1> QED  BY <1>4, <1>5, <1>7, <1>8 DEF Fits

\* The match begins when the guest has loaded.
LEMMA FitsBegun ==
  ASSUME NEW k, k.down \in Seq(Downs), NEW c, NEW st, Fits(k, c, "Loading", st, TRUE),
         NEW k2, k2.down = Append(k.down, [type |-> "Begin"]), NEW i, NEW ld
  PROVE  Fits(k2, c, "Begun", i, ld)
<1>1. PICK m \in Downs : m = [type |-> "Begin"]
  BY DownKinds
<1>2. m.type = "Begin" /\ k2.down = Append(k.down, m)
  BY <1>1
<1>3. c.phase = "Loaded" /\ k.down = <<>>
  BY DEF Fits
<1>4. One(k2.down, "Begin")
  BY <1>2, <1>3, MoreUnderWay
<1> QED  BY <1>3, <1>4 DEF Fits

\* What happens on the links before anything is said: nothing that a machine has to read goes.
Untouched(L) == \A l \in DOMAIN links : L[l].open => L[l].down = links[l].down
Unheard(L) == \A l \in DOMAIN links : L[l].open =>
                \A ok \in BOOLEAN : Reports(L[l].up, ok) <=> Reports(links[l].up, ok)

\* The guests of this state, and those who are left of them, with the links L.
LEMMA StillUsed ==
  ASSUME IInv, NEW L, NEW j, NEW st, NEW h, Fine(L, h, j, st), NEW g, NEW s \in Seats,
         g[s].conn # 0, Used(g[s].conn, L), NEW t \in Seats, guest[t].conn = g[s].conn
  PROVE  LET l == g[s].conn
         IN  /\ l \in DOMAIN links /\ L[l].of = links[l].of /\ Used(l, links)
             /\ links[l].up \in Seq(Ups) /\ links[l].down \in Seq(Downs)
             /\ world.pause =>
                  Fits(links[l], client[links[l].of], phase, starts, guest[t].loaded)
<1>1. links \in Seq(LinkRecord)
  BY DEF IInv, Fine
<1>2. Fine(links, guest, joins, starts) /\ GuestsInv(guest, joins, phase, Len(links))
  BY DEF IInv
<1>3. /\ DOMAIN links = 1 .. Len(links) /\ Len(links) \in Nat
      /\ \A l \in DOMAIN links : links[l].up \in Seq(Ups) /\ links[l].down \in Seq(Downs)
  BY <1>1, <1>2, FineLinks
<1>4. guest[t].conn \in Nat /\ guest[t].conn <= Len(links)
  BY <1>2, GuestFields DEF GuestsInv
<1>5. g[s].conn \in DOMAIN links
  BY <1>3, <1>4
<1>6. L[g[s].conn].of = links[g[s].conn].of /\ Used(g[s].conn, links)
  BY <1>5 DEF Fine, Used
<1>7. world.pause => InLine(links, guest, phase, starts)
  BY DEF IInv
<1>8. world.pause => Fits(links[g[s].conn], client[links[g[s].conn].of], phase, starts, guest[t].loaded)
  BY <1>6, <1>7 DEF InLine
<1> QED  BY <1>3, <1>5, <1>6, <1>8

\* Guests who are left, or have changed seats.
Left(g) == \A s \in Seats : g[s].conn # 0 =>
             \E t \in Seats : guest[t].conn = g[s].conn /\ (g[s].loaded => guest[t].loaded)

\* Nothing is said.
LEMMA InLineQuiet ==
  ASSUME IInv, NEW L, NEW j, NEW st, NEW h, Fine(L, h, j, st), NEW g, Left(g), Untouched(L),
         Unheard(L), world.pause
  PROVE  InLine(L, g, phase, starts)
<1> SUFFICES ASSUME NEW s \in Seats, g[s].conn # 0, Used(g[s].conn, L)
             PROVE  Fits(L[g[s].conn], client[L[g[s].conn].of], phase, starts, g[s].loaded)
  BY DEF InLine
<1>1. PICK t \in Seats : guest[t].conn = g[s].conn /\ (g[s].loaded => guest[t].loaded)
  BY DEF Left
<1>2. PICK l : l = g[s].conn
  BY SMTT(40)
<1>3. /\ l \in DOMAIN links /\ L[l].of = links[l].of /\ L[l].open
      /\ Fits(links[l], client[links[l].of], phase, starts, guest[t].loaded)
  BY <1>1, <1>2, StillUsed DEF Used
<1>4. /\ L[l].down = links[l].down
      /\ \A ok \in BOOLEAN : Reports(L[l].up, ok) <=> Reports(links[l].up, ok)
  BY <1>3 DEF Untouched, Unheard
<1>5. Fits(L[l], client[links[l].of], phase, starts, g[s].loaded)
  BY <1>1, <1>3, <1>4, FitsSame
<1> QED  BY <1>2, <1>3, <1>5

\* Something is said to all who are left: L becomes M = ToGuests(g, m, L).
SaidAt(l, L, M, m, loaded) ==
  /\ l \in DOMAIN links /\ M[l].of = links[l].of /\ Used(l, links) /\ Used(l, L)
  /\ M[l].up = L[l].up /\ M[l].down = Append(links[l].down, m)
  /\ L[l].down = links[l].down /\ L[l].of = links[l].of
  /\ links[l].up \in Seq(Ups) /\ links[l].down \in Seq(Downs)
  /\ world.pause => Fits(links[l], client[links[l].of], phase, starts, loaded)
LEMMA SaidToGuests ==
  ASSUME IInv, NEW L, NEW j, NEW st, NEW g, Fine(L, g, j, st), Untouched(L),
         NEW m \in Downs, Known(m, j, st), NEW M, M = ToGuests(g, m, L),
         NEW s \in Seats, NEW l, g[s].conn = l, l # 0, Used(l, M),
         NEW t \in Seats, guest[t].conn = l
  PROVE  SaidAt(l, L, M, m, guest[t].loaded)
<1>1. links \in Seq(LinkRecord)
  BY DEF IInv, Fine
<1>2. /\ Fine(M, g, j, st)
      /\ \A x \in DOMAIN links : M[x] = IF TellsOver(x, g, L) THEN SaidLine(L[x], m) ELSE L[x]
  BY <1>1, FineTold
<1>3. Used(g[s].conn, M)
  OBVIOUS
<1>4. /\ l \in DOMAIN links /\ M[l].of = links[l].of /\ Used(l, links)
      /\ links[l].up \in Seq(Ups) /\ links[l].down \in Seq(Downs)
      /\ world.pause =>
                  Fits(links[l], client[links[l].of], phase, starts, guest[t].loaded)
  BY <1>2, <1>3, StillUsed
<1>5. \A x \in DOMAIN L : L[x] \in LinkRecord
  BY <1>1, FineLinks
<1>6. L[l] \in LinkRecord /\ L[l].of = links[l].of
  BY <1>1, <1>4, <1>5, FineLinks DEF Fine
<1>7. TellsOver(l, g, L)
  <2>1. M[l].open /\ client[L[l].of].link = l
    BY <1>3, <1>4, <1>6 DEF Used
  <2>2. CASE TellsOver(l, g, L)
    BY <2>2
  <2>3. CASE ~TellsOver(l, g, L)
    <3>1. L[l].open
      BY <1>2, <1>4, <2>1, <2>3
    <3> QED  BY <2>1, <2>3, <3>1 DEF TellsOver, Unread
  <2> QED  BY <2>2, <2>3
<1>8. M[l] = SaidLine(L[l], m)
  BY <1>2, <1>4, <1>7
<1>9. M[l].up = L[l].up /\ M[l].down = Append(L[l].down, m)
  BY <1>6, <1>8, SaidFields
<1>10. L[l].down = links[l].down
  BY <1>4, <1>7 DEF Untouched, TellsOver
<1>11. Used(l, L)
  BY <1>4, <1>6, <1>7 DEF Used, TellsOver
<1> QED  BY <1>4, <1>6, <1>9, <1>10, <1>11 DEF SaidAt

------------------------------------------------------------------------------
(* Steps of the room *)

\* The numbers of a world.
LEMMA WorldFields ==
  ASSUME IInv, LobbyAssumption
  PROVE  /\ world.links \in Nat /\ world.starts \in Nat /\ world.presses \in Nat
         /\ world.faults \in Nat /\ world.lobby \in BOOLEAN /\ world.pause \in BOOLEAN
         /\ world.match \in Seq(People) /\ Len(world.match) \in Nat
         /\ links \in Seq(LinkRecord) /\ Len(links) \in Nat /\ DOMAIN links = 1 .. Len(links)
         /\ guest \in [Seats -> GuestRecord]
         /\ Len(world.match) <= Cardinality(Seats) /\ world.people \subseteq People
<1>1. world \in [people : SUBSET People, lobby : BOOLEAN, links : Nat, starts : Nat, presses : Nat,
                 faults : Nat, pause : BOOLEAN, least : Nat, match : Seq(People)]
  BY DEF IInv, LobbyAssumption
<1>2. Len(world.match) <= Cardinality(Seats)
  BY DEF IInv, LobbyAssumption
<1>3. links \in Seq(LinkRecord)
  BY DEF IInv, Fine
<1>4. guest \in [Seats -> GuestRecord]
  BY DEF IInv, GuestsInv
<1> QED  BY <1>1, <1>2, <1>3, <1>4

\* Nobody greets anew, and whoever becomes a guest has greeted.
LEMMA StillJoined ==
  ASSUME IInv, LobbyAssumption, world' = world, NEW L, links' = L, Len(L) = Len(links),
         L \in Seq(LinkRecord), NEW j \in Nat, joins' = j,
         \A l \in DOMAIN links : Greets(L[l]) => Greets(links[l]),
         j = joins \/ (j = joins + 1 /\ \E l \in Greeting(links) : ~Greets(L[l]))
  PROVE  Joined'
<1>1. /\ Len(links) \in Nat /\ DOMAIN links = 1 .. Len(links) /\ joins \in Nat
      /\ Len(world.match) \in Nat /\ DOMAIN L = 1 .. Len(links)
  BY WorldFields DEF IInv
<1>2. PICK A, B : A = Greeting(links) /\ B = Greeting(L)
  OBVIOUS
<1>3. B \subseteq A /\ A \subseteq 1 .. Len(links)
  BY <1>1, <1>2 DEF Greeting
<1>4. IsFiniteSet(A)
  <2>1. IsFiniteSet(1 .. Len(links))
    BY <1>1, FS_Interval
  <2> QED  BY <1>3, <2>1, FS_Subset
<1>5. /\ IsFiniteSet(B) /\ Cardinality(B) <= Cardinality(A)
      /\ Cardinality(A) \in Nat /\ Cardinality(B) \in Nat
  BY <1>3, <1>4, FS_Subset, FS_CardinalityType
<1>6. joins + Cardinality(A) <= Len(links) + Len(world.match)
  BY <1>2 DEF IInv, Joined
<1>7. j + Cardinality(B) <= Len(links) + Len(world.match)
  <2>1. CASE j = joins
    BY <1>1, <1>5, <1>6, <2>1
  <2>2. CASE j # joins
    <3>1. PICK l \in A : ~Greets(L[l])
      BY <1>2, <2>2
    <3>2. l \notin B
      BY <1>2, <3>1 DEF Greeting
    <3>3. B \subseteq A \ {l} /\ IsFiniteSet(A \ {l})
      BY <1>3, <1>4, <3>2, FS_Subset
    <3>4. Cardinality(A \ {l}) = Cardinality(A) - 1
      BY <1>4, FS_RemoveElement
    <3>5. Cardinality(B) <= Cardinality(A \ {l})
      BY <3>3, FS_Subset
    <3>6. Cardinality(B) < Cardinality(A)
      BY <1>5, <3>4, <3>5
    <3> QED  BY <1>1, <1>5, <1>6, <2>2, <3>6
  <2> QED  BY <2>1, <2>2
<1>8. Len(links') = Len(links) /\ Greeting(links') = B
  BY <1>2
<1> QED  BY <1>7, <1>8 DEF Joined

\* Guests on no other links.
LEMMA FineLeft ==
  ASSUME IInv, LobbyAssumption, NEW L, NEW g, Fine(L, g, joins, starts), NEW h,
         \A s \in Seats : h[s].conn # 0 => \E t \in Seats : g[t].conn = h[s].conn
  PROVE  Fine(L, h, joins, starts)
<1>1. joins \in Nat /\ starts \in Nat /\ links \in Seq(LinkRecord)
  BY WorldFields DEF IInv
<1>2. joins <= joins /\ starts <= starts
  BY <1>1
<1> QED  BY <1>1, <1>2, FineGuests

\* What a step of the room has to keep.
LEMMA RoomStep ==
  ASSUME IInv, LobbyAssumption, world' = world, client' = client,
         presses' \in 0 .. world.presses, faults' \in 0 .. world.faults,
         NEW L, links' = L, NEW g, guest' = g, NEW ph \in Phases, phase' = ph,
         hostLoaded' \in BOOLEAN, NEW j \in Nat, joins' = j, NEW st \in 0 .. world.starts,
         starts' = st, starting' \in 0 .. j, joins <= j, starts <= st,
         j = joins \/ (j = joins + 1 /\ \E l \in Greeting(links) : ~Greets(L[l])),
         GuestsInv(g, j, ph, Len(links)), NEW x, leader' = x, First(g, x),
         Fine(L, g, j, st),
         world.lobby /\ ph = "Loading" => Gathered(g),
         world.pause => InLine(L, g, ph, st)
  PROVE  IInv'
<1>1. /\ links \in Seq(LinkRecord) /\ Len(links) \in Nat /\ DOMAIN links = 1 .. Len(links)
      /\ joins \in Nat /\ starts \in Nat /\ world.starts \in Nat
  BY WorldFields DEF IInv
<1>2. L \in Seq(LinkRecord) /\ Len(L) = Len(links) /\ DOMAIN L = DOMAIN links
      /\ \A l \in DOMAIN links : L[l].of = links[l].of /\ (Greets(L[l]) => Greets(links[l]))
  BY <1>1 DEF Fine
<1>3. Joined'
  BY <1>2, StillJoined
<1>4. First(guest, leader)'
  <2>1. First(g, x) /\ MayLead(g)' = MayLead(g)
    BY DEF MayLead, OfMatch, Reserved
  <2>2. MayLead(guest)' = MayLead(g)
    BY <2>1 DEF MayLead, OfMatch, Reserved
  <2> QED  BY <2>1, <2>2 DEF First
<1>5. Fine(links, guest, joins, starts)'
  <2>1. \A l \in DOMAIN L : AnyLine(l, L[l], client[L[l].of], g, j, st)
    BY DEF Fine
  <2>2. \A l \in DOMAIN L : AnyLine(l, links'[l], client'[links'[l].of], guest', joins', starts')
    BY <2>1
  <2> QED  BY <1>2, <2>2 DEF Fine, AnyLine
<1>6. \A p \in People : ClientInv(p)'
  <2> SUFFICES ASSUME NEW p \in People PROVE ClientInv(p)'
    OBVIOUS
  <2>1. ClientInv(p)
    BY DEF IInv
  <2>2. client[p].key \in Nat /\ client[p].start \in Nat
    BY DEF IInv, ClientRecord
  <2>3. client[p].key <= j /\ client[p].start <= st
    BY <1>1, <2>1, <2>2, SMTT(40) DEF ClientInv
  <2> QED  BY <1>2, <2>1, <2>3 DEF ClientInv
<1>7. (world.lobby /\ phase = "Loading" => Gathered(guest))'
  BY DEF Gathered
<1>8. (world.pause => InLine(links, guest, phase, starts))'
  <2>1. client' = client /\ links' = L /\ guest' = g /\ phase' = ph /\ starts' = st
        /\ world' = world
    OBVIOUS
  <2>2. InLine(links, guest, phase, starts)' <=>
          \A s \in Seats : g[s].conn # 0 /\ L[g[s].conn].open
                             /\ client[L[g[s].conn].of].link = g[s].conn =>
            Fits(L[g[s].conn], client[L[g[s].conn].of], ph, st, g[s].loaded)
    BY <2>1, Zenon DEF InLine, Used
  <2>3. InLine(L, g, ph, st) <=>
          \A s \in Seats : g[s].conn # 0 /\ L[g[s].conn].open
                             /\ client[L[g[s].conn].of].link = g[s].conn =>
            Fits(L[g[s].conn], client[L[g[s].conn].of], ph, st, g[s].loaded)
    BY Zenon DEF InLine, Used
  <2> QED  BY <2>1, <2>2, <2>3, Zenon
<1>9. GuestsInv(guest, joins, phase, Len(links))'
  BY <1>2 DEF GuestsInv
<1>10. client' \in [People -> ClientRecord] /\ Len(links') <= world.links
  BY <1>2 DEF IInv
<1> QED  BY <1>3, <1>4, <1>5, <1>6, <1>7, <1>8, <1>9, <1>10 DEF IInv

\* A step in which nothing is said, and which reads no report.
LEMMA QuietStep ==
  ASSUME IInv, LobbyAssumption, world' = world, client' = client, phase' = phase, joins' = joins,
         starts' = starts, presses' \in 0 .. world.presses, faults' \in 0 .. world.faults,
         hostLoaded' \in BOOLEAN, starting' \in 0 .. joins,
         NEW g, guest' = g, GuestsInv(g, joins, phase, Len(links)), Left(g),
         NEW x, leader' = x, First(g, x),
         NEW L, links' = L, Fine(L, guest, joins, starts), Untouched(L), Unheard(L),
         world.lobby /\ phase = "Loading" => Gathered(g)
  PROVE  IInv'
<1>1. joins \in Nat /\ starts \in 0 .. world.starts /\ phase \in Phases /\ starts \in Nat
      /\ links \in Seq(LinkRecord)
  BY WorldFields DEF IInv
<1>2. \A s \in Seats : g[s].conn # 0 => \E t \in Seats : guest[t].conn = g[s].conn
  BY DEF Left
<1>3. Fine(L, g, joins, starts)
  BY <1>2, FineLeft
<1>4. world.pause => InLine(L, g, phase, starts)
  BY InLineQuiet
<1> QED
  <2>1. joins <= joins /\ starts <= starts /\ joins \in Nat /\ starts \in 0 .. world.starts
        /\ phase \in Phases
    BY <1>1
  <2> QED  BY <1>3, <1>4, <2>1, RoomStep

\* Guests who are thinner are left.
LEMMA ThinIsLeft ==
  ASSUME NEW g, Thin(guest, g)
  PROVE  Left(g)
BY DEF Thin, Left

\* cancel_with, for those who are left.
LEMMA CancelStep ==
  ASSUME IInv, LobbyAssumption, world' = world, client' = client, joins' = joins,
         starts' = starts, presses' \in 0 .. world.presses, faults' \in 0 .. world.faults,
         starting' = starting, phase = "Loading",
         NEW g, Thin(guest, g), NEW x, leader' = x, First(g, x),
         NEW L, Fine(L, guest, joins, starts), Untouched(L), CancelsWith(g, L)
  PROVE  IInv'
<1>1. joins \in Nat /\ starts \in 0 .. world.starts /\ starts \in Nat /\ starting \in 0 .. joins
      /\ links \in Seq(LinkRecord) /\ Len(links) \in Nat
      /\ GuestsInv(guest, joins, phase, Len(links))
  BY WorldFields DEF IInv
<1>2. PICK m \in Downs : m = [type |-> "Cancel"]
  BY DownKinds
<1>3. Known(m, joins, starts)
  BY <1>2 DEF Known
<1>4. PICK h : h = Unloaded(g)
  OBVIOUS
<1>5. PICK M : M = ToGuests(g, m, L)
  OBVIOUS
<1>6. /\ phase' = "Room" /\ hostLoaded' = FALSE /\ guest' = h /\ links' = M
  BY <1>2, <1>4, <1>5 DEF CancelsWith, Unloaded
<1>7. GuestsInv(g, joins, "Loading", Len(links))
  BY <1>1, ThinGuests
<1>8. /\ Thin(g, h)
      /\ \A s \in Seats : /\ h[s].key = g[s].key /\ h[s].conn = g[s].conn
                          /\ h[s].reserved = g[s].reserved /\ h[s].game = g[s].game
                          /\ h[s].loaded = FALSE
  <2>1. g \in [Seats -> GuestRecord]
    BY <1>7 DEF GuestsInv
  <2>2. \A s \in Seats : g[s].held => g[s].conn = 0 /\ ~g[s].reserved
    BY <1>7 DEF GuestsInv
  <2>3. Thin(g, h) /\ Loadless(g, h)
    BY <1>4, <2>1, <2>2, UnloadedIsThin, Zenon
  <2> QED  BY <2>3 DEF Loadless
<1>9. GuestsInv(h, joins, "Room", Len(links))
  <2>1. (\E s \in Seats : h[s].loaded) => "Room" # "Room"
    BY <1>8
  <2> QED  BY <1>1, <1>7, <1>8, <2>1, ThinGuests
<1>10. First(h, x)
  BY <1>8, StillFirst
<1>11. Fine(L, g, joins, starts)
  <2>1. \A s \in Seats : g[s].conn # 0 => \E t \in Seats : guest[t].conn = g[s].conn
    BY DEF Thin
  <2> QED  BY <2>1, FineLeft
<1>12. Fine(M, g, joins, starts)
  BY <1>1, <1>3, <1>5, <1>11, FineTold
<1>13. Fine(M, h, joins, starts)
  <2>1. \A s \in Seats : h[s].conn # 0 => \E t \in Seats : g[t].conn = h[s].conn
    BY <1>8
  <2> QED  BY <1>12, <2>1, FineLeft
<1>14. world.pause => InLine(M, h, "Room", starts)
  <2> SUFFICES ASSUME world.pause, NEW s \in Seats, h[s].conn # 0, Used(h[s].conn, M)
               PROVE  Fits(M[h[s].conn], client[M[h[s].conn].of], "Room", starts, h[s].loaded)
    BY DEF InLine
  <2>1. PICK l : l = g[s].conn
    OBVIOUS
  <2>2. h[s].conn = l /\ l # 0 /\ guest[s].conn = l /\ Used(l, M)
    BY <1>8, <2>1 DEF Thin
  <2>3. /\ M[l].of = links[l].of /\ M[l].down = Append(links[l].down, m)
        /\ links[l].down \in Seq(Downs)
        /\ Fits(links[l], client[links[l].of], phase, starts, guest[s].loaded)
    <3>1. Untouched(L) /\ g[s].conn = l
      BY <2>1
    <3>2. SaidAt(l, L, M, m, guest[s].loaded)
      BY <1>3, <1>5, <1>11, <2>2, <3>1, SaidToGuests, Zenon
    <3> QED  BY <3>2 DEF SaidAt
  <2>4. Fits(M[l], client[links[l].of], "Room", starts, h[s].loaded)
    BY <1>2, <2>3, FitsCancelled
  <2> QED  BY <2>2, <2>3, <2>4
<1>15. "Room" \in Phases /\ "Room" # "Loading"
  BY DEF Phases
<1> QED
  <2>1. joins <= joins /\ starts <= starts /\ joins \in Nat /\ starts \in 0 .. world.starts
    BY <1>1
  <2>2. starting' \in 0 .. joins /\ hostLoaded' \in BOOLEAN
    BY <1>1, <1>6
  <2>3. "Room" \in Phases /\ (world.lobby /\ "Room" = "Loading" => Gathered(h))
    BY <1>15
  <2>4. phase' = "Room" /\ guest' = h /\ links' = M
    BY <1>6
  <2> QED  BY <1>9, <1>10, <1>13, <1>14, <2>1, <2>2, <2>3, <2>4, RoomStep

\* remove_guest: the links are those before the closing.
LEMMA RemovesStep ==
  ASSUME IInv, LobbyAssumption, world' = world, client' = client,
         presses' \in 0 .. world.presses, faults' \in 0 .. world.faults,
         NEW s \in Seats, NEW told \in Words, NEW lk, Fine(lk, guest, joins, starts),
         Untouched(lk), Unheard(lk), Removes(s, told, lk)
  PROVE  IInv'
<1>1. /\ joins \in Nat /\ starts \in 0 .. world.starts /\ starting \in 0 .. joins
      /\ links \in Seq(LinkRecord) /\ Len(links) \in Nat /\ hostLoaded \in BOOLEAN
      /\ GuestsInv(guest, joins, phase, Len(links)) /\ phase \in Phases
  BY WorldFields DEF IInv
<1>2. PICK g : g = [guest EXCEPT ![s] = NoGuest]
  OBVIOUS
<1>3. PICK lc : lc = Closed(guest[s].conn, told, lk)
  OBVIOUS
<1>4. /\ leader' = Elected(g)
      /\ phase = "Loading" => CancelsWith(g, lc)
      /\ phase # "Loading" => /\ guest' = g /\ links' = lc
                              /\ phase' = phase /\ hostLoaded' = hostLoaded
      /\ starting' = starting /\ joins' = joins /\ starts' = starts
  BY <1>2, <1>3 DEF Removes
<1>5. Thin(guest, g) /\ g = [t \in Seats |-> IF t \in {s} THEN NoGuest ELSE guest[t]]
  <2>1. g = [t \in Seats |-> IF t \in {s} THEN NoGuest ELSE guest[t]]
    BY <1>1, <1>2, GoneIsThin
  <2> QED  BY <1>1, <2>1, GoneIsThin
<1>6. First(g, Elected(g))
  BY <1>5, ElectedIsFirst DEF Thin
<1>7. guest[s].conn \in 0 .. Len(links)
  <2>1. guest[s].conn \in Nat /\ guest[s].conn <= Len(links)
    BY <1>1, GuestFields DEF GuestsInv
  <2> QED  BY <1>1, <2>1
<1>8. /\ Fine(lc, guest, joins, starts)
      /\ guest[s].conn # 0 => lc[guest[s].conn].open = FALSE
      /\ \A l \in DOMAIN links : l # guest[s].conn => lc[l] = lk[l]
  <2>1. PICK k \in 0 .. Len(links) : k = guest[s].conn
    BY <1>7
  <2>2. links \in Seq(LinkRecord) /\ lc = Closed(k, told, lk) /\ k \in 0 .. Len(links)
        /\ told \in Words /\ Fine(lk, guest, joins, starts)
    BY <1>1, <1>3, <2>1
  <2>3. Fine(lc, guest, joins, starts) /\ ShutAt(k, lk, lc)
    BY <2>2, FineClosed, Zenon
  <2> QED  BY <2>1, <2>3 DEF ShutAt
<1>9. Untouched(lc) /\ Unheard(lc)
  <2>1. \A l \in DOMAIN links : l # 0
    BY <1>1
  <2>2. \A l \in DOMAIN links : lc[l].open => lc[l] = lk[l]
    BY <1>8, <2>1
  <2> QED  BY <2>2 DEF Untouched, Unheard
<1>10. CASE phase = "Loading"
  BY <1>4, <1>5, <1>6, <1>8, <1>9, <1>10, CancelStep
<1>11. CASE phase # "Loading"
  <2>1. GuestsInv(g, joins, phase, Len(links))
    <3>1. (\E t \in Seats : g[t].loaded) => phase # "Room"
      BY <1>1, <1>5 DEF GuestsInv, Thin
    <3> QED  BY <1>1, <1>5, <3>1, ThinGuests
  <2>2. Left(g)
    BY <1>5, ThinIsLeft
  <2>3. phase' = phase /\ guest' = g /\ links' = lc /\ hostLoaded' \in BOOLEAN /\ starting' \in 0 .. joins
    BY <1>1, <1>4, <1>11
  <2> QED  BY <1>4, <1>6, <1>8, <1>9, <1>11, <2>1, <2>2, <2>3, QuietStep
<1> QED  BY <1>10, <1>11

\* The links of this state are fine, and nothing has happened to them.
LEMMA FineHere ==
  ASSUME IInv, LobbyAssumption
  PROVE  /\ Fine(links, guest, joins, starts) /\ Untouched(links) /\ Unheard(links)
         /\ GuestsInv(guest, joins, phase, Len(links)) /\ Left(guest) /\ First(guest, leader)
         /\ presses \in 0 .. world.presses /\ faults \in 0 .. world.faults
         /\ hostLoaded \in BOOLEAN /\ starting \in 0 .. joins
         /\ (world.lobby /\ phase = "Loading" => Gathered(guest))
BY DEF IInv, Untouched, Unheard, Left

\* check_all_loaded, when the guests and the links in it are in line.
LEMMA AllLoadedStep ==
  ASSUME IInv, LobbyAssumption, world' = world, client' = client, joins' = joins,
         starts' = starts, presses' \in 0 .. world.presses, faults' \in 0 .. world.faults,
         starting' = starting, leader' = leader, phase = "Loading",
         NEW g, GuestsInv(g, joins, phase, Len(links)),
         \A s \in Seats : /\ g[s].key = guest[s].key /\ g[s].conn = guest[s].conn
                          /\ g[s].reserved = guest[s].reserved /\ g[s].game = guest[s].game,
         NEW hl \in BOOLEAN, NEW L, Fine(L, guest, joins, starts), Untouched(L),
         world.pause => InLine(L, g, phase, starts),
         ChecksAllLoaded(g, hl, L)
  PROVE  IInv'
<1>1. /\ joins \in Nat /\ starts \in 0 .. world.starts /\ starting \in 0 .. joins
      /\ links \in Seq(LinkRecord) /\ Len(links) \in Nat /\ joins <= joins /\ starts <= starts
  BY WorldFields DEF IInv
<1>2. First(g, leader)
  BY FineHere, StillFirst
<1>3. Fine(L, g, joins, starts)
  <2>1. \A s \in Seats : g[s].conn # 0 => \E t \in Seats : guest[t].conn = g[s].conn
    OBVIOUS
  <2> QED  BY <2>1, FineLeft
<1>4. guest' = g /\ hostLoaded' = hl /\ starting' \in 0 .. joins
  BY <1>1 DEF ChecksAllLoaded
<1>5. world.lobby /\ phase = "Loading" => Gathered(g)
  BY FineHere DEF Gathered
<1>6. CASE ~AllLoaded(g, hl)
  <2>1. phase' = phase /\ links' = L /\ phase \in Phases
    BY <1>6 DEF ChecksAllLoaded, IInv
  <2> QED  BY <1>1, <1>2, <1>3, <1>4, <1>5, <2>1, RoomStep
<1>7. CASE AllLoaded(g, hl)
  <2>1. PICK m \in Downs : m = [type |-> "Begin"]
    BY DownKinds
  <2>2. PICK M : M = ToGuests(g, m, L)
    OBVIOUS
  <2>3. phase' = "Begun" /\ links' = M /\ "Begun" \in Phases /\ "Begun" # "Loading"
    BY <1>7, <2>1, <2>2 DEF ChecksAllLoaded, Phases
  <2>4. Known(m, joins, starts)
    BY <2>1 DEF Known
  <2>5. Fine(M, g, joins, starts)
    BY <1>1, <1>3, <2>2, <2>4, FineTold, SMTT(40)
  <2>6. GuestsInv(g, joins, "Begun", Len(links))
    BY DEF GuestsInv
  <2>7. world.pause => InLine(M, g, "Begun", starts)
    <3> SUFFICES ASSUME world.pause, NEW s \in Seats, g[s].conn # 0, Used(g[s].conn, M)
                 PROVE  Fits(M[g[s].conn], client[M[g[s].conn].of], "Begun", starts, g[s].loaded)
      BY DEF InLine
    <3>1. PICK l : l = g[s].conn
      OBVIOUS
    <3>2. guest[s].conn = g[s].conn
      OBVIOUS
    <3>3. /\ M[l].of = links[l].of /\ Used(l, L)
          /\ M[l].down = Append(links[l].down, m)
          /\ L[l].down = links[l].down /\ L[l].of = links[l].of
          /\ links[l].down \in Seq(Downs)
      <4>1. guest[s].conn = l /\ g[s].conn = l /\ l # 0 /\ Used(l, M)
        BY <3>1, <3>2
      <4>2. SaidAt(l, L, M, m, guest[s].loaded)
        BY <1>3, <2>2, <2>4, <4>1, SaidToGuests, Zenon
      <4> QED  BY <4>2 DEF SaidAt
    <3>4. g[s].loaded
      BY <1>7 DEF AllLoaded
    <3>5. g[s].loaded = TRUE
      <4>1. g[s] \in GuestRecord
        BY DEF GuestsInv
      <4> QED  BY <3>4, <4>1, GuestFields
    <3>6. Fits(L[l], client[L[l].of], "Loading", starts, TRUE)
      BY <3>1, <3>3, <3>5 DEF InLine
    <3>7. Fits(M[l], client[L[l].of], "Begun", starts, g[s].loaded)
      <4>1. M[l].down = Append(L[l].down, [type |-> "Begin"]) /\ L[l].down \in Seq(Downs)
        BY <2>1, <3>3
      <4> QED  BY <3>6, <4>1, FitsBegun
    <3> QED  BY <3>1, <3>3, <3>7
  <2>8. world.lobby /\ "Begun" = "Loading" => Gathered(g)
    BY <2>3
  <2> QED  BY <1>1, <1>2, <1>4, <2>3, <2>5, <2>6, <2>7, <2>8, RoomStep
<1> QED  BY <1>6, <1>7

\* start().
LEMMA StartsStep ==
  ASSUME IInv, LobbyAssumption, world' = world, client' = client, presses' = presses,
         faults' = faults, phase = "Room", world.lobby => Gathered(guest), Starts
  PROVE  IInv'
<1>1. /\ joins \in Nat /\ starts \in 0 .. world.starts /\ starts \in Nat /\ world.starts \in Nat
      /\ links \in Seq(LinkRecord) /\ Len(links) \in Nat
      /\ GuestsInv(guest, joins, phase, Len(links)) /\ world.lobby \in BOOLEAN
  BY WorldFields DEF IInv
<1>2. PICK n \in Nat : n = starts + 1
  BY <1>1
<1>3. PICK m \in Downs : m = [type |-> "Start", start |-> n]
  BY DownKinds
<1>4. PICK M : M = ToGuests(guest, m, links)
  OBVIOUS
<1>5. PICK g : g = Unloaded(guest)
  OBVIOUS
<1>6. /\ starts < world.starts /\ starts' = n /\ phase' = "Loading" /\ starting' = 0
      /\ hostLoaded' = world.lobby /\ guest' = g /\ links' = M
      /\ leader' = leader /\ joins' = joins
  BY <1>2, <1>3, <1>4, <1>5 DEF Starts, Unloaded
<1>7. world.pause => \A s \in Connected :
       /\ \A i \in DOMAIN links[guest[s].conn].up : links[guest[s].conn].up[i].type # "Loaded"
       /\ \A i \in DOMAIN links[guest[s].conn].down : links[guest[s].conn].down[i].type # "Cancel"
  BY DEF Starts
<1>8. /\ Thin(guest, g)
      /\ \A s \in Seats : /\ g[s].key = guest[s].key /\ g[s].conn = guest[s].conn
                          /\ g[s].reserved = guest[s].reserved /\ g[s].game = guest[s].game
                          /\ g[s].loaded = FALSE
  <2>1. PICK f : f = guest
    OBVIOUS
  <2>2. f \in [Seats -> GuestRecord]
    BY <1>1, <2>1 DEF GuestsInv
  <2>3. \A s \in Seats : f[s].held => f[s].conn = 0 /\ ~f[s].reserved
    BY <1>1, <2>1 DEF GuestsInv
  <2>4. g = Unloaded(f)
    BY <1>5, <2>1
  <2>5. Thin(f, g) /\ Loadless(f, g)
    BY <2>2, <2>3, <2>4, UnloadedIsThin, Zenon
  <2> QED  BY <2>1, <2>5 DEF Loadless
<1>9. GuestsInv(g, joins, "Loading", Len(links))
  <2>1. (\E s \in Seats : g[s].loaded) => "Loading" # "Room"
    OBVIOUS
  <2> QED  BY <1>1, <1>8, <2>1, ThinGuests
<1>10. First(g, leader)
  BY <1>8, FineHere, StillFirst
<1>11. Known(m, joins, n)
  BY <1>3 DEF Known
<1>12. Fine(links, guest, joins, n)
  <2>1. joins <= joins /\ starts <= n
    BY <1>1, <1>2
  <2>2. \A s \in Seats : guest[s].conn # 0 => \E t \in Seats : guest[t].conn = guest[s].conn
    OBVIOUS
  <2> QED  BY <1>1, <2>1, <2>2, FineHere, FineGuests
<1>13. Fine(M, guest, joins, n)
  BY <1>1, <1>4, <1>11, <1>12, FineTold
<1>14. Fine(M, g, joins, n)
  <2>1. joins <= joins /\ n <= n
    BY <1>1, <1>2
  <2>2. \A s \in Seats : g[s].conn # 0 => \E t \in Seats : guest[t].conn = g[s].conn
    BY <1>8
  <2> QED  BY <1>1, <1>13, <2>1, <2>2, FineGuests
<1>15. world.pause => InLine(M, g, "Loading", n)
  <2> SUFFICES ASSUME world.pause, NEW s \in Seats, g[s].conn # 0, Used(g[s].conn, M)
               PROVE  Fits(M[g[s].conn], client[M[g[s].conn].of], "Loading", n, g[s].loaded)
    BY DEF InLine
  <2>1. PICK l : l = guest[s].conn
    OBVIOUS
  <2>2. g[s].conn = l /\ l # 0 /\ Used(l, M) /\ g[s].loaded = FALSE
    BY <1>8, <2>1
  <2>3. Untouched(links)
    BY FineHere
  <2>4. /\ M[l].of = links[l].of /\ M[l].up = links[l].up /\ M[l].down = Append(links[l].down, m)
        /\ links[l].down \in Seq(Downs)
        /\ Fits(links[l], client[links[l].of], phase, starts, guest[s].loaded)
    <3>1. guest[s].conn = l /\ Used(l, M)
      BY <2>1, <2>2
    <3>2. SaidAt(l, links, M, m, guest[s].loaded)
      BY <1>4, <1>11, <1>12, <2>2, <2>3, <3>1, SaidToGuests, Zenon
    <3> QED  BY <3>2 DEF SaidAt
  <2>5. s \in Connected
    BY <2>1, <2>2 DEF Connected
  <2>6. /\ \A i \in DOMAIN links[l].up : links[l].up[i].type # "Loaded"
        /\ \A i \in DOMAIN links[l].down : links[l].down[i].type # "Cancel"
    BY <1>7, <2>1, <2>5
  <2>7. Fits(M[l], client[links[l].of], "Loading", n, FALSE)
    BY <1>3, <2>4, <2>6, FitsStarted
  <2> QED  BY <2>2, <2>4, <2>7
<1>16. world.lobby /\ "Loading" = "Loading" => Gathered(g)
  BY <1>8 DEF Gathered
<1>17. n \in 0 .. world.starts /\ starts <= n /\ joins <= joins /\ starting' \in 0 .. joins
       /\ "Loading" \in Phases
  BY <1>1, <1>2, <1>6 DEF Phases
<1>18. presses' \in 0 .. world.presses /\ faults' \in 0 .. world.faults
  BY FineHere
<1> QED
  <2>1. phase' = "Loading" /\ hostLoaded' \in BOOLEAN /\ guest' = g /\ links' = M
        /\ leader' = leader /\ joins' = joins /\ starts' = n
    BY <1>1, <1>6
  <2> QED  BY <1>1, <1>9, <1>10, <1>14, <1>15, <1>16, <1>17, <1>18, <2>1, RoomStep

------------------------------------------------------------------------------
(* What the room hears *)

\* lk is what is left of the links when the first message of l is read.
ReadFrom(l, lk) ==
  /\ l \in DOMAIN links /\ links[l] \in LinkRecord /\ links[l].up[1] \in Ups
  /\ links[l].up \in Seq(Ups) /\ links[l].down \in Seq(Downs)
  /\ Fine(lk, guest, joins, starts) /\ Untouched(lk)
  /\ lk[l] = HeardLine(links[l]) /\ ~Greets(lk[l])
  /\ lk[l].of = links[l].of /\ lk[l].open = links[l].open /\ lk[l].up = Tail(links[l].up)
  /\ lk[l].down = links[l].down
  /\ \A i \in DOMAIN lk[l].up : lk[l].up[i].type # "Hello"
  /\ \A x \in DOMAIN links : x # l => lk[x] = links[x]

LEMMA ReadsOne ==
  ASSUME IInv, LobbyAssumption, NEW l \in DOMAIN links, links[l].up # <<>>,
         NEW lk, lk = [links EXCEPT ![l].up = Tail(@)]
  PROVE  /\ ReadFrom(l, lk)
         /\ links[l].up[1].type # "Loaded" => Unheard(lk)
<1>1. /\ links \in Seq(LinkRecord) /\ Fine(links, guest, joins, starts)
      /\ \A x \in DOMAIN links : links[x] \in LinkRecord
  BY WorldFields, FineLinks DEF IInv
<1>2. /\ Fine(lk, guest, joins, starts)
      /\ lk[l] = HeardLine(links[l]) /\ ~Greets(lk[l])
      /\ \A i \in DOMAIN lk[l].up : lk[l].up[i].type # "Hello"
      /\ \A x \in DOMAIN links : x # l => lk[x] = links[x]
  <2>1. PICK L : L = links
    OBVIOUS
  <2>2. links \in Seq(LinkRecord) /\ Fine(L, guest, joins, starts) /\ L[l].up # <<>>
        /\ lk = HeardLinks(l, L)
    BY <1>1, <2>1 DEF HeardLinks
  <2>3. Fine(lk, guest, joins, starts) /\ HeardAt(l, L, lk)
    BY <2>2, FineHeard
  <2> QED  BY <2>1, <2>3 DEF HeardAt
<1>3. PICK k \in LinkRecord : k = links[l]
  BY <1>1
<1>4. k.up \in Seq(Ups) /\ k.down \in Seq(Downs) /\ k.up # <<>>
  BY <1>3, LinkFields
<1>5. k.up[1] \in Ups
  BY <1>4, TailFacts
<1>6. /\ HeardLine(k).of = k.of /\ HeardLine(k).open = k.open
      /\ HeardLine(k).up = Tail(k.up) /\ HeardLine(k).down = k.down
  BY <1>4, HeardFields
<1>7. Untouched(lk)
  BY <1>2, <1>3, <1>6 DEF Untouched
<1>8. ReadFrom(l, lk)
  BY <1>2, <1>3, <1>4, <1>5, <1>6, <1>7 DEF ReadFrom
<1>9. ASSUME links[l].up[1].type # "Loaded" PROVE Unheard(lk)
  <2>1. \A ok : Reports(Tail(k.up), ok) <=> Reports(k.up, ok)
    BY <1>3, <1>4, <1>9, ReportsHeard
  <2> QED  BY <1>2, <1>3, <1>6, <2>1 DEF Unheard
<1> QED  BY <1>8, <1>9

\* A guest's link is one of the links.
LEMMA GuestsLink ==
  ASSUME IInv, LobbyAssumption, NEW s \in Seats
  PROVE  /\ guest[s] \in GuestRecord /\ guest[s].conn \in 0 .. Len(links)
         /\ guest[s].conn # 0 => guest[s].conn \in DOMAIN links
         /\ guest[s].key \in 0 .. joins
<1>1. /\ joins \in Nat /\ Len(links) \in Nat /\ DOMAIN links = 1 .. Len(links)
      /\ GuestsInv(guest, joins, phase, Len(links))
  BY WorldFields DEF IInv
<1>2. guest[s] \in GuestRecord /\ guest[s].conn <= Len(links) /\ guest[s].key <= joins
  BY <1>1 DEF GuestsInv
<1>3. guest[s].conn \in Nat /\ guest[s].key \in Nat
  BY <1>2, GuestFields
<1> QED  BY <1>1, <1>2, <1>3

\* A step of which the room remembers nothing.
LEMMA IdleStep ==
  ASSUME IInv, LobbyAssumption, world' = world, client' = client, UNCHANGED room,
         presses' = presses, faults' \in 0 .. world.faults,
         NEW L, links' = L, Fine(L, guest, joins, starts), Untouched(L), Unheard(L)
  PROVE  IInv'
<1>1. /\ phase' = phase /\ joins' = joins /\ starts' = starts /\ guest' = guest
      /\ leader' = leader /\ hostLoaded' \in BOOLEAN /\ starting' \in 0 .. joins
      /\ presses' \in 0 .. world.presses
  BY FineHere DEF room
<1> QED  BY <1>1, FineHere, QuietStep

\* Leave.
LEMMA LeaveStep ==
  ASSUME IInv, LobbyAssumption, NEW s \in Seats, HearsLeave(s)
  PROVE  IInv'
<1>1. PICK l : l = guest[s].conn
  OBVIOUS
<1>2. PICK lk : lk = [links EXCEPT ![l].up = Tail(@)]
  OBVIOUS
<1>3. /\ l # 0 /\ links[l].up # <<>> /\ links[l].up[1].type = "Leave"
      /\ Removes(s, <<>>, lk) /\ world' = world /\ client' = client
      /\ presses' = presses /\ faults' = faults
  BY <1>1, <1>2 DEF HearsLeave, Hears, bounds
<1>4. l \in DOMAIN links
  BY <1>1, <1>3, GuestsLink
<1>5. ReadFrom(l, lk) /\ Unheard(lk)
  BY <1>2, <1>3, <1>4, ReadsOne
<1>6. Fine(lk, guest, joins, starts) /\ Untouched(lk)
  BY <1>5 DEF ReadFrom
<1>7. presses' \in 0 .. world.presses /\ faults' \in 0 .. world.faults /\ <<>> \in Words
  BY <1>3, FineHere DEF Words
<1> QED  BY <1>3, <1>5, <1>6, <1>7, RemovesStep

\* StartRequest.
LEMMA StartRequestStep ==
  ASSUME IInv, LobbyAssumption, NEW s \in Seats, HearsStartRequest(s)
  PROVE  IInv'
<1>1. PICK l : l = guest[s].conn
  OBVIOUS
<1>2. PICK lk : lk = [links EXCEPT ![l].up = Tail(@)]
  OBVIOUS
<1>3. /\ l # 0 /\ links[l].up # <<>> /\ links[l].up[1].type = "StartRequest"
      /\ links' = lk /\ starting' \in {guest[s].key, starting}
      /\ phase' = phase /\ guest' = guest /\ leader' = leader /\ joins' = joins
      /\ starts' = starts /\ hostLoaded' = hostLoaded /\ world' = world /\ client' = client
      /\ presses' = presses /\ faults' = faults
  BY <1>1, <1>2 DEF HearsStartRequest, Hears, bounds
<1>4. l \in DOMAIN links
  BY <1>1, <1>3, GuestsLink
<1>5. ReadFrom(l, lk) /\ Unheard(lk)
  BY <1>2, <1>3, <1>4, ReadsOne
<1>6. Fine(lk, guest, joins, starts) /\ Untouched(lk)
  BY <1>5 DEF ReadFrom
<1>7. starting' \in 0 .. joins
  BY <1>3, FineHere, GuestsLink
<1>8. presses' \in 0 .. world.presses /\ faults' \in 0 .. world.faults /\ hostLoaded' \in BOOLEAN
  BY <1>3, FineHere
<1> QED  BY <1>3, <1>5, <1>6, <1>7, <1>8, FineHere, QuietStep

\* SeatMove.
LEMMA SeatMoveStep ==
  ASSUME IInv, LobbyAssumption, NEW s \in Seats, HearsSeatMove(s)
  PROVE  IInv'
<1>1. PICK l : l = guest[s].conn
  OBVIOUS
<1>2. PICK lk : lk = [links EXCEPT ![l].up = Tail(@)]
  OBVIOUS
<1>3. PICK m : m = links[l].up[1]
  BY SMTT(40)
<1>4. /\ l # 0 /\ links[l].up # <<>> /\ m.type = "SeatMove"
      /\ IF s = leader /\ m.guard = Seating /\ CanMove(m)
         THEN LET g == [guest EXCEPT ![m.from] = guest[m.to], ![m.to] = guest[m.from]]
              IN  guest' = g /\ leader' = Elected(g)
         ELSE UNCHANGED <<guest, leader>>
      /\ links' = lk /\ starting' = starting
      /\ phase' = phase /\ joins' = joins
      /\ starts' = starts /\ hostLoaded' = hostLoaded /\ world' = world /\ client' = client
      /\ presses' = presses /\ faults' = faults
  BY <1>1, <1>2, <1>3 DEF HearsSeatMove, Hears, bounds
<1>5. l \in DOMAIN links
  BY <1>1, <1>4, GuestsLink
<1>6. ReadFrom(l, lk) /\ Unheard(lk)
  BY <1>2, <1>3, <1>4, <1>5, ReadsOne
<1>7. Fine(lk, guest, joins, starts) /\ Untouched(lk) /\ m \in Ups
  BY <1>3, <1>6 DEF ReadFrom
<1>8. /\ presses' \in 0 .. world.presses /\ faults' \in 0 .. world.faults
      /\ hostLoaded' \in BOOLEAN /\ starting' \in 0 .. joins
  BY <1>4, FineHere
<1>9. CASE ~(s = leader /\ m.guard = Seating /\ CanMove(m))
  <2>1. guest' = guest /\ leader' = leader
    BY <1>4, <1>9
  <2> QED  BY <1>4, <1>6, <1>7, <1>8, <2>1, FineHere, QuietStep
<1>10. CASE s = leader /\ m.guard = Seating /\ CanMove(m)
  <2>1. m.from \in Seats /\ m.to \in Seats
    BY <1>4, <1>7, UpFields
  <2>2. PICK g : g = [guest EXCEPT ![m.from] = guest[m.to], ![m.to] = guest[m.from]]
    OBVIOUS
  <2>3. guest' = g /\ leader' = Elected(g) /\ phase = "Room"
    BY <1>4, <1>10, <2>2 DEF CanMove
  <2>4. GuestsInv(g, joins, phase, Len(links)) /\ Among(guest, g)
    <3>1. GuestsInv(guest, joins, phase, Len(links)) /\ m.from \in Seats /\ m.to \in Seats
          /\ g = Swapped(m.from, m.to, guest)
      BY <2>1, <2>2, FineHere DEF Swapped
    <3> QED  BY <3>1, SwappedGuests
  <2>5. Left(g)
    BY <2>4 DEF Left, Among
  <2>6. First(g, Elected(g))
    BY <2>4, ElectedIsFirst DEF GuestsInv
  <2>7. world.lobby /\ phase = "Loading" => Gathered(g)
    BY <2>3, SMTT(40)
  <2> QED  BY <1>4, <1>6, <1>7, <1>8, <2>3, <2>4, <2>5, <2>6, <2>7, QuietStep
<1> QED  BY <1>9, <1>10

\* Remove.
LEMMA RemoveStep ==
  ASSUME IInv, LobbyAssumption, NEW s \in Seats, HearsRemove(s)
  PROVE  IInv'
<1>1. PICK l : l = guest[s].conn
  OBVIOUS
<1>2. PICK lk : lk = [links EXCEPT ![l].up = Tail(@)]
  OBVIOUS
<1>3. PICK m : m = links[l].up[1]
  OBVIOUS
<1>4. /\ l # 0 /\ links[l].up # <<>> /\ m.type = "Remove"
      /\ IF s = leader /\ m.guard = Seating /\ CanRemove(m) THEN Removes(m.seat, Kicked, lk)
         ELSE links' = lk /\ UNCHANGED room
      /\ world' = world /\ client' = client /\ presses' = presses /\ faults' = faults
  BY <1>1, <1>2, <1>3 DEF HearsRemove, Hears, bounds
<1>5. l \in DOMAIN links
  BY <1>1, <1>4, GuestsLink
<1>6. ReadFrom(l, lk) /\ Unheard(lk)
  BY <1>2, <1>3, <1>4, <1>5, ReadsOne
<1>7. Fine(lk, guest, joins, starts) /\ Untouched(lk) /\ m \in Ups
  BY <1>3, <1>6 DEF ReadFrom
<1>8. presses' \in 0 .. world.presses /\ faults' \in 0 .. world.faults
  BY <1>4, FineHere
<1>9. CASE ~(s = leader /\ m.guard = Seating /\ CanRemove(m))
  BY <1>4, <1>6, <1>7, <1>8, <1>9, IdleStep
<1>10. CASE s = leader /\ m.guard = Seating /\ CanRemove(m)
  <2>1. m.seat \in Seats /\ Kicked \in Words /\ Removes(m.seat, Kicked, lk)
    BY <1>4, <1>7, <1>10, UpFields DEF Words
  <2> QED  BY <1>4, <1>6, <1>7, <1>8, <2>1, RemovesStep
<1> QED  BY <1>9, <1>10

\* Loaded.
LEMMA LoadedStep ==
  ASSUME IInv, LobbyAssumption, NEW s \in Seats, HearsLoaded(s)
  PROVE  IInv'
<1>1. PICK l : l = guest[s].conn
  OBVIOUS
<1>2. PICK lk : lk = [links EXCEPT ![l].up = Tail(@)]
  OBVIOUS
<1>3. PICK m : m = links[l].up[1]
  OBVIOUS
<1>4. /\ phase # "Begun" /\ l # 0 /\ links[l].up # <<>> /\ m.type = "Loaded"
      /\ IF phase # "Loading" THEN links' = lk /\ UNCHANGED <<guest, phase, hostLoaded>>
         ELSE IF m.ok THEN ChecksAllLoaded([guest EXCEPT ![s].loaded = TRUE], hostLoaded, lk)
         ELSE CancelsWith(guest, lk)
      /\ leader' = leader /\ starting' = starting /\ joins' = joins
      /\ starts' = starts /\ world' = world /\ client' = client
      /\ presses' = presses /\ faults' = faults
  BY <1>1, <1>2, <1>3 DEF HearsLoaded, Hears, bounds
<1>5. l \in DOMAIN links
  BY <1>1, <1>4, GuestsLink
<1>6. ReadFrom(l, lk)
  BY <1>2, <1>4, <1>5, ReadsOne
<1>7. Fine(lk, guest, joins, starts) /\ Untouched(lk) /\ m \in Ups
  BY <1>3, <1>6 DEF ReadFrom
<1>8. /\ presses' \in 0 .. world.presses /\ faults' \in 0 .. world.faults
      /\ starting' \in 0 .. joins /\ joins \in Nat /\ starts \in 0 .. world.starts
      /\ joins <= joins /\ starts <= starts
  BY <1>4, FineHere, WorldFields DEF IInv
<1>9. \A x \in DOMAIN links : lk[x].of = links[x].of /\ lk[x].down = links[x].down
                              /\ (Used(x, lk) => Used(x, links))
  BY <1>6 DEF ReadFrom, Used
<1>10. GuestsInv(guest, joins, phase, Len(links)) /\ phase \in Phases
  BY DEF IInv
<1>11. ASSUME world.pause, NEW t \in Seats, guest[t].conn # 0, Used(guest[t].conn, lk)
       PROVE  Fits(links[guest[t].conn], client[links[guest[t].conn].of], phase, starts,
                   guest[t].loaded)
  <2>1. guest[t].conn \in DOMAIN links
    BY <1>11, GuestsLink
  <2> QED  BY <1>9, <1>11, <2>1 DEF IInv, InLine
<1>12. CASE phase # "Loading"
  <2>1. phase = "Room" /\ links' = lk /\ guest' = guest /\ phase' = phase
        /\ hostLoaded' \in BOOLEAN
    BY <1>4, <1>10, <1>12, FineHere DEF Phases
  <2>2. world.pause => InLine(lk, guest, phase, starts)
    <3> SUFFICES ASSUME world.pause, NEW t \in Seats, guest[t].conn # 0, Used(guest[t].conn, lk)
                 PROVE  Fits(lk[guest[t].conn], client[lk[guest[t].conn].of], phase, starts,
                             guest[t].loaded)
      BY DEF InLine
    <3>1. PICK x \in DOMAIN links : x = guest[t].conn
      BY GuestsLink
    <3>2. Fits(links[x], client[links[x].of], "Room", starts, guest[t].loaded)
      BY <1>11, <2>1, <3>1
    <3>3. lk[x].of = links[x].of /\ lk[x].down = links[x].down
      BY <1>9
    <3>4. Fits(lk[x], client[links[x].of], "Room", starts, guest[t].loaded)
      BY <3>2, <3>3, FitsInTheRoom
    <3> QED  BY <2>1, <3>1, <3>3, <3>4
  <2>3. world.lobby /\ phase = "Loading" => Gathered(guest)
    BY <1>12
  <2> QED  BY <1>4, <1>7, <1>8, <1>10, <2>1, <2>2, <2>3, FineHere, RoomStep
<1>13. CASE phase = "Loading" /\ m.ok
  <2>1. PICK g : g = [guest EXCEPT ![s].loaded = TRUE]
    OBVIOUS
  <2>2. ChecksAllLoaded(g, hostLoaded, lk) /\ hostLoaded \in BOOLEAN
    BY <1>4, <1>13, <2>1, FineHere
  <2>3. /\ g \in [Seats -> GuestRecord]
        /\ \A t \in Seats : /\ g[t].key = guest[t].key /\ g[t].conn = guest[t].conn
                            /\ g[t].reserved = guest[t].reserved /\ g[t].game = guest[t].game
                            /\ g[t].held = guest[t].held
        /\ \A t \in Seats : t # s => g[t] = guest[t]
        /\ g[s].loaded = TRUE
    <3>1. guest \in [Seats -> GuestRecord]
      BY WorldFields
    <3>2. PICK a \in GuestRecord : a = guest[s]
      BY <3>1
    <3>3. PICK b : b = [a EXCEPT !.loaded = TRUE]
      OBVIOUS
    <3>4. /\ b \in GuestRecord /\ b.key = a.key /\ b.conn = a.conn /\ b.reserved = a.reserved
          /\ b.game = a.game /\ b.held = a.held /\ b.loaded = TRUE
      BY <3>3 DEF GuestRecord
    <3>5. g = [guest EXCEPT ![s] = b]
      BY <2>1, <3>2, <3>3
    <3> QED  BY <3>1, <3>2, <3>4, <3>5
  <2>4. GuestsInv(g, joins, phase, Len(links))
    BY <1>10, <1>13, <2>3 DEF GuestsInv
  <2>5. world.pause => InLine(lk, g, phase, starts)
    <3> SUFFICES ASSUME world.pause, NEW t \in Seats, g[t].conn # 0, Used(g[t].conn, lk)
                 PROVE  Fits(lk[g[t].conn], client[lk[g[t].conn].of], phase, starts,
                             g[t].loaded)
      BY DEF InLine
    <3>1. PICK x \in DOMAIN links : x = guest[t].conn /\ x = g[t].conn
      BY <2>3, GuestsLink
    <3>2. Fits(links[x], client[links[x].of], "Loading", starts, guest[t].loaded)
      BY <1>11, <1>13, <2>3, <3>1
    <3>3. lk[x].of = links[x].of /\ lk[x].down = links[x].down
      BY <1>9
    <3>4. CASE t = s
      <4>1. x = l /\ g[t].loaded = TRUE
        BY <1>1, <2>3, <3>1, <3>4
      <4>2. m.ok = TRUE
        BY <1>4, <1>7, <1>13, UpFields
      <4>3. /\ links[x].up \in Seq(Ups) /\ links[x].up # <<>> /\ links[x].up[1].type = "Loaded"
            /\ links[x].up[1].ok = TRUE /\ lk[x].up = Tail(links[x].up)
        BY <1>3, <1>4, <1>6, <4>1, <4>2 DEF ReadFrom
      <4>4. Fits(lk[x], client[links[x].of], "Loading", starts, TRUE)
        BY <3>2, <3>3, <4>3, FitsLoaded
      <4> QED  BY <1>13, <3>1, <3>3, <4>1, <4>4
    <3>5. CASE t # s
      <4>1. x # l /\ g[t] = guest[t]
        BY <1>1, <1>4, <1>10, <2>3, <3>1, <3>5 DEF GuestsInv
      <4>2. lk[x] = links[x]
        BY <1>6, <4>1 DEF ReadFrom
      <4> QED  BY <1>13, <3>1, <3>2, <4>1, <4>2
    <3> QED  BY <3>4, <3>5
  <2>6. phase = "Loading"
    BY <1>13
  <2> QED  BY <1>4, <1>7, <1>8, <2>2, <2>3, <2>4, <2>5, <2>6, AllLoadedStep
<1>14. CASE phase = "Loading" /\ ~m.ok
  <2>1. CancelsWith(guest, lk) /\ phase = "Loading"
    BY <1>4, <1>14
  <2>2. Thin(guest, guest)
    BY <1>10 DEF Thin, GuestsInv
  <2> QED  BY <1>4, <1>7, <1>8, <2>1, <2>2, FineHere, CancelStep
<1> QED  BY <1>12, <1>13, <1>14

\* The guests of this state, and all of them are left.
LEMMA ThinHere ==
  ASSUME IInv
  PROVE  Thin(guest, guest)
BY DEF IInv, Thin, GuestsInv

\* The rest of update().
LEMMA SeatEndsStep ==
  ASSUME IInv, LobbyAssumption, NEW s \in Seats, SeatEnds(s)
  PROVE  IInv'
<1>1. world' = world /\ client' = client /\ presses' = presses /\ faults' = faults
  BY DEF SeatEnds, bounds
<1>2. presses' \in 0 .. world.presses /\ faults' \in 0 .. world.faults
  BY <1>1, FineHere
<1>3. CASE guest[s].reserved \/ (world.lobby /\ phase = "Room")
  <2>1. PICK g : g = [guest EXCEPT ![s].conn = 0, ![s].game = FALSE,
                                   ![s].held = ~guest[s].reserved]
    OBVIOUS
  <2>2. /\ guest' = g /\ phase' = phase /\ leader' = leader /\ starting' = starting
        /\ joins' = joins /\ starts' = starts /\ hostLoaded' = hostLoaded /\ links' = links
    BY <1>3, <2>1 DEF SeatEnds
  <2>3. guest \in [Seats -> GuestRecord]
    BY WorldFields
  <2>4. PICK a \in GuestRecord : a = guest[s]
    BY <2>3
  <2>5. a.reserved \in BOOLEAN
    BY GuestFields
  <2>6. PICK b : b = [a EXCEPT !.conn = 0, !.game = FALSE, !.held = ~a.reserved]
    OBVIOUS
  <2>7. /\ b \in GuestRecord /\ b.key = a.key /\ b.conn = 0 /\ b.reserved = a.reserved
        /\ b.loaded = a.loaded /\ b.held = ~a.reserved
    BY <2>5, <2>6 DEF GuestRecord
  <2>8. g = [guest EXCEPT ![s] = b]
    BY <2>1, <2>3, <2>4, <2>6
  <2>9. /\ g \in [Seats -> GuestRecord] /\ g[s] = b
        /\ \A t \in Seats : t # s => g[t] = guest[t]
    BY <2>3, <2>7, <2>8
  <2>10. \A t \in Seats : g[t].held => g[t].conn = 0 /\ ~g[t].reserved
    BY <2>7, <2>9 DEF IInv, GuestsInv
  <2>11. Thin(guest, g)
    BY <2>4, <2>7, <2>9, <2>10 DEF Thin
  <2>12. GuestsInv(g, joins, phase, Len(links))
    <3>1. (\E t \in Seats : g[t].loaded) => phase # "Room"
      BY <2>11 DEF IInv, GuestsInv, Thin
    <3>2. joins \in Nat /\ Len(links) \in Nat /\ GuestsInv(guest, joins, phase, Len(links))
      BY WorldFields DEF IInv
    <3> QED  BY <2>11, <3>1, <3>2, ThinGuests
  <2>13. First(g, leader)
    <3>1. \A t \in Seats : g[t].key = guest[t].key /\ g[t].reserved = guest[t].reserved
      BY <2>4, <2>7, <2>9
    <3> QED  BY <3>1, FineHere, StillFirst
  <2>14. Left(g)
    BY <2>11, ThinIsLeft
  <2>15. world.lobby /\ phase = "Loading" => Gathered(g)
    <3> SUFFICES ASSUME world.lobby, phase = "Loading" PROVE Gathered(g)
      OBVIOUS
    <3>1. a.reserved /\ Gathered(guest)
      BY <1>3, <2>4, FineHere
    <3>2. b.key = 0
      BY <2>4, <2>7, <3>1 DEF Gathered
    <3> QED  BY <2>9, <3>1, <3>2 DEF Gathered
  <2> QED  BY <1>1, <1>2, <2>2, <2>12, <2>13, <2>14, <2>15, FineHere, QuietStep
<1>4. CASE ~(guest[s].reserved \/ (world.lobby /\ phase = "Room"))
  <2>1. Removes(s, <<>>, links) /\ <<>> \in Words
    BY <1>4 DEF SeatEnds, Words
  <2> QED  BY <1>1, <1>2, <2>1, FineHere, RemovesStep
<1> QED  BY <1>3, <1>4

LEMMA HoldRunsOutStep ==
  ASSUME IInv, LobbyAssumption, NEW s \in Seats, HoldRunsOut(s)
  PROVE  IInv'
<1>1. /\ world' = world /\ client' = client /\ presses' = presses /\ faults' = faults
      /\ Removes(s, <<>>, links) /\ <<>> \in Words
  BY DEF HoldRunsOut, bounds, Words
<1> QED  BY <1>1, FineHere, RemovesStep

LEMMA ReservationEndsStep ==
  ASSUME IInv, LobbyAssumption, NEW s \in Seats, ReservationEnds(s)
  PROVE  IInv'
<1>1. /\ world' = world /\ client' = client /\ presses' = presses /\ faults' = faults
      /\ Removes(s, Kicked, links) /\ Kicked \in Words
  BY DEF ReservationEnds, bounds, Words
<1> QED  BY <1>1, FineHere, RemovesStep

\* expire_orphans.
LEMMA OrphansEndStep ==
  ASSUME IInv, LobbyAssumption, OrphansEnd
  PROVE  IInv'
<1>1. PICK g : g = [s \in Seats |-> IF s \in Reserved(guest) THEN NoGuest ELSE guest[s]]
  OBVIOUS
<1>2. g = [s \in Seats |-> IF guest[s].reserved THEN NoGuest ELSE guest[s]]
  BY <1>1 DEF Reserved
<1>3. /\ phase = "Room" /\ guest' = g /\ leader' = Elected(g)
      /\ world' = world /\ client' = client /\ presses' = presses /\ faults' = faults
      /\ phase' = phase /\ starting' = starting /\ joins' = joins /\ starts' = starts
      /\ hostLoaded' = hostLoaded /\ links' = links
  BY <1>2 DEF OrphansEnd, bounds
<1>4. joins \in Nat /\ Len(links) \in Nat /\ GuestsInv(guest, joins, phase, Len(links))
  BY WorldFields DEF IInv
<1>5. Thin(guest, g)
  BY <1>1, <1>4, GoneIsThin
<1>6. GuestsInv(g, joins, phase, Len(links))
  <2>1. (\E t \in Seats : g[t].loaded) => phase # "Room"
    BY <1>4, <1>5 DEF GuestsInv, Thin
  <2> QED  BY <1>4, <1>5, <2>1, ThinGuests
<1>7. First(g, Elected(g)) /\ Left(g)
  BY <1>5, <1>6, ElectedIsFirst, ThinIsLeft DEF GuestsInv
<1>8. world.lobby /\ phase = "Loading" => Gathered(g)
  BY <1>3
<1> QED  BY <1>3, <1>6, <1>7, <1>8, FineHere, QuietStep

\* A link ends, and what is under way on it is lost or not.
EndedLinks(l, up, down) ==
  [links EXCEPT ![l] = [links[l] EXCEPT !.open = FALSE, !.up = up, !.down = down]]
LEMMA FineEnded ==
  ASSUME IInv, LobbyAssumption, NEW l \in DOMAIN links, NEW up, up \in {<<>>, links[l].up},
         NEW down, down \in {<<>>, links[l].down}, NEW L, L = EndedLinks(l, up, down)
  PROVE  Fine(L, guest, joins, starts) /\ Untouched(L) /\ Unheard(L)
<1>1. /\ links \in Seq(LinkRecord) /\ Fine(links, guest, joins, starts)
      /\ \A x \in DOMAIN links : links[x] \in LinkRecord
  BY WorldFields, FineLinks DEF IInv
<1>2. PICK k \in LinkRecord : k = links[l]
  BY <1>1
<1>3. PICK e : e = [k EXCEPT !.open = FALSE, !.up = up, !.down = down]
  OBVIOUS
<1>4. up \in {<<>>, k.up} /\ down \in {<<>>, k.down}
  BY <1>2
<1>5. up \in Seq(Ups) /\ down \in Seq(Downs)
  <2>1. k.up \in Seq(Ups) /\ k.down \in Seq(Downs)
    BY LinkFields
  <2>2. <<>> \in Seq(Ups) /\ <<>> \in Seq(Downs)
    OBVIOUS
  <2> QED  BY <1>4, <2>1, <2>2
<1>6. /\ e \in LinkRecord /\ e.of = k.of /\ e.open = FALSE
      /\ e.up = up /\ e.down = down
  BY <1>3, <1>5 DEF LinkRecord
<1>7. L = [links EXCEPT ![l] = e]
  BY <1>2, <1>3 DEF EndedLinks
<1>8. /\ DOMAIN L = DOMAIN links /\ L[l] = e /\ L = [x \in DOMAIN L |-> L[x]]
      /\ \A x \in DOMAIN links : x # l => L[x] = links[x]
  BY <1>1, <1>7
<1>9. \A x \in DOMAIN links : L[x] \in LinkRecord
  BY <1>1, <1>6, <1>8
<1>10. L \in Seq(LinkRecord) /\ Len(L) = Len(links)
  BY <1>1, <1>8, <1>9, Listed
<1>11. AnyLine(l, k, client[k.of], guest, joins, starts)
  BY <1>1, <1>2 DEF Fine
<1>12. AnyLine(l, e, client[e.of], guest, joins, starts) /\ (Greets(e) => Greets(k))
  <2>1. DOMAIN <<>> = {}
    OBVIOUS
  <2> QED  BY <1>4, <1>6, <1>11, <2>1 DEF AnyLine, Greets
<1>13. Fine(L, guest, joins, starts)
  <2>1. \A x \in DOMAIN links : /\ L[x].of = links[x].of
                                /\ Greets(L[x]) => Greets(links[x])
                                /\ L[x].open => links[x].open
    BY <1>2, <1>6, <1>8, <1>12
  <2>2. \A x \in DOMAIN L : AnyLine(x, L[x], client[L[x].of], guest, joins, starts)
    BY <1>1, <1>8, <1>12 DEF Fine
  <2> QED  BY <1>10, <2>1, <2>2 DEF Fine
<1>14. Untouched(L) /\ Unheard(L)
  BY <1>6, <1>8 DEF Untouched, Unheard
<1> QED  BY <1>13, <1>14

LEMMA SilenceStep ==
  ASSUME IInv, LobbyAssumption, NEW s \in Seats, Silence(s)
  PROVE  IInv'
<1>1. PICK l : l = guest[s].conn
  OBVIOUS
<1>2. PICK L : L = [links EXCEPT ![l].open = FALSE]
  OBVIOUS
<1>3. /\ l # 0 /\ links' = L /\ UNCHANGED room
      /\ world' = world /\ client' = client /\ presses' = presses /\ faults' = faults
  BY <1>1, <1>2 DEF Silence, bounds
<1>4. l \in DOMAIN links
  BY <1>1, <1>3, GuestsLink
<1>5. L = EndedLinks(l, links[l].up, links[l].down)
  <2>1. links[l] \in LinkRecord
    BY <1>4, WorldFields
  <2>2. [links[l] EXCEPT !.open = FALSE]
           = [links[l] EXCEPT !.open = FALSE, !.up = links[l].up, !.down = links[l].down]
    BY <2>1 DEF LinkRecord
  <2> QED  BY <1>2, <2>2 DEF EndedLinks
<1>6. Fine(L, guest, joins, starts) /\ Untouched(L) /\ Unheard(L)
  BY <1>4, <1>5, FineEnded
<1> QED  BY <1>3, <1>6, FineHere, IdleStep

LEMMA BreaksStep ==
  ASSUME IInv, LobbyAssumption, NEW l \in DOMAIN links, Breaks(l)
  PROVE  IInv'
<1>1. PICK kept \in BOOLEAN :
        links' = [links EXCEPT ![l].open = FALSE, ![l].down = <<>>,
                               ![l].up = IF kept THEN @ ELSE <<>>]
  BY DEF Breaks
<1>2. PICK up \in {<<>>, links[l].up} : up = IF kept THEN links[l].up ELSE <<>>
  OBVIOUS
<1>3. PICK L : L = EndedLinks(l, up, <<>>)
  OBVIOUS
<1>4. links' = L
  <2>1. links \in Seq(LinkRecord) /\ links[l] \in LinkRecord
    BY WorldFields
  <2>2. [links[l] EXCEPT !.open = FALSE, !.down = <<>>, !.up = up]
           = [links[l] EXCEPT !.open = FALSE, !.up = up, !.down = <<>>]
    BY <2>1 DEF LinkRecord
  <2> QED  BY <1>1, <1>2, <1>3, <2>1, <2>2 DEF EndedLinks
<1>5. Fine(L, guest, joins, starts) /\ Untouched(L) /\ Unheard(L)
  BY <1>2, <1>3, FineEnded
<1>6. faults' \in 0 .. world.faults
  <2>1. faults \in 0 .. world.faults /\ faults < world.faults /\ faults' = faults + 1
        /\ world.faults \in Nat
    BY FineHere, WorldFields DEF Breaks, Fault
  <2> QED  BY <2>1
<1>7. UNCHANGED room /\ world' = world /\ client' = client /\ presses' = presses
  BY DEF Breaks
<1> QED  BY <1>4, <1>5, <1>6, <1>7, IdleStep

\* The start, and the host of a local room.
LEMMA LoadTimesOutStep ==
  ASSUME IInv, LobbyAssumption, LoadTimesOut
  PROVE  IInv'
<1>1. /\ phase = "Loading" /\ CancelsWith(guest, links) /\ world' = world /\ client' = client
      /\ leader' = leader /\ starting' = starting /\ joins' = joins /\ starts' = starts
      /\ presses' = presses /\ faults' = faults
  BY DEF LoadTimesOut, bounds
<1>2. presses' \in 0 .. world.presses /\ faults' \in 0 .. world.faults
  BY <1>1, FineHere
<1> QED  BY <1>1, <1>2, FineHere, ThinHere, CancelStep

LEMMA PumpsStartStep ==
  ASSUME IInv, LobbyAssumption, PumpsStart
  PROVE  IInv'
<1>1. world' = world /\ client' = client /\ presses' = presses /\ faults' = faults
  BY DEF PumpsStart, bounds
<1>2. CASE StillLeads /\ StartPossible /\ EveryoneInGame /\ Starts
  <2>1. phase = "Room" /\ Gathered(guest)
    BY <1>2 DEF StillLeads, EveryoneInGame, Taken, Gathered
  <2> QED  BY <1>1, <1>2, <2>1, StartsStep
<1>3. CASE EndStart
  <2>1. /\ starting' = 0 /\ phase' = phase /\ guest' = guest /\ leader' = leader
        /\ joins' = joins /\ starts' = starts /\ hostLoaded' = hostLoaded /\ links' = links
    BY <1>3 DEF EndStart
  <2>2. /\ presses' \in 0 .. world.presses /\ faults' \in 0 .. world.faults
        /\ hostLoaded' \in BOOLEAN /\ starting' \in 0 .. joins
    BY <1>1, <2>1, FineHere, WorldFields DEF IInv
  <2> QED  BY <1>1, <2>1, <2>2, FineHere, QuietStep
<1> QED  BY <1>2, <1>3 DEF PumpsStart

LEMMA OneFault ==
  ASSUME IInv, LobbyAssumption, Fault
  PROVE  faults' \in 0 .. world.faults
<1>1. faults \in 0 .. world.faults /\ faults < world.faults /\ faults' = faults + 1
      /\ world.faults \in Nat
  BY FineHere, WorldFields DEF Fault
<1> QED  BY <1>1

LEMMA HostStep ==
  ASSUME IInv, LobbyAssumption, OfTheHost
  PROVE  IInv'
<1>1. CASE HostStarts
  <2>1. /\ ~world.lobby /\ phase = "Room" /\ Starts
        /\ world' = world /\ client' = client /\ presses' = presses /\ faults' = faults
    BY <1>1 DEF HostStarts, bounds
  <2> QED  BY <2>1, StartsStep
<1>2. CASE HostLoads
  <2>1. /\ phase = "Loading" /\ ChecksAllLoaded(guest, TRUE, links)
        /\ world' = world /\ client' = client /\ presses' = presses /\ faults' = faults
        /\ leader' = leader /\ starting' = starting /\ joins' = joins /\ starts' = starts
    BY <1>2 DEF HostLoads, bounds
  <2>2. presses' \in 0 .. world.presses /\ faults' \in 0 .. world.faults /\ TRUE \in BOOLEAN
    BY <2>1, FineHere
  <2>3. world.pause => InLine(links, guest, phase, starts)
    BY DEF IInv
  <2> QED  BY <2>1, <2>2, <2>3, FineHere, AllLoadedStep
<1>3. CASE HostCancels
  <2>1. /\ phase = "Loading" /\ CancelsWith(guest, links) /\ Fault
        /\ world' = world /\ client' = client /\ presses' = presses
        /\ leader' = leader /\ starting' = starting /\ joins' = joins /\ starts' = starts
    BY <1>3 DEF HostCancels
  <2>2. presses' \in 0 .. world.presses /\ faults' \in 0 .. world.faults
    BY <2>1, FineHere, OneFault
  <2> QED  BY <2>1, <2>2, FineHere, ThinHere, CancelStep
<1>4. ASSUME NEW s \in Seats, HostKicks(s) PROVE IInv'
  <2>1. /\ Removes(s, Kicked, links) /\ Fault /\ Kicked \in Words
        /\ world' = world /\ client' = client /\ presses' = presses
    BY <1>4 DEF HostKicks, Words
  <2>2. presses' \in 0 .. world.presses /\ faults' \in 0 .. world.faults
    BY <2>1, FineHere, OneFault
  <2> QED  BY <2>1, <2>2, FineHere, RemovesStep
<1> QED  BY <1>1, <1>2, <1>3, <1>4 DEF OfTheHost

------------------------------------------------------------------------------
(* Hello *)

\* Whoever greets is nobody's link.
LEMMA GreetsFirst ==
  ASSUME IInv, LobbyAssumption, NEW l \in DOMAIN links, links[l].up # <<>>,
         links[l].up[1].type = "Hello", links[l].open
  PROVE  /\ links[l].down = <<>> /\ \A s \in Seats : guest[s].conn # l
         /\ client[links[l].of].link = l => client[links[l].of].phase = "Joining"
         /\ l \in Greeting(links) /\ l # 0
<1>1. AnyLine(l, links[l], client[links[l].of], guest, joins, starts)
  BY DEF IInv, Fine
<1>2. links[l] \in LinkRecord /\ l # 0
  BY WorldFields
<1>3. 1 \in DOMAIN links[l].up
  BY <1>2, LinkFields, TailFacts
<1> QED  BY <1>1, <1>2, <1>3 DEF AnyLine, Greeting, Greets

\* A link has new words, and only those.
WelcomedLinks(l, w, L) == [L EXCEPT ![l].down = w]
LEMMA FineWelcomed ==
  ASSUME links \in Seq(LinkRecord), NEW L, NEW g, NEW j, NEW st, Fine(L, g, j, st),
         NEW l \in DOMAIN links, \A i \in DOMAIN L[l].up : L[l].up[i].type # "Hello",
         NEW w \in Seq(Downs), \A i \in DOMAIN w : Known(w[i], j, st),
         NEW M, M = WelcomedLinks(l, w, L)
  PROVE  /\ Fine(M, g, j, st) /\ M[l].of = L[l].of /\ M[l].open = L[l].open /\ M[l].up = L[l].up
         /\ M[l].down = w /\ (\A x \in DOMAIN links : x # l => M[x] = L[x])
<1>1. /\ DOMAIN L = DOMAIN links /\ \A x \in DOMAIN L : L[x] \in LinkRecord
      /\ L \in Seq(LinkRecord)
  BY FineLinks DEF Fine
<1>2. PICK k \in LinkRecord : k = L[l]
  BY <1>1
<1>3. PICK e : e = [k EXCEPT !.down = w]
  OBVIOUS
<1>4. e \in LinkRecord /\ e.of = k.of /\ e.open = k.open /\ e.up = k.up /\ e.down = w
  BY <1>3 DEF LinkRecord
<1>5. M = [L EXCEPT ![l] = e]
  BY <1>2, <1>3 DEF WelcomedLinks
<1>6. /\ DOMAIN M = DOMAIN L /\ M[l] = e /\ M = [x \in DOMAIN M |-> M[x]]
      /\ \A x \in DOMAIN links : x # l => M[x] = L[x]
  BY <1>1, <1>5
<1>7. \A x \in DOMAIN L : M[x] \in LinkRecord
  BY <1>1, <1>4, <1>6
<1>8. M \in Seq(LinkRecord) /\ Len(M) = Len(L)
  BY <1>1, <1>6, <1>7, Listed
<1>9. AnyLine(l, e, client[e.of], g, j, st)
  BY <1>2, <1>4 DEF AnyLine
<1>10. \A x \in DOMAIN links : /\ M[x].of = links[x].of
                               /\ Greets(M[x]) => Greets(links[x])
                               /\ M[x].open => links[x].open
  BY <1>1, <1>2, <1>4, <1>6 DEF Fine, Greets
<1>11. \A x \in DOMAIN M : AnyLine(x, M[x], client[M[x].of], g, j, st)
  BY <1>1, <1>6, <1>9 DEF Fine
<1>12. Fine(M, g, j, st)
  BY <1>8, <1>10, <1>11 DEF Fine
<1> QED  BY <1>2, <1>4, <1>6, <1>12

\* The person of l has seat s: a is the guest, j the Welcomes, and n what he is told.
WelcomeWord(l, lk, n) ==
  IF Unread(l, lk) THEN <<>> ELSE <<[type |-> "Welcome", key |-> n]>>
LeaderThen(x, s, a, g) ==
  \/ First(guest, x) /\ a.key = guest[s].key /\ a.reserved = guest[s].reserved
  \/ x = Elected(g)
LEMMA SeatedStep ==
  ASSUME IInv, LobbyAssumption, phase = "Room", world' = world, client' = client,
         phase' = phase, starts' = starts, presses' = presses, faults' = faults,
         hostLoaded' = hostLoaded, starting' = starting,
         NEW l \in DOMAIN links, links[l].up # <<>>, links[l].up[1].type = "Hello",
         links[l].open, NEW lk, ReadFrom(l, lk), Unheard(lk),
         NEW lc, Fine(lc, guest, joins, starts), lc[l] = lk[l],
         \A x \in DOMAIN links : lc[x].open => lc[x] = lk[x],
         NEW s \in Seats, NEW a \in GuestRecord, a.conn = l, a.held = FALSE, a.loaded = FALSE,
         NEW j \in Nat, j \in {joins, joins + 1}, joins' = j, a.key <= j, Fresh(a, s, guest),
         NEW n \in Nat, n <= j, NEW w, w = WelcomeWord(l, lk, n), links' = WelcomedLinks(l, w, lc),
         NEW g, g = SeatedGuests(s, a, guest), guest' = g,
         NEW x, leader' = x, LeaderThen(x, s, a, g)
  PROVE  IInv'
<1>1. /\ links \in Seq(LinkRecord) /\ joins \in Nat /\ starts \in Nat /\ Len(links) \in Nat
      /\ DOMAIN links = 1 .. Len(links) /\ joins <= j /\ starts <= starts
      /\ starts \in 0 .. world.starts
      /\ GuestsInv(guest, joins, "Room", Len(links)) /\ guest \in [Seats -> GuestRecord]
  BY WorldFields DEF IInv
<1>2. /\ links[l].down = <<>> /\ \A t \in Seats : guest[t].conn # l
      /\ client[links[l].of].link = l => client[links[l].of].phase = "Joining"
      /\ l \in Greeting(links) /\ l # 0
  BY GreetsFirst
<1>3. GuestsInv(g, j, "Room", Len(links))
  <2>1. l <= Len(links)
    BY <1>1
  <2> QED  BY <1>1, <1>2, <2>1, GuestOnALink
<1>4. g[s] = a /\ \A t \in Seats : t # s => g[t] = guest[t]
  BY <1>1 DEF SeatedGuests
<1>5. First(g, x)
  <2>1. CASE x = Elected(g)
    BY <1>3, <2>1, ElectedIsFirst DEF GuestsInv
  <2>2. CASE First(guest, x) /\ a.key = guest[s].key /\ a.reserved = guest[s].reserved
    <3>1. \A t \in Seats : g[t].key = guest[t].key /\ g[t].reserved = guest[t].reserved
      BY <1>4, <2>2
    <3> QED  BY <2>2, <3>1, StillFirst
  <2> QED  BY <2>1, <2>2 DEF LeaderThen
<1>6. PICK m \in Downs : m = [type |-> "Welcome", key |-> n]
  BY DownKinds
<1>7. /\ w = IF Unread(l, lk) THEN <<>> ELSE <<m>>
      /\ Known(m, j, starts) /\ m.type = "Welcome"
  BY <1>6 DEF Known, WelcomeWord
<1>8. w \in Seq(Downs) /\ \A i \in DOMAIN w : Known(w[i], j, starts)
  <2>1. <<m>> \in Seq(Downs) /\ \A i \in DOMAIN <<m>> : <<m>>[i] = m
    OBVIOUS
  <2>2. <<>> \in Seq(Downs) /\ DOMAIN <<>> = {}
    OBVIOUS
  <2> QED  BY <1>7, <2>1, <2>2
<1>9. /\ \A i \in DOMAIN lk[l].up : lk[l].up[i].type # "Hello"
      /\ ~Greets(lk[l]) /\ lk[l].of = links[l].of /\ lk[l].open = links[l].open
      /\ \A y \in DOMAIN links : y # l => lk[y] = links[y]
      /\ lk[l].down = links[l].down /\ lk[l].up = Tail(links[l].up)
  BY DEF ReadFrom
<1>10. Fine(lc, g, j, starts)
  <2>1. \A y \in DOMAIN lc : AnyLine(y, lc[y], client[lc[y].of], guest, joins, starts)
    BY DEF Fine
  <2>2. Fine(lc, guest, j, starts)
    <3>1. \A t \in Seats : guest[t].conn # 0 => \E u \in Seats : guest[u].conn = guest[t].conn
      OBVIOUS
    <3> QED  BY <1>1, <3>1, FineGuests
  <2>3. ASSUME NEW y \in DOMAIN lc PROVE AnyLine(y, lc[y], client[lc[y].of], g, j, starts)
    <3>1. AnyLine(y, lc[y], client[lc[y].of], guest, j, starts)
      BY <2>2 DEF Fine
    <3>2. CASE y = l
      <4>1. \A i \in DOMAIN lc[y].up : lc[y].up[i].type # "Hello"
        <5>1. lc[y] = lk[l]
          BY <3>2
        <5> QED  BY <1>9, <5>1, ZenonT(60)
      <4> QED  BY <3>1, <4>1 DEF AnyLine
    <3>3. CASE y # l
      <4>1. (\A t \in Seats : guest[t].conn # y) => (\A t \in Seats : g[t].conn # y)
        BY <1>4, <3>3
      <4> QED  BY <3>1, <4>1 DEF AnyLine
    <3> QED  BY <3>2, <3>3
  <2> QED  BY <2>2, <2>3 DEF Fine
<1>11. PICK M : M = WelcomedLinks(l, w, lc)
  OBVIOUS
<1>12. /\ Fine(M, g, j, starts) /\ M[l].of = lc[l].of /\ M[l].open = lc[l].open
       /\ M[l].up = lc[l].up
       /\ M[l].down = w /\ \A y \in DOMAIN links : y # l => M[y] = lc[y]
  <2>1. \A i \in DOMAIN lc[l].up : lc[l].up[i].type # "Hello"
    BY <1>9
  <2> QED  BY <1>1, <1>8, <1>10, <1>11, <2>1, FineWelcomed
<1>13. world.pause => InLine(M, g, "Room", starts)
  <2> SUFFICES ASSUME world.pause, NEW t \in Seats, g[t].conn # 0, Used(g[t].conn, M)
               PROVE  Fits(M[g[t].conn], client[M[g[t].conn].of], "Room", starts, g[t].loaded)
    BY DEF InLine
  <2>1. CASE t = s
    <3>1. g[t].conn = l /\ M[l].of = links[l].of
      BY <1>4, <1>9, <1>12, <2>1
    <3>2. client[links[l].of].link = l
      BY <3>1 DEF Used
    <3>3. w = <<m>>
      BY <1>7, <1>9, <3>2 DEF Unread
    <3>4. One(<<m>>, "Welcome")
      BY <1>7 DEF One
    <3>5. client[links[l].of].phase = "Joining" /\ M[l].down = <<m>>
      BY <1>2, <1>12, <3>2, <3>3
    <3>6. Fits(M[l], client[links[l].of], "Room", starts, g[t].loaded)
      BY <3>4, <3>5 DEF Fits
    <3> QED  BY <3>1, <3>6
  <2>2. CASE t # s
    <3>1. PICK y : y = guest[t].conn
      OBVIOUS
    <3>2. g[t] = guest[t] /\ y # l /\ y # 0
      BY <1>2, <1>4, <2>2, <3>1
    <3>3. y \in DOMAIN links
      BY <3>1, <3>2, GuestsLink
    <3>4. M[y] = links[y]
      <4>1. M[y] = lc[y] /\ M[y].open
        BY <1>12, <3>1, <3>2, <3>3 DEF Used
      <4>2. lc[y] = lk[y]
        BY <3>3, <4>1
      <4> QED  BY <1>9, <3>2, <3>3, <4>1, <4>2
    <3>5. Used(guest[t].conn, links)
      BY <3>1, <3>2, <3>4 DEF Used
    <3>6. Fits(links[y], client[links[y].of], phase, starts, guest[t].loaded)
      BY <3>1, <3>2, <3>5 DEF IInv, InLine
    <3> QED  BY <3>1, <3>2, <3>4, <3>6
  <2> QED  BY <2>1, <2>2
<1>14. ~Greets(M[l])
  <2>1. M[l].up = lk[l].up
    BY <1>12
  <2> QED  BY <1>9, <2>1, Zenon DEF Greets
<1>15. /\ starting' \in 0 .. j /\ hostLoaded' \in BOOLEAN
       /\ presses' \in 0 .. world.presses /\ faults' \in 0 .. world.faults
  <2>1. starting \in 0 .. joins
    BY FineHere
  <2>2. starting' \in 0 .. j
    BY <1>1, <2>1
  <2> QED  BY <2>2, FineHere
<1>16. j = joins \/ (j = joins + 1 /\ \E y \in Greeting(links) : ~Greets(M[y]))
  BY <1>2, <1>14
<1>17. "Room" \in Phases /\ (world.lobby /\ "Room" = "Loading" => Gathered(g)) /\ phase' = "Room"
       /\ links' = M
  BY <1>11 DEF Phases
<1> QED  BY <1>1, <1>3, <1>5, <1>12, <1>13, <1>15, <1>16, <1>17, RoomStep

\* take_over.
LEMMA TakesOverStep ==
  ASSUME IInv, LobbyAssumption, phase = "Room", world' = world, client' = client,
         presses' = presses, faults' = faults,
         NEW l \in DOMAIN links, links[l].up # <<>>, links[l].up[1].type = "Hello",
         links[l].open, NEW lk, ReadFrom(l, lk), Unheard(lk), NEW s \in Taken,
         NEW h \in Ups, h.type = "Hello", TakesOver(s, l, h, lk)
  PROVE  IInv'
<1>1. PICK back : back = (guest[s].reserved /\ (~h.game \/ h.asks))
  OBVIOUS
<1>2. PICK b \in GuestRecord : b = guest[s]
  BY GuestsLink DEF Taken
<1>3. PICK a : a = [b EXCEPT !.conn = l, !.held = FALSE, !.game = h.game,
                             !.reserved = b.reserved /\ ~back]
  OBVIOUS
<1>4. l \in Nat /\ h.game \in BOOLEAN /\ b.reserved \in BOOLEAN /\ back \in BOOLEAN
  BY <1>1, <1>2, WorldFields, UpFields, GuestFields
<1>5. /\ a \in GuestRecord /\ a.conn = l /\ a.held = FALSE /\ a.key = b.key
      /\ a.loaded = b.loaded /\ a.reserved = (b.reserved /\ ~back)
  BY <1>3, <1>4 DEF GuestRecord
<1>6. b.loaded = FALSE
  <2>1. ~b.loaded
    BY <1>2 DEF IInv, GuestsInv, Taken
  <2> QED  BY <2>1, GuestFields
<1>7. PICK g : g = SeatedGuests(s, a, guest)
  OBVIOUS
<1>8. g = [guest EXCEPT ![s].conn = l, ![s].held = FALSE, ![s].game = h.game,
                        ![s].reserved = guest[s].reserved /\ ~back]
  <2>1. guest \in [Seats -> GuestRecord] /\ s \in Seats
    BY WorldFields DEF Taken
  <2> QED  BY <1>2, <1>3, <1>7, <2>1 DEF SeatedGuests
<1>9. PICK lc : lc = Closed(guest[s].conn, Kicked, lk)
  OBVIOUS
<1>10. PICK w : w = WelcomeWord(l, lk, b.key)
  OBVIOUS
<1>11. guest[s].conn # l /\ s \in Seats
  BY GreetsFirst DEF Taken
<1>12. /\ guest' = g
       /\ leader' = IF back THEN Elected(g) ELSE leader
       /\ links' = WelcomedLinks(l, w, lc)
       /\ phase' = phase /\ starting' = starting /\ joins' = joins /\ starts' = starts
       /\ hostLoaded' = hostLoaded
  <2>1. g = [guest EXCEPT ![s].conn = l, ![s].held = FALSE, ![s].game = h.game,
                          ![s].reserved = guest[s].reserved /\ ~(guest[s].reserved /\ (~h.game \/ h.asks))]
    BY <1>1, <1>8, Zenon
  <2>2. w = IF Unread(l, lk) THEN <<>> ELSE <<[type |-> "Welcome", key |-> guest[s].key]>>
    BY <1>2, <1>10, Zenon DEF WelcomeWord
  <2>3. lc = Closed(IF guest[s].conn = l THEN 0 ELSE guest[s].conn, Kicked, lk)
    BY <1>9, <1>11, Zenon
  <2>4. guest' = g
    BY <2>1, Zenon DEF TakesOver
  <2>5. links' = WelcomedLinks(l, w, lc)
    BY <2>2, <2>3, Zenon DEF TakesOver, WelcomedLinks
  <2>6. leader' = IF guest[s].reserved /\ (~h.game \/ h.asks) THEN Elected(g) ELSE leader
    <3> DEFINE e == [guest EXCEPT ![s].conn = l, ![s].held = FALSE, ![s].game = h.game,
                                  ![s].reserved = guest[s].reserved
                                                    /\ ~(guest[s].reserved /\ (~h.game \/ h.asks))]
    <3>1. leader' = IF guest[s].reserved /\ (~h.game \/ h.asks) THEN Elected(e) ELSE leader
      BY Zenon DEF TakesOver
    <3>2. e = g
      BY <2>1
    <3> HIDE DEF e
    <3> QED  BY <3>1, <3>2
  <2>7. leader' = IF back THEN Elected(g) ELSE leader
    BY <1>1, <2>6, Zenon
  <2>8. /\ phase' = phase /\ starting' = starting /\ joins' = joins /\ starts' = starts
        /\ hostLoaded' = hostLoaded
    BY Zenon DEF TakesOver
  <2> QED  BY <2>4, <2>5, <2>7, <2>8
<1>13. PICK x : x = IF back THEN Elected(g) ELSE leader
  OBVIOUS
<1>14. LeaderThen(x, s, a, g)
  <2>1. CASE back
    BY <1>13, <2>1 DEF LeaderThen
  <2>2. CASE ~back
    BY <1>2, <1>4, <1>5, <1>13, <2>2, FineHere DEF LeaderThen
  <2> QED  BY <2>1, <2>2
<1>15. Fine(lc, guest, joins, starts) /\ ShutAt(guest[s].conn, lk, lc)
  <2>1. PICK k \in 0 .. Len(links) : k = guest[s].conn
    BY <1>11, GuestsLink
  <2>2. links \in Seq(LinkRecord) /\ lc = Closed(k, Kicked, lk) /\ k \in 0 .. Len(links)
        /\ Kicked \in Words /\ Fine(lk, guest, joins, starts)
    BY <1>9, <2>1, WorldFields DEF ReadFrom, Words
  <2>3. Fine(lc, guest, joins, starts) /\ ShutAt(k, lk, lc)
    BY <2>2, FineClosed, Zenon
  <2> QED  BY <2>1, <2>3
<1>16. lc[l] = lk[l] /\ \A y \in DOMAIN links : lc[y].open => lc[y] = lk[y]
  <2>1. \A y \in DOMAIN links : y # 0
    BY WorldFields
  <2> QED  BY <1>11, <1>15, <2>1 DEF ShutAt
<1>17. b.key \in Nat /\ b.key <= joins /\ joins \in Nat /\ joins \in {joins, joins + 1}
       /\ a.key <= joins
  BY <1>2, <1>5, <1>11, GuestsLink DEF IInv
<1>18. Fresh(a, s, guest)
  BY <1>2, <1>5 DEF Fresh
<1>19. a.loaded = FALSE /\ leader' = x
  BY <1>5, <1>6, <1>12, <1>13
<1> QED  BY <1>5, <1>7, <1>10, <1>11, <1>12, <1>14, <1>15, <1>16, <1>17, <1>18, <1>19, SeatedStep

\* A guest who is new.
LEMMA SitsStep ==
  ASSUME IInv, LobbyAssumption, phase = "Room", world' = world, client' = client,
         presses' = presses, faults' = faults,
         NEW l \in DOMAIN links, links[l].up # <<>>, links[l].up[1].type = "Hello",
         links[l].open, NEW lk, ReadFrom(l, lk), Unheard(lk),
         NEW h \in Ups, h.type = "Hello", Sits(l, h, lk)
  PROVE  IInv'
<1>1. PICK s : s = Min(Seats \ Taken)
  OBVIOUS
<1>2. s \in Seats /\ guest[s].key = 0
  <2>1. PICK S : S = Seats \ Taken
    OBVIOUS
  <2>2. Cardinality(Seats) \in Nat
    BY LobbyAssumption, FS_CardinalityType
  <2>3. S \in SUBSET Nat /\ S # {}
    BY <2>1, <2>2, LobbyAssumption DEF Sits, Taken
  <2>4. \E n \in S : \A m \in S : n <= m
    BY <2>3, LeastNumber
  <2>5. Min(S) \in S
    BY <2>4 DEF Min
  <2>6. s \in S
    BY <1>1, <2>1, <2>5, Zenon
  <2> QED  BY <2>1, <2>6, Zenon DEF Taken
<1>3. PICK j \in Nat : j = joins + 1
  BY WorldFields DEF IInv
<1>4. PICK a : a = [NoGuest EXCEPT !.key = j, !.name = links[l].of, !.conn = l, !.game = h.game]
  OBVIOUS
<1>5. l \in Nat /\ h.game \in BOOLEAN /\ links[l].of \in People /\ joins \in Nat
  <2>1. links[l] \in LinkRecord
    BY DEF ReadFrom
  <2>2. l \in Nat /\ joins \in Nat
    BY WorldFields DEF IInv
  <2> QED  BY <2>1, <2>2, UpFields, LinkFields
<1>6. /\ a \in GuestRecord /\ a.conn = l /\ a.held = FALSE /\ a.key = j
      /\ a.loaded = FALSE
  <2>1. PICK o \in People, b \in BOOLEAN : o = links[l].of /\ b = h.game
    BY <1>5
  <2>2. a = [key |-> j, name |-> o, conn |-> l, loaded |-> FALSE, game |-> b, held |-> FALSE,
             reserved |-> FALSE]
    BY <1>4, <2>1 DEF NoGuest
  <2> HIDE <1>4
  <2>3. o \in Names
    BY DEF Names
  <2> QED  BY <1>5, <2>2, <2>3 DEF GuestRecord
<1>7. PICK g : g = SeatedGuests(s, a, guest)
  OBVIOUS
<1>8. PICK n \in Nat : n = IF world.lobby THEN j ELSE 0
  BY <1>3
<1>9. PICK w : w = WelcomeWord(l, lk, n)
  OBVIOUS
<1>10. /\ guest' = g /\ leader' = Elected(g) /\ joins' = j
       /\ links' = WelcomedLinks(l, w, lk)
       /\ phase' = phase /\ starting' = starting /\ starts' = starts
       /\ hostLoaded' = hostLoaded
  BY <1>1, <1>3, <1>4, <1>7, <1>8, <1>9 DEF Sits, SeatedGuests, WelcomedLinks, WelcomeWord
<1>11. LeaderThen(Elected(g), s, a, g)
  BY DEF LeaderThen
<1>12. Fine(lk, guest, joins, starts)
  BY DEF ReadFrom
<1>13. n <= j /\ j \in {joins, joins + 1} /\ a.key <= j
  BY <1>3, <1>6, <1>8
<1>14. Fresh(a, s, guest)
  <2>1. \A t \in Seats : guest[t].key \in 0 .. joins
    BY GuestsLink
  <2>2. \A t \in Seats : a.key # guest[t].key
    BY <1>3, <1>5, <1>6, <2>1
  <2> QED  BY <2>2 DEF Fresh
<1>15. lk[l] = lk[l] /\ \A y \in DOMAIN links : lk[y].open => lk[y] = lk[y]
  OBVIOUS
<1>16. links' = WelcomedLinks(l, w, lk) /\ joins' = j /\ leader' = Elected(g)
  BY <1>10
<1> QED  BY <1>2, <1>6, <1>7, <1>9, <1>10, <1>11, <1>12, <1>13, <1>14, <1>15, <1>16, SeatedStep

\* handle_hello.
LEMMA HelloStep ==
  ASSUME IInv, LobbyAssumption, NEW l \in DOMAIN links, HearsHello(l)
  PROVE  IInv'
<1>1. PICK h : h = links[l].up[1]
  OBVIOUS
<1>2. PICK lk : lk = [links EXCEPT ![l].up = Tail(@)]
  OBVIOUS
<1>3. PICK mine : mine = {s \in Taken : h.key # 0 /\ guest[s].key = h.key}
  OBVIOUS
<1>4. PICK running : running = (\/ phase # "Room" \/ starting # 0
                                \/ Reserved(guest) # {} /\ ~AnyoneBack)
  OBVIOUS
<1>5. /\ links[l].open /\ links[l].up # <<>> /\ h.type = "Hello" /\ links[l].up[1].type = "Hello"
      /\ world' = world /\ client' = client /\ presses' = presses /\ faults' = faults
  BY <1>1 DEF HearsHello, bounds
<1>6. ReadFrom(l, lk) /\ Unheard(lk)
  BY <1>2, <1>5, ReadsOne
<1>7. h \in Ups /\ Fine(lk, guest, joins, starts) /\ Untouched(lk)
  BY <1>1, <1>6 DEF ReadFrom
<1>8. \/ phase = "Room" /\ \E s \in mine : TakesOver(s, l, h, lk)
      \/ ~running /\ Sits(l, h, lk)
      \/ links' = Closed(l, Kicked, lk) /\ UNCHANGED room
  BY <1>1, <1>2, <1>3, <1>4 DEF HearsHello
<1>9. CASE phase = "Room" /\ \E s \in mine : TakesOver(s, l, h, lk)
  <2>1. PICK s \in Taken : TakesOver(s, l, h, lk)
    BY <1>3, <1>9
  <2> QED  BY <1>5, <1>6, <1>7, <1>9, <2>1, TakesOverStep
<1>10. CASE ~running /\ Sits(l, h, lk)
  <2>1. phase = "Room"
    BY <1>4, <1>10
  <2> QED  BY <1>5, <1>6, <1>7, <1>10, <2>1, SitsStep
<1>11. CASE links' = Closed(l, Kicked, lk) /\ UNCHANGED room
  <2>1. PICK lc : lc = Closed(l, Kicked, lk)
    OBVIOUS
  <2>2. l \in 0 .. Len(links) /\ links \in Seq(LinkRecord) /\ Kicked \in Words /\ l # 0
        /\ \A y \in DOMAIN links : y # 0
    BY WorldFields DEF Words
  <2>3. Fine(lc, guest, joins, starts) /\ ShutAt(l, lk, lc)
    BY <1>7, <2>1, <2>2, FineClosed, Zenon
  <2>4. \A y \in DOMAIN links : lc[y].open => lc[y] = links[y]
    BY <1>6, <2>2, <2>3 DEF ShutAt, ReadFrom
  <2>5. Untouched(lc) /\ Unheard(lc)
    BY <2>4 DEF Untouched, Unheard
  <2>6. links' = lc /\ faults' \in 0 .. world.faults
    BY <1>5, <1>11, <2>1, FineHere
  <2> QED  BY <1>5, <1>11, <2>3, <2>5, <2>6, IdleStep
<1> QED  BY <1>8, <1>9, <1>10, <1>11

\* All that the room does.
LEMMA TheRoomStep ==
  ASSUME IInv, LobbyAssumption, OfTheRoom
  PROVE  IInv'
<1>1. CASE \E l \in DOMAIN links : HearsHello(l)
  BY <1>1, HelloStep
<1>2. ASSUME NEW s \in Seats, \/ HearsGuest(s) \/ SeatEnds(s) \/ HoldRunsOut(s)
                              \/ ReservationEnds(s) \/ Silence(s)
      PROVE  IInv'
  <2>1. CASE HearsGuest(s)
    BY <2>1, LeaveStep, StartRequestStep, SeatMoveStep, RemoveStep, LoadedStep DEF HearsGuest
  <2> QED  BY <1>2, <2>1, SeatEndsStep, HoldRunsOutStep, ReservationEndsStep, SilenceStep
<1>3. CASE OrphansEnd \/ LoadTimesOut \/ PumpsStart
  BY <1>3, OrphansEndStep, LoadTimesOutStep, PumpsStartStep
<1> QED  BY <1>1, <1>2, <1>3 DEF OfTheRoom

------------------------------------------------------------------------------
(* The machines *)

\* What a step of the people has to keep: the links are L and the machines C.
Has(p, c, L) ==
  /\ c.key <= joins /\ c.start <= starts
  /\ c.link # 0 => c.link \in DOMAIN L /\ L[c.link].of = p
  /\ c.link = 0 => c.phase = "Off"
OnLine(L, C) ==
  \A s \in Seats :
    world.pause /\ guest[s].conn # 0 /\ L[guest[s].conn].open
      /\ C[L[guest[s].conn].of].link = guest[s].conn =>
        Fits(L[guest[s].conn], C[L[guest[s].conn].of], phase, starts, guest[s].loaded)
LEMMA PeopleStep ==
  ASSUME IInv, LobbyAssumption, UNCHANGED room, world' = world,
         presses' \in 0 .. world.presses, faults' \in 0 .. world.faults,
         NEW L \in Seq(LinkRecord), links' = L, Len(links) <= Len(L), Len(L) <= world.links,
         Joined', NEW C \in [People -> ClientRecord], client' = C,
         \A p \in People : Has(p, C[p], L),
         \A x \in DOMAIN L : AnyLine(x, L[x], C[L[x].of], guest, joins, starts),
         OnLine(L, C)
  PROVE  IInv'
<1>1. /\ phase' = phase /\ guest' = guest /\ leader' = leader /\ starting' = starting
      /\ joins' = joins /\ starts' = starts /\ hostLoaded' = hostLoaded
  BY DEF room
<1>2. First(guest, leader)'
  <2>1. MayLead(guest)' = MayLead(guest)
    BY <1>1 DEF MayLead, OfMatch, Reserved
  <2>2. First(guest, leader)
    BY FineHere
  <2> QED  BY <1>1, <2>1, <2>2 DEF First
<1>3. GuestsInv(guest, joins, phase, Len(links))'
  <2>1. \A s \in Seats : guest[s].conn \in 0 .. Len(links)
    BY GuestsLink
  <2>2. Len(links) \in Nat /\ Len(L) \in Nat
    BY WorldFields
  <2>3. \A s \in Seats : guest[s].conn <= Len(L)
    BY <2>1, <2>2
  <2> QED  BY <1>1, <2>3, FineHere DEF GuestsInv
<1>4. Fine(links, guest, joins, starts)'
  <2>1. \A x \in DOMAIN L : AnyLine(x, L[x], C[L[x].of], guest, joins, starts)
    OBVIOUS
  <2> QED  BY <1>1, <2>1 DEF Fine, AnyLine
<1>5. \A p \in People : ClientInv(p)'
  BY <1>1 DEF ClientInv, Has
<1>6. (world.pause => InLine(links, guest, phase, starts))'
  BY <1>1 DEF OnLine, InLine, Used
<1>7. (world.lobby /\ phase = "Loading" => Gathered(guest))'
  BY <1>1, FineHere DEF Gathered
<1> QED  BY <1>1, <1>2, <1>3, <1>4, <1>5, <1>6, <1>7 DEF IInv

\* Who has a link.
LEMMA HasALink ==
  ASSUME IInv, LobbyAssumption, NEW p \in People
  PROVE  /\ client[p] \in ClientRecord /\ Has(p, client[p], links)
         /\ client[p].key \in Nat /\ client[p].start \in Nat /\ client[p].link \in Nat
         /\ joins \in Nat /\ starts \in Nat
         /\ client[p].link # 0 =>
              /\ client[p].link \in DOMAIN links /\ links[client[p].link] \in LinkRecord
              /\ links[client[p].link].of = p
              /\ links[client[p].link].up \in Seq(Ups)
              /\ links[client[p].link].down \in Seq(Downs)
              /\ AnyLine(client[p].link, links[client[p].link], client[p], guest, joins, starts)
<1>1. client[p] \in ClientRecord /\ ClientInv(p) /\ joins \in Nat /\ starts \in Nat
  BY WorldFields DEF IInv
<1>2. Has(p, client[p], links)
  BY <1>1 DEF ClientInv, Has
<1>3. client[p].key \in Nat /\ client[p].start \in Nat /\ client[p].link \in Nat
  BY <1>1 DEF ClientRecord
<1>4. ASSUME client[p].link # 0
      PROVE  /\ client[p].link \in DOMAIN links /\ links[client[p].link] \in LinkRecord
             /\ links[client[p].link].of = p
             /\ links[client[p].link].up \in Seq(Ups)
             /\ links[client[p].link].down \in Seq(Downs)
             /\ AnyLine(client[p].link, links[client[p].link], client[p], guest, joins, starts)
  <2>1. client[p].link \in DOMAIN links /\ links[client[p].link].of = p
    BY <1>2, <1>4 DEF Has
  <2>2. links[client[p].link] \in LinkRecord
    BY <2>1, WorldFields
  <2>3. AnyLine(client[p].link, links[client[p].link], client[links[client[p].link].of], guest,
                joins, starts)
    BY <2>1 DEF IInv, Fine
  <2> QED  BY <2>1, <2>2, <2>3, LinkFields
<1> QED  BY <1>1, <1>2, <1>3, <1>4

\* A machine is c then, and its link k.
LinksWith(l, k) == [links EXCEPT ![l] = k]
ClientsWith(p, c) == [client EXCEPT ![p] = c]
FitsAll(l, k, c) ==
  \A s \in Seats : world.pause /\ guest[s].conn = l /\ k.open =>
    Fits(k, c, phase, starts, guest[s].loaded)
LEMMA MachineStep ==
  ASSUME IInv, LobbyAssumption, UNCHANGED room, world' = world,
         presses' \in 0 .. world.presses, faults' \in 0 .. world.faults,
         NEW p \in People, NEW l, l = client[p].link, l # 0,
         NEW c \in ClientRecord, c.link = l, c.key <= joins, c.start <= starts,
         client' = ClientsWith(p, c),
         NEW k \in LinkRecord, k.of = p, k.open => links[l].open,
         Greets(k) => Greets(links[l]), AnyLine(l, k, c, guest, joins, starts),
         links' = LinksWith(l, k), FitsAll(l, k, c)
  PROVE  IInv'
<1>1. /\ links \in Seq(LinkRecord) /\ Len(links) \in Nat /\ DOMAIN links = 1 .. Len(links)
      /\ joins \in Nat /\ client \in [People -> ClientRecord]
      /\ \A x \in DOMAIN links : links[x] \in LinkRecord
  BY WorldFields, FineLinks DEF IInv
<1>2. l \in DOMAIN links /\ links[l].of = p
  BY HasALink
<1>3. PICK L : L = LinksWith(l, k)
  OBVIOUS
<1>4. PICK C : C = ClientsWith(p, c)
  OBVIOUS
<1>5. /\ C \in [People -> ClientRecord] /\ C[p] = c
      /\ \A q \in People : q # p => C[q] = client[q]
  BY <1>1, <1>4 DEF ClientsWith
<1>6. /\ DOMAIN L = DOMAIN links /\ L[l] = k /\ L = [x \in DOMAIN L |-> L[x]]
      /\ \A x \in DOMAIN links : x # l => L[x] = links[x]
  BY <1>1, <1>2, <1>3 DEF LinksWith
<1>7. \A x \in DOMAIN links : L[x] \in LinkRecord
  BY <1>1, <1>6
<1>8. L \in Seq(LinkRecord) /\ Len(L) = Len(links)
  BY <1>1, <1>6, <1>7, Listed
<1>9. \A x \in DOMAIN links : L[x].of = links[x].of /\ (Greets(L[x]) => Greets(links[x]))
  BY <1>2, <1>6
<1>10. links' = L /\ client' = C
  BY <1>3, <1>4
<1>11. Joined'
  <2>1. joins' = joins
    BY DEF room
  <2> QED  BY <1>1, <1>8, <1>9, <1>10, <2>1, StillJoined
<1>12. ASSUME NEW q \in People PROVE Has(q, C[q], L)
  <2>1. Has(q, client[q], links)
    BY HasALink
  <2>2. CASE q = p
    BY <1>2, <1>5, <1>6, <2>2 DEF Has
  <2>3. CASE q # p
    BY <1>5, <1>6, <1>9, <2>1, <2>3 DEF Has
  <2> QED  BY <2>2, <2>3
<1>13. ASSUME NEW x \in DOMAIN L PROVE AnyLine(x, L[x], C[L[x].of], guest, joins, starts)
  <2>1. CASE x = l
    BY <1>5, <1>6, <2>1
  <2>2. CASE x # l
    <3>1. AnyLine(x, links[x], client[links[x].of], guest, joins, starts)
      BY <1>6 DEF IInv, Fine
    <3>2. L[x] = links[x] /\ links[x].of \in People
      BY <1>6, <1>7, <2>2, LinkFields
    <3>3. CASE links[x].of = p
      <4>1. C[L[x].of] = c /\ c.link # x
        BY <1>5, <2>2, <3>2, <3>3
      <4> QED  BY <3>1, <3>2, <4>1 DEF AnyLine
    <3>4. CASE links[x].of # p
      BY <1>5, <3>1, <3>2, <3>4
    <3> QED  BY <3>3, <3>4
  <2> QED  BY <2>1, <2>2
<1>14. OnLine(L, C)
  <2> SUFFICES ASSUME world.pause, NEW s \in Seats, NEW x, x = guest[s].conn, x # 0, L[x].open,
                      C[L[x].of].link = x
               PROVE  Fits(L[x], C[L[x].of], phase, starts, guest[s].loaded)
    BY DEF OnLine
  <2>1. x \in DOMAIN links
    BY GuestsLink
  <2>2. CASE x = l
    <3>1. Fits(k, c, phase, starts, guest[s].loaded)
      BY <1>6, <2>2 DEF FitsAll
    <3> QED  BY <1>5, <1>6, <2>2, <3>1
  <2>3. CASE x # l
    <3>1. L[x] = links[x] /\ links[x].of \in People
      BY <1>6, <1>7, <2>1, <2>3, LinkFields
    <3>2. links[x].of # p
      BY <1>5, <2>3, <3>1
    <3>3. C[L[x].of] = client[links[x].of] /\ Used(guest[s].conn, links)
      BY <1>5, <3>1, <3>2 DEF Used
    <3>4. Fits(links[x], client[links[x].of], phase, starts, guest[s].loaded)
      BY <3>3 DEF IInv, InLine
    <3> QED  BY <3>1, <3>3, <3>4
  <2> QED  BY <2>2, <2>3
<1>15. Len(links) <= Len(L) /\ Len(L) <= world.links
  BY <1>1, <1>8 DEF IInv
<1> QED  BY <1>5, <1>8, <1>10, <1>11, <1>12, <1>13, <1>14, <1>15, PeopleStep

\* Shorter by one.
LEMMA LessUnderWay ==
  ASSUME NEW d \in Seq(Downs), d # <<>>
  PROVE  /\ \A a : One(d, a) => Tail(d) = <<>> /\ d[1].type = a
         /\ \A a, b : Two(d, a, b) => One(Tail(d), b) /\ d[1].type = a /\ Tail(d)[1] = d[2]
         /\ \A a, b, e : Three(d, a, b, e) => Two(Tail(d), b, e) /\ d[1].type = a
<1>1. /\ Len(Tail(d)) = Len(d) - 1 /\ Len(d) \in Nat \ {0} /\ Tail(d) \in Seq(Downs)
      /\ \A i \in DOMAIN Tail(d) : Tail(d)[i] = d[i + 1]
  BY TailFacts
<1>2. PICK e \in Seq(Downs) : e = Tail(d)
  BY <1>1
<1>3. /\ Len(e) = Len(d) - 1 /\ Len(d) \in Nat \ {0} /\ DOMAIN e = 1 .. Len(e)
      /\ \A i \in 1 .. Len(e) : e[i] = d[i + 1]
  BY <1>1, <1>2
<1>4. Len(e) = 0 => e = <<>>
  BY <1>2, EmptySeq
<1>5. \A a : One(d, a) => e = <<>> /\ d[1].type = a
  BY <1>3, <1>4 DEF One
<1>6. \A a, b : Two(d, a, b) => One(e, b) /\ d[1].type = a /\ e[1] = d[2]
  BY <1>3 DEF One, Two
<1>7. \A a, b, f : Three(d, a, b, f) => Two(e, b, f) /\ d[1].type = a
  BY <1>3 DEF Two, Three
<1> QED  BY <1>2, <1>5, <1>6, <1>7

\* What a message makes of a machine.
Took(c, m) ==
  IF \/ m.type = "Welcome" /\ c.phase = "Joining"
     \/ m.type = "Reject"
     \/ m.type = "Start" /\ c.phase = "InRoom"
     \/ m.type = "Cancel" /\ c.phase \in {"Loading", "Loaded"}
     \/ m.type = "Begin" /\ c.phase = "Loaded"
  THEN CASE m.type = "Welcome" -> [c EXCEPT !.phase = "InRoom", !.key = m.key]
         [] m.type = "Reject" -> [c EXCEPT !.phase = "Off", !.start = 0]
         [] m.type = "Start" -> [c EXCEPT !.phase = "Loading", !.start = m.start]
         [] m.type = "Cancel" -> [c EXCEPT !.phase = "InRoom", !.start = 0]
         [] m.type = "Begin" -> [c EXCEPT !.phase = "Begun"]
  ELSE c
LEMMA TookFields ==
  ASSUME NEW c \in ClientRecord, NEW m \in Downs
  PROVE  LET e == Took(c, m)
         IN  /\ e \in ClientRecord /\ e.link = c.link
             /\ e.key = c.key \/ (m.type = "Welcome" /\ e.key = m.key)
             /\ e.start = c.start \/ e.start = 0 \/ (m.type = "Start" /\ e.start = m.start)
             /\ m.type = "Welcome" /\ c.phase = "Joining" => e.phase = "InRoom"
             /\ m.type = "Start" /\ c.phase = "InRoom" => e.phase = "Loading" /\ e.start = m.start
             /\ m.type = "Cancel" /\ c.phase \in {"InRoom", "Loading", "Loaded"} => e.phase = "InRoom"
             /\ m.type = "Begin" /\ c.phase = "Loaded" => e.phase = "Begun"
<1>1. CASE m.type = "Welcome"
  BY <1>1, DownFields DEF Took, ClientRecord
<1>2. CASE m.type = "Reject"
  BY <1>2, DownFields DEF Took, ClientRecord
<1>3. CASE m.type = "Start"
  BY <1>3, DownFields DEF Took, ClientRecord
<1>4. CASE m.type = "Cancel"
  BY <1>4, DownFields DEF Took, ClientRecord
<1>5. CASE m.type = "Begin"
  BY <1>5, DownFields DEF Took, ClientRecord
<1> QED  BY <1>1, <1>2, <1>3, <1>4, <1>5, DownFields

\* The machine reads one.
LEMMA FitsRead ==
  ASSUME NEW k, k.down \in Seq(Downs), k.down # <<>>, NEW c \in ClientRecord, NEW ph \in Phases,
         NEW st, NEW ld, Fits(k, c, ph, st, ld),
         NEW k2, k2.down = Tail(k.down), k2.up = k.up
  PROVE  Fits(k2, Took(c, k.down[1]), ph, st, ld)
<1>1. PICK d \in Seq(Downs) : d = k.down
  OBVIOUS
<1>2. PICK m \in Downs : m = d[1]
  BY <1>1, TailFacts
<1>3. PICK e : e = Took(c, m)
  OBVIOUS
<1>4. /\ m.type = "Welcome" /\ c.phase = "Joining" => e.phase = "InRoom"
      /\ m.type = "Start" /\ c.phase = "InRoom" => e.phase = "Loading" /\ e.start = m.start
      /\ m.type = "Cancel" /\ c.phase \in {"InRoom", "Loading", "Loaded"} => e.phase = "InRoom"
      /\ m.type = "Begin" /\ c.phase = "Loaded" => e.phase = "Begun"
  BY <1>3, TookFields
<1>5. /\ \A a : One(d, a) => k2.down = <<>> /\ m.type = a
      /\ \A a, b : Two(d, a, b) => One(k2.down, b) /\ m.type = a /\ k2.down[1] = d[2]
      /\ \A a, b, f : Three(d, a, b, f) => Two(k2.down, b, f) /\ m.type = a
  <2>1. d # <<>> /\ k2.down = Tail(d)
    BY <1>1
  <2>2. /\ \A a : One(d, a) => Tail(d) = <<>> /\ d[1].type = a
        /\ \A a, b : Two(d, a, b) => One(Tail(d), b) /\ d[1].type = a /\ Tail(d)[1] = d[2]
        /\ \A a, b, f : Three(d, a, b, f) => Two(Tail(d), b, f) /\ d[1].type = a
    BY <2>1, LessUnderWay, Zenon
  <2> QED  BY <1>2, <2>1, <2>2, Zenon
<1>6. \A ok \in BOOLEAN : Reports(k2.up, ok) <=> Reports(k.up, ok)
  OBVIOUS
<1>7. CASE ph = "Room"
  <2>1. \/ /\ c.phase = "Joining"
           /\ One(d, "Welcome") \/ Three(d, "Welcome", "Start", "Cancel")
        \/ /\ c.phase = "InRoom"
           /\ One(d, "Cancel") \/ Two(d, "Start", "Cancel")
        \/ c.phase \in {"Loading", "Loaded"} /\ One(d, "Cancel")
    BY <1>1, <1>7 DEF Fits
  <2>2. \/ /\ e.phase = "InRoom"
           /\ k2.down = <<>> \/ Two(k2.down, "Start", "Cancel")
        \/ e.phase = "Loading" /\ One(k2.down, "Cancel")
    BY <1>4, <1>5, <2>1
  <2> QED  BY <1>1, <1>2, <1>3, <1>7, <2>2 DEF Fits
<1>8. CASE ph = "Loading"
  <2>1. /\ \/ c.phase = "Joining" /\ Two(d, "Welcome", "Start") /\ d[2].start = st
           \/ c.phase = "InRoom" /\ One(d, "Start") /\ m.start = st
        /\ ~ld /\ ~Reports(k.up, TRUE)
    BY <1>1, <1>2, <1>8 DEF Fits
  <2>2. \/ e.phase = "InRoom" /\ One(k2.down, "Start") /\ k2.down[1].start = st
        \/ e.phase = "Loading" /\ k2.down = <<>> /\ e.start = st
    BY <1>4, <1>5, <2>1
  <2> QED  BY <1>1, <1>2, <1>3, <1>6, <1>8, <2>1, <2>2 DEF Fits
<1>9. CASE ph = "Begun"
  <2>1. c.phase = "Loaded" /\ One(d, "Begin")
    BY <1>1, <1>9 DEF Fits
  <2> QED  BY <1>1, <1>2, <1>3, <1>4, <1>5, <1>9, <2>1 DEF Fits
<1> QED  BY <1>7, <1>8, <1>9 DEF Phases

\* What the link of a guest carries.
LEMMA FitsHere ==
  ASSUME IInv, LobbyAssumption, NEW p \in People, NEW l, l = client[p].link, l # 0, links[l].open
  PROVE  FitsAll(l, links[l], client[p])
<1>1. links[l].of = p
  BY HasALink
<1> SUFFICES ASSUME NEW s \in Seats, world.pause, guest[s].conn = l
             PROVE  Fits(links[l], client[p], phase, starts, guest[s].loaded)
  BY DEF FitsAll
<1>2. Used(guest[s].conn, links)
  BY <1>1 DEF Used
<1> QED  BY <1>1, <1>2 DEF IInv, InLine

LEMMA ReadsStep ==
  ASSUME IInv, LobbyAssumption, NEW p \in People, Reads(p)
  PROVE  IInv'
<1>1. PICK l : l = client[p].link
  OBVIOUS
<1>2. /\ l # 0 /\ links[l].down # <<>>
  <2>1. client[p].phase # "Off" /\ links[l].down # <<>>
    BY <1>1 DEF Reads, Mine
  <2> QED  BY <1>1, <2>1, HasALink DEF Has
<1>3. PICK k \in LinkRecord : k = links[l]
  BY <1>1, <1>2, HasALink
<1>4. /\ client[p] \in ClientRecord /\ Has(p, client[p], links) /\ l \in DOMAIN links /\ k.of = p
      /\ k.up \in Seq(Ups) /\ k.down \in Seq(Downs) /\ k.down # <<>>
      /\ AnyLine(l, k, client[p], guest, joins, starts)
      /\ joins \in Nat /\ starts \in Nat
  BY <1>1, <1>2, <1>3, HasALink
<1>5. PICK m \in Downs : m = k.down[1]
  BY <1>4, TailFacts
<1>6. PICK c : c = Took(client[p], m)
  OBVIOUS
<1>7. /\ c \in ClientRecord /\ c.link = l
      /\ c.key = client[p].key \/ (m.type = "Welcome" /\ c.key = m.key)
      /\ c.start = client[p].start \/ c.start = 0 \/ (m.type = "Start" /\ c.start = m.start)
  BY <1>1, <1>4, <1>6, TookFields
<1>8. c.key <= joins /\ c.start <= starts
  <2>1. 1 \in DOMAIN k.down
    BY <1>4, TailFacts
  <2>2. Known(m, joins, starts)
    BY <1>4, <1>5, <2>1 DEF AnyLine
  <2>3. client[p].key <= joins /\ client[p].start <= starts
    BY <1>4 DEF Has
  <2> QED  BY <1>4, <1>7, <2>2, <2>3 DEF Known
<1>9. PICK e : e = [k EXCEPT !.down = Tail(k.down)]
  OBVIOUS
<1>10. /\ e \in LinkRecord /\ e.of = p /\ e.open = k.open /\ e.up = k.up
       /\ e.down = Tail(k.down)
  <2>1. Tail(k.down) \in Seq(Downs)
    BY <1>4, TailFacts
  <2> QED  BY <1>4, <1>9, <2>1 DEF LinkRecord
<1>11. /\ world' = world /\ UNCHANGED room /\ presses' = presses /\ faults' = faults
       /\ links' = LinksWith(l, e)
       /\ client' = ClientsWith(p, c)
  <2>1. /\ world' = world /\ UNCHANGED room /\ presses' = presses /\ faults' = faults
        /\ Takes(p, m)
        /\ links' = [links EXCEPT ![l].down = Tail(@)]
    BY <1>1, <1>3, <1>5 DEF Reads, Mine, bounds
  <2>2. links' = LinksWith(l, e)
    BY <1>3, <1>9, <2>1 DEF LinksWith
  <2>3. client' = ClientsWith(p, c)
    BY <1>6, <2>1, Zenon DEF Takes, Took, ClientsWith
  <2> QED  BY <2>1, <2>2, <2>3
<1>12. AnyLine(l, e, c, guest, joins, starts)
  <2>1. \A i \in DOMAIN k.up : k.up[i].type # "Hello"
    BY <1>4 DEF AnyLine
  <2>2. \A i \in DOMAIN e.down : i + 1 \in DOMAIN k.down /\ e.down[i] = k.down[i + 1]
    BY <1>4, <1>10, TailFacts
  <2>3. \A i \in DOMAIN e.down : Known(e.down[i], joins, starts)
    BY <1>4, <2>2 DEF AnyLine
  <2> QED  BY <1>10, <2>1, <2>3 DEF AnyLine
<1>13. FitsAll(l, e, c)
  <2> SUFFICES ASSUME NEW s \in Seats, world.pause, guest[s].conn = l, e.open
               PROVE  Fits(e, c, phase, starts, guest[s].loaded)
    BY DEF FitsAll
  <2>1. Fits(k, client[p], phase, starts, guest[s].loaded)
    BY <1>1, <1>2, <1>3, <1>10, FitsHere DEF FitsAll
  <2>2. phase \in Phases
    BY DEF IInv
  <2> QED  BY <1>4, <1>5, <1>6, <1>10, <2>1, <2>2, FitsRead
<1>14. /\ e.open => links[l].open
       /\ Greets(e) => Greets(links[l])
  BY <1>3, <1>10 DEF Greets
<1>15. presses' \in 0 .. world.presses /\ faults' \in 0 .. world.faults
  BY <1>11, FineHere
<1> QED  BY <1>1, <1>2, <1>7, <1>8, <1>10, <1>11, <1>12, <1>13, <1>14, <1>15, MachineStep

\* Who waits in the room has a link, on which no Hello is left when it stands.
LEMMA WaitsOnALink ==
  ASSUME IInv, LobbyAssumption, NEW p \in People, NEW l, l = client[p].link,
         client[p].phase # "Off"
  PROVE  /\ l # 0 /\ l \in DOMAIN links /\ links[l] \in LinkRecord /\ links[l].of = p
         /\ links[l].up \in Seq(Ups) /\ links[l].down \in Seq(Downs)
         /\ client[p] \in ClientRecord /\ client[p].key <= joins /\ client[p].start <= starts
         /\ joins \in Nat /\ starts \in Nat
         /\ AnyLine(l, links[l], client[p], guest, joins, starts)
         /\ client[p].phase # "Joining" /\ links[l].open =>
              \A i \in DOMAIN links[l].up : links[l].up[i].type # "Hello"
<1>1. l # 0
  BY HasALink DEF Has
<1>2. AnyLine(l, links[l], client[p], guest, joins, starts)
  BY <1>1, HasALink
<1>3. client[p].phase # "Joining" /\ links[l].open =>
              \A i \in DOMAIN links[l].up : links[l].up[i].type # "Hello"
  BY <1>2 DEF AnyLine
<1> QED  BY <1>1, <1>2, <1>3, HasALink DEF Has

\* One word more from a guest.
LineWith(k, m) == [k EXCEPT !.up = Append(@, m)]
Adds(k, m, e) ==
  /\ e.of = k.of /\ e.open = k.open /\ e.down = k.down
  /\ \A i \in DOMAIN e.up : e.up[i] = m \/ (i \in DOMAIN k.up /\ e.up[i] = k.up[i])
  /\ \A ok : Reports(e.up, ok) <=> (Reports(k.up, ok) \/ (m.type = "Loaded" /\ m.ok = ok))
LEMMA LineWithFields ==
  ASSUME NEW k \in LinkRecord, NEW m \in Ups, NEW e, e = LineWith(k, m)
  PROVE  e \in LinkRecord /\ Adds(k, m, e)
<1>1. k.up \in Seq(Ups)
  BY LinkFields
<1>2. PICK u \in Seq(Ups) : u = Append(k.up, m)
  BY <1>1, AppendFacts
<1>3. /\ DOMAIN u = DOMAIN k.up \cup {Len(k.up) + 1} /\ u[Len(k.up) + 1] = m
      /\ \A i \in DOMAIN k.up : u[i] = k.up[i]
  BY <1>1, <1>2, AppendFacts
<1>4. \A i \in DOMAIN u : u[i] = m \/ (i \in DOMAIN k.up /\ u[i] = k.up[i])
  BY <1>3
<1>5. ASSUME NEW ok
      PROVE  Reports(u, ok) <=> (Reports(k.up, ok) \/ (m.type = "Loaded" /\ m.ok = ok))
  <2>1. ASSUME Reports(u, ok) PROVE Reports(k.up, ok) \/ (m.type = "Loaded" /\ m.ok = ok)
    BY <1>4, <2>1 DEF Reports
  <2>2. ASSUME Reports(k.up, ok) PROVE Reports(u, ok)
    BY <1>3, <2>2 DEF Reports
  <2>3. ASSUME m.type = "Loaded", m.ok = ok PROVE Reports(u, ok)
    BY <1>3, <2>3 DEF Reports
  <2> QED  BY <2>1, <2>2, <2>3
<1>6. e = [k EXCEPT !.up = u]
  BY <1>2 DEF LineWith
<1>7. /\ e \in LinkRecord /\ e.of = k.of /\ e.open = k.open /\ e.down = k.down /\ e.up = u
  BY <1>6 DEF LinkRecord
<1> QED  BY <1>4, <1>5, <1>7 DEF Adds

\* A machine in another phase.
Stepped(c, new, n) == [c EXCEPT !.phase = new, !.start = n]
IsStepped(c, new, n, e) ==
  /\ e \in ClientRecord /\ e.link = c.link /\ e.key = c.key /\ e.phase = new /\ e.start = n
LEMMA SteppedFields ==
  ASSUME NEW c \in ClientRecord, NEW new \in {"Off", "InRoom", "Loaded"}, NEW n \in Nat,
         NEW e, e = Stepped(c, new, n)
  PROVE  IsStepped(c, new, n, e)
BY DEF Stepped, ClientRecord, IsStepped

LEMMA NoticesStep ==
  ASSUME IInv, LobbyAssumption, NEW p \in People, NoticesTheEnd(p)
  PROVE  IInv'
<1>1. PICK l : l = client[p].link
  OBVIOUS
<1>2. client[p].phase # "Off" /\ ~links[l].open
  BY <1>1 DEF NoticesTheEnd, Mine
<1>3. PICK k : k = links[l]
  OBVIOUS
<1>4. /\ l # 0 /\ l \in DOMAIN links /\ k \in LinkRecord /\ k.of = p
      /\ client[p] \in ClientRecord /\ client[p].key <= joins /\ starts \in Nat
      /\ AnyLine(l, k, client[p], guest, joins, starts)
  BY <1>1, <1>2, <1>3, WaitsOnALink
<1>5. PICK c : c = Stepped(client[p], "Off", 0)
  OBVIOUS
<1>6. c \in ClientRecord /\ c.link = l /\ c.key <= joins /\ c.start <= starts
  <2>1. client[p] \in ClientRecord /\ "Off" \in {"Off", "InRoom", "Loaded"} /\ 0 \in Nat
    BY <1>4
  <2>2. IsStepped(client[p], "Off", 0, c)
    BY <1>5, <2>1, SteppedFields, Zenon
  <2> QED  BY <1>1, <1>4, <2>2 DEF IsStepped
<1>7. /\ UNCHANGED room /\ world' = world /\ presses' = presses /\ faults' = faults
      /\ client' = ClientsWith(p, c) /\ links' = links
  <2>1. client' = [client EXCEPT ![p].phase = "Off", ![p].start = 0]
    BY DEF NoticesTheEnd, Becomes
  <2>2. client' = ClientsWith(p, c)
    BY <1>5, <2>1 DEF ClientsWith, Stepped
  <2> QED  BY <2>2 DEF NoticesTheEnd, bounds
<1>8. links' = LinksWith(l, k)
  BY <1>3, <1>4, <1>7, WorldFields DEF LinksWith
<1>9. AnyLine(l, k, c, guest, joins, starts)
  BY <1>2, <1>3, <1>4 DEF AnyLine
<1>10. FitsAll(l, k, c) /\ (k.open => links[l].open) /\ (Greets(k) => Greets(links[l]))
  BY <1>2, <1>3 DEF FitsAll
<1>11. presses' \in 0 .. world.presses /\ faults' \in 0 .. world.faults
  BY <1>7, FineHere
<1> QED  BY <1>1, <1>4, <1>6, <1>7, <1>8, <1>9, <1>10, <1>11, MachineStep

\* A guest says something on his way out, or waits.
LEMMA LeavesStep ==
  ASSUME IInv, LobbyAssumption, NEW p \in People, Leaves(p)
  PROVE  IInv'
<1>1. PICK l : l = client[p].link
  OBVIOUS
<1>2. client[p].phase \notin {"Off", "Joining"} /\ links[l].open /\ Fault
  BY <1>1 DEF Leaves, InUse, Mine
<1>3. PICK k : k = links[l]
  OBVIOUS
<1>4. /\ l # 0 /\ l \in DOMAIN links /\ k \in LinkRecord /\ k.of = p
      /\ client[p] \in ClientRecord /\ client[p].key <= joins /\ starts \in Nat
      /\ AnyLine(l, k, client[p], guest, joins, starts)
      /\ \A i \in DOMAIN k.up : k.up[i].type # "Hello"
  BY <1>1, <1>2, <1>3, WaitsOnALink
<1>5. PICK c : c = Stepped(client[p], "Off", 0)
  OBVIOUS
<1>6. c \in ClientRecord /\ c.link = l /\ c.key <= joins /\ c.start <= starts
  <2>1. client[p] \in ClientRecord /\ "Off" \in {"Off", "InRoom", "Loaded"} /\ 0 \in Nat
    BY <1>4
  <2>2. IsStepped(client[p], "Off", 0, c)
    BY <1>5, <2>1, SteppedFields, Zenon
  <2> QED  BY <1>1, <1>4, <2>2 DEF IsStepped
<1>7. PICK m \in Ups : m = [type |-> "Leave"]
  BY UpKinds
<1>8. PICK f : f = LineWith(k, m)
  OBVIOUS
<1>9. /\ f \in LinkRecord /\ f.of = p /\ f.down = k.down
      /\ \A i \in DOMAIN f.up : f.up[i] = m \/ (i \in DOMAIN k.up /\ f.up[i] = k.up[i])
  BY <1>4, <1>8, LineWithFields DEF Adds
<1>10. PICK e : e = [f EXCEPT !.open = FALSE]
  OBVIOUS
<1>11. /\ e \in LinkRecord /\ e.of = p /\ e.open = FALSE /\ e.up = f.up /\ e.down = k.down
  BY <1>9, <1>10 DEF LinkRecord
<1>12. \A i \in DOMAIN e.up : e.up[i].type # "Hello"
  BY <1>4, <1>7, <1>9, <1>11
<1>13. /\ UNCHANGED room /\ world' = world /\ presses' = presses
       /\ client' = ClientsWith(p, c) /\ links' = LinksWith(l, e)
  <2>1. client' = [client EXCEPT ![p].phase = "Off", ![p].start = 0]
    BY DEF Leaves, Becomes
  <2>2. client' = ClientsWith(p, c)
    BY <1>5, <2>1 DEF ClientsWith, Stepped
  <2>3. links' = [links EXCEPT ![l].open = FALSE, ![l].up = Append(@, m)]
    BY <1>1, <1>7 DEF Leaves
  <2>4. e = [k EXCEPT !.open = FALSE, !.up = Append(@, m)]
    BY <1>4, <1>8, <1>10 DEF LineWith, LinkRecord
  <2>5. links \in Seq(LinkRecord)
    BY WorldFields
  <2>6. links' = LinksWith(l, e)
    BY <1>3, <1>4, <2>3, <2>4, <2>5 DEF LinksWith
  <2> QED  BY <2>2, <2>6 DEF Leaves
<1>14. AnyLine(l, e, c, guest, joins, starts)
  BY <1>4, <1>11, <1>12 DEF AnyLine
<1>15. FitsAll(l, e, c) /\ (e.open => links[l].open)
  BY <1>11 DEF FitsAll
<1>16. ~Greets(e)
  <2>1. e.up # <<>> => 1 \in DOMAIN e.up
    BY <1>11, LinkFields, TailFacts
  <2> QED  BY <1>12, <2>1 DEF Greets
<1>17. presses' \in 0 .. world.presses /\ faults' \in 0 .. world.faults
  BY <1>2, <1>13, FineHere, OneFault
<1> QED  BY <1>1, <1>4, <1>6, <1>11, <1>13, <1>14, <1>15, <1>16, <1>17, MachineStep

\* What is said over a link that stands keeps it as it is.
LEMMA SaysFine ==
  ASSUME IInv, LobbyAssumption, NEW p \in People, NEW l, l = client[p].link,
         client[p].phase \notin {"Off", "Joining"}, links[l].open,
         NEW m \in Ups, m.type # "Hello",
         NEW e, e = LineWith(links[l], m), NEW c, c.phase # "Joining"
  PROVE  /\ e \in LinkRecord /\ e.of = p /\ Adds(links[l], m, e)
         /\ AnyLine(l, e, c, guest, joins, starts) /\ ~Greets(e)
<1>1. PICK k : k = links[l]
  OBVIOUS
<1>2. /\ k \in LinkRecord /\ k.of = p /\ AnyLine(l, k, client[p], guest, joins, starts)
      /\ \A i \in DOMAIN k.up : k.up[i].type # "Hello"
  BY <1>1, WaitsOnALink
<1>3. /\ e \in LinkRecord /\ e.of = p /\ e.open = k.open /\ e.down = k.down
      /\ \A i \in DOMAIN e.up : e.up[i] = m \/ (i \in DOMAIN k.up /\ e.up[i] = k.up[i])
      /\ Adds(k, m, e)
  <2>1. e = LineWith(k, m) /\ k \in LinkRecord
    BY <1>1, <1>2
  <2>2. e \in LinkRecord /\ Adds(k, m, e)
    BY <2>1, LineWithFields
  <2> QED  BY <1>2, <2>2 DEF Adds
<1>4. \A i \in DOMAIN e.up : e.up[i].type # "Hello"
  BY <1>2, <1>3, SMTT(40)
<1>5. AnyLine(l, e, c, guest, joins, starts)
  BY <1>2, <1>3, <1>4 DEF AnyLine
<1>6. ~Greets(e)
  <2>1. e.up # <<>> => 1 \in DOMAIN e.up
    BY <1>3, LinkFields, TailFacts
  <2> QED  BY <1>4, <2>1 DEF Greets
<1> QED  BY <1>1, <1>3, <1>5, <1>6

LEMMA PressesStep ==
  ASSUME IInv, LobbyAssumption, NEW p \in People, NEW m \in Ups,
         m.type \in {"StartRequest", "SeatMove", "Remove"}, Presses(p, m)
  PROVE  IInv'
<1>1. PICK l : l = client[p].link
  OBVIOUS
<1>2. PICK k : k = links[l]
  OBVIOUS
<1>3. PICK c : c = client[p]
  OBVIOUS
<1>4. /\ c.phase = "InRoom" /\ k.open /\ UNCHANGED room /\ world' = world /\ faults' = faults
      /\ links' = [links EXCEPT ![l].up = Append(@, m)] /\ client' = client
      /\ presses < world.presses /\ presses' = presses + 1
  BY <1>1, <1>2, <1>3 DEF Presses, Says, InUse, Mine
<1>5. /\ l # 0 /\ l \in DOMAIN links /\ c \in ClientRecord /\ c.key <= joins /\ c.start <= starts
      /\ c.link = l
  BY <1>1, <1>3, <1>4, WaitsOnALink
<1>6. PICK e : e = LineWith(links[l], m)
  OBVIOUS
<1>7. /\ e \in LinkRecord /\ e.of = p /\ e.open = k.open /\ e.down = k.down
      /\ AnyLine(l, e, c, guest, joins, starts) /\ ~Greets(e)
      /\ \A ok : Reports(e.up, ok) <=> Reports(k.up, ok)
  <2>1. /\ client[p].phase \notin {"Off", "Joining"} /\ links[l].open /\ m.type # "Hello"
        /\ m.type # "Loaded" /\ c.phase # "Joining"
    BY <1>2, <1>3, <1>4
  <2>2. /\ e \in LinkRecord /\ e.of = p /\ Adds(links[l], m, e)
        /\ AnyLine(l, e, c, guest, joins, starts) /\ ~Greets(e)
    BY <1>1, <1>6, <2>1, SaysFine
  <2> QED  BY <1>2, <2>1, <2>2 DEF Adds
<1>8. links' = LinksWith(l, e)
  BY <1>4, <1>6 DEF LinksWith, LineWith
<1>9. client' = ClientsWith(p, c)
  BY <1>3, <1>4 DEF ClientsWith, IInv
<1>10. FitsAll(l, e, c)
  <2> SUFFICES ASSUME NEW s \in Seats, world.pause, guest[s].conn = l
               PROVE  Fits(e, c, phase, starts, guest[s].loaded)
    BY DEF FitsAll
  <2>1. Fits(k, c, phase, starts, guest[s].loaded)
    BY <1>1, <1>2, <1>3, <1>4, <1>5, FitsHere DEF FitsAll
  <2>2. guest[s].loaded => guest[s].loaded
    OBVIOUS
  <2> QED  BY <1>7, <2>1, <2>2, FitsSame
<1>11. e.open => links[l].open
  BY <1>2, <1>7
<1>12. presses' \in 0 .. world.presses /\ faults' \in 0 .. world.faults
  BY <1>4, FineHere, WorldFields
<1> QED  BY <1>1, <1>4, <1>5, <1>7, <1>8, <1>9, <1>10, <1>11, <1>12, MachineStep

\* report_loaded.
LEMMA FitsReported ==
  ASSUME NEW k, NEW c, c.phase = "Loading", NEW ph \in Phases, NEW st, NEW ld \in BOOLEAN,
         Fits(k, c, ph, st, ld), NEW ok \in BOOLEAN,
         NEW k2, k2.down = k.down,
         \A b : Reports(k2.up, b) <=> (Reports(k.up, b) \/ ok = b),
         NEW c2, c2.phase = IF ok THEN "Loaded" ELSE "InRoom", ok => c2.start = c.start
  PROVE  Fits(k2, c2, ph, st, ld)
<1>1. CASE ph = "Room"
  <2>1. One(k.down, "Cancel")
    BY <1>1 DEF Fits
  <2> QED  BY <1>1, <2>1 DEF Fits
<1>2. CASE ph = "Loading"
  <2>1. k.down = <<>> /\ c.start = st /\ ~ld /\ ~Reports(k.up, TRUE)
    BY <1>2 DEF Fits
  <2>2. CASE ok
    BY <1>2, <2>1, <2>2 DEF Fits
  <2>3. CASE ~ok
    <3>1. Reports(k2.up, FALSE) /\ ~Reports(k2.up, TRUE)
      BY <2>1, <2>3
    <3> QED  BY <1>2, <2>1, <2>3, <3>1 DEF Fits
  <2> QED  BY <2>2, <2>3
<1>3. CASE ph = "Begun"
  BY <1>3 DEF Fits
<1> QED  BY <1>1, <1>2, <1>3 DEF Phases

LEMMA LoadsStep ==
  ASSUME IInv, LobbyAssumption, NEW p \in People, NEW ok \in BOOLEAN, Loads(p, ok)
  PROVE  IInv'
<1>1. PICK l : l = client[p].link
  OBVIOUS
<1>2. PICK k : k = links[l]
  OBVIOUS
<1>3. PICK new \in {"Loaded", "InRoom"} : new = IF ok THEN "Loaded" ELSE "InRoom"
  OBVIOUS
<1>4. client[p].phase = "Loading"
  BY DEF Loads
<1>5. /\ l # 0 /\ l \in DOMAIN links /\ k \in LinkRecord /\ k.of = p
      /\ client[p] \in ClientRecord /\ client[p].key <= joins /\ client[p].start <= starts
      /\ starts \in Nat /\ client[p].start \in Nat
      /\ AnyLine(l, k, client[p], guest, joins, starts)
  BY <1>1, <1>2, <1>4, WaitsOnALink, HasALink
<1>6. PICK n \in Nat : n = IF ok THEN client[p].start ELSE 0
  BY <1>5
<1>7. PICK c : c = Stepped(client[p], new, n)
  OBVIOUS
<1>8. /\ c \in ClientRecord /\ c.link = l /\ c.key <= joins /\ c.start <= starts
      /\ c.phase = new /\ c.start = n
  <2>1. n <= starts
    BY <1>5, <1>6
  <2>2. client[p] \in ClientRecord /\ new \in {"Off", "InRoom", "Loaded"} /\ n \in Nat
    BY <1>5
  <2>3. IsStepped(client[p], new, n, c)
    BY <1>7, <2>2, SteppedFields, Zenon
  <2> QED  BY <1>1, <1>5, <2>1, <2>3 DEF IsStepped
<1>9. PICK m \in Ups : m = [type |-> "Loaded", ok |-> ok]
  BY UpKinds
<1>10. PICK e : e = IF k.open THEN LineWith(links[l], m) ELSE k
  OBVIOUS
<1>11. /\ UNCHANGED room /\ world' = world /\ presses' = presses
       /\ faults' = faults \/ Fault
       /\ client' = ClientsWith(p, c) /\ links' = LinksWith(l, e)
  <2>1. client' = [client EXCEPT ![p].phase = new, ![p].start = n]
    BY <1>3, <1>6, Zenon DEF Loads, Becomes
  <2>2. client' = ClientsWith(p, c)
    BY <1>7, <2>1 DEF ClientsWith, Stepped
  <2>3. links' = IF k.open THEN [links EXCEPT ![l].up = Append(@, m)] ELSE links
    BY <1>1, <1>2, <1>5, <1>9 DEF Loads, Says, InUse, Mine
  <2>4. links \in Seq(LinkRecord)
    BY WorldFields
  <2>5. links' = LinksWith(l, e)
    <3>1. CASE k.open
      BY <1>2, <1>10, <2>3, <3>1 DEF LinksWith, LineWith
    <3>2. CASE ~k.open
      <4>1. links' = links /\ e = links[l]
        BY <1>2, <1>10, <2>3, <3>2
      <4> QED  BY <2>4, <4>1 DEF LinksWith
    <3> QED  BY <3>1, <3>2
  <2> QED  BY <2>2, <2>5 DEF Loads
<1>12. /\ e \in LinkRecord /\ e.of = p /\ e.open = k.open
       /\ AnyLine(l, e, c, guest, joins, starts) /\ (Greets(e) => Greets(k))
       /\ k.open => /\ e.down = k.down
                    /\ \A b : Reports(e.up, b) <=> (Reports(k.up, b) \/ ok = b)
  <2>1. CASE k.open
    <3>1. /\ client[p].phase \notin {"Off", "Joining"} /\ links[l].open /\ m.type # "Hello"
          /\ m.type = "Loaded" /\ m.ok = ok /\ c.phase # "Joining" /\ e = LineWith(links[l], m)
      BY <1>2, <1>4, <1>8, <1>9, <1>10, <2>1
    <3>2. /\ e \in LinkRecord /\ e.of = p /\ Adds(links[l], m, e)
          /\ AnyLine(l, e, c, guest, joins, starts) /\ ~Greets(e)
      BY <1>1, <3>1, SaysFine
    <3> QED  BY <1>2, <3>1, <3>2 DEF Adds
  <2>2. CASE ~k.open
    BY <1>5, <1>8, <1>10, <2>2 DEF AnyLine
  <2> QED  BY <2>1, <2>2
<1>13. FitsAll(l, e, c)
  <2> SUFFICES ASSUME NEW s \in Seats, world.pause, guest[s].conn = l, e.open
               PROVE  Fits(e, c, phase, starts, guest[s].loaded)
    BY DEF FitsAll
  <2>1. Fits(k, client[p], phase, starts, guest[s].loaded)
    BY <1>1, <1>2, <1>5, <1>12, FitsHere DEF FitsAll
  <2>2. guest[s].loaded \in BOOLEAN /\ phase \in Phases
    BY GuestsLink, GuestFields DEF IInv
  <2>3. /\ e.down = k.down
        /\ \A b : Reports(e.up, b) <=> (Reports(k.up, b) \/ ok = b)
    BY <1>12
  <2>4. c.phase = (IF ok THEN "Loaded" ELSE "InRoom") /\ (ok => c.start = client[p].start)
    BY <1>3, <1>6, <1>8
  <2> QED  BY <1>4, <2>1, <2>2, <2>3, <2>4, FitsReported
<1>14. (e.open => links[l].open) /\ (Greets(e) => Greets(links[l]))
  BY <1>2, <1>12
<1>15. presses' \in 0 .. world.presses /\ faults' \in 0 .. world.faults
  BY <1>11, FineHere, OneFault
<1> QED  BY <1>1, <1>5, <1>8, <1>11, <1>12, <1>13, <1>14, <1>15, MachineStep

\* A person opens a link.
AddsALink(p, N, new) ==
  /\ N \in Seq(LinkRecord) /\ Len(N) = Len(links) /\ new \in LinkRecord /\ new.of = p
  /\ \A x \in DOMAIN links :
       /\ N[x].of = links[x].of /\ N[x].up = links[x].up
       /\ N[x].open => links[x].open
       /\ N[x].down \in {<<>>, links[x].down}
       /\ links[x].of # p => N[x] = links[x]
  /\ new.down = <<>> /\ Len(new.up) = 1
LEMMA JoinedByOne ==
  ASSUME IInv, LobbyAssumption, NEW p \in People, NEW N, NEW new, AddsALink(p, N, new),
         joins' = joins, world' = world, links' = Append(N, new)
  PROVE  Joined'
<1>1. /\ Len(links) \in Nat /\ DOMAIN links = 1 .. Len(links) /\ joins \in Nat
      /\ Len(world.match) \in Nat
  BY WorldFields DEF IInv
<1>2. PICK n : n = Len(links) + 1
  OBVIOUS
<1>3. PICK L \in Seq(LinkRecord) : L = Append(N, new)
  BY AppendFacts DEF AddsALink
<1>4. /\ Len(L) = n /\ DOMAIN L = DOMAIN links \cup {n}
      /\ \A x \in DOMAIN links : L[x] = N[x]
  <2>1. N \in Seq(LinkRecord) /\ Len(N) = Len(links) /\ new \in LinkRecord
    BY DEF AddsALink
  <2>2. /\ Len(L) = n /\ DOMAIN L = DOMAIN N \cup {n}
        /\ \A x \in DOMAIN N : L[x] = N[x]
    BY <1>2, <1>3, <2>1, AppendFacts
  <2>3. DOMAIN N = DOMAIN links
    BY <1>1, <2>1
  <2> QED  BY <2>2, <2>3
<1>5. PICK A, B : A = Greeting(links) /\ B = Greeting(L)
  OBVIOUS
<1>6. A \subseteq 1 .. Len(links) /\ B \subseteq A \cup {n} /\ n \notin A
  <2>1. \A x \in DOMAIN links : Greets(L[x]) => Greets(links[x])
    <3>1. \A x \in DOMAIN links : L[x].up = links[x].up
      BY <1>4 DEF AddsALink
    <3> QED  BY <3>1 DEF Greets
  <2>2. A \subseteq DOMAIN links /\ n \notin DOMAIN links
    BY <1>1, <1>2, <1>5 DEF Greeting
  <2>3. B \subseteq A \cup {n}
    BY <1>4, <1>5, <2>1 DEF Greeting
  <2> QED  BY <1>1, <2>2, <2>3
<1>7. IsFiniteSet(A) /\ Cardinality(A) \in Nat
  <2>1. IsFiniteSet(1 .. Len(links))
    BY <1>1, FS_Interval
  <2> QED  BY <1>6, <2>1, FS_Subset, FS_CardinalityType
<1>8. IsFiniteSet(A \cup {n}) /\ Cardinality(A \cup {n}) = Cardinality(A) + 1
  BY <1>6, <1>7, FS_AddElement
<1>9. Cardinality(B) \in Nat /\ Cardinality(B) <= Cardinality(A) + 1
  BY <1>6, <1>8, FS_Subset, FS_CardinalityType
<1>10. joins + Cardinality(A) <= Len(links) + Len(world.match)
  BY <1>5 DEF IInv, Joined
<1>11. joins + Cardinality(B) <= n + Len(world.match)
  <2>1. PICK a \in Nat, b \in Nat, k \in Nat, m \in Nat :
          a = Cardinality(A) /\ b = Cardinality(B) /\ k = Len(links) /\ m = Len(world.match)
    BY <1>1, <1>7, <1>9
  <2>2. joins + a <= k + m /\ b <= a + 1 /\ n = k + 1
    BY <1>2, <1>9, <1>10, <2>1
  <2>3. joins + b <= n + m
    BY <1>1, <2>2
  <2> QED  BY <2>1, <2>3
<1>12. Len(links') = n /\ Greeting(links') = B
  BY <1>3, <1>4, <1>5
<1> QED  BY <1>11, <1>12 DEF Joined

Entered(c, n) == [c EXCEPT !.phase = "Joining", !.link = n]
LEMMA OpensStep ==
  ASSUME IInv, LobbyAssumption, NEW p \in People, NEW game \in BOOLEAN, NEW asks \in BOOLEAN,
         Opens(p, game, asks)
  PROVE  IInv'
<1>1. /\ links \in Seq(LinkRecord) /\ Len(links) \in Nat /\ DOMAIN links = 1 .. Len(links)
      /\ client \in [People -> ClientRecord]
      /\ \A x \in DOMAIN links : links[x] \in LinkRecord
  BY WorldFields, FineLinks DEF IInv
<1>2. PICK n \in Nat : n = Len(links) + 1
  BY <1>1
<1>3. PICK old : old = client[p].link
  OBVIOUS
<1>4. /\ client[p] \in ClientRecord /\ Has(p, client[p], links)
      /\ client[p].key \in Nat
      /\ old # 0 => old \in DOMAIN links /\ links[old].of = p
  BY <1>3, HasALink
<1>5. PICK new : new = [of |-> p, open |-> TRUE, down |-> <<>>,
                        up |-> <<[type |-> "Hello", key |-> client[p].key, game |-> game,
                                  asks |-> asks]>>]
  OBVIOUS
<1>6. PICK closes \in BOOLEAN :
        /\ IF closes THEN faults' = faults ELSE InUse(p) /\ Fault
        /\ links' = Append([l \in DOMAIN links |->
                              IF l # old THEN links[l]
                              ELSE [links[l] EXCEPT !.open = @ /\ ~closes, !.down = <<>>]], new)
  BY <1>3, <1>5, Zenon DEF Opens
<1>7. PICK N : N = [l \in DOMAIN links |->
                              IF l # old THEN links[l]
                              ELSE [links[l] EXCEPT !.open = @ /\ ~closes, !.down = <<>>]]
  OBVIOUS
<1>8. links' = Append(N, new)
  BY <1>6, <1>7, Zenon
<1>9. AddsALink(p, N, new)
  <2>1. ASSUME NEW k \in LinkRecord
        PROVE  [k EXCEPT !.open = @ /\ ~closes, !.down = <<>>]
                 = [of |-> k.of, open |-> k.open /\ ~closes, up |-> k.up, down |-> <<>>]
    <3>1. PICK o : o = (k.open /\ ~closes)
      OBVIOUS
    <3>2. PICK e : e = [k EXCEPT !.open = o, !.down = <<>>]
      OBVIOUS
    <3>4. k \in [of : People, open : BOOLEAN, up : Seq(Ups), down : Seq(Downs)]
      BY DEF LinkRecord
    <3>5. e = [of |-> k.of, open |-> o, up |-> k.up, down |-> <<>>]
      BY <3>2, <3>4
    <3>3. [k EXCEPT !.open = @ /\ ~closes, !.down = <<>>] = [k EXCEPT !.open = o, !.down = <<>>]
      BY <3>1, Zenon
    <3> QED  BY <3>1, <3>2, <3>3, <3>5, Zenon
  <2>2. ASSUME NEW x \in DOMAIN links
        PROVE  /\ N[x] \in LinkRecord
               /\ N[x].of = links[x].of /\ N[x].up = links[x].up
               /\ N[x].open => links[x].open
               /\ N[x].down \in {<<>>, links[x].down}
               /\ links[x].of # p => N[x] = links[x]
    <3>1. PICK k \in LinkRecord : k = links[x]
      BY <1>1
    <3>2. CASE x # old
      BY <1>7, <3>1, <3>2
    <3>3. CASE x = old
      <4>1. N[x] = [of |-> k.of, open |-> k.open /\ ~closes, up |-> k.up, down |-> <<>>]
        BY <1>7, <2>1, <3>1, <3>3
      <4>2. /\ k.of \in People /\ k.open \in BOOLEAN /\ k.up \in Seq(Ups) /\ <<>> \in Seq(Downs)
            /\ k.of = p
        BY <1>1, <1>4, <3>1, <3>3, LinkFields
      <4>3. PICK o \in BOOLEAN : o = (k.open /\ ~closes)
        OBVIOUS
      <4>4. N[x] = [of |-> k.of, open |-> o, up |-> k.up, down |-> <<>>]
        BY <4>1, <4>3
      <4>5. /\ N[x] \in LinkRecord /\ N[x].of = k.of /\ N[x].open = o /\ N[x].up = k.up
            /\ N[x].down = <<>>
        BY <4>2, <4>4 DEF LinkRecord
      <4> QED  BY <3>1, <4>2, <4>3, <4>5
    <3> QED  BY <3>2, <3>3
  <2>3. DOMAIN N = DOMAIN links /\ N = [x \in DOMAIN N |-> N[x]]
    BY <1>7
  <2>4. N \in Seq(LinkRecord) /\ Len(N) = Len(links)
    <3>1. \A x \in DOMAIN links : N[x] \in LinkRecord
      BY <2>2
    <3> HIDE <1>7
    <3> QED  BY <1>1, <2>3, <3>1, Listed
  <2>5. new \in LinkRecord /\ new.of = p /\ new.down = <<>> /\ Len(new.up) = 1
    <3>1. PICK h \in Ups : h = [type |-> "Hello", key |-> client[p].key, game |-> game,
                                asks |-> asks]
      BY <1>4, UpKinds
    <3>2. <<h>> \in Seq(Ups) /\ Len(<<h>>) = 1 /\ <<>> \in Seq(Downs)
      OBVIOUS
    <3>3. new = [of |-> p, open |-> TRUE, down |-> <<>>, up |-> <<h>>]
      BY <1>5, <3>1
    <3> QED  BY <3>2, <3>3 DEF LinkRecord
  <2> QED  BY <2>2, <2>4, <2>5 DEF AddsALink
<1>10. PICK L \in Seq(LinkRecord) : L = Append(N, new)
  BY <1>9, AppendFacts DEF AddsALink
<1>11. /\ Len(L) = n /\ DOMAIN L = DOMAIN links \cup {n} /\ L[n] = new
       /\ \A x \in DOMAIN links : L[x] = N[x]
  <2>1. N \in Seq(LinkRecord) /\ Len(N) = Len(links) /\ new \in LinkRecord
    BY <1>9 DEF AddsALink
  <2>2. /\ Len(L) = n /\ DOMAIN L = DOMAIN N \cup {n} /\ L[n] = new
        /\ \A x \in DOMAIN N : L[x] = N[x]
    BY <1>2, <1>10, <2>1, AppendFacts
  <2>3. DOMAIN N = DOMAIN links
    BY <1>1, <2>1
  <2> QED  BY <2>2, <2>3
<1>12. PICK c : c = Entered(client[p], n)
  OBVIOUS
<1>13. /\ c \in ClientRecord /\ c.link = n /\ c.phase = "Joining" /\ c.key = client[p].key
       /\ c.start = client[p].start
  BY <1>4, <1>12 DEF Entered, ClientRecord
<1>14. PICK C : C = ClientsWith(p, c)
  OBVIOUS
<1>15. /\ C \in [People -> ClientRecord] /\ C[p] = c
       /\ \A q \in People : q # p => C[q] = client[q]
  BY <1>1, <1>13, <1>14 DEF ClientsWith
<1>16. /\ UNCHANGED room /\ world' = world /\ presses' = presses
       /\ faults' = faults \/ Fault
       /\ links' = L /\ client' = C /\ Len(links) < world.links
  <2>1. client' = [client EXCEPT ![p].phase = "Joining", ![p].link = n]
    BY <1>2 DEF Opens
  <2>2. client' = C
    BY <1>12, <1>14, <2>1 DEF ClientsWith, Entered
  <2>3. faults' = faults \/ Fault
    BY <1>6
  <2>4. UNCHANGED room /\ world' = world /\ presses' = presses /\ Len(links) < world.links
    BY DEF Opens
  <2> QED  BY <1>8, <1>10, <2>2, <2>3, <2>4
<1>17. Joined'
  <2>1. joins' = joins
    BY Zenon DEF Opens, room
  <2>2. world' = world
    BY <1>16
  <2> QED  BY <1>8, <1>9, <2>1, <2>2, JoinedByOne, Zenon
<1>18. n \notin DOMAIN links /\ n # 0
  BY <1>1, <1>2
<1>19. ASSUME NEW q \in People PROVE Has(q, C[q], L)
  <2>1. Has(q, client[q], links)
    BY HasALink
  <2>2. CASE q = p
    <3>1. L[n].of = p /\ n \in DOMAIN L
      BY <1>9, <1>11 DEF AddsALink
    <3> QED  BY <1>4, <1>13, <1>15, <1>18, <2>2, <3>1 DEF Has
  <2>3. CASE q # p
    <3>1. \A x \in DOMAIN links : L[x].of = links[x].of /\ x \in DOMAIN L
      BY <1>9, <1>11 DEF AddsALink
    <3> QED  BY <1>15, <2>1, <2>3, <3>1 DEF Has
  <2> QED  BY <2>2, <2>3
<1>20. ASSUME NEW x \in DOMAIN L PROVE AnyLine(x, L[x], C[L[x].of], guest, joins, starts)
  <2>1. CASE x = n
    <3>1. L[x] = new /\ new.of = p /\ C[L[x].of] = c /\ new.down = <<>>
      BY <1>9, <1>11, <1>15, <2>1 DEF AddsALink
    <3>2. \A i \in DOMAIN new.up : i = 1
      <4>1. new.up \in Seq(Ups) /\ Len(new.up) = 1
        BY <1>9, LinkFields DEF AddsALink
      <4> QED  BY <4>1
    <3>3. \A s \in Seats : guest[s].conn # n
      <4>1. \A s \in Seats : guest[s].conn \in 0 .. Len(links)
        BY GuestsLink
      <4> QED  BY <1>1, <1>2, <4>1
    <3>4. DOMAIN new.down = {}
      BY <3>1
    <3> QED  BY <1>13, <2>1, <3>1, <3>2, <3>3, <3>4 DEF AnyLine
  <2>2. CASE x # n
    <3>1. x \in DOMAIN links /\ L[x] = N[x]
      BY <1>11, <2>2
    <3>2. AnyLine(x, links[x], client[links[x].of], guest, joins, starts)
      BY <3>1 DEF IInv, Fine
    <3>3. /\ L[x].of = links[x].of /\ L[x].up = links[x].up
          /\ L[x].open => links[x].open
          /\ L[x].down \in {<<>>, links[x].down}
          /\ links[x].of # p => L[x] = links[x]
      BY <1>9, <3>1 DEF AddsALink
    <3>4. CASE links[x].of = p
      <4>1. C[L[x].of] = c /\ c.link # x
        BY <1>13, <1>15, <2>2, <3>3, <3>4
      <4>2. \A i \in DOMAIN L[x].down : Known(L[x].down[i], joins, starts)
        BY <3>2, <3>3 DEF AnyLine
      <4> QED  BY <3>2, <3>3, <4>1, <4>2 DEF AnyLine
    <3>5. CASE links[x].of # p
      <4>1. links[x].of \in People
        BY <1>1, <3>1, LinkFields
      <4> QED  BY <1>15, <3>2, <3>3, <3>5, <4>1
    <3> QED  BY <3>4, <3>5
  <2> QED  BY <2>1, <2>2
<1>21. OnLine(L, C)
  <2> SUFFICES ASSUME world.pause, NEW s \in Seats, NEW x, x = guest[s].conn, x # 0, L[x].open,
                      C[L[x].of].link = x
               PROVE  Fits(L[x], C[L[x].of], phase, starts, guest[s].loaded)
    BY DEF OnLine
  <2>1. x \in DOMAIN links
    BY GuestsLink
  <2>2. L[x] = N[x] /\ N[x].of = links[x].of /\ (links[x].of # p => N[x] = links[x])
        /\ links[x].of \in People
    BY <1>1, <1>9, <1>11, <2>1, LinkFields DEF AddsALink
  <2>3. links[x].of # p
    BY <1>13, <1>15, <1>18, <2>1, <2>2
  <2>4. L[x] = links[x] /\ C[L[x].of] = client[links[x].of] /\ Used(guest[s].conn, links)
    BY <1>15, <2>2, <2>3 DEF Used
  <2>5. Fits(links[x], client[links[x].of], phase, starts, guest[s].loaded)
    BY <2>4 DEF IInv, InLine
  <2> QED  BY <2>4, <2>5
<1>22. Len(links) <= Len(L) /\ Len(L) <= world.links
  BY <1>1, <1>2, <1>11, <1>16, WorldFields
<1>23. presses' \in 0 .. world.presses /\ faults' \in 0 .. world.faults
  <2>1. presses' = presses /\ (faults' = faults \/ Fault)
    BY <1>16
  <2> QED  BY <2>1, FineHere, OneFault
<1>24. UNCHANGED room /\ world' = world /\ links' = L /\ client' = C
  BY <1>16
<1> HIDE <1>7
<1> QED  BY <1>15, <1>17, <1>19, <1>20, <1>21, <1>22, <1>23, <1>24, PeopleStep

\* All that the people do.
LEMMA TheMachineStep ==
  ASSUME IInv, LobbyAssumption, OfAMachine
  PROVE  IInv'
<1>1. PICK p \in People :
        \/ \E game, asks \in BOOLEAN : Opens(p, game, asks)
        \/ Reads(p) \/ NoticesTheEnd(p) \/ Leaves(p) \/ PressesStart(p)
        \/ \E ok \in BOOLEAN : Loads(p, ok)
        \/ \E s, t \in Seats : PressesMove(p, s, t)
        \/ \E s \in Seats : PressesRemove(p, s)
  BY DEF OfAMachine
<1>2. Seating \in [Seats -> Names]
  BY WorldFields, GuestFields DEF Seating
<1>3. CASE PressesStart(p)
  BY <1>3, UpKinds, PressesStep DEF PressesStart
<1>4. ASSUME NEW s \in Seats, NEW t \in Seats, PressesMove(p, s, t) PROVE IInv'
  <2>1. PICK m \in Ups : m = [type |-> "SeatMove", from |-> s, to |-> t, guard |-> Seating]
    BY <1>2, UpKinds
  <2>2. m.type = "SeatMove" /\ Presses(p, m)
    BY <1>4, <2>1 DEF PressesMove
  <2> QED  BY <2>2, PressesStep
<1>5. ASSUME NEW s \in Seats, PressesRemove(p, s) PROVE IInv'
  <2>1. PICK m \in Ups : m = [type |-> "Remove", seat |-> s, guard |-> Seating]
    BY <1>2, UpKinds
  <2>2. m.type = "Remove" /\ Presses(p, m)
    BY <1>5, <2>1 DEF PressesRemove
  <2> QED  BY <2>2, PressesStep
<1> QED  BY <1>1, <1>3, <1>4, <1>5, OpensStep, ReadsStep, NoticesStep, LeavesStep, LoadsStep

------------------------------------------------------------------------------
(* The theorems *)

\* What a person of the match is: his key is his place in it.
LEMMA KeyOfFact ==
  ASSUME NEW p \in People, world.match \in Seq(People)
  PROVE  KeyOf(p) \in 0 .. Len(world.match)
<1>1. DOMAIN world.match = 1 .. Len(world.match) /\ Len(world.match) \in Nat
  OBVIOUS
<1>2. KeyOf(p) = 0 \/ KeyOf(p) \in DOMAIN world.match
  BY Zenon DEF KeyOf
<1> QED  BY <1>1, <1>2

\* The guest of a seat when the room opens.
AtFirst(s) ==
  IF s \in DOMAIN world.match
  THEN [NoGuest EXCEPT !.key = s, !.name = world.match[s], !.reserved = TRUE] ELSE NoGuest
LEMMA AtFirstFields ==
  ASSUME NEW s \in Seats, world.match \in Seq(People), LobbyAssumption
  PROVE  /\ AtFirst(s) \in GuestRecord /\ AtFirst(s).conn = 0 /\ AtFirst(s).held = FALSE
         /\ AtFirst(s).loaded = FALSE
         /\ AtFirst(s).key = IF s \in DOMAIN world.match THEN s ELSE 0
         /\ AtFirst(s).reserved <=> s \in DOMAIN world.match
<1>1. CASE s \in DOMAIN world.match
  <2>1. s \in Nat /\ world.match[s] \in Names
    BY <1>1 DEF Names
  <2>2. AtFirst(s) = [key |-> s, name |-> world.match[s], conn |-> 0, loaded |-> FALSE,
                      game |-> FALSE, held |-> FALSE, reserved |-> TRUE]
    BY <1>1 DEF AtFirst, NoGuest
  <2> QED  BY <1>1, <2>1, <2>2 DEF GuestRecord
<1>2. CASE s \notin DOMAIN world.match
  <2>1. AtFirst(s) = NoGuest
    BY <1>2 DEF AtFirst
  <2> QED  BY <1>2, <2>1, NoGuestFields
<1> QED  BY <1>1, <1>2

LEMMA InitHolds ==
  ASSUME LobbyAssumption, Init
  PROVE  IInv
<1>1. /\ world \in Worlds /\ phase = "Room" /\ leader = 0 /\ starting = 0 /\ starts = 0
      /\ hostLoaded = FALSE /\ joins = Len(world.match) /\ presses = 0 /\ faults = 0
      /\ links = <<>>
  BY DEF Init
<1>2. /\ world \in [people : SUBSET People, lobby : BOOLEAN, links : Nat, starts : Nat,
                    presses : Nat, faults : Nat, pause : BOOLEAN, least : Nat, match : Seq(People)]
      /\ Len(world.match) <= Cardinality(Seats)
  BY <1>1 DEF LobbyAssumption
<1>3. /\ world.match \in Seq(People) /\ Len(world.match) \in Nat
      /\ world.links \in Nat /\ world.starts \in Nat /\ world.presses \in Nat
      /\ world.faults \in Nat /\ DOMAIN world.match = 1 .. Len(world.match)
  BY <1>2
<1>4. guest = [s \in Seats |-> AtFirst(s)]
  BY Zenon DEF Init, AtFirst
<1>5. guest \in [Seats -> GuestRecord] /\ \A s \in Seats : guest[s] = AtFirst(s)
  BY <1>3, <1>4, AtFirstFields
<1>5a. ASSUME NEW s \in Seats
       PROVE  /\ guest[s].conn = 0 /\ guest[s].held = FALSE /\ guest[s].loaded = FALSE
              /\ guest[s].key = IF s \in DOMAIN world.match THEN s ELSE 0
              /\ guest[s].reserved <=> s \in DOMAIN world.match
  <2>1. guest[s] = AtFirst(s)
    BY <1>5, Zenon
  <2>2. /\ AtFirst(s).conn = 0 /\ AtFirst(s).held = FALSE /\ AtFirst(s).loaded = FALSE
        /\ AtFirst(s).key = IF s \in DOMAIN world.match THEN s ELSE 0
        /\ AtFirst(s).reserved <=> s \in DOMAIN world.match
    BY <1>3, AtFirstFields
  <2> QED  BY <2>1, <2>2, Zenon
<1>6. GuestsInv(guest, joins, phase, Len(links))
  <2>1. \A s \in Seats :
          /\ guest[s].conn = 0 /\ guest[s].held = FALSE /\ guest[s].loaded = FALSE
          /\ guest[s].key = IF s \in DOMAIN world.match THEN s ELSE 0
    BY <1>5a, Zenon
  <2>2. \A s \in Seats : guest[s].key <= joins
    BY <1>1, <1>3, <2>1
  <2>3. \A s \in Seats : \A t \in Seats \ {s} : guest[s].key # 0 => guest[s].key # guest[t].key
    BY <1>3, <2>1
  <2>4. Len(links) = 0
    BY <1>1
  <2> QED  BY <1>5, <2>1, <2>2, <2>3, <2>4 DEF GuestsInv
<1>7. First(guest, leader)
  <2>1. \A s \in Seats : guest[s].key # 0 => guest[s].reserved
    <3> SUFFICES ASSUME NEW s \in Seats, guest[s].key # 0 PROVE guest[s].reserved
      OBVIOUS
    <3>1. guest[s].key = (IF s \in DOMAIN world.match THEN s ELSE 0)
          /\ (guest[s].reserved <=> s \in DOMAIN world.match)
      BY <1>5a, Zenon
    <3> QED  BY <3>1, Zenon
  <2>2. MayLead(guest) = {}
    BY <2>1 DEF MayLead
  <2> QED  BY <1>1, <2>2 DEF First
<1>8. links \in Seq(LinkRecord) /\ Len(links) = 0 /\ DOMAIN links = {}
  BY <1>1
<1>9. Fine(links, guest, joins, starts)
  BY <1>8 DEF Fine
<1>10. Joined
  <2>1. Greeting(links) = {}
    BY <1>8 DEF Greeting
  <2>2. Cardinality(Greeting(links)) = 0
    BY <2>1, FS_EmptySet
  <2> QED  BY <1>1, <1>3, <1>8, <2>2 DEF Joined
<1>11. ASSUME NEW p \in People
       PROVE  client[p] = [phase |-> "Off", link |-> 0, key |-> KeyOf(p), start |-> 0]
  <2>1. client[p] = [Nobody EXCEPT !.key = KeyOf(p)]
    BY DEF Init
  <2> QED  BY <2>1 DEF Nobody
<1>12. ASSUME NEW p \in People
       PROVE  client[p] \in ClientRecord /\ ClientInv(p)
  <2>1. PICK n \in Nat : n = KeyOf(p) /\ n <= joins
    BY <1>1, <1>3, KeyOfFact
  <2>2. client[p] = [phase |-> "Off", link |-> 0, key |-> n, start |-> 0]
    BY <1>11, <2>1
  <2>3. /\ client[p] \in ClientRecord /\ client[p].phase = "Off" /\ client[p].link = 0
        /\ client[p].key = n /\ client[p].start = 0
    BY <2>2 DEF ClientRecord
  <2> QED  BY <1>1, <2>1, <2>3 DEF ClientInv
<1>13. client \in [People -> ClientRecord]
  <2>1. client = [p \in People |-> [Nobody EXCEPT !.key = KeyOf(p)]]
    BY DEF Init
  <2>2. client = [p \in People |-> client[p]]
    BY <2>1
  <2> HIDE <2>1
  <2> QED  BY <1>12, <2>2
<1>14. InLine(links, guest, phase, starts)
  <2>1. \A s \in Seats : guest[s].conn = 0
    BY <1>5a, Zenon
  <2> QED  BY <2>1 DEF InLine
<1>15. /\ phase \in Phases /\ hostLoaded \in BOOLEAN /\ joins \in Nat
       /\ starts \in 0 .. world.starts /\ starting \in 0 .. joins
       /\ presses \in 0 .. world.presses /\ faults \in 0 .. world.faults
       /\ Len(links) <= world.links
  <2>1. phase \in Phases /\ hostLoaded \in BOOLEAN /\ joins \in Nat
    BY <1>1, <1>3 DEF Phases
  <2>2. starts \in 0 .. world.starts /\ presses \in 0 .. world.presses
        /\ faults \in 0 .. world.faults /\ Len(links) <= world.links
    BY <1>1, <1>3, <1>8
  <2>3. starting \in 0 .. joins
    BY <1>1, <2>1
  <2> QED  BY <2>1, <2>2, <2>3
<1> QED  BY <1>1, <1>6, <1>7, <1>9, <1>10, <1>12, <1>13, <1>14, <1>15 DEF IInv

LEMMA StutterHolds ==
  ASSUME IInv, UNCHANGED vars
  PROVE  IInv'
<1>1. /\ world' = world /\ links' = links /\ client' = client /\ presses' = presses
      /\ faults' = faults /\ phase' = phase /\ guest' = guest /\ leader' = leader
      /\ starting' = starting /\ joins' = joins /\ starts' = starts /\ hostLoaded' = hostLoaded
  BY DEF vars, state, room, bounds
<1> QED
  BY <1>1 DEF IInv, Joined, Greeting, GuestsInv, First, MayLead, Reserved, OfMatch, Fine, AnyLine,
              ClientInv, Gathered, InLine, Used

LEMMA StepHolds ==
  ASSUME LobbyAssumption, IInv, [Next]_vars
  PROVE  IInv'
<1>1. CASE OfTheRoom
  BY <1>1, TheRoomStep
<1>2. CASE OfTheHost
  BY <1>2, HostStep
<1>3. CASE OfAMachine
  BY <1>3, TheMachineStep
<1>4. CASE \E l \in DOMAIN links : Breaks(l)
  BY <1>4, BreaksStep
<1>5. CASE UNCHANGED vars
  BY <1>5, StutterHolds
<1> QED  BY <1>1, <1>2, <1>3, <1>4, <1>5 DEF Next

LEMMA Inductive == Spec => []IInv
<1>1. Init => IInv
  BY LobbyAssumption, InitHolds
<1>2. IInv /\ [Next]_vars => IInv'
  BY LobbyAssumption, StepHolds
<1> QED  BY <1>1, <1>2, PTL DEF Spec

\* The types.
LEMMA InvTypes == IInv => TypeOK
<1> SUFFICES ASSUME IInv PROVE TypeOK
  OBVIOUS
<1> USE LobbyAssumption
<1>1. /\ joins \in Nat /\ Len(links) \in Nat /\ Len(world.match) \in Nat /\ world.links \in Nat
      /\ starts \in 0 .. world.starts /\ world.starts \in Nat /\ presses \in 0 .. world.presses
      /\ faults \in 0 .. world.faults /\ world.presses \in Nat /\ world.faults \in Nat
      /\ world \in Worlds /\ phase \in {"Room", "Loading", "Begun"} /\ hostLoaded \in BOOLEAN
      /\ starting \in 0 .. joins /\ Len(links) <= world.links /\ DOMAIN links = 1 .. Len(links)
  BY WorldFields DEF IInv, Phases
<1>2. leader \in {0} \cup Seats
  BY FirstHasASeat DEF IInv
<1>3. joins <= world.links + Len(world.match)
  <2>1. PICK A : A = Greeting(links)
    OBVIOUS
  <2>2. A \subseteq 1 .. Len(links)
    BY <1>1, <2>1 DEF Greeting
  <2>3. IsFiniteSet(1 .. Len(links))
    BY <1>1, FS_Interval
  <2>4. Cardinality(A) \in Nat
    BY <2>2, <2>3, FS_Subset, FS_CardinalityType
  <2>5. joins + Cardinality(A) <= Len(links) + Len(world.match)
    BY <2>1 DEF IInv, Joined
  <2> QED  BY <1>1, <2>4, <2>5
<1>4. ASSUME NEW s \in Seats
      PROVE  /\ guest[s] \in [key : 0 .. joins, name : People \cup {"-"}, conn : 0 .. Len(links),
                              loaded : BOOLEAN, game : BOOLEAN, held : BOOLEAN, reserved : BOOLEAN]
             /\ guest[s].held => guest[s].conn = 0 /\ ~guest[s].reserved
             /\ guest[s].loaded => phase # "Room"
             /\ \A t \in Seats \ {s} : s \in Taken => guest[s].key # guest[t].key
             /\ \A t \in Connected \ {s} : guest[s].conn # guest[t].conn
  <2>1. PICK a \in GuestRecord : a = guest[s]
    BY GuestsLink
  <2>2. a.key \in 0 .. joins /\ a.conn \in 0 .. Len(links)
    BY <2>1, GuestsLink
  <2>3. a \in [key : 0 .. joins, name : People \cup {"-"}, conn : 0 .. Len(links),
               loaded : BOOLEAN, game : BOOLEAN, held : BOOLEAN, reserved : BOOLEAN]
    BY <2>2 DEF GuestRecord, Names
  <2>4. GuestsInv(guest, joins, phase, Len(links))
    BY DEF IInv
  <2>5. /\ guest[s].held => guest[s].conn = 0 /\ ~guest[s].reserved
        /\ guest[s].loaded => phase # "Room"
        /\ \A t \in Seats \ {s} : guest[s].key # 0 => guest[s].key # guest[t].key
    BY <2>4 DEF GuestsInv
  <2>6. \A t \in Seats \ {s} : guest[t].conn # 0 => guest[t].conn # guest[s].conn
    BY <2>4 DEF GuestsInv
  <2> QED  BY <2>1, <2>3, <2>5, <2>6 DEF Taken, Connected
<1>5. ASSUME NEW p \in People
      PROVE  client[p] \in [phase : {"Off", "Joining", "InRoom", "Loading", "Loaded", "Begun"},
                            link : 0 .. Len(links), key : 0 .. joins, start : 0 .. starts]
  <2>1. PICK c \in ClientRecord : c = client[p]
    BY DEF IInv
  <2>2. /\ c.key <= joins /\ c.start <= starts
        /\ c.link # 0 => c.link \in DOMAIN links
    BY <2>1 DEF IInv, ClientInv
  <2>3. c.key \in Nat /\ c.start \in Nat /\ c.link \in Nat
    BY DEF ClientRecord
  <2>4. c.key \in 0 .. joins /\ c.start \in 0 .. starts /\ c.link \in 0 .. Len(links)
    BY <1>1, <2>2, <2>3
  <2> QED  BY <2>1, <2>4 DEF ClientRecord
<1>6. starts <= world.starts /\ presses <= world.presses /\ faults <= world.faults
  BY <1>1
<1> QED  BY <1>1, <1>2, <1>3, <1>4, <1>5, <1>6 DEF TypeOK

\* The leader.
LEMMA InvLeader == IInv => LeaderIsFirst
<1> SUFFICES ASSUME IInv, world.lobby PROVE LeaderIsFirst
  BY DEF LeaderIsFirst
<1>1. PICK may : may = {s \in Taken : ~guest[s].reserved
                                      /\ (Reserved(guest) = {} \/ OfMatch(guest, s))}
  OBVIOUS
<1>2. may = MayLead(guest)
  BY <1>1 DEF MayLead, Taken
<1>3. First(guest, leader)
  BY DEF IInv
<1>4. 0 \notin may
  <2>1. PICK n \in Nat : n = Cardinality(Seats)
    BY LobbyAssumption, FS_CardinalityType DEF LobbyAssumption
  <2>2. Seats = 1 .. n
    BY <2>1, LobbyAssumption DEF LobbyAssumption
  <2>3. 0 \notin Seats
    BY <2>2
  <2> QED  BY <1>2, <2>3 DEF MayLead
<1>5. /\ leader = 0 <=> may = {}
      /\ leader # 0 => leader \in may /\ \A s \in may : guest[leader].key <= guest[s].key
  BY <1>2, <1>3, <1>4 DEF First
<1> QED  BY <1>1, <1>5 DEF LeaderIsFirst

\* A guest with nothing left to read.
LEMMA FitsRest ==
  ASSUME NEW k, k.up \in Seq(Ups), k.down = <<>>, NEW c, NEW ph, NEW st, NEW ld,
         Fits(k, c, ph, st, ld)
  PROVE  /\ ph = "Room" => c.phase = "InRoom"
         /\ ph = "Loading" => \/ c.phase \in {"Loading", "Loaded"} /\ c.start = st
                              \/ [type |-> "Loaded", ok |-> FALSE] \in Range(k.up)
         /\ ph = "Begun" => c.phase = "Begun"
<1>1. \A a, b, e : ~One(k.down, a) /\ ~Two(k.down, a, b) /\ ~Three(k.down, a, b, e)
  <2>1. Len(k.down) = 0
    OBVIOUS
  <2> QED  BY <2>1 DEF One, Two, Three
<1>2. Reports(k.up, FALSE) => [type |-> "Loaded", ok |-> FALSE] \in Range(k.up)
  <2> SUFFICES ASSUME NEW i \in DOMAIN k.up, k.up[i].type = "Loaded", k.up[i].ok = FALSE
               PROVE  [type |-> "Loaded", ok |-> FALSE] \in Range(k.up)
    BY DEF Reports
  <2>1. k.up[i] \in Ups
    OBVIOUS
  <2>2. k.up[i] = [type |-> "Loaded", ok |-> k.up[i].ok]
    BY <2>1, UpFields
  <2>3. k.up[i] \in Range(k.up)
    BY DEF Range
  <2> QED  BY <2>2, <2>3
<1> QED  BY <1>1, <1>2 DEF Fits

\* In step.
LEMMA InvInStep == IInv /\ world.pause => InStep
<1> SUFFICES ASSUME IInv, world.pause PROVE InStep
  OBVIOUS
<1>1. world.lobby /\ phase = "Loading" => EveryoneInGame
  BY DEF IInv, Gathered, EveryoneInGame, Taken
<1>2. ASSUME NEW s \in Seats, NEW l, l = guest[s].conn, l # 0, client[links[l].of].link = l,
             links[l].open, links[l].down = <<>>
      PROVE  LET c == client[links[l].of]
             IN  /\ phase = "Room" => c.phase = "InRoom"
                 /\ phase = "Loading" =>
                      \/ c.phase \in {"Loading", "Loaded"} /\ c.start = starts
                      \/ [type |-> "Loaded", ok |-> FALSE] \in Range(links[l].up)
                 /\ phase = "Begun" => c.phase = "Begun"
  <2>1. Fits(links[l], client[links[l].of], phase, starts, guest[s].loaded)
    BY <1>2 DEF IInv, InLine, Used
  <2>2. links[l].up \in Seq(Ups)
    BY <1>2, LobbyAssumption, GuestsLink, WorldFields, LinkFields
  <2> QED  BY <1>2, <2>1, <2>2, FitsRest
<1> QED  BY <1>1, <1>2 DEF InStep, Connected

\* The types of the room and of the machines that wait in it (lobby.hpp), with no more Welcomes of
\* new guests than links were made, every guest on a link of his own and no two with one key.
THEOREM TypeCorrect == Spec => []TypeOK
BY Inductive, InvTypes, PTL

\* A lobby room is led by the first of those who may lead it, and by nobody only when nobody may
\* (elect_leader), for every number of persons and seats.
THEOREM LeaderComesFirst == Spec => []LeaderIsFirst
BY Inductive, InvLeader, PTL

\* In a world where what is on its way arrives before the next start, a guest who has read
\* everything is where the room is (the Start, Loaded, Begin and Cancel of ClientLobby::apply
\* and HostLobby).
THEOREM StaysInStep == Spec => [](world.pause => InStep)
<1>1. IInv => (world.pause => InStep)
  BY InvInStep
<1> QED  BY <1>1, Inductive, PTL
=============================================================================
