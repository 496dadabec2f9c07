----------------------------- MODULE MatchHistory -----------------------------
(***************************************************************************)
(* What the lock-step core promises: there is one history of a match, a    *)
(* sequence of turns that only grows, and every machine plays it from the  *)
(* first turn on, each at its own pace, without leaving out or changing a  *)
(* turn.  (docs/NETWORK_PORT.md: every peer executes the turns in sequence,*)
(* so they all apply the same commands at the same tick.)                  *)
(***************************************************************************)
EXTENDS Naturals, Sequences

CONSTANT Machines

VARIABLES history,   \* the turns that were sealed
          played     \* per machine, the turns that it has executed

vars == <<history, played>>

Init ==
  /\ history = <<>>
  /\ played = [m \in Machines |-> <<>>]

\* One more turn, whatever it holds
Seal ==
  /\ Len(history') = Len(history) + 1
  /\ SubSeq(history', 1, Len(history)) = history
  /\ UNCHANGED played

Play(m) ==
  /\ \E n \in Len(played[m]) + 1 .. Len(history) :
       played' = [played EXCEPT ![m] = SubSeq(history, 1, n)]
  /\ UNCHANGED history

Next == Seal \/ \E m \in Machines : Play(m)

Spec == Init /\ [][Next]_vars
=============================================================================
