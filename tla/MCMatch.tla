------------------------------- MODULE MCMatch -------------------------------
(* Small matches for TLC; the cfg files choose the seats and the bounds. *)
EXTENDS Match

CONSTANT MaxLosses   \* bound: the guests that go, in whatever way

MCCommand == 1 .. MaxCommands

FewLosses ==
  Cardinality({g \in Guests : ~present[g] \/ ~wire[g] \/ mode[g] = "Lost"}) <= MaxLosses
=============================================================================
