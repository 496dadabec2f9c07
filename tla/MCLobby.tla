------------------------------ MODULE MCLobby ------------------------------
(* Two people and three seats. *)
EXTENDS Lobby

Local == [people |-> {"a", "b"}, lobby |-> FALSE, links |-> 3, starts |-> 2, presses |-> 0,
          faults |-> 1, pause |-> TRUE, least |-> 2, match |-> <<>>]
Waiting == [Local EXCEPT !.lobby = TRUE, !.starts = 1, !.presses = 1]
Pressing == [Waiting EXCEPT !.links = 2, !.presses = 2, !.faults = 0]  \* a START, moves, removals
Gather == [Waiting EXCEPT !.links = 4, !.faults = 0]                   \* two pages become games
Rematch == [Waiting EXCEPT !.presses = 0, !.match = <<"a", "c">>]      \* and c never comes back

MCWorlds == {Local, Waiting, Pressing, Gather, Rematch}

\* The next start does not wait for what is on its way
MCHasty == {[Local EXCEPT !.pause = FALSE, !.faults = 0]}
=============================================================================
