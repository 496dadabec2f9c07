------------------------------ MODULE MCRejoin ------------------------------
(* Two seats, and a machine that may be a second window for seat 0. *)
EXTENDS Rejoin

MCSeatOf == [m \in Machines |-> IF m = "b" THEN 1 ELSE 0]

Plain == [late |-> {}, astray |-> {}, limit |-> MaxTurns, gone |-> {}, links |-> 4, faults |-> 1,
          deaths |-> 0, power |-> FALSE]
Second == [Plain EXCEPT !.late = Latecomers]
Alone == [Second EXCEPT !.gone = {1}]

MCWorlds ==
  {[Plain EXCEPT !.faults = 2],                      \* links that fail twice
   Second,                                           \* a second window
   [Second EXCEPT !.astray = Latecomers, !.faults = 0],
   [Plain EXCEPT !.limit = 1, !.faults = 2],         \* a log that is full
   [Plain EXCEPT !.deaths = 1, !.faults = 0],        \* a restart
   [Plain EXCEPT !.deaths = 1, !.faults = 2, !.links = 6, !.gone = {1}],
   [Alone EXCEPT !.deaths = 1, !.power = TRUE, !.faults = 0, !.links = 5]}

\* One machine for each seat, whose links fail twice
MCOwn == {[Plain EXCEPT !.faults = 2]}
=============================================================================
