---------------------------- MODULE MCHostMigration ----------------------------
EXTENDS HostMigration

\* Three machines; the host dies, and then, perhaps, the one that takes over
Three == [seats |-> 0 .. 2, firstHost |-> 0, steady |-> TRUE, patient |-> TRUE, whole |-> TRUE,
          refusalLimit |-> 3, maxTurns |-> 1, maxCrashes |-> 2, maxCuts |-> 0]

\* Three guests are left
Four == [Three EXCEPT !.seats = 0 .. 3, !.maxCrashes = 1]

\* A guest loses its link, or a machine dies
CutOffGuest == [Three EXCEPT !.maxCrashes = 1, !.maxCuts = 1, !.refusalLimit = 2]

\* Machines and links that stand still for seconds: every time-out may fire
Hung == [Three EXCEPT !.steady = FALSE, !.patient = FALSE, !.whole = FALSE,
                      !.refusalLimit = 1, !.maxCrashes = 0]

MCWorlds == {Three, Four, CutOffGuest, Hung}

\* The lowest guest hangs, and the two others elect at the same moment
MCCrossing == {[Four EXCEPT !.patient = FALSE, !.maxTurns = 0]}

\* The candidate dies as well, and three guests were left before
MCSecondFailure == {[Four EXCEPT !.maxTurns = 0, !.maxCrashes = 2]}

\* The host dies, and the link between its successor and a guest breaks while Resumes are read
MCLate == {[Four EXCEPT !.maxTurns = 0, !.maxCuts = 1]}
==============================================================================
