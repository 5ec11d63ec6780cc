--------------------------- MODULE MCAttemptStart ---------------------------
(***************************************************************************)
(* A small instance of AttemptStart.                                       *)
(***************************************************************************)
EXTENDS AttemptStart, TLC

CONSTANTS x, y, stop

Pair == {x, y}
One == {stop}
\* Two troubles: a crash, a failed call or a reopened issue.
Bounds == crashes + faults + reopens <= 2

RunnerSymmetry == Permutations(Runners)

=============================================================================
