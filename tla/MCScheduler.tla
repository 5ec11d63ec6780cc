---------------------------- MODULE MCScheduler ----------------------------
(***************************************************************************)
(* Small instances of Scheduler: issues are numbered in the order          *)
(* compareForDispatch puts them in, runners are model values.              *)
(***************************************************************************)
EXTENDS Scheduler

CONSTANTS r1, r2

One == {1}
None == {}
PullRequest == {"pr-open"}

\* More versions than the bounded clock can use up.
Plenty == [i \in Issues |-> 40]

=============================================================================
