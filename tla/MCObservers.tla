----------------------------- MODULE MCObservers -----------------------------
(***************************************************************************)
(* Small instances of Cleanup and all below: cases that bound together     *)
(* what one question needs, instead of one bound on everything.            *)
(***************************************************************************)
EXTENDS Cleanup

Case(binding, strict, says, n, k, x, m, t, c) ==
    [binding |-> binding, strict |-> strict, says |-> says, runs |-> n, kills |-> k,
     faults |-> 0, acks |-> x, moves |-> m, turns |-> t, commits |-> c, sweeps |-> {}]

Two == {"running", "stalled"}
Four == Two \cup {"suspect", "error"}

\* A lane of either kind whose session moves, under two coordinators; and one that also has
\* its job killed and its receipt acknowledged.
Lanes ==
    {Case("worker-lease", TRUE, Two, 1, 0, 0, 1, 2, 1),
     Case("worker-lease", FALSE, Four, 1, 0, 0, 1, 2, 1),
     Case("worker-lease", FALSE, Two, 1, 1, 1, 1, 0, 0)}

\* A wait over two runs that replace each other, with acks or kills; over one that is
\* killed or not waited for, with a commitment; and over a rotation.
Waits ==
    {Case("external-wait", FALSE, {"running"}, 2, 0, 1, 0, 0, 0),
     Case("external-wait", FALSE, {"running"}, 2, 1, 0, 0, 0, 0),
     [Case("external-wait", FALSE, {"running"}, 1, 1, 1, 0, 0, 1) EXCEPT !.faults = 1],
     Case("external-wait", FALSE, {"running"}, 1, 0, 0, 0, 2, 2)}

Gates == {Case(b, FALSE, {"running"}, 0, 0, 0, 0, 3, 2) : b \in {"owner-gate", "scheduled-review"}}

\* A lane that is put away: with a job that outlives it, with a registry that moves, and
\* coming back; each kind of sweep by itself, and two that overlap.
Sweeping(kinds, says, n, m, t) ==
    [Case("worker-lease", FALSE, says, n, 0, 0, m, t, 0) EXCEPT !.sweeps = kinds]
Cleanups ==
    {Sweeping({"gc"}, {"stalled"}, 1, 1, 0), Sweeping({"gc"}, {"stalled"}, 0, 1, 1),
     Sweeping({"gc"}, {"stalled"}, 0, 2, 0), Sweeping({"archive"}, {"stalled"}, 0, 2, 0),
     Sweeping({"archive", "gc"}, {"stalled"}, 0, 1, 0),
     Sweeping({"scan"}, Two, 0, 1, 0)}

Bindings == Lanes \cup Waits \cup Gates \cup Cleanups

=============================================================================
