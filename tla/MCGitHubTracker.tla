--------------------------- MODULE MCGitHubTracker ---------------------------
(***************************************************************************)
(* Small instances of GitHubTracker.                                       *)
(***************************************************************************)
EXTENDS GitHubTracker, TLC

CONSTANTS a, b, x, y

One == {a}
Two == {a, b}
Pair == {x, y}

\* Every runner sees every issue.
FullScope == [r \in Runners |-> Issues]

RunnerSymmetry == Permutations(Runners)

\* Nobody has touched issue i.
Untouched(i) == snap[i] = Baseline /\ \A r \in Runners : op[r].pc = "idle" \/ op[r].issue # i

\* The part of an issue's life in which it is claimed and retried.
Early(s) ==
    /\ s.version <= 3
    /\ s.state \in {"ready", "claimed", "running", "retry-wait", "preservation-unknown", "failed"}

\* Two instances in one: the whole life of one issue, in which no call fails, and the early
\* lives of two issues with failing calls.
Bounds ==
    \/ /\ Untouched(b) /\ faults = MaxFaults
       /\ "preservation-unknown" \notin {snap[a].state} \cup {op[r].next.state : r \in Runners}
    \/ /\ provider[a] = {} /\ \A i \in Issues : Early(snap[i])
       /\ \A r \in Runners : Early(op[r].next)

=============================================================================
