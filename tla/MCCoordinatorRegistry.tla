------------------------ MODULE MCCoordinatorRegistry ------------------------
(***************************************************************************)
(* A small instance of CoordinatorRegistry.                                *)
(***************************************************************************)
EXTENDS CoordinatorRegistry, TLC

CONSTANTS a, b, k, l

TwoProjects == {1, 2}
TwoSessions == {a, b}
TwoLanes == {k, l}

\* Every lane has a work unit and a worktree of its own.
Distinct == [x \in Lanes |-> x]

Symmetry == Permutations(Sessions) \cup Permutations(Lanes)

\* Two instances in one: one project with lanes, three generations and one thing at a time
\* that is wrong, a session in violation or archived or a lane that cannot be read, and two
\* projects with sessions that are relabelled.
Unfit == {s \in Sessions : ~session[s].clean \/ session[s].life = "archived"}
Unreadable == {x \in Lanes : ~lane[x].visible}

OneProject ==
    /\ rec[2] = NoRecord
    /\ \A s \in Sessions : session[s].project = 1
    /\ \A call \in calls : call.project = 1
    /\ Cardinality(Unfit) + Cardinality(Unreadable) <= 1
    /\ Unreadable \subseteq LiveLanes
NoLanes ==
    /\ \A x \in Lanes : lane[x].life = "absent"
    /\ \A p \in Projects : rec[p].generation <= 2
    /\ \A s \in Sessions : session[s].clean
Bounds == OneProject \/ NoLanes

=============================================================================
