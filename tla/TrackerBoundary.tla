---------------------------- MODULE TrackerBoundary ----------------------------
(***************************************************************************)
(* What a tracker adapter promises the v4 scheduler (v4/src/tracker.ts and *)
(* the bullets of v4/README.md on the compare-and-set boundary): work      *)
(* items whose state only moves along the lifecycle table, one version     *)
(* number per accepted write, and one claim at a time.  A                   *)
(* claim is named by its fence; fences are derived from the version the    *)
(* claim was made at, so the fence of an issue is that version, and 0      *)
(* stands for "no claim".                                                  *)
(* FakeTracker and GitHubTracker are shown to implement this module.       *)
(***************************************************************************)
EXTENDS Lifecycle, Naturals

CONSTANTS
    Issues,
    Exclusive   \* TRUE: one claim over the whole project; FALSE: one per issue

VARIABLES
    state,      \* state[i]: lifecycle state of issue i
    version,    \* version[i]: number of accepted writes + 1
    holder      \* holder[i]: fence of the claim on i, or 0

vars == <<state, version, holder>>

Init ==
    /\ state = [i \in Issues |-> "ready"]
    /\ version = [i \in Issues |-> 1]
    /\ holder = [i \in Issues |-> 0]

Accept(i, to, fence) ==
    /\ state' = [state EXCEPT ![i] = to]
    /\ version' = [version EXCEPT ![i] = @ + 1]
    /\ holder' = [holder EXCEPT ![i] = fence]

\* A claim is granted only while no issue in its range is claimed.
Claim(i) ==
    /\ holder[i] = 0
    /\ Exclusive => \A j \in Issues : holder[j] = 0
    /\ state[i] \in {"ready", "retry-wait"}
    /\ Accept(i, "claimed", version[i])

\* Heartbeats, and the moves that keep the claim.
Hold(i, to) ==
    /\ holder[i] # 0
    /\ to = state[i] \/ CanMove(state[i], to)
    /\ to \notin ReleasingStates \cup {"retry-wait"}
    /\ Accept(i, to, holder[i])

\* The moves that end the claim.
Free(i, to) ==
    /\ holder[i] # 0
    /\ CanMove(state[i], to)
    /\ to \in ReleasingStates \cup {"retry-wait"}
    /\ Accept(i, to, 0)

\* Moves of an issue nobody works on.
Unclaimed(i, to) ==
    /\ holder[i] = 0
    /\ CanMove(state[i], to)
    /\ to # "claimed"
    /\ Accept(i, to, 0)

Next ==
    \E i \in Issues :
        \/ Claim(i)
        \/ \E to \in LifecycleStates : Hold(i, to) \/ Free(i, to) \/ Unclaimed(i, to)

Spec == Init /\ [][Next]_vars

=============================================================================
