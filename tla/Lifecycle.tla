------------------------------ MODULE Lifecycle ------------------------------
(***************************************************************************)
(* The lifecycle of a v4 work item: the states, the transition table and   *)
(* the two classifications every tracker adapter consults                  *)
(* (v4/src/domain.ts).  The table is the whole authority: the scheduler    *)
(* and the adapters refuse any move it does not list.                      *)
(***************************************************************************)

LifecycleStates ==
    {"ready", "claimed", "running", "pr-open", "review", "owner-gate",
     "merged", "deployed", "done", "blocked", "retry-wait", "failed",
     "cancelled", "preservation-unknown"}

\* The exits that every state holding a run offers.
Aborts == {"blocked", "failed", "cancelled", "preservation-unknown"}

NormalTransitions ==
    [s \in LifecycleStates |->
        CASE s = "ready"      -> {"claimed", "blocked", "cancelled"}
          [] s = "claimed"    -> Aborts \cup {"running", "retry-wait"}
          [] s = "running"    -> Aborts \cup {"pr-open", "retry-wait"}
          [] s = "pr-open"    -> Aborts \cup {"review", "owner-gate", "merged"}
          [] s = "review"     -> Aborts \cup {"owner-gate", "merged"}
          [] s = "owner-gate" -> Aborts \cup {"merged"}
          [] s = "merged"     -> {"deployed", "done", "preservation-unknown"}
          [] s = "deployed"   -> {"done", "preservation-unknown"}
          [] s = "blocked"    -> {"ready", "cancelled"}
          [] s = "retry-wait" -> {"claimed", "failed", "cancelled"}
          [] OTHER            -> {}]

\* assertLifecycleTransition does not throw.
CanMove(from, to) == to \in NormalTransitions[from]

\* isTerminalState
TerminalStates == {"done", "failed", "cancelled", "preservation-unknown"}

\* transition() drops the claim on these targets.
ReleasingStates == TerminalStates \cup {"blocked"}

FailureClasses == {"transient", "runtime", "contract", "policy", "preservation"}

\* isRetryableFailure
Retryable(class) == class \in {"transient", "runtime"}

=============================================================================
