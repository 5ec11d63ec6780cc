----------------------------- MODULE FakeTracker -----------------------------
(***************************************************************************)
(* FakeGitHubAdapter (v4/src/adapters.ts), the in-process tracker the      *)
(* scheduler is developed against.  Every method runs to completion        *)
(* without an await, so each is one atomic action.  Callers pass the time  *)
(* they read earlier, which may be behind the clock.                       *)
(***************************************************************************)
EXTENDS Lifecycle, Integers

CONSTANTS
    Issues,
    HighRisk,       \* issues whose contract has risk "high"
    Deployable,     \* issues whose deployAuthority is not "none"
    MaxAttempts,    \* scheduler.maxAttempts
    Ttl,            \* scheduler.claimTtlMs
    RetryBase,      \* scheduler.retryBaseMs
    RetryMax,       \* scheduler.retryMaxMs
    MaxTime,        \* bound: the clock stops here
    MaxVersion      \* bound: issue i accepts no write beyond version MaxVersion[i]

VARIABLES
    snap,           \* snap[i]: the stored TrackerIssueSnapshot of issue i
    now             \* the clock callers read

vars == <<snap, now>>

\* failClaim's exponential backoff, capped.
Delay(attempt) ==
    LET exponential == RetryBase * 2^(attempt - 1)
    IN  IF exponential < RetryMax THEN exponential ELSE RetryMax

ASSUME FakeTrackerAssumption ==
    /\ HighRisk \subseteq Issues
    /\ Deployable \subseteq Issues
    /\ MaxAttempts \in Nat \ {0}
    /\ Ttl \in Nat \ {0}
    /\ MaxTime \in Nat
    /\ MaxVersion \in [Issues -> Nat]
    /\ \A k \in 1..MaxAttempts : Delay(k) \in Nat

\* The fence hashes issue, attempt, version and base, so on one issue it is
\* identified by the version the claim was proposed at; versions start at 1.
NoClaim == [fence |-> 0, attempt |-> 0, claimedAt |-> 0, beat |-> 0, expires |-> 0]
NoRetry == [attempt |-> 0, due |-> 0]

Evidence == {"pr", "gate", "deploy"}

Claims == [fence : Nat, attempt : 0..MaxAttempts, claimedAt : Nat, beat : Nat, expires : Int]
Retries == [attempt : 0..MaxAttempts, due : Nat]

Snapshots ==
    [state : LifecycleStates, version : Nat \ {0}, claim : Claims,
     retry : Retries, evidence : SUBSET Evidence]

Claimed(i) == snap[i].claim # NoClaim
ActiveClaims == {i \in Issues : Claimed(i)}

\* seed
Seeded ==
    [state |-> "ready", version |-> 1, claim |-> NoClaim, retry |-> NoRetry, evidence |-> {}]

Init ==
    /\ snap = [i \in Issues |-> Seeded]
    /\ now = 0

\* Mutant of Write: the version is not advanced.
WriteKeepingVersion(i, to, claim, retry, evidence) ==
    /\ snap' = [snap EXCEPT ![i] =
                   [state |-> to, version |-> @.version, claim |-> claim,
                    retry |-> retry, evidence |-> evidence]]
    /\ UNCHANGED now

\* One accepted write: every method below ends in it.
Write(i, to, claim, retry, evidence) ==
    /\ snap[i].version < MaxVersion[i]
    /\ snap' = [snap EXCEPT ![i] =
                   [state |-> to, version |-> @.version + 1, claim |-> claim,
                    retry |-> retry, evidence |-> evidence]]
    /\ UNCHANGED now

\* The attempt a claim has to propose.
NextAttempt(s) == IF s.retry = NoRetry THEN 1 ELSE s.retry.attempt

\* Mutant of Claimable: the project-wide limit is dropped.
ClaimableBesideAnother(i, v, attempt, at) ==
    /\ snap[i].version = v
    /\ snap[i].state \in {"ready", "retry-wait"}
    /\ snap[i].state = "retry-wait" => snap[i].retry.due <= at
    /\ attempt = NextAttempt(snap[i])

\* The conditions under which tryClaim does not return null.
Claimable(i, v, attempt, at) ==
    /\ snap[i].version = v
    /\ ActiveClaims = {}
    /\ snap[i].state \in {"ready", "retry-wait"}
    /\ snap[i].state = "retry-wait" => snap[i].retry # NoRetry /\ snap[i].retry.due <= at
    /\ attempt = NextAttempt(snap[i])

TryClaim(i, v, attempt, at) ==
    /\ Claimable(i, v, attempt, at)
    /\ Write(i, "claimed",
             [fence |-> v, attempt |-> attempt, claimedAt |-> at, beat |-> at, expires |-> at + Ttl],
             NoRetry, snap[i].evidence)

\* byFence finds the issue: the fence is that of its current claim.
Holds(i, fence) == Claimed(i) /\ snap[i].claim.fence = fence

MarkRunning(i, fence, at) ==
    LET claim == snap[i].claim IN
    /\ Holds(i, fence)
    /\ CanMove(snap[i].state, "running")
    /\ Write(i, "running",
             [claim EXCEPT !.beat = at, !.expires = at + (claim.expires - claim.claimedAt)],
             snap[i].retry, snap[i].evidence)

Heartbeat(i, fence, at) ==
    /\ Holds(i, fence)
    /\ Write(i, snap[i].state, [snap[i].claim EXCEPT !.beat = at, !.expires = at + Ttl],
             snap[i].retry, snap[i].evidence)

\* Mutant of AfterFailure: one attempt too many.
AfterFailureLate(i, class) ==
    IF Retryable(class) /\ snap[i].claim.attempt <= MaxAttempts THEN "retry-wait" ELSE "failed"

\* Where failClaim sends the issue.
AfterFailure(i, class) ==
    IF Retryable(class) /\ snap[i].claim.attempt < MaxAttempts THEN "retry-wait" ELSE "failed"

FailClaim(i, fence, class, at) ==
    LET to == AfterFailure(i, class)
        attempt == snap[i].claim.attempt IN
    /\ Holds(i, fence)
    /\ CanMove(snap[i].state, to)
    /\ Write(i, to, NoClaim,
             IF to = "retry-wait"
             THEN [attempt |-> attempt + 1, due |-> at + Delay(attempt)]
             ELSE NoRetry,
             snap[i].evidence)

\* The targets transition() is called with; claims, starts and retries have
\* operations of their own.
Targets == LifecycleStates \ {"claimed", "running", "retry-wait"}

EvidenceAllows(i, to, evidence) ==
    /\ to = "pr-open" => "pr" \in evidence
    /\ to = "owner-gate" => "gate" \in evidence
    /\ to = "merged" /\ i \in HighRisk => snap[i].state = "owner-gate"
    /\ to = "deployed" => "deploy" \in evidence
    /\ to = "done" /\ i \in Deployable => snap[i].state = "deployed"

Transition(i, to, fence, given) ==
    LET evidence == snap[i].evidence \cup given IN
    /\ Claimed(i) => snap[i].claim.fence = fence
    /\ CanMove(snap[i].state, to)
    /\ EvidenceAllows(i, to, evidence)
    /\ Write(i, to, IF to \in ReleasingStates THEN NoClaim ELSE snap[i].claim,
             snap[i].retry, evidence)

Tick ==
    /\ now < MaxTime
    /\ now' = now + 1
    /\ UNCHANGED snap

\* The evidence a caller may pass: what the target asks for, or nothing.
Asked(to) ==
    CASE to = "pr-open" -> {"pr"}
      [] to = "owner-gate" -> {"gate"}
      [] to = "deployed" -> {"deploy"}
      [] OTHER -> {}

\* Every caller, with any version or fence it may have read and any time up to
\* the present.
Operate(i, known, at) ==
    \/ \E attempt \in 1..MaxAttempts : TryClaim(i, known, attempt, at)
    \/ MarkRunning(i, known, at)
    \/ Heartbeat(i, known, at)
    \/ \E class \in FailureClasses : FailClaim(i, known, class, at)
    \/ \E to \in Targets : \E given \in {{}, Asked(to)} : Transition(i, to, known, given)

Next ==
    \/ \E i \in Issues : \E known \in 1..MaxVersion[i], at \in 0..now : Operate(i, known, at)
    \/ Tick

Spec == Init /\ [][Next]_vars

-----------------------------------------------------------------------------

\* Type invariant: snapshots have the shape the adapter stores, and attempts
\* stay within maxAttempts.
TypeOK ==
    /\ snap \in [Issues -> Snapshots]
    /\ now \in Nat

\* The states in which a run is attached to the issue.
HeldStates == {"claimed", "running", "pr-open", "review", "owner-gate", "merged", "deployed"}

\* A claim is attached exactly while the lifecycle says somebody works on the
\* issue: no exit from a run leaves a claim behind to block the project, and no
\* running state is ever without a claim for reconcile to find it by.
ClaimMatchesState == \A i \in Issues : Claimed(i) <=> snap[i].state \in HeldStates

\* At most one issue of the whole project is claimed, whatever the callers do
\* (tryClaim's activeClaims guard, and nothing else adding a claim).
WipOne == \A i, j \in Issues : Claimed(i) /\ Claimed(j) => i = j

\* The adapter implements what the scheduler is promised: the refinement maps a
\* snapshot to its state, version and the fence of its claim.
Boundary ==
    INSTANCE TrackerBoundary WITH
        Exclusive <- TRUE,
        state <- [i \in Issues |-> snap[i].state],
        version <- [i \in Issues |-> snap[i].version],
        holder <- [i \in Issues |-> snap[i].claim.fence]

\* Every behaviour of the adapter is one of TrackerBoundary.
ImplementsBoundary == Boundary!Spec

=============================================================================
