---------------------------- MODULE GitHubTracker ----------------------------
(***************************************************************************)
(* GitHubTrackerAdapter (v4/src/github-adapter.ts): claims and lifecycle   *)
(* state kept in append-only comments on GitHub, written by runners that   *)
(* share nothing else.                                                     *)
(*                                                                         *)
(* An issue's state is the reduction of its event comments in id order: a  *)
(* comment whose expectedVersion is behind is ignored, the first one at    *)
(* the current version is accepted, an inadmissible one makes every later  *)
(* read throw.  Whether a comment is accepted is settled the moment it is  *)
(* appended, so the reduction is kept incrementally in snap and poisoned;  *)
(* the shared fence issue is reduced to lease in the same way.             *)
(*                                                                         *)
(* Every method is a sequence of provider calls.  A runner's position in   *)
(* it is op[r].pc; between two calls other runners, the clock and crashes  *)
(* interleave.  A call may fail, or succeed with its reply lost.           *)
(***************************************************************************)
EXTENDS Lifecycle, Integers

CONSTANTS
    Issues,
    Runners,
    Scope,          \* Scope[r]: the issues ScopedGitHubTransport shows to runner r
    HighRisk, Deployable,
    Delivered,      \* issues whose agent opens a pull request
    Targets,        \* the states transition() is called with
    Classes,        \* the failure classes failClaim() is called with
    MaxAttempts, Ttl, RetryBase, RetryMax,
    Timely,         \* TRUE: calls end, and claims are renewed, within Ttl
    MaxFaults,      \* bound: crashes and failed calls in a behaviour
    MaxTime,        \* bound: the clock stops here
    MaxVersion      \* bound: no method starts on an issue at this version

Delay(attempt) ==
    LET exponential == RetryBase * 2^(attempt - 1)
    IN  IF exponential < RetryMax THEN exponential ELSE RetryMax

ASSUME GitHubTrackerAssumption ==
    /\ Issues # {}
    /\ Scope \in [Runners -> SUBSET Issues]
    /\ HighRisk \subseteq Issues
    /\ Deployable \subseteq Issues
    /\ Delivered \subseteq Issues
    \* claims, starts and retries have methods of their own
    /\ Targets \subseteq LifecycleStates \ {"claimed", "running", "retry-wait"}
    /\ Classes \subseteq FailureClasses
    /\ MaxAttempts \in Nat \ {0}
    /\ Ttl \in Nat \ {0}
    /\ Timely \in BOOLEAN
    /\ MaxFaults \in Nat
    /\ MaxTime \in Nat
    /\ MaxVersion \in Nat
    /\ \A k \in 1..MaxAttempts : Delay(k) \in Nat

VARIABLES
    snap,       \* snap[i]: the snapshot the event comments of issue i reduce to
    poisoned,   \* poisoned[i]: an inadmissible event is in the ledger of i
    provider,   \* provider[i]: pull request evidence on the exact branch and base
    lease,      \* the shared fence: who may claim in this project
    label,      \* label[i]: the state shown by i's lifecycle label and status field
    gateField,  \* gateField[i]: i's Project Gate field holds the gate ID
    op,         \* op[r]: the method runner r is in
    unwound,    \* some tryClaim threw although its claim comment was accepted
    now,
    faults      \* crashes and failed calls still to come

ledger == <<snap, poisoned>>
projection == <<label, gateField>>
world == <<provider, now>>
vars == <<snap, poisoned, provider, lease, label, gateField, op, unwound, now, faults>>

-----------------------------------------------------------------------------
(* Data *)

\* A fence hashes issue, attempt, version and base: on one issue it is the
\* version the claim was proposed at, the same for every runner proposing it.
NoClaim == [fence |-> 0, attempt |-> 0, expires |-> 0]
NoRetry == [attempt |-> 0, due |-> 0]
NoLease == [issue |-> CHOOSE i \in Issues : TRUE, fence |-> 0, expires |-> 0]

Claims == [fence : Nat, attempt : 0..MaxAttempts, expires : Nat]
Retries == [attempt : 0..MaxAttempts, due : Nat]
Leases == [issue : Issues, fence : Nat, expires : Nat]

\* Evidence the ledger carries; pull request evidence is read from the provider.
Evidence == {"gate", "deploy"}

Snapshots ==
    [state : LifecycleStates, version : Nat \ {0}, claim : Claims,
     retry : Retries, evidence : SUBSET Evidence]

Kinds == {"claim", "running", "heartbeat", "failure", "transition"}

\* Where a method stands: the provider call it makes next.
Pcs == {"idle", "acquire", "elected", "append", "confirm", "label", "gate", "final",
        "beat", "release", "unwind"}

Ops ==
    [pc : Pcs, kind : Kinds, issue : Issues, at : Nat,
     fence : Nat,           \* the fence of the claim the method is about, or 0
     next : Snapshots,      \* what its event turns the snapshot it read into
     accepted : BOOLEAN,    \* the comment it appended last was accepted
     shows : LifecycleStates]   \* the state it found when confirming

Baseline ==
    [state |-> "ready", version |-> 1, claim |-> NoClaim, retry |-> NoRetry, evidence |-> {}]

NoOp ==
    [pc |-> "idle", kind |-> "claim", issue |-> NoLease.issue, at |-> 0, fence |-> 0,
     next |-> Baseline, accepted |-> FALSE, shows |-> "ready"]

Init ==
    /\ snap = [i \in Issues |-> Baseline]
    /\ poisoned = [i \in Issues |-> FALSE]
    /\ provider = [i \in Issues |-> {}]
    /\ lease = NoLease
    /\ label = [i \in Issues |-> "ready"]
    /\ gateField = [i \in Issues |-> FALSE]
    /\ op = [r \in Runners |-> NoOp]
    /\ unwound = FALSE
    /\ now = 0
    /\ faults = MaxFaults

Claimed(i) == snap[i].claim # NoClaim

-----------------------------------------------------------------------------
(* Reading *)

\* hydrateCore does not throw: the ledger reduces, and an issue at its owner
\* gate whose label and status already say so has its Gate field filled in.
Readable(i) ==
    /\ ~poisoned[i]
    /\ snap[i].state = "owner-gate" /\ label[i] = "owner-gate" => gateField[i]

\* byFence and activeClaims load every issue in sight, strictly.
AllReadable(r) == \A i \in Scope[r] : Readable(i)

-----------------------------------------------------------------------------
(* The events methods append *)

NextAttempt(s) == IF s.retry = NoRetry THEN 1 ELSE s.retry.attempt

Becomes(i, to, claim, retry, evidence) ==
    [state |-> to, version |-> snap[i].version + 1, claim |-> claim,
     retry |-> retry, evidence |-> evidence]

\* Mutant of EvidenceAllows: a high-risk merge does not ask for the owner gate.
EvidenceAllowsUngated(i, to, evidence) ==
    /\ to = "pr-open" => "pr" \in provider[i]
    /\ to = "owner-gate" => "gate" \in evidence
    /\ to = "merged" => {"pr", "merge"} \subseteq provider[i]
    /\ to = "deployed" => "deploy" \in evidence
    /\ to = "done" /\ i \in Deployable => snap[i].state = "deployed"

\* validateTransitionEvidence, with the provider evidence transition() demands.
EvidenceAllows(i, to, evidence) ==
    /\ to = "pr-open" => "pr" \in provider[i]
    /\ to = "owner-gate" => "gate" \in evidence
    /\ to = "merged" => /\ {"pr", "merge"} \subseteq provider[i]
                        /\ i \in HighRisk => snap[i].state = "owner-gate"
    /\ to = "deployed" => "deploy" \in evidence
    /\ to = "done" /\ i \in Deployable => snap[i].state = "deployed"

\* reduceLedgerEvent does not throw on an event at the current version.
Admissible(kind, i, next) ==
    LET s == snap[i] IN
    CASE kind = "claim" ->
            /\ s.claim = NoClaim
            /\ s.state \in {"ready", "retry-wait"}
            /\ next.claim.attempt = NextAttempt(s)
      [] kind = "running" ->
            /\ s.claim # NoClaim
            /\ s.state = "claimed"
            /\ next.claim.fence = s.claim.fence
      [] kind = "heartbeat" ->
            /\ s.claim # NoClaim
            /\ next.state = s.state
            /\ next.claim.fence = s.claim.fence
      [] OTHER -> CanMove(s.state, next.state)

\* A method starts: it has read issue i and derived its event, and goes on to
\* its first write.
Start(r, pc, kind, i, at, fence, next) ==
    /\ op[r].pc = "idle"
    /\ i \in Scope[r]
    /\ snap[i].version < MaxVersion
    /\ op' = [op EXCEPT ![r] =
                 [pc |-> pc, kind |-> kind, issue |-> i, at |-> at, fence |-> fence,
                  next |-> next, accepted |-> FALSE, shows |-> snap[i].state]]
    /\ UNCHANGED <<ledger, projection, world, lease, unwound, faults>>

\* tryClaim, up to the election of the project-wide lease.
TryClaim(r, i, at) ==
    LET attempt == NextAttempt(snap[i])
        claim == [fence |-> snap[i].version, attempt |-> attempt, expires |-> at + Ttl] IN
    /\ Readable(i)
    /\ snap[i].claim = NoClaim
    /\ snap[i].state \in {"ready", "retry-wait"}
    /\ snap[i].state = "retry-wait" => snap[i].retry # NoRetry /\ snap[i].retry.due <= at
    /\ Start(r, "acquire", "claim", i, at, claim.fence,
             Becomes(i, "claimed", claim, NoRetry, snap[i].evidence))

MarkRunning(r, i, at) ==
    /\ AllReadable(r)
    /\ Claimed(i)
    /\ snap[i].state = "claimed"
    /\ Start(r, "append", "running", i, at, snap[i].claim.fence,
             Becomes(i, "running", snap[i].claim, NoRetry, snap[i].evidence))

Heartbeat(r, i, at) ==
    /\ AllReadable(r)
    /\ Claimed(i)
    /\ Start(r, "append", "heartbeat", i, at, snap[i].claim.fence,
             Becomes(i, snap[i].state, [snap[i].claim EXCEPT !.expires = at + Ttl],
                     snap[i].retry, snap[i].evidence))

\* A failed claim has another attempt.
Retried(i, class) == Retryable(class) /\ snap[i].claim.attempt < MaxAttempts

\* failClaim chooses the target and does not look at the state it leaves.
FailClaim(r, i, class, at) ==
    LET attempt == snap[i].claim.attempt IN
    /\ AllReadable(r)
    /\ Claimed(i)
    /\ Start(r, "append", "failure", i, at, snap[i].claim.fence,
             IF Retried(i, class)
             THEN Becomes(i, "retry-wait", NoClaim,
                          [attempt |-> attempt + 1, due |-> at + Delay(attempt)],
                          snap[i].evidence)
             ELSE Becomes(i, "failed", NoClaim, NoRetry, snap[i].evidence))

Transition(r, i, to, given, at) ==
    LET evidence == snap[i].evidence \cup given IN
    /\ Readable(i)
    /\ CanMove(snap[i].state, to)
    /\ EvidenceAllows(i, to, evidence)
    /\ Start(r, "append", "transition", i, at, snap[i].claim.fence,
             Becomes(i, to, IF to \in ReleasingStates THEN NoClaim ELSE snap[i].claim,
                     snap[i].retry, evidence))

-----------------------------------------------------------------------------
(* The provider calls of a method, in order *)

Goto(r, pc) == op' = [op EXCEPT ![r].pc = pc]
Return(r) == op' = [op EXCEPT ![r] = NoOp]

\* Mutant of LeaseFree: the lease lapses one unit early.
LeaseFreeEarly(at) == lease = NoLease \/ at + 1 >= lease.expires

\* reduceSharedFence: an acquisition succeeds on a free or expired lease.
LeaseFree(at) == lease = NoLease \/ at >= lease.expires
LeaseIs(i, fence) == lease # NoLease /\ lease.issue = i /\ lease.fence = fence

LeaseAfterAcquire(o) ==
    IF LeaseFree(o.at)
    THEN [issue |-> o.issue, fence |-> o.fence, expires |-> o.next.claim.expires]
    ELSE lease

LeaseAfterBeat(o) ==
    IF LeaseIs(o.issue, o.fence) THEN [lease EXCEPT !.expires = o.next.claim.expires] ELSE lease

LeaseAfterRelease(o) == IF LeaseIs(o.issue, o.fence) THEN NoLease ELSE lease

\* acquireSharedFence: append ...
Acquire(r) ==
    /\ op[r].pc = "acquire"
    /\ lease' = LeaseAfterAcquire(op[r])
    /\ op' = [op EXCEPT ![r].pc = "elected", ![r].accepted = LeaseFree(op[r].at)]
    /\ UNCHANGED <<ledger, projection, world, unwound, faults>>

\* ... and read back: the claim goes on only if this comment won the lease and
\* still has it.
CheckElection(r) ==
    /\ op[r].pc = "elected"
    /\ IF op[r].accepted /\ LeaseIs(op[r].issue, op[r].fence)
       THEN op' = [op EXCEPT ![r].pc = "append", ![r].accepted = FALSE]
       ELSE Return(r)
    /\ UNCHANGED <<ledger, projection, world, lease, unwound, faults>>

\* Mutant of Current: comments that come late count too.
CurrentEvenLate(o) == ~poisoned[o.issue] /\ snap[o.issue].version + 1 >= o.next.version

\* The comment is at the version the ledger is at, so it counts.
Current(o) == ~poisoned[o.issue] /\ snap[o.issue].version + 1 = o.next.version
Accepted(o) == Current(o) /\ Admissible(o.kind, o.issue, o.next)

AppendEvent(o) ==
    /\ snap' = IF Accepted(o) THEN [snap EXCEPT ![o.issue] = o.next] ELSE snap
    /\ poisoned' = [poisoned EXCEPT ![o.issue] = @ \/ (Current(o) /\ ~Accepted(o))]

Append(r) ==
    /\ op[r].pc = "append"
    /\ AppendEvent(op[r])
    /\ op' = [op EXCEPT ![r].pc = "confirm", ![r].accepted = Accepted(op[r])]
    /\ UNCHANGED <<projection, world, lease, unwound, faults>>

\* An exception leaves the method; tryClaim's catch block releases the lease on
\* the way out once it has been elected.
Throw(r) ==
    LET caught == op[r].kind = "claim" /\ op[r].pc \in
                      {"append", "confirm", "label", "gate", "final", "release"} IN
    /\ IF caught THEN Goto(r, "unwind") ELSE Return(r)
    /\ unwound' = (unwound \/ (caught /\ op[r].accepted))

\* Re-read: a comment that was not accepted is a lost compare-and-set, which
\* tryClaim answers by releasing the lease and every other method by throwing.
Confirm(r) ==
    LET i == op[r].issue IN
    /\ op[r].pc = "confirm"
    /\ \/ /\ Readable(i)
          /\ op[r].accepted
          /\ op' = [op EXCEPT ![r].pc = "label", ![r].shows = snap[i].state]
          /\ UNCHANGED unwound
       \/ /\ Readable(i)
          /\ ~op[r].accepted
          /\ IF op[r].kind = "claim" THEN Goto(r, "release") ELSE Return(r)
          /\ UNCHANGED unwound
       \/ /\ ~Readable(i)
          /\ Throw(r)
    /\ UNCHANGED <<ledger, projection, world, lease, faults>>

\* project: label and status field.  The state between the two is a label that
\* differs from the ledger, as before the first.
ProjectState(r) ==
    /\ op[r].pc = "label"
    /\ label' = [label EXCEPT ![op[r].issue] = op[r].shows]
    /\ Goto(r, IF op[r].shows = "owner-gate" THEN "gate" ELSE "final")
    /\ UNCHANGED <<ledger, gateField, world, lease, unwound, faults>>

\* project: the Gate field, last.
ProjectGate(r) ==
    /\ op[r].pc = "gate"
    /\ gateField' = [gateField EXCEPT ![op[r].issue] = TRUE]
    /\ Goto(r, "final")
    /\ UNCHANGED <<ledger, label, world, lease, unwound, faults>>

\* After commit: failClaim releases its claim's lease, transition does if the last read
\* shows no claim, and a heartbeat renews the lease of whatever claim that shows.
Proceed(r) ==
    LET o == op[r]
        claim == snap[o.issue].claim IN
    CASE o.kind = "heartbeat" /\ claim # NoClaim ->
            op' = [op EXCEPT ![r].pc = "beat", ![r].fence = claim.fence, ![r].next.claim = claim]
      [] o.kind = "failure" \/ (o.kind = "transition" /\ o.fence # 0 /\ claim = NoClaim) ->
            Goto(r, "release")
      [] OTHER -> Return(r)

\* commit's last read.
FinalRead(r) ==
    LET o == op[r] IN
    /\ o.pc = "final"
    /\ \/ /\ Readable(o.issue)
          /\ Proceed(r)
          /\ UNCHANGED unwound
       \/ /\ ~Readable(o.issue)
          /\ Throw(r)
    /\ UNCHANGED <<ledger, projection, world, lease, faults>>

\* heartbeatSharedFence: after the ledger has already been renewed.
BeatLease(r) ==
    /\ op[r].pc = "beat"
    /\ lease' = LeaseAfterBeat(op[r])
    /\ Return(r)
    /\ UNCHANGED <<ledger, projection, world, unwound, faults>>

\* releaseSharedFence
ReleaseLease(r) ==
    /\ op[r].pc \in {"release", "unwind"}
    /\ lease' = LeaseAfterRelease(op[r])
    /\ Return(r)
    /\ UNCHANGED <<ledger, projection, world, unwound, faults>>

-----------------------------------------------------------------------------
(* Faults, the clock and the outside world *)

\* A provider call fails without effect.
CallFails(r) ==
    /\ op[r].pc # "idle"
    /\ faults > 0
    /\ faults' = faults - 1
    /\ Throw(r)
    /\ UNCHANGED <<ledger, projection, world, lease>>

\* A comment is appended but the call reports an error.
ReplyLost(r) ==
    LET o == op[r] IN
    /\ faults > 0
    /\ faults' = faults - 1
    /\ \/ /\ o.pc = "acquire"
          /\ lease' = LeaseAfterAcquire(o)
          /\ Return(r)
          /\ UNCHANGED <<ledger, unwound>>
       \/ /\ o.pc = "append"
          /\ AppendEvent(o)
          /\ IF o.kind = "claim" THEN Goto(r, "unwind") ELSE Return(r)
          /\ unwound' = (unwound \/ (o.kind = "claim" /\ Accepted(o)))
          /\ UNCHANGED lease
       \/ /\ o.pc = "beat"
          /\ lease' = LeaseAfterBeat(o)
          /\ Return(r)
          /\ UNCHANGED <<ledger, unwound>>
       \/ /\ o.pc \in {"release", "unwind"}
          /\ lease' = LeaseAfterRelease(o)
          /\ Throw(r)
          /\ UNCHANGED ledger
    /\ UNCHANGED <<projection, world>>

\* The process dies; a later one starts from the provider's state.
Crash(r) ==
    /\ op[r].pc # "idle"
    /\ faults > 0
    /\ faults' = faults - 1
    /\ Return(r)
    /\ UNCHANGED <<ledger, projection, world, lease, unwound>>

\* Under Timely every method ends within Ttl and every claim is renewed before it
\* expires, in the ledger and on the shared fence; otherwise a runner may sleep
\* through either.
InTime(t) ==
    /\ \A r \in Runners :
          /\ op[r].pc # "idle" => t < op[r].at + Ttl
          /\ op[r].pc = "beat" => t < op[r].next.claim.expires
    /\ \A i \in Issues :
          Claimed(i) => /\ t < snap[i].claim.expires
                        /\ LeaseIs(i, snap[i].claim.fence) => t < lease.expires

Tick ==
    /\ now < MaxTime
    /\ Timely => InTime(now + 1)
    /\ now' = now + 1
    /\ UNCHANGED <<ledger, projection, provider, lease, op, unwound, faults>>

\* The agent opens the pull request of the issue it works on; it is merged.
PullRequest(i) ==
    /\ i \in Delivered
    /\ Claimed(i)
    /\ \/ provider[i] = {} /\ provider' = [provider EXCEPT ![i] = {"pr"}]
       \/ provider[i] = {"pr"} /\ provider' = [provider EXCEPT ![i] = {"pr", "merge"}]
    /\ UNCHANGED <<ledger, projection, lease, op, unwound, now, faults>>

\* The times a caller may pass: read from the clock at some moment up to now.
CallTimes == {t \in 0..now : Timely => now < t + Ttl}

Asked(to) ==
    CASE to = "owner-gate" -> {"gate"}
      [] to = "deployed" -> {"deploy"}
      [] OTHER -> {}

Call(r) ==
    \E i \in Issues, at \in CallTimes :
        \/ TryClaim(r, i, at)
        \/ MarkRunning(r, i, at)
        \/ Heartbeat(r, i, at)
        \/ \E class \in Classes : FailClaim(r, i, class, at)
        \/ \E to \in Targets : Transition(r, i, to, Asked(to), at)

Step(r) ==
    \/ Acquire(r) \/ CheckElection(r) \/ Append(r) \/ Confirm(r)
    \/ ProjectState(r) \/ ProjectGate(r) \/ FinalRead(r)
    \/ BeatLease(r) \/ ReleaseLease(r)

Fault(r) == CallFails(r) \/ ReplyLost(r) \/ Crash(r)

Next ==
    \/ \E r \in Runners : Call(r) \/ Step(r) \/ Fault(r)
    \/ \E i \in Issues : PullRequest(i)
    \/ Tick

Spec == Init /\ [][Next]_vars

-----------------------------------------------------------------------------
(* Properties *)

\* Type invariant.
TypeOK ==
    /\ snap \in [Issues -> Snapshots]
    /\ poisoned \in [Issues -> BOOLEAN]
    /\ provider \in [Issues -> SUBSET {"pr", "merge"}]
    /\ lease \in Leases
    /\ label \in [Issues -> LifecycleStates]
    /\ gateField \in [Issues -> BOOLEAN]
    /\ op \in [Runners -> Ops]
    /\ unwound \in BOOLEAN
    /\ now \in Nat
    /\ faults \in Nat

\* One claim in the project, whatever calls fail and whoever crashes, as long as
\* calls and renewals are timely and no tryClaim has unwound past its own
\* accepted claim (the catch block of github-adapter.ts:187-190): the one shared
\* fence is the claim's until the claim is gone.
WipOneUnlessUnwound ==
    ~unwound => \A i \in Issues :
                   Claimed(i) => LeaseIs(i, snap[i].claim.fence) /\ now < lease.expires

\* Each ledger taken alone implements the tracker boundary: every write moves
\* along the lifecycle table and advances the version by one, and only the
\* holder's fence ends a claim.  The project-wide exclusion is not part of it.
Boundary ==
    INSTANCE TrackerBoundary WITH
        Exclusive <- FALSE,
        state <- [i \in Issues |-> snap[i].state],
        version <- [i \in Issues |-> snap[i].version],
        holder <- [i \in Issues |-> snap[i].claim.fence]

LedgerImplementsBoundary == Boundary!Spec

\* A high-risk issue is merged only through an owner gate with its gate ID, also
\* when it was blocked, reopened and claimed anew on the way.
GateBeforeMerge ==
    \A i \in HighRisk :
        snap[i].state \in {"merged", "deployed", "done"} => "gate" \in snap[i].evidence

=============================================================================
