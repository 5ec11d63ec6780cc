-------------------------- MODULE GitHubTrackerProofs --------------------------
(***************************************************************************)
(* Proofs about GitHubTracker, for any issues, runners, scopes and faults. *)
(* The ledger first: a comment counts only while nothing was written since *)
(* its method read the issue, so what it makes of the issue is what the    *)
(* method derived from it.  Gates and the tracker boundary follow.  Then,  *)
(* if calls and renewals are timely, the shared fence: who has won an      *)
(* election holds the lease, alone, as long as his claim may be written.   *)
(***************************************************************************)
EXTENDS GitHubTracker, TLAPS

-----------------------------------------------------------------------------
(* The ledger *)

\* The states in which an issue may be claimed.
HeldStates == {"claimed", "running", "pr-open", "review", "owner-gate", "merged", "deployed"}

\* A claim has a fence of the past and one of the attempts there are, a retry too, and an
\* issue is at its owner gate with the gate's evidence.
Sound(s) ==
    /\ s.claim # NoClaim => /\ s.claim.fence > 0 /\ s.claim.fence < s.version
                            /\ s.claim.attempt > 0 /\ s.state \in HeldStates
    /\ s.retry # NoRetry => s.retry.attempt > 0
    /\ s.state = "owner-gate" => "gate" \in s.evidence

LedgerInv == GateBeforeMerge /\ \A i \in Issues : Sound(snap[i])

-----------------------------------------------------------------------------
(* The event of a method, as long as nothing was written since it read its issue *)

ClaimEvent(o) ==
    LET s == snap[o.issue] IN
    /\ s.claim = NoClaim /\ s.state \in {"ready", "retry-wait"}
    /\ o.next = Becomes(o.issue, "claimed",
                        [fence |-> s.version, attempt |-> NextAttempt(s), expires |-> o.at + Ttl],
                        NoRetry, s.evidence)

RunningEvent(o) ==
    LET s == snap[o.issue] IN
    /\ s.claim # NoClaim /\ s.state = "claimed"
    /\ o.next = Becomes(o.issue, "running", s.claim, NoRetry, s.evidence)

HeartbeatEvent(o) ==
    LET s == snap[o.issue] IN
    /\ s.claim # NoClaim
    /\ o.next = Becomes(o.issue, s.state, [s.claim EXCEPT !.expires = o.at + Ttl], s.retry, s.evidence)

FailureEvent(o) ==
    LET s == snap[o.issue] IN
    /\ s.claim # NoClaim /\ o.fence = s.claim.fence
    /\ o.next.state \in {"retry-wait", "failed"}
    /\ o.next.retry # NoRetry => o.next.retry.attempt > 0
    /\ o.next = Becomes(o.issue, o.next.state, NoClaim, o.next.retry, s.evidence)

TransitionEvent(o) ==
    LET s == snap[o.issue] IN
    /\ o.fence = s.claim.fence
    /\ \E to \in Targets, evidence \in SUBSET Evidence :
          /\ CanMove(s.state, to)
          /\ s.evidence \subseteq evidence
          /\ to = "owner-gate" => "gate" \in evidence
          /\ to = "merged" /\ o.issue \in HighRisk => s.state = "owner-gate"
          /\ o.next = Becomes(o.issue, to, IF to \in ReleasingStates THEN NoClaim ELSE s.claim,
                              s.retry, evidence)

Event(o) ==
    /\ o.kind = "claim" => ClaimEvent(o)
    /\ o.kind = "running" => RunningEvent(o)
    /\ o.kind = "heartbeat" => HeartbeatEvent(o)
    /\ o.kind = "failure" => FailureEvent(o)
    /\ o.kind = "transition" => TransitionEvent(o)

\* Before it appends its event, a method is behind the ledger, or the event is the one it
\* would derive now.
Fresh(o) ==
    o.pc \in {"acquire", "elected", "append"} =>
        /\ o.next.version <= snap[o.issue].version + 1
        /\ o.next.version = snap[o.issue].version + 1 => Event(o)

FreshInv == \A r \in Runners : Fresh(op[r])

BasicInv == TypeOK /\ LedgerInv /\ FreshInv

-----------------------------------------------------------------------------
(* Types *)

\* What the code's tables are made of.
LEMMA Tables ==
    ASSUME GitHubTrackerAssumption
    PROVE  /\ NoClaim \in Claims /\ NoRetry \in Retries /\ NoClaim.fence = 0 /\ NoClaim.attempt = 0
           /\ NoRetry.attempt = 0
           /\ NoLease \in Leases /\ NoLease.issue \in Issues /\ NoLease.fence = 0
           /\ Targets \subseteq LifecycleStates
           /\ {"ready", "claimed", "running", "retry-wait", "failed", "owner-gate"} \subseteq LifecycleStates
           /\ Ttl \in Nat \ {0} /\ MaxAttempts \in Nat \ {0}
  <1>1. NoLease.issue \in Issues
    BY DEF GitHubTrackerAssumption, NoLease
  <1>2. NoClaim \in Claims /\ NoRetry \in Retries
    BY DEF GitHubTrackerAssumption, NoClaim, NoRetry, Claims, Retries
  <1>3. NoLease \in Leases /\ NoLease.fence = 0
    BY <1>1 DEF NoLease, Leases
  <1>4. /\ Targets \subseteq LifecycleStates /\ Ttl \in Nat \ {0} /\ MaxAttempts \in Nat \ {0}
        /\ {"ready", "claimed", "running", "retry-wait", "failed", "owner-gate"} \subseteq LifecycleStates
    BY DEF GitHubTrackerAssumption, LifecycleStates
  <1> QED BY <1>1, <1>2, <1>3, <1>4 DEF NoClaim, NoRetry

\* A method that is over.
LEMMA NoOpType ==
    ASSUME GitHubTrackerAssumption
    PROVE  NoOp \in Ops /\ NoOp.pc = "idle" /\ NoOp.kind = "claim" /\ Baseline \in Snapshots
  <1>1. Baseline \in Snapshots
    BY Tables DEF Baseline, Snapshots
  <1> QED BY <1>1, Tables DEF NoOp, Ops, Pcs, Kinds

\* The fields of a snapshot.
LEMMA SnapType ==
    ASSUME TypeOK, NEW i \in Issues
    PROVE  /\ snap[i] \in Snapshots
           /\ snap[i].state \in LifecycleStates /\ snap[i].version \in Nat \ {0}
           /\ snap[i].claim \in Claims /\ snap[i].retry \in Retries /\ snap[i].evidence \in SUBSET Evidence
           /\ snap[i].claim.fence \in Nat /\ snap[i].claim.attempt \in 0..MaxAttempts
           /\ snap[i].retry.attempt \in 0..MaxAttempts
  <1>1. snap[i] \in Snapshots
    BY DEF TypeOK
  <1>2. snap[i].claim \in Claims /\ snap[i].retry \in Retries
    BY <1>1 DEF Snapshots
  <1> QED BY <1>1, <1>2 DEF Snapshots, Claims, Retries

\* The fields of a method.
LEMMA OpType ==
    ASSUME TypeOK, NEW r \in Runners
    PROVE  /\ op[r] \in Ops /\ op[r].issue \in Issues /\ op[r].next \in Snapshots
           /\ op[r].at \in Nat /\ op[r].fence \in Nat /\ op[r].next.version \in Nat \ {0}
           /\ op[r].next.claim \in Claims /\ op[r].next.claim.expires \in Nat
           /\ op[r].accepted \in BOOLEAN /\ op[r].shows \in LifecycleStates
  <1>1. op[r] \in Ops
    BY DEF TypeOK
  <1>2. op[r].next \in Snapshots
    BY <1>1 DEF Ops
  <1>3. op[r].next.claim \in Claims
    BY <1>2 DEF Snapshots
  <1> QED BY <1>1, <1>2, <1>3 DEF Ops, Snapshots, Claims

\* What an event makes of an issue.
LEMMA BecomesType ==
    ASSUME TypeOK, NEW i \in Issues, NEW to \in LifecycleStates, NEW claim \in Claims, NEW retry \in Retries,
           NEW evidence \in SUBSET Evidence
    PROVE  /\ Becomes(i, to, claim, retry, evidence) \in Snapshots
           /\ Becomes(i, to, claim, retry, evidence).state = to
           /\ Becomes(i, to, claim, retry, evidence).version = snap[i].version + 1
           /\ Becomes(i, to, claim, retry, evidence).claim = claim
           /\ Becomes(i, to, claim, retry, evidence).retry = retry
           /\ Becomes(i, to, claim, retry, evidence).evidence = evidence
  <1>1. snap[i].version + 1 \in Nat \ {0}
    BY SnapType
  <1> QED BY <1>1 DEF Becomes, Snapshots

-----------------------------------------------------------------------------
(* How methods begin *)

\* Runner r's method becomes p.
Turns(r, p) == p \in Ops /\ op' = [op EXCEPT ![r] = p]

\* A method has read its issue and derived its event.
Begins(p) ==
    /\ p.issue \in Issues /\ p.at \in CallTimes
    /\ p.pc \in {"acquire", "append"} /\ (p.pc = "acquire" <=> p.kind = "claim")
    /\ p.next.version = snap[p.issue].version + 1 /\ Event(p)
    /\ p.kind = "claim" => p.fence = snap[p.issue].version /\ p.next.claim.expires = p.at + Ttl

\* Nothing but methods begins.
Quiet == UNCHANGED <<ledger, projection, world, lease, unwound, faults>>

\* A method begins with the event it derives.
LEMMA Starts ==
    ASSUME GitHubTrackerAssumption, TypeOK, NEW r \in Runners, NEW i \in Issues, NEW at \in CallTimes,
           NEW pc \in {"acquire", "append"}, NEW kind \in Kinds, pc = "acquire" <=> kind = "claim",
           NEW fence \in Nat, NEW next \in Snapshots, next.version = snap[i].version + 1,
           Start(r, pc, kind, i, at, fence, next),
           kind = "claim" => fence = snap[i].version /\ next.claim.expires = at + Ttl,
           \A p \in Ops : p.kind = kind /\ p.issue = i /\ p.at = at /\ p.fence = fence /\ p.next = next => Event(p)
    PROVE  Quiet /\ op[r].pc = "idle" /\ \E p \in Ops : Turns(r, p) /\ Begins(p)
  <1> DEFINE p == [pc |-> pc, kind |-> kind, issue |-> i, at |-> at, fence |-> fence,
                   next |-> next, accepted |-> FALSE, shows |-> snap[i].state]
  <1>1. at \in Nat /\ snap[i].state \in LifecycleStates
    BY SnapType DEF CallTimes, TypeOK
  <1>2. p \in Ops
    BY <1>1 DEF Ops, Pcs
  <1>3. /\ p.pc = pc /\ p.kind = kind /\ p.issue = i /\ p.at = at /\ p.fence = fence /\ p.next = next
    OBVIOUS
  <1>4. op' = [op EXCEPT ![r] = p] /\ op[r].pc = "idle" /\ Quiet
    BY DEF Start, Quiet
  <1> HIDE DEF p
  <1>5. Begins(p)
    BY <1>2, <1>3 DEF Begins
  <1> QED BY <1>2, <1>4, <1>5 DEF Turns

\* The attempt of a claim is one of those there are.
LEMMA AttemptType ==
    ASSUME GitHubTrackerAssumption, TypeOK, LedgerInv, NEW i \in Issues
    PROVE  NextAttempt(snap[i]) \in 1..MaxAttempts
  <1>1. snap[i].retry # NoRetry => snap[i].retry.attempt \in 1..MaxAttempts
    BY SnapType DEF LedgerInv, Sound
  <1>2. 1 \in 1..MaxAttempts
    BY Tables
  <1> QED BY <1>1, <1>2 DEF NextAttempt

\* tryClaim begins.
LEMMA TryClaimBegins ==
    ASSUME GitHubTrackerAssumption, TypeOK, LedgerInv,
           NEW r \in Runners, NEW i \in Issues, NEW at \in CallTimes, TryClaim(r, i, at)
    PROVE  Quiet /\ op[r].pc = "idle" /\ \E p \in Ops : Turns(r, p) /\ Begins(p)
  <1> DEFINE claim == [fence |-> snap[i].version, attempt |-> NextAttempt(snap[i]), expires |-> at + Ttl]
             next == Becomes(i, "claimed", claim, NoRetry, snap[i].evidence)
  <1>1. claim \in Claims /\ claim.expires = at + Ttl
    BY AttemptType, SnapType, Tables DEF Claims, CallTimes
  <1>2. /\ snap[i].claim = NoClaim /\ snap[i].state \in {"ready", "retry-wait"}
        /\ Start(r, "acquire", "claim", i, at, snap[i].version, next)
    BY DEF TryClaim
  <1>3. \A p \in Ops : p.kind = "claim" /\ p.issue = i /\ p.at = at /\ p.fence = snap[i].version /\ p.next = next
                           => Event(p)
    BY <1>2 DEF Event, ClaimEvent
  <1> HIDE DEF claim
  <1>4. /\ next \in Snapshots /\ next.version = snap[i].version + 1 /\ next.claim = claim
    BY <1>1, BecomesType, SnapType, Tables
  <1> HIDE DEF next
  <1>5. "claim" \in Kinds /\ snap[i].version \in Nat
    BY SnapType DEF Kinds
  <1> QED BY <1>1, <1>2, <1>3, <1>4, <1>5, Starts

\* markRunning begins.
LEMMA MarkRunningBegins ==
    ASSUME GitHubTrackerAssumption, TypeOK, LedgerInv,
           NEW r \in Runners, NEW i \in Issues, NEW at \in CallTimes, MarkRunning(r, i, at)
    PROVE  Quiet /\ op[r].pc = "idle" /\ \E p \in Ops : Turns(r, p) /\ Begins(p)
  <1> DEFINE next == Becomes(i, "running", snap[i].claim, NoRetry, snap[i].evidence)
  <1>1. /\ snap[i].claim # NoClaim /\ snap[i].state = "claimed"
        /\ Start(r, "append", "running", i, at, snap[i].claim.fence, next)
    BY DEF MarkRunning, Claimed
  <1>2. \A p \in Ops : p.kind = "running" /\ p.issue = i /\ p.at = at /\ p.fence = snap[i].claim.fence
                           /\ p.next = next => Event(p)
    BY <1>1 DEF Event, RunningEvent
  <1>3. next \in Snapshots /\ next.version = snap[i].version + 1
    BY BecomesType, SnapType, Tables
  <1> HIDE DEF next
  <1>4. "running" \in Kinds /\ snap[i].claim.fence \in Nat
    BY SnapType DEF Kinds
  <1> QED BY <1>1, <1>2, <1>3, <1>4, Starts

\* heartbeat begins.
LEMMA HeartbeatBegins ==
    ASSUME GitHubTrackerAssumption, TypeOK, LedgerInv,
           NEW r \in Runners, NEW i \in Issues, NEW at \in CallTimes, Heartbeat(r, i, at)
    PROVE  Quiet /\ op[r].pc = "idle" /\ \E p \in Ops : Turns(r, p) /\ Begins(p)
  <1> DEFINE claim == [snap[i].claim EXCEPT !.expires = at + Ttl]
             next == Becomes(i, snap[i].state, claim, snap[i].retry, snap[i].evidence)
  <1>1. claim \in Claims
    BY SnapType, Tables DEF Claims, CallTimes
  <1>2. snap[i].claim # NoClaim /\ Start(r, "append", "heartbeat", i, at, snap[i].claim.fence, next)
    BY DEF Heartbeat, Claimed
  <1>3. \A p \in Ops : p.kind = "heartbeat" /\ p.issue = i /\ p.at = at /\ p.fence = snap[i].claim.fence
                           /\ p.next = next => Event(p)
    BY <1>2 DEF Event, HeartbeatEvent
  <1> HIDE DEF claim
  <1>4. next \in Snapshots /\ next.version = snap[i].version + 1
    BY <1>1, BecomesType, SnapType
  <1> HIDE DEF next
  <1>5. "heartbeat" \in Kinds /\ snap[i].claim.fence \in Nat
    BY SnapType DEF Kinds
  <1> QED BY <1>2, <1>3, <1>4, <1>5, Starts

\* failClaim begins, with another attempt or without.
LEMMA FailClaimBegins ==
    ASSUME GitHubTrackerAssumption, TypeOK, LedgerInv, NEW r \in Runners, NEW i \in Issues,
           NEW class \in Classes, NEW at \in CallTimes, FailClaim(r, i, class, at)
    PROVE  Quiet /\ op[r].pc = "idle" /\ \E p \in Ops : Turns(r, p) /\ Begins(p)
  <1> DEFINE attempt == snap[i].claim.attempt
             again == [attempt |-> attempt + 1, due |-> at + Delay(attempt)]
  <1>1. snap[i].claim # NoClaim /\ attempt \in 1..MaxAttempts
    BY SnapType DEF FailClaim, Claimed, LedgerInv, Sound
  <1>2. Retried(i, class) => again \in Retries /\ again.attempt > 0
    <2>1. ASSUME Retried(i, class) PROVE attempt + 1 \in 0..MaxAttempts /\ attempt + 1 > 0
      BY <1>1, <2>1, Tables DEF Retried
    <2>2. at \in Nat /\ Delay(attempt) \in Nat
      BY <1>1 DEF CallTimes, GitHubTrackerAssumption
    <2> QED BY <2>1, <2>2 DEF Retries
  <1> HIDE DEF again
  <1>3. ASSUME NEW to \in {"retry-wait", "failed"}, NEW retry \in Retries,
               retry # NoRetry => retry.attempt > 0,
               Start(r, "append", "failure", i, at, snap[i].claim.fence,
                     Becomes(i, to, NoClaim, retry, snap[i].evidence))
        PROVE  Quiet /\ op[r].pc = "idle" /\ \E p \in Ops : Turns(r, p) /\ Begins(p)
    <2> DEFINE next == Becomes(i, to, NoClaim, retry, snap[i].evidence)
    <2>1. next \in Snapshots /\ next.version = snap[i].version + 1 /\ next.state = to /\ next.retry = retry
      BY BecomesType, SnapType, Tables
    <2>2. \A p \in Ops : p.kind = "failure" /\ p.issue = i /\ p.at = at /\ p.fence = snap[i].claim.fence
                             /\ p.next = next => Event(p)
      BY <1>1, <1>3, <2>1 DEF Event, FailureEvent
    <2>3. Start(r, "append", "failure", i, at, snap[i].claim.fence, next)
      BY <1>3
    <2> HIDE DEF next
    <2>4. "failure" \in Kinds /\ snap[i].claim.fence \in Nat
      BY SnapType DEF Kinds
    <2> QED BY <2>1, <2>2, <2>3, <2>4, Starts
  <1>4. CASE Retried(i, class)
    <2>1. Start(r, "append", "failure", i, at, snap[i].claim.fence,
                Becomes(i, "retry-wait", NoClaim, again, snap[i].evidence))
      BY <1>4 DEF FailClaim, again
    <2> QED BY <1>2, <1>3, <1>4, <2>1
  <1>5. CASE ~Retried(i, class)
    <2>1. Start(r, "append", "failure", i, at, snap[i].claim.fence,
                Becomes(i, "failed", NoClaim, NoRetry, snap[i].evidence))
      BY <1>5 DEF FailClaim
    <2> QED BY <1>3, <2>1, Tables
  <1> QED BY <1>4, <1>5

\* transition begins.
LEMMA TransitionBegins ==
    ASSUME GitHubTrackerAssumption, TypeOK, LedgerInv, NEW r \in Runners, NEW i \in Issues,
           NEW to \in Targets, NEW at \in CallTimes, Transition(r, i, to, Asked(to), at)
    PROVE  Quiet /\ op[r].pc = "idle" /\ \E p \in Ops : Turns(r, p) /\ Begins(p)
  <1> DEFINE evidence == snap[i].evidence \cup Asked(to)
             claim == IF to \in ReleasingStates THEN NoClaim ELSE snap[i].claim
             next == Becomes(i, to, claim, snap[i].retry, evidence)
  <1>1. evidence \in SUBSET Evidence /\ snap[i].evidence \subseteq evidence
    BY SnapType DEF Asked, Evidence
  <1>2. claim \in Claims
    BY SnapType, Tables
  <1>3. /\ CanMove(snap[i].state, to) /\ EvidenceAllows(i, to, evidence)
        /\ Start(r, "append", "transition", i, at, snap[i].claim.fence, next)
    BY DEF Transition
  <1>4. /\ to = "owner-gate" => "gate" \in evidence
        /\ to = "merged" /\ i \in HighRisk => snap[i].state = "owner-gate"
    BY <1>3 DEF EvidenceAllows
  <1>5. next \in Snapshots /\ next.version = snap[i].version + 1
    <2> HIDE DEF evidence, claim
    <2> QED BY <1>1, <1>2, BecomesType, SnapType, Tables
  <1>6. \A p \in Ops : p.kind = "transition" /\ p.issue = i /\ p.at = at /\ p.fence = snap[i].claim.fence
                           /\ p.next = next => TransitionEvent(p)
    <2> HIDE DEF evidence
    <2> QED BY <1>1, <1>3, <1>4 DEF TransitionEvent
  <1> HIDE DEF next
  <1>7. \A p \in Ops : p.kind = "transition" /\ p.issue = i /\ p.at = at /\ p.fence = snap[i].claim.fence
                           /\ p.next = next => Event(p)
    BY <1>6 DEF Event
  <1>8. "transition" \in Kinds /\ snap[i].claim.fence \in Nat
    BY SnapType DEF Kinds
  <1> QED BY <1>3, <1>5, <1>7, <1>8, Starts

\* Whatever a caller asks for.
LEMMA CallBegins ==
    ASSUME GitHubTrackerAssumption, TypeOK, LedgerInv, NEW r \in Runners, Call(r)
    PROVE  Quiet /\ op[r].pc = "idle" /\ \E p \in Ops : Turns(r, p) /\ Begins(p)
  BY TryClaimBegins, MarkRunningBegins, HeartbeatBegins, FailClaimBegins, TransitionBegins DEF Call

-----------------------------------------------------------------------------
(* How methods go on *)

\* What a comment may do to the ledger: nothing, or spoil it,
LedgerRests ==
    /\ snap' = snap /\ poisoned' \in [Issues -> BOOLEAN]
    /\ \A i \in Issues : poisoned[i] => poisoned'[i]

\* or it is accepted.
Writes(o) ==
    /\ o.pc = "append" /\ Accepted(o)
    /\ snap' = [snap EXCEPT ![o.issue] = o.next] /\ poisoned' = poisoned

\* A comment that is not accepted finds its issue written since, or leaves it spoilt.
Missed(o) == poisoned'[o.issue] \/ snap[o.issue].version + 1 # o.next.version

\* What becomes of an appended comment.
LEMMA AppendWrites ==
    ASSUME TypeOK, NEW r \in Runners, op[r].pc = "append", AppendEvent(op[r])
    PROVE  (Accepted(op[r]) /\ Writes(op[r])) \/ (~Accepted(op[r]) /\ LedgerRests /\ Missed(op[r]))
  <1> DEFINE o == op[r]
  <1>1. o.issue \in Issues /\ poisoned \in [Issues -> BOOLEAN]
    BY OpType DEF TypeOK
  <1>2. poisoned' = [poisoned EXCEPT ![o.issue] = @ \/ (Current(o) /\ ~Accepted(o))]
    BY DEF AppendEvent
  <1>3. CASE Accepted(o)
    <2>1. snap' = [snap EXCEPT ![o.issue] = o.next]
      BY <1>3 DEF AppendEvent
    <2>2. poisoned' = poisoned
      <3>1. (poisoned[o.issue] \/ (Current(o) /\ ~Accepted(o))) = poisoned[o.issue]
        BY <1>1, <1>3
      <3> HIDE DEF o
      <3> QED BY <1>1, <1>2, <3>1
    <2> QED BY <1>3, <2>1, <2>2 DEF Writes
  <1>4. CASE ~Accepted(o)
    <2>1. snap' = snap
      BY <1>4 DEF AppendEvent
    <2>2. (poisoned[o.issue] \/ (Current(o) /\ ~Accepted(o))) \in BOOLEAN
      BY Zenon
    <2>3. poisoned' \in [Issues -> BOOLEAN] /\ (\A i \in Issues : poisoned[i] => poisoned'[i]) /\ Missed(o)
      <3> DEFINE b == poisoned[o.issue] \/ (Current(o) /\ ~Accepted(o))
      <3>1. /\ poisoned' = [poisoned EXCEPT ![o.issue] = b] /\ b \in BOOLEAN /\ (poisoned[o.issue] => b)
            /\ b \/ snap[o.issue].version + 1 # o.next.version
        BY <1>2, <1>4, <2>2 DEF Current
      <3>2. b => poisoned'[o.issue]
        BY <1>1, <3>1
      <3> HIDE DEF b, o
      <3> QED BY <1>1, <3>1, <3>2 DEF Missed
    <2> QED BY <1>4, <2>1, <2>3 DEF LedgerRests
  <1> QED BY <1>3, <1>4

\* The method ends a claim.
Ending(o) == o.kind \in {"failure", "transition"} /\ o.fence # 0 /\ o.next.claim = NoClaim

\* The last read of this method shows that the claim it had is over.
Releasing(o) ==
    \/ o.kind = "failure"
    \/ o.kind = "transition" /\ o.fence # 0 /\ snap[o.issue].claim = NoClaim

\* A claim whose comment was accepted stands until its method is over.
Stands(o) == o.accepted /\ o.pc \in {"confirm", "label", "gate", "final"}

\* Where a method may throw so that tryClaim's catch block catches it.
Caught == {"append", "confirm", "label", "gate", "final", "release"}

\* From one provider call to the next.
Path(o, p) ==
    /\ p.kind = o.kind /\ p.issue = o.issue /\ p.at = o.at /\ o.pc # "idle"
    /\ p.pc # "beat" => p.fence = o.fence /\ p.next = o.next
    /\ \/ o.pc = "acquire" /\ p.pc = "elected" /\ (p.accepted <=> LeaseFree(o.at))
          /\ lease' = LeaseAfterAcquire(o)
       \/ o.pc = "elected" /\ p.pc = "append" /\ o.accepted
       \/ o.pc = "append" /\ p.pc = "confirm" /\ (p.accepted <=> Writes(o)) /\ (Writes(o) \/ Missed(o))
       \/ o.pc = "confirm" /\ p.pc = "label" /\ o.accepted /\ p.accepted
       \/ o.pc = "confirm" /\ p.pc = "release" /\ ~o.accepted /\ o.kind = "claim"
       \/ o.pc \in {"label", "gate"} /\ p.pc \in {"gate", "final"} /\ p.accepted = o.accepted
       \/ o.pc = "final" /\ p.pc = "release" /\ Releasing(o)
       \/ /\ o.pc = "final" /\ p.pc = "beat" /\ o.kind = "heartbeat" /\ Claimed(o.issue)
          /\ p.fence = snap[o.issue].claim.fence /\ p.next.claim = snap[o.issue].claim
       \/ /\ o.pc \in Caught /\ p.pc = "unwind" /\ o.kind = "claim"
          /\ Stands(o) \/ Writes(o) => unwound'

\* Only three of them move the lease.
LeaseMoves(o) ==
    \/ lease' = lease
    \/ o.pc = "acquire" /\ lease' = LeaseAfterAcquire(o)
    \/ o.pc = "beat" /\ lease' = LeaseAfterBeat(o)
    \/ o.pc \in {"release", "unwind"} /\ lease' = LeaseAfterRelease(o)

\* Runner r's method goes on, or is over.
Goes(r) ==
    /\ op[r].pc # "idle"
    /\ \E p : Turns(r, p) /\ (p = NoOp \/ Path(op[r], p))
    /\ LedgerRests \/ Writes(op[r])
    /\ LeaseMoves(op[r])
    /\ unwound => unwound'
    /\ now' = now

\* It is over.
LEMMA ReturnGoes ==
    ASSUME GitHubTrackerAssumption, TypeOK, NEW r \in Runners, Return(r)
    PROVE  \E p : Turns(r, p) /\ (p = NoOp \/ Path(op[r], p))
  BY NoOpType DEF Return, Turns

\* It goes to another call and takes everything along.
LEMMA GotoTurns ==
    ASSUME TypeOK, NEW r \in Runners, NEW pc \in Pcs, Goto(r, pc)
    PROVE  \E p : /\ Turns(r, p) /\ p.pc = pc /\ p.kind = op[r].kind /\ p.issue = op[r].issue /\ p.at = op[r].at
                  /\ p.fence = op[r].fence /\ p.next = op[r].next /\ p.accepted = op[r].accepted
  <1> DEFINE p == [op[r] EXCEPT !.pc = pc]
  <1>1. op[r] \in Ops /\ op \in [Runners -> Ops]
    BY DEF TypeOK
  <1>2. p \in Ops /\ op' = [op EXCEPT ![r] = p]
    BY <1>1 DEF Goto, Ops
  <1>3. /\ p.pc = pc /\ p.kind = op[r].kind /\ p.issue = op[r].issue /\ p.at = op[r].at
        /\ p.fence = op[r].fence /\ p.next = op[r].next /\ p.accepted = op[r].accepted
    BY <1>1 DEF Ops
  <1> QED BY <1>2, <1>3 DEF Turns

\* An exception.
LEMMA ThrowGoes ==
    ASSUME GitHubTrackerAssumption, TypeOK, NEW r \in Runners, op[r].pc # "idle", Throw(r),
           Writes(op[r]) => unwound'
    PROVE  (\E p : Turns(r, p) /\ (p = NoOp \/ Path(op[r], p))) /\ (unwound => unwound')
  <1> DEFINE caught == op[r].kind = "claim" /\ op[r].pc \in Caught
  <1>1. (IF caught THEN Goto(r, "unwind") ELSE Return(r)) /\ unwound' = (unwound \/ (caught /\ op[r].accepted))
    BY DEF Throw, Caught
  <1>2. CASE caught
    <2>1. PICK p : /\ Turns(r, p) /\ p.pc = "unwind" /\ p.kind = op[r].kind /\ p.issue = op[r].issue
                   /\ p.at = op[r].at /\ p.fence = op[r].fence /\ p.next = op[r].next
      BY <1>1, <1>2, GotoTurns DEF Pcs
    <2>2. Stands(op[r]) => unwound'
      BY <1>1, <1>2 DEF Stands
    <2> QED BY <1>1, <1>2, <2>1, <2>2 DEF Path
  <1>3. CASE ~caught
    BY <1>1, <1>3, ReturnGoes
  <1> QED BY <1>2, <1>3

\* The calls that touch neither the ledger nor the fence.
LEMMA ReadsGo ==
    ASSUME GitHubTrackerAssumption, TypeOK, NEW r \in Runners,
           CheckElection(r) \/ Confirm(r) \/ ProjectState(r) \/ ProjectGate(r) \/ FinalRead(r)
    PROVE  Goes(r)
  <1> DEFINE o == op[r]
  <1>1. UNCHANGED <<ledger, world, lease>> /\ poisoned \in [Issues -> BOOLEAN]
    BY DEF CheckElection, Confirm, ProjectState, ProjectGate, FinalRead, TypeOK
  <1>2. LedgerRests /\ LeaseMoves(o) /\ now' = now
    BY <1>1 DEF ledger, world, LedgerRests, LeaseMoves
  <1>3. o \in Ops /\ op \in [Runners -> Ops] /\ o.issue \in Issues
    BY OpType DEF TypeOK
  <1>4. ~Writes(o) \/ o.pc = "append"
    BY DEF Writes
  <1>5. ASSUME CheckElection(r) PROVE Goes(r)
    <2>1. o.pc = "elected" /\ unwound' = unwound
      BY <1>5 DEF CheckElection
    <2>2. CASE o.accepted /\ LeaseIs(o.issue, o.fence)
      <3> DEFINE p == [o EXCEPT !.pc = "append", !.accepted = FALSE]
      <3>1. op' = [op EXCEPT ![r] = p] /\ p \in Ops
        BY <1>3, <1>5, <2>2 DEF CheckElection, Ops, Pcs
      <3>2. /\ p.pc = "append" /\ p.kind = o.kind /\ p.issue = o.issue /\ p.at = o.at
            /\ p.fence = o.fence /\ p.next = o.next
        BY <1>3 DEF Ops
      <3>3. Turns(r, p) /\ Path(o, p)
        BY <2>1, <2>2, <3>1, <3>2 DEF Turns, Path
      <3> QED BY <1>2, <2>1, <3>3 DEF Goes
    <2>3. CASE ~(o.accepted /\ LeaseIs(o.issue, o.fence))
      <3>1. Return(r)
        BY <1>5, <2>3 DEF CheckElection
      <3> QED BY <1>2, <2>1, <3>1, ReturnGoes DEF Goes
    <2> QED BY <2>2, <2>3
  <1>6. ASSUME Confirm(r) PROVE Goes(r)
    <2>1. o.pc = "confirm" /\ ~Writes(o)
      BY <1>4, <1>6 DEF Confirm
    <2>2. CASE op' = [op EXCEPT ![r].pc = "label", ![r].shows = snap[o.issue].state] /\ o.accepted
               /\ unwound' = unwound
      <3> DEFINE p == [o EXCEPT !.pc = "label", !.shows = snap[o.issue].state]
      <3>1. op' = [op EXCEPT ![r] = p] /\ p \in Ops
        BY <1>3, <2>2, SnapType DEF Ops, Pcs
      <3>2. /\ p.pc = "label" /\ p.kind = o.kind /\ p.issue = o.issue /\ p.at = o.at
            /\ p.fence = o.fence /\ p.next = o.next /\ p.accepted = o.accepted
        BY <1>3 DEF Ops
      <3>3. Turns(r, p) /\ Path(o, p)
        BY <2>1, <2>2, <3>1, <3>2 DEF Turns, Path
      <3> QED BY <1>2, <2>1, <2>2, <3>3 DEF Goes
    <2>3. CASE ~o.accepted /\ (IF o.kind = "claim" THEN Goto(r, "release") ELSE Return(r)) /\ unwound' = unwound
      <3>1. CASE o.kind = "claim"
        <4>1. PICK p : /\ Turns(r, p) /\ p.pc = "release" /\ p.kind = o.kind /\ p.issue = o.issue /\ p.at = o.at
                       /\ p.fence = o.fence /\ p.next = o.next /\ p.accepted = o.accepted
          BY <2>3, <3>1, GotoTurns DEF Pcs
        <4>2. Path(o, p)
          BY <2>1, <2>3, <3>1, <4>1 DEF Path
        <4> QED BY <1>2, <2>1, <2>3, <4>1, <4>2 DEF Goes
      <3>2. CASE o.kind # "claim"
        BY <1>2, <2>1, <2>3, <3>2, ReturnGoes DEF Goes
      <3> QED BY <3>1, <3>2
    <2>4. CASE Throw(r)
      BY <1>2, <2>1, <2>4, ThrowGoes DEF Goes
    <2> QED BY <1>6, <2>2, <2>3, <2>4 DEF Confirm
  <1>7. ASSUME NEW pc \in {"gate", "final"}, o.pc \in {"label", "gate"}, Goto(r, pc), unwound' = unwound
        PROVE  Goes(r)
    <2>1. PICK p : /\ Turns(r, p) /\ p.pc = pc /\ p.kind = o.kind /\ p.issue = o.issue /\ p.at = o.at
                   /\ p.fence = o.fence /\ p.next = o.next /\ p.accepted = o.accepted
      BY <1>7, GotoTurns DEF Pcs
    <2>2. Path(o, p)
      BY <1>7, <2>1 DEF Path
    <2> QED BY <1>2, <1>7, <2>1, <2>2 DEF Goes
  <1>8. ASSUME ProjectState(r) \/ ProjectGate(r) PROVE Goes(r)
    BY <1>7, <1>8 DEF ProjectState, ProjectGate
  <1>9. ASSUME FinalRead(r) PROVE Goes(r)
    <2>1. o.pc = "final" /\ ~Writes(o)
      BY <1>4, <1>9 DEF FinalRead
    <2>2. CASE Throw(r)
      BY <1>2, <2>1, <2>2, ThrowGoes DEF Goes
    <2>3. CASE Proceed(r) /\ unwound' = unwound
      <3> DEFINE claim == snap[o.issue].claim
      <3>1. CASE o.kind = "heartbeat" /\ claim # NoClaim
        <4> DEFINE p == [o EXCEPT !.pc = "beat", !.fence = claim.fence, !.next = [o.next EXCEPT !.claim = claim]]
        <4>1. op' = [op EXCEPT ![r] = p]
          BY <1>3, <2>3, <3>1 DEF Proceed, Ops
        <4>2. claim \in Claims /\ claim.fence \in Nat /\ o.next \in Snapshots
          BY <1>3, SnapType, OpType
        <4>3. [o.next EXCEPT !.claim = claim] \in Snapshots /\ [o.next EXCEPT !.claim = claim].claim = claim
          BY <4>2 DEF Snapshots
        <4>4. /\ p \in Ops /\ p.pc = "beat" /\ p.kind = o.kind /\ p.issue = o.issue /\ p.at = o.at
              /\ p.fence = claim.fence /\ p.next.claim = claim
          BY <1>3, <4>2, <4>3 DEF Ops, Pcs
        <4> HIDE DEF p
        <4>5. Turns(r, p) /\ Path(o, p)
          BY <2>1, <3>1, <4>1, <4>4 DEF Turns, Path, Claimed
        <4> QED BY <1>2, <2>1, <2>3, <4>5 DEF Goes
      <3>2. CASE Goto(r, "release") /\ Releasing(o)
        <4>1. PICK p : /\ Turns(r, p) /\ p.pc = "release" /\ p.kind = o.kind /\ p.issue = o.issue /\ p.at = o.at
                       /\ p.fence = o.fence /\ p.next = o.next /\ p.accepted = o.accepted
          BY <3>2, GotoTurns DEF Pcs
        <4>2. Path(o, p)
          BY <2>1, <3>2, <4>1 DEF Path
        <4> QED BY <1>2, <2>1, <2>3, <4>1, <4>2 DEF Goes
      <3>3. CASE Return(r)
        BY <1>2, <2>1, <2>3, <3>3, ReturnGoes DEF Goes
      <3> QED BY <2>3, <3>1, <3>2, <3>3 DEF Proceed, Releasing
    <2> QED BY <1>9, <2>2, <2>3 DEF FinalRead
  <1> QED BY <1>5, <1>6, <1>8, <1>9

\* The calls that write a comment.
LEMMA WritesGo ==
    ASSUME GitHubTrackerAssumption, TypeOK, NEW r \in Runners,
           Acquire(r) \/ Append(r) \/ BeatLease(r) \/ ReleaseLease(r)
    PROVE  Goes(r)
  <1> DEFINE o == op[r]
  <1>1. UNCHANGED <<unwound, now>> /\ poisoned \in [Issues -> BOOLEAN]
    BY DEF Acquire, Append, BeatLease, ReleaseLease, world, TypeOK
  <1>2. o \in Ops /\ op \in [Runners -> Ops]
    BY DEF TypeOK
  <1>3. ASSUME Acquire(r) PROVE Goes(r)
    <2>1. /\ o.pc = "acquire" /\ lease' = LeaseAfterAcquire(o) /\ UNCHANGED ledger
          /\ op' = [op EXCEPT ![r].pc = "elected", ![r].accepted = LeaseFree(o.at)]
      BY <1>3 DEF Acquire
    <2> DEFINE free == LeaseFree(o.at)
               p == [o EXCEPT !.pc = "elected", !.accepted = free]
    <2>2. free \in BOOLEAN
      BY Zenon DEF LeaseFree
    <2> HIDE DEF free
    <2>3. p \in Ops /\ op' = [op EXCEPT ![r] = p]
      BY <1>2, <2>1, <2>2 DEF Ops, Pcs, free
    <2>4. /\ p.pc = "elected" /\ p.kind = o.kind /\ p.issue = o.issue /\ p.at = o.at
          /\ p.fence = o.fence /\ p.next = o.next /\ p.accepted = free
      BY <1>2 DEF Ops
    <2> HIDE DEF p
    <2>5. Turns(r, p) /\ Path(o, p)
      BY <2>1, <2>3, <2>4 DEF Turns, Path, free
    <2>6. LedgerRests /\ LeaseMoves(o)
      BY <1>1, <2>1 DEF ledger, LedgerRests, LeaseMoves
    <2> QED BY <1>1, <2>1, <2>5, <2>6 DEF Goes
  <1>4. ASSUME Append(r) PROVE Goes(r)
    <2>1. /\ o.pc = "append" /\ AppendEvent(o) /\ lease' = lease
          /\ op' = [op EXCEPT ![r].pc = "confirm", ![r].accepted = Accepted(o)]
      BY <1>4 DEF Append
    <2> DEFINE yes == Accepted(o)
               p == [o EXCEPT !.pc = "confirm", !.accepted = yes]
    <2>2. yes \in BOOLEAN
      BY Zenon DEF Accepted
    <2>3. (yes /\ Writes(o)) \/ (~yes /\ LedgerRests /\ Missed(o))
      BY <2>1, AppendWrites
    <2>4. ~yes => ~Writes(o)
      BY DEF Writes
    <2> HIDE DEF yes
    <2>5. p \in Ops /\ op' = [op EXCEPT ![r] = p]
      BY <1>2, <2>1, <2>2 DEF Ops, Pcs, yes
    <2>6. /\ p.pc = "confirm" /\ p.kind = o.kind /\ p.issue = o.issue /\ p.at = o.at
          /\ p.fence = o.fence /\ p.next = o.next /\ p.accepted = yes
      BY <1>2 DEF Ops
    <2> HIDE DEF p
    <2>7. Turns(r, p) /\ Path(o, p)
      BY <2>1, <2>3, <2>4, <2>5, <2>6 DEF Turns, Path
    <2> QED BY <1>1, <2>1, <2>3, <2>7 DEF Goes, LeaseMoves
  <1>5. ASSUME BeatLease(r) \/ ReleaseLease(r) PROVE Goes(r)
    <2>1. o.pc # "idle" /\ LeaseMoves(o) /\ Return(r) /\ UNCHANGED ledger
      BY <1>5 DEF BeatLease, ReleaseLease, LeaseMoves
    <2>2. LedgerRests
      BY <1>1, <2>1 DEF ledger, LedgerRests
    <2> QED BY <1>1, <2>1, <2>2, ReturnGoes DEF Goes
  <1> QED BY <1>3, <1>4, <1>5

\* Calls that fail, replies that are lost, processes that die.
LEMMA FaultsGo ==
    ASSUME GitHubTrackerAssumption, TypeOK, NEW r \in Runners, Fault(r)
    PROVE  Goes(r)
  <1> DEFINE o == op[r]
  <1>1. now' = now /\ poisoned \in [Issues -> BOOLEAN]
    BY DEF Fault, CallFails, ReplyLost, Crash, world, TypeOK
  <1>2. ASSUME UNCHANGED ledger PROVE LedgerRests
    BY <1>1, <1>2 DEF ledger, LedgerRests
  <1>3. ASSUME o.pc # "idle", Throw(r), UNCHANGED ledger, LeaseMoves(o) PROVE Goes(r)
    <2>1. Writes(o) => unwound'
      <3>1. ASSUME Writes(o), ~unwound' PROVE FALSE
        <4>1. o.issue \in Issues /\ snap \in [Issues -> Snapshots] /\ snap' = snap
          BY <1>3, OpType DEF TypeOK, ledger
        <4>2. snap[o.issue].version + 1 = o.next.version /\ snap'[o.issue] = o.next
          BY <3>1, <4>1 DEF Writes, Accepted, Current
        <4> QED BY <4>1, <4>2, SnapType
      <3> QED BY <3>1
    <2> QED BY <1>1, <1>2, <1>3, <2>1, ThrowGoes DEF Goes
  <1>4. ASSUME o.pc # "idle", Return(r), LedgerRests \/ Writes(o), unwound' = unwound, LeaseMoves(o)
        PROVE  Goes(r)
    BY <1>1, <1>4, ReturnGoes DEF Goes
  <1>5. ASSUME CallFails(r) PROVE Goes(r)
    BY <1>3, <1>5 DEF CallFails, LeaseMoves
  <1>6. ASSUME Crash(r) PROVE Goes(r)
    BY <1>2, <1>4, <1>6 DEF Crash, LeaseMoves
  <1>7. ASSUME ReplyLost(r) PROVE Goes(r)
    <2>1. ASSUME o.pc = "acquire", lease' = LeaseAfterAcquire(o), Return(r), UNCHANGED <<ledger, unwound>>
          PROVE  Goes(r)
      BY <1>2, <1>4, <2>1 DEF LeaseMoves
    <2>2. ASSUME o.pc = "append", AppendEvent(o), unwound' = (unwound \/ (o.kind = "claim" /\ Accepted(o))),
                 IF o.kind = "claim" THEN Goto(r, "unwind") ELSE Return(r), lease' = lease
          PROVE  Goes(r)
      <3>1. (Accepted(o) /\ Writes(o)) \/ (~Accepted(o) /\ LedgerRests)
        BY <2>2, AppendWrites
      <3>2. CASE o.kind = "claim"
        <4>1. PICK p : /\ Turns(r, p) /\ p.pc = "unwind" /\ p.kind = o.kind /\ p.issue = o.issue /\ p.at = o.at
                       /\ p.fence = o.fence /\ p.next = o.next
          BY <2>2, <3>2, GotoTurns DEF Pcs
        <4>2. ~Stands(o) /\ (Writes(o) => unwound')
          BY <2>2, <3>2 DEF Stands, Writes
        <4>3. Path(o, p)
          BY <2>2, <3>2, <4>1, <4>2 DEF Path, Caught
        <4>4. unwound => unwound'
          BY <2>2
        <4> QED BY <1>1, <2>2, <3>1, <4>1, <4>3, <4>4 DEF Goes, LeaseMoves
      <3>3. CASE o.kind # "claim"
        <4>1. Return(r) /\ (unwound => unwound')
          BY <2>2, <3>3
        <4> QED BY <1>1, <2>2, <3>1, <4>1, ReturnGoes DEF Goes, LeaseMoves
      <3> QED BY <3>2, <3>3
    <2>3. ASSUME o.pc = "beat", lease' = LeaseAfterBeat(o), Return(r), UNCHANGED <<ledger, unwound>>
          PROVE  Goes(r)
      BY <1>2, <1>4, <2>3 DEF LeaseMoves
    <2>4. ASSUME o.pc \in {"release", "unwind"}, lease' = LeaseAfterRelease(o), Throw(r), UNCHANGED ledger
          PROVE  Goes(r)
      BY <1>3, <2>4 DEF LeaseMoves
    <2> QED BY <1>7, <2>1, <2>2, <2>3, <2>4 DEF ReplyLost
  <1> QED BY <1>5, <1>6, <1>7 DEF Fault

\* Whatever a step or a fault does to a method, it goes on or is over.
LEMMA StepGoes ==
    ASSUME GitHubTrackerAssumption, TypeOK, NEW r \in Runners, Step(r) \/ Fault(r)
    PROVE  Goes(r)
  BY ReadsGo, WritesGo, FaultsGo DEF Step

-----------------------------------------------------------------------------
(* What an event makes of the ledger *)

\* Where the lifecycle's last states are entered from; a claimed issue does not become ready.
LEMMA LastMoves ==
    ASSUME NEW s \in LifecycleStates
    PROVE  /\ CanMove(s, "deployed") => s = "merged"
           /\ CanMove(s, "done") => s \in {"merged", "deployed"}
           /\ CanMove(s, "ready") => s \notin HeldStates
  BY DEF LifecycleStates, CanMove, NormalTransitions, Aborts, HeldStates

\* What is asked of an accepted snapshot.
Passes(i, s) ==
    /\ Sound(s)
    /\ i \in HighRisk /\ s.state \in {"merged", "deployed", "done"} => "gate" \in s.evidence

\* The ledger's invariant says that of every issue.
LEMMA LedgerPasses ==
    ASSUME GitHubTrackerAssumption
    PROVE  LedgerInv <=> \A i \in Issues : Passes(i, snap[i])
  BY DEF GitHubTrackerAssumption, LedgerInv, GateBeforeMerge, Passes

\* An event keeps the ledger sound, and no event passes by the owner gate.
LEMMA EventPasses ==
    ASSUME GitHubTrackerAssumption, TypeOK, NEW r \in Runners, Event(op[r]), Passes(op[r].issue, snap[op[r].issue])
    PROVE  Passes(op[r].issue, op[r].next)
  <1> DEFINE o == op[r]
             i == o.issue
             s == snap[i]
  <1>1. /\ s.state \in LifecycleStates /\ s.version \in Nat \ {0} /\ s.claim \in Claims /\ s.retry \in Retries
        /\ s.evidence \in SUBSET Evidence /\ s.claim.fence \in Nat /\ s.claim.attempt \in 0..MaxAttempts
        /\ s.retry.attempt \in 0..MaxAttempts
        /\ i \in Issues /\ o \in Ops /\ o.at \in Nat
    BY SnapType, OpType
  <1>2. Passes(i, s)
    OBVIOUS
  <1>3. CASE o.kind = "claim"
    <2> DEFINE claim == [fence |-> s.version, attempt |-> NextAttempt(s), expires |-> o.at + Ttl]
    <2>1. o.next = Becomes(i, "claimed", claim, NoRetry, s.evidence)
      BY <1>3 DEF Event, ClaimEvent
    <2>2. NextAttempt(s) \in 0..MaxAttempts /\ NextAttempt(s) > 0
      BY <1>1, <1>2, Tables DEF NextAttempt, Passes, Sound
    <2>3. /\ claim \in Claims /\ claim.fence = s.version /\ claim.attempt = NextAttempt(s)
      BY <1>1, <2>2, Tables DEF Claims
    <2> HIDE DEF claim
    <2>4. /\ o.next.state = "claimed" /\ o.next.version = s.version + 1
          /\ o.next.claim = claim /\ o.next.retry = NoRetry
      BY <1>1, <2>1, <2>3, BecomesType, Tables
    <2> QED BY <1>1, <2>2, <2>3, <2>4 DEF Passes, Sound, HeldStates
  <1>4. CASE o.kind = "running"
    <2>1. s.claim # NoClaim /\ o.next = Becomes(i, "running", s.claim, NoRetry, s.evidence)
      BY <1>4 DEF Event, RunningEvent
    <2>2. /\ o.next.state = "running" /\ o.next.version = s.version + 1
          /\ o.next.claim = s.claim /\ o.next.retry = NoRetry
      BY <1>1, <2>1, BecomesType, Tables
    <2> QED BY <1>1, <1>2, <2>1, <2>2 DEF Passes, Sound, HeldStates
  <1>5. CASE o.kind = "heartbeat"
    <2> DEFINE claim == [s.claim EXCEPT !.expires = o.at + Ttl]
    <2>1. s.claim # NoClaim /\ o.next = Becomes(i, s.state, claim, s.retry, s.evidence)
      BY <1>5 DEF Event, HeartbeatEvent
    <2>2. claim \in Claims /\ claim.fence = s.claim.fence /\ claim.attempt = s.claim.attempt
      BY <1>1, Tables DEF Claims
    <2> HIDE DEF claim
    <2>3. /\ o.next.state = s.state /\ o.next.version = s.version + 1 /\ o.next.claim = claim
          /\ o.next.retry = s.retry /\ o.next.evidence = s.evidence
      BY <1>1, <2>1, <2>2, BecomesType
    <2> QED BY <1>1, <1>2, <2>1, <2>2, <2>3 DEF Passes, Sound
  <1>6. CASE o.kind = "failure"
    <2>1. /\ o.next.state \in {"retry-wait", "failed"}
          /\ o.next.retry # NoRetry => o.next.retry.attempt > 0
          /\ o.next = Becomes(i, o.next.state, NoClaim, o.next.retry, s.evidence)
      BY <1>6 DEF Event, FailureEvent
    <2>2. o.next.retry \in Retries /\ o.next.state \in LifecycleStates
      BY OpType DEF Snapshots
    <2>3. o.next.claim = NoClaim
      BY <1>1, <2>1, <2>2, BecomesType, Tables
    <2> QED BY <2>1, <2>3 DEF Passes, Sound
  <1>7. CASE o.kind = "transition"
    <2>1. PICK to \in Targets, evidence \in SUBSET Evidence :
              /\ CanMove(s.state, to)
              /\ s.evidence \subseteq evidence
              /\ to = "owner-gate" => "gate" \in evidence
              /\ to = "merged" /\ i \in HighRisk => s.state = "owner-gate"
              /\ o.next = Becomes(i, to, IF to \in ReleasingStates THEN NoClaim ELSE s.claim, s.retry, evidence)
      BY <1>7 DEF Event, TransitionEvent
    <2> DEFINE claim == IF to \in ReleasingStates THEN NoClaim ELSE s.claim
    <2>2. claim \in Claims /\ to \in LifecycleStates
      BY <1>1, Tables
    <2>3. claim # NoClaim => claim = s.claim /\ to \notin ReleasingStates
      OBVIOUS
    <2>4. o.next = Becomes(i, to, claim, s.retry, evidence)
      BY <2>1
    <2> HIDE DEF claim
    <2>5. /\ o.next.state = to /\ o.next.version = s.version + 1 /\ o.next.claim = claim
          /\ o.next.retry = s.retry /\ o.next.evidence = evidence
      BY <1>1, <2>2, <2>4, BecomesType
    <2>6. ASSUME claim # NoClaim
          PROVE  claim.fence > 0 /\ claim.fence < s.version + 1 /\ claim.attempt > 0 /\ to \in HeldStates
      <3>1. s.claim # NoClaim /\ claim = s.claim /\ to \notin ReleasingStates
        BY <2>3, <2>6
      <3>2. s.state \in HeldStates /\ s.claim.fence > 0 /\ s.claim.fence < s.version /\ s.claim.attempt > 0
        BY <1>2, <3>1 DEF Passes, Sound
      <3>3. to # "ready"
        BY <1>1, <2>1, <3>2, LastMoves
      <3>4. to \in HeldStates
        BY <2>2, <3>1, <3>3 DEF GitHubTrackerAssumption, LifecycleStates, ReleasingStates, TerminalStates, HeldStates
      <3> QED BY <1>1, <3>1, <3>2, <3>4
    <2>7. to = "owner-gate" => "gate" \in evidence
      BY <2>1
    <2>8. i \in HighRisk /\ to \in {"merged", "deployed", "done"} => "gate" \in evidence
      BY <1>1, <1>2, <2>1, LastMoves DEF Passes, Sound
    <2>9. s.retry # NoRetry => s.retry.attempt > 0
      BY <1>2 DEF Passes, Sound
    <2> QED BY <2>5, <2>6, <2>7, <2>8, <2>9 DEF Passes, Sound
  <1> QED BY <1>1, <1>3, <1>4, <1>5, <1>6, <1>7 DEF Ops, Kinds

-----------------------------------------------------------------------------
(* The ledger's invariant *)

\* A method that goes on where nothing is written is as fresh as it was; so is one that
\* begins.
LEMMA FreshRests ==
    ASSUME NEW r \in Runners, NEW o, op'[r] = o, snap'[o.issue] = snap[o.issue], Fresh(o)
    PROVE  Fresh(op[r])'
  <1>1. Event(o) => Event(op[r])'
    <2>1. ClaimEvent(o) => ClaimEvent(op[r])'
      BY DEF ClaimEvent, Becomes
    <2>2. RunningEvent(o) => RunningEvent(op[r])'
      BY DEF RunningEvent, Becomes
    <2>3. HeartbeatEvent(o) => HeartbeatEvent(op[r])'
      BY DEF HeartbeatEvent, Becomes
    <2>4. FailureEvent(o) => FailureEvent(op[r])'
      BY DEF FailureEvent, Becomes
    <2>5. TransitionEvent(o) => TransitionEvent(op[r])'
      BY DEF TransitionEvent, Becomes
    <2> QED BY <2>1, <2>2, <2>3, <2>4, <2>5 DEF Event
  <1> QED BY <1>1 DEF Fresh

\* On the way to its comment a method takes its event along.
LEMMA FreshPath ==
    ASSUME NEW o, NEW p, Fresh(o), p = NoOp \/ Path(o, p)
    PROVE  Fresh(p)
  <1>1. CASE p.pc \in {"acquire", "elected", "append"} /\ p # NoOp
    <2>1. /\ p.kind = o.kind /\ p.issue = o.issue /\ p.at = o.at /\ p.fence = o.fence /\ p.next = o.next
          /\ o.pc \in {"acquire", "elected", "append"}
      BY <1>1 DEF Path
    <2> QED BY <2>1 DEF Fresh, Event, ClaimEvent, RunningEvent, HeartbeatEvent, FailureEvent, TransitionEvent
  <1>2. CASE p.pc \notin {"acquire", "elected", "append"}
    BY <1>2 DEF Fresh
  <1>3. CASE p = NoOp
    BY <1>3 DEF Fresh, NoOp
  <1> QED BY <1>1, <1>2, <1>3

\* An accepted comment is what its method would derive now, and is sound.
LEMMA WritesEvent ==
    ASSUME GitHubTrackerAssumption, BasicInv, NEW r \in Runners, Writes(op[r])
    PROVE  /\ Event(op[r]) /\ op[r].next.version = snap[op[r].issue].version + 1 /\ ~poisoned[op[r].issue]
           /\ Passes(op[r].issue, op[r].next)
           /\ snap'[op[r].issue] = op[r].next /\ \A i \in Issues : i # op[r].issue => snap'[i] = snap[i]
  <1>1. /\ op[r].pc = "append" /\ op[r].next.version = snap[op[r].issue].version + 1 /\ ~poisoned[op[r].issue]
        /\ snap' = [snap EXCEPT ![op[r].issue] = op[r].next]
    BY DEF Writes, Accepted, Current
  <1>2. Event(op[r])
    BY <1>1 DEF BasicInv, FreshInv, Fresh
  <1>3. op[r].issue \in Issues /\ TypeOK
    BY OpType DEF BasicInv
  <1>4. Passes(op[r].issue, op[r].next)
    BY <1>2, <1>3, EventPasses, LedgerPasses DEF BasicInv
  <1> QED BY <1>1, <1>2, <1>3, <1>4 DEF TypeOK

\* The ledger and the events of a method that goes on.
LEMMA GoesLedger ==
    ASSUME GitHubTrackerAssumption, BasicInv, NEW r \in Runners, Goes(r)
    PROVE  /\ snap' \in [Issues -> Snapshots] /\ poisoned' \in [Issues -> BOOLEAN] /\ op' \in [Runners -> Ops]
           /\ LedgerInv' /\ FreshInv'
  <1>1. PICK p : Turns(r, p) /\ (p = NoOp \/ Path(op[r], p))
    BY DEF Goes
  <1>2. p \in Ops /\ op'[r] = p /\ (\A q \in Runners : q # r => op'[q] = op[q]) /\ op' \in [Runners -> Ops]
    BY <1>1 DEF Turns, BasicInv, TypeOK
  <1>3. CASE LedgerRests
    <2>1. snap' = snap /\ poisoned' \in [Issues -> BOOLEAN]
      BY <1>3 DEF LedgerRests
    <2>2. LedgerInv'
      BY <2>1 DEF BasicInv, LedgerInv, GateBeforeMerge, Sound
    <2>3. \A q \in Runners : Fresh(op[q])'
      <3> TAKE q \in Runners
      <3>1. CASE q = r
        <4>1. Fresh(p)
          BY <1>1, FreshPath DEF BasicInv, FreshInv
        <4> QED BY <1>2, <2>1, <3>1, <4>1, FreshRests
      <3>2. CASE q # r
        BY <1>2, <2>1, <3>2, FreshRests DEF BasicInv, FreshInv
      <3> QED BY <3>1, <3>2
    <2> QED BY <1>2, <2>1, <2>2, <2>3 DEF BasicInv, TypeOK, FreshInv
  <1>4. CASE Writes(op[r])
    <2> DEFINE i == op[r].issue
    <2>1. /\ op[r].next.version = snap[i].version + 1 /\ Passes(i, op[r].next)
          /\ snap'[i] = op[r].next /\ \A j \in Issues : j # i => snap'[j] = snap[j]
      BY <1>4, WritesEvent
    <2>2. i \in Issues /\ op[r].next \in Snapshots /\ snap[i].version \in Nat
      BY OpType, SnapType DEF BasicInv
    <2>3. snap' \in [Issues -> Snapshots] /\ poisoned' \in [Issues -> BOOLEAN]
      BY <1>4, <2>2 DEF Writes, BasicInv, TypeOK
    <2>4. \A j \in Issues : Passes(j, snap'[j])
      BY <2>1, <2>2, LedgerPasses DEF BasicInv
    <2>5. LedgerInv'
      BY <2>4 DEF Passes, LedgerInv, GateBeforeMerge, Sound, GitHubTrackerAssumption
    <2>6. \A q \in Runners : Fresh(op[q])'
      <3> TAKE q \in Runners
      <3>1. CASE op'[q].pc \notin {"acquire", "elected", "append"}
        BY <3>1 DEF Fresh
      <3>2. CASE op'[q].pc \in {"acquire", "elected", "append"} /\ op'[q].issue = i
        <4>1. q # r
          BY <1>1, <1>2, <1>4, <3>2, NoOpType DEF Path, Writes
        <4>2. op'[q] = op[q] /\ op[q].next.version <= snap[i].version + 1
          BY <1>2, <3>2, <4>1 DEF BasicInv, FreshInv, Fresh
        <4>3. op[q].next.version \in Nat /\ snap'[i].version = snap[i].version + 1
          BY <2>1, OpType DEF BasicInv
        <4> QED BY <2>2, <3>2, <4>2, <4>3 DEF Fresh
      <3>3. CASE op'[q].pc \in {"acquire", "elected", "append"} /\ op'[q].issue # i
        <4>1. q # r
          BY <1>1, <1>2, <1>4, <3>3, NoOpType DEF Path, Writes
        <4>2. op'[q] = op[q] /\ Fresh(op[q]) /\ op[q].issue \in Issues
          BY <1>2, <4>1, OpType DEF BasicInv, FreshInv
        <4>3. snap'[op[q].issue] = snap[op[q].issue]
          BY <2>1, <3>3, <4>2
        <4> QED BY <4>2, <4>3, FreshRests
      <3> QED BY <3>1, <3>2, <3>3
    <2> QED BY <1>2, <2>3, <2>5, <2>6 DEF FreshInv
  <1> QED BY <1>3, <1>4 DEF Goes

\* The types of what a call leaves behind besides.
LEMMA RestTyped ==
    ASSUME GitHubTrackerAssumption, TypeOK, NEW r \in Runners, Step(r) \/ Fault(r)
    PROVE  /\ provider' \in [Issues -> SUBSET {"pr", "merge"}] /\ lease' \in Leases
           /\ label' \in [Issues -> LifecycleStates] /\ gateField' \in [Issues -> BOOLEAN]
           /\ unwound' \in BOOLEAN /\ now' \in Nat /\ faults' \in Nat
  <1> DEFINE o == op[r]
  <1>1. /\ o.issue \in Issues /\ o.fence \in Nat /\ o.next.claim.expires \in Nat /\ o.shows \in LifecycleStates
        /\ lease \in Leases
    BY OpType DEF TypeOK
  <1>2. lease' \in Leases
    <2>1. LeaseMoves(o)
      BY StepGoes DEF Goes
    <2>2. /\ LeaseAfterAcquire(o) \in Leases /\ LeaseAfterBeat(o) \in Leases /\ LeaseAfterRelease(o) \in Leases
      BY <1>1, Tables DEF LeaseAfterAcquire, LeaseAfterBeat, LeaseAfterRelease, Leases
    <2> QED BY <1>1, <2>1, <2>2 DEF LeaseMoves
  <1>3. provider' = provider /\ now' = now
    BY DEF Step, Acquire, CheckElection, Append, Confirm, ProjectState, ProjectGate, FinalRead, BeatLease,
           ReleaseLease, Fault, CallFails, ReplyLost, Crash, world
  <1>4. /\ label' = label \/ label' = [label EXCEPT ![o.issue] = o.shows]
        /\ gateField' = gateField \/ gateField' = [gateField EXCEPT ![o.issue] = TRUE]
    BY DEF Step, Acquire, CheckElection, Append, Confirm, ProjectState, ProjectGate, FinalRead, BeatLease,
           ReleaseLease, Fault, CallFails, ReplyLost, Crash, projection
  <1>5. unwound' \in BOOLEAN
    <2>1. Throw(r) => unwound' \in BOOLEAN
      BY Zenon DEF Throw
    <2>2. ReplyLost(r) => unwound' \in BOOLEAN
      <3>1. (unwound \/ (o.kind = "claim" /\ Accepted(o))) \in BOOLEAN
        BY Zenon
      <3> QED BY <2>1, <3>1 DEF ReplyLost, TypeOK
    <2> QED BY <2>1, <2>2 DEF TypeOK, Step, Acquire, CheckElection, Append, Confirm, ProjectState, ProjectGate,
                              FinalRead, BeatLease, ReleaseLease, Fault, CallFails, Crash
  <1>6. faults' \in Nat
    BY DEF TypeOK, Step, Acquire, CheckElection, Append, Confirm, ProjectState, ProjectGate,
           FinalRead, BeatLease, ReleaseLease, Fault, CallFails, ReplyLost, Crash
  <1>7. label' \in [Issues -> LifecycleStates] /\ gateField' \in [Issues -> BOOLEAN]
    BY <1>1, <1>4 DEF TypeOK
  <1> QED BY <1>2, <1>3, <1>5, <1>6, <1>7 DEF TypeOK

\* Where neither the ledger nor a method moves.
LEMMA BasicRests ==
    ASSUME BasicInv, UNCHANGED <<snap, op>>
    PROVE  LedgerInv' /\ FreshInv'
  <1>1. LedgerInv'
    BY DEF BasicInv, LedgerInv, GateBeforeMerge, Sound
  <1>2. \A r \in Runners : Fresh(op[r])'
    BY FreshRests DEF BasicInv, FreshInv
  <1> QED BY <1>1, <1>2 DEF FreshInv

\* Every step keeps the invariant of the ledger.
LEMMA BasicStep ==
    ASSUME GitHubTrackerAssumption, BasicInv, [Next]_vars
    PROVE  BasicInv'
  <1>0. TypeOK /\ LedgerInv /\ FreshInv
    BY DEF BasicInv
  <1>1. ASSUME NEW r \in Runners, Call(r) PROVE BasicInv'
    <2>1. PICK p : Quiet /\ Turns(r, p) /\ Begins(p)
      BY <1>0, <1>1, CallBegins
    <2>2. UNCHANGED <<snap, poisoned, provider, lease, label, gateField, unwound, now, faults>>
      BY <2>1 DEF Quiet, ledger, projection, world
    <2>3. /\ op' \in [Runners -> Ops] /\ op'[r] = p /\ \A q \in Runners : q # r => op'[q] = op[q]
      BY <1>0, <2>1 DEF Turns, TypeOK
    <2>4. TypeOK'
      BY <1>0, <2>2, <2>3 DEF TypeOK
    <2>5. LedgerInv'
      BY <1>0, <2>2 DEF LedgerInv, GateBeforeMerge, Sound
    <2>6. Fresh(p)
      BY <1>0, <2>1, SnapType DEF Begins, Fresh
    <2>7. \A q \in Runners : Fresh(op[q])'
      BY <1>0, <2>2, <2>3, <2>6, FreshRests DEF FreshInv
    <2> QED BY <2>4, <2>5, <2>7 DEF BasicInv, FreshInv
  <1>2. ASSUME NEW r \in Runners, Step(r) \/ Fault(r) PROVE BasicInv'
    <2>1. /\ snap' \in [Issues -> Snapshots] /\ poisoned' \in [Issues -> BOOLEAN] /\ op' \in [Runners -> Ops]
          /\ LedgerInv' /\ FreshInv'
      BY <1>0, <1>2, StepGoes, GoesLedger
    <2>2. TypeOK'
      BY <1>0, <1>2, <2>1, RestTyped DEF TypeOK
    <2> QED BY <2>1, <2>2 DEF BasicInv
  <1>3. ASSUME NEW i \in Issues, PullRequest(i) PROVE BasicInv'
    <2>1. UNCHANGED <<snap, poisoned, lease, label, gateField, op, unwound, now, faults>>
      BY <1>3 DEF PullRequest, ledger, projection
    <2>2. provider' \in [Issues -> SUBSET {"pr", "merge"}]
      BY <1>0, <1>3 DEF PullRequest, TypeOK
    <2>3. TypeOK'
      BY <1>0, <2>1, <2>2 DEF TypeOK
    <2> QED BY <2>1, <2>3, BasicRests DEF BasicInv
  <1>4. ASSUME Tick PROVE BasicInv'
    <2>1. UNCHANGED <<snap, poisoned, provider, lease, label, gateField, op, unwound, faults>> /\ now' = now + 1
      BY <1>4 DEF Tick, ledger, projection
    <2>2. TypeOK'
      BY <1>0, <2>1 DEF TypeOK
    <2> QED BY <2>1, <2>2, BasicRests DEF BasicInv
  <1>5. ASSUME UNCHANGED vars PROVE BasicInv'
    <2>1. UNCHANGED <<snap, poisoned, provider, lease, label, gateField, op, unwound, now, faults>>
      BY <1>5 DEF vars
    <2>2. TypeOK'
      BY <1>0, <2>1 DEF TypeOK
    <2> QED BY <2>1, <2>2, BasicRests DEF BasicInv
  <1> QED BY <1>1, <1>2, <1>3, <1>4, <1>5 DEF Next

\* It holds at first.
LEMMA BasicInit ==
    ASSUME GitHubTrackerAssumption, Init
    PROVE  BasicInv
  <1>1. TypeOK
    BY NoOpType, Tables DEF Init, TypeOK, GitHubTrackerAssumption
  <1>2. LedgerInv
    BY LedgerPasses DEF Init, Baseline, Passes, Sound
  <1>3. FreshInv
    BY NoOpType DEF Init, FreshInv, Fresh
  <1> QED BY <1>1, <1>2, <1>3 DEF BasicInv

\* The invariant of the ledger, in all behaviours.
THEOREM LedgerInvariant ==
    ASSUME GitHubTrackerAssumption
    PROVE  Spec => []BasicInv
  <1>1. Init => BasicInv
    BY BasicInit
  <1>2. BasicInv /\ [Next]_vars => BasicInv'
    BY BasicStep
  <1> QED BY <1>1, <1>2, PTL DEF Spec

\* Type correctness.
THEOREM LedgerTyped ==
    ASSUME GitHubTrackerAssumption
    PROVE  Spec => []TypeOK
  <1>1. BasicInv => TypeOK
    BY DEF BasicInv
  <1> QED BY <1>1, LedgerInvariant, PTL

\* A high-risk issue is merged only through an owner gate with its gate ID, whatever calls
\* fail, whoever crashes and however often the issue is claimed anew on the way.
THEOREM GatesPrecedeMerges ==
    ASSUME GitHubTrackerAssumption
    PROVE  Spec => []GateBeforeMerge
  <1>1. BasicInv => GateBeforeMerge
    BY DEF BasicInv, LedgerInv
  <1> QED BY <1>1, LedgerInvariant, PTL

-----------------------------------------------------------------------------
(* Each ledger implements the tracker boundary *)

\* One place of a function changes.
LEMMA OnePlace ==
    ASSUME NEW S, NEW i \in S, NEW v, NEW f, NEW g, f = [j \in S |-> f[j]], g = [j \in S |-> g[j]],
           g[i] = v, \A j \in S : j # i => g[j] = f[j]
    PROVE  g = [f EXCEPT ![i] = v]
  OBVIOUS

\* An accepted comment is one write of the boundary.
LEMMA WriteAccepts ==
    ASSUME GitHubTrackerAssumption, BasicInv, NEW r \in Runners, Writes(op[r]),
           NEW i, NEW to, NEW fence, i = op[r].issue, to = op[r].next.state, fence = op[r].next.claim.fence
    PROVE  Boundary!Accept(i, to, fence)
  <1> DEFINE next == op[r].next
             state == [j \in Issues |-> snap[j].state]
             version == [j \in Issues |-> snap[j].version]
             holder == [j \in Issues |-> snap[j].claim.fence]
             newState == [j \in Issues |-> snap'[j].state]
             newVersion == [j \in Issues |-> snap'[j].version]
             newHolder == [j \in Issues |-> snap'[j].claim.fence]
  <1>1. /\ i \in Issues /\ next.version = snap[i].version + 1
        /\ snap'[i] = next /\ \A j \in Issues : j # i => snap'[j] = snap[j]
    BY WritesEvent, OpType DEF BasicInv
  <1> HIDE DEF next
  <1>2. newState = [state EXCEPT ![i] = next.state]
    <2>1. newState[i] = next.state /\ \A j \in Issues : j # i => newState[j] = state[j]
      BY <1>1
    <2>2. state = [j \in Issues |-> state[j]] /\ newState = [j \in Issues |-> newState[j]]
      OBVIOUS
    <2> HIDE DEF state, newState
    <2> QED BY <1>1, <2>1, <2>2, OnePlace
  <1>3. newVersion = [version EXCEPT ![i] = @ + 1]
    <2>1. newVersion[i] = version[i] + 1 /\ \A j \in Issues : j # i => newVersion[j] = version[j]
      BY <1>1
    <2>2. version = [j \in Issues |-> version[j]] /\ newVersion = [j \in Issues |-> newVersion[j]]
      OBVIOUS
    <2> HIDE DEF version, newVersion
    <2> QED BY <1>1, <2>1, <2>2, OnePlace
  <1>4. newHolder = [holder EXCEPT ![i] = next.claim.fence]
    <2>1. newHolder[i] = next.claim.fence /\ \A j \in Issues : j # i => newHolder[j] = holder[j]
      BY <1>1
    <2>2. holder = [j \in Issues |-> holder[j]] /\ newHolder = [j \in Issues |-> newHolder[j]]
      OBVIOUS
    <2> HIDE DEF holder, newHolder
    <2> QED BY <1>1, <2>1, <2>2, OnePlace
  <1>5. to = next.state /\ fence = next.claim.fence
    BY DEF next
  <1> QED BY <1>2, <1>3, <1>4, <1>5 DEF Boundary!Accept

\* The boundary speaks of the same lifecycle.
LEMMA SameLifecycle ==
    /\ Boundary!LifecycleStates = LifecycleStates
    /\ Boundary!ReleasingStates = ReleasingStates
    /\ \A from, to : Boundary!CanMove(from, to) <=> CanMove(from, to)
  <1>1. Boundary!LifecycleStates = LifecycleStates
    BY DEF Boundary!LifecycleStates, LifecycleStates
  <1>2. Boundary!ReleasingStates = ReleasingStates
    BY DEF Boundary!ReleasingStates, ReleasingStates, Boundary!TerminalStates, TerminalStates
  <1>3. Boundary!NormalTransitions = NormalTransitions
    BY <1>1, Zenon DEF Boundary!NormalTransitions, NormalTransitions, Boundary!Aborts, Aborts
  <1> QED BY <1>1, <1>2, <1>3 DEF Boundary!CanMove, CanMove

\* How the boundary reads an accepted comment: a claim, a move that keeps it, one that ends
\* it, or one of an issue nobody works on.
LEMMA BoundaryMoves ==
    ASSUME NEW i \in Issues, NEW to \in LifecycleStates
    PROVE  /\ Boundary!Claim(i) => Boundary!Next
           /\ Boundary!Hold(i, to) => Boundary!Next
           /\ Boundary!Free(i, to) => Boundary!Next
           /\ Boundary!Unclaimed(i, to) => Boundary!Next
  <1>1. to \in Boundary!LifecycleStates
    BY SameLifecycle
  <1>2. Boundary!Claim(i) => Boundary!Next
    BY Zenon DEF Boundary!Next
  <1>3. Boundary!Hold(i, to) => Boundary!Next
    BY <1>1, Zenon DEF Boundary!Next
  <1>4. Boundary!Free(i, to) => Boundary!Next
    BY <1>1, Zenon DEF Boundary!Next
  <1>5. Boundary!Unclaimed(i, to) => Boundary!Next
    BY <1>1, Zenon DEF Boundary!Next
  <1> QED BY <1>2, <1>3, <1>4, <1>5

\* The same, told by the snapshot.
LEMMA BoundaryReads ==
    ASSUME NEW i \in Issues, NEW to \in LifecycleStates, NEW fence, Boundary!Accept(i, to, fence)
    PROVE  /\ /\ snap[i].claim.fence = 0 /\ snap[i].state \in {"ready", "retry-wait"}
              /\ to = "claimed" /\ fence = snap[i].version
              => Boundary!Claim(i)
           /\ /\ snap[i].claim.fence # 0 /\ (to = snap[i].state \/ CanMove(snap[i].state, to))
              /\ to \notin ReleasingStates \cup {"retry-wait"} /\ fence = snap[i].claim.fence
              => Boundary!Hold(i, to)
           /\ /\ snap[i].claim.fence # 0 /\ CanMove(snap[i].state, to)
              /\ to \in ReleasingStates \cup {"retry-wait"} /\ fence = 0
              => Boundary!Free(i, to)
           /\ /\ snap[i].claim.fence = 0 /\ CanMove(snap[i].state, to)
              /\ to # "claimed" /\ fence = 0
              => Boundary!Unclaimed(i, to)
  <1>1. /\ [j \in Issues |-> snap[j].state][i] = snap[i].state
        /\ [j \in Issues |-> snap[j].version][i] = snap[i].version
        /\ [j \in Issues |-> snap[j].claim.fence][i] = snap[i].claim.fence
    OBVIOUS
  <1>2. ASSUME snap[i].claim.fence = 0, snap[i].state \in {"ready", "retry-wait"}, to = "claimed",
               fence = snap[i].version
        PROVE  Boundary!Claim(i)
    BY <1>1, <1>2 DEF Boundary!Claim, Boundary!Accept
  <1>3. ASSUME snap[i].claim.fence # 0, to = snap[i].state \/ CanMove(snap[i].state, to),
               to \notin ReleasingStates \cup {"retry-wait"}, fence = snap[i].claim.fence
        PROVE  Boundary!Hold(i, to)
    BY <1>1, <1>3, SameLifecycle DEF Boundary!Hold, Boundary!Accept
  <1>4. ASSUME snap[i].claim.fence # 0, CanMove(snap[i].state, to),
               to \in ReleasingStates \cup {"retry-wait"}, fence = 0
        PROVE  Boundary!Free(i, to)
    BY <1>1, <1>4, SameLifecycle DEF Boundary!Free
  <1>5. ASSUME snap[i].claim.fence = 0, CanMove(snap[i].state, to), to # "claimed", fence = 0
        PROVE  Boundary!Unclaimed(i, to)
    BY <1>1, <1>5, SameLifecycle DEF Boundary!Unclaimed
  <1> QED BY <1>2, <1>3, <1>4, <1>5

\* A claim counts only while its issue is free, and other writes move along the lifecycle
\* table as the boundary has it.
LEMMA WritesMap ==
    ASSUME GitHubTrackerAssumption, BasicInv, NEW r \in Runners, Writes(op[r])
    PROVE  Boundary!Next
  <1> DEFINE o == op[r]
             s == snap[o.issue]
  <1> SUFFICES ASSUME NEW i, NEW target, NEW fence, i = o.issue, target = o.next.state, fence = o.next.claim.fence
               PROVE  Boundary!Next
    OBVIOUS
  <1>1. /\ Event(o) /\ Boundary!Accept(i, target, fence)
        /\ Admissible(o.kind, i, o.next) /\ Passes(i, s) /\ TypeOK
    BY WritesEvent, WriteAccepts, LedgerPasses, OpType DEF Writes, Accepted, BasicInv
  <1>2. /\ s.state \in LifecycleStates /\ s.version \in Nat \ {0} /\ s.claim \in Claims /\ s.retry \in Retries
        /\ s.evidence \in SUBSET Evidence /\ s.claim.fence \in Nat
        /\ i \in Issues /\ o \in Ops /\ o.at \in Nat /\ target \in LifecycleStates
    <2>1. /\ s.state \in LifecycleStates /\ s.version \in Nat \ {0} /\ s.claim \in Claims /\ s.retry \in Retries
          /\ s.evidence \in SUBSET Evidence /\ s.claim.fence \in Nat
          /\ i \in Issues /\ o \in Ops /\ o.at \in Nat
      BY <1>1, SnapType, OpType
    <2>2. o.next \in Snapshots
      BY <1>1, OpType
    <2> QED BY <2>1, <2>2 DEF Snapshots
  <1>4. s.claim = NoClaim <=> s.claim.fence = 0
    BY <1>1, Tables DEF Passes, Sound
  <1>5. ASSUME o.kind = "claim" PROVE Boundary!Claim(i)
    <2> DEFINE claim == [fence |-> s.version, attempt |-> NextAttempt(s), expires |-> o.at + Ttl]
    <2>1. /\ s.claim = NoClaim /\ s.state \in {"ready", "retry-wait"}
          /\ o.next = Becomes(i, "claimed", claim, NoRetry, s.evidence)
      BY <1>1, <1>5 DEF Event, ClaimEvent
    <2>2. o.next.state = "claimed" /\ o.next.claim.fence = s.version
      BY <2>1 DEF Becomes
    <2> QED BY <1>1, <1>2, <1>4, <2>1, <2>2, BoundaryReads
  <1>6. ASSUME s.claim # NoClaim, o.next.claim.fence = s.claim.fence, o.next.state \in HeldStates,
               o.next.state = s.state \/ CanMove(s.state, o.next.state)
        PROVE  Boundary!Hold(i, target)
    <2>1. o.next.state \notin ReleasingStates \cup {"retry-wait"}
      BY <1>6 DEF HeldStates, ReleasingStates, TerminalStates
    <2> QED BY <1>1, <1>2, <1>4, <1>6, <2>1, BoundaryReads
  <1>7. ASSUME s.claim # NoClaim, o.next.claim.fence = 0, CanMove(s.state, o.next.state),
               o.next.state \in ReleasingStates \cup {"retry-wait"}
        PROVE  Boundary!Free(i, target)
    BY <1>1, <1>2, <1>4, <1>7, BoundaryReads
  <1>8. ASSUME s.claim = NoClaim, o.next.claim.fence = 0, CanMove(s.state, o.next.state), o.next.state # "claimed"
        PROVE  Boundary!Unclaimed(i, target)
    BY <1>1, <1>2, <1>4, <1>8, BoundaryReads
  <1>9. ASSUME \/ Boundary!Claim(i)
               \/ Boundary!Hold(i, target) \/ Boundary!Free(i, target)
               \/ Boundary!Unclaimed(i, target)
        PROVE  Boundary!Next
    BY <1>2, <1>9, BoundaryMoves
  <1>10. CASE o.kind = "claim"
    BY <1>5, <1>9, <1>10
  <1>11. CASE o.kind = "running"
    <2>1. s.claim # NoClaim /\ s.state = "claimed" /\ o.next = Becomes(i, "running", s.claim, NoRetry, s.evidence)
      BY <1>1, <1>11 DEF Event, RunningEvent
    <2>2. o.next.state = "running" /\ o.next.claim = s.claim
      BY <2>1 DEF Becomes
    <2>3. CanMove("claimed", "running")
      BY DEF CanMove, NormalTransitions, LifecycleStates
    <2> QED BY <1>6, <1>9, <2>1, <2>2, <2>3 DEF HeldStates
  <1>12. CASE o.kind = "heartbeat"
    <2> DEFINE claim == [s.claim EXCEPT !.expires = o.at + Ttl]
    <2>1. s.claim # NoClaim /\ o.next = Becomes(i, s.state, claim, s.retry, s.evidence)
      BY <1>1, <1>12 DEF Event, HeartbeatEvent
    <2>2. o.next.state = s.state /\ o.next.claim.fence = s.claim.fence
      BY <1>2, <2>1 DEF Becomes, Claims
    <2> QED BY <1>1, <1>6, <1>9, <2>1, <2>2 DEF Passes, Sound
  <1>13. CASE o.kind = "failure"
    <2>1. /\ s.claim # NoClaim /\ o.next.state \in {"retry-wait", "failed"}
          /\ o.next = Becomes(i, o.next.state, NoClaim, o.next.retry, s.evidence)
      BY <1>1, <1>13 DEF Event, FailureEvent
    <2>2. o.next.claim.fence = 0
      BY <2>1, Tables DEF Becomes
    <2>3. CanMove(s.state, o.next.state)
      BY <1>1, <1>13 DEF Admissible
    <2> QED BY <1>7, <1>9, <2>1, <2>2, <2>3 DEF ReleasingStates, TerminalStates
  <1>14. CASE o.kind = "transition"
    <2>1. PICK to \in Targets, evidence \in SUBSET Evidence :
              /\ CanMove(s.state, to)
              /\ o.next = Becomes(i, to, IF to \in ReleasingStates THEN NoClaim ELSE s.claim, s.retry, evidence)
      BY <1>1, <1>14 DEF Event, TransitionEvent
    <2>2. o.next.state = to /\ o.next.claim = IF to \in ReleasingStates THEN NoClaim ELSE s.claim
      BY <2>1 DEF Becomes
    <2>3. to \in LifecycleStates /\ to \notin {"claimed", "running", "retry-wait"}
      BY DEF GitHubTrackerAssumption
    <2>4. CASE s.claim = NoClaim
      BY <1>4, <1>8, <1>9, <2>1, <2>2, <2>3, <2>4
    <2>5. CASE s.claim # NoClaim /\ to \in ReleasingStates
      BY <1>7, <1>9, <2>1, <2>2, <2>5, Tables
    <2>6. CASE s.claim # NoClaim /\ to \notin ReleasingStates
      <3>1. Passes(i, o.next)
        BY WritesEvent
      <3>2. to \in HeldStates
        BY <2>2, <2>6, <3>1 DEF Passes, Sound
      <3> QED BY <1>6, <1>9, <2>1, <2>2, <2>6, <3>2
    <2> QED BY <2>4, <2>5, <2>6
  <1> QED BY <1>2, <1>10, <1>11, <1>12, <1>13, <1>14 DEF Ops, Kinds

\* Every step is one of the boundary's, or none.
LEMMA StepMaps ==
    ASSUME GitHubTrackerAssumption, BasicInv, [Next]_vars
    PROVE  [Boundary!Next]_Boundary!vars
  <1>1. ASSUME snap' = snap PROVE UNCHANGED Boundary!vars
    BY <1>1 DEF Boundary!vars
  <1>2. ASSUME NEW r \in Runners, Call(r) PROVE snap' = snap
    BY <1>2, CallBegins DEF BasicInv, Quiet, ledger
  <1>3. ASSUME NEW r \in Runners, Step(r) \/ Fault(r) PROVE snap' = snap \/ Boundary!Next
    BY <1>3, StepGoes, WritesMap DEF BasicInv, Goes, LedgerRests
  <1>4. ASSUME Tick \/ (\E i \in Issues : PullRequest(i)) \/ UNCHANGED vars PROVE snap' = snap
    BY <1>4 DEF Tick, PullRequest, vars, ledger
  <1> QED BY <1>1, <1>2, <1>3, <1>4 DEF Next

\* The ledger as GitHubTrackerAdapter writes it implements the tracker boundary: every comment
\* that counts is one write that the boundary allows, also when runners, lost replies and
\* crashes interleave, and nothing else changes what the ledger says.
THEOREM LedgerRefinement ==
    ASSUME GitHubTrackerAssumption
    PROVE  Spec => LedgerImplementsBoundary
  <1>1. Init => Boundary!Init
    BY DEF Init, Baseline, NoClaim, Boundary!Init
  <1>2. BasicInv /\ [Next]_vars => [Boundary!Next]_Boundary!vars
    BY StepMaps
  <1>3. Boundary!Spec <=> Boundary!Init /\ [][Boundary!Next]_Boundary!vars
    BY DEF Boundary!Spec
  <1> QED BY <1>1, <1>2, <1>3, LedgerInvariant, PTL DEF Spec, LedgerImplementsBoundary

-----------------------------------------------------------------------------
(* The shared fence *)

\* Which methods come where, and what a claim was proposed with.
Placed(o) ==
    /\ o.pc \in {"acquire", "elected", "unwind"} => o.kind = "claim"
    /\ o.pc # "idle" /\ o.kind = "failure" => Ending(o)
    /\ o.pc # "idle" /\ o.kind = "transition" /\ o.fence # 0 => o.fence < snap[o.issue].version
    /\ o.pc = "beat" => o.kind = "heartbeat" /\ o.fence < snap[o.issue].version
    /\ o.pc # "idle" /\ o.kind = "claim" =>
          /\ o.fence > 0 /\ o.fence <= snap[o.issue].version
          /\ o.next.version = o.fence + 1 /\ o.next.claim.expires = o.at + Ttl

\* The claim a method ends has ended before the method says so, and so has any claim
\* that a transition releases the lease of.
Over(o) ==
    \/ Ending(o) /\ (o.pc \in {"label", "gate", "final", "release"} \/ (o.pc = "confirm" /\ o.accepted))
    \/ o.kind # "claim" /\ o.pc = "release"
Ended(o) ==
    Over(o) => o.fence # 0 /\ o.fence < snap[o.issue].version /\ snap[o.issue].claim.fence # o.fence

\* Methods are over, and claims renewed, in time.
Timed(o) ==
    /\ o.pc # "idle" => o.at <= now /\ now < o.at + Ttl
    /\ o.pc = "beat" => now < o.next.claim.expires
Renewed == \A i \in Issues : Claimed(i) => now < snap[i].claim.expires

\* The claim of this method may still be written.
Open(o) == ~poisoned[o.issue] /\ snap[o.issue].version = o.fence

\* Not once its comment is there.
Closed(o) == o.kind = "claim" /\ o.pc \in {"confirm", "label", "gate", "final", "release"} => ~Open(o)

\* tryClaim has won the election.
Won(o) ==
    /\ o.kind = "claim"
    /\ \/ o.pc = "elected" /\ o.accepted
       \/ o.pc \in Caught \cup {"unwind"}

\* As long as its claim may be written, the winner has the lease,
Leads(o) == Won(o) /\ Open(o) => LeaseIs(o.issue, o.fence) /\ lease.expires = o.at + Ttl

\* alone,
Alone(r) ==
    \A q \in Runners :
        Won(op[r]) /\ Open(op[r]) /\ Won(op[q]) /\ op[q].issue = op[r].issue /\ op[q].fence = op[r].fence
            => q = r

\* and unless it is its own, no claim has its fence.
Apart(o) == Won(o) /\ ~Stands(o) => snap[o.issue].claim.fence # o.fence

Led(r) == Leads(op[r]) /\ Alone(r) /\ Apart(op[r])

Kept(o) == Placed(o) /\ Ended(o) /\ Timed(o) /\ Closed(o)

WipInv ==
    /\ \A r \in Runners : Kept(op[r])
    /\ Renewed /\ WipOneUnlessUnwound
    /\ ~unwound => \A r \in Runners : Led(r)

\* What an accepted comment does to the claim of its issue: it makes it, keeps it, or ends it.
LEMMA WrittenClaim ==
    ASSUME GitHubTrackerAssumption, BasicInv, NEW r \in Runners, Writes(op[r])
    PROVE  LET o == op[r]
               claim == snap[o.issue].claim
           IN  \/ /\ o.kind = "claim" /\ claim = NoClaim /\ o.next.claim # NoClaim
                  /\ o.next.claim.fence = snap[o.issue].version
               \/ /\ o.kind # "claim" /\ claim # NoClaim /\ o.next.claim # NoClaim
                  /\ o.next.claim.fence = claim.fence
                  /\ o.next.claim.expires \in {claim.expires, o.at + Ttl}
                  /\ ~Ending(o)
               \/ /\ o.kind # "claim" /\ o.next.claim = NoClaim
                  /\ Ending(o) => o.fence = claim.fence
  <1> DEFINE o == op[r]
             i == o.issue
             s == snap[i]
  <1>1. Event(o) /\ Passes(i, s) /\ TypeOK
    BY WritesEvent, LedgerPasses, OpType DEF BasicInv
  <1>2. /\ s.version \in Nat \ {0} /\ s.claim \in Claims /\ s.claim.fence \in Nat /\ o.at \in Nat
        /\ i \in Issues /\ o \in Ops /\ o.fence \in Nat
    BY <1>1, SnapType, OpType
  <1>3. s.claim # NoClaim => s.claim.fence > 0
    BY <1>1 DEF Passes, Sound
  <1>4. CASE o.kind = "claim"
    <2>1. /\ s.claim = NoClaim
          /\ o.next.claim = [fence |-> s.version, attempt |-> NextAttempt(s), expires |-> o.at + Ttl]
      BY <1>1, <1>4 DEF Event, ClaimEvent, Becomes
    <2> QED BY <1>2, <1>4, <2>1, Tables
  <1>5. CASE o.kind = "running"
    <2>1. s.claim # NoClaim /\ o.next.claim = s.claim
      BY <1>1, <1>5 DEF Event, RunningEvent, Becomes
    <2> QED BY <1>5, <2>1 DEF Ending
  <1>6. CASE o.kind = "heartbeat"
    <2>1. s.claim # NoClaim /\ o.next.claim = [s.claim EXCEPT !.expires = o.at + Ttl]
      BY <1>1, <1>6 DEF Event, HeartbeatEvent, Becomes
    <2>2. o.next.claim.fence = s.claim.fence /\ o.next.claim.expires = o.at + Ttl
      BY <1>2, <2>1 DEF Claims
    <2>3. ASSUME o.next.claim = NoClaim PROVE FALSE
      <3>1. o.next.claim.fence = 0
        BY <2>3 DEF NoClaim
      <3>2. s.claim.fence > 0
        BY <1>3, <2>1
      <3> QED BY <1>2, <2>2, <3>1, <3>2
    <2> QED BY <1>6, <2>1, <2>2, <2>3 DEF Ending
  <1>7. CASE o.kind = "failure"
    <2>1. o.next.claim = NoClaim /\ o.fence = s.claim.fence
      BY <1>1, <1>7 DEF Event, FailureEvent, Becomes
    <2> QED BY <1>7, <2>1
  <1>8. CASE o.kind = "transition"
    <2>1. o.fence = s.claim.fence /\ (o.next.claim = NoClaim \/ o.next.claim = s.claim)
      <3>1. PICK to \in Targets, evidence \in SUBSET Evidence :
                o.next = Becomes(i, to, IF to \in ReleasingStates THEN NoClaim ELSE s.claim, s.retry, evidence)
        BY <1>1, <1>8 DEF Event, TransitionEvent
      <3>2. o.next.claim = IF to \in ReleasingStates THEN NoClaim ELSE s.claim
        BY <3>1 DEF Becomes
      <3> QED BY <1>1, <1>8, <3>2 DEF Event, TransitionEvent
    <2>2. CASE o.next.claim = NoClaim
      BY <1>8, <2>1, <2>2
    <2>3. CASE o.next.claim # NoClaim
      BY <1>8, <2>1, <2>3 DEF Ending
    <2> QED BY <2>2, <2>3
  <1> QED BY <1>2, <1>4, <1>5, <1>6, <1>7, <1>8 DEF Ops, Kinds

\* The ledger only grows.
LEMMA LedgerGrows ==
    ASSUME GitHubTrackerAssumption, BasicInv, NEW r \in Runners, LedgerRests \/ Writes(op[r])
    PROVE  \A j \in Issues :
               /\ snap'[j].version \in Nat /\ snap'[j].version >= snap[j].version
               /\ poisoned[j] => poisoned'[j]
               /\ \/ snap'[j] = snap[j]
                  \/ j = op[r].issue /\ Writes(op[r]) /\ snap'[j] = op[r].next
                     /\ snap'[j].version = snap[j].version + 1
  <1> TAKE j \in Issues
  <1>1. snap[j].version \in Nat
    BY SnapType DEF BasicInv
  <1>2. CASE LedgerRests
    BY <1>1, <1>2 DEF LedgerRests
  <1>3. CASE Writes(op[r])
    <2>1. /\ op[r].next.version = snap[op[r].issue].version + 1
          /\ snap'[op[r].issue] = op[r].next /\ \A i \in Issues : i # op[r].issue => snap'[i] = snap[i]
      BY <1>3, WritesEvent
    <2>2. poisoned' = poisoned
      BY <1>3 DEF Writes
    <2>3. CASE j = op[r].issue
      BY <1>1, <1>3, <2>1, <2>2, <2>3
    <2>4. CASE j # op[r].issue
      BY <1>1, <2>1, <2>2, <2>4
    <2> QED BY <2>3, <2>4
  <1> QED BY <1>2, <1>3

\* What a step of another runner leaves of a method.
LEMMA OthersKept ==
    ASSUME GitHubTrackerAssumption, BasicInv, NEW r \in Runners, LedgerRests \/ Writes(op[r]), now' = now,
           NEW q \in Runners, op'[q] = op[q], Kept(op[q])
    PROVE  Kept(op[q])'
  <1> DEFINE o == op[q]
             j == o.issue
  <1>1. /\ j \in Issues /\ o.fence \in Nat /\ snap[j].version \in Nat /\ TypeOK
        /\ op[r].issue \in Issues /\ snap[j].claim.fence \in Nat
    BY OpType, SnapType DEF BasicInv
  <1>2. /\ snap'[j].version \in Nat /\ snap'[j].version >= snap[j].version
        /\ poisoned[j] => poisoned'[j]
    BY <1>1, LedgerGrows
  <1>3. Placed(op[q])'
    BY <1>1, <1>2 DEF Kept, Placed, Ending
  <1>4. Ended(op[q])'
    <2>1. ASSUME Over(o)
          PROVE  o.fence # 0 /\ o.fence < snap'[j].version /\ snap'[j].claim.fence # o.fence
      <3>1. o.fence < snap[j].version /\ snap[j].claim.fence # o.fence /\ o.fence # 0
        BY <2>1 DEF Kept, Ended
      <3>2. CASE snap'[j] = snap[j]
        BY <3>1, <3>2
      <3>3. CASE j = op[r].issue /\ Writes(op[r]) /\ snap'[j] = op[r].next
        <4>1. op[r].next.claim.fence \in {0, snap[j].claim.fence, snap[j].version}
          BY <3>3, WrittenClaim, Tables
        <4> QED BY <1>1, <1>2, <3>1, <3>3, <4>1
      <3> QED BY <1>1, <3>2, <3>3, LedgerGrows
    <2> QED BY <2>1 DEF Ended, Over, Ending
  <1>5. Timed(op[q])'
    BY DEF Kept, Timed
  <1>6. Closed(op[q])'
    <2>1. ASSUME o.kind = "claim", o.pc \in {"confirm", "label", "gate", "final", "release"}, Open(op[q])'
          PROVE  FALSE
      <3>1. o.fence <= snap[j].version /\ ~Open(o)
        BY <2>1 DEF Kept, Placed, Closed
      <3> QED BY <1>1, <1>2, <2>1, <3>1 DEF Open
    <2> QED BY <2>1 DEF Closed
  <1> QED BY <1>3, <1>4, <1>5, <1>6 DEF Kept

\* What a step leaves of the method that makes it.
LEMMA MoverKept ==
    ASSUME GitHubTrackerAssumption, BasicInv, Renewed, NEW r \in Runners, Kept(op[r]),
           LedgerRests \/ Writes(op[r]), now' = now,
           NEW p \in Ops, op'[r] = p, Path(op[r], p)
    PROVE  Kept(op[r])'
  <1> DEFINE o == op[r]
             i == o.issue
  <1>1. /\ i \in Issues /\ o.fence \in Nat /\ p.fence \in Nat /\ snap[i].version \in Nat /\ TypeOK
        /\ snap[i].claim.fence \in Nat /\ o \in Ops
    BY OpType, SnapType DEF BasicInv, Ops
  <1>2. /\ snap'[i].version \in Nat /\ snap'[i].version >= snap[i].version
        /\ poisoned[i] => poisoned'[i]
        /\ snap'[i] = snap[i] \/ (Writes(o) /\ snap'[i] = o.next /\ snap'[i].version = snap[i].version + 1)
    BY <1>1, LedgerGrows
  <1>3. /\ p.kind = o.kind /\ p.issue = i /\ p.at = o.at /\ o.pc # "idle"
        /\ p.pc # "beat" => p.fence = o.fence /\ p.next = o.next
    BY DEF Path
  <1>4. Placed(o) /\ Ended(o) /\ Timed(o) /\ Closed(o) /\ Sound(snap[i])
    BY <1>1 DEF Kept, BasicInv, LedgerInv
  <1>5. Writes(o) => o.pc = "append"
    BY DEF Writes
  <1>6. Placed(op[r])'
    <2>1. p.pc \in {"acquire", "elected", "unwind"} => p.kind = "claim"
      BY <1>3, <1>4 DEF Path, Placed
    <2>2. /\ p.kind = "failure" => Ending(p)
          /\ p.kind = "transition" /\ p.fence # 0 => p.fence < snap'[i].version
      <3>1. p.kind \in {"failure", "transition"} => p.fence = o.fence /\ p.next = o.next /\ p.kind = o.kind
        BY <1>3 DEF Path
      <3> QED BY <1>1, <1>2, <1>3, <1>4, <3>1 DEF Path, Placed, Ending
    <2>3. p.pc = "beat" => p.kind = "heartbeat" /\ p.fence < snap'[i].version
      BY <1>1, <1>2, <1>3, <1>4 DEF Path, Sound, Claimed
    <2>4. p.kind = "claim" => /\ p.fence > 0 /\ p.fence <= snap'[i].version
                              /\ p.next.version = p.fence + 1 /\ p.next.claim.expires = p.at + Ttl
      <3>1. p.kind = "claim" => p.pc # "beat"
        BY <1>3 DEF Path
      <3> QED BY <1>1, <1>2, <1>3, <1>4, <3>1 DEF Placed
    <2> QED BY <1>3, <2>1, <2>2, <2>3, <2>4 DEF Placed, Ending
  <1>7. Ended(op[r])'
    <2>1. ASSUME Ending(p), p.pc \in {"label", "gate", "final", "release"} \/ (p.pc = "confirm" /\ p.accepted)
          PROVE  p.fence # 0 /\ p.fence < snap'[i].version /\ snap'[i].claim.fence # p.fence
      <3>1. Ending(o) /\ p.fence = o.fence
        BY <1>3, <2>1 DEF Ending
      <3>2. CASE Writes(o)
        <4>1. o.next.claim.fence = 0 /\ o.fence = snap[i].claim.fence /\ o.fence # 0
          BY <3>1, <3>2, WrittenClaim, Tables DEF Ending
        <4>2. snap[i].claim # NoClaim
          BY <4>1, Tables
        <4>3. snap'[i] = o.next
          BY <3>2, WritesEvent
        <4> QED BY <1>1, <1>2, <1>4, <3>1, <4>1, <4>2, <4>3 DEF Sound
      <3>3. CASE ~Writes(o)
        <4>1. o.pc \in {"label", "gate", "final", "release"} \/ (o.pc = "confirm" /\ o.accepted)
          BY <2>1, <3>1, <3>3 DEF Path, Ending
        <4> QED BY <1>2, <1>4, <3>1, <3>3, <4>1 DEF Ended, Over
      <3> QED BY <3>2, <3>3
    <2>2. ASSUME p.kind # "claim", p.pc = "release"
          PROVE  p.fence # 0 /\ p.fence < snap'[i].version /\ snap'[i].claim.fence # p.fence
      <3>1. /\ o.pc = "final" /\ Releasing(o) /\ ~Writes(o)
            /\ p.fence = o.fence /\ p.next = o.next /\ p.kind = o.kind
        BY <1>3, <2>2 DEF Path, Writes
      <3>2. CASE o.kind = "failure"
        <4>1. Ending(p)
          BY <1>4, <3>1, <3>2 DEF Placed, Ending
        <4> QED BY <2>1, <2>2, <4>1
      <3>3. CASE o.kind = "transition"
        <4>1. o.fence # 0 /\ snap[i].claim.fence = 0 /\ o.fence < snap[i].version
          BY <1>4, <3>1, <3>3, Tables DEF Releasing, Placed
        <4> QED BY <1>2, <3>1, <4>1
      <3> QED BY <3>1, <3>2, <3>3 DEF Releasing
    <2> QED BY <1>3, <2>1, <2>2 DEF Ended, Over, Ending
  <1>8. Timed(op[r])'
    <2>1. p.pc = "beat" => now < p.next.claim.expires
      BY <1>1 DEF Path, Renewed
    <2> QED BY <1>3, <1>4, <2>1 DEF Timed
  <1>9. Closed(op[r])'
    <2>1. ASSUME p.kind = "claim", p.pc \in {"confirm", "label", "gate", "final", "release"}, Open(op[r])'
          PROVE  FALSE
      <3>1. /\ ~poisoned'[i] /\ snap'[i].version = o.fence /\ o.fence <= snap[i].version
            /\ o.next.version = o.fence + 1 /\ o.kind = "claim"
        BY <1>3, <1>4, <2>1 DEF Open, Placed
      <3>2. snap'[i].version = snap[i].version /\ ~poisoned[i] /\ ~Writes(o)
        BY <1>1, <1>2, <3>1, WritesEvent
      <3>3. CASE o.pc = "append"
        BY <1>1, <2>1, <3>1, <3>2, <3>3 DEF Path, Missed, Ending
      <3>4. CASE o.pc # "append"
        <4>1. o.pc \in {"confirm", "label", "gate", "final", "release"}
          BY <2>1, <3>4 DEF Path
        <4> QED BY <1>4, <3>1, <3>2, <4>1 DEF Closed, Open
      <3> QED BY <3>3, <3>4
    <2> QED BY <1>3, <2>1 DEF Closed
  <1> QED BY <1>6, <1>7, <1>8, <1>9 DEF Kept

\* Claims stay renewed.
LEMMA RenewedGoes ==
    ASSUME GitHubTrackerAssumption, BasicInv, Renewed, NEW r \in Runners, Kept(op[r]),
           LedgerRests \/ Writes(op[r]), now' = now
    PROVE  Renewed'
  <1> DEFINE o == op[r]
  <1> SUFFICES ASSUME NEW i \in Issues, Claimed(i)'
               PROVE  now < snap'[i].claim.expires
    BY DEF Renewed
  <1>1. CASE snap'[i] = snap[i]
    BY <1>1 DEF Claimed, Renewed
  <1>2. CASE i = o.issue /\ Writes(o) /\ snap'[i] = o.next
    <2>1. o.pc = "append" /\ now < o.at + Ttl /\ (o.kind = "claim" => o.next.claim.expires = o.at + Ttl)
      BY <1>2 DEF Writes, Kept, Timed, Placed
    <2>2. o.next.claim # NoClaim
      BY <1>2 DEF Claimed
    <2>3. \/ o.kind = "claim"
          \/ snap[i].claim # NoClaim /\ o.next.claim.expires \in {snap[i].claim.expires, o.at + Ttl}
      BY <1>2, <2>2, WrittenClaim
    <2> QED BY <1>2, <2>1, <2>3 DEF Renewed, Claimed
  <1> QED BY <1>1, <1>2, LedgerGrows

\* The lease is not free to a method in time while it is somebody's and lasts.
LEMMA LeaseTaken ==
    ASSUME TypeOK, NEW r \in Runners, Timed(op[r]), op[r].pc # "idle", lease # NoLease, now < lease.expires
    PROVE  ~LeaseFree(op[r].at)
  <1>1. op[r].at \in Nat /\ now \in Nat /\ lease.expires \in Nat /\ op[r].at <= now
    BY OpType DEF TypeOK, Leases, Timed
  <1> QED BY <1>1 DEF LeaseFree

\* The lease stays with a claim that somebody else made, or that was there.
LEMMA LeaseStays ==
    ASSUME GitHubTrackerAssumption, BasicInv, WipInv, ~unwound, NEW r \in Runners, LeaseMoves(op[r]),
           op[r].pc # "idle", NEW i \in Issues, Claimed(i)
    PROVE  lease' # NoLease /\ lease'.issue = i /\ lease'.fence = snap[i].claim.fence /\ now < lease'.expires
  <1> DEFINE o == op[r]
             fence == snap[i].claim.fence
  <1>1. /\ TypeOK /\ o.issue \in Issues /\ o.fence \in Nat /\ Kept(o) /\ Led(r) /\ lease \in Leases
        /\ Sound(snap[i])
    BY OpType DEF BasicInv, LedgerInv, WipInv, TypeOK
  <1>2. /\ lease # NoLease /\ lease.issue = i /\ lease.fence = fence /\ now < lease.expires
        /\ fence > 0 /\ fence \in Nat
    BY <1>1, SnapType DEF WipInv, WipOneUnlessUnwound, LeaseIs, Sound, Claimed
  <1>3. CASE lease' = lease
    BY <1>2, <1>3
  <1>4. CASE o.pc = "acquire" /\ lease' = LeaseAfterAcquire(o)
    <2>1. ~LeaseFree(o.at)
      BY <1>1, <1>2, LeaseTaken DEF Kept
    <2> QED BY <1>2, <1>4, <2>1 DEF LeaseAfterAcquire
  <1>5. CASE o.pc = "beat" /\ lease' = LeaseAfterBeat(o)
    <2>1. CASE LeaseIs(o.issue, o.fence)
      <3>1. lease' = [lease EXCEPT !.expires = o.next.claim.expires]
        BY <1>5, <2>1 DEF LeaseAfterBeat
      <3>2. lease'.issue = i /\ lease'.fence = fence /\ lease'.expires = o.next.claim.expires
        BY <1>1, <1>2, <3>1 DEF Leases
      <3>3. lease' # NoLease
        BY <1>2, <3>2, Tables
      <3> QED BY <1>1, <1>5, <3>2, <3>3 DEF Kept, Timed
    <2>2. CASE ~LeaseIs(o.issue, o.fence)
      BY <1>2, <1>5, <2>2 DEF LeaseAfterBeat
    <2> QED BY <2>1, <2>2
  <1>6. CASE o.pc \in {"release", "unwind"} /\ lease' = LeaseAfterRelease(o)
    <2>1. ASSUME LeaseIs(o.issue, o.fence) PROVE FALSE
      <3>1. o.issue = i /\ fence = o.fence
        BY <1>2, <2>1 DEF LeaseIs
      <3>2. CASE o.kind = "claim"
        <4>1. Won(o) /\ ~Stands(o)
          BY <1>6, <3>2 DEF Won, Stands, Caught
        <4> QED BY <1>1, <3>1, <4>1 DEF Led, Apart
      <3>3. CASE o.kind # "claim"
        <4>1. Over(o)
          BY <1>1, <1>6, <3>3 DEF Kept, Placed, Over
        <4> QED BY <1>1, <3>1, <4>1 DEF Kept, Ended
      <3> QED BY <3>2, <3>3
    <2> QED BY <1>2, <1>6, <2>1 DEF LeaseAfterRelease
  <1> QED BY <1>3, <1>4, <1>5, <1>6 DEF LeaseMoves

\* One claim in the project, and the lease is its own: also after the next step.
LEMMA WipGoes ==
    ASSUME GitHubTrackerAssumption, BasicInv, WipInv, ~unwound, NEW r \in Runners, Goes(r)
    PROVE  \A i \in Issues : Claimed(i)' => LeaseIs(i, snap[i].claim.fence)' /\ now' < lease'.expires
  <1> DEFINE o == op[r]
  <1>1. /\ LedgerRests \/ Writes(o)
        /\ LeaseMoves(o) /\ now' = now /\ o.pc # "idle"
    BY DEF Goes
  <1> SUFFICES ASSUME NEW i \in Issues, Claimed(i)'
               PROVE  LeaseIs(i, snap[i].claim.fence)' /\ now < lease'.expires
    BY <1>1
  <1>2. CASE Claimed(i) /\ snap'[i].claim.fence = snap[i].claim.fence
    BY <1>1, <1>2, LeaseStays DEF LeaseIs
  <1>3. CASE ~(Claimed(i) /\ snap'[i].claim.fence = snap[i].claim.fence)
    <2>1. i = o.issue /\ Writes(o) /\ snap'[i] = o.next
      BY <1>1, <1>3, LedgerGrows DEF Claimed
    <2>2. o.next.claim # NoClaim
      BY <2>1 DEF Claimed
    <2>3. o.kind = "claim" /\ o.next.claim.fence = snap[i].version
      BY <1>3, <2>1, <2>2, WrittenClaim DEF Claimed
    <2>4. o.pc = "append" /\ ~poisoned[i] /\ snap[i].version + 1 = o.next.version
      BY <2>1 DEF Writes, Accepted, Current
    <2>5. Placed(o) /\ Timed(o) /\ Leads(o) /\ o.fence \in Nat /\ snap[i].version \in Nat
      BY OpType, SnapType DEF WipInv, Kept, Led, BasicInv
    <2>6. snap[i].version = o.fence
      BY <2>3, <2>4, <2>5 DEF Placed
    <2>7. Won(o) /\ Open(o)
      BY <2>1, <2>3, <2>4, <2>6 DEF Won, Caught, Open
    <2>8. lease' = lease
      BY <1>1, <2>4 DEF LeaseMoves
    <2>9. lease # NoLease /\ lease.issue = i /\ lease.fence = o.fence /\ lease.expires = o.at + Ttl
      BY <2>1, <2>5, <2>7 DEF Leads, LeaseIs
    <2> QED BY <2>1, <2>3, <2>4, <2>5, <2>6, <2>8, <2>9 DEF LeaseIs, Timed
  <1> QED BY <1>2, <1>3

\* What is open was open, and nothing was written.
LEMMA OpenBefore ==
    ASSUME GitHubTrackerAssumption, BasicInv, NEW r \in Runners, LedgerRests \/ Writes(op[r]),
           NEW j \in Issues, NEW f \in Nat, f <= snap[j].version, ~poisoned'[j], snap'[j].version = f
    PROVE  ~poisoned[j] /\ snap[j].version = f /\ snap'[j] = snap[j]
  <1>1. /\ snap'[j].version \in Nat /\ snap'[j].version >= snap[j].version /\ snap[j].version \in Nat
        /\ poisoned[j] => poisoned'[j]
        /\ snap'[j] = snap[j] \/ snap'[j].version = snap[j].version + 1
    BY LedgerGrows, SnapType DEF BasicInv
  <1> QED BY <1>1

\* A winner that goes on had won, or has just taken the lease.
LEMMA WonBefore ==
    ASSUME TypeOK, NEW r \in Runners, Kept(op[r]), NEW p \in Ops, p = NoOp \/ Path(op[r], p), Won(p),
           GitHubTrackerAssumption
    PROVE  /\ p.issue = op[r].issue /\ p.fence = op[r].fence /\ p.at = op[r].at
           /\ op[r].kind = "claim" /\ Path(op[r], p)
           /\ op[r].fence \in Nat /\ op[r].fence > 0 /\ op[r].fence <= snap[op[r].issue].version
           /\ \/ Won(op[r])
              \/ /\ op[r].pc = "acquire" /\ LeaseFree(op[r].at) /\ lease' = LeaseAfterAcquire(op[r])
                 /\ op[r].next.claim.expires = op[r].at + Ttl
  <1> DEFINE o == op[r]
  <1>1. p # NoOp
    BY NoOpType DEF Won, Caught
  <1>2. Path(o, p) /\ p.kind = "claim" /\ p.pc \in {"elected", "unwind"} \cup Caught
    BY <1>1 DEF Won
  <1>3. p.pc # "beat"
    BY <1>2 DEF Caught
  <1>4. o.kind = "claim" /\ o.pc # "idle" /\ p.issue = o.issue /\ p.fence = o.fence /\ p.at = o.at
    BY <1>2, <1>3 DEF Path
  <1>5. /\ o.fence \in Nat /\ o.fence > 0 /\ o.fence <= snap[o.issue].version
        /\ o.next.claim.expires = o.at + Ttl
    BY <1>4, OpType DEF Kept, Placed
  <1>6. \/ Won(o)
        \/ o.pc = "acquire" /\ LeaseFree(o.at) /\ lease' = LeaseAfterAcquire(o)
    <2>1. CASE o.pc = "acquire"
      <3>1. p.pc = "elected" /\ (p.accepted <=> LeaseFree(o.at)) /\ lease' = LeaseAfterAcquire(o)
        BY <1>2, <2>1 DEF Path, Caught
      <3>2. p.accepted
        BY <3>1 DEF Won, Caught
      <3> QED BY <2>1, <3>1, <3>2
    <2>2. CASE o.pc = "elected"
      BY <1>2, <1>4, <2>2 DEF Path, Won, Caught
    <2>3. CASE o.pc \notin {"acquire", "elected"}
      BY <1>2, <1>4, <2>3 DEF Path, Won, Caught
    <2> QED BY <2>1, <2>2, <2>3
  <1> QED BY <1>2, <1>4, <1>5, <1>6

\* The winner keeps the lease while another method moves.
LEMMA OthersLead ==
    ASSUME GitHubTrackerAssumption, BasicInv, WipInv, ~unwound, NEW r \in Runners, Goes(r),
           NEW q \in Runners, q # r, op'[q] = op[q]
    PROVE  Leads(op[q])'
  <1> DEFINE o == op[r]
             w == op[q]
             j == w.issue
  <1> SUFFICES ASSUME Won(w), Open(op[q])'
               PROVE  lease' # NoLease /\ lease'.issue = j /\ lease'.fence = w.fence /\ lease'.expires = w.at + Ttl
    BY DEF Leads, Won, LeaseIs
  <1>1. /\ LedgerRests \/ Writes(o)
        /\ LeaseMoves(o) /\ o.pc # "idle"
    BY DEF Goes
  <1>2. /\ TypeOK /\ Kept(o) /\ Kept(w) /\ Led(r) /\ Leads(w) /\ j \in Issues /\ w.fence \in Nat /\ w.at \in Nat
        /\ o.fence \in Nat /\ o.issue \in Issues /\ snap[j].version \in Nat /\ now \in Nat /\ Ttl \in Nat
    BY OpType, SnapType, Tables DEF BasicInv, WipInv, Led, TypeOK
  <1>3. w.pc # "idle" /\ w.kind = "claim"
    BY DEF Won, Caught
  <1>4. w.fence > 0 /\ w.fence <= snap[j].version /\ now < w.at + Ttl
    BY <1>2, <1>3 DEF Kept, Placed, Timed
  <1>5. Open(w)
    BY <1>1, <1>2, <1>4, OpenBefore DEF Open
  <1>6. lease # NoLease /\ lease.issue = j /\ lease.fence = w.fence /\ lease.expires = w.at + Ttl
    BY <1>2, <1>5 DEF Leads, LeaseIs
  <1>7. CASE lease' = lease
    BY <1>6, <1>7
  <1>8. CASE o.pc = "acquire" /\ lease' = LeaseAfterAcquire(o)
    <2>1. ~LeaseFree(o.at)
      BY <1>2, <1>4, <1>6, <1>8, LeaseTaken DEF Kept
    <2> QED BY <1>6, <1>8, <2>1 DEF LeaseAfterAcquire
  <1>9. CASE o.pc = "beat" /\ lease' = LeaseAfterBeat(o)
    <2>1. ~LeaseIs(o.issue, o.fence)
      BY <1>2, <1>5, <1>6, <1>9 DEF Kept, Placed, LeaseIs, Open
    <2> QED BY <1>6, <1>9, <2>1 DEF LeaseAfterBeat
  <1>10. CASE o.pc \in {"release", "unwind"} /\ lease' = LeaseAfterRelease(o)
    <2>1. ASSUME LeaseIs(o.issue, o.fence) PROVE FALSE
      <3>1. o.issue = j /\ o.fence = w.fence
        BY <1>6, <2>1 DEF LeaseIs
      <3>2. CASE o.kind = "claim"
        <4>1. Won(o) /\ Open(o)
          BY <1>5, <1>10, <3>1, <3>2 DEF Won, Caught, Open
        <4> QED BY <1>2, <3>1, <4>1 DEF Led, Alone
      <3>3. CASE o.kind # "claim"
        <4>1. Over(o)
          BY <1>2, <1>10, <3>3 DEF Kept, Placed, Over
        <4> QED BY <1>2, <1>5, <3>1, <4>1 DEF Kept, Ended, Open
      <3> QED BY <3>2, <3>3
    <2> QED BY <1>6, <1>10, <2>1 DEF LeaseAfterRelease
  <1> QED BY <1>1, <1>7, <1>8, <1>9, <1>10 DEF LeaseMoves

\* It keeps the lease while it moves itself.
LEMMA MoverLeads ==
    ASSUME GitHubTrackerAssumption, BasicInv, WipInv, ~unwound, NEW r \in Runners,
           LedgerRests \/ Writes(op[r]), LeaseMoves(op[r]),
           NEW p \in Ops, op'[r] = p, p = NoOp \/ Path(op[r], p)
    PROVE  Leads(op[r])'
  <1> DEFINE o == op[r]
             i == o.issue
  <1> SUFFICES ASSUME Won(p), ~poisoned'[p.issue], snap'[p.issue].version = p.fence
               PROVE  lease' # NoLease /\ lease'.issue = p.issue /\ lease'.fence = p.fence
                      /\ lease'.expires = p.at + Ttl
    BY DEF Leads, Won, LeaseIs, Open
  <1>1. /\ TypeOK /\ Kept(o) /\ Leads(o) /\ i \in Issues /\ lease \in Leases
    BY OpType DEF BasicInv, WipInv, Led, TypeOK
  <1>2. /\ p.issue = i /\ p.fence = o.fence /\ p.at = o.at /\ o.kind = "claim" /\ Path(o, p)
        /\ o.fence \in Nat /\ o.fence > 0 /\ o.fence <= snap[i].version
        /\ \/ Won(o)
           \/ /\ o.pc = "acquire" /\ LeaseFree(o.at) /\ lease' = LeaseAfterAcquire(o)
              /\ o.next.claim.expires = o.at + Ttl
    BY <1>1, WonBefore
  <1>3. Open(o)
    BY <1>1, <1>2, OpenBefore DEF Open
  <1>4. CASE Won(o)
    <2>1. o.pc \notin {"beat", "acquire", "release"}
      BY <1>1, <1>2, <1>3, <1>4 DEF Kept, Closed, Won, Caught
    <2>2. o.pc # "unwind"
      BY <1>2 DEF Path, Caught
    <2>3. lease' = lease
      BY <2>1, <2>2 DEF LeaseMoves
    <2> QED BY <1>1, <1>2, <1>3, <1>4, <2>3 DEF Leads, LeaseIs
  <1>5. CASE o.pc = "acquire" /\ LeaseFree(o.at) /\ lease' = LeaseAfterAcquire(o)
             /\ o.next.claim.expires = o.at + Ttl
    <2>1. lease' = [issue |-> i, fence |-> o.fence, expires |-> o.at + Ttl]
      BY <1>5 DEF LeaseAfterAcquire
    <2> QED BY <1>2, <2>1, Tables
  <1> QED BY <1>2, <1>4, <1>5

\* Nobody wins a second time while the first winner's claim may be written.
LEMMA NoSecondWinner ==
    ASSUME GitHubTrackerAssumption, BasicInv, WipInv, ~unwound, NEW r \in Runners, op[r].pc = "acquire",
           NEW q \in Runners, Won(op[q]), Open(op[q])
    PROVE  ~LeaseFree(op[r].at)
  <1>1. /\ TypeOK /\ Kept(op[r]) /\ Kept(op[q]) /\ Leads(op[q])
        /\ op[q].at \in Nat /\ now \in Nat /\ Ttl \in Nat
    BY OpType, Tables DEF BasicInv, WipInv, Led, TypeOK
  <1>2. lease # NoLease /\ lease.expires = op[q].at + Ttl
    BY <1>1 DEF Leads, LeaseIs
  <1>3. now < op[q].at + Ttl
    BY <1>1 DEF Won, Caught, Kept, Timed
  <1> QED BY <1>1, <1>2, <1>3, LeaseTaken DEF Kept

\* The winner stays alone.
LEMMA AloneGoes ==
    ASSUME GitHubTrackerAssumption, BasicInv, WipInv, ~unwound, NEW r \in Runners,
           LedgerRests \/ Writes(op[r]), NEW p \in Ops, op'[r] = p, p = NoOp \/ Path(op[r], p),
           \A q \in Runners : q # r => op'[q] = op[q]
    PROVE  \A q \in Runners : Alone(q)'
  <1> DEFINE o == op[r]
  <1> SUFFICES ASSUME NEW a \in Runners, NEW b \in Runners, a # b,
                      Won(op[a])', Open(op[a])', Won(op[b])',
                      op'[b].issue = op'[a].issue, op'[b].fence = op'[a].fence
               PROVE  FALSE
    BY DEF Alone
  <1>1. TypeOK /\ (\A q \in Runners : Kept(op[q]) /\ Alone(q) /\ op[q].issue \in Issues /\ op[q].fence \in Nat)
    BY OpType DEF BasicInv, WipInv, Led
  <1>2. ASSUME NEW q \in Runners, q # r, Won(op[q])'
        PROVE  Won(op[q]) /\ op[q].fence <= snap[op[q].issue].version
    <2>1. Won(op[q]) /\ Kept(op[q])
      BY <1>1, <1>2 DEF Won
    <2> QED BY <2>1 DEF Won, Caught, Kept, Placed
  <1>3. CASE a # r /\ b # r
    <2>1. Won(op[a]) /\ Won(op[b]) /\ op[b].issue = op[a].issue /\ op[b].fence = op[a].fence
          /\ op[a].fence <= snap[op[a].issue].version
      BY <1>2, <1>3
    <2>2. ~poisoned'[op[a].issue] /\ snap'[op[a].issue].version = op[a].fence
      BY <1>3 DEF Open
    <2>3. Open(op[a])
      BY <1>1, <2>1, <2>2, OpenBefore DEF Open
    <2> QED BY <1>1, <2>1, <2>3 DEF Alone
  <1>4. ASSUME NEW q \in Runners, q # r, Won(op[q]), Won(p), op[q].issue = p.issue, op[q].fence = p.fence,
               ~poisoned'[p.issue], snap'[p.issue].version = p.fence
        PROVE  FALSE
    <2>1. /\ p.issue = o.issue /\ p.fence = o.fence /\ o.fence <= snap[o.issue].version
          /\ \/ Won(o)
             \/ o.pc = "acquire" /\ LeaseFree(o.at)
      BY <1>1, <1>4, WonBefore
    <2>2. ~poisoned[o.issue] /\ snap[o.issue].version = o.fence
      BY <1>1, <1>4, <2>1, OpenBefore
    <2>3. Open(o) /\ Open(op[q])
      BY <1>4, <2>1, <2>2 DEF Open
    <2>4. CASE Won(o)
      BY <1>1, <1>4, <2>1, <2>3, <2>4 DEF Alone
    <2>5. CASE o.pc = "acquire" /\ LeaseFree(o.at)
      BY <1>4, <2>3, <2>5, NoSecondWinner
    <2> QED BY <2>1, <2>4, <2>5
  <1>5. Won(op[r])' => Won(p)
    BY DEF Won
  <1>6. CASE a = r
    <2>1. Won(p) /\ ~poisoned'[p.issue] /\ snap'[p.issue].version = p.fence
      BY <1>5, <1>6 DEF Open
    <2>2. b # r /\ op'[b] = op[b] /\ Won(op[b])
      BY <1>2, <1>6
    <2> QED BY <1>4, <1>6, <2>1, <2>2
  <1>7. CASE b = r
    <2>1. a # r /\ op'[a] = op[a] /\ Won(op[a]) /\ Won(p)
      BY <1>2, <1>5, <1>7
    <2>2. ~poisoned'[p.issue] /\ snap'[p.issue].version = p.fence
      BY <1>7 DEF Open
    <2> QED BY <1>4, <1>7, <2>1, <2>2
  <1> QED BY <1>3, <1>6, <1>7

\* No claim takes a winner's fence but its own.
LEMMA ApartGoes ==
    ASSUME GitHubTrackerAssumption, BasicInv, WipInv, ~unwound, NEW r \in Runners,
           LedgerRests \/ Writes(op[r]), ~unwound', NEW p \in Ops, op'[r] = p, p = NoOp \/ Path(op[r], p),
           \A q \in Runners : q # r => op'[q] = op[q]
    PROVE  \A q \in Runners : Apart(op[q])'
  <1> DEFINE o == op[r]
             i == o.issue
  <1>1. /\ TypeOK /\ (\A q \in Runners : Kept(op[q]) /\ Led(q) /\ op[q].issue \in Issues /\ op[q].fence \in Nat)
    BY OpType DEF BasicInv, WipInv
  <1>2. ASSUME NEW q \in Runners, q # r PROVE Apart(op[q])'
    <2> DEFINE w == op[q]
               j == w.issue
    <2> SUFFICES ASSUME Won(w), ~Stands(w) PROVE snap'[j].claim.fence # w.fence
      BY <1>2 DEF Apart, Won, Stands
    <2>1. snap[j].claim.fence # w.fence
      BY <1>1 DEF Led, Apart
    <2>2. CASE snap'[j] = snap[j]
      BY <2>1, <2>2
    <2>3. CASE j = i /\ Writes(o) /\ snap'[j] = o.next
      <3>1. w.fence > 0
        BY <1>1 DEF Won, Caught, Kept, Placed
      <3>2. ASSUME o.kind = "claim", w.fence = snap[i].version PROVE FALSE
        <4>1. o.pc = "append" /\ ~poisoned[i] /\ snap[i].version + 1 = o.next.version
          BY <2>3 DEF Writes, Accepted, Current
        <4>2. snap[i].version = o.fence
          <5>1. Placed(o) /\ o.fence \in Nat /\ snap[i].version \in Nat
            BY <1>1, SnapType DEF Kept
          <5> QED BY <3>2, <4>1, <5>1 DEF Placed
        <4>3. Won(o) /\ Open(o)
          BY <3>2, <4>1, <4>2 DEF Won, Caught, Open
        <4> QED BY <1>1, <1>2, <2>3, <3>2, <4>2, <4>3 DEF Led, Alone
      <3>3. \/ o.kind = "claim" /\ o.next.claim.fence = snap[i].version
            \/ o.next.claim.fence = snap[i].claim.fence
            \/ o.next.claim.fence = 0
        BY <2>3, WrittenClaim, Tables
      <3> QED BY <2>1, <2>3, <3>1, <3>2, <3>3
    <2> QED BY <1>1, <2>2, <2>3, LedgerGrows
  <1>3. Apart(op[r])'
    <2> SUFFICES ASSUME Won(p), ~Stands(p) PROVE snap'[p.issue].claim.fence # p.fence
      BY DEF Apart, Won, Stands
    <2>1. /\ p.issue = i /\ p.fence = o.fence /\ o.kind = "claim" /\ Path(o, p) /\ o.fence > 0
          /\ \/ Won(o)
             \/ o.pc = "acquire" /\ LeaseFree(o.at)
      BY <1>1, WonBefore
    <2>2. ~Writes(o)
      <3>1. ASSUME Writes(o) PROVE FALSE
        <4>1. o.pc = "append" /\ ~unwound'
          BY <3>1 DEF Writes
        <4>2. p.pc = "confirm" /\ p.accepted
          BY <2>1, <3>1, <4>1 DEF Path, Ending, Caught
        <4> QED BY <4>2 DEF Stands
      <3> QED BY <3>1
    <2>3. snap'[i] = snap[i]
      BY <1>1, <2>2, LedgerGrows
    <2>4. CASE Won(o)
      <3>1. ~Stands(o)
        BY <2>1 DEF Path, Stands, Releasing, Caught
      <3> QED BY <1>1, <2>1, <2>3, <2>4, <3>1 DEF Led, Apart
    <2>5. CASE o.pc = "acquire" /\ LeaseFree(o.at)
      <3>1. ASSUME snap[i].claim.fence = o.fence PROVE FALSE
        <4>1. Claimed(i)
          BY <2>1, <3>1, Tables DEF Claimed
        <4>2. lease # NoLease /\ now < lease.expires
          BY <1>1, <4>1 DEF WipInv, WipOneUnlessUnwound, LeaseIs
        <4> QED BY <1>1, <2>5, <4>2, LeaseTaken DEF Kept
      <3> QED BY <2>1, <2>3, <3>1
    <2> QED BY <2>1, <2>4, <2>5
  <1> QED BY <1>2, <1>3

\* A step of a method keeps the fence's invariant.
LEMMA WipMoves ==
    ASSUME GitHubTrackerAssumption, BasicInv, WipInv, NEW r \in Runners, Goes(r)
    PROVE  WipInv'
  <1>1. PICK p \in Ops : Turns(r, p) /\ (p = NoOp \/ Path(op[r], p))
    BY DEF Goes, Turns
  <1>2. /\ op'[r] = p /\ \A q \in Runners : q # r => op'[q] = op[q]
        /\ LedgerRests \/ Writes(op[r])
        /\ LeaseMoves(op[r]) /\ now' = now /\ (unwound => unwound')
        /\ Renewed /\ \A q \in Runners : Kept(op[q])
    BY <1>1 DEF Goes, Turns, BasicInv, TypeOK, WipInv
  <1>3. ASSUME NEW q \in Runners PROVE Kept(op[q])'
    <2>1. CASE q # r
      BY <1>2, <2>1, OthersKept
    <2>2. CASE q = r /\ Path(op[r], p)
      BY <1>2, <2>2, MoverKept
    <2>3. CASE q = r /\ p = NoOp
      <3>1. op'[q].pc = "idle" /\ op'[q].kind = "claim"
        BY <1>2, <2>3, NoOpType
      <3> QED BY <3>1 DEF Kept, Placed, Ended, Over, Timed, Closed, Ending
    <2> QED BY <1>1, <2>1, <2>2, <2>3
  <1>4. Renewed'
    BY <1>2, RenewedGoes
  <1>5. WipOneUnlessUnwound'
    BY <1>2, WipGoes DEF WipOneUnlessUnwound
  <1>6. ASSUME ~unwound' PROVE \A q \in Runners : Led(q)'
    <2>1. ~unwound
      BY <1>2, <1>6
    <2>2. \A q \in Runners : Leads(op[q])'
      BY <1>1, <1>2, <2>1, OthersLead, MoverLeads
    <2>3. \A q \in Runners : Alone(q)'
      BY <1>1, <1>2, <2>1, AloneGoes
    <2>4. \A q \in Runners : Apart(op[q])'
      BY <1>1, <1>2, <1>6, <2>1, ApartGoes
    <2> QED BY <2>2, <2>3, <2>4 DEF Led
  <1> QED BY <1>3, <1>4, <1>5, <1>6 DEF WipInv

\* A method that begins has won nothing yet.
LEMMA WipBegins ==
    ASSUME GitHubTrackerAssumption, Timely, BasicInv, WipInv, NEW r \in Runners, NEW p \in Ops,
           Quiet, Turns(r, p), Begins(p)
    PROVE  WipInv'
  <1>1. /\ UNCHANGED <<snap, poisoned, lease, unwound, now>>
        /\ op'[r] = p /\ \A q \in Runners : q # r => op'[q] = op[q]
    BY DEF Quiet, ledger, world, Turns, BasicInv, TypeOK
  <1>2. p.issue \in Issues /\ p.fence \in Nat /\ snap[p.issue].version \in Nat \ {0}
    BY SnapType DEF Begins, BasicInv, Ops
  <1>3. /\ p.pc \in {"acquire", "append"} /\ (p.pc = "acquire" <=> p.kind = "claim")
        /\ p.at <= now /\ now < p.at + Ttl
        /\ p.kind = "claim" => /\ p.fence = snap[p.issue].version /\ p.next.version = snap[p.issue].version + 1
                               /\ p.next.claim.expires = p.at + Ttl
    BY DEF Begins, CallTimes
  <1>4. Kept(op[r])'
    <2>1. Placed(op[r])'
      <3>1. Sound(snap[p.issue]) /\ NoClaim.fence = 0
        BY <1>2, Tables DEF BasicInv, LedgerInv
      <3>2. p.kind = "failure" => Ending(p)
        <4> SUFFICES ASSUME p.kind = "failure" PROVE Ending(p)
          OBVIOUS
        <4>1. /\ snap[p.issue].claim # NoClaim /\ p.fence = snap[p.issue].claim.fence
              /\ p.next = Becomes(p.issue, p.next.state, NoClaim, p.next.retry, snap[p.issue].evidence)
          BY DEF Begins, Event, FailureEvent
        <4>2. Becomes(p.issue, p.next.state, NoClaim, p.next.retry, snap[p.issue].evidence).claim = NoClaim
          BY DEF Becomes
        <4> QED BY <3>1, <4>1, <4>2 DEF Ending, Sound
      <3>3. p.kind = "transition" /\ p.fence # 0 => p.fence < snap[p.issue].version
        BY <3>1 DEF Begins, Event, TransitionEvent, Sound
      <3> QED BY <1>1, <1>2, <1>3, <3>2, <3>3 DEF Placed, Ending
    <2>2. Ended(op[r])' /\ Closed(op[r])'
      BY <1>1, <1>3 DEF Ended, Over, Closed
    <2>3. Timed(op[r])'
      BY <1>1, <1>3 DEF Timed
    <2> QED BY <2>1, <2>2, <2>3 DEF Kept
  <1>5. \A q \in Runners : q # r => (Kept(op[q]) => Kept(op[q])')
    <2>1. LedgerRests
      BY <1>1 DEF LedgerRests, BasicInv, TypeOK
    <2> QED BY <1>1, <2>1, OthersKept
  <1>6. ~Won(op[r])'
    BY <1>1, <1>3 DEF Won, Caught
  <1>7. ASSUME ~unwound' PROVE \A q \in Runners : Led(q)'
    <2>1. \A q \in Runners : Led(q)
      BY <1>1, <1>7 DEF WipInv
    <2>2. \A q \in Runners : Leads(op[q])' /\ Apart(op[q])'
      BY <1>1, <1>6, <2>1 DEF Led, Leads, Apart, Won, Open, Stands, LeaseIs
    <2>3. \A q \in Runners : Alone(q)'
      <3> SUFFICES ASSUME NEW a \in Runners, NEW b \in Runners, a # b, Won(op[a])', Open(op[a])',
                          Won(op[b])', op'[b].issue = op'[a].issue, op'[b].fence = op'[a].fence
                   PROVE  FALSE
        BY DEF Alone
      <3>1. a # r /\ b # r
        BY <1>6
      <3>2. Won(op[a]) /\ Won(op[b]) /\ Open(op[a])
        BY <1>1, <3>1 DEF Won, Open
      <3> QED BY <1>1, <2>1, <3>1, <3>2 DEF Led, Alone
    <2> QED BY <2>2, <2>3 DEF Led
  <1>8. Renewed' /\ WipOneUnlessUnwound'
    BY <1>1 DEF WipInv, Renewed, WipOneUnlessUnwound, Claimed, LeaseIs
  <1> QED BY <1>4, <1>5, <1>7, <1>8 DEF WipInv

\* Nothing but time passes.
LEMMA WipWaits ==
    ASSUME GitHubTrackerAssumption, BasicInv, WipInv, UNCHANGED <<snap, poisoned, lease, op, unwound>>,
           now' = now \/ (now' = now + 1 /\ InTime(now + 1))
    PROVE  WipInv'
  <1>1. TypeOK /\ now \in Nat /\ \A r \in Runners : op[r].at \in Nat
    BY OpType DEF BasicInv, TypeOK
  <1>2. Renewed'
    BY DEF WipInv, Renewed, InTime, Claimed
  <1>3. ASSUME NEW r \in Runners PROVE Kept(op[r])'
    <2>1. Timed(op[r])'
      BY <1>1 DEF WipInv, Kept, Timed, InTime
    <2>2. Placed(op[r])' /\ Ended(op[r])' /\ Closed(op[r])'
      BY DEF WipInv, Kept, Placed, Ended, Over, Closed, Open, Ending
    <2> QED BY <2>1, <2>2 DEF Kept
  <1>4. WipOneUnlessUnwound'
    BY DEF WipInv, WipOneUnlessUnwound, InTime, Claimed, LeaseIs
  <1>5. ~unwound' => \A r \in Runners : Led(r)'
    BY DEF WipInv, Led, Leads, Alone, Apart, Won, Open, Stands, LeaseIs
  <1> QED BY <1>2, <1>3, <1>4, <1>5 DEF WipInv

\* Every step keeps it.
LEMMA WipStep ==
    ASSUME GitHubTrackerAssumption, Timely, BasicInv, WipInv, [Next]_vars
    PROVE  WipInv'
  <1>0. TypeOK /\ LedgerInv
    BY DEF BasicInv
  <1>1. ASSUME NEW r \in Runners, Call(r) PROVE WipInv'
    BY <1>0, <1>1, CallBegins, WipBegins
  <1>2. ASSUME NEW r \in Runners, Step(r) \/ Fault(r) PROVE WipInv'
    BY <1>0, <1>2, StepGoes, WipMoves
  <1>3. ASSUME NEW i \in Issues, PullRequest(i) PROVE WipInv'
    BY <1>3, WipWaits DEF PullRequest, ledger
  <1>4. ASSUME Tick PROVE WipInv'
    BY <1>4, WipWaits DEF Tick, ledger
  <1>5. ASSUME UNCHANGED vars PROVE WipInv'
    BY <1>5, WipWaits DEF vars
  <1> QED BY <1>1, <1>2, <1>3, <1>4, <1>5 DEF Next

\* It holds at first.
LEMMA WipInit ==
    ASSUME GitHubTrackerAssumption, Init
    PROVE  WipInv
  <1>1. \A r \in Runners : op[r] = NoOp /\ op[r].pc = "idle" /\ op[r].kind = "claim"
    BY NoOpType DEF Init
  <1>2. \A i \in Issues : ~Claimed(i)
    BY DEF Init, Baseline, Claimed
  <1>3. \A r \in Runners : Kept(op[r])
    BY <1>1 DEF Kept, Placed, Ended, Over, Timed, Closed, Ending
  <1>4. \A r \in Runners : ~Won(op[r])
    BY <1>1 DEF Won, Caught
  <1> QED BY <1>2, <1>3, <1>4 DEF WipInv, Renewed, WipOneUnlessUnwound, Led, Leads, Alone, Apart

\* One claim in the project: while calls and renewals are in time and no tryClaim has thrown
\* past its own accepted claim, whoever has an issue claimed has the one shared fence, so no
\* two issues are claimed, whatever calls fail, replies are lost and processes die.
THEOREM OneClaimInProject ==
    ASSUME GitHubTrackerAssumption, Timely
    PROVE  Spec => []WipOneUnlessUnwound
  <1>1. Init => WipInv
    BY WipInit
  <1>2. BasicInv /\ WipInv /\ [Next]_vars => WipInv'
    BY WipStep
  <1>3. WipInv => WipOneUnlessUnwound
    BY DEF WipInv
  <1> QED BY <1>1, <1>2, <1>3, LedgerInvariant, PTL DEF Spec

=============================================================================
