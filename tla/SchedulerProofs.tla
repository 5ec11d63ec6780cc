--------------------------- MODULE SchedulerProofs ---------------------------
(***************************************************************************)
(* Proofs about FakeTracker and the Scheduler over it, for any issues, any *)
(* attempt limit, any clock and any runners.                               *)
(*                                                                         *)
(* The tracker: every method of the adapter ends in one Write, so a Write  *)
(* whose claim agrees with its target state keeps the inductive invariant, *)
(* and every method writes such a claim.                                   *)
(*                                                                         *)
(* The scheduler: every call of a tick is one that FakeTracker allows any  *)
(* client, so the tracker's invariant holds under it; and what a runner    *)
(* has read of a claim stays true for as long as the claim stands.         *)
(***************************************************************************)
EXTENDS Scheduler, WellFoundedInduction, TLAPS

\* A claim has a fence of its own and counts attempts from one.
ClaimWellFormed ==
    \A i \in Issues : Claimed(i) => snap[i].claim.fence # 0 /\ snap[i].claim.attempt # 0

IInv == TypeOK /\ ClaimMatchesState /\ WipOne /\ ClaimWellFormed

USE FakeTrackerAssumption

\* The held states are states.
LEMMA HeldStatesAreStates == HeldStates \subseteq LifecycleStates
BY DEF HeldStates, LifecycleStates

\* The claim a method writes fits the state it writes.
Agrees(to, claim) ==
    /\ claim # NoClaim <=> to \in HeldStates
    /\ claim # NoClaim => claim.fence # 0 /\ claim.attempt # 0

\* A Write whose claim agrees with its state keeps the invariant.
LEMMA WritePreserves ==
    ASSUME IInv,
           NEW i \in Issues, NEW to \in LifecycleStates, NEW claim \in Claims,
           NEW retry \in Retries, NEW evidence \in SUBSET Evidence,
           Agrees(to, claim),
           claim # NoClaim => \A j \in Issues \ {i} : ~Claimed(j),
           Write(i, to, claim, retry, evidence)
    PROVE  IInv'
<1> DEFINE new == [state |-> to, version |-> snap[i].version + 1, claim |-> claim,
                   retry |-> retry, evidence |-> evidence]
<1>1. snap' = [snap EXCEPT ![i] = new] /\ now' = now
  BY DEF Write
<1>2. new \in Snapshots
  BY DEF IInv, TypeOK, Snapshots
<1>3. TypeOK'
  BY <1>1, <1>2 DEF IInv, TypeOK
<1>4. \A j \in Issues \ {i} : snap'[j] = snap[j]
  BY <1>1 DEF IInv, TypeOK
<1>5. snap'[i].state = to /\ snap'[i].claim = claim
  BY <1>1 DEF IInv, TypeOK
<1> HIDE DEF new
<1>6. ClaimMatchesState'
  BY <1>4, <1>5 DEF IInv, ClaimMatchesState, Claimed, Agrees
<1>7. ClaimWellFormed'
  BY <1>4, <1>5 DEF IInv, ClaimWellFormed, Claimed, Agrees
<1>8. WipOne'
  BY <1>4, <1>5 DEF IInv, WipOne, Claimed
<1>9. QED
  BY <1>3, <1>6, <1>7, <1>8 DEF IInv

\* An issue that is claimed is the only one.
LEMMA HolderIsAlone ==
    ASSUME IInv, NEW i \in Issues, Claimed(i)
    PROVE  \A j \in Issues \ {i} : ~Claimed(j)
BY DEF IInv, WipOne

\* A legal move leads to a state.
LEMMA MoveIsToAState ==
    ASSUME NEW from \in LifecycleStates, NEW to, CanMove(from, to)
    PROVE  to \in LifecycleStates
BY DEF CanMove, NormalTransitions, LifecycleStates, Aborts

\* tryClaim keeps the invariant: nobody else has a claim.
LEMMA TryClaimPreserves ==
    ASSUME IInv, NEW i \in Issues, NEW v \in 1..MaxVersion[i], NEW at \in 0..now,
           NEW attempt \in 1..MaxAttempts, TryClaim(i, v, attempt, at)
    PROVE  IInv'
<1> DEFINE claim == [fence |-> v, attempt |-> attempt, claimedAt |-> at, beat |-> at,
                     expires |-> at + Ttl]
<1>1. Write(i, "claimed", claim, NoRetry, snap[i].evidence)
  BY DEF TryClaim
<1>2. claim \in Claims /\ claim.fence # 0 /\ claim.attempt # 0 /\ claim # NoClaim
  BY DEF IInv, TypeOK, Claims, NoClaim
<1>3. NoRetry \in Retries /\ snap[i].evidence \in SUBSET Evidence
  BY DEF NoRetry, Retries, IInv, TypeOK, Snapshots
<1>4. "claimed" \in LifecycleStates /\ "claimed" \in HeldStates
  BY DEF LifecycleStates, HeldStates
<1>5. \A j \in Issues \ {i} : ~Claimed(j)
  BY DEF TryClaim, Claimable, ActiveClaims
<1> HIDE DEF claim
<1>6. Agrees("claimed", claim)
  BY <1>2, <1>4 DEF Agrees
<1>7. QED
  BY <1>1, <1>2, <1>3, <1>4, <1>5, <1>6, WritePreserves

\* A claim written with other times keeps the invariant.
LEMMA RenewalPreserves ==
    ASSUME IInv, NEW i \in Issues, NEW to \in HeldStates, NEW at \in Nat, NEW until \in Int,
           Claimed(i),
           Write(i, to, [snap[i].claim EXCEPT !.beat = at, !.expires = until],
                 snap[i].retry, snap[i].evidence)
    PROVE  IInv'
<1> DEFINE claim == [snap[i].claim EXCEPT !.beat = at, !.expires = until]
<1>1. snap[i] \in Snapshots /\ snap[i].claim \in Claims
  BY DEF IInv, TypeOK, Snapshots
<1>2. snap[i].claim.fence # 0 /\ snap[i].claim.attempt # 0
  BY DEF IInv, ClaimWellFormed
<1>3. claim \in Claims /\ claim.fence # 0 /\ claim.attempt # 0 /\ claim # NoClaim
  BY <1>1, <1>2 DEF Claims, NoClaim
<1>4. to \in LifecycleStates
  BY HeldStatesAreStates
<1>5. snap[i].retry \in Retries /\ snap[i].evidence \in SUBSET Evidence
  BY <1>1 DEF Snapshots
<1> HIDE DEF claim
<1>6. Agrees(to, claim)
  BY <1>3 DEF Agrees
<1>7. Write(i, to, claim, snap[i].retry, snap[i].evidence)
  BY DEF claim
<1>8. QED
  BY <1>3, <1>4, <1>5, <1>6, <1>7, HolderIsAlone, WritePreserves

\* markRunning is such a renewal,
LEMMA MarkRunningPreserves ==
    ASSUME IInv, NEW i \in Issues, NEW fence, NEW at \in 0..now, MarkRunning(i, fence, at)
    PROVE  IInv'
<1>1. at \in Nat /\ Claimed(i) /\ "running" \in HeldStates
  BY DEF IInv, TypeOK, MarkRunning, Holds, HeldStates
<1>2. snap[i].claim.expires \in Int /\ snap[i].claim.claimedAt \in Nat
  BY DEF IInv, TypeOK, Snapshots, Claims
<1>3. at + (snap[i].claim.expires - snap[i].claim.claimedAt) \in Int
  BY <1>1, <1>2
<1>4. QED
  BY <1>1, <1>3, RenewalPreserves DEF MarkRunning

\* and so is heartbeat.
LEMMA HeartbeatPreserves ==
    ASSUME IInv, NEW i \in Issues, NEW fence, NEW at \in 0..now, Heartbeat(i, fence, at)
    PROVE  IInv'
<1>1. at \in Nat /\ at + Ttl \in Int /\ Claimed(i)
  BY DEF IInv, TypeOK, Heartbeat, Holds
<1>2. snap[i].state \in HeldStates
  BY <1>1 DEF IInv, ClaimMatchesState
<1>3. QED
  BY <1>1, <1>2, RenewalPreserves DEF Heartbeat

\* failClaim ends the claim and leaves the held states.
LEMMA FailClaimPreserves ==
    ASSUME IInv, NEW i \in Issues, NEW fence, NEW class \in FailureClasses, NEW at \in 0..now,
           FailClaim(i, fence, class, at)
    PROVE  IInv'
<1> DEFINE to == AfterFailure(i, class)
           attempt == snap[i].claim.attempt
           retry == IF to = "retry-wait"
                    THEN [attempt |-> attempt + 1, due |-> at + Delay(attempt)]
                    ELSE NoRetry
<1>1. Write(i, to, NoClaim, retry, snap[i].evidence) /\ Claimed(i)
  BY DEF FailClaim, Holds
<1>2. snap[i] \in Snapshots /\ attempt \in 1..MaxAttempts
  BY <1>1 DEF IInv, TypeOK, ClaimWellFormed, Snapshots, Claims
<1>3. to \in {"retry-wait", "failed"}
  BY DEF AfterFailure
<1>4. to = "retry-wait" => attempt + 1 \in 1..MaxAttempts
  BY <1>2 DEF AfterFailure
<1>5. Delay(attempt) \in Nat
  BY <1>2
<1>6. at \in Nat
  BY DEF IInv, TypeOK
<1> HIDE DEF to, attempt
<1>7. retry \in Retries
  <2>1. CASE to = "retry-wait"
    <3>1. attempt + 1 \in 0..MaxAttempts /\ at + Delay(attempt) \in Nat
      BY <2>1, <1>4, <1>5, <1>6
    <3>2. QED
      BY <2>1, <3>1 DEF Retries
  <2>2. CASE to # "retry-wait"
    BY <2>2 DEF Retries, NoRetry
  <2>3. QED
    BY <2>1, <2>2
<1>8. to \in LifecycleStates /\ to \notin HeldStates
  BY <1>3 DEF LifecycleStates, HeldStates
<1>9. NoClaim \in Claims /\ snap[i].evidence \in SUBSET Evidence
  BY <1>2 DEF NoClaim, Claims, Snapshots
<1>10. Agrees(to, NoClaim)
  BY <1>8 DEF Agrees
<1> HIDE DEF retry
<1>11. QED
  BY <1>1, <1>7, <1>8, <1>9, <1>10, WritePreserves

\* transition keeps the claim as long as the state is held.
LEMMA TransitionPreserves ==
    ASSUME IInv, NEW i \in Issues, NEW to \in Targets, NEW fence,
           NEW given \in SUBSET Evidence, Transition(i, to, fence, given)
    PROVE  IInv'
<1> DEFINE claim == IF to \in ReleasingStates THEN NoClaim ELSE snap[i].claim
           evidence == snap[i].evidence \cup given
<1>1. Write(i, to, claim, snap[i].retry, evidence)
  BY DEF Transition
<1>2. snap[i] \in Snapshots /\ snap[i].state \in LifecycleStates
  BY DEF IInv, TypeOK, Snapshots
<1>3. CanMove(snap[i].state, to) /\ to \in LifecycleStates
  BY DEF Transition, Targets
<1>4. NoClaim \in Claims
  BY DEF NoClaim, Claims
<1>5. claim \in Claims /\ snap[i].retry \in Retries /\ evidence \in SUBSET Evidence
  BY <1>2, <1>4 DEF Snapshots
<1>6. snap[i].claim # NoClaim <=> snap[i].state \in HeldStates
  BY DEF IInv, ClaimMatchesState, Claimed
\* A listed move that does not release starts and ends in a held state, or
\* starts and ends outside them.
<1>7. /\ to \in ReleasingStates => to \notin HeldStates
      /\ to \notin ReleasingStates => (snap[i].state \in HeldStates <=> to \in HeldStates)
  BY <1>2, <1>3, SMTT(30) DEF CanMove, NormalTransitions, Aborts, LifecycleStates, ReleasingStates,
     TerminalStates, HeldStates, Targets, Transition
<1>8. claim # NoClaim => snap[i].claim.fence # 0 /\ snap[i].claim.attempt # 0
  BY DEF IInv, ClaimWellFormed, Claimed
<1>9. Agrees(to, claim)
  BY <1>6, <1>7, <1>8 DEF Agrees
<1>10. claim # NoClaim => \A j \in Issues \ {i} : ~Claimed(j)
  BY HolderIsAlone DEF Claimed
<1> HIDE DEF claim, evidence
<1>11. QED
  BY <1>1, <1>3, <1>5, <1>9, <1>10, WritePreserves

\* So does any method of the adapter keep the invariant.
LEMMA OperatePreserves ==
    ASSUME IInv, NEW i \in Issues, NEW known \in 1..MaxVersion[i], NEW at \in 0..now,
           Operate(i, known, at)
    PROVE  IInv'
<1>1. ASSUME NEW attempt \in 1..MaxAttempts, TryClaim(i, known, attempt, at)
      PROVE  IInv'
  BY <1>1, TryClaimPreserves
<1>2. CASE MarkRunning(i, known, at)
  BY <1>2, MarkRunningPreserves
<1>3. CASE Heartbeat(i, known, at)
  BY <1>3, HeartbeatPreserves
<1>4. ASSUME NEW class \in FailureClasses, FailClaim(i, known, class, at)
      PROVE  IInv'
  BY <1>4, FailClaimPreserves
<1>5. ASSUME NEW to \in Targets, NEW given \in {{}, Asked(to)}, Transition(i, to, known, given)
      PROVE  IInv'
  <2>1. given \in SUBSET Evidence
    BY DEF Asked, Evidence
  <2>2. QED
    BY <1>5, <2>1, TransitionPreserves
<1>6. QED
  BY <1>1, <1>2, <1>3, <1>4, <1>5 DEF Operate

\* At first nothing is claimed.
LEMMA InitEstablishes == Init => IInv
<1> SUFFICES ASSUME Init PROVE IInv
  OBVIOUS
<1>1. Seeded \in Snapshots
  BY DEF Seeded, Snapshots, LifecycleStates, Claims, NoClaim, Retries, NoRetry
<1>2. TypeOK
  BY <1>1 DEF Init, TypeOK
<1>3. \A i \in Issues : snap[i].claim = NoClaim /\ snap[i].state = "ready"
  BY DEF Init, Seeded
<1>4. QED
  BY <1>2, <1>3 DEF IInv, ClaimMatchesState, HeldStates, WipOne, ClaimWellFormed, Claimed

\* Every step keeps the invariant.
LEMMA NextPreserves == IInv /\ [Next]_vars => IInv'
<1> SUFFICES ASSUME IInv, [Next]_vars PROVE IInv'
  OBVIOUS
<1>1. ASSUME NEW i \in Issues, NEW known \in 1..MaxVersion[i], NEW at \in 0..now,
             Operate(i, known, at)
      PROVE  IInv'
  BY <1>1, OperatePreserves
<1>2. CASE Tick
  BY <1>2 DEF IInv, TypeOK, ClaimMatchesState, WipOne, ClaimWellFormed, Claimed, Tick
<1>3. CASE UNCHANGED vars
  BY <1>3 DEF IInv, TypeOK, ClaimMatchesState, WipOne, ClaimWellFormed, Claimed, vars
<1>4. QED
  BY <1>1, <1>2, <1>3 DEF Next

\* The inductive invariant holds throughout.
THEOREM Invariance == Spec => []IInv
BY InitEstablishes, NextPreserves, PTL DEF Spec

\* Snapshots keep their shape and no attempt exceeds maxAttempts (failClaim's
\* arithmetic), for every limit and clock.
THEOREM TypeCorrect == Spec => []TypeOK
BY Invariance, PTL DEF IInv

\* Every exit from a run releases its claim and no entry forgets it: claims and
\* lifecycle states always agree.
THEOREM ClaimAlwaysMatchesState == Spec => []ClaimMatchesState
BY Invariance, PTL DEF IInv

\* The project never has two claimed issues, however many issues it has.
THEOREM WipAlwaysOne == Spec => []WipOne
BY Invariance, PTL DEF IInv

-----------------------------------------------------------------------------
(* The refinement.  A Write is an Accept of the boundary, and the guards of  *)
(* each method imply those of the boundary action it maps to.                *)

\* A function changed at one point, written both ways.
LEMMA PointwiseUpdate ==
    ASSUME NEW S, NEW f, NEW g, NEW i \in S, NEW v,
           f = [j \in S |-> f[j]], g = [j \in S |-> g[j]],
           g[i] = v, \A j \in S \ {i} : g[j] = f[j]
    PROVE  g = [f EXCEPT ![i] = v]
<1>1. [f EXCEPT ![i] = v] = [j \in S |-> IF j = i THEN v ELSE f[j]]
  OBVIOUS
<1>2. g = [j \in S |-> IF j = i THEN v ELSE f[j]]
  OBVIOUS
<1>3. QED
  BY <1>1, <1>2

\* A Write is a write the boundary accepts, with the claim's fence as its holder.
LEMMA WriteIsAccept ==
    ASSUME IInv, NEW i \in Issues, NEW to, NEW claim, NEW retry, NEW evidence,
           Write(i, to, claim, retry, evidence)
    PROVE  Boundary!Accept(i, to, claim.fence)
<1>1. snap' = [snap EXCEPT ![i] =
                 [state |-> to, version |-> snap[i].version + 1, claim |-> claim,
                  retry |-> retry, evidence |-> evidence]]
  BY DEF Write
<1>2. snap \in [Issues -> Snapshots]
  BY DEF IInv, TypeOK
<1>3. \A j \in Issues :
         snap'[j] = IF j = i THEN [state |-> to, version |-> snap[i].version + 1, claim |-> claim,
                                   retry |-> retry, evidence |-> evidence]
                    ELSE snap[j]
  BY <1>1, <1>2
<1> DEFINE state == [j \in Issues |-> snap[j].state]
           version == [j \in Issues |-> snap[j].version]
           holder == [j \in Issues |-> snap[j].claim.fence]
           newState == [j \in Issues |-> snap'[j].state]
           newVersion == [j \in Issues |-> snap'[j].version]
           newHolder == [j \in Issues |-> snap'[j].claim.fence]
<1>4. newState = [state EXCEPT ![i] = to]
  <2>1. newState[i] = to /\ \A j \in Issues \ {i} : newState[j] = state[j]
    BY <1>3
  <2>2. state = [j \in Issues |-> state[j]] /\ newState = [j \in Issues |-> newState[j]]
    OBVIOUS
  <2> HIDE DEF state, newState
  <2>3. QED
    BY <2>1, <2>2, PointwiseUpdate
<1>5. newVersion = [version EXCEPT ![i] = @ + 1]
  <2>1. newVersion[i] = version[i] + 1 /\ \A j \in Issues \ {i} : newVersion[j] = version[j]
    BY <1>3
  <2>2. version = [j \in Issues |-> version[j]] /\ newVersion = [j \in Issues |-> newVersion[j]]
    OBVIOUS
  <2> HIDE DEF version, newVersion
  <2>3. QED
    BY <2>1, <2>2, PointwiseUpdate
<1>6. newHolder = [holder EXCEPT ![i] = claim.fence]
  <2>1. newHolder[i] = claim.fence /\ \A j \in Issues \ {i} : newHolder[j] = holder[j]
    BY <1>3
  <2>2. holder = [j \in Issues |-> holder[j]] /\ newHolder = [j \in Issues |-> newHolder[j]]
    OBVIOUS
  <2> HIDE DEF holder, newHolder
  <2>3. QED
    BY <2>1, <2>2, PointwiseUpdate
<1>7. QED
  BY <1>4, <1>5, <1>6 DEF Boundary!Accept

\* The boundary speaks of the same lifecycle.
LEMMA SameLifecycle ==
    /\ Boundary!LifecycleStates = LifecycleStates
    /\ Boundary!ReleasingStates = ReleasingStates
    /\ \A from, to : Boundary!CanMove(from, to) <=> CanMove(from, to)
<1>1. Boundary!LifecycleStates = LifecycleStates
  BY DEF Boundary!LifecycleStates, LifecycleStates
<1>2. Boundary!ReleasingStates = ReleasingStates
  BY DEF Boundary!ReleasingStates, ReleasingStates, Boundary!TerminalStates, TerminalStates
<1>3. Boundary!NormalTransitions = NormalTransitions
  BY <1>1, Zenon DEF Boundary!NormalTransitions, NormalTransitions, Boundary!Aborts, Aborts
<1>4. QED
  BY <1>1, <1>2, <1>3 DEF Boundary!CanMove, CanMove

\* A fence other than zero is a claim's.
LEMMA HolderIsFence ==
    ASSUME IInv, NEW i \in Issues
    PROVE  snap[i].claim.fence # 0 <=> Claimed(i)
BY DEF IInv, ClaimWellFormed, Claimed, NoClaim

\* Every method maps to one step of the boundary.
LEMMA OperateMaps ==
    ASSUME IInv, NEW i \in Issues, NEW known \in 1..MaxVersion[i], NEW at \in 0..now,
           Operate(i, known, at)
    PROVE  Boundary!Next
<1> USE HolderIsFence, SameLifecycle
<1> DEFINE state == [j \in Issues |-> snap[j].state]
           holder == [j \in Issues |-> snap[j].claim.fence]
<1>0. state[i] = snap[i].state /\ snap[i].state \in LifecycleStates
      /\ snap[i].claim \in Claims
  BY DEF IInv, TypeOK, Snapshots
<1>1. ASSUME NEW attempt \in 1..MaxAttempts, TryClaim(i, known, attempt, at)
      PROVE  Boundary!Claim(i)
  <2>1. \A j \in Issues : snap[j].claim.fence = 0
    BY <1>1 DEF TryClaim, Claimable, ActiveClaims, Claimed, NoClaim
  <2>2. Boundary!Accept(i, "claimed", known)
    BY <1>1, WriteIsAccept DEF TryClaim
  <2>3. known = snap[i].version /\ snap[i].state \in {"ready", "retry-wait"}
    BY <1>1 DEF TryClaim, Claimable
  <2>4. QED
    BY <2>1, <2>2, <2>3 DEF Boundary!Claim, Boundary!Accept
<1>2. ASSUME NEW beat, NEW until, NEW to \in HeldStates, Claimed(i),
             to = snap[i].state \/ CanMove(snap[i].state, to),
             Write(i, to, [snap[i].claim EXCEPT !.beat = beat, !.expires = until],
                   snap[i].retry, snap[i].evidence)
      PROVE  Boundary!Hold(i, to) /\ to \in LifecycleStates
  <2> DEFINE claim == [snap[i].claim EXCEPT !.beat = beat, !.expires = until]
  <2>1. claim.fence = snap[i].claim.fence
    BY <1>0 DEF Claims
  <2>2. PICK c, r, e : Write(i, to, c, r, e) /\ c = claim
    BY <1>2
  <2> HIDE DEF claim
  <2>3. Boundary!Accept(i, to, c.fence)
    BY <2>2, WriteIsAccept
  <2>4. Boundary!Accept(i, to, snap[i].claim.fence)
    BY <2>1, <2>2, <2>3 DEF Boundary!Accept
  <2>5. to \notin ReleasingStates \cup {"retry-wait"} /\ to \in LifecycleStates
    BY DEF HeldStates, ReleasingStates, TerminalStates, LifecycleStates
  <2>6. QED
    BY <1>2, <2>4, <2>5, HolderIsFence DEF Boundary!Hold, Boundary!Accept
<1>3. CASE MarkRunning(i, known, at)
  <2>1. "running" \in HeldStates /\ Claimed(i) /\ CanMove(snap[i].state, "running")
    BY <1>3 DEF HeldStates, MarkRunning, Holds
  <2>2. Boundary!Hold(i, "running") /\ "running" \in LifecycleStates
    BY <1>2, <1>3, <2>1 DEF MarkRunning
  <2>3. QED
    BY <2>2 DEF Boundary!Next
<1>4. CASE Heartbeat(i, known, at)
  <2>1. Claimed(i) /\ snap[i].state \in HeldStates
    BY <1>4 DEF Heartbeat, Holds, IInv, ClaimMatchesState
  <2>2. Boundary!Hold(i, snap[i].state)
    BY <1>2, <1>4, <2>1 DEF Heartbeat
  <2>3. QED
    BY <1>0, <2>2 DEF Boundary!Next
<1>5. ASSUME NEW class \in FailureClasses, FailClaim(i, known, class, at)
      PROVE  Boundary!Next
  <2> DEFINE to == AfterFailure(i, class)
  <2>1. Claimed(i) /\ CanMove(snap[i].state, to)
    BY <1>5 DEF FailClaim, Holds
  <2>2. to \in ReleasingStates \cup {"retry-wait"} /\ to \in LifecycleStates
    BY DEF AfterFailure, ReleasingStates, TerminalStates, LifecycleStates
  <2>3. Boundary!Accept(i, to, NoClaim.fence)
    BY <1>5, WriteIsAccept DEF FailClaim
  <2>4. NoClaim.fence = 0
    BY DEF NoClaim
  <2> HIDE DEF to
  <2>5. Boundary!Free(i, to)
    BY <2>1, <2>2, <2>3, <2>4 DEF Boundary!Free
  <2>6. QED
    BY <2>2, <2>5 DEF Boundary!Next
<1>6. ASSUME NEW to \in Targets, NEW given \in {{}, Asked(to)}, Transition(i, to, known, given)
      PROVE  Boundary!Next
  <2> DEFINE claim == IF to \in ReleasingStates THEN NoClaim ELSE snap[i].claim
  <2>1. CanMove(snap[i].state, to) /\ to \in LifecycleStates /\ to # "claimed"
        /\ to # "retry-wait"
    BY <1>6 DEF Transition, Targets
  <2>2. PICK c, r, e : Write(i, to, c, r, e) /\ c = claim
    BY <1>6 DEF Transition
  <2>3. c.fence = IF to \in ReleasingStates THEN 0 ELSE snap[i].claim.fence
    BY <2>2 DEF NoClaim
  <2> HIDE DEF claim
  <2>4. Boundary!Accept(i, to, c.fence)
    BY <2>2, WriteIsAccept
  <2>5. CASE ~Claimed(i)
    <3>1. c.fence = 0 /\ snap[i].claim.fence = 0
      BY <2>5, <2>3 DEF Claimed, NoClaim
    <3>2. Boundary!Unclaimed(i, to)
      BY <2>1, <2>4, <3>1 DEF Boundary!Unclaimed, Boundary!Accept
    <3>3. QED
      BY <2>1, <3>2 DEF Boundary!Next
  <2>6. CASE Claimed(i) /\ to \in ReleasingStates
    <3>1. Boundary!Free(i, to)
      BY <2>1, <2>4, <2>3, <2>6, HolderIsFence DEF Boundary!Free, Boundary!Accept
    <3>2. QED
      BY <2>1, <3>1 DEF Boundary!Next
  <2>7. CASE Claimed(i) /\ to \notin ReleasingStates
    <3>1. Boundary!Hold(i, to)
      BY <2>1, <2>3, <2>4, <2>7, HolderIsFence DEF Boundary!Hold, Boundary!Accept
    <3>2. QED
      BY <2>1, <3>1 DEF Boundary!Next
  <2>8. QED
    BY <2>5, <2>6, <2>7
<1>7. QED
  BY <1>1, <1>3, <1>4, <1>5, <1>6 DEF Operate, Boundary!Next

\* Every step maps to a step of the boundary or to a stutter.
LEMMA StepMaps == IInv /\ [Next]_vars => [Boundary!Next]_Boundary!vars
<1> SUFFICES ASSUME IInv, [Next]_vars PROVE [Boundary!Next]_Boundary!vars
  OBVIOUS
<1>1. ASSUME NEW i \in Issues, NEW known \in 1..MaxVersion[i], NEW at \in 0..now,
             Operate(i, known, at)
      PROVE  Boundary!Next
  BY <1>1, OperateMaps
<1>2. snap' = snap => UNCHANGED Boundary!vars
  BY DEF Boundary!vars
<1>3. CASE Tick
  BY <1>2, <1>3 DEF Tick
<1>4. CASE UNCHANGED vars
  BY <1>2, <1>4 DEF vars
<1>5. QED
  BY <1>1, <1>3, <1>4 DEF Next

\* The initial states map to initial states.
LEMMA InitMaps == Init => Boundary!Init
BY DEF Init, Seeded, NoClaim, Boundary!Init

\* FakeGitHubAdapter implements the tracker boundary: each of its writes is one
\* step that the boundary allows, and everything else leaves the boundary alone.
THEOREM Refinement == Spec => ImplementsBoundary
<1>1. Boundary!Spec <=> Boundary!Init /\ [][Boundary!Next]_Boundary!vars
  BY DEF Boundary!Spec
<1>2. QED
  BY <1>1, Invariance, InitMaps, StepMaps, PTL DEF Spec, ImplementsBoundary

-----------------------------------------------------------------------------
(* The scheduler on the tracker.  What its calls do to snapshots is said     *)
(* once; and each of them is a call that FakeTracker allows any client.      *)

\* A claim's fence is a version the issue has had, and a retry counts from one.
Counted ==
    \A i \in Issues :
        /\ Claimed(i) => snap[i].claim.fence \in 1..(snap[i].version - 1)
        /\ snap[i].retry # NoRetry => snap[i].retry.attempt # 0

\* One write on an issue.
Wrote(i) ==
    /\ now' = now
    /\ \A j \in Issues : j # i => snap'[j] = snap[j]
    /\ snap'[i].version = snap[i].version + 1

\* The write leaves it without a claim,
Unheld(i) == Wrote(i) /\ snap'[i].claim = NoClaim

\* keeps the claim, perhaps renewed,
Keeps(i) ==
    /\ Wrote(i)
    /\ Claimed(i) /\ snap'[i].claim # NoClaim
    /\ snap'[i].claim.fence = snap[i].claim.fence
    /\ snap'[i].claim.attempt = snap[i].claim.attempt
    /\ snap'[i].claim.claimedAt = snap[i].claim.claimedAt

\* or makes one.
Grants(i) ==
    /\ Wrote(i)
    /\ ActiveClaims = {} /\ snap'[i].claim # NoClaim
    /\ snap'[i].state = "claimed"
    /\ snap'[i].claim.fence = snap[i].version
    /\ snap'[i].claim.attempt = NextAttempt(snap[i])
    /\ snap'[i].claim.claimedAt = now

\* The fields of a snapshot.
LEMMA SnapshotType ==
    ASSUME TypeOK, NEW i \in Issues
    PROVE  /\ snap[i].state \in LifecycleStates /\ snap[i].version \in Nat \ {0}
           /\ snap[i].claim \in Claims /\ snap[i].retry \in Retries
           /\ snap[i].evidence \in SUBSET Evidence
           /\ snap[i].claim.fence \in Nat /\ snap[i].claim.attempt \in 0..MaxAttempts
           /\ snap[i].claim.claimedAt \in Nat /\ snap[i].claim.beat \in Nat
           /\ snap[i].claim.expires \in Int
           /\ snap[i].retry.attempt \in 0..MaxAttempts /\ snap[i].retry.due \in Nat
  <1>1. snap[i] \in Snapshots
    BY DEF TypeOK
  <1> QED BY <1>1 DEF Snapshots, Claims, Retries

\* What a Write does.
LEMMA Written ==
    ASSUME TypeOK, NEW i \in Issues, NEW to, NEW claim, NEW retry, NEW evidence,
           Write(i, to, claim, retry, evidence)
    PROVE  /\ Wrote(i) /\ snap[i].version < MaxVersion[i]
           /\ snap'[i].state = to /\ snap'[i].claim = claim
           /\ snap'[i].retry = retry /\ snap'[i].evidence = evidence
  <1> DEFINE new == [state |-> to, version |-> snap[i].version + 1, claim |-> claim,
                     retry |-> retry, evidence |-> evidence]
  <1>1. snap' = [snap EXCEPT ![i] = new] /\ now' = now /\ snap[i].version < MaxVersion[i]
    BY DEF Write
  <1>2. snap'[i] = new /\ \A j \in Issues : j # i => snap'[j] = snap[j]
    BY <1>1 DEF TypeOK
  <1> QED BY <1>1, <1>2 DEF Wrote

\* Whatever is written, with these claims and retries the counts stay right.
LEMMA CountedStays ==
    ASSUME TypeOK, Counted, NEW i \in Issues, Wrote(i),
           Unheld(i) \/ Keeps(i) \/ Grants(i),
           snap'[i].retry # NoRetry => snap'[i].retry.attempt # 0
    PROVE  Counted'
  <1> SUFFICES ASSUME NEW j \in Issues
               PROVE  /\ Claimed(j)' => snap'[j].claim.fence \in 1..(snap'[j].version - 1)
                      /\ snap'[j].retry # NoRetry => snap'[j].retry.attempt # 0
    BY DEF Counted
  <1>1. CASE j # i
    BY <1>1 DEF Wrote, Counted, Claimed
  <1>2. CASE j = i
    <2>1. snap[i].version \in Nat \ {0} /\ snap'[i].version = snap[i].version + 1
      BY SnapshotType DEF Wrote
    <2>2. Claimed(i)' <=> snap'[i].claim # NoClaim
      BY DEF Claimed
    <2>3. Claimed(i)' => snap'[i].claim.fence \in 1..snap[i].version
      BY <2>1, <2>2 DEF Unheld, Keeps, Grants, Counted
    <2> QED BY <1>2, <2>1, <2>3
  <1> QED BY <1>1, <1>2

\* Any call is one of FakeTracker's clients'.
LEMMA Allowed ==
    ASSUME IInv, NEW i \in Issues, NEW known \in Int, NEW at \in 0..now,
           1 <= known, known <= snap[i].version, snap[i].version < MaxVersion[i],
           Operate(i, known, at)
    PROVE  Next /\ IInv'
  <1>1. snap[i].version \in Nat /\ MaxVersion[i] \in Nat
    BY SnapshotType DEF IInv
  <1>2. known \in 1..MaxVersion[i]
    BY <1>1
  <1> QED BY <1>2, OperatePreserves DEF Next

\* The fence of a claim is such a version.
LEMMA FenceKnown ==
    ASSUME IInv, Counted, NEW i \in Issues, NEW fence, Holds(i, fence)
    PROVE  fence \in Int /\ 1 <= fence /\ fence <= snap[i].version
  BY SnapshotType DEF Holds, Counted, IInv

\* failClaim ends the claim, and leaves the next attempt to be made, or none.
LEMMA FailCall ==
    ASSUME IInv, Counted, NEW i \in Issues, NEW fence, NEW class \in FailureClasses,
           NEW at \in 0..now, FailClaim(i, fence, class, at)
    PROVE  /\ Next /\ IInv' /\ Counted' /\ Unheld(i) /\ Claimed(i)
           /\ snap'[i].state = AfterFailure(i, class)
           /\ snap'[i].state = "retry-wait" => snap'[i].retry.attempt = snap[i].claim.attempt + 1
  <1> DEFINE to == AfterFailure(i, class)
             attempt == snap[i].claim.attempt
             retry == IF to = "retry-wait"
                      THEN [attempt |-> attempt + 1, due |-> at + Delay(attempt)]
                      ELSE NoRetry
  <1>1. Write(i, to, NoClaim, retry, snap[i].evidence) /\ Holds(i, fence)
    BY DEF FailClaim
  <1>2. /\ Wrote(i) /\ snap[i].version < MaxVersion[i] /\ snap'[i].state = to
        /\ snap'[i].claim = NoClaim /\ snap'[i].retry = retry
    <2> HIDE DEF retry, to
    <2> QED BY <1>1, Written DEF IInv
  <1>3. fence \in Int /\ 1 <= fence /\ fence <= snap[i].version
    BY <1>1, FenceKnown
  <1>4. Next /\ IInv'
    <2>1. Operate(i, fence, at)
      BY DEF Operate
    <2> QED BY <1>2, <1>3, <2>1, Allowed
  <1>5. Unheld(i) /\ Claimed(i)
    BY <1>1, <1>2 DEF Unheld, Holds
  <1>6. attempt \in Nat
    BY SnapshotType DEF IInv
  <1>7. retry # NoRetry => retry.attempt = attempt + 1
    BY DEF NoRetry
  <1>8. Counted'
    BY <1>2, <1>5, <1>6, <1>7, CountedStays DEF IInv
  <1>9. to = "retry-wait" => retry.attempt = attempt + 1
    OBVIOUS
  <1> HIDE DEF retry, to
  <1> QED BY <1>2, <1>4, <1>5, <1>8, <1>9 DEF to

\* heartbeat renews the claim.
LEMMA HeartbeatCall ==
    ASSUME IInv, Counted, NEW i \in Issues, NEW fence, NEW at \in 0..now, Heartbeat(i, fence, at)
    PROVE  /\ Next /\ IInv' /\ Counted' /\ Keeps(i) /\ snap'[i].state = snap[i].state
           /\ snap'[i].claim.beat = at
  <1> DEFINE claim == [snap[i].claim EXCEPT !.beat = at, !.expires = at + Ttl]
  <1>1. Write(i, snap[i].state, claim, snap[i].retry, snap[i].evidence) /\ Holds(i, fence)
    BY DEF Heartbeat
  <1>2. /\ claim.fence = snap[i].claim.fence /\ claim.attempt = snap[i].claim.attempt
        /\ claim.claimedAt = snap[i].claim.claimedAt /\ claim.beat = at
    BY SnapshotType DEF IInv, Claims
  <1>3. claim # NoClaim
    BY <1>1, <1>2 DEF NoClaim, Holds, IInv, ClaimWellFormed
  <1> HIDE DEF claim
  <1>4. /\ Wrote(i) /\ snap[i].version < MaxVersion[i] /\ snap'[i].state = snap[i].state
        /\ snap'[i].claim = claim /\ snap'[i].retry = snap[i].retry
    BY <1>1, Written DEF IInv
  <1>5. fence \in Int /\ 1 <= fence /\ fence <= snap[i].version
    BY <1>1, FenceKnown
  <1>6. Next /\ IInv'
    <2>1. Operate(i, fence, at)
      BY DEF Operate
    <2> QED BY <1>4, <1>5, <2>1, Allowed
  <1>7. Keeps(i)
    BY <1>1, <1>2, <1>3, <1>4 DEF Keeps, Holds
  <1>8. Counted'
    BY <1>4, <1>7, CountedStays DEF IInv, Counted
  <1> QED BY <1>2, <1>4, <1>6, <1>7, <1>8

\* markRunning too, and the issue runs.
LEMMA MarkCall ==
    ASSUME IInv, Counted, NEW i \in Issues, NEW fence, NEW at \in 0..now, MarkRunning(i, fence, at)
    PROVE  /\ Next /\ IInv' /\ Counted' /\ Keeps(i) /\ snap'[i].state = "running"
           /\ snap'[i].claim.beat = at
  <1> DEFINE claim == [snap[i].claim EXCEPT
                          !.beat = at,
                          !.expires = at + (snap[i].claim.expires - snap[i].claim.claimedAt)]
  <1>1. Write(i, "running", claim, snap[i].retry, snap[i].evidence) /\ Holds(i, fence)
    BY DEF MarkRunning
  <1>2. /\ claim.fence = snap[i].claim.fence /\ claim.attempt = snap[i].claim.attempt
        /\ claim.claimedAt = snap[i].claim.claimedAt /\ claim.beat = at
    BY SnapshotType DEF IInv, Claims
  <1>3. claim # NoClaim
    BY <1>1, <1>2 DEF NoClaim, Holds, IInv, ClaimWellFormed
  <1> HIDE DEF claim
  <1>4. /\ Wrote(i) /\ snap[i].version < MaxVersion[i] /\ snap'[i].state = "running"
        /\ snap'[i].claim = claim /\ snap'[i].retry = snap[i].retry
    BY <1>1, Written DEF IInv
  <1>5. fence \in Int /\ 1 <= fence /\ fence <= snap[i].version
    BY <1>1, FenceKnown
  <1>6. Next /\ IInv'
    <2>1. Operate(i, fence, at)
      BY DEF Operate
    <2> QED BY <1>4, <1>5, <2>1, Allowed
  <1>7. Keeps(i)
    BY <1>1, <1>2, <1>3, <1>4 DEF Keeps, Holds
  <1>8. Counted'
    BY <1>4, <1>7, CountedStays DEF IInv, Counted
  <1> QED BY <1>2, <1>4, <1>6, <1>7, <1>8

\* tryClaim makes the claim of the attempt that is due.
LEMMA ClaimCall ==
    ASSUME IInv, Counted, NEW i \in Issues, NEW v, NEW attempt, TryClaim(i, v, attempt, now)
    PROVE  /\ Next /\ IInv' /\ Counted' /\ Grants(i) /\ attempt \in 1..MaxAttempts
           /\ snap[i].state \in {"ready", "retry-wait"}
           /\ snap'[i].claim.beat = now
  <1> DEFINE claim == [fence |-> v, attempt |-> attempt, claimedAt |-> now, beat |-> now,
                       expires |-> now + Ttl]
  <1>1. Claimable(i, v, attempt, now) /\ Write(i, "claimed", claim, NoRetry, snap[i].evidence)
    BY DEF TryClaim
  <1>2. /\ v = snap[i].version /\ ActiveClaims = {} /\ attempt = NextAttempt(snap[i])
        /\ snap[i].state \in {"ready", "retry-wait"}
    BY <1>1 DEF Claimable
  <1>3. attempt \in 1..MaxAttempts /\ v \in Nat \ {0}
    BY <1>2, SnapshotType DEF NextAttempt, Counted, IInv
  <1>4. /\ claim.fence = v /\ claim.attempt = attempt /\ claim.claimedAt = now /\ claim.beat = now
        /\ claim # NoClaim
    BY <1>3 DEF NoClaim
  <1> HIDE DEF claim
  <1>5. /\ Wrote(i) /\ snap[i].version < MaxVersion[i] /\ snap'[i].state = "claimed"
        /\ snap'[i].claim = claim /\ snap'[i].retry = NoRetry
    BY <1>1, Written DEF IInv
  <1>6. now \in 0..now
    BY DEF IInv, TypeOK
  <1>7. Next /\ IInv'
    <2>1. Operate(i, v, now)
      BY <1>3 DEF Operate
    <2> QED BY <1>2, <1>3, <1>5, <1>6, <2>1, Allowed
  <1>8. Grants(i)
    BY <1>2, <1>4, <1>5 DEF Grants
  <1>9. Counted'
    BY <1>5, <1>8, CountedStays DEF IInv
  <1> QED BY <1>2, <1>3, <1>4, <1>5, <1>7, <1>8, <1>9

\* What a transition may lead to, and what becomes of the claim.
LEMMA TransitionCall ==
    ASSUME IInv, Counted, NEW i \in Issues, NEW to \in Targets, NEW fence, NEW given \in {{}, Asked(to)},
           Transition(i, to, fence, given)
    PROVE  /\ Next /\ IInv' /\ Counted' /\ CanMove(snap[i].state, to) /\ snap'[i].state = to
           /\ snap'[i].retry = snap[i].retry
           /\ to \in ReleasingStates \/ ~Claimed(i) => Unheld(i)
           /\ to \notin ReleasingStates /\ Claimed(i) =>
                Keeps(i) /\ snap'[i].claim.beat = snap[i].claim.beat
  <1> DEFINE claim == IF to \in ReleasingStates THEN NoClaim ELSE snap[i].claim
             evidence == snap[i].evidence \cup given
  <1>1. Write(i, to, claim, snap[i].retry, evidence) /\ (Claimed(i) => snap[i].claim.fence = fence)
        /\ CanMove(snap[i].state, to)
    BY DEF Transition
  <1>2. claim \in {NoClaim, snap[i].claim} /\ (claim # NoClaim => to \notin ReleasingStates)
        /\ (to \notin ReleasingStates => claim = snap[i].claim)
    OBVIOUS
  <1> HIDE DEF claim, evidence
  <1>3. /\ Wrote(i) /\ snap[i].version < MaxVersion[i] /\ snap'[i].state = to
        /\ snap'[i].claim = claim /\ snap'[i].retry = snap[i].retry
    BY <1>1, Written DEF IInv
  <1>4. Next /\ IInv'
    <2>1. 0 \in 0..now
      BY DEF IInv, TypeOK
    <2>2. CASE Claimed(i)
      <3>1. Holds(i, fence)
        BY <1>1, <2>2 DEF Holds
      <3>2. fence \in Int /\ 1 <= fence /\ fence <= snap[i].version
        BY <3>1, FenceKnown
      <3>3. Operate(i, fence, 0)
        BY DEF Operate
      <3> QED BY <1>3, <2>1, <3>2, <3>3, Allowed
    <2>3. CASE ~Claimed(i)
      <3>1. Transition(i, to, 1, given)
        BY <2>3 DEF Transition
      <3>2. Operate(i, 1, 0)
        BY <3>1 DEF Operate
      <3>3. 1 <= snap[i].version
        BY SnapshotType DEF IInv
      <3> QED BY <1>3, <2>1, <3>2, <3>3, Allowed
    <2> QED BY <2>2, <2>3
  <1>5. to \in ReleasingStates \/ ~Claimed(i) => Unheld(i)
    BY <1>2, <1>3 DEF Unheld, Claimed
  <1>6. to \notin ReleasingStates /\ Claimed(i) => Keeps(i) /\ snap'[i].claim.beat = snap[i].claim.beat
    BY <1>2, <1>3 DEF Keeps, Claimed
  <1>7. Counted'
    BY <1>3, <1>5, <1>6, CountedStays DEF IInv, Counted
  <1> QED BY <1>1, <1>3, <1>4, <1>5, <1>6, <1>7

-----------------------------------------------------------------------------
(* What a runner knows                                                       *)

\* Where a tick has an issue in hand.
InHand == Pcs \ {"idle", "dispatch", "claim"}

\* The issue still has the claim in hand.
Has(q) == Holds(q.issue, q.seen.claim.fence)

\* A runner has read a claim that was there; as long as it stands, it is of the attempt and
\* the workspace root it was read with; and where the runner has been, something is.
Knows(q, home) ==
    q.pc \in InHand =>
        /\ q.seen.claim.fence \in 1..(snap[q.issue].version - 1)
        /\ q.seen.claim.attempt \in Attempts
        /\ Has(q) => /\ snap[q.issue].claim.attempt = q.seen.claim.attempt
                     /\ q.foreign <=> root[q.issue] # home
        /\ q.pc # "reconcile" => ~q.foreign
        /\ q.pc = "judge" => q.status \in SessionStates
        /\ q.pc \in {"session", "mark"} => place[q.issue][q.seen.claim.attempt] = home
        /\ q.pc = "mark" => session[q.issue][q.seen.claim.attempt] # NoSession

\* It read the clock before now.
Timely(q) == q.at <= now /\ q.polled <= now

Knowing(r) == run[r] \in Runs /\ Timely(run[r]) /\ Knows(run[r], RootOf(r))

Surroundings ==
    /\ root \in [Issues -> Roots]
    /\ place \in [Issues -> [Attempts -> Roots \cup {"none"}]]
    /\ session \in [Issues -> [Attempts -> Sessions]]
    /\ moved \subseteq Moved
    /\ crashes \in 0..MaxCrashes
    /\ errors \in 0..MaxErrors

SInv ==
    /\ IInv /\ Counted /\ Surroundings /\ WorksWhereClaimed
    /\ run = [r \in Runners |-> run[r]]
    /\ \A r \in Runners : Knowing(r)

\* The tracker rests, or an issue is written, and is found running only if it was, or if
\* its attempt has its session in place.
AtWork(i) ==
    LET k == snap'[i].claim.attempt IN session[i][k] # NoSession /\ place[i][k] = root[i]
TrackerStep ==
    \A i \in Issues :
        \/ snap'[i] = snap[i] \/ Unheld(i) \/ Grants(i)
        \/ Keeps(i) /\ (snap'[i].state = "running" => snap[i].state = "running" \/ AtWork(i))

\* What is in place stays, and a root is chosen by a claim.
Stays ==
    /\ \A i \in Issues : root'[i] = root[i] \/ Grants(i)
    /\ \A i \in Issues : \A k \in Attempts :
         /\ place[i][k] # "none" => place'[i][k] = place[i][k]
         /\ session[i][k] # NoSession => session'[i][k] # NoSession

\* Nothing is written, or one issue is.
LEMMA NothingWritten ==
    ASSUME snap' = snap
    PROVE  TrackerStep
  BY DEF TrackerStep

\* One issue is written as it may be.
LEMMA OneWritten ==
    ASSUME NEW i \in Issues,
           \/ Unheld(i) \/ Grants(i)
           \/ Keeps(i) /\ (snap'[i].state = "running" => snap[i].state = "running" \/ AtWork(i))
    PROVE  TrackerStep
  <1>1. \A j \in Issues : j # i => snap'[j] = snap[j]
    BY DEF Unheld, Grants, Keeps, Wrote
  <1> QED BY <1>1 DEF TrackerStep, Unheld, Grants, Keeps, AtWork, Wrote

\* A root is not the absence of one.
LEMMA HomeIsRoot ==
    \A r \in Runners : RootOf(r) \in Roots /\ RootOf(r) # "none"
  BY DEF RootOf, Roots

\* What is known stays known while others move.
LEMMA KnowsStays ==
    ASSUME IInv, Counted, TrackerStep, Stays, NEW q \in Runs, NEW home \in Roots,
           Knows(q, home)
    PROVE  Knows(q, home)'
  <1> SUFFICES ASSUME q.pc \in InHand
               PROVE  Knows(q, home)'
    BY DEF Knows
  <1> DEFINE i == q.issue
             f == q.seen.claim.fence
             k == q.seen.claim.attempt
  <1>1. i \in Issues
    BY DEF Runs
  <1>2. /\ f \in 1..(snap[i].version - 1) /\ k \in Attempts
        /\ Has(q) => snap[i].claim.attempt = k /\ (q.foreign <=> root[i] # home)
        /\ q.pc # "reconcile" => ~q.foreign
        /\ q.pc = "judge" => q.status \in SessionStates
        /\ q.pc \in {"session", "mark"} => place[i][k] = home
        /\ q.pc = "mark" => session[i][k] # NoSession
    BY DEF Knows
  <1>3. snap[i].version \in Nat
    BY <1>1, SnapshotType DEF IInv
  <1>4. snap'[i] = snap[i] \/ Unheld(i) \/ Grants(i) \/ Keeps(i)
    BY <1>1 DEF TrackerStep
  <1>5. f \in 1..(snap'[i].version - 1)
    BY <1>2, <1>3, <1>4 DEF Unheld, Grants, Keeps, Wrote
  <1>6. Has(q)' => Has(q) /\ snap'[i].claim.attempt = snap[i].claim.attempt /\ ~Grants(i)
    <2>1. CASE snap'[i] = snap[i]
      <3>1. ~Grants(i)
        BY <1>3, <2>1 DEF Grants, Wrote
      <3> QED BY <2>1, <3>1 DEF Has, Holds, Claimed
    <2>2. CASE Unheld(i)
      BY <2>2 DEF Unheld, Has, Holds, Claimed
    <2>3. CASE Grants(i)
      <3>1. f # snap[i].version
        BY <1>2, <1>3
      <3> QED BY <2>3, <3>1 DEF Grants, Has, Holds, Claimed
    <2>4. CASE Keeps(i)
      <3>1. ~Grants(i)
        BY <1>1, <2>4 DEF Keeps, Grants, ActiveClaims
      <3> QED BY <2>4, <3>1 DEF Keeps, Has, Holds, Claimed
    <2> QED BY <1>4, <2>1, <2>2, <2>3, <2>4
  <1>7. Has(q)' => root'[i] = root[i]
    BY <1>1, <1>6 DEF Stays
  <1>8. q.pc \in {"session", "mark"} => place'[i][k] = home
    <2>1. q.pc \in {"session", "mark"} => place[i][k] # "none"
      BY <1>2 DEF Roots
    <2> QED BY <1>1, <1>2, <2>1 DEF Stays
  <1>9. q.pc = "mark" => session'[i][k] # NoSession
    BY <1>1, <1>2 DEF Stays
  <1> HIDE DEF i, f, k
  <1>10. Knows(q, home)' <=>
          /\ f \in 1..(snap'[i].version - 1) /\ k \in Attempts
          /\ Has(q)' => snap'[i].claim.attempt = k /\ (q.foreign <=> root'[i] # home)
          /\ q.pc # "reconcile" => ~q.foreign
          /\ q.pc = "judge" => q.status \in SessionStates
          /\ q.pc \in {"session", "mark"} => place'[i][k] = home
          /\ q.pc = "mark" => session'[i][k] # NoSession
    BY DEF Knows, i, f, k
  <1> QED BY <1>2, <1>5, <1>6, <1>7, <1>8, <1>9, <1>10

\* A running issue stays at work where it is.
LEMMA WorksStays ==
    ASSUME IInv, IInv', TrackerStep, Stays, Surroundings, WorksWhereClaimed
    PROVE  WorksWhereClaimed'
  <1> SUFFICES ASSUME NEW i \in Issues, snap'[i].state = "running"
               PROVE  LET k == snap'[i].claim.attempt IN
                      session'[i][k] # NoSession /\ place'[i][k] = root'[i]
    BY DEF WorksWhereClaimed
  <1> DEFINE k == snap'[i].claim.attempt
  <1>1. snap'[i] = snap[i] \/ Unheld(i) \/ Grants(i)
        \/ (Keeps(i) /\ (snap[i].state = "running" \/ AtWork(i)))
    BY DEF TrackerStep
  <1>2. ~Unheld(i)
    <2>1. snap'[i].claim # NoClaim
      BY DEF IInv, ClaimMatchesState, Claimed, HeldStates
    <2> QED BY <2>1 DEF Unheld
  <1>3. snap[i].version \in Nat
    BY SnapshotType DEF IInv
  <1>4. ~Grants(i)
    BY DEF Grants
  <1>5. /\ session[i][k] # NoSession /\ place[i][k] = root[i]
        /\ k \in Attempts
    <2>1. CASE snap'[i] = snap[i] \/ (Keeps(i) /\ snap[i].state = "running")
      <3>1. k = snap[i].claim.attempt /\ snap[i].state = "running"
        BY <2>1 DEF Keeps
      <3>2. Claimed(i)
        BY <3>1 DEF IInv, ClaimMatchesState, HeldStates
      <3>3. snap[i].claim.attempt \in Attempts
        BY <3>2, SnapshotType DEF IInv, ClaimWellFormed, Attempts
      <3> QED BY <3>1, <3>3 DEF WorksWhereClaimed
    <2>2. CASE Keeps(i) /\ AtWork(i)
      <3>1. k = snap[i].claim.attempt /\ Claimed(i)
        BY <2>2 DEF Keeps
      <3>2. k \in Attempts
        BY <3>1, SnapshotType DEF IInv, ClaimWellFormed, Attempts
      <3> QED BY <2>2, <3>2 DEF AtWork
    <2> QED BY <1>1, <1>2, <1>4, <2>1, <2>2
  <1>6. place[i][k] # "none"
    BY <1>5 DEF Surroundings, Roots
  <1> QED BY <1>4, <1>5, <1>6 DEF Stays

\* The invariant holds after a step that moves the tracker and what is in place as it may,
\* if each runner rests or knows what it should.
LEMMA StepKeeps ==
    ASSUME SInv, IInv', Counted', TrackerStep, Stays, Surroundings', now <= now',
           run' = [q \in Runners |-> run'[q]],
           \A q \in Runners : Knowing(q)' \/ (run'[q] = run[q] /\ RootOf(q)' = RootOf(q))
    PROVE  SInv'
  <1>1. WorksWhereClaimed'
    BY WorksStays DEF SInv
  <1>2. ASSUME NEW r \in Runners PROVE Knowing(r)'
    <2>1. CASE Knowing(r)'
      BY <2>1
    <2>2. CASE run'[r] = run[r] /\ RootOf(r)' = RootOf(r)
      <3> SUFFICES ASSUME NEW q, NEW home, q = run[r], home = RootOf(r)
                   PROVE  Knowing(r)'
        OBVIOUS
      <3>1. q \in Runs /\ Timely(q) /\ Knows(q, home) /\ home \in Roots
        BY HomeIsRoot DEF SInv, Knowing
      <3>2. Knows(q, home)'
        BY <3>1, KnowsStays DEF SInv
      <3>3. Timely(q)'
        <4>1. q.at \in Nat /\ q.polled \in Int /\ now \in Nat /\ now' \in Nat
          BY <3>1 DEF Runs, SInv, IInv, TypeOK
        <4> QED BY <3>1, <4>1 DEF Timely
      <3>4. run'[r] = q /\ RootOf(r)' = home
        BY <2>2
      <3> QED BY <3>1, <3>2, <3>3, <3>4 DEF Knowing, Knows, Timely, Has
    <2> QED BY <2>1, <2>2
  <1> QED BY <1>1, <1>2 DEF SInv

-----------------------------------------------------------------------------
(* The steps of a runner                                                     *)

\* A runner takes a step, the others rest.
Turn(r) ==
    /\ run' = [q \in Runners |-> run'[q]]
    /\ Knowing(r)'
    /\ \A q \in Runners : q # r => run'[q] = run[q] /\ RootOf(q)' = RootOf(q)

\* What replaces a runner's place in its tick.
LEMMA TurnTo ==
    ASSUME SInv, NEW r \in Runners, NEW v, run' = [run EXCEPT ![r] = v]
    PROVE  /\ run' = [q \in Runners |-> run'[q]] /\ run'[r] = v
           /\ \A q \in Runners : q # r => run'[q] = run[q]
  <1>1. run = [q \in Runners |-> run[q]]
    BY DEF SInv
  <1> DEFINE R == [q \in Runners |-> run[q]]
  <1>2. run' = [R EXCEPT ![r] = v]
    BY <1>1
  <1> QED BY <1>2

\* An idle runner.
LEMMA IdleType ==
    ASSUME NEW p \in Int
    PROVE  Idle(p) \in Runs /\ Idle(p).pc = "idle" /\ Idle(p).at = 0 /\ Idle(p).polled = p
  <1>1. (CHOOSE i \in Issues : TRUE) \in Issues
    BY SchedulerAssumption
  <1>2. Seeded \in Snapshots
    BY DEF Seeded, Snapshots, LifecycleStates, Claims, NoClaim, Retries, NoRetry
  <1> QED BY <1>1, <1>2 DEF Idle, Runs, Pcs, SessionStates

\* A runner that is done with an issue knows nothing that could be wrong.
LEMMA Leaves ==
    ASSUME SInv, NEW r \in Runners, Finish(r) \/ Goto(r, "dispatch"), moved' = moved, now' = now
    PROVE  Turn(r) /\ run'[r].pc \in {"idle", "dispatch"} /\ run'[r].polled = run[r].polled
           /\ (run'[r].pc = "dispatch" => Goto(r, "dispatch"))
  <1>1. run[r] \in Runs /\ Timely(run[r])
    BY DEF SInv, Knowing
  <1>2. run[r].polled \in Int /\ run[r].at \in Nat /\ now \in Nat
    BY <1>1 DEF Runs, SInv, IInv, TypeOK
  <1>3. \A q \in Runners : RootOf(q)' = RootOf(q)
    BY DEF RootOf
  <1>4. CASE Finish(r)
    <2>1. run' = [run EXCEPT ![r] = Idle(run[r].polled)]
      BY <1>4 DEF Finish
    <2>2. run'[r] = Idle(run[r].polled) /\ run' = [q \in Runners |-> run'[q]]
          /\ \A q \in Runners : q # r => run'[q] = run[q]
      BY <2>1, TurnTo
    <2>3. run'[r] \in Runs /\ run'[r].pc = "idle" /\ run'[r].at = 0 /\ run'[r].polled = run[r].polled
      BY <1>2, <2>2, IdleType
    <2>4. Knowing(r)'
      BY <1>1, <1>2, <2>3 DEF Knowing, Timely, Knows, InHand
    <2> QED BY <1>3, <2>2, <2>3, <2>4 DEF Turn
  <1>5. CASE Goto(r, "dispatch")
    <2> DEFINE v == [run[r] EXCEPT !.pc = "dispatch"]
    <2>1. run' = [run EXCEPT ![r] = v]
      BY <1>5 DEF Goto
    <2>2. v \in Runs /\ v.pc = "dispatch" /\ v.at = run[r].at /\ v.polled = run[r].polled
      BY <1>1 DEF Runs, Pcs
    <2> HIDE DEF v
    <2>3. run'[r] = v /\ run' = [q \in Runners |-> run'[q]]
          /\ \A q \in Runners : q # r => run'[q] = run[q]
      BY <2>1, TurnTo
    <2>4. Knowing(r)'
      BY <1>1, <1>2, <2>2, <2>3 DEF Knowing, Timely, Knows, InHand
    <2> QED BY <1>3, <1>5, <2>2, <2>3, <2>4 DEF Turn
  <1> QED BY <1>4, <1>5

\* A runner that goes on with its issue knows what it knew.
LEMMA GoesOn ==
    ASSUME SInv, NEW r \in Runners, run[r].pc \in InHand, ~run[r].foreign,
           NEW pc \in InHand \ {"reconcile", "session", "mark"},
           NEW status \in SessionStates \cup {"cancel-deadline"},
           pc = "judge" => status \in SessionStates,
           run' = [run EXCEPT ![r] = [run[r] EXCEPT !.pc = pc, !.status = status]],
           UNCHANGED <<tracked, root, moved>>
    PROVE  Turn(r)
  <1> DEFINE v == [run[r] EXCEPT !.pc = pc, !.status = status]
  <1>1. run[r] \in Runs /\ Timely(run[r]) /\ Knows(run[r], RootOf(r))
    BY DEF SInv, Knowing
  <1>2. /\ v \in Runs /\ v.pc = pc /\ v.at = run[r].at /\ v.polled = run[r].polled
        /\ v.issue = run[r].issue /\ v.seen = run[r].seen /\ v.foreign = run[r].foreign
        /\ v.status = status
    BY <1>1 DEF Runs, InHand
  <1> HIDE DEF v
  <1>3. run'[r] = v /\ run' = [q \in Runners |-> run'[q]]
        /\ \A q \in Runners : q # r => run'[q] = run[q]
    BY TurnTo DEF v
  <1>4. \A q \in Runners : RootOf(q)' = RootOf(q)
    BY DEF RootOf
  <1>5. snap' = snap /\ now' = now /\ root' = root
    BY DEF tracked
  <1>6. Knows(v, RootOf(r))
    BY <1>1, <1>2 DEF Knows, Has
  <1>7. Knowing(r)'
    BY <1>1, <1>2, <1>3, <1>4, <1>5, <1>6 DEF Knowing, Timely, Knows, Has, Holds, Claimed
  <1> QED BY <1>3, <1>4, <1>7 DEF Turn

\* Its pc alone changes.
LEMMA GoesTo ==
    ASSUME SInv, NEW r \in Runners, run[r].pc \in InHand, ~run[r].foreign,
           NEW pc \in InHand \ {"reconcile", "judge", "session", "mark"}, Goto(r, pc),
           UNCHANGED <<tracked, root, moved>>
    PROVE  Turn(r)
  <1>1. run[r] \in Runs
    BY DEF SInv, Knowing
  <1>2. run[r].status \in SessionStates \cup {"cancel-deadline"}
        /\ [run[r] EXCEPT !.pc = pc] = [run[r] EXCEPT !.pc = pc, !.status = run[r].status]
    BY <1>1 DEF Runs
  <1>3. run' = [run EXCEPT ![r] = [run[r] EXCEPT !.pc = pc, !.status = run[r].status]]
    BY <1>2 DEF Goto
  <1> QED BY <1>2, <1>3, GoesOn

\* A step of a runner that moves the tracker and what is in place as it may.
LEMMA RunnerKeeps ==
    ASSUME SInv, IInv', Counted', TrackerStep, Stays, Surroundings', now' = now,
           NEW r \in Runners, Turn(r)
    PROVE  SInv'
  <1>1. \A q \in Runners : Knowing(q)' \/ (run'[q] = run[q] /\ RootOf(q)' = RootOf(q))
    BY DEF Turn
  <1>2. now <= now'
    BY DEF SInv, IInv, TypeOK
  <1> QED BY <1>1, <1>2, StepKeeps DEF Turn

\* A step that touches neither tracker, workspaces nor sessions.
LEMMA QuietKeeps ==
    ASSUME SInv, NEW r \in Runners, Turn(r), UNCHANGED <<tracked, root, craft>>,
           moved' = moved, crashes' = crashes, errors' = errors
    PROVE  SInv'
  <1>1. snap' = snap /\ now' = now /\ root' = root /\ place' = place /\ session' = session
    BY DEF tracked, craft
  <1>2. IInv' /\ Counted'
    BY <1>1 DEF SInv, IInv, Counted, TypeOK, ClaimMatchesState, WipOne, ClaimWellFormed, Claimed
  <1>3. TrackerStep /\ Stays
    BY <1>1, NothingWritten DEF Stays
  <1>4. Surroundings'
    BY <1>1 DEF SInv, Surroundings
  <1> QED BY <1>1, <1>2, <1>3, <1>4, RunnerKeeps

\* A call on the tracker that is answered or refused.
LEMMA CallKeeps ==
    ASSUME SInv, NEW r \in Runners, Turn(r), UNCHANGED <<root, craft, faults>>,
           UNCHANGED tracked \/ (Next /\ IInv' /\ Counted' /\ TrackerStep /\ now' = now)
    PROVE  SInv' /\ [Next]_vars
  <1>1. root' = root /\ place' = place /\ session' = session
        /\ moved' = moved /\ crashes' = crashes /\ errors' = errors
    BY DEF craft, faults
  <1>2. CASE UNCHANGED tracked
    <2>1. [Next]_vars
      BY <1>2 DEF tracked, vars
    <2> QED BY <1>1, <1>2, <2>1, QuietKeeps
  <1>3. CASE Next /\ IInv' /\ Counted' /\ TrackerStep /\ now' = now
    <2>1. Stays /\ Surroundings'
      BY <1>1 DEF SInv, Surroundings, Stays
    <2> QED BY <1>3, <2>1, RunnerKeeps
  <1> QED BY <1>2, <1>3

\* failClaim, transition and heartbeat within a tick.
LEMMA FailKeeps ==
    ASSUME SInv, NEW r \in Runners, NEW class \in FailureClasses, NEW at \in 0..now,
           Fail(r, class, at), UNCHANGED <<root, craft, faults>>
    PROVE  SInv' /\ [Next]_vars
  <1> SUFFICES ASSUME NEW i, i = run[r].issue
               PROVE  SInv' /\ [Next]_vars
    OBVIOUS
  <1>1. run[r] \in Runs /\ i \in Issues
    BY DEF SInv, Knowing, Runs
  <1>2. \/ FailClaim(i, Fence(r), class, at) /\ Goto(r, "dispatch")
        \/ UNCHANGED tracked /\ Finish(r)
    BY DEF Fail, Call
  <1>3. moved' = moved
    BY DEF faults
  <1>4. CASE FailClaim(i, Fence(r), class, at) /\ Goto(r, "dispatch")
    <2> SUFFICES ASSUME NEW f, f = Fence(r), FailClaim(i, f, class, at)
                 PROVE  SInv' /\ [Next]_vars
      BY <1>4
    <2>1. Next /\ IInv' /\ Counted' /\ Unheld(i)
      BY <1>1, FailCall DEF SInv
    <2>2. TrackerStep /\ now' = now
      BY <1>1, <2>1, OneWritten DEF Unheld, Wrote
    <2>3. Turn(r)
      BY <1>3, <1>4, <2>2, Leaves
    <2> QED BY <2>1, <2>2, <2>3, CallKeeps
  <1>5. CASE UNCHANGED tracked /\ Finish(r)
    <2>1. Turn(r)
      BY <1>3, <1>5, Leaves DEF tracked
    <2> QED BY <1>5, <2>1, CallKeeps
  <1> QED BY <1>2, <1>4, <1>5

\* The call of a transition to preservation-unknown keeps the invariant.
LEMMA PreserveKeeps ==
    ASSUME SInv, NEW r \in Runners, Preserve(r), UNCHANGED <<root, craft, faults>>
    PROVE  SInv' /\ [Next]_vars
  <1> SUFFICES ASSUME NEW i, i = run[r].issue
               PROVE  SInv' /\ [Next]_vars
    OBVIOUS
  <1>1. run[r] \in Runs /\ i \in Issues
    BY DEF SInv, Knowing, Runs
  <1>2. \/ Transition(i, "preservation-unknown", Fence(r), {}) /\ Goto(r, "dispatch")
        \/ UNCHANGED tracked /\ Finish(r)
    BY DEF Preserve, Call
  <1>3. moved' = moved
    BY DEF faults
  <1>4. CASE Transition(i, "preservation-unknown", Fence(r), {}) /\ Goto(r, "dispatch")
    <2> SUFFICES ASSUME NEW f, f = Fence(r), NEW to, to = "preservation-unknown", Transition(i, to, f, {})
                 PROVE  SInv' /\ [Next]_vars
      BY <1>4
    <2>1. to \in Targets /\ to \in ReleasingStates
      BY DEF Targets, LifecycleStates, ReleasingStates, TerminalStates
    <2>2. Next /\ IInv' /\ Counted' /\ Unheld(i)
      BY <1>1, <2>1, TransitionCall DEF SInv
    <2>3. TrackerStep /\ now' = now
      BY <1>1, <2>2, OneWritten DEF Unheld, Wrote
    <2>4. Turn(r)
      BY <1>3, <1>4, <2>3, Leaves
    <2> QED BY <2>2, <2>3, <2>4, CallKeeps
  <1>5. CASE UNCHANGED tracked /\ Finish(r)
    <2>1. Turn(r)
      BY <1>3, <1>5, Leaves DEF tracked
    <2> QED BY <1>5, <2>1, CallKeeps
  <1> QED BY <1>2, <1>4, <1>5

\* So does a heartbeat.
LEMMA BeatKeeps ==
    ASSUME SInv, NEW r \in Runners, Beat(r), UNCHANGED <<root, craft, faults>>
    PROVE  SInv' /\ [Next]_vars
  <1> SUFFICES ASSUME NEW i, i = run[r].issue
               PROVE  SInv' /\ [Next]_vars
    OBVIOUS
  <1>1. run[r] \in Runs /\ i \in Issues /\ run[r].at \in 0..now
    BY DEF SInv, Knowing, Timely, Runs, IInv, TypeOK
  <1>2. \/ Heartbeat(i, Fence(r), run[r].at) /\ Goto(r, "dispatch")
        \/ UNCHANGED tracked /\ Finish(r)
    BY DEF Beat, Call
  <1>3. moved' = moved
    BY DEF faults
  <1>4. CASE Heartbeat(i, Fence(r), run[r].at) /\ Goto(r, "dispatch")
    <2> SUFFICES ASSUME NEW f, f = Fence(r), NEW at, at = run[r].at, Heartbeat(i, f, at)
                 PROVE  SInv' /\ [Next]_vars
      BY <1>4
    <2>1. Next /\ IInv' /\ Counted' /\ Keeps(i) /\ snap'[i].state = snap[i].state
      BY <1>1, HeartbeatCall DEF SInv
    <2>2. TrackerStep /\ now' = now
      BY <1>1, <2>1, OneWritten DEF Keeps, Wrote
    <2>3. Turn(r)
      BY <1>3, <1>4, <2>2, Leaves
    <2> QED BY <2>1, <2>2, <2>3, CallKeeps
  <1>5. CASE UNCHANGED tracked /\ Finish(r)
    <2>1. Turn(r)
      BY <1>3, <1>5, Leaves DEF tracked
    <2> QED BY <1>5, <2>1, CallKeeps
  <1> QED BY <1>2, <1>4, <1>5

\* What a runner has in hand is typed.
LEMMA HandType ==
    ASSUME SInv, NEW r \in Runners
    PROVE  /\ run[r] \in Runs /\ run[r].issue \in Issues /\ run[r].at \in 0..now /\ run[r].polled \in Int
           /\ run[r].polled <= now /\ now \in Nat /\ run[r].seen \in Snapshots
           /\ run[r].status \in SessionStates \cup {"cancel-deadline"}
           /\ Knows(run[r], RootOf(r))
  BY DEF SInv, Knowing, Timely, Runs, IInv, TypeOK

\* What is in place is typed.
LEMMA PlaceType ==
    ASSUME SInv, NEW i \in Issues, NEW k \in Attempts
    PROVE  /\ place[i][k] \in Roots \cup {"none"} /\ session[i][k] \in Sessions
           /\ session[i][k].status \in SessionStates /\ session[i][k].busy \in BOOLEAN
           /\ session[i][k].since \in Nat
  <1>1. session[i][k] \in Sessions
    BY DEF SInv, Surroundings
  <1> QED BY <1>1 DEF SInv, Surroundings, Sessions

\* The status of a session, as judged.
LEMMA StatusType ==
    ASSUME SInv, NEW i \in Issues, NEW k \in Attempts, NEW at \in Nat
    PROVE  Status(i, k, at) \in SessionStates
  BY PlaceType DEF Status, SessionStates

\* A runner that looks for a candidate.
LEMMA LookingOut ==
    ASSUME NEW n \in Nat, NEW v, v = [Idle(n) EXCEPT !.pc = "dispatch", !.at = n]
    PROVE  v \in Runs /\ v.pc = "dispatch" /\ v.at = n /\ v.polled = n
  <1> SUFFICES ASSUME NEW z, z = Idle(n), v = [z EXCEPT !.pc = "dispatch", !.at = n]
               PROVE  v \in Runs /\ v.pc = "dispatch" /\ v.at = n /\ v.polled = n
    OBVIOUS
  <1>1. z \in Runs /\ z.polled = n
    BY IdleType
  <1> QED BY <1>1 DEF Runs, Pcs

\* It knows what it has read.
LEMMA TakesUp ==
    ASSUME SInv, NEW r \in Runners, NEW i \in Issues, Claimed(i),
           NEW b \in BOOLEAN, b <=> root[i] # RootOf(r), NEW s, s = snap[i], NEW n, n = now,
           NEW z, z = Idle(n), NEW v,
           v = [z EXCEPT !.pc = "reconcile", !.at = n, !.issue = i, !.seen = s, !.foreign = b],
           run' = [run EXCEPT ![r] = v],
           UNCHANGED <<tracked, root, moved>>
    PROVE  Turn(r)
  <1>1. s \in Snapshots /\ s.claim.attempt \in Attempts
        /\ s.claim.fence \in 1..(snap[i].version - 1) /\ n \in Nat
    BY SnapshotType DEF SInv, IInv, TypeOK, ClaimWellFormed, Counted, Attempts
  <1>2. z \in Runs /\ z.polled = n
    BY <1>1, IdleType
  <1>3. /\ v \in Runs /\ v.pc = "reconcile" /\ v.at = n /\ v.polled = n
        /\ v.issue = i /\ v.seen = s /\ (v.foreign <=> b)
    BY <1>1, <1>2 DEF Runs, Pcs
  <1>4. run'[r] = v /\ run' = [q \in Runners |-> run'[q]]
        /\ \A q \in Runners : q # r => run'[q] = run[q]
    BY TurnTo
  <1>5. \A q \in Runners : RootOf(q)' = RootOf(q)
    BY DEF RootOf
  <1>6. snap' = snap /\ now' = now /\ root' = root
    BY DEF tracked
  <1>7. Knows(v, RootOf(r))
    BY <1>1, <1>3 DEF Knows, Has
  <1>8. Timely(v)
    BY <1>1, <1>3 DEF Timely
  <1>9. Knowing(r)'
    BY <1>3, <1>4, <1>5, <1>6, <1>7, <1>8 DEF Knowing, Timely, Knows, Has, Holds, Claimed
  <1> QED BY <1>4, <1>5, <1>9 DEF Turn

\* A tick begins with the active claim, or with none.
LEMMA PollKeeps ==
    ASSUME SInv, NEW r \in Runners, Poll(r)
    PROVE  SInv'
  <1>1. run[r].polled < now /\ UNCHANGED <<tracked, root, craft, faults>>
    BY DEF Poll
  <1>2. snap' = snap /\ now' = now /\ root' = root /\ place' = place /\ session' = session
        /\ moved' = moved /\ crashes' = crashes /\ errors' = errors
    BY <1>1 DEF tracked, craft, faults
  <1>3. Turn(r)
    <2>1. CASE ActiveClaims = {}
      <3> DEFINE v == [Idle(now) EXCEPT !.pc = "dispatch", !.at = now]
      <3>0. now \in Nat /\ now \in Int
        BY DEF SInv, IInv, TypeOK
      <3>1. run' = [run EXCEPT ![r] = v]
        BY <2>1 DEF Poll
      <3>2. v \in Runs /\ v.pc = "dispatch" /\ v.at = now /\ v.polled = now
        <4> HIDE DEF v
        <4>1. v = [Idle(now) EXCEPT !.pc = "dispatch", !.at = now]
          BY DEF v
        <4> QED BY <3>0, <4>1, LookingOut
      <3> HIDE DEF v
      <3>3. run'[r] = v /\ run' = [q \in Runners |-> run'[q]]
            /\ \A q \in Runners : q # r => run'[q] = run[q]
        BY <3>1, TurnTo
      <3>4. Knowing(r)'
        BY <1>2, <3>0, <3>2, <3>3 DEF Knowing, Timely, Knows, InHand
      <3>5. \A q \in Runners : RootOf(q)' = RootOf(q)
        BY <1>2 DEF RootOf
      <3> QED BY <3>3, <3>4, <3>5 DEF Turn
    <2>2. CASE ActiveClaims # {}
      <3> DEFINE j == CHOOSE i \in ActiveClaims : TRUE
      <3>1. run' = [run EXCEPT ![r] =
                       [Idle(now) EXCEPT !.pc = "reconcile", !.at = now, !.issue = j,
                                         !.seen = snap[j], !.foreign = root[j] # RootOf(r)]]
        BY <2>2, Zenon DEF Poll
      <3>2. j \in Issues /\ Claimed(j)
        BY <2>2 DEF ActiveClaims
      <3> HIDE DEF j
      <3>3. SUFFICES ASSUME NEW i \in Issues, Claimed(i), NEW b, b = (root[i] # RootOf(r)),
                            NEW s, s = snap[i], NEW n, n = now,
                            NEW z, z = Idle(n), NEW v,
                            v = [z EXCEPT !.pc = "reconcile", !.at = n, !.issue = i, !.seen = s,
                                          !.foreign = b],
                            run' = [run EXCEPT ![r] = v]
                     PROVE  Turn(r)
        BY <3>1, <3>2, Zenon
      <3>4. b \in BOOLEAN /\ (b <=> root[i] # RootOf(r))
        BY <3>3, Zenon
      <3>5. UNCHANGED <<tracked, root, moved>>
        BY <1>2 DEF tracked
      <3> QED BY <3>3, <3>4, <3>5, TakesUp
    <2> QED BY <2>1, <2>2
  <1> QED BY <1>1, <1>2, <1>3, QuietKeeps

\* Reconcile, whatever it makes of the claim.
LEMMA ReconcileKeeps ==
    ASSUME SInv, NEW r \in Runners, Reconcile(r)
    PROVE  SInv' /\ [Next]_vars
  <1>1. At(r, "reconcile") /\ UNCHANGED <<root, craft, faults>>
    BY DEF Reconcile
  <1>2. "policy" \in FailureClasses
    BY DEF FailureClasses
  <1> DEFINE pc == IF run[r].seen.state = "claimed" THEN "resume" ELSE "judge"
             status == Status(run[r].issue, Attempt(r), run[r].at)
  <1>3. \/ Preserve(r) \/ Fail(r, "policy", run[r].at) \/ Beat(r)
        \/ /\ run' = [run EXCEPT ![r].pc = pc, ![r].status = status] /\ UNCHANGED tracked
           /\ IdentityMatches(r)
    BY DEF Reconcile
  <1>4. ASSUME run' = [run EXCEPT ![r].pc = pc, ![r].status = status], UNCHANGED tracked,
               IdentityMatches(r)
        PROVE  SInv' /\ [Next]_vars
    <2>1. run[r].pc \in InHand /\ pc \in InHand \ {"reconcile", "session", "mark"}
      BY <1>1 DEF At, InHand, Pcs
    <2>2. Attempt(r) \in Attempts
      BY <2>1, HandType DEF Knows, Attempt
    <2>3. status \in SessionStates
      <3>1. run[r].at \in Nat
        BY HandType
      <3> QED BY <2>2, <3>1, HandType, StatusType
    <2>4. ~run[r].foreign
      BY <1>4 DEF IdentityMatches
    <2> HIDE DEF pc, status
    <2>5. run' = [run EXCEPT ![r] = [run[r] EXCEPT !.pc = pc, !.status = status]]
      BY <1>4
    <2>6. UNCHANGED <<tracked, root, moved>>
      BY <1>1, <1>4 DEF faults
    <2>7. Turn(r)
      BY <2>1, <2>3, <2>4, <2>5, <2>6, GoesOn
    <2> QED BY <1>1, <1>4, <2>7, CallKeeps
  <1> HIDE DEF pc, status
  <1> QED BY <1>1, <1>2, <1>3, <1>4, PreserveKeeps, FailKeeps, BeatKeeps, HandType

\* A step within a tick that leads to another pc only.
LEMMA GotoKeeps ==
    ASSUME SInv, NEW r \in Runners, run[r].pc \in InHand, ~run[r].foreign,
           NEW pc \in (InHand \ {"reconcile", "judge", "session", "mark"}) \cup {"dispatch"},
           Goto(r, pc), UNCHANGED <<tracked, root, craft, faults>>
    PROVE  SInv' /\ [Next]_vars
  <1>1. UNCHANGED <<tracked, root, moved>> /\ now' = now /\ moved' = moved
    BY DEF faults, tracked
  <1>2. Turn(r)
    <2>1. CASE pc = "dispatch"
      BY <1>1, <2>1, Leaves
    <2>2. CASE pc # "dispatch"
      BY <1>1, <2>2, GoesTo
    <2> QED BY <2>1, <2>2
  <1> QED BY <1>2, CallKeeps

\* Past reconcile, the identity has been compared.
LEMMA NotForeign ==
    ASSUME SInv, NEW r \in Runners, run[r].pc \in InHand, run[r].pc # "reconcile"
    PROVE  ~run[r].foreign /\ Attempt(r) \in Attempts /\ Fence(r) \in 1..(snap[run[r].issue].version - 1)
           /\ (Has(run[r]) => snap[run[r].issue].claim.attempt = Attempt(r) /\ root[run[r].issue] = RootOf(r))
  BY HandType DEF Knows, Attempt, Fence

\* Resume fails the claim or starts it again, under the root it was read with.
LEMMA ResumeKeeps ==
    ASSUME SInv, NEW r \in Runners, Resume(r)
    PROVE  SInv' /\ [Next]_vars
  <1>1. At(r, "resume") /\ UNCHANGED <<root, craft, faults>>
    BY DEF Resume
  <1>2. run[r].pc \in InHand /\ run[r].pc # "reconcile"
        /\ "workspace" \in InHand \ {"reconcile", "judge", "session", "mark"}
    BY <1>1 DEF At, InHand, Pcs
  <1>3. "runtime" \in FailureClasses
    BY DEF FailureClasses
  <1>4. Fail(r, "runtime", run[r].at) \/ (Goto(r, "workspace") /\ UNCHANGED tracked)
    BY DEF Resume
  <1>5. ASSUME Goto(r, "workspace"), UNCHANGED tracked PROVE SInv' /\ [Next]_vars
    BY <1>1, <1>2, <1>5, NotForeign, GotoKeeps
  <1> QED BY <1>1, <1>3, <1>4, <1>5, FailKeeps, HandType

\* Judge knows a status that is a session's.
LEMMA JudgeKeeps ==
    ASSUME SInv, NEW r \in Runners, Judge(r)
    PROVE  SInv' /\ [Next]_vars
  <1>1. At(r, "judge") /\ UNCHANGED <<root, craft, faults>>
    BY DEF Judge
  <1>2. run[r].pc \in InHand /\ run[r].pc # "reconcile"
        /\ "cancel" \in InHand \ {"reconcile", "judge", "session", "mark"}
    BY <1>1 DEF At, InHand, Pcs
  <1>3. "runtime" \in FailureClasses
    BY DEF FailureClasses
  <1>4. \/ Goto(r, "cancel") /\ UNCHANGED tracked
        \/ Goto(r, "dispatch") /\ UNCHANGED tracked
        \/ Beat(r) \/ Fail(r, "runtime", run[r].at)
        \/ run[r].status \notin SessionStates
    BY DEF Judge, SessionStates
  <1>5. ASSUME NEW pc \in {"cancel", "dispatch"}, Goto(r, pc), UNCHANGED tracked PROVE SInv' /\ [Next]_vars
    <2>1. pc \in (InHand \ {"reconcile", "judge", "session", "mark"}) \cup {"dispatch"}
      BY <1>2
    <2> QED BY <1>1, <1>2, <1>5, <2>1, NotForeign, GotoKeeps
  <1>6. ASSUME run[r].status \notin SessionStates PROVE FALSE
    BY <1>1, <1>2, <1>6, HandType DEF Knows, At
  <1> QED BY <1>1, <1>3, <1>4, <1>5, <1>6, BeatKeeps, FailKeeps, HandType

-----------------------------------------------------------------------------
(* Sessions and workspaces                                                   *)

\* A session changes into one that is not absent either.
SessionTurns(i, k) ==
    /\ session' \in [Issues -> [Attempts -> Sessions]]
    /\ \A j \in Issues : \A l \in Attempts : j # i \/ l # k => session'[j][l] = session[j][l]
    /\ session[i][k] # NoSession => session'[i][k] # NoSession

\* What replaces a session.
LEMMA SessionUpdate ==
    ASSUME SInv, NEW i \in Issues, NEW k \in Attempts, NEW s \in Sessions, s # NoSession,
           session' = [session EXCEPT ![i][k] = s]
    PROVE  SessionTurns(i, k) /\ session'[i][k] = s
  BY DEF SInv, Surroundings, SessionTurns

\* A step on a session.
LEMMA SessionKeeps ==
    ASSUME SInv, NEW r \in Runners, Turn(r), UNCHANGED <<tracked, root, place>>, moved' = moved,
           crashes' = crashes, errors' \in 0..MaxErrors,
           \/ UNCHANGED session
           \/ \E i \in Issues : \E k \in Attempts : SessionTurns(i, k)
    PROVE  SInv' /\ [Next]_vars
  <1>1. snap' = snap /\ now' = now /\ root' = root /\ place' = place
    BY DEF tracked
  <1>2. IInv' /\ Counted'
    BY <1>1 DEF SInv, IInv, Counted, TypeOK, ClaimMatchesState, WipOne, ClaimWellFormed, Claimed
  <1>3. session' \in [Issues -> [Attempts -> Sessions]]
        /\ \A i \in Issues : \A k \in Attempts : session[i][k] # NoSession => session'[i][k] # NoSession
    <2>1. CASE UNCHANGED session
      BY <2>1 DEF SInv, Surroundings
    <2>2. ASSUME NEW i \in Issues, NEW k \in Attempts, SessionTurns(i, k)
          PROVE  session' \in [Issues -> [Attempts -> Sessions]]
                 /\ \A j \in Issues : \A l \in Attempts : session[j][l] # NoSession => session'[j][l] # NoSession
      BY <2>2 DEF SessionTurns
    <2> QED BY <2>1, <2>2
  <1>4. TrackerStep /\ Stays
    BY <1>1, <1>3, NothingWritten DEF Stays
  <1>5. Surroundings'
    BY <1>1, <1>3 DEF SInv, Surroundings
  <1>6. [Next]_vars
    BY <1>1 DEF vars
  <1> QED BY <1>1, <1>2, <1>4, <1>5, <1>6, RunnerKeeps

\* The deadline has stopped a turn.
LEMMA DeadlineSession ==
    ASSUME NEW s \in Sessions
    PROVE  [s EXCEPT !.status = "deadline", !.busy = FALSE] \in Sessions
           /\ [s EXCEPT !.status = "deadline", !.busy = FALSE].status = "deadline"
           /\ ~[s EXCEPT !.status = "deadline", !.busy = FALSE].busy
           /\ [s EXCEPT !.status = "deadline", !.busy = FALSE] # NoSession
  BY DEF Sessions, SessionStates, NoSession

\* Cancel ends a turn at most.
LEMMA CancelKeeps ==
    ASSUME SInv, NEW r \in Runners, Cancel(r)
    PROVE  SInv' /\ [Next]_vars
  <1> SUFFICES ASSUME NEW i, i = run[r].issue, NEW k, k = Attempt(r),
                      NEW status, status = Status(i, k, run[r].at)
               PROVE  SInv' /\ [Next]_vars
    OBVIOUS
  <1>1. At(r, "cancel") /\ UNCHANGED <<tracked, root, place>>
        /\ moved' = moved /\ crashes' = crashes /\ errors' = errors
    BY DEF Cancel, faults
  <1>2. run[r].pc \in InHand /\ run[r].pc # "reconcile"
        /\ "stopped" \in InHand \ {"reconcile", "judge", "session", "mark"}
    BY <1>1 DEF At, InHand, Pcs
  <1>3. i \in Issues /\ k \in Attempts /\ ~run[r].foreign
    BY <1>2, HandType, NotForeign
  <1>4. status \in SessionStates
    <2>1. run[r].at \in Nat
      BY HandType
    <2> QED BY <1>3, <2>1, StatusType
  <1>5. PICK result \in {status, "cancel-deadline"} :
           run' = [run EXCEPT ![r].pc = "stopped", ![r].status = result]
    BY DEF Cancel
  <1>6. Turn(r)
    <2>1. result \in SessionStates \cup {"cancel-deadline"}
      BY <1>4
    <2>2. run' = [run EXCEPT ![r] = [run[r] EXCEPT !.pc = "stopped", !.status = result]]
      BY <1>5
    <2>3. UNCHANGED <<tracked, root, moved>>
      BY <1>1
    <2> QED BY <1>2, <1>3, <2>1, <2>2, <2>3, GoesOn
  <1>7. UNCHANGED session \/ SessionTurns(i, k)
    <2>1. \/ UNCHANGED session
          \/ session' = [session EXCEPT ![i][k] = [@ EXCEPT !.status = "deadline", !.busy = FALSE]]
      BY DEF Cancel
    <2>2. ASSUME session' = [session EXCEPT ![i][k] = [@ EXCEPT !.status = "deadline", !.busy = FALSE]]
          PROVE  SessionTurns(i, k)
      <3>1. session[i][k] \in Sessions
        BY <1>3, PlaceType
      <3> DEFINE s == [session[i][k] EXCEPT !.status = "deadline", !.busy = FALSE]
      <3>2. s \in Sessions /\ s # NoSession
        BY <3>1, DeadlineSession
      <3>3. session' = [session EXCEPT ![i][k] = s]
        BY <2>2
      <3> HIDE DEF s
      <3> QED BY <1>3, <3>2, <3>3, SessionUpdate
    <2> QED BY <2>1, <2>2
  <1>8. errors' \in 0..MaxErrors
    BY <1>1 DEF SInv, Surroundings
  <1> QED BY <1>1, <1>3, <1>6, <1>7, <1>8, SessionKeeps

\* What follows a cancellation is one of the two calls.
LEMMA StoppedKeeps ==
    ASSUME SInv, NEW r \in Runners, Stopped(r)
    PROVE  SInv' /\ [Next]_vars
  <1>1. "runtime" \in FailureClasses
    BY DEF FailureClasses
  <1>2. UNCHANGED <<root, craft, faults>> /\ (Preserve(r) \/ Fail(r, "runtime", run[r].at))
    BY DEF Stopped
  <1> QED BY <1>1, <1>2, PreserveKeeps, FailKeeps, HandType

\* The catch block is a call too.
LEMMA AbortKeeps ==
    ASSUME SInv, NEW r \in Runners, Abort(r)
    PROVE  SInv' /\ [Next]_vars
  <1>1. "runtime" \in FailureClasses /\ now \in 0..now
    BY DEF FailureClasses, SInv, IInv, TypeOK
  <1>2. UNCHANGED <<root, craft, faults>> /\ Fail(r, "runtime", now)
    BY DEF Abort
  <1> QED BY <1>1, <1>2, FailKeeps

\* Candidates are read, or tried.
LEMMA LooksFor ==
    ASSUME SInv, NEW r \in Runners, run[r].pc \in {"dispatch", "claim"},
           NEW todo \in SUBSET [issue : Issues, seen : Snapshots],
           run' = [run EXCEPT ![r] = [run[r] EXCEPT !.pc = "claim", !.todo = todo]],
           moved' = moved, now' = now
    PROVE  Turn(r)
  <1> DEFINE v == [run[r] EXCEPT !.pc = "claim", !.todo = todo]
  <1>1. run[r] \in Runs /\ Timely(run[r])
    BY DEF SInv, Knowing
  <1>2. v \in Runs /\ v.pc = "claim" /\ v.at = run[r].at /\ v.polled = run[r].polled
    BY <1>1 DEF Runs, Pcs
  <1> HIDE DEF v
  <1>3. run'[r] = v /\ run' = [q \in Runners |-> run'[q]]
        /\ \A q \in Runners : q # r => run'[q] = run[q]
    BY TurnTo DEF v
  <1>4. Knowing(r)'
    BY <1>1, <1>2, <1>3 DEF Knowing, Timely, Knows, InHand
  <1>5. \A q \in Runners : RootOf(q)' = RootOf(q)
    BY DEF RootOf
  <1> QED BY <1>3, <1>4, <1>5 DEF Turn

\* Dispatch only reads.
LEMMA DispatchKeeps ==
    ASSUME SInv, NEW r \in Runners, Dispatch(r)
    PROVE  SInv' /\ [Next]_vars
  <1>1. run[r].pc = "dispatch" /\ UNCHANGED <<tracked, root, craft, faults>>
    BY DEF Dispatch, At
  <1>2. moved' = moved /\ now' = now
    BY <1>1 DEF faults, tracked
  <1> DEFINE todo == {[issue |-> i, seen |-> snap[i]] :
                        i \in {j \in Issues : snap[j].state \in {"ready", "retry-wait"}}}
  <1>3. todo \in SUBSET [issue : Issues, seen : Snapshots]
    BY DEF SInv, IInv, TypeOK
  <1>4. Finish(r) \/ run' = [run EXCEPT ![r].pc = "claim", ![r].todo = todo]
    BY DEF Dispatch
  <1> HIDE DEF todo
  <1>5. Turn(r)
    <2>1. CASE Finish(r)
      BY <1>2, <2>1, Leaves
    <2>2. CASE run' = [run EXCEPT ![r].pc = "claim", ![r].todo = todo]
      <3>1. run' = [run EXCEPT ![r] = [run[r] EXCEPT !.pc = "claim", !.todo = todo]]
        BY <2>2
      <3> QED BY <1>1, <1>2, <1>3, <3>1, LooksFor
    <2> QED BY <1>4, <2>1, <2>2
  <1> QED BY <1>1, <1>5, CallKeeps

\* Numbers have a least one.
LEMMA Least ==
    ASSUME NEW S \in SUBSET Nat, S # {}
    PROVE  \E n \in S : \A m \in S : n <= m
  <1> DEFINE R == OpToRel(<, Nat)
  <1>1. IsWellFoundedOn(R, Nat)
    BY NatLessThanWellFounded
  <1>2. \A n, m \in Nat : n < m => <<n, m>> \in R
    BY DEF OpToRel
  <1> HIDE DEF R
  <1>3. PICK n \in S : \A m \in S : ~(<<m, n>> \in R)
    BY <1>1, WFMin
  <1>4. \A m \in S : n \in Nat /\ m \in Nat /\ ~(m < n)
    BY <1>2, <1>3
  <1> QED BY <1>3, <1>4

\* The first candidate is one of them.
LEMMA FirstDue ==
    ASSUME NEW due \in SUBSET [issue : Issues, seen : Snapshots], due # {},
           NEW c, c = CHOOSE d \in due : \A e \in due : d.issue <= e.issue
    PROVE  c \in due /\ c.issue \in Issues
  <1> DEFINE S == {d.issue : d \in due}
  <1>1. S \in SUBSET Nat /\ S # {}
    BY SchedulerAssumption
  <1>2. PICK n \in S : \A m \in S : n <= m
    <2> HIDE DEF S
    <2> QED BY <1>1, Least
  <1>3. \E d \in due : \A e \in due : d.issue <= e.issue
    BY <1>2
  <1> QED BY <1>3

\* The claim that a tick makes.
LEMMA Claiming ==
    ASSUME SInv, NEW r \in Runners, run[r].pc = "claim", NEW i \in Issues, NEW v, NEW attempt,
           TryClaim(i, v, attempt, now), root' = [root EXCEPT ![i] = RootOf(r)],
           run' = [run EXCEPT ![r].pc = "workspace", ![r].issue = i, ![r].seen = snap'[i],
                              ![r].foreign = FALSE, ![r].todo = {}],
           UNCHANGED <<craft, faults>>
    PROVE  SInv' /\ [Next]_vars /\ run'[r].pc = "workspace" /\ run'[r].issue = i
           /\ run'[r].seen = snap'[i] /\ run'[r].polled = run[r].polled
  <1>1. /\ Next /\ IInv' /\ Counted' /\ Grants(i)
    BY ClaimCall DEF SInv
  <1>2. /\ now' = now /\ moved' = moved /\ place' = place /\ session' = session
        /\ crashes' = crashes /\ errors' = errors
    BY <1>1 DEF Grants, Wrote, craft, faults
  <1>3. TrackerStep
    BY <1>1, OneWritten
  <1>4. RootOf(r) \in Roots /\ \A q \in Runners : RootOf(q)' = RootOf(q)
    BY <1>2, HomeIsRoot DEF RootOf
  <1>5. root' \in [Issues -> Roots] /\ root'[i] = RootOf(r) /\ \A j \in Issues : j # i => root'[j] = root[j]
    BY <1>4 DEF SInv, Surroundings
  <1>6. Stays
    <2>1. \A j \in Issues : root'[j] = root[j] \/ Grants(j)
      <3> SUFFICES ASSUME NEW j \in Issues, root'[j] # root[j] PROVE Grants(j)
        OBVIOUS
      <3>1. j = i
        BY <1>5
      <3> QED BY <1>1, <3>1 DEF Grants, Wrote
    <2> QED BY <1>2, <2>1 DEF Stays
  <1>7. Surroundings'
    BY <1>2, <1>5 DEF SInv, Surroundings
  <1> SUFFICES ASSUME NEW s, s = snap'[i], NEW z, z = run[r], NEW w,
                      w = [z EXCEPT !.pc = "workspace", !.issue = i, !.seen = s, !.foreign = FALSE,
                                    !.todo = {}],
                      run' = [run EXCEPT ![r] = w]
               PROVE  SInv' /\ [Next]_vars /\ run'[r].pc = "workspace" /\ run'[r].issue = i
                      /\ run'[r].seen = snap'[i] /\ run'[r].polled = run[r].polled
    OBVIOUS
  <1>8. z \in Runs /\ Timely(z)
    BY DEF SInv, Knowing
  <1>9. s \in Snapshots /\ s.claim.attempt \in Attempts /\ s.claim.fence \in 1..(s.version - 1)
    BY <1>1, SnapshotType DEF IInv, TypeOK, ClaimWellFormed, Counted, Attempts, Claimed, Grants,
       Snapshots, Claims
  <1>10. /\ w \in Runs /\ w.pc = "workspace" /\ w.issue = i /\ w.seen = s /\ w.foreign = FALSE
         /\ w.at = z.at /\ w.polled = z.polled
    BY <1>8, <1>9 DEF Runs, Pcs
  <1>11. run'[r] = w /\ run' = [q \in Runners |-> run'[q]]
        /\ \A q \in Runners : q # r => run'[q] = run[q]
    BY TurnTo
  <1>12. Knowing(r)'
    BY <1>2, <1>4, <1>5, <1>8, <1>9, <1>10, <1>11 DEF Knowing, Timely, Knows, Has
  <1>13. Turn(r)
    BY <1>4, <1>11, <1>12 DEF Turn
  <1>14. [Next]_vars
    BY <1>1
  <1> QED BY <1>1, <1>2, <1>3, <1>6, <1>7, <1>10, <1>11, <1>13, <1>14, RunnerKeeps

\* A claim makes known what the runner goes on with.
LEMMA ClaimKeeps ==
    ASSUME SInv, NEW r \in Runners, Claim(r)
    PROVE  SInv' /\ [Next]_vars
  <1> SUFFICES ASSUME NEW due, due = {d \in run[r].todo : Due(d.seen)},
                      NEW c, c = CHOOSE d \in due : \A e \in due : d.issue <= e.issue
               PROVE  SInv' /\ [Next]_vars
    OBVIOUS
  <1>1. run[r].pc = "claim" /\ UNCHANGED <<craft, faults>> /\ moved' = moved
    BY DEF Claim, At, faults
  <1>2. \/ Finish(r) /\ UNCHANGED <<tracked, root>>
        \/ /\ due # {} /\ TryClaim(c.issue, c.seen.version, NextAttempt(c.seen), now)
           /\ root' = [root EXCEPT ![c.issue] = RootOf(r)]
           /\ run' = [run EXCEPT ![r].pc = "workspace", ![r].issue = c.issue,
                                 ![r].seen = snap'[c.issue], ![r].foreign = FALSE, ![r].todo = {}]
        \/ run' = [run EXCEPT ![r].todo = @ \ {c}] /\ UNCHANGED <<tracked, root>>
    BY DEF Claim
  <1>3. run[r] \in Runs /\ run[r].todo \in SUBSET [issue : Issues, seen : Snapshots]
    BY HandType DEF Runs
  <1>4. CASE Finish(r) /\ UNCHANGED <<tracked, root>>
    <2>1. Turn(r)
      BY <1>1, <1>4, Leaves DEF tracked
    <2> QED BY <1>1, <1>4, <2>1, CallKeeps
  <1>5. CASE /\ due # {} /\ TryClaim(c.issue, c.seen.version, NextAttempt(c.seen), now)
             /\ root' = [root EXCEPT ![c.issue] = RootOf(r)]
             /\ run' = [run EXCEPT ![r].pc = "workspace", ![r].issue = c.issue,
                                   ![r].seen = snap'[c.issue], ![r].foreign = FALSE, ![r].todo = {}]
    <2>1. c.issue \in Issues
      <3>1. due \in SUBSET [issue : Issues, seen : Snapshots] /\ due # {}
        BY <1>3, <1>5
      <3> QED BY <3>1, FirstDue
    <2> SUFFICES ASSUME NEW i \in Issues, NEW v, NEW attempt, TryClaim(i, v, attempt, now),
                        root' = [root EXCEPT ![i] = RootOf(r)],
                        run' = [run EXCEPT ![r].pc = "workspace", ![r].issue = i, ![r].seen = snap'[i],
                                           ![r].foreign = FALSE, ![r].todo = {}]
                 PROVE  SInv' /\ [Next]_vars
      BY <1>5, <2>1
    <2> QED BY <1>1, Claiming
  <1>6. CASE run' = [run EXCEPT ![r].todo = @ \ {c}] /\ UNCHANGED <<tracked, root>>
    <2> DEFINE todo == run[r].todo \ {c}
    <2>1. todo \in SUBSET [issue : Issues, seen : Snapshots]
      BY <1>3
    <2>2. [run[r] EXCEPT !.todo = todo] = [run[r] EXCEPT !.pc = "claim", !.todo = todo]
      BY <1>1, <1>3 DEF Runs
    <2>3. run' = [run EXCEPT ![r] = [run[r] EXCEPT !.pc = "claim", !.todo = todo]]
      BY <1>6, <2>2
    <2> HIDE DEF todo
    <2>4. Turn(r)
      BY <1>1, <1>6, <2>1, <2>3, LooksFor DEF tracked
    <2> QED BY <1>1, <1>6, <2>4, CallKeeps
  <1> QED BY <1>2, <1>4, <1>5, <1>6

\* The workspace is found or made.
LEMMA EnsureWorkspaceKeeps ==
    ASSUME SInv, NEW r \in Runners, EnsureWorkspace(r)
    PROVE  SInv' /\ [Next]_vars
  <1> SUFFICES ASSUME NEW i, i = run[r].issue, NEW k, k = Attempt(r), NEW home, home = RootOf(r)
               PROVE  SInv' /\ [Next]_vars
    OBVIOUS
  <1>1. run[r].pc = "workspace" /\ UNCHANGED <<tracked, root, session, faults>>
    BY DEF EnsureWorkspace, At
  <1>2. snap' = snap /\ now' = now /\ root' = root /\ session' = session
        /\ moved' = moved /\ crashes' = crashes /\ errors' = errors
    BY <1>1 DEF tracked, faults
  <1>3. run[r].pc \in InHand /\ run[r].pc # "reconcile"
        /\ "abort" \in InHand \ {"reconcile", "judge", "session", "mark"}
    BY <1>1 DEF InHand, Pcs
  <1>4. i \in Issues /\ k \in Attempts /\ ~run[r].foreign /\ run[r] \in Runs
    BY <1>3, HandType, NotForeign
  <1>5. CASE Goto(r, "abort") /\ UNCHANGED place
    BY <1>1, <1>2, <1>3, <1>4, <1>5, GotoKeeps DEF craft
  <1>6. CASE place[i][k] \in {"none", home} /\ place' = [place EXCEPT ![i][k] = home] /\ Goto(r, "session")
    <2>1. home \in Roots /\ home # "none" /\ \A q \in Runners : RootOf(q)' = RootOf(q)
      BY <1>2, HomeIsRoot DEF RootOf
    <2>2. /\ place' \in [Issues -> [Attempts -> Roots \cup {"none"}]] /\ place'[i][k] = home
          /\ \A j \in Issues : \A l \in Attempts : place[j][l] # "none" => place'[j][l] = place[j][l]
      BY <1>4, <1>6, <2>1 DEF SInv, Surroundings
    <2>3. TrackerStep /\ Stays
      BY <1>2, <2>2, NothingWritten DEF Stays
    <2>4. Surroundings'
      BY <1>2, <2>2 DEF SInv, Surroundings
    <2>5. IInv' /\ Counted'
      BY <1>2 DEF SInv, IInv, Counted, TypeOK, ClaimMatchesState, WipOne, ClaimWellFormed, Claimed
    <2> DEFINE w == [run[r] EXCEPT !.pc = "session"]
    <2>6. run' = [run EXCEPT ![r] = w]
      BY <1>6 DEF Goto
    <2>7. /\ w \in Runs /\ w.pc = "session" /\ w.issue = run[r].issue /\ w.seen = run[r].seen
          /\ w.foreign = run[r].foreign /\ w.at = run[r].at /\ w.polled = run[r].polled
      BY <1>4 DEF Runs, Pcs
    <2> HIDE DEF w
    <2>8. run'[r] = w /\ run' = [q \in Runners |-> run'[q]]
          /\ \A q \in Runners : q # r => run'[q] = run[q]
      BY <2>6, TurnTo
    <2>9. Knowing(r)'
      <3>1. Knows(run[r], home) /\ Timely(run[r])
        BY DEF SInv, Knowing
      <3> QED BY <1>1, <1>2, <1>3, <2>1, <2>2, <2>7, <2>8, <3>1
            DEF Knowing, Timely, Knows, Has, Holds, Claimed, Attempt
    <2>10. Turn(r)
      BY <2>1, <2>8, <2>9 DEF Turn
    <2>11. [Next]_vars
      BY <1>2 DEF vars
    <2> QED BY <1>2, <2>3, <2>4, <2>5, <2>10, <2>11, RunnerKeeps
  <1> QED BY <1>5, <1>6 DEF EnsureWorkspace

\* A session that has been ensured is not absent.
LEMMA EnsuredSession ==
    ASSUME SInv, NEW i \in Issues, NEW k \in Attempts,
           session' = [session EXCEPT ![i][k] = Ensured(@)]
    PROVE  SessionTurns(i, k) /\ session'[i][k] = Ensured(session[i][k]) /\ session'[i][k] # NoSession
  <1>1. session[i][k] \in Sessions
    BY PlaceType
  <1>2. now \in Nat
    BY DEF SInv, IInv, TypeOK
  <1> SUFFICES ASSUME NEW s, s = Ensured(session[i][k]), session' = [session EXCEPT ![i][k] = s]
               PROVE  SessionTurns(i, k) /\ session'[i][k] = s /\ session'[i][k] # NoSession
    OBVIOUS
  <1>3. s \in Sessions /\ s # NoSession
    <2>1. CASE session[i][k] = NoSession
      <3>1. s = [status |-> "running", busy |-> TRUE, since |-> now]
        BY <2>1 DEF Ensured
      <3>2. s \in Sessions
        BY <1>2, <3>1 DEF Sessions, SessionStates
      <3>3. s.status = "running" /\ NoSession.status = "absent"
        BY <3>1 DEF NoSession
      <3> QED BY <3>2, <3>3
    <2>2. CASE session[i][k] # NoSession
      BY <1>1, <2>2 DEF Ensured
    <2> QED BY <2>1, <2>2
  <1>4. SessionTurns(i, k) /\ session'[i][k] = s
    BY <1>3 DEF SInv, Surroundings, SessionTurns
  <1> QED BY <1>3, <1>4

\* The session is found or created.
LEMMA EnsureSessionKeeps ==
    ASSUME SInv, NEW r \in Runners, EnsureSession(r)
    PROVE  SInv' /\ [Next]_vars
  <1> SUFFICES ASSUME NEW i, i = run[r].issue, NEW k, k = Attempt(r), NEW home, home = RootOf(r)
               PROVE  SInv' /\ [Next]_vars
    OBVIOUS
  <1>1. run[r].pc = "session" /\ UNCHANGED <<tracked, root, place, faults>>
    BY DEF EnsureSession, At
  <1>2. snap' = snap /\ now' = now /\ root' = root /\ place' = place
        /\ moved' = moved /\ crashes' = crashes /\ errors' = errors
    BY <1>1 DEF tracked, faults
  <1>3. run[r].pc \in InHand /\ run[r].pc # "reconcile"
    BY <1>1 DEF InHand, Pcs
  <1>4. i \in Issues /\ k \in Attempts /\ ~run[r].foreign /\ run[r] \in Runs
    BY <1>3, HandType, NotForeign
  <1>5. session' = [session EXCEPT ![i][k] = Ensured(@)] /\ Goto(r, "mark")
    BY DEF EnsureSession
  <1>6. SessionTurns(i, k) /\ session'[i][k] # NoSession
    BY <1>4, <1>5, EnsuredSession
  <1> DEFINE w == [run[r] EXCEPT !.pc = "mark"]
  <1>7. run' = [run EXCEPT ![r] = w]
    BY <1>5 DEF Goto
  <1>8. /\ w \in Runs /\ w.pc = "mark" /\ w.issue = run[r].issue /\ w.seen = run[r].seen
        /\ w.foreign = run[r].foreign /\ w.at = run[r].at /\ w.polled = run[r].polled
    BY <1>4 DEF Runs, Pcs
  <1> HIDE DEF w
  <1>9. run'[r] = w /\ run' = [q \in Runners |-> run'[q]]
        /\ \A q \in Runners : q # r => run'[q] = run[q]
    BY <1>7, TurnTo
  <1>10. \A q \in Runners : RootOf(q)' = RootOf(q)
    BY <1>2 DEF RootOf
  <1>11. Knowing(r)'
    <2>1. Knows(run[r], home) /\ Timely(run[r])
      BY DEF SInv, Knowing
    <2> QED BY <1>1, <1>2, <1>3, <1>6, <1>8, <1>9, <1>10, <2>1
          DEF Knowing, Timely, Knows, Has, Holds, Claimed, Attempt
  <1>12. Turn(r)
    BY <1>9, <1>10, <1>11 DEF Turn
  <1>13. errors' \in 0..MaxErrors
    BY <1>2 DEF SInv, Surroundings
  <1> QED BY <1>1, <1>2, <1>4, <1>6, <1>12, <1>13, SessionKeeps

\* An ensure fails.
LEMMA EnsureThrowsKeeps ==
    ASSUME SInv, NEW r \in Runners, EnsureThrows(r)
    PROVE  SInv' /\ [Next]_vars
  <1> SUFFICES ASSUME NEW i, i = run[r].issue, NEW k, k = Attempt(r)
               PROVE  SInv' /\ [Next]_vars
    OBVIOUS
  <1>1. run[r].pc \in {"workspace", "session"} /\ errors > 0 /\ errors' = errors - 1
        /\ Goto(r, "abort") /\ UNCHANGED <<tracked, root, place, moved, crashes>>
    BY DEF EnsureThrows
  <1>2. run[r].pc \in InHand /\ run[r].pc # "reconcile"
        /\ "abort" \in InHand \ {"reconcile", "judge", "session", "mark"}
    BY <1>1 DEF InHand, Pcs
  <1>3. i \in Issues /\ k \in Attempts /\ ~run[r].foreign
    BY <1>2, HandType, NotForeign
  <1>4. errors' \in 0..MaxErrors
    <2>1. errors \in 0..MaxErrors /\ MaxErrors \in Nat
      BY SchedulerAssumption DEF SInv, Surroundings
    <2> QED BY <1>1, <2>1
  <1>5. Turn(r)
    BY <1>1, <1>2, <1>3, GoesTo
  <1>6. UNCHANGED session \/ SessionTurns(i, k)
    <2>1. UNCHANGED session \/ session' = [session EXCEPT ![i][k] = Ensured(@)]
      BY DEF EnsureThrows
    <2> QED BY <1>3, <2>1, EnsuredSession
  <1> QED BY <1>1, <1>3, <1>4, <1>5, <1>6, SessionKeeps

\* The issue is marked running.
LEMMA MarkKeeps ==
    ASSUME SInv, NEW r \in Runners, Mark(r)
    PROVE  SInv' /\ [Next]_vars
  <1> SUFFICES ASSUME NEW i, i = run[r].issue, NEW f, f = Fence(r)
               PROVE  SInv' /\ [Next]_vars
    OBVIOUS
  <1>1. run[r].pc = "mark" /\ UNCHANGED <<root, craft, faults>>
    BY DEF Mark, At
  <1>2. run[r].pc \in InHand /\ run[r].pc # "reconcile"
        /\ "abort" \in InHand \ {"reconcile", "judge", "session", "mark"}
    BY <1>1 DEF InHand, Pcs
  <1>3. i \in Issues /\ Attempt(r) \in Attempts /\ ~run[r].foreign
    BY <1>2, HandType, NotForeign
  <1>4. CASE Goto(r, "abort") /\ UNCHANGED tracked
    BY <1>1, <1>2, <1>3, <1>4, GotoKeeps
  <1>5. CASE MarkRunning(i, f, now) /\ Goto(r, "dispatch")
    <2>1. now \in 0..now
      BY DEF SInv, IInv, TypeOK
    <2>2. Next /\ IInv' /\ Counted' /\ Keeps(i) /\ snap'[i].state = "running"
      BY <1>3, <1>5, <2>1, MarkCall DEF SInv
    <2>3. Has(run[r])
      BY <1>5 DEF MarkRunning, Has, Fence
    <2>4. snap[i].claim.attempt = Attempt(r) /\ root[i] = RootOf(r)
      BY <1>2, <2>3, NotForeign
    <2>5. place[i][Attempt(r)] = RootOf(r) /\ session[i][Attempt(r)] # NoSession
      BY <1>1, <1>2, HandType DEF Knows, Attempt
    <2>6. AtWork(i)
      BY <2>2, <2>4, <2>5 DEF AtWork, Keeps
    <2>7. TrackerStep /\ now' = now
      BY <1>3, <2>2, <2>6, OneWritten DEF Keeps, Wrote
    <2>8. Turn(r)
      BY <1>1, <1>5, <2>7, Leaves DEF faults
    <2> QED BY <1>1, <2>2, <2>7, <2>8, CallKeeps
  <1> QED BY <1>4, <1>5 DEF Mark

\* The process dies.
LEMMA CrashKeeps ==
    ASSUME SInv, NEW r \in Runners, Crash(r)
    PROVE  SInv' /\ [Next]_vars
  <1>1. /\ crashes > 0 /\ crashes' = crashes - 1 /\ run' = [run EXCEPT ![r] = Idle(now - 1)]
        /\ moved' \in {moved, moved \cup ({r} \cap Moved)} /\ UNCHANGED <<tracked, root, craft, errors>>
    BY DEF Crash
  <1>2. snap' = snap /\ now' = now /\ root' = root /\ place' = place /\ session' = session /\ errors' = errors
    BY <1>1 DEF tracked, craft
  <1>3. now \in Nat
    BY DEF SInv, IInv, TypeOK
  <1> DEFINE w == Idle(now - 1)
  <1>4. w \in Runs /\ w.pc = "idle" /\ w.at = 0 /\ w.polled = now - 1
    BY <1>3, IdleType
  <1>5. run' = [run EXCEPT ![r] = w]
    BY <1>1
  <1> HIDE DEF w
  <1>6. run'[r] = w /\ run' = [q \in Runners |-> run'[q]]
        /\ \A q \in Runners : q # r => run'[q] = run[q]
    BY <1>5, TurnTo
  <1>7. Knowing(r)'
    BY <1>2, <1>3, <1>4, <1>6 DEF Knowing, Timely, Knows, InHand
  <1>8. \A q \in Runners : q # r => RootOf(q)' = RootOf(q)
    BY <1>1 DEF RootOf
  <1>9. Turn(r)
    BY <1>6, <1>7, <1>8 DEF Turn
  <1>10. Surroundings'
    <2>1. crashes \in 0..MaxCrashes /\ MaxCrashes \in Nat /\ moved \subseteq Moved
      BY SchedulerAssumption DEF SInv, Surroundings
    <2>2. crashes' \in 0..MaxCrashes /\ moved' \subseteq Moved
      BY <1>1, <2>1
    <2> QED BY <1>2, <2>2 DEF SInv, Surroundings
  <1>11. IInv' /\ Counted' /\ TrackerStep /\ Stays
    BY <1>2, NothingWritten
       DEF SInv, IInv, Counted, TypeOK, ClaimMatchesState, WipOne, ClaimWellFormed, Claimed, Stays
  <1>12. [Next]_vars
    BY <1>2 DEF vars
  <1> QED BY <1>2, <1>9, <1>10, <1>11, <1>12, RunnerKeeps

-----------------------------------------------------------------------------
(* Agents, the operator, the clock                                           *)

\* What comes of a turn.
LEMMA AgentEnds ==
    ASSUME SInv, NEW i \in Issues, NEW k \in Attempts, Agent(i, k)
    PROVE  /\ SessionTurns(i, k) /\ session[i][k].status = "running"
           /\ session'[i][k].status \in {"settled", "deadline", "ended-without-response", "failed"}
           /\ session'[i][k].since = session[i][k].since
           /\ ErrorsStop => ~session'[i][k].busy
  <1>1. session[i][k] \in Sessions /\ session[i][k].status = "running"
    BY PlaceType DEF Agent
  <1>2. ASSUME NEW status \in {"settled", "deadline", "ended-without-response", "failed"},
               NEW busy \in BOOLEAN, ErrorsStop => ~busy,
               session' = [session EXCEPT ![i][k] = [@ EXCEPT !.status = status, !.busy = busy]]
        PROVE  /\ SessionTurns(i, k) /\ session'[i][k].status = status
               /\ session'[i][k].since = session[i][k].since
               /\ ErrorsStop => ~session'[i][k].busy
    <2> SUFFICES ASSUME NEW e, e = [session[i][k] EXCEPT !.status = status, !.busy = busy],
                        session' = [session EXCEPT ![i][k] = e]
                 PROVE  /\ SessionTurns(i, k) /\ session'[i][k].status = status
                        /\ session'[i][k].since = session[i][k].since
                        /\ ErrorsStop => ~session'[i][k].busy
      BY <1>2
    <2>1. status \in SessionStates \ {"absent"}
      BY DEF SessionStates
    <2>2. e \in Sessions /\ e # NoSession /\ e.status = status /\ e.since = session[i][k].since
          /\ (e.busy <=> busy)
      <3> SUFFICES ASSUME NEW z \in Sessions, z = session[i][k],
                          e = [z EXCEPT !.status = status, !.busy = busy]
                   PROVE  e \in Sessions /\ e # NoSession /\ e.status = status /\ e.since = z.since
                          /\ (e.busy <=> busy)
        BY <1>1
      <3>1. e.status = status /\ e.since = z.since /\ (e.busy <=> busy)
        BY DEF Sessions
      <3>2. e \in Sessions
        BY <2>1 DEF Sessions
      <3>3. e # NoSession
        <4>1. NoSession.status = "absent"
          BY DEF NoSession
        <4> QED BY <2>1, <3>1, <4>1
      <3> QED BY <3>1, <3>2, <3>3
    <2>3. SessionTurns(i, k) /\ session'[i][k] = e
      BY <2>2 DEF SInv, Surroundings, SessionTurns
    <2> QED BY <1>2, <2>2, <2>3
  <1>3. ErrorsStop \in BOOLEAN
    BY SchedulerAssumption
  <1> DEFINE Ends(status, busy) ==
               session' = [session EXCEPT ![i][k] = [@ EXCEPT !.status = status, !.busy = busy]]
  <1>4. \/ Ends("settled", FALSE) \/ Ends("deadline", FALSE)
        \/ Ends("ended-without-response", FALSE) \/ Ends("failed", ~ErrorsStop)
    BY DEF Agent
  <1> HIDE DEF Ends
  <1>5. ASSUME Ends("settled", FALSE) PROVE SessionTurns(i, k) /\ session'[i][k].status = "settled"
        /\ session'[i][k].since = session[i][k].since /\ (ErrorsStop => ~session'[i][k].busy)
    BY <1>2, <1>5 DEF Ends
  <1>6. ASSUME Ends("deadline", FALSE) PROVE SessionTurns(i, k) /\ session'[i][k].status = "deadline"
        /\ session'[i][k].since = session[i][k].since /\ (ErrorsStop => ~session'[i][k].busy)
    BY <1>2, <1>6 DEF Ends
  <1>7. ASSUME Ends("ended-without-response", FALSE)
        PROVE  SessionTurns(i, k) /\ session'[i][k].status = "ended-without-response"
        /\ session'[i][k].since = session[i][k].since /\ (ErrorsStop => ~session'[i][k].busy)
    BY <1>2, <1>7 DEF Ends
  <1>8. ASSUME Ends("failed", ~ErrorsStop) PROVE SessionTurns(i, k) /\ session'[i][k].status = "failed"
        /\ session'[i][k].since = session[i][k].since /\ (ErrorsStop => ~session'[i][k].busy)
    <2>1. CASE ErrorsStop
      <3>1. Ends("failed", FALSE)
        BY <1>3, <1>8, <2>1, Zenon
      <3> QED BY <1>2, <3>1 DEF Ends
    <2>2. CASE ~ErrorsStop
      <3>1. Ends("failed", TRUE)
        BY <1>3, <1>8, <2>2, Zenon
      <3> QED BY <1>2, <2>2, <3>1 DEF Ends
    <2> QED BY <2>1, <2>2
  <1> QED BY <1>1, <1>4, <1>5, <1>6, <1>7, <1>8

\* Runners who rest know what they knew.
LEMMA WorldKeeps ==
    ASSUME SInv, IInv', Counted', TrackerStep, Stays, Surroundings', now <= now', run' = run, moved' = moved
    PROVE  SInv'
  <1>1. run' = [q \in Runners |-> run'[q]]
    BY DEF SInv
  <1>2. \A q \in Runners : run'[q] = run[q] /\ RootOf(q)' = RootOf(q)
    BY DEF RootOf
  <1> QED BY <1>1, <1>2, StepKeeps

\* The end of a turn leaves the session there.
LEMMA AgentKeeps ==
    ASSUME SInv, NEW i \in Issues, NEW k \in Attempts, Agent(i, k)
    PROVE  SInv' /\ [Next]_vars
  <1>1. UNCHANGED <<tracked, root, place, run, faults>> /\ SessionTurns(i, k)
    BY AgentEnds DEF Agent
  <1>2. /\ snap' = snap /\ now' = now /\ root' = root /\ place' = place /\ run' = run
        /\ moved' = moved /\ crashes' = crashes /\ errors' = errors
    BY <1>1 DEF tracked, faults
  <1>3. IInv' /\ Counted' /\ now <= now'
    BY <1>2 DEF SInv, IInv, Counted, TypeOK, ClaimMatchesState, WipOne, ClaimWellFormed, Claimed
  <1>4. TrackerStep /\ Stays
    BY <1>1, <1>2, NothingWritten DEF Stays, SessionTurns
  <1>5. Surroundings'
    BY <1>1, <1>2 DEF SInv, Surroundings, SessionTurns
  <1> QED BY <1>2, <1>3, <1>4, <1>5, WorldKeeps DEF vars

\* A hand-off ends a claim or keeps it, and starts nothing.
LEMMA HandoffKeeps ==
    ASSUME SInv, NEW i \in Issues, NEW to \in Handoffs, Handoff(i, to)
    PROVE  SInv' /\ [Next]_vars
  <1>1. Transition(i, to, snap[i].claim.fence, Asked(to)) /\ UNCHANGED <<root, craft, run, faults>>
    BY DEF Handoff
  <1>2. to \in Targets /\ to # "running"
    BY SchedulerAssumption DEF Targets
  <1>3. /\ root' = root /\ place' = place /\ session' = session /\ run' = run
        /\ moved' = moved /\ crashes' = crashes /\ errors' = errors
    BY <1>1 DEF craft, faults
  <1> SUFFICES ASSUME NEW f, NEW given \in {{}, Asked(to)}, Transition(i, to, f, given)
               PROVE  SInv' /\ [Next]_vars
    BY <1>1
  <1>4. /\ Next /\ IInv' /\ Counted' /\ snap'[i].state = to
        /\ Unheld(i) \/ Keeps(i)
    BY <1>2, TransitionCall DEF SInv
  <1>5. TrackerStep /\ now' = now
    BY <1>2, <1>4, OneWritten DEF Unheld, Keeps, Wrote
  <1>6. Stays /\ Surroundings' /\ now <= now'
    BY <1>3, <1>5 DEF SInv, Surroundings, Stays, IInv, TypeOK
  <1> QED BY <1>3, <1>4, <1>5, <1>6, WorldKeeps

\* What was read before now was read before later.
LEMMA ClockKeeps ==
    ASSUME SInv, Clock
    PROVE  SInv' /\ [Next]_vars
  <1>1. now < MaxTime /\ now' = now + 1 /\ UNCHANGED <<snap, root, craft, run, faults>>
    BY DEF Clock
  <1>2. /\ snap' = snap /\ root' = root /\ place' = place /\ session' = session /\ run' = run
        /\ moved' = moved /\ crashes' = crashes /\ errors' = errors
    BY <1>1 DEF craft, faults
  <1>3. IInv' /\ Counted' /\ now <= now'
    BY <1>1, <1>2 DEF SInv, IInv, Counted, TypeOK, ClaimMatchesState, WipOne, ClaimWellFormed, Claimed
  <1>4. TrackerStep /\ Stays /\ Surroundings'
    BY <1>2, NothingWritten DEF Stays, SInv, Surroundings
  <1>5. Next
    BY <1>1 DEF Next, Tick
  <1> QED BY <1>2, <1>3, <1>4, <1>5, WorldKeeps

\* At first, nobody has anything in hand.
LEMMA SchedulerStarts ==
    ASSUME SchedulerInit
    PROVE  SInv
  <1>1. IInv
    BY InitEstablishes DEF SchedulerInit
  <1>2. Counted
    BY DEF SchedulerInit, Init, Seeded, Counted, Claimed
  <1>3. NoSession \in Sessions
    BY DEF NoSession, Sessions, SessionStates
  <1>4. Surroundings
    BY <1>3, SchedulerAssumption DEF SchedulerInit, Surroundings, Roots
  <1>5. WorksWhereClaimed
    BY DEF SchedulerInit, Init, Seeded, WorksWhereClaimed
  <1>6. now = 0
    BY DEF SchedulerInit, Init
  <1>7. \A r \in Runners : Knowing(r)
    <2> SUFFICES ASSUME NEW r \in Runners, NEW w, w = Idle(-1) PROVE Knowing(r)
      OBVIOUS
    <2>1. w \in Runs /\ w.pc = "idle" /\ w.at = 0 /\ w.polled = -1
      BY IdleType
    <2>2. run[r] = w
      BY DEF SchedulerInit
    <2> QED BY <1>6, <2>1, <2>2 DEF Knowing, Timely, Knows, InHand
  <1>8. run = [r \in Runners |-> run[r]]
    BY DEF SchedulerInit
  <1> QED BY <1>1, <1>2, <1>4, <1>5, <1>7, <1>8 DEF SInv

\* Every step keeps the invariant and is one that the tracker allows its clients.
LEMMA SchedulerSteps == SInv /\ [SchedulerNext]_allVars => SInv' /\ [Next]_vars
  <1> SUFFICES ASSUME SInv, [SchedulerNext]_allVars PROVE SInv' /\ [Next]_vars
    OBVIOUS
  <1>1. ASSUME NEW r \in Runners, Step(r) PROVE SInv' /\ [Next]_vars
    <2>1. ASSUME Poll(r) PROVE [Next]_vars
      BY <2>1 DEF Poll, tracked, vars
    <2> QED BY <1>1, <2>1, PollKeeps, ReconcileKeeps, ResumeKeeps, JudgeKeeps, CancelKeeps, StoppedKeeps,
               DispatchKeeps, ClaimKeeps, EnsureWorkspaceKeeps, EnsureSessionKeeps, MarkKeeps, AbortKeeps
            DEF Step
  <1>2. ASSUME NEW r \in Runners, EnsureThrows(r) \/ Crash(r) PROVE SInv' /\ [Next]_vars
    BY <1>2, EnsureThrowsKeeps, CrashKeeps
  <1>3. ASSUME NEW i \in Issues, NEW k \in Attempts, Agent(i, k) PROVE SInv' /\ [Next]_vars
    BY <1>3, AgentKeeps
  <1>4. ASSUME NEW i \in Issues, NEW to \in Handoffs, Handoff(i, to) PROVE SInv' /\ [Next]_vars
    BY <1>4, HandoffKeeps
  <1>5. CASE Clock
    BY <1>5, ClockKeeps
  <1>6. CASE UNCHANGED allVars
    <2>1. /\ snap' = snap /\ now' = now /\ root' = root /\ place' = place /\ session' = session /\ run' = run
          /\ moved' = moved /\ crashes' = crashes /\ errors' = errors
      BY <1>6 DEF allVars, tracked, craft, faults
    <2>2. IInv' /\ Counted' /\ now <= now'
      BY <2>1 DEF SInv, IInv, Counted, TypeOK, ClaimMatchesState, WipOne, ClaimWellFormed, Claimed
    <2>3. TrackerStep /\ Stays /\ Surroundings'
      BY <2>1, NothingWritten DEF Stays, SInv, Surroundings
    <2> QED BY <2>1, <2>2, <2>3, WorldKeeps DEF vars
  <1> QED BY <1>1, <1>2, <1>3, <1>4, <1>5, <1>6 DEF SchedulerNext

\* What the scheduler is shown to keep, for any runners, crashes, failures and hand-offs.
THEOREM SchedulerInvariant == SchedulerSpec => []SInv
  <1>1. SInv /\ [SchedulerNext]_allVars => SInv'
    BY SchedulerSteps
  <1> QED BY <1>1, SchedulerStarts, PTL DEF SchedulerSpec

\* The scheduler, its operator and its crashes are clients of the tracker like any other:
\* what is proved of FakeTracker holds under it.
THEOREM SchedulerIsClient == SchedulerSpec => Spec
  <1>1. SInv /\ [SchedulerNext]_allVars => [Next]_vars
    BY SchedulerSteps
  <1>2. SchedulerInit => Init
    BY DEF SchedulerInit
  <1> QED BY <1>1, <1>2, SchedulerInvariant, PTL DEF SchedulerSpec, Spec

\* The runners, what they have in hand, and sessions keep their shapes.
THEOREM SchedulerTyped == SchedulerSpec => []SchedulerTypeOK
  <1>1. SInv => SchedulerTypeOK
    <2> SUFFICES ASSUME SInv PROVE SchedulerTypeOK
      OBVIOUS
    <2>1. \A r \in Runners : run[r] \in Runs
      BY DEF SInv, Knowing
    <2>2. run \in [Runners -> Runs]
      BY <2>1 DEF SInv
    <2> QED BY <2>2 DEF SInv, IInv, Surroundings, SchedulerTypeOK
  <1> QED BY <1>1, SchedulerInvariant, PTL

\* A running issue has its session and workspace where its claim says, whatever runner
\* claimed it, resumed it, or died over it.
THEOREM RunningIssuesInPlace == SchedulerSpec => []WorksWhereClaimed
  <1>1. SInv => WorksWhereClaimed
    BY DEF SInv
  <1> QED BY <1>1, SchedulerInvariant, PTL

-----------------------------------------------------------------------------
(* BoundedRun, for runners that all poll in every unit of the clock.  A      *)
(* claim that has not begun to run is somebody's business within the unit    *)
(* it was made in; and before the clock moves, somebody has looked at every  *)
(* running one, and left it either within its turn or with a fresh beat.     *)

Starts == {"resume", "workspace", "session", "mark", "abort"}
Judges == {"judge", "cancel", "stopped"}

\* A tick is over before the clock moves.
Punctual(q) == q.pc # "idle" => q.at = now /\ q.polled = now

\* As long as the claim that was read stands, it has only gone forward since; a turn that was
\* found going on is within its limit.
Behind(q) ==
    q.pc \in InHand /\ Has(q) =>
        /\ q.seen.claim.beat <= snap[q.issue].claim.beat
        /\ q.seen.state # "claimed" => snap[q.issue].state # "claimed"
        /\ q.seen.state \notin {"claimed", "running"} =>
             snap[q.issue].state \notin {"claimed", "running"}
        /\ q.pc \in Judges => q.seen.state = "running"
        /\ q.pc = "judge" /\ q.status = "running" =>
             LET s == session[q.issue][q.seen.claim.attempt] IN
             s # NoSession /\ now < s.since + TurnLimit

\* A runner that is about to look, or has a claim in hand that does not run yet,
Starting(q, i) ==
    \/ q.polled < now
    \/ q.issue = i /\ Has(q) /\ q.pc \in Starts \cup {"reconcile"}

\* or one that runs.
Watching(q, i) ==
    \/ q.polled < now
    \/ q.issue = i /\ Has(q) /\ q.pc \in Judges \cup {"reconcile"} /\ q.seen.state = "running"

Since(i) == session[i][snap[i].claim.attempt].since
\* The run need not be ended in this unit of time.
Good(i) == now < Since(i) + TurnLimit \/ now - snap[i].claim.beat < StaleRun

Begun ==
    \A i \in Issues : snap[i].state = "claimed" =>
        snap[i].claim.claimedAt = now /\ \E r \in Runners : Starting(run[r], i)

Watched ==
    \A i \in Issues : snap[i].state = "running" =>
        /\ Since(i) <= snap[i].claim.claimedAt
        /\ snap[i].claim.beat <= snap[i].claim.claimedAt + TurnLimit
        /\ Good(i) \/ \E r \in Runners : Watching(run[r], i)

BInv ==
    /\ \A r \in Runners : Punctual(run[r]) /\ Behind(run[r])
    /\ \A i \in Issues : snap[i].claim.beat <= now /\ \A k \in Attempts : session[i][k].since <= now
    /\ Begun /\ Watched /\ BoundedRun

\* What a step other than the clock's may do to an issue: a claim goes forward, and is renewed
\* within its turn only.
Forth(i) ==
    \/ snap'[i] = snap[i] \/ Unheld(i)
    \/ Grants(i) /\ snap'[i].claim.beat = now
    \/ /\ Keeps(i) /\ snap'[i].claim.beat \in {snap[i].claim.beat, now}
       /\ \/ /\ snap'[i].state = snap[i].state
             /\ snap[i].state = "running" /\ snap'[i].claim.beat # snap[i].claim.beat =>
                  now < Since(i) + TurnLimit
          \/ snap[i].state = "claimed" /\ snap'[i].state = "running" /\ snap'[i].claim.beat = now
          \/ snap'[i].state \notin {"claimed", "running"}

\* and to a session: it keeps the time of its prompt.
SinceStays ==
    \A i \in Issues : \A k \in Attempts :
        /\ session[i][k] # NoSession => session'[i][k] # NoSession /\ session'[i][k].since = session[i][k].since
        /\ session'[i][k].since <= now

\* A runner that has taken a step has handed over what it had to do.
HandsOver(r, i) ==
    /\ Starting(run[r], i) /\ snap[i].state = "claimed" /\ snap'[i].state = "claimed" =>
         Starting(run[r], i)'
    /\ Watching(run[r], i) /\ snap[i].state = "running" /\ snap'[i].state = "running" =>
         Good(i)' \/ Watching(run[r], i)'

\* A claim in hand that stands stood before.
LEMMA HasStays ==
    ASSUME IInv, Counted, NEW q, NEW i \in Issues, q.issue = i,
           q.seen.claim.fence \in 1..(snap[i].version - 1),
           snap'[i] = snap[i] \/ Unheld(i) \/ Grants(i) \/ Keeps(i), Has(q)'
    PROVE  Has(q) /\ (snap'[i] = snap[i] \/ Keeps(i)) /\ ~Unheld(i) /\ ~Grants(i)
  <1> DEFINE f == q.seen.claim.fence
  <1>1. snap[i].version \in Nat
    BY SnapshotType DEF IInv
  <1>2. CASE snap'[i] = snap[i]
    <2>1. ~Grants(i) /\ ~Unheld(i)
      BY <1>1, <1>2 DEF Grants, Unheld, Wrote
    <2> QED BY <1>2, <2>1 DEF Has, Holds, Claimed
  <1>3. CASE Unheld(i)
    BY <1>3 DEF Unheld, Has, Holds, Claimed
  <1>4. CASE Grants(i)
    <2>1. f # snap[i].version
      BY <1>1
    <2> QED BY <1>4, <2>1 DEF Grants, Has, Holds, Claimed
  <1>5. CASE Keeps(i)
    <2>1. ~Grants(i)
      BY <1>5 DEF Keeps, Grants, ActiveClaims
    <2>2. ~Unheld(i)
      BY <1>5 DEF Keeps, Unheld
    <2> QED BY <1>5, <2>1, <2>2 DEF Keeps, Has, Holds, Claimed
  <1> QED BY <1>2, <1>3, <1>4, <1>5

\* A runner that rests stays behind.
LEMMA BehindStays ==
    ASSUME SInv, IInv', BInv, \A i \in Issues : Forth(i), SinceStays, now' = now, NEW q \in Runs, NEW home,
           Knows(q, home), Behind(q)
    PROVE  Behind(q)'
  <1> SUFFICES ASSUME NEW i, i = q.issue, NEW k, k = q.seen.claim.attempt, q.pc \in InHand, Has(q)'
               PROVE  /\ q.seen.claim.beat <= snap'[i].claim.beat
                      /\ q.seen.state # "claimed" => snap'[i].state # "claimed"
                      /\ q.seen.state \notin {"claimed", "running"} =>
                           snap'[i].state \notin {"claimed", "running"}
                      /\ q.pc \in Judges => q.seen.state = "running"
                      /\ q.pc = "judge" /\ q.status = "running" =>
                           session'[i][k] # NoSession /\ now < session'[i][k].since + TurnLimit
    BY DEF Behind
  <1>1. i \in Issues /\ k \in Attempts /\ q.seen.claim.fence \in 1..(snap[i].version - 1)
    BY DEF Runs, Knows
  <1>2. Forth(i)
    BY <1>1
  <1>3. Has(q) /\ (snap'[i] = snap[i] \/ Keeps(i)) /\ ~Unheld(i) /\ ~Grants(i)
    <2>1. snap'[i] = snap[i] \/ Unheld(i) \/ Grants(i) \/ Keeps(i)
      BY <1>2 DEF Forth
    <2> QED BY <1>1, <2>1, HasStays DEF SInv
  <1>4. /\ q.seen.claim.beat <= snap[i].claim.beat
        /\ q.seen.state # "claimed" => snap[i].state # "claimed"
        /\ q.seen.state \notin {"claimed", "running"} => snap[i].state \notin {"claimed", "running"}
        /\ q.pc \in Judges => q.seen.state = "running"
        /\ q.pc = "judge" /\ q.status = "running" =>
             session[i][k] # NoSession /\ now < session[i][k].since + TurnLimit
    BY <1>3 DEF Behind
  <1>5. snap[i].claim.beat <= snap'[i].claim.beat
    <2>1. snap[i].claim.beat \in Nat /\ now \in Nat /\ snap[i].claim.beat <= now
      BY <1>1, SnapshotType DEF SInv, IInv, TypeOK, BInv
    <2>2. snap'[i].claim.beat \in {snap[i].claim.beat, now}
      BY <1>2, <1>3 DEF Forth
    <2> QED BY <2>1, <2>2
  <1>6. /\ snap[i].state # "claimed" => snap'[i].state # "claimed"
        /\ snap[i].state \notin {"claimed", "running"} => snap'[i].state \notin {"claimed", "running"}
    BY <1>2, <1>3 DEF Forth
  <1>7. q.seen.claim.beat \in Nat /\ snap[i].claim.beat \in Nat
    BY <1>1, SnapshotType DEF SInv, IInv, Runs, Snapshots, Claims
  <1>8. q.seen.claim.beat <= snap'[i].claim.beat
    <2>1. snap'[i].claim.beat \in Nat
      <3>1. snap'[i] \in Snapshots
        BY <1>1 DEF IInv, TypeOK
      <3> QED BY <3>1 DEF Snapshots, Claims
    <2> QED BY <1>3, <1>4, <1>5, <1>7, <2>1
  <1>9. q.pc = "judge" /\ q.status = "running" =>
           session'[i][k] # NoSession /\ now < session'[i][k].since + TurnLimit
    BY <1>1, <1>4 DEF SinceStays
  <1> QED BY <1>4, <1>6, <1>8, <1>9

\* What became of a claim: it was made in this step, or it is the one that was there.
LEMMA ClaimStays ==
    ASSUME SInv, IInv', NEW i \in Issues, Forth(i), snap'[i].state \in {"claimed", "running"}
    PROVE  \/ Grants(i)
           \/ /\ ~Grants(i) /\ snap[i].state \in {"claimed", "running"}
              /\ snap'[i].claim.attempt = snap[i].claim.attempt
              /\ snap'[i].claim.claimedAt = snap[i].claim.claimedAt
              /\ snap'[i].claim.fence = snap[i].claim.fence /\ Claimed(i) /\ Claimed(i)'
              /\ snap'[i].claim.attempt \in Attempts
              /\ \/ /\ snap'[i].state = snap[i].state
                    /\ \/ snap'[i].claim.beat = snap[i].claim.beat
                       \/ /\ snap'[i].claim.beat = now
                          /\ snap[i].state = "running" => now < Since(i) + TurnLimit
                 \/ /\ snap[i].state = "claimed" /\ snap'[i].state = "running"
                    /\ snap'[i].claim.beat = now
  <1>1. Claimed(i)'
    BY DEF IInv, ClaimMatchesState, HeldStates
  <1>2. ~Unheld(i)
    BY <1>1 DEF Unheld, Claimed
  <1>3. snap[i].version \in Nat
    BY SnapshotType DEF SInv, IInv
  <1> SUFFICES ASSUME ~Grants(i)
               PROVE  /\ snap[i].state \in {"claimed", "running"}
                      /\ snap'[i].claim.attempt = snap[i].claim.attempt
                      /\ snap'[i].claim.claimedAt = snap[i].claim.claimedAt
                      /\ snap'[i].claim.fence = snap[i].claim.fence /\ Claimed(i)
                      /\ snap'[i].claim.attempt \in Attempts
                      /\ \/ /\ snap'[i].state = snap[i].state
                            /\ \/ snap'[i].claim.beat = snap[i].claim.beat
                               \/ /\ snap'[i].claim.beat = now
                                  /\ snap[i].state = "running" => now < Since(i) + TurnLimit
                         \/ /\ snap[i].state = "claimed" /\ snap'[i].state = "running"
                            /\ snap'[i].claim.beat = now
    BY <1>1
  <1>4. snap'[i].claim.attempt \in Attempts
    <2>1. snap'[i] \in Snapshots /\ snap'[i].claim.attempt # 0
      BY <1>1 DEF IInv, TypeOK, ClaimWellFormed
    <2> QED BY <2>1 DEF Snapshots, Claims, Attempts
  <1>5. CASE snap'[i] = snap[i]
    BY <1>1, <1>4, <1>5 DEF Claimed
  <1>6. CASE Keeps(i) /\ snap'[i] # snap[i]
    BY <1>1, <1>2, <1>4, <1>6 DEF Forth, Keeps
  <1> QED BY <1>2, <1>5, <1>6 DEF Forth

\* A runner that rests has what it had, of a claim that stands.
LEMMA HoldsOn ==
    ASSUME now' = now, NEW i \in Issues, NEW r \in Runners, run'[r] = run[r],
           snap'[i].claim.fence = snap[i].claim.fence, Claimed(i) /\ Claimed(i)'
    PROVE  /\ Starting(run[r], i) => Starting(run[r], i)'
           /\ Watching(run[r], i) => Watching(run[r], i)'
  BY DEF Starting, Watching, Has, Holds

\* The invariant after any step but the clock's: it is enough to look at the runner that moves.
LEMMA StepBounds ==
    ASSUME SInv, SInv', BInv, now' = now, \A i \in Issues : Forth(i), SinceStays,
           \A r \in Runners :
               \/ run'[r] = run[r]
               \/ /\ Punctual(run[r])' /\ Behind(run[r])'
                  /\ \A i \in Issues : HandsOver(r, i),
           \A i \in Issues : Grants(i) => \E r \in Runners : Starting(run[r], i)'
    PROVE  BInv'
  <1>1. ASSUME NEW r \in Runners PROVE Punctual(run[r])' /\ Behind(run[r])'
    <2> SUFFICES ASSUME NEW q, q = run[r], NEW home, home = RootOf(r), run'[r] = q
                 PROVE  Punctual(run[r])' /\ Behind(run[r])'
      BY <1>1
    <2>1. q \in Runs /\ Knows(q, home) /\ Punctual(q) /\ Behind(q)
      BY DEF SInv, Knowing, BInv
    <2>2. Behind(q)'
      BY <2>1, BehindStays DEF SInv
    <2> QED BY <2>1, <2>2 DEF Punctual, Behind, Has
  <1>2. \A i \in Issues : snap'[i].claim.beat <= now' /\ \A k \in Attempts : session'[i][k].since <= now'
    <2>1. ASSUME NEW i \in Issues PROVE snap'[i].claim.beat <= now'
      <3>1. now \in Nat /\ snap[i].claim.beat <= now /\ NoClaim.beat = 0
        BY DEF SInv, IInv, TypeOK, BInv, NoClaim
      <3>2. snap'[i].claim.beat \in {snap[i].claim.beat, now, 0}
        BY <2>1, <3>1 DEF Forth, Unheld
      <3> QED BY <3>1, <3>2
    <2> QED BY <2>1 DEF SinceStays
  <1>3. ASSUME NEW i \in Issues, snap'[i].state \in {"claimed", "running"}, Grants(i)
        PROVE  snap'[i].state = "claimed" /\ snap'[i].claim.claimedAt = now'
               /\ \E r \in Runners : Starting(run[r], i)'
    BY <1>3 DEF Grants
  <1>4. ASSUME NEW i \in Issues, snap'[i].state \in {"claimed", "running"}, ~Grants(i)
        PROVE  /\ snap[i].state \in {"claimed", "running"}
               /\ snap'[i].claim.attempt = snap[i].claim.attempt
               /\ snap'[i].claim.claimedAt = snap[i].claim.claimedAt
               /\ snap'[i].claim.fence = snap[i].claim.fence /\ Claimed(i) /\ Claimed(i)'
               /\ snap'[i].claim.attempt \in Attempts
               /\ \/ /\ snap'[i].state = snap[i].state
                     /\ \/ snap'[i].claim.beat = snap[i].claim.beat
                        \/ /\ snap'[i].claim.beat = now
                           /\ snap[i].state = "running" => now < Since(i) + TurnLimit
                  \/ /\ snap[i].state = "claimed" /\ snap'[i].state = "running"
                     /\ snap'[i].claim.beat = now
    BY <1>4, ClaimStays DEF SInv
  <1>5. now \in Nat /\ StaleRun \in Nat \ {0} /\ TurnLimit \in Nat
    BY SchedulerAssumption DEF SInv, IInv, TypeOK
  <1>6. ASSUME NEW i \in Issues, snap'[i].state = "claimed"
        PROVE  snap'[i].claim.claimedAt = now' /\ \E r \in Runners : Starting(run[r], i)'
    <2>1. CASE ~Grants(i)
      <3>1. snap[i].state = "claimed"
        BY <1>4, <1>6, <2>1
      <3>2. snap[i].claim.claimedAt = now
        BY <3>1 DEF BInv, Begun
      <3>3. PICK r \in Runners : Starting(run[r], i)
        BY <3>1 DEF BInv, Begun
      <3>4. Starting(run[r], i)'
        <4>1. CASE run'[r] = run[r]
          BY <1>4, <1>6, <2>1, <3>3, <4>1, HoldsOn
        <4>2. CASE HandsOver(r, i)
          BY <1>6, <3>1, <3>3, <4>2 DEF HandsOver
        <4> QED BY <4>1, <4>2
      <3> QED BY <1>4, <1>6, <2>1, <3>2, <3>4
    <2> QED BY <1>3, <1>6, <2>1
  <1>7. ASSUME NEW i \in Issues, snap'[i].state = "running"
        PROVE  /\ Since(i)' <= snap'[i].claim.claimedAt
               /\ snap'[i].claim.beat <= snap'[i].claim.claimedAt + TurnLimit
               /\ Good(i)' \/ \E r \in Runners : Watching(run[r], i)'
               /\ now' - snap'[i].claim.claimedAt <= TurnLimit + StaleRun
    <2>1. ~Grants(i)
      BY <1>7 DEF Grants
    <2> DEFINE k == snap'[i].claim.attempt
    <2>2. /\ snap[i].claim.beat \in Nat /\ snap[i].claim.claimedAt \in Nat
          /\ snap'[i].claim.claimedAt = snap[i].claim.claimedAt /\ k \in Attempts
          /\ k = snap[i].claim.attempt
          /\ session[i][k].since \in Nat
      BY <1>4, <1>7, <2>1, SnapshotType, PlaceType DEF SInv, IInv
    <2>3. now' - snap'[i].claim.claimedAt <= TurnLimit + StaleRun
      BY <1>4, <1>7, <2>1, <2>2 DEF BInv, BoundedRun
    <2>4. session' \in [Issues -> [Attempts -> Sessions]]
      BY DEF SInv, Surroundings
    <2>5. session'[i][k].since \in Nat
      BY <2>2, <2>4 DEF Sessions
    <2>6. CASE snap'[i].claim.beat = now /\ snap[i].state = "claimed"
      <3>1. snap[i].claim.claimedAt = now
        BY <2>6 DEF BInv, Begun
      <3>2. session'[i][k].since <= now
        BY <2>2 DEF SinceStays
      <3>3. Good(i)'
        BY <1>5, <2>6 DEF Good
      <3> QED BY <1>5, <2>2, <2>3, <2>5, <2>6, <3>1, <3>2, <3>3 DEF Since
    <2>7. CASE snap[i].state = "running"
      <3>1. session[i][k] # NoSession
        BY <2>2, <2>7 DEF SInv, WorksWhereClaimed
      <3>2. session'[i][k].since = session[i][k].since
        BY <2>2, <3>1 DEF SinceStays
      <3>3. /\ session[i][k].since <= snap[i].claim.claimedAt
            /\ snap[i].claim.beat <= snap[i].claim.claimedAt + TurnLimit
            /\ Good(i) \/ \E r \in Runners : Watching(run[r], i)
        BY <2>2, <2>7 DEF BInv, Watched, Since
      <3>4. CASE snap'[i].claim.beat = snap[i].claim.beat
        <4>1. Good(i) => Good(i)'
          BY <2>2, <3>2, <3>4 DEF Good, Since
        <4>2. ASSUME NEW r \in Runners, Watching(run[r], i)
              PROVE  Good(i)' \/ Watching(run[r], i)'
          <5>1. CASE run'[r] = run[r]
            BY <1>4, <1>7, <2>1, <4>2, <5>1, HoldsOn
          <5>2. CASE HandsOver(r, i)
            BY <1>7, <2>7, <4>2, <5>2 DEF HandsOver
          <5> QED BY <5>1, <5>2
        <4> QED BY <2>2, <2>3, <3>2, <3>3, <3>4, <4>1, <4>2 DEF Since
      <3>5. CASE snap'[i].claim.beat = now /\ now < Since(i) + TurnLimit
        <4>1. now < session[i][k].since + TurnLimit
          BY <2>2, <3>5 DEF Since
        <4>2. Good(i)'
          BY <1>5, <3>5 DEF Good
        <4> QED BY <1>5, <2>2, <2>3, <3>2, <3>3, <3>5, <4>1, <4>2 DEF Since
      <3> QED BY <1>4, <1>7, <2>1, <2>7, <3>4, <3>5
    <2> QED BY <1>4, <1>7, <2>1, <2>6, <2>7
  <1>8. Begun' /\ Watched'
    BY <1>6, <1>7 DEF Begun, Watched
  <1>9. BoundedRun'
    <2>1. ASSUME NEW i \in Issues, snap'[i].state = "claimed"
          PROVE  now' - snap'[i].claim.claimedAt <= TurnLimit + StaleRun
      <3>1. snap'[i].claim.claimedAt = now' /\ now' \in Nat
        BY <1>5, <1>6, <2>1
      <3> QED BY <1>5, <3>1
    <2> QED BY <1>7, <2>1 DEF BoundedRun
  <1> QED BY <1>1, <1>2, <1>8, <1>9 DEF BInv

\* Nothing is written, or one issue goes forward.
LEMMA NothingForth ==
    ASSUME snap' = snap
    PROVE  \A i \in Issues : Forth(i)
  BY DEF Forth

\* One issue goes forward.
LEMMA OneForth ==
    ASSUME NEW i \in Issues, Wrote(i), Forth(i)
    PROVE  \A j \in Issues : Forth(j)
  <1>1. \A j \in Issues : j # i => snap'[j] = snap[j]
    BY DEF Wrote
  <1> SUFFICES ASSUME NEW j \in Issues PROVE Forth(j)
    OBVIOUS
  <1>2. CASE j = i
    BY <1>2
  <1>3. CASE j # i
    BY <1>1, <1>3 DEF Forth
  <1> QED BY <1>2, <1>3

\* Sessions that rest.
LEMMA SessionsRest ==
    ASSUME BInv, session' = session
    PROVE  SinceStays
  BY DEF BInv, SinceStays

\* A runner that leaves an issue is punctual, and has nothing in hand.
LEMMA LeavesPunctual ==
    ASSUME SInv, NEW r \in Runners, run[r].pc # "idle", Punctual(run[r]), now' = now,
           Finish(r) \/ Goto(r, "dispatch")
    PROVE  /\ Punctual(run[r])' /\ Behind(run[r])' /\ run'[r].polled = now
           /\ \A q \in Runners : q # r => run'[q] = run[q]
  <1>1. run[r] \in Runs /\ run[r].at = now /\ run[r].polled = now /\ now \in Int
    BY DEF SInv, Knowing, Punctual, IInv, TypeOK
  <1>2. CASE Finish(r)
    <2>1. run' = [run EXCEPT ![r] = Idle(run[r].polled)]
      BY <1>2 DEF Finish
    <2>2. run'[r] = Idle(run[r].polled) /\ \A q \in Runners : q # r => run'[q] = run[q]
      BY <2>1, TurnTo
    <2>3. run'[r].pc = "idle" /\ run'[r].polled = now
      BY <1>1, <2>2, IdleType
    <2> QED BY <2>2, <2>3 DEF Punctual, Behind, InHand
  <1>3. CASE Goto(r, "dispatch")
    <2> DEFINE v == [run[r] EXCEPT !.pc = "dispatch"]
    <2>1. run' = [run EXCEPT ![r] = v]
      BY <1>3 DEF Goto
    <2>2. v.pc = "dispatch" /\ v.at = now /\ v.polled = now
      BY <1>1 DEF Runs
    <2> HIDE DEF v
    <2>3. run'[r] = v /\ \A q \in Runners : q # r => run'[q] = run[q]
      BY <2>1, TurnTo
    <2> QED BY <2>2, <2>3 DEF Punctual, Behind, InHand
  <1> QED BY <1>2, <1>3

\* What a runner within a tick has to do with an issue.
LEMMA Business ==
    ASSUME BInv, NEW r \in Runners, run[r].pc # "idle", NEW i \in Issues, now \in Nat,
           Starting(run[r], i) \/ Watching(run[r], i)
    PROVE  run[r].issue = i /\ Has(run[r]) /\ run[r].pc \in InHand /\ ~(run[r].polled < now)
  <1>1. run[r].polled = now
    BY DEF BInv, Punctual
  <1>2. ~(run[r].polled < now)
    BY <1>1
  <1> QED BY <1>2 DEF Starting, Watching, Starts, Judges, InHand, Pcs

\* A held state has exits.
LEMMA Exits ==
    ASSUME NEW i \in Issues, snap[i].state \in {"claimed", "running"}, NEW class \in FailureClasses
    PROVE  CanMove(snap[i].state, AfterFailure(i, class)) /\ CanMove(snap[i].state, "preservation-unknown")
  BY DEF CanMove, NormalTransitions, Aborts, AfterFailure, LifecycleStates

\* A call that ends the claim in hand, or is refused because the claim is over or past running.
LEMMA EndsBounds ==
    ASSUME SInv, SInv', BInv, NEW r \in Runners, run[r].pc \in InHand,
           NEW i, i = run[r].issue, session' = session, now' = now,
           \/ Unheld(i) /\ Goto(r, "dispatch")
           \/ snap' = snap /\ Finish(r) /\ ~(Holds(i, Fence(r)) /\ snap[i].state \in {"claimed", "running"})
    PROVE  BInv'
  <1>1. i \in Issues /\ run[r].pc # "idle" /\ Punctual(run[r]) /\ now \in Nat
    BY HandType DEF BInv, InHand
  <1>2. /\ Punctual(run[r])' /\ Behind(run[r])'
        /\ \A q \in Runners : q # r => run'[q] = run[q]
    BY <1>1, LeavesPunctual
  <1>3. SinceStays
    BY SessionsRest
  <1>4. \A j \in Issues : Forth(j) /\ ~Grants(j)
    <2>1. CASE snap' = snap
      <3>1. \A j \in Issues : ~Grants(j)
        BY <2>1, SnapshotType DEF Grants, Wrote, SInv, IInv
      <3> QED BY <2>1, <3>1, NothingForth
    <2>2. CASE Unheld(i)
      <3>1. \A j \in Issues : Forth(j)
        BY <1>1, <2>2, OneForth DEF Forth, Unheld
      <3>2. \A j \in Issues : ~Grants(j)
        <4> SUFFICES ASSUME NEW j \in Issues, Grants(j) PROVE FALSE
          OBVIOUS
        <4>1. j # i
          BY <2>2 DEF Grants, Unheld
        <4>2. snap'[j] = snap[j]
          BY <2>2, <4>1 DEF Unheld, Wrote
        <4> QED BY <4>2, SnapshotType DEF Grants, Wrote, SInv, IInv
      <3> QED BY <3>1, <3>2
    <2> QED BY <2>1, <2>2
  <1>5. ASSUME NEW j \in Issues, Starting(run[r], j) \/ Watching(run[r], j),
               snap[j].state \in {"claimed", "running"}, snap'[j].state \in {"claimed", "running"}
        PROVE  FALSE
    <2>1. i = j /\ Has(run[r])
      BY <1>1, <1>5, Business
    <2>2. Claimed(j)'
      BY <1>5 DEF SInv, IInv, ClaimMatchesState, HeldStates
    <2>3. ~Unheld(i)
      BY <2>1, <2>2 DEF Unheld, Claimed
    <2>4. Holds(i, Fence(r))
      BY <2>1 DEF Has, Fence
    <2> QED BY <1>5, <2>1, <2>3, <2>4
  <1>6. \A j \in Issues : HandsOver(r, j)
    BY <1>5 DEF HandsOver
  <1> QED BY <1>2, <1>3, <1>4, <1>6, StepBounds

\* failClaim and the transition to preservation-unknown are such calls.
LEMMA FailBounds ==
    ASSUME SInv, SInv', BInv, NEW r \in Runners, run[r].pc \in InHand,
           NEW class \in FailureClasses, NEW at \in 0..now,
           Fail(r, class, at) \/ Preserve(r), UNCHANGED <<root, craft, faults>>
    PROVE  BInv'
  <1> SUFFICES ASSUME NEW i, i = run[r].issue
               PROVE  BInv'
    OBVIOUS
  <1>1. i \in Issues /\ session' = session
    BY HandType DEF craft
  <1> SUFFICES ASSUME NEW f, f = Fence(r)
               PROVE  BInv'
    OBVIOUS
  <1>2. CASE FailClaim(i, f, class, at) /\ Goto(r, "dispatch")
    <2>1. Unheld(i)
      BY <1>1, <1>2, FailCall DEF SInv
    <2>2. now' = now
      BY <2>1 DEF Unheld, Wrote
    <2> QED BY <1>1, <1>2, <2>1, <2>2, EndsBounds
  <1>3. CASE Transition(i, "preservation-unknown", f, {}) /\ Goto(r, "dispatch")
    <2> SUFFICES ASSUME NEW to, to = "preservation-unknown", Transition(i, to, f, {})
                 PROVE  BInv'
      BY <1>3
    <2>1. to \in Targets /\ to \in ReleasingStates
      BY DEF Targets, LifecycleStates, ReleasingStates, TerminalStates
    <2>2. Unheld(i)
      BY <1>1, <2>1, TransitionCall DEF SInv
    <2>3. now' = now
      BY <2>2 DEF Unheld, Wrote
    <2> QED BY <1>1, <1>3, <2>2, <2>3, EndsBounds
  <1>4. CASE /\ UNCHANGED tracked /\ Finish(r)
             /\ \/ ~(Holds(i, f) /\ CanMove(snap[i].state, AfterFailure(i, class)))
                \/ ~(Holds(i, f) /\ CanMove(snap[i].state, "preservation-unknown"))
    <2>1. ~(Holds(i, f) /\ snap[i].state \in {"claimed", "running"})
      BY <1>1, <1>4, Exits
    <2>2. snap' = snap /\ now' = now
      BY <1>4 DEF tracked
    <2> QED BY <1>1, <1>4, <2>1, <2>2, EndsBounds
  <1> QED BY <1>2, <1>3, <1>4 DEF Fail, Preserve, Call

\* A runner goes on with its issue: it keeps what it has to do, or has seen that it is done.
LEMMA GoesBounds ==
    ASSUME SInv, SInv', BInv, NEW r \in Runners, run[r].pc \in InHand,
           NEW i, i = run[r].issue, NEW k, k = Attempt(r),
           NEW pc \in InHand \cup {"dispatch"}, NEW status \in SessionStates \cup {"cancel-deadline"},
           run' = [run EXCEPT ![r] = [run[r] EXCEPT !.pc = pc, !.status = status]],
           snap' = snap, now' = now, SinceStays,
           Has(run[r]) =>
               /\ snap[i].state = "claimed" /\ run[r].pc \in Starts \cup {"reconcile"} =>
                    pc \in Starts
               /\ /\ snap[i].state = "running" /\ run[r].pc \in Judges \cup {"reconcile"}
                  /\ run[r].seen.state = "running"
                  => pc \in Judges \/ Good(i)
               /\ pc \in Judges => run[r].seen.state = "running"
               /\ pc = "judge" /\ status = "running" =>
                    session'[i][k] # NoSession /\ now < session'[i][k].since + TurnLimit
    PROVE  BInv'
  <1> SUFFICES ASSUME NEW q, q = run[r]
               PROVE  BInv'
    OBVIOUS
  <1> DEFINE v == [q EXCEPT !.pc = pc, !.status = status]
  <1>1. /\ q \in Runs /\ i \in Issues /\ q.pc # "idle" /\ Punctual(q) /\ now \in Nat /\ k = q.seen.claim.attempt
        /\ Behind(q)
    BY HandType DEF BInv, InHand, Attempt
  <1>2. /\ v.pc = pc /\ v.status = status /\ v.issue = i /\ v.seen = q.seen /\ v.at = now /\ v.polled = now
    BY <1>1 DEF Runs, Punctual
  <1>3. run' = [run EXCEPT ![r] = v]
    OBVIOUS
  <1> HIDE DEF v
  <1>4. run'[r] = v /\ \A p \in Runners : p # r => run'[p] = run[p]
    BY <1>3, TurnTo
  <1>5. Has(v)' <=> Has(q)
    BY <1>2 DEF Has, Holds, Claimed
  <1>6. Behind(v)'
    <2> SUFFICES ASSUME pc \in InHand, Has(q)
                 PROVE  Behind(v)'
      BY <1>2, <1>5 DEF Behind
    <2>1. /\ q.seen.claim.beat <= snap[i].claim.beat
          /\ q.seen.state # "claimed" => snap[i].state # "claimed"
          /\ q.seen.state \notin {"claimed", "running"} => snap[i].state \notin {"claimed", "running"}
      BY <1>1 DEF Behind
    <2> QED BY <1>1, <1>2, <2>1 DEF Behind
  <1>7. Punctual(run[r])' /\ Behind(run[r])'
    BY <1>2, <1>4, <1>6 DEF Punctual, Behind, Has
  <1>8. \A j \in Issues : Forth(j) /\ ~Grants(j)
    BY NothingForth, SnapshotType DEF Grants, Wrote, SInv, IInv
  <1>9. ASSUME NEW j \in Issues PROVE HandsOver(r, j)
    <2>1. ASSUME Starting(run[r], j), snap[j].state = "claimed" PROVE Starting(run[r], j)'
      <3>1. j = i /\ Has(q)
        BY <1>1, <2>1, Business
      <3>2. q.pc \in Starts \cup {"reconcile"}
        <4>1. ~(q.polled < now)
          BY <1>1, <2>1, Business
        <4> QED BY <2>1, <4>1 DEF Starting
      <3>3. pc \in Starts
        BY <2>1, <3>1, <3>2
      <3>4. Has(run'[r])
        BY <1>4, <1>5, <3>1 DEF Has, Holds, Claimed
      <3> QED BY <1>2, <1>4, <1>5, <3>1, <3>3 DEF Starting, Has
    <2>2. ASSUME Watching(run[r], j), snap[j].state = "running" PROVE Good(j)' \/ Watching(run[r], j)'
      <3>1. j = i /\ Has(q)
        BY <1>1, <2>2, Business
      <3>2. q.pc \in Judges \cup {"reconcile"} /\ q.seen.state = "running"
        <4>1. ~(q.polled < now)
          BY <1>1, <2>2, Business
        <4> QED BY <2>2, <4>1 DEF Watching
      <3>3. CASE pc \in Judges
        BY <1>2, <1>4, <1>5, <3>1, <3>2, <3>3 DEF Watching, Has
      <3>4. CASE Good(i)
        <4>1. snap[i].claim.attempt \in Attempts
          <5>1. Claimed(i)
            BY <2>2, <3>1 DEF SInv, IInv, ClaimMatchesState, HeldStates
          <5> QED BY <1>1, <5>1, SnapshotType DEF SInv, IInv, ClaimWellFormed, Attempts
        <4>2. session[i][snap[i].claim.attempt] # NoSession
          BY <1>1, <2>2, <3>1 DEF SInv, WorksWhereClaimed
        <4>3. session'[i][snap[i].claim.attempt].since = session[i][snap[i].claim.attempt].since
          BY <1>1, <4>1, <4>2 DEF SinceStays
        <4> QED BY <3>1, <3>4, <4>3 DEF Good, Since
      <3> QED BY <2>2, <3>1, <3>2, <3>3, <3>4
    <2> QED BY <2>1, <2>2 DEF HandsOver
  <1> QED BY <1>4, <1>7, <1>8, <1>9, StepBounds

\* With the status it had.
LEMMA GotoBounds ==
    ASSUME SInv, SInv', BInv, NEW r \in Runners, run[r].pc \in InHand,
           NEW i, i = run[r].issue,
           NEW pc \in (InHand \ {"judge"}) \cup {"dispatch"}, Goto(r, pc),
           snap' = snap, now' = now, SinceStays,
           Has(run[r]) =>
               /\ snap[i].state = "claimed" /\ run[r].pc \in Starts \cup {"reconcile"} =>
                    pc \in Starts
               /\ /\ snap[i].state = "running" /\ run[r].pc \in Judges \cup {"reconcile"}
                  /\ run[r].seen.state = "running"
                  => pc \in Judges \/ Good(i)
               /\ pc \in Judges => run[r].seen.state = "running"
    PROVE  BInv'
  <1> SUFFICES ASSUME NEW k, k = Attempt(r), NEW status, status = run[r].status
               PROVE  BInv'
    OBVIOUS
  <1>1. run[r] \in Runs
    BY HandType
  <1>2. status \in SessionStates \cup {"cancel-deadline"}
        /\ [run[r] EXCEPT !.pc = pc] = [run[r] EXCEPT !.pc = pc, !.status = status]
    BY <1>1 DEF Runs
  <1>3. run' = [run EXCEPT ![r] = [run[r] EXCEPT !.pc = pc, !.status = status]]
    BY <1>2 DEF Goto
  <1>4. pc \in InHand \cup {"dispatch"} /\ pc # "judge"
    BY DEF InHand, Pcs
  <1> QED BY <1>2, <1>3, <1>4, GoesBounds

\* A heartbeat renews what is past running, or running within its turn.
LEMMA BeatBounds ==
    ASSUME SInv, SInv', BInv, NEW r \in Runners, run[r].pc \in {"reconcile", "judge"},
           Beat(r), UNCHANGED <<root, craft, faults>>, NEW i, i = run[r].issue,
           Has(run[r]) => /\ snap[i].state # "claimed"
                          /\ snap[i].state = "running" => now < Since(i) + TurnLimit
    PROVE  BInv'
  <1> SUFFICES ASSUME NEW f, f = Fence(r), NEW at, at = run[r].at
               PROVE  BInv'
    OBVIOUS
  <1>1. i \in Issues /\ run[r].pc # "idle" /\ run[r].pc \in InHand /\ Punctual(run[r]) /\ now \in Nat
        /\ at = now /\ at \in 0..now /\ session' = session
    BY HandType DEF BInv, InHand, Pcs, Punctual, craft
  <1>2. \/ Heartbeat(i, f, at) /\ Goto(r, "dispatch")
        \/ UNCHANGED tracked /\ Finish(r) /\ ~Holds(i, f)
    BY DEF Beat, Call
  <1>3. CASE Heartbeat(i, f, at) /\ Goto(r, "dispatch")
    <2>1. Keeps(i) /\ snap'[i].state = snap[i].state /\ snap'[i].claim.beat = now
      BY <1>1, <1>3, HeartbeatCall DEF SInv
    <2>2. now' = now /\ Wrote(i)
      BY <2>1 DEF Keeps, Wrote
    <2>3. Has(run[r])
      BY <1>3 DEF Heartbeat, Has, Fence
    <2>4. Forth(i)
      BY <2>1, <2>3 DEF Forth
    <2>5. \A j \in Issues : Forth(j)
      BY <1>1, <2>2, <2>4, OneForth
    <2>6. SinceStays
      BY <1>1, SessionsRest
    <2>7. Punctual(run[r])' /\ Behind(run[r])' /\ \A q \in Runners : q # r => run'[q] = run[q]
      BY <1>1, <1>3, <2>2, LeavesPunctual
    <2>8. \A j \in Issues : ~Grants(j)
      <3> SUFFICES ASSUME NEW j \in Issues, Grants(j) PROVE FALSE
        OBVIOUS
      <3>1. ActiveClaims = {}
        BY DEF Grants
      <3> QED BY <1>1, <2>1, <3>1 DEF Keeps, ActiveClaims
    <2>9. ASSUME NEW j \in Issues PROVE HandsOver(r, j)
      <3>1. ASSUME Starting(run[r], j) \/ Watching(run[r], j) PROVE j = i
        BY <1>1, <3>1, Business
      <3>2. snap[i].state # "claimed"
        BY <2>3
      <3>3. Good(i)'
        <4>1. StaleRun \in Nat \ {0}
          BY SchedulerAssumption
        <4> QED BY <1>1, <2>1, <2>2, <4>1 DEF Good
      <3> QED BY <3>1, <3>2, <3>3 DEF HandsOver
    <2> QED BY <2>2, <2>5, <2>6, <2>7, <2>8, <2>9, StepBounds
  <1>4. CASE UNCHANGED tracked /\ Finish(r) /\ ~Holds(i, f)
    <2>1. snap' = snap /\ now' = now
      BY <1>4 DEF tracked
    <2> QED BY <1>1, <1>4, <2>1, EndsBounds
  <1> QED BY <1>2, <1>3, <1>4

\* A tick begins: what it finds, it has in hand.
LEMMA PollBounds ==
    ASSUME SInv, SInv', BInv, NEW r \in Runners, Poll(r)
    PROVE  BInv'
  <1>1. /\ run[r].pc = "idle" /\ run[r].polled < now
        /\ snap' = snap /\ now' = now /\ root' = root /\ place' = place /\ session' = session
        /\ now \in Nat
    BY DEF Poll, At, tracked, craft, SInv, IInv, TypeOK
  <1>2. SinceStays /\ \A j \in Issues : Forth(j) /\ ~Grants(j)
    BY <1>1, SessionsRest, NothingForth, SnapshotType DEF Grants, Wrote, SInv, IInv
  <1>3. CASE ActiveClaims = {}
    <2> SUFFICES ASSUME NEW z, z = Idle(now), NEW v, v = [z EXCEPT !.pc = "dispatch", !.at = now],
                        run' = [run EXCEPT ![r] = v]
                 PROVE  BInv'
      BY <1>3 DEF Poll
    <2>1. z \in Runs /\ z.polled = now
      BY <1>1, IdleType
    <2>2. v.pc = "dispatch" /\ v.at = now /\ v.polled = now
      BY <2>1 DEF Runs
    <2>3. run'[r] = v /\ \A q \in Runners : q # r => run'[q] = run[q]
      BY TurnTo
    <2>4. Punctual(run[r])' /\ Behind(run[r])'
      BY <1>1, <2>2, <2>3 DEF Punctual, Behind, InHand
    <2>5. \A j \in Issues : snap[j].state \notin {"claimed", "running"}
      BY <1>3 DEF ActiveClaims, SInv, IInv, ClaimMatchesState, HeldStates
    <2>6. \A j \in Issues : HandsOver(r, j)
      BY <2>5 DEF HandsOver
    <2> QED BY <1>1, <1>2, <2>3, <2>4, <2>6, StepBounds
  <1>4. CASE ActiveClaims # {}
    <2> DEFINE c == CHOOSE i \in ActiveClaims : TRUE
    <2>1. run' = [run EXCEPT ![r] =
                     [Idle(now) EXCEPT !.pc = "reconcile", !.at = now, !.issue = c,
                                       !.seen = snap[c], !.foreign = root[c] # RootOf(r)]]
      BY <1>4, Zenon DEF Poll
    <2>2. c \in Issues /\ Claimed(c)
      BY <1>4 DEF ActiveClaims
    <2> HIDE DEF c
    <2> SUFFICES ASSUME NEW i \in Issues, Claimed(i), NEW b, NEW s, s = snap[i],
                        NEW z, z = Idle(now), NEW v,
                        v = [z EXCEPT !.pc = "reconcile", !.at = now, !.issue = i, !.seen = s,
                                      !.foreign = b],
                        run' = [run EXCEPT ![r] = v]
                 PROVE  BInv'
      BY <2>1, <2>2, Zenon
    <2>3. z \in Runs /\ z.polled = now
      BY <1>1, IdleType
    <2>4. v.pc = "reconcile" /\ v.at = now /\ v.polled = now /\ v.issue = i /\ v.seen = s
      BY <2>3 DEF Runs
    <2>5. run'[r] = v /\ \A q \in Runners : q # r => run'[q] = run[q]
      BY TurnTo
    <2>6. Has(v)'
      BY <1>1, <2>4 DEF Has, Holds, Claimed
    <2>7. Behind(v)'
      <3>1. v.seen.claim.beat <= snap'[v.issue].claim.beat
        BY <1>1, <2>4, SnapshotType DEF SInv, IInv
      <3> QED BY <1>1, <2>4, <3>1 DEF Behind, Judges
    <2>8. Punctual(run[r])' /\ Behind(run[r])'
      BY <1>1, <2>4, <2>5, <2>7 DEF Punctual, Behind, Has
    <2>9. ASSUME NEW j \in Issues PROVE HandsOver(r, j)
      <3> SUFFICES ASSUME snap[j].state \in {"claimed", "running"}
                   PROVE  HandsOver(r, j)
        BY DEF HandsOver
      <3>1. j = i
        BY DEF SInv, IInv, ClaimMatchesState, HeldStates, WipOne
      <3> QED BY <1>1, <2>4, <2>5, <2>6, <3>1 DEF HandsOver, Starting, Watching, Has
    <2> QED BY <1>1, <1>2, <2>5, <2>8, <2>9, StepBounds
  <1> QED BY <1>3, <1>4

\* A turn found going on is within its limit.
LEMMA StatusRunning ==
    ASSUME NEW i \in Issues, NEW k \in Attempts, SInv, NEW at \in Nat, Status(i, k, at) = "running"
    PROVE  session[i][k] # NoSession /\ at < session[i][k].since + TurnLimit
  <1>1. session[i][k].since \in Nat /\ TurnLimit \in Nat
    BY PlaceType, SchedulerAssumption
  <1>2. session[i][k].status = "running" /\ ~(at >= session[i][k].since + TurnLimit)
    BY DEF Status
  <1>3. NoSession.status = "absent"
    BY DEF NoSession
  <1>4. session[i][k] # NoSession
    BY <1>2, <1>3
  <1> QED BY <1>1, <1>2, <1>4

\* A claim that stands is of the attempt in hand.
LEMMA InHandClaim ==
    ASSUME SInv, BInv, NEW r \in Runners, run[r].pc \in InHand, NEW i, i = run[r].issue
    PROVE  /\ i \in Issues /\ run[r].seen.claim.attempt \in Attempts
           /\ run[r].at = now /\ now \in Nat /\ now \in 0..now /\ run[r] \in Runs /\ SessionStates # {}
           /\ Has(run[r]) => snap[i].claim.attempt = run[r].seen.claim.attempt
                             /\ Since(i) = session[i][run[r].seen.claim.attempt].since
  BY HandType DEF Knows, BInv, Punctual, InHand, Since, SessionStates

\* Reconcile passes on what it has to do.
LEMMA ReconcileBounds ==
    ASSUME SInv, SInv', BInv, NEW r \in Runners, Reconcile(r)
    PROVE  BInv'
  <1> SUFFICES ASSUME NEW i, i = run[r].issue, NEW k, k = Attempt(r), NEW q, q = run[r]
               PROVE  BInv'
    OBVIOUS
  <1>1. q.pc = "reconcile" /\ UNCHANGED <<root, craft, faults>>
    BY DEF Reconcile, At
  <1>2. q.pc \in InHand /\ q.pc # "idle" /\ "policy" \in FailureClasses
    BY <1>1 DEF InHand, Pcs, FailureClasses
  <1>3. /\ i \in Issues /\ k \in Attempts /\ q.at = now /\ now \in Nat /\ q \in Runs /\ now \in 0..now
        /\ k = q.seen.claim.attempt
    BY <1>2, InHandClaim DEF Attempt
  <1>4. Behind(q)
    BY DEF BInv
  <1> DEFINE pc == IF q.seen.state = "claimed" THEN "resume" ELSE "judge"
             status == Status(i, k, now)
  <1>5. \/ Preserve(r) \/ Fail(r, "policy", now)
        \/ Beat(r) /\ q.seen.state \notin {"claimed", "running"}
        \/ /\ run' = [run EXCEPT ![r].pc = pc, ![r].status = status] /\ UNCHANGED tracked
           /\ q.seen.state \in {"claimed", "running"}
    BY <1>3 DEF Reconcile, IdentityMatches
  <1>6. CASE Preserve(r) \/ Fail(r, "policy", now)
    BY <1>1, <1>2, <1>3, <1>6, FailBounds
  <1>7. CASE Beat(r) /\ q.seen.state \notin {"claimed", "running"}
    <2>1. Has(q) => snap[i].state \notin {"claimed", "running"}
      BY <1>2, <1>4, <1>7 DEF Behind
    <2> QED BY <1>1, <1>7, <2>1, BeatBounds
  <1>8. CASE /\ run' = [run EXCEPT ![r].pc = pc, ![r].status = status] /\ UNCHANGED tracked
             /\ q.seen.state \in {"claimed", "running"}
    <2>1. snap' = snap /\ now' = now /\ session' = session
      BY <1>1, <1>8 DEF tracked, craft
    <2>2. SinceStays
      BY <2>1, SessionsRest
    <2>3. status \in SessionStates
      BY <1>3, StatusType
    <2>4. \/ pc = "resume" /\ q.seen.state = "claimed"
          \/ pc = "judge" /\ q.seen.state = "running"
      BY <1>8
    <2>5. pc \in InHand
      BY DEF InHand, Pcs
    <2>6. status = "running" => session'[i][k] # NoSession /\ now < session'[i][k].since + TurnLimit
      BY <1>3, <2>1, StatusRunning
    <2> HIDE DEF pc, status
    <2>7. run' = [run EXCEPT ![r] = [run[r] EXCEPT !.pc = pc, !.status = status]]
      BY <1>8
    <2>8. Has(q) =>
             /\ snap[i].state = "claimed" => pc \in Starts
             /\ q.seen.state = "running" => pc \in Judges
             /\ pc \in Judges => q.seen.state = "running"
      BY <1>2, <1>4, <2>4 DEF Behind, Starts, Judges
    <2>9. SUFFICES ASSUME NEW p, p = pc, NEW st, st = status
                   PROVE  BInv'
      OBVIOUS
    <2> QED BY <1>2, <2>1, <2>2, <2>3, <2>5, <2>6, <2>7, <2>8, <2>9, GoesBounds
  <1> QED BY <1>5, <1>6, <1>7, <1>8

\* A claim that does not run yet is started again, or failed.
LEMMA ResumeBounds ==
    ASSUME SInv, SInv', BInv, NEW r \in Runners, Resume(r)
    PROVE  BInv'
  <1> SUFFICES ASSUME NEW i, i = run[r].issue
               PROVE  BInv'
    OBVIOUS
  <1>1. run[r].pc = "resume" /\ UNCHANGED <<root, craft, faults>>
    BY DEF Resume, At
  <1>2. run[r].pc \in InHand /\ "runtime" \in FailureClasses /\ "workspace" \in InHand \ {"judge"}
    BY <1>1 DEF InHand, Pcs, FailureClasses
  <1>3. run[r].at = now /\ now \in 0..now
    BY <1>2, InHandClaim
  <1>4. CASE Fail(r, "runtime", now)
    BY <1>1, <1>2, <1>3, <1>4, FailBounds
  <1>5. CASE Goto(r, "workspace") /\ UNCHANGED tracked
    <2>1. snap' = snap /\ now' = now /\ SinceStays
      BY <1>1, <1>5, SessionsRest DEF tracked, craft
    <2> QED BY <1>1, <1>2, <1>5, <2>1, GotoBounds DEF Starts, Judges
  <1> QED BY <1>3, <1>4, <1>5 DEF Resume

\* A running claim is judged: what is not ended or renewed is not stale.
LEMMA JudgeBounds ==
    ASSUME SInv, SInv', BInv, NEW r \in Runners, Judge(r)
    PROVE  BInv'
  <1> SUFFICES ASSUME NEW i, i = run[r].issue, NEW q, q = run[r]
               PROVE  BInv'
    OBVIOUS
  <1>1. q.pc = "judge" /\ UNCHANGED <<root, craft, faults>>
    BY DEF Judge, At
  <1>2. /\ q.pc \in InHand /\ "runtime" \in FailureClasses
        /\ "cancel" \in (InHand \ {"judge"}) \cup {"dispatch"}
        /\ "dispatch" \in (InHand \ {"judge"}) \cup {"dispatch"}
    BY <1>1 DEF InHand, Pcs, FailureClasses
  <1>3. /\ q.at = now /\ now \in Nat /\ now \in 0..now /\ i \in Issues /\ q \in Runs
        /\ Has(q) => Since(i) = session[i][q.seen.claim.attempt].since
    BY <1>2, InHandClaim
  <1>4. Behind(q)
    BY DEF BInv
  <1>5. q.status \in SessionStates
    BY <1>1, <1>2, HandType DEF Knows
  <1>6. \/ Goto(r, "cancel") /\ UNCHANGED tracked
        \/ Beat(r) /\ q.status = "running"
        \/ Fail(r, "runtime", now)
        \/ ~Stale(r) /\ Goto(r, "dispatch") /\ UNCHANGED tracked
    BY <1>3, <1>5 DEF Judge, SessionStates
  <1>7. Has(q) => q.seen.state = "running" /\ snap[i].state # "claimed"
    BY <1>1, <1>2, <1>4 DEF Behind, Judges
  <1>8. CASE Goto(r, "cancel") /\ UNCHANGED tracked
    <2>1. snap' = snap /\ now' = now /\ SinceStays
      BY <1>1, <1>8, SessionsRest DEF tracked, craft
    <2> QED BY <1>1, <1>2, <1>7, <1>8, <2>1, GotoBounds DEF Judges
  <1>9. CASE Beat(r) /\ q.status = "running"
    <2>1. Has(q) => now < Since(i) + TurnLimit
      BY <1>1, <1>2, <1>3, <1>4, <1>9 DEF Behind
    <2> QED BY <1>1, <1>7, <1>9, <2>1, BeatBounds
  <1>10. CASE Fail(r, "runtime", now)
    BY <1>1, <1>2, <1>3, <1>10, FailBounds
  <1>11. CASE ~Stale(r) /\ Goto(r, "dispatch") /\ UNCHANGED tracked
    <2>1. snap' = snap /\ now' = now /\ SinceStays
      BY <1>1, <1>11, SessionsRest DEF tracked, craft
    <2>2. ~(now - q.seen.claim.beat >= StaleRun)
      BY <1>3, <1>11 DEF Stale
    <2>3. Has(q) => Good(i)
      <3>1. Has(q) => q.seen.claim.beat <= snap[i].claim.beat
        BY <1>2, <1>4 DEF Behind
      <3>2. snap[i].claim.beat \in Nat /\ q.seen.claim.beat \in Nat /\ StaleRun \in Nat
        BY <1>3, SnapshotType, SchedulerAssumption DEF SInv, IInv, Runs, Snapshots, Claims
      <3> QED BY <1>3, <2>2, <3>1, <3>2 DEF Good
    <2> QED BY <1>1, <1>2, <1>7, <1>11, <2>1, <2>3, GotoBounds DEF Judges, Pcs
  <1> QED BY <1>6, <1>8, <1>9, <1>10, <1>11

\* A turn past its limit is stopped, and keeps the time of its prompt.
LEMMA CancelBounds ==
    ASSUME SInv, SInv', BInv, NEW r \in Runners, Cancel(r)
    PROVE  BInv'
  <1> SUFFICES ASSUME NEW i, i = run[r].issue, NEW k, k = Attempt(r), NEW status, status = Status(i, k, run[r].at)
               PROVE  BInv'
    OBVIOUS
  <1>1. run[r].pc = "cancel" /\ UNCHANGED <<tracked, root, place, faults>>
    BY DEF Cancel, At
  <1>2. snap' = snap /\ now' = now
    BY <1>1 DEF tracked
  <1>3. run[r].pc \in InHand /\ "stopped" \in InHand
    BY <1>1 DEF InHand, Pcs
  <1>4. i \in Issues /\ k \in Attempts /\ run[r].at \in Nat
    BY <1>3, InHandClaim DEF Attempt
  <1>5. status \in SessionStates
    BY <1>4, StatusType
  <1>6. PICK result \in {status, "cancel-deadline"} :
           run' = [run EXCEPT ![r].pc = "stopped", ![r].status = result]
    BY DEF Cancel
  <1>7. run' = [run EXCEPT ![r] = [run[r] EXCEPT !.pc = "stopped", !.status = result]]
    BY <1>6
  <1>8. SinceStays
    <2>1. CASE session' = session
      BY <2>1, SessionsRest
    <2>2. CASE session' = [session EXCEPT ![i][k] = [@ EXCEPT !.status = "deadline", !.busy = FALSE]]
      <3> DEFINE e == [session[i][k] EXCEPT !.status = "deadline", !.busy = FALSE]
      <3>1. session[i][k] \in Sessions /\ session' = [session EXCEPT ![i][k] = e]
        BY <1>4, <2>2, PlaceType
      <3>2. e \in Sessions /\ e # NoSession
        BY <3>1, DeadlineSession
      <3>3. e.since = session[i][k].since
        BY <3>1 DEF Sessions
      <3> HIDE DEF e
      <3>4. SessionTurns(i, k) /\ session'[i][k] = e
        <4>1. SessionTurns(i, k)
          BY <1>4, <3>1, <3>2, SessionUpdate
        <4>2. session'[i][k] = e
          BY <1>4, <3>1 DEF SInv, Surroundings
        <4> QED BY <4>1, <4>2
      <3>5. \A j \in Issues : \A l \in Attempts : session[j][l].since <= now
        BY DEF BInv
      <3> QED BY <1>4, <3>2, <3>3, <3>4, <3>5 DEF SinceStays, SessionTurns
    <2> QED BY <2>1, <2>2 DEF Cancel
  <1>9. Behind(run[r])
    BY DEF BInv
  <1>10. Has(run[r]) => run[r].seen.state = "running" /\ snap[i].state # "claimed"
    BY <1>1, <1>3, <1>9 DEF Behind, Judges
  <1>11. result \in SessionStates \cup {"cancel-deadline"}
    BY <1>5
  <1> QED BY <1>1, <1>2, <1>3, <1>7, <1>8, <1>10, <1>11, GoesBounds DEF Judges

\* What was cancelled is failed or preserved.
LEMMA StoppedBounds ==
    ASSUME SInv, SInv', BInv, NEW r \in Runners, Stopped(r)
    PROVE  BInv'
  <1>1. run[r].pc = "stopped" /\ UNCHANGED <<root, craft, faults>>
        /\ (Preserve(r) \/ Fail(r, "runtime", run[r].at))
    BY DEF Stopped, At
  <1>2. run[r].pc \in InHand /\ "runtime" \in FailureClasses
    BY <1>1 DEF InHand, Pcs, FailureClasses
  <1>3. run[r].at \in 0..now
    BY HandType
  <1> QED BY <1>1, <1>2, <1>3, FailBounds

\* So is what could not be started.
LEMMA AbortBounds ==
    ASSUME SInv, SInv', BInv, NEW r \in Runners, Abort(r)
    PROVE  BInv'
  <1>1. run[r].pc = "abort" /\ UNCHANGED <<root, craft, faults>> /\ Fail(r, "runtime", now)
    BY DEF Abort, At
  <1>2. run[r].pc \in InHand /\ "runtime" \in FailureClasses /\ now \in 0..now
    BY <1>1 DEF InHand, Pcs, FailureClasses, SInv, IInv, TypeOK
  <1> QED BY <1>1, <1>2, FailBounds

\* A runner that looks for an issue has none in hand.
LEMMA FreeBounds ==
    ASSUME SInv, SInv', BInv, NEW r \in Runners, run[r].pc \in {"dispatch", "claim"},
           NEW v, run' = [run EXCEPT ![r] = v], v.pc \in {"idle", "claim"},
           v.at = run[r].at \/ v.pc = "idle", v.polled = run[r].polled,
           UNCHANGED <<tracked, craft>>
    PROVE  BInv'
  <1>1. run[r].pc # "idle" /\ run[r].pc \notin InHand /\ run[r].at = now /\ run[r].polled = now /\ now \in Nat
    BY DEF BInv, Punctual, InHand, SInv, IInv, TypeOK
  <1>2. snap' = snap /\ now' = now /\ session' = session
    BY DEF tracked, craft
  <1>3. SinceStays /\ \A j \in Issues : Forth(j) /\ ~Grants(j)
    BY <1>2, SessionsRest, NothingForth, SnapshotType DEF Grants, Wrote, SInv, IInv
  <1>4. run'[r] = v /\ \A q \in Runners : q # r => run'[q] = run[q]
    BY TurnTo
  <1>5. Punctual(run[r])' /\ Behind(run[r])'
    BY <1>1, <1>2, <1>4 DEF Punctual, Behind, InHand
  <1>6. ASSUME NEW j \in Issues PROVE HandsOver(r, j)
    <2>1. ~Starting(run[r], j) /\ ~Watching(run[r], j)
      BY <1>1, Business
    <2> QED BY <2>1 DEF HandsOver
  <1> QED BY <1>2, <1>3, <1>4, <1>5, <1>6, StepBounds

\* The tick ends.
LEMMA FinishBounds ==
    ASSUME SInv, SInv', BInv, NEW r \in Runners, run[r].pc \in {"dispatch", "claim"}, Finish(r),
           UNCHANGED <<tracked, craft>>
    PROVE  BInv'
  <1> SUFFICES ASSUME NEW p, p = run[r].polled, NEW v, v = Idle(p), run' = [run EXCEPT ![r] = v]
               PROVE  BInv'
    BY DEF Finish
  <1>1. v.pc = "idle" /\ v.polled = p
    BY HandType, IdleType
  <1> QED BY <1>1, FreeBounds

\* Candidates are read,
LEMMA DispatchBounds ==
    ASSUME SInv, SInv', BInv, NEW r \in Runners, Dispatch(r)
    PROVE  BInv'
  <1>1. run[r].pc = "dispatch" /\ UNCHANGED <<tracked, craft>>
    BY DEF Dispatch, At
  <1> SUFFICES ASSUME NEW todo, NEW v, v = [run[r] EXCEPT !.pc = "claim", !.todo = todo],
                      run' = [run EXCEPT ![r] = v]
               PROVE  BInv'
    BY <1>1, FinishBounds DEF Dispatch
  <1>2. run[r] \in Runs
    BY HandType
  <1>3. v.pc = "claim" /\ v.at = run[r].at /\ v.polled = run[r].polled
    BY <1>2 DEF Runs
  <1> QED BY <1>1, <1>3, FreeBounds

\* and tried; a claim that is made is in hand.
LEMMA ClaimingBounds ==
    ASSUME SInv, SInv', BInv, NEW r \in Runners, run[r].pc = "claim",
           NEW i \in Issues, NEW v, NEW attempt, TryClaim(i, v, attempt, now),
           run' = [run EXCEPT ![r].pc = "workspace", ![r].issue = i, ![r].seen = snap'[i],
                              ![r].foreign = FALSE, ![r].todo = {}],
           UNCHANGED craft
    PROVE  BInv'
  <1>1. Grants(i) /\ snap'[i].claim.beat = now
    BY ClaimCall DEF SInv
  <1>2. now' = now /\ session' = session
    BY <1>1 DEF Grants, Wrote, craft
  <1> SUFFICES ASSUME NEW s, s = snap'[i], NEW z, z = run[r], NEW w,
                      w = [z EXCEPT !.pc = "workspace", !.issue = i, !.seen = s, !.foreign = FALSE,
                                    !.todo = {}],
                      run' = [run EXCEPT ![r] = w]
               PROVE  BInv'
    OBVIOUS
  <1>3. z \in Runs /\ z.at = now /\ z.polled = now /\ now \in Nat /\ z.pc # "idle" /\ z.pc \notin InHand
    BY HandType DEF BInv, Punctual, InHand
  <1>4. w.pc = "workspace" /\ w.issue = i /\ w.seen = s /\ w.at = now /\ w.polled = now
    BY <1>3 DEF Runs
  <1>5. run'[r] = w /\ \A q \in Runners : q # r => run'[q] = run[q]
    BY TurnTo
  <1>6. SinceStays /\ \A j \in Issues : Forth(j)
    BY <1>1, <1>2, SessionsRest, OneForth DEF Forth, Grants
  <1>7. \A j \in Issues : Grants(j) => j = i
    <2> SUFFICES ASSUME NEW j \in Issues, j # i, Grants(j) PROVE FALSE
      OBVIOUS
    <2>1. snap'[j] = snap[j]
      BY <1>1 DEF Grants, Wrote
    <2> QED BY <2>1, SnapshotType DEF Grants, Wrote, SInv, IInv
  <1>8. Has(w)' /\ Starting(w, i)'
    BY <1>1, <1>4 DEF Has, Holds, Claimed, Grants, Starting, Starts
  <1>9. Punctual(run[r])' /\ Behind(run[r])'
    <2>1. s.claim.beat <= s.claim.beat
      BY <1>1, <1>3
    <2> QED BY <1>2, <1>4, <1>5, <2>1 DEF Punctual, Behind, Judges
  <1>10. \A j \in Issues : Grants(j) => Starting(run[r], j)'
    <2>1. run'[r].issue = i /\ Has(run[r])' /\ run'[r].pc \in Starts
      BY <1>4, <1>5, <1>8 DEF Has, Starts
    <2> QED BY <1>7, <2>1 DEF Starting
  <1>11. ASSUME NEW j \in Issues PROVE HandsOver(r, j)
    <2>1. ~Starting(run[r], j) /\ ~Watching(run[r], j)
      BY <1>3, Business
    <2> QED BY <2>1 DEF HandsOver
  <1>12. \A q \in Runners :
             \/ run'[q] = run[q]
             \/ /\ Punctual(run[q])' /\ Behind(run[q])'
                /\ \A j \in Issues : HandsOver(q, j)
    <2> SUFFICES ASSUME NEW q \in Runners, run'[q] # run[q]
                 PROVE  Punctual(run[q])' /\ Behind(run[q])' /\ \A j \in Issues : HandsOver(q, j)
      OBVIOUS
    <2>1. q = r
      BY <1>5
    <2> QED BY <1>9, <1>11, <2>1
  <1> QED BY <1>2, <1>6, <1>10, <1>12, StepBounds

\* Whatever comes of the candidates.
LEMMA ClaimBounds ==
    ASSUME SInv, SInv', BInv, NEW r \in Runners, Claim(r)
    PROVE  BInv'
  <1> SUFFICES ASSUME NEW due, due = {d \in run[r].todo : Due(d.seen)},
                      NEW c, c = CHOOSE d \in due : \A e \in due : d.issue <= e.issue
               PROVE  BInv'
    OBVIOUS
  <1>1. run[r].pc = "claim" /\ UNCHANGED craft /\ run[r] \in Runs
        /\ run[r].todo \in SUBSET [issue : Issues, seen : Snapshots]
    BY HandType DEF Claim, At, Runs
  <1>2. \/ Finish(r) /\ UNCHANGED <<tracked, root>>
        \/ /\ due # {} /\ TryClaim(c.issue, c.seen.version, NextAttempt(c.seen), now)
           /\ run' = [run EXCEPT ![r].pc = "workspace", ![r].issue = c.issue,
                                 ![r].seen = snap'[c.issue], ![r].foreign = FALSE, ![r].todo = {}]
        \/ run' = [run EXCEPT ![r].todo = @ \ {c}] /\ UNCHANGED <<tracked, root>>
    BY DEF Claim
  <1>3. CASE Finish(r) /\ UNCHANGED <<tracked, root>>
    BY <1>1, <1>3, FinishBounds
  <1>4. CASE /\ due # {} /\ TryClaim(c.issue, c.seen.version, NextAttempt(c.seen), now)
             /\ run' = [run EXCEPT ![r].pc = "workspace", ![r].issue = c.issue,
                                   ![r].seen = snap'[c.issue], ![r].foreign = FALSE, ![r].todo = {}]
    <2>1. c.issue \in Issues
      <3>1. due \in SUBSET [issue : Issues, seen : Snapshots] /\ due # {}
        BY <1>1, <1>4
      <3> QED BY <3>1, FirstDue
    <2> SUFFICES ASSUME NEW i \in Issues, NEW v, NEW attempt, TryClaim(i, v, attempt, now),
                        run' = [run EXCEPT ![r].pc = "workspace", ![r].issue = i, ![r].seen = snap'[i],
                                           ![r].foreign = FALSE, ![r].todo = {}]
                 PROVE  BInv'
      BY <1>4, <2>1
    <2> QED BY <1>1, ClaimingBounds
  <1>5. CASE run' = [run EXCEPT ![r].todo = @ \ {c}] /\ UNCHANGED <<tracked, root>>
    <2> SUFFICES ASSUME NEW v, v = [run[r] EXCEPT !.todo = @ \ {c}], run' = [run EXCEPT ![r] = v]
                 PROVE  BInv'
      BY <1>5
    <2>1. v.pc = "claim" /\ v.at = run[r].at /\ v.polled = run[r].polled
      BY <1>1 DEF Runs
    <2> QED BY <1>1, <1>5, <2>1, FreeBounds
  <1> QED BY <1>2, <1>3, <1>4, <1>5

\* The workspace is ensured, or is another's,
LEMMA WorkspaceBounds ==
    ASSUME SInv, SInv', BInv, NEW r \in Runners, EnsureWorkspace(r)
    PROVE  BInv'
  <1> SUFFICES ASSUME NEW i, i = run[r].issue
               PROVE  BInv'
    OBVIOUS
  <1>1. run[r].pc = "workspace" /\ UNCHANGED <<tracked, session>>
    BY DEF EnsureWorkspace, At
  <1>2. snap' = snap /\ now' = now /\ SinceStays
    BY <1>1, SessionsRest DEF tracked
  <1>3. run[r].pc \in InHand
    BY <1>1 DEF InHand, Pcs
  <1>4. PICK pc \in {"session", "abort"} : Goto(r, pc)
    BY DEF EnsureWorkspace
  <1>5. pc \in (InHand \ {"judge"}) \cup {"dispatch"} /\ pc \in Starts /\ pc \notin Judges
    BY DEF InHand, Pcs, Starts, Judges
  <1> QED BY <1>1, <1>2, <1>3, <1>4, <1>5, GotoBounds DEF Judges

\* the session is ensured,
LEMMA EnsuredSince ==
    ASSUME SInv, BInv, NEW i \in Issues, NEW k \in Attempts,
           session' = [session EXCEPT ![i][k] = Ensured(@)]
    PROVE  SinceStays
  <1>1. /\ session'[i][k] = Ensured(session[i][k]) /\ session'[i][k] # NoSession
        /\ \A j \in Issues : \A l \in Attempts : j # i \/ l # k => session'[j][l] = session[j][l]
    <2>1. SessionTurns(i, k) /\ session'[i][k] = Ensured(session[i][k]) /\ session'[i][k] # NoSession
      BY EnsuredSession
    <2> QED BY <2>1 DEF SessionTurns
  <1>2. session[i][k] # NoSession => session'[i][k] = session[i][k]
    BY <1>1 DEF Ensured
  <1>3. session'[i][k].since <= now
    <2>1. CASE session[i][k] # NoSession
      BY <1>2, <2>1 DEF BInv
    <2>2. CASE session[i][k] = NoSession
      <3>1. session'[i][k].since = now /\ now \in Nat
        BY <1>1, <2>2 DEF Ensured, SInv, IInv, TypeOK
      <3> QED BY <3>1
    <2> QED BY <2>1, <2>2
  <1> QED BY <1>1, <1>2, <1>3 DEF SinceStays, BInv

\* ensure: a session that is made now was made since the claim; one that is there stays.
LEMMA SessionBounds ==
    ASSUME SInv, SInv', BInv, NEW r \in Runners, EnsureSession(r)
    PROVE  BInv'
  <1> SUFFICES ASSUME NEW i, i = run[r].issue, NEW k, k = Attempt(r)
               PROVE  BInv'
    OBVIOUS
  <1>1. run[r].pc = "session" /\ UNCHANGED tracked
        /\ session' = [session EXCEPT ![i][k] = Ensured(@)] /\ Goto(r, "mark")
    BY DEF EnsureSession, At
  <1>2. run[r].pc \in InHand /\ "mark" \in (InHand \ {"judge"}) \cup {"dispatch"}
    BY <1>1 DEF InHand, Pcs
  <1>3. i \in Issues /\ k \in Attempts
    BY <1>2, InHandClaim DEF Attempt
  <1>4. snap' = snap /\ now' = now /\ SinceStays
    BY <1>1, <1>3, EnsuredSince DEF tracked
  <1> QED BY <1>1, <1>2, <1>4, GotoBounds DEF Starts, Judges

\* or either throws.
LEMMA ThrowsBounds ==
    ASSUME SInv, SInv', BInv, NEW r \in Runners, EnsureThrows(r)
    PROVE  BInv'
  <1> SUFFICES ASSUME NEW i, i = run[r].issue, NEW k, k = Attempt(r)
               PROVE  BInv'
    OBVIOUS
  <1>1. run[r].pc \in {"workspace", "session"} /\ UNCHANGED tracked /\ Goto(r, "abort")
        /\ \/ UNCHANGED session
           \/ session' = [session EXCEPT ![i][k] = Ensured(@)]
    BY DEF EnsureThrows
  <1>2. run[r].pc \in InHand /\ "abort" \in (InHand \ {"judge"}) \cup {"dispatch"}
    BY <1>1 DEF InHand, Pcs
  <1>3. i \in Issues /\ k \in Attempts
    BY <1>2, InHandClaim DEF Attempt
  <1>4. snap' = snap /\ now' = now /\ SinceStays
    BY <1>1, <1>3, EnsuredSince, SessionsRest DEF tracked
  <1> QED BY <1>1, <1>2, <1>4, GotoBounds DEF Starts, Judges

\* The issue runs, or the runner has lost it.
LEMMA MarkBounds ==
    ASSUME SInv, SInv', BInv, NEW r \in Runners, Mark(r)
    PROVE  BInv'
  <1> SUFFICES ASSUME NEW i, i = run[r].issue, NEW f, f = Fence(r)
               PROVE  BInv'
    OBVIOUS
  <1>1. run[r].pc = "mark" /\ UNCHANGED <<root, craft, faults>> /\ session' = session
    BY DEF Mark, At, craft
  <1>2. run[r].pc \in InHand /\ run[r].pc # "idle" /\ "abort" \in (InHand \ {"judge"}) \cup {"dispatch"}
    BY <1>1 DEF InHand, Pcs
  <1>3. i \in Issues /\ now \in 0..now /\ now \in Nat /\ Punctual(run[r])
    BY <1>2, InHandClaim DEF BInv
  <1>4. SinceStays
    BY <1>1, SessionsRest
  <1>5. CASE Goto(r, "abort") /\ UNCHANGED tracked
    <2>1. snap' = snap /\ now' = now
      BY <1>5 DEF tracked
    <2> QED BY <1>1, <1>2, <1>4, <1>5, <2>1, GotoBounds DEF Starts, Judges
  <1>6. CASE MarkRunning(i, f, now) /\ Goto(r, "dispatch")
    <2>1. Keeps(i) /\ snap'[i].state = "running" /\ snap'[i].claim.beat = now
      BY <1>3, <1>6, MarkCall DEF SInv
    <2>2. now' = now /\ Wrote(i)
      BY <2>1 DEF Keeps, Wrote
    <2>3. snap[i].state = "claimed"
      <3>1. CanMove(snap[i].state, "running") /\ snap[i].state \in LifecycleStates
        BY <1>3, <1>6, SnapshotType DEF MarkRunning, SInv, IInv
      <3> QED BY <3>1 DEF CanMove, NormalTransitions, LifecycleStates, Aborts
    <2>4. \A j \in Issues : Forth(j)
      BY <1>3, <2>1, <2>2, <2>3, OneForth DEF Forth
    <2>5. \A j \in Issues : ~Grants(j)
      <3> SUFFICES ASSUME NEW j \in Issues, Grants(j) PROVE FALSE
        OBVIOUS
      <3>1. ActiveClaims = {}
        BY DEF Grants
      <3> QED BY <1>3, <2>1, <3>1 DEF Keeps, ActiveClaims
    <2>6. Punctual(run[r])' /\ Behind(run[r])' /\ \A q \in Runners : q # r => run'[q] = run[q]
      BY <1>2, <1>3, <1>6, <2>2, LeavesPunctual
    <2>7. ASSUME NEW j \in Issues PROVE HandsOver(r, j)
      <3>1. ASSUME Starting(run[r], j) \/ Watching(run[r], j) PROVE j = i
        BY <1>2, <1>3, <3>1, Business
      <3> QED BY <2>1, <2>3, <3>1 DEF HandsOver
    <2> QED BY <1>4, <2>2, <2>4, <2>5, <2>6, <2>7, StepBounds
  <1> QED BY <1>5, <1>6 DEF Mark

\* A runner that died polls before the clock moves.
LEMMA CrashBounds ==
    ASSUME SInv, SInv', BInv, NEW r \in Runners, Crash(r)
    PROVE  BInv'
  <1> SUFFICES ASSUME NEW w, w = Idle(now - 1), run' = [run EXCEPT ![r] = w]
               PROVE  BInv'
    BY DEF Crash
  <1>1. snap' = snap /\ now' = now /\ session' = session /\ now \in Nat
    BY DEF Crash, tracked, craft, SInv, IInv, TypeOK
  <1>2. w.pc = "idle" /\ w.polled = now - 1
    BY <1>1, IdleType
  <1>3. run'[r] = w /\ \A q \in Runners : q # r => run'[q] = run[q]
    BY TurnTo
  <1>4. SinceStays /\ \A j \in Issues : Forth(j) /\ ~Grants(j)
    BY <1>1, SessionsRest, NothingForth, SnapshotType DEF Grants, Wrote, SInv, IInv
  <1>5. Punctual(run[r])' /\ Behind(run[r])'
    BY <1>2, <1>3 DEF Punctual, Behind, InHand
  <1>6. \A j \in Issues : HandsOver(r, j)
    BY <1>1, <1>2, <1>3 DEF HandsOver, Starting, Watching
  <1> QED BY <1>1, <1>3, <1>4, <1>5, <1>6, StepBounds

\* A turn comes to its end.
LEMMA AgentBounds ==
    ASSUME SInv, SInv', BInv, NEW i \in Issues, NEW k \in Attempts, Agent(i, k)
    PROVE  BInv'
  <1>1. snap' = snap /\ now' = now /\ run' = run
    BY DEF Agent, tracked
  <1>2. SessionTurns(i, k) /\ session'[i][k].since = session[i][k].since
    BY AgentEnds
  <1>3. SinceStays
    BY <1>2 DEF SinceStays, SessionTurns, BInv
  <1>4. \A j \in Issues : Forth(j) /\ ~Grants(j)
    BY <1>1, NothingForth, SnapshotType DEF Grants, Wrote, SInv, IInv
  <1> QED BY <1>1, <1>3, <1>4, StepBounds

\* The operator starts nothing.
LEMMA HandoffBounds ==
    ASSUME SInv, SInv', BInv, NEW i \in Issues, NEW to \in Handoffs, Handoff(i, to)
    PROVE  BInv'
  <1>1. Transition(i, to, snap[i].claim.fence, Asked(to)) /\ run' = run /\ session' = session
    BY DEF Handoff, craft
  <1>2. to \in Targets /\ to \notin {"claimed", "running"}
    BY SchedulerAssumption DEF Targets
  <1> SUFFICES ASSUME NEW f, NEW given \in {{}, Asked(to)}, Transition(i, to, f, given)
               PROVE  BInv'
    BY <1>1
  <1>3. snap'[i].state = to /\ (Unheld(i) \/ (Keeps(i) /\ snap'[i].claim.beat = snap[i].claim.beat))
    BY <1>2, TransitionCall DEF SInv
  <1>4. now' = now /\ Wrote(i)
    BY <1>3 DEF Unheld, Keeps, Wrote
  <1>5. \A j \in Issues : Forth(j)
    BY <1>2, <1>3, <1>4, OneForth DEF Forth
  <1>6. \A j \in Issues : ~Grants(j)
    <2> SUFFICES ASSUME NEW j \in Issues, Grants(j) PROVE FALSE
      OBVIOUS
    <2>1. j = i
      BY <1>4, SnapshotType DEF Grants, Wrote, SInv, IInv
    <2>2. snap'[i].state = "claimed"
      BY <2>1 DEF Grants
    <2> QED BY <1>2, <1>3, <2>2
  <1>7. SinceStays
    BY <1>1, SessionsRest
  <1> QED BY <1>1, <1>4, <1>5, <1>6, <1>7, StepBounds

\* The clock moves once everybody has looked.
LEMMA ClockBounds ==
    ASSUME Prompt, SInv, SInv', BInv, Clock
    PROVE  BInv'
  <1>1. /\ \A r \in Runners : run[r].pc = "idle" /\ run[r].polled = now
        /\ now' = now + 1 /\ snap' = snap /\ session' = session /\ run' = run /\ now \in Nat
    BY DEF Clock, At, craft, SInv, IInv, TypeOK
  <1>2. \A r \in Runners : Punctual(run[r])' /\ Behind(run[r])'
    BY <1>1 DEF Punctual, Behind, InHand
  <1>3. ASSUME NEW i \in Issues PROVE ~\E r \in Runners : Starting(run[r], i) \/ Watching(run[r], i)
    BY <1>1 DEF Starting, Watching, Starts, Judges
  <1>4. \A i \in Issues : snap[i].state # "claimed"
    BY <1>3 DEF BInv, Begun
  <1>5. ASSUME NEW i \in Issues, snap[i].state = "running"
        PROVE  /\ Since(i) <= snap[i].claim.claimedAt
               /\ snap[i].claim.beat <= snap[i].claim.claimedAt + TurnLimit
               /\ (now + 1) - snap[i].claim.claimedAt <= TurnLimit + StaleRun
    <2>1. /\ Since(i) <= snap[i].claim.claimedAt
          /\ snap[i].claim.beat <= snap[i].claim.claimedAt + TurnLimit
          /\ Good(i)
      BY <1>3, <1>5 DEF BInv, Watched
    <2>2. snap[i].claim.attempt \in Attempts
      <3>1. Claimed(i)
        BY <1>5 DEF SInv, IInv, ClaimMatchesState, HeldStates
      <3> QED BY <3>1, SnapshotType DEF SInv, IInv, ClaimWellFormed, Attempts
    <2>3. /\ snap[i].claim.beat \in Nat /\ snap[i].claim.claimedAt \in Nat /\ Since(i) \in Nat
          /\ TurnLimit \in Nat /\ StaleRun \in Nat \ {0}
      BY <2>2, SnapshotType, PlaceType, SchedulerAssumption DEF SInv, IInv, Since
    <2> QED BY <1>1, <2>1, <2>3 DEF Good
  <1>6. \E r \in Runners : \A i \in Issues : Watching(run[r], i)'
    <2>1. PICK r \in Runners : TRUE
      BY SchedulerAssumption
    <2>2. run'[r].polled < now'
      BY <1>1
    <2> QED BY <2>2 DEF Watching
  <1>7. Begun' /\ Watched' /\ BoundedRun'
    <2>1. Begun'
      BY <1>1, <1>4 DEF Begun
    <2>2. BoundedRun'
      <3>1. ASSUME NEW i \in Issues, snap'[i].state \in {"claimed", "running"}
            PROVE  now' - snap'[i].claim.claimedAt <= TurnLimit + StaleRun
        <4>1. snap[i].state = "running" /\ snap'[i].claim.claimedAt = snap[i].claim.claimedAt
          BY <1>1, <1>4, <3>1
        <4> QED BY <1>1, <1>5, <3>1, <4>1
      <3> QED BY <3>1 DEF BoundedRun
    <2>3. ASSUME NEW i \in Issues, snap'[i].state = "running"
          PROVE  /\ Since(i)' <= snap'[i].claim.claimedAt
                 /\ snap'[i].claim.beat <= snap'[i].claim.claimedAt + TurnLimit
                 /\ Good(i)' \/ \E r \in Runners : Watching(run[r], i)'
      BY <1>1, <1>5, <1>6, <2>3 DEF Since
    <2> QED BY <2>1, <2>2, <2>3 DEF Watched
  <1>8. \A i \in Issues : snap'[i].claim.beat <= now' /\ \A k \in Attempts : session'[i][k].since <= now'
    <2> SUFFICES ASSUME NEW i \in Issues
                 PROVE  snap[i].claim.beat <= now + 1 /\ \A k \in Attempts : session[i][k].since <= now + 1
      BY <1>1
    <2>1. snap[i].claim.beat \in Nat /\ snap[i].claim.beat <= now
      BY SnapshotType DEF SInv, IInv, BInv
    <2>2. \A k \in Attempts : session[i][k].since \in Nat /\ session[i][k].since <= now
      BY PlaceType DEF BInv
    <2> QED BY <1>1, <2>1, <2>2
  <1> QED BY <1>2, <1>7, <1>8 DEF BInv

\* At first nothing is claimed, and everybody is about to look.
LEMMA BoundsStart ==
    ASSUME SchedulerInit
    PROVE  BInv
  <1>1. now = 0 /\ \A i \in Issues : snap[i] = Seeded
    BY DEF SchedulerInit, Init
  <1>2. \A i \in Issues : snap[i].state = "ready" /\ snap[i].claim.beat = 0
    BY <1>1 DEF Seeded, NoClaim
  <1>3. \A i \in Issues : \A k \in Attempts : session[i][k].since = 0
    BY DEF SchedulerInit, NoSession
  <1>4. ASSUME NEW r \in Runners PROVE Punctual(run[r]) /\ Behind(run[r])
    <2> SUFFICES ASSUME NEW w, w = Idle(-1), run[r] = w PROVE Punctual(run[r]) /\ Behind(run[r])
      BY DEF SchedulerInit
    <2>1. w.pc = "idle"
      BY IdleType
    <2> QED BY <2>1 DEF Punctual, Behind, InHand
  <1>5. Begun /\ Watched /\ BoundedRun
    BY <1>2 DEF Begun, Watched, BoundedRun
  <1> QED BY <1>1, <1>2, <1>3, <1>4, <1>5 DEF BInv

\* Every step keeps the bound.
LEMMA BoundsKeep ==
    ASSUME Prompt, SInv, SInv', BInv, [SchedulerNext]_allVars
    PROVE  BInv'
  <1>1. ASSUME NEW r \in Runners, Step(r) PROVE BInv'
    BY <1>1, PollBounds, ReconcileBounds, ResumeBounds, JudgeBounds, CancelBounds, StoppedBounds,
       DispatchBounds, ClaimBounds, WorkspaceBounds, SessionBounds, MarkBounds, AbortBounds
       DEF Step
  <1>2. ASSUME NEW r \in Runners, EnsureThrows(r) \/ Crash(r) PROVE BInv'
    BY <1>2, ThrowsBounds, CrashBounds
  <1>3. ASSUME NEW i \in Issues, NEW k \in Attempts, Agent(i, k) PROVE BInv'
    BY <1>3, AgentBounds
  <1>4. ASSUME NEW i \in Issues, NEW to \in Handoffs, Handoff(i, to) PROVE BInv'
    BY <1>4, HandoffBounds
  <1>5. CASE Clock
    BY <1>5, ClockBounds
  <1>6. CASE UNCHANGED allVars
    <2>1. snap' = snap /\ now' = now /\ session' = session /\ run' = run
      BY <1>6 DEF allVars, tracked, craft
    <2>2. SinceStays /\ \A j \in Issues : Forth(j) /\ ~Grants(j)
      BY <2>1, SessionsRest, NothingForth, SnapshotType DEF Grants, Wrote, SInv, IInv
    <2> QED BY <2>1, <2>2, StepBounds
  <1> QED BY <1>1, <1>2, <1>3, <1>4, <1>5, <1>6 DEF SchedulerNext

\* If runners poll in every unit, no claim is at work longer than a turn and the staleness
\* that follows it, with any number of runners, crashes, failures and hand-offs.
THEOREM RunsAreBounded ==
    ASSUME Prompt
    PROVE  SchedulerSpec => []BoundedRun
  <1>1. SInv /\ SInv' /\ BInv /\ [SchedulerNext]_allVars => BInv'
    BY BoundsKeep
  <1>2. BInv => BoundedRun
    BY DEF BInv
  <1> QED BY <1>1, <1>2, BoundsStart, SchedulerInvariant, PTL DEF SchedulerSpec

-----------------------------------------------------------------------------
(* One agent.  With a single runner, and no ensure that failed after it      *)
(* started an agent, the only session at work on an issue is that of the     *)
(* attempt its claim counts, and a claim is given up to a later attempt only *)
(* once that session has been found, or made, to be at an end.               *)

\* One runner, turns that stop when they fail, and nobody who reopens what was blocked.
Sole == ErrorsStop /\ (\A q, r \in Runners : q = r) /\ "ready" \notin Handoffs

Waiting == {"ready", "retry-wait"}

\* What is at work on an issue and where, by the attempt of its claim.
Tidy(i) ==
    /\ \A k \in Attempts : session[i][k].busy => session[i][k].status = "running"
    /\ \A k, l \in Attempts : session[i][k].busy /\ session[i][l].busy => k = l
    /\ snap[i].state \in Waiting =>
         \A l \in Attempts : ~session[i][l].busy /\ (l >= NextAttempt(snap[i]) => place[i][l] = "none")
    /\ Claimed(i) =>
         \A l \in Attempts :
             /\ session[i][l].busy => l = snap[i].claim.attempt
             /\ l > snap[i].claim.attempt => place[i][l] = "none"
             /\ l = snap[i].claim.attempt => place[i][l] \in {"none", root[i]}

\* Where the session in hand has been found not to run,
Found(q) ==
    \/ q.pc = "resume" /\ q.status = "absent"
    \/ q.pc = "judge" /\ q.status \in {"absent", "failed", "settled"}
    \/ q.pc = "stopped" /\ q.status # "cancel-deadline"

\* or to have run out of its turn.
RanOut(q) ==
    \/ q.pc = "judge" /\ q.status \in {"ended-without-response", "deadline"}
    \/ q.pc = "cancel"

\* Where the claim in hand has not been started.
Unstarted(q) ==
    \/ q.pc \in {"resume", "workspace", "session", "mark"}
    \/ q.pc = "reconcile" /\ q.seen.state = "claimed"

\* Nobody else has the issue in hand, and what was found of its session stays so.
Sure(q) ==
    LET i == q.issue
        k == q.seen.claim.attempt IN
    q.pc \in InHand =>
        /\ Claimed(i) => Has(q)
        /\ snap[i].state \notin Waiting
        /\ \A l \in Attempts : session[i][l].busy => l = k
        /\ Unstarted(q) /\ Has(q) => snap[i].state = "claimed"
        /\ q.pc = "abort" => ~Has(q)
        /\ Found(q) => session[i][k].status # "running"
        /\ RanOut(q) => Status(i, k, q.at) # "running"

Single == (\A i \in Issues : Tidy(i)) /\ (\A r \in Runners : Sure(run[r]))

\* An issue that rests, is given up for good, or keeps its claim stays tidy.
LEMMA TidyStays ==
    ASSUME SInv, NEW i \in Issues, Tidy(i), session'[i] = session[i], place'[i] = place[i],
           \/ snap'[i] = snap[i] /\ root'[i] = root[i]
           \/ Unheld(i) /\ snap'[i].state \notin Waiting
           \/ Keeps(i) /\ root'[i] = root[i] /\ snap'[i].state \notin Waiting
    PROVE  Tidy(i)'
  <1>1. CASE snap'[i] = snap[i] /\ root'[i] = root[i]
    BY <1>1 DEF Tidy, Claimed, NextAttempt
  <1>2. CASE Unheld(i) /\ snap'[i].state \notin Waiting
    <2>1. ~Claimed(i)'
      BY <1>2 DEF Unheld, Claimed
    <2> QED BY <1>2, <2>1 DEF Tidy
  <1>3. CASE Keeps(i) /\ root'[i] = root[i] /\ snap'[i].state \notin Waiting
    <2>1. snap'[i].claim.attempt = snap[i].claim.attempt /\ Claimed(i)
      BY <1>3 DEF Keeps
    <2> QED BY <1>3, <2>1 DEF Tidy
  <1> QED BY <1>1, <1>2, <1>3

\* The other issues rest while one is written.
LEMMA OthersTidy ==
    ASSUME SInv, Single, NEW i \in Issues, Wrote(i), UNCHANGED <<root, craft>>, Tidy(i)'
    PROVE  \A j \in Issues : Tidy(j)'
  <1> SUFFICES ASSUME NEW j \in Issues, j # i PROVE Tidy(j)'
    OBVIOUS
  <1>1. snap'[j] = snap[j] /\ root'[j] = root[j] /\ session'[j] = session[j] /\ place'[j] = place[j]
    BY DEF Wrote, craft
  <1> QED BY <1>1, TidyStays DEF Single

\* When nothing is written, made or chosen, all of them rest.
LEMMA AllTidy ==
    ASSUME SInv, Single, snap' = snap, UNCHANGED <<root, craft>>
    PROVE  \A j \in Issues : Tidy(j)'
  <1> SUFFICES ASSUME NEW j \in Issues PROVE Tidy(j)'
    OBVIOUS
  <1>1. snap'[j] = snap[j] /\ root'[j] = root[j] /\ session'[j] = session[j] /\ place'[j] = place[j]
    BY DEF craft
  <1> QED BY <1>1, TidyStays DEF Single

\* What the one runner is sure of is all that has to be.
LEMMA SoleStep ==
    ASSUME Sole, NEW r \in Runners, \A j \in Issues : Tidy(j)', Sure(run[r])'
    PROVE  Single'
  <1>1. ASSUME NEW q \in Runners PROVE Sure(run[q])'
    <2>1. q = r
      BY DEF Sole
    <2> QED BY <2>1 DEF Sure, Has, Holds, Claimed, Status, Found, RanOut, Unstarted
  <1> QED BY <1>1 DEF Single

\* A runner with nothing in hand is sure of it.
LEMMA Leaving ==
    ASSUME Sole, NEW r \in Runners, \A j \in Issues : Tidy(j)', run'[r].pc \notin InHand
    PROVE  Single'
  <1>1. Sure(run[r])'
    BY DEF Sure
  <1> QED BY <1>1, SoleStep

\* A runner that goes on with its issue.
LEMMA Going ==
    ASSUME Sole, SInv, Single, NEW r \in Runners, run[r].pc \in InHand,
           NEW i, i = run[r].issue, NEW k, k = Attempt(r),
           NEW pc \in InHand \ {"reconcile"}, NEW status \in SessionStates \cup {"cancel-deadline"},
           NEW v, v = [run[r] EXCEPT !.pc = pc, !.status = status],
           run' = [run EXCEPT ![r] = v],
           snap' = snap, \A j \in Issues : Tidy(j)',
           \A l \in Attempts : session'[i][l].busy => l = k,
           Unstarted(v) /\ Has(run[r]) => snap[i].state = "claimed",
           pc = "abort" => ~Has(run[r]),
           Found(v) => session'[i][k].status # "running",
           RanOut(v) => session' = session /\ Status(i, k, run[r].at) # "running"
    PROVE  Single'
  <1>1. run[r] \in Runs
    BY HandType
  <1>2. /\ v.pc = pc /\ v.at = run[r].at /\ v.issue = i /\ v.seen = run[r].seen
        /\ v.status = status /\ v.seen.claim.attempt = k
    BY <1>1 DEF Runs, Attempt
  <1>3. run'[r] = v
    BY TurnTo
  <1>4. Has(v)' <=> Has(run[r])
    BY <1>2 DEF Has, Holds, Claimed
  <1>5. Claimed(i) => Has(run[r])
    BY DEF Single, Sure
  <1>6. snap[i].state \notin Waiting
    BY DEF Single, Sure
  <1>7. Sure(v)'
    BY <1>2, <1>4, <1>5, <1>6 DEF Sure, Claimed, Status
  <1>8. Sure(run[r])'
    BY <1>3, <1>7 DEF Sure, Has, Holds, Claimed, Status, Found, RanOut, Unstarted
  <1> QED BY <1>8, SoleStep

\* A claim is failed by the one runner: if another attempt is to follow, nobody is at work.
LEMMA FailSingle ==
    ASSUME Sole, SInv, Single, NEW r \in Runners, run[r].pc \in InHand,
           NEW class \in FailureClasses, NEW at \in 0..now,
           Fail(r, class, at), UNCHANGED <<root, craft, faults>>, NEW i, i = run[r].issue,
           Has(run[r]) /\ Retryable(class) => \A l \in Attempts : ~session[i][l].busy
    PROVE  Single'
  <1> SUFFICES ASSUME NEW f, f = Fence(r)
               PROVE  Single'
    OBVIOUS
  <1>1. i \in Issues /\ session' = session /\ place' = place /\ moved' = moved
    BY HandType DEF craft, faults
  <1>2. \/ FailClaim(i, f, class, at) /\ Goto(r, "dispatch")
        \/ UNCHANGED tracked /\ Finish(r)
    BY DEF Fail, Call
  <1>3. CASE FailClaim(i, f, class, at) /\ Goto(r, "dispatch")
    <2>1. /\ Unheld(i) /\ Claimed(i) /\ snap'[i].state = AfterFailure(i, class)
          /\ snap'[i].state = "retry-wait" => snap'[i].retry.attempt = snap[i].claim.attempt + 1
      BY <1>1, <1>3, FailCall DEF SInv
    <2>2. Has(run[r]) /\ now' = now /\ Wrote(i)
      BY <1>3, <2>1 DEF FailClaim, Has, Fence, Unheld, Wrote
    <2>3. Tidy(i)
      BY <1>1 DEF Single
    <2>4. CASE snap'[i].state \notin Waiting
      <3>1. Tidy(i)'
        BY <1>1, <2>1, <2>3, <2>4, TidyStays
      <3>2. \A j \in Issues : Tidy(j)'
        BY <1>1, <2>2, <3>1, OthersTidy
      <3> QED BY <1>1, <1>3, <2>2, <3>2, Leaves, Leaving DEF InHand
    <2>5. CASE snap'[i].state \in Waiting
      <3>1. snap'[i].state = "retry-wait" /\ Retryable(class)
        BY <2>1, <2>5 DEF AfterFailure, Waiting
      <3>2. snap[i].claim.attempt \in Nat
        BY <1>1, SnapshotType DEF SInv, IInv
      <3>3. NextAttempt(snap'[i]) = snap[i].claim.attempt + 1
        BY <2>1, <3>1, <3>2 DEF NextAttempt, NoRetry
      <3>4. ~Claimed(i)'
        BY <2>1 DEF Unheld, Claimed
      <3>5. \A l \in Attempts : ~session[i][l].busy
        BY <2>2, <3>1
      <3>6. \A l \in Attempts : l >= snap[i].claim.attempt + 1 => place[i][l] = "none"
        BY <2>1, <2>3, <3>2 DEF Tidy, Attempts
      <3>7. Tidy(i)'
        BY <1>1, <2>3, <3>3, <3>4, <3>5, <3>6 DEF Tidy
      <3>8. \A j \in Issues : Tidy(j)'
        BY <1>1, <2>2, <3>7, OthersTidy
      <3> QED BY <1>1, <1>3, <2>2, <3>8, Leaves, Leaving DEF InHand
    <2> QED BY <2>4, <2>5
  <1>4. CASE UNCHANGED tracked /\ Finish(r)
    <2>1. snap' = snap /\ now' = now
      BY <1>4 DEF tracked
    <2> QED BY <1>1, <1>4, <2>1, AllTidy, Leaves, Leaving DEF InHand
  <1> QED BY <1>2, <1>3, <1>4

\* Preserved, it is claimed no more.
LEMMA PreserveSingle ==
    ASSUME Sole, SInv, Single, NEW r \in Runners, Preserve(r), UNCHANGED <<root, craft, faults>>
    PROVE  Single'
  <1> SUFFICES ASSUME NEW i, i = run[r].issue, NEW f, f = Fence(r)
               PROVE  Single'
    OBVIOUS
  <1>1. i \in Issues /\ session' = session /\ place' = place /\ moved' = moved
    BY HandType DEF craft, faults
  <1>2. \/ Transition(i, "preservation-unknown", f, {}) /\ Goto(r, "dispatch")
        \/ UNCHANGED tracked /\ Finish(r)
    BY DEF Preserve, Call
  <1>3. CASE Transition(i, "preservation-unknown", f, {}) /\ Goto(r, "dispatch")
    <2> SUFFICES ASSUME NEW to, to = "preservation-unknown", Transition(i, to, f, {})
                 PROVE  Single'
      BY <1>3
    <2>1. to \in Targets /\ to \in ReleasingStates /\ to \notin Waiting
      BY DEF Targets, LifecycleStates, ReleasingStates, TerminalStates, Waiting
    <2>2. Unheld(i) /\ snap'[i].state = to
      BY <1>1, <2>1, TransitionCall DEF SInv
    <2>3. now' = now /\ Wrote(i)
      BY <2>2 DEF Unheld, Wrote
    <2>4. Tidy(i)'
      BY <1>1, <2>1, <2>2, TidyStays DEF Single
    <2>5. \A j \in Issues : Tidy(j)'
      BY <1>1, <2>3, <2>4, OthersTidy
    <2> QED BY <1>1, <1>3, <2>3, <2>5, Leaves, Leaving DEF InHand
  <1>4. CASE UNCHANGED tracked /\ Finish(r)
    <2>1. snap' = snap /\ now' = now
      BY <1>4 DEF tracked
    <2> QED BY <1>1, <1>4, <2>1, AllTidy, Leaves, Leaving DEF InHand
  <1> QED BY <1>2, <1>3, <1>4

\* A renewed claim is the claim it was.
LEMMA KeptTidy ==
    ASSUME SInv, Single, NEW i \in Issues, Keeps(i), UNCHANGED <<root, craft>>,
           snap'[i].state \notin Waiting
    PROVE  \A j \in Issues : Tidy(j)'
  <1>1. session' = session /\ place' = place /\ root' = root /\ Wrote(i)
    BY DEF craft, Keeps
  <1>2. Tidy(i)'
    BY <1>1, TidyStays DEF Single
  <1> QED BY <1>1, <1>2, OthersTidy

\* What is claimed does not wait.
LEMMA ClaimedNotWaiting ==
    ASSUME SInv, NEW i \in Issues, Claimed(i)
    PROVE  snap[i].state \notin Waiting
  BY DEF SInv, IInv, ClaimMatchesState, HeldStates, Waiting

\* heartbeat
LEMMA BeatSingle ==
    ASSUME Sole, SInv, Single, NEW r \in Runners, Beat(r), UNCHANGED <<root, craft, faults>>
    PROVE  Single'
  <1> SUFFICES ASSUME NEW i, i = run[r].issue, NEW f, f = Fence(r), NEW at, at = run[r].at
               PROVE  Single'
    OBVIOUS
  <1>1. i \in Issues /\ at \in 0..now /\ moved' = moved
    BY HandType DEF faults
  <1>2. \/ Heartbeat(i, f, at) /\ Goto(r, "dispatch")
        \/ UNCHANGED tracked /\ Finish(r)
    BY DEF Beat, Call
  <1>3. CASE Heartbeat(i, f, at) /\ Goto(r, "dispatch")
    <2>1. Keeps(i) /\ snap'[i].state = snap[i].state
      BY <1>1, <1>3, HeartbeatCall DEF SInv
    <2>2. now' = now /\ Claimed(i)
      BY <2>1 DEF Keeps, Wrote
    <2>3. \A j \in Issues : Tidy(j)'
      BY <1>1, <2>1, <2>2, ClaimedNotWaiting, KeptTidy
    <2> QED BY <1>1, <1>3, <2>2, <2>3, Leaves, Leaving DEF InHand
  <1>4. CASE UNCHANGED tracked /\ Finish(r)
    <2>1. snap' = snap /\ now' = now
      BY <1>4 DEF tracked
    <2> QED BY <1>1, <1>4, <2>1, AllTidy, Leaves, Leaving DEF InHand
  <1> QED BY <1>2, <1>3, <1>4

\* A tick begins: the claim it finds is of the attempt that is at work, if any is.
LEMMA PollSingle ==
    ASSUME Sole, SInv, Single, NEW r \in Runners, Poll(r)
    PROVE  Single'
  <1>1. snap' = snap /\ now' = now /\ root' = root /\ place' = place /\ session' = session
    BY DEF Poll, tracked, craft
  <1>2. \A j \in Issues : Tidy(j)'
    BY <1>1, AllTidy DEF craft
  <1>3. now \in Int
    BY DEF SInv, IInv, TypeOK
  <1>4. CASE ActiveClaims = {}
    <2> SUFFICES ASSUME NEW z, z = Idle(now), NEW v, v = [z EXCEPT !.pc = "dispatch", !.at = now],
                        run' = [run EXCEPT ![r] = v]
                 PROVE  Single'
      BY <1>4 DEF Poll
    <2>1. z \in Runs
      BY <1>3, IdleType
    <2>2. v.pc = "dispatch"
      BY <2>1 DEF Runs
    <2>3. run'[r] = v
      BY TurnTo
    <2> QED BY <1>2, <2>2, <2>3, Leaving DEF InHand
  <1>5. CASE ActiveClaims # {}
    <2> DEFINE c == CHOOSE i \in ActiveClaims : TRUE
    <2>1. run' = [run EXCEPT ![r] =
                     [Idle(now) EXCEPT !.pc = "reconcile", !.at = now, !.issue = c,
                                       !.seen = snap[c], !.foreign = root[c] # RootOf(r)]]
      BY <1>5, Zenon DEF Poll
    <2>2. c \in Issues /\ Claimed(c)
      BY <1>5 DEF ActiveClaims
    <2> HIDE DEF c
    <2> SUFFICES ASSUME NEW i \in Issues, Claimed(i), NEW b, NEW s, s = snap[i],
                        NEW z, z = Idle(now), NEW v,
                        v = [z EXCEPT !.pc = "reconcile", !.at = now, !.issue = i, !.seen = s,
                                      !.foreign = b],
                        run' = [run EXCEPT ![r] = v]
                 PROVE  Single'
      BY <2>1, <2>2, Zenon
    <2>3. z \in Runs
      BY <1>3, IdleType
    <2>4. v.pc = "reconcile" /\ v.issue = i /\ v.seen = s
      BY <2>3 DEF Runs
    <2>5. run'[r] = v
      BY TurnTo
    <2>6. Has(v)'
      BY <1>1, <2>4 DEF Has, Holds, Claimed
    <2>7. snap[i].state \notin Waiting
      BY ClaimedNotWaiting
    <2>8. \A l \in Attempts : session[i][l].busy => l = s.claim.attempt
      BY DEF Single, Tidy
    <2>9. Sure(v)'
      <3>1. ~Found(v) /\ ~RanOut(v) /\ v.pc # "abort"
        BY <2>4 DEF Found, RanOut
      <3>2. Unstarted(v) => snap[i].state = "claimed"
        BY <2>4 DEF Unstarted
      <3> QED BY <1>1, <2>4, <2>6, <2>7, <2>8, <3>1, <3>2 DEF Sure
    <2>10. Sure(run[r])'
      BY <2>5, <2>9 DEF Sure, Has, Holds, Claimed, Status, Found, RanOut, Unstarted
    <2> QED BY <1>2, <2>10, SoleStep
  <1> QED BY <1>4, <1>5

\* What reconcile does with a claim: preserve it, fail it for good, renew it or look at its session.
LEMMA ReconcileSingle ==
    ASSUME Sole, SInv, Single, NEW r \in Runners, Reconcile(r)
    PROVE  Single'
  <1> SUFFICES ASSUME NEW i, i = run[r].issue, NEW k, k = Attempt(r), NEW q, q = run[r],
                      NEW at, at = q.at
               PROVE  Single'
    OBVIOUS
  <1>1. q.pc = "reconcile" /\ UNCHANGED <<root, craft, faults>>
    BY DEF Reconcile, At
  <1>2. q.pc \in InHand /\ "policy" \in FailureClasses /\ ~Retryable("policy")
    BY <1>1 DEF InHand, Pcs, FailureClasses, Retryable
  <1>3. /\ i \in Issues /\ at \in 0..now /\ at \in Nat /\ q \in Runs /\ k = q.seen.claim.attempt
        /\ Knows(q, RootOf(r))
    BY HandType DEF Attempt
  <1>4. k \in Attempts
    BY <1>2, <1>3 DEF Knows
  <1>5. Sure(q)
    BY DEF Single
  <1> DEFINE pc == IF q.seen.state = "claimed" THEN "resume" ELSE "judge"
             status == Status(i, k, at)
  <1>6. \/ Preserve(r) \/ Fail(r, "policy", at) \/ Beat(r)
        \/ /\ run' = [run EXCEPT ![r].pc = pc, ![r].status = status] /\ UNCHANGED tracked
           /\ q.seen.state \in {"claimed", "running"}
    BY DEF Reconcile
  <1>7. CASE Preserve(r)
    BY <1>1, <1>7, PreserveSingle
  <1>8. CASE Fail(r, "policy", at)
    BY <1>1, <1>2, <1>3, <1>8, FailSingle
  <1>9. CASE Beat(r)
    BY <1>1, <1>9, BeatSingle
  <1>10. CASE /\ run' = [run EXCEPT ![r].pc = pc, ![r].status = status] /\ UNCHANGED tracked
              /\ q.seen.state \in {"claimed", "running"}
    <2>1. snap' = snap /\ now' = now /\ session' = session
      BY <1>1, <1>10 DEF tracked, craft
    <2>2. \A j \in Issues : Tidy(j)'
      BY <1>1, <2>1, AllTidy
    <2>3. status \in SessionStates
      BY <1>3, <1>4, StatusType
    <2>4. \/ pc = "resume" /\ q.seen.state = "claimed"
          \/ pc = "judge" /\ q.seen.state = "running"
      BY <1>10
    <2>5. pc \in InHand \ {"reconcile"}
      BY DEF InHand, Pcs
    <2>6. status = "deadline" \/ status = session[i][k].status
      BY DEF Status
    <2>7. Status(i, k, run[r].at) = status
      OBVIOUS
    <2> HIDE DEF pc, status
    <2> SUFFICES ASSUME NEW p \in InHand \ {"reconcile"}, p = pc, NEW st \in SessionStates, st = status,
                        NEW v, v = [run[r] EXCEPT !.pc = p, !.status = st],
                        run' = [run EXCEPT ![r] = v]
                 PROVE  Single'
      BY <1>10, <2>3, <2>5
    <2>8. v.pc = p /\ v.status = st /\ v.seen = q.seen
      BY <1>3 DEF Runs
    <2>9. /\ \A l \in Attempts : session'[i][l].busy => l = k
          /\ Unstarted(v) /\ Has(run[r]) => snap[i].state = "claimed"
      <3>1. \A l \in Attempts : session[i][l].busy => l = k
        BY <1>2, <1>3, <1>5 DEF Sure
      <3>2. Unstarted(v) => Unstarted(q)
        BY <1>1, <2>4, <2>8 DEF Unstarted
      <3> QED BY <1>2, <1>5, <2>1, <3>1, <3>2 DEF Sure
    <2>10. p # "abort"
      BY <2>4
    <2>11. Found(v) => session'[i][k].status # "running"
      <3>1. Found(v) => st \in {"absent", "failed", "settled"}
        BY <2>4, <2>8 DEF Found
      <3> QED BY <2>1, <2>6, <3>1
    <2>12. RanOut(v) => Status(i, k, run[r].at) # "running"
      <3>1. RanOut(v) => st \in {"ended-without-response", "deadline"}
        BY <2>4, <2>8 DEF RanOut
      <3> QED BY <2>7, <3>1
    <2>13. st \in SessionStates \cup {"cancel-deadline"}
      OBVIOUS
    <2> QED BY <1>2, <2>1, <2>2, <2>9, <2>10, <2>11, <2>12, <2>13, Going
  <1> QED BY <1>6, <1>7, <1>8, <1>9, <1>10

\* A runner goes where it has to know no more than before.
LEMMA GoingOn ==
    ASSUME Sole, SInv, Single, NEW r \in Runners, run[r].pc \in InHand,
           NEW pc \in {"workspace", "session", "mark", "abort", "cancel"}, Goto(r, pc),
           NEW i, i = run[r].issue, NEW k, k = Attempt(r),
           snap' = snap, \A j \in Issues : Tidy(j)', \A l \in Attempts : session'[i][l].busy => l = k,
           pc \in {"workspace", "session", "mark"} => Unstarted(run[r]),
           pc = "abort" => ~Has(run[r]),
           pc = "cancel" => session' = session /\ Status(i, k, run[r].at) # "running"
    PROVE  Single'
  <1>1. run[r] \in Runs /\ run[r].status \in SessionStates \cup {"cancel-deadline"}
    BY HandType
  <1> SUFFICES ASSUME NEW st, st = run[r].status, NEW v, v = [run[r] EXCEPT !.pc = pc, !.status = st],
                      run' = [run EXCEPT ![r] = v]
               PROVE  Single'
    <2>1. [run[r] EXCEPT !.pc = pc] = [run[r] EXCEPT !.pc = pc, !.status = run[r].status]
      BY <1>1 DEF Runs
    <2> QED BY <2>1 DEF Goto
  <1>2. v.pc = pc /\ v.seen = run[r].seen /\ pc \in InHand \ {"reconcile"}
    BY <1>1 DEF Runs, InHand, Pcs
  <1>3. ~Found(v) /\ (RanOut(v) => pc = "cancel")
    BY <1>2 DEF Found, RanOut
  <1>4. Unstarted(v) /\ Has(run[r]) => snap[i].state = "claimed"
    <2>1. Unstarted(v) => Unstarted(run[r])
      BY <1>2 DEF Unstarted
    <2> QED BY <2>1 DEF Single, Sure
  <1> QED BY <1>1, <1>2, <1>3, <1>4, Going

\* What is sure of the session in hand.
LEMMA OneAtWork ==
    ASSUME SInv, Single, NEW r \in Runners, run[r].pc \in InHand, NEW i, i = run[r].issue,
           NEW k, k = Attempt(r)
    PROVE  /\ i \in Issues /\ Sure(run[r]) /\ Tidy(i) /\ k \in Attempts /\ k = run[r].seen.claim.attempt
           /\ \A l \in Attempts : session[i][l].busy => l = k
           /\ session[i][k].status # "running" => \A l \in Attempts : ~session[i][l].busy
  <1>1. i \in Issues /\ Sure(run[r]) /\ Tidy(i) /\ k = run[r].seen.claim.attempt /\ k \in Attempts
    BY HandType DEF Single, Attempt, Knows
  <1>2. \A l \in Attempts : session[i][l].busy => l = k
    BY <1>1 DEF Sure
  <1>3. session[i][k].busy => session[i][k].status = "running"
    BY <1>1 DEF Tidy
  <1> QED BY <1>1, <1>2, <1>3

\* A claim without a session is failed, any other is started again.
LEMMA ResumeSingle ==
    ASSUME Sole, SInv, Single, NEW r \in Runners, Resume(r)
    PROVE  Single'
  <1> SUFFICES ASSUME NEW i, i = run[r].issue, NEW k, k = Attempt(r), NEW at, at = run[r].at
               PROVE  Single'
    OBVIOUS
  <1>1. run[r].pc = "resume" /\ UNCHANGED <<root, craft, faults>> /\ session' = session
    BY DEF Resume, At, craft
  <1>2. run[r].pc \in InHand /\ "runtime" \in FailureClasses /\ Unstarted(run[r])
    BY <1>1 DEF InHand, Pcs, FailureClasses, Unstarted
  <1>3. /\ at \in 0..now /\ Sure(run[r]) /\ k = run[r].seen.claim.attempt
        /\ \A l \in Attempts : session[i][l].busy => l = k
        /\ session[i][k].status # "running" => \A l \in Attempts : ~session[i][l].busy
    BY <1>2, OneAtWork, HandType
  <1>4. \/ run[r].status = "absent" /\ Fail(r, "runtime", at)
        \/ Goto(r, "workspace") /\ UNCHANGED tracked
    BY DEF Resume
  <1>5. CASE run[r].status = "absent" /\ Fail(r, "runtime", at)
    <2>1. Found(run[r])
      BY <1>1, <1>5 DEF Found
    <2>2. session[i][k].status # "running"
      BY <1>2, <1>3, <2>1 DEF Sure
    <2> QED BY <1>1, <1>2, <1>3, <1>5, <2>2, FailSingle
  <1>6. CASE Goto(r, "workspace") /\ UNCHANGED tracked
    <2>1. snap' = snap
      BY <1>6 DEF tracked
    <2>2. \A j \in Issues : Tidy(j)'
      BY <1>1, <2>1, AllTidy
    <2> QED BY <1>1, <1>2, <1>3, <1>6, <2>1, <2>2, GoingOn
  <1> QED BY <1>4, <1>5, <1>6

\* A claim whose session is over is failed, one whose turn has run out is cancelled first.
LEMMA JudgeSingle ==
    ASSUME Sole, SInv, Single, NEW r \in Runners, Judge(r)
    PROVE  Single'
  <1> SUFFICES ASSUME NEW i, i = run[r].issue, NEW k, k = Attempt(r), NEW q, q = run[r],
                      NEW at, at = q.at
               PROVE  Single'
    OBVIOUS
  <1>1. q.pc = "judge" /\ UNCHANGED <<root, craft, faults>> /\ session' = session /\ moved' = moved
    BY DEF Judge, At, craft, faults
  <1>2. q.pc \in InHand /\ "runtime" \in FailureClasses
    BY <1>1 DEF InHand, Pcs, FailureClasses
  <1>3. /\ at \in 0..now /\ Sure(q) /\ k = q.seen.claim.attempt /\ i \in Issues
        /\ \A l \in Attempts : session[i][l].busy => l = k
        /\ session[i][k].status # "running" => \A l \in Attempts : ~session[i][l].busy
    BY <1>2, OneAtWork, HandType
  <1>4. q.status \in SessionStates
    BY <1>1, <1>2, HandType DEF Knows
  <1>5. \/ q.status \in {"ended-without-response", "deadline"} /\ Goto(r, "cancel") /\ UNCHANGED tracked
        \/ Beat(r)
        \/ q.status \in {"absent", "failed", "settled"} /\ Fail(r, "runtime", at)
        \/ Goto(r, "dispatch") /\ UNCHANGED tracked
    BY <1>4 DEF Judge, SessionStates
  <1>6. CASE q.status \in {"ended-without-response", "deadline"} /\ Goto(r, "cancel") /\ UNCHANGED tracked
    <2>1. snap' = snap
      BY <1>6 DEF tracked
    <2>2. \A j \in Issues : Tidy(j)'
      BY <1>1, <2>1, AllTidy
    <2>3. Status(i, k, run[r].at) # "running"
      <3>1. RanOut(q)
        BY <1>1, <1>6 DEF RanOut
      <3> QED BY <1>2, <1>3, <3>1 DEF Sure
    <2>4. \A l \in Attempts : session'[i][l].busy => l = k
      BY <1>1, <1>3
    <2>5. run[r].pc \in InHand /\ Goto(r, "cancel") /\ session' = session
      BY <1>1, <1>2, <1>6
    <2> QED BY <2>1, <2>2, <2>3, <2>4, <2>5, GoingOn
  <1>7. CASE Beat(r)
    BY <1>1, <1>7, BeatSingle
  <1>8. CASE q.status \in {"absent", "failed", "settled"} /\ Fail(r, "runtime", at)
    <2>1. Found(q)
      BY <1>1, <1>8 DEF Found
    <2>2. session[i][k].status # "running"
      BY <1>2, <1>3, <2>1 DEF Sure
    <2> QED BY <1>1, <1>2, <1>3, <1>8, <2>2, FailSingle
  <1>9. CASE Goto(r, "dispatch") /\ UNCHANGED tracked
    <2>1. snap' = snap /\ now' = now
      BY <1>9 DEF tracked
    <2> QED BY <1>1, <1>9, <2>1, AllTidy, Leaves, Leaving DEF InHand
  <1> QED BY <1>5, <1>6, <1>7, <1>8, <1>9

\* A session that has stopped, or come to an end, is at work no more, and no other is disturbed.
LEMMA EndedTidy ==
    ASSUME SInv, Single, NEW i \in Issues, NEW k \in Attempts, SessionTurns(i, k),
           ~session'[i][k].busy, snap' = snap, root' = root, place' = place
    PROVE  \A j \in Issues : Tidy(j)'
  <1>1. \A j \in Issues : \A l \in Attempts :
             session'[j][l].busy => session[j][l].busy /\ session'[j][l] = session[j][l]
    BY DEF SessionTurns
  <1> SUFFICES ASSUME NEW j \in Issues PROVE Tidy(j)'
    OBVIOUS
  <1>2. Tidy(j) /\ snap'[j] = snap[j] /\ root'[j] = root[j] /\ place'[j] = place[j]
    BY DEF Single
  <1>3. Claimed(j)' <=> Claimed(j)
    BY <1>2 DEF Claimed
  <1> QED BY <1>1, <1>2, <1>3 DEF Tidy

\* cancel reports that the turn has ended, or stops it, or says that it could not.
LEMMA CancelSingle ==
    ASSUME Sole, SInv, Single, NEW r \in Runners, Cancel(r)
    PROVE  Single'
  <1> SUFFICES ASSUME NEW i, i = run[r].issue, NEW k, k = Attempt(r),
                      NEW status, status = Status(i, k, run[r].at)
               PROVE  Single'
    OBVIOUS
  <1>1. run[r].pc = "cancel" /\ UNCHANGED <<tracked, root, place, faults>>
    BY DEF Cancel, At
  <1>2. snap' = snap /\ root' = root /\ place' = place
    BY <1>1 DEF tracked
  <1>3. run[r].pc \in InHand /\ "stopped" \in InHand \ {"reconcile"} /\ RanOut(run[r])
    BY <1>1 DEF InHand, Pcs, RanOut
  <1>4. /\ i \in Issues /\ k \in Attempts /\ k = run[r].seen.claim.attempt /\ run[r].at \in Nat
        /\ Sure(run[r]) /\ \A l \in Attempts : session[i][l].busy => l = k
    BY <1>3, OneAtWork, HandType
  <1>5. status # "running" /\ status \in SessionStates
    BY <1>3, <1>4, StatusType DEF Sure
  <1>6. ASSUME NEW result \in SessionStates \cup {"cancel-deadline"},
               run' = [run EXCEPT ![r].pc = "stopped", ![r].status = result],
               \A j \in Issues : Tidy(j)', \A l \in Attempts : session'[i][l].busy => l = k,
               result # "cancel-deadline" => session'[i][k].status # "running"
        PROVE  Single'
    <2> SUFFICES ASSUME NEW p \in InHand \ {"reconcile"}, p = "stopped",
                        NEW v, v = [run[r] EXCEPT !.pc = p, !.status = result],
                        run' = [run EXCEPT ![r] = v]
                 PROVE  Single'
      BY <1>3, <1>6
    <2>1. run[r] \in Runs
      BY HandType
    <2>2. v.pc = "stopped" /\ v.status = result
      BY <2>1 DEF Runs
    <2>3. ~Unstarted(v) /\ ~RanOut(v) /\ (Found(v) => result # "cancel-deadline")
      BY <2>2 DEF Unstarted, RanOut, Found
    <2>4. Found(v) => session'[i][k].status # "running"
      BY <1>6, <2>3
    <2>5. /\ \A j \in Issues : Tidy(j)'
          /\ \A l \in Attempts : session'[i][l].busy => l = k
      BY <1>6
    <2>6. /\ Unstarted(v) /\ Has(run[r]) => snap[i].state = "claimed"
          /\ p = "abort" => ~Has(run[r])
          /\ RanOut(v) => session' = session /\ Status(i, k, run[r].at) # "running"
      BY <2>3
    <2>7. run[r].pc \in InHand /\ snap' = snap
      BY <1>2, <1>3
    <2> QED BY <2>4, <2>5, <2>6, <2>7, Going
  <1>7. CASE session' = session
    <2>1. \A j \in Issues : Tidy(j)'
      BY <1>2, <1>7, AllTidy DEF craft
    <2>2. \/ /\ run' = [run EXCEPT ![r].pc = "stopped", ![r].status = status] /\ status # "deadline"
          \/ run' = [run EXCEPT ![r].pc = "stopped", ![r].status = "cancel-deadline"]
          \/ /\ run' = [run EXCEPT ![r].pc = "stopped", ![r].status = status] /\ status = "deadline"
             /\ session' = [session EXCEPT ![i][k] = [@ EXCEPT !.status = "deadline", !.busy = FALSE]]
      BY DEF Cancel
    <2>3. CASE run' = [run EXCEPT ![r].pc = "stopped", ![r].status = status] /\ status # "deadline"
      <3>1. session[i][k].status # "running"
        BY <1>5, <2>3 DEF Status
      <3> QED BY <1>4, <1>5, <1>6, <1>7, <2>1, <2>3, <3>1
    <2>4. CASE run' = [run EXCEPT ![r].pc = "stopped", ![r].status = "cancel-deadline"]
      BY <1>4, <1>6, <1>7, <2>1, <2>4
    <2>5. CASE /\ run' = [run EXCEPT ![r].pc = "stopped", ![r].status = status] /\ status = "deadline"
               /\ session' = [session EXCEPT ![i][k] = [@ EXCEPT !.status = "deadline", !.busy = FALSE]]
      <3>1. session'[i][k].status = "deadline"
        <4>1. session[i][k] \in Sessions
          BY <1>4, PlaceType
        <4>2. [session[i][k] EXCEPT !.status = "deadline", !.busy = FALSE].status = "deadline"
          BY <4>1, DeadlineSession
        <4> DEFINE e == [session[i][k] EXCEPT !.status = "deadline", !.busy = FALSE]
        <4>3. session' = [session EXCEPT ![i][k] = e] /\ e.status = "deadline"
          BY <2>5, <4>2
        <4> HIDE DEF e
        <4> QED BY <1>4, <4>3 DEF SInv, Surroundings
      <3> QED BY <1>4, <1>5, <1>6, <1>7, <2>1, <2>5, <3>1
    <2> QED BY <2>2, <2>3, <2>4, <2>5
  <1>8. CASE /\ run' = [run EXCEPT ![r].pc = "stopped", ![r].status = status]
             /\ session' = [session EXCEPT ![i][k] = [@ EXCEPT !.status = "deadline", !.busy = FALSE]]
    <2> DEFINE e == [session[i][k] EXCEPT !.status = "deadline", !.busy = FALSE]
    <2>1. session[i][k] \in Sessions /\ session' = [session EXCEPT ![i][k] = e]
      BY <1>4, <1>8, PlaceType
    <2>2. e \in Sessions /\ e # NoSession /\ e.status = "deadline" /\ ~e.busy
      BY <2>1, DeadlineSession
    <2> HIDE DEF e
    <2>3. SessionTurns(i, k)
      BY <1>4, <2>1, <2>2, SessionUpdate
    <2>4. session'[i][k] = e
      BY <1>4, <2>1 DEF SInv, Surroundings
    <2>5. \A j \in Issues : Tidy(j)'
      BY <1>2, <1>4, <2>2, <2>3, <2>4, EndedTidy
    <2>6. \A l \in Attempts : session'[i][l].busy => l = k
      BY <1>4, <2>3 DEF SessionTurns
    <2>7. session'[i][k].status # "running"
      BY <2>2, <2>4
    <2> QED BY <1>5, <1>6, <1>8, <2>5, <2>6, <2>7
  <1> QED BY <1>7, <1>8 DEF Cancel

\* What has stopped is failed, and nobody is at work; what has not is preserved.
LEMMA StoppedSingle ==
    ASSUME Sole, SInv, Single, NEW r \in Runners, Stopped(r)
    PROVE  Single'
  <1> SUFFICES ASSUME NEW i, i = run[r].issue, NEW k, k = Attempt(r), NEW at, at = run[r].at
               PROVE  Single'
    OBVIOUS
  <1>1. run[r].pc = "stopped" /\ UNCHANGED <<root, craft, faults>>
    BY DEF Stopped, At
  <1>2. run[r].pc \in InHand /\ "runtime" \in FailureClasses
    BY <1>1 DEF InHand, Pcs, FailureClasses
  <1>3. /\ at \in 0..now /\ Sure(run[r]) /\ k = run[r].seen.claim.attempt
        /\ session[i][k].status # "running" => \A l \in Attempts : ~session[i][l].busy
    BY <1>2, OneAtWork, HandType
  <1>4. CASE Preserve(r)
    BY <1>1, <1>4, PreserveSingle
  <1>5. CASE run[r].status # "cancel-deadline" /\ Fail(r, "runtime", at)
    <2>1. Found(run[r])
      BY <1>1, <1>5 DEF Found
    <2>2. session[i][k].status # "running"
      BY <1>2, <1>3, <2>1 DEF Sure
    <2> QED BY <1>1, <1>2, <1>3, <1>5, <2>2, FailSingle
  <1> QED BY <1>4, <1>5 DEF Stopped

\* A start is given up only when the claim is gone.
LEMMA AbortSingle ==
    ASSUME Sole, SInv, Single, NEW r \in Runners, Abort(r)
    PROVE  Single'
  <1>1. run[r].pc = "abort" /\ UNCHANGED <<root, craft, faults>> /\ Fail(r, "runtime", now)
    BY DEF Abort, At
  <1>2. run[r].pc \in InHand /\ "runtime" \in FailureClasses /\ now \in 0..now
    BY <1>1 DEF InHand, Pcs, FailureClasses, SInv, IInv, TypeOK
  <1>3. ~Has(run[r])
    BY <1>1, <1>2 DEF Single, Sure
  <1> QED BY <1>1, <1>2, <1>3, FailSingle

\* Candidates are read,
LEMMA DispatchSingle ==
    ASSUME Sole, SInv, Single, NEW r \in Runners, Dispatch(r)
    PROVE  Single'
  <1>1. /\ run[r].pc = "dispatch" /\ snap' = snap /\ now' = now /\ moved' = moved
        /\ UNCHANGED <<root, craft>>
    BY DEF Dispatch, At, tracked, faults
  <1>2. \A j \in Issues : Tidy(j)'
    BY <1>1, AllTidy
  <1>3. CASE Finish(r)
    BY <1>1, <1>2, <1>3, Leaves, Leaving DEF InHand
  <1>4. CASE ~Finish(r)
    <2> SUFFICES ASSUME NEW todo, NEW v, v = [run[r] EXCEPT !.pc = "claim", !.todo = todo],
                        run' = [run EXCEPT ![r] = v]
                 PROVE  Single'
      BY <1>4 DEF Dispatch
    <2>1. run[r] \in Runs
      BY HandType
    <2>2. v.pc = "claim"
      BY <2>1 DEF Runs
    <2>3. run'[r] = v
      BY TurnTo
    <2> QED BY <1>2, <2>2, <2>3, Leaving DEF InHand
  <1> QED BY <1>3, <1>4

\* and claimed: nobody is at work on what was waiting, and its next attempt has no place yet.
LEMMA ClaimingSingle ==
    ASSUME Sole, SInv, SInv', Single, NEW r \in Runners, run[r].pc = "claim",
           NEW i \in Issues, NEW w, NEW attempt, TryClaim(i, w, attempt, now),
           NEW home, root' = [root EXCEPT ![i] = home],
           run' = [run EXCEPT ![r].pc = "workspace", ![r].issue = i, ![r].seen = snap'[i],
                              ![r].foreign = FALSE, ![r].todo = {}],
           UNCHANGED craft
    PROVE  Single'
  <1>1. Grants(i) /\ snap[i].state \in Waiting
    BY ClaimCall DEF SInv, Waiting
  <1>2. session' = session /\ place' = place
    BY DEF craft
  <1>3. \A j \in Issues : j # i => snap'[j] = snap[j] /\ root'[j] = root[j]
    BY <1>1 DEF Grants, Wrote, SInv, Surroundings
  <1>4. snap'[i].claim.attempt = NextAttempt(snap[i]) /\ snap'[i].state = "claimed"
    BY <1>1 DEF Grants
  <1>5. /\ \A l \in Attempts : ~session[i][l].busy
        /\ \A l \in Attempts : l >= NextAttempt(snap[i]) => place[i][l] = "none"
        /\ \A l \in Attempts : session[i][l].busy => session[i][l].status = "running"
    BY <1>1 DEF Single, Tidy
  <1>6. NextAttempt(snap[i]) \in Nat
    BY SnapshotType DEF NextAttempt, SInv, IInv, Retries
  <1>7. Tidy(i)'
    <2>1. \A l \in Attempts : l >= snap'[i].claim.attempt => place[i][l] = "none"
      BY <1>4, <1>5
    <2>2. \A l \in Attempts : /\ l > snap'[i].claim.attempt => place[i][l] = "none"
                              /\ l = snap'[i].claim.attempt => place[i][l] = "none"
      BY <1>4, <1>6, <2>1 DEF Attempts
    <2> QED BY <1>2, <1>4, <1>5, <2>2 DEF Tidy, Waiting
  <1>8. \A j \in Issues : Tidy(j)'
    <2> SUFFICES ASSUME NEW j \in Issues, j # i PROVE Tidy(j)'
      BY <1>7
    <2>1. snap'[j] = snap[j] /\ root'[j] = root[j] /\ session'[j] = session[j] /\ place'[j] = place[j]
      BY <1>2, <1>3
    <2> QED BY <2>1, TidyStays DEF Single
  <1> SUFFICES ASSUME NEW s, s = snap'[i], NEW z, z = run[r], NEW v,
                      v = [z EXCEPT !.pc = "workspace", !.issue = i, !.seen = s, !.foreign = FALSE,
                                    !.todo = {}],
                      run' = [run EXCEPT ![r] = v]
               PROVE  Single'
    OBVIOUS
  <1>9. z \in Runs
    BY HandType
  <1>10. v.pc = "workspace" /\ v.issue = i /\ v.seen = s
    BY <1>9 DEF Runs
  <1>11. run'[r] = v
    BY TurnTo
  <1>12. Sure(v)'
    <2>1. Has(v)'
      BY <1>1, <1>10 DEF Has, Holds, Claimed, Grants
    <2>2. ~Found(v) /\ ~RanOut(v)
      BY <1>10 DEF Found, RanOut
    <2> QED BY <1>2, <1>4, <1>5, <1>10, <2>1, <2>2 DEF Sure, Waiting
  <1>13. Sure(run[r])'
    BY <1>11, <1>12 DEF Sure, Has, Holds, Claimed, Status, Found, RanOut, Unstarted
  <1> QED BY <1>8, <1>13, SoleStep

\* Whatever comes of the candidates.
LEMMA ClaimSingle ==
    ASSUME Sole, SInv, SInv', Single, NEW r \in Runners, Claim(r)
    PROVE  Single'
  <1> SUFFICES ASSUME NEW due, due = {d \in run[r].todo : Due(d.seen)},
                      NEW c, c = CHOOSE d \in due : \A e \in due : d.issue <= e.issue
               PROVE  Single'
    OBVIOUS
  <1>1. run[r].pc = "claim" /\ UNCHANGED craft /\ run[r] \in Runs /\ moved' = moved
        /\ run[r].todo \in SUBSET [issue : Issues, seen : Snapshots]
    BY HandType DEF Claim, At, Runs, faults
  <1>2. \/ Finish(r) /\ UNCHANGED <<tracked, root>>
        \/ /\ due # {} /\ TryClaim(c.issue, c.seen.version, NextAttempt(c.seen), now)
           /\ root' = [root EXCEPT ![c.issue] = RootOf(r)]
           /\ run' = [run EXCEPT ![r].pc = "workspace", ![r].issue = c.issue,
                                 ![r].seen = snap'[c.issue], ![r].foreign = FALSE, ![r].todo = {}]
        \/ run' = [run EXCEPT ![r].todo = @ \ {c}] /\ UNCHANGED <<tracked, root>>
    BY DEF Claim
  <1>3. CASE Finish(r) /\ UNCHANGED <<tracked, root>>
    <2>1. snap' = snap /\ now' = now
      BY <1>3 DEF tracked
    <2> QED BY <1>1, <1>3, <2>1, AllTidy, Leaves, Leaving DEF InHand
  <1>4. CASE /\ due # {} /\ TryClaim(c.issue, c.seen.version, NextAttempt(c.seen), now)
             /\ root' = [root EXCEPT ![c.issue] = RootOf(r)]
             /\ run' = [run EXCEPT ![r].pc = "workspace", ![r].issue = c.issue,
                                   ![r].seen = snap'[c.issue], ![r].foreign = FALSE, ![r].todo = {}]
    <2>1. c.issue \in Issues
      <3>1. due \in SUBSET [issue : Issues, seen : Snapshots] /\ due # {}
        BY <1>1, <1>4
      <3> QED BY <3>1, FirstDue
    <2> SUFFICES ASSUME NEW i \in Issues, NEW w, NEW attempt, TryClaim(i, w, attempt, now),
                        NEW home, root' = [root EXCEPT ![i] = home],
                        run' = [run EXCEPT ![r].pc = "workspace", ![r].issue = i, ![r].seen = snap'[i],
                                           ![r].foreign = FALSE, ![r].todo = {}]
                 PROVE  Single'
      BY <1>4, <2>1
    <2> QED BY <1>1, ClaimingSingle
  <1>5. CASE run' = [run EXCEPT ![r].todo = @ \ {c}] /\ UNCHANGED <<tracked, root>>
    <2> SUFFICES ASSUME NEW v, v = [run[r] EXCEPT !.todo = @ \ {c}], run' = [run EXCEPT ![r] = v]
                 PROVE  Single'
      BY <1>5
    <2>1. v.pc = "claim"
      BY <1>1 DEF Runs
    <2>2. run'[r] = v /\ snap' = snap
      BY <1>5, TurnTo DEF tracked
    <2> QED BY <1>1, <1>5, <2>1, <2>2, AllTidy, Leaving DEF InHand
  <1> QED BY <1>2, <1>3, <1>4, <1>5

\* The workspace of the claim is the runner's own; another's is met only when the claim is gone.
LEMMA WorkspaceSingle ==
    ASSUME Sole, SInv, Single, NEW r \in Runners, EnsureWorkspace(r)
    PROVE  Single'
  <1> SUFFICES ASSUME NEW i, i = run[r].issue, NEW k, k = Attempt(r), NEW home, home = RootOf(r)
               PROVE  Single'
    OBVIOUS
  <1>1. /\ run[r].pc = "workspace" /\ snap' = snap /\ root' = root /\ session' = session
    BY DEF EnsureWorkspace, At, tracked
  <1>2. run[r].pc \in InHand /\ run[r].pc # "reconcile" /\ Unstarted(run[r])
    BY <1>1 DEF InHand, Pcs, Unstarted
  <1>3. /\ i \in Issues /\ Sure(run[r]) /\ Tidy(i) /\ k \in Attempts
        /\ \A l \in Attempts : session[i][l].busy => l = k
        /\ k = run[r].seen.claim.attempt /\ run[r].issue = i
    BY <1>2, OneAtWork
  <1>4. Has(run[r]) => snap[i].claim.attempt = k /\ root[i] = home
    BY <1>2, NotForeign
  <1>5. (Claimed(i) => Has(run[r])) /\ snap[i].state \notin Waiting
    BY <1>2, <1>3 DEF Sure
  <1>6. CASE place[i][k] \in {"none", home}
    <2>1. place' = [place EXCEPT ![i][k] = home] /\ Goto(r, "session")
      BY <1>6 DEF EnsureWorkspace
    <2>2. /\ place'[i][k] = home
          /\ \A l \in Attempts : l # k => place'[i][l] = place[i][l]
          /\ \A j \in Issues : j # i => place'[j] = place[j]
      BY <1>3, <2>1 DEF SInv, Surroundings
    <2>3. Tidy(i)'
      <3>1. CASE Claimed(i)
        <4>1. snap[i].claim.attempt = k /\ root[i] = home
          BY <1>4, <1>5, <3>1
        <4>2. \A l \in Attempts : /\ l > k => place[i][l] = "none"
                                  /\ ~(k > k)
          BY <1>3, <3>1, <4>1 DEF Tidy, Attempts
        <4> QED BY <1>1, <1>3, <1>5, <2>2, <3>1, <4>1, <4>2 DEF Tidy, Claimed
      <3>2. CASE ~Claimed(i)
        BY <1>1, <1>3, <1>5, <3>2 DEF Tidy, Claimed
      <3> QED BY <3>1, <3>2
    <2>4. \A j \in Issues : Tidy(j)'
      <3> SUFFICES ASSUME NEW j \in Issues, j # i PROVE Tidy(j)'
        BY <2>3
      <3>1. snap'[j] = snap[j] /\ root'[j] = root[j] /\ session'[j] = session[j] /\ place'[j] = place[j]
        BY <1>1, <2>2
      <3> QED BY <3>1, TidyStays DEF Single
    <2>5. \A l \in Attempts : session'[i][l].busy => l = k
      BY <1>1, <1>3
    <2> QED BY <1>1, <1>2, <2>1, <2>4, <2>5, GoingOn
  <1>7. CASE place[i][k] \notin {"none", home}
    <2>1. place' = place /\ Goto(r, "abort")
      BY <1>7 DEF EnsureWorkspace
    <2>2. ~Has(run[r])
      <3> SUFFICES ASSUME Has(run[r]) PROVE FALSE
        OBVIOUS
      <3>1. Claimed(i) /\ snap[i].claim.attempt = k /\ root[i] = home
        BY <1>3, <1>4 DEF Has, Holds
      <3> QED BY <1>3, <1>7, <3>1 DEF Tidy
    <2>3. \A j \in Issues : Tidy(j)'
      BY <1>1, <2>1, AllTidy DEF craft
    <2>4. \A l \in Attempts : session'[i][l].busy => l = k
      BY <1>1, <1>3
    <2> QED BY <1>1, <1>2, <2>1, <2>2, <2>3, <2>4, GoingOn
  <1> QED BY <1>6, <1>7

\* The session of the attempt is found, or made while no other is at work.
LEMMA SessionSingle ==
    ASSUME Sole, SInv, Single, NEW r \in Runners, EnsureSession(r)
    PROVE  Single'
  <1> SUFFICES ASSUME NEW i, i = run[r].issue, NEW k, k = Attempt(r)
               PROVE  Single'
    OBVIOUS
  <1>1. /\ run[r].pc = "session" /\ snap' = snap /\ root' = root /\ place' = place
        /\ session' = [session EXCEPT ![i][k] = Ensured(@)] /\ Goto(r, "mark")
    BY DEF EnsureSession, At, tracked
  <1>2. run[r].pc \in InHand /\ run[r].pc # "reconcile" /\ Unstarted(run[r])
    BY <1>1 DEF InHand, Pcs, Unstarted
  <1>3. /\ i \in Issues /\ Sure(run[r]) /\ Tidy(i) /\ k \in Attempts
        /\ \A l \in Attempts : session[i][l].busy => l = k
    BY <1>2, OneAtWork
  <1>4. Has(run[r]) => snap[i].claim.attempt = k
    BY <1>2, NotForeign
  <1>5. (Claimed(i) => Has(run[r])) /\ snap[i].state \notin Waiting
    BY <1>2, <1>3 DEF Sure
  <1>6. /\ SessionTurns(i, k) /\ session'[i][k] = Ensured(session[i][k])
    BY <1>1, <1>3, EnsuredSession
  <1>7. \A l \in Attempts : l # k => ~session'[i][l].busy
    BY <1>3, <1>6 DEF SessionTurns
  <1>8. session'[i][k].busy => session'[i][k].status = "running"
    <2>1. CASE session[i][k] = NoSession
      <3>1. session'[i][k] = [status |-> "running", busy |-> TRUE, since |-> now]
        BY <1>6, <2>1 DEF Ensured
      <3>2. session'[i][k].status = "running"
        BY <3>1
      <3> QED BY <3>2
    <2>2. CASE session[i][k] # NoSession
      <3>1. session'[i][k] = session[i][k]
        BY <1>6, <2>2 DEF Ensured
      <3> QED BY <1>3, <3>1 DEF Tidy
    <2> QED BY <2>1, <2>2
  <1>9. Tidy(i)'
    <2>1. \A l \in Attempts : session'[i][l].busy => l = k /\ session'[i][l].status = "running"
      BY <1>7, <1>8
    <2>2. CASE Claimed(i)
      <3>1. snap[i].claim.attempt = k
        BY <1>4, <1>5, <2>2
      <3> QED BY <1>1, <1>3, <1>5, <2>1, <2>2, <3>1 DEF Tidy, Claimed
    <2>3. CASE ~Claimed(i)
      BY <1>1, <1>5, <2>1, <2>3 DEF Tidy, Claimed
    <2> QED BY <2>2, <2>3
  <1>10. \A j \in Issues : Tidy(j)'
    <2> SUFFICES ASSUME NEW j \in Issues, j # i PROVE Tidy(j)'
      BY <1>9
    <2>1. snap'[j] = snap[j] /\ root'[j] = root[j] /\ place'[j] = place[j] /\ Tidy(j)
      BY <1>1 DEF Single
    <2>2. \A l \in Attempts : session'[j][l] = session[j][l]
      BY <1>6 DEF SessionTurns
    <2>3. Claimed(j)' <=> Claimed(j)
      BY <2>1 DEF Claimed
    <2> QED BY <2>1, <2>2, <2>3 DEF Tidy
  <1>11. \A l \in Attempts : session'[i][l].busy => l = k
    BY <1>7
  <1> QED BY <1>1, <1>2, <1>10, <1>11, GoingOn

\* The issue runs, or the runner has lost it.
LEMMA MarkSingle ==
    ASSUME Sole, SInv, Single, NEW r \in Runners, Mark(r)
    PROVE  Single'
  <1> SUFFICES ASSUME NEW i, i = run[r].issue, NEW f, f = Fence(r), NEW k, k = Attempt(r)
               PROVE  Single'
    OBVIOUS
  <1>1. run[r].pc = "mark" /\ UNCHANGED <<root, craft, faults>> /\ session' = session /\ moved' = moved
    BY DEF Mark, At, craft, faults
  <1>2. run[r].pc \in InHand /\ Unstarted(run[r])
    BY <1>1 DEF InHand, Pcs, Unstarted
  <1>3. /\ i \in Issues /\ Sure(run[r]) /\ \A l \in Attempts : session[i][l].busy => l = k
        /\ now \in 0..now
    BY <1>2, OneAtWork DEF SInv, IInv, TypeOK
  <1>4. Has(run[r]) <=> Holds(i, f)
    BY DEF Has, Fence
  <1>5. CASE MarkRunning(i, f, now) /\ Goto(r, "dispatch")
    <2>1. Keeps(i) /\ snap'[i].state = "running"
      BY <1>3, <1>5, MarkCall DEF SInv
    <2>2. now' = now
      BY <2>1 DEF Keeps, Wrote
    <2>3. \A j \in Issues : Tidy(j)'
      BY <1>1, <1>3, <2>1, KeptTidy DEF Waiting
    <2> QED BY <1>1, <1>5, <2>2, <2>3, Leaves, Leaving DEF InHand
  <1>6. CASE ~(Holds(i, f) /\ CanMove(snap[i].state, "running")) /\ Goto(r, "abort") /\ UNCHANGED tracked
    <2>1. snap' = snap
      BY <1>6 DEF tracked
    <2>2. ~Has(run[r])
      <3> SUFFICES ASSUME Has(run[r]) PROVE FALSE
        OBVIOUS
      <3>1. snap[i].state = "claimed"
        BY <1>2, <1>3 DEF Sure
      <3>2. CanMove("claimed", "running")
        BY DEF CanMove, NormalTransitions, LifecycleStates, Aborts
      <3> QED BY <1>4, <1>6, <3>1, <3>2
    <2>3. \A j \in Issues : Tidy(j)'
      BY <1>1, <2>1, AllTidy
    <2>4. \A l \in Attempts : session'[i][l].busy => l = k
      BY <1>1, <1>3
    <2> QED BY <1>2, <1>6, <2>1, <2>2, <2>3, <2>4, GoingOn
  <1> QED BY <1>5, <1>6 DEF Mark

\* A runner that died has nothing in hand.
LEMMA CrashSingle ==
    ASSUME Sole, SInv, Single, NEW r \in Runners, Crash(r)
    PROVE  Single'
  <1> SUFFICES ASSUME NEW w, w = Idle(now - 1), run' = [run EXCEPT ![r] = w]
               PROVE  Single'
    BY DEF Crash
  <1>1. snap' = snap /\ UNCHANGED <<root, craft>> /\ now \in Nat
    BY DEF Crash, tracked, SInv, IInv, TypeOK
  <1>2. w.pc = "idle"
    BY <1>1, IdleType
  <1>3. run'[r] = w
    BY TurnTo
  <1> QED BY <1>1, <1>2, <1>3, AllTidy, Leaving DEF InHand

\* What a runner is sure of stays so while it rests, if what it has in hand does.
LEMMA SureStays ==
    ASSUME SInv, Single, NEW r \in Runners, run' = run,
           NEW i, i = run[r].issue, NEW k, k = run[r].seen.claim.attempt,
           run[r].pc \in InHand => snap'[i].state \notin Waiting,
           (Claimed(i))' => Claimed(i) /\ snap'[i].claim.fence = snap[i].claim.fence,
           (Claimed(i))' /\ snap[i].state = "claimed" => snap'[i].state = "claimed",
           \A l \in Attempts : session'[i][l].busy => session[i][l].busy,
           \/ session'[i][k] = session[i][k]
           \/ session'[i][k].status # "running"
    PROVE  Sure(run[r])'
  <1> SUFFICES ASSUME NEW q, q = run[r], q.pc \in InHand
               PROVE  Sure(q)'
    <2>1. run'[r] = run[r]
      OBVIOUS
    <2> QED BY <2>1 DEF Sure, Has, Holds, Claimed, Status, Found, RanOut, Unstarted
  <1>1. q.issue = i /\ q.seen.claim.attempt = k /\ Sure(q)
    BY DEF Single
  <1>2. Has(q)' => Has(q)
    BY <1>1 DEF Has, Holds
  <1>3. Claimed(i)' => Has(q)'
    BY <1>1, Zenon DEF Sure, Has, Holds, Claimed
  <1>4. Unstarted(q) /\ Has(q)' => snap'[i].state = "claimed"
    <2>1. Has(q)' => Claimed(i)'
      BY <1>1 DEF Has, Holds
    <2> QED BY <1>1, <1>2, <2>1 DEF Sure
  <1>5. Found(q) => session'[i][k].status # "running"
    BY <1>1 DEF Sure
  <1>6. RanOut(q) => Status(i, k, q.at)' # "running"
    BY <1>1 DEF Sure, Status
  <1> QED BY <1>1, <1>2, <1>3, <1>4, <1>5, <1>6 DEF Sure

\* An agent that has ended is not at work any more.
LEMMA AgentSingle ==
    ASSUME Sole, SInv, Single, NEW i \in Issues, NEW k \in Attempts, Agent(i, k)
    PROVE  Single'
  <1>1. snap' = snap /\ root' = root /\ place' = place /\ run' = run
    BY DEF Agent, tracked
  <1>2. SessionTurns(i, k) /\ ~session'[i][k].busy
        /\ session'[i][k].status \in {"settled", "deadline", "ended-without-response", "failed"}
    BY AgentEnds DEF Sole
  <1>3. \A j \in Issues : Tidy(j)'
    BY <1>1, <1>2, EndedTidy
  <1>4. ASSUME NEW j \in Issues, NEW l \in Attempts
        PROVE  (session'[j][l] = session[j][l] \/ session'[j][l].status # "running")
               /\ (session'[j][l].busy => session[j][l].busy)
    BY <1>2 DEF SessionTurns
  <1>5. ASSUME NEW r \in Runners PROVE Sure(run[r])'
    <2>1. CASE run[r].pc \notin InHand
      BY <1>1, <2>1 DEF Sure
    <2>2. CASE run[r].pc \in InHand
      <3> SUFFICES ASSUME NEW j, j = run[r].issue, NEW l, l = run[r].seen.claim.attempt
                   PROVE  Sure(run[r])'
        OBVIOUS
      <3>1. j \in Issues /\ l \in Attempts /\ Sure(run[r])
        BY <2>2, HandType DEF Knows, Single
      <3>2. (Claimed(j))' <=> Claimed(j)
        BY <1>1 DEF Claimed
      <3>3. snap'[j].state \notin Waiting
        BY <1>1, <2>2, <3>1 DEF Sure
      <3> QED BY <1>1, <1>4, <3>1, <3>2, <3>3, SureStays
    <2> QED BY <2>1, <2>2
  <1> QED BY <1>3, <1>5 DEF Single

\* The operator lets an issue go on, or gives it up; it is not claimed by that.
LEMMA HandoffSingle ==
    ASSUME Sole, SInv, Single, NEW i \in Issues, NEW to \in Handoffs, Handoff(i, to)
    PROVE  Single'
  <1>1. /\ Transition(i, to, snap[i].claim.fence, Asked(to)) /\ run' = run
        /\ UNCHANGED <<root, craft>> /\ session' = session
    BY DEF Handoff, craft
  <1>2. to \in Targets /\ to \notin Waiting /\ to # "running"
    BY SchedulerAssumption DEF Targets, Waiting, Sole
  <1> SUFFICES ASSUME NEW f, NEW given \in {{}, Asked(to)}, Transition(i, to, f, given)
               PROVE  Single'
    BY <1>1
  <1>3. /\ snap'[i].state = to /\ CanMove(snap[i].state, to)
        /\ to \in ReleasingStates \/ ~Claimed(i) => Unheld(i)
        /\ to \notin ReleasingStates /\ Claimed(i) => Keeps(i)
    BY <1>2, TransitionCall DEF SInv
  <1>4. Wrote(i)
    BY <1>3 DEF Unheld, Keeps
  <1>5. Tidy(i)'
    <2>1. session'[i] = session[i] /\ place'[i] = place[i] /\ root'[i] = root[i]
      BY <1>1 DEF craft
    <2> QED BY <1>2, <1>3, <2>1, TidyStays DEF Single
  <1>6. \A j \in Issues : Tidy(j)'
    BY <1>1, <1>4, <1>5, OthersTidy
  <1>7. ASSUME NEW r \in Runners PROVE Sure(run[r])'
    <2> SUFFICES ASSUME NEW j, j = run[r].issue, NEW l, l = run[r].seen.claim.attempt
                 PROVE  Sure(run[r])'
      OBVIOUS
    <2>1. j \in Issues /\ Sure(run[r])
      BY HandType DEF Single
    <2>2. CASE j # i
      <3>1. snap'[j] = snap[j]
        BY <1>4, <2>1, <2>2 DEF Wrote
      <3>2. (Claimed(j))' <=> Claimed(j)
        BY <3>1 DEF Claimed
      <3>3. run[r].pc \in InHand => snap'[j].state \notin Waiting
        BY <2>1, <3>1 DEF Sure
      <3> QED BY <1>1, <3>1, <3>2, <3>3, SureStays
    <2>3. CASE j = i
      <3>1. snap'[j].state \notin Waiting
        BY <1>2, <1>3, <2>3
      <3>2. (Claimed(j))' => Claimed(j) /\ snap'[j].claim.fence = snap[j].claim.fence
        BY <1>3, <2>3 DEF Unheld, Keeps, Claimed
      <3>3. (Claimed(j))' /\ snap[j].state = "claimed" => snap'[j].state = "claimed"
        <4> SUFFICES ASSUME (Claimed(j))', snap[j].state = "claimed" PROVE FALSE
          OBVIOUS
        <4>1. to \notin ReleasingStates
          BY <1>3, <2>3 DEF Unheld, Claimed
        <4>2. CanMove("claimed", to)
          BY <1>3, <2>3
        <4>3. to \in Aborts \cup {"running", "retry-wait"}
          BY <4>2 DEF CanMove, NormalTransitions, LifecycleStates
        <4> QED BY <1>2, <4>1, <4>3 DEF Aborts, ReleasingStates, TerminalStates, Waiting
      <3> QED BY <1>1, <3>1, <3>2, <3>3, SureStays
    <2> QED BY <2>2, <2>3
  <1> QED BY <1>6, <1>7 DEF Single

\* Nothing here depends on the time, once it has been read.
LEMMA RestSingle ==
    ASSUME SInv, Single, snap' = snap, UNCHANGED <<root, craft>>, run' = run
    PROVE  Single'
  <1>1. session' = session /\ \A j \in Issues : Tidy(j)'
    BY AllTidy DEF craft
  <1>2. ASSUME NEW r \in Runners PROVE Sure(run[r])'
    BY <1>1 DEF Single, Sure, Has, Holds, Claimed, Status, Found, RanOut, Unstarted
  <1> QED BY <1>1, <1>2 DEF Single

\* At first nothing is at work anywhere.
LEMMA SingleStart ==
    ASSUME SchedulerInit
    PROVE  Single
  <1>1. ASSUME NEW i \in Issues PROVE Tidy(i)
    <2>1. snap[i] = Seeded /\ ~Claimed(i)
      BY DEF SchedulerInit, Init, Seeded, Claimed
    <2>2. \A l \in Attempts : session[i][l] = NoSession /\ place[i][l] = "none"
      BY DEF SchedulerInit
    <2>3. \A l \in Attempts : ~session[i][l].busy
      BY <2>2 DEF NoSession
    <2> QED BY <2>1, <2>2, <2>3 DEF Tidy
  <1>2. ASSUME NEW r \in Runners PROVE Sure(run[r])
    <2> SUFFICES ASSUME NEW w, w = Idle(-1), run[r] = w PROVE Sure(run[r])
      BY DEF SchedulerInit
    <2>1. w.pc = "idle"
      BY IdleType
    <2> QED BY <2>1 DEF Sure, InHand
  <1> QED BY <1>1, <1>2 DEF Single

\* As long as no ensure has failed, every step keeps to one agent.
LEMMA SingleKeeps ==
    ASSUME Sole, SInv, SInv', errors = MaxErrors => Single, [SchedulerNext]_allVars
    PROVE  errors' = MaxErrors => Single'
  <1>1. errors \in 0..MaxErrors /\ MaxErrors \in Nat
    BY SchedulerAssumption DEF SInv, Surroundings
  <1>2. ASSUME NEW r \in Runners, EnsureThrows(r) PROVE errors' # MaxErrors
    BY <1>1, <1>2 DEF EnsureThrows
  <1>3. ASSUME NEW r \in Runners, Step(r), Single PROVE Single'
    BY <1>3, PollSingle, ReconcileSingle, ResumeSingle, JudgeSingle, CancelSingle, StoppedSingle,
       DispatchSingle, ClaimSingle, WorkspaceSingle, SessionSingle, MarkSingle, AbortSingle
       DEF Step
  <1>4. ASSUME NEW r \in Runners, Step(r) PROVE errors' = errors
    BY <1>4 DEF Step, Poll, Reconcile, Resume, Judge, Cancel, Stopped, Dispatch, Claim,
                EnsureWorkspace, EnsureSession, Mark, Abort, faults
  <1>5. ASSUME NEW r \in Runners, Crash(r) PROVE errors' = errors
    BY <1>5 DEF Crash
  <1>6. ASSUME NEW i \in Issues, NEW k \in Attempts, Agent(i, k) PROVE errors' = errors
    BY <1>6 DEF Agent, faults
  <1>7. ASSUME NEW i \in Issues, NEW to \in Handoffs, Handoff(i, to) PROVE errors' = errors
    BY <1>7 DEF Handoff, faults
  <1>8. ASSUME Clock \/ UNCHANGED allVars
        PROVE  /\ errors' = errors /\ snap' = snap /\ run' = run /\ UNCHANGED <<root, craft>>
    BY <1>8 DEF Clock, faults, allVars, tracked
  <1> SUFFICES ASSUME errors' = MaxErrors PROVE Single'
    OBVIOUS
  <1>9. CASE \E r \in Runners : Step(r)
    BY <1>3, <1>4, <1>9
  <1>10. CASE \E r \in Runners : EnsureThrows(r)
    BY <1>2, <1>10
  <1>11. CASE \E r \in Runners : Crash(r)
    BY <1>5, <1>11, CrashSingle
  <1>12. CASE \E i \in Issues, k \in Attempts : Agent(i, k)
    BY <1>6, <1>12, AgentSingle
  <1>13. CASE \E i \in Issues, to \in Handoffs : Handoff(i, to)
    BY <1>7, <1>13, HandoffSingle
  <1>14. CASE Clock \/ UNCHANGED allVars
    BY <1>8, <1>14, RestSingle
  <1> QED BY <1>9, <1>10, <1>11, <1>12, <1>13, <1>14 DEF SchedulerNext

\* With one runner and turns that stop when they fail, an issue never has two agents at work,
\* as long as no call of ensure has failed: whatever the agents do, whenever the runner
\* dies, with any workspace roots, deadlines, failed cancellations and hand-offs
\* that reopen nothing.
THEOREM OneAgentAtWork ==
    ASSUME Sole
    PROVE  SchedulerSpec => []OneLiveAgent
  <1>1. SInv /\ SInv' /\ (errors = MaxErrors => Single) /\ [SchedulerNext]_allVars
          => (errors = MaxErrors => Single)'
    BY SingleKeeps
  <1>2. (errors = MaxErrors => Single) => OneLiveAgent
    BY DEF OneLiveAgent, Single, Tidy
  <1>3. SchedulerInit => (errors = MaxErrors => Single)
    BY SingleStart
  <1> QED BY <1>1, <1>2, <1>3, SchedulerInvariant, PTL DEF SchedulerSpec
=============================================================================
