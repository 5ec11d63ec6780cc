---------------------------- MODULE RecoveryIncident ----------------------------
(***************************************************************************)
(* recovery-incident.py: the ledger of conditions that need recovery, the  *)
(* deterministic detection that opens and clears incidents, and the one    *)
(* controller session that claims and settles them.                        *)
(*                                                                         *)
(* Every command changes the ledger under one file lock and is one action; *)
(* detect reads the conditions before it takes the lock (look) and may die *)
(* between the rows it writes.  A point in time is kept as the time left   *)
(* until it: 0 is "expired".  Evidence, severities and the order in which  *)
(* a controller works on the open incidents are left out.                  *)
(***************************************************************************)
EXTENDS Naturals, FiniteSets

CONSTANTS
    Incidents,              \* kind, project and session, which key an incident
    Controllers,            \* sessions that may become the recovery controller
    Detectors,              \* processes that run detect --apply
    MaxAttempts, CoordinatorMaxAttempts,
    ClaimTtl,               \* ttl of a claim, and of the controller's lease
    MaxRuntime,             \* MAX_CONTROLLER_RUNTIME_SECONDS
    ClearConfirm,           \* CLEAR_CONFIRM_SECONDS
    Cooldown,               \* of a deferred incident
    MaxLook                 \* a detect writes what it saw no later than this

None == "none"

ASSUME IncidentAssumption ==
    /\ None \notin Controllers
    /\ MaxAttempts \in Nat \ {0} /\ CoordinatorMaxAttempts \in Nat \ {0}
    /\ ClaimTtl \in Nat \ {0} /\ MaxRuntime \in Nat \ {0} /\ Cooldown \in Nat
    /\ MaxLook \in Nat /\ ClearConfirm \in Nat
    /\ MaxLook < ClearConfirm

VARIABLES
    kind,       \* the kind of each incident, which never changes
    cond,       \* the conditions that hold
    row,        \* row[i]: the ledger's row of incident i
    controller, \* the controller file
    disabled,   \* the kill switch
    look,       \* look[d]: what detector d saw and has not written yet
    spent,      \* history: claims on i since its condition came up or was declared resolved
    steady      \* history: conditions that have held since their row began to clear

history == <<spent, steady>>
vars == <<kind, cond, row, controller, disabled, look, history>>

RowStates == {"absent", "open", "claimed", "deferred", "resolved", "escalated", "suppressed"}

\* Of COORDINATOR_RECOVERY_KINDS, owner-gate-blocked, and the rest.
Kinds == {"coordinator", "gate", "other"}

\* claim_limit
Limit(i) == IF kind[i] = "coordinator" THEN CoordinatorMaxAttempts ELSE MaxAttempts

Rows ==
    [state : RowStates,
     owner : Controllers \cup {None},   \* claimOwner
     claim : 0..ClaimTtl,               \* time left until claimExpiresAt
     attempts : Nat,                    \* recoveryAttempts
     cooldown : 0..Cooldown,            \* time left until cooldownUntil
     clearing : BOOLEAN,                \* clearCandidateAt is set,
     confirm : 0..ClearConfirm]         \* and this long before it is confirmed

NoRow == [state |-> "absent", owner |-> None, claim |-> 0, attempts |-> 0, cooldown |-> 0,
          clearing |-> FALSE, confirm |-> 0]

\* lease: until leaseExpiresAt; runtime: until maxRuntimeExpiresAt.
NoController == [session |-> None, lease |-> 0, runtime |-> 0]

Looks == [busy : BOOLEAN, seen : SUBSET Incidents, age : 0..MaxLook]
NotLooking == [busy |-> FALSE, seen |-> {}, age |-> 0]

Init ==
    /\ kind \in [Incidents -> Kinds]
    /\ cond = {}
    /\ row = [i \in Incidents |-> NoRow]
    /\ controller = NoController
    /\ disabled = FALSE
    /\ look = [d \in Detectors |-> NotLooking]
    /\ spent = [i \in Incidents |-> 0]
    /\ steady = {}

-----------------------------------------------------------------------------
(* detect --apply *)

\* collect_observations, before the lock is taken.
Look(d) ==
    /\ ~look[d].busy
    /\ look' = [look EXCEPT ![d] = [busy |-> TRUE, seen |-> cond, age |-> 0]]
    /\ UNCHANGED <<kind, cond, row, controller, disabled, history>>

\* Mutant of Unclaimed: the owner's name stays in the row.
UnclaimedNamed(r, state) == [r EXCEPT !.state = state, !.claim = 0]

Unclaimed(r, state) == [r EXCEPT !.state = state, !.owner = None, !.claim = 0]

\* Mutant of Observed: an expired claim is taken back with a fresh budget.
ObservedForgiving(i) ==
    LET r == [row[i] EXCEPT !.clearing = FALSE, !.confirm = 0] IN
    CASE r.state = "absent" -> [NoRow EXCEPT !.state = IF kind[i] = "gate" THEN "suppressed" ELSE "open"]
      [] r.state = "claimed" /\ r.claim = 0 -> [Unclaimed(r, "open") EXCEPT !.attempts = 0]
      [] r.state = "deferred" /\ r.cooldown = 0 -> [r EXCEPT !.state = "open"]
      [] r.state = "resolved" -> [Unclaimed(r, "open") EXCEPT !.attempts = 0]
      [] OTHER -> r

\* Mutant of Observed: a claim stays with its owner when it has expired.
ObservedClaimed(i) ==
    LET r == [row[i] EXCEPT !.clearing = FALSE, !.confirm = 0] IN
    CASE r.state = "absent" -> [NoRow EXCEPT !.state = IF kind[i] = "gate" THEN "suppressed" ELSE "open"]
      [] r.state = "deferred" /\ r.cooldown = 0 -> [r EXCEPT !.state = "open"]
      [] r.state = "resolved" -> [Unclaimed(r, "open") EXCEPT !.attempts = 0]
      [] OTHER -> r

\* The row of a condition that was seen: it does not clear, an expired claim or
\* cooldown opens it, and a resolved one starts a fresh cycle.
Observed(i) ==
    LET r == [row[i] EXCEPT !.clearing = FALSE, !.confirm = 0] IN
    CASE r.state = "absent" -> [NoRow EXCEPT !.state = IF kind[i] = "gate" THEN "suppressed" ELSE "open"]
      [] r.state = "claimed" /\ r.claim = 0 -> Unclaimed(r, "open")
      [] r.state = "deferred" /\ r.cooldown = 0 -> [r EXCEPT !.state = "open"]
      [] r.state = "resolved" -> [Unclaimed(r, "open") EXCEPT !.attempts = 0]
      [] OTHER -> r

Settled(i) == row[i].state \in {"absent", "resolved"}

\* Mutants of Unseen: two looks are enough; only rows nobody has taken up are cleared.
UnseenTwice(i) ==
    LET r == row[i] IN
    IF Settled(i) THEN r
    ELSE IF ~r.clearing THEN [r EXCEPT !.clearing = TRUE, !.confirm = ClearConfirm]
    ELSE [NoRow EXCEPT !.state = "resolved"]
UnseenOpen(i) ==
    LET r == row[i] IN
    IF r.state # "open" THEN r
    ELSE IF ~r.clearing THEN [r EXCEPT !.clearing = TRUE, !.confirm = ClearConfirm]
    ELSE IF r.confirm > 0 THEN r
    ELSE [NoRow EXCEPT !.state = "resolved"]

\* The row of a condition that was not seen: it has to stay away for a while.
Unseen(i) ==
    LET r == row[i] IN
    IF Settled(i) THEN r
    ELSE IF ~r.clearing THEN [r EXCEPT !.clearing = TRUE, !.confirm = ClearConfirm]
    ELSE IF r.confirm > 0 THEN r
    ELSE [NoRow EXCEPT !.state = "resolved"]

\* What detect writes for the incidents in reached before it ends, or dies.
Record(d, reached) ==
    LET next == [i \in Incidents |->
                    IF i \notin reached THEN row[i]
                    ELSE IF i \in look[d].seen THEN Observed(i) ELSE Unseen(i)] IN
    /\ look[d].busy
    /\ row' = next
    /\ look' = [look EXCEPT ![d] = NotLooking]
    /\ steady' = (steady \ {i \in Incidents : ~next[i].clearing})
                    \cup {i \in cond : next[i].clearing /\ ~row[i].clearing}
    /\ UNCHANGED <<kind, cond, controller, disabled, spent>>

Detect(d) == Record(d, Incidents)

-----------------------------------------------------------------------------
(* controller-claim, controller-heartbeat, controller-release *)

ControllerClaim(s) ==
    /\ ~disabled
    /\ controller.session # s
    /\ controller.session # None => controller.lease = 0 \/ controller.runtime = 0
    /\ controller' = [session |-> s, runtime |-> MaxRuntime,
                      lease |-> IF ClaimTtl < MaxRuntime THEN ClaimTtl ELSE MaxRuntime]
    /\ UNCHANGED <<kind, cond, row, disabled, look, history>>

\* require_active_controller
Active(s) == controller.session = s /\ controller.lease > 0 /\ controller.runtime > 0

ControllerHeartbeat(s) ==
    /\ ~disabled /\ Active(s)
    /\ controller' = [controller EXCEPT !.lease = IF ClaimTtl < controller.runtime THEN ClaimTtl
                                                  ELSE controller.runtime]
    /\ UNCHANGED <<kind, cond, row, disabled, look, history>>

ControllerRelease(s) ==
    /\ controller.session = s
    /\ controller' = NoController
    /\ UNCHANGED <<kind, cond, row, disabled, look, history>>

-----------------------------------------------------------------------------
(* claim, heartbeat, resolve, defer, escalate *)

Put(i, r) == row' = [row EXCEPT ![i] = r]

\* The budget of the cycle is used up.
Exhausted(i) == row[i].attempts >= Limit(i)

Claimed(r, s) == [r EXCEPT !.state = "claimed", !.owner = s, !.claim = ClaimTtl, !.attempts = @ + 1]

Claim(s, i) ==
    LET r == row[i] IN
    /\ ~disabled /\ Active(s)
    /\ ~r.clearing
    /\ r.state \in {"open", "deferred"} /\ r.cooldown = 0
    /\ \/ /\ Exhausted(i)
          /\ Put(i, Unclaimed(r, "escalated"))
          /\ UNCHANGED spent
       \/ /\ ~Exhausted(i)
          /\ Put(i, Claimed(r, s))
          /\ spent' = IF i \in cond THEN [spent EXCEPT ![i] = @ + 1] ELSE spent
    /\ UNCHANGED <<kind, cond, controller, disabled, look, steady>>

\* require_claim
Working(s, i) ==
    /\ ~disabled /\ Active(s)
    /\ row[i].state = "claimed" /\ row[i].owner = s /\ row[i].claim > 0

Heartbeat(s, i) ==
    /\ Working(s, i)
    /\ Put(i, [row[i] EXCEPT !.claim = ClaimTtl])
    /\ UNCHANGED <<kind, cond, controller, disabled, look, history>>

Resolve(s, i) ==
    /\ Working(s, i)
    /\ Put(i, [Unclaimed(row[i], "resolved") EXCEPT !.clearing = FALSE, !.confirm = 0])
    /\ spent' = [spent EXCEPT ![i] = 0]
    /\ steady' = steady \ {i}
    /\ UNCHANGED <<kind, cond, controller, disabled, look>>

Defer(s, i) ==
    /\ Working(s, i)
    /\ Put(i, [Unclaimed(row[i], "deferred") EXCEPT !.cooldown = Cooldown])
    /\ UNCHANGED <<kind, cond, controller, disabled, look, history>>

Escalate(s, i) ==
    /\ Working(s, i)
    /\ Put(i, Unclaimed(row[i], "escalated"))
    /\ UNCHANGED <<kind, cond, controller, disabled, look, history>>

Settle(s, i) == Resolve(s, i) \/ Defer(s, i) \/ Escalate(s, i)

-----------------------------------------------------------------------------
(* The conditions, the owner's switch, and time *)

\* A condition appears, or goes away, by recovery or by itself.
Appears(i) ==
    /\ i \notin cond
    /\ cond' = cond \cup {i}
    /\ UNCHANGED <<kind, row, controller, disabled, look, history>>

GoesAway(i) ==
    /\ i \in cond
    /\ cond' = cond \ {i}
    /\ spent' = [spent EXCEPT ![i] = 0]
    /\ steady' = steady \ {i}
    /\ UNCHANGED <<kind, row, controller, disabled, look>>

Switch ==
    /\ disabled' = ~disabled
    /\ UNCHANGED <<kind, cond, row, controller, look, history>>

Less(t) == IF t = 0 THEN 0 ELSE t - 1
Older(r) == [r EXCEPT !.claim = Less(@), !.cooldown = Less(@), !.confirm = Less(@)]

Tick ==
    /\ \A d \in Detectors : look[d].busy => look[d].age < MaxLook
    /\ row' = [i \in Incidents |-> Older(row[i])]
    /\ controller' = [controller EXCEPT !.lease = Less(@), !.runtime = Less(@)]
    /\ look' = [d \in Detectors |-> IF look[d].busy THEN [look[d] EXCEPT !.age = @ + 1] ELSE look[d]]
    /\ UNCHANGED <<kind, cond, disabled, history>>

Next ==
    \/ \E d \in Detectors : Look(d) \/ Detect(d) \/ \E reached \in SUBSET Incidents : Record(d, reached)
    \/ \E s \in Controllers :
          \/ ControllerClaim(s) \/ ControllerHeartbeat(s) \/ ControllerRelease(s)
          \/ \E i \in Incidents : Claim(s, i) \/ Heartbeat(s, i) \/ Settle(s, i)
    \/ \E i \in Incidents : Appears(i) \/ GoesAway(i)
    \/ Switch
    \/ Tick

Spec == Init /\ [][Next]_vars

\* Time passes; the watchdog's detect does not die for ever; a session whose lease is
\* over releases it, some session is woken as controller, and an active controller
\* gets to claim and to settle what it has claimed again and again.
FairSpec ==
    /\ Spec
    /\ SF_vars(Tick)
    /\ \A d \in Detectors : WF_vars(Look(d)) /\ SF_vars(Detect(d))
    /\ \A s \in Controllers : WF_vars(~Active(s) /\ ControllerRelease(s))
    /\ WF_vars(\E s \in Controllers : ControllerClaim(s))
    /\ \A i \in Incidents :
          /\ SF_vars(\E s \in Controllers : Claim(s, i))
          /\ SF_vars(\E s \in Controllers : Settle(s, i))

-----------------------------------------------------------------------------
(* Properties *)

\* Type invariant; a row has an owner exactly while it is claimed.
TypeOK ==
    /\ kind \in [Incidents -> Kinds]
    /\ cond \subseteq Incidents
    /\ row \in [Incidents -> Rows]
    /\ controller \in [session : Controllers \cup {None}, lease : 0..MaxRuntime, runtime : 0..MaxRuntime]
    /\ disabled \in BOOLEAN
    /\ look \in [Detectors -> Looks]
    /\ spent \in [Incidents -> Nat]
    /\ steady \subseteq Incidents
    /\ \A i \in Incidents : row[i].state = "claimed" <=> row[i].owner # None

\* One uninterrupted outbreak of a condition is worked on no more often than its
\* budget allows (wake-1, wake-2, rotation), unless a controller declared it resolved:
\* neither expired claims, deferrals and changes of the controller nor detections that
\* race with each other or look too early give it a fresh cycle.
BudgetPerOutbreak == \A i \in Incidents : spent[i] <= Limit(i)

\* Detection never closes an incident whose condition has held ever since the row
\* began to clear, although it reads the conditions before it takes the lock and
\* several detections overlap.
ClearedMeansGone ==
    [][\A i \in Incidents :
          row'[i].state = "resolved" /\ row[i].state \notin {"claimed", "resolved"}
             => i \notin steady]_vars

\* A condition that stays, with self-healing switched on, is declared resolved or put
\* before the owner (a gate's row is with the owner anyway), whatever controllers claim, abandon, defer and hand over.
PersistentConditionDecided ==
    \A i \in Incidents :
        <>[](i \in cond /\ ~disabled) => []<>(row[i].state \in {"resolved", "escalated", "suppressed"})

\* A condition that is gone for good is closed, also when it is claimed, escalated or
\* suppressed, and with self-healing switched off.
GoneConditionCloses == \A i \in Incidents : <>[](i \notin cond) => <>[]Settled(i)

=============================================================================
