----------------------------- MODULE WorkerLease -----------------------------
(***************************************************************************)
(* worker-lease.py: the lease of one worker or auditor session, kept by    *)
(* its own commands, by the supervisors of its jobs and by the watchdog's  *)
(* reconciliation, all under one lock.  lane-admission.py confirms strict  *)
(* lanes whenever their lease is touched.  The coordinator registry is the *)
(* environment: a coordinator is named by the generation it has, and the   *)
(* lane was spawned by the first.                                          *)
(*                                                                         *)
(* How old the evidence of a lane is, is a choice.  Collisions of worktree *)
(* or work unit with other lanes are left out, and so is the liveness of   *)
(* coordinator sessions.                                                   *)
(***************************************************************************)
EXTENDS ObservableJob

VARIABLES
    reg,            \* the registry: generation, state; adopted: activeChildren has the lane
    lane,           \* the session manifest of the lane
    lease,          \* worker-leases/<session>.json
    moves, turns,   \* how often the session and the registry have moved
    handed          \* history: the lane has handed off

Gens == 1..MaxGen
LeaseStates == {"starting", "running", "suspect", "stalled", "error", "handoff-ready"}

\* What the age of the evidence says.
Ages == {"running", "suspect", "stalled"}

\* ACTIVE_LEASE_STATES
Active == {"starting", "running", "suspect"}

\* silent: nothing in the manifest says so, but the session does not act any more; failed:
\* its last event is an error; relabelled: it has another role.
LaneStates == {"live", "silent", "failed", "needs-review", "done", "relabelled", "archived"}

NoLease == [state |-> "none", parent |-> 1]

LeaseInit ==
    /\ reg = [gen |-> 1, state |-> "authoritative", adopted |-> FALSE]
    /\ lane = "live"
    /\ lease = NoLease
    /\ moves = 0 /\ turns = 0
    /\ handed = FALSE

leaseVars == <<reg, lane, lease, moves, turns, handed>>
Elsewhere == <<reg, lane, moves, turns>>

\* parent_truth, for a lane that was admitted under the first coordinator.
ParentTruth == reg.state = "authoritative" /\ reg.gen = 1

\* cmd_confirm: the lane is not done, and its parent in the generation of the admission.
Confirmed == lane # "done" /\ ParentTruth

\* validate_existing_admission
Admitted == case.strict => Confirmed

\* Mutant of Parent: the label of the manifest.
ParentLabel == 1

\* registry_adopted_parent, or the label.
Parent == IF reg.adopted THEN reg.gen ELSE 1

FromManifest == [state |-> "starting", parent |-> Parent]
Held == IF lease = NoLease THEN FromManifest ELSE lease

\* quarantine_admission_failure
Quarantined == [Held EXCEPT !.state = "error"]

\* remove_runtime takes the receipt along.
RemoveRuntime == lease' = NoLease /\ job' = NoReceipt

\* What heartbeat and finish make of the lease.
Touch(state) ==
    \/ lane = "archived" /\ RemoveRuntime
    \/ lane = "relabelled" /\ lease' = NoLease /\ UNCHANGED job
    \/ /\ lane \notin {"archived", "relabelled"}
       /\ lease' = IF Admitted THEN [Held EXCEPT !.state = state] ELSE Quarantined
       /\ UNCHANGED job

-----------------------------------------------------------------------------
(* Commands of the session and its supervisors *)

\* cmd_create needs an admission token, which only a strict lane has.
Create ==
    /\ lane \notin {"archived", "relabelled", "silent"}
    /\ case.strict /\ Admitted
    /\ lease' = [Held EXCEPT !.state = "starting"]
    /\ UNCHANGED <<case, jobVars, Elsewhere, handed>>

Heartbeat ==
    /\ lane # "silent"
    /\ \E state \in case.says \cap (Active \cup {"error"}) : Touch(state)
    /\ UNCHANGED <<case, proc, ack, kills, torn, unwaited, Elsewhere, handed>>

Finish ==
    /\ lane # "silent" /\ Touch("handoff-ready")
    /\ handed' = TRUE
    /\ UNCHANGED <<case, proc, ack, kills, torn, unwaited, Elsewhere>>

\* cmd_start of observable-job.py: an admission failure is written into the lease.
Start(r, replace) ==
    /\ lane = "live"
    /\ IF Admitted THEN Launch(r, replace) /\ UNCHANGED lease
       ELSE lease' = Quarantined /\ UNCHANGED <<case, jobVars>>
    /\ UNCHANGED <<Elsewhere, handed>>

\* The heartbeat of a child that has started.
FirstBeat(r) ==
    /\ proc[r].sup = "written" /\ Sup(r, "waiting")
    /\ Touch("running")
    /\ UNCHANGED <<case, ack, kills, torn, unwaited, Elsewhere, handed>>

\* One that times out may have told the lease, or not.
BeatLost(r) ==
    /\ proc[r].sup = "written" /\ Touch("running")
    /\ Cardinality(unwaited) < case.faults /\ unwaited' = unwaited \cup {r}
    /\ Sup(r, "over")
    /\ UNCHANGED <<case, ack, kills, torn, Elsewhere, handed>>

\* The last heartbeat, before the terminal receipt.
LastBeat(r) ==
    /\ proc[r].sup = "over" /\ Sup(r, "beaten")
    /\ Touch("running")
    /\ UNCHANGED <<case, ack, kills, torn, unwaited, Elsewhere, handed>>

Supervisor(r) ==
    \/ /\ \/ Open(r) \/ Busy(r) \/ Forks(r) \/ WritesChild(r)
          \/ Waited(r) \/ GivesUp(r) \/ Ends(r)
       /\ UNCHANGED leaseVars
    \/ FirstBeat(r) \/ BeatLost(r) \/ LastBeat(r)

Jobs ==
    \/ \E r \in Runs : \/ \E replace \in BOOLEAN : Start(r, replace)
                       \/ Supervisor(r)
                       \/ (ChildExits(r) \/ Killed(r)) /\ UNCHANGED leaseVars
    \/ (AckReads \/ AckWrites) /\ UNCHANGED leaseVars

-----------------------------------------------------------------------------
(* Reconciliation *)

\* Mutant of ByEvidence: a child that lives is a lane at work.
ByEvidenceOrSession(age) == IF lane \in {"live", "silent"} THEN "running" ELSE age

\* The verdict on a lane whose evidence is of this age.
ByEvidence(age) == age

\* classify; the exit code tells error from suspect.
Verdicts(state, age) ==
    IF lane \in {"needs-review", "done"} \/ state = "handoff-ready" THEN {"handoff-ready"}
    ELSE IF lane = "failed" THEN {"error"}
    ELSE IF job.ended /\ ~job.reported /\ ~ChildAlive THEN {"error", "suspect"}
    ELSE {ByEvidence(age)}

\* cmd_reconcile, for this lane.
Reconcile(age) ==
    /\ \/ lane = "archived" /\ lease # NoLease /\ RemoveRuntime
       \/ lane = "relabelled" /\ lease # NoLease /\ lease' = NoLease /\ UNCHANGED job
       \/ /\ lane \notin {"archived", "relabelled"}
          /\ IF Admitted THEN \E v \in Verdicts(Held.state, age) : lease' = [state |-> v, parent |-> Parent]
             ELSE lease' = Quarantined
          /\ UNCHANGED job
    /\ UNCHANGED <<case, proc, ack, kills, torn, unwaited, Elsewhere, handed>>

-----------------------------------------------------------------------------
(* The session and the registry *)

\* A done or archived session may be set back; a silent one is only put away by others.
Session(s) ==
    /\ moves < case.moves /\ moves' = moves + 1
    /\ lane # s /\ (lane = "silent" => s \in {"needs-review", "done", "archived"})
    /\ lane' = s
    /\ handed' = (handed \/ s \in {"needs-review", "done"})
    /\ UNCHANGED <<case, jobVars, reg, lease, turns>>

\* A transfer begins; the successor accepts, and adopts the lane if it is live and bears its
\* predecessor's label.  It may not while activeChildren has a lane for which that is not so.
Transfer ==
    \/ /\ reg.state = "authoritative" /\ reg.gen < MaxGen
       /\ reg' = [reg EXCEPT !.state = "rotating"]
    \/ /\ reg.state = "rotating"
       /\ LET adopts == reg.gen = 1 /\ lane \notin {"archived", "done", "relabelled"} IN
          /\ reg.adopted => adopts
          /\ reg' = [gen |-> reg.gen + 1, state |-> "authoritative", adopted |-> adopts]

\* cmd_hold, cmd_resume
Hold ==
    \/ reg.state # "hold" /\ reg' = [reg EXCEPT !.state = "hold"]
    \/ reg.state = "hold" /\ reg' = [reg EXCEPT !.state = "authoritative"]

\* A claim by the owner or, when that one has ended, by another coordinator: no children.
Claim ==
    \E g \in {reg.gen, reg.gen + 1} \cap Gens :
        reg' = [gen |-> g, state |-> "authoritative", adopted |-> FALSE]

\* A snapshot of the recovery ledger lists the lanes that have a lease; a sweep of the
\* registry forgets the archived ones.
Children ==
    \/ reg' = [reg EXCEPT !.adopted = lane # "archived" /\ lease # NoLease]
    \/ reg.state = "authoritative" /\ lane = "archived" /\ reg' = [reg EXCEPT !.adopted = FALSE]

Registry ==
    /\ turns < case.turns /\ turns' = turns + 1
    /\ Transfer \/ Hold \/ Claim \/ Children
    /\ UNCHANGED <<case, jobVars, lane, lease, moves, handed>>

LeaseNext ==
    \/ Create \/ Heartbeat \/ Finish
    \/ Jobs
    \/ \E age \in case.says \cap Ages : Reconcile(age)
    \/ \E s \in LaneStates : Session(s)
    \/ Registry

=============================================================================
