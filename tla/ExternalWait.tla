---------------------------- MODULE ExternalWait ----------------------------
(***************************************************************************)
(* external-wait.py: a coordinator's wait for something outside, observed  *)
(* by a job of the lane.  A wait is bound to the process that observes it, *)
(* reconciled against the lane's lease and receipt, adopted by the         *)
(* coordinator's successor, and cleared in two files with a journal in     *)
(* between.  The commands exclude each other, but not those of             *)
(* observable-job.py.                                                      *)
(***************************************************************************)
EXTENDS WorkerLease

VARIABLE wait       \* external-waits/<wait id>.json

\* A run's process as process_identity sees it: its supervisor, or the child it left.
Processes == [run : {0} \cup Runs, part : {"supervisor", "child", "none"}]
NoProcess == [run |-> 0, part |-> "none"]

WaitStates == {"observing", "terminal", "deadline", "unobserved", "clearing", "cleared"}
NoWait == [state |-> "none", owner |-> 1, on |-> NoProcess]

\* process_identity
Identity ==
    IF SupAlive(job.run) THEN [run |-> job.run, part |-> "supervisor"]
    ELSE IF ChildAlive THEN [run |-> job.run, part |-> "child"]
    ELSE NoProcess

\* observer_proof
ObserverProof ==
    /\ lane \notin {"archived", "relabelled"}
    /\ lease.state \in Active /\ lease.parent = reg.gen
    /\ job # NoReceipt /\ ~job.ended /\ ~job.reported
    /\ Identity # NoProcess

\* cmd_register
RegisterWait ==
    /\ case.binding = "external-wait"
    /\ wait.state \in {"none", "cleared"}
    /\ reg.state = "authoritative" /\ ObserverProof
    /\ wait' = [state |-> "observing", owner |-> reg.gen, on |-> Identity]
    /\ UNCHANGED <<case, jobVars, leaseVars>>

\* adopted_owner
Adopted(w) == IF reg.adopted THEN [w EXCEPT !.owner = reg.gen] ELSE w

\* Mutant of Observed: a process that is gone has ended what it observed.
ObservedGone(w, late) ==
    IF lease = NoLease \/ lease.parent # w.owner THEN "unobserved"
    ELSE IF job = NoReceipt THEN "unobserved"
    ELSE IF job.ended \/ Identity # w.on THEN "terminal"
    ELSE IF late THEN "deadline" ELSE "observing"

\* reconcile_row, from top to bottom.
Observed(w, late) ==
    IF lease = NoLease \/ lease.parent # w.owner THEN "unobserved"
    ELSE IF job = NoReceipt THEN "unobserved"
    ELSE IF job.ended THEN "terminal"
    ELSE IF late THEN "deadline"
    ELSE IF Identity # w.on THEN "unobserved"
    ELSE "observing"

\* A deadline that was found to be over is over.
ReconcileRow(late) ==
    LET w == Adopted(wait) IN
    /\ wait.state \notin {"none", "clearing"}
    /\ wait.state = "deadline" => late
    /\ wait' = IF w.state = "cleared" THEN w ELSE [w EXCEPT !.state = Observed(w, late)]
    /\ UNCHANGED <<case, jobVars, leaseVars>>

\* cmd_clear writes its journal.
Clear ==
    /\ wait.state = "terminal"
    /\ wait.owner = reg.gen /\ reg.state = "authoritative"
    /\ job.ended
    /\ wait' = [wait EXCEPT !.state = "clearing"]
    /\ UNCHANGED <<case, jobVars, leaseVars>>

\* Mutant of Pending: reconciliation leaves a journal to the command that wrote it.
PendingNot == FALSE

Pending == wait.state = "clearing"

\* finish_clear, by the same command or, after a crash, by a reconciliation; the process may
\* also die between the two files.
FinishClear ==
    /\ Pending
    /\ \/ job.ended /\ Write([job EXCEPT !.reported = TRUE])
          /\ wait' \in {wait, [wait EXCEPT !.state = "cleared"]}
       \/ ~job.ended /\ wait' = [wait EXCEPT !.state = "unobserved"] /\ UNCHANGED <<job, torn>>
    /\ UNCHANGED <<case, proc, ack, kills, unwaited, leaseVars>>

WaitNext ==
    \/ LeaseNext /\ UNCHANGED wait
    \/ RegisterWait \/ Clear \/ FinishClear
    \/ \E late \in BOOLEAN : ReconcileRow(late)

=============================================================================
