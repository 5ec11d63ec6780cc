---------------------------- MODULE ObservableJob ----------------------------
(***************************************************************************)
(* observable-job.py: long commands of one worker session.  Each start is  *)
(* a run with a supervisor process and a child.  All runs of a session     *)
(* write the same receipt file, without a lock: a write puts what its      *)
(* process holds in memory over what is there.  A supervisor can be killed *)
(* between any two steps and leaves its child behind, and so can one whose *)
(* write or heartbeat fails after it has started the child: it takes that  *)
(* for a failed launch, does not wait, and writes the terminal receipt.    *)
(*                                                                         *)
(* All runs have one command, so its hash tells none of them apart.  Logs  *)
(* and the owner file of the heavyweight lane are left out; the lane is    *)
(* busy with jobs of other sessions at any time.                           *)
(***************************************************************************)
EXTENDS Naturals, FiniteSets

CONSTANTS
    Cases,          \* bounds: what happens in a behaviour, see TypeCase
    MaxGen          \* bound: generations of the coordinator

VARIABLES
    case,           \* one of Cases
    job,            \* the receipt, worker-jobs/<session>.json
    proc,           \* proc[r]: the processes of run r
    ack,            \* the receipt a running ack has read
    kills,          \* supervisors killed
    torn,           \* history: runs in use whose receipt another run's was written over
    unwaited        \* history: runs whose supervisor gave up waiting for their child

\* binding: what commitments are about; strict: the lane's protocol version asks for an
\* admission record; says: what heartbeats and evidence may make of a lease.  The others bound
\* runs, killed supervisors, supervisors that give up, acks, moves of the lane's session,
\* moves of the registry, coordinators that make a commitment, and say which sweeps run.
SweepKinds == {"archive", "scan", "gc"}
CaseRecords ==
    [binding : {"worker-lease", "external-wait", "owner-gate", "scheduled-review"},
     strict : BOOLEAN, says : SUBSET {"starting", "running", "suspect", "stalled", "error"},
     runs : Nat, kills : Nat, faults : Nat, acks : Nat, moves : Nat, turns : Nat, commits : Nat,
     sweeps : SUBSET SweepKinds]

ASSUME ObserverAssumption ==
    /\ Cases \subseteq CaseRecords
    /\ Cases # {} /\ IsFiniteSet(Cases)
    /\ MaxGen \in Nat \ {0}

\* Runs of any case.
Runs == UNION {1..c.runs : c \in Cases}

\* child: childPid is in it.
Receipts == [run : {0} \cup Runs, child : BOOLEAN, ended : BOOLEAN, reported : BOOLEAN]
NoReceipt == [run |-> 0, child |-> FALSE, ended |-> FALSE, reported |-> FALSE]
Receipt(r) == [NoReceipt EXCEPT !.run = r]

\* sup: launched, it has not written yet; open, it has; forked, the child has been started;
\* written, so it has been in the receipt; waiting, and in the lease; over, the child has been
\* waited for, or not; beaten, the last heartbeat has been sent.
Procs ==
    [sup : {"none", "launched", "open", "forked", "written", "waiting", "over", "beaten", "gone"},
     child : BOOLEAN]

JobInit ==
    /\ case \in Cases
    /\ job = NoReceipt
    /\ proc = [r \in Runs |-> [sup |-> "none", child |-> FALSE]]
    /\ ack = NoReceipt
    /\ kills = 0
    /\ torn = {} /\ unwaited = {}

jobVars == <<job, proc, ack, kills, torn, unwaited>>

\* os.kill(pid, 0)
SupAlive(r) == r # 0 /\ proc[r].sup \notin {"none", "gone"}

\* The child the receipt names is alive; no one sees another.
ChildAlive == job.child /\ proc[job.run].child

\* The run has begun to write and a process of it is alive.
InUse(r) == proc[r].sup \notin {"none", "launched", "gone"} \/ proc[r].child

Write(rc) ==
    /\ job' = rc
    /\ torn' = torn \cup {r \in Runs : InUse(r) /\ r # rc.run}

Sup(r, pc) == proc' = [proc EXCEPT ![r].sup = pc]

-----------------------------------------------------------------------------

\* cmd_start, admitted: not beside a process of the receipt, but replace asks no one.
Launch(r, replace) ==
    /\ r <= case.runs /\ proc[r].sup = "none"
    /\ \A q \in Runs : q < r => proc[q].sup # "none"
    /\ ~replace => ~SupAlive(job.run) /\ ~ChildAlive
    /\ Sup(r, "launched")
    /\ UNCHANGED <<case, job, ack, kills, torn, unwaited>>

\* supervise, the first receipt.
Open(r) ==
    /\ proc[r].sup = "launched"
    /\ Write(Receipt(r)) /\ Sup(r, "open")
    /\ UNCHANGED <<case, ack, kills, unwaited>>

\* The heavyweight lane is busy: a receipt that has ended already.
Busy(r) ==
    /\ proc[r].sup = "launched"
    /\ Write([Receipt(r) EXCEPT !.ended = TRUE]) /\ Sup(r, "gone")
    /\ UNCHANGED <<case, ack, kills, unwaited>>

\* Popen starts the child, whose pid only the supervisor knows, or fails.
Forks(r) ==
    /\ proc[r].sup = "open"
    /\ proc' \in {[proc EXCEPT ![r] = [sup |-> "forked", child |-> TRUE]],
                  [proc EXCEPT ![r].sup = "over"]}
    /\ UNCHANGED <<case, job, ack, kills, torn, unwaited>>

\* The receipt of a run whose child has been started.
WithChild(r) == [Receipt(r) EXCEPT !.child = TRUE]

WritesChild(r) ==
    /\ proc[r].sup = "forked"
    /\ Write(WithChild(r)) /\ Sup(r, "written")
    /\ UNCHANGED <<case, ack, kills, unwaited>>

ChildExits(r) ==
    /\ proc[r].child
    /\ proc' = [proc EXCEPT ![r].child = FALSE]
    /\ UNCHANGED <<case, job, ack, kills, torn, unwaited>>

\* child.wait() returns.
Waited(r) ==
    /\ proc[r].sup = "waiting" /\ ~proc[r].child
    /\ Sup(r, "over")
    /\ UNCHANGED <<case, job, ack, kills, torn, unwaited>>

\* The receipt's write or the first heartbeat has failed: nobody waits for the child.
GivesUp(r) ==
    /\ proc[r].sup \in {"forked", "written"}
    /\ Cardinality(unwaited) < case.faults /\ unwaited' = unwaited \cup {r}
    /\ Sup(r, "over")
    /\ UNCHANGED <<case, job, ack, kills, torn>>

\* The terminal receipt, made of what the supervisor remembers.
Ends(r) ==
    /\ proc[r].sup = "beaten"
    /\ Write([WithChild(r) EXCEPT !.ended = TRUE]) /\ Sup(r, "gone")
    /\ UNCHANGED <<case, ack, kills, unwaited>>

\* It is also killed by a last heartbeat that times out.
Killed(r) ==
    /\ SupAlive(r) /\ kills < case.kills /\ kills' = kills + 1
    /\ Sup(r, "gone")
    /\ UNCHANGED <<case, job, ack, torn, unwaited>>

\* cmd_ack reads the receipt, ended or not, and writes it back.
AckReads ==
    /\ ack = NoReceipt /\ job # NoReceipt /\ ~job.reported /\ case.acks > 0
    /\ ack' = job
    /\ UNCHANGED <<case, job, proc, kills, torn, unwaited>>

AckWrites ==
    /\ ack # NoReceipt
    /\ Write([ack EXCEPT !.reported = TRUE]) /\ ack' = NoReceipt
    /\ UNCHANGED <<case, proc, kills, unwaited>>

=============================================================================
