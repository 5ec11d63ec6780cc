---------------------------- MODULE ObserversProofs ----------------------------
(***************************************************************************)
(* Proofs about the observers of a lane (ObservableJob, WorkerLease,       *)
(* ExternalWait, CoordinatorCommitment) and what puts it away (Cleanup),   *)
(* for any cases.  First what a step does to the runs of a job and to      *)
(* their receipt; waits, leases and commitments rest on that.  Then what   *)
(* each look of a sweep has established, unless somebody came since.       *)
(***************************************************************************)
EXTENDS Cleanup, TLAPS

-----------------------------------------------------------------------------
(* Types *)

JobTyped ==
    /\ job \in Receipts /\ ack \in Receipts
    /\ proc \in [Runs -> Procs] /\ torn \subseteq Runs /\ unwaited \subseteq Runs
    /\ kills \in 0..case.kills

LeaseTyped ==
    /\ moves \in 0..case.moves /\ turns \in 0..case.turns
    /\ reg \in [gen : Gens, state : {"authoritative", "rotating", "hold"}, adopted : BOOLEAN]
    /\ lane \in LaneStates /\ handed \in BOOLEAN
    /\ lease \in [state : {"none"} \cup LeaseStates, parent : Gens]

BoundTyped ==
    /\ wait \in [state : {"none"} \cup WaitStates, owner : Gens, on : Processes]
    /\ commit \in [Gens -> CommitStates]
    /\ gate \in {"none", "open", "resolved"}

\* The type invariant, in parts.
LEMMA TypeParts == TypeOK <=> case \in Cases /\ JobTyped /\ LeaseTyped /\ BoundTyped
  BY DEF TypeOK, JobTyped, LeaseTyped, BoundTyped

\* A case bounds by numbers.
LEMMA CaseType ==
    ASSUME ObserverAssumption, case \in Cases
    PROVE  /\ case.kills \in Nat /\ case.moves \in Nat /\ case.turns \in Nat
           /\ MaxGen \in Nat \ {0}
  BY DEF ObserverAssumption, CaseRecords

\* Runs are counted from 1.
LEMMA RunsType == 0 \notin Runs
  BY DEF Runs

-----------------------------------------------------------------------------
(* The runs of a job *)

\* A run that has written its receipt: it is in use until its processes are gone.
Begun(r) == r \in Runs /\ proc[r].sup \notin {"none", "launched"}

\* A receipt names such a run, and one that has ended a run nobody uses any more, or one
\* that was not waited for.
Past(rc) ==
    /\ rc.run # 0 => Begun(rc.run)
    /\ rc.child => rc.run # 0
    /\ rc.ended => rc.run # 0 /\ (~InUse(rc.run) \/ rc.run \in unwaited)

\* Where a supervisor and its child may be at once: there is none before the fork, and
\* none after the wait, if there was one.
Paired(p, gaveUp) ==
    /\ p.sup \in {"none", "launched", "open"} => ~p.child
    /\ p.sup \in {"over", "beaten"} => ~p.child \/ gaveUp

\* Every run in use has the receipt, unless another's was written over it.
JobInv ==
    /\ Past(job) /\ Past(ack)
    /\ \A r \in Runs : Paired(proc[r], r \in unwaited)
    /\ \A r \in Runs : InUse(r) => r \in torn \/ job.run \in {0, r}

\* A run that was used up is not used again.
RunKept(r) == Begun(r) => Begun(r)' /\ (InUse(r)' => InUse(r))

JobKept ==
    /\ JobTyped' /\ JobInv'
    /\ torn \subseteq torn' /\ unwaited \subseteq unwaited'
    /\ \A r \in Runs : RunKept(r)

\* What is in use of the processes p of a run.
Used(p) == p.sup \notin {"none", "launched", "gone"} \/ p.child

\* The processes of run r become p.
Becomes(r, p) == p \in Procs /\ proc' = [proc EXCEPT ![r] = p]

\* What run r may become: it begins once, and takes up nothing once it has.
Follows(r, p) ==
    /\ Becomes(r, p) /\ Paired(p, r \in unwaited')
    /\ Begun(r) => p.sup \notin {"none", "launched"} /\ (Used(p) => Used(proc[r]))

\* One run moves on: its processes, and what it may take up.
LEMMA RunMoves ==
    ASSUME JobTyped, JobInv, NEW r \in Runs, NEW p, Follows(r, p), unwaited \subseteq unwaited'
    PROVE  /\ proc' \in [Runs -> Procs] /\ proc'[r] = p
           /\ \A q \in Runs : q # r => proc'[q] = proc[q]
           /\ \A q \in Runs : RunKept(q)
           /\ \A q \in Runs : Paired(proc'[q], q \in unwaited')
           /\ \A q \in Runs : q # r => (InUse(q)' <=> InUse(q))
           /\ InUse(r)' <=> Used(p)
           /\ \A rc \in Receipts : Past(rc) => Past(rc)'
  <1>1. /\ proc' \in [Runs -> Procs] /\ proc'[r] = p /\ r # 0
        /\ \A q \in Runs : q # r => proc'[q] = proc[q]
    BY RunsType DEF JobTyped, Follows, Becomes
  <1>2. \A q \in Runs : RunKept(q)
    BY <1>1 DEF RunKept, Begun, InUse, Used, Follows
  <1>3. \A q \in Runs : Paired(proc'[q], q \in unwaited')
    <2>1. SUFFICES ASSUME NEW q \in Runs, q # r PROVE Paired(proc'[q], q \in unwaited')
      BY <1>1 DEF Follows
    <2>2. Paired(proc[q], q \in unwaited) /\ proc'[q] = proc[q] /\ (q \in unwaited => q \in unwaited')
      BY <1>1, <2>1 DEF JobInv
    <2> QED BY <2>2 DEF Paired
  <1>4. /\ \A q \in Runs : q # r => (InUse(q)' <=> InUse(q))
        /\ InUse(r)' <=> Used(p)
    BY <1>1 DEF InUse, Used
  <1>5. ASSUME NEW rc \in Receipts, Past(rc) PROVE Past(rc)'
    <2>1. rc.run = 0 \/ rc.run \in Runs
      BY DEF Receipts
    <2>2. rc.run # 0 => Begun(rc.run)'
      BY <1>2, <1>5, <2>1 DEF Past, RunKept
    <2>3. rc.ended => rc.run # 0 /\ (~InUse(rc.run)' \/ rc.run \in unwaited')
      BY <1>2, <1>5, <2>1 DEF Past, RunKept
    <2>4. rc.child => rc.run # 0
      BY <1>5 DEF Past
    <2> QED BY <2>2, <2>3, <2>4 DEF Past, InUse, Begun
  <1> QED BY <1>1, <1>2, <1>3, <1>4, <1>5

\* A supervisor at another place.
LEMMA SupBecomes ==
    ASSUME JobTyped, NEW r \in Runs,
           NEW pc \in {"launched", "open", "written", "waiting", "over", "beaten", "gone"}, Sup(r, pc)
    PROVE  /\ Becomes(r, [proc[r] EXCEPT !.sup = pc])
           /\ [proc[r] EXCEPT !.sup = pc].sup = pc /\ [proc[r] EXCEPT !.sup = pc].child = proc[r].child
  BY DEF JobTyped, Sup, Becomes, Procs

\* The receipts of a run: the first, with its child, and the terminal ones.
LEMMA ReceiptType ==
    ASSUME NEW r \in Runs
    PROVE  /\ Receipt(r) \in Receipts /\ Receipt(r).run = r /\ ~Receipt(r).ended
           /\ WithChild(r) \in Receipts /\ WithChild(r).run = r /\ ~WithChild(r).ended
           /\ [Receipt(r) EXCEPT !.ended = TRUE] \in Receipts /\ [Receipt(r) EXCEPT !.ended = TRUE].run = r
           /\ [WithChild(r) EXCEPT !.ended = TRUE] \in Receipts /\ [WithChild(r) EXCEPT !.ended = TRUE].run = r
  BY DEF Receipt, WithChild, NoReceipt, Receipts

\* No receipt names no run.
LEMMA NoReceiptType ==
    /\ NoReceipt \in Receipts /\ NoReceipt.run = 0 /\ ~NoReceipt.ended
    /\ Past(NoReceipt) /\ Past(NoReceipt)'
  BY DEF NoReceipt, Receipts, Past

\* A receipt is written over what is there.
LEMMA Written ==
    ASSUME JobTyped, JobInv, NEW rc \in Receipts, Write(rc),
           \A q \in Runs : InUse(q)' => InUse(q) \/ q = rc.run
    PROVE  /\ job' = rc /\ job' \in Receipts /\ torn' \subseteq Runs /\ torn \subseteq torn'
           /\ \A q \in Runs : InUse(q)' => q \in torn' \/ job'.run \in {0, q}
  BY DEF Write, JobTyped

\* It stays, or is removed.
LEMMA NotWritten ==
    ASSUME JobTyped, JobInv, job' = job \/ job' = NoReceipt, torn' = torn,
           \A q \in Runs : InUse(q)' => InUse(q)
    PROVE  /\ job' \in Receipts
           /\ \A q \in Runs : InUse(q)' => q \in torn' \/ job'.run \in {0, q}
  BY NoReceiptType DEF JobTyped, JobInv

\* What makes a step keep the jobs.
LEMMA Keeping ==
    ASSUME JobTyped, job' \in Receipts, ack' \in Receipts, proc' \in [Runs -> Procs], torn' \subseteq Runs,
           torn \subseteq torn', unwaited' \subseteq Runs, unwaited \subseteq unwaited',
           kills' \in 0..case'.kills, Past(job)', Past(ack)',
           \A q \in Runs : Paired(proc'[q], q \in unwaited'),
           \A q \in Runs : InUse(q)' => q \in torn' \/ job'.run \in {0, q},
           \A q \in Runs : RunKept(q)
    PROVE  JobKept
  BY DEF JobKept, JobTyped, JobInv, InUse, Paired

\* The processes rest.
LEMMA ProcessesRest ==
    ASSUME JobTyped, JobInv, UNCHANGED <<proc, unwaited>>
    PROVE  /\ \A q \in Runs : RunKept(q) /\ (InUse(q)' <=> InUse(q)) /\ Paired(proc'[q], q \in unwaited')
           /\ \A rc \in Receipts : Past(rc) => Past(rc)'
           /\ proc' \in [Runs -> Procs] /\ unwaited' \subseteq Runs /\ unwaited \subseteq unwaited'
           /\ job \in Receipts /\ ack \in Receipts /\ Past(job) /\ Past(ack)
  BY DEF RunKept, Begun, InUse, Past, JobInv, JobTyped

\* A step that at most removes the receipt.
LEMMA JobRests ==
    ASSUME JobTyped, JobInv, job' = job \/ job' = NoReceipt, UNCHANGED <<case, proc, ack, kills, torn, unwaited>>
    PROVE  JobKept
  <1>1. /\ \A q \in Runs : RunKept(q) /\ (InUse(q)' <=> InUse(q)) /\ Paired(proc'[q], q \in unwaited')
        /\ \A rc \in Receipts : Past(rc) => Past(rc)'
        /\ proc' \in [Runs -> Procs] /\ unwaited' \subseteq Runs /\ unwaited \subseteq unwaited'
        /\ job \in Receipts /\ ack \in Receipts /\ Past(job) /\ Past(ack)
    BY ProcessesRest
  <1>2. job' \in Receipts /\ \A q \in Runs : InUse(q)' => q \in torn' \/ job'.run \in {0, q}
    BY <1>1, NotWritten
  <1>3. Past(ack)'
    BY <1>1 DEF Past, Begun, InUse
  <1>4. Past(job)'
    BY <1>1, NoReceiptType DEF Past, Begun, InUse
  <1> QED BY <1>1, <1>2, <1>3, <1>4, Keeping DEF JobTyped

\* A run moves on by itself; the receipt stays or is removed.
LEMMA RunAlone ==
    ASSUME JobTyped, JobInv, NEW r \in Runs, NEW p, Follows(r, p), Used(p) => Used(proc[r]),
           job' = job \/ job' = NoReceipt, UNCHANGED <<case, ack, torn>>, kills' \in 0..case.kills,
           unwaited' \subseteq Runs, unwaited \subseteq unwaited'
    PROVE  JobKept
  <1>1. /\ proc' \in [Runs -> Procs] /\ \A q \in Runs : RunKept(q)
        /\ \A q \in Runs : Paired(proc'[q], q \in unwaited')
        /\ \A q \in Runs : q # r => (InUse(q)' <=> InUse(q))
        /\ InUse(r)' <=> Used(p)
        /\ \A rc \in Receipts : Past(rc) => Past(rc)'
    BY RunMoves
  <1>2. \A q \in Runs : InUse(q)' => InUse(q)
    BY <1>1 DEF InUse, Used
  <1>3. job' \in Receipts /\ \A q \in Runs : InUse(q)' => q \in torn' \/ job'.run \in {0, q}
    BY <1>2, NotWritten
  <1>4. Past(job) /\ Past(ack) /\ job \in Receipts /\ ack \in Receipts /\ ack' = ack
    BY DEF JobInv, JobTyped
  <1>5. Past(ack)'
    BY <1>1, <1>4 DEF Past, Begun, InUse
  <1>6. Past(job)'
    <2>1. CASE job' = job
      BY <1>1, <1>4, <2>1 DEF Past, Begun, InUse
    <2>2. CASE job' = NoReceipt
      BY <2>2, NoReceiptType DEF Past
    <2> QED BY <2>1, <2>2
  <1> QED BY <1>1, <1>3, <1>5, <1>6, Keeping DEF JobTyped

\* A run moves on and its receipt is written.
LEMMA RunWrites ==
    ASSUME JobTyped, JobInv, NEW r \in Runs, NEW p, Follows(r, p),
           p.sup \notin {"none", "launched"},
           NEW rc \in Receipts, rc.run = r, rc.ended => ~Used(p) \/ r \in unwaited,
           Write(rc), UNCHANGED <<case, ack, kills, unwaited>>
    PROVE  JobKept
  <1>1. /\ proc' \in [Runs -> Procs] /\ \A q \in Runs : RunKept(q)
        /\ \A q \in Runs : Paired(proc'[q], q \in unwaited')
        /\ \A q \in Runs : q # r => (InUse(q)' <=> InUse(q))
        /\ InUse(r)' <=> Used(p)
        /\ \A c \in Receipts : Past(c) => Past(c)'
        /\ proc'[r] = p
    BY RunMoves
  <1>2. /\ torn' \subseteq Runs /\ torn \subseteq torn' /\ job' \in Receipts /\ job' = rc
        /\ \A q \in Runs : InUse(q)' => q \in torn' \/ job'.run \in {0, q}
    BY <1>1, Written
  <1>3. Past(ack) /\ ack \in Receipts /\ ack' = ack
    BY DEF JobInv, JobTyped
  <1>4. Past(ack)'
    BY <1>1, <1>3 DEF Past, Begun, InUse
  <1>5. Past(job)'
    <2>1. r # 0 /\ Begun(r)' /\ (rc.ended => ~InUse(r)' \/ r \in unwaited')
      BY <1>1, RunsType DEF Begun
    <2> QED BY <1>2, <2>1 DEF Past, Begun, InUse
  <1> QED BY <1>1, <1>2, <1>4, <1>5, Keeping DEF JobTyped

\* A run is started.
LEMMA LaunchKept ==
    ASSUME JobTyped, JobInv, NEW r \in Runs, NEW replace \in BOOLEAN, Launch(r, replace)
    PROVE  JobKept
  <1> DEFINE p == [proc[r] EXCEPT !.sup = "launched"]
  <1>1. /\ proc[r].sup = "none" /\ ~proc[r].child /\ Sup(r, "launched")
        /\ UNCHANGED <<case, job, ack, kills, torn, unwaited>>
    BY DEF Launch, JobInv, Paired
  <1>2. Becomes(r, p) /\ p.sup = "launched" /\ ~p.child
    BY <1>1, SupBecomes
  <1> HIDE DEF p
  <1> QED BY <1>1, <1>2, RunAlone DEF Used, Follows, Paired, Begun, JobTyped

\* The first receipt.
LEMMA OpenKept ==
    ASSUME JobTyped, JobInv, NEW r \in Runs, Open(r)
    PROVE  JobKept
  <1> DEFINE p == [proc[r] EXCEPT !.sup = "open"]
  <1>1. /\ proc[r].sup = "launched" /\ ~proc[r].child /\ Sup(r, "open") /\ Write(Receipt(r))
        /\ UNCHANGED <<case, ack, kills, unwaited>>
    BY DEF Open, JobInv, Paired
  <1>2. Becomes(r, p) /\ p.sup = "open" /\ ~p.child
    BY <1>1, SupBecomes
  <1> HIDE DEF p
  <1>3. Follows(r, p)
    BY <1>1, <1>2 DEF Follows, Paired, Begun
  <1> QED BY <1>1, <1>2, <1>3, ReceiptType, RunWrites

\* A busy lane: the run is over with its first receipt.
LEMMA BusyKept ==
    ASSUME JobTyped, JobInv, NEW r \in Runs, Busy(r)
    PROVE  JobKept
  <1> DEFINE p == [proc[r] EXCEPT !.sup = "gone"]
             rc == [Receipt(r) EXCEPT !.ended = TRUE]
  <1>1. /\ proc[r].sup = "launched" /\ ~proc[r].child /\ Sup(r, "gone") /\ Write(rc)
        /\ UNCHANGED <<case, ack, kills, unwaited>>
    BY DEF Busy, JobInv, Paired
  <1>2. Becomes(r, p) /\ p.sup = "gone" /\ ~p.child
    BY <1>1, SupBecomes
  <1>3. rc \in Receipts /\ rc.run = r
    BY ReceiptType
  <1> HIDE DEF p, rc
  <1>4. Follows(r, p) /\ ~Used(p)
    BY <1>1, <1>2 DEF Follows, Paired, Begun, Used
  <1> QED BY <1>1, <1>2, <1>3, <1>4, RunWrites

\* The child is started, or is not.
LEMMA ForksKept ==
    ASSUME JobTyped, JobInv, NEW r \in Runs, Forks(r)
    PROVE  JobKept
  <1>1. /\ proc[r].sup = "open" /\ ~proc[r].child /\ Used(proc[r])
        /\ UNCHANGED <<case, job, ack, kills, torn, unwaited>>
    BY DEF Forks, JobInv, Paired, Used
  <1>2. CASE proc' = [proc EXCEPT ![r] = [sup |-> "forked", child |-> TRUE]]
    <2> DEFINE p == [sup |-> "forked", child |-> TRUE]
    <2>1. p \in Procs /\ p.sup = "forked"
      BY DEF Procs
    <2>2. Becomes(r, p)
      BY <1>2, <2>1 DEF Becomes
    <2> HIDE DEF p
    <2> QED BY <1>1, <2>1, <2>2, RunAlone DEF Follows, Paired, JobTyped
  <1>3. CASE proc' = [proc EXCEPT ![r].sup = "over"]
    <2> DEFINE p == [proc[r] EXCEPT !.sup = "over"]
    <2>1. Becomes(r, p) /\ p.sup = "over" /\ ~p.child
      BY <1>1, <1>3, SupBecomes DEF Sup
    <2> HIDE DEF p
    <2> QED BY <1>1, <2>1, RunAlone DEF Follows, Paired, JobTyped
  <1> QED BY <1>2, <1>3 DEF Forks

\* The receipt is written again, with the child.
LEMMA WritesChildKept ==
    ASSUME JobTyped, JobInv, NEW r \in Runs, WritesChild(r)
    PROVE  JobKept
  <1> DEFINE p == [proc[r] EXCEPT !.sup = "written"]
  <1>1. /\ proc[r].sup = "forked" /\ Sup(r, "written") /\ Write(WithChild(r))
        /\ UNCHANGED <<case, ack, kills, unwaited>>
    BY DEF WritesChild
  <1>2. Becomes(r, p) /\ p.sup = "written"
    BY <1>1, SupBecomes
  <1> HIDE DEF p
  <1>3. Follows(r, p)
    BY <1>1, <1>2 DEF Follows, Paired, Used
  <1> QED BY <1>1, <1>2, <1>3, ReceiptType, RunWrites

\* The wait is over, with the child.
LEMMA WaitedKept ==
    ASSUME JobTyped, JobInv, NEW r \in Runs, Waited(r)
    PROVE  JobKept
  <1> DEFINE p == [proc[r] EXCEPT !.sup = "over"]
  <1>1. /\ proc[r].sup = "waiting" /\ ~proc[r].child /\ Sup(r, "over") /\ Used(proc[r])
        /\ UNCHANGED <<case, job, ack, kills, torn, unwaited>>
    BY DEF Waited, Used
  <1>2. Becomes(r, p) /\ p.sup = "over" /\ ~p.child
    BY <1>1, SupBecomes
  <1> HIDE DEF p
  <1> QED BY <1>1, <1>2, RunAlone DEF Follows, Paired, JobTyped

\* The terminal receipt, which ends the run, or leaves a child that was not waited for.
LEMMA EndsKept ==
    ASSUME JobTyped, JobInv, NEW r \in Runs, Ends(r)
    PROVE  JobKept
  <1> DEFINE p == [proc[r] EXCEPT !.sup = "gone"]
             rc == [WithChild(r) EXCEPT !.ended = TRUE]
  <1>1. /\ proc[r].sup = "beaten" /\ (~proc[r].child \/ r \in unwaited) /\ Sup(r, "gone") /\ Write(rc)
        /\ UNCHANGED <<case, ack, kills, unwaited>>
    BY DEF Ends, JobInv, Paired
  <1>2. Becomes(r, p) /\ p.sup = "gone" /\ p.child = proc[r].child
    BY <1>1, SupBecomes
  <1>3. rc \in Receipts /\ rc.run = r
    BY ReceiptType
  <1> HIDE DEF p, rc
  <1>4. Follows(r, p) /\ (~Used(p) \/ r \in unwaited)
    BY <1>1, <1>2 DEF Follows, Paired, Used
  <1> QED BY <1>1, <1>2, <1>3, <1>4, RunWrites

\* A touch of the lease leaves the receipt, or removes it.
LEMMA TouchReceipt ==
    ASSUME NEW state, Touch(state)
    PROVE  job' = job \/ job' = NoReceipt
  BY DEF Touch, RemoveRuntime

\* The two heartbeats.
LEMMA BeatsKept ==
    ASSUME JobTyped, JobInv, NEW r \in Runs, NEW pc \in {"waiting", "beaten"}, Sup(r, pc), Touch("running"),
           IF pc = "waiting" THEN proc[r].sup = "written" ELSE proc[r].sup = "over",
           UNCHANGED <<case, ack, kills, torn, unwaited>>
    PROVE  JobKept
  <1> DEFINE p == [proc[r] EXCEPT !.sup = pc]
  <1>1. /\ proc[r].sup \in {"written", "over"} /\ Used(proc[r])
        /\ pc = "beaten" => ~proc[r].child \/ r \in unwaited
    BY DEF JobInv, Paired, Used
  <1>2. job' = job \/ job' = NoReceipt
    BY TouchReceipt
  <1>3. Becomes(r, p) /\ p.sup = pc /\ p.child = proc[r].child
    BY SupBecomes
  <1> HIDE DEF p
  <1>4. Follows(r, p)
    BY <1>1, <1>3 DEF Follows, Paired
  <1> QED BY <1>1, <1>2, <1>3, <1>4, RunAlone DEF JobTyped

\* Nobody waits for the child.
LEMMA GivesUpKept ==
    ASSUME JobTyped, JobInv, NEW r \in Runs, proc[r].sup \in {"forked", "written"}, Sup(r, "over"),
           job' = job \/ job' = NoReceipt, unwaited' = unwaited \cup {r}, UNCHANGED <<case, ack, kills, torn>>
    PROVE  JobKept
  <1> DEFINE p == [proc[r] EXCEPT !.sup = "over"]
  <1>1. Becomes(r, p) /\ p.sup = "over"
    BY SupBecomes
  <1> HIDE DEF p
  <1>2. Follows(r, p) /\ Used(proc[r])
    BY <1>1 DEF Follows, Paired, Used
  <1> QED BY <1>1, <1>2, RunAlone DEF JobTyped

\* A child exits.
LEMMA ChildExitsKept ==
    ASSUME JobTyped, JobInv, NEW r \in Runs, ChildExits(r)
    PROVE  JobKept
  <1> DEFINE p == [proc[r] EXCEPT !.child = FALSE]
  <1>1. /\ proc[r].child /\ proc[r] \in Procs /\ proc' = [proc EXCEPT ![r] = p]
        /\ UNCHANGED <<case, job, ack, kills, torn, unwaited>>
    BY DEF ChildExits, JobTyped
  <1>2. p \in Procs /\ p.sup = proc[r].sup /\ ~p.child
    BY <1>1 DEF Procs
  <1>3. Becomes(r, p) /\ proc[r].sup \notin {"none", "launched"} /\ Used(proc[r])
    BY <1>1, <1>2 DEF Becomes, JobInv, Paired, Used
  <1> HIDE DEF p
  <1> QED BY <1>1, <1>2, <1>3, RunAlone DEF Follows, Paired, JobTyped

\* A supervisor is killed; its child may live on.
LEMMA KilledKept ==
    ASSUME ObserverAssumption, case \in Cases, JobTyped, JobInv, NEW r \in Runs, Killed(r)
    PROVE  JobKept
  <1> DEFINE p == [proc[r] EXCEPT !.sup = "gone"]
  <1>1. Sup(r, "gone") /\ UNCHANGED <<case, job, ack, torn, unwaited>>
    BY DEF Killed
  <1>2. kills' \in 0..case.kills
    BY CaseType DEF Killed, JobTyped
  <1>3. Becomes(r, p) /\ p.sup = "gone" /\ p.child = proc[r].child
    BY <1>1, SupBecomes
  <1> HIDE DEF p
  <1>4. Follows(r, p) /\ (Used(p) => Used(proc[r]))
    BY <1>3 DEF Follows, Paired, Used
  <1> QED BY <1>1, <1>2, <1>4, RunAlone DEF JobTyped

\* A receipt that was read, marked as reported.
LEMMA ReportedType ==
    ASSUME NEW rc \in Receipts, Past(rc)
    PROVE  [rc EXCEPT !.reported = TRUE] \in Receipts /\ Past([rc EXCEPT !.reported = TRUE])
  <1> DEFINE c == [rc EXCEPT !.reported = TRUE]
  <1>1. c \in Receipts /\ c.run = rc.run /\ c.ended = rc.ended /\ c.child = rc.child
    BY DEF Receipts
  <1> HIDE DEF c
  <1>2. Past(c)
    BY <1>1 DEF Past
  <1> QED BY <1>1, <1>2 DEF c

\* The processes rest while a receipt of the past is written back, or read.
LEMMA WrittenBack ==
    ASSUME JobTyped, JobInv, NEW rc \in Receipts, Past(rc), Write(rc), ack' \in {ack, NoReceipt},
           UNCHANGED <<case, proc, kills, unwaited>>
    PROVE  JobKept
  <1>1. /\ \A q \in Runs : RunKept(q) /\ (InUse(q)' <=> InUse(q)) /\ Paired(proc'[q], q \in unwaited')
        /\ proc' \in [Runs -> Procs] /\ unwaited' \subseteq Runs /\ unwaited \subseteq unwaited'
        /\ \A c \in Receipts : Past(c) => Past(c)'
        /\ ack \in Receipts /\ Past(ack)
    BY ProcessesRest
  <1>2. /\ job' = rc /\ job' \in Receipts /\ torn' \subseteq Runs /\ torn \subseteq torn'
        /\ \A q \in Runs : InUse(q)' => q \in torn' \/ job'.run \in {0, q}
    BY <1>1, Written
  <1>3. Past(job)'
    BY <1>1, <1>2 DEF Past, Begun, InUse
  <1>4. Past(ack)' /\ ack' \in Receipts
    BY <1>1, NoReceiptType DEF Past, Begun, InUse
  <1> QED BY <1>1, <1>2, <1>3, <1>4, Keeping DEF JobTyped

\* An ack in two steps.
LEMMA AckKept ==
    ASSUME JobTyped, JobInv, AckReads \/ AckWrites
    PROVE  JobKept
  <1>1. CASE AckReads
    <2>1. ack' = job /\ UNCHANGED <<case, job, proc, kills, torn, unwaited>>
      BY <1>1 DEF AckReads
    <2>2. /\ \A q \in Runs : RunKept(q) /\ (InUse(q)' <=> InUse(q)) /\ Paired(proc'[q], q \in unwaited')
          /\ proc' \in [Runs -> Procs] /\ unwaited' \subseteq Runs /\ unwaited \subseteq unwaited'
          /\ \A c \in Receipts : Past(c) => Past(c)'
          /\ job \in Receipts /\ Past(job)
      BY <2>1, ProcessesRest
    <2>3. Past(job)' /\ Past(ack)'
      BY <2>1, <2>2 DEF Past, Begun, InUse
    <2>4. \A q \in Runs : InUse(q)' => q \in torn' \/ job'.run \in {0, q}
      BY <2>1, <2>2 DEF JobInv
    <2> QED BY <2>1, <2>2, <2>3, <2>4, Keeping DEF JobTyped
  <1>2. CASE AckWrites
    <2> DEFINE rc == [ack EXCEPT !.reported = TRUE]
    <2>1. rc \in Receipts /\ Past(rc)
      BY ReportedType DEF JobInv, JobTyped
    <2>2. Write(rc) /\ ack' = NoReceipt /\ UNCHANGED <<case, proc, kills, unwaited>>
      BY <1>2 DEF AckWrites
    <2> HIDE DEF rc
    <2> QED BY <2>1, <2>2, WrittenBack
  <1> QED BY <1>1, <1>2

\* The second half of a clear.
LEMMA FinishClearKept ==
    ASSUME JobTyped, JobInv, FinishClear
    PROVE  JobKept
  <1>1. UNCHANGED <<case, proc, ack, kills, unwaited>>
    BY DEF FinishClear
  <1>2. CASE Write([job EXCEPT !.reported = TRUE])
    <2> DEFINE rc == [job EXCEPT !.reported = TRUE]
    <2>1. rc \in Receipts /\ Past(rc) /\ Write(rc)
      BY <1>2, ReportedType DEF JobInv, JobTyped
    <2> HIDE DEF rc
    <2> QED BY <1>1, <2>1, WrittenBack
  <1>3. CASE UNCHANGED <<job, torn>>
    BY <1>1, <1>3, JobRests
  <1> QED BY <1>2, <1>3 DEF FinishClear

\* A supervisor, whatever it does.
LEMMA SupervisorKept ==
    ASSUME JobTyped, JobInv, NEW r \in Runs, Supervisor(r)
    PROVE  JobKept
  <1>1. CASE FirstBeat(r)
    BY <1>1, BeatsKept DEF FirstBeat
  <1>2. CASE LastBeat(r)
    BY <1>2, BeatsKept DEF LastBeat
  <1>3. CASE BeatLost(r)
    BY <1>3, TouchReceipt, GivesUpKept DEF BeatLost
  <1>4. CASE GivesUp(r)
    BY <1>4, GivesUpKept DEF GivesUp
  <1> QED BY <1>1, <1>2, <1>3, <1>4, OpenKept, BusyKept, ForksKept, WritesChildKept, WaitedKept, EndsKept
          DEF Supervisor

\* All jobs do.
LEMMA JobsKept ==
    ASSUME ObserverAssumption, case \in Cases, JobTyped, JobInv, Jobs
    PROVE  JobKept
  <1>1. ASSUME NEW r \in Runs, NEW replace \in BOOLEAN, Start(r, replace) PROVE JobKept
    <2>1. CASE Launch(r, replace)
      BY <2>1, LaunchKept
    <2>2. CASE UNCHANGED <<case, jobVars>>
      BY <2>2, JobRests DEF jobVars
    <2> QED BY <1>1, <2>1, <2>2 DEF Start
  <1>2. ASSUME NEW r \in Runs, Supervisor(r) \/ ChildExits(r) \/ Killed(r) PROVE JobKept
    BY <1>2, SupervisorKept, ChildExitsKept, KilledKept
  <1> QED BY <1>1, <1>2, AckKept DEF Jobs

\* Everything else a session, the watchdog or a registry does at most removes the receipt.
LEMMA LeaseRests ==
    ASSUME JobTyped, JobInv,
           \/ Create \/ Heartbeat \/ Finish \/ Registry
           \/ \E age \in case.says \cap Ages : Reconcile(age)
           \/ \E s \in LaneStates : Session(s)
    PROVE  JobKept
  <1>1. UNCHANGED <<case, proc, ack, kills, torn, unwaited>>
    BY DEF Create, Heartbeat, Finish, Registry, Reconcile, Session, jobVars
  <1>2. job' = job \/ job' = NoReceipt
    <2>1. CASE Heartbeat \/ Finish
      BY <2>1, TouchReceipt DEF Heartbeat, Finish
    <2>2. CASE Create \/ Registry \/ \E s \in LaneStates : Session(s)
      BY <2>2 DEF Create, Registry, Session, jobVars
    <2>3. ASSUME NEW age, Reconcile(age) PROVE job' = job \/ job' = NoReceipt
      BY <2>3 DEF Reconcile, RemoveRuntime
    <2> QED BY <2>1, <2>2, <2>3
  <1> QED BY <1>1, <1>2, JobRests

\* The jobs and their receipt, whatever step is taken.
LEMMA JobStep ==
    ASSUME ObserverAssumption, case \in Cases, JobTyped, JobInv, Next
    PROVE  JobKept /\ case' = case
  <1>1. ASSUME LeaseNext PROVE JobKept
    BY <1>1, JobsKept, LeaseRests DEF LeaseNext
  <1>2. ASSUME FinishClear PROVE JobKept
    BY <1>2, FinishClearKept
  <1>3. ASSUME UNCHANGED <<case, jobVars>> PROVE JobKept
    BY <1>3, JobRests DEF jobVars
  <1>4. ASSUME RegisterWait \/ Clear \/ \E late \in BOOLEAN : ReconcileRow(late) PROVE JobKept
    BY <1>3, <1>4 DEF RegisterWait, Clear, ReconcileRow
  <1>5. ASSUME \/ \E g \in Gens : Register(g) \/ \E how \in Resolved : Resolve(g, how)
               \/ \E late \in SUBSET Gens : ReconcileCommitments(late)
               \/ Gate
        PROVE  JobKept
    BY <1>3, <1>5 DEF Register, Resolve, ReconcileCommitments, Gate
  <1>6. JobKept
    BY <1>1, <1>2, <1>4, <1>5 DEF Next, WaitNext
  <1>7. LeaseNext => case' = case
    BY DEF LeaseNext, Jobs, Supervisor, Create, Heartbeat, Finish, Start, Launch, Open, Busy, Forks, WritesChild,
           FirstBeat, BeatLost, LastBeat, Waited, GivesUp, Ends, ChildExits, Killed, AckReads, AckWrites, Reconcile, Session, Registry
  <1>8. case' = case
    BY <1>7 DEF Next, WaitNext, RegisterWait, Clear, FinishClear, ReconcileRow, Register, Resolve,
                ReconcileCommitments, Gate
  <1> QED BY <1>6, <1>8

-----------------------------------------------------------------------------
(* The lease and the registry *)

Leases == [state : {"none"} \cup LeaseStates, parent : Gens]

\* A lane that is done, and a lease that says so, have handed off; a rotation has a
\* generation to go to.
HandInv ==
    /\ reg.state = "rotating" => reg.gen < MaxGen
    /\ lane \in {"needs-review", "done"} => handed
    /\ lease.state = "handoff-ready" => handed

LeaseKept == LeaseTyped' /\ HandInv'

\* The values a lease takes.
LEMMA LeaseValues ==
    ASSUME ObserverAssumption, LeaseTyped
    PROVE  /\ NoLease \in Leases /\ NoLease.state = "none" /\ Parent \in Gens
           /\ Held \in Leases /\ (Held.state = "handoff-ready" => lease.state = "handoff-ready")
           /\ \A state \in LeaseStates : [Held EXCEPT !.state = state] \in Leases
                                         /\ [Held EXCEPT !.state = state].state = state
           /\ Quarantined \in Leases /\ Quarantined.state = "error"
           /\ \A state \in LeaseStates : [state |-> state, parent |-> Parent] \in Leases
  <1>1. 1 \in Gens /\ reg.gen \in Gens /\ lease \in Leases
    BY DEF ObserverAssumption, Gens, LeaseTyped, Leases
  <1>2. Parent \in Gens
    BY <1>1 DEF Parent
  <1>3. NoLease \in Leases /\ NoLease.state = "none"
    BY <1>1 DEF NoLease, Leases
  <1>4. FromManifest \in Leases /\ FromManifest.state = "starting"
    BY <1>2 DEF FromManifest, Leases, LeaseStates
  <1>5. Held \in Leases /\ (Held.state = "handoff-ready" => lease.state = "handoff-ready")
    BY <1>1, <1>4 DEF Held
  <1>6. \A state \in LeaseStates : [Held EXCEPT !.state = state] \in Leases
                                   /\ [Held EXCEPT !.state = state].state = state
    BY <1>5 DEF Leases
  <1>7. Quarantined \in Leases /\ Quarantined.state = "error"
    <2>1. "error" \in LeaseStates
      BY DEF LeaseStates
    <2> QED BY <1>6, <2>1 DEF Quarantined
  <1>8. \A state \in LeaseStates : [state |-> state, parent |-> Parent] \in Leases
    BY <1>2 DEF Leases
  <1> QED BY <1>2, <1>3, <1>5, <1>6, <1>7, <1>8

\* A touched lease has the state it is told, or is gone, or in error.
LEMMA TouchLease ==
    ASSUME ObserverAssumption, LeaseTyped, NEW state \in LeaseStates, Touch(state)
    PROVE  lease' \in Leases /\ lease'.state \in {"none", "error", state}
  BY LeaseValues DEF Touch, RemoveRuntime

\* A verdict that the lane has handed off rests on the session or on the lease.
LEMMA VerdictType ==
    ASSUME NEW state, NEW age \in Ages, NEW v \in Verdicts(state, age)
    PROVE  /\ v \in LeaseStates
           /\ v = "handoff-ready" => lane \in {"needs-review", "done"} \/ state = "handoff-ready"
  BY DEF Verdicts, ByEvidence, Ages, LeaseStates

\* A new lease, with the session and the registry as they are.
LEMMA LeaseMoves ==
    ASSUME LeaseTyped, HandInv, UNCHANGED <<case, Elsewhere>>, lease' \in Leases, handed' \in BOOLEAN,
           handed => handed', lease'.state = "handoff-ready" => handed'
    PROVE  LeaseKept
  BY DEF LeaseTyped, HandInv, LeaseKept, Elsewhere, Leases

\* The lease does not move while a run does, but for what touches it.
LEMMA JobsLease ==
    ASSUME ObserverAssumption, LeaseTyped, HandInv, case' = case, Jobs
    PROVE  LeaseKept
  <1>1. UNCHANGED Elsewhere /\ handed' = handed
    BY DEF Jobs, Start, Supervisor, FirstBeat, BeatLost, LastBeat, leaseVars, Elsewhere
  <1>2. handed \in BOOLEAN /\ (handed => handed') /\ handed' \in BOOLEAN
    BY <1>1 DEF LeaseTyped
  <1>3. "running" \in LeaseStates
    BY DEF LeaseStates
  <1>4. \/ lease' = lease \/ lease' = Quarantined
        \/ Touch("running")
    BY DEF Jobs, Start, Supervisor, FirstBeat, BeatLost, LastBeat, leaseVars
  <1>5. CASE lease' = lease
    BY <1>1, <1>2, <1>5, LeaseMoves DEF LeaseTyped, HandInv, Leases
  <1>6. CASE lease' = Quarantined
    BY <1>1, <1>2, <1>6, LeaseMoves, LeaseValues
  <1>7. CASE Touch("running")
    BY <1>1, <1>2, <1>3, <1>7, LeaseMoves, TouchLease
  <1> QED BY <1>4, <1>5, <1>6, <1>7

\* Nor does it in anything of the lease's own but as it is told.
LEMMA LeaseStep ==
    ASSUME ObserverAssumption, case \in Cases, LeaseTyped, HandInv, case' = case, LeaseNext
    PROVE  LeaseKept
  <1>0. handed \in BOOLEAN
    BY DEF LeaseTyped
  <1>1. ASSUME Create PROVE LeaseKept
    <2>1. /\ UNCHANGED Elsewhere /\ handed' = handed /\ lease' = [Held EXCEPT !.state = "starting"]
          /\ "starting" \in LeaseStates
      BY <1>1 DEF Create, LeaseStates
    <2> QED BY <1>0, <2>1, LeaseMoves, LeaseValues
  <1>2. ASSUME Heartbeat PROVE LeaseKept
    <2>1. UNCHANGED Elsewhere /\ handed' = handed
      BY <1>2 DEF Heartbeat
    <2>2. PICK state \in Active \cup {"error"} : Touch(state)
      BY <1>2 DEF Heartbeat
    <2>3. state \in LeaseStates /\ state # "handoff-ready"
      BY DEF Active, LeaseStates
    <2>4. lease' \in Leases /\ lease'.state \in {"none", "error", state}
      BY <2>2, <2>3, TouchLease
    <2> QED BY <1>0, <2>1, <2>3, <2>4, LeaseMoves
  <1>3. ASSUME Finish PROVE LeaseKept
    <2>1. UNCHANGED Elsewhere /\ handed' = TRUE /\ Touch("handoff-ready")
      BY <1>3 DEF Finish
    <2>2. lease' \in Leases
      BY <2>1, TouchLease DEF LeaseStates
    <2> QED BY <2>1, <2>2, LeaseMoves
  <1>4. ASSUME NEW age \in Ages, Reconcile(age) PROVE LeaseKept
    <2>1. UNCHANGED Elsewhere /\ handed' = handed
      BY <1>4 DEF Reconcile
    <2>2. CASE lease' = NoLease \/ lease' = Quarantined
      BY <1>0, <2>1, <2>2, LeaseMoves, LeaseValues
    <2>3. ASSUME NEW v \in Verdicts(Held.state, age), lease' = [state |-> v, parent |-> Parent]
          PROVE  LeaseKept
      <3>1. v \in LeaseStates
            /\ (v = "handoff-ready" => lane \in {"needs-review", "done"} \/ Held.state = "handoff-ready")
        BY VerdictType
      <3>2. v = "handoff-ready" => handed
        BY <3>1, LeaseValues DEF HandInv
      <3>3. lease' \in Leases /\ lease'.state = v
        BY <2>3, <3>1, LeaseValues
      <3> QED BY <1>0, <2>1, <3>2, <3>3, LeaseMoves
    <2> QED BY <1>4, <2>2, <2>3 DEF Reconcile, RemoveRuntime
  <1>5. ASSUME NEW s \in LaneStates, Session(s) PROVE LeaseKept
    <2>1. /\ reg' = reg /\ lease' = lease /\ turns' = turns /\ lane' = s
          /\ handed' = (handed \/ s \in {"needs-review", "done"})
      BY <1>5 DEF Session
    <2>2. moves' \in 0..case.moves
      BY <1>5, CaseType DEF Session, LeaseTyped
    <2>3. handed' \in BOOLEAN
      BY <1>0, <2>1
    <2> QED BY <2>1, <2>2, <2>3 DEF LeaseKept, LeaseTyped, HandInv
  <1>6. ASSUME Registry PROVE LeaseKept
    <2>1. lane' = lane /\ lease' = lease /\ moves' = moves /\ handed' = handed
      BY <1>6 DEF Registry
    <2>2. turns' \in 0..case.turns
      BY <1>6, CaseType DEF Registry, LeaseTyped
    <2>3. /\ reg' \in [gen : Gens, state : {"authoritative", "rotating", "hold"}, adopted : BOOLEAN]
          /\ reg'.state = "rotating" => reg'.gen < MaxGen
      <3>1. /\ reg \in [gen : Gens, state : {"authoritative", "rotating", "hold"}, adopted : BOOLEAN]
            /\ reg.gen \in Gens /\ MaxGen \in Nat
            /\ reg.state = "rotating" => reg.gen < MaxGen
        BY CaseType DEF LeaseTyped, HandInv
      <3>2. CASE reg.gen < MaxGen /\ reg' = [reg EXCEPT !.state = "rotating"]
        BY <3>1, <3>2
      <3>3. ASSUME NEW adopts \in BOOLEAN, reg.state = "rotating",
                   reg' = [gen |-> reg.gen + 1, state |-> "authoritative", adopted |-> adopts]
            PROVE  /\ reg' \in [gen : Gens, state : {"authoritative", "rotating", "hold"}, adopted : BOOLEAN]
                   /\ reg'.state = "rotating" => reg'.gen < MaxGen
        <4>1. reg.gen + 1 \in Gens
          BY <3>1, <3>3 DEF Gens
        <4> QED BY <3>3, <4>1
      <3>4. CASE Transfer
        BY <3>2, <3>3, <3>4 DEF Transfer
      <3>5. CASE Hold
        BY <3>1, <3>5 DEF Hold
      <3>6. CASE Claim
        BY <3>6 DEF Claim
      <3>7. CASE Children
        <4>1. PICK a : reg' = [reg EXCEPT !.adopted = a] /\ a \in BOOLEAN
          BY <3>7 DEF Children
        <4> QED BY <3>1, <4>1
      <3> QED BY <1>6, <3>4, <3>5, <3>6, <3>7 DEF Registry
    <2> QED BY <2>1, <2>2, <2>3 DEF LeaseKept, LeaseTyped, HandInv
  <1>7. ASSUME Jobs PROVE LeaseKept
    BY <1>7, JobsLease
  <1> QED BY <1>1, <1>2, <1>3, <1>4, <1>5, <1>6, <1>7 DEF LeaseNext

-----------------------------------------------------------------------------
(* Waits, commitments, gates *)

WaitTyped == wait \in [state : {"none"} \cup WaitStates, owner : Gens, on : Processes]

\* A wait is on a run that has begun, and ends as it should.
WaitInv ==
    /\ wait.state # "none" => Begun(wait.on.run)
    /\ TerminalMeansEnded

WaitKept == WaitTyped' /\ WaitInv'

\* A wait on the same process, which ends only if it had ended or the process has.
LEMMA WaitMoves ==
    ASSUME JobKept, WaitTyped, WaitInv, WaitTyped', wait'.on = wait.on,
           wait'.state # "none" => wait.state # "none",
           wait'.state \in {"terminal", "clearing", "cleared"} =>
               \/ wait.state \in {"terminal", "clearing", "cleared"}
               \/ ~InUse(wait.on.run) \/ wait.on.run \in torn \cup unwaited
    PROVE  WaitKept
  <1> DEFINE r == wait.on.run
  <1>1. ASSUME wait'.state # "none" PROVE /\ r \in Runs /\ wait'.on.run = r /\ Begun(r)'
                                          /\ (InUse(r)' => InUse(r))
                                          /\ torn \subseteq torn' /\ unwaited \subseteq unwaited'
    BY <1>1 DEF WaitInv, JobKept, RunKept, Begun
  <1>2. wait'.state # "none" => Begun(wait.on.run)'
    BY <1>1 DEF Begun
  <1>3. ASSUME wait'.state \in {"terminal", "clearing", "cleared"}
        PROVE  ~InUse(wait.on.run)' \/ (wait.on.run \in torn \cup unwaited)'
    <2>1. ~InUse(r) \/ r \in torn \cup unwaited
      BY <1>3 DEF WaitInv, TerminalMeansEnded
    <2> QED BY <1>1, <1>3, <2>1 DEF InUse
  <1> QED BY <1>2, <1>3 DEF WaitKept, WaitInv, TerminalMeansEnded

\* The receipt has ended: so has the run it names, and the run of the wait if it is in use
\* and nothing was written over its receipt.
LEMMA EndedReceipt ==
    ASSUME JobTyped, JobInv, WaitInv, wait.state # "none", job.ended
    PROVE  ~InUse(wait.on.run) \/ wait.on.run \in torn \cup unwaited
  <1>1. wait.on.run \in Runs
    BY DEF WaitInv, Begun
  <1>2. job.run # 0 /\ (~InUse(job.run) \/ job.run \in unwaited)
    BY DEF JobInv, Past
  <1> QED BY <1>1, <1>2 DEF JobInv

\* What is written about a wait.
LEMMA WaitStep ==
    ASSUME ObserverAssumption, case \in Cases, JobTyped, JobInv, LeaseTyped, WaitTyped, WaitInv,
           JobKept, WaitNext
    PROVE  WaitKept
  <1>0. reg.gen \in Gens /\ wait.on \in Processes /\ wait.owner \in Gens
    BY DEF LeaseTyped, WaitTyped
  <1>1. ASSUME UNCHANGED wait PROVE WaitKept
    BY <1>1, WaitMoves DEF WaitTyped
  <1>2. ASSUME RegisterWait PROVE WaitKept
    <2>1. /\ wait' = [state |-> "observing", owner |-> reg.gen, on |-> Identity] /\ proc' = proc
          /\ Identity # NoProcess
      BY <1>2 DEF RegisterWait, ObserverProof, jobVars
    <2>2. Identity.run = job.run /\ job.run # 0 /\ Identity \in Processes
      BY <2>1 DEF Identity, SupAlive, ChildAlive, JobTyped, JobInv, Past, Receipts, Processes, NoProcess
    <2>3. Begun(job.run)
      BY <2>2 DEF JobInv, Past
    <2>4. WaitTyped'
      BY <1>0, <2>1, <2>2 DEF WaitTyped, WaitStates
    <2>5. wait'.state = "observing" /\ wait'.on.run = job.run
      BY <2>1, <2>2
    <2>6. WaitInv'
      BY <2>1, <2>3, <2>5 DEF WaitInv, Begun, TerminalMeansEnded
    <2> QED BY <2>4, <2>6 DEF WaitKept
  <1>3. ASSUME Clear PROVE WaitKept
    <2>1. wait' = [wait EXCEPT !.state = "clearing"] /\ wait.state = "terminal"
      BY <1>3 DEF Clear
    <2>2. WaitTyped' /\ wait'.on = wait.on
      BY <2>1 DEF WaitTyped, WaitStates
    <2> QED BY <2>1, <2>2, WaitMoves
  <1>4. ASSUME FinishClear PROVE WaitKept
    <2>1. wait.state = "clearing"
      BY <1>4 DEF FinishClear, Pending
    <2>2. CASE wait' = wait
      BY <1>1, <2>2
    <2>3. CASE wait' = [wait EXCEPT !.state = "cleared"] \/ wait' = [wait EXCEPT !.state = "unobserved"]
      <3>1. WaitTyped' /\ wait'.on = wait.on
        BY <2>3 DEF WaitTyped, WaitStates
      <3> QED BY <2>1, <3>1, WaitMoves
    <2> QED BY <1>4, <2>2, <2>3 DEF FinishClear
  <1>5. ASSUME NEW late \in BOOLEAN, ReconcileRow(late) PROVE WaitKept
    <2> DEFINE w == Adopted(wait)
    <2>1. w \in [state : {"none"} \cup WaitStates, owner : Gens, on : Processes] /\ w.on = wait.on
          /\ w.state = wait.state
      BY <1>0 DEF Adopted, WaitTyped
    <2>2. Observed(w, late) \in WaitStates /\ Observed(w, late) \notin {"clearing", "cleared"}
          /\ (Observed(w, late) = "terminal" => job.ended)
      BY DEF Observed, WaitStates
    <2> HIDE DEF w
    <2>3. wait.state # "none"
      BY <1>5 DEF ReconcileRow
    <2>4. CASE wait' = w /\ w.state = "cleared"
      <3>1. WaitTyped'
        BY <2>1, <2>4 DEF WaitTyped
      <3> QED BY <2>1, <2>3, <2>4, <3>1, WaitMoves
    <2>5. CASE wait' = [w EXCEPT !.state = Observed(w, late)]
      <3>1. WaitTyped' /\ wait'.on = wait.on /\ wait'.state = Observed(w, late)
        BY <2>1, <2>2, <2>5 DEF WaitTyped
      <3> QED BY <2>2, <2>3, <3>1, EndedReceipt, WaitMoves
    <2> QED BY <1>5, <2>4, <2>5 DEF ReconcileRow, w
  <1> QED BY <1>1, <1>2, <1>3, <1>4, <1>5 DEF WaitNext

\* The types of the rest.
CommitTyped == commit \in [Gens -> CommitStates] /\ gate \in {"none", "open", "resolved"}

\* Every step keeps the types of commitments and gates.
LEMMA CommitStep ==
    ASSUME CommitTyped, Next
    PROVE  CommitTyped'
  <1>1. ASSUME UNCHANGED <<commit, gate>> PROVE CommitTyped'
    BY <1>1 DEF CommitTyped
  <1>2. ASSUME NEW g \in Gens, Register(g) PROVE CommitTyped'
    BY <1>2 DEF CommitTyped, Register, CommitStates
  <1>3. ASSUME NEW g \in Gens, NEW how \in Resolved, Resolve(g, how) PROVE CommitTyped'
    BY <1>3 DEF CommitTyped, Resolve, CommitStates
  <1>4. ASSUME NEW late, ReconcileCommitments(late) PROVE CommitTyped'
    <2>1. \A g \in Gens : Reconciled(g, g \in late) \in CommitStates
      BY DEF Reconciled, CommitTyped, CommitStates
    <2> QED BY <1>4, <2>1 DEF ReconcileCommitments, CommitTyped
  <1>5. ASSUME Gate PROVE CommitTyped'
    BY <1>5 DEF Gate, CommitTyped
  <1> QED BY <1>1, <1>2, <1>3, <1>4, <1>5 DEF Next

\* The observers as a whole.
ObserverInv == TypeOK /\ JobInv /\ HandInv /\ WaitInv

\* The invariant, in parts,
LEMMA ObserverParts ==
    ObserverInv <=> /\ case \in Cases /\ JobTyped /\ LeaseTyped /\ WaitTyped /\ CommitTyped
                    /\ JobInv /\ HandInv /\ WaitInv
  BY TypeParts DEF ObserverInv, BoundTyped, WaitTyped, CommitTyped

\* and after a step.
LEMMA ObserverPartsNext ==
    ObserverInv' <=> /\ case' \in Cases /\ JobTyped' /\ LeaseTyped' /\ WaitTyped' /\ CommitTyped'
                     /\ JobInv' /\ HandInv' /\ WaitInv'
  BY DEF ObserverInv, TypeOK, JobTyped, LeaseTyped, WaitTyped, CommitTyped

\* Every step of theirs keeps the invariant.
LEMMA ObserverStep ==
    ASSUME ObserverAssumption, ObserverInv, Next
    PROVE  ObserverInv' /\ JobKept
  <1>1. /\ case \in Cases /\ JobTyped /\ LeaseTyped /\ WaitTyped /\ CommitTyped /\ JobInv /\ HandInv /\ WaitInv
    BY ObserverParts
  <1>2. JobKept /\ case' = case
    BY <1>1, JobStep
  <1>3. LeaseKept
    <2>1. ASSUME LeaseNext PROVE LeaseKept
      BY <1>1, <1>2, <2>1, LeaseStep
    <2>2. ASSUME UNCHANGED leaseVars PROVE LeaseKept
      BY <1>1, <1>2, <2>2 DEF leaseVars, LeaseKept, LeaseTyped, HandInv
    <2> QED BY <2>1, <2>2 DEF Next, WaitNext, RegisterWait, Clear, FinishClear, ReconcileRow, Register, Resolve,
                              ReconcileCommitments, Gate
  <1>4. WaitKept
    <2>1. ASSUME WaitNext PROVE WaitKept
      BY <1>1, <1>2, <2>1, WaitStep
    <2>2. ASSUME UNCHANGED wait PROVE WaitKept
      BY <1>1, <1>2, <2>2, WaitMoves DEF WaitTyped
    <2> QED BY <2>1, <2>2 DEF Next, Register, Resolve, ReconcileCommitments, Gate
  <1>5. CommitTyped'
    BY <1>1, CommitStep
  <1>6. ObserverInv'
    BY <1>1, <1>2, <1>3, <1>4, <1>5, ObserverPartsNext DEF JobKept, LeaseKept, WaitKept
  <1> QED BY <1>2, <1>6

\* The observers at first.
LEMMA ObserverInit ==
    ASSUME ObserverAssumption, Init
    PROVE  ObserverInv
  <1>1. case \in Cases /\ 1 \in Gens /\ case.kills \in Nat /\ case.moves \in Nat /\ case.turns \in Nat
    BY CaseType DEF Init, JobInit, Gens
  <1>2. JobTyped
    BY <1>1, NoReceiptType DEF Init, JobInit, JobTyped, Procs
  <1>3. JobInv
    BY NoReceiptType, RunsType DEF Init, JobInit, JobInv, InUse, Paired
  <1>4. LeaseTyped
    <2>1. lease \in Leases
      BY <1>1 DEF Init, LeaseInit, NoLease, Leases
    <2>2. reg \in [gen : Gens, state : {"authoritative", "rotating", "hold"}, adopted : BOOLEAN]
      BY <1>1 DEF Init, LeaseInit
    <2>3. lane \in LaneStates /\ handed \in BOOLEAN
      BY DEF Init, LeaseInit, LaneStates
    <2> QED BY <1>1, <2>1, <2>2, <2>3 DEF Init, LeaseInit, LeaseTyped, Leases
  <1>5. HandInv
    BY DEF Init, LeaseInit, HandInv, NoLease
  <1>6. WaitTyped /\ WaitInv
    BY <1>1 DEF Init, NoWait, NoProcess, Processes, WaitTyped, WaitInv, TerminalMeansEnded
  <1>7. CommitTyped
    BY DEF Init, CommitTyped, CommitStates
  <1> QED BY <1>1, <1>2, <1>3, <1>4, <1>5, <1>6, <1>7, ObserverParts

-----------------------------------------------------------------------------
(* The sweeps *)

CleanTyped ==
    /\ guest \in {"none", "live", "archived"} /\ harness \subseteq Sessions
    /\ tree \in Trees /\ reviewed \in BOOLEAN
    /\ sweep \in [SweepKinds -> Sweeps] /\ came \in [SweepKinds -> BOOLEAN]

\* What the looks of a sweep have established still holds, unless somebody came since.
ArchiveSafe == ~At("archive", "idle") /\ ~came["archive"] => lane = "archived" /\ guest # "live"
ScanSafe == sweep["scan"].pc \in {"found", "checked"} /\ ~came["scan"] => EndedSession("lane")
GcSafe ==
    /\ sweep["gc"].pc \in {"found", "checked"} /\ ~came["gc"] => lane = "archived" /\ guest # "live" /\ ~reg.adopted
    /\ At("gc", "checked") /\ ~came["gc"] => ~InWorktree /\ Preserved

\* A guest's harness means that there is, or was, a guest.
GuestInv == guest = "none" => "guest" \notin harness

SweepInv == GuestInv /\ ArchiveSafe /\ ScanSafe /\ GcSafe

\* A sweep goes from one place to another; the others stay where they are.
LEMMA GoType ==
    ASSUME CleanTyped, NEW k \in SweepKinds, NEW pc \in {"idle", "looked", "found", "checked", "killed"},
           NEW pids \in SUBSET Sessions, Go(k, pc, pids)
    PROVE  /\ sweep' \in [SweepKinds -> Sweeps] /\ sweep'[k].pc = pc
           /\ \A j \in SweepKinds : j # k => sweep'[j] = sweep[j]
  <1>1. [pc |-> pc, pids |-> pids] \in Sweeps
    BY DEF Sweeps
  <1> QED BY <1>1 DEF Go, CleanTyped

\* The same of a look that may end the sweep.
LEMMA GoIfType ==
    ASSUME CleanTyped, NEW k \in SweepKinds, NEW ok,
           NEW pc \in {"idle", "looked", "found", "checked", "killed"},
           NEW pids \in SUBSET Sessions, GoIf(k, ok, pc, pids)
    PROVE  /\ sweep' \in [SweepKinds -> Sweeps]
           /\ sweep'[k].pc \in {"idle", pc} /\ (sweep'[k].pc # "idle" => ok)
           /\ \A j \in SweepKinds : j # k => sweep'[j] = sweep[j]
  <1>1. CASE ok
    <2>1. Go(k, pc, pids)
      BY <1>1 DEF GoIf
    <2> QED BY <1>1, <2>1, GoType
  <1>2. CASE ~ok
    <2>1. Go(k, "idle", {})
      BY <1>2 DEF GoIf
    <2> QED BY <2>1, GoType
  <1> QED BY <1>1, <1>2

\* A sweep that does not move, while nobody comes, stays safe.
LEMMA OthersSafe ==
    ASSUME UNCHANGED <<lane, guest, lease, proc, reg>>, harness' \subseteq harness
    PROVE  /\ sweep'["archive"] = sweep["archive"] /\ came'["archive"] = came["archive"] /\ ArchiveSafe
                  => ArchiveSafe'
           /\ sweep'["scan"] = sweep["scan"] /\ came'["scan"] = came["scan"] /\ ScanSafe => ScanSafe'
           /\ sweep'["gc"] = sweep["gc"] /\ came'["gc"] = came["gc"] /\ tree' = tree /\ GcSafe => GcSafe'
           /\ guest' = guest /\ GuestInv => GuestInv'
  <1>1. EndedSession("lane")' <=> EndedSession("lane")
    BY DEF EndedSession, Dead
  <1>2. InWorktree' => InWorktree
    BY DEF InWorktree
  <1>3. tree' = tree => (Preserved' <=> Preserved)
    BY DEF Preserved
  <1> QED BY <1>1, <1>2, <1>3 DEF ArchiveSafe, ScanSafe, GcSafe, GuestInv, At

\* A step that is noticed keeps every sweep safe: whoever spoils what it saw has come.
LEMMA NoticedSafe ==
    ASSUME CleanTyped, SweepInv, Noticed, UNCHANGED sweep,
           InWorktree \/ tree' = tree, guest' = "live" => guest \in {"none", "live"}
    PROVE  ArchiveSafe' /\ ScanSafe' /\ GcSafe'
  <1>1. \A k \in SweepKinds : came'[k] <=> came[k] \/ (Comes /\ ~At(k, "idle"))
    BY DEF Noticed
  <1>2. /\ "archive" \in SweepKinds /\ "scan" \in SweepKinds /\ "gc" \in SweepKinds
    BY DEF SweepKinds
  <1>3. ASSUME ~Comes
        PROVE  /\ lane = "archived" => lane' = "archived"
               /\ guest # "live" => guest' # "live"
               /\ ~reg.adopted => ~reg'.adopted
               /\ EndedSession("lane") => EndedSession("lane")'
               /\ ~InWorktree => ~InWorktree'
               /\ ~InWorktree /\ Preserved => Preserved'
    <2>1. /\ lane = "archived" => lane' = "archived"
          /\ guest # "live" => guest' # "live"
          /\ ~reg.adopted => ~reg'.adopted
          /\ EndedSession("lane") => EndedSession("lane")'
      BY <1>3 DEF Comes
    <2>2. ~InWorktree => ~InWorktree'
      <3>1. harness' \subseteq harness /\ \A r \in Runs : proc'[r].child => proc[r].child
        BY <1>3 DEF Comes
      <3> QED BY <3>1 DEF InWorktree
    <2>3. ~InWorktree /\ Preserved => Preserved'
      BY DEF Preserved
    <2> QED BY <2>1, <2>2, <2>3
  <1>4. ArchiveSafe'
    <2>1. At("archive", "idle")' <=> At("archive", "idle")
      BY DEF At
    <2>2. CASE ~At("archive", "idle") /\ ~came'["archive"]
      <3>1. ~came["archive"] /\ ~Comes
        BY <1>1, <1>2, <2>2
      <3> QED BY <1>3, <2>2, <3>1 DEF SweepInv, ArchiveSafe
    <2> QED BY <2>1, <2>2 DEF ArchiveSafe
  <1>5. ScanSafe'
    <2>1. CASE sweep["scan"].pc \in {"found", "checked"} /\ ~came'["scan"]
      <3>1. ~At("scan", "idle")
        BY <2>1 DEF At
      <3>2. ~came["scan"] /\ ~Comes
        BY <1>1, <1>2, <2>1, <3>1
      <3> QED BY <1>3, <2>1, <3>2 DEF SweepInv, ScanSafe
    <2> QED BY <2>1 DEF ScanSafe
  <1>6. GcSafe'
    <2>1. CASE sweep["gc"].pc \in {"found", "checked"} /\ ~came'["gc"]
      <3>1. ~At("gc", "idle")
        BY <2>1 DEF At
      <3>2. ~came["gc"] /\ ~Comes
        BY <1>1, <1>2, <2>1, <3>1
      <3> QED BY <1>3, <2>1, <3>2 DEF SweepInv, GcSafe, At
    <2>2. CASE ~(sweep["gc"].pc \in {"found", "checked"} /\ ~came'["gc"])
      BY <2>2 DEF GcSafe, At
    <2> QED BY <2>1, <2>2
  <1> QED BY <1>4, <1>5, <1>6

SweepKept == CleanTyped' /\ SweepInv'

\* One sweep moves, and nobody comes; it has to show that it is safe itself.
LEMMA SweepMoves ==
    ASSUME CleanTyped, SweepInv, NEW k \in SweepKinds, UNCHANGED <<lane, guest, lease, proc, reg>>,
           harness' \subseteq harness, tree' = tree \/ (k = "gc" /\ tree' \in Trees), reviewed' \in BOOLEAN,
           sweep' \in [SweepKinds -> Sweeps], came' \in [SweepKinds -> BOOLEAN],
           \A j \in SweepKinds : j # k => sweep'[j] = sweep[j] /\ came'[j] = came[j],
           k = "archive" => ArchiveSafe', k = "scan" => ScanSafe', k = "gc" => GcSafe'
    PROVE  SweepKept
  <1>1. CleanTyped'
    BY DEF CleanTyped
  <1>2. k \in {"archive", "scan", "gc"} /\ SweepKinds = {"archive", "scan", "gc"}
    BY DEF SweepKinds
  <1>3. GuestInv /\ ArchiveSafe /\ ScanSafe /\ GcSafe
    BY DEF SweepInv
  <1>4. GuestInv'
    BY <1>3 DEF GuestInv
  <1>5. ArchiveSafe'
    BY <1>2, <1>3, OthersSafe
  <1>6. ScanSafe'
    BY <1>2, <1>3, OthersSafe
  <1>7. GcSafe'
    BY <1>2, <1>3, OthersSafe
  <1> QED BY <1>1, <1>4, <1>5, <1>6, <1>7 DEF SweepKept, SweepInv

\* The first look of a sweep forgets who came before.
LEMMA BeginType ==
    ASSUME CleanTyped, NEW k \in SweepKinds, NEW ok, NEW pids \in SUBSET Sessions, Begin(k, ok, pids)
    PROVE  /\ sweep' \in [SweepKinds -> Sweeps] /\ came' \in [SweepKinds -> BOOLEAN]
           /\ sweep'[k].pc \in {"idle", "looked"} /\ (sweep'[k].pc # "idle" => ok)
           /\ \A j \in SweepKinds : j # k => sweep'[j] = sweep[j] /\ came'[j] = came[j]
  <1>1. GoIf(k, ok, "looked", pids) /\ came' = [came EXCEPT ![k] = FALSE]
    BY DEF Begin
  <1>2. came' \in [SweepKinds -> BOOLEAN] /\ \A j \in SweepKinds : j # k => came'[j] = came[j]
    BY <1>1 DEF CleanTyped
  <1> QED BY <1>1, <1>2, GoIfType

\* The pids of a sweep.
LEMMA PidsType ==
    ASSUME CleanTyped, NEW k \in SweepKinds
    PROVE  sweep[k].pids \in SUBSET Sessions /\ harness \in SUBSET Sessions /\ {} \in SUBSET Sessions
  BY DEF CleanTyped, Sweeps

\* The archive's sweep begins where the lane is archived, and goes on from there.
LEMMA ArchiveSweep ==
    ASSUME CleanTyped, SweepInv, ReadManifests \/ FindPids \/ CheckArchived \/ KillArchived
    PROVE  SweepKept
  <1>0. /\ "archive" \in SweepKinds /\ reviewed \in BOOLEAN /\ came \in [SweepKinds -> BOOLEAN]
        /\ sweep["archive"].pids \in SUBSET Sessions /\ harness \in SUBSET Sessions /\ {} \in SUBSET Sessions
    BY PidsType DEF SweepKinds, CleanTyped
  <1>1. UNCHANGED <<lane, guest, lease, proc, reg, tree, reviewed>>
    BY DEF ReadManifests, FindPids, CheckArchived, KillArchived, Untouched, vars, leaseVars, jobVars
  <1>2. ASSUME ReadManifests PROVE SweepKept
    <2>1. Begin("archive", Archived, {}) /\ harness' = harness
      BY <1>2 DEF ReadManifests
    <2>2. /\ sweep' \in [SweepKinds -> Sweeps] /\ came' \in [SweepKinds -> BOOLEAN]
          /\ sweep'["archive"].pc # "idle" => Archived
          /\ \A j \in SweepKinds : j # "archive" => sweep'[j] = sweep[j] /\ came'[j] = came[j]
      BY <1>0, <2>1, BeginType
    <2>3. ArchiveSafe'
      BY <1>1, <2>2 DEF ArchiveSafe, At, Archived
    <2> QED BY <1>0, <1>1, <2>1, <2>2, <2>3, SweepMoves
  <1>3. ASSUME NEW ok, NEW pc \in {"idle", "looked", "found", "checked", "killed"},
               NEW pids \in SUBSET Sessions,
               GoIf("archive", ok, pc, pids), ~At("archive", "idle"), harness' \subseteq harness, came' = came
        PROVE  SweepKept
    <2>1. sweep' \in [SweepKinds -> Sweeps] /\ \A j \in SweepKinds : j # "archive" => sweep'[j] = sweep[j]
      BY <1>0, <1>3, GoIfType
    <2>2. ArchiveSafe'
      BY <1>1, <1>3 DEF ArchiveSafe, SweepInv
    <2> QED BY <1>0, <1>1, <1>3, <2>1, <2>2, SweepMoves
  <1>4. ASSUME FindPids PROVE SweepKept
    <2>1. /\ GoIf("archive", harness # {}, "found", harness)
          /\ harness' = harness /\ came' = came /\ ~At("archive", "idle")
      BY <1>4 DEF FindPids, At
    <2> QED BY <1>0, <1>3, <2>1
  <1>5. ASSUME CheckArchived PROVE SweepKept
    <2>1. /\ GoIf("archive", tree \in {"pushed", "removed"}, "checked", sweep["archive"].pids)
          /\ harness' = harness /\ came' = came /\ ~At("archive", "idle")
      BY <1>5 DEF CheckArchived, At
    <2> QED BY <1>0, <1>3, <2>1
  <1>6. ASSUME KillArchived PROVE SweepKept
    <2>1. PICK killed : /\ harness' = harness \ killed
                        /\ GoIf("archive", killed = sweep["archive"].pids, "killed", {})
      BY <1>6 DEF KillArchived
    <2>2. harness' \subseteq harness /\ came' = came /\ ~At("archive", "idle")
      BY <1>6, <2>1 DEF KillArchived, At
    <2> QED BY <1>0, <1>3, <2>1, <2>2
  <1> QED BY <1>2, <1>4, <1>5, <1>6

\* The scan judges a lane that is over, by its status or its lease.
LEMMA ScanSweep ==
    ASSUME CleanTyped, SweepInv, ScanPids \/ ScanLane \/ RecheckLane \/ KillLane
    PROVE  SweepKept
  <1>0. /\ "scan" \in SweepKinds /\ reviewed \in BOOLEAN /\ came \in [SweepKinds -> BOOLEAN]
        /\ sweep["scan"].pids \in SUBSET Sessions /\ harness \in SUBSET Sessions /\ {} \in SUBSET Sessions
    BY PidsType DEF SweepKinds, CleanTyped
  <1>1. UNCHANGED <<lane, guest, lease, proc, reg, tree, reviewed>>
    BY DEF ScanPids, ScanLane, RecheckLane, KillLane, Untouched, vars, leaseVars, jobVars
  <1>2. EndedSession("lane")' <=> EndedSession("lane")
    BY <1>1 DEF EndedSession, Dead
  <1>3. ASSUME ScanPids PROVE SweepKept
    <2>1. Begin("scan", TRUE, harness) /\ harness' = harness
      BY <1>3 DEF ScanPids
    <2>2. /\ sweep' \in [SweepKinds -> Sweeps] /\ came' \in [SweepKinds -> BOOLEAN]
          /\ sweep'["scan"].pc \in {"idle", "looked"}
          /\ \A j \in SweepKinds : j # "scan" => sweep'[j] = sweep[j] /\ came'[j] = came[j]
      BY <1>0, <2>1, BeginType
    <2>3. ScanSafe'
      BY <2>2 DEF ScanSafe
    <2> QED BY <1>0, <1>1, <2>1, <2>2, <2>3, SweepMoves
  <1>4. ASSUME sweep' \in [SweepKinds -> Sweeps], \A j \in SweepKinds : j # "scan" => sweep'[j] = sweep[j],
               sweep'["scan"].pc \in {"found", "checked"} => EndedSession("lane") \/ came["scan"],
               harness' \subseteq harness, came' = came
        PROVE  SweepKept
    <2>1. ScanSafe'
      BY <1>2, <1>4 DEF ScanSafe
    <2> QED BY <1>0, <1>1, <1>4, <2>1, SweepMoves
  <1>5. ASSUME ScanLane PROVE SweepKept
    <2> DEFINE pids == PidOf(sweep["scan"].pids)
    <2>1. pids \in SUBSET Sessions
      BY <1>0 DEF PidOf
    <2>2. Over => EndedSession("lane")
      BY DEF Over, EndedSession
    <2> HIDE DEF pids
    <2>3. CASE GoIf("scan", Over /\ tree = "pushed" /\ pids # {}, "found", pids)
      BY <1>0, <1>4, <1>5, <2>1, <2>2, <2>3, GoIfType DEF ScanLane
    <2>4. CASE Go("scan", "idle", {})
      BY <1>0, <1>4, <1>5, <2>4, GoType DEF ScanLane
    <2> QED BY <1>5, <2>3, <2>4 DEF ScanLane, pids
  <1>6. ASSUME RecheckLane PROVE SweepKept
    <2> DEFINE ok == tree = "pushed"
    <2>1. /\ GoIf("scan", ok, "checked", sweep["scan"].pids)
          /\ harness' = harness /\ came' = came /\ sweep["scan"].pc = "found"
      BY <1>6 DEF RecheckLane, At
    <2>2. EndedSession("lane") \/ came["scan"]
      BY <2>1 DEF SweepInv, ScanSafe
    <2> HIDE DEF ok
    <2>3. sweep' \in [SweepKinds -> Sweeps] /\ \A j \in SweepKinds : j # "scan" => sweep'[j] = sweep[j]
      BY <1>0, <2>1, GoIfType
    <2> QED BY <1>4, <2>1, <2>2, <2>3
  <1>7. ASSUME KillLane PROVE SweepKept
    <2>1. Go("scan", "idle", {}) /\ harness' \subseteq harness /\ came' = came
      BY <1>7 DEF KillLane
    <2> QED BY <1>0, <1>4, <2>1, GoType
  <1> QED BY <1>3, <1>5, <1>6, <1>7

\* The gc looks twice, and judges again.
LEMMA GcSweep ==
    ASSUME CleanTyped, SweepInv, DryRun \/ Apply \/ LookAgain \/ ClassifyAgain \/ Remove
    PROVE  SweepKept
  <1>0. /\ "gc" \in SweepKinds /\ reviewed \in BOOLEAN /\ came \in [SweepKinds -> BOOLEAN]
        /\ {} \in SUBSET Sessions /\ tree \in Trees /\ "removed" \in Trees
        /\ sweep \in [SweepKinds -> Sweeps]
    BY DEF SweepKinds, CleanTyped, Trees
  <1>1. UNCHANGED <<lane, guest, lease, proc, reg, harness>>
    BY DEF DryRun, Apply, LookAgain, ClassifyAgain, Remove, Untouched, vars, leaseVars, jobVars
  <1>2. ASSUME DryRun PROVE SweepKept
    <2>1. tree' = tree /\ sweep' = sweep /\ came' = came /\ reviewed' = Candidate
      BY <1>2 DEF DryRun, sweepVars
    <2>2. Candidate \in BOOLEAN
      BY Zenon DEF Candidate
    <2>3. GcSafe'
      BY <1>1, <2>1, OthersSafe DEF SweepInv
    <2> QED BY <1>0, <1>1, <2>1, <2>2, <2>3, SweepMoves
  <1>3. ASSUME Apply PROVE SweepKept
    <2>1. tree' = tree /\ came' = came /\ reviewed' = FALSE /\ GoIf("gc", reviewed /\ Candidate, "looked", {})
      BY <1>3 DEF Apply
    <2>2. /\ sweep' \in [SweepKinds -> Sweeps] /\ sweep'["gc"].pc \in {"idle", "looked"}
          /\ \A j \in SweepKinds : j # "gc" => sweep'[j] = sweep[j]
      BY <1>0, <2>1, GoIfType
    <2>3. GcSafe'
      BY <2>2 DEF GcSafe, At
    <2> QED BY <1>0, <1>1, <2>1, <2>2, <2>3, SweepMoves
  <1>4. ASSUME LookAgain PROVE SweepKept
    <2>1. /\ tree' = tree /\ came' = [came EXCEPT !["gc"] = FALSE] /\ reviewed' = reviewed
          /\ GoIf("gc", Unowned, "found", {})
      BY <1>4 DEF LookAgain, Untouched
    <2>2. /\ sweep' \in [SweepKinds -> Sweeps] /\ sweep'["gc"].pc \in {"idle", "found"}
          /\ sweep'["gc"].pc # "idle" => Unowned
          /\ \A j \in SweepKinds : j # "gc" => sweep'[j] = sweep[j]
      BY <1>0, <2>1, GoIfType
    <2>3. GcSafe'
      BY <1>1, <2>2 DEF GcSafe, At, Unowned
    <2>4. came' \in [SweepKinds -> BOOLEAN] /\ \A j \in SweepKinds : j # "gc" => came'[j] = came[j]
      BY <1>0, <2>1
    <2> QED BY <1>0, <1>1, <2>1, <2>2, <2>3, <2>4, SweepMoves
  <1>5. ASSUME ClassifyAgain PROVE SweepKept
    <2>1. /\ tree' = tree /\ came' = came /\ reviewed' = reviewed /\ sweep["gc"].pc = "found"
          /\ GoIf("gc", Unheld /\ Preserved, "checked", {})
      BY <1>5 DEF ClassifyAgain, Untouched, At
    <2>2. /\ sweep' \in [SweepKinds -> Sweeps]
          /\ sweep'["gc"].pc # "idle" => Unheld /\ Preserved
          /\ \A j \in SweepKinds : j # "gc" => sweep'[j] = sweep[j]
      BY <1>0, <2>1, GoIfType
    <2>3. (InWorktree' <=> InWorktree) /\ (Preserved' <=> Preserved)
      BY <1>1, <2>1 DEF InWorktree, Preserved
    <2>4. GcSafe'
      BY <1>1, <2>1, <2>2, <2>3 DEF GcSafe, At, SweepInv, Unheld
    <2> QED BY <1>0, <1>1, <2>1, <2>2, <2>4, SweepMoves
  <1>6. ASSUME Remove PROVE SweepKept
    <2>1. tree' \in Trees /\ came' = came /\ reviewed' = reviewed /\ Go("gc", "idle", {})
      BY <1>0, <1>6 DEF Remove
    <2>2. /\ sweep' \in [SweepKinds -> Sweeps] /\ sweep'["gc"].pc = "idle"
          /\ \A j \in SweepKinds : j # "gc" => sweep'[j] = sweep[j]
      BY <1>0, <2>1, GoType
    <2>3. GcSafe'
      BY <2>2 DEF GcSafe, At
    <2> QED BY <1>0, <1>1, <2>1, <2>2, <2>3, SweepMoves
  <1> QED BY <1>2, <1>3, <1>4, <1>5, <1>6

\* A sweep that is over holds nothing to be true.
LEMMA DiesKept ==
    ASSUME CleanTyped, SweepInv, NEW k \in SweepKinds, Dies(k)
    PROVE  SweepKept
  <1>1. UNCHANGED <<lane, guest, lease, proc, reg, harness, tree, reviewed, came>> /\ Go(k, "idle", {})
    BY DEF Dies, Untouched, vars, leaseVars, jobVars
  <1>2. /\ sweep' \in [SweepKinds -> Sweeps] /\ sweep'[k].pc = "idle"
        /\ \A j \in SweepKinds : j # k => sweep'[j] = sweep[j]
    BY <1>1, GoType
  <1>3. /\ k = "archive" => ArchiveSafe'
        /\ k = "scan" => ScanSafe'
        /\ k = "gc" => GcSafe'
    BY <1>2 DEF ArchiveSafe, ScanSafe, GcSafe, At
  <1> QED BY <1>1, <1>2, <1>3, SweepMoves DEF CleanTyped

\* Who has come is a truth value.
LEMMA CameType ==
    ASSUME CleanTyped, Noticed
    PROVE  /\ came' \in [SweepKinds -> BOOLEAN]
           /\ \A k \in SweepKinds : came'[k] <=> came[k] \/ (Comes /\ ~At(k, "idle"))
  <1>1. \A k \in SweepKinds : (came[k] \/ (Comes /\ ~At(k, "idle"))) \in BOOLEAN
    BY Zenon
  <1> QED BY <1>1 DEF Noticed

\* The observers do not move with the sweeps, but where the runtime files are removed.
LEMMA ObserverRests ==
    ASSUME ObserverInv, UNCHANGED vars
    PROVE  ObserverInv'
  <1>1. UNCHANGED <<case, job, ack, proc, torn, unwaited, kills, reg, lane, lease, moves, turns, handed,
                   wait, commit, gate>>
    BY DEF vars, leaseVars, jobVars
  <1>2. TypeOK'
    BY <1>1 DEF ObserverInv, TypeOK
  <1>3. JobInv'
    BY <1>1 DEF ObserverInv, JobInv, Past, Begun, InUse, Paired
  <1>4. HandInv' /\ WaitInv'
    BY <1>1 DEF ObserverInv, HandInv, WaitInv, TerminalMeansEnded, Begun, InUse
  <1> QED BY <1>2, <1>3, <1>4 DEF ObserverInv

\* The runtime files are removed: waits and the scan may rest on them, hence Noticed.
LEMMA ForgetKept ==
    ASSUME ObserverAssumption, ObserverInv, CleanTyped, SweepInv, ForgetArchived
    PROVE  ObserverInv' /\ SweepKept
  <1>1. /\ UNCHANGED <<case, proc, ack, kills, torn, unwaited, Elsewhere, handed, wait, commit, gate>>
        /\ UNCHANGED <<guest, harness, tree, reviewed>>
        /\ lease' = NoLease /\ job' = NoReceipt /\ Go("archive", "idle", {}) /\ Noticed
    BY DEF ForgetArchived, RemoveRuntime
  <1>2. /\ case \in Cases /\ JobTyped /\ LeaseTyped /\ WaitTyped /\ CommitTyped /\ JobInv /\ HandInv /\ WaitInv
    BY ObserverParts
  <1>3. JobKept
    BY <1>1, <1>2, JobRests
  <1>4. LeaseKept
    <2>1. NoLease \in Leases /\ NoLease.state = "none" /\ handed \in BOOLEAN
      BY <1>2, LeaseValues DEF LeaseTyped
    <2> QED BY <1>1, <1>2, <2>1, LeaseMoves
  <1>5. WaitKept
    BY <1>1, <1>2, <1>3, WaitMoves DEF WaitTyped
  <1>6. CommitTyped'
    BY <1>1, <1>2 DEF CommitTyped
  <1>7. ObserverInv'
    BY <1>1, <1>2, <1>3, <1>4, <1>5, <1>6, ObserverPartsNext DEF JobKept, LeaseKept, WaitKept
  <1>8. /\ "archive" \in SweepKinds /\ "scan" \in SweepKinds /\ "gc" \in SweepKinds /\ {} \in SUBSET Sessions
    BY DEF SweepKinds
  <1>9. /\ sweep' \in [SweepKinds -> Sweeps] /\ sweep'["archive"].pc = "idle"
        /\ sweep'["scan"] = sweep["scan"] /\ sweep'["gc"] = sweep["gc"]
    BY <1>1, <1>8, GoType
  <1>10. /\ came' \in [SweepKinds -> BOOLEAN]
         /\ \A k \in SweepKinds : came'[k] <=> came[k] \/ (Comes /\ ~At(k, "idle"))
    BY <1>1, CameType
  <1>11. CleanTyped'
    BY <1>1, <1>9, <1>10 DEF CleanTyped
  <1>12. ArchiveSafe' /\ GuestInv'
    BY <1>1, <1>9 DEF ArchiveSafe, At, SweepInv, GuestInv
  <1>13. ScanSafe'
    <2>1. CASE sweep["scan"].pc \in {"found", "checked"} /\ ~came'["scan"]
      <3>1. ~came["scan"] /\ ~Comes
        BY <1>8, <1>10, <2>1 DEF At
      <3>2. EndedSession("lane")'
        BY <2>1, <3>1 DEF SweepInv, ScanSafe, Comes
      <3> QED BY <3>2 DEF ScanSafe
    <2> QED BY <1>9, <2>1 DEF ScanSafe
  <1>14. GcSafe'
    <2>1. lane' = lane /\ reg' = reg /\ (InWorktree' <=> InWorktree) /\ (Preserved' <=> Preserved)
      BY <1>1 DEF Elsewhere, InWorktree, Preserved
    <2>2. ~came'["gc"] => ~came["gc"]
      BY <1>8, <1>10
    <2> QED BY <1>1, <1>9, <2>1, <2>2 DEF GcSafe, At, SweepInv
  <1> QED BY <1>7, <1>11, <1>12, <1>13, <1>14 DEF SweepKept, SweepInv

\* Whatever else happens is noticed.
LEMMA OutsideKept ==
    ASSUME ObserverAssumption, ObserverInv, CleanTyped, SweepInv, Noticed,
           \/ Below \/ Guest \/ Work
           \/ \E s \in Sessions : HarnessStarts(s) \/ HarnessExits(s)
    PROVE  ObserverInv' /\ SweepKept
  <1>1. ASSUME UNCHANGED vars PROVE ObserverInv'
    BY <1>1, ObserverRests
  <1>2. came' \in [SweepKinds -> BOOLEAN]
    BY CameType
  <1>3. ASSUME ObserverInv', UNCHANGED sweep, InWorktree \/ tree' = tree,
               guest' = "live" => guest \in {"none", "live"},
               guest' \in {"none", "live", "archived"}, harness' \subseteq Sessions, tree' \in Trees,
               reviewed' \in BOOLEAN, GuestInv'
        PROVE  ObserverInv' /\ SweepKept
    <2>1. ArchiveSafe' /\ ScanSafe' /\ GcSafe'
      BY <1>3, NoticedSafe
    <2>2. CleanTyped'
      BY <1>2, <1>3 DEF CleanTyped
    <2> QED BY <1>3, <2>1, <2>2 DEF SweepKept, SweepInv
  <1>4. /\ guest \in {"none", "live", "archived"} /\ harness \subseteq Sessions /\ tree \in Trees
        /\ reviewed \in BOOLEAN /\ GuestInv
    BY DEF CleanTyped, SweepInv
  <1>5. ASSUME Below PROVE ObserverInv' /\ SweepKept
    <2>1. Next /\ UNCHANGED <<guest, harness, tree, reviewed, sweep>>
      BY <1>5 DEF Below
    <2>2. ObserverInv'
      BY <2>1, ObserverStep
    <2>3. GuestInv'
      BY <1>4, <2>1 DEF GuestInv
    <2> QED BY <1>3, <1>4, <2>1, <2>2, <2>3
  <1>6. ASSUME Guest PROVE ObserverInv' /\ SweepKept
    <2>1. /\ UNCHANGED <<vars, harness, tree, reviewed, sweep>> /\ guest' \in {"live", "archived"}
          /\ guest' = "live" => guest = "none"
      BY <1>6 DEF Guest
    <2>2. GuestInv'
      BY <2>1 DEF GuestInv
    <2> QED BY <1>1, <1>3, <1>4, <2>1, <2>2
  <1>7. ASSUME Work PROVE ObserverInv' /\ SweepKept
    <2>1. /\ UNCHANGED <<vars, guest, harness, sweep>> /\ InWorktree
          /\ tree' \in Trees /\ reviewed' \in BOOLEAN
      BY <1>4, <1>7 DEF Work, Trees
    <2>2. GuestInv'
      BY <1>4, <2>1 DEF GuestInv
    <2> QED BY <1>1, <1>3, <1>4, <2>1, <2>2
  <1>8. ASSUME NEW s \in Sessions, HarnessStarts(s) \/ HarnessExits(s) PROVE ObserverInv' /\ SweepKept
    <2>1. /\ UNCHANGED <<vars, guest, tree, reviewed, sweep>> /\ harness' \subseteq Sessions
          /\ "guest" \in harness' => "guest" \in harness \/ guest = "live"
      BY <1>4, <1>8 DEF HarnessStarts, HarnessExits, Untouched, Sessions
    <2>2. GuestInv'
      BY <1>4, <2>1 DEF GuestInv
    <2> QED BY <1>1, <1>3, <1>4, <2>1, <2>2
  <1> QED BY <1>5, <1>6, <1>7, <1>8

-----------------------------------------------------------------------------
(* The invariant *)

CleanInv == ObserverInv /\ CleanTyped /\ SweepInv

\* It holds at first: no sweep has begun.
LEMMA CleanInitial ==
    ASSUME ObserverAssumption, CleanInit
    PROVE  CleanInv
  <1>1. /\ guest = "none" /\ harness = {} /\ tree = "pushed" /\ reviewed = FALSE
        /\ sweep = [k \in SweepKinds |-> NoSweep] /\ came = [k \in SweepKinds |-> FALSE]
    BY DEF CleanInit
  <1>2. ObserverInv
    BY ObserverInit DEF CleanInit
  <1>3. NoSweep \in Sweeps
    BY DEF NoSweep, Sweeps
  <1>4. CleanTyped
    BY <1>1, <1>3 DEF CleanTyped, Trees
  <1>5. \A k \in SweepKinds : sweep[k].pc = "idle"
    BY <1>1 DEF NoSweep
  <1>6. SweepInv
    BY <1>1, <1>5 DEF SweepInv, GuestInv, ArchiveSafe, ScanSafe, GcSafe, At, SweepKinds
  <1> QED BY <1>2, <1>4, <1>6 DEF CleanInv

\* Every step keeps it.
LEMMA CleanStep ==
    ASSUME ObserverAssumption, CleanInv, [CleanNext]_allVars
    PROVE  CleanInv'
  <1>0. ObserverInv /\ CleanTyped /\ SweepInv
    BY DEF CleanInv
  <1>1. ASSUME Sweep PROVE ObserverInv' /\ SweepKept
    <2>1. CASE ForgetArchived
      BY <1>0, <2>1, ForgetKept
    <2>2. CASE ReadManifests \/ FindPids \/ CheckArchived \/ KillArchived
      <3>1. UNCHANGED vars
        BY <2>2 DEF ReadManifests, FindPids, CheckArchived, KillArchived, Untouched
      <3> QED BY <1>0, <2>2, <3>1, ArchiveSweep, ObserverRests
    <2>3. CASE ScanPids \/ ScanLane \/ RecheckLane \/ KillLane
      <3>1. UNCHANGED vars
        BY <2>3 DEF ScanPids, ScanLane, RecheckLane, KillLane, Untouched
      <3> QED BY <1>0, <2>3, <3>1, ScanSweep, ObserverRests
    <2>4. CASE DryRun \/ Apply \/ LookAgain \/ ClassifyAgain \/ Remove
      <3>1. UNCHANGED vars
        BY <2>4 DEF DryRun, Apply, LookAgain, ClassifyAgain, Remove, Untouched
      <3> QED BY <1>0, <2>4, <3>1, GcSweep, ObserverRests
    <2>5. ASSUME NEW k \in SweepKinds, Dies(k) PROVE ObserverInv' /\ SweepKept
      <3>1. UNCHANGED vars
        BY <2>5 DEF Dies, Untouched
      <3> QED BY <1>0, <2>5, <3>1, DiesKept, ObserverRests
    <2> QED BY <1>1, <2>1, <2>2, <2>3, <2>4, <2>5 DEF Sweep
  <1>2. ASSUME Noticed, Below \/ Guest \/ Work \/ \E s \in Sessions : HarnessStarts(s) \/ HarnessExits(s)
        PROVE  ObserverInv' /\ SweepKept
    BY <1>0, <1>2, OutsideKept
  <1>3. CASE CleanNext
    <2>1. ObserverInv' /\ SweepKept
      BY <1>1, <1>2, <1>3 DEF CleanNext
    <2> QED BY <2>1 DEF CleanInv, SweepKept
  <1>4. CASE UNCHANGED allVars
    <2>1. UNCHANGED <<vars, guest, harness, tree, reviewed, sweep, came>>
      BY <1>4 DEF allVars, cleanVars, sweepVars
    <2>2. ObserverInv'
      BY <1>0, <2>1, ObserverRests
    <2>3. CleanTyped'
      BY <1>0, <2>1 DEF CleanTyped
    <2>4. UNCHANGED <<lane, lease, proc, reg>>
      BY <2>1 DEF vars, leaseVars, jobVars
    <2>5. SweepInv'
      BY <1>0, <2>1, <2>4, OthersSafe DEF SweepInv
    <2> QED BY <2>2, <2>3, <2>5 DEF CleanInv
  <1> QED BY <1>3, <1>4

\* The invariant of all behaviours.
THEOREM CleanInvariant ==
    ASSUME ObserverAssumption
    PROVE  CleanSpec => []CleanInv
  <1>1. CleanInit => CleanInv
    BY CleanInitial
  <1>2. CleanInv /\ [CleanNext]_allVars => CleanInv'
    BY CleanStep
  <1> QED BY <1>1, <1>2, PTL DEF CleanSpec

-----------------------------------------------------------------------------
(* What follows *)

\* Type correctness of the observers and the sweeps.
THEOREM CleanTypes ==
    ASSUME ObserverAssumption
    PROVE  CleanSpec => []CleanTypeOK
  <1>1. CleanInv => CleanTypeOK
    BY DEF CleanInv, ObserverInv, CleanTyped, CleanTypeOK
  <1> QED BY <1>1, CleanInvariant, PTL

\* A wait ends only when no process of the run it was registered on is left: neither the
\* receipt of another run nor the death of a supervisor ends it.  Except that another run's
\* receipt was written over that run's, or that its supervisor gave up waiting for the child
\* when its write or its first heartbeat failed.
THEOREM WaitsEndWithTheirRun ==
    ASSUME ObserverAssumption
    PROVE  CleanSpec => []TerminalMeansEnded
  <1>1. CleanInv => TerminalMeansEnded
    BY DEF CleanInv, ObserverInv, WaitInv
  <1> QED BY <1>1, CleanInvariant, PTL

\* Only resolve settles a commitment by success, and what it finds has come to an end.
LEMMA ResolveSettles ==
    ASSUME ObserverInv, Next, NEW g \in Gens, commit[g] # "resolved", commit'[g] = "resolved"
    PROVE  \/ Kind = "worker-lease" /\ handed
           \/ Kind = "owner-gate" /\ gate = "resolved"
           \/ /\ Kind = "external-wait"
              /\ wait.state = "deadline" \/ wait.on.run \in torn \cup unwaited \/ ~InUse(wait.on.run)
  <1>0. CommitTyped /\ HandInv /\ TerminalMeansEnded
    BY ObserverParts DEF WaitInv
  <1>1. commit' # commit
    OBVIOUS
  <1>2. ASSUME NEW h \in Gens, Register(h) PROVE FALSE
    BY <1>0, <1>2 DEF Register, CommitTyped
  <1>3. ASSUME NEW late \in SUBSET Gens, ReconcileCommitments(late) PROVE FALSE
    <2>1. commit'[g] = Reconciled(g, g \in late)
      BY <1>3 DEF ReconcileCommitments
    <2> QED BY <2>1 DEF Reconciled
  <1>4. PICK h \in Gens, how \in Resolved : Resolve(h, how)
    BY <1>1, <1>2, <1>3 DEF Next, Gate
  <1>5. commit' = [commit EXCEPT ![h] = how] /\ (how = "resolved" => Terminal)
    BY <1>4 DEF Resolve
  <1>6. Terminal
    BY <1>0, <1>5 DEF CommitTyped
  <1> QED BY <1>0, <1>6 DEF Terminal, HandInv, TerminalMeansEnded

\* A commitment is settled by success or failure only once its lane has handed off, its gate
\* has been resolved, or the process it waits for has ended or run into its deadline, with the
\* two exceptions of WaitsEndWithTheirRun.
THEOREM CommitmentsSettledByOutcome ==
    ASSUME ObserverAssumption
    PROVE  CleanSpec => SettledByOutcome
  <1> DEFINE Settled ==
                 \A g \in Gens : commit[g] # "resolved" /\ commit'[g] = "resolved" =>
                     \/ Kind = "worker-lease" /\ handed
                     \/ Kind = "owner-gate" /\ gate = "resolved"
                     \/ /\ Kind = "external-wait"
                        /\ \/ wait.state = "deadline" \/ wait.on.run \in torn \cup unwaited
                           \/ ~InUse(wait.on.run)
  <1>1. ASSUME CleanInv, [CleanNext]_allVars PROVE [Settled]_vars
    <2>1. CASE Next
      <3>1. Settled
        BY <1>1, <2>1, ResolveSettles DEF CleanInv
      <3> QED BY <3>1
    <2>2. CASE UNCHANGED commit
      BY <2>2
    <2>3. Next \/ UNCHANGED commit
      BY <1>1 DEF CleanNext, Below, Sweep, ReadManifests, FindPids, CheckArchived, KillArchived, ForgetArchived,
                  ScanPids, ScanLane, RecheckLane, KillLane, DryRun, Apply, LookAgain, ClassifyAgain, Remove,
                  Dies, Guest, Work, HarnessStarts, HarnessExits, Untouched, allVars, vars
    <2> QED BY <2>1, <2>2, <2>3
  <1>2. CleanSpec => []CleanInv
    BY CleanInvariant
  <1> QED BY <1>1, <1>2, PTL DEF CleanSpec, SettledByOutcome

\* Only the gc removes a worktree, and what it has seen still holds.
LEMMA RemovesUnused ==
    ASSUME CleanInv, [CleanNext]_allVars, tree # "removed", tree' = "removed"
    PROVE  came["gc"] \/ (lane = "archived" /\ guest # "live" /\ ~reg.adopted /\ ~InWorktree /\ Preserved)
  <1>1. ASSUME ~Remove PROVE FALSE
    BY <1>1 DEF CleanNext, Below, Sweep, ReadManifests, FindPids, CheckArchived, KillArchived, ForgetArchived,
                ScanPids, ScanLane, RecheckLane, KillLane, DryRun, Apply, LookAgain, ClassifyAgain,
                Dies, Guest, Work, HarnessStarts, HarnessExits, Untouched, allVars, cleanVars
  <1>2. At("gc", "checked")
    BY <1>1 DEF Remove
  <1> QED BY <1>2 DEF At, CleanInv, SweepInv, GcSafe

\* A worktree is removed only when the lane is archived, no live session, no registry and no
\* process needs it and no commit is lost with it.  Except for one who came after the gc had
\* begun its last look around: a session that is back, a harness or a job's child that has
\* started, a registry that has adopted the lane.
THEOREM WorktreesRemovedUnused ==
    ASSUME ObserverAssumption
    PROVE  CleanSpec => RemovedUnused
  <1>1. CleanInv /\ [CleanNext]_allVars =>
            [tree # "removed" /\ tree' = "removed" =>
                came["gc"] \/ (lane = "archived" /\ guest # "live" /\ ~reg.adopted /\ ~InWorktree /\ Preserved)]_allVars
    BY RemovesUnused
  <1> QED BY <1>1, CleanInvariant, PTL DEF CleanSpec, RemovedUnused

\* A sweep that ends harnesses has seen their sessions ended.
LEMMA ReapsEnded ==
    ASSUME CleanInv, [CleanNext]_allVars, NEW s \in harness \ harness'
    PROVE  /\ At("archive", "checked") /\ sweep'["archive"] # sweep["archive"] =>
                  came["archive"] \/ EndedSession(s)
           /\ At("scan", "checked") /\ sweep'["scan"] # sweep["scan"] =>
                  came["scan"] \/ EndedSession(s) \/ s = "guest"
  <1>1. /\ guest \in {"none", "live", "archived"} /\ s \in {"lane", "guest"}
        /\ guest = "none" => s # "guest"
    BY DEF CleanInv, CleanTyped, SweepInv, GuestInv, Sessions
  <1>2. KillArchived \/ KillLane \/ UNCHANGED sweep
    BY DEF CleanNext, Below, Sweep, ReadManifests, FindPids, CheckArchived, ForgetArchived,
           ScanPids, ScanLane, RecheckLane, DryRun, Apply, LookAgain, ClassifyAgain, Remove,
           Dies, Guest, Work, HarnessStarts, HarnessExits, Untouched, allVars, cleanVars, sweepVars
  <1>3. "archive" \in SweepKinds /\ "scan" \in SweepKinds /\ {} \in SUBSET Sessions /\ CleanTyped
    BY DEF SweepKinds, CleanInv
  <1>4. CASE KillArchived
    <2>1. At("archive", "checked") /\ \E ok : GoIf("archive", ok, "killed", {})
      BY <1>4 DEF KillArchived
    <2>2. sweep'["scan"] = sweep["scan"]
      BY <1>3, <2>1, GoIfType
    <2>3. came["archive"] \/ (lane = "archived" /\ guest # "live")
      BY <2>1 DEF At, CleanInv, SweepInv, ArchiveSafe
    <2> QED BY <1>1, <2>2, <2>3 DEF EndedSession
  <1>5. CASE KillLane
    <2>1. At("scan", "checked") /\ Go("scan", "idle", {})
      BY <1>5 DEF KillLane
    <2>2. sweep'["archive"] = sweep["archive"]
      BY <1>3, <2>1, GoType
    <2>3. came["scan"] \/ EndedSession("lane")
      BY <2>1 DEF At, CleanInv, SweepInv, ScanSafe
    <2> QED BY <1>1, <2>2, <2>3
  <1> QED BY <1>2, <1>4, <1>5

\* A harness is ended only if its session is over by then, by its archive, its status or its
\* lease, except for one who came after the sweep had begun to look, and except that the scan
\* takes the only harness in the lane's worktree for the lane's.
THEOREM HarnessesReapedHadEnded ==
    ASSUME ObserverAssumption
    PROVE  CleanSpec => ReapedHadEnded
  <1>1. CleanInv /\ [CleanNext]_allVars =>
            [\A s \in harness \ harness' :
                /\ At("archive", "checked") /\ sweep'["archive"] # sweep["archive"] =>
                      came["archive"] \/ EndedSession(s)
                /\ At("scan", "checked") /\ sweep'["scan"] # sweep["scan"] =>
                      came["scan"] \/ EndedSession(s) \/ s = "guest"]_allVars
    BY ReapsEnded
  <1> QED BY <1>1, CleanInvariant, PTL DEF CleanSpec, ReapedHadEnded

=============================================================================
