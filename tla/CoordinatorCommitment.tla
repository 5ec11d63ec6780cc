------------------------ MODULE CoordinatorCommitment ------------------------
(***************************************************************************)
(* coordinator-commitment.py over everything it may be bound to: the lease *)
(* of a lane, an external wait, an owner gate or a date.  A coordinator    *)
(* registers one commitment in its generation and resolves it on what the  *)
(* binding's own file says.                                                *)
(***************************************************************************)
EXTENDS ExternalWait

VARIABLES
    commit,         \* commit[g]: the commitment of generation g
    gate            \* owner-gates/<project>/<gate>.json

vars == <<case, jobVars, leaseVars, wait, commit, gate>>

Resolved == {"resolved", "resolved-timeout"}
CommitStates ==
    {"none", "registered", "observing", "orphaned", "missing-reference", "ready", "overdue",
     "unobserved"} \cup Resolved

Init ==
    /\ JobInit /\ LeaseInit
    /\ wait = NoWait
    /\ commit = [g \in Gens |-> "none"]
    /\ gate = "none"

Kind == case.binding

\* binding_state, for the coordinator of generation g: the reference is there and its own,
Present(g) ==
    \/ Kind = "worker-lease" /\ lease # NoLease /\ lease.parent = g
    \/ Kind = "external-wait" /\ wait.state # "none" /\ wait.owner = g
    \/ Kind = "owner-gate" /\ gate # "none"
    \/ Kind = "scheduled-review"

\* something looks at it,
IsObserved ==
    \/ Kind = "worker-lease" /\ lease.state \in Active \cup {"handoff-ready"}
    \/ Kind = "external-wait" /\ wait.state \in {"observing", "terminal"}
    \/ Kind = "owner-gate" /\ gate = "open"
    \/ Kind = "scheduled-review"

\* Mutant of Terminal: an observer that is gone has ended.
TerminalOrGone ==
    \/ Kind = "worker-lease" /\ lease.state \in {"handoff-ready", "stalled", "error"}
    \/ Kind = "external-wait" /\ wait.state \in {"terminal", "deadline", "cleared", "unobserved"}
    \/ Kind = "owner-gate" /\ gate = "resolved"

\* and it has ended.
Terminal ==
    \/ Kind = "worker-lease" /\ lease.state = "handoff-ready"
    \/ Kind = "external-wait" /\ wait.state \in {"terminal", "deadline", "cleared"}
    \/ Kind = "owner-gate" /\ gate = "resolved"

\* authoritative_coordinator
Authoritative(g) == reg.gen = g /\ reg.state = "authoritative"

Register(g) ==
    /\ g <= case.commits /\ Authoritative(g) /\ commit[g] = "none"
    /\ Present(g) /\ (IsObserved \/ Terminal)
    /\ commit' = [commit EXCEPT ![g] = IF Kind = "scheduled-review" THEN "registered" ELSE "observing"]
    /\ UNCHANGED <<case, jobVars, leaseVars, wait, gate>>

\* cmd_resolve: success and failure need a terminal observer, a timeout the deadline.
Resolve(g, how) ==
    /\ Authoritative(g)
    /\ commit[g] \notin Resolved \cup {"none"}
    /\ how = "resolved" => Present(g) /\ Terminal
    /\ commit' = [commit EXCEPT ![g] = how]
    /\ UNCHANGED <<case, jobVars, leaseVars, wait, gate>>

\* reconcile_one, from top to bottom; late: the commitment's deadline is over.
Reconciled(g, late) ==
    IF commit[g] \in Resolved \cup {"none"} THEN commit[g]
    ELSE IF ~Authoritative(g) THEN "orphaned"
    ELSE IF ~Present(g) THEN "missing-reference"
    ELSE IF Terminal THEN "ready"
    ELSE IF late THEN "overdue"
    ELSE IF ~IsObserved THEN "unobserved"
    ELSE IF Kind = "scheduled-review" THEN "registered" ELSE "observing"

ReconcileCommitments(late) ==
    /\ \A g \in Gens : commit[g] = "overdue" => g \in late
    /\ commit' = [g \in Gens |-> Reconciled(g, g \in late)]
    /\ UNCHANGED <<case, jobVars, leaseVars, wait, gate>>

\* owner-gate.py create and resolve, the latter with the owner's authority.
Gate ==
    /\ Kind = "owner-gate"
    /\ \/ gate = "none" /\ gate' = "open"
       \/ gate = "open" /\ gate' = "resolved"
    /\ UNCHANGED <<case, jobVars, leaseVars, wait, commit>>

Next ==
    \/ WaitNext /\ UNCHANGED <<commit, gate>>
    \/ \E g \in Gens : Register(g) \/ \E how \in Resolved : Resolve(g, how)
    \/ \E late \in SUBSET Gens : ReconcileCommitments(late)
    \/ Gate

Spec == Init /\ [][Next]_vars

\* Nothing is left that could produce evidence of work.
Quiet == lane = "silent" /\ \A r \in Runs : ~InUse(r)

\* The watchdog reconciles leases and waits every few minutes, and the evidence of a quiet
\* lane grows old.  Neither sessions, jobs nor coordinators need act.
Fairness ==
    /\ WF_vars((\E age \in case.says \cap Ages : Reconcile(age)) /\ UNCHANGED <<wait, commit, gate>>)
    /\ WF_vars(Quiet /\ "stalled" \in case.says /\ Reconcile("stalled") /\ UNCHANGED <<wait, commit, gate>>)
    /\ WF_vars((ReconcileRow(FALSE) \/ ReconcileRow(TRUE)) /\ UNCHANGED <<commit, gate>>)
    /\ WF_vars(FinishClear /\ wait' # wait /\ UNCHANGED <<commit, gate>>)

FairSpec == Spec /\ Fairness

-----------------------------------------------------------------------------
(* Properties *)

\* Type invariant.
TypeOK ==
    /\ case \in Cases
    /\ job \in Receipts /\ ack \in Receipts
    /\ proc \in [Runs -> Procs] /\ torn \subseteq Runs /\ unwaited \subseteq Runs
    /\ kills \in 0..case.kills /\ moves \in 0..case.moves /\ turns \in 0..case.turns
    /\ reg \in [gen : Gens, state : {"authoritative", "rotating", "hold"}, adopted : BOOLEAN]
    /\ lane \in LaneStates /\ handed \in BOOLEAN
    /\ lease \in [state : {"none"} \cup LeaseStates, parent : Gens]
    /\ wait \in [state : {"none"} \cup WaitStates, owner : Gens, on : Processes]
    /\ commit \in [Gens -> CommitStates]
    /\ gate \in {"none", "open", "resolved"}

\* A wait ends only when no process of the run it was registered on is left: not on the
\* receipt of a run that is still at work, of another one, or on a killed supervisor.
\* Except that something else was written over that run's receipt while it was in use, or
\* that its supervisor, whose first write or heartbeat with the child's pid had failed, has
\* declared the run over without waiting for the child.
TerminalMeansEnded ==
    wait.state \in {"terminal", "clearing", "cleared"} =>
        ~InUse(wait.on.run) \/ wait.on.run \in torn \cup unwaited

\* A commitment is settled by success or failure only once what it is about has come to
\* an end: its lane has handed off, the gate has been resolved, the process observed has
\* ended (as far as TerminalMeansEnded has it) or the wait run into its deadline.
SettledByOutcome ==
    [][\A g \in Gens : commit[g] # "resolved" /\ commit'[g] = "resolved" =>
          \/ Kind = "worker-lease" /\ handed
          \/ Kind = "owner-gate" /\ gate = "resolved"
          \/ /\ Kind = "external-wait"
             /\ \/ wait.state = "deadline" \/ wait.on.run \in torn \cup unwaited
                \/ ~InUse(wait.on.run)]_vars

\* After a rotation the lease of an adopted lane and the waits on its jobs come to name the
\* successor, if the registry keeps still and the lane's protocol version is not a strict one,
\* whose admission is confirmed for the first coordinator only.
Rests(g) == reg.gen = g /\ reg.adopted /\ reg.state = "authoritative"
Follow(g) ==
    /\ lease # NoLease => lease.parent = g
    /\ wait # NoWait => wait.owner = g
ObserversFollow(g) ==
    <>[](Rests(g) /\ lane \notin {"archived", "relabelled"}) => <>[]Follow(g)
LegacyObserversFollow == case.strict \/ \A g \in Gens : ObserversFollow(g)

\* A lane whose session and jobs are silent does not look active for ever, unless the exit
\* of its last job is still to be reported.
SilentLaneIsNoticed ==
    <>[]Quiet =>
        []<>(lease.state \in {"stalled", "error", "handoff-ready"} \/ (job.ended /\ ~job.reported))

\* A clear that was journaled is completed, unless the receipt it was about is gone.
ClearCompletes == (wait.state = "clearing") ~> (wait.state = "cleared" \/ ~job.ended)

=============================================================================
