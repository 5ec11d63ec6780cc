------------------------------ MODULE Scheduler ------------------------------
(***************************************************************************)
(* DeterministicScheduler (v4/src/scheduler.ts) over FakeTracker: runners  *)
(* that tick, reconcile the active claim against its Craft session and     *)
(* start the next issue.  A tick awaits every adapter call; between two of *)
(* them the clock, the agents, the operator and other runners move.        *)
(*                                                                         *)
(* FakeTracker keeps at most one claim (WipOne), so reconcile's loop over  *)
(* the active claims has one round at most.                                *)
(***************************************************************************)
EXTENDS FakeTracker

CONSTANTS
    Runners,
    Moved,          \* runners whose restart may give them another workspace root
    Narrowed,       \* runners whose model policy does not allow the profile of the contracts
    StaleRun,       \* scheduler.staleRunMs
    TurnLimit,      \* craft deadlines.turnMs
    ErrorsStop,     \* TRUE: Craft stops processing a turn that reported an error
    Prompt,         \* TRUE: every runner polls once per unit of the clock
    Handoffs,       \* states the operator moves issues to
    MaxCrashes,     \* bound: crashes of runners in a behaviour
    MaxErrors       \* bound: failed ensure calls in a behaviour

ASSUME SchedulerAssumption ==
    /\ Issues \in (SUBSET Nat) \ {{}}
    /\ Runners # {}
    /\ Moved \subseteq Runners
    /\ Narrowed \subseteq Runners
    /\ StaleRun \in Nat \ {0}
    /\ TurnLimit \in Nat
    /\ ErrorsStop \in BOOLEAN
    /\ Prompt \in BOOLEAN
    /\ Handoffs \subseteq LifecycleStates \ {"claimed", "running", "retry-wait"}
    /\ MaxCrashes \in Nat
    /\ MaxErrors \in Nat

VARIABLES
    root,       \* root[i]: the workspace root in the latest claim on i
    place,      \* place[i][k]: the root that attempt k at i has its workspace in
    session,    \* session[i][k]: the Craft session of attempt k at issue i
    run,        \* run[r]: where runner r is in its tick
    moved,      \* runners with another workspace root
    crashes,    \* crashes still to come
    errors      \* failures of ensure still to come

tracked == <<snap, now>>
craft == <<place, session>>
faults == <<moved, crashes, errors>>
allVars == <<tracked, root, craft, run, faults>>

Roots == {"kept", "moved"}
RootOf(r) == IF r \in moved THEN "moved" ELSE "kept"

Attempts == 1..MaxAttempts

\* busy: the agent is still working, whatever status its session has; since:
\* when it was given its prompt.
SessionStates == {"absent", "running", "settled", "failed", "ended-without-response", "deadline"}
Sessions == [status : SessionStates, busy : BOOLEAN, since : Nat]
NoSession == [status |-> "absent", busy |-> FALSE, since |-> 0]

Pcs == {"idle", "reconcile", "resume", "judge", "cancel", "stopped",
        "dispatch", "claim", "workspace", "session", "mark", "abort"}

Runs ==
    [pc : Pcs,
     at : Nat,              \* the time reconcile read
     issue : Issues,        \* the issue in hand,
     seen : Snapshots,      \* its snapshot as last read,
     foreign : BOOLEAN,     \* whether its claim was made under another root
     status : SessionStates \cup {"cancel-deadline"},   \* and its session as last read
     todo : SUBSET [issue : Issues, seen : Snapshots],  \* candidates not tried yet
     polled : Int]          \* when the tick began

Idle(polled) ==
    [pc |-> "idle", at |-> 0, issue |-> CHOOSE i \in Issues : TRUE, seen |-> Seeded,
     foreign |-> FALSE, status |-> "absent", todo |-> {}, polled |-> polled]

SchedulerInit ==
    /\ Init
    /\ root = [i \in Issues |-> "kept"]
    /\ place = [i \in Issues |-> [k \in Attempts |-> "none"]]
    /\ session = [i \in Issues |-> [k \in Attempts |-> NoSession]]
    /\ run = [r \in Runners |-> Idle(-1)]
    /\ moved = {}
    /\ crashes = MaxCrashes
    /\ errors = MaxErrors

At(r, pc) == run[r].pc = pc
Goto(r, pc) == run' = [run EXCEPT ![r].pc = pc]
\* The tick returns, or throws: either way the runner waits for its next poll.
Finish(r) == run' = [run EXCEPT ![r] = Idle(run[r].polled)]

Fence(r) == run[r].seen.claim.fence
Attempt(r) == run[r].seen.claim.attempt

\* The status of a session as judged at a time: a turn that has reached its
\* limit is past its deadline.
Status(i, k, at) ==
    LET s == session[i][k] IN
    IF s.status = "running" /\ at >= s.since + TurnLimit THEN "deadline" ELSE s.status

\* A tracker write, after which the tick goes on to pc; if the tracker refuses,
\* the tick throws.
Call(r, allowed, write, pc) ==
    IF allowed THEN write /\ Goto(r, pc) ELSE UNCHANGED tracked /\ Finish(r)

\* failClaim, then on to dispatch.
Fail(r, class, at) ==
    LET i == run[r].issue IN
    Call(r, Holds(i, Fence(r)) /\ CanMove(snap[i].state, AfterFailure(i, class)),
         FailClaim(i, Fence(r), class, at), "dispatch")

\* transition to preservation-unknown, then on to dispatch.
Preserve(r) ==
    LET i == run[r].issue IN
    Call(r, Holds(i, Fence(r)) /\ CanMove(snap[i].state, "preservation-unknown"),
         Transition(i, "preservation-unknown", Fence(r), {}), "dispatch")

Beat(r) ==
    LET i == run[r].issue IN
    Call(r, Holds(i, Fence(r)), Heartbeat(i, Fence(r), run[r].at), "dispatch")

-----------------------------------------------------------------------------
(* reconcile *)

\* A tick begins: the clock and the active claims are read.
Poll(r) ==
    /\ At(r, "idle")
    /\ run[r].polled < now
    /\ run' = [run EXCEPT ![r] =
                  IF ActiveClaims = {}
                  THEN [Idle(now) EXCEPT !.pc = "dispatch", !.at = now]
                  ELSE LET i == CHOOSE j \in ActiveClaims : TRUE IN
                       [Idle(now) EXCEPT !.pc = "reconcile", !.at = now, !.issue = i,
                                         !.seen = snap[i], !.foreign = root[i] # RootOf(r)]]
    /\ UNCHANGED <<tracked, root, craft, faults>>

\* Mutant of IdentityMatches: the identity in the claim is taken on trust.
IdentityAssumed(r) == TRUE

\* The claim names the workspace this runner derives for the attempt.
IdentityMatches(r) == ~run[r].foreign

\* What reconcile does with the claim it saw.
Reconcile(r) ==
    LET state == run[r].seen.state IN
    /\ At(r, "reconcile")
    /\ CASE ~IdentityMatches(r) -> Preserve(r)
         [] IdentityMatches(r) /\ r \in Narrowed -> Fail(r, "policy", run[r].at)
         [] IdentityMatches(r) /\ r \notin Narrowed /\ state \in {"claimed", "running"} ->
              /\ run' = [run EXCEPT
                    ![r].pc = IF state = "claimed" THEN "resume" ELSE "judge",
                    ![r].status = Status(run[r].issue, Attempt(r), run[r].at)]
              /\ UNCHANGED tracked
         [] OTHER -> Beat(r)
    /\ UNCHANGED <<root, craft, faults>>

\* Mutant of Resume: a claim whose session exists is left alone.
ResumeAbsentOnly(r) ==
    /\ At(r, "resume")
    /\ CASE run[r].status # "absent" -> Goto(r, "dispatch") /\ UNCHANGED tracked
         [] run[r].status = "absent" /\ run[r].at >= run[r].seen.claim.expires ->
              Fail(r, "runtime", run[r].at)
         [] OTHER -> Goto(r, "workspace") /\ UNCHANGED tracked
    /\ UNCHANGED <<root, craft, faults>>

\* A claim that is not running yet: started again, unless it expired with no
\* session to show for it.
Resume(r) ==
    /\ At(r, "resume")
    /\ IF run[r].at >= run[r].seen.claim.expires /\ run[r].status = "absent"
       THEN Fail(r, "runtime", run[r].at)
       ELSE Goto(r, "workspace") /\ UNCHANGED tracked
    /\ UNCHANGED <<root, craft, faults>>

\* Mutant of Stale: only the expiry of the claim counts.
StaleByExpiry(r) == run[r].at >= run[r].seen.claim.expires

Stale(r) ==
    \/ run[r].at - run[r].seen.claim.beat >= StaleRun
    \/ run[r].at >= run[r].seen.claim.expires

\* A running claim, judged by the session status read a moment ago.
Judge(r) ==
    LET status == run[r].status IN
    /\ At(r, "judge")
    /\ CASE status \in {"ended-without-response", "deadline"} ->
              Goto(r, "cancel") /\ UNCHANGED tracked
         [] status = "running" -> Beat(r)
         [] status \in {"absent", "failed", "settled"} ->
              IF Stale(r) THEN Fail(r, "runtime", run[r].at)
              ELSE Goto(r, "dispatch") /\ UNCHANGED tracked
    /\ UNCHANGED <<root, craft, faults>>

\* craft.cancel reads the session again; a turn past its deadline is stopped, and
\* given a bounded time to stop.
Cancel(r) ==
    LET i == run[r].issue
        k == Attempt(r)
        status == Status(i, k, run[r].at)
        Returns(result) == run' = [run EXCEPT ![r].pc = "stopped", ![r].status = result] IN
    /\ At(r, "cancel")
    /\ \/ Returns(status) /\ status # "deadline" /\ UNCHANGED session
       \/ /\ Returns(status) /\ status = "deadline"
          /\ session' = [session EXCEPT ![i][k] = [@ EXCEPT !.status = "deadline", !.busy = FALSE]]
       \/ Returns("cancel-deadline") /\ session[i][k].busy /\ status = "deadline" /\ UNCHANGED session
    /\ UNCHANGED <<tracked, root, place, faults>>

\* Mutant of Stopped: the outcome of cancel is not looked at.
StoppedRegardless(r) ==
    /\ At(r, "stopped")
    /\ Fail(r, "runtime", run[r].at)
    /\ UNCHANGED <<root, craft, faults>>

\* A run that would not stop is preserved, one that stopped is failed.
Stopped(r) ==
    /\ At(r, "stopped")
    /\ IF run[r].status = "cancel-deadline" THEN Preserve(r) ELSE Fail(r, "runtime", run[r].at)
    /\ UNCHANGED <<root, craft, faults>>

-----------------------------------------------------------------------------
(* dispatch and startClaim *)

\* dispatchable
Due(s) == s.state = "retry-wait" => s.retry # NoRetry /\ s.retry.due <= now

\* The WIP check, and the candidates if it passes.
Dispatch(r) ==
    /\ At(r, "dispatch")
    /\ IF ActiveClaims # {}
       THEN Finish(r)
       ELSE run' = [run EXCEPT
              ![r].pc = "claim",
              ![r].todo = {[issue |-> i, seen |-> snap[i]] :
                              i \in {j \in Issues : snap[j].state \in {"ready", "retry-wait"}}}]
    /\ UNCHANGED <<tracked, root, craft, faults>>

\* tryClaim on the dispatchable candidates in order, until one succeeds.
Claim(r) ==
    LET due == {d \in run[r].todo : Due(d.seen)}
        c == CHOOSE d \in due : \A e \in due : d.issue <= e.issue
        attempt == NextAttempt(c.seen) IN
    /\ At(r, "claim")
    /\ IF due = {} \/ r \in Narrowed
       THEN Finish(r) /\ UNCHANGED <<tracked, root>>
       ELSE IF Claimable(c.issue, c.seen.version, attempt, now)
            THEN /\ TryClaim(c.issue, c.seen.version, attempt, now)
                 /\ root' = [root EXCEPT ![c.issue] = RootOf(r)]
                 /\ run' = [run EXCEPT ![r].pc = "workspace", ![r].issue = c.issue,
                                       ![r].seen = snap'[c.issue], ![r].foreign = FALSE,
                                       ![r].todo = {}]
            ELSE /\ run' = [run EXCEPT ![r].todo = @ \ {c}]
                 /\ UNCHANGED <<tracked, root>>
    /\ UNCHANGED <<craft, faults>>

\* workspaces.ensure: finds the attempt's workspace or makes it, and throws if it
\* is bound to another path.
EnsureWorkspace(r) ==
    LET i == run[r].issue
        k == Attempt(r) IN
    /\ At(r, "workspace")
    /\ IF place[i][k] \in {"none", RootOf(r)}
       THEN /\ place' = [place EXCEPT ![i][k] = RootOf(r)]
            /\ Goto(r, "session")
       ELSE Goto(r, "abort") /\ UNCHANGED place
    /\ UNCHANGED <<tracked, root, session, faults>>

\* The session of an attempt once craft.ensure has found or created it.
Ensured(s) == IF s = NoSession THEN [status |-> "running", busy |-> TRUE, since |-> now] ELSE s

EnsureSession(r) ==
    /\ At(r, "session")
    /\ session' = [session EXCEPT ![run[r].issue][Attempt(r)] = Ensured(@)]
    /\ Goto(r, "mark")
    /\ UNCHANGED <<tracked, root, place, faults>>

\* Either ensure fails in the adapter; craft.ensure fails before or after it has
\* started the agent.
EnsureThrows(r) ==
    /\ run[r].pc \in {"workspace", "session"}
    /\ errors > 0
    /\ errors' = errors - 1
    /\ \/ UNCHANGED session
       \/ /\ At(r, "session")
          /\ session' = [session EXCEPT ![run[r].issue][Attempt(r)] = Ensured(@)]
    /\ Goto(r, "abort")
    /\ UNCHANGED <<tracked, root, place, moved, crashes>>

\* markRunning; a refusal is caught like any other error of startClaim.
Mark(r) ==
    LET i == run[r].issue IN
    /\ At(r, "mark")
    /\ IF Holds(i, Fence(r)) /\ CanMove(snap[i].state, "running")
       THEN MarkRunning(i, Fence(r), now) /\ Goto(r, "dispatch")
       ELSE Goto(r, "abort") /\ UNCHANGED tracked
    /\ UNCHANGED <<root, craft, faults>>

\* startClaim's catch block.
Abort(r) ==
    /\ At(r, "abort")
    /\ Fail(r, "runtime", now)
    /\ UNCHANGED <<root, craft, faults>>

\* The runner's process dies; its successor polls at once, perhaps with a workspace
\* root of its own.
Crash(r) ==
    /\ ~At(r, "idle")
    /\ crashes > 0
    /\ crashes' = crashes - 1
    /\ run' = [run EXCEPT ![r] = Idle(now - 1)]
    /\ moved' \in {moved, moved \cup ({r} \cap Moved)}
    /\ UNCHANGED <<tracked, root, craft, errors>>

-----------------------------------------------------------------------------
(* The environment *)

\* What an agent's turn comes to; an answer after the deadline does not count.
Agent(i, k) ==
    LET s == session[i][k]
        Ends(status, busy) ==
            session' = [session EXCEPT ![i][k] = [@ EXCEPT !.status = status, !.busy = busy]] IN
    /\ s.status = "running"
    /\ \/ Ends(IF now <= s.since + TurnLimit THEN "settled" ELSE "deadline", FALSE)
       \/ Ends("ended-without-response", FALSE)
       \/ Ends("failed", ~ErrorsStop)
    /\ UNCHANGED <<tracked, root, place, run, faults>>

\* The operator, or the CLI's transition-pr-open, records what became of an issue.
Handoff(i, to) ==
    /\ Transition(i, to, snap[i].claim.fence, Asked(to))
    /\ UNCHANGED <<root, craft, run, faults>>

Clock ==
    /\ Prompt => \A r \in Runners : At(r, "idle") /\ run[r].polled = now
    /\ now < MaxTime
    /\ now' = now + 1
    /\ UNCHANGED <<snap, root, craft, run, faults>>

Step(r) ==
    \/ Poll(r) \/ Reconcile(r) \/ Resume(r) \/ Judge(r) \/ Cancel(r) \/ Stopped(r)
    \/ Dispatch(r) \/ Claim(r) \/ EnsureWorkspace(r) \/ EnsureSession(r) \/ Mark(r) \/ Abort(r)

SchedulerNext ==
    \/ \E r \in Runners : Step(r) \/ EnsureThrows(r) \/ Crash(r)
    \/ \E i \in Issues, k \in Attempts : Agent(i, k)
    \/ \E i \in Issues, to \in Handoffs : Handoff(i, to)
    \/ Clock

SchedulerSpec == SchedulerInit /\ [][SchedulerNext]_allVars

\* A runner that polls keeps polling and its adapter calls return, and time
\* passes; agents and operators owe nothing.
FairSchedulerSpec ==
    /\ SchedulerSpec
    /\ \A r \in Runners : WF_allVars(Step(r))
    /\ WF_allVars(Clock)

-----------------------------------------------------------------------------

\* Type invariant of the runners, their sessions and the tracker under them.
SchedulerTypeOK ==
    /\ TypeOK
    /\ root \in [Issues -> Roots]
    /\ place \in [Issues -> [Attempts -> Roots \cup {"none"}]]
    /\ session \in [Issues -> [Attempts -> Sessions]]
    /\ run \in [Runners -> Runs]
    /\ moved \subseteq Moved
    /\ crashes \in 0..MaxCrashes
    /\ errors \in 0..MaxErrors

\* As long as no call of ensure has failed, an issue never has two agents at work: a
\* replacement starts only once the agent it replaces has stopped, through crashes,
\* missed heartbeats, deadlines and cancellations that fail.  A failed ensure sends the
\* claim to a retry whatever its agent does, be it craft.ensure's, after it has started
\* the agent, or workspaces.ensure's, when a claim is resumed whose agent is at work.
OneLiveAgent ==
    errors = MaxErrors =>
    \A i \in Issues, k, l \in Attempts : session[i][k].busy /\ session[i][l].busy => k = l

\* A running issue has a session for exactly the attempt its claim counts, so that
\* reconcile finds it, in the workspace its claim names, also when the runner died in
\* between or one with another workspace root has taken over.
WorksWhereClaimed ==
    \A i \in Issues :
        snap[i].state = "running" =>
            LET k == snap[i].claim.attempt IN
            session[i][k] # NoSession /\ place[i][k] = root[i]

\* With a runner that polls every unit, no claim is at work longer than a turn
\* and the staleness that follows it, whatever the agent does and wherever the
\* runner crashed.
BoundedRun ==
    \A i \in Issues :
        snap[i].state \in {"claimed", "running"} =>
            now - snap[i].claim.claimedAt <= TurnLimit + StaleRun

\* The agent of the claimed attempt is at work and within its turn.
Healthy(i) ==
    /\ snap[i].state = "running"
    /\ session[i][snap[i].claim.attempt].status = "running"
    /\ now < session[i][snap[i].claim.attempt].since + TurnLimit

\* No step of a runner ends a healthy run: it is not stopped, failed, sent to retry
\* or preserved, whatever was read before.
HealthyRunKept ==
    [][\A i \in Issues : Healthy(i) /\ run' # run => Healthy(i)']_allVars

\* Nothing is left ready, claimed, running or waiting for a retry for ever.
EventuallyDecided ==
    <>[](\A i \in Issues : snap[i].state \notin {"ready", "claimed", "running", "retry-wait"})

=============================================================================
