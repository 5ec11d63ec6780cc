---------------------------- MODULE AttemptStart ----------------------------
(***************************************************************************)
(* How an attempt gets its worktree and its agent: startClaim of           *)
(* scheduler.ts over GitWorktreeAdapter.ensure and the Craft adapter's     *)
(* ensure, call by call, after reconcileStartup of github-adapter.ts; with *)
(* the owner's desk, whose notes hold the directives a prompt is made of.  *)
(* There is one issue; its tracker does what Scheduler checks in detail.   *)
(* Runners are processes that may die between any two calls.               *)
(*                                                                         *)
(* A prompt is the set of directives in it: contract and instructions do   *)
(* not change, and a later attempt has no earlier session to report on.    *)
(* A directive is brought by one runner at a time.  Labels, projects and   *)
(* bindings edited by hand, and claims that expire, are left out.          *)
(***************************************************************************)
EXTENDS Naturals, Sequences, FiniteSets

CONSTANTS
    Runners,
    Directives,     \* the owner's directives on the issue
    MaxAttempts,    \* scheduler.maxAttempts
    MaxCrashes,     \* bounds: runners that die,
    MaxFaults,      \* calls that fail,
    MaxReopens      \* times the issue is blocked and reopened

None == "none"

ASSUME AttemptAssumption ==
    /\ None \notin Directives
    /\ MaxAttempts \in Nat \ {0}
    /\ MaxCrashes \in Nat /\ MaxFaults \in Nat /\ MaxReopens \in Nat

VARIABLES
    issue,          \* the tracker: state, attempt and fence
    branch,         \* git: the contract's requiredBranch exists
    tree,           \* tree[n]: the worktree of attempt n
    sessions,       \* Craft: the sessions of the issue, oldest first
    notes, writer,  \* Craft: the directives in the desk's notes, and who wrote them last
    proc,           \* proc[r]: runner r
    acked,          \* directives that have been acknowledged
    crashes, faults, reopens,
    met,            \* history: two runners have been at work on one claim,
    crowded,        \* two commands have held the notes to write them,
    raced           \* sessions prompted by two runners that had both found no prompt

craft == <<sessions, notes, writer>>
git == <<branch, tree>>
bounds == <<crashes, faults, reopens>>
vars == <<issue, git, craft, proc, acked, bounds, met, crowded, raced>>

Attempts == 1..MaxAttempts

\* A claim is known by its fence, which is new for every claim.
Fences == Nat
IssueStates == {"ready", "claimed", "running", "retry-wait", "failed", "preservation-unknown"}
Held == {"claimed", "running"}

\* bound: the fence in the worktree's claim binding; 0, if it has none.
Trees == [there : BOOLEAN, bound : Fences]
NoTree == [there |-> FALSE, bound |-> 0]

\* label: the directives in the prompt whose digest the session is labelled with; sent:
\* the prompts it was given.
Sessions == [attempt : Attempts, label : SUBSET Directives, sent : Seq(SUBSET Directives)]

PCs == {"idle", "truth", "get", "tree", "branch", "add", "bind", "desk", "list", "create",
        "readback", "read", "send", "confirm", "mark", "failing", "load", "write", "verify"}

\* attempt, fence and state: of the claim as it was read; body: the prompt, or the desk's
\* notes as they were read; at: a session; brings: the directive being ingested; mem: the
\* OwnerDirectiveLedger; started: startup has been reconciled.
Procs == [pc : PCs, attempt : Attempts, fence : Fences, state : IssueStates, body : SUBSET Directives,
          at : Nat, brings : Directives \cup {None}, mem : SUBSET Directives, started : BOOLEAN]

NewProc == [pc |-> "idle", attempt |-> 1, fence |-> 0, state |-> "ready", body |-> {}, at |-> 0,
            brings |-> None, mem |-> {}, started |-> FALSE]

Init ==
    /\ issue = [state |-> "ready", attempt |-> 1, fence |-> 0]
    /\ branch = FALSE /\ tree = [n \in Attempts |-> NoTree]
    /\ sessions = <<>> /\ notes = {} /\ writer = None
    /\ proc = [r \in Runners |-> NewProc]
    /\ acked = {}
    /\ crashes = 0 /\ faults = 0 /\ reopens = 0
    /\ met = FALSE /\ crowded = FALSE /\ raced = {}

At(r, pc) == proc[r].pc = pc
Goto(r, pc) == proc' = [proc EXCEPT ![r].pc = pc]
GoIf(r, ok, pc) == Goto(r, IF ok THEN pc ELSE "failing")

\* What a command leaves in its process.
Rests(p) == [NewProc EXCEPT !.mem = p.mem, !.started = p.started]
Stop(r) == proc' = [proc EXCEPT ![r] = Rests(proc[r])]

\* The claim the tracker shows.
Reads(p, pc) == [p EXCEPT !.pc = pc, !.attempt = issue.attempt, !.fence = issue.fence, !.state = issue.state]

\* The claim of the runner is still in force.
Current(r) == issue.fence = proc[r].fence /\ issue.state \in Held

-----------------------------------------------------------------------------
(* scheduler.ts tick, and reconcileStartup of github-adapter.ts *)

Startup(r) ==
    /\ At(r, "idle") /\ ~proc[r].started
    /\ proc' = [proc EXCEPT ![r] = IF issue.state \in Held THEN Reads(@, "truth")
                                   ELSE [@ EXCEPT !.started = TRUE]]
    /\ UNCHANGED <<issue, git, craft, acked, bounds, raced>>

\* workspaceTruth.inspect, claimBindingsEqual: the worktree is not what the claim says.
Ambiguous(p) ==
    \/ tree[p.attempt].there /\ tree[p.attempt].bound # p.fence
    \/ ~tree[p.attempt].there /\ p.state # "claimed"

\* transition to preservation-unknown throws on a stale fence.
Truth(r) ==
    /\ At(r, "truth")
    /\ IF Ambiguous(proc[r])
       THEN IF Current(r)
            THEN /\ issue' = [issue EXCEPT !.state = "preservation-unknown"]
                 /\ proc' = [proc EXCEPT ![r] = [Rests(@) EXCEPT !.started = TRUE]]
            ELSE Stop(r) /\ UNCHANGED issue
       ELSE /\ proc' = [proc EXCEPT ![r] = [Rests(@) EXCEPT !.started = TRUE]]
            /\ UNCHANGED issue
    /\ UNCHANGED <<git, craft, acked, bounds, raced>>

\* reconcile finds the issue claimed.
Resume(r) ==
    /\ At(r, "idle") /\ proc[r].started /\ issue.state = "claimed"
    /\ proc' = [proc EXCEPT ![r] = Reads(@, "get")]
    /\ UNCHANGED <<issue, git, craft, acked, bounds, raced>>

\* The sessions with the run label of attempt n.
Matches(n) == {s \in DOMAIN sessions : sessions[s].attempt = n}

\* get throws on duplicate sessions and prompts, and the tick ends.
Get(r) ==
    LET found == Matches(proc[r].attempt) IN
    /\ At(r, "get")
    /\ IF Cardinality(found) > 1 \/ \E s \in found : Len(sessions[s].sent) > 1
       THEN Stop(r) ELSE Goto(r, "tree")
    /\ UNCHANGED <<issue, git, craft, acked, bounds, raced>>

TryClaim(r) ==
    /\ At(r, "idle") /\ proc[r].started
    /\ issue.state \in {"ready", "retry-wait"}
    /\ issue' = [issue EXCEPT !.state = "claimed", !.fence = @ + 1]
    /\ proc' = [proc EXCEPT ![r] = [@ EXCEPT !.pc = "tree", !.attempt = issue.attempt, !.fence = issue.fence + 1]]
    /\ UNCHANGED <<git, craft, acked, bounds, raced>>

\* The attempt is over; another one follows if there is one left.
Lost(i) ==
    IF i.attempt < MaxAttempts THEN [i EXCEPT !.state = "retry-wait", !.attempt = @ + 1]
    ELSE [i EXCEPT !.state = "failed"]

\* The catch block of startClaim.
FailClaim(r) ==
    /\ At(r, "failing")
    /\ Stop(r)
    /\ issue' = IF Current(r) THEN Lost(issue) ELSE issue
    /\ UNCHANGED <<git, craft, acked, bounds, raced>>

\* markRunning refuses a claim that is running already.
MarkRunning(r) ==
    /\ At(r, "mark")
    /\ IF issue.fence = proc[r].fence /\ issue.state = "claimed"
       THEN issue' = [issue EXCEPT !.state = "running"] /\ Stop(r)
       ELSE Goto(r, "failing") /\ UNCHANGED issue
    /\ UNCHANGED <<git, craft, acked, bounds, raced>>

-----------------------------------------------------------------------------
(* workspace-adapter.ts ensure *)

\* verifyExisting, if the path is there: the branch is the contract's, the binding this claim's.
LookForTree(r) ==
    LET t == tree[proc[r].attempt] IN
    /\ At(r, "tree")
    /\ IF t.there THEN GoIf(r, t.bound = proc[r].fence, "desk") ELSE Goto(r, "branch")
    /\ UNCHANGED <<issue, git, craft, acked, bounds, raced>>

BranchExists(r) ==
    /\ At(r, "branch")
    /\ GoIf(r, ~branch, "add")
    /\ UNCHANGED <<issue, git, craft, acked, bounds, raced>>

\* git worktree add -b
AddWorktree(r) ==
    /\ At(r, "add")
    /\ GoIf(r, ~branch, "bind")
    /\ branch' = TRUE
    /\ tree' = IF branch THEN tree ELSE [tree EXCEPT ![proc[r].attempt].there = TRUE]
    /\ UNCHANGED <<issue, craft, acked, bounds, raced>>

\* writeBinding replaces the file in one step.
WriteBinding(r) ==
    /\ At(r, "bind") /\ Goto(r, "desk")
    /\ tree' = [tree EXCEPT ![proc[r].attempt].bound = proc[r].fence]
    /\ UNCHANGED <<issue, branch, craft, acked, bounds, raced>>

-----------------------------------------------------------------------------
(* craft-adapter.ts ensure *)

\* loadDirectiveLedger and buildExecutionPrompt
BuildPrompt(r) ==
    LET known == proc[r].mem \cup notes IN
    /\ At(r, "desk")
    /\ proc' = [proc EXCEPT ![r] = [@ EXCEPT !.pc = "list", !.mem = known, !.body = known]]
    /\ UNCHANGED <<issue, git, craft, acked, bounds, raced>>

\* Mutant of Resumable: the session an earlier runner left is not looked for.
ResumableNot(n) == {}

Resumable(n) == Matches(n)

ListSessions(r) ==
    LET found == Resumable(proc[r].attempt) IN
    /\ At(r, "list")
    /\ \/ found = {} /\ Goto(r, "create")
       \/ Cardinality(found) > 1 /\ Goto(r, "failing")
       \/ \E s \in found : found = {s} /\ proc' = [proc EXCEPT ![r] = [@ EXCEPT !.pc = "read", !.at = s]]
    /\ UNCHANGED <<issue, git, craft, acked, bounds, raced>>

Created(r) == Append(sessions, [attempt |-> proc[r].attempt, label |-> proc[r].body, sent |-> <<>>])

CreateSession(r) ==
    /\ At(r, "create")
    /\ sessions' = Created(r)
    /\ proc' = [proc EXCEPT ![r] = [@ EXCEPT !.pc = "readback", !.at = Len(sessions) + 1]]
    /\ UNCHANGED <<issue, git, notes, writer, acked, bounds, raced>>

\* Mutant of Alone: the list is not read back.
AloneAnyway(r) == proc[r].at \in Matches(proc[r].attempt)

\* The session created is the only one of the run.
Alone(r) == Matches(proc[r].attempt) = {proc[r].at}

Readback(r) ==
    /\ At(r, "readback")
    /\ GoIf(r, Alone(r), "read")
    /\ UNCHANGED <<issue, git, craft, acked, bounds, raced>>

\* verifySession and findPrompt accept the session as it is.
Verified(r) ==
    LET s == sessions[proc[r].at] IN
    s.label = proc[r].body /\ \A i \in DOMAIN s.sent : i = 1 /\ s.sent[i] = proc[r].body

ReadSession(r) ==
    LET s == sessions[proc[r].at] IN
    /\ At(r, "read")
    /\ GoIf(r, Verified(r), IF s.sent = <<>> THEN "send" ELSE "mark")
    /\ UNCHANGED <<issue, git, craft, acked, bounds, raced>>

\* sendMessage
Prompted(r) ==
    LET s == proc[r].at IN
    /\ sessions' = [sessions EXCEPT ![s].sent = Append(@, proc[r].body)]
    /\ raced' = IF \E q \in Runners \ {r} : At(q, "send") /\ proc[q].at = s THEN raced \cup {s} ELSE raced

SendPrompt(r) ==
    /\ At(r, "send") /\ Goto(r, "confirm")
    /\ Prompted(r)
    /\ UNCHANGED <<issue, git, notes, writer, acked, bounds>>

Confirm(r) ==
    /\ At(r, "confirm")
    /\ GoIf(r, Verified(r), "mark")
    /\ UNCHANGED <<issue, git, craft, acked, bounds, raced>>

-----------------------------------------------------------------------------
(* The desk: ingestOwnerDirective and projectToDesk *)

\* A command begins; it brings a directive, or projects the status.
Desk(r, d) ==
    /\ At(r, "idle")
    /\ d # None => \A q \in Runners : proc[q].brings # d
    /\ proc' = [proc EXCEPT ![r] = [@ EXCEPT !.pc = "load", !.brings = d]]
    /\ UNCHANGED <<issue, git, craft, acked, bounds, raced>>

\* loadDirectiveLedger; a directive that is known already is acknowledged again.
Load(r) ==
    LET p == proc[r]
        known == p.mem \cup notes IN
    /\ At(r, "load")
    /\ IF p.brings \in known
       THEN /\ acked' = acked \cup {p.brings}
            /\ proc' = [proc EXCEPT ![r] = [Rests(p) EXCEPT !.mem = known]]
       ELSE /\ UNCHANGED acked
            /\ proc' = [proc EXCEPT ![r] = [p EXCEPT !.pc = "write", !.mem = known, !.body = notes]]
    /\ UNCHANGED <<issue, git, craft, bounds, raced>>

\* Mutant of Body: the status replaces what was there.
BodyAnew(p) == {p.brings} \ {None}

\* The notes that are written keep the directives read.
Body(p) == p.body \cup ({p.brings} \ {None})

\* setNotes
WriteNotes(r) ==
    /\ At(r, "write")
    /\ notes' = Body(proc[r]) /\ writer' = r
    /\ proc' = [proc EXCEPT ![r] = [@ EXCEPT !.pc = "verify", !.body = Body(proc[r])]]
    /\ UNCHANGED <<issue, git, sessions, acked, bounds, raced>>

\* verifyDeskNotes, after which a directive is acknowledged; notes that another runner
\* has written may be the same text.  An acknowledgement that is late is none.
VerifyNotes(r) ==
    LET d == proc[r].brings IN
    /\ At(r, "verify")
    /\ \/ /\ notes = proc[r].body
          /\ acked' = acked \cup ({d} \ {None})
          /\ proc' = [proc EXCEPT ![r] = [Rests(proc[r]) EXCEPT !.mem = proc[r].mem \cup ({d} \ {None})]]
       \/ writer # r /\ Stop(r) /\ UNCHANGED acked
    /\ UNCHANGED <<issue, git, craft, bounds, raced>>

-----------------------------------------------------------------------------
(* Failures, and what else happens to the issue *)

InStartClaim(pc) == pc \in PCs \ {"idle", "truth", "get", "failing", "load", "write", "verify"}

Fault == faults < MaxFaults /\ faults' = faults + 1

\* A call fails, before or after it was carried out: startClaim fails the claim, any other
\* command ends.
CallFails(r) ==
    /\ ~At(r, "idle") /\ ~At(r, "failing") /\ Fault
    /\ IF InStartClaim(proc[r].pc) THEN Goto(r, "failing") ELSE Stop(r)
    /\ \/ UNCHANGED <<git, craft, raced>>
       \/ At(r, "add") /\ ~branch /\ branch' = TRUE /\ UNCHANGED <<tree, craft, raced>>
       \/ At(r, "create") /\ sessions' = Created(r) /\ UNCHANGED <<git, notes, writer, raced>>
       \/ At(r, "send") /\ Prompted(r) /\ UNCHANGED <<git, notes, writer>>
       \/ At(r, "write") /\ notes' = Body(proc[r]) /\ writer' = r /\ UNCHANGED <<git, sessions, raced>>
    /\ UNCHANGED <<issue, acked, crashes, reopens>>

Crash(r) ==
    /\ proc[r] # NewProc /\ crashes < MaxCrashes /\ crashes' = crashes + 1
    /\ proc' = [proc EXCEPT ![r] = NewProc]
    /\ UNCHANGED <<issue, git, craft, acked, faults, reopens, raced>>

\* The run does not succeed, and its agent has stopped.
RunFails ==
    /\ issue.state = "running" /\ issue' = Lost(issue)
    /\ UNCHANGED <<git, craft, proc, acked, bounds, raced>>

\* Blocked and reopened: the next claim is for the same attempt.
Reopen ==
    /\ issue.state \in Held /\ reopens < MaxReopens /\ reopens' = reopens + 1
    /\ issue' = [issue EXCEPT !.state = "ready"]
    /\ UNCHANGED <<git, craft, proc, acked, crashes, faults, raced>>

Overlap == \E q, r \in Runners : q # r /\ proc[q].fence = proc[r].fence /\ proc[q].fence # 0

Crowd == \E q, r \in Runners : q # r /\ At(q, "write") /\ At(r, "write")

Step(r) ==
    \/ Startup(r) \/ Truth(r) \/ Resume(r) \/ Get(r) \/ TryClaim(r) \/ FailClaim(r) \/ MarkRunning(r)
    \/ LookForTree(r) \/ BranchExists(r) \/ AddWorktree(r) \/ WriteBinding(r)
    \/ BuildPrompt(r) \/ ListSessions(r) \/ CreateSession(r) \/ Readback(r) \/ ReadSession(r)
    \/ SendPrompt(r) \/ Confirm(r)
    \/ Load(r) \/ WriteNotes(r) \/ VerifyNotes(r)
    \/ \E d \in Directives \cup {None} : Desk(r, d)
    \/ CallFails(r) \/ Crash(r)

Next ==
    /\ (\E r \in Runners : Step(r)) \/ RunFails \/ Reopen
    /\ met' = (met \/ Overlap') /\ crowded' = (crowded \/ Crowd')

Spec == Init /\ [][Next]_vars

-----------------------------------------------------------------------------
(* Properties *)

\* Type invariant.
TypeOK ==
    /\ issue \in [state : IssueStates, attempt : Attempts, fence : Fences]
    /\ branch \in BOOLEAN /\ tree \in [Attempts -> Trees]
    /\ sessions \in Seq(Sessions)
    /\ notes \subseteq Directives /\ acked \subseteq Directives
    /\ proc \in [Runners -> Procs]
    /\ crashes \in Nat /\ faults \in Nat /\ reopens \in Nat
    /\ met \in BOOLEAN /\ crowded \in BOOLEAN /\ raced \subseteq DOMAIN sessions

\* However many runners start an attempt, and wherever they die: it is prompted in one
\* session, with the prompt that session is labelled with, and once, unless two runners
\* had read the session before either sent its prompt.
PromptedOnce ==
    /\ \A s, t \in DOMAIN sessions :
          sessions[s].attempt = sessions[t].attempt /\ sessions[s].sent # <<>> /\ sessions[t].sent # <<>>
              => s = t
    /\ \A s \in DOMAIN sessions :
          /\ \A i \in DOMAIN sessions[s].sent : sessions[s].sent[i] = sessions[s].label
          /\ Len(sessions[s].sent) <= 1 \/ s \in raced

\* A directive the owner has been given an acknowledgement for is on the desk, wherever
\* commands die, unless two of them had read the notes before either wrote.
AcknowledgedStays == acked \subseteq notes \/ crowded

\* The worktree of attempt n is not this claim's; or there is none, and its branch is taken.
Strange(n, fence) == IF tree[n].there THEN tree[n].bound # fence ELSE branch

\* A runner costs an issue its claim only for a reason: a call has failed, two runners have
\* met, the worktree or its branch is not this claim's (another claim's, or left by a crash
\* before the binding), or the owner has spoken since the session was made.  Dying anywhere
\* else costs nothing.
ClaimLostForCause ==
    [][issue.state \in Held /\ issue'.state \in {"retry-wait", "failed", "preservation-unknown"} =>
          \/ issue.state = "running" /\ proc' = proc
          \/ faults > 0 \/ met
          \/ Strange(issue.attempt, issue.fence)
          \/ \E r \in Runners, s \in Matches(issue.attempt) :
                At(r, "failing") /\ sessions[s].label # proc[r].mem]_vars

=============================================================================
