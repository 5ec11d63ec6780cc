# Verification of craft-protocol

TLA+ models of the coordination core of this repository, TLC runs that check them on small
instances, and TLAPS proofs of their main invariants. The repository is two systems:

- **v4** (`v4/src`, TypeScript): a scheduler that takes issues from a tracker (in memory, or GitHub
  comments), gives each attempt a worktree and a Craft agent session, and moves the issue along a
  fixed lifecycle.
- **v3** (`scripts`, Python): one-shot commands and cron sweeps that keep ownership, leases, reports,
  waits and recovery state of coordinator and worker sessions in JSON files under per-area file locks.

## 1. Inventory

| Component | State it keeps | Operations | What is hard | Correct means |
|---|---|---|---|---|
| Lifecycle (`domain.ts`) | none | transition table, terminal states, retryable failures | – | the table is the only authority |
| Tracker boundary (`tracker.ts`) | state, version, claim of each issue | claim, start, heartbeat, fail, transition | compare-and-set over several clients | one claim per project, one version per write |
| Fake tracker (`adapters.ts`) | snapshots in memory | the same | callers with stale versions, fences and times | implements the boundary |
| GitHub tracker (`github-adapter.ts`) | event comments per issue, a shared fence issue, labels and Project fields | the same, each a series of provider calls; startup reconciliation | interleaving, lost replies, expiry, projections | as above, the owner's gate lies before the merge |
| Scheduler (`scheduler.ts`) | none between ticks | tick = reconcile + dispatch + start | every await interleaves; crashes; deadlines | one live agent per issue, all issues decided, claims lost for cause |
| Craft adapter (`craft-adapter.ts`) | Craft sessions, owner desk notes | ensure, get, cancel, ingest directive, project to desk | create-then-read-back, prompts bound to a digest, notes without versions | one prompted session per attempt, directives never lost |
| Worktree adapter, truth reader (`workspace-*.ts`) | git worktrees and claim bindings | ensure, inspect | crash between steps | resume the same worktree or fail closed |
| Directive ledger (`ledger.ts`) | directives a process knows | append, entries | memory and notes differ | the prompt is what the owner said |
| Live runner (`runner.ts`) | none | tick, transition to pr-open, project, archive | acts on state read earlier | hand-off after settlement |
| Coordinator registry (`coordinator-registry.py`) | owner, generation, transfer, hold, lanes of each project | claim, renew, begin/accept transfer, hold, resume, two sweeps | checks before the lock, sessions that change meanwhile | one owner per generation, one project per session, lanes survive transfers |
| Recovery ledger (`recovery-ledger.py`) | snapshots; writes the registry's lane lists | snapshot, reconstruct, diff | read before the lock it writes under | no live lane dropped |
| Lane admission (`lane-admission.py`) | reservations | reserve, confirm, check | two phases, rotations in between | one lane per work unit and worktree |
| Inbox (`coordinator-inbox.py`) | reports by event key | submit, claim, ack, adopt, release, reconcile | resubmission, expiry, rotation | a report is handled once and not lost |
| Recovery incidents (`recovery-incident.py`) | a row per condition, the controller's lease, the kill switch | detect, claim, heartbeat, defer, release, resolve, escalate | conditions read before the lock, expiry, flapping | bounded work per outbreak, closed only when gone, decided in the end |
| Recovery admission (`recovery-admission.py`) | one cycle record per lane (coordinator, controller) | supervise: batch, deliver, inspect, redeliver, repair, recover, re-wake | lost replies, a tick that dies, rotation, probes that are unavailable | one envelope outstanding, a cycle closes on what was consumed, somebody hears |
| Observable jobs (`observable-job.py`) | receipt per session | start, supervise, ack | unlocked writes of several processes | a receipt ends with its child |
| Worker leases (`worker-lease.py`) | lease per lane | ensure, heartbeat, reconcile | evidence of several kinds, adoption, strict admissions | stalls found, parent follows the registry |
| External waits (`external-wait.py`) | wait, clear journal | register, reconcile, clear | observer dies or is replaced, two files | a wait ends with what it observes |
| Commitments (`coordinator-commitment.py`) | a commitment per promise | register, reconcile, resolve | the binding is another script's file | settled by the outcome |
| Cleanup (`post-archive-reaper.py`, `scan-reapable-workers.py`, `worktree-gc.py`) | reports | sweeps that kill and remove | what was seen is old when it is acted on | what is removed is unused |
| Owner gates, standing authority, plan receipts, reporting policy | gates, grants, permits | create, resolve, grant, use, revoke | check and use in two calls | an effect needs its decision |
| Boards, status, identity drift, certificates, release closure | projections, or none | projections, verification | – | – |

How they interact. The scheduler calls tracker, worktree and Craft adapters and shares nothing else with
other schedulers; GitHub comments, the repository's branches and worktrees, and the Craft server are the
shared state. The v3 scripts share files: the registry names the owner and generation that inbox,
admission, leases, commitments and recovery check against, each under a lock of its own. A lane's session
manifest and its job receipts feed its lease; lease and receipt feed the waits; lease, wait and gate feed
the commitments; all of them feed the conditions that incidents are made of, and open incidents are what
recovery admission wakes a coordinator or the recovery controller for. The sweeps put away what is left.

## 2. Modules

| Module | Models | State and actions |
|---|---|---|
| `Lifecycle` | `v4/src/domain.ts` | constants and predicates only |
| `TrackerBoundary` | promise of `tracker.ts` | `state`, `version`, `holder`; `Claim`, `Hold`, `Free`, `Unclaimed` |
| `FakeTracker` | `FakeGitHubAdapter` | `snap` is its map of snapshots; a method is an action, since none awaits |
| `GitHubTracker` | `GitHubTrackerAdapter` | `snap`, `poisoned` are what the comments reduce to, `lease` what the fence issue reduces to; `label`, `gateField` the projection; `op[r]` the position of runner r in its method, one action per provider call |
| `Scheduler` | `DeterministicScheduler` over `FakeTracker` | `run[r]` the position in the tick, one action per await; `session`, `place` what the Craft and worktree adapters keep |
| `AttemptStart` | `startClaim` over the real worktree and Craft adapters, `reconcileStartup`, the owner's desk | `branch`, `tree` what git has; `sessions`, `notes` what the Craft server has; `proc[r]` the runner: its position, its claim, the prompt or notes it holds and its directive ledger (`mem`); one action per call |
| `CoordinatorRegistry` | `coordinator-registry.py`, `recovery-ledger.py snapshot` | `rec` the registry files; `session`, `lane` the session manifests, of which a lane's may be unreadable (`visible`); `calls` the commands past their checks and before the lock, and the accept-transfer that holds the lock between its search for lanes and its write |
| `CoordinatorInbox` | `coordinator-inbox.py`, `coordinator-status.py publish` | `item`, `claim` the files; `hand` the digest the coordinator was shown; `reg` the registry record; a command is one action, which may die between its writes (`Write`), during which the registry may move (`Meanwhile`) and, in a claim, a status be published (`early`) |
| `RecoveryIncident` | `recovery-incident.py` | `row` the ledger, `controller` its lease file, `disabled` the switch; `look[d]` what a detection has read and not yet written, row by row; a command is an action, as it holds the lock |
| `RecoveryAdmission` | `recovery-admission.py supervise` | `disk[l]` the record of a lane; `tick` the position and memory of the running tick; `env`, `turn` the server's envelopes and turns; one action per call and the write after its answer |
| `ObservableJob` | `observable-job.py` | `job` the receipt; `proc[r]` supervisor and child of run r, from Popen over the first receipt and heartbeat to the wait or the failure of one of them; `ack` an ack that has read |
| `WorkerLease` | `worker-lease.py`, the confirmation of `lane-admission.py` | `lease`, `lane` (manifest), `reg`; extends `ObservableJob` |
| `ExternalWait` | `external-wait.py` | `wait`; extends `WorkerLease` |
| `CoordinatorCommitment` | `coordinator-commitment.py`, the life of an `owner-gate.py` gate | `commit[g]`, `gate`; extends `ExternalWait`, and is the composition of all four |
| `Cleanup` | `post-archive-reaper.py`, `scan-reapable-workers.py`, `worktree-gc.py` | `tree`, `harness`, `guest`; `sweep[k]` what a sweep has looked at; extends the composition by the end of a lane's life |
| `MC...` | | the small instances of the runs |
| `...Proofs` | | theorems and proofs |

`Scheduler` extends `FakeTracker` and composes its actions with the runners'. `FakeTracker` and
`GitHubTracker` are each related to `TrackerBoundary` by a refinement mapping (state, version and
fence of the claim). `AttemptStart` takes the tracker as one issue with compare-and-set, which is what
`TrackerBoundary` promises. `Scheduler` and `AttemptStart` look at the same code from two sides:
there an adapter call is one step and time passes, here it is as many steps as it has calls and time is
left out.

Abstractions worth knowing:

- A claim's fence is a hash of issue, attempt, version and base commit. On one issue the version
  determines it, so a fence is the version it was proposed at, and 0 is "no claim". Two runners that
  propose the same claim propose the same fence, as in the code. In `AttemptStart` it counts claims.
- Whether an event comment counts is decided by the comments before it, so `GitHubTracker` reduces the
  ledger when a comment is appended instead of keeping the list. Comments are never edited or removed.
- Evidence is a set of kinds (pull request, merge, gate, deployment). URLs and hashes are left out.
- `Readable` stands for all of `hydrateCore`'s checks that the adapter's own writes can make fail; those
  on hand-made edits (duplicate labels, edited comments) are left out.
- A prompt is the set of directives in it. Contract and instructions do not change, and no attempt finds
  a session of an earlier one to report on, because an attempt that got as far has taken the branch.
- Reporting violations are a flag per session, set by any report and cleared by a new policy epoch.
- The inbox keeps times and status revisions as the comparisons made with them (`lapsed`, `covered`), and
  tokens are numbers given out again when nothing refers to them.
- `RecoveryIncident` keeps a point in time as the time left until it, 0 being "expired".
- In `RecoveryAdmission` and `WorkerLease` the age of something is a choice made where the code looks at
  it. The condition's revision stands for its fingerprint.
- The target check of a recovery tick is one step with the batch it is made for (`Begin`,
  `recovery-admission.py:1253` and 1284), and an owner's liveness one with the claim that displaces it
  (`coordinator-registry.py:159`, 181); an owner whose manifest cannot be read counts as dead.
- `RecoveryIncident` takes the time that a detection reads before it waits for the lock
  (`recovery-incident.py:623`) for that of its writes. `ClearedMeansGone` is about rows nobody has claimed.
- `Cleanup` forgets a report when the removal begins; the code writes over it at the end
  (`worktree-gc.py:380`).
- `ObservableJob` has one command for all runs, so its hash tells no run from another.
- `ExternalWait`'s finish of a clear reads the receipt and writes both files in one step; the journal
  before it is a step of its own.
- `Cleanup` has one worktree, which is not the root checkout; reused pids, harnesses outside their
  worktree, auditors, batch limits and report ages are left out.

## 3. Runs

All bounds are constants of the modules (`Max...`, or the fields of `Cases`, `RevsOf`, `FaultsOf`,
`ResetsOf`). At a bound the model stops, so deadlock is not checked in these runs. Three runs are
several instances in one, told apart by a state constraint or by the initial state; each part is closed
under what can happen in it, up to the bound.

| Run | Instance | Shows |
|---|---|---|
| `FakeTracker` | two issues; one high-risk and to be deployed, with versions for a life with a detour through blocked | types, WIP one; implements `TrackerBoundary` |
| `GitHubTracker` | two runners; `Bounds` is the union of the whole life of one high-risk issue (versions to 7, a retry, no failing call) and the early lives of two issues with one fault | WIP one unless a `tryClaim` unwound past its accepted claim; the owner's gate before the merge; the reduced ledger implements the boundary under every interleaving of provider calls |
| `Scheduler` | one runner whose restart has another root, one issue, one crash, one failing ensure, time to 12, fair | at most one live agent per issue; a run is bounded; a running claim has its session in the workspace it names; the issue leaves ready, claimed, running and retry-wait for good |
| `AttemptStart` | two runners, one directive, two attempts, two of: a crash, a failed call (done or not), a block with reopening | an attempt is prompted in one session and once; an acknowledged directive stays on the desk; a runner costs an issue its claim only for a reason, which dying is not |
| `Registry` | `Bounds` is the union of one project with two lanes, whose manifests come and go, through three generations and two projects with sessions that are relabelled | takeovers are justified, live lanes stay known unless a manifest cannot be read, one project per session, one owner per generation |
| `InboxFacts` | one report in two revisions, two generations, digest of one, one command that dies | what is acknowledged was shown and accounted for, unless a status overtook the claim; acknowledged is final; nothing stuck in a claim, unless a claim died |
| `InboxAnswers` | one report that wakes, two generations, one command that dies, fair | the report is acknowledged by one of the coordinators |
| `RecoveryIncident` | a condition of each kind, two detections, two controllers, claims and looks that expire, fair | an outbreak costs no more than its budget; detection closes only what was away; what stays is decided, what is gone is closed |
| `RecoveryAdmission` | a routine condition in one revision without faults, or a complex one in two with one fault and one reset; two generations, one re-wake, fair | a cycle closes on what was consumed; one envelope outstanding; one recovery; a condition that stays reaches the controller or the owner |
| `Observers` | `Cases`: lanes (strict or not, moving sessions, killed jobs), waits (two runs, acks, kills or supervisors that give up on a living child, a rotation), gates and dates, and lanes that are put away by one or two sweeps, fair | a wait ends with its process, but for receipts written over or too early; a commitment is settled by its outcome; leases and waits follow the registry; silence is noticed; a clear completes; sweeps hit nobody they could have seen |

Runs that find the code and its documents in disagreement (details and quotes in `PROJECT.json`):

| Run | Property | What happens |
|---|---|---|
| `SchedulerRace` | `HealthyRunKept` | a late `markRunning` fails the run the other runner started |
| `RecoveryBlocked` | `BlockedIsDurable` | a controller whose harness cannot be probed for one tick (`ProbeUnavailable`) has its blocked record turned into a deferral, over which the next tick delivers |

Properties that except something name it with a history variable or a look at the state (`raced`,
`crowded`, `met`, `forgot`, `torn`, `unwaited`, `came`, `handed`, `unheard`, `early`). The exception is always one that section 5 lists, and
as narrow as TLC allowed: without it the run fails.

Why the bounds suffice: two runners, issues, sessions or detections are enough for every race the code
can have between a reader and a writer, because every method reads and writes one issue (or project, or
row) and at most one shared lease, branch or notes. Versions, generations and times are large enough for a
claim, its loss and a second claim on the same and on the other issue. One fault per behaviour is enough
to separate any two calls of a method; `AttemptStart` has two, since a crash and what the owner or the
provider does to its aftermath combine. `ClearConfirm` is larger than `MaxLook`, as in the
code (300 seconds by default, against the seconds of one detection): that a look is younger than the
confirmation takes is assumed, and `ClearedMeansGone` fails otherwise.

`Timely = TRUE` in the GitHub run says what the deployment has to provide: calls end and claims are
renewed within `claimTtlMs`. The scheduler runs assume `ErrorsStop` (Craft stops a turn that reports an
error). `Prompt` makes every runner poll once per unit of time, as the launch agent of `v4/config`
does; `SchedulerRace` runs without it. `InboxFacts` covers any order of claims, hand-overs and adoptions;
`InboxAnswers` has `Orderly` coordinators, who adopt before they hand over, because only one hop can be
adopted.

`TypeOK` of `GitHubTracker` and of `AttemptStart`, `SchedulerTypeOK` and `CleanTypeOK` are proved; the runs of
these modules are given over to other properties.

Fairness. `FairSchedulerSpec` assumes weak fairness of each runner's step and of the clock: a runner
is restarted by its launch agent and every adapter call has a deadline. Agents, operators and crashes owe
nothing. `FairSpec` of the inbox assumes that the watchdog's reconcile runs for ever, that tokens expire,
and that a coordinator with a report that wakes it claims, publishes and acknowledges again and again
(strong fairness, since any of them may find it suspended): `EveryWakingReportHandled` is about the time
after the last suspension, and shows that the inbox never stands in the way of a coordinator who acts.
`FairSpec` of `RecoveryIncident`: time passes, cron's detections come again, and some session becomes
controller, claims and settles (strong fairness, since an expired lease or the switch may be in the way of
any one attempt). `FairSpec` of `RecoveryAdmission`: ticks come again, by cron, and now and then one gets
through a cycle or an inspection without a fault; whether the coordinator reads, answers or mends anything
is left open. `Fairness` of `CoordinatorCommitment`: the watchdog reconciles leases and waits and
finishes clears again and again; sessions, jobs and coordinators owe nothing.

## 4. Proofs

`SchedulerProofs` proves of `FakeTracker`, for any issues, limits and times: `TypeOK`, `ClaimMatchesState`,
`WipOne`, and the refinement of `TrackerBoundary`. The inductive invariant `IInv` adds `ClaimWellFormed` (a
claim's fence is a version below the current one and its attempt is positive), needed because the mapping
takes the fence for the version the claim was made at. Every method ends in one `Write`; a lemma says
what a `Write` preserves, and one per method says that its arguments qualify.

Of `Scheduler` it proves, in three layers:

- For any runners, crashes, failures and hand-offs: every step is one `FakeTracker` allows a client
  (`SchedulerIsClient`), so that the results above hold under it; `SchedulerTypeOK`; and `WorksWhereClaimed`.
  The invariant `SInv` says what a runner knows (`Knows`): it has read a claim that was there, and as long as
  that stands, it is of the attempt and the root it was read with, and where the runner has been, workspace
  and session are in place. One lemma per call says what it does to the tracker, one per action keeps `SInv`.
- `BoundedRun`, if `Prompt`, for any number of runners. `BInv` adds that a runner in a tick is in this unit of
  time (`Punctual`) and what it has read is no newer than what stands (`Behind`), that a claim is started
  in the unit it was made in (`Begun`), and that a running one is within its turn, or has been heard of
  within the staleness, or somebody is about to see that it has not (`Watched`): before the clock moves,
  everybody has looked.
- `OneLiveAgent`, if `Sole`: one runner, turns that stop when they fail, and no hand-off that reopens a
  blocked issue. It is about runs in which no call of `ensure` has failed. `Single` says of each issue that only the session of the attempt its claim counts is at
  work and that no later attempt has a place (`Tidy`), and of the runner that what it found of the session in
  hand stays so (`Sure`); so a claim is given to another attempt only when its session is at an end, and a
  start is given up (`abort`) only when the claim is gone. Each hypothesis is needed: the property fails
  with two runners (a late `markRunning`), with `ErrorsStop = FALSE`, and with "blocked" and "ready" among
  `Handoffs`.

`CoordinatorRegistryProofs` proves for any projects, sessions and lanes: `TypeOK`,
`OneProjectPerSession`, `GenerationFencesOwner`, `TakeoverJustified` and
`LanesLostForCause`. `OneProjectPerSession` is inductive with `TypeOK`: each step either
takes answers away (`Withdraws`) or gives one project to a session `refuse_cross_project` let pass
(`Gives`). It does not depend on what was checked before the lock. `Locks` says that an accept-transfer
which has searched for lanes is alone with the lock, and that what it has checked and found still holds
when it writes. The action properties follow from these and a lemma on the step.

`CoordinatorInboxProofs` proves for any reports, generations, revisions and number of commands that die:
`TypeOK`, `NothingInLimbo`, `AckedWasShown` and `AckIsFinal`. None of the last three is inductive: what
is acknowledged was shown only if the token in hand still stands for the items it stood for when the
digest was printed. `IInv` says so in three parts. `Grounded`: no item or claim is of a generation to
come. `HandFits`: the token in hand is that of the claim file or of nothing. `Agree`, unless a claim
died unheard: what carries the claim's token is listed in the claim file and was shown at the revision
claimed, what is covered was covered after it was shown or by a status that overtook the claim (`early`),
and every other token of this generation has lapsed. A lemma says what a write that may be cut
short does to the files (`WriteOverEffect`), another what the registry may do meanwhile (`RegistryStep`).
All commands but `claim` and `publish` only let items go (`LetGo`), so one lemma preserves `Agree` for
all of them, and one per command says that it lets go. `claim` and `publish` have their own.

`RecoveryIncidentProofs` proves for any conditions, controllers, detectors, budgets and times with
`MaxLook < ClearConfirm`: `TypeOK`, `BudgetPerOutbreak` and `ClearedMeansGone`. The argument is about age.
`Overdue`: a condition that has held since its row began to clear can be missing only from looks that
are at least as old as the clearing; as no look gets as old as the confirmation takes, detection cannot
finish the clearing of such a row. `Budget`: what an outbreak has cost is in its row, and the row is set
back only when the outbreak has ended, was declared resolved, or would have to be missing from such a
look.

`AttemptStartProofs` proves for any runners, directives, attempts and bounds on failures: `TypeOK`,
`PromptedOnce`, `AcknowledgedStays` and `ClaimLostForCause`. `Shapes` says what any step is to the sessions: nothing, settling
on one, deciding to prompt it, making one, prompting one. `PInv` adds to the types that a runner at a
session is at one of its attempt (`Bound`); that the session it has settled on is the oldest of its
attempt (`OnOldest`), which later sessions cannot change; and that a runner about to send has verified
the label and either nobody has sent since or the two are racing (`AboutToSend`). Hence two prompted
sessions of one attempt are both its oldest. `DInv` says, unless two commands have held the notes at
once, that what any process knows is on the desk and that notes about to be written were read from the
desk as it is. Neither needs anything of fences, worktrees or claims.

`ClaimLostForCause` does. `Paths` says what any step is to its runner's claim: reading or making one,
going on to the next call or to the catch block on what it has seen, changing the worktree or the sessions,
letting go, failing. Whatever happens, a claim in force is at the issue's attempt (`FencesPast`); one
worktree is ever added, by one runner, and only its own claim goes on from it (`OneTree`); and what runs
has one (`RunsInTree`). Unless a call has failed or two runners have met (`Apart`), all runners hold different
claims, so a claim being started is still claimed, an attempt has one session, a prompt is what its runner
knows, and whoever is in the catch block with a claim in force has a reason (`FailsForCause`); a reason
stays one while others go on (`ReasonStays`).

`GitHubTrackerProofs` proves for any clients, issues and bounds: `LedgerImplementsBoundary` (the refinement
of `TrackerBoundary` by the comments of an issue), `GateBeforeMerge`, and, if `Timely`, `WipOneUnlessUnwound`.
`BasicInv`: the ledger of an issue folds to a state with a claim exactly while it is held (`LedgerInv`), and
the event a method is about to write is the one it would derive now, unless the ledger has moved on
(`FreshInv`). So a comment that counts is a step of the boundary, and one that comes too late counts for
nothing; no lock is needed for that. `WipInv` is about the lease on the fence issue: whoever has won its
election and may still write his claim has the lease, alone, and no other claim has his fence (`Led`:
`Leads`, `Alone`, `Apart`), and a claim that stands has not expired (`Renewed`). It holds
until a catch block has released a lease under a claim that stands (`unwound`), and needs `Timely`: a
lease does not run out between the election and the write.

`RecoveryAdmissionProofs` proves for any conditions and bounds: `TypeOK`, `ConsumedCovers`,
`OneOutstanding` and `RecoveredOnce`. `Effect` says once what a step does to record, envelopes and
recoveries. The invariant: whatever may become a key is a revision the condition has had (`Named`); in the
middle of a call the record on disk waits, and the one in memory is it but for what was coalesced (`Held`);
no batch to come is below the generation of the lane, no record is above it (`Generations`); of the
generations a lane may still address, only what it forgot waits besides the envelope its record follows
(`Tracked`); a recovery is counted while its envelope waits, and is on record unless it was forgotten
(`Recovering`); what was delivered has arrived (`Arrived`).

`ObserversProofs` proves for any bounds: `TerminalMeansEnded`, `SettledByOutcome`, `RemovedUnused` and
`ReapedHadEnded`. `ObserverInv`: a receipt names a run that has begun, one that says the run is over names
one that is not in use or whose supervisor gave up on its child (`unwaited`), supervisor and child are at
matching places (`Paired`), and a run in use has the receipt unless another's was written over it (`JobInv`); a lane that is done has handed off (`HandInv`); a wait
is on a run that has begun (`WaitInv`). Over it, `SweepInv` says for each sweep that what its looks have
established still holds, unless somebody has come to the lane since (`ArchiveSafe`, `ScanSafe`, `GcSafe`; the
last includes that no registry has adopted it).

The theorems rest on `FakeTrackerAssumption`, `SchedulerAssumption`, `GitHubTrackerAssumption`, `RegistryAssumption`,
`InboxAssumption`, `IncidentAssumption`, `AttemptAssumption`, `AdmissionAssumption` and
`ObserverAssumption`, which TLC evaluates in the runs of those modules.

Every safety property of a passing run is stated by a theorem. Liveness
(`EventuallyDecided`, `EveryWakingReportHandled`, `PersistentConditionDecided`, `GoneConditionCloses`,
`ConditionEscalates`, `LegacyObserversFollow`, `SilentLaneIsNoticed`, `ClearCompletes`) is out of the
prover's reach and stays with TLC.

## 5. Behaviour the models contain

What the code does and a reader might not expect. The models do it too, and the passing runs allow for
it, because what it contradicts does not hold in general.

GitHub tracker:

- `tryClaim`'s catch block releases the project's lease for any error after the election, also when its
  claim comment counts (the reply was lost, or projecting failed); the claim stands and a second issue is
  claimed beside it (`github-adapter.ts:187`; `WipOneUnlessUnwound`).
- With `Timely = FALSE`, a lease on the fence issue runs out while the claim in the ledger does not, and
  a second issue is claimed (`github-adapter.ts:206`).
- `failClaim` appends a move the lifecycle may not have; from pr-open the ledger cannot be read any more
  (`github-adapter.ts:220`; `poisoned`).
- `project` writes the Gate field after the label that demands it, and in between `hydrateCore` refuses
  to read the issue (`github-adapter.ts:346`, 543): the disjuncts of `Confirm` and `FinalRead` on `~Readable`.
- Of two projections the later write wins, whichever state is newer (`ProjectState`).

Scheduler and live runner:

- With `ErrorsStop = FALSE`, a session that failed but still processes is replaced without a cancel
  (`scheduler.ts:155`).
- With `MaxErrors > 0`, any `ensure` that fails while an agent is at work ends in a second agent: the
  claim is failed, and the retry starts one. `craft.ensure` may fail after it has started the agent, and
  `workspaces.ensure` when a claim whose agent is at work is resumed after a crash (`scheduler.ts:215-236`).
- A blocked issue that is reopened starts again at attempt 1 (`github-adapter.ts:175`), beside the agent of a
  later attempt if that is still at work (`OneLiveAgent` with "blocked" and "ready" among `Handoffs`).
- `transitionToPrOpen` does not read the session it says has settled (`Handoff`; `runner.ts:127`).

Worktrees, sessions and the desk (`AttemptStart`):

- The branch is the contract's, the path the attempt's. Once an attempt has created the branch, no later
  attempt gets a worktree (`workspace-adapter.ts:54`); the live runner allows one attempt.
- An issue that was blocked and reopened is claimed for the same attempt with a new fence, and its old
  worktree is refused (`workspace-adapter.ts:95`).
- A crash between `git worktree add` and the binding leaves a worktree that `ensure` refuses and the
  next startup turns into preservation-unknown. `v4/README.md:36`: "Adapters implement idempotent `ensure`,
  so a crash can resume the same identity".
- Two runners that resume one session without a prompt both send it (`raced`; `craft-adapter.ts:284`), and two
  that create a session at once leave two with one run label; `get` throws from then on, which ends every
  tick (`craft-adapter.ts:309`, 560).
- The digest a session is labelled with is computed from the directives known at the time; a directive
  since then makes `ensure` refuse the session (`craft-adapter.ts:242`).
- `ingestOwnerDirective` and `projectToDesk` read the notes and write them back; of two at once, the later
  write drops the other's directive, also an acknowledged one (`crowded`; `craft-adapter.ts:405`, 428), and
  a process that knows the directive acknowledges it again without a look at the notes (356).

Registry and inbox:

- An adopted lane keeps the label of the coordinator that spawned it, so that the second transfer
  after its adoption is refused (`Adoptable`; `coordinator-registry.py:464`).
- A HOLD is ended by a claim of the owner itself, by renewals in quarantine and by a transfer, without
  RESUME (`Claim`, `Renew`, `Begin`; `coordinator-registry.py:157`, 198, 513).
- A snapshot computed before a transfer and written after it drops adopted lanes
  (`CheckSnapshot`, `Snapshot`; `recovery-ledger.py:103`).
- A sweep prunes a live lane whose manifest it cannot read for whatever reason
  (`coordinator-registry.py:295-297`, `orchestration-common.py:65-71`), and accept-transfer does not adopt one
  it could not see, nor one that appears between its search and its write (`coordinator-registry.py:549`,
  561; the exceptions of `LanesLostForCause`).
- A claim reads the revision of the status and binds its items later, and a status is published under
  another lock: one from in between counts as newer than the claim, although it accounts for nothing the
  claim shows (`early`; `coordinator-inbox.py:335`, 361-365, `coordinator-status.py:36`, against the comments at
  `coordinator-inbox.py:10` and 395).
- A claim that dies after it has written items leaves them under a token nobody was told, until it lapses
  (`unheard`).
- A claim that joins a live one binds newer revisions to the same token; if its answer is lost, an
  acknowledgement with the earlier answer's token swallows them (`unheard`; `coordinator-inbox.py:343`
  against the comment at 418).
- A coordinator that claims its project again without naming a predecessor cannot adopt any more, and a
  report sent again after adoption is a second item (`ClaimAgain`, `Keys`; `coordinator-inbox.py:475`, 125).

Recovery admission:

- A harness probe that is unavailable turns a blocked record into a deferral (`RecoveryBlocked`), and any deferral starts the
  cycle afresh, without the envelope that is out and without the recovery that was made (`forgot`;
  `recovery-admission.py:1108`).

Observers and sweeps:

- A wait's "deadline" counts as its end, so a commitment to it can be resolved while what it observes is
  still at work (`coordinator-commitment.py:128`; the exception of `SettledByOutcome`).
- A journaled clear whose receipt is gone, because the lane was archived and reaped, makes the wait
  unobserved for ever (`external-wait.py:269`).
- `reconcile_row` looks at the exit code before the process identity, so the exit of another run of the
  same command ends the wait (`external-wait.py:254`; `torn`).
- If the first receipt write or heartbeat with the child's pid fails, the supervisor takes it for a failed
  launch: it does not wait for the child it has started and writes a terminal receipt (exit code 127) over
  it (`observable-job.py:157-168`, against the comment at 150-154; `unwaited`).
- `ack` reads the receipt and writes it back without a lock, over what a supervisor wrote in between
  (`observable-job.py:251`); two starts may both find no live process (201).
- The last heartbeat of a supervisor turns a lease that was handoff-ready into running again until the next
  reconcile; a silent lane whose last job exited unreported stays suspect.
- The admission of a strict lane is confirmed for the coordinator that spawned it, so that after a
  rotation reconcile quarantines its lease, and a strict lane that is done is quarantined on every
  reconcile (`worker-lease.py:604`, 430). `LegacyObserversFollow` is about the others.
- Commitments of earlier generations become orphaned without an incident (`coordinator-commitment.py:249`).
- `scan-reapable-workers.py` takes the only harness in a lane's worktree for the lane's, also when it is
  another live session's (`scan-reapable-workers.py:159`; the exception of `ReapedHadEnded`).
- `worktree-gc.py` does not compare the head it removes with the one that was reviewed (354-373), and
  `remove_runtime` removes a lease without its lock (`post-archive-reaper.py:125`).

## 6. Not modelled

- Parsers of workflow and contract, identity, policy, status, CLI, simulator, wire transports: pure
  functions or pure I/O.
- Increment board, gate board, identity drift, completion certificates, plan receipts, release closure:
  projections nothing reads back, or one pass over evidence.
- Standing authority, the permits of the reporting policy, the decisions of owner gates,
  `controller-harness.py`, the collision checks of lane admission: planned.
- Of modelled components: the hand-off report of an earlier attempt and archiving (Craft adapter);
  the moves of `reconcileStartup` on pull-request and merge evidence; pagination and identity checks of the
  GitHub adapter; rotation metrics and requests (registry); the checks of a sender (inbox); transport
  health and the acknowledgement of a block (admission); the owner file of the heavyweight lane; what
  makes a condition (incidents).

## 7. Plan

1. `LaneAdmission` composed with the registry and `WorkerLease`; `OwnerGate`, `StandingAuthority` and
   `ReportingPolicy` as check-and-use protocols.
2. `CoordinatorInbox` as a refinement of a set of open reports.
