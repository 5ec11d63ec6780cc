------------------------------- MODULE Cleanup -------------------------------
(***************************************************************************)
(* What puts a finished lane away: post-archive-reaper.py ends harnesses   *)
(* that archived sessions left in a worktree, scan-reapable-workers.py     *)
(* those of lanes that are over but not archived, and worktree-gc.py       *)
(* removes the worktree after a reviewed dry run.  Each of them looks      *)
(* around in several steps and acts on what it saw; in between, sessions   *)
(* come back, another session starts work in the same worktree, and jobs   *)
(* and harnesses start and exit.  Only worktree-gc.py holds a lock, which  *)
(* excludes itself.                                                        *)
(*                                                                         *)
(* There is one worktree, the lane's, which is not the root checkout.      *)
(* Reused pids, harnesses outside their worktree, auditors (whose commits  *)
(* need not be pushed), batch limits and report ages are left out.         *)
(***************************************************************************)
EXTENDS CoordinatorCommitment

VARIABLES
    guest,          \* another session in the worktree
    harness,        \* the sessions whose harness process is alive
    tree,           \* the worktree
    reviewed,       \* the gc's last report is a dry run that lists the worktree at its head
    sweep,          \* sweep[k]: the running sweep of kind k
    came            \* history: since sweep k began to look, somebody came to the worktree

sweepVars == <<sweep, came>>
cleanVars == <<guest, harness, tree, reviewed, sweepVars>>
allVars == <<vars, cleanVars>>

Sessions == {"lane", "guest"}

\* dirty: uncommitted changes; local: committed on its branch only; detached: committed on
\* a detached HEAD no ref reaches; pushed: clean, and the commits are on origin.
Trees == {"pushed", "dirty", "local", "detached", "removed"}

\* looked: it has read the first of what it has to read, and the pids it has found.
Sweeps == [pc : {"idle", "looked", "found", "checked", "killed"}, pids : SUBSET Sessions]
NoSweep == [pc |-> "idle", pids |-> {}]

CleanInit ==
    /\ Init
    /\ guest = "none" /\ harness = {}
    /\ tree = "pushed" /\ reviewed = FALSE
    /\ sweep = [k \in SweepKinds |-> NoSweep]
    /\ came = [k \in SweepKinds |-> FALSE]

Enabled(k) == k \in case.sweeps
At(k, pc) == sweep[k].pc = pc
Go(k, pc, pids) == sweep' = [sweep EXCEPT ![k] = [pc |-> pc, pids |-> pids]]

\* A look that decides whether the sweep goes on, and ends it if not.
GoIf(k, ok, pc, pids) == Go(k, IF ok THEN pc ELSE "idle", IF ok THEN pids ELSE {})

\* The first look of a sweep.
Begin(k, ok, pids) ==
    /\ Enabled(k)
    /\ GoIf(k, ok, "looked", pids)
    /\ came' = [came EXCEPT ![k] = FALSE]

Untouched == UNCHANGED <<vars, guest, tree, reviewed>>

\* Processes of a session, and the child of a job of the lane; its supervisor is elsewhere.
InWorktree == harness # {} \/ \E r \in Runs : proc[r].child

\* DEAD_LANE_STATES
Dead == lease.state \in {"stalled", "error"}

\* By its archive, its status or its lease.
EndedSession(s) ==
    IF s = "lane" THEN lane \in {"archived", "needs-review", "done"} \/ Dead ELSE guest = "archived"

\* Somebody comes: a session is back or was not over after all, a harness or the child of a
\* job starts, the registry adopts the lane.
Comes ==
    \/ lane = "archived" /\ lane' # "archived"
    \/ guest = "none" /\ guest' = "live"
    \/ ~(harness' \subseteq harness)
    \/ \E r \in Runs : ~proc[r].child /\ proc'[r].child
    \/ ~reg.adopted /\ reg'.adopted
    \/ EndedSession("lane") /\ ~EndedSession("lane")'

Noticed == came' = [k \in SweepKinds |-> came[k] \/ (Comes /\ ~At(k, "idle"))]

-----------------------------------------------------------------------------
(* post-archive-reaper.py *)

\* Mutant of Archived: a coordinator in the same worktree is not looked at.
ArchivedWorkers == lane = "archived"

\* classify_session_cwds: the lane is archived and no live session shares its worktree.
Archived == lane = "archived" /\ guest # "live"

ReadManifests ==
    /\ At("archive", "idle") /\ Begin("archive", Archived, {})
    /\ Untouched /\ UNCHANGED harness

\* cwd_pids
FindPids ==
    /\ At("archive", "looked")
    /\ GoIf("archive", harness # {}, "found", harness)
    /\ Untouched /\ UNCHANGED <<harness, came>>

\* work_preserved; a worktree that is gone has nothing to lose.
CheckArchived ==
    /\ At("archive", "found")
    /\ GoIf("archive", tree \in {"pushed", "removed"}, "checked", sweep["archive"].pids)
    /\ Untouched /\ UNCHANGED <<harness, came>>

\* SIGTERM for every pid found; the runtime files stay if one could not be signalled.
KillArchived ==
    /\ At("archive", "checked")
    /\ \E killed \in SUBSET sweep["archive"].pids :
          /\ harness' = harness \ killed
          /\ GoIf("archive", killed = sweep["archive"].pids, "killed", {})
    /\ Untouched /\ UNCHANGED came

\* remove_runtime, without the lock of worker-lease.py.
ForgetArchived ==
    /\ At("archive", "killed")
    /\ RemoveRuntime
    /\ Go("archive", "idle", {})
    /\ UNCHANGED <<case, proc, ack, kills, torn, unwaited, Elsewhere, handed, wait, commit, gate>>
    /\ UNCHANGED <<guest, harness, tree, reviewed>>
    /\ Noticed     \* the lease may have been what said that the lane is over

-----------------------------------------------------------------------------
(* scan-reapable-workers.py --reap *)

\* cwd_pid_map comes first.
ScanPids ==
    /\ At("scan", "idle") /\ Begin("scan", TRUE, harness)
    /\ Untouched /\ UNCHANGED harness

\* The lane is over, by its session's status or by its lease, and not put away yet.
Over == lane \in {"needs-review", "done"} \/ (lane \notin {"archived", "relabelled"} /\ Dead)

\* resolve_pid: the only harness in the worktree, whoever it belongs to, or the one the
\* lane has registered.
PidOf(pids) ==
    IF pids = {} THEN harness \cap {"lane"} ELSE IF \E s \in Sessions : pids = {s} THEN pids ELSE {}

\* The lane's manifest, lease and worktree; it has not been used for a while.
ScanLane ==
    /\ At("scan", "looked")
    /\ LET pids == PidOf(sweep["scan"].pids) IN
       \/ GoIf("scan", Over /\ tree = "pushed" /\ pids # {}, "found", pids)
       \/ Go("scan", "idle", {})
    /\ Untouched /\ UNCHANGED <<harness, came>>

\* work_preserved once more, before the kill.
RecheckLane ==
    /\ At("scan", "found")
    /\ GoIf("scan", tree = "pushed", "checked", sweep["scan"].pids)
    /\ Untouched /\ UNCHANGED <<harness, came>>

KillLane ==
    /\ At("scan", "checked")
    /\ harness' = harness \ sweep["scan"].pids
    /\ Go("scan", "idle", {})
    /\ Untouched /\ UNCHANGED came

-----------------------------------------------------------------------------
(* worktree-gc.py *)

\* protection_snapshot and classify: sessions and the registry's children,
Unowned == lane = "archived" /\ guest = "none" /\ ~reg.adopted

\* Mutant of Unheld: only harnesses hold a worktree.
UnheldByHarness == harness = {}

\* processes,
Unheld == ~InWorktree

\* and git.
Preserved == tree \in {"pushed", "local"}

Candidate == Unowned /\ Unheld /\ Preserved

\* A dry run, whose report somebody reads.
DryRun ==
    /\ Enabled("gc") /\ At("gc", "idle")
    /\ reviewed' = Candidate
    /\ UNCHANGED <<vars, guest, harness, tree, sweepVars>>

\* --apply: a candidate the prior dry run has listed.  The report is overwritten.
Apply ==
    /\ Enabled("gc") /\ At("gc", "idle")
    /\ GoIf("gc", reviewed /\ Candidate, "looked", {})
    /\ reviewed' = FALSE
    /\ UNCHANGED <<vars, guest, harness, tree, came>>

\* protection_snapshot again, manifests and registry first.
LookAgain ==
    /\ At("gc", "looked") /\ GoIf("gc", Unowned, "found", {})
    /\ came' = [came EXCEPT !["gc"] = FALSE]
    /\ Untouched /\ UNCHANGED harness

\* Then processes and git.
ClassifyAgain ==
    /\ At("gc", "found") /\ GoIf("gc", Unheld /\ Preserved, "checked", {})
    /\ Untouched /\ UNCHANGED <<harness, came>>

\* git worktree remove, without --force: it refuses uncommitted changes.
Remove ==
    /\ At("gc", "checked") /\ Go("gc", "idle", {})
    /\ tree' = IF tree = "dirty" THEN tree ELSE "removed"
    /\ UNCHANGED <<vars, guest, harness, reviewed, came>>

\* A sweep may die wherever it is, or give up over a process that is no harness.
Dies(k) ==
    /\ ~At(k, "idle") /\ Go(k, "idle", {})
    /\ Untouched /\ UNCHANGED <<harness, came>>

Sweep ==
    \/ ReadManifests \/ FindPids \/ CheckArchived \/ KillArchived \/ ForgetArchived
    \/ ScanPids \/ ScanLane \/ RecheckLane \/ KillLane
    \/ DryRun \/ Apply \/ LookAgain \/ ClassifyAgain \/ Remove
    \/ \E k \in SweepKinds : Dies(k)

-----------------------------------------------------------------------------
(* The worktree and who is in it *)

\* A session at work has a harness, which may outlive it.
HarnessStarts(s) ==
    /\ s \notin harness /\ tree # "removed"
    /\ IF s = "lane" THEN lane \notin {"archived", "silent"} ELSE guest = "live"
    /\ harness' = harness \cup {s}
    /\ Untouched /\ UNCHANGED sweep

HarnessExits(s) ==
    /\ s \in harness /\ harness' = harness \ {s}
    /\ Untouched /\ UNCHANGED sweep

\* A session that works in a worktree which is not its own, like a coordinator in the
\* checkout of a legacy worker, or a successor in its predecessor's.
Guest ==
    /\ \/ guest = "none" /\ guest' = "live"
       \/ guest = "live" /\ guest' = "archived"
    /\ UNCHANGED <<vars, harness, tree, reviewed, sweep>>

\* Any process in the worktree edits, commits and pushes.
Work ==
    /\ InWorktree /\ tree # "removed"
    /\ \/ tree' = "dirty" /\ UNCHANGED reviewed
       \/ tree = "dirty" /\ tree' \in {"local", "detached"} /\ reviewed' = FALSE
       \/ tree = "local" /\ tree' = "pushed" /\ UNCHANGED reviewed
    /\ UNCHANGED <<vars, guest, harness, sweep>>

\* Everything else the lane's session, its jobs and coordinators do.
Below == Next /\ UNCHANGED <<guest, harness, tree, reviewed, sweep>>

CleanNext ==
    \/ Sweep
    \/ /\ \/ Below
          \/ case.sweeps # {} /\ (Guest \/ Work \/ \E s \in Sessions : HarnessStarts(s) \/ HarnessExits(s))
       /\ Noticed

CleanSpec == CleanInit /\ [][CleanNext]_allVars
FairCleanSpec == CleanSpec /\ Fairness

-----------------------------------------------------------------------------
(* Properties *)

\* Type invariant.
CleanTypeOK ==
    /\ TypeOK
    /\ guest \in {"none", "live", "archived"} /\ harness \subseteq Sessions
    /\ tree \in Trees /\ reviewed \in BOOLEAN
    /\ sweep \in [SweepKinds -> Sweeps] /\ came \in [SweepKinds -> BOOLEAN]

\* A worktree is removed only when no session, process or registry needs it and no commit
\* is lost with it, except for one who came after the last look around: a session that is
\* back, a harness or a job's child that has started, a registry that has adopted the lane.
RemovedUnused ==
    [][tree # "removed" /\ tree' = "removed" =>
          came["gc"] \/ (lane = "archived" /\ guest # "live" /\ ~reg.adopted /\ ~InWorktree /\ Preserved)]_allVars

\* A harness is ended only if its session is over by then, by its archive, its status or
\* its lease.  Except for one who came after the sweep had begun to look, and except that
\* the scan takes the only harness in the lane's worktree for the lane's.
ReapedHadEnded ==
    [][\A s \in harness \ harness' :
          /\ At("archive", "checked") /\ sweep'["archive"] # sweep["archive"] =>
                came["archive"] \/ EndedSession(s)
          /\ At("scan", "checked") /\ sweep'["scan"] # sweep["scan"] =>
                came["scan"] \/ EndedSession(s) \/ s = "guest"]_allVars

=============================================================================
