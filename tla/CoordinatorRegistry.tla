-------------------------- MODULE CoordinatorRegistry --------------------------
(***************************************************************************)
(* coordinator-registry.py: which session is the authoritative coordinator *)
(* of which project, and the worker lanes it answers for; with the         *)
(* snapshot of recovery-ledger.py, which writes the same records.          *)
(*                                                                         *)
(* Every command is a process.  What it does under the registry's file     *)
(* lock is one action.  claim, begin-transfer, accept-transfer and         *)
(* snapshot read sessions before they take the lock: they are two actions, *)
(* and between them other commands run and sessions change.  Under the     *)
(* lock accept-transfer looks for lanes and then writes: sessions and      *)
(* lanes change in between, the registry does not.                         *)
(*                                                                         *)
(* Leases, the rotation metric and its request decide who gets woken, not  *)
(* who owns what, and are left out; so is a missing or malformed reporting *)
(* policy, which makes every command refuse.                               *)
(***************************************************************************)
EXTENDS Naturals, FiniteSets

CONSTANTS
    Projects,       \* numbered in the order the sweeps visit them
    Sessions,       \* coordinator sessions
    Lanes,          \* worker and auditor sessions
    Identity,       \* Identity[l]: lane l's work unit and attempt, and its worktree
    Relabels,       \* TRUE: the name and labels of a session may be edited
    MaxGeneration,  \* bound: no owner beyond this generation
    MaxCalls        \* bound: commands between their checks and the lock

None == "none"

ASSUME RegistryAssumption ==
    /\ Projects \subseteq Nat
    /\ Projects # {}
    /\ None \notin Sessions
    /\ DOMAIN Identity = Lanes
    /\ Relabels \in BOOLEAN
    /\ MaxGeneration \in Nat
    /\ MaxCalls \in Nat

VARIABLES
    rec,        \* rec[p]: the registry record of project p
    session,    \* session[s]: coordinator session s
    lane,       \* lane[l]: lane l
    calls       \* the commands that have passed their checks and wait for the lock

environment == <<session, lane>>
vars == <<rec, session, lane, calls>>

RecordStates == {"missing", "authoritative", "rotating", "hold", "needs-owner"}

\* needs-owner always comes with a reportingViolation (mark_reporting_violation).
Records ==
    [state : RecordStates,
     owner : Sessions \cup {None},          \* coordinatorSessionId
     generation : Nat,
     successor : Sessions \cup {None},      \* successorSessionId
     children : SUBSET Lanes]               \* activeChildren

NoRecord ==
    [state |-> "missing", owner |-> None, generation |-> 0, successor |-> None, children |-> {}]

\* life "ended": status done or cancelled, which may be set back; project: the one
\* the name and labels give; clean: no unpermitted report to the owner is on record.
SessionRecords == [life : {"live", "ended", "archived"}, project : Projects, clean : BOOLEAN]

\* visible: read_manifest and all_manifests find it.  A lane that has been admitted is live
\* even if its manifest is not there yet, and any failure to read one is an absent lane.
LaneRecords ==
    [life : {"absent", "live", "done", "archived"}, visible : BOOLEAN,
     parent : Sessions \cup {None}, project : Projects]

Calls ==
    [kind : {"claim", "begin", "accept"}, project : Projects,
     session : Sessions,        \* the session that is to own the project
     by : Sessions,             \* begin-transfer: the caller
     fits : BOOLEAN]            \* its manifest, as read, is canonical for the project
    \cup [kind : {"snapshot"}, project : Projects, children : SUBSET Lanes]
    \cup [kind : {"adopt"}, project : Projects, session : Sessions,   \* accept, past its search
           found : SUBSET Lanes,
           missed : SUBSET Lanes]   \* history: the lanes it could not see

Init ==
    /\ rec = [p \in Projects |-> NoRecord]
    /\ session \in [Sessions -> [life : {"live"}, project : Projects, clean : {TRUE}]]
    /\ lane = [l \in Lanes |->
                  [life |-> "absent", visible |-> TRUE, parent |-> None,
                   project |-> CHOOSE p \in Projects : TRUE]]
    /\ calls = {}

\* session_live
Live(s) == s \in Sessions /\ session[s].life = "live"

\* validate_successor_manifest: name and labels are canonical for the project.
Fits(s, p) == session[s].project = p

\* reporting_refusal finds something.
Violates(s) == ~session[s].clean

\* active_records
Active(p) == rec[p].state # "missing"

\* session_projects, with the pending transfers.
ProjectsOf(s) ==
    {p \in Projects :
        \/ Active(p) /\ rec[p].owner = s
        \/ rec[p].state = "rotating" /\ rec[p].successor = s}

\* Mutant of NoOtherProject: transfers the session is about to accept are forgotten.
OwnsNoOther(s, p) == {q \in Projects : Active(q) /\ rec[q].owner = s} \subseteq {p}

\* refuse_cross_project lets the command pass.
NoOtherProject(s, p) == ProjectsOf(s) \subseteq {p}

-----------------------------------------------------------------------------
(* Commands that check before they take the lock *)

Wait(call) ==
    /\ Cardinality(calls) < MaxCalls
    /\ calls' = calls \cup {call}
    /\ UNCHANGED <<rec, environment>>

CheckClaim(p, s) ==
    /\ Live(s) /\ Fits(s, p) /\ ~Violates(s)
    /\ Wait([kind |-> "claim", project |-> p, session |-> s, by |-> s, fits |-> TRUE])

CheckBegin(p, s, successor) ==
    /\ Live(successor) /\ Fits(successor, p) /\ ~Violates(successor)
    /\ Active(p)
    /\ Wait([kind |-> "begin", project |-> p, session |-> successor, by |-> s, fits |-> TRUE])

CheckAccept(p, s) ==
    /\ Live(s)
    /\ Wait([kind |-> "accept", project |-> p, session |-> s, by |-> s, fits |-> Fits(s, p)])

\* The lane is counted to the project of the active coordinator it runs under, or
\* else to the project in its labels.  Its lease names the parent of its manifest or
\* the coordinator that adopted it.
BelongsTo(l, p) ==
    \E parent \in {lane[l].parent} \cup {rec[q].owner : q \in {o \in Projects : l \in rec[o].children}} :
        LET owned == {q \in Projects : Active(q) /\ rec[q].owner = parent} IN
        IF owned = {} THEN lane[l].project = p ELSE owned = {p}

\* A manifest that can be read and is not archived.
Readable(l) == lane[l].life \in {"live", "done"} /\ lane[l].visible

\* recovery-ledger.py snapshot: synthesize.
CheckSnapshot(p) ==
    Wait([kind |-> "snapshot", project |-> p,
          children |-> {l \in Lanes : Readable(l) /\ BelongsTo(l, p)}])

\* accept-transfer holds the lock while it searches and writes.
LockFree == \A call \in calls : call.kind # "adopt"

\* The command's turn at the lock is over, with or without a write.
Done(call) == calls' = calls \ {call}
Save(p, r) == rec' = [rec EXCEPT ![p] = r]

\* Mutant of ClaimRefused: a live owner is not looked for.
ClaimAnyway(p, s) == ~NoOtherProject(s, p)

\* Split brain: another session owns the project and is alive.
ClaimRefused(p, s) ==
    \/ ~NoOtherProject(s, p)
    \/ Active(p) /\ rec[p].owner # s /\ Live(rec[p].owner)

\* Mutants of ClaimGeneration: only a transfer advances the generation; a project that
\* is not registered yet is taken for its owner's.
ClaimGenerationKept(p, s) == IF Active(p) THEN rec[p].generation ELSE 1
ClaimGenerationFromZero(p, s) ==
    rec[p].generation + (IF Active(p) /\ rec[p].owner # s THEN 1 ELSE 0)

ClaimGeneration(p, s) == rec[p].generation + (IF Active(p) /\ rec[p].owner = s THEN 0 ELSE 1)

Claim(call) ==
    LET p == call.project
        s == call.session IN
    /\ call.kind = "claim"
    /\ ~ClaimRefused(p, s)
    /\ ClaimGeneration(p, s) <= MaxGeneration
    /\ Save(p, [state |-> "authoritative", owner |-> s, generation |-> ClaimGeneration(p, s),
                successor |-> None, children |-> {}])

\* begin-transfer.  A caller in violation is marked first, so that it finds itself
\* in needs-owner, from where a transfer is allowed.
Begin(call) ==
    LET p == call.project
        r == rec[p] IN
    /\ call.kind = "begin"
    /\ NoOtherProject(call.session, p)
    /\ Active(p) /\ r.owner = call.by
    /\ Violates(call.by) \/ r.state \notin {"rotating", "hold"}
    /\ Save(p, [r EXCEPT !.state = "rotating", !.successor = call.session])

LanesOf(s) == {l \in Lanes : lane[l].parent = s}
LiveLanes == {l \in Lanes : lane[l].life = "live"}

\* The live lanes of a session that all_manifests finds, and those it does not.
Found(s) == {l \in LanesOf(s) \cap LiveLanes : lane[l].visible}
Missed(s) == {l \in LanesOf(s) \cap LiveLanes : ~lane[l].visible}

\* Mutant of Adoptable: registered children are not compared with what is found.
AdoptableAsFound(p) ==
    LET lanes == Found(rec[p].owner) IN
    /\ \A l \in lanes : lane[l].project = p
    /\ \A l, m \in lanes : Identity[l] = Identity[m] => l = m

\* discover_transfer_children does not refuse: every registered child is a live lane
\* of the predecessor itself, and no two of its lanes clash.
Adoptable(p) ==
    LET lanes == Found(rec[p].owner) IN
    /\ rec[p].children \subseteq lanes
    /\ \A l \in lanes : lane[l].project = p
    /\ \A l, m \in lanes : Identity[l] = Identity[m] => l = m

Discover(call) ==
    LET p == call.project
        s == call.session
        r == rec[p] IN
    /\ call.kind = "accept"
    /\ NoOtherProject(s, p)
    /\ r.state = "rotating" /\ r.successor = s
    /\ call.fits /\ ~Violates(s)
    /\ Adoptable(p)
    /\ calls' = (calls \ {call}) \cup
                   {[kind |-> "adopt", project |-> p, session |-> s,
                     found |-> Found(r.owner), missed |-> Missed(r.owner)]}
    /\ UNCHANGED rec

Accept(call) ==
    LET p == call.project
        r == rec[p] IN
    /\ call.kind = "adopt"
    /\ r.generation < MaxGeneration
    /\ Save(p, [state |-> "authoritative", owner |-> call.session, generation |-> r.generation + 1,
                successor |-> None, children |-> call.found])

Snapshot(call) ==
    /\ call.kind = "snapshot"
    /\ Active(call.project)
    /\ Save(call.project, [rec[call.project] EXCEPT !.children = call.children])

Locked(call) ==
    /\ \/ LockFree /\ (Claim(call) \/ Begin(call) \/ Snapshot(call)) /\ Done(call)
       \/ LockFree /\ Discover(call)
       \/ Accept(call) /\ Done(call)
    /\ UNCHANGED environment

\* Under the lock the command finds that it must refuse, or its process has died.
Refused(call) ==
    /\ Done(call)
    /\ UNCHANGED <<rec, environment>>

-----------------------------------------------------------------------------
(* Commands that work under the lock altogether *)

Marked(r) == [r EXCEPT !.state = "needs-owner"]

Renew(p, s) ==
    LET r == rec[p] IN
    /\ LockFree /\ Active(p) /\ r.owner = s
    /\ \/ Violates(s) /\ Save(p, Marked(r))
       \/ ~Violates(s) /\ r.state = "needs-owner" /\ Save(p, [r EXCEPT !.state = "authoritative"])
    /\ UNCHANGED <<environment, calls>>

\* The projects a sweep reaches before an audit that throws ends it.
Sweeps == {{p \in Projects : p <= last} : last \in Projects}

ReconcileRotation ==
    /\ LockFree
    /\ \E reached \in Sweeps :
          rec' = [p \in Projects |->
                    IF /\ p \in reached
                       /\ rec[p].state \in {"authoritative", "rotating"}
                       /\ Live(rec[p].owner)
                       /\ Violates(rec[p].owner)
                    THEN Marked(rec[p]) ELSE rec[p]]
    /\ UNCHANGED <<environment, calls>>

\* Archived lanes are pruned, and those whose manifest cannot be read; an owner in violation
\* is marked if it is alive.
Reconciled(r) ==
    LET pruned == [r EXCEPT !.children = {l \in @ : Readable(l)}] IN
    IF Live(r.owner) /\ Violates(r.owner) THEN Marked(pruned) ELSE pruned

ReconcileActivity ==
    /\ LockFree
    /\ \E reached \in Sweeps :
          rec' = [p \in Projects |->
                    IF p \in reached /\ rec[p].state = "authoritative"
                    THEN Reconciled(rec[p]) ELSE rec[p]]
    /\ UNCHANGED <<environment, calls>>

Hold(p, s) ==
    /\ LockFree /\ Active(p) /\ rec[p].owner = s
    /\ Save(p, [rec[p] EXCEPT !.state = "hold"])
    /\ UNCHANGED <<environment, calls>>

Resume(p) ==
    /\ LockFree /\ rec[p].state = "hold"
    /\ Save(p, [rec[p] EXCEPT !.state = "authoritative"])
    /\ UNCHANGED <<environment, calls>>

-----------------------------------------------------------------------------
(* Sessions and lanes *)

SetLife(s, life) ==
    /\ session[s].life \notin {"archived", life}
    /\ session' = [session EXCEPT ![s].life = life]
    /\ UNCHANGED <<rec, lane, calls>>

\* A coordinator reports to the owner without a permit; a newer policy epoch forgives.
Report(s) ==
    /\ session' = [session EXCEPT ![s].clean = FALSE]
    /\ UNCHANGED <<rec, lane, calls>>

NewEpoch ==
    /\ session' = [s \in Sessions |-> [session[s] EXCEPT !.clean = TRUE]]
    /\ UNCHANGED <<rec, lane, calls>>

Relabel(s, p) ==
    /\ Relabels
    /\ session' = [session EXCEPT ![s].project = p]
    /\ UNCHANGED <<rec, lane, calls>>

\* lane-admission.py admits lanes of the authoritative coordinator only, none that
\* clashes with a live one.
Spawn(l, p) ==
    /\ rec[p].state = "authoritative"
    /\ Live(rec[p].owner)
    /\ lane[l].life = "absent"
    /\ \A m \in LiveLanes : Identity[l] # Identity[m]
    /\ \E visible \in BOOLEAN :
          lane' = [lane EXCEPT ![l] = [life |-> "live", visible |-> visible,
                                       parent |-> rec[p].owner, project |-> p]]
    /\ UNCHANGED <<rec, session, calls>>

EndLane(l, life) ==
    /\ <<lane[l].life, life>> \in {<<"live", "done">>, <<"live", "archived">>, <<"done", "archived">>}
    /\ lane' = [lane EXCEPT ![l].life = life]
    /\ UNCHANGED <<rec, session, calls>>

\* A manifest appears, cannot be read for a while, and can be read again.
Glimpse(l) ==
    /\ lane[l].life # "absent"
    /\ lane' = [lane EXCEPT ![l].visible = ~@]
    /\ UNCHANGED <<rec, session, calls>>

Command(p, s) ==
    \/ CheckClaim(p, s)
    \/ \E successor \in Sessions : CheckBegin(p, s, successor)
    \/ CheckAccept(p, s)
    \/ Renew(p, s)
    \/ Hold(p, s)

Next ==
    \/ \E p \in Projects, s \in Sessions : Command(p, s) \/ Relabel(s, p)
    \/ \E p \in Projects : CheckSnapshot(p) \/ Resume(p)
    \/ \E call \in calls : Locked(call) \/ Refused(call)
    \/ ReconcileRotation
    \/ ReconcileActivity
    \/ \E s \in Sessions : Report(s) \/ \E life \in {"live", "ended", "archived"} : SetLife(s, life)
    \/ NewEpoch
    \/ \E l \in Lanes :
          \/ \E p \in Projects : Spawn(l, p)
          \/ \E life \in {"done", "archived"} : EndLane(l, life)
          \/ Glimpse(l)

Spec == Init /\ [][Next]_vars

-----------------------------------------------------------------------------
(* Properties *)

\* Type invariant; a registered project has an owner and a generation, and an open transfer
\* has a successor.
TypeOK ==
    /\ rec \in [Projects -> Records]
    /\ session \in [Sessions -> SessionRecords]
    /\ lane \in [Lanes -> LaneRecords]
    /\ calls \subseteq Calls
    /\ \A p \in Projects :
          /\ Active(p) => rec[p].owner # None /\ rec[p].generation > 0
          /\ rec[p].state = "rotating" => rec[p].successor # None

\* A session answers for one project at most, the transfer it is about to accept
\* included, through any sequence of claims, transfers, holds and relabelings and
\* with checks that were made before the lock (refuse_cross_project).
OneProjectPerSession == \A s \in Sessions : \A p, q \in ProjectsOf(s) : p = q

\* The generation fences the owner: it never falls, and a project never has two
\* owners in the same generation.  Every other tool names a coordinator by both.
GenerationFencesOwner ==
    [][\A p \in Projects :
          /\ rec'[p].generation >= rec[p].generation
          /\ rec'[p].owner # rec[p].owner => rec'[p].generation > rec[p].generation]_vars

\* Nobody takes a project from a live owner except as the successor of the transfer
\* that owner has open.
TakeoverJustified ==
    [][\A p \in Projects :
          Active(p) /\ rec'[p].owner # rec[p].owner =>
              \/ ~Live(rec[p].owner)
              \/ rec[p].state = "rotating" /\ rec[p].successor = rec'[p].owner]_vars

\* The live lanes that a project's coordinator knows of: its own, and those adopted.
Known(p) ==
    IF rec[p].owner = None THEN {}
    ELSE LiveLanes \cap (rec[p].children \cup {l \in LanesOf(rec[p].owner) : lane[l].project = p})

\* Only a claim, which starts with no children, and a snapshot can make a coordinator lose
\* sight of a lane that is still alive; a transfer cannot, nor any series of transfers, holds
\* and sweeps (discover_transfer_children, cmd_reconcile_activity).  Except for a lane whose
\* manifest they could not read: such a lane is absent to a sweep, and not adopted.
LanesLostForCause ==
    [][\A p \in Projects :
          \A l \in Known(p) :
              l \in LiveLanes' /\ l \notin Known(p)' =>
                  \/ \E call \in calls : Claim(call) \/ Snapshot(call)
                  \/ \E call \in calls : Accept(call) /\ l \in call.missed
                  \/ ReconcileActivity /\ ~lane[l].visible]_vars

=============================================================================
