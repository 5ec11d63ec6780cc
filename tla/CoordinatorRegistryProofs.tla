------------------------ MODULE CoordinatorRegistryProofs ------------------------
(***************************************************************************)
(* Proofs about CoordinatorRegistry, for any projects, sessions and lanes. *)
(*                                                                         *)
(* TypeOK is inductive, and with it OneProjectPerSession: every command    *)
(* either leaves the owner and the open transfer of every project as they  *)
(* are or withdraws them (Withdraws), or gives one project to one session  *)
(* that refuse_cross_project has let pass (Gives).  What accept-transfer   *)
(* has checked and found still holds when it writes, because it holds the  *)
(* lock and nobody may own two projects (Locks).                           *)
(***************************************************************************)
EXTENDS CoordinatorRegistry, TLAPS

\* What an accept-transfer past its search relies on, and what it knows of the lanes.
Relies(c) ==
    /\ NoOtherProject(c.session, c.project)
    /\ rec[c.project].state = "rotating" /\ rec[c.project].successor = c.session
    /\ rec[c.project].children \subseteq c.found
    /\ LanesOf(rec[c.project].owner) \cap LiveLanes \subseteq c.found \cup c.missed

\* It is alone with the lock.
Locks == \A c \in calls : c.kind = "adopt" =>
             Relies(c) /\ \A d \in calls : d.kind = "adopt" => d = c

IInv == TypeOK /\ OneProjectPerSession /\ Locks

\* The clause of TypeOK on a single record.
Registered(r) ==
    /\ r.state # "missing" => r.owner # None /\ r.generation > 0
    /\ r.state = "rotating" => r.successor # None

\* No session answers for a project it did not answer for before.
Withdraws == \A s \in Sessions : ProjectsOf(s)' \subseteq ProjectsOf(s)

\* One session that answers for no other project gets project p.
Gives(s, p) ==
    /\ NoOtherProject(s, p)
    /\ ProjectsOf(s)' \subseteq ProjectsOf(s) \cup {p}
    /\ \A t \in Sessions \ {s} : ProjectsOf(t)' \subseteq ProjectsOf(t)

\* No project is registered and no command runs at first.
LEMMA InitIInv == Init => IInv
<1> SUFFICES ASSUME Init PROVE IInv
  OBVIOUS
<1>1. TypeOK
  BY RegistryAssumption DEF Init, TypeOK, Records, RecordStates, NoRecord, SessionRecords, LaneRecords, Calls, Active
<1>2. OneProjectPerSession
  BY DEF Init, OneProjectPerSession, ProjectsOf, NoRecord, Active
<1>3. Locks
  BY DEF Init, Locks
<1> QED
  BY <1>1, <1>2, <1>3 DEF IInv

\* The clauses of TypeOK that a write of one record has to respect.
LEMMA SaveType ==
  ASSUME TypeOK, NEW p \in Projects, NEW r \in Records, Save(p, r),
         Registered(r)
  PROVE  /\ rec' \in [Projects -> Records]
         /\ \A q \in Projects : Registered(rec'[q])
  BY DEF TypeOK, Save, Active, Registered

\* claim writes a record,
LEMMA ClaimType ==
  ASSUME TypeOK, NEW call \in calls, Claim(call)
  PROVE  /\ rec' \in [Projects -> Records]
         /\ \A q \in Projects : Registered(rec'[q])
<1> DEFINE p == call.project
           s == call.session
           g == ClaimGeneration(p, s)
           r == [state |-> "authoritative", owner |-> s, generation |-> g,
                 successor |-> None, children |-> {}]
<1>1. p \in Projects /\ s \in Sessions
  BY DEF TypeOK, Calls, Claim
<1>2. rec[p].generation \in Nat /\ (Active(p) => rec[p].generation > 0)
  BY <1>1 DEF TypeOK, Records
<1>3. g \in Nat /\ g > 0
  BY <1>2 DEF ClaimGeneration
<1>4. r \in Records
  BY <1>1, <1>3 DEF Records, RecordStates
<1>5. Save(p, r) /\ Registered(r)
  BY <1>1, <1>3, RegistryAssumption DEF Claim, Registered
<1> QED
  BY <1>1, <1>4, <1>5, SaveType

\* and so does begin-transfer,
LEMMA BeginType ==
  ASSUME TypeOK, NEW call \in calls, Begin(call)
  PROVE  /\ rec' \in [Projects -> Records]
         /\ \A q \in Projects : Registered(rec'[q])
<1> DEFINE p == call.project
           r == [rec[p] EXCEPT !.state = "rotating", !.successor = call.session]
<1>1. p \in Projects /\ call.session \in Sessions
  BY DEF TypeOK, Calls, Begin
<1>2. rec[p] \in Records /\ rec[p].owner # None /\ rec[p].generation > 0
  BY <1>1 DEF TypeOK, Begin
<1>3. r \in Records /\ Registered(r)
  BY <1>1, <1>2, RegistryAssumption DEF Records, RecordStates, Registered
<1>4. Save(p, r)
  BY DEF Begin
<1> QED
  BY <1>1, <1>3, <1>4, SaveType

\* accept-transfer,
LEMMA AcceptType ==
  ASSUME TypeOK, NEW call \in calls, Accept(call)
  PROVE  /\ rec' \in [Projects -> Records]
         /\ \A q \in Projects : Registered(rec'[q])
<1> DEFINE p == call.project
           r == [state |-> "authoritative", owner |-> call.session,
                 generation |-> rec[p].generation + 1, successor |-> None,
                 children |-> call.found]
<1>1. p \in Projects /\ call.session \in Sessions /\ call.found \subseteq Lanes
  BY DEF TypeOK, Calls, Accept
<1>2. rec[p].generation \in Nat
  BY <1>1 DEF TypeOK, Records
<1>3. r \in Records /\ Registered(r)
  BY <1>1, <1>2, RegistryAssumption DEF Records, RecordStates, Registered
<1>4. Save(p, r)
  BY DEF Accept
<1> QED
  BY <1>1, <1>3, <1>4, SaveType

\* and a snapshot.
LEMMA SnapshotType ==
  ASSUME TypeOK, NEW call \in calls, Snapshot(call)
  PROVE  /\ rec' \in [Projects -> Records]
         /\ \A q \in Projects : Registered(rec'[q])
<1> DEFINE p == call.project
           r == [rec[p] EXCEPT !.children = call.children]
<1>1. p \in Projects /\ call.children \subseteq Lanes
  BY DEF TypeOK, Calls, Snapshot
<1>2. rec[p] \in Records /\ Registered(rec[p])
  BY <1>1 DEF TypeOK, Active, Registered
<1>3. r \in Records /\ Registered(r)
  BY <1>1, <1>2 DEF Records, Registered
<1>4. Save(p, r)
  BY DEF Snapshot
<1> QED
  BY <1>1, <1>3, <1>4, SaveType

\* Any number of records change their state to another that is registered, or lose
\* children that cannot be read.
Unseats ==
    /\ rec' \in [Projects -> Records]
    /\ \A p \in Projects :
          /\ rec'[p].owner = rec[p].owner
          /\ rec'[p].generation = rec[p].generation
          /\ rec'[p].successor = rec[p].successor
          /\ \/ rec'[p].children = rec[p].children
             \/ ReconcileActivity /\ rec'[p].children = {l \in rec[p].children : Readable(l)}
          /\ \/ rec'[p].state = rec[p].state
             \/ Active(p) /\ rec'[p].state \in {"authoritative", "needs-owner", "hold"}

\* The commands that work under the lock altogether.
LEMMA LockedWhole ==
  ASSUME TypeOK,
         \/ \E p \in Projects, s \in Sessions : Renew(p, s) \/ Hold(p, s)
         \/ \E p \in Projects : Resume(p)
         \/ ReconcileRotation
         \/ ReconcileActivity
  PROVE  Unseats /\ LockFree /\ UNCHANGED <<environment, calls>>
<1>0. rec \in [Projects -> Records]
  BY DEF TypeOK
<1>1. ASSUME NEW p \in Projects, NEW state \in {"authoritative", "needs-owner", "hold"},
             Active(p), Save(p, [rec[p] EXCEPT !.state = state])
      PROVE  Unseats
  BY <1>0, <1>1 DEF Unseats, Save, Records, RecordStates, Active
<1>2. ASSUME NEW p \in Projects, NEW s \in Sessions, Renew(p, s)
      PROVE  Unseats /\ LockFree /\ UNCHANGED <<environment, calls>>
  BY <1>1, <1>2 DEF Renew, Marked
<1>3. ASSUME NEW p \in Projects, NEW s \in Sessions, Hold(p, s)
      PROVE  Unseats /\ LockFree /\ UNCHANGED <<environment, calls>>
  BY <1>1, <1>3 DEF Hold
<1>4. ASSUME NEW p \in Projects, Resume(p)
      PROVE  Unseats /\ LockFree /\ UNCHANGED <<environment, calls>>
  BY <1>1, <1>4 DEF Resume, Active
<1>5. ASSUME ReconcileRotation
      PROVE  Unseats /\ LockFree /\ UNCHANGED <<environment, calls>>
  BY <1>0, <1>5 DEF ReconcileRotation, Unseats, Marked, Records, RecordStates, Active
<1>6. ASSUME ReconcileActivity
      PROVE  Unseats /\ LockFree /\ UNCHANGED <<environment, calls>>
  <2>1. PICK reached \in Sweeps :
           rec' = [p \in Projects |->
                     IF p \in reached /\ rec[p].state = "authoritative"
                     THEN Reconciled(rec[p]) ELSE rec[p]]
    BY <1>6 DEF ReconcileActivity
  <2>2. ASSUME NEW p \in Projects
        PROVE  LET left == {l \in rec[p].children : Readable(l)} IN
               \/ rec'[p] = rec[p]
               \/ rec'[p] = [rec[p] EXCEPT !.children = left]
               \/ /\ Active(p)
                  /\ rec'[p] = [rec[p] EXCEPT !.children = left, !.state = "needs-owner"]
    BY <1>0, <2>1 DEF Reconciled, Marked, Records, Active
  <2>3. ASSUME NEW p \in Projects
        PROVE  /\ rec'[p] \in Records
               /\ rec'[p].owner = rec[p].owner
               /\ rec'[p].generation = rec[p].generation
               /\ rec'[p].successor = rec[p].successor
               /\ \/ rec'[p].children = rec[p].children
                  \/ rec'[p].children = {l \in rec[p].children : Readable(l)}
               /\ \/ rec'[p].state = rec[p].state
                  \/ Active(p) /\ rec'[p].state \in {"authoritative", "needs-owner", "hold"}
    <3> DEFINE left == {l \in rec[p].children : Readable(l)}
    <3>1. rec[p] \in Records /\ left \in SUBSET Lanes
      BY <1>0 DEF Records
    <3>2. \/ rec'[p] = rec[p]
          \/ rec'[p] = [rec[p] EXCEPT !.children = left]
          \/ Active(p) /\ rec'[p] = [rec[p] EXCEPT !.children = left, !.state = "needs-owner"]
      BY <2>2
    <3> HIDE DEF left
    <3>3. /\ rec'[p] \in Records
          /\ rec'[p].owner = rec[p].owner
          /\ rec'[p].generation = rec[p].generation
          /\ rec'[p].successor = rec[p].successor
          /\ rec'[p].children = rec[p].children \/ rec'[p].children = left
          /\ \/ rec'[p].state = rec[p].state
             \/ Active(p) /\ rec'[p].state \in {"authoritative", "needs-owner", "hold"}
      BY <3>1, <3>2 DEF Records, RecordStates
    <3> QED
      BY <3>3 DEF left
  <2>4. rec' \in [Projects -> Records]
    BY <2>1, <2>3
  <2>5. Unseats
    BY <1>6, <2>3, <2>4 DEF Unseats
  <2> QED
    BY <1>6, <2>5 DEF ReconcileActivity
<1> QED
  BY <1>2, <1>3, <1>4, <1>5, <1>6

\* Commands between their checks and the lock keep their types.
LEMMA WaitType ==
  ASSUME TypeOK, NEW call \in Calls, Wait(call)
  PROVE  TypeOK'
  BY DEF TypeOK, Wait, environment, Active

\* Another call waits for the lock.
Joins == \E call \in Calls : call.kind # "adopt" /\ calls' = calls \cup {call}

\* The commands that check before they take the lock leave everything but calls alone.
LEMMA Checks ==
  ASSUME TypeOK,
         \/ \E p \in Projects, s \in Sessions :
               \/ CheckClaim(p, s)
               \/ \E successor \in Sessions : CheckBegin(p, s, successor)
               \/ CheckAccept(p, s)
         \/ \E p \in Projects : CheckSnapshot(p)
  PROVE  TypeOK' /\ UNCHANGED <<rec, environment>> /\ Joins
<1>1. ASSUME NEW p \in Projects, NEW s \in Sessions, CheckClaim(p, s)
      PROVE  TypeOK' /\ UNCHANGED <<rec, environment>> /\ Joins
  <2> DEFINE call == [kind |-> "claim", project |-> p, session |-> s, by |-> s, fits |-> TRUE]
  <2>1. call \in Calls /\ Wait(call)
    BY <1>1 DEF CheckClaim, Calls
  <2> QED
    BY <2>1, WaitType DEF Wait, Joins
<1>2. ASSUME NEW p \in Projects, NEW s \in Sessions, NEW successor \in Sessions,
             CheckBegin(p, s, successor)
      PROVE  TypeOK' /\ UNCHANGED <<rec, environment>> /\ Joins
  <2> DEFINE call == [kind |-> "begin", project |-> p, session |-> successor, by |-> s,
                      fits |-> TRUE]
  <2>1. call \in Calls /\ Wait(call)
    BY <1>2 DEF CheckBegin, Calls
  <2> QED
    BY <2>1, WaitType DEF Wait, Joins
<1>3. ASSUME NEW p \in Projects, NEW s \in Sessions, CheckAccept(p, s)
      PROVE  TypeOK' /\ UNCHANGED <<rec, environment>> /\ Joins
  <2> DEFINE call == [kind |-> "accept", project |-> p, session |-> s, by |-> s,
                      fits |-> Fits(s, p)]
  <2>1. call \in Calls /\ Wait(call)
    BY <1>3 DEF CheckAccept, Calls, Fits
  <2> QED
    BY <2>1, WaitType DEF Wait, Joins
<1>4. ASSUME NEW p \in Projects, CheckSnapshot(p)
      PROVE  TypeOK' /\ UNCHANGED <<rec, environment>> /\ Joins
  <2> DEFINE call == [kind |-> "snapshot", project |-> p,
                      children |-> {l \in Lanes : Readable(l) /\ BelongsTo(l, p)}]
  <2>1. call \in Calls /\ Wait(call)
    BY <1>4 DEF CheckSnapshot, Calls
  <2> QED
    BY <2>1, WaitType DEF Wait, Joins
<1> QED
  BY <1>1, <1>2, <1>3, <1>4

\* Sessions and lanes.
Surroundings ==
    \/ \E p \in Projects, s \in Sessions : Relabel(s, p)
    \/ \E s \in Sessions : Report(s) \/ \E life \in {"live", "ended", "archived"} : SetLife(s, life)
    \/ NewEpoch
    \/ \E l \in Lanes :
          \/ \E p \in Projects : Spawn(l, p)
          \/ \E life \in {"done", "archived"} : EndLane(l, life)
          \/ Glimpse(l)

\* What a step of Next comes to.
LEMMA Steps ==
  ASSUME TypeOK, Next
  PROVE  \/ \E call \in calls : Claim(call) /\ LockFree /\ Done(call) /\ UNCHANGED environment
         \/ \E call \in calls : Begin(call) /\ LockFree /\ Done(call) /\ UNCHANGED environment
         \/ \E call \in calls : Discover(call) /\ LockFree /\ UNCHANGED environment
         \/ \E call \in calls : Accept(call) /\ Done(call) /\ UNCHANGED environment
         \/ \E call \in calls : Snapshot(call) /\ LockFree /\ Done(call) /\ UNCHANGED environment
         \/ Unseats /\ LockFree /\ UNCHANGED <<environment, calls>>
         \/ TypeOK' /\ UNCHANGED <<rec, environment>> /\ Joins
         \/ \E call \in calls : Refused(call)
         \/ Surroundings
  BY LockedWhole, Checks DEF Next, Command, Locked, Surroundings

\* Sessions and lanes that change keep theirs.
LEMMA SurroundingsType ==
  ASSUME TypeOK, Surroundings
  PROVE  TypeOK' /\ UNCHANGED <<rec, calls>>
<1>1. ASSUME NEW p \in Projects, NEW s \in Sessions, Relabel(s, p)
      PROVE  TypeOK' /\ UNCHANGED <<rec, calls>>
  BY <1>1 DEF TypeOK, Relabel, SessionRecords, Active
<1>2. ASSUME NEW s \in Sessions, Report(s)
      PROVE  TypeOK' /\ UNCHANGED <<rec, calls>>
  BY <1>2 DEF TypeOK, Report, SessionRecords, Active
<1>3. ASSUME NEW s \in Sessions, NEW life \in {"live", "ended", "archived"}, SetLife(s, life)
      PROVE  TypeOK' /\ UNCHANGED <<rec, calls>>
  BY <1>3 DEF TypeOK, SetLife, SessionRecords, Active
<1>4. ASSUME NewEpoch
      PROVE  TypeOK' /\ UNCHANGED <<rec, calls>>
  BY <1>4 DEF TypeOK, NewEpoch, SessionRecords, Active
<1>5. ASSUME NEW l \in Lanes, NEW p \in Projects, Spawn(l, p)
      PROVE  TypeOK' /\ UNCHANGED <<rec, calls>>
  <2>1. rec[p].owner \in Sessions \cup {None}
    BY <1>5 DEF TypeOK, Records
  <2> QED
    BY <1>5, <2>1 DEF TypeOK, Spawn, LaneRecords, Active
<1>6. ASSUME NEW l \in Lanes, NEW life \in {"done", "archived"}, EndLane(l, life)
      PROVE  TypeOK' /\ UNCHANGED <<rec, calls>>
  BY <1>6 DEF TypeOK, EndLane, LaneRecords, Active
<1>7. ASSUME NEW l \in Lanes, Glimpse(l)
      PROVE  TypeOK' /\ UNCHANGED <<rec, calls>>
  BY <1>7 DEF TypeOK, Glimpse, LaneRecords, Active
<1> QED
  BY <1>1, <1>2, <1>3, <1>4, <1>5, <1>6, <1>7 DEF Surroundings

\* Every step keeps the types.
LEMMA NextTypeOK ==
  ASSUME TypeOK, [Next]_vars
  PROVE  TypeOK'
<1>1. ASSUME NEW call \in calls, Done(call), UNCHANGED environment,
             rec' \in [Projects -> Records],
             \A q \in Projects : Registered(rec'[q])
      PROVE  TypeOK'
  BY <1>1 DEF TypeOK, Done, environment, Active, Registered
<1>2. ASSUME Unseats, UNCHANGED <<environment, calls>>
      PROVE  TypeOK'
  BY <1>2 DEF TypeOK, Unseats, environment, Active
<1>3. ASSUME NEW call \in calls, Refused(call)
      PROVE  TypeOK'
  BY <1>3 DEF TypeOK, Refused, Done, environment, Active
<1>4. ASSUME NEW call \in calls, Discover(call), UNCHANGED environment
      PROVE  TypeOK'
  <2>1. call.project \in Projects /\ call.session \in Sessions
    BY <1>4 DEF TypeOK, Calls, Discover
  <2>2. [kind |-> "adopt", project |-> call.project, session |-> call.session,
         found |-> Found(rec[call.project].owner), missed |-> Missed(rec[call.project].owner)] \in Calls
    BY <2>1 DEF Calls, Found, Missed, LanesOf
  <2>3. calls' \subseteq Calls /\ rec' = rec
    BY <1>4, <2>2 DEF TypeOK, Discover
  <2> QED
    BY <1>4, <2>3 DEF TypeOK, environment, Active
<1>5. CASE UNCHANGED vars
  BY <1>5 DEF TypeOK, vars, environment, Active
<1>6. CASE Next
  BY <1>1, <1>2, <1>3, <1>4, <1>6, Steps, ClaimType, BeginType, AcceptType, SnapshotType,
     SurroundingsType
<1> QED
  BY <1>5, <1>6

\* Every step gives one project to a session that may have it, or nobody anything.
LEMMA StepsWithdrawOrGive ==
  ASSUME IInv, [Next]_vars
  PROVE  Withdraws \/ \E s \in Sessions, p \in Projects : Gives(s, p)
<1>0. TypeOK /\ rec \in [Projects -> Records]
  BY DEF IInv, TypeOK
<1>1. ASSUME NEW call \in calls, Claim(call)
      PROVE  Gives(call.session, call.project) /\ call.session \in Sessions /\ call.project \in Projects
  <2>1. call.session \in Sessions /\ call.project \in Projects
    BY <1>0, <1>1 DEF TypeOK, Calls, Claim
  <2>2. NoOtherProject(call.session, call.project)
    BY <1>1 DEF Claim, ClaimRefused
  <2>3. \A q \in Projects \ {call.project} : rec'[q] = rec[q]
    BY <1>0, <1>1 DEF Claim, Save
  <2>4. /\ rec'[call.project].state = "authoritative"
        /\ rec'[call.project].owner = call.session
    BY <1>0, <1>1, <2>1 DEF Claim, Save
  <2> QED
    BY <2>1, <2>2, <2>3, <2>4 DEF Gives, ProjectsOf, Active
<1>2. ASSUME NEW call \in calls, Begin(call)
      PROVE  Gives(call.session, call.project) /\ call.session \in Sessions /\ call.project \in Projects
  <2>1. call.session \in Sessions /\ call.project \in Projects
    BY <1>0, <1>2 DEF TypeOK, Calls, Begin
  <2>2. NoOtherProject(call.session, call.project) /\ Active(call.project)
    BY <1>2 DEF Begin
  <2>3. \A q \in Projects \ {call.project} : rec'[q] = rec[q]
    BY <1>0, <1>2 DEF Begin, Save
  <2>4. /\ rec'[call.project].owner = rec[call.project].owner
        /\ rec'[call.project].successor = call.session
    BY <1>0, <1>2, <2>1 DEF Begin, Save, Records
  <2> QED
    BY <2>1, <2>2, <2>3, <2>4 DEF Gives, ProjectsOf, Active
<1>3. ASSUME NEW call \in calls, Accept(call)
      PROVE  Gives(call.session, call.project) /\ call.session \in Sessions /\ call.project \in Projects
  <2>1. call.session \in Sessions /\ call.project \in Projects
    BY <1>0, <1>3 DEF TypeOK, Calls, Accept
  <2>2. NoOtherProject(call.session, call.project)
    BY <1>3 DEF IInv, Locks, Relies, Accept
  <2>3. \A q \in Projects \ {call.project} : rec'[q] = rec[q]
    BY <1>0, <1>3 DEF Accept, Save
  <2>4. /\ rec'[call.project].state = "authoritative"
        /\ rec'[call.project].owner = call.session
    BY <1>0, <1>3, <2>1 DEF Accept, Save
  <2> QED
    BY <2>1, <2>2, <2>3, <2>4 DEF Gives, ProjectsOf, Active
<1>4. ASSUME NEW call \in calls, Snapshot(call)
      PROVE  Withdraws
  <2>1. \A q \in Projects : /\ rec'[q].state = rec[q].state
                            /\ rec'[q].owner = rec[q].owner
                            /\ rec'[q].successor = rec[q].successor
    BY <1>0, <1>4 DEF Snapshot, Save, Records
  <2> QED
    BY <2>1 DEF Withdraws, ProjectsOf, Active
<1>5. ASSUME Unseats
      PROVE  Withdraws
  BY <1>5 DEF Unseats, Withdraws, ProjectsOf, Active
<1>6. ASSUME UNCHANGED rec
      PROVE  Withdraws
  BY <1>6 DEF Withdraws, ProjectsOf, Active
<1>7. CASE UNCHANGED vars
  BY <1>6, <1>7 DEF vars
<1>8. CASE Next
  BY <1>0, <1>1, <1>2, <1>3, <1>4, <1>5, <1>6, <1>8, Steps, SurroundingsType DEF Refused, Discover
<1> QED
  BY <1>7, <1>8

\* What a call relies on stays while the registry does and its lanes do not grow.
LEMMA ReliesKept ==
  ASSUME NEW c, UNCHANGED rec,
         (LanesOf(rec[c.project].owner) \cap LiveLanes)' \subseteq LanesOf(rec[c.project].owner) \cap LiveLanes
  PROVE  Relies(c) => Relies(c)'
<1>1. ProjectsOf(c.session)' = ProjectsOf(c.session)
  BY DEF ProjectsOf, Active
<1> QED
  BY <1>1 DEF Relies, NoOtherProject

\* Nobody gets another lane under a coordinator whose transfer is open: lanes are admitted
\* in the name of an authoritative one, who owns no second project.
LEMMA LanesStay ==
  ASSUME IInv, Surroundings, NEW p \in Projects, rec[p].state = "rotating"
  PROVE  (LanesOf(rec[p].owner) \cap LiveLanes)' \subseteq LanesOf(rec[p].owner) \cap LiveLanes
<1>1. rec' = rec /\ TypeOK /\ lane \in [Lanes -> LaneRecords]
  BY SurroundingsType DEF IInv, TypeOK
<1>2. CASE UNCHANGED lane
  BY <1>1, <1>2 DEF LanesOf, LiveLanes
<1>3. ASSUME NEW l \in Lanes, NEW q \in Projects, Spawn(l, q)
      PROVE  (LanesOf(rec[p].owner) \cap LiveLanes)' \subseteq LanesOf(rec[p].owner) \cap LiveLanes
  <2>1. rec[p].owner \in Sessions /\ rec[q].owner \in Sessions /\ rec[q].state = "authoritative"
    BY <1>1, <1>3, RegistryAssumption DEF Spawn, Live, TypeOK, Records, Active
  <2>2. rec[q].owner # rec[p].owner
    BY <2>1 DEF IInv, OneProjectPerSession, ProjectsOf, Active
  <2>3. \A m \in Lanes : m # l => lane'[m] = lane[m]
    BY <1>1, <1>3 DEF Spawn
  <2>4. lane'[l].parent = rec[q].owner
    BY <1>1, <1>3 DEF Spawn
  <2> QED
    BY <1>1, <2>2, <2>3, <2>4 DEF LanesOf, LiveLanes
<1>4. ASSUME NEW l \in Lanes, \/ Glimpse(l)
                              \/ \E life \in {"done", "archived"} : EndLane(l, life)
      PROVE  (LanesOf(rec[p].owner) \cap LiveLanes)' \subseteq LanesOf(rec[p].owner) \cap LiveLanes
  <2>1. \A m \in Lanes : lane'[m].parent = lane[m].parent /\ (lane'[m].life = "live" => lane[m].life = "live")
    BY <1>1, <1>4 DEF Glimpse, EndLane, LaneRecords
  <2> QED
    BY <1>1, <2>1 DEF LanesOf, LiveLanes
<1> QED
  BY <1>2, <1>3, <1>4 DEF Surroundings, Relabel, Report, SetLife, NewEpoch

\* The lock is held by one accept-transfer at most, and keeps what it relies on.
LEMMA LocksKept ==
  ASSUME IInv, [Next]_vars
  PROVE  Locks'
<1>0. TypeOK /\ Locks
  BY DEF IInv
<1>1. ASSUME calls' \subseteq calls, LockFree
      PROVE  Locks'
  BY <1>1 DEF Locks, LockFree
<1>2. ASSUME UNCHANGED <<rec, environment>>,
             \A c \in calls' : c.kind = "adopt" => c \in calls
      PROVE  Locks'
  <2>1. UNCHANGED lane
    BY <1>2 DEF environment
  <2>2. \A c \in calls : Relies(c) => Relies(c)'
    BY <1>2, <2>1, ReliesKept DEF LanesOf, LiveLanes
  <2> QED
    BY <1>0, <1>2, <2>2 DEF Locks
<1>3. ASSUME NEW call \in calls, Discover(call), LockFree, UNCHANGED environment
      PROVE  Locks'
  <2>1. PICK c : c = [kind |-> "adopt", project |-> call.project, session |-> call.session,
                      found |-> Found(rec[call.project].owner),
                      missed |-> Missed(rec[call.project].owner)]
    OBVIOUS
  <2>2. calls' = (calls \ {call}) \cup {c} /\ rec' = rec /\ lane' = lane
    BY <1>3, <2>1 DEF Discover, environment
  <2>3. Relies(c)
    BY <1>3, <2>1 DEF Discover, Relies, Adoptable, Found, Missed
  <2>4. Relies(c)'
    BY <2>2, <2>3, ReliesKept DEF LanesOf, LiveLanes
  <2> QED
    BY <1>3, <2>2, <2>4 DEF Locks, LockFree
<1>4. ASSUME NEW call \in calls, Accept(call), Done(call)
      PROVE  Locks'
  <2>1. call.kind = "adopt" /\ calls' = calls \ {call}
    BY <1>4 DEF Accept, Done
  <2> QED
    BY <1>0, <2>1 DEF Locks
<1>5. ASSUME Surroundings
      PROVE  Locks'
  <2>1. UNCHANGED <<rec, calls>>
    BY <1>0, <1>5, SurroundingsType
  <2>2. ASSUME NEW c \in calls, c.kind = "adopt"
        PROVE  Relies(c)'
    <3>1. Relies(c) /\ c.project \in Projects
      BY <1>0, <2>2 DEF Locks, TypeOK, Calls
    <3>2. rec[c.project].state = "rotating"
      BY <3>1 DEF Relies
    <3> QED
      BY <1>5, <2>1, <3>1, <3>2, LanesStay, ReliesKept
  <2> QED
    BY <1>0, <2>1, <2>2 DEF Locks
<1>6. CASE UNCHANGED vars
  <2>1. UNCHANGED <<rec, environment, calls>>
    BY <1>6 DEF vars, environment
  <2> QED
    BY <1>2, <2>1
<1>7. CASE Next
  <2>1. \A call \in calls : Done(call) => calls' \subseteq calls
    BY DEF Done
  <2>2. Joins => \A c \in calls' : c.kind = "adopt" => c \in calls
    BY DEF Joins
  <2> QED
    BY <1>0, <1>1, <1>2, <1>3, <1>4, <1>5, <1>7, <2>1, <2>2, Steps DEF Refused
<1> QED
  BY <1>6, <1>7

\* Every step keeps the invariant.
LEMMA NextIInv ==
  ASSUME IInv, [Next]_vars
  PROVE  IInv'
<1>1. TypeOK' /\ Locks'
  BY NextTypeOK, LocksKept DEF IInv
<1>2. CASE Withdraws
  <2>1. OneProjectPerSession'
    BY <1>2 DEF IInv, OneProjectPerSession, Withdraws
  <2> QED
    BY <1>1, <2>1 DEF IInv
<1>3. ASSUME NEW s \in Sessions, NEW p \in Projects, Gives(s, p)
      PROVE  IInv'
  <2>1. ProjectsOf(s)' \subseteq {p}
    BY <1>3 DEF Gives, NoOtherProject
  <2>2. \A t \in Sessions \ {s} : ProjectsOf(t)' \subseteq ProjectsOf(t)
    BY <1>3 DEF Gives
  <2>3. OneProjectPerSession'
    BY <2>1, <2>2 DEF IInv, OneProjectPerSession
  <2> QED
    BY <1>1, <2>3 DEF IInv
<1> QED
  BY <1>2, <1>3, StepsWithdrawOrGive DEF IInv

\* The inductive invariant holds in every reachable state.
THEOREM Invariance == Spec => []IInv
  BY InitIInv, NextIInv, PTL DEF Spec

\* The registry keeps its shape, a registered project has an owner in a positive
\* generation, and an open transfer has a successor.
THEOREM TypeCorrect == Spec => []TypeOK
<1>1. IInv => TypeOK
  BY DEF IInv
<1> QED
  BY <1>1, Invariance, PTL

\* refuse_cross_project suffices: no session ever answers for two projects, although
\* the manifests of claim and begin-transfer are checked before the lock is taken.
THEOREM OneProjectAlways == Spec => []OneProjectPerSession
<1>1. IInv => OneProjectPerSession
  BY DEF IInv
<1> QED
  BY <1>1, Invariance, PTL

-----------------------------------------------------------------------------
(* Action properties *)

\* How a step may change the owner of project p.
OwnerStep(p) ==
    /\ rec'[p].generation >= rec[p].generation
    /\ rec'[p].owner # rec[p].owner =>
          /\ rec'[p].generation > rec[p].generation
          /\ Active(p) => \/ ~Live(rec[p].owner)
                          \/ rec[p].state = "rotating" /\ rec[p].successor = rec'[p].owner

\* What each step may do to the generation and the owner of a project.
LEMMA OwnerSteps ==
  ASSUME IInv, [Next]_vars, NEW p \in Projects
  PROVE  OwnerStep(p)
<1>0. TypeOK /\ rec \in [Projects -> Records] /\ rec[p].generation \in Nat
  BY DEF IInv, TypeOK, Records
<1>1. ASSUME rec'[p].owner = rec[p].owner, rec'[p].generation = rec[p].generation
      PROVE  OwnerStep(p)
  BY <1>0, <1>1 DEF OwnerStep
<1>2. ASSUME NEW call \in calls, Claim(call)
      PROVE  OwnerStep(p)
  <2>1. CASE p # call.project
    <3>1. rec'[p] = rec[p]
      BY <1>0, <1>2, <2>1 DEF Claim, Save
    <3> QED
      BY <1>1, <3>1
  <2>2. CASE p = call.project
    <3>1. /\ rec'[p].owner = call.session
          /\ rec'[p].generation = ClaimGeneration(p, call.session)
      BY <1>0, <1>2, <2>2 DEF Claim, Save
    <3>2. Active(p) /\ rec[p].owner # call.session => ~Live(rec[p].owner)
      BY <1>2, <2>2 DEF Claim, ClaimRefused
    <3> QED
      BY <1>0, <3>1, <3>2 DEF OwnerStep, ClaimGeneration
  <2> QED
    BY <2>1, <2>2
<1>3. ASSUME NEW call \in calls, Begin(call) \/ Snapshot(call)
      PROVE  OwnerStep(p)
  <2>1. rec'[p].owner = rec[p].owner /\ rec'[p].generation = rec[p].generation
    <3>1. CASE Begin(call)
      BY <1>0, <3>1 DEF Begin, Save, Records
    <3>2. CASE Snapshot(call)
      BY <1>0, <3>2 DEF Snapshot, Save, Records
    <3> QED
      BY <1>3, <3>1, <3>2
  <2> QED
    BY <1>1, <2>1
<1>4. ASSUME NEW call \in calls, Accept(call)
      PROVE  OwnerStep(p)
  <2>1. CASE p # call.project
    <3>1. rec'[p] = rec[p]
      BY <1>0, <1>4, <2>1 DEF Accept, Save
    <3> QED
      BY <1>1, <3>1
  <2>2. CASE p = call.project
    <3>1. /\ rec'[p].owner = call.session
          /\ rec'[p].generation = rec[p].generation + 1
          /\ rec[p].state = "rotating" /\ rec[p].successor = call.session
      BY <1>0, <1>4, <2>2 DEF Accept, Save, IInv, Locks, Relies
    <3> QED
      BY <1>0, <3>1 DEF OwnerStep
  <2> QED
    BY <2>1, <2>2
<1>5. CASE Unseats
  BY <1>1, <1>5 DEF Unseats
<1>6. CASE UNCHANGED rec
  BY <1>1, <1>6
<1>7. CASE UNCHANGED vars
  BY <1>6, <1>7 DEF vars
<1>8. CASE Next
  BY <1>0, <1>2, <1>3, <1>4, <1>5, <1>6, <1>8, Steps, SurroundingsType DEF Refused, Discover
<1> QED
  BY <1>7, <1>8

\* A project never has two owners in one generation, so that naming a coordinator by
\* session and generation, as every other script does, is unambiguous.
THEOREM GenerationFences == Spec => GenerationFencesOwner
<1>1. IInv /\ [Next]_vars =>
        [\A p \in Projects :
            /\ rec'[p].generation >= rec[p].generation
            /\ rec'[p].owner # rec[p].owner => rec'[p].generation > rec[p].generation]_vars
  BY OwnerSteps DEF OwnerStep
<1> QED
  BY <1>1, Invariance, PTL DEF Spec, GenerationFencesOwner

\* A live owner loses its project only to the successor it began a transfer to.
THEOREM TakeoversJustified == Spec => TakeoverJustified
<1>1. IInv /\ [Next]_vars =>
        [\A p \in Projects :
            Active(p) /\ rec'[p].owner # rec[p].owner =>
                \/ ~Live(rec[p].owner)
                \/ rec[p].state = "rotating" /\ rec[p].successor = rec'[p].owner]_vars
  BY OwnerSteps DEF OwnerStep
<1> QED
  BY <1>1, Invariance, PTL DEF Spec, TakeoverJustified

\* The lanes project p loses sight of while they live.
Forgets(p) == \E l \in Known(p) : l \in LiveLanes' /\ l \notin Known(p)'

\* Records are the same or only their state and the lanes that are gone differ.
LEMMA UnseatsForgetsNothing ==
  ASSUME TypeOK, NEW p \in Projects, UNCHANGED lane,
         rec'[p].owner = rec[p].owner,
         \A l \in rec[p].children : lane[l].life = "live" => l \in rec'[p].children
  PROVE  ~Forgets(p)
  BY DEF Forgets, Known, LiveLanes, LanesOf

\* A lane that changes by itself is not forgotten,
LEMMA LanesForgetNothing ==
  ASSUME TypeOK, NEW p \in Projects, UNCHANGED rec, lane' \in [Lanes -> LaneRecords],
         \A l \in LiveLanes : lane'[l].parent = lane[l].parent /\ lane'[l].project = lane[l].project
  PROVE  ~Forgets(p)
  BY DEF Forgets, Known, LiveLanes, LanesOf

\* nor is any when a session changes.
LEMMA SurroundingsForgetNothing ==
  ASSUME TypeOK, NEW p \in Projects, Surroundings
  PROVE  ~Forgets(p)
<1>1. lane' \in [Lanes -> LaneRecords] /\ UNCHANGED rec
  BY SurroundingsType DEF TypeOK
<1>2. \A l \in LiveLanes : lane'[l].parent = lane[l].parent /\ lane'[l].project = lane[l].project
  <2>1. lane \in [Lanes -> LaneRecords]
    BY DEF TypeOK
  <2>2. CASE UNCHANGED lane
    BY <2>2
  <2>3. ASSUME NEW l \in Lanes, NEW q \in Projects, Spawn(l, q)
        PROVE  \A m \in LiveLanes : lane'[m].parent = lane[m].parent /\ lane'[m].project = lane[m].project
    BY <2>1, <2>3 DEF Spawn, LiveLanes
  <2>4. ASSUME NEW l \in Lanes, NEW life \in {"done", "archived"}, EndLane(l, life)
        PROVE  \A m \in LiveLanes : lane'[m].parent = lane[m].parent /\ lane'[m].project = lane[m].project
    BY <2>1, <2>4 DEF EndLane, LiveLanes, LaneRecords
  <2>5. ASSUME NEW l \in Lanes, Glimpse(l)
        PROVE  \A m \in LiveLanes : lane'[m].parent = lane[m].parent /\ lane'[m].project = lane[m].project
    BY <2>1, <2>5 DEF Glimpse, LiveLanes, LaneRecords
  <2> QED
    BY <2>2, <2>3, <2>4, <2>5 DEF Surroundings, Relabel, Report, SetLife, NewEpoch
<1> QED
  BY <1>1, <1>2, LanesForgetNothing

\* The successor's children are all the lanes that were found, and what was known was found
\* or could not be seen.
LEMMA AcceptForgets ==
  ASSUME IInv, NEW p \in Projects, NEW call \in calls, Accept(call), UNCHANGED lane,
         NEW l \in Known(p), l \notin Known(p)'
  PROVE  l \in call.missed
<1>0. TypeOK /\ rec \in [Projects -> Records] /\ l \in LiveLanes
  BY DEF IInv, TypeOK, Known
<1>1. CASE p # call.project
  <2>1. rec'[p] = rec[p]
    BY <1>0, <1>1 DEF Accept, Save
  <2> QED
    BY <1>0, <2>1, UnseatsForgetsNothing DEF Forgets, LiveLanes
<1>2. CASE p = call.project
  <2>1. /\ rec[p].children \subseteq call.found
        /\ LanesOf(rec[p].owner) \cap LiveLanes \subseteq call.found \cup call.missed
    BY <1>2 DEF Accept, IInv, Locks, Relies
  <2>2. rec'[p].children = call.found /\ rec'[p].owner = call.session
    BY <1>0, <1>2 DEF Accept, Save
  <2>3. call.session # None
    BY <1>0, RegistryAssumption DEF TypeOK, Calls, Accept
  <2>4. l \in call.found \cup call.missed
    BY <1>0, <2>1 DEF Known
  <2>5. l \in call.found => l \in Known(p)'
    BY <1>0, <2>2, <2>3 DEF Known, LiveLanes
  <2> QED
    BY <2>4, <2>5
<1> QED
  BY <1>1, <1>2

\* A lane that is lost was claimed or written away, or could not be read.
LEMMA LossHasCause ==
  ASSUME IInv, [Next]_vars, NEW p \in Projects, NEW l \in Known(p), l \in LiveLanes', l \notin Known(p)'
  PROVE  \/ \E call \in calls : Claim(call) \/ Snapshot(call)
         \/ \E call \in calls : Accept(call) /\ l \in call.missed
         \/ ReconcileActivity /\ ~lane[l].visible
<1>0. TypeOK /\ rec \in [Projects -> Records] /\ l \in LiveLanes /\ Forgets(p)
  BY DEF IInv, TypeOK, Known, Forgets
<1>1. ASSUME NEW call \in calls, Begin(call), UNCHANGED lane
      PROVE  FALSE
  <2>1. rec'[p].owner = rec[p].owner /\ rec'[p].children = rec[p].children
    BY <1>0, <1>1 DEF Begin, Save, Records
  <2> QED
    BY <1>0, <1>1, <2>1, UnseatsForgetsNothing
<1>2. ASSUME Unseats, UNCHANGED lane
      PROVE  ReconcileActivity /\ ~lane[l].visible
  <2>1. rec'[p].owner = rec[p].owner
    BY <1>2 DEF Unseats
  <2>2. l \in rec[p].children /\ l \notin rec'[p].children
    BY <1>2, <2>1 DEF Known, LiveLanes, LanesOf
  <2>3. ReconcileActivity /\ ~Readable(l)
    BY <1>2, <2>2 DEF Unseats
  <2> QED
    BY <1>0, <2>3 DEF Readable, LiveLanes
<1>3. ASSUME UNCHANGED <<rec, lane>>
      PROVE  FALSE
  BY <1>0, <1>3, UnseatsForgetsNothing
<1>4. ASSUME Surroundings
      PROVE  FALSE
  BY <1>0, <1>4, SurroundingsForgetNothing
<1>5. CASE UNCHANGED vars
  BY <1>3, <1>5 DEF vars, environment
<1>6. CASE Next
  BY <1>0, <1>1, <1>2, <1>3, <1>4, <1>6, Steps, AcceptForgets DEF Refused, Discover, environment
<1> QED
  BY <1>5, <1>6

\* Transfers, holds and sweeps keep every live lane in sight, but for one whose manifest the
\* sweep or the search of accept-transfer could not read, which the property excepts with
\* claims and snapshots.
THEOREM LanesKept == Spec => LanesLostForCause
<1>1. IInv /\ [Next]_vars =>
        [\A p \in Projects :
            \A l \in Known(p) :
                l \in LiveLanes' /\ l \notin Known(p)' =>
                    \/ \E call \in calls : Claim(call) \/ Snapshot(call)
                    \/ \E call \in calls : Accept(call) /\ l \in call.missed
                    \/ ReconcileActivity /\ ~lane[l].visible]_vars
  BY LossHasCause
<1> QED
  BY <1>1, Invariance, PTL DEF Spec, LanesLostForCause

=============================================================================
