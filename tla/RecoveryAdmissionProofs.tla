------------------------ MODULE RecoveryAdmissionProofs ------------------------
(***************************************************************************)
(* Proofs about RecoveryAdmission, for any kinds of condition and any      *)
(* bounds.  What every step does to a lane's record, to the envelopes and  *)
(* to the recoveries is said once (Effect); the invariants follow from     *)
(* that and from what the record means to the envelopes.                   *)
(***************************************************************************)
EXTENDS RecoveryAdmission, FiniteSetTheorems, TLAPS

-----------------------------------------------------------------------------
(* Constants and records *)

\* The largest number of revisions is one, and none is larger.
LEMMA MaxRevIsMax ==
    ASSUME AdmissionAssumption, NEW k \in Kinds
    PROVE  MaxRev \in Nat /\ RevsOf[k] \in Nat /\ RevsOf[k] <= MaxRev
  <1> DEFINE S == {RevsOf[i] : i \in Kinds}
  <1>1. \A i \in Kinds : RevsOf[i] \in Nat /\ i \in {"routine", "complex"}
    BY DEF AdmissionAssumption
  <1>2. \E n \in S : \A i \in Kinds : RevsOf[i] <= n
    <2>1. CASE \A i \in Kinds : RevsOf[i] <= RevsOf[k]
      BY <2>1
    <2>2. ASSUME NEW j \in Kinds, ~(RevsOf[j] <= RevsOf[k])
          PROVE  \A i \in Kinds : RevsOf[i] <= RevsOf[j]
      <3>1. RevsOf[k] <= RevsOf[j] /\ j # k /\ RevsOf[j] <= RevsOf[j]
        BY <1>1, <2>2
      <3>2. \A i \in Kinds : i = j \/ i = k
        BY <1>1, <3>1
      <3> QED BY <3>1, <3>2
    <2> QED BY <2>1, <2>2
  <1>3. MaxRev \in S /\ \A i \in Kinds : RevsOf[i] <= MaxRev
    BY <1>2 DEF MaxRev
  <1> QED BY <1>1, <1>3

\* The fields of a record.
LEMMA RecordType ==
    ASSUME NEW r \in Records
    PROVE  /\ r.phase \in Phases /\ r.gen \in Gens /\ r.key \in 0..MaxRev /\ r.fp \in 0..MaxRev
           /\ r.rewakes \in 0..MaxRewakes /\ r.probes \in Nat
           /\ r.recovered \in BOOLEAN /\ r.repaired \in BOOLEAN
  BY DEF Records

\* No record is one.
LEMMA NoRecordType ==
    ASSUME AdmissionAssumption, MaxRev \in Nat
    PROVE  /\ NoRecord \in Records /\ NoRecord.phase = "none" /\ NoRecord.gen = 0 /\ NoRecord.key = 0
           /\ NoRecord.rewakes = 0 /\ NoRecord.probes = 0 /\ ~NoRecord.recovered
  BY DEF NoRecord, Records, Phases, Outstanding, Gens, AdmissionAssumption

\* A record like r, but for the phase.
Like(p, r) ==
    /\ p \in Records /\ p.gen = r.gen /\ p.key = r.key /\ p.fp = r.fp /\ p.rewakes = r.rewakes
    /\ p.recovered = r.recovered

\* A record with another phase is like it.
LEMMA PhaseLike ==
    ASSUME NEW r \in Records, NEW ph \in Phases
    PROVE  Like([r EXCEPT !.phase = ph], r) /\ [r EXCEPT !.phase = ph].phase = ph
           /\ [r EXCEPT !.phase = ph].probes = r.probes
  BY DEF Like, Records

\* Blocked, Consumed and Deferred change the phase, and the probes.
LEMMA BlockedLike ==
    ASSUME NEW r \in Records
    PROVE  Like(Blocked(r), r) /\ Blocked(r).phase = "blocked"
  BY PhaseLike DEF Blocked, Phases

\* A consumed record is like the one that waited.
LEMMA ConsumedLike ==
    ASSUME NEW r \in Records
    PROVE  Like(Consumed(r), r) /\ Consumed(r).phase = "consumed"
  BY PhaseLike DEF Consumed, Phases

\* A deferred one is blocked or waits for the next probe.
LEMMA DeferredLike ==
    ASSUME NEW r \in Records
    PROVE  Like(Deferred(r), r) /\ Deferred(r).phase \in {"blocked", "probe-deferred"}
  <1> DEFINE p1 == [r EXCEPT !.probes = r.probes + 1]
             ph == IF r.probes + 1 >= MaxProbes THEN "blocked" ELSE "probe-deferred"
             p2 == [p1 EXCEPT !.phase = ph]
  <1>1. Like(p1, r)
    BY DEF Like, Records
  <1>2. ph \in Phases /\ ph \in {"blocked", "probe-deferred"}
    BY DEF Phases
  <1>3. Deferred(r) = p2
    BY DEF Deferred
  <1> HIDE DEF p1, ph
  <1>4. Like(p2, p1) /\ p2.phase = ph
    BY <1>1, <1>2, PhaseLike DEF Like
  <1> QED BY <1>1, <1>2, <1>3, <1>4 DEF Like

\* Recovered sets its mark and nothing else.
LEMMA RecoveredRecord ==
    ASSUME NEW r \in Records
    PROVE  /\ Recovered(r) \in Records /\ Recovered(r).phase = r.phase /\ Recovered(r).gen = r.gen
           /\ Recovered(r).key = r.key /\ Recovered(r).fp = r.fp /\ Recovered(r).recovered
  BY DEF Recovered, Records

\* The mark of a repair does not concern the other fields.
LEMMA RepairedLike ==
    ASSUME NEW r \in Records
    PROVE  Like([r EXCEPT !.repaired = TRUE], r) /\ [r EXCEPT !.repaired = TRUE].phase = r.phase
  BY DEF Like, Records

\* What a batch brings.
LEMMA CoalescedRecord ==
    ASSUME NEW r \in Records, NEW b \in Batches
    PROVE  /\ Coalesced(r, b) \in Records /\ Coalesced(r, b).phase = r.phase /\ Coalesced(r, b).gen = r.gen
           /\ Coalesced(r, b).key = r.key /\ Coalesced(r, b).recovered = r.recovered
           /\ Coalesced(r, b).fp \in {r.fp, b.fp}
  BY DEF Coalesced, Records, Batches

\* The record of a new cycle.
Fresh(p, b) == p \in Records /\ p.gen = b.gen /\ p.key = b.fp /\ p.fp = b.fp /\ ~p.recovered

\* prepared_cycle makes one, re-wakes and probes may be carried over to it.
LEMMA PreparedFresh ==
    ASSUME AdmissionAssumption, MaxRev \in Nat, NEW b \in Batches
    PROVE  Fresh(Prepared(b), b) /\ Prepared(b).phase = "prepared"
  <1> DEFINE p1 == [NoRecord EXCEPT !.phase = "prepared"]
             p2 == [p1 EXCEPT !.gen = b.gen]
             p3 == [p2 EXCEPT !.key = b.fp]
             p4 == [p3 EXCEPT !.fp = b.fp]
  <1>0. b.gen \in Gens /\ b.fp \in 0..MaxRev
    BY DEF Batches
  <1>1. p1 \in Records /\ p1.phase = "prepared" /\ ~p1.recovered
    BY NoRecordType DEF Records, Phases, Outstanding
  <1>2. p2 \in Records /\ p2.phase = "prepared" /\ ~p2.recovered /\ p2.gen = b.gen
    <2> HIDE DEF p1
    <2> QED BY <1>0, <1>1 DEF Records
  <1>3. p3 \in Records /\ p3.phase = "prepared" /\ ~p3.recovered /\ p3.gen = b.gen /\ p3.key = b.fp
    <2> HIDE DEF p2
    <2> QED BY <1>0, <1>2 DEF Records
  <1>4. /\ p4 \in Records /\ p4.phase = "prepared" /\ ~p4.recovered /\ p4.gen = b.gen /\ p4.key = b.fp
        /\ p4.fp = b.fp
    <2> HIDE DEF p3
    <2> QED BY <1>0, <1>3 DEF Records
  <1>5. Prepared(b) = p4
    BY DEF Prepared
  <1> QED BY <1>4, <1>5 DEF Fresh

\* A re-wake is one.
LEMMA RewokenFresh ==
    ASSUME AdmissionAssumption, MaxRev \in Nat, NEW b \in Batches, NEW n \in 0..MaxRewakes
    PROVE  /\ Fresh([Prepared(b) EXCEPT !.rewakes = n], b)
           /\ [Prepared(b) EXCEPT !.rewakes = n].phase = "prepared"
  BY PreparedFresh DEF Fresh, Records

\* So is the cycle after a deferred probe.
LEMMA ProbedFresh ==
    ASSUME AdmissionAssumption, MaxRev \in Nat, NEW b \in Batches, NEW n \in Nat
    PROVE  /\ Fresh([Prepared(b) EXCEPT !.probes = n], b)
           /\ [Prepared(b) EXCEPT !.probes = n].phase = "prepared"
  BY PreparedFresh DEF Fresh, Records

-----------------------------------------------------------------------------
(* The inductive invariant *)

\* Where a tick is in the middle of a call.
Calls == {"deliver", "inspect", "redeliver", "repair", "recover"}

\* Whatever may become a key is a revision the condition has had.
Named ==
    /\ open => rev \in Revs
    /\ \A l \in Lanes : disk[l].phase # "none" => disk[l].key \in Revs /\ disk[l].fp \in Revs
    /\ tick.pc # "idle" => tick.batch.fp \in Revs

\* In the middle of a call the record on disk waits, and the one in memory is it but for
\* what has been coalesced.
Agree(t, r) ==
    /\ r.phase = (IF t.pc = "deliver" THEN "prepared" ELSE "pending")
    /\ t.mem.gen = r.gen /\ t.mem.key = r.key /\ t.mem.recovered = r.recovered
    /\ t.mem.phase = r.phase /\ t.mem.fp \in Revs
    /\ t.pc = "recover" => ~t.mem.recovered
Held == tick.pc \in Calls => Agree(tick, disk[Here])

\* No batch to come is for a generation below this one, and no record is above it.
Floor(l) ==
    IF l = "controller" THEN 0 ELSE IF tick.pc # "idle" /\ Here = l THEN tick.batch.gen ELSE owner.gen
Generations ==
    /\ Floor("direct") <= owner.gen
    /\ tick.pc # "idle" /\ Here = "controller" => tick.batch.gen = 0
    /\ \A l \in Lanes : disk[l].phase # "none" => disk[l].gen <= Floor(l)
Low(l) == IF disk[l].phase = "none" THEN Floor(l) ELSE disk[l].gen

\* The envelope a record follows; one whose probe was deferred will not be followed up.
Mine(l) == IF disk[l].phase \in {"none", "probe-deferred"} THEN {} ELSE {KeyOf(l, disk[l])}

Waits(e) == e.state \in {"pending", "taken"}
Out(l, g) == {k \in Keys : k[1] = l /\ k[2] = g /\ Waits(env[k])}

\* Of the generations a lane may still address, only what it forgot waits besides what it follows.
Tracked ==
    \A l \in Lanes : \A g \in Gens :
        /\ Cardinality(Out(l, g)) <= 1 + forgot[l]
        /\ g >= Low(l) => Cardinality(Out(l, g) \ Mine(l)) <= forgot[l]

\* A recovery is counted while its envelope waits, and is on record unless it was forgotten.
Recovering ==
    \A k \in Keys :
        /\ recs[k] > 0 => Waits(env[k])
        /\ recs[k] <= 1 + forgot[k[1]]
        /\ k[2] >= Low(k[1]) /\ ~(k \in Mine(k[1]) /\ disk[k[1]].recovered) => recs[k] <= forgot[k[1]]

\* What was delivered has arrived, and nothing else has content.
Arrived ==
    /\ \A l \in Lanes : disk[l].phase = "pending" => env[KeyOf(l, disk[l])].state # "none"
    /\ \A k \in Keys : env[k].state = "none" => env[k].content = 0

IInv == TypeOK /\ ConsumedCovers /\ Named /\ Held /\ Generations /\ Tracked /\ Recovering /\ Arrived

-----------------------------------------------------------------------------
(* What a step does *)

\* To the record of a lane: nothing; it goes on following the envelope of its key;
Stays(l) == disk'[l] = disk[l] \/ (disk[l].phase = "none" /\ disk'[l].phase = "none")
Carries(l) ==
    /\ disk[l].phase # "none" /\ disk'[l].phase \notin {"none", "probe-deferred"}
    /\ disk'[l].gen = disk[l].gen /\ disk'[l].key = disk[l].key /\ disk'[l].fp \in Revs
    /\ disk[l].recovered => disk'[l].recovered

\* a cycle begins that has nothing to follow, or not in this generation;
Starts(l) ==
    /\ disk'[l].gen = Floor(l) /\ disk'[l].key \in Revs /\ disk'[l].fp \in Revs /\ ~disk'[l].recovered
    /\ disk'[l].phase \in {"prepared", "blocked", "probe-deferred"}
    /\ \/ disk[l].phase \in {"none", "consumed", "probe-deferred"}
       \/ disk[l].phase = "blocked" /\ disk[l].gen # Floor(l)

\* or it is lost sight of.
Drops(l) ==
    /\ disk[l].phase # "none" /\ ~(tick.pc \in Calls /\ Here = l)
    /\ \/ disk'[l].phase = "none"
       \/ /\ disk'[l].phase \in {"blocked", "probe-deferred"}
          /\ disk'[l].gen = disk[l].gen /\ disk'[l].key = disk[l].key /\ disk'[l].fp = disk[l].fp
          /\ disk'[l].recovered = disk[l].recovered
    /\ Waits(env[KeyOf(l, disk[l])]) => forgot'[l] = forgot[l] + 1

Closes(l) ==
    disk'[l].phase = "consumed" =>
        Stays(l) \/ (LET e == env'[KeyOf(l, disk'[l])] IN e.state = "consumed" /\ e.content = disk'[l].fp)
Arrives(l) ==
    disk'[l].phase = "pending" =>
        \/ disk[l].phase = "pending" /\ KeyOf(l, disk[l]) = KeyOf(l, disk'[l])
        \/ env'[KeyOf(l, disk'[l])].state # "none"

Moves(l) ==
    /\ Stays(l) \/ Carries(l) \/ Starts(l) \/ Drops(l)
    /\ Closes(l) /\ Arrives(l) /\ forgot'[l] >= forgot[l]

\* To an envelope: only the call the tick is in the middle of makes one wait.
Serves(k) ==
    /\ env[k].state = "consumed" \/ env'[k].state = "none" => env'[k] = env[k]
    /\ Waits(env'[k]) => Waits(env[k]) \/ (tick.pc \in Calls /\ k = Key)

\* To the recoveries: a second one is not on record only if it is forgotten.
Counts(k) ==
    \/ recs'[k] = recs[k] /\ (Waits(env[k]) => Waits(env'[k]))
    \/ recs'[k] = 0
    \/ /\ tick.pc = "recover" /\ k = Key /\ recs'[k] = recs[k] + 1 /\ Waits(env'[k])
       /\ disk'[Here].recovered \/ forgot'[Here] = forgot[Here] + 1

\* To the tick: it ends, begins, goes on with what it has written, or it is not its step.
Ticking ==
    \/ tick'.pc = "idle"
    \/ \E l \in Lanes :
          /\ tick.pc = "idle" /\ BatchFor(l) # NoBatch /\ (l = "direct" => BatchFor(l).gen = owner.gen)
          /\ tick'.pc = "cycle" /\ tick'.lane = l /\ tick'.batch = BatchFor(l)
    \/ /\ tick.pc # "idle" /\ tick'.pc \in Calls /\ tick'.lane = Here /\ tick'.batch = tick.batch
       /\ Agree(tick', disk'[Here])
    \/ tick' = tick /\ (tick.pc \in Calls => disk'[Here] = disk[Here])

\* The server's side of a step, and the whole of it.
Served ==
    /\ env' \in [Keys -> Envelopes] /\ recs' \in [Keys -> Nat]
    /\ \A k \in Keys : Serves(k) /\ Counts(k)

Effect ==
    /\ disk' \in [Lanes -> Records] /\ tick' \in Ticks /\ forgot' \in [Lanes -> Nat]
    /\ Ticking /\ Served
    /\ \A l \in Lanes : Moves(l)

\* The envelopes and the recoveries are left alone.
Resting == env' = env /\ recs' = recs

\* A step that leaves them alone serves them.
LEMMA RestingServed ==
    ASSUME TypeOK, Resting
    PROVE  Served
  BY DEF TypeOK, Resting, Served, Serves, Counts

\* Writing one record touches one lane.
LEMMA Writing ==
    ASSUME TypeOK, NEW l \in Lanes, NEW r \in Records, Write(l, r)
    PROVE  /\ disk' \in [Lanes -> Records] /\ disk'[l] = r
           /\ \A m \in Lanes : m # l => disk'[m] = disk[m]
  BY DEF TypeOK, Write

\* A lane whose record stays may still forget a recovery.
LEMMA LaneStays ==
    ASSUME TypeOK, NEW l \in Lanes, disk'[l] = disk[l], forgot'[l] = forgot[l] \/ forgot'[l] = forgot[l] + 1
    PROVE  Moves(l)
  BY DEF TypeOK, Moves, Stays, Closes, Arrives, KeyOf

\* Going on with the tick.
LEMMA GoingOn ==
    ASSUME TypeOK, NEW pc \in Calls, NEW r \in Records, Go(pc, r)
    PROVE  /\ tick' \in Ticks /\ tick'.pc = pc /\ tick'.lane = Here /\ tick'.batch = tick.batch
           /\ tick'.mem = r
  <1> DEFINE t1 == [tick EXCEPT !.pc = pc]
             t2 == [t1 EXCEPT !.mem = r]
  <1>1. tick \in Ticks
    BY DEF TypeOK
  <1>2. t1 \in Ticks /\ t1.pc = pc /\ t1.lane = Here /\ t1.batch = tick.batch
    BY <1>1 DEF Ticks, Calls, Here
  <1>3. tick' = t2
    BY DEF Go
  <1> HIDE DEF t1
  <1> QED BY <1>2, <1>3 DEF Ticks

\* The parts of a tick.
LEMMA TickType ==
    ASSUME TypeOK
    PROVE  Here \in Lanes /\ tick.batch \in Batches /\ tick.mem \in Records
  BY DEF TypeOK, Ticks, Here

\* No tick is one.
LEMMA IdleType ==
    ASSUME AdmissionAssumption, MaxRev \in Nat
    PROVE  Idle \in Ticks /\ Idle.pc = "idle"
  BY NoRecordType DEF Idle, Ticks, Lanes, NoBatch, Batches, Gens, AdmissionAssumption

\* There is a kind of condition, so there is a largest revision.
LEMMA MaxRevNat ==
    ASSUME AdmissionAssumption, TypeOK
    PROVE  MaxRev \in Nat
  BY MaxRevIsMax DEF TypeOK

\* The key of a record there is.
LEMMA KeyTyped ==
    ASSUME TypeOK, Named, NEW l \in Lanes, disk[l].phase # "none"
    PROVE  KeyOf(l, disk[l]) \in Keys
  BY RecordType DEF TypeOK, Named, KeyOf, Keys

\* In the middle of a call, the key is that of the record on disk.
LEMMA KeyHeld ==
    ASSUME TypeOK, Named, Held, tick.pc \in Calls
    PROVE  /\ Key = KeyOf(Here, disk[Here]) /\ Key \in Keys /\ Key[1] = Here
           /\ disk[Here] \in Records /\ disk[Here].phase \in {"prepared", "pending"} /\ Here \in Lanes
  BY TickType, KeyTyped DEF Held, Agree, Key, KeyOf, TypeOK

\* A batch, before the tick begins.
LEMMA BatchMade ==
    ASSUME AdmissionAssumption, IInv, NEW l \in Lanes
    PROVE  /\ BatchFor(l) \in Batches
           /\ BatchFor(l) # NoBatch => BatchFor(l).fp \in Revs
           /\ l = "controller" => BatchFor(l).gen = 0
           /\ BatchFor(l) # NoBatch /\ disk[l].phase = "none" => BatchFor(l).gen = TargetGen(l)
  <1>1. MaxRev \in Nat /\ disk[l] \in Records /\ owner.gen \in Gens /\ rev \in 0..MaxRev
    BY MaxRevNat DEF IInv, TypeOK, Gens
  <1>2. 0 \in Gens /\ NoBatch \in Batches /\ TargetGen(l) \in Gens /\ (l = "controller" => TargetGen(l) = 0)
    BY <1>1 DEF Gens, AdmissionAssumption, NoBatch, Batches, TargetGen
  <1>3. CASE open /\ Route = l
    <2>1. BatchFor(l) = [gen |-> TargetGen(l), fp |-> rev, retain |-> FALSE]
      BY <1>3 DEF BatchFor
    <2> QED BY <1>1, <1>2, <1>3, <2>1 DEF Batches, IInv, Named
  <1>4. CASE ~(open /\ Route = l) /\ disk[l].phase \in Outstanding
    <2>1. BatchFor(l) = [gen |-> disk[l].gen, fp |-> disk[l].fp, retain |-> TRUE]
      BY <1>4 DEF BatchFor
    <2>2. disk[l].phase # "none"
      BY <1>4 DEF Outstanding
    <2>3. l = "controller" => disk[l].gen = 0
      BY <1>1, <2>2, RecordType DEF IInv, Generations, Floor, Gens
    <2> QED BY <1>1, <1>2, <2>1, <2>2, <2>3, RecordType DEF Batches, IInv, Named
  <1>5. CASE ~(open /\ Route = l) /\ disk[l].phase \notin Outstanding
    BY <1>2, <1>5 DEF BatchFor, NoBatch
  <1> QED BY <1>3, <1>4, <1>5

-----------------------------------------------------------------------------
(* The effect of each action *)

\* When one record is written, the other lane stays as it is.
LEMMA OneLane ==
    ASSUME TypeOK, NEW l \in Lanes, NEW r \in Records, Write(l, r), Moves(l),
           \A m \in Lanes : m # l => forgot'[m] = forgot[m]
    PROVE  /\ disk' \in [Lanes -> Records]
           /\ \A m \in Lanes : Moves(m)
  BY Writing, LaneStays

\* A record that goes on with another phase, with newer incidents, or recovered.
LEMMA CarryOn ==
    ASSUME TypeOK, Named, NEW l \in Lanes, NEW r \in Records, Write(l, r), disk[l].phase # "none",
           r.phase \in {"prepared", "pending", "consumed", "blocked"},
           r.gen = disk[l].gen, r.key = disk[l].key, r.fp \in Revs,
           disk[l].recovered => r.recovered, forgot'[l] >= forgot[l],
           r.phase = "consumed" => env'[KeyOf(l, r)].state = "consumed" /\ env'[KeyOf(l, r)].content = r.fp,
           r.phase = "pending" => disk[l].phase = "pending" \/ env'[KeyOf(l, r)].state # "none"
    PROVE  Moves(l)
  <1>1. disk'[l] = r
    BY Writing
  <1>2. KeyOf(l, disk[l]) = KeyOf(l, r)
    BY DEF KeyOf
  <1>3. Carries(l)
    BY <1>1 DEF Carries
  <1>4. Closes(l)
    BY <1>1 DEF Closes
  <1>5. Arrives(l)
    BY <1>1, <1>2 DEF Arrives
  <1> QED BY <1>3, <1>4, <1>5 DEF Moves

\* A new cycle for the batch b.
LEMMA StartUp ==
    ASSUME TypeOK, NEW l \in Lanes, NEW r \in Records, Write(l, r),
           r.gen = Floor(l), r.key \in Revs, r.fp \in Revs, ~r.recovered,
           r.phase \in {"prepared", "blocked", "probe-deferred"},
           \/ disk[l].phase \in {"none", "consumed", "probe-deferred"}
           \/ disk[l].phase = "blocked" /\ disk[l].gen # Floor(l),
           forgot'[l] >= forgot[l]
    PROVE  Moves(l)
  <1>1. disk'[l] = r
    BY Writing
  <1>2. Starts(l)
    BY <1>1 DEF Starts
  <1>3. Closes(l) /\ Arrives(l)
    BY <1>1 DEF Closes, Arrives
  <1> QED BY <1>2, <1>3 DEF Moves

\* The block of whatever record the lane has or would have.
LEMMA BlockUp ==
    ASSUME AdmissionAssumption, IInv, NEW l \in Lanes, NEW b \in Batches, b.fp \in Revs,
           disk[l].phase = "none" => b.gen = Floor(l),
           Write(l, Blocked(OnDisk(l, b))), forgot'[l] >= forgot[l]
    PROVE  Moves(l) /\ Blocked(OnDisk(l, b)) \in Records
  <1> DEFINE p == OnDisk(l, b)
  <1>0. MaxRev \in Nat /\ TypeOK /\ Named /\ disk[l] \in Records
    BY MaxRevNat DEF IInv, TypeOK
  <1>1. p \in Records
    BY <1>0, PreparedFresh DEF OnDisk, Fresh
  <1>2. Like(Blocked(p), p) /\ Blocked(p).phase = "blocked"
    BY <1>1, BlockedLike
  <1>3. CASE disk[l].phase = "none"
    <2>1. p = Prepared(b) /\ Fresh(p, b)
      BY <1>0, <1>3, PreparedFresh DEF OnDisk
    <2> QED BY <1>0, <1>2, <1>3, <2>1, StartUp DEF Like, Fresh
  <1>4. CASE disk[l].phase # "none"
    <2>1. p = disk[l] /\ disk[l].fp \in Revs
      BY <1>0, <1>4 DEF OnDisk, Named
    <2> QED BY <1>0, <1>2, <1>4, <2>1, CarryOn DEF Like
  <1> QED BY <1>2, <1>3, <1>4 DEF Like

\* The beginning of a tick.
LEMMA BeginEffect ==
    ASSUME AdmissionAssumption, IInv, NEW l \in Lanes, Begin(l)
    PROVE  Effect
  <1> DEFINE b == BatchFor(l)
             moved == l = "direct" /\ (~owner.authoritative \/ b.gen # owner.gen)
  <1>0. /\ MaxRev \in Nat /\ TypeOK /\ Resting /\ forgot' = forgot /\ forgot \in [Lanes -> Nat]
        /\ tick.pc = "idle" /\ b # NoBatch
    BY MaxRevNat DEF IInv, TypeOK, Begin, Resting, server, counts
  <1>1. b \in Batches /\ b.fp \in Revs /\ (disk[l].phase = "none" => b.gen = TargetGen(l))
    BY <1>0, BatchMade
  <1>2. Floor(l) = TargetGen(l)
    BY <1>0 DEF Floor, TargetGen, Lanes
  <1>3. CASE moved /\ Write(l, Blocked(OnDisk(l, b))) /\ UNCHANGED tick
    <2>1. Moves(l) /\ Blocked(OnDisk(l, b)) \in Records
      BY <1>0, <1>1, <1>2, <1>3, BlockUp
    <2>2. disk' \in [Lanes -> Records] /\ \A m \in Lanes : Moves(m)
      BY <1>0, <1>3, <2>1, OneLane
    <2>3. tick' \in Ticks /\ Ticking
      BY <1>0, <1>3 DEF Ticking, Calls, TypeOK
    <2> QED BY <1>0, <2>2, <2>3, RestingServed DEF Effect
  <1>4. CASE ~moved /\ tick' = [Idle EXCEPT !.pc = "cycle", !.lane = l, !.batch = b] /\ UNCHANGED disk
    <2>1. tick' \in Ticks /\ tick'.pc = "cycle" /\ tick'.lane = l /\ tick'.batch = b
      BY <1>0, <1>1, <1>4, NoRecordType DEF Idle, Ticks
    <2>2. Ticking
      BY <1>0, <1>4, <2>1 DEF Ticking
    <2>3. disk' \in [Lanes -> Records] /\ \A m \in Lanes : Moves(m)
      BY <1>0, <1>4, LaneStays DEF TypeOK
    <2> QED BY <1>0, <2>1, <2>2, <2>3, RestingServed DEF Effect
  <1> QED BY <1>3, <1>4 DEF Begin

\* What is forgotten is counted, for the lanes named.
LEMMA Forgetting ==
    ASSUME TypeOK, NEW ls \in SUBSET Lanes, Forget(ls)
    PROVE  /\ forgot' \in [Lanes -> Nat]
           /\ \A m \in Lanes : /\ forgot'[m] \in {forgot[m], forgot[m] + 1}
                               /\ m \notin ls => forgot'[m] = forgot[m]
                               /\ m \in ls /\ Losing(m) => forgot'[m] = forgot[m] + 1
                               /\ forgot'[m] >= forgot[m]
  BY DEF TypeOK, Forget

\* A tick that goes no further than the checks.
LEMMA RefusedEffect ==
    ASSUME AdmissionAssumption, IInv, NEW l \in Lanes, Refused(l)
    PROVE  Effect
  <1> DEFINE b == BatchFor(l)
             r == OnDisk(l, b)
  <1>0. /\ MaxRev \in Nat /\ TypeOK /\ Resting /\ forgot \in [Lanes -> Nat] /\ disk[l] \in Records
        /\ tick.pc = "idle" /\ tick' = tick /\ b # NoBatch /\ Named
    BY MaxRevNat DEF IInv, TypeOK, Refused, Resting, server
  <1>1. b \in Batches /\ b.fp \in Revs /\ (disk[l].phase = "none" => b.gen = TargetGen(l))
    BY <1>0, BatchMade
  <1>2. Floor(l) = TargetGen(l)
    BY <1>0 DEF Floor, TargetGen, Lanes
  <1>3. tick' \in Ticks /\ Ticking
    BY <1>0 DEF Ticking, Calls, TypeOK
  <1>4. r \in Records /\ (disk[l].phase # "none" => r = disk[l])
        /\ (disk[l].phase = "none" => Fresh(r, b) /\ r.phase = "prepared")
    BY <1>0, <1>1, PreparedFresh DEF OnDisk, Fresh
  <1>5. ASSUME forgot' \in [Lanes -> Nat], NEW p \in Records, Write(l, p), Moves(l),
               \A m \in Lanes : m # l => forgot'[m] = forgot[m]
        PROVE  Effect
    <2>1. disk' \in [Lanes -> Records] /\ \A m \in Lanes : Moves(m)
      BY <1>0, <1>5, OneLane
    <2> QED BY <1>0, <1>3, <1>5, <2>1, RestingServed DEF Effect
  <1>6. CASE l = "controller" /\ Write(l, Deferred(r)) /\ Forget({l})
    <2>1. forgot' \in [Lanes -> Nat] /\ (\A m \in Lanes : m # l => forgot'[m] = forgot[m])
          /\ forgot'[l] >= forgot[l] /\ (Losing(l) => forgot'[l] = forgot[l] + 1)
      BY <1>0, <1>6, Forgetting
    <2>2. Like(Deferred(r), r) /\ Deferred(r).phase \in {"blocked", "probe-deferred"}
      BY <1>4, DeferredLike
    <2>3. CASE disk[l].phase = "none"
      <3>1. Moves(l)
        BY <1>0, <1>1, <1>2, <1>4, <1>6, <2>1, <2>2, <2>3, StartUp DEF Like, Fresh
      <3> QED BY <1>5, <1>6, <2>1, <2>2, <3>1 DEF Like
    <2>4. CASE disk[l].phase # "none"
      <3>1. disk'[l] = Deferred(r) /\ r = disk[l]
        BY <1>0, <1>4, <1>6, <2>2, <2>4, Writing DEF Like
      <3>2. Waits(env[KeyOf(l, disk[l])]) => forgot'[l] = forgot[l] + 1
        BY <2>1, <2>4 DEF Losing, Waits
      <3>3. Drops(l)
        BY <1>0, <2>2, <2>4, <3>1, <3>2 DEF Drops, Like, Calls
      <3>4. Moves(l)
        BY <2>1, <2>2, <3>1, <3>3 DEF Moves, Closes, Arrives
      <3> QED BY <1>5, <1>6, <2>1, <2>2, <3>4 DEF Like
    <2> QED BY <2>3, <2>4
  <1>7. CASE Write(l, r) /\ UNCHANGED forgot
    <2>1. CASE disk[l].phase = "none"
      <3>1. Moves(l)
        BY <1>0, <1>1, <1>2, <1>4, <1>7, <2>1, StartUp DEF Fresh
      <3> QED BY <1>0, <1>4, <1>5, <1>7, <3>1
    <2>2. CASE disk[l].phase # "none"
      <3>1. disk'[l] = disk[l]
        BY <1>0, <1>4, <1>7, <2>2, Writing
      <3>2. Moves(l)
        BY <1>0, <1>7, <3>1, LaneStays
      <3> QED BY <1>0, <1>4, <1>5, <1>7, <3>2
    <2> QED BY <2>1, <2>2
  <1>8. CASE Write(l, Blocked(r)) /\ UNCHANGED forgot
    <2>1. Moves(l) /\ Blocked(r) \in Records
      BY <1>0, <1>1, <1>2, <1>8, BlockUp
    <2> QED BY <1>0, <1>5, <1>8, <2>1
  <1> QED BY <1>6, <1>7, <1>8 DEF Refused

\* A tick that ends with a record written.
LEMMA FinishEffect ==
    ASSUME AdmissionAssumption, IInv, NEW r \in Records, Finish(r), Moves(Here),
           Served, forgot' = forgot
    PROVE  Effect
  <1>0. MaxRev \in Nat /\ TypeOK /\ Here \in Lanes /\ forgot \in [Lanes -> Nat]
    BY MaxRevNat, TickType DEF IInv, TypeOK
  <1>1. disk' \in [Lanes -> Records] /\ \A m \in Lanes : Moves(m)
    BY <1>0, OneLane DEF Finish
  <1>2. tick' \in Ticks /\ Ticking
    BY <1>0, IdleType DEF Ticking, Finish
  <1> QED BY <1>0, <1>1, <1>2 DEF Effect

\* A tick that leaves the record on disk alone and ends.
LEMMA LeaveEffect ==
    ASSUME AdmissionAssumption, IInv, Finish(disk[Here]), Served, forgot' = forgot
    PROVE  Effect
  <1>0. TypeOK /\ Here \in Lanes /\ disk[Here] \in Records
    BY TickType DEF IInv, TypeOK
  <1>1. disk'[Here] = disk[Here]
    BY <1>0, Writing DEF Finish
  <1>2. Moves(Here)
    BY <1>0, <1>1, LaneStays
  <1> QED BY <1>0, <1>2, FinishEffect

\* A tick that writes a record and goes on with it.
LEMMA GoEffect ==
    ASSUME AdmissionAssumption, IInv, tick.pc # "idle",
           NEW pc \in Calls, NEW r \in Records, NEW m \in Records,
           Write(Here, r), Go(pc, m), Moves(Here), Served, forgot' = forgot,
           r.phase = (IF pc = "deliver" THEN "prepared" ELSE "pending"),
           m.phase = r.phase, m.gen = r.gen, m.key = r.key, m.recovered = r.recovered, m.fp \in Revs,
           pc = "recover" => ~m.recovered
    PROVE  Effect
  <1>0. MaxRev \in Nat /\ TypeOK /\ Here \in Lanes /\ forgot \in [Lanes -> Nat]
    BY MaxRevNat, TickType DEF IInv, TypeOK
  <1>1. disk' \in [Lanes -> Records] /\ disk'[Here] = r /\ \A l \in Lanes : Moves(l)
    BY <1>0, OneLane, Writing
  <1>2. /\ tick' \in Ticks /\ tick'.pc = pc /\ tick'.lane = Here /\ tick'.batch = tick.batch /\ tick'.mem = m
    BY <1>0, GoingOn
  <1>3. Agree(tick', disk'[Here])
    BY <1>1, <1>2 DEF Agree
  <1>4. Ticking
    BY <1>2, <1>3 DEF Ticking
  <1> QED BY <1>0, <1>1, <1>2, <1>4 DEF Effect

\* The beginning of a cycle.
LEMMA CycleEffect ==
    ASSUME AdmissionAssumption, IInv, NEW quiet \in BOOLEAN, Cycle(quiet)
    PROVE  Effect
  <1> DEFINE b == tick.batch
             r == disk[Here]
             matches == r.gen = b.gen
             again == r.phase = "consumed" /\ matches /\ r.fp = b.fp
             fresh == \/ r.phase = "none"
                      \/ (r.phase = "blocked" /\ ~matches)
                      \/ (r.phase \in {"consumed", "probe-deferred"} /\ ~again)
             due == MayWake(r) /\ quiet
  <1>0. /\ MaxRev \in Nat /\ TypeOK /\ Here \in Lanes /\ b \in Batches /\ r \in Records /\ b.fp \in Revs
        /\ forgot' = forgot /\ Served /\ tick.pc = "cycle" /\ Named /\ forgot \in [Lanes -> Nat]
    BY MaxRevNat, TickType, RestingServed DEF IInv, TypeOK, Named, Cycle, Resting, server
  <1>1. Floor(Here) = b.gen
    BY <1>0 DEF Floor, IInv, Generations
  <1>2. forgot'[Here] >= forgot[Here] /\ (r.phase # "none" => r.key \in Revs /\ r.fp \in Revs)
    BY <1>0 DEF Named
  <1>3. "deliver" \in Calls /\ "inspect" \in Calls
    BY DEF Calls
  <1> HIDE DEF b, r
  <1>4. ASSUME NEW p \in Records, Fresh(p, b), p.phase = "prepared", Write(Here, p), Go("deliver", p),
               \/ r.phase \in {"none", "consumed", "probe-deferred"}
               \/ r.phase = "blocked" /\ ~matches
        PROVE  Effect
    <2>1. p.gen = Floor(Here) /\ p.key \in Revs /\ p.fp \in Revs /\ ~p.recovered
      BY <1>0, <1>1, <1>4 DEF Fresh
    <2>2. Moves(Here)
      BY <1>0, <1>1, <1>2, <1>4, <2>1, StartUp DEF r
    <2> QED BY <1>0, <1>3, <1>4, <2>1, <2>2, GoEffect
  <1>5. CASE Finish(Blocked(OnDisk(Here, b)))
    <2>1. Write(Here, Blocked(OnDisk(Here, b)))
      BY <1>5 DEF Finish
    <2>2. Moves(Here) /\ Blocked(OnDisk(Here, b)) \in Records
      BY <1>0, <1>1, <1>2, <2>1, BlockUp
    <2> QED BY <1>0, <1>5, <2>2, FinishEffect
  <1>6. CASE Finish(r)
    BY <1>0, <1>6, LeaveEffect DEF r
  <1>7. CASE r.phase \in Outstanding /\ ~matches /\ Finish(Blocked(r))
    <2>1. Like(Blocked(r), r) /\ Blocked(r).phase = "blocked" /\ r.phase # "none"
      BY <1>0, <1>7, BlockedLike DEF Outstanding
    <2>2. Moves(Here)
      BY <1>0, <1>2, <1>7, <2>1, CarryOn DEF Like, Finish, r
    <2> QED BY <1>0, <1>7, <2>1, <2>2, FinishEffect DEF Like
  <1>8. CASE again /\ due /\ Write(Here, [Prepared(b) EXCEPT !.rewakes = r.rewakes + 1])
             /\ Go("deliver", [Prepared(b) EXCEPT !.rewakes = r.rewakes + 1])
    <2>1. r.rewakes + 1 \in 0..MaxRewakes
      BY <1>0, <1>8, RecordType DEF MayWake, AdmissionAssumption
    <2>2. /\ Fresh([Prepared(b) EXCEPT !.rewakes = r.rewakes + 1], b)
          /\ [Prepared(b) EXCEPT !.rewakes = r.rewakes + 1].phase = "prepared"
      BY <1>0, <2>1, RewokenFresh
    <2> QED BY <1>4, <1>8, <2>2 DEF Fresh
  <1>9. CASE fresh /\ Write(Here, [Prepared(b) EXCEPT !.probes = IF matches THEN r.probes ELSE 0])
             /\ Go("deliver", [Prepared(b) EXCEPT !.probes = IF matches THEN r.probes ELSE 0])
    <2>1. (IF matches THEN r.probes ELSE 0) \in Nat
      BY <1>0, RecordType
    <2> DEFINE n == IF matches THEN r.probes ELSE 0
               p == [Prepared(b) EXCEPT !.probes = n]
    <2> HIDE DEF n
    <2>2. Fresh(p, b) /\ p.phase = "prepared"
      BY <1>0, <2>1, ProbedFresh DEF n
    <2>3. Write(Here, p) /\ Go("deliver", p)
      BY <1>9 DEF n
    <2> HIDE DEF p
    <2> QED BY <1>4, <1>9, <2>2, <2>3 DEF Fresh
  <1>10. CASE r.phase = "prepared" /\ matches /\ Write(Here, Coalesced(r, b))
              /\ Go("deliver", Coalesced(r, b))
    <2> DEFINE p == Coalesced(r, b)
    <2>1. /\ p \in Records /\ p.phase = "prepared" /\ p.gen = r.gen
          /\ p.key = r.key /\ p.recovered = r.recovered /\ p.fp \in {r.fp, b.fp}
      BY <1>0, <1>10, CoalescedRecord
    <2> HIDE DEF p
    <2>2. Write(Here, p) /\ Go("deliver", p) /\ p.fp \in Revs /\ r.phase # "none"
      BY <1>0, <1>2, <1>10, <2>1 DEF p
    <2>3. Moves(Here)
      BY <1>0, <1>2, <2>1, <2>2, CarryOn DEF r
    <2> QED BY <1>0, <1>3, <2>1, <2>2, <2>3, GoEffect
  <1>11. CASE r.phase = "pending" /\ Go("inspect", r) /\ UNCHANGED disk
    <2>1. Write(Here, r)
      BY <1>0, <1>11 DEF Write, TypeOK, r
    <2>2. Moves(Here)
      BY <1>0, <1>11, LaneStays
    <2> QED BY <1>0, <1>2, <1>3, <1>11, <2>1, <2>2, GoEffect
  <1> QED BY <1>5, <1>6, <1>7, <1>8, <1>9, <1>10, <1>11 DEF Cycle, b, r

\* The process of the tick ends.
LEMMA CrashEffect ==
    ASSUME AdmissionAssumption, IInv, Crash
    PROVE  Effect
  <1>1. TypeOK /\ Resting /\ forgot' = forgot /\ disk' = disk /\ tick' = Idle /\ MaxRev \in Nat
    BY MaxRevNat DEF Crash, Resting, server, IInv
  <1>2. \A l \in Lanes : Moves(l)
    BY <1>1, LaneStays
  <1>3. tick' \in Ticks /\ Ticking
    BY <1>1, IdleType DEF Ticking
  <1> QED BY <1>1, <1>2, <1>3, RestingServed DEF Effect, TypeOK

\* What the server answers a delivery: the envelope, which is there, and which stays
\* consumed or waiting.
LEMMA ReceivedEnvelope ==
    ASSUME TypeOK, NEW k \in Keys, NEW c \in Revs, Arrived
    PROVE  LET e == Received(env[k], c) IN
           /\ e \in Envelopes /\ e.state # "none" /\ (env[k].state = "consumed" => e = env[k])
           /\ (Waits(env[k]) => Waits(e))
  <1>1. env[k] \in Envelopes /\ (env[k].state = "none" => env[k].content = 0)
    BY DEF TypeOK, Arrived
  <1>2. c \in 0..MaxRev /\ c # 0
    BY DEF Revs
  <1> QED BY <1>1, <1>2 DEF Received, Envelopes, Waits

\* What is sent serves the record the tick is at work on.
LEMMA SentServed ==
    ASSUME TypeOK, Named, Held, Arrived, tick.pc \in Calls, NEW e \in Envelopes, Sent(e), recs' = recs,
           e = Received(Envelope, tick.mem.fp) \/ e = Envelope
    PROVE  Served /\ env'[Key] = e
  <1>1. Key \in Keys /\ tick.mem.fp \in Revs
    BY KeyHeld DEF Held, Agree
  <1>2. env' = [env EXCEPT ![Key] = e] /\ env \in [Keys -> Envelopes]
    BY DEF Sent, TypeOK
  <1>3. /\ (env[Key].state = "consumed" \/ e.state = "none" => e = env[Key])
        /\ (Waits(env[Key]) => Waits(e))
    BY <1>1, ReceivedEnvelope DEF Envelope
  <1>4. \A k \in Keys : Serves(k)
    BY <1>1, <1>2, <1>3 DEF Serves
  <1>5. \A k \in Keys : Counts(k)
    BY <1>1, <1>2, <1>3 DEF Counts
  <1> QED BY <1>1, <1>2, <1>4, <1>5 DEF Served, TypeOK

\* A record that is still the one at work: its key, newer content perhaps, recovered at least as often.
Follows(r, q) ==
    r \in Records /\ r.gen = q.gen /\ r.key = q.key /\ r.fp \in Revs /\ (q.recovered => r.recovered)

\* The record in memory and the one on disk, in the middle of a call.
LEMMA HeldFollows ==
    ASSUME IInv, tick.pc \in Calls
    PROVE  /\ Follows(tick.mem, disk[Here]) /\ Follows(disk[Here], disk[Here])
           /\ tick.mem.phase = disk[Here].phase /\ tick.mem.recovered = disk[Here].recovered
           /\ disk[Here].phase = (IF tick.pc = "deliver" THEN "prepared" ELSE "pending")
  <1>1. TypeOK /\ Named /\ Held
    BY DEF IInv
  <1>2. disk[Here] \in Records /\ disk[Here].phase # "none" /\ Here \in Lanes
    BY <1>1, KeyHeld
  <1> QED BY <1>1, <1>2, TickType DEF Follows, Held, Agree, Named

\* The tick ends in the middle of a call with a record that carries on.
LEMMA CarryFinish ==
    ASSUME AdmissionAssumption, IInv, tick.pc \in Calls, NEW r, Follows(r, disk[Here]), Finish(r),
           r.phase \in {"pending", "consumed", "blocked"},
           r.phase = "consumed" => env'[Key].state = "consumed" /\ env'[Key].content = r.fp,
           r.phase = "pending" => disk[Here].phase = "pending" \/ env'[Key].state # "none",
           Served, forgot' \in [Lanes -> Nat], forgot'[Here] >= forgot[Here],
           \A m \in Lanes : m # Here => forgot'[m] = forgot[m]
    PROVE  Effect
  <1>0. TypeOK /\ Named /\ Held /\ MaxRev \in Nat
    BY MaxRevNat DEF IInv
  <1>1. Here \in Lanes /\ disk[Here].phase # "none" /\ Key = KeyOf(Here, disk[Here])
    BY <1>0, KeyHeld
  <1>2. KeyOf(Here, r) = Key
    BY <1>1 DEF KeyOf, Follows
  <1>3. r \in Records /\ Write(Here, r)
    BY DEF Follows, Finish
  <1>4. Moves(Here)
    BY <1>0, <1>1, <1>2, <1>3, CarryOn DEF Follows
  <1>5. disk' \in [Lanes -> Records] /\ \A m \in Lanes : Moves(m)
    BY <1>0, <1>1, <1>3, <1>4, OneLane
  <1>6. tick' \in Ticks /\ Ticking
    BY <1>0, IdleType DEF Ticking, Finish
  <1> QED BY <1>5, <1>6 DEF Effect

\* The tick ends with the record on disk blocked.
LEMMA BlockFinish ==
    ASSUME AdmissionAssumption, IInv, tick.pc \in Calls, NEW r, Follows(r, disk[Here]), Finish(Blocked(r)),
           Served, forgot' = forgot
    PROVE  Effect
  <1>1. Follows(Blocked(r), disk[Here]) /\ Blocked(r).phase = "blocked"
    BY BlockedLike DEF Follows, Like
  <1>2. forgot' \in [Lanes -> Nat] /\ Here \in Lanes
    BY TickType DEF IInv, TypeOK
  <1> QED BY <1>1, <1>2, CarryFinish

\* The tick ends without an answer it can use: the record on disk stands or is blocked.
LEMMA FailedEffect ==
    ASSUME AdmissionAssumption, IInv, tick.pc \in Calls, Failed, Served, forgot' = forgot
    PROVE  Effect
  <1>1. CASE Finish(disk[Here])
    BY <1>1, LeaveEffect
  <1>2. CASE Finish(Blocked(disk[Here]))
    BY <1>2, HeldFollows, BlockFinish
  <1> QED BY <1>1, <1>2 DEF Failed

\* A call fails before the server has carried it out.
LEMMA CallFailsEffect ==
    ASSUME AdmissionAssumption, IInv, CallFails
    PROVE  Effect
  <1>1. TypeOK /\ Resting /\ forgot' = forgot /\ tick.pc \in Calls /\ Failed
    BY DEF CallFails, Calls, Resting, server, IInv
  <1> QED BY <1>1, RestingServed, FailedEffect

\* The reply to a delivery is lost.
LEMMA ReplyLostEffect ==
    ASSUME AdmissionAssumption, IInv, ReplyLost
    PROVE  Effect
  <1> DEFINE e == Received(Envelope, tick.mem.fp)
  <1>1. /\ tick.pc \in Calls /\ Sent(e) /\ recs' = recs /\ forgot' = forgot /\ Failed
        /\ TypeOK /\ Named /\ Held /\ Arrived
    BY DEF ReplyLost, Calls, IInv
  <1>2. Key \in Keys /\ tick.mem.fp \in Revs
    BY <1>1, KeyHeld DEF Held, Agree
  <1>3. e \in Envelopes
    BY <1>1, <1>2, ReceivedEnvelope DEF Envelope
  <1>4. Served
    BY <1>1, <1>3, SentServed
  <1> QED BY <1>1, <1>4, FailedEffect

\* The cycle is closed, or blocked, on what the server answered.
LEMMA CloseEffect ==
    ASSUME AdmissionAssumption, IInv, tick.pc \in Calls, NEW r, Follows(r, disk[Here]), NEW e \in Envelopes,
           Close(e, r), env'[Key] = e, Served, forgot' = forgot
    PROVE  Effect
  <1>1. CASE Proves(e, r)
    <2>1. Follows(Consumed(r), disk[Here]) /\ Consumed(r).phase = "consumed" /\ Consumed(r).fp = r.fp
      BY ConsumedLike DEF Follows, Like
    <2>2. forgot' \in [Lanes -> Nat] /\ Here \in Lanes /\ Finish(Consumed(r))
      BY <1>1, TickType DEF IInv, TypeOK, Close
    <2> QED BY <1>1, <2>1, <2>2, CarryFinish DEF Proves
  <1>2. CASE ~Proves(e, r)
    <2>1. Finish(Blocked(disk[Here]))
      BY <1>2 DEF Close
    <2> QED BY <2>1, HeldFollows, BlockFinish
  <1> QED BY <1>1, <1>2

\* The tick writes a record that waits for its receipt and goes on.
LEMMA CarryGo ==
    ASSUME AdmissionAssumption, IInv, tick.pc \in Calls, NEW pc \in Calls, pc # "deliver",
           NEW r, Follows(r, disk[Here]), r.phase = "pending", Write(Here, r),
           NEW m, Follows(m, r), m.phase = "pending", m.recovered = r.recovered, Go(pc, m),
           disk[Here].phase = "pending" \/ env'[Key].state # "none",
           pc = "recover" => ~m.recovered, Served, forgot' = forgot
    PROVE  Effect
  <1>0. TypeOK /\ Named /\ Held /\ tick.pc # "idle"
    BY DEF IInv, Calls
  <1>1. /\ Here \in Lanes /\ disk[Here].phase # "none" /\ Key = KeyOf(Here, disk[Here])
        /\ forgot'[Here] >= forgot[Here]
    BY <1>0, KeyHeld DEF TypeOK
  <1>2. KeyOf(Here, r) = Key
    BY <1>1 DEF KeyOf, Follows
  <1>3. r \in Records /\ m \in Records
    BY DEF Follows
  <1>4. Moves(Here)
    BY <1>0, <1>1, <1>2, <1>3, CarryOn DEF Follows
  <1> QED BY <1>0, <1>3, <1>4, GoEffect DEF Follows

\* The first delivery is answered.
LEMMA DeliverEffect ==
    ASSUME AdmissionAssumption, IInv, NEW e \in Envelopes, Deliver(e)
    PROVE  Effect
  <1> DEFINE r1 == [tick.mem EXCEPT !.phase = "pending"]
             r2 == [r1 EXCEPT !.probes = 0]
             r == [tick.mem EXCEPT !.phase = "pending", !.probes = 0]
  <1>0. /\ TypeOK /\ Named /\ Held /\ Arrived /\ tick.pc \in Calls /\ Sent(e) /\ recs' = recs
        /\ forgot' = forgot /\ tick.pc = "deliver"
        /\ e = Received(Envelope, tick.mem.fp) \/ e = Envelope
    BY DEF Deliver, IInv, Calls
  <1>1. Served /\ env'[Key] = e
    BY <1>0, SentServed
  <1>2. e.state # "none"
    <2>1. Key \in Keys /\ tick.mem.fp \in Revs
      BY <1>0, KeyHeld DEF Held, Agree
    <2> QED BY <1>0, <2>1, ReceivedEnvelope DEF Envelope, Deliver, Kept
  <1>3. Follows(tick.mem, disk[Here])
    BY <1>0, HeldFollows
  <1>4. r1 \in Records /\ Follows(r1, disk[Here]) /\ r1.phase = "pending"
    <2>1. "pending" \in Phases
      BY DEF Phases, Outstanding
    <2>2. Like(r1, tick.mem) /\ r1.phase = "pending"
      BY <1>3, <2>1, PhaseLike DEF Follows
    <2> QED BY <1>3, <2>2 DEF Follows, Like
  <1>5. Follows(r2, disk[Here]) /\ r2.phase = "pending"
    <2> HIDE DEF r1
    <2> QED BY <1>4 DEF Follows, Records
  <1>6. r = r2
    OBVIOUS
  <1> HIDE DEF r, r2
  <1>7. CASE e.state = "consumed" /\ Close(e, r)
    BY <1>0, <1>1, <1>5, <1>6, <1>7, CloseEffect
  <1>8. CASE Finish(r)
    BY <1>0, <1>1, <1>2, <1>5, <1>6, <1>8, TickType, CarryFinish DEF TypeOK
  <1>9. CASE Write(Here, r) /\ Go("inspect", r)
    <2>1. Follows(r, r) /\ "inspect" \in Calls
      BY <1>5, <1>6 DEF Follows, Calls
    <2> QED BY <1>0, <1>1, <1>2, <1>5, <1>6, <1>9, <2>1, CarryGo
  <1> QED BY <1>7, <1>8, <1>9 DEF Deliver, r

\* The content of the envelope is replaced.
LEMMA RedeliverEffect ==
    ASSUME AdmissionAssumption, IInv, NEW e \in Envelopes, Redeliver(e)
    PROVE  Effect
  <1>0. /\ TypeOK /\ Named /\ Held /\ Arrived /\ tick.pc \in Calls /\ Sent(e) /\ recs' = recs
        /\ forgot' = forgot /\ tick.pc # "deliver" /\ Here \in Lanes
        /\ e = Received(Envelope, tick.mem.fp) \/ e = Envelope
    BY TickType DEF Redeliver, IInv, Calls
  <1>1. Served /\ env'[Key] = e
    BY <1>0, SentServed
  <1>2. /\ Follows(tick.mem, disk[Here]) /\ Follows(disk[Here], disk[Here])
        /\ tick.mem.phase = "pending" /\ disk[Here].phase = "pending"
        /\ tick.mem.recovered = disk[Here].recovered
    BY <1>0, HeldFollows
  <1>3. CASE Close(e, tick.mem)
    BY <1>0, <1>1, <1>2, <1>3, CloseEffect
  <1>4. CASE Finish(Blocked(disk[Here]))
    BY <1>0, <1>1, <1>2, <1>4, BlockFinish
  <1>5. CASE /\ Go("inspect", tick.mem)
             /\ disk' = IF tick.pc = "repair" THEN [disk EXCEPT ![Here] = tick.mem] ELSE disk
    <2>1. "inspect" \in Calls /\ Follows(tick.mem, tick.mem)
      BY <1>2 DEF Calls, Follows
    <2>2. CASE disk' = [disk EXCEPT ![Here] = tick.mem]
      <3>1. Write(Here, tick.mem)
        BY <2>2 DEF Write
      <3> QED BY <1>0, <1>1, <1>2, <1>5, <2>1, <3>1, CarryGo
    <2>3. CASE disk' = disk
      <3>1. Write(Here, disk[Here])
        BY <1>0, <2>3 DEF Write, TypeOK
      <3> QED BY <1>0, <1>1, <1>2, <1>5, <2>1, <3>1, CarryGo
    <2> QED BY <1>5, <2>2, <2>3
  <1> QED BY <1>3, <1>4, <1>5 DEF Redeliver

\* The receipt is looked at.
LEMMA InspectEffect ==
    ASSUME AdmissionAssumption, IInv, NEW late \in BOOLEAN, Inspect(late)
    PROVE  Effect
  <1> DEFINE newer == Coalesced(tick.mem, tick.batch)
  <1>0. /\ TypeOK /\ Named /\ Held /\ tick.pc \in Calls /\ tick.pc = "inspect" /\ Resting /\ env' = env
        /\ forgot' = forgot /\ Here \in Lanes /\ disk[Here] \in Records /\ tick.mem \in Records
        /\ tick.batch \in Batches /\ tick.batch.fp \in Revs
    BY TickType DEF Inspect, IInv, Calls, Resting, server, counts, Named, TypeOK
  <1>1. Served
    BY <1>0, RestingServed
  <1>2. /\ Follows(tick.mem, disk[Here]) /\ Follows(disk[Here], disk[Here]) /\ Follows(tick.mem, tick.mem)
        /\ tick.mem.phase = "pending" /\ disk[Here].phase = "pending"
        /\ tick.mem.recovered = disk[Here].recovered
    BY <1>0, HeldFollows DEF Follows
  <1>3. "repair" \in Calls /\ "redeliver" \in Calls /\ "recover" \in Calls
    BY DEF Calls
  <1>4. CASE Close(Envelope, tick.mem)
    <2>1. Envelope \in Envelopes /\ env'[Key] = Envelope
      BY <1>0, KeyHeld DEF Envelope, TypeOK
    <2> QED BY <1>0, <1>1, <1>2, <1>4, <2>1, CloseEffect
  <1>5. CASE Repair
    <2> DEFINE r == [tick.mem EXCEPT !.repaired = TRUE]
    <2>1. Like(r, tick.mem) /\ r.phase = tick.mem.phase
      BY <1>0, RepairedLike
    <2>2. Write(Here, r) /\ Go("repair", r)
      BY <1>5 DEF Repair
    <2> HIDE DEF r
    <2>3. Follows(r, disk[Here]) /\ Follows(r, r)
      BY <1>2, <2>1 DEF Follows, Like
    <2> QED BY <1>0, <1>1, <1>2, <1>3, <2>1, <2>2, <2>3, CarryGo
  <1>6. CASE Finish(Blocked(disk[Here])) \/ Finish(Blocked(tick.mem))
    BY <1>0, <1>1, <1>2, <1>6, BlockFinish
  <1>7. CASE Go("redeliver", newer) /\ UNCHANGED disk
    <2>1. Follows(newer, disk[Here]) /\ newer.phase = "pending" /\ newer.recovered = disk[Here].recovered
      BY <1>0, <1>2, CoalescedRecord DEF Follows
    <2>2. Write(Here, disk[Here])
      BY <1>0, <1>7 DEF Write, TypeOK
    <2> HIDE DEF newer
    <2> QED BY <1>0, <1>1, <1>2, <1>3, <1>7, <2>1, <2>2, CarryGo
  <1>8. CASE ~tick.mem.recovered /\ Go("recover", tick.mem) /\ UNCHANGED disk
    <2>1. Write(Here, disk[Here])
      BY <1>0, <1>8 DEF Write, TypeOK
    <2> QED BY <1>0, <1>1, <1>2, <1>3, <1>8, <2>1, CarryGo
  <1>9. CASE Finish(tick.mem)
    BY <1>0, <1>1, <1>2, <1>9, CarryFinish DEF TypeOK
  <1> QED BY <1>4, <1>5, <1>6, <1>7, <1>8, <1>9 DEF Inspect, Judge

\* The target is recovered, or not.
LEMMA RecoverEffect ==
    ASSUME AdmissionAssumption, IInv, Recover
    PROVE  Effect
  <1>0. /\ TypeOK /\ Named /\ Held /\ tick.pc \in Calls /\ tick.pc = "recover" /\ env' = env
        /\ forgot' = forgot /\ Here \in Lanes /\ disk[Here] \in Records /\ tick.mem \in Records
    BY TickType DEF Recover, IInv, Calls, server, TypeOK
  <1>1. /\ Follows(tick.mem, disk[Here]) /\ Follows(disk[Here], disk[Here])
        /\ tick.mem.phase = "pending" /\ disk[Here].phase = "pending"
    BY <1>0, HeldFollows
  <1>2. /\ Follows(Recovered(tick.mem), disk[Here]) /\ Recovered(tick.mem).phase = "pending"
        /\ Recovered(tick.mem).fp = tick.mem.fp /\ Recovered(tick.mem).recovered
    BY <1>0, <1>1, RecoveredRecord DEF Follows
  <1>3. Key \in Keys /\ Envelope \in Envelopes /\ env'[Key] = Envelope
    BY <1>0, KeyHeld DEF Envelope, TypeOK
  <1>4. ASSUME recs' = recs PROVE Served
    BY <1>0, <1>4, RestingServed DEF Resting
  <1>5. CASE UNCHANGED recs /\ Finish(IF Proves(Envelope, tick.mem) THEN Consumed(Recovered(tick.mem))
                                      ELSE Blocked(disk[Here]))
    <2>1. Close(Envelope, Recovered(tick.mem))
      BY <1>2, <1>5 DEF Close, Proves
    <2> QED BY <1>0, <1>2, <1>3, <1>4, <1>5, <2>1, CloseEffect
  <1>6. CASE Restarted /\ Finish(Recovered(tick.mem))
    <2>1. /\ recs' = [recs EXCEPT ![Key] = recs[Key] + 1] /\ disk'[Here].recovered
      BY <1>0, <1>2, <1>6, Writing DEF Restarted, Finish, Follows
    <2>2. Waits(env'[Key])
      <3>1. Envelope.state # "none" /\ Envelope.state # "consumed"
        BY <1>0, <1>1, <1>6, KeyHeld DEF IInv, Arrived, Envelope, Restarted
      <3> QED BY <1>3, <3>1 DEF Waits, Envelopes
    <2>3. Served
      BY <1>0, <1>3, <2>1, <2>2 DEF Served, Serves, Counts, TypeOK
    <2> QED BY <1>0, <1>1, <1>2, <1>6, <2>3, CarryFinish DEF TypeOK
  <1>7. CASE UNCHANGED recs /\ Finish(disk[Here])
    BY <1>0, <1>4, <1>7, LeaveEffect
  <1>8. CASE UNCHANGED recs /\ Finish(Blocked(disk[Here]))
    BY <1>0, <1>1, <1>4, <1>8, BlockFinish
  <1> QED BY <1>5, <1>6, <1>7, <1>8 DEF Recover

\* It is recovered, and the reply is lost.
LEMMA RecoveryLostEffect ==
    ASSUME AdmissionAssumption, IInv, RecoveryLost
    PROVE  Effect
  <1>0. /\ TypeOK /\ Named /\ Held /\ tick.pc \in Calls /\ tick.pc = "recover" /\ env' = env
        /\ Here \in Lanes /\ Failed /\ disk[Here] \in Records /\ MaxRev \in Nat
    BY TickType, MaxRevNat DEF RecoveryLost, IInv, Calls, server, TypeOK
  <1>1. /\ forgot' \in [Lanes -> Nat] /\ forgot'[Here] = forgot[Here] + 1
        /\ \A m \in Lanes : forgot'[m] = forgot[m] \/ forgot'[m] = forgot[m] + 1
    BY <1>0 DEF RecoveryLost, TypeOK
  <1>2. /\ recs' = [recs EXCEPT ![Key] = recs[Key] + 1] /\ Key \in Keys
    BY <1>0, KeyHeld DEF RecoveryLost, Restarted
  <1>3. Waits(env'[Key])
    <2>1. Envelope \in Envelopes /\ Envelope.state # "none" /\ Envelope.state # "consumed"
      BY <1>0, <1>2, KeyHeld, HeldFollows DEF IInv, Arrived, Envelope, RecoveryLost, Restarted, TypeOK
    <2> QED BY <1>0, <2>1 DEF Waits, Envelopes, Envelope
  <1>4. Served
    BY <1>0, <1>1, <1>2, <1>3 DEF Served, Serves, Counts, TypeOK
  <1>5. CASE Finish(disk[Here])
    <2>1. disk' = disk
      BY <1>0, <1>5 DEF Finish, Write, TypeOK
    <2>2. \A m \in Lanes : Moves(m)
      BY <1>0, <1>1, <2>1, LaneStays
    <2>3. tick' \in Ticks /\ Ticking
      BY <1>0, <1>5, IdleType DEF Finish, Ticking
    <2> QED BY <1>0, <1>1, <1>4, <2>1, <2>2, <2>3 DEF Effect, TypeOK
  <1>6. CASE Finish(Blocked(disk[Here]))
    <2>1. Follows(Blocked(disk[Here]), disk[Here]) /\ Blocked(disk[Here]).phase = "blocked"
      BY <1>0, HeldFollows, BlockedLike DEF Follows, Like
    <2>2. forgot'[Here] >= forgot[Here] /\ \A m \in Lanes : m # Here => forgot'[m] = forgot[m]
      BY <1>0, <1>1 DEF RecoveryLost, TypeOK
    <2> QED BY <1>0, <1>1, <1>4, <1>6, <2>1, <2>2, CarryFinish
  <1> QED BY <1>0, <1>5, <1>6 DEF Failed

\* The owner resets lanes.
LEMMA ResetEffect ==
    ASSUME AdmissionAssumption, IInv, NEW ls \in SUBSET Lanes, Reset(ls)
    PROVE  Effect
  <1>0. /\ TypeOK /\ Named /\ Held /\ Resting /\ tick' = tick /\ Forget(ls) /\ MaxRev \in Nat
        /\ disk' = [l \in Lanes |-> IF l \in ls THEN NoRecord ELSE disk[l]]
        /\ \A l \in ls : disk[l].phase \in {"none", "blocked", "consumed"}
    BY MaxRevNat DEF Reset, Resting, server, IInv, Resettable
  <1>1. /\ forgot' \in [Lanes -> Nat]
        /\ \A m \in Lanes : /\ forgot'[m] \in {forgot[m], forgot[m] + 1}
                            /\ m \notin ls => forgot'[m] = forgot[m]
                            /\ m \in ls /\ Losing(m) => forgot'[m] = forgot[m] + 1
                            /\ forgot'[m] >= forgot[m]
    BY <1>0, Forgetting
  <1>2. disk' \in [Lanes -> Records] /\ NoRecord.phase = "none"
    BY <1>0, NoRecordType DEF TypeOK
  <1>3. tick.pc \in Calls => Here \in Lanes /\ Here \notin ls
    BY <1>0, KeyHeld
  <1>4. ASSUME NEW l \in Lanes PROVE Moves(l)
    <2>1. CASE l \notin ls
      BY <1>0, <1>1, <2>1, LaneStays
    <2>2. CASE l \in ls
      <3>1. disk'[l].phase = "none"
        BY <1>0, <1>2, <2>2
      <3>2. Waits(env[KeyOf(l, disk[l])]) /\ disk[l].phase # "none" => forgot'[l] = forgot[l] + 1
        BY <1>1, <2>2 DEF Losing, Waits
      <3>3. Stays(l) \/ Drops(l)
        BY <1>3, <2>2, <3>1, <3>2 DEF Stays, Drops
      <3> QED BY <1>1, <3>1, <3>3 DEF Moves, Closes, Arrives
    <2> QED BY <2>1, <2>2
  <1>5. Ticking
    BY <1>0, <1>3 DEF Ticking
  <1> QED BY <1>0, <1>1, <1>2, <1>4, <1>5, RestingServed DEF Effect, TypeOK

\* What leaves the lanes and the tick alone, and serves the envelopes, has an effect on these at most.
LEMMA ServedEffect ==
    ASSUME TypeOK, Served, UNCHANGED <<disk, tick, forgot>>
    PROVE  Effect
  <1>1. \A l \in Lanes : Moves(l)
    BY LaneStays
  <1>2. Ticking
    BY DEF Ticking
  <1> QED BY <1>1, <1>2 DEF Effect, TypeOK

\* Turns end with their envelopes consumed, and fail with them queued again.
LEMMA TurnsServed ==
    ASSUME TypeOK, NEW l \in Lanes, TurnBegins(l) \/ TurnEnds(l) \/ TurnFails(l)
    PROVE  Served /\ UNCHANGED <<outside, disk, tick, forgot>>
  <1>1. CASE TurnBegins(l)
    <2>1. PICK k \in Keys : env[k].state = "pending" /\ env' = [env EXCEPT ![k].state = "taken"]
      BY <1>1 DEF TurnBegins, Addressed
    <2>2. recs' = recs /\ [env[k] EXCEPT !.state = "taken"] \in Envelopes
      BY <1>1, <2>1 DEF TurnBegins, counts, TypeOK, Envelopes
    <2>3. env' = [env EXCEPT ![k] = [env[k] EXCEPT !.state = "taken"]]
      BY <2>1 DEF TypeOK
    <2>4. [env[k] EXCEPT !.state = "taken"].state = "taken"
      BY <2>1 DEF TypeOK, Envelopes
    <2> DEFINE e == [env[k] EXCEPT !.state = "taken"]
    <2>5. e \in Envelopes /\ e.state = "taken" /\ env' = [env EXCEPT ![k] = e] /\ env \in [Keys -> Envelopes]
      BY <2>2, <2>3, <2>4 DEF TypeOK
    <2> HIDE DEF e
    <2>6. ASSUME NEW i \in Keys PROVE Serves(i) /\ Counts(i)
      BY <2>1, <2>2, <2>5 DEF Serves, Counts, Waits
    <2>7. UNCHANGED <<outside, disk, tick, forgot>>
      BY <1>1 DEF TurnBegins, counts
    <2>8. env' \in [Keys -> Envelopes] /\ recs' \in [Keys -> Nat]
      BY <2>2, <2>5 DEF TypeOK
    <2> QED BY <2>6, <2>7, <2>8 DEF Served
  <1>2. CASE TurnEnds(l)
    <2>1. \A k \in Taken(l) : env[k].state = "taken"
      BY DEF Taken
    <2>2. \A k \in Taken(l) : [env[k] EXCEPT !.state = "consumed"] \in Envelopes
                              /\ [env[k] EXCEPT !.state = "consumed"].state = "consumed"
      BY DEF Taken, Addressed, TypeOK, Envelopes
    <2>3. env' \in [Keys -> Envelopes] /\ recs' \in [Keys -> Nat]
      BY <1>2, <2>2 DEF TurnEnds, TypeOK
    <2>4. ASSUME NEW k \in Keys PROVE Serves(k) /\ Counts(k)
      BY <1>2, <2>1, <2>2 DEF Serves, Counts, Waits, TurnEnds, TypeOK
    <2> QED BY <1>2, <2>3, <2>4 DEF Served, TurnEnds
  <1>3. CASE TurnFails(l)
    <2>1. \A k \in Taken(l) : env[k].state = "taken"
      BY DEF Taken
    <2>2. \A k \in Taken(l) : [env[k] EXCEPT !.state = "pending"] \in Envelopes
                              /\ [env[k] EXCEPT !.state = "pending"].state = "pending"
      BY DEF Taken, Addressed, TypeOK, Envelopes
    <2>3. env' \in [Keys -> Envelopes] /\ recs' \in [Keys -> Nat] /\ recs' = recs
      BY <1>3, <2>2 DEF TurnFails, TypeOK
    <2>4. ASSUME NEW k \in Keys PROVE Serves(k) /\ Counts(k)
      BY <1>3, <2>1, <2>2, <2>3 DEF Serves, Counts, Waits, TurnFails, TypeOK
    <2> QED BY <1>3, <2>3, <2>4 DEF Served, TurnFails
  <1> QED BY <1>1, <1>2, <1>3

-----------------------------------------------------------------------------
(* The condition, the registry, the counters *)

\* What else a step may change.
Changes ==
    /\ kind' = kind
    /\ open' \in BOOLEAN /\ rev' \in 0..MaxRev /\ (open' => rev' \in Revs)
    /\ owner' \in [gen : 1..MaxGen, authoritative : BOOLEAN] /\ owner'.gen >= owner.gen
    /\ turn' \in [Lanes -> {"idle", "busy"}]
    /\ faults' \in 0..FaultsOf[kind] /\ resets' \in 0..ResetsOf[kind]

\* A failure is counted up to its bound.
LEMMA FaultType ==
    ASSUME AdmissionAssumption, TypeOK, Fault \/ UNCHANGED faults
    PROVE  faults' \in 0..FaultsOf[kind]
  BY DEF AdmissionAssumption, TypeOK, Fault

\* The steps of a tick, of the owner and of the server leave the condition and the
\* registry alone.
LEMMA InnerChanges ==
    ASSUME AdmissionAssumption, IInv, UNCHANGED outside, turn' \in [Lanes -> {"idle", "busy"}],
           Fault \/ UNCHANGED faults, resets' \in 0..ResetsOf[kind]
    PROVE  Changes
  BY FaultType DEF IInv, TypeOK, Named, Changes, outside

\* The steps of a tick.
LEMMA TickChanges ==
    ASSUME AdmissionAssumption, IInv, TickStep
    PROVE  Changes
  <1>1. TypeOK /\ Here \in Lanes
    BY TickType DEF IInv
  <1>2. ASSUME NEW e, Sent(e) PROVE turn' \in [Lanes -> {"idle", "busy"}]
    BY <1>1, <1>2 DEF Sent, TypeOK
  <1>3. ASSUME UNCHANGED turn PROVE turn' \in [Lanes -> {"idle", "busy"}]
    BY <1>1, <1>3 DEF TypeOK
  <1>4. ASSUME NEW l \in Lanes, Begin(l) \/ Refused(l) PROVE Changes
    <2>1. UNCHANGED <<outside, turn, resets>> /\ (Fault \/ UNCHANGED faults)
      BY <1>4 DEF Begin, Refused, server, counts
    <2> QED BY <1>1, <1>3, <2>1, InnerChanges DEF TypeOK
  <1>5. ASSUME NEW flag \in BOOLEAN, Cycle(flag) \/ Inspect(flag) PROVE Changes
    <2>1. UNCHANGED <<outside, turn, resets>> /\ (Fault \/ UNCHANGED faults)
      BY <1>5 DEF Cycle, Inspect, server, counts
    <2> QED BY <1>1, <1>3, <2>1, InnerChanges DEF TypeOK
  <1>6. ASSUME NEW e \in Envelopes, Deliver(e) \/ Redeliver(e) PROVE Changes
    <2>1. UNCHANGED <<outside, resets>> /\ (Fault \/ UNCHANGED faults) /\ Sent(e)
      BY <1>6 DEF Deliver, Redeliver
    <2> QED BY <1>1, <1>2, <2>1, InnerChanges DEF TypeOK
  <1>7. CASE ReplyLost
    <2>1. UNCHANGED <<outside, resets>> /\ (Fault \/ UNCHANGED faults)
          /\ Sent(Received(Envelope, tick.mem.fp))
      BY <1>7 DEF ReplyLost
    <2> QED BY <1>1, <1>2, <2>1, InnerChanges DEF TypeOK
  <1>8. CASE Recover \/ CallFails \/ RecoveryLost \/ Crash
    <2>1. UNCHANGED <<outside, turn, resets>> /\ (Fault \/ UNCHANGED faults)
      BY <1>8 DEF Recover, CallFails, RecoveryLost, Crash, server
    <2> QED BY <1>1, <1>3, <2>1, InnerChanges DEF TypeOK
  <1> QED BY <1>4, <1>5, <1>6, <1>7, <1>8 DEF TickStep

\* The effect of every step.
LEMMA StepEffect ==
    ASSUME AdmissionAssumption, IInv, [Next]_vars
    PROVE  Effect /\ Changes
  <1>0. TypeOK
    BY DEF IInv
  <1>1. CASE TickStep
    BY <1>1, TickChanges, BeginEffect, RefusedEffect, CycleEffect, InspectEffect, DeliverEffect,
       RedeliverEffect, RecoverEffect, CallFailsEffect, ReplyLostEffect, RecoveryLostEffect, CrashEffect
       DEF TickStep
  <1>2. ASSUME NEW ls \in SUBSET Lanes, Reset(ls) PROVE Effect /\ Changes
    <2>1. UNCHANGED <<outside, turn, faults>> /\ resets' \in 0..ResetsOf[kind]
      BY <1>0, <1>2 DEF Reset, server, TypeOK, AdmissionAssumption
    <2> QED BY <1>0, <1>2, <2>1, ResetEffect, InnerChanges DEF TypeOK
  <1>3. CASE Condition
    <2>1. Effect
      <3>1. Resting /\ UNCHANGED <<disk, tick, forgot>>
        BY <1>3 DEF Condition, Resting, server, counts
      <3> QED BY <1>0, <3>1, RestingServed, ServedEffect
    <2>2. MaxRev \in Nat /\ RevsOf[kind] \in Nat /\ RevsOf[kind] <= MaxRev
      BY <1>0, MaxRevIsMax DEF TypeOK
    <2>3. UNCHANGED <<kind, owner, turn, faults, resets>>
      BY <1>3 DEF Condition, server, counts
    <2>4. open' \in BOOLEAN /\ rev' \in 0..MaxRev /\ rev' \in Revs
      <3>1. rev' \in 0..MaxRev /\ rev' \in Revs
        BY <1>0, <1>3, <2>2 DEF Condition, TypeOK, Revs
      <3>2. open' = (~open) \/ open' = TRUE
        BY <1>3 DEF Condition
      <3>3. open' \in BOOLEAN
        BY <3>2, Zenon
      <3> QED BY <3>1, <3>3
    <2> QED BY <1>0, <2>1, <2>3, <2>4 DEF Changes, TypeOK
  <1>4. CASE Registry
    <2>1. Effect
      <3>1. Resting /\ UNCHANGED <<disk, tick, forgot>>
        BY <1>4 DEF Registry, Resting, counts
      <3> QED BY <1>0, <3>1, RestingServed, ServedEffect
    <2>2. UNCHANGED <<kind, open, rev, faults, resets>>
      BY <1>4 DEF Registry, counts
    <2>3. owner' \in [gen : 1..MaxGen, authoritative : BOOLEAN] /\ owner'.gen >= owner.gen
      <3>1. CASE owner' = [owner EXCEPT !.authoritative = ~owner.authoritative]
        <4>1. owner \in [gen : 1..MaxGen, authoritative : BOOLEAN] /\ owner.gen \in 1..MaxGen
              /\ owner.gen >= owner.gen /\ (~owner.authoritative) \in BOOLEAN
          BY <1>0 DEF TypeOK, AdmissionAssumption
        <4> DEFINE a == ~owner.authoritative
        <4>2. a \in BOOLEAN /\ owner' = [owner EXCEPT !.authoritative = a]
          BY <3>1, <4>1
        <4> HIDE DEF a
        <4> QED BY <4>1, <4>2
      <3>2. CASE owner.gen < MaxGen /\ owner' = [gen |-> owner.gen + 1, authoritative |-> TRUE]
        BY <1>0, <3>2 DEF TypeOK, AdmissionAssumption
      <3> QED BY <1>4, <3>1, <3>2 DEF Registry
    <2>4. turn' \in [Lanes -> {"idle", "busy"}]
      BY <1>0, <1>4 DEF Registry, TypeOK, Lanes
    <2> QED BY <1>0, <2>1, <2>2, <2>3, <2>4 DEF Changes, TypeOK, IInv, Named
  <1>5. ASSUME NEW l \in Lanes, TurnBegins(l) \/ TurnEnds(l) \/ TurnFails(l) PROVE Effect /\ Changes
    <2>1. Served /\ UNCHANGED <<outside, disk, tick, forgot>>
      BY <1>0, <1>5, TurnsServed
    <2>2. turn' \in [Lanes -> {"idle", "busy"}]
      BY <1>0, <1>5 DEF TurnBegins, TurnEnds, TurnFails, TypeOK
    <2>3. resets' = resets /\ (Fault \/ UNCHANGED faults)
      BY <1>5 DEF TurnBegins, TurnEnds, TurnFails, counts
    <2> QED BY <1>0, <2>1, <2>2, <2>3, ServedEffect, InnerChanges DEF TypeOK
  <1>6. CASE UNCHANGED vars
    <2>1. Resting /\ UNCHANGED <<disk, tick, forgot, outside, turn, faults, resets>>
      BY <1>6 DEF vars, outside, server, counts, Resting
    <2> QED BY <1>0, <2>1, RestingServed, ServedEffect, InnerChanges DEF TypeOK
  <1> QED BY <1>1, <1>2, <1>3, <1>4, <1>5, <1>6 DEF Next

-----------------------------------------------------------------------------
(* The invariant is kept *)

\* Generations are looked at in order.
LEMMA FloorRises ==
    ASSUME AdmissionAssumption, IInv, Effect, Changes
    PROVE  /\ \A l \in Lanes : Floor(l) \in Nat /\ Floor(l)' \in Nat /\ Floor(l)' >= Floor(l)
           /\ Floor("direct")' <= owner'.gen
           /\ tick'.pc # "idle" /\ tick'.lane = "controller" => tick'.batch.gen = 0
  <1>0. /\ owner.gen \in Nat /\ owner'.gen \in Nat /\ owner'.gen >= owner.gen
        /\ TypeOK /\ tick.batch.gen \in Nat /\ Floor("direct") <= owner.gen
        /\ (tick.pc # "idle" /\ Here = "controller" => tick.batch.gen = 0)
    <2>1. tick.batch \in Batches
      BY TickType DEF IInv
    <2> QED BY <2>1 DEF IInv, TypeOK, Changes, Batches, Gens, Generations, AdmissionAssumption
  <1>1. /\ Floor("controller") = 0 /\ Floor("controller")' = 0
        /\ Floor("direct") = (IF tick.pc # "idle" /\ tick.lane = "direct" THEN tick.batch.gen ELSE owner.gen)
        /\ Floor("direct")' =
              (IF tick'.pc # "idle" /\ tick'.lane = "direct" THEN tick'.batch.gen ELSE owner'.gen)
    BY DEF Floor, Here
  <1>2. Ticking
    BY DEF Effect
  <1>3. CASE tick'.pc = "idle"
    BY <1>0, <1>1, <1>3 DEF Lanes
  <1>4. ASSUME NEW l \in Lanes, tick.pc = "idle", l = "direct" => BatchFor(l).gen = owner.gen,
               tick'.pc = "cycle", tick'.lane = l, tick'.batch = BatchFor(l)
        PROVE  /\ \A m \in Lanes : Floor(m) \in Nat /\ Floor(m)' \in Nat /\ Floor(m)' >= Floor(m)
               /\ Floor("direct")' <= owner'.gen
               /\ tick'.pc # "idle" /\ tick'.lane = "controller" => tick'.batch.gen = 0
    <2>1. l = "controller" => BatchFor(l).gen = 0
      BY <1>4, BatchMade
    <2> QED BY <1>0, <1>1, <1>4, <2>1 DEF Lanes
  <1>5. CASE tick.pc # "idle" /\ tick'.lane = Here /\ tick'.batch = tick.batch
    BY <1>0, <1>1, <1>5 DEF Lanes, Here
  <1>6. CASE tick' = tick
    BY <1>0, <1>1, <1>6 DEF Lanes, Here
  <1> QED BY <1>2, <1>3, <1>4, <1>5, <1>6 DEF Ticking

\* So a lane never goes back to an earlier target.
LEMMA LowRises ==
    ASSUME AdmissionAssumption, IInv, Effect, Changes, NEW l \in Lanes
    PROVE  /\ Low(l) \in Nat /\ Low(l)' \in Nat /\ Low(l)' >= Low(l)
           /\ disk'[l].phase # "none" => disk'[l].gen <= Floor(l)'
           /\ disk[l].phase # "none" => disk[l].gen <= Floor(l)
           /\ Starts(l) => Low(l)' = Floor(l)
  <1>0. /\ disk[l] \in Records /\ disk'[l] \in Records /\ Moves(l)
        /\ Floor(l) \in Nat /\ Floor(l)' \in Nat /\ Floor(l)' >= Floor(l)
        /\ (disk[l].phase # "none" => disk[l].gen <= Floor(l))
    BY FloorRises DEF IInv, TypeOK, Effect, Generations
  <1>1. disk[l].gen \in Nat /\ disk'[l].gen \in Nat
    BY <1>0, RecordType DEF Gens
  <1>2. Low(l) = (IF disk[l].phase = "none" THEN Floor(l) ELSE disk[l].gen)
        /\ Low(l)' = (IF disk'[l].phase = "none" THEN Floor(l)' ELSE disk'[l].gen)
    BY DEF Low
  <1>3. CASE Stays(l)
    BY <1>0, <1>1, <1>2, <1>3 DEF Stays, Starts
  <1>4. CASE Carries(l)
    BY <1>0, <1>1, <1>2, <1>4 DEF Carries, Starts
  <1>5. CASE Starts(l)
    BY <1>0, <1>1, <1>2, <1>5 DEF Starts
  <1>6. CASE Drops(l)
    BY <1>0, <1>1, <1>2, <1>6 DEF Drops, Starts
  <1> QED BY <1>0, <1>3, <1>4, <1>5, <1>6 DEF Moves

\* The envelopes one target of a lane may ever have: finitely many.
Slots(l, g) == {k \in Keys : k[1] = l /\ k[2] = g}

\* There are as many as there are revisions.
LEMMA SlotsFinite ==
    ASSUME MaxRev \in Nat, NEW l \in Lanes, NEW g \in Gens
    PROVE  IsFiniteSet(Slots(l, g))
  <1> DEFINE f == [n \in Revs |-> <<l, g, n>>]
  <1>1. IsFiniteSet(Revs)
    BY FS_Interval DEF Revs
  <1>2. \A n \in Revs : <<l, g, n>> \in Slots(l, g)
    BY DEF Slots, Keys
  <1>3. \A k \in Slots(l, g) : \E n \in Revs : k = <<l, g, n>>
    BY DEF Slots, Keys
  <1>4. f \in Surjection(Revs, Slots(l, g))
    BY <1>2, <1>3 DEF Surjection
  <1> QED BY <1>1, <1>4, FS_Surjection

\* What waits of them, before and after a step.
LEMMA OutFinite ==
    ASSUME MaxRev \in Nat, NEW l \in Lanes, NEW g \in Gens
    PROVE  /\ IsFiniteSet(Out(l, g)) /\ IsFiniteSet(Out(l, g)')
           /\ Cardinality(Out(l, g)) \in Nat /\ Cardinality(Out(l, g)') \in Nat
           /\ IsFiniteSet(Out(l, g) \ Mine(l)) /\ Cardinality(Out(l, g) \ Mine(l)) \in Nat
           /\ IsFiniteSet(Out(l, g)' \ Mine(l)') /\ Cardinality(Out(l, g)' \ Mine(l)') \in Nat
  <1>1. Out(l, g) \in SUBSET Slots(l, g) /\ Out(l, g)' \in SUBSET Slots(l, g)
    BY DEF Out, Slots
  <1>2. IsFiniteSet(Out(l, g)) /\ IsFiniteSet(Out(l, g)')
    BY <1>1, SlotsFinite, FS_Subset
  <1>3. Out(l, g) \ Mine(l) \in SUBSET Out(l, g) /\ Out(l, g)' \ Mine(l)' \in SUBSET Out(l, g)'
    OBVIOUS
  <1> QED BY <1>2, <1>3, FS_Subset, FS_CardinalityType

\* One key more or less.
LEMMA OneMore ==
    ASSUME NEW S, NEW T, NEW x, IsFiniteSet(S), T \subseteq S \cup {x}
    PROVE  Cardinality(T) <= Cardinality(S) + 1
  <1>1. IsFiniteSet(S \cup {x}) /\ Cardinality(S) \in Nat /\ Cardinality(S \cup {x}) <= Cardinality(S) + 1
    <2>1. Cardinality(S) \in Nat
      BY FS_CardinalityType
    <2>2. IsFiniteSet(S \cup {x})
          /\ Cardinality(S \cup {x}) = IF x \in S THEN Cardinality(S) ELSE Cardinality(S) + 1
      BY FS_AddElement
    <2> QED BY <2>1, <2>2
  <1>2. IsFiniteSet(T) /\ Cardinality(T) <= Cardinality(S \cup {x}) /\ Cardinality(T) \in Nat
    BY <1>1, FS_Subset, FS_CardinalityType
  <1>3. Cardinality(S \cup {x}) \in Nat
    BY <1>1, FS_CardinalityType
  <1> QED BY <1>1, <1>2, <1>3

\* What a lane follows waits, if at all, for its generation; in the middle of a call it is
\* the key of the call, and the record may only stay or carry on.
LEMMA Following ==
    ASSUME AdmissionAssumption, IInv, Effect, NEW l \in Lanes
    PROVE  /\ \A k \in Mine(l) : k = KeyOf(l, disk[l]) /\ k[2] = disk[l].gen /\ disk[l].phase # "none"
           /\ \A k \in Mine(l)' : k = KeyOf(l, disk'[l])
           /\ tick.pc \in Calls /\ Here = l => Key \in Mine(l) /\ (Stays(l) \/ Carries(l))
           /\ Stays(l) => Mine(l)' = Mine(l)
           /\ Carries(l) => Mine(l) \subseteq Mine(l)' /\ Mine(l)' = {KeyOf(l, disk[l])}
  <1>1. TypeOK /\ Named /\ Held /\ Moves(l)
    BY DEF IInv, Effect
  <1>2. ASSUME tick.pc \in Calls, Here = l PROVE Key \in Mine(l) /\ (Stays(l) \/ Carries(l))
    <2>1. Key = KeyOf(l, disk[l]) /\ disk[l].phase \in {"prepared", "pending"}
      BY <1>1, <1>2, KeyHeld
    <2>2. Key \in Mine(l)
      BY <2>1 DEF Mine
    <2>3. ~Starts(l) /\ ~Drops(l)
      BY <1>2, <2>1 DEF Starts, Drops
    <2> QED BY <1>1, <2>2, <2>3 DEF Moves
  <1> QED BY <1>2 DEF Mine, KeyOf, Stays, Carries

\* A record that starts anew leaves nothing behind that waits for a generation to come.
LEMMA NothingLeft ==
    ASSUME AdmissionAssumption, IInv, Effect, Changes, NEW l \in Lanes, Starts(l), NEW k \in Mine(l),
           Waits(env[k])
    PROVE  k[2] < Low(l)' /\ k[2] \in Nat
  <1>1. k = KeyOf(l, disk[l]) /\ disk[l].phase \notin {"none", "probe-deferred"} /\ k[2] = disk[l].gen
    BY DEF Mine, KeyOf
  <1>2. disk[l].phase # "consumed"
    BY <1>1 DEF IInv, ConsumedCovers, Waits
  <1>3. disk[l].gen # Floor(l)
    BY <1>1, <1>2 DEF Starts
  <1>4. disk[l].gen <= Floor(l) /\ Low(l)' = Floor(l)
    BY <1>1, LowRises
  <1>5. disk[l].gen \in Nat /\ Floor(l) \in Nat
    BY FloorRises, RecordType DEF IInv, TypeOK, Gens
  <1> QED BY <1>1, <1>3, <1>4, <1>5

\* The envelopes that wait are those that did, and the one of the call.
LEMMA Waiting ==
    ASSUME AdmissionAssumption, IInv, Effect, NEW l \in Lanes, NEW g \in Gens
    PROVE  /\ \A k \in Out(l, g)' : k \in Keys /\ k[1] = l /\ k[2] = g
                 /\ (k \in Out(l, g) \/ (tick.pc \in Calls /\ Here = l /\ k = Key))
           /\ ~(tick.pc \in Calls /\ Here = l) => Out(l, g)' \subseteq Out(l, g)
  <1>1. \A k \in Keys : Serves(k)
    BY DEF Effect, Served
  <1>2. tick.pc \in Calls => Key[1] = Here
    BY KeyHeld DEF IInv
  <1>3. \A k \in Out(l, g)' : k \in Keys /\ k[1] = l /\ k[2] = g /\ Waits(env'[k])
    BY DEF Out, Waits
  <1>4. \A k \in Out(l, g)' : k \in Out(l, g) \/ (tick.pc \in Calls /\ Here = l /\ k = Key)
    BY <1>1, <1>2, <1>3 DEF Serves, Out
  <1> QED BY <1>3, <1>4

\* Of the generations to come, what waits unfollowed was forgotten.
LEMMA TrackedAhead ==
    ASSUME AdmissionAssumption, IInv, Effect, Changes, NEW l \in Lanes, NEW g \in Gens, g >= Low(l)'
    PROVE  Cardinality(Out(l, g)' \ Mine(l)') <= forgot'[l]
  <1>0. /\ MaxRev \in Nat /\ Moves(l) /\ forgot[l] \in Nat /\ forgot'[l] \in Nat /\ forgot'[l] >= forgot[l]
    BY MaxRevNat DEF IInv, TypeOK, Effect, Moves
  <1>1. g >= Low(l)
    BY LowRises DEF Gens
  <1>2. Cardinality(Out(l, g) \ Mine(l)) <= forgot[l]
    BY <1>1 DEF IInv, Tracked
  <1>3. /\ IsFiniteSet(Out(l, g) \ Mine(l)) /\ Cardinality(Out(l, g) \ Mine(l)) \in Nat
        /\ Cardinality(Out(l, g)' \ Mine(l)') \in Nat
    BY <1>0, OutFinite
  <1>4. ASSUME Out(l, g)' \ Mine(l)' \subseteq Out(l, g) \ Mine(l)
        PROVE  Cardinality(Out(l, g)' \ Mine(l)') <= forgot'[l]
    <2>1. Cardinality(Out(l, g)' \ Mine(l)') <= Cardinality(Out(l, g) \ Mine(l))
      BY <1>3, <1>4, FS_Subset
    <2> QED BY <1>0, <1>2, <1>3, <2>1
  <1>5. CASE Stays(l) \/ Carries(l)
    <2>1. Mine(l) \subseteq Mine(l)' /\ (tick.pc \in Calls /\ Here = l => Key \in Mine(l))
      BY <1>5, Following
    <2>2. Out(l, g)' \ Mine(l)' \subseteq Out(l, g) \ Mine(l)
      BY <2>1, Waiting
    <2> QED BY <1>4, <2>2
  <1>6. CASE Starts(l) /\ ~(Stays(l) \/ Carries(l))
    <2>1. Out(l, g)' \subseteq Out(l, g)
      BY <1>6, Waiting, Following
    <2>2. \A k \in Mine(l) : k \notin Out(l, g)
      <3>1. SUFFICES ASSUME NEW k \in Mine(l), k \in Out(l, g) PROVE FALSE
        OBVIOUS
      <3>2. Waits(env[k]) /\ k[2] = g
        BY <3>1 DEF Out
      <3>3. k[2] < Low(l)' /\ k[2] \in Nat
        BY <1>6, <3>1, <3>2, NothingLeft
      <3> QED BY <3>2, <3>3, LowRises
    <2> QED BY <1>4, <2>1, <2>2
  <1>7. CASE Drops(l) /\ ~(Stays(l) \/ Carries(l))
    <2>1. Out(l, g)' \subseteq Out(l, g)
      BY <1>7, Waiting, Following
    <2> DEFINE q == KeyOf(l, disk[l])
    <2>2. Mine(l) \subseteq {q}
      BY DEF Mine
    <2>3. CASE Waits(env[q])
      <3>1. forgot'[l] = forgot[l] + 1
        BY <1>7, <2>3 DEF Drops
      <3>2. Out(l, g)' \ Mine(l)' \subseteq (Out(l, g) \ Mine(l)) \cup {q}
        BY <2>1, <2>2
      <3>3. Cardinality(Out(l, g)' \ Mine(l)') <= Cardinality(Out(l, g) \ Mine(l)) + 1
        BY <1>3, <3>2, OneMore
      <3> QED BY <1>0, <1>2, <1>3, <3>1, <3>3
    <2>4. CASE ~Waits(env[q])
      <3>1. q \notin Out(l, g)
        BY <2>4 DEF Out
      <3> QED BY <1>4, <2>1, <2>2, <3>1
    <2> QED BY <2>3, <2>4
  <1> QED BY <1>0, <1>5, <1>6, <1>7 DEF Moves

\* Of any generation, one envelope waits besides.
LEMMA TrackedAll ==
    ASSUME AdmissionAssumption, IInv, Effect, Changes, NEW l \in Lanes, NEW g \in Gens
    PROVE  Cardinality(Out(l, g)') <= 1 + forgot'[l]
  <1>0. /\ MaxRev \in Nat /\ forgot[l] \in Nat /\ forgot'[l] \in Nat /\ forgot'[l] >= forgot[l]
    BY MaxRevNat DEF IInv, TypeOK, Effect, Moves
  <1>1. /\ IsFiniteSet(Out(l, g)) /\ Cardinality(Out(l, g)) \in Nat /\ Cardinality(Out(l, g)') \in Nat
        /\ IsFiniteSet(Out(l, g)' \ Mine(l)') /\ Cardinality(Out(l, g)' \ Mine(l)') \in Nat
    BY <1>0, OutFinite
  <1>2. CASE g >= Low(l)'
    <2> DEFINE q == KeyOf(l, disk'[l])
    <2>1. Out(l, g)' \subseteq (Out(l, g)' \ Mine(l)') \cup {q}
      BY Following
    <2>2. Cardinality(Out(l, g)') <= Cardinality(Out(l, g)' \ Mine(l)') + 1
      BY <1>1, <2>1, OneMore
    <2>3. Cardinality(Out(l, g)' \ Mine(l)') <= forgot'[l]
      BY <1>2, TrackedAhead
    <2> QED BY <1>0, <1>1, <2>2, <2>3
  <1>3. CASE ~(g >= Low(l)')
    <2>1. Out(l, g)' \subseteq Out(l, g)
      <3>1. SUFFICES ASSUME NEW k \in Out(l, g)', k \notin Out(l, g) PROVE FALSE
        OBVIOUS
      <3>2. tick.pc \in Calls /\ Here = l /\ k = Key /\ k[2] = g
        BY <3>1, Waiting
      <3>3. (Stays(l) \/ Carries(l)) /\ Key \in Mine(l)
        BY <3>2, Following
      <3>4. g = disk[l].gen /\ disk[l].phase # "none"
        BY <3>2, <3>3, Following
      <3>5. Low(l)' = g
        BY <3>3, <3>4 DEF Low, Stays, Carries
      <3> QED BY <1>3, <3>5 DEF Gens
    <2>2. Cardinality(Out(l, g)') <= Cardinality(Out(l, g))
      BY <1>1, <2>1, FS_Subset
    <2>3. Cardinality(Out(l, g)) <= 1 + forgot[l]
      BY DEF IInv, Tracked
    <2> QED BY <1>0, <1>1, <2>2, <2>3
  <1> QED BY <1>2, <1>3

\* Recoveries are counted.
LEMMA RecoveringKept ==
    ASSUME AdmissionAssumption, IInv, Effect, Changes
    PROVE  Recovering'
  <1> SUFFICES ASSUME NEW k \in Keys
               PROVE  /\ recs'[k] > 0 => Waits(env'[k])
                      /\ recs'[k] <= 1 + forgot'[k[1]]
                      /\ k[2] >= Low(k[1])' /\ ~(k \in Mine(k[1])' /\ disk'[k[1]].recovered)
                             => recs'[k] <= forgot'[k[1]]
    BY DEF Recovering, Waits
  <1> DEFINE l == k[1]
  <1>0. /\ l \in Lanes /\ k[2] \in Gens /\ k[2] \in Nat
    BY DEF Keys, Gens
  <1>1. /\ Counts(k) /\ Moves(l) /\ forgot[l] \in Nat /\ forgot'[l] \in Nat /\ forgot'[l] >= forgot[l]
        /\ recs[k] \in Nat /\ recs'[k] \in Nat
    BY <1>0 DEF IInv, TypeOK, Effect, Served, Moves
  <1>2. /\ recs[k] > 0 => Waits(env[k])
        /\ recs[k] <= 1 + forgot[l]
        /\ k[2] >= Low(l) /\ ~(k \in Mine(l) /\ disk[l].recovered) => recs[k] <= forgot[l]
    BY DEF IInv, Recovering
  <1>3. Low(l) \in Nat /\ Low(l)' \in Nat /\ Low(l)' >= Low(l)
    BY <1>0, LowRises
  <1> HIDE DEF l
  <1>4. CASE recs'[k] = 0
    BY <1>1, <1>4 DEF l
  <1>5. CASE recs'[k] = recs[k] /\ recs[k] > 0 /\ Waits(env'[k])
    <2>1. ASSUME k[2] >= Low(l)', ~(k \in Mine(l)' /\ disk'[l].recovered), k \in Mine(l), disk[l].recovered
          PROVE  recs'[k] <= forgot'[l]
      <3>1. Waits(env[k]) /\ k = KeyOf(l, disk[l])
        BY <1>0, <1>2, <1>5, <2>1, Following
      <3>2. ~Stays(l) /\ ~Carries(l)
        BY <1>0, <2>1, Following DEF Stays, Carries, Mine
      <3>3. ~Starts(l)
        BY <1>0, <1>3, <2>1, <3>1, NothingLeft
      <3>4. forgot'[l] = forgot[l] + 1
        BY <1>1, <3>1, <3>2, <3>3 DEF Moves, Drops
      <3> QED BY <1>1, <1>2, <1>5, <3>4
    <2>2. ASSUME k[2] >= Low(l)', ~(k \in Mine(l) /\ disk[l].recovered)
          PROVE  recs'[k] <= forgot'[l]
      BY <1>0, <1>1, <1>2, <1>3, <1>5, <2>2
    <2> QED BY <1>1, <1>2, <1>5, <2>1, <2>2 DEF l
  <1>6. CASE /\ tick.pc = "recover" /\ k = Key /\ recs'[k] = recs[k] + 1 /\ Waits(env'[k])
             /\ disk'[Here].recovered \/ forgot'[Here] = forgot[Here] + 1
    <2>1. tick.pc \in Calls /\ Key = KeyOf(Here, disk[Here]) /\ Here = l
      BY <1>6, KeyHeld DEF Calls, IInv, l
    <2>2. /\ k \in Mine(l) /\ (Stays(l) \/ Carries(l)) /\ k \in Mine(l)'
      BY <1>0, <1>6, <2>1, Following
    <2>3. ~disk[l].recovered
      BY <1>6, <2>1 DEF IInv, Held, Agree
    <2>4. Low(l) = k[2]
      BY <1>0, <2>2, Following DEF Low
    <2>5. recs[k] <= forgot[l]
      BY <1>2, <1>3, <2>3, <2>4
    <2> QED BY <1>1, <1>6, <2>1, <2>2, <2>5 DEF l
  <1>7. recs[k] = 0 \/ recs[k] > 0
    BY <1>1
  <1> QED BY <1>1, <1>2, <1>4, <1>5, <1>6, <1>7 DEF Counts

\* The smaller parts of the invariant: the types,
LEMMA TypeKept ==
    ASSUME AdmissionAssumption, IInv, Effect, Changes
    PROVE  TypeOK'
  <1>1. MaxRev' = MaxRev
    OBVIOUS
  <1> QED BY DEF TypeOK, Effect, Served, Changes, IInv

\* Named is kept.
LEMMA NamedKept ==
    ASSUME AdmissionAssumption, IInv, Effect, Changes
    PROVE  Named'
  <1>1. ASSUME NEW l \in Lanes, disk'[l].phase # "none" PROVE disk'[l].key \in Revs /\ disk'[l].fp \in Revs
    BY <1>1 DEF Effect, Moves, Stays, Carries, Starts, Drops, IInv, Named
  <1>2. ASSUME tick'.pc # "idle" PROVE tick'.batch.fp \in Revs
    BY <1>2, BatchMade DEF Effect, Ticking, IInv, Named, Calls
  <1> QED BY <1>1, <1>2 DEF Changes, Named

\* Held is kept.
LEMMA HeldKept ==
    ASSUME AdmissionAssumption, IInv, Effect, Changes
    PROVE  Held'
  <1>1. Held' = (tick'.pc \in Calls => Agree(tick', disk'[tick'.lane]))
    BY DEF Held, Here
  <1>2. ASSUME tick'.pc \in Calls PROVE Agree(tick', disk'[tick'.lane])
    <2>1. Ticking
      BY DEF Effect
    <2>2. CASE tick'.lane = Here /\ Agree(tick', disk'[Here])
      BY <2>2
    <2>3. CASE tick' = tick /\ (tick.pc \in Calls => disk'[Here] = disk[Here])
      BY <1>2, <2>3 DEF IInv, Held, Here
    <2> QED BY <1>2, <2>1, <2>2, <2>3 DEF Ticking, Calls
  <1> QED BY <1>1, <1>2

\* Generations is kept.
LEMMA GenerationsKept ==
    ASSUME AdmissionAssumption, IInv, Effect, Changes
    PROVE  Generations'
  <1>1. \A l \in Lanes : disk'[l].phase # "none" => disk'[l].gen <= Floor(l)'
    BY LowRises
  <1> QED BY <1>1, FloorRises DEF Generations, Here

\* ConsumedCovers is kept: a consumed envelope does not change any more.
LEMMA CoversKept ==
    ASSUME AdmissionAssumption, IInv, Effect, Changes
    PROVE  ConsumedCovers'
  <1>1. ASSUME NEW l \in Lanes, disk'[l].phase = "consumed"
        PROVE  env'[KeyOf(l, disk'[l])].state = "consumed" /\ env'[KeyOf(l, disk'[l])].content = disk'[l].fp
    <2>1. CASE Stays(l)
      <3>1. disk'[l] = disk[l] /\ disk[l].phase = "consumed"
        BY <1>1, <2>1 DEF Stays
      <3>2. KeyOf(l, disk[l]) \in Keys
        BY <3>1, KeyTyped DEF IInv
      <3>3. env'[KeyOf(l, disk[l])] = env[KeyOf(l, disk[l])]
        BY <3>1, <3>2 DEF Effect, Served, Serves, IInv, ConsumedCovers
      <3> QED BY <3>1, <3>3 DEF IInv, ConsumedCovers
    <2> QED BY <1>1, <2>1 DEF Effect, Moves, Closes
  <1> QED BY <1>1 DEF ConsumedCovers, KeyOf

\* Arrived is kept.
LEMMA ArrivedKept ==
    ASSUME AdmissionAssumption, IInv, Effect, Changes
    PROVE  Arrived'
  <1>1. \A k \in Keys : env'[k].state = "none" => env[k] = env'[k]
    BY DEF Effect, Served, Serves
  <1>2. ASSUME NEW l \in Lanes, disk'[l].phase = "pending"
        PROVE  env'[KeyOf(l, disk'[l])].state # "none"
    <2>1. CASE disk[l].phase = "pending" /\ KeyOf(l, disk[l]) = KeyOf(l, disk'[l])
      <3>1. KeyOf(l, disk[l]) \in Keys
        BY <2>1, KeyTyped DEF IInv
      <3> QED BY <1>1, <2>1, <3>1 DEF IInv, Arrived
    <2> QED BY <1>2, <2>1 DEF Effect, Moves, Arrives
  <1>3. \A k \in Keys : env'[k].state = "none" => env'[k].content = 0
    BY <1>1 DEF IInv, Arrived
  <1> QED BY <1>2, <1>3 DEF Arrived, KeyOf

\* The invariant holds at first.
LEMMA InitInv ==
    ASSUME AdmissionAssumption, Init
    PROVE  IInv
  <1>0. kind \in Kinds /\ MaxRev \in Nat
    BY MaxRevIsMax DEF Init
  <1>1. NoRecord \in Records /\ NoRecord.phase = "none" /\ Idle \in Ticks /\ Idle.pc = "idle"
    BY <1>0, NoRecordType, IdleType
  <1>2. TypeOK
    <2>1. NoEnvelope \in Envelopes
      BY <1>0 DEF Envelopes, NoEnvelope
    <2>2. env \in [Keys -> Envelopes] /\ disk \in [Lanes -> Records] /\ tick \in Ticks
      BY <1>1, <2>1 DEF Init
    <2>3. owner \in [gen : 1..MaxGen, authoritative : BOOLEAN]
      BY DEF Init, AdmissionAssumption
    <2>4. faults \in 0..FaultsOf[kind] /\ resets \in 0..ResetsOf[kind]
      BY <1>0 DEF Init, AdmissionAssumption
    <2>5. rev \in 0..MaxRev /\ turn \in [Lanes -> {"idle", "busy"}]
      BY <1>0 DEF Init
    <2>6. open \in BOOLEAN
      BY DEF Init
    <2>7. recs \in [Keys -> Nat] /\ forgot \in [Lanes -> Nat]
      BY DEF Init
    <2> QED BY <1>0, <2>2, <2>3, <2>4, <2>5, <2>6, <2>7 DEF TypeOK
  <1>3. \A l \in Lanes : disk[l].phase = "none"
    BY <1>1 DEF Init
  <1>4. \A k \in Keys : env[k] = NoEnvelope /\ ~Waits(env[k]) /\ recs[k] = 0 /\ forgot[k[1]] = 0
    BY DEF Init, NoEnvelope, Waits, Keys
  <1>5. ConsumedCovers /\ Named /\ Held /\ Arrived
    BY <1>1, <1>3, <1>4 DEF Init, ConsumedCovers, Named, Held, Arrived, Calls, NoEnvelope
  <1>6. Generations
    BY <1>0, <1>1, <1>3 DEF Init, Generations, Floor, Here
  <1>7. Recovering
    BY <1>4 DEF Recovering
  <1>8. Tracked
    <2>1. SUFFICES ASSUME NEW l \in Lanes, NEW g \in Gens
                   PROVE  /\ Cardinality(Out(l, g)) <= 1 + forgot[l]
                          /\ Cardinality(Out(l, g) \ Mine(l)) <= forgot[l]
      BY DEF Tracked
    <2>2. Out(l, g) = {} /\ Out(l, g) \ Mine(l) = {}
      BY <1>4 DEF Out
    <2>3. Cardinality(Out(l, g)) = 0 /\ Cardinality(Out(l, g) \ Mine(l)) = 0
      BY <2>2, FS_EmptySet
    <2> QED BY <2>3 DEF Init
  <1> QED BY <1>2, <1>5, <1>6, <1>7, <1>8 DEF IInv

\* Every step keeps the invariant.
LEMMA StepInv ==
    ASSUME AdmissionAssumption, IInv, [Next]_vars
    PROVE  IInv'
  <1>1. Effect /\ Changes
    BY StepEffect
  <1>2. Tracked'
    <2>1. \A l \in Lanes : \A g \in Gens :
             /\ Cardinality(Out(l, g)') <= 1 + forgot'[l]
             /\ g >= Low(l)' => Cardinality(Out(l, g)' \ Mine(l)') <= forgot'[l]
      BY <1>1, TrackedAll, TrackedAhead
    <2> QED BY <2>1 DEF Tracked
  <1> QED BY <1>1, <1>2, TypeKept, NamedKept, HeldKept, GenerationsKept, CoversKept, ArrivedKept,
             RecoveringKept DEF IInv

\* The invariant is one of the specification.
THEOREM Invariant ==
    ASSUME AdmissionAssumption
    PROVE  Spec => []IInv
  BY InitInv, StepInv, PTL DEF Spec

-----------------------------------------------------------------------------
(* What follows *)

\* Every variable keeps to its type; an unchanged condition wakes its coordinator again a
\* bounded number of times.
THEOREM AdmissionTyped ==
    ASSUME AdmissionAssumption
    PROVE  Spec => []TypeOK
  <1>1. IInv => TypeOK
    BY DEF IInv
  <1> QED BY <1>1, Invariant, PTL

\* A lane closes its cycle only on the receipt of the very content its record stands for.
THEOREM AdmissionCovers ==
    ASSUME AdmissionAssumption
    PROVE  Spec => []ConsumedCovers
  <1>1. IInv => ConsumedCovers
    BY DEF IInv
  <1> QED BY <1>1, Invariant, PTL

\* One target has one envelope outstanding, and one more for every time its lane lost
\* sight of one.
THEOREM AdmissionOutstanding ==
    ASSUME AdmissionAssumption
    PROVE  Spec => []OneOutstanding
  <1>1. IInv => OneOutstanding
    BY DEF IInv, Tracked, Out, Waits, OneOutstanding
  <1> QED BY <1>1, Invariant, PTL

\* A target is recovered once while an envelope is outstanding, and once more for every
\* recovery its lane lost sight of.
THEOREM AdmissionRecovered ==
    ASSUME AdmissionAssumption
    PROVE  Spec => []RecoveredOnce
  <1>1. IInv => RecoveredOnce
    BY DEF IInv, Recovering, RecoveredOnce
  <1> QED BY <1>1, Invariant, PTL

=============================================================================
