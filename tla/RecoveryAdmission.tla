--------------------------- MODULE RecoveryAdmission ---------------------------
(***************************************************************************)
(* recovery-admission.py: how one project's open incidents wake its        *)
(* coordinator (the direct lane) and, when that lane is exhausted, the     *)
(* recovery controller.  Each lane keeps one record on disk.  A tick holds *)
(* the admission lock, makes a batch, checks its target and then takes the *)
(* lane through a cycle of calls to the Craft server (deliver, inspect,    *)
(* recover); one call and the write that follows its answer are one        *)
(* action, so a tick may die between any two of them, and an answer may be *)
(* lost.  The incidents are one condition whose revision stands for their  *)
(* fingerprint.  Time is a choice: whether a deadline is over is decided   *)
(* where the code looks at it.  A tick takes one lane at a time, each with *)
(* batches of its own, as nothing a lane does is read by the other later   *)
(* in the tick.  The kill switch only keeps ticks from beginning, or       *)
(* blocks a lane in the middle of one.  The acknowledgement of a block,    *)
(* which chooses an exit code, is left out.                                *)
(***************************************************************************)
EXTENDS Naturals, FiniteSets

CONSTANTS
    MaxRewakes,     \* MAX_REWAKES
    MaxProbes,      \* MAX_PROBE_FAILURES
    Kinds,          \* of the condition: "routine" (ROUTINE_KINDS) or "complex"
    RevsOf,         \* bound, for each kind: revisions of the condition,
    FaultsOf,       \* calls, probes, turns and ticks that fail,
    ResetsOf,       \* resets by the owner
    MaxGen          \* bound: generations of the coordinator

ASSUME AdmissionAssumption ==
    /\ MaxRewakes \in Nat /\ MaxProbes \in Nat \ {0}
    /\ Kinds \subseteq {"routine", "complex"}
    /\ \A k \in Kinds : RevsOf[k] \in Nat /\ FaultsOf[k] \in Nat /\ ResetsOf[k] \in Nat
    /\ MaxGen \in Nat \ {0}

Lanes == {"direct", "controller"}
MaxRev == CHOOSE n \in {RevsOf[k] : k \in Kinds} : \A k \in Kinds : RevsOf[k] <= n
Revs == 1..MaxRev

\* targetGeneration; the controller's is bound to its session and stays 0.
Gens == 0..MaxGen

\* scope_for: the idempotency key is made of the target and the fingerprint the cycle
\* began with.
Keys == Lanes \X Gens \X Revs

VARIABLES
    kind,           \* of the condition, which never changes
    open, rev,      \* the condition holds; its revision
    owner,          \* the coordinator registry: generation, and whether it is authoritative
    disk,           \* disk[l]: the admission state of lane l
    tick,           \* the running tick
    env,            \* server: the envelope of a key
    turn,           \* server: what the target of a lane is doing
    faults, resets, \* how many there have been
    recs,           \* history: recoveries of the target while an envelope is outstanding
    forgot          \* history: how often lane l lost track of its envelope or of a recovery

server == <<env, turn>>
outside == <<kind, open, rev, owner>>
counts == <<faults, resets, recs, forgot>>
vars == <<outside, disk, tick, server, counts>>

\* The PENDING_PHASES delivered, pending-consumption and recovering are treated alike.
Outstanding == {"prepared", "pending"}
Phases == Outstanding \cup {"none", "consumed", "blocked", "probe-deferred"}

\* The admission state: fp is the fingerprint of the message, key that of the scope.
Records ==
    [phase : Phases, gen : Gens, key : 0..MaxRev, fp : 0..MaxRev,
     rewakes : 0..MaxRewakes, probes : Nat, recovered : BOOLEAN, repaired : BOOLEAN]

NoRecord == [phase |-> "none", gen |-> 0, key |-> 0, fp |-> 0,
             rewakes |-> 0, probes |-> 0, recovered |-> FALSE, repaired |-> FALSE]

\* retain: no incident asks for it any more, the record is only followed up.
Batches == [gen : Gens, fp : 0..MaxRev, retain : BOOLEAN]
NoBatch == [gen |-> 0, fp |-> 0, retain |-> FALSE]

\* mem: the lane's record in the tick's memory.
Ticks == [pc : {"idle", "cycle", "deliver", "inspect", "redeliver", "repair", "recover"},
          lane : Lanes, batch : Batches, mem : Records]
Idle == [pc |-> "idle", lane |-> "direct", batch |-> NoBatch, mem |-> NoRecord]

Envelopes == [state : {"none", "pending", "taken", "consumed"}, content : 0..MaxRev]
NoEnvelope == [state |-> "none", content |-> 0]

Init ==
    /\ kind \in Kinds
    /\ open = FALSE /\ rev = 0
    /\ owner = [gen |-> 1, authoritative |-> TRUE]
    /\ disk = [l \in Lanes |-> NoRecord]
    /\ tick = Idle
    /\ env = [k \in Keys |-> NoEnvelope]
    /\ turn = [l \in Lanes |-> "idle"]
    /\ faults = 0 /\ resets = 0
    /\ recs = [k \in Keys |-> 0]
    /\ forgot = [l \in Lanes |-> 0]

-----------------------------------------------------------------------------
(* Records *)

KeyOf(l, r) == <<l, r.gen, r.key>>

\* prepared_cycle
Prepared(b) == [NoRecord EXCEPT !.phase = "prepared", !.gen = b.gen, !.key = b.fp, !.fp = b.fp]

\* read_json(path) or prepared_cycle(...)
OnDisk(l, b) == IF disk[l].phase = "none" THEN Prepared(b) ELSE disk[l]

Blocked(r) == [r EXCEPT !.phase = "blocked"]
Consumed(r) == [r EXCEPT !.phase = "consumed"]

\* probe_deferral, and the block of a probe that is unavailable again and again.
Deferred(r) ==
    [r EXCEPT !.probes = @ + 1, !.phase = IF r.probes + 1 >= MaxProbes THEN "blocked" ELSE "probe-deferred"]

\* Mutant of Coalesced: the scope is computed anew.
CoalescedAnew(r, b) == IF b.retain THEN r ELSE [r EXCEPT !.fp = b.fp, !.key = b.fp]

\* coalesce_cycle
Coalesced(r, b) == IF b.retain THEN r ELSE [r EXCEPT !.fp = b.fp]

\* The record loses sight of an envelope that is still outstanding.
Losing(l) == disk[l].phase # "none" /\ env[KeyOf(l, disk[l])].state \in {"pending", "taken"}
Forget(ls) == forgot' = [l \in Lanes |-> IF l \in ls /\ Losing(l) THEN forgot[l] + 1 ELSE forgot[l]]

-----------------------------------------------------------------------------
(* The beginning of a tick: batches, targets, capabilities *)

\* Mutant of Exhausted: only spent re-wakes exhaust the lane.
ExhaustedBySpending ==
    LET r == disk["direct"] IN r.gen = owner.gen /\ r.phase = "consumed" /\ r.rewakes >= MaxRewakes

\* direct_lane_exhausted
Exhausted ==
    LET r == disk["direct"] IN
    r.gen = owner.gen /\ (r.phase = "blocked" \/ (r.phase = "consumed" /\ r.rewakes >= MaxRewakes))

\* direct_target
Route == IF kind = "routine" /\ owner.authoritative /\ ~Exhausted THEN "direct" ELSE "controller"
TargetGen(l) == IF l = "direct" THEN owner.gen ELSE 0

\* admission_batches, and the batches tick makes for records that are outstanding.
BatchFor(l) ==
    IF open /\ Route = l THEN [gen |-> TargetGen(l), fp |-> rev, retain |-> FALSE]
    ELSE IF disk[l].phase \in Outstanding
         THEN [gen |-> disk[l].gen, fp |-> disk[l].fp, retain |-> TRUE]
    ELSE NoBatch

Fault == faults < FaultsOf[kind] /\ faults' = faults + 1

Write(l, r) == disk' = [disk EXCEPT ![l] = r]

\* The tick's checks of the target and of the server's capabilities succeed.  A direct
\* target that is not the registry's coordinator any more is blocked at once.
Begin(l) ==
    LET b == BatchFor(l)
        moved == l = "direct" /\ (~owner.authoritative \/ b.gen # owner.gen) IN
    /\ tick.pc = "idle" /\ b # NoBatch
    /\ \/ moved /\ Write(l, Blocked(OnDisk(l, b))) /\ UNCHANGED tick
       \/ ~moved /\ tick' = [Idle EXCEPT !.pc = "cycle", !.lane = l, !.batch = b] /\ UNCHANGED disk
    /\ UNCHANGED <<outside, server, counts>>

\* They fail: the probe of the controller's harness is not available; the server does not
\* answer, and the record is kept for the next tick; the target or the server is wrong.
Refused(l) ==
    LET r == OnDisk(l, BatchFor(l)) IN
    /\ tick.pc = "idle" /\ BatchFor(l) # NoBatch /\ Fault
    /\ \/ l = "controller" /\ Write(l, Deferred(r)) /\ Forget({l})
       \/ Write(l, r) /\ UNCHANGED forgot
       \/ Write(l, Blocked(r)) /\ UNCHANGED forgot
    /\ UNCHANGED <<outside, tick, server, resets, recs>>

-----------------------------------------------------------------------------
(* process_cycle *)

\* Mutant of MayWake: one re-wake too many.
MayWakeOnceMore(r) == r.rewakes <= MaxRewakes

\* An unchanged condition wakes its coordinator again a bounded number of times.
MayWake(r) == r.rewakes < MaxRewakes

Here == tick.lane
Finish(r) == Write(Here, r) /\ tick' = Idle
Go(pc, r) == tick' = [tick EXCEPT !.pc = pc, !.mem = r]

\* The step of the cycle is decided by the record on disk; quiet: a consumed wake lies
\* REWAKE_QUIET_MS back.
Cycle(quiet) ==
    LET b == tick.batch
        r == disk[Here]
        matches == r.gen = b.gen
        again == r.phase = "consumed" /\ matches /\ r.fp = b.fp
        fresh == \/ r.phase = "none"
                 \/ (r.phase = "blocked" /\ ~matches)
                 \/ (r.phase \in {"consumed", "probe-deferred"} /\ ~again)
        due == MayWake(r) /\ quiet
        Prepare(p) == Write(Here, p) /\ Go("deliver", p) IN
    /\ tick.pc = "cycle"
    /\ \/ Fault /\ Finish(Blocked(OnDisk(Here, b)))     \* the kill switch has been set
       \/ /\ UNCHANGED faults
          /\ \/ r.phase = "blocked" /\ matches /\ Finish(r)
             \/ r.phase \in Outstanding /\ ~matches /\ Finish(Blocked(r))
             \/ again /\ ~due /\ Finish(r)
             \/ again /\ due /\ Prepare([Prepared(b) EXCEPT !.rewakes = r.rewakes + 1])
             \/ fresh /\ Prepare([Prepared(b) EXCEPT !.probes = IF matches THEN r.probes ELSE 0])
             \/ r.phase = "prepared" /\ matches /\ Prepare(Coalesced(r, b))
             \/ r.phase = "pending" /\ matches /\ Go("inspect", r) /\ UNCHANGED disk
    /\ UNCHANGED <<outside, server, resets, recs, forgot>>

-----------------------------------------------------------------------------
(* The calls of a cycle *)

\* What the server makes of a delivery: it keeps one envelope per key, replaces the content
\* of an outstanding one, and for a consumed one answers with its receipt.
Received(e, content) ==
    IF e.state = "consumed" \/ e.content = content THEN e
    ELSE [state |-> "pending", content |-> content]

Key == KeyOf(Here, tick.mem)
Envelope == env[Key]
\* The target may be busy with something else when an envelope arrives.
Sent(e) ==
    /\ env' = [env EXCEPT ![Key] = e]
    /\ \E t \in {turn[Here], "busy"} : turn' = [turn EXCEPT ![Here] = t]

\* There is no answer, and the record on disk stands; or it is a refusal, or one that is not
\* what it should be, and the record is blocked.
Failed == Finish(disk[Here]) \/ Finish(Blocked(disk[Here]))

\* A call fails before the server has carried it out, or after.
CallFails ==
    /\ tick.pc \in {"deliver", "redeliver", "repair", "inspect", "recover"}
    /\ Fault /\ Failed
    /\ UNCHANGED <<outside, server, resets, recs, forgot>>

ReplyLost ==
    /\ tick.pc \in {"deliver", "redeliver", "repair"}
    /\ Fault /\ Failed
    /\ Sent(Received(Envelope, tick.mem.fp))
    /\ UNCHANGED <<outside, resets, recs, forgot>>

\* A defect of the server: it answers a repeated delivery and keeps the old content.
Kept(e) == e.state \in {"pending", "taken"} /\ e.content # tick.mem.fp

\* Mutant of Proves: any consumed receipt will do.
ProvesAny(e, r) == e.state = "consumed"

\* validate_consumed_receipt: what was consumed is what the record says was sent.
Proves(e, r) == e.state = "consumed" /\ e.content = r.fp

\* A consumed receipt closes the cycle if it is for this content; if not, the record on
\* disk is blocked.
Close(e, r) == Finish(IF Proves(e, r) THEN Consumed(r) ELSE Blocked(disk[Here]))

\* The answer e to the first delivery: a new envelope is left alone until the next tick,
\* an earlier one inspected at once.
Deliver(e) ==
    LET r == [tick.mem EXCEPT !.phase = "pending", !.probes = 0] IN
    /\ tick.pc = "deliver"
    /\ \/ e = Received(Envelope, tick.mem.fp) /\ UNCHANGED faults
       \/ e = Envelope /\ Kept(e) /\ Fault
    /\ Sent(e)
    /\ IF e.state = "consumed" THEN Close(e, r)
       ELSE IF Envelope.state = "none" THEN Finish(r)
       ELSE Write(Here, r) /\ Go("inspect", r)
    /\ UNCHANGED <<outside, resets, recs, forgot>>

\* The content of the outstanding envelope is replaced: with newer incidents, which are
\* only in memory yet, or to repair a stale receipt.
Redeliver(e) ==
    /\ tick.pc \in {"redeliver", "repair"}
    /\ \/ e = Received(Envelope, tick.mem.fp) /\ UNCHANGED faults
       \/ e = Envelope /\ Kept(e) /\ Fault
    /\ Sent(e)
    /\ IF e.state = "consumed" THEN Close(e, tick.mem)
       ELSE IF tick.pc = "repair" /\ e.content # tick.mem.fp THEN Finish(Blocked(disk[Here]))
       ELSE /\ Go("inspect", tick.mem)
            /\ disk' = IF tick.pc = "repair" THEN [disk EXCEPT ![Here] = tick.mem] ELSE disk
    /\ UNCHANGED <<outside, resets, recs, forgot>>

\* reconcile_stale_content_revision, once, and only with the target idle, its queue empty
\* and an unrelated turn completed since; the marker is written before the call.
Repair ==
    LET r == [tick.mem EXCEPT !.repaired = TRUE] IN
    /\ turn[Here] = "idle" /\ ~tick.mem.repaired
    /\ Write(Here, r) /\ Go("repair", r)

\* The receipt is current and not consumed; late: the envelope, or the turn its target is
\* in, is older than RECOVERY_MIN_AGE.
Judge(late) ==
    \/ late /\ turn[Here] = "idle" /\ Finish(Blocked(tick.mem))
    \/ late /\ turn[Here] = "busy" /\ tick.mem.recovered /\ Finish(Blocked(tick.mem))
    \/ late /\ turn[Here] = "busy" /\ ~tick.mem.recovered /\ Go("recover", tick.mem) /\ UNCHANGED disk
    \/ ~late /\ Finish(tick.mem)

Inspect(late) ==
    LET newer == Coalesced(tick.mem, tick.batch)
        stale == Envelope.content # tick.mem.fp IN
    /\ tick.pc = "inspect"
    /\ \/ Envelope.state = "consumed" /\ Close(Envelope, tick.mem)
       \/ /\ Envelope.state # "consumed" /\ stale
          /\ Repair \/ Finish(Blocked(disk[Here]))
       \/ /\ Envelope.state # "consumed" /\ ~stale
          /\ \/ newer # tick.mem /\ Go("redeliver", newer) /\ UNCHANGED disk
             \/ newer = tick.mem /\ Judge(late)
    /\ UNCHANGED <<outside, server, counts>>

\* Mutant of Recovered: the attempt is not written down.
RecoveredAgain(r) == r

Recovered(r) == [r EXCEPT !.recovered = TRUE]

\* The guarded recovery of a stuck turn; the server refuses if the turn has moved on.
Restarted ==
    /\ Envelope.state # "consumed" /\ turn[Here] = "busy"
    /\ recs' = [recs EXCEPT ![Key] = @ + 1]

Recover ==
    /\ tick.pc = "recover"
    /\ \/ /\ Envelope.state = "consumed" /\ UNCHANGED recs
          /\ Finish(IF Proves(Envelope, tick.mem) THEN Consumed(Recovered(tick.mem))
                    ELSE Blocked(disk[Here]))
       \/ Restarted /\ Finish(Recovered(tick.mem))
       \/ /\ Envelope.state # "consumed" /\ turn[Here] = "idle" /\ UNCHANGED recs
          /\ Finish(disk[Here]) \/ Finish(Blocked(disk[Here]))
    /\ UNCHANGED <<outside, server, faults, resets, forgot>>

RecoveryLost ==
    /\ tick.pc = "recover" /\ Restarted
    /\ Fault /\ Failed
    /\ forgot' = [forgot EXCEPT ![Here] = @ + 1]
    /\ UNCHANGED <<outside, server, resets>>

Crash ==
    /\ tick.pc # "idle" /\ Fault
    /\ tick' = Idle
    /\ UNCHANGED <<outside, disk, server, resets, recs, forgot>>

TickStep ==
    \/ \E l \in Lanes : Begin(l) \/ Refused(l)
    \/ \E flag \in BOOLEAN : Cycle(flag) \/ Inspect(flag)
    \/ \E e \in Envelopes : Deliver(e) \/ Redeliver(e)
    \/ Recover \/ CallFails \/ ReplyLost \/ RecoveryLost \/ Crash

-----------------------------------------------------------------------------
(* reset, which takes no lock *)

Resettable(l) == disk[l].phase \in {"none", "blocked", "consumed"}

\* All lanes, up to the first that may not be reset, or the project's alone.
Reset(ls) ==
    /\ resets < ResetsOf[kind] /\ resets' = resets + 1
    /\ \A l \in ls : Resettable(l)
    /\ \E l \in ls : disk[l].phase # "none"
    /\ ls = {"controller"} => ~Resettable("direct")
    /\ Forget(ls)
    /\ disk' = [l \in Lanes |-> IF l \in ls THEN NoRecord ELSE disk[l]]
    /\ UNCHANGED <<outside, tick, server, faults, recs>>

-----------------------------------------------------------------------------
(* The condition and the registry *)

\* The condition is not actionable (it is gone, perhaps for a moment, or the project is
\* on hold), is so again, or is a new one: a confirmed recurrence, or new evidence.
Condition ==
    /\ \/ open' = ~open /\ rev > 0 /\ UNCHANGED rev
       \/ open' = TRUE /\ rev < RevsOf[kind] /\ rev' = rev + 1
    /\ UNCHANGED <<kind, owner, disk, tick, server, counts>>

\* A hold or a rotation begins; it ends with the same coordinator or with its successor.
Registry ==
    /\ kind = "routine"       \* no other condition looks at it
    /\ \/ owner' = [owner EXCEPT !.authoritative = ~@] /\ UNCHANGED turn
       \/ /\ ~owner.authoritative /\ owner.gen < MaxGen
          /\ owner' = [gen |-> owner.gen + 1, authoritative |-> TRUE]
          /\ turn' = [turn EXCEPT !["direct"] = "idle"]
    /\ UNCHANGED <<kind, open, rev, disk, tick, env, counts>>

-----------------------------------------------------------------------------
(* The server: turns of the targets *)

\* The envelopes for the present target of a lane.
Addressed(l) == {k \in Keys : k[1] = l /\ k[2] = TargetGen(l)}

\* A turn begins with what is queued.
TurnBegins(l) ==
    /\ turn[l] = "idle"
    /\ turn' = [turn EXCEPT ![l] = "busy"]
    /\ \E k \in Addressed(l) : env[k].state = "pending" /\ env' = [env EXCEPT ![k].state = "taken"]
    /\ UNCHANGED <<outside, disk, tick, counts>>

Taken(l) == {k \in Addressed(l) : env[k].state = "taken"}

TurnEnds(l) ==
    /\ turn[l] # "idle"
    /\ turn' = [turn EXCEPT ![l] = "idle"]
    /\ env' = [k \in Keys |-> IF k \in Taken(l) THEN [env[k] EXCEPT !.state = "consumed"] ELSE env[k]]
    /\ recs' = [k \in Keys |-> IF k \in Taken(l) THEN 0 ELSE recs[k]]
    /\ UNCHANGED <<outside, disk, tick, faults, resets, forgot>>

TurnFails(l) ==
    /\ turn[l] # "idle" /\ Fault
    /\ turn' = [turn EXCEPT ![l] = "idle"]
    /\ env' = [k \in Keys |-> IF k \in Taken(l) THEN [env[k] EXCEPT !.state = "pending"] ELSE env[k]]
    /\ UNCHANGED <<outside, disk, tick, resets, recs, forgot>>

Next ==
    \/ TickStep
    \/ \E ls \in SUBSET Lanes : Reset(ls)
    \/ Condition \/ Registry
    \/ \E l \in Lanes : TurnBegins(l) \/ TurnEnds(l) \/ TurnFails(l)

Spec == Init /\ [][Next]_vars

\* The admission service runs a tick every few minutes, and time passes: a target that is
\* looked at again and again is past its deadline at last.  A turn need never begin or end.
FairSpec ==
    /\ Spec
    /\ WF_vars(TickStep)
    /\ \A l \in Lanes :
          /\ SF_vars(Begin(l))
          /\ SF_vars(Here = l /\ Cycle(TRUE))
          /\ SF_vars(Here = l /\ Inspect(TRUE))

-----------------------------------------------------------------------------
(* Properties *)

\* Type invariant.  The bound on rewakes says how often an unchanged condition may wake
\* its coordinator again (MAX_REWAKES).
TypeOK ==
    /\ kind \in Kinds
    /\ open \in BOOLEAN /\ rev \in 0..MaxRev
    /\ owner \in [gen : 1..MaxGen, authoritative : BOOLEAN]
    /\ disk \in [Lanes -> Records]
    /\ tick \in Ticks
    /\ env \in [Keys -> Envelopes]
    /\ turn \in [Lanes -> {"idle", "busy"}]
    /\ faults \in 0..FaultsOf[kind] /\ resets \in 0..ResetsOf[kind]
    /\ recs \in [Keys -> Nat] /\ forgot \in [Lanes -> Nat]

\* A lane closes its cycle only when the target has consumed exactly the content the
\* record stands for: not on an older revision, another cycle's receipt or a turn that
\* ended, whatever was coalesced, lost, repaired or recovered in between.
ConsumedCovers ==
    \A l \in Lanes :
        disk[l].phase = "consumed" =>
            LET e == env[KeyOf(l, disk[l])] IN e.state = "consumed" /\ e.content = disk[l].fp

\* One target has one envelope outstanding: newer incidents replace its content.  One more
\* for each time the lane forgot: an owner's reset or an unavailable probe lets it lose sight
\* of one.  (A recovery whose answer is lost counts as forgotten too, for RecoveredOnce, and
\* makes this bound wider than it need be.)
OneOutstanding ==
    \A l \in Lanes : \A g \in Gens :
        Cardinality({k \in Keys : k[1] = l /\ k[2] = g /\ env[k].state \in {"pending", "taken"}})
            <= 1 + forgot[l]

\* While an envelope is outstanding its target is recovered once; a second time only if
\* the reply to the first was lost, or the lane's record with it.
RecoveredOnce == \A k \in Keys : recs[k] <= 1 + forgot[k[1]]

\* A condition that stays while the project has its coordinator reaches the recovery
\* controller, or its lane is blocked where the owner is told, whether the coordinator
\* is deaf, stuck, or reads its wakes and does not mend the condition.
Told ==
    \/ disk["controller"].phase = "blocked"
    \/ \E k \in Keys : k[1] = "controller" /\ env[k].state # "none" /\ env[k].content = rev
ConditionEscalates ==
    <>[](open /\ owner.authoritative) => []<>Told

\* A hard block is never cleared or delivered over by itself: only by a reset, or when
\* the lane has another target.
BlockedIsDurable ==
    [][\A l \in Lanes :
          disk[l].phase = "blocked" =>
              disk'[l].phase = "blocked" \/ resets' # resets \/ disk'[l].gen # disk[l].gen]_vars

=============================================================================
