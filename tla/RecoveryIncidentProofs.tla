------------------------- MODULE RecoveryIncidentProofs -------------------------
(***************************************************************************)
(* Proofs about RecoveryIncident: its type invariant, BudgetPerOutbreak    *)
(* and ClearedMeansGone, for any incidents, controllers and detectors, and *)
(* any budgets and times that IncidentAssumption allows.                   *)
(*                                                                         *)
(* The argument is about age.  A condition in steady has held since its    *)
(* row began to clear, so a detector that missed it has looked before, and *)
(* its look is at least as old as the clearing (Overdue).  A look is too   *)
(* young for that to reach the end of the confirmation time.  Hence only   *)
(* conditions that were away are cleared, and a budget is only given back  *)
(* when the outbreak has ended or has been declared resolved (Budget).     *)
(***************************************************************************)
EXTENDS RecoveryIncident, TLAPS

\* What spent counts is in the row, and a row nobody works on has no debts.
Budget ==
    \A i \in Incidents :
        /\ spent[i] <= row[i].attempts
        /\ row[i].attempts <= Limit(i)
        /\ Settled(i) => spent[i] = 0
        /\ i \notin cond => spent[i] = 0
        /\ row[i].clearing /\ spent[i] > 0 => i \in steady

\* A look that missed a steady condition is older than the clearing of its row.
Overdue ==
    \A i \in steady :
        /\ i \in cond
        /\ row[i].clearing
        /\ \A d \in Detectors :
              look[d].busy /\ i \notin look[d].seen => look[d].age + row[i].confirm >= ClearConfirm

IInv == TypeOK /\ Budget /\ Overdue

-----------------------------------------------------------------------------

\* A row that is no longer claimed is a row, and differs in three fields.
LEMMA UnclaimedRow ==
    ASSUME IncidentAssumption, NEW r \in Rows, NEW state \in RowStates
    PROVE  /\ Unclaimed(r, state) \in Rows
           /\ Unclaimed(r, state).state = state
           /\ Unclaimed(r, state).owner = None
           /\ Unclaimed(r, state).attempts = r.attempts
           /\ Unclaimed(r, state).clearing = r.clearing
           /\ Unclaimed(r, state).confirm = r.confirm
  <1> DEFINE r1 == [r EXCEPT !.state = state]
             r2 == [r1 EXCEPT !.owner = None]
             r3 == [r2 EXCEPT !.claim = 0]
  <1>1. r1 \in Rows
    BY DEF Rows
  <1>2. r2 \in Rows
    <2> HIDE DEF r1
    <2> QED BY <1>1 DEF Rows
  <1>3. r3 \in Rows
    <2> HIDE DEF r2
    <2> QED BY <1>2 DEF Rows, IncidentAssumption
  <1> QED
    BY <1>3 DEF Unclaimed, Rows

\* A row that does not clear is a row, and differs in two fields.
LEMMA SteadyRow ==
    ASSUME IncidentAssumption, NEW r \in Rows
    PROVE  /\ [r EXCEPT !.clearing = FALSE, !.confirm = 0] \in Rows
           /\ [r EXCEPT !.clearing = FALSE, !.confirm = 0].state = r.state
           /\ [r EXCEPT !.clearing = FALSE, !.confirm = 0].owner = r.owner
           /\ [r EXCEPT !.clearing = FALSE, !.confirm = 0].attempts = r.attempts
           /\ ~[r EXCEPT !.clearing = FALSE, !.confirm = 0].clearing
  <1> DEFINE r1 == [r EXCEPT !.clearing = FALSE]
             r2 == [r1 EXCEPT !.confirm = 0]
  <1>1. r1 \in Rows
    BY DEF Rows
  <1>2. r2 \in Rows
    <2> HIDE DEF r1
    <2> QED BY <1>1 DEF Rows, IncidentAssumption
  <1> QED
    BY <1>2 DEF Rows

\* A row that begins to clear is a row, and differs in two fields.
LEMMA ClearingRow ==
    ASSUME IncidentAssumption, NEW r \in Rows
    PROVE  /\ [r EXCEPT !.clearing = TRUE, !.confirm = ClearConfirm] \in Rows
           /\ [r EXCEPT !.clearing = TRUE, !.confirm = ClearConfirm].state = r.state
           /\ [r EXCEPT !.clearing = TRUE, !.confirm = ClearConfirm].owner = r.owner
           /\ [r EXCEPT !.clearing = TRUE, !.confirm = ClearConfirm].attempts = r.attempts
           /\ [r EXCEPT !.clearing = TRUE, !.confirm = ClearConfirm].clearing
           /\ [r EXCEPT !.clearing = TRUE, !.confirm = ClearConfirm].confirm = ClearConfirm
  <1> DEFINE r1 == [r EXCEPT !.clearing = TRUE]
             r2 == [r1 EXCEPT !.confirm = ClearConfirm]
  <1>1. r1 \in Rows
    BY DEF Rows
  <1>2. r2 \in Rows
    <2> HIDE DEF r1
    <2> QED BY <1>1 DEF Rows, IncidentAssumption
  <1> QED
    BY <1>2 DEF Rows

\* A row whose budget is given back is a row.
LEMMA FreshRow ==
    ASSUME IncidentAssumption, NEW r \in Rows
    PROVE  /\ [r EXCEPT !.attempts = 0] \in Rows
           /\ [r EXCEPT !.attempts = 0].state = r.state
           /\ [r EXCEPT !.attempts = 0].owner = r.owner
           /\ [r EXCEPT !.attempts = 0].clearing = r.clearing
           /\ [r EXCEPT !.attempts = 0].attempts = 0
  BY DEF Rows

\* A row in another state is a row; the first row of an incident, in particular.
LEMMA StateRow ==
    ASSUME IncidentAssumption, NEW r \in Rows, NEW state \in RowStates
    PROVE  /\ [r EXCEPT !.state = state] \in Rows
           /\ [r EXCEPT !.state = state].state = state
           /\ [r EXCEPT !.state = state].owner = r.owner
           /\ [r EXCEPT !.state = state].attempts = r.attempts
           /\ [r EXCEPT !.state = state].clearing = r.clearing
  BY DEF Rows

\* The row of an incident that has not been seen has its shape.
LEMMA EmptyRow ==
    ASSUME IncidentAssumption
    PROVE  /\ NoRow \in Rows
           /\ NoRow.state = "absent" /\ NoRow.owner = None /\ NoRow.attempts = 0 /\ ~NoRow.clearing
  <1>1. 0 \in 0..ClaimTtl /\ 0 \in 0..Cooldown /\ 0 \in 0..ClearConfirm
    BY DEF IncidentAssumption
  <1> QED
    BY <1>1 DEF NoRow, Rows, RowStates

\* What detect writes for a condition it saw is a row, with an owner iff claimed.
LEMMA ObservedRow ==
    ASSUME IncidentAssumption, TypeOK, NEW i \in Incidents
    PROVE  /\ Observed(i) \in Rows
           /\ Observed(i).state = "claimed" <=> Observed(i).owner # None
           /\ ~Observed(i).clearing
           /\ Observed(i).state \notin {"absent", "resolved"}
           /\ \/ Observed(i).attempts = row[i].attempts
              \/ Settled(i) /\ Observed(i).attempts = 0
  <1> DEFINE r == [row[i] EXCEPT !.clearing = FALSE, !.confirm = 0]
  <1>1. row[i] \in Rows /\ (row[i].state = "claimed" <=> row[i].owner # None)
    BY DEF TypeOK
  <1> DEFINE u == Unclaimed(r, "open")
  <1>2. /\ r \in Rows /\ ~r.clearing /\ r.state = row[i].state /\ r.owner = row[i].owner
        /\ r.attempts = row[i].attempts
    BY <1>1, SteadyRow
  <1>3. /\ u \in Rows /\ ~u.clearing /\ u.state = "open" /\ u.owner = None
        /\ u.attempts = row[i].attempts
    <2> HIDE DEF r
    <2> QED BY <1>2, UnclaimedRow DEF RowStates
  <1>9. /\ [u EXCEPT !.attempts = 0] \in Rows /\ ~[u EXCEPT !.attempts = 0].clearing
        /\ [u EXCEPT !.attempts = 0].state = "open" /\ [u EXCEPT !.attempts = 0].owner = None
        /\ [u EXCEPT !.attempts = 0].attempts = 0
    <2> HIDE DEF u
    <2> QED BY <1>3, FreshRow
  <1>4. CASE row[i].state = "absent"
    <2>1. Observed(i) = [NoRow EXCEPT !.state = IF kind[i] = "gate" THEN "suppressed" ELSE "open"]
      BY <1>4, <1>2 DEF Observed
    <2> HIDE DEF u, r
    <2>2. PICK state \in {"suppressed", "open"} : Observed(i) = [NoRow EXCEPT !.state = state]
      BY <2>1
    <2>3. /\ Observed(i) \in Rows /\ Observed(i).state = state /\ Observed(i).owner = None
          /\ Observed(i).attempts = 0 /\ ~Observed(i).clearing
      <3>1. state \in RowStates
        BY DEF RowStates
      <3>2. NoRow \in Rows
        BY EmptyRow
      <3> QED
        BY <2>2, <3>1, <3>2, EmptyRow, StateRow
    <2> QED
      BY <2>3, <1>4 DEF Settled
  <1>5. CASE row[i].state = "claimed"
    <2>1. Observed(i) = u \/ Observed(i) = r
      BY <1>5, <1>2 DEF Observed
    <2> HIDE DEF u, r
    <2> QED BY <2>1, <1>5, <1>1, <1>2, <1>3
  <1>6. CASE row[i].state = "deferred"
    <2>1. Observed(i) = [r EXCEPT !.state = "open"] \/ Observed(i) = r
      BY <1>6, <1>2 DEF Observed
    <2> HIDE DEF r
    <2> QED BY <2>1, <1>6, <1>1, <1>2 DEF Rows, RowStates
  <1>7. CASE row[i].state = "resolved"
    <2>1. Observed(i) = [u EXCEPT !.attempts = 0]
      BY <1>7, <1>2 DEF Observed
    <2> HIDE DEF u
    <2> QED BY <2>1, <1>7, <1>9 DEF Settled
  <1>8. CASE row[i].state \in {"open", "escalated", "suppressed"}
    <2>1. Observed(i) = r
      BY <1>8, <1>2 DEF Observed
    <2> HIDE DEF r
    <2> QED BY <2>1, <1>8, <1>1, <1>2
  <1> HIDE DEF u, r
  <1> QED
    BY <1>1, <1>4, <1>5, <1>6, <1>7, <1>8 DEF Rows, RowStates

\* What detect writes for a condition it did not see.
LEMMA UnseenRow ==
    ASSUME IncidentAssumption, TypeOK, NEW i \in Incidents
    PROVE  /\ Unseen(i) \in Rows
           /\ Unseen(i).state = "claimed" <=> Unseen(i).owner # None
           /\ \/ Unseen(i) = row[i]
              \/ /\ ~row[i].clearing
                 /\ Unseen(i).clearing
                 /\ Unseen(i).confirm = ClearConfirm
                 /\ Unseen(i).state = row[i].state
                 /\ Unseen(i).attempts = row[i].attempts
              \/ /\ row[i].clearing /\ row[i].confirm = 0
                 /\ Unseen(i) = [NoRow EXCEPT !.state = "resolved"]
  <1>1. row[i] \in Rows /\ (row[i].state = "claimed" <=> row[i].owner # None)
    BY DEF TypeOK
  <1> DEFINE n == [NoRow EXCEPT !.state = "resolved"]
             c == [row[i] EXCEPT !.clearing = TRUE, !.confirm = ClearConfirm]
  <1>2. n \in Rows /\ n.state = "resolved" /\ n.owner = None
    BY EmptyRow, StateRow DEF RowStates
  <1>3. /\ c \in Rows /\ c.clearing /\ c.confirm = ClearConfirm /\ c.state = row[i].state
        /\ c.owner = row[i].owner /\ c.attempts = row[i].attempts
    BY <1>1, ClearingRow
  <1>4. CASE Settled(i) \/ (row[i].clearing /\ row[i].confirm > 0)
    BY <1>4, <1>1 DEF Unseen
  <1>5. CASE ~Settled(i) /\ ~row[i].clearing
    <2>1. Unseen(i) = c
      BY <1>5 DEF Unseen
    <2> HIDE DEF c
    <2> QED BY <2>1, <1>5, <1>1, <1>3
  <1>6. CASE ~Settled(i) /\ row[i].clearing /\ ~(row[i].confirm > 0)
    <2>1. Unseen(i) = n
      BY <1>6 DEF Unseen
    <2>2. row[i].confirm = 0
      BY <1>6, <1>1 DEF Rows, IncidentAssumption
    <2> QED BY <2>1, <2>2, <1>6, <1>2
  <1> HIDE DEF n, c
  <1> QED
    BY <1>4, <1>5, <1>6

\* A claimed row is a row, and differs in four fields.
LEMMA ClaimedRow ==
    ASSUME IncidentAssumption, NEW r \in Rows, NEW s \in Controllers
    PROVE  /\ Claimed(r, s) \in Rows
           /\ Claimed(r, s).state = "claimed" /\ Claimed(r, s).owner = s
           /\ Claimed(r, s).attempts = r.attempts + 1
           /\ Claimed(r, s).clearing = r.clearing
  <1> DEFINE r1 == [r EXCEPT !.state = "claimed"]
             r2 == [r1 EXCEPT !.owner = s]
             r3 == [r2 EXCEPT !.claim = ClaimTtl]
             r4 == [r3 EXCEPT !.attempts = @ + 1]
  <1>1. r1 \in Rows /\ r1.state = "claimed" /\ r1.attempts = r.attempts /\ r1.clearing = r.clearing
    BY DEF Rows, RowStates
  <1>2. /\ r2 \in Rows /\ r2.state = "claimed" /\ r2.owner = s
        /\ r2.attempts = r.attempts /\ r2.clearing = r.clearing
    <2> HIDE DEF r1
    <2> QED BY <1>1 DEF Rows
  <1>3. /\ r3 \in Rows /\ r3.state = "claimed" /\ r3.owner = s
        /\ r3.attempts = r.attempts /\ r3.clearing = r.clearing
    <2> HIDE DEF r2
    <2> QED BY <1>2 DEF Rows, IncidentAssumption
  <1>4. /\ r4 \in Rows /\ r4.state = "claimed" /\ r4.owner = s
        /\ r4.attempts = r.attempts + 1 /\ r4.clearing = r.clearing
    <2> HIDE DEF r3
    <2> QED BY <1>3 DEF Rows
  <1> QED
    BY <1>4 DEF Claimed

\* A row whose claim is renewed is a row.
LEMMA RenewedRow ==
    ASSUME IncidentAssumption, NEW r \in Rows
    PROVE  /\ [r EXCEPT !.claim = ClaimTtl] \in Rows
           /\ [r EXCEPT !.claim = ClaimTtl].state = r.state
           /\ [r EXCEPT !.claim = ClaimTtl].owner = r.owner
           /\ [r EXCEPT !.claim = ClaimTtl].attempts = r.attempts
           /\ [r EXCEPT !.claim = ClaimTtl].clearing = r.clearing
           /\ [r EXCEPT !.claim = ClaimTtl].confirm = r.confirm
  BY DEF Rows, IncidentAssumption

\* A row that cools down is a row.
LEMMA CoolingRow ==
    ASSUME IncidentAssumption, NEW r \in Rows
    PROVE  /\ [r EXCEPT !.cooldown = Cooldown] \in Rows
           /\ [r EXCEPT !.cooldown = Cooldown].state = r.state
           /\ [r EXCEPT !.cooldown = Cooldown].owner = r.owner
           /\ [r EXCEPT !.cooldown = Cooldown].attempts = r.attempts
           /\ [r EXCEPT !.cooldown = Cooldown].clearing = r.clearing
           /\ [r EXCEPT !.cooldown = Cooldown].confirm = r.confirm
  BY DEF Rows, IncidentAssumption

\* Time leaves a row a row, and only its three timers change.
LEMMA OlderRow ==
    ASSUME IncidentAssumption, NEW r \in Rows
    PROVE  /\ Older(r) \in Rows
           /\ Older(r).state = r.state /\ Older(r).owner = r.owner /\ Older(r).attempts = r.attempts
           /\ Older(r).clearing = r.clearing
           /\ Older(r).confirm + 1 >= r.confirm
  <1> DEFINE r1 == [r EXCEPT !.claim = Less(@)]
             r2 == [r1 EXCEPT !.cooldown = Less(@)]
             r3 == [r2 EXCEPT !.confirm = Less(@)]
  <1>1. /\ r1 \in Rows /\ r1.state = r.state /\ r1.owner = r.owner /\ r1.attempts = r.attempts
        /\ r1.clearing = r.clearing /\ r1.confirm = r.confirm
    BY DEF Rows, Less, IncidentAssumption
  <1>2. /\ r2 \in Rows /\ r2.state = r.state /\ r2.owner = r.owner /\ r2.attempts = r.attempts
        /\ r2.clearing = r.clearing /\ r2.confirm = r.confirm
    <2> HIDE DEF r1
    <2> QED BY <1>1 DEF Rows, Less, IncidentAssumption
  <1>3. /\ r3 \in Rows /\ r3.state = r.state /\ r3.owner = r.owner /\ r3.attempts = r.attempts
        /\ r3.clearing = r.clearing /\ r3.confirm + 1 >= r.confirm
    <2> HIDE DEF r2
    <2> QED BY <1>2 DEF Rows, Less, IncidentAssumption
  <1> QED
    BY <1>3 DEF Older

-----------------------------------------------------------------------------

\* A command that writes one row, and what it has to respect.
LEMMA RowWritten ==
    ASSUME IncidentAssumption, IInv,
           NEW i \in Incidents, NEW r \in Rows,
           r.state = "claimed" <=> r.owner # None,
           row' = [row EXCEPT ![i] = r],
           UNCHANGED <<kind, cond, controller, disabled, look>>,
           spent' \in [Incidents -> Nat],
           \A j \in Incidents \ {i} : spent'[j] = spent[j],
           steady' \subseteq steady, steady \ {i} \subseteq steady',
           spent'[i] <= r.attempts, r.attempts <= Limit(i),
           r.state \in {"absent", "resolved"} => spent'[i] = 0,
           i \notin cond => spent'[i] = 0,
           r.clearing /\ spent'[i] > 0 => i \in steady',
           i \in steady' => r.clearing /\ r.confirm = row[i].confirm
    PROVE  IInv'
  <1>1. TypeOK'
    BY DEF IInv, TypeOK
  <1>2. Budget'
    BY DEF IInv, TypeOK, Budget, Limit, Settled
  <1>3. Overdue'
    BY DEF IInv, TypeOK, Overdue
  <1> QED
    BY <1>1, <1>2, <1>3 DEF IInv

\* Claiming spends one attempt of a row that does not clear.
LEMMA ClaimStep ==
    ASSUME IncidentAssumption, IInv, NEW s \in Controllers, NEW i \in Incidents, Claim(s, i)
    PROVE  IInv'
  <1> DEFINE c == Claimed(row[i], s)
             e == Unclaimed(row[i], "escalated")
  <1>1. /\ row[i] \in Rows /\ spent \in [Incidents -> Nat] /\ Limit(i) \in Nat
        /\ s # None /\ row[i].attempts \in Nat
    BY DEF IInv, TypeOK, Rows, Limit, IncidentAssumption
  <1>2. /\ UNCHANGED <<kind, cond, controller, disabled, look>> /\ steady' = steady
        /\ ~row[i].clearing /\ i \notin steady
        /\ spent[i] <= row[i].attempts /\ row[i].attempts <= Limit(i)
        /\ i \notin cond => spent[i] = 0
        /\ row[i].state \in {"open", "deferred"}
    BY DEF Claim, IInv, Budget, Overdue
  <1>3. CASE row' = [row EXCEPT ![i] = e] /\ UNCHANGED spent
    <2>1. /\ e \in Rows /\ e.state = "escalated" /\ e.owner = None
          /\ e.attempts = row[i].attempts /\ ~e.clearing
      BY <1>1, <1>2, UnclaimedRow DEF RowStates
    <2> HIDE DEF e
    <2> QED
      BY <1>1, <1>2, <1>3, <2>1, RowWritten
  <1>4. CASE /\ ~Exhausted(i)
             /\ row' = [row EXCEPT ![i] = c]
             /\ spent' = IF i \in cond THEN [spent EXCEPT ![i] = @ + 1] ELSE spent
    <2>1. /\ c \in Rows /\ c.state = "claimed" /\ c.owner = s
          /\ c.attempts = row[i].attempts + 1 /\ ~c.clearing
      BY <1>1, <1>2, ClaimedRow
    <2> HIDE DEF c
    <2>2. row[i].attempts + 1 <= Limit(i)
      BY <1>1, <1>4 DEF Exhausted
    <2>3. /\ spent' \in [Incidents -> Nat] /\ \A j \in Incidents \ {i} : spent'[j] = spent[j]
          /\ spent'[i] <= row[i].attempts + 1 /\ (i \notin cond => spent'[i] = 0)
      BY <1>1, <1>2, <1>4
    <2> QED
      BY <1>1, <1>2, <1>4, <2>1, <2>2, <2>3, RowWritten
  <1> QED
    BY <1>3, <1>4 DEF Claim, Put

\* What an owner of a claim does with it leaves attempts alone or ends the outbreak.
LEMMA WorkStep ==
    ASSUME IncidentAssumption, IInv, NEW s \in Controllers, NEW i \in Incidents,
           Heartbeat(s, i) \/ Settle(s, i)
    PROVE  IInv'
  <1>1. /\ row[i] \in Rows /\ spent \in [Incidents -> Nat]
        /\ spent[i] <= row[i].attempts /\ row[i].attempts <= Limit(i)
        /\ i \notin cond => spent[i] = 0
        /\ row[i].clearing /\ spent[i] > 0 => i \in steady
        /\ i \in steady => row[i].clearing
    BY DEF IInv, TypeOK, Budget, Overdue
  <1>2. row[i].state = "claimed" /\ row[i].owner = s /\ s # None
    BY DEF Heartbeat, Settle, Resolve, Defer, Escalate, Working, IncidentAssumption
  <1>3. CASE Heartbeat(s, i)
    <2> DEFINE r == [row[i] EXCEPT !.claim = ClaimTtl]
    <2>1. row' = [row EXCEPT ![i] = r] /\ UNCHANGED <<kind, cond, controller, disabled, look, history>>
      BY <1>3 DEF Heartbeat, Put
    <2>2. /\ r \in Rows /\ r.state = "claimed" /\ r.owner = s /\ r.attempts = row[i].attempts
          /\ r.clearing = row[i].clearing /\ r.confirm = row[i].confirm
      BY <1>1, <1>2, RenewedRow
    <2> HIDE DEF r
    <2> QED
      BY <1>1, <1>2, <2>1, <2>2, RowWritten DEF history
  <1>4. CASE Resolve(s, i)
    <2> DEFINE u == Unclaimed(row[i], "resolved")
               r == [u EXCEPT !.clearing = FALSE, !.confirm = 0]
    <2>1. /\ row' = [row EXCEPT ![i] = r] /\ UNCHANGED <<kind, cond, controller, disabled, look>>
          /\ spent' = [spent EXCEPT ![i] = 0] /\ steady' = steady \ {i}
      BY <1>4 DEF Resolve, Put
    <2>2. /\ u \in Rows /\ u.state = "resolved" /\ u.owner = None /\ u.attempts = row[i].attempts
      BY <1>1, UnclaimedRow DEF RowStates
    <2>3. /\ r \in Rows /\ r.state = "resolved" /\ r.owner = None /\ r.attempts = row[i].attempts
          /\ ~r.clearing
      <3> HIDE DEF u
      <3> QED BY <2>2, SteadyRow
    <2> HIDE DEF r, u
    <2>4. /\ spent' \in [Incidents -> Nat] /\ \A j \in Incidents \ {i} : spent'[j] = spent[j]
          /\ spent'[i] = 0 /\ 0 <= r.attempts
      BY <1>1, <2>1, <2>3 DEF Rows
    <2>5. steady' \subseteq steady /\ steady \ {i} \subseteq steady' /\ i \notin steady'
      BY <2>1
    <2> QED
      BY <1>1, <1>2, <2>1, <2>3, <2>4, <2>5, RowWritten
  <1>5. CASE Defer(s, i)
    <2> DEFINE u == Unclaimed(row[i], "deferred")
               r == [u EXCEPT !.cooldown = Cooldown]
    <2>1. row' = [row EXCEPT ![i] = r] /\ UNCHANGED <<kind, cond, controller, disabled, look, history>>
      BY <1>5 DEF Defer, Put
    <2>2. /\ u \in Rows /\ u.state = "deferred" /\ u.owner = None /\ u.attempts = row[i].attempts
          /\ u.clearing = row[i].clearing /\ u.confirm = row[i].confirm
      BY <1>1, UnclaimedRow DEF RowStates
    <2>3. /\ r \in Rows /\ r.state = "deferred" /\ r.owner = None /\ r.attempts = row[i].attempts
          /\ r.clearing = row[i].clearing /\ r.confirm = row[i].confirm
      <3> HIDE DEF u
      <3> QED BY <2>2, CoolingRow
    <2> HIDE DEF r, u
    <2> QED
      BY <1>1, <1>2, <2>1, <2>3, RowWritten DEF history
  <1>6. CASE Escalate(s, i)
    <2> DEFINE r == Unclaimed(row[i], "escalated")
    <2>1. row' = [row EXCEPT ![i] = r] /\ UNCHANGED <<kind, cond, controller, disabled, look, history>>
      BY <1>6 DEF Escalate, Put
    <2>2. /\ r \in Rows /\ r.state = "escalated" /\ r.owner = None /\ r.attempts = row[i].attempts
          /\ r.clearing = row[i].clearing /\ r.confirm = row[i].confirm
      BY <1>1, UnclaimedRow DEF RowStates
    <2> HIDE DEF r
    <2> QED
      BY <1>1, <1>2, <2>1, <2>2, RowWritten DEF history
  <1> QED
    BY <1>3, <1>4, <1>5, <1>6 DEF Settle

\* One row as detect leaves it: what it saw does not clear; what it missed is left
\* alone, begins to clear, or is closed when no condition can be steady.
LEMMA RecordedRow ==
    ASSUME IncidentAssumption, IInv, NEW d \in Detectors, NEW reached \in SUBSET Incidents,
           Record(d, reached), NEW i \in Incidents
    PROVE  /\ row'[i] \in Rows
           /\ row'[i].state = "claimed" <=> row'[i].owner # None
           /\ \/ row'[i] = row[i]
              \/ /\ ~row'[i].clearing /\ ~(row'[i].state \in {"absent", "resolved"})
                 /\ \/ row'[i].attempts = row[i].attempts
                    \/ Settled(i) /\ row'[i].attempts = 0
              \/ /\ ~row[i].clearing /\ row'[i].clearing /\ row'[i].confirm = ClearConfirm
                 /\ row'[i].state = row[i].state /\ row'[i].attempts = row[i].attempts
              \/ /\ row[i].clearing /\ i \notin steady
                 /\ ~row'[i].clearing /\ row'[i].attempts = 0 /\ row'[i].state = "resolved"
  <1>1. /\ row[i] \in Rows /\ (row[i].state = "claimed" <=> row[i].owner # None)
        /\ look[d] \in Looks /\ TypeOK
    BY DEF IInv, TypeOK
  <1>2. CASE i \notin reached
    <2>1. row'[i] = row[i]
      BY <1>2 DEF Record
    <2> QED BY <2>1, <1>1
  <1>3. CASE i \in reached /\ i \in look[d].seen
    <2>1. row'[i] = Observed(i)
      BY <1>3 DEF Record
    <2> QED BY <2>1, <1>1, ObservedRow
  <1>4. CASE i \in reached /\ i \notin look[d].seen
    <2>1. row'[i] = Unseen(i)
      BY <1>4 DEF Record
    <2>2. CASE /\ row[i].clearing /\ row[i].confirm = 0
               /\ Unseen(i) = [NoRow EXCEPT !.state = "resolved"]
      <3>1. i \notin steady
        <4>1. i \in steady => look[d].age + row[i].confirm >= ClearConfirm
          BY <1>4 DEF Record, IInv, Overdue
        <4>2. look[d].age <= MaxLook /\ look[d].age \in Nat
          BY <1>1 DEF Looks, IncidentAssumption
        <4> QED
          BY <4>1, <4>2, <2>2 DEF IncidentAssumption
      <3>2. ~row'[i].clearing /\ row'[i].attempts = 0 /\ row'[i].state = "resolved"
        BY <2>1, <2>2, EmptyRow, StateRow DEF RowStates
      <3> QED
        BY <2>1, <2>2, <3>1, <3>2, <1>1, UnseenRow
    <2>3. CASE ~(/\ row[i].clearing /\ row[i].confirm = 0
                 /\ Unseen(i) = [NoRow EXCEPT !.state = "resolved"])
      BY <2>1, <2>3, <1>1, UnseenRow
    <2> QED BY <2>2, <2>3
  <1> QED
    BY <1>2, <1>3, <1>4

\* Detection, complete or not, keeps the invariant.
LEMMA RecordStep ==
    ASSUME IncidentAssumption, IInv, NEW d \in Detectors, NEW reached \in SUBSET Incidents,
           Record(d, reached)
    PROVE  IInv'
  <1>1. /\ UNCHANGED <<kind, cond, controller, disabled, spent>>
        /\ look' = [look EXCEPT ![d] = NotLooking]
    BY DEF Record
  <1>2. row' \in [Incidents -> Rows]
    <2>1. row' = [i \in Incidents |-> row'[i]]
      BY DEF Record
    <2> QED BY <2>1, RecordedRow
  <1>3. steady' = (steady \ {i \in Incidents : ~row'[i].clearing})
                     \cup {i \in cond : row'[i].clearing /\ ~row[i].clearing}
    <2>1. cond \subseteq Incidents
      BY DEF IInv, TypeOK
    <2> QED BY <2>1 DEF Record
  <1>4. TypeOK'
    <2>1. look' \in [Detectors -> Looks]
      BY <1>1 DEF IInv, TypeOK, Looks, NotLooking, IncidentAssumption
    <2>2. steady' \subseteq Incidents
      BY <1>3 DEF IInv, TypeOK
    <2>3. \A i \in Incidents : row'[i].state = "claimed" <=> row'[i].owner # None
      BY RecordedRow
    <2> QED BY <1>1, <1>2, <2>1, <2>2, <2>3 DEF IInv, TypeOK
  <1>5. Budget'
    <2> SUFFICES ASSUME NEW i \in Incidents
                 PROVE  /\ spent[i] <= row'[i].attempts
                        /\ row'[i].attempts <= Limit(i)
                        /\ row'[i].state \in {"absent", "resolved"} => spent[i] = 0
                        /\ i \notin cond => spent[i] = 0
                        /\ row'[i].clearing /\ spent[i] > 0 => i \in steady'
      BY <1>1 DEF Budget, Limit, Settled
    <2>1. /\ spent[i] \in Nat /\ row[i].attempts \in Nat /\ Limit(i) \in Nat
          /\ spent[i] <= row[i].attempts /\ row[i].attempts <= Limit(i)
          /\ Settled(i) => spent[i] = 0
          /\ i \notin cond => spent[i] = 0
          /\ row[i].clearing /\ spent[i] > 0 => i \in steady
      BY DEF IInv, TypeOK, Budget, Rows, Limit, IncidentAssumption
    <2>2. CASE row'[i] = row[i]
      BY <2>1, <2>2, <1>3 DEF Settled
    <2>3. CASE /\ ~row'[i].clearing /\ ~(row'[i].state \in {"absent", "resolved"})
               /\ \/ row'[i].attempts = row[i].attempts
                  \/ Settled(i) /\ row'[i].attempts = 0
      BY <2>1, <2>3
    <2>4. CASE /\ ~row[i].clearing /\ row'[i].clearing /\ row'[i].confirm = ClearConfirm
               /\ row'[i].state = row[i].state /\ row'[i].attempts = row[i].attempts
      BY <2>1, <2>4, <1>3 DEF Settled
    <2>5. CASE /\ row[i].clearing /\ i \notin steady
               /\ ~row'[i].clearing /\ row'[i].attempts = 0 /\ row'[i].state = "resolved"
      BY <2>1, <2>5
    <2> QED BY <2>2, <2>3, <2>4, <2>5, RecordedRow
  <1>6. Overdue'
    <2> SUFFICES ASSUME NEW i \in steady'
                 PROVE  /\ i \in cond
                        /\ row'[i].clearing
                        /\ \A e \in Detectors : look'[e].busy /\ i \notin look'[e].seen
                              => look'[e].age + row'[i].confirm >= ClearConfirm
      BY <1>1 DEF Overdue
    <2>1. i \in Incidents /\ row'[i].clearing
      BY <1>3, <1>4 DEF TypeOK
    <2>2. CASE i \in steady /\ row'[i] = row[i]
      BY <2>1, <2>2, <1>1 DEF IInv, TypeOK, Overdue, NotLooking
    <2>3. CASE i \in cond /\ row'[i].confirm = ClearConfirm
      <3>1. \A e \in Detectors : look'[e].age \in Nat
        BY <1>4 DEF TypeOK, Looks
      <3> QED
        BY <2>1, <2>3, <3>1 DEF IncidentAssumption
    <2>4. (i \in steady /\ row[i].clearing) \/ (i \in cond /\ ~row[i].clearing)
      BY <1>3 DEF IInv, Overdue
    <2> QED
      BY <2>1, <2>2, <2>3, <2>4, RecordedRow
  <1> QED
    BY <1>4, <1>5, <1>6 DEF IInv

\* Time brings a confirmation no nearer than it makes a pending look older.
LEMMA TickStep ==
    ASSUME IncidentAssumption, IInv, Tick
    PROVE  IInv'
  <1>1. /\ UNCHANGED <<kind, cond, disabled, spent, steady>>
        /\ \A i \in Incidents : row'[i] = Older(row[i])
        /\ row' \in [Incidents -> Rows]
    BY OlderRow DEF Tick, history, IInv, TypeOK
  <1>2. \A d \in Detectors :
           /\ look'[d] \in Looks
           /\ look'[d].busy = look[d].busy /\ look'[d].seen = look[d].seen
           /\ look[d].busy => look'[d].age = look[d].age + 1
    <2> TAKE d \in Detectors
    <2>1. look[d] \in Looks /\ (look[d].busy => look[d].age < MaxLook)
      BY DEF Tick, IInv, TypeOK
    <2>2. CASE look[d].busy
      <3>1. look'[d] = [look[d] EXCEPT !.age = @ + 1]
        BY <2>2 DEF Tick
      <3>2. look[d].age + 1 \in 0..MaxLook
        BY <2>1, <2>2 DEF Looks, IncidentAssumption
      <3> QED BY <2>1, <2>2, <3>1, <3>2 DEF Looks
    <2>3. CASE ~look[d].busy
      BY <2>1, <2>3 DEF Tick
    <2> QED BY <2>2, <2>3
  <1>3. TypeOK'
    <2>1. \A i \in Incidents : row'[i].state = row[i].state /\ row'[i].owner = row[i].owner
      BY <1>1, OlderRow DEF IInv, TypeOK
    <2>2. look' = [d \in Detectors |-> look'[d]]
      BY DEF Tick
    <2>3. look' \in [Detectors -> Looks]
      BY <1>2, <2>2
    <2>4. controller' \in [session : Controllers \cup {None}, lease : 0..MaxRuntime, runtime : 0..MaxRuntime]
      <3> DEFINE c1 == [controller EXCEPT !.lease = Less(@)]
                 c2 == [c1 EXCEPT !.runtime = Less(@)]
      <3>1. c1 \in [session : Controllers \cup {None}, lease : 0..MaxRuntime, runtime : 0..MaxRuntime]
        BY DEF IInv, TypeOK, Less, IncidentAssumption
      <3>2. c2 \in [session : Controllers \cup {None}, lease : 0..MaxRuntime, runtime : 0..MaxRuntime]
        <4> HIDE DEF c1
        <4> QED BY <3>1 DEF Less, IncidentAssumption
      <3> QED BY <3>2 DEF Tick
    <2> QED BY <1>1, <2>1, <2>3, <2>4 DEF IInv, TypeOK
  <1>4. \A i \in Incidents :
           /\ row[i] \in Rows
           /\ row'[i].state = row[i].state /\ row'[i].attempts = row[i].attempts
           /\ row'[i].clearing = row[i].clearing
           /\ row'[i].confirm + 1 >= row[i].confirm
    BY <1>1, OlderRow DEF IInv, TypeOK
  <1>5. Budget'
    BY <1>1, <1>4 DEF IInv, Budget, Limit, Settled
  <1>6. Overdue'
    <2> SUFFICES ASSUME NEW i \in steady
                 PROVE  /\ i \in cond
                        /\ row'[i].clearing
                        /\ \A e \in Detectors : look'[e].busy /\ i \notin look'[e].seen
                              => look'[e].age + row'[i].confirm >= ClearConfirm
      BY <1>1 DEF Overdue
    <2>1. i \in Incidents /\ i \in cond /\ row'[i].clearing
      BY <1>4 DEF IInv, TypeOK, Overdue
    <2>2. ASSUME NEW e \in Detectors, look'[e].busy, i \notin look'[e].seen
          PROVE  look'[e].age + row'[i].confirm >= ClearConfirm
      <3>1. look[e].age + row[i].confirm >= ClearConfirm /\ look'[e].age = look[e].age + 1
        BY <2>2, <1>2 DEF IInv, Overdue
      <3>2. look[e].age \in Nat /\ row[i].confirm \in Nat /\ row'[i].confirm \in Nat
        BY <1>1, <1>4, <2>1 DEF IInv, TypeOK, Looks, Rows
      <3>3. row'[i].confirm + 1 >= row[i].confirm
        BY <1>4, <2>1
      <3> QED
        BY <3>1, <3>2, <3>3 DEF IncidentAssumption
    <2> QED
      BY <2>1, <2>2
  <1> QED
    BY <1>3, <1>5, <1>6 DEF IInv

\* A look sees every steady condition.
LEMMA LookStep ==
    ASSUME IncidentAssumption, IInv, NEW d \in Detectors, Look(d)
    PROVE  IInv'
  <1>1. /\ UNCHANGED <<kind, cond, row, controller, disabled, spent, steady>>
        /\ look' = [look EXCEPT ![d] = [busy |-> TRUE, seen |-> cond, age |-> 0]]
    BY DEF Look, history
  <1>2. look' \in [Detectors -> Looks]
    <2>1. [busy |-> TRUE, seen |-> cond, age |-> 0] \in Looks
      BY DEF IInv, TypeOK, Looks, IncidentAssumption
    <2> QED BY <1>1, <2>1 DEF IInv, TypeOK
  <1>3. TypeOK'
    BY <1>1, <1>2 DEF IInv, TypeOK
  <1>4. Budget'
    BY <1>1 DEF IInv, Budget, Limit, Settled
  <1>5. Overdue'
    BY <1>1 DEF IInv, TypeOK, Overdue
  <1> QED
    BY <1>3, <1>4, <1>5 DEF IInv

\* The controller's lease and the owner's switch are in nobody's way.
LEMMA ControllerStep ==
    ASSUME IncidentAssumption, IInv,
           \/ Switch
           \/ \E s \in Controllers : ControllerClaim(s) \/ ControllerHeartbeat(s) \/ ControllerRelease(s)
    PROVE  IInv'
  <1> DEFINE Held == [session : Controllers \cup {None}, lease : 0..MaxRuntime, runtime : 0..MaxRuntime]
  <1>1. UNCHANGED <<kind, cond, row, look, spent, steady>>
    BY DEF Switch, ControllerClaim, ControllerHeartbeat, ControllerRelease, history
  <1>2. controller' \in Held /\ disabled' \in BOOLEAN
    <2>1. controller \in Held /\ disabled \in BOOLEAN
      BY DEF IInv, TypeOK
    <2>2. CASE Switch
      BY <2>1, <2>2 DEF Switch
    <2>3. ASSUME NEW s \in Controllers, ControllerClaim(s)  PROVE  controller' \in Held /\ disabled' \in BOOLEAN
      BY <2>1, <2>3 DEF ControllerClaim, IncidentAssumption
    <2>4. ASSUME NEW s \in Controllers, ControllerHeartbeat(s)  PROVE  controller' \in Held /\ disabled' \in BOOLEAN
      BY <2>1, <2>4 DEF ControllerHeartbeat, IncidentAssumption
    <2>5. ASSUME NEW s \in Controllers, ControllerRelease(s)  PROVE  controller' \in Held /\ disabled' \in BOOLEAN
      BY <2>1, <2>5 DEF ControllerRelease, NoController, IncidentAssumption
    <2> QED BY <2>2, <2>3, <2>4, <2>5
  <1>3. TypeOK'
    BY <1>1, <1>2 DEF IInv, TypeOK
  <1>4. Budget'
    BY <1>1 DEF IInv, Budget, Limit, Settled
  <1>5. Overdue'
    BY <1>1 DEF IInv, Overdue
  <1> QED
    BY <1>3, <1>4, <1>5 DEF IInv

\* Conditions come and go; with one that goes, its outbreak ends.
LEMMA ConditionStep ==
    ASSUME IncidentAssumption, IInv, NEW i \in Incidents, Appears(i) \/ GoesAway(i)
    PROVE  IInv'
  <1>1. UNCHANGED <<kind, row, controller, disabled, look>>
    BY DEF Appears, GoesAway
  <1>2. CASE Appears(i)
    <2>1. cond' = cond \cup {i} /\ UNCHANGED <<spent, steady>>
      BY <1>2 DEF Appears, history
    <2>2. TypeOK' /\ Overdue'
      BY <1>1, <2>1 DEF IInv, TypeOK, Overdue
    <2>3. Budget'
      BY <1>1, <2>1 DEF IInv, Budget, Limit, Settled
    <2> QED BY <2>2, <2>3 DEF IInv
  <1>3. CASE GoesAway(i)
    <2>1. /\ cond' = cond \ {i} /\ steady' = steady \ {i}
          /\ spent' = [spent EXCEPT ![i] = 0]
      BY <1>3 DEF GoesAway
    <2>2. TypeOK' /\ Overdue'
      BY <1>1, <2>1 DEF IInv, TypeOK, Overdue
    <2>3. Budget'
      <3>1. \A j \in Incidents : row[j].attempts \in Nat
        BY DEF IInv, TypeOK, Rows
      <3> QED
        BY <1>1, <2>1, <3>1 DEF IInv, TypeOK, Budget, Limit, Settled
    <2> QED BY <2>2, <2>3 DEF IInv
  <1> QED
    BY <1>2, <1>3

-----------------------------------------------------------------------------

\* At first there are no rows, looks or outbreaks.
LEMMA Initially ==
    ASSUME IncidentAssumption, Init
    PROVE  IInv
  <1>1. TypeOK
    <2>1. NotLooking \in Looks
      BY DEF NotLooking, Looks, IncidentAssumption
    <2>2. NoController \in [session : Controllers \cup {None}, lease : 0..MaxRuntime, runtime : 0..MaxRuntime]
      BY DEF NoController, IncidentAssumption
    <2> QED BY <2>1, <2>2, EmptyRow DEF Init, TypeOK
  <1>2. Budget
    BY EmptyRow DEF Init, Budget, Limit, IncidentAssumption
  <1>3. Overdue
    BY DEF Init, Overdue
  <1> QED
    BY <1>1, <1>2, <1>3 DEF IInv

\* Every step keeps the invariant.
LEMMA Inductive ==
    ASSUME IncidentAssumption, IInv, [Next]_vars
    PROVE  IInv'
  <1>1. CASE UNCHANGED vars
    BY <1>1 DEF vars, history, IInv, TypeOK, Budget, Overdue, Limit, Settled
  <1>2. ASSUME NEW d \in Detectors, Look(d)  PROVE  IInv'
    BY <1>2, LookStep
  <1>3. ASSUME NEW d \in Detectors, Detect(d) \/ \E reached \in SUBSET Incidents : Record(d, reached)
        PROVE  IInv'
    BY <1>3, RecordStep DEF Detect
  <1>4. ASSUME NEW s \in Controllers, ControllerClaim(s) \/ ControllerHeartbeat(s) \/ ControllerRelease(s)
        PROVE  IInv'
    BY <1>4, ControllerStep
  <1>5. ASSUME NEW s \in Controllers, NEW i \in Incidents,
               Claim(s, i) \/ Heartbeat(s, i) \/ Settle(s, i)
        PROVE  IInv'
    BY <1>5, ClaimStep, WorkStep
  <1>6. ASSUME NEW i \in Incidents, Appears(i) \/ GoesAway(i)  PROVE  IInv'
    BY <1>6, ConditionStep
  <1>7. CASE Switch
    BY <1>7, ControllerStep
  <1>8. CASE Tick
    BY <1>8, TickStep
  <1> QED
    BY <1>1, <1>2, <1>3, <1>4, <1>5, <1>6, <1>7, <1>8 DEF Next

\* The strengthening is an invariant of the ledger.
LEMMA Invariant == Spec => []IInv
  <1>1. Init => IInv
    BY Initially, IncidentAssumption
  <1>2. IInv /\ [Next]_vars => IInv'
    BY Inductive, IncidentAssumption
  <1> QED
    BY <1>1, <1>2, PTL DEF Spec

\* Rows, looks and the controller file keep their shape, and a row has an owner exactly
\* while it is claimed, for any incidents, controllers, detectors and times.
THEOREM TypeCorrect == Spec => []TypeOK
  <1>1. IInv => TypeOK
    BY DEF IInv
  <1> QED
    BY <1>1, Invariant, PTL

\* No interleaving of detections, controllers and crashes gives one outbreak a second
\* budget: what is spent is in the row, and the row is reset only after the outbreak.
THEOREM BudgetKept == Spec => []BudgetPerOutbreak
  <1>1. IInv => BudgetPerOutbreak
    <2> SUFFICES ASSUME IInv, NEW i \in Incidents  PROVE  spent[i] <= Limit(i)
      BY DEF BudgetPerOutbreak
    <2>1. spent[i] \in Nat /\ row[i].attempts \in Nat /\ Limit(i) \in Nat
      BY IncidentAssumption DEF IInv, TypeOK, Rows, Limit, IncidentAssumption
    <2>2. spent[i] <= row[i].attempts /\ row[i].attempts <= Limit(i)
      BY DEF IInv, Budget
    <2> QED
      BY <2>1, <2>2
  <1> QED
    BY <1>1, Invariant, PTL

\* Detection closes a row only if its condition was away at some time since the row
\* began to clear, for any number of detectors whose looks are younger than the
\* confirmation time.
THEOREM ClearedIsGone == Spec => ClearedMeansGone
  <1>1. ASSUME IInv, [Next]_vars
        PROVE  [\A i \in Incidents :
                  row'[i].state = "resolved" /\ row[i].state \notin {"claimed", "resolved"}
                     => i \notin steady]_vars
    <2> SUFFICES ASSUME Next, NEW i \in Incidents, row'[i].state = "resolved",
                        row[i].state \notin {"claimed", "resolved"}
                 PROVE  i \notin steady
      BY <1>1
    <2> USE IncidentAssumption
    <2>1. row \in [Incidents -> Rows]
      BY <1>1 DEF IInv, TypeOK
    <2>2. row'[i] # row[i]
      OBVIOUS
    <2>3. ASSUME NEW d \in Detectors, NEW reached \in SUBSET Incidents, Record(d, reached)
          PROVE  i \notin steady
      BY <2>2, <2>3, <1>1, RecordedRow
    <2>4. ASSUME NEW s \in Controllers, NEW j \in Incidents, Claim(s, j)
          PROVE  FALSE
      <3>1. \E r \in {Unclaimed(row[j], "escalated"), Claimed(row[j], s)} : row' = [row EXCEPT ![j] = r]
        BY <2>4 DEF Claim, Put
      <3>2. /\ Unclaimed(row[j], "escalated").state = "escalated"
            /\ Claimed(row[j], s).state = "claimed"
        BY <2>1, UnclaimedRow, ClaimedRow DEF RowStates
      <3> QED BY <2>1, <2>2, <3>1, <3>2
    <2>5. ASSUME NEW s \in Controllers, NEW j \in Incidents, Heartbeat(s, j) \/ Settle(s, j)
          PROVE  FALSE
      <3>1. row[j].state = "claimed" /\ \A k \in Incidents \ {j} : row'[k] = row[k]
        BY <2>5, <2>1 DEF Heartbeat, Settle, Resolve, Defer, Escalate, Working, Put
      <3> QED BY <2>2, <3>1
    <2>6. CASE Tick
      <3>1. row'[i].state = row[i].state
        BY <2>6, <2>1, OlderRow DEF Tick
      <3> QED BY <3>1
    <2>7. CASE UNCHANGED row
      BY <2>2, <2>7
    <2> QED
      BY <2>3, <2>4, <2>5, <2>6, <2>7
      DEF Next, Look, Detect, ControllerClaim, ControllerHeartbeat, ControllerRelease, Appears, GoesAway, Switch
  <1> QED
    BY <1>1, Invariant, PTL DEF Spec, ClearedMeansGone

=============================================================================
