--------------------------- MODULE AttemptStartProofs ---------------------------
(***************************************************************************)
(* Proofs about AttemptStart, for any runners, directives and bounds.      *)
(***************************************************************************)
EXTENDS AttemptStart, SequenceTheorems, FiniteSetTheorems, TLAPS

-----------------------------------------------------------------------------
(* What a step makes of its runner *)

\* No other runner is touched.
Others(r) == proc' \in [Runners -> Procs] /\ \A q \in Runners : q # r => proc'[q] = proc[q]

\* The claim it read is kept.
SameClaim(r) ==
    proc'[r].attempt = proc[r].attempt /\ proc'[r].fence = proc[r].fence /\ proc'[r].state = proc[r].state

\* It goes on.
Took(r, pc) ==
    /\ Others(r) /\ SameClaim(r)
    /\ proc'[r].pc = pc /\ proc'[r].body = proc[r].body /\ proc'[r].at = proc[r].at
    /\ proc'[r].brings = proc[r].brings /\ proc'[r].mem = proc[r].mem

\* It comes to an end.
Ended(r, known) ==
    Others(r) /\ proc'[r].pc = "idle" /\ proc'[r].fence = 0 /\ proc'[r].mem = known

\* It reads the claim.
Took1(r, pc) ==
    /\ Others(r)
    /\ proc'[r].pc = pc /\ proc'[r].mem = proc[r].mem
    /\ proc'[r].attempt = issue.attempt /\ proc'[r].fence = issue.fence /\ proc'[r].state = issue.state

\* The fields of a process.
LEMMA ProcType ==
    ASSUME NEW p \in Procs
    PROVE  /\ p.pc \in PCs /\ p.attempt \in Attempts /\ p.fence \in Nat /\ p.state \in IssueStates
           /\ p.body \in SUBSET Directives /\ p.at \in Nat /\ p.brings \in Directives \cup {None}
           /\ p.mem \in SUBSET Directives /\ p.started \in BOOLEAN
  BY DEF Procs, Fences

\* A process starts as one.
LEMMA NewProcType ==
    ASSUME AttemptAssumption
    PROVE  NewProc \in Procs
  BY DEF NewProc, Procs, PCs, Attempts, Fences, IssueStates, AttemptAssumption

\* Going on changes one field.
LEMMA PutPc ==
    ASSUME NEW p \in Procs, NEW pc \in PCs
    PROVE  LET n == [p EXCEPT !.pc = pc] IN
           /\ n \in Procs
           /\ n.pc = pc /\ n.attempt = p.attempt /\ n.fence = p.fence /\ n.state = p.state
           /\ n.body = p.body /\ n.at = p.at /\ n.brings = p.brings /\ n.mem = p.mem
  BY DEF Procs

\* Goto is going on.
LEMMA Going ==
    ASSUME TypeOK, NEW r \in Runners, NEW pc \in PCs, Goto(r, pc)
    PROVE  Took(r, pc)
  <1>1. proc \in [Runners -> Procs] /\ proc[r] \in Procs
    BY DEF TypeOK
  <1>2. proc' = [proc EXCEPT ![r] = [proc[r] EXCEPT !.pc = pc]]
    BY DEF Goto
  <1> QED
    BY <1>1, <1>2, PutPc DEF Took, Others, SameClaim

\* A process at rest has forgotten its claim and keeps its ledger.
LEMMA RestsType ==
    ASSUME AttemptAssumption, NEW p \in Procs
    PROVE  /\ Rests(p) \in Procs
           /\ Rests(p).pc = "idle" /\ Rests(p).fence = 0 /\ Rests(p).mem = p.mem
  <1> DEFINE p1 == [NewProc EXCEPT !.mem = p.mem]
             p2 == [p1 EXCEPT !.started = p.started]
  <1>1. p1 \in Procs /\ p1.pc = "idle" /\ p1.fence = 0 /\ p1.mem = p.mem
    BY NewProcType, ProcType DEF Procs, NewProc
  <1>2. p2 \in Procs /\ p2.pc = "idle" /\ p2.fence = 0 /\ p2.mem = p.mem
    <2> HIDE DEF p1
    <2> QED BY <1>1, ProcType DEF Procs
  <1>3. Rests(p) = p2
    BY DEF Rests
  <1> QED
    BY <1>2, <1>3

\* Stop comes to an end with the ledger as it was.
LEMMA Stopping ==
    ASSUME AttemptAssumption, TypeOK, NEW r \in Runners, Stop(r)
    PROVE  Ended(r, proc[r].mem)
  <1>1. proc \in [Runners -> Procs] /\ proc[r] \in Procs
    BY DEF TypeOK
  <1>2. proc' = [proc EXCEPT ![r] = Rests(proc[r])]
    BY DEF Stop
  <1> QED
    BY <1>1, <1>2, RestsType DEF Ended, Others

\* A process that has read the claim.
LEMMA ReadsType ==
    ASSUME TypeOK, NEW p \in Procs, NEW pc \in PCs
    PROVE  /\ Reads(p, pc) \in Procs
           /\ Reads(p, pc).pc = pc /\ Reads(p, pc).mem = p.mem
           /\ Reads(p, pc).attempt = issue.attempt /\ Reads(p, pc).fence = issue.fence
           /\ Reads(p, pc).state = issue.state
  <1> DEFINE p1 == [p EXCEPT !.pc = pc]
             p2 == [p1 EXCEPT !.attempt = issue.attempt]
             p3 == [p2 EXCEPT !.fence = issue.fence]
             p4 == [p3 EXCEPT !.state = issue.state]
  <1>1. issue.attempt \in Attempts /\ issue.fence \in Fences /\ issue.state \in IssueStates
    BY DEF TypeOK
  <1>2. p1 \in Procs /\ p1.pc = pc /\ p1.mem = p.mem
    BY DEF Procs
  <1>3. p2 \in Procs /\ p2.pc = pc /\ p2.mem = p.mem /\ p2.attempt = issue.attempt
    <2> HIDE DEF p1
    <2> QED BY <1>1, <1>2 DEF Procs
  <1>4. /\ p3 \in Procs /\ p3.pc = pc /\ p3.mem = p.mem /\ p3.attempt = issue.attempt
        /\ p3.fence = issue.fence
    <2> HIDE DEF p2
    <2> QED BY <1>1, <1>3 DEF Procs
  <1>5. /\ p4 \in Procs /\ p4.pc = pc /\ p4.mem = p.mem /\ p4.attempt = issue.attempt
        /\ p4.fence = issue.fence /\ p4.state = issue.state
    <2> HIDE DEF p3
    <2> QED BY <1>1, <1>4 DEF Procs
  <1>6. Reads(p, pc) = p4
    BY DEF Reads
  <1> QED
    BY <1>5, <1>6

\* Reading the claim, for a runner.
LEMMA Reading ==
    ASSUME TypeOK, NEW r \in Runners, NEW pc \in PCs, proc' = [proc EXCEPT ![r] = Reads(proc[r], pc)]
    PROVE  Took1(r, pc)
  <1>1. proc \in [Runners -> Procs] /\ proc[r] \in Procs
    BY DEF TypeOK
  <1> QED
    BY <1>1, ReadsType DEF Took1, Others

\* Startup reads the claim, if there is one.
LEMMA StartupMoves ==
    ASSUME TypeOK, NEW r \in Runners, Startup(r)
    PROVE  \/ issue.state \in Held /\ Took1(r, "truth")
           \/ Took(r, "idle")
  <1>1. proc \in [Runners -> Procs] /\ proc[r] \in Procs
    BY DEF TypeOK
  <1>2. CASE issue.state \in Held
    BY <1>2, Reading DEF Startup, PCs
  <1>3. CASE issue.state \notin Held
    <2> DEFINE p == [proc[r] EXCEPT !.started = TRUE]
    <2>1. /\ p \in Procs
          /\ p.pc = proc[r].pc /\ p.attempt = proc[r].attempt /\ p.fence = proc[r].fence
          /\ p.state = proc[r].state /\ p.body = proc[r].body /\ p.at = proc[r].at
          /\ p.brings = proc[r].brings /\ p.mem = proc[r].mem
      BY <1>1 DEF Procs
    <2>2. proc' = [proc EXCEPT ![r] = p] /\ proc[r].pc = "idle"
      BY <1>3 DEF Startup, At
    <2> HIDE DEF p
    <2> QED BY <1>1, <2>1, <2>2 DEF Took, Others, SameClaim
  <1> QED BY <1>2, <1>3

\* Whatever the worktree turns out to be, the runner is at rest afterwards.
LEMMA TruthMoves ==
    ASSUME AttemptAssumption, TypeOK, NEW r \in Runners, Truth(r)
    PROVE  Ended(r, proc[r].mem)
  <1>1. proc \in [Runners -> Procs] /\ proc[r] \in Procs
    BY DEF TypeOK
  <1> DEFINE p0 == Rests(proc[r])
             p == [p0 EXCEPT !.started = TRUE]
  <1>2. CASE Stop(r)
    BY <1>2, Stopping
  <1>3. CASE proc' = [proc EXCEPT ![r] = p]
    <2>1. p0 \in Procs /\ p0.pc = "idle" /\ p0.fence = 0 /\ p0.mem = proc[r].mem
      BY <1>1, RestsType
    <2>2. p \in Procs /\ p.pc = "idle" /\ p.fence = 0 /\ p.mem = proc[r].mem
      <3> HIDE DEF p0
      <3> QED BY <2>1 DEF Procs
    <2> HIDE DEF p
    <2> QED BY <1>1, <1>3, <2>2 DEF Ended, Others
  <1>4. proc' = [proc EXCEPT ![r] = p] \/ Stop(r)
    BY DEF Truth
  <1> QED BY <1>2, <1>3, <1>4

\* Claiming takes the next fence.
LEMMA TryClaimMoves ==
    ASSUME TypeOK, NEW r \in Runners, TryClaim(r)
    PROVE  /\ Others(r)
           /\ proc'[r].pc = "tree" /\ proc'[r].mem = proc[r].mem
           /\ proc'[r].attempt = issue.attempt /\ proc'[r].fence = issue.fence + 1
  <1> DEFINE p1 == [proc[r] EXCEPT !.pc = "tree"]
             p2 == [p1 EXCEPT !.attempt = issue.attempt]
             p3 == [p2 EXCEPT !.fence = issue.fence + 1]
  <1>1. /\ proc \in [Runners -> Procs] /\ proc[r] \in Procs
        /\ issue.attempt \in Attempts /\ issue.fence + 1 \in Fences
    BY DEF TypeOK, Fences
  <1>2. p1 \in Procs /\ p1.pc = "tree" /\ p1.mem = proc[r].mem
    BY <1>1 DEF Procs, PCs
  <1>3. p2 \in Procs /\ p2.pc = "tree" /\ p2.mem = proc[r].mem /\ p2.attempt = issue.attempt
    <2> HIDE DEF p1
    <2> QED BY <1>1, <1>2 DEF Procs
  <1>4. /\ p3 \in Procs /\ p3.pc = "tree" /\ p3.mem = proc[r].mem /\ p3.attempt = issue.attempt
        /\ p3.fence = issue.fence + 1
    <2> HIDE DEF p2
    <2> QED BY <1>1, <1>3 DEF Procs
  <1>5. proc' = [proc EXCEPT ![r] = p3]
    BY DEF TryClaim
  <1> HIDE DEF p3
  <1> QED BY <1>1, <1>4, <1>5 DEF Others

\* The prompt is all the runner knows with what the desk holds.
LEMMA BuildPromptMoves ==
    ASSUME TypeOK, NEW r \in Runners, BuildPrompt(r)
    PROVE  /\ Others(r) /\ SameClaim(r)
           /\ proc'[r].pc = "list" /\ proc'[r].mem = proc[r].mem \cup notes
           /\ proc'[r].body = proc[r].mem \cup notes
  <1> DEFINE known == proc[r].mem \cup notes
             p1 == [proc[r] EXCEPT !.pc = "list"]
             p2 == [p1 EXCEPT !.mem = known]
             p3 == [p2 EXCEPT !.body = known]
  <1>1. /\ proc \in [Runners -> Procs] /\ proc[r] \in Procs
        /\ known \in SUBSET Directives
    BY ProcType DEF TypeOK
  <1>2. /\ p1 \in Procs /\ p1.pc = "list" /\ p1.attempt = proc[r].attempt /\ p1.fence = proc[r].fence
        /\ p1.state = proc[r].state
    BY <1>1 DEF Procs, PCs
  <1>3. /\ p2 \in Procs /\ p2.pc = "list" /\ p2.attempt = proc[r].attempt /\ p2.fence = proc[r].fence
        /\ p2.state = proc[r].state /\ p2.mem = known
    <2> HIDE DEF p1, known
    <2> QED BY <1>1, <1>2 DEF Procs
  <1>4. /\ p3 \in Procs /\ p3.pc = "list" /\ p3.attempt = proc[r].attempt /\ p3.fence = proc[r].fence
        /\ p3.state = proc[r].state /\ p3.mem = known /\ p3.body = known
    <2> HIDE DEF p2, known
    <2> QED BY <1>1, <1>3 DEF Procs
  <1>5. proc' = [proc EXCEPT ![r] = p3]
    BY DEF BuildPrompt
  <1> HIDE DEF p3
  <1> QED BY <1>1, <1>4, <1>5 DEF Others, SameClaim

\* Two fields change: where it is and which session it is about.
Turns(p, pc, s) == [p EXCEPT !.pc = pc, !.at = s]

\* Turning to a session.
LEMMA AtSession ==
    ASSUME TypeOK, NEW r \in Runners, NEW pc \in PCs, NEW s \in Nat,
           proc' = [proc EXCEPT ![r] = Turns(proc[r], pc, s)]
    PROVE  /\ Others(r) /\ SameClaim(r)
           /\ proc'[r].pc = pc /\ proc'[r].at = s
           /\ proc'[r].body = proc[r].body /\ proc'[r].mem = proc[r].mem
  <1> DEFINE p1 == [proc[r] EXCEPT !.pc = pc]
             p2 == [p1 EXCEPT !.at = s]
  <1>1. proc \in [Runners -> Procs] /\ proc[r] \in Procs
    BY DEF TypeOK
  <1>2. /\ p1 \in Procs /\ p1.pc = pc /\ p1.attempt = proc[r].attempt /\ p1.fence = proc[r].fence
        /\ p1.state = proc[r].state /\ p1.body = proc[r].body /\ p1.mem = proc[r].mem
    BY <1>1 DEF Procs
  <1>3. /\ p2 \in Procs /\ p2.pc = pc /\ p2.attempt = proc[r].attempt /\ p2.fence = proc[r].fence
        /\ p2.state = proc[r].state /\ p2.body = proc[r].body /\ p2.mem = proc[r].mem /\ p2.at = s
    <2> HIDE DEF p1
    <2> QED BY <1>1, <1>2 DEF Procs
  <1> HIDE DEF p2
  <1>4. proc' = [proc EXCEPT ![r] = p2]
    BY DEF p2, Turns
  <1> QED BY <1>1, <1>3, <1>4 DEF Others, SameClaim


\* A command begins.
LEMMA DeskMoves ==
    ASSUME TypeOK, NEW r \in Runners, NEW d \in Directives \cup {None}, Desk(r, d)
    PROVE  Others(r) /\ proc'[r].pc = "load" /\ proc'[r].mem = proc[r].mem
  <1> DEFINE p1 == [proc[r] EXCEPT !.pc = "load"]
             p2 == [p1 EXCEPT !.brings = d]
  <1>1. proc \in [Runners -> Procs] /\ proc[r] \in Procs
    BY DEF TypeOK
  <1>2. p1 \in Procs /\ p1.pc = "load" /\ p1.mem = proc[r].mem
    BY <1>1 DEF Procs, PCs
  <1>3. p2 \in Procs /\ p2.pc = "load" /\ p2.mem = proc[r].mem
    <2> HIDE DEF p1
    <2> QED BY <1>1, <1>2 DEF Procs
  <1>4. proc' = [proc EXCEPT ![r] = p2]
    BY DEF Desk
  <1> HIDE DEF p2
  <1> QED BY <1>1, <1>3, <1>4 DEF Others

\* The runner ends its command with other directives in its ledger.
LEMMA EndsKnowing ==
    ASSUME AttemptAssumption, TypeOK, NEW r \in Runners, NEW known \in SUBSET Directives,
           proc' = [proc EXCEPT ![r] = [Rests(proc[r]) EXCEPT !.mem = known]]
    PROVE  Ended(r, known)
  <1> DEFINE p1 == Rests(proc[r])
             p2 == [p1 EXCEPT !.mem = known]
  <1>1. proc \in [Runners -> Procs] /\ proc[r] \in Procs
    BY DEF TypeOK
  <1>2. p1 \in Procs /\ p1.pc = "idle" /\ p1.fence = 0
    BY <1>1, RestsType
  <1>3. p2 \in Procs /\ p2.pc = "idle" /\ p2.fence = 0 /\ p2.mem = known
    <2> HIDE DEF p1
    <2> QED BY <1>2 DEF Procs
  <1> HIDE DEF p2
  <1>4. proc' = [proc EXCEPT ![r] = p2]
    BY DEF p2
  <1> QED BY <1>1, <1>3, <1>4 DEF Ended, Others

\* The directive is known, or the notes are to be written.
LEMMA LoadMoves ==
    ASSUME AttemptAssumption, TypeOK, NEW r \in Runners, Load(r)
    PROVE  LET known == proc[r].mem \cup notes IN
           \/ /\ proc[r].brings \in known /\ acked' = acked \cup {proc[r].brings}
              /\ Ended(r, known)
           \/ /\ acked' = acked /\ Others(r)
              /\ proc'[r].pc = "write" /\ proc'[r].mem = known
              /\ proc'[r].body = notes /\ proc'[r].brings = proc[r].brings
  <1> DEFINE known == proc[r].mem \cup notes
             p1 == [proc[r] EXCEPT !.pc = "write"]
             p2 == [p1 EXCEPT !.mem = known]
             p3 == [p2 EXCEPT !.body = notes]
  <1>1. /\ proc \in [Runners -> Procs] /\ proc[r] \in Procs
        /\ known \in SUBSET Directives /\ notes \in SUBSET Directives
    BY ProcType DEF TypeOK
  <1>2. CASE proc[r].brings \in known
    <2>1. /\ acked' = acked \cup {proc[r].brings}
          /\ proc' = [proc EXCEPT ![r] = [Rests(proc[r]) EXCEPT !.mem = known]]
      BY <1>2 DEF Load
    <2> HIDE DEF known
    <2>2. Ended(r, known)
      BY <1>1, <2>1, EndsKnowing
    <2> QED BY <1>2, <2>1, <2>2 DEF known
  <1>3. CASE proc[r].brings \notin known
    <2>1. p1 \in Procs /\ p1.pc = "write" /\ p1.brings = proc[r].brings
      BY <1>1 DEF Procs, PCs
    <2>2. p2 \in Procs /\ p2.pc = "write" /\ p2.brings = proc[r].brings /\ p2.mem = known
      <3> HIDE DEF p1, known
      <3> QED BY <1>1, <2>1 DEF Procs
    <2>3. /\ p3 \in Procs /\ p3.pc = "write" /\ p3.brings = proc[r].brings /\ p3.mem = known
          /\ p3.body = notes
      <3> HIDE DEF p2, known
      <3> QED BY <1>1, <2>2 DEF Procs
    <2>4. acked' = acked /\ proc' = [proc EXCEPT ![r] = p3]
      BY <1>3 DEF Load
    <2> HIDE DEF p3
    <2> QED BY <1>1, <2>3, <2>4 DEF Others
  <1> QED BY <1>2, <1>3

\* Notes are directives.
LEMMA BodyType ==
    ASSUME AttemptAssumption, NEW p \in Procs
    PROVE  Body(p) \in SUBSET Directives
  BY ProcType DEF Body

\* What is written is what will be verified.
LEMMA WriteNotesMoves ==
    ASSUME AttemptAssumption, TypeOK, NEW r \in Runners, WriteNotes(r)
    PROVE  /\ Others(r) /\ notes' = Body(proc[r])
           /\ proc'[r].pc = "verify" /\ proc'[r].mem = proc[r].mem
           /\ proc'[r].body = Body(proc[r]) /\ proc'[r].brings = proc[r].brings
  <1> DEFINE b == Body(proc[r])
             p1 == [proc[r] EXCEPT !.pc = "verify"]
             p2 == [p1 EXCEPT !.body = b]
  <1>1. proc \in [Runners -> Procs] /\ proc[r] \in Procs
    BY DEF TypeOK
  <1>2. b \in SUBSET Directives
    BY <1>1, BodyType
  <1>3. p1 \in Procs /\ p1.pc = "verify" /\ p1.mem = proc[r].mem /\ p1.brings = proc[r].brings
    BY <1>1 DEF Procs, PCs
  <1>4. notes' = b /\ proc' = [proc EXCEPT ![r] = p2]
    BY DEF WriteNotes
  <1> HIDE DEF b
  <1>5. p2 \in Procs /\ p2.pc = "verify" /\ p2.mem = proc[r].mem /\ p2.body = b /\ p2.brings = proc[r].brings
    <2> HIDE DEF p1
    <2> QED BY <1>2, <1>3 DEF Procs
  <1> HIDE DEF p2
  <1>6. Others(r) /\ proc'[r] = p2
    BY <1>1, <1>4, <1>5 DEF Others
  <1> QED BY <1>4, <1>5, <1>6 DEF b

\* The notes are verified, or they are not.
LEMMA VerifyNotesMoves ==
    ASSUME AttemptAssumption, TypeOK, NEW r \in Runners, VerifyNotes(r)
    PROVE  LET new == {proc[r].brings} \ {None} IN
           \/ /\ notes = proc[r].body /\ acked' = acked \cup new
              /\ Ended(r, proc[r].mem \cup new)
           \/ acked' = acked /\ Ended(r, proc[r].mem)
  <1> DEFINE new == {proc[r].brings} \ {None}
             known == proc[r].mem \cup new
  <1>1. proc \in [Runners -> Procs] /\ proc[r] \in Procs
    BY DEF TypeOK
  <1>2. known \in SUBSET Directives
    BY <1>1, ProcType
  <1>3. CASE /\ notes = proc[r].body /\ acked' = acked \cup new
             /\ proc' = [proc EXCEPT ![r] = [Rests(proc[r]) EXCEPT !.mem = known]]
    <2> HIDE DEF known
    <2>1. Ended(r, known)
      BY <1>2, <1>3, EndsKnowing
    <2> QED BY <1>3, <2>1 DEF known
  <1>4. CASE acked' = acked /\ Stop(r)
    BY <1>4, Stopping
  <1>5. \/ /\ notes = proc[r].body /\ acked' = acked \cup new
           /\ proc' = [proc EXCEPT ![r] = [Rests(proc[r]) EXCEPT !.mem = known]]
        \/ acked' = acked /\ Stop(r)
    BY DEF VerifyNotes
  <1> QED BY <1>3, <1>4, <1>5

\* A crash leaves nothing in the process.
LEMMA CrashMoves ==
    ASSUME AttemptAssumption, TypeOK, NEW r \in Runners, Crash(r)
    PROVE  Ended(r, {})
  <1>1. proc \in [Runners -> Procs] /\ NewProc \in Procs
    BY NewProcType DEF TypeOK
  <1>2. NewProc.pc = "idle" /\ NewProc.fence = 0 /\ NewProc.mem = {}
    BY DEF NewProc
  <1>3. proc' = [proc EXCEPT ![r] = NewProc]
    BY DEF Crash
  <1> QED BY <1>1, <1>2, <1>3 DEF Ended, Others

-----------------------------------------------------------------------------
(* What a step makes of the sessions *)

\* Neither the sessions nor their races change.
Still == sessions' = sessions /\ raced' = raced

\* The next session is the prompt's, and was given none.
Adds(r) ==
    LET n == Len(sessions) + 1 IN
    /\ sessions' \in Seq(Sessions) /\ raced' = raced
    /\ DOMAIN sessions' = DOMAIN sessions \cup {n} /\ n \notin DOMAIN sessions
    /\ \A s \in DOMAIN sessions : sessions'[s] = sessions[s] /\ s < n
    /\ sessions'[n].attempt = proc[r].attempt /\ sessions'[n].sent = <<>>

\* The session the runner is at is given the runner's prompt.
Sends(r) ==
    LET s == proc[r].at IN
    /\ sessions' \in Seq(Sessions) /\ DOMAIN sessions' = DOMAIN sessions /\ s \in DOMAIN sessions
    /\ \A t \in DOMAIN sessions : /\ sessions'[t].attempt = sessions[t].attempt
                                  /\ sessions'[t].label = sessions[t].label
                                  /\ t # s => sessions'[t].sent = sessions[t].sent
    /\ sessions'[s].sent = Append(sessions[s].sent, proc[r].body)
    /\ raced' \subseteq raced \cup {s} /\ raced \subseteq raced'
    /\ \A q \in Runners \ {r} : At(q, "send") /\ proc[q].at = s => s \in raced'

\* Creating a session adds one.
LEMMA CreatedAdds ==
    ASSUME TypeOK, NEW r \in Runners, sessions' = Created(r), raced' = raced
    PROVE  Adds(r)
  <1> DEFINE new == [attempt |-> proc[r].attempt, label |-> proc[r].body, sent |-> <<>>]
             n == Len(sessions) + 1
  <1>1. sessions \in Seq(Sessions) /\ proc[r] \in Procs
    BY DEF TypeOK
  <1>2. /\ new \in Sessions /\ new.attempt = proc[r].attempt /\ new.sent = <<>>
    BY <1>1, ProcType DEF Sessions
  <1>3. sessions' = Append(sessions, new)
    BY DEF Created
  <1> HIDE DEF new
  <1>4. /\ sessions' \in Seq(Sessions) /\ Len(sessions') = n
        /\ \A s \in 1..Len(sessions) : sessions'[s] = sessions[s]
        /\ sessions'[n] = new
    BY <1>1, <1>2, <1>3, AppendProperties
  <1>5. DOMAIN sessions = 1..Len(sessions) /\ DOMAIN sessions' = 1..n /\ Len(sessions) \in Nat
    BY <1>1, <1>4
  <1> QED BY <1>2, <1>4, <1>5 DEF Adds

\* Sending a prompt adds it to one session, and changes nothing else of it.
LEMMA PromptedSends ==
    ASSUME TypeOK, NEW r \in Runners, Prompted(r), proc[r].at \in DOMAIN sessions
    PROVE  Sends(r)
  <1> DEFINE s == proc[r].at
             b == proc[r].body
             new == [sessions[s] EXCEPT !.sent = Append(sessions[s].sent, b)]
  <1>1. /\ sessions \in Seq(Sessions) /\ s \in DOMAIN sessions /\ b \in SUBSET Directives
        /\ sessions[s] \in Sessions
    BY ProcType DEF TypeOK
  <1>2. sessions[s].sent \in Seq(SUBSET Directives)
    BY <1>1 DEF Sessions
  <1>3. Append(sessions[s].sent, b) \in Seq(SUBSET Directives)
    BY <1>1, <1>2, AppendProperties
  <1>4. /\ new \in Sessions /\ new.attempt = sessions[s].attempt /\ new.label = sessions[s].label
        /\ new.sent = Append(sessions[s].sent, b)
    BY <1>1, <1>3 DEF Sessions
  <1>5. sessions' = [sessions EXCEPT ![s] = new]
    BY DEF Prompted
  <1> HIDE DEF new
  <1>6. /\ sessions' \in Seq(Sessions) /\ DOMAIN sessions' = DOMAIN sessions
        /\ sessions'[s] = new /\ \A t \in DOMAIN sessions : t # s => sessions'[t] = sessions[t]
    <2>1. s \in 1..Len(sessions)
      BY <1>1
    <2>2. sessions' \in Seq(Sessions) /\ Len(sessions') = Len(sessions)
      BY <1>1, <1>4, <1>5, <2>1, ExceptSeq
    <2> QED BY <1>1, <1>5, <2>2
  <1>7. /\ raced' = IF \E q \in Runners \ {r} : At(q, "send") /\ proc[q].at = s THEN raced \cup {s} ELSE raced
    BY DEF Prompted
  <1> QED BY <1>1, <1>4, <1>6, <1>7 DEF Sends

-----------------------------------------------------------------------------
(* Runners and sessions together *)

\* Where a runner holds a session it is to come back to.
AtASession == {"readback", "read", "send", "confirm"}

\* A runner at work on a session is at one of its attempt's.
Bound ==
    \A r \in Runners : proc[r].pc \in AtASession =>
        proc[r].at \in DOMAIN sessions /\ sessions[proc[r].at].attempt = proc[r].attempt

\* No step but these has to do with a session.
Aside(r) == Still /\ Others(r) /\ proc'[r].pc \notin AtASession

\* The runner settles on the one session of its attempt,
Settles(r) ==
    /\ Still /\ Others(r) /\ SameClaim(r)
    /\ proc'[r].pc = "read" /\ Matches(proc[r].attempt) = {proc'[r].at}

\* goes from reading it to sending the prompt,
Means(r) ==
    /\ Still /\ Took(r, "send") /\ At(r, "read")
    /\ Verified(r) /\ sessions[proc[r].at].sent = <<>>

\* makes one,
Makes(r) ==
    /\ Adds(r) /\ Others(r)
    /\ \/ proc'[r].pc = "failing"
       \/ SameClaim(r) /\ proc'[r].pc = "readback" /\ proc'[r].at = Len(sessions) + 1

\* or prompts it.
Sent(r) ==
    /\ Sends(r) /\ At(r, "send") /\ Others(r)
    /\ \/ proc'[r].pc = "failing"
       \/ Took(r, "confirm")

\* Going on to where there is no session.
LEMMA GoingAside ==
    ASSUME TypeOK, NEW r \in Runners, NEW pc \in PCs, Goto(r, pc), pc \notin AtASession, Still
    PROVE  Aside(r)
  BY Going DEF Aside, Took

\* Coming to an end.
LEMMA EndingAside ==
    ASSUME NEW r \in Runners, NEW known, Ended(r, known), Still
    PROVE  Aside(r)
  BY DEF Aside, Ended, AtASession

\* The tick and the tracker have nothing to do with a session.
LEMMA ClaimSteps ==
    ASSUME AttemptAssumption, TypeOK, NEW r \in Runners,
           \/ Startup(r) \/ Truth(r) \/ Resume(r) \/ Get(r) \/ TryClaim(r) \/ FailClaim(r) \/ MarkRunning(r)
    PROVE  Aside(r)
  <1>1. Still
    BY DEF Startup, Truth, Resume, Get, TryClaim, FailClaim, MarkRunning, craft, Still
  <1>2. CASE Startup(r)
    <2>1. Took1(r, "truth") \/ Took(r, "idle")
      BY <1>2, StartupMoves
    <2> QED BY <1>1, <2>1 DEF Took, Took1, Aside, AtASession
  <1>3. CASE Truth(r)
    BY <1>1, <1>3, TruthMoves, EndingAside
  <1>4. CASE Resume(r)
    <2>1. Took1(r, "get")
      BY <1>4, Reading DEF Resume, PCs
    <2> QED BY <1>1, <2>1 DEF Took1, Aside, AtASession
  <1>5. CASE Get(r)
    <2>1. Stop(r) \/ Goto(r, "tree")
      BY <1>5 DEF Get
    <2>2. CASE Stop(r)
      BY <1>1, <2>2, Stopping, EndingAside
    <2>3. CASE Goto(r, "tree")
      BY <1>1, <2>3, GoingAside DEF PCs, AtASession
    <2> QED BY <2>1, <2>2, <2>3
  <1>6. CASE TryClaim(r)
    BY <1>1, <1>6, TryClaimMoves DEF Aside, AtASession
  <1>7. CASE FailClaim(r)
    BY <1>1, <1>7, Stopping, EndingAside DEF FailClaim
  <1>8. CASE MarkRunning(r)
    <2>1. Stop(r) \/ Goto(r, "failing")
      BY <1>8 DEF MarkRunning
    <2>2. CASE Stop(r)
      BY <1>1, <2>2, Stopping, EndingAside
    <2>3. CASE Goto(r, "failing")
      BY <1>1, <2>3, GoingAside DEF PCs, AtASession
    <2> QED BY <2>1, <2>2, <2>3
  <1> QED BY <1>2, <1>3, <1>4, <1>5, <1>6, <1>7, <1>8

\* A call that may be refused.
LEMMA GoingIf ==
    ASSUME TypeOK, NEW r \in Runners, NEW pc \in PCs, NEW ok, GoIf(r, ok, pc), pc \notin AtASession, Still
    PROVE  Aside(r)
  <1>1. Goto(r, pc) \/ Goto(r, "failing")
    BY DEF GoIf
  <1>2. "failing" \in PCs /\ "failing" \notin AtASession
    BY DEF PCs, AtASession
  <1> QED BY <1>1, <1>2, GoingAside

\* Nor have the worktree and the prompt.
LEMMA TreeSteps ==
    ASSUME TypeOK, NEW r \in Runners,
           LookForTree(r) \/ BranchExists(r) \/ AddWorktree(r) \/ WriteBinding(r) \/ BuildPrompt(r)
    PROVE  Aside(r)
  <1>1. Still
    BY DEF LookForTree, BranchExists, AddWorktree, WriteBinding, BuildPrompt, craft, Still
  <1>2. {"branch", "desk", "add", "bind"} \subseteq PCs /\ {"branch", "desk", "add", "bind"} \cap AtASession = {}
    BY DEF PCs, AtASession
  <1>3. CASE LookForTree(r)
    BY <1>1, <1>2, <1>3, GoingIf, GoingAside DEF LookForTree
  <1>4. CASE BranchExists(r)
    BY <1>1, <1>2, <1>4, GoingIf DEF BranchExists
  <1>5. CASE AddWorktree(r)
    BY <1>1, <1>2, <1>5, GoingIf DEF AddWorktree
  <1>6. CASE WriteBinding(r)
    BY <1>1, <1>2, <1>6, GoingAside DEF WriteBinding
  <1>7. CASE BuildPrompt(r)
    BY <1>1, <1>7, BuildPromptMoves DEF Aside, AtASession
  <1> QED BY <1>3, <1>4, <1>5, <1>6, <1>7

\* Nor has the desk, or a crash.
LEMMA DeskSteps ==
    ASSUME AttemptAssumption, TypeOK, NEW r \in Runners,
           \/ Load(r) \/ WriteNotes(r) \/ VerifyNotes(r) \/ Crash(r)
           \/ \E d \in Directives \cup {None} : Desk(r, d)
    PROVE  Aside(r)
  <1>1. Still
    BY DEF Load, WriteNotes, VerifyNotes, Crash, Desk, craft, Still
  <1>2. CASE Load(r)
    BY <1>1, <1>2, LoadMoves, EndingAside DEF Aside, AtASession
  <1>3. CASE WriteNotes(r)
    BY <1>1, <1>3, WriteNotesMoves DEF Aside, AtASession
  <1>4. CASE VerifyNotes(r)
    BY <1>1, <1>4, VerifyNotesMoves, EndingAside
  <1>5. CASE Crash(r)
    BY <1>1, <1>5, CrashMoves, EndingAside
  <1>6. CASE \E d \in Directives \cup {None} : Desk(r, d)
    BY <1>1, <1>6, DeskMoves DEF Aside, AtASession
  <1> QED BY <1>2, <1>3, <1>4, <1>5, <1>6

\* The steps of craft-adapter.ts ensure.
LEMMA SessionSteps ==
    ASSUME TypeOK, Bound, NEW r \in Runners,
           \/ ListSessions(r) \/ CreateSession(r) \/ Readback(r) \/ ReadSession(r) \/ SendPrompt(r) \/ Confirm(r)
    PROVE  Aside(r) \/ Settles(r) \/ Means(r) \/ Makes(r) \/ Sent(r)
  <1>0. /\ {"create", "failing", "mark", "read", "send", "confirm", "readback"} \subseteq PCs
        /\ {"create", "failing", "mark"} \cap AtASession = {}
    BY DEF PCs, AtASession
  <1>a. sessions \in Seq(Sessions) /\ Len(sessions) + 1 \in Nat
    BY DEF TypeOK
  <1>1. CASE ListSessions(r)
    <2>1. Still
      BY <1>1 DEF ListSessions, craft, Still
    <2>2. CASE Goto(r, "create") \/ Goto(r, "failing")
      BY <1>0, <2>1, <2>2, GoingAside
    <2>3. ASSUME NEW s \in Matches(proc[r].attempt), Matches(proc[r].attempt) = {s},
                 proc' = [proc EXCEPT ![r] = [@ EXCEPT !.pc = "read", !.at = s]]
          PROVE  Settles(r)
      <3>1. s \in Nat
        BY <1>a DEF Matches
      <3>2. "read" \in PCs
        BY <1>0
      <3>3. Others(r) /\ SameClaim(r) /\ proc'[r].pc = "read" /\ proc'[r].at = s
        <4>1. proc' = [proc EXCEPT ![r] = Turns(proc[r], "read", s)]
          BY <2>3 DEF Turns
        <4> QED BY <3>1, <3>2, <4>1, AtSession
      <3> QED BY <2>1, <2>3, <3>3 DEF Settles
    <2> QED BY <1>1, <2>2, <2>3 DEF ListSessions, Resumable
  <1>2. CASE CreateSession(r)
    <2>1. Adds(r)
      BY <1>2, CreatedAdds DEF CreateSession
    <2>2. proc' = [proc EXCEPT ![r] = [@ EXCEPT !.pc = "readback", !.at = Len(sessions) + 1]]
      BY <1>2 DEF CreateSession
    <2>3. "readback" \in PCs
      BY <1>0
    <2>4. Others(r) /\ SameClaim(r) /\ proc'[r].pc = "readback" /\ proc'[r].at = Len(sessions) + 1
      <3>1. proc' = [proc EXCEPT ![r] = Turns(proc[r], "readback", Len(sessions) + 1)]
        BY <2>2 DEF Turns
      <3> QED BY <1>a, <2>3, <3>1, AtSession
    <2> QED BY <2>1, <2>4 DEF Makes
  <1>3. CASE Readback(r)
    <2>1. Still
      BY <1>3 DEF Readback, craft, Still
    <2>2. CASE Alone(r) /\ Goto(r, "read")
      <3>1. Took(r, "read")
        BY <1>0, <2>2, Going
      <3> QED BY <2>1, <2>2, <3>1 DEF Took, Settles, Alone
    <2>3. CASE Goto(r, "failing")
      BY <1>0, <2>1, <2>3, GoingAside
    <2> QED BY <1>3, <2>2, <2>3 DEF Readback, GoIf
  <1>4. CASE ReadSession(r)
    <2>1. Still
      BY <1>4 DEF ReadSession, craft, Still
    <2>2. CASE Verified(r) /\ sessions[proc[r].at].sent = <<>> /\ Goto(r, "send")
      BY <1>0, <1>4, <2>1, <2>2, Going DEF Means, ReadSession
    <2>3. CASE Goto(r, "mark") \/ Goto(r, "failing")
      BY <1>0, <2>1, <2>3, GoingAside
    <2> QED BY <1>4, <2>2, <2>3 DEF ReadSession, GoIf
  <1>5. CASE SendPrompt(r)
    <2>1. Sends(r)
      BY <1>5, PromptedSends DEF SendPrompt, Bound, At, AtASession
    <2>2. Took(r, "confirm")
      BY <1>0, <1>5, Going DEF SendPrompt
    <2> QED BY <1>5, <2>1, <2>2 DEF Sent, SendPrompt, Took
  <1>6. CASE Confirm(r)
    <2>1. Still
      BY <1>6 DEF Confirm, craft, Still
    <2> QED BY <1>0, <1>6, <2>1, GoingIf DEF Confirm
  <1> QED BY <1>1, <1>2, <1>3, <1>4, <1>5, <1>6

\* A call that fails may have been carried out.
LEMMA FailingSteps ==
    ASSUME AttemptAssumption, TypeOK, Bound, NEW r \in Runners, CallFails(r)
    PROVE  Aside(r) \/ Makes(r) \/ Sent(r)
  <1>0. "failing" \in PCs /\ "failing" \notin AtASession
    BY DEF PCs, AtASession
  <1>1. CASE Stop(r) /\ ~InStartClaim(proc[r].pc)
    <2>1. ~At(r, "create") /\ ~At(r, "send")
      BY <1>1 DEF At, InStartClaim, PCs
    <2>2. Still
      BY <2>1 DEF CallFails, craft, Still
    <2> QED BY <1>1, <2>2, Stopping, EndingAside
  <1>2. CASE Goto(r, "failing")
    <2>1. Took(r, "failing")
      BY <1>0, <1>2, Going
    <2>2. CASE Still
      BY <1>0, <1>2, <2>2, GoingAside
    <2>3. CASE sessions' = Created(r) /\ raced' = raced
      BY <2>1, <2>3, CreatedAdds DEF Makes, Took
    <2>4. CASE At(r, "send") /\ Prompted(r)
      <3>1. Sends(r)
        BY <2>4, PromptedSends DEF Bound, At, AtASession
      <3> QED BY <2>1, <2>4, <3>1 DEF Sent, Took
    <2>5. Still \/ (sessions' = Created(r) /\ raced' = raced) \/ (At(r, "send") /\ Prompted(r))
      BY DEF CallFails, craft, Still
    <2> QED BY <2>2, <2>3, <2>4, <2>5
  <1> QED BY <1>1, <1>2 DEF CallFails

\* What a step of a runner is to the sessions.
LEMMA Shapes ==
    ASSUME AttemptAssumption, TypeOK, Bound, NEW r \in Runners, Step(r)
    PROVE  Aside(r) \/ Settles(r) \/ Means(r) \/ Makes(r) \/ Sent(r)
  BY ClaimSteps, TreeSteps, DeskSteps, SessionSteps, FailingSteps DEF Step

-----------------------------------------------------------------------------
(* Type correctness *)

\* A step is a runner's, or of the issue alone.
Elsewhere == RunFails \/ Reopen \/ UNCHANGED vars

\* A step of the issue alone leaves everything else as it was.
LEMMA Stutters ==
    ASSUME Elsewhere
    PROVE  Still /\ proc' = proc /\ notes' = notes /\ acked' = acked /\ tree' = tree /\ branch' = branch
  BY DEF Elsewhere, RunFails, Reopen, vars, craft, git, Still

\* An attempt that is lost leaves an issue.
LEMMA LostType ==
    ASSUME AttemptAssumption, NEW i \in [state : IssueStates, attempt : Attempts, fence : Fences]
    PROVE  /\ Lost(i) \in [state : IssueStates, attempt : Attempts, fence : Fences]
           /\ Lost(i).fence = i.fence
  <1> DEFINE i1 == [i EXCEPT !.state = "retry-wait"]
             i2 == [i1 EXCEPT !.attempt = i.attempt + 1]
             i3 == [i EXCEPT !.state = "failed"]
  <1>1. i1 \in [state : IssueStates, attempt : Attempts, fence : Fences] /\ i1.fence = i.fence
    BY DEF IssueStates
  <1>2. i3 \in [state : IssueStates, attempt : Attempts, fence : Fences] /\ i3.fence = i.fence
    BY DEF IssueStates
  <1>3. CASE i.attempt < MaxAttempts
    <2>1. i.attempt + 1 \in Attempts
      BY <1>3 DEF Attempts, AttemptAssumption
    <2>2. i2 \in [state : IssueStates, attempt : Attempts, fence : Fences] /\ i2.fence = i.fence
      <3> HIDE DEF i1
      <3> QED BY <1>1, <2>1
    <2>3. Lost(i) = i2
      BY <1>3 DEF Lost
    <2> QED BY <2>2, <2>3
  <1>4. CASE ~(i.attempt < MaxAttempts)
    BY <1>2, <1>4 DEF Lost
  <1> QED BY <1>3, <1>4

\* The issue, after any step.
LEMMA IssueTyped ==
    ASSUME AttemptAssumption, TypeOK, [Next]_vars
    PROVE  issue' \in [state : IssueStates, attempt : Attempts, fence : Fences]
  <1> DEFINE Issues == [state : IssueStates, attempt : Attempts, fence : Fences]
  <1>1. issue \in Issues
    BY DEF TypeOK
  <1>2. Lost(issue) \in Issues
    BY <1>1, LostType
  <1>3. [issue EXCEPT !.state = "preservation-unknown"] \in Issues /\ [issue EXCEPT !.state = "running"] \in Issues
        /\ [issue EXCEPT !.state = "ready"] \in Issues
    BY <1>1 DEF IssueStates
  <1>4. [issue EXCEPT !.state = "claimed", !.fence = @ + 1] \in Issues
    <2> DEFINE i1 == [issue EXCEPT !.state = "claimed"]
               i2 == [i1 EXCEPT !.fence = issue.fence + 1]
    <2>1. i1 \in Issues
      BY <1>1 DEF IssueStates
    <2>2. issue.fence + 1 \in Fences
      BY <1>1 DEF Fences
    <2>3. i2 \in Issues
      <3> HIDE DEF i1
      <3> QED BY <2>1, <2>2
    <2>4. [issue EXCEPT !.state = "claimed", !.fence = @ + 1] = i2
      BY <1>1
    <2> QED BY <2>3, <2>4
  <1> HIDE DEF Issues
  <1>5. ASSUME NEW r \in Runners, Step(r) PROVE issue' \in Issues
    <2>1. CASE TryClaim(r)
      BY <1>4, <2>1 DEF TryClaim
    <2>2. CASE Truth(r) \/ FailClaim(r) \/ MarkRunning(r)
      BY <1>1, <1>2, <1>3, <2>2 DEF Truth, FailClaim, MarkRunning
    <2>3. CASE issue' = issue
      BY <1>1, <2>3
    <2>4. TryClaim(r) \/ Truth(r) \/ FailClaim(r) \/ MarkRunning(r) \/ issue' = issue
      BY <1>5 DEF Step, Startup, Resume, Get, LookForTree, BranchExists, AddWorktree, WriteBinding,
                  BuildPrompt, ListSessions, CreateSession, Readback, ReadSession, SendPrompt, Confirm,
                  Load, WriteNotes, VerifyNotes, Desk, CallFails, Crash
    <2> QED BY <2>1, <2>2, <2>3, <2>4
  <1>6. ASSUME Elsewhere PROVE issue' \in Issues
    BY <1>1, <1>2, <1>3, <1>6 DEF Elsewhere, RunFails, Reopen, vars
  <1>7. (\E r \in Runners : Step(r)) \/ Elsewhere
    BY DEF Next, Elsewhere
  <1> QED BY <1>5, <1>6, <1>7 DEF Issues

\* The branch and the worktrees.
LEMMA GitTyped ==
    ASSUME TypeOK, [Next]_vars
    PROVE  branch' \in BOOLEAN /\ tree' \in [Attempts -> Trees]
  <1>1. branch \in BOOLEAN /\ tree \in [Attempts -> Trees]
    BY DEF TypeOK
  <1>2. ASSUME NEW r \in Runners, Step(r) PROVE branch' \in BOOLEAN /\ tree' \in [Attempts -> Trees]
    <2> DEFINE a == proc[r].attempt
               t1 == [tree[a] EXCEPT !.there = TRUE]
               t2 == [tree[a] EXCEPT !.bound = proc[r].fence]
    <2>1. a \in Attempts /\ proc[r].fence \in Fences /\ tree[a] \in Trees
      BY <1>1, ProcType DEF TypeOK, Fences
    <2>2. t1 \in Trees /\ t2 \in Trees
      BY <2>1 DEF Trees
    <2>3. CASE AddWorktree(r)
      <3>1. branch' = TRUE /\ (tree' = tree \/ tree' = [tree EXCEPT ![a] = t1])
        BY <2>3 DEF AddWorktree
      <3> HIDE DEF t1
      <3> QED BY <1>1, <2>1, <2>2, <3>1
    <2>4. CASE WriteBinding(r)
      <3>1. branch' = branch /\ tree' = [tree EXCEPT ![a] = t2]
        BY <2>4 DEF WriteBinding
      <3> HIDE DEF t2
      <3> QED BY <1>1, <2>1, <2>2, <3>1
    <2>5. CASE CallFails(r)
      BY <1>1, <2>5 DEF CallFails, git
    <2>6. CASE UNCHANGED git
      BY <1>1, <2>6 DEF git
    <2>7. AddWorktree(r) \/ WriteBinding(r) \/ CallFails(r) \/ UNCHANGED git
      BY <1>2 DEF Step, Startup, Truth, Resume, Get, TryClaim, FailClaim, MarkRunning, LookForTree, BranchExists,
                  BuildPrompt, ListSessions, CreateSession, Readback, ReadSession, SendPrompt, Confirm,
                  Load, WriteNotes, VerifyNotes, Desk, Crash
    <2> QED BY <2>3, <2>4, <2>5, <2>6, <2>7
  <1>3. CASE Elsewhere
    BY <1>1, <1>3, Stutters
  <1> QED BY <1>2, <1>3 DEF Next, Elsewhere

\* What a runner knows and what the desk holds are directives.
LEMMA DeskTyped ==
    ASSUME AttemptAssumption, TypeOK, [Next]_vars
    PROVE  notes' \subseteq Directives /\ acked' \subseteq Directives
  <1>1. notes \subseteq Directives /\ acked \subseteq Directives
    BY DEF TypeOK
  <1>2. ASSUME NEW r \in Runners, Step(r) PROVE notes' \subseteq Directives /\ acked' \subseteq Directives
    <2>1. /\ Body(proc[r]) \subseteq Directives /\ proc[r].brings \in Directives \cup {None}
          /\ proc[r].mem \subseteq Directives
      BY BodyType, ProcType DEF TypeOK
    <2>2. CASE Load(r)
      <3>1. notes' = notes
        BY <2>2 DEF Load, craft
      <3>2. acked' = acked \/ (acked' = acked \cup {proc[r].brings} /\ proc[r].brings \in proc[r].mem \cup notes)
        BY <2>2 DEF Load
      <3> QED BY <1>1, <2>1, <3>1, <3>2
    <2>3. CASE VerifyNotes(r)
      <3>1. notes' = notes
        BY <2>3 DEF VerifyNotes, craft
      <3>2. acked' = acked \/ acked' = acked \cup ({proc[r].brings} \ {None})
        BY <2>3 DEF VerifyNotes
      <3> QED BY <1>1, <2>1, <3>1, <3>2
    <2>4. CASE notes' \in {notes, Body(proc[r])} /\ acked' = acked
      BY <1>1, <2>1, <2>4
    <2>5. Load(r) \/ VerifyNotes(r) \/ (notes' \in {notes, Body(proc[r])} /\ acked' = acked)
      BY <1>2 DEF Step, Startup, Truth, Resume, Get, TryClaim, FailClaim, MarkRunning, LookForTree, BranchExists,
                  AddWorktree, WriteBinding, BuildPrompt, ListSessions, CreateSession, Readback, ReadSession,
                  SendPrompt, Confirm, WriteNotes, Desk, CallFails, Crash, craft
    <2> QED BY <2>2, <2>3, <2>4, <2>5
  <1>3. CASE Elsewhere
    BY <1>1, <1>3, Stutters
  <1> QED BY <1>2, <1>3 DEF Next, Elsewhere

\* The counters.
LEMMA BoundsTyped ==
    ASSUME TypeOK, [Next]_vars
    PROVE  crashes' \in Nat /\ faults' \in Nat /\ reopens' \in Nat
  <1>1. crashes \in Nat /\ faults \in Nat /\ reopens \in Nat
    BY DEF TypeOK
  <1>2. ASSUME NEW r \in Runners, Step(r) PROVE
            crashes' \in {crashes, crashes + 1} /\ faults' \in {faults, faults + 1} /\ reopens' = reopens
    BY <1>2 DEF Step, Startup, Truth, Resume, Get, TryClaim, FailClaim, MarkRunning, LookForTree, BranchExists,
                AddWorktree, WriteBinding, BuildPrompt, ListSessions, CreateSession, Readback, ReadSession,
                SendPrompt, Confirm, Load, WriteNotes, VerifyNotes, Desk, CallFails, Fault, Crash, bounds
  <1>3. Elsewhere => crashes' = crashes /\ faults' = faults /\ reopens' \in {reopens, reopens + 1}
    BY DEF Elsewhere, RunFails, Reopen, vars, bounds
  <1> QED BY <1>1, <1>2, <1>3 DEF Next, Elsewhere

\* The history.
LEMMA HistoryTyped ==
    ASSUME TypeOK, [Next]_vars
    PROVE  met' \in BOOLEAN /\ crowded' \in BOOLEAN
  <1>1. met \in BOOLEAN /\ crowded \in BOOLEAN
    BY DEF TypeOK
  <1>2. CASE Next
    <2>1. met' = (met \/ Overlap') /\ crowded' = (crowded \/ Crowd')
      BY <1>2 DEF Next
    <2> QED BY <2>1, Zenon
  <1>3. CASE UNCHANGED vars
    BY <1>1, <1>3 DEF vars
  <1> QED BY <1>2, <1>3

\* The runners and the sessions.
LEMMA SessionsTyped ==
    ASSUME AttemptAssumption, TypeOK, Bound, [Next]_vars
    PROVE  proc' \in [Runners -> Procs] /\ sessions' \in Seq(Sessions) /\ raced' \subseteq DOMAIN sessions'
  <1>1. proc \in [Runners -> Procs] /\ sessions \in Seq(Sessions) /\ raced \subseteq DOMAIN sessions
    BY DEF TypeOK
  <1>2. ASSUME NEW r \in Runners, Step(r)
        PROVE  proc' \in [Runners -> Procs] /\ sessions' \in Seq(Sessions) /\ raced' \subseteq DOMAIN sessions'
    <2>1. Aside(r) \/ Settles(r) \/ Means(r) \/ Makes(r) \/ Sent(r)
      BY <1>2, Shapes
    <2>2. proc' \in [Runners -> Procs]
      BY <2>1 DEF Aside, Settles, Means, Makes, Sent, Took, Others
    <2>3. CASE Still
      BY <1>1, <2>2, <2>3 DEF Still
    <2>4. CASE Adds(r)
      BY <1>1, <2>2, <2>4 DEF Adds
    <2>5. CASE Sends(r)
      BY <1>1, <2>2, <2>5 DEF Sends
    <2> QED BY <2>1, <2>3, <2>4, <2>5 DEF Aside, Settles, Means, Makes, Sent
  <1>3. CASE Elsewhere
    BY <1>1, <1>3, Stutters DEF Still
  <1> QED BY <1>2, <1>3 DEF Next, Elsewhere

\* Every step keeps the types.
LEMMA TypeStep ==
    ASSUME AttemptAssumption, TypeOK, Bound, [Next]_vars
    PROVE  TypeOK'
  BY IssueTyped, GitTyped, DeskTyped, BoundsTyped, HistoryTyped, SessionsTyped DEF TypeOK

\* Every step keeps runners at sessions of their attempt: sessions are never dropped.
LEMMA BoundStep ==
    ASSUME AttemptAssumption, TypeOK, Bound, [Next]_vars
    PROVE  Bound'
  <1>1. sessions \in Seq(Sessions)
    BY DEF TypeOK
  <1>2. ASSUME NEW r \in Runners, Step(r) PROVE Bound'
    <2>1. Aside(r) \/ Settles(r) \/ Means(r) \/ Makes(r) \/ Sent(r)
      BY <1>2, Shapes
    <2>2. \A s \in DOMAIN sessions : s \in DOMAIN sessions' /\ sessions'[s].attempt = sessions[s].attempt
      BY <2>1 DEF Aside, Settles, Means, Makes, Sent, Still, Adds, Sends
    <2>3. \A q \in Runners : q # r => proc'[q] = proc[q]
      BY <2>1 DEF Aside, Settles, Means, Makes, Sent, Took, Others
    <2>4. proc'[r].pc \in AtASession =>
             proc'[r].at \in DOMAIN sessions' /\ sessions'[proc'[r].at].attempt = proc'[r].attempt
      <3>1. CASE Aside(r)
        BY <3>1 DEF Aside
      <3>2. CASE Settles(r)
        BY <3>2 DEF Settles, Matches, Still, SameClaim
      <3>3. CASE Means(r)
        BY <3>3, <2>2 DEF Means, Took, SameClaim, Bound, At, AtASession
      <3>4. CASE Makes(r)
        BY <3>4 DEF Makes, Adds, SameClaim, AtASession
      <3>5. CASE Sent(r)
        BY <3>5, <2>2 DEF Sent, Took, SameClaim, Bound, At, AtASession
      <3> QED BY <2>1, <3>1, <3>2, <3>3, <3>4, <3>5
    <2> QED BY <2>2, <2>3, <2>4 DEF Bound
  <1>3. CASE Elsewhere
    BY <1>3, Stutters DEF Bound, Still
  <1> QED BY <1>2, <1>3 DEF Next, Elsewhere

\* So it begins.
LEMMA Start ==
    ASSUME AttemptAssumption, Init
    PROVE  TypeOK /\ Bound
  <1>1. NewProc \in Procs /\ NewProc.pc = "idle"
    BY NewProcType DEF NewProc
  <1>2. proc = [r \in Runners |-> NewProc]
    BY DEF Init
  <1>3. proc \in [Runners -> Procs] /\ \A r \in Runners : proc[r].pc = "idle"
    BY <1>1, <1>2
  <1>4. issue \in [state : IssueStates, attempt : Attempts, fence : Fences]
    BY DEF Init, IssueStates, Attempts, Fences, AttemptAssumption
  <1>5. tree \in [Attempts -> Trees]
    BY DEF Init, NoTree, Trees, Fences
  <1>6. sessions \in Seq(Sessions) /\ raced \subseteq DOMAIN sessions
    BY DEF Init
  <1>7. crashes \in Nat /\ faults \in Nat /\ reopens \in Nat /\ branch \in BOOLEAN
        /\ met \in BOOLEAN /\ crowded \in BOOLEAN /\ notes \subseteq Directives /\ acked \subseteq Directives
    BY DEF Init
  <1>8. TypeOK
    BY <1>3, <1>4, <1>5, <1>6, <1>7 DEF TypeOK
  <1>9. Bound
    BY <1>3 DEF Bound, AtASession
  <1> QED BY <1>8, <1>9

\* For any runners, directives and bounds: every variable has its type, and a runner at a
\* session (craft-adapter.ts ensure) is at one of its own attempt.
THEOREM AttemptTypeCorrect == Spec => [](TypeOK /\ Bound)
  <1>1. Init => TypeOK /\ Bound
    BY AttemptAssumption, Start
  <1>2. TypeOK /\ Bound /\ [Next]_vars => (TypeOK /\ Bound)'
    BY AttemptAssumption, TypeStep, BoundStep
  <1> QED BY <1>1, <1>2, PTL DEF Spec

-----------------------------------------------------------------------------
(* An attempt is prompted once *)

\* The oldest session of its attempt: whatever is added later, it remains so.
Oldest(ss, t) == \A s \in DOMAIN ss : ss[s].attempt = ss[t].attempt => t <= s

\* A runner that has settled on a session has settled on the oldest one.
OnOldest == \A r \in Runners : proc[r].pc \in {"read", "send", "confirm"} => Oldest(sessions, proc[r].at)

\* A runner about to send its prompt has read a session labelled with it that was given
\* none; if it has been given one since, the two were racing.
AboutToSend ==
    \A r \in Runners : At(r, "send") =>
        LET s == proc[r].at IN
        sessions[s].label = proc[r].body /\ (sessions[s].sent = <<>> \/ s \in raced)

\* What a session has been given.
Given ==
    \A s \in DOMAIN sessions :
        /\ sessions[s].sent # <<>> => Oldest(sessions, s)
        /\ \A i \in DOMAIN sessions[s].sent : sessions[s].sent[i] = sessions[s].label
        /\ Len(sessions[s].sent) <= 1 \/ s \in raced

\* Inductive, and implies PromptedOnce.
PInv == TypeOK /\ Bound /\ OnOldest /\ AboutToSend /\ Given

\* A step that adds no session to those of an attempt older than t leaves t its oldest.
LEMMA OldestStays ==
    ASSUME NEW t \in DOMAIN sessions, Oldest(sessions, t),
           \A s \in DOMAIN sessions : s \in DOMAIN sessions' /\ sessions'[s].attempt = sessions[s].attempt,
           \A s \in DOMAIN sessions' : s \in DOMAIN sessions \/ t <= s
    PROVE  Oldest(sessions', t)
  BY DEF Oldest

\* Nothing of it changes.
LEMMA AsideKeepsPrompts ==
    ASSUME PInv, NEW r \in Runners, Aside(r)
    PROVE  OnOldest' /\ AboutToSend' /\ Given'
  <1>1. sessions' = sessions /\ raced' = raced /\ \A q \in Runners : q # r => proc'[q] = proc[q]
    BY DEF Aside, Still, Others
  <1>2. proc'[r].pc \notin {"read", "send", "confirm"}
    BY DEF Aside, AtASession
  <1>3. OnOldest'
    BY <1>1, <1>2 DEF PInv, OnOldest, Oldest
  <1>4. AboutToSend'
    BY <1>1, <1>2 DEF PInv, AboutToSend, At
  <1>5. Given'
    BY <1>1 DEF PInv, Given, Oldest
  <1> QED BY <1>3, <1>4, <1>5

\* The only session of an attempt is its oldest.
LEMMA SettlingKeepsPrompts ==
    ASSUME PInv, NEW r \in Runners, Settles(r)
    PROVE  OnOldest' /\ AboutToSend' /\ Given'
  <1>1. sessions' = sessions /\ raced' = raced /\ \A q \in Runners : q # r => proc'[q] = proc[q]
    BY DEF Settles, Still, Others
  <1>2. proc'[r].pc = "read" /\ Matches(proc[r].attempt) = {proc'[r].at}
    BY DEF Settles
  <1>3. Oldest(sessions, proc'[r].at)
    <2>1. sessions \in Seq(Sessions)
      BY DEF PInv, TypeOK
    <2>2. proc'[r].at \in DOMAIN sessions /\ sessions[proc'[r].at].attempt = proc[r].attempt
      BY <1>2 DEF Matches
    <2>3. \A s \in DOMAIN sessions : sessions[s].attempt = proc[r].attempt => s = proc'[r].at
      BY <1>2 DEF Matches
    <2>4. proc'[r].at \in Nat
      BY <2>1, <2>2
    <2> QED BY <2>2, <2>3, <2>4 DEF Oldest
  <1>4. OnOldest'
    BY <1>1, <1>2, <1>3 DEF PInv, OnOldest, Oldest
  <1>5. AboutToSend'
    BY <1>1, <1>2 DEF PInv, AboutToSend, At
  <1>6. Given'
    BY <1>1 DEF PInv, Given, Oldest
  <1> QED BY <1>4, <1>5, <1>6

\* The prompt that will be sent was verified against the label.
LEMMA MeaningKeepsPrompts ==
    ASSUME PInv, NEW r \in Runners, Means(r)
    PROVE  OnOldest' /\ AboutToSend' /\ Given'
  <1>1. sessions' = sessions /\ raced' = raced /\ \A q \in Runners : q # r => proc'[q] = proc[q]
    BY DEF Means, Took, Still, Others
  <1>2. /\ proc[r].pc = "read" /\ proc'[r].at = proc[r].at /\ proc'[r].body = proc[r].body
        /\ sessions[proc[r].at].label = proc[r].body /\ sessions[proc[r].at].sent = <<>>
    BY DEF Means, Took, At, Verified
  <1>3. OnOldest'
    BY <1>1, <1>2 DEF PInv, OnOldest, Oldest
  <1>4. AboutToSend'
    BY <1>1, <1>2 DEF PInv, AboutToSend, At
  <1>5. Given'
    BY <1>1 DEF PInv, Given, Oldest
  <1> QED BY <1>3, <1>4, <1>5

\* A session that is added is nowhere the oldest but of an attempt that had none.
LEMMA MakingKeepsPrompts ==
    ASSUME PInv, NEW r \in Runners, Makes(r)
    PROVE  OnOldest' /\ AboutToSend' /\ Given'
  <1> DEFINE n == Len(sessions) + 1
  <1>1. /\ raced' = raced /\ \A q \in Runners : q # r => proc'[q] = proc[q]
        /\ DOMAIN sessions' = DOMAIN sessions \cup {n} /\ n \notin DOMAIN sessions
        /\ \A s \in DOMAIN sessions : sessions'[s] = sessions[s] /\ s < n
        /\ sessions'[n].sent = <<>>
        /\ proc'[r].pc \notin {"read", "send", "confirm"}
    BY DEF Makes, Adds, Others
  <1> HIDE DEF n
  <1>2. sessions \in Seq(Sessions) /\ n \in Nat
    BY DEF PInv, TypeOK, n
  <1>3. ASSUME NEW t \in DOMAIN sessions, Oldest(sessions, t) PROVE Oldest(sessions', t)
    <2>1. t <= n
      BY <1>1, <1>2
    <2> QED BY <1>1, <1>3, <2>1, OldestStays
  <1>4. OnOldest'
    <2>1. \A q \in Runners : proc[q].pc \in {"read", "send", "confirm"} =>
             proc[q].at \in DOMAIN sessions /\ Oldest(sessions, proc[q].at)
      BY DEF PInv, OnOldest, Bound, AtASession
    <2>2. ASSUME NEW q \in Runners, proc'[q].pc \in {"read", "send", "confirm"}
          PROVE  Oldest(sessions', proc[q].at) /\ proc'[q] = proc[q]
      BY <1>1, <1>3, <2>1, <2>2
    <2> QED BY <1>1, <2>2 DEF OnOldest, Oldest
  <1>5. AboutToSend'
    <2>1. \A q \in Runners : At(q, "send") => proc[q].at \in DOMAIN sessions
      BY DEF PInv, Bound, At, AtASession
    <2> QED BY <1>1, <2>1 DEF PInv, AboutToSend, At
  <1>6. Given'
    <2>1. ASSUME NEW s \in DOMAIN sessions
          PROVE  /\ sessions'[s].sent # <<>> => Oldest(sessions', s)
                 /\ \A i \in DOMAIN sessions'[s].sent : sessions'[s].sent[i] = sessions'[s].label
                 /\ Len(sessions'[s].sent) <= 1 \/ s \in raced'
      BY <1>1, <1>3, <2>1 DEF PInv, Given
    <2>2. DOMAIN sessions'[n].sent = {} /\ Len(sessions'[n].sent) = 0
      BY <1>1
    <2> QED BY <1>1, <2>1, <2>2 DEF Given, Oldest
  <1> QED BY <1>4, <1>5, <1>6

\* Another runner about to send to the same session makes it a race.
LEMMA SendingKeepsPrompts ==
    ASSUME PInv, NEW r \in Runners, Sent(r)
    PROVE  OnOldest' /\ AboutToSend' /\ Given'
  <1> DEFINE s == proc[r].at
  <1>1. /\ \A q \in Runners : q # r => proc'[q] = proc[q]
        /\ DOMAIN sessions' = DOMAIN sessions /\ s \in DOMAIN sessions
        /\ \A t \in DOMAIN sessions : /\ sessions'[t].attempt = sessions[t].attempt
                                      /\ sessions'[t].label = sessions[t].label
                                      /\ t # s => sessions'[t].sent = sessions[t].sent
        /\ sessions'[s].sent = Append(sessions[s].sent, proc[r].body)
        /\ raced \subseteq raced' /\ raced' \subseteq raced \cup {s}
        /\ \A q \in Runners \ {r} : At(q, "send") /\ proc[q].at = s => s \in raced'
        /\ proc'[r].pc \in {"confirm", "failing"}
    BY DEF Sent, Sends, Others, Took
  <1>2. /\ sessions[s].label = proc[r].body /\ (sessions[s].sent = <<>> \/ s \in raced)
        /\ Oldest(sessions, s) /\ proc[r].pc = "send"
    BY DEF PInv, AboutToSend, OnOldest, Sent, At
  <1>3. sessions[s].sent \in Seq(SUBSET Directives) /\ proc[r].body \in SUBSET Directives
    <2>1. sessions \in Seq(Sessions) /\ proc[r] \in Procs
      BY DEF PInv, TypeOK
    <2>2. sessions[s] \in Sessions
      BY <1>1, <2>1
    <2> QED BY <2>1, <2>2, ProcType DEF Sessions
  <1> HIDE DEF s
  <1>4. \A t : Oldest(sessions, t) /\ t \in DOMAIN sessions => Oldest(sessions', t)
    BY <1>1 DEF Oldest
  <1>5. OnOldest'
    <2>1. \A q \in Runners : proc[q].pc \in {"read", "send", "confirm"} =>
             proc[q].at \in DOMAIN sessions /\ Oldest(sessions, proc[q].at)
      BY DEF PInv, OnOldest, Bound, AtASession
    <2>2. ASSUME NEW q \in Runners, proc'[q].pc \in {"read", "send", "confirm"}
          PROVE  Oldest(sessions', proc'[q].at)
      <3>1. CASE q # r
        BY <1>1, <1>4, <2>1, <2>2, <3>1
      <3>2. CASE q = r
        <4>1. proc'[r].at = s
          BY <2>2, <3>2 DEF Sent, Took, s
        <4> QED BY <1>1, <1>2, <1>4, <3>2, <4>1
      <3> QED BY <3>1, <3>2
    <2> QED BY <2>2 DEF OnOldest, Oldest
  <1>6. AboutToSend'
    <2>1. \A q \in Runners : At(q, "send") => proc[q].at \in DOMAIN sessions
      BY DEF PInv, Bound, At, AtASession
    <2>2. ASSUME NEW q \in Runners, proc'[q].pc = "send"
          PROVE  /\ sessions'[proc'[q].at].label = proc'[q].body
                 /\ sessions'[proc'[q].at].sent = <<>> \/ proc'[q].at \in raced'
      <3>1. q # r /\ proc'[q] = proc[q]
        BY <1>1, <2>2
      <3>2. sessions[proc[q].at].label = proc[q].body /\ (sessions[proc[q].at].sent = <<>> \/ proc[q].at \in raced)
        BY <2>2, <3>1 DEF PInv, AboutToSend, At
      <3>3. proc[q].at \in DOMAIN sessions
        BY <2>1, <2>2, <3>1 DEF At
      <3>4. CASE proc[q].at # s
        BY <1>1, <3>1, <3>2, <3>3, <3>4
      <3>5. CASE proc[q].at = s
        BY <1>1, <2>2, <3>1, <3>2, <3>5 DEF At
      <3> QED BY <3>4, <3>5
    <2> QED BY <2>2 DEF AboutToSend, At
  <1>7. Given'
    <2>1. ASSUME NEW t \in DOMAIN sessions, t # s
          PROVE  /\ sessions'[t].sent # <<>> => Oldest(sessions', t)
                 /\ \A i \in DOMAIN sessions'[t].sent : sessions'[t].sent[i] = sessions'[t].label
                 /\ Len(sessions'[t].sent) <= 1 \/ t \in raced'
      BY <1>1, <1>4, <2>1 DEF PInv, Given
    <2>2. \A i \in DOMAIN sessions'[s].sent : sessions'[s].sent[i] = sessions'[s].label
      <3> DEFINE old == sessions[s].sent
      <3>1. \A i \in DOMAIN old : old[i] = sessions[s].label
        BY <1>1 DEF PInv, Given
      <3>2. sessions'[s].sent = Append(old, proc[r].body) /\ old \in Seq(SUBSET Directives)
        BY <1>1, <1>3
      <3> HIDE DEF old
      <3>3. /\ DOMAIN Append(old, proc[r].body) = 1..(Len(old) + 1) /\ DOMAIN old = 1..Len(old) /\ Len(old) \in Nat
            /\ \A i \in 1..Len(old) : Append(old, proc[r].body)[i] = old[i]
            /\ Append(old, proc[r].body)[Len(old) + 1] = proc[r].body
        BY <1>3, <3>2, AppendProperties
      <3>4. \A i \in 1..(Len(old) + 1) : i \in 1..Len(old) \/ i = Len(old) + 1
        BY <3>3
      <3> QED BY <1>1, <1>2, <3>1, <3>2, <3>3, <3>4
    <2>3. Len(sessions'[s].sent) <= 1 \/ s \in raced'
      <3>1. CASE sessions[s].sent = <<>>
        BY <1>1, <1>3, <3>1, AppendProperties
      <3>2. CASE s \in raced
        BY <1>1, <3>2
      <3> QED BY <1>2, <3>1, <3>2
    <2>4. Oldest(sessions', s)
      BY <1>1, <1>2, <1>4
    <2> QED BY <1>1, <2>1, <2>2, <2>3, <2>4 DEF Given, Oldest
  <1> QED BY <1>5, <1>6, <1>7

\* Every step keeps PInv.
LEMMA PInvStep ==
    ASSUME AttemptAssumption, PInv, [Next]_vars
    PROVE  PInv'
  <1>1. TypeOK' /\ Bound'
    BY TypeStep, BoundStep DEF PInv
  <1>2. ASSUME NEW r \in Runners, Step(r) PROVE OnOldest' /\ AboutToSend' /\ Given'
    <2>1. Aside(r) \/ Settles(r) \/ Means(r) \/ Makes(r) \/ Sent(r)
      BY <1>2, Shapes DEF PInv
    <2> QED BY <2>1, AsideKeepsPrompts, SettlingKeepsPrompts, MeaningKeepsPrompts, MakingKeepsPrompts,
               SendingKeepsPrompts
  <1>3. ASSUME Elsewhere PROVE OnOldest' /\ AboutToSend' /\ Given'
    BY <1>3, Stutters DEF PInv, OnOldest, AboutToSend, Given, Oldest, At, Still
  <1>4. OnOldest' /\ AboutToSend' /\ Given'
    BY <1>2, <1>3 DEF Next, Elsewhere
  <1> QED BY <1>1, <1>4 DEF PInv

\* Two sessions of an attempt that were prompted are both its oldest.
LEMMA PromptsOfPInv ==
    ASSUME PInv
    PROVE  PromptedOnce
  <1>1. sessions \in Seq(Sessions)
    BY DEF PInv, TypeOK
  <1>2. ASSUME NEW s \in DOMAIN sessions, NEW t \in DOMAIN sessions,
               sessions[s].attempt = sessions[t].attempt, sessions[s].sent # <<>>, sessions[t].sent # <<>>
        PROVE  s = t
    <2>1. Oldest(sessions, s) /\ Oldest(sessions, t) /\ s \in Nat /\ t \in Nat
      BY <1>1, <1>2 DEF PInv, Given
    <2>2. s <= t /\ t <= s
      BY <1>2, <2>1 DEF Oldest
    <2> QED BY <2>1, <2>2
  <1> QED BY <1>2 DEF PInv, Given, PromptedOnce

\* For any runners, directives and bounds: an attempt is prompted in one session, with the
\* prompt that session is labelled with, and once unless two runners raced.
THEOREM AttemptPromptedOnce == Spec => []PromptedOnce
  <1>1. Init => PInv
    <2> SUFFICES ASSUME Init PROVE PInv
      OBVIOUS
    <2>1. TypeOK /\ Bound
      BY AttemptAssumption, Start
    <2>2. \A r \in Runners : proc[r].pc = "idle"
      BY DEF Init, NewProc
    <2>3. DOMAIN sessions = {}
      BY DEF Init
    <2> QED BY <2>1, <2>2, <2>3 DEF PInv, OnOldest, AboutToSend, Given, At
  <1>2. PInv /\ [Next]_vars => PInv'
    BY AttemptAssumption, PInvStep
  <1>3. PInv => PromptedOnce
    BY PromptsOfPInv
  <1> QED BY <1>1, <1>2, <1>3, PTL DEF Spec

-----------------------------------------------------------------------------
(* A directive acknowledged stays on the desk *)

\* What every runner knows is on the desk; what one is about to write was read from the
\* desk as it is; and what one has written holds the directive it brings.
Desked ==
    \A r \in Runners :
        /\ proc[r].mem \subseteq notes
        /\ At(r, "write") => proc[r].body = notes
        /\ At(r, "verify") => proc[r].brings \in proc[r].body \cup {None}

\* Inductive, and implies AcknowledgedStays.
DInv == TypeOK /\ Bound /\ (crowded \/ (~Crowd /\ acked \subseteq notes /\ Desked))

\* The command has nothing to write, or nothing any more,
Idles(r) ==
    /\ notes' = notes /\ acked' = acked /\ Others(r)
    /\ proc'[r].pc \notin {"write", "verify"} /\ proc'[r].mem \subseteq proc[r].mem \cup notes

\* what it brings is on the desk, as far as it has seen,
Acknowledges(r) ==
    /\ notes' = notes /\ Others(r) /\ proc'[r].pc = "idle"
    /\ acked' \subseteq acked \cup ({proc[r].brings} \ {None})
    /\ proc'[r].mem \subseteq proc[r].mem \cup notes \cup ({proc[r].brings} \ {None})
    /\ proc[r].brings \in proc[r].mem \cup notes \/ (At(r, "verify") /\ notes = proc[r].body)

\* it has read the notes,
Fetches(r) ==
    /\ notes' = notes /\ acked' = acked /\ Others(r)
    /\ proc'[r].pc = "write" /\ proc'[r].body = notes /\ proc'[r].mem \subseteq proc[r].mem \cup notes

\* or has written them.
Writes(r) ==
    /\ At(r, "write") /\ notes' = Body(proc[r]) /\ acked' = acked /\ Others(r)
    /\ proc'[r].pc # "write" /\ proc'[r].mem = proc[r].mem
    /\ proc'[r].pc = "verify" => proc'[r].body = Body(proc[r]) /\ proc'[r].brings = proc[r].brings

\* Coming to an end writes nothing.
LEMMA EndingIdles ==
    ASSUME NEW r \in Runners, Ended(r, proc[r].mem) \/ Ended(r, {}), notes' = notes, acked' = acked
    PROVE  Idles(r)
  BY DEF Ended, Idles

\* Nor does going on to anything but the notes.
LEMMA GoingIdles ==
    ASSUME TypeOK, NEW r \in Runners, NEW pc \in PCs, Goto(r, pc), pc \notin {"write", "verify"},
           notes' = notes, acked' = acked
    PROVE  Idles(r)
  BY Going DEF Took, Idles

\* The tick and the tracker do not write the notes,
LEMMA ClaimIdles ==
    ASSUME AttemptAssumption, TypeOK, NEW r \in Runners,
           \/ Startup(r) \/ Truth(r) \/ Resume(r) \/ Get(r) \/ TryClaim(r) \/ FailClaim(r) \/ MarkRunning(r)
    PROVE  Idles(r)
  <1>1. notes' = notes /\ acked' = acked
    BY DEF Startup, Truth, Resume, Get, TryClaim, FailClaim, MarkRunning, craft
  <1>0. {"tree", "failing"} \subseteq PCs /\ {"tree", "failing"} \cap {"write", "verify"} = {}
    BY DEF PCs
  <1>2. CASE Startup(r)
    <2>1. Took1(r, "truth") \/ Took(r, "idle")
      BY <1>2, StartupMoves
    <2> QED BY <1>1, <2>1 DEF Took, Took1, Idles
  <1>3. CASE Truth(r)
    BY <1>1, <1>3, TruthMoves, EndingIdles
  <1>4. CASE Resume(r)
    <2>1. Took1(r, "get")
      BY <1>4, Reading DEF Resume, PCs
    <2> QED BY <1>1, <2>1 DEF Took1, Idles
  <1>5. CASE Get(r)
    BY <1>0, <1>1, <1>5, Stopping, EndingIdles, GoingIdles DEF Get
  <1>6. CASE TryClaim(r)
    BY <1>1, <1>6, TryClaimMoves DEF Idles
  <1>7. CASE FailClaim(r)
    BY <1>1, <1>7, Stopping, EndingIdles DEF FailClaim
  <1>8. CASE MarkRunning(r)
    BY <1>0, <1>1, <1>8, Stopping, EndingIdles, GoingIdles DEF MarkRunning
  <1> QED BY <1>2, <1>3, <1>4, <1>5, <1>6, <1>7, <1>8

\* nor does the worktree, or the prompt, which learns only what is on the desk,
LEMMA TreeIdles ==
    ASSUME TypeOK, NEW r \in Runners,
           LookForTree(r) \/ BranchExists(r) \/ AddWorktree(r) \/ WriteBinding(r) \/ BuildPrompt(r)
    PROVE  Idles(r)
  <1>1. notes' = notes /\ acked' = acked
    BY DEF LookForTree, BranchExists, AddWorktree, WriteBinding, BuildPrompt, craft
  <1>2. /\ {"branch", "desk", "add", "bind", "failing"} \subseteq PCs
        /\ {"branch", "desk", "add", "bind", "failing"} \cap {"write", "verify"} = {}
    BY DEF PCs
  <1>3. CASE LookForTree(r)
    BY <1>1, <1>2, <1>3, GoingIdles DEF LookForTree, GoIf
  <1>4. CASE BranchExists(r)
    BY <1>1, <1>2, <1>4, GoingIdles DEF BranchExists, GoIf
  <1>5. CASE AddWorktree(r)
    BY <1>1, <1>2, <1>5, GoingIdles DEF AddWorktree, GoIf
  <1>6. CASE WriteBinding(r)
    BY <1>1, <1>2, <1>6, GoingIdles DEF WriteBinding
  <1>7. CASE BuildPrompt(r)
    BY <1>1, <1>7, BuildPromptMoves DEF Idles
  <1> QED BY <1>3, <1>4, <1>5, <1>6, <1>7

\* nor do the sessions.
LEMMA SessionIdles ==
    ASSUME TypeOK, NEW r \in Runners,
           \/ ListSessions(r) \/ CreateSession(r) \/ Readback(r) \/ ReadSession(r) \/ SendPrompt(r) \/ Confirm(r)
    PROVE  Idles(r)
  <1>1. notes' = notes /\ acked' = acked
    BY DEF ListSessions, CreateSession, Readback, ReadSession, SendPrompt, Confirm, craft
  <1>2. /\ {"create", "failing", "mark", "read", "send", "confirm", "readback"} \subseteq PCs
        /\ {"create", "failing", "mark", "read", "send", "confirm", "readback"} \cap {"write", "verify"} = {}
    BY DEF PCs
  <1>3. ASSUME NEW pc \in {"read", "readback"}, NEW s \in Nat,
               proc' = [proc EXCEPT ![r] = Turns(proc[r], pc, s)]
        PROVE  Idles(r)
    <2>1. pc \in PCs
      BY <1>2
    <2>2. Others(r) /\ proc'[r].pc = pc /\ proc'[r].mem = proc[r].mem
      BY <1>3, <2>1, AtSession
    <2> QED BY <1>1, <2>2 DEF Idles
  <1>4. CASE ListSessions(r)
    <2>1. CASE Goto(r, "create") \/ Goto(r, "failing")
      BY <1>1, <1>2, <2>1, GoingIdles
    <2>2. ASSUME NEW s \in Matches(proc[r].attempt),
                 proc' = [proc EXCEPT ![r] = [@ EXCEPT !.pc = "read", !.at = s]]
          PROVE  Idles(r)
      <3>1. s \in Nat
        BY DEF Matches, TypeOK
      <3>2. proc' = [proc EXCEPT ![r] = Turns(proc[r], "read", s)]
        BY <2>2 DEF Turns
      <3> QED BY <1>3, <3>1, <3>2
    <2> QED BY <1>4, <2>1, <2>2 DEF ListSessions, Resumable
  <1>5. CASE CreateSession(r)
    <2>1. proc' = [proc EXCEPT ![r] = Turns(proc[r], "readback", Len(sessions) + 1)]
      BY <1>5 DEF CreateSession, Turns
    <2>2. Len(sessions) + 1 \in Nat
      BY DEF TypeOK
    <2> QED BY <1>3, <2>1, <2>2
  <1>6. CASE Readback(r)
    BY <1>1, <1>2, <1>6, GoingIdles DEF Readback, GoIf
  <1>7. CASE ReadSession(r)
    BY <1>1, <1>2, <1>7, GoingIdles DEF ReadSession, GoIf
  <1>8. CASE SendPrompt(r)
    BY <1>1, <1>2, <1>8, GoingIdles DEF SendPrompt
  <1>9. CASE Confirm(r)
    BY <1>1, <1>2, <1>9, GoingIdles DEF Confirm, GoIf
  <1> QED BY <1>4, <1>5, <1>6, <1>7, <1>8, <1>9

\* What is left is the desk, and failures.
LEMMA NotesSteps ==
    ASSUME AttemptAssumption, TypeOK, NEW r \in Runners,
           \/ Load(r) \/ WriteNotes(r) \/ VerifyNotes(r) \/ CallFails(r) \/ Crash(r)
           \/ \E d \in Directives \cup {None} : Desk(r, d)
    PROVE  Idles(r) \/ Acknowledges(r) \/ Fetches(r) \/ Writes(r)
  <1>1. CASE Load(r)
    <2>1. notes' = notes
      BY <1>1 DEF Load, craft
    <2>2. None \notin proc[r].mem \cup notes
      BY ProcType DEF TypeOK, AttemptAssumption
    <2> QED BY <1>1, <2>1, <2>2, LoadMoves DEF Acknowledges, Fetches, Ended
  <1>2. CASE WriteNotes(r)
    BY <1>2, WriteNotesMoves DEF Writes, WriteNotes
  <1>3. CASE VerifyNotes(r)
    <2>1. notes' = notes /\ At(r, "verify")
      BY <1>3 DEF VerifyNotes, craft
    <2> QED BY <1>3, <2>1, VerifyNotesMoves, EndingIdles DEF Acknowledges, Ended
  <1>4. CASE CallFails(r)
    <2>1. acked' = acked
      BY <1>4 DEF CallFails
    <2>2. Took(r, "failing") \/ Ended(r, proc[r].mem)
      BY <1>4, Going, Stopping DEF CallFails, PCs
    <2>3. notes' = notes \/ (At(r, "write") /\ notes' = Body(proc[r]))
      BY <1>4 DEF CallFails, craft
    <2> QED BY <2>1, <2>2, <2>3 DEF Idles, Writes, Took, Ended
  <1>5. CASE Crash(r)
    BY <1>5, CrashMoves, EndingIdles DEF Crash, craft
  <1>6. CASE \E d \in Directives \cup {None} : Desk(r, d)
    <2>1. notes' = notes /\ acked' = acked
      BY <1>6 DEF Desk, craft
    <2> QED BY <1>6, <2>1, DeskMoves DEF Idles
  <1> QED BY <1>1, <1>2, <1>3, <1>4, <1>5, <1>6

\* Nobody else is about to write, nobody will be, and the step is r's.
LEMMA DeskedStep ==
    ASSUME TypeOK, NEW r \in Runners, ~Crowd, ~Crowd', acked \subseteq notes, Desked,
           Idles(r) \/ Acknowledges(r) \/ Fetches(r) \/ Writes(r)
    PROVE  acked' \subseteq notes' /\ Desked'
  <1>0. \A q \in Runners : /\ proc[q].mem \subseteq notes
                           /\ proc[q].pc = "write" => proc[q].body = notes
                           /\ proc[q].pc = "verify" => proc[q].brings \in proc[q].body \cup {None}
    BY DEF Desked, At
  <1>1. \A q \in Runners : q # r => proc'[q] = proc[q]
    BY DEF Idles, Acknowledges, Fetches, Writes, Others
  <1>2. CASE Idles(r)
    <2>1. acked' \subseteq notes' /\ notes' = notes
      BY <1>2 DEF Idles
    <2>2. proc'[r].mem \subseteq notes /\ proc'[r].pc \notin {"write", "verify"}
      BY <1>0, <1>2 DEF Idles
    <2> QED BY <1>0, <1>1, <2>1, <2>2 DEF Desked, At
  <1>3. CASE Acknowledges(r)
    <2>1. proc[r].brings \in notes \cup {None}
      BY <1>0, <1>3 DEF Acknowledges, At
    <2>2. acked' \subseteq notes' /\ notes' = notes /\ proc'[r].mem \subseteq notes /\ proc'[r].pc = "idle"
      BY <1>0, <1>3, <2>1 DEF Acknowledges
    <2> QED BY <1>0, <1>1, <2>2 DEF Desked, At
  <1>4. CASE Fetches(r)
    <2>1. acked' \subseteq notes' /\ notes' = notes /\ proc'[r].mem \subseteq notes
          /\ proc'[r].pc = "write" /\ proc'[r].body = notes
      BY <1>0, <1>4 DEF Fetches
    <2> QED BY <1>0, <1>1, <2>1 DEF Desked, At
  <1>5. CASE Writes(r)
    <2>1. /\ proc[r].pc = "write" /\ notes' = Body(proc[r]) /\ acked' = acked /\ proc'[r].pc # "write"
          /\ proc'[r].mem = proc[r].mem
          /\ proc'[r].pc = "verify" => proc'[r].body = Body(proc[r]) /\ proc'[r].brings = proc[r].brings
      BY <1>5 DEF Writes, At
    <2>2. Body(proc[r]) = notes \cup ({proc[r].brings} \ {None})
      BY <1>0, <2>1 DEF Body
    <2>3. notes \subseteq notes' /\ acked' \subseteq notes'
      BY <2>1, <2>2
    <2>4. \A q \in Runners : q # r => proc[q].pc # "write"
      BY <2>1 DEF Crowd, At
    <2>5. proc'[r].pc = "verify" => proc'[r].brings \in proc'[r].body \cup {None}
      BY <2>1, <2>2
    <2> QED BY <1>0, <1>1, <2>1, <2>3, <2>4, <2>5 DEF Desked, At
  <1> QED BY <1>2, <1>3, <1>4, <1>5

\* Every step keeps DInv.
LEMMA DInvStep ==
    ASSUME AttemptAssumption, DInv, [Next]_vars
    PROVE  DInv'
  <1>1. TypeOK' /\ Bound'
    BY TypeStep, BoundStep DEF DInv
  <1>2. CASE Next
    <2>1. crowded' = (crowded \/ Crowd')
      BY <1>2 DEF Next
    <2>2. CASE crowded \/ Crowd'
      <3>1. crowded'
        BY <2>1, <2>2
      <3> QED BY <1>1, <3>1 DEF DInv
    <2>3. CASE ~crowded /\ ~Crowd'
      <3>1. TypeOK /\ ~Crowd /\ acked \subseteq notes /\ Desked
        BY <2>3 DEF DInv
      <3>2. ASSUME NEW r \in Runners, Step(r) PROVE acked' \subseteq notes' /\ Desked'
        <4>1. Idles(r) \/ Acknowledges(r) \/ Fetches(r) \/ Writes(r)
          BY <3>1, <3>2, ClaimIdles, TreeIdles, SessionIdles, NotesSteps DEF Step
        <4> QED BY <2>3, <3>1, <4>1, DeskedStep
      <3>3. ASSUME RunFails \/ Reopen PROVE acked' \subseteq notes' /\ Desked'
        <4>1. proc' = proc /\ notes' = notes /\ acked' = acked
          BY <3>3, Stutters DEF Elsewhere
        <4> QED BY <3>1, <4>1 DEF Desked, At
      <3>4. acked' \subseteq notes' /\ Desked'
        BY <1>2, <3>2, <3>3 DEF Next
      <3> QED BY <1>1, <2>3, <3>4 DEF DInv
    <2> QED BY <2>2, <2>3
  <1>3. CASE UNCHANGED vars
    <2>1. /\ proc' = proc /\ notes' = notes /\ acked' = acked /\ crowded' = crowded
      BY <1>3 DEF vars, craft
    <2> QED BY <1>1, <2>1 DEF DInv, Desked, Crowd, At
  <1> QED BY <1>2, <1>3

\* For any runners, directives and bounds: a directive that was acknowledged is on the desk,
\* unless two commands held the notes to write them at once.
THEOREM AttemptAcknowledgedStays == Spec => []AcknowledgedStays
  <1>1. Init => DInv
    <2> SUFFICES ASSUME Init PROVE DInv
      OBVIOUS
    <2>1. TypeOK /\ Bound
      BY AttemptAssumption, Start
    <2>2. \A r \in Runners : proc[r].pc = "idle" /\ proc[r].mem = {}
      BY DEF Init, NewProc
    <2>3. notes = {} /\ acked = {}
      BY DEF Init
    <2> QED BY <2>1, <2>2, <2>3 DEF DInv, Desked, Crowd, At
  <1>2. DInv /\ [Next]_vars => DInv'
    BY AttemptAssumption, DInvStep
  <1>3. DInv => AcknowledgedStays
    BY DEF DInv, AcknowledgedStays
  <1> QED BY <1>1, <1>2, <1>3, PTL DEF Spec

-----------------------------------------------------------------------------
(* A claim is lost for a reason *)

\* Where a runner holds the claim it has read.
AtClaim == PCs \ {"idle", "load", "write", "verify"}

\* From where the worktree is in place.
Prepared == {"desk", "list", "create", "readback", "read", "send", "confirm", "mark"}

\* Only the runner and what is named next may change.
Untouched == issue' = issue /\ tree' = tree /\ branch' = branch /\ Still

\* The runner lets go of its claim, or never had one; the issue may have lost it.
Leaves(r) ==
    /\ Others(r) /\ proc'[r].pc \notin AtClaim
    /\ tree' = tree /\ branch' = branch /\ Still
    /\ issue' = issue \/ (issue'.fence = issue.fence /\ issue'.state \notin Held)

\* Or has it running.
Runs(r) ==
    /\ Others(r) /\ proc'[r].pc \notin AtClaim /\ At(r, "mark")
    /\ tree' = tree /\ branch' = branch /\ Still
    /\ issue.fence = proc[r].fence /\ issue.state = "claimed"
    /\ issue'.fence = issue.fence /\ issue'.attempt = issue.attempt /\ issue'.state = "running"

\* It reads a claim that is held,
Looks(r) ==
    /\ Untouched /\ issue.state \in Held
    /\ \/ Took1(r, "truth")
       \/ Took1(r, "get") /\ issue.state = "claimed"

\* or makes a new one.
Claims(r) ==
    /\ tree' = tree /\ branch' = branch /\ Still
    /\ Others(r) /\ proc'[r].pc = "tree"
    /\ proc'[r].attempt = issue.attempt /\ proc'[r].fence = issue.fence + 1
    /\ issue.state \notin Held
    /\ issue'.state = "claimed" /\ issue'.attempt = issue.attempt /\ issue'.fence = issue.fence + 1

\* It goes from one call of startClaim to the next, on what it has seen,
Proceeds(r, pc) ==
    LET t == tree[proc[r].attempt] IN
    \/ At(r, "get") /\ pc = "tree"
    \/ At(r, "tree") /\ pc = "desk" /\ t.there /\ t.bound = proc[r].fence
    \/ At(r, "tree") /\ pc = "branch" /\ ~t.there
    \/ At(r, "branch") /\ pc = "add"
    \/ At(r, "list") /\ pc = "create" /\ Matches(proc[r].attempt) = {}
    \/ At(r, "readback") /\ pc = "read"
    \/ At(r, "read") /\ pc \in {"send", "mark"}
    \/ At(r, "confirm") /\ pc = "mark"

\* and it is sent to the catch block by what it has seen.
Refused(r) ==
    LET t == tree[proc[r].attempt] IN
    \/ At(r, "tree") /\ t.there /\ t.bound # proc[r].fence
    \/ (At(r, "branch") \/ At(r, "add")) /\ branch
    \/ At(r, "list") /\ Cardinality(Matches(proc[r].attempt)) > 1
    \/ At(r, "readback") /\ ~Alone(r)
    \/ (At(r, "read") \/ At(r, "confirm")) /\ ~Verified(r)
    \/ At(r, "mark") /\ ~(issue.fence = proc[r].fence /\ issue.state = "claimed")

\* Reading, it goes on or is refused.
Walks(r) ==
    /\ Untouched
    /\ \/ \E pc \in PCs : Took(r, pc) /\ Proceeds(r, pc)
       \/ Took(r, "failing") /\ Refused(r)

\* The worktree is added,
Plants(r) ==
    /\ issue' = issue /\ Still /\ Took(r, "bind") /\ At(r, "add")
    /\ ~branch /\ branch' = TRUE
    /\ \A n \in Attempts : tree'[n].bound = tree[n].bound /\ (tree'[n].there <=> tree[n].there \/ n = proc[r].attempt)

\* and bound to the claim;
Binds(r) ==
    /\ issue' = issue /\ Still /\ branch' = branch /\ Took(r, "desk") /\ At(r, "bind")
    /\ \A n \in Attempts : /\ tree'[n].there = tree[n].there
                           /\ tree'[n].bound = IF n = proc[r].attempt THEN proc[r].fence ELSE tree[n].bound

\* the prompt is made,
Builds(r) ==
    /\ Untouched /\ Others(r) /\ SameClaim(r)
    /\ At(r, "desk") /\ proc'[r].pc = "list" /\ proc'[r].body = proc'[r].mem

\* the session is found or created,
Finds(r) ==
    /\ issue' = issue /\ tree' = tree /\ branch' = branch /\ Others(r) /\ SameClaim(r)
    /\ proc'[r].body = proc[r].body /\ proc'[r].mem = proc[r].mem
    /\ \/ Still /\ At(r, "list") /\ proc'[r].pc = "read"
       \/ Adds(r) /\ At(r, "create") /\ proc'[r].pc = "readback"

\* and prompted.
Prompts(r) ==
    /\ issue' = issue /\ tree' = tree /\ branch' = branch
    /\ Sends(r) /\ Took(r, "confirm") /\ At(r, "send")
    /\ raced' = raced \/ \E q \in Runners \ {r} : At(q, "send") /\ proc[q].at = proc[r].at

\* A call fails.
Falters(r) ==
    /\ issue' = issue /\ tree' = tree /\ branch' \in BOOLEAN /\ (branch => branch') /\ faults' > 0
    /\ \/ Others(r) /\ proc'[r].pc \notin AtClaim
       \/ Took(r, "failing") /\ proc[r].pc \in AtClaim

\* Ending is leaving.
LEMMA EndingLeaves ==
    ASSUME NEW r \in Runners, NEW known, Ended(r, known), tree' = tree, branch' = branch, Still,
           issue' = issue \/ (issue'.fence = issue.fence /\ issue'.state \notin Held)
    PROVE  Leaves(r)
  BY DEF Ended, Leaves, AtClaim

\* The steps of the tick and of the tracker.
LEMMA ClaimPaths ==
    ASSUME AttemptAssumption, TypeOK, NEW r \in Runners,
           \/ Startup(r) \/ Truth(r) \/ Resume(r) \/ Get(r) \/ TryClaim(r) \/ FailClaim(r) \/ MarkRunning(r)
    PROVE  Leaves(r) \/ Runs(r) \/ Looks(r) \/ Claims(r) \/ Walks(r)
  <1>0. {"tree", "failing"} \subseteq PCs
    BY DEF PCs
  <1>a. tree' = tree /\ branch' = branch /\ Still
    BY DEF Startup, Truth, Resume, Get, TryClaim, FailClaim, MarkRunning, git, craft, Still
  <1>b. /\ issue \in [state : IssueStates, attempt : Attempts, fence : Fences]
        /\ proc[r] \in Procs
    BY DEF TypeOK
  <1>1. CASE Startup(r)
    <2>1. issue' = issue /\ proc[r].pc = "idle"
      BY <1>1 DEF Startup, At
    <2> QED BY <1>1, <1>a, <2>1, StartupMoves DEF Looks, Untouched, Leaves, Took, AtClaim
  <1>2. CASE Truth(r)
    <2>1. issue' = issue \/ issue' = [issue EXCEPT !.state = "preservation-unknown"]
      BY <1>2 DEF Truth
    <2>2. issue' = issue \/ (issue'.fence = issue.fence /\ issue'.state \notin Held)
      BY <1>b, <2>1 DEF Held
    <2> QED BY <1>2, <1>a, <2>2, TruthMoves, EndingLeaves
  <1>3. CASE Resume(r)
    <2>1. issue' = issue /\ issue.state = "claimed" /\ "get" \in PCs
      BY <1>3 DEF Resume, PCs
    <2>2. Took1(r, "get")
      BY <1>3, <2>1, Reading DEF Resume
    <2> QED BY <1>a, <2>1, <2>2 DEF Looks, Untouched, Held
  <1>4. CASE Get(r)
    <2>1. issue' = issue /\ At(r, "get")
      BY <1>4 DEF Get
    <2>2. CASE Stop(r)
      BY <1>a, <2>1, <2>2, Stopping, EndingLeaves
    <2>3. CASE Goto(r, "tree")
      BY <1>0, <1>a, <2>1, <2>3, Going DEF Walks, Untouched, Proceeds
    <2> QED BY <1>4, <2>2, <2>3 DEF Get
  <1>5. CASE TryClaim(r)
    <2>1. issue' = [issue EXCEPT !.state = "claimed", !.fence = @ + 1] /\ issue.state \in {"ready", "retry-wait"}
      BY <1>5 DEF TryClaim
    <2>2. /\ issue'.state = "claimed" /\ issue'.attempt = issue.attempt /\ issue'.fence = issue.fence + 1
          /\ issue.state \notin Held
      <3>1. issue' = [[issue EXCEPT !.state = "claimed"] EXCEPT !.fence = issue.fence + 1]
        BY <1>b, <2>1
      <3> QED BY <1>b, <2>1, <3>1 DEF Held
    <2> QED BY <1>5, <1>a, <2>2, TryClaimMoves DEF Claims
  <1>6. CASE FailClaim(r)
    <2>1. Stop(r) /\ (issue' = issue \/ issue' = Lost(issue))
      BY <1>6 DEF FailClaim
    <2>2. Lost(issue).fence = issue.fence /\ Lost(issue).state \notin Held
      BY <1>b DEF Lost, Held
    <2> QED BY <1>a, <2>1, <2>2, Stopping, EndingLeaves
  <1>7. CASE MarkRunning(r)
    <2>1. CASE issue.fence = proc[r].fence /\ issue.state = "claimed"
      <3>1. issue' = [issue EXCEPT !.state = "running"] /\ Stop(r) /\ At(r, "mark")
        BY <1>7, <2>1 DEF MarkRunning
      <3>2. issue'.fence = issue.fence /\ issue'.attempt = issue.attempt /\ issue'.state = "running"
        BY <1>b, <3>1
      <3>3. Ended(r, proc[r].mem)
        BY <3>1, Stopping
      <3> QED BY <1>a, <2>1, <3>1, <3>2, <3>3 DEF Runs, Ended, AtClaim
    <2>2. CASE ~(issue.fence = proc[r].fence /\ issue.state = "claimed")
      <3>1. Goto(r, "failing") /\ issue' = issue /\ At(r, "mark")
        BY <1>7, <2>2 DEF MarkRunning
      <3> QED BY <1>0, <1>a, <2>2, <3>1, Going DEF Walks, Untouched, Refused
    <2> QED BY <2>1, <2>2
  <1> QED BY <1>1, <1>2, <1>3, <1>4, <1>5, <1>6, <1>7

\* The steps of workspace-adapter.ts ensure, and the prompt.
LEMMA TreePaths ==
    ASSUME AttemptAssumption, TypeOK, NEW r \in Runners,
           LookForTree(r) \/ BranchExists(r) \/ AddWorktree(r) \/ WriteBinding(r) \/ BuildPrompt(r)
    PROVE  Walks(r) \/ Plants(r) \/ Binds(r) \/ Builds(r)
  <1>0. {"failing", "branch", "desk", "add", "bind"} \subseteq PCs
    BY DEF PCs
  <1>a. issue' = issue /\ Still
    BY DEF LookForTree, BranchExists, AddWorktree, WriteBinding, BuildPrompt, craft, Still
  <1>b. proc[r] \in Procs /\ tree \in [Attempts -> Trees] /\ proc[r].attempt \in Attempts /\ branch \in BOOLEAN
        /\ proc[r].fence \in Fences
    BY DEF TypeOK, Procs
  <1> DEFINE n == proc[r].attempt
  <1>1. CASE LookForTree(r)
    <2>1. Untouched /\ At(r, "tree")
      BY <1>1, <1>a DEF LookForTree, git, Untouched
    <2>2. \/ tree[n].there /\ tree[n].bound = proc[r].fence /\ Goto(r, "desk")
          \/ tree[n].there /\ tree[n].bound # proc[r].fence /\ Goto(r, "failing")
          \/ ~tree[n].there /\ Goto(r, "branch")
      BY <1>1 DEF LookForTree, GoIf
    <2> QED BY <1>0, <2>1, <2>2, Going DEF Walks, Proceeds, Refused
  <1>2. CASE BranchExists(r)
    <2>1. Untouched /\ At(r, "branch")
      BY <1>2, <1>a DEF BranchExists, git, Untouched
    <2>2. Goto(r, "add") \/ (branch /\ Goto(r, "failing"))
      BY <1>2 DEF BranchExists, GoIf
    <2> QED BY <1>0, <2>1, <2>2, Going DEF Walks, Proceeds, Refused
  <1>3. CASE AddWorktree(r)
    <2>1. CASE branch
      <3>1. At(r, "add") /\ Goto(r, "failing") /\ tree' = tree /\ branch' = branch
        BY <1>3, <1>b, <2>1 DEF AddWorktree, GoIf
      <3> QED BY <1>0, <1>a, <2>1, <3>1, Going DEF Walks, Untouched, Refused
    <2>2. CASE ~branch
      <3>1. At(r, "add") /\ Goto(r, "bind") /\ tree' = [tree EXCEPT ![n].there = TRUE] /\ branch' = TRUE
        BY <1>3, <2>2 DEF AddWorktree, GoIf
      <3>2. \A m \in Attempts : tree'[m].bound = tree[m].bound /\ (tree'[m].there <=> tree[m].there \/ m = n)
        BY <1>b, <3>1 DEF Trees
      <3> QED BY <1>0, <1>a, <2>2, <3>1, <3>2, Going DEF Plants
    <2> QED BY <2>1, <2>2
  <1>4. CASE WriteBinding(r)
    <2>1. At(r, "bind") /\ Goto(r, "desk") /\ tree' = [tree EXCEPT ![n].bound = proc[r].fence] /\ branch' = branch
      BY <1>4 DEF WriteBinding
    <2>2. \A m \in Attempts : /\ tree'[m].there = tree[m].there
                              /\ tree'[m].bound = IF m = n THEN proc[r].fence ELSE tree[m].bound
      BY <1>b, <2>1 DEF Trees
    <2> QED BY <1>0, <1>a, <2>1, <2>2, Going DEF Binds
  <1>5. CASE BuildPrompt(r)
    <2>1. Untouched /\ At(r, "desk")
      BY <1>5, <1>a DEF BuildPrompt, git, Untouched
    <2> QED BY <1>5, <2>1, BuildPromptMoves DEF Builds
  <1> QED BY <1>1, <1>2, <1>3, <1>4, <1>5

\* The steps of craft-adapter.ts ensure.
LEMMA SessionPaths ==
    ASSUME AttemptAssumption, TypeOK, Bound, NEW r \in Runners,
           \/ ListSessions(r) \/ CreateSession(r) \/ Readback(r) \/ ReadSession(r) \/ SendPrompt(r) \/ Confirm(r)
    PROVE  Walks(r) \/ Finds(r) \/ Prompts(r)
  <1>0. {"create", "failing", "mark", "read", "send", "confirm", "readback"} \subseteq PCs
    BY DEF PCs
  <1>a. issue' = issue /\ tree' = tree /\ branch' = branch
    BY DEF ListSessions, CreateSession, Readback, ReadSession, SendPrompt, Confirm, git
  <1>b. sessions \in Seq(Sessions) /\ Len(sessions) + 1 \in Nat
    BY DEF TypeOK
  <1>1. CASE ListSessions(r)
    <2>1. Still /\ Untouched /\ At(r, "list")
      BY <1>1, <1>a DEF ListSessions, craft, Still, Untouched
    <2>2. CASE Matches(proc[r].attempt) = {} /\ Goto(r, "create")
      BY <1>0, <2>1, <2>2, Going DEF Walks, Proceeds
    <2>3. CASE Cardinality(Matches(proc[r].attempt)) > 1 /\ Goto(r, "failing")
      BY <1>0, <2>1, <2>3, Going DEF Walks, Refused
    <2>4. ASSUME NEW s \in Matches(proc[r].attempt),
                 proc' = [proc EXCEPT ![r] = [@ EXCEPT !.pc = "read", !.at = s]]
          PROVE  Finds(r)
      <3>1. s \in Nat /\ "read" \in PCs
        BY <1>0, <1>b DEF Matches
      <3>2. proc' = [proc EXCEPT ![r] = Turns(proc[r], "read", s)]
        BY <2>4 DEF Turns
      <3> QED BY <1>a, <2>1, <3>1, <3>2, AtSession DEF Finds
    <2> QED BY <1>1, <2>2, <2>3, <2>4 DEF ListSessions, Resumable
  <1>2. CASE CreateSession(r)
    <2>1. Adds(r) /\ At(r, "create")
      BY <1>2, CreatedAdds DEF CreateSession
    <2>2. proc' = [proc EXCEPT ![r] = Turns(proc[r], "readback", Len(sessions) + 1)]
      BY <1>2 DEF CreateSession, Turns
    <2>3. "readback" \in PCs
      BY <1>0
    <2> QED BY <1>a, <1>b, <2>1, <2>2, <2>3, AtSession DEF Finds
  <1>3. CASE Readback(r)
    <2>1. Untouched /\ At(r, "readback")
      BY <1>3, <1>a DEF Readback, craft, Still, Untouched
    <2>2. Goto(r, "read") \/ (~Alone(r) /\ Goto(r, "failing"))
      BY <1>3 DEF Readback, GoIf
    <2> QED BY <1>0, <2>1, <2>2, Going DEF Walks, Proceeds, Refused
  <1>4. CASE ReadSession(r)
    <2>1. Untouched /\ At(r, "read")
      BY <1>4, <1>a DEF ReadSession, craft, Still, Untouched
    <2>2. Goto(r, "send") \/ Goto(r, "mark") \/ (~Verified(r) /\ Goto(r, "failing"))
      BY <1>4 DEF ReadSession, GoIf
    <2> QED BY <1>0, <2>1, <2>2, Going DEF Walks, Proceeds, Refused
  <1>5. CASE SendPrompt(r)
    <2>1. Sends(r) /\ At(r, "send") /\ Prompted(r)
      BY <1>5, PromptedSends DEF SendPrompt, Bound, At, AtASession
    <2>2. Took(r, "confirm")
      BY <1>0, <1>5, Going DEF SendPrompt
    <2>3. raced' = raced \/ \E q \in Runners \ {r} : At(q, "send") /\ proc[q].at = proc[r].at
      BY <2>1 DEF Prompted
    <2> QED BY <1>a, <2>1, <2>2, <2>3 DEF Prompts
  <1>6. CASE Confirm(r)
    <2>1. Untouched /\ At(r, "confirm")
      BY <1>6, <1>a DEF Confirm, craft, Still, Untouched
    <2>2. Goto(r, "mark") \/ (~Verified(r) /\ Goto(r, "failing"))
      BY <1>6 DEF Confirm, GoIf
    <2> QED BY <1>0, <2>1, <2>2, Going DEF Walks, Proceeds, Refused
  <1> QED BY <1>1, <1>2, <1>3, <1>4, <1>5, <1>6

\* The desk, and a crash.
LEMMA DeskPaths ==
    ASSUME AttemptAssumption, TypeOK, NEW r \in Runners,
           \/ Load(r) \/ WriteNotes(r) \/ VerifyNotes(r) \/ Crash(r)
           \/ \E d \in Directives \cup {None} : Desk(r, d)
    PROVE  Leaves(r)
  <1>1. tree' = tree /\ branch' = branch /\ issue' = issue /\ Still
    BY DEF Load, WriteNotes, VerifyNotes, Crash, Desk, craft, git, Still
  <1>2. CASE Load(r)
    BY <1>1, <1>2, LoadMoves, EndingLeaves DEF Leaves, AtClaim
  <1>3. CASE WriteNotes(r)
    BY <1>1, <1>3, WriteNotesMoves DEF Leaves, AtClaim
  <1>4. CASE VerifyNotes(r)
    BY <1>1, <1>4, VerifyNotesMoves, EndingLeaves
  <1>5. CASE Crash(r)
    BY <1>1, <1>5, CrashMoves, EndingLeaves
  <1>6. CASE \E d \in Directives \cup {None} : Desk(r, d)
    BY <1>1, <1>6, DeskMoves DEF Leaves, AtClaim
  <1> QED BY <1>2, <1>3, <1>4, <1>5, <1>6

\* A call that fails.
LEMMA FailingPaths ==
    ASSUME AttemptAssumption, TypeOK, NEW r \in Runners, CallFails(r)
    PROVE  Falters(r)
  <1>0. "failing" \in PCs
    BY DEF PCs
  <1>1. issue' = issue /\ tree' = tree /\ branch' \in BOOLEAN /\ (branch => branch')
    <2>1. issue' = issue /\ tree' = tree /\ (branch' = branch \/ branch' = TRUE)
      BY DEF CallFails, git
    <2> QED BY <2>1 DEF TypeOK
  <1>2. faults' > 0
    BY DEF CallFails, Fault, TypeOK
  <1>3. CASE Stop(r)
    BY <1>1, <1>2, <1>3, Stopping DEF Falters, Ended, AtClaim
  <1>4. CASE Goto(r, "failing") /\ InStartClaim(proc[r].pc)
    <2>1. proc[r].pc \in AtClaim
      BY <1>4 DEF InStartClaim, AtClaim, PCs
    <2> QED BY <1>0, <1>1, <1>2, <1>4, <2>1, Going DEF Falters
  <1> QED BY <1>3, <1>4 DEF CallFails

\* What a step of a runner is to its claim.
Path(r) ==
    \/ Leaves(r) \/ Runs(r) \/ Looks(r) \/ Claims(r) \/ Walks(r) \/ Plants(r) \/ Binds(r) \/ Builds(r)
    \/ Finds(r) \/ Prompts(r) \/ Falters(r)

\* Every step is one of these.
LEMMA Paths ==
    ASSUME AttemptAssumption, TypeOK, Bound, NEW r \in Runners, Step(r)
    PROVE  Path(r)
  BY ClaimPaths, TreePaths, SessionPaths, DeskPaths, FailingPaths DEF Step, Path

-----------------------------------------------------------------------------
(* What a claim that is held can count on *)

\* Claims are numbered by their fences, and a runner whose claim is in force is at the
\* issue's attempt.
FencesPast ==
    /\ issue.state \in Held => issue.fence # 0
    /\ \A r \in Runners : proc[r].pc \in AtClaim =>
          /\ proc[r].fence # 0 /\ proc[r].fence <= issue.fence
          /\ Current(r) => proc[r].attempt = issue.attempt

\* One worktree is ever added, by one runner, which binds it; what goes on from there has
\* found it bound to its own claim.
OneTree ==
    /\ \A n \in Attempts :
          /\ tree[n].bound # 0 => tree[n].there
          /\ tree[n].there => branch
          /\ \A m \in Attempts : tree[n].there /\ tree[m].there => m = n
    /\ \A r \in Runners : At(r, "bind") =>
          /\ tree[proc[r].attempt].there /\ tree[proc[r].attempt].bound = 0
          /\ \A q \in Runners : At(q, "bind") => q = r
    /\ \A r \in Runners : proc[r].pc \in Prepared =>
          tree[proc[r].attempt].there /\ tree[proc[r].attempt].bound = proc[r].fence

\* What runs has a worktree, also where startup has read it as running.
RunsInTree ==
    /\ issue.state = "running" => tree[issue.attempt].there
    /\ \A r \in Runners : At(r, "truth") =>
          proc[r].state \in Held /\ (proc[r].state = "running" => tree[proc[r].attempt].there)

\* While no two runners have met and no call has failed: a runner that is starting a claim
\* finds it claimed,
StillClaimed ==
    \A r \in Runners : proc[r].pc \in AtClaim \ {"truth", "failing"} /\ Current(r) => issue.state = "claimed"

\* no one binds the worktree to the claim of a runner that has found none,
Unplanted ==
    \A r \in Runners : At(r, "branch") \/ At(r, "add") => tree[proc[r].attempt].bound # proc[r].fence

\* an attempt has one session,
OneSession ==
    /\ \A s, t \in DOMAIN sessions : sessions[s].attempt = sessions[t].attempt => s = t
    /\ \A r \in Runners : At(r, "create") => Matches(proc[r].attempt) = {}
    /\ raced = {}

\* a prompt is what the runner knows,
PromptsKnown == \A r \in Runners : proc[r].pc \in Prepared \ {"desk"} => proc[r].body = proc[r].mem

\* and the catch block is reached for a reason.
Reason(r) ==
    \/ Strange(proc[r].attempt, proc[r].fence)
    \/ \E s \in Matches(proc[r].attempt) : sessions[s].label # proc[r].mem

FailsForCause == \A r \in Runners : At(r, "failing") /\ Current(r) => Reason(r)

Apart == ~Overlap /\ StillClaimed /\ Unplanted /\ OneSession /\ PromptsKnown /\ FailsForCause

\* Inductive, and implies ClaimLostForCause.
CInv == PInv /\ FencesPast /\ OneTree /\ RunsInTree /\ (faults > 0 \/ met \/ Apart)

\* Every step keeps the fences in order.
LEMMA FencesStep ==
    ASSUME TypeOK, TypeOK', FencesPast, NEW r \in Runners, Path(r)
    PROVE  FencesPast'
  <1>0. /\ issue.fence \in Nat /\ issue'.fence \in Nat
        /\ \A q \in Runners : proc[q].fence \in Nat /\ proc'[q].fence \in Nat
        /\ \A q \in Runners : proc[q].pc \in PCs /\ proc'[q].pc \in PCs
    BY DEF TypeOK, Procs, Fences
  <1>1. CASE /\ Others(r)
             /\ proc'[r].pc \notin AtClaim \/ (SameClaim(r) /\ proc[r].pc \in AtClaim)
             /\ \/ issue' = issue
                \/ issue'.fence = issue.fence /\ issue'.state \notin Held
                \/ issue'.fence = issue.fence /\ issue'.attempt = issue.attempt /\ issue.state \in Held
    BY <1>0, <1>1 DEF FencesPast, Current, Others, SameClaim
  <1>2. CASE Looks(r)
    BY <1>0, <1>2 DEF FencesPast, Current, Looks, Untouched, Took1, Others
  <1>3. CASE Claims(r)
    <2>1. issue'.fence # 0
      BY <1>0, <1>3 DEF Claims
    <2>2. ASSUME NEW q \in Runners, proc'[q].pc \in AtClaim
          PROVE  /\ proc'[q].fence # 0 /\ proc'[q].fence <= issue'.fence
                 /\ proc'[q].fence = issue'.fence => proc'[q].attempt = issue'.attempt
      <3>1. CASE q = r
        BY <1>0, <1>3, <3>1 DEF Claims
      <3>2. CASE q # r
        BY <1>0, <1>3, <2>2, <3>2 DEF Claims, Others, FencesPast
      <3> QED BY <3>1, <3>2
    <2> QED BY <2>1, <2>2 DEF FencesPast, Current
  <1>4. CASE Walks(r)
    <2>1. Others(r) /\ SameClaim(r) /\ issue' = issue /\ proc[r].pc \in AtClaim
      BY <1>4 DEF Walks, Took, Untouched, Proceeds, Refused, At, AtClaim, PCs
    <2> QED BY <2>1, <1>1
  <1>5. CASE Plants(r) \/ Binds(r) \/ Builds(r) \/ Finds(r) \/ Prompts(r)
    <2>1. Others(r) /\ SameClaim(r) /\ issue' = issue /\ proc[r].pc \in AtClaim
      BY <1>5 DEF Plants, Binds, Builds, Finds, Prompts, Took, Untouched, At, AtClaim, PCs
    <2> QED BY <2>1, <1>1
  <1>6. CASE Leaves(r)
    BY <1>1, <1>6 DEF Leaves
  <1>7. CASE Runs(r)
    BY <1>1, <1>7 DEF Runs, Held
  <1>8. CASE Falters(r)
    BY <1>1, <1>8 DEF Falters, Took
  <1> QED BY <1>2, <1>3, <1>4, <1>5, <1>6, <1>7, <1>8 DEF Path

\* Every step keeps to the one worktree.
LEMMA TreeStep ==
    ASSUME TypeOK, TypeOK', OneTree, FencesPast, NEW r \in Runners, Path(r)
    PROVE  OneTree'
  <1>0. \A q \in Runners : proc[q].attempt \in Attempts /\ proc'[q].attempt \in Attempts
    BY DEF TypeOK, Procs
  <1>1. CASE /\ Others(r) /\ tree' = tree /\ (branch => branch') /\ proc'[r].pc # "bind"
             /\ proc'[r].pc \in Prepared =>
                   \/ SameClaim(r) /\ proc[r].pc \in Prepared
                   \/ SameClaim(r) /\ tree[proc[r].attempt].there /\ tree[proc[r].attempt].bound = proc[r].fence
    <2>1. \A n \in Attempts :
             /\ tree'[n].bound # 0 => tree'[n].there
             /\ tree'[n].there => branch'
             /\ \A m \in Attempts : tree'[n].there /\ tree'[m].there => m = n
      BY <1>1 DEF OneTree
    <2>2. \A p \in Runners : proc'[p].pc = "bind" =>
             /\ tree'[proc'[p].attempt].there /\ tree'[proc'[p].attempt].bound = 0
             /\ \A q \in Runners : proc'[q].pc = "bind" => q = p
      BY <1>1 DEF OneTree, Others, At
    <2>3. \A p \in Runners : proc'[p].pc \in Prepared =>
             tree'[proc'[p].attempt].there /\ tree'[proc'[p].attempt].bound = proc'[p].fence
      BY <1>1 DEF OneTree, Others, SameClaim
    <2> QED BY <2>1, <2>2, <2>3 DEF OneTree, At
  <1>2. CASE Plants(r)
    <2>1. \A n \in Attempts : ~tree[n].there /\ tree[n].bound = 0
      BY <1>2 DEF Plants, OneTree
    <2>2. \A q \in Runners : ~At(q, "bind") /\ proc[q].pc \notin Prepared
      BY <1>0, <2>1 DEF OneTree
    <2>3. /\ proc'[r].pc = "bind" /\ proc'[r].attempt = proc[r].attempt
          /\ \A q \in Runners : q # r => proc'[q] = proc[q]
          /\ proc'[r].pc \notin Prepared
      BY <1>2 DEF Plants, Took, SameClaim, Others, Prepared
    <2>4. \A n \in Attempts : tree'[n].bound = 0 /\ (tree'[n].there <=> n = proc[r].attempt)
      BY <1>2, <2>1 DEF Plants
    <2>5. branch'
      BY <1>2 DEF Plants
    <2> QED BY <1>0, <2>2, <2>3, <2>4, <2>5 DEF OneTree, At
  <1>3. CASE Binds(r)
    <2> DEFINE a == proc[r].attempt
    <2>1. /\ tree[a].there /\ tree[a].bound = 0 /\ \A q \in Runners : proc[q].pc = "bind" => q = r
      BY <1>3 DEF Binds, OneTree, At
    <2>2. /\ proc'[r].pc = "desk" /\ proc'[r].attempt = a /\ proc'[r].fence = proc[r].fence
          /\ \A q \in Runners : q # r => proc'[q] = proc[q]
      BY <1>3 DEF Binds, Took, SameClaim, Others
    <2>3. \A n \in Attempts : /\ tree'[n].there = tree[n].there
                              /\ tree'[n].bound = IF n = a THEN proc[r].fence ELSE tree[n].bound
      BY <1>3 DEF Binds
    <2>4. branch' = branch
      BY <1>3 DEF Binds
    <2>5. \A n \in Attempts :
             /\ tree'[n].bound # 0 => tree'[n].there
             /\ tree'[n].there => branch'
             /\ \A m \in Attempts : tree'[n].there /\ tree'[m].there => m = n
      BY <1>0, <2>1, <2>3, <2>4 DEF OneTree
    <2>6. \A p \in Runners : proc'[p].pc # "bind"
      BY <2>1, <2>2
    <2>7. ASSUME NEW p \in Runners, proc'[p].pc \in Prepared
          PROVE  tree'[proc'[p].attempt].there /\ tree'[proc'[p].attempt].bound = proc'[p].fence
      <3>1. CASE p = r
        BY <1>0, <2>1, <2>2, <2>3, <3>1
      <3>2. CASE p # r
        <4>1. proc'[p] = proc[p] /\ tree[proc[p].attempt].there /\ tree[proc[p].attempt].bound = proc[p].fence
          BY <2>2, <2>7, <3>2 DEF OneTree
        <4>2. proc[p].fence # 0
          BY <2>7, <4>1 DEF FencesPast, Prepared, AtClaim, PCs
        <4>3. proc[p].attempt # a
          BY <2>1, <4>1, <4>2
        <4> QED BY <1>0, <2>3, <4>1, <4>3
      <3> QED BY <3>1, <3>2
    <2> QED BY <2>5, <2>6, <2>7 DEF OneTree, At
  <1>4. CASE Walks(r)
    <2>1. Others(r) /\ tree' = tree /\ branch' = branch /\ SameClaim(r)
      BY <1>4 DEF Walks, Untouched, Took
    <2>2. /\ proc'[r].pc # "bind"
          /\ proc'[r].pc \in Prepared => \/ proc[r].pc \in Prepared
                                         \/ tree[proc[r].attempt].there /\ tree[proc[r].attempt].bound = proc[r].fence
      BY <1>4 DEF Walks, Took, Proceeds, Prepared, At
    <2> QED BY <1>1, <2>1, <2>2
  <1>5. CASE Leaves(r) \/ Runs(r) \/ Looks(r) \/ Claims(r)
    <2>1. Others(r) /\ tree' = tree /\ branch' = branch /\ proc'[r].pc \notin Prepared /\ proc'[r].pc # "bind"
      BY <1>5 DEF Leaves, Runs, Looks, Claims, Untouched, Took1, Prepared, AtClaim, PCs
    <2> QED BY <1>1, <2>1
  <1>6. CASE Builds(r) \/ Finds(r) \/ Prompts(r)
    <2>1. /\ Others(r) /\ tree' = tree /\ branch' = branch /\ SameClaim(r)
          /\ proc[r].pc \in Prepared /\ proc'[r].pc # "bind"
      BY <1>6 DEF Builds, Finds, Prompts, Untouched, Took, Prepared, At
    <2> QED BY <1>1, <2>1
  <1>7. CASE Falters(r)
    <2>1. Others(r) /\ tree' = tree /\ (branch => branch') /\ proc'[r].pc \notin Prepared /\ proc'[r].pc # "bind"
      BY <1>7 DEF Falters, Took, Prepared, AtClaim, PCs
    <2> QED BY <1>1, <2>1
  <1> QED BY <1>2, <1>3, <1>4, <1>5, <1>6, <1>7 DEF Path

\* Every step leaves what runs in its worktree.
LEMMA RunsStep ==
    ASSUME TypeOK, TypeOK', RunsInTree, OneTree, FencesPast, NEW r \in Runners, Path(r)
    PROVE  RunsInTree'
  <1>0. /\ issue.attempt \in Attempts /\ \A q \in Runners : proc[q].attempt \in Attempts
    BY DEF TypeOK, Procs
  <1>1. \A n \in Attempts : tree[n].there => tree'[n].there
    BY DEF Path, Leaves, Runs, Looks, Claims, Walks, Plants, Binds, Builds, Finds, Prompts, Falters, Untouched
  <1>2. issue'.state = "running" => tree'[issue'.attempt].there
    <2>1. CASE Runs(r)
      <3>1. proc[r].pc \in AtClaim /\ Current(r) /\ proc[r].pc \in Prepared
        BY <2>1 DEF Runs, At, AtClaim, PCs, Current, Held, Prepared
      <3>2. tree[issue.attempt].there
        BY <3>1 DEF FencesPast, OneTree
      <3> QED BY <1>0, <1>1, <2>1, <3>2 DEF Runs
    <2>2. CASE ~Runs(r)
      <3>1. issue' = issue \/ issue'.state # "running"
        BY <2>2 DEF Path, Leaves, Looks, Claims, Walks, Plants, Binds, Builds, Finds, Prompts, Falters,
                    Untouched, Held
      <3> QED BY <1>0, <1>1, <3>1 DEF RunsInTree
    <2> QED BY <2>1, <2>2
  <1>3. \A q \in Runners : q # r => proc'[q] = proc[q]
    BY DEF Path, Leaves, Runs, Looks, Claims, Walks, Plants, Binds, Builds, Finds, Prompts, Falters, Took,
           Took1, Others
  <1>4. proc'[r].pc = "truth" => /\ proc'[r].state \in Held
                                 /\ proc'[r].state = "running" => tree'[proc'[r].attempt].there
    <2>1. proc'[r].pc = "truth" => Looks(r)
      BY DEF Path, Leaves, Runs, Looks, Claims, Walks, Plants, Binds, Builds, Finds, Prompts, Falters, Took,
             Proceeds, AtClaim, PCs
    <2>2. Looks(r) /\ proc'[r].pc = "truth" =>
             proc'[r].state = issue.state /\ issue.state \in Held /\ proc'[r].attempt = issue.attempt
      BY DEF Looks, Took1
    <2> QED BY <1>0, <1>1, <2>1, <2>2 DEF RunsInTree
  <1> QED BY <1>0, <1>1, <1>2, <1>3, <1>4 DEF RunsInTree, At

-----------------------------------------------------------------------------
(* While no two runners have met and no call has failed *)

\* What a step of runner r may assume and what it may not do.
Meeting(r) ==
    /\ PInv /\ FencesPast /\ OneTree /\ Apart
    /\ TypeOK' /\ ~Overlap' /\ Path(r) /\ ~Falters(r)

\* Two runners that hold a claim hold different ones.
LEMMA Distinct ==
    ASSUME FencesPast, Apart, NEW p \in Runners, NEW q \in Runners, p # q, proc[p].pc \in AtClaim
    PROVE  proc[p].fence # proc[q].fence
  BY DEF FencesPast, Apart, Overlap

\* So only one of them has come to a worktree of its attempt.
LEMMA OneAtWork ==
    ASSUME FencesPast, OneTree, Apart, NEW p \in Runners, NEW q \in Runners,
           proc[p].pc \in Prepared, proc[q].pc \in Prepared, proc[p].attempt = proc[q].attempt
    PROVE  p = q
  <1>1. proc[p].fence = proc[q].fence
    BY DEF OneTree
  <1>2. proc[p].pc \in AtClaim
    BY DEF Prepared, AtClaim, PCs
  <1> QED BY <1>1, <1>2, Distinct

\* No other runner is touched by a step.
LEMMA Apartness ==
    ASSUME NEW r \in Runners, Path(r)
    PROVE  \A q \in Runners : q # r => proc'[q] = proc[q]
  BY DEF Path, Leaves, Runs, Looks, Claims, Walks, Plants, Binds, Builds, Finds, Prompts, Falters, Took,
         Took1, Others

\* A claim that is in force after a step, of a runner the step is not of, was in force.
LEMMA WasCurrent ==
    ASSUME TypeOK, FencesPast, NEW r \in Runners, Path(r), NEW q \in Runners, q # r, proc[q].pc \in AtClaim,
           issue'.fence = proc[q].fence, issue'.state \in Held
    PROVE  /\ Current(q)
           /\ issue'.state = issue.state \/ Runs(r)
  <1>1. CASE Claims(r)
    <2>1. proc[q].fence <= issue.fence /\ issue'.fence = issue.fence + 1
      BY <1>1 DEF FencesPast, Claims
    <2>2. issue.fence \in Nat /\ proc[q].fence \in Nat
      BY DEF TypeOK, Procs, Fences
    <2> QED BY <2>1, <2>2
  <1>2. CASE Runs(r)
    BY <1>2 DEF Runs, Current, Held
  <1>3. CASE ~Claims(r) /\ ~Runs(r)
    <2>1. issue' = issue
      BY <1>3 DEF Path, Leaves, Looks, Walks, Plants, Binds, Builds, Finds, Prompts, Falters, Untouched
    <2> QED BY <2>1 DEF Current
  <1> QED BY <1>1, <1>2, <1>3

\* A claim that is being started is claimed.
LEMMA StillClaimedStep ==
    ASSUME NEW r \in Runners, Meeting(r)
    PROVE  StillClaimed'
  <1>0. TypeOK /\ FencesPast /\ Path(r) /\ Apart /\ StillClaimed /\ ~Falters(r)
    BY DEF Meeting, Apart, PInv
  <1>1. ASSUME NEW q \in Runners, q # r, proc[q].pc \in AtClaim \ {"truth", "failing"},
               issue'.fence = proc[q].fence, issue'.state \in Held
        PROVE  issue'.state = "claimed"
    <2>1. Current(q) /\ (issue'.state = issue.state \/ Runs(r))
      BY <1>0, <1>1, WasCurrent
    <2>2. ~Runs(r)
      <3>1. Runs(r) => proc[r].fence = issue.fence
        BY DEF Runs
      <3>2. proc[q].fence = issue.fence
        BY <2>1 DEF Current
      <3> QED BY <1>0, <1>1, <3>1, <3>2, Distinct
    <2> QED BY <1>0, <1>1, <2>1, <2>2 DEF StillClaimed
  <1>2. ASSUME proc'[r].pc \in AtClaim \ {"truth", "failing"}, issue'.fence = proc'[r].fence, issue'.state \in Held
        PROVE  issue'.state = "claimed"
    <2>1. CASE Looks(r)
      BY <1>2, <2>1 DEF Looks, Took1, Untouched
    <2>2. CASE Claims(r)
      BY <2>2 DEF Claims
    <2>3. CASE Leaves(r) \/ Runs(r)
      BY <1>2, <2>3 DEF Leaves, Runs
    <2>4. CASE Walks(r) \/ Plants(r) \/ Binds(r) \/ Builds(r) \/ Finds(r) \/ Prompts(r)
      <3>1. /\ proc[r].pc \in AtClaim \ {"truth", "failing"} /\ issue' = issue /\ SameClaim(r)
        BY <1>2, <2>4 DEF Walks, Plants, Binds, Builds, Finds, Prompts, Took, Untouched, Proceeds, At, AtClaim, PCs
      <3> QED BY <1>0, <1>2, <3>1 DEF StillClaimed, Current, SameClaim
    <2> QED BY <1>0, <2>1, <2>2, <2>3, <2>4 DEF Path
  <1> QED BY <1>0, <1>1, <1>2, Apartness DEF StillClaimed, Current

\* Where no worktree was found, none is bound to this claim.
LEMMA UnplantedStep ==
    ASSUME NEW r \in Runners, Meeting(r)
    PROVE  Unplanted'
  <1>0. /\ TypeOK /\ FencesPast /\ OneTree /\ Path(r) /\ Apart /\ Unplanted /\ ~Falters(r)
        /\ \A q \in Runners : proc[q].attempt \in Attempts
    BY DEF Meeting, Apart, PInv, TypeOK, Procs
  <1>1. ASSUME NEW q \in Runners, q # r, proc[q].pc \in {"branch", "add"}
        PROVE  tree'[proc[q].attempt].bound # proc[q].fence
    <2>1. tree[proc[q].attempt].bound # proc[q].fence
      BY <1>0, <1>1 DEF Unplanted, At
    <2>2. CASE Binds(r)
      <3>1. proc[q].pc \in AtClaim
        BY <1>1 DEF AtClaim, PCs
      <3>2. proc[r].fence # proc[q].fence
        BY <1>0, <1>1, <3>1, Distinct
      <3> QED BY <1>0, <2>1, <2>2, <3>2 DEF Binds
    <2>3. CASE ~Binds(r)
      <3>1. tree'[proc[q].attempt].bound = tree[proc[q].attempt].bound
        BY <1>0, <2>3 DEF Path, Leaves, Runs, Looks, Claims, Walks, Plants, Builds, Finds, Prompts, Untouched
      <3> QED BY <2>1, <3>1
    <2> QED BY <2>2, <2>3
  <1>2. ASSUME proc'[r].pc \in {"branch", "add"}
        PROVE  tree'[proc'[r].attempt].bound # proc'[r].fence
    <2>1. Walks(r)
      BY <1>0, <1>2 DEF Path, Leaves, Runs, Looks, Claims, Plants, Binds, Builds, Finds, Prompts, Took, Took1,
                        AtClaim, PCs
    <2>2. /\ tree' = tree /\ SameClaim(r)
          /\ (At(r, "tree") /\ ~tree[proc[r].attempt].there) \/ At(r, "branch")
      BY <1>2, <2>1 DEF Walks, Untouched, Took, Proceeds
    <2>3. CASE At(r, "tree") /\ ~tree[proc[r].attempt].there
      <3>1. tree[proc[r].attempt].bound = 0
        BY <1>0, <2>3 DEF OneTree
      <3>2. proc[r].fence # 0
        BY <1>0, <2>3 DEF FencesPast, At, AtClaim, PCs
      <3> QED BY <2>2, <3>1, <3>2 DEF SameClaim
    <2>4. CASE At(r, "branch")
      BY <1>0, <2>2, <2>4 DEF Unplanted, SameClaim
    <2> QED BY <2>2, <2>3, <2>4
  <1> QED BY <1>0, <1>1, <1>2, Apartness DEF Unplanted, At

\* An attempt keeps to one session.
LEMMA OneSessionStep ==
    ASSUME NEW r \in Runners, Meeting(r)
    PROVE  OneSession'
  <1>0. /\ TypeOK /\ Bound /\ FencesPast /\ OneTree /\ Path(r) /\ Apart /\ OneSession /\ ~Falters(r)
        /\ \A q \in Runners : q # r => proc'[q] = proc[q]
    BY Apartness DEF Meeting, Apart, PInv
  <1>1. CASE Still /\ (proc'[r].pc = "create" => SameClaim(r) /\ Matches(proc[r].attempt) = {})
    BY <1>0, <1>1 DEF OneSession, Still, At, Matches, SameClaim
  <1>2. CASE Finds(r) /\ Adds(r) /\ At(r, "create")
    <2> DEFINE n == Len(sessions) + 1
    <2>1. /\ DOMAIN sessions' = DOMAIN sessions \cup {n} /\ n \notin DOMAIN sessions
          /\ \A s \in DOMAIN sessions : sessions'[s] = sessions[s]
          /\ sessions'[n].attempt = proc[r].attempt /\ raced' = raced
      BY <1>2 DEF Adds
    <2> HIDE DEF n
    <2>2. \A s \in DOMAIN sessions : sessions[s].attempt # proc[r].attempt
      BY <1>0, <1>2 DEF OneSession, Matches
    <2>3. \A s, t \in DOMAIN sessions' : sessions'[s].attempt = sessions'[t].attempt => s = t
      BY <1>0, <2>1, <2>2 DEF OneSession
    <2>4. ASSUME NEW q \in Runners, proc'[q].pc = "create"
          PROVE  \A s \in DOMAIN sessions' : sessions'[s].attempt # proc'[q].attempt
      <3>1. q # r
        BY <1>2, <2>4 DEF Finds, At
      <3>2. proc'[q] = proc[q] /\ At(q, "create")
        BY <1>0, <2>4, <3>1 DEF At
      <3>3. proc[q].attempt # proc[r].attempt
        BY <1>0, <1>2, <3>1, <3>2, OneAtWork DEF At, Prepared
      <3>4. \A s \in DOMAIN sessions : sessions[s].attempt # proc[q].attempt
        BY <1>0, <3>2 DEF OneSession, Matches
      <3> QED BY <2>1, <3>2, <3>3, <3>4
    <2>5. raced' = {}
      BY <1>0, <2>1 DEF OneSession
    <2> QED BY <2>3, <2>4, <2>5 DEF OneSession, At, Matches
  <1>3. CASE Prompts(r)
    <2>1. /\ DOMAIN sessions' = DOMAIN sessions
          /\ \A t \in DOMAIN sessions : sessions'[t].attempt = sessions[t].attempt
          /\ proc'[r].pc = "confirm"
      BY <1>3 DEF Prompts, Sends, Took
    <2>2. raced' = raced
      <3>1. ASSUME NEW q \in Runners \ {r}, At(q, "send"), proc[q].at = proc[r].at PROVE FALSE
        <4>1. At(r, "send")
          BY <1>3 DEF Prompts
        <4>2. proc[q].attempt = proc[r].attempt
          BY <1>0, <3>1, <4>1 DEF Bound, AtASession, At
        <4> QED BY <1>0, <3>1, <4>1, <4>2, OneAtWork DEF At, Prepared
      <3> QED BY <1>3, <3>1 DEF Prompts
    <2> QED BY <1>0, <2>1, <2>2 DEF OneSession, At, Matches
  <1>4. CASE Leaves(r) \/ Runs(r) \/ Looks(r) \/ Claims(r)
    <2>1. Still /\ proc'[r].pc # "create"
      BY <1>4 DEF Leaves, Runs, Looks, Claims, Untouched, Took1, AtClaim, PCs
    <2> QED BY <1>1, <2>1
  <1>5. CASE Walks(r)
    <2>1. Still /\ (proc'[r].pc = "create" => SameClaim(r) /\ Matches(proc[r].attempt) = {})
      BY <1>5 DEF Walks, Untouched, Took, Proceeds
    <2> QED BY <1>1, <2>1
  <1>6. CASE Plants(r) \/ Binds(r) \/ Builds(r)
    <2>1. Still /\ proc'[r].pc # "create"
      BY <1>6 DEF Plants, Binds, Builds, Untouched, Took
    <2> QED BY <1>1, <2>1
  <1>7. CASE Finds(r) /\ ~(Adds(r) /\ At(r, "create"))
    <2>1. Still /\ proc'[r].pc # "create"
      BY <1>7 DEF Finds
    <2> QED BY <1>1, <2>1
  <1> QED BY <1>0, <1>2, <1>3, <1>4, <1>5, <1>6, <1>7 DEF Path, Finds

\* A prompt stays what its runner knows.
LEMMA PromptsKnownStep ==
    ASSUME NEW r \in Runners, Meeting(r)
    PROVE  PromptsKnown'
  <1>0. /\ Path(r) /\ PromptsKnown /\ ~Falters(r) /\ \A q \in Runners : q # r => proc'[q] = proc[q]
    BY Apartness DEF Meeting, Apart
  <1>1. ASSUME proc'[r].pc \in Prepared \ {"desk"} PROVE proc'[r].body = proc'[r].mem
    <2>1. Walks(r) \/ Builds(r) \/ Finds(r) \/ Prompts(r)
      BY <1>0, <1>1 DEF Path, Leaves, Runs, Looks, Claims, Plants, Binds, Took, Took1, Prepared, AtClaim, PCs
    <2>2. CASE Builds(r)
      BY <2>2 DEF Builds
    <2>3. CASE Walks(r) \/ Finds(r) \/ Prompts(r)
      <3>1. /\ proc[r].pc \in Prepared \ {"desk"}
            /\ proc'[r].body = proc[r].body /\ proc'[r].mem = proc[r].mem
        BY <1>1, <2>3 DEF Walks, Finds, Prompts, Took, Proceeds, At, Prepared
      <3> QED BY <1>0, <3>1 DEF PromptsKnown
    <2> QED BY <2>1, <2>2, <2>3
  <1> QED BY <1>0, <1>1 DEF PromptsKnown

\* A reason remains one.
LEMMA ReasonStays ==
    ASSUME NEW r \in Runners, Meeting(r), NEW q \in Runners, q # r, At(q, "failing"), Reason(q)
    PROVE  Reason(q)'
  <1>0. /\ TypeOK /\ FencesPast /\ OneTree /\ Path(r) /\ Apart /\ ~Falters(r)
        /\ proc'[q] = proc[q] /\ proc[q].attempt \in Attempts /\ proc[q].pc \in AtClaim
    BY Apartness DEF Meeting, Apart, PInv, TypeOK, Procs, At, AtClaim, PCs
  <1> DEFINE a == proc[q].attempt
  <1>1. CASE \E s \in Matches(a) : sessions[s].label # proc[q].mem
    <2>1. PICK s \in Matches(a) : sessions[s].label # proc[q].mem
      BY <1>1
    <2>2. s \in DOMAIN sessions /\ sessions[s].attempt = a
      BY <2>1 DEF Matches
    <2>3. s \in DOMAIN sessions' /\ sessions'[s].attempt = a /\ sessions'[s].label = sessions[s].label
      <3>1. Still \/ Adds(r) \/ Sends(r)
        BY <1>0 DEF Path, Leaves, Runs, Looks, Claims, Walks, Plants, Binds, Builds, Finds, Prompts, Untouched
      <3> QED BY <2>2, <3>1 DEF Still, Adds, Sends
    <2> QED BY <1>0, <2>1, <2>3 DEF Reason, Matches
  <1>2. CASE Strange(a, proc[q].fence)
    <2>1. IF tree'[a].there THEN tree'[a].bound # proc[q].fence ELSE branch'
      <3>1. CASE Plants(r)
        <4>1. ~branch
          BY <3>1 DEF Plants
        <4>2. ~tree[a].there
          BY <1>0, <4>1 DEF OneTree
        <4> QED BY <1>2, <4>1, <4>2 DEF Strange
      <3>2. CASE Binds(r)
        <4>1. proc[r].fence # proc[q].fence
          BY <1>0, Distinct
        <4> QED BY <1>0, <1>2, <3>2, <4>1 DEF Binds, Strange
      <3>3. CASE ~Plants(r) /\ ~Binds(r)
        <4>1. tree' = tree /\ branch' = branch
          BY <1>0, <3>3 DEF Path, Leaves, Runs, Looks, Claims, Walks, Builds, Finds, Prompts, Untouched
        <4> QED BY <1>2, <4>1 DEF Strange
      <3> QED BY <3>1, <3>2, <3>3
    <2> QED BY <1>0, <2>1 DEF Reason, Strange
  <1> QED BY <1>1, <1>2 DEF Reason

\* An attempt with one session does not have several.
LEMMA NotSeveral ==
    ASSUME OneSession, NEW n
    PROVE  ~(Cardinality(Matches(n)) > 1)
  <1>1. CASE Matches(n) = {}
    BY <1>1, FS_EmptySet
  <1>2. CASE Matches(n) # {}
    <2>1. PICK s : s \in Matches(n)
      BY <1>2
    <2>2. Matches(n) = {s}
      BY <2>1 DEF OneSession, Matches
    <2> QED BY <2>2, FS_Singleton
  <1> QED BY <1>1, <1>2

\* What sends a runner to the catch block is a reason.
LEMMA RefusedForCause ==
    ASSUME NEW r \in Runners, Meeting(r), Refused(r), Current(r)
    PROVE  Reason(r)
  <1>0. /\ PInv /\ TypeOK /\ Bound /\ FencesPast /\ OneTree /\ Apart /\ Unplanted /\ OneSession /\ PromptsKnown
        /\ StillClaimed /\ proc[r].attempt \in Attempts
    BY DEF Meeting, Apart, PInv, TypeOK, Procs
  <1>1. CASE At(r, "tree") /\ tree[proc[r].attempt].there /\ tree[proc[r].attempt].bound # proc[r].fence
    BY <1>1 DEF Reason, Strange
  <1>2. CASE (At(r, "branch") \/ At(r, "add")) /\ branch
    BY <1>0, <1>2 DEF Reason, Strange, Unplanted
  <1>3. CASE At(r, "list") /\ Cardinality(Matches(proc[r].attempt)) > 1
    BY <1>0, <1>3, NotSeveral
  <1>4. CASE At(r, "readback") /\ ~Alone(r)
    <2>1. proc[r].at \in Matches(proc[r].attempt)
      BY <1>0, <1>4 DEF Bound, AtASession, At, Matches
    <2>2. Matches(proc[r].attempt) = {proc[r].at}
      BY <1>0, <2>1 DEF OneSession, Matches
    <2> QED BY <1>4, <2>2 DEF Alone
  <1>5. CASE (At(r, "read") \/ At(r, "confirm")) /\ ~Verified(r)
    <2> DEFINE s == proc[r].at
    <2>1. s \in DOMAIN sessions /\ s \in Matches(proc[r].attempt) /\ proc[r].body = proc[r].mem
      BY <1>0, <1>5 DEF Bound, AtASession, At, Matches, PromptsKnown, Prepared
    <2>2. CASE sessions[s].label # proc[r].body
      BY <2>1, <2>2 DEF Reason
    <2>3. CASE sessions[s].label = proc[r].body
      <3>1. /\ \A i \in DOMAIN sessions[s].sent : sessions[s].sent[i] = proc[r].body
            /\ Len(sessions[s].sent) <= 1
        BY <1>0, <2>1, <2>3 DEF PInv, Given, OneSession
      <3>2. sessions[s].sent \in Seq(SUBSET Directives)
        <4>1. sessions[s] \in Sessions
          BY <1>0, <2>1 DEF TypeOK
        <4> QED BY <4>1 DEF Sessions
      <3>3. \A i \in DOMAIN sessions[s].sent : i = 1
        BY <3>1, <3>2
      <3> QED BY <1>5, <2>3, <3>1, <3>3 DEF Verified
    <2> QED BY <2>2, <2>3
  <1>6. CASE At(r, "mark") /\ ~(issue.fence = proc[r].fence /\ issue.state = "claimed")
    BY <1>0, <1>6 DEF StillClaimed, Current, At, AtClaim, PCs
  <1> QED BY <1>1, <1>2, <1>3, <1>4, <1>5, <1>6 DEF Refused

\* The catch block is reached for a reason.
LEMMA FailsForCauseStep ==
    ASSUME NEW r \in Runners, Meeting(r)
    PROVE  FailsForCause'
  <1>0. /\ TypeOK /\ FencesPast /\ Path(r) /\ FailsForCause /\ ~Falters(r)
        /\ \A q \in Runners : q # r => proc'[q] = proc[q]
    BY Apartness DEF Meeting, Apart, PInv
  <1>1. ASSUME NEW q \in Runners, q # r, proc[q].pc = "failing", issue'.fence = proc[q].fence, issue'.state \in Held
        PROVE  Reason(q)'
    <2>1. proc[q].pc \in AtClaim
      BY <1>1 DEF AtClaim, PCs
    <2>2. Current(q)
      BY <1>0, <1>1, <2>1, WasCurrent
    <2>3. Reason(q)
      BY <1>0, <1>1, <2>2 DEF FailsForCause, At
    <2> QED BY <1>1, <2>3, ReasonStays DEF At
  <1>2. ASSUME proc'[r].pc = "failing", issue'.fence = proc'[r].fence, issue'.state \in Held
        PROVE  Reason(r)'
    <2>1. Walks(r)
      BY <1>0, <1>2 DEF Path, Leaves, Runs, Looks, Claims, Plants, Binds, Builds, Finds, Prompts, Took, Took1,
                        AtClaim, PCs
    <2>2. Untouched /\ Took(r, "failing") /\ Refused(r)
      BY <1>2, <2>1 DEF Walks, Took, Proceeds
    <2>3. Current(r)
      BY <1>2, <2>2 DEF Untouched, Took, SameClaim, Current
    <2>4. Reason(r)
      BY <2>2, <2>3, RefusedForCause
    <2> QED BY <2>2, <2>4 DEF Reason, Strange, Matches, Untouched, Still, Took, SameClaim
  <1> QED BY <1>0, <1>1, <1>2 DEF FailsForCause, At, Current

\* What the issue alone does costs a runner nothing but its claim.
LEMMA ElsewhereKeeps ==
    ASSUME TypeOK, Elsewhere
    PROVE  /\ proc' = proc /\ tree' = tree /\ branch' = branch /\ Still
           /\ issue' = issue \/ (issue'.fence = issue.fence /\ issue'.state \notin Held)
  <1>1. issue \in [state : IssueStates, attempt : Attempts, fence : Fences]
    BY DEF TypeOK
  <1>2. proc' = proc /\ tree' = tree /\ branch' = branch /\ Still
    BY DEF Elsewhere, RunFails, Reopen, vars, git, craft, Still
  <1>3. issue' = issue \/ issue' = Lost(issue) \/ issue' = [issue EXCEPT !.state = "ready"]
    BY DEF Elsewhere, RunFails, Reopen, vars
  <1>4. Lost(issue).fence = issue.fence /\ Lost(issue).state \notin Held
    BY <1>1 DEF Lost, Held
  <1> QED BY <1>1, <1>2, <1>3, <1>4 DEF Held

\* And it keeps CInv.
LEMMA ElsewhereKeepsClaims ==
    ASSUME TypeOK, FencesPast, OneTree, RunsInTree, Elsewhere
    PROVE  /\ FencesPast' /\ OneTree' /\ RunsInTree'
           /\ Apart => Apart'
  <1>1. /\ proc' = proc /\ tree' = tree /\ branch' = branch /\ sessions' = sessions /\ raced' = raced
        /\ issue' = issue \/ (issue'.fence = issue.fence /\ issue'.state \notin Held)
    BY ElsewhereKeeps DEF Still
  <1>2. FencesPast'
    BY <1>1 DEF FencesPast, Current
  <1>3. OneTree'
    BY <1>1 DEF OneTree, At
  <1>4. RunsInTree'
    BY <1>1 DEF RunsInTree, At, Held
  <1>5. ASSUME Apart PROVE Apart'
    <2>1. ~Overlap' /\ OneSession' /\ PromptsKnown' /\ Unplanted'
      BY <1>1, <1>5 DEF Apart, Overlap, OneSession, PromptsKnown, Unplanted, At, Matches
    <2>2. StillClaimed'
      BY <1>1, <1>5 DEF Apart, StillClaimed, Current
    <2>3. FailsForCause'
      BY <1>1, <1>5 DEF Apart, FailsForCause, Reason, Strange, Matches, Current, At
    <2> QED BY <2>1, <2>2, <2>3 DEF Apart
  <1> QED BY <1>2, <1>3, <1>4, <1>5

\* Calls that have failed and runners that have met are not forgotten.
LEMMA TroubleStays ==
    ASSUME TypeOK, [Next]_vars
    PROVE  /\ faults > 0 => faults' > 0
           /\ met => met'
           /\ Next => (Overlap' => met')
  <1>1. CASE Next
    <2>1. faults' = faults \/ faults' = faults + 1
      BY <1>1 DEF Next, Step, Startup, Truth, Resume, Get, TryClaim, FailClaim, MarkRunning, LookForTree,
                  BranchExists, AddWorktree, WriteBinding, BuildPrompt, ListSessions, CreateSession, Readback,
                  ReadSession, SendPrompt, Confirm, Load, WriteNotes, VerifyNotes, Desk, CallFails, Crash,
                  Fault, RunFails, Reopen, bounds
    <2>2. met' = (met \/ Overlap')
      BY <1>1 DEF Next
    <2>3. faults > 0 => faults' > 0
      BY <2>1 DEF TypeOK
    <2>4. (met => met') /\ (Next => (Overlap' => met'))
      BY <2>2, Zenon
    <2> QED BY <2>3, <2>4
  <1>2. CASE UNCHANGED vars
    <2>1. faults' = faults /\ met' = met /\ proc' = proc
      BY <1>2 DEF vars, bounds
    <2>2. Next => met' = (met \/ Overlap')
      BY DEF Next
    <2> QED BY <2>1, <2>2
  <1> QED BY <1>1, <1>2

\* Every step keeps CInv.
LEMMA CInvStep ==
    ASSUME AttemptAssumption, CInv, [Next]_vars
    PROVE  CInv'
  <1>0. PInv /\ TypeOK /\ Bound /\ FencesPast /\ OneTree /\ RunsInTree
    BY DEF CInv, PInv
  <1>1. PInv' /\ TypeOK'
    BY <1>0, PInvStep DEF PInv
  <1>2. ASSUME NEW r \in Runners, Step(r), Next PROVE CInv'
    <2>1. Path(r)
      BY <1>0, <1>2, Paths
    <2>2. FencesPast' /\ OneTree' /\ RunsInTree'
      BY <1>0, <1>1, <2>1, FencesStep, TreeStep, RunsStep
    <2>3. faults' > 0 \/ met' \/ Apart'
      <3>1. CASE faults > 0 \/ met \/ Overlap'
        BY <1>0, <1>2, <3>1, TroubleStays
      <3>2. CASE ~(faults > 0) /\ ~met /\ ~Overlap' /\ Falters(r)
        BY <3>2 DEF Falters
      <3>3. CASE ~(faults > 0) /\ ~met /\ ~Overlap' /\ ~Falters(r)
        <4>1. Meeting(r)
          BY <1>0, <1>1, <2>1, <3>3 DEF Meeting, CInv
        <4>2. StillClaimed' /\ Unplanted' /\ OneSession' /\ PromptsKnown' /\ FailsForCause'
          BY <4>1, StillClaimedStep, UnplantedStep, OneSessionStep, PromptsKnownStep, FailsForCauseStep
        <4> QED BY <3>3, <4>2 DEF Apart
      <3> QED BY <3>1, <3>2, <3>3
    <2> QED BY <1>1, <2>2, <2>3 DEF CInv
  <1>3. ASSUME Elsewhere PROVE CInv'
    <2>1. FencesPast' /\ OneTree' /\ RunsInTree' /\ (Apart => Apart')
      BY <1>0, <1>3, ElsewhereKeepsClaims
    <2>2. (faults > 0 => faults' > 0) /\ (met => met')
      BY <1>0, TroubleStays
    <2> QED BY <1>1, <2>1, <2>2 DEF CInv
  <1>4. (\E r \in Runners : Step(r) /\ Next) \/ Elsewhere
    BY DEF Next, Elsewhere
  <1> QED BY <1>2, <1>3, <1>4

\* What becomes of a claim that is lost to a runner.
Taken == {"retry-wait", "failed", "preservation-unknown"}

\* Startup and the catch block alone take a claim away.
LEMMA Takers ==
    ASSUME TypeOK, NEW r \in Runners, Step(r), issue.state \in Held, issue'.state \in Taken
    PROVE  (Truth(r) /\ Ambiguous(proc[r]) /\ Current(r)) \/ (FailClaim(r) /\ Current(r))
  <1>0. issue \in [state : IssueStates, attempt : Attempts, fence : Fences] /\ issue' # issue
    BY DEF TypeOK, Held, Taken
  <1>1. CASE Truth(r)
    BY <1>0, <1>1 DEF Truth
  <1>2. CASE FailClaim(r)
    BY <1>0, <1>2 DEF FailClaim
  <1>3. CASE MarkRunning(r)
    BY <1>0, <1>3 DEF MarkRunning, Taken
  <1>4. CASE ~Truth(r) /\ ~FailClaim(r) /\ ~MarkRunning(r)
    <2>1. ~TryClaim(r)
      BY DEF TryClaim, Held
    <2> QED BY <1>0, <1>4, <2>1
            DEF Step, Startup, Resume, Get, LookForTree, BranchExists, AddWorktree, WriteBinding, BuildPrompt,
                ListSessions, CreateSession, Readback, ReadSession, SendPrompt, Confirm, Load, WriteNotes,
                VerifyNotes, Desk, CallFails, Crash
  <1> QED BY <1>1, <1>2, <1>3, <1>4

\* A claim that is taken away is lost for a reason.
LEMMA TakenForCause ==
    ASSUME CInv, Next, issue.state \in Held, issue'.state \in Taken
    PROVE  \/ issue.state = "running" /\ proc' = proc
           \/ faults > 0 \/ met
           \/ Strange(issue.attempt, issue.fence)
           \/ \E r \in Runners, s \in Matches(issue.attempt) :
                 At(r, "failing") /\ sessions[s].label # proc[r].mem
  <1>0. PInv /\ TypeOK /\ FencesPast /\ RunsInTree
    BY DEF CInv, PInv
  <1>1. ASSUME NEW r \in Runners, Step(r), Apart
        PROVE  \/ Strange(issue.attempt, issue.fence)
               \/ \E q \in Runners, s \in Matches(issue.attempt) :
                     At(q, "failing") /\ sessions[s].label # proc[q].mem
    <2>1. CASE Truth(r) /\ Ambiguous(proc[r]) /\ Current(r)
      <3>1. At(r, "truth")
        BY <2>1 DEF Truth
      <3>2. proc[r].attempt = issue.attempt /\ proc[r].fence = issue.fence
        BY <1>0, <2>1, <3>1 DEF FencesPast, Current, At, AtClaim, PCs
      <3>3. tree[proc[r].attempt].there
        BY <1>0, <2>1, <3>1 DEF RunsInTree, Ambiguous, Held
      <3> QED BY <2>1, <3>2, <3>3 DEF Ambiguous, Strange
    <2>2. CASE FailClaim(r) /\ Current(r)
      <3>1. At(r, "failing")
        BY <2>2 DEF FailClaim
      <3>2. proc[r].attempt = issue.attempt /\ proc[r].fence = issue.fence
        BY <1>0, <2>2, <3>1 DEF FencesPast, Current, At, AtClaim, PCs
      <3>3. Reason(r)
        BY <1>1, <2>2, <3>1 DEF Apart, FailsForCause
      <3> QED BY <3>1, <3>2, <3>3 DEF Reason
    <2> QED BY <1>0, <1>1, <2>1, <2>2, Takers
  <1>2. CASE RunFails
    BY <1>2 DEF RunFails
  <1>3. CASE Reopen
    <2>1. issue'.state = "ready"
      BY <1>0, <1>3 DEF Reopen, TypeOK
    <2> QED BY <2>1 DEF Taken
  <1>4. CASE (\E r \in Runners : Step(r)) /\ Apart
    BY <1>1, <1>4
  <1> QED BY <1>2, <1>3, <1>4 DEF Next, CInv

\* For any runners, directives and bounds: a claim is not lost to a runner that dies and
\* another that takes over, but to a failed call, a meeting, a worktree or a branch of
\* another claim, or an owner who has spoken meanwhile (the catch block of startClaim).
THEOREM AttemptClaimLostForCause == Spec => ClaimLostForCause
  <1>1. Init => CInv
    <2> SUFFICES ASSUME Init PROVE CInv
      OBVIOUS
    <2>1. TypeOK /\ Bound
      BY AttemptAssumption, Start
    <2>2. \A r \in Runners : proc[r].pc = "idle" /\ proc[r].fence = 0
      BY DEF Init, NewProc
    <2>3. DOMAIN sessions = {} /\ raced = {} /\ issue.state = "ready"
      BY <2>1 DEF Init, TypeOK
    <2>4. \A n \in Attempts : ~tree[n].there /\ tree[n].bound = 0
      BY DEF Init, NoTree
    <2>5. PInv
      BY <2>1, <2>2, <2>3 DEF PInv, OnOldest, AboutToSend, Given, At
    <2>6. FencesPast /\ RunsInTree
      BY <2>2, <2>3 DEF FencesPast, RunsInTree, AtClaim, Held, At
    <2>7. OneTree
      BY <2>2, <2>4 DEF OneTree, Prepared, At
    <2>8. Apart
      BY <2>2, <2>3 DEF Apart, Overlap, StillClaimed, Unplanted, OneSession, PromptsKnown, FailsForCause, At,
                        AtClaim, Prepared
    <2> QED BY <2>5, <2>6, <2>7, <2>8 DEF CInv
  <1>2. CInv /\ [Next]_vars => CInv'
    BY AttemptAssumption, CInvStep
  <1>3. CInv /\ [Next]_vars =>
          [issue.state \in Held /\ issue'.state \in {"retry-wait", "failed", "preservation-unknown"} =>
             \/ issue.state = "running" /\ proc' = proc
             \/ faults > 0 \/ met
             \/ Strange(issue.attempt, issue.fence)
             \/ \E r \in Runners, s \in Matches(issue.attempt) :
                   At(r, "failing") /\ sessions[s].label # proc[r].mem]_vars
    BY TakenForCause DEF Taken
  <1> QED BY <1>1, <1>2, <1>3, PTL DEF Spec, ClaimLostForCause

=============================================================================
