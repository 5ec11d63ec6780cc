--------------------------- MODULE CoordinatorInbox ---------------------------
(***************************************************************************)
(* coordinator-inbox.py: reports of workers and auditors, coalesced under  *)
(* a key, claimed by the project's coordinator in digests, acknowledged    *)
(* once a status that was published after the claim accounts for them, and *)
(* adopted by the coordinator's successor.                                 *)
(*                                                                         *)
(* Every command is a process under the inbox's file lock, hence one       *)
(* action.  The registry has a lock of its own: a command that has found   *)
(* its caller authoritative goes on although ownership may be moving       *)
(* (Meanwhile).  So has the status: one may be published after a claim has *)
(* read its revision and before the claim has bound its items (early in    *)
(* Claim).  Files are written one after the other, and the process may die *)
(* between two of them (Write).                                            *)
(*                                                                         *)
(* Times and status revisions are kept as what the code compares them for: *)
(* whether a token has expired, and whether a status has been published    *)
(* since an item was claimed.  That a sender is live, has the role for the *)
(* kind and a lease under this coordinator is taken for granted.           *)
(***************************************************************************)
EXTENDS Naturals, FiniteSets, Sequences

CONSTANTS
    Sessions,       \* coordinator sessions
    First,          \* the coordinator of the first generation
    Reports,        \* what is reported: sender, work unit, attempt and kind
    Waking,         \* the reports whose kind wakes the coordinator
    DigestLimit,
    Orderly,        \* TRUE: coordinators adopt before they hand over, and claims name
                    \* their predecessor
    MaxRevision,    \* bound: revisions of a report
    MaxGeneration,  \* bound: generations of the coordinator
    MaxCrashes      \* bound: commands that die between two writes

None == "none"

\* event_key: the generation a report was first submitted to is part of its identity.
Generations == 1..MaxGeneration
Keys == Generations \X Reports

ASSUME InboxAssumption ==
    /\ None \notin Sessions
    /\ First \in Sessions
    /\ Waking \subseteq Reports
    /\ IsFiniteSet(Keys)
    /\ DigestLimit \in Nat \ {0}
    /\ Orderly \in BOOLEAN
    /\ MaxRevision \in Nat \ {0}
    /\ MaxGeneration \in Nat \ {0}
    /\ MaxCrashes \in Nat

VARIABLES
    item,       \* item[k]: the report kept under key k
    claim,      \* the project's claim file
    lapsed,     \* the tokens in use that have expired
    status,     \* the generation that published the product status last, or 0
    hand,       \* the digest a coordinator can still acknowledge
    unheard,    \* a claim has died before it could answer
    reg,        \* the project's registry record
    crashes     \* commands that may still die

inbox == <<item, claim>>
vars == <<inbox, lapsed, status, hand, unheard, reg, crashes>>

Tokens == 0..(Cardinality(Keys) + 2)    \* 0: no token

Items ==
    [state : {"absent", "pending", "claimed", "acknowledged"},
     gen : 0..MaxGeneration,        \* coordinatorGeneration
     revision : 0..MaxRevision,
     token : Tokens,                \* claimToken
     claimed : 0..MaxRevision,      \* claimedRevision
     covered : BOOLEAN,             \* the status is newer than claimedStatusRevision
     orphaned : BOOLEAN]

NoItem == [state |-> "absent", gen |-> 0, revision |-> 0, token |-> 0, claimed |-> 0,
           covered |-> FALSE, orphaned |-> FALSE]

NoClaim == [token |-> 0, gen |-> 0, items |-> {}]

\* shown[k]: the revision of k that the last claim returned, 0 if none; covered: the
\* items a status has been published for since they were shown; early: the items whose
\* claim a status overtook.
NoHand == [gen |-> 0, token |-> 0, shown |-> [k \in Keys |-> 0], covered |-> {}, early |-> {}]

Init ==
    /\ item = [k \in Keys |-> NoItem]
    /\ claim = NoClaim
    /\ lapsed = {}
    /\ status = 0
    /\ hand = NoHand
    /\ unheard = FALSE
    /\ reg = [state |-> "authoritative", owners |-> <<First>>, predecessor |-> None]
    /\ crashes = MaxCrashes

Generation == Len(reg.owners)
Owner == reg.owners[Generation]

\* authoritative_coordinator lets the owner of the current generation pass.
Authoritative == reg.state = "authoritative"

Mine == {k \in Keys : item[k].state # "absent" /\ item[k].gen = Generation}
Open(k) == item[k].state \in {"pending", "claimed"}

\* item_available
Available(k) ==
    \/ item[k].state = "pending"
    \/ /\ item[k].state = "claimed"
       /\ item[k].token \in lapsed \/ item[k].revision # item[k].claimed

\* An item that is not, or no longer, part of a claim.
Detached(x, state) == [x EXCEPT !.state = state, !.token = 0, !.claimed = 0, !.covered = FALSE]

-----------------------------------------------------------------------------
(* The registry *)

\* accept-transfer, or a claim, which need not name its predecessor.
HandOver ==
    /\ Generation < MaxGeneration
    /\ Orderly => \A k \in Keys : Open(k) => item[k].gen = Generation
    /\ \E s \in Sessions \ {Owner} :
          \E p \in {Owner} \cup (IF Orderly THEN {} ELSE {None}) :
              reg' = [state |-> "authoritative", owners |-> Append(reg.owners, s), predecessor |-> p]

\* A claim by the owner itself names no predecessor unless it is told to.
ClaimAgain ==
    /\ ~Orderly
    /\ reg' = [reg EXCEPT !.state = "authoritative", !.predecessor = None]

\* HOLD suspends the owner for a while; so do quarantine and open transfers, which
\* leave it less to do.
Suspend == Authoritative /\ reg' = [reg EXCEPT !.state = "hold"]
Restore == ~Authoritative /\ reg' = [reg EXCEPT !.state = "authoritative"]

Move == HandOver \/ ClaimAgain \/ Suspend \/ Restore

\* While a command has the inbox's lock, the registry may move once.
Meanwhile == UNCHANGED reg \/ Move

-----------------------------------------------------------------------------
(* Writing *)

\* A command writes the items it has changed and then the claim file, or dies on
\* the way or before it can answer: the order of the items is that of a hash, so any
\* of them may be left as it was before.
WriteOver(before, next, c) ==
    \/ /\ item' = next
       /\ claim' = c
       /\ UNCHANGED crashes
    \/ /\ crashes > 0
       /\ crashes' = crashes - 1
       /\ \/ /\ \E written \in SUBSET {k \in Keys : next[k] # before[k]} :
                   item' = [k \in Keys |-> IF k \in written THEN next[k] ELSE before[k]]
             /\ UNCHANGED claim
          \/ item' = next /\ claim' = c

Write(next, c) == WriteOver(item, next, c)

Put(k, x) == item' = [item EXCEPT ![k] = x] /\ UNCHANGED <<claim, hand, crashes>>

\* A digest whose token has left the claim file is of no more use.
Keep == hand' = IF hand.token = claim'.token THEN hand ELSE NoHand

Live == {item[k].token : k \in Keys} \cup {claim.token}
Forget == lapsed' = lapsed \cap Live'

\* A newer fact under the same key leaves the claim, or the acknowledgement.
Revised(x) == Detached([x EXCEPT !.revision = @ + 1], "pending")

\* submit.  The same report again changes diagnostics only.
Submit(r) ==
    LET k == <<Generation, r>> IN
    /\ Authoritative
    /\ \/ /\ item[k].state = "absent"
          /\ Put(k, [NoItem EXCEPT !.state = "pending", !.gen = Generation, !.revision = 1])
       \/ /\ item[k].state # "absent"
          /\ item[k].revision < MaxRevision
          /\ Put(k, Revised(item[k]))
    /\ Forget /\ Meanwhile
    /\ UNCHANGED <<status, unheard>>

-----------------------------------------------------------------------------
(* claim, ack, release *)

\* The claim of this generation is alive: claiming again joins it.
Reuse == claim.token \notin lapsed \cup {0} /\ claim.gen = Generation

Fresh == CHOOSE t \in Tokens \ {0} : t \notin Live

\* The items are visited in the order of their keys until the digest is full.
\* taken joins the claim, again is renewed in it.
Fills(held, taken, again) ==
    LET free == {k \in Mine : Available(k)} IN
    /\ taken \subseteq free \ held
    /\ again \subseteq free \cap held
    /\ IF Cardinality(held) >= DigestLimit
       THEN taken = {} /\ again = {}
       ELSE \/ Cardinality(held \cup taken) = DigestLimit
            \/ /\ Cardinality(held \cup taken) < DigestLimit
               /\ taken = free \ held
               /\ again = free \cap held

\* coordinator-status.py publish makes the status newer than what is claimed so far.
Outdated(x) == [x EXCEPT !.covered = x.state = "claimed"]
Noted(h) ==
    IF h.gen = Generation THEN [h EXCEPT !.covered = {k \in Keys : h.shown[k] # 0}] ELSE h

\* The digest the command prints, after a coordinator had h in hand.
Hand(h, token, digest, overtaken, bound) ==
    LET shown == [k \in Keys |-> IF k \in digest THEN item[k].revision ELSE 0]
        StillShown(k) == h.token = token /\ shown[k] = h.shown[k] IN
    [gen |-> Generation, token |-> token, shown |-> shown,
     covered |-> {k \in h.covered : StillShown(k)},
     early |-> overtaken \cup {k \in h.early \ bound : StillShown(k)}]

\* early: a status is published once claim has read the status's revision, and before
\* it writes that revision into the items it binds.
Claim ==
    LET held == IF Reuse THEN claim.items ELSE {}
        token == IF Reuse THEN claim.token ELSE Fresh IN
    /\ Authoritative
    /\ \E early \in BOOLEAN, taken, again \in SUBSET Mine :
          LET bound == taken \cup again
              digest == held \cup taken
              Bound(x) == [x EXCEPT !.state = "claimed", !.token = token, !.claimed = x.revision,
                                    !.covered = early]
              before == [k \in Keys |-> IF early THEN Outdated(item[k]) ELSE item[k]]
              next == [k \in Keys |-> IF k \in bound THEN Bound(item[k]) ELSE before[k]] IN
          /\ Fills(held, taken, again)
          /\ WriteOver(before, next, [token |-> token, gen |-> Generation, items |-> digest])
          /\ \/ /\ crashes' = crashes
                /\ hand' = Hand(IF early THEN Noted(hand) ELSE hand, token, digest,
                                IF early THEN bound ELSE {}, bound)
                /\ UNCHANGED unheard
             \/ /\ crashes' < crashes
                /\ unheard' = TRUE
                /\ Keep
          /\ status' = IF early THEN Generation ELSE status
    /\ Forget /\ Meanwhile

\* Mutant of Acknowledgeable: any current status will do.
AcknowledgeableByAnyStatus(k) == item[k].token = claim.token /\ item[k].revision = item[k].claimed

\* ack takes the item: it is still in this claim, at the revision claimed, and the
\* status was published after that.
Acknowledgeable(k) ==
    /\ item[k].token = claim.token
    /\ item[k].revision = item[k].claimed
    /\ item[k].covered

\* Mutant of Remaining: the claim ends with the first acknowledgement.
RemainingNone(done) == NoClaim

\* What is left of the claim once the items in done are acknowledged.
Remaining(done) ==
    LET left == claim.items \ done IN
    [claim EXCEPT !.items = left, !.token = IF left = {} THEN 0 ELSE @]

Ack(requested) ==
    LET done == {k \in requested \cap claim.items : Acknowledgeable(k)} IN
    /\ Authoritative
    /\ claim.token # 0 /\ claim.token = hand.token /\ claim.gen = Generation
    /\ status = Generation
    /\ Write([k \in Keys |-> IF k \in done THEN Detached(item[k], "acknowledged") ELSE item[k]],
             Remaining(done))
    /\ Keep /\ Forget /\ Meanwhile
    /\ UNCHANGED <<status, unheard>>

Release ==
    /\ Authoritative
    /\ claim.token # 0 /\ claim.token = hand.token
    /\ Write([k \in Keys |-> IF k \in claim.items /\ item[k].token = claim.token
                             THEN Detached(item[k], "pending") ELSE item[k]],
             NoClaim)
    /\ Keep /\ Forget /\ Meanwhile
    /\ UNCHANGED <<status, unheard>>

-----------------------------------------------------------------------------
(* adopt, reconcile *)

\* Mutants of Readdressed: a claim of the dead generation is kept; an acknowledged
\* report is opened again.
ReaddressedAsClaimed(x) == [Detached(x, x.state) EXCEPT !.gen = Generation, !.orphaned = FALSE]
ReaddressedOpen(x) == [Detached(x, "pending") EXCEPT !.gen = Generation, !.orphaned = FALSE]

\* An event of the predecessor, addressed to this generation.
Readdressed(x) ==
    [Detached(x, IF x.state = "claimed" THEN "pending" ELSE x.state)
        EXCEPT !.gen = Generation, !.orphaned = FALSE]

Left(k) ==
    /\ item[k].state # "absent"
    /\ reg.owners[item[k].gen] = reg.predecessor
    /\ item[k].gen # Generation

Adopt ==
    /\ Authoritative
    /\ reg.predecessor \notin {None, Owner}
    /\ Write([k \in Keys |-> IF Left(k) THEN Readdressed(item[k]) ELSE item[k]], claim)
    /\ Keep /\ Forget /\ Meanwhile
    /\ UNCHANGED <<status, unheard>>

\* An expired claim gives its items back.
Expired == claim.token \in lapsed
GivenBack(k) ==
    IF Expired /\ k \in claim.items /\ item[k].token = claim.token /\ item[k].state = "claimed"
    THEN Detached(item[k], "pending") ELSE item[k]

\* Mutant of Flagged: the flag is never taken back.
FlaggedForGood(x) ==
    [x EXCEPT !.orphaned =
        @ \/ (x.state # "absent" /\ (~Authoritative \/ x.gen # Generation))]

\* Items whose generation is not the authoritative one are orphans.
Flagged(x) ==
    [x EXCEPT !.orphaned = x.state # "absent" /\ (~Authoritative \/ x.gen # Generation)]

\* reconcile: claims first, then orphans; it may die in either half.
Reconcile ==
    LET given == [k \in Keys |-> GivenBack(k)]
        c == IF Expired THEN NoClaim ELSE claim
        next == [k \in Keys |-> Flagged(given[k])] IN
    /\ \/ Write(given, c) /\ crashes' < crashes
       \/ /\ item' = next
          /\ claim' = c
          /\ UNCHANGED crashes
       \/ /\ crashes > 0
          /\ crashes' = crashes - 1
          /\ \E written \in SUBSET Keys :
                item' = [k \in Keys |-> IF k \in written THEN next[k] ELSE given[k]]
          /\ claim' = c
    /\ Keep /\ Forget /\ Meanwhile
    /\ UNCHANGED <<status, unheard>>

-----------------------------------------------------------------------------
(* The coordinator's status, time, and crashes of the coordinator's turn *)

\* coordinator-status.py publish, by the owner: newer than whatever was claimed.
Publish ==
    /\ status' = Generation
    /\ item' = [k \in Keys |-> Outdated(item[k])]
    /\ hand' = Noted(hand)
    /\ UNCHANGED <<claim, lapsed, unheard, reg, crashes>>

\* A claim's ttl is over.
Lapse(t) ==
    /\ t \in Live \ ({0} \cup lapsed)
    /\ lapsed' = lapsed \cup {t}
    /\ UNCHANGED <<inbox, status, hand, unheard, reg, crashes>>

Registry == Move /\ UNCHANGED <<inbox, lapsed, status, hand, unheard, crashes>>

Next ==
    \/ \E r \in Reports : Submit(r)
    \/ Claim
    \/ \E requested \in SUBSET claim.items : requested # {} /\ Ack(requested)
    \/ Release
    \/ Adopt
    \/ Reconcile
    \/ Publish
    \/ \E t \in Tokens : Lapse(t)
    \/ Registry

Spec == Init /\ [][Next]_vars

\* wake_observations reports item k.
Wakes(k) ==
    /\ Authoritative
    /\ k[2] \in Waking /\ k \in Mine
    /\ Available(k) /\ ~item[k].orphaned

\* What a coordinator does with what it was woken for: claims it, publishes a status
\* that accounts for it, acknowledges it.
Answer == (\E k \in Keys : Wakes(k)) /\ Claim /\ item' # item
Account == (\E k \in claim.items : item[k].token = claim.token /\ ~item[k].covered) /\ Publish
Settle == Ack(claim.items) /\ item' # item

\* The watchdog reconciles for ever, tokens expire, and a coordinator that is woken,
\* or succeeds another, gets to its commands again and again.
FairSpec ==
    /\ Spec
    /\ SF_vars(Answer)
    /\ SF_vars(Account)
    /\ SF_vars(Settle)
    /\ WF_vars(Adopt /\ item' # item)
    /\ WF_vars(Reconcile /\ UNCHANGED reg)
    /\ \A t \in Tokens : WF_vars(Lapse(t))

-----------------------------------------------------------------------------
(* Properties *)

\* Type invariant; an item has a token exactly while it is claimed.
TypeOK ==
    /\ item \in [Keys -> Items]
    /\ claim \in [token : Tokens, gen : 0..MaxGeneration, items : SUBSET Keys]
    /\ lapsed \subseteq Tokens
    /\ status \in 0..MaxGeneration
    /\ hand \in [gen : 0..MaxGeneration, token : Tokens, shown : [Keys -> 0..MaxRevision],
                 covered : SUBSET Keys, early : SUBSET Keys]
    /\ reg \in [state : {"authoritative", "hold"}, owners : Seq(Sessions),
                predecessor : Sessions \cup {None}]
    /\ Generation \in Generations
    /\ unheard \in BOOLEAN
    /\ crashes \in 0..MaxCrashes
    /\ \A k \in Keys : item[k].state = "claimed" <=> item[k].token # 0

Acknowledged(k) == item[k].state = "acknowledged"

\* A report is acknowledged only at the revision the coordinator was shown, under a
\* claim of its own generation, after a status was published that can account for
\* it: no newer fact is swallowed by a late, repeated or stale acknowledgement, as
\* long as no answer to a claim has been lost.  But a status that overtakes the claim,
\* between its reading of the revision and its writes, counts as published after it
\* (early), although the coordinator was shown the report only later.
AckedWasShown ==
    [][\A k \in Keys :
          ~Acknowledged(k) /\ Acknowledged(k)' =>
              /\ hand.gen = Generation
              /\ ~unheard => hand.shown[k] = item[k].revision /\ k \in hand.covered \cup hand.early]_vars

\* Only a newer revision opens an acknowledged report again, not a crash, a second
\* claim or the adoption by a successor.
AckIsFinal ==
    [][\A k \in Keys :
          Acknowledged(k) => Acknowledged(k)' \/ item'[k].revision > item[k].revision]_vars

\* A report is not out of reach: it can be claimed, or it is in the claim that the
\* coordinator can still acknowledge, unless a claim has died.
NothingInLimbo ==
    \A k \in Mine :
        item[k].state = "claimed" =>
            \/ Available(k)
            \/ item[k].token = claim.token /\ k \in claim.items
            \/ unheard

\* Once the coordinator is no longer suspended, a report that wakes is acknowledged:
\* through crashes, expired claims, flags left by earlier suspensions and hand-overs,
\* as long as coordinators adopt before they hand over.
EveryWakingReportHandled ==
    <>[]Authoritative => \A k \in Keys : k[2] \in Waking => (Open(k) ~> ~Open(k))

=============================================================================
