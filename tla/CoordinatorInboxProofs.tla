-------------------------- MODULE CoordinatorInboxProofs --------------------------
(***************************************************************************)
(* Proofs about CoordinatorInbox, for any sessions, reports and digest     *)
(* limit, and any number of revisions, generations and dying commands.     *)
(*                                                                         *)
(* As long as no claim has died unheard, the items, the claim file and     *)
(* the digest in the coordinator's hand agree (Agree).  Every command but  *)
(* claim only lets items go (LetGo), and then what agreed still does.      *)
(***************************************************************************)
EXTENDS CoordinatorInbox, FiniteSetTheorems, TLAPS

Grounded ==
    /\ \A k \in Keys : item[k].state # "absent" => item[k].revision > 0
    /\ \A k \in Keys : item[k].gen <= Generation
    /\ claim.gen <= Generation

\* The digest in hand is that of the claim file.
HandFits ==
    /\ hand.token \in {0, claim.token}
    /\ hand.token # 0 => hand.gen = claim.gen

\* Items under the claim's token are listed in the claim.
Listed ==
    \A k \in Keys : item[k].token # 0 /\ item[k].token = claim.token =>
                       k \in claim.items /\ item[k].gen = claim.gen

\* Items of this generation are under the claim's token or an expired one.
Reachable ==
    \A k \in Keys : item[k].token # 0 /\ item[k].gen = Generation =>
                       item[k].token \in lapsed \cup {claim.token}

\* Items that the claim still binds at the revision claimed were shown at it, and a
\* status that covers them was published after that, or overtook their claim.
Shown ==
    \A k \in Keys :
        /\ item[k].token # 0 /\ item[k].token = hand.token
        /\ item[k].revision = item[k].claimed
        /\ hand.gen = Generation
        => /\ hand.shown[k] = item[k].revision
           /\ item[k].covered => k \in hand.covered \cup hand.early

Agree ==
    ~unheard => hand.token = claim.token /\ Listed /\ Reachable /\ Shown

IInv == TypeOK /\ Grounded /\ HandFits /\ Agree

-----------------------------------------------------------------------------
(* Types *)

\* Zero, the token of no claim, is among the tokens.
LEMMA TokensAreNumbers == Tokens \subseteq Nat /\ 0 \in Tokens
<1>1. Cardinality(Keys) \in Nat
  BY FS_CardinalityType, InboxAssumption
<1> QED
  BY <1>1 DEF Tokens

\* There is always a token that no item and no claim refers to.
LEMMA FreshIsUnused ==
  ASSUME TypeOK
  PROVE  Fresh \in Tokens \ {0} /\ Fresh \notin Live
<1> DEFINE f == [k \in Keys |-> item[k].token]
           T == {item[k].token : k \in Keys}
           n == Cardinality(Keys)
<1>1. IsFiniteSet(Keys) /\ n \in Nat
  BY FS_CardinalityType, InboxAssumption
<1>2. f \in Surjection(Keys, T)
  BY DEF Surjection
<1>3. IsFiniteSet(T) /\ Cardinality(T) <= n
  BY <1>1, <1>2, FS_Surjection
<1>4. IsFiniteSet(Live) /\ Cardinality(Live) <= n + 1
  <2>1. Live = T \cup {claim.token}
    BY DEF Live
  <2>2. Cardinality(T) \in Nat
    BY <1>3, FS_CardinalityType
  <2>3. /\ IsFiniteSet(T \cup {claim.token})
        /\ Cardinality(T \cup {claim.token}) =
              IF claim.token \in T THEN Cardinality(T) ELSE Cardinality(T) + 1
    BY <1>3, FS_AddElement
  <2> QED
    BY <1>1, <1>3, <2>1, <2>2, <2>3
<1>5. Cardinality(1..(n + 2)) = n + 2
  BY <1>1, FS_Interval
<1>6. \E t \in 1..(n + 2) : t \notin Live
  <2> SUFFICES ASSUME 1..(n + 2) \subseteq Live PROVE FALSE
    OBVIOUS
  <2>1. Cardinality(1..(n + 2)) <= Cardinality(Live)
    BY <1>4, FS_Subset
  <2>2. Cardinality(Live) \in Nat
    BY <1>4, FS_CardinalityType
  <2> QED
    BY <1>1, <1>4, <1>5, <2>1, <2>2
<1>7. \E t \in Tokens \ {0} : t \notin Live
  BY <1>1, <1>6 DEF Tokens
<1> QED
  BY <1>7 DEF Fresh

\* An item detached from its claim has no token and keeps generation and revision.
LEMMA DetachedType ==
  ASSUME NEW x \in Items, NEW state \in {"pending", "acknowledged", "absent"}
  PROVE  /\ Detached(x, state) \in Items
         /\ Detached(x, state).state = state
         /\ Detached(x, state).token = 0
         /\ Detached(x, state).gen = x.gen
         /\ Detached(x, state).revision = x.revision
<1> DEFINE y == Detached(x, state)
<1>1. 0 \in Tokens /\ 0 \in 0..MaxRevision
  BY TokensAreNumbers, InboxAssumption
<1> DEFINE x1 == [x EXCEPT !.state = state]
           x2 == [x1 EXCEPT !.token = 0]
           x3 == [x2 EXCEPT !.claimed = 0]
<1>2. y = [x3 EXCEPT !.covered = FALSE]
  BY DEF Detached
<1>3. x1 \in Items /\ x1.state = state /\ x1.gen = x.gen /\ x1.revision = x.revision
  BY DEF Items
<1>4. x2 \in Items /\ x2.state = state /\ x2.gen = x.gen /\ x2.revision = x.revision /\ x2.token = 0
  BY <1>1, <1>3 DEF Items
<1>5. x3 \in Items /\ x3.state = state /\ x3.gen = x.gen /\ x3.revision = x.revision /\ x3.token = 0
  BY <1>1, <1>4 DEF Items
<1> QED
  BY <1>2, <1>5 DEF Items

\* An item as the invariant wants it, while the registry is at Generation.
Sane(x) ==
    /\ x \in Items
    /\ x.state = "claimed" <=> x.token # 0
    /\ x.state # "absent" => x.revision > 0
    /\ x.gen <= Generation

\* y is x but for the orphan flag.
Same(x, y) ==
    /\ y.state = x.state /\ y.gen = x.gen /\ y.revision = x.revision
    /\ y.token = x.token /\ y.claimed = x.claimed /\ y.covered = x.covered

\* A step may turn x into y without claiming it: y is sane, and as it was or let go.
Loose(x, y) ==
    /\ Sane(y)
    /\ Same(x, y) \/ y.token = 0
    /\ x.state = "acknowledged" => y.state = "acknowledged" \/ y.revision > x.revision

\* The invariant's clauses about items, one item at a time.
LEMMA AllSane ==
  ASSUME TypeOK, Grounded
  PROVE  \A k \in Keys : Sane(item[k])
  BY DEF TypeOK, Grounded, Sane

\* A registered project is in a positive generation.
LEMMA GenerationType ==
  ASSUME TypeOK
  PROVE  Generation \in Nat /\ Generation \in 0..MaxGeneration /\ Generation > 0 /\ MaxGeneration \in Nat
  BY InboxAssumption DEF TypeOK, Generations

\* An item is as it was.
LEMMA Untouched ==
  ASSUME NEW x, Sane(x)
  PROVE  Loose(x, x)
  BY DEF Loose, Same

\* Giving a claimed item back, or acknowledging it, lets it go.
LEMMA DetachedLoose ==
  ASSUME TypeOK, NEW x, Sane(x), NEW state \in {"pending", "acknowledged"}, x.state = "claimed"
  PROVE  Loose(x, Detached(x, state))
<1>1. x \in Items
  BY DEF Sane
<1> QED
  BY <1>1, DetachedType DEF Loose, Sane

\* A resubmission lets go of what the item was.
LEMMA SubmittedLoose ==
  ASSUME TypeOK, NEW x, Sane(x), x.state # "absent", x.revision < MaxRevision
  PROVE  Loose(x, Revised(x)) /\ Revised(x).state = "pending"
<1> DEFINE x1 == [x EXCEPT !.revision = x.revision + 1]
<1>1. Revised(x) = Detached(x1, "pending")
  BY DEF Revised, Sane, Items
<1>2. x1 \in Items /\ x1.revision = x.revision + 1 /\ x1.gen = x.gen
  BY InboxAssumption DEF Sane, Items
<1>3. x.revision \in Nat
  BY InboxAssumption DEF Sane, Items
<1> HIDE DEF x1
<1> DEFINE y == Revised(x)
<1>4. y \in Items /\ y.state = "pending" /\ y.token = 0 /\ y.revision = x.revision + 1 /\ y.gen = x.gen
  BY <1>1, <1>2, DetachedType
<1> HIDE DEF y
<1>5. Loose(x, y)
  BY <1>3, <1>4 DEF Loose, Sane
<1> QED
  BY <1>4, <1>5 DEF y

\* A new item is under no claim.
LEMMA NewLoose ==
  ASSUME TypeOK, NEW x, x.state = "absent"
  PROVE  Loose(x, [NoItem EXCEPT !.state = "pending", !.gen = Generation, !.revision = 1])
<1> DEFINE n1 == [NoItem EXCEPT !.state = "pending"]
           n2 == [n1 EXCEPT !.gen = Generation]
           y == [n2 EXCEPT !.revision = 1]
<1>0. NoItem \in Items /\ NoItem.token = 0
  <2>1. 0 \in Tokens /\ 0 \in 0..MaxGeneration /\ 0 \in 0..MaxRevision
    BY TokensAreNumbers, InboxAssumption
  <2> QED
    BY <2>1 DEF NoItem, Items
<1>1. n1 \in Items /\ n1.state = "pending" /\ n1.token = 0
  BY <1>0 DEF Items
<1> HIDE DEF n1
<1>2. n2 \in Items /\ n2.state = "pending" /\ n2.token = 0 /\ n2.gen = Generation
  BY <1>1, GenerationType DEF Items
<1> HIDE DEF n2
<1>3. y \in Items /\ y.state = "pending" /\ y.token = 0 /\ y.gen = Generation /\ y.revision = 1
  BY <1>2, InboxAssumption DEF Items
<1> HIDE DEF y
<1>4. Loose(x, y)
  BY <1>3, GenerationType DEF Loose, Sane
<1> QED
  BY <1>4 DEF y, n2, n1

\* Adoption lets go, and opens no acknowledged item.
LEMMA ReaddressedLoose ==
  ASSUME TypeOK, NEW x, Sane(x), x.state # "absent"
  PROVE  Loose(x, Readdressed(x)) /\ (Readdressed(x).state = "acknowledged" => x.state = "acknowledged")
<1> DEFINE state == IF x.state = "claimed" THEN "pending" ELSE x.state
           d == Detached(x, state)
           d1 == [d EXCEPT !.gen = Generation]
<1>1. x \in Items /\ state \in {"pending", "acknowledged"}
  BY DEF Sane, Items
<1>2. d \in Items /\ d.state = state /\ d.token = 0 /\ d.revision = x.revision
  BY <1>1, DetachedType
<1>3. Readdressed(x) = [d1 EXCEPT !.orphaned = FALSE]
  BY DEF Readdressed
<1> HIDE DEF d, state
<1>4. d1 \in Items /\ d1.state = state /\ d1.token = 0 /\ d1.revision = x.revision /\ d1.gen = Generation
  BY <1>2, GenerationType DEF Items
<1> HIDE DEF d1
<1>5. /\ Readdressed(x) \in Items /\ Readdressed(x).state = state /\ Readdressed(x).token = 0
      /\ Readdressed(x).revision = x.revision /\ Readdressed(x).gen = Generation
  BY <1>3, <1>4 DEF Items
<1>6. x.state = "acknowledged" <=> state = "acknowledged"
  BY DEF state
<1> QED
  BY <1>1, <1>5, <1>6, GenerationType DEF Loose, Sane

\* The orphan flag touches nothing the invariant speaks of.
LEMMA FlaggedSame ==
  ASSUME NEW x, Sane(x)
  PROVE  Same(x, Flagged(x)) /\ Sane(Flagged(x))
  BY DEF Flagged, Same, Sane, Items

\* What reconcile gives back is let go, and is not acknowledged by it.
LEMMA GivenBackLoose ==
  ASSUME TypeOK, Grounded, NEW k \in Keys
  PROVE  /\ Loose(item[k], GivenBack(k)) /\ Loose(item[k], Flagged(GivenBack(k)))
         /\ GivenBack(k).state = "acknowledged" => item[k].state = "acknowledged"
         /\ Flagged(GivenBack(k)).state = "acknowledged" => item[k].state = "acknowledged"
<1>1. Sane(item[k]) /\ item[k] \in Items
  BY AllSane DEF Sane
<1>2. Loose(item[k], GivenBack(k))
  BY <1>1, Untouched, DetachedLoose DEF GivenBack
<1>3. GivenBack(k).state = "acknowledged" => item[k].state = "acknowledged"
  BY <1>1, DetachedType DEF GivenBack
<1>4. Same(GivenBack(k), Flagged(GivenBack(k))) /\ Sane(Flagged(GivenBack(k)))
  BY <1>2, FlaggedSame DEF Loose
<1> QED
  BY <1>2, <1>3, <1>4 DEF Loose, Same

-----------------------------------------------------------------------------
(* Writes that are cut short, and a registry that moves *)

ClaimFiles == [token : Tokens, gen : 0..MaxGeneration, items : SUBSET Keys]

\* Every item is as it was before or as it should be; only a write that is not cut
\* short reaches the claim file.
LEMMA WriteOverEffect ==
  ASSUME TypeOK, NEW before \in [Keys -> Items], NEW next \in [Keys -> Items], NEW c,
         WriteOver(before, next, c)
  PROVE  /\ item' \in [Keys -> Items]
         /\ \A k \in Keys : item'[k] = before[k] \/ item'[k] = next[k]
         /\ claim' = claim \/ (claim' = c /\ item' = next)
         /\ crashes' \in 0..MaxCrashes
         /\ crashes' = crashes => claim' = c /\ item' = next
<1>1. crashes \in 0..MaxCrashes /\ MaxCrashes \in Nat
  BY InboxAssumption DEF TypeOK
<1>2. CASE item' = next /\ claim' = c /\ UNCHANGED crashes
  BY <1>1, <1>2
<1>3. CASE /\ crashes > 0 /\ crashes' = crashes - 1
           /\ \E written \in SUBSET {k \in Keys : next[k] # before[k]} :
                 item' = [k \in Keys |-> IF k \in written THEN next[k] ELSE before[k]]
           /\ UNCHANGED claim
  BY <1>1, <1>3
<1>4. CASE crashes > 0 /\ crashes' = crashes - 1 /\ item' = next /\ claim' = c
  BY <1>1, <1>4
<1> QED
  BY <1>2, <1>3, <1>4 DEF WriteOver

\* The same of a command under which nothing changes but by its writes.
LEMMA WriteEffect ==
  ASSUME TypeOK, NEW next \in [Keys -> Items], NEW c, Write(next, c)
  PROVE  /\ item' \in [Keys -> Items]
         /\ \A k \in Keys : item'[k] = item[k] \/ item'[k] = next[k]
         /\ claim' = claim \/ (claim' = c /\ item' = next)
         /\ crashes' \in 0..MaxCrashes
         /\ crashes' = crashes => claim' = c /\ item' = next
<1>1. item \in [Keys -> Items] /\ WriteOver(item, next, c)
  BY DEF TypeOK, Write
<1> QED
  BY <1>1, WriteOverEffect

Registries ==
    [state : {"authoritative", "hold"}, owners : Seq(Sessions), predecessor : Sessions \cup {None}]

\* The registry keeps its shape and generations never fall.
LEMMA RegistryStep ==
  ASSUME TypeOK, Meanwhile
  PROVE  reg' \in Registries /\ Generation' \in Generations /\ Generation' \in Nat /\ Generation' >= Generation
<1>1. reg \in Registries /\ Generation \in 1..MaxGeneration /\ MaxGeneration \in Nat
  BY InboxAssumption DEF TypeOK, Generations, Registries
<1>2. CASE HandOver
  <2>1. PICK s \in Sessions \ {Owner}, p \in {Owner, None} :
            reg' = [state |-> "authoritative", owners |-> Append(reg.owners, s), predecessor |-> p]
    BY <1>2 DEF HandOver
  <2>2. Owner \in Sessions
    BY <1>1 DEF Owner, Generation, Registries
  <2>3. Append(reg.owners, s) \in Seq(Sessions) /\ Len(Append(reg.owners, s)) = Generation + 1
    BY <1>1, <2>1 DEF Generation, Registries
  <2>4. Generation < MaxGeneration
    BY <1>2 DEF HandOver
  <2>5. reg' \in Registries /\ reg'.owners = Append(reg.owners, s)
    BY <2>1, <2>2, <2>3 DEF Registries
  <2> QED
    BY <1>1, <2>3, <2>4, <2>5 DEF Generation, Generations
<1>3. CASE UNCHANGED reg
  BY <1>1, <1>3 DEF Generation, Generations
<1>4. CASE ClaimAgain \/ Suspend \/ Restore
  <2>1. reg' \in Registries /\ reg'.owners = reg.owners
    <3>1. CASE ClaimAgain
      <4> DEFINE r1 == [reg EXCEPT !.state = "authoritative"]
      <4>1. reg' = [r1 EXCEPT !.predecessor = None]
        BY <3>1 DEF ClaimAgain
      <4>2. r1 \in Registries /\ r1.owners = reg.owners
        BY <1>1 DEF Registries
      <4> HIDE DEF r1
      <4> QED
        BY <4>1, <4>2 DEF Registries
    <3>2. CASE Suspend
      BY <1>1, <3>2 DEF Suspend, Registries
    <3>3. CASE Restore
      BY <1>1, <3>3 DEF Restore, Registries
    <3> QED
      BY <1>4, <3>1, <3>2, <3>3
  <2> QED
    BY <1>1, <2>1 DEF Generation, Generations
<1> QED
  BY <1>2, <1>3, <1>4 DEF Meanwhile, Move

-----------------------------------------------------------------------------
(* Steps that let go of items *)

\* What such a step does to the claim file: the claim ends or keeps its token, and
\* the items it still binds stay listed in it.
ClaimKept ==
    /\ claim' \in ClaimFiles
    /\ claim'.token \in {0, claim.token}
    /\ claim'.token # 0 => claim'.gen = claim.gen
    /\ claim'.gen <= Generation
    /\ ~unheard => \A k \in Keys :
          item'[k].token # 0 /\ item'[k].token = claim.token =>
              claim'.token = claim.token /\ k \in claim'.items

LetGo ==
    /\ item' \in [Keys -> Items]
    /\ \A k \in Keys : Loose(item[k], item'[k])
    /\ ClaimKept
    /\ (hand' = hand /\ claim' = claim) \/ Keep
    /\ lapsed' \subseteq Tokens /\ lapsed \cap Live' \subseteq lapsed'
    /\ status' \in 0..MaxGeneration
    /\ crashes' \in 0..MaxCrashes
    /\ unheard' = unheard
    /\ Meanwhile

Hands == [gen : 0..MaxGeneration, token : Tokens, shown : [Keys -> 0..MaxRevision],
          covered : SUBSET Keys, early : SUBSET Keys]

\* A coordinator with no digest in hand holds no token.
LEMMA NoHandType == NoHand \in Hands /\ NoHand.token = 0
<1>1. 0 \in Tokens /\ 0 \in 0..MaxGeneration /\ 0 \in 0..MaxRevision
  BY TokensAreNumbers, InboxAssumption
<1> QED
  BY <1>1 DEF NoHand, Hands

\* After a step that lets go, the hand is as it was or empty.
LEMMA LetGoHand ==
  ASSUME IInv, LetGo
  PROVE  /\ hand' \in Hands
         /\ hand'.token # 0 => hand' = hand /\ claim'.token = claim.token /\ hand.token = claim.token
         /\ HandFits'
         /\ ~unheard => hand'.token = claim'.token
<1>1. hand \in Hands /\ HandFits /\ (~unheard => hand.token = claim.token)
  BY DEF IInv, TypeOK, Hands, Agree
<1>2. claim'.token \in {0, claim.token} /\ (claim'.token # 0 => claim'.gen = claim.gen)
  BY DEF LetGo, ClaimKept
<1>3. CASE hand' = hand /\ claim' = claim
  BY <1>1, <1>2, <1>3 DEF HandFits
<1>4. CASE hand' = hand /\ hand.token = claim'.token
  BY <1>1, <1>2, <1>4 DEF HandFits
<1>5. CASE hand' = NoHand /\ hand.token # claim'.token
  BY <1>1, <1>2, <1>5, NoHandType DEF HandFits
<1> QED
  BY <1>3, <1>4, <1>5 DEF LetGo, Keep

\* A step that lets go keeps types and groundedness.
LEMMA LetGoType ==
  ASSUME IInv, LetGo
  PROVE  TypeOK' /\ Grounded'
<1>1. reg' \in Registries /\ Generation' \in Generations /\ Generation' \in Nat /\ Generation' >= Generation
  BY RegistryStep DEF IInv, LetGo
<1>2. \A k \in Keys : Sane(item'[k])
  BY DEF LetGo, Loose
<1>3. hand' \in Hands
  BY LetGoHand
<1>4. Generation \in Nat /\ MaxGeneration \in Nat
  BY GenerationType DEF IInv
<1>5. Grounded'
  <2>1. \A k \in Keys : item'[k].gen <= Generation'
    BY <1>1, <1>2, <1>4 DEF Sane, Items
  <2>2. claim'.gen <= Generation'
    BY <1>1, <1>4 DEF LetGo, ClaimKept, ClaimFiles
  <2> QED
    BY <1>2, <2>1, <2>2 DEF Grounded, Sane
<1>6. TypeOK'
  BY <1>1, <1>2, <1>3 DEF TypeOK, IInv, LetGo, ClaimKept, ClaimFiles, Registries, Hands, Sane
<1> QED
  BY <1>5, <1>6

\* A step that lets go keeps items, claim file and hand in agreement.
LEMMA LetGoAgree ==
  ASSUME IInv, LetGo
  PROVE  Agree'
<1> SUFFICES ASSUME ~unheard
             PROVE  hand'.token = claim'.token /\ Listed' /\ Reachable' /\ Shown'
  BY DEF Agree, LetGo
<1>1. Listed /\ Reachable /\ Shown /\ HandFits
  BY DEF IInv, Agree
<1>2. Generation' \in Nat /\ Generation' >= Generation /\ Generation \in Nat
  BY RegistryStep, GenerationType DEF IInv, LetGo
<1>3. ASSUME NEW k \in Keys, item'[k].token # 0
      PROVE  Same(item[k], item'[k]) /\ item'[k].gen \in Nat /\ item'[k].gen <= Generation
  BY <1>3, InboxAssumption DEF LetGo, Loose, Sane, Items
<1>4. ASSUME NEW k \in Keys, item'[k].token # 0, item'[k].token = claim.token
      PROVE  claim'.token = claim.token /\ k \in claim'.items
  BY <1>4 DEF LetGo, ClaimKept
<1>5. Listed'
  <2> SUFFICES ASSUME NEW k \in Keys, item'[k].token # 0, item'[k].token = claim'.token
               PROVE  k \in claim'.items /\ item'[k].gen = claim'.gen
    BY DEF Listed
  <2>1. claim'.token = claim.token /\ claim'.gen = claim.gen
    BY DEF LetGo, ClaimKept
  <2> QED
    BY <1>1, <1>3, <1>4, <2>1 DEF Listed, Same
<1>6. Reachable'
  <2> SUFFICES ASSUME NEW k \in Keys, item'[k].token # 0, item'[k].gen = Generation'
               PROVE  item'[k].token \in lapsed' \cup {claim'.token}
    BY DEF Reachable
  <2>1. Same(item[k], item'[k]) /\ Generation' = Generation
    BY <1>2, <1>3
  <2>2. item'[k].token \in lapsed \cup {claim.token}
    BY <1>1, <2>1 DEF Reachable, Same
  <2>3. item'[k].token \in Live'
    BY DEF Live
  <2> QED
    BY <1>4, <2>2, <2>3 DEF LetGo
<1>7. Shown'
  <2> SUFFICES ASSUME NEW k \in Keys, item'[k].token # 0, item'[k].token = hand'.token,
                      item'[k].revision = item'[k].claimed, hand'.gen = Generation'
               PROVE  /\ hand'.shown[k] = item'[k].revision
                      /\ item'[k].covered => k \in hand'.covered \cup hand'.early
    BY DEF Shown
  <2>1. hand' = hand /\ hand.gen = claim.gen
    BY <1>1, LetGoHand DEF HandFits
  <2>2. hand.gen <= Generation /\ hand.gen \in Nat
    BY <2>1, InboxAssumption DEF IInv, Grounded, TypeOK
  <2>3. Generation' = Generation
    BY <1>2, <2>1, <2>2
  <2> QED
    BY <1>1, <1>3, <2>1, <2>3 DEF Shown, Same
<1> QED
  BY <1>5, <1>6, <1>7, LetGoHand

\* A step that lets go keeps the invariant.
LEMMA LetGoIInv ==
  ASSUME IInv, LetGo
  PROVE  IInv'
  BY LetGoAgree, LetGoHand, LetGoType DEF IInv

-----------------------------------------------------------------------------
(* Every command but claim lets go *)

\* What a command's write does to the items, if every item it writes is let go.
LEMMA WriteLoose ==
  ASSUME TypeOK, Grounded, NEW next \in [Keys -> Items], NEW c, Write(next, c),
         \A k \in Keys : Loose(item[k], next[k])
  PROVE  item' \in [Keys -> Items] /\ \A k \in Keys : Loose(item[k], item'[k])
  BY WriteEffect, AllSane, Untouched

\* submit writes one item and no claim.
LEMMA SubmitLetsGo ==
  ASSUME IInv, NEW r \in Reports, Submit(r)
  PROVE  LetGo
<1> DEFINE k == <<Generation, r>>
           new == [NoItem EXCEPT !.state = "pending", !.gen = Generation, !.revision = 1]
<1>1. k \in Keys /\ item \in [Keys -> Items] /\ \A q \in Keys : Sane(item[q])
  BY AllSane DEF IInv, TypeOK, Keys
<1>2. PICK y : Put(k, y) /\ Loose(item[k], y)
  <2>1. CASE item[k].state = "absent" /\ Put(k, new)
    BY <2>1, NewLoose DEF IInv
  <2>2. CASE item[k].state # "absent" /\ item[k].revision < MaxRevision /\ Put(k, Revised(item[k]))
    BY <1>1, <2>2, SubmittedLoose DEF IInv
  <2> QED
    BY <2>1, <2>2 DEF Submit
<1> HIDE DEF k
<1>3. item' = [item EXCEPT ![k] = y] /\ claim' = claim /\ hand' = hand /\ crashes' = crashes
  BY <1>2 DEF Put
<1>4. item' \in [Keys -> Items] /\ \A q \in Keys : Loose(item[q], item'[q])
  BY <1>1, <1>2, <1>3, Untouched DEF Loose, Sane
<1>5. ClaimKept
  <2> SUFFICES ASSUME ~unheard, NEW q \in Keys, item'[q].token # 0, item'[q].token = claim.token
               PROVE  q \in claim.items
    BY <1>3 DEF ClaimKept, IInv, TypeOK, Grounded, ClaimFiles
  <2> QED
    BY <1>4 DEF Loose, Same, IInv, Agree, Listed
<1> QED
  BY <1>3, <1>4, <1>5 DEF LetGo, Submit, Forget, IInv, TypeOK

\* A claim that is left alone, or over once none of its items has its token.
LEMMA ClaimLeft ==
  ASSUME IInv, item' \in [Keys -> Items], \A k \in Keys : Loose(item[k], item'[k]), claim' = claim
  PROVE  ClaimKept
<1> SUFFICES ASSUME ~unheard, NEW k \in Keys, item'[k].token # 0, item'[k].token = claim.token
             PROVE  k \in claim.items
  BY DEF ClaimKept, IInv, TypeOK, Grounded, ClaimFiles
<1> QED
  BY DEF Loose, Same, IInv, Agree, Listed

\* A claim file may be emptied once no item has its token.
LEMMA ClaimOver ==
  ASSUME IInv, claim' = NoClaim,
         ~unheard => \A k \in Keys : item'[k].token # 0 => item'[k].token # claim.token
  PROVE  ClaimKept
<1>1. NoClaim \in ClaimFiles /\ NoClaim.token = 0 /\ NoClaim.gen = 0
  <2>1. 0 \in Tokens /\ 0 \in 0..MaxGeneration
    BY TokensAreNumbers, InboxAssumption
  <2> QED
    BY <2>1 DEF NoClaim, ClaimFiles
<1> QED
  BY <1>1, GenerationType DEF ClaimKept, IInv

\* ack lets go of what it acknowledges and leaves the rest of the claim.
LEMMA AckLetsGo ==
  ASSUME IInv, NEW requested, Ack(requested)
  PROVE  LetGo
<1> DEFINE done == {k \in requested \cap claim.items : Acknowledgeable(k)}
           next == [k \in Keys |-> IF k \in done THEN Detached(item[k], "acknowledged") ELSE item[k]]
           left == claim.items \ done
           c1 == [claim EXCEPT !.items = left]
<1>1. /\ TypeOK /\ Grounded /\ claim \in ClaimFiles
      /\ \A k \in Keys : Sane(item[k])
  BY AllSane DEF IInv, TypeOK, ClaimFiles
<1>2. Write(next, Remaining(done)) /\ claim.token # 0
  BY DEF Ack
<1>3. \A k \in Keys : Loose(item[k], next[k])
  <2> SUFFICES ASSUME NEW k \in Keys PROVE Loose(item[k], next[k])
    OBVIOUS
  <2>1. CASE k \in done
    <3>1. item[k].state = "claimed"
      BY <1>1, <1>2, <2>1 DEF Acknowledgeable, Sane
    <3> QED
      BY <1>1, <2>1, <3>1, DetachedLoose
  <2>2. CASE k \notin done
    BY <1>1, <2>2, Untouched
  <2> QED
    BY <2>1, <2>2
<1>4. next \in [Keys -> Items] /\ \A k \in done \cap Keys : next[k].token = 0
  BY <1>1, <1>3, DetachedType DEF Loose, Sane
<1>5. Remaining(done) = [c1 EXCEPT !.token = IF left = {} THEN 0 ELSE claim.token]
  BY <1>1 DEF Remaining, ClaimFiles
<1>6. c1 \in ClaimFiles /\ c1.gen = claim.gen /\ c1.items = left
  BY <1>1 DEF ClaimFiles
<1> HIDE DEF next, done, c1
<1>7. /\ Remaining(done) \in ClaimFiles /\ Remaining(done).gen = claim.gen
      /\ Remaining(done).items = left
      /\ Remaining(done).token = IF left = {} THEN 0 ELSE claim.token
  BY <1>1, <1>5, <1>6, TokensAreNumbers DEF ClaimFiles
<1>8. item' \in [Keys -> Items] /\ \A k \in Keys : Loose(item[k], item'[k])
  BY <1>1, <1>2, <1>3, <1>4, WriteLoose
<1>9. ClaimKept
  <2>1. CASE claim' = claim
    BY <1>8, <2>1, ClaimLeft
  <2>2. CASE claim' = Remaining(done) /\ item' = next
    <3>1. ASSUME ~unheard, NEW k \in Keys, item'[k].token # 0, item'[k].token = claim.token
          PROVE  k \in left
      BY <1>4, <1>8, <2>2, <3>1 DEF Loose, Same, IInv, Agree, Listed
    <3> QED
      BY <1>1, <1>7, <2>2, <3>1 DEF ClaimKept, Grounded
  <2> QED
    BY <1>1, <1>2, <1>4, <2>1, <2>2, WriteEffect
<1> QED
  BY <1>1, <1>2, <1>4, <1>8, <1>9, WriteEffect DEF LetGo, Ack, Forget, TypeOK

\* release lets go of every item the claim binds.
LEMMA ReleaseLetsGo ==
  ASSUME IInv, Release
  PROVE  LetGo
<1> DEFINE Bound(k) == k \in claim.items /\ item[k].token = claim.token
           next == [k \in Keys |-> IF Bound(k) THEN Detached(item[k], "pending") ELSE item[k]]
<1>1. /\ TypeOK /\ Grounded
      /\ \A k \in Keys : Sane(item[k])
  BY AllSane DEF IInv
<1>2. Write(next, NoClaim) /\ claim.token # 0
  BY DEF Release
<1>3. ASSUME NEW k \in Keys
      PROVE  Loose(item[k], next[k]) /\ (Bound(k) => next[k].token = 0)
  <2>1. CASE Bound(k)
    BY <1>1, <1>2, <2>1, DetachedLoose, DetachedType DEF Sane
  <2>2. CASE ~Bound(k)
    BY <1>1, <2>2, Untouched
  <2> QED
    BY <2>1, <2>2
<1>4. next \in [Keys -> Items]
  BY <1>1, <1>3 DEF Loose, Sane
<1>5. item' \in [Keys -> Items] /\ \A k \in Keys : Loose(item[k], item'[k])
  BY <1>1, <1>2, <1>3, <1>4, WriteLoose
<1>6. ClaimKept
  <2>1. CASE claim' = claim
    BY <1>5, <2>1, ClaimLeft
  <2>2. CASE claim' = NoClaim /\ item' = next
    <3>1. ASSUME ~unheard, NEW k \in Keys, next[k].token # 0
          PROVE  next[k].token # claim.token
      BY <1>3, <3>1 DEF Loose, Same, IInv, Agree, Listed
    <3> QED
      BY <2>2, <3>1, ClaimOver
  <2> QED
    BY <1>1, <1>2, <1>4, <2>1, <2>2, WriteEffect
<1> QED
  BY <1>1, <1>2, <1>4, <1>5, <1>6, WriteEffect DEF LetGo, Release, Forget, TypeOK

\* adopt readdresses what earlier generations left.
LEMMA AdoptLetsGo ==
  ASSUME IInv, Adopt
  PROVE  LetGo
<1> DEFINE next == [k \in Keys |-> IF Left(k) THEN Readdressed(item[k]) ELSE item[k]]
<1>1. /\ TypeOK /\ Grounded
      /\ \A k \in Keys : Sane(item[k])
  BY AllSane DEF IInv
<1>2. Write(next, claim)
  BY DEF Adopt
<1>3. ASSUME NEW k \in Keys
      PROVE  Loose(item[k], next[k])
  BY <1>1, ReaddressedLoose, Untouched DEF Left
<1>4. next \in [Keys -> Items]
  BY <1>1, <1>3 DEF Loose, Sane
<1>5. item' \in [Keys -> Items] /\ \A k \in Keys : Loose(item[k], item'[k])
  BY <1>1, <1>2, <1>3, <1>4, WriteLoose
<1>6. claim' = claim /\ crashes' \in 0..MaxCrashes
  BY <1>1, <1>2, <1>4, WriteEffect
<1>7. ClaimKept
  BY <1>5, <1>6, ClaimLeft
<1> QED
  BY <1>1, <1>5, <1>6, <1>7 DEF LetGo, Adopt, Forget, TypeOK

\* reconcile lets go of an expired claim and of items it no longer binds.
LEMMA ReconcileLetsGo ==
  ASSUME IInv, Reconcile
  PROVE  LetGo
<1> DEFINE given == [k \in Keys |-> GivenBack(k)]
           c == IF Expired THEN NoClaim ELSE claim
           next == [k \in Keys |-> Flagged(given[k])]
<1>1. /\ TypeOK /\ Grounded /\ crashes \in 0..MaxCrashes /\ MaxCrashes \in Nat
      /\ item \in [Keys -> Items]
  BY InboxAssumption DEF IInv, TypeOK
<1>2. ASSUME NEW k \in Keys
      PROVE  Loose(item[k], given[k]) /\ Loose(item[k], next[k]) /\ next[k].token = given[k].token
  <2>1. Same(given[k], next[k])
    BY <1>1, GivenBackLoose, FlaggedSame DEF Loose
  <2> QED
    BY <1>1, <2>1, GivenBackLoose DEF Same
<1>3. given \in [Keys -> Items] /\ next \in [Keys -> Items]
  BY <1>1, <1>2 DEF Loose, Sane
<1>4. ASSUME ~unheard, Expired, NEW k \in Keys, given[k].token # 0
      PROVE  given[k].token # claim.token
  <2> SUFFICES ASSUME given[k].token = claim.token PROVE FALSE
    OBVIOUS
  <2>1. item[k].token = claim.token /\ Sane(item[k])
    BY <1>1, <1>2, <1>4, AllSane DEF Loose, Same
  <2>2. k \in claim.items /\ item[k].state = "claimed"
    BY <1>4, <2>1 DEF IInv, Agree, Listed, Sane
  <2>3. given[k] = Detached(item[k], "pending")
    BY <1>4, <2>1, <2>2 DEF GivenBack
  <2> QED
    BY <1>4, <2>1, <2>3, DetachedType DEF Sane
<1>5. \/ Write(given, c)
      \/ /\ claim' = c /\ crashes' \in 0..MaxCrashes
         /\ item' \in [Keys -> Items] /\ \A k \in Keys : item'[k] \in {given[k], next[k]}
  <2>1. CASE item' = next /\ claim' = c /\ UNCHANGED crashes
    BY <1>1, <1>3, <2>1
  <2>2. CASE /\ crashes > 0 /\ crashes' = crashes - 1 /\ claim' = c
             /\ \E written \in SUBSET Keys :
                   item' = [k \in Keys |-> IF k \in written THEN next[k] ELSE given[k]]
    BY <1>1, <1>3, <2>2
  <2> QED
    BY <2>1, <2>2 DEF Reconcile
<1> HIDE DEF given, next, c
<1>6. /\ item' \in [Keys -> Items] /\ crashes' \in 0..MaxCrashes
      /\ claim' = claim \/ (claim' = c /\ \A k \in Keys : item'[k] \in {given[k], next[k]})
      /\ \A k \in Keys : Loose(item[k], item'[k])
  <2>1. CASE Write(given, c)
    BY <1>1, <1>2, <1>3, <2>1, WriteEffect, WriteLoose
  <2>2. CASE /\ claim' = c /\ crashes' \in 0..MaxCrashes
             /\ item' \in [Keys -> Items] /\ \A k \in Keys : item'[k] \in {given[k], next[k]}
    BY <1>2, <2>2
  <2> QED
    BY <1>5, <2>1, <2>2
<1>7. ClaimKept
  <2>1. CASE claim' = claim
    BY <1>6, <2>1, ClaimLeft
  <2>2. CASE Expired /\ claim' = NoClaim /\ \A k \in Keys : item'[k] \in {given[k], next[k]}
    BY <1>2, <1>4, <2>2, ClaimOver
  <2> QED
    BY <1>6, <2>1, <2>2 DEF c
<1> QED
  BY <1>1, <1>6, <1>7 DEF LetGo, Reconcile, Forget, TypeOK

\* Steps that touch no item.
LEMMA QuietLetsGo ==
  ASSUME IInv, UNCHANGED <<inbox, status, hand, unheard, crashes>>, Meanwhile,
         lapsed \subseteq lapsed', lapsed' \subseteq Tokens
  PROVE  LetGo
<1>1. item' = item /\ claim' = claim /\ \A k \in Keys : Loose(item[k], item'[k])
  BY AllSane, Untouched DEF IInv, inbox
<1>2. item' \in [Keys -> Items] /\ ClaimKept
  BY <1>1, ClaimLeft DEF IInv, TypeOK
<1> QED
  BY <1>1, <1>2 DEF LetGo, IInv, TypeOK

\* The clock only adds to the tokens that have lapsed.
LEMMA LapseLetsGo ==
  ASSUME IInv, NEW t \in Tokens, Lapse(t)
  PROVE  LetGo
<1>1. lapsed' = lapsed \cup {t} /\ lapsed \subseteq Tokens
  BY DEF Lapse, IInv, TypeOK
<1>2. UNCHANGED <<inbox, status, hand, unheard, crashes>> /\ Meanwhile
  BY DEF Lapse, Meanwhile
<1> QED
  BY <1>1, <1>2, QuietLetsGo

\* A hand-over or a hold touches no item.
LEMMA RegistryLetsGo ==
  ASSUME IInv, Registry
  PROVE  LetGo
  BY QuietLetsGo DEF Registry, Meanwhile, IInv, TypeOK

\* A stuttering step changes nothing.
LEMMA StutterLetsGo ==
  ASSUME IInv, UNCHANGED vars
  PROVE  LetGo
  BY QuietLetsGo DEF vars, Meanwhile, IInv, TypeOK

-----------------------------------------------------------------------------
(* Publishing *)

\* A status touches nothing of an item but whether it is covered.
LEMMA OutdatedType ==
  ASSUME NEW x \in Items
  PROVE  /\ Outdated(x) \in Items
         /\ Outdated(x).state = x.state /\ Outdated(x).gen = x.gen
         /\ Outdated(x).revision = x.revision /\ Outdated(x).token = x.token
         /\ Outdated(x).claimed = x.claimed
  BY DEF Outdated, Items

\* A status of its generation covers all that a hand was shown.
LEMMA NotedType ==
  ASSUME NEW h \in Hands
  PROVE  /\ Noted(h) \in Hands
         /\ Noted(h).gen = h.gen /\ Noted(h).token = h.token
         /\ Noted(h).shown = h.shown /\ Noted(h).early = h.early
         /\ h.gen = Generation => \A k \in Keys : h.shown[k] # 0 => k \in Noted(h).covered
  BY DEF Noted, Hands

\* Publishing covers what is claimed and what the hand was shown, and keeps the invariant.
LEMMA PublishKeeps ==
  ASSUME IInv, Publish
  PROVE  IInv'
<1>1. /\ TypeOK /\ Grounded /\ HandFits /\ Agree /\ hand \in Hands
      /\ item \in [Keys -> Items] /\ \A k \in Keys : Sane(item[k])
      /\ UNCHANGED <<claim, lapsed, unheard, reg, crashes>>
      /\ Generation' = Generation
  BY AllSane DEF IInv, TypeOK, Hands, Publish, Generation
<1>2. ASSUME NEW k \in Keys
      PROVE  /\ item'[k] \in Items
             /\ item'[k].state = item[k].state /\ item'[k].gen = item[k].gen
             /\ item'[k].revision = item[k].revision /\ item'[k].token = item[k].token
             /\ item'[k].claimed = item[k].claimed
  BY <1>1, OutdatedType DEF Publish
<1>3. item' \in [Keys -> Items]
  BY <1>2 DEF Publish
<1>4. /\ hand' \in Hands /\ hand'.gen = hand.gen /\ hand'.token = hand.token /\ hand'.shown = hand.shown
      /\ hand.gen = Generation => \A k \in Keys : hand.shown[k] # 0 => k \in hand'.covered
  BY <1>1, NotedType DEF Publish
<1>5. TypeOK'
  <2>1. \A k \in Keys : item'[k].state = "claimed" <=> item'[k].token # 0
    BY <1>1, <1>2 DEF TypeOK
  <2>2. status' \in 0..MaxGeneration
    BY <1>1, GenerationType DEF Publish
  <2> QED
    BY <1>1, <1>3, <1>4, <2>1, <2>2 DEF TypeOK, Hands
<1>6. Grounded' /\ HandFits'
  BY <1>1, <1>2, <1>4 DEF Grounded, HandFits
<1>7. Agree'
  <2> SUFFICES ASSUME ~unheard PROVE hand'.token = claim'.token /\ Listed' /\ Reachable' /\ Shown'
    BY <1>1 DEF Agree
  <2>1. Listed' /\ Reachable'
    BY <1>1, <1>2 DEF Agree, Listed, Reachable
  <2>2. Shown'
    <3> SUFFICES ASSUME NEW k \in Keys, item'[k].token # 0, item'[k].token = hand'.token,
                        item'[k].revision = item'[k].claimed, hand'.gen = Generation'
                 PROVE  hand'.shown[k] = item'[k].revision /\ k \in hand'.covered
      BY DEF Shown
    <3>1. hand.shown[k] = item[k].revision
      BY <1>1, <1>2, <1>4 DEF Agree, Shown
    <3>2. item[k].revision # 0
      <4>1. Sane(item[k]) /\ item[k].token # 0
        BY <1>1, <1>2
      <4> QED
        BY <4>1, InboxAssumption DEF Sane, Items
    <3> QED
      BY <1>1, <1>2, <1>4, <3>1, <3>2
  <2> QED
    BY <1>1, <1>4, <2>1, <2>2 DEF Agree
<1> QED
  BY <1>5, <1>6, <1>7 DEF IInv

-----------------------------------------------------------------------------
(* Claiming *)

BoundTo(x, token, early) ==
    [x EXCEPT !.state = "claimed", !.token = token, !.claimed = x.revision, !.covered = early]

\* y is x under the token, at its present revision.
IsBound(x, y, token, early) ==
    /\ y.state = "claimed" /\ y.token = token /\ y.claimed = x.revision /\ y.covered = early
    /\ y.revision = x.revision /\ y.gen = x.gen

\* What claiming makes of an item.
LEMMA BoundType ==
  ASSUME NEW x \in Items, NEW token \in Tokens, NEW early \in BOOLEAN
  PROVE  BoundTo(x, token, early) \in Items /\ IsBound(x, BoundTo(x, token, early), token, early)
<1> DEFINE x1 == [x EXCEPT !.state = "claimed"]
           x2 == [x1 EXCEPT !.token = token]
           x3 == [x2 EXCEPT !.claimed = x.revision]
           y == [x3 EXCEPT !.covered = early]
<1>1. x1 \in Items /\ x1.state = "claimed" /\ x1.revision = x.revision /\ x1.gen = x.gen
  BY DEF Items
<1>2. /\ x2 \in Items /\ x2.state = "claimed" /\ x2.revision = x.revision /\ x2.gen = x.gen
      /\ x2.token = token
  BY <1>1 DEF Items
<1>3. /\ x3 \in Items /\ x3.state = "claimed" /\ x3.revision = x.revision /\ x3.gen = x.gen
      /\ x3.token = token /\ x3.claimed = x.revision
  BY <1>2 DEF Items
<1>4. /\ y \in Items /\ y.state = "claimed" /\ y.revision = x.revision /\ y.gen = x.gen
      /\ y.token = token /\ y.claimed = x.revision /\ y.covered = early
  BY <1>3 DEF Items
<1>5. BoundTo(x, token, early) = y
  BY DEF BoundTo
<1> QED
  BY <1>4, <1>5 DEF IsBound

Held == IF Reuse THEN claim.items ELSE {}
Token == IF Reuse THEN claim.token ELSE Fresh

\* A claim has the token of the claim it repeats, or a fresh one.
LEMMA TokenOfClaim ==
  ASSUME IInv
  PROVE  /\ Token \in Tokens \ {0} /\ Held \subseteq Keys
         /\ Token \in Live => Reuse
         /\ Reuse => Token = claim.token /\ Held = claim.items /\ claim.gen = Generation
  BY FreshIsUnused DEF IInv, TypeOK, Token, Held, Reuse

\* y is x, unless a status has made it covered.
Aged(x, y, early) ==
    /\ y.state = x.state /\ y.gen = x.gen /\ y.revision = x.revision
    /\ y.token = x.token /\ y.claimed = x.claimed
    /\ y.covered => early \/ x.covered

\* h is the hand, unless a status has covered what it was shown.
AgedHand(h, early) ==
    /\ h \in Hands
    /\ h.gen = hand.gen /\ h.token = hand.token /\ h.shown = hand.shown /\ h.early = hand.early
    /\ IF early
       THEN hand.gen = Generation => \A k \in Keys : hand.shown[k] # 0 => k \in h.covered
       ELSE h = hand

\* A claim, which a status may overtake, binds some items to its token and writes a
\* claim file that lists them.
Claims(early, bound, digest, before, next, c, h) ==
    /\ early \in BOOLEAN /\ AgedHand(h, early)
    /\ bound \subseteq digest /\ digest \subseteq Keys /\ Held \subseteq digest
    /\ before \in [Keys -> Items] /\ \A k \in Keys : Sane(before[k])
    /\ next \in [Keys -> Items] /\ \A k \in Keys : Sane(next[k])
    /\ \A k \in Keys : Aged(item[k], before[k], early)
    /\ \A k \in bound : /\ IsBound(item[k], next[k], Token, early)
                        /\ item[k].gen = Generation /\ item[k].state # "acknowledged"
    /\ \A k \in Keys \ bound : next[k] = before[k]
    /\ c = [token |-> Token, gen |-> Generation, items |-> digest]
    /\ WriteOver(before, next, c)
    /\ \/ /\ crashes' = crashes /\ unheard' = unheard
          /\ hand' = Hand(h, Token, digest, IF early THEN bound ELSE {}, bound)
       \/ unheard' = TRUE /\ Keep
    /\ status' \in 0..MaxGeneration

\* claim binds items of this generation that are not acknowledged, and lists them.
LEMMA ClaimClaims ==
  ASSUME IInv, Claim
  PROVE  \E early, bound, digest, before, next, c, h :
            Claims(early, bound, digest, before, next, c, h)
<1>1. \A k \in Keys : Sane(item[k]) /\ item[k] \in Items
  BY AllSane DEF IInv, Sane
<1> DEFINE Before1(e) == [k \in Keys |-> IF e THEN Outdated(item[k]) ELSE item[k]]
           Next1(e, b) == [k \in Keys |-> IF k \in b THEN BoundTo(item[k], Token, e) ELSE Before1(e)[k]]
           C1(d) == [token |-> Token, gen |-> Generation, items |-> d]
           H1(e) == IF e THEN Noted(hand) ELSE hand
<1>2. PICK early \in BOOLEAN, taken \in SUBSET Mine, again \in SUBSET Mine :
         /\ Fills(Held, taken, again)
         /\ WriteOver(Before1(early), Next1(early, taken \cup again), C1(Held \cup taken))
         /\ \/ /\ crashes' = crashes /\ UNCHANGED unheard
               /\ hand' = Hand(H1(early), Token, Held \cup taken,
                               IF early THEN taken \cup again ELSE {}, taken \cup again)
            \/ unheard' = TRUE /\ Keep
         /\ status' = IF early THEN Generation ELSE status
  BY DEF Claim, Held, Token, BoundTo
<1> DEFINE bound == taken \cup again
           digest == Held \cup taken
           before == Before1(early)
           next == Next1(early, bound)
           h == H1(early)
<1>3. taken \subseteq Mine /\ again \subseteq Mine /\ Mine \subseteq Keys
  BY <1>2 DEF Mine
<1>4. taken \subseteq {k \in Mine : Available(k)} /\ again \subseteq {k \in Mine : Available(k)} \cap Held
  BY <1>2 DEF Fills
<1>5. bound \subseteq digest /\ digest \subseteq Keys /\ Held \subseteq digest
  BY <1>3, <1>4, TokenOfClaim
<1>6. ASSUME NEW k \in bound
      PROVE  /\ k \in Keys /\ item[k].gen = Generation
             /\ item[k].state # "absent" /\ item[k].state # "acknowledged"
             /\ next[k] \in Items /\ IsBound(item[k], next[k], Token, early)
  <2>1. k \in Keys /\ Available(k) /\ item[k].gen = Generation /\ item[k].state # "absent"
    BY <1>3, <1>4 DEF Mine
  <2>2. item[k].state # "acknowledged"
    BY <2>1 DEF Available
  <2>3. next[k] = BoundTo(item[k], Token, early)
    BY <2>1
  <2> QED
    BY <1>1, <2>1, <2>2, <2>3, BoundType, TokenOfClaim
<1>7. \A k \in Keys \ bound : next[k] = before[k]
  OBVIOUS
<1>8. before \in [Keys -> Items] /\ \A k \in Keys : Sane(before[k]) /\ Aged(item[k], before[k], early)
  <2>1. CASE early
    <3>1. ASSUME NEW k \in Keys
          PROVE  before[k] \in Items /\ Sane(before[k]) /\ Aged(item[k], before[k], early)
      <4>1. before[k] = Outdated(item[k]) /\ item[k] \in Items /\ Sane(item[k])
        BY <1>1, <2>1
      <4> HIDE DEF before
      <4> QED
        BY <2>1, <4>1, OutdatedType DEF Sane, Aged
    <3> QED
      BY <3>1
  <2>2. CASE ~early
    <3>1. ASSUME NEW k \in Keys
          PROVE  before[k] = item[k]
      BY <2>2
    <3>2. before \in [Keys -> Items]
      BY <1>1, <3>1
    <3> HIDE DEF before
    <3> QED
      BY <1>1, <3>1, <3>2 DEF Aged
  <2> QED
    BY <2>1, <2>2
<1>9. AgedHand(h, early) /\ status' \in 0..MaxGeneration
  <2>1. hand \in Hands /\ status \in 0..MaxGeneration /\ Generation \in 0..MaxGeneration
    BY GenerationType DEF IInv, TypeOK, Hands
  <2>2. CASE early
    BY <1>2, <2>1, <2>2, NotedType DEF AgedHand
  <2>3. CASE ~early
    BY <1>2, <2>1, <2>3 DEF AgedHand
  <2> QED
    BY <2>2, <2>3
<1>10. next \in [Keys -> Items]
  <2>1. \A k \in Keys : next[k] \in Items
    BY <1>6, <1>7, <1>8
  <2> QED
    BY <2>1
<1> HIDE DEF next, before, h
<1>11. ASSUME NEW k \in Keys PROVE Sane(next[k])
  <2>1. CASE k \in bound
    <3>1. /\ next[k] \in Items /\ IsBound(item[k], next[k], Token, early) /\ item[k].state # "absent"
          /\ Sane(item[k]) /\ Token # 0
      BY <1>1, <1>6, <2>1, TokenOfClaim
    <3> QED
      BY <3>1 DEF Sane, IsBound
  <2>2. CASE k \notin bound
    BY <1>7, <1>8, <2>2
  <2> QED
    BY <2>1, <2>2
<1>12. Claims(early, bound, digest, before, next, C1(digest), h)
  <2>1. /\ WriteOver(before, next, C1(digest))
        /\ \/ /\ crashes' = crashes /\ unheard' = unheard
              /\ hand' = Hand(h, Token, digest, IF early THEN bound ELSE {}, bound)
           \/ unheard' = TRUE /\ Keep
    BY <1>2 DEF next, before, h
  <2> QED
    BY <1>2, <1>5, <1>6, <1>7, <1>8, <1>9, <1>10, <1>11, <2>1 DEF Claims
<1> QED
  BY <1>12

\* The digest a coordinator is handed has its shape.
LEMMA HandType ==
  ASSUME TypeOK, NEW h \in Hands, NEW token \in Tokens, NEW digest \in SUBSET Keys,
         NEW overtaken \in SUBSET Keys, NEW bound
  PROVE  Hand(h, token, digest, overtaken, bound) \in Hands
<1> DEFINE shown == [k \in Keys |-> IF k \in digest THEN item[k].revision ELSE 0]
<1>1. shown \in [Keys -> 0..MaxRevision]
  BY InboxAssumption DEF TypeOK, Items
<1>2. \A x : /\ {k \in h.covered : h.token = token /\ x[k] = h.shown[k]} \subseteq Keys
             /\ overtaken \cup {k \in h.early \ bound : h.token = token /\ x[k] = h.shown[k]} \subseteq Keys
  BY DEF Hands
<1> QED
  BY <1>1, <1>2, GenerationType DEF Hand, Hands

\* claim keeps types and groundedness.
LEMMA ClaimType ==
  ASSUME IInv, Claim
  PROVE  TypeOK' /\ Grounded' /\ HandFits'
<1>1. PICK early, bound, digest, before, next, c, h : Claims(early, bound, digest, before, next, c, h)
  BY ClaimClaims
<1>2. /\ TypeOK /\ HandFits /\ Meanwhile /\ Forget /\ status' \in 0..MaxGeneration /\ unheard \in BOOLEAN
      /\ claim.gen <= Generation /\ hand \in Hands /\ claim \in ClaimFiles
  BY <1>1 DEF IInv, Claim, Claims, TypeOK, Grounded, Hands, ClaimFiles
<1>3. /\ item' \in [Keys -> Items] /\ crashes' \in 0..MaxCrashes
      /\ claim' = claim \/ claim' = c
      /\ crashes' = crashes => claim' = c
      /\ \A k \in Keys : item'[k] = before[k] \/ item'[k] = next[k]
  BY <1>1, <1>2, WriteOverEffect DEF Claims
<1>4. \A k \in Keys : Sane(item'[k])
  BY <1>1, <1>3 DEF Claims
<1>5. c \in ClaimFiles /\ c.token = Token /\ c.gen = Generation
  BY <1>1, <1>2, GenerationType, TokenOfClaim DEF Claims, ClaimFiles
<1>6. reg' \in Registries /\ Generation' \in Generations /\ Generation' \in Nat /\ Generation' >= Generation
  BY <1>2, RegistryStep
<1>7. claim' \in ClaimFiles /\ claim'.gen <= Generation
  BY <1>2, <1>3, <1>5, GenerationType
<1>8. hand' \in Hands /\ HandFits'
  <2>1. CASE /\ crashes' = crashes
             /\ hand' = Hand(h, Token, digest, IF early THEN bound ELSE {}, bound)
    <3>1. hand'.gen = Generation /\ hand'.token = Token
      BY <2>1 DEF Hand
    <3>2. /\ digest \in SUBSET Keys /\ Token \in Tokens /\ h \in Hands
          /\ (IF early THEN bound ELSE {}) \in SUBSET Keys
      BY <1>1, TokenOfClaim DEF Claims, AgedHand
    <3> QED
      BY <1>2, <1>3, <1>5, <2>1, <3>1, <3>2, HandType DEF HandFits
  <2>2. CASE Keep
    <3>1. CASE hand' = hand /\ hand.token = claim'.token
      <4>1. CASE claim' = claim
        BY <1>2, <3>1, <4>1 DEF HandFits
      <4>2. CASE claim' = c
        <5>1. Token # 0 /\ hand.token = Token
          BY <1>5, <3>1, <4>2, TokenOfClaim
        <5>2. hand.token = claim.token /\ hand.gen = claim.gen
          BY <1>2, <5>1 DEF HandFits
        <5>3. Token \in Live
          BY <5>1, <5>2 DEF Live
        <5> QED
          BY <1>2, <1>5, <3>1, <4>2, <5>2, <5>3, TokenOfClaim DEF HandFits
      <4> QED
        BY <1>3, <4>1, <4>2
    <3>2. CASE hand' = NoHand
      BY <3>2, NoHandType DEF HandFits
    <3> QED
      BY <2>2, <3>1, <3>2 DEF Keep
  <2> QED
    BY <1>1, <2>1, <2>2 DEF Claims
<1>9. lapsed' \subseteq Tokens /\ unheard' \in BOOLEAN
  BY <1>1, <1>2 DEF Forget, TypeOK, Claims
<1>10. Grounded'
  <2>1. \A k \in Keys : item'[k].gen <= Generation'
    BY <1>4, <1>6, GenerationType, <1>2 DEF Sane, Items
  <2>2. claim'.gen <= Generation'
    BY <1>2, <1>6, <1>7, GenerationType DEF ClaimFiles
  <2> QED
    BY <1>4, <2>1, <2>2 DEF Grounded, Sane
<1>11. TypeOK'
  BY <1>2, <1>3, <1>4, <1>6, <1>7, <1>8, <1>9 DEF TypeOK, ClaimFiles, Registries, Hands, Sane
<1> QED
  BY <1>8, <1>10, <1>11

\* claim leaves items, claim file and hand in agreement, or is not heard.
LEMMA ClaimAgree ==
  ASSUME IInv, Claim
  PROVE  Agree'
<1> SUFFICES ASSUME ~unheard' PROVE hand'.token = claim'.token /\ Listed' /\ Reachable' /\ Shown'
  BY DEF Agree
<1>1. PICK early, bound, digest, before, next, c, h : Claims(early, bound, digest, before, next, c, h)
  BY ClaimClaims
<1>2. /\ TypeOK /\ HandFits /\ Meanwhile /\ Forget
  BY DEF IInv, Claim
<1>3. /\ crashes' = crashes /\ ~unheard
      /\ hand' = Hand(h, Token, digest, IF early THEN bound ELSE {}, bound)
  BY <1>1 DEF Claims
<1>4. item' = next /\ claim' = c
  BY <1>1, <1>2, <1>3, WriteOverEffect DEF Claims
<1>5. /\ c.token = Token /\ c.gen = Generation /\ c.items = digest
      /\ bound \subseteq digest /\ digest \subseteq Keys /\ Held \subseteq digest
      /\ \A k \in bound : IsBound(item[k], item'[k], Token, early) /\ item[k].gen = Generation
      /\ \A k \in Keys \ bound : Aged(item[k], item'[k], early)
      /\ AgedHand(h, early)
  BY <1>1, <1>4 DEF Claims
<1>6. hand.token = claim.token /\ Listed /\ Reachable /\ Shown
  BY <1>3 DEF IInv, Agree
<1>7. /\ Token # 0
      /\ Token \in Live => Reuse
      /\ Reuse => Token = claim.token /\ Held = claim.items /\ claim.gen = Generation
  BY TokenOfClaim
<1>8. ASSUME NEW k \in Keys \ bound, item[k].token = Token
      PROVE  Reuse /\ claim.token = Token /\ k \in digest /\ item[k].gen = Generation
  <2>1. Token \in Live
    BY <1>8 DEF Live
  <2> QED
    BY <1>5, <1>6, <1>7, <1>8, <2>1 DEF Listed
<1>9. hand'.token = Token /\ hand'.gen = Generation
  BY <1>3 DEF Hand
<1>10. Listed'
  <2> SUFFICES ASSUME NEW k \in Keys, item'[k].token = Token
               PROVE  k \in digest /\ item'[k].gen = Generation
    BY <1>4, <1>5 DEF Listed
  <2> QED
    BY <1>5, <1>8 DEF IsBound, Aged
<1>11. Reachable'
  <2> SUFFICES ASSUME NEW k \in Keys, item'[k].token # 0, item'[k].gen = Generation'
               PROVE  item'[k].token \in lapsed' \cup {Token}
    BY <1>4, <1>5 DEF Reachable
  <2>1. CASE k \in bound
    BY <1>5, <2>1 DEF IsBound
  <2>2. CASE k \notin bound
    <3>1. item'[k].gen = item[k].gen /\ item'[k].token = item[k].token /\ item'[k].token \in Live'
      BY <1>5, <2>2 DEF Live, Aged
    <3>2. Generation' >= Generation /\ Generation' \in Nat /\ Generation \in Nat
      BY <1>2, RegistryStep, GenerationType
    <3>3. item[k].gen <= Generation /\ item[k].gen \in Nat
      BY <1>2, InboxAssumption DEF IInv, Grounded, TypeOK, Items
    <3>4. item[k].gen = Generation
      BY <3>1, <3>2, <3>3
    <3>5. item[k].token \in lapsed \cup {claim.token}
      BY <1>6, <3>1, <3>4 DEF Reachable
    <3>6. CASE item[k].token \in lapsed
      BY <1>2, <3>1, <3>6 DEF Forget
    <3>7. CASE item[k].token = claim.token /\ claim.token \notin lapsed
      <4>1. claim.gen = Generation /\ claim.token # 0
        BY <1>6, <3>1, <3>4, <3>7 DEF Listed
      <4>2. Reuse
        BY <3>7, <4>1 DEF Reuse
      <4> QED
        BY <1>7, <3>1, <3>7, <4>2
    <3> QED
      BY <3>5, <3>6, <3>7
  <2> QED
    BY <2>1, <2>2
<1>12. Shown'
  <2> SUFFICES ASSUME NEW k \in Keys, item'[k].token = Token, item'[k].revision = item'[k].claimed
               PROVE  /\ hand'.shown[k] = item'[k].revision
                      /\ item'[k].covered => k \in hand'.covered \cup hand'.early
    BY <1>9 DEF Shown
  <2> DEFINE shown == [q \in Keys |-> IF q \in digest THEN item[q].revision ELSE 0]
  <2>1. /\ hand'.shown = shown
        /\ hand'.covered = {q \in h.covered : h.token = Token /\ shown[q] = h.shown[q]}
        /\ hand'.early = (IF early THEN bound ELSE {}) \cup
                             {q \in h.early \ bound : h.token = Token /\ shown[q] = h.shown[q]}
    BY <1>3 DEF Hand
  <2>2. CASE k \in bound
    BY <1>5, <2>1, <2>2 DEF IsBound
  <2>3. CASE k \notin bound
    <3>1. /\ Aged(item[k], item'[k], early) /\ item[k].token = Token
          /\ Reuse /\ claim.token = Token /\ k \in digest
      BY <1>5, <1>8, <2>3 DEF Aged
    <3>2. hand'.shown[k] = item'[k].revision /\ shown[k] = item[k].revision
      BY <2>1, <3>1 DEF Aged
    <3>3. hand.gen = Generation
      BY <1>2, <1>6, <1>7, <3>1 DEF HandFits
    <3>4. /\ hand.shown[k] = item[k].revision
          /\ item[k].covered => k \in hand.covered \cup hand.early
      BY <1>6, <1>7, <3>1, <3>3 DEF Shown, Aged
    <3>5. item[k].revision # 0
      <4>1. Sane(item[k]) /\ item[k].token # 0
        BY <1>2, <1>7, <3>1, AllSane DEF IInv
      <4> QED
        BY <4>1, InboxAssumption DEF Sane, Items
    <3>6. h.token = Token /\ shown[k] = h.shown[k] /\ h.early = hand.early
      BY <1>5, <1>6, <3>1, <3>2, <3>4 DEF AgedHand
    <3>7. item'[k].covered => k \in h.covered \cup h.early
      <4>1. CASE early
        BY <1>5, <3>3, <3>4, <3>5, <4>1 DEF AgedHand
      <4>2. CASE ~early
        BY <1>5, <3>1, <3>4, <4>2 DEF AgedHand, Aged
      <4> QED
        BY <4>1, <4>2
    <3> HIDE DEF shown
    <3>8. item'[k].covered => k \in hand'.covered \cup hand'.early
      BY <2>1, <2>3, <3>6, <3>7
    <3> QED
      BY <3>2, <3>8
  <2> QED
    BY <2>2, <2>3
<1> QED
  BY <1>4, <1>5, <1>9, <1>10, <1>11, <1>12

-----------------------------------------------------------------------------
(* The invariant *)

\* The invariant holds before anything was submitted.
LEMMA InitIInv == Init => IInv
<1> SUFFICES ASSUME Init PROVE IInv
  OBVIOUS
<1>1. 0 \in Tokens /\ 0 \in 0..MaxGeneration /\ 0 \in 0..MaxRevision /\ MaxCrashes \in 0..MaxCrashes
  BY TokensAreNumbers, InboxAssumption
<1>2. NoItem \in Items /\ NoItem.token = 0 /\ NoItem.state = "absent" /\ NoItem.gen = 0
  BY <1>1 DEF NoItem, Items
<1>3. \A k \in Keys : item[k] = NoItem
  BY DEF Init
<1>4. NoClaim \in ClaimFiles /\ NoClaim.token = 0 /\ NoClaim.gen = 0
  BY <1>1 DEF NoClaim, ClaimFiles
<1>5. reg \in Registries /\ Generation = 1 /\ 1 \in 1..MaxGeneration
  BY InboxAssumption DEF Init, Registries, Generation
<1>6. TypeOK
  <2>1. item \in [Keys -> Items]
    BY <1>2 DEF Init
  <2>2. \A k \in Keys : item[k].state = "claimed" <=> item[k].token # 0
    BY <1>2, <1>3
  <2> QED
    BY <1>1, <1>4, <1>5, <2>1, <2>2, NoHandType DEF Init, TypeOK, ClaimFiles, Hands, Registries, Generations
<1>7. Grounded /\ HandFits /\ Agree
  <2>1. hand = NoHand /\ NoHand.token = 0 /\ claim = NoClaim
    BY NoHandType DEF Init
  <2>2. Grounded
    BY <1>2, <1>3, <1>4, <1>5, <2>1 DEF Grounded
  <2>3. Listed /\ Reachable /\ Shown
    BY <1>2, <1>3 DEF Listed, Reachable, Shown
  <2> QED
    BY <1>4, <2>1, <2>2, <2>3 DEF HandFits, Agree
<1> QED
  BY <1>6, <1>7 DEF IInv

\* Every step lets go of items, publishes or claims.
LEMMA Steps ==
  ASSUME IInv, [Next]_vars
  PROVE  LetGo \/ Publish \/ Claim
<1>1. CASE \E r \in Reports : Submit(r)
  BY <1>1, SubmitLetsGo
<1>2. CASE \E requested \in SUBSET claim.items : requested # {} /\ Ack(requested)
  BY <1>2, AckLetsGo
<1>3. CASE Release
  BY <1>3, ReleaseLetsGo
<1>4. CASE Adopt
  BY <1>4, AdoptLetsGo
<1>5. CASE Reconcile
  BY <1>5, ReconcileLetsGo
<1>6. CASE \E t \in Tokens : Lapse(t)
  BY <1>6, LapseLetsGo
<1>7. CASE Registry
  BY <1>7, RegistryLetsGo
<1>8. CASE UNCHANGED vars
  BY <1>8, StutterLetsGo
<1> QED
  BY <1>1, <1>2, <1>3, <1>4, <1>5, <1>6, <1>7, <1>8 DEF Next

\* Every step keeps the invariant.
LEMMA NextIInv ==
  ASSUME IInv, [Next]_vars
  PROVE  IInv'
<1>1. CASE LetGo
  BY <1>1, LetGoIInv
<1>2. CASE Publish
  BY <1>2, PublishKeeps
<1>3. CASE Claim
  BY <1>3, ClaimType, ClaimAgree DEF IInv
<1> QED
  BY <1>1, <1>2, <1>3, Steps

\* The inductive invariant holds in every reachable state.
LEMMA InvariantIInv == Spec => []IInv
<1>1. Init => IInv
  BY InitIInv
<1>2. IInv /\ [Next]_vars => IInv'
  BY NextIInv
<1> QED
  BY <1>1, <1>2, PTL DEF Spec

-----------------------------------------------------------------------------
(* What becomes of acknowledged reports *)

\* An acknowledged item stays so, or a newer revision replaces it.
LEMMA FinalStep ==
  ASSUME IInv, [Next]_vars, NEW k \in Keys, Acknowledged(k)
  PROVE  Acknowledged(k)' \/ item'[k].revision > item[k].revision
<1>1. CASE LetGo
  BY <1>1 DEF LetGo, Loose, Acknowledged
<1>2. CASE Publish
  BY <1>2, OutdatedType DEF Publish, Acknowledged, IInv, TypeOK
<1>3. CASE Claim
  <2>1. PICK early, bound, digest, before, next, c, h : Claims(early, bound, digest, before, next, c, h)
    BY <1>3, ClaimClaims
  <2>2. next[k] = before[k] /\ before[k].state = item[k].state
    BY <2>1 DEF Claims, Acknowledged, Aged
  <2>3. item'[k] = before[k] \/ item'[k] = next[k]
    BY <2>1, WriteOverEffect DEF Claims, IInv
  <2> QED
    BY <2>2, <2>3 DEF Acknowledged
<1> QED
  BY <1>1, <1>2, <1>3, Steps

\* An item becomes acknowledged by ack only.
LEMMA OnlyAckAcknowledges ==
  ASSUME IInv, [Next]_vars, NEW k \in Keys, ~Acknowledged(k), Acknowledged(k)'
  PROVE  \E requested \in SUBSET claim.items : Ack(requested)
<1>1. TypeOK /\ Grounded /\ item[k].state # "acknowledged" /\ item'[k].state = "acknowledged"
      /\ Sane(item[k]) /\ item \in [Keys -> Items]
  BY AllSane DEF IInv, Acknowledged, TypeOK
<1>2. ~\E r \in Reports : Submit(r)
  <2> SUFFICES ASSUME NEW r \in Reports, Submit(r) PROVE FALSE
    OBVIOUS
  <2> DEFINE q == <<Generation, r>>
             new == [NoItem EXCEPT !.state = "pending", !.gen = Generation, !.revision = 1]
  <2>1. PICK y : Put(q, y) /\ y.state = "pending"
    <3>1. CASE Put(q, new)
      <4>1. new.state = "pending"
        BY DEF NoItem
      <4> QED
        BY <3>1, <4>1
    <3>2. CASE q \in Keys /\ item[q].state # "absent" /\ item[q].revision < MaxRevision /\ Put(q, Revised(item[q]))
      BY <1>1, <3>2, AllSane, SubmittedLoose
    <3>3. q \in Keys
      BY <1>1 DEF Keys, TypeOK
    <3> QED
      BY <3>1, <3>2, <3>3 DEF Submit
  <2> HIDE DEF q
  <2> QED
    BY <1>1, <2>1 DEF Put
<1>3. ~Claim
  <2> SUFFICES ASSUME Claim PROVE FALSE
    OBVIOUS
  <2>1. PICK early, bound, digest, before, next, c, h : Claims(early, bound, digest, before, next, c, h)
    BY ClaimClaims
  <2>2. next[k].state # "acknowledged" /\ before[k].state # "acknowledged"
    BY <1>1, <2>1 DEF Claims, IsBound, Aged
  <2>3. item'[k] = before[k] \/ item'[k] = next[k]
    BY <1>1, <2>1, WriteOverEffect DEF Claims
  <2> QED
    BY <1>1, <2>2, <2>3
<1>4. ~Release
  <2> SUFFICES ASSUME Release PROVE FALSE
    OBVIOUS
  <2> DEFINE next == [q \in Keys |-> IF q \in claim.items /\ item[q].token = claim.token
                                     THEN Detached(item[q], "pending") ELSE item[q]]
  <2>1. Write(next, NoClaim)
    BY DEF Release
  <2>2. next \in [Keys -> Items] /\ next[k].state # "acknowledged"
    BY <1>1, DetachedType
  <2> HIDE DEF next
  <2>3. item'[k] = item[k] \/ item'[k] = next[k]
    BY <1>1, <2>1, <2>2, WriteEffect
  <2> QED
    BY <1>1, <2>2, <2>3
<1>5. ~Adopt
  <2> SUFFICES ASSUME Adopt PROVE FALSE
    OBVIOUS
  <2> DEFINE next == [q \in Keys |-> IF Left(q) THEN Readdressed(item[q]) ELSE item[q]]
  <2>1. Write(next, claim)
    BY DEF Adopt
  <2>2. \A q \in Keys : Loose(item[q], next[q])
    BY <1>1, AllSane, ReaddressedLoose, Untouched DEF Left
  <2>3. next \in [Keys -> Items] /\ next[k].state # "acknowledged"
    BY <1>1, <2>2, ReaddressedLoose DEF Left, Loose, Sane
  <2> HIDE DEF next
  <2>4. item'[k] = item[k] \/ item'[k] = next[k]
    BY <1>1, <2>1, <2>3, WriteEffect
  <2> QED
    BY <1>1, <2>3, <2>4
<1>6. ~Reconcile
  <2> SUFFICES ASSUME Reconcile PROVE FALSE
    OBVIOUS
  <2> DEFINE given == [q \in Keys |-> GivenBack(q)]
             next == [q \in Keys |-> Flagged(given[q])]
             c == IF Expired THEN NoClaim ELSE claim
  <2>1. given \in [Keys -> Items] /\ given[k].state # "acknowledged" /\ next[k].state # "acknowledged"
    BY <1>1, GivenBackLoose DEF Loose, Sane
  <2>2. \/ Write(given, c)
        \/ item'[k] \in {given[k], next[k]}
    BY DEF Reconcile
  <2> HIDE DEF given, next, c
  <2>3. item'[k] \in {item[k], given[k], next[k]}
    BY <1>1, <2>1, <2>2, WriteEffect
  <2> QED
    BY <1>1, <2>1, <2>3
<1>7. ~Publish
  BY <1>1, OutdatedType DEF Publish
<1>8. ~Registry /\ ~(\E t \in Tokens : Lapse(t)) /\ ~UNCHANGED vars
  BY <1>1 DEF Registry, Lapse, vars, inbox
<1> QED
  BY <1>2, <1>3, <1>4, <1>5, <1>6, <1>7, <1>8 DEF Next

\* A step that acknowledges an item acknowledges what was shown.
LEMMA ShownStep ==
  ASSUME IInv, [Next]_vars, NEW k \in Keys, ~Acknowledged(k), Acknowledged(k)'
  PROVE  /\ hand.gen = Generation
         /\ ~unheard => hand.shown[k] = item[k].revision /\ k \in hand.covered \cup hand.early
<1>1. PICK requested \in SUBSET claim.items : Ack(requested)
  BY OnlyAckAcknowledges
<1> DEFINE done == {q \in requested \cap claim.items : Acknowledgeable(q)}
           next == [q \in Keys |-> IF q \in done THEN Detached(item[q], "acknowledged") ELSE item[q]]
<1>2. /\ Write(next, Remaining(done))
      /\ claim.token # 0 /\ claim.token = hand.token /\ claim.gen = Generation
  BY <1>1 DEF Ack
<1>3. hand.gen = Generation
  BY <1>2 DEF IInv, HandFits
<1>4. k \in done
  <2> SUFFICES ASSUME k \notin done PROVE FALSE
    OBVIOUS
  <2>1. next \in [Keys -> Items] /\ next[k] = item[k]
    BY DetachedType DEF IInv, TypeOK
  <2> HIDE DEF next, done
  <2>2. item'[k] = item[k] \/ item'[k] = next[k]
    BY <1>2, <2>1, WriteEffect DEF IInv
  <2> QED
    BY <2>1, <2>2 DEF Acknowledged
<1> QED
  BY <1>2, <1>3, <1>4 DEF Acknowledgeable, IInv, Agree, Shown

-----------------------------------------------------------------------------
(* Theorems *)

\* Items, claim file and digest keep their shape, and an item carries a token exactly
\* while it is claimed (the records that every command of coordinator-inbox.py writes).
THEOREM TypeCorrect == Spec => []TypeOK
  BY InvariantIInv, PTL DEF IInv

\* No report is stuck, whatever command dies between two writes but a claim: what is
\* claimed can be claimed again, or is in the claim that can be acknowledged, unless
\* a claim has died (unheard; cmd_claim, cmd_ack, cmd_release, cmd_adopt, cmd_reconcile).
THEOREM NothingIsStuck == Spec => []NothingInLimbo
<1>1. IInv => NothingInLimbo
  BY DEF IInv, TypeOK, Agree, Listed, Reachable, NothingInLimbo, Mine, Available
<1> QED
  BY <1>1, InvariantIInv, PTL

\* What cmd_ack acknowledges was shown at this revision to the coordinator of this
\* generation and is covered by a status published since, unless a claim has died
\* (unheard) or the status overtook the claim that showed it (early).
THEOREM AcknowledgedWasShown == Spec => AckedWasShown
<1>1. IInv /\ [Next]_vars =>
        [\A k \in Keys :
            ~Acknowledged(k) /\ Acknowledged(k)' =>
                /\ hand.gen = Generation
                /\ ~unheard => hand.shown[k] = item[k].revision /\ k \in hand.covered \cup hand.early]_vars
  BY ShownStep
<1> QED
  BY <1>1, InvariantIInv, PTL DEF Spec, AckedWasShown

\* An acknowledged report is opened again by a newer revision only (cmd_submit), not
\* by a crash, a claim, an adoption or a sweep.
THEOREM AcknowledgedIsFinal == Spec => AckIsFinal
<1>1. IInv /\ [Next]_vars =>
        [\A k \in Keys :
            Acknowledged(k) => Acknowledged(k)' \/ item'[k].revision > item[k].revision]_vars
  BY FinalStep
<1> QED
  BY <1>1, InvariantIInv, PTL DEF Spec, AckIsFinal

=================================================================================
