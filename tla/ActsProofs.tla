------------------------------ MODULE ActsProofs ------------------------------
(***************************************************************************)
(* Proofs about what the covered acts leave behind.  Rules: the outcome of *)
(* a past decision stands.  Verification: the ledger of receipts agrees    *)
(* with the rows, so that the verdict is right.  And the composition: the  *)
(* instance for TLC behaves as its parts do, so that these theorems and    *)
(* those about bindings and receipts hold of it.                           *)
(***************************************************************************)
EXTENDS MCActs, FiscalScopeProofs, WellFoundedInduction, TLAPS

all == <<binding, batching, signing, verifying, ruling, part>>

-----------------------------------------------------------------------------
(* The composition *)

\* The part stays.
LEMMA PartStays == \A p : part = p /\ [MCNext]_all => (part = p)'
  BY DEF MCNext, BindingPart, BatchPart, EnforcedPart, SigningPart, RotationPart,
         VerificationPart, RulePart, all

\* Whatever the part, bindings, verification and rules behave as their modules say.
THEOREM PartsRun == MCSpec => Spec /\ V!Spec /\ L!Spec
<1>1. MCInit => Init /\ V!Init /\ L!Init
  BY DEF MCInit
<1>2. [MCNext]_all => [Next]_vars /\ [V!Next]_V!vars /\ [L!Next]_L!vars
  BY DEF MCNext, BindingPart, BatchPart, EnforcedPart, SigningPart, RotationPart,
         VerificationPart, RulePart, all, binding, verifying, ruling, vars, V!vars, L!vars
<1>. QED  BY <1>1, <1>2, PTL DEF MCSpec, Spec, V!Spec, L!Spec, all

\* Batches and enforced bindings share their tables.
LEMMA BatchesRun == MCSpec => /\ part = "enforced" => E!Spec
                              /\ part # "enforced" => B!Spec
<1>. DEFINE P == part = "enforced"
<1>1. /\ MCInit => B!Init /\ E!Init
      /\ P /\ [MCNext]_all => P' /\ [E!Next]_E!vars
      /\ ~P /\ [MCNext]_all => ~P' /\ [B!Next]_B!vars
  BY DEF MCInit, B!Init, E!Init, MCNext, BindingPart, BatchPart, EnforcedPart, SigningPart, RotationPart,
         VerificationPart, RulePart, all, batching, B!vars, E!vars
<1>. HIDE DEF P
<1>2. MCSpec /\ P => E!Spec
  BY <1>1, PTL DEF MCSpec, E!Spec, all
<1>3. MCSpec /\ ~P => B!Spec
  BY <1>1, PTL DEF MCSpec, B!Spec, all
<1>. QED  BY <1>2, <1>3 DEF P

\* One rotation and two at once share the ledger, the keys and the file.
LEMMA SigningRuns == MCSpec => /\ part = "rotations" => T!Spec
                               /\ part # "rotations" => S!Spec
<1>. DEFINE P == part = "rotations"
<1>1. /\ MCInit /\ P => T!Init
      /\ MCInit /\ ~P => S!Init
  BY DEF MCInit
<1>2. /\ P /\ [MCNext]_all => P' /\ [T!Next]_T!vars
      /\ ~P /\ [MCNext]_all => ~P' /\ [S!Next]_S!vars
  BY DEF MCNext, BindingPart, BatchPart, EnforcedPart, SigningPart, RotationPart,
         VerificationPart, RulePart, all, signing, S!vars, T!vars
<1>. HIDE DEF P
<1>3. MCSpec /\ P => T!Spec
  BY <1>1, <1>2, PTL DEF MCSpec, T!Spec, all
<1>4. MCSpec /\ ~P => S!Spec
  BY <1>1, <1>2, PTL DEF MCSpec, S!Spec, all
<1>. QED  BY <1>3, <1>4 DEF P

\* Signing survives the rotation of the instance.
THEOREM SigningHoldsHere == MCSpec => []SigningSurvives
<1>. DEFINE P == part = "signing"
<1>1. S!OneRotation
  BY DEF S!OneRotation
<1>2. S!Spec => []S!SigningSurvives
  BY <1>1, PartsAssumption, S!SigningHolds
<1>3. MCSpec /\ P => []S!SigningSurvives
  BY <1>2, SigningRuns
<1>4. ~P /\ [MCNext]_all => ~P'
  BY DEF MCNext, BindingPart, BatchPart, EnforcedPart, SigningPart, RotationPart,
         VerificationPart, RulePart, all
<1>. HIDE DEF P
<1>5. MCSpec /\ ~P => []~P
  BY <1>4, PTL DEF MCSpec, all
<1>6. MCSpec => [](P => S!SigningSurvives)
  BY <1>3, <1>5, PTL
<1>. QED  BY <1>6, PTL DEF SigningSurvives, P

\* The store signs nothing with a key it has revoked, also with two rotations at once.
THEOREM RevokedKeysStayOut == MCSpec => RevokedKeySignsNothing
<1>1. T!Spec => T!RevokedKeySignsNothing
  BY PartsAssumption, T!RevokedKeysSignNothing
<1>2. S!Spec => S!RevokedKeySignsNothing
  BY PartsAssumption, S!RevokedKeysSignNothing
<1>3. S!RevokedKeySignsNothing <=> T!RevokedKeySignsNothing
  BY DEF S!RevokedKeySignsNothing, T!RevokedKeySignsNothing, S!Never, T!Never, S!vars, T!vars
<1>. QED  BY <1>1, <1>2, <1>3, SigningRuns DEF RevokedKeySignsNothing

\* A guarded act on a bound memory is linked, alone and in a batch, and a store that
\* only enforcing handles write has no unbound subject.
THEOREM ActsLink == MCSpec => []ActsAreLinked
<1>. DEFINE P == part = "enforced"
<1>0. E!FiscalScopeAssumption /\ B!FiscalScopeAssumption
  BY FiscalScopeAssumption DEF RuntimeModes, E!FiscalScopeAssumption, E!RuntimeModes,
     B!FiscalScopeAssumption, B!RuntimeModes
<1>1. E!Spec => []E!EnforceBindsEverything
  BY <1>0, E!EnforcedStoresAreBound
<1>2. (E!Spec => []E!GuardedActsAreLinked) /\ (B!Spec => []B!GuardedActsAreLinked)
  BY <1>0, E!GuardedActsLink, B!GuardedActsLink
<1>3. E!GuardedActsAreLinked => B!GuardedActsAreLinked
  <2>1. \A i, act : E!Recorded(i, act) <=> B!Recorded(i, act)
    BY DEF E!Recorded, B!Recorded
  <2>2. \A b, r : E!ActEvidence(b, r) = B!ActEvidence(b, r)
    BY DEF E!ActEvidence, B!ActEvidence
  <2>. QED  BY <2>1, <2>2 DEF E!GuardedActsAreLinked, B!GuardedActsAreLinked, E!NotReviewed, B!NotReviewed
<1>4. ~P /\ [MCNext]_all => ~P'
  BY DEF MCNext, BindingPart, BatchPart, EnforcedPart, SigningPart, RotationPart,
         VerificationPart, RulePart, all
<1>5. MCSpec /\ P => E!Spec
  BY BatchesRun
<1>6. MCSpec /\ ~P => B!Spec
  BY BatchesRun
<1>. HIDE DEF P
<1>7. MCSpec /\ ~P => []~P
  BY <1>4, PTL DEF MCSpec, all
<1>8. MCSpec => [](B!GuardedActsAreLinked /\ (P => E!EnforceBindsEverything))
  BY <1>1, <1>2, <1>3, <1>5, <1>6, <1>7, PTL
<1>. QED  BY <1>8, PartsRun, GuardedActsLink, PTL DEF ActsAreLinked, P

-----------------------------------------------------------------------------
(* The greatest element of a bounded set *)

LEMMA Least ==
    ASSUME NEW A, A \subseteq Nat, A # {}
    PROVE  \E a \in A : \A b \in A : a <= b
<1>. DEFINE Less == OpToRel(<, Nat)
<1>1. IsWellFoundedOn(Less, Nat)
  BY NatLessThanWellFounded
<1>2. \A c, d \in Nat : c < d => <<c, d>> \in Less
  BY DEF OpToRel
<1>. HIDE DEF Less
<1>3. \E a \in A : \A b \in A : ~ (<<b, a>> \in Less)
  BY <1>1, WFMin
<1>4. PICK a \in A : \A b \in A : ~ (<<b, a>> \in Less)
  BY <1>3
<1>5. \A b \in A : b \in Nat /\ a \in Nat /\ ~(b < a)
  BY <1>2, <1>4
<1>6. \A b \in A : a <= b
  BY <1>5
<1>. QED  BY <1>6

LEMMA Greatest ==
    ASSUME NEW n \in Nat, NEW Z, Z \subseteq 1..n, Z # {}
    PROVE  \E a \in Z : \A b \in Z : a >= b
<1>. DEFINE A == {n - k : k \in Z}
<1>1. A \subseteq Nat /\ A # {}
  <2>1. \A k \in Z : n - k \in Nat
    OBVIOUS
  <2>2. A \subseteq Nat
    BY <2>1
  <2>. QED BY <2>2
<1>. HIDE DEF A
<1>2. PICK a \in A : \A b \in A : a <= b
  BY <1>1, Least
<1>3. PICK k \in Z : a = n - k
  BY DEF A
<1>4. \A b \in Z : n - b \in A
  BY DEF A
<1>5. \A b \in Z : k >= b
  BY <1>2, <1>3, <1>4
<1>. QED  BY <1>5

-----------------------------------------------------------------------------
(* Rules *)

\* The revision e is m with one event more.
OneEventMore(e, m, event) ==
    /\ e \in L!Revisions /\ e.window = m.window /\ e.effective = m.effective
    /\ Len(m.log) \in Nat /\ DOMAIN m.log = 1..Len(m.log)
    /\ Len(e.log) = Len(m.log) + 1 /\ DOMAIN e.log = 1..Len(e.log)
    /\ e.log[Len(e.log)] = event
    /\ \A n \in 1..Len(m.log) : e.log[n] = m.log[n]

LEMMA EventAdded ==
    ASSUME NEW m \in L!Revisions, NEW to \in L!Statuses, NEW stamp \in L!Times
    PROVE  OneEventMore(L!Moved(m, to, stamp), m, [to |-> to, at |-> stamp])
<1>. DEFINE Events == [to : L!Statuses, at : L!Times]
            longer == Append(m.log, [to |-> to, at |-> stamp])
<1>1. m.log \in Seq(Events) /\ [to |-> to, at |-> stamp] \in Events
  BY DEF L!Revisions
<1>2. L!Moved(m, to, stamp) = [m EXCEPT !.log = longer]
  BY DEF L!Moved
<1>3. /\ longer \in Seq(Events) /\ Len(m.log) \in Nat /\ DOMAIN m.log = 1..Len(m.log)
      /\ Len(longer) = Len(m.log) + 1 /\ DOMAIN longer = 1..Len(longer)
      /\ longer[Len(m.log) + 1] = [to |-> to, at |-> stamp]
      /\ \A n \in 1..Len(m.log) : longer[n] = m.log[n]
  <2>. HIDE DEF Events
  <2>. QED  BY <1>1
<1>4. [m EXCEPT !.log = longer] \in L!Revisions
  <2>. HIDE DEF longer
  <2>. QED  BY <1>3 DEF L!Revisions
<1>5. /\ [m EXCEPT !.log = longer].window = m.window
      /\ [m EXCEPT !.log = longer].effective = m.effective
      /\ [m EXCEPT !.log = longer].log = longer
  BY DEF L!Revisions
<1>. HIDE DEF longer
<1>. QED  BY <1>2, <1>3, <1>4, <1>5 DEF OneEventMore

\* An event stamped after t does not change what the status was at t.
LEMMA PastStatusStands ==
    ASSUME L!PolicyRulesAssumption, NEW m \in L!Revisions, NEW to \in L!Statuses,
           NEW stamp \in L!Times, NEW t \in L!Times, t < stamp
    PROVE  L!StatusAsOf(L!Moved(m, to, stamp), t) = L!StatusAsOf(m, t)
<1>. DEFINE e == L!Moved(m, to, stamp)
            P(r) == {n \in DOMAIN r.log : r.log[n].at <= t}
<1>1. /\ Len(e.log) = Len(m.log) + 1 /\ e.log[Len(e.log)] = [to |-> to, at |-> stamp]
      /\ \A n \in 1..Len(m.log) : e.log[n] = m.log[n]
      /\ Len(m.log) \in Nat /\ DOMAIN m.log = 1..Len(m.log) /\ DOMAIN e.log = 1..Len(e.log)
  <2>1. OneEventMore(e, m, [to |-> to, at |-> stamp])
    BY EventAdded
  <2>. HIDE DEF e
  <2>. QED  BY <2>1 DEF OneEventMore
<1>2. stamp \in Int /\ t \in Int
  BY DEF L!Times, L!PolicyRulesAssumption
<1>. HIDE DEF e
<1>3. P(e) = P(m)
  BY <1>1, <1>2
<1>4. \A r : L!StatusAsOf(r, t) = IF P(r) = {} THEN "active" ELSE r.log[L!Max(P(r))].to
  BY DEF L!StatusAsOf
<1>5. P(m) \subseteq 1..Len(m.log)
  BY <1>1
<1>6. P(m) # {} => L!Max(P(m)) \in P(m)
  <2>. DEFINE Z == P(m)
  <2>1. Z \subseteq 1..Len(m.log) /\ Len(m.log) \in Nat
    BY <1>1
  <2>. HIDE DEF Z
  <2>2. Z # {} => L!Max(Z) \in Z
    BY <2>1, Greatest DEF L!Max
  <2>. QED  BY <2>2 DEF Z
<1>. QED  BY <1>1, <1>3, <1>4, <1>5, <1>6 DEF e

\* What a write makes of a revision that is there already.
Kept(new, old) ==
    \/ new = old
    \/ \E to \in L!Statuses, stamp \in L!Stamps : new = L!Moved(old, to, stamp)

\* What an operation makes of the chain c: c2.
Continues(c2, c) ==
    /\ c2 \in Seq(L!Revisions) /\ Len(c2) <= MaxRevisions
    /\ Len(c) <= Len(c2) /\ \A j \in 1..Len(c) : Kept(c2[j], c[j])

LEMMA MoveContinues ==
    ASSUME L!PolicyRulesAssumption, L!TypeOK, NEW i \in 1..Len(chain),
           NEW to \in L!Statuses, NEW stamp \in L!Stamps
    PROVE  /\ Continues([chain EXCEPT ![i] = L!Moved(chain[i], to, stamp)], chain)
           /\ Len([chain EXCEPT ![i] = L!Moved(chain[i], to, stamp)]) = Len(chain)
<1>. DEFINE new == L!Moved(chain[i], to, stamp)
<1>1. chain \in Seq(L!Revisions) /\ Len(chain) \in Nat /\ Len(chain) <= MaxRevisions
  BY DEF L!TypeOK
<1>2. stamp \in L!Times /\ chain[i] \in L!Revisions
  BY <1>1 DEF L!Stamps
<1>3. new \in L!Revisions
  BY <1>2, EventAdded DEF OneEventMore
<1>4. Kept(new, chain[i])
  BY DEF Kept
<1>. HIDE DEF new
<1>5. /\ [chain EXCEPT ![i] = new] \in Seq(L!Revisions)
      /\ Len([chain EXCEPT ![i] = new]) = Len(chain)
      /\ \A j \in 1..Len(chain) : [chain EXCEPT ![i] = new][j] = IF j = i THEN new ELSE chain[j]
  BY <1>1, <1>3
<1>6. \A j \in 1..Len(chain) : Kept([chain EXCEPT ![i] = new][j], chain[j])
  BY <1>4, <1>5 DEF Kept
<1>7. Continues([chain EXCEPT ![i] = new], chain)
  BY <1>1, <1>5, <1>6 DEF Continues
<1>. QED  BY <1>5, <1>7 DEF new

LEMMA SaveContinues ==
    ASSUME NEW c \in Seq(L!Revisions), NEW c2, Continues(c2, c), Len(c2) = Len(c), NEW row \in L!Revisions,
           Len(c) < MaxRevisions, MaxRevisions \in Nat
    PROVE  Continues(Append(c2, row), c)
<1>1. c2 \in Seq(L!Revisions) /\ Len(c) \in Nat /\ Len(c2) = Len(c) /\ \A j \in 1..Len(c) : Kept(c2[j], c[j])
  BY DEF Continues
<1>2. /\ Append(c2, row) \in Seq(L!Revisions) /\ Len(Append(c2, row)) = Len(c) + 1
      /\ \A j \in 1..Len(c) : Append(c2, row)[j] = c2[j]
  BY <1>1
<1>3. \A j \in 1..Len(c) : Kept(Append(c2, row)[j], c[j])
  BY <1>1, <1>2
<1>. QED  BY <1>2, <1>3 DEF Continues

LEMMA RuleStepContinues ==
    ASSUME L!PolicyRulesAssumption, L!TypeOK, L!RuleStep
    PROVE  Continues(chain', chain) /\ UNCHANGED <<now, decisions, closed>>
<1>1. /\ chain \in Seq(L!Revisions) /\ Len(chain) \in Nat /\ Len(chain) <= MaxRevisions
      /\ MaxRevisions \in Nat /\ DOMAIN chain = 1..Len(chain)
  BY DEF L!TypeOK, L!PolicyRulesAssumption
<1>2. Continues(chain, chain)
  BY <1>1 DEF Continues, Kept
<1>3. ASSUME NEW w \in Windows, NEW t \in L!Times, NEW stamp \in L!Stamps, L!SaveRule(w, t, stamp)
      PROVE  Continues(chain', chain) /\ UNCHANGED <<now, decisions, closed>>
  <2>. DEFINE row == [window |-> w, effective |-> t, log |-> <<>>]
              closing == [chain EXCEPT ![Len(chain)] = L!Moved(chain[Len(chain)], "superseded", stamp)]
              active  == Len(chain) > 0 /\ L!Status(chain[Len(chain)]) = "active"
  <2>1. row \in L!Revisions
    BY DEF L!Revisions
  <2>2. /\ Len(chain) < MaxRevisions /\ UNCHANGED <<now, decisions, closed>>
        /\ \/ chain' = Append(chain, row)
           \/ Len(chain) \in 1..Len(chain) /\ chain' = Append(closing, row)
    <3>1. /\ Len(chain) < MaxRevisions /\ UNCHANGED <<now, decisions, closed>>
          /\ chain' = Append(IF active THEN closing ELSE chain, row)
      BY <1>3 DEF L!SaveRule
    <3>2. active => Len(chain) \in 1..Len(chain)
      BY <1>1
    <3>. HIDE DEF active
    <3>. QED  BY <3>1, <3>2
  <2>3. Len(chain) \in 1..Len(chain) => Continues(closing, chain) /\ Len(closing) = Len(chain)
    <3>1. "superseded" \in L!Statuses
      BY DEF L!Statuses
    <3>. QED  BY <3>1, MoveContinues
  <2>. HIDE DEF row, closing
  <2>. QED  BY <1>1, <1>2, <2>1, <2>2, <2>3, SaveContinues
<1>4. ASSUME NEW i \in DOMAIN chain, NEW stamp \in L!Stamps, L!VoidRule(i, stamp)
      PROVE  Continues(chain', chain) /\ UNCHANGED <<now, decisions, closed>>
  <2>1. chain' = [chain EXCEPT ![i] = L!Moved(chain[i], "voided", stamp)] /\ UNCHANGED <<now, decisions, closed>>
    BY <1>4 DEF L!VoidRule
  <2>2. Continues([chain EXCEPT ![i] = L!Moved(chain[i], "voided", stamp)], chain)
    BY <1>1, MoveContinues DEF L!Statuses
  <2>. QED  BY <2>1, <2>2
<1>. QED  BY <1>3, <1>4 DEF L!RuleStep

LEMMA DecisionStepKeeps ==
    ASSUME L!PolicyRulesAssumption, L!TypeOK, L!DecisionStep
    PROVE  /\ decisions' \in Seq(L!Decisions) /\ Len(decisions') <= MaxDecisions
           /\ UNCHANGED <<now, chain, closed>>
<1>1. /\ decisions \in Seq(L!Decisions) /\ Len(decisions) \in Nat /\ Len(decisions) <= MaxDecisions
      /\ MaxDecisions \in Nat /\ MaxRevisions \in Nat
      /\ DOMAIN chain \subseteq 1..MaxRevisions /\ DOMAIN decisions = 1..Len(decisions)
  BY DEF L!TypeOK, L!PolicyRulesAssumption
<1>2. ASSUME NEW t \in L!Times, NEW w \in Windows, NEW k, L!SaveDecision(t, w, k)
      PROVE  /\ decisions' \in Seq(L!Decisions) /\ Len(decisions') <= MaxDecisions
             /\ UNCHANGED <<now, chain, closed>>
  <2>1. /\ decisions' = Append(decisions, [at |-> t, window |-> w, link |-> k])
        /\ Len(decisions) < MaxDecisions /\ UNCHANGED <<now, chain, closed>>
        /\ k \in {L!NoLink, L!Bare} \cup DOMAIN chain
    BY <1>2 DEF L!SaveDecision
  <2>2. [at |-> t, window |-> w, link |-> k] \in L!Decisions
    BY <1>1, <2>1 DEF L!Decisions
  <2>. QED  BY <1>1, <2>1, <2>2
<1>3. ASSUME NEW d \in DOMAIN decisions, NEW k \in {L!Legacy} \cup DOMAIN chain, L!AddRuleLink(d, k)
      PROVE  /\ decisions' \in Seq(L!Decisions) /\ Len(decisions') <= MaxDecisions
             /\ UNCHANGED <<now, chain, closed>>
  <2>1. decisions' = [decisions EXCEPT ![d].link = k] /\ UNCHANGED <<now, chain, closed>>
    BY <1>3 DEF L!AddRuleLink
  <2>2. [decisions[d] EXCEPT !.link = k] \in L!Decisions
    <3>1. decisions[d] \in L!Decisions
      BY <1>1
    <3>2. k \in {L!NoLink, L!Bare, L!Legacy} \cup (1..MaxRevisions)
      BY <1>1
    <3>. QED  BY <3>1, <3>2 DEF L!Decisions
  <2>. QED  BY <1>1, <2>1, <2>2
<1>. QED  BY <1>2, <1>3 DEF L!DecisionStep

LEMMA RuleTypesStep ==
    ASSUME L!PolicyRulesAssumption, L!TypeOK, [L!Next]_L!vars PROVE L!TypeOK'
<1>1. CASE L!RuleStep
  BY <1>1, RuleStepContinues DEF L!TypeOK, Continues
<1>2. CASE L!DecisionStep
  BY <1>2, DecisionStepKeeps DEF L!TypeOK
<1>3. CASE L!TogglePeriod
  BY <1>3 DEF L!TogglePeriod, L!TypeOK
<1>4. CASE L!Tick
  BY <1>4 DEF L!Tick, L!TypeOK, L!Times, L!PolicyRulesAssumption
<1>5. CASE UNCHANGED L!vars
  BY <1>5 DEF L!vars, L!TypeOK
<1>. QED  BY <1>1, <1>2, <1>3, <1>4, <1>5 DEF L!Next

\* Rules and decisions stay well typed.
THEOREM TypesOfRules == L!Spec => []L!TypeOK
<1>1. L!Init => L!TypeOK
  <2>1. MaxTime \in Nat /\ MaxRevisions \in Nat /\ MaxDecisions \in Nat
    BY PartsAssumption DEF L!PolicyRulesAssumption
  <2>2. 0 \in L!Times /\ FALSE \in BOOLEAN
    BY <2>1 DEF L!Times
  <2>3. <<>> \in Seq(L!Revisions) /\ <<>> \in Seq(L!Decisions) /\ Len(<<>>) = 0
    OBVIOUS
  <2>4. SUFFICES ASSUME L!Init PROVE L!TypeOK
    OBVIOUS
  <2>5. now = 0 /\ chain = <<>> /\ decisions = <<>> /\ closed = FALSE
    BY <2>4 DEF L!Init
  <2>6. now \in L!Times /\ closed \in BOOLEAN
    BY <2>2, <2>5
  <2>7. chain \in Seq(L!Revisions) /\ Len(chain) <= MaxRevisions
    BY <2>1, <2>3, <2>5
  <2>8. decisions \in Seq(L!Decisions) /\ Len(decisions) <= MaxDecisions
    BY <2>1, <2>3, <2>5
  <2>. QED  BY <2>6, <2>7, <2>8 DEF L!TypeOK
<1>2. L!TypeOK /\ [L!Next]_L!vars => L!TypeOK'
  BY PartsAssumption, RuleTypesStep
<1>. QED  BY <1>1, <1>2, PTL DEF L!Spec

\* An instant before any write in progress.
LEMMA PastStands ==
    ASSUME L!PolicyRulesAssumption, L!TypeOK, NEW t \in L!Times, t + MaxWait < now,
           NEW old \in L!Revisions, NEW new, Kept(new, old)
    PROVE  /\ \A u : L!InForce(new, u) <=> L!InForce(old, u)
           /\ L!StatusAsOf(new, t) = L!StatusAsOf(old, t)
<1>1. CASE new = old
  BY <1>1
<1>2. ASSUME NEW to \in L!Statuses, NEW stamp \in L!Stamps, new = L!Moved(old, to, stamp)
      PROVE  /\ \A u : L!InForce(new, u) <=> L!InForce(old, u)
             /\ L!StatusAsOf(new, t) = L!StatusAsOf(old, t)
  <2>1. stamp \in L!Times /\ t < stamp
    BY DEF L!Stamps, L!Times, L!PolicyRulesAssumption, L!TypeOK
  <2>2. new.window = old.window /\ new.effective = old.effective
    <3>1. OneEventMore(new, old, [to |-> to, at |-> stamp])
      BY <1>2, <2>1, EventAdded
    <3>. QED  BY <3>1 DEF OneEventMore
  <2>. QED  BY <1>2, <2>1, <2>2, PastStatusStands DEF L!InForce
<1>. QED  BY <1>1, <1>2 DEF Kept

\* What verification says of a decision whose instant has the revisions found in force
\* and whose link is to a revision of that status.
Verdict(found, link, status) ==
    CASE link \in {L!NoLink, L!Bare, L!Legacy} -> "skipped"
      [] found = {}                   -> "RULE_NOT_IN_FORCE"
      [] Cardinality(found) > 1       -> "RULE_VIGENCIA_OVERLAP"
      [] found # {link}               -> "RULE_VERSION_MISMATCH"
      [] status # "active"            -> "RULE_STATUS_INVALID"
      [] OTHER                        -> "passed"

LEMMA OutcomeIsVerdict ==
    ASSUME NEW d
    PROVE  L!Outcome(d) = Verdict(L!InForceAt(d.at), d.link, L!StatusAsOf(chain[d.link], d.at))
  BY DEF L!Outcome, Verdict, L!Cardinality

LEMMA SameVerdict ==
    ASSUME NEW found, NEW link, NEW a, NEW b, link \in found => a = b
    PROVE  Verdict(found, link, a) = Verdict(found, link, b)
<1>1. CASE link \in found
  BY <1>1
<1>2. CASE link \notin found
  BY <1>2 DEF Verdict
<1>. QED  BY <1>1, <1>2

\* What verification says of the rule behind a past decision changes only when a
\* further revision claims its instant, for every set of windows, any number of
\* revisions and decisions and however long a stamped write waits for the lock.
THEOREM PastOutcomesStand == L!Spec => L!PastTracesStand
<1>1. ASSUME L!TypeOK, L!Next, NEW d \in DOMAIN decisions,
             decisions[d].at + MaxWait < now, decisions'[d] = decisions[d],
             \A j \in DOMAIN chain' \ DOMAIN chain : ~L!InForce(chain'[j], decisions[d].at)
      PROVE  L!Outcome(decisions[d])' = L!Outcome(decisions[d])
  <2>. DEFINE old == decisions[d]
              found == {i \in DOMAIN chain' : L!InForce(chain'[i], old.at)}
              status == L!StatusAsOf(chain'[old.link], old.at)
  <2>1. old.at \in L!Times
    <3>1. decisions \in Seq(L!Decisions) /\ d \in 1..Len(decisions)
      BY <1>1 DEF L!TypeOK
    <3>2. decisions[d] \in L!Decisions
      BY <3>1
    <3>. QED  BY <3>2 DEF L!Decisions
  <2>2. L!Outcome(decisions[d])' = Verdict(found, old.link, status)
    BY <1>1 DEF L!Outcome, Verdict, L!Cardinality, L!InForceAt, L!InForce, L!StatusAsOf
  <2>3. L!Outcome(old) = Verdict(L!InForceAt(old.at), old.link, L!StatusAsOf(chain[old.link], old.at))
    BY OutcomeIsVerdict
  <2>4. CASE L!RuleStep
    <3>1. /\ Continues(chain', chain) /\ chain \in Seq(L!Revisions) /\ chain' \in Seq(L!Revisions)
          /\ Len(chain) \in Nat /\ Len(chain') \in Nat
      BY <1>1, <2>4, PartsAssumption, RuleStepContinues DEF L!TypeOK, Continues
    <3>2. DOMAIN chain = 1..Len(chain) /\ DOMAIN chain' = 1..Len(chain') /\ Len(chain) <= Len(chain')
      BY <3>1 DEF Continues
    <3>3. ASSUME NEW j \in DOMAIN chain
          PROVE  /\ \A u : L!InForce(chain'[j], u) <=> L!InForce(chain[j], u)
                 /\ L!StatusAsOf(chain'[j], old.at) = L!StatusAsOf(chain[j], old.at)
      <4>1. chain[j] \in L!Revisions /\ Kept(chain'[j], chain[j])
        BY <3>1, <3>2 DEF Continues
      <4>2. old.at + MaxWait < now /\ L!PolicyRulesAssumption
        BY <1>1, PartsAssumption
      <4>. HIDE DEF old
      <4>. QED  BY <1>1, <2>1, <4>1, <4>2, PastStands
    <3>4. found = L!InForceAt(old.at) /\ L!InForceAt(old.at) \subseteq DOMAIN chain
      <4>2. L!InForceAt(old.at) = {i \in DOMAIN chain : L!InForce(chain[i], old.at)}
        BY DEF L!InForceAt
      <4>3. \A i \in DOMAIN chain' : i \notin DOMAIN chain => ~L!InForce(chain'[i], old.at)
        BY <1>1
      <4>4. \A i \in DOMAIN chain : i \in DOMAIN chain'
        BY <3>2, <3>1
      <4>. HIDE DEF old
      <4>. QED  BY <3>3, <4>2, <4>3, <4>4
    <3>5. old.link \in L!InForceAt(old.at) => status = L!StatusAsOf(chain[old.link], old.at)
      BY <3>3, <3>4
    <3>. HIDE DEF old, found, status
    <3>. QED  BY <2>2, <2>3, <3>4, <3>5, SameVerdict DEF old
  <2>5. CASE UNCHANGED chain
    BY <2>2, <2>3, <2>5 DEF L!InForceAt
  <2>. QED  BY <1>1, <2>4, <2>5, PartsAssumption, DecisionStepKeeps DEF L!Next, L!TogglePeriod, L!Tick
<1>2. L!TypeOK /\ [L!Next]_L!vars =>
        [\A d \in DOMAIN decisions :
          LET old == decisions[d]
          IN  (old.at + MaxWait < now /\ decisions'[d] = old /\ L!Outcome(old)' # L!Outcome(old)) =>
                 \E j \in DOMAIN chain' \ DOMAIN chain : L!InForce(chain'[j], old.at)]_L!vars
  BY <1>1
<1>. QED  BY <1>2, TypesOfRules, PTL DEF L!Spec, L!PastTracesStand

\* The instance keeps the past of its rules.
THEOREM PastTracesHold == MCSpec => PastTracesStand
  BY PartsRun, PastOutcomesStand DEF PastTracesStand

-----------------------------------------------------------------------------
(* Verification *)

SubjectRows == [kind : {"memory", "judgment"}, id : Nat]
RefsOfActs  == Documents \cup {V!None}
ActionNames == {"recorded", "approved", "rejected", "returned", "voided", "superseded",
                "evidence_linked", "closed", "reopened", "confirmed"}
ActRows     == [subject : SubjectRows, action : ActionNames, by : Actors, ref : RefsOfActs]
Commits == V!MemoryRows \cup V!JudgmentRows \cup {V!NoCommit}
ReceiptRows == [act : ActRows, commit : Commits]

\* What the ledger says of a subject: every act is on record; every reference of an act
\* is linked; a reference has the act that linked it; the last state that was
\* committed; its acts are decisions; there are none.
OnRecord(log, recs, s) == \A n \in DOMAIN log : log[n].act.subject = s => log[n].act \in recs
RefsAreLinked(log, s, evidence) ==
    \A n \in DOMAIN log : log[n].act.subject = s => log[n].act.ref \in evidence \cup {V!None}
LinkedByAct(log, s, ref) == \E n \in DOMAIN log : log[n].act.subject = s /\ log[n].act.ref = ref
LastCommitIs(log, s, state) ==
    \E n \in DOMAIN log :
        /\ log[n].act.subject = s /\ log[n].commit = state /\ state # V!NoCommit
        /\ \A m \in DOMAIN log : (m > n /\ log[m].act.subject = s) => log[m].commit = V!NoCommit
OnlyDecisions(log, s) ==
    \A n \in DOMAIN log : log[n].act.subject = s => log[n].act.action \in {"confirmed", "rejected"}
NoActs(log, s) == \A n \in DOMAIN log : log[n].act.subject # s

\* The receipt of a batch names no reference, the records of links do.
OfBatch(act) == act.action = "evidence_linked" /\ act.ref = V!None
BatchedIn(log, s) == \E n \in DOMAIN log : log[n].act.subject = s /\ OfBatch(log[n].act)
LinksNamed(recs) == \A a \in recs : a.action = "evidence_linked" => a.ref \in Documents

\* The memories that receipt r leaves behind their last commit.
Open(open, r) == {k \in open : r.act.subject = V!Memory(k) => r.commit = V!NoCommit}

MemoryLedger(log, recs, gone, open, i, row) ==
    /\ ~(\E g \in gone : g.id = i) =>
          /\ BatchedIn(log, V!Memory(i)) \/ OnRecord(log, recs, V!Memory(i))
          /\ RefsAreLinked(log, V!Memory(i), row.evidence)
          /\ i \in open \/ LastCommitIs(log, V!Memory(i), row)
    /\ \A ref \in row.evidence : BatchedIn(log, V!Memory(i)) \/ LinkedByAct(log, V!Memory(i), ref)
    /\ \A g \in gone : (g.id = i /\ g.ref \in Documents)
                           => BatchedIn(log, V!Memory(i)) \/ LinkedByAct(log, V!Memory(i), g.ref)

JudgmentLedger(log, recs, j, row) ==
    /\ OnRecord(log, recs, V!Judgment(j)) /\ OnlyDecisions(log, V!Judgment(j))
    /\ \/ NoActs(log, V!Judgment(j)) \/ row.succ # 0
       \/ LastCommitIs(log, V!Judgment(j), V!JudgmentHash(row))

SubjectsIn(mem, jud) == {V!Memory(i) : i \in 1..Len(mem)} \cup {V!Judgment(j) : j \in 1..Len(jud)}

LedgerTyped(mem, jud, log, gone, open) ==
    /\ mem \in Seq(V!MemoryRows) /\ jud \in Seq(V!JudgmentRows) /\ log \in Seq(ReceiptRows)
    /\ \A n \in DOMAIN log : log[n].act.subject \in SubjectsIn(mem, jud)
    /\ (\A g \in gone : g.id \in 1..Len(mem)) /\ open \subseteq 1..Len(mem)

\* The ledger and the records agree with the rows of memories and judgments.
Ledger(mem, jud, log, recs, gone, open) ==
    /\ LedgerTyped(mem, jud, log, gone, open) /\ LinksNamed(recs)
    /\ \A i \in 1..Len(mem) : MemoryLedger(log, recs, gone, open, i, mem[i])
    /\ \A j \in 1..Len(jud) : JudgmentLedger(log, recs, j, jud[j])

LEMMA SubjectsDiffer ==
    /\ \A i, k : V!Memory(i) = V!Memory(k) => i = k
    /\ \A i, k : V!Judgment(i) = V!Judgment(k) => i = k
    /\ \A i, k : V!Memory(i) # V!Judgment(k)
<1>1. \A i : V!Memory(i).id = i /\ V!Memory(i).kind = "memory"
  BY DEF V!Memory
<1>2. \A i : V!Judgment(i).id = i /\ V!Judgment(i).kind = "judgment"
  BY DEF V!Judgment
<1>. QED  BY <1>1, <1>2

LEMMA RowsAreCommits ==
    /\ \A row \in V!MemoryRows : row # V!NoCommit /\ row \in Commits
    /\ \A row \in V!JudgmentRows : V!JudgmentHash(row) # V!NoCommit /\ V!JudgmentHash(row) \in Commits
<1>1. ASSUME NEW row \in V!MemoryRows PROVE row # V!NoCommit
  BY DEF V!MemoryRows, V!NoCommit, V!None, V!Statuses
<1>2. ASSUME NEW row \in V!JudgmentRows
      PROVE  V!JudgmentHash(row) \in V!JudgmentRows /\ V!JudgmentHash(row) # V!NoCommit
  <2>1. V!JudgmentHash(row) \in V!JudgmentRows
    <3>1. 0 \in 0..MaxJudgments
      BY PartsAssumption DEF V!VerificationAssumption
    <3>. QED  BY <3>1 DEF V!JudgmentHash, V!JudgmentRows
  <2>2. ASSUME NEW h \in V!JudgmentRows PROVE h # V!NoCommit
    BY DEF V!JudgmentRows, V!NoCommit, V!None
  <2>. QED  BY <2>1, <2>2
<1>. QED  BY <1>1, <1>2 DEF Commits

\* The ledger longer is log with the receipt r more.
OneMore(longer, log, r) ==
    /\ longer \in Seq(ReceiptRows) /\ Len(log) \in Nat /\ DOMAIN log = 1..Len(log)
    /\ DOMAIN longer = 1..(Len(log) + 1) /\ longer[Len(log) + 1] = r
    /\ \A n \in 1..Len(log) : longer[n] = log[n]

LEMMA ReceiptAdded ==
    ASSUME NEW log \in Seq(ReceiptRows), NEW r \in ReceiptRows PROVE OneMore(Append(log, r), log, r)
<1>. HIDE DEF ReceiptRows
<1>. QED  BY DEF OneMore

\* A receipt of another subject changes nothing for s.
LEMMA OtherReceipt ==
    ASSUME NEW log, NEW longer, NEW r, OneMore(longer, log, r), NEW recs, NEW more, recs \subseteq more,
           NEW s, r.act.subject # s
    PROVE  /\ OnRecord(log, recs, s) => OnRecord(longer, more, s)
           /\ \A evidence : RefsAreLinked(log, s, evidence) => RefsAreLinked(longer, s, evidence)
           /\ \A ref : LinkedByAct(log, s, ref) => LinkedByAct(longer, s, ref)
           /\ \A state : LastCommitIs(log, s, state) => LastCommitIs(longer, s, state)
           /\ OnlyDecisions(log, s) => OnlyDecisions(longer, s)
           /\ NoActs(log, s) => NoActs(longer, s)
           /\ BatchedIn(log, s) => BatchedIn(longer, s)
<1>1. /\ DOMAIN longer = DOMAIN log \cup {Len(log) + 1} /\ longer[Len(log) + 1] = r
      /\ \A n \in DOMAIN log : longer[n] = log[n] /\ n \in Nat
  BY DEF OneMore
<1>2. OnRecord(log, recs, s) => OnRecord(longer, more, s)
  BY <1>1 DEF OnRecord
<1>3. \A evidence : RefsAreLinked(log, s, evidence) => RefsAreLinked(longer, s, evidence)
  BY <1>1 DEF RefsAreLinked
<1>4. \A ref : LinkedByAct(log, s, ref) => LinkedByAct(longer, s, ref)
  BY <1>1 DEF LinkedByAct
<1>5. \A state : LastCommitIs(log, s, state) => LastCommitIs(longer, s, state)
  BY <1>1 DEF LastCommitIs
<1>6. OnlyDecisions(log, s) => OnlyDecisions(longer, s)
  BY <1>1 DEF OnlyDecisions
<1>7. NoActs(log, s) => NoActs(longer, s)
  BY <1>1 DEF NoActs
<1>8. BatchedIn(log, s) => BatchedIn(longer, s)
  BY <1>1 DEF BatchedIn
<1>. QED  BY <1>2, <1>3, <1>4, <1>5, <1>6, <1>7, <1>8

\* What a receipt of s itself changes.
Gains(longer, more, log, recs, s, r) ==
    /\ r.act \in more /\ OnRecord(log, recs, s) => OnRecord(longer, more, s)
    /\ BatchedIn(log, s) \/ OfBatch(r.act) => BatchedIn(longer, s)
    /\ \A old, new : (RefsAreLinked(log, s, old) /\ old \subseteq new /\ r.act.ref \in new \cup {V!None})
                        => RefsAreLinked(longer, s, new)
    /\ \A ref : LinkedByAct(log, s, ref) \/ ref = r.act.ref => LinkedByAct(longer, s, ref)
    /\ r.commit # V!NoCommit => LastCommitIs(longer, s, r.commit)
    /\ r.commit = V!NoCommit =>
          \A state : LastCommitIs(log, s, state) => LastCommitIs(longer, s, state)
    /\ OnlyDecisions(log, s) /\ r.act.action \in {"confirmed", "rejected"} => OnlyDecisions(longer, s)

LEMMA OwnReceipt ==
    ASSUME NEW log, NEW longer, NEW r, OneMore(longer, log, r), NEW recs, NEW more, recs \subseteq more,
           NEW s, r.act.subject = s
    PROVE  Gains(longer, more, log, recs, s, r)
<1>1. /\ DOMAIN longer = DOMAIN log \cup {Len(log) + 1} /\ longer[Len(log) + 1] = r
      /\ \A n \in DOMAIN log : longer[n] = log[n] /\ n \in Nat /\ n <= Len(log) /\ Len(log) \in Nat
  BY DEF OneMore
<1>2. r.act \in more /\ OnRecord(log, recs, s) => OnRecord(longer, more, s)
  BY <1>1 DEF OnRecord
<1>8. BatchedIn(log, s) \/ OfBatch(r.act) => BatchedIn(longer, s)
  BY <1>1 DEF BatchedIn
<1>3. \A old, new : (RefsAreLinked(log, s, old) /\ old \subseteq new /\ r.act.ref \in new \cup {V!None})
                        => RefsAreLinked(longer, s, new)
  BY <1>1 DEF RefsAreLinked
<1>4. \A ref : LinkedByAct(log, s, ref) \/ ref = r.act.ref => LinkedByAct(longer, s, ref)
  BY <1>1 DEF LinkedByAct
<1>5. r.commit # V!NoCommit => LastCommitIs(longer, s, r.commit)
  <2>1. \A m \in DOMAIN longer : ~(m > Len(log) + 1)
    BY <1>1, Len(log) \in Nat DEF OneMore
  <2>. QED  BY <1>1, <2>1 DEF LastCommitIs
<1>6. r.commit = V!NoCommit => \A state : LastCommitIs(log, s, state) => LastCommitIs(longer, s, state)
  BY <1>1 DEF LastCommitIs
<1>7. OnlyDecisions(log, s) /\ r.act.action \in {"confirmed", "rejected"} => OnlyDecisions(longer, s)
  BY <1>1 DEF OnlyDecisions
<1>. QED  BY <1>2, <1>3, <1>4, <1>5, <1>6, <1>7, <1>8 DEF Gains

-----------------------------------------------------------------------------
\* A receipt of another subject leaves the ledger of a memory, and of a judgment.
LEMMA OthersLedgers ==
    ASSUME NEW log, NEW longer, NEW r, OneMore(longer, log, r), NEW recs, NEW more, recs \subseteq more,
           NEW gone, NEW open
    PROVE  /\ \A i, row : r.act.subject # V!Memory(i) /\ MemoryLedger(log, recs, gone, open, i, row)
                              => MemoryLedger(longer, more, gone, Open(open, r), i, row)
           /\ \A j, row : r.act.subject # V!Judgment(j) /\ JudgmentLedger(log, recs, j, row)
                              => JudgmentLedger(longer, more, j, row)
<1>1. ASSUME NEW i, NEW row, r.act.subject # V!Memory(i), MemoryLedger(log, recs, gone, open, i, row)
      PROVE  MemoryLedger(longer, more, gone, Open(open, r), i, row)
  <2>. DEFINE s == V!Memory(i)
  <2>0. i \in open => i \in Open(open, r)
    BY <1>1 DEF Open
  <2>. HIDE DEF s
  <2>1. r.act.subject # s
    BY <1>1 DEF s
  <2>. QED  BY <1>1, <2>0, <2>1, OtherReceipt DEF MemoryLedger, s
<1>2. ASSUME NEW j, NEW row, r.act.subject # V!Judgment(j), JudgmentLedger(log, recs, j, row)
      PROVE  JudgmentLedger(longer, more, j, row)
  BY <1>2, OtherReceipt DEF JudgmentLedger
<1>. QED  BY <1>1, <1>2

\* The act of a memory that makes row of it, and commits it or commits nothing new.
LEMMA MemoryActs ==
    ASSUME NEW mem, NEW jud, NEW log, NEW recs, NEW gone, NEW open,
           Ledger(mem, jud, log, recs, gone, open),
           NEW i \in 1..Len(mem), NEW row \in V!MemoryRows, NEW r \in ReceiptRows,
           r.act.subject = V!Memory(i),
           mem[i].evidence \subseteq row.evidence,
           OfBatch(r.act) \/ row.evidence \subseteq mem[i].evidence \cup {r.act.ref},
           r.act.ref \in row.evidence \cup {V!None},
           r.commit = row \/ (r.commit = V!NoCommit /\ row = mem[i]),
           NEW more, recs \subseteq more, LinksNamed(more), OfBatch(r.act) \/ r.act \in more
    PROVE  Ledger([mem EXCEPT ![i] = row], jud, Append(log, r), more, gone, Open(open, r))
<1>. DEFINE longer == Append(log, r)
            left == Open(open, r)
            after == [mem EXCEPT ![i] = row]
<1>1. LedgerTyped(mem, jud, log, gone, open) /\ OneMore(longer, log, r)
  BY ReceiptAdded DEF Ledger, LedgerTyped
<1>8. left \subseteq open /\ (i \in left => i \in open /\ r.commit = V!NoCommit)
  BY DEF Open
<1>9. i \in open /\ r.commit = V!NoCommit => i \in left
  BY DEF Open
<1>. HIDE DEF longer, left
<1>2. /\ after \in Seq(V!MemoryRows) /\ Len(after) = Len(mem) /\ after[i] = row
      /\ \A k \in 1..Len(mem) : k # i => after[k] = mem[k]
  BY <1>1 DEF LedgerTyped
<1>. HIDE DEF after
<1>3. LedgerTyped(after, jud, longer, gone, left)
  <2>1. SubjectsIn(after, jud) = SubjectsIn(mem, jud) /\ r.act.subject \in SubjectsIn(mem, jud)
    BY <1>2 DEF SubjectsIn
  <2>2. \A n \in DOMAIN longer : longer[n].act.subject \in SubjectsIn(after, jud)
    BY <1>1, <2>1 DEF LedgerTyped, OneMore
  <2>3. longer \in Seq(ReceiptRows) /\ left \subseteq 1..Len(after)
    BY <1>1, <1>2, <1>8 DEF LedgerTyped, OneMore
  <2>. QED  BY <1>1, <1>2, <2>2, <2>3 DEF LedgerTyped
<1>4. MemoryLedger(longer, more, gone, left, i, row)
  <2>0. MemoryLedger(log, recs, gone, open, i, mem[i]) /\ row # V!NoCommit
    BY RowsAreCommits DEF Ledger
  <2>. DEFINE s == V!Memory(i)
  <2>1. s = r.act.subject
    OBVIOUS
  <2>. HIDE DEF s
  <2>2. Gains(longer, more, log, recs, s, r)
    BY <1>1, <2>1, OwnReceipt
  <2>3. RefsAreLinked(log, s, mem[i].evidence) => RefsAreLinked(longer, s, row.evidence)
    BY <2>2 DEF Gains
  <2>4. \A ref : LinkedByAct(log, s, ref) \/ ref = r.act.ref => LinkedByAct(longer, s, ref)
    BY <2>2 DEF Gains
  <2>5. LastCommitIs(log, s, mem[i]) \/ r.commit = row => LastCommitIs(longer, s, row)
    BY <2>0, <2>2 DEF Gains
  <2>6. /\ ~(\E g \in gone : g.id = i) =>
              /\ BatchedIn(log, s) \/ OnRecord(log, recs, s)
              /\ RefsAreLinked(log, s, mem[i].evidence)
              /\ i \in open \/ LastCommitIs(log, s, mem[i])
        /\ \A ref \in mem[i].evidence : BatchedIn(log, s) \/ LinkedByAct(log, s, ref)
        /\ \A g \in gone : (g.id = i /\ g.ref \in Documents) => BatchedIn(log, s) \/ LinkedByAct(log, s, g.ref)
    BY <2>0 DEF MemoryLedger, s
  <2>8. BatchedIn(log, s) \/ OfBatch(r.act) => BatchedIn(longer, s)
    BY <2>2 DEF Gains
  <2>9. BatchedIn(log, s) \/ OnRecord(log, recs, s) => BatchedIn(longer, s) \/ OnRecord(longer, more, s)
    BY <2>2, <2>8 DEF Gains
  <2>10. i \in open \/ LastCommitIs(log, s, mem[i]) => i \in left \/ LastCommitIs(longer, s, row)
    BY <1>9, <2>0, <2>2, <2>5
  <2>11. ASSUME NEW ref \in row.evidence PROVE BatchedIn(longer, s) \/ LinkedByAct(longer, s, ref)
    BY <2>4, <2>6, <2>8
  <2>7. /\ ~(\E g \in gone : g.id = i) =>
              /\ BatchedIn(longer, s) \/ OnRecord(longer, more, s)
              /\ RefsAreLinked(longer, s, row.evidence)
              /\ i \in left \/ LastCommitIs(longer, s, row)
        /\ \A g \in gone : (g.id = i /\ g.ref \in Documents)
                               => BatchedIn(longer, s) \/ LinkedByAct(longer, s, g.ref)
    BY <2>3, <2>4, <2>6, <2>8, <2>9, <2>10
  <2>. QED  BY <2>7, <2>11 DEF MemoryLedger, s
<1>5. ASSUME NEW k \in 1..Len(mem), k # i PROVE MemoryLedger(longer, more, gone, left, k, mem[k])
  <2>1. r.act.subject # V!Memory(k)
    BY <1>5, SubjectsDiffer
  <2>. QED  BY <1>1, <2>1, OthersLedgers DEF Ledger, left
<1>6. ASSUME NEW j \in 1..Len(jud) PROVE JudgmentLedger(longer, more, j, jud[j])
  <2>1. r.act.subject # V!Judgment(j)
    BY SubjectsDiffer
  <2>. QED  BY <1>1, <2>1, OthersLedgers DEF Ledger
<1>7. Ledger(after, jud, longer, more, gone, left)
  BY <1>2, <1>3, <1>4, <1>5, <1>6 DEF Ledger
<1>. QED  BY <1>7 DEF after, longer, left

\* The act has a record of its own.
LEMMA MemoryRecorded ==
    ASSUME NEW mem, NEW jud, NEW log, NEW recs, NEW gone, NEW open,
           Ledger(mem, jud, log, recs, gone, open),
           NEW i \in 1..Len(mem), NEW row \in V!MemoryRows, NEW r \in ReceiptRows,
           r.act.subject = V!Memory(i), mem[i].evidence \subseteq row.evidence,
           row.evidence \subseteq mem[i].evidence \cup {r.act.ref},
           r.act.ref \in row.evidence \cup {V!None},
           r.commit = row \/ (r.commit = V!NoCommit /\ row = mem[i]),
           r.act.action = "evidence_linked" => r.act.ref \in Documents
    PROVE  Ledger([mem EXCEPT ![i] = row], jud, Append(log, r), recs \cup {r.act}, gone, Open(open, r))
<1>. DEFINE more == recs \cup {r.act}
<1>1. recs \subseteq more /\ LinksNamed(more) /\ r.act \in more
  BY DEF Ledger, LinksNamed
<1>. HIDE DEF more
<1>2. Ledger([mem EXCEPT ![i] = row], jud, Append(log, r), more, gone, Open(open, r))
  BY <1>1, MemoryActs
<1>. QED  BY <1>2 DEF more

LEMMA MemorySaved ==
    ASSUME NEW mem, NEW jud, NEW log, NEW recs, NEW gone, NEW open,
           Ledger(mem, jud, log, recs, gone, open),
           NEW row \in V!MemoryRows, row.evidence = {}, NEW r \in ReceiptRows,
           r.act.subject = V!Memory(Len(mem) + 1), r.act.ref = V!None, r.commit = row,
           r.act.action = "recorded"
    PROVE  Ledger(Append(mem, row), jud, Append(log, r), recs \cup {r.act}, gone, Open(open, r))
<1>. DEFINE longer == Append(log, r)
            more == recs \cup {r.act}
            left == Open(open, r)
            after == Append(mem, row)
            i == Len(mem) + 1
<1>1. LedgerTyped(mem, jud, log, gone, open) /\ OneMore(longer, log, r) /\ recs \subseteq more /\ r.act \in more
  BY ReceiptAdded DEF Ledger, LedgerTyped
<1>8. left \subseteq open
  BY DEF Open
<1>9. LinksNamed(more)
  BY DEF Ledger, LinksNamed
<1>. HIDE DEF longer, more, left
<1>2. /\ after \in Seq(V!MemoryRows) /\ Len(after) = i /\ after[i] = row /\ Len(mem) \in Nat
      /\ \A k \in 1..Len(mem) : after[k] = mem[k]
  BY <1>1 DEF LedgerTyped
<1>. HIDE DEF after
<1>3. LedgerTyped(after, jud, longer, gone, left)
  <2>1. SubjectsIn(mem, jud) \subseteq SubjectsIn(after, jud) /\ r.act.subject \in SubjectsIn(after, jud)
    BY <1>2 DEF SubjectsIn
  <2>2. 1..Len(mem) \subseteq 1..Len(after)
    BY <1>2
  <2>3. \A n \in DOMAIN log : log[n].act.subject \in SubjectsIn(after, jud)
    BY <1>1, <2>1 DEF LedgerTyped
  <2>4. \A n \in DOMAIN longer : longer[n].act.subject \in SubjectsIn(after, jud)
    BY <1>1, <2>1, <2>3 DEF OneMore
  <2>5. (\A g \in gone : g.id \in 1..Len(after)) /\ left \subseteq 1..Len(after)
    BY <1>1, <1>8, <2>2 DEF LedgerTyped
  <2>6. longer \in Seq(ReceiptRows) /\ jud \in Seq(V!JudgmentRows)
    BY <1>1 DEF OneMore, LedgerTyped
  <2>. QED  BY <1>2, <2>4, <2>5, <2>6 DEF LedgerTyped
<1>4. MemoryLedger(longer, more, gone, left, i, row)
  <2>. DEFINE s == V!Memory(i)
  <2>1. s = r.act.subject /\ NoActs(log, s) /\ ~(\E g \in gone : g.id = i)
    <3>1. V!Memory(i) \notin SubjectsIn(mem, jud)
      BY <1>2, SubjectsDiffer DEF SubjectsIn
    <3>. QED  BY <1>1, <1>2, <3>1 DEF LedgerTyped, NoActs
  <2>. HIDE DEF s
  <2>2. Gains(longer, more, log, recs, s, r)
    BY <1>1, <2>1, OwnReceipt
  <2>3. OnRecord(log, recs, s) /\ RefsAreLinked(log, s, {})
    BY <2>1 DEF NoActs, OnRecord, RefsAreLinked
  <2>4. OnRecord(longer, more, s) /\ RefsAreLinked(longer, s, {})
    BY <1>1, <2>2, <2>3 DEF Gains
  <2>5. LastCommitIs(longer, s, row)
    BY <2>2, RowsAreCommits DEF Gains
  <2>. QED  BY <2>1, <2>4, <2>5 DEF MemoryLedger, s
<1>5. ASSUME NEW k \in 1..Len(mem) PROVE MemoryLedger(longer, more, gone, left, k, mem[k])
  <2>1. r.act.subject # V!Memory(k)
    <3>1. k # i
      BY <1>2
    <3>. QED  BY <3>1, SubjectsDiffer
  <2>. QED  BY <1>1, <2>1, OthersLedgers DEF Ledger, left
<1>6. ASSUME NEW j \in 1..Len(jud) PROVE JudgmentLedger(longer, more, j, jud[j])
  <2>1. r.act.subject # V!Judgment(j)
    BY SubjectsDiffer
  <2>. QED  BY <1>1, <2>1, OthersLedgers DEF Ledger
<1>7. Ledger(after, jud, longer, more, gone, left)
  <2>1. \A k \in 1..Len(after) : k \in 1..Len(mem) \/ k = i
    BY <1>2
  <2>. QED  BY <1>2, <1>3, <1>4, <1>5, <1>6, <1>9, <2>1 DEF Ledger
<1>. QED  BY <1>7 DEF after, longer, more, left

\* A rule link has no receipt, a legacy decision neither: what the ledger said of the
\* state is left behind.
LEMMA MemoryUnsigned ==
    ASSUME NEW mem, NEW jud, NEW log, NEW recs, NEW gone, NEW open,
           Ledger(mem, jud, log, recs, gone, open),
           NEW i \in 1..Len(mem), NEW row \in V!MemoryRows,
           row.evidence = mem[i].evidence
    PROVE  Ledger([mem EXCEPT ![i] = row], jud, log, recs, gone, open \cup {i})
<1>. DEFINE after == [mem EXCEPT ![i] = row]
            left == open \cup {i}
<1>1. LedgerTyped(mem, jud, log, gone, open)
  BY DEF Ledger
<1>2. /\ after \in Seq(V!MemoryRows) /\ Len(after) = Len(mem) /\ after[i] = row
      /\ \A k \in 1..Len(mem) : k # i => after[k] = mem[k]
  BY <1>1 DEF LedgerTyped
<1>. HIDE DEF after
<1>3. LedgerTyped(after, jud, log, gone, left)
  BY <1>1, <1>2 DEF LedgerTyped, SubjectsIn
<1>4. MemoryLedger(log, recs, gone, left, i, row)
  <2>1. MemoryLedger(log, recs, gone, open, i, mem[i])
    BY DEF Ledger
  <2>. QED  BY <2>1 DEF MemoryLedger
<1>6. ASSUME NEW k \in 1..Len(mem), k # i PROVE MemoryLedger(log, recs, gone, left, k, mem[k])
  <2>1. MemoryLedger(log, recs, gone, open, k, mem[k])
    BY DEF Ledger
  <2>. QED  BY <2>1 DEF MemoryLedger
<1>. HIDE DEF left
<1>5. Ledger(after, jud, log, recs, gone, left)
  BY <1>2, <1>3, <1>4, <1>6 DEF Ledger
<1>. QED  BY <1>5 DEF after, left

\* A link row of memory i is deleted behind the engine.
LEMMA LinkRemoved ==
    ASSUME NEW mem, NEW jud, NEW log, NEW recs, NEW gone, NEW open,
           Ledger(mem, jud, log, recs, gone, open),
           NEW i \in 1..Len(mem), NEW row \in V!MemoryRows, NEW ref,
           row.evidence \subseteq mem[i].evidence, ref \in Documents => ref \in mem[i].evidence,
           NEW fewer, fewer \subseteq recs, \A a \in recs : a.subject # V!Memory(i) => a \in fewer
    PROVE  Ledger([mem EXCEPT ![i] = row], jud, log, fewer, gone \cup {[id |-> i, ref |-> ref]}, open)
<1>. DEFINE after == [mem EXCEPT ![i] = row]
            more == gone \cup {[id |-> i, ref |-> ref]}
<1>1. LedgerTyped(mem, jud, log, gone, open)
  BY DEF Ledger
<1>2. /\ after \in Seq(V!MemoryRows) /\ Len(after) = Len(mem) /\ after[i] = row
      /\ \A k \in 1..Len(mem) : k # i => after[k] = mem[k]
  BY <1>1 DEF LedgerTyped
<1>3. /\ \A g \in more : g \in gone \/ (g.id = i /\ g.ref = ref)
      /\ gone \subseteq more /\ \E g \in more : g.id = i
  <2>1. [id |-> i, ref |-> ref].id = i /\ [id |-> i, ref |-> ref].ref = ref
    OBVIOUS
  <2>. QED  BY <2>1
<1>. HIDE DEF after, more
<1>4. LedgerTyped(after, jud, log, more, open)
  BY <1>1, <1>2, <1>3 DEF LedgerTyped, SubjectsIn
<1>5. MemoryLedger(log, fewer, more, open, i, row)
  <2>1. MemoryLedger(log, recs, gone, open, i, mem[i])
    BY DEF Ledger
  <2>. QED  BY <1>3, <2>1 DEF MemoryLedger
<1>6. \A s : s # V!Memory(i) /\ OnRecord(log, recs, s) => OnRecord(log, fewer, s)
  BY DEF OnRecord
<1>7. ASSUME NEW k \in 1..Len(mem), k # i PROVE MemoryLedger(log, fewer, more, open, k, mem[k])
  <2>1. MemoryLedger(log, recs, gone, open, k, mem[k]) /\ V!Memory(k) # V!Memory(i)
    BY <1>7, SubjectsDiffer DEF Ledger
  <2>2. \A g \in more : g.id = k => g \in gone
    BY <1>3, <1>7
  <2>. QED  BY <1>3, <1>6, <2>1, <2>2 DEF MemoryLedger
<1>8. ASSUME NEW j \in 1..Len(jud) PROVE JudgmentLedger(log, fewer, j, jud[j])
  <2>1. JudgmentLedger(log, recs, j, jud[j]) /\ V!Judgment(j) # V!Memory(i)
    BY SubjectsDiffer DEF Ledger
  <2>. QED  BY <1>6, <2>1 DEF JudgmentLedger
<1>10. LinksNamed(fewer)
  BY DEF Ledger, LinksNamed
<1>9. Ledger(after, jud, log, fewer, more, open)
  BY <1>2, <1>4, <1>5, <1>7, <1>8, <1>10 DEF Ledger
<1>. QED  BY <1>9 DEF after, more

LEMMA JudgmentProposed ==
    ASSUME NEW mem, NEW jud, NEW log, NEW recs, NEW gone, NEW open,
           Ledger(mem, jud, log, recs, gone, open),
           NEW row \in V!JudgmentRows
    PROVE  Ledger(mem, Append(jud, row), log, recs, gone, open)
<1>. DEFINE after == Append(jud, row)
            j == Len(jud) + 1
<1>1. LedgerTyped(mem, jud, log, gone, open)
  BY DEF Ledger
<1>2. /\ after \in Seq(V!JudgmentRows) /\ Len(after) = j /\ after[j] = row /\ Len(jud) \in Nat
      /\ \A k \in 1..Len(jud) : after[k] = jud[k]
  BY <1>1 DEF LedgerTyped
<1>. HIDE DEF after
<1>3. LedgerTyped(mem, after, log, gone, open)
  <2>1. SubjectsIn(mem, jud) \subseteq SubjectsIn(mem, after)
    BY <1>2 DEF SubjectsIn
  <2>. QED  BY <1>1, <1>2, <2>1 DEF LedgerTyped
<1>4. NoActs(log, V!Judgment(j))
  <2>1. V!Judgment(j) \notin SubjectsIn(mem, jud)
    BY <1>2, SubjectsDiffer DEF SubjectsIn
  <2>. QED  BY <1>1, <2>1 DEF LedgerTyped, NoActs
<1>5. JudgmentLedger(log, recs, j, row)
  BY <1>4 DEF JudgmentLedger, NoActs, OnRecord, OnlyDecisions
<1>6. \A k \in 1..Len(after) : k \in 1..Len(jud) \/ k = j
  BY <1>2
<1>7. Ledger(mem, after, log, recs, gone, open)
  BY <1>2, <1>3, <1>5, <1>6 DEF Ledger
<1>. QED  BY <1>7 DEF after

\* A decision commits the judgment it makes; what it supersedes commits nothing.
LEMMA JudgmentDecided ==
    ASSUME NEW mem, NEW jud, NEW log, NEW recs, NEW gone, NEW open,
           Ledger(mem, jud, log, recs, gone, open),
           NEW j \in 1..Len(jud), NEW after \in Seq(V!JudgmentRows), Len(after) = Len(jud),
           \A k \in 1..Len(jud) : k # j => (after[k] = jud[k] \/ after[k].succ # 0),
           NEW r \in ReceiptRows, r.act.subject = V!Judgment(j),
           r.act.action \in {"confirmed", "rejected"}, r.commit = V!JudgmentHash(after[j])
    PROVE  Ledger(mem, after, Append(log, r), recs \cup {r.act}, gone, Open(open, r))
<1>. DEFINE longer == Append(log, r)
            more == recs \cup {r.act}
            left == Open(open, r)
<1>1. LedgerTyped(mem, jud, log, gone, open) /\ OneMore(longer, log, r) /\ recs \subseteq more /\ r.act \in more
  BY ReceiptAdded DEF Ledger, LedgerTyped
<1>7. left \subseteq open
  BY DEF Open
<1>8. LinksNamed(more)
  BY DEF Ledger, LinksNamed
<1>. HIDE DEF longer, more, left
<1>2. LedgerTyped(mem, after, longer, gone, left)
  <2>1. SubjectsIn(mem, after) = SubjectsIn(mem, jud) /\ r.act.subject \in SubjectsIn(mem, jud)
    BY DEF SubjectsIn
  <2>2. \A n \in DOMAIN longer : longer[n].act.subject \in SubjectsIn(mem, after)
    BY <1>1, <2>1 DEF LedgerTyped, OneMore
  <2>3. longer \in Seq(ReceiptRows)
    BY <1>1 DEF OneMore
  <2>. QED  BY <1>1, <1>7, <2>2, <2>3 DEF LedgerTyped
<1>3. JudgmentLedger(longer, more, j, after[j])
  <2>. DEFINE s == V!Judgment(j)
  <2>1. s = r.act.subject /\ OnRecord(log, recs, s) /\ OnlyDecisions(log, s)
    BY DEF Ledger, JudgmentLedger
  <2>2. after[j] \in V!JudgmentRows
    OBVIOUS
  <2>. HIDE DEF s
  <2>3. Gains(longer, more, log, recs, s, r)
    BY <1>1, <2>1, OwnReceipt
  <2>4. LastCommitIs(longer, s, V!JudgmentHash(after[j]))
    BY <2>2, <2>3, RowsAreCommits DEF Gains
  <2>5. OnRecord(longer, more, s) /\ OnlyDecisions(longer, s)
    BY <1>1, <2>1, <2>3 DEF Gains
  <2>. QED  BY <2>4, <2>5 DEF JudgmentLedger, s
<1>4. ASSUME NEW k \in 1..Len(jud), k # j PROVE JudgmentLedger(longer, more, k, after[k])
  <2>1. r.act.subject # V!Judgment(k)
    BY <1>4, SubjectsDiffer
  <2>2. JudgmentLedger(longer, more, k, jud[k])
    BY <1>1, <2>1, OthersLedgers DEF Ledger
  <2>. QED  BY <1>4, <2>2 DEF JudgmentLedger
<1>5. ASSUME NEW i \in 1..Len(mem) PROVE MemoryLedger(longer, more, gone, left, i, mem[i])
  <2>1. r.act.subject # V!Memory(i)
    BY SubjectsDiffer
  <2>. QED  BY <1>1, <2>1, OthersLedgers DEF Ledger, left
<1>6. Ledger(mem, after, longer, more, gone, left)
  BY <1>2, <1>3, <1>4, <1>5, <1>8 DEF Ledger
<1>. QED  BY <1>6 DEF longer, more, left

-----------------------------------------------------------------------------
\* A row that has a successor is superseded, and the successor is newer.
Successors(rows) ==
    \A i \in 1..Len(rows) :
        /\ rows[i].status = "superseded" <=> rows[i].succ # 0
        /\ rows[i].succ # 0 => rows[i].succ \in (i + 1)..Len(rows)
Predecessors(jud) == \A j \in 1..Len(jud) : jud[j].pred \in 0..(j - 1)

\* What holds of verification: the walks over the successors end, and the ledger agrees.
Verifiable ==
    /\ Ledger(vMemories, vJudgments, vReceipts, vRecords, vRemoved, vUnsealed)
    /\ Successors(vMemories) /\ Successors(vJudgments) /\ Predecessors(vJudgments)
    /\ Len(vJudgments) <= MaxJudgments

LEMMA OneSealed ==
    ASSUME vReceipts \in Seq(ReceiptRows), NEW act \in ActRows, NEW commit \in Commits,
           V!Seal(<<act>>, <<commit>>)
    PROVE  \E r \in ReceiptRows : /\ r.act = act /\ r.commit = commit
                                  /\ vReceipts' = Append(vReceipts, r) /\ vUnsealed' = Open(vUnsealed, r)
<1>. DEFINE r == [act |-> act, commit |-> commit]
            acts == <<act>>
            emitted == [n \in DOMAIN acts |-> [act |-> acts[n], commit |-> <<commit>>[n]]]
<1>1. r \in ReceiptRows /\ r.act = act /\ r.commit = commit
  BY DEF ReceiptRows
<1>2. emitted = <<r>>
  OBVIOUS
<1>4. /\ vReceipts' = vReceipts \o <<r>>
      /\ vUnsealed' = {i \in vUnsealed : \A n \in DOMAIN acts :
                                           acts[n].subject = V!Memory(i) => <<commit>>[n] = V!NoCommit}
  BY <1>2 DEF V!Seal
<1>3. vUnsealed' = Open(vUnsealed, r)
  <2>1. DOMAIN acts = {1} /\ acts[1] = act /\ <<commit>>[1] = commit
    OBVIOUS
  <2>. HIDE DEF acts, r
  <2>. QED  BY <1>1, <1>4, <2>1 DEF Open
<1>5. vReceipts \o <<r>> = Append(vReceipts, r)
  <2>. HIDE DEF r, ReceiptRows
  <2>. QED  BY <1>1
<1>. HIDE DEF r
<1>. QED  BY <1>1, <1>3, <1>4, <1>5

LEMMA OneReceipt ==
    ASSUME vReceipts \in Seq(ReceiptRows), NEW act \in ActRows, NEW commit \in Commits,
           V!Emit(<<act>>, <<commit>>)
    PROVE  \E r \in ReceiptRows : /\ r.act = act /\ r.commit = commit
                                  /\ vReceipts' = Append(vReceipts, r) /\ vUnsealed' = Open(vUnsealed, r)
                                  /\ vRecords' = vRecords \cup {r.act}
<1>1. V!Seal(<<act>>, <<commit>>) /\ vRecords' = vRecords \cup V!Range(<<act>>)
  BY DEF V!Emit
<1>2. V!Range(<<act>>) = {act}
  BY DEF V!Range
<1>. QED  BY <1>1, <1>2, OneSealed

LEMMA TwoReceipts ==
    ASSUME vReceipts \in Seq(ReceiptRows), NEW act1 \in ActRows, NEW act2 \in ActRows,
           NEW commit1 \in Commits, NEW commit2 \in Commits,
           V!Emit(<<act1, act2>>, <<commit1, commit2>>)
    PROVE  \E first \in ReceiptRows, second \in ReceiptRows :
               /\ first.act = act1 /\ first.commit = commit1
               /\ second.act = act2 /\ second.commit = commit2
               /\ vReceipts' = Append(Append(vReceipts, first), second)
               /\ vUnsealed' = Open(Open(vUnsealed, first), second)
               /\ vRecords' = (vRecords \cup {first.act}) \cup {second.act}
<1>. DEFINE one == [act |-> act1, commit |-> commit1]
            other == [act |-> act2, commit |-> commit2]
            acts == <<act1, act2>>
            commits == <<commit1, commit2>>
            emitted == [n \in DOMAIN acts |-> [act |-> acts[n], commit |-> commits[n]]]
<1>1. /\ one \in ReceiptRows /\ one.act = act1 /\ one.commit = commit1
      /\ other \in ReceiptRows /\ other.act = act2 /\ other.commit = commit2
  BY DEF ReceiptRows
<1>2. emitted = <<one, other>>
  OBVIOUS
<1>3. V!Range(acts) = {act1, act2}
  BY DEF V!Range
<1>4. /\ vReceipts' = vReceipts \o <<one, other>> /\ vRecords' = vRecords \cup {act1, act2}
      /\ vUnsealed' = {i \in vUnsealed : \A n \in DOMAIN acts :
                                           acts[n].subject = V!Memory(i) => commits[n] = V!NoCommit}
  BY <1>2, <1>3 DEF V!Emit, V!Seal
<1>5. vReceipts \o <<one, other>> = Append(Append(vReceipts, one), other)
  <2>. HIDE DEF one, other, ReceiptRows
  <2>. QED  BY <1>1
<1>6. vRecords' = (vRecords \cup {one.act}) \cup {other.act}
  <2>. HIDE DEF one, other
  <2>. QED  BY <1>1, <1>4
<1>7. vUnsealed' = Open(Open(vUnsealed, one), other)
  <2>1. /\ DOMAIN acts = {1, 2} /\ acts[1] = act1 /\ acts[2] = act2
        /\ commits[1] = commit1 /\ commits[2] = commit2
    OBVIOUS
  <2>. HIDE DEF acts, commits, one, other
  <2>. QED  BY <1>1, <1>4, <2>1 DEF Open
<1>. HIDE DEF one, other
<1>. QED  BY <1>1, <1>4, <1>5, <1>6, <1>7

\* The subjects and the references of the recorded acts are of their kinds.
LEMMA SubjectTyped ==
    /\ \A i \in Nat : V!Memory(i) \in SubjectRows /\ V!Judgment(i) \in SubjectRows
    /\ V!None \in RefsOfActs /\ Documents \subseteq RefsOfActs
  BY DEF V!Memory, V!Judgment, SubjectRows, RefsOfActs

\* Rows that keep their successor, start without one or get a newer one.
LEMMA SuccessorsKept ==
    ASSUME NEW rows, NEW after, Successors(rows), Len(rows) \in Nat, Len(after) \in Nat,
           Len(rows) <= Len(after),
           \A i \in 1..Len(after) :
               \/ /\ i \in 1..Len(rows) /\ after[i].succ = rows[i].succ
                  /\ after[i].status = "superseded" <=> rows[i].status = "superseded"
               \/ after[i].succ = 0 /\ after[i].status # "superseded"
               \/ after[i].succ \in (i + 1)..Len(after) /\ after[i].status = "superseded"
    PROVE  Successors(after)
<1>1. SUFFICES ASSUME NEW i \in 1..Len(after)
               PROVE  /\ after[i].status = "superseded" <=> after[i].succ # 0
                      /\ after[i].succ # 0 => after[i].succ \in (i + 1)..Len(after)
  BY DEF Successors
<1>2. CASE i \in 1..Len(rows) /\ after[i].succ = rows[i].succ
           /\ (after[i].status = "superseded" <=> rows[i].status = "superseded")
  <2>1. /\ rows[i].status = "superseded" <=> rows[i].succ # 0
        /\ rows[i].succ # 0 => rows[i].succ \in (i + 1)..Len(rows)
    BY <1>2 DEF Successors
  <2>2. (i + 1)..Len(rows) \subseteq (i + 1)..Len(after)
    OBVIOUS
  <2>. QED  BY <1>2, <2>1, <2>2
<1>. QED  BY <1>2

\* An act of one memory that keeps its successor.
LEMMA MemoryStepKeeps ==
    ASSUME Verifiable, NEW i \in 1..Len(vMemories), NEW row \in V!MemoryRows,
           vMemories' = [vMemories EXCEPT ![i] = row], vJudgments' = vJudgments,
           row.succ = vMemories[i].succ,
           row.status = "superseded" <=> vMemories[i].status = "superseded",
           Ledger(vMemories', vJudgments, vReceipts', vRecords', vRemoved', vUnsealed')
    PROVE  Verifiable'
<1>1. vMemories \in Seq(V!MemoryRows) /\ Len(vMemories) \in Nat
  BY DEF Verifiable, Ledger, LedgerTyped
<1>2. /\ Len(vMemories') = Len(vMemories) /\ vMemories'[i] = row
      /\ \A k \in 1..Len(vMemories) : k # i => vMemories'[k] = vMemories[k]
  BY <1>1
<1>3. Successors(vMemories')
  <2>. DEFINE after == vMemories'
  <2>1. \A k \in 1..Len(after) : /\ k \in 1..Len(vMemories) /\ after[k].succ = vMemories[k].succ
                                 /\ after[k].status = "superseded" <=> vMemories[k].status = "superseded"
    BY <1>2
  <2>2. Len(after) \in Nat /\ Len(vMemories) <= Len(after) /\ Successors(vMemories)
    BY <1>1, <1>2 DEF Verifiable
  <2>. HIDE DEF after
  <2>3. Successors(after)
    BY <1>1, <2>1, <2>2, SuccessorsKept
  <2>. QED  BY <2>3 DEF after
<1>. QED  BY <1>3 DEF Verifiable

LEMMA VerifyTypes ==
    ASSUME V!VerificationAssumption, Verifiable
    PROVE  /\ vMemories \in Seq(V!MemoryRows) /\ Len(vMemories) \in Nat
           /\ vJudgments \in Seq(V!JudgmentRows) /\ Len(vJudgments) \in Nat
           /\ vReceipts \in Seq(ReceiptRows) /\ 0 \in 0..MaxMemories /\ 0 \in 0..MaxJudgments
           /\ V!None \notin Documents /\ Documents \cap Rules = {}
           /\ MaxMemories \in Nat /\ MaxJudgments \in Nat
  BY DEF V!VerificationAssumption, Verifiable, Ledger, LedgerTyped, V!None

LEMMA SaveKeeps ==
    ASSUME V!VerificationAssumption, Verifiable, NEW a \in Actors, NEW topic \in V!Topics, V!Save(a, topic)
    PROVE  Verifiable'
<1>. DEFINE i == Len(vMemories) + 1
            row == [topic |-> topic, status |-> "pending_review", evidence |-> {}, rules |-> {}, succ |-> 0]
            old(p) == [vMemories[p] EXCEPT !.status = "superseded", !.succ = i]
            saved == V!Act(V!Memory(i), "recorded", a, V!None)
            replaced(p) == V!Act(V!Memory(p), "superseded", a, V!None)
<1>1. /\ i <= MaxMemories /\ UNCHANGED <<vJudgments, vRemoved>>
      /\ \/ /\ vMemories' = Append(vMemories, row)
            /\ V!Emit(<<saved>>, <<row>>)
         \/ \E p \in V!Current(topic) :
            /\ vMemories' = Append([vMemories EXCEPT ![p] = old(p)], row)
            /\ V!Emit(<<replaced(p), saved>>, <<old(p), row>>)
  BY DEF V!Save
<1>2. /\ row \in V!MemoryRows /\ row.evidence = {} /\ row.succ = 0 /\ row.status # "superseded"
      /\ row \in Commits
  <2>1. row \in V!MemoryRows
    BY VerifyTypes DEF V!MemoryRows, V!Statuses
  <2>. QED  BY <2>1 DEF Commits
<1>3. /\ saved \in ActRows /\ saved.subject = V!Memory(i) /\ saved.ref = V!None
      /\ saved.action = "recorded"
      /\ i \in Nat
  <2>1. i \in Nat
    BY VerifyTypes
  <2>2. V!Memory(i) \in SubjectRows
    BY <2>1, SubjectTyped
  <2>. QED  BY <2>1, <2>2, SubjectTyped DEF ActRows, ActionNames, V!Act
<1>. HIDE DEF row, saved
<1>4. CASE vMemories' = Append(vMemories, row) /\ V!Emit(<<saved>>, <<row>>)
  <2>1. PICK r \in ReceiptRows : /\ r.act = saved /\ r.commit = row
                                 /\ vReceipts' = Append(vReceipts, r) /\ vRecords' = vRecords \cup {r.act}
                                 /\ vUnsealed' = Open(vUnsealed, r)
    BY <1>2, <1>3, <1>4, VerifyTypes, OneReceipt
  <2>2. Ledger(vMemories', vJudgments, vReceipts', vRecords', vRemoved, vUnsealed')
    BY <1>2, <1>3, <1>4, <2>1, MemorySaved DEF Verifiable
  <2>3. /\ Len(vMemories') = i /\ vMemories'[i] = row
        /\ \A k \in 1..Len(vMemories) : vMemories'[k] = vMemories[k]
    BY <1>2, <1>4, VerifyTypes
  <2>4. Successors(vMemories')
    <3>1. \A k \in 1..i : k \in 1..Len(vMemories) \/ k = i
      BY VerifyTypes
    <3>. DEFINE after == vMemories'
    <3>2. /\ Len(after) \in Nat /\ Len(vMemories) \in Nat /\ Len(vMemories) <= Len(after)
          /\ Successors(vMemories)
      BY <1>3, <2>3, VerifyTypes DEF Verifiable
    <3>3. \A k \in 1..Len(after) :
              \/ /\ k \in 1..Len(vMemories) /\ after[k].succ = vMemories[k].succ
                 /\ after[k].status = "superseded" <=> vMemories[k].status = "superseded"
              \/ after[k].succ = 0 /\ after[k].status # "superseded"
      BY <1>2, <2>3, <3>1
    <3>. HIDE DEF after, i
    <3>4. Successors(after)
      BY <3>2, <3>3, SuccessorsKept
    <3>. QED  BY <3>4 DEF after
  <2>. QED  BY <1>1, <2>2, <2>4 DEF Verifiable
<1>5. ASSUME NEW p \in V!Current(topic), vMemories' = Append([vMemories EXCEPT ![p] = old(p)], row),
             V!Emit(<<replaced(p), saved>>, <<old(p), row>>)
      PROVE  Verifiable'
  <2>. DEFINE gone == old(p)
              before == replaced(p)
              middle == [vMemories EXCEPT ![p] = gone]
  <2>1. p \in 1..Len(vMemories) /\ vMemories[p] \in V!MemoryRows
    BY VerifyTypes DEF V!Current, V!MemoryIds
  <2>2. /\ gone \in V!MemoryRows /\ gone.evidence = vMemories[p].evidence
        /\ gone.succ = i /\ gone.status = "superseded" /\ gone \in Commits
    <3>2. i <= MaxMemories /\ i \in Nat /\ MaxMemories \in Nat
      BY <1>1, <1>3, VerifyTypes
    <3>. HIDE DEF i
    <3>1. i \in 0..MaxMemories
      BY <3>2
    <3>. QED  BY <2>1, <3>1 DEF V!MemoryRows, V!Statuses, Commits
  <2>3. before \in ActRows /\ before.subject = V!Memory(p) /\ before.ref = V!None
        /\ before.action = "superseded"
    <3>1. V!Memory(p) \in SubjectRows
      BY <2>1, SubjectTyped, VerifyTypes
    <3>. QED  BY <3>1, SubjectTyped DEF ActRows, ActionNames, V!Act
  <2>11. V!Emit(<<before, saved>>, <<gone, row>>)
    BY <1>5
  <2>. HIDE DEF gone, before, replaced
  <2>4. PICK first \in ReceiptRows, second \in ReceiptRows :
            /\ first.act = before /\ first.commit = gone
            /\ second.act = saved /\ second.commit = row
            /\ vReceipts' = Append(Append(vReceipts, first), second)
            /\ vUnsealed' = Open(Open(vUnsealed, first), second)
            /\ vRecords' = (vRecords \cup {first.act}) \cup {second.act}
    <3>1. vReceipts \in Seq(ReceiptRows)
      BY VerifyTypes
    <3>2. before \in ActRows /\ saved \in ActRows /\ gone \in Commits /\ row \in Commits
      BY <1>2, <1>3, <2>2, <2>3
    <3>. HIDE DEF i, middle, ActRows, Commits, ReceiptRows
    <3>. QED  BY <2>11, <3>1, <3>2, TwoReceipts, SMTT(60)
  <2>5. Ledger(middle, vJudgments, Append(vReceipts, first), vRecords \cup {first.act}, vRemoved,
           Open(vUnsealed, first))
    BY <2>1, <2>2, <2>3, <2>4, MemoryRecorded DEF Verifiable
  <2>6. /\ middle \in Seq(V!MemoryRows) /\ Len(middle) = Len(vMemories) /\ middle[p] = gone
        /\ \A k \in 1..Len(vMemories) : k # p => middle[k] = vMemories[k]
    BY <2>1, <2>2, VerifyTypes
  <2>. HIDE DEF middle
  <2>7. vMemories' = Append(middle, row)
    BY <1>5 DEF middle, gone
  <2>8. Ledger(vMemories', vJudgments, vReceipts', vRecords', vRemoved, vUnsealed')
    BY <1>2, <1>3, <2>4, <2>5, <2>6, <2>7, MemorySaved
  <2>9. /\ Len(vMemories') = i /\ vMemories'[i] = row
        /\ \A k \in 1..Len(vMemories) : vMemories'[k] = middle[k]
    BY <1>2, <2>6, <2>7, VerifyTypes
  <2>10. Successors(vMemories')
    <3>1. \A k \in 1..i : k = p \/ k = i \/ (k \in 1..Len(vMemories) /\ k # p)
      BY VerifyTypes
    <3>2. vMemories'[p] = gone /\ i \in (p + 1)..i
      BY <1>3, <2>1, <2>6, <2>9
    <3>3. \A k \in 1..Len(vMemories) : k # p => vMemories'[k] = vMemories[k]
      BY <2>6, <2>9
    <3>. DEFINE after == vMemories'
    <3>4. /\ Len(after) = i /\ Len(after) \in Nat /\ Len(vMemories) \in Nat
          /\ Len(vMemories) <= Len(after) /\ Successors(vMemories)
      BY <1>3, <2>9, VerifyTypes DEF Verifiable
    <3>5. ASSUME NEW k \in 1..Len(after)
          PROVE  \/ /\ k \in 1..Len(vMemories) /\ after[k].succ = vMemories[k].succ
                    /\ after[k].status = "superseded" <=> vMemories[k].status = "superseded"
                 \/ after[k].succ = 0 /\ after[k].status # "superseded"
                 \/ after[k].succ \in (k + 1)..Len(after) /\ after[k].status = "superseded"
      <4>1. CASE k = p
        BY <2>2, <2>9, <3>2, <4>1
      <4>2. CASE k = i
        BY <1>2, <2>9, <4>2
      <4>3. CASE k \in 1..Len(vMemories) /\ k # p
        BY <3>3, <4>3
      <4>. QED  BY <2>9, <3>1, <4>1, <4>2, <4>3
    <3>. HIDE DEF after, i
    <3>6. Successors(after)
      BY <3>4, <3>5, SuccessorsKept
    <3>. QED  BY <3>6 DEF after
  <2>. QED  BY <1>1, <2>8, <2>10 DEF Verifiable
<1>. QED  BY <1>1, <1>4, <1>5

LEMMA LinkKeeps ==
    ASSUME V!VerificationAssumption, Verifiable, NEW i \in V!MemoryIds,
           \/ \E a \in Actors, ref \in Documents : V!LinkEvidence(a, i, ref)
           \/ \E a \in Actors, refs \in SUBSET Documents : V!LinkBatch(a, i, refs)
           \/ \E rule \in Rules : V!LinkRule(i, rule)
    PROVE  Verifiable'
<1>1. i \in 1..Len(vMemories) /\ vMemories[i] \in V!MemoryRows /\ i \in Nat
  BY VerifyTypes DEF V!MemoryIds
<1>2. ASSUME NEW a \in Actors, NEW ref \in Documents, V!LinkEvidence(a, i, ref) PROVE Verifiable'
  <2>. DEFINE row == [vMemories[i] EXCEPT !.evidence = @ \cup {ref}]
              linked == V!Act(V!Memory(i), "evidence_linked", a, ref)
  <2>1. /\ vMemories' = [vMemories EXCEPT ![i] = row] /\ V!Emit(<<linked>>, <<row>>)
        /\ UNCHANGED <<vJudgments, vRemoved>>
    BY <1>2 DEF V!LinkEvidence
  <2>2. /\ row \in V!MemoryRows /\ row.evidence = vMemories[i].evidence \cup {ref}
        /\ row.succ = vMemories[i].succ /\ row.status = vMemories[i].status /\ row \in Commits
    BY <1>1 DEF V!MemoryRows, Commits
  <2>3. linked \in ActRows /\ linked.subject = V!Memory(i) /\ linked.ref = ref
    <3>1. V!Memory(i) \in SubjectRows
      BY <1>1, SubjectTyped
    <3>. QED  BY <3>1, SubjectTyped DEF ActRows, ActionNames, V!Act
  <2>. HIDE DEF row, linked
  <2>4. PICK r \in ReceiptRows : /\ r.act = linked /\ r.commit = row
                                 /\ vReceipts' = Append(vReceipts, r) /\ vRecords' = vRecords \cup {r.act}
                                 /\ vUnsealed' = Open(vUnsealed, r)
    BY <2>1, <2>2, <2>3, VerifyTypes, OneReceipt
  <2>5. Ledger(vMemories', vJudgments, vReceipts', vRecords', vRemoved, vUnsealed')
    BY <1>1, <2>1, <2>2, <2>3, <2>4, MemoryRecorded DEF Verifiable
  <2>. QED  BY <1>1, <2>1, <2>2, <2>5, MemoryStepKeeps
<1>3. ASSUME NEW rule \in Rules, V!LinkRule(i, rule) PROVE Verifiable'
  <2>. DEFINE row == [vMemories[i] EXCEPT !.rules = @ \cup {rule}]
  <2>1. /\ vMemories' = [vMemories EXCEPT ![i] = row] /\ vUnsealed' = vUnsealed \cup {i}
        /\ UNCHANGED <<vJudgments, vReceipts, vRecords, vRemoved>>
    BY <1>1, <1>3 DEF V!LinkRule
  <2>2. /\ row \in V!MemoryRows /\ row.evidence = vMemories[i].evidence
        /\ row.succ = vMemories[i].succ /\ row.status = vMemories[i].status
    BY <1>1 DEF V!MemoryRows
  <2>. HIDE DEF row
  <2>3. Ledger(vMemories', vJudgments, vReceipts', vRecords', vRemoved', vUnsealed')
    BY <1>1, <2>1, <2>2, MemoryUnsigned DEF Verifiable
  <2>. QED  BY <1>1, <2>1, <2>2, <2>3, MemoryStepKeeps
<1>4. ASSUME NEW a \in Actors, NEW refs \in SUBSET Documents, V!LinkBatch(a, i, refs) PROVE Verifiable'
  <2>. DEFINE new == refs \ vMemories[i].evidence
              row == [vMemories[i] EXCEPT !.evidence = @ \cup new]
              linked == V!Act(V!Memory(i), "evidence_linked", a, V!None)
              more == vRecords \cup {V!Act(V!Memory(i), "evidence_linked", a, ref) : ref \in new}
  <2>1. /\ vMemories' = [vMemories EXCEPT ![i] = row] /\ V!Seal(<<linked>>, <<row>>)
        /\ vRecords' = more /\ UNCHANGED <<vJudgments, vRemoved>>
    BY <1>4 DEF V!LinkBatch
  <2>2. /\ row \in V!MemoryRows /\ vMemories[i].evidence \subseteq row.evidence
        /\ row.succ = vMemories[i].succ /\ row.status = vMemories[i].status /\ row \in Commits
    BY <1>1 DEF V!MemoryRows, Commits
  <2>3. linked \in ActRows /\ linked.subject = V!Memory(i) /\ linked.ref = V!None /\ OfBatch(linked)
    <3>1. V!Memory(i) \in SubjectRows
      BY <1>1, SubjectTyped
    <3>. QED  BY <3>1, SubjectTyped DEF ActRows, ActionNames, V!Act, OfBatch
  <2>4. vRecords \subseteq more /\ LinksNamed(more)
    <3>1. LinksNamed(vRecords)
      BY DEF Verifiable, Ledger
    <3>. QED  BY <3>1 DEF LinksNamed, V!Act
  <2>. HIDE DEF row, linked, more
  <2>5. PICK r \in ReceiptRows : /\ r.act = linked /\ r.commit = row
                                 /\ vReceipts' = Append(vReceipts, r) /\ vUnsealed' = Open(vUnsealed, r)
    BY <2>1, <2>2, <2>3, VerifyTypes, OneSealed
  <2>6. Ledger(vMemories', vJudgments, vReceipts', vRecords', vRemoved, vUnsealed')
    BY <1>1, <2>1, <2>2, <2>3, <2>4, <2>5, MemoryActs DEF Verifiable
  <2>. QED  BY <1>1, <2>1, <2>2, <2>6, MemoryStepKeeps
<1>. QED  BY <1>2, <1>3, <1>4


LEMMA DecideKeeps ==
    ASSUME V!VerificationAssumption, Verifiable, NEW a \in Actors, NEW i \in V!MemoryIds,
           NEW to \in V!Verdicts, V!DecideMemory(a, i, to)
    PROVE  Verifiable'
<1>0. to \in {"approved", "rejected", "returned", "voided"}
  BY DEF V!Verdicts
<1>. DEFINE row == [vMemories[i] EXCEPT !.status = to]
            decided == V!Act(V!Memory(i), to, a, V!None)
            shut == V!Act(V!Memory(i), "closed", a, V!None)
<1>1. i \in 1..Len(vMemories) /\ vMemories[i] \in V!MemoryRows /\ i \in Nat
  BY VerifyTypes DEF V!MemoryIds
<1>2. /\ vMemories' = [vMemories EXCEPT ![i] = row] /\ UNCHANGED <<vJudgments, vRemoved>>
      /\ vMemories[i].status \in {"approved", "pending_review"}
      /\ V!Emit(<<decided, shut>>, <<row, row>>) \/ V!Emit(<<decided>>, <<row>>)
  BY DEF V!DecideMemory, V!Decidable
<1>3. /\ row \in V!MemoryRows /\ row.evidence = vMemories[i].evidence
      /\ row.succ = vMemories[i].succ /\ row.status = to /\ row \in Commits
  BY <1>0, <1>1 DEF V!MemoryRows, V!Statuses, Commits
<1>4. /\ decided \in ActRows /\ decided.subject = V!Memory(i) /\ decided.ref = V!None
      /\ shut \in ActRows /\ shut.subject = V!Memory(i) /\ shut.ref = V!None
      /\ decided.action # "evidence_linked" /\ shut.action # "evidence_linked"
  <2>1. V!Memory(i) \in SubjectRows
    BY <1>1, SubjectTyped
  <2>. QED  BY <1>0, <2>1, SubjectTyped DEF ActRows, ActionNames, V!Act
<1>. HIDE DEF row, decided, shut
<1>5. vReceipts \in Seq(ReceiptRows)
  BY VerifyTypes
<1>6. CASE V!Emit(<<decided>>, <<row>>)
  <2>1. PICK r \in ReceiptRows : /\ r.act = decided /\ r.commit = row
                                 /\ vReceipts' = Append(vReceipts, r) /\ vRecords' = vRecords \cup {r.act}
                                 /\ vUnsealed' = Open(vUnsealed, r)
    BY <1>3, <1>4, <1>5, <1>6, OneReceipt
  <2>2. Ledger(vMemories', vJudgments, vReceipts', vRecords', vRemoved, vUnsealed')
    BY <1>1, <1>2, <1>3, <1>4, <2>1, MemoryRecorded DEF Verifiable
  <2>. QED  BY <1>0, <1>1, <1>2, <1>3, <2>2, MemoryStepKeeps
<1>7. CASE V!Emit(<<decided, shut>>, <<row, row>>)
  <2>1. decided \in ActRows /\ shut \in ActRows /\ row \in Commits
    BY <1>3, <1>4
  <2>2. PICK first \in ReceiptRows, second \in ReceiptRows :
            /\ first.act = decided /\ first.commit = row
            /\ second.act = shut /\ second.commit = row
            /\ vReceipts' = Append(Append(vReceipts, first), second)
            /\ vUnsealed' = Open(Open(vUnsealed, first), second)
            /\ vRecords' = (vRecords \cup {first.act}) \cup {second.act}
    BY <1>5, <1>7, <2>1, TwoReceipts, SMTT(60)
  <2>. DEFINE middle == [vMemories EXCEPT ![i] = row]
  <2>3. Ledger(middle, vJudgments, Append(vReceipts, first), vRecords \cup {first.act}, vRemoved,
           Open(vUnsealed, first))
    BY <1>1, <1>3, <1>4, <2>2, MemoryRecorded DEF Verifiable
  <2>4. middle \in Seq(V!MemoryRows) /\ i \in 1..Len(middle) /\ middle[i] = row
        /\ [middle EXCEPT ![i] = row] = middle
    <3>1. vMemories \in Seq(V!MemoryRows)
      BY VerifyTypes
    <3>2. middle \in Seq(V!MemoryRows) /\ i \in DOMAIN middle /\ middle[i] = row /\ Len(middle) = Len(vMemories)
      BY <1>1, <1>3, <3>1
    <3>3. [middle EXCEPT ![i] = row] = [middle EXCEPT ![i] = middle[i]]
      BY <3>2
    <3>4. [middle EXCEPT ![i] = middle[i]] = middle
      BY <3>2
    <3>. QED  BY <1>1, <3>2, <3>3, <3>4
  <2>5. vMemories' = middle
    BY <1>2
  <2>. HIDE DEF middle
  <2>6. Ledger([middle EXCEPT ![i] = row], vJudgments, Append(Append(vReceipts, first), second),
               (vRecords \cup {first.act}) \cup {second.act}, vRemoved,
               Open(Open(vUnsealed, first), second))
    BY <1>3, <1>4, <2>2, <2>3, <2>4, MemoryRecorded
  <2>7. Ledger(vMemories', vJudgments, vReceipts', vRecords', vRemoved, vUnsealed')
    BY <2>2, <2>4, <2>5, <2>6
  <2>. QED  BY <1>0, <1>1, <1>2, <1>3, <2>7, MemoryStepKeeps
<1>. QED  BY <1>2, <1>6, <1>7

LEMMA UnsignedKeeps ==
    ASSUME V!VerificationAssumption, Verifiable, NEW i \in V!MemoryIds, NEW to \in V!Verdicts,
           V!DecideUnsigned(i, to)
    PROVE  Verifiable'
<1>. DEFINE row == [vMemories[i] EXCEPT !.status = to]
<1>1. i \in 1..Len(vMemories) /\ vMemories[i] \in V!MemoryRows
  BY VerifyTypes DEF V!MemoryIds
<1>2. /\ vMemories' = [vMemories EXCEPT ![i] = row] /\ vUnsealed' = vUnsealed \cup {i}
      /\ UNCHANGED <<vJudgments, vReceipts, vRecords, vRemoved>>
      /\ vMemories[i].status \in {"approved", "pending_review"}
  BY DEF V!DecideUnsigned, V!Decidable
<1>3. /\ row \in V!MemoryRows /\ row.evidence = vMemories[i].evidence
      /\ row.succ = vMemories[i].succ /\ row.status # "superseded"
  BY <1>1 DEF V!MemoryRows, V!Statuses, V!Verdicts
<1>. HIDE DEF row
<1>4. Ledger(vMemories', vJudgments, vReceipts', vRecords', vRemoved', vUnsealed')
  BY <1>1, <1>2, <1>3, MemoryUnsigned DEF Verifiable
<1>. QED  BY <1>1, <1>2, <1>3, <1>4, MemoryStepKeeps

LEMMA ReopenKeeps ==
    ASSUME V!VerificationAssumption, Verifiable, NEW a \in Actors, NEW i \in V!MemoryIds,
           V!ReopenPeriod(a, i)
    PROVE  Verifiable'
<1>. DEFINE reopened == V!Act(V!Memory(i), "reopened", a, V!None)
<1>1. i \in 1..Len(vMemories) /\ vMemories[i] \in V!MemoryRows /\ i \in Nat
  BY VerifyTypes DEF V!MemoryIds
<1>2. UNCHANGED <<vMemories, vJudgments, vRemoved>> /\ V!Emit(<<reopened>>, <<V!NoCommit>>)
  BY DEF V!ReopenPeriod
<1>3. /\ reopened \in ActRows /\ reopened.subject = V!Memory(i) /\ reopened.ref = V!None
      /\ reopened.action = "reopened"
      /\ V!NoCommit \in Commits
  <2>1. V!Memory(i) \in SubjectRows
    BY <1>1, SubjectTyped
  <2>. QED  BY <2>1, SubjectTyped DEF ActRows, ActionNames, V!Act, Commits
<1>. HIDE DEF reopened
<1>4. vReceipts \in Seq(ReceiptRows)
  BY VerifyTypes
<1>5. PICK r \in ReceiptRows : /\ r.act = reopened /\ r.commit = V!NoCommit
                               /\ vReceipts' = Append(vReceipts, r) /\ vRecords' = vRecords \cup {r.act}
                                 /\ vUnsealed' = Open(vUnsealed, r)
  BY <1>2, <1>3, <1>4, OneReceipt
<1>6. [vMemories EXCEPT ![i] = vMemories[i]] = vMemories
  BY <1>1, VerifyTypes
<1>7. Ledger([vMemories EXCEPT ![i] = vMemories[i]], vJudgments, vReceipts', vRecords', vRemoved, vUnsealed')
  BY <1>1, <1>3, <1>5, MemoryRecorded DEF Verifiable
<1>. QED  BY <1>2, <1>6, <1>7 DEF Verifiable

LEMMA ProposeKeeps ==
    ASSUME V!VerificationAssumption, Verifiable, NEW pred \in {0} \cup V!JudgmentIds, V!ProposeJudgment(pred)
    PROVE  Verifiable'
<1>. DEFINE row == [pred |-> pred, judge |-> V!None, status |-> "proposed", succ |-> 0]
            j == Len(vJudgments) + 1
<1>1. /\ vJudgments' = Append(vJudgments, row) /\ Len(vJudgments) < MaxJudgments
      /\ UNCHANGED <<vMemories, vReceipts, vRecords, vRemoved, vUnsealed>>
  BY DEF V!ProposeJudgment
<1>2. /\ vJudgments \in Seq(V!JudgmentRows) /\ Len(vJudgments) \in Nat /\ MaxJudgments \in Nat
      /\ 0 \in 0..MaxJudgments
  BY VerifyTypes
<1>3. pred \in 0..Len(vJudgments)
  BY <1>2 DEF V!JudgmentIds
<1>4. row \in V!JudgmentRows /\ row.succ = 0 /\ row.status # "superseded" /\ row.pred = pred
  <2>1. pred \in 0..MaxJudgments
    BY <1>1, <1>2, <1>3
  <2>. QED  BY <1>2, <2>1 DEF V!JudgmentRows
<1>. HIDE DEF row
<1>5. /\ Len(vJudgments') = j /\ vJudgments'[j] = row
      /\ \A k \in 1..Len(vJudgments) : vJudgments'[k] = vJudgments[k]
  BY <1>1, <1>2, <1>4
<1>6. Ledger(vMemories, vJudgments', vReceipts, vRecords, vRemoved, vUnsealed)
  BY <1>1, <1>4, JudgmentProposed DEF Verifiable
<1>7. \A k \in 1..j : k \in 1..Len(vJudgments) \/ k = j
  BY <1>2
<1>8. Successors(vJudgments')
  <2>. DEFINE after == vJudgments'
  <2>1. Len(after) = j /\ Len(after) \in Nat /\ Len(vJudgments) <= Len(after) /\ Successors(vJudgments)
    BY <1>2, <1>5 DEF Verifiable
  <2>2. \A k \in 1..Len(after) :
            \/ /\ k \in 1..Len(vJudgments) /\ after[k].succ = vJudgments[k].succ
               /\ after[k].status = "superseded" <=> vJudgments[k].status = "superseded"
            \/ after[k].succ = 0 /\ after[k].status # "superseded"
    BY <1>4, <1>5, <1>7
  <2>. HIDE DEF after, j
  <2>3. Successors(after)
    BY <1>2, <2>1, <2>2, SuccessorsKept
  <2>. QED  BY <2>3 DEF after
<1>9. Predecessors(vJudgments')
  BY <1>2, <1>3, <1>4, <1>5, <1>7 DEF Verifiable, Predecessors
<1>10. Len(vJudgments') <= MaxJudgments
  BY <1>1, <1>2, <1>5
<1>. QED  BY <1>1, <1>6, <1>8, <1>9, <1>10 DEF Verifiable

LEMMA JudgeKeeps ==
    ASSUME V!VerificationAssumption, Verifiable, NEW a \in Actors, NEW j \in V!JudgmentIds,
           NEW to \in {"confirmed", "rejected"}, V!DecideJudgment(a, j, to)
    PROVE  Verifiable'
<1>. DEFINE row == [vJudgments[j] EXCEPT !.status = to, !.judge = a]
            replaced(k) == [vJudgments[k] EXCEPT !.status = "superseded", !.succ = j]
            after == [k \in V!JudgmentIds |-> CASE k = j -> row
                                                [] k = row.pred /\ to = "confirmed" -> replaced(k)
                                                [] OTHER -> vJudgments[k]]
            decided == V!Act(V!Judgment(j), to, a, V!None)
<1>1. /\ vJudgments' = after /\ V!Emit(<<decided>>, <<V!JudgmentHash(row)>>)
      /\ vJudgments[j].status = "proposed" /\ UNCHANGED <<vMemories, vRemoved>>
  BY DEF V!DecideJudgment
<1>2. /\ vJudgments \in Seq(V!JudgmentRows) /\ Len(vJudgments) \in Nat /\ MaxJudgments \in Nat
      /\ 0 \in 0..MaxJudgments /\ Len(vJudgments) <= MaxJudgments /\ vReceipts \in Seq(ReceiptRows)
  BY VerifyTypes DEF Verifiable
<1>3. j \in 1..Len(vJudgments) /\ vJudgments[j] \in V!JudgmentRows /\ j \in Nat
  BY <1>2 DEF V!JudgmentIds
<1>4. /\ row \in V!JudgmentRows /\ row.succ = vJudgments[j].succ /\ row.status = to
      /\ row.pred = vJudgments[j].pred
  BY <1>3 DEF V!JudgmentRows
<1>5. row.pred \in 0..(j - 1)
  BY <1>3, <1>4 DEF Verifiable, Predecessors
<1>6. ASSUME NEW k \in 1..Len(vJudgments)
      PROVE  /\ replaced(k) \in V!JudgmentRows /\ replaced(k).succ = j
             /\ replaced(k).status = "superseded" /\ replaced(k).pred = vJudgments[k].pred
  <2>1. vJudgments[k] \in V!JudgmentRows /\ j \in 0..MaxJudgments
    BY <1>2, <1>3
  <2>. QED  BY <2>1 DEF V!JudgmentRows
<1>7. /\ decided \in ActRows /\ decided.subject = V!Judgment(j)
      /\ decided.action \in {"confirmed", "rejected"} /\ V!JudgmentHash(row) \in Commits
  <2>1. V!Judgment(j) \in SubjectRows
    BY <1>3, SubjectTyped
  <2>. QED  BY <1>4, <2>1, SubjectTyped, RowsAreCommits DEF ActRows, ActionNames, V!Act
<1>. HIDE DEF row, replaced, decided
<1>8. /\ DOMAIN after = 1..Len(vJudgments) /\ after[j] = row
      /\ \A k \in 1..Len(vJudgments) : k # j =>
            \/ after[k] = vJudgments[k]
            \/ k = row.pred /\ after[k] = replaced(k)
  <2>1. DOMAIN after = 1..Len(vJudgments)
    BY DEF V!JudgmentIds
  <2>2. after[j] = row
    <3>1. after[j] = CASE j = j -> row
                       [] j = row.pred /\ to = "confirmed" -> replaced(j)
                       [] OTHER -> vJudgments[j]
      BY DEF V!JudgmentIds
    <3>2. j # row.pred
      BY <1>3, <1>5
    <3>. HIDE DEF after
    <3>. QED  BY <3>1, <3>2
  <2>3. ASSUME NEW k \in 1..Len(vJudgments), k # j
        PROVE  after[k] = vJudgments[k] \/ (k = row.pred /\ after[k] = replaced(k))
    <3>1. after[k] = CASE k = j -> row
                       [] k = row.pred /\ to = "confirmed" -> replaced(k)
                       [] OTHER -> vJudgments[k]
      BY DEF V!JudgmentIds
    <3>. HIDE DEF after
    <3>2. CASE k = row.pred /\ to = "confirmed"
      BY <2>3, <3>1, <3>2
    <3>3. CASE ~(k = row.pred /\ to = "confirmed")
      BY <2>3, <3>1, <3>3
    <3>. QED  BY <3>2, <3>3
  <2>. HIDE DEF after
  <2>. QED  BY <2>1, <2>2, <2>3
<1>. HIDE DEF after
<1>9. after \in Seq(V!JudgmentRows) /\ Len(after) = Len(vJudgments)
  <2>1. ASSUME NEW k \in 1..Len(vJudgments) PROVE after[k] \in V!JudgmentRows
    BY <1>2, <1>4, <1>6, <1>8
  <2>2. after \in [1..Len(vJudgments) -> V!JudgmentRows]
    <3>1. after = [k \in V!JudgmentIds |-> after[k]]
      BY DEF after
    <3>. QED  BY <1>8, <2>1, <3>1 DEF V!JudgmentIds
  <2>. QED  BY <1>2, <2>2
<1>10. Ledger(vMemories, vJudgments', vReceipts', vRecords', vRemoved, vUnsealed')
  <2>1. PICK r \in ReceiptRows : /\ r.act = decided /\ r.commit = V!JudgmentHash(row)
                                 /\ vReceipts' = Append(vReceipts, r) /\ vRecords' = vRecords \cup {r.act}
                                 /\ vUnsealed' = Open(vUnsealed, r)
    BY <1>1, <1>2, <1>7, OneReceipt
  <2>2. \A k \in 1..Len(vJudgments) : k # j => (after[k] = vJudgments[k] \/ after[k].succ # 0)
    BY <1>3, <1>6, <1>8
  <2>3. /\ Ledger(vMemories, vJudgments, vReceipts, vRecords, vRemoved, vUnsealed)
        /\ r.act.subject = V!Judgment(j) /\ r.act.action \in {"confirmed", "rejected"}
        /\ r.commit = V!JudgmentHash(after[j])
    BY <1>7, <1>8, <2>1 DEF Verifiable
  <2>4. Ledger(vMemories, after, Append(vReceipts, r), vRecords \cup {r.act}, vRemoved, Open(vUnsealed, r))
    BY <1>3, <1>9, <2>2, <2>3, JudgmentDecided
  <2>. QED  BY <1>1, <2>1, <2>4
<1>11. Successors(after)
  <2>1. Len(after) \in Nat /\ Len(vJudgments) <= Len(after) /\ Successors(vJudgments)
    BY <1>2, <1>9 DEF Verifiable
  <2>2. ASSUME NEW k \in 1..Len(after)
        PROVE  \/ /\ k \in 1..Len(vJudgments) /\ after[k].succ = vJudgments[k].succ
                  /\ after[k].status = "superseded" <=> vJudgments[k].status = "superseded"
               \/ after[k].succ = 0 /\ after[k].status # "superseded"
               \/ after[k].succ \in (k + 1)..Len(after) /\ after[k].status = "superseded"
    <3>1. CASE k = j
      BY <1>1, <1>4, <1>8, <1>9, <3>1
    <3>2. CASE k # j /\ after[k] = vJudgments[k]
      BY <1>9, <3>2
    <3>3. CASE k # j /\ k = row.pred /\ after[k] = replaced(k)
      <4>1. after[k].succ = j /\ after[k].status = "superseded"
        BY <1>6, <1>9, <3>3
      <4>2. j \in (k + 1)..Len(after)
        BY <1>3, <1>5, <1>9, <3>3
      <4>. QED  BY <4>1, <4>2
    <3>. QED  BY <1>8, <1>9, <3>1, <3>2, <3>3
  <2>. QED  BY <1>2, <2>1, <2>2, SuccessorsKept
<1>12. Predecessors(after)
  <2>1. ASSUME NEW k \in 1..Len(after) PROVE after[k].pred = vJudgments[k].pred
    BY <1>4, <1>6, <1>8, <1>9
  <2>. QED  BY <1>9, <2>1 DEF Verifiable, Predecessors
<1>. QED  BY <1>1, <1>2, <1>9, <1>10, <1>11, <1>12 DEF Verifiable

LEMMA RemoveKeeps ==
    ASSUME V!VerificationAssumption, Verifiable, NEW i \in V!MemoryIds, NEW ref \in Documents \cup Rules,
           V!RemoveLink(i, ref)
    PROVE  Verifiable'
<1>. DEFINE row == [vMemories[i] EXCEPT !.evidence = @ \ {ref}, !.rules = @ \ {ref}]
            fewer == {r \in vRecords : ~(r.subject = V!Memory(i) /\ r.ref = ref)}
<1>1. /\ i \in 1..Len(vMemories) /\ vMemories[i] \in V!MemoryRows /\ vMemories \in Seq(V!MemoryRows)
      /\ Documents \cap Rules = {}
  BY VerifyTypes DEF V!MemoryIds
<1>2. /\ vMemories' = [vMemories EXCEPT ![i] = row] /\ vRecords' = fewer
      /\ vRemoved' = vRemoved \cup {[id |-> i, ref |-> ref]}
      /\ UNCHANGED <<vJudgments, vReceipts, vUnsealed>>
      /\ ref \in vMemories[i].evidence \cup vMemories[i].rules
  BY <1>1 DEF V!RemoveLink
<1>3. /\ row \in V!MemoryRows /\ row.evidence \subseteq vMemories[i].evidence
      /\ row.succ = vMemories[i].succ /\ row.status = vMemories[i].status
      /\ vMemories[i].rules \subseteq Rules
  BY <1>1 DEF V!MemoryRows
<1>4. fewer \subseteq vRecords /\ \A r \in vRecords : r.subject # V!Memory(i) => r \in fewer
  OBVIOUS
<1>. HIDE DEF row, fewer
<1>5. ref \in Documents => ref \in vMemories[i].evidence
  BY <1>1, <1>2, <1>3
<1>6. Ledger([vMemories EXCEPT ![i] = row], vJudgments, vReceipts, fewer,
             vRemoved \cup {[id |-> i, ref |-> ref]}, vUnsealed)
  BY <1>1, <1>3, <1>4, <1>5, LinkRemoved DEF Verifiable
<1>7. Ledger(vMemories', vJudgments', vReceipts', vRecords', vRemoved', vUnsealed')
  BY <1>2, <1>6
<1>. QED  BY <1>1, <1>2, <1>3, <1>7, MemoryStepKeeps

LEMMA StartsVerifiable == ASSUME V!VerificationAssumption, V!Init PROVE Verifiable
<1>1. /\ vMemories = <<>> /\ vJudgments = <<>> /\ vReceipts = <<>> /\ vRemoved = {} /\ vRecords = {} /\ vUnsealed = {}
      /\ Len(vMemories) = 0 /\ Len(vJudgments) = 0 /\ MaxJudgments \in Nat
  BY DEF V!Init, V!VerificationAssumption
<1>2. LedgerTyped(vMemories, vJudgments, vReceipts, vRemoved, vUnsealed)
  BY <1>1 DEF LedgerTyped
<1>. QED  BY <1>1, <1>2 DEF Verifiable, Ledger, LinksNamed, Successors, Predecessors

\* Verification stays sound: the ledger says of each subject what its row says, unless
\* the row changed without a receipt since, the links came in a batch or one was
\* removed behind its back; and every successor is a newer row; for any number of
\* memories, judgments, links and removals.
THEOREM VerificationStaysSound == V!VerificationAssumption /\ V!Spec => []Verifiable
<1>1. V!VerificationAssumption /\ V!Init => Verifiable
  BY StartsVerifiable
<1>2. V!VerificationAssumption /\ Verifiable /\ [V!Next]_V!vars => Verifiable'
  <2>1. SUFFICES ASSUME V!VerificationAssumption, Verifiable, [V!Next]_V!vars PROVE Verifiable'
    OBVIOUS
  <2>2. CASE V!SaveStep
    BY <2>1, <2>2, SaveKeeps DEF V!SaveStep
  <2>3. CASE V!LinkStep
    BY <2>1, <2>3, LinkKeeps DEF V!LinkStep
  <2>4. CASE V!DecideStep
    BY <2>1, <2>4, DecideKeeps, UnsignedKeeps, ReopenKeeps DEF V!DecideStep
  <2>5. CASE V!JudgeStep
    BY <2>1, <2>5, ProposeKeeps, JudgeKeeps DEF V!JudgeStep
  <2>6. CASE V!RemoveStep
    BY <2>1, <2>6, RemoveKeeps DEF V!RemoveStep
  <2>7. CASE UNCHANGED V!vars
    BY <2>1, <2>7 DEF V!vars, Verifiable
  <2>. QED  BY <2>1, <2>2, <2>3, <2>4, <2>5, <2>6, <2>7 DEF V!Next
<1>3. V!VerificationAssumption
  BY PartsAssumption
<1>. QED  BY <1>1, <1>2, <1>3, PTL DEF V!Spec

-----------------------------------------------------------------------------
\* The walk over the successors stays among the rows, ends at one that has none, and
\* shows no other row that is current.
LEMMA WalkEnds ==
    ASSUME NEW rows, NEW n \in Nat, DOMAIN rows = 1..n, Len(rows) = n, Successors(rows), NEW i \in 1..n
    PROVE  V!Supersession(rows, i)
<1>. DEFINE W == V!Walk(rows, i)
<1>1. W \subseteq 1..n /\ i \in W
  BY DEF V!Walk
<1>2. ASSUME NEW k \in W, rows[k].succ # 0 PROVE rows[k].succ \in W
  <2>1. rows[k].succ \in 1..n
    <3>1. rows[k].succ \in (k + 1)..n /\ k \in 1..n
      BY <1>1, <1>2 DEF Successors
    <3>. QED  BY <3>1
  <2>2. ASSUME NEW Z \in SUBSET DOMAIN rows, i \in Z, \A j \in Z : rows[j].succ \in Z \cup {0}
        PROVE  rows[k].succ \in Z
    <3>1. k \in Z
      BY <2>2 DEF V!Walk
    <3>. QED  BY <1>2, <2>2, <3>1
  <2>. QED  BY <2>1, <2>2 DEF V!Walk
<1>. HIDE DEF W
<1>3. PICK k \in W : \A j \in W : k >= j
  BY <1>1, Greatest
<1>4. rows[k].succ = 0
  <2>1. SUFFICES ASSUME rows[k].succ # 0 PROVE FALSE
    OBVIOUS
  <2>2. rows[k].succ \in (k + 1)..n /\ k \in 1..n
    BY <1>1, <2>1 DEF Successors
  <2>3. k >= rows[k].succ
    BY <1>2, <1>3, <2>1
  <2>. QED  BY <2>2, <2>3
<1>5. \A j \in W : rows[j].status = "superseded" <=> rows[j].succ # 0
  BY <1>1 DEF Successors
<1>. QED  BY <1>4, <1>5 DEF V!Supersession, W

\* The latest committing receipt is the one that says it last.
LEMMA CommitFound ==
    ASSUME vReceipts \in Seq(ReceiptRows), NEW s, NEW state, LastCommitIs(vReceipts, s, state)
    PROVE  V!Committed(s) = state
<1>. DEFINE commits == {n \in V!Acts(s) : vReceipts[n].commit # V!NoCommit}
<1>1. PICK n \in DOMAIN vReceipts :
         /\ vReceipts[n].act.subject = s /\ vReceipts[n].commit = state /\ state # V!NoCommit
         /\ \A m \in DOMAIN vReceipts : (m > n /\ vReceipts[m].act.subject = s) => vReceipts[m].commit = V!NoCommit
  BY DEF LastCommitIs
<1>2. DOMAIN vReceipts \subseteq Nat
  <2>. HIDE DEF ReceiptRows
  <2>. QED  OBVIOUS
<1>3. n \in commits /\ commits \subseteq Nat
  BY <1>1, <1>2 DEF V!Acts
<1>4. \A m \in commits : m <= n
  BY <1>1, <1>2 DEF V!Acts
<1>5. V!Committed(s) = IF commits = {} THEN V!NoCommit ELSE vReceipts[V!Max(commits)].commit
  BY DEF V!Committed
<1>. HIDE DEF commits
<1>6. V!Max(commits) = n
  <2>1. V!Max(commits) \in commits /\ \A m \in commits : V!Max(commits) >= m
    BY <1>3, <1>4 DEF V!Max
  <2>. QED  BY <1>3, <1>4, <2>1
<1>. QED  BY <1>1, <1>3, <1>5, <1>6

LEMMA VerdictFollows ==
    ASSUME V!VerificationAssumption, Verifiable PROVE V!ActsVerify /\ V!RemovalIsDetected
<1>1. /\ vMemories \in Seq(V!MemoryRows) /\ Len(vMemories) \in Nat
      /\ vJudgments \in Seq(V!JudgmentRows) /\ Len(vJudgments) \in Nat
      /\ vReceipts \in Seq(ReceiptRows) /\ V!None \notin Documents
      /\ V!MemoryIds = 1..Len(vMemories) /\ V!JudgmentIds = 1..Len(vJudgments)
  BY VerifyTypes DEF V!MemoryIds, V!JudgmentIds
<1>2. ASSUME NEW i \in V!MemoryIds, ~V!Tampered(i), i \notin vUnsealed, ~V!Batched(i),
             V!Actions(V!Memory(i)) \subseteq V!Covered
      PROVE  V!VerifyMemory(i)
  <2>. DEFINE s == V!Memory(i)
  <2>1. /\ OnRecord(vReceipts, vRecords, s) /\ RefsAreLinked(vReceipts, s, vMemories[i].evidence)
        /\ LastCommitIs(vReceipts, s, vMemories[i])
    <3>1. ~BatchedIn(vReceipts, s)
      BY <1>2 DEF BatchedIn, OfBatch, V!Batched, V!Acts
    <3>. QED  BY <1>1, <1>2, <3>1 DEF Verifiable, Ledger, MemoryLedger, V!Tampered
  <2>2. V!Supersession(vMemories, i)
    BY <1>1, WalkEnds DEF Verifiable
  <2>3. V!Provenance(s)
    BY <1>2, <2>1 DEF V!Provenance, V!Acts, V!Actions, OnRecord
  <2>4. V!EvidenceAvailable(i)
    <3>1. V!Committed(s) = vMemories[i]
      BY <1>1, <2>1, CommitFound
    <3>. QED  BY <2>1, <3>1 DEF V!EvidenceAvailable, V!Envelope, V!Acts, RefsAreLinked
  <2>. QED  BY <2>2, <2>3, <2>4 DEF V!VerifyMemory
<1>3. ASSUME NEW j \in V!JudgmentIds, V!Decided(j), vJudgments[j].succ = 0
      PROVE  V!VerifyJudgment(j)
  <2>. DEFINE s == V!Judgment(j)
  <2>1. /\ OnRecord(vReceipts, vRecords, s) /\ OnlyDecisions(vReceipts, s)
        /\ NoActs(vReceipts, s) \/ LastCommitIs(vReceipts, s, V!JudgmentHash(vJudgments[j]))
    BY <1>1, <1>3 DEF Verifiable, Ledger, JudgmentLedger
  <2>2. ~NoActs(vReceipts, s)
    BY <1>3 DEF V!Decided, V!Acts, NoActs
  <2>3. V!Provenance(s)
    BY <2>1 DEF V!Provenance, V!Acts, V!Covered, OnRecord, OnlyDecisions
  <2>4. V!Supersession(vJudgments, j)
    BY <1>1, WalkEnds DEF Verifiable
  <2>5. V!Committed(s) = V!JudgmentHash(vJudgments[j])
    BY <1>1, <2>1, <2>2, CommitFound
  <2>. QED  BY <2>3, <2>4, <2>5 DEF V!VerifyJudgment
<1>4. ASSUME NEW i \in V!MemoryIds, V!Missing(i) \cap Documents # {} PROVE ~V!VerifyMemory(i)
  <2>1. PICK g \in vRemoved : g.id = i /\ g.ref \in Documents
                              /\ g.ref \notin vMemories[i].evidence \cup vMemories[i].rules
    BY <1>4 DEF V!Missing
  <2>2. BatchedIn(vReceipts, V!Memory(i)) \/ LinkedByAct(vReceipts, V!Memory(i), g.ref)
    BY <1>1, <2>1 DEF Verifiable, Ledger, MemoryLedger
  <2>3. CASE LinkedByAct(vReceipts, V!Memory(i), g.ref)
    <3>1. PICK n \in DOMAIN vReceipts :
              vReceipts[n].act.subject = V!Memory(i) /\ vReceipts[n].act.ref = g.ref
      BY <2>3 DEF LinkedByAct
    <3>2. ~V!EvidenceAvailable(i)
      BY <1>1, <2>1, <3>1 DEF V!EvidenceAvailable, V!Acts
    <3>. QED  BY <3>2 DEF V!VerifyMemory
  <2>4. CASE BatchedIn(vReceipts, V!Memory(i))
    <3>1. PICK n \in DOMAIN vReceipts :
              vReceipts[n].act.subject = V!Memory(i) /\ OfBatch(vReceipts[n].act)
      BY <2>4 DEF BatchedIn
    <3>2. vReceipts[n].act \notin vRecords
      BY <1>1, <3>1 DEF Verifiable, Ledger, LinksNamed, OfBatch
    <3>. QED  BY <3>1, <3>2 DEF V!VerifyMemory, V!Provenance, V!Acts
  <2>. QED  BY <2>2, <2>3, <2>4
<1>. QED  BY <1>2, <1>3, <1>4 DEF V!ActsVerify, V!RemovalIsDetected

\* The verdict of offline verification is right both ways, whatever the order of acts,
\* link removals and re-links: a memory whose acts have a receipt and a record each, and
\* that did not change without one since, verifies; a lost evidence link never does
\* (internal/server/verify_service.go:105).
THEOREM VerdictHolds == MCSpec => []VerdictIsRight
<1>1. Verifiable => VerdictIsRight
  BY PartsAssumption, VerdictFollows DEF VerdictIsRight
<1>2. MCSpec => []Verifiable
  BY PartsRun, VerificationStaysSound, PartsAssumption
<1>. QED  BY <1>1, <1>2, PTL

LEMMA VerificationTyped == V!VerificationAssumption /\ Verifiable => V!TypeOK
<1>1. SUFFICES ASSUME V!VerificationAssumption, Verifiable PROVE V!TypeOK
  OBVIOUS
<1>2. LedgerTyped(vMemories, vJudgments, vReceipts, vRemoved, vUnsealed)
  BY <1>1 DEF Verifiable, Ledger
<1>3. ASSUME NEW n \in DOMAIN vReceipts
      PROVE  vReceipts[n].act.subject \in V!SubjectsOf /\ vReceipts[n].act.by \in Actors
  <2>1. vReceipts[n].act.subject \in V!SubjectsOf
    BY <1>2 DEF LedgerTyped, SubjectsIn, V!SubjectsOf, V!MemoryIds, V!JudgmentIds
  <2>2. vReceipts[n] \in ReceiptRows
    <3>. HIDE DEF ReceiptRows
    <3>. QED  BY <1>2 DEF LedgerTyped
  <2>. QED  BY <2>1, <2>2 DEF ReceiptRows, ActRows
<1>. QED  BY <1>2, <1>3 DEF V!TypeOK, LedgerTyped, V!MemoryIds

\* Every table of bindings, receipts, keys, verification and rules is well typed.
THEOREM EveryTableTyped == MCSpec => []TypesOK
<1>. DEFINE P == part = "enforced"
            Q == part = "rotations"
<1>0. E!FiscalScopeAssumption /\ B!FiscalScopeAssumption
  BY FiscalScopeAssumption DEF RuntimeModes, E!FiscalScopeAssumption, E!RuntimeModes,
     B!FiscalScopeAssumption, B!RuntimeModes
<1>1. /\ MCSpec => []TypeOK
      /\ MCSpec => []L!TypeOK
      /\ MCSpec => []Verifiable
  BY PartsAssumption, PartsRun, TypesHold, TypesOfRules, VerificationStaysSound
<1>2. Verifiable => V!TypeOK
  BY PartsAssumption, VerificationTyped
<1>3. /\ P /\ [MCNext]_all => P'
      /\ ~P /\ [MCNext]_all => ~P'
      /\ Q /\ [MCNext]_all => Q'
      /\ ~Q /\ [MCNext]_all => ~Q'
  BY PartStays DEF MCNext, BindingPart, BatchPart, EnforcedPart, SigningPart, RotationPart,
         VerificationPart, RulePart, all
<1>4. /\ MCSpec /\ P => []E!TypeOK
      /\ MCSpec /\ ~P => []B!TypeOK
  BY <1>0, BatchesRun, E!TypesHold, B!TypesHold
<1>5. /\ MCSpec /\ Q => []T!TypeOK
      /\ MCSpec /\ ~Q => []S!TypeOK
  BY SigningRuns, PartsAssumption, S!TypesHold, T!TypesHold
<1>6. TypesOK <=> /\ TypeOK /\ V!TypeOK /\ L!TypeOK
                  /\ P => E!TypeOK
                  /\ ~P => B!TypeOK
                  /\ Q => T!TypeOK
                  /\ ~Q => S!TypeOK
  BY DEF TypesOK
<1>. HIDE DEF P, Q
<1>. QED  BY <1>1, <1>2, <1>3, <1>4, <1>5, <1>6, PTL DEF MCSpec, all

===============================================================================
