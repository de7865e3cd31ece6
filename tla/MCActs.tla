------------------------------- MODULE MCActs --------------------------------
(***************************************************************************)
(* The instance of the modules about what the covered acts leave behind:   *)
(* their fiscal links, their signed receipts with the keyring, the rules   *)
(* they pin, and what offline verification says of them.  They are         *)
(* separate stores of facts about the same acts, so a behaviour belongs to *)
(* one module, its part, and leaves the others where they start; the       *)
(* states are the sum.                                                     *)
(***************************************************************************)
EXTENDS FiscalScope, TLC

CONSTANTS Documents, s1, s2, k1, k2, x, y,
          Rules, MaxJudgments, MaxReceipts,                     \* of verification
          Windows, MaxTime, MaxRevisions, MaxDecisions, MaxWait \* of the rules

VARIABLES fMemories, fObjects, fUnlinked, fEscaped,
          clock, keyring, made, keys, ledger, writer, task,
          vMemories, vJudgments, vReceipts, vRecords, vRemoved, vUnsealed,
          now, chain, decisions, closed,
          part

binding    == vars
batching   == <<fMemories, fObjects, fUnlinked, fEscaped>>
signing    == <<clock, keyring, made, keys, ledger, writer, task>>
verifying  == <<vMemories, vJudgments, vReceipts, vRecords, vRemoved, vUnsealed>>
ruling     == <<now, chain, decisions, closed>>

-----------------------------------------------------------------------------
\* The instances are of the modules with the proofs, where there is one: it adds
\* theorems and no state.  One memory and batches of two references, for the two revisions and one
\* reference of the extended module.
B == INSTANCE FiscalScopeProofs WITH
        Refs <- Documents, MaxMemories <- 1, MaxLinks <- 4,
        memories <- fMemories, objects <- fObjects,
        unlinked <- fUnlinked, escaped <- fEscaped

\* Enforcing handles only.
E == INSTANCE FiscalScopeProofs WITH
        Handles <- {"enforce"}, MaxLinks <- 2,
        memories <- fMemories, objects <- fObjects,
        unlinked <- fUnlinked, escaped <- fEscaped

\* Acts of both kinds, the first use beside `keys init`, one rotation.
S == INSTANCE ReceiptProofs WITH
        Subjects <- {x, y}, Memories <- {x}, Signers <- {s1, s2}, EarlyStampers <- {s2},
        Initializers <- {k1}, Rotators <- {k2},
        MaxTime <- 1, MaxKeys <- 3, MaxReceipts <- 2, receipts <- ledger

\* Two rotations at once, beside an act.
T == INSTANCE ReceiptProofs WITH
        Subjects <- {x}, Memories <- {}, Signers <- {s1}, EarlyStampers <- {},
        Initializers <- {}, Rotators <- {k1, k2},
        MaxTime <- 1, MaxKeys <- 3, MaxReceipts <- 2, receipts <- ledger

\* Two memories and two judgments, links, batches and their removal by direct SQL.
V == INSTANCE Verification WITH
        Refs <- Documents, MaxRemoved <- 2,
        memories <- vMemories, judgments <- vJudgments, receipts <- vReceipts,
        records <- vRecords, removed <- vRemoved, unsealed <- vUnsealed

\* One decision and two revisions of a rule: without a window, with one, and
\* with one that has no end.
Vigencia(from, to) == [from |-> from, to |-> to]
ThreeWindows == {Vigencia(-1, 3), Vigencia(0, 2), Vigencia(2, 3)}
L == INSTANCE PolicyRules

ASSUME PartsAssumption ==
    /\ L!PolicyRulesAssumption
    /\ S!ReceiptsAssumption /\ T!ReceiptsAssumption /\ V!VerificationAssumption

-----------------------------------------------------------------------------
MCInit ==
    /\ Init /\ B!Init /\ V!Init /\ L!Init
    /\ \/ part \in {"binding", "batches", "enforced", "verification", "signing", "rules"}
          /\ S!Init
       \/ part = "rotations" /\ T!Init

BindingPart  == part = "binding" /\ Next
                /\ UNCHANGED <<batching, signing, verifying, ruling, part>>
BatchPart    == part = "batches" /\ B!Next
                /\ UNCHANGED <<binding, signing, verifying, ruling, part>>
EnforcedPart == part = "enforced" /\ E!Next
                /\ UNCHANGED <<binding, signing, verifying, ruling, part>>
SigningPart  == part = "signing" /\ S!Next
                /\ UNCHANGED <<binding, batching, verifying, ruling, part>>
RotationPart == part = "rotations" /\ T!Next
                /\ UNCHANGED <<binding, batching, verifying, ruling, part>>
VerificationPart == part = "verification" /\ V!Next
                    /\ UNCHANGED <<binding, batching, signing, ruling, part>>
RulePart == part = "rules" /\ L!Next
            /\ UNCHANGED <<binding, batching, signing, verifying, part>>

MCNext == \/ BindingPart \/ BatchPart \/ EnforcedPart
          \/ SigningPart \/ RotationPart \/ VerificationPart \/ RulePart
MCSpec == MCInit /\ [][MCNext]_<<binding, batching, signing, verifying, ruling, part>>

Symmetry == Permutations(Actors) \cup Permutations(Documents)

-----------------------------------------------------------------------------
\* INVARIANT.  The tables of bindings, receipts, keys, and records are well typed.
TypesOK == /\ TypeOK /\ V!TypeOK /\ L!TypeOK
           /\ IF part = "enforced" THEN E!TypeOK ELSE B!TypeOK
           /\ IF part = "rotations" THEN T!TypeOK ELSE S!TypeOK

\* INVARIANT.  Every guarded act on a bound memory is linked, alone and in a batch, of
\* which all is linked or nothing is there; and a store that only enforcing handles
\* write has no unbound subject.
ActsAreLinked == /\ GuardedActsAreLinked /\ B!GuardedActsAreLinked
                 /\ part = "enforced" => E!EnforceBindsEverything

\* INVARIANT.  Signing survives a rotation, whatever crashes: the chain of a subject
\* stamped under the write lock verifies, and the active key of the file can sign or
\* is not registered yet.
SigningSurvives == part = "signing" => S!SigningSurvives

\* ACTION PROPERTY.  A key that the store has revoked signs nothing, though after two
\* rotations at once the file may offer it again.
RevokedKeySignsNothing == T!RevokedKeySignsNothing

\* INVARIANT.  The verdict is right both ways: acts with a receipt and a record each
\* verify in whatever order they happened, what was changed without one fails only
\* until the next act, and a subject that lost an evidence link never verifies.
VerdictIsRight == V!ActsVerify /\ V!RemovalIsDetected

\* ACTION PROPERTY.  What verification says of the rule behind a past decision changes
\* only when a further revision claims its instant.
PastTracesStand == L!PastTracesStand

\* VIOLATED.  The impact report and verification agree on which decisions fall under a
\* revision (internal/core/rules.go:83).
ImpactIsExact == L!ImpactIsExact
=============================================================================
