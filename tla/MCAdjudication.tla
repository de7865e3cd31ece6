--------------------------- MODULE MCAdjudication ---------------------------
(***************************************************************************)
(* The instance of the three modules about adjudicating people: judgments, *)
(* reconciliations and the alerts on their pace.  The one table that two   *)
(* of them write is `relations`, and no judgment reads it: Reconciliations *)
(* has an action of its own for a row that a judgment inserts.  So a       *)
(* behaviour belongs to one of the modules, its part, and leaves the       *)
(* others where they start; the states are the sum and not the product.    *)
(***************************************************************************)
EXTENDS Judgments, ReviewVelocity, Integers, TLC

CONSTANTS ana, ben, bank, book, march, april

VARIABLES reconciliations, reconciliationKeys, edges, closedPeriods, elsewhere,
          part

judging     == vars
reconciling == <<reconciliations, reconciliationKeys, edges, closedPeriods, elsewhere>>

Person(roles) == [tenant |-> TRUE, company |-> TRUE, member |-> TRUE,
                  roles |-> roles, assurance |-> 1]

\* ana may adjudicate; ben holds a tax role, outside the ladder.
SeniorAndTax == (ana :> Person({"senior_accountant"})) @@ (ben :> Person({"tax_reviewer"}))

-----------------------------------------------------------------------------
\* The bank statement of March against a book entry of April, by two methods.
BankAndBook == {[left |-> bank, right |-> book, method |-> m] : m \in {"statement", "ledger"}}
MarchApril  == (bank :> march) @@ (book :> april)

\* A plain difference, and one that leaves the range: Half - 1 - (-1).
PlainAndExtreme == {[left |-> 1, right |-> 2], [left |-> 3, right |-> -1]}

\* The instance is of the module with the proofs, which adds theorems and no state.
R == INSTANCE ReconciliationProofs WITH
        People <- {ana}, Credential <- [p \in {ana} |-> Person({"controller"})],
        Pairs <- BankAndBook, PeriodOf <- MarchApril, Amounts <- PlainAndExtreme,
        Half <- 4, MaxReconciliations <- 3,
        keys <- reconciliationKeys, closed <- closedPeriods

ASSUME PartsAssumption == R!ReconciliationsAssumption /\ VelocityAssumption

-----------------------------------------------------------------------------
MCInit == /\ Init /\ R!Init /\ VelocityInit
          /\ part \in {"judgments", "reconciliations", "velocity"}

JudgmentPart == part = "judgments" /\ Next /\ UNCHANGED <<reconciling, velocityVars, part>>
ReconciliationPart ==
    part = "reconciliations" /\ R!Next /\ UNCHANGED <<judging, velocityVars, part>>
VelocityPart == part = "velocity" /\ VelocityNext /\ UNCHANGED <<judging, reconciling, part>>

MCNext == JudgmentPart \/ ReconciliationPart \/ VelocityPart
MCSpec == MCInit /\ [][MCNext]_<<judging, reconciling, velocityVars, part>>

Symmetry == Permutations(Requests) \cup Permutations(Proposers)

-----------------------------------------------------------------------------
\* INVARIANT.  The tables of judgments, reconciliations and alerts are well typed.
TypesOK == TypeOK /\ R!TypeOK /\ VelocityTypeOK

\* INVARIANT.  Every pair that a reconciliation confirmed is related exactly once,
\* whoever else relates it, and a row that no other writer inserted names a person
\* who confirmed a reconciliation of the pair.
EdgesFollowConfirmations == R!EdgesFollowConfirmations

\* PROPERTY.  Reconciliations implement the machine that judgments implement, and a
\* closed period of either endpoint stops all of it but withdrawals.
PairsAreAdjudicated == R!PairsAreAdjudicated
=============================================================================
