--------------------------- MODULE ApprovalPolicy ---------------------------
(***************************************************************************)
(* The frozen approval policy: which verified principal may approve a      *)
(* memory of a given fiscal effect and declared materiality.  Pure: the    *)
(* first failing check names the decision.                                 *)
(*                                                                         *)
(* A profile says whether the tenant and company scopes cover the memory,  *)
(* whether the membership is active, the accounting roles held and the     *)
(* assurance rank (0 low, 1 standard, 2 strong).                           *)
(***************************************************************************)
EXTENDS Naturals, Sequences

CONSTANTS
    People,      \* subject ids of actors and verified principals
    Credential   \* Credential[p]: the profile of p

AccountingRoles == {"accountant", "senior_accountant", "controller",
                    "tax_reviewer", "authorized_tax_professional"}
Credentials == [tenant : BOOLEAN, company : BOOLEAN, member : BOOLEAN,
                roles : SUBSET AccountingRoles, assurance : 0..2]

ASSUME PeopleAssumption == Credential \in [People -> Credentials]

FiscalEffects == {"none", "journal_entry", "adjustment", "reclassification",
                  "approval", "closing", "declaration", "sunat_filing"}
Levels == {"normal", "material", "critical"}

\* Dominance exists within the accounting ladder only; tax roles match exactly.
LadderRank(role) == CASE role = "accountant"        -> 1
                      [] role = "senior_accountant" -> 2
                      [] role = "controller"        -> 3
                      [] OTHER                      -> 0

Satisfies(roles, required) ==
    \/ required \in roles
    \/ LadderRank(required) > 0 /\ \E r \in roles : LadderRank(r) >= LadderRank(required)

BaseRole(effect) ==
    CASE effect \in {"journal_entry", "adjustment", "reclassification"} -> "accountant"
      [] effect = "approval"     -> "senior_accountant"
      [] effect = "closing"      -> "controller"
      [] effect = "declaration"  -> "tax_reviewer"
      [] effect = "sunat_filing" -> "authorized_tax_professional"
      [] OTHER                   -> "none"

RequiredRole(base, level) ==
    CASE level = "critical" /\ base \in {"accountant", "senior_accountant"} -> "controller"
      [] level = "material" /\ base = "accountant" -> "senior_accountant"
      [] OTHER -> base

ApprovalChecks(f, effect, level) ==
    LET base   == BaseRole(effect)
        raised == RequiredRole(base, level)
    IN  << [code |-> "TENANT_SCOPE_MISMATCH", fails |-> ~f.tenant],
           [code |-> "COMPANY_SCOPE_DENIED", fails |-> ~f.company],
           [code |-> "MEMBERSHIP_INACTIVE", fails |-> ~f.member],
           [code |-> "ROLE_NOT_AUTHORIZED",
            fails |-> base = "none" \/ ~Satisfies(f.roles, base)],
           [code |-> "ASSURANCE_TOO_LOW",
            fails |-> f.assurance < IF effect = "sunat_filing" THEN 2 ELSE 1],
           [code |-> "MATERIALITY_LIMIT_EXCEEDED",
            fails |-> raised # base /\ ~Satisfies(f.roles, raised)] >>

\* MUTANT of MayApprove: the materiality raise is forgotten.
MayApproveAtBase(p, effect, level) ==
    \A i \in 1..5 : ~ApprovalChecks(Credential[p], effect, level)[i].fails

MayApprove(p, effect, level) ==
    \A i \in 1..6 : ~ApprovalChecks(Credential[p], effect, level)[i].fails

\* The review-workspace clauses beside the frozen matrix.
SODViolation(proposer, reviewer) == proposer = reviewer
ReviewChecksRequired(level) == level \in {"material", "critical"}

=============================================================================
