--------------------------- MODULE LifecycleAuthz ---------------------------
(***************************************************************************)
(* The frozen evidence-lifecycle policy: who may perform which act of the  *)
(* purge pipeline.  It is pure: a decision depends on the verified         *)
(* principal and on the request alone, and it names the FIRST check that   *)
(* fails, in the order of the code.                                        *)
(*                                                                         *)
(* A principal is described by its profile: whether its tenant and company *)
(* scopes cover the object, whether it carries an active membership, its   *)
(* role tokens and its assurance rank (0 low, 1 standard, 2 strong).       *)
(***************************************************************************)
EXTENDS Naturals, Sequences

CONSTANTS
    Principals,  \* the verified human principals
    Profile,     \* Profile[p] is the profile of principal p
    Nobody       \* the empty subject id

LadderRoles  == {"accountant", "senior_accountant", "controller"}
DeniedRoles  == {"operational_accountant", "admin", "deployment_admin"}
OtherRoles   == {"records_compliance_officer", "tenant_records_owner",
                 "tax_responsible", "tax_reviewer"}
Roles        == LadderRoles \cup DeniedRoles \cup OtherRoles

Profiles == [tenant : BOOLEAN, company : BOOLEAN, member : BOOLEAN,
             roles : SUBSET Roles, assurance : 0..2]

ASSUME PrincipalsAssumption ==
    /\ Nobody \notin Principals
    /\ Profile \in [Principals -> Profiles]

DefaultApprovers == {"records_compliance_officer", "tenant_records_owner"}
SecondApprovers  == {"controller", "tax_responsible"}

Acts == {"request", "approve", "second_approve", "reject", "withdraw",
         "execute", "place_hold", "lift_hold"}

\* The role matrix: one of these roles is enough for the act.  "request" is
\* the accounting ladder from accountant upwards; the rest match exactly.
RoleMatrix ==
    [act \in Acts |->
        CASE act = "request"                  -> LadderRoles
          [] act = "second_approve"           -> SecondApprovers
          [] act \in {"withdraw", "execute"}  -> DefaultApprovers \cup SecondApprovers
          [] OTHER                            -> DefaultApprovers]

\* The checks of Authorize, in order: the reason code of each, and whether a
\* principal with profile f fails it.  dual is the dual-approval flag of the
\* resolved retention policy.  The policy's own requester and first-approver
\* checks are never reached by the store, which passes neither principal and
\* compares subject ids itself (AuthorizePurgeAct).
Checks(f, act, dual) ==
    << [code |-> "TENANT_SCOPE_MISMATCH", fails |-> ~f.tenant],
       [code |-> "COMPANY_SCOPE_DENIED", fails |-> ~f.company],
       [code |-> "MEMBERSHIP_INACTIVE", fails |-> ~f.member],
       [code |-> "ROLE_DENIED", fails |-> f.roles \cap DeniedRoles # {}],
       [code |-> "ROLE_NOT_AUTHORIZED", fails |-> f.roles \cap RoleMatrix[act] = {}],
       [code |-> "ASSURANCE_TOO_LOW", fails |-> f.assurance < 1],
       [code |-> "DUAL_APPROVAL_REQUIRED", fails |-> act = "second_approve" /\ ~dual] >>

Decision(f, act, dual) ==
    LET checks == Checks(f, act, dual)
        failed == {i \in DOMAIN checks : checks[i].fails}
    IN  IF failed = {} THEN "AUTHORIZED"
        ELSE checks[CHOOSE i \in failed : \A j \in failed : i <= j].code

Authorized(p, act, dual) == Decision(Profile[p], act, dual) = "AUTHORIZED"

\* MUTANT of AuthorizePurgeAct: the requester may decide the own request.
AuthorizeForgetsRequester(p, act, dual, requester, firstApprover) ==
    /\ Authorized(p, act, dual)
    /\ p # firstApprover

\* The store's gate: the policy first, then separation of duties against the
\* STORED requester and first approver; Nobody when the act has none.
AuthorizePurgeAct(p, act, dual, requester, firstApprover) ==
    /\ Authorized(p, act, dual)
    /\ p # requester
    /\ p # firstApprover

=============================================================================
