------------------------- MODULE RetentionPolicies -------------------------
(***************************************************************************)
(* The immutable chain of retention policy versions of one exact tuple     *)
(* (tenant, company, RUC, period, jurisdiction, legislation, category).    *)
(* policies[v] is version v; a change is always a NEW version.  Version 0  *)
(* stands for "no policy bound".                                           *)
(***************************************************************************)
EXTENDS LifecycleAuthz

CONSTANTS
    Templates,     \* the policy contents an administrator may write
    ObjectPeriod,  \* the fiscal period of the evidence object
    HoldKinds,     \* the closed set of hold kinds
    MaxPolicies    \* bound: number of versions ever written

VARIABLE policies

ASSUME PoliciesAssumption ==
    /\ ObjectPeriod \in Nat
    /\ MaxPolicies \in Nat
    /\ Templates \subseteq [enabled : BOOLEAN, minPeriod : Nat, dual : BOOLEAN,
                            kinds : SUBSET HoldKinds]

Versions == 1..MaxPolicies

PoliciesTypeOK == policies \in Seq(Templates) /\ Len(policies) <= MaxPolicies

\* The highest ENABLED version.  The versions of a tuple are distinct, so two
\* candidates never tie and the ambiguity of the code cannot arise.
IsResolved(v) ==
    /\ v \in DOMAIN policies
    /\ policies[v].enabled
    /\ \A w \in DOMAIN policies : policies[w].enabled => w <= v

\* The object's period has reached the declared floor.
Eligible(v) == ObjectPeriod >= policies[v].minPeriod

\* Who may administer policies: a gate of its own, a default approver of the
\* tenant whatever its company scopes.
MayAdminister(p) ==
    LET f == Profile[p]
    IN  /\ f.tenant /\ f.member
        /\ f.roles \cap DeniedRoles = {}
        /\ f.roles \cap DefaultApprovers # {}
        /\ f.assurance >= 1

\* The caller asserts the chain head; a drifted assertion changes nothing.
PutRetentionPolicy(p, t) ==
    /\ MayAdminister(p)
    /\ Len(policies) < MaxPolicies
    /\ policies' = Append(policies, t)

=============================================================================
