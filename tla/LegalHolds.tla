----------------------------- MODULE LegalHolds -----------------------------
(***************************************************************************)
(* Object-level legal holds: one-way records, placed once and lifted once. *)
(* Holds only preserve evidence, so neither act passes the closed-period   *)
(* gate and neither writes to the purge pipeline's own tables.             *)
(***************************************************************************)
EXTENDS RetentionPolicies, EvidenceObjects

CONSTANTS
    HoldIds,  \* hold ids (fresh UUIDs in the code)
    KindOf    \* KindOf[h] is the kind hold h is placed with

VARIABLE holds

ASSUME HoldsAssumption == KindOf \in [HoldIds -> HoldKinds]

HoldsTypeOK == holds \in [HoldIds -> {"absent", "active", "lifted"}]

\* The active holds of the object whose kind is in the blocking set; an empty
\* set blocks nothing.
ActiveBlocking(kinds) == {h \in HoldIds : holds[h] = "active" /\ KindOf[h] \in kinds}

\* The object must exist; its lifecycle state does not matter.
PlaceHold(p, h) ==
    /\ row
    /\ Authorized(p, "place_hold", FALSE)
    /\ holds[h] = "absent"
    /\ holds' = [holds EXCEPT ![h] = "active"]

LiftHold(p, h) ==
    /\ Authorized(p, "lift_hold", FALSE)
    /\ holds[h] = "active"
    /\ holds' = [holds EXCEPT ![h] = "lifted"]

=============================================================================
