------------------------- MODULE EvidenceLifecycle -------------------------
(***************************************************************************)
(* What the evidence lifecycle promises about one object, with no lock, no *)
(* ledger, no people and no crash: bytes leave the disk only while the     *)
(* pipeline is approved and under a durable permit, and the object is      *)
(* called purged only when a permit exists and the bytes are really gone.  *)
(***************************************************************************)

VARIABLES
    row,     \* the object is registered
    bytes,   \* its bytes are on disk
    life,    \* its lifecycle state
    permit   \* a durable intent to remove the bytes was recorded

lifecycleVars == <<row, bytes, life, permit>>

Init == ~row /\ ~bytes /\ life = "stored" /\ ~permit

Keep == /\ ~row
        /\ bytes' = TRUE
        /\ row' \in BOOLEAN
        /\ UNCHANGED <<life, permit>>

Move(from, to) == /\ row
                  /\ life \in from
                  /\ life' = to
                  /\ UNCHANGED <<row, bytes, permit>>

Request == Move({"stored"}, "purge_requested")
Approve == Move({"purge_requested"}, "purge_approved")
Reject  == Move({"purge_requested"}, "purge_rejected")
Retract == Move({"purge_requested", "purge_approved"}, "stored")

Permit == /\ life = "purge_approved"
          /\ permit' = TRUE
          /\ UNCHANGED <<row, bytes, life>>

Remove == /\ life = "purge_approved" /\ permit
          /\ bytes' = FALSE
          /\ UNCHANGED <<row, life, permit>>

\* An open pipeline, not only an approved one: a permit outlives a withdrawal.
Finish == /\ permit /\ ~bytes
          /\ Move({"purge_approved", "purge_requested"}, "purged")

Next == Keep \/ Request \/ Approve \/ Reject \/ Retract \/ Permit \/ Remove \/ Finish

Spec == Init /\ [][Next]_lifecycleVars

=============================================================================
