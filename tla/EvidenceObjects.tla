-------------------------- MODULE EvidenceObjects --------------------------
(***************************************************************************)
(* One content-addressed evidence object: its database row and its bytes   *)
(* on disk, which no transaction covers together.  The object identity is  *)
(* the SHA-256 of the bytes, so the bytes are either there or not.         *)
(***************************************************************************)
EXTENDS Naturals

VARIABLES
    row,    \* the evidence_objects row exists
    bytes,  \* the file of the content address exists
    closed  \* the period_closures row of the object's period says "closed"

ObjectTypeOK == row \in BOOLEAN /\ bytes \in BOOLEAN /\ closed \in BOOLEAN

\* The closed-period gate, evaluated inside the transaction it protects.
PeriodWritable == ~closed

\* The file is written first (temporary file, fsync, atomic rename), the row
\* and its receipt commit after it.  A second store of the same object is the
\* WORM no-op, or an integrity error when the bytes are missing.
StoreObject ==
    /\ PeriodWritable
    /\ ~row
    /\ bytes' = TRUE
    /\ row' = TRUE

\* Signing or the commit fails, or the process dies, after the rename: the
\* transaction rolls back and the file stays as an unreferenced orphan.
StoreObjectAborted ==
    /\ PeriodWritable
    /\ ~row
    /\ bytes' = TRUE
    /\ row' = row

\* Approving a period-closing memory upserts the closure projection; a
\* controller's reopen flips it back.
ClosePeriod  == ~closed /\ closed' = TRUE
ReopenPeriod == closed /\ closed' = FALSE

=============================================================================
