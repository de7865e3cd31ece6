-------------------------- MODULE PurgeProperties --------------------------
(***************************************************************************)
(* What must be true of the evidence lifecycle of PurgeExecution.          *)
(***************************************************************************)
EXTENDS PurgeExecution

Attempted == {e \in ExecIds : execs[e].state # "none"}
Completed == {e \in ExecIds : execs[e].state = "completed"}

\* Rows of the decision ledger that belong to the current round and approve.
ApprovedThisRound ==
    {i \in DOMAIN approvals : i > roundStart /\ approvals[i].decision = "approved"}

\* The current snapshot under the blocking set of the bound policy.
BoundSnapshot == Snapshot(policies[proj.policy].kinds)

-----------------------------------------------------------------------------
(* Properties that hold *)

\* INVARIANT.  Missing bytes of a registered object are never an undocumented
\* loss, whatever crashes, retries and racing executions did: the executions
\* ledger keeps a live intent or a completion for them (authorizedPurgeAbsenceOn).
\* An interrupted-only history would turn the absence into corruption.
AbsenceDocumented == row /\ ~bytes => Intents \cup Completed # {}

\* INVARIANT.  A new attempt closes the attempts it supersedes: two durable
\* intents never stay live together, so a convergence has one to complete.
AtMostOneLiveIntent == \A e, f \in Intents : e = f

\* INVARIANT.  The projection, the request row, the executions ledger and the
\* event log agree on whether and by which attempt the object was purged, and
\* the purge is recorded once however many retries converge on it.
PurgedOnce ==
    LET logged == {i \in DOMAIN events : events[i].action = "purge_executed"}
    IN  /\ proj.state = "purged" <=> req.status = "executed"
        /\ Completed = IF req.status = "executed" THEN {req.exec} ELSE {}
        /\ Cardinality(logged) = Cardinality(Completed)
        /\ req.status = "executed" => ~bytes

\* INVARIANT.  A closed idempotency key never promises more than happened: its
\* replayed outcome is the one purge, and its own attempt, if it has one, is
\* the completed one and not an open or interrupted one.
ClosedKeysTellTheTruth ==
    \A e \in ExecIds : keys[e] = "done" =>
        req.status = "executed" /\ execs[e].state \in {"none", "completed"}

\* INVARIANT.  A pipeline that is approved for execution was approved in its
\* own round, by somebody other than that round's requester, and no principal
\* ever gave both approvals.
SeparationOfDuties ==
    /\ req.status = "approved" =>
           /\ ApprovedThisRound # {}
           /\ \A i \in ApprovedThisRound : approvals[i].by # req.by
    /\ \A i, j \in DOMAIN approvals :
           i # j /\ approvals[i].decision = "approved" /\ approvals[j].decision = "approved"
               => approvals[i].by # approvals[j].by

\* INVARIANT.  The guarded projection is derived state: it always says what
\* the request row says and what the last lifecycle event resulted in.
ProjectionFollows ==
    /\ proj.state = CASE req.status \in {"none", "cancelled", "withdrawn"} -> "stored"
                      [] req.status = "requested" -> "purge_requested"
                      [] req.status = "approved"  -> "purge_approved"
                      [] req.status = "rejected"  -> "purge_rejected"
                      [] req.status = "executed"  -> "purged"
    /\ events # <<>> => events[Len(events)].to = proj.state

\* ACTION PROPERTY.  At the very step that removes the bytes nothing blocks:
\* the pipeline is approved, the period open, the resolved policy eligible and
\* no blocking hold is active, although the gates ran in earlier steps.
UnlinkGuarded ==
    [][bytes /\ ~bytes' =>
          /\ req.status = "approved"
          /\ \E v \in DOMAIN policies : NoBlocker(v)]_vars

\* ACTION PROPERTY.  A completed or interrupted attempt is final, also for the
\* execution transaction of an attempt that another process interrupted
\* between its two transactions.
ClosedAttemptsAreFinal ==
    [][\A e \in ExecIds : execs[e].state \in {"completed", "interrupted"}
                              => execs'[e] = execs[e]]_vars

\* REFINEMENT.  The pipeline, its people, its ledgers, its lock and its
\* crashes implement the promise of EvidenceLifecycle.
Lifecycle == INSTANCE EvidenceLifecycle WITH
                life <- proj.state, permit <- Attempted # {}
ImplementsLifecycle == Lifecycle!Spec

\* LIVENESS (FairSpec).  Removed bytes do not stay in the recovery window: as
\* long as the caller retries, an approved purge that already removed the
\* bytes is completed, unless the approval is withdrawn first.
RecoveryConverges ==
    (row /\ ~bytes /\ req.status = "approved") ~> (req.status # "approved")

-----------------------------------------------------------------------------
(* Statements of the documentation that the code does not keep *)

\* INVARIANT, violated.  A re-requested pipeline is a fresh act, so one that
\* waits for its approval still has an approval to give.
RequestedCanBeApproved == req.status = "requested" => ApprovalSlotLeft

\* INVARIANT, violated.  A pipeline approved under a dual-approval policy has
\* two independent approvals of the request that is approved.
DualApprovalIndependent ==
    req.status = "approved" /\ policies[proj.policy].dual
        => Cardinality(ApprovedThisRound) = 2

\* INVARIANT, violated.  A registered object that is stored has its bytes.
StoredHasBytes == row /\ proj.state = "stored" => bytes

\* ACTION PROPERTY, violated.  Only an approved request is executed.
ExecutedFromApproved ==
    [][req.status # "executed" /\ req'.status = "executed"
          => req.status = "approved"]_vars

\* ACTION PROPERTY, violated.  The resulting hash a transition leaves on the
\* projection is the hash of the snapshot after that transition.
ResultingHashIsCurrent == [][proj' # proj => proj'.hash = BoundSnapshot']_vars

\* ACTION PROPERTY, violated.  An interrupted attempt is terminal, so it
\* removes nothing any more.
InterruptedRemovesNothing ==
    [][bytes /\ ~bytes' => execs[tx.exec].state = "intent"]_vars

=============================================================================
