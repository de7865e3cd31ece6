---------------------------- MODULE PurgeProofs ----------------------------
(***************************************************************************)
(* Theorems about PurgeExecution, for every number of principals, holds,   *)
(* policy versions, requests and execution ids: type correctness; the      *)
(* attempts and the bytes; and what the tables say together - the request, *)
(* the projection and the logs agree, one purge is recorded, the duties    *)
(* are separated, and the whole implements EvidenceLifecycle.              *)
(***************************************************************************)
EXTENDS PurgeProperties, FiniteSetTheorems, TLAPS

-----------------------------------------------------------------------------
(* Type correctness *)

\* The snapshot read under any blocking set is a snapshot.
LEMMA SnapshotType ==
    ASSUME TypeOK, NEW kinds
    PROVE  Snapshot(kinds) \in Snapshots
  BY DEF TypeOK, PipelineTypeOK, Projections, RequestRows, Snapshot, Snapshots, ActiveBlocking

LEMMA InitTypeOK == Init => TypeOK
  <1> SUFFICES ASSUME Init PROVE TypeOK
    OBVIOUS
  <1>1. NoHash \in Snapshots
    BY PoliciesAssumption DEF NoHash, Snapshots, LifecycleStates
  <1>2. PoliciesTypeOK
    <2>1. <<>> \in Seq(Templates) /\ Len(<<>>) = 0
      OBVIOUS
    <2>2. QED
      BY <2>1, PoliciesAssumption DEF Init, PoliciesTypeOK
  <1>3. HoldsTypeOK /\ ObjectTypeOK
    BY DEF Init, HoldsTypeOK, ObjectTypeOK
  <1>4. PipelineTypeOK
    BY <1>1, PoliciesAssumption, PipelineAssumption
    DEF Init, PipelineInit, PipelineTypeOK, Projections, RequestRows, LifecycleStates, Statuses
  <1>5. ExecTypeOK
    BY <1>1 DEF Init, ExecTypeOK, Attempts, NoTx
  <1>6. QED
    BY <1>2, <1>3, <1>4, <1>5 DEF TypeOK

\* A written version number stays inside the bound.
LEMMA VersionType ==
    ASSUME TypeOK, NEW v \in DOMAIN policies
    PROVE  v \in 0..MaxPolicies
  BY PoliciesAssumption DEF TypeOK, PoliciesTypeOK

\* The one row that Transition logs and the projection it leaves are typed.
LEMMA TransitionType ==
    ASSUME TypeOK, NEW action \in EventActions, NEW from \in LifecycleStates,
           NEW seen \in Snapshots, NEW policy \in 0..MaxPolicies,
           NEW hash \in Snapshots, Transition(action, from, seen, policy, hash)
    PROVE  proj' \in Projections /\ events' \in Seq(EventRows)
  <1>1. hash.life \in LifecycleStates
    BY DEF Snapshots
  <1>2. Event(action, from, hash.life, seen) \in EventRows
    BY <1>1 DEF Event, EventRows
  <1>3. events' \in Seq(EventRows)
    BY <1>2 DEF Transition, TypeOK, PipelineTypeOK
  <1>4. proj' \in Projections
    BY <1>1 DEF Transition, Projections
  <1>5. QED
    BY <1>3, <1>4

\* A completion keeps the types of the tables it writes.
LEMMA CompleteExecutionType ==
    ASSUME TypeOK, NEW e \in ExecIds, NEW kinds, CompleteExecution(e, kinds)
    PROVE  PipelineTypeOK' /\ execs' \in [ExecIds -> Attempts]
  <1> DEFINE seen == Snapshot(kinds)
  <1>1. seen \in Snapshots
    BY SnapshotType
  <1>2. [seen EXCEPT !.life = "purged"] \in Snapshots /\ seen.policy \in 0..MaxPolicies
    BY <1>1 DEF Snapshots, LifecycleStates
  <1>3. Event("purge_executed", "purge_approved", "purged", execs[e].hash) \in EventRows
    BY DEF TypeOK, ExecTypeOK, Attempts, Event, EventRows, EventActions, LifecycleStates
  <1> HIDE DEF seen
  <1>4. events' \in Seq(EventRows)
    BY <1>3 DEF CompleteExecution, TypeOK, PipelineTypeOK
  <1>5. proj' \in Projections
    BY <1>2 DEF CompleteExecution, Projections, LifecycleStates, seen
  <1>6. req' \in RequestRows
    BY DEF CompleteExecution, TypeOK, PipelineTypeOK, RequestRows, Statuses
  <1>7. execs' \in [ExecIds -> Attempts]
    BY DEF CompleteExecution, TypeOK, ExecTypeOK, Attempts
  <1>8. QED
    BY <1>4, <1>5, <1>6, <1>7 DEF CompleteExecution, TypeOK, PipelineTypeOK

\* A closing transition keeps the types of everything but the ledger.
LEMMA CloseTransitionType ==
    ASSUME TypeOK, NEW action \in EventActions, NEW from \in LifecycleStates,
           NEW status \in Statuses, NEW life \in LifecycleStates,
           CloseTransition(action, from, status, life)
    PROVE  /\ proj' \in Projections /\ req' \in RequestRows /\ events' \in Seq(EventRows)
           /\ UNCHANGED <<rounds, roundStart>>
  <1> DEFINE seen == Snapshot(policies[req.policy].kinds)
             hash == [seen EXCEPT !.life = life]
  <1>1. seen \in Snapshots
    BY SnapshotType
  <1>2. hash \in Snapshots /\ seen.policy \in 0..MaxPolicies
    BY <1>1 DEF Snapshots
  <1>3. Transition(action, from, seen, seen.policy, hash)
    BY DEF CloseTransition
  <1>4. req' \in RequestRows
    BY DEF CloseTransition, TypeOK, PipelineTypeOK, RequestRows
  <1>5. UNCHANGED <<rounds, roundStart>>
    BY DEF CloseTransition
  <1> HIDE DEF seen, hash
  <1>6. QED
    BY <1>1, <1>2, <1>3, <1>4, <1>5, TransitionType

LEMMA RecordDecisionType ==
    ASSUME TypeOK, NEW p \in Principals, NEW decision \in Decisions, RecordDecision(p, decision)
    PROVE  approvals' \in Seq(ApprovalRows)
  <1>1. [by |-> p, decision |-> decision, order |-> NextDecisionOrder] \in ApprovalRows
    BY DEF ApprovalRows, NextDecisionOrder
  <1>2. QED
    BY <1>1 DEF RecordDecision, TypeOK, PipelineTypeOK

LEMMA RequestPurgeType ==
    ASSUME TypeOK, NEW p \in Principals, NEW v \in DOMAIN policies, RequestPurge(p, v)
    PROVE  PipelineTypeOK'
  <1> DEFINE seen  == Snapshot(policies[v].kinds)
             hash  == [life |-> "purge_requested", policy |-> v, holds |-> seen.holds,
                       requested |-> TRUE, decisions |-> 0]
             bind  == Event("retention_bound", "stored", "stored",
                            [seen EXCEPT !.requested = FALSE, !.decisions = 0])
  <1>1. seen \in Snapshots
    BY SnapshotType
  <1>2. v \in 0..MaxPolicies
    BY VersionType
  <1> HIDE DEF seen
  <1>3. hash \in Snapshots
    BY <1>1, <1>2 DEF Snapshots, LifecycleStates
  <1>4. bind \in EventRows
    BY <1>1 DEF Event, EventRows, Snapshots, EventActions, LifecycleStates
  <1>5. Event("purge_requested", "stored", "purge_requested", seen) \in EventRows
    BY <1>1 DEF Event, EventRows, EventActions, LifecycleStates
  <1> HIDE DEF bind
  <1>6. EventsAfterBinding(seen) \in Seq(EventRows)
    BY <1>4 DEF EventsAfterBinding, bind, TypeOK, PipelineTypeOK
  <1>7. events' \in Seq(EventRows)
    BY <1>5, <1>6 DEF RequestPurge, seen
  <1>8. proj' \in Projections
    BY <1>2, <1>3 DEF RequestPurge, Projections, LifecycleStates, seen
  <1>9. req' \in RequestRows
    BY <1>2 DEF RequestPurge, TypeOK, PipelineTypeOK, RequestRows, Statuses
  <1>10. rounds' \in 0..MaxRequests /\ roundStart' \in Nat /\ approvals' = approvals
    BY PipelineAssumption DEF RequestPurge, TypeOK, PipelineTypeOK
  <1>11. QED
    BY <1>7, <1>8, <1>9, <1>10 DEF TypeOK, PipelineTypeOK

LEMMA ApprovePurgeType ==
    ASSUME TypeOK, NEW p \in Principals, NEW v \in DOMAIN policies, ApprovePurge(p, v)
    PROVE  PipelineTypeOK'
  <1> DEFINE seen     == Snapshot(policies[v].kinds)
             order    == Len(approvals) + 1
             complete == ~policies[v].dual \/ order = 2
             life     == IF complete THEN "purge_approved" ELSE "purge_requested"
             hash     == [seen EXCEPT !.life = life, !.policy = v, !.decisions = order]
  <1>1. seen \in Snapshots
    BY SnapshotType
  <1>2. v \in 0..MaxPolicies
    BY VersionType
  <1>3. order \in {1, 2}
    <2>1. Len(approvals) \in Nat /\ Len(approvals) < 2
      BY DEF ApprovePurge, MayApprove, ApprovalSlotLeft, TypeOK, PipelineTypeOK
    <2>2. QED
      BY <2>1
  <1>4. Transition("purge_approved", "purge_requested", seen, v, hash)
    BY DEF ApprovePurge
  <1>5. req' = IF complete THEN [req EXCEPT !.status = "approved"] ELSE req
    BY DEF ApprovePurge
  <1>6. approvals' = Append(approvals, [by |-> p, decision |-> "approved", order |-> order])
    BY DEF ApprovePurge
  <1>7. UNCHANGED <<rounds, roundStart>>
    BY DEF ApprovePurge
  <1> HIDE DEF seen, order, complete
  <1>8. hash \in Snapshots
    <2>1. life \in LifecycleStates
      BY DEF LifecycleStates
    <2>2. order \in Nat
      BY <1>3
    <2> HIDE DEF life
    <2>3. QED
      BY <1>1, <1>2, <2>1, <2>2 DEF Snapshots
  <1> HIDE DEF hash
  <1>9. proj' \in Projections /\ events' \in Seq(EventRows)
    <2>1. "purge_approved" \in EventActions /\ "purge_requested" \in LifecycleStates
      BY DEF EventActions, LifecycleStates
    <2>2. QED
      BY <1>1, <1>2, <1>4, <1>8, <2>1, TransitionType
  <1>10. req' \in RequestRows
    BY <1>5 DEF TypeOK, PipelineTypeOK, RequestRows, Statuses
  <1>11. approvals' \in Seq(ApprovalRows)
    <2>1. [by |-> p, decision |-> "approved", order |-> order] \in ApprovalRows
      BY <1>3 DEF ApprovalRows, Decisions
    <2>2. QED
      BY <1>6, <2>1 DEF TypeOK, PipelineTypeOK
  <1>12. QED
    BY <1>7, <1>9, <1>10, <1>11 DEF TypeOK, PipelineTypeOK

\* The three closing acts: a rejection, a cancellation, a withdrawal.
LEMMA ClosingType ==
    ASSUME TypeOK, NEW p \in Principals, RejectPurge(p) \/ CancelPurge(p) \/ WithdrawPurge(p)
    PROVE  PipelineTypeOK'
  <1>1. ASSUME RejectPurge(p) PROVE PipelineTypeOK'
    <2>1. /\ CloseTransition("purge_rejected", "purge_requested", "rejected", "purge_rejected")
          /\ RecordDecision(p, "rejected") /\ "rejected" \in Decisions
          /\ "purge_rejected" \in EventActions /\ "rejected" \in Statuses
          /\ "purge_requested" \in LifecycleStates /\ "purge_rejected" \in LifecycleStates
      BY <1>1 DEF RejectPurge, Decisions, EventActions, LifecycleStates, Statuses
    <2>2. QED
      BY <2>1, CloseTransitionType, RecordDecisionType DEF TypeOK, PipelineTypeOK
  <1>2. ASSUME CancelPurge(p) PROVE PipelineTypeOK'
    <2>1. /\ CloseTransition("purge_cancelled", "purge_requested", "cancelled", "stored")
          /\ approvals' = approvals
          /\ "purge_cancelled" \in EventActions /\ "cancelled" \in Statuses
          /\ "purge_requested" \in LifecycleStates /\ "stored" \in LifecycleStates
      BY <1>2 DEF CancelPurge, EventActions, LifecycleStates, Statuses
    <2>2. QED
      BY <2>1, CloseTransitionType DEF TypeOK, PipelineTypeOK
  <1>3. ASSUME WithdrawPurge(p) PROVE PipelineTypeOK'
    <2>1. /\ CloseTransition("purge_withdrawn", "purge_approved", "withdrawn", "stored")
          /\ RecordDecision(p, "withdrawn") /\ "withdrawn" \in Decisions
          /\ "purge_withdrawn" \in EventActions /\ "withdrawn" \in Statuses
          /\ "purge_approved" \in LifecycleStates /\ "stored" \in LifecycleStates
      BY <1>3 DEF WithdrawPurge, Decisions, EventActions, LifecycleStates, Statuses
    <2>2. QED
      BY <2>1, CloseTransitionType, RecordDecisionType DEF TypeOK, PipelineTypeOK
  <1>4. QED
    BY <1>1, <1>2, <1>3

\* The intent transaction writes an event and attempts of the right types.
LEMMA BeginIntentType ==
    ASSUME TypeOK, NEW e \in ExecIds, NEW p \in Principals, NEW v \in DOMAIN policies,
           BeginIntent(e, p, v)
    PROVE  PipelineTypeOK' /\ ExecTypeOK'
  <1> DEFINE seen == Snapshot(policies[v].kinds)
  <1>1. seen \in Snapshots
    BY SnapshotType
  <1> HIDE DEF seen
  <1>2. Event("purge_intent", "purge_approved", "purge_approved", seen) \in EventRows
    BY <1>1 DEF Event, EventRows, EventActions, LifecycleStates
  <1>3. events' \in Seq(EventRows)
    BY <1>2 DEF BeginIntent, TypeOK, PipelineTypeOK, seen
  <1>4. execs' \in [ExecIds -> Attempts]
    <2>1. execs' = [x \in ExecIds |->
                       IF x = e THEN [state |-> "intent", hash |-> seen]
                       ELSE IF x \in Superseded(e) THEN [execs[x] EXCEPT !.state = "interrupted"]
                       ELSE execs[x]]
      BY DEF BeginIntent, seen
    <2>2. QED
      BY <1>1, <2>1 DEF TypeOK, ExecTypeOK, Attempts
  <1>5. keys' \in [ExecIds -> {"free", "open", "done"}] /\ gap' \in SUBSET ExecIds /\ tx' = tx
    BY DEF BeginIntent, ReserveKey, TypeOK, ExecTypeOK
  <1>6. UNCHANGED <<proj, req, approvals, rounds, roundStart>>
    BY DEF BeginIntent
  <1>7. QED
    BY <1>3, <1>4, <1>5, <1>6 DEF TypeOK, PipelineTypeOK, ExecTypeOK

\* Each part of the type invariant depends on its own variables only.
LEMMA TypeFrame ==
    /\ PoliciesTypeOK /\ UNCHANGED policies => PoliciesTypeOK'
    /\ HoldsTypeOK /\ UNCHANGED holds => HoldsTypeOK'
    /\ ObjectTypeOK /\ UNCHANGED objectVars => ObjectTypeOK'
    /\ PipelineTypeOK /\ UNCHANGED pipelineVars => PipelineTypeOK'
    /\ ExecTypeOK /\ UNCHANGED execVars => ExecTypeOK'
  BY DEF objectVars, pipelineVars, execVars, PoliciesTypeOK, HoldsTypeOK, ObjectTypeOK,
         PipelineTypeOK, ExecTypeOK

\* What an execution step keeps.
LEMMA ExecuteType ==
    ASSUME TypeOK, NEW e \in ExecIds, Execute(e)
    PROVE  PipelineTypeOK' /\ ExecTypeOK' /\ UNCHANGED <<policies, holds, objectVars>>
  <1> USE DEF TypeOK
  <1>1. ASSUME NEW p \in Principals, NEW v \in DOMAIN policies, BeginIntent(e, p, v)
        PROVE  PipelineTypeOK' /\ ExecTypeOK' /\ UNCHANGED <<policies, holds, objectVars>>
    BY <1>1, BeginIntentType DEF BeginIntent
  <1>2. ASSUME NEW p \in Principals, NEW v \in DOMAIN policies, ConvergeFresh(e, p, v)
        PROVE  PipelineTypeOK' /\ ExecTypeOK' /\ UNCHANGED <<policies, holds, objectVars>>
    <2>1. PICK prior \in ExecIds : CompleteExecution(prior, policies[req.policy].kinds)
      BY <1>2 DEF ConvergeFresh, Intents
    <2>2. PipelineTypeOK' /\ execs' \in [ExecIds -> Attempts]
      BY <2>1, CompleteExecutionType
    <2>3. QED
      BY <1>2, <2>2 DEF ConvergeFresh, ExecTypeOK
  <1>3. ASSUME ValidateExecution(e)
        PROVE  PipelineTypeOK' /\ ExecTypeOK' /\ UNCHANGED <<policies, holds, objectVars>>
    <2>1. ExecTypeOK'
      BY <1>3 DEF ValidateExecution, ExecTypeOK, Transactions
    <2>2. QED
      BY <1>3, <2>1, TypeFrame DEF ValidateExecution
  <1>4. ASSUME LeaveAttemptOpen(e) \/ CloseKey(e) \/ RetryExecution(e)
        PROVE  PipelineTypeOK' /\ ExecTypeOK' /\ UNCHANGED <<policies, holds, objectVars>>
    <2>1. ExecTypeOK'
      <3>1. ASSUME LeaveAttemptOpen(e) PROVE ExecTypeOK'
        BY <3>1 DEF LeaveAttemptOpen, ExecTypeOK
      <3>2. ASSUME CloseKey(e) PROVE ExecTypeOK'
        BY <3>2 DEF CloseKey, ExecTypeOK
      <3>3. ASSUME RetryExecution(e) PROVE ExecTypeOK'
        BY <3>3 DEF RetryExecution, ExecTypeOK, Transactions
      <3>4. QED
        BY <1>4, <3>1, <3>2, <3>3
    <2>2. QED
      BY <1>4, <2>1, TypeFrame DEF LeaveAttemptOpen, CloseKey, RetryExecution
  <1>5. ASSUME ConvergeSame(e)
        PROVE  PipelineTypeOK' /\ ExecTypeOK' /\ UNCHANGED <<policies, holds, objectVars>>
    <2>1. CompleteExecution(e, policies[req.policy].kinds)
      BY <1>5 DEF ConvergeSame
    <2>2. PipelineTypeOK' /\ execs' \in [ExecIds -> Attempts]
      BY <2>1, CompleteExecutionType
    <2>3. QED
      BY <1>5, <2>2 DEF ConvergeSame, ExecTypeOK
  <1>6. QED
    BY <1>1, <1>2, <1>3, <1>4, <1>5 DEF Execute

LEMMA NextTypeOK == TypeOK /\ [Next]_vars => TypeOK'
  <1> SUFFICES ASSUME TypeOK, [Next]_vars PROVE TypeOK'
    OBVIOUS
  <1> USE DEF TypeOK
  <1>1. CASE UNCHANGED vars
    BY <1>1, TypeFrame DEF vars
  <1>2. CASE AdministerStep
    <2>1. PoliciesTypeOK'
      BY <1>2, PoliciesAssumption DEF AdministerStep, Administer, PutRetentionPolicy, PoliciesTypeOK
    <2>2. QED
      BY <1>2, <2>1, TypeFrame DEF AdministerStep
  <1>3. CASE HoldStep
    <2>1. HoldsTypeOK'
      BY <1>3 DEF HoldStep, Hold, PlaceHold, LiftHold, HoldsTypeOK
    <2>2. QED
      BY <1>3, <2>1, TypeFrame DEF HoldStep
  <1>4. CASE StoreStep
    <2>1. ObjectTypeOK'
      BY <1>4 DEF StoreStep, Store, StoreObject, StoreObjectAborted, ObjectTypeOK
    <2>2. QED
      BY <1>4, <2>1, TypeFrame DEF StoreStep
  <1>5. CASE PeriodStep
    <2>1. ObjectTypeOK'
      BY <1>5 DEF PeriodStep, Period, ClosePeriod, ReopenPeriod, ObjectTypeOK
    <2>2. QED
      BY <1>5, <2>1, TypeFrame DEF PeriodStep
  <1>6. CASE PipelineStep
    <2>1. PipelineTypeOK'
      BY <1>6, RequestPurgeType, ApprovePurgeType, ClosingType DEF PipelineStep, Pipeline
    <2>2. QED
      BY <1>6, <2>1, TypeFrame DEF PipelineStep
  <1>7. CASE \E e \in ExecIds : Execute(e)
    BY <1>7, ExecuteType, TypeFrame
  <1>8. CASE UnlinkBytes
    <2>1. ObjectTypeOK'
      BY <1>8 DEF UnlinkBytes, ObjectTypeOK
    <2>2. ExecTypeOK'
      BY <1>8 DEF UnlinkBytes, ExecTypeOK, NoTx, Transactions
    <2>3. QED
      BY <1>8, <2>1, <2>2, TypeFrame DEF UnlinkBytes
  <1>9. CASE CommitExecution
    <2>1. tx.exec \in ExecIds
      BY <1>9 DEF CommitExecution, ExecTypeOK, Transactions, NoTx
    <2>2. PICK v \in DOMAIN policies : CompleteExecution(tx.exec, policies[v].kinds)
      BY <1>9 DEF CommitExecution
    <2>3. PipelineTypeOK' /\ execs' \in [ExecIds -> Attempts]
      BY <2>1, <2>2, CompleteExecutionType
    <2>4. ExecTypeOK'
      BY <1>9, <2>3 DEF CommitExecution, ExecTypeOK
    <2>5. QED
      BY <1>9, <2>3, <2>4, TypeFrame DEF CommitExecution
  <1>10. CASE AbortExecution
    <2>1. ExecTypeOK'
      BY <1>10 DEF AbortExecution, ExecTypeOK
    <2>2. QED
      BY <1>10, <2>1, TypeFrame DEF AbortExecution
  <1>11. QED
    BY <1>1, <1>2, <1>3, <1>4, <1>5, <1>6, <1>7, <1>8, <1>9, <1>10 DEF Next

\* TYPE CORRECTNESS of every reachable state.
THEOREM TypeCorrect == Spec => []TypeOK
  BY InitTypeOK, NextTypeOK, PTL DEF Spec

-----------------------------------------------------------------------------
(* The attempts and the bytes *)

\* An id whose key is free has no attempt, so an intent never overwrites one.
FreeKeysUnused == \A e \in ExecIds : keys[e] = "free" => execs[e].state = "none"

\* Whoever is about to unlink, or is unlinking, has a recorded attempt.
ActorsAttempted ==
    /\ \A e \in gap : execs[e].state # "none"
    /\ tx # NoTx => execs[tx.exec].state # "none"

\* Interrupting attempts always leaves a live one.
AttemptsStayLive == Attempted # {} => Intents \cup Completed # {}

\* Bytes of a registered object are only missing once somebody tried.
LossWasAttempted == row /\ ~bytes => Attempted # {}

\* The inductive invariant behind AbsenceDocumented and AtMostOneLiveIntent.
AttemptInv ==
    /\ TypeOK
    /\ FreeKeysUnused
    /\ ActorsAttempted
    /\ AttemptsStayLive
    /\ LossWasAttempted
    /\ AtMostOneLiveIntent

LEMMA InitAttemptInv == Init => AttemptInv
  BY InitTypeOK DEF Init, AttemptInv, FreeKeysUnused, ActorsAttempted, AttemptsStayLive,
                    LossWasAttempted, AtMostOneLiveIntent, Attempted, Intents

\* A completion turns the one live attempt into a completed one.
LEMMA CompleteAttempts ==
    ASSUME TypeOK, NEW e \in ExecIds, NEW kinds, CompleteExecution(e, kinds)
    PROVE  /\ e \in Intents
           /\ Intents' = Intents \ {e}
           /\ Completed' = Completed \cup {e}
           /\ \A x \in ExecIds : execs'[x].state = "none" <=> execs[x].state = "none"
  <1>1. execs[e].state = "intent" /\ execs' = [execs EXCEPT ![e].state = "completed"]
    BY DEF CompleteExecution, StillIntent
  <1>2. \A x \in ExecIds : execs'[x].state = IF x = e THEN "completed" ELSE execs[x].state
    BY <1>1 DEF TypeOK, ExecTypeOK, Attempts
  <1>3. QED
    BY <1>1, <1>2 DEF Intents, Completed

\* The invariant after a completion that gives no key back and does not touch
\* the disk, whoever completes.
LEMMA CompletionKeepsAttemptInv ==
    ASSUME AttemptInv, TypeOK', NEW e \in ExecIds, NEW kinds, CompleteExecution(e, kinds),
           UNCHANGED <<row, bytes, gap>>, tx' \in {tx, NoTx},
           \A x \in ExecIds : keys'[x] = "free" => keys[x] = "free"
    PROVE  AttemptInv'
  <1>1. /\ e \in Intents /\ Intents' = Intents \ {e} /\ Completed' = Completed \cup {e}
        /\ \A x \in ExecIds : execs'[x].state = "none" <=> execs[x].state = "none"
    BY CompleteAttempts DEF AttemptInv
  <1>2. Attempted' = Attempted
    BY <1>1 DEF Attempted
  <1>3. FreeKeysUnused'
    BY <1>1 DEF AttemptInv, FreeKeysUnused
  <1>4. ActorsAttempted'
    BY <1>1 DEF AttemptInv, ActorsAttempted, TypeOK, ExecTypeOK, Transactions
  <1>5. AttemptsStayLive' /\ LossWasAttempted' /\ AtMostOneLiveIntent'
    BY <1>1, <1>2 DEF AttemptInv, AttemptsStayLive, LossWasAttempted, AtMostOneLiveIntent
  <1>6. QED
    BY <1>3, <1>4, <1>5 DEF AttemptInv

\* A fresh attempt interrupts every other live one.
LEMMA BeginIntentKeepsAttemptInv ==
    ASSUME AttemptInv, TypeOK', NEW e \in ExecIds, NEW p \in Principals,
           NEW v \in DOMAIN policies, BeginIntent(e, p, v)
    PROVE  AttemptInv'
  <1>1. \A x \in ExecIds : execs'[x].state = IF x = e THEN "intent"
                                             ELSE IF x \in Intents THEN "interrupted"
                                             ELSE execs[x].state
    <2>1. \A x \in Superseded(e) : [execs[x] EXCEPT !.state = "interrupted"].state = "interrupted"
      BY DEF Superseded, Intents, AttemptInv, TypeOK, ExecTypeOK, Attempts
    <2>2. QED
      BY <2>1 DEF BeginIntent, Superseded, Intents
  <1>2. keys' = [keys EXCEPT ![e] = "open"] /\ gap' = gap \cup {e} /\ UNCHANGED <<row, bytes, tx>>
    BY DEF BeginIntent, ReserveKey, objectVars
  <1>3. Intents' = {e}
    BY <1>1 DEF Intents
  <1>4. FreeKeysUnused'
    BY <1>1, <1>2 DEF AttemptInv, FreeKeysUnused, Intents, TypeOK, ExecTypeOK
  <1>5. ActorsAttempted'
    BY <1>1, <1>2 DEF AttemptInv, ActorsAttempted, TypeOK, ExecTypeOK, Transactions
  <1>6. AttemptsStayLive' /\ AtMostOneLiveIntent'
    BY <1>3 DEF AttemptsStayLive, AtMostOneLiveIntent
  <1>7. LossWasAttempted'
    BY <1>1 DEF LossWasAttempted, Attempted
  <1>8. QED
    BY <1>4, <1>5, <1>6, <1>7 DEF AttemptInv

\* Steps that leave the attempts alone keep the invariant when they store
\* bytes or remove them under a recorded attempt.
LEMMA AttemptFrame ==
    ASSUME AttemptInv, TypeOK', execs' = execs,
           \A x \in ExecIds : keys'[x] = "free" => keys[x] = "free",
           gap' \subseteq gap, tx' # NoTx => execs[tx'.exec].state # "none",
           row' /\ ~bytes' => (row /\ ~bytes) \/ Attempted # {}
    PROVE  AttemptInv'
  BY DEF AttemptInv, FreeKeysUnused, ActorsAttempted, AttemptsStayLive, LossWasAttempted,
         AtMostOneLiveIntent, Attempted, Intents, Completed

LEMMA NextAttemptInv == AttemptInv /\ [Next]_vars => AttemptInv'
  <1> SUFFICES ASSUME AttemptInv, [Next]_vars PROVE AttemptInv'
    OBVIOUS
  <1>1. TypeOK /\ TypeOK'
    BY NextTypeOK DEF AttemptInv
  <1>2. CASE UNCHANGED vars
    BY <1>1, <1>2, AttemptFrame DEF vars, execVars, objectVars, AttemptInv, ActorsAttempted
  <1>3. CASE AdministerStep \/ HoldStep \/ PipelineStep
    BY <1>1, <1>3, AttemptFrame
    DEF AdministerStep, HoldStep, PipelineStep, execVars, objectVars, AttemptInv, ActorsAttempted
  <1>4. CASE StoreStep
    <2>1. bytes' /\ execs' = execs /\ keys' = keys /\ gap' = gap /\ tx' = tx
      BY <1>4 DEF StoreStep, Store, StoreObject, StoreObjectAborted, execVars
    <2>2. row' /\ ~bytes' => (row /\ ~bytes) \/ Attempted # {}
      BY <2>1
    <2>3. tx' # NoTx => execs[tx'.exec].state # "none"
      BY <2>1 DEF AttemptInv, ActorsAttempted
    <2>4. \A x \in ExecIds : keys'[x] = "free" => keys[x] = "free"
      BY <2>1
    <2>5. execs' = execs /\ gap' \subseteq gap
      BY <2>1
    <2>6. QED
      BY <1>1, <2>2, <2>3, <2>4, <2>5, AttemptFrame
  <1>5. CASE PeriodStep
    BY <1>1, <1>5, AttemptFrame DEF PeriodStep, Period, execVars, AttemptInv, ActorsAttempted
  <1>6. ASSUME NEW e \in ExecIds, Execute(e)
        PROVE  AttemptInv'
    <2>1. ASSUME NEW p \in Principals, NEW v \in DOMAIN policies, BeginIntent(e, p, v)
          PROVE  AttemptInv'
      BY <1>1, <2>1, BeginIntentKeepsAttemptInv
    <2>2. ASSUME NEW p \in Principals, NEW v \in DOMAIN policies, ConvergeFresh(e, p, v)
          PROVE  AttemptInv'
      <3>1. PICK prior \in ExecIds : CompleteExecution(prior, policies[req.policy].kinds)
        BY <2>2 DEF ConvergeFresh, Intents
      <3>2. /\ UNCHANGED <<row, bytes, gap>> /\ tx' \in {tx, NoTx}
            /\ \A x \in ExecIds : keys'[x] = "free" => keys[x] = "free"
        BY <1>1, <2>2 DEF ConvergeFresh, objectVars, TypeOK, ExecTypeOK
      <3>3. QED
        BY <1>1, <3>1, <3>2, CompletionKeepsAttemptInv
    <2>3. ASSUME ValidateExecution(e)
          PROVE  AttemptInv'
      <3>1. execs[e].state # "none" /\ tx'.exec = e
        BY <2>3 DEF ValidateExecution, AttemptInv, ActorsAttempted
      <3>2. /\ execs' = execs /\ keys' = keys /\ gap' \subseteq gap
            /\ row' = row /\ bytes' = bytes
        BY <2>3 DEF ValidateExecution, objectVars
      <3>3. QED
        BY <1>1, <3>1, <3>2, AttemptFrame
    <2>4. ASSUME LeaveAttemptOpen(e)
          PROVE  AttemptInv'
      BY <1>1, <2>4, AttemptFrame DEF LeaveAttemptOpen, objectVars, AttemptInv, ActorsAttempted
    <2>5. ASSUME CloseKey(e)
          PROVE  AttemptInv'
      BY <1>1, <2>5, AttemptFrame
      DEF CloseKey, objectVars, AttemptInv, ActorsAttempted, TypeOK, ExecTypeOK
    <2>6. ASSUME ConvergeSame(e)
          PROVE  AttemptInv'
      <3>1. CompleteExecution(e, policies[req.policy].kinds)
        BY <2>6 DEF ConvergeSame
      <3>2. /\ UNCHANGED <<row, bytes, gap>> /\ tx' \in {tx, NoTx}
            /\ \A x \in ExecIds : keys'[x] = "free" => keys[x] = "free"
        BY <1>1, <2>6 DEF ConvergeSame, objectVars, TypeOK, ExecTypeOK
      <3>3. QED
        BY <1>1, <3>1, <3>2, CompletionKeepsAttemptInv
    <2>7. ASSUME RetryExecution(e)
          PROVE  AttemptInv'
      BY <1>1, <2>7, AttemptFrame DEF RetryExecution, StillIntent, objectVars
    <2>8. QED
      BY <1>6, <2>1, <2>2, <2>3, <2>4, <2>5, <2>6, <2>7 DEF Execute
  <1>7. CASE UnlinkBytes
    <2>1. tx # NoTx /\ execs[tx.exec].state # "none" /\ tx.exec \in ExecIds /\ tx'.exec = tx.exec
      BY <1>1, <1>7 DEF UnlinkBytes, NoTx, AttemptInv, ActorsAttempted, TypeOK, ExecTypeOK, Transactions
    <2>2. Attempted # {}
      BY <2>1 DEF Attempted
    <2>3. QED
      BY <1>1, <1>7, <2>1, <2>2, AttemptFrame DEF UnlinkBytes
  <1>8. CASE CommitExecution
    <2>1. tx.exec \in ExecIds
      BY <1>1, <1>8 DEF CommitExecution, TypeOK, ExecTypeOK, Transactions, NoTx
    <2>2. PICK v \in DOMAIN policies : CompleteExecution(tx.exec, policies[v].kinds)
      BY <1>8 DEF CommitExecution
    <2>3. /\ UNCHANGED <<row, bytes, gap>> /\ tx' \in {tx, NoTx}
          /\ \A x \in ExecIds : keys'[x] = "free" => keys[x] = "free"
      BY <1>1, <1>8 DEF CommitExecution, objectVars, TypeOK, ExecTypeOK
    <2>4. QED
      BY <1>1, <2>1, <2>2, <2>3, CompletionKeepsAttemptInv
  <1>9. CASE AbortExecution
    BY <1>1, <1>9, AttemptFrame DEF AbortExecution, objectVars
  <1>10. QED
    BY <1>2, <1>3, <1>4, <1>5, <1>6, <1>7, <1>8, <1>9 DEF Next

\* Two durable intents are never live together.
THEOREM OneLiveIntent == Spec => []AtMostOneLiveIntent
  <1>1. AttemptInv => AtMostOneLiveIntent
    BY DEF AttemptInv
  <1>2. QED
    BY <1>1, InitAttemptInv, NextAttemptInv, PTL DEF Spec

\* Missing bytes of a registered object are always documented by a live
\* intent or a completion in the executions ledger.
THEOREM NoUndocumentedLoss == Spec => []AbsenceDocumented
  <1>1. AttemptInv => AbsenceDocumented
    BY DEF AttemptInv, AttemptsStayLive, LossWasAttempted, AbsenceDocumented
  <1>2. QED
    BY <1>1, InitAttemptInv, NextAttemptInv, PTL DEF Spec

-----------------------------------------------------------------------------
(* What holds at the step that removes the bytes *)

\* Nothing blocks the execution that is about to unlink: its transaction
\* validated under the write lock, and it still holds the lock.
Unblocked == req.status = "approved" /\ \E v \in DOMAIN policies : NoBlocker(v)
GuardInv == TypeOK /\ (tx.phase = "validated" => Unblocked)

LEMMA InitGuardInv == Init => GuardInv
  BY InitTypeOK DEF Init, GuardInv, NoTx

LEMMA NextGuardInv == GuardInv /\ [Next]_vars => GuardInv'
  <1> SUFFICES ASSUME GuardInv, [Next]_vars, tx'.phase = "validated" PROVE Unblocked'
    BY NextTypeOK DEF GuardInv
  <1> DEFINE unchanged == UNCHANGED <<policies, holds, closed, pipelineVars>>
  <1>1. ASSUME unchanged, Unblocked
        PROVE  Unblocked'
    BY <1>1 DEF pipelineVars, Unblocked, NoBlocker, PeriodWritable, IsResolved, Eligible, ActiveBlocking
  <1>2. CASE UNCHANGED vars
    BY <1>1, <1>2 DEF vars, execVars, objectVars, GuardInv
  <1>3. CASE LockFree /\ tx' = tx
    BY <1>3 DEF LockFree, NoTx
  <1>4. CASE AdministerStep \/ HoldStep \/ StoreStep \/ PeriodStep \/ PipelineStep
    BY <1>3, <1>4 DEF AdministerStep, HoldStep, StoreStep, PeriodStep, PipelineStep, execVars
  <1>5. ASSUME NEW e \in ExecIds, Execute(e)
        PROVE  Unblocked'
    <2>1. ASSUME NEW p \in Principals, NEW v \in DOMAIN policies,
                 BeginIntent(e, p, v) \/ ConvergeFresh(e, p, v)
          PROVE  Unblocked'
      BY <1>3, <2>1 DEF BeginIntent, ConvergeFresh
    <2>2. CASE ValidateExecution(e)
      BY <1>1, <2>2 DEF ValidateExecution, Revalidates, Unblocked, objectVars
    <2>3. CASE RetryExecution(e)
      BY <1>1, <2>3 DEF RetryExecution, Revalidates, Unblocked, objectVars
    <2>4. CASE LeaveAttemptOpen(e)
      BY <1>1, <2>4 DEF LeaveAttemptOpen, GuardInv, objectVars
    <2>5. CASE CloseKey(e) \/ ConvergeSame(e)
      BY <1>3, <2>5 DEF CloseKey, ConvergeSame, CanRecover
    <2>6. QED
      BY <1>5, <2>1, <2>2, <2>3, <2>4, <2>5 DEF Execute
  <1>6. CASE UnlinkBytes \/ CommitExecution \/ AbortExecution
    <2>1. tx'.phase \in {"unlinked", "free"}
      BY <1>6 DEF UnlinkBytes, CommitExecution, AbortExecution, NoTx, GuardInv, TypeOK,
                  ExecTypeOK, Transactions
    <2>2. QED
      BY <2>1
  <1>7. QED
    BY <1>2, <1>4, <1>5, <1>6 DEF Next

\* The bytes are removed by UnlinkBytes alone, so nothing blocks when they go.
THEOREM RemovalIsGuarded == Spec => UnlinkGuarded
  <1>1. ASSUME GuardInv, Next, bytes, ~bytes'
        PROVE  Unblocked
    <2>1. CASE UnlinkBytes
      BY <1>1, <2>1 DEF UnlinkBytes, GuardInv
    <2>2. CASE StoreStep
      BY <1>1, <2>2 DEF StoreStep, Store, StoreObject, StoreObjectAborted
    <2>3. CASE UNCHANGED bytes
      BY <1>1, <2>3
    <2>4. ASSUME NEW e \in ExecIds, Execute(e)
          PROVE  UNCHANGED bytes
      BY <2>4 DEF Execute, BeginIntent, ConvergeFresh, ValidateExecution, LeaveAttemptOpen,
                  CloseKey, ConvergeSame, RetryExecution, objectVars
    <2>5. CASE AdministerStep \/ HoldStep \/ PeriodStep \/ PipelineStep \/ CommitExecution \/ AbortExecution
      BY <2>3, <2>5 DEF AdministerStep, HoldStep, PeriodStep, Period, PipelineStep,
                        CommitExecution, AbortExecution, objectVars
    <2>6. QED
      BY <1>1, <2>1, <2>2, <2>3, <2>4, <2>5 DEF Next
  <1>2. GuardInv /\ [Next]_vars
            => [bytes /\ ~bytes' => /\ req.status = "approved"
                                    /\ \E v \in DOMAIN policies : NoBlocker(v)]_vars
    BY <1>1 DEF Unblocked
  <1>3. QED
    BY <1>2, InitGuardInv, NextGuardInv, PTL DEF Spec, UnlinkGuarded

\* Only a live intent ever changes, and into a closed attempt.
THEOREM ClosedAttemptsStay == Spec => ClosedAttemptsAreFinal
  <1>1. ASSUME AttemptInv, Next, NEW e \in ExecIds, execs[e].state \in {"completed", "interrupted"}
        PROVE  execs'[e] = execs[e]
    <2>1. ASSUME NEW x \in ExecIds, NEW kinds, CompleteExecution(x, kinds)
          PROVE  execs'[e] = execs[e]
      BY <1>1, <2>1 DEF CompleteExecution, StillIntent, AttemptInv, TypeOK, ExecTypeOK
    <2>2. ASSUME NEW x \in ExecIds, NEW p \in Principals, NEW v \in DOMAIN policies, BeginIntent(x, p, v)
          PROVE  execs'[e] = execs[e]
      BY <1>1, <2>2 DEF BeginIntent, Superseded, Intents, AttemptInv, FreeKeysUnused
    <2>3. CASE UNCHANGED execs
      BY <2>3
    <2>4. ASSUME NEW x \in ExecIds, Execute(x)
          PROVE  execs'[e] = execs[e]
      BY <2>1, <2>2, <2>3, <2>4 DEF Execute, ConvergeFresh, ValidateExecution, LeaveAttemptOpen,
                                    CloseKey, ConvergeSame, RetryExecution, Intents
    <2>5. CASE CommitExecution
      BY <1>1, <2>1, <2>5 DEF CommitExecution, AttemptInv, TypeOK, ExecTypeOK, Transactions, NoTx
    <2>6. CASE AdministerStep \/ HoldStep \/ StoreStep \/ PeriodStep \/ PipelineStep
               \/ UnlinkBytes \/ AbortExecution
      BY <2>3, <2>6 DEF AdministerStep, HoldStep, StoreStep, PeriodStep, PipelineStep, UnlinkBytes,
                        AbortExecution, execVars
    <2>7. QED
      BY <1>1, <2>4, <2>5, <2>6 DEF Next
  <1>2. AttemptInv /\ [Next]_vars
            => [\A e \in ExecIds : execs[e].state \in {"completed", "interrupted"}
                                       => execs'[e] = execs[e]]_vars
    BY <1>1
  <1>3. QED
    BY <1>2, InitAttemptInv, NextAttemptInv, PTL DEF Spec, ClosedAttemptsAreFinal

-----------------------------------------------------------------------------
(* What the tables say together *)

Logged(log) == {i \in DOMAIN log : log[i].action = "purge_executed"}

LifeOf(status) ==
    CASE status \in {"none", "cancelled", "withdrawn"} -> "stored"
      [] status = "requested" -> "purge_requested"
      [] status = "approved"  -> "purge_approved"
      [] status = "rejected"  -> "purge_rejected"
      [] status = "executed"  -> "purged"

-----------------------------------------------------------------------------
(* What each step does to the request, the projection and the event log *)

LEMMA LogAppend ==
    ASSUME NEW log \in Seq(EventRows), NEW event \in EventRows
    PROVE  LET longer == Append(log, event)
           IN  /\ longer \in Seq(EventRows) /\ longer # <<>>
               /\ longer[Len(longer)] = event
               /\ Logged(longer) = Logged(log)
                      \cup (IF event.action = "purge_executed" THEN {Len(log) + 1} ELSE {})
  <1> DEFINE longer == Append(log, event)
  <1>1. /\ longer \in Seq(EventRows) /\ Len(longer) = Len(log) + 1
        /\ longer[Len(log) + 1] = event
        /\ \A i \in 1..Len(log) : longer[i] = log[i]
        /\ DOMAIN log = 1..Len(log) /\ DOMAIN longer = 1..(Len(log) + 1)
        /\ Len(log) \in Nat
    OBVIOUS
  <1> HIDE DEF longer
  <1>2. DOMAIN longer = DOMAIN log \cup {Len(log) + 1}
    BY <1>1
  <1>3. Logged(longer) = Logged(log)
            \cup (IF event.action = "purge_executed" THEN {Len(log) + 1} ELSE {})
    BY <1>1, <1>2 DEF Logged
  <1>4. longer # <<>>
    BY <1>1
  <1>5. QED
    BY <1>1, <1>3, <1>4 DEF longer

\* The request moves to a status, the projection and the log follow it.
Recorded(from, to) ==
    /\ req.status \in from
    /\ req'.status = to /\ req'.exec = req.exec
    /\ proj'.state = LifeOf(to)
    /\ events' # <<>> /\ events'[Len(events')].to = LifeOf(to)
    /\ Logged(events') = Logged(events)

LEMMA TransitionRecords ==
    ASSUME TypeOK, NEW action \in EventActions \ {"purge_executed"}, NEW from \in LifecycleStates,
           NEW seen \in Snapshots, NEW policy, NEW hash, hash.life \in LifecycleStates,
           Transition(action, from, seen, policy, hash)
    PROVE  /\ proj'.state = hash.life
           /\ events' # <<>> /\ events'[Len(events')].to = hash.life
           /\ Logged(events') = Logged(events)
  <1> DEFINE event == Event(action, from, hash.life, seen)
  <1>1. event \in EventRows /\ event.to = hash.life /\ event.action # "purge_executed"
    BY DEF Event, EventRows
  <1>2. events \in Seq(EventRows) /\ events' = Append(events, event)
    BY DEF TypeOK, PipelineTypeOK, Transition
  <1>3. proj'.state = hash.life
    BY DEF Transition
  <1> HIDE DEF event
  <1>4. events' # <<>> /\ events'[Len(events')] = event
    BY <1>1, <1>2, LogAppend
  <1>5. Logged(events') = Logged(events) \cup {}
    <2>1. Logged(events') = Logged(events)
              \cup (IF event.action = "purge_executed" THEN {Len(events) + 1} ELSE {})
      BY <1>1, <1>2, LogAppend
    <2>2. QED
      BY <1>1, <2>1
  <1>6. QED
    BY <1>1, <1>3, <1>4, <1>5

LEMMA RequestRecords ==
    ASSUME TypeOK, NEW p \in Principals, NEW v \in DOMAIN policies, RequestPurge(p, v)
    PROVE  row /\ Recorded({"none", "cancelled", "withdrawn"}, "requested")
  <1> DEFINE seen == Snapshot(policies[v].kinds)
             bind == Event("retention_bound", "stored", "stored",
                           [seen EXCEPT !.requested = FALSE, !.decisions = 0])
             ask  == Event("purge_requested", "stored", "purge_requested", seen)
  <1>1. seen \in Snapshots
    BY SnapshotType
  <1> HIDE DEF seen
  <1>2. bind \in EventRows /\ ask \in EventRows
    BY <1>1 DEF Event, EventRows, Snapshots, EventActions, LifecycleStates
  <1>3. bind.action = "retention_bound" /\ ask.action = "purge_requested" /\ ask.to = "purge_requested"
    BY DEF Event
  <1>4. EventsAfterBinding(seen) = IF proj.policy # 0 THEN events ELSE Append(events, bind)
    BY DEF EventsAfterBinding
  <1>5. events' = Append(EventsAfterBinding(seen), ask)
    BY DEF RequestPurge, seen
  <1> HIDE DEF bind, ask
  <1>6. events \in Seq(EventRows)
    BY DEF TypeOK, PipelineTypeOK
  <1>7. EventsAfterBinding(seen) \in Seq(EventRows) /\ Logged(EventsAfterBinding(seen)) = Logged(events)
    BY <1>2, <1>3, <1>4, <1>6, LogAppend
  <1>8. /\ events' # <<>> /\ events'[Len(events')] = ask
        /\ Logged(events') = Logged(events)
    BY <1>2, <1>3, <1>5, <1>7, LogAppend
  <1>9. /\ req.status \in {"none", "cancelled", "withdrawn"} /\ row
        /\ req'.status = "requested" /\ req'.exec = req.exec
        /\ proj'.state = "purge_requested"
    BY DEF RequestPurge, MayRequest, TypeOK, PipelineTypeOK, RequestRows
  <1>10. QED
    BY <1>3, <1>8, <1>9 DEF Recorded, LifeOf

LEMMA ApproveRecords ==
    ASSUME TypeOK, NEW p \in Principals, NEW v \in DOMAIN policies, ApprovePurge(p, v)
    PROVE  Recorded({"requested"}, "approved") \/ Recorded({"requested"}, "requested")
  <1> DEFINE seen     == Snapshot(policies[v].kinds)
             order    == Len(approvals) + 1
             complete == ~policies[v].dual \/ order = 2
             life     == IF complete THEN "purge_approved" ELSE "purge_requested"
             hash     == [seen EXCEPT !.life = life, !.policy = v, !.decisions = order]
  <1>1. seen \in Snapshots
    BY SnapshotType
  <1>2. Transition("purge_approved", "purge_requested", seen, v, hash)
    BY DEF ApprovePurge
  <1>3. req' = (IF complete THEN [req EXCEPT !.status = "approved"] ELSE req) /\ req.status = "requested"
    BY DEF ApprovePurge, MayApprove
  <1> HIDE DEF seen, order, complete
  <1>4. hash.life = life
    BY <1>1 DEF Snapshots
  <1>5. life \in LifecycleStates /\ "purge_approved" \in EventActions \ {"purge_executed"}
        /\ "purge_requested" \in LifecycleStates
    BY DEF LifecycleStates, EventActions
  <1> HIDE DEF life, hash
  <1>6. /\ proj'.state = life
        /\ events' # <<>> /\ events'[Len(events')].to = life
        /\ Logged(events') = Logged(events)
    BY <1>1, <1>2, <1>4, <1>5, TransitionRecords
  <1>7. CASE complete
    BY <1>3, <1>6, <1>7 DEF life, Recorded, LifeOf, TypeOK, PipelineTypeOK, RequestRows
  <1>8. CASE ~complete
    BY <1>3, <1>6, <1>8 DEF life, Recorded, LifeOf
  <1>9. QED
    BY <1>7, <1>8

LEMMA CloseRecords ==
    ASSUME TypeOK, NEW action \in EventActions \ {"purge_executed"}, NEW from \in LifecycleStates,
           NEW status \in Statuses, NEW old, req.status = old,
           CloseTransition(action, from, status, LifeOf(status))
    PROVE  Recorded({old}, status)
  <1> DEFINE seen == Snapshot(policies[req.policy].kinds)
             hash == [seen EXCEPT !.life = LifeOf(status)]
  <1>1. seen \in Snapshots
    BY SnapshotType
  <1>2. Transition(action, from, seen, seen.policy, hash) /\ req' = [req EXCEPT !.status = status]
    BY DEF CloseTransition
  <1> HIDE DEF seen
  <1>3. hash.life = LifeOf(status) /\ LifeOf(status) \in LifecycleStates
    BY <1>1 DEF Snapshots, LifeOf, LifecycleStates, Statuses
  <1> HIDE DEF hash
  <1>4. /\ proj'.state = LifeOf(status)
        /\ events' # <<>> /\ events'[Len(events')].to = LifeOf(status)
        /\ Logged(events') = Logged(events)
    BY <1>1, <1>2, <1>3, TransitionRecords
  <1>5. req'.status = status /\ req'.exec = req.exec
    BY <1>2 DEF TypeOK, PipelineTypeOK, RequestRows
  <1>6. QED
    BY <1>4, <1>5 DEF Recorded

\* Every act of the pipeline is one legal move that all tables record.
LEMMA PipelineRecords ==
    ASSUME TypeOK, Pipeline
    PROVE  \/ row /\ Recorded({"none", "cancelled", "withdrawn"}, "requested")
           \/ \E to \in {"requested", "approved", "rejected", "cancelled"} : Recorded({"requested"}, to)
           \/ Recorded({"approved"}, "withdrawn")
  <1>1. ASSUME NEW p \in Principals, RejectPurge(p)
        PROVE  Recorded({"requested"}, "rejected")
    <2>1. LifeOf("rejected") = "purge_rejected"
      BY DEF LifeOf
    <2>2. "purge_rejected" \in EventActions \ {"purge_executed"} /\ "purge_requested" \in LifecycleStates
          /\ "rejected" \in Statuses
      BY DEF EventActions, LifecycleStates, Statuses
    <2>3. QED
      BY <1>1, <2>1, <2>2, CloseRecords DEF RejectPurge
  <1>2. ASSUME NEW p \in Principals, CancelPurge(p)
        PROVE  Recorded({"requested"}, "cancelled")
    <2>1. LifeOf("cancelled") = "stored"
      BY DEF LifeOf
    <2>2. "purge_cancelled" \in EventActions \ {"purge_executed"} /\ "purge_requested" \in LifecycleStates
          /\ "cancelled" \in Statuses
      BY DEF EventActions, LifecycleStates, Statuses
    <2>3. QED
      BY <1>2, <2>1, <2>2, CloseRecords DEF CancelPurge
  <1>3. ASSUME NEW p \in Principals, WithdrawPurge(p)
        PROVE  Recorded({"approved"}, "withdrawn")
    <2>1. LifeOf("withdrawn") = "stored"
      BY DEF LifeOf
    <2>2. "purge_withdrawn" \in EventActions \ {"purge_executed"} /\ "purge_approved" \in LifecycleStates
          /\ "withdrawn" \in Statuses
      BY DEF EventActions, LifecycleStates, Statuses
    <2>3. QED
      BY <1>3, <2>1, <2>2, CloseRecords DEF WithdrawPurge
  <1>4. QED
    BY <1>1, <1>2, <1>3, RequestRecords, ApproveRecords DEF Pipeline

\* A completion ends an open pipeline and is logged once.
LEMMA CompletionRecords ==
    ASSUME TypeOK, NEW e \in ExecIds, NEW kinds, CompleteExecution(e, kinds)
    PROVE  /\ req.status \in {"requested", "approved"}
           /\ req'.status = "executed" /\ req'.exec = e
           /\ proj'.state = "purged"
           /\ events' # <<>> /\ events'[Len(events')].to = "purged"
           /\ Logged(events') = Logged(events) \cup {Len(events) + 1}
  <1> DEFINE done == Event("purge_executed", "purge_approved", "purged", execs[e].hash)
  <1>1. done \in EventRows /\ done.action = "purge_executed" /\ done.to = "purged"
    BY DEF TypeOK, ExecTypeOK, Attempts, Event, EventRows, EventActions, LifecycleStates
  <1>2. events \in Seq(EventRows) /\ events' = Append(events, done)
    BY DEF CompleteExecution, TypeOK, PipelineTypeOK
  <1> HIDE DEF done
  <1>3. /\ events' # <<>> /\ events'[Len(events')].to = "purged"
        /\ Logged(events') = Logged(events) \cup {Len(events) + 1}
    BY <1>1, <1>2, LogAppend
  <1>4. req.status \in {"requested", "approved"} /\ proj'.state = "purged"
    BY DEF CompleteExecution, LegalStatusChange
  <1>5. req'.status = "executed" /\ req'.exec = e
    BY DEF CompleteExecution, TypeOK, PipelineTypeOK, RequestRows
  <1>6. QED
    BY <1>3, <1>4, <1>5

-----------------------------------------------------------------------------
(* One purge, and tables that agree on it *)

\* The log has one execution exactly when the request is executed.
LogOnce == IF req.status = "executed" THEN \E k \in Nat : Logged(events) = {k}
                                      ELSE Logged(events) = {}

CompletedOnce == Completed = IF req.status = "executed" THEN {req.exec} ELSE {}

\* Only a registered object has a pipeline; a purged one has no bytes; a
\* transaction past its unlink finds none, since it still holds the lock.
DiskInv ==
    /\ req.status # "none" => row
    /\ req.status = "executed" => ~bytes
    /\ tx.phase = "unlinked" => ~bytes

\* The inductive invariant behind ProjectionFollows, PurgedOnce and
\* ClosedKeysTellTheTruth.
StateInv ==
    /\ AttemptInv
    /\ ProjectionFollows
    /\ LogOnce
    /\ CompletedOnce
    /\ DiskInv
    /\ ClosedKeysTellTheTruth

LEMMA ProjectionIsLife == ProjectionFollows <=> /\ proj.state = LifeOf(req.status)
                                                /\ events # <<>> => events[Len(events)].to = proj.state
  BY DEF ProjectionFollows, LifeOf

LEMMA InitStateInv == Init => StateInv
  <1> SUFFICES ASSUME Init PROVE StateInv
    OBVIOUS
  <1>1. AttemptInv
    BY InitAttemptInv
  <1>2. ProjectionFollows /\ DiskInv /\ ClosedKeysTellTheTruth /\ CompletedOnce
    BY DEF Init, PipelineInit, ProjectionFollows, DiskInv, ClosedKeysTellTheTruth, NoTx,
           CompletedOnce, Completed
  <1>3. LogOnce
    BY DEF Init, PipelineInit, LogOnce, Logged
  <1>4. QED
    BY <1>1, <1>2, <1>3 DEF StateInv

\* Steps that leave the request, the projection, the log and the attempts
\* alone, close no key but of a completed attempt, and remove bytes at most.
LEMMA StateFrame ==
    ASSUME StateInv, AttemptInv', UNCHANGED <<proj, req, events, execs>>,
           row => row', bytes' => bytes \/ ~row, tx'.phase = "unlinked" => ~bytes',
           \A x \in ExecIds : keys'[x] = "done" => keys[x] = "done" \/ execs[x].state = "completed"
    PROVE  StateInv'
  <1>1. ProjectionFollows' /\ LogOnce' /\ CompletedOnce'
    BY DEF StateInv, ProjectionFollows, LogOnce, CompletedOnce, Logged, Completed
  <1>2. DiskInv'
    BY DEF StateInv, DiskInv
  <1>3. ClosedKeysTellTheTruth'
    BY DEF StateInv, CompletedOnce, Completed, ClosedKeysTellTheTruth
  <1>4. QED
    BY <1>1, <1>2, <1>3 DEF StateInv

\* A recorded move of the pipeline, which touches no attempt and no disk.
LEMMA RecordedKeepsStateInv ==
    ASSUME StateInv, AttemptInv', NEW from \in SUBSET (Statuses \ {"executed"}),
           NEW to \in Statuses \ {"none", "executed"}, Recorded(from, to),
           row, UNCHANGED <<row, bytes, execs, keys, tx>>
    PROVE  StateInv'
  <1>1. ProjectionFollows'
    BY ProjectionIsLife DEF Recorded, ProjectionFollows, LifeOf, Statuses
  <1>2. LogOnce' /\ CompletedOnce' /\ DiskInv' /\ ClosedKeysTellTheTruth'
    BY DEF Recorded, StateInv, LogOnce, CompletedOnce, Completed, DiskInv, ClosedKeysTellTheTruth
  <1>3. QED
    BY <1>1, <1>2 DEF StateInv

\* A completion without bytes, whoever completes; the keys it closes are its
\* own or of ids without an attempt.
LEMMA CompletionKeepsStateInv ==
    ASSUME StateInv, AttemptInv', NEW e \in ExecIds, NEW kinds, CompleteExecution(e, kinds),
           ~bytes, UNCHANGED <<row, bytes>>, tx' \in {tx, NoTx},
           \A x \in ExecIds : keys'[x] = "done" =>
               keys[x] = "done" \/ x = e \/ execs[x].state = "none"
    PROVE  StateInv'
  <1>1. /\ req.status \in {"requested", "approved"}
        /\ req'.status = "executed" /\ req'.exec = e
        /\ proj'.state = "purged"
        /\ events' # <<>> /\ events'[Len(events')].to = "purged"
        /\ Logged(events') = Logged(events) \cup {Len(events) + 1}
    BY CompletionRecords DEF StateInv, AttemptInv
  <1>2. /\ Completed' = Completed \cup {e}
        /\ \A x \in ExecIds : execs'[x].state = "none" <=> execs[x].state = "none"
    BY CompleteAttempts DEF StateInv, AttemptInv
  <1>3. ProjectionFollows'
    BY <1>1 DEF ProjectionFollows
  <1>4. LogOnce'
    <2>1. Len(events) + 1 \in Nat
      BY DEF StateInv, AttemptInv, TypeOK, PipelineTypeOK
    <2>2. Logged(events') = {Len(events) + 1}
      BY <1>1 DEF StateInv, LogOnce
    <2>3. QED
      BY <1>1, <2>1, <2>2 DEF LogOnce
  <1>5. CompletedOnce'
    BY <1>1, <1>2 DEF StateInv, CompletedOnce
  <1>6. DiskInv'
    BY <1>1 DEF StateInv, DiskInv, NoTx
  <1>7. ClosedKeysTellTheTruth'
    <2> SUFFICES ASSUME NEW x \in ExecIds, keys'[x] = "done"
                 PROVE  execs'[x].state \in {"none", "completed"}
      BY <1>1 DEF ClosedKeysTellTheTruth
    <2>1. CASE keys[x] = "done"
      BY <1>1, <2>1 DEF StateInv, ClosedKeysTellTheTruth
    <2>2. CASE x = e
      BY <1>2, <2>2 DEF Completed
    <2>3. CASE execs[x].state = "none"
      BY <1>2, <2>3
    <2>4. QED
      BY <2>1, <2>2, <2>3
  <1>8. QED
    BY <1>3, <1>4, <1>5, <1>6, <1>7 DEF StateInv

\* A new intent is logged; it interrupts intents and completes nothing.
LEMMA IntentKeepsStateInv ==
    ASSUME StateInv, AttemptInv', NEW e \in ExecIds, NEW p \in Principals,
           NEW v \in DOMAIN policies, BeginIntent(e, p, v)
    PROVE  StateInv'
  <1> DEFINE begun == Event("purge_intent", "purge_approved", "purge_approved",
                            Snapshot(policies[v].kinds))
  <1>1. begun \in EventRows /\ begun.action = "purge_intent" /\ begun.to = "purge_approved"
    BY SnapshotType DEF StateInv, AttemptInv, Event, EventRows, EventActions, LifecycleStates
  <1>2. events \in Seq(EventRows) /\ events' = Append(events, begun)
    BY DEF BeginIntent, StateInv, AttemptInv, TypeOK, PipelineTypeOK
  <1> HIDE DEF begun
  <1>3. events' # <<>> /\ events'[Len(events')].to = "purge_approved"
    BY <1>1, <1>2, LogAppend
  <1>4. Logged(events') = Logged(events)
    <2>1. Logged(Append(events, begun))
            = Logged(events) \cup (IF begun.action = "purge_executed" THEN {Len(events) + 1} ELSE {})
      BY <1>1, <1>2, LogAppend
    <2>2. QED
      BY <1>1, <1>2, <2>1
  <1>5. req.status = "approved" /\ keys[e] = "free" /\ execs[e].state = "none"
        /\ keys' = [keys EXCEPT ![e] = "open"]
        /\ UNCHANGED <<proj, req, row, bytes, tx>>
    <2>1. keys[e] = "free" /\ UNCHANGED <<proj, req, row, bytes, tx>>
      BY DEF BeginIntent, objectVars
    <2>2. req.status = "approved" /\ keys' = [keys EXCEPT ![e] = "open"]
      BY DEF BeginIntent, MayExecute, ReserveKey
    <2>3. execs[e].state = "none"
      BY <2>1 DEF StateInv, AttemptInv, FreeKeysUnused
    <2>4. QED
      BY <2>1, <2>2, <2>3
  <1>6. ProjectionFollows'
    BY <1>3, <1>5 DEF StateInv, ProjectionFollows
  <1>7. LogOnce' /\ DiskInv'
    BY <1>4, <1>5 DEF StateInv, LogOnce, DiskInv
  <1>8. Completed' = Completed
    <2>1. \A x \in Superseded(e) : execs[x].state = "intent"
                                   /\ [execs[x] EXCEPT !.state = "interrupted"].state = "interrupted"
      BY DEF Superseded, Intents, StateInv, AttemptInv, TypeOK, ExecTypeOK, Attempts
    <2>2. QED
      BY <1>5, <2>1 DEF BeginIntent, Completed
  <1>9. CompletedOnce'
    BY <1>5, <1>8 DEF StateInv, CompletedOnce
  <1>10. ClosedKeysTellTheTruth'
    <2>1. \A x \in ExecIds : keys'[x] = "done" => keys[x] = "done"
      BY <1>5 DEF StateInv, AttemptInv, TypeOK, ExecTypeOK
    <2>2. QED
      BY <1>5, <2>1 DEF StateInv, ClosedKeysTellTheTruth
  <1>11. QED
    BY <1>6, <1>7, <1>9, <1>10 DEF StateInv

LEMMA ExecuteKeepsStateInv ==
    ASSUME StateInv, AttemptInv', NEW e \in ExecIds, Execute(e)
    PROVE  StateInv'
  <1>1. TypeOK
    BY DEF StateInv, AttemptInv
  <1>2. ASSUME NEW p \in Principals, NEW v \in DOMAIN policies, BeginIntent(e, p, v)
        PROVE  StateInv'
    BY <1>2, IntentKeepsStateInv
  <1>3. ASSUME NEW p \in Principals, NEW v \in DOMAIN policies, ConvergeFresh(e, p, v)
        PROVE  StateInv'
    <2>1. PICK prior \in ExecIds : CompleteExecution(prior, policies[req.policy].kinds)
      BY <1>3 DEF ConvergeFresh, Intents
    <2>2. execs[e].state = "none"
      BY <1>3 DEF ConvergeFresh, StateInv, AttemptInv, FreeKeysUnused
    <2>3. /\ ~bytes /\ UNCHANGED <<row, bytes>> /\ tx' \in {tx, NoTx}
          /\ \A x \in ExecIds : keys'[x] = "done" =>
                 keys[x] = "done" \/ x = prior \/ execs[x].state = "none"
      BY <1>1, <1>3, <2>2 DEF ConvergeFresh, objectVars, TypeOK, ExecTypeOK
    <2>4. QED
      BY <2>1, <2>3, CompletionKeepsStateInv
  <1>4. CASE ConvergeSame(e)
    <2>1. /\ CompleteExecution(e, policies[req.policy].kinds)
          /\ ~bytes /\ UNCHANGED <<row, bytes>> /\ tx' \in {tx, NoTx}
          /\ \A x \in ExecIds : keys'[x] = "done" =>
                 keys[x] = "done" \/ x = e \/ execs[x].state = "none"
      BY <1>1, <1>4 DEF ConvergeSame, objectVars, TypeOK, ExecTypeOK
    <2>2. QED
      BY <2>1, CompletionKeepsStateInv
  <1>5. CASE CloseKey(e)
    <2>1. /\ UNCHANGED <<proj, req, events, execs>> /\ row' = row /\ bytes' = bytes /\ tx' = tx
          /\ \A x \in ExecIds : keys'[x] = "done" => keys[x] = "done" \/ execs[x].state = "completed"
      BY <1>1, <1>5 DEF CloseKey, objectVars, pipelineVars, TypeOK, ExecTypeOK
    <2>2. QED
      BY <2>1, StateFrame DEF StateInv, DiskInv
  <1>6. CASE ValidateExecution(e) \/ RetryExecution(e) \/ LeaveAttemptOpen(e)
    <2>1. /\ UNCHANGED <<proj, req, events, execs>> /\ row' = row /\ bytes' = bytes /\ keys' = keys
          /\ tx' = tx \/ tx'.phase = "validated"
      BY <1>6 DEF ValidateExecution, RetryExecution, LeaveAttemptOpen, objectVars, pipelineVars
    <2>2. QED
      BY <2>1, StateFrame DEF StateInv, DiskInv
  <1>7. QED
    BY <1>2, <1>3, <1>4, <1>5, <1>6 DEF Execute

LEMMA NextStateInv == StateInv /\ [Next]_vars => StateInv'
  <1> SUFFICES ASSUME StateInv, [Next]_vars PROVE StateInv'
    OBVIOUS
  <1>1. TypeOK /\ AttemptInv'
    BY NextAttemptInv DEF StateInv, AttemptInv
  <1>2. CASE UNCHANGED vars
    BY <1>1, <1>2, StateFrame DEF vars, execVars, objectVars, pipelineVars, StateInv, DiskInv
  <1>3. CASE AdministerStep \/ HoldStep \/ PeriodStep
    <2>1. /\ UNCHANGED <<proj, req, events, execs>> /\ row' = row /\ bytes' = bytes
          /\ keys' = keys /\ tx' = tx
      BY <1>3 DEF AdministerStep, HoldStep, PeriodStep, Period, execVars, objectVars, pipelineVars
    <2>2. QED
      BY <1>1, <2>1, StateFrame DEF StateInv, DiskInv
  <1>4. CASE StoreStep
    <2>1. /\ UNCHANGED <<proj, req, events, execs>> /\ ~row /\ tx' = tx /\ tx = NoTx /\ keys' = keys
      BY <1>4 DEF StoreStep, Store, StoreObject, StoreObjectAborted, LockFree, execVars, pipelineVars
    <2>2. tx'.phase # "unlinked"
      BY <2>1 DEF NoTx
    <2>3. QED
      BY <1>1, <2>1, <2>2, StateFrame
  <1>5. CASE PipelineStep
    <2>1. UNCHANGED <<row, bytes, execs, keys, tx>> /\ Pipeline
      BY <1>5 DEF PipelineStep, execVars, objectVars
    <2>2. CASE row /\ Recorded({"none", "cancelled", "withdrawn"}, "requested")
      BY <1>1, <2>1, <2>2, RecordedKeepsStateInv DEF Statuses
    <2>3. ASSUME NEW to \in {"requested", "approved", "rejected", "cancelled"}, Recorded({"requested"}, to)
          PROVE  StateInv'
      <3>1. row
        BY <2>3 DEF Recorded, StateInv, DiskInv
      <3>2. QED
        BY <1>1, <2>1, <2>3, <3>1, RecordedKeepsStateInv DEF Statuses
    <2>4. CASE Recorded({"approved"}, "withdrawn")
      <3>1. row
        BY <2>4 DEF Recorded, StateInv, DiskInv
      <3>2. QED
        BY <1>1, <2>1, <2>4, <3>1, RecordedKeepsStateInv DEF Statuses
    <2>5. QED
      BY <1>1, <2>1, <2>2, <2>3, <2>4, PipelineRecords
  <1>6. CASE \E e \in ExecIds : Execute(e)
    BY <1>1, <1>6, ExecuteKeepsStateInv
  <1>7. CASE UnlinkBytes
    <2>1. /\ UNCHANGED <<proj, req, events, execs>> /\ row' = row /\ ~bytes' /\ keys' = keys
      BY <1>7 DEF UnlinkBytes, pipelineVars
    <2>2. QED
      BY <1>1, <2>1, StateFrame
  <1>8. CASE CommitExecution
    <2>1. tx.exec \in ExecIds
      BY <1>1, <1>8 DEF CommitExecution, TypeOK, ExecTypeOK, Transactions, NoTx
    <2>2. PICK v \in DOMAIN policies : CompleteExecution(tx.exec, policies[v].kinds)
      BY <1>8 DEF CommitExecution
    <2>3. /\ ~bytes /\ UNCHANGED <<row, bytes>> /\ tx' \in {tx, NoTx}
          /\ \A x \in ExecIds : keys'[x] = "done" =>
                 keys[x] = "done" \/ x = tx.exec \/ execs[x].state = "none"
      BY <1>1, <1>8 DEF CommitExecution, StateInv, DiskInv, objectVars, TypeOK, ExecTypeOK
    <2>4. QED
      BY <1>1, <2>1, <2>2, <2>3, CompletionKeepsStateInv
  <1>9. CASE AbortExecution
    <2>1. /\ UNCHANGED <<proj, req, events, execs>> /\ row' = row /\ bytes' = bytes /\ keys' = keys
          /\ tx'.phase # "unlinked"
      BY <1>9 DEF AbortExecution, objectVars, pipelineVars, NoTx
    <2>2. QED
      BY <1>1, <2>1, StateFrame
  <1>10. QED
    BY <1>2, <1>3, <1>4, <1>5, <1>6, <1>7, <1>8, <1>9 DEF Next

\* The projection and the last event always say what the request row says.
THEOREM TablesAgree == Spec => []ProjectionFollows
  <1>1. StateInv => ProjectionFollows
    BY DEF StateInv
  <1>2. QED
    BY <1>1, InitStateInv, NextStateInv, PTL DEF Spec

\* A purge is recorded once, by one attempt, when the bytes are gone.
THEOREM OnePurge == Spec => []PurgedOnce
  <1>1. ASSUME StateInv PROVE PurgedOnce
    <2>1. proj.state = "purged" <=> req.status = "executed"
      BY <1>1 DEF StateInv, AttemptInv, TypeOK, PipelineTypeOK, RequestRows, Statuses, ProjectionFollows
    <2>2. Completed = IF req.status = "executed" THEN {req.exec} ELSE {}
      BY <1>1 DEF StateInv, CompletedOnce
    <2>3. Cardinality(Logged(events)) = Cardinality(Completed)
      BY <1>1, <2>2, FS_Singleton, FS_EmptySet DEF StateInv, LogOnce
    <2>4. req.status = "executed" => ~bytes
      BY <1>1 DEF StateInv, DiskInv
    <2>5. QED
      BY <2>1, <2>2, <2>3, <2>4 DEF PurgedOnce, Logged
  <1>2. QED
    BY <1>1, InitStateInv, NextStateInv, PTL DEF Spec

\* A closed execution key promises the purge that happened.
THEOREM ClosedKeysAreTrue == Spec => []ClosedKeysTellTheTruth
  <1>1. StateInv => ClosedKeysTellTheTruth
    BY DEF StateInv
  <1>2. QED
    BY <1>1, InitStateInv, NextStateInv, PTL DEF Spec

-----------------------------------------------------------------------------
(* Separation of duties *)

\* While a round is open, its approvals are not its requester's; rows of the
\* ledger written before the round do not count for it.
DutiesInv ==
    /\ TypeOK
    /\ roundStart <= Len(approvals)
    /\ req.status \in {"requested", "approved"}
           => \A i \in ApprovedThisRound : approvals[i].by # req.by
    /\ SeparationOfDuties

\* The ledger grows by a decision that is no approval.
DecisionOnly ==
    \E p \in Principals, decision \in Decisions \ {"approved"} : RecordDecision(p, decision)

LEMMA ApprovalAppend ==
    ASSUME TypeOK, NEW decided \in ApprovalRows, approvals' = Append(approvals, decided)
    PROVE  /\ Len(approvals') = Len(approvals) + 1
           /\ DOMAIN approvals = 1..Len(approvals) /\ DOMAIN approvals' = 1..(Len(approvals) + 1)
           /\ approvals'[Len(approvals) + 1] = decided
           /\ \A i \in 1..Len(approvals) : approvals'[i] = approvals[i]
           /\ Len(approvals) \in Nat
  <1>1. approvals \in Seq(ApprovalRows)
    BY DEF TypeOK, PipelineTypeOK
  <1>2. QED
    BY <1>1

\* Steps that add no approval and open or keep no other round.
LEMMA DutiesFrame ==
    ASSUME DutiesInv, TypeOK', DecisionOnly \/ approvals' = approvals,
           roundStart' = roundStart,
           \/ req'.status = req.status /\ req'.by = req.by
           \/ req'.status \in Statuses \ {"requested", "approved"}
    PROVE  DutiesInv'
  <1>1. /\ DOMAIN approvals \subseteq DOMAIN approvals' /\ Len(approvals) <= Len(approvals')
        /\ \A i \in DOMAIN approvals : approvals'[i] = approvals[i]
        /\ \A i \in DOMAIN approvals' : approvals'[i].decision = "approved" => i \in DOMAIN approvals
        /\ Len(approvals) \in Nat /\ Len(approvals') \in Nat
    <2>1. CASE approvals' = approvals
      BY <2>1 DEF DutiesInv, TypeOK, PipelineTypeOK
    <2>2. CASE DecisionOnly
      <3>1. PICK p \in Principals, decision \in Decisions \ {"approved"} : RecordDecision(p, decision)
        BY <2>2 DEF DecisionOnly
      <3> DEFINE decided == [by |-> p, decision |-> decision, order |-> NextDecisionOrder]
      <3>2. /\ decided \in ApprovalRows /\ decided.decision # "approved"
            /\ approvals' = Append(approvals, decided)
        BY <3>1 DEF RecordDecision, ApprovalRows, NextDecisionOrder
      <3> HIDE DEF decided
      <3>3. /\ Len(approvals') = Len(approvals) + 1
            /\ DOMAIN approvals = 1..Len(approvals) /\ DOMAIN approvals' = 1..(Len(approvals) + 1)
            /\ approvals'[Len(approvals) + 1] = decided
            /\ \A i \in 1..Len(approvals) : approvals'[i] = approvals[i]
            /\ Len(approvals) \in Nat
        BY <3>2, ApprovalAppend DEF DutiesInv
      <3>4. \A i \in 1..(Len(approvals) + 1) : i \in 1..Len(approvals) \/ i = Len(approvals) + 1
        BY <3>3
      <3>5. \A i \in DOMAIN approvals' : approvals'[i].decision = "approved" => i \in DOMAIN approvals
        BY <3>2, <3>3, <3>4
      <3>6. DOMAIN approvals \subseteq DOMAIN approvals'
        BY <3>3
      <3>7. Len(approvals') \in Nat /\ Len(approvals) <= Len(approvals')
        BY <3>3
      <3>8. \A i \in DOMAIN approvals : approvals'[i] = approvals[i]
        BY <3>3
      <3>9. QED
        BY <3>3, <3>5, <3>6, <3>7, <3>8
    <2>3. QED
      BY <2>1, <2>2
  <1>2. roundStart' <= Len(approvals')
    BY <1>1 DEF DutiesInv, TypeOK, PipelineTypeOK
  <1>3. ApprovedThisRound' = ApprovedThisRound
    BY <1>1 DEF ApprovedThisRound
  <1>4. req'.status \in {"requested", "approved"}
            => \A i \in ApprovedThisRound' : approvals'[i].by # req'.by
    BY <1>1, <1>3 DEF DutiesInv, ApprovedThisRound
  <1>5. SeparationOfDuties'
    <2>1. req'.status = "approved" => ApprovedThisRound' # {}
      BY <1>3 DEF DutiesInv, SeparationOfDuties
    <2>2. ASSUME NEW i \in DOMAIN approvals', NEW j \in DOMAIN approvals', i # j,
                 approvals'[i].decision = "approved", approvals'[j].decision = "approved"
          PROVE  approvals'[i].by # approvals'[j].by
      BY <1>1, <2>2 DEF DutiesInv, SeparationOfDuties
    <2>3. QED
      BY <1>4, <2>1, <2>2 DEF SeparationOfDuties
  <1>6. QED
    BY <1>2, <1>4, <1>5 DEF DutiesInv

LEMMA RequestKeepsDuties ==
    ASSUME DutiesInv, TypeOK', NEW p \in Principals, NEW v \in DOMAIN policies, RequestPurge(p, v)
    PROVE  DutiesInv'
  <1>1. /\ req'.status = "requested" /\ approvals' = approvals /\ roundStart' = Len(approvals)
        /\ approvals \in Seq(ApprovalRows)
    BY DEF RequestPurge, DutiesInv, TypeOK, PipelineTypeOK, RequestRows
  <1>2. ApprovedThisRound' = {}
    BY <1>1 DEF ApprovedThisRound
  <1>3. QED
    BY <1>1, <1>2 DEF DutiesInv, SeparationOfDuties

LEMMA ApproveKeepsDuties ==
    ASSUME DutiesInv, TypeOK', NEW p \in Principals, NEW v \in DOMAIN policies, ApprovePurge(p, v)
    PROVE  DutiesInv'
  <1> DEFINE last    == Len(approvals) + 1
             decided == [by |-> p, decision |-> "approved", order |-> last]
  <1>1. TypeOK /\ Len(approvals) \in Nat /\ Len(approvals) < 2 /\ approvals \in Seq(ApprovalRows)
    BY DEF ApprovePurge, MayApprove, ApprovalSlotLeft, DutiesInv, TypeOK, PipelineTypeOK
  <1>2. decided \in ApprovalRows
    BY <1>1 DEF ApprovalRows, Decisions
  <1>3. approvals' = Append(approvals, decided)
    BY DEF ApprovePurge
  <1>4. decided.by = p /\ decided.decision = "approved"
    OBVIOUS
  <1> HIDE DEF decided
  <1>5. /\ Len(approvals') = last
        /\ DOMAIN approvals = 1..Len(approvals) /\ DOMAIN approvals' = 1..last
        /\ approvals'[last] = decided
        /\ \A i \in 1..Len(approvals) : approvals'[i] = approvals[i]
    BY <1>1, <1>2, <1>3, ApprovalAppend
  <1>6. /\ req.status = "requested" /\ p # req.by /\ p # FirstApprover
        /\ req'.by = req.by /\ roundStart' = roundStart
    BY <1>1 DEF ApprovePurge, MayApprove, AuthorizePurgeAct, TypeOK, PipelineTypeOK, RequestRows
  <1>7. roundStart \in Nat /\ roundStart <= Len(approvals)
    BY DEF DutiesInv, TypeOK, PipelineTypeOK
  <1>8. ApprovedThisRound' = ApprovedThisRound \cup {last}
    BY <1>1, <1>4, <1>5, <1>6, <1>7 DEF ApprovedThisRound
  <1>9. \A i \in ApprovedThisRound' : approvals'[i].by # req'.by
    BY <1>1, <1>4, <1>5, <1>6, <1>8 DEF DutiesInv, ApprovedThisRound
  <1>10. \A i \in 1..Len(approvals) : approvals[i].by # p
    <2>1. CASE Len(approvals) = 0
      BY <2>1
    <2>2. CASE Len(approvals) = 1
      <3>1. FirstApprover = approvals[1].by
        BY <2>2 DEF FirstApprover
      <3>2. \A i \in 1..Len(approvals) : i = 1
        BY <2>2
      <3>3. QED
        BY <1>6, <3>1, <3>2
    <2>3. Len(approvals) = 0 \/ Len(approvals) = 1
      <3>1. \A n \in Nat : n < 2 => n = 0 \/ n = 1
        OBVIOUS
      <3>2. QED
        BY <1>1, <3>1
    <2>4. QED
      BY <2>1, <2>2, <2>3
  <1>11. ASSUME NEW i \in DOMAIN approvals', NEW j \in DOMAIN approvals', i # j,
                approvals'[i].decision = "approved", approvals'[j].decision = "approved"
         PROVE  approvals'[i].by # approvals'[j].by
    <2>1. CASE i = last
      BY <1>1, <1>4, <1>5, <1>10, <1>11, <2>1
    <2>2. CASE j = last
      BY <1>1, <1>4, <1>5, <1>10, <1>11, <2>2
    <2>3. CASE i # last /\ j # last
      BY <1>1, <1>5, <1>11, <2>3 DEF DutiesInv, SeparationOfDuties
    <2>4. QED
      BY <2>1, <2>2, <2>3
  <1>12. SeparationOfDuties'
    BY <1>8, <1>9, <1>11 DEF SeparationOfDuties
  <1>13. roundStart' <= Len(approvals')
    BY <1>1, <1>5, <1>6, <1>7
  <1>14. QED
    BY <1>9, <1>12, <1>13 DEF DutiesInv

LEMMA NextDutiesInv == DutiesInv /\ [Next]_vars => DutiesInv'
  <1> SUFFICES ASSUME DutiesInv, [Next]_vars PROVE DutiesInv'
    OBVIOUS
  <1>1. TypeOK /\ TypeOK'
    BY NextTypeOK DEF DutiesInv
  <1>2. CASE UNCHANGED pipelineVars
    BY <1>1, <1>2, DutiesFrame DEF pipelineVars
  <1>3. CASE PipelineStep
    <2>1. ASSUME NEW p \in Principals, NEW v \in DOMAIN policies, RequestPurge(p, v)
          PROVE  DutiesInv'
      BY <1>1, <2>1, RequestKeepsDuties
    <2>2. ASSUME NEW p \in Principals, NEW v \in DOMAIN policies, ApprovePurge(p, v)
          PROVE  DutiesInv'
      BY <1>1, <2>2, ApproveKeepsDuties
    <2>3. ASSUME NEW p \in Principals, RejectPurge(p) \/ CancelPurge(p) \/ WithdrawPurge(p)
          PROVE  DutiesInv'
      <3>1. /\ req'.status \in Statuses \ {"requested", "approved"}
            /\ roundStart' = roundStart
        BY <1>1, <2>3 DEF RejectPurge, CancelPurge, WithdrawPurge, CloseTransition, TypeOK,
                          PipelineTypeOK, RequestRows, Statuses
      <3>2. DecisionOnly \/ approvals' = approvals
        BY <2>3 DEF RejectPurge, CancelPurge, WithdrawPurge, DecisionOnly, Decisions
      <3>3. QED
        BY <1>1, <3>1, <3>2, DutiesFrame
    <2>4. QED
      BY <1>3, <2>1, <2>2, <2>3 DEF PipelineStep, Pipeline
  <1>4. ASSUME NEW e \in ExecIds, NEW kinds, CompleteExecution(e, kinds)
        PROVE  DutiesInv'
    <2>1. req'.status = "executed" /\ UNCHANGED <<approvals, roundStart>>
      BY <1>1, <1>4, CompletionRecords DEF CompleteExecution
    <2>2. QED
      BY <1>1, <2>1, DutiesFrame DEF Statuses
  <1>5. ASSUME NEW e \in ExecIds, Execute(e)
        PROVE  DutiesInv'
    <2>1. CASE \E p \in Principals, v \in DOMAIN policies : BeginIntent(e, p, v)
      <3>1. UNCHANGED <<approvals, roundStart, req>>
        BY <2>1 DEF BeginIntent
      <3>2. QED
        BY <1>1, <3>1, DutiesFrame
    <2>2. CASE \E p \in Principals, v \in DOMAIN policies : ConvergeFresh(e, p, v)
      BY <1>4, <2>2 DEF ConvergeFresh, Intents
    <2>3. CASE ConvergeSame(e)
      BY <1>4, <2>3 DEF ConvergeSame
    <2>4. CASE ValidateExecution(e) \/ LeaveAttemptOpen(e) \/ CloseKey(e) \/ RetryExecution(e)
      BY <1>2, <2>4 DEF ValidateExecution, LeaveAttemptOpen, CloseKey, RetryExecution
    <2>5. QED
      BY <1>5, <2>1, <2>2, <2>3, <2>4 DEF Execute
  <1>6. CASE CommitExecution
    BY <1>1, <1>4, <1>6 DEF CommitExecution, TypeOK, ExecTypeOK, Transactions, NoTx
  <1>7. CASE \/ AdministerStep \/ HoldStep \/ StoreStep \/ PeriodStep
             \/ UnlinkBytes \/ AbortExecution
    BY <1>2, <1>7 DEF AdministerStep, HoldStep, StoreStep, PeriodStep, UnlinkBytes, AbortExecution
  <1>8. CASE UNCHANGED vars
    BY <1>2, <1>8 DEF vars
  <1>9. QED
    BY <1>3, <1>5, <1>6, <1>7, <1>8 DEF Next

\* Whoever approves a purge did not request it, and nobody approves twice,
\* whatever the earlier rounds of the object left in the decision ledger.
THEOREM DutiesAreSeparated == Spec => []SeparationOfDuties
  <1>1. Init => DutiesInv
    BY InitTypeOK DEF Init, PipelineInit, DutiesInv, SeparationOfDuties, ApprovedThisRound
  <1>2. DutiesInv => SeparationOfDuties
    BY DEF DutiesInv
  <1>3. QED
    BY <1>1, <1>2, NextDutiesInv, PTL DEF Spec

-----------------------------------------------------------------------------
(* The refinement *)

LifecycleInv == StateInv /\ GuardInv

\* A completion finishes the removal, whoever completes.
LEMMA CompletionFinishes ==
    ASSUME StateInv, NEW e \in ExecIds, NEW kinds, CompleteExecution(e, kinds),
           ~bytes, UNCHANGED <<row, bytes>>
    PROVE  Lifecycle!Finish
  <1>1. TypeOK
    BY DEF StateInv, AttemptInv
  <1>2. req.status \in {"requested", "approved"} /\ proj'.state = "purged"
    BY <1>1, CompletionRecords
  <1>3. row /\ proj.state \in {"purge_approved", "purge_requested"}
    BY <1>2 DEF StateInv, DiskInv, ProjectionFollows
  <1>4. e \in Intents /\ \A x \in ExecIds : execs'[x].state = "none" <=> execs[x].state = "none"
    BY <1>1, CompleteAttempts
  <1>5. Attempted # {} /\ Attempted' = Attempted
    BY <1>4 DEF Attempted, Intents
  <1>6. QED
    BY <1>2, <1>3, <1>5 DEF Lifecycle!Finish, Lifecycle!Move

\* A recorded act of the pipeline is one move of the object's life, or none.
LEMMA RecordedMoves ==
    ASSUME StateInv, TypeOK', Pipeline, UNCHANGED <<row, bytes, execs>>
    PROVE  Lifecycle!Next \/ UNCHANGED Lifecycle!lifecycleVars
  <1>1. TypeOK /\ Attempted' = Attempted
    BY DEF StateInv, AttemptInv, Attempted
  <1>2. CASE row /\ Recorded({"none", "cancelled", "withdrawn"}, "requested")
    <2>1. Lifecycle!Request
      BY <1>1, <1>2 DEF Recorded, LifeOf, StateInv, ProjectionFollows, Lifecycle!Request, Lifecycle!Move
    <2>2. QED
      BY <2>1 DEF Lifecycle!Next
  <1>3. ASSUME NEW to \in {"requested", "approved", "rejected", "cancelled"}, Recorded({"requested"}, to)
        PROVE  Lifecycle!Next \/ UNCHANGED Lifecycle!lifecycleVars
    <2>1. row /\ proj.state = "purge_requested" /\ proj'.state = LifeOf(to)
      BY <1>3 DEF Recorded, StateInv, DiskInv, ProjectionFollows
    <2>2. CASE to = "requested"
      BY <1>1, <2>1, <2>2 DEF LifeOf, Lifecycle!lifecycleVars
    <2>3. CASE to = "approved"
      BY <1>1, <2>1, <2>3 DEF LifeOf, Lifecycle!Next, Lifecycle!Approve, Lifecycle!Move
    <2>4. CASE to = "rejected"
      BY <1>1, <2>1, <2>4 DEF LifeOf, Lifecycle!Next, Lifecycle!Reject, Lifecycle!Move
    <2>5. CASE to = "cancelled"
      BY <1>1, <2>1, <2>5 DEF LifeOf, Lifecycle!Next, Lifecycle!Retract, Lifecycle!Move
    <2>6. QED
      BY <2>2, <2>3, <2>4, <2>5
  <1>4. CASE Recorded({"approved"}, "withdrawn")
    <2>1. row /\ proj.state = "purge_approved" /\ proj'.state = "stored"
      BY <1>4 DEF Recorded, LifeOf, StateInv, DiskInv, ProjectionFollows
    <2>2. QED
      BY <1>1, <2>1 DEF Lifecycle!Next, Lifecycle!Retract, Lifecycle!Move
  <1>5. QED
    BY <1>1, <1>2, <1>3, <1>4, PipelineRecords

LEMMA NextImplements ==
    LifecycleInv /\ [Next]_vars => [Lifecycle!Next]_(Lifecycle!lifecycleVars)
  <1> SUFFICES ASSUME LifecycleInv, [Next]_vars
               PROVE  Lifecycle!Next \/ UNCHANGED Lifecycle!lifecycleVars
    OBVIOUS
  <1>1. TypeOK /\ TypeOK' /\ StateInv
    BY NextTypeOK DEF LifecycleInv, StateInv, AttemptInv
  <1>2. CASE UNCHANGED <<row, bytes, proj, execs>>
    BY <1>2 DEF Lifecycle!lifecycleVars, Attempted
  <1>3. CASE StoreStep
    <2>1. Lifecycle!Keep
      BY <1>1, <1>3 DEF StoreStep, Store, StoreObject, StoreObjectAborted, pipelineVars, execVars,
                        Lifecycle!Keep, Attempted, TypeOK, ObjectTypeOK
    <2>2. QED
      BY <2>1 DEF Lifecycle!Next
  <1>4. CASE PipelineStep
    BY <1>1, <1>4, RecordedMoves DEF PipelineStep, objectVars, execVars
  <1>5. ASSUME NEW e \in ExecIds, Execute(e)
        PROVE  Lifecycle!Next \/ UNCHANGED Lifecycle!lifecycleVars
    <2>1. ASSUME NEW p \in Principals, NEW v \in DOMAIN policies, BeginIntent(e, p, v)
          PROVE  Lifecycle!Permit
      <3>1. proj.state = "purge_approved"
        BY <1>1, <2>1 DEF BeginIntent, MayExecute, StateInv, ProjectionFollows
      <3>2. execs'[e].state = "intent" /\ UNCHANGED <<row, bytes, proj>>
        BY <2>1 DEF BeginIntent, objectVars
      <3>3. (Attempted # {})' = TRUE
        BY <3>2 DEF Attempted
      <3>4. QED
        BY <3>1, <3>2, <3>3 DEF Lifecycle!Permit
    <2>2. ASSUME NEW p \in Principals, NEW v \in DOMAIN policies, ConvergeFresh(e, p, v)
          PROVE  Lifecycle!Finish
      <3>1. PICK prior \in ExecIds : CompleteExecution(prior, policies[req.policy].kinds)
        BY <2>2 DEF ConvergeFresh, Intents
      <3>2. QED
        BY <1>1, <2>2, <3>1, CompletionFinishes DEF ConvergeFresh, objectVars
    <2>3. CASE ConvergeSame(e)
      <3>1. Lifecycle!Finish
        BY <1>1, <2>3, CompletionFinishes DEF ConvergeSame, objectVars
      <3>2. QED
        BY <3>1 DEF Lifecycle!Next
    <2>4. CASE ValidateExecution(e) \/ LeaveAttemptOpen(e) \/ CloseKey(e) \/ RetryExecution(e)
      BY <1>2, <2>4 DEF ValidateExecution, LeaveAttemptOpen, CloseKey, RetryExecution,
                        objectVars, pipelineVars
    <2>5. QED
      BY <1>5, <2>1, <2>2, <2>3, <2>4 DEF Execute, Lifecycle!Next
  <1>6. CASE UnlinkBytes
    <2>1. tx.exec \in ExecIds /\ execs[tx.exec].state # "none"
      BY <1>1, <1>6 DEF UnlinkBytes, NoTx, StateInv, AttemptInv, ActorsAttempted, TypeOK, ExecTypeOK, Transactions
    <2>2. Attempted # {} /\ Attempted' = Attempted
      BY <1>6, <2>1 DEF UnlinkBytes, Attempted
    <2>3. proj.state = "purge_approved"
      BY <1>1, <1>6 DEF UnlinkBytes, LifecycleInv, GuardInv, Unblocked, StateInv, ProjectionFollows
    <2>4. Lifecycle!Remove
      BY <1>6, <2>2, <2>3 DEF UnlinkBytes, pipelineVars, Lifecycle!Remove
    <2>5. QED
      BY <2>4 DEF Lifecycle!Next
  <1>7. CASE CommitExecution
    <2>1. tx.exec \in ExecIds /\ ~bytes /\ UNCHANGED <<row, bytes>>
      BY <1>1, <1>7 DEF CommitExecution, TypeOK, ExecTypeOK, Transactions, NoTx, StateInv, DiskInv, objectVars
    <2>2. PICK v \in DOMAIN policies : CompleteExecution(tx.exec, policies[v].kinds)
      BY <1>7 DEF CommitExecution
    <2>3. Lifecycle!Finish
      BY <1>1, <2>1, <2>2, CompletionFinishes
    <2>4. QED
      BY <2>3 DEF Lifecycle!Next
  <1>8. CASE AdministerStep \/ HoldStep \/ PeriodStep \/ AbortExecution \/ UNCHANGED vars
    BY <1>2, <1>8 DEF AdministerStep, HoldStep, PeriodStep, Period, AbortExecution, vars,
                      objectVars, pipelineVars, execVars
  <1>9. QED
    BY <1>3, <1>4, <1>5, <1>6, <1>7, <1>8 DEF Next

\* The pipeline, its people, its ledgers, its lock and its crashes implement
\* the promise of EvidenceLifecycle.
THEOREM PurgesImplementLifecycle == Spec => ImplementsLifecycle
  <1>1. Init => Lifecycle!Init
    BY DEF Init, PipelineInit, Lifecycle!Init, Attempted
  <1>2. Init => LifecycleInv
    BY InitStateInv, InitGuardInv DEF LifecycleInv
  <1>3. LifecycleInv /\ [Next]_vars => LifecycleInv'
    BY NextStateInv, NextGuardInv DEF LifecycleInv
  <1>4. QED
    BY <1>1, <1>2, <1>3, NextImplements, PTL DEF Spec, ImplementsLifecycle, Lifecycle!Spec

=============================================================================
