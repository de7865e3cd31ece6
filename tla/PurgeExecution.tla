--------------------------- MODULE PurgeExecution ---------------------------
(***************************************************************************)
(* Physical purge: the two-transaction protocol of ExecutePurge, its crash *)
(* recovery, and the whole evidence lifecycle around it.                   *)
(*                                                                         *)
(* Several processes share one WAL database; BEGIN IMMEDIATE gives the     *)
(* write lock to one transaction at a time.  Every operation but the       *)
(* execution transaction is one atomic step taken while the lock is free.  *)
(* The execution transaction touches the disk before it commits, so it is  *)
(* split: validate (takes the lock), unlink, commit or abort.              *)
(***************************************************************************)
EXTENDS PurgePipeline

VARIABLES
    execs,  \* evidence_purge_executions: state and bound reviewed hash
    keys,   \* the idempotency key of each execution id
    gap,    \* calls between the intent commit and the execution transaction
    tx      \* the execution transaction that holds the write lock

execVars   == <<execs, keys, gap, tx>>
objectVars == <<row, bytes, closed>>
vars == <<policies, holds, objectVars, pipelineVars, execVars>>

NoTx         == [exec |-> NoExec, retry |-> FALSE, phase |-> "free"]
Transactions == [exec : ExecIds, retry : BOOLEAN, phase : {"validated", "unlinked"}]

Attempts == [state : {"none", "intent", "completed", "interrupted"}, hash : Snapshots]

ExecTypeOK ==
    /\ execs \in [ExecIds -> Attempts]
    /\ keys \in [ExecIds -> {"free", "open", "done"}]
    /\ gap \in SUBSET ExecIds
    /\ tx \in Transactions \cup {NoTx}

\* TYPE INVARIANT.  Every table row, the disk and the lock hold values the
\* schema and the code can produce.
TypeOK == /\ PoliciesTypeOK /\ HoldsTypeOK /\ ObjectTypeOK
          /\ PipelineTypeOK /\ ExecTypeOK

Init ==
    /\ policies = <<>>
    /\ holds = [h \in HoldIds |-> "absent"]
    /\ row = FALSE /\ bytes = FALSE /\ closed = FALSE
    /\ PipelineInit
    /\ execs = [e \in ExecIds |-> [state |-> "none", hash |-> NoHash]]
    /\ keys = [e \in ExecIds |-> "free"]
    /\ gap = {}
    /\ tx = NoTx

LockFree == tx = NoTx

-----------------------------------------------------------------------------
(* The other operations, each one transaction *)

Administer == \E p \in Principals, t \in Templates : PutRetentionPolicy(p, t)
Hold == \E p \in Principals, h \in HoldIds : PlaceHold(p, h) \/ LiftHold(p, h)
Store == (StoreObject \/ StoreObjectAborted) /\ UNCHANGED closed
Period == (ClosePeriod \/ ReopenPeriod) /\ UNCHANGED <<row, bytes>>
Pipeline == \E p \in Principals :
    \/ \E v \in DOMAIN policies : RequestPurge(p, v) \/ ApprovePurge(p, v)
    \/ RejectPurge(p)
    \/ CancelPurge(p)
    \/ WithdrawPurge(p)

AdministerStep == LockFree /\ Administer /\ UNCHANGED <<holds, objectVars, pipelineVars, execVars>>
HoldStep       == LockFree /\ Hold /\ UNCHANGED <<policies, objectVars, pipelineVars, execVars>>
StoreStep      == LockFree /\ Store /\ UNCHANGED <<policies, holds, pipelineVars, execVars>>
PeriodStep     == LockFree /\ Period /\ UNCHANGED <<policies, holds, pipelineVars, execVars>>
PipelineStep   == LockFree /\ Pipeline /\ UNCHANGED <<policies, holds, objectVars, execVars>>

-----------------------------------------------------------------------------
(* Executions *)

Intents == {e \in ExecIds : execs[e].state = "intent"}

\* A durable intent still authorizes the absence of the bytes: a purge_intent
\* event carries its reviewed hash.  (The identity columns of the row are the
\* object's own, which never change.)
IntentValid(e) ==
    \E i \in DOMAIN events :
        events[i].action = "purge_intent" /\ events[i].reviewed = execs[e].hash

\* MUTANT of StillIntent: the guarded update forgets WHERE state = 'intent'.
AnyAttempt(e) == execs[e].state # "none"

StillIntent(e) == execs[e].state = "intent"

\* Completion: the executed event leaves purge_approved whatever the
\* projection says, the attempt must still be in state intent, the status
\* trigger must accept the flip, the projection becomes purged.
CompleteExecution(e, kinds) ==
    LET seen == Snapshot(kinds)
        hash == [seen EXCEPT !.life = "purged"]
    IN  /\ StillIntent(e)
        /\ LegalStatusChange(req.status, "executed")
        /\ execs' = [execs EXCEPT ![e].state = "completed"]
        /\ req' = [req EXCEPT !.status = "executed", !.exec = e]
        /\ events' = Append(events, Event("purge_executed", "purge_approved", "purged", execs[e].hash))
        /\ proj' = [state |-> "purged", policy |-> seen.policy,
                    held |-> seen.holds # {}, hash |-> hash]
        /\ UNCHANGED <<approvals, rounds, roundStart>>

\* The gates of a fresh ExecutePurge, under the lock of its first transaction.
MayExecute(p, v) ==
    /\ req.status = "approved"
    /\ row
    /\ NoBlocker(v)
    /\ AuthorizePurgeAct(p, "execute", FALSE, Nobody, Nobody)

\* MUTANT of Superseded: stale intents stay live next to the new one.
SupersedesNothing(e) == {}

\* The stale attempts a fresh attempt e marks interrupted.
Superseded(e) == Intents \ {e}

\* MUTANT of ReserveKey: the key is completed with the intent.
ReserveKeyAsDone(e) == keys' = [keys EXCEPT ![e] = "done"]

ReserveKey(e) == keys' = [keys EXCEPT ![e] = "open"]

\* TRANSACTION 1.  Stale intents of other ids become interrupted when the
\* bytes are there; the new intent binds the snapshot examined here.
BeginIntent(e, p, v) ==
    LET seen == Snapshot(policies[v].kinds)
    IN  /\ LockFree
        /\ keys[e] = "free"
        /\ MayExecute(p, v)
        /\ Intents \ {e} # {} => bytes
        /\ execs' = [x \in ExecIds |->
                        IF x = e THEN [state |-> "intent", hash |-> seen]
                        ELSE IF x \in Superseded(e) THEN [execs[x] EXCEPT !.state = "interrupted"]
                        ELSE execs[x]]
        /\ ReserveKey(e)
        /\ gap' = gap \cup {e}
        /\ events' = Append(events, Event("purge_intent", "purge_approved", "purge_approved", seen))
        /\ UNCHANGED <<policies, holds, objectVars, proj, req, approvals, rounds, roundStart, tx>>

\* A fresh id that finds the bytes already gone under another id's intent
\* completes THAT attempt; its own key is done and no row is written for it.
ConvergeFresh(e, p, v) ==
    /\ LockFree
    /\ keys[e] = "free"
    /\ MayExecute(p, v)
    /\ ~bytes
    /\ \E prior \in Intents \ {e} :
           IntentValid(prior) /\ CompleteExecution(prior, policies[req.policy].kinds)
    /\ keys' = [keys EXCEPT ![e] = "done"]
    /\ UNCHANGED <<policies, holds, objectVars, gap, tx>>

\* MUTANT of Revalidates: trust the blockers that the intent examined.
RevalidatesWithoutBlockers(e, v) ==
    /\ req.status = "approved"
    /\ row
    /\ Snapshot(policies[v].kinds).decisions = execs[e].hash.decisions

\* MUTANT of Revalidates: trust the request row that the intent examined.
RevalidatesWithoutRequest(e, v) ==
    /\ row
    /\ NoBlocker(v)

\* TRANSACTION 2 re-reads the request and re-runs every blocker against the
\* hash bound by the intent; it does not re-read the executions row.
Revalidates(e, v) ==
    /\ req.status = "approved"
    /\ row
    /\ NoBlocker(v)
    /\ Snapshot(policies[v].kinds) = execs[e].hash

ValidateExecution(e) ==
    /\ LockFree
    /\ e \in gap
    /\ \E v \in DOMAIN policies : Revalidates(e, v)
    /\ tx' = [exec |-> e, retry |-> FALSE, phase |-> "validated"]
    /\ gap' = gap \ {e}
    /\ UNCHANGED <<policies, holds, objectVars, pipelineVars, execs, keys>>

\* The call ends between its transactions: a blocker refuses the second one,
\* or the process dies.  The attempt stays as it is, its key stays open.
LeaveAttemptOpen(e) ==
    /\ e \in gap
    /\ gap' = gap \ {e}
    /\ UNCHANGED <<policies, holds, objectVars, pipelineVars, execs, keys, tx>>

\* MUTANT of UnlinkBytes: a failed removal is not noticed.
UnlinkIgnoresFailure ==
    /\ tx.phase = "validated"
    /\ bytes
    /\ tx' = [tx EXCEPT !.phase = "unlinked"]
    /\ UNCHANGED <<policies, holds, objectVars, pipelineVars, execs, keys, gap>>

UnlinkBytes ==
    /\ tx.phase = "validated"
    /\ bytes
    /\ bytes' = FALSE
    /\ tx' = [tx EXCEPT !.phase = "unlinked"]
    /\ UNCHANGED <<policies, holds, row, closed, pipelineVars, execs, keys, gap>>

\* A re-execution by a same-id retry commits without closing its key.
CommitExecution ==
    /\ tx.phase = "unlinked"
    /\ \E v \in DOMAIN policies :
           IsResolved(v) /\ CompleteExecution(tx.exec, policies[v].kinds)
    /\ keys' = IF tx.retry THEN keys ELSE [keys EXCEPT ![tx.exec] = "done"]
    /\ tx' = NoTx
    /\ UNCHANGED <<policies, holds, objectVars, gap>>

\* MUTANT of AbortExecution: a failed execution marks its attempt interrupted.
AbortInterruptsAttempt ==
    /\ tx # NoTx
    /\ tx' = NoTx
    /\ execs' = [execs EXCEPT ![tx.exec].state = "interrupted"]
    /\ UNCHANGED <<policies, holds, objectVars, pipelineVars, keys, gap>>

\* An error of the unlink, of the completion or of the commit, or the death
\* of the process: the transaction rolls back, removed bytes stay removed.
AbortExecution ==
    /\ tx # NoTx
    /\ tx' = NoTx
    /\ UNCHANGED <<policies, holds, objectVars, pipelineVars, execs, keys, gap>>

-----------------------------------------------------------------------------
(* A retry with the same execution id, command and principal.  It passes no  *)
(* authorization, period or hold gate before it looks at its own attempt.    *)

CanRecover(e) == LockFree /\ keys[e] = "open"

\* Another id completed this attempt: only the key is left to close.
CloseKey(e) ==
    /\ CanRecover(e)
    /\ execs[e].state = "completed"
    /\ keys' = [keys EXCEPT ![e] = "done"]
    /\ UNCHANGED <<policies, holds, objectVars, pipelineVars, execs, gap, tx>>

\* MUTANT of ConvergeSame: the blockers run again before a convergence.
ConvergeUnblocked(e) ==
    /\ CanRecover(e)
    /\ StillIntent(e)
    /\ ~bytes
    /\ \E v \in DOMAIN policies : NoBlocker(v)
    /\ CompleteExecution(e, policies[req.policy].kinds)
    /\ keys' = [keys EXCEPT ![e] = "done"]
    /\ UNCHANGED <<policies, holds, objectVars, gap, tx>>

\* The bytes are gone: the bound authorization completes the attempt.
ConvergeSame(e) ==
    /\ CanRecover(e)
    /\ StillIntent(e)
    /\ IntentValid(e)
    /\ ~bytes
    /\ CompleteExecution(e, policies[req.policy].kinds)
    /\ keys' = [keys EXCEPT ![e] = "done"]
    /\ UNCHANGED <<policies, holds, objectVars, gap, tx>>

\* The bytes are there: the execution transaction runs again.
RetryExecution(e) ==
    /\ CanRecover(e)
    /\ StillIntent(e)
    /\ IntentValid(e)
    /\ bytes
    /\ \E v \in DOMAIN policies : Revalidates(e, v)
    /\ tx' = [exec |-> e, retry |-> TRUE, phase |-> "validated"]
    /\ UNCHANGED <<policies, holds, objectVars, pipelineVars, execs, keys, gap>>

-----------------------------------------------------------------------------

Execute(e) ==
    \/ \E p \in Principals, v \in DOMAIN policies : BeginIntent(e, p, v) \/ ConvergeFresh(e, p, v)
    \/ ValidateExecution(e)
    \/ LeaveAttemptOpen(e)
    \/ CloseKey(e)
    \/ ConvergeSame(e)
    \/ RetryExecution(e)

Next ==
    \/ AdministerStep \/ HoldStep \/ StoreStep \/ PeriodStep \/ PipelineStep
    \/ \E e \in ExecIds : Execute(e)
    \/ UnlinkBytes
    \/ CommitExecution
    \/ AbortExecution

Spec == Init /\ [][Next]_vars

\* A caller that got no answer retries with the same execution id; a
\* transaction that holds the lock ends.
FairSpec ==
    /\ Spec
    /\ WF_vars(CommitExecution \/ AbortExecution)
    /\ \A e \in ExecIds : WF_vars(ConvergeSame(e))

=============================================================================
