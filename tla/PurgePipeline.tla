--------------------------- MODULE PurgePipeline ---------------------------
(***************************************************************************)
(* The purge pipeline of one evidence object: request, one or two human    *)
(* approvals, rejection, cancellation, withdrawal.  Each operation is one  *)
(* BEGIN IMMEDIATE transaction, so it is one action; the write lock itself *)
(* is in module PurgeExecution, which composes these actions.              *)
(*                                                                         *)
(* A lifecycle hash is the SHA-256 of the canonical snapshot; it is        *)
(* modelled by the snapshot record it is computed from.  A command whose   *)
(* expectedLifecycleHash differs from the current one fails and changes    *)
(* nothing, so an accepted command is one whose caller supplied Snapshot.  *)
(* The same holds for replayed and conflicting idempotency keys of these   *)
(* operations: key and effect commit together.                             *)
(***************************************************************************)
EXTENDS LegalHolds, FiniteSets

CONSTANTS
    ExecIds,     \* execution ids (chosen by the callers of ExecutePurge)
    NoExec,      \* a request that no execution completed
    MaxRequests  \* bound: number of RequestPurge acts

VARIABLES
    proj,        \* evidence_retention_state: the derived projection
    req,         \* evidence_purge_requests: the one row of the object
    approvals,   \* evidence_purge_approvals: the append-only decision ledger
    events,      \* evidence_lifecycle_events (each with its receipt)
    rounds,      \* how many times the object was requested, for the bound
    roundStart   \* history: length of the ledger when the round was opened

pipelineVars == <<proj, req, approvals, events, rounds, roundStart>>

ASSUME PipelineAssumption == NoExec \notin ExecIds /\ MaxRequests \in Nat

LifecycleStates == {"stored", "purge_requested", "purge_approved",
                    "purge_rejected", "purged"}
Statuses == {"none", "requested", "approved", "rejected", "withdrawn",
             "cancelled", "executed"}
Decisions == {"approved", "rejected", "withdrawn"}
EventActions == {"retention_bound", "purge_requested", "purge_approved",
                 "purge_rejected", "purge_cancelled", "purge_withdrawn",
                 "purge_intent", "purge_executed"}

Snapshots == [life : LifecycleStates, policy : 0..MaxPolicies,
              holds : SUBSET HoldIds, requested : BOOLEAN, decisions : Nat]
NoHash == [life |-> "stored", policy |-> 0, holds |-> {},
           requested |-> FALSE, decisions |-> 0]

ApprovalRows == [by : Principals, decision : Decisions, order : {1, 2}]
EventRows == [action : EventActions, from : LifecycleStates,
              to : LifecycleStates, reviewed : Snapshots]

Projections == [state : LifecycleStates, policy : 0..MaxPolicies,
                held : BOOLEAN, hash : Snapshots]
RequestRows == [status : Statuses, by : Principals \cup {Nobody},
                policy : 0..MaxPolicies, exec : ExecIds \cup {NoExec}]

PipelineTypeOK ==
    /\ proj \in Projections
    /\ req \in RequestRows
    /\ approvals \in Seq(ApprovalRows)
    /\ events \in Seq(EventRows)
    /\ rounds \in 0..MaxRequests
    /\ roundStart \in Nat

\* An object without a projection row is virtually stored and unmanaged.
PipelineInit ==
    /\ proj = [state |-> "stored", policy |-> 0, held |-> FALSE, hash |-> NoHash]
    /\ req = [status |-> "none", by |-> Nobody, policy |-> 0, exec |-> NoExec]
    /\ approvals = <<>>
    /\ events = <<>>
    /\ rounds = 0
    /\ roundStart = 0

-----------------------------------------------------------------------------
(* Snapshots and the blocker set *)

\* The current snapshot under a blocking set.  The list of decision ids only
\* grows, so its length identifies it; the request id is reused by every
\* round, so it only tells whether a row exists; the retention state is
\* "eligible" exactly when a policy is bound, since nothing binds another.
Snapshot(kinds) ==
    [life |-> proj.state, policy |-> proj.policy, holds |-> ActiveBlocking(kinds),
     requested |-> req.status # "none", decisions |-> Len(approvals)]

\* The non-overridable blockers, run before authorization by request, approve
\* and (twice) execute: closed period, resolution, eligibility, holds.
NoBlocker(v) ==
    /\ PeriodWritable
    /\ IsResolved(v)
    /\ Eligible(v)
    /\ ActiveBlocking(policies[v].kinds) = {}

\* The schema trigger that backs the status machine up.
LegalStatusChange(old, new) ==
    \/ old = "requested" /\ new \in {"approved", "rejected", "withdrawn", "cancelled", "executed"}
    \/ old = "approved" /\ new \in {"withdrawn", "executed"}
    \/ old \in {"cancelled", "withdrawn"} /\ new = "requested"

Event(action, from, to, reviewed) ==
    [action |-> action, from |-> from, to |-> to, reviewed |-> reviewed]

\* The event log and the projection after a transition.  hash is H2 as the
\* code computes it, seen is the snapshot the operation read.
Transition(action, from, seen, policy, hash) ==
    /\ events' = Append(events, Event(action, from, hash.life, seen))
    /\ proj' = [state |-> hash.life, policy |-> policy,
                held |-> seen.holds # {}, hash |-> hash]

-----------------------------------------------------------------------------
(* Operations *)

\* The gates of a request, in the order of the code: the blockers run before
\* the authorization, and only a stored object opens a pipeline.
MayRequest(p, v) ==
    /\ row
    /\ NoBlocker(v)
    /\ proj.state = "stored"
    /\ AuthorizePurgeAct(p, "request", policies[v].dual, Nobody, Nobody)
    /\ req.status \in {"none", "cancelled", "withdrawn"}

\* A policy is bound, and the binding logged, by the first request only.
EventsAfterBinding(seen) ==
    IF proj.policy # 0 THEN events
    ELSE Append(events, Event("retention_bound", "stored", "stored",
                              [seen EXCEPT !.requested = FALSE, !.decisions = 0]))

\* The first request inserts the row, a request after a cancellation or a
\* withdrawal refreshes the same row: its id and its decision ledger stay.
RequestPurge(p, v) ==
    LET seen == Snapshot(policies[v].kinds)
        hash == [life |-> "purge_requested", policy |-> v, holds |-> seen.holds,
                 requested |-> TRUE, decisions |-> 0]
    IN  /\ MayRequest(p, v)
        /\ rounds < MaxRequests
        /\ req' = [req EXCEPT !.status = "requested", !.by = p, !.policy = v]
        /\ events' = Append(EventsAfterBinding(seen),
                            Event("purge_requested", "stored", "purge_requested", seen))
        /\ proj' = [state |-> "purge_requested", policy |-> v,
                    held |-> seen.holds # {}, hash |-> hash]
        /\ rounds' = rounds + 1
        /\ roundStart' = Len(approvals)
        /\ UNCHANGED approvals

\* Which approval is next follows from the length of the ledger alone: no row
\* means the default approver, one row means the second approver, and two
\* rows refuse ("this purge request already has both approvals").
ApprovalAct        == IF Len(approvals) = 0 THEN "approve" ELSE "second_approve"
FirstApprover      == IF Len(approvals) = 1 THEN approvals[1].by ELSE Nobody
ApprovalSlotLeft   == Len(approvals) < 2

\* The gates of an approval: the same blockers as for the request, under the
\* policy that resolves now, which need not be the bound one.
MayApprove(p, v) ==
    /\ req.status = "requested"
    /\ NoBlocker(v)
    /\ ApprovalSlotLeft
    /\ AuthorizePurgeAct(p, ApprovalAct, policies[v].dual, req.by, FirstApprover)

ApprovePurge(p, v) ==
    LET seen     == Snapshot(policies[v].kinds)
        order    == Len(approvals) + 1
        complete == ~policies[v].dual \/ order = 2
        hash     == [seen EXCEPT
                        !.life = IF complete THEN "purge_approved" ELSE "purge_requested",
                        !.policy = v, !.decisions = order]
    IN  /\ MayApprove(p, v)
        /\ approvals' = Append(approvals, [by |-> p, decision |-> "approved", order |-> order])
        /\ req' = IF complete THEN [req EXCEPT !.status = "approved"] ELSE req
        /\ Transition("purge_approved", "purge_requested", seen, v, hash)
        /\ UNCHANGED <<rounds, roundStart>>

\* The shared shape of the three closing acts.  They run no blockers and no
\* hash check, read the snapshot under the REQUEST's bound policy, and
\* compute H2 from the ledger as it was before their own decision row.
CloseTransition(action, from, status, life) ==
    LET seen == Snapshot(policies[req.policy].kinds)
    IN  /\ req' = [req EXCEPT !.status = status]
        /\ Transition(action, from, seen, seen.policy, [seen EXCEPT !.life = life])
        /\ UNCHANGED <<rounds, roundStart>>

\* MUTANT of NextDecisionOrder: count the rows, as for an approval.
OrderCountsRows == Len(approvals) + 1

NextDecisionOrder == IF Len(approvals) = 0 THEN 1 ELSE 2

RecordDecision(p, decision) ==
    approvals' = Append(approvals, [by |-> p, decision |-> decision, order |-> NextDecisionOrder])

\* MUTANT of RejectPurge: a rejection returns the object to stored.
RejectReturnsToStored(p) ==
    /\ AuthorizePurgeAct(p, "reject", FALSE, Nobody, Nobody)
    /\ req.status = "requested"
    /\ RecordDecision(p, "rejected")
    /\ CloseTransition("purge_rejected", "purge_requested", "rejected", "stored")

\* Terminal; a default approver, who may be the requester or not.
RejectPurge(p) ==
    /\ AuthorizePurgeAct(p, "reject", FALSE, Nobody, Nobody)
    /\ req.status = "requested"
    /\ RecordDecision(p, "rejected")
    /\ CloseTransition("purge_rejected", "purge_requested", "rejected", "purge_rejected")

\* The requester's own retraction; it leaves no decision row.
CancelPurge(p) ==
    /\ AuthorizePurgeAct(p, "request", FALSE, Nobody, Nobody)
    /\ p = req.by
    /\ req.status = "requested"
    /\ CloseTransition("purge_cancelled", "purge_requested", "cancelled", "stored")
    /\ UNCHANGED approvals

WithdrawPurge(p) ==
    /\ AuthorizePurgeAct(p, "withdraw", FALSE, Nobody, Nobody)
    /\ req.status = "approved"
    /\ RecordDecision(p, "withdrawn")
    /\ CloseTransition("purge_withdrawn", "purge_approved", "withdrawn", "stored")

=============================================================================
