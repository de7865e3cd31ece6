--------------------------- MODULE ReviewVelocity ---------------------------
(***************************************************************************)
(* The observable velocity alerts of the review.  Every decision inserts   *)
(* its row into one of two ledgers (approvals; rejections and returns) and *)
(* then, in the same transaction, derives two counters of its principal    *)
(* from both ledgers and records an alert when a threshold is crossed.     *)
(* Times are whole seconds; a clock may stand still between decisions.     *)
(***************************************************************************)
EXTENDS Naturals, Sequences, FiniteSets

CONSTANTS Reviewers, Window, ApprovalThreshold, ConsecutiveThreshold,
          MaxDecisions, MaxTime   \* bounds

VelocityAssumption ==
    /\ Window \in Nat /\ ApprovalThreshold \in Nat
    /\ ConsecutiveThreshold \in Nat \ {0} /\ MaxDecisions \in Nat /\ MaxTime \in Nat

VARIABLES
    decisions,  \* all decisions in commit order
    alerts,     \* review_velocity_events: the decision each was recorded with
    now

velocityVars == <<decisions, alerts, now>>

Verdicts   == {"approved", "rejected", "returned"}
Ledger(v)  == IF v = "approved" THEN "approval_events" ELSE "memory_decision_events"
DecisionRows == [verdict : Verdicts, by : Reviewers, at : Nat,
                 row : Nat \ {0}]
AlertTypes == {"approval_velocity", "consecutive_decisions"}

\* INVARIANT.  Types of the ledgers; an alert names a committed decision.
VelocityTypeOK ==
    /\ decisions \in Seq(DecisionRows) /\ Len(decisions) <= MaxDecisions
    /\ alerts \subseteq AlertTypes \X (DOMAIN decisions)
    /\ now \in 0..MaxTime

VelocityInit == decisions = <<>> /\ alerts = {} /\ now = 0

\* MUTANT of NextRow: row ids from zero.
NextRowFromZero(ds, v) == Cardinality({k \in DOMAIN ds : Ledger(ds[k].verdict) = Ledger(v)})

\* Row ids count the rows of one ledger, whoever decided.
NextRow(ds, v) == Cardinality({k \in DOMAIN ds : Ledger(ds[k].verdict) = Ledger(v)}) + 1

ApprovalsInWindow(ds, p) ==
    Cardinality({k \in DOMAIN ds : /\ ds[k].by = p /\ ds[k].verdict = "approved"
                                   /\ ds[k].at + Window >= now})

\* Newest first: later second, then larger row id, though the row ids of the
\* two ledgers are unrelated.
After(d, e) == d.at > e.at \/ (d.at = e.at /\ d.row > e.row)

\* The leading run of rejections and returns, cut at the threshold.
TrailingStreak(ds, p) ==
    LET mine == {k \in DOMAIN ds : ds[k].by = p}
        run  == {k \in mine : /\ ds[k].verdict # "approved"
                              /\ \A a \in mine : ds[a].verdict = "approved"
                                                     => ~After(ds[a], ds[k])}
    IN  IF Cardinality(run) < ConsecutiveThreshold THEN Cardinality(run)
        ELSE ConsecutiveThreshold

\* MUTANT of CrossesApprovals: the threshold itself already counts as a burst
\* before this decision.
CrossesApprovalsBefore(ds, p, v) ==
    /\ ApprovalsInWindow(ds, p) > ApprovalThreshold
    /\ v = "approved" => ApprovalsInWindow(ds, p) <= ApprovalThreshold

CrossesApprovals(ds, p, v) ==
    LET count  == ApprovalsInWindow(ds, p)
        before == IF v = "approved" /\ count > 0 THEN count - 1 ELSE count
    IN  count > ApprovalThreshold /\ before <= ApprovalThreshold

\* MUTANT of CrossesStreak: it alerts at every decision from the threshold on.
ReachesStreak(ds, p, v) ==
    v # "approved" /\ TrailingStreak(ds, p) + 1 >= ConsecutiveThreshold

\* The decision is in the ledger already when the streak is read, and is
\* counted once more.
CrossesStreak(ds, p, v) ==
    v # "approved" /\ TrailingStreak(ds, p) + 1 = ConsecutiveThreshold

\* The alerts the newest decision of ds is recorded with.
Crossed(ds, p, v) ==
    {t \in AlertTypes : IF t = "approval_velocity" THEN CrossesApprovals(ds, p, v)
                        ELSE CrossesStreak(ds, p, v)}

Decide(p, v) ==
    LET ds  == Append(decisions, [verdict |-> v, by |-> p, at |-> now,
                                  row |-> NextRow(decisions, v)])
    IN  /\ Len(ds) <= MaxDecisions
        /\ decisions' = ds
        /\ alerts' = alerts \cup (Crossed(ds, p, v) \X {Len(ds)})
        /\ UNCHANGED now

Tick == now < MaxTime /\ now' = now + 1 /\ UNCHANGED <<decisions, alerts>>

VelocityNext == Tick \/ \E p \in Reviewers, v \in Verdicts : Decide(p, v)

VelocitySpec == VelocityInit /\ [][VelocityNext]_velocityVars

-----------------------------------------------------------------------------
\* The approvals of p in the window that ends with decision k, in commit order.
Burst(k) == {j \in 1..k : /\ decisions[j].by = decisions[k].by
                          /\ decisions[j].verdict = "approved"
                          /\ decisions[j].at + Window >= decisions[k].at}
Bursting(k) == /\ decisions[k].verdict = "approved"
               /\ Cardinality(Burst(k)) > ApprovalThreshold

\* INVARIANT.  No burst goes unreported: whenever a reviewer's approvals in a
\* window exceed the threshold there is an alert at that approval, or at an
\* earlier one since which the burst went on.
BurstIsReported ==
    \A k \in DOMAIN decisions : Bursting(k) =>
        \E j \in 1..k : /\ decisions[j].by = decisions[k].by
                        /\ <<"approval_velocity", j>> \in alerts
                        /\ \A m \in Burst(k) : m >= j => Bursting(m)

\* The decisions of k's author since the last approval, k included.
RunUpTo(k) == {j \in 1..k : /\ decisions[j].by = decisions[k].by
                            /\ \A m \in j..k : decisions[m].by = decisions[k].by
                                                   => decisions[m].verdict # "approved"}

\* INVARIANT.  A run of rejections and returns raises at most one alert, as long
\* as each decision of the run has a second of its own ("a sustained burst does
\* not flood the ledger").
OneAlertPerRun ==
    \A k \in DOMAIN decisions :
        (\A i, j \in DOMAIN decisions : i # j => decisions[i].at # decisions[j].at) =>
        Cardinality({j \in RunUpTo(k) : <<"consecutive_decisions", j>> \in alerts}) <= 1

\* INVARIANT.  No burst of approvals by one reviewer goes unreported, and a run of
\* rejections and returns raises one alert at most.
AlertsMatchRuns == BurstIsReported /\ OneAlertPerRun

\* VIOLATED.  The alert needs at least the threshold of consecutive rejections or
\* returns (docs/architecture/review-workspace-v0.9.md:108).
AlertNeedsFullRun ==
    \A k \in DOMAIN decisions : <<"consecutive_decisions", k>> \in alerts
        => Cardinality(RunUpTo(k)) >= ConsecutiveThreshold

=============================================================================
