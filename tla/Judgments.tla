----------------------------- MODULE Judgments ------------------------------
(***************************************************************************)
(* Adjudicable conflicts: agents and systems propose a relation between    *)
(* two observations, a verified principal confirms or rejects it, and a    *)
(* correction supersedes its predecessor.  Every command is one BEGIN      *)
(* IMMEDIATE transaction whose idempotency key commits with it, so a       *)
(* request id that has a key is replayed or refused and changes nothing.   *)
(*                                                                         *)
(* A tuple stands for (tenant, company, from, to, relation); its two       *)
(* observations are in the one modelled period.  The reviewed hash covers  *)
(* only what a proposed row never changes, so it is left out.              *)
(***************************************************************************)
EXTENDS ApprovalPolicy, FiniteSets

CONSTANTS Tuples, Proposers, Requests,
          MaxJudgments   \* bound: judgments proposed

ASSUME JudgmentsAssumption ==
    MaxJudgments \in Nat /\ Proposers \cap People = {} /\ "nobody" \notin People

VARIABLES
    judgments,  \* rows in insertion order; the id is the index
    keys,       \* judgment_idempotency_keys, all of them completed
    log,        \* judgment_events
    relations,  \* the compatibility projection into the observation relations
    closed      \* the period of the observations is closed

vars == <<judgments, keys, log, relations, closed>>

Statuses == {"proposed", "confirmed", "rejected", "withdrawn", "superseded"}
JudgmentRows == [tuple : Tuples, by : Proposers, pred : Nat, status : Statuses,
                 succ : Nat, judge : People \cup {"nobody"}]
KeyRows == [request : Requests, command : {"propose", "confirm", "reject", "withdraw"},
            actor : Proposers \cup People, judgment : Nat]
EventRows == [judgment : Nat, from : Statuses, to : Statuses, request : Requests]

Ids == 1..Len(judgments)
Open(t) == {j \in Ids : judgments[j].tuple = t /\ judgments[j].status = "proposed"}

\* INVARIANT.  Types of the tables, with their foreign keys and row checks.
TypeOK ==
    /\ judgments \in Seq(JudgmentRows) /\ Len(judgments) <= MaxJudgments
    /\ keys \subseteq KeyRows /\ log \in Seq(EventRows) /\ relations \subseteq Tuples
    /\ closed \in BOOLEAN
    /\ \A j \in Ids : LET row == judgments[j] IN
          /\ row.pred \in 0..(j - 1) /\ row.succ \in {0} \cup (j + 1)..Len(judgments)
          /\ row.status \in {"confirmed", "rejected"} => row.judge # "nobody"
    /\ \A k \in keys : k.judgment \in Ids

Init == /\ judgments = <<>> /\ keys = {} /\ log = <<>>
        /\ relations = {} /\ closed = FALSE

-----------------------------------------------------------------------------
\* judgment-policy/v0.4.0: senior accountant through the ladder, standard assurance.
MayAdjudicate(p) ==
    LET f == Credential[p]
    IN  /\ f.tenant /\ f.company /\ f.member
        /\ Satisfies(f.roles, "senior_accountant") /\ f.assurance >= 1

Fresh(r) == ~\E k \in keys : k.request = r

\* MUTANT of Key: the key of a proposal does not record which judgment it made.
KeyOfTuple(r, command, actor, j) ==
    [request |-> r, command |-> command, actor |-> actor,
     judgment |-> IF command = "propose" THEN 1 ELSE j]

Key(r, command, actor, j) ==
    [request |-> r, command |-> command, actor |-> actor, judgment |-> j]

Event(j, from, to, r) == [judgment |-> j, from |-> from, to |-> to, request |-> r]

\* MUTANT of MayCorrect: any predecessor of the same tuple may be corrected.
MayCorrectAny(a, t, pred) == pred # 0 => judgments[pred].tuple = t

\* A correction names a predecessor of its own tuple: a confirmed one, or an
\* open one of the same proposer.
MayCorrect(a, t, pred) ==
    pred # 0 => LET row == judgments[pred]
                IN  /\ row.tuple = t
                    /\ \/ row.status = "confirmed"
                       \/ row.status = "proposed" /\ row.by = a

\* An open predecessor is superseded at once by the proposal of its correction.
SupersedesNow(pred) == pred # 0 /\ judgments[pred].status = "proposed"

\* MUTANT of SupersedeProposedPredecessor: the successor is not recorded.
SupersedeWithoutRoute(pred, j) == [judgments EXCEPT ![pred].status = "superseded"]

SupersedeProposedPredecessor(pred, j) ==
    [judgments EXCEPT ![pred].status = "superseded", ![pred].succ = j]

ProposeJudgment(a, t, pred, r) ==
    LET j   == Len(judgments) + 1
        row == [tuple |-> t, by |-> a, pred |-> pred, status |-> "proposed",
                succ |-> 0, judge |-> "nobody"]
    IN  /\ j <= MaxJudgments
        /\ ~closed
        /\ Fresh(r)
        /\ MayCorrect(a, t, pred)
        /\ Open(t) \subseteq (IF pred = 0 THEN {} ELSE {pred})
        /\ judgments' = Append(IF SupersedesNow(pred)
                               THEN SupersedeProposedPredecessor(pred, j)
                               ELSE judgments, row)
        /\ log' = IF SupersedesNow(pred)
                  THEN Append(log, Event(pred, "proposed", "superseded", r)) ELSE log
        /\ keys' = keys \cup {Key(r, "propose", a, j)}
        /\ UNCHANGED <<relations, closed>>

\* A replayed proposal answers with the judgment its key recorded.
ReplayOf(k) == k.judgment

-----------------------------------------------------------------------------
Decided(j, p, status) == [judgments EXCEPT ![j].status = status, ![j].judge = p]

\* MUTANT of RejectJudgment: it does not ask for the period.
RejectUngated(p, j, r) ==
    /\ Fresh(r)
    /\ judgments[j].status = "proposed"
    /\ MayAdjudicate(p)
    /\ judgments' = Decided(j, p, "rejected")
    /\ log' = Append(log, Event(j, "proposed", "rejected", r))
    /\ keys' = keys \cup {Key(r, "reject", p, j)}
    /\ UNCHANGED <<relations, closed>>

RejectJudgment(p, j, r) ==
    /\ ~closed /\ Fresh(r)
    /\ judgments[j].status = "proposed"
    /\ MayAdjudicate(p)
    /\ judgments' = Decided(j, p, "rejected")
    /\ log' = Append(log, Event(j, "proposed", "rejected", r))
    /\ keys' = keys \cup {Key(r, "reject", p, j)}
    /\ UNCHANGED <<relations, closed>>

\* MUTANT of SupersededBy: the predecessor's supersession leaves no event.
SupersededBySilently(j, r) == <<>>

\* The event of the confirmed predecessor that confirming j supersedes.
SupersededBy(j, r) ==
    LET pred == judgments[j].pred
    IN  IF pred # 0 /\ judgments[pred].status = "confirmed"
        THEN <<Event(pred, "confirmed", "superseded", r)>> ELSE <<>>

\* Confirming projects the relation and supersedes a confirmed predecessor.  A
\* predecessor that is already superseded must route to this judgment.
ConfirmJudgment(p, j, r) ==
    LET pred == judgments[j].pred
        done == Decided(j, p, "confirmed")
    IN  /\ ~closed /\ Fresh(r)
        /\ judgments[j].status = "proposed"
        /\ MayAdjudicate(p)
        /\ pred # 0 => \/ judgments[pred].status = "confirmed"
                       \/ (judgments[pred].status = "superseded" /\ judgments[pred].succ = j)
        /\ judgments' = IF pred # 0 /\ judgments[pred].status = "confirmed"
                        THEN [done EXCEPT ![pred].status = "superseded", ![pred].succ = j]
                        ELSE done
        /\ log' = Append(log, Event(j, "proposed", "confirmed", r)) \o SupersededBy(j, r)
        /\ relations' = relations \cup {judgments[j].tuple}
        /\ keys' = keys \cup {Key(r, "confirm", p, j)}
        /\ UNCHANGED closed

\* MUTANT of WithdrawJudgment: a confirmed judgment can be withdrawn as well.
WithdrawConfirmed(a, j, r) ==
    /\ Fresh(r)
    /\ judgments[j].status \in {"proposed", "confirmed"}
    /\ judgments[j].by = a
    /\ judgments' = [judgments EXCEPT ![j].status = "withdrawn"]
    /\ log' = Append(log, Event(j, judgments[j].status, "withdrawn", r))
    /\ keys' = keys \cup {Key(r, "withdraw", a, j)}
    /\ UNCHANGED <<relations, closed>>

\* Only the proposer withdraws, in a closed period too.
WithdrawJudgment(a, j, r) ==
    /\ Fresh(r)
    /\ judgments[j].status = "proposed"
    /\ judgments[j].by = a
    /\ judgments' = [judgments EXCEPT ![j].status = "withdrawn"]
    /\ log' = Append(log, Event(j, "proposed", "withdrawn", r))
    /\ keys' = keys \cup {Key(r, "withdraw", a, j)}
    /\ UNCHANGED <<relations, closed>>

\* The period of the observations closes and is reopened (MemoryReview).
TogglePeriod == closed' = ~closed /\ UNCHANGED <<judgments, keys, log, relations>>

ProposeStep == \E a \in Proposers, t \in Tuples, r \in Requests, pred \in {0} \cup Ids :
                  ProposeJudgment(a, t, pred, r)
DecideStep  == \E p \in People, j \in Ids, r \in Requests :
                  ConfirmJudgment(p, j, r) \/ RejectJudgment(p, j, r)
WithdrawStep == \E a \in Proposers, j \in Ids, r \in Requests : WithdrawJudgment(a, j, r)

Next == ProposeStep \/ DecideStep \/ WithdrawStep \/ TogglePeriod

Spec == Init /\ [][Next]_vars

-----------------------------------------------------------------------------
\* The first n events of the log bring judgment j to this status.
Replays(j, n, status) ==
    LET mine == {m \in 1..n : log[m].judgment = j}
    IN  IF mine = {} THEN status = "proposed"
        ELSE \E m \in mine : log[m].to = status /\ \A k \in mine : k <= m

\* INVARIANT.  The event log replays to every status, row by row: a judgment is
\* decided once, and superseded only after a confirmation or instead of one.
LogReplaysToStatus ==
    /\ \A n \in DOMAIN log : Replays(log[n].judgment, n - 1, log[n].from)
    /\ \A j \in Ids : Replays(j, Len(log), judgments[j].status)

\* INVARIANT.  An open proposal can always be decided: its predecessor is still
\* confirmed or was routed to it, so no order of corrections strands one.
OpenCanBeDecided ==
    \A j \in Ids : (judgments[j].status = "proposed" /\ judgments[j].pred # 0) =>
        LET row == judgments[judgments[j].pred]
        IN  row.status = "confirmed" \/ (row.status = "superseded" /\ row.succ = j)

\* INVARIANT.  A superseded judgment routes to a judgment that names it as its
\* predecessor, and one with a successor is superseded.
RoutesAreCorrections ==
    \A j \in Ids : /\ judgments[j].status = "superseded" => judgments[j].succ # 0
                   /\ judgments[j].succ # 0 =>
                         /\ judgments[j].status = "superseded"
                         /\ judgments[judgments[j].succ].pred = j

\* INVARIANT.  Every status has its trail: the events of a judgment replay to it, and
\* a superseded judgment routes to the correction that names it.
CorrectionsLeaveTrail == LogReplaysToStatus /\ RoutesAreCorrections

\* INVARIANT.  A retry of a proposal is answered with its own judgment, though
\* the tuple may have been proposed again by another caller since then.
RetryFindsOwnProposal ==
    \A k \in keys : k.command = "propose" =>
        /\ judgments[ReplayOf(k)].by = k.actor
        /\ \A l \in keys : (l.command = "propose" /\ ReplayOf(l) = ReplayOf(k)) => l = k

\* ACTION PROPERTY.  In a closed period nothing is proposed, confirmed, rejected
\* or projected; an open proposal can still be withdrawn.
ClosedPeriodIsFrozen ==
    [][closed => /\ Len(judgments') = Len(judgments) /\ relations' = relations
                 /\ \A j \in Ids : judgments'[j] # judgments[j]
                                       => judgments'[j].status = "withdrawn"]_vars

\* VIOLATED.  "An identical confirmed judgment -> JUDGMENT_CONFLICT (unless this
\* proposal names it as predecessorId)" (contracts/judgment.md:89).
OneConfirmedPerTuple ==
    \A t \in Tuples :
        Cardinality({j \in Ids : judgments[j].tuple = t /\ judgments[j].status = "confirmed"}) <= 1

\* The machine that the two adjudications promise.
Promise == INSTANCE Adjudication WITH
    entities <- [j \in Ids |-> [tuple |-> judgments[j].tuple, status |-> judgments[j].status,
                                succ |-> judgments[j].succ]]

\* PROPERTY.  Judgments implement the adjudication machine: one open proposal per
\* tuple, one decision each, and a correction takes the place of one entity.
ImplementsAdjudication == Promise!Spec

Corrects(j, i) == LET pred == judgments[j].pred
                  IN  i \in {pred} \cup {judgments[k].pred : k \in {pred} \cap Ids}

\* VIOLATED.  "A confirmed predecessor remains current until the correction is
\* confirmed" (docs/architecture/conflict-judgment-step2.md:73).
CorrectionReplacesConfirmed ==
    \A i, j \in Ids : (judgments[j].status = "confirmed" /\ Corrects(j, i))
                          => judgments[i].status # "confirmed"

=============================================================================
