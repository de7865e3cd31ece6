-------------------------- MODULE Reconciliations ---------------------------
(***************************************************************************)
(* Reconciliations: an amount on the left and one on the right of a pair   *)
(* of observations, proposed by agents and systems, decided by a           *)
(* controller.  The pair may straddle two fiscal periods.  Every command   *)
(* is one BEGIN IMMEDIATE transaction, so one that fails leaves nothing.   *)
(*                                                                         *)
(* Amounts are machine integers of a width named by Half (2^63 in the      *)
(* code): Go wraps the difference around, SQLite computes it exactly and   *)
(* its CHECK refuses a row where they differ.  The reviewed hash covers    *)
(* only what a proposed row never changes, so it is left out.              *)
(***************************************************************************)
EXTENDS ApprovalPolicy, Integers

CONSTANTS Pairs,         \* the observation pairs, as records left/right/method
          PeriodOf,      \* the fiscal period of an observation
          Amounts,       \* the amounts a proposal may carry: records left/right
          Half,          \* an amount is in -Half..(Half - 1)
          Proposers, Requests,
          MaxReconciliations   \* bound: rows proposed

Machine == -Half..(Half - 1)

ReconciliationsAssumption ==
    /\ Half \in Nat \ {0} /\ MaxReconciliations \in Nat
    /\ \A a \in Amounts : a.left \in Machine /\ a.right \in Machine
    /\ \A t \in Pairs : t.left # t.right
    /\ "nobody" \notin People

VARIABLES
    reconciliations,  \* rows in insertion order; the id is the index
    keys,             \* reconciliation_idempotency_keys, all completed
    edges,            \* the 'reconciles' rows of the relations table, which others write too
    closed,           \* the closed periods
    elsewhere         \* history: the pairs whose row something else inserted

vars == <<reconciliations, keys, edges, closed, elsewhere>>

Statuses == {"proposed", "confirmed", "rejected", "withdrawn", "superseded"}
Periods  == {PeriodOf[m] : m \in DOMAIN PeriodOf}
Rows == [tuple : Pairs, amount : Amounts, variance : Machine, by : Proposers,
         pred : Nat, status : Statuses, succ : Nat,
         judge : People \cup {"nobody"}]
KeyRows == [request : Requests, actor : Proposers \cup People, id : Nat]

Ids == 1..Len(reconciliations)
Edge(t) == <<t.left, t.right>>
EdgeRows == [pair : {Edge(t) : t \in Pairs}, actor : Proposers \cup People]

\* INVARIANT.  Types of the tables with their foreign keys.
TypeOK ==
    /\ reconciliations \in Seq(Rows) /\ Len(reconciliations) <= MaxReconciliations
    /\ keys \subseteq KeyRows /\ closed \subseteq Periods
    /\ edges \in Seq(EdgeRows) /\ elsewhere \subseteq {Edge(t) : t \in Pairs}
    /\ \A i \in Ids : /\ reconciliations[i].pred \in 0..(i - 1)
                      /\ reconciliations[i].succ \in {0} \cup (i + 1)..Len(reconciliations)
    /\ \A k \in keys : k.id \in Ids

Init == /\ reconciliations = <<>> /\ keys = {} /\ edges = <<>>
        /\ closed = {} /\ elsewhere = {}

-----------------------------------------------------------------------------
\* reconciliation-policy/v0.5.0: controller through the ladder, standard assurance.
MayAdjudicate(p) ==
    LET f == Credential[p]
    IN  /\ f.tenant /\ f.company /\ f.member
        /\ Satisfies(f.roles, "controller") /\ f.assurance >= 1

Fresh(r) == ~\E k \in keys : k.request = r
Key(r, actor, i) == [request |-> r, actor |-> actor, id |-> i]

\* MUTANT of Writable: the gate looks at the left observation only.
WritableLeft(t) == PeriodOf[t.left] \notin closed

\* The period gate asks for both endpoints.
Writable(t) == {PeriodOf[t.left], PeriodOf[t.right]} \cap closed = {}

\* int64 arithmetic of Go.
Wrap(n) == ((n + Half) % (2 * Half)) - Half

\* The row CHECKs; SQLite computes the difference without wrapping.
SchemaAccepts(row) ==
    /\ row.tuple.left # row.tuple.right
    /\ row.variance = row.amount.left - row.amount.right

\* A correction names a row of its pair and method that is confirmed, or open
\* and the proposer's own.
MayCorrect(a, t, pred) ==
    pred # 0 => LET row == reconciliations[pred]
                IN  /\ row.tuple = t
                    /\ \/ row.status = "confirmed"
                       \/ row.status = "proposed" /\ row.by = a

\* An open predecessor is closed by the proposal of its correction.
SupersedeProposed(pred, i) ==
    IF pred # 0 /\ reconciliations[pred].status = "proposed"
    THEN [reconciliations EXCEPT ![pred].status = "superseded", ![pred].succ = i]
    ELSE reconciliations

\* MUTANT of TupleFree: the open-tuple index is missing.
TupleAlwaysFree(t, pred) == TRUE

\* The partial unique index on the open rows of a pair and method.
TupleFree(t, pred) ==
    \A i \in Ids \ {pred} : ~(reconciliations[i].tuple = t /\ reconciliations[i].status = "proposed")

ProposeReconciliation(a, t, amount, pred, r) ==
    LET i   == Len(reconciliations) + 1
        row == [tuple |-> t, amount |-> amount, variance |-> Wrap(amount.left - amount.right),
                by |-> a, pred |-> pred, status |-> "proposed", succ |-> 0,
                judge |-> "nobody"]
    IN  /\ i <= MaxReconciliations
        /\ Writable(t)
        /\ Fresh(r)
        /\ MayCorrect(a, t, pred)
        /\ SchemaAccepts(row)
        /\ TupleFree(t, pred)
        /\ reconciliations' = Append(SupersedeProposed(pred, i), row)
        /\ keys' = keys \cup {Key(r, a, i)}
        /\ UNCHANGED <<edges, closed, elsewhere>>

-----------------------------------------------------------------------------
Adjudicable(p, i, r) ==
    /\ Fresh(r)
    /\ Writable(reconciliations[i].tuple)
    /\ reconciliations[i].status = "proposed"
    /\ MayAdjudicate(p)

Decided(i, p, status) == [reconciliations EXCEPT ![i].status = status, ![i].judge = p]

Related(t) == \E n \in DOMAIN edges : edges[n].pair = Edge(t)
EdgeRow(t, actor) == [pair |-> Edge(t), actor |-> actor]

\* MUTANT of Project: the insert does not look for the row first.
ProjectAgain(t, actor) == edges' = Append(edges, EdgeRow(t, actor))

\* The table has no key on the pair: only the insert's NOT EXISTS keeps one row.
Project(t, actor) == edges' = IF Related(t) THEN edges ELSE Append(edges, EdgeRow(t, actor))

\* MUTANT of RejectReconciliation: a rejection projects its relation as well.
RejectWithEdge(p, i, r) ==
    /\ Adjudicable(p, i, r)
    /\ reconciliations' = Decided(i, p, "rejected")
    /\ keys' = keys \cup {Key(r, p, i)}
    /\ Project(reconciliations[i].tuple, p)
    /\ UNCHANGED <<closed, elsewhere>>

RejectReconciliation(p, i, r) ==
    /\ Adjudicable(p, i, r)
    /\ reconciliations' = Decided(i, p, "rejected")
    /\ keys' = keys \cup {Key(r, p, i)}
    /\ UNCHANGED <<edges, closed, elsewhere>>

\* Confirming projects the edge and supersedes a confirmed predecessor; any other
\* predecessor must already route to this row.
ConfirmReconciliation(p, i, r) ==
    LET pred == reconciliations[i].pred
        done == Decided(i, p, "confirmed")
    IN  /\ Adjudicable(p, i, r)
        /\ pred # 0 => \/ reconciliations[pred].status = "confirmed"
                       \/ (reconciliations[pred].status = "superseded" /\ reconciliations[pred].succ = i)
        /\ reconciliations' =
               IF pred # 0 /\ reconciliations[pred].status = "confirmed"
               THEN [done EXCEPT ![pred].status = "superseded", ![pred].succ = i]
               ELSE done
        /\ Project(reconciliations[i].tuple, p)
        /\ keys' = keys \cup {Key(r, p, i)}
        /\ UNCHANGED <<closed, elsewhere>>

\* Only the proposer withdraws, in a closed period too.
WithdrawReconciliation(a, i, r) ==
    /\ Fresh(r)
    /\ reconciliations[i].status = "proposed" /\ reconciliations[i].by = a
    /\ reconciliations' = [reconciliations EXCEPT ![i].status = "withdrawn"]
    /\ keys' = keys \cup {Key(r, a, i)}
    /\ UNCHANGED <<edges, closed, elsewhere>>

\* The row comes from another writer, in any period and by anyone: the confirmation
\* of a judgment whose relation is `reconciles`, Relate, or a sync run through Relate.
\* Each of them looks for the row first; finding it changes nothing.
RelateElsewhere(who, t) ==
    /\ ~Related(t)
    /\ edges' = Append(edges, EdgeRow(t, who))
    /\ elsewhere' = elsewhere \cup {Edge(t)}
    /\ UNCHANGED <<reconciliations, keys, closed>>

\* A period closes or is reopened (MemoryReview).
TogglePeriod ==
    /\ \E q \in Periods : closed' = IF q \in closed THEN closed \ {q} ELSE closed \cup {q}
    /\ UNCHANGED <<reconciliations, keys, edges, elsewhere>>

ProposeStep == \E a \in Proposers, t \in Pairs, r \in Requests, pred \in {0} \cup Ids,
                  amount \in Amounts : ProposeReconciliation(a, t, amount, pred, r)
ConfirmStep == \E p \in People, i \in Ids, r \in Requests : ConfirmReconciliation(p, i, r)
RejectStep  == \E p \in People, i \in Ids, r \in Requests : RejectReconciliation(p, i, r)
WithdrawStep == \E a \in Proposers, i \in Ids, r \in Requests : WithdrawReconciliation(a, i, r)
RelateStep == \E who \in Proposers \cup People, t \in Pairs : RelateElsewhere(who, t)

Next == ProposeStep \/ ConfirmStep \/ RejectStep \/ WithdrawStep \/ RelateStep \/ TogglePeriod

Spec == Init /\ [][Next]_vars

-----------------------------------------------------------------------------
WasConfirmed(i) == \/ reconciliations[i].status = "confirmed"
                   \/ reconciliations[i].status = "superseded" /\ reconciliations[i].judge # "nobody"

\* INVARIANT.  A pair is related once, by whoever came first.  Every reconciliation
\* that is or was confirmed has its row, through corrections and their rejection;
\* two methods and the other writers do not make it two; and a row that no other
\* writer inserted names a person who confirmed a reconciliation of that pair.
EdgesFollowConfirmations ==
    /\ \A m, n \in DOMAIN edges : edges[m].pair = edges[n].pair => m = n
    /\ \A i \in Ids : WasConfirmed(i) => Related(reconciliations[i].tuple)
    /\ \A n \in DOMAIN edges :
          \/ edges[n].pair \in elsewhere
          \/ \E i \in Ids : /\ WasConfirmed(i) /\ reconciliations[i].judge = edges[n].actor
                            /\ Edge(reconciliations[i].tuple) = edges[n].pair

\* ACTION PROPERTY.  A pair with an endpoint in a closed period gets no proposal and
\* no decision, whichever endpoint it is; its open proposals can be withdrawn.
EitherPeriodFreezes ==
    [][\A i \in 1..Len(reconciliations') :
          i \notin Ids \/ reconciliations'[i] # reconciliations[i]
              => \/ reconciliations'[i].status = "withdrawn"
                 \/ LET pair == reconciliations'[i].tuple
                    IN  {PeriodOf[pair.left], PeriodOf[pair.right]} \cap closed = {}]_vars

\* The machine that the two adjudications promise.
Promise == INSTANCE Adjudication WITH
    Tuples <- Pairs,
    entities <- [i \in Ids |-> [tuple |-> reconciliations[i].tuple,
                                status |-> reconciliations[i].status,
                                succ |-> reconciliations[i].succ]]

\* PROPERTY.  Reconciliations implement the adjudication machine: one open proposal
\* per pair and method, one decision each, and nothing closed reopens.
ImplementsAdjudication == Promise!Spec

\* PROPERTY.  A reconciliation is adjudicated as a judgment is, and only while the
\* periods of both endpoints are open.
PairsAreAdjudicated == ImplementsAdjudication /\ EitherPeriodFreezes

=============================================================================
