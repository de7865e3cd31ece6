------------------------ MODULE ReconciliationProofs -------------------------
(***************************************************************************)
(* Theorems about Reconciliations, for every set of pairs, amounts, people *)
(* and requests and every width of the integers: a confirmed pair is       *)
(* related once, whoever else writes the table of relations, and           *)
(* reconciliations implement the machine that judgments implement.         *)
(***************************************************************************)
EXTENDS Reconciliations, SequenceTheorems, TLAPS

-----------------------------------------------------------------------------
(* Machine integers *)

\* Go's subtraction always ends up in the range of the machine integers.
LEMMA WrapInRange ==
    ASSUME ReconciliationsAssumption, NEW n \in Int
    PROVE  Wrap(n) \in Machine
  <1> DEFINE m == n + Half
             d == 2 * Half
  <1>1. m \in Int /\ d \in Nat /\ d > 0 /\ Half \in Nat
    BY DEF ReconciliationsAssumption
  <1> HIDE DEF m, d
  <1>2. m % d \in 0..(d - 1)
    BY <1>1
  <1>3. QED
    BY <1>1, <1>2 DEF Wrap, Machine, m, d

-----------------------------------------------------------------------------
(* What a command does to the rows, row by row *)

\* An open predecessor, which the proposal of its correction closes.
SupersedesNow(pred) == pred # 0 /\ reconciliations[pred].status = "proposed"

\* A row that reconciliation j takes the place of.
Replaced(row, j) == [row EXCEPT !.status = "superseded", !.succ = j]

\* A decided row.
Settled(row, p, status) == [row EXCEPT !.status = status, !.judge = p]

\* One row of a sequence of rows is replaced.
LEMMA RowUpdate ==
    ASSUME NEW s \in Seq(Rows), NEW j \in 1..Len(s), NEW row \in Rows
    PROVE  /\ [s EXCEPT ![j] = row] \in Seq(Rows)
           /\ Len([s EXCEPT ![j] = row]) = Len(s)
           /\ \A k \in 1..Len(s) : [s EXCEPT ![j] = row][k] = IF k = j THEN row ELSE s[k]
  OBVIOUS

\* A row is appended to a sequence of rows.
LEMMA RowAppend ==
    ASSUME NEW s \in Seq(Rows), NEW row \in Rows
    PROVE  /\ Append(s, row) \in Seq(Rows)
           /\ Len(Append(s, row)) = Len(s) + 1
           /\ Append(s, row)[Len(s) + 1] = row
           /\ \A k \in 1..Len(s) : Append(s, row)[k] = s[k]
  OBVIOUS

\* The row a proposal inserts.
NewRow(a, t, amount, pred) ==
    [tuple |-> t, amount |-> amount, variance |-> Wrap(amount.left - amount.right),
     by |-> a, pred |-> pred, status |-> "proposed", succ |-> 0, judge |-> "nobody"]

LEMMA NewRowTyped ==
    ASSUME ReconciliationsAssumption, NEW a \in Proposers, NEW t \in Pairs, NEW amount \in Amounts,
           NEW pred \in Nat
    PROVE  NewRow(a, t, amount, pred) \in Rows
  <1>1. amount.left - amount.right \in Int
    BY DEF ReconciliationsAssumption, Machine
  <1>2. Wrap(amount.left - amount.right) \in Machine
    BY <1>1, WrapInRange
  <1>3. QED
    BY <1>2 DEF NewRow, Rows, Statuses

\* The rows after a proposal: its own is new, and it takes the place of an open
\* predecessor.
LEMMA ProposeRows ==
    ASSUME ReconciliationsAssumption, TypeOK, NEW a \in Proposers, NEW t \in Pairs,
           NEW amount \in Amounts, NEW r \in Requests,
           NEW pred \in {0} \cup Ids, ProposeReconciliation(a, t, amount, pred, r)
    PROVE  /\ reconciliations' \in Seq(Rows)
           /\ Len(reconciliations') = Len(reconciliations) + 1
           /\ reconciliations'[Len(reconciliations) + 1] = NewRow(a, t, amount, pred)
           /\ \A k \in Ids : reconciliations'[k] = IF k = pred /\ reconciliations[pred].status = "proposed"
                                             THEN Replaced(reconciliations[k], Len(reconciliations) + 1)
                                             ELSE reconciliations[k]
  <1> DEFINE j == Len(reconciliations) + 1
             row == NewRow(a, t, amount, pred)
  <1>1. row \in Rows /\ reconciliations \in Seq(Rows) /\ j \in Nat
    BY NewRowTyped DEF Ids, TypeOK
  <1>2. CASE SupersedesNow(pred)
    <2>1. pred \in 1..Len(reconciliations) /\ reconciliations[pred] \in Rows
      BY <1>1, <1>2 DEF SupersedesNow, Ids
    <2> DEFINE old == Replaced(reconciliations[pred], j)
               s == [reconciliations EXCEPT ![pred] = old]
    <2>2. old \in Rows
      BY <2>1, <1>1 DEF Replaced, Rows, Statuses
    <2>3. SupersedeProposed(pred, j) = s
      BY <2>1, <1>1, <1>2 DEF SupersedeProposed, SupersedesNow, Replaced, Rows
    <2>4. reconciliations' = Append(s, row)
      BY <2>3 DEF ProposeReconciliation, NewRow
    <2>5. s \in Seq(Rows) /\ Len(s) = Len(reconciliations)
          /\ \A k \in 1..Len(reconciliations) : s[k] = IF k = pred THEN old ELSE reconciliations[k]
      BY <1>1, <2>1, <2>2, RowUpdate
    <2> HIDE DEF s, old, row
    <2>6. Append(s, row) \in Seq(Rows) /\ Len(Append(s, row)) = Len(s) + 1
          /\ Append(s, row)[Len(s) + 1] = row /\ \A k \in 1..Len(s) : Append(s, row)[k] = s[k]
      BY <1>1, <2>5, RowAppend
    <2>7. QED
      BY <1>2, <2>4, <2>5, <2>6 DEF SupersedesNow, Ids, old, row
  <1>3. CASE ~SupersedesNow(pred)
    <2>1. reconciliations' = Append(reconciliations, row)
      BY <1>3 DEF ProposeReconciliation, NewRow, SupersedeProposed, SupersedesNow
    <2> HIDE DEF row
    <2>2. reconciliations' \in Seq(Rows) /\ Len(reconciliations') = j
          /\ reconciliations'[j] = row /\ \A k \in 1..Len(reconciliations) : reconciliations'[k] = reconciliations[k]
      BY <1>1, <2>1, RowAppend
    <2>3. \A k \in Ids : k = pred => reconciliations[pred].status # "proposed"
      BY <1>1, <1>3 DEF SupersedesNow, Ids
    <2>4. QED
      BY <2>2, <2>3 DEF Ids, row
  <1>4. QED
    BY <1>2, <1>3

\* The rows after a rejection or a withdrawal: one row changes.
LEMMA RejectRows ==
    ASSUME TypeOK, NEW p \in People, NEW j \in Ids, NEW r \in Requests, RejectReconciliation(p, j, r)
    PROVE  /\ reconciliations' \in Seq(Rows) /\ Len(reconciliations') = Len(reconciliations)
           /\ \A k \in Ids : reconciliations'[k] = IF k = j THEN Settled(reconciliations[j], p, "rejected")
                                             ELSE reconciliations[k]
  <1> DEFINE row == Settled(reconciliations[j], p, "rejected")
  <1>1. reconciliations \in Seq(Rows) /\ j \in 1..Len(reconciliations) /\ reconciliations[j] \in Rows
    BY DEF TypeOK, Ids
  <1>2. row \in Rows
    BY <1>1 DEF Settled, Rows, Statuses
  <1>3. reconciliations' = [reconciliations EXCEPT ![j] = row]
    BY <1>1 DEF RejectReconciliation, Decided, Settled, Rows
  <1> HIDE DEF row
  <1>4. QED
    BY <1>1, <1>2, <1>3, RowUpdate DEF Ids, row

LEMMA WithdrawRows ==
    ASSUME TypeOK, NEW a \in Proposers, NEW j \in Ids, NEW r \in Requests, WithdrawReconciliation(a, j, r)
    PROVE  /\ reconciliations' \in Seq(Rows) /\ Len(reconciliations') = Len(reconciliations)
           /\ \A k \in Ids : reconciliations'[k] =
                       IF k = j THEN [reconciliations[j] EXCEPT !.status = "withdrawn"]
                                             ELSE reconciliations[k]
  <1> DEFINE row == [reconciliations[j] EXCEPT !.status = "withdrawn"]
  <1>1. reconciliations \in Seq(Rows) /\ j \in 1..Len(reconciliations) /\ reconciliations[j] \in Rows
    BY DEF TypeOK, Ids
  <1>2. row \in Rows
    BY <1>1 DEF Rows, Statuses
  <1>3. reconciliations' = [reconciliations EXCEPT ![j] = row]
    BY <1>1 DEF WithdrawReconciliation
  <1> HIDE DEF row
  <1>4. QED
    BY <1>1, <1>2, <1>3, RowUpdate DEF Ids, row

\* Confirming j supersedes a confirmed predecessor of j.
SupersedesConfirmed(j) ==
    /\ reconciliations[j].pred # 0
    /\ reconciliations[reconciliations[j].pred].status = "confirmed"

\* The rows after a confirmation: its own, and that of the predecessor it supersedes.
LEMMA ConfirmRows ==
    ASSUME TypeOK, NEW p \in People, NEW j \in Ids, NEW r \in Requests, ConfirmReconciliation(p, j, r)
    PROVE  /\ reconciliations' \in Seq(Rows) /\ Len(reconciliations') = Len(reconciliations)
           /\ reconciliations[j].pred < j
           /\ \A k \in Ids :
                reconciliations'[k] = IF k = j THEN Settled(reconciliations[j], p, "confirmed")
                                ELSE IF k = reconciliations[j].pred /\ SupersedesConfirmed(j)
                                THEN Replaced(reconciliations[k], j)
                                ELSE reconciliations[k]
  <1> DEFINE row == Settled(reconciliations[j], p, "confirmed")
             pred == reconciliations[j].pred
             done == [reconciliations EXCEPT ![j] = row]
  <1>1. /\ reconciliations \in Seq(Rows) /\ j \in 1..Len(reconciliations) /\ reconciliations[j] \in Rows
        /\ pred \in 0..(j - 1) /\ j \in Nat
    BY DEF TypeOK, Ids
  <1>2. row \in Rows
    BY <1>1 DEF Settled, Rows, Statuses
  <1>3. Decided(j, p, "confirmed") = done
    BY <1>1 DEF Decided, Settled, Rows
  <1> HIDE DEF row
  <1>4. done \in Seq(Rows) /\ Len(done) = Len(reconciliations)
        /\ \A k \in 1..Len(reconciliations) : done[k] = IF k = j THEN row ELSE reconciliations[k]
    BY <1>1, <1>2, RowUpdate
  <1> HIDE DEF done
  <1>5. CASE SupersedesConfirmed(j)
    <2> DEFINE old == Replaced(reconciliations[pred], j)
    <2>1. pred \in 1..Len(reconciliations) /\ pred # j /\ reconciliations[pred] \in Rows
          /\ done[pred] = reconciliations[pred]
      BY <1>1, <1>4, <1>5 DEF SupersedesConfirmed
    <2>2. old \in Rows
      BY <1>1, <2>1 DEF Replaced, Rows, Statuses
    <2>3. reconciliations' = [done EXCEPT ![pred] = old]
      BY <1>3, <1>4, <1>5, <2>1 DEF ConfirmReconciliation, SupersedesConfirmed, Replaced, Rows
    <2> HIDE DEF old
    <2>4. reconciliations' \in Seq(Rows) /\ Len(reconciliations') = Len(reconciliations)
          /\ \A k \in 1..Len(reconciliations) : reconciliations'[k] = IF k = pred THEN old ELSE done[k]
      BY <1>4, <2>1, <2>2, <2>3, RowUpdate
    <2>5. QED
      BY <1>1, <1>4, <1>5, <2>1, <2>4 DEF Ids, old, row
  <1>6. CASE ~SupersedesConfirmed(j)
    <2>1. reconciliations' = done
      BY <1>3, <1>6 DEF ConfirmReconciliation, SupersedesConfirmed
    <2>2. QED
      BY <1>1, <1>4, <1>6, <2>1 DEF Ids, row
  <1>7. QED
    BY <1>5, <1>6

-----------------------------------------------------------------------------
(* Type correctness *)

\* The part of TypeOK that is about the row of reconciliation j.
RowOK(j) == /\ reconciliations[j].pred \in 0..(j - 1)
            /\ reconciliations[j].succ \in {0} \cup (j + 1)..Len(reconciliations)

\* Any command writes one key, of a reconciliation that is there.
LEMMA KeyTyped ==
    ASSUME keys \subseteq KeyRows, \A k \in keys : k.id \in Ids,
           Len(reconciliations) \in Nat, Len(reconciliations') \in Nat,
           Len(reconciliations) <= Len(reconciliations'),
           NEW r \in Requests,
           NEW a \in Proposers \cup People, NEW j \in 1..Len(reconciliations'),
           keys' = keys \cup {Key(r, a, j)}
    PROVE  keys' \subseteq KeyRows /\ \A k \in keys' : k.id \in Ids'
  <1>1. Key(r, a, j) \in KeyRows /\ Key(r, a, j).id = j
    BY DEF Key, KeyRows
  <1>2. QED
    BY <1>1 DEF Ids

LEMMA TypeInit ==
    ASSUME ReconciliationsAssumption, Init
    PROVE  TypeOK
  <1>1. <<>> \in Seq(Rows) /\ Len(<<>>) = 0
    OBVIOUS
  <1>2. reconciliations \in Seq(Rows) /\ Len(reconciliations) = 0
    BY <1>1 DEF Init
  <1>3. ~\E j \in Ids : TRUE
    BY <1>2 DEF Ids
  <1>4. keys = {} /\ edges \in Seq(EdgeRows) /\ elsewhere = {} /\ closed = {} /\ 0 <= MaxReconciliations
    BY DEF Init, ReconciliationsAssumption
  <1>5. QED
    BY <1>2, <1>3, <1>4 DEF TypeOK

\* One more row of the relations table.
LEMMA RowAppended ==
    ASSUME edges \in Seq(EdgeRows), NEW t \in Pairs, NEW who \in Proposers \cup People
    PROVE  /\ Append(edges, EdgeRow(t, who)) \in Seq(EdgeRows)
           /\ DOMAIN Append(edges, EdgeRow(t, who)) = DOMAIN edges \cup {Len(edges) + 1}
           /\ Len(edges) + 1 \notin DOMAIN edges
           /\ Append(edges, EdgeRow(t, who))[Len(edges) + 1] = EdgeRow(t, who)
           /\ \A n \in DOMAIN edges : Append(edges, EdgeRow(t, who))[n] = edges[n]
  <1>1. EdgeRow(t, who) \in EdgeRows
    BY DEF EdgeRow, EdgeRows
  <1> HIDE DEF EdgeRow, EdgeRows
  <1>2. QED
    BY <1>1

LEMMA ProposeType ==
    ASSUME ReconciliationsAssumption, TypeOK, NEW a \in Proposers, NEW t \in Pairs,
           NEW amount \in Amounts, NEW r \in Requests,
           NEW pred \in {0} \cup Ids, ProposeReconciliation(a, t, amount, pred, r)
    PROVE  TypeOK'
  <1> DEFINE n == Len(reconciliations)
  <1>1. /\ reconciliations' \in Seq(Rows) /\ Len(reconciliations') = n + 1
        /\ reconciliations'[n + 1] = NewRow(a, t, amount, pred)
        /\ \A k \in Ids : reconciliations'[k] = IF k = pred /\ reconciliations[pred].status = "proposed"
                                          THEN Replaced(reconciliations[k], n + 1) ELSE reconciliations[k]
    BY ProposeRows
  <1>2. n \in Nat /\ \A k \in 1..n : reconciliations[k] \in Rows /\ RowOK(k)
    BY DEF TypeOK, Ids, RowOK
  <1>3. \A k \in 1..(n + 1) : RowOK(k)'
    <2> SUFFICES ASSUME NEW k \in 1..(n + 1) PROVE RowOK(k)'
      OBVIOUS
    <2>1. CASE k = n + 1
      BY <1>1, <1>2, <2>1 DEF NewRow, RowOK, Ids
    <2>2. CASE k # n + 1 /\ ~(k = pred /\ reconciliations[pred].status = "proposed")
      <3>1. k \in Ids /\ RowOK(k) /\ reconciliations[k] \in Rows
        BY <1>2, <2>2 DEF Ids
      <3>2. reconciliations'[k] = reconciliations[k]
        BY <1>1, <2>2, <3>1
      <3>3. QED
        BY <1>1, <1>2, <3>1, <3>2 DEF RowOK
    <2>3. CASE k # n + 1 /\ k = pred /\ reconciliations[pred].status = "proposed"
      <3>1. k \in Ids /\ reconciliations[k] \in Rows /\ RowOK(k)
        BY <1>2, <2>3 DEF Ids
      <3>2. reconciliations'[k].pred = reconciliations[k].pred /\ reconciliations'[k].succ = n + 1
            /\ reconciliations'[k].status = "superseded"
        BY <1>1, <2>3, <3>1 DEF Replaced, Rows
      <3>3. QED
        BY <1>1, <1>2, <2>3, <3>1, <3>2 DEF RowOK
    <2>4. QED
      BY <2>1, <2>2, <2>3
  <1>4. keys' \subseteq KeyRows /\ \A k \in keys' : k.id \in Ids'
    <2>1. keys' = keys \cup {Key(r, a, n + 1)} /\ n + 1 \in 1..Len(reconciliations')
      BY <1>1, <1>2 DEF ProposeReconciliation
    <2>2. QED
      BY <1>1, <1>2, <2>1, KeyTyped DEF TypeOK
  <1>6. QED
    BY <1>1, <1>3, <1>4 DEF ProposeReconciliation, TypeOK, Ids, RowOK

LEMMA RejectType ==
    ASSUME TypeOK, NEW p \in People, NEW j \in Ids, NEW r \in Requests, RejectReconciliation(p, j, r)
    PROVE  TypeOK'
  <1>1. /\ reconciliations' \in Seq(Rows) /\ Len(reconciliations') = Len(reconciliations)
        /\ \A k \in Ids : reconciliations'[k] = IF k = j THEN Settled(reconciliations[j], p, "rejected")
                                          ELSE reconciliations[k]
    BY RejectRows
  <1>2. Len(reconciliations) \in Nat /\ \A k \in Ids : reconciliations[k] \in Rows /\ RowOK(k)
    BY DEF TypeOK, Ids, RowOK
  <1>3. \A k \in Ids : RowOK(k)'
    <2>1. /\ reconciliations'[j].pred = reconciliations[j].pred
          /\ reconciliations'[j].succ = reconciliations[j].succ
          /\ reconciliations'[j].judge = p
      BY <1>1, <1>2 DEF Settled, Rows
    <2>2. QED
      BY <1>1, <1>2, <2>1 DEF RowOK
  <1>4. keys' \subseteq KeyRows /\ \A k \in keys' : k.id \in Ids'
    BY <1>1, <1>2, KeyTyped DEF TypeOK, RejectReconciliation, Ids
  <1>6. QED
    BY <1>1, <1>3, <1>4 DEF RejectReconciliation, TypeOK, Ids, RowOK

LEMMA WithdrawType ==
    ASSUME TypeOK, NEW a \in Proposers, NEW j \in Ids, NEW r \in Requests, WithdrawReconciliation(a, j, r)
    PROVE  TypeOK'
  <1>1. /\ reconciliations' \in Seq(Rows) /\ Len(reconciliations') = Len(reconciliations)
        /\ \A k \in Ids : reconciliations'[k] =
                    IF k = j THEN [reconciliations[j] EXCEPT !.status = "withdrawn"]
                                          ELSE reconciliations[k]
    BY WithdrawRows
  <1>2. Len(reconciliations) \in Nat /\ \A k \in Ids : reconciliations[k] \in Rows /\ RowOK(k)
    BY DEF TypeOK, Ids, RowOK
  <1>3. \A k \in Ids : RowOK(k)'
    <2>1. /\ reconciliations'[j].pred = reconciliations[j].pred
          /\ reconciliations'[j].succ = reconciliations[j].succ
          /\ reconciliations'[j].status = "withdrawn"
      BY <1>1, <1>2 DEF Rows
    <2>2. QED
      BY <1>1, <1>2, <2>1 DEF RowOK
  <1>4. keys' \subseteq KeyRows /\ \A k \in keys' : k.id \in Ids'
    <2>1. keys' = keys \cup {Key(r, a, j)}
      BY DEF WithdrawReconciliation
    <2>2. keys \subseteq KeyRows /\ \A k \in keys : k.id \in Ids
      BY DEF TypeOK
    <2>3. j \in 1..Len(reconciliations') /\ a \in Proposers \cup People /\ Ids' = Ids
      BY <1>1 DEF Ids
    <2>4. QED
      BY <1>1, <1>2, <2>1, <2>2, <2>3, KeyTyped
  <1>6. QED
    BY <1>1, <1>3, <1>4 DEF WithdrawReconciliation, TypeOK, Ids, RowOK

LEMMA ConfirmType ==
    ASSUME TypeOK, NEW p \in People, NEW j \in Ids, NEW r \in Requests, ConfirmReconciliation(p, j, r)
    PROVE  TypeOK'
  <1>1. /\ reconciliations' \in Seq(Rows) /\ Len(reconciliations') = Len(reconciliations)
        /\ reconciliations[j].pred < j
        /\ \A k \in Ids :
             reconciliations'[k] = IF k = j THEN Settled(reconciliations[j], p, "confirmed")
                             ELSE IF k = reconciliations[j].pred /\ SupersedesConfirmed(j)
                             THEN Replaced(reconciliations[k], j) ELSE reconciliations[k]
    BY ConfirmRows
  <1>2. Len(reconciliations) \in Nat /\ \A k \in Ids : reconciliations[k] \in Rows /\ RowOK(k)
    BY DEF TypeOK, Ids, RowOK
  <1>3. \A k \in Ids : RowOK(k)'
    <2> SUFFICES ASSUME NEW k \in Ids PROVE RowOK(k)'
      OBVIOUS
    <2>1. CASE k = j
      <3>1. /\ reconciliations'[k].pred = reconciliations[k].pred
            /\ reconciliations'[k].succ = reconciliations[k].succ
            /\ reconciliations'[k].judge = p
        BY <1>1, <1>2, <2>1 DEF Settled, Rows
      <3>2. QED
        BY <1>1, <1>2, <3>1 DEF RowOK
    <2>2. CASE k # j /\ k = reconciliations[j].pred /\ SupersedesConfirmed(j)
      <3>1. reconciliations'[k].pred = reconciliations[k].pred /\ reconciliations'[k].succ = j
            /\ reconciliations'[k].status = "superseded"
        BY <1>1, <1>2, <2>2 DEF Replaced, Rows
      <3>2. j \in (k + 1)..Len(reconciliations)
        BY <1>1, <1>2, <2>2 DEF Ids
      <3>3. QED
        BY <1>1, <1>2, <3>1, <3>2 DEF RowOK
    <2>3. CASE k # j /\ ~(k = reconciliations[j].pred /\ SupersedesConfirmed(j))
      BY <1>1, <1>2, <2>3 DEF RowOK
    <2>4. QED
      BY <2>1, <2>2, <2>3
  <1>4. keys' \subseteq KeyRows /\ \A k \in keys' : k.id \in Ids'
    <2>1. keys' = keys \cup {Key(r, p, j)}
      BY DEF ConfirmReconciliation
    <2>2. keys \subseteq KeyRows /\ \A k \in keys : k.id \in Ids
      BY DEF TypeOK
    <2>3. j \in 1..Len(reconciliations') /\ p \in Proposers \cup People
      BY <1>1 DEF Ids
    <2>4. QED
      BY <1>1, <1>2, <2>1, <2>2, <2>3, KeyTyped
  <1>6. /\ edges' \in Seq(EdgeRows) /\ elsewhere' \subseteq {Edge(t) : t \in Pairs}
        /\ closed' \subseteq Periods
    <2>1. reconciliations[j].tuple \in Pairs
      BY <1>2 DEF Rows
    <2>2. /\ Project(reconciliations[j].tuple, p) /\ closed' = closed /\ elsewhere' = elsewhere
          /\ edges \in Seq(EdgeRows)
      BY DEF ConfirmReconciliation, TypeOK
    <2>3. edges' \in Seq(EdgeRows)
      BY <2>1, <2>2, RowAppended DEF Project
    <2>4. QED
      BY <2>2, <2>3 DEF TypeOK
  <1>7. Ids' = Ids /\ Len(reconciliations') <= MaxReconciliations
    BY <1>1 DEF Ids, TypeOK
  <1>8. QED
    BY <1>1, <1>3, <1>4, <1>6, <1>7 DEF TypeOK, RowOK

LEMMA RelateType ==
    ASSUME TypeOK, NEW who \in Proposers \cup People, NEW t \in Pairs, RelateElsewhere(who, t)
    PROVE  TypeOK'
  <1>1. edges' \in Seq(EdgeRows)
    BY RowAppended DEF RelateElsewhere, TypeOK
  <1>2. QED
    BY <1>1 DEF RelateElsewhere, TypeOK, Ids

LEMMA TypeStep ==
    ASSUME ReconciliationsAssumption, TypeOK, [Next]_vars
    PROVE  TypeOK'
  <1>1. CASE ProposeStep
    BY <1>1, ProposeType DEF ProposeStep
  <1>2. CASE ConfirmStep
    BY <1>2, ConfirmType DEF ConfirmStep
  <1>7. CASE RejectStep
    BY <1>7, RejectType DEF RejectStep
  <1>3. CASE WithdrawStep
    BY <1>3, WithdrawType DEF WithdrawStep
  <1>4. CASE TogglePeriod
    BY <1>4 DEF TogglePeriod, TypeOK, Ids
  <1>5. CASE UNCHANGED vars
    BY <1>5 DEF vars, TypeOK, Ids
  <1>6. CASE RelateStep
    BY <1>6, RelateType DEF RelateStep
  <1>8. QED
    BY <1>1, <1>2, <1>3, <1>4, <1>5, <1>6, <1>7 DEF Next

\* The tables of reconciliations stay well typed, with their foreign keys.
THEOREM TypesOfReconciliations ==
    ASSUME ReconciliationsAssumption
    PROVE  Spec => []TypeOK
  <1>1. Init => TypeOK
    BY TypeInit
  <1>2. TypeOK /\ [Next]_vars => TypeOK'
    BY TypeStep
  <1>3. QED
    BY <1>1, <1>2, PTL DEF Spec

-----------------------------------------------------------------------------
(* What the invariant reads of the rows after each command *)

\* The facts about one row that the types give.
LEMMA RowFacts ==
    ASSUME TypeOK, NEW j \in Ids
    PROVE  /\ reconciliations[j] \in Rows /\ j \in Nat /\ Len(reconciliations) \in Nat
           /\ 1 <= j /\ j <= Len(reconciliations)
           /\ reconciliations[j].pred \in Nat /\ reconciliations[j].pred < j
           /\ reconciliations[j].pred # 0 => reconciliations[j].pred \in Ids
           /\ reconciliations[j].succ # 0 => reconciliations[j].succ \in Ids /\ j < reconciliations[j].succ
  BY DEF TypeOK, Ids

\* Two states of one row: what a proposal fixed is the same in both.
SameProposal(old, new) ==
    /\ new.tuple = old.tuple /\ new.pred = old.pred /\ new.by = old.by
    /\ new.amount = old.amount /\ new.variance = old.variance

\* The row of j is closed with a status by a person or nobody; everything else of
\* it, and the other rows, stay.
Closing(j, status, judge) ==
    /\ Ids' = Ids
    /\ reconciliations[j].status = "proposed"
    /\ SameProposal(reconciliations[j], reconciliations'[j])
    /\ reconciliations'[j].status = status /\ reconciliations'[j].judge = judge
    /\ reconciliations'[j].succ = reconciliations[j].succ
    /\ \A k \in Ids : k # j => reconciliations'[k] = reconciliations[k]

LEMMA RejectCloses ==
    ASSUME TypeOK, NEW p \in People, NEW j \in Ids, NEW r \in Requests, RejectReconciliation(p, j, r)
    PROVE  Closing(j, "rejected", p)
  <1>1. /\ Len(reconciliations') = Len(reconciliations)
        /\ \A k \in Ids : reconciliations'[k] = IF k = j THEN Settled(reconciliations[j], p, "rejected")
                                                ELSE reconciliations[k]
    BY RejectRows
  <1>2. reconciliations[j] \in Rows /\ j \in Nat
    BY RowFacts
  <1>3. reconciliations[j].status = "proposed" /\ "rejected" \in Statuses
    BY DEF RejectReconciliation, Adjudicable, Statuses
  <1>4. reconciliations'[j] = Settled(reconciliations[j], p, "rejected")
    BY <1>1
  <1>5. /\ SameProposal(reconciliations[j], reconciliations'[j])
        /\ reconciliations'[j].status = "rejected" /\ reconciliations'[j].judge = p
        /\ reconciliations'[j].succ = reconciliations[j].succ
    BY <1>2, <1>4 DEF Settled, SameProposal, Rows
  <1>6. QED
    BY <1>1, <1>3, <1>5 DEF Closing, Ids

LEMMA WithdrawCloses ==
    ASSUME TypeOK, NEW a \in Proposers, NEW j \in Ids, NEW r \in Requests, WithdrawReconciliation(a, j, r)
    PROVE  Closing(j, "withdrawn", reconciliations[j].judge)
  <1>1. /\ Len(reconciliations') = Len(reconciliations)
        /\ \A k \in Ids : reconciliations'[k] =
                    IF k = j THEN [reconciliations[j] EXCEPT !.status = "withdrawn"]
                                                ELSE reconciliations[k]
    BY WithdrawRows
  <1>2. reconciliations[j] \in Rows /\ reconciliations[j].status = "proposed"
    BY RowFacts DEF WithdrawReconciliation
  <1>3. reconciliations'[j] = [reconciliations[j] EXCEPT !.status = "withdrawn"]
    BY <1>1
  <1>4. /\ SameProposal(reconciliations[j], reconciliations'[j])
        /\ reconciliations'[j].status = "withdrawn"
        /\ reconciliations'[j].judge = reconciliations[j].judge
        /\ reconciliations'[j].succ = reconciliations[j].succ
    BY <1>2, <1>3 DEF SameProposal, Rows
  <1>5. QED
    BY <1>1, <1>2, <1>4 DEF Closing, Ids

\* What the invariant reads of the rows after a proposal.
LEMMA ProposeFields ==
    ASSUME ReconciliationsAssumption, TypeOK, NEW a \in Proposers, NEW t \in Pairs,
           NEW amount \in Amounts, NEW r \in Requests,
           NEW pred \in {0} \cup Ids, ProposeReconciliation(a, t, amount, pred, r)
    PROVE  LET new == Len(reconciliations) + 1 IN
           /\ new \in Nat /\ Ids' = Ids \cup {new} /\ new \notin Ids /\ new # 0
           /\ reconciliations'[new] = NewRow(a, t, amount, pred)
           /\ \A k \in Ids : SameProposal(reconciliations[k], reconciliations'[k])
           /\ \A k \in Ids : (k = pred /\ reconciliations[pred].status = "proposed") =>
                                /\ reconciliations'[k].status = "superseded" /\ reconciliations'[k].succ = new
                                /\ reconciliations'[k].judge = reconciliations[k].judge
           /\ \A k \in Ids : ~(k = pred /\ reconciliations[pred].status = "proposed") =>
                                reconciliations'[k] = reconciliations[k]
  <1> DEFINE new == Len(reconciliations) + 1
  <1>1. /\ Len(reconciliations') = new /\ reconciliations'[new] = NewRow(a, t, amount, pred)
        /\ \A k \in Ids : reconciliations'[k] = IF k = pred /\ reconciliations[pred].status = "proposed"
                                          THEN Replaced(reconciliations[k], new) ELSE reconciliations[k]
    BY ProposeRows
  <1>2. Len(reconciliations) \in Nat /\ \A k \in Ids : reconciliations[k] \in Rows
    BY RowFacts DEF TypeOK
  <1>3. Ids' = Ids \cup {new} /\ new \notin Ids /\ new # 0 /\ new \in Nat
    BY <1>1, <1>2 DEF Ids
  <1>4. \A k \in Ids : ~(k = pred /\ reconciliations[pred].status = "proposed") =>
                           reconciliations'[k] = reconciliations[k]
    BY <1>1
  <1>5. ASSUME NEW k \in Ids, k = pred, reconciliations[pred].status = "proposed"
        PROVE  /\ reconciliations'[k].status = "superseded" /\ reconciliations'[k].succ = new
               /\ reconciliations'[k].judge = reconciliations[k].judge
               /\ SameProposal(reconciliations[k], reconciliations'[k])
    <2>1. reconciliations'[k] = Replaced(reconciliations[k], new)
      BY <1>1, <1>5
    <2> HIDE DEF new
    <2>2. QED
      BY <1>2, <1>3, <2>1 DEF Replaced, SameProposal, Rows
  <1> HIDE DEF new
  <1>6. QED
    BY <1>1, <1>3, <1>4, <1>5 DEF new, SameProposal

\* What the invariant reads of the rows after a confirmation that supersedes.
LEMMA ConfirmFields ==
    ASSUME TypeOK, NEW p \in People, NEW j \in Ids, NEW r \in Requests, ConfirmReconciliation(p, j, r),
           SupersedesConfirmed(j)
    PROVE  LET pred == reconciliations[j].pred IN
           /\ Ids' = Ids /\ pred \in Ids /\ pred < j /\ j \in Nat /\ j # 0
           /\ reconciliations[j].status = "proposed" /\ reconciliations[pred].status = "confirmed"
           /\ \A k \in Ids : SameProposal(reconciliations[k], reconciliations'[k])
           /\ reconciliations'[j].status = "confirmed" /\ reconciliations'[j].succ = reconciliations[j].succ
           /\ reconciliations'[j].judge = p /\ reconciliations'[pred].judge = reconciliations[pred].judge
           /\ reconciliations'[pred].status = "superseded" /\ reconciliations'[pred].succ = j
           /\ \A k \in Ids : k # j /\ k # pred => reconciliations'[k] = reconciliations[k]
  <1> DEFINE pred == reconciliations[j].pred
  <1>1. /\ Len(reconciliations') = Len(reconciliations)
        /\ \A k \in Ids : reconciliations'[k] = IF k = j THEN Settled(reconciliations[j], p, "confirmed")
                                          ELSE IF k = reconciliations[j].pred /\ SupersedesConfirmed(j)
                                          THEN Replaced(reconciliations[k], j) ELSE reconciliations[k]
    BY ConfirmRows
  <1>2. /\ pred \in Ids /\ pred < j /\ j \in Nat /\ pred \in Nat /\ j # 0
        /\ reconciliations[pred].status = "confirmed" /\ reconciliations[j].status = "proposed"
    BY RowFacts DEF SupersedesConfirmed, ConfirmReconciliation, Adjudicable, Ids
  <1>3. reconciliations'[j] = Settled(reconciliations[j], p, "confirmed")
        /\ reconciliations'[pred] = Replaced(reconciliations[pred], j)
    BY <1>1, <1>2
  <1>4. reconciliations[j] \in Rows /\ reconciliations[pred] \in Rows
    BY <1>2, RowFacts
  <1>5. /\ reconciliations'[j].status = "confirmed" /\ reconciliations'[j].succ = reconciliations[j].succ
        /\ reconciliations'[j].judge = p /\ SameProposal(reconciliations[j], reconciliations'[j])
    BY <1>3, <1>4 DEF Settled, SameProposal, Rows
  <1>6. /\ reconciliations'[pred].status = "superseded" /\ reconciliations'[pred].succ = j
        /\ reconciliations'[pred].judge = reconciliations[pred].judge
        /\ SameProposal(reconciliations[pred], reconciliations'[pred])
    BY <1>3, <1>4 DEF Replaced, SameProposal, Rows
  <1>7. \A k \in Ids : k # j /\ k # pred => reconciliations'[k] = reconciliations[k]
    BY <1>1
  <1> HIDE DEF pred
  <1>8. \A k \in Ids : SameProposal(reconciliations[k], reconciliations'[k])
    BY <1>5, <1>6, <1>7 DEF SameProposal
  <1>9. Ids' = Ids
    BY <1>1 DEF Ids
  <1>10. QED
    BY <1>2, <1>5, <1>6, <1>7, <1>8, <1>9 DEF pred

\* No row of a confirmation changes its pair.
LEMMA ConfirmTuples ==
    ASSUME TypeOK, NEW p \in People, NEW j \in Ids, NEW r \in Requests,
           ConfirmReconciliation(p, j, r), SupersedesConfirmed(j)
    PROVE  /\ Ids' = Ids
           /\ \A k \in Ids : reconciliations'[k].tuple = reconciliations[k].tuple
  <1>1. Ids' = Ids /\ \A k \in Ids : SameProposal(reconciliations[k], reconciliations'[k])
    BY ConfirmFields
  <1>2. QED
    BY <1>1 DEF SameProposal

LEMMA ConfirmCloses ==
    ASSUME TypeOK, NEW p \in People, NEW j \in Ids, NEW r \in Requests, ConfirmReconciliation(p, j, r),
           ~SupersedesConfirmed(j)
    PROVE  Closing(j, "confirmed", p)
  <1>1. /\ Len(reconciliations') = Len(reconciliations)
        /\ \A k \in Ids : reconciliations'[k] = IF k = j THEN Settled(reconciliations[j], p, "confirmed")
                                          ELSE reconciliations[k]
    BY ConfirmRows
  <1>2. reconciliations[j] \in Rows /\ reconciliations[j].status = "proposed"
    BY RowFacts DEF ConfirmReconciliation, Adjudicable
  <1>3. reconciliations'[j] = Settled(reconciliations[j], p, "confirmed")
    BY <1>1
  <1>4. /\ SameProposal(reconciliations[j], reconciliations'[j])
        /\ reconciliations'[j].status = "confirmed" /\ reconciliations'[j].judge = p
        /\ reconciliations'[j].succ = reconciliations[j].succ
    BY <1>2, <1>3 DEF Settled, SameProposal, Rows
  <1>5. QED
    BY <1>1, <1>2, <1>4 DEF Closing, Ids

-----------------------------------------------------------------------------
(* The invariant *)

\* A correction is about the pair of the row it corrects.
SameTuple == \A i \in Ids : reconciliations[i].pred # 0 =>
                 reconciliations[reconciliations[i].pred].tuple = reconciliations[i].tuple

\* A row has a judge once it was decided, and not while it is open.
Judged == \A i \in Ids : /\ reconciliations[i].status = "proposed" => reconciliations[i].judge = "nobody"
                         /\ reconciliations[i].status = "confirmed" => reconciliations[i].judge # "nobody"

RowsInv == SameTuple /\ Judged

IInv == TypeOK /\ RowsInv /\ EdgesFollowConfirmations

LEMMA InvInit ==
    ASSUME Init
    PROVE  RowsInv /\ EdgesFollowConfirmations
  <1>1. ~\E i \in Ids : TRUE
    BY DEF Init, Ids
  <1>2. DOMAIN edges = {}
    BY DEF Init
  <1>3. QED
    BY <1>1, <1>2 DEF RowsInv, SameTuple, Judged, EdgesFollowConfirmations

LEMMA ClosingKeepsRows ==
    ASSUME ReconciliationsAssumption, TypeOK, RowsInv, NEW j \in Ids, NEW judge,
           NEW status \in {"rejected", "withdrawn", "confirmed"}, Closing(j, status, judge),
           status = "confirmed" => judge \in People
    PROVE  RowsInv'
  <1>1. Ids' = Ids /\ \A k \in Ids : SameProposal(reconciliations[k], reconciliations'[k])
    BY DEF Closing, SameProposal
  <1>2. SameTuple'
    BY <1>1, RowFacts DEF RowsInv, SameTuple, SameProposal
  <1>3. Judged'
    BY <1>1 DEF RowsInv, Judged, Closing, ReconciliationsAssumption
  <1>4. QED
    BY <1>2, <1>3 DEF RowsInv

LEMMA ProposeKeepsRows ==
    ASSUME ReconciliationsAssumption, TypeOK, RowsInv, NEW a \in Proposers, NEW t \in Pairs,
           NEW amount \in Amounts, NEW r \in Requests, NEW pred \in {0} \cup Ids,
           ProposeReconciliation(a, t, amount, pred, r)
    PROVE  RowsInv'
  <1> DEFINE new == Len(reconciliations) + 1
  <1>1. /\ Ids' = Ids \cup {new} /\ new \notin Ids /\ reconciliations'[new] = NewRow(a, t, amount, pred)
        /\ \A k \in Ids : SameProposal(reconciliations[k], reconciliations'[k])
        /\ \A k \in Ids : (k = pred /\ reconciliations[pred].status = "proposed") =>
                             reconciliations'[k].status = "superseded"
        /\ \A k \in Ids : ~(k = pred /\ reconciliations[pred].status = "proposed") =>
                             reconciliations'[k] = reconciliations[k]
    BY ProposeFields
  <1> HIDE DEF new
  <1>2. /\ reconciliations'[new].tuple = t /\ reconciliations'[new].pred = pred
        /\ reconciliations'[new].amount = amount
        /\ reconciliations'[new].variance = Wrap(amount.left - amount.right)
        /\ reconciliations'[new].status = "proposed" /\ reconciliations'[new].judge = "nobody"
    BY <1>1 DEF NewRow
  <1>3. SameTuple'
    <2>1. pred # 0 => pred \in Ids /\ reconciliations[pred].tuple = t
      BY DEF ProposeReconciliation, MayCorrect
    <2>2. \A k \in Ids : reconciliations[k].pred # 0 => reconciliations[k].pred \in Ids
      BY RowFacts
    <2>3. QED
      BY <1>1, <1>2, <2>1, <2>2 DEF RowsInv, SameTuple, SameProposal
  <1>4. Judged'
    BY <1>1, <1>2 DEF RowsInv, Judged
  <1>5. QED
    BY <1>3, <1>4 DEF RowsInv

LEMMA CorrectionKeepsRows ==
    ASSUME ReconciliationsAssumption, TypeOK, RowsInv, NEW p \in People, NEW j \in Ids,
           NEW r \in Requests, ConfirmReconciliation(p, j, r), SupersedesConfirmed(j)
    PROVE  RowsInv'
  <1> DEFINE pred == reconciliations[j].pred
  <1>1. /\ Ids' = Ids /\ pred \in Ids
        /\ \A k \in Ids : SameProposal(reconciliations[k], reconciliations'[k])
        /\ reconciliations'[j].status = "confirmed" /\ reconciliations'[j].judge = p
        /\ reconciliations'[pred].status = "superseded"
        /\ \A k \in Ids : k # j /\ k # pred => reconciliations'[k] = reconciliations[k]
    BY ConfirmFields
  <1> HIDE DEF pred
  <1>2. SameTuple'
    BY <1>1, RowFacts DEF RowsInv, SameTuple, SameProposal
  <1>3. Judged'
    <2>1. ASSUME NEW i \in Ids
          PROVE  /\ reconciliations'[i].status = "proposed" => reconciliations'[i].judge = "nobody"
                 /\ reconciliations'[i].status = "confirmed" => reconciliations'[i].judge # "nobody"
      <3>1. CASE i = pred
        BY <1>1, <3>1
      <3>2. CASE i = j /\ i # pred
        BY <1>1, <3>2 DEF ReconciliationsAssumption
      <3>3. CASE i # j /\ i # pred
        BY <1>1, <3>3 DEF RowsInv, Judged
      <3>4. QED
        BY <3>1, <3>2, <3>3
    <2>2. QED
      BY <1>1, <2>1 DEF Judged
  <1>4. QED
    BY <1>2, <1>3 DEF RowsInv

\* Rows that keep their pair, with those ever confirmed and who judged them.
RowsKept ==
    /\ Ids \subseteq Ids'
    /\ \A k \in Ids : reconciliations'[k].tuple = reconciliations[k].tuple
    /\ \A k \in Ids : WasConfirmed(k) => /\ WasConfirmed(k)'
                                          /\ reconciliations'[k].judge = reconciliations[k].judge

\* A command that confirms nothing leaves the confirmed pairs alone.
LEMMA ProposeKeepsConfirmed ==
    ASSUME ReconciliationsAssumption, TypeOK, RowsInv, NEW a \in Proposers, NEW t \in Pairs,
           NEW amount \in Amounts, NEW r \in Requests, NEW pred \in {0} \cup Ids,
           ProposeReconciliation(a, t, amount, pred, r)
    PROVE  /\ RowsKept
           /\ \A i \in Ids' : WasConfirmed(i)' => i \in Ids /\ WasConfirmed(i)
  <1> DEFINE new == Len(reconciliations) + 1
  <1>1. /\ Ids' = Ids \cup {new} /\ new \notin Ids /\ reconciliations'[new] = NewRow(a, t, amount, pred)
        /\ \A k \in Ids : (k = pred /\ reconciliations[pred].status = "proposed") =>
                             /\ reconciliations'[k].status = "superseded"
                             /\ reconciliations'[k].judge = reconciliations[k].judge
        /\ \A k \in Ids : ~(k = pred /\ reconciliations[pred].status = "proposed") =>
                             reconciliations'[k] = reconciliations[k]
    <2>1. Ids' = Ids \cup {new} /\ new \notin Ids /\ reconciliations'[new] = NewRow(a, t, amount, pred)
      BY ProposeFields
    <2>2. \A k \in Ids : (k = pred /\ reconciliations[pred].status = "proposed") =>
                             /\ reconciliations'[k].status = "superseded"
                             /\ reconciliations'[k].judge = reconciliations[k].judge
      BY ProposeFields
    <2>3. \A k \in Ids : ~(k = pred /\ reconciliations[pred].status = "proposed") =>
                             reconciliations'[k] = reconciliations[k]
      BY ProposeFields
    <2> HIDE DEF new
    <2>4. QED
      BY <2>1, <2>2, <2>3
  <1> HIDE DEF new
  <1>2. reconciliations'[new].status = "proposed"
    BY <1>1 DEF NewRow
  <1>3. \A k \in Ids : reconciliations[k].status = "proposed" => reconciliations[k].judge = "nobody"
    BY DEF RowsInv, Judged
  <1>4. \A k \in Ids : /\ reconciliations'[k].tuple = reconciliations[k].tuple
                         /\ reconciliations'[k].judge = reconciliations[k].judge
    BY ProposeFields DEF SameProposal
  <1>5. \A k \in Ids : WasConfirmed(k) => WasConfirmed(k)'
    BY <1>1, <1>4 DEF WasConfirmed
  <1>6. \A i \in Ids' : WasConfirmed(i)' => i \in Ids /\ WasConfirmed(i)
    BY <1>1, <1>2, <1>3 DEF WasConfirmed
  <1>7. QED
    BY <1>1, <1>4, <1>5, <1>6 DEF RowsKept

LEMMA ClosingConfirms ==
    ASSUME TypeOK, RowsInv, NEW j \in Ids, NEW judge,
           NEW status \in {"rejected", "withdrawn", "confirmed"}, Closing(j, status, judge)
    PROVE  /\ RowsKept /\ Ids' = Ids
           /\ status = "confirmed" => WasConfirmed(j)' /\ reconciliations'[j].judge = judge
           /\ \A i \in Ids' : WasConfirmed(i)' => WasConfirmed(i) \/ (i = j /\ status = "confirmed")
  <1>1. /\ Ids' = Ids /\ ~WasConfirmed(j)
        /\ \A k \in Ids : reconciliations'[k].tuple = reconciliations[k].tuple
        /\ \A k \in Ids : k # j => reconciliations'[k] = reconciliations[k]
        /\ reconciliations'[j].status = status /\ reconciliations'[j].judge = judge
    BY DEF Closing, SameProposal, WasConfirmed
  <1>2. QED
    BY <1>1 DEF RowsKept, WasConfirmed

LEMMA CorrectionConfirms ==
    ASSUME TypeOK, RowsInv, NEW p \in People, NEW j \in Ids, NEW r \in Requests,
           ConfirmReconciliation(p, j, r), SupersedesConfirmed(j)
    PROVE  /\ RowsKept /\ Ids' = Ids /\ WasConfirmed(j)' /\ reconciliations'[j].judge = p
           /\ \A i \in Ids' : WasConfirmed(i)' => WasConfirmed(i) \/ i = j
  <1> DEFINE pred == reconciliations[j].pred
  <1>1. /\ Ids' = Ids /\ pred \in Ids /\ reconciliations[pred].status = "confirmed"
        /\ reconciliations'[j].status = "confirmed" /\ reconciliations'[j].judge = p
        /\ reconciliations'[pred].status = "superseded"
        /\ reconciliations'[pred].judge = reconciliations[pred].judge
        /\ \A k \in Ids : k # j /\ k # pred => reconciliations'[k] = reconciliations[k]
    BY ConfirmFields
  <1>2. \A k \in Ids : reconciliations'[k].tuple = reconciliations[k].tuple
    BY ConfirmTuples
  <1> HIDE DEF pred
  <1>3. reconciliations[pred].judge # "nobody" /\ ~WasConfirmed(j)
    BY <1>1 DEF RowsInv, Judged, WasConfirmed, ConfirmReconciliation, Adjudicable
  <1>4. QED
    BY <1>1, <1>2, <1>3 DEF WasConfirmed, RowsKept

\* Nothing is inserted and nobody confirms.
LEMMA EdgesStay ==
    ASSUME EdgesFollowConfirmations, RowsKept,
           \A i \in Ids' : WasConfirmed(i)' => i \in Ids /\ WasConfirmed(i),
           edges' = edges, elsewhere' = elsewhere
    PROVE  EdgesFollowConfirmations'
  BY DEF EdgesFollowConfirmations, RowsKept, Related

\* A row j becomes confirmed, and its pair is projected.
LEMMA EdgesGrow ==
    ASSUME TypeOK, EdgesFollowConfirmations, RowsKept, NEW p \in People, NEW j \in Ids, Ids' = Ids,
           WasConfirmed(j)', reconciliations'[j].judge = p,
           \A i \in Ids' : WasConfirmed(i)' => WasConfirmed(i) \/ i = j,
           Project(reconciliations[j].tuple, p), elsewhere' = elsewhere
    PROVE  EdgesFollowConfirmations'
  <1> DEFINE t == reconciliations[j].tuple
  <1>1. t \in Pairs /\ edges \in Seq(EdgeRows)
    <2>1. reconciliations[j] \in Rows
      BY RowFacts
    <2>2. QED
      BY <2>1 DEF Rows, TypeOK
  <1>2. CASE Related(t)
    <2>1. edges' = edges
      BY <1>2 DEF Project
    <2>2. QED
      BY <1>2, <2>1 DEF EdgesFollowConfirmations, RowsKept, Related
  <1>3. CASE ~Related(t)
    <2>1. /\ DOMAIN edges' = DOMAIN edges \cup {Len(edges) + 1} /\ Len(edges) + 1 \notin DOMAIN edges
          /\ edges'[Len(edges) + 1] = EdgeRow(t, p)
          /\ \A n \in DOMAIN edges : edges'[n] = edges[n]
      BY <1>1, <1>3, RowAppended DEF Project
    <2>2. EdgeRow(t, p).pair = Edge(t) /\ EdgeRow(t, p).actor = p
      BY DEF EdgeRow
    <2>3. \A n \in DOMAIN edges : edges[n].pair # Edge(t)
      BY <1>3 DEF Related
    <2>4. (\A m, n \in DOMAIN edges : edges[m].pair = edges[n].pair => m = n)'
      BY <2>1, <2>2, <2>3 DEF EdgesFollowConfirmations
    <2>5. (\A i \in Ids : WasConfirmed(i) => Related(reconciliations[i].tuple))'
      BY <2>1, <2>2 DEF EdgesFollowConfirmations, RowsKept, Related
    <2>6. (\A n \in DOMAIN edges :
             \/ edges[n].pair \in elsewhere
             \/ \E i \in Ids : /\ WasConfirmed(i) /\ reconciliations[i].judge = edges[n].actor
                               /\ Edge(reconciliations[i].tuple) = edges[n].pair)'
      <3>1. ASSUME NEW n \in DOMAIN edges
            PROVE  \/ edges'[n].pair \in elsewhere'
                   \/ \E i \in Ids' : /\ WasConfirmed(i)' /\ reconciliations'[i].judge = edges'[n].actor
                                      /\ Edge(reconciliations'[i].tuple) = edges'[n].pair
        <4>1. edges'[n] = edges[n]
          BY <2>1, <3>1
        <4>2. QED
          BY <4>1 DEF EdgesFollowConfirmations, RowsKept
      <3>2. /\ WasConfirmed(j)' /\ reconciliations'[j].judge = edges'[Len(edges) + 1].actor
            /\ Edge(reconciliations'[j].tuple) = edges'[Len(edges) + 1].pair
        BY <2>1, <2>2 DEF RowsKept
      <3>3. QED
        BY <2>1, <3>1, <3>2
    <2>7. QED
      BY <2>4, <2>5, <2>6 DEF EdgesFollowConfirmations
  <1>4. QED
    BY <1>2, <1>3

\* Another writer relates a pair that nobody has related.
LEMMA EdgesElsewhere ==
    ASSUME TypeOK, EdgesFollowConfirmations, NEW who \in Proposers \cup People, NEW t \in Pairs,
           RelateElsewhere(who, t)
    PROVE  EdgesFollowConfirmations'
  <1>1. /\ DOMAIN edges' = DOMAIN edges \cup {Len(edges) + 1} /\ Len(edges) + 1 \notin DOMAIN edges
        /\ edges'[Len(edges) + 1] = EdgeRow(t, who)
        /\ \A n \in DOMAIN edges : edges'[n] = edges[n]
    BY RowAppended DEF RelateElsewhere, TypeOK
  <1>2. EdgeRow(t, who).pair = Edge(t)
    BY DEF EdgeRow
  <1>3. \A n \in DOMAIN edges : edges[n].pair # Edge(t)
    BY DEF RelateElsewhere, Related
  <1>4. /\ reconciliations' = reconciliations /\ elsewhere' = elsewhere \cup {Edge(t)}
    BY DEF RelateElsewhere
  <1>5. (\A m, n \in DOMAIN edges : edges[m].pair = edges[n].pair => m = n)'
    BY <1>1, <1>2, <1>3 DEF EdgesFollowConfirmations
  <1>6. (\A i \in Ids : WasConfirmed(i) => Related(reconciliations[i].tuple))'
    BY <1>1, <1>4 DEF EdgesFollowConfirmations, Related, WasConfirmed, Ids
  <1>7. (\A n \in DOMAIN edges :
           \/ edges[n].pair \in elsewhere
           \/ \E i \in Ids : /\ WasConfirmed(i) /\ reconciliations[i].judge = edges[n].actor
                             /\ Edge(reconciliations[i].tuple) = edges[n].pair)'
    BY <1>1, <1>2, <1>4 DEF EdgesFollowConfirmations, WasConfirmed, Ids
  <1>8. QED
    BY <1>5, <1>6, <1>7 DEF EdgesFollowConfirmations

LEMMA InvStep ==
    ASSUME ReconciliationsAssumption, TypeOK, RowsInv, EdgesFollowConfirmations, [Next]_vars
    PROVE  RowsInv' /\ EdgesFollowConfirmations'
  <1>1. ASSUME NEW a \in Proposers, NEW t \in Pairs, NEW amount \in Amounts, NEW r \in Requests,
               NEW pred \in {0} \cup Ids, ProposeReconciliation(a, t, amount, pred, r)
        PROVE  RowsInv' /\ EdgesFollowConfirmations'
    <2>1. RowsInv'
      BY <1>1, ProposeKeepsRows
    <2>2. RowsKept
      BY <1>1, ProposeKeepsConfirmed
    <2>3. \A i \in Ids' : WasConfirmed(i)' => i \in Ids /\ WasConfirmed(i)
      BY <1>1, ProposeKeepsConfirmed
    <2>4. edges' = edges /\ elsewhere' = elsewhere
      BY <1>1 DEF ProposeReconciliation
    <2>5. QED
      BY <2>1, <2>2, <2>3, <2>4, EdgesStay
  <1>2. ASSUME NEW p \in People, NEW j \in Ids, NEW r \in Requests, ConfirmReconciliation(p, j, r)
        PROVE  RowsInv' /\ EdgesFollowConfirmations'
    <2>1. Project(reconciliations[j].tuple, p) /\ elsewhere' = elsewhere
      BY <1>2 DEF ConfirmReconciliation
    <2>2. CASE SupersedesConfirmed(j)
      <3>1. RowsInv'
        BY <1>2, <2>2, CorrectionKeepsRows
      <3>2. RowsKept /\ Ids' = Ids /\ WasConfirmed(j)' /\ reconciliations'[j].judge = p
        BY <1>2, <2>2, CorrectionConfirms
      <3>3. \A i \in Ids' : WasConfirmed(i)' => WasConfirmed(i) \/ i = j
        BY <1>2, <2>2, CorrectionConfirms
      <3>4. QED
        BY <2>1, <3>1, <3>2, <3>3, EdgesGrow
    <2>3. CASE ~SupersedesConfirmed(j)
      <3>1. Closing(j, "confirmed", p)
        BY <1>2, <2>3, ConfirmCloses
      <3>2. RowsInv'
        BY <3>1, ClosingKeepsRows
      <3>3. RowsKept /\ Ids' = Ids /\ WasConfirmed(j)' /\ reconciliations'[j].judge = p
        BY <3>1, ClosingConfirms
      <3>4. \A i \in Ids' : WasConfirmed(i)' => WasConfirmed(i) \/ i = j
        BY <3>1, ClosingConfirms
      <3>5. QED
        BY <2>1, <3>2, <3>3, <3>4, EdgesGrow
    <2>4. QED
      BY <2>2, <2>3
  <1>3. ASSUME NEW j \in Ids, NEW judge, NEW status \in {"rejected", "withdrawn"},
               Closing(j, status, judge), edges' = edges, elsewhere' = elsewhere
        PROVE  RowsInv' /\ EdgesFollowConfirmations'
    <2>1. RowsInv'
      BY <1>3, ClosingKeepsRows
    <2>2. RowsKept
      BY <1>3, ClosingConfirms
    <2>3. \A i \in Ids' : WasConfirmed(i)' => i \in Ids /\ WasConfirmed(i)
      BY <1>3, ClosingConfirms
    <2>4. QED
      BY <1>3, <2>1, <2>2, <2>3, EdgesStay
  <1>4. CASE ProposeStep
    BY <1>1, <1>4 DEF ProposeStep
  <1>5. CASE ConfirmStep
    BY <1>2, <1>5 DEF ConfirmStep
  <1>6. CASE RejectStep
    <2>1. PICK p \in People, j \in Ids, r \in Requests : RejectReconciliation(p, j, r)
      BY <1>6 DEF RejectStep
    <2>2. Closing(j, "rejected", p) /\ edges' = edges /\ elsewhere' = elsewhere
      BY <2>1, RejectCloses DEF RejectReconciliation
    <2>3. QED
      BY <1>3, <2>2
  <1>7. CASE WithdrawStep
    <2>1. PICK a \in Proposers, j \in Ids, r \in Requests : WithdrawReconciliation(a, j, r)
      BY <1>7 DEF WithdrawStep
    <2>2. Closing(j, "withdrawn", reconciliations[j].judge) /\ edges' = edges /\ elsewhere' = elsewhere
      BY <2>1, WithdrawCloses DEF WithdrawReconciliation
    <2>3. QED
      BY <1>3, <2>2
  <1>8. CASE TogglePeriod \/ UNCHANGED vars
    <2>1. reconciliations' = reconciliations /\ edges' = edges /\ elsewhere' = elsewhere
      BY <1>8 DEF TogglePeriod, vars
    <2>2. QED
      BY <2>1 DEF RowsInv, SameTuple, Judged, EdgesFollowConfirmations, WasConfirmed, Related, Ids
  <1>9. CASE RelateStep
    <2>1. PICK who \in Proposers \cup People, t \in Pairs : RelateElsewhere(who, t)
      BY <1>9 DEF RelateStep
    <2>2. RowsInv'
      BY <2>1 DEF RelateElsewhere, RowsInv, SameTuple, Judged, Ids
    <2>3. QED
      BY <2>1, <2>2, EdgesElsewhere
  <1>10. QED
    BY <1>4, <1>5, <1>6, <1>7, <1>8, <1>9 DEF Next

LEMMA Inductive ==
    ASSUME ReconciliationsAssumption
    PROVE  Spec => []IInv
  <1>1. Init => IInv
    BY TypeInit, InvInit DEF IInv
  <1>2. IInv /\ [Next]_vars => IInv'
    BY TypeStep, InvStep DEF IInv
  <1>3. QED
    BY <1>1, <1>2, PTL DEF Spec

\* Every pair ever confirmed is related once, by a person who confirmed it or by
\* another writer who came first; corrections, rejections and withdrawals move no row.
THEOREM EdgesAreConfirmations ==
    ASSUME ReconciliationsAssumption
    PROVE  Spec => []EdgesFollowConfirmations
  <1>1. IInv => EdgesFollowConfirmations
    BY DEF IInv
  <1>2. QED
    BY <1>1, Inductive, PTL
-----------------------------------------------------------------------------
(* The freeze *)

\* The row of i changes, or is new, though it is not withdrawn: then neither of its
\* endpoints is in a closed period.
Frozen == \A i \in 1..Len(reconciliations') :
              i \notin Ids \/ reconciliations'[i] # reconciliations[i]
                  => \/ reconciliations'[i].status = "withdrawn"
                     \/ LET pair == reconciliations'[i].tuple
                        IN  {PeriodOf[pair.left], PeriodOf[pair.right]} \cap closed = {}

LEMMA FrozenStep ==
    ASSUME ReconciliationsAssumption, TypeOK, RowsInv, [Next]_vars
    PROVE  Frozen \/ UNCHANGED vars
  <1>1. CASE ProposeStep
    <2>1. PICK a \in Proposers, t \in Pairs, r \in Requests, pred \in {0} \cup Ids, amount \in Amounts :
              ProposeReconciliation(a, t, amount, pred, r)
      BY <1>1 DEF ProposeStep
    <2> DEFINE new == Len(reconciliations) + 1
    <2>2. /\ Ids' = Ids \cup {new} /\ reconciliations'[new] = NewRow(a, t, amount, pred)
          /\ \A k \in Ids : SameProposal(reconciliations[k], reconciliations'[k])
          /\ \A k \in Ids : k # pred => reconciliations'[k] = reconciliations[k]
      BY <2>1, ProposeFields
    <2> HIDE DEF new
    <2>8. \A k \in Ids : reconciliations'[k].tuple = reconciliations[k].tuple
      BY <2>2 DEF SameProposal
    <2>3. reconciliations'[new].tuple = t
      BY <2>2 DEF NewRow
    <2>4. {PeriodOf[t.left], PeriodOf[t.right]} \cap closed = {}
      BY <2>1 DEF ProposeReconciliation, Writable
    <2>5. \A k \in Ids : k = pred => reconciliations[k].tuple = t
      <3>1. \A k \in Ids : k # 0
        BY DEF Ids
      <3>2. QED
        BY <2>1, <3>1 DEF ProposeReconciliation, MayCorrect
    <2>6. \A i \in Ids' : i \notin Ids \/ reconciliations'[i] # reconciliations[i]
                              => reconciliations'[i].tuple = t
      BY <2>2, <2>3, <2>5, <2>8
    <2>7. QED
      BY <2>4, <2>6 DEF Frozen, Ids
  <1>2. CASE ConfirmStep
    <2>1. PICK p \in People, j \in Ids, r \in Requests : ConfirmReconciliation(p, j, r)
      BY <1>2 DEF ConfirmStep
    <2> DEFINE pair == reconciliations[j].tuple
    <2>2. {PeriodOf[pair.left], PeriodOf[pair.right]} \cap closed = {}
      BY <2>1 DEF ConfirmReconciliation, Adjudicable, Writable
    <2>3. \A i \in Ids' : i \notin Ids \/ reconciliations'[i] # reconciliations[i]
                              => reconciliations'[i].tuple = pair
      <3>1. CASE SupersedesConfirmed(j)
        <4>1. reconciliations[j].pred # 0
          BY <3>1 DEF SupersedesConfirmed
        <4>2. reconciliations[reconciliations[j].pred].tuple = pair
          BY <4>1 DEF RowsInv, SameTuple
        <4>3. \A k \in Ids : k # j /\ k # reconciliations[j].pred =>
                                reconciliations'[k] = reconciliations[k]
          BY <2>1, <3>1, ConfirmFields
        <4>4. Ids' = Ids /\ \A k \in Ids : reconciliations'[k].tuple = reconciliations[k].tuple
          BY <2>1, <3>1, ConfirmTuples
        <4>5. QED
          BY <4>2, <4>3, <4>4
      <3>2. CASE ~SupersedesConfirmed(j)
        BY <2>1, <3>2, ConfirmCloses DEF Closing, SameProposal
      <3>3. QED
        BY <3>1, <3>2
    <2> HIDE DEF pair
    <2>4. QED
      BY <2>2, <2>3 DEF Frozen, Ids, pair
  <1>3. CASE RejectStep
    <2>1. PICK p \in People, j \in Ids, r \in Requests : RejectReconciliation(p, j, r)
      BY <1>3 DEF RejectStep
    <2>2. /\ Ids' = Ids /\ reconciliations'[j].tuple = reconciliations[j].tuple
          /\ \A k \in Ids : k # j => reconciliations'[k] = reconciliations[k]
      BY <2>1, RejectCloses DEF Closing, SameProposal
    <2>3. Writable(reconciliations[j].tuple)
      BY <2>1 DEF RejectReconciliation, Adjudicable
    <2>4. QED
      BY <2>2, <2>3 DEF Frozen, Writable, Ids
  <1>4. CASE WithdrawStep
    BY <1>4, WithdrawCloses DEF WithdrawStep, Closing, Frozen, Ids
  <1>5. CASE TogglePeriod
    BY <1>5 DEF TogglePeriod, Frozen, Ids
  <1>7. CASE RelateStep
    BY <1>7 DEF RelateStep, RelateElsewhere, Frozen, Ids
  <1>6. QED
    BY <1>1, <1>2, <1>3, <1>4, <1>5, <1>7 DEF Next

\* A pair that straddles two periods is frozen when either of them is closed, but
\* for the withdrawal of its open proposals.
THEOREM EitherClosedPeriodFreezes ==
    ASSUME ReconciliationsAssumption
    PROVE  Spec => EitherPeriodFreezes
  <1>1. IInv /\ [Next]_vars => [Frozen]_vars
    BY FrozenStep DEF IInv
  <1>2. QED
    BY <1>1, Inductive, PTL DEF Spec, EitherPeriodFreezes, Frozen

-----------------------------------------------------------------------------
(* The refinement *)

\* What the abstract adjudication sees of the rows.
Seen(row) == [tuple |-> row.tuple, status |-> row.status, succ |-> row.succ]
View      == [i \in Ids |-> [tuple |-> reconciliations[i].tuple, status |-> reconciliations[i].status,
                             succ |-> reconciliations[i].succ]]
Entities  == [tuple : Pairs, status : Statuses, succ : Nat]

Viewed == /\ View \in Seq(Entities) /\ Len(View) = Len(reconciliations) /\ Ids = 1..Len(View)
          /\ \A j \in Ids : /\ View[j] \in Entities
                            /\ View[j].tuple = reconciliations[j].tuple
                            /\ View[j].status = reconciliations[j].status
                            /\ View[j].succ = reconciliations[j].succ

LEMMA ViewIsSequence == TypeOK => Viewed
  <1> SUFFICES ASSUME TypeOK PROVE Viewed
    OBVIOUS
  <1>1. \A j \in Ids : Seen(reconciliations[j]) \in Entities
    BY RowFacts DEF Seen, Entities, Rows
  <1>2. View = [j \in 1..Len(reconciliations) |-> Seen(reconciliations[j])] /\ Len(reconciliations) \in Nat
    BY DEF View, Seen, Ids, TypeOK
  <1>3. View \in Seq(Entities) /\ Len(View) = Len(reconciliations) /\ Ids = 1..Len(View)
        /\ \A j \in Ids : View[j] = Seen(reconciliations[j])
    BY <1>1, <1>2 DEF Ids
  <1>4. \A j \in Ids : /\ View[j] \in Entities
                       /\ View[j].tuple = reconciliations[j].tuple
                       /\ View[j].status = reconciliations[j].status
                       /\ View[j].succ = reconciliations[j].succ
    <2>1. \A j \in Ids : /\ Seen(reconciliations[j]).tuple = reconciliations[j].tuple
                         /\ Seen(reconciliations[j]).status = reconciliations[j].status
                         /\ Seen(reconciliations[j]).succ = reconciliations[j].succ
      BY DEF Seen
    <2>2. QED
      BY <1>1, <1>3, <2>1
  <1>5. QED
    BY <1>3, <1>4 DEF Viewed

\* Entities are told apart by their fields.
LEMMA EntityEqual ==
    ASSUME NEW e \in Entities, NEW f \in Entities,
           e.tuple = f.tuple, e.status = f.status, e.succ = f.succ
    PROVE  e = f
  BY DEF Entities

LEMMA ViewInit == Init => View = <<>>
  <1> SUFFICES ASSUME Init PROVE View = <<>>
    OBVIOUS
  <1>1. Ids = 1..0
    BY DEF Init, Ids
  <1>2. QED
    BY <1>1 DEF View

\* An entity of the abstract machine is closed.
LEMMA EntityClosed ==
    ASSUME NEW es \in Seq(Entities), NEW i \in 1..Len(es), NEW status \in Statuses
    PROVE  LET done == [es EXCEPT ![i].status = status] IN
           /\ done \in Seq(Entities) /\ Len(done) = Len(es)
           /\ \A k \in 1..Len(es) : done[k] = IF k = i THEN [es[i] EXCEPT !.status = status] ELSE es[k]
  <1> DEFINE row == [es[i] EXCEPT !.status = status]
  <1>1. row \in Entities
    <2>1. es[i] \in Entities
      OBVIOUS
    <2>2. QED
      BY <2>1 DEF Entities
  <1>2. [es EXCEPT ![i].status = status] = [es EXCEPT ![i] = row]
    OBVIOUS
  <1> HIDE DEF row
  <1>3. /\ [es EXCEPT ![i] = row] \in Seq(Entities) /\ Len([es EXCEPT ![i] = row]) = Len(es)
        /\ \A k \in 1..Len(es) : [es EXCEPT ![i] = row][k] = IF k = i THEN row ELSE es[k]
    BY <1>1, ExceptSeq
  <1>4. QED
    BY <1>2, <1>3 DEF row

\* An entity of the abstract machine is superseded.
LEMMA EntitySuperseded ==
    ASSUME NEW es \in Seq(Entities), NEW i \in 1..Len(es), NEW j \in Nat
    PROVE  LET done == Promise!Superseded(es, i, j) IN
           /\ done \in Seq(Entities) /\ Len(done) = Len(es)
           /\ \A k \in 1..Len(es) :
                  done[k] = IF k = i THEN [es[i] EXCEPT !.status = "superseded", !.succ = j] ELSE es[k]
  <1> DEFINE row == [es[i] EXCEPT !.status = "superseded", !.succ = j]
  <1>1. row \in Entities /\ es[i] \in Entities
    <2>1. es[i] \in Entities
      OBVIOUS
    <2>2. QED
      BY <2>1 DEF Entities, Statuses
  <1>2. Promise!Superseded(es, i, j) = [es EXCEPT ![i] = row]
    BY <1>1 DEF Promise!Superseded, Entities
  <1> HIDE DEF row
  <1>3. /\ [es EXCEPT ![i] = row] \in Seq(Entities) /\ Len([es EXCEPT ![i] = row]) = Len(es)
        /\ \A k \in 1..Len(es) : [es EXCEPT ![i] = row][k] = IF k = i THEN row ELSE es[k]
    BY <1>1, ExceptSeq
  <1>4. QED
    BY <1>2, <1>3 DEF row

\* The abstract machine proposes, in a free tuple or in the place of an open entity.
LEMMA ProposeImplements ==
    ASSUME ReconciliationsAssumption, TypeOK, Viewed, Viewed', NEW a \in Proposers, NEW t \in Pairs,
           NEW amount \in Amounts, NEW r \in Requests, NEW pred \in {0} \cup Ids,
           ProposeReconciliation(a, t, amount, pred, r)
    PROVE  Promise!Next
  <1> DEFINE new == Len(reconciliations) + 1
             proposal == Promise!Proposal(t)
  <1>1. /\ View \in Seq(Entities) /\ View' \in Seq(Entities) /\ Len(View) \in Nat
        /\ new = Len(View) + 1 /\ Ids = 1..Len(View) /\ Len(View') = new
    <2>1. Len(reconciliations') = new
      BY ProposeRows
    <2>2. Len(reconciliations) \in Nat
      BY DEF TypeOK
    <2>3. QED
      BY <2>1, <2>2 DEF Viewed
  <1>2. /\ Ids' = Ids \cup {new} /\ new \notin Ids /\ new \in Nat
        /\ reconciliations'[new] = NewRow(a, t, amount, pred)
        /\ \A k \in Ids : SameProposal(reconciliations[k], reconciliations'[k])
        /\ \A k \in Ids : (k = pred /\ reconciliations[pred].status = "proposed") =>
                             reconciliations'[k].status = "superseded" /\ reconciliations'[k].succ = new
        /\ \A k \in Ids : ~(k = pred /\ reconciliations[pred].status = "proposed") =>
                             reconciliations'[k] = reconciliations[k]
    BY ProposeFields
  <1>2a. \A k \in Ids : reconciliations'[k].tuple = reconciliations[k].tuple
    BY <1>2 DEF SameProposal
  <1> HIDE DEF new
  <1>3. proposal \in Entities
    BY DEF Promise!Proposal, Entities, Statuses
  <1>4. proposal = View'[new]
    <2>1. /\ reconciliations'[new].tuple = t
          /\ reconciliations'[new].status = "proposed"
          /\ reconciliations'[new].succ = 0
      BY <1>2 DEF NewRow
    <2>2. View'[new] \in Entities /\ View'[new].tuple = t /\ View'[new].status = "proposed"
          /\ View'[new].succ = 0
      BY <1>2, <1>2a, <2>1 DEF Viewed
    <2>3. proposal.tuple = t /\ proposal.status = "proposed" /\ proposal.succ = 0
      BY DEF Promise!Proposal
    <2> HIDE DEF proposal
    <2>4. QED
      BY <1>3, <2>2, <2>3, EntityEqual
  <1> HIDE DEF proposal
  <1>5. \A k \in Ids : ~(k = pred /\ reconciliations[pred].status = "proposed") => View'[k] = View[k]
    <2> SUFFICES ASSUME NEW k \in Ids, ~(k = pred /\ reconciliations[pred].status = "proposed")
                 PROVE  View'[k] = View[k]
      OBVIOUS
    <2>0. k \in Ids' /\ reconciliations'[k] = reconciliations[k]
      BY <1>2
    <2>1. /\ View'[k] \in Entities /\ View[k] \in Entities
          /\ View'[k].tuple = View[k].tuple /\ View'[k].status = View[k].status
          /\ View'[k].succ = View[k].succ
      BY <2>0 DEF Viewed
    <2>2. QED
      BY <2>1, EntityEqual
  <1>6. CASE SupersedesNow(pred)
    <2>1. pred \in Ids /\ reconciliations[pred].status = "proposed" /\ reconciliations[pred].tuple = t
      BY <1>6 DEF SupersedesNow, ProposeReconciliation, MayCorrect
    <2>2. View[pred] \in Entities /\ View[pred].status = "proposed" /\ View[pred].tuple = t
      BY <2>1 DEF Viewed
    <2> DEFINE old == Promise!Superseded(View, pred, new)
               row == [View[pred] EXCEPT !.status = "superseded", !.succ = new]
    <2>3. /\ old \in Seq(Entities) /\ Len(old) = Len(View)
          /\ \A k \in 1..Len(View) : old[k] = IF k = pred THEN row ELSE View[k]
      <3>1. pred \in 1..Len(View) /\ new \in Nat
        BY <1>1, <1>2, <2>1
      <3>2. QED
        BY <1>1, <3>1, EntitySuperseded, ZenonT(30)
    <2>4. View'[pred] = row
      <3>1. row \in Entities /\ row.tuple = t /\ row.status = "superseded" /\ row.succ = new
        BY <1>2, <2>2 DEF Entities, Statuses
      <3>2. View'[pred] \in Entities /\ View'[pred].tuple = t /\ View'[pred].status = "superseded"
            /\ View'[pred].succ = new
        BY <1>2, <1>2a, <2>1 DEF Viewed
      <3> HIDE DEF row
      <3>3. QED
        BY <3>1, <3>2, EntityEqual
    <2> HIDE DEF old, row
    <2>5. \A k \in Ids : old[k] = View'[k]
      BY <1>1, <1>5, <2>3, <2>4
    <2> DEFINE next == Append(old, proposal)
    <2>6. next \in Seq(Entities) /\ Len(next) = Len(old) + 1 /\ next[Len(old) + 1] = proposal
          /\ \A k \in 1..Len(old) : next[k] = old[k]
      BY <1>3, <2>3, AppendProperties
    <2> HIDE DEF next
    <2>7. Len(next) = new /\ \A k \in 1..new : next[k] = View'[k]
      BY <1>1, <1>4, <2>3, <2>5, <2>6
    <2>8. View' = next
      BY <1>1, <2>6, <2>7, SeqEqual
    <2>9. View' = Append(Promise!Superseded(View, pred, Len(View) + 1), Promise!Proposal(View[pred].tuple))
      BY <1>1, <2>2, <2>8 DEF next, old, proposal
    <2>10. Promise!Replace(pred)
      BY <2>2, <2>9 DEF Promise!Replace, View
    <2>11. pred \in Promise!Ids
      BY <1>1, <2>1 DEF Promise!Ids, View
    <2>12. QED
      BY <2>10, <2>11 DEF Promise!Next
  <1>7. CASE ~SupersedesNow(pred)
    <2>1. \A k \in Ids : View'[k] = View[k]
      BY <1>5, <1>7 DEF SupersedesNow, Ids
    <2> DEFINE next == Append(View, proposal)
    <2>2. next \in Seq(Entities) /\ Len(next) = Len(View) + 1 /\ next[Len(View) + 1] = proposal
          /\ \A k \in 1..Len(View) : next[k] = View[k]
      BY <1>1, <1>3, AppendProperties
    <2> HIDE DEF next
    <2>3. Len(next) = new /\ \A k \in 1..new : next[k] = View'[k]
      BY <1>1, <1>4, <2>1, <2>2
    <2>4. View' = next
      BY <1>1, <2>2, <2>3, SeqEqual
    <2>5. ~\E k \in Ids : reconciliations[k].tuple = t /\ reconciliations[k].status = "proposed"
      BY <1>7 DEF SupersedesNow, ProposeReconciliation, TupleFree, Ids
    <2>6. ~\E k \in 1..Len(View) : View[k].tuple = t /\ View[k].status = "proposed"
      BY <1>1, <2>5 DEF Viewed
    <2>7. Promise!Propose(t)
      BY <2>4, <2>6 DEF Promise!Propose, Promise!IsOpen, Promise!Ids, View, next, proposal
    <2>8. QED
      BY <2>7 DEF Promise!Next
  <1>8. QED
    BY <1>6, <1>7

\* Rejecting, withdrawing and confirming without a predecessor close one entity.
LEMMA ClosingImplements ==
    ASSUME Viewed, Viewed', NEW j \in Ids, NEW judge,
           NEW status \in {"rejected", "withdrawn", "confirmed"}, Closing(j, status, judge)
    PROVE  Promise!Next
  <1>1. /\ View \in Seq(Entities) /\ View' \in Seq(Entities) /\ Ids = 1..Len(View)
        /\ Len(View) \in Nat /\ Len(View') \in Nat /\ 1..Len(View) = 1..Len(View')
    BY DEF Viewed, Closing
  <1>2. Len(View') = Len(View)
    BY <1>1
  <1> DEFINE done == [View EXCEPT ![j].status = status]
             row == [View[j] EXCEPT !.status = status]
  <1>3. status \in Statuses
    BY DEF Statuses
  <1>4. /\ done \in Seq(Entities) /\ Len(done) = Len(View)
        /\ \A k \in 1..Len(View) : done[k] = IF k = j THEN row ELSE View[k]
    BY <1>1, <1>3, EntityClosed
  <1>5. \A k \in Ids : /\ View[k] \in Entities /\ View'[k] \in Entities
                       /\ View'[k].tuple = View[k].tuple /\ View'[k].succ = View[k].succ
                       /\ View'[k].status = IF k = j THEN status ELSE View[k].status
    BY DEF Viewed, Closing, SameProposal
  <1>6. View'[j] = row
    <2>1. row \in Entities /\ row.tuple = View[j].tuple /\ row.status = status /\ row.succ = View[j].succ
      BY <1>3, <1>5 DEF Entities
    <2> HIDE DEF row
    <2>2. QED
      BY <1>5, <2>1, EntityEqual
  <1>7. \A k \in Ids : k # j => View'[k] = View[k]
    BY <1>5, EntityEqual
  <1> HIDE DEF done, row
  <1>8. \A k \in 1..Len(done) : done[k] = View'[k]
    BY <1>1, <1>4, <1>6, <1>7
  <1>9. View' = done
    BY <1>1, <1>2, <1>4, <1>8, SeqEqual
  <1>10. View[j].status = "proposed"
    BY DEF Viewed, Closing
  <1>11. Promise!Close(j, status)
    BY <1>9, <1>10 DEF Promise!Close, View, done
  <1>12. QED
    BY <1>1, <1>11 DEF Promise!Next, Promise!Ids, View

\* Confirming the correction of a confirmed reconciliation takes its place.
LEMMA CorrectionImplements ==
    ASSUME TypeOK, RowsInv, Viewed, Viewed', NEW p \in People, NEW j \in Ids, NEW r \in Requests,
           ConfirmReconciliation(p, j, r), SupersedesConfirmed(j)
    PROVE  Promise!Next
  <1> DEFINE pred == reconciliations[j].pred
  <1>1. /\ Ids' = Ids /\ pred \in Ids /\ pred < j /\ j \in Nat
        /\ reconciliations[j].status = "proposed" /\ reconciliations[pred].status = "confirmed"
        /\ \A k \in Ids : reconciliations'[k].tuple = reconciliations[k].tuple
        /\ reconciliations'[j].status = "confirmed" /\ reconciliations'[j].succ = reconciliations[j].succ
        /\ reconciliations'[pred].status = "superseded" /\ reconciliations'[pred].succ = j
        /\ \A k \in Ids : k # j /\ k # pred => reconciliations'[k] = reconciliations[k]
    BY ConfirmFields, ConfirmTuples
  <1>2. reconciliations[pred].tuple = reconciliations[j].tuple
    BY <1>1 DEF RowsInv, SameTuple, SupersedesConfirmed
  <1> HIDE DEF pred
  <1>3. /\ View \in Seq(Entities) /\ View' \in Seq(Entities) /\ Ids = 1..Len(View)
        /\ Len(View) \in Nat /\ Len(View') = Len(View)
    BY ConfirmRows DEF Viewed
  <1> DEFINE done == [View EXCEPT ![j].status = "confirmed"]
             row == [View[j] EXCEPT !.status = "confirmed"]
             next == Promise!Superseded(done, pred, j)
             old == [done[pred] EXCEPT !.status = "superseded", !.succ = j]
  <1>4. /\ done \in Seq(Entities) /\ Len(done) = Len(View)
        /\ \A k \in 1..Len(View) : done[k] = IF k = j THEN row ELSE View[k]
    <2>1. "confirmed" \in Statuses
      BY DEF Statuses
    <2>2. QED
      BY <1>3, <2>1, EntityClosed
  <1> HIDE DEF done
  <1>5. /\ next \in Seq(Entities) /\ Len(next) = Len(done)
        /\ \A k \in 1..Len(done) : next[k] = IF k = pred THEN old ELSE done[k]
    <2>1. pred \in 1..Len(done) /\ j \in Nat
      BY <1>1, <1>3, <1>4
    <2>2. QED
      BY <1>4, <2>1, EntitySuperseded, ZenonT(30)
  <1>6. \A k \in Ids : /\ View[k] \in Entities /\ View'[k] \in Entities
                       /\ View'[k].tuple = View[k].tuple
                       /\ k # j /\ k # pred => View'[k] = View[k]
    <2>1. \A k \in Ids : k # j /\ k # pred =>
             /\ View[k] \in Entities /\ View'[k] \in Entities /\ View'[k].tuple = View[k].tuple
             /\ View'[k].status = View[k].status /\ View'[k].succ = View[k].succ
      BY <1>1 DEF Viewed
    <2>2. \A k \in Ids : View[k] \in Entities /\ View'[k] \in Entities
                         /\ View'[k].tuple = View[k].tuple
      BY <1>1 DEF Viewed
    <2>3. QED
      BY <2>1, <2>2, EntityEqual
  <1>7. /\ View[j].status = "proposed" /\ View[pred].status = "confirmed"
        /\ View[pred].tuple = View[j].tuple
        /\ View'[j].status = "confirmed" /\ View'[j].succ = View[j].succ
        /\ View'[pred].status = "superseded" /\ View'[pred].succ = j
    BY <1>1, <1>2 DEF Viewed
  <1>8. View'[j] = row
    <2>1. /\ row \in Entities
          /\ row.tuple = View[j].tuple
          /\ row.status = "confirmed"
          /\ row.succ = View[j].succ
      BY <1>6 DEF Entities, Statuses
    <2> HIDE DEF row
    <2>2. QED
      BY <1>6, <1>7, <2>1, EntityEqual
  <1>9. View'[pred] = old
    <2>1. done[pred] = View[pred]
      BY <1>1, <1>3, <1>4
    <2>2. old \in Entities /\ old.tuple = View[pred].tuple /\ old.status = "superseded" /\ old.succ = j
      BY <1>1, <1>6, <2>1 DEF Entities, Statuses
    <2> HIDE DEF old
    <2>3. QED
      BY <1>1, <1>6, <1>7, <2>2, EntityEqual
  <1> HIDE DEF row, old, next
  <1>10. \A k \in 1..Len(next) : next[k] = View'[k]
    BY <1>1, <1>3, <1>4, <1>5, <1>6, <1>8, <1>9
  <1>11. View' = next
    BY <1>3, <1>4, <1>5, <1>10, SeqEqual
  <1>12. PICK i \in Ids : i = pred
    BY <1>1
  <1>13. Promise!ConfirmCorrection(j, i)
    BY <1>1, <1>7, <1>11, <1>12 DEF Promise!ConfirmCorrection, View, next, done
  <1>14. j \in Promise!Ids /\ i \in Promise!Ids
    BY <1>1, <1>3, <1>12 DEF Promise!Ids, View
  <1>15. QED
    BY <1>13, <1>14 DEF Promise!Next

LEMMA Implements ==
    ASSUME ReconciliationsAssumption, TypeOK, RowsInv, Viewed, Viewed', [Next]_vars
    PROVE  Promise!Next \/ UNCHANGED View
  <1>1. CASE ProposeStep
    BY <1>1, ProposeImplements DEF ProposeStep
  <1>2. CASE ConfirmStep
    <2>1. PICK p \in People, j \in Ids, r \in Requests : ConfirmReconciliation(p, j, r)
      BY <1>2 DEF ConfirmStep
    <2>2. CASE SupersedesConfirmed(j)
      BY <2>1, <2>2, CorrectionImplements
    <2>3. CASE ~SupersedesConfirmed(j)
      BY <2>1, <2>3, ConfirmCloses, ClosingImplements
    <2>4. QED
      BY <2>2, <2>3
  <1>3. CASE RejectStep
    BY <1>3, RejectCloses, ClosingImplements DEF RejectStep
  <1>4. CASE WithdrawStep
    BY <1>4, WithdrawCloses, ClosingImplements DEF WithdrawStep
  <1>5. CASE TogglePeriod \/ UNCHANGED vars
    BY <1>5 DEF TogglePeriod, vars, View, Ids
  <1>7. CASE RelateStep
    BY <1>7 DEF RelateStep, RelateElsewhere, View, Ids
  <1>6. QED
    BY <1>1, <1>2, <1>3, <1>4, <1>5, <1>7 DEF Next

\* Reconciliations implement the machine that judgments implement: every command is
\* one of its steps or leaves what it sees of the rows.
THEOREM ReconciliationsImplementAdjudication ==
    ASSUME ReconciliationsAssumption
    PROVE  Spec => ImplementsAdjudication
  <1>1. Init => Promise!Init
    BY ViewInit DEF Promise!Init, View
  <1>2. IInv /\ IInv' /\ [Next]_vars => [Promise!Next]_View
    <2>1. IInv => Viewed
      BY ViewIsSequence DEF IInv
    <2>2. IInv' => Viewed'
      BY <2>1, PTL
    <2>3. QED
      BY <2>1, <2>2, Implements DEF IInv
  <1>3. QED
    BY <1>1, <1>2, Inductive, PTL DEF Spec, ImplementsAdjudication, Promise!Spec, View

-----------------------------------------------------------------------------
(* Together *)

\* A reconciliation is adjudicated by the machine of judgments, and only while the
\* periods of both its endpoints are open.
THEOREM PairsAdjudicated ==
    ASSUME ReconciliationsAssumption
    PROVE  Spec => PairsAreAdjudicated
  BY ReconciliationsImplementAdjudication, EitherClosedPeriodFreezes DEF PairsAreAdjudicated

=============================================================================
