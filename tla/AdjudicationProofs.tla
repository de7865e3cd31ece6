------------------------- MODULE AdjudicationProofs -------------------------
(***************************************************************************)
(* Theorems about Judgments, for every number of tuples, people, requests  *)
(* and judgments: the safety invariants, and that judgments implement the  *)
(* abstract adjudication.  Theorems about ReviewVelocity, for every window, *)
(* both thresholds, any number of reviewers and however long the clock     *)
(* stands still: no burst of approvals goes unreported, and a run of       *)
(* rejections and returns raises one alert.  And the composition: the      *)
(* instance for TLC behaves as its three parts do, so that the theorems    *)
(* about the parts hold of it.                                             *)
(***************************************************************************)
EXTENDS MCAdjudication, SequenceTheorems, FiniteSetTheorems, TLAPS

-----------------------------------------------------------------------------
(* What a command does to the rows, row by row *)

\* A row that judgment j takes the place of.
Replaced(row, j) == [row EXCEPT !.status = "superseded", !.succ = j]

\* A decided row.
Settled(row, p, status) == [row EXCEPT !.status = status, !.judge = p]

\* One row of a sequence of rows is replaced.
LEMMA RowUpdate ==
    ASSUME NEW s \in Seq(JudgmentRows), NEW j \in 1..Len(s), NEW row \in JudgmentRows
    PROVE  /\ [s EXCEPT ![j] = row] \in Seq(JudgmentRows)
           /\ Len([s EXCEPT ![j] = row]) = Len(s)
           /\ \A k \in 1..Len(s) : [s EXCEPT ![j] = row][k] = IF k = j THEN row ELSE s[k]
  OBVIOUS

\* A row is appended to a sequence of rows.
LEMMA RowAppend ==
    ASSUME NEW s \in Seq(JudgmentRows), NEW row \in JudgmentRows
    PROVE  /\ Append(s, row) \in Seq(JudgmentRows)
           /\ Len(Append(s, row)) = Len(s) + 1
           /\ Append(s, row)[Len(s) + 1] = row
           /\ \A k \in 1..Len(s) : Append(s, row)[k] = s[k]
  OBVIOUS

\* The row a proposal inserts.
NewRow(a, t, pred) == [tuple |-> t, by |-> a, pred |-> pred, status |-> "proposed",
                       succ |-> 0, judge |-> "nobody"]

\* The rows after a proposal: its own is new, and it takes the place of an open
\* predecessor.
LEMMA ProposeRows ==
    ASSUME TypeOK, NEW a \in Proposers, NEW t \in Tuples, NEW r \in Requests,
           NEW pred \in {0} \cup Ids, ProposeJudgment(a, t, pred, r)
    PROVE  /\ judgments' \in Seq(JudgmentRows)
           /\ Len(judgments') = Len(judgments) + 1
           /\ judgments'[Len(judgments) + 1] = NewRow(a, t, pred)
           /\ \A k \in Ids : judgments'[k] = IF k = pred /\ judgments[pred].status = "proposed"
                                             THEN Replaced(judgments[k], Len(judgments) + 1)
                                             ELSE judgments[k]
  <1> DEFINE j == Len(judgments) + 1
             row == NewRow(a, t, pred)
  <1>1. row \in JudgmentRows /\ judgments \in Seq(JudgmentRows) /\ j \in Nat
    BY DEF NewRow, JudgmentRows, Ids, Statuses, TypeOK
  <1>2. CASE SupersedesNow(pred)
    <2>1. pred \in 1..Len(judgments) /\ judgments[pred] \in JudgmentRows
      BY <1>1, <1>2 DEF SupersedesNow, Ids
    <2> DEFINE old == Replaced(judgments[pred], j)
               s == [judgments EXCEPT ![pred] = old]
    <2>2. old \in JudgmentRows
      BY <2>1, <1>1 DEF Replaced, JudgmentRows, Statuses
    <2>3. SupersedeProposedPredecessor(pred, j) = s
      BY <2>1, <1>1 DEF SupersedeProposedPredecessor, Replaced, JudgmentRows
    <2>4. judgments' = Append(s, row)
      BY <1>2, <2>3 DEF ProposeJudgment, NewRow
    <2>5. s \in Seq(JudgmentRows) /\ Len(s) = Len(judgments)
          /\ \A k \in 1..Len(judgments) : s[k] = IF k = pred THEN old ELSE judgments[k]
      BY <1>1, <2>1, <2>2, RowUpdate
    <2> HIDE DEF s, old, row
    <2>6. Append(s, row) \in Seq(JudgmentRows) /\ Len(Append(s, row)) = Len(s) + 1
          /\ Append(s, row)[Len(s) + 1] = row /\ \A k \in 1..Len(s) : Append(s, row)[k] = s[k]
      BY <1>1, <2>5, RowAppend
    <2>7. QED
      BY <1>2, <2>4, <2>5, <2>6 DEF SupersedesNow, Ids, old, row
  <1>3. CASE ~SupersedesNow(pred)
    <2>1. judgments' = Append(judgments, row)
      BY <1>3 DEF ProposeJudgment, NewRow
    <2> HIDE DEF row
    <2>2. judgments' \in Seq(JudgmentRows) /\ Len(judgments') = j
          /\ judgments'[j] = row /\ \A k \in 1..Len(judgments) : judgments'[k] = judgments[k]
      BY <1>1, <2>1, RowAppend
    <2>3. \A k \in Ids : k = pred => judgments[pred].status # "proposed"
      BY <1>1, <1>3 DEF SupersedesNow, Ids
    <2>4. QED
      BY <2>2, <2>3 DEF Ids, row
  <1>4. QED
    BY <1>2, <1>3

\* The rows after a rejection or a withdrawal: one row changes.
LEMMA RejectRows ==
    ASSUME TypeOK, NEW p \in People, NEW j \in Ids, NEW r \in Requests, RejectJudgment(p, j, r)
    PROVE  /\ judgments' \in Seq(JudgmentRows) /\ Len(judgments') = Len(judgments)
           /\ \A k \in Ids : judgments'[k] = IF k = j THEN Settled(judgments[j], p, "rejected")
                                             ELSE judgments[k]
  <1> DEFINE row == Settled(judgments[j], p, "rejected")
  <1>1. judgments \in Seq(JudgmentRows) /\ j \in 1..Len(judgments) /\ judgments[j] \in JudgmentRows
    BY DEF TypeOK, Ids
  <1>2. row \in JudgmentRows
    BY <1>1 DEF Settled, JudgmentRows, Statuses
  <1>3. judgments' = [judgments EXCEPT ![j] = row]
    BY <1>1 DEF RejectJudgment, Decided, Settled, JudgmentRows
  <1> HIDE DEF row
  <1>4. QED
    BY <1>1, <1>2, <1>3, RowUpdate DEF Ids, row

LEMMA WithdrawRows ==
    ASSUME TypeOK, NEW a \in Proposers, NEW j \in Ids, NEW r \in Requests, WithdrawJudgment(a, j, r)
    PROVE  /\ judgments' \in Seq(JudgmentRows) /\ Len(judgments') = Len(judgments)
           /\ \A k \in Ids : judgments'[k] = IF k = j THEN [judgments[j] EXCEPT !.status = "withdrawn"]
                                             ELSE judgments[k]
  <1> DEFINE row == [judgments[j] EXCEPT !.status = "withdrawn"]
  <1>1. judgments \in Seq(JudgmentRows) /\ j \in 1..Len(judgments) /\ judgments[j] \in JudgmentRows
    BY DEF TypeOK, Ids
  <1>2. row \in JudgmentRows
    BY <1>1 DEF JudgmentRows, Statuses
  <1>3. judgments' = [judgments EXCEPT ![j] = row]
    BY <1>1 DEF WithdrawJudgment
  <1> HIDE DEF row
  <1>4. QED
    BY <1>1, <1>2, <1>3, RowUpdate DEF Ids, row

\* Confirming j supersedes a confirmed predecessor of j.
SupersedesConfirmed(j) == judgments[j].pred # 0 /\ judgments[judgments[j].pred].status = "confirmed"

\* The rows after a confirmation: its own, and that of the predecessor it supersedes.
LEMMA ConfirmRows ==
    ASSUME TypeOK, NEW p \in People, NEW j \in Ids, NEW r \in Requests, ConfirmJudgment(p, j, r)
    PROVE  /\ judgments' \in Seq(JudgmentRows) /\ Len(judgments') = Len(judgments)
           /\ judgments[j].pred < j
           /\ \A k \in Ids :
                judgments'[k] = IF k = j THEN Settled(judgments[j], p, "confirmed")
                                ELSE IF k = judgments[j].pred /\ SupersedesConfirmed(j)
                                THEN Replaced(judgments[k], j)
                                ELSE judgments[k]
  <1> DEFINE row == Settled(judgments[j], p, "confirmed")
             pred == judgments[j].pred
             done == [judgments EXCEPT ![j] = row]
  <1>1. /\ judgments \in Seq(JudgmentRows) /\ j \in 1..Len(judgments) /\ judgments[j] \in JudgmentRows
        /\ pred \in 0..(j - 1) /\ j \in Nat
    BY DEF TypeOK, Ids
  <1>2. row \in JudgmentRows
    BY <1>1 DEF Settled, JudgmentRows, Statuses
  <1>3. Decided(j, p, "confirmed") = done
    BY <1>1 DEF Decided, Settled, JudgmentRows
  <1> HIDE DEF row
  <1>4. done \in Seq(JudgmentRows) /\ Len(done) = Len(judgments)
        /\ \A k \in 1..Len(judgments) : done[k] = IF k = j THEN row ELSE judgments[k]
    BY <1>1, <1>2, RowUpdate
  <1> HIDE DEF done
  <1>5. CASE SupersedesConfirmed(j)
    <2> DEFINE old == Replaced(judgments[pred], j)
    <2>1. pred \in 1..Len(judgments) /\ pred # j /\ judgments[pred] \in JudgmentRows
          /\ done[pred] = judgments[pred]
      BY <1>1, <1>4, <1>5 DEF SupersedesConfirmed
    <2>2. old \in JudgmentRows
      BY <1>1, <2>1 DEF Replaced, JudgmentRows, Statuses
    <2>3. judgments' = [done EXCEPT ![pred] = old]
      BY <1>3, <1>4, <1>5, <2>1 DEF ConfirmJudgment, SupersedesConfirmed, Replaced, JudgmentRows
    <2> HIDE DEF old
    <2>4. judgments' \in Seq(JudgmentRows) /\ Len(judgments') = Len(judgments)
          /\ \A k \in 1..Len(judgments) : judgments'[k] = IF k = pred THEN old ELSE done[k]
      BY <1>4, <2>1, <2>2, <2>3, RowUpdate
    <2>5. QED
      BY <1>1, <1>4, <1>5, <2>1, <2>4 DEF Ids, old, row
  <1>6. CASE ~SupersedesConfirmed(j)
    <2>1. judgments' = done
      BY <1>3, <1>6 DEF ConfirmJudgment, SupersedesConfirmed
    <2>2. QED
      BY <1>1, <1>4, <1>6, <2>1 DEF Ids, row
  <1>7. QED
    BY <1>5, <1>6


-----------------------------------------------------------------------------
(* Type correctness *)

\* The part of TypeOK that is about the row of judgment j.
RowOK(j) == LET row == judgments[j] IN
              /\ row.pred \in 0..(j - 1) /\ row.succ \in {0} \cup (j + 1)..Len(judgments)
              /\ row.status \in {"confirmed", "rejected"} => row.judge # "nobody"

\* Any command writes one key and appends well-typed events.
LEMMA KeyTyped ==
    ASSUME keys \subseteq KeyRows, \A k \in keys : k.judgment \in Ids,
           Len(judgments) \in Nat, Len(judgments') \in Nat, Len(judgments) <= Len(judgments'),
           NEW r \in Requests, NEW c \in {"propose", "confirm", "reject", "withdraw"},
           NEW a \in Proposers \cup People, NEW j \in 1..Len(judgments'),
           keys' = keys \cup {Key(r, c, a, j)}
    PROVE  keys' \subseteq KeyRows /\ \A k \in keys' : k.judgment \in Ids'
  <1>1. Key(r, c, a, j) \in KeyRows /\ Key(r, c, a, j).judgment = j
    BY DEF Key, KeyRows
  <1>2. QED
    BY <1>1 DEF Ids

LEMMA EventTyped ==
    ASSUME NEW j \in Nat, NEW from \in Statuses, NEW to \in Statuses, NEW r \in Requests
    PROVE  Event(j, from, to, r) \in EventRows
  BY DEF Event, EventRows

LEMMA TypeInit == Init => TypeOK
  <1> SUFFICES ASSUME Init PROVE TypeOK
    OBVIOUS
  <1>1. <<>> \in Seq(JudgmentRows) /\ <<>> \in Seq(EventRows) /\ Len(<<>>) = 0
    OBVIOUS
  <1>2. judgments \in Seq(JudgmentRows) /\ Len(judgments) = 0 /\ log \in Seq(EventRows)
    BY <1>1 DEF Init
  <1>3. ~\E j \in Ids : TRUE
    BY <1>2 DEF Ids
  <1>4. keys = {} /\ relations = {} /\ closed = FALSE /\ 0 <= MaxJudgments
    BY JudgmentsAssumption DEF Init
  <1>5. QED
    BY <1>2, <1>3, <1>4 DEF TypeOK

LEMMA ProposeType ==
    ASSUME TypeOK, NEW a \in Proposers, NEW t \in Tuples, NEW r \in Requests,
           NEW pred \in {0} \cup Ids, ProposeJudgment(a, t, pred, r)
    PROVE  TypeOK'
  <1> DEFINE n == Len(judgments)
  <1>1. /\ judgments' \in Seq(JudgmentRows) /\ Len(judgments') = n + 1
        /\ judgments'[n + 1] = NewRow(a, t, pred)
        /\ \A k \in Ids : judgments'[k] = IF k = pred /\ judgments[pred].status = "proposed"
                                          THEN Replaced(judgments[k], n + 1) ELSE judgments[k]
    BY ProposeRows
  <1>2. n \in Nat /\ \A k \in 1..n : judgments[k] \in JudgmentRows /\ RowOK(k)
    BY DEF TypeOK, Ids, RowOK
  <1>3. \A k \in 1..(n + 1) : RowOK(k)'
    <2> SUFFICES ASSUME NEW k \in 1..(n + 1) PROVE RowOK(k)'
      OBVIOUS
    <2>1. CASE k = n + 1
      BY <1>1, <1>2, <2>1 DEF NewRow, RowOK, Ids
    <2>2. CASE k # n + 1 /\ ~(k = pred /\ judgments[pred].status = "proposed")
      <3>1. k \in Ids /\ RowOK(k) /\ judgments[k] \in JudgmentRows
        BY <1>2, <2>2 DEF Ids
      <3>2. judgments'[k] = judgments[k]
        BY <1>1, <2>2, <3>1
      <3>3. QED
        BY <1>1, <1>2, <3>1, <3>2 DEF RowOK
    <2>3. CASE k # n + 1 /\ k = pred /\ judgments[pred].status = "proposed"
      <3>1. k \in Ids /\ judgments[k] \in JudgmentRows /\ RowOK(k)
        BY <1>2, <2>3 DEF Ids
      <3>2. judgments'[k].pred = judgments[k].pred /\ judgments'[k].succ = n + 1
            /\ judgments'[k].status = "superseded"
        BY <1>1, <2>3, <3>1 DEF Replaced, JudgmentRows
      <3>3. QED
        BY <1>1, <1>2, <2>3, <3>1, <3>2 DEF RowOK
    <2>4. QED
      BY <2>1, <2>2, <2>3
  <1>4. keys' \subseteq KeyRows /\ \A k \in keys' : k.judgment \in Ids'
    <2>1. keys' = keys \cup {Key(r, "propose", a, n + 1)} /\ n + 1 \in 1..Len(judgments')
      BY <1>1, <1>2 DEF ProposeJudgment
    <2>2. QED
      BY <1>1, <1>2, <2>1, KeyTyped DEF TypeOK
  <1>5. log' \in Seq(EventRows)
    <2>1. Event(pred, "proposed", "superseded", r) \in EventRows
      BY <1>2, EventTyped DEF Statuses, Ids
    <2>2. QED
      BY <2>1 DEF ProposeJudgment, TypeOK
  <1>6. QED
    BY <1>1, <1>3, <1>4, <1>5 DEF ProposeJudgment, TypeOK, Ids, RowOK

LEMMA RejectType ==
    ASSUME TypeOK, NEW p \in People, NEW j \in Ids, NEW r \in Requests, RejectJudgment(p, j, r)
    PROVE  TypeOK'
  <1>1. /\ judgments' \in Seq(JudgmentRows) /\ Len(judgments') = Len(judgments)
        /\ \A k \in Ids : judgments'[k] = IF k = j THEN Settled(judgments[j], p, "rejected")
                                          ELSE judgments[k]
    BY RejectRows
  <1>2. Len(judgments) \in Nat /\ \A k \in Ids : judgments[k] \in JudgmentRows /\ RowOK(k)
    BY DEF TypeOK, Ids, RowOK
  <1>3. \A k \in Ids : RowOK(k)'
    <2>1. judgments'[j].pred = judgments[j].pred /\ judgments'[j].succ = judgments[j].succ
          /\ judgments'[j].judge = p
      BY <1>1, <1>2 DEF Settled, JudgmentRows
    <2>2. QED
      BY <1>1, <1>2, <2>1, JudgmentsAssumption DEF RowOK
  <1>4. keys' \subseteq KeyRows /\ \A k \in keys' : k.judgment \in Ids'
    BY <1>1, <1>2, KeyTyped DEF TypeOK, RejectJudgment, Ids
  <1>5. log' \in Seq(EventRows)
    BY EventTyped DEF RejectJudgment, TypeOK, Statuses, Ids
  <1>6. QED
    BY <1>1, <1>3, <1>4, <1>5 DEF RejectJudgment, TypeOK, Ids, RowOK

LEMMA WithdrawType ==
    ASSUME TypeOK, NEW a \in Proposers, NEW j \in Ids, NEW r \in Requests, WithdrawJudgment(a, j, r)
    PROVE  TypeOK'
  <1>1. /\ judgments' \in Seq(JudgmentRows) /\ Len(judgments') = Len(judgments)
        /\ \A k \in Ids : judgments'[k] = IF k = j THEN [judgments[j] EXCEPT !.status = "withdrawn"]
                                          ELSE judgments[k]
    BY WithdrawRows
  <1>2. Len(judgments) \in Nat /\ \A k \in Ids : judgments[k] \in JudgmentRows /\ RowOK(k)
    BY DEF TypeOK, Ids, RowOK
  <1>3. \A k \in Ids : RowOK(k)'
    <2>1. judgments'[j].pred = judgments[j].pred /\ judgments'[j].succ = judgments[j].succ
          /\ judgments'[j].status = "withdrawn"
      BY <1>1, <1>2 DEF JudgmentRows
    <2>2. QED
      BY <1>1, <1>2, <2>1 DEF RowOK
  <1>4. keys' \subseteq KeyRows /\ \A k \in keys' : k.judgment \in Ids'
    BY <1>1, <1>2, KeyTyped DEF TypeOK, WithdrawJudgment, Ids
  <1>5. log' \in Seq(EventRows)
    BY EventTyped DEF WithdrawJudgment, TypeOK, Statuses, Ids
  <1>6. QED
    BY <1>1, <1>3, <1>4, <1>5 DEF WithdrawJudgment, TypeOK, Ids, RowOK

LEMMA ConfirmType ==
    ASSUME TypeOK, NEW p \in People, NEW j \in Ids, NEW r \in Requests, ConfirmJudgment(p, j, r)
    PROVE  TypeOK'
  <1>1. /\ judgments' \in Seq(JudgmentRows) /\ Len(judgments') = Len(judgments)
        /\ judgments[j].pred < j
        /\ \A k \in Ids :
             judgments'[k] = IF k = j THEN Settled(judgments[j], p, "confirmed")
                             ELSE IF k = judgments[j].pred /\ SupersedesConfirmed(j)
                             THEN Replaced(judgments[k], j) ELSE judgments[k]
    BY ConfirmRows
  <1>2. Len(judgments) \in Nat /\ \A k \in Ids : judgments[k] \in JudgmentRows /\ RowOK(k)
    BY DEF TypeOK, Ids, RowOK
  <1>3. \A k \in Ids : RowOK(k)'
    <2> SUFFICES ASSUME NEW k \in Ids PROVE RowOK(k)'
      OBVIOUS
    <2>1. CASE k = j
      <3>1. judgments'[k].pred = judgments[k].pred /\ judgments'[k].succ = judgments[k].succ
            /\ judgments'[k].judge = p
        BY <1>1, <1>2, <2>1 DEF Settled, JudgmentRows
      <3>2. QED
        BY <1>1, <1>2, <3>1, JudgmentsAssumption DEF RowOK
    <2>2. CASE k # j /\ k = judgments[j].pred /\ SupersedesConfirmed(j)
      <3>1. judgments'[k].pred = judgments[k].pred /\ judgments'[k].succ = j
            /\ judgments'[k].status = "superseded"
        BY <1>1, <1>2, <2>2 DEF Replaced, JudgmentRows
      <3>2. j \in (k + 1)..Len(judgments)
        BY <1>1, <1>2, <2>2 DEF Ids
      <3>3. QED
        BY <1>1, <1>2, <3>1, <3>2 DEF RowOK
    <2>3. CASE k # j /\ ~(k = judgments[j].pred /\ SupersedesConfirmed(j))
      BY <1>1, <1>2, <2>3 DEF RowOK
    <2>4. QED
      BY <2>1, <2>2, <2>3
  <1>4. keys' \subseteq KeyRows /\ \A k \in keys' : k.judgment \in Ids'
    <2>1. keys' = keys \cup {Key(r, "confirm", p, j)}
      BY DEF ConfirmJudgment
    <2>2. keys \subseteq KeyRows /\ \A k \in keys : k.judgment \in Ids
      BY DEF TypeOK
    <2>3. j \in 1..Len(judgments') /\ p \in Proposers \cup People
      BY <1>1 DEF Ids
    <2>4. QED
      BY <1>1, <1>2, <2>1, <2>2, <2>3, KeyTyped
  <1>5. log' \in Seq(EventRows)
    <2>1. Event(j, "proposed", "confirmed", r) \in EventRows
      BY EventTyped DEF Statuses, Ids
    <2>2. Event(judgments[j].pred, "confirmed", "superseded", r) \in EventRows
      BY <1>2, EventTyped DEF Statuses, JudgmentRows
    <2>3. SupersededBy(j, r) \in Seq(EventRows)
      BY <2>2 DEF SupersededBy
    <2>4. QED
      BY <2>1, <2>3 DEF ConfirmJudgment, TypeOK
  <1>6. relations' \subseteq Tuples /\ closed' \in BOOLEAN
    <2>1. judgments[j].tuple \in Tuples
      BY <1>2 DEF JudgmentRows
    <2>2. relations' = relations \cup {judgments[j].tuple} /\ closed' = closed
      BY DEF ConfirmJudgment
    <2>3. QED
      BY <2>1, <2>2 DEF TypeOK
  <1>7. Ids' = Ids /\ Len(judgments') <= MaxJudgments
    BY <1>1 DEF Ids, TypeOK
  <1>8. QED
    BY <1>1, <1>3, <1>4, <1>5, <1>6, <1>7 DEF TypeOK, RowOK

LEMMA TypeStep == TypeOK /\ [Next]_vars => TypeOK'
  <1> SUFFICES ASSUME TypeOK, [Next]_vars PROVE TypeOK'
    OBVIOUS
  <1>1. CASE ProposeStep
    BY <1>1, ProposeType DEF ProposeStep
  <1>2. CASE DecideStep
    BY <1>2, ConfirmType, RejectType DEF DecideStep
  <1>3. CASE WithdrawStep
    BY <1>3, WithdrawType DEF WithdrawStep
  <1>4. CASE TogglePeriod
    BY <1>4 DEF TogglePeriod, TypeOK, Ids
  <1>5. CASE UNCHANGED vars
    BY <1>5 DEF vars, TypeOK, Ids
  <1>6. QED
    BY <1>1, <1>2, <1>3, <1>4, <1>5 DEF Next

\* The tables of judgments stay well typed, with their foreign keys.
THEOREM TypesOfJudgments == Spec => []TypeOK
  BY TypeInit, TypeStep, PTL DEF Spec

-----------------------------------------------------------------------------
(* The invariant of the rows.  No order of corrections strands an open      *)
(* proposal because a tuple has one of them, so that no second correction   *)
(* of the same predecessor is open when the first one is confirmed.         *)

\* A correction is of its predecessor's tuple.
SameTuple == \A j \in Ids : judgments[j].pred # 0 =>
                 judgments[judgments[j].pred].tuple = judgments[j].tuple

\* A tuple has at most one open proposal.
OneOpen == \A i, j \in Ids :
               (/\ judgments[i].status = "proposed" /\ judgments[j].status = "proposed"
                /\ judgments[i].tuple = judgments[j].tuple) => i = j

RowsInv == SameTuple /\ OneOpen /\ OpenCanBeDecided /\ RoutesAreCorrections

\* The facts about one row that the types give.
LEMMA RowFacts ==
    ASSUME TypeOK, NEW j \in Ids
    PROVE  /\ judgments[j] \in JudgmentRows /\ j \in Nat /\ Len(judgments) \in Nat
           /\ 1 <= j /\ j <= Len(judgments)
           /\ judgments[j].pred \in Nat /\ judgments[j].pred < j
           /\ judgments[j].pred # 0 => judgments[j].pred \in Ids
           /\ judgments[j].succ # 0 => judgments[j].succ \in Ids /\ j < judgments[j].succ
  BY DEF TypeOK, Ids

\* The fields of a row after it was replaced, settled or withdrawn.
LEMMA FieldsAfter ==
    ASSUME NEW row \in JudgmentRows, NEW j \in Nat, NEW p \in People, NEW status \in Statuses
    PROVE  /\ Replaced(row, j).tuple = row.tuple /\ Replaced(row, j).pred = row.pred
           /\ Replaced(row, j).by = row.by
           /\ Replaced(row, j).status = "superseded" /\ Replaced(row, j).succ = j
           /\ Settled(row, p, status).tuple = row.tuple /\ Settled(row, p, status).pred = row.pred
           /\ Settled(row, p, status).by = row.by
           /\ Settled(row, p, status).status = status /\ Settled(row, p, status).succ = row.succ
  BY DEF Replaced, Settled, JudgmentRows

\* The row of j is closed with a status, and everything else of it and of the
\* other rows that the invariant reads stays.
Closing(j, status) ==
    /\ Ids' = Ids
    /\ judgments[j].status = "proposed"
    /\ \A k \in Ids : /\ judgments'[k].tuple = judgments[k].tuple
                      /\ judgments'[k].pred = judgments[k].pred
                      /\ judgments'[k].by = judgments[k].by
                      /\ judgments'[k].succ = judgments[k].succ
                      /\ judgments'[k].status = IF k = j THEN status ELSE judgments[k].status

LEMMA RejectCloses ==
    ASSUME TypeOK, NEW p \in People, NEW j \in Ids, NEW r \in Requests, RejectJudgment(p, j, r)
    PROVE  Closing(j, "rejected")
  <1>1. /\ Len(judgments') = Len(judgments)
        /\ \A k \in Ids : judgments'[k] = IF k = j THEN Settled(judgments[j], p, "rejected")
                                          ELSE judgments[k]
    BY RejectRows
  <1>2. \A k \in Ids : judgments[k] \in JudgmentRows
    BY RowFacts
  <1>3. judgments[j].status = "proposed" /\ "rejected" \in Statuses
    BY DEF RejectJudgment, Statuses
  <1>4. judgments'[j] = Settled(judgments[j], p, "rejected")
    BY <1>1
  <1>5. /\ judgments'[j].tuple = judgments[j].tuple /\ judgments'[j].pred = judgments[j].pred
        /\ judgments'[j].by = judgments[j].by /\ judgments'[j].succ = judgments[j].succ
        /\ judgments'[j].status = "rejected"
    BY <1>2, <1>3, <1>4, FieldsAfter
  <1>6. QED
    BY <1>1, <1>3, <1>5 DEF Closing, Ids

LEMMA WithdrawCloses ==
    ASSUME TypeOK, NEW a \in Proposers, NEW j \in Ids, NEW r \in Requests, WithdrawJudgment(a, j, r)
    PROVE  Closing(j, "withdrawn")
  <1>1. /\ Len(judgments') = Len(judgments)
        /\ \A k \in Ids : judgments'[k] = IF k = j THEN [judgments[j] EXCEPT !.status = "withdrawn"]
                                          ELSE judgments[k]
    BY WithdrawRows
  <1>2. judgments[j] \in JudgmentRows /\ judgments[j].status = "proposed"
    BY RowFacts DEF WithdrawJudgment
  <1>3. /\ judgments'[j].tuple = judgments[j].tuple /\ judgments'[j].pred = judgments[j].pred
        /\ judgments'[j].by = judgments[j].by /\ judgments'[j].succ = judgments[j].succ
        /\ judgments'[j].status = "withdrawn"
    BY <1>1, <1>2 DEF JudgmentRows
  <1>4. QED
    BY <1>1, <1>2, <1>3 DEF Closing, Ids

\* Closing one open row preserves the invariant: no open proposal corrects an
\* open one, so none loses its predecessor.
LEMMA ClosingRows ==
    ASSUME TypeOK, RowsInv, NEW j \in Ids, NEW status \in {"rejected", "withdrawn", "confirmed"},
           Closing(j, status)
    PROVE  RowsInv'
  <1>1. SameTuple'
    BY RowFacts DEF Closing, RowsInv, SameTuple
  <1>2. OneOpen'
    BY DEF Closing, RowsInv, OneOpen
  <1>3. OpenCanBeDecided'
    <2> SUFFICES ASSUME NEW i \in Ids, judgments'[i].status = "proposed", judgments'[i].pred # 0
                 PROVE  LET row == judgments'[judgments'[i].pred]
                        IN  row.status = "confirmed" \/ (row.status = "superseded" /\ row.succ = i)
      BY DEF Closing, OpenCanBeDecided
    <2>1. judgments[i].status = "proposed" /\ judgments'[i].pred = judgments[i].pred
          /\ judgments[i].pred \in Ids
      BY RowFacts DEF Closing
    <2>2. QED
      BY <2>1 DEF Closing, RowsInv, OpenCanBeDecided
  <1>4. RoutesAreCorrections'
    <2> SUFFICES ASSUME NEW i \in Ids
                 PROVE  /\ judgments'[i].status = "superseded" => judgments'[i].succ # 0
                        /\ judgments'[i].succ # 0 => /\ judgments'[i].status = "superseded"
                                                     /\ judgments'[judgments'[i].succ].pred = i
      BY DEF Closing, RoutesAreCorrections
    <2>1. judgments'[i].succ = judgments[i].succ
          /\ (judgments[i].succ # 0 => judgments[i].succ \in Ids)
      BY RowFacts DEF Closing
    <2>2. QED
      BY <2>1 DEF Closing, RowsInv, RoutesAreCorrections
  <1>5. QED
    BY <1>1, <1>2, <1>3, <1>4 DEF RowsInv

\* What the invariant reads of the rows after a proposal.
LEMMA ProposeFields ==
    ASSUME TypeOK, NEW a \in Proposers, NEW t \in Tuples, NEW r \in Requests,
           NEW pred \in {0} \cup Ids, ProposeJudgment(a, t, pred, r)
    PROVE  LET new == Len(judgments) + 1 IN
           /\ new \in Nat /\ Ids' = Ids \cup {new} /\ new \notin Ids /\ new # 0
           /\ judgments'[new] = NewRow(a, t, pred)
           /\ \A k \in Ids : /\ judgments'[k].tuple = judgments[k].tuple
                             /\ judgments'[k].pred = judgments[k].pred
                             /\ judgments'[k].by = judgments[k].by
           /\ \A k \in Ids : (k = pred /\ judgments[pred].status = "proposed") =>
                                judgments'[k].status = "superseded" /\ judgments'[k].succ = new
           /\ \A k \in Ids : ~(k = pred /\ judgments[pred].status = "proposed") =>
                                judgments'[k] = judgments[k]
  <1> DEFINE new == Len(judgments) + 1
  <1>1. /\ Len(judgments') = new /\ judgments'[new] = NewRow(a, t, pred)
        /\ \A k \in Ids : judgments'[k] = IF k = pred /\ judgments[pred].status = "proposed"
                                          THEN Replaced(judgments[k], new) ELSE judgments[k]
    BY ProposeRows
  <1>2. Len(judgments) \in Nat /\ \A k \in Ids : judgments[k] \in JudgmentRows
    BY RowFacts DEF TypeOK
  <1>3. Ids' = Ids \cup {new} /\ new \notin Ids /\ new # 0 /\ new \in Nat
    BY <1>1, <1>2 DEF Ids
  <1>4. \A k \in Ids : ~(k = pred /\ judgments[pred].status = "proposed") =>
                           judgments'[k] = judgments[k]
    BY <1>1
  <1>5. ASSUME NEW k \in Ids, k = pred, judgments[pred].status = "proposed"
        PROVE  /\ judgments'[k].status = "superseded" /\ judgments'[k].succ = new
               /\ judgments'[k].tuple = judgments[k].tuple /\ judgments'[k].pred = judgments[k].pred
               /\ judgments'[k].by = judgments[k].by
    <2>1. judgments'[k] = Replaced(judgments[k], new)
      BY <1>1, <1>5
    <2> HIDE DEF new
    <2>2. QED
      BY <1>2, <1>3, <2>1 DEF Replaced, JudgmentRows
  <1> HIDE DEF new
  <1>6. QED
    BY <1>1, <1>3, <1>4, <1>5 DEF new

LEMMA ProposeInv ==
    ASSUME TypeOK, RowsInv, NEW a \in Proposers, NEW t \in Tuples, NEW r \in Requests,
           NEW pred \in {0} \cup Ids, ProposeJudgment(a, t, pred, r)
    PROVE  RowsInv'
  <1> DEFINE new == Len(judgments) + 1
             Takes(k) == k = pred /\ judgments[pred].status = "proposed"
  <1>1. /\ new \in Nat /\ Ids' = Ids \cup {new} /\ new \notin Ids /\ new # 0
        /\ judgments'[new] = NewRow(a, t, pred)
        /\ \A k \in Ids : /\ judgments'[k].tuple = judgments[k].tuple
                          /\ judgments'[k].pred = judgments[k].pred
                          /\ judgments'[k].by = judgments[k].by
        /\ \A k \in Ids : Takes(k) => judgments'[k].status = "superseded" /\ judgments'[k].succ = new
        /\ \A k \in Ids : ~Takes(k) => judgments'[k] = judgments[k]
    BY ProposeFields
  <1>2. /\ judgments'[new].tuple = t /\ judgments'[new].pred = pred
        /\ judgments'[new].status = "proposed" /\ judgments'[new].succ = 0
    BY <1>1 DEF NewRow
  <1>3. /\ pred # 0 => /\ pred \in Ids /\ judgments[pred].tuple = t
                       /\ judgments[pred].status \in {"confirmed", "proposed"}
        /\ \A k \in Ids : (judgments[k].tuple = t /\ judgments[k].status = "proposed") => k = pred
    BY DEF ProposeJudgment, MayCorrect, Open
  <1>4. 0 \notin Ids
    BY DEF Ids
  <1> HIDE DEF new
  <1>5. SameTuple'
    <2> SUFFICES ASSUME NEW j \in Ids', judgments'[j].pred # 0
                 PROVE  judgments'[judgments'[j].pred].tuple = judgments'[j].tuple
      BY DEF SameTuple
    <2>1. CASE j = new
      BY <1>1, <1>2, <1>3, <2>1
    <2>2. CASE j \in Ids
      BY <1>1, <2>2, RowFacts DEF RowsInv, SameTuple
    <2>3. QED
      BY <1>1, <2>1, <2>2
  <1>6. OneOpen'
    <2>1. \A k \in Ids : judgments'[k].status = "proposed" =>
                           judgments[k].status = "proposed" /\ ~Takes(k)
      BY <1>1
    <2>2. \A k \in Ids : judgments'[k].status = "proposed" => judgments'[k].tuple # t
      BY <1>1, <1>3, <2>1
    <2>3. QED
      BY <1>1, <1>2, <2>1, <2>2 DEF RowsInv, OneOpen
  <1>7. OpenCanBeDecided'
    <2> SUFFICES ASSUME NEW j \in Ids', judgments'[j].status = "proposed", judgments'[j].pred # 0
                 PROVE  LET row == judgments'[judgments'[j].pred]
                        IN  row.status = "confirmed" \/ (row.status = "superseded" /\ row.succ = j)
      BY DEF OpenCanBeDecided
    <2>1. CASE j = new
      BY <1>1, <1>2, <1>3, <2>1
    <2>2. CASE j \in Ids
      <3>1. judgments[j].status = "proposed" /\ judgments'[j].pred = judgments[j].pred
            /\ judgments[j].pred \in Ids
        BY <1>1, <2>2, RowFacts
      <3>2. LET row == judgments[judgments[j].pred]
            IN  row.status = "confirmed" \/ (row.status = "superseded" /\ row.succ = j)
        BY <2>2, <3>1, <1>4 DEF RowsInv, OpenCanBeDecided
      <3>3. ~Takes(judgments[j].pred)
        BY <3>2
      <3>4. QED
        BY <1>1, <3>1, <3>2, <3>3
    <2>3. QED
      BY <1>1, <2>1, <2>2
  <1>8. RoutesAreCorrections'
    <2> SUFFICES ASSUME NEW j \in Ids'
                 PROVE  /\ judgments'[j].status = "superseded" => judgments'[j].succ # 0
                        /\ judgments'[j].succ # 0 => /\ judgments'[j].status = "superseded"
                                                     /\ judgments'[judgments'[j].succ].pred = j
      BY DEF RoutesAreCorrections
    <2>1. CASE j = new
      BY <1>2, <2>1
    <2>2. CASE j \in Ids /\ Takes(j)
      BY <1>1, <1>2, <2>2
    <2>3. CASE j \in Ids /\ ~Takes(j)
      BY <1>1, <2>3, RowFacts DEF RowsInv, RoutesAreCorrections
    <2>4. QED
      BY <1>1, <2>1, <2>2, <2>3
  <1>9. QED
    BY <1>5, <1>6, <1>7, <1>8 DEF RowsInv

\* What the invariant reads of the rows after a confirmation that supersedes.
LEMMA ConfirmFields ==
    ASSUME TypeOK, NEW p \in People, NEW j \in Ids, NEW r \in Requests, ConfirmJudgment(p, j, r),
           SupersedesConfirmed(j)
    PROVE  LET pred == judgments[j].pred IN
           /\ Ids' = Ids /\ pred \in Ids /\ pred < j /\ j \in Nat /\ j # 0
           /\ judgments[j].status = "proposed" /\ judgments[pred].status = "confirmed"
           /\ \A k \in Ids : /\ judgments'[k].tuple = judgments[k].tuple
                             /\ judgments'[k].pred = judgments[k].pred
                             /\ judgments'[k].by = judgments[k].by
           /\ judgments'[j].status = "confirmed" /\ judgments'[j].succ = judgments[j].succ
           /\ judgments'[pred].status = "superseded" /\ judgments'[pred].succ = j
           /\ \A k \in Ids : k # j /\ k # pred => judgments'[k] = judgments[k]
  <1> DEFINE pred == judgments[j].pred
  <1>1. /\ Len(judgments') = Len(judgments)
        /\ \A k \in Ids : judgments'[k] = IF k = j THEN Settled(judgments[j], p, "confirmed")
                                          ELSE IF k = judgments[j].pred /\ SupersedesConfirmed(j)
                                          THEN Replaced(judgments[k], j) ELSE judgments[k]
    BY ConfirmRows
  <1>2. /\ pred \in Ids /\ pred < j /\ j \in Nat /\ pred \in Nat /\ j # 0
        /\ judgments[pred].status = "confirmed" /\ judgments[j].status = "proposed"
    BY RowFacts DEF SupersedesConfirmed, ConfirmJudgment, Ids
  <1>3. judgments'[j] = Settled(judgments[j], p, "confirmed")
        /\ judgments'[pred] = Replaced(judgments[pred], j)
    BY <1>1, <1>2
  <1>4. judgments[j] \in JudgmentRows /\ judgments[pred] \in JudgmentRows
    BY <1>2, RowFacts
  <1>5. /\ judgments'[j].status = "confirmed" /\ judgments'[j].succ = judgments[j].succ
        /\ judgments'[j].tuple = judgments[j].tuple /\ judgments'[j].pred = judgments[j].pred
        /\ judgments'[j].by = judgments[j].by
    BY <1>3, <1>4 DEF Settled, JudgmentRows
  <1>6. /\ judgments'[pred].status = "superseded" /\ judgments'[pred].succ = j
        /\ judgments'[pred].tuple = judgments[pred].tuple
        /\ judgments'[pred].pred = judgments[pred].pred /\ judgments'[pred].by = judgments[pred].by
    BY <1>3, <1>4 DEF Replaced, JudgmentRows
  <1>7. \A k \in Ids : k # j /\ k # pred => judgments'[k] = judgments[k]
    BY <1>1
  <1> HIDE DEF pred
  <1>8. \A k \in Ids : /\ judgments'[k].tuple = judgments[k].tuple
                       /\ judgments'[k].pred = judgments[k].pred
                       /\ judgments'[k].by = judgments[k].by
    BY <1>5, <1>6, <1>7
  <1>9. Ids' = Ids
    BY <1>1 DEF Ids
  <1>10. QED
    BY <1>2, <1>5, <1>6, <1>7, <1>8, <1>9 DEF pred

LEMMA ConfirmCloses ==
    ASSUME TypeOK, NEW p \in People, NEW j \in Ids, NEW r \in Requests, ConfirmJudgment(p, j, r),
           ~SupersedesConfirmed(j)
    PROVE  Closing(j, "confirmed")
  <1>1. /\ Len(judgments') = Len(judgments)
        /\ \A k \in Ids : judgments'[k] = IF k = j THEN Settled(judgments[j], p, "confirmed")
                                          ELSE judgments[k]
    BY ConfirmRows
  <1>2. judgments[j] \in JudgmentRows /\ judgments[j].status = "proposed"
    BY RowFacts DEF ConfirmJudgment
  <1>3. /\ judgments'[j].tuple = judgments[j].tuple /\ judgments'[j].pred = judgments[j].pred
        /\ judgments'[j].by = judgments[j].by /\ judgments'[j].succ = judgments[j].succ
        /\ judgments'[j].status = "confirmed"
    BY <1>1, <1>2 DEF Settled, JudgmentRows
  <1>4. QED
    BY <1>1, <1>2, <1>3 DEF Closing, Ids

LEMMA ConfirmInv ==
    ASSUME TypeOK, RowsInv, NEW p \in People, NEW j \in Ids, NEW r \in Requests,
           ConfirmJudgment(p, j, r)
    PROVE  RowsInv'
  <1>1. CASE ~SupersedesConfirmed(j)
    BY <1>1, ConfirmCloses, ClosingRows
  <1>2. CASE SupersedesConfirmed(j)
    <2> DEFINE pred == judgments[j].pred
    <2>1. /\ Ids' = Ids /\ pred \in Ids /\ pred < j /\ j \in Nat /\ j # 0
          /\ judgments[j].status = "proposed" /\ judgments[pred].status = "confirmed"
          /\ \A k \in Ids : /\ judgments'[k].tuple = judgments[k].tuple
                            /\ judgments'[k].pred = judgments[k].pred
                            /\ judgments'[k].by = judgments[k].by
          /\ judgments'[j].status = "confirmed" /\ judgments'[j].succ = judgments[j].succ
          /\ judgments'[pred].status = "superseded" /\ judgments'[pred].succ = j
          /\ \A k \in Ids : k # j /\ k # pred => judgments'[k] = judgments[k]
      BY <1>2, ConfirmFields
    <2> HIDE DEF pred
    <2>2. pred # 0 /\ judgments[j].pred = pred
      BY <2>1 DEF pred, Ids
    <2>3. SameTuple'
      BY <2>1, RowFacts DEF RowsInv, SameTuple
    <2>4. \A i \in Ids : judgments'[i].status = "proposed" =>
                           i # j /\ i # pred /\ judgments[i].status = "proposed"
                           /\ judgments'[i] = judgments[i]
      BY <2>1
    <2>5. OneOpen'
      BY <2>1, <2>4 DEF RowsInv, OneOpen
    <2>6. OpenCanBeDecided'
      <3> SUFFICES ASSUME NEW i \in Ids, judgments'[i].status = "proposed", judgments'[i].pred # 0
                   PROVE  LET row == judgments'[judgments'[i].pred]
                          IN  row.status = "confirmed" \/ (row.status = "superseded" /\ row.succ = i)
        BY <2>1 DEF OpenCanBeDecided
      <3>1. /\ i # j /\ judgments[i].status = "proposed" /\ judgments'[i].pred = judgments[i].pred
            /\ judgments[i].pred \in Ids
        BY <2>1, <2>4, RowFacts
      <3>2. judgments[i].pred # j
        BY <2>1, <3>1, <2>2 DEF RowsInv, OpenCanBeDecided, Ids
      <3>3. ASSUME judgments[i].pred = pred PROVE FALSE
        <4>1. /\ judgments[i].tuple = judgments[pred].tuple
              /\ judgments[j].tuple = judgments[pred].tuple
          BY <2>2, <3>3 DEF RowsInv, SameTuple
        <4>2. i = j
          BY <2>1, <3>1, <4>1 DEF RowsInv, OneOpen
        <4>3. QED
          BY <3>1, <4>2
      <3>4. QED
        BY <2>1, <3>1, <3>2, <3>3 DEF RowsInv, OpenCanBeDecided, Ids
    <2>7. RoutesAreCorrections'
      <3> SUFFICES ASSUME NEW i \in Ids
                   PROVE  /\ judgments'[i].status = "superseded" => judgments'[i].succ # 0
                          /\ judgments'[i].succ # 0 => /\ judgments'[i].status = "superseded"
                                                       /\ judgments'[judgments'[i].succ].pred = i
        BY <2>1 DEF RoutesAreCorrections
      <3>1. CASE i = j
        BY <2>1, <3>1 DEF RowsInv, RoutesAreCorrections
      <3>2. CASE i = pred
        BY <2>1, <2>2, <3>2
      <3>3. CASE i # j /\ i # pred
        <4>1. judgments'[i] = judgments[i]
          BY <2>1, <3>3
        <4>2. judgments[i].succ # 0 => judgments'[judgments[i].succ].pred = judgments[judgments[i].succ].pred
          BY <2>1, RowFacts
        <4>3. QED
          BY <4>1, <4>2 DEF RowsInv, RoutesAreCorrections
      <3>4. QED
        BY <3>1, <3>2, <3>3
    <2>8. QED
      BY <2>3, <2>5, <2>6, <2>7 DEF RowsInv
  <1>3. QED
    BY <1>1, <1>2

-----------------------------------------------------------------------------
(* Retries *)

\* A command that is not a proposal keeps the answers of the proposals' keys.
LEMMA KeysStay ==
    ASSUME TypeOK, RetryFindsOwnProposal, \A k \in Ids : judgments'[k].by = judgments[k].by,
           NEW key, key.command # "propose", keys' = keys \cup {key}
    PROVE  RetryFindsOwnProposal'
  <1>1. \A k \in keys : k.judgment \in Ids
    BY DEF TypeOK
  <1>2. QED
    BY <1>1 DEF RetryFindsOwnProposal, ReplayOf

LEMMA RetryStep ==
    ASSUME TypeOK, RetryFindsOwnProposal, [Next]_vars
    PROVE  RetryFindsOwnProposal'
  <1>1. ASSUME NEW a \in Proposers, NEW t \in Tuples, NEW r \in Requests, NEW pred \in {0} \cup Ids,
               ProposeJudgment(a, t, pred, r)
        PROVE  RetryFindsOwnProposal'
    <2> DEFINE new == Len(judgments) + 1
               key == Key(r, "propose", a, new)
    <2>1. /\ new \notin Ids /\ judgments'[new] = NewRow(a, t, pred)
          /\ \A k \in Ids : judgments'[k].by = judgments[k].by
      BY <1>1, ProposeFields
    <2>2. judgments'[new].by = a
      BY <2>1 DEF NewRow
    <2>3. keys' = keys \cup {key} /\ key.judgment = new /\ key.actor = a
      BY <1>1 DEF ProposeJudgment, Key
    <2>4. \A k \in keys : k.judgment \in Ids
      BY DEF TypeOK
    <2> HIDE DEF new, key
    <2>5. QED
      BY <2>1, <2>2, <2>3, <2>4 DEF RetryFindsOwnProposal, ReplayOf
  <1>2. ASSUME NEW p \in People, NEW j \in Ids, NEW r \in Requests, RejectJudgment(p, j, r)
        PROVE  RetryFindsOwnProposal'
    <2>1. Closing(j, "rejected")
      BY <1>2, RejectCloses
    <2>2. keys' = keys \cup {Key(r, "reject", p, j)} /\ Key(r, "reject", p, j).command # "propose"
      BY <1>2 DEF RejectJudgment, Key
    <2>3. QED
      BY <2>1, <2>2, KeysStay DEF Closing
  <1>3. ASSUME NEW a \in Proposers, NEW j \in Ids, NEW r \in Requests, WithdrawJudgment(a, j, r)
        PROVE  RetryFindsOwnProposal'
    <2>1. Closing(j, "withdrawn")
      BY <1>3, WithdrawCloses
    <2>2. keys' = keys \cup {Key(r, "withdraw", a, j)} /\ Key(r, "withdraw", a, j).command # "propose"
      BY <1>3 DEF WithdrawJudgment, Key
    <2>3. QED
      BY <2>1, <2>2, KeysStay DEF Closing
  <1>4. ASSUME NEW p \in People, NEW j \in Ids, NEW r \in Requests, ConfirmJudgment(p, j, r)
        PROVE  RetryFindsOwnProposal'
    <2>1. \A k \in Ids : judgments'[k].by = judgments[k].by
      <3>1. CASE SupersedesConfirmed(j)
        BY <1>4, <3>1, ConfirmFields
      <3>2. CASE ~SupersedesConfirmed(j)
        BY <1>4, <3>2, ConfirmCloses DEF Closing
      <3>3. QED
        BY <3>1, <3>2
    <2>2. keys' = keys \cup {Key(r, "confirm", p, j)} /\ Key(r, "confirm", p, j).command # "propose"
      BY <1>4 DEF ConfirmJudgment, Key
    <2>3. QED
      BY <2>1, <2>2, KeysStay
  <1>5. CASE TogglePeriod
    BY <1>5 DEF TogglePeriod, RetryFindsOwnProposal, ReplayOf
  <1>6. CASE UNCHANGED vars
    BY <1>6 DEF vars, RetryFindsOwnProposal, ReplayOf
  <1>7. QED
    BY <1>1, <1>2, <1>3, <1>4, <1>5, <1>6 DEF Next, ProposeStep, DecideStep, WithdrawStep

-----------------------------------------------------------------------------
(* The theorems *)

IInv == TypeOK /\ RowsInv /\ RetryFindsOwnProposal

LEMMA IInvInit == Init => IInv
  <1> SUFFICES ASSUME Init PROVE IInv
    OBVIOUS
  <1>1. judgments = <<>> /\ Len(<<>>) = 0 /\ keys = {}
    BY DEF Init
  <1>2. ~\E j \in Ids : TRUE
    BY <1>1 DEF Ids
  <1>3. RowsInv
    BY <1>2 DEF RowsInv, SameTuple, OneOpen, OpenCanBeDecided, RoutesAreCorrections
  <1>4. QED
    BY <1>1, <1>3, TypeInit DEF IInv, RetryFindsOwnProposal

LEMMA IInvStep == IInv /\ [Next]_vars => IInv'
  <1> SUFFICES ASSUME TypeOK, RowsInv, RetryFindsOwnProposal, [Next]_vars PROVE IInv'
    BY DEF IInv
  <1>1. RowsInv'
    <2>1. CASE ProposeStep
      BY <2>1, ProposeInv DEF ProposeStep
    <2>2. CASE DecideStep
      BY <2>2, ConfirmInv, RejectCloses, ClosingRows DEF DecideStep
    <2>3. CASE WithdrawStep
      BY <2>3, WithdrawCloses, ClosingRows DEF WithdrawStep
    <2>4. CASE TogglePeriod
      BY <2>4 DEF TogglePeriod, RowsInv, SameTuple, OneOpen, OpenCanBeDecided, RoutesAreCorrections, Ids
    <2>5. CASE UNCHANGED vars
      BY <2>5 DEF vars, RowsInv, SameTuple, OneOpen, OpenCanBeDecided, RoutesAreCorrections, Ids
    <2>6. QED
      BY <2>1, <2>2, <2>3, <2>4, <2>5 DEF Next
  <1>2. QED
    BY <1>1, TypeStep, RetryStep DEF IInv

LEMMA Inductive == Spec => []IInv
  BY IInvInit, IInvStep, PTL DEF Spec

\* No order of proposals, corrections and decisions strands an open proposal:
\* its predecessor is confirmed still, or was routed to it.
THEOREM OpenJudgmentsCanBeDecided == Spec => []OpenCanBeDecided
  <1>1. IInv => OpenCanBeDecided
    BY DEF IInv, RowsInv
  <1>2. QED
    BY <1>1, Inductive, PTL

\* A superseded judgment routes to a correction that names it.
THEOREM SupersessionRoutes == Spec => []RoutesAreCorrections
  <1>1. IInv => RoutesAreCorrections
    BY DEF IInv, RowsInv
  <1>2. QED
    BY <1>1, Inductive, PTL

\* The retry of a proposal is answered with the judgment it made and no other.
THEOREM RetriesFindTheirProposal == Spec => []RetryFindsOwnProposal
  <1>1. IInv => RetryFindsOwnProposal
    BY DEF IInv
  <1>2. QED
    BY <1>1, Inductive, PTL

-----------------------------------------------------------------------------
(* A closed period *)

LEMMA FrozenStep ==
    ASSUME TypeOK, [Next]_vars, closed
    PROVE  /\ Len(judgments') = Len(judgments) /\ relations' = relations
           /\ \A j \in Ids : judgments'[j] # judgments[j] => judgments'[j].status = "withdrawn"
  <1>1. ASSUME NEW a \in Proposers, NEW j \in Ids, NEW r \in Requests, WithdrawJudgment(a, j, r)
        PROVE  /\ Len(judgments') = Len(judgments) /\ relations' = relations
               /\ \A k \in Ids : judgments'[k] # judgments[k] => judgments'[k].status = "withdrawn"
    <2>1. /\ Len(judgments') = Len(judgments)
          /\ \A k \in Ids : k # j => judgments'[k] = judgments[k]
      BY <1>1, WithdrawRows
    <2>2. judgments'[j].status = "withdrawn"
      BY <1>1, WithdrawCloses DEF Closing
    <2>3. relations' = relations
      BY <1>1 DEF WithdrawJudgment
    <2>4. QED
      BY <2>1, <2>2, <2>3
  <1>2. ~ProposeStep /\ ~DecideStep
    BY DEF ProposeStep, DecideStep, ProposeJudgment, ConfirmJudgment, RejectJudgment
  <1>3. CASE WithdrawStep
    BY <1>1, <1>3 DEF WithdrawStep
  <1>4. CASE TogglePeriod
    BY <1>4 DEF TogglePeriod
  <1>5. CASE UNCHANGED vars
    BY <1>5 DEF vars
  <1>6. QED
    BY <1>2, <1>3, <1>4, <1>5 DEF Next

\* In a closed period a judgment can be withdrawn and nothing else happens.
THEOREM ClosedPeriodsFreezeJudgments == Spec => ClosedPeriodIsFrozen
  <1>1. IInv /\ [Next]_vars =>
          [closed => /\ Len(judgments') = Len(judgments) /\ relations' = relations
                     /\ \A j \in Ids : judgments'[j] # judgments[j]
                                           => judgments'[j].status = "withdrawn"]_vars
    BY FrozenStep DEF IInv
  <1>2. QED
    BY <1>1, Inductive, PTL DEF Spec, ClosedPeriodIsFrozen

-----------------------------------------------------------------------------
(* The refinement *)

\* What the abstract adjudication sees of the rows.
Seen(row) == [tuple |-> row.tuple, status |-> row.status, succ |-> row.succ]
View      == [j \in Ids |-> [tuple |-> judgments[j].tuple, status |-> judgments[j].status,
                             succ |-> judgments[j].succ]]
Entities  == [tuple : Tuples, status : Statuses, succ : Nat]

Viewed == /\ View \in Seq(Entities) /\ Len(View) = Len(judgments) /\ Ids = 1..Len(View)
          /\ \A j \in Ids : /\ View[j] \in Entities
                            /\ View[j].tuple = judgments[j].tuple
                            /\ View[j].status = judgments[j].status
                            /\ View[j].succ = judgments[j].succ

LEMMA ViewIsSequence == TypeOK => Viewed
  <1> SUFFICES ASSUME TypeOK PROVE Viewed
    OBVIOUS
  <1>1. \A j \in Ids : Seen(judgments[j]) \in Entities
    BY RowFacts DEF Seen, Entities, JudgmentRows
  <1>2. View = [j \in 1..Len(judgments) |-> Seen(judgments[j])] /\ Len(judgments) \in Nat
    BY DEF View, Seen, Ids, TypeOK
  <1>3. View \in Seq(Entities) /\ Len(View) = Len(judgments) /\ Ids = 1..Len(View)
        /\ \A j \in Ids : View[j] = Seen(judgments[j])
    BY <1>1, <1>2 DEF Ids
  <1>4. \A j \in Ids : /\ View[j] \in Entities
                       /\ View[j].tuple = judgments[j].tuple
                       /\ View[j].status = judgments[j].status
                       /\ View[j].succ = judgments[j].succ
    <2>1. \A j \in Ids : /\ Seen(judgments[j]).tuple = judgments[j].tuple
                         /\ Seen(judgments[j]).status = judgments[j].status
                         /\ Seen(judgments[j]).succ = judgments[j].succ
      BY DEF Seen
    <2>2. QED
      BY <1>1, <1>3, <2>1
  <1>5. QED
    BY <1>3, <1>4 DEF Viewed

\* Entities are told apart by their fields.
LEMMA EntityEqual ==
    ASSUME NEW e \in Entities, NEW f \in Entities,
           e.tuple = f.tuple, e.status = f.status, e.succ = f.succ
    PROVE  e = f
  BY DEF Entities

LEMMA ViewInit == Init => View = <<>>
  <1> SUFFICES ASSUME Init PROVE View = <<>>
    OBVIOUS
  <1>1. Ids = 1..0
    BY DEF Init, Ids
  <1>2. QED
    BY <1>1 DEF View

\* An entity of the abstract machine is closed.
LEMMA EntityClosed ==
    ASSUME NEW es \in Seq(Entities), NEW i \in 1..Len(es), NEW status \in Statuses
    PROVE  LET done == [es EXCEPT ![i].status = status] IN
           /\ done \in Seq(Entities) /\ Len(done) = Len(es)
           /\ \A k \in 1..Len(es) : done[k] = IF k = i THEN [es[i] EXCEPT !.status = status] ELSE es[k]
  <1> DEFINE row == [es[i] EXCEPT !.status = status]
  <1>1. row \in Entities
    <2>1. es[i] \in Entities
      OBVIOUS
    <2>2. QED
      BY <2>1 DEF Entities
  <1>2. [es EXCEPT ![i].status = status] = [es EXCEPT ![i] = row]
    OBVIOUS
  <1> HIDE DEF row
  <1>3. /\ [es EXCEPT ![i] = row] \in Seq(Entities) /\ Len([es EXCEPT ![i] = row]) = Len(es)
        /\ \A k \in 1..Len(es) : [es EXCEPT ![i] = row][k] = IF k = i THEN row ELSE es[k]
    BY <1>1, ExceptSeq
  <1>4. QED
    BY <1>2, <1>3 DEF row

\* An entity of the abstract machine is superseded.
LEMMA EntitySuperseded ==
    ASSUME NEW es \in Seq(Entities), NEW i \in 1..Len(es), NEW j \in Nat
    PROVE  LET done == Promise!Superseded(es, i, j) IN
           /\ done \in Seq(Entities) /\ Len(done) = Len(es)
           /\ \A k \in 1..Len(es) :
                  done[k] = IF k = i THEN [es[i] EXCEPT !.status = "superseded", !.succ = j] ELSE es[k]
  <1> DEFINE row == [es[i] EXCEPT !.status = "superseded", !.succ = j]
  <1>1. row \in Entities /\ es[i] \in Entities
    <2>1. es[i] \in Entities
      OBVIOUS
    <2>2. QED
      BY <2>1 DEF Entities, Statuses
  <1>2. Promise!Superseded(es, i, j) = [es EXCEPT ![i] = row]
    BY <1>1 DEF Promise!Superseded, Entities
  <1> HIDE DEF row
  <1>3. /\ [es EXCEPT ![i] = row] \in Seq(Entities) /\ Len([es EXCEPT ![i] = row]) = Len(es)
        /\ \A k \in 1..Len(es) : [es EXCEPT ![i] = row][k] = IF k = i THEN row ELSE es[k]
    BY <1>1, ExceptSeq
  <1>4. QED
    BY <1>2, <1>3 DEF row

\* The abstract machine proposes, in a free tuple or in the place of an open entity.
LEMMA ProposeImplements ==
    ASSUME TypeOK, Viewed, Viewed', NEW a \in Proposers, NEW t \in Tuples, NEW r \in Requests,
           NEW pred \in {0} \cup Ids, ProposeJudgment(a, t, pred, r)
    PROVE  Promise!Next
  <1> DEFINE new == Len(judgments) + 1
             proposal == Promise!Proposal(t)
  <1>1. /\ View \in Seq(Entities) /\ View' \in Seq(Entities) /\ Len(View) \in Nat
        /\ new = Len(View) + 1 /\ Ids = 1..Len(View) /\ Len(View') = new
    <2>1. Len(judgments') = new
      BY ProposeRows
    <2>2. Len(judgments) \in Nat
      BY DEF TypeOK
    <2>3. QED
      BY <2>1, <2>2 DEF Viewed
  <1>2. /\ Ids' = Ids \cup {new} /\ new \notin Ids /\ new \in Nat /\ judgments'[new] = NewRow(a, t, pred)
        /\ \A k \in Ids : judgments'[k].tuple = judgments[k].tuple
        /\ \A k \in Ids : (k = pred /\ judgments[pred].status = "proposed") =>
                             judgments'[k].status = "superseded" /\ judgments'[k].succ = new
        /\ \A k \in Ids : ~(k = pred /\ judgments[pred].status = "proposed") =>
                             judgments'[k] = judgments[k]
    BY ProposeFields
  <1> HIDE DEF new
  <1>3. proposal \in Entities
    BY DEF Promise!Proposal, Entities, Statuses
  <1>4. proposal = View'[new]
    <2>1. judgments'[new].tuple = t /\ judgments'[new].status = "proposed" /\ judgments'[new].succ = 0
      BY <1>2 DEF NewRow
    <2>2. View'[new] \in Entities /\ View'[new].tuple = t /\ View'[new].status = "proposed"
          /\ View'[new].succ = 0
      BY <1>2, <2>1 DEF Viewed
    <2>3. proposal.tuple = t /\ proposal.status = "proposed" /\ proposal.succ = 0
      BY DEF Promise!Proposal
    <2> HIDE DEF proposal
    <2>4. QED
      BY <1>3, <2>2, <2>3, EntityEqual
  <1> HIDE DEF proposal
  <1>5. \A k \in Ids : ~(k = pred /\ judgments[pred].status = "proposed") => View'[k] = View[k]
    <2> SUFFICES ASSUME NEW k \in Ids, ~(k = pred /\ judgments[pred].status = "proposed")
                 PROVE  View'[k] = View[k]
      OBVIOUS
    <2>0. k \in Ids' /\ judgments'[k] = judgments[k]
      BY <1>2
    <2>1. /\ View'[k] \in Entities /\ View[k] \in Entities
          /\ View'[k].tuple = View[k].tuple /\ View'[k].status = View[k].status
          /\ View'[k].succ = View[k].succ
      BY <2>0 DEF Viewed
    <2>2. QED
      BY <2>1, EntityEqual
  <1>6. CASE SupersedesNow(pred)
    <2>1. pred \in Ids /\ judgments[pred].status = "proposed" /\ judgments[pred].tuple = t
      BY <1>6 DEF SupersedesNow, ProposeJudgment, MayCorrect
    <2>2. View[pred] \in Entities /\ View[pred].status = "proposed" /\ View[pred].tuple = t
      BY <2>1 DEF Viewed
    <2> DEFINE old == Promise!Superseded(View, pred, new)
               row == [View[pred] EXCEPT !.status = "superseded", !.succ = new]
    <2>3. /\ old \in Seq(Entities) /\ Len(old) = Len(View)
          /\ \A k \in 1..Len(View) : old[k] = IF k = pred THEN row ELSE View[k]
      <3>1. pred \in 1..Len(View) /\ new \in Nat
        BY <1>1, <1>2, <2>1
      <3>2. QED
        BY <1>1, <3>1, EntitySuperseded, ZenonT(30)
    <2>4. View'[pred] = row
      <3>1. row \in Entities /\ row.tuple = t /\ row.status = "superseded" /\ row.succ = new
        BY <1>2, <2>2 DEF Entities, Statuses
      <3>2. View'[pred] \in Entities /\ View'[pred].tuple = t /\ View'[pred].status = "superseded"
            /\ View'[pred].succ = new
        BY <1>2, <2>1 DEF Viewed
      <3> HIDE DEF row
      <3>3. QED
        BY <3>1, <3>2, EntityEqual
    <2> HIDE DEF old, row
    <2>5. \A k \in Ids : old[k] = View'[k]
      BY <1>1, <1>5, <2>3, <2>4
    <2> DEFINE next == Append(old, proposal)
    <2>6. next \in Seq(Entities) /\ Len(next) = Len(old) + 1 /\ next[Len(old) + 1] = proposal
          /\ \A k \in 1..Len(old) : next[k] = old[k]
      BY <1>3, <2>3, AppendProperties
    <2> HIDE DEF next
    <2>7. Len(next) = new /\ \A k \in 1..new : next[k] = View'[k]
      BY <1>1, <1>4, <2>3, <2>5, <2>6
    <2>8. View' = next
      BY <1>1, <2>6, <2>7, SeqEqual
    <2>9. View' = Append(Promise!Superseded(View, pred, Len(View) + 1), Promise!Proposal(View[pred].tuple))
      BY <1>1, <2>2, <2>8 DEF next, old, proposal
    <2>10. Promise!Replace(pred)
      BY <2>2, <2>9 DEF Promise!Replace, View
    <2>11. pred \in Promise!Ids
      BY <1>1, <2>1 DEF Promise!Ids, View
    <2>12. QED
      BY <2>10, <2>11 DEF Promise!Next
  <1>7. CASE ~SupersedesNow(pred)
    <2>1. \A k \in Ids : View'[k] = View[k]
      BY <1>5, <1>7 DEF SupersedesNow, Ids
    <2> DEFINE next == Append(View, proposal)
    <2>2. next \in Seq(Entities) /\ Len(next) = Len(View) + 1 /\ next[Len(View) + 1] = proposal
          /\ \A k \in 1..Len(View) : next[k] = View[k]
      BY <1>1, <1>3, AppendProperties
    <2> HIDE DEF next
    <2>3. Len(next) = new /\ \A k \in 1..new : next[k] = View'[k]
      BY <1>1, <1>4, <2>1, <2>2
    <2>4. View' = next
      BY <1>1, <2>2, <2>3, SeqEqual
    <2>5. ~\E k \in Ids : judgments[k].tuple = t /\ judgments[k].status = "proposed"
      BY <1>7 DEF SupersedesNow, ProposeJudgment, Open, Ids
    <2>6. ~\E k \in 1..Len(View) : View[k].tuple = t /\ View[k].status = "proposed"
      BY <1>1, <2>5 DEF Viewed
    <2>7. Promise!Propose(t)
      BY <2>4, <2>6 DEF Promise!Propose, Promise!IsOpen, Promise!Ids, View, next, proposal
    <2>8. QED
      BY <2>7 DEF Promise!Next
  <1>8. QED
    BY <1>6, <1>7

\* Rejecting, withdrawing and confirming without a predecessor close one entity.
LEMMA ClosingImplements ==
    ASSUME Viewed, Viewed', NEW j \in Ids, NEW status \in {"rejected", "withdrawn", "confirmed"},
           Closing(j, status)
    PROVE  Promise!Next
  <1>1. /\ View \in Seq(Entities) /\ View' \in Seq(Entities) /\ Ids = 1..Len(View)
        /\ Len(View) \in Nat /\ Len(View') \in Nat /\ 1..Len(View) = 1..Len(View')
    BY DEF Viewed, Closing
  <1>2. Len(View') = Len(View)
    BY <1>1
  <1> DEFINE done == [View EXCEPT ![j].status = status]
             row == [View[j] EXCEPT !.status = status]
  <1>3. status \in Statuses
    BY DEF Statuses
  <1>4. /\ done \in Seq(Entities) /\ Len(done) = Len(View)
        /\ \A k \in 1..Len(View) : done[k] = IF k = j THEN row ELSE View[k]
    BY <1>1, <1>3, EntityClosed
  <1>5. \A k \in Ids : /\ View[k] \in Entities /\ View'[k] \in Entities
                       /\ View'[k].tuple = View[k].tuple /\ View'[k].succ = View[k].succ
                       /\ View'[k].status = IF k = j THEN status ELSE View[k].status
    BY DEF Viewed, Closing
  <1>6. View'[j] = row
    <2>1. row \in Entities /\ row.tuple = View[j].tuple /\ row.status = status /\ row.succ = View[j].succ
      BY <1>3, <1>5 DEF Entities
    <2> HIDE DEF row
    <2>2. QED
      BY <1>5, <2>1, EntityEqual
  <1>7. \A k \in Ids : k # j => View'[k] = View[k]
    BY <1>5, EntityEqual
  <1> HIDE DEF done, row
  <1>8. \A k \in 1..Len(done) : done[k] = View'[k]
    BY <1>1, <1>4, <1>6, <1>7
  <1>9. View' = done
    BY <1>1, <1>2, <1>4, <1>8, SeqEqual
  <1>10. View[j].status = "proposed"
    BY DEF Viewed, Closing
  <1>11. Promise!Close(j, status)
    BY <1>9, <1>10 DEF Promise!Close, View, done
  <1>12. QED
    BY <1>1, <1>11 DEF Promise!Next, Promise!Ids, View

\* Confirming the correction of a confirmed judgment takes its place.
LEMMA CorrectionImplements ==
    ASSUME TypeOK, RowsInv, Viewed, Viewed', NEW p \in People, NEW j \in Ids, NEW r \in Requests,
           ConfirmJudgment(p, j, r), SupersedesConfirmed(j)
    PROVE  Promise!Next
  <1> DEFINE pred == judgments[j].pred
  <1>1. /\ Ids' = Ids /\ pred \in Ids /\ pred < j /\ j \in Nat
        /\ judgments[j].status = "proposed" /\ judgments[pred].status = "confirmed"
        /\ \A k \in Ids : judgments'[k].tuple = judgments[k].tuple
        /\ judgments'[j].status = "confirmed" /\ judgments'[j].succ = judgments[j].succ
        /\ judgments'[pred].status = "superseded" /\ judgments'[pred].succ = j
        /\ \A k \in Ids : k # j /\ k # pred => judgments'[k] = judgments[k]
    BY ConfirmFields
  <1>2. judgments[pred].tuple = judgments[j].tuple
    BY <1>1 DEF RowsInv, SameTuple, SupersedesConfirmed
  <1> HIDE DEF pred
  <1>3. /\ View \in Seq(Entities) /\ View' \in Seq(Entities) /\ Ids = 1..Len(View)
        /\ Len(View) \in Nat /\ Len(View') = Len(View)
    BY ConfirmRows DEF Viewed
  <1> DEFINE done == [View EXCEPT ![j].status = "confirmed"]
             row == [View[j] EXCEPT !.status = "confirmed"]
             next == Promise!Superseded(done, pred, j)
             old == [done[pred] EXCEPT !.status = "superseded", !.succ = j]
  <1>4. /\ done \in Seq(Entities) /\ Len(done) = Len(View)
        /\ \A k \in 1..Len(View) : done[k] = IF k = j THEN row ELSE View[k]
    <2>1. "confirmed" \in Statuses
      BY DEF Statuses
    <2>2. QED
      BY <1>3, <2>1, EntityClosed
  <1> HIDE DEF done
  <1>5. /\ next \in Seq(Entities) /\ Len(next) = Len(done)
        /\ \A k \in 1..Len(done) : next[k] = IF k = pred THEN old ELSE done[k]
    <2>1. pred \in 1..Len(done) /\ j \in Nat
      BY <1>1, <1>3, <1>4
    <2>2. QED
      BY <1>4, <2>1, EntitySuperseded, ZenonT(30)
  <1>6. \A k \in Ids : /\ View[k] \in Entities /\ View'[k] \in Entities
                       /\ View'[k].tuple = View[k].tuple
                       /\ k # j /\ k # pred => View'[k] = View[k]
    <2>1. \A k \in Ids : k # j /\ k # pred =>
             /\ View[k] \in Entities /\ View'[k] \in Entities /\ View'[k].tuple = View[k].tuple
             /\ View'[k].status = View[k].status /\ View'[k].succ = View[k].succ
      BY <1>1 DEF Viewed
    <2>2. \A k \in Ids : View[k] \in Entities /\ View'[k] \in Entities
                         /\ View'[k].tuple = View[k].tuple
      BY <1>1 DEF Viewed
    <2>3. QED
      BY <2>1, <2>2, EntityEqual
  <1>7. /\ View[j].status = "proposed" /\ View[pred].status = "confirmed"
        /\ View[pred].tuple = View[j].tuple
        /\ View'[j].status = "confirmed" /\ View'[j].succ = View[j].succ
        /\ View'[pred].status = "superseded" /\ View'[pred].succ = j
    BY <1>1, <1>2 DEF Viewed
  <1>8. View'[j] = row
    <2>1. row \in Entities /\ row.tuple = View[j].tuple /\ row.status = "confirmed" /\ row.succ = View[j].succ
      BY <1>6 DEF Entities, Statuses
    <2> HIDE DEF row
    <2>2. QED
      BY <1>6, <1>7, <2>1, EntityEqual
  <1>9. View'[pred] = old
    <2>1. done[pred] = View[pred]
      BY <1>1, <1>3, <1>4
    <2>2. old \in Entities /\ old.tuple = View[pred].tuple /\ old.status = "superseded" /\ old.succ = j
      BY <1>1, <1>6, <2>1 DEF Entities, Statuses
    <2> HIDE DEF old
    <2>3. QED
      BY <1>1, <1>6, <1>7, <2>2, EntityEqual
  <1> HIDE DEF row, old, next
  <1>10. \A k \in 1..Len(next) : next[k] = View'[k]
    BY <1>1, <1>3, <1>4, <1>5, <1>6, <1>8, <1>9
  <1>11. View' = next
    BY <1>3, <1>4, <1>5, <1>10, SeqEqual
  <1>12. PICK i \in Ids : i = pred
    BY <1>1
  <1>13. Promise!ConfirmCorrection(j, i)
    BY <1>1, <1>7, <1>11, <1>12 DEF Promise!ConfirmCorrection, View, next, done
  <1>14. j \in Promise!Ids /\ i \in Promise!Ids
    BY <1>1, <1>3, <1>12 DEF Promise!Ids, View
  <1>15. QED
    BY <1>13, <1>14 DEF Promise!Next

LEMMA Implements ==
    ASSUME TypeOK, RowsInv, Viewed, Viewed', [Next]_vars
    PROVE  Promise!Next \/ UNCHANGED View
  <1>1. CASE ProposeStep
    BY <1>1, ProposeImplements DEF ProposeStep
  <1>2. ASSUME NEW p \in People, NEW j \in Ids, NEW r \in Requests, ConfirmJudgment(p, j, r)
        PROVE  Promise!Next
    <2>1. CASE SupersedesConfirmed(j)
      BY <1>2, <2>1, CorrectionImplements
    <2>2. CASE ~SupersedesConfirmed(j)
      BY <1>2, <2>2, ConfirmCloses, ClosingImplements
    <2>3. QED
      BY <2>1, <2>2
  <1>3. CASE DecideStep
    BY <1>2, <1>3, RejectCloses, ClosingImplements DEF DecideStep
  <1>4. CASE WithdrawStep
    BY <1>4, WithdrawCloses, ClosingImplements DEF WithdrawStep
  <1>5. CASE TogglePeriod
    BY <1>5 DEF TogglePeriod, View, Ids
  <1>6. CASE UNCHANGED vars
    BY <1>6 DEF vars, View, Ids
  <1>7. QED
    BY <1>1, <1>3, <1>4, <1>5, <1>6 DEF Next

\* Judgments implement the abstract adjudication: every command is one of its
\* steps or leaves what it sees of the judgments.
THEOREM JudgmentsImplementAdjudication == Spec => ImplementsAdjudication
  <1>1. Init => Promise!Init
    BY ViewInit DEF Promise!Init, View
  <1>2. IInv => Viewed
    BY ViewIsSequence DEF IInv
  <1>3. IInv /\ Viewed /\ Viewed' /\ [Next]_vars => [Promise!Next]_View
    BY Implements DEF IInv
  <1>4. QED
    BY <1>1, <1>2, <1>3, Inductive, PTL DEF Spec, ImplementsAdjudication, Promise!Spec, View

-----------------------------------------------------------------------------
(* The event log.  What the invariant says of the log, the number of rows   *)
(* and the rows, with these as parameters.                                  *)

\* The first n events of L bring judgment j to this status.
ReplaysIn(L, j, n, status) ==
    LET mine == {m \in 1..n : L[m].judgment = j}
    IN  IF mine = {} THEN status = "proposed"
        ELSE \E m \in mine : L[m].to = status /\ \A k \in mine : k <= m

\* The n events of L are of the N rows, and replay to their statuses in J.
Trail(L, n, N, J) ==
    /\ \A m \in 1..n : L[m].judgment \in 1..N /\ ReplaysIn(L, L[m].judgment, m - 1, L[m].from)
    /\ \A j \in 1..N : ReplaysIn(L, j, n, J[j])

\* M is L, which has n events, and e.
Extends(M, L, n, e) == M[n + 1] = e /\ \A m \in 1..n : M[m] = L[m]

\* e brings one of the N rows from its status in J to the one in K, and no other.
Moves(K, J, N, e) ==
    /\ e.judgment \in 1..N /\ e.from = J[e.judgment] /\ e.to = K[e.judgment]
    /\ \A j \in (1..N) \ {e.judgment} : K[j] = J[j]

\* A longer log says the same of the events both have.
LEMMA SameEvents ==
    ASSUME NEW n \in Nat, NEW L, NEW M, \A m \in 1..n : M[m] = L[m], NEW j, NEW status
    PROVE  ReplaysIn(M, j, n, status) <=> ReplaysIn(L, j, n, status)
BY DEF ReplaysIn

\* A row that no event is of is proposed.
LEMMA TrailOfNewRow ==
    ASSUME NEW n \in Nat, NEW N \in Nat, NEW L, NEW J, NEW K, Trail(L, n, N, J),
           K[N + 1] = "proposed", \A j \in 1..N : K[j] = J[j]
    PROVE  Trail(L, n, N + 1, K)
<1>1. 1..(N + 1) = (1..N) \cup {N + 1} /\ N + 1 \notin 1..N
  OBVIOUS
<1>2. ReplaysIn(L, N + 1, n, "proposed")
  BY <1>1 DEF Trail, ReplaysIn
<1>. QED  BY <1>1, <1>2 DEF Trail

\* An event that leaves from the status of its row and arrives at the new one.
LEMMA TrailOfNewEvent ==
    ASSUME NEW n \in Nat, NEW N \in Nat, NEW L, NEW M, NEW J, NEW K, NEW e, Trail(L, n, N, J),
           Extends(M, L, n, e), Moves(K, J, N, e)
    PROVE  Trail(M, n + 1, N, K)
<1>. DEFINE i == e.judgment
<1>0. /\ i \in 1..N /\ M[n + 1].judgment = i /\ M[n + 1].from = J[i] /\ M[n + 1].to = K[i]
      /\ \A m \in 1..n : M[m] = L[m]
      /\ \A j \in (1..N) \ {i} : K[j] = J[j]
  BY DEF Extends, Moves
<1>. HIDE DEF i
<1>1. 1..(n + 1) = (1..n) \cup {n + 1} /\ n + 1 \notin 1..n /\ (n + 1) - 1 = n
  OBVIOUS
<1>2. ASSUME NEW m \in 1..(n + 1)
      PROVE  M[m].judgment \in 1..N /\ ReplaysIn(M, M[m].judgment, m - 1, M[m].from)
  <2>1. CASE m = n + 1
    <3>1. M[m].judgment = i /\ M[m].from = J[i] /\ m - 1 = n
      BY <1>0, <1>1, <2>1
    <3>2. ReplaysIn(L, i, n, J[i])
      BY <1>0 DEF Trail
    <3>3. ReplaysIn(M, i, n, J[i])
      BY <1>0, <3>2, SameEvents
    <3>. QED  BY <1>0, <3>1, <3>3
  <2>2. CASE m \in 1..n
    <3>1. m - 1 \in Nat /\ \A l \in 1..(m - 1) : M[l] = L[l]
      BY <1>0, <2>2
    <3>2. L[m].judgment \in 1..N /\ ReplaysIn(L, L[m].judgment, m - 1, L[m].from) /\ M[m] = L[m]
      BY <1>0, <2>2 DEF Trail
    <3>. QED  BY <3>1, <3>2, SameEvents
  <2>. QED  BY <1>1, <2>1, <2>2
<1>3. ASSUME NEW j \in 1..N PROVE ReplaysIn(M, j, n + 1, K[j])
  <2>1. CASE j = i
    <3>1. n + 1 \in {m \in 1..(n + 1) : M[m].judgment = j} /\ \A k \in 1..(n + 1) : k <= n + 1
      BY <1>0, <1>1, <2>1
    <3>. QED  BY <1>0, <2>1, <3>1 DEF ReplaysIn
  <2>2. CASE j # i
    <3>1. {m \in 1..(n + 1) : M[m].judgment = j} = {m \in 1..n : M[m].judgment = j}
      BY <1>0, <1>1, <2>2
    <3>2. ReplaysIn(M, j, n, J[j]) /\ K[j] = J[j]
      BY <1>0, <2>2, SameEvents DEF Trail
    <3>. QED  BY <3>1, <3>2 DEF ReplaysIn
  <2>. QED  BY <2>1, <2>2
<1>. QED  BY <1>2, <1>3 DEF Trail

\* The statuses of the rows.
Status == [j \in Ids |-> judgments[j].status]

TrailInv == Trail(log, Len(log), Len(judgments), Status)

LEMMA TrailIsReplayed ==
    ASSUME TypeOK
    PROVE  TrailInv => LogReplaysToStatus
<1>1. DOMAIN log = 1..Len(log)
  BY DEF TypeOK
<1>2. \A j, n, status : ReplaysIn(log, j, n, status) <=> Replays(j, n, status)
  BY DEF ReplaysIn, Replays
<1>. QED  BY <1>1, <1>2 DEF TrailInv, Trail, LogReplaysToStatus, Status, Ids

\* An event is appended to the log.
LEMMA EventAppend ==
    ASSUME NEW s \in Seq(EventRows), NEW e \in EventRows
    PROVE  /\ Append(s, e) \in Seq(EventRows) /\ Len(Append(s, e)) = Len(s) + 1 /\ Len(s) \in Nat
           /\ Append(s, e)[Len(s) + 1] = e
           /\ \A k \in 1..Len(s) : Append(s, e)[k] = s[k]
OBVIOUS

\* One row closes, with its event.
LEMMA TrailCloses ==
    ASSUME TypeOK, TrailInv, NEW j \in Ids, NEW to \in Statuses, NEW r \in Requests, Closing(j, to),
           log' = Append(log, Event(j, "proposed", to, r)), Len(judgments') = Len(judgments)
    PROVE  TrailInv'
<1>. DEFINE e == Event(j, "proposed", to, r)
<1>1. e \in EventRows /\ e.judgment = j /\ e.from = "proposed" /\ e.to = to
  BY EventTyped DEF Event, Statuses, Ids
<1>2. /\ log \in Seq(EventRows) /\ Len(judgments) \in Nat /\ Ids = 1..Len(judgments)
      /\ Len(log) \in Nat
  BY DEF TypeOK, Ids
<1>. HIDE DEF e
<1>3. /\ Len(log') = Len(log) + 1 /\ log'[Len(log) + 1] = e
      /\ \A k \in 1..Len(log) : log'[k] = log[k]
  BY <1>1, <1>2, EventAppend DEF e
<1>4. /\ Status[j] = "proposed" /\ Status'[j] = to
      /\ \A k \in (1..Len(judgments)) \ {j} : Status'[k] = Status[k]
  BY <1>2 DEF Closing, Status
<1>5. Trail(log', Len(log) + 1, Len(judgments), Status')
  <2>. DEFINE n == Len(log)
              N == Len(judgments)
              M == log'
              S == Status
              T == Status'
  <2>1. /\ Trail(log, n, N, S) /\ n \in Nat /\ N \in Nat
        /\ Extends(M, log, n, e) /\ Moves(T, S, N, e)
    BY <1>1, <1>2, <1>3, <1>4 DEF TrailInv, Extends, Moves
  <2>. HIDE DEF n, N, M, S, T
  <2>2. Trail(M, n + 1, N, T)
    BY <2>1, TrailOfNewEvent
  <2>. QED  BY <2>2 DEF n, N, M, T
<1>. QED  BY <1>3, <1>5 DEF TrailInv

\* A proposal: its row has no event, and the one it takes the place of has its own.
LEMMA TrailProposed ==
    ASSUME TypeOK, TrailInv, NEW a \in Proposers, NEW t \in Tuples, NEW r \in Requests,
           NEW pred \in {0} \cup Ids, ProposeJudgment(a, t, pred, r)
    PROVE  TrailInv'
<1>. DEFINE n == Len(log)
            N == Len(judgments)
            S == Status
            T == Status'
            M == log'
<1>1. /\ Trail(log, n, N, S) /\ n \in Nat /\ N \in Nat /\ Ids = 1..N /\ log \in Seq(EventRows)
      /\ Len(judgments') = N + 1 /\ judgments'[N + 1] = NewRow(a, t, pred)
  BY ProposeRows DEF TrailInv, TypeOK, Ids
<1>2. Ids' = 1..(N + 1) /\ 1..(N + 1) = (1..N) \cup {N + 1}
  BY <1>1 DEF Ids
<1>3. T[N + 1] = "proposed"
  <2>1. Status'[N + 1] = judgments'[N + 1].status
    BY <1>1, <1>2 DEF Status
  <2>2. NewRow(a, t, pred).status = "proposed"
    BY DEF NewRow
  <2>. QED  BY <1>1, <2>1, <2>2
<1>4. CASE SupersedesNow(pred)
  <2>. DEFINE e == Event(pred, "proposed", "superseded", r)
              K == [j \in Ids |-> IF j = pred THEN "superseded" ELSE S[j]]
  <2>1. pred \in 1..N /\ judgments[pred].status = "proposed" /\ log' = Append(log, e)
    BY <1>1, <1>4 DEF SupersedesNow, ProposeJudgment
  <2>2. e \in EventRows /\ e.judgment = pred /\ e.from = "proposed" /\ e.to = "superseded"
    BY <2>1, EventTyped DEF Event, Statuses
  <2>. HIDE DEF e
  <2>3. /\ Len(M) = n + 1 /\ M[n + 1] = e
        /\ \A k \in 1..n : M[k] = log[k]
    BY <1>1, <2>1, <2>2, EventAppend
  <2>4. \A k \in 1..N : S[k] = judgments[k].status /\ K[k] = IF k = pred THEN "superseded" ELSE S[k]
    BY <1>1 DEF Status
  <2>5. \A k \in 1..N : T[k] = K[k]
    BY <1>1, <1>2, <2>1, <2>4, ProposeFields DEF Status
  <2>. HIDE DEF M, S, K, T
  <2>6. Trail(M, n + 1, N, K)
    <3>1. Trail(log, n, N, S) /\ n \in Nat /\ N \in Nat
      BY <1>1
    <3>2. Extends(M, log, n, e) /\ Moves(K, S, N, e)
      BY <2>1, <2>2, <2>3, <2>4 DEF Extends, Moves
    <3>. HIDE DEF n, N
    <3>. QED  BY <3>1, <3>2, TrailOfNewEvent
  <2>7. Trail(M, n + 1, N + 1, T)
    <3>1. n + 1 \in Nat
      BY <1>1
    <3>. HIDE DEF N
    <3>. QED  BY <1>1, <1>3, <2>5, <2>6, <3>1, TrailOfNewRow
  <2>. QED  BY <1>1, <2>3, <2>7 DEF TrailInv, M, T
<1>5. CASE ~SupersedesNow(pred)
  <2>1. log' = log
    BY <1>5 DEF ProposeJudgment
  <2>2. \A k \in 1..N : T[k] = S[k]
    BY <1>1, <1>2, <1>5, ProposeFields DEF Status, SupersedesNow
  <2>. HIDE DEF S, T
  <2>3. Trail(log, n, N + 1, T)
    <3>. HIDE DEF n, N
    <3>. QED  BY <1>1, <1>3, <2>2, TrailOfNewRow
  <2>. QED  BY <1>1, <2>1, <2>3 DEF TrailInv, T
<1>. QED  BY <1>4, <1>5

\* A confirmation: its event, and that of the predecessor it supersedes.
LEMMA TrailConfirmed ==
    ASSUME TypeOK, TrailInv, NEW p \in People, NEW j \in Ids, NEW r \in Requests, ConfirmJudgment(p, j, r)
    PROVE  TrailInv'
<1>. DEFINE one == Event(j, "proposed", "confirmed", r)
            mid == Append(log, one)
<1>1. /\ log \in Seq(EventRows) /\ one \in EventRows /\ one.judgment = j /\ one.from = "proposed"
      /\ one.to = "confirmed" /\ Len(judgments') = Len(judgments) /\ judgments[j].status = "proposed"
  <2>1. one \in EventRows /\ j \in Nat
    BY EventTyped DEF Statuses, Ids
  <2>2. Len(judgments') = Len(judgments)
    BY ConfirmRows
  <2>. QED  BY <2>1, <2>2 DEF Event, TypeOK, ConfirmJudgment
<1>. HIDE DEF one
<1>2. /\ mid \in Seq(EventRows) /\ Len(mid) = Len(log) + 1 /\ Len(log) \in Nat
      /\ mid[Len(log) + 1] = one /\ \A k \in 1..Len(log) : mid[k] = log[k]
  BY <1>1, EventAppend
<1>3. log' = mid \o SupersededBy(j, r)
  BY DEF ConfirmJudgment, one
<1>4. CASE ~SupersedesConfirmed(j)
  <2>1. SupersededBy(j, r) = <<>>
    BY <1>4 DEF SupersededBy, SupersedesConfirmed
  <2>2. log' = mid
    BY <1>2, <1>3, <2>1
  <2>3. Closing(j, "confirmed") /\ "confirmed" \in Statuses
    BY <1>4, ConfirmCloses DEF Statuses
  <2>. QED  BY <1>1, <2>2, <2>3, TrailCloses DEF one
<1>5. CASE SupersedesConfirmed(j)
  <2>. DEFINE n == Len(log)
              N == Len(judgments)
              S == Status
              T == Status'
              M == log'
              i == judgments[j].pred
              K == [k \in Ids |-> IF k = j THEN "confirmed" ELSE S[k]]
              two == Event(i, "confirmed", "superseded", r)
  <2>1. /\ Trail(log, n, N, S) /\ n \in Nat /\ N \in Nat /\ Ids = 1..N /\ Ids' = 1..N
        /\ i \in 1..N /\ i # j /\ j \in 1..N /\ judgments[i].status = "confirmed"
    BY <1>1, <1>5, RowFacts DEF TrailInv, TypeOK, Ids, SupersedesConfirmed
  <2>2. two \in EventRows /\ two.judgment = i /\ two.from = "confirmed" /\ two.to = "superseded"
    BY <2>1, EventTyped DEF Event, Statuses
  <2>3. SupersededBy(j, r) = <<two>>
    BY <1>5 DEF SupersededBy, SupersedesConfirmed
  <2>. HIDE DEF two, mid
  <2>4. M = Append(mid, two)
    BY <1>2, <1>3, <2>2, <2>3
  <2>5. /\ Len(M) = (n + 1) + 1 /\ M[(n + 1) + 1] = two
        /\ \A k \in 1..(n + 1) : M[k] = mid[k]
    BY <1>2, <2>2, <2>4, EventAppend
  <2>6. /\ \A k \in 1..N : S[k] = judgments[k].status /\ K[k] = IF k = j THEN "confirmed" ELSE S[k]
    BY <2>1 DEF Status
  <2>7. \A k \in 1..N : T[k] = IF k = i THEN "superseded" ELSE K[k]
    <3>. SUFFICES ASSUME NEW k \in 1..N PROVE T[k] = IF k = i THEN "superseded" ELSE K[k]
      OBVIOUS
    <3>1. T[k] = judgments'[k].status /\ judgments[k] \in JudgmentRows /\ j \in Nat
      BY <2>1 DEF Status, TypeOK
    <3>2. judgments'[k] = IF k = j THEN Settled(judgments[j], p, "confirmed")
                          ELSE IF k = i THEN Replaced(judgments[k], j) ELSE judgments[k]
      BY <1>5, <2>1, ConfirmRows
    <3>3. /\ Replaced(judgments[k], j).status = "superseded"
          /\ Settled(judgments[k], p, "confirmed").status = "confirmed"
      BY <3>1, FieldsAfter DEF Statuses
    <3>. HIDE DEF T, i, S, K
    <3>. QED  BY <2>1, <2>6, <3>1, <3>2, <3>3
  <2>. HIDE DEF S, T, M, K, i
  <2>8. Trail(mid, n + 1, N, K)
    <3>1. Trail(log, n, N, S) /\ n \in Nat /\ N \in Nat
      BY <2>1
    <3>2. Extends(mid, log, n, one) /\ Moves(K, S, N, one)
      BY <1>1, <1>2, <2>1, <2>6 DEF Extends, Moves
    <3>. HIDE DEF N, n
    <3>. QED  BY <3>1, <3>2, TrailOfNewEvent
  <2>9. Trail(M, (n + 1) + 1, N, T)
    <3>. DEFINE n1 == n + 1
    <3>1. Trail(mid, n1, N, K) /\ n1 \in Nat /\ N \in Nat
      BY <2>1, <2>8
    <3>2. Extends(M, mid, n1, two)
      BY <2>5 DEF Extends
    <3>3. Moves(T, K, N, two)
      BY <2>1, <2>2, <2>6, <2>7 DEF Moves
    <3>. HIDE DEF N, n1
    <3>4. Trail(M, n1 + 1, N, T)
      BY <3>1, <3>2, <3>3, TrailOfNewEvent
    <3>. QED  BY <3>4 DEF n1
  <2>. QED  BY <1>1, <2>5, <2>9 DEF TrailInv, M, T
<1>. QED  BY <1>4, <1>5

LEMMA TrailStep ==
    ASSUME IInv, TrailInv, [Next]_vars
    PROVE  TrailInv'
<1>. USE DEF IInv
<1>1. CASE ProposeStep
  BY <1>1, TrailProposed DEF ProposeStep
<1>2. ASSUME NEW p \in People, NEW j \in Ids, NEW r \in Requests, RejectJudgment(p, j, r)
      PROVE  TrailInv'
  <2>1. Closing(j, "rejected") /\ Len(judgments') = Len(judgments) /\ "rejected" \in Statuses
    BY <1>2, RejectCloses, RejectRows DEF Statuses
  <2>2. log' = Append(log, Event(j, "proposed", "rejected", r))
    BY <1>2 DEF RejectJudgment
  <2>. QED  BY <2>1, <2>2, TrailCloses
<1>3. CASE DecideStep
  BY <1>2, <1>3, TrailConfirmed DEF DecideStep
<1>4. ASSUME NEW a \in Proposers, NEW j \in Ids, NEW r \in Requests, WithdrawJudgment(a, j, r)
      PROVE  TrailInv'
  <2>1. Closing(j, "withdrawn") /\ Len(judgments') = Len(judgments) /\ "withdrawn" \in Statuses
    BY <1>4, WithdrawCloses, WithdrawRows DEF Statuses
  <2>2. log' = Append(log, Event(j, "proposed", "withdrawn", r))
    BY <1>4 DEF WithdrawJudgment
  <2>. QED  BY <2>1, <2>2, TrailCloses
<1>5. CASE WithdrawStep
  BY <1>4, <1>5 DEF WithdrawStep
<1>6. CASE TogglePeriod \/ UNCHANGED vars
  BY <1>6 DEF TogglePeriod, vars, TrailInv, Status, Ids
<1>. QED  BY <1>1, <1>3, <1>5, <1>6 DEF Next

\* The events of a judgment replay to its status, through corrections that supersede
\* and requests that are retried, and a supersession routes to the correction that
\* names it.
THEOREM CorrectionsAreTraced == Spec => []CorrectionsLeaveTrail
<1>1. Init => TrailInv
  <2>. SUFFICES ASSUME Init PROVE TrailInv
    OBVIOUS
  <2>1. Len(log) = 0 /\ Len(judgments) = 0 /\ 1..0 = {}
    BY DEF Init
  <2>. QED  BY <2>1 DEF TrailInv, Trail
<1>2. IInv /\ TrailInv /\ [Next]_vars => TrailInv'
  BY TrailStep
<1>3. IInv /\ TrailInv => CorrectionsLeaveTrail
  BY TrailIsReplayed DEF IInv, RowsInv, CorrectionsLeaveTrail
<1>. QED  BY <1>1, <1>2, <1>3, Inductive, PTL DEF Spec

-----------------------------------------------------------------------------
(* The alerts on the pace of the reviewers *)

\* What the properties read, with the ledger D as a parameter; k is a decision.
BurstIn(D, k) == {j \in 1..k : /\ D[j].by = D[k].by /\ D[j].verdict = "approved"
                               /\ D[j].at + Window >= D[k].at}
BurstingIn(D, k) == D[k].verdict = "approved" /\ Cardinality(BurstIn(D, k)) > ApprovalThreshold

Reported(D, A, k) ==
    \E j \in 1..k : /\ D[j].by = D[k].by /\ <<"approval_velocity", j>> \in A
                    /\ \A m \in BurstIn(D, k) : m >= j => BurstingIn(D, m)

RunIn(D, k) == {j \in 1..k : /\ D[j].by = D[k].by
                             /\ \A m \in j..k : D[m].by = D[k].by => D[m].verdict # "approved"}

\* The first k decisions have a second each.
Apart(D, k) == \A i, j \in 1..k : i # j => D[i].at # D[j].at

\* n decisions of the past, in the order of their times; it is t.
InOrder(D, n, t) ==
    /\ \A k \in 1..n : D[k] \in DecisionRows /\ D[k].at <= t
    /\ \A i, j \in 1..n : i <= j => D[i].at <= D[j].at

Approves(D, m, p) == D[m].by = p /\ D[m].verdict = "approved"

\* Who approved anything has a last approval.
LastApprovals(D, n) ==
    \A p \in Reviewers : \/ \A m \in 1..n : ~Approves(D, m, p)
                         \/ \E l \in 1..n : /\ Approves(D, l, p)
                                            /\ \A m \in 1..n : Approves(D, m, p) => m <= l

BurstsReported(D, A, n) == \A k \in 1..n : BurstingIn(D, k) => Reported(D, A, k)

\* An alert of a run comes with the decision before the threshold, when times tell the
\* decisions apart.
RunsExact(D, A, n) ==
    \A k \in 1..n : (<<"consecutive_decisions", k>> \in A /\ Apart(D, k)) =>
                        Cardinality(RunIn(D, k)) + 1 = ConsecutiveThreshold

-----------------------------------------------------------------------------
LEMMA Finite ==
    ASSUME NEW n \in Nat, NEW S \in SUBSET (1..n)
    PROVE  IsFiniteSet(S) /\ Cardinality(S) \in Nat
<1>1. IsFiniteSet(1..n)
  BY FS_Interval
<1>2. IsFiniteSet(S)
  BY <1>1, FS_Subset
<1>. QED  BY <1>2, FS_CardinalityType

LEMMA BurstFinite ==
    ASSUME NEW k \in Nat, NEW D
    PROVE  /\ BurstIn(D, k) \subseteq 1..k /\ RunIn(D, k) \subseteq 1..k
           /\ IsFiniteSet(BurstIn(D, k)) /\ Cardinality(BurstIn(D, k)) \in Nat
           /\ IsFiniteSet(RunIn(D, k)) /\ Cardinality(RunIn(D, k)) \in Nat
<1>1. BurstIn(D, k) \in SUBSET (1..k) /\ RunIn(D, k) \in SUBSET (1..k)
  BY DEF BurstIn, RunIn
<1>. QED  BY <1>1, Finite

\* A longer ledger says the same of the decisions both have.
LEMMA SamePast ==
    ASSUME NEW n \in Nat, NEW D, NEW E, \A m \in 1..n : E[m] = D[m], NEW k \in 1..n
    PROVE  /\ BurstIn(E, k) = BurstIn(D, k) /\ BurstingIn(E, k) <=> BurstingIn(D, k)
           /\ RunIn(E, k) = RunIn(D, k) /\ Apart(E, k) <=> Apart(D, k)
           /\ \A A, B : A \subseteq B => (Reported(D, A, k) => Reported(E, B, k))
<1>1. 1..k \subseteq 1..n /\ k \in 1..n /\ \A j \in 1..k : j..k \subseteq 1..n
  OBVIOUS
<1>2. ASSUME NEW m \in 1..n PROVE BurstIn(E, m) = BurstIn(D, m)
  <2>1. 1..m \subseteq 1..n
    OBVIOUS
  <2>. QED  BY <2>1 DEF BurstIn
<1>3. \A m \in 1..n : BurstingIn(E, m) <=> BurstingIn(D, m)
  BY <1>2 DEF BurstingIn
<1>4. RunIn(E, k) = RunIn(D, k)
  BY <1>1 DEF RunIn
<1>5. Apart(E, k) <=> Apart(D, k)
  BY <1>1 DEF Apart
<1>6. ASSUME NEW A, NEW B, A \subseteq B, Reported(D, A, k) PROVE Reported(E, B, k)
  <2>1. BurstIn(D, k) \subseteq 1..n
    BY <1>1 DEF BurstIn
  <2>. QED  BY <1>1, <1>2, <1>3, <1>6, <2>1 DEF Reported
<1>. QED  BY <1>2, <1>3, <1>4, <1>5, <1>6

-----------------------------------------------------------------------------
\* The burst of an approval over the threshold: it goes back to the alert of the
\* approval before it, which has all of it in its own window.
LEMMA BurstGoesOn ==
    ASSUME VelocityAssumption, NEW n \in Nat, NEW E, NEW A, NEW t \in Nat,
           InOrder(E, n + 1, t), LastApprovals(E, n), BurstsReported(E, A, n),
           BurstingIn(E, n + 1), Cardinality(BurstIn(E, n + 1)) # ApprovalThreshold + 1
    PROVE  Reported(E, A, n + 1)
<1>. DEFINE k == n + 1
            p == E[k].by
            earlier == BurstIn(E, k) \ {k}
<1>0. /\ 1..k = (1..n) \cup {k} /\ k \notin 1..n /\ k \in Nat /\ ApprovalThreshold \in Nat
      /\ Window \in Nat
  BY DEF VelocityAssumption
<1>1. \A m \in 1..k : E[m] \in DecisionRows /\ E[m].by \in Reviewers /\ E[m].at \in Nat
  BY DEF InOrder, DecisionRows
<1>2. \A m \in 1..n : E[m].at <= E[k].at
  BY <1>0 DEF InOrder
<1>3. /\ IsFiniteSet(BurstIn(E, k)) /\ Cardinality(BurstIn(E, k)) \in Nat
      /\ BurstIn(E, k) \subseteq 1..k /\ E[k].verdict = "approved"
      /\ Cardinality(BurstIn(E, k)) > ApprovalThreshold + 1
  BY <1>0, BurstFinite DEF BurstingIn
<1>. HIDE DEF k
<1>4. k \in BurstIn(E, k)
  BY <1>0, <1>1, <1>3 DEF BurstIn
<1>5. IsFiniteSet(earlier) /\ Cardinality(earlier) = Cardinality(BurstIn(E, k)) - 1
  BY <1>3, <1>4, FS_RemoveElement
<1>6. Cardinality(earlier) > ApprovalThreshold
  BY <1>0, <1>3, <1>5
<1>7. earlier # {}
  <2>. SUFFICES ASSUME earlier = {} PROVE FALSE
    OBVIOUS
  <2>1. Cardinality(earlier) = 0
    BY FS_EmptySet
  <2>. QED  BY <1>0, <1>6, <2>1
<1>8. PICK i \in 1..n : Approves(E, i, p)
  BY <1>0, <1>3, <1>7 DEF BurstIn, Approves
<1>9. PICK l \in 1..n : Approves(E, l, p) /\ \A m \in 1..n : Approves(E, m, p) => m <= l
  BY <1>0, <1>1, <1>8 DEF LastApprovals
<1>10. earlier \subseteq BurstIn(E, l)
  <2>. SUFFICES ASSUME NEW j \in earlier PROVE j \in BurstIn(E, l)
    OBVIOUS
  <2>1. j \in 1..n /\ E[j].by = p /\ E[j].verdict = "approved" /\ E[j].at + Window >= E[k].at
    BY <1>0, <1>3 DEF BurstIn
  <2>2. j <= l /\ E[l].by = p
    BY <1>9, <2>1 DEF Approves
  <2>3. E[j].at + Window >= E[l].at
    BY <1>0, <1>1, <1>2, <2>1
  <2>. QED  BY <2>1, <2>2, <2>3 DEF BurstIn
<1>11. IsFiniteSet(BurstIn(E, l)) /\ Cardinality(BurstIn(E, l)) \in Nat
  BY BurstFinite
<1>12. Cardinality(earlier) <= Cardinality(BurstIn(E, l)) /\ Cardinality(earlier) \in Nat
  <2>1. Cardinality(earlier) <= Cardinality(BurstIn(E, l))
    BY <1>10, <1>11, FS_Subset
  <2>. HIDE DEF earlier
  <2>. QED  BY <1>5, <2>1, FS_CardinalityType
<1>13. BurstingIn(E, l)
  BY <1>0, <1>6, <1>9, <1>11, <1>12 DEF BurstingIn, Approves
<1>14. PICK j \in 1..l : /\ E[j].by = E[l].by /\ <<"approval_velocity", j>> \in A
                         /\ \A m \in BurstIn(E, l) : m >= j => BurstingIn(E, m)
  BY <1>13 DEF BurstsReported, Reported
<1>15. j \in 1..k /\ E[j].by = p
  BY <1>0, <1>9, <1>14 DEF Approves
<1>16. \A m \in BurstIn(E, k) : m >= j => BurstingIn(E, m)
  BY <1>10, <1>14 DEF k
<1>. QED  BY <1>14, <1>15, <1>16 DEF Reported, k

\* A decision is added, with the alert of a burst that reaches the threshold.
LEMMA BurstsStep ==
    ASSUME VelocityAssumption, NEW n \in Nat, NEW D, NEW E, \A m \in 1..n : E[m] = D[m],
           NEW A, NEW B, A \subseteq B, NEW t \in Nat,
           InOrder(E, n + 1, t), LastApprovals(D, n), BurstsReported(D, A, n),
           (/\ E[n + 1].verdict = "approved"
            /\ Cardinality(BurstIn(E, n + 1)) = ApprovalThreshold + 1) =>
               <<"approval_velocity", n + 1>> \in B
    PROVE  BurstsReported(E, B, n + 1) /\ LastApprovals(E, n + 1)
<1>. DEFINE k == n + 1
<1>0. 1..k = (1..n) \cup {k} /\ k \notin 1..n /\ k \in Nat /\ \A m \in 1..n : m <= k
  OBVIOUS
<1>1. BurstsReported(E, B, n)
  BY SamePast DEF BurstsReported
<1>2. LastApprovals(E, n)
  BY DEF LastApprovals, Approves
<1>3. ASSUME BurstingIn(E, k) PROVE Reported(E, B, k)
  <2>1. CASE Cardinality(BurstIn(E, k)) # ApprovalThreshold + 1
    BY <1>1, <1>2, <1>3, <2>1, BurstGoesOn
  <2>2. CASE Cardinality(BurstIn(E, k)) = ApprovalThreshold + 1
    <3>1. <<"approval_velocity", k>> \in B /\ k \in 1..k
      BY <1>0, <1>3, <2>2 DEF BurstingIn
    <3>2. \A m \in BurstIn(E, k) : m >= k => m = k
      BY <1>0 DEF BurstIn
    <3>. HIDE DEF k
    <3>. QED  BY <1>3, <3>1, <3>2 DEF Reported
  <2>. QED  BY <2>1, <2>2
<1>. HIDE DEF k
<1>4. BurstsReported(E, B, k)
  BY <1>0, <1>1, <1>3 DEF BurstsReported
<1>5. LastApprovals(E, k)
  <2>. SUFFICES ASSUME NEW p \in Reviewers
                PROVE  \/ \A m \in 1..k : ~Approves(E, m, p)
                       \/ \E l \in 1..k : /\ Approves(E, l, p)
                                          /\ \A m \in 1..k : Approves(E, m, p) => m <= l
    BY DEF LastApprovals
  <2>1. CASE Approves(E, k, p)
    BY <1>0, <2>1
  <2>2. CASE ~Approves(E, k, p)
    BY <1>0, <1>2, <2>2 DEF LastApprovals
  <2>. QED  BY <2>1, <2>2
<1>. QED  BY <1>4, <1>5 DEF k

-----------------------------------------------------------------------------
\* The run that the streak counts, up to the newest decision of E.
Trailing(E, n) ==
    {i \in 1..n : /\ E[i].by = E[n].by /\ E[i].verdict # "approved"
                  /\ \A a \in 1..n : Approves(E, a, E[n].by) => ~After(E[a], E[i])}

\* When times tell the decisions apart it is the run since the last approval, whatever
\* the row ids.
LEMMA TrailingIsRun ==
    ASSUME NEW n \in Nat, NEW E, NEW t \in Nat, InOrder(E, n, t), Apart(E, n)
    PROVE  Trailing(E, n) = RunIn(E, n)
<1>1. \A i \in 1..n : E[i].at \in Nat /\ E[i].row \in Nat
  BY DEF InOrder, DecisionRows
<1>2. \A i, j \in 1..n : i < j => E[i].at < E[j].at
  <2>. SUFFICES ASSUME NEW i \in 1..n, NEW j \in 1..n, i < j PROVE E[i].at < E[j].at
    OBVIOUS
  <2>1. E[i].at <= E[j].at /\ E[i].at # E[j].at
    BY DEF InOrder, Apart
  <2>. QED  BY <1>1, <2>1
<1>3. ASSUME NEW i \in Trailing(E, n) PROVE i \in RunIn(E, n)
  <2>1. i \in 1..n /\ E[i].by = E[n].by /\ E[i].verdict # "approved"
    BY DEF Trailing
  <2>2. ASSUME NEW m \in i..n, E[m].by = E[n].by, E[m].verdict = "approved" PROVE FALSE
    <3>1. m \in 1..n /\ m # i /\ i < m
      BY <2>1, <2>2
    <3>2. After(E[m], E[i])
      BY <1>1, <1>2, <2>1, <3>1 DEF After
    <3>. QED  BY <2>2, <3>1, <3>2 DEF Trailing, Approves
  <2>. QED  BY <2>1, <2>2 DEF RunIn
<1>4. ASSUME NEW i \in RunIn(E, n) PROVE i \in Trailing(E, n)
  <2>1. i \in 1..n /\ E[i].by = E[n].by /\ \A m \in i..n : E[m].by = E[n].by => E[m].verdict # "approved"
    BY DEF RunIn
  <2>2. E[i].verdict # "approved"
    BY <2>1
  <2>3. ASSUME NEW a \in 1..n, Approves(E, a, E[n].by) PROVE ~After(E[a], E[i])
    <3>1. a \notin i..n
      BY <2>1, <2>3 DEF Approves
    <3>2. a < i
      BY <2>1, <3>1
    <3>3. E[a].at < E[i].at /\ E[a].at \in Nat /\ E[i].at \in Nat
      BY <1>1, <1>2, <2>1, <3>2
    <3>. QED  BY <3>3 DEF After
  <2>. QED  BY <2>1, <2>2, <2>3 DEF Trailing
<1>. QED  BY <1>3, <1>4

\* A decision is added, with the alert of a run that is about to be full.
LEMMA RunsStep ==
    ASSUME VelocityAssumption, NEW n \in Nat, NEW D, NEW E, \A m \in 1..n : E[m] = D[m],
           NEW A, NEW B, \A k \in 1..n, type \in AlertTypes : <<type, k>> \in B => <<type, k>> \in A,
           NEW t \in Nat, InOrder(E, n + 1, t), RunsExact(D, A, n),
           <<"consecutive_decisions", n + 1>> \in B =>
               Cardinality(Trailing(E, n + 1)) + 1 = ConsecutiveThreshold
    PROVE  RunsExact(E, B, n + 1)
<1>1. 1..(n + 1) = (1..n) \cup {n + 1} /\ n + 1 \in Nat
  OBVIOUS
<1>2. ASSUME NEW k \in 1..n, <<"consecutive_decisions", k>> \in B, Apart(E, k)
      PROVE  Cardinality(RunIn(E, k)) + 1 = ConsecutiveThreshold
  <2>1. <<"consecutive_decisions", k>> \in A
    BY <1>2 DEF AlertTypes
  <2>2. RunIn(E, k) = RunIn(D, k) /\ Apart(D, k)
    BY <1>2, SamePast
  <2>. QED  BY <2>1, <2>2 DEF RunsExact
<1>3. ASSUME <<"consecutive_decisions", n + 1>> \in B, Apart(E, n + 1)
      PROVE  Cardinality(RunIn(E, n + 1)) + 1 = ConsecutiveThreshold
  BY <1>1, <1>3, TrailingIsRun
<1>. QED  BY <1>1, <1>2, <1>3 DEF RunsExact

\* Two alerts of one run would be of runs of one length, the later of which has the
\* earlier one and more.
LEMMA RunsAlertOnce ==
    ASSUME VelocityAssumption, NEW n \in Nat, NEW D, NEW A, RunsExact(D, A, n), Apart(D, n), NEW k \in 1..n
    PROVE  Cardinality({j \in RunIn(D, k) : <<"consecutive_decisions", j>> \in A}) <= 1
<1>. DEFINE S == {j \in RunIn(D, k) : <<"consecutive_decisions", j>> \in A}
<1>0. RunIn(D, k) \subseteq 1..k /\ 1..k \subseteq 1..n
  BY BurstFinite
<1>1. ASSUME NEW i \in S, NEW j \in S, i < j PROVE FALSE
  <2>1. /\ i \in 1..k /\ j \in 1..k /\ i \in 1..n /\ j \in 1..n
        /\ <<"consecutive_decisions", i>> \in A /\ <<"consecutive_decisions", j>> \in A
    BY <1>0
  <2>2. Apart(D, i) /\ Apart(D, j)
    BY <2>1 DEF Apart
  <2>3. Cardinality(RunIn(D, i)) + 1 = ConsecutiveThreshold /\ Cardinality(RunIn(D, j)) + 1 = ConsecutiveThreshold
    BY <2>1, <2>2 DEF RunsExact
  <2>4. /\ IsFiniteSet(RunIn(D, i)) /\ Cardinality(RunIn(D, i)) \in Nat /\ RunIn(D, i) \subseteq 1..i
        /\ IsFiniteSet(RunIn(D, j)) /\ Cardinality(RunIn(D, j)) \in Nat
    BY <2>1, BurstFinite
  <2>5. D[i].by = D[k].by /\ D[j].by = D[k].by /\ \A m \in i..k : D[m].by = D[k].by => D[m].verdict # "approved"
    BY DEF RunIn
  <2>6. RunIn(D, i) \subseteq RunIn(D, j)
    <3>. SUFFICES ASSUME NEW x \in RunIn(D, i) PROVE x \in RunIn(D, j)
      OBVIOUS
    <3>1. x \in 1..i /\ D[x].by = D[i].by /\ \A m \in x..i : D[m].by = D[i].by => D[m].verdict # "approved"
      BY DEF RunIn
    <3>2. \A m \in x..j : m \in x..i \/ m \in i..k
      BY <1>1, <2>1, <3>1
    <3>. QED  BY <1>1, <2>1, <2>5, <3>1, <3>2 DEF RunIn
  <2>7. j \in RunIn(D, j) /\ j \notin RunIn(D, i)
    <3>1. j \notin 1..i /\ \A m \in j..j : m = j
      BY <1>1, <2>1
    <3>2. j \in i..k /\ j \in 1..j
      BY <1>1, <2>1
    <3>3. D[j].verdict # "approved"
      BY <2>5, <3>2
    <3>. QED  BY <2>4, <3>1, <3>2, <3>3 DEF RunIn
  <2>8. Cardinality(RunIn(D, i)) = Cardinality(RunIn(D, j)) => RunIn(D, i) = RunIn(D, j)
    BY <2>4, <2>6, FS_Subset
  <2>9. Cardinality(RunIn(D, i)) = Cardinality(RunIn(D, j))
    BY <2>3, <2>4
  <2>. QED  BY <2>7, <2>8, <2>9
<1>2. \A i, j \in S : i = j
  <2>. SUFFICES ASSUME NEW i \in S, NEW j \in S, i # j PROVE FALSE
    OBVIOUS
  <2>1. i < j \/ j < i
    BY <1>0
  <2>. QED  BY <1>1, <2>1
<1>3. S = {} \/ \E x : S = {x}
  BY <1>2
<1>. HIDE DEF S
<1>4. Cardinality(S) = 0 \/ Cardinality(S) = 1
  BY <1>3, FS_EmptySet, FS_Singleton
<1>. QED  BY <1>4 DEF S

-----------------------------------------------------------------------------
VelocityInv ==
    /\ decisions \in Seq(DecisionRows) /\ Len(decisions) <= MaxDecisions
    /\ alerts \subseteq AlertTypes \X (1..Len(decisions))
    /\ now \in Nat /\ now <= MaxTime
    /\ InOrder(decisions, Len(decisions), now)
    /\ LastApprovals(decisions, Len(decisions))
    /\ BurstsReported(decisions, alerts, Len(decisions))
    /\ RunsExact(decisions, alerts, Len(decisions))

LEMMA RowAdded ==
    ASSUME NEW s \in Seq(DecisionRows), NEW e \in DecisionRows
    PROVE  /\ Append(s, e) \in Seq(DecisionRows) /\ Len(Append(s, e)) = Len(s) + 1 /\ Len(s) \in Nat
           /\ Append(s, e)[Len(s) + 1] = e
           /\ \A k \in 1..Len(s) : Append(s, e)[k] = s[k]
           /\ DOMAIN Append(s, e) = 1..(Len(s) + 1) /\ DOMAIN s = 1..Len(s)
OBVIOUS

\* The counters that a decision derives are those of its burst and its run.
LEMMA Derived ==
    ASSUME VelocityAssumption, NEW E, NEW n \in Nat, DOMAIN E = 1..(n + 1), NEW p, NEW v,
           E[n + 1].by = p, E[n + 1].verdict = v, E[n + 1].at = now
    PROVE  /\ CrossesApprovals(E, p, v) <=> /\ v = "approved"
                                            /\ Cardinality(BurstIn(E, n + 1)) = ApprovalThreshold + 1
           /\ CrossesStreak(E, p, v) => Cardinality(Trailing(E, n + 1)) + 1 = ConsecutiveThreshold
<1>. DEFINE k == n + 1
<1>0. /\ k \in Nat /\ k \in 1..k /\ ApprovalThreshold \in Nat /\ ConsecutiveThreshold \in Nat
      /\ Window \in Nat
  BY DEF VelocityAssumption
<1>. HIDE DEF k
<1>1. ApprovalsInWindow(E, p) = Cardinality(BurstIn(E, k))
  <2>1. {j \in DOMAIN E : /\ E[j].by = p /\ E[j].verdict = "approved" /\ E[j].at + Window >= now}
            = BurstIn(E, k)
    BY DEF BurstIn, k
  <2>. QED  BY <2>1 DEF ApprovalsInWindow
<1>2. IsFiniteSet(BurstIn(E, k)) /\ Cardinality(BurstIn(E, k)) \in Nat
  BY <1>0, BurstFinite
<1>3. CrossesApprovals(E, p, v) <=> v = "approved" /\ Cardinality(BurstIn(E, k)) = ApprovalThreshold + 1
  <2>. DEFINE count == ApprovalsInWindow(E, p)
  <2>1. count = Cardinality(BurstIn(E, k)) /\ count \in Nat
    BY <1>1, <1>2
  <2>2. CrossesApprovals(E, p, v) <=>
            /\ count > ApprovalThreshold
            /\ (IF v = "approved" /\ count > 0 THEN count - 1 ELSE count) <= ApprovalThreshold
    BY DEF CrossesApprovals
  <2>. HIDE DEF count
  <2>. QED  BY <1>0, <2>1, <2>2
<1>4. ASSUME CrossesStreak(E, p, v) PROVE Cardinality(Trailing(E, k)) + 1 = ConsecutiveThreshold
  <2>. DEFINE run == Trailing(E, k)
              mine == {j \in DOMAIN E : E[j].by = p}
  <2>1. {j \in mine : /\ E[j].verdict # "approved"
                      /\ \A a \in mine : E[a].verdict = "approved" => ~After(E[a], E[j])} = run
    BY DEF Trailing, Approves, k
  <2>2. TrailingStreak(E, p) = IF Cardinality(run) < ConsecutiveThreshold THEN Cardinality(run)
                               ELSE ConsecutiveThreshold
    BY <2>1 DEF TrailingStreak
  <2>3. TrailingStreak(E, p) + 1 = ConsecutiveThreshold
    BY <1>4 DEF CrossesStreak
  <2>4. run \in SUBSET (1..k)
    BY DEF Trailing
  <2>. HIDE DEF run
  <2>5. Cardinality(run) \in Nat
    BY <1>0, <2>4, Finite
  <2>6. Cardinality(run) + 1 = ConsecutiveThreshold
    BY <1>0, <2>2, <2>3, <2>5
  <2>. QED  BY <2>6 DEF run
<1>. QED  BY <1>3, <1>4 DEF k

LEMMA DecideKeeps ==
    ASSUME VelocityAssumption, VelocityInv, NEW p \in Reviewers, NEW v \in Verdicts, Decide(p, v)
    PROVE  VelocityInv'
<1>. DEFINE row == [verdict |-> v, by |-> p, at |-> now, row |-> NextRow(decisions, v)]
            E == Append(decisions, row)
            n == Len(decisions)
<1>0. /\ decisions \in Seq(DecisionRows) /\ n \in Nat /\ DOMAIN decisions = 1..n /\ now \in Nat
      /\ InOrder(decisions, n, now) /\ LastApprovals(decisions, n)
      /\ BurstsReported(decisions, alerts, n) /\ RunsExact(decisions, alerts, n)
      /\ alerts \subseteq AlertTypes \X (1..n)
  BY DEF VelocityInv
<1>1. row \in DecisionRows
  <2>. DEFINE S == {k \in DOMAIN decisions : Ledger(decisions[k].verdict) = Ledger(v)}
  <2>1. S \in SUBSET (1..n)
    BY <1>0
  <2>. HIDE DEF S
  <2>2. Cardinality(S) \in Nat
    BY <1>0, <2>1, Finite
  <2>3. NextRow(decisions, v) = Cardinality(S) + 1
    BY DEF NextRow, S
  <2>4. NextRow(decisions, v) \in Nat \ {0}
    BY <2>2, <2>3
  <2>. QED  BY <1>0, <2>4 DEF DecisionRows
<1>2. row.verdict = v /\ row.by = p /\ row.at = now
  OBVIOUS
<1>. HIDE DEF row
<1>3. /\ E \in Seq(DecisionRows) /\ Len(E) = n + 1 /\ E[n + 1] = row
      /\ \A k \in 1..n : E[k] = decisions[k]
      /\ DOMAIN E = 1..(n + 1)
  BY <1>0, <1>1, RowAdded
<1>4. /\ decisions' = E /\ now' = now /\ alerts' = alerts \cup (Crossed(E, p, v) \X {n + 1})
      /\ n + 1 <= MaxDecisions
  BY <1>3 DEF Decide, row
<1>. HIDE DEF E
<1>5. InOrder(E, n + 1, now)
  <2>1. \A k \in 1..n : E[k] \in DecisionRows /\ E[k].at <= now
    BY <1>0, <1>3 DEF InOrder
  <2>2. E[n + 1] \in DecisionRows /\ E[n + 1].at = now
    BY <1>1, <1>2, <1>3
  <2>3. 1..(n + 1) = (1..n) \cup {n + 1} /\ \A i \in 1..n : ~(n + 1 <= i)
    BY <1>0
  <2>4. \A i, j \in 1..n : i <= j => E[i].at <= E[j].at
    BY <1>0, <1>3 DEF InOrder
  <2>. QED  BY <1>0, <2>1, <2>2, <2>3, <2>4 DEF InOrder
<1>6. Crossed(E, p, v) \subseteq AlertTypes
  BY DEF Crossed
<1>7. alerts \subseteq alerts' /\ alerts' \subseteq AlertTypes \X (1..(n + 1))
  BY <1>0, <1>4, <1>6
<1>8. \A k \in 1..n, type \in AlertTypes : <<type, k>> \in alerts' => <<type, k>> \in alerts
  BY <1>0, <1>4
<1>9. \A type \in AlertTypes : <<type, n + 1>> \in alerts' <=> type \in Crossed(E, p, v)
  BY <1>0, <1>4
<1>10. /\ CrossesApprovals(E, p, v) <=> /\ v = "approved"
                                        /\ Cardinality(BurstIn(E, n + 1)) = ApprovalThreshold + 1
       /\ CrossesStreak(E, p, v) => Cardinality(Trailing(E, n + 1)) + 1 = ConsecutiveThreshold
  BY <1>0, <1>2, <1>3, Derived
<1>11. (/\ E[n + 1].verdict = "approved"
        /\ Cardinality(BurstIn(E, n + 1)) = ApprovalThreshold + 1) => <<"approval_velocity", n + 1>> \in alerts'
  BY <1>2, <1>3, <1>9, <1>10 DEF Crossed, AlertTypes
<1>12. <<"consecutive_decisions", n + 1>> \in alerts' =>
           Cardinality(Trailing(E, n + 1)) + 1 = ConsecutiveThreshold
  BY <1>9, <1>10 DEF Crossed, AlertTypes
<1>13. BurstsReported(E, alerts', n + 1) /\ LastApprovals(E, n + 1)
  BY <1>0, <1>3, <1>5, <1>7, <1>11, BurstsStep
<1>14. RunsExact(E, alerts', n + 1)
  BY <1>0, <1>3, <1>5, <1>8, <1>12, RunsStep
<1>. QED  BY <1>3, <1>4, <1>5, <1>7, <1>13, <1>14 DEF VelocityInv

LEMMA VelocityInvStep == ASSUME VelocityAssumption, VelocityInv, [VelocityNext]_velocityVars PROVE VelocityInv'
<1>1. CASE Tick
  <2>1. InOrder(decisions, Len(decisions), now + 1) /\ now + 1 <= MaxTime /\ now + 1 \in Nat
    <3>1. \A k \in 1..Len(decisions) : decisions[k].at \in Nat
      BY DEF VelocityInv, InOrder, DecisionRows
    <3>. QED  BY <1>1, <3>1 DEF Tick, VelocityInv, InOrder, VelocityAssumption
  <2>. QED  BY <1>1, <2>1 DEF Tick, VelocityInv
<1>2. CASE UNCHANGED velocityVars
  BY <1>2 DEF velocityVars, VelocityInv
<1>. QED  BY <1>1, <1>2, DecideKeeps DEF VelocityNext

LEMMA VelocityInvInit == ASSUME VelocityAssumption, VelocityInit PROVE VelocityInv
<1>1. /\ decisions = <<>> /\ Len(decisions) = 0 /\ 1..Len(decisions) = {} /\ alerts = {} /\ now = 0
      /\ decisions \in Seq(DecisionRows)
  BY DEF VelocityInit
<1>. QED  BY <1>1 DEF VelocityInv, InOrder, LastApprovals, BurstsReported, RunsExact, VelocityAssumption

\* The ledgers and the alerts stay well typed.
THEOREM TypesOfAlerts == ASSUME VelocityAssumption PROVE VelocitySpec => []VelocityTypeOK
<1>1. VelocityInv => VelocityTypeOK
  BY DEF VelocityInv, VelocityTypeOK
<1>. QED  BY <1>1, VelocityInvInit, VelocityInvStep, PTL DEF VelocitySpec

\* Whatever the window, the thresholds and the pace of the reviewers, a burst of
\* approvals has its alert, and a run of rejections and returns one at most.
THEOREM AlertsAreRight == ASSUME VelocityAssumption PROVE VelocitySpec => []AlertsMatchRuns
<1>1. ASSUME VelocityInv PROVE BurstIsReported
  <2>1. \A k \in DOMAIN decisions : /\ k \in 1..Len(decisions)
                                    /\ Bursting(k) => BurstingIn(decisions, k)
    BY <1>1 DEF VelocityInv, Bursting, BurstingIn, Burst, BurstIn
  <2>2. \A k : Burst(k) = BurstIn(decisions, k) /\ (BurstingIn(decisions, k) <=> Bursting(k))
    BY DEF Bursting, BurstingIn, Burst, BurstIn
  <2>. QED  BY <1>1, <2>1, <2>2 DEF VelocityInv, BurstsReported, Reported, BurstIsReported
<1>2. ASSUME VelocityInv PROVE OneAlertPerRun
  <2>1. DOMAIN decisions = 1..Len(decisions) /\ Len(decisions) \in Nat
    BY <1>2 DEF VelocityInv
  <2>2. \A k : RunUpTo(k) = RunIn(decisions, k)
    BY DEF RunUpTo, RunIn
  <2>3. ASSUME \A i, j \in DOMAIN decisions : i # j => decisions[i].at # decisions[j].at,
               NEW k \in DOMAIN decisions
        PROVE  Cardinality({j \in RunUpTo(k) : <<"consecutive_decisions", j>> \in alerts}) <= 1
    <3>1. Apart(decisions, Len(decisions))
      BY <2>1, <2>3 DEF Apart
    <3>2. Cardinality({j \in RunIn(decisions, k) : <<"consecutive_decisions", j>> \in alerts}) <= 1
      BY <1>2, <2>1, <2>3, <3>1, RunsAlertOnce DEF VelocityInv
    <3>. QED  BY <2>2, <3>2
  <2>. QED  BY <2>3 DEF OneAlertPerRun
<1>3. VelocityInv => AlertsMatchRuns
  BY <1>1, <1>2 DEF AlertsMatchRuns
<1>. QED  BY <1>3, VelocityInvInit, VelocityInvStep, PTL DEF VelocitySpec

-----------------------------------------------------------------------------
(* The composition *)

\* The instance does only what one of its parts does.
THEOREM PartsRun == MCSpec => Spec /\ R!Spec /\ VelocitySpec
<1>1. MCInit => Init /\ R!Init /\ VelocityInit
  BY DEF MCInit
<1>2. [MCNext]_<<judging, reconciling, velocityVars, part>> =>
          [Next]_vars /\ [R!Next]_R!vars /\ [VelocityNext]_velocityVars
  BY DEF MCNext, JudgmentPart, ReconciliationPart, VelocityPart,
         judging, vars, reconciling, R!vars, velocityVars
<1>. QED  BY <1>1, <1>2, PTL DEF MCSpec, Spec, R!Spec, VelocitySpec

\* The people of the reconciliations have credentials.
LEMMA ReconcilersKnown == R!PeopleAssumption /\ R!ReconciliationsAssumption
<1>1. Person({"controller"}) \in R!Credentials
  BY DEF Person, R!Credentials, R!AccountingRoles
<1>. QED  BY <1>1, PartsAssumption DEF R!PeopleAssumption

\* The tables of the three parts stay well typed.
THEOREM TypesHold == MCSpec => []TypesOK
<1>1. R!Spec => []R!TypeOK
  BY ReconcilersKnown, R!TypesOfReconciliations
<1>2. VelocitySpec => []VelocityTypeOK
  BY PartsAssumption, TypesOfAlerts
<1>. QED  BY <1>1, <1>2, PartsRun, TypesOfJudgments, PTL DEF TypesOK

\* A pair that a reconciliation confirmed is related once, whoever else relates it, and
\* a row of theirs names one who confirmed it.
THEOREM EdgesHold == MCSpec => []EdgesFollowConfirmations
<1>1. R!Spec => []R!EdgesFollowConfirmations
  BY ReconcilersKnown, R!EdgesAreConfirmations
<1>. QED  BY <1>1, PartsRun, PTL DEF EdgesFollowConfirmations

\* Reconciliations implement the machine that judgments implement, and freeze with
\* either period.
THEOREM PairsImplementAdjudication == MCSpec => PairsAreAdjudicated
<1>1. R!Spec => R!PairsAreAdjudicated
  BY ReconcilersKnown, R!PairsAdjudicated
<1>. QED  BY <1>1, PartsRun, PTL DEF PairsAreAdjudicated

\* Every burst of approvals has its alert, and a run of rejections and returns one.
THEOREM AlertsHold == MCSpec => []AlertsMatchRuns
  BY PartsAssumption, AlertsAreRight, PartsRun, PTL
=============================================================================
