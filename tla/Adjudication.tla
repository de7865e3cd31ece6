---------------------------- MODULE Adjudication ----------------------------
(***************************************************************************)
(* What the two adjudication machines promise: a proposal is decided once, *)
(* a tuple has one open proposal, a correction takes the place of an open  *)
(* or a confirmed entity of its own tuple, and nothing closed reopens.     *)
(* Judgments and Reconciliations implement it.                             *)
(***************************************************************************)
EXTENDS Naturals, Sequences

CONSTANT Tuples

VARIABLE entities   \* the entities in insertion order

Ids == 1..Len(entities)
Proposal(t) == [tuple |-> t, status |-> "proposed", succ |-> 0]
IsOpen(t)   == \E i \in Ids : entities[i].tuple = t /\ entities[i].status = "proposed"

Superseded(es, i, j) == [es EXCEPT ![i].status = "superseded", ![i].succ = j]

Init == entities = <<>>

Propose(t) == ~IsOpen(t) /\ entities' = Append(entities, Proposal(t))

\* The correction of an open proposal takes its place.
Replace(i) ==
    /\ entities[i].status = "proposed"
    /\ entities' = Append(Superseded(entities, i, Len(entities) + 1), Proposal(entities[i].tuple))

Close(i, status) ==
    /\ entities[i].status = "proposed"
    /\ entities' = [entities EXCEPT ![i].status = status]

\* The correction of a confirmed entity supersedes it when it is confirmed.
ConfirmCorrection(j, i) ==
    /\ entities[j].status = "proposed" /\ entities[i].status = "confirmed"
    /\ entities[i].tuple = entities[j].tuple /\ i < j
    /\ entities' = Superseded([entities EXCEPT ![j].status = "confirmed"], i, j)

Next == \/ \E t \in Tuples : Propose(t)
        \/ \E i \in Ids : Replace(i)
        \/ \E i \in Ids, s \in {"confirmed", "rejected", "withdrawn"} : Close(i, s)
        \/ \E i, j \in Ids : ConfirmCorrection(j, i)

Spec == Init /\ [][Next]_entities
=============================================================================
