------------------------------ MODULE SyncMerge -------------------------------
(***************************************************************************)
(* Synchronisation of two local stores.  A run lists the rows of the       *)
(* source, imports them, the relations and the audit trail one transaction *)
(* at a time, and at its end links the heads that had diverged when it     *)
(* began.  One topic, whose revisions are numbered by the order in which   *)
(* either store minted them; a row's content is its number, and the cached *)
(* envelope is the status it was computed from.  Evidence and rule links   *)
(* and the at-rest encryption are left out.                                *)
(***************************************************************************)
EXTENDS Naturals, Sequences, FiniteSets, SequencesExt

CONSTANTS Stores,
          Quiet,        \* TRUE: nobody else writes while a run is on
          MaxRevisions, MaxRecords, MaxRuns, MaxCrashes   \* bounds

SyncAssumption ==
    /\ Quiet \in BOOLEAN
    /\ MaxRevisions \in Nat /\ MaxRecords \in Nat /\ MaxRuns \in Nat /\ MaxCrashes \in Nat

VARIABLES
    rows,        \* of a store: its observations, in insertion order
    relations,   \* of a store: <<from, to, relation>>, in insertion order
    trail,       \* of a store: its transition_log, in insertion order
    knew,        \* of each revision: what its store held when it was created
    run,         \* the synchronisation under way
    runs, crashes

vars == <<rows, relations, trail, knew, run, runs, crashes>>

Live     == {"pending_review", "approved"}
Statuses == Live \cup {"superseded", "voided"}

IsLegalV2Transition(from, to) ==
    \/ from = "pending_review" /\ to \in {"approved", "voided", "superseded"}
    \/ from = "approved" /\ to \in {"voided", "superseded"}

IdsOf(list) == {list[n].id : n \in DOMAIN list}
RowOf(list, i) == list[CHOOSE n \in DOMAIN list : list[n].id = i]
SetStatus(list, i, to) ==
    [n \in DOMAIN list |-> IF list[n].id = i THEN [list[n] EXCEPT !.status = to] ELSE list[n]]

\* The head of the chain: the first inserted of the highest revision.
ChainHead(list) ==
    list[CHOOSE n \in DOMAIN list :
            \A m \in DOMAIN list : list[m].rev < list[n].rev \/ (list[m].rev = list[n].rev /\ n <= m)]

\* The first relation recorded between two rows, if any.
RelationBetween(rels, i, j) ==
    LET found == SelectSeq(rels, LAMBDA r : r[1] = i /\ r[2] = j)
    IN  IF found = <<>> THEN "none" ELSE found[1][3]

NoRun    == [phase |-> "idle"]
NoReplay == [id |-> 0]

\* INVARIANT.  Types; foreign keys hold, no row and no imported record is held twice.
TypeOK ==
    \A s \in Stores :
        /\ \A m, n \in DOMAIN rows[s] : rows[s][m].id = rows[s][n].id => m = n
        /\ \A n \in DOMAIN rows[s] : rows[s][n].status \in Statuses /\ rows[s][n].id \in DOMAIN knew
        /\ \A r \in ToSet(relations[s]) : {r[1], r[2]} \subseteq IdsOf(rows[s])
        /\ \A m, n \in DOMAIN trail[s] : trail[s][m] = trail[s][n] /\ trail[s][m].by # s => m = n
        /\ IdsOf(trail[s]) \subseteq IdsOf(rows[s])

Init ==
    /\ rows = [s \in Stores |-> <<>>] /\ relations = [s \in Stores |-> <<>>]
    /\ trail = [s \in Stores |-> <<>>]
    /\ knew = <<>> /\ run = NoRun /\ runs = 0 /\ crashes = 0

-----------------------------------------------------------------------------
\* What the users of a store do between the steps of a run, or only between runs;
\* a decision is taken while the trail is short enough for the bound.
LocalTurn    == Quiet => run.phase = "idle"
DecisionTurn(s) == LocalTurn /\ Len(trail[s]) < MaxRecords

Record(s, i, from, to) == [id |-> i, from |-> from, to |-> to, by |-> s]

Save(s) ==
    LET new  == Len(knew) + 1
        prev == ChainHead(rows[s])
        row(rev) == [id |-> new, rev |-> rev, status |-> "pending_review", env |-> "pending_review"]
    IN  /\ DecisionTurn(s) /\ new <= MaxRevisions
        /\ knew' = Append(knew, IdsOf(rows[s]))
        /\ IF rows[s] = <<>>
           THEN rows' = [rows EXCEPT ![s] = <<row(1)>>] /\ UNCHANGED <<relations, trail>>
           ELSE IF prev.status \in Live
           THEN /\ rows' = [rows EXCEPT ![s] = Append(SetStatus(@, prev.id, "superseded"), row(prev.rev + 1))]
                /\ relations' = [relations EXCEPT ![s] = Append(@, <<prev.id, new, "supersedes">>)]
                /\ trail' = [trail EXCEPT ![s] = Append(@, Record(s, prev.id, prev.status, "superseded"))]
           ELSE rows' = [rows EXCEPT ![s] = Append(@, row(prev.rev + 1))] /\ UNCHANGED <<relations, trail>>
        /\ UNCHANGED <<run, runs, crashes>>

\* The authenticated approval refreshes the cached envelope.
Approve(s, i) ==
    /\ DecisionTurn(s) /\ RowOf(rows[s], i).status = "pending_review"
    /\ rows' = [rows EXCEPT ![s] = [n \in DOMAIN @ |->
           IF @[n].id = i THEN [@[n] EXCEPT !.status = "approved", !.env = "approved"] ELSE @[n]]]
    /\ trail' = [trail EXCEPT ![s] = Append(@, Record(s, i, "pending_review", "approved"))]
    /\ UNCHANGED <<relations, knew, run, runs, crashes>>

\* The other transitions leave it alone.
ApplyStatusTransition(s, i) ==
    LET row == RowOf(rows[s], i)
    IN  /\ DecisionTurn(s) /\ row.status \in Live
        /\ rows' = [rows EXCEPT ![s] = SetStatus(@, i, "voided")]
        /\ trail' = [trail EXCEPT ![s] = Append(@, Record(s, i, row.status, "voided"))]
        /\ UNCHANGED <<relations, knew, run, runs, crashes>>

SupersedeExplicit(s, i, j) ==
    LET row == RowOf(rows[s], i)
    IN  /\ DecisionTurn(s) /\ i # j /\ row.status \in Live
        /\ rows' = [rows EXCEPT ![s] = SetStatus(@, i, "superseded")]
        /\ relations' = [relations EXCEPT ![s] = Append(@, <<i, j, "supersedes">>)]
        /\ trail' = [trail EXCEPT ![s] = Append(@, Record(s, i, row.status, "superseded"))]
        /\ UNCHANGED <<knew, run, runs, crashes>>

-----------------------------------------------------------------------------
\* MUTANT of Diverged: a sink head with a lower revision is taken for a lagging one.
DivergedByRevision(source, sink) ==
    /\ source # <<>> /\ sink # <<>>
    /\ ChainHead(sink).rev >= ChainHead(source).rev /\ ChainHead(sink).id \notin IdsOf(source)

\* The sink's head is no part of the source's history.
Diverged(source, sink) ==
    /\ source # <<>> /\ sink # <<>>
    /\ ChainHead(sink).id \notin IdsOf(source)

Begin(a, b) ==
    /\ run.phase = "idle" /\ runs < MaxRuns /\ a # b
    /\ runs' = runs + 1
    /\ run' = [phase |-> "rows", from |-> a, to |-> b, todo |-> rows[a], seen |-> 0,
               replay |-> NoReplay, conflicts |-> {},
               heads |-> IF Diverged(rows[a], rows[b])
                         THEN <<ChainHead(rows[b]).id, ChainHead(rows[a]).id>> ELSE <<>>]
    /\ UNCHANGED <<rows, relations, trail, knew, crashes>>

Working(phase) == run.phase = phase /\ run.todo # <<>>
NextItem       == [run EXCEPT !.todo = Tail(@)]
Sink           == rows[run.to]

\* MUTANT of ImportObservation: a differing envelope is imported as a second row.
ImportObservationAgain ==
    LET row == Head(run.todo)
    IN  /\ Working("rows")
        /\ rows' = IF row \in ToSet(Sink) THEN rows ELSE [rows EXCEPT ![run.to] = Append(@, row)]
        /\ run' = NextItem
        /\ UNCHANGED <<relations, trail, knew, runs, crashes>>

\* A row that is held already is an exact duplicate or, when the cached envelopes
\* differ, an immutable conflict: reported and skipped.
ImportObservation ==
    LET row == Head(run.todo)
    IN  /\ Working("rows")
        /\ IF row.id \notin IdsOf(Sink)
           THEN rows' = [rows EXCEPT ![run.to] = Append(@, row)] /\ run' = NextItem
           ELSE /\ run' = IF RowOf(Sink, row.id).env = row.env THEN NextItem
                          ELSE [NextItem EXCEPT !.conflicts = @ \cup {row.id}]
                /\ rows' = rows
        /\ UNCHANGED <<relations, trail, knew, runs, crashes>>

ReadRelations ==
    /\ run.phase = "rows" /\ run.todo = <<>>
    /\ run' = [run EXCEPT !.phase = "relations", !.todo = relations[run.from]]
    /\ UNCHANGED <<rows, relations, trail, knew, runs, crashes>>

\* Any relation of the pair stands for this one; an unknown endpoint aborts the run.
ImportRelation ==
    LET r == Head(run.todo)
    IN  /\ Working("relations")
        /\ \/ /\ RelationBetween(relations[run.to], r[1], r[2]) # "none"
              /\ run' = NextItem /\ relations' = relations
           \/ /\ RelationBetween(relations[run.to], r[1], r[2]) = "none"
              /\ {r[1], r[2]} \subseteq IdsOf(Sink)
              /\ relations' = [relations EXCEPT ![run.to] = Append(@, r)]
              /\ run' = NextItem
           \/ /\ ~({r[1], r[2]} \subseteq IdsOf(Sink))
              /\ run' = NoRun /\ relations' = relations
        /\ UNCHANGED <<rows, trail, knew, runs, crashes>>

ReadTrail ==
    /\ run.phase = "relations" /\ run.todo = <<>>
    /\ run' = [run EXCEPT !.phase = "trail", !.todo = trail[run.from], !.seen = Len(trail[run.from])]
    /\ UNCHANGED <<rows, relations, trail, knew, runs, crashes>>

\* MUTANT of Replayable: what the run reported as a conflict is left alone.
ReplayableUnlessConflicting(row, record) ==
    row.id \notin run.conflicts /\ IsLegalV2Transition(row.status, record.to)

Replayable(row, record) == IsLegalV2Transition(row.status, record.to)

\* MUTANT of ImportTransition: a record whose target the row has reached is dropped.
ImportTransitionIfBehind ==
    LET record == Head(run.todo)
    IN  /\ Working("trail") /\ run.replay = NoReplay
        /\ IF record \in ToSet(trail[run.to])
           THEN run' = NextItem /\ trail' = trail
           ELSE IF record.id \notin IdsOf(Sink)
           THEN run' = NoRun /\ trail' = trail
           ELSE IF RowOf(Sink, record.id).status = record.to
           THEN run' = NextItem /\ trail' = trail
           ELSE /\ trail' = [trail EXCEPT ![run.to] = Append(@, record)]
                /\ run' = IF Replayable(RowOf(Sink, record.id), record)
                          THEN [NextItem EXCEPT !.replay = record] ELSE NextItem
        /\ UNCHANGED <<rows, relations, knew, runs, crashes>>

\* A record that is not held yet joins the trail; the status follows in a
\* transaction of its own when the record leads forward from where the row is.
ImportTransition ==
    LET record == Head(run.todo)
    IN  /\ Working("trail") /\ run.replay = NoReplay
        /\ IF record \in ToSet(trail[run.to])
           THEN run' = NextItem /\ trail' = trail
           ELSE IF record.id \notin IdsOf(Sink)
           THEN run' = NoRun /\ trail' = trail
           ELSE /\ trail' = [trail EXCEPT ![run.to] = Append(@, record)]
                /\ run' = IF Replayable(RowOf(Sink, record.id), record)
                          THEN [NextItem EXCEPT !.replay = record] ELSE NextItem
        /\ UNCHANGED <<rows, relations, knew, runs, crashes>>

\* The write does not look at the status again.
ApplyImportedStatus ==
    /\ run.phase = "trail" /\ run.replay # NoReplay
    /\ rows' = [rows EXCEPT ![run.to] = SetStatus(@, run.replay.id, run.replay.to)]
    /\ run' = [run EXCEPT !.replay = NoReplay]
    /\ UNCHANGED <<relations, trail, knew, runs, crashes>>

LinkHeads ==
    /\ run.phase = "trail" /\ run.todo = <<>> /\ run.replay = NoReplay
    /\ LET link == <<run.heads[1], run.heads[2], "conflicts_with">>
       IN  relations' = IF run.heads # <<>> /\ link \notin ToSet(relations[run.to])
                        THEN [relations EXCEPT ![run.to] = Append(@, link)] ELSE relations
    /\ run' = [run EXCEPT !.phase = "done"]
    /\ UNCHANGED <<rows, trail, knew, runs, crashes>>

Finish == /\ run.phase = "done" /\ run' = NoRun
          /\ UNCHANGED <<rows, relations, trail, knew, runs, crashes>>

Crash ==
    /\ run.phase \notin {"idle", "done"} /\ crashes < MaxCrashes
    /\ crashes' = crashes + 1 /\ run' = NoRun
    /\ UNCHANGED <<rows, relations, trail, knew, runs>>

LocalStep ==
    \E s \in Stores :
        \/ Save(s)
        \/ \E i \in IdsOf(rows[s]) :
              \/ Approve(s, i)
              \/ ApplyStatusTransition(s, i)
              \/ \E j \in IdsOf(rows[s]) : SupersedeExplicit(s, i, j)
RowStep      == ImportObservation \/ ReadRelations
RelationStep == ImportRelation \/ ReadTrail \/ LinkHeads
TrailStep    == ImportTransition \/ ApplyImportedStatus

Next == \/ LocalStep
        \/ \E a, b \in Stores : Begin(a, b)
        \/ RowStep \/ RelationStep \/ TrailStep
        \/ Finish \/ Crash
Spec == Init /\ [][Next]_vars

-----------------------------------------------------------------------------
Done == run.phase = "done"
RecordsOf(s, i) == {r \in ToSet(trail[s]) : r.id = i}

\* INVARIANT, of runs nobody disturbs.  After a run the sink has every row of the
\* source, in the source's status when only one store has ever decided it and the
\* source knows all of it.
CompletedRunConverges ==
    Done => \A i \in IdsOf(rows[run.from]) :
                /\ i \in IdsOf(Sink)
                /\ (/\ RecordsOf(run.to, i) \subseteq RecordsOf(run.from, i)
                    /\ \A q, r \in RecordsOf(run.from, i) : q.by = r.by) =>
                       RowOf(Sink, i).status = RowOf(rows[run.from], i).status

\* INVARIANT, of every run.  A completed run has carried over each record it read.
AuditTrailCrosses ==
    Done => ToSet(SubSeq(trail[run.from], 1, run.seen)) \subseteq ToSet(trail[run.to])

Supersedes(s) == {<<r[1], r[2]>> : r \in {r \in ToSet(relations[s]) : r[3] = "supersedes"}}
Conflicts(s)  == {{r[1], r[2]} : r \in {r \in ToSet(relations[s]) : r[3] = "conflicts_with"}}

\* The rows a row descends from, itself included.
Line(s, i) ==
    LET grow[n \in 0..MaxRevisions] ==
            IF n = 0 THEN {i}
            ELSE grow[n - 1] \cup {e[1] : e \in {e \in Supersedes(s) : e[2] \in grow[n - 1]}}
    IN  grow[MaxRevisions]

LiveIn(s) == {i \in IdsOf(rows[s]) : RowOf(rows[s], i).status \in Live}

\* INVARIANT, of runs nobody disturbs, between two stores.  After a run each live
\* revision that only the sink has is linked as a conflict with one of the source.
UnsharedIsLinked ==
    Done /\ rows[run.from] # <<>> =>
        \A j \in LiveIn(run.to) \ IdsOf(rows[run.from]) :
            \E i \in IdsOf(rows[run.from]) : {i, j} \in Conflicts(run.to)

\* VIOLATED, with four revisions, three records of a store and two runs.  After a run,
\* two live revisions of the topic in its sink, each created where the other was
\* unknown, are linked as a conflict: they or the revisions they descend from.
DivergenceIsLinked ==
    Done => \A i, j \in LiveIn(run.to) :
                i # j /\ i \notin knew[j] /\ j \notin knew[i] =>
                    \E a \in Line(run.to, i), b \in Line(run.to, j) : {a, b} \in Conflicts(run.to)

\* VIOLATED, beside other writers.  "terminal states never reopen, and a human-approved
\* memory is never silently demoted" (internal/sync/sync.go:215).
StatusMovesForward ==
    [][\A s \in Stores : \A i \in IdsOf(rows[s]) :
          LET old == RowOf(rows[s], i).status
              new == RowOf(rows'[s], i).status
          IN  old # new => IsLegalV2Transition(old, new)]_vars

\* VIOLATED.  An immutable conflict is "an id [that] exists in the sink with
\* different immutable bytes" (internal/sync/sync.go:85); here every id has one
\* content, in every store.
NoPhantomConflict == run.phase # "idle" => run.conflicts = {}

\* VIOLATED.  "full revision history, relations, and the lifecycle audit trail
\* cross" (docs/SYSTEM-BOUNDARIES.md:90).
RelationsCross == Done => ToSet(relations[run.from]) \subseteq ToSet(relations[run.to])

=============================================================================
