------------------------------ MODULE Migrations -------------------------------
(***************************************************************************)
(* Opening a store: the chain of schema migrations.  A process applies the *)
(* base schema, reads schema_version once and then walks the chain on the  *)
(* number it remembers, one transaction per step, each ending with an      *)
(* unconditional write of its own version.  Most steps create tables or    *)
(* columns and so fail when they exist; the steps to 2, 16 and 17 create   *)
(* nothing that would stop a second run.  Transactions are BEGIN DEFERRED: *)
(* one that reads first loses its snapshot to another commit, one that     *)
(* writes first waits for the lock and then sees the newest state.         *)
(***************************************************************************)
EXTENDS Naturals

CONSTANTS Processes,
          First,       \* version of the store on disk, 0 when there is none
          Foreign,     \* versions whose objects something else may have created
          MaxStarts    \* bound on the times a process opens the store

Latest    == 18
Base      == 2                  \* the layout of the base schema
Rerunning == {2, 16, 17}        \* steps that create no table and no column
Creating  == (Base..Latest) \ Rerunning
ReadFirst == {2, 3, 6, 7} \cup 9..14
Guarding  == {2, 3, 6, 7, 16}   \* steps that reinstall the immutability guard

MigrationsAssumption ==
    First \in 0..Latest /\ Foreign \subseteq Creating /\ MaxStarts \in Nat

VARIABLES
    version,   \* schema_version on disk, 0 before the base schema
    objects,   \* versions whose tables, columns and triggers exist
    foreign,   \* those of them that no migration created
    guard,     \* version of the installed immutability guard
    row,       \* the status of a memory: "migrated", or "voided" since
    proc,      \* of each process: phase, remembered version, lost snapshot
    starts     \* times a process opened the store

vars == <<version, objects, foreign, guard, row, proc, starts>>
store == <<version, objects, foreign, guard, row>>

Closed == [phase |-> "closed", at |-> 0, lost |-> FALSE]
Phases == {"closed", "opened", "chain", "snapshot", "serving", "failed"}
LatestGuard(v) == CHOOSE g \in Guarding \cup {0} :
                      g <= v /\ \A h \in Guarding : h <= v => h <= g

\* INVARIANT.  Types; a process never remembers a version it did not read or write.
TypeOK ==
    /\ version \in 0..Latest /\ objects \subseteq 1..Latest /\ foreign \subseteq objects
    /\ guard \in Guarding \cup {0} /\ row \in {"migrated", "voided"}
    /\ starts \in 0..MaxStarts
    /\ \A p \in Processes : /\ proc[p].phase \in Phases /\ proc[p].at \in 0..Latest
                            /\ proc[p].phase = "serving" => proc[p].at = Latest

Init ==
    /\ version = First /\ row = "migrated"
    /\ foreign \in {f \in SUBSET Foreign : \A v \in f : v > First}
    /\ objects = (1..First) \cup foreign
    /\ guard = LatestGuard(First)
    /\ proc = [p \in Processes |-> Closed] /\ starts = 0

Goes(p, phase) == proc' = [proc EXCEPT ![p].phase = phase]

-----------------------------------------------------------------------------
\* The base schema creates what is missing; a new store starts at its version.
Open(p) ==
    /\ proc[p].phase = "closed" /\ starts < MaxStarts
    /\ starts' = starts + 1 /\ Goes(p, "opened")
    /\ IF version = 0
       THEN version' = Base /\ objects' = objects \cup 1..Base /\ guard' = Base
       ELSE UNCHANGED <<version, objects, guard>>
    /\ UNCHANGED <<foreign, row>>

ReadVersion(p) ==
    /\ proc[p].phase = "opened"
    /\ proc' = [proc EXCEPT ![p].phase = "chain", ![p].at = version]
    /\ UNCHANGED <<store, starts>>

Target(p) == proc[p].at + 1

TakeSnapshot(p) ==
    /\ proc[p].phase = "chain" /\ Target(p) \in ReadFirst
    /\ proc' = [proc EXCEPT ![p].phase = "snapshot", ![p].lost = FALSE]
    /\ UNCHANGED <<store, starts>>

\* May the transaction of the step of p write now?
Ready(p) == proc[p].phase = (IF Target(p) \in ReadFirst THEN "snapshot" ELSE "chain")
Lost(p)  == Target(p) \in ReadFirst /\ proc[p].lost

\* MUTANT of Conflict: the objects are created IF NOT EXISTS.
ConflictIgnored(p) == FALSE

\* A table, column or index of the step exists already.
Conflict(p) == Target(p) \in Creating \cap objects

Committed(p) == [q \in Processes |->
                    IF q = p THEN [proc[p] EXCEPT !.phase = "chain", !.at = Target(p)]
                    ELSE [proc[q] EXCEPT !.lost = TRUE]]

\* MUTANT of Commit: the objects and the version are two transactions.
CommitTwice(p) ==
    IF Target(p) \in objects
    THEN version' = Target(p) /\ proc' = Committed(p) /\ UNCHANGED objects
    ELSE objects' = objects \cup {Target(p)} /\ UNCHANGED <<version, proc>>

\* MUTANT of Commit: only the version is committed.
CommitVersionOnly(p) == version' = Target(p) /\ proc' = Committed(p) /\ UNCHANGED objects

\* The step's objects and its version in one transaction; every open snapshot is lost.
Commit(p) ==
    /\ version' = Target(p) /\ objects' = objects \cup {Target(p)}
    /\ proc' = Committed(p)

MayStep(p, targets) == Ready(p) /\ Target(p) \in targets /\ ~Lost(p) /\ ~Conflict(p)

\* To version 2: every row is derived anew from its version 1 columns, and the
\* legacy mirror of a voided memory reads "reviewed", which is active.
Backfill(p) ==
    /\ MayStep(p, {2}) /\ Commit(p)
    /\ row' = "migrated" /\ guard' = 2
    /\ UNCHANGED <<foreign, starts>>

\* A step that creates tables, columns or indexes.
Extend(p) ==
    /\ MayStep(p, Creating) /\ Commit(p)
    /\ guard' = IF Target(p) \in Guarding THEN Target(p) ELSE guard
    /\ UNCHANGED <<foreign, row, starts>>

\* MUTANT of RefineGuard: the old guard stays.
RefineGuardNot(p) ==
    /\ MayStep(p, {16}) /\ guard # 0 /\ Commit(p)
    /\ UNCHANGED <<foreign, guard, row, starts>>

\* To version 16: the guard, which must be there, now permits sealing in place.
RefineGuard(p) ==
    /\ MayStep(p, {16}) /\ guard # 0 /\ Commit(p)
    /\ guard' = 16 /\ UNCHANGED <<foreign, row, starts>>

\* To version 17: the confidence triggers, dropped and created again.
RequireConfidence(p) ==
    /\ MayStep(p, {17}) /\ Commit(p)
    /\ UNCHANGED <<foreign, guard, row, starts>>

\* The snapshot is lost, an object is in the way or the guard is missing: the
\* transaction rolls back and the store does not open.
FailStep(p) ==
    /\ Ready(p)
    /\ proc[p].at < Latest /\ (Lost(p) \/ Conflict(p) \/ (Target(p) = 16 /\ guard = 0))
    /\ Goes(p, "failed") /\ UNCHANGED <<store, starts>>

Serve(p) == /\ proc[p].phase = "chain" /\ proc[p].at = Latest
            /\ Goes(p, "serving") /\ UNCHANGED <<store, starts>>

Void(p) == /\ proc[p].phase = "serving" /\ row = "migrated" /\ row' = "voided"
           /\ UNCHANGED <<version, objects, foreign, guard, proc, starts>>

\* A process ends, or dies at any point: its open transaction rolls back.
Close(p) ==
    /\ proc[p].phase # "closed"
    /\ proc' = [proc EXCEPT ![p] = Closed] /\ UNCHANGED <<store, starts>>

StepChain(p) == \/ Backfill(p) \/ Extend(p) \/ RefineGuard(p) \/ RequireConfidence(p)
Next == \E p \in Processes :
            \/ Open(p) \/ ReadVersion(p) \/ TakeSnapshot(p)
            \/ StepChain(p) \/ FailStep(p)
            \/ Serve(p) \/ Void(p) \/ Close(p)
Spec == Init /\ [][Next]_vars

-----------------------------------------------------------------------------
\* INVARIANT.  Wherever the upgrade stopped, the next open goes on from there.
\* contracts/provenance.md: an interrupted step rolls back to a coherent version
\* and the chain runs again cleanly.
ChainReRuns ==
    (foreign = {} /\ version < Latest) => version + 1 \notin Creating \cap objects

\* INVARIANT.  Whoever serves the store has every object of the layout and the
\* newest guard, whoever opened the store with it.
ServedLayoutIsComplete ==
    (\E p \in Processes : proc[p].phase = "serving") => (1..Latest \subseteq objects /\ guard = 16)

\* INVARIANT.  The version on disk tells which objects exist, except where a step
\* that ran again has just written its own number.
VersionTellsObjects ==
    version \notin {16, 17} => objects = (1..version) \cup foreign

\* INVARIANT.  An object no migration created is never adopted.
ForeignIsRefused ==
    foreign # {} => \A p \in Processes : proc[p].phase # "serving"

\* VIOLATED, with two processes at version 1.  A decision on a memory survives every
\* later open: "migrations ALTER additively and never rewrite or delete history"
\* (contracts/provenance.md:89).
DecisionsSurviveUpgrades == [][row = "voided" => row' = "voided"]_vars

=============================================================================
