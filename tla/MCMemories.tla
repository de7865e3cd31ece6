------------------------------ MODULE MCMemories ------------------------------
(***************************************************************************)
(* The instances of the review of memories and of their synchronisation.   *)
(* The first is about one store and the second about two, with the reviews *)
(* reduced to their outcome; a behaviour belongs to one of them, its part, *)
(* and leaves the other where it starts.                                   *)
(***************************************************************************)
EXTENDS MemoryProperties, TLC

CONSTANTS Parts,    \* which parts a run checks
          Stores, ana, ben,
          Revisions, Records, Runs, Crashes   \* bounds of synchronisation

VARIABLES rows, relations, trail, knew, run, runs, crashes, part

syncing == <<rows, relations, trail, knew, run, runs, crashes>>

Person(roles) == [tenant |-> TRUE, company |-> TRUE, member |-> TRUE,
                  roles |-> roles, assurance |-> 1]

\* An accountant, who proposes, and a controller.
AccountantAndController == (ana :> Person({"accountant"})) @@ (ben :> Person({"controller"}))

Draft(topic, effect, level) ==
    [topic |-> topic, effect |-> effect, level |-> level,
     summary |-> effect = "closing"]

EntryAndClose == {Draft("entry", "journal_entry", "material"), Draft("closing", "closing", "normal")}
Close == "closing"

\* Two stores synchronise: runs nobody disturbs, with one revision more, so that
\* three fork and one branch goes on, ...
Calm == INSTANCE SyncMerge WITH
    Quiet <- TRUE, MaxRevisions <- Revisions + 1, MaxRecords <- Records + 1,
    MaxRuns <- Runs, MaxCrashes <- 0

\* ... and runs beside other writers, interrupted once.
Busy == INSTANCE SyncMerge WITH
    Quiet <- FALSE, MaxRevisions <- Revisions, MaxRecords <- Records,
    MaxRuns <- Runs, MaxCrashes <- Crashes

ASSUME PartsAssumption == Calm!SyncAssumption /\ Busy!SyncAssumption

-----------------------------------------------------------------------------
MCInit == Init /\ Calm!Init /\ part \in Parts

ReviewPart == part = "review" /\ Next /\ UNCHANGED <<syncing, part>>
CalmPart   == part = "calm" /\ Calm!Next /\ UNCHANGED <<vars, part>>
BusyPart   == part = "busy" /\ Busy!Next /\ UNCHANGED <<vars, part>>

MCNext == ReviewPart \/ CalmPart \/ BusyPart
MCSpec == MCInit /\ [][MCNext]_<<vars, syncing, part>>

Symmetry == Permutations(Refs) \cup Permutations(Requests) \cup Permutations(Stores)

-----------------------------------------------------------------------------
\* INVARIANT.  The tables of the reviewed store and of both synchronised ones are
\* well typed.
TypesOK == /\ TypeOK
           /\ IF part = "calm" THEN Calm!TypeOK ELSE Busy!TypeOK

\* INVARIANT.  After a run that nobody disturbs the sink has every row of the source,
\* in its status when only one store decided it, and a live revision that only the
\* sink has is linked as a conflict with one of the source.  A completed run, also a
\* disturbed one, has carried over every record of the audit trail that it read.
RunsConverge == /\ part = "calm" => Calm!CompletedRunConverges /\ Calm!UnsharedIsLinked
                /\ Busy!AuditTrailCrosses
=============================================================================
