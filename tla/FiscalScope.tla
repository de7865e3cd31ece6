----------------------------- MODULE FiscalScope ------------------------------
(***************************************************************************)
(* The v1 fiscal scope binding: which protected writes the runtime mode of *)
(* a store handle lets through, the immutable link an act under a binding  *)
(* appends to its subject, and the verification layer that recomputes them *)
(* offline.  Bindings are reduced to what the checks tell apart: the       *)
(* operation and the actor; the acknowledgements of an approval are left   *)
(* out of its act, and the period gate is that of MemoryReview.  A hash is *)
(* what it covers.                                                         *)
(***************************************************************************)
EXTENDS Naturals, Sequences, FiniteSets, SequencesExt

CONSTANTS Handles,      \* open store handles, each named by its runtime mode
          Actors, Refs, Objects,
          MaxMemories, MaxLinks   \* bounds

RuntimeModes == {"shadow", "enforce", "legacy_compat", "read_only"}

ASSUME FiscalScopeAssumption ==
    /\ Handles \subseteq RuntimeModes
    /\ MaxMemories \in Nat /\ MaxLinks \in Nat

VARIABLES
    memories,   \* observations with their references and fiscal_binding_links
    objects,    \* fiscal_binding_links of the evidence objects stored so far
    unlinked,   \* history: changes of bound memories since their last link
    escaped     \* history: writes under a closed mode

vars == <<memories, objects, unlinked, escaped>>

Operations == {"memory.save", "memory.approve", "memory.supersede", "evidence.link", "evidence.store"}
Bindings   == [op : Operations, actor : Actors]
NoIntent   == [op |-> "none"]
NotReviewed == [status |-> "none"]
MemoryIds  == 1..Len(memories)
Live       == {"pending_review", "approved", "returned"}

Bound(i) == memories[i].links # <<>>

\* The envelope hash commits to the acts of the links, in order.
Envelope(row) == [status |-> row.status, refs |-> row.refs, succ |-> row.succ,
                  acts |-> [n \in DOMAIN row.links |-> row.links[n].act]]

ActEvidence(binding, reviewed) == [binding |-> binding, reviewed |-> reviewed]

\* MUTANT of WithLink: the resulting envelope is taken before the link joins it.
WithLinkAfterwards(row, binding, reviewed) ==
    [row EXCEPT !.links = Append(@, [act |-> ActEvidence(binding, reviewed), resulting |-> Envelope(row)])]

\* The row with one more link, which records the envelope that includes it.
WithLink(row, binding, reviewed) ==
    LET act     == ActEvidence(binding, reviewed)
        pending == [row EXCEPT !.links = Append(@, [act |-> act])]
    IN  [row EXCEPT !.links = Append(@, [act |-> act, resulting |-> Envelope(pending)])]

\* INVARIANT.  Types, and an act recorded at most once for its subject.
TypeOK ==
    /\ \A i \in MemoryIds :
          /\ memories[i].status \in Live \cup {"rejected", "superseded", "voided"}
          /\ memories[i].refs \subseteq Refs /\ memories[i].by \in Actors
          /\ memories[i].succ \in 0..MaxMemories
          /\ \A m, n \in DOMAIN memories[i].links :
                memories[i].links[m].act = memories[i].links[n].act => m = n
    /\ DOMAIN objects \subseteq Objects

Init == /\ memories = <<>> /\ objects = <<>>
        /\ unlinked = {} /\ escaped = {}

Observe(h, op) ==
    /\ unlinked' = {u \in unlinked : memories'[u.id].links = memories[u.id].links} \cup
           {[id |-> i, handle |-> h, op |-> op] :
               i \in {i \in MemoryIds : /\ Bound(i) /\ memories'[i] # memories[i]
                                        /\ memories'[i].links = memories[i].links}}
    /\ escaped' = escaped \cup (IF h \in {"shadow", "read_only"} THEN {[handle |-> h, op |-> op]} ELSE {})

-----------------------------------------------------------------------------
\* What gets past an entry point: no intent, or one that names the operation, the
\* subject's own axes and the actor; any other is refused before a transaction.
Fitting(op, actor) == {NoIntent, [op |-> op, actor |-> actor]}

RequiresIntent(existing, intent) == existing # <<>> => intent # NoIntent

Class(existing, intent) == IF existing # <<>> \/ intent # NoIntent THEN "v1" ELSE "legacy"

\* MUTANT of GateOpen: enforce lets legacy writes through as well.
GateOpenToLegacy(h, class) == h = "enforce" \/ (h = "legacy_compat" /\ class = "legacy")

GateOpen(h, class) == \/ h = "enforce" /\ class = "v1"
                      \/ h = "legacy_compat" /\ class = "legacy"

\* MUTANT of VerifiedLinks: a failed read counts as a subject without links.
VerifiedLinksBestEffort(i, readable) == {IF readable THEN memories[i].links ELSE <<>>}

\* The links a guard decides from; a read that fails aborts the write.
VerifiedLinks(i, readable) == IF readable THEN {memories[i].links} ELSE {}

\* Only the new subject is classified, not the revision it supersedes.
Save(h, a, intent) ==
    LET i     == Len(memories) + 1
        blank == [status |-> "pending_review", refs |-> {}, succ |-> 0, by |-> a, links |-> <<>>]
        row   == IF intent = NoIntent THEN blank ELSE WithLink(blank, intent, NotReviewed)
    IN  /\ i <= MaxMemories
        /\ GateOpen(h, Class(<<>>, intent))
        /\ memories' = Append([k \in MemoryIds |->
                           IF k = Len(memories) /\ memories[k].status \in Live
                           THEN [memories[k] EXCEPT !.status = "superseded", !.succ = i]
                           ELSE memories[k]], row)
        /\ Observe(h, "save")
        /\ UNCHANGED objects

Approve(h, p, i, intent, readable) ==
    \E existing \in VerifiedLinks(i, readable) :
        LET row == [memories[i] EXCEPT !.status = "approved"]
        IN  /\ RequiresIntent(existing, intent)
            /\ GateOpen(h, Class(existing, intent))
            /\ memories[i].status = "pending_review" /\ p # memories[i].by
            /\ memories' = [memories EXCEPT ![i] =
                   IF intent = NoIntent THEN row ELSE WithLink(row, intent, Envelope(memories[i]))]
            /\ Observe(h, "approve")
            /\ UNCHANGED objects

Recorded(i, act) == \E n \in DOMAIN memories[i].links : memories[i].links[n].act = act

SupersedeExplicit(h, a, i, j, intent, readable) ==
    \E existing \in VerifiedLinks(i, readable) :
        LET row == [memories[i] EXCEPT !.status = "superseded", !.succ = j]
        IN  /\ i # j /\ memories[i].status \in Live
            /\ RequiresIntent(existing, intent)
            /\ GateOpen(h, Class(existing, intent))
            /\ ~Recorded(i, ActEvidence(intent, NotReviewed))
            /\ memories' = [memories EXCEPT ![i] =
                   IF intent = NoIntent THEN row ELSE WithLink(row, intent, NotReviewed)]
            /\ Observe(h, "supersede")
            /\ UNCHANGED objects

\* A batch of references under one binding: an act already on record for the
\* subject is not recorded again, a batch that inserts nothing changes nothing.
LinkBatch(h, a, i, refs, intent, readable) ==
    \E existing \in VerifiedLinks(i, readable) :
        LET row == [memories[i] EXCEPT !.refs = @ \cup refs]
        IN  /\ RequiresIntent(existing, intent)
            /\ GateOpen(h, Class(existing, intent))
            /\ row # memories[i] /\ Len(existing) < MaxLinks
            /\ memories' = [memories EXCEPT ![i] =
                   IF intent = NoIntent \/ Recorded(i, ActEvidence(intent, NotReviewed))
                   THEN row ELSE WithLink(row, intent, NotReviewed)]
            /\ Observe(h, "link batch")
            /\ UNCHANGED objects

-----------------------------------------------------------------------------
\* The writes without a fiscal guard.
LinkEvidence(h, i, ref) ==
    /\ ref \notin memories[i].refs
    /\ memories' = [memories EXCEPT ![i].refs = @ \cup {ref}]
    /\ Observe(h, "link evidence")
    /\ UNCHANGED objects

DecidePending(h, p, i, to) ==
    /\ memories[i].status = "pending_review" /\ p # memories[i].by
    /\ memories' = [memories EXCEPT ![i].status = to]
    /\ Observe(h, to)
    /\ UNCHANGED objects

ApplyStatusTransition(h, i) ==
    /\ memories[i].status \in {"pending_review", "approved"}
    /\ memories' = [memories EXCEPT ![i].status = "voided"]
    /\ Observe(h, "voided")
    /\ UNCHANGED objects

\* A stored object is its content; its one link names it as the resulting state.
StoreObject(h, a, o, intent) ==
    /\ o \notin DOMAIN objects
    /\ GateOpen(h, Class(<<>>, intent))
    /\ objects' = [x \in DOMAIN objects \cup {o} |->
           IF x # o THEN objects[x]
           ELSE IF intent = NoIntent THEN <<>>
           ELSE <<[act |-> ActEvidence(intent, NotReviewed), resulting |-> o]>>]
    /\ memories' = memories
    /\ Observe(h, "store object")

SaveStep == \E a \in Actors : \E intent \in Fitting("memory.save", a), h \in Handles :
                Save(h, a, intent)
GuardedStep ==
    \E a \in Actors :
        \/ \E intent \in Fitting("memory.approve", a), h \in Handles, i \in MemoryIds,
              readable \in BOOLEAN : Approve(h, a, i, intent, readable)
        \/ \E intent \in Fitting("memory.supersede", a), h \in Handles, i, j \in MemoryIds,
              readable \in BOOLEAN : SupersedeExplicit(h, a, i, j, intent, readable)
        \/ \E intent \in Fitting("evidence.link", a), h \in Handles, i \in MemoryIds,
              refs \in SUBSET Refs, readable \in BOOLEAN : LinkBatch(h, a, i, refs, intent, readable)
LooseStep ==
    \E h \in Handles, i \in MemoryIds :
        \/ \E ref \in Refs : LinkEvidence(h, i, ref)
        \/ \E p \in Actors, to \in {"rejected", "returned"} : DecidePending(h, p, i, to)
        \/ ApplyStatusTransition(h, i)
ObjectStep == \E a \in Actors : \E intent \in Fitting("evidence.store", a), h \in Handles,
                 o \in Objects : StoreObject(h, a, o, intent)

Next == SaveStep \/ GuardedStep \/ LooseStep \/ ObjectStep
Spec == Init /\ [][Next]_vars

-----------------------------------------------------------------------------
\* The layer of a bound memory: every act recomputes and the last link commits
\* to the current envelope.
LayerPasses(i) == Last(memories[i].links).resulting = Envelope(memories[i])

ChangedBy(i) == {u.op : u \in {v \in unlinked : v.id = i}}

\* INVARIANT.  The fiscal layer fails exactly when something changed the memory
\* after its last link: complete evidence passes, and no change goes unnoticed.
LayerShowsLooseChanges == \A i \in MemoryIds : Bound(i) => (LayerPasses(i) <=> ChangedBy(i) = {})

\* INVARIANT.  An approval or an explicit supersession of a bound memory is always
\* linked, and so is a batch unless the same act is on record, also when the read
\* of the links fails.
GuardedActsAreLinked ==
    \A u \in unlinked :
        /\ u.op \notin {"approve", "supersede"}
        /\ u.op = "link batch" => \E a \in Actors :
               Recorded(u.id, ActEvidence([op |-> "evidence.link", actor |-> a], NotReviewed))

\* INVARIANT.  A store that only enforcing handles write holds no unbound subject.
EnforceBindsEverything ==
    /\ \A i \in MemoryIds : Bound(i)
    /\ \A o \in DOMAIN objects : objects[o] # <<>>

\* VIOLATED.  "It may mutate only legacy targets and cannot create or touch v1
\* objects" (docs/decisions/fiscal-runtime-foundations-design.md:119), in a write
\* that the mode gates.
LegacyCompatLeavesBoundAlone ==
    \A u \in unlinked : u.handle = "legacy_compat" => u.op \notin {"save", "approve", "supersede"}

\* VIOLATED.  `shadow` and `read_only` accept "no protected writes", linking
\* evidence included (docs/TROUBLESHOOTING.md:31).
ClosedModesWriteNothing ==
    \A e \in escaped : e.op \notin {"save", "approve", "supersede", "link evidence", "store object"}

\* VIOLATED.  A bound act with intact links "reports complete, hash-consistent
\* binding evidence" (specs/fiscal-runtime-foundations/spec.md:321), also after the
\* same actor links a second batch.
BoundActsVerify == \A i \in MemoryIds : Bound(i) /\ ChangedBy(i) \subseteq {"link batch"} => LayerPasses(i)

=============================================================================
