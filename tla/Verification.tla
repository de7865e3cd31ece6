---------------------------- MODULE Verification -----------------------------
(***************************************************************************)
(* Offline verification of memories and judgments: what the engine says of *)
(* a subject after every sequence of acts, and after a link row has been   *)
(* removed behind its back.  The receipts are those of Receipts with their *)
(* keys and chain left out; what matters here is the state each receipt    *)
(* commits to, and the immutable record its principal is compared with.    *)
(* A hash stands for what it covers.                                       *)
(***************************************************************************)
EXTENDS Naturals, Sequences, FiniteSets, SequencesExt

CONSTANTS Actors, Refs, Rules,
          MaxMemories, MaxJudgments, MaxReceipts, MaxRemoved   \* bounds

\* Evidence and rules are kinds of their own, in tables of their own.
VerificationAssumption ==
    /\ {MaxMemories, MaxJudgments, MaxReceipts, MaxRemoved} \subseteq Nat
    /\ Refs \cap Rules = {} /\ "none" \notin Refs

VARIABLES
    memories,   \* observations with their link rows
    judgments,  \* judgments with their decision
    receipts,   \* the ledger in insertion order
    records,    \* the immutable records of the acts
    removed,    \* link rows ever deleted outside the engine
    unsealed    \* history: memories that changed after the last state a receipt commits

vars == <<memories, judgments, receipts, records, removed, unsealed>>

Topics    == {"entry", "close"}
Statuses  == {"pending_review", "approved", "rejected", "returned", "superseded", "voided"}
None      == "none"
Memory(i) == [kind |-> "memory", id |-> i]
Judgment(j) == [kind |-> "judgment", id |-> j]
Act(subject, action, by, ref) == [subject |-> subject, action |-> action, by |-> by, ref |-> ref]
NoCommit  == [status |-> None]

MemoryRows   == [topic : Topics, status : Statuses, evidence : SUBSET Refs,
                 rules : SUBSET Rules, succ : 0..MaxMemories]
JudgmentRows == [pred : 0..MaxJudgments, judge : Actors \cup {None},
                 status : {"proposed", "confirmed", "rejected", "superseded"},
                 succ : 0..MaxJudgments]

MemoryIds   == 1..Len(memories)
JudgmentIds == 1..Len(judgments)
SubjectsOf  == {Memory(i) : i \in MemoryIds} \cup {Judgment(j) : j \in JudgmentIds}

\* The envelope hash covers the whole row with its links.
Envelope(i) == memories[i]
\* The judgment hash covers the decision of a confirmed judgment only.
JudgmentHash(row) == [row EXCEPT !.succ = 0, !.judge = IF row.status = "confirmed" THEN @ ELSE None]

\* INVARIANT.  Types, and the foreign keys of receipts and removed rows.
TypeOK ==
    /\ memories \in Seq(MemoryRows) /\ judgments \in Seq(JudgmentRows)
    /\ \A n \in DOMAIN receipts : /\ receipts[n].act.subject \in SubjectsOf
                                   /\ receipts[n].act.by \in Actors
    /\ (\A gone \in removed : gone.id \in MemoryIds) /\ unsealed \subseteq MemoryIds

Init == /\ memories = <<>> /\ judgments = <<>> /\ receipts = <<>>
        /\ records = {} /\ removed = {} /\ unsealed = {}

-----------------------------------------------------------------------------
\* MUTANT of Seal: an act other than the first of a subject commits no state.
SealOnce(acts, commits) ==
    /\ Len(receipts) + Len(acts) <= MaxReceipts
    /\ receipts' = receipts \o
           [n \in DOMAIN acts |->
               [act |-> acts[n],
                commit |-> IF \E m \in DOMAIN receipts : receipts[m].act.subject = acts[n].subject
                           THEN NoCommit ELSE commits[n]]]
    /\ unsealed' = {i \in unsealed : \A n \in DOMAIN acts : acts[n].subject # Memory(i)}

\* The receipts of an act, with the state each commits to.
Seal(acts, commits) ==
    /\ Len(receipts) + Len(acts) <= MaxReceipts
    /\ receipts' = receipts \o [n \in DOMAIN acts |-> [act |-> acts[n], commit |-> commits[n]]]
    /\ unsealed' = {i \in unsealed : \A n \in DOMAIN acts :
                                      acts[n].subject = Memory(i) => commits[n] = NoCommit}

\* With the record of each act.
Emit(acts, commits) == Seal(acts, commits) /\ records' = records \cup Range(acts)

Current(topic) == {i \in MemoryIds : memories[i].topic = topic
                                     /\ memories[i].status \in {"pending_review", "approved", "returned"}}

\* A save supersedes the current revision of its topic, whose receipt comes first.
Save(a, topic) ==
    LET i   == Len(memories) + 1
        row == [topic |-> topic, status |-> "pending_review", evidence |-> {}, rules |-> {}, succ |-> 0]
        old(p) == [memories[p] EXCEPT !.status = "superseded", !.succ = i]
    IN  /\ i <= MaxMemories
        /\ \/ /\ Current(topic) = {}
              /\ memories' = Append(memories, row)
              /\ Emit(<<Act(Memory(i), "recorded", a, None)>>, <<row>>)
           \/ \E p \in Current(topic) :
              /\ memories' = Append([memories EXCEPT ![p] = old(p)], row)
              /\ Emit(<<Act(Memory(p), "superseded", a, None), Act(Memory(i), "recorded", a, None)>>,
                      <<old(p), row>>)
        /\ UNCHANGED <<judgments, removed>>

LinkEvidence(a, i, ref) ==
    LET row == [memories[i] EXCEPT !.evidence = @ \cup {ref}]
    IN  /\ ref \notin memories[i].evidence
        /\ memories' = [memories EXCEPT ![i] = row]
        /\ Emit(<<Act(Memory(i), "evidence_linked", a, ref)>>, <<row>>)
        /\ UNCHANGED <<judgments, removed>>

\* A rule link has no receipt action.
LinkRule(i, rule) ==
    /\ rule \notin memories[i].rules
    /\ memories' = [memories EXCEPT ![i].rules = @ \cup {rule}]
    /\ unsealed' = unsealed \cup {i}
    /\ UNCHANGED <<judgments, receipts, records, removed>>

\* A batch has a record for every reference it inserts and one receipt, which names
\* none of them; a batch that inserts nothing leaves no trace.
LinkBatch(a, i, refs) ==
    LET new == refs \ memories[i].evidence
        row == [memories[i] EXCEPT !.evidence = @ \cup new]
    IN  /\ new # {}
        /\ memories' = [memories EXCEPT ![i] = row]
        /\ Seal(<<Act(Memory(i), "evidence_linked", a, None)>>, <<row>>)
        /\ records' = records \cup {Act(Memory(i), "evidence_linked", a, ref) : ref \in new}
        /\ UNCHANGED <<judgments, removed>>

\* What a decision moves: a pending memory, and the voiding an approved one too.
Decidable(i, to) ==
    memories[i].status \in {"pending_review"} \cup (IF to = "voided" THEN {"approved"} ELSE {})

\* The deprecated approval, and the status that a sync run brings (a supersession
\* is left out): the row changes and no receipt says so.
DecideUnsigned(i, to) ==
    /\ Decidable(i, to)
    /\ memories' = [memories EXCEPT ![i].status = to]
    /\ unsealed' = unsealed \cup {i}
    /\ UNCHANGED <<judgments, receipts, records, removed>>

DecideMemory(a, i, to) ==
    LET row == [memories[i] EXCEPT !.status = to]
        act == Act(Memory(i), to, a, None)
    IN  /\ Decidable(i, to)
        /\ memories' = [memories EXCEPT ![i] = row]
        /\ IF to = "approved" /\ memories[i].topic = "close"
           THEN Emit(<<act, Act(Memory(i), "closed", a, None)>>, <<row, row>>)
           ELSE Emit(<<act>>, <<row>>)
        /\ UNCHANGED <<judgments, removed>>

\* The reopening of the period a close closed commits no new state.
ReopenPeriod(a, i) ==
    /\ memories[i].topic = "close" /\ memories[i].status = "approved"
    /\ ~\E n \in DOMAIN receipts : receipts[n].act.subject = Memory(i) /\ receipts[n].act.action = "reopened"
    /\ Emit(<<Act(Memory(i), "reopened", a, None)>>, <<NoCommit>>)
    /\ UNCHANGED <<memories, judgments, removed>>

ProposeJudgment(pred) ==
    /\ Len(judgments) < MaxJudgments
    /\ ~\E j \in JudgmentIds : judgments[j].status = "proposed"
    /\ pred # 0 => judgments[pred].status = "confirmed"
    /\ judgments' = Append(judgments, [pred |-> pred, judge |-> None, status |-> "proposed", succ |-> 0])
    /\ UNCHANGED <<memories, receipts, records, removed, unsealed>>

\* A decision commits the resulting judgment; the predecessor it supersedes gets
\* no receipt of its own.
DecideJudgment(a, j, to) ==
    LET row == [judgments[j] EXCEPT !.status = to, !.judge = a]
    IN  /\ judgments[j].status = "proposed"
        /\ judgments' = [i \in JudgmentIds |->
               CASE i = j -> row
                 [] i = row.pred /\ to = "confirmed" ->
                        [judgments[i] EXCEPT !.status = "superseded", !.succ = j]
                 [] OTHER -> judgments[i]]
        /\ Emit(<<Act(Judgment(j), to, a, None)>>, <<JudgmentHash(row)>>)
        /\ UNCHANGED <<memories, removed>>

\* A link row is deleted by direct SQL.
RemoveLink(i, ref) ==
    /\ Cardinality(removed) < MaxRemoved
    /\ ref \in memories[i].evidence \cup memories[i].rules
    /\ memories' = [memories EXCEPT ![i].evidence = @ \ {ref}, ![i].rules = @ \ {ref}]
    /\ records' = {r \in records : ~(r.subject = Memory(i) /\ r.ref = ref)}
    /\ removed' = removed \cup {[id |-> i, ref |-> ref]}
    /\ UNCHANGED <<judgments, receipts, unsealed>>

SaveStep == \E a \in Actors, t \in Topics : Save(a, t)
LinkStep == \E i \in MemoryIds : \/ \E a \in Actors, ref \in Refs : LinkEvidence(a, i, ref)
                                 \/ \E a \in Actors, refs \in SUBSET Refs : LinkBatch(a, i, refs)
                                 \/ \E rule \in Rules : LinkRule(i, rule)
Verdicts == {"approved", "rejected", "returned", "voided"}
DecideStep == \E i \in MemoryIds : \/ \E a \in Actors, to \in Verdicts : DecideMemory(a, i, to)
                                   \/ \E to \in Verdicts : DecideUnsigned(i, to)
                                   \/ \E a \in Actors : ReopenPeriod(a, i)
JudgeStep == \/ \E pred \in {0} \cup JudgmentIds : ProposeJudgment(pred)
             \/ \E a \in Actors, j \in JudgmentIds, to \in {"confirmed", "rejected"} :
                    DecideJudgment(a, j, to)
RemoveStep == \E i \in MemoryIds, ref \in Refs \cup Rules : RemoveLink(i, ref)

Next == SaveStep \/ LinkStep \/ DecideStep \/ JudgeStep \/ RemoveStep
Spec == Init /\ [][Next]_vars

-----------------------------------------------------------------------------
\* MUTANT of Acts: only the latest receipt of the subject is verified.
LatestAct(s) == LET all == {n \in DOMAIN receipts : receipts[n].act.subject = s}
                IN  {n \in all : \A m \in all : m <= n}

\* Where the receipts of a subject are in the ledger.
Acts(s) == {n \in DOMAIN receipts : receipts[n].act.subject = s}

\* ReceiptActProvenance finds a record for these actions only.
Covered == {"recorded", "approved", "rejected", "voided", "superseded",
            "evidence_linked", "confirmed"}

Provenance(s) ==
    \A n \in Acts(s) : receipts[n].act.action \in Covered /\ receipts[n].act \in records

\* The state the latest committing receipt of a subject commits to.
Committed(s) == LET commits == {n \in Acts(s) : receipts[n].commit # NoCommit}
                IN  IF commits = {} THEN NoCommit ELSE receipts[Max(commits)].commit

\* The rows that the walk over the successors from row i comes through.
Walk(rows, i) ==
    {k \in DOMAIN rows : \A S \in SUBSET DOMAIN rows :
        (i \in S /\ \A j \in S : rows[j].succ \in S \cup {0}) => k \in S}

\* The walk ends, and only at its end is a row that is not superseded.
Supersession(rows, i) ==
    /\ \E k \in Walk(rows, i) : rows[k].succ = 0
    /\ \A k \in Walk(rows, i) : rows[k].status = "superseded" <=> rows[k].succ # 0

EvidenceAvailable(i) ==
    /\ \A n \in Acts(Memory(i)) : receipts[n].act.ref \in memories[i].evidence \cup {None}
    /\ Envelope(i) = Committed(Memory(i))

VerifyMemory(i) == Provenance(Memory(i)) /\ Supersession(memories, i) /\ EvidenceAvailable(i)

VerifyJudgment(j) ==
    /\ Provenance(Judgment(j)) /\ Supersession(judgments, j)
    /\ JudgmentHash(judgments[j]) = Committed(Judgment(j))

Tampered(i) == \E gone \in removed : gone.id = i
Missing(i)  == {gone.ref : gone \in {g \in removed : g.id = i}}
                   \ (memories[i].evidence \cup memories[i].rules)
Actions(s)  == {receipts[n].act.action : n \in Acts(s)}
Decided(j)  == Acts(Judgment(j)) # {}

\* A receipt of a batch: no row of the links answers to it.
Batched(i) == \E n \in Acts(Memory(i)) : /\ receipts[n].act.action = "evidence_linked"
                                          /\ receipts[n].act.ref = None

-----------------------------------------------------------------------------
\* INVARIANT.  A memory passes verification after any sequence of acts that have a
\* receipt and a record each: no batch of links, no return, close or reopening.  What
\* changes it without a receipt fails it until its next act, and no longer.  A judgment
\* passes while it is current.
ActsVerify ==
    /\ \A i \in MemoryIds : (/\ ~Tampered(i) /\ i \notin unsealed /\ ~Batched(i)
                             /\ Actions(Memory(i)) \subseteq Covered) => VerifyMemory(i)
    /\ \A j \in JudgmentIds : (Decided(j) /\ judgments[j].succ = 0) => VerifyJudgment(j)

\* INVARIANT.  A removed evidence link is never covered up: whatever is linked or
\* decided afterwards, the memory fails until that link is there again.
RemovalIsDetected ==
    \A i \in MemoryIds : Missing(i) \cap Refs # {} => ~VerifyMemory(i)

\* VIOLATED.  "A link removed (even by direct SQL) is detected. Same for rules via
\* `rule_links`" (contracts/verification.md:103).
RuleRemovalIsDetected ==
    \A i \in MemoryIds : Missing(i) \cap Rules # {} => ~VerifyMemory(i)

\* VIOLATED.  "Comparing every historical result would falsely fail after legitimate
\* later links/transitions" (contracts/verification.md:131): a rule link is one, the
\* deprecated approval another.
LaterChangesVerify ==
    \A i \in MemoryIds : (~Tampered(i) /\ ~Batched(i) /\ Actions(Memory(i)) \subseteq Covered)
                             => VerifyMemory(i)

\* VIOLATED.  "Every covered act matches its immutable event"
\* (internal/server/verify_service.go:105): those of a close and a return, too.
EveryActHasProvenance == \A i \in MemoryIds : ~Tampered(i) => Provenance(Memory(i))

\* VIOLATED.  An `evidence_linked` receipt carries "the exact evidence reference"
\* (contracts/receipts.md:92), so that the link is found again: a batch's is not.
LinkedEvidenceVerifies ==
    \A i \in MemoryIds : (~Tampered(i) /\ Actions(Memory(i)) \subseteq {"recorded", "evidence_linked"})
                             => Provenance(Memory(i))

\* VIOLATED.  "ComputeJudgmentHash of the current row equals the latest decision
\* receipt's resultingJudgmentHash" (contracts/verification.md:113), also once a
\* confirmed correction has superseded the judgment.
CorrectedJudgmentVerifies == \A j \in JudgmentIds : Decided(j) => VerifyJudgment(j)

=============================================================================
