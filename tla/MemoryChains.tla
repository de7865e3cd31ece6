---------------------------- MODULE MemoryChains ----------------------------
(***************************************************************************)
(* The accounting memories of one company and period: immutable revisions  *)
(* chained by topic, their status machine, their links and the derived     *)
(* envelope cache.  Each store operation is one transaction and one        *)
(* action.  The legacy API is different: it reads a memory, checks the     *)
(* transition against the status it read, and then calls a store operation *)
(* that writes without comparing; between the two stands a member of calls *)
(* (docs/architecture/approval-principal-step1.md names the hole, and the  *)
(* authenticated operations of MemoryReview close it).                     *)
(*                                                                         *)
(* An envelope hash is modelled by what it covers and what can change: the *)
(* memory's id (its immutable content), status, successor and links.       *)
(***************************************************************************)
EXTENDS ApprovalPolicy, FiniteSets

CONSTANTS
    Drafts,         \* contents a caller may save: topic, effect, level, summary
    CloseTopic,     \* the canonical topic closing/CIERRE-<period>
    Refs,           \* evidence and rule references that may be linked later
    LegacyApprove,  \* the deprecated approve route is mounted (http.go:426)
    MaxMemories,    \* bound: revisions written
    MaxCalls        \* bound: legacy calls between their read and their write

VARIABLES
    mem,       \* observations, in insertion order; the id is the index
    cache,     \* observations.envelope_hash, the derived cache
    receipts,  \* <<subject, action>> of the actions that are singletons
    calls,     \* callers between a check and the write it justified
    closure    \* period_closures: the row of this period

chainVars == <<mem, cache, receipts, calls, closure>>

ASSUME ChainsAssumption ==
    /\ Drafts \subseteq [topic : STRING, effect : FiscalEffects,
                         level : Levels, summary : BOOLEAN]
    /\ LegacyApprove \in BOOLEAN /\ MaxMemories \in Nat /\ MaxCalls \in Nat

Statuses == {"active", "pending_review", "approved", "rejected", "returned",
             "superseded", "voided"}

IsLegalV2Transition(from, to) ==
    \/ from = "pending_review" /\ to \in Statuses \ {"active", "pending_review"}
    \/ from = "returned" /\ to = "superseded"
    \/ from \in {"active", "approved"} /\ to \in {"voided", "superseded"}

InitialStatus(effect) == IF effect = "none" THEN "active" ELSE "pending_review"
Supersedable(status)  == IsLegalV2Transition(status, "superseded")

Ids == 1..Len(mem)
Rows == [draft : Drafts, rev : Nat, by : People, via : {"save", "close"},
         status : Statuses, succ : Nat, links : SUBSET Refs,
         log : Seq(Statuses \X Statuses)]
Envelope(i) == [id |-> i, status |-> mem[i].status, succ |-> mem[i].succ,
                links |-> mem[i].links]
EnvelopeOf(i, row) == [id |-> i, status |-> row.status, succ |-> row.succ,
                       links |-> row.links]
Envelopes == [id : Nat, status : Statuses, succ : Nat, links : SUBSET Refs]

Chain(topic) == {i \in Ids : mem[i].draft.topic = topic}
Newest(S)    == CHOOSE i \in S : \A j \in S : mem[j].rev <= mem[i].rev
Predecessor(i) ==
    {j \in Chain(mem[i].draft.topic) : mem[j].rev + 1 = mem[i].rev}

IsCloseMemory(row) ==
    row.draft.summary /\ row.draft.effect = "closing" /\ row.draft.topic = CloseTopic

Closures == [status : {"open", "closed", "reopened"}, close : Nat]
PeriodOpen == closure.status # "closed"

ChainsInit ==
    /\ mem = <<>> /\ cache = <<>> /\ receipts = {} /\ calls = {}
    /\ closure = [status |-> "open", close |-> 0]

\* A row after a status write, and the same with the log entry of a caller
\* that trusts the status it read earlier.
Moved(row, to, succ) ==
    [row EXCEPT !.status = to, !.succ = succ,
                !.log = Append(@, <<row.status, to>>)]

\* One receipt per subject and action: a second one rolls the whole act back.
Mintable(acts) == acts \cap receipts = {}

-----------------------------------------------------------------------------
\* MUTANT of SupersedePrev: a decided revision is left current.
SupersedePrevPending(j, i) ==
    IF mem[j].status = "pending_review" THEN Moved(mem[j], "superseded", i) ELSE mem[j]

\* The previous revision after a save: superseded when that is legal, and left
\* alone when it is terminal.
SupersedePrev(j, i) ==
    IF Supersedable(mem[j].status) THEN Moved(mem[j], "superseded", i) ELSE mem[j]

\* A new immutable revision of the topic; the previous one is superseded in the
\* same transaction, with both receipts and the new row's envelope cache.
SaveRow(p, draft, via) ==
    LET i    == Len(mem) + 1
        old  == Chain(draft.topic)
        prev == IF old = {} THEN 0 ELSE Newest(old)
        row  == [draft |-> draft, by |-> p, via |-> via,
                 rev |-> IF prev = 0 THEN 1 ELSE mem[prev].rev + 1,
                 status |-> InitialStatus(draft.effect), succ |-> 0,
                 links |-> {}, log |-> <<>>]
        acts == {<<i, "recorded">>} \cup
                IF prev # 0 /\ Supersedable(mem[prev].status)
                THEN {<<prev, "superseded">>} ELSE {}
    IN  /\ i <= MaxMemories
        /\ PeriodOpen
        /\ Mintable(acts)
        /\ mem' = Append([j \in Ids |-> IF j = prev THEN SupersedePrev(j, i)
                                        ELSE mem[j]], row)
        /\ cache' = Append(cache, EnvelopeOf(i, row))
        /\ receipts' = receipts \cup acts

Save(p, draft) == SaveRow(p, draft, "save") /\ UNCHANGED <<calls, closure>>

\* MUTANT of Link: the cache keeps the envelope from before the link.
LinkKeepsCache(i, refs) ==
    /\ PeriodOpen
    /\ mem' = [mem EXCEPT ![i].links = @ \cup refs]
    /\ UNCHANGED <<cache, receipts, calls, closure>>

\* Links may grow on a memory of any status; the cache is refreshed.  Linking
\* twice changes nothing.  Link receipts are not singletons.
Link(i, refs) ==
    /\ PeriodOpen
    /\ mem' = [mem EXCEPT ![i].links = @ \cup refs]
    /\ cache' = [cache EXCEPT ![i] =
                    EnvelopeOf(i, [mem[i] EXCEPT !.links = @ \cup refs])]
    /\ UNCHANGED <<receipts, calls, closure>>

\* One reference per transaction, or a batch of them with one fiscal binding.
AddLink(i, ref)        == Link(i, {ref})
AddLinksBound(i, refs) == Link(i, refs)

-----------------------------------------------------------------------------
(* The legacy API: read and check, then write. *)

LegacyTargets == {"rejected", "voided"} \cup IF LegacyApprove THEN {"approved"} ELSE {}

\* Who calls is what the caller says of itself: reject and approve need a human,
\* void anyone but an agent, supersede nobody in particular.
MayCall(kind, to) == \/ to = "superseded" \/ kind = "human"
                     \/ to = "voided" /\ kind = "system"

\* gatedTransition and Supersede up to the call of the store.
ReadForTransition(kind, i, to, succ) ==
    /\ Cardinality(calls) < MaxCalls
    /\ MayCall(kind, to)
    /\ IsLegalV2Transition(mem[i].status, to)
    /\ calls' = calls \cup {[kind |-> "transition", id |-> i, to |-> to,
                             succ |-> succ, read |-> mem[i].status]}
    /\ UNCHANGED <<mem, cache, receipts, closure>>

ReadForStatus(kind, i)       == \E to \in LegacyTargets : ReadForTransition(kind, i, to, 0)
ReadForSupersede(kind, i, j) == i # j /\ ReadForTransition(kind, i, "superseded", j)

\* The receipt actions a status write mints (none for an approval).
LegacyActs(c) == IF c.to = "approved" THEN {} ELSE {<<c.id, c.to>>}

\* MUTANT of WriteStatus: the audit row takes the status the caller read.
WriteStatusAsRead(c, succ) ==
    /\ PeriodOpen /\ Mintable(LegacyActs(c))
    /\ mem' = [mem EXCEPT ![c.id].status = c.to, ![c.id].succ = succ,
                          ![c.id].log = Append(@, <<c.read, c.to>>)]
    /\ receipts' = receipts \cup LegacyActs(c)
    /\ calls' = calls \ {c}
    /\ UNCHANGED <<cache, closure>>

\* MUTANT of WriteStatus: the period gate was passed when the caller read.
WriteStatusUngated(c, succ) ==
    /\ Mintable(LegacyActs(c))
    /\ mem' = [mem EXCEPT ![c.id] = Moved(@, c.to, succ)]
    /\ receipts' = receipts \cup LegacyActs(c)
    /\ calls' = calls \ {c}
    /\ UNCHANGED <<cache, closure>>

\* The write does not compare the status with the one the caller checked; the
\* audit row is read inside the transaction.
WriteStatus(c, succ) ==
    /\ PeriodOpen /\ Mintable(LegacyActs(c))
    /\ mem' = [mem EXCEPT ![c.id] = Moved(@, c.to, succ)]
    /\ receipts' = receipts \cup LegacyActs(c)
    /\ calls' = calls \ {c}
    /\ UNCHANGED <<cache, closure>>

ApplyStatusTransition(c) ==
    c.kind = "transition" /\ c.to # "superseded" /\ WriteStatus(c, mem[c.id].succ)
SupersedeExplicit(c) ==
    c.kind = "transition" /\ c.to = "superseded" /\ WriteStatus(c, c.succ)

\* The write fails (closed period, duplicate receipt) or the caller is gone.
CallEnds(c) == calls' = calls \ {c} /\ UNCHANGED <<mem, cache, receipts, closure>>

=============================================================================
