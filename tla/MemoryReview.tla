---------------------------- MODULE MemoryReview ----------------------------
(***************************************************************************)
(* The authenticated review of pending memories and the period closure     *)
(* that approving a close memory projects.  A reviewer decides what the    *)
(* review surfaces showed earlier (sheets); every decision is one BEGIN    *)
(* IMMEDIATE transaction that recomputes the envelope.                     *)
(*                                                                         *)
(* Idempotency keys commit with the event they name, so the event is the   *)
(* completed key: a request id that has one is replayed or refused and     *)
(* changes nothing.                                                        *)
(***************************************************************************)
EXTENDS MemoryChains

CONSTANTS Requests, NoSheet

VARIABLES
    sheets,   \* sheets[p]: the envelope p was shown and may decide on
    events,   \* approval_events and memory_decision_events
    reopens   \* period_closure_events

vars == <<mem, cache, receipts, calls, closure, sheets, events, reopens>>

Verdicts == {"approved", "rejected", "returned"}
EventRows == [id : Nat, action : Verdicts, by : People, request : Requests,
              reviewed : Envelopes, resulting : Envelopes, open : BOOLEAN]
ReopenRows == [close : Nat, by : People, request : Requests]
Calls == [kind : {"transition"}, id : Nat, to : Statuses, succ : Nat, read : Statuses]
         \cup [kind : {"close"}, by : People]

\* INVARIANT.  Types of all tables of the review, and their foreign keys: a
\* successor and the close of a projected period name stored memories.
TypeOK ==
    /\ mem \in Seq(Rows) /\ Len(mem) <= MaxMemories
    /\ cache \in Seq(Envelopes) /\ Len(cache) = Len(mem)
    /\ receipts \subseteq Nat \X (Statuses \cup {"recorded", "closed", "reopened"})
    /\ calls \subseteq Calls
    /\ \A i \in Ids : mem[i].succ \in 0..Len(mem)
    /\ closure \in Closures /\ (closure.status # "open" => closure.close \in Ids)
    /\ sheets \in [People -> Envelopes \cup {NoSheet}]
    /\ events \subseteq EventRows
    /\ reopens \subseteq ReopenRows

Init == /\ ChainsInit
        /\ sheets = [p \in People |-> NoSheet]
        /\ events = {} /\ reopens = {}

-----------------------------------------------------------------------------
(* Reading what is to be decided: the queue serves the cached envelope, the
   detail a fresh one. *)

ListReviewQueue(p, i) ==
    /\ mem[i].status = "pending_review"
    /\ sheets' = [sheets EXCEPT ![p] = cache[i]]
    /\ UNCHANGED <<mem, cache, receipts, calls, closure, events, reopens>>

ReviewDetail(p, i) ==
    /\ mem[i].status = "pending_review"
    /\ sheets' = [sheets EXCEPT ![p] = Envelope(i)]
    /\ UNCHANGED <<mem, cache, receipts, calls, closure, events, reopens>>

-----------------------------------------------------------------------------
\* The two ledgers keep their request ids apart.
FreshRequest(ledger, r) == ~\E e \in events : e.action \in ledger /\ e.request = r

\* MUTANT of Decidable: separation of duties is forgotten.
DecidableBySelf(p, i) ==
    /\ mem[i].status = "pending_review"
    /\ sheets[p] = Envelope(i)

\* What approve, reject and return share: the status gate, the expected hash
\* against a fresh one, separation of duties.
Decidable(p, i) ==
    /\ mem[i].status = "pending_review"
    /\ sheets[p] = Envelope(i)
    /\ ~SODViolation(mem[i].by, p)

\* The guarded status write with its event, audit row, receipts and cache.
Decide(p, i, verdict, r, acts) ==
    LET row == Moved(mem[i], verdict, mem[i].succ)
    IN  /\ Mintable(acts)
        /\ mem' = [mem EXCEPT ![i] = row]
        /\ cache' = [cache EXCEPT ![i] = EnvelopeOf(i, row)]
        /\ events' = events \cup
              {[id |-> i, action |-> verdict, by |-> p, request |-> r,
                reviewed |-> Envelope(i), resulting |-> EnvelopeOf(i, row),
                open |-> PeriodOpen]}
        /\ receipts' = receipts \cup acts
        /\ UNCHANGED <<calls, sheets, reopens>>

\* MUTANT of ProjectClosure: the projection keeps the close it named before.
ProjectStatusOnly(i) ==
    IF IsCloseMemory(mem[i])
    THEN closure.status # "closed" /\ closure' = [closure EXCEPT !.status = "closed"]
    ELSE UNCHANGED closure

\* Approving a close memory closes the period, unless another one closed it.
ProjectClosure(i) ==
    IF IsCloseMemory(mem[i])
    THEN closure.status # "closed" /\ closure' = [status |-> "closed", close |-> i]
    ELSE UNCHANGED closure

ApprovalActs(i) ==
    {<<i, "approved">>} \cup IF IsCloseMemory(mem[i]) THEN {<<i, "closed">>} ELSE {}

ApproveMemory(p, i, r, inspected) ==
    /\ FreshRequest({"approved"}, r)
    /\ Decidable(p, i)
    /\ MayApprove(p, mem[i].draft.effect, mem[i].draft.level)
    /\ ReviewChecksRequired(mem[i].draft.level) => inspected
    /\ Decide(p, i, "approved", r, ApprovalActs(i))
    /\ ProjectClosure(i)

RejectReasonRequired(row) ==
    row.draft.level # "normal" \/ row.draft.effect \in {"closing", "declaration", "sunat_filing"}

\* Reject and return check the principal's scopes but no role.
DecidePendingMemory(p, i, verdict, r, reason) ==
    /\ FreshRequest({"rejected", "returned"}, r)
    /\ Credential[p].tenant /\ Credential[p].company
    /\ Decidable(p, i)
    /\ (verdict = "returned" \/ RejectReasonRequired(mem[i])) => reason
    /\ Decide(p, i, verdict, r, {<<i, verdict>>})
    /\ UNCHANGED closure

-----------------------------------------------------------------------------
(* Period close and reopen. *)

\* CreateClose reads the newest close of the period and the projection ...
ReadForClose(p) ==
    LET chain == Chain(CloseTopic)
        last  == IF chain = {} THEN "none" ELSE mem[Newest(chain)].status
    IN  /\ Cardinality(calls) < MaxCalls
        /\ last # "pending_review"
        /\ last = "approved" => closure.status = "reopened"
        /\ calls' = calls \cup {[kind |-> "close", by |-> p]}
        /\ UNCHANGED <<mem, cache, receipts, closure, sheets, events, reopens>>

\* ... and saves in a transaction of its own.
SaveClose(c, draft) ==
    /\ c.kind = "close"
    /\ IsCloseMemory([draft |-> draft])
    /\ SaveRow(c.by, draft, "close")
    /\ calls' = calls \ {c}
    /\ UNCHANGED <<closure, sheets, events, reopens>>

\* MUTANT of ReopenPeriod: the close named by the caller is not compared.
ReopenAnyClose(p, i, r) ==
    /\ ~\E e \in reopens : e.request = r
    /\ closure.status = "closed"
    /\ MayApprove(p, "closing", "normal")
    /\ Mintable({<<i, "reopened">>})
    /\ closure' = [closure EXCEPT !.status = "reopened"]
    /\ reopens' = reopens \cup {[close |-> i, by |-> p, request |-> r]}
    /\ receipts' = receipts \cup {<<i, "reopened">>}
    /\ UNCHANGED <<mem, cache, calls, sheets, events>>

ReopenPeriod(p, i, r) ==
    /\ ~\E e \in reopens : e.request = r
    /\ closure = [status |-> "closed", close |-> i]
    /\ MayApprove(p, "closing", "normal")
    /\ Mintable({<<i, "reopened">>})
    /\ closure' = [closure EXCEPT !.status = "reopened"]
    /\ reopens' = reopens \cup {[close |-> i, by |-> p, request |-> r]}
    /\ receipts' = receipts \cup {<<i, "reopened">>}
    /\ UNCHANGED <<mem, cache, calls, sheets, events>>

-----------------------------------------------------------------------------
reviewOnly == <<sheets, events, reopens>>

SaveStep   == \E p \in People, d \in Drafts : Save(p, d) /\ UNCHANGED reviewOnly
LinkStep   == /\ \/ \E i \in Ids, ref \in Refs : AddLink(i, ref)
                 \/ \E i \in Ids, refs \in SUBSET Refs \ {{}} : AddLinksBound(i, refs)
              /\ UNCHANGED reviewOnly
LegacyRead == \E kind \in {"agent", "human", "system"}, i \in Ids :
                 /\ ReadForStatus(kind, i) \/ \E j \in Ids : ReadForSupersede(kind, i, j)
                 /\ UNCHANGED reviewOnly
LegacyWrite == \E c \in calls :
                 /\ ApplyStatusTransition(c) \/ SupersedeExplicit(c) \/ CallEnds(c)
                 /\ UNCHANGED reviewOnly
ReadStep   == \E p \in People, i \in Ids : ListReviewQueue(p, i) \/ ReviewDetail(p, i)
ApproveStep == \E p \in People, i \in Ids, r \in Requests, b \in BOOLEAN :
                 ApproveMemory(p, i, r, b)
DecideStep == \E p \in People, i \in Ids, r \in Requests, b \in BOOLEAN,
                 v \in {"rejected", "returned"} : DecidePendingMemory(p, i, v, r, b)
CloseStep  == \/ \E p \in People : ReadForClose(p)
              \/ \E c \in calls, d \in Drafts : SaveClose(c, d)
ReopenStep == \E p \in People, i \in Ids, r \in Requests : ReopenPeriod(p, i, r)

Next == \/ SaveStep \/ LinkStep \/ LegacyRead \/ LegacyWrite \/ ReadStep
        \/ ApproveStep \/ DecideStep \/ CloseStep \/ ReopenStep

Spec == Init /\ [][Next]_vars

=============================================================================
