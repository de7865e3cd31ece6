-------------------------- MODULE MemoryProperties --------------------------
(***************************************************************************)
(* What must be true of the memories, their review and their period.       *)
(***************************************************************************)
EXTENDS MemoryReview

Terminal == {"rejected", "superseded", "voided"}
Decision(i) == {e \in events : e.id = i}

\* INVARIANT.  A chain has one current revision: whatever saves, decisions and
\* stale legacy writes did, every older revision is terminal.  (Save writes the
\* supersession of the old row and the new row together.)
OneCurrentRevision ==
    \A i, j \in Ids :
        mem[i].draft.topic = mem[j].draft.topic /\ mem[i].rev < mem[j].rev
            => mem[i].status \in Terminal

\* INVARIANT.  The audit trail replays to the status: it starts at the initial
\* status, every row leaves from where the last one arrived, and it ends at the
\* stored status.  Sync replays these rows (store.go: "so sync can replay it").
LogReplaysToStatus ==
    \A i \in Ids :
        LET log == mem[i].log
            at(k) == IF k = 0 THEN InitialStatus(mem[i].draft.effect) ELSE log[k][2]
        IN  /\ \A k \in DOMAIN log : log[k][1] = at(k - 1)
            /\ mem[i].status = at(Len(log))

\* INVARIANT.  The queue offers the exact envelope to sign: for a pending
\* memory the derived cache is never stale, whichever operation wrote last.
QueueShowsCurrent ==
    \A i \in Ids : mem[i].status = "pending_review" => cache[i] = Envelope(i)

\* INVARIANT.  A memory is decided once by an authenticated person, on the
\* envelope that person was shown, and never by its proposer; links that grow
\* between review and decision refuse the decision, and an approval needs roles that
\* reach the declared materiality, not only the effect's base role.
DecidedAsReviewed ==
    \A e \in events :
        /\ Decision(e.id) = {e}
        /\ e.by # mem[e.id].by
        /\ e.reviewed.status = "pending_review"
        /\ e.resulting.links = e.reviewed.links
        /\ e.action = "approved" =>
              LET d == mem[e.id].draft
              IN  Satisfies(Credential[e.by].roles, RequiredRole(BaseRole(d.effect), d.level))

\* INVARIANT.  A closed period is closed by a current, approved close memory
\* with its approval event and its receipt, through close, reopen and close
\* again, and every reopening names a close that was closed.
ClosedByApprovedClose ==
    /\ closure.status = "closed" =>
          /\ closure.close \in Ids /\ IsCloseMemory(mem[closure.close])
          /\ mem[closure.close].status = "approved"
          /\ closure.close = Newest(Chain(CloseTopic))
          /\ \E e \in Decision(closure.close) : e.action = "approved"
    /\ \A r \in reopens : <<r.close, "closed">> \in receipts

\* ACTION PROPERTY.  While the period is closed no revision, link, legacy
\* transition or supersession gets through, whoever passed a check before the
\* close; only review decisions on memories that were pending do.
ClosedPeriodIsFrozen ==
    [][~PeriodOpen => /\ Len(mem') = Len(mem)
                      /\ \A i \in Ids : mem'[i].links = mem[i].links
                      /\ \A i \in Ids : mem'[i].status # mem[i].status
                                            => \E e \in events' \ events : e.id = i]_vars

-----------------------------------------------------------------------------
(* Statements of the documents that the code does not keep *)

\* VIOLATED.  "rejected, superseded and voided are terminal: they never reopen"
\* (contracts/lifecycle.md:52).
TerminalStaysTerminal ==
    \A i \in Ids : \A k \in DOMAIN mem[i].log : mem[i].log[k][1] \notin Terminal

\* VIOLATED.  Status transitions of a closed period are gated
\* (docs/architecture/close-intelligence-v0.5.md:85, contracts/closing.md).
NoDecisionInClosedPeriod ==
    \A e \in events : ~e.open => IsCloseMemory(mem[e.id])

\* VIOLATED.  CreateClose "rejects another current close for that scope"
\* (contracts/closing.md:23): no close created by it replaces one under review.
CloseWaitsForReview ==
    \A i \in Ids : mem[i].via = "close" =>
        \A j \in Predecessor(i) :
            mem[j].draft.effect = "closing" => <<"pending_review", "superseded">> \notin
                {mem[j].log[k] : k \in DOMAIN mem[j].log}

\* VIOLATED.  "routing readers to the successor" (contracts/lifecycle.md): from a
\* superseded memory the successors lead to one that is not superseded.
RoutingEnds ==
    ~\E S \in SUBSET Ids \ {{}} :
        \A i \in S : mem[i].status = "superseded" /\ mem[i].succ \in S

=============================================================================
