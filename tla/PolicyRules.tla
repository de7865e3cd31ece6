----------------------------- MODULE PolicyRules -----------------------------
(***************************************************************************)
(* Fiscal rules and the decisions that rest on them (core/rules.go,        *)
(* server/rules_service.go, server/verify_service.go, the rule links of    *)
(* store/store.go).  A rule is a chain of revisions of one topic and       *)
(* scope, each with a window of validity; a decision has an instant of its *)
(* own, which may lie in the past or the future, and pins at most one      *)
(* revision.  Verification asks later which revision was in force at that  *)
(* instant, and what its status was; the impact report asks which          *)
(* decisions a revision concerns.  The chain belongs to an institutional   *)
(* scope, which has no periods; the decisions belong to one period.        *)
(* Instants have the canonical shape in which the code's comparison of     *)
(* texts is the order of time.                                             *)
(***************************************************************************)
EXTENDS Integers, FiniteSets, Sequences, SequencesExt

CONSTANTS Windows,     \* windows of validity that rules and decisions declare
          MaxTime, MaxRevisions, MaxDecisions,
          MaxWait      \* how long a write may wait for the lock

VARIABLES now, chain, decisions, closed

vars == <<now, chain, decisions, closed>>

Times   == 0..MaxTime
Forever == MaxTime + 1         \* no end
NoStart == -1                  \* no declared start
NoLink  == 0
Bare    == -1                  \* a reference that the decision was saved with, without a link
Legacy  == -2                  \* a link without a version

Undeclared == [from |-> NoStart, to |-> Forever]

PolicyRulesAssumption ==
    /\ {MaxTime, MaxRevisions, MaxDecisions, MaxWait} \subseteq Nat
    /\ Windows \subseteq [from : {NoStart} \cup Times, to : Times \cup {Forever}]

Statuses  == {"active", "voided", "superseded"}
Revisions == [window : Windows, effective : Times,
              log : Seq([to : Statuses, at : Times])]
Decisions == [at : Times, window : Windows, link : {NoLink, Bare, Legacy} \cup (1..MaxRevisions)]

TypeOK == /\ now \in Times /\ closed \in BOOLEAN
          /\ chain \in Seq(Revisions) /\ Len(chain) <= MaxRevisions
          /\ decisions \in Seq(Decisions) /\ Len(decisions) <= MaxDecisions

Init == now = 0 /\ chain = <<>> /\ decisions = <<>> /\ closed = FALSE

\* The status the log of a revision leads to.
Status(m) == IF m.log = <<>> THEN "active" ELSE Last(m.log).to

Moved(m, to, stamp) == [m EXCEPT !.log = Append(@, [to |-> to, at |-> stamp])]

\* A write is stamped before it waits for the lock.
Stamps == {t \in Times : now - MaxWait <= t /\ t <= now}

-----------------------------------------------------------------------------
(* Operations *)

\* Save of a rule: the head of the chain is superseded unless it is terminal.
SaveRule(window, effective, stamp) ==
    LET head  == Len(chain)
        prior == IF head > 0 /\ Status(chain[head]) = "active"
                 THEN [chain EXCEPT ![head] = Moved(@, "superseded", stamp)]
                 ELSE chain
    IN  /\ head < MaxRevisions
        /\ chain' = Append(prior, [window |-> window, effective |-> effective, log |-> <<>>])
        /\ UNCHANGED <<now, decisions, closed>>

\* A rule is voided by a call that read it while it was active; a save may have
\* superseded it since.
VoidRule(i, stamp) ==
    /\ Status(chain[i]) # "voided"
    /\ chain' = [chain EXCEPT ![i] = Moved(@, "voided", stamp)]
    /\ UNCHANGED <<now, decisions, closed>>

\* Save of a decision, with the revision it pins if it pins one.
SaveDecision(at, window, link) ==
    /\ ~closed /\ Len(decisions) < MaxDecisions
    /\ link \in {NoLink, Bare} \cup DOMAIN chain
    /\ decisions' = Append(decisions, [at |-> at, window |-> window, link |-> link])
    /\ UNCHANGED <<now, chain, closed>>

\* AddRuleLink and AddRuleLinkVersion: the first link of a decision to the topic
\* stays; the same again is no change, another one is a conflict.  A bare reference
\* has no row in the way.
AddRuleLink(d, link) ==
    /\ ~closed
    /\ decisions[d].link \in {NoLink, Bare}
    /\ decisions' = [decisions EXCEPT ![d].link = link]
    /\ UNCHANGED <<now, chain, closed>>

TogglePeriod == closed' = ~closed /\ UNCHANGED <<now, chain, decisions>>
Tick == now < MaxTime /\ now' = now + 1 /\ UNCHANGED <<chain, decisions, closed>>

RuleStep     == \E stamp \in Stamps :
                    \/ \E w \in Windows, t \in Times : SaveRule(w, t, stamp)
                    \/ \E i \in DOMAIN chain : VoidRule(i, stamp)
DecisionStep == \/ \E t \in Times, w \in Windows, k \in {NoLink, Bare} \cup DOMAIN chain :
                      SaveDecision(t, w, k)
                \/ \E d \in DOMAIN decisions, k \in {Legacy} \cup DOMAIN chain : AddRuleLink(d, k)

Next == RuleStep \/ DecisionStep \/ TogglePeriod \/ Tick
Spec == Init /\ [][Next]_vars

-----------------------------------------------------------------------------
(* Verification: the trace of one decision *)

\* Without a declared start a revision is in force from its own date on.
InForce(m, t) ==
    IF m.window.from = NoStart THEN t >= m.effective
    ELSE m.window.from <= t /\ t < m.window.to

InForceAt(t) == {i \in DOMAIN chain : InForce(chain[i], t)}

\* MUTANT of StatusAsOf: the status of today.
StatusNow(m, t) == Status(m)

StatusAsOf(m, t) ==
    LET past == {n \in DOMAIN m.log : m.log[n].at <= t}
    IN  IF past = {} THEN "active" ELSE m.log[Max(past)].to

Outcome(d) ==
    LET found == InForceAt(d.at)
    IN  CASE d.link \in {NoLink, Bare, Legacy} -> "skipped"
          [] found = {}                   -> "RULE_NOT_IN_FORCE"
          [] Cardinality(found) > 1       -> "RULE_VIGENCIA_OVERLAP"
          [] found # {d.link}             -> "RULE_VERSION_MISMATCH"
          [] StatusAsOf(chain[d.link], d.at) # "active" -> "RULE_STATUS_INVALID"
          [] OTHER                        -> "passed"

-----------------------------------------------------------------------------
(* The impact report: which decisions does a revision concern? *)

\* The interval of a decision: its window, or its instant twice.
Interval(d) == IF d.window.from # NoStart THEN d.window ELSE [from |-> d.at, to |-> d.at]

\* A window with no end is read as the instant it starts at.
IntervalsOverlap(i, w) ==
    IF i.to = Forever
    THEN (w.from = NoStart \/ i.from >= w.from) /\ i.from < w.to
    ELSE (w.from = NoStart \/ i.to > w.from) /\ i.from < w.to

\* What RuleImpact answers for a revision: the decisions that refer to the topic,
\* each with whether it meets the window of the revision.
RuleImpact(i) == {[item |-> d, overlaps |-> IntervalsOverlap(Interval(decisions[d]), chain[i].window)] :
                  d \in {e \in DOMAIN decisions : decisions[e].link # NoLink}}

-----------------------------------------------------------------------------
\* ACTION PROPERTY.  The past stands: what verification says of a decision older
\* than any write in progress changes only when its own link is made or a further
\* revision claims the instant of the decision.  Superseding and voiding rules,
\* in any order and with any stamps, leaves it alone.
PastTracesStand ==
    [][\A d \in DOMAIN decisions :
          LET old == decisions[d]
          IN  (old.at + MaxWait < now /\ decisions'[d] = old /\ Outcome(old)' # Outcome(old)) =>
                 \E j \in DOMAIN chain' \ DOMAIN chain : InForce(chain'[j], old.at)]_vars

Covers(w) == {t \in Times : w.from <= t /\ t < w.to}
Extent(d) == IF d.window.from = NoStart THEN {d.at} ELSE Covers(d.window)

\* VIOLATED.  "a decision exactly at the window start IS in force; an empty bound is
\* unbounded" (internal/core/rules.go:83): the report says of a decision that it meets
\* the window of a revision exactly when they share an instant.
ImpactIsExact ==
    \A i \in DOMAIN chain : \A r \in RuleImpact(i) :
        r.overlaps <=> Extent(decisions[r.item]) \cap Covers(chain[i].window) # {}

=============================================================================
