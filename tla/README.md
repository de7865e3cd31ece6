# A TLA+ model of drenyra-engram

drenyra-engram is a store of accounting memory and fiscal evidence: one Go
program over one SQLite database in WAL mode, a directory of content-addressed
evidence files, and three adapters (CLI, MCP, HTTP). Agents observe and propose,
authenticated professionals decide, the engine records. This directory models
what the engine keeps: the evidence lifecycle, which ends in the physical
removal of a file; the memories with their review, their periods and their
synchronisation; judgments and reconciliations; the receipts, fiscal links and
rule versions that acts leave behind, with the verdict of offline verification
on them; and what happens before an operation runs, migrations and principals.

- [1. The system](#1-the-system)
- [2. The modules](#2-the-modules)
- [3. The abstractions](#3-the-abstractions)
- [4. The runs](#4-the-runs)
- [5. What the code does not keep](#5-what-the-code-does-not-keep)
- [6. The proofs](#6-the-proofs)
- [7. Not modelled, and what is left](#7-not-modelled-and-what-is-left)

Line numbers refer to `src/internal/` unless a path says otherwise.

## 1. The system

### Components

| Component | State | Operations | What makes it correct |
| --- | --- | --- | --- |
| Evidence objects (`store/object_store.go`) | `evidence_objects` rows; one file per SHA-256 | store, remove, availability | a row has its bytes, or a ledger says why not |
| Retention policies (`store/retention_policy_store.go`, `core/retention_policy.go`) | immutable versions per exact tuple | put, resolution, eligibility | resolution never guesses; a written version never changes |
| Legal holds (`store/hold_store.go`) | one-way hold rows | place, lift | an active blocking hold stops every step towards removal |
| Lifecycle authorization (`authz/evidence_lifecycle_policy.go`) | none | `Authorize` | the first failing check decides; separation of duties |
| Purge pipeline (`store/purge_store.go`) | request row, decision ledger, event log, projection, keys | request, approve, reject, cancel, withdraw | nothing is approved without independent people; the tables agree |
| Purge execution (`store/purge_execution_store.go`) | executions ledger | `ExecutePurge` with two recoveries | exactly one purge, whatever crashes or races |
| Memory store (`store/store.go` `Save`) | `observations`, links, `transition_log`, envelope cache | save, link, supersede, legacy transitions | one current revision per chain; the trail replays |
| Memory review (`ApproveMemory`, `store/review_store.go`) | approval and decision events, velocity events | queue, detail, approve, reject, return | a decision applies to exactly the envelope that was reviewed |
| Periods (`server/close_service.go`, `ReopenPeriod`) | `period_closures`, closure events | close by approval, reopen | a closed period accepts no gated write |
| Judgments (`ProposeJudgment`, `adjudicateJudgment`) | judgments, transitions, keys | propose, correct, confirm, reject, withdraw | one open proposal per tuple, one decision each, corrections route |
| Reconciliations (`store/reconciliation.go`) | reconciliations; their rows of the shared `relations` | the same | every confirmed pair is related, once; both periods gate it |
| Receipts (`receipts/`, `core/receipt.go`) | receipts chained per subject; keyring file; `signing_keys` | sign, first use, init, rotate | every chain verifies; a revoked key signs nothing |
| Offline verification (`server/verify_service.go`, `core/verify.go`) | none | verify a memory, a judgment | acts that commit to what they did verify, tampering does not |
| Fiscal scope (`store/fiscal_scope_store.go`) | bindings, links per subject, runtime mode of a handle | the gate of a write, the link of an act | every change of a bound subject is linked |
| Rules (`core/rules.go`, `server/rules_service.go`) | chains of rule revisions, rule links | save, void, link; trace, impact | a past decision is judged by the rules of its instant |
| Sync (`sync/sync.go`) | none of its own | additive merge of two stores | idempotent, independent of order, forks surface |
| Principals (`auth/`) | key cache; sessions and memberships | resolve a credential | who acts was a member with a live credential |
| Migrations (`store/store.go` `Open`, `migration_v*.go`) | `schema_version`, tables, triggers | a chain of steps to version 18 | a store opens whole or not at all |
| Doctor and drill, search, export, reports, sealed storage, adapters, the TypeScript mirror | derived or none | | section 7 |

### How they interact

Adapters resolve a verified principal and call one store operation. The store
operation opens one `BEGIN IMMEDIATE` transaction, re-reads what it acts on, runs
its gates (closed period, runtime mode, reviewed hash, blockers), then the
authorization, then writes its rows, the event, the receipt, derived caches and
its idempotency key, and commits. Calls between components are reads inside that
transaction. So in the models an operation is one action, and the interesting
places are the ones that leave this shape:

- the **execution of a purge** needs two transactions, since the intent must be
  durable before the file goes, and removes the file inside the second one;
- the **legacy transitions** of the API (`server/api.go:559`) and the creation of
  a close (`server/close_service.go:57`) check a row before the transaction that
  writes;
- `Save` takes its **time** before it waits for the lock (`store/store.go:2729`);
- the **keyring** is a file beside the database, replaced by rename;
- a **sync run** is a transaction per row between two stores;
- an **upgrade** is a transaction per step, on a version read once;
- a **request** reads key cache, session and membership one after the other.

### What is hard here

Other processes share the database (`store/store.go:3715`); crashes fall between
file and tables; a cancelled request is requested again on the same row; policies,
holds, periods and keys drift between any two steps; clocks are whole seconds
and may stand still; verification compares today's rows with yesterday's hashes.
`PROJECT.json` lists each hazard at its line, with the property that would catch
it, or with the reason why none does.

## 2. The modules

| Module | Models | State of the code it stands for |
| --- | --- | --- |
| `LifecycleAuthz` | `Authorize` as an ordered list of checks, the role matrix, the store's gate | none |
| `RetentionPolicies` | the version chain of one tuple, administration, resolution, eligibility | `retention_policies` |
| `EvidenceObjects` | row, file and period gate of one object | `evidence_objects`, the file, `period_closures.status` |
| `LegalHolds` | hold rows and what blocks | `evidence_holds` |
| `PurgePipeline` | snapshot, blockers, the five operations before execution | `evidence_purge_requests`, `_approvals`, `evidence_lifecycle_events`, `evidence_retention_state` |
| `PurgeExecution` | the lock, two transactions, file, crash and recovery; composes the six into `Spec` and `FairSpec` | `evidence_purge_executions` and its keys |
| `EvidenceLifecycle` | abstract: row, bytes, state, permit | |
| `PurgeProperties` | properties and refinement mapping | |
| `ApprovalPolicy` | the frozen approval policy check by check, materiality ladder | none |
| `MemoryChains` | save, supersession, links, batches, legacy transitions as read and write | `observations`, `evidence_links`, `rule_links`, `transition_log`, the cached envelope; `calls` are the legacy calls past their check |
| `MemoryReview` | queue, detail, approve, reject, return, close, reopen; extends `MemoryChains` | approval and decision events, `period_closures`; `sheets` are what reviewers were shown |
| `MemoryProperties` | the properties of both | |
| `ReviewVelocity` | the two counters of a reviewer and their alerts | the two ledgers, `review_velocity_events` |
| `Adjudication` | abstract: one open proposal per tuple, one decision, corrections | |
| `Judgments` | propose with both kinds of correction, confirm, reject, withdraw, keys | judgments, their transitions, relations |
| `Reconciliations` | the same over pairs with amounts and two periods, beside the other writers of the relation | reconciliations; the `reconciles` rows of `relations` |
| `Receipts` | signing with two kinds of times, first use, `keys init`, rotation, crashes | receipts, `signing_keys`, the keyring file, the clock |
| `Verification` | the layers of verification over every order of acts, links alone and in batches, transitions with and without a receipt; removal by SQL | memories and judgments as what their hashes cover, receipts as what they commit to |
| `FiscalScope` | the gate by handle mode, intents, links | `fiscal_scope_bindings`, `fiscal_binding_links` |
| `PolicyRules` | rule chains with windows, pinned decisions, trace and impact | rule memories with their transitions, `rule_links` |
| `SyncMerge` | a run as its transactions, beside local writers | two stores' rows, relations, trails |
| `Principals` | key cache with its refresh, tokens and sessions to the membership | cache, session, membership, clock |
| `Migrations` | the chain of eighteen steps with the remembered version | `schema_version`, which objects exist, the immutability guard |

The modules of the evidence lifecycle extend each other and are composed as one
system, because purges read policies, holds, objects and periods. So are memories
and their review. The others meet in two tables. Judgments and memories, say,
meet in the period, whose closing each module has as an action of its own. And
`relations` has several writers: a confirmed reconciliation inserts a `reconciles`
row, and so do a confirmed judgment of that relation (`store/store.go:5074`),
`Relate` and a sync; `Reconciliations` has them as `RelateElsewhere`, which inserts
what none of its confirmations justifies, at any time. `MCMemories`, `MCAdjudication`, `MCActs` and `MCServing` put several of
them into one run as a **sum**: the initial state chooses a `part`, the next-state
relation moves that part only. The states add up and do not multiply, and each
part is explored exactly as it would be alone. One part of each is the module they
extend (memories with their review, judgments with `ReviewVelocity`, bindings,
principals); the others are instances. `MCServing` instantiates `Migrations` twice,
as `Upgrade` by one process and as `Openers`, processes that create a store.

The theorems are in eight modules. `MemoryProofs`, `AdjudicationProofs`,
`ServingProofs` and `ActsProofs` extend the module of their run, so that they speak of
the formula that TLC checks; `PurgeProofs` extends `PurgeProperties`;
`ReconciliationProofs`, `ReceiptProofs` and `FiscalScopeProofs` extend their component,
and the run's module instantiates the component with constants that satisfy its
assumption.

Variables have the names of the tables or of what they hold, actions those of the
Go functions; the comment of each variable says which. `PROJECT.json` maps every
definition to its lines. Operators marked MUTANT are plausible bugs: replacing
the operator they name by one of them violates the property of section 4.

How the purge state corresponds to the code:

| Variable | Code |
| --- | --- |
| `policies` | `retention_policies`, ordered by version |
| `row`, `bytes` | `evidence_objects` row, the file `objects/ab/cd/sha256` |
| `closed` | `period_closures.status = 'closed'` for the object's period |
| `holds` | `evidence_holds` |
| `req`, `approvals` | the one `evidence_purge_requests` row of the object, the decisions of that id |
| `events` | `evidence_lifecycle_events`, each with its receipt |
| `proj` | `evidence_retention_state` |
| `execs` | `evidence_purge_executions` |
| `keys` | idempotency keys of execution ids: free, open (reserved), done (completed) |
| `gap` | calls that committed their intent and have not begun their second transaction |
| `tx` | the second transaction, while it holds the write lock |
| `rounds`, `roundStart` | history: how often the object was requested, where the round begins in the ledger |

The execution transaction is three actions: `ValidateExecution` (or
`RetryExecution`) takes the lock and re-runs the gates, `UnlinkBytes` removes the
file, `CommitExecution` or `AbortExecution` ends it. While `tx` is not `NoTx` no
other transaction runs, as in SQLite. A crash needs no action of its own:
`LeaveAttemptOpen` is a call that dies in the gap, `AbortExecution` one that dies
inside the transaction. In `Receipts` and
`SyncMerge` a process dies by `Crash`, in `Migrations` by `Close` at any phase, in
`Principals` by `Restart`, which empties the cache.

## 3. The abstractions

- **Hashes** are what they cover. A lifecycle hash is its snapshot, an envelope
  the fields that can change, an act's evidence its binding. Two hashes are equal
  in the model exactly when the canonical bytes are.
- **One of each.** One evidence object with one tuple of policies; one company and
  period of memories; one topic in `SyncMerge` and in `PolicyRules`. Operations on
  others share nothing with it but the write lock.
- **Idempotency keys** of one-transaction operations commit with their effect and
  a replay changes nothing. Modelled are those whose replay matters: execution ids,
  which outlive a transaction half done, the keys of judgments, whose replay must
  find its own row, and the request ids of the approval ledgers.
- **Receipts** of a purge event, a decision or a judgment commit with it. Their
  chain, keys and times are `Receipts`; what they commit to is `Verification`. The
  index that makes them unique by subject, action and payload appears as the guard
  `Mintable`: a memory is superseded, rejected, voided or returned once.
- **Commands that fail** change nothing and have no action, except where the
  failure itself leaves something (aborted stores, crashed signers, read errors in
  `FiscalScope`).
- **Times** are small numbers; in `PolicyRules` they stand for the canonical UTC
  texts whose lexical order the code relies on, and `MaxWait` for `busy_timeout`
  (`store/store.go:642`), the time between the stamp of a write and its commit.
- **Machine integers** have the width `Half`; Go's subtraction wraps, SQLite's
  check does not.
- **Cryptography** is reduced to "genuine": issuer, audience, algorithm and
  signature of a token, signature and public key of a receipt.
- **Migrations** keep the objects that make a second run of a step fail, the
  immutability guard and the one backfill that derives rows; SQLite's deferred
  transactions appear as a snapshot that a foreign commit invalidates.

## 4. The runs

Six runs pass and six are violated (section 5). Every passing run has one mutant
per property in `PROJECT.json`, a change of one mapped definition that a plausible
bug would make, which breaks the property under the run's own configuration.

| Run | Instance | What it shows |
| --- | --- | --- |
| `core` (`MCPurge`, `Purge.cfg`) | three people; 2 policy versions out of 4 contents; 1 hold; 2 execution ids; 2 rounds; `FairSpec` | one purge, recorded once; keys that closed tell the truth; separation of duties; projection, request and events agree; missing bytes are documented; one live intent; the removal is guarded at its own step; refinement of `EvidenceLifecycle`; removed bytes are completed |
| `review` (`MCMemories`, `Review.cfg`) | an accountant and a controller; an entry and a close; 2 memories, 1 reference, 1 legacy call, 1 request id | one current revision; the trail replays; the queue shows current envelopes; decisions are about what was shown, by somebody else, within reach of the approver's roles; nobody changes a closed period but by a decision |
| `periods` (`MCMemories`, `Periods.cfg`) | part `review` with 2 request ids and no references; parts `calm` (3 revisions, 3 records, 2 runs, undisturbed) and `busy` (2 revisions, 2 records, 2 runs, other writers, 1 crash) | a closed period has its approved, current close through reopening; a calm run carries rows and statuses over and links what only the sink has; every completed run carries the trail over |
| `adjudication` (`MCAdjudication`, `Adjudication.cfg`) | judgments: 2 tuples, 2 proposers, 6 requests, 4 judgments; reconciliations: one pair by 2 methods over 2 periods, integers of width `Half = 4`; 3 reconciliations, other writers of the relation; velocity: 4 decisions, thresholds 1 and 3 | both adjudications refine `Adjudication`; no order of corrections strands a proposal; events replay; retries find their own judgment; closed periods freeze; a confirmed pair is related once, whoever else relates it; bursts are reported and a run alerts once |
| `acts` (`MCActs`, `Acts.cfg`) | binding (an enforcing and a compatibility handle, 2 memories), batches (2 references), enforced (one enforcing handle); signing (2 signers, `keys init`, 1 rotation, crashes), rotations (2 at once); verification (2 memories, 2 judgments, 2 actors, 2 references, 3 receipts, 2 links removed by SQL); rules (2 revisions, 3 windows, 1 decision, times 0..2) | links show exactly the loose changes; guarded acts are linked; signing survives rotation and crash; revoked keys sign nothing; acts with a receipt and a record verify in any order and deleted evidence links do not; the trace of a past decision stands |
| `serving` (`MCServing`, `Serving.cfg`) | upgrade (1 process from version 1, foreign objects, 4 starts), openers (2 processes, new store, 5 starts), principals (1 request beside the whole world) and refreshes (2 requests with tokens of their own scope, while membership, session and clock stand still), 2 key generations, 1 restart | a store opens whole or not at all; the cache follows the issuer, but for what an overtaken answer does to it; who acts was a member; every request is answered |

**Why the bounds are enough.** Two rounds are the smallest number in which a
ledger or an attempt of an earlier round meets a later one, and two execution ids
let one attempt interrupt another that is between its transactions. With two
policy versions the bound and the resolved one differ. Two memories are a
revision and its predecessor, or a close and the close that replaces it; four
judgments are a correction of a correction beside a second tuple. Three revisions
fork a topic and go on with one branch; what a calm run leaves was also explored with
four revisions, three records and three runs (24 million states). Three receipts let a memory have an act, its
decision and a later change, or two memories a supersession; two rotations are the number that can race. A
decision may lie before, at the start of, inside and at the end of the windows.
The half width of the integers is irrelevant for wrapping, which happens at any.

**Deadlock.** Purges never stop: closing and reopening the period goes on, and
`core` checks it. Every other instance stops when its counters (memories,
judgments, receipts, runs, starts) are used up, which in the code they never
are; those configurations set `CHECK_DEADLOCK FALSE`.

**Fairness.** `FairSpec` of the purges assumes that a transaction holding the lock
ends (SQLite rolls back when its process dies), and that a caller whose call gave
no answer retries with the same execution id, the documented recovery
(`store/purge_execution_store.go:840`). Nothing is assumed of people. `Fairness` of
`Principals` is weak fairness of each request's next step: a handler goes on, and
the fetch of the keys ends by answer or by the client's timeout. Nothing is
assumed of the issuer. Safety runs state no fairness.

**Refinement.** `ImplementsLifecycle` maps `life` to the projection's state and
`permit` to "an attempt was ever recorded": bytes go only while the pipeline is
approved and permitted, and `purged` is said only of bytes that are gone.
`Adjudication` is implemented twice, by `Judgments` and by `Reconciliations`,
each mapping its rows to tuple, status and successor: what the two tables promise
is the same machine, though their commands differ.

**Symmetry** is used for references, requests, proposers, actors and stores, in
runs without liveness; the two people of `review` and `adjudication` have different
roles and are not interchangeable.

**Further mutants.** Properties of several parts were also tried with a mutant for
each other part, all of which violate them under the same configuration:

| Property | Mutant |
| --- | --- |
| `DecidedAsReviewed` | `MayApprove` as `MayApproveAtBase` |
| `ClosedByApprovedClose` | `ProjectClosure` as `ProjectStatusOnly` |
| `RunsConverge` | `Diverged` as `DivergedByRevision`, `ImportTransition` as `ImportTransitionIfBehind` |
| `CorrectionsLeaveTrail` | `SupersededBy` as `SupersededBySilently` |
| `EdgesFollowConfirmations` | `RejectReconciliation` as `RejectWithEdge` |
| `PairsAreAdjudicated` | `TupleFree` as `TupleAlwaysFree` |
| `AlertsMatchRuns` | `CrossesApprovals` as `CrossesApprovalsBefore` |
| `ActsAreLinked` | `GateOpen` as `GateOpenToLegacy` |
| `SigningSurvives` | `ChainHead` as `ChainHeadOfLedger` |
| `VerdictIsRight` | `Acts` as `LatestAct` |
| `StoreOpensWhole` | `Commit` as `CommitTwice`, `Conflict` as `ConflictIgnored`, `RefineGuard` as `RefineGuardNot` |
| `KeyCacheFollowsIssuer` | `Replace` as `ReplaceWhenEmpty` |

## 5. What the code does not keep

Each of these runs violates one property, which states what a document or a
comment of the repository says.

| Run | Statement | What happens |
| --- | --- | --- |
| `dual_approval` | dual categories need "two distinct human principals, independent acts" (`docs/architecture/evidence-lifecycle-v0.8.md:229`) | a decision row of an earlier round counts as the first approval (`store/purge_store.go:1440`) |
| `executed_approved` | execute needs a "prior human approval present and not withdrawn" (line 295) | after a withdrawal and a new request, a retry of the old id executes it (`store/purge_execution_store.go:923`) |
| `corrected_judgment` | a judgment's hash "equals the latest decision receipt's resultingJudgmentHash" (`contracts/verification.md:112`) | a confirmed correction supersedes its predecessor without a receipt, and the predecessor fails (`core/judgment.go:456`) |
| `batch_link` | an `evidence_linked` receipt has "the exact evidence reference" (`contracts/receipts.md:92`), and "every covered act matches its immutable event" (`server/verify_service.go:105`) | the batch under a binding emits one receipt without a reference (`store/store.go:6298`), so the provenance of the memory fails; no route of the daemon calls the batch |
| `sync_interrupted` | "promotion state propagates" by replay (`sync/sync.go:25`) | a crash between a record and its status: the next run finds the record and skips the status (`sync/sync.go:206`) |
| `rule_impact` | "a decision exactly at the window start IS in force; an empty bound is unbounded" (`core/rules.go:83`) | the interval of an instant is given with both ends, so the point case is never taken and the decision is reported as not overlapping (`core/rules.go:135`) |

### Further disagreements

These definitions are in their modules, marked VIOLATED, and TLC refutes them too:
add the definition as INVARIANT or PROPERTY to a configuration of the module with
the given constants (of `MCPurge` and `MCMemories`: to a run's configuration with
the changes named). They have no run of their own.

| Definition | Constants | What happens, and what it contradicts |
| --- | --- | --- |
| `PurgeProperties!RequestedCanBeApproved` | `Purge.cfg` with 1 policy | an approval and its withdrawal are two rows, and the next round can never be approved (`store/purge_store.go:1426`); a re-request is "a FRESH request" (line 130) |
| `PurgeProperties!StoredHasBytes` | the same | unlink, failed commit, withdrawal: stored, without bytes (line 1977); "Bytes present" (`docs/architecture/evidence-lifecycle-v0.8.md:280`) |
| `PurgeProperties!ResultingHashIsCurrent` | the same | reject and withdraw hash a decision list without their own row (line 1989); "of the last committed transition" (line 241) |
| `PurgeProperties!InterruptedRemovesNothing` | the same | an interrupted attempt unlinks, then fails to complete (`store/purge_execution_store.go:967`); "terminal for that attempt" (same document, line 467) |
| `MemoryProperties!TerminalStaysTerminal` | `Review.cfg`, `MaxMemories = 1`, `MaxCalls = 2` | a legacy transition checked before another writer came is written over a terminal status (`server/api.go:559`); `contracts/lifecycle.md:52` |
| `MemoryProperties!NoDecisionInClosedPeriod` | `Review.cfg`, 2 requests | decisions do not ask for the period (`store/review_store.go:700`); `docs/architecture/close-intelligence-v0.5.md:85` |
| `MemoryProperties!CloseWaitsForReview` | `Review.cfg` with two drafts of the close topic, `MaxCalls = 2` | two creations at once: the second replaces the first, under review (`server/close_service.go:57`); `contracts/closing.md:23` |
| `MemoryProperties!RoutingEnds` | `Review.cfg` | two explicit supersessions route to each other (`store/store.go:5614`); `contracts/lifecycle.md:81` |
| `Judgments!OneConfirmedPerTuple` | 1 tuple, 5 requests, 3 judgments | a confirmed tuple is proposed and confirmed again (`store/store.go:4718`); `contracts/judgment.md:89` |
| `Judgments!CorrectionReplacesConfirmed` | the same | the correction of an open correction leaves the root confirmed (`store/store.go:4700`); `docs/architecture/conflict-judgment-step2.md:73` |
| `ReviewVelocity!AlertNeedsFullRun` | window 1, thresholds 1 and 3, 5 decisions, time 4 | the decision is inserted before the streak is read and then counted again: the second rejection alerts (`store/review_store.go:1017`); `docs/architecture/review-workspace-v0.9.md:107` |
| `Receipts!MemoryChainsVerify` | `Subjects = Memories = {x}`, 2 signers, one early, `MaxTime = 1`, 1 key, 2 receipts | a save that stamped before it got the lock crosses the links (`store/store.go:2729`); `docs/architecture/offline-verification-step4.md:63` |
| `Receipts!ActiveKeyUsable` | 1 signer, 2 rotators, `MaxTime = 1`, 3 keys | the failing rotation restores a key that the other revoked (`receipts/signer.go:252`); line 180 |
| `Receipts!KeysCoverReceipts` | 1 signer, 1 rotator, `MaxTime = 2`, 2 keys | a receipt of the second of the revocation is not covered (`core/verify.go:329`); `docs/architecture/ed25519-receipts-step3.md:109` |
| `Receipts!SignersSeedKept` | 1 signer, 1 initializer, 3 keys | two first uses: the file lost the seed that signed (`receipts/keyring.go:231`); line 204 |
| `Verification!RuleRemovalIsDetected`, `LaterChangesVerify` | `Rules = {r1}`, 1 memory, 3 receipts, `MaxRemoved = 1` | a rule link has no receipt, nor has an approval by the deprecated route: the memory fails until its next act, and a removed rule link passes (`server/verify_service.go:727`, `store/store.go:5839`); `contracts/verification.md:102` and `:131` |
| `Verification!EveryActHasProvenance` | 1 memory, 4 receipts | a return, a close or a reopening has no record to compare with (`store/store.go:6967`); `server/verify_service.go:105` |
| `FiscalScope!LegacyCompatLeavesBoundAlone` | handles `enforce` and `legacy_compat`, 2 memories, 3 links | a compatibility save supersedes a bound revision (`store/store.go:2723`); `docs/decisions/fiscal-runtime-foundations-design.md:119` |
| `FiscalScope!ClosedModesWriteNothing` | handles `enforce` and `shadow` | single links ignore the mode (`store/store.go:6045`); `docs/TROUBLESHOOTING.md:31` |
| `FiscalScope!BoundActsVerify` | handle `enforce`, 2 references | a second batch under one binding leaves the layer failing (`store/store.go:6269`); `specs/fiscal-runtime-foundations/spec.md:323` |
| `SyncMerge!NoPhantomConflict` | `Quiet`, 2 revisions, 3 records, 2 runs | a moved status is reported as changed bytes (`store/store.go:5925`); `sync/sync.go:85` |
| `SyncMerge!RelationsCross` | `Quiet`, 3 revisions, 3 records, 3 runs | the second relation of a pair is skipped (`sync/sync.go:175`); `docs/SYSTEM-BOUNDARIES.md:90` |
| `SyncMerge!DivergenceIsLinked` | `Quiet`, 4 revisions, 3 records, 2 runs; or 3 revisions and 1 crash | only the heads are compared: void a head and save without a supersedes link, and two runs leave two live revisions that never met unlinked; an interrupted run hides the fork for good (`sync/sync.go:147`); `docs/SYSTEM-BOUNDARIES.md:91` |
| `SyncMerge!StatusMovesForward` | not `Quiet`, 2 revisions, 3 records, 2 runs | a decision between check and write is overwritten (`store/store.go:5878`); `sync/sync.go:215` |
| `Principals!ConcurrentUseIsSafe` | `Serving.cfg` | of two overlapping refreshes the older answer may be last: a withdrawn key comes back, or a request is refused for a key its own refresh found (`auth/oidc_jwks.go:117`, `:64`); line 37, and `docs/architecture/oidc-access-token-identity.md:57`, `:59` |
| `Principals!InactiveMembershipIsReported` | 1 request, 1 key, `MaxTime = 2` | a session of an inactive membership is refused under another code (`auth/resolver.go:149`); line 17 |
| `Migrations!ChainReRuns` | 2 processes, `First = 15`, 2 starts | a second process sets version 18 back to 17, whose next step can never run (`store/store.go:660`); `contracts/provenance.md:112` |
| `Migrations!DecisionsSurviveUpgrades` | 2 processes, `First = 1`, 2 starts | the first backfill, repeated, revives a voided memory (`store/store.go:1026`); `contracts/provenance.md:89` |

The passing properties say what is kept nevertheless. An unlink by an interrupted
attempt is still guarded, documented and never recorded twice. Chains stamped under
the lock verify. Keys the store has revoked sign nothing. A period is closed by an
approved, current close even when two were created. The repository's
`docs/TROUBLESHOOTING.md:190` recommends one long-lived process per database; the
disagreements that need two processes are outside that advice, and `StoreOpensWhole`
says what holds for several.

## 6. The proofs

TLC checks the instances above; TLAPS proves these for every value of the constants
that satisfies the named assumptions of the modules. Every safety property of a
passing run is the conclusion of a theorem. Where a property of a run has a
hypothesis beside the assumptions, the table names it.

| Theorem | States |
| --- | --- |
| `PurgeProofs!TypeCorrect` | `Spec => []TypeOK` |
| `PurgeProofs!OneLiveIntent` | `Spec => []AtMostOneLiveIntent` |
| `PurgeProofs!NoUndocumentedLoss` | `Spec => []AbsenceDocumented` |
| `PurgeProofs!RemovalIsGuarded` | `Spec => UnlinkGuarded` |
| `PurgeProofs!ClosedAttemptsStay` | `Spec => ClosedAttemptsAreFinal` |
| `PurgeProofs!TablesAgree` | `Spec => []ProjectionFollows` |
| `PurgeProofs!OnePurge` | `Spec => []PurgedOnce` |
| `PurgeProofs!ClosedKeysAreTrue` | `Spec => []ClosedKeysTellTheTruth` |
| `PurgeProofs!DutiesAreSeparated` | `Spec => []SeparationOfDuties` |
| `PurgeProofs!PurgesImplementLifecycle` | `Spec => ImplementsLifecycle`, the refinement |
| `MemoryProofs!TypesHold` | `Spec => []TypeOK` |
| `MemoryProofs!TrailReplays` | `Spec => []LogReplaysToStatus` |
| `MemoryProofs!QueueIsCurrent` | `Spec => []QueueShowsCurrent` |
| `MemoryProofs!DecisionsAreReviewed` | `Spec => []DecidedAsReviewed` |
| `MemoryProofs!PeriodFrozen` | `Spec => ClosedPeriodIsFrozen` |
| `MemoryProofs!CurrentRevision` | `~LegacyApprove` implies `Spec => []OneCurrentRevision` |
| `MemoryProofs!ClosedByClose` | `~LegacyApprove` implies `Spec => []ClosedByApprovedClose` |
| `MemoryProofs!EveryStoreTyped` | `MCSpec => []TypesOK` |
| `MemoryProofs!TwoStoresConverge` | `TwoStores` implies `MCSpec => []RunsConverge` |
| `MemoryProofs!EveryRecordCrosses` | `MCSpec => []AuditTrailCrosses`, of the calm and of the busy part |
| `AdjudicationProofs!TypesOfJudgments` | `Spec => []TypeOK` |
| `AdjudicationProofs!OpenJudgmentsCanBeDecided` | `Spec => []OpenCanBeDecided` |
| `AdjudicationProofs!SupersessionRoutes` | `Spec => []RoutesAreCorrections` |
| `AdjudicationProofs!RetriesFindTheirProposal` | `Spec => []RetryFindsOwnProposal` |
| `AdjudicationProofs!ClosedPeriodsFreezeJudgments` | `Spec => ClosedPeriodIsFrozen` |
| `AdjudicationProofs!JudgmentsImplementAdjudication` | `Spec => ImplementsAdjudication`, the refinement |
| `AdjudicationProofs!CorrectionsAreTraced` | `Spec => []CorrectionsLeaveTrail` |
| `AdjudicationProofs!AlertsAreRight` | `VelocitySpec => []AlertsMatchRuns` |
| `AdjudicationProofs!TypesHold` | `MCSpec => []TypesOK` |
| `AdjudicationProofs!EdgesHold` | `MCSpec => []EdgesFollowConfirmations` |
| `AdjudicationProofs!PairsImplementAdjudication` | `MCSpec => PairsAreAdjudicated` |
| `AdjudicationProofs!AlertsHold` | `MCSpec => []AlertsMatchRuns` |
| `ReconciliationProofs!TypesOfReconciliations` | `Spec => []TypeOK` |
| `ReconciliationProofs!EdgesAreConfirmations` | `Spec => []EdgesFollowConfirmations` |
| `ReconciliationProofs!PairsAdjudicated` | `Spec => PairsAreAdjudicated`: the refinement, and `EitherPeriodFreezes` |
| `FiscalScopeProofs!LayerIsHonest` | `Spec => []LayerShowsLooseChanges` |
| `FiscalScopeProofs!GuardedActsLink` | `Spec => []GuardedActsAreLinked` |
| `FiscalScopeProofs!EnforcedStoresAreBound` | `Handles = {"enforce"}` implies `Spec => []EnforceBindsEverything` |
| `FiscalScopeProofs!TypesHold` | `Spec => []TypeOK` |
| `ReceiptProofs!ChainsHold` | `Spec => []ChainsVerify` |
| `ReceiptProofs!SigningHolds` | `OneRotation` implies `Spec => []SigningSurvives` |
| `ReceiptProofs!RevokedKeysSignNothing` | `Spec => RevokedKeySignsNothing` |
| `ReceiptProofs!TypesHold` | `Spec => []TypeOK` |
| `ActsProofs!SigningHoldsHere` | `MCSpec => []SigningSurvives` |
| `ActsProofs!RevokedKeysStayOut` | `MCSpec => RevokedKeySignsNothing` |
| `ActsProofs!ActsLink` | `MCSpec => []ActsAreLinked` |
| `ActsProofs!PastOutcomesStand` | `L!Spec => L!PastTracesStand` |
| `ActsProofs!PastTracesHold` | `MCSpec => PastTracesStand` |
| `ActsProofs!VerificationStaysSound` | `V!Spec => []Verifiable` |
| `ActsProofs!VerdictHolds` | `MCSpec => []VerdictIsRight` |
| `ActsProofs!EveryTableTyped` | `MCSpec => []TypesOK` |
| `ServingProofs!MembersAct` | `Spec => []ActsUnderMembership` |
| `ServingProofs!CacheFollowsIssuer` | `Spec => []KeyCacheFollowsIssuer`, for any number of requests at once |
| `ServingProofs!TypesHold` | `Spec => []TypeOK` |
| `ServingProofs!UpgradeIsResumed` | `Upgrade!Spec => [](ChainReRuns /\ ForeignIsRefused)`, with types |
| `ServingProofs!CreationIsWhole` | `Openers!Spec => [](VersionTellsObjects /\ ServedLayoutIsComplete)`, with types |
| `ServingProofs!StoreOpens` | `MCSpec => []StoreOpensWhole` |
| `ServingProofs!EverythingTyped` | `MCSpec => []TypesOK` |

**Purges** assume `PrincipalsAssumption`, `PoliciesAssumption`, `HoldsAssumption`
and `PipelineAssumption`: `Nobody` is no principal, `NoExec` no execution id,
profiles, policies and kinds are typed, the bounds natural numbers.
`AbsenceDocumented` is not inductive: a step that interrupts an attempt must know
that it leaves a live one, and a step that unlinks that its own attempt is
recorded, although the code does not re-read it. `AttemptInv` adds what is missing:
an id with a free key has no attempt, whoever is in the gap or holds the lock has
one, and attempts stay live as a set. `OneLiveIntent` and `ClosedAttemptsStay`
follow from the same invariant. `RemovalIsGuarded` needs `GuardInv`: while the
execution transaction stands at `validated` nothing blocks, since every action
that could change this needs the lock.

`StateInv` adds, beside `AttemptInv` and `ProjectionFollows`, that
the log has one execution event exactly when a request is executed (`LogOnce`), that
the completed attempts are the one the request names (`CompletedOnce`), that an
executed object has no bytes (`DiskInv`), and what the completed keys promise. Each
step is described once by what it moves (`Recorded(from, to)`: the request, the
projection and the last event together). `DutiesInv` adds to `SeparationOfDuties`
that an open round holds no decision of its requester. The refinement maps the
lifecycle state to the projection and the permit to the attempts; `LifecycleInv`
joins the two invariants above, because the step that unlinks is the abstract
removal only while the pipeline is approved, and the step that completes only when
the bytes are gone.

**Memories** assume `PeopleAssumption` and `ChainsAssumption` (profiles and drafts are
typed, the bounds natural numbers). `MemInv` is the types with `ChainsInv` (later
revisions of a topic have higher numbers, and a chain has a highest one, without
which `Newest` would choose nothing in particular) and `CallsInv` (a legacy call past
its check names stored memories and a legal target). `RowSteps` says what any step
may do to a row: keep its status and trail, or move on from its present status, with
a trail entry that starts there, to a status that is not pending. The trail, the
decisions and the frozen period follow from it, the latter two with `DecidedInv`: a
decided memory is not pending again. `OneCurrentRevision` is inductive with `MemInv`
and the assumption that the deprecated approve route is off: stale legacy writes then
only make revisions terminal. Where it is mounted, an approval that was checked
before the memory was superseded makes the old revision current again, and TLC finds
that state. `ClosedByApprovedClose` rests on it: what is approved was pending, so
it is the highest revision of its chain, and nothing is saved while the period is
closed.

**Sync** assumes `SyncAssumption` (the bounds are natural numbers), which `MCMemories`
states of its two parts; both parts are behaviours of one instance, `Sync`, with the
wider bounds, and the invariants are proved of that. `SyncTyped` has the tables, that
a store with rows has a head, that no record is imported twice, and that a run has
carried what it has passed: `AuditTrailCrosses` follows from it, for any number of
stores, beside other writers and after crashes. The calm half of `RunsConverge` needs
two more invariants. `CalmInv` ties status to trail both ways, for stores that no run
writes to: every status is where some record led (`Explained`), and every record shows
in the status of its row, save the one a run is about to apply (`Reflected`); records
are at home in their author's log, and a store ends a row in one way (`EndsOnce`). What
a run in flight has brought so far is `RunClear`. `LinkInv` is about the revisions
only one store has: between runs such a live revision is the head of its store or
linked; in the sink of a run it is linked or will be at the end, because it is one of
the two heads the run remembers. With three stores a head that a run brought from a
third store is neither, so the theorem has the hypothesis `TwoStores`, as the run
has two.

**Judgments** assume `JudgmentsAssumption` (the bound is a natural number, proposers
are no people, "nobody" is no person) and `PeopleAssumption` (profiles are typed).
The invariant is `IInv`: the types; the rows (`RowsInv`: corrections are of their own
tuple, a tuple has one open judgment at a time, open ones can be decided, routes
are corrections); and the keys' replies. `OpenCanBeDecided` alone is not inductive:
that confirming one correction does not strand another needs that no other is open
on the tuple, which is the schema's partial unique index, `OneOpen`. Each command
is described once by what it does to the rows, row by row (`RowUpdate`,
`RowAppend`); the preservation lemmas and the refinement step both cite that.
The refinement maps a proposal to `Adjudication`'s proposal or correction, a
confirmation to its confirmation with at most one replacement, the closing of the
period to a stutter. That the events replay (`CorrectionsAreTraced`) needs `TrailInv`,
which states the replay of the first n events to a status by the positions of a
judgment's own events instead of by their subsequence: an event for somebody else
moves nothing, an event of one's own starts at the present status and leads to the next.

**Alerts** assume `VelocityAssumption` (window and bounds are natural numbers, the
threshold of a run is not 0). `VelocityInv` has the ledger in the order of its times, so
that a burst is a set of consecutive approvals of the reviewer; that who approved has a
last approval, the one a new burst must be traced from; and the two halves of the
property with the ledger as a parameter, since an old decision's burst and run do not
change when a decision is added. A burst grows by one decision, so it cannot pass its
threshold without standing at it before, where the code alerts; and a run passes the
threshold of its own once.

**Reconciliations** assume `ReconciliationsAssumption` (amounts are machine integers of
some width, a pair has two observations, "nobody" is no person), which is an
operator and a hypothesis of each theorem, because `MCAdjudication` instantiates the
module; it is evaluated there. `IInv` has the types, `EdgesFollowConfirmations`, and two
parts without which nothing else is inductive. `SameTuple` (a correction is about the
pair it corrects) carries the freeze and the refinement over to a superseded predecessor.
`Judged` (an open row has no judge, a confirmed one has) is what makes a row superseded
before its decision differ from one superseded after it, so that only a confirmation
adds to the confirmed pairs, and none is ever lost. The relations change by `Project` and
by the other writers of the table only; both look for the row and append, so a pair has
one row, and a row of a pair that nobody else wrote was inserted by a confirmation. That
the variance is a machine integer is `WrapInRange`.

**Bindings** assume `FiscalScopeAssumption` (handles have known modes, bounds are natural
numbers). `RowsStep` says what a step may do to a memory: leave it, change it without a
link, or change it and append one link that commits to the result; statuses only move
forward and references only grow (`Later`). `LayerInv` compares a bound row with its last
link (`Since`): because changes are monotone, a row that changed once can not come back
to what the link committed to, and that is why the layer is exact in both directions.
`ActsOK` (no act twice, no approval of what is still pending) is what makes the next act a
new one. `EnforcedStoresAreBound` needs handles that only enforce; with another handle
on the store the code creates unbound rows, as documented.

**Receipts** assume `ReceiptsAssumption` (processes have one role each, subjects and
bounds are typed). `Typed` says of each task what its place in the code implies: who is
past the load of the keyring holds one with a registered active key. A revoked key signs
nothing for any number of rotations, directly from the check in the signing step.
`Chains` needs `StampsAreLast` (who stamps under the lock stamps last), for the subjects
that are stamped there; memories stamped earlier have the chains that section 5 refutes.
That the active key of the file stays usable is `KeysApart`: a key that is about to be
the first of a file is nobody else's, and the old key of a rotation leaves the file
before the store revokes it. It needs `OneRotation`; two at once are the violation
`ActiveKeyUsable` of section 5.

**Rules** need no invariant beyond the types: a decision's outcome is a function of the
revisions in force at its instant and of the linked revision's status then. The event
of a write carries a stamp at most `MaxWait` old, so of a decision older than that the
status is settled; a further revision matters only when its window holds the
instant. The least and greatest times these operators choose exist because
`<` is well-founded on the natural numbers.

**Verification** assumes `VerificationAssumption` (references and rules are different
things). `Verifiable` says that ledger and records agree with the rows: every act is on
record with its reference linked, every reference has its act, the last commit is the row
as it stands, unless a link was removed behind the ledger's back (then, the removed
reference still has its act), the row changed without a receipt since (`unsealed`: an
approval by the deprecated route, a rule link), or the links came in a batch, whose
receipt names no reference. Successors are newer rows, so that the walk over them ends
within the table. `VerdictHolds` follows in both directions: the layers of a subject
whose acts have a receipt and a record each are these facts one by one, and a removed
link contradicts its act. What the exceptions lead to is in section 5.

**Principals** assume `PrincipalsAssumption` (skew and bounds are natural numbers, an
issuer has a key). `AllOnTheirWay` says of a request what its phase has established, for
any number at a time: from the membership check on the credential was good, from the
principal on the membership was active when it was read. `CacheFollowsIssuer` is about
any number of requests at a time, as the server runs them. Two histories say where
refreshes overlapped: `overtaken` has the requests between whose fetch and last lookup
another one replaced the keys, and `late` says whether such an answer replaced them last.
A withdrawn key is in the cache only while `late`, and a request is refused for a key of
its own document only if `overtaken`; `AnswerIsSound` says of each answer in flight which
keys were served when it was made. That these two things do happen is
`ConcurrentUseIsSafe` in section 5.

**Migrations** assume `MigrationsAssumption` (the old version is a version, foreign
objects belong to steps). With one process (`UpgradeHolds`) the objects on disk are
exactly those of the steps up to the version and the foreign ones above it, and what
the process remembers is the version; so a step finds its object absent, unless it is
foreign. With several processes on a new store `Built(height)` says that there
is a height up to which every step is made, whoever made it, that no process
remembers more, and that the version is the height or was set back by a step that may
run again. Versions are a finite chain, not a parameter.

**The compositions.** `MCSpec` of a run moves one part and leaves the others, so it
implies the specification of each part under stuttering (`PartsRun`); a theorem about a
component then holds of the run. Where parts share the variables of an instance, the
initial state and `part` select the bounds.

**Only model-checked** are `RecoveryConverges` and `RequestsAnswered`: liveness rests on
fairness and on ENABLED, outside the prover's reach. What a recursive function computes
for all arguments needs induction over data and is out of reach, too; where the theorems
need it, the model speaks of positions and of smallest closed sets instead (the replay of
a trail, the last receipt of a chain, the walk over successors). The violations of
section 5 are counterexamples that TLC finds.

## 7. Not modelled, and what is left

- **Search**: ranking and tokenization of a derived index, a pure function of text.
- **Evidence export, reconstructibility, period comparison, the doctor's scans**:
  read-only; what they read is modelled, what they say is not.
- **Sealed storage and tenants**: columns encrypted at rest and a key per tenant.
  The tables are modelled in clear; re-encryption is one transaction, and a tenant
  is read-only configuration.
- **Adapters** (CLI, MCP, HTTP): parsing and transport. They keep no state but
  sessions; where an adapter checks before the store does, the check is in the model
  of the operation.
- **The TypeScript mirror**: pure contracts that keep no state.
- **Left out of modelled parts**: scope matching of policies over many tuples;
  corruption found when a file is read; issuing of sessions and `local_dev`;
  verification reports of objects and reconciliations; evidence links, rule links,
  receipts and fiscal links in a sync, which do not cross in the code, either. Memories
  that came by sync have no receipts, and `Verification` has neither them nor the
  supersession of one.
- **The doctor and the drill copy**: a copy is opened read-only, without a runtime mode
  (`store/drill.go:271`, `:277`), so no write lands on it, frozen or not; which error a
  refused write returns (`store/drill.go:43`) is not modelled.
- **The variance of a reconciliation**: the schema refuses a row whose wrapped difference
  is not the exact one. The guard is in `ProposeReconciliation`; no property repeats it.

The plan, in this order:

1. Signing receipts inside the purge model with one-second times, for two equal acts
   in one second; a reviewer's sheet for purge commands, as `MemoryReview` has it.
2. Issuing and revoking sessions beside running requests.
3. What a calm run leaves among three stores or more, where a head that came from a
   third store need not be linked: a weaker statement, and its proof.
