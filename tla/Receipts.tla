------------------------------ MODULE Receipts -------------------------------
(***************************************************************************)
(* Receipts: every covered act signs a receipt inside its own transaction, *)
(* chained to the subject's latest one.  The private keys are in a keyring *)
(* file that no database lock protects: first use, `keys init` and         *)
(* `keys rotate` rewrite it whole, by an atomic rename, while other        *)
(* processes sign.  The store's signing_keys rows are registered by the    *)
(* signatures and revoked by rotations.                                    *)
(*                                                                         *)
(* Times are whole seconds, as RFC3339 stamps are.  Some acts stamp before *)
(* they have the database's write lock (Save, and the legacy transitions   *)
(* of the API), all others stamp once they hold it.  A hash is the index   *)
(* of the receipt it is of.                                                *)
(***************************************************************************)
EXTENDS Naturals, Sequences, FiniteSets, SequencesExt

CONSTANTS Subjects,
          Memories,       \* the subjects that are memories, with the early stamps
          Signers,        \* processes that perform covered acts
          EarlyStampers,  \* those whose acts stamp before the write lock
          Initializers,   \* processes that run `keys init`
          Rotators,       \* processes that run `keys rotate`, once each
          MaxTime, MaxKeys, MaxReceipts   \* bounds

ReceiptsAssumption ==
    /\ EarlyStampers \subseteq Signers /\ Memories \subseteq Subjects
    /\ "none" \notin Signers
    /\ Signers \cap (Initializers \cup Rotators) = {} /\ Initializers \cap Rotators = {}
    /\ MaxTime \in Nat /\ MaxKeys \in Nat /\ MaxReceipts \in Nat

Processes == Signers \cup Initializers \cup Rotators
NoKey == 0
Never == MaxTime + 1

VARIABLES
    clock,     \* the clock, never stepped back
    keyring,   \* the file: active key and one entry for each seed it holds
    made,      \* seeds generated; a seed is its number
    keys,      \* signing_keys: an entry for each registered public key
    receipts,  \* the ledger in insertion order
    writer,    \* the process that holds the database's write lock
    task       \* what every process is doing

vars == <<clock, keyring, made, keys, receipts, writer, task>>

Entry(created) == [created |-> created, revoked |-> Never]
Missing  == [active |-> NoKey, seeds |-> <<>>]

\* An entry is added unless the key has one.
With(entries, key, entry) ==
    [k \in DOMAIN entries \cup {key} |-> IF k \in DOMAIN entries THEN entries[k] ELSE entry]
Started(at, now, ring, subject) == [at |-> at, now |-> now, ring |-> ring, subject |-> subject]
Idle     == Started("idle", 0, Missing, "none")

\* INVARIANT.  Types, the foreign key of a receipt on its signing key, a keyring
\* that has the seed of its active key, and a lock held by a process inside its act.
TypeOK ==
    /\ clock \in 0..MaxTime /\ made \in 0..MaxKeys
    /\ keyring = Missing \/ keyring.active \in DOMAIN keyring.seeds
    /\ DOMAIN keys \subseteq 1..made /\ DOMAIN keyring.seeds \subseteq 1..made
    /\ \A r \in Range(receipts) : r.key \in DOMAIN keys /\ r.at <= clock
    /\ writer # "none" => task[writer].at \notin {"idle", "stamped", "done"}

Init == /\ clock = 0 /\ keyring = Missing /\ made = 0 /\ keys = <<>>
        /\ receipts = <<>> /\ writer = "none" /\ task = [p \in Processes |-> Idle]

Tick == clock < MaxTime /\ clock' = clock + 1
        /\ UNCHANGED <<keyring, made, keys, receipts, writer, task>>

Goes(p, at) == task' = [task EXCEPT ![p].at = at]

-----------------------------------------------------------------------------
\* First use: the file is read; a missing one is replaced by a new key, and the
\* file is read again.
LoadOrGenerate(p, next) ==
    IF keyring # Missing
    THEN task' = [task EXCEPT ![p].ring = keyring, ![p].at = next] /\ UNCHANGED made
    ELSE /\ made < MaxKeys /\ made' = made + 1
         /\ task' = [task EXCEPT ![p].at = "generated",
                        ![p].ring = [active |-> made', seeds |-> With(<<>>, made', Entry(clock))]]

WriteNewKey(p) ==
    /\ task[p].at = "generated"
    /\ keyring' = task[p].ring
    /\ Goes(p, "written")
    /\ UNCHANGED <<clock, made, keys, receipts, writer>>

Reload(p) ==
    /\ task[p].at = "written"
    /\ task' = [task EXCEPT ![p].ring = keyring,
                            ![p].at = IF p \in Signers THEN "loaded" ELSE "done"]
    /\ UNCHANGED <<clock, keyring, made, keys, receipts, writer>>

KeysInit(p) ==
    /\ task[p].at = "idle"
    /\ LoadOrGenerate(p, "done")
    /\ UNCHANGED <<clock, keyring, keys, receipts, writer>>

-----------------------------------------------------------------------------
StampEarly(p, s) ==
    /\ p \in EarlyStampers /\ s \in Memories /\ task[p].at = "idle"
    /\ task' = [task EXCEPT ![p] = Started("stamped", clock, Missing, s)]
    /\ UNCHANGED <<clock, keyring, made, keys, receipts, writer>>

\* The write lock is taken; whoever has no stamp yet takes it now.
Begin(p, s) ==
    /\ writer = "none" /\ Len(receipts) < MaxReceipts
    /\ IF p \in EarlyStampers
       THEN task[p].at = "stamped" /\ task[p].subject = s /\ Goes(p, "locked")
       ELSE /\ task[p].at = "idle"
            /\ task' = [task EXCEPT ![p] = Started("locked", clock, Missing, s)]
    /\ writer' = p
    /\ UNCHANGED <<clock, keyring, made, keys, receipts>>

LoadKeys(p) ==
    /\ p \in Signers /\ task[p].at = "locked"
    /\ LoadOrGenerate(p, "loaded")
    /\ UNCHANGED <<clock, keyring, keys, receipts, writer>>

\* The receipts of a subject are read in the order of (issued_at, rowid).
Of(s) == {i \in DOMAIN receipts : receipts[i].subject = s}
Before(i, j) == \/ receipts[i].at < receipts[j].at
                \/ receipts[i].at = receipts[j].at /\ i < j
IsLatest(i, acts) == i \in acts /\ \A j \in acts \ {i} : Before(j, i)

\* LatestReceiptChainHead: the last of them, 0 when there is none.
LatestOf(acts) == IF acts = {} THEN 0 ELSE CHOOSE i \in acts : IsLatest(i, acts)

\* MUTANT of ChainHead: the latest receipt of the ledger, whatever its subject.
ChainHeadOfLedger(s) == Len(receipts)

ChainHead(s) == LatestOf(Of(s))

\* MUTANT of Usable: the store is not asked about the revocation.
UsableByFile(ring) == ring.seeds[ring.active].revoked = Never

\* A key signs while neither the keyring nor the store has it revoked.
Usable(ring) ==
    /\ ring.seeds[ring.active].revoked = Never
    /\ ring.active \in DOMAIN keys => keys[ring.active].revoked = Never

\* The receipt, the public key and the act commit together, or none of them.
Sign(p) ==
    LET ring == task[p].ring
        s    == task[p].subject
    IN  /\ task[p].at = "loaded"
        /\ IF Usable(ring)
           THEN /\ receipts' = Append(receipts, [subject |-> s, key |-> ring.active,
                                                 at |-> task[p].now, prev |-> ChainHead(s)])
                /\ keys' = With(keys, ring.active, Entry(ring.seeds[ring.active].created))
           ELSE UNCHANGED <<receipts, keys>>
        /\ writer' = "none"
        /\ Goes(p, "idle")
        /\ UNCHANGED <<clock, keyring, made>>

-----------------------------------------------------------------------------
Rotated(ring, new, now) ==
    [active |-> new,
     seeds  |-> With([ring.seeds EXCEPT ![ring.active].revoked = now], new, Entry(now))]

\* The keyring is loaded and a new key made; both stamps are this second's.
RotateLoads(r) ==
    /\ r \in Rotators /\ task[r].at = "idle" /\ made < MaxKeys
    /\ keyring # Missing /\ keyring.seeds[keyring.active].revoked = Never
    /\ made' = made + 1
    /\ task' = [task EXCEPT ![r] = Started("rotating", clock, keyring, made')]
    /\ UNCHANGED <<clock, keyring, keys, receipts, writer>>

RotateWrites(r) ==
    /\ task[r].at = "rotating"
    /\ keyring' = Rotated(task[r].ring, task[r].subject, task[r].now)
    /\ Goes(r, "activated")
    /\ UNCHANGED <<clock, made, keys, receipts, writer>>

\* MUTANT of RotateCommits: the keyring is put back after a commit too.
RotateCommitsAndRestores(r) ==
    LET ring == task[r].ring
        old  == ring.active
        mine == With(With(keys, old, Entry(ring.seeds[old].created)), task[r].subject, Entry(task[r].now))
    IN  /\ task[r].at = "activated" /\ writer = "none"
        /\ keys' = IF mine[old].revoked = Never
                   THEN [mine EXCEPT ![old].revoked = task[r].now] ELSE keys
        /\ Goes(r, "failed")
        /\ UNCHANGED <<clock, keyring, made, receipts, writer>>

\* One transaction registers both keys and revokes the old one; when the old one
\* is revoked already it fails, and the previous keyring is put back.
RotateCommits(r) ==
    LET ring == task[r].ring
        old  == ring.active
        mine == With(With(keys, old, Entry(ring.seeds[old].created)), task[r].subject, Entry(task[r].now))
    IN  /\ task[r].at = "activated" /\ writer = "none"
        /\ IF mine[old].revoked = Never
           THEN keys' = [mine EXCEPT ![old].revoked = task[r].now] /\ Goes(r, "done")
           ELSE UNCHANGED keys /\ Goes(r, "failed")
        /\ UNCHANGED <<clock, keyring, made, receipts, writer>>

\* The transaction cannot begin or commit (the database is busy).
RotateFails(r) ==
    /\ task[r].at = "activated" /\ Goes(r, "failed")
    /\ UNCHANGED <<clock, keyring, made, keys, receipts, writer>>

Restore(r) ==
    /\ task[r].at = "failed"
    /\ keyring' = task[r].ring
    /\ Goes(r, "done")
    /\ UNCHANGED <<clock, made, keys, receipts, writer>>

\* MUTANT of Crash: the dead process keeps the write lock.
CrashHoldingLock(p) ==
    /\ task[p].at \notin {"idle", "done"}
    /\ Goes(p, "done")
    /\ UNCHANGED <<clock, keyring, made, keys, receipts, writer>>

\* A process dies: its transaction is rolled back, the keyring file stays.
Crash(p) ==
    /\ task[p].at \notin {"idle", "done"}
    /\ Goes(p, "done")
    /\ writer' = IF writer = p THEN "none" ELSE writer
    /\ UNCHANGED <<clock, keyring, made, keys, receipts>>

ActStep == \E p \in Signers, s \in Subjects : StampEarly(p, s) \/ Begin(p, s)
SignStep == \E p \in Signers : LoadKeys(p) \/ Sign(p)
FileStep == \E p \in Processes : WriteNewKey(p) \/ Reload(p)
InitStep == \E p \in Initializers : KeysInit(p)
RotateStep == \E r \in Rotators : \/ RotateLoads(r) \/ RotateWrites(r)
                                  \/ RotateCommits(r) \/ RotateFails(r) \/ Restore(r)

Next == \/ Tick \/ ActStep \/ SignStep \/ FileStep \/ InitStep \/ RotateStep
        \/ \E p \in Processes : Crash(p)

Spec == Init /\ [][Next]_vars

-----------------------------------------------------------------------------
Linked(s) == \A i \in Of(s) : receipts[i].prev = LatestOf({j \in Of(s) : Before(j, i)})

\* INVARIANT.  The chain of a judgment, reconciliation or object verifies link by
\* link: whatever the interleaving, its acts are ordered as they were signed.
ChainsVerify == \A s \in Subjects \ Memories : Linked(s)

\* VIOLATED.  "The first ordered subject receipt has empty previous hash; each later
\* receipt references the immediately preceding computed hash"
\* (docs/architecture/offline-verification-step4.md:63), for a memory.
MemoryChainsVerify == \A s \in Memories : Linked(s)

\* INVARIANT, and VIOLATED by two rotations at once.  "The previous keyring state
\* is restored so the file and the store never disagree" (signer.go:180): the
\* active key of the file is never one that the store has revoked, for then
\* neither a signature nor another rotation could ever succeed.
ActiveKeyUsable == keyring.active \in DOMAIN keys => keys[keyring.active].revoked = Never

\* INVARIANT, of one rotation.  Signing survives it, whatever crashes.
SigningSurvives == ChainsVerify /\ ActiveKeyUsable

\* ACTION PROPERTY.  Once a key is revoked in the store nothing is signed with it,
\* also when a failed rotation has put it back as the active key of the file.
RevokedKeySignsNothing ==
    [][\A i \in DOMAIN receipts' \ DOMAIN receipts :
          receipts'[i].key \in DOMAIN keys => keys[receipts'[i].key].revoked = Never]_vars

\* VIOLATED.  "Rotate keys: new acts use the new key, old receipts still verify"
\* (docs/architecture/ed25519-receipts-step3.md:109): the key of a receipt was
\* made no later than the receipt and not revoked in its second or before.
KeysCoverReceipts ==
    \A r \in Range(receipts) : keys[r.key].created <= r.at /\ r.at < keys[r.key].revoked

\* VIOLATED.  "Concurrent first use converges on ONE active key" (keyring.go:204):
\* the keyring has the seed of every key that signed a receipt.
SignersSeedKept == \A r \in Range(receipts) : r.key \in DOMAIN keyring.seeds

=============================================================================
