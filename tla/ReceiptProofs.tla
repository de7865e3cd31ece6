----------------------------- MODULE ReceiptProofs -----------------------------
(***************************************************************************)
(* Proofs about Receipts: a key the store has revoked signs nothing,       *)
(* whatever crashes, first uses and rotations; with one rotation the       *)
(* active key of the file stays usable; and the chain of a subject that is *)
(* stamped under the write lock verifies link by link.                     *)
(***************************************************************************)
EXTENDS Receipts, TLAPS

Ats == {"idle", "stamped", "locked", "generated", "written", "loaded",
        "rotating", "activated", "failed", "done"}
Writing  == {"locked", "generated", "written", "loaded"}
Rotating == {"rotating", "activated", "failed"}

Entries == [created : Nat, revoked : Nat]

\* Entries for some of the first n seeds; a ring with the seed of its active key.
IsMap(f, n)  == f \in [DOMAIN f -> Entries] /\ DOMAIN f \subseteq 1..n
IsRing(g, n) == /\ g \in [active : 1..n, seeds : {g.seeds}]
                /\ IsMap(g.seeds, n) /\ g.active \in DOMAIN g.seeds

KeysTyped ==
    /\ made \in Nat /\ made <= MaxKeys
    /\ IsMap(keys, made)
    /\ keyring = Missing \/ IsRing(keyring, made)

IsSeq(s) == Len(s) \in Nat /\ s \in [1..Len(s) -> {s[n] : n \in 1..Len(s)}]

LedgerTyped ==
    /\ clock \in Nat /\ clock <= MaxTime
    /\ IsSeq(receipts)
    /\ \A n \in 1..Len(receipts) :
          receipts[n].key \in DOMAIN keys /\ receipts[n].at \in Nat /\ receipts[n].at <= clock

\* What a process is doing: it has the ring it needs, only a signer writes the ledger,
\* only a rotator rotates, and an early stamper acts on memories.  There are n seeds,
\* it is c o'clock, the file is g and w writes.
IsTask(p, t, n, c, g, w) ==
    /\ t \in [at : Ats, now : Nat, ring : {t.ring}, subject : {t.subject}]
    /\ t.now <= c
    /\ t.at \in {"generated", "loaded"} \cup Rotating => IsRing(t.ring, n)
    /\ t.at = "written" => g # Missing
    /\ t.at \in Rotating => p \in Rotators /\ t.subject \in 1..n
    /\ t.at \in {"stamped", "locked", "loaded"} => p \in Signers
    /\ p \in EarlyStampers /\ t.at \in {"stamped"} \cup Writing => t.subject \in Memories
    /\ p \in Signers => (t.at \in Writing <=> w = p)

TasksTyped ==
    /\ writer \in Signers \cup {"none"}
    /\ task \in [Processes -> {task[p] : p \in Processes}]
    /\ \A p \in Processes : IsTask(p, task[p], made, clock, keyring, writer)

Typed == KeysTyped /\ LedgerTyped /\ TasksTyped

-----------------------------------------------------------------------------
\* What a step makes of the task of its process.
Becomes(p, t) == task' = [task EXCEPT ![p] = t]
Moved(t, at) == [t EXCEPT !.at = at]
Took(t, ring, at) == [t EXCEPT !.ring = ring, !.at = at]

LEMMA MovedTask ==
    ASSUME NEW t, t \in [at : Ats, now : Nat, ring : {t.ring}, subject : {t.subject}], NEW at
    PROVE  Moved(t, at) = Started(at, t.now, t.ring, t.subject)
BY DEF Moved, Started

LEMMA TookTask ==
    ASSUME NEW t, t \in [at : Ats, now : Nat, ring : {t.ring}, subject : {t.subject}], NEW at, NEW ring
    PROVE  Took(t, ring, at) = Started(at, t.now, ring, t.subject)
<1>1. [t EXCEPT !.ring = ring] = Started(t.at, t.now, ring, t.subject)
  BY DEF Started
<1>2. [Started(t.at, t.now, ring, t.subject) EXCEPT !.at = at] = Started(at, t.now, ring, t.subject)
  BY DEF Started
<1>. QED  BY <1>1, <1>2 DEF Took

LEMMA OthersStay ==
    ASSUME TasksTyped, NEW p \in Processes, NEW t, Becomes(p, t)
    PROVE  /\ task' \in [Processes -> {task'[q] : q \in Processes}]
           /\ task'[p] = t
           /\ \A q \in Processes \ {p} : task'[q] = task[q]
BY DEF TasksTyped, Becomes

\* A map with one entry more.
LEMMA MapWith ==
    ASSUME NEW f, NEW k, NEW e
    PROVE  /\ DOMAIN With(f, k, e) = DOMAIN f \cup {k}
           /\ \A x \in DOMAIN f : With(f, k, e)[x] = f[x]
           /\ k \notin DOMAIN f => With(f, k, e)[k] = e
BY DEF With

LEMMA MapWithTyped ==
    ASSUME NEW n \in Nat, NEW f, IsMap(f, n), NEW k \in 1..n, NEW e \in Entries
    PROVE  IsMap(With(f, k, e), n)
BY DEF IsMap, With

LEMMA EmptyMap == DOMAIN <<>> = {} /\ \A n \in Nat : IsMap(<<>>, n)
BY DEF IsMap

LEMMA MoreSeeds ==
    ASSUME NEW m \in Nat, NEW n \in Nat, m <= n
    PROVE  /\ \A f : IsMap(f, m) => IsMap(f, n)
           /\ \A g : IsRing(g, m) => IsRing(g, n)
<1>1. 1..m \subseteq 1..n
  OBVIOUS
<1>2. ASSUME NEW f, IsMap(f, m) PROVE IsMap(f, n)
  BY <1>1, <1>2 DEF IsMap
<1>. QED  BY <1>1, <1>2 DEF IsRing

LEMMA MissingIsNoRing ==
    ASSUME NEW n \in Nat, NEW g, IsRing(g, n)
    PROVE  g # Missing
BY DEF IsRing, Missing, NoKey

\* A step of p: the tables stay typed, so do the tasks, when p's own does and only p
\* takes or leaves the lock.
LEMMA StepTyped ==
    ASSUME ReceiptsAssumption, Typed, NEW p \in Processes, NEW t, Becomes(p, t),
           KeysTyped', LedgerTyped', clock' = clock, made <= made',
           keyring # Missing => keyring' # Missing,
           IsTask(p, t, made', clock', keyring', writer'),
           writer' \in Signers \cup {"none"},
           writer' = writer \/ (writer \in {"none", p} /\ writer' \in {"none", p})
    PROVE  Typed'
<1>1. /\ task' \in [Processes -> {task'[q] : q \in Processes}]
      /\ task'[p] = t
      /\ \A q \in Processes \ {p} : task'[q] = task[q]
  BY OthersStay DEF Typed
<1>2. ASSUME NEW q \in Processes PROVE IsTask(q, task'[q], made', clock', keyring', writer')
  <2>1. CASE q = p
    BY <1>1, <2>1
  <2>2. CASE q # p
    <3>1. IsTask(q, task[q], made, clock, keyring, writer) /\ task'[q] = task[q]
      BY <1>1, <2>2 DEF Typed, TasksTyped
    <3>2. \A g : IsRing(g, made) => IsRing(g, made')
      BY MoreSeeds DEF Typed, KeysTyped
    <3>3. 1..made \subseteq 1..made'
      BY DEF Typed, KeysTyped
    <3>4. q \in Signers => (writer = q <=> writer' = q)
      BY <2>2 DEF ReceiptsAssumption
    <3>. QED  BY <3>1, <3>2, <3>3, <3>4 DEF IsTask
  <2>. QED  BY <2>1, <2>2
<1>3. TasksTyped'
  BY <1>1, <1>2 DEF TasksTyped
<1>. QED  BY <1>3 DEF Typed

\* The same for a step that leaves the tables and the lock alone.
LEMMA QuietTyped ==
    ASSUME ReceiptsAssumption, Typed, NEW p \in Processes, NEW t, Becomes(p, t),
           UNCHANGED <<clock, keyring, made, keys, receipts, writer>>,
           IsTask(p, t, made, clock, keyring, writer)
    PROVE  Typed'
<1>1. KeysTyped' /\ LedgerTyped'
  BY DEF Typed, KeysTyped, LedgerTyped
<1>2. /\ made <= made' /\ writer' \in Signers \cup {"none"}
      /\ IsTask(p, t, made', clock', keyring', writer')
  BY DEF Typed, KeysTyped, TasksTyped
<1>. QED  BY <1>1, <1>2, StepTyped

\* The same for a step that takes or leaves the lock.
LEMMA LockTyped ==
    ASSUME ReceiptsAssumption, Typed, NEW p \in Processes, NEW t, Becomes(p, t),
           UNCHANGED <<clock, keyring, made, keys, receipts>>,
           writer' \in Signers \cup {"none"},
           writer' = writer \/ (writer \in {"none", p} /\ writer' \in {"none", p}),
           IsTask(p, t, made, clock, keyring, writer')
    PROVE  Typed'
<1>1. KeysTyped' /\ LedgerTyped'
  BY DEF Typed, KeysTyped, LedgerTyped
<1>2. made <= made' /\ IsTask(p, t, made', clock', keyring', writer')
  BY DEF Typed, KeysTyped
<1>. QED  BY <1>1, <1>2, StepTyped

\* Facts about the task of a process, in the shape the steps need.
LEMMA TaskOf ==
    ASSUME Typed, NEW p \in Processes
    PROVE  /\ IsTask(p, task[p], made, clock, keyring, writer)
           /\ task[p] \in [at : Ats, now : Nat, ring : {task[p].ring}, subject : {task[p].subject}]
           /\ \A at : Moved(task[p], at) = Started(at, task[p].now, task[p].ring, task[p].subject)
           /\ \A at, ring : Took(task[p], ring, at) = Started(at, task[p].now, ring, task[p].subject)
           /\ \A at : Goes(p, at) => Becomes(p, Moved(task[p], at))
<1>1. IsTask(p, task[p], made, clock, keyring, writer)
  BY DEF Typed, TasksTyped
<1>2. task[p] \in [at : Ats, now : Nat, ring : {task[p].ring}, subject : {task[p].subject}]
  BY <1>1 DEF IsTask
<1>3. \A at : Goes(p, at) => Becomes(p, Moved(task[p], at))
  BY DEF Goes, Becomes, Moved
<1>. QED  BY <1>1, <1>2, <1>3, MovedTask, TookTask

LEMMA StartedTask ==
    ASSUME NEW at, NEW now, NEW ring, NEW subject
    PROVE  /\ Started(at, now, ring, subject).at = at /\ Started(at, now, ring, subject).now = now
           /\ Started(at, now, ring, subject).ring = ring
           /\ Started(at, now, ring, subject).subject = subject
           /\ at \in Ats /\ now \in Nat =>
                 Started(at, now, ring, subject) \in [at : Ats, now : Nat, ring : {ring}, subject : {subject}]
BY DEF Started

LEMMA EntryTyped ==
    ASSUME ReceiptsAssumption, NEW created \in Nat
    PROVE  /\ Entry(created) \in Entries /\ Entry(created).revoked = Never
           /\ Entry(created).created = created /\ Never \in Nat
BY DEF Entry, Entries, Never, ReceiptsAssumption

\* An entry that is revoked at a second keeps its creation.
LEMMA MapRevoked ==
    ASSUME NEW n \in Nat, NEW f, IsMap(f, n), NEW k \in DOMAIN f, NEW now \in Nat
    PROVE  /\ IsMap([f EXCEPT ![k].revoked = now], n)
           /\ DOMAIN [f EXCEPT ![k].revoked = now] = DOMAIN f
           /\ [f EXCEPT ![k].revoked = now][k].revoked = now
           /\ \A x \in DOMAIN f \ {k} : [f EXCEPT ![k].revoked = now][x] = f[x]
<1>1. f[k] \in Entries
  BY DEF IsMap
<1>2. [f[k] EXCEPT !.revoked = now] \in Entries /\ [f[k] EXCEPT !.revoked = now].revoked = now
  BY <1>1 DEF Entries
<1>3. [f EXCEPT ![k].revoked = now] = [f EXCEPT ![k] = [f[k] EXCEPT !.revoked = now]]
  OBVIOUS
<1>. HIDE DEF Entries
<1>. QED  BY <1>2, <1>3 DEF IsMap

NewRing(k, now) == [active |-> k, seeds |-> With(<<>>, k, Entry(now))]

LEMMA NewRingTyped ==
    ASSUME ReceiptsAssumption, NEW n \in Nat, NEW k \in 1..n, NEW now \in Nat
    PROVE  IsRing(NewRing(k, now), n) /\ NewRing(k, now).active = k
<1>1. Entry(now) \in Entries
  BY EntryTyped
<1>2. DOMAIN <<>> = {} /\ IsMap(<<>>, n)
  BY EmptyMap
<1>3. IsMap(With(<<>>, k, Entry(now)), n)
  BY <1>1, <1>2, MapWithTyped
<1>4. DOMAIN With(<<>>, k, Entry(now)) = {k}
  BY <1>2 DEF With
<1>. QED  BY <1>3, <1>4 DEF IsRing, NewRing

LEMMA RotatedTyped ==
    ASSUME ReceiptsAssumption, NEW n \in Nat, NEW g, IsRing(g, n), NEW k \in 1..n, NEW now \in Nat
    PROVE  IsRing(Rotated(g, k, now), n) /\ Rotated(g, k, now).active = k
<1>. DEFINE old == [g.seeds EXCEPT ![g.active].revoked = now]
<1>1. IsMap(old, n)
  BY MapRevoked DEF IsRing
<1>. HIDE DEF old
<1>2. IsMap(With(old, k, Entry(now)), n) /\ k \in DOMAIN With(old, k, Entry(now))
  <2>1. Entry(now) \in Entries
    BY EntryTyped
  <2>2. IsMap(With(old, k, Entry(now)), n)
    BY <1>1, <2>1, MapWithTyped
  <2>3. k \in DOMAIN With(old, k, Entry(now))
    BY DEF With
  <2>. QED  BY <2>2, <2>3
<1>3. Rotated(g, k, now) = [active |-> k, seeds |-> With(old, k, Entry(now))]
  BY DEF Rotated, old
<1>. QED  BY <1>2, <1>3 DEF IsRing

-----------------------------------------------------------------------------
\* What the first use does: it takes the ring of the file, or makes a key.
LEMMA Loads ==
    ASSUME ReceiptsAssumption, Typed, NEW p \in Processes, NEW next, LoadOrGenerate(p, next)
    PROVE  \/ /\ keyring # Missing /\ made' = made
              /\ Becomes(p, Started(next, task[p].now, keyring, task[p].subject))
           \/ /\ made < MaxKeys /\ made' = made + 1
              /\ Becomes(p, Started("generated", task[p].now, NewRing(made + 1, clock), task[p].subject))
<1>0. /\ task[p] \in [at : Ats, now : Nat, ring : {task[p].ring}, subject : {task[p].subject}]
      /\ \A at, ring : Took(task[p], ring, at) = Started(at, task[p].now, ring, task[p].subject)
  BY TaskOf
<1>1. CASE keyring # Missing
  <2>1. made' = made /\ Becomes(p, Took(task[p], keyring, next))
    BY <1>1 DEF LoadOrGenerate, Becomes, Took
  <2>. QED  BY <1>0, <1>1, <2>1
<1>2. CASE keyring = Missing
  <2>1. /\ made < MaxKeys /\ made' = made + 1
        /\ task' = [task EXCEPT ![p].at = "generated", ![p].ring = NewRing(made', clock)]
    BY <1>2 DEF LoadOrGenerate, NewRing
  <2>2. task' = [task EXCEPT ![p] = [[task[p] EXCEPT !.at = "generated"] EXCEPT !.ring = NewRing(made', clock)]]
    BY <2>1 DEF Typed, TasksTyped
  <2>3. [task[p] EXCEPT !.at = "generated"] = Started("generated", task[p].now, task[p].ring, task[p].subject)
    BY <1>0, MovedTask DEF Moved
  <2>4. [Started("generated", task[p].now, task[p].ring, task[p].subject) EXCEPT !.ring = NewRing(made', clock)]
            = Started("generated", task[p].now, NewRing(made', clock), task[p].subject)
    BY DEF Started
  <2>5. task' = [task EXCEPT ![p] = Started("generated", task[p].now, NewRing(made', clock), task[p].subject)]
    BY <2>2, <2>3, <2>4, Zenon
  <2>6. Becomes(p, Started("generated", task[p].now, NewRing(made + 1, clock), task[p].subject))
    BY <2>1, <2>5, Zenon DEF Becomes
  <2>. QED  BY <2>1, <2>6
<1>. QED  BY <1>1, <1>2

\* A first use that is a step of p with the lock in its hands, or of no signer.
LEMMA LoadsTyped ==
    ASSUME ReceiptsAssumption, Typed, NEW p \in Processes, NEW next, LoadOrGenerate(p, next),
           UNCHANGED <<clock, keyring, keys, receipts, writer>>,
           \/ p \in Signers /\ task[p].at = "locked" /\ next = "loaded"
           \/ p \notin Signers /\ next = "done"
    PROVE  Typed'
<1>0. /\ IsTask(p, task[p], made, clock, keyring, writer)
      /\ KeysTyped /\ LedgerTyped /\ writer \in Signers \cup {"none"}
  BY TaskOf DEF Typed, TasksTyped
<1>1. /\ task[p].now \in Nat /\ task[p].now <= clock
      /\ p \in Signers => writer = p
      /\ p \in EarlyStampers => task[p].subject \in Memories
      /\ EarlyStampers \subseteq Signers
  BY <1>0 DEF IsTask, Writing, ReceiptsAssumption
<1>2. CASE keyring # Missing /\ made' = made
           /\ Becomes(p, Started(next, task[p].now, keyring, task[p].subject))
  <2>. DEFINE t == Started(next, task[p].now, keyring, task[p].subject)
  <2>1. /\ t.at = next /\ t.now = task[p].now /\ t.ring = keyring /\ t.subject = task[p].subject
        /\ t \in [at : Ats, now : Nat, ring : {t.ring}, subject : {t.subject}]
    BY <1>1, StartedTask DEF Ats
  <2>. HIDE DEF t
  <2>2. IsTask(p, t, made, clock, keyring, writer)
    BY <1>0, <1>1, <1>2, <2>1 DEF IsTask, KeysTyped, Writing, Rotating
  <2>3. Becomes(p, t)
    BY <1>2 DEF t
  <2>. QED  BY <1>2, <2>2, <2>3, QuietTyped
<1>3. CASE made < MaxKeys /\ made' = made + 1
           /\ Becomes(p, Started("generated", task[p].now, NewRing(made + 1, clock), task[p].subject))
  <2>. DEFINE t == Started("generated", task[p].now, NewRing(made + 1, clock), task[p].subject)
  <2>1. /\ t.at = "generated" /\ t.now = task[p].now /\ t.ring = NewRing(made + 1, clock)
        /\ t.subject = task[p].subject
        /\ t \in [at : Ats, now : Nat, ring : {t.ring}, subject : {t.subject}]
    BY <1>1, StartedTask DEF Ats
  <2>. HIDE DEF t
  <2>2. made \in Nat /\ made' \in Nat /\ made' <= MaxKeys /\ made <= made' /\ clock \in Nat
    BY <1>0, <1>3 DEF KeysTyped, LedgerTyped, ReceiptsAssumption
  <2>3. IsRing(NewRing(made + 1, clock), made')
    BY <1>3, <2>2, NewRingTyped
  <2>4. IsTask(p, t, made', clock', keyring', writer')
    BY <1>0, <1>1, <1>3, <2>1, <2>3 DEF IsTask, Writing, Rotating
  <2>5. KeysTyped' /\ LedgerTyped'
    BY <1>0, <2>2, MoreSeeds DEF KeysTyped, LedgerTyped
  <2>6. Becomes(p, t)
    BY <1>3 DEF t
  <2>. QED  BY <1>0, <2>2, <2>4, <2>5, <2>6, StepTyped
<1>. QED  BY <1>2, <1>3, Loads

-----------------------------------------------------------------------------
\* Each action keeps the types.
LEMMA TickTyped ==
    ASSUME ReceiptsAssumption, Typed, Tick
    PROVE  Typed'
<1>0. KeysTyped /\ LedgerTyped /\ TasksTyped
  BY DEF Typed
<1>1. /\ clock' = clock + 1 /\ clock < MaxTime /\ clock \in Nat /\ MaxTime \in Nat
      /\ UNCHANGED <<keyring, made, keys, receipts, writer, task>>
  BY <1>0 DEF Tick, LedgerTyped, ReceiptsAssumption
<1>2. KeysTyped' /\ LedgerTyped'
  BY <1>0, <1>1 DEF KeysTyped, LedgerTyped
<1>3. ASSUME NEW p \in Processes PROVE IsTask(p, task[p], made, clock', keyring, writer)
  <2>1. IsTask(p, task[p], made, clock, keyring, writer)
    BY <1>0 DEF TasksTyped
  <2>2. task[p].now \in Nat /\ task[p].now <= clock
    BY <2>1 DEF IsTask
  <2>3. task[p].now <= clock'
    BY <1>1, <2>2
  <2>. QED  BY <2>1, <2>3 DEF IsTask
<1>4. TasksTyped'
  BY <1>0, <1>1, <1>3 DEF TasksTyped
<1>. QED  BY <1>2, <1>4 DEF Typed

LEMMA WriteNewKeyTyped ==
    ASSUME ReceiptsAssumption, Typed, NEW p \in Processes, WriteNewKey(p)
    PROVE  Typed'
<1>. DEFINE t == Started("written", task[p].now, task[p].ring, task[p].subject)
<1>0. /\ IsTask(p, task[p], made, clock, keyring, writer)
      /\ KeysTyped /\ LedgerTyped /\ writer \in Signers \cup {"none"}
  BY TaskOf DEF Typed, TasksTyped
<1>1. /\ task[p].at = "generated" /\ keyring' = task[p].ring /\ Goes(p, "written")
      /\ UNCHANGED <<clock, made, keys, receipts, writer>>
  BY DEF WriteNewKey
<1>2. Becomes(p, t)
  BY <1>1, TaskOf, Zenon
<1>3. /\ t.at = "written" /\ t.now = task[p].now /\ t.ring = task[p].ring /\ t.subject = task[p].subject
      /\ t \in [at : Ats, now : Nat, ring : {t.ring}, subject : {t.subject}]
  BY <1>0, StartedTask DEF Ats, IsTask
<1>. HIDE DEF t
<1>4. IsRing(task[p].ring, made)
  BY <1>0, <1>1 DEF IsTask
<1>5. keyring' # Missing /\ made \in Nat
  BY <1>0, <1>1, <1>4, MissingIsNoRing DEF KeysTyped
<1>6. IsTask(p, t, made', clock', keyring', writer')
  BY <1>0, <1>1, <1>3, <1>5 DEF IsTask, Writing, Rotating
<1>7. KeysTyped' /\ LedgerTyped'
  BY <1>0, <1>1, <1>4 DEF KeysTyped, LedgerTyped
<1>. QED  BY <1>0, <1>1, <1>2, <1>5, <1>6, <1>7, StepTyped

LEMMA ReloadTyped ==
    ASSUME ReceiptsAssumption, Typed, NEW p \in Processes, Reload(p)
    PROVE  Typed'
<1>. DEFINE at == IF p \in Signers THEN "loaded" ELSE "done"
            t  == Started(at, task[p].now, keyring, task[p].subject)
<1>0. IsTask(p, task[p], made, clock, keyring, writer) /\ KeysTyped
  BY TaskOf DEF Typed
<1>1. /\ task[p].at = "written" /\ Becomes(p, Took(task[p], keyring, at))
      /\ UNCHANGED <<clock, keyring, made, keys, receipts, writer>>
  BY DEF Reload, Becomes, Took
<1>2. Becomes(p, t)
  BY <1>1, TaskOf, Zenon
<1>3. /\ t.at = at /\ t.now = task[p].now /\ t.ring = keyring /\ t.subject = task[p].subject
      /\ t \in [at : Ats, now : Nat, ring : {t.ring}, subject : {t.subject}]
  BY <1>0, StartedTask DEF Ats, IsTask
<1>. HIDE DEF t
<1>4. IsRing(keyring, made)
  BY <1>0, <1>1 DEF IsTask, KeysTyped
<1>5. IsTask(p, t, made, clock, keyring, writer)
  BY <1>0, <1>1, <1>3, <1>4 DEF IsTask, Writing, Rotating, ReceiptsAssumption
<1>. QED  BY <1>1, <1>2, <1>5, QuietTyped

LEMMA KeysInitTyped ==
    ASSUME ReceiptsAssumption, Typed, NEW p \in Initializers, KeysInit(p)
    PROVE  Typed'
<1>1. p \in Processes /\ p \notin Signers
  BY DEF Processes, ReceiptsAssumption
<1>2. LoadOrGenerate(p, "done") /\ UNCHANGED <<clock, keyring, keys, receipts, writer>>
  BY DEF KeysInit
<1>. QED  BY <1>1, <1>2, LoadsTyped

LEMMA LoadKeysTyped ==
    ASSUME ReceiptsAssumption, Typed, NEW p \in Signers, LoadKeys(p)
    PROVE  Typed'
<1>1. p \in Processes
  BY DEF Processes
<1>2. /\ task[p].at = "locked" /\ LoadOrGenerate(p, "loaded")
      /\ UNCHANGED <<clock, keyring, keys, receipts, writer>>
  BY DEF LoadKeys
<1>. QED  BY <1>1, <1>2, LoadsTyped

LEMMA StampEarlyTyped ==
    ASSUME ReceiptsAssumption, Typed, NEW p \in Signers, NEW s \in Subjects, StampEarly(p, s)
    PROVE  Typed'
<1>. DEFINE t == Started("stamped", clock, Missing, s)
<1>0. p \in Processes /\ IsTask(p, task[p], made, clock, keyring, writer) /\ clock \in Nat
  BY TaskOf DEF Processes, Typed, LedgerTyped
<1>1. /\ task[p].at = "idle" /\ s \in Memories
      /\ UNCHANGED <<clock, keyring, made, keys, receipts, writer>>
  BY DEF StampEarly
<1>2. Becomes(p, t)
  BY DEF StampEarly, Becomes
<1>3. /\ t.at = "stamped" /\ t.now = clock /\ t.subject = s
      /\ t \in [at : Ats, now : Nat, ring : {t.ring}, subject : {t.subject}]
  BY <1>0, StartedTask DEF Ats
<1>. HIDE DEF t
<1>4. IsTask(p, t, made, clock, keyring, writer)
  BY <1>0, <1>1, <1>3 DEF IsTask, Writing, Rotating
<1>. QED  BY <1>0, <1>1, <1>2, <1>4, QuietTyped

LEMMA BeginTyped ==
    ASSUME ReceiptsAssumption, Typed, NEW p \in Signers, NEW s \in Subjects, Begin(p, s)
    PROVE  /\ Typed'
           /\ \E t : /\ Becomes(p, t) /\ t.at = "locked"
                     /\ p \notin EarlyStampers => t.now = clock
<1>0. p \in Processes /\ IsTask(p, task[p], made, clock, keyring, writer) /\ clock \in Nat
  BY TaskOf DEF Processes, Typed, LedgerTyped
<1>1. writer = "none" /\ writer' = p /\ UNCHANGED <<clock, keyring, made, keys, receipts>>
  BY DEF Begin
<1>2. CASE p \in EarlyStampers
  <2>. DEFINE t == Started("locked", task[p].now, task[p].ring, task[p].subject)
  <2>1. task[p].at = "stamped" /\ Goes(p, "locked")
    BY <1>2 DEF Begin
  <2>2. Becomes(p, t)
    BY <1>0, <2>1, TaskOf, Zenon
  <2>3. /\ t.at = "locked" /\ t.now = task[p].now /\ t.subject = task[p].subject
        /\ t \in [at : Ats, now : Nat, ring : {t.ring}, subject : {t.subject}]
    BY <1>0, StartedTask DEF Ats, IsTask
  <2>. HIDE DEF t
  <2>4. IsTask(p, t, made, clock, keyring, writer')
    BY <1>0, <1>1, <2>1, <2>3 DEF IsTask, Writing, Rotating
  <2>. QED  BY <1>0, <1>1, <1>2, <2>2, <2>3, <2>4, LockTyped
<1>3. CASE p \notin EarlyStampers
  <2>. DEFINE t == Started("locked", clock, Missing, s)
  <2>1. Becomes(p, t)
    BY <1>3 DEF Begin, Becomes
  <2>2. /\ t.at = "locked" /\ t.now = clock /\ t.subject = s
        /\ t \in [at : Ats, now : Nat, ring : {t.ring}, subject : {t.subject}]
    BY <1>0, StartedTask DEF Ats
  <2>. HIDE DEF t
  <2>3. IsTask(p, t, made, clock, keyring, writer')
    BY <1>0, <1>1, <1>3, <2>2 DEF IsTask, Writing, Rotating
  <2>. QED  BY <1>0, <1>1, <2>1, <2>2, <2>3, LockTyped
<1>. QED  BY <1>2, <1>3

LEMMA RotateLoadsTyped ==
    ASSUME ReceiptsAssumption, Typed, NEW p \in Rotators, RotateLoads(p)
    PROVE  /\ Typed' /\ made' = made + 1 /\ IsRing(keyring, made)
           /\ Becomes(p, Started("rotating", clock, keyring, made + 1))
<1>. DEFINE t == Started("rotating", clock, keyring, made + 1)
<1>0. /\ p \in Processes /\ p \notin Signers /\ EarlyStampers \subseteq Signers
      /\ KeysTyped /\ LedgerTyped /\ writer \in Signers \cup {"none"}
  BY DEF Processes, ReceiptsAssumption, Typed, TasksTyped
<1>1. /\ made < MaxKeys /\ keyring # Missing /\ made' = made + 1
      /\ UNCHANGED <<clock, keyring, keys, receipts, writer>>
  BY DEF RotateLoads
<1>2. Becomes(p, t)
  BY <1>1 DEF RotateLoads, Becomes
<1>3. /\ made \in Nat /\ made' \in Nat /\ made' <= MaxKeys /\ made <= made' /\ clock \in Nat
      /\ IsRing(keyring, made) /\ made + 1 \in 1..made'
  BY <1>0, <1>1 DEF KeysTyped, LedgerTyped, ReceiptsAssumption
<1>4. IsRing(keyring, made')
  BY <1>3, MoreSeeds
<1>5. /\ t.at = "rotating" /\ t.now = clock /\ t.ring = keyring /\ t.subject = made + 1
      /\ t \in [at : Ats, now : Nat, ring : {t.ring}, subject : {t.subject}]
  BY <1>3, StartedTask DEF Ats
<1>. HIDE DEF t
<1>6. IsTask(p, t, made', clock', keyring', writer')
  BY <1>0, <1>1, <1>3, <1>4, <1>5 DEF IsTask, Writing, Rotating
<1>7. KeysTyped' /\ LedgerTyped'
  BY <1>0, <1>1, <1>3, <1>4, MoreSeeds DEF KeysTyped, LedgerTyped
<1>8. Typed'
  BY <1>0, <1>1, <1>2, <1>3, <1>6, <1>7, StepTyped
<1>. QED  BY <1>1, <1>2, <1>3, <1>8 DEF t

\* What a rotator goes on with.
LEMMA RotatorTask ==
    ASSUME ReceiptsAssumption, Typed, NEW p \in Rotators, task[p].at \in Rotating
    PROVE  /\ p \in Processes /\ p \notin Signers /\ p \notin EarlyStampers
           /\ IsRing(task[p].ring, made) /\ task[p].subject \in 1..made
           /\ task[p].now \in Nat /\ task[p].now <= clock
           /\ \A at : Goes(p, at) => Becomes(p, Started(at, task[p].now, task[p].ring, task[p].subject))
<1>1. p \in Processes /\ p \notin Signers /\ p \notin EarlyStampers
  BY DEF Processes, ReceiptsAssumption
<1>2. IsTask(p, task[p], made, clock, keyring, writer)
  BY <1>1, TaskOf
<1>3. \A at : Goes(p, at) => Becomes(p, Started(at, task[p].now, task[p].ring, task[p].subject))
  BY <1>1, TaskOf
<1>. QED  BY <1>1, <1>2, <1>3 DEF IsTask

\* A step of a rotator that only goes on.
LEMMA RotatorGoes ==
    ASSUME ReceiptsAssumption, Typed, NEW p \in Rotators, task[p].at \in Rotating,
           NEW at \in Rotating \cup {"done"}
    PROVE  IsTask(p, Started(at, task[p].now, task[p].ring, task[p].subject), made, clock, keyring, writer)
<1>. DEFINE t == Started(at, task[p].now, task[p].ring, task[p].subject)
<1>1. at \in Ats
  BY DEF Ats, Rotating
<1>2. /\ t.at = at /\ t.now = task[p].now /\ t.ring = task[p].ring /\ t.subject = task[p].subject
      /\ t \in [at : Ats, now : Nat, ring : {t.ring}, subject : {t.subject}]
  BY <1>1, RotatorTask, StartedTask
<1>. HIDE DEF t
<1>3. IsTask(p, t, made, clock, keyring, writer)
  BY <1>2, RotatorTask DEF IsTask, Rotating
<1>. QED  BY <1>3 DEF t

\* ... and that writes the file.
LEMMA FileTyped ==
    ASSUME ReceiptsAssumption, Typed, NEW p \in Rotators, task[p].at \in Rotating,
           NEW at \in Rotating \cup {"done"}, Goes(p, at), IsRing(keyring', made),
           UNCHANGED <<clock, made, keys, receipts, writer>>
    PROVE  Typed'
<1>. DEFINE t == Started(at, task[p].now, task[p].ring, task[p].subject)
<1>1. /\ p \in Processes /\ KeysTyped /\ LedgerTyped /\ writer \in Signers \cup {"none"} /\ Becomes(p, t)
      /\ IsTask(p, t, made, clock, keyring, writer)
  BY RotatorTask, RotatorGoes DEF Typed, TasksTyped
<1>2. t.at = at
  BY StartedTask
<1>. HIDE DEF t
<1>3. at # "written"
  BY DEF Rotating
<1>4. IsTask(p, t, made', clock', keyring', writer')
  BY <1>1, <1>2, <1>3 DEF IsTask
<1>5. made \in Nat /\ keyring' # Missing
  BY <1>1, MissingIsNoRing DEF KeysTyped
<1>6. KeysTyped' /\ LedgerTyped'
  BY <1>1 DEF KeysTyped, LedgerTyped
<1>. QED  BY <1>1, <1>4, <1>5, <1>6, StepTyped

LEMMA RotateWritesTyped ==
    ASSUME ReceiptsAssumption, Typed, NEW p \in Rotators, RotateWrites(p)
    PROVE  Typed' /\ keyring'.active = task[p].subject
<1>1. /\ task[p].at = "rotating" /\ Goes(p, "activated")
      /\ keyring' = Rotated(task[p].ring, task[p].subject, task[p].now)
      /\ UNCHANGED <<clock, made, keys, receipts, writer>>
  BY DEF RotateWrites
<1>2. /\ IsRing(task[p].ring, made) /\ task[p].subject \in 1..made
      /\ task[p].now \in Nat /\ made \in Nat
  BY <1>1, RotatorTask DEF Rotating, Typed, KeysTyped
<1>3. IsRing(keyring', made) /\ keyring'.active = task[p].subject
  BY <1>1, <1>2, RotatedTyped
<1>. QED  BY <1>1, <1>3, FileTyped DEF Rotating

LEMMA RestoreTyped ==
    ASSUME ReceiptsAssumption, Typed, NEW p \in Rotators, Restore(p)
    PROVE  Typed'
<1>1. /\ task[p].at = "failed" /\ Goes(p, "done") /\ keyring' = task[p].ring
      /\ UNCHANGED <<clock, made, keys, receipts, writer>>
  BY DEF Restore
<1>2. IsRing(task[p].ring, made)
  BY <1>1, RotatorTask DEF Rotating
<1>. QED  BY <1>1, <1>2, FileTyped DEF Rotating

LEMMA RotateFailsTyped ==
    ASSUME ReceiptsAssumption, Typed, NEW p \in Rotators, RotateFails(p)
    PROVE  Typed'
<1>. DEFINE t == Started("failed", task[p].now, task[p].ring, task[p].subject)
<1>1. /\ task[p].at \in Rotating /\ Goes(p, "failed")
      /\ UNCHANGED <<clock, keyring, made, keys, receipts, writer>>
  BY DEF RotateFails, Rotating
<1>2. p \in Processes /\ Becomes(p, t)
  BY <1>1, RotatorTask
<1>3. IsTask(p, t, made, clock, keyring, writer)
  BY <1>1, RotatorGoes DEF Rotating
<1>. HIDE DEF t
<1>. QED  BY <1>1, <1>2, <1>3, QuietTyped

\* The keys after the transaction of a rotation: both are registered, the old one is
\* revoked, unless it was before.
Registered(p) ==
    With(With(keys, task[p].ring.active, Entry(task[p].ring.seeds[task[p].ring.active].created)),
         task[p].subject, Entry(task[p].now))

LEMMA RegisteredTyped ==
    ASSUME ReceiptsAssumption, Typed, NEW p \in Rotators, task[p].at \in Rotating
    PROVE  /\ IsMap(Registered(p), made)
           /\ DOMAIN Registered(p) = DOMAIN keys \cup {task[p].ring.active, task[p].subject}
           /\ \A k \in DOMAIN Registered(p) :
                 Registered(p)[k].revoked # Never => k \in DOMAIN keys /\ keys[k] = Registered(p)[k]
<1>. DEFINE old == task[p].ring.active
            e1  == Entry(task[p].ring.seeds[old].created)
            e2  == Entry(task[p].now)
            one == With(keys, old, e1)
<1>1. /\ IsRing(task[p].ring, made) /\ task[p].subject \in 1..made
      /\ task[p].now \in Nat /\ IsMap(keys, made) /\ made \in Nat
  BY RotatorTask DEF Typed, KeysTyped
<1>2. old \in 1..made /\ task[p].ring.seeds[old] \in Entries
  BY <1>1 DEF IsRing, IsMap
<1>3. task[p].ring.seeds[old].created \in Nat
  BY <1>2 DEF Entries
<1>4. e1 \in Entries /\ e1.revoked = Never /\ e2 \in Entries /\ e2.revoked = Never
  BY <1>1, <1>3, EntryTyped
<1>. HIDE DEF e1, e2
<1>5. IsMap(one, made) /\ DOMAIN one = DOMAIN keys \cup {old}
      /\ \A k \in DOMAIN one : one[k].revoked # Never => k \in DOMAIN keys /\ one[k] = keys[k]
  <2>1. IsMap(one, made)
    BY <1>1, <1>2, <1>4, MapWithTyped
  <2>2. /\ DOMAIN one = DOMAIN keys \cup {old}
        /\ \A k \in DOMAIN one : one[k] = IF k \in DOMAIN keys THEN keys[k] ELSE e1
    BY DEF With
  <2>. QED  BY <2>1, <2>2, <1>4
<1>6. /\ Registered(p) = With(one, task[p].subject, e2)
      /\ IsMap(With(one, task[p].subject, e2), made)
  BY <1>1, <1>4, <1>5, MapWithTyped DEF Registered, e1, e2
<1>. HIDE DEF one
<1>7. /\ DOMAIN Registered(p) = DOMAIN one \cup {task[p].subject}
      /\ \A k \in DOMAIN Registered(p) : Registered(p)[k] = IF k \in DOMAIN one THEN one[k] ELSE e2
  BY <1>6 DEF With
<1>. QED  BY <1>4, <1>5, <1>6, <1>7

LEMMA RotateCommitsTyped ==
    ASSUME ReceiptsAssumption, Typed, NEW p \in Rotators, RotateCommits(p)
    PROVE  /\ Typed'
           /\ \/ keys' = keys /\ Goes(p, "failed")
              \/ /\ keys' = [Registered(p) EXCEPT ![task[p].ring.active].revoked = task[p].now]
                 /\ Goes(p, "done")
<1>. DEFINE old == task[p].ring.active
            after == [Registered(p) EXCEPT ![old].revoked = task[p].now]
<1>1. /\ task[p].at = "activated" /\ writer = "none"
      /\ \/ keys' = keys /\ Goes(p, "failed")
         \/ keys' = after /\ Goes(p, "done")
      /\ UNCHANGED <<clock, keyring, made, receipts, writer>>
  BY DEF RotateCommits, Registered
<1>2. task[p].at \in Rotating /\ KeysTyped /\ LedgerTyped /\ p \in Processes
  BY <1>1, RotatorTask DEF Rotating, Typed
<1>3. CASE keys' = keys /\ Goes(p, "failed")
  <2>. DEFINE t == Started("failed", task[p].now, task[p].ring, task[p].subject)
  <2>1. Becomes(p, t) /\ IsTask(p, t, made, clock, keyring, writer)
    BY <1>2, <1>3, RotatorTask, RotatorGoes DEF Rotating
  <2>. HIDE DEF t
  <2>2. Typed'
    BY <1>1, <1>2, <1>3, <2>1, QuietTyped
  <2>. QED  BY <2>2, <1>1
<1>4. CASE keys' = after /\ Goes(p, "done")
  <2>. DEFINE t == Started("done", task[p].now, task[p].ring, task[p].subject)
  <2>1. Becomes(p, t) /\ IsTask(p, t, made, clock, keyring, writer)
    BY <1>2, <1>4, RotatorTask, RotatorGoes
  <2>. HIDE DEF t
  <2>2. /\ IsMap(Registered(p), made) /\ old \in DOMAIN Registered(p)
        /\ DOMAIN keys \subseteq DOMAIN Registered(p) /\ task[p].now \in Nat /\ made \in Nat
    BY <1>2, RegisteredTyped, RotatorTask DEF KeysTyped
  <2>. HIDE DEF old
  <2>3. IsMap(after, made) /\ DOMAIN after = DOMAIN Registered(p)
    BY <2>2, MapRevoked
  <2>. HIDE DEF after
  <2>4. KeysTyped' /\ LedgerTyped'
    BY <1>1, <1>2, <1>4, <2>2, <2>3 DEF KeysTyped, LedgerTyped
  <2>5. IsTask(p, t, made', clock', keyring', writer') /\ made <= made'
    BY <1>1, <2>1, <2>2
  <2>6. Typed'
    BY <1>1, <1>2, <2>1, <2>4, <2>5, StepTyped
  <2>. QED  BY <2>6, <1>1 DEF after, old
<1>. QED  BY <1>1, <1>3, <1>4

LEMMA EmptyIsSeq == IsSeq(<<>>) /\ Len(<<>>) = 0
BY DEF IsSeq

LEMMA SeqAppend ==
    ASSUME NEW s, IsSeq(s), NEW e
    PROVE  /\ IsSeq(Append(s, e)) /\ Len(Append(s, e)) = Len(s) + 1
           /\ Append(s, e)[Len(s) + 1] = e
           /\ \A n \in 1..Len(s) : Append(s, e)[n] = s[n]
<1>. DEFINE S == {s[n] : n \in 1..Len(s)} \cup {e}
            t == Append(s, e)
<1>1. s \in [1..Len(s) -> S] /\ Len(s) \in Nat
  BY DEF IsSeq
<1>2. s \in Seq(S) /\ e \in S
  BY <1>1
<1>. HIDE DEF S
<1>3. /\ t \in Seq(S) /\ Len(t) = Len(s) + 1 /\ t[Len(s) + 1] = e
      /\ \A n \in 1..Len(s) : t[n] = s[n]
  BY <1>2
<1>. HIDE DEF t
<1>4. IsSeq(t)
  BY <1>1, <1>3 DEF IsSeq
<1>. QED  BY <1>3, <1>4 DEF t

LEMMA SeqDomain == ASSUME NEW s, IsSeq(s) PROVE DOMAIN s = 1..Len(s)
BY DEF IsSeq

\* The receipt that p is about to sign, and the keys once it is.
NewReceipt(p) == [subject |-> task[p].subject, key |-> task[p].ring.active,
                  at |-> task[p].now, prev |-> ChainHead(task[p].subject)]
NewKeys(p) == With(keys, task[p].ring.active,
                   Entry(task[p].ring.seeds[task[p].ring.active].created))
Signs(p) == /\ Usable(task[p].ring)
            /\ receipts' = Append(receipts, NewReceipt(p)) /\ keys' = NewKeys(p)

LEMMA NewKeysTyped ==
    ASSUME ReceiptsAssumption, Typed, NEW p \in Processes, task[p].at = "loaded"
    PROVE  /\ IsMap(NewKeys(p), made) /\ DOMAIN NewKeys(p) = DOMAIN keys \cup {task[p].ring.active}
           /\ \A k \in DOMAIN NewKeys(p) :
                 NewKeys(p)[k].revoked # Never => k \in DOMAIN keys /\ keys[k] = NewKeys(p)[k]
<1>. DEFINE k0 == task[p].ring.active
            e  == Entry(task[p].ring.seeds[k0].created)
<1>1. IsTask(p, task[p], made, clock, keyring, writer) /\ made \in Nat /\ IsMap(keys, made)
  BY TaskOf DEF Typed, KeysTyped
<1>2. IsRing(task[p].ring, made)
  BY <1>1 DEF IsTask
<1>3. k0 \in 1..made /\ task[p].ring.seeds[k0] \in Entries
  BY <1>2 DEF IsRing, IsMap
<1>4. task[p].ring.seeds[k0].created \in Nat
  BY <1>3 DEF Entries
<1>5. e \in Entries /\ e.revoked = Never
  BY <1>4, EntryTyped
<1>. HIDE DEF e
<1>6. NewKeys(p) = With(keys, k0, e) /\ IsMap(With(keys, k0, e), made)
  BY <1>1, <1>3, <1>5, MapWithTyped DEF NewKeys, e
<1>7. /\ DOMAIN NewKeys(p) = DOMAIN keys \cup {k0}
      /\ \A k \in DOMAIN NewKeys(p) : NewKeys(p)[k] = IF k \in DOMAIN keys THEN keys[k] ELSE e
  BY <1>6 DEF With
<1>. QED  BY <1>5, <1>6, <1>7

LEMMA SignTyped ==
    ASSUME ReceiptsAssumption, Typed, NEW p \in Signers, Sign(p)
    PROVE  /\ Typed' /\ task[p].at = "loaded" /\ writer = p
           /\ Signs(p) \/ UNCHANGED <<receipts, keys>>
           /\ Becomes(p, Started("idle", task[p].now, task[p].ring, task[p].subject))
<1>. DEFINE t == Started("idle", task[p].now, task[p].ring, task[p].subject)
<1>1. /\ task[p].at = "loaded" /\ writer' = "none" /\ Goes(p, "idle")
      /\ UNCHANGED <<clock, keyring, made>>
      /\ Signs(p) \/ UNCHANGED <<receipts, keys>>
  BY DEF Sign, Signs, NewReceipt, NewKeys
<1>2. /\ p \in Processes /\ IsTask(p, task[p], made, clock, keyring, writer)
      /\ KeysTyped /\ LedgerTyped
  BY TaskOf DEF Processes, Typed
<1>3. /\ writer = p /\ task[p].now \in Nat /\ task[p].now <= clock
  BY <1>1, <1>2 DEF IsTask, Writing
<1>4. Becomes(p, t)
  BY <1>1, <1>2, TaskOf, Zenon
<1>5. /\ t.at = "idle" /\ t.now = task[p].now /\ t.ring = task[p].ring /\ t.subject = task[p].subject
      /\ t \in [at : Ats, now : Nat, ring : {t.ring}, subject : {t.subject}]
  BY <1>3, StartedTask DEF Ats
<1>. HIDE DEF t
<1>6. IsTask(p, t, made', clock', keyring', writer')
  BY <1>1, <1>2, <1>3, <1>5 DEF IsTask, Writing, Rotating, ReceiptsAssumption
<1>7. KeysTyped' /\ LedgerTyped'
  <2>1. CASE UNCHANGED <<receipts, keys>>
    BY <1>1, <1>2, <2>1 DEF KeysTyped, LedgerTyped
  <2>2. CASE Signs(p)
    <3>1. /\ receipts' = Append(receipts, NewReceipt(p)) /\ keys' = NewKeys(p)
          /\ IsMap(NewKeys(p), made) /\ DOMAIN NewKeys(p) = DOMAIN keys \cup {task[p].ring.active}
      BY <1>1, <1>2, <2>2, NewKeysTyped DEF Signs
    <3>2. IsSeq(receipts) /\ Len(receipts) \in Nat
      BY <1>2 DEF LedgerTyped, IsSeq
    <3>3. /\ IsSeq(receipts') /\ Len(receipts') = Len(receipts) + 1
          /\ receipts'[Len(receipts) + 1] = NewReceipt(p)
          /\ \A n \in 1..Len(receipts) : receipts'[n] = receipts[n]
      BY <3>1, <3>2, SeqAppend
    <3>4. NewReceipt(p).key = task[p].ring.active /\ NewReceipt(p).at = task[p].now
      BY DEF NewReceipt
    <3>5. ASSUME NEW n \in 1..Len(receipts')
          PROVE  receipts'[n].key \in DOMAIN keys' /\ receipts'[n].at \in Nat /\ receipts'[n].at <= clock
      <4>1. CASE n \in 1..Len(receipts)
        BY <1>2, <3>1, <3>3, <4>1 DEF LedgerTyped
      <4>2. CASE n = Len(receipts) + 1
        BY <1>3, <3>1, <3>3, <3>4, <4>2
      <4>. QED  BY <3>2, <3>3, <4>1, <4>2
    <3>6. LedgerTyped'
      BY <1>1, <1>2, <3>3, <3>5 DEF LedgerTyped
    <3>. QED  BY <1>1, <1>2, <3>1, <3>6 DEF KeysTyped
  <2>. QED  BY <1>1, <2>1, <2>2
<1>8. made <= made'
  BY <1>1, <1>2 DEF KeysTyped
<1>9. Typed'
  BY <1>1, <1>2, <1>3, <1>4, <1>6, <1>7, <1>8, StepTyped
<1>. QED  BY <1>1, <1>3, <1>4, <1>9 DEF t

LEMMA CrashTyped ==
    ASSUME ReceiptsAssumption, Typed, NEW p \in Processes, Crash(p)
    PROVE  /\ Typed'
           /\ Becomes(p, Started("done", task[p].now, task[p].ring, task[p].subject))
<1>. DEFINE t == Started("done", task[p].now, task[p].ring, task[p].subject)
<1>1. /\ Goes(p, "done") /\ writer' = IF writer = p THEN "none" ELSE writer
      /\ UNCHANGED <<clock, keyring, made, keys, receipts>>
  BY DEF Crash
<1>2. IsTask(p, task[p], made, clock, keyring, writer) /\ writer \in Signers \cup {"none"}
  BY TaskOf DEF Typed, TasksTyped
<1>3. Becomes(p, t)
  BY <1>1, TaskOf, Zenon
<1>4. /\ t.at = "done" /\ t.now = task[p].now /\ t.ring = task[p].ring /\ t.subject = task[p].subject
      /\ t \in [at : Ats, now : Nat, ring : {t.ring}, subject : {t.subject}]
  BY <1>2, StartedTask DEF Ats, IsTask
<1>. HIDE DEF t
<1>5. IsTask(p, t, made, clock, keyring, writer')
  BY <1>1, <1>2, <1>4 DEF IsTask, Writing, Rotating, ReceiptsAssumption
<1>6. Typed'
  BY <1>1, <1>2, <1>3, <1>5, LockTyped
<1>. QED  BY <1>3, <1>6 DEF t

-----------------------------------------------------------------------------
LEMMA TypedInit == ASSUME ReceiptsAssumption, Init PROVE Typed
<1>1. KeysTyped
  BY EmptyMap DEF Init, KeysTyped, ReceiptsAssumption
<1>2. LedgerTyped
  BY EmptyIsSeq DEF Init, LedgerTyped, ReceiptsAssumption
<1>3. ASSUME NEW p \in Processes PROVE IsTask(p, task[p], made, clock, keyring, writer)
  <2>1. task[p] = Idle /\ clock = 0 /\ writer = "none"
    BY DEF Init
  <2>2. /\ Idle.at = "idle" /\ Idle.now = 0
        /\ Idle \in [at : Ats, now : Nat, ring : {Idle.ring}, subject : {Idle.subject}]
    BY StartedTask DEF Idle, Ats
  <2>. QED  BY <2>1, <2>2 DEF IsTask, Writing, Rotating, ReceiptsAssumption
<1>4. TasksTyped
  BY <1>3 DEF Init, TasksTyped
<1>. QED  BY <1>1, <1>2, <1>4 DEF Typed

LEMMA TypedStep == ASSUME ReceiptsAssumption, Typed, [Next]_vars PROVE Typed'
<1>1. CASE UNCHANGED vars
  BY <1>1 DEF vars, Typed, KeysTyped, LedgerTyped, TasksTyped
<1>2. CASE ActStep
  BY <1>2, StampEarlyTyped, BeginTyped DEF ActStep
<1>3. CASE SignStep
  BY <1>3, LoadKeysTyped, SignTyped DEF SignStep
<1>4. CASE FileStep
  BY <1>4, WriteNewKeyTyped, ReloadTyped DEF FileStep
<1>5. CASE InitStep
  BY <1>5, KeysInitTyped DEF InitStep
<1>6. CASE RotateStep
  BY <1>6, RotateLoadsTyped, RotateWritesTyped, RotateCommitsTyped, RotateFailsTyped, RestoreTyped
     DEF RotateStep
<1>. QED  BY <1>1, <1>2, <1>3, <1>4, <1>5, <1>6, TickTyped, CrashTyped DEF Next

\* The ledger, the keys, the file and the tasks stay well typed: every receipt is of a
\* registered key and of a time that has passed, the file has the seed of its active
\* key, and only a process inside its act holds the write lock; for any number of
\* signers, initializers and rotators.
THEOREM TypesHold == ASSUME ReceiptsAssumption PROVE Spec => []TypeOK
<1>1. Init => Typed
  BY TypedInit
<1>2. Typed /\ [Next]_vars => Typed'
  BY TypedStep
<1>3. Typed => TypeOK
  <2>. SUFFICES ASSUME Typed PROVE TypeOK
    OBVIOUS
  <2>1. clock \in 0..MaxTime /\ made \in 0..MaxKeys
    BY DEF Typed, KeysTyped, LedgerTyped, ReceiptsAssumption
  <2>2. keyring = Missing \/ keyring.active \in DOMAIN keyring.seeds
    BY DEF Typed, KeysTyped, IsRing
  <2>3. DOMAIN keys \subseteq 1..made /\ DOMAIN keyring.seeds \subseteq 1..made
    <3>1. DOMAIN Missing.seeds = {}
      BY EmptyMap DEF Missing
    <3>. QED  BY <3>1 DEF Typed, KeysTyped, IsRing, IsMap
  <2>4. \A r \in Range(receipts) : r.key \in DOMAIN keys /\ r.at <= clock
    BY SeqDomain DEF Typed, LedgerTyped, Range
  <2>5. writer # "none" => task[writer].at \notin {"idle", "stamped", "done"}
    BY TaskOf DEF Typed, TasksTyped, IsTask, Writing, Processes
  <2>. QED  BY <2>1, <2>2, <2>3, <2>4, <2>5 DEF TypeOK
<1>. QED  BY <1>1, <1>2, <1>3, PTL DEF Spec

\* Once the store has a key revoked nothing is signed with it: with any number of
\* rotations at once, and though a failed one may make it the active key of the file
\* again.
THEOREM RevokedKeysSignNothing == ASSUME ReceiptsAssumption PROVE Spec => RevokedKeySignsNothing
<1>. DEFINE New(i) == receipts'[i].key \in DOMAIN keys => keys[receipts'[i].key].revoked = Never
<1>1. Init => Typed
  BY TypedInit
<1>2. Typed /\ [Next]_vars => Typed'
  BY TypedStep
<1>3. ASSUME Typed, [Next]_vars
      PROVE  (\A i \in DOMAIN receipts' \ DOMAIN receipts : New(i)) \/ UNCHANGED vars
  <2>1. CASE receipts' = receipts
    BY <2>1
  <2>2. ASSUME NEW p \in Signers, Sign(p), NEW i \in DOMAIN receipts' \ DOMAIN receipts PROVE New(i)
    <3>1. Signs(p) \/ receipts' = receipts
      BY <1>3, <2>2, SignTyped
    <3>2. Signs(p) /\ IsSeq(receipts) /\ Len(receipts) \in Nat
      BY <1>3, <2>2, <3>1 DEF Typed, LedgerTyped, IsSeq
    <3>3. /\ IsSeq(receipts') /\ Len(receipts') = Len(receipts) + 1
          /\ receipts'[Len(receipts) + 1] = NewReceipt(p)
      BY <3>2, SeqAppend DEF Signs
    <3>4. i = Len(receipts) + 1
      BY <2>2, <3>2, <3>3, SeqDomain
    <3>5. receipts'[i].key = task[p].ring.active
      BY <3>3, <3>4 DEF NewReceipt
    <3>. QED  BY <3>2, <3>5 DEF Signs, Usable
  <2>3. receipts' = receipts \/ \E p \in Signers : Sign(p)
    BY <1>3 DEF Next, vars, Tick, ActStep, SignStep, FileStep, InitStep, RotateStep, StampEarly, Begin,
       LoadKeys, WriteNewKey, Reload, KeysInit, RotateLoads, RotateWrites, RotateCommits, RotateFails,
       Restore, Crash
  <2>. QED  BY <2>1, <2>2, <2>3
<1>4. Typed /\ [Next]_vars => [\A i \in DOMAIN receipts' \ DOMAIN receipts : New(i)]_vars
  BY <1>3
<1>. QED  BY <1>1, <1>2, <1>4, PTL DEF Spec, RevokedKeySignsNothing

-----------------------------------------------------------------------------
\* Who stamps under the lock holds it until the receipt is in: nothing in the ledger
\* is younger than the stamp.
StampsAreLast ==
    \A p \in Signers \ EarlyStampers :
        task[p].at \in Writing => \A n \in 1..Len(receipts) : receipts[n].at <= task[p].now

\* The chain of a subject among the first n receipts of a ledger: the operators of
\* Receipts, with the ledger as a parameter.
OfIn(R, n, s) == {i \in 1..n : R[i].subject = s}
BeforeIn(R, i, j) == R[i].at < R[j].at \/ (R[i].at = R[j].at /\ i < j)
LatestIn(R, h, acts) == h \in acts /\ \A j \in acts \ {h} : BeforeIn(R, j, h)
EarlierIn(R, n, s, i) == {j \in OfIn(R, n, s) : BeforeIn(R, j, i)}

\* h is what a receipt after these acts links to.
HeadIn(R, h, acts) == (acts = {} /\ h = 0) \/ LatestIn(R, h, acts)

ChainIn(R, n, s) ==
    /\ OfIn(R, n, s) = {} \/ \E h : LatestIn(R, h, OfIn(R, n, s))
    /\ \A i \in OfIn(R, n, s) : HeadIn(R, R[i].prev, EarlierIn(R, n, s, i))

Chains == \A s \in Subjects \ Memories : ChainIn(receipts, Len(receipts), s)

\* There is one latest receipt.
LEMMA LatestIsUnique ==
    ASSUME LedgerTyped, NEW acts \in SUBSET (1..Len(receipts)), NEW h, HeadIn(receipts, h, acts)
    PROVE  LatestOf(acts) = h
<1>1. CASE acts = {} /\ h = 0
  BY <1>1 DEF LatestOf
<1>2. CASE LatestIn(receipts, h, acts)
  <2>. DEFINE c == CHOOSE i \in acts : IsLatest(i, acts)
  <2>1. h \in acts /\ IsLatest(h, acts)
    BY <1>2 DEF IsLatest, LatestIn, Before, BeforeIn
  <2>2. c \in acts /\ IsLatest(c, acts)
    BY <2>1, Zenon
  <2>3. LatestOf(acts) = c
    BY <2>1 DEF LatestOf
  <2>. HIDE DEF c
  <2>4. SUFFICES ASSUME c # h PROVE FALSE
    BY <2>3
  <2>5. Before(h, c) /\ Before(c, h)
    BY <2>1, <2>2, <2>4 DEF IsLatest
  <2>6. c \in Nat /\ h \in Nat /\ receipts[c].at \in Nat /\ receipts[h].at \in Nat
    BY <2>1, <2>2 DEF LedgerTyped
  <2>. QED  BY <2>5, <2>6 DEF Before
<1>. QED  BY <1>1, <1>2 DEF HeadIn

\* A ledger whose first receipts are the same has the same chain.
LEMMA SameChain ==
    ASSUME NEW n \in Nat, NEW R, NEW Q, \A i \in 1..n : Q[i] = R[i], NEW s, ChainIn(R, n, s)
    PROVE  ChainIn(Q, n, s) /\ OfIn(Q, n, s) = OfIn(R, n, s)
<1>1. OfIn(Q, n, s) = OfIn(R, n, s) /\ OfIn(R, n, s) \subseteq 1..n
  BY DEF OfIn
<1>2. \A i, j \in 1..n : BeforeIn(Q, i, j) <=> BeforeIn(R, i, j)
  BY DEF BeforeIn
<1>3. ASSUME NEW acts \in SUBSET (1..n), NEW h
      PROVE  /\ LatestIn(Q, h, acts) <=> LatestIn(R, h, acts)
             /\ HeadIn(Q, h, acts) <=> HeadIn(R, h, acts)
  BY <1>2 DEF LatestIn, HeadIn
<1>4. \A i \in 1..n : EarlierIn(Q, n, s, i) = EarlierIn(R, n, s, i) /\ EarlierIn(R, n, s, i) \subseteq 1..n
  BY <1>1, <1>2 DEF EarlierIn
<1>. QED  BY <1>1, <1>3, <1>4 DEF ChainIn

\* A receipt of another subject leaves it alone.
LEMMA ChainSkips ==
    ASSUME NEW n \in Nat, NEW R, NEW s, R[n + 1].subject # s, ChainIn(R, n, s)
    PROVE  ChainIn(R, n + 1, s)
<1>1. 1..(n + 1) = (1..n) \cup {n + 1}
  OBVIOUS
<1>2. OfIn(R, n + 1, s) = OfIn(R, n, s)
  BY <1>1 DEF OfIn
<1>. QED  BY <1>2 DEF ChainIn, EarlierIn

\* A receipt that is not older than any, and links to the latest of its subject, is
\* the next one of the chain.
LEMMA ChainGrows ==
    ASSUME NEW n \in Nat, NEW R, NEW s, R[n + 1].subject = s, ChainIn(R, n, s),
           \A i \in 1..(n + 1) : R[i].at \in Nat /\ R[i].at <= R[n + 1].at,
           HeadIn(R, R[n + 1].prev, OfIn(R, n, s))
    PROVE  ChainIn(R, n + 1, s)
<1>1. 1..(n + 1) = (1..n) \cup {n + 1} /\ n + 1 \notin 1..n
  OBVIOUS
<1>2. OfIn(R, n + 1, s) = OfIn(R, n, s) \cup {n + 1} /\ OfIn(R, n, s) \subseteq 1..n
  BY <1>1 DEF OfIn
<1>3. ASSUME NEW i \in 1..n PROVE BeforeIn(R, i, n + 1) /\ ~BeforeIn(R, n + 1, i)
  <2>1. R[i].at \in Nat /\ R[n + 1].at \in Nat /\ R[i].at <= R[n + 1].at
    BY <1>1
  <2>. QED  BY <2>1 DEF BeforeIn
<1>4. ~BeforeIn(R, n + 1, n + 1)
  <2>1. R[n + 1].at \in Nat
    BY <1>1
  <2>. QED  BY <2>1 DEF BeforeIn
<1>5. LatestIn(R, n + 1, OfIn(R, n + 1, s))
  BY <1>2, <1>3 DEF LatestIn
<1>6. EarlierIn(R, n + 1, s, n + 1) = OfIn(R, n, s)
  BY <1>2, <1>3, <1>4 DEF EarlierIn
<1>7. \A i \in OfIn(R, n, s) : EarlierIn(R, n + 1, s, i) = EarlierIn(R, n, s, i)
  BY <1>2, <1>3 DEF EarlierIn
<1>8. ASSUME NEW i \in OfIn(R, n + 1, s) PROVE HeadIn(R, R[i].prev, EarlierIn(R, n + 1, s, i))
  <2>1. CASE i = n + 1
    BY <1>6, <2>1
  <2>2. CASE i \in OfIn(R, n, s)
    BY <1>7, <2>2 DEF ChainIn
  <2>. QED  BY <1>2, <2>1, <2>2
<1>. QED  BY <1>5, <1>8 DEF ChainIn

\* The stamps of a step that signs nothing.
LEMMA QuietStamps ==
    ASSUME StampsAreLast, receipts' = receipts,
           \A p \in Signers \ EarlyStampers :
               task'[p].at \in Writing => task[p].at \in Writing /\ task'[p].now = task[p].now
    PROVE  StampsAreLast'
BY DEF StampsAreLast

\* The operators of Receipts are those with the ledger as the parameter.
LEMMA ChainsLinked ==
    ASSUME LedgerTyped
    PROVE  /\ \A s : Of(s) = OfIn(receipts, Len(receipts), s)
           /\ Chains => ChainsVerify
           /\ \A s \in Subjects \ Memories : Chains => HeadIn(receipts, ChainHead(s), Of(s))
<1>1. DOMAIN receipts = 1..Len(receipts)
  BY SeqDomain DEF LedgerTyped
<1>2. \A s : Of(s) = OfIn(receipts, Len(receipts), s) /\ Of(s) \in SUBSET (1..Len(receipts))
  BY <1>1 DEF Of, OfIn
<1>3. ASSUME Chains, NEW s \in Subjects \ Memories PROVE Linked(s)
  <2>. SUFFICES ASSUME NEW i \in Of(s)
                PROVE  receipts[i].prev = LatestOf({j \in Of(s) : Before(j, i)})
    BY DEF Linked
  <2>. DEFINE acts == EarlierIn(receipts, Len(receipts), s, i)
  <2>1. {j \in Of(s) : Before(j, i)} = acts /\ acts \in SUBSET (1..Len(receipts))
    BY <1>2 DEF EarlierIn, Before, BeforeIn
  <2>2. HeadIn(receipts, receipts[i].prev, acts)
    BY <1>2, <1>3 DEF Chains, ChainIn
  <2>. HIDE DEF acts
  <2>3. LatestOf(acts) = receipts[i].prev
    BY <2>1, <2>2, LatestIsUnique
  <2>. QED  BY <2>1, <2>3
<1>4. ASSUME Chains, NEW s \in Subjects \ Memories PROVE HeadIn(receipts, ChainHead(s), Of(s))
  <2>1. CASE Of(s) = {}
    BY <2>1 DEF HeadIn, ChainHead, LatestOf
  <2>2. ASSUME NEW h, LatestIn(receipts, h, Of(s)) PROVE HeadIn(receipts, ChainHead(s), Of(s))
    <3>1. HeadIn(receipts, h, Of(s))
      BY <2>2 DEF HeadIn
    <3>2. ChainHead(s) = h
      BY <1>2, <3>1, LatestIsUnique DEF ChainHead
    <3>. QED  BY <3>1, <3>2
  <2>. QED  BY <1>2, <1>4, <2>1, <2>2 DEF Chains, ChainIn
<1>. QED  BY <1>2, <1>3, <1>4 DEF ChainsVerify

\* A signature by p appends to the chain of its subject.
LEMMA SignChains ==
    ASSUME ReceiptsAssumption, Typed, StampsAreLast, Chains, NEW p \in Signers,
           task[p].at = "loaded", Signs(p)
    PROVE  Chains'
<1>1. /\ IsSeq(receipts) /\ Len(receipts) \in Nat /\ LedgerTyped
      /\ \A n \in 1..Len(receipts) : receipts[n].at \in Nat
      /\ IsTask(p, task[p], made, clock, keyring, writer) /\ task[p].now \in Nat
  BY TaskOf DEF Typed, LedgerTyped, IsSeq, Processes, IsTask
<1>. SUFFICES ASSUME NEW s \in Subjects \ Memories
              PROVE  ChainIn(receipts', Len(receipts'), s)
  BY DEF Chains
<1>. DEFINE R == receipts'
            n == Len(receipts)
<1>2. /\ Len(R) = n + 1 /\ R[n + 1] = NewReceipt(p)
      /\ \A i \in 1..n : R[i] = receipts[i]
  BY <1>1, SeqAppend DEF Signs
<1>3. /\ R[n + 1].subject = task[p].subject /\ R[n + 1].at = task[p].now
      /\ R[n + 1].prev = ChainHead(task[p].subject)
  BY <1>2 DEF NewReceipt
<1>. HIDE DEF R
<1>4. ChainIn(R, n, s) /\ OfIn(R, n, s) = OfIn(receipts, n, s)
  <2>1. ChainIn(receipts, n, s) /\ n \in Nat
    BY <1>1 DEF Chains
  <2>. HIDE DEF n
  <2>. QED  BY <1>2, <2>1, SameChain
<1>5. CASE task[p].subject # s
  <2>1. ChainIn(R, n + 1, s)
    BY <1>1, <1>3, <1>4, <1>5, ChainSkips
  <2>. QED  BY <1>2, <2>1 DEF R
<1>6. CASE task[p].subject = s
  <2>1. p \notin EarlyStampers
    BY <1>1, <1>6 DEF IsTask, Writing
  <2>2. \A i \in 1..n : receipts[i].at <= task[p].now
    BY <2>1 DEF StampsAreLast, Writing
  <2>3. \A i \in 1..(n + 1) : R[i].at \in Nat /\ R[i].at <= R[n + 1].at
    <3>. SUFFICES ASSUME NEW i \in 1..(n + 1) PROVE R[i].at \in Nat /\ R[i].at <= R[n + 1].at
      OBVIOUS
    <3>1. i \in 1..n \/ i = n + 1
      BY <1>1
    <3>. QED  BY <1>1, <1>2, <1>3, <2>2, <3>1
  <2>4. HeadIn(receipts, R[n + 1].prev, OfIn(receipts, n, s))
    BY <1>1, <1>3, <1>6, ChainsLinked
  <2>5. OfIn(receipts, n, s) \subseteq 1..n
    BY DEF OfIn
  <2>6. HeadIn(R, R[n + 1].prev, OfIn(R, n, s))
    <3>. DEFINE acts == OfIn(receipts, n, s)
                h    == R[n + 1].prev
    <3>1. HeadIn(receipts, h, acts) /\ acts \subseteq 1..n
      BY <2>4, <2>5
    <3>. HIDE DEF acts, h
    <3>2. HeadIn(R, h, acts)
      BY <1>2, <3>1 DEF HeadIn, LatestIn, BeforeIn
    <3>. QED  BY <1>4, <3>2 DEF acts, h
  <2>7. ChainIn(R, n + 1, s)
    BY <1>1, <1>3, <1>4, <1>6, <2>3, <2>6, ChainGrows
  <2>. QED  BY <1>2, <2>7 DEF R
<1>. QED  BY <1>5, <1>6

\* A step that signs nothing, and in which p takes no lock.
LEMMA KeptStamps ==
    ASSUME Typed, StampsAreLast, receipts' = receipts, NEW p \in Processes, NEW t, Becomes(p, t),
           p \in Signers \ EarlyStampers /\ t.at \in Writing =>
               task[p].at \in Writing /\ t.now = task[p].now
    PROVE  StampsAreLast'
<1>1. /\ task'[p] = t
      /\ \A q \in Processes \ {p} : task'[q] = task[q]
  BY OthersStay DEF Typed
<1>2. Signers \subseteq Processes
  BY DEF Processes
<1>. QED  BY <1>1, <1>2, QuietStamps

LEMMA StampsStep ==
    ASSUME ReceiptsAssumption, Typed, StampsAreLast, [Next]_vars
    PROVE  StampsAreLast'
<1>0. Signers \subseteq Processes /\ EarlyStampers \subseteq Signers
  BY DEF Processes, ReceiptsAssumption
<1>1. CASE UNCHANGED vars \/ Tick
  BY <1>1 DEF vars, Tick, StampsAreLast
<1>2. ASSUME NEW p \in Signers, NEW s \in Subjects, StampEarly(p, s) PROVE StampsAreLast'
  <2>1. p \in EarlyStampers /\ receipts' = receipts /\ Becomes(p, Started("stamped", clock, Missing, s))
    BY <1>2 DEF StampEarly, Becomes
  <2>. QED  BY <1>0, <2>1, KeptStamps
<1>3. ASSUME NEW p \in Signers, NEW s \in Subjects, Begin(p, s) PROVE StampsAreLast'
  <2>1. PICK t : Becomes(p, t) /\ t.at = "locked" /\ (p \notin EarlyStampers => t.now = clock)
    BY <1>3, BeginTyped
  <2>2. receipts' = receipts
    BY <1>3 DEF Begin
  <2>3. task'[p] = t /\ \A q \in Processes \ {p} : task'[q] = task[q]
    BY <1>0, <2>1, OthersStay DEF Typed
  <2>4. \A n \in 1..Len(receipts) : receipts[n].at <= clock
    BY DEF Typed, LedgerTyped
  <2>. QED  BY <1>0, <2>1, <2>2, <2>3, <2>4 DEF StampsAreLast
<1>4. ASSUME NEW p \in Signers, LoadKeys(p) PROVE StampsAreLast'
  <2>1. task[p].at = "locked" /\ LoadOrGenerate(p, "loaded") /\ receipts' = receipts
    BY <1>4 DEF LoadKeys
  <2>2. PICK t : Becomes(p, t) /\ t.now = task[p].now
    BY <1>0, <2>1, Loads, StartedTask
  <2>. QED  BY <1>0, <2>1, <2>2, KeptStamps DEF Writing
<1>5. ASSUME NEW p \in Signers, Sign(p) PROVE StampsAreLast'
  <2>1. /\ task[p].at = "loaded" /\ writer = p
        /\ Becomes(p, Started("idle", task[p].now, task[p].ring, task[p].subject))
    BY <1>5, SignTyped
  <2>2. Started("idle", task[p].now, task[p].ring, task[p].subject).at = "idle"
    BY StartedTask
  <2>3. /\ task'[p].at = "idle"
        /\ \A q \in Processes \ {p} : task'[q] = task[q]
    BY <1>0, <2>1, <2>2, OthersStay DEF Typed
  <2>4. \A q \in Signers \ {p} : task[q].at \notin Writing
    BY <1>0, <2>1, TaskOf DEF IsTask
  <2>. QED  BY <1>0, <2>3, <2>4 DEF StampsAreLast, Writing
<1>6. ASSUME NEW p \in Processes, WriteNewKey(p) PROVE StampsAreLast'
  <2>1. /\ task[p].at = "generated" /\ receipts' = receipts
        /\ Becomes(p, Started("written", task[p].now, task[p].ring, task[p].subject))
    BY <1>6, TaskOf DEF WriteNewKey
  <2>. QED  BY <2>1, StartedTask, KeptStamps DEF Writing
<1>7. ASSUME NEW p \in Processes, Reload(p) PROVE StampsAreLast'
  <2>1. /\ task[p].at = "written" /\ receipts' = receipts
        /\ \E at : Becomes(p, Started(at, task[p].now, keyring, task[p].subject))
    <3>1. /\ task[p].at = "written" /\ receipts' = receipts
          /\ Becomes(p, Took(task[p], keyring, IF p \in Signers THEN "loaded" ELSE "done"))
      BY <1>7 DEF Reload, Becomes, Took
    <3>. QED  BY <3>1, TaskOf
  <2>. QED  BY <2>1, StartedTask, KeptStamps DEF Writing
<1>8. ASSUME NEW p \in Initializers, KeysInit(p) PROVE StampsAreLast'
  <2>1. p \in Processes /\ p \notin Signers
    BY DEF Processes, ReceiptsAssumption
  <2>2. LoadOrGenerate(p, "done") /\ receipts' = receipts
    BY <1>8 DEF KeysInit
  <2>3. PICK t : Becomes(p, t)
    BY <2>1, <2>2, Loads
  <2>. QED  BY <2>1, <2>2, <2>3, KeptStamps
<1>9. ASSUME NEW r \in Rotators, RotateLoads(r) \/ RotateWrites(r) \/ RotateCommits(r) \/ RotateFails(r) \/ Restore(r)
      PROVE  StampsAreLast'
  <2>1. \A q \in Signers : q # r
    BY DEF ReceiptsAssumption
  <2>2. receipts' = receipts /\ \A q \in Signers : task'[q] = task[q]
    BY <1>0, <1>9, <2>1 DEF RotateLoads, RotateWrites, RotateCommits, RotateFails, Restore, Goes, Typed, TasksTyped
  <2>. QED  BY <2>2, QuietStamps
<1>10. ASSUME NEW p \in Processes, Crash(p) PROVE StampsAreLast'
  <2>1. receipts' = receipts /\ Becomes(p, Started("done", task[p].now, task[p].ring, task[p].subject))
    BY <1>10, CrashTyped DEF Crash
  <2>. QED  BY <2>1, StartedTask, KeptStamps DEF Writing
<1>. QED  BY <1>1, <1>2, <1>3, <1>4, <1>5, <1>6, <1>7, <1>8, <1>9, <1>10
          DEF Next, ActStep, SignStep, FileStep, InitStep, RotateStep

LEMMA ChainsStep ==
    ASSUME ReceiptsAssumption, Typed, StampsAreLast, Chains, [Next]_vars
    PROVE  Chains'
<1>1. CASE receipts' = receipts
  BY <1>1 DEF Chains
<1>2. ASSUME NEW p \in Signers, Sign(p) PROVE Chains'
  <2>1. task[p].at = "loaded" /\ (Signs(p) \/ receipts' = receipts)
    BY <1>2, SignTyped
  <2>. QED  BY <1>1, <2>1, SignChains
<1>3. receipts' = receipts \/ \E p \in Signers : Sign(p)
  BY DEF Next, vars, Tick, ActStep, SignStep, FileStep, InitStep, RotateStep, StampEarly, Begin,
     LoadKeys, WriteNewKey, Reload, KeysInit, RotateLoads, RotateWrites, RotateCommits, RotateFails,
     Restore, Crash
<1>. QED  BY <1>1, <1>2, <1>3

LEMMA ChainsInit == ASSUME ReceiptsAssumption, Init PROVE StampsAreLast /\ Chains
<1>1. receipts = <<>> /\ Len(receipts) = 0 /\ 1..Len(receipts) = {}
  BY EmptyIsSeq DEF Init
<1>2. \A s : OfIn(receipts, Len(receipts), s) = {}
  BY <1>1 DEF OfIn
<1>. QED  BY <1>1, <1>2 DEF StampsAreLast, Chains, ChainIn

\* The chain of every subject that is stamped under the write lock verifies link by
\* link, for any number of signers, first uses, rotations and crashes: whoever stamps
\* under the lock appends the youngest receipt there is.
THEOREM ChainsHold == ASSUME ReceiptsAssumption PROVE Spec => []ChainsVerify
<1>1. Init => Typed /\ StampsAreLast /\ Chains
  BY TypedInit, ChainsInit
<1>2. Typed /\ StampsAreLast /\ Chains /\ [Next]_vars => (Typed /\ StampsAreLast /\ Chains)'
  BY TypedStep, StampsStep, ChainsStep
<1>3. Typed /\ StampsAreLast /\ Chains => ChainsVerify
  BY ChainsLinked DEF Typed
<1>. QED  BY <1>1, <1>2, <1>3, PTL DEF Spec

-----------------------------------------------------------------------------
\* One rotation at a time: the keys that a process has in its hands.  T are the
\* tasks, a is the active key of the file, K is what the store has revoked, and
\* there are n seeds.
RotatorsBound(T, n) ==
    \A r \in Rotators : /\ T[r].at \in {"idle", "done"} \cup Rotating
                        /\ T[r].at # "idle" => /\ T[r].ring.active \in 1..n /\ T[r].subject \in 1..n
                                               /\ T[r].ring.active # T[r].subject

\* A key that is about to be the first of the file is nobody else's.
FreshKeys(T, a, n) ==
    \A p \in Processes : T[p].at = "generated" =>
        /\ T[p].ring.active \in 1..n /\ T[p].ring.active # a
        /\ \A q \in Processes \ {p} : T[q].at = "generated" => T[q].ring.active # T[p].ring.active
        /\ \A r \in Rotators : T[r].at # "idle" => /\ T[p].ring.active # T[r].ring.active
                                                   /\ T[p].ring.active # T[r].subject

\* The key of a rotation is out of the file before the store revokes it, and no
\* rotation that could put it back is left.
RevokedAreOut(T, a, K) ==
    /\ \A r \in Rotators : T[r].at = "activated" => a # T[r].ring.active
    /\ \A k \in K : k # a /\ \E r \in Rotators : T[r].at = "done" /\ T[r].ring.active = k

Revoked == {k \in DOMAIN keys : keys[k].revoked # Never}

KeysApart == /\ RotatorsBound(task, made)
             /\ FreshKeys(task, keyring.active, made)
             /\ RevokedAreOut(task, keyring.active, Revoked)

OneRotation == \A r, s \in Rotators : r = s

LEMMA KeysApartInit == ASSUME ReceiptsAssumption, Init PROVE KeysApart
<1>1. \A p \in Processes : task[p].at = "idle"
  BY StartedTask DEF Init, Idle
<1>2. Revoked = {}
  BY EmptyMap DEF Init, Revoked
<1>3. Rotators \subseteq Processes
  BY DEF Processes
<1>. QED  BY <1>1, <1>2, <1>3 DEF KeysApart, RotatorsBound, FreshKeys, RevokedAreOut

\* A step of a process that rotates nothing: it has no new key in its hands.
LEMMA ApartOthers ==
    ASSUME ReceiptsAssumption, Typed, KeysApart, NEW p \in Processes, p \notin Rotators,
           NEW t, Becomes(p, t), t.at # "generated",
           keyring' = keyring, made' = made, Revoked' \subseteq Revoked
    PROVE  KeysApart'
<1>1. /\ task'[p] = t
      /\ \A q \in Processes \ {p} : task'[q] = task[q]
  BY OthersStay DEF Typed
<1>2. \A r \in Rotators : r \in Processes /\ task'[r] = task[r]
  BY <1>1 DEF Processes
<1>3. RotatorsBound(task', made)
  BY <1>2 DEF KeysApart, RotatorsBound
<1>4. FreshKeys(task', keyring.active, made)
  BY <1>1, <1>2 DEF KeysApart, FreshKeys
<1>5. RevokedAreOut(task', keyring.active, Revoked')
  BY <1>2 DEF KeysApart, RevokedAreOut
<1>. QED  BY <1>3, <1>4, <1>5 DEF KeysApart

\* A first use: the file's ring, or a key that no one has.
LEMMA ApartLoads ==
    ASSUME ReceiptsAssumption, Typed, KeysApart, NEW p \in Processes, p \notin Rotators,
           NEW next, next # "generated", LoadOrGenerate(p, next), keyring' = keyring, keys' = keys
    PROVE  KeysApart'
<1>0. Revoked' = Revoked
  BY DEF Revoked
<1>1. CASE made' = made /\ Becomes(p, Started(next, task[p].now, keyring, task[p].subject))
  BY <1>0, <1>1, StartedTask, ApartOthers
<1>2. CASE made' = made + 1
           /\ Becomes(p, Started("generated", task[p].now, NewRing(made + 1, clock), task[p].subject))
  <2>. DEFINE t == Started("generated", task[p].now, NewRing(made + 1, clock), task[p].subject)
              a == keyring.active
  <2>1. t.ring.active = made + 1 /\ Becomes(p, t)
    BY <1>2, StartedTask DEF NewRing
  <2>. HIDE DEF t
  <2>2. /\ task'[p] = t
        /\ \A q \in Processes \ {p} : task'[q] = task[q]
    BY <2>1, OthersStay DEF Typed
  <2>3. \A r \in Rotators : r \in Processes /\ r # p /\ task'[r] = task[r]
    BY <2>2 DEF Processes
  <2>4. made \in Nat /\ made + 1 \notin 1..made /\ 1..made \subseteq 1..(made + 1) /\ made + 1 \in 1..(made + 1)
    BY DEF Typed, KeysTyped
  <2>5. a # made + 1
    BY <2>4 DEF Typed, KeysTyped, Missing, NoKey, IsRing
  <2>6. RotatorsBound(task', made + 1)
    BY <2>3, <2>4 DEF KeysApart, RotatorsBound
  <2>. HIDE DEF a
  <2>7. FreshKeys(task, a, made) /\ RotatorsBound(task, made)
    BY DEF KeysApart, a
  <2>8. FreshKeys(task', a, made + 1)
    <3>. SUFFICES ASSUME NEW q \in Processes, task'[q].at = "generated"
                  PROVE  /\ task'[q].ring.active \in 1..(made + 1) /\ task'[q].ring.active # a
                         /\ \A o \in Processes \ {q} :
                               task'[o].at = "generated" => task'[o].ring.active # task'[q].ring.active
                         /\ \A r \in Rotators : task'[r].at # "idle" =>
                               /\ task'[q].ring.active # task'[r].ring.active
                               /\ task'[q].ring.active # task'[r].subject
      BY DEF FreshKeys
    <3>1. CASE q = p
      <4>1. \A o \in Processes \ {p} : task[o].at = "generated" => task[o].ring.active \in 1..made
        BY <2>7 DEF FreshKeys
      <4>2. \A r \in Rotators : task[r].at # "idle" =>
                task[r].ring.active \in 1..made /\ task[r].subject \in 1..made
        BY <2>7 DEF RotatorsBound
      <4>. QED  BY <2>1, <2>2, <2>3, <2>4, <2>5, <3>1, <4>1, <4>2
    <3>2. CASE q # p
      <4>1. /\ task[q].at = "generated" /\ task'[q] = task[q]
            /\ task[q].ring.active \in 1..made /\ task[q].ring.active # a
            /\ \A o \in Processes \ {q} : task[o].at = "generated" => task[o].ring.active # task[q].ring.active
            /\ \A r \in Rotators : task[r].at # "idle" =>
                  /\ task[q].ring.active # task[r].ring.active /\ task[q].ring.active # task[r].subject
        BY <2>2, <2>7, <3>2 DEF FreshKeys
      <4>. QED  BY <2>1, <2>2, <2>3, <2>4, <4>1
    <3>. QED  BY <3>1, <3>2
  <2>9. RevokedAreOut(task', a, Revoked)
    BY <2>3 DEF KeysApart, RevokedAreOut, a
  <2>. QED  BY <1>0, <1>2, <2>6, <2>8, <2>9 DEF KeysApart, a
<1>. QED  BY <1>1, <1>2, Loads

\* The new key becomes the active one: no rotation has it, and the store has not
\* revoked it.
LEMMA ApartWrites ==
    ASSUME ReceiptsAssumption, Typed, KeysApart, NEW p \in Processes, WriteNewKey(p)
    PROVE  KeysApart'
<1>. DEFINE a == task[p].ring.active
            t == Started("written", task[p].now, task[p].ring, task[p].subject)
<1>1. /\ task[p].at = "generated" /\ keyring'.active = a /\ made' = made /\ Becomes(p, t)
      /\ Revoked' = Revoked
  BY TaskOf DEF WriteNewKey, Revoked
<1>2. t.at = "written"
  BY StartedTask
<1>3. /\ task'[p] = t
      /\ \A q \in Processes \ {p} : task'[q] = task[q]
  BY <1>1, OthersStay DEF Typed
<1>. HIDE DEF t
<1>4. \A r \in Rotators : r \in Processes /\ task'[r] = task[r]
  BY <1>1, <1>3 DEF Processes, KeysApart, RotatorsBound, Rotating
<1>5. /\ \A q \in Processes \ {p} : task[q].at = "generated" => task[q].ring.active # a
      /\ \A r \in Rotators : task[r].at # "idle" => a # task[r].ring.active /\ a # task[r].subject
  BY <1>1 DEF KeysApart, FreshKeys
<1>. HIDE DEF a
<1>6. RotatorsBound(task', made)
  BY <1>4 DEF KeysApart, RotatorsBound
<1>7. FreshKeys(task', a, made)
  BY <1>2, <1>3, <1>4, <1>5 DEF KeysApart, FreshKeys
<1>8. RevokedAreOut(task', a, Revoked)
  <2>1. \A r \in Rotators : task'[r].at = "activated" => a # task'[r].ring.active
    BY <1>4, <1>5
  <2>2. ASSUME NEW k \in Revoked
        PROVE  k # a /\ \E r \in Rotators : task'[r].at = "done" /\ task'[r].ring.active = k
    <3>1. PICK r \in Rotators : task[r].at = "done" /\ task[r].ring.active = k
      BY DEF KeysApart, RevokedAreOut
    <3>. QED  BY <1>4, <1>5, <3>1
  <2>. QED  BY <2>1, <2>2 DEF RevokedAreOut
<1>. QED  BY <1>1, <1>6, <1>7, <1>8 DEF KeysApart

\* While the rotation is not over the store has revoked nothing.
LEMMA NoneRevoked ==
    ASSUME OneRotation, KeysApart, NEW r \in Rotators, task[r].at # "done"
    PROVE  Revoked = {}
BY DEF OneRotation, KeysApart, RevokedAreOut

\* The rotation goes on, and the file has its old key, its new one or what it had.
LEMMA ApartTurns ==
    ASSUME ReceiptsAssumption, Typed, OneRotation, KeysApart, NEW r \in Rotators, task[r].at # "idle",
           NEW at \in Rotating \cup {"done"},
           Becomes(r, Started(at, task[r].now, task[r].ring, task[r].subject)), made' = made,
           keyring'.active \in {keyring.active, task[r].ring.active, task[r].subject},
           at = "activated" => keyring'.active # task[r].ring.active,
           \/ Revoked' = {}
           \/ at = "done" /\ Revoked' \subseteq {task[r].ring.active} /\ keyring'.active # task[r].ring.active
    PROVE  KeysApart'
<1>. DEFINE t == Started(at, task[r].now, task[r].ring, task[r].subject)
            a == keyring'.active
<1>1. t.at = at /\ t.ring = task[r].ring /\ t.subject = task[r].subject
  BY StartedTask
<1>2. r \in Processes /\ task'[r] = t /\ \A q \in Processes \ {r} : task'[q] = task[q]
  BY OthersStay DEF Processes, Typed
<1>. HIDE DEF t
<1>3. at # "generated" /\ at # "idle"
  BY DEF Rotating
<1>4. RotatorsBound(task', made)
  BY <1>1, <1>2 DEF OneRotation, KeysApart, RotatorsBound
<1>5. FreshKeys(task, keyring.active, made)
  BY DEF KeysApart
<1>6. FreshKeys(task', a, made)
  <2>. SUFFICES ASSUME NEW p \in Processes, task'[p].at = "generated"
                PROVE  /\ task'[p].ring.active \in 1..made /\ task'[p].ring.active # a
                       /\ \A q \in Processes \ {p} :
                             task'[q].at = "generated" => task'[q].ring.active # task'[p].ring.active
                       /\ \A s \in Rotators : task'[s].at # "idle" =>
                             /\ task'[p].ring.active # task'[s].ring.active
                             /\ task'[p].ring.active # task'[s].subject
    BY DEF FreshKeys
  <2>1. p # r /\ task'[p] = task[p]
    BY <1>1, <1>2, <1>3
  <2>2. /\ task[p].ring.active \in 1..made /\ task[p].ring.active # keyring.active
        /\ \A q \in Processes \ {p} : task[q].at = "generated" => task[q].ring.active # task[p].ring.active
        /\ task[p].ring.active # task[r].ring.active /\ task[p].ring.active # task[r].subject
    BY <1>5, <2>1 DEF FreshKeys
  <2>3. \A s \in Rotators : s = r
    BY DEF OneRotation
  <2>. QED  BY <1>1, <1>2, <1>3, <2>1, <2>2, <2>3
<1>7. RevokedAreOut(task', a, Revoked')
  BY <1>1, <1>2 DEF OneRotation, RevokedAreOut
<1>. QED  BY <1>4, <1>6, <1>7 DEF KeysApart

LEMMA ApartRotates ==
    ASSUME ReceiptsAssumption, Typed, OneRotation, KeysApart, NEW r \in Rotators,
           RotateLoads(r) \/ RotateWrites(r) \/ RotateCommits(r) \/ RotateFails(r) \/ Restore(r)
    PROVE  KeysApart'
<1>. DEFINE Turns(at) == Becomes(r, Started(at, task[r].now, task[r].ring, task[r].subject))
<1>1. CASE RotateLoads(r)
  <2>. DEFINE t == Started("rotating", clock, keyring, made + 1)
              a == keyring.active
  <2>1. /\ task[r].at = "idle" /\ keyring' = keyring /\ made' = made + 1 /\ Becomes(r, t)
        /\ IsRing(keyring, made) /\ made \in Nat /\ Revoked' = Revoked
    BY <1>1, RotateLoadsTyped DEF RotateLoads, Typed, KeysTyped, Revoked
  <2>2. t.at = "rotating" /\ t.ring.active = a /\ t.subject = made + 1
    BY StartedTask
  <2>3. r \in Processes /\ task'[r] = t /\ \A q \in Processes \ {r} : task'[q] = task[q]
    BY <2>1, OthersStay DEF Processes, Typed
  <2>. HIDE DEF t
  <2>4. /\ a \in 1..(made + 1) /\ a # made + 1 /\ made + 1 \in 1..(made + 1) /\ 1..made \subseteq 1..(made + 1)
        /\ made + 1 \notin 1..made
    BY <2>1 DEF IsRing
  <2>. HIDE DEF a
  <2>5. RotatorsBound(task', made + 1)
    BY <2>2, <2>3, <2>4 DEF OneRotation, RotatorsBound, Rotating
  <2>6. FreshKeys(task, a, made)
    BY DEF KeysApart, a
  <2>7. FreshKeys(task', a, made + 1)
    <3>. SUFFICES ASSUME NEW p \in Processes, task'[p].at = "generated"
                  PROVE  /\ task'[p].ring.active \in 1..(made + 1) /\ task'[p].ring.active # a
                         /\ \A q \in Processes \ {p} :
                               task'[q].at = "generated" => task'[q].ring.active # task'[p].ring.active
                         /\ \A s \in Rotators : task'[s].at # "idle" =>
                               /\ task'[p].ring.active # task'[s].ring.active
                               /\ task'[p].ring.active # task'[s].subject
      BY DEF FreshKeys
    <3>1. p # r /\ task'[p] = task[p]
      BY <2>2, <2>3
    <3>2. /\ task[p].ring.active \in 1..made /\ task[p].ring.active # a
          /\ \A q \in Processes \ {p} : task[q].at = "generated" => task[q].ring.active # task[p].ring.active
      BY <2>6, <3>1 DEF FreshKeys
    <3>3. \A s \in Rotators : s = r
      BY DEF OneRotation
    <3>. QED  BY <2>2, <2>3, <2>4, <3>1, <3>2, <3>3
  <2>8. Revoked' = {}
    BY <2>1, NoneRevoked
  <2>9. RevokedAreOut(task', a, Revoked')
    BY <2>2, <2>3, <2>8 DEF OneRotation, RevokedAreOut
  <2>. QED  BY <2>1, <2>5, <2>7, <2>9 DEF KeysApart, a
<1>2. ASSUME task[r].at \in Rotating
      PROVE  /\ Revoked = {} /\ task[r].at # "idle" /\ task[r].ring.active # task[r].subject
             /\ \A at : Goes(r, at) => Turns(at)
  BY <1>2, NoneRevoked, RotatorTask DEF Rotating, KeysApart, RotatorsBound
<1>3. CASE RotateWrites(r)
  <2>1. /\ task[r].at \in Rotating /\ Goes(r, "activated") /\ made' = made /\ Revoked' = Revoked
        /\ keyring'.active = task[r].subject
    BY <1>3, RotateWritesTyped DEF RotateWrites, Rotating, Revoked
  <2>. HIDE DEF Turns
  <2>2. Turns("activated") /\ "activated" \in Rotating
    BY <1>2, <2>1 DEF Rotating
  <2>. QED  BY <1>2, <2>1, <2>2, ApartTurns DEF Turns
<1>4. CASE RotateCommits(r)
  <2>. DEFINE old == task[r].ring.active
  <2>1. /\ task[r].at = "activated" /\ task[r].at \in Rotating /\ made' = made /\ keyring' = keyring
        /\ \/ keys' = keys /\ Goes(r, "failed")
           \/ keys' = [Registered(r) EXCEPT ![old].revoked = task[r].now] /\ Goes(r, "done")
    BY <1>4, RotateCommitsTyped DEF RotateCommits, Rotating
  <2>2. keyring.active # old
    BY <2>1 DEF KeysApart, RevokedAreOut
  <2>3. CASE keys' = keys /\ Goes(r, "failed")
    <3>. HIDE DEF Turns
    <3>1. Turns("failed") /\ "failed" \in Rotating /\ Revoked' = {}
      BY <1>2, <2>1, <2>3 DEF Rotating, Revoked
    <3>. QED  BY <1>2, <2>1, <3>1, ApartTurns DEF Turns
  <2>4. CASE keys' = [Registered(r) EXCEPT ![old].revoked = task[r].now] /\ Goes(r, "done")
    <3>1. /\ IsMap(Registered(r), made) /\ made \in Nat /\ old \in DOMAIN Registered(r) /\ task[r].now \in Nat
          /\ \A k \in DOMAIN Registered(r) :
                Registered(r)[k].revoked # Never => k \in DOMAIN keys /\ keys[k] = Registered(r)[k]
      <4>1. made \in Nat /\ task[r].now \in Nat
        BY <2>1, RotatorTask DEF Typed, KeysTyped
      <4>2. /\ IsMap(Registered(r), made)
            /\ DOMAIN Registered(r) = DOMAIN keys \cup {old, task[r].subject}
            /\ \A k \in DOMAIN Registered(r) :
                  Registered(r)[k].revoked # Never => k \in DOMAIN keys /\ keys[k] = Registered(r)[k]
        BY <2>1, RegisteredTyped
      <4>. QED  BY <4>1, <4>2
    <3>. HIDE DEF old
    <3>2. /\ DOMAIN keys' = DOMAIN Registered(r)
          /\ \A k \in DOMAIN Registered(r) \ {old} : keys'[k] = Registered(r)[k]
      BY <2>4, <3>1, MapRevoked
    <3>3. Revoked' \subseteq {old}
      BY <1>2, <2>1, <3>1, <3>2 DEF Revoked
    <3>. HIDE DEF Turns
    <3>4. Turns("done")
      BY <1>2, <2>1, <2>4
    <3>. QED  BY <1>2, <2>1, <2>2, <3>3, <3>4, ApartTurns DEF Turns, old
  <2>. QED  BY <2>1, <2>3, <2>4
<1>5. CASE RotateFails(r)
  <2>1. /\ task[r].at \in Rotating /\ Goes(r, "failed") /\ made' = made /\ Revoked' = Revoked
        /\ keyring' = keyring
    BY <1>5 DEF RotateFails, Rotating, Revoked
  <2>. HIDE DEF Turns
  <2>2. Turns("failed") /\ "failed" \in Rotating
    BY <1>2, <2>1 DEF Rotating
  <2>. QED  BY <1>2, <2>1, <2>2, ApartTurns DEF Turns
<1>6. CASE Restore(r)
  <2>1. /\ task[r].at \in Rotating /\ Goes(r, "done") /\ made' = made /\ Revoked' = Revoked
        /\ keyring' = task[r].ring
    BY <1>6 DEF Restore, Rotating, Revoked
  <2>. HIDE DEF Turns
  <2>2. Turns("done")
    BY <1>2, <2>1
  <2>. QED  BY <1>2, <2>1, <2>2, ApartTurns DEF Turns
<1>. QED  BY <1>1, <1>3, <1>4, <1>5, <1>6

LEMMA ApartCrash ==
    ASSUME ReceiptsAssumption, Typed, OneRotation, KeysApart, NEW p \in Processes, Crash(p)
    PROVE  KeysApart'
<1>. DEFINE t == Started("done", task[p].now, task[p].ring, task[p].subject)
<1>1. /\ Becomes(p, t) /\ keyring' = keyring /\ made' = made /\ Revoked' = Revoked
      /\ task[p].at \notin {"idle", "done"}
  BY CrashTyped DEF Crash, Revoked
<1>2. CASE p \notin Rotators
  <2>1. t.at # "generated"
    BY StartedTask
  <2>. HIDE DEF t
  <2>. QED  BY <1>1, <1>2, <2>1, ApartOthers
<1>3. CASE p \in Rotators
  BY <1>1, <1>3, NoneRevoked, ApartTurns
<1>. QED  BY <1>2, <1>3

LEMMA KeysApartStep ==
    ASSUME ReceiptsAssumption, Typed, OneRotation, KeysApart, [Next]_vars
    PROVE  KeysApart'
<1>0. /\ Signers \subseteq Processes /\ Initializers \subseteq Processes
      /\ \A p \in Signers \cup Initializers : p \notin Rotators
  BY DEF Processes, ReceiptsAssumption
<1>1. CASE UNCHANGED vars \/ Tick
  BY <1>1 DEF vars, Tick, KeysApart, Revoked
<1>2. ASSUME NEW p \in Signers, NEW s \in Subjects, StampEarly(p, s) PROVE KeysApart'
  <2>1. /\ Becomes(p, Started("stamped", clock, Missing, s)) /\ keyring' = keyring /\ made' = made
        /\ Revoked' = Revoked
    BY <1>2 DEF StampEarly, Becomes, Revoked
  <2>. QED  BY <1>0, <2>1, StartedTask, ApartOthers
<1>3. ASSUME NEW p \in Signers, NEW s \in Subjects, Begin(p, s) PROVE KeysApart'
  <2>1. PICK t : Becomes(p, t) /\ t.at = "locked"
    BY <1>3, BeginTyped
  <2>2. keyring' = keyring /\ made' = made /\ Revoked' = Revoked
    BY <1>3 DEF Begin, Revoked
  <2>. QED  BY <1>0, <2>1, <2>2, ApartOthers
<1>4. ASSUME NEW p \in Signers, LoadKeys(p) PROVE KeysApart'
  BY <1>0, <1>4, ApartLoads DEF LoadKeys
<1>5. ASSUME NEW p \in Signers, Sign(p) PROVE KeysApart'
  <2>1. /\ task[p].at = "loaded" /\ (Signs(p) \/ keys' = keys)
        /\ Becomes(p, Started("idle", task[p].now, task[p].ring, task[p].subject))
        /\ keyring' = keyring /\ made' = made
    BY <1>5, SignTyped DEF Sign
  <2>2. Revoked' \subseteq Revoked
    <3>1. CASE keys' = keys
      BY <3>1 DEF Revoked
    <3>2. CASE Signs(p)
      <4>1. /\ keys' = NewKeys(p)
            /\ \A k \in DOMAIN NewKeys(p) :
                 NewKeys(p)[k].revoked # Never => k \in DOMAIN keys /\ keys[k] = NewKeys(p)[k]
        BY <1>0, <2>1, <3>2, NewKeysTyped DEF Signs
      <4>. QED  BY <4>1 DEF Revoked
    <3>. QED  BY <1>5, <3>1, <3>2, SignTyped
  <2>. QED  BY <1>0, <2>1, <2>2, StartedTask, ApartOthers
<1>6. ASSUME NEW p \in Processes, Reload(p) PROVE KeysApart'
  <2>. DEFINE at == IF p \in Signers THEN "loaded" ELSE "done"
  <2>1. /\ task[p].at = "written" /\ Becomes(p, Took(task[p], keyring, at))
        /\ keyring' = keyring /\ made' = made /\ Revoked' = Revoked
    BY <1>6 DEF Reload, Becomes, Took, Revoked
  <2>2. at # "generated"
    OBVIOUS
  <2>. HIDE DEF at
  <2>3. Becomes(p, Started(at, task[p].now, keyring, task[p].subject))
    BY <2>1, TaskOf, Zenon
  <2>4. p \notin Rotators
    BY <2>1 DEF KeysApart, RotatorsBound, Rotating
  <2>. QED  BY <2>1, <2>2, <2>3, <2>4, StartedTask, ApartOthers
<1>7. ASSUME NEW p \in Initializers, KeysInit(p) PROVE KeysApart'
  BY <1>0, <1>7, ApartLoads DEF KeysInit
<1>. QED  BY <1>1, <1>2, <1>3, <1>4, <1>5, <1>6, <1>7, ApartWrites, ApartRotates, ApartCrash
          DEF Next, ActStep, SignStep, FileStep, InitStep, RotateStep

\* With one rotation, signing survives it, for any number of signers and first uses
\* and wherever a process dies: the chains verify, and the active key of the file is
\* never one that the store has revoked.
THEOREM SigningHolds ==
    ASSUME ReceiptsAssumption, OneRotation
    PROVE  Spec => []SigningSurvives
<1>1. Init => Typed /\ KeysApart
  BY TypedInit, KeysApartInit
<1>2. Typed /\ KeysApart /\ [Next]_vars => (Typed /\ KeysApart)'
  BY TypedStep, KeysApartStep
<1>3. Typed /\ KeysApart => ActiveKeyUsable
  BY DEF KeysApart, RevokedAreOut, Revoked, ActiveKeyUsable
<1>4. Spec => []ActiveKeyUsable
  BY <1>1, <1>2, <1>3, PTL DEF Spec
<1>. QED  BY <1>4, ChainsHold, PTL DEF SigningSurvives

=============================================================================
