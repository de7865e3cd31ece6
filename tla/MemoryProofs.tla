---------------------------- MODULE MemoryProofs ----------------------------
(***************************************************************************)
(* Theorems about MemoryReview, for every number of people, drafts,        *)
(* references, memories, legacy calls and request ids: the types, the      *)
(* chains, the audit trail, the queue, the decisions and the closed        *)
(* period; and about SyncMerge, for every set of stores and every bound of *)
(* revisions, records, runs and crashes: the types and the audit trail     *)
(* that crosses; and, of two stores, what a run nobody disturbs leaves.    *)
(***************************************************************************)
EXTENDS MCMemories, SequenceTheorems, TLAPS

-----------------------------------------------------------------------------
(* The chains and the calls in flight, which the types rest on *)

\* Later revisions of a topic have higher numbers, and there is a highest one.
ChainsInv ==
    /\ \A i, j \in Ids : mem[i].draft.topic = mem[j].draft.topic /\ i < j
                             => mem[i].rev < mem[j].rev
    /\ \A i \in Ids : \E k \in Ids :
           /\ mem[k].draft.topic = mem[i].draft.topic
           /\ \A j \in Ids : mem[j].draft.topic = mem[i].draft.topic => mem[j].rev <= mem[k].rev

\* A legacy call past its check names stored memories and a legal target.
CallsInv ==
    \A c \in calls : c.kind = "transition" =>
        /\ c.id \in Ids /\ c.succ \in 0..Len(mem)
        /\ c.to \in {"rejected", "voided", "superseded"} \/ (c.to = "approved" /\ LegacyApprove)

MemInv == TypeOK /\ ChainsInv /\ CallsInv

LEMMA RowFacts ==
    ASSUME TypeOK, NEW i \in Ids
    PROVE  /\ mem[i] \in Rows /\ i \in Nat /\ i # 0
           /\ mem[i].rev \in Nat /\ mem[i].draft \in Drafts /\ mem[i].by \in People
           /\ mem[i].status \in Statuses /\ mem[i].succ \in 0..Len(mem)
           /\ mem[i].links \in SUBSET Refs /\ mem[i].log \in Seq(Statuses \X Statuses)
  <1>1. mem \in Seq(Rows) /\ i \in 1..Len(mem) /\ Len(mem) \in Nat
    BY DEF TypeOK, Ids
  <1>2. mem[i] \in Rows
    BY <1>1
  <1>3. QED
    BY <1>1, <1>2 DEF TypeOK, Rows

\* The newest revision of a chain is its one revision of the highest number.
LEMMA NewestOfChain ==
    ASSUME MemInv, NEW topic, Chain(topic) # {}
    PROVE  /\ Newest(Chain(topic)) \in Ids
           /\ mem[Newest(Chain(topic))].draft.topic = topic
           /\ \A j \in Chain(topic) : mem[j].rev <= mem[Newest(Chain(topic))].rev
  <1>1. PICK i \in Ids : mem[i].draft.topic = topic
    BY DEF Chain
  <1>2. \E k \in Chain(topic) : \A j \in Chain(topic) : mem[j].rev <= mem[k].rev
    BY <1>1 DEF MemInv, ChainsInv, Chain
  <1>3. /\ Newest(Chain(topic)) \in Chain(topic)
        /\ \A j \in Chain(topic) : mem[j].rev <= mem[Newest(Chain(topic))].rev
    BY <1>2 DEF Newest
  <1>4. QED
    BY <1>3 DEF Chain

LEMMA HighestIsNewest ==
    ASSUME MemInv, NEW i \in Ids,
           \A j \in Ids : mem[j].draft.topic = mem[i].draft.topic => mem[j].rev <= mem[i].rev
    PROVE  i = Newest(Chain(mem[i].draft.topic))
  <1> DEFINE k == Newest(Chain(mem[i].draft.topic))
  <1>1. i \in Chain(mem[i].draft.topic)
    BY DEF Chain
  <1>2. k \in Ids /\ mem[k].draft.topic = mem[i].draft.topic /\ mem[i].rev <= mem[k].rev
    BY <1>1, NewestOfChain
  <1> HIDE DEF k
  <1>3. mem[k].rev <= mem[i].rev
    BY <1>2
  <1>4. mem[i].rev \in Nat /\ mem[k].rev \in Nat /\ i \in Nat /\ k \in Nat
    BY <1>2, RowFacts DEF MemInv
  <1>5. ~(i < k) /\ ~(k < i)
    BY <1>2, <1>3, <1>4 DEF MemInv, ChainsInv
  <1>6. i = k
    BY <1>4, <1>5
  <1>7. QED
    BY <1>6 DEF k

-----------------------------------------------------------------------------
(* What each kind of write does to the rows *)

LEMMA RowUpdate ==
    ASSUME NEW s \in Seq(Rows), NEW i \in 1..Len(s), NEW row \in Rows
    PROVE  /\ [s EXCEPT ![i] = row] \in Seq(Rows)
           /\ Len([s EXCEPT ![i] = row]) = Len(s)
           /\ \A j \in 1..Len(s) : [s EXCEPT ![i] = row][j] = IF j = i THEN row ELSE s[j]
  OBVIOUS

LEMMA EnvelopeUpdate ==
    ASSUME NEW s \in Seq(Envelopes), NEW i \in 1..Len(s), NEW e \in Envelopes
    PROVE  /\ [s EXCEPT ![i] = e] \in Seq(Envelopes)
           /\ Len([s EXCEPT ![i] = e]) = Len(s)
           /\ \A j \in 1..Len(s) : [s EXCEPT ![i] = e][j] = IF j = i THEN e ELSE s[j]
  OBVIOUS

\* What a row keeps for ever.
SameContent(new, old) ==
    new.draft = old.draft /\ new.rev = old.rev /\ new.by = old.by /\ new.via = old.via

LEMMA MovedRow ==
    ASSUME NEW row \in Rows, NEW to \in Statuses, NEW succ \in Nat
    PROVE  LET moved == Moved(row, to, succ)
           IN  /\ moved \in Rows /\ SameContent(moved, row)
               /\ moved.status = to /\ moved.succ = succ /\ moved.links = row.links
  <1>1. row.log \in Seq(Statuses \X Statuses) /\ <<row.status, to>> \in Statuses \X Statuses
    BY DEF Rows
  <1>2. Append(row.log, <<row.status, to>>) \in Seq(Statuses \X Statuses)
    BY <1>1
  <1>3. QED
    BY <1>2 DEF Moved, Rows, SameContent

LEMMA MovedLog ==
    ASSUME NEW row \in Rows, NEW to, NEW succ
    PROVE  Moved(row, to, succ).log = Append(row.log, <<row.status, to>>)
  BY DEF Moved, Rows

\* One row is rewritten, and nothing that it keeps for ever.
Rewritten(i, row) ==
    /\ row \in Rows /\ SameContent(row, mem[i])
    /\ mem' \in Seq(Rows) /\ Len(mem') = Len(mem) /\ Ids' = Ids
    /\ \A j \in Ids : mem'[j] = IF j = i THEN row ELSE mem[j]

LEMMA StatusWrite ==
    ASSUME TypeOK, NEW i \in Ids, NEW to \in Statuses, NEW succ \in Nat,
           mem' = [mem EXCEPT ![i] = Moved(@, to, succ)]
    PROVE  Rewritten(i, Moved(mem[i], to, succ))
  <1>1. mem \in Seq(Rows) /\ mem[i] \in Rows
    BY DEF TypeOK, Ids
  <1>2. Moved(mem[i], to, succ) \in Rows /\ SameContent(Moved(mem[i], to, succ), mem[i])
    BY <1>1, MovedRow
  <1>3. mem' = [mem EXCEPT ![i] = Moved(mem[i], to, succ)]
    OBVIOUS
  <1>4. QED
    BY <1>1, <1>2, <1>3, RowUpdate DEF Rewritten, Ids

LEMMA LinkWrite ==
    ASSUME TypeOK, NEW i \in Ids, NEW refs \in SUBSET Refs, Link(i, refs)
    PROVE  Rewritten(i, [mem[i] EXCEPT !.links = @ \cup refs])
  <1> DEFINE row == [mem[i] EXCEPT !.links = @ \cup refs]
  <1>1. mem \in Seq(Rows) /\ mem[i] \in Rows
    BY DEF TypeOK, Ids
  <1>2. row \in Rows /\ SameContent(row, mem[i])
    BY <1>1 DEF Rows, SameContent
  <1>3. mem' = [mem EXCEPT ![i] = row]
    BY DEF Link
  <1> HIDE DEF row
  <1>4. Rewritten(i, row)
    BY <1>1, <1>2, <1>3, RowUpdate DEF Rewritten, Ids
  <1>5. QED
    BY <1>4 DEF row

LEMMA EnvelopeType ==
    ASSUME NEW i \in Nat, NEW row \in Rows
    PROVE  EnvelopeOf(i, row) \in Envelopes
  BY DEF EnvelopeOf, Envelopes, Rows

\* The row that a save inserts, and the revision it replaces (0: none).
NewRow(p, draft, via, prev) ==
    [draft |-> draft, by |-> p, via |-> via, rev |-> IF prev = 0 THEN 1 ELSE mem[prev].rev + 1,
     status |-> InitialStatus(draft.effect), succ |-> 0, links |-> {}, log |-> <<>>]

PrevOf(topic) == IF Chain(topic) = {} THEN 0 ELSE Newest(Chain(topic))

LEMMA InitialStatusType ==
    ASSUME NEW effect
    PROVE  InitialStatus(effect) \in {"active", "pending_review"} /\ InitialStatus(effect) \in Statuses
  BY DEF InitialStatus, Statuses

LEMMA SupersedeRow ==
    ASSUME TypeOK, NEW j \in Ids, NEW i \in Nat
    PROVE  /\ SupersedePrev(j, i) \in Rows /\ SameContent(SupersedePrev(j, i), mem[j])
           /\ SupersedePrev(j, i).links = mem[j].links
           /\ SupersedePrev(j, i).status \in Terminal
           /\ SupersedePrev(j, i).succ \in {i, mem[j].succ}
           /\ \/ SupersedePrev(j, i) = mem[j]
              \/ SupersedePrev(j, i) = Moved(mem[j], "superseded", i)
  <1>1. mem[j] \in Rows /\ mem[j].status \in Statuses
    BY RowFacts
  <1>2. CASE Supersedable(mem[j].status)
    <2>1. SupersedePrev(j, i) = Moved(mem[j], "superseded", i)
      BY <1>2 DEF SupersedePrev
    <2>2. "superseded" \in Statuses /\ "superseded" \in Terminal
      BY DEF Statuses, Terminal
    <2> DEFINE moved == Moved(mem[j], "superseded", i)
    <2>3. /\ moved \in Rows /\ SameContent(moved, mem[j])
          /\ moved.status = "superseded" /\ moved.succ = i /\ moved.links = mem[j].links
      BY <1>1, <2>2, MovedRow
    <2>4. SupersedePrev(j, i) = moved
      BY <2>1
    <2> HIDE DEF moved
    <2>5. /\ SupersedePrev(j, i) \in Rows /\ SameContent(SupersedePrev(j, i), mem[j])
          /\ SupersedePrev(j, i).links = mem[j].links
          /\ SupersedePrev(j, i).status \in Terminal
          /\ SupersedePrev(j, i).succ \in {i, mem[j].succ}
      BY <2>2, <2>3, <2>4
    <2>6. QED
      BY <2>1, <2>5
  <1>3. CASE ~Supersedable(mem[j].status)
    <2>1. SupersedePrev(j, i) = mem[j]
      BY <1>3 DEF SupersedePrev
    <2>2. mem[j].status \in Terminal
      BY <1>1, <1>3 DEF Supersedable, IsLegalV2Transition, Statuses, Terminal
    <2>3. QED
      BY <1>1, <2>1, <2>2 DEF SameContent
  <1>4. QED
    BY <1>2, <1>3

\* The tables after a save: one row more, and its predecessor closed.
Saved(p, draft, via) ==
    LET i == Len(mem) + 1
        prev == PrevOf(draft.topic)
    IN  /\ prev \in {0} \cup Ids
        /\ prev = 0 => Chain(draft.topic) = {}
        /\ NewRow(p, draft, via, prev) \in Rows
        /\ mem' \in Seq(Rows) /\ Len(mem') = i /\ i <= MaxMemories /\ Ids' = Ids \cup {i}
        /\ mem'[i] = NewRow(p, draft, via, prev)
        /\ \A j \in Ids : mem'[j] = IF j = prev THEN SupersedePrev(j, i) ELSE mem[j]

LEMMA SaveWrite ==
    ASSUME MemInv, NEW p \in People, NEW draft \in Drafts, NEW via \in {"save", "close"},
           SaveRow(p, draft, via)
    PROVE  Saved(p, draft, via)
  <1> DEFINE i    == Len(mem) + 1
             prev == PrevOf(draft.topic)
             row  == NewRow(p, draft, via, prev)
             kept == [j \in Ids |-> IF j = prev THEN SupersedePrev(j, i) ELSE mem[j]]
  <1>1. mem \in Seq(Rows) /\ Len(mem) \in Nat /\ i \in Nat /\ Ids = 1..Len(mem) /\ TypeOK
    BY DEF MemInv, TypeOK, Ids
  <1>2. prev \in {0} \cup Ids /\ (prev = 0 => Chain(draft.topic) = {})
    BY <1>1, NewestOfChain DEF PrevOf
  <1>3. mem' = Append(kept, row) /\ i <= MaxMemories
    BY DEF SaveRow, PrevOf, NewRow
  <1> HIDE DEF prev
  <1>4. row \in Rows
    <2>1. (IF prev = 0 THEN 1 ELSE mem[prev].rev + 1) \in Nat
      BY <1>1, <1>2, RowFacts
    <2>2. InitialStatus(draft.effect) \in Statuses /\ <<>> \in Seq(Statuses \X Statuses)
      BY InitialStatusType
    <2>3. QED
      BY <2>1, <2>2 DEF NewRow, Rows
  <1> HIDE DEF row
  <1>5. kept \in [1..Len(mem) -> Rows]
    <2>1. ASSUME NEW j \in Ids PROVE (IF j = prev THEN SupersedePrev(j, i) ELSE mem[j]) \in Rows
      BY <1>1, <2>1, RowFacts, SupersedeRow
    <2>2. QED
      BY <1>1, <2>1
  <1>6. \A j \in Ids : kept[j] = IF j = prev THEN SupersedePrev(j, i) ELSE mem[j]
    OBVIOUS
  <1> HIDE DEF kept
  <1>7. kept \in Seq(Rows)
    BY <1>1, <1>5
  <1>8. 1..Len(kept) = 1..Len(mem) /\ Len(kept) \in Nat
    BY <1>5, <1>7, LenProperties
  <1>9. Len(kept) = Len(mem)
    <2>1. \A m, n \in Nat : 1..m = 1..n => ~(m < n)
      <3> SUFFICES ASSUME NEW m \in Nat, NEW n \in Nat, m < n PROVE 1..m # 1..n
        OBVIOUS
      <3>1. n \in 1..n /\ n \notin 1..m
        OBVIOUS
      <3>2. QED
        BY <3>1
    <2>2. ~(Len(kept) < Len(mem)) /\ ~(Len(mem) < Len(kept))
      BY <1>1, <1>8, <2>1
    <2>3. QED
      BY <1>1, <1>8, <2>2
  <1>10. /\ mem' \in Seq(Rows) /\ Len(mem') = i /\ mem'[i] = row
         /\ \A j \in 1..Len(mem) : mem'[j] = kept[j]
    BY <1>3, <1>4, <1>7, <1>9, AppendProperties
  <1>11. Ids' = Ids \cup {i}
    BY <1>1, <1>10 DEF Ids
  <1>12. QED
    BY <1>1, <1>2, <1>3, <1>4, <1>6, <1>10, <1>11 DEF Saved, prev, row

-----------------------------------------------------------------------------
(* Type correctness, with the chains and the calls *)

MemTypeOK == /\ mem \in Seq(Rows) /\ Len(mem) <= MaxMemories
             /\ \A i \in Ids : mem[i].succ \in 0..Len(mem)
CacheTypeOK == cache \in Seq(Envelopes) /\ Len(cache) = Len(mem)
ReceiptsTypeOK == receipts \subseteq Nat \X (Statuses \cup {"recorded", "closed", "reopened"})
ClosureTypeOK == closure \in Closures /\ (closure.status # "open" => closure.close \in Ids)
ReviewTypeOK == /\ sheets \in [People -> Envelopes \cup {NoSheet}]
                /\ events \subseteq EventRows /\ reopens \subseteq ReopenRows

LEMMA TypeParts == TypeOK <=> /\ MemTypeOK /\ CacheTypeOK /\ ReceiptsTypeOK
                              /\ calls \subseteq Calls /\ ClosureTypeOK /\ ReviewTypeOK
  BY DEF TypeOK, MemTypeOK, CacheTypeOK, ReceiptsTypeOK, ClosureTypeOK, ReviewTypeOK

LEMMA RewrittenKeeps ==
    ASSUME MemInv, NEW i \in Ids, NEW row, Rewritten(i, row), row.succ \in 0..Len(mem),
           \A c \in calls' : c \in calls
    PROVE  MemTypeOK' /\ ChainsInv' /\ CallsInv'
  <1>1. Ids' = Ids /\ \A j \in Ids : mem'[j].draft = mem[j].draft /\ mem'[j].rev = mem[j].rev
    BY DEF Rewritten, SameContent
  <1>2. MemTypeOK'
    BY DEF Rewritten, MemInv, TypeOK, MemTypeOK
  <1>3. ChainsInv'
    <2>1. \A j, k \in Ids' : mem'[j].draft.topic = mem'[k].draft.topic /\ j < k
                                  => mem'[j].rev < mem'[k].rev
      BY <1>1 DEF MemInv, ChainsInv
    <2>2. ASSUME NEW j \in Ids'
          PROVE  \E k \in Ids' :
                    /\ mem'[k].draft.topic = mem'[j].draft.topic
                    /\ \A l \in Ids' : mem'[l].draft.topic = mem'[j].draft.topic
                                          => mem'[l].rev <= mem'[k].rev
      <3>1. PICK k \in Ids : /\ mem[k].draft.topic = mem[j].draft.topic
                             /\ \A l \in Ids : mem[l].draft.topic = mem[j].draft.topic
                                                   => mem[l].rev <= mem[k].rev
        BY <1>1 DEF MemInv, ChainsInv
      <3>2. QED
        BY <1>1, <3>1
    <2>3. QED
      BY <2>1, <2>2 DEF ChainsInv
  <1>4. CallsInv'
    BY DEF Rewritten, MemInv, CallsInv
  <1>5. QED
    BY <1>2, <1>3, <1>4

LEMMA SavedKeeps ==
    ASSUME MemInv, NEW p, NEW draft, NEW via, Saved(p, draft, via), \A c \in calls' : c \in calls
    PROVE  MemTypeOK' /\ ChainsInv' /\ CallsInv'
  <1> DEFINE n    == Len(mem) + 1
             prev == PrevOf(draft.topic)
             row  == NewRow(p, draft, via, prev)
  <1>1. /\ prev \in {0} \cup Ids /\ (prev = 0 => Chain(draft.topic) = {})
        /\ row \in Rows /\ mem' \in Seq(Rows) /\ Len(mem') = n /\ n <= MaxMemories
        /\ Ids' = Ids \cup {n} /\ mem'[n] = row
        /\ \A j \in Ids : mem'[j] = IF j = prev THEN SupersedePrev(j, n) ELSE mem[j]
    BY DEF Saved
  <1>2. TypeOK /\ Len(mem) \in Nat /\ n \in Nat /\ n \notin Ids /\ \A j \in Ids : j < n
    BY DEF MemInv, TypeOK, Ids
  <1>3. row.draft = draft /\ row.succ = 0 /\ row.rev = IF prev = 0 THEN 1 ELSE mem[prev].rev + 1
    BY DEF NewRow
  <1>4. ASSUME NEW j \in Chain(draft.topic) PROVE mem[j].rev < row.rev
    <2>1. prev = Newest(Chain(draft.topic)) /\ prev # 0
      BY <1>4, NewestOfChain DEF PrevOf, Ids
    <2>2. mem[j].rev <= mem[prev].rev /\ prev \in Ids /\ j \in Ids
      BY <1>4, <2>1, NewestOfChain DEF Chain
    <2>3. mem[j].rev \in Nat /\ mem[prev].rev \in Nat
      BY <1>2, <2>2, RowFacts
    <2> HIDE DEF prev
    <2>4. QED
      BY <1>3, <2>1, <2>2, <2>3
  <1> HIDE DEF n, prev, row
  <1>5. \A j \in Ids : SameContent(mem'[j], mem[j]) /\ mem'[j].succ \in 0..n
    <2>1. ASSUME NEW j \in Ids PROVE SameContent(mem'[j], mem[j]) /\ mem'[j].succ \in 0..n
      <3>1. CASE j = prev
        BY <1>1, <1>2, <3>1, SupersedeRow, RowFacts DEF n
      <3>2. CASE j # prev
        BY <1>1, <1>2, <3>2, RowFacts DEF SameContent, n
      <3>3. QED
        BY <3>1, <3>2
    <2>2. QED
      BY <2>1
  <1>6. MemTypeOK'
    <2>1. \A j \in Ids' : mem'[j].succ \in 0..Len(mem')
      BY <1>1, <1>2, <1>3, <1>5
    <2>2. QED
      BY <1>1, <2>1 DEF MemTypeOK
  <1>7. ChainsInv'
    <2>1. ASSUME NEW j \in Ids', NEW k \in Ids', mem'[j].draft.topic = mem'[k].draft.topic, j < k
          PROVE  mem'[j].rev < mem'[k].rev
      <3>1. CASE j \in Ids /\ k \in Ids
        BY <1>5, <2>1, <3>1 DEF SameContent, MemInv, ChainsInv
      <3>2. CASE k = n
        <4>1. j \in Ids
          BY <1>1, <1>2, <2>1, <3>2
        <4>2. j \in Chain(draft.topic)
          BY <1>1, <1>3, <1>5, <2>1, <3>2, <4>1 DEF SameContent, Chain
        <4>3. QED
          BY <1>1, <1>4, <1>5, <3>2, <4>1, <4>2 DEF SameContent
      <3>3. CASE j = n /\ k \in Ids
        BY <1>2, <2>1, <3>3 DEF Ids
      <3>4. QED
        BY <1>1, <3>1, <3>2, <3>3
    <2>2. ASSUME NEW j \in Ids'
          PROVE  \E k \in Ids' :
                    /\ mem'[k].draft.topic = mem'[j].draft.topic
                    /\ \A l \in Ids' : mem'[l].draft.topic = mem'[j].draft.topic
                                          => mem'[l].rev <= mem'[k].rev
      <3>1. CASE mem'[j].draft.topic = draft.topic
        <4>1. \A l \in Ids : mem'[l].draft.topic = draft.topic => mem'[l].rev < row.rev
          BY <1>4, <1>5 DEF SameContent, Chain
        <4>2. row.rev \in Nat /\ \A l \in Ids : mem'[l].rev \in Nat
          BY <1>1, <1>2, <1>5, RowFacts DEF SameContent, Rows
        <4>3. \A l \in Ids' : mem'[l].draft.topic = draft.topic => mem'[l].rev <= mem'[n].rev
          BY <1>1, <4>1, <4>2
        <4>4. QED
          BY <1>1, <1>3, <3>1, <4>3
      <3>2. CASE mem'[j].draft.topic # draft.topic
        <4>1. j \in Ids
          BY <1>1, <1>3, <3>2
        <4>2. PICK k \in Ids : /\ mem[k].draft.topic = mem[j].draft.topic
                               /\ \A l \in Ids : mem[l].draft.topic = mem[j].draft.topic
                                                     => mem[l].rev <= mem[k].rev
          BY <4>1 DEF MemInv, ChainsInv
        <4>3. \A l \in Ids' : mem'[l].draft.topic = mem'[j].draft.topic => mem'[l].rev <= mem'[k].rev
          BY <1>1, <1>3, <1>5, <3>2, <4>1, <4>2 DEF SameContent
        <4>4. k \in Ids' /\ mem'[k].draft.topic = mem'[j].draft.topic
          BY <1>1, <1>5, <4>1, <4>2 DEF SameContent
        <4>5. QED
          BY <4>3, <4>4
      <3>3. QED
        BY <3>1, <3>2
    <2>3. QED
      BY <2>1, <2>2 DEF ChainsInv
  <1>8. CallsInv'
    BY <1>1, <1>2 DEF MemInv, CallsInv, n
  <1>9. QED
    BY <1>6, <1>7, <1>8

\* What a save writes beside the rows.
LEMMA SaveTables ==
    ASSUME MemInv, NEW p \in People, NEW draft \in Drafts, NEW via \in {"save", "close"},
           SaveRow(p, draft, via)
    PROVE  /\ Saved(p, draft, via)
           /\ CacheTypeOK' /\ ReceiptsTypeOK'
           /\ cache' = Append(cache, EnvelopeOf(Len(mem) + 1, mem'[Len(mem) + 1]))
           /\ \A act \in receipts : act \in receipts'
  <1> DEFINE n    == Len(mem) + 1
             prev == PrevOf(draft.topic)
             row  == NewRow(p, draft, via, prev)
  <1>1. Saved(p, draft, via)
    BY SaveWrite
  <1>2. TypeOK /\ n \in Nat /\ prev \in Nat
    BY <1>1, RowFacts DEF MemInv, TypeOK, Saved
  <1>3. row \in Rows /\ Len(mem') = n /\ mem'[n] = row
    BY <1>1 DEF Saved
  <1>4. /\ cache' = Append(cache, EnvelopeOf(n, row))
        /\ receipts' = receipts \cup {<<n, "recorded">>} \cup
               IF prev # 0 /\ Supersedable(mem[prev].status) THEN {<<prev, "superseded">>} ELSE {}
    BY DEF SaveRow, PrevOf, NewRow
  <1> HIDE DEF prev, row
  <1>5. EnvelopeOf(n, row) \in Envelopes
    BY <1>2, <1>3, EnvelopeType
  <1>6. CacheTypeOK'
    <2>1. cache \in Seq(Envelopes) /\ Len(cache) = Len(mem)
      BY <1>2 DEF TypeOK
    <2>2. QED
      BY <1>3, <1>4, <1>5, <2>1 DEF CacheTypeOK
  <1>7. ReceiptsTypeOK'
    <2>1. {<<n, "recorded">>} \subseteq Nat \X (Statuses \cup {"recorded", "closed", "reopened"})
      BY <1>2
    <2>2. {<<prev, "superseded">>} \subseteq Nat \X (Statuses \cup {"recorded", "closed", "reopened"})
      BY <1>2 DEF Statuses
    <2>3. QED
      BY <1>2, <1>4, <2>1, <2>2 DEF TypeOK, ReceiptsTypeOK
  <1>8. QED
    BY <1>1, <1>3, <1>4, <1>6, <1>7

LEMMA SaveMemInv ==
    ASSUME MemInv, NEW p \in People, NEW draft \in Drafts, NEW via \in {"save", "close"},
           SaveRow(p, draft, via), \A c \in calls' : c \in calls,
           UNCHANGED <<closure, sheets, events, reopens>>
    PROVE  MemInv'
  <1>1. /\ Saved(p, draft, via) /\ CacheTypeOK' /\ ReceiptsTypeOK'
        /\ MemTypeOK' /\ ChainsInv' /\ CallsInv'
    BY SaveTables, SavedKeeps
  <1>2. ClosureTypeOK' /\ ReviewTypeOK' /\ calls' \subseteq Calls
    BY <1>1 DEF MemInv, TypeOK, ClosureTypeOK, ReviewTypeOK, Saved
  <1>3. TypeOK'
    BY <1>1, <1>2 DEF MemTypeOK, CacheTypeOK, ReceiptsTypeOK, ClosureTypeOK, ReviewTypeOK, TypeOK
  <1>4. QED
    BY <1>1, <1>3 DEF MemInv

LEMMA LinkMemInv ==
    ASSUME MemInv, NEW i \in Ids, NEW refs \in SUBSET Refs, Link(i, refs),
           UNCHANGED <<sheets, events, reopens>>
    PROVE  MemInv'
  <1> DEFINE row == [mem[i] EXCEPT !.links = @ \cup refs]
  <1>1. TypeOK /\ Rewritten(i, row)
    BY LinkWrite DEF MemInv
  <1>2. row.succ \in 0..Len(mem)
    BY <1>1, RowFacts DEF Rows
  <1>3. /\ cache' = [cache EXCEPT ![i] = EnvelopeOf(i, row)]
        /\ UNCHANGED <<receipts, calls, closure>>
    BY DEF Link
  <1> HIDE DEF row
  <1>4. MemTypeOK' /\ ChainsInv' /\ CallsInv'
    BY <1>1, <1>2, <1>3, RewrittenKeeps
  <1>5. EnvelopeOf(i, row) \in Envelopes
    BY <1>1, RowFacts, EnvelopeType DEF Rewritten
  <1>6. CacheTypeOK'
    BY <1>1, <1>3, <1>5, EnvelopeUpdate DEF TypeOK, CacheTypeOK, Rewritten, Ids
  <1>7. ReceiptsTypeOK' /\ ClosureTypeOK' /\ ReviewTypeOK' /\ calls' \subseteq Calls
    BY <1>1, <1>3 DEF TypeOK, ReceiptsTypeOK, ClosureTypeOK, ReviewTypeOK, Rewritten
  <1>8. TypeOK'
    BY <1>4, <1>6, <1>7 DEF MemTypeOK, CacheTypeOK, ReceiptsTypeOK, ClosureTypeOK, ReviewTypeOK, TypeOK
  <1>9. QED
    BY <1>4, <1>8 DEF MemInv

\* A legacy write, and what it leaves in its row.
LEMMA LegacyWrites ==
    ASSUME MemInv, NEW c \in calls, ApplyStatusTransition(c) \/ SupersedeExplicit(c)
    PROVE  /\ PeriodOpen /\ c.id \in Ids /\ c.to \in Statuses \ {"active", "pending_review"}
           /\ c.to = "approved" => LegacyApprove
           /\ \E succ \in 0..Len(mem) : Rewritten(c.id, Moved(mem[c.id], c.to, succ))
           /\ \A act \in receipts : act \in receipts'
           /\ ReceiptsTypeOK' /\ calls' = calls \ {c} /\ UNCHANGED <<cache, closure>>
  <1>1. /\ c.kind = "transition" /\ c.id \in Ids /\ c.succ \in 0..Len(mem) /\ TypeOK
        /\ c.to \in {"rejected", "voided", "superseded"} \/ (c.to = "approved" /\ LegacyApprove)
    BY DEF ApplyStatusTransition, SupersedeExplicit, MemInv, CallsInv
  <1>2. PICK succ \in 0..Len(mem) : WriteStatus(c, succ)
    BY <1>1, RowFacts DEF ApplyStatusTransition, SupersedeExplicit
  <1>3. c.to \in Statuses /\ succ \in Nat
    BY <1>1 DEF Statuses
  <1>4. Rewritten(c.id, Moved(mem[c.id], c.to, succ))
    BY <1>1, <1>2, <1>3, StatusWrite DEF WriteStatus
  <1>5. ReceiptsTypeOK'
    <2>1. LegacyActs(c) \subseteq Nat \X (Statuses \cup {"recorded", "closed", "reopened"})
      BY <1>1, <1>3, RowFacts DEF LegacyActs
    <2>2. QED
      BY <1>1, <1>2, <2>1 DEF WriteStatus, TypeOK, ReceiptsTypeOK
  <1>6. QED
    BY <1>1, <1>2, <1>4, <1>5 DEF WriteStatus, Statuses

LEMMA LegacyMemInv ==
    ASSUME MemInv, NEW c \in calls, ApplyStatusTransition(c) \/ SupersedeExplicit(c),
           UNCHANGED <<sheets, events, reopens>>
    PROVE  MemInv'
  <1>1. /\ c.id \in Ids /\ c.to \in Statuses /\ TypeOK /\ ReceiptsTypeOK'
        /\ calls' = calls \ {c} /\ UNCHANGED <<cache, closure>>
    BY LegacyWrites DEF MemInv
  <1>2. PICK succ \in 0..Len(mem) : Rewritten(c.id, Moved(mem[c.id], c.to, succ))
    BY LegacyWrites
  <1>3. Moved(mem[c.id], c.to, succ).succ \in 0..Len(mem)
    <2>1. mem[c.id] \in Rows /\ succ \in Nat
      BY <1>1, RowFacts
    <2>2. Moved(mem[c.id], c.to, succ).succ = succ
      BY <1>1, <2>1, MovedRow
    <2>3. QED
      BY <2>2
  <1>4. MemTypeOK' /\ ChainsInv' /\ CallsInv'
    BY <1>1, <1>2, <1>3, RewrittenKeeps
  <1>5. CacheTypeOK' /\ ClosureTypeOK' /\ ReviewTypeOK' /\ calls' \subseteq Calls
    BY <1>1, <1>2 DEF TypeOK, CacheTypeOK, ClosureTypeOK, ReviewTypeOK, Rewritten
  <1>6. TypeOK'
    BY <1>1, <1>4, <1>5 DEF MemTypeOK, CacheTypeOK, ReceiptsTypeOK, ClosureTypeOK, ReviewTypeOK, TypeOK
  <1>7. QED
    BY <1>4, <1>6 DEF MemInv

\* The event of a decision.
DecisionEvent(p, i, verdict, r, row) ==
    [id |-> i, action |-> verdict, by |-> p, request |-> r,
     reviewed |-> Envelope(i), resulting |-> EnvelopeOf(i, row), open |-> PeriodOpen]

\* A decision, and what it leaves in its row, the cache and the ledger.
LEMMA DecisionWrites ==
    ASSUME MemInv, NEW p \in People, NEW i \in Ids, NEW verdict \in Verdicts, NEW r \in Requests,
           NEW acts, Decide(p, i, verdict, r, acts)
    PROVE  LET row == Moved(mem[i], verdict, mem[i].succ)
           IN  /\ Rewritten(i, row) /\ row.succ \in 0..Len(mem)
               /\ row.status = verdict /\ row.links = mem[i].links
               /\ events' = events \cup {DecisionEvent(p, i, verdict, r, row)}
               /\ DecisionEvent(p, i, verdict, r, row) \in EventRows
               /\ CacheTypeOK'
               /\ cache' = [cache EXCEPT ![i] = EnvelopeOf(i, row)]
               /\ receipts' = receipts \cup acts
               /\ UNCHANGED <<calls, sheets, reopens>>
  <1> DEFINE row == Moved(mem[i], verdict, mem[i].succ)
  <1>1. TypeOK /\ mem[i] \in Rows /\ mem[i].succ \in 0..Len(mem) /\ i \in Nat
    BY RowFacts DEF MemInv
  <1>2. verdict \in Statuses /\ mem[i].succ \in Nat
    BY <1>1 DEF Verdicts, Statuses, Rows
  <1>3. row.succ = mem[i].succ /\ row.status = verdict /\ row.links = mem[i].links /\ row \in Rows
    <2> DEFINE old == mem[i]  succ == mem[i].succ
    <2>1. old \in Rows /\ succ \in Nat
      BY <1>1, <1>2
    <2> HIDE DEF old, succ
    <2>2. LET moved == Moved(old, verdict, succ)
          IN  /\ moved \in Rows /\ moved.status = verdict /\ moved.succ = succ
              /\ moved.links = old.links
      BY <1>2, <2>1, MovedRow
    <2>3. QED
      BY <2>2 DEF old, succ
  <1>4. mem' = [mem EXCEPT ![i] = row]
    BY DEF Decide
  <1>5. Rewritten(i, row)
    BY <1>1, <1>2, <1>4, StatusWrite
  <1>6. /\ events' = events \cup {DecisionEvent(p, i, verdict, r, row)}
        /\ cache' = [cache EXCEPT ![i] = EnvelopeOf(i, row)]
        /\ receipts' = receipts \cup acts
        /\ UNCHANGED <<calls, sheets, reopens>>
    BY DEF Decide, DecisionEvent
  <1> HIDE DEF row
  <1>7. EnvelopeOf(i, row) \in Envelopes /\ Envelope(i) \in Envelopes
    BY <1>1, <1>3, EnvelopeType DEF Envelope, EnvelopeOf
  <1>8. PeriodOpen \in BOOLEAN
    BY DEF PeriodOpen
  <1>9. DecisionEvent(p, i, verdict, r, row) \in EventRows
    BY <1>1, <1>7, <1>8 DEF DecisionEvent, EventRows
  <1>10. CacheTypeOK'
    BY <1>1, <1>5, <1>6, <1>7, EnvelopeUpdate DEF TypeOK, CacheTypeOK, Rewritten, Ids
  <1>11. QED
    BY <1>1, <1>3, <1>5, <1>6, <1>9, <1>10 DEF row

LEMMA DecisionMemInv ==
    ASSUME MemInv, NEW p \in People, NEW i \in Ids, NEW verdict \in Verdicts, NEW r \in Requests,
           NEW acts \in SUBSET ({i} \X (Statuses \cup {"closed"})), Decide(p, i, verdict, r, acts),
           closure' \in {closure, [status |-> "closed", close |-> i]}
    PROVE  MemInv'
  <1> DEFINE row == Moved(mem[i], verdict, mem[i].succ)
             e   == DecisionEvent(p, i, verdict, r, row)
  <1>1. /\ Rewritten(i, row) /\ row.succ \in 0..Len(mem)
        /\ events' = events \cup {e} /\ e \in EventRows
        /\ CacheTypeOK' /\ receipts' = receipts \cup acts
        /\ UNCHANGED <<calls, sheets, reopens>>
    BY DecisionWrites
  <1>2. TypeOK /\ i \in Nat
    BY RowFacts DEF MemInv
  <1> HIDE DEF row, e
  <1>3. MemTypeOK' /\ ChainsInv' /\ CallsInv'
    BY <1>1, RewrittenKeeps
  <1>4. ReceiptsTypeOK'
    BY <1>1, <1>2 DEF TypeOK, ReceiptsTypeOK
  <1>5. ClosureTypeOK'
    BY <1>1, <1>2 DEF TypeOK, ClosureTypeOK, Closures, Rewritten
  <1>6. ReviewTypeOK' /\ calls' \subseteq Calls
    BY <1>1, <1>2 DEF TypeOK, ReviewTypeOK
  <1>7. TypeOK'
    BY <1>1, <1>3, <1>4, <1>5, <1>6
    DEF MemTypeOK, CacheTypeOK, ReceiptsTypeOK, ClosureTypeOK, ReviewTypeOK, TypeOK
  <1>8. QED
    BY <1>3, <1>7 DEF MemInv

\* What approve, reject and return are, for the tables.
LEMMA Decisions ==
    ASSUME ApproveStep \/ DecideStep
    PROVE  \E p \in People, i \in Ids, verdict \in Verdicts, r \in Requests :
              \E acts \in SUBSET ({i} \X (Statuses \cup {"closed"})) :
                 /\ Decidable(p, i) /\ Decide(p, i, verdict, r, acts)
                 /\ verdict = "approved" =>
                       /\ MayApprove(p, mem[i].draft.effect, mem[i].draft.level)
                       /\ acts = ApprovalActs(i) /\ ProjectClosure(i)
                 /\ verdict # "approved" => closure' = closure
  <1>1. ASSUME NEW p \in People, NEW i \in Ids, NEW r \in Requests, NEW b \in BOOLEAN,
               ApproveMemory(p, i, r, b)
        PROVE  \E verdict \in Verdicts : \E acts \in SUBSET ({i} \X (Statuses \cup {"closed"})) :
                 /\ Decidable(p, i) /\ Decide(p, i, verdict, r, acts)
                 /\ verdict = "approved" =>
                       /\ MayApprove(p, mem[i].draft.effect, mem[i].draft.level)
                       /\ acts = ApprovalActs(i) /\ ProjectClosure(i)
                 /\ verdict # "approved" => closure' = closure
    <2>1. "approved" \in Verdicts /\ ApprovalActs(i) \in SUBSET ({i} \X (Statuses \cup {"closed"}))
      BY DEF Verdicts, ApprovalActs, Statuses
    <2>2. /\ Decidable(p, i) /\ Decide(p, i, "approved", r, ApprovalActs(i)) /\ ProjectClosure(i)
          /\ MayApprove(p, mem[i].draft.effect, mem[i].draft.level)
      BY <1>1 DEF ApproveMemory
    <2>3. QED
      BY <2>1, <2>2
  <1>2. ASSUME NEW p \in People, NEW i \in Ids, NEW r \in Requests, NEW b \in BOOLEAN,
               NEW v \in {"rejected", "returned"}, DecidePendingMemory(p, i, v, r, b)
        PROVE  \E verdict \in Verdicts : \E acts \in SUBSET ({i} \X (Statuses \cup {"closed"})) :
                 /\ Decidable(p, i) /\ Decide(p, i, verdict, r, acts)
                 /\ verdict = "approved" =>
                       /\ MayApprove(p, mem[i].draft.effect, mem[i].draft.level)
                       /\ acts = ApprovalActs(i) /\ ProjectClosure(i)
                 /\ verdict # "approved" => closure' = closure
    <2>1. v \in Verdicts /\ v # "approved" /\ {<<i, v>>} \in SUBSET ({i} \X (Statuses \cup {"closed"}))
      BY DEF Verdicts, Statuses
    <2>2. Decidable(p, i) /\ Decide(p, i, v, r, {<<i, v>>}) /\ closure' = closure
      BY <1>2 DEF DecidePendingMemory
    <2>3. QED
      BY <2>1, <2>2
  <1>3. QED
    BY <1>1, <1>2 DEF ApproveStep, DecideStep

-----------------------------------------------------------------------------
(* The kinds of step, by what they write *)

\* Reads and calls that end: nothing stored changes but the calls and the sheets.
QuietKind == UNCHANGED <<mem, cache, receipts, closure, events, reopens>>

SaveKind == \E p \in People, draft \in Drafts, via \in {"save", "close"} :
    /\ SaveRow(p, draft, via)
    /\ \A c \in calls' : c \in calls
    /\ UNCHANGED <<closure, sheets, events, reopens>>

LinkKind == \E i \in Ids, refs \in SUBSET Refs :
    Link(i, refs) /\ UNCHANGED <<sheets, events, reopens>>

LegacyKind == \E c \in calls :
    (ApplyStatusTransition(c) \/ SupersedeExplicit(c)) /\ UNCHANGED <<sheets, events, reopens>>

LEMMA StepKinds ==
    ASSUME calls \subseteq Calls, [Next]_vars
    PROVE  QuietKind \/ SaveKind \/ LinkKind \/ LegacyKind \/ ApproveStep \/ DecideStep \/ ReopenStep
  <1>1. CASE SaveStep
    BY <1>1 DEF SaveStep, Save, SaveKind, reviewOnly
  <1>2. CASE LinkStep
    <2>1. ASSUME NEW i \in Ids, NEW ref \in Refs, AddLink(i, ref) PROVE \E refs \in SUBSET Refs : Link(i, refs)
      <3>1. {ref} \in SUBSET Refs /\ Link(i, {ref})
        BY <2>1 DEF AddLink
      <3>2. QED
        BY <3>1
    <2>2. \E i \in Ids, refs \in SUBSET Refs : Link(i, refs)
      BY <1>2, <2>1 DEF LinkStep, AddLinksBound
    <2>3. QED
      BY <1>2, <2>2 DEF LinkStep, LinkKind, reviewOnly
  <1>3. CASE LegacyRead
    BY <1>3 DEF LegacyRead, ReadForStatus, ReadForSupersede, ReadForTransition, QuietKind, reviewOnly
  <1>4. CASE LegacyWrite
    BY <1>4 DEF LegacyWrite, CallEnds, QuietKind, LegacyKind, reviewOnly
  <1>5. CASE ReadStep
    BY <1>5 DEF ReadStep, ListReviewQueue, ReviewDetail, QuietKind
  <1>6. CASE CloseStep
    <2>1. ASSUME NEW c \in calls, NEW draft \in Drafts, SaveClose(c, draft) PROVE SaveKind
      <3>1. c.by \in People
        BY <2>1 DEF SaveClose, Calls
      <3>2. /\ SaveRow(c.by, draft, "close") /\ \A d \in calls' : d \in calls
            /\ UNCHANGED <<closure, sheets, events, reopens>>
        BY <2>1 DEF SaveClose
      <3>3. QED
        BY <3>1, <3>2 DEF SaveKind
    <2>2. QED
      BY <1>6, <2>1 DEF CloseStep, ReadForClose, QuietKind
  <1>7. CASE UNCHANGED vars
    BY <1>7 DEF vars, QuietKind
  <1>8. QED
    BY <1>1, <1>2, <1>3, <1>4, <1>5, <1>6, <1>7 DEF Next

\* What the steps that leave the rows alone need for MemInv.
LEMMA RowsKept ==
    ASSUME MemInv, UNCHANGED <<mem, cache>>
    PROVE  Ids' = Ids /\ MemTypeOK' /\ ChainsInv' /\ CacheTypeOK'
  <1>1. Ids' = Ids /\ MemTypeOK'
    BY DEF MemInv, TypeOK, MemTypeOK, Ids
  <1>2. ChainsInv'
    BY <1>1 DEF MemInv, ChainsInv
  <1>3. CacheTypeOK'
    BY <1>1 DEF MemInv, TypeOK, CacheTypeOK
  <1>4. QED
    BY <1>1, <1>2, <1>3

\* The calls and the sheets of the readers.
ReadersOK == /\ calls \subseteq Calls /\ CallsInv
             /\ sheets \in [People -> Envelopes \cup {NoSheet}]

LEMMA LegacyReadReaders ==
    ASSUME MemInv, LegacyRead
    PROVE  ReadersOK'
  <1>1. PICK kind \in {"agent", "human", "system"}, i \in Ids : ReadForStatus(kind, i) \/ \E j \in Ids : ReadForSupersede(kind, i, j)
    BY DEF LegacyRead
  <1>2. TypeOK /\ Len(mem) \in Nat /\ mem[i].status \in Statuses /\ i \in Nat /\ mem' = mem /\ sheets' = sheets
    BY <1>1, RowFacts
    DEF MemInv, TypeOK, LegacyRead, reviewOnly, ReadForStatus, ReadForSupersede, ReadForTransition
  <1>3. \E to \in {"rejected", "voided", "superseded", "approved"}, succ \in 0..Len(mem) :
            ReadForTransition(kind, i, to, succ) /\ (to = "approved" => LegacyApprove)
    <2>1. CASE ReadForStatus(kind, i)
      <3>1. PICK to \in LegacyTargets : ReadForTransition(kind, i, to, 0)
        BY <2>1 DEF ReadForStatus
      <3>2. to \in {"rejected", "voided", "approved"} /\ (to = "approved" => LegacyApprove)
        BY DEF LegacyTargets
      <3>3. 0 \in 0..Len(mem)
        BY <1>2
      <3>4. QED
        BY <3>1, <3>2, <3>3
    <2>2. CASE \E j \in Ids : ReadForSupersede(kind, i, j)
      BY <1>2, <2>2 DEF ReadForSupersede, Ids
    <2>3. QED
      BY <1>1, <2>1, <2>2
  <1>4. PICK to \in {"rejected", "voided", "superseded", "approved"}, succ \in 0..Len(mem) :
            ReadForTransition(kind, i, to, succ) /\ (to = "approved" => LegacyApprove)
    BY <1>3
  <1> DEFINE c == [kind |-> "transition", id |-> i, to |-> to, succ |-> succ, read |-> mem[i].status]
  <1>5. calls' = calls \cup {c}
    BY <1>4 DEF ReadForTransition
  <1>6. c \in Calls
    BY <1>2 DEF Calls, Statuses
  <1>7. c.id = i /\ c.succ = succ /\ c.to = to
    OBVIOUS
  <1> HIDE DEF c
  <1>8. CallsInv'
    <2>1. Ids' = Ids /\ Len(mem') = Len(mem)
      BY <1>2 DEF Ids
    <2>2. ASSUME NEW d \in calls', d.kind = "transition"
          PROVE  /\ d.id \in Ids /\ d.succ \in 0..Len(mem)
                 /\ d.to \in {"rejected", "voided", "superseded"} \/ (d.to = "approved" /\ LegacyApprove)
      <3>1. CASE d = c
        <4>1. d.id = i /\ d.succ = succ /\ d.to = to
          BY <1>7, <3>1
        <4>2. to \in {"rejected", "voided", "superseded"} \/ (to = "approved" /\ LegacyApprove)
          BY <1>4
        <4>3. QED
          BY <4>1, <4>2
      <3>2. CASE d \in calls
        BY <2>2, <3>2 DEF MemInv, CallsInv
      <3>3. QED
        BY <1>5, <3>1, <3>2
    <2>3. QED
      BY <2>1, <2>2 DEF CallsInv
  <1>9. QED
    BY <1>2, <1>5, <1>6, <1>8 DEF ReadersOK, TypeOK

LEMMA SheetReaders ==
    ASSUME MemInv, ReadStep
    PROVE  ReadersOK'
  <1>1. PICK p \in People, i \in Ids : ListReviewQueue(p, i) \/ ReviewDetail(p, i)
    BY DEF ReadStep
  <1>2. TypeOK /\ mem[i] \in Rows /\ i \in Nat /\ UNCHANGED <<mem, calls>>
    BY <1>1, RowFacts DEF MemInv, ListReviewQueue, ReviewDetail
  <1>3. Envelope(i) \in Envelopes /\ cache[i] \in Envelopes
    <2>1. EnvelopeOf(i, mem[i]) \in Envelopes /\ Envelope(i) = EnvelopeOf(i, mem[i])
      BY <1>2, EnvelopeType DEF Envelope, EnvelopeOf
    <2>2. cache \in Seq(Envelopes) /\ i \in 1..Len(cache)
      BY <1>2 DEF TypeOK, Ids
    <2>3. QED
      BY <2>1, <2>2
  <1>4. sheets' = [sheets EXCEPT ![p] = cache[i]] \/ sheets' = [sheets EXCEPT ![p] = Envelope(i)]
    BY <1>1 DEF ListReviewQueue, ReviewDetail
  <1>5. sheets' \in [People -> Envelopes \cup {NoSheet}]
    BY <1>2, <1>3, <1>4 DEF TypeOK
  <1>6. QED
    BY <1>2, <1>5 DEF ReadersOK, MemInv, CallsInv, TypeOK, Ids

LEMMA QuietMemInv ==
    ASSUME MemInv, QuietKind, [Next]_vars
    PROVE  MemInv'
  <1>1. TypeOK /\ Ids' = Ids /\ MemTypeOK' /\ ChainsInv' /\ CacheTypeOK'
    BY RowsKept DEF QuietKind, MemInv
  <1>2. ASSUME \A c \in calls' : c \in calls \/ c \in [kind : {"close"}, by : People],
               UNCHANGED sheets
        PROVE  ReadersOK'
    BY <1>1, <1>2 DEF QuietKind, MemInv, TypeOK, CallsInv, Calls, ReadersOK
  <1>3. ReadersOK'
    <2>1. CASE CloseStep
      <3>1. CASE \E p \in People : ReadForClose(p)
        BY <1>2, <3>1 DEF ReadForClose
      <3>2. CASE \E c \in calls, d \in Drafts : SaveClose(c, d)
        BY <1>2, <3>2 DEF SaveClose
      <3>3. QED
        BY <2>1, <3>1, <3>2 DEF CloseStep
    <2>2. CASE SaveStep \/ LinkStep
      BY <1>2, <2>2 DEF SaveStep, Save, LinkStep, AddLink, AddLinksBound, Link, reviewOnly
    <2>3. CASE LegacyWrite
      BY <1>2, <2>3
      DEF LegacyWrite, ApplyStatusTransition, SupersedeExplicit, WriteStatus, CallEnds, reviewOnly
    <2>4. CASE ApproveStep \/ DecideStep
      <3>1. UNCHANGED <<calls, sheets>>
        BY <2>4, Decisions DEF Decide
      <3>2. QED
        BY <1>2, <3>1
    <2>5. CASE ReopenStep \/ UNCHANGED vars
      BY <1>2, <2>5 DEF ReopenStep, ReopenPeriod, vars
    <2>6. QED
      BY <2>1, <2>2, <2>3, <2>4, <2>5, LegacyReadReaders, SheetReaders DEF Next
  <1>4. TypeOK'
    BY <1>1, <1>3
    DEF QuietKind, ReadersOK, TypeOK, MemTypeOK, CacheTypeOK
  <1>5. QED
    BY <1>1, <1>3, <1>4 DEF ReadersOK, MemInv

LEMMA ReopenMemInv ==
    ASSUME MemInv, ReopenStep
    PROVE  MemInv'
  <1>1. PICK p \in People, i \in Ids, r \in Requests : ReopenPeriod(p, i, r)
    BY DEF ReopenStep
  <1>2. /\ TypeOK /\ i \in Nat /\ i \in Ids
        /\ closure = [status |-> "closed", close |-> i]
        /\ closure' = [closure EXCEPT !.status = "reopened"]
        /\ reopens' = reopens \cup {[close |-> i, by |-> p, request |-> r]}
        /\ receipts' = receipts \cup {<<i, "reopened">>}
        /\ UNCHANGED <<mem, cache, calls, sheets, events>>
    BY <1>1, RowFacts DEF MemInv, ReopenPeriod
  <1>3. Ids' = Ids /\ MemTypeOK' /\ ChainsInv' /\ CacheTypeOK'
    BY <1>2, RowsKept
  <1>4. ClosureTypeOK' /\ ReceiptsTypeOK'
    BY <1>2, <1>3 DEF TypeOK, ClosureTypeOK, ReceiptsTypeOK, Closures
  <1>5. ReviewTypeOK' /\ calls' \subseteq Calls /\ CallsInv'
    BY <1>2, <1>3 DEF TypeOK, MemInv, ReviewTypeOK, ReopenRows, CallsInv
  <1>6. TypeOK'
    BY <1>3, <1>4, <1>5
    DEF MemTypeOK, CacheTypeOK, ReceiptsTypeOK, ClosureTypeOK, ReviewTypeOK, TypeOK
  <1>7. QED
    BY <1>3, <1>5, <1>6 DEF MemInv

-----------------------------------------------------------------------------
LEMMA InitMemInv == Init => MemInv
  <1> SUFFICES ASSUME Init PROVE MemInv
    OBVIOUS
  <1>1. mem = <<>> /\ cache = <<>> /\ Ids = {} /\ calls = {}
    BY DEF Init, ChainsInit, Ids
  <1>2. TypeOK
    BY <1>1, ChainsAssumption DEF Init, ChainsInit, TypeOK, Closures
  <1>3. QED
    BY <1>1, <1>2 DEF MemInv, ChainsInv, CallsInv

LEMMA NextMemInv ==
    ASSUME MemInv, [Next]_vars
    PROVE  MemInv'
  <1>1. calls \subseteq Calls
    BY DEF MemInv, TypeOK
  <1>2. CASE QuietKind
    BY <1>2, QuietMemInv
  <1>3. CASE SaveKind
    BY <1>3, SaveMemInv DEF SaveKind
  <1>4. CASE LinkKind
    BY <1>4, LinkMemInv DEF LinkKind
  <1>5. CASE LegacyKind
    BY <1>5, LegacyMemInv DEF LegacyKind
  <1>6. CASE ApproveStep \/ DecideStep
    <2>1. PICK p \in People, i \in Ids, verdict \in Verdicts, r \in Requests :
             \E acts \in SUBSET ({i} \X (Statuses \cup {"closed"})) :
                /\ Decide(p, i, verdict, r, acts)
                /\ verdict = "approved" => ProjectClosure(i)
                /\ verdict # "approved" => closure' = closure
      BY <1>6, Decisions
    <2>2. closure' \in {closure, [status |-> "closed", close |-> i]}
      BY <2>1 DEF ProjectClosure
    <2>3. QED
      BY <2>1, <2>2, DecisionMemInv
  <1>7. CASE ReopenStep
    BY <1>7, ReopenMemInv
  <1>8. QED
    BY <1>1, <1>2, <1>3, <1>4, <1>5, <1>6, <1>7, StepKinds

THEOREM MemInvHolds == Spec => []MemInv
  <1>1. Init => MemInv
    BY InitMemInv
  <1>2. MemInv /\ [Next]_vars => MemInv'
    BY NextMemInv
  <1>3. QED
    BY <1>1, <1>2, PTL DEF Spec

\* THEOREM.  The tables of the review are always well typed, and every foreign key
\* among them names a stored memory.
THEOREM TypesHold == Spec => []TypeOK
  <1>1. MemInv => TypeOK
    BY DEF MemInv
  <1>2. QED
    BY <1>1, MemInvHolds, PTL

-----------------------------------------------------------------------------
(* What any step may do to a row *)

\* A row keeps its status and its trail, or moves on from its status for good.
RowStep(new, old) ==
    /\ new \in Rows /\ SameContent(new, old)
    /\ \/ new.status = old.status /\ new.log = old.log
       \/ /\ new.status \notin {"active", "pending_review"}
          /\ new.log = Append(old.log, <<old.status, new.status>>)

LEMMA SameRow == ASSUME NEW row \in Rows PROVE RowStep(row, row)
  BY DEF RowStep, SameContent

LEMMA MovedStep ==
    ASSUME NEW row \in Rows, NEW to \in Statuses \ {"active", "pending_review"}, NEW succ \in Nat
    PROVE  RowStep(Moved(row, to, succ), row)
  <1> DEFINE moved == Moved(row, to, succ)
  <1>1. to \in Statuses
    OBVIOUS
  <1>2. /\ moved \in Rows /\ SameContent(moved, row) /\ moved.status = to
    BY <1>1, MovedRow
  <1>2a. moved.log = Append(row.log, <<row.status, to>>)
    BY MovedLog
  <1> HIDE DEF moved
  <1>3. RowStep(moved, row)
    BY <1>2, <1>2a DEF RowStep
  <1>4. QED
    BY <1>3 DEF moved

LEMMA RewriteStep ==
    ASSUME MemInv, NEW i \in Ids, NEW row, Rewritten(i, row), RowStep(row, mem[i])
    PROVE  Ids' = Ids /\ \A j \in Ids : RowStep(mem'[j], mem[j])
  <1>1. ASSUME NEW j \in Ids PROVE RowStep(mem'[j], mem[j])
    <2>1. CASE j = i
      BY <2>1 DEF Rewritten
    <2>2. CASE j # i
      BY <2>2, SameRow, RowFacts DEF Rewritten, MemInv
    <2>3. QED
      BY <2>1, <2>2
  <1>2. QED
    BY <1>1 DEF Rewritten

LEMMA SaveSteps ==
    ASSUME MemInv, NEW p, NEW draft, NEW via, Saved(p, draft, via)
    PROVE  \A j \in Ids : RowStep(mem'[j], mem[j])
  <1> SUFFICES ASSUME NEW j \in Ids PROVE RowStep(mem'[j], mem[j])
    OBVIOUS
  <1> DEFINE n == Len(mem) + 1
  <1>1. TypeOK /\ mem[j] \in Rows /\ n \in Nat
    BY RowFacts DEF MemInv, TypeOK
  <1>2. mem'[j] = SupersedePrev(j, n) \/ mem'[j] = mem[j]
    BY DEF Saved
  <1> HIDE DEF n
  <1>3. "superseded" \in Statuses \ {"active", "pending_review"}
    BY DEF Statuses
  <1>4. RowStep(Moved(mem[j], "superseded", n), mem[j])
    BY <1>1, <1>3, MovedStep
  <1>5. QED
    BY <1>1, <1>2, <1>4, SameRow DEF SupersedePrev

LEMMA LinkSteps ==
    ASSUME MemInv, NEW i \in Ids, NEW refs \in SUBSET Refs, Link(i, refs)
    PROVE  Ids' = Ids /\ \A j \in Ids : RowStep(mem'[j], mem[j])
  <1> DEFINE row == [mem[i] EXCEPT !.links = @ \cup refs]
  <1>1. Rewritten(i, row)
    BY LinkWrite DEF MemInv
  <1>2. mem[i] \in Rows
    BY RowFacts DEF MemInv
  <1>3. row.status = mem[i].status /\ row.log = mem[i].log
    BY <1>2 DEF Rows
  <1> HIDE DEF row
  <1>4. RowStep(row, mem[i])
    BY <1>1, <1>3 DEF Rewritten, RowStep
  <1>5. QED
    BY <1>1, <1>4, RewriteStep

LEMMA LegacySteps ==
    ASSUME MemInv, NEW c \in calls, ApplyStatusTransition(c) \/ SupersedeExplicit(c)
    PROVE  Ids' = Ids /\ \A j \in Ids : RowStep(mem'[j], mem[j])
  <1>1. PICK succ \in 0..Len(mem) : Rewritten(c.id, Moved(mem[c.id], c.to, succ))
    BY LegacyWrites
  <1>2. c.id \in Ids /\ c.to \in Statuses \ {"active", "pending_review"}
    BY LegacyWrites
  <1>3. mem[c.id] \in Rows
    BY <1>2, RowFacts DEF MemInv
  <1>4. RowStep(Moved(mem[c.id], c.to, succ), mem[c.id])
    BY <1>2, <1>3, MovedStep
  <1>5. QED
    BY <1>1, <1>2, <1>4, RewriteStep

LEMMA DecisionSteps ==
    ASSUME MemInv, NEW p \in People, NEW i \in Ids, NEW verdict \in Verdicts, NEW r \in Requests,
           NEW acts, Decide(p, i, verdict, r, acts)
    PROVE  Ids' = Ids /\ \A j \in Ids : RowStep(mem'[j], mem[j])
  <1>1. Rewritten(i, Moved(mem[i], verdict, mem[i].succ))
    BY DecisionWrites
  <1>2. mem[i] \in Rows /\ mem[i].succ \in Nat
    BY RowFacts DEF MemInv, Rows
  <1>3. verdict \in Statuses \ {"active", "pending_review"}
    BY DEF Verdicts, Statuses
  <1>4. RowStep(Moved(mem[i], verdict, mem[i].succ), mem[i])
    BY <1>2, <1>3, MovedStep
  <1>5. QED
    BY <1>1, <1>4, RewriteStep

\* No step does anything else to a row that is there.
LEMMA RowSteps ==
    ASSUME MemInv, [Next]_vars
    PROVE  \A j \in Ids : j \in Ids' /\ RowStep(mem'[j], mem[j])
  <1>1. CASE QuietKind \/ ReopenStep
    BY <1>1, SameRow, RowFacts DEF QuietKind, ReopenStep, ReopenPeriod, MemInv, Ids
  <1>2. CASE SaveKind
    <2>1. PICK p \in People, draft \in Drafts, via \in {"save", "close"} : SaveRow(p, draft, via)
      BY <1>2 DEF SaveKind
    <2>2. Saved(p, draft, via)
      BY <2>1, SaveWrite
    <2>3. QED
      BY <2>2, SaveSteps DEF Saved
  <1>3. CASE LinkKind
    BY <1>3, LinkSteps DEF LinkKind
  <1>4. CASE LegacyKind
    BY <1>4, LegacySteps DEF LegacyKind
  <1>5. CASE ApproveStep \/ DecideStep
    BY <1>5, Decisions, DecisionSteps
  <1>6. QED
    BY <1>1, <1>2, <1>3, <1>4, <1>5, StepKinds DEF MemInv, TypeOK

\* A row that is new is a save's.
LEMMA NewRows ==
    ASSUME MemInv, [Next]_vars
    PROVE  \A j \in Ids' : j \in Ids \/
              /\ mem'[j].status = InitialStatus(mem'[j].draft.effect) /\ mem'[j].log = <<>>
              /\ cache' = Append(cache, EnvelopeOf(j, mem'[j])) /\ j = Len(mem) + 1
  <1>1. CASE QuietKind \/ ReopenStep
    BY <1>1 DEF QuietKind, ReopenStep, ReopenPeriod, Ids
  <1>2. CASE SaveKind
    <2>1. PICK p \in People, draft \in Drafts, via \in {"save", "close"} : SaveRow(p, draft, via)
      BY <1>2 DEF SaveKind
    <2>2. /\ Saved(p, draft, via)
          /\ cache' = Append(cache, EnvelopeOf(Len(mem) + 1, mem'[Len(mem) + 1]))
      BY <2>1, SaveTables
    <2>3. QED
      BY <2>2 DEF Saved, NewRow
  <1>3. CASE LinkKind
    BY <1>3, LinkSteps DEF LinkKind
  <1>4. CASE LegacyKind
    BY <1>4, LegacySteps DEF LegacyKind
  <1>5. CASE ApproveStep \/ DecideStep
    BY <1>5, Decisions, DecisionSteps
  <1>6. QED
    BY <1>1, <1>2, <1>3, <1>4, <1>5, StepKinds DEF MemInv, TypeOK

-----------------------------------------------------------------------------
(* The audit trail *)

Replays(row) ==
    LET at(k) == IF k = 0 THEN InitialStatus(row.draft.effect) ELSE row.log[k][2]
    IN  /\ \A k \in DOMAIN row.log : row.log[k][1] = at(k - 1)
        /\ row.status = at(Len(row.log))

LEMMA TrailGrows ==
    ASSUME NEW old \in Rows, NEW new \in Rows, Replays(old), RowStep(new, old)
    PROVE  Replays(new)
  <1> DEFINE log == old.log
             first == InitialStatus(old.draft.effect)
  <1>1. /\ log \in Seq(Statuses \X Statuses) /\ Len(log) \in Nat
        /\ DOMAIN log = 1..Len(log) /\ new.draft = old.draft
    BY DEF Rows, RowStep, SameContent
  <1>2. CASE new.status = old.status /\ new.log = old.log
    BY <1>1, <1>2 DEF Replays
  <1>3. CASE new.log = Append(old.log, <<old.status, new.status>>)
    <2>1. <<old.status, new.status>> \in Statuses \X Statuses
      BY DEF Rows
    <2>2. /\ DOMAIN new.log = 1..(Len(log) + 1) /\ Len(new.log) = Len(log) + 1
          /\ new.log[Len(log) + 1] = <<old.status, new.status>>
          /\ \A k \in 1..Len(log) : new.log[k] = log[k]
      BY <1>1, <1>3, <2>1, AppendProperties
    <2>3. /\ \A k \in 1..Len(log) : log[k][1] = IF k - 1 = 0 THEN first ELSE log[k - 1][2]
          /\ old.status = IF Len(log) = 0 THEN first ELSE log[Len(log)][2]
      BY <1>1 DEF Replays
    <2> HIDE DEF log, first
    <2>4. ASSUME NEW k \in 1..(Len(log) + 1)
          PROVE  new.log[k][1] = IF k - 1 = 0 THEN first ELSE new.log[k - 1][2]
      <3>1. CASE k = Len(log) + 1
        BY <1>1, <2>2, <2>3, <3>1
      <3>2. CASE k \in 1..Len(log)
        <4>1. new.log[k] = log[k] /\ log[k][1] = IF k - 1 = 0 THEN first ELSE log[k - 1][2]
          BY <2>2, <2>3, <3>2
        <4>2. k - 1 # 0 => k - 1 \in 1..Len(log)
          BY <1>1, <3>2
        <4>3. k - 1 # 0 => new.log[k - 1] = log[k - 1]
          BY <2>2, <4>2
        <4>4. QED
          BY <4>1, <4>3
      <3>3. QED
        BY <1>1, <3>1, <3>2
    <2>5. new.status = new.log[Len(log) + 1][2] /\ Len(log) + 1 # 0
      BY <1>1, <2>2
    <2>6. QED
      BY <1>1, <2>2, <2>4, <2>5 DEF Replays, first
  <1>4. QED
    BY <1>2, <1>3 DEF RowStep

LEMMA NextTrail ==
    ASSUME MemInv, LogReplaysToStatus, [Next]_vars
    PROVE  LogReplaysToStatus'
  <1>1. \A j \in Ids : Replays(mem[j])
    BY DEF LogReplaysToStatus, Replays
  <1>2. ASSUME NEW j \in Ids' PROVE Replays(mem'[j])
    <2>1. CASE j \in Ids
      BY <1>1, <2>1, RowSteps, RowFacts, TrailGrows DEF RowStep, MemInv
    <2>2. CASE j \notin Ids
      <3>1. mem'[j].status = InitialStatus(mem'[j].draft.effect) /\ mem'[j].log = <<>>
        BY <2>2, NewRows
      <3>2. DOMAIN <<>> = {} /\ Len(<<>>) = 0
        OBVIOUS
      <3>3. QED
        BY <3>1, <3>2 DEF Replays
    <2>3. QED
      BY <2>1, <2>2
  <1>3. QED
    BY <1>2 DEF LogReplaysToStatus, Replays

\* THEOREM.  The audit trail of every memory replays to its status, whatever
\* interleaving of saves, decisions and stale legacy writes produced it.
THEOREM TrailReplays == Spec => []LogReplaysToStatus
  <1>1. Init => LogReplaysToStatus
    BY DEF Init, ChainsInit, LogReplaysToStatus, Ids
  <1>2. MemInv /\ LogReplaysToStatus /\ [Next]_vars => LogReplaysToStatus'
    BY NextTrail
  <1>3. QED
    BY <1>1, <1>2, MemInvHolds, PTL DEF Spec

-----------------------------------------------------------------------------
(* The queue *)

LEMMA NextQueue ==
    ASSUME MemInv, QueueShowsCurrent, [Next]_vars
    PROVE  QueueShowsCurrent'
  <1> SUFFICES ASSUME NEW j \in Ids', mem'[j].status = "pending_review"
               PROVE  cache'[j] = EnvelopeOf(j, mem'[j])
    BY DEF QueueShowsCurrent, Envelope, EnvelopeOf
  <1>1. TypeOK /\ cache \in Seq(Envelopes) /\ Len(cache) = Len(mem) /\ Len(mem) \in Nat
    BY DEF MemInv, TypeOK
  <1>2. ASSUME j \in Ids PROVE mem[j].status = "pending_review" /\ cache[j] = EnvelopeOf(j, mem[j])
    <2>1. mem[j].status = "pending_review"
      BY <1>2, RowSteps DEF RowStep
    <2>2. QED
      BY <1>2, <2>1 DEF QueueShowsCurrent, Envelope, EnvelopeOf
  <1>3. CASE QuietKind \/ ReopenStep
    BY <1>2, <1>3 DEF QuietKind, ReopenStep, ReopenPeriod, Ids
  <1>4. CASE SaveKind
    <2>1. PICK p \in People, draft \in Drafts, via \in {"save", "close"} : SaveRow(p, draft, via)
      BY <1>4 DEF SaveKind
    <2>2. /\ Saved(p, draft, via)
          /\ cache' = Append(cache, EnvelopeOf(Len(mem) + 1, mem'[Len(mem) + 1]))
      BY <2>1, SaveTables
    <2>3. mem'[Len(mem) + 1] \in Rows
      BY <2>2 DEF Saved
    <2>4. EnvelopeOf(Len(mem) + 1, mem'[Len(mem) + 1]) \in Envelopes
      <3>1. Len(mem) + 1 \in Nat
        BY <1>1
      <3>2. QED
        BY <2>3, <3>1, EnvelopeType
    <2>5. /\ cache'[Len(mem) + 1] = EnvelopeOf(Len(mem) + 1, mem'[Len(mem) + 1])
          /\ \A k \in 1..Len(mem) : cache'[k] = cache[k]
      BY <1>1, <2>2, <2>4, AppendProperties
    <2>6. CASE j = Len(mem) + 1
      BY <2>5, <2>6
    <2>7. CASE j \in Ids
      <3>1. mem'[j] = mem[j]
        <4>1. SupersedePrev(j, Len(mem) + 1).status \in Terminal
          BY <1>1, <2>7, SupersedeRow
        <4>2. mem'[j] = SupersedePrev(j, Len(mem) + 1) \/ mem'[j] = mem[j]
          BY <2>2, <2>7 DEF Saved
        <4>3. QED
          BY <4>1, <4>2 DEF Terminal
      <3>2. QED
        BY <1>2, <2>5, <2>7, <3>1 DEF Ids
    <2>8. QED
      BY <2>2, <2>6, <2>7 DEF Saved
  <1>5. CASE LinkKind
    <2>1. PICK i \in Ids, refs \in SUBSET Refs : Link(i, refs)
      BY <1>5 DEF LinkKind
    <2> DEFINE row == [mem[i] EXCEPT !.links = @ \cup refs]
    <2>2. Rewritten(i, row) /\ cache' = [cache EXCEPT ![i] = EnvelopeOf(i, row)]
      BY <1>1, <2>1, LinkWrite DEF Link
    <2>3. mem[i] \in Rows /\ i \in Nat
      BY <1>1, RowFacts
    <2> HIDE DEF row
    <2>4. EnvelopeOf(i, row) \in Envelopes
      BY <2>2, <2>3, EnvelopeType DEF Rewritten
    <2>5. \A k \in 1..Len(cache) : cache'[k] = IF k = i THEN EnvelopeOf(i, row) ELSE cache[k]
      BY <1>1, <2>2, <2>4, EnvelopeUpdate DEF Ids
    <2>6. QED
      BY <1>1, <1>2, <2>2, <2>5 DEF Rewritten, Ids
  <1>6. CASE LegacyKind
    <2>1. PICK c \in calls : ApplyStatusTransition(c) \/ SupersedeExplicit(c)
      BY <1>6 DEF LegacyKind
    <2>2. /\ c.id \in Ids /\ c.to \in Statuses \ {"active", "pending_review"} /\ UNCHANGED cache
          /\ \E succ \in 0..Len(mem) : Rewritten(c.id, Moved(mem[c.id], c.to, succ))
      BY <2>1, LegacyWrites
    <2>3. PICK succ \in 0..Len(mem) : Rewritten(c.id, Moved(mem[c.id], c.to, succ))
      BY <2>2
    <2>4. Moved(mem[c.id], c.to, succ).status = c.to
      BY <1>1, <2>2, MovedRow, RowFacts
    <2>5. j \in Ids /\ mem'[j] = mem[j]
      BY <2>2, <2>3, <2>4 DEF Rewritten
    <2>6. QED
      BY <1>2, <2>2, <2>5
  <1>7. CASE ApproveStep \/ DecideStep
    <2>1. PICK p \in People, i \in Ids, verdict \in Verdicts, r \in Requests :
             \E acts \in SUBSET ({i} \X (Statuses \cup {"closed"})) : Decide(p, i, verdict, r, acts)
      BY <1>7, Decisions
    <2> DEFINE row == Moved(mem[i], verdict, mem[i].succ)
    <2>2. /\ Rewritten(i, row) /\ row.status = verdict
          /\ cache' = [cache EXCEPT ![i] = EnvelopeOf(i, row)]
      BY <2>1, DecisionWrites
    <2> HIDE DEF row
    <2>3. j \in Ids /\ j # i /\ mem'[j] = mem[j]
      BY <2>2 DEF Rewritten, Verdicts
    <2>4. cache'[j] = cache[j]
      BY <1>1, <2>2, <2>3 DEF Ids
    <2>5. QED
      BY <1>2, <2>3, <2>4
  <1>8. QED
    BY <1>3, <1>4, <1>5, <1>6, <1>7, StepKinds DEF MemInv, TypeOK

\* THEOREM.  The review queue offers the current envelope of every pending memory.
THEOREM QueueIsCurrent == Spec => []QueueShowsCurrent
  <1>1. Init => QueueShowsCurrent
    BY DEF Init, ChainsInit, QueueShowsCurrent, Ids
  <1>2. MemInv /\ QueueShowsCurrent /\ [Next]_vars => QueueShowsCurrent'
    BY NextQueue
  <1>3. QED
    BY <1>1, <1>2, MemInvHolds, PTL DEF Spec

-----------------------------------------------------------------------------
(* The decisions *)

\* A decided memory is not pending again.
DecidedInv ==
    /\ DecidedAsReviewed
    /\ \A e \in events : e.id \in Ids /\ mem[e.id].status # "pending_review"

\* The first and the raised role are both required, so the raised one is held.
LEMMA ApproverReaches ==
    ASSUME NEW p, NEW effect, NEW level, MayApprove(p, effect, level)
    PROVE  Satisfies(Credential[p].roles, RequiredRole(BaseRole(effect), level))
  <1> DEFINE base   == BaseRole(effect)
             raised == RequiredRole(base, level)
             roles  == Credential[p].roles
  <1>1. ~ApprovalChecks(Credential[p], effect, level)[4].fails
    BY DEF MayApprove
  <1>2. ~ApprovalChecks(Credential[p], effect, level)[6].fails
    BY DEF MayApprove
  <1>3. Satisfies(roles, base)
    BY <1>1 DEF ApprovalChecks
  <1>4. raised = base \/ Satisfies(roles, raised)
    BY <1>2 DEF ApprovalChecks
  <1>5. QED
    BY <1>3, <1>4

\* The decision of one step: its event, and why it is new and well founded.
LEMMA DecisionIsFirst ==
    ASSUME MemInv, DecidedInv, ApproveStep \/ DecideStep
    PROVE  \E i \in Ids, e \in EventRows :
              /\ events' = events \cup {e} /\ e \notin events /\ Decision(i) = {}
              /\ e.id = i /\ e.by # mem[i].by
              /\ e.reviewed.status = "pending_review" /\ e.resulting.links = e.reviewed.links
              /\ e.action = "approved" =>
                    Satisfies(Credential[e.by].roles,
                              RequiredRole(BaseRole(mem[i].draft.effect), mem[i].draft.level))
              /\ mem'[i].status # "pending_review" /\ mem[i].status = "pending_review"
              /\ Ids' = Ids /\ \A j \in Ids : mem'[j].links = mem[j].links /\ (j # i => mem'[j] = mem[j])
  <1>1. PICK p \in People, i \in Ids, verdict \in Verdicts, r \in Requests :
           \E acts \in SUBSET ({i} \X (Statuses \cup {"closed"})) :
              /\ Decidable(p, i) /\ Decide(p, i, verdict, r, acts)
              /\ verdict = "approved" => MayApprove(p, mem[i].draft.effect, mem[i].draft.level)
    BY Decisions
  <1> DEFINE row == Moved(mem[i], verdict, mem[i].succ)
             e   == DecisionEvent(p, i, verdict, r, row)
  <1>2. /\ Rewritten(i, row) /\ row.status = verdict /\ row.links = mem[i].links
        /\ events' = events \cup {e} /\ e \in EventRows
    BY <1>1, DecisionWrites
  <1>3. /\ e.id = i /\ e.by = p /\ e.action = verdict
        /\ e.reviewed.status = mem[i].status /\ e.reviewed.links = mem[i].links
        /\ e.resulting.links = row.links
    BY DEF DecisionEvent, Envelope, EnvelopeOf
  <1> HIDE DEF row, e
  <1>4. mem[i].status = "pending_review" /\ p # mem[i].by
    BY <1>1 DEF Decidable, SODViolation
  <1>5. Decision(i) = {} /\ e \notin events
    BY <1>3, <1>4 DEF DecidedInv, Decision
  <1>6. verdict = "approved" => Satisfies(Credential[p].roles,
            RequiredRole(BaseRole(mem[i].draft.effect), mem[i].draft.level))
    BY <1>1, ApproverReaches
  <1>7. mem'[i].status # "pending_review" /\ Ids' = Ids
    BY <1>2 DEF Rewritten, Verdicts
  <1>8. \A j \in Ids : mem'[j].links = mem[j].links /\ (j # i => mem'[j] = mem[j])
    BY <1>2 DEF Rewritten
  <1>9. QED
    BY <1>2, <1>3, <1>4, <1>5, <1>6, <1>7, <1>8

LEMMA NextDecided ==
    ASSUME MemInv, DecidedInv, [Next]_vars
    PROVE  DecidedInv'
  <1>1. \A j \in Ids : /\ j \in Ids' /\ mem'[j].draft = mem[j].draft /\ mem'[j].by = mem[j].by
                       /\ mem[j].status # "pending_review" => mem'[j].status # "pending_review"
    BY RowSteps DEF RowStep, SameContent
  <1>2. CASE events' = events
    BY <1>1, <1>2 DEF DecidedInv, DecidedAsReviewed, Decision
  <1>3. CASE ApproveStep \/ DecideStep
    <2>1. PICK i \in Ids, e \in EventRows :
              /\ events' = events \cup {e} /\ e \notin events /\ Decision(i) = {}
              /\ e.id = i /\ e.by # mem[i].by
              /\ e.reviewed.status = "pending_review" /\ e.resulting.links = e.reviewed.links
              /\ e.action = "approved" =>
                    Satisfies(Credential[e.by].roles,
                              RequiredRole(BaseRole(mem[i].draft.effect), mem[i].draft.level))
              /\ mem'[i].status # "pending_review"
      BY <1>3, DecisionIsFirst
    <2>2. /\ e.id = i /\ mem'[i].draft = mem[i].draft /\ mem'[i].by = mem[i].by /\ i \in Ids'
      BY <1>1, <2>1
    <2>3. \A f \in events : f.id # i
      BY <2>1 DEF Decision
    <2>4. \A f \in events' : f.id \in Ids' /\ mem'[f.id].status # "pending_review"
      BY <1>1, <2>1, <2>2 DEF DecidedInv
    <2>5. ASSUME NEW f \in events'
          PROVE  /\ Decision(f.id)' = {f} /\ f.by # mem'[f.id].by
                 /\ f.reviewed.status = "pending_review" /\ f.resulting.links = f.reviewed.links
                 /\ f.action = "approved" =>
                       Satisfies(Credential[f.by].roles,
                           RequiredRole(BaseRole(mem'[f.id].draft.effect), mem'[f.id].draft.level))
      <3>1. CASE f = e
        <4>1. {g \in events' : g.id = i} = {e}
          BY <2>1, <2>3
        <4>2. QED
          BY <2>1, <2>2, <3>1, <4>1 DEF Decision
      <3>2. CASE f \in events
        <4>1. f.id \in Ids /\ f.id # i
          BY <2>3, <3>2 DEF DecidedInv
        <4>2. {g \in events' : g.id = f.id} = {g \in events : g.id = f.id}
          BY <2>1, <4>1
        <4>3. mem'[f.id].draft = mem[f.id].draft /\ mem'[f.id].by = mem[f.id].by
          BY <1>1, <4>1
        <4>4. QED
          BY <3>2, <4>2, <4>3 DEF DecidedInv, DecidedAsReviewed, Decision
      <3>3. QED
        BY <2>1, <3>1, <3>2
    <2>6. QED
      BY <2>4, <2>5 DEF DecidedInv, DecidedAsReviewed
  <1>4. QED
    BY <1>2, <1>3, StepKinds
    DEF MemInv, TypeOK, QuietKind, SaveKind, LinkKind, LegacyKind, ReopenStep, ReopenPeriod

LEMMA DecidedInvHolds == Spec => []DecidedInv
  <1>1. Init => DecidedInv
    BY DEF Init, DecidedInv, DecidedAsReviewed
  <1>2. MemInv /\ DecidedInv /\ [Next]_vars => DecidedInv'
    BY NextDecided
  <1>3. QED
    BY <1>1, <1>2, MemInvHolds, PTL DEF Spec

\* THEOREM.  A memory is decided once, on the pending envelope that was reviewed, by
\* somebody other than its proposer, and approved only with the raised role.
THEOREM DecisionsAreReviewed == Spec => []DecidedAsReviewed
  <1>1. DecidedInv => DecidedAsReviewed
    BY DEF DecidedInv
  <1>2. QED
    BY <1>1, DecidedInvHolds, PTL

-----------------------------------------------------------------------------
(* The closed period *)

Frozen == ~PeriodOpen => /\ Len(mem') = Len(mem)
                         /\ \A i \in Ids : mem'[i].links = mem[i].links
                         /\ \A i \in Ids : mem'[i].status # mem[i].status
                                               => \E e \in events' \ events : e.id = i

LEMMA NextFrozen ==
    ASSUME MemInv, DecidedInv, [Next]_vars
    PROVE  Frozen
  <1>1. CASE QuietKind \/ ReopenStep
    BY <1>1 DEF QuietKind, ReopenStep, ReopenPeriod, Frozen
  <1>2. CASE SaveKind \/ LinkKind \/ LegacyKind
    BY <1>2, LegacyWrites DEF SaveKind, SaveRow, LinkKind, Link, LegacyKind, Frozen
  <1>3. CASE ApproveStep \/ DecideStep
    <2>1. PICK i \in Ids, e \in EventRows :
              /\ events' = events \cup {e} /\ e \notin events /\ e.id = i /\ Ids' = Ids
              /\ \A j \in Ids : mem'[j].links = mem[j].links /\ (j # i => mem'[j] = mem[j])
      BY <1>3, DecisionIsFirst
    <2>2. Len(mem') = Len(mem)
      BY <1>3, Decisions, DecisionWrites DEF Rewritten
    <2>3. QED
      BY <2>1, <2>2 DEF Frozen
  <1>4. QED
    BY <1>1, <1>2, <1>3, StepKinds DEF MemInv, TypeOK

\* THEOREM.  While the period is closed nothing but review decisions on pending
\* memories gets through, also from callers that passed a check before the close.
THEOREM PeriodFrozen == Spec => ClosedPeriodIsFrozen
  <1>1. MemInv /\ DecidedInv /\ [Next]_vars => [Frozen]_vars
    BY NextFrozen
  <1>2. QED
    BY <1>1, MemInvHolds, DecidedInvHolds, PTL DEF Spec, ClosedPeriodIsFrozen, Frozen

-----------------------------------------------------------------------------
(* The current revision, when the deprecated approve route is not mounted: a   *)
(* legacy approval justified by a stale read would make an old revision        *)
(* current.                                                                    *)

\* Rows that keep their content, and whose older revisions stay terminal.
LEMMA OlderStayTerminal ==
    ASSUME OneCurrentRevision, Ids' = Ids, \A j \in Ids : SameContent(mem'[j], mem[j]),
           \A j \in Ids : mem[j].status \in Terminal => mem'[j].status \in Terminal
    PROVE  OneCurrentRevision'
  BY DEF OneCurrentRevision, SameContent

LEMMA RewriteCurrent ==
    ASSUME MemInv, OneCurrentRevision, NEW i \in Ids, NEW row, Rewritten(i, row),
           mem[i].status \in Terminal => row.status \in Terminal
    PROVE  OneCurrentRevision'
  <1>1. \A j \in Ids : SameContent(mem'[j], mem[j])
    BY DEF Rewritten, SameContent
  <1>2. \A j \in Ids : mem[j].status \in Terminal => mem'[j].status \in Terminal
    BY DEF Rewritten
  <1>3. QED
    BY <1>1, <1>2, OlderStayTerminal DEF Rewritten

LEMMA SaveCurrent ==
    ASSUME MemInv, OneCurrentRevision, NEW p, NEW draft, NEW via, Saved(p, draft, via)
    PROVE  OneCurrentRevision'
  <1> DEFINE n    == Len(mem) + 1
             prev == PrevOf(draft.topic)
             row  == NewRow(p, draft, via, prev)
  <1>1. /\ prev \in {0} \cup Ids /\ (prev = 0 => Chain(draft.topic) = {})
        /\ row \in Rows /\ Ids' = Ids \cup {n} /\ mem'[n] = row
        /\ \A j \in Ids : mem'[j] = IF j = prev THEN SupersedePrev(j, n) ELSE mem[j]
    BY DEF Saved
  <1>2. TypeOK /\ n \in Nat /\ n \notin Ids
    BY DEF MemInv, TypeOK, Ids
  <1>3. row.draft = draft /\ row.rev = IF prev = 0 THEN 1 ELSE mem[prev].rev + 1
    BY DEF NewRow
  <1>4. ASSUME NEW j \in Chain(draft.topic)
        PROVE  /\ prev \in Ids /\ mem[prev].draft.topic = draft.topic
               /\ mem[j].rev <= mem[prev].rev /\ mem[j].rev < row.rev
               /\ mem[j].rev \in Nat /\ mem[prev].rev \in Nat
    <2>1. prev = Newest(Chain(draft.topic))
      BY <1>4 DEF PrevOf
    <2>2. prev \in Ids /\ mem[prev].draft.topic = draft.topic /\ mem[j].rev <= mem[prev].rev
      BY <1>4, <2>1, NewestOfChain
    <2>3. mem[j].rev \in Nat /\ mem[prev].rev \in Nat /\ prev # 0
      BY <1>2, <1>4, <2>2, RowFacts DEF Chain
    <2> HIDE DEF prev
    <2>4. QED
      BY <1>3, <2>2, <2>3
  <1> HIDE DEF n, prev, row
  <1>5. \A j \in Ids : /\ SameContent(mem'[j], mem[j])
                       /\ mem[j].status \in Terminal => mem'[j].status \in Terminal
                       /\ j = prev => mem'[j].status \in Terminal
    <2>1. ASSUME NEW j \in Ids PROVE SameContent(SupersedePrev(j, n), mem[j]) /\ SupersedePrev(j, n).status \in Terminal
      BY <1>2, SupersedeRow
    <2>2. QED
      BY <1>1, <2>1 DEF SameContent
  <1>6. ASSUME NEW j \in Ids', NEW k \in Ids',
               mem'[j].draft.topic = mem'[k].draft.topic, mem'[j].rev < mem'[k].rev
        PROVE  mem'[j].status \in Terminal
    <2>1. CASE j \in Ids /\ k \in Ids
      BY <1>5, <1>6, <2>1 DEF OneCurrentRevision, SameContent
    <2>2. CASE j \in Ids /\ k = n
      <3>1. j \in Chain(draft.topic)
        BY <1>1, <1>3, <1>5, <1>6, <2>2 DEF Chain, SameContent
      <3>2. CASE j = prev
        BY <1>5, <2>2, <3>2
      <3>3. CASE j # prev
        <4>1. /\ prev \in Ids /\ mem[prev].draft.topic = draft.topic /\ mem[j].draft.topic = draft.topic
              /\ mem[j].rev <= mem[prev].rev
          BY <1>4, <3>1 DEF Chain
        <4>2. mem[j].rev < mem[prev].rev
          <5>1. j \in Nat /\ prev \in Nat /\ mem[j].rev \in Nat /\ mem[prev].rev \in Nat
            BY <1>2, <2>2, <4>1, RowFacts
          <5>2. mem[j].rev < mem[prev].rev \/ mem[prev].rev < mem[j].rev
            BY <2>2, <3>3, <4>1, <5>1 DEF MemInv, ChainsInv
          <5>3. QED
            BY <4>1, <5>1, <5>2
        <4>3. mem[j].status \in Terminal
          BY <2>2, <4>1, <4>2 DEF OneCurrentRevision
        <4>4. QED
          BY <1>5, <2>2, <4>3
      <3>4. QED
        BY <3>2, <3>3
    <2>3. CASE j = n
      <3>1. k = n \/ k \in Chain(draft.topic)
        BY <1>1, <1>3, <1>5, <1>6, <2>3 DEF Chain, SameContent
      <3>2. mem'[n].rev \in Nat
        BY <1>1 DEF Rows
      <3>3. k \in Chain(draft.topic)
        BY <1>6, <2>3, <3>1, <3>2
      <3>4. mem[k].rev < row.rev /\ mem[k].rev \in Nat /\ mem'[k].rev = mem[k].rev
        BY <1>4, <1>5, <3>3 DEF Chain, SameContent
      <3>5. QED
        BY <1>1, <1>6, <2>3, <3>2, <3>4
    <2>4. QED
      BY <1>1, <2>1, <2>2, <2>3
  <1>7. QED
    BY <1>6 DEF OneCurrentRevision

LEMMA NextCurrent ==
    ASSUME ~LegacyApprove, MemInv, OneCurrentRevision, [Next]_vars
    PROVE  OneCurrentRevision'
  <1>1. CASE QuietKind \/ ReopenStep
    BY <1>1 DEF QuietKind, ReopenStep, ReopenPeriod, OneCurrentRevision, Ids
  <1>2. CASE SaveKind
    BY <1>2, SaveWrite, SaveCurrent DEF SaveKind
  <1>3. CASE LinkKind
    <2>1. PICK i \in Ids, refs \in SUBSET Refs : Link(i, refs)
      BY <1>3 DEF LinkKind
    <2> DEFINE row == [mem[i] EXCEPT !.links = @ \cup refs]
    <2>2. Rewritten(i, row) /\ mem[i] \in Rows
      BY <2>1, LinkWrite, RowFacts DEF MemInv
    <2>3. row.status = mem[i].status
      BY <2>2 DEF Rows
    <2> HIDE DEF row
    <2>4. QED
      BY <2>2, <2>3, RewriteCurrent
  <1>4. CASE LegacyKind
    <2>1. PICK c \in calls : ApplyStatusTransition(c) \/ SupersedeExplicit(c)
      BY <1>4 DEF LegacyKind
    <2>2. /\ c.id \in Ids /\ c.to \in Statuses /\ c.to # "approved"
          /\ \E succ \in 0..Len(mem) : Rewritten(c.id, Moved(mem[c.id], c.to, succ))
      BY <2>1, LegacyWrites
    <2>3. c.to \in Terminal
      BY <2>1, <2>2 DEF Terminal, MemInv, CallsInv, ApplyStatusTransition, SupersedeExplicit
    <2>4. PICK succ \in 0..Len(mem) : Rewritten(c.id, Moved(mem[c.id], c.to, succ))
      BY <2>2
    <2>5. Moved(mem[c.id], c.to, succ).status = c.to
      BY <2>2, MovedRow, RowFacts DEF MemInv
    <2>6. QED
      BY <2>2, <2>3, <2>4, <2>5, RewriteCurrent
  <1>5. CASE ApproveStep \/ DecideStep
    <2>1. PICK p \in People, i \in Ids, verdict \in Verdicts, r \in Requests :
             \E acts \in SUBSET ({i} \X (Statuses \cup {"closed"})) :
                Decidable(p, i) /\ Decide(p, i, verdict, r, acts)
      BY <1>5, Decisions
    <2>2. Rewritten(i, Moved(mem[i], verdict, mem[i].succ))
      BY <2>1, DecisionWrites
    <2>3. mem[i].status \notin Terminal
      BY <2>1 DEF Decidable, Terminal
    <2>4. QED
      BY <2>2, <2>3, RewriteCurrent
  <1>6. QED
    BY <1>1, <1>2, <1>3, <1>4, <1>5, StepKinds DEF MemInv, TypeOK

\* THEOREM.  Where the deprecated approve route is off, a chain has one current
\* revision: stale legacy writes only make revisions terminal.
THEOREM CurrentRevision ==
    ASSUME ~LegacyApprove
    PROVE  Spec => []OneCurrentRevision
  <1>1. Init => OneCurrentRevision
    BY DEF Init, ChainsInit, OneCurrentRevision, Ids
  <1>2. MemInv /\ OneCurrentRevision /\ [Next]_vars => OneCurrentRevision'
    BY NextCurrent
  <1>3. QED
    BY <1>1, <1>2, MemInvHolds, PTL DEF Spec

-----------------------------------------------------------------------------
(* The period's closure *)

\* The close that closed the period is its approved, highest one, with event and
\* receipt; and so was every close that was reopened.
ClosureInv ==
    /\ closure.status = "closed" =>
          /\ closure.close \in Ids /\ IsCloseMemory(mem[closure.close])
          /\ mem[closure.close].status = "approved"
          /\ \A j \in Ids : mem[j].draft.topic = mem[closure.close].draft.topic
                                => mem[j].rev <= mem[closure.close].rev
          /\ \E e \in events : e.id = closure.close /\ e.action = "approved"
          /\ <<closure.close, "closed">> \in receipts
    /\ \A r \in reopens : <<r.close, "closed">> \in receipts

\* A pending memory is the highest of its chain.
LEMMA PendingIsHighest ==
    ASSUME MemInv, OneCurrentRevision, NEW i \in Ids, mem[i].status = "pending_review"
    PROVE  \A j \in Ids : mem[j].draft.topic = mem[i].draft.topic => mem[j].rev <= mem[i].rev
  <1> SUFFICES ASSUME NEW j \in Ids, mem[j].draft.topic = mem[i].draft.topic
               PROVE  mem[j].rev <= mem[i].rev
    OBVIOUS
  <1>1. mem[i].rev \in Nat /\ mem[j].rev \in Nat
    BY RowFacts DEF MemInv
  <1>2. ~(mem[i].rev < mem[j].rev)
    BY DEF OneCurrentRevision, Terminal
  <1>3. QED
    BY <1>1, <1>2

LEMMA DecisionClosure ==
    ASSUME MemInv, OneCurrentRevision, ClosureInv, ApproveStep \/ DecideStep
    PROVE  ClosureInv'
  <1>1. PICK p \in People, i \in Ids, verdict \in Verdicts, r \in Requests :
           \E acts \in SUBSET ({i} \X (Statuses \cup {"closed"})) :
              /\ Decidable(p, i) /\ Decide(p, i, verdict, r, acts)
              /\ verdict = "approved" => acts = ApprovalActs(i) /\ ProjectClosure(i)
              /\ verdict # "approved" => closure' = closure
    BY Decisions
  <1>2. PICK acts \in SUBSET ({i} \X (Statuses \cup {"closed"})) :
              /\ Decidable(p, i) /\ Decide(p, i, verdict, r, acts)
              /\ verdict = "approved" => acts = ApprovalActs(i) /\ ProjectClosure(i)
              /\ verdict # "approved" => closure' = closure
    BY <1>1
  <1> DEFINE row == Moved(mem[i], verdict, mem[i].succ)
             e   == DecisionEvent(p, i, verdict, r, row)
  <1>3. /\ Rewritten(i, row) /\ row.status = verdict
        /\ events' = events \cup {e} /\ receipts' = receipts \cup acts /\ UNCHANGED reopens
    BY <1>2, DecisionWrites
  <1>4. e.id = i /\ e.action = verdict
    BY DEF DecisionEvent
  <1> HIDE DEF row, e
  <1>5. mem[i].status = "pending_review"
    BY <1>2 DEF Decidable
  <1>6. Ids' = Ids /\ \A j \in Ids : SameContent(mem'[j], mem[j]) /\ (j # i => mem'[j] = mem[j])
    BY <1>3 DEF Rewritten, SameContent
  <1>7. \A q \in reopens' : <<q.close, "closed">> \in receipts'
    BY <1>3 DEF ClosureInv
  <1>8. CASE closure' = closure
    <2>1. closure.status = "closed" => closure.close # i
      BY <1>5 DEF ClosureInv
    <2>2. closure.status = "closed" => IsCloseMemory(mem'[closure.close])
      BY <1>6, <2>1 DEF ClosureInv
    <2>3. QED
      BY <1>3, <1>6, <1>7, <1>8, <2>1, <2>2 DEF ClosureInv, SameContent
  <1>9. CASE closure' # closure
    <2>1. /\ verdict = "approved" /\ IsCloseMemory(mem[i])
          /\ closure' = [status |-> "closed", close |-> i] /\ acts = ApprovalActs(i)
      BY <1>2, <1>9 DEF ProjectClosure
    <2>2. <<i, "closed">> \in receipts'
      BY <1>3, <2>1 DEF ApprovalActs
    <2>3. mem'[i].status = "approved" /\ IsCloseMemory(mem'[i])
      BY <1>3, <1>6, <2>1 DEF Rewritten, IsCloseMemory, SameContent
    <2>4. \A j \in Ids : mem'[j].draft.topic = mem'[i].draft.topic => mem'[j].rev <= mem'[i].rev
      BY <1>5, <1>6, PendingIsHighest DEF SameContent
    <2>5. QED
      BY <1>3, <1>4, <1>6, <1>7, <2>1, <2>2, <2>3, <2>4 DEF ClosureInv
  <1>10. QED
    BY <1>8, <1>9

LEMMA NextClosure ==
    ASSUME MemInv, OneCurrentRevision, ClosureInv, [Next]_vars
    PROVE  ClosureInv'
  <1>1. CASE QuietKind
    BY <1>1 DEF QuietKind, ClosureInv, Ids
  <1>2. CASE SaveKind \/ LinkKind \/ LegacyKind
    <2>1. PeriodOpen /\ closure' = closure /\ reopens' = reopens /\ \A act \in receipts : act \in receipts'
      BY <1>2, SaveTables, LegacyWrites DEF SaveKind, SaveRow, LinkKind, Link, LegacyKind
    <2>2. QED
      BY <2>1 DEF PeriodOpen, ClosureInv
  <1>3. CASE ApproveStep \/ DecideStep
    BY <1>3, DecisionClosure
  <1>4. CASE ReopenStep
    <2>1. PICK p \in People, i \in Ids, r \in Requests : ReopenPeriod(p, i, r)
      BY <1>4 DEF ReopenStep
    <2>2. /\ closure = [status |-> "closed", close |-> i]
          /\ closure' = [closure EXCEPT !.status = "reopened"]
          /\ reopens' = reopens \cup {[close |-> i, by |-> p, request |-> r]}
          /\ receipts' = receipts \cup {<<i, "reopened">>}
      BY <2>1 DEF ReopenPeriod
    <2>3. closure'.status # "closed" /\ <<i, "closed">> \in receipts
      BY <2>2 DEF ClosureInv
    <2>4. QED
      BY <2>2, <2>3 DEF ClosureInv
  <1>5. QED
    BY <1>1, <1>2, <1>3, <1>4, StepKinds DEF MemInv, TypeOK

\* THEOREM.  Where the deprecated approve route is off, a closed period is closed by
\* its current, approved close memory, with the approval event, and every reopened
\* close was closed with a receipt.
THEOREM ClosedByClose ==
    ASSUME ~LegacyApprove
    PROVE  Spec => []ClosedByApprovedClose
  <1>1. Init => OneCurrentRevision /\ ClosureInv
    BY DEF Init, ChainsInit, OneCurrentRevision, Ids, ClosureInv
  <1>2. MemInv /\ OneCurrentRevision /\ ClosureInv /\ [Next]_vars => OneCurrentRevision' /\ ClosureInv'
    BY NextCurrent, NextClosure
  <1>3. MemInv /\ ClosureInv => ClosedByApprovedClose
    <2> SUFFICES ASSUME MemInv, ClosureInv PROVE ClosedByApprovedClose
      OBVIOUS
    <2>1. closure.status = "closed" => closure.close = Newest(Chain(CloseTopic))
      <3> SUFFICES ASSUME closure.status = "closed" PROVE closure.close = Newest(Chain(CloseTopic))
        OBVIOUS
      <3>1. closure.close \in Ids /\ mem[closure.close].draft.topic = CloseTopic
        BY DEF ClosureInv, IsCloseMemory
      <3>2. closure.close = Newest(Chain(mem[closure.close].draft.topic))
        BY <3>1, HighestIsNewest DEF ClosureInv
      <3>3. QED
        BY <3>1, <3>2
    <2>2. QED
      BY <2>1 DEF ClosureInv, ClosedByApprovedClose, Decision
  <1>4. QED
    BY <1>1, <1>2, <1>3, MemInvHolds, PTL DEF Spec

-----------------------------------------------------------------------------
(* Synchronisation *)

\* Every run of either part is one of this instance, beside other writers.
Sync == INSTANCE SyncMerge WITH
    Quiet <- FALSE, MaxRevisions <- Revisions + 1, MaxRecords <- Records + 1,
    MaxRuns <- Runs, MaxCrashes <- Crashes

SyncRows      == [id : Nat, rev : Nat, status : Sync!Statuses, env : {"pending_review", "approved"}]
SyncRelations == Nat \X Nat \X {"supersedes", "conflicts_with"}
SyncRecords   == [id : Nat, from : Sync!Statuses, to : Sync!Statuses, by : Stores]

RowsMinted(list, minted) == \A n \in DOMAIN list : list[n].id \in 1..minted
RowsDiffer(list) == \A m, n \in DOMAIN list : list[m].id = list[n].id => m = n
IsHead(list, n) ==
    \A m \in DOMAIN list : list[m].rev < list[n].rev \/ (list[m].rev = list[n].rev /\ n <= m)
HasHead(list) == list = <<>> \/ \E n \in DOMAIN list : IsHead(list, n)
RelatesRows(rels, ids) == \A n \in DOMAIN rels : rels[n][1] \in ids /\ rels[n][2] \in ids
TellsOfRows(log, ids)  == \A n \in DOMAIN log : log[n].id \in ids
ImportedOnce(log, s)   == \A m, n \in DOMAIN log : log[m] = log[n] /\ log[m].by # s => m = n

\* What holds of the tables of store s.
StoreTyped(s, list, rels, log, minted) ==
    /\ list \in Seq(SyncRows) /\ rels \in Seq(SyncRelations) /\ log \in Seq(SyncRecords)
    /\ RowsMinted(list, minted) /\ RowsDiffer(list) /\ HasHead(list)
    /\ RelatesRows(rels, Sync!IdsOf(list)) /\ TellsOfRows(log, Sync!IdsOf(list))
    /\ ImportedOnce(log, s)

\* The same rows with other statuses.
Restated(after, list) ==
    /\ after \in Seq(SyncRows) /\ DOMAIN after = DOMAIN list
    /\ \A n \in DOMAIN list : after[n].id = list[n].id /\ after[n].rev = list[n].rev

LEMMA RestatedIds ==
    ASSUME NEW list, NEW after, Restated(after, list)
    PROVE  Sync!IdsOf(after) = Sync!IdsOf(list)
BY DEF Restated, Sync!IdsOf

LEMMA StoreRestated ==
    ASSUME NEW s, NEW list, NEW rels, NEW log, NEW minted, StoreTyped(s, list, rels, log, minted),
           NEW after, Restated(after, list)
    PROVE  StoreTyped(s, after, rels, log, minted)
<1>1. after \in Seq(SyncRows)
  BY DEF Restated
<1>2. RowsMinted(after, minted) /\ RowsDiffer(after)
  BY DEF Restated, StoreTyped, RowsMinted, RowsDiffer
<1>3. HasHead(after)
  <2>1. CASE list = <<>>
    <3>1. DOMAIN after = {}
      BY <2>1 DEF Restated
    <3>2. \A z : z \in Seq(SyncRows) /\ DOMAIN z = {} => z = <<>>
      <4>. HIDE DEF SyncRows
      <4>. QED  OBVIOUS
    <3>. QED  BY <1>1, <3>1, <3>2 DEF HasHead
  <2>2. ASSUME NEW n \in DOMAIN list, IsHead(list, n) PROVE IsHead(after, n) /\ n \in DOMAIN after
    BY <2>2 DEF Restated, IsHead
  <2>. QED  BY <2>1, <2>2 DEF StoreTyped, HasHead
<1>. QED  BY <1>1, <1>2, <1>3, RestatedIds DEF StoreTyped

LEMMA RowAppended ==
    ASSUME NEW list \in Seq(SyncRows), NEW row \in SyncRows
    PROVE  /\ Append(list, row) \in Seq(SyncRows) /\ Len(list) \in Nat /\ DOMAIN list = 1..Len(list)
           /\ DOMAIN Append(list, row) = 1..(Len(list) + 1) /\ Append(list, row)[Len(list) + 1] = row
           /\ \A n \in 1..Len(list) : Append(list, row)[n] = list[n]
           /\ Sync!IdsOf(Append(list, row)) = Sync!IdsOf(list) \cup {row.id}
<1>. DEFINE longer == Append(list, row)
<1>. HIDE DEF SyncRows
<1>1. /\ longer \in Seq(SyncRows) /\ Len(list) \in Nat /\ DOMAIN list = 1..Len(list)
      /\ DOMAIN longer = 1..(Len(list) + 1) /\ longer[Len(list) + 1] = row
      /\ \A n \in 1..Len(list) : longer[n] = list[n]
  OBVIOUS
<1>. HIDE DEF longer
<1>2. DOMAIN longer = DOMAIN list \cup {Len(list) + 1}
  BY <1>1
<1>3. Sync!IdsOf(longer) = Sync!IdsOf(list) \cup {row.id}
  BY <1>1, <1>2 DEF Sync!IdsOf
<1>. QED  BY <1>1, <1>3 DEF longer

LEMMA StoreGainsRow ==
    ASSUME NEW s, NEW list, NEW rels, NEW log, NEW minted, StoreTyped(s, list, rels, log, minted),
           NEW row \in SyncRows, row.id \notin Sync!IdsOf(list), row.id \in 1..minted
    PROVE  StoreTyped(s, Append(list, row), rels, log, minted)
<1>. DEFINE longer == Append(list, row)
<1>1. /\ longer \in Seq(SyncRows) /\ Len(list) \in Nat /\ DOMAIN list = 1..Len(list)
      /\ DOMAIN longer = 1..(Len(list) + 1) /\ longer[Len(list) + 1] = row
      /\ \A n \in 1..Len(list) : longer[n] = list[n]
      /\ Sync!IdsOf(longer) = Sync!IdsOf(list) \cup {row.id}
  BY RowAppended DEF StoreTyped
<1>. HIDE DEF longer
<1>2. DOMAIN longer = DOMAIN list \cup {Len(list) + 1}
  BY <1>1
<1>3. RowsMinted(longer, minted)
  BY <1>1, <1>2 DEF StoreTyped, RowsMinted
<1>4. \A n \in DOMAIN list : list[n].id # row.id
  BY DEF Sync!IdsOf
<1>5. RowsDiffer(longer)
  BY <1>1, <1>2, <1>4 DEF StoreTyped, RowsDiffer
<1>6. HasHead(longer)
  <2>. DEFINE last == Len(list) + 1
  <2>1. /\ \A n \in DOMAIN list : list[n].rev \in Nat /\ n < last /\ n \in Nat
        /\ row.rev \in Nat /\ last \in Nat
    <3>1. \A n \in DOMAIN list : list[n] \in SyncRows
      <4>. HIDE DEF SyncRows
      <4>. QED  BY DEF StoreTyped
    <3>. QED  BY <1>1, <3>1 DEF SyncRows
  <2>2. CASE list = <<>>
    BY <1>1, <1>2, <2>1, <2>2 DEF HasHead, IsHead
  <2>3. ASSUME NEW n \in DOMAIN list, IsHead(list, n) PROVE HasHead(longer)
    <3>1. CASE row.rev > list[n].rev
      <4>1. IsHead(longer, last)
        BY <1>1, <1>2, <2>1, <2>3, <3>1 DEF IsHead
      <4>. QED  BY <1>2, <4>1 DEF HasHead
    <3>2. CASE ~(row.rev > list[n].rev)
      <4>1. IsHead(longer, n)
        BY <1>1, <1>2, <2>1, <2>3, <3>2 DEF IsHead
      <4>. QED  BY <1>2, <4>1 DEF HasHead
    <3>. QED  BY <3>1, <3>2
  <2>. QED  BY <2>2, <2>3 DEF StoreTyped, HasHead
<1>7. RelatesRows(rels, Sync!IdsOf(longer)) /\ TellsOfRows(log, Sync!IdsOf(longer))
  BY <1>1 DEF StoreTyped, RelatesRows, TellsOfRows
<1>8. StoreTyped(s, longer, rels, log, minted)
  BY <1>1, <1>3, <1>5, <1>7, <1>6 DEF StoreTyped
<1>. QED  BY <1>8 DEF longer

LEMMA StoreGainsRelation ==
    ASSUME NEW s, NEW list, NEW rels, NEW log, NEW minted, StoreTyped(s, list, rels, log, minted),
           NEW r \in SyncRelations, r[1] \in Sync!IdsOf(list), r[2] \in Sync!IdsOf(list)
    PROVE  StoreTyped(s, list, Append(rels, r), log, minted)
<1>. HIDE DEF SyncRelations
<1>1. Append(rels, r) \in Seq(SyncRelations)
  BY DEF StoreTyped
<1>2. RelatesRows(Append(rels, r), Sync!IdsOf(list))
  BY DEF StoreTyped, RelatesRows
<1>. QED  BY <1>1, <1>2 DEF StoreTyped

LEMMA StoreGainsRecord ==
    ASSUME NEW s, NEW list, NEW rels, NEW log, NEW minted, StoreTyped(s, list, rels, log, minted),
           NEW record \in SyncRecords, record.id \in Sync!IdsOf(list),
           record.by = s \/ record \notin Sync!ToSet(log)
    PROVE  StoreTyped(s, list, rels, Append(log, record), minted)
<1>. DEFINE longer == Append(log, record)
<1>. HIDE DEF SyncRecords
<1>1. /\ longer \in Seq(SyncRecords) /\ Len(log) \in Nat /\ DOMAIN log = 1..Len(log)
      /\ DOMAIN longer = 1..(Len(log) + 1) /\ longer[Len(log) + 1] = record
      /\ \A n \in 1..Len(log) : longer[n] = log[n]
  BY DEF StoreTyped
<1>. HIDE DEF longer
<1>2. DOMAIN longer = DOMAIN log \cup {Len(log) + 1}
  BY <1>1
<1>3. TellsOfRows(longer, Sync!IdsOf(list))
  BY <1>1, <1>2 DEF StoreTyped, TellsOfRows
<1>4. record.by = s \/ \A n \in DOMAIN log : log[n] # record
  BY DEF Sync!ToSet
<1>5. ImportedOnce(longer, s)
  BY <1>1, <1>2, <1>4 DEF StoreTyped, ImportedOnce
<1>6. StoreTyped(s, list, rels, longer, minted)
  BY <1>1, <1>3, <1>5 DEF StoreTyped
<1>. QED  BY <1>6 DEF longer

LEMMA StoreSeesMint ==
    ASSUME NEW s, NEW list, NEW rels, NEW log, NEW minted \in Nat, StoreTyped(s, list, rels, log, minted),
           NEW later \in Nat, minted <= later
    PROVE  StoreTyped(s, list, rels, log, later)
<1>1. 1..minted \subseteq 1..later
  OBVIOUS
<1>2. RowsMinted(list, later)
  BY <1>1 DEF StoreTyped, RowsMinted
<1>. QED  BY <1>2 DEF StoreTyped

\* The row with an identifier, and with another status.
LEMMA RowFound ==
    ASSUME NEW list \in Seq(SyncRows), NEW i \in Sync!IdsOf(list)
    PROVE  \E n \in DOMAIN list : list[n].id = i /\ Sync!RowOf(list, i) = list[n]
<1>1. \E n \in DOMAIN list : list[n].id = i
  BY DEF Sync!IdsOf
<1>. QED  BY <1>1 DEF Sync!RowOf

LEMMA StatusSet ==
    ASSUME NEW list \in Seq(SyncRows), NEW i, NEW to \in Sync!Statuses
    PROVE  Restated(Sync!SetStatus(list, i, to), list)
<1>. DEFINE after == Sync!SetStatus(list, i, to)
<1>1. /\ DOMAIN after = DOMAIN list /\ Len(list) \in Nat /\ DOMAIN list = 1..Len(list)
      /\ \A n \in DOMAIN list : after[n] = IF list[n].id = i THEN [list[n] EXCEPT !.status = to] ELSE list[n]
  BY DEF Sync!SetStatus
<1>2. \A n \in DOMAIN list : list[n] \in SyncRows
  <2>. HIDE DEF SyncRows
  <2>. QED  OBVIOUS
<1>3. ASSUME NEW row \in SyncRows
      PROVE  /\ [row EXCEPT !.status = to] \in SyncRows
             /\ [row EXCEPT !.status = to].id = row.id /\ [row EXCEPT !.status = to].rev = row.rev
  BY DEF SyncRows
<1>4. ASSUME NEW n \in DOMAIN list
      PROVE  after[n] \in SyncRows /\ after[n].id = list[n].id /\ after[n].rev = list[n].rev
  BY <1>1, <1>2, <1>3
<1>5. after = [n \in 1..Len(list) |-> after[n]]
  BY <1>1 DEF Sync!SetStatus
<1>. HIDE DEF after
<1>6. after \in [1..Len(list) -> SyncRows]
  BY <1>1, <1>4, <1>5
<1>7. after \in Seq(SyncRows)
  <2>. HIDE DEF SyncRows
  <2>. QED  BY <1>1, <1>6
<1>8. Restated(after, list)
  BY <1>1, <1>4, <1>7 DEF Restated
<1>. QED  BY <1>8 DEF after

LEMMA HeadIsRow ==
    ASSUME NEW list, list # <<>>, HasHead(list)
    PROVE  \E n \in DOMAIN list : Sync!ChainHead(list) = list[n]
<1>1. \E n \in DOMAIN list : IsHead(list, n)
  BY DEF HasHead
<1>. QED  BY <1>1 DEF IsHead, Sync!ChainHead

-----------------------------------------------------------------------------
\* A run holds what it has read, and in its last phase the sink has every record of the
\* source that it read and is not still to import.
Todos    == Seq(SyncRows) \cup Seq(SyncRelations) \cup Seq(SyncRecords)
Phases   == {"rows", "relations", "trail", "done"}
ReplayRecords  == {Sync!NoReplay} \cup SyncRecords
Heads    == {<<>>} \cup (Nat \X Nat)
SyncRuns == [phase : Phases, from : Stores, to : Stores, todo : Todos, seen : Nat,
             replay : ReplayRecords, conflicts : SUBSET Nat, heads : Heads]

Carried(log, held, todo, seen) ==
    /\ seen \in 0..Len(log) /\ Len(todo) <= seen
    /\ \A n \in 1..Len(todo) : todo[n] = log[seen - Len(todo) + n]
    /\ \A m \in 1..(seen - Len(todo)) : log[m] \in Sync!ToSet(held)

HeadsHeld(heads, phase, todo, ids) ==
    heads # <<>> => /\ heads[1] \in ids
                    /\ heads[2] \in ids \/ (phase = "rows" /\ heads[2] \in Sync!IdsOf(todo))

\* What holds of a run into a sink with these rows and the log held, from a log.
RunTyped(g, ids, log, held, minted) ==
    /\ g \in SyncRuns /\ g.from # g.to
    /\ g.phase = "rows" => g.todo \in Seq(SyncRows) /\ RowsMinted(g.todo, minted)
    /\ g.phase = "relations" => g.todo \in Seq(SyncRelations)
    /\ g.phase = "trail" => g.todo \in Seq(SyncRecords)
    /\ g.phase = "done" => g.todo = <<>>
    /\ g.phase \in {"trail", "done"} => Carried(log, held, g.todo, g.seen)
    /\ HeadsHeld(g.heads, g.phase, g.todo, ids)

SyncTyped ==
    /\ rows \in [Stores -> Seq(SyncRows)] /\ relations \in [Stores -> Seq(SyncRelations)]
    /\ trail \in [Stores -> Seq(SyncRecords)] /\ knew \in Seq(SUBSET Nat)
    /\ \A s \in Stores : StoreTyped(s, rows[s], relations[s], trail[s], Len(knew))
    /\ run = Sync!NoRun \/
       RunTyped(run, Sync!IdsOf(rows[run.to]), trail[run.from], trail[run.to], Len(knew))

\* A log with records more.
Extends(longer, log) ==
    /\ Len(log) \in Nat /\ Len(longer) \in Nat /\ Len(log) <= Len(longer)
    /\ DOMAIN log = 1..Len(log) /\ DOMAIN longer = 1..Len(longer)
    /\ \A n \in 1..Len(log) : longer[n] = log[n]

LEMMA LogExtended ==
    ASSUME NEW log \in Seq(SyncRecords)
    PROVE  /\ Extends(log, log)
           /\ \A record \in SyncRecords : Extends(Append(log, record), log)
<1>. HIDE DEF SyncRecords
<1>. QED  BY DEF Extends

LEMMA ExtendedHolds ==
    ASSUME NEW log, NEW longer, Extends(longer, log) PROVE Sync!ToSet(log) \subseteq Sync!ToSet(longer)
<1>1. DOMAIN log \subseteq DOMAIN longer /\ \A n \in DOMAIN log : longer[n] = log[n]
  BY DEF Extends
<1>. QED  BY <1>1 DEF Sync!ToSet

LEMMA StillCarried ==
    ASSUME NEW log, NEW log2, NEW held, NEW held2, Extends(log2, log), Extends(held2, held),
           NEW todo, Len(todo) \in Nat, NEW seen, Carried(log, held, todo, seen)
    PROVE  Carried(log2, held2, todo, seen)
<1>1. Sync!ToSet(held) \subseteq Sync!ToSet(held2)
  BY ExtendedHolds
<1>2. seen \in 0..Len(log) /\ Len(todo) <= seen /\ Len(log) \in Nat /\ Len(log2) \in Nat /\ Len(log) <= Len(log2)
  BY DEF Carried, Extends
<1>3. seen \in 0..Len(log2)
  BY <1>2
<1>4. ASSUME NEW n \in 1..Len(todo) PROVE todo[n] = log2[seen - Len(todo) + n]
  <2>1. seen - Len(todo) + n \in 1..Len(log)
    BY <1>2
  <2>. QED  BY <2>1 DEF Carried, Extends
<1>5. ASSUME NEW m \in 1..(seen - Len(todo)) PROVE log2[m] \in Sync!ToSet(held2)
  <2>1. m \in 1..Len(log)
    BY <1>2
  <2>2. log2[m] = log[m] /\ log[m] \in Sync!ToSet(held)
    BY <2>1 DEF Carried, Extends
  <2>. QED  BY <1>1, <2>2
<1>. QED  BY <1>2, <1>3, <1>4, <1>5 DEF Carried

LEMMA TodoCounts == ASSUME NEW g \in SyncRuns PROVE Len(g.todo) \in Nat
<1>1. g.todo \in Todos
  BY DEF SyncRuns
<1>. HIDE DEF SyncRows, SyncRelations, SyncRecords
<1>. QED  BY <1>1 DEF Todos

LEMMA RunGrown ==
    ASSUME NEW g, NEW ids, NEW ids2, NEW log, NEW log2, NEW held, NEW held2, NEW minted \in Nat, NEW later \in Nat,
           RunTyped(g, ids, log, held, minted), ids \subseteq ids2, Extends(log2, log), Extends(held2, held),
           minted <= later
    PROVE  RunTyped(g, ids2, log2, held2, later)
<1>1. g \in SyncRuns /\ Len(g.todo) \in Nat
  BY TodoCounts DEF RunTyped
<1>2. 1..minted \subseteq 1..later
  OBVIOUS
<1>3. g.phase \in {"trail", "done"} => Carried(log2, held2, g.todo, g.seen)
  BY <1>1, StillCarried DEF RunTyped
<1>4. HeadsHeld(g.heads, g.phase, g.todo, ids2)
  BY DEF RunTyped, HeadsHeld
<1>5. g.phase = "rows" => RowsMinted(g.todo, later)
  BY <1>2 DEF RunTyped, RowsMinted
<1>. QED  BY <1>3, <1>4, <1>5 DEF RunTyped

\* One store changes: it stays typed, and it gains rows and records only.
StoreGains(s, list, rels, log, minted) ==
    /\ s \in Stores /\ list \in Seq(SyncRows) /\ rels \in Seq(SyncRelations) /\ log \in Seq(SyncRecords)
    /\ rows' = [rows EXCEPT ![s] = list] /\ relations' = [relations EXCEPT ![s] = rels]
    /\ trail' = [trail EXCEPT ![s] = log]
    /\ StoreTyped(s, list, rels, log, minted)
    /\ Sync!IdsOf(rows[s]) \subseteq Sync!IdsOf(list) /\ Extends(log, trail[s])

LEMMA StoreChanges ==
    ASSUME SyncTyped, NEW s, NEW list, NEW rels, NEW log, StoreGains(s, list, rels, log, Len(knew')),
           knew' \in Seq(SUBSET Nat), Len(knew) <= Len(knew')
    PROVE  /\ rows' \in [Stores -> Seq(SyncRows)] /\ relations' \in [Stores -> Seq(SyncRelations)]
           /\ trail' \in [Stores -> Seq(SyncRecords)]
           /\ rows'[s] = list /\ relations'[s] = rels /\ trail'[s] = log
           /\ \A t \in Stores : /\ t # s => trail'[t] = trail[t] /\ rows'[t] = rows[t]
                                /\ StoreTyped(t, rows'[t], relations'[t], trail'[t], Len(knew'))
                                /\ Sync!IdsOf(rows[t]) \subseteq Sync!IdsOf(rows'[t])
                                /\ Extends(trail'[t], trail[t])
<1>. HIDE DEF SyncRows, SyncRelations, SyncRecords
<1>1. /\ rows \in [Stores -> Seq(SyncRows)] /\ relations \in [Stores -> Seq(SyncRelations)]
      /\ trail \in [Stores -> Seq(SyncRecords)] /\ Len(knew) \in Nat /\ Len(knew') \in Nat
  BY DEF SyncTyped
<1>2. /\ rows' \in [Stores -> Seq(SyncRows)] /\ relations' \in [Stores -> Seq(SyncRelations)]
      /\ trail' \in [Stores -> Seq(SyncRecords)]
      /\ rows'[s] = list /\ relations'[s] = rels /\ trail'[s] = log
      /\ \A t \in Stores : t # s => rows'[t] = rows[t] /\ relations'[t] = relations[t] /\ trail'[t] = trail[t]
  BY <1>1 DEF StoreGains
<1>3. ASSUME NEW t \in Stores, t # s
      PROVE  /\ StoreTyped(t, rows'[t], relations'[t], trail'[t], Len(knew'))
             /\ Sync!IdsOf(rows[t]) \subseteq Sync!IdsOf(rows'[t]) /\ Extends(trail'[t], trail[t])
  <2>1. StoreTyped(t, rows[t], relations[t], trail[t], Len(knew)) /\ trail[t] \in Seq(SyncRecords)
    BY <1>1 DEF SyncTyped
  <2>2. StoreTyped(t, rows[t], relations[t], trail[t], Len(knew'))
    BY <1>1, <2>1, StoreSeesMint
  <2>3. Extends(trail[t], trail[t])
    BY <2>1, LogExtended
  <2>. QED  BY <1>2, <1>3, <2>2, <2>3
<1>4. /\ StoreTyped(s, rows'[s], relations'[s], trail'[s], Len(knew'))
      /\ Sync!IdsOf(rows[s]) \subseteq Sync!IdsOf(rows'[s]) /\ Extends(trail'[s], trail[s])
  BY <1>2 DEF StoreGains
<1>. QED  BY <1>2, <1>3, <1>4

\* What a user does to a store leaves the run where it is.
LEMMA LocalChange ==
    ASSUME SyncTyped, NEW s, NEW list, NEW rels, NEW log, StoreGains(s, list, rels, log, Len(knew')),
           knew' \in Seq(SUBSET Nat), Len(knew) <= Len(knew'), run' = run
    PROVE  SyncTyped'
<1>1. /\ rows' \in [Stores -> Seq(SyncRows)] /\ relations' \in [Stores -> Seq(SyncRelations)]
      /\ trail' \in [Stores -> Seq(SyncRecords)]
      /\ \A t \in Stores : /\ StoreTyped(t, rows'[t], relations'[t], trail'[t], Len(knew'))
                           /\ Sync!IdsOf(rows[t]) \subseteq Sync!IdsOf(rows'[t])
                           /\ Extends(trail'[t], trail[t])
  BY StoreChanges
<1>2. ASSUME run # Sync!NoRun
      PROVE  RunTyped(run, Sync!IdsOf(rows'[run.to]), trail'[run.from], trail'[run.to], Len(knew'))
  <2>1. RunTyped(run, Sync!IdsOf(rows[run.to]), trail[run.from], trail[run.to], Len(knew))
    BY <1>2 DEF SyncTyped
  <2>2. run.to \in Stores /\ run.from \in Stores
    BY <2>1 DEF RunTyped, SyncRuns
  <2>3. Len(knew) \in Nat /\ Len(knew') \in Nat
    BY DEF SyncTyped
  <2>. QED  BY <1>1, <2>1, <2>2, <2>3, RunGrown
<1>. QED  BY <1>1, <1>2 DEF SyncTyped

LEMMA StoreFacts ==
    ASSUME SyncTyped, NEW s \in Stores
    PROVE  /\ StoreTyped(s, rows[s], relations[s], trail[s], Len(knew))
           /\ rows[s] \in Seq(SyncRows) /\ relations[s] \in Seq(SyncRelations) /\ trail[s] \in Seq(SyncRecords)
           /\ Len(knew) \in Nat /\ Sync!IdsOf(rows[s]) \subseteq 1..Len(knew)
           /\ rows = [rows EXCEPT ![s] = rows[s]] /\ relations = [relations EXCEPT ![s] = relations[s]]
           /\ trail = [trail EXCEPT ![s] = trail[s]]
<1>. HIDE DEF SyncRows, SyncRelations, SyncRecords
<1>1. /\ StoreTyped(s, rows[s], relations[s], trail[s], Len(knew))
      /\ rows[s] \in Seq(SyncRows) /\ relations[s] \in Seq(SyncRelations) /\ trail[s] \in Seq(SyncRecords)
      /\ Len(knew) \in Nat
      /\ rows = [rows EXCEPT ![s] = rows[s]] /\ relations = [relations EXCEPT ![s] = relations[s]]
      /\ trail = [trail EXCEPT ![s] = trail[s]]
  BY DEF SyncTyped
<1>2. Sync!IdsOf(rows[s]) \subseteq 1..Len(knew)
  BY <1>1 DEF StoreTyped, RowsMinted, Sync!IdsOf
<1>. QED  BY <1>1, <1>2

\* A decision on row i: its status, the record of it and perhaps a relation.
LEMMA Decided ==
    ASSUME SyncTyped, NEW s \in Stores, NEW i \in Sync!IdsOf(rows[s]),
           NEW list, Restated(list, rows[s]), NEW from \in Sync!Statuses, NEW to \in Sync!Statuses,
           rows' = [rows EXCEPT ![s] = list],
           \/ relations' = relations
           \/ \E j \in Sync!IdsOf(rows[s]) :
                  relations' = [relations EXCEPT ![s] = Append(@, <<i, j, "supersedes">>)],
           trail' = [trail EXCEPT ![s] = Append(@, Sync!Record(s, i, from, to))],
           knew' = knew, run' = run
    PROVE  SyncTyped'
<1>. DEFINE record == Sync!Record(s, i, from, to)
            log == Append(trail[s], record)
<1>0. /\ StoreTyped(s, rows[s], relations[s], trail[s], Len(knew))
      /\ trail[s] \in Seq(SyncRecords) /\ relations[s] \in Seq(SyncRelations)
      /\ Len(knew) \in Nat /\ Sync!IdsOf(rows[s]) \subseteq 1..Len(knew)
      /\ relations = [relations EXCEPT ![s] = relations[s]]
  BY StoreFacts
<1>1. record \in SyncRecords /\ record.id = i /\ record.by = s
  BY <1>0 DEF SyncRecords, Sync!Record
<1>. HIDE DEF record
<1>2. Sync!IdsOf(list) = Sync!IdsOf(rows[s]) /\ list \in Seq(SyncRows)
  BY RestatedIds DEF Restated
<1>3. PICK rels : /\ relations' = [relations EXCEPT ![s] = rels]
                  /\ \/ rels = relations[s]
                     \/ \E j \in Sync!IdsOf(rows[s]) : rels = Append(relations[s], <<i, j, "supersedes">>)
  <2>1. CASE relations' = relations
    BY <1>0, <2>1
  <2>2. ASSUME NEW j \in Sync!IdsOf(rows[s]),
               relations' = [relations EXCEPT ![s] = Append(@, <<i, j, "supersedes">>)]
        PROVE  \E rels : /\ relations' = [relations EXCEPT ![s] = rels]
                         /\ \E k \in Sync!IdsOf(rows[s]) : rels = Append(relations[s], <<i, k, "supersedes">>)
    BY <2>2
  <2>. QED  BY <2>1, <2>2
<1>4. StoreTyped(s, list, relations[s], trail[s], Len(knew))
  BY <1>0, StoreRestated
<1>5. StoreTyped(s, list, rels, trail[s], Len(knew))
  <2>1. CASE rels = relations[s]
    BY <1>4, <2>1
  <2>2. ASSUME NEW j \in Sync!IdsOf(rows[s]), rels = Append(relations[s], <<i, j, "supersedes">>)
        PROVE  StoreTyped(s, list, rels, trail[s], Len(knew))
    <3>1. PICK link : link = <<i, j, "supersedes">>
      OBVIOUS
    <3>2. link \in SyncRelations /\ link[1] \in Sync!IdsOf(list) /\ link[2] \in Sync!IdsOf(list)
      BY <1>0, <1>2, <3>1 DEF SyncRelations
    <3>. QED  BY <1>4, <2>2, <3>1, <3>2, StoreGainsRelation
  <2>. QED  BY <1>3, <2>1, <2>2
<1>6. StoreTyped(s, list, rels, log, Len(knew))
  BY <1>1, <1>2, <1>5, StoreGainsRecord
<1>7. Extends(log, trail[s])
  BY <1>0, <1>1, LogExtended
<1>8. trail' = [trail EXCEPT ![s] = log]
  BY DEF record
<1>9. list \in Seq(SyncRows) /\ rels \in Seq(SyncRelations) /\ log \in Seq(SyncRecords)
  BY <1>6 DEF StoreTyped
<1>. HIDE DEF log
<1>10. StoreGains(s, list, rels, log, Len(knew'))
  BY <1>2, <1>3, <1>6, <1>7, <1>8, <1>9 DEF StoreGains
<1>11. knew' \in Seq(SUBSET Nat) /\ Len(knew) <= Len(knew')
  BY <1>0 DEF SyncTyped
<1>. QED  BY <1>10, <1>11, LocalChange

LEMMA ApproveTyped ==
    ASSUME SyncTyped, NEW s \in Stores, NEW i \in Sync!IdsOf(rows[s]), Sync!Approve(s, i) PROVE SyncTyped'
<1>. DEFINE list == [n \in DOMAIN rows[s] |->
                        IF rows[s][n].id = i THEN [rows[s][n] EXCEPT !.status = "approved", !.env = "approved"]
                        ELSE rows[s][n]]
<1>1. /\ rows' = [rows EXCEPT ![s] = list] /\ relations' = relations /\ knew' = knew /\ run' = run
      /\ trail' = [trail EXCEPT ![s] = Append(@, Sync!Record(s, i, "pending_review", "approved"))]
  BY DEF Sync!Approve
<1>2. rows[s] \in Seq(SyncRows)
  BY StoreFacts
<1>3. Restated(list, rows[s])
  <2>1. Len(rows[s]) \in Nat /\ DOMAIN rows[s] = 1..Len(rows[s]) /\ \A n \in DOMAIN rows[s] : rows[s][n] \in SyncRows
    <3>. HIDE DEF SyncRows
    <3>. QED  BY <1>2
  <2>2. ASSUME NEW row \in SyncRows
        PROVE  LET new == [row EXCEPT !.status = "approved", !.env = "approved"]
               IN  new \in SyncRows /\ new.id = row.id /\ new.rev = row.rev
    BY DEF SyncRows, Sync!Statuses, Sync!Live
  <2>3. ASSUME NEW n \in DOMAIN rows[s]
        PROVE  list[n] \in SyncRows /\ list[n].id = rows[s][n].id /\ list[n].rev = rows[s][n].rev
    BY <2>1, <2>2
  <2>4. DOMAIN list = 1..Len(rows[s]) /\ list = [n \in 1..Len(rows[s]) |-> list[n]]
    BY <2>1
  <2>. HIDE DEF list
  <2>5. list \in [1..Len(rows[s]) -> SyncRows]
    BY <2>1, <2>3, <2>4
  <2>6. list \in Seq(SyncRows)
    <3>. HIDE DEF SyncRows
    <3>. QED  BY <2>1, <2>5
  <2>. QED  BY <2>1, <2>3, <2>4, <2>6 DEF Restated
<1>. HIDE DEF list
<1>4. "pending_review" \in Sync!Statuses /\ "approved" \in Sync!Statuses
  BY DEF Sync!Statuses, Sync!Live
<1>. QED  BY <1>1, <1>3, <1>4, Decided

LEMMA StatusTyped ==
    ASSUME SyncTyped, NEW s \in Stores, NEW i \in Sync!IdsOf(rows[s]),
           \/ Sync!ApplyStatusTransition(s, i)
           \/ \E j \in Sync!IdsOf(rows[s]) : Sync!SupersedeExplicit(s, i, j)
    PROVE  SyncTyped'
<1>. DEFINE status == Sync!RowOf(rows[s], i).status
<1>1. PICK to \in {"voided", "superseded"} :
         /\ status \in Sync!Live /\ rows' = [rows EXCEPT ![s] = Sync!SetStatus(@, i, to)]
         /\ \/ relations' = relations
            \/ \E j \in Sync!IdsOf(rows[s]) :
                   relations' = [relations EXCEPT ![s] = Append(@, <<i, j, "supersedes">>)]
         /\ trail' = [trail EXCEPT ![s] = Append(@, Sync!Record(s, i, status, to))]
         /\ knew' = knew /\ run' = run
  <2>1. CASE Sync!ApplyStatusTransition(s, i)
    BY <2>1 DEF Sync!ApplyStatusTransition
  <2>2. ASSUME NEW j \in Sync!IdsOf(rows[s]), Sync!SupersedeExplicit(s, i, j)
        PROVE  /\ status \in Sync!Live /\ rows' = [rows EXCEPT ![s] = Sync!SetStatus(@, i, "superseded")]
               /\ relations' = [relations EXCEPT ![s] = Append(@, <<i, j, "supersedes">>)]
               /\ trail' = [trail EXCEPT ![s] = Append(@, Sync!Record(s, i, status, "superseded"))]
               /\ knew' = knew /\ run' = run
    BY <2>2 DEF Sync!SupersedeExplicit
  <2>. QED  BY <2>1, <2>2
<1>2. to \in Sync!Statuses /\ status \in Sync!Statuses
  BY <1>1 DEF Sync!Statuses
<1>3. PICK list : list = Sync!SetStatus(rows[s], i, to)
  OBVIOUS
<1>4. Restated(list, rows[s])
  BY <1>2, <1>3, StoreFacts, StatusSet
<1>5. rows' = [rows EXCEPT ![s] = list]
  BY <1>1, <1>3
<1>. HIDE DEF status
<1>. QED  BY <1>1, <1>2, <1>4, <1>5, Decided

LEMMA SaveTyped ==
    ASSUME SyncTyped, NEW s \in Stores, Sync!Save(s) PROVE SyncTyped'
<1>. DEFINE new == Len(knew) + 1
            prev == Sync!ChainHead(rows[s])
            row(rev) == [id |-> new, rev |-> rev, status |-> "pending_review", env |-> "pending_review"]
<1>0. /\ StoreTyped(s, rows[s], relations[s], trail[s], Len(knew))
      /\ rows[s] \in Seq(SyncRows) /\ relations[s] \in Seq(SyncRelations) /\ trail[s] \in Seq(SyncRecords)
      /\ Len(knew) \in Nat /\ Sync!IdsOf(rows[s]) \subseteq 1..Len(knew)
      /\ relations = [relations EXCEPT ![s] = relations[s]] /\ trail = [trail EXCEPT ![s] = trail[s]]
  BY StoreFacts
<1>1. /\ knew' = Append(knew, Sync!IdsOf(rows[s])) /\ run' = run
      /\ \/ /\ rows[s] = <<>> /\ rows' = [rows EXCEPT ![s] = <<row(1)>>]
            /\ relations' = relations /\ trail' = trail
         \/ /\ rows[s] # <<>> /\ prev.status \in Sync!Live
            /\ rows' = [rows EXCEPT ![s] = Append(Sync!SetStatus(@, prev.id, "superseded"), row(prev.rev + 1))]
            /\ relations' = [relations EXCEPT ![s] = Append(@, <<prev.id, new, "supersedes">>)]
            /\ trail' = [trail EXCEPT ![s] = Append(@, Sync!Record(s, prev.id, prev.status, "superseded"))]
         \/ /\ rows[s] # <<>> /\ rows' = [rows EXCEPT ![s] = Append(@, row(prev.rev + 1))]
            /\ relations' = relations /\ trail' = trail
  BY DEF Sync!Save
<1>2. new \in Nat /\ new \in 1..new /\ Len(knew) <= new /\ new \notin Sync!IdsOf(rows[s])
  BY <1>0
<1>3. /\ knew' \in Seq(SUBSET Nat) /\ Len(knew') = new
  <2>1. Sync!IdsOf(rows[s]) \in SUBSET Nat /\ knew \in Seq(SUBSET Nat)
    BY <1>0 DEF SyncTyped
  <2>. QED  BY <1>1, <2>1
<1>. HIDE DEF new
<1>4. ASSUME NEW rev \in Nat
      PROVE  row(rev) \in SyncRows /\ row(rev).id = new
  BY <1>2 DEF SyncRows, Sync!Statuses, Sync!Live
<1>5. StoreTyped(s, rows[s], relations[s], trail[s], new)
  BY <1>0, <1>2, StoreSeesMint
<1>6. rows[s] # <<>> => /\ prev \in SyncRows /\ prev.id \in Sync!IdsOf(rows[s])
                        /\ prev.id \in Nat /\ prev.rev \in Nat
  <2>1. SUFFICES ASSUME rows[s] # <<>> PROVE prev \in SyncRows /\ prev.id \in Sync!IdsOf(rows[s])
    BY DEF SyncRows
  <2>2. PICK n \in DOMAIN rows[s] : prev = rows[s][n]
    BY <1>0, <2>1, HeadIsRow DEF StoreTyped
  <2>3. rows[s][n] \in SyncRows
    <3>. HIDE DEF SyncRows
    <3>. QED  BY <1>0
  <2>. QED  BY <2>2, <2>3 DEF Sync!IdsOf
<1>. HIDE DEF row, prev
\* A row on top of the rows, as they are or restated.
<1>7. ASSUME NEW base, Restated(base, rows[s]), NEW rev \in Nat
      PROVE  /\ StoreTyped(s, Append(base, row(rev)), relations[s], trail[s], new)
             /\ Sync!IdsOf(Append(base, row(rev))) = Sync!IdsOf(rows[s]) \cup {new}
  <2>1. StoreTyped(s, base, relations[s], trail[s], new) /\ Sync!IdsOf(base) = Sync!IdsOf(rows[s])
    BY <1>5, <1>7, StoreRestated, RestatedIds
  <2>2. row(rev) \in SyncRows /\ row(rev).id = new /\ base \in Seq(SyncRows)
    BY <1>4, <1>7 DEF Restated
  <2>3. PICK r \in SyncRows : r = row(rev) /\ r.id = new
    BY <2>2
  <2>4. StoreTyped(s, Append(base, r), relations[s], trail[s], new)
    BY <1>2, <2>1, <2>3, StoreGainsRow
  <2>5. Sync!IdsOf(Append(base, r)) = Sync!IdsOf(base) \cup {r.id}
    BY <2>2, RowAppended
  <2>. QED  BY <2>1, <2>3, <2>4, <2>5
<1>8. Restated(rows[s], rows[s]) /\ Extends(trail[s], trail[s])
  BY <1>0, LogExtended DEF Restated
<1>9. CASE rows[s] = <<>> /\ rows' = [rows EXCEPT ![s] = <<row(1)>>] /\ relations' = relations /\ trail' = trail
  <2>1. <<row(1)>> = Append(rows[s], row(1))
    BY <1>9
  <2>2. PICK list : list = Append(rows[s], row(1))
    OBVIOUS
  <2>3. StoreTyped(s, list, relations[s], trail[s], new) /\ Sync!IdsOf(rows[s]) \subseteq Sync!IdsOf(list)
    BY <1>7, <1>8, <2>2
  <2>4. rows' = [rows EXCEPT ![s] = list]
    BY <1>9, <2>1, <2>2
  <2>5. StoreGains(s, list, relations[s], trail[s], new)
    BY <1>0, <1>8, <1>9, <2>3, <2>4 DEF StoreGains, StoreTyped
  <2>. QED  BY <1>1, <1>2, <1>3, <2>5, LocalChange
<1>10. CASE /\ rows[s] # <<>> /\ rows' = [rows EXCEPT ![s] = Append(@, row(prev.rev + 1))]
            /\ relations' = relations /\ trail' = trail
  <2>1. prev.rev + 1 \in Nat
    BY <1>6, <1>10
  <2>2. PICK list : list = Append(rows[s], row(prev.rev + 1))
    OBVIOUS
  <2>3. StoreTyped(s, list, relations[s], trail[s], new) /\ Sync!IdsOf(rows[s]) \subseteq Sync!IdsOf(list)
    BY <1>7, <1>8, <2>1, <2>2
  <2>4. rows' = [rows EXCEPT ![s] = list]
    BY <1>10, <2>2
  <2>5. StoreGains(s, list, relations[s], trail[s], new)
    BY <1>0, <1>8, <1>10, <2>3, <2>4 DEF StoreGains, StoreTyped
  <2>. QED  BY <1>1, <1>2, <1>3, <2>5, LocalChange
<1>11. CASE /\ rows[s] # <<>> /\ prev.status \in Sync!Live
            /\ rows' = [rows EXCEPT ![s] = Append(Sync!SetStatus(@, prev.id, "superseded"), row(prev.rev + 1))]
            /\ relations' = [relations EXCEPT ![s] = Append(@, <<prev.id, new, "supersedes">>)]
            /\ trail' = [trail EXCEPT ![s] = Append(@, Sync!Record(s, prev.id, prev.status, "superseded"))]
  <2>1. PICK base : base = Sync!SetStatus(rows[s], prev.id, "superseded")
    OBVIOUS
  <2>2. Restated(base, rows[s])
    BY <1>0, <2>1, StatusSet DEF Sync!Statuses
  <2>3. PICK list : list = Append(base, row(prev.rev + 1))
    OBVIOUS
  <2>4. /\ StoreTyped(s, list, relations[s], trail[s], new)
        /\ Sync!IdsOf(list) = Sync!IdsOf(rows[s]) \cup {new}
    BY <1>6, <1>7, <1>11, <2>2, <2>3
  <2>5. PICK link : link = <<prev.id, new, "supersedes">>
    OBVIOUS
  <2>6. link \in SyncRelations /\ link[1] \in Sync!IdsOf(list) /\ link[2] \in Sync!IdsOf(list)
    BY <1>2, <1>6, <1>11, <2>4, <2>5 DEF SyncRelations
  <2>7. StoreTyped(s, list, Append(relations[s], link), trail[s], new)
    BY <2>4, <2>6, StoreGainsRelation
  <2>8. PICK record : record = Sync!Record(s, prev.id, prev.status, "superseded")
    OBVIOUS
  <2>9. record \in SyncRecords /\ record.id \in Sync!IdsOf(list) /\ record.by = s
    BY <1>6, <1>11, <2>4, <2>8 DEF SyncRecords, Sync!Record, Sync!Statuses
  <2>10. StoreTyped(s, list, Append(relations[s], link), Append(trail[s], record), new)
    BY <2>7, <2>9, StoreGainsRecord
  <2>11. Extends(Append(trail[s], record), trail[s])
    BY <1>0, <2>9, LogExtended
  <2>12. /\ rows' = [rows EXCEPT ![s] = list]
         /\ relations' = [relations EXCEPT ![s] = Append(relations[s], link)]
         /\ trail' = [trail EXCEPT ![s] = Append(trail[s], record)]
    BY <1>11, <2>1, <2>3, <2>5, <2>8
  <2>13. StoreGains(s, list, Append(relations[s], link), Append(trail[s], record), new)
    BY <2>4, <2>10, <2>11, <2>12 DEF StoreGains, StoreTyped
  <2>. QED  BY <1>1, <1>2, <1>3, <2>13, LocalChange
<1>. QED  BY <1>1, <1>9, <1>10, <1>11

-----------------------------------------------------------------------------
\* The run h is g at another place.
MovedOn(h, g, phase, todo, seen, replay) ==
    /\ h \in SyncRuns /\ h.from = g.from /\ h.to = g.to /\ h.heads = g.heads
    /\ h.phase = phase /\ h.todo = todo /\ h.seen = seen /\ h.replay = replay

LEMMA RunMoves ==
    ASSUME NEW g \in SyncRuns, NEW phase \in Phases, NEW todo \in Todos, NEW seen \in Nat,
           NEW replay \in ReplayRecords, NEW i \in Nat
    PROVE  /\ MovedOn([g EXCEPT !.todo = todo], g, g.phase, todo, g.seen, g.replay)
           /\ MovedOn([[g EXCEPT !.todo = todo] EXCEPT !.conflicts = @ \cup {i}],
                      g, g.phase, todo, g.seen, g.replay)
           /\ MovedOn([g EXCEPT !.phase = phase, !.todo = todo], g, phase, todo, g.seen, g.replay)
           /\ MovedOn([g EXCEPT !.phase = phase, !.todo = todo, !.seen = seen], g, phase, todo, seen, g.replay)
           /\ MovedOn([[g EXCEPT !.todo = todo] EXCEPT !.replay = replay], g, g.phase, todo, g.seen, replay)
           /\ MovedOn([g EXCEPT !.replay = replay], g, g.phase, g.todo, g.seen, replay)
           /\ MovedOn([g EXCEPT !.phase = phase], g, phase, g.todo, g.seen, g.replay)
<1>1. MovedOn([g EXCEPT !.todo = todo], g, g.phase, todo, g.seen, g.replay)
  BY DEF MovedOn, SyncRuns
<1>2. MovedOn([[g EXCEPT !.todo = todo] EXCEPT !.conflicts = @ \cup {i}],
              g, g.phase, todo, g.seen, g.replay)
  BY DEF MovedOn, SyncRuns
<1>3. MovedOn([g EXCEPT !.phase = phase, !.todo = todo], g, phase, todo, g.seen, g.replay)
  BY DEF MovedOn, SyncRuns
<1>4. MovedOn([g EXCEPT !.phase = phase, !.todo = todo, !.seen = seen], g, phase, todo, seen, g.replay)
  BY DEF MovedOn, SyncRuns
<1>5. MovedOn([[g EXCEPT !.todo = todo] EXCEPT !.replay = replay], g, g.phase, todo, g.seen, replay)
  BY DEF MovedOn, SyncRuns
<1>6. MovedOn([g EXCEPT !.replay = replay], g, g.phase, g.todo, g.seen, replay)
  BY DEF MovedOn, SyncRuns
<1>7. MovedOn([g EXCEPT !.phase = phase], g, phase, g.todo, g.seen, g.replay)
  BY DEF MovedOn, SyncRuns
<1>. QED  BY <1>1, <1>2, <1>3, <1>4, <1>5, <1>6, <1>7

LEMMA Taken ==
    ASSUME NEW Items, NEW todo \in Seq(Items), todo # <<>>
    PROVE  /\ Head(todo) \in Items /\ Tail(todo) \in Seq(Items)
           /\ Len(todo) \in Nat /\ Len(todo) >= 1 /\ Len(Tail(todo)) = Len(todo) - 1
           /\ Head(todo) = todo[1] /\ DOMAIN todo = 1..Len(todo) /\ DOMAIN Tail(todo) = 1..(Len(todo) - 1)
           /\ \A n \in 1..(Len(todo) - 1) : Tail(todo)[n] = todo[n + 1]
OBVIOUS

LEMMA ItemsFit ==
    /\ Seq(SyncRows) \subseteq Todos /\ Seq(SyncRelations) \subseteq Todos /\ Seq(SyncRecords) \subseteq Todos
BY DEF Todos

LEMMA RunFacts ==
    ASSUME SyncTyped, run.phase # "idle"
    PROVE  /\ RunTyped(run, Sync!IdsOf(rows[run.to]), trail[run.from], trail[run.to], Len(knew))
           /\ run \in SyncRuns /\ run.to \in Stores /\ run.from \in Stores /\ run.from # run.to
<1>1. run # Sync!NoRun
  BY DEF Sync!NoRun
<1>2. RunTyped(run, Sync!IdsOf(rows[run.to]), trail[run.from], trail[run.to], Len(knew))
  BY <1>1 DEF SyncTyped
<1>. QED  BY <1>2 DEF RunTyped, SyncRuns

\* A step of the run that writes to its sink.
LEMMA SinkChange ==
    ASSUME SyncTyped, run.phase # "idle", NEW list, NEW rels, NEW log,
           StoreGains(run.to, list, rels, log, Len(knew)), knew' = knew,
           \/ run' = Sync!NoRun
           \/ /\ run'.from = run.from /\ run'.to = run.to
              /\ RunTyped(run', Sync!IdsOf(list), trail[run.from], log, Len(knew))
    PROVE  SyncTyped'
<1>1. run.to \in Stores /\ run.from \in Stores /\ run.from # run.to /\ Len(knew) \in Nat
      /\ knew' \in Seq(SUBSET Nat) /\ Len(knew) <= Len(knew')
  BY RunFacts DEF SyncTyped
<1>2. StoreGains(run.to, list, rels, log, Len(knew'))
  OBVIOUS
<1>3. PICK s : s = run.to
  OBVIOUS
<1>4. /\ rows' \in [Stores -> Seq(SyncRows)] /\ relations' \in [Stores -> Seq(SyncRelations)]
      /\ trail' \in [Stores -> Seq(SyncRecords)]
      /\ rows'[s] = list /\ trail'[s] = log
      /\ \A t \in Stores : /\ t # s => trail'[t] = trail[t]
                           /\ StoreTyped(t, rows'[t], relations'[t], trail'[t], Len(knew'))
  BY <1>1, <1>2, <1>3, StoreChanges
<1>5. run' = Sync!NoRun \/
      RunTyped(run', Sync!IdsOf(rows'[run'.to]), trail'[run'.from], trail'[run'.to], Len(knew'))
  BY <1>1, <1>3, <1>4
<1>. QED  BY <1>1, <1>4, <1>5 DEF SyncTyped

LEMMA RunChange ==
    ASSUME SyncTyped, UNCHANGED <<rows, relations, trail, knew>>,
           \/ run' = Sync!NoRun
           \/ RunTyped(run', Sync!IdsOf(rows[run'.to]), trail[run'.from], trail[run'.to], Len(knew))
    PROVE  SyncTyped'
BY DEF SyncTyped

\* The sink as it is gains nothing.
LEMMA SinkStays ==
    ASSUME SyncTyped, NEW s \in Stores
    PROVE  /\ UNCHANGED <<rows, relations, trail>> => StoreGains(s, rows[s], relations[s], trail[s], Len(knew))
           /\ \A list : /\ rows' = [rows EXCEPT ![s] = list] /\ UNCHANGED <<relations, trail>>
                        /\ StoreTyped(s, list, relations[s], trail[s], Len(knew))
                        /\ Sync!IdsOf(rows[s]) \subseteq Sync!IdsOf(list)
                    => StoreGains(s, list, relations[s], trail[s], Len(knew))
           /\ \A rels : /\ relations' = [relations EXCEPT ![s] = rels] /\ UNCHANGED <<rows, trail>>
                        /\ StoreTyped(s, rows[s], rels, trail[s], Len(knew))
                    => StoreGains(s, rows[s], rels, trail[s], Len(knew))
           /\ \A log : /\ trail' = [trail EXCEPT ![s] = log] /\ UNCHANGED <<rows, relations>>
                       /\ StoreTyped(s, rows[s], relations[s], log, Len(knew)) /\ Extends(log, trail[s])
                    => StoreGains(s, rows[s], relations[s], log, Len(knew))
<1>1. /\ StoreTyped(s, rows[s], relations[s], trail[s], Len(knew))
      /\ rows = [rows EXCEPT ![s] = rows[s]] /\ relations = [relations EXCEPT ![s] = relations[s]]
      /\ trail = [trail EXCEPT ![s] = trail[s]] /\ Extends(trail[s], trail[s])
  BY StoreFacts, LogExtended
<1>2. /\ rows[s] \in Seq(SyncRows) /\ relations[s] \in Seq(SyncRelations) /\ trail[s] \in Seq(SyncRecords)
  BY StoreFacts
<1>. HIDE DEF SyncRows, SyncRelations, SyncRecords
<1>3. UNCHANGED <<rows, relations, trail>> => StoreGains(s, rows[s], relations[s], trail[s], Len(knew))
  BY <1>1, <1>2 DEF StoreGains
<1>4. ASSUME NEW list, rows' = [rows EXCEPT ![s] = list], UNCHANGED <<relations, trail>>,
             StoreTyped(s, list, relations[s], trail[s], Len(knew)),
             Sync!IdsOf(rows[s]) \subseteq Sync!IdsOf(list)
      PROVE  StoreGains(s, list, relations[s], trail[s], Len(knew))
  <2>1. list \in Seq(SyncRows)
    BY <1>4 DEF StoreTyped
  <2>. QED  BY <1>1, <1>2, <1>4, <2>1 DEF StoreGains
<1>5. ASSUME NEW rels, relations' = [relations EXCEPT ![s] = rels], UNCHANGED <<rows, trail>>,
             StoreTyped(s, rows[s], rels, trail[s], Len(knew))
      PROVE  StoreGains(s, rows[s], rels, trail[s], Len(knew))
  <2>1. rels \in Seq(SyncRelations)
    BY <1>5 DEF StoreTyped
  <2>. QED  BY <1>1, <1>2, <1>5, <2>1 DEF StoreGains
<1>6. ASSUME NEW log, trail' = [trail EXCEPT ![s] = log], UNCHANGED <<rows, relations>>,
             StoreTyped(s, rows[s], relations[s], log, Len(knew)), Extends(log, trail[s])
      PROVE  StoreGains(s, rows[s], relations[s], log, Len(knew))
  <2>1. log \in Seq(SyncRecords)
    BY <1>6 DEF StoreTyped
  <2>. QED  BY <1>1, <1>2, <1>6, <2>1 DEF StoreGains
<1>. QED  BY <1>3, <1>4, <1>5, <1>6

LEMMA BeginTyped ==
    ASSUME SyncTyped, NEW a \in Stores, NEW b \in Stores, Sync!Begin(a, b) PROVE SyncTyped'
<1>1. /\ StoreTyped(a, rows[a], relations[a], trail[a], Len(knew)) /\ rows[a] \in Seq(SyncRows)
      /\ Sync!IdsOf(rows[a]) \subseteq 1..Len(knew) /\ Len(knew) \in Nat
      /\ StoreTyped(b, rows[b], relations[b], trail[b], Len(knew)) /\ rows[b] \in Seq(SyncRows)
      /\ Sync!IdsOf(rows[b]) \subseteq 1..Len(knew)
  BY StoreFacts
<1>2. ASSUME NEW s \in {a, b}, rows[s] # <<>>
      PROVE  Sync!ChainHead(rows[s]).id \in Sync!IdsOf(rows[s])
  <2>1. PICK n \in DOMAIN rows[s] : Sync!ChainHead(rows[s]) = rows[s][n]
    BY <1>1, <1>2, HeadIsRow DEF StoreTyped
  <2>. QED  BY <2>1 DEF Sync!IdsOf
<1>3. PICK heads : heads = IF Sync!Diverged(rows[a], rows[b])
                           THEN <<Sync!ChainHead(rows[b]).id, Sync!ChainHead(rows[a]).id>> ELSE <<>>
  OBVIOUS
<1>4. heads \in Heads /\ (heads # <<>> => heads[1] \in Sync!IdsOf(rows[b]) /\ heads[2] \in Sync!IdsOf(rows[a]))
  <2>1. CASE Sync!Diverged(rows[a], rows[b])
    <3>1. rows[a] # <<>> /\ rows[b] # <<>>
      BY <2>1 DEF Sync!Diverged
    <3>2. /\ Sync!ChainHead(rows[b]).id \in Sync!IdsOf(rows[b]) /\ Sync!ChainHead(rows[b]).id \in Nat
          /\ Sync!ChainHead(rows[a]).id \in Sync!IdsOf(rows[a]) /\ Sync!ChainHead(rows[a]).id \in Nat
      BY <1>1, <1>2, <3>1
    <3>. QED  BY <1>3, <2>1, <3>2 DEF Heads
  <2>2. CASE ~Sync!Diverged(rows[a], rows[b])
    BY <1>3, <2>2 DEF Heads
  <2>. QED  BY <2>1, <2>2
<1>5. /\ run' = [phase |-> "rows", from |-> a, to |-> b, todo |-> rows[a], seen |-> 0,
                 replay |-> Sync!NoReplay, conflicts |-> {}, heads |-> heads]
      /\ a # b /\ UNCHANGED <<rows, relations, trail, knew>>
  BY <1>3 DEF Sync!Begin
<1>6. run' \in SyncRuns
  <2>1. rows[a] \in Todos
    BY <1>1, ItemsFit
  <2>. QED  BY <1>4, <1>5, <2>1 DEF SyncRuns, Phases, ReplayRecords
<1>7. RowsMinted(rows[a], Len(knew))
  BY <1>1 DEF StoreTyped
<1>8. RunTyped(run', Sync!IdsOf(rows[b]), trail[a], trail[b], Len(knew))
  <2>1. run'.phase = "rows" /\ run'.from = a /\ run'.to = b /\ run'.todo = rows[a] /\ run'.heads = heads
    BY <1>5
  <2>. QED  BY <1>1, <1>4, <1>5, <1>6, <1>7, <2>1 DEF RunTyped, HeadsHeld
<1>9. run'.from = a /\ run'.to = b
  BY <1>5
<1>. QED  BY <1>5, <1>8, <1>9, RunChange

LEMMA FinishTyped ==
    ASSUME SyncTyped, Sync!Finish \/ Sync!Crash PROVE SyncTyped'
<1>1. run' = Sync!NoRun /\ UNCHANGED <<rows, relations, trail, knew>>
  BY DEF Sync!Finish, Sync!Crash
<1>. QED  BY <1>1, RunChange

LEMMA ReadRelationsTyped ==
    ASSUME SyncTyped, Sync!ReadRelations PROVE SyncTyped'
<1>1. /\ run.phase = "rows" /\ run.todo = <<>>
      /\ run' = [run EXCEPT !.phase = "relations", !.todo = relations[run.from]]
      /\ UNCHANGED <<rows, relations, trail, knew>>
  BY DEF Sync!ReadRelations
<1>2. /\ RunTyped(run, Sync!IdsOf(rows[run.to]), trail[run.from], trail[run.to], Len(knew))
      /\ run \in SyncRuns /\ run.to \in Stores /\ run.from \in Stores
  BY <1>1, RunFacts
<1>3. relations[run.from] \in Seq(SyncRelations)
  BY <1>2, StoreFacts
<1>4. relations[run.from] \in Todos /\ "relations" \in Phases /\ run.seen \in Nat /\ run.replay \in ReplayRecords
  BY <1>2, <1>3, ItemsFit DEF Phases, SyncRuns
<1>5. MovedOn(run', run, "relations", relations[run.from], run.seen, run.replay)
  BY <1>1, <1>2, <1>4, RunMoves
<1>6. Sync!IdsOf(run.todo) = {}
  BY <1>1 DEF Sync!IdsOf
<1>7. HeadsHeld(run'.heads, "relations", run'.todo, Sync!IdsOf(rows[run.to]))
  BY <1>1, <1>2, <1>5, <1>6 DEF RunTyped, HeadsHeld, MovedOn
<1>8. RunTyped(run', Sync!IdsOf(rows[run.to]), trail[run.from], trail[run.to], Len(knew))
  BY <1>2, <1>3, <1>5, <1>7 DEF RunTyped, MovedOn
<1>9. run'.from = run.from /\ run'.to = run.to
  BY <1>5 DEF MovedOn
<1>. QED  BY <1>1, <1>8, <1>9, RunChange

LEMMA ReadTrailTyped ==
    ASSUME SyncTyped, Sync!ReadTrail PROVE SyncTyped'
<1>. DEFINE log == trail[run.from]
<1>1. /\ run.phase = "relations"
      /\ run' = [run EXCEPT !.phase = "trail", !.todo = log, !.seen = Len(log)]
      /\ UNCHANGED <<rows, relations, trail, knew>>
  BY DEF Sync!ReadTrail
<1>2. /\ RunTyped(run, Sync!IdsOf(rows[run.to]), trail[run.from], trail[run.to], Len(knew))
      /\ run \in SyncRuns /\ run.to \in Stores /\ run.from \in Stores
  BY <1>1, RunFacts
<1>3. log \in Seq(SyncRecords)
  BY <1>2, StoreFacts
<1>4. Len(log) \in Nat
  <2>. HIDE DEF SyncRecords
  <2>. QED  BY <1>3
<1>5. log \in Todos /\ "trail" \in Phases /\ run.replay \in ReplayRecords
  BY <1>2, <1>3, ItemsFit DEF Phases, SyncRuns
<1>6. MovedOn(run', run, "trail", log, Len(log), run.replay)
  BY <1>1, <1>2, <1>4, <1>5, RunMoves
<1>7. Carried(log, trail[run.to], log, Len(log))
  BY <1>4 DEF Carried
<1>8. HeadsHeld(run'.heads, "trail", run'.todo, Sync!IdsOf(rows[run.to]))
  BY <1>1, <1>2, <1>6 DEF RunTyped, HeadsHeld, MovedOn
<1>9. RunTyped(run', Sync!IdsOf(rows[run.to]), trail[run.from], trail[run.to], Len(knew))
  BY <1>2, <1>3, <1>6, <1>7, <1>8 DEF RunTyped, MovedOn
<1>10. run'.from = run.from /\ run'.to = run.to
  BY <1>6 DEF MovedOn
<1>. QED  BY <1>1, <1>9, <1>10, RunChange

LEMMA LinkHeadsTyped ==
    ASSUME SyncTyped, Sync!LinkHeads PROVE SyncTyped'
<1>1. /\ run.phase = "trail" /\ run.todo = <<>>
      /\ run' = [run EXCEPT !.phase = "done"] /\ UNCHANGED <<rows, trail, knew>>
      /\ \/ relations' = relations
         \/ /\ run.heads # <<>>
            /\ relations' = [relations EXCEPT ![run.to] = Append(@, <<run.heads[1], run.heads[2], "conflicts_with">>)]
  BY DEF Sync!LinkHeads
<1>2. /\ RunTyped(run, Sync!IdsOf(rows[run.to]), trail[run.from], trail[run.to], Len(knew))
      /\ run \in SyncRuns /\ run.to \in Stores /\ run.from \in Stores /\ run.phase # "idle"
  BY <1>1, RunFacts
<1>3. "done" \in Phases /\ run.seen \in Nat /\ run.replay \in ReplayRecords /\ run.todo \in Todos
      /\ run.heads \in Heads
  BY <1>2 DEF Phases, SyncRuns
<1>4. MovedOn(run', run, "done", run.todo, run.seen, run.replay)
  BY <1>1, <1>2, <1>3, RunMoves
<1>5. /\ run'.from = run.from /\ run'.to = run.to
      /\ RunTyped(run', Sync!IdsOf(rows[run.to]), trail[run.from], trail[run.to], Len(knew))
  BY <1>1, <1>2, <1>4 DEF RunTyped, HeadsHeld, MovedOn
<1>6. /\ StoreTyped(run.to, rows[run.to], relations[run.to], trail[run.to], Len(knew))
      /\ Sync!IdsOf(rows[run.to]) \subseteq 1..Len(knew) /\ Len(knew) \in Nat
  BY <1>2, StoreFacts
<1>7. CASE relations' = relations
  <2>1. StoreGains(run.to, rows[run.to], relations[run.to], trail[run.to], Len(knew))
    BY <1>1, <1>2, <1>7, SinkStays
  <2>. QED  BY <1>1, <1>2, <1>5, <2>1, SinkChange
<1>8. CASE /\ run.heads # <<>>
           /\ relations' = [relations EXCEPT ![run.to] = Append(@, <<run.heads[1], run.heads[2], "conflicts_with">>)]
  <2>1. PICK link : link = <<run.heads[1], run.heads[2], "conflicts_with">>
    OBVIOUS
  <2>2. run.heads[1] \in Sync!IdsOf(rows[run.to]) /\ run.heads[2] \in Sync!IdsOf(rows[run.to])
    BY <1>1, <1>2, <1>8 DEF RunTyped, HeadsHeld
  <2>3. link \in SyncRelations /\ link[1] \in Sync!IdsOf(rows[run.to]) /\ link[2] \in Sync!IdsOf(rows[run.to])
    BY <1>6, <2>1, <2>2 DEF SyncRelations
  <2>4. PICK rels : rels = Append(relations[run.to], link)
    OBVIOUS
  <2>5. StoreTyped(run.to, rows[run.to], rels, trail[run.to], Len(knew))
    BY <1>6, <2>3, <2>4, StoreGainsRelation
  <2>6. relations' = [relations EXCEPT ![run.to] = rels]
    BY <1>8, <2>1, <2>4
  <2>7. StoreGains(run.to, rows[run.to], rels, trail[run.to], Len(knew))
    BY <1>1, <1>2, <2>5, <2>6, SinkStays
  <2>. QED  BY <1>1, <1>2, <1>5, <2>7, SinkChange
<1>. QED  BY <1>1, <1>7, <1>8

\* The record at the front of what is still to import has been imported.
LEMMA CarriedNext ==
    ASSUME NEW log \in Seq(SyncRecords), NEW held, NEW todo \in Seq(SyncRecords), NEW seen \in Nat,
           Carried(log, held, todo, seen), todo # <<>>, Head(todo) \in Sync!ToSet(held)
    PROVE  Carried(log, held, Tail(todo), seen)
<1>. DEFINE n == Len(todo)
            rest == Tail(todo)
<1>1. /\ n \in Nat /\ n >= 1 /\ Len(rest) = n - 1 /\ Head(todo) = todo[1]
      /\ \A m \in 1..(n - 1) : rest[m] = todo[m + 1]
  BY Taken
<1>2. /\ seen \in 0..Len(log) /\ n <= seen /\ \A m \in 1..n : todo[m] = log[seen - n + m]
      /\ \A m \in 1..(seen - n) : log[m] \in Sync!ToSet(held)
  BY DEF Carried
<1>. HIDE DEF n, rest
<1>3. Len(rest) <= seen /\ seen - Len(rest) = seen - n + 1
  BY <1>1, <1>2
<1>4. ASSUME NEW m \in 1..Len(rest) PROVE rest[m] = log[seen - Len(rest) + m]
  <2>1. m \in 1..(n - 1) /\ m + 1 \in 1..n /\ seen - n + (m + 1) = seen - Len(rest) + m
    BY <1>1, <1>2
  <2>2. rest[m] = todo[m + 1] /\ todo[m + 1] = log[seen - n + (m + 1)]
    BY <1>1, <1>2, <2>1
  <2>. QED  BY <2>1, <2>2
<1>5. ASSUME NEW m \in 1..(seen - Len(rest)) PROVE log[m] \in Sync!ToSet(held)
  <2>1. m \in 1..(seen - n) \/ m = seen - n + 1
    BY <1>1, <1>2, <1>3
  <2>2. CASE m = seen - n + 1
    BY <1>1, <1>2, <2>2
  <2>. QED  BY <1>2, <2>1, <2>2
<1>6. Carried(log, held, rest, seen)
  BY <1>2, <1>3, <1>4, <1>5 DEF Carried
<1>. QED  BY <1>6 DEF rest

LEMMA ImportObservationTyped ==
    ASSUME SyncTyped, Sync!ImportObservation PROVE SyncTyped'
<1>1. run.phase = "rows" /\ run.todo # <<>> /\ UNCHANGED <<relations, trail, knew>>
  BY DEF Sync!ImportObservation, Sync!Working
<1>2. /\ RunTyped(run, Sync!IdsOf(rows[run.to]), trail[run.from], trail[run.to], Len(knew))
      /\ run \in SyncRuns /\ run.to \in Stores /\ run.from \in Stores /\ run.phase # "idle"
  BY <1>1, RunFacts
<1>3. run.todo \in Seq(SyncRows) /\ RowsMinted(run.todo, Len(knew))
  BY <1>1, <1>2 DEF RunTyped
<1>4. PICK row : row = Head(run.todo)
  OBVIOUS
<1>5. PICK rest : rest = Tail(run.todo)
  OBVIOUS
<1>6. /\ row \in SyncRows /\ rest \in Seq(SyncRows) /\ Len(run.todo) \in Nat /\ Len(run.todo) >= 1
      /\ row = run.todo[1] /\ DOMAIN run.todo = 1..Len(run.todo) /\ DOMAIN rest = 1..(Len(run.todo) - 1)
      /\ \A n \in 1..(Len(run.todo) - 1) : rest[n] = run.todo[n + 1]
  BY <1>1, <1>3, <1>4, <1>5, Taken
<1>7. row.id \in 1..Len(knew) /\ RowsMinted(rest, Len(knew)) /\ Sync!IdsOf(run.todo) \subseteq Sync!IdsOf(rest) \cup {row.id}
  <2>1. 1 \in DOMAIN run.todo
    BY <1>6
  <2>2. \A n \in DOMAIN rest : n + 1 \in DOMAIN run.todo
    BY <1>6
  <2>3. \A n \in DOMAIN run.todo : n = 1 \/ (n - 1 \in DOMAIN rest /\ run.todo[n] = rest[n - 1])
    BY <1>6
  <2>4. row.id \in 1..Len(knew)
    BY <1>3, <1>6, <2>1 DEF RowsMinted
  <2>5. RowsMinted(rest, Len(knew))
    BY <1>3, <1>6, <2>2 DEF RowsMinted
  <2>6. Sync!IdsOf(run.todo) \subseteq Sync!IdsOf(rest) \cup {row.id}
    BY <1>6, <2>3 DEF Sync!IdsOf
  <2>. QED  BY <2>4, <2>5, <2>6
<1>8. rest \in Todos /\ row.id \in Nat /\ run.phase \in Phases /\ run.seen \in Nat /\ run.replay \in ReplayRecords
  BY <1>2, <1>6, ItemsFit DEF SyncRuns, SyncRows
\* Where the run goes, once the sink has the row.
<1>9. ASSUME NEW ids, Sync!IdsOf(rows[run.to]) \subseteq ids, row.id \in ids,
             run' = Sync!NextItem \/ run' = [Sync!NextItem EXCEPT !.conflicts = @ \cup {row.id}]
      PROVE  /\ run'.from = run.from /\ run'.to = run.to
             /\ RunTyped(run', ids, trail[run.from], trail[run.to], Len(knew))
  <2>1. run' = [run EXCEPT !.todo = rest] \/ run' = [[run EXCEPT !.todo = rest] EXCEPT !.conflicts = @ \cup {row.id}]
    BY <1>5, <1>9 DEF Sync!NextItem
  <2>2. MovedOn(run', run, run.phase, rest, run.seen, run.replay)
    <3>1. /\ MovedOn([run EXCEPT !.todo = rest], run, run.phase, rest, run.seen, run.replay)
          /\ MovedOn([[run EXCEPT !.todo = rest] EXCEPT !.conflicts = @ \cup {row.id}],
                     run, run.phase, rest, run.seen, run.replay)
      BY <1>2, <1>8, RunMoves
    <3>. QED  BY <2>1, <3>1
  <2>3. HeadsHeld(run'.heads, "rows", rest, ids)
    BY <1>1, <1>2, <1>7, <1>9, <2>2 DEF RunTyped, HeadsHeld, MovedOn
  <2>. QED  BY <1>1, <1>2, <1>6, <1>7, <2>2, <2>3 DEF RunTyped, MovedOn
<1>10. PICK s : s = run.to
  OBVIOUS
<1>11. /\ StoreTyped(s, rows[s], relations[s], trail[s], Len(knew)) /\ rows[s] \in Seq(SyncRows)
       /\ Len(knew) \in Nat
  BY <1>2, <1>10, StoreFacts
<1>12. CASE row.id \notin Sync!IdsOf(rows[s])
  <2>1. rows' = [rows EXCEPT ![run.to] = Append(@, row)] /\ run' = Sync!NextItem
    BY <1>4, <1>10, <1>12 DEF Sync!ImportObservation, Sync!Sink
  <2>2. PICK list : list = Append(rows[s], row)
    OBVIOUS
  <2>3. StoreTyped(s, list, relations[s], trail[s], Len(knew))
    BY <1>6, <1>7, <1>11, <1>12, <2>2, StoreGainsRow
  <2>4. Sync!IdsOf(list) = Sync!IdsOf(rows[s]) \cup {row.id}
    BY <1>6, <1>11, <2>2, RowAppended
  <2>5. rows' = [rows EXCEPT ![s] = list]
    BY <1>10, <2>1, <2>2
  <2>6. StoreGains(s, list, relations[s], trail[s], Len(knew))
    BY <1>1, <1>2, <1>10, <2>3, <2>4, <2>5, SinkStays
  <2>7. /\ run'.from = run.from /\ run'.to = run.to
        /\ RunTyped(run', Sync!IdsOf(list), trail[run.from], trail[run.to], Len(knew))
    BY <1>9, <1>10, <2>1, <2>4
  <2>. QED  BY <1>1, <1>2, <1>10, <2>6, <2>7, SinkChange
<1>13. CASE row.id \in Sync!IdsOf(rows[s])
  <2>1. /\ rows' = rows
        /\ run' = Sync!NextItem \/ run' = [Sync!NextItem EXCEPT !.conflicts = @ \cup {row.id}]
    BY <1>4, <1>10, <1>13 DEF Sync!ImportObservation, Sync!Sink
  <2>2. /\ run'.from = run.from /\ run'.to = run.to
        /\ RunTyped(run', Sync!IdsOf(rows[run.to]), trail[run.from], trail[run.to], Len(knew))
    BY <1>9, <1>10, <1>13, <2>1
  <2>. QED  BY <1>1, <2>1, <2>2, RunChange
<1>. QED  BY <1>12, <1>13

LEMMA ImportRelationTyped ==
    ASSUME SyncTyped, Sync!ImportRelation PROVE SyncTyped'
<1>1. run.phase = "relations" /\ run.todo # <<>> /\ UNCHANGED <<rows, trail, knew>>
  BY DEF Sync!ImportRelation, Sync!Working
<1>2. /\ RunTyped(run, Sync!IdsOf(rows[run.to]), trail[run.from], trail[run.to], Len(knew))
      /\ run \in SyncRuns /\ run.to \in Stores /\ run.from \in Stores /\ run.phase # "idle"
  BY <1>1, RunFacts
<1>3. PICK r : r = Head(run.todo)
  OBVIOUS
<1>4. PICK rest : rest = Tail(run.todo)
  OBVIOUS
<1>5. r \in SyncRelations /\ rest \in Seq(SyncRelations)
  <2>1. run.todo \in Seq(SyncRelations)
    BY <1>1, <1>2 DEF RunTyped
  <2>. QED  BY <1>1, <1>3, <1>4, <2>1, Taken
<1>6. rest \in Todos /\ run.phase \in Phases /\ run.seen \in Nat /\ run.replay \in ReplayRecords
  BY <1>2, <1>5, ItemsFit DEF SyncRuns
<1>7. ASSUME run' = Sync!NextItem
      PROVE  /\ run'.from = run.from /\ run'.to = run.to
             /\ RunTyped(run', Sync!IdsOf(rows[run.to]), trail[run.from], trail[run.to], Len(knew))
  <2>1. MovedOn(run', run, run.phase, rest, run.seen, run.replay)
    BY <1>2, <1>4, <1>6, <1>7, RunMoves DEF Sync!NextItem
  <2>. QED  BY <1>1, <1>2, <1>5, <2>1 DEF RunTyped, HeadsHeld, MovedOn
<1>8. CASE relations' = relations /\ run' \in {Sync!NextItem, Sync!NoRun}
  BY <1>1, <1>7, <1>8, RunChange
<1>9. CASE /\ {r[1], r[2]} \subseteq Sync!IdsOf(rows[run.to]) /\ run' = Sync!NextItem
           /\ relations' = [relations EXCEPT ![run.to] = Append(@, r)]
  <2>1. StoreTyped(run.to, rows[run.to], relations[run.to], trail[run.to], Len(knew))
    BY <1>2, StoreFacts
  <2>2. PICK rels : rels = Append(relations[run.to], r)
    OBVIOUS
  <2>3. StoreTyped(run.to, rows[run.to], rels, trail[run.to], Len(knew))
    BY <1>5, <1>9, <2>1, <2>2, StoreGainsRelation
  <2>4. relations' = [relations EXCEPT ![run.to] = rels]
    BY <1>9, <2>2
  <2>5. StoreGains(run.to, rows[run.to], rels, trail[run.to], Len(knew))
    BY <1>1, <1>2, <2>3, <2>4, SinkStays
  <2>. QED  BY <1>1, <1>2, <1>7, <1>9, <2>5, SinkChange
<1>10. \/ relations' = relations /\ run' \in {Sync!NextItem, Sync!NoRun}
       \/ /\ {r[1], r[2]} \subseteq Sync!IdsOf(rows[run.to]) /\ run' = Sync!NextItem
          /\ relations' = [relations EXCEPT ![run.to] = Append(@, r)]
  BY <1>3 DEF Sync!ImportRelation, Sync!Sink
<1>. QED  BY <1>8, <1>9, <1>10

LEMMA ApplyImportedStatusTyped ==
    ASSUME SyncTyped, Sync!ApplyImportedStatus PROVE SyncTyped'
<1>1. /\ run.phase = "trail" /\ run.replay # Sync!NoReplay
      /\ rows' = [rows EXCEPT ![run.to] = Sync!SetStatus(@, run.replay.id, run.replay.to)]
      /\ run' = [run EXCEPT !.replay = Sync!NoReplay]
      /\ UNCHANGED <<relations, trail, knew>>
  BY DEF Sync!ApplyImportedStatus
<1>2. /\ RunTyped(run, Sync!IdsOf(rows[run.to]), trail[run.from], trail[run.to], Len(knew))
      /\ run \in SyncRuns /\ run.to \in Stores /\ run.from \in Stores /\ run.phase # "idle"
  BY <1>1, RunFacts
<1>3. run.replay.to \in Sync!Statuses
  BY <1>1, <1>2 DEF SyncRuns, ReplayRecords, SyncRecords
<1>4. PICK list : list = Sync!SetStatus(rows[run.to], run.replay.id, run.replay.to)
  OBVIOUS
<1>5. /\ rows[run.to] \in Seq(SyncRows)
      /\ StoreTyped(run.to, rows[run.to], relations[run.to], trail[run.to], Len(knew))
  BY <1>2, StoreFacts
<1>6. Restated(list, rows[run.to])
  BY <1>3, <1>4, <1>5, StatusSet
<1>7. /\ StoreTyped(run.to, list, relations[run.to], trail[run.to], Len(knew))
      /\ Sync!IdsOf(list) = Sync!IdsOf(rows[run.to])
  BY <1>5, <1>6, StoreRestated, RestatedIds
<1>8. rows' = [rows EXCEPT ![run.to] = list]
  BY <1>1, <1>4
<1>9. StoreGains(run.to, list, relations[run.to], trail[run.to], Len(knew))
  BY <1>1, <1>2, <1>7, <1>8, SinkStays
<1>10. Sync!NoReplay \in ReplayRecords /\ run.todo \in Todos /\ run.phase \in Phases /\ run.seen \in Nat
  BY <1>2 DEF ReplayRecords, SyncRuns
<1>11. MovedOn(run', run, run.phase, run.todo, run.seen, Sync!NoReplay)
  BY <1>1, <1>2, <1>10, RunMoves
<1>12. /\ run'.from = run.from /\ run'.to = run.to
       /\ RunTyped(run', Sync!IdsOf(list), trail[run.from], trail[run.to], Len(knew))
  BY <1>1, <1>2, <1>7, <1>11 DEF RunTyped, HeadsHeld, MovedOn
<1>. QED  BY <1>1, <1>2, <1>9, <1>12, SinkChange

LEMMA ImportTransitionTyped ==
    ASSUME SyncTyped, Sync!ImportTransition PROVE SyncTyped'
<1>1. run.phase = "trail" /\ run.todo # <<>> /\ UNCHANGED <<rows, relations, knew>>
  BY DEF Sync!ImportTransition, Sync!Working
<1>2. /\ RunTyped(run, Sync!IdsOf(rows[run.to]), trail[run.from], trail[run.to], Len(knew))
      /\ run \in SyncRuns /\ run.to \in Stores /\ run.from \in Stores /\ run.phase # "idle"
      /\ run.from # run.to
  BY <1>1, RunFacts
<1>3. run.todo \in Seq(SyncRecords)
  BY <1>1, <1>2 DEF RunTyped
<1>4. PICK record : record = Head(run.todo)
  OBVIOUS
<1>5. PICK rest : rest = Tail(run.todo)
  OBVIOUS
<1>6. record \in SyncRecords /\ rest \in Seq(SyncRecords)
  BY <1>1, <1>3, <1>4, <1>5, Taken
<1>7. rest \in Todos /\ run.phase \in Phases /\ run.seen \in Nat /\ run.replay \in ReplayRecords /\ record \in ReplayRecords
  BY <1>2, <1>6, ItemsFit DEF SyncRuns, ReplayRecords
<1>8. /\ StoreTyped(run.to, rows[run.to], relations[run.to], trail[run.to], Len(knew))
      /\ trail[run.to] \in Seq(SyncRecords) /\ trail[run.from] \in Seq(SyncRecords)
  BY <1>2, StoreFacts
\* Where the run goes, once the sink's log has the record.
<1>9. ASSUME NEW log, Extends(log, trail[run.to]), record \in Sync!ToSet(log),
             run' = Sync!NextItem \/ run' = [Sync!NextItem EXCEPT !.replay = record]
      PROVE  /\ run'.from = run.from /\ run'.to = run.to
             /\ RunTyped(run', Sync!IdsOf(rows[run.to]), trail[run.from], log, Len(knew))
  <2>1. run' = [run EXCEPT !.todo = rest] \/ run' = [[run EXCEPT !.todo = rest] EXCEPT !.replay = record]
    BY <1>5, <1>9 DEF Sync!NextItem
  <2>2. MovedOn(run', run, run.phase, rest, run.seen, run.replay) \/ MovedOn(run', run, run.phase, rest, run.seen, record)
    <3>1. /\ MovedOn([run EXCEPT !.todo = rest], run, run.phase, rest, run.seen, run.replay)
          /\ MovedOn([[run EXCEPT !.todo = rest] EXCEPT !.replay = record],
                     run, run.phase, rest, run.seen, record)
      BY <1>2, <1>7, RunMoves
    <3>. QED  BY <2>1, <3>1
  <2>3. Carried(trail[run.from], log, run.todo, run.seen)
    <3>1. Len(run.todo) \in Nat /\ Extends(trail[run.from], trail[run.from])
      BY <1>2, <1>8, TodoCounts, LogExtended
    <3>2. Carried(trail[run.from], trail[run.to], run.todo, run.seen)
      BY <1>1, <1>2 DEF RunTyped
    <3>. QED  BY <1>9, <3>1, <3>2, StillCarried
  <2>4. Carried(trail[run.from], log, rest, run.seen)
    BY <1>1, <1>3, <1>4, <1>5, <1>7, <1>8, <1>9, <2>3, CarriedNext
  <2>. QED  BY <1>1, <1>2, <1>6, <2>2, <2>4 DEF RunTyped, HeadsHeld, MovedOn
<1>10. CASE record \in Sync!ToSet(trail[run.to])
  <2>1. run' = Sync!NextItem /\ trail' = trail
    BY <1>4, <1>10 DEF Sync!ImportTransition
  <2>2. Extends(trail[run.to], trail[run.to])
    BY <1>8, LogExtended
  <2>. QED  BY <1>1, <1>9, <1>10, <2>1, <2>2, RunChange
<1>11. CASE record \notin Sync!ToSet(trail[run.to]) /\ record.id \notin Sync!IdsOf(rows[run.to])
  <2>1. run' = Sync!NoRun /\ trail' = trail
    BY <1>4, <1>11 DEF Sync!ImportTransition, Sync!Sink
  <2>. QED  BY <1>1, <2>1, RunChange
<1>12. CASE record \notin Sync!ToSet(trail[run.to]) /\ record.id \in Sync!IdsOf(rows[run.to])
  <2>1. /\ trail' = [trail EXCEPT ![run.to] = Append(@, record)]
        /\ run' = Sync!NextItem \/ run' = [Sync!NextItem EXCEPT !.replay = record]
    BY <1>4, <1>12 DEF Sync!ImportTransition, Sync!Sink
  <2>2. PICK log : log = Append(trail[run.to], record)
    OBVIOUS
  <2>3. Extends(log, trail[run.to]) /\ record \in Sync!ToSet(log)
    <3>1. Extends(log, trail[run.to])
      BY <1>6, <1>8, <2>2, LogExtended
    <3>2. Len(trail[run.to]) \in Nat /\ Len(log) = Len(trail[run.to]) + 1
          /\ log[Len(trail[run.to]) + 1] = record
      <4>. HIDE DEF SyncRecords
      <4>. QED  BY <1>6, <1>8, <2>2
    <3>3. Len(trail[run.to]) + 1 \in DOMAIN log
      BY <3>1, <3>2 DEF Extends
    <3>. QED  BY <3>1, <3>2, <3>3 DEF Sync!ToSet
  <2>4. StoreTyped(run.to, rows[run.to], relations[run.to], log, Len(knew))
    BY <1>6, <1>8, <1>12, <2>2, StoreGainsRecord
  <2>5. trail' = [trail EXCEPT ![run.to] = log]
    BY <2>1, <2>2
  <2>6. StoreGains(run.to, rows[run.to], relations[run.to], log, Len(knew))
    BY <1>1, <1>2, <2>3, <2>4, <2>5, SinkStays
  <2>7. /\ run'.from = run.from /\ run'.to = run.to
        /\ RunTyped(run', Sync!IdsOf(rows[run.to]), trail[run.from], log, Len(knew))
    BY <1>9, <2>1, <2>3
  <2>. QED  BY <1>1, <1>2, <2>6, <2>7, SinkChange
<1>. QED  BY <1>10, <1>11, <1>12

LEMMA SyncStays ==
    SyncTyped /\ [Sync!Next]_(Sync!vars) => SyncTyped'
<1>. SUFFICES ASSUME SyncTyped, [Sync!Next]_(Sync!vars) PROVE SyncTyped'
  OBVIOUS
<1>1. CASE Sync!LocalStep
  <2>1. PICK s \in Stores :
           \/ Sync!Save(s)
           \/ \E i \in Sync!IdsOf(rows[s]) :
                 \/ Sync!Approve(s, i)
                 \/ Sync!ApplyStatusTransition(s, i)
                 \/ \E j \in Sync!IdsOf(rows[s]) : Sync!SupersedeExplicit(s, i, j)
    BY <1>1 DEF Sync!LocalStep
  <2>. QED  BY <2>1, SaveTyped, ApproveTyped, StatusTyped
<1>2. CASE \E a, b \in Stores : Sync!Begin(a, b)
  BY <1>2, BeginTyped
<1>3. CASE Sync!RowStep
  BY <1>3, ImportObservationTyped, ReadRelationsTyped DEF Sync!RowStep
<1>4. CASE Sync!RelationStep
  BY <1>4, ImportRelationTyped, ReadTrailTyped, LinkHeadsTyped DEF Sync!RelationStep
<1>5. CASE Sync!TrailStep
  BY <1>5, ImportTransitionTyped, ApplyImportedStatusTyped DEF Sync!TrailStep
<1>6. CASE Sync!Finish \/ Sync!Crash
  BY <1>6, FinishTyped
<1>7. CASE UNCHANGED Sync!vars
  BY <1>7, RunChange DEF Sync!vars, SyncTyped
<1>. QED  BY <1>1, <1>2, <1>3, <1>4, <1>5, <1>6, <1>7 DEF Sync!Next

LEMMA SyncStarts ==
    ASSUME Calm!Init PROVE SyncTyped
<1>1. /\ rows = [s \in Stores |-> <<>>] /\ relations = [s \in Stores |-> <<>>]
      /\ trail = [s \in Stores |-> <<>>] /\ knew = <<>> /\ run = Sync!NoRun
  BY DEF Calm!Init, Calm!NoRun, Sync!NoRun
<1>2. <<>> \in Seq(SyncRows) /\ <<>> \in Seq(SyncRelations) /\ <<>> \in Seq(SyncRecords) /\ <<>> \in Seq(SUBSET Nat)
  <2>. HIDE DEF SyncRows, SyncRelations, SyncRecords
  <2>. QED  OBVIOUS
<1>3. \A s \in Stores : StoreTyped(s, rows[s], relations[s], trail[s], Len(knew))
  BY <1>1, <1>2 DEF StoreTyped, RowsMinted, RowsDiffer, HasHead, RelatesRows, TellsOfRows, ImportedOnce
<1>4. /\ rows \in [Stores -> Seq(SyncRows)] /\ relations \in [Stores -> Seq(SyncRelations)]
      /\ trail \in [Stores -> Seq(SyncRecords)]
  <2>. HIDE DEF SyncRows, SyncRelations, SyncRecords
  <2>. QED  BY <1>1, <1>2
<1>. QED  BY <1>1, <1>2, <1>3, <1>4 DEF SyncTyped

\* What the invariant says of the tables.
LEMMA SyncTypedMeans ==
    SyncTyped => Sync!TypeOK /\ Sync!AuditTrailCrosses
<1>. SUFFICES ASSUME SyncTyped PROVE Sync!TypeOK /\ Sync!AuditTrailCrosses
  OBVIOUS
<1>1. ASSUME NEW s \in Stores
      PROVE  /\ \A m, n \in DOMAIN rows[s] : rows[s][m].id = rows[s][n].id => m = n
             /\ \A n \in DOMAIN rows[s] : rows[s][n].status \in Sync!Statuses /\ rows[s][n].id \in DOMAIN knew
             /\ \A r \in Sync!ToSet(relations[s]) : {r[1], r[2]} \subseteq Sync!IdsOf(rows[s])
             /\ \A m, n \in DOMAIN trail[s] : trail[s][m] = trail[s][n] /\ trail[s][m].by # s => m = n
             /\ Sync!IdsOf(trail[s]) \subseteq Sync!IdsOf(rows[s])
  <2>1. StoreTyped(s, rows[s], relations[s], trail[s], Len(knew)) /\ rows[s] \in Seq(SyncRows)
    BY StoreFacts
  <2>2. DOMAIN knew = 1..Len(knew)
    BY DEF SyncTyped
  <2>3. \A n \in DOMAIN rows[s] : rows[s][n] \in SyncRows
    <3>. HIDE DEF SyncRows
    <3>. QED  BY <2>1
  <2>4. \A n \in DOMAIN rows[s] : rows[s][n].status \in Sync!Statuses /\ rows[s][n].id \in DOMAIN knew
    BY <2>1, <2>2, <2>3 DEF StoreTyped, RowsMinted, SyncRows
  <2>5. \A r \in Sync!ToSet(relations[s]) : {r[1], r[2]} \subseteq Sync!IdsOf(rows[s])
    BY <2>1 DEF StoreTyped, RelatesRows, Sync!ToSet
  <2>6. Sync!IdsOf(trail[s]) \subseteq Sync!IdsOf(rows[s])
    BY <2>1 DEF StoreTyped, TellsOfRows, Sync!IdsOf
  <2>. QED  BY <2>1, <2>4, <2>5, <2>6 DEF StoreTyped, RowsDiffer, ImportedOnce
<1>2. Sync!TypeOK
  BY <1>1 DEF Sync!TypeOK
<1>3. ASSUME run.phase = "done"
      PROVE  Sync!ToSet(SubSeq(trail[run.from], 1, run.seen)) \subseteq Sync!ToSet(trail[run.to])
  <2>1. /\ RunTyped(run, Sync!IdsOf(rows[run.to]), trail[run.from], trail[run.to], Len(knew))
        /\ run.from \in Stores
    BY <1>3, RunFacts
  <2>2. Carried(trail[run.from], trail[run.to], <<>>, run.seen)
    BY <1>3, <2>1 DEF RunTyped
  <2>3. trail[run.from] \in Seq(SyncRecords)
    BY <2>1, StoreFacts
  <2>4. run.seen \in 0..Len(trail[run.from]) /\ \A m \in 1..run.seen : trail[run.from][m] \in Sync!ToSet(trail[run.to])
    BY <2>2 DEF Carried
  <2>5. PICK log \in Seq(SyncRecords) : log = trail[run.from]
    BY <2>3
  <2>6. PICK n \in 0..Len(log) : n = run.seen
    BY <2>4, <2>5
  <2>7. DOMAIN SubSeq(log, 1, n) = 1..n /\ \A m \in 1..n : SubSeq(log, 1, n)[m] = log[m]
    <3>. HIDE DEF SyncRecords
    <3>. QED  OBVIOUS
  <2>. QED  BY <2>4, <2>5, <2>6, <2>7 DEF Sync!ToSet
<1>. QED  BY <1>2, <1>3 DEF Sync!AuditTrailCrosses, Sync!Done

LEMMA CalmIsSync ==
    ASSUME SyncTyped, Revisions \in Nat, Records \in Nat, Runs \in Nat
    PROVE  /\ Calm!LocalStep => Sync!LocalStep
           /\ \A a, b \in Stores : Calm!Begin(a, b) => Sync!Begin(a, b)
           /\ Calm!RowStep => Sync!RowStep
           /\ Calm!RelationStep => Sync!RelationStep
           /\ Calm!TrailStep => Sync!TrailStep
           /\ Calm!Finish => Sync!Finish
<1>1. \A list : Calm!IdsOf(list) = Sync!IdsOf(list)
  BY DEF Calm!IdsOf, Sync!IdsOf
<1>2. \A list, i : Calm!RowOf(list, i) = Sync!RowOf(list, i)
  BY DEF Calm!RowOf, Sync!RowOf
<1>3. \A list, i, to : Calm!SetStatus(list, i, to) = Sync!SetStatus(list, i, to)
  BY DEF Calm!SetStatus, Sync!SetStatus
<1>4. \A list : Calm!ChainHead(list) = Sync!ChainHead(list)
  BY DEF Calm!ChainHead, Sync!ChainHead
<1>5. \A s, i, from, to : Calm!Record(s, i, from, to) = Sync!Record(s, i, from, to)
  BY DEF Calm!Record, Sync!Record
<1>6. Calm!Live = Sync!Live /\ Calm!NoRun = Sync!NoRun /\ Calm!NoReplay = Sync!NoReplay
      /\ Calm!Sink = Sync!Sink /\ Calm!NextItem = Sync!NextItem
  BY DEF Calm!Live, Sync!Live, Calm!NoRun, Sync!NoRun, Calm!NoReplay, Sync!NoReplay, Calm!Sink,
      Sync!Sink, Calm!NextItem, Sync!NextItem
<1>7. \A rels, i, j : Calm!RelationBetween(rels, i, j) = Sync!RelationBetween(rels, i, j)
  BY DEF Calm!RelationBetween, Sync!RelationBetween
<1>8. \A list : Calm!ToSet(list) = Sync!ToSet(list)
  BY DEF Calm!ToSet, Sync!ToSet
<1>9. \A row, record : Calm!Replayable(row, record) <=> Sync!Replayable(row, record)
  BY DEF Calm!Replayable, Sync!Replayable, Calm!IsLegalV2Transition, Sync!IsLegalV2Transition
<1>10. \A phase : Calm!Working(phase) <=> Sync!Working(phase)
  BY DEF Calm!Working, Sync!Working
<1>11. ASSUME NEW s \in Stores, Calm!DecisionTurn(s) PROVE Sync!DecisionTurn(s)
  <2>1. Len(trail[s]) \in Nat
    <3>1. trail[s] \in Seq(SyncRecords)
      BY StoreFacts
    <3>. HIDE DEF SyncRecords
    <3>. QED  BY <3>1
  <2>. QED  BY <1>11, <2>1 DEF Calm!DecisionTurn, Sync!DecisionTurn, Calm!LocalTurn, Sync!LocalTurn
<1>12. Len(knew) \in Nat
  BY DEF SyncTyped
<1>13. ASSUME NEW s \in Stores, Calm!Save(s) PROVE Sync!Save(s)
  BY <1>1, <1>3, <1>4, <1>5, <1>6, <1>11, <1>12, <1>13 DEF Calm!Save, Sync!Save
<1>14. ASSUME NEW s \in Stores, NEW i, Calm!Approve(s, i) PROVE Sync!Approve(s, i)
  BY <1>2, <1>5, <1>11, <1>14 DEF Calm!Approve, Sync!Approve
<1>15. ASSUME NEW s \in Stores, NEW i, Calm!ApplyStatusTransition(s, i) PROVE Sync!ApplyStatusTransition(s, i)
  BY <1>2, <1>3, <1>5, <1>6, <1>11, <1>15 DEF Calm!ApplyStatusTransition, Sync!ApplyStatusTransition
<1>16. ASSUME NEW s \in Stores, NEW i, NEW j, Calm!SupersedeExplicit(s, i, j) PROVE Sync!SupersedeExplicit(s, i, j)
  BY <1>2, <1>3, <1>5, <1>6, <1>11, <1>16 DEF Calm!SupersedeExplicit, Sync!SupersedeExplicit
<1>17. Calm!LocalStep => Sync!LocalStep
  BY <1>1, <1>13, <1>14, <1>15, <1>16 DEF Calm!LocalStep, Sync!LocalStep
<1>18. ASSUME NEW a \in Stores, NEW b \in Stores, Calm!Begin(a, b) PROVE Sync!Begin(a, b)
  <2>1. Calm!Diverged(rows[a], rows[b]) <=> Sync!Diverged(rows[a], rows[b])
    BY <1>1, <1>4 DEF Calm!Diverged, Sync!Diverged
  <2>. QED  BY <1>4, <1>6, <1>18, <2>1 DEF Calm!Begin, Sync!Begin
<1>19. Calm!RowStep => Sync!RowStep
  BY <1>1, <1>2, <1>6, <1>10 DEF Calm!RowStep, Sync!RowStep, Calm!ImportObservation,
      Sync!ImportObservation, Calm!ReadRelations, Sync!ReadRelations
<1>20. Calm!ImportRelation => Sync!ImportRelation
  BY <1>1, <1>6, <1>7, <1>10 DEF Calm!ImportRelation, Sync!ImportRelation
<1>21. Calm!LinkHeads => Sync!LinkHeads
  BY <1>6, <1>8 DEF Calm!LinkHeads, Sync!LinkHeads
<1>22. Calm!RelationStep => Sync!RelationStep
  BY <1>20, <1>21 DEF Calm!RelationStep, Sync!RelationStep, Calm!ReadTrail, Sync!ReadTrail
<1>23. Calm!TrailStep => Sync!TrailStep
  BY <1>1, <1>2, <1>3, <1>6, <1>8, <1>9, <1>10 DEF Calm!TrailStep, Sync!TrailStep,
      Calm!ImportTransition, Sync!ImportTransition, Calm!ApplyImportedStatus,
      Sync!ApplyImportedStatus
<1>24. Calm!Finish => Sync!Finish
  BY <1>6 DEF Calm!Finish, Sync!Finish
<1>. QED  BY <1>17, <1>18, <1>19, <1>22, <1>23, <1>24

LEMMA CalmStays ==
    ASSUME SyncTyped, Revisions \in Nat, Records \in Nat, Runs \in Nat, Calm!Next
    PROVE  SyncTyped'
<1>1. CASE Calm!Crash
  <2>1. run' = Sync!NoRun /\ UNCHANGED <<rows, relations, trail, knew>>
    BY <1>1 DEF Calm!Crash, Calm!NoRun, Sync!NoRun
  <2>. QED  BY <2>1, RunChange
<1>2. CASE Sync!Next
  BY <1>2, SyncStays
<1>3. Calm!Crash \/ Sync!Next
  BY CalmIsSync DEF Calm!Next, Sync!Next
<1>. QED  BY <1>1, <1>2, <1>3

LEMMA CalmMeans ==
    Sync!TypeOK /\ Sync!AuditTrailCrosses => Calm!TypeOK /\ Calm!AuditTrailCrosses
<1>1. \A list : Calm!IdsOf(list) = Sync!IdsOf(list)
  BY DEF Calm!IdsOf, Sync!IdsOf
<1>2. \A list : Calm!ToSet(list) = Sync!ToSet(list)
  BY DEF Calm!ToSet, Sync!ToSet
<1>3. Calm!Statuses = Sync!Statuses
  BY DEF Calm!Statuses, Sync!Statuses, Calm!Live, Sync!Live
<1>4. Sync!TypeOK => Calm!TypeOK
  BY <1>1, <1>2, <1>3 DEF Calm!TypeOK, Sync!TypeOK
<1>5. Sync!AuditTrailCrosses => Calm!AuditTrailCrosses
  BY <1>2 DEF Calm!AuditTrailCrosses, Sync!AuditTrailCrosses, Calm!Done, Sync!Done
<1>. QED  BY <1>4, <1>5

LEMMA BusyIsSync ==
    ASSUME SyncTyped, Revisions \in Nat, Records \in Nat, Runs \in Nat
    PROVE  /\ Busy!LocalStep => Sync!LocalStep
           /\ \A a, b \in Stores : Busy!Begin(a, b) => Sync!Begin(a, b)
           /\ Busy!RowStep => Sync!RowStep
           /\ Busy!RelationStep => Sync!RelationStep
           /\ Busy!TrailStep => Sync!TrailStep
           /\ Busy!Finish => Sync!Finish
<1>1. \A list : Busy!IdsOf(list) = Sync!IdsOf(list)
  BY DEF Busy!IdsOf, Sync!IdsOf
<1>2. \A list, i : Busy!RowOf(list, i) = Sync!RowOf(list, i)
  BY DEF Busy!RowOf, Sync!RowOf
<1>3. \A list, i, to : Busy!SetStatus(list, i, to) = Sync!SetStatus(list, i, to)
  BY DEF Busy!SetStatus, Sync!SetStatus
<1>4. \A list : Busy!ChainHead(list) = Sync!ChainHead(list)
  BY DEF Busy!ChainHead, Sync!ChainHead
<1>5. \A s, i, from, to : Busy!Record(s, i, from, to) = Sync!Record(s, i, from, to)
  BY DEF Busy!Record, Sync!Record
<1>6. Busy!Live = Sync!Live /\ Busy!NoRun = Sync!NoRun /\ Busy!NoReplay = Sync!NoReplay
      /\ Busy!Sink = Sync!Sink /\ Busy!NextItem = Sync!NextItem
  BY DEF Busy!Live, Sync!Live, Busy!NoRun, Sync!NoRun, Busy!NoReplay, Sync!NoReplay, Busy!Sink,
      Sync!Sink, Busy!NextItem, Sync!NextItem
<1>7. \A rels, i, j : Busy!RelationBetween(rels, i, j) = Sync!RelationBetween(rels, i, j)
  BY DEF Busy!RelationBetween, Sync!RelationBetween
<1>8. \A list : Busy!ToSet(list) = Sync!ToSet(list)
  BY DEF Busy!ToSet, Sync!ToSet
<1>9. \A row, record : Busy!Replayable(row, record) <=> Sync!Replayable(row, record)
  BY DEF Busy!Replayable, Sync!Replayable, Busy!IsLegalV2Transition, Sync!IsLegalV2Transition
<1>10. \A phase : Busy!Working(phase) <=> Sync!Working(phase)
  BY DEF Busy!Working, Sync!Working
<1>11. ASSUME NEW s \in Stores, Busy!DecisionTurn(s) PROVE Sync!DecisionTurn(s)
  <2>1. Len(trail[s]) \in Nat
    <3>1. trail[s] \in Seq(SyncRecords)
      BY StoreFacts
    <3>. HIDE DEF SyncRecords
    <3>. QED  BY <3>1
  <2>. QED  BY <1>11, <2>1 DEF Busy!DecisionTurn, Sync!DecisionTurn, Busy!LocalTurn, Sync!LocalTurn
<1>12. Len(knew) \in Nat
  BY DEF SyncTyped
<1>13. ASSUME NEW s \in Stores, Busy!Save(s) PROVE Sync!Save(s)
  BY <1>1, <1>3, <1>4, <1>5, <1>6, <1>11, <1>12, <1>13 DEF Busy!Save, Sync!Save
<1>14. ASSUME NEW s \in Stores, NEW i, Busy!Approve(s, i) PROVE Sync!Approve(s, i)
  BY <1>2, <1>5, <1>11, <1>14 DEF Busy!Approve, Sync!Approve
<1>15. ASSUME NEW s \in Stores, NEW i, Busy!ApplyStatusTransition(s, i) PROVE Sync!ApplyStatusTransition(s, i)
  BY <1>2, <1>3, <1>5, <1>6, <1>11, <1>15 DEF Busy!ApplyStatusTransition, Sync!ApplyStatusTransition
<1>16. ASSUME NEW s \in Stores, NEW i, NEW j, Busy!SupersedeExplicit(s, i, j) PROVE Sync!SupersedeExplicit(s, i, j)
  BY <1>2, <1>3, <1>5, <1>6, <1>11, <1>16 DEF Busy!SupersedeExplicit, Sync!SupersedeExplicit
<1>17. Busy!LocalStep => Sync!LocalStep
  BY <1>1, <1>13, <1>14, <1>15, <1>16 DEF Busy!LocalStep, Sync!LocalStep
<1>18. ASSUME NEW a \in Stores, NEW b \in Stores, Busy!Begin(a, b) PROVE Sync!Begin(a, b)
  <2>1. Busy!Diverged(rows[a], rows[b]) <=> Sync!Diverged(rows[a], rows[b])
    BY <1>1, <1>4 DEF Busy!Diverged, Sync!Diverged
  <2>. QED  BY <1>4, <1>6, <1>18, <2>1 DEF Busy!Begin, Sync!Begin
<1>19. Busy!RowStep => Sync!RowStep
  BY <1>1, <1>2, <1>6, <1>10 DEF Busy!RowStep, Sync!RowStep, Busy!ImportObservation,
      Sync!ImportObservation, Busy!ReadRelations, Sync!ReadRelations
<1>20. Busy!ImportRelation => Sync!ImportRelation
  BY <1>1, <1>6, <1>7, <1>10 DEF Busy!ImportRelation, Sync!ImportRelation
<1>21. Busy!LinkHeads => Sync!LinkHeads
  BY <1>6, <1>8 DEF Busy!LinkHeads, Sync!LinkHeads
<1>22. Busy!RelationStep => Sync!RelationStep
  BY <1>20, <1>21 DEF Busy!RelationStep, Sync!RelationStep, Busy!ReadTrail, Sync!ReadTrail
<1>23. Busy!TrailStep => Sync!TrailStep
  BY <1>1, <1>2, <1>3, <1>6, <1>8, <1>9, <1>10 DEF Busy!TrailStep, Sync!TrailStep,
      Busy!ImportTransition, Sync!ImportTransition, Busy!ApplyImportedStatus,
      Sync!ApplyImportedStatus
<1>24. Busy!Finish => Sync!Finish
  BY <1>6 DEF Busy!Finish, Sync!Finish
<1>. QED  BY <1>17, <1>18, <1>19, <1>22, <1>23, <1>24

LEMMA BusyStays ==
    ASSUME SyncTyped, Revisions \in Nat, Records \in Nat, Runs \in Nat, Busy!Next
    PROVE  SyncTyped'
<1>1. CASE Busy!Crash
  <2>1. run' = Sync!NoRun /\ UNCHANGED <<rows, relations, trail, knew>>
    BY <1>1 DEF Busy!Crash, Busy!NoRun, Sync!NoRun
  <2>. QED  BY <2>1, RunChange
<1>2. CASE Sync!Next
  BY <1>2, SyncStays
<1>3. Busy!Crash \/ Sync!Next
  BY BusyIsSync DEF Busy!Next, Sync!Next
<1>. QED  BY <1>1, <1>2, <1>3

LEMMA BusyMeans ==
    Sync!TypeOK /\ Sync!AuditTrailCrosses => Busy!TypeOK /\ Busy!AuditTrailCrosses
<1>1. \A list : Busy!IdsOf(list) = Sync!IdsOf(list)
  BY DEF Busy!IdsOf, Sync!IdsOf
<1>2. \A list : Busy!ToSet(list) = Sync!ToSet(list)
  BY DEF Busy!ToSet, Sync!ToSet
<1>3. Busy!Statuses = Sync!Statuses
  BY DEF Busy!Statuses, Sync!Statuses, Busy!Live, Sync!Live
<1>4. Sync!TypeOK => Busy!TypeOK
  BY <1>1, <1>2, <1>3 DEF Busy!TypeOK, Sync!TypeOK
<1>5. Sync!AuditTrailCrosses => Busy!AuditTrailCrosses
  BY <1>2 DEF Busy!AuditTrailCrosses, Sync!AuditTrailCrosses, Busy!Done, Sync!Done
<1>. QED  BY <1>4, <1>5

-----------------------------------------------------------------------------
(* The tables of the reviewed store and of the two that synchronise *)

LEMMA TablesStart == MCInit => MemInv /\ SyncTyped
BY InitMemInv, SyncStarts DEF MCInit

LEMMA TablesStay ==
    ASSUME MemInv, SyncTyped, [MCNext]_<<vars, syncing, part>>
    PROVE  MemInv' /\ SyncTyped'
<1>1. Revisions \in Nat /\ Records \in Nat /\ Runs \in Nat
  BY PartsAssumption DEF Busy!SyncAssumption
<1>2. UNCHANGED syncing => SyncTyped'
  BY RunChange DEF syncing, SyncTyped
<1>3. UNCHANGED vars => MemInv'
  BY NextMemInv
<1>4. CASE ReviewPart
  BY <1>2, <1>4, NextMemInv DEF ReviewPart
<1>5. CASE CalmPart
  BY <1>1, <1>3, <1>5, CalmStays DEF CalmPart
<1>6. CASE BusyPart
  BY <1>1, <1>3, <1>6, BusyStays DEF BusyPart
<1>7. CASE UNCHANGED <<vars, syncing, part>>
  BY <1>2, <1>3, <1>7
<1>. QED  BY <1>4, <1>5, <1>6, <1>7 DEF MCNext

LEMMA TablesHold == MCSpec => [](MemInv /\ SyncTyped)
<1>1. MCInit => MemInv /\ SyncTyped
  BY TablesStart
<1>2. MemInv /\ SyncTyped /\ [MCNext]_<<vars, syncing, part>> => MemInv' /\ SyncTyped'
  BY TablesStay
<1>. QED  BY <1>1, <1>2, PTL DEF MCSpec

\* THEOREM.  The tables of the reviewed store and of both synchronised ones are always
\* well typed: foreign keys hold, no store has a row twice and none has imported a
\* record twice, whatever users, interrupted runs and repeated runs did.
THEOREM EveryStoreTyped == MCSpec => []TypesOK
<1>1. MemInv /\ SyncTyped => TypesOK
  BY SyncTypedMeans, CalmMeans, BusyMeans DEF MemInv, TypesOK
<1>. QED  BY <1>1, TablesHold, PTL

\* THEOREM.  A completed run, of either part, has carried over every record of the audit
\* trail that it read: none is lost to a row the run reported, to a decision taken in the
\* sink meanwhile, or to what an earlier, interrupted run had imported already.
THEOREM EveryRecordCrosses ==
    MCSpec => [](Calm!AuditTrailCrosses /\ Busy!AuditTrailCrosses)
<1>1. SyncTyped => Calm!AuditTrailCrosses /\ Busy!AuditTrailCrosses
  BY SyncTypedMeans, CalmMeans, BusyMeans
<1>. QED  BY <1>1, TablesHold, PTL

-----------------------------------------------------------------------------
(* Runs that nobody disturbs *)

Ended == {"superseded", "voided"}

\* A row in this status has got where a record led, or past it.
Reached(status, to) == \/ to = "approved" /\ status # "pending_review"
                       \/ to \in Ended /\ status \in Ended

\* The status of every row is where a record of either log led ...
Tells(log, i, to) == \E m \in DOMAIN log : log[m].id = i /\ log[m].to = to
Explained(list, log, other) ==
    \A n \in DOMAIN list : list[n].status # "pending_review" =>
        Tells(log, list[n].id, list[n].status) \/ Tells(other, list[n].id, list[n].status)

\* ... and every record but those still to be applied shows in the status.
Reflected(list, log, waiting) ==
    \A n \in DOMAIN list, m \in DOMAIN log :
        log[m].id = list[n].id => Reached(list[n].status, log[m].to) \/ log[m] \in waiting

\* A store ends a row in one way.
EndsOnce(log, s) ==
    \A m, n \in DOMAIN log :
        log[m].by = s /\ log[n].by = s /\ log[m].id = log[n].id /\ log[m].to \in Ended /\ log[n].to \in Ended
            => log[m].to = log[n].to

StoreClear(s) == Explained(rows[s], trail[s], trail[s]) /\ Reflected(rows[s], trail[s], {})

Waiting == IF run.replay = Sync!NoReplay THEN {} ELSE {run.replay}

\* What a run has brought over so far, from store a to store b.
RunClear(a, b) ==
    /\ Explained(rows[b], trail[b], trail[a]) /\ Reflected(rows[b], trail[b], Waiting)
    /\ run.replay # Sync!NoReplay =>
           /\ run.phase = "trail" /\ run.replay \in Sync!ToSet(trail[b])
           /\ \A n \in DOMAIN rows[b] : rows[b][n].id = run.replay.id =>
                  Sync!IsLegalV2Transition(rows[b][n].status, run.replay.to)
    /\ run.phase = "rows" =>
           /\ \A n \in DOMAIN run.todo : run.todo[n] \in Sync!ToSet(rows[a])
           /\ Sync!IdsOf(rows[a]) \subseteq Sync!IdsOf(rows[b]) \cup Sync!IdsOf(run.todo)
    /\ run.phase # "rows" => Sync!IdsOf(rows[a]) \subseteq Sync!IdsOf(rows[b])
    /\ run.phase = "relations" => RelatesRows(run.todo, Sync!IdsOf(rows[a]))
    /\ run.phase \in {"trail", "done"} => run.seen = Len(trail[a])

CalmInv ==
    /\ crashes \in Nat
    /\ \A s \in Stores : \A m \in DOMAIN trail[s] : trail[s][m] \in Sync!ToSet(trail[trail[s][m].by])
    /\ \A s \in Stores : EndsOnce(trail[s], s)
    /\ \A s \in Stores : run = Sync!NoRun \/ s # run.to => StoreClear(s)
    /\ run # Sync!NoRun => RunClear(run.from, run.to)

\* A revision is linked as a conflict with one of ids.
Attached(rels, j, ids) ==
    \E n \in DOMAIN rels : rels[n][3] = "conflicts_with" /\ \E i \in ids : {rels[n][1], rels[n][2]} = {i, j}

\* A live revision that t does not have is the head of its store s, or linked.
HeadsLinked(s, t) ==
    \A n \in DOMAIN rows[s] : rows[s][n].status \in Sync!Live /\ rows[s][n].id \notin Sync!IdsOf(rows[t]) =>
        IsHead(rows[s], n) \/ Attached(relations[s], rows[s][n].id, Sync!IdsOf(rows[t]))

\* In the sink of a run it is linked, or will be at its end.
SinkLinked(a, b) ==
    \A n \in DOMAIN rows[b] : rows[b][n].status \in Sync!Live /\ rows[b][n].id \notin Sync!IdsOf(rows[a]) =>
        \/ IsHead(rows[b], n) /\ rows[a] = <<>>
        \/ Attached(relations[b], rows[b][n].id, Sync!IdsOf(rows[a]))
        \/ /\ run.phase # "done" /\ run.heads # <<>>
           /\ run.heads[1] = rows[b][n].id /\ run.heads[2] \in Sync!IdsOf(rows[a])

LinkInv ==
    /\ run = Sync!NoRun => \A s, t \in Stores : s # t => HeadsLinked(s, t)
    /\ run # Sync!NoRun => HeadsLinked(run.from, run.to) /\ SinkLinked(run.from, run.to)

\* The same rows, with row i in another status.
StatusMoved(after, list, i, to) ==
    /\ DOMAIN after = DOMAIN list
    /\ \A n \in DOMAIN list :
           /\ after[n].id = list[n].id /\ after[n].rev = list[n].rev
           /\ after[n].status = IF list[n].id = i THEN to ELSE list[n].status

\* The list, with another item.
Grown(longer, list, item) ==
    \E k : /\ k \notin DOMAIN list /\ DOMAIN longer = DOMAIN list \cup {k}
           /\ longer[k] = item /\ \A n \in DOMAIN list : longer[n] = list[n]

Longer(longer, list) == \A n \in DOMAIN list : n \in DOMAIN longer /\ longer[n] = list[n]

LEMMA AppendGrows ==
    ASSUME NEW Items, NEW list \in Seq(Items), NEW item \in Items
    PROVE  Grown(Append(list, item), list, item) /\ Longer(Append(list, item), list)
<1>1. /\ Len(list) \in Nat /\ DOMAIN list = 1..Len(list)
      /\ DOMAIN Append(list, item) = 1..(Len(list) + 1) /\ Append(list, item)[Len(list) + 1] = item
      /\ \A n \in 1..Len(list) : Append(list, item)[n] = list[n]
  OBVIOUS
<1>. QED  BY <1>1 DEF Grown, Longer

LEMMA GrownIds ==
    ASSUME NEW list, NEW longer, NEW item, Grown(longer, list, item)
    PROVE  /\ Sync!IdsOf(longer) = Sync!IdsOf(list) \cup {item.id}
           /\ Sync!ToSet(longer) = Sync!ToSet(list) \cup {item}
           /\ Longer(longer, list)
BY DEF Grown, Sync!IdsOf, Sync!ToSet, Longer

LEMMA LongerKeeps ==
    ASSUME NEW list, NEW longer, Longer(longer, list)
    PROVE  /\ \A i, to : Tells(list, i, to) => Tells(longer, i, to)
           /\ \A j, ids : Attached(list, j, ids) => Attached(longer, j, ids)
           /\ Sync!ToSet(list) \subseteq Sync!ToSet(longer)
BY DEF Longer, Tells, Attached, Sync!ToSet

LEMMA AttachedMore ==
    ASSUME NEW rels, NEW j, NEW ids, NEW more, ids \subseteq more, Attached(rels, j, ids)
    PROVE  Attached(rels, j, more)
BY DEF Attached

LEMMA MovedIds ==
    ASSUME NEW list, NEW after, NEW i, NEW to, StatusMoved(after, list, i, to)
    PROVE  /\ Sync!IdsOf(after) = Sync!IdsOf(list)
           /\ \A n : IsHead(after, n) /\ n \in DOMAIN list <=> IsHead(list, n) /\ n \in DOMAIN list
BY DEF StatusMoved, Sync!IdsOf, IsHead

LEMMA LegalReaches ==
    ASSUME NEW status, NEW to, Sync!IsLegalV2Transition(status, to)
    PROVE  /\ status \in Sync!Live /\ Reached(to, to) /\ status \notin Ended
           /\ \A x : Reached(status, x) => Reached(to, x)
BY DEF Sync!IsLegalV2Transition, Sync!Live, Reached, Ended

\* A decision: the row moves, and the record of it is appended.
LEMMA DecisionClear ==
    ASSUME NEW s, NEW list, NEW after, NEW log, NEW longer, NEW record,
           StatusMoved(after, list, record.id, record.to), Grown(longer, log, record), record.by = s,
           \A n \in DOMAIN list : list[n].id = record.id =>
               Sync!IsLegalV2Transition(list[n].status, record.to),
           record.id \in Sync!IdsOf(list),
           Explained(list, log, log), Reflected(list, log, {}), EndsOnce(log, s)
    PROVE  Explained(after, longer, longer) /\ Reflected(after, longer, {}) /\ EndsOnce(longer, s)
<1>1. PICK k : /\ k \notin DOMAIN log /\ DOMAIN longer = DOMAIN log \cup {k}
               /\ longer[k] = record /\ \A n \in DOMAIN log : longer[n] = log[n]
  BY DEF Grown
<1>2. Explained(after, longer, longer)
  <2>1. SUFFICES ASSUME NEW n \in DOMAIN list, after[n].status # "pending_review"
                 PROVE  Tells(longer, list[n].id, after[n].status)
    BY DEF Explained, StatusMoved
  <2>2. CASE list[n].id = record.id
    BY <1>1, <2>2 DEF StatusMoved, Tells
  <2>3. CASE list[n].id # record.id
    <3>1. after[n].status = list[n].status
      BY <2>3 DEF StatusMoved
    <3>2. Tells(log, list[n].id, list[n].status)
      BY <2>1, <3>1 DEF Explained
    <3>. QED  BY <3>1, <3>2, GrownIds, LongerKeeps
  <2>. QED  BY <2>2, <2>3
<1>3. Reflected(after, longer, {})
  <2>1. SUFFICES ASSUME NEW n \in DOMAIN list, NEW m \in DOMAIN longer, longer[m].id = list[n].id
                 PROVE  Reached(after[n].status, longer[m].to)
    BY DEF Reflected, StatusMoved
  <2>2. CASE list[n].id = record.id
    <3>1. after[n].status = record.to /\ Sync!IsLegalV2Transition(list[n].status, record.to)
      BY <2>2 DEF StatusMoved
    <3>2. m = k \/ Reached(list[n].status, longer[m].to)
      BY <1>1, <2>1 DEF Reflected
    <3>. QED  BY <1>1, <3>1, <3>2, LegalReaches
  <2>3. CASE list[n].id # record.id
    <3>1. after[n].status = list[n].status /\ m \in DOMAIN log /\ longer[m] = log[m]
      BY <1>1, <2>1, <2>3 DEF StatusMoved
    <3>. QED  BY <2>1, <3>1 DEF Reflected
  <2>. QED  BY <2>2, <2>3
<1>4. \A m \in DOMAIN log : log[m].id = record.id => log[m].to \notin Ended
  <2>1. PICK n \in DOMAIN list : list[n].id = record.id
    BY DEF Sync!IdsOf
  <2>2. list[n].status \notin Ended
    BY <2>1, LegalReaches
  <2>. QED  BY <2>1, <2>2 DEF Reflected, Reached, Ended
<1>5. EndsOnce(longer, s)
  BY <1>1, <1>4 DEF EndsOnce
<1>. QED  BY <1>2, <1>3, <1>5

\* A row that no record tells of, in a status that the other log tells of.
LEMMA RowClear ==
    ASSUME NEW list, NEW longer, NEW row, NEW log, NEW other, NEW waiting, Grown(longer, list, row),
           row.status # "pending_review" => Tells(other, row.id, row.status),
           \A m \in DOMAIN log : log[m].id # row.id,
           Explained(list, log, other), Reflected(list, log, waiting)
    PROVE  Explained(longer, log, other) /\ Reflected(longer, log, waiting)
BY DEF Grown, Explained, Reflected

\* A record whose status is to be set, or set already.
LEMMA RecordClear ==
    ASSUME NEW list, NEW log, NEW longer, NEW other, NEW record, Grown(longer, log, record), NEW waiting,
           \A n \in DOMAIN list : list[n].id = record.id =>
               record \in waiting \/ Reached(list[n].status, record.to),
           Explained(list, log, other), Reflected(list, log, {})
    PROVE  Explained(list, longer, other) /\ Reflected(list, longer, waiting)
<1>1. Explained(list, longer, other)
  BY GrownIds, LongerKeeps DEF Explained
<1>2. Reflected(list, longer, waiting)
  BY DEF Grown, Reflected
<1>. QED  BY <1>1, <1>2

\* The status that was to be set is set.
LEMMA StatusClear ==
    ASSUME NEW list, NEW after, NEW log, NEW other, NEW record, record \in Sync!ToSet(log),
           StatusMoved(after, list, record.id, record.to),
           \A n \in DOMAIN list : list[n].id = record.id =>
               Sync!IsLegalV2Transition(list[n].status, record.to),
           Explained(list, log, other), Reflected(list, log, {record})
    PROVE  Explained(after, log, other) /\ Reflected(after, log, {})
<1>1. Tells(log, record.id, record.to)
  BY DEF Sync!ToSet, Tells
<1>2. Explained(after, log, other)
  BY <1>1 DEF Explained, StatusMoved
<1>3. ASSUME NEW n \in DOMAIN list, NEW m \in DOMAIN log, log[m].id = list[n].id
      PROVE  Reached(after[n].status, log[m].to)
  <2>1. Reached(list[n].status, log[m].to) \/ log[m] = record
    BY <1>3 DEF Reflected
  <2>2. CASE list[n].id = record.id
    <3>1. after[n].status = record.to /\ Sync!IsLegalV2Transition(list[n].status, record.to)
      BY <2>2 DEF StatusMoved
    <3>. QED  BY <2>1, <3>1, LegalReaches
  <2>3. CASE list[n].id # record.id
    BY <1>3, <2>1, <2>3 DEF StatusMoved
  <2>. QED  BY <2>2, <2>3
<1>4. Reflected(after, log, {})
  BY <1>3 DEF Reflected, StatusMoved
<1>. QED  BY <1>2, <1>4

LEMMA RecordFacts ==
    ASSUME SyncTyped, NEW s \in Stores, NEW m \in DOMAIN trail[s]
    PROVE  trail[s][m] \in SyncRecords /\ trail[s][m].by \in Stores /\ trail[s][m].id \in Sync!IdsOf(rows[s])
<1>1. StoreTyped(s, rows[s], relations[s], trail[s], Len(knew)) /\ trail[s] \in Seq(SyncRecords)
  BY StoreFacts
<1>2. trail[s][m] \in SyncRecords
  <2>. HIDE DEF SyncRecords
  <2>. QED  BY <1>1
<1>. QED  BY <1>1, <1>2 DEF StoreTyped, TellsOfRows, SyncRecords

\* Between the runs a user changes a store: what is live and no head was so before.
LEMMA UserChange ==
    ASSUME SyncTyped, CalmInv, LinkInv, run = Sync!NoRun, run' = run, crashes' = crashes,
           NEW s \in Stores, NEW list, NEW rels, NEW log,
           rows' = [rows EXCEPT ![s] = list], relations' = [relations EXCEPT ![s] = rels],
           trail' = [trail EXCEPT ![s] = log],
           Explained(list, log, log), Reflected(list, log, {}), EndsOnce(log, s),
           Sync!IdsOf(rows[s]) \subseteq Sync!IdsOf(list),
           Longer(rels, relations[s]), Longer(log, trail[s]),
           \A m \in DOMAIN log : m \in DOMAIN trail[s] \/ log[m].by = s,
           \A n \in DOMAIN list : list[n].status \in Sync!Live =>
               \/ IsHead(list, n)
               \/ \E k \in DOMAIN rows[s] :
                     rows[s][k].id = list[n].id /\ rows[s][k].status \in Sync!Live /\ ~IsHead(rows[s], k)
    PROVE  CalmInv' /\ LinkInv'
<1>1. /\ rows'[s] = list /\ relations'[s] = rels /\ trail'[s] = log
      /\ \A t \in Stores : t # s => rows'[t] = rows[t] /\ relations'[t] = relations[t] /\ trail'[t] = trail[t]
  <2>. HIDE DEF SyncRows, SyncRelations, SyncRecords
  <2>. QED  BY DEF SyncTyped
<1>2. \A t \in Stores : /\ Sync!ToSet(trail[t]) \subseteq Sync!ToSet(trail'[t])
                        /\ Sync!IdsOf(rows[t]) \subseteq Sync!IdsOf(rows'[t])
  BY <1>1, LongerKeeps
<1>3. ASSUME NEW t \in Stores, NEW m \in DOMAIN trail'[t]
      PROVE  trail'[t][m] \in Sync!ToSet(trail'[trail'[t][m].by])
  <2>1. CASE m \in DOMAIN trail[t]
    <3>1. trail'[t][m] = trail[t][m]
      BY <1>1, <2>1 DEF Longer
    <3>2. trail[t][m].by \in Stores /\ trail[t][m] \in Sync!ToSet(trail[trail[t][m].by])
      BY <2>1, RecordFacts DEF CalmInv
    <3>. QED  BY <1>2, <3>1, <3>2
  <2>2. CASE m \notin DOMAIN trail[t]
    <3>1. t = s /\ log[m].by = s
      BY <1>1, <1>3, <2>2
    <3>. QED  BY <1>1, <1>3, <3>1 DEF Sync!ToSet
  <2>. QED  BY <2>1, <2>2
<1>4. ASSUME NEW t \in Stores
      PROVE  /\ EndsOnce(trail'[t], t)
             /\ Explained(rows'[t], trail'[t], trail'[t]) /\ Reflected(rows'[t], trail'[t], {})
  <2>1. CASE t = s
    BY <1>1, <2>1
  <2>2. CASE t # s
    BY <1>1, <2>2 DEF CalmInv, StoreClear
  <2>. QED  BY <2>1, <2>2
<1>5. CalmInv'
  BY <1>3, <1>4 DEF CalmInv, StoreClear
<1>6. ASSUME NEW t \in Stores, NEW u \in Stores, t # u, NEW n \in DOMAIN rows'[t],
             rows'[t][n].status \in Sync!Live, rows'[t][n].id \notin Sync!IdsOf(rows'[u])
      PROVE  IsHead(rows'[t], n) \/ Attached(relations'[t], rows'[t][n].id, Sync!IdsOf(rows'[u]))
  <2>1. HeadsLinked(t, u) /\ Sync!IdsOf(rows[u]) \subseteq Sync!IdsOf(rows'[u])
    BY <1>2, <1>6 DEF LinkInv
  <2>2. \A j : Attached(relations[t], j, Sync!IdsOf(rows[u])) =>
                   Attached(relations'[t], j, Sync!IdsOf(rows'[u]))
    <3>1. Longer(relations'[t], relations[t])
      BY <1>1 DEF Longer
    <3>. QED  BY <2>1, <3>1, LongerKeeps, AttachedMore
  <2>3. CASE t # s
    BY <1>1, <1>6, <2>1, <2>2, <2>3 DEF HeadsLinked
  <2>4. CASE t = s /\ ~IsHead(list, n)
    <3>1. PICK k \in DOMAIN rows[s] :
             rows[s][k].id = list[n].id /\ rows[s][k].status \in Sync!Live /\ ~IsHead(rows[s], k)
      BY <1>1, <1>6, <2>4
    <3>2. rows[s][k].id \notin Sync!IdsOf(rows[u])
      BY <1>1, <1>6, <2>1, <2>4, <3>1
    <3>. QED  BY <1>1, <2>1, <2>2, <2>4, <3>1, <3>2 DEF HeadsLinked
  <2>. QED  BY <1>1, <2>3, <2>4
<1>7. LinkInv'
  BY <1>6 DEF LinkInv, HeadsLinked
<1>. QED  BY <1>5, <1>7

\* What is live in a store after its row i moved on was live, at the same place.
LEMMA MovedLive ==
    ASSUME NEW list, NEW after, NEW i, NEW to, StatusMoved(after, list, i, to),
           \A n \in DOMAIN list : list[n].id = i => list[n].status \in Sync!Live
    PROVE  \A n \in DOMAIN after : after[n].status \in Sync!Live =>
               \/ IsHead(after, n)
               \/ \E k \in DOMAIN list :
                     list[k].id = after[n].id /\ list[k].status \in Sync!Live /\ ~IsHead(list, k)
<1>1. ASSUME NEW n \in DOMAIN list, after[n].status \in Sync!Live
      PROVE  list[n].id = after[n].id /\ list[n].status \in Sync!Live /\ (IsHead(list, n) => IsHead(after, n))
  <2>1. list[n].id = after[n].id /\ list[n].status \in Sync!Live
    BY <1>1 DEF StatusMoved
  <2>2. IsHead(list, n) => IsHead(after, n)
    BY MovedIds
  <2>. QED  BY <2>1, <2>2
<1>. QED  BY <1>1 DEF StatusMoved

\* A decision on a row, with its record and perhaps a relation.
LEMMA DecisionCalm ==
    ASSUME SyncTyped, CalmInv, LinkInv, run = Sync!NoRun, run' = run, crashes' = crashes,
           NEW s \in Stores, NEW i \in Sync!IdsOf(rows[s]), NEW after, NEW from \in Sync!Statuses,
           NEW to \in Sync!Statuses, StatusMoved(after, rows[s], i, to),
           Sync!IsLegalV2Transition(Sync!RowOf(rows[s], i).status, to),
           rows' = [rows EXCEPT ![s] = after],
           \/ relations' = relations
           \/ \E r : relations' = [relations EXCEPT ![s] = Append(@, r)] /\ r \in SyncRelations,
           trail' = [trail EXCEPT ![s] = Append(@, Sync!Record(s, i, from, to))]
    PROVE  CalmInv' /\ LinkInv'
<1>1. /\ StoreTyped(s, rows[s], relations[s], trail[s], Len(knew)) /\ rows[s] \in Seq(SyncRows)
      /\ relations[s] \in Seq(SyncRelations) /\ trail[s] \in Seq(SyncRecords)
      /\ Len(knew) \in Nat /\ Sync!IdsOf(rows[s]) \subseteq 1..Len(knew)
      /\ relations = [relations EXCEPT ![s] = relations[s]]
  BY StoreFacts
<1>2. PICK record : record = Sync!Record(s, i, from, to)
  OBVIOUS
<1>3. record \in SyncRecords /\ record.id = i /\ record.by = s /\ record.to = to
  BY <1>1, <1>2 DEF SyncRecords, Sync!Record
<1>4. PICK log : log = Append(trail[s], record)
  OBVIOUS
<1>5. Grown(log, trail[s], record) /\ Longer(log, trail[s]) /\ trail' = [trail EXCEPT ![s] = log]
  BY <1>1, <1>2, <1>3, <1>4, AppendGrows
<1>6. \A n \in DOMAIN rows[s] : rows[s][n].id = i =>
          Sync!IsLegalV2Transition(rows[s][n].status, to) /\ rows[s][n].status \in Sync!Live
  <2>1. PICK k \in DOMAIN rows[s] : rows[s][k].id = i /\ Sync!RowOf(rows[s], i) = rows[s][k]
    BY <1>1, RowFound
  <2>2. \A n \in DOMAIN rows[s] : rows[s][n].id = i => n = k
    BY <1>1, <2>1 DEF StoreTyped, RowsDiffer
  <2>. QED  BY <2>1, <2>2, LegalReaches
<1>7. Explained(rows[s], trail[s], trail[s]) /\ Reflected(rows[s], trail[s], {}) /\ EndsOnce(trail[s], s)
  BY DEF CalmInv, StoreClear
<1>8. Explained(after, log, log) /\ Reflected(after, log, {}) /\ EndsOnce(log, s)
  BY <1>3, <1>5, <1>6, <1>7, DecisionClear
<1>9. PICK rels : relations' = [relations EXCEPT ![s] = rels] /\ Longer(rels, relations[s])
  <2>1. CASE relations' = relations
    BY <1>1, <2>1 DEF Longer
  <2>2. ASSUME NEW r \in SyncRelations, relations' = [relations EXCEPT ![s] = Append(@, r)]
        PROVE  \E rels : relations' = [relations EXCEPT ![s] = rels] /\ Longer(rels, relations[s])
    <3>1. Longer(Append(relations[s], r), relations[s])
      <4>. HIDE DEF SyncRelations
      <4>. QED  BY <1>1, AppendGrows
    <3>. QED  BY <2>2, <3>1
  <2>. QED  BY <2>1, <2>2
<1>10. \A m \in DOMAIN log : m \in DOMAIN trail[s] \/ log[m].by = s
  BY <1>3, <1>5 DEF Grown
<1>11. Sync!IdsOf(rows[s]) \subseteq Sync!IdsOf(after)
  BY MovedIds
<1>12. \A n \in DOMAIN after : after[n].status \in Sync!Live =>
          \/ IsHead(after, n)
          \/ \E k \in DOMAIN rows[s] :
                rows[s][k].id = after[n].id /\ rows[s][k].status \in Sync!Live /\ ~IsHead(rows[s], k)
  BY <1>6, MovedLive
<1>. QED  BY <1>5, <1>8, <1>9, <1>10, <1>11, <1>12, UserChange

LEMMA SetStatusMoves ==
    ASSUME NEW list \in Seq(SyncRows), NEW i, NEW to
    PROVE  StatusMoved(Sync!SetStatus(list, i, to), list, i, to)
<1>1. \A n \in DOMAIN list : list[n] \in SyncRows
  <2>. HIDE DEF SyncRows
  <2>. QED  OBVIOUS
<1>2. ASSUME NEW row \in SyncRows
      PROVE  LET new == [row EXCEPT !.status = to]
             IN  new.id = row.id /\ new.rev = row.rev /\ new.status = to
  BY DEF SyncRows
<1>. QED  BY <1>1, <1>2 DEF Sync!SetStatus, StatusMoved

LEMMA ApproveCalm ==
    ASSUME SyncTyped, CalmInv, LinkInv, run = Sync!NoRun, NEW s \in Stores,
           NEW i \in Sync!IdsOf(rows[s]), Sync!Approve(s, i)
    PROVE  CalmInv' /\ LinkInv'
<1>. DEFINE list == [n \in DOMAIN rows[s] |->
                        IF rows[s][n].id = i THEN [rows[s][n] EXCEPT !.status = "approved", !.env = "approved"]
                        ELSE rows[s][n]]
<1>1. /\ rows' = [rows EXCEPT ![s] = list] /\ relations' = relations /\ run' = run /\ crashes' = crashes
      /\ trail' = [trail EXCEPT ![s] = Append(@, Sync!Record(s, i, "pending_review", "approved"))]
      /\ Sync!RowOf(rows[s], i).status = "pending_review"
  BY DEF Sync!Approve
<1>2. \A n \in DOMAIN rows[s] : rows[s][n] \in SyncRows
  <2>1. rows[s] \in Seq(SyncRows)
    BY StoreFacts
  <2>. HIDE DEF SyncRows
  <2>. QED  BY <2>1
<1>3. ASSUME NEW row \in SyncRows
      PROVE  LET new == [row EXCEPT !.status = "approved", !.env = "approved"]
             IN  new.id = row.id /\ new.rev = row.rev /\ new.status = "approved"
  BY DEF SyncRows
<1>4. StatusMoved(list, rows[s], i, "approved")
  <2>1. ASSUME NEW n \in DOMAIN rows[s]
        PROVE  /\ list[n].id = rows[s][n].id /\ list[n].rev = rows[s][n].rev
               /\ list[n].status = IF rows[s][n].id = i THEN "approved" ELSE rows[s][n].status
    <3>1. PICK row \in SyncRows : row = rows[s][n]
      BY <1>2
    <3>2. list[n] = IF row.id = i THEN [row EXCEPT !.status = "approved", !.env = "approved"] ELSE row
      BY <3>1
    <3>. HIDE DEF list
    <3>. QED  BY <1>3, <3>1, <3>2
  <2>2. DOMAIN list = DOMAIN rows[s]
    OBVIOUS
  <2>. HIDE DEF list
  <2>. QED  BY <2>1, <2>2 DEF StatusMoved
<1>. HIDE DEF list
<1>5. /\ Sync!IsLegalV2Transition(Sync!RowOf(rows[s], i).status, "approved")
      /\ "pending_review" \in Sync!Statuses /\ "approved" \in Sync!Statuses
  BY <1>1 DEF Sync!IsLegalV2Transition, Sync!Statuses, Sync!Live
<1>. QED  BY <1>1, <1>4, <1>5, DecisionCalm

LEMMA StatusCalm ==
    ASSUME SyncTyped, CalmInv, LinkInv, run = Sync!NoRun, NEW s \in Stores, NEW i \in Sync!IdsOf(rows[s]),
           \/ Sync!ApplyStatusTransition(s, i)
           \/ \E j \in Sync!IdsOf(rows[s]) : Sync!SupersedeExplicit(s, i, j)
    PROVE  CalmInv' /\ LinkInv'
<1>. DEFINE status == Sync!RowOf(rows[s], i).status
<1>1. rows[s] \in Seq(SyncRows) /\ Len(knew) \in Nat /\ Sync!IdsOf(rows[s]) \subseteq 1..Len(knew)
  BY StoreFacts
<1>2. PICK to \in {"voided", "superseded"} :
         /\ status \in Sync!Live /\ rows' = [rows EXCEPT ![s] = Sync!SetStatus(@, i, to)]
         /\ \/ relations' = relations
            \/ \E r : relations' = [relations EXCEPT ![s] = Append(@, r)] /\ r \in SyncRelations
         /\ trail' = [trail EXCEPT ![s] = Append(@, Sync!Record(s, i, status, to))]
         /\ run' = run /\ crashes' = crashes
  <2>1. CASE Sync!ApplyStatusTransition(s, i)
    BY <2>1 DEF Sync!ApplyStatusTransition
  <2>2. ASSUME NEW j \in Sync!IdsOf(rows[s]), Sync!SupersedeExplicit(s, i, j)
        PROVE  /\ status \in Sync!Live /\ rows' = [rows EXCEPT ![s] = Sync!SetStatus(@, i, "superseded")]
               /\ \E r : relations' = [relations EXCEPT ![s] = Append(@, r)] /\ r \in SyncRelations
               /\ trail' = [trail EXCEPT ![s] = Append(@, Sync!Record(s, i, status, "superseded"))]
               /\ run' = run /\ crashes' = crashes
    <3>1. PICK r : r = <<i, j, "supersedes">>
      OBVIOUS
    <3>2. r \in SyncRelations
      BY <1>1, <3>1 DEF SyncRelations
    <3>3. relations' = [relations EXCEPT ![s] = Append(@, r)]
      BY <2>2, <3>1 DEF Sync!SupersedeExplicit
    <3>. QED  BY <2>2, <3>2, <3>3 DEF Sync!SupersedeExplicit
  <2>. QED  BY <2>1, <2>2
<1>3. to \in Sync!Statuses /\ status \in Sync!Statuses /\ Sync!IsLegalV2Transition(status, to)
  BY <1>2 DEF Sync!Statuses, Sync!Live, Sync!IsLegalV2Transition
<1>4. PICK after : after = Sync!SetStatus(rows[s], i, to)
  OBVIOUS
<1>5. StatusMoved(after, rows[s], i, to) /\ rows' = [rows EXCEPT ![s] = after]
  BY <1>1, <1>2, <1>4, SetStatusMoves
<1>. HIDE DEF status
<1>. QED  BY <1>2, <1>3, <1>5, DecisionCalm DEF status

LEMMA HeadPlace ==
    ASSUME NEW list \in Seq(SyncRows), list # <<>>, HasHead(list)
    PROVE  \E h \in DOMAIN list : /\ IsHead(list, h) /\ Sync!ChainHead(list) = list[h]
                                  /\ \A n \in DOMAIN list : IsHead(list, n) => n = h
<1>1. \E n \in DOMAIN list : IsHead(list, n)
  BY DEF HasHead
<1>2. PICK h \in DOMAIN list : IsHead(list, h) /\ Sync!ChainHead(list) = list[h]
  BY <1>1 DEF IsHead, Sync!ChainHead
<1>3. \A n \in DOMAIN list : list[n].rev \in Nat /\ n \in Nat
  <2>1. \A n \in DOMAIN list : list[n] \in SyncRows /\ n \in Nat
    <3>. HIDE DEF SyncRows
    <3>. QED  OBVIOUS
  <2>. QED  BY <2>1 DEF SyncRows
<1>4. \A n \in DOMAIN list : IsHead(list, n) => n = h
  BY <1>2, <1>3 DEF IsHead
<1>. QED  BY <1>2, <1>4

\* A row with a higher revision becomes the head.
LEMMA NewHead ==
    ASSUME NEW list \in Seq(SyncRows), NEW row \in SyncRows, \A n \in DOMAIN list : list[n].rev < row.rev
    PROVE  /\ IsHead(Append(list, row), Len(list) + 1)
           /\ \A n \in DOMAIN Append(list, row) : n = Len(list) + 1 \/ n \in DOMAIN list
           /\ \A n \in DOMAIN list : Append(list, row)[n] = list[n]
<1>1. /\ Len(list) \in Nat /\ DOMAIN list = 1..Len(list)
      /\ DOMAIN Append(list, row) = 1..(Len(list) + 1) /\ Append(list, row)[Len(list) + 1] = row
      /\ \A n \in 1..Len(list) : Append(list, row)[n] = list[n]
  BY RowAppended
<1>. QED  BY <1>1 DEF IsHead

\* A new pending row on top of the rows, as they are or after the old head was superseded.
LEMMA SaveCalm ==
    ASSUME SyncTyped, CalmInv, LinkInv, run = Sync!NoRun, NEW s \in Stores, Sync!Save(s)
    PROVE  CalmInv' /\ LinkInv'
<1>. DEFINE new == Len(knew) + 1
            prev == Sync!ChainHead(rows[s])
            row(rev) == [id |-> new, rev |-> rev, status |-> "pending_review", env |-> "pending_review"]
<1>0. /\ StoreTyped(s, rows[s], relations[s], trail[s], Len(knew))
      /\ rows[s] \in Seq(SyncRows) /\ relations[s] \in Seq(SyncRelations) /\ trail[s] \in Seq(SyncRecords)
      /\ Len(knew) \in Nat /\ Sync!IdsOf(rows[s]) \subseteq 1..Len(knew)
      /\ relations = [relations EXCEPT ![s] = relations[s]] /\ trail = [trail EXCEPT ![s] = trail[s]]
  BY StoreFacts
<1>1. /\ run' = run /\ crashes' = crashes
      /\ \/ /\ rows[s] = <<>> /\ rows' = [rows EXCEPT ![s] = <<row(1)>>]
            /\ relations' = relations /\ trail' = trail
         \/ /\ rows[s] # <<>> /\ prev.status \in Sync!Live
            /\ rows' = [rows EXCEPT ![s] = Append(Sync!SetStatus(@, prev.id, "superseded"), row(prev.rev + 1))]
            /\ relations' = [relations EXCEPT ![s] = Append(@, <<prev.id, new, "supersedes">>)]
            /\ trail' = [trail EXCEPT ![s] = Append(@, Sync!Record(s, prev.id, prev.status, "superseded"))]
         \/ /\ rows[s] # <<>> /\ prev.status \notin Sync!Live
            /\ rows' = [rows EXCEPT ![s] = Append(@, row(prev.rev + 1))]
            /\ relations' = relations /\ trail' = trail
  BY DEF Sync!Save
<1>2. new \in Nat /\ new \notin Sync!IdsOf(rows[s])
  BY <1>0
<1>. HIDE DEF new
<1>3. ASSUME NEW rev \in Nat
      PROVE  row(rev) \in SyncRows /\ row(rev).id = new /\ row(rev).rev = rev /\ row(rev).status = "pending_review"
  BY <1>2 DEF SyncRows, Sync!Statuses, Sync!Live
<1>. HIDE DEF row
<1>4. Explained(rows[s], trail[s], trail[s]) /\ Reflected(rows[s], trail[s], {}) /\ EndsOnce(trail[s], s)
  BY DEF CalmInv, StoreClear
<1>5. \A n \in DOMAIN rows[s] : rows[s][n] \in SyncRows
  <2>. HIDE DEF SyncRows
  <2>. QED  BY <1>0
<1>6. \A m \in DOMAIN trail[s] : trail[s][m].id # new
  BY <1>0, <1>2 DEF StoreTyped, TellsOfRows
\* What the new row, on top of base and with log, leaves to be shown.
<1>7. ASSUME NEW base \in Seq(SyncRows), Sync!IdsOf(base) = Sync!IdsOf(rows[s]), DOMAIN base = DOMAIN rows[s],
             NEW rev \in Nat, \A n \in DOMAIN base : base[n].rev < rev,
             \A n \in DOMAIN base : base[n].status \in Sync!Live =>
                 rows[s][n].id = base[n].id /\ rows[s][n].status \in Sync!Live /\ ~IsHead(rows[s], n),
             NEW rels, Longer(rels, relations[s]), NEW log, Longer(log, trail[s]),
             \A m \in DOMAIN log : m \in DOMAIN trail[s] \/ log[m].by = s,
             Explained(base, log, log), Reflected(base, log, {}), EndsOnce(log, s),
             \A m \in DOMAIN log : log[m].id # new,
             rows' = [rows EXCEPT ![s] = Append(base, row(rev))], relations' = [relations EXCEPT ![s] = rels],
             trail' = [trail EXCEPT ![s] = log]
      PROVE  CalmInv' /\ LinkInv'
  <2>1. PICK r \in SyncRows : r = row(rev) /\ r.id = new /\ r.rev = rev /\ r.status = "pending_review"
    BY <1>3
  <2>2. PICK list : list = Append(base, r)
    OBVIOUS
  <2>3. Grown(list, base, r)
    BY <1>7, <2>2, AppendGrows
  <2>4. Explained(list, log, log) /\ Reflected(list, log, {})
    BY <1>7, <2>1, <2>3, RowClear
  <2>5. Sync!IdsOf(rows[s]) \subseteq Sync!IdsOf(list)
    BY <1>7, <2>3, GrownIds
  <2>6. \A n \in DOMAIN list : list[n].status \in Sync!Live =>
           \/ IsHead(list, n)
           \/ \E k \in DOMAIN rows[s] :
                 rows[s][k].id = list[n].id /\ rows[s][k].status \in Sync!Live /\ ~IsHead(rows[s], k)
    <3>1. \A n \in DOMAIN base : base[n].rev < r.rev
      BY <1>7, <2>1
    <3>2. /\ IsHead(list, Len(base) + 1) /\ \A n \in DOMAIN list : n = Len(base) + 1 \/ n \in DOMAIN base
          /\ \A n \in DOMAIN base : list[n] = base[n]
      BY <2>2, <3>1, NewHead
    <3>. QED  BY <1>7, <3>2
  <2>7. rows' = [rows EXCEPT ![s] = list]
    BY <1>7, <2>1, <2>2
  <2>8. run' = run /\ crashes' = crashes
    BY <1>1
  <2>9. /\ relations' = [relations EXCEPT ![s] = rels] /\ trail' = [trail EXCEPT ![s] = log]
        /\ EndsOnce(log, s) /\ Longer(rels, relations[s]) /\ Longer(log, trail[s])
        /\ \A m \in DOMAIN log : m \in DOMAIN trail[s] \/ log[m].by = s
    BY <1>7
  <2>. QED  BY <2>4, <2>5, <2>6, <2>7, <2>8, <2>9, UserChange
<1>8. Longer(relations[s], relations[s]) /\ Longer(trail[s], trail[s])
  BY DEF Longer
<1>9. CASE rows[s] = <<>> /\ rows' = [rows EXCEPT ![s] = <<row(1)>>] /\ relations' = relations /\ trail' = trail
  <2>1. rows' = [rows EXCEPT ![s] = Append(rows[s], row(1))]
    BY <1>9
  <2>2. \A n \in DOMAIN rows[s] : FALSE
    BY <1>9
  <2>. QED  BY <1>0, <1>4, <1>6, <1>7, <1>8, <1>9, <2>1, <2>2
<1>10. ASSUME rows[s] # <<>>
       PROVE  \E h \in DOMAIN rows[s] :
                 /\ prev = rows[s][h] /\ prev.rev + 1 \in Nat /\ prev.rev \in Nat
                 /\ \A n \in DOMAIN rows[s] : /\ IsHead(rows[s], n) => n = h
                                              /\ rows[s][n].id = prev.id => n = h
                                              /\ rows[s][n].rev < prev.rev + 1
  <2>1. PICK h \in DOMAIN rows[s] : /\ IsHead(rows[s], h) /\ prev = rows[s][h]
                                    /\ \A n \in DOMAIN rows[s] : IsHead(rows[s], n) => n = h
    BY <1>0, <1>10, HeadPlace DEF StoreTyped
  <2>2. \A n \in DOMAIN rows[s] : rows[s][n].rev \in Nat
    BY <1>5 DEF SyncRows
  <2>3. \A n \in DOMAIN rows[s] : rows[s][n].rev < prev.rev + 1
    BY <2>1, <2>2 DEF IsHead
  <2>4. \A n \in DOMAIN rows[s] : rows[s][n].id = prev.id => n = h
    BY <1>0, <2>1 DEF StoreTyped, RowsDiffer
  <2>5. prev.rev \in Nat /\ prev.rev + 1 \in Nat
    BY <2>1, <2>2
  <2>. QED  BY <2>1, <2>3, <2>4, <2>5
<1>11. CASE /\ rows[s] # <<>> /\ prev.status \notin Sync!Live
            /\ rows' = [rows EXCEPT ![s] = Append(@, row(prev.rev + 1))]
            /\ relations' = relations /\ trail' = trail
  <2>1. PICK h \in DOMAIN rows[s] :
           /\ prev = rows[s][h] /\ prev.rev + 1 \in Nat
           /\ \A n \in DOMAIN rows[s] : (IsHead(rows[s], n) => n = h) /\ rows[s][n].rev < prev.rev + 1
    BY <1>10, <1>11
  <2>2. \A n \in DOMAIN rows[s] : rows[s][n].status \in Sync!Live => ~IsHead(rows[s], n)
    BY <1>11, <2>1
  <2>3. rows' = [rows EXCEPT ![s] = Append(rows[s], row(prev.rev + 1))]
    BY <1>11
  <2>4. PICK rev \in Nat : rev = prev.rev + 1
    BY <2>1
  <2>5. /\ rows' = [rows EXCEPT ![s] = Append(rows[s], row(rev))]
        /\ \A n \in DOMAIN rows[s] : rows[s][n].rev < rev
    BY <2>1, <2>3, <2>4
  <2>6. relations' = [relations EXCEPT ![s] = relations[s]] /\ trail' = [trail EXCEPT ![s] = trail[s]]
    BY <1>0, <1>11
  <2>. QED  BY <1>0, <1>4, <1>6, <1>7, <1>8, <2>2, <2>5, <2>6
<1>12. CASE /\ rows[s] # <<>> /\ prev.status \in Sync!Live
            /\ rows' = [rows EXCEPT ![s] = Append(Sync!SetStatus(@, prev.id, "superseded"), row(prev.rev + 1))]
            /\ relations' = [relations EXCEPT ![s] = Append(@, <<prev.id, new, "supersedes">>)]
            /\ trail' = [trail EXCEPT ![s] = Append(@, Sync!Record(s, prev.id, prev.status, "superseded"))]
  <2>1. PICK h \in DOMAIN rows[s] :
           /\ prev = rows[s][h] /\ prev.rev + 1 \in Nat
           /\ \A n \in DOMAIN rows[s] : /\ IsHead(rows[s], n) => n = h
                                        /\ rows[s][n].id = prev.id => n = h
                                        /\ rows[s][n].rev < prev.rev + 1
    BY <1>10, <1>12
  <2>2. PICK base : base = Sync!SetStatus(rows[s], prev.id, "superseded")
    OBVIOUS
  <2>3. /\ StatusMoved(base, rows[s], prev.id, "superseded") /\ base \in Seq(SyncRows)
        /\ Sync!IdsOf(base) = Sync!IdsOf(rows[s]) /\ DOMAIN base = DOMAIN rows[s]
    BY <1>0, <2>2, SetStatusMoves, StatusSet, MovedIds DEF Restated, Sync!Statuses
  <2>4. PICK i : i = prev.id
    OBVIOUS
  <2>5. i \in Sync!IdsOf(rows[s]) /\ i \in Nat /\ prev.status \in Sync!Statuses
    BY <1>5, <2>1, <2>4 DEF Sync!IdsOf, SyncRows
  <2>6. PICK record : record = Sync!Record(s, i, prev.status, "superseded")
    OBVIOUS
  <2>7. record \in SyncRecords /\ record.id = i /\ record.by = s /\ record.to = "superseded"
    BY <2>5, <2>6 DEF SyncRecords, Sync!Record, Sync!Statuses
  <2>8. PICK log : log = Append(trail[s], record)
    OBVIOUS
  <2>9. Grown(log, trail[s], record) /\ Longer(log, trail[s])
    BY <1>0, <2>7, <2>8, AppendGrows
  <2>10. PICK link : link = <<i, new, "supersedes">>
    OBVIOUS
  <2>11. PICK rels : rels = Append(relations[s], link)
    OBVIOUS
  <2>12. Longer(rels, relations[s])
    <3>1. link \in SyncRelations
      BY <1>2, <2>5, <2>10 DEF SyncRelations
    <3>. HIDE DEF SyncRelations
    <3>. QED  BY <1>0, <2>11, <3>1, AppendGrows
  <2>13. PICK rev \in Nat : rev = prev.rev + 1
    BY <2>1
  <2>14. /\ rows' = [rows EXCEPT ![s] = Append(base, row(rev))]
         /\ relations' = [relations EXCEPT ![s] = rels] /\ trail' = [trail EXCEPT ![s] = log]
    BY <1>12, <2>2, <2>4, <2>6, <2>8, <2>10, <2>11, <2>13
  <2>15. \A n \in DOMAIN base : base[n].rev < rev
    BY <2>1, <2>3, <2>13 DEF StatusMoved
  <2>16. \A n \in DOMAIN base : base[n].status \in Sync!Live =>
             rows[s][n].id = base[n].id /\ rows[s][n].status \in Sync!Live /\ ~IsHead(rows[s], n)
    <3>1. "superseded" \notin Sync!Live
      BY DEF Sync!Live
    <3>. QED  BY <2>1, <2>3, <3>1 DEF StatusMoved
  <2>17. \A n \in DOMAIN rows[s] : rows[s][n].id = record.id =>
             Sync!IsLegalV2Transition(rows[s][n].status, record.to)
    <3>1. Sync!IsLegalV2Transition(prev.status, "superseded")
      BY <1>12 DEF Sync!Live, Sync!IsLegalV2Transition
    <3>. QED  BY <2>1, <2>4, <2>7, <3>1
  <2>18. StatusMoved(base, rows[s], record.id, record.to)
    BY <2>3, <2>4, <2>7
  <2>19. Explained(base, log, log) /\ Reflected(base, log, {}) /\ EndsOnce(log, s)
    BY <1>4, <2>5, <2>7, <2>9, <2>17, <2>18, DecisionClear
  <2>20. /\ \A m \in DOMAIN log : m \in DOMAIN trail[s] \/ log[m].by = s
         /\ \A m \in DOMAIN log : log[m].id # new
    BY <1>2, <1>6, <2>5, <2>7, <2>9 DEF Grown
  <2>. QED  BY <1>7, <2>3, <2>9, <2>12, <2>14, <2>15, <2>16, <2>19, <2>20
<1>. QED  BY <1>1, <1>9, <1>11, <1>12

LEMMA RunParts ==
    ASSUME SyncTyped, CalmInv, LinkInv, run.phase # "idle", NEW a, NEW b, a = run.from, b = run.to
    PROVE  /\ a \in Stores /\ b \in Stores /\ a # b /\ run \in SyncRuns /\ run # Sync!NoRun
           /\ RunTyped(run, Sync!IdsOf(rows[b]), trail[a], trail[b], Len(knew))
           /\ RunClear(a, b) /\ StoreClear(a) /\ SinkLinked(a, b) /\ HeadsLinked(a, b)
           /\ StoreTyped(a, rows[a], relations[a], trail[a], Len(knew))
           /\ StoreTyped(b, rows[b], relations[b], trail[b], Len(knew))
           /\ rows[a] \in Seq(SyncRows) /\ rows[b] \in Seq(SyncRows)
           /\ relations[a] \in Seq(SyncRelations) /\ relations[b] \in Seq(SyncRelations)
           /\ trail[a] \in Seq(SyncRecords) /\ trail[b] \in Seq(SyncRecords)
           /\ rows = [rows EXCEPT ![b] = rows[b]] /\ relations = [relations EXCEPT ![b] = relations[b]]
           /\ trail = [trail EXCEPT ![b] = trail[b]]
<1>1. run # Sync!NoRun
  BY DEF Sync!NoRun
<1>2. /\ RunTyped(run, Sync!IdsOf(rows[b]), trail[a], trail[b], Len(knew))
      /\ run \in SyncRuns /\ a \in Stores /\ b \in Stores /\ a # b
  BY RunFacts
<1>3. StoreClear(a) /\ RunClear(a, b)
  BY <1>1, <1>2 DEF CalmInv
<1>4. SinkLinked(a, b) /\ HeadsLinked(a, b)
  BY <1>1 DEF LinkInv
<1>. QED  BY <1>1, <1>2, <1>3, <1>4, StoreFacts

\* A step of a run changes its sink only, and what joins its log comes from the source.
LEMMA SinkCalm ==
    ASSUME SyncTyped, CalmInv, LinkInv, run.phase # "idle", NEW a, NEW b, a = run.from, b = run.to,
           run' # Sync!NoRun, run'.from = a, run'.to = b, crashes' = crashes,
           NEW list, NEW rels, NEW log, rows' = [rows EXCEPT ![b] = list],
           relations' = [relations EXCEPT ![b] = rels], trail' = [trail EXCEPT ![b] = log],
           Sync!IdsOf(rows[b]) \subseteq Sync!IdsOf(list), Longer(log, trail[b]),
           \A m \in DOMAIN log : m \in DOMAIN trail[b] \/
               (log[m] \in Sync!ToSet(trail[a]) /\ log[m] \notin Sync!ToSet(trail[b])),
           RunClear(a, b)', SinkLinked(a, b)'
    PROVE  CalmInv' /\ LinkInv'
<1>1. a \in Stores /\ b \in Stores /\ a # b /\ run # Sync!NoRun /\ HeadsLinked(a, b)
  BY RunParts
<1>2. /\ rows'[b] = list /\ trail'[b] = log
      /\ \A t \in Stores : t # b => rows'[t] = rows[t] /\ relations'[t] = relations[t] /\ trail'[t] = trail[t]
  <2>. HIDE DEF SyncRows, SyncRelations, SyncRecords
  <2>. QED  BY <1>1 DEF SyncTyped
<1>3. \A t \in Stores : Sync!ToSet(trail[t]) \subseteq Sync!ToSet(trail'[t])
  BY <1>2, LongerKeeps
\* A record from the source is at home in another store than the sink.
<1>4. ASSUME NEW record \in Sync!ToSet(trail[a]), record \notin Sync!ToSet(trail[b])
      PROVE  record.by \in Stores /\ record.by # b /\ record \in Sync!ToSet(trail[record.by])
  <2>1. PICK m \in DOMAIN trail[a] : record = trail[a][m]
    BY <1>4 DEF Sync!ToSet
  <2>2. record.by \in Stores /\ record \in Sync!ToSet(trail[record.by])
    BY <1>1, <2>1, RecordFacts DEF CalmInv
  <2>. QED  BY <1>4, <2>2
<1>5. ASSUME NEW t \in Stores, NEW m \in DOMAIN trail'[t]
      PROVE  trail'[t][m] \in Sync!ToSet(trail'[trail'[t][m].by])
  <2>1. CASE m \in DOMAIN trail[t]
    <3>1. trail'[t][m] = trail[t][m]
      BY <1>2, <2>1 DEF Longer
    <3>2. trail[t][m].by \in Stores /\ trail[t][m] \in Sync!ToSet(trail[trail[t][m].by])
      BY <2>1, RecordFacts DEF CalmInv
    <3>. QED  BY <1>3, <3>1, <3>2
  <2>2. CASE m \notin DOMAIN trail[t]
    <3>1. t = b /\ trail'[t][m] = log[m] /\ log[m] \in Sync!ToSet(trail[a]) /\ log[m] \notin Sync!ToSet(trail[b])
      BY <1>2, <1>5, <2>2
    <3>. QED  BY <1>3, <1>4, <3>1
  <2>. QED  BY <2>1, <2>2
<1>6. ASSUME NEW t \in Stores
      PROVE  EndsOnce(trail'[t], t) /\ (t # b => StoreClear(t)')
  <2>1. CASE t # b
    BY <1>1, <1>2, <2>1 DEF CalmInv, StoreClear
  <2>2. CASE t = b
    <3>1. \A m \in DOMAIN log : log[m].by = b => m \in DOMAIN trail[b] /\ log[m] = trail[b][m]
      BY <1>4 DEF Longer
    <3>. QED  BY <1>1, <1>2, <2>2, <3>1 DEF CalmInv, EndsOnce
  <2>. QED  BY <2>1, <2>2
<1>7. CalmInv'
  BY <1>1, <1>5, <1>6 DEF CalmInv
<1>8. HeadsLinked(a, b)'
  <2>1. rows'[a] = rows[a] /\ relations'[a] = relations[a]
    BY <1>1, <1>2
  <2>2. Sync!IdsOf(rows[b]) \subseteq Sync!IdsOf(rows'[b])
    BY <1>2
  <2>3. \A rels1, j : Attached(rels1, j, Sync!IdsOf(rows[b])) => Attached(rels1, j, Sync!IdsOf(rows'[b]))
    BY <2>2, AttachedMore
  <2>4. ASSUME NEW n \in DOMAIN rows[a], rows[a][n].status \in Sync!Live, rows[a][n].id \notin Sync!IdsOf(rows'[b])
        PROVE  IsHead(rows[a], n) \/ Attached(relations[a], rows[a][n].id, Sync!IdsOf(rows'[b]))
    BY <1>1, <2>2, <2>3, <2>4 DEF HeadsLinked
  <2>. QED  BY <2>1, <2>4 DEF HeadsLinked
<1>9. LinkInv'
  BY <1>8 DEF LinkInv
<1>. QED  BY <1>7, <1>9

LEMMA BeginCalm ==
    ASSUME SyncTyped, CalmInv, LinkInv, NEW a \in Stores, NEW b \in Stores, Sync!Begin(a, b)
    PROVE  CalmInv' /\ LinkInv'
<1>1. run = Sync!NoRun
  <2>1. run.phase = "idle"
    BY DEF Sync!Begin
  <2>2. ASSUME run # Sync!NoRun PROVE run \in SyncRuns
    BY <2>2 DEF SyncTyped, RunTyped
  <2>3. run \in SyncRuns => run.phase # "idle"
    BY DEF SyncRuns, Phases
  <2>. QED  BY <2>1, <2>2, <2>3
<1>2. PICK heads : heads = IF Sync!Diverged(rows[a], rows[b])
                           THEN <<Sync!ChainHead(rows[b]).id, Sync!ChainHead(rows[a]).id>> ELSE <<>>
  OBVIOUS
<1>3. /\ run' = [phase |-> "rows", from |-> a, to |-> b, todo |-> rows[a], seen |-> 0,
                 replay |-> Sync!NoReplay, conflicts |-> {}, heads |-> heads]
      /\ a # b /\ UNCHANGED <<rows, relations, trail, knew, crashes>>
  BY <1>2 DEF Sync!Begin
<1>4. /\ run'.phase = "rows" /\ run'.from = a /\ run'.to = b /\ run'.todo = rows[a]
      /\ run'.replay = Sync!NoReplay /\ run'.heads = heads
  BY <1>3
<1>5. StoreClear(a) /\ StoreClear(b) /\ HeadsLinked(a, b) /\ HeadsLinked(b, a)
  BY <1>1, <1>3 DEF CalmInv, LinkInv
<1>6. Waiting' = {}
  BY <1>4 DEF Waiting
<1>7. RunClear(a, b)'
  BY <1>3, <1>4, <1>5, <1>6 DEF RunClear, StoreClear, Explained, Sync!ToSet
<1>8. run' # Sync!NoRun
  BY <1>4 DEF Sync!NoRun
<1>9. CalmInv'
  BY <1>1, <1>3, <1>4, <1>7, <1>8 DEF CalmInv, StoreClear
<1>10. ASSUME NEW n \in DOMAIN rows[b], rows[b][n].status \in Sync!Live,
              rows[b][n].id \notin Sync!IdsOf(rows[a]), IsHead(rows[b], n), rows[a] # <<>>
       PROVE  heads # <<>> /\ heads[1] = rows[b][n].id /\ heads[2] \in Sync!IdsOf(rows[a])
  <2>1. /\ rows[a] \in Seq(SyncRows) /\ rows[b] \in Seq(SyncRows) /\ rows[b] # <<>>
        /\ HasHead(rows[a]) /\ HasHead(rows[b])
    <3>1. /\ rows[a] \in Seq(SyncRows) /\ rows[b] \in Seq(SyncRows)
          /\ HasHead(rows[a]) /\ HasHead(rows[b])
      BY StoreFacts DEF StoreTyped
    <3>. QED  BY <1>10, <3>1
  <2>2. Sync!ChainHead(rows[b]) = rows[b][n]
    BY <1>10, <2>1, HeadPlace
  <2>3. Sync!ChainHead(rows[a]).id \in Sync!IdsOf(rows[a])
    BY <1>10, <2>1, HeadPlace DEF Sync!IdsOf
  <2>4. Sync!Diverged(rows[a], rows[b])
    BY <1>10, <2>1, <2>2 DEF Sync!Diverged
  <2>. QED  BY <1>2, <2>2, <2>3, <2>4
<1>11. SinkLinked(a, b)'
  BY <1>3, <1>4, <1>5, <1>10 DEF SinkLinked, HeadsLinked
<1>12. LinkInv'
  BY <1>3, <1>4, <1>5, <1>8, <1>11 DEF LinkInv, HeadsLinked
<1>. QED  BY <1>9, <1>12

LEMMA FinishCalm ==
    ASSUME SyncTyped, CalmInv, LinkInv, Sync!Finish,
           \A s, t, u \in Stores : s = t \/ t = u \/ s = u
    PROVE  CalmInv' /\ LinkInv'
<1>1. run.phase = "done" /\ run' = Sync!NoRun /\ UNCHANGED <<rows, relations, trail, knew, crashes>>
  BY DEF Sync!Finish
<1>2. PICK a : a = run.from
  OBVIOUS
<1>3. PICK b : b = run.to
  OBVIOUS
<1>4. /\ a \in Stores /\ b \in Stores /\ a # b /\ run # Sync!NoRun
      /\ RunTyped(run, Sync!IdsOf(rows[b]), trail[a], trail[b], Len(knew))
      /\ RunClear(a, b) /\ StoreClear(a) /\ SinkLinked(a, b) /\ HeadsLinked(a, b)
      /\ trail[a] \in Seq(SyncRecords)
  BY <1>1, <1>2, <1>3, RunParts
<1>5. Sync!ToSet(trail[a]) \subseteq Sync!ToSet(trail[b])
  <2>1. Carried(trail[a], trail[b], <<>>, run.seen) /\ run.seen = Len(trail[a])
    BY <1>1, <1>4 DEF RunTyped, RunClear
  <2>2. DOMAIN trail[a] = 1..Len(trail[a]) /\ Len(trail[a]) \in Nat
    <3>. HIDE DEF SyncRecords
    <3>. QED  BY <1>4
  <2>. QED  BY <2>1, <2>2 DEF Carried, Sync!ToSet
<1>6. StoreClear(b)
  <2>1. \A i, to : Tells(trail[a], i, to) => Tells(trail[b], i, to)
    BY <1>5 DEF Tells, Sync!ToSet
  <2>2. Waiting = {}
    BY <1>1, <1>4 DEF RunClear, Waiting
  <2>. QED  BY <1>4, <2>1, <2>2 DEF RunClear, StoreClear, Explained
<1>7. CalmInv'
  BY <1>1, <1>3, <1>6 DEF CalmInv, StoreClear
<1>8. HeadsLinked(b, a)
  BY <1>1, <1>4 DEF SinkLinked, HeadsLinked
<1>9. ASSUME NEW s \in Stores, NEW t \in Stores, s # t PROVE HeadsLinked(s, t)
  <2>1. s \in {a, b} /\ t \in {a, b}
    BY <1>4, <1>9
  <2>. QED  BY <1>4, <1>8, <1>9, <2>1
<1>10. LinkInv'
  BY <1>1, <1>9 DEF LinkInv, HeadsLinked
<1>. QED  BY <1>7, <1>10

\* A step of a run from store a to store b, after which the sink has these tables.
SinkGets(a, b, list, rels, log) ==
    /\ rows' = [rows EXCEPT ![b] = list] /\ relations' = [relations EXCEPT ![b] = rels]
    /\ trail' = [trail EXCEPT ![b] = log] /\ crashes' = crashes
    /\ Sync!IdsOf(rows[b]) \subseteq Sync!IdsOf(list) /\ Longer(rels, relations[b]) /\ Longer(log, trail[b])
    /\ \A m \in DOMAIN log : m \in DOMAIN trail[b] \/
           (log[m] \in Sync!ToSet(trail[a]) /\ log[m] \notin Sync!ToSet(trail[b]))

\* What RunClear says of a run at this place, and of the tables.
ClearAt(a, phase, todo, seen, replay, list, log) ==
    /\ Explained(list, log, trail[a])
    /\ Reflected(list, log, IF replay = Sync!NoReplay THEN {} ELSE {replay})
    /\ replay # Sync!NoReplay =>
           /\ phase = "trail" /\ replay \in Sync!ToSet(log)
           /\ \A n \in DOMAIN list : list[n].id = replay.id =>
                  Sync!IsLegalV2Transition(list[n].status, replay.to)
    /\ phase = "rows" =>
           /\ \A n \in DOMAIN todo : todo[n] \in Sync!ToSet(rows[a])
           /\ Sync!IdsOf(rows[a]) \subseteq Sync!IdsOf(list) \cup Sync!IdsOf(todo)
    /\ phase # "rows" => Sync!IdsOf(rows[a]) \subseteq Sync!IdsOf(list)
    /\ phase = "relations" => RelatesRows(todo, Sync!IdsOf(rows[a]))
    /\ phase \in {"trail", "done"} => seen = Len(trail[a])

\* A live row that the source does not have was one before, ...
LiveBefore(a, list, before) ==
    \A n \in DOMAIN list : list[n].status \in Sync!Live /\ list[n].id \notin Sync!IdsOf(rows[a]) =>
        \E k \in DOMAIN before :
           /\ before[k].id = list[n].id /\ before[k].status \in Sync!Live
           /\ IsHead(before, k) /\ rows[a] = <<>> => IsHead(list, n)

\* ... and the end of the run links the heads.
LinksAt(phase, rels) ==
    IF phase = "done"
    THEN run.heads # <<>> => <<run.heads[1], run.heads[2], "conflicts_with">> \in Sync!ToSet(rels)
    ELSE run.phase # "done"

\* A step of a run that nobody disturbs goes on with its invariant.
LEMMA RunGoesOn ==
    ASSUME SyncTyped, CalmInv, LinkInv, run.phase # "idle", NEW a, NEW b, a = run.from, b = run.to,
           NEW phase, NEW todo, NEW seen, NEW replay, MovedOn(run', run, phase, todo, seen, replay),
           NEW list, NEW rels, NEW log, SinkGets(a, b, list, rels, log),
           ClearAt(a, phase, todo, seen, replay, list, log),
           LiveBefore(a, list, rows[b]), LinksAt(phase, rels)
    PROVE  CalmInv' /\ LinkInv'
<1>1. /\ a \in Stores /\ b \in Stores /\ a # b /\ SinkLinked(a, b)
      /\ run \in SyncRuns /\ SinkLinked(a, b)
  BY RunParts
<1>2. /\ rows'[b] = list /\ relations'[b] = rels /\ trail'[b] = log
      /\ rows'[a] = rows[a] /\ relations'[a] = relations[a] /\ trail'[a] = trail[a]
  <2>. HIDE DEF SyncRows, SyncRelations, SyncRecords
  <2>. QED  BY <1>1 DEF SyncTyped, SinkGets
<1>3. /\ run'.from = a /\ run'.to = b /\ run'.heads = run.heads /\ run'.phase = phase
      /\ run'.todo = todo /\ run'.seen = seen /\ run'.replay = replay /\ run' # Sync!NoRun
  <2>1. run' \in SyncRuns => run'.phase # "idle"
    BY DEF SyncRuns, Phases
  <2>. QED  BY <2>1 DEF MovedOn, Sync!NoRun
<1>4. Waiting' = IF replay = Sync!NoReplay THEN {} ELSE {replay}
  BY <1>3 DEF Waiting
<1>5. RunClear(a, b)'
  BY <1>2, <1>3, <1>4 DEF RunClear, ClearAt
<1>6. ASSUME NEW n \in DOMAIN list, list[n].status \in Sync!Live, list[n].id \notin Sync!IdsOf(rows[a])
      PROVE  \/ IsHead(list, n) /\ rows[a] = <<>>
             \/ Attached(rels, list[n].id, Sync!IdsOf(rows[a]))
             \/ /\ phase # "done" /\ run.heads # <<>>
                /\ run.heads[1] = list[n].id /\ run.heads[2] \in Sync!IdsOf(rows[a])
  <2>1. PICK k \in DOMAIN rows[b] :
           /\ rows[b][k].id = list[n].id /\ rows[b][k].status \in Sync!Live
           /\ IsHead(rows[b], k) /\ rows[a] = <<>> => IsHead(list, n)
    BY <1>6 DEF LiveBefore
  <2>2. \/ IsHead(rows[b], k) /\ rows[a] = <<>>
        \/ Attached(relations[b], list[n].id, Sync!IdsOf(rows[a]))
        \/ /\ run.phase # "done" /\ run.heads # <<>>
           /\ run.heads[1] = list[n].id /\ run.heads[2] \in Sync!IdsOf(rows[a])
    BY <1>1, <1>6, <2>1 DEF SinkLinked
  <2>3. CASE IsHead(rows[b], k) /\ rows[a] = <<>>
    BY <2>1, <2>3
  <2>4. CASE Attached(relations[b], list[n].id, Sync!IdsOf(rows[a]))
    BY <2>4, LongerKeeps DEF SinkGets
  <2>5. CASE /\ run.phase # "done" /\ run.heads # <<>>
             /\ run.heads[1] = list[n].id /\ run.heads[2] \in Sync!IdsOf(rows[a])
    <3>1. CASE phase = "done"
      <4>1. PICK m \in DOMAIN rels : rels[m] = <<run.heads[1], run.heads[2], "conflicts_with">>
        BY <2>5, <3>1 DEF LinksAt, Sync!ToSet
      <4>2. rels[m][1] = list[n].id /\ rels[m][2] = run.heads[2] /\ rels[m][3] = "conflicts_with"
        BY <2>5, <4>1
      <4>. QED  BY <2>5, <4>2 DEF Attached
    <3>. QED  BY <2>5, <3>1
  <2>. QED  BY <2>2, <2>3, <2>4, <2>5
<1>7. SinkLinked(a, b)'
  BY <1>2, <1>3, <1>6 DEF SinkLinked
<1>. QED  BY <1>3, <1>5, <1>7, SinkCalm DEF SinkGets

LEMMA ListStays ==
    /\ \A list : Longer(list, list)
    /\ \A a, list : LiveBefore(a, list, list)
BY DEF Longer, LiveBefore

\* The items that are left are items of before; the first is the only one that is not.
LEMMA TakenKeeps ==
    ASSUME NEW Items, NEW todo \in Seq(Items), todo # <<>>
    PROVE  /\ \A n \in DOMAIN Tail(todo) : \E m \in DOMAIN todo : Tail(todo)[n] = todo[m]
           /\ \E m \in DOMAIN todo : Head(todo) = todo[m]
           /\ Sync!IdsOf(todo) \subseteq Sync!IdsOf(Tail(todo)) \cup {Head(todo).id}
<1>. DEFINE rest == Tail(todo)
            item == Head(todo)
<1>1. /\ Len(todo) \in Nat /\ Len(todo) >= 1 /\ item = todo[1]
      /\ DOMAIN todo = 1..Len(todo) /\ DOMAIN rest = 1..(Len(todo) - 1)
      /\ \A n \in 1..(Len(todo) - 1) : rest[n] = todo[n + 1]
  BY Taken
<1>. HIDE DEF rest, item
<1>2. \A n \in DOMAIN rest : n + 1 \in DOMAIN todo /\ rest[n] = todo[n + 1]
  BY <1>1
<1>3. 1 \in DOMAIN todo
  BY <1>1
<1>4. \A n \in DOMAIN todo : n = 1 \/ (n - 1 \in DOMAIN rest /\ todo[n] = rest[n - 1])
  BY <1>1
<1>5. Sync!IdsOf(todo) \subseteq Sync!IdsOf(rest) \cup {item.id}
  BY <1>1, <1>4 DEF Sync!IdsOf
<1>. QED  BY <1>1, <1>2, <1>3, <1>5 DEF rest, item

LEMMA ReadRelationsCalm ==
    ASSUME SyncTyped, CalmInv, LinkInv, Sync!ReadRelations PROVE CalmInv' /\ LinkInv'
<1>1. /\ run.phase = "rows" /\ run.todo = <<>>
      /\ run' = [run EXCEPT !.phase = "relations", !.todo = relations[run.from]]
      /\ UNCHANGED <<rows, relations, trail, knew, crashes>>
  BY DEF Sync!ReadRelations
<1>2. PICK a : a = run.from
  OBVIOUS
<1>3. PICK b : b = run.to
  OBVIOUS
<1>4. /\ a \in Stores /\ b \in Stores /\ run \in SyncRuns /\ RunClear(a, b)
      /\ StoreTyped(a, rows[a], relations[a], trail[a], Len(knew)) /\ relations[a] \in Seq(SyncRelations)
      /\ rows = [rows EXCEPT ![b] = rows[b]] /\ relations = [relations EXCEPT ![b] = relations[b]]
      /\ trail = [trail EXCEPT ![b] = trail[b]]
  BY <1>1, <1>2, <1>3, RunParts
<1>5. relations[a] \in Todos /\ "relations" \in Phases /\ run.seen \in Nat /\ run.replay \in ReplayRecords
  BY <1>4, ItemsFit DEF Phases, SyncRuns
<1>6. MovedOn(run', run, "relations", relations[a], run.seen, run.replay)
  BY <1>1, <1>2, <1>4, <1>5, RunMoves
<1>7. Sync!IdsOf(run.todo) = {}
  BY <1>1 DEF Sync!IdsOf
<1>8. Sync!IdsOf(rows[a]) \subseteq Sync!IdsOf(rows[b]) /\ RelatesRows(relations[a], Sync!IdsOf(rows[a]))
  BY <1>1, <1>4, <1>7 DEF RunClear, StoreTyped
<1>9. /\ run.replay = Sync!NoReplay /\ Explained(rows[b], trail[b], trail[a])
      /\ Reflected(rows[b], trail[b], {})
  BY <1>1, <1>4 DEF RunClear, Waiting
<1>10. PICK list : list = rows[b]
  OBVIOUS
<1>11. PICK rels : rels = relations[b]
  OBVIOUS
<1>12. PICK log : log = trail[b]
  OBVIOUS
<1>13. PICK todo : todo = relations[a]
  OBVIOUS
<1>14. SinkGets(a, b, list, rels, log)
  BY <1>1, <1>4, <1>10, <1>11, <1>12, ListStays DEF SinkGets
<1>15. ClearAt(a, "relations", todo, run.seen, run.replay, list, log)
  BY <1>8, <1>9, <1>10, <1>12, <1>13 DEF ClearAt
<1>16. LiveBefore(a, list, rows[b]) /\ LinksAt("relations", rels)
  BY <1>1, <1>10, ListStays DEF LinksAt
<1>17. PICK seen : seen = run.seen
  OBVIOUS
<1>18. PICK replay : replay = run.replay
  OBVIOUS
<1>. QED  BY <1>1, <1>2, <1>3, <1>6, <1>13, <1>14, <1>15, <1>16, <1>17, <1>18, RunGoesOn

LEMMA ReadTrailCalm ==
    ASSUME SyncTyped, CalmInv, LinkInv, Sync!ReadTrail PROVE CalmInv' /\ LinkInv'
<1>1. /\ run.phase = "relations" /\ run.todo = <<>>
      /\ run' = [run EXCEPT !.phase = "trail", !.todo = trail[run.from], !.seen = Len(trail[run.from])]
      /\ UNCHANGED <<rows, relations, trail, knew, crashes>>
  BY DEF Sync!ReadTrail
<1>2. PICK a : a = run.from
  OBVIOUS
<1>3. PICK b : b = run.to
  OBVIOUS
<1>4. /\ a \in Stores /\ b \in Stores /\ run \in SyncRuns /\ RunClear(a, b)
      /\ trail[a] \in Seq(SyncRecords)
      /\ rows = [rows EXCEPT ![b] = rows[b]] /\ relations = [relations EXCEPT ![b] = relations[b]]
      /\ trail = [trail EXCEPT ![b] = trail[b]]
  BY <1>1, <1>2, <1>3, RunParts
<1>5. PICK todo : todo = trail[a]
  OBVIOUS
<1>6. PICK seen : seen = Len(trail[a])
  OBVIOUS
<1>7. PICK replay : replay = run.replay
  OBVIOUS
<1>8. seen \in Nat
  <2>. HIDE DEF SyncRecords
  <2>. QED  BY <1>4, <1>6
<1>9. todo \in Todos /\ "trail" \in Phases /\ replay \in ReplayRecords
  BY <1>4, <1>5, <1>7, ItemsFit DEF Phases, SyncRuns
<1>10. MovedOn(run', run, "trail", todo, seen, replay)
  BY <1>1, <1>2, <1>4, <1>5, <1>6, <1>7, <1>8, <1>9, RunMoves
<1>11. PICK list : list = rows[b]
  OBVIOUS
<1>12. PICK rels : rels = relations[b]
  OBVIOUS
<1>13. PICK log : log = trail[b]
  OBVIOUS
<1>14. SinkGets(a, b, list, rels, log)
  BY <1>1, <1>4, <1>11, <1>12, <1>13, ListStays DEF SinkGets
<1>15. ClearAt(a, "trail", todo, seen, replay, list, log)
  BY <1>1, <1>4, <1>6, <1>7, <1>11, <1>13 DEF RunClear, Waiting, ClearAt
<1>16. LiveBefore(a, list, rows[b]) /\ LinksAt("trail", rels)
  BY <1>1, <1>11, ListStays DEF LinksAt
<1>. QED  BY <1>1, <1>2, <1>3, <1>10, <1>14, <1>15, <1>16, RunGoesOn

LEMMA LinkHeadsCalm ==
    ASSUME SyncTyped, CalmInv, LinkInv, Sync!LinkHeads PROVE CalmInv' /\ LinkInv'
<1>1. PICK link : link = <<run.heads[1], run.heads[2], "conflicts_with">>
  OBVIOUS
<1>2. /\ run.phase = "trail" /\ run.todo = <<>> /\ run.replay = Sync!NoReplay
      /\ run' = [run EXCEPT !.phase = "done"] /\ UNCHANGED <<rows, trail, knew, crashes>>
      /\ relations' = IF run.heads # <<>> /\ link \notin Sync!ToSet(relations[run.to])
                      THEN [relations EXCEPT ![run.to] = Append(@, link)] ELSE relations
  BY <1>1 DEF Sync!LinkHeads
<1>3. PICK a : a = run.from
  OBVIOUS
<1>4. PICK b : b = run.to
  OBVIOUS
<1>5. /\ a \in Stores /\ b \in Stores /\ run \in SyncRuns /\ RunClear(a, b)
      /\ RunTyped(run, Sync!IdsOf(rows[b]), trail[a], trail[b], Len(knew))
      /\ relations[b] \in Seq(SyncRelations)
      /\ rows = [rows EXCEPT ![b] = rows[b]] /\ relations = [relations EXCEPT ![b] = relations[b]]
      /\ trail = [trail EXCEPT ![b] = trail[b]]
  BY <1>2, <1>3, <1>4, RunParts
<1>6. PICK todo : todo = run.todo
  OBVIOUS
<1>7. PICK seen : seen = run.seen
  OBVIOUS
<1>8. PICK replay : replay = run.replay
  OBVIOUS
<1>9. "done" \in Phases /\ seen \in Nat /\ replay \in ReplayRecords /\ todo \in Todos /\ run.heads \in Heads
  BY <1>5, <1>6, <1>7, <1>8 DEF Phases, SyncRuns
<1>10. MovedOn(run', run, "done", todo, seen, replay)
  BY <1>2, <1>5, <1>6, <1>7, <1>8, <1>9, RunMoves
<1>11. PICK list : list = rows[b]
  OBVIOUS
<1>12. PICK rels : rels = relations'[b]
  OBVIOUS
<1>13. PICK log : log = trail[b]
  OBVIOUS
<1>14. run.heads # <<>> => link \in SyncRelations
  BY <1>1, <1>9 DEF Heads, SyncRelations
<1>15. /\ relations' = [relations EXCEPT ![b] = rels] /\ Longer(rels, relations[b])
       /\ run.heads # <<>> => link \in Sync!ToSet(rels)
  <2>1. relations \in [Stores -> Seq(SyncRelations)]
    BY DEF SyncTyped
  <2>2. CASE run.heads # <<>> /\ link \notin Sync!ToSet(relations[b])
    <3>1. rels = Append(relations[b], link) /\ relations' = [relations EXCEPT ![b] = rels]
      <4>1. relations' = [relations EXCEPT ![b] = Append(relations[b], link)]
        BY <1>2, <1>4, <2>2
      <4>2. rels = Append(relations[b], link)
        <5>. HIDE DEF SyncRelations
        <5>. QED  BY <1>5, <1>12, <2>1, <4>1
      <4>. QED  BY <4>1, <4>2
    <3>2. Grown(Append(relations[b], link), relations[b], link)
      BY <1>5, <1>14, <2>2, AppendGrows
    <3>3. PICK before : before = relations[b]
      OBVIOUS
    <3>4. link \in Sync!ToSet(rels) /\ Longer(rels, before)
      BY <3>1, <3>2, <3>3, GrownIds
    <3>. QED  BY <3>1, <3>3, <3>4
  <2>3. CASE ~(run.heads # <<>> /\ link \notin Sync!ToSet(relations[b]))
    <3>1. relations' = relations /\ rels = relations[b]
      BY <1>2, <1>4, <1>12, <2>3
    <3>. QED  BY <1>5, <2>3, <3>1, ListStays
  <2>. QED  BY <2>2, <2>3
<1>16. SinkGets(a, b, list, rels, log)
  BY <1>2, <1>5, <1>11, <1>13, <1>15, ListStays DEF SinkGets
<1>17. ClearAt(a, "done", todo, seen, replay, list, log)
  BY <1>2, <1>5, <1>7, <1>8, <1>11, <1>13 DEF RunClear, Waiting, ClearAt
<1>18. LiveBefore(a, list, rows[b]) /\ LinksAt("done", rels)
  BY <1>1, <1>11, <1>15, ListStays DEF LinksAt
<1>. QED  BY <1>2, <1>3, <1>4, <1>10, <1>16, <1>17, <1>18, RunGoesOn

LEMMA ImportRelationCalm ==
    ASSUME SyncTyped, CalmInv, LinkInv, Sync!ImportRelation PROVE CalmInv' /\ LinkInv'
<1>1. run.phase = "relations" /\ run.todo # <<>> /\ UNCHANGED <<rows, trail, knew, crashes>>
  BY DEF Sync!ImportRelation, Sync!Working
<1>2. PICK a : a = run.from
  OBVIOUS
<1>3. PICK b : b = run.to
  OBVIOUS
<1>4. /\ a \in Stores /\ b \in Stores /\ run \in SyncRuns /\ RunClear(a, b)
      /\ RunTyped(run, Sync!IdsOf(rows[b]), trail[a], trail[b], Len(knew))
      /\ relations[b] \in Seq(SyncRelations)
      /\ rows = [rows EXCEPT ![b] = rows[b]] /\ relations = [relations EXCEPT ![b] = relations[b]]
      /\ trail = [trail EXCEPT ![b] = trail[b]]
  BY <1>1, <1>2, <1>3, RunParts
<1>5. PICK r : r = Head(run.todo)
  OBVIOUS
<1>6. PICK todo : todo = Tail(run.todo)
  OBVIOUS
<1>7. run.todo \in Seq(SyncRelations) /\ RelatesRows(run.todo, Sync!IdsOf(rows[a]))
  BY <1>1, <1>4 DEF RunTyped, RunClear
<1>8. r \in SyncRelations /\ todo \in Seq(SyncRelations)
  BY <1>1, <1>5, <1>6, <1>7, Taken
<1>9. /\ \A n \in DOMAIN todo : \E m \in DOMAIN run.todo : todo[n] = run.todo[m]
      /\ \E m \in DOMAIN run.todo : r = run.todo[m]
  <2>. HIDE DEF SyncRelations
  <2>. QED  BY <1>1, <1>5, <1>6, <1>7, TakenKeeps
<1>10. RelatesRows(todo, Sync!IdsOf(rows[a])) /\ {r[1], r[2]} \subseteq Sync!IdsOf(rows[a])
  BY <1>7, <1>9 DEF RelatesRows
<1>11. {r[1], r[2]} \subseteq Sync!IdsOf(rows[b])
  BY <1>1, <1>4, <1>10 DEF RunClear
<1>12. PICK seen : seen = run.seen
  OBVIOUS
<1>13. PICK replay : replay = run.replay
  OBVIOUS
<1>14. todo \in Todos /\ seen \in Nat /\ replay \in ReplayRecords /\ "relations" \in Phases
  BY <1>4, <1>8, <1>12, <1>13, ItemsFit DEF SyncRuns, Phases
<1>15. /\ run' = Sync!NextItem
       /\ relations' = relations \/ relations' = [relations EXCEPT ![b] = Append(@, r)]
  BY <1>3, <1>5, <1>11 DEF Sync!ImportRelation, Sync!Sink
<1>16. MovedOn(run', run, "relations", todo, seen, replay)
  BY <1>1, <1>4, <1>6, <1>12, <1>13, <1>14, <1>15, RunMoves DEF Sync!NextItem
<1>17. PICK list : list = rows[b]
  OBVIOUS
<1>18. PICK log : log = trail[b]
  OBVIOUS
<1>19. PICK rels : rels = relations'[b]
  OBVIOUS
<1>20. relations' = [relations EXCEPT ![b] = rels] /\ Longer(rels, relations[b])
  <2>1. CASE relations' = relations
    BY <1>4, <1>19, <2>1, ListStays
  <2>2. CASE relations' = [relations EXCEPT ![b] = Append(@, r)]
    <3>1. rels = Append(relations[b], r) /\ relations' = [relations EXCEPT ![b] = rels]
      <4>1. relations \in [Stores -> Seq(SyncRelations)]
        BY DEF SyncTyped
      <4>2. rels = Append(relations[b], r)
        <5>. HIDE DEF SyncRelations
        <5>. QED  BY <1>4, <1>19, <2>2, <4>1
      <4>. QED  BY <2>2, <4>2
    <3>2. Longer(Append(relations[b], r), relations[b])
      BY <1>4, <1>8, AppendGrows
    <3>. QED  BY <3>1, <3>2
  <2>. QED  BY <1>15, <2>1, <2>2
<1>21. SinkGets(a, b, list, rels, log)
  BY <1>1, <1>4, <1>17, <1>18, <1>20, ListStays DEF SinkGets
<1>22. ClearAt(a, "relations", todo, seen, replay, list, log)
  BY <1>1, <1>4, <1>10, <1>13, <1>17, <1>18 DEF RunClear, Waiting, ClearAt
<1>23. LiveBefore(a, list, rows[b]) /\ LinksAt("relations", rels)
  BY <1>1, <1>17, ListStays DEF LinksAt
<1>. QED  BY <1>1, <1>2, <1>3, <1>16, <1>21, <1>22, <1>23, RunGoesOn

LEMMA ImportObservationCalm ==
    ASSUME SyncTyped, CalmInv, LinkInv, Sync!ImportObservation PROVE CalmInv' /\ LinkInv'
<1>1. run.phase = "rows" /\ run.todo # <<>> /\ UNCHANGED <<relations, trail, knew, crashes>>
  BY DEF Sync!ImportObservation, Sync!Working
<1>2. PICK a : a = run.from
  OBVIOUS
<1>3. PICK b : b = run.to
  OBVIOUS
<1>4. /\ a \in Stores /\ b \in Stores /\ run \in SyncRuns /\ RunClear(a, b) /\ StoreClear(a)
      /\ RunTyped(run, Sync!IdsOf(rows[b]), trail[a], trail[b], Len(knew))
      /\ StoreTyped(b, rows[b], relations[b], trail[b], Len(knew)) /\ rows[b] \in Seq(SyncRows)
      /\ rows = [rows EXCEPT ![b] = rows[b]] /\ relations = [relations EXCEPT ![b] = relations[b]]
      /\ trail = [trail EXCEPT ![b] = trail[b]]
  BY <1>1, <1>2, <1>3, RunParts
<1>5. PICK row : row = Head(run.todo)
  OBVIOUS
<1>6. PICK todo : todo = Tail(run.todo)
  OBVIOUS
<1>7. /\ run.todo \in Seq(SyncRows) /\ \A n \in DOMAIN run.todo : run.todo[n] \in Sync!ToSet(rows[a])
      /\ Sync!IdsOf(rows[a]) \subseteq Sync!IdsOf(rows[b]) \cup Sync!IdsOf(run.todo)
      /\ run.replay = Sync!NoReplay
      /\ Explained(rows[b], trail[b], trail[a]) /\ Reflected(rows[b], trail[b], {})
  BY <1>1, <1>4 DEF RunTyped, RunClear, Waiting
<1>8. row \in SyncRows /\ todo \in Seq(SyncRows)
  BY <1>1, <1>5, <1>6, <1>7, Taken
<1>9. PICK items : items = run.todo
  OBVIOUS
<1>10. /\ \A n \in DOMAIN todo : \E m \in DOMAIN items : todo[n] = items[m]
       /\ \E m \in DOMAIN items : row = items[m]
       /\ Sync!IdsOf(items) \subseteq Sync!IdsOf(todo) \cup {row.id}
  <2>1. items \in Seq(SyncRows) /\ items # <<>> /\ row = Head(items) /\ todo = Tail(items)
    BY <1>1, <1>5, <1>6, <1>7, <1>9
  <2>. HIDE DEF SyncRows
  <2>. QED  BY <2>1, TakenKeeps
<1>11. /\ \A n \in DOMAIN todo : todo[n] \in Sync!ToSet(rows[a])
       /\ row \in Sync!ToSet(rows[a])
  BY <1>7, <1>9, <1>10
<1>12. /\ row.id \in Sync!IdsOf(rows[a]) /\ rows[a] # <<>>
       /\ row.status # "pending_review" => Tells(trail[a], row.id, row.status)
  BY <1>4, <1>11 DEF Sync!ToSet, Sync!IdsOf, StoreClear, Explained
<1>13. PICK seen : seen = run.seen
  OBVIOUS
<1>14. PICK replay : replay = run.replay
  OBVIOUS
<1>15. /\ todo \in Todos /\ seen \in Nat /\ replay \in ReplayRecords /\ "rows" \in Phases /\ row.id \in Nat
  BY <1>4, <1>8, <1>13, <1>14, ItemsFit DEF SyncRuns, Phases, SyncRows
<1>16. /\ run' = Sync!NextItem \/ run' = [Sync!NextItem EXCEPT !.conflicts = @ \cup {row.id}]
       /\ \/ row.id \in Sync!IdsOf(rows[b]) /\ rows' = rows
          \/ row.id \notin Sync!IdsOf(rows[b]) /\ rows' = [rows EXCEPT ![b] = Append(@, row)]
  BY <1>3, <1>5 DEF Sync!ImportObservation, Sync!Sink
<1>17. MovedOn(run', run, "rows", todo, seen, replay)
  <2>1. run' = [run EXCEPT !.todo = todo] \/ run' = [[run EXCEPT !.todo = todo] EXCEPT !.conflicts = @ \cup {row.id}]
    BY <1>6, <1>16 DEF Sync!NextItem
  <2>2. /\ MovedOn([run EXCEPT !.todo = todo], run, run.phase, todo, run.seen, run.replay)
        /\ MovedOn([[run EXCEPT !.todo = todo] EXCEPT !.conflicts = @ \cup {row.id}],
                   run, run.phase, todo, run.seen, run.replay)
    BY <1>4, <1>15, RunMoves
  <2>. QED  BY <1>1, <1>13, <1>14, <2>1, <2>2
<1>18. PICK before : before = rows[b]
  OBVIOUS
<1>19. PICK list : list = IF row.id \in Sync!IdsOf(before) THEN before ELSE Append(before, row)
  OBVIOUS
<1>20. PICK rels : rels = relations[b]
  OBVIOUS
<1>21. PICK log : log = trail[b]
  OBVIOUS
<1>22. PICK other : other = trail[a]
  OBVIOUS
<1>23. rows' = [rows EXCEPT ![b] = list]
  BY <1>4, <1>16, <1>18, <1>19
<1>24. /\ Sync!IdsOf(list) = Sync!IdsOf(before) \cup {row.id}
       /\ Explained(list, log, other) /\ Reflected(list, log, {})
       /\ LiveBefore(a, list, before)
  <2>1. CASE row.id \in Sync!IdsOf(before)
    BY <1>7, <1>18, <1>19, <1>21, <1>22, <2>1, ListStays
  <2>2. CASE row.id \notin Sync!IdsOf(before)
    <3>1. Grown(list, before, row)
      BY <1>4, <1>8, <1>18, <1>19, <2>2, AppendGrows
    <3>2. \A m \in DOMAIN log : log[m].id # row.id
      BY <1>4, <1>18, <1>21, <2>2 DEF StoreTyped, TellsOfRows
    <3>3. Explained(before, log, other) /\ Reflected(before, log, {})
      BY <1>7, <1>18, <1>21, <1>22
    <3>4. row.status # "pending_review" => Tells(other, row.id, row.status)
      BY <1>12, <1>22
    <3>5. Explained(list, log, other) /\ Reflected(list, log, {})
      BY <3>1, <3>2, <3>3, <3>4, RowClear
    <3>6. LiveBefore(a, list, before)
      BY <1>12, <3>1 DEF LiveBefore, Grown
    <3>. QED  BY <3>1, <3>5, <3>6, GrownIds
  <2>. QED  BY <2>1, <2>2
<1>25. SinkGets(a, b, list, rels, log)
  BY <1>1, <1>4, <1>18, <1>20, <1>21, <1>23, <1>24, ListStays DEF SinkGets
<1>26. ClearAt(a, "rows", todo, seen, replay, list, log)
  BY <1>7, <1>9, <1>10, <1>11, <1>14, <1>18, <1>22, <1>24 DEF ClearAt
<1>27. LiveBefore(a, list, rows[b]) /\ LinksAt("rows", rels)
  BY <1>1, <1>18, <1>24 DEF LinksAt
<1>. QED  BY <1>1, <1>2, <1>3, <1>17, <1>25, <1>26, <1>27, RunGoesOn

LEMMA ApplyImportedStatusCalm ==
    ASSUME SyncTyped, CalmInv, LinkInv, Sync!ApplyImportedStatus PROVE CalmInv' /\ LinkInv'
<1>1. /\ run.phase = "trail" /\ run.replay # Sync!NoReplay
      /\ rows' = [rows EXCEPT ![run.to] = Sync!SetStatus(@, run.replay.id, run.replay.to)]
      /\ run' = [run EXCEPT !.replay = Sync!NoReplay]
      /\ UNCHANGED <<relations, trail, knew, crashes>>
  BY DEF Sync!ApplyImportedStatus
<1>2. PICK a : a = run.from
  OBVIOUS
<1>3. PICK b : b = run.to
  OBVIOUS
<1>4. /\ a \in Stores /\ b \in Stores /\ run \in SyncRuns /\ RunClear(a, b)
      /\ rows[b] \in Seq(SyncRows)
      /\ rows = [rows EXCEPT ![b] = rows[b]] /\ relations = [relations EXCEPT ![b] = relations[b]]
      /\ trail = [trail EXCEPT ![b] = trail[b]]
  BY <1>1, <1>2, <1>3, RunParts
<1>5. PICK record : record = run.replay
  OBVIOUS
<1>6. PICK before : before = rows[b]
  OBVIOUS
<1>7. PICK list : list = Sync!SetStatus(before, record.id, record.to)
  OBVIOUS
<1>8. PICK rels : rels = relations[b]
  OBVIOUS
<1>9. PICK log : log = trail[b]
  OBVIOUS
<1>10. PICK other : other = trail[a]
  OBVIOUS
<1>11. PICK todo : todo = run.todo
  OBVIOUS
<1>12. PICK seen : seen = run.seen
  OBVIOUS
<1>13. /\ record \in Sync!ToSet(log) /\ Explained(before, log, other) /\ Reflected(before, log, {record})
       /\ \A n \in DOMAIN before : before[n].id = record.id =>
              Sync!IsLegalV2Transition(before[n].status, record.to)
       /\ Sync!IdsOf(rows[a]) \subseteq Sync!IdsOf(before) /\ seen = Len(trail[a])
  BY <1>1, <1>4, <1>5, <1>6, <1>9, <1>10, <1>12 DEF RunClear, Waiting
<1>14. StatusMoved(list, before, record.id, record.to)
  <2>1. before \in Seq(SyncRows)
    BY <1>4, <1>6
  <2>. QED  BY <1>7, <2>1, SetStatusMoves
<1>15. Explained(list, log, other) /\ Reflected(list, log, {})
  BY <1>13, <1>14, StatusClear
<1>16. Sync!IdsOf(list) = Sync!IdsOf(before)
  BY <1>14, MovedIds
<1>17. LiveBefore(a, list, before)
  <2>1. ASSUME NEW n \in DOMAIN list, list[n].status \in Sync!Live
        PROVE  /\ n \in DOMAIN before /\ before[n].id = list[n].id
               /\ before[n].status \in Sync!Live /\ (IsHead(before, n) => IsHead(list, n))
    <3>1. n \in DOMAIN before /\ before[n].id = list[n].id
      BY <1>14 DEF StatusMoved
    <3>2. before[n].status \in Sync!Live
      <4>1. CASE before[n].id = record.id
        BY <1>13, <3>1, <4>1, LegalReaches
      <4>2. CASE before[n].id # record.id
        BY <1>14, <2>1, <3>1, <4>2 DEF StatusMoved
      <4>. QED  BY <4>1, <4>2
    <3>3. IsHead(before, n) => IsHead(list, n)
      BY <1>14, <3>1, MovedIds
    <3>. QED  BY <3>1, <3>2, <3>3
  <2>. QED  BY <2>1 DEF LiveBefore
<1>18. rows' = [rows EXCEPT ![b] = list]
  BY <1>1, <1>3, <1>5, <1>6, <1>7
<1>19. SinkGets(a, b, list, rels, log)
  BY <1>1, <1>4, <1>6, <1>8, <1>9, <1>16, <1>18, ListStays DEF SinkGets
<1>20. PICK replay : replay = Sync!NoReplay
  OBVIOUS
<1>21. replay \in ReplayRecords /\ todo \in Todos /\ "trail" \in Phases /\ seen \in Nat
  BY <1>4, <1>11, <1>12, <1>20 DEF ReplayRecords, SyncRuns, Phases
<1>22. MovedOn(run', run, "trail", todo, seen, replay)
  <2>1. run' = [run EXCEPT !.replay = replay]
    BY <1>1, <1>20
  <2>2. MovedOn([run EXCEPT !.replay = replay], run, run.phase, run.todo, run.seen, replay)
    BY <1>4, <1>11, <1>21, RunMoves
  <2>. QED  BY <1>1, <1>11, <1>12, <2>1, <2>2
<1>23. ClearAt(a, "trail", todo, seen, replay, list, log)
  BY <1>10, <1>13, <1>15, <1>16, <1>20 DEF ClearAt
<1>24. LiveBefore(a, list, rows[b]) /\ LinksAt("trail", rels)
  BY <1>1, <1>6, <1>17 DEF LinksAt
<1>. QED  BY <1>1, <1>2, <1>3, <1>19, <1>22, <1>23, <1>24, RunGoesOn

\* A record that leads nowhere from where a row is leads to where the row has been.
LEMMA BehindOrReached ==
    ASSUME NEW status \in Sync!Statuses, NEW to \in {"approved"} \cup Ended
    PROVE  Sync!IsLegalV2Transition(status, to) \/ Reached(status, to)
BY DEF Sync!Statuses, Sync!Live, Sync!IsLegalV2Transition, Reached, Ended

LEMMA RecordsAreNoGap ==
    ASSUME NEW record \in SyncRecords PROVE record # Sync!NoReplay
<1>1. "to" \in DOMAIN record
  BY DEF SyncRecords
<1>2. DOMAIN Sync!NoReplay = {"id"}
  BY DEF Sync!NoReplay
<1>. QED  BY <1>1, <1>2

LEMMA ImportTransitionCalm ==
    ASSUME SyncTyped, CalmInv, LinkInv, Sync!ImportTransition PROVE CalmInv' /\ LinkInv'
<1>1. /\ run.phase = "trail" /\ run.todo # <<>> /\ run.replay = Sync!NoReplay
      /\ UNCHANGED <<rows, relations, knew, crashes>>
  BY DEF Sync!ImportTransition, Sync!Working
<1>2. PICK a : a = run.from
  OBVIOUS
<1>3. PICK b : b = run.to
  OBVIOUS
<1>4. /\ a \in Stores /\ b \in Stores /\ run \in SyncRuns /\ RunClear(a, b) /\ StoreClear(a)
      /\ RunTyped(run, Sync!IdsOf(rows[b]), trail[a], trail[b], Len(knew))
      /\ StoreTyped(b, rows[b], relations[b], trail[b], Len(knew)) /\ rows[b] \in Seq(SyncRows)
      /\ trail[b] \in Seq(SyncRecords) /\ trail[a] \in Seq(SyncRecords)
      /\ rows = [rows EXCEPT ![b] = rows[b]] /\ relations = [relations EXCEPT ![b] = relations[b]]
      /\ trail = [trail EXCEPT ![b] = trail[b]]
  BY <1>1, <1>2, <1>3, RunParts
<1>5. PICK record : record = Head(run.todo)
  OBVIOUS
<1>6. PICK todo : todo = Tail(run.todo)
  OBVIOUS
<1>7. run.todo \in Seq(SyncRecords) /\ Carried(trail[a], trail[b], run.todo, run.seen)
  BY <1>1, <1>4 DEF RunTyped
<1>8. /\ record \in SyncRecords /\ todo \in Seq(SyncRecords)
      /\ Len(run.todo) \in Nat /\ Len(run.todo) >= 1 /\ record = run.todo[1]
  BY <1>1, <1>5, <1>6, <1>7, Taken
\* The record stands in the source's log, and its row has got there.
<1>9. PICK m \in DOMAIN trail[a] : record = trail[a][m]
  <2>1. Len(trail[a]) \in Nat /\ DOMAIN trail[a] = 1..Len(trail[a])
    <3>. HIDE DEF SyncRecords
    <3>. QED  BY <1>4
  <2>2. /\ run.seen \in 0..Len(trail[a]) /\ Len(run.todo) <= run.seen
        /\ run.todo[1] = trail[a][run.seen - Len(run.todo) + 1]
    BY <1>7, <1>8 DEF Carried
  <2>3. run.seen - Len(run.todo) + 1 \in 1..Len(trail[a])
    BY <1>8, <2>1, <2>2
  <2>. QED  BY <1>8, <2>1, <2>2, <2>3
<1>10. record.id \in Sync!IdsOf(rows[a])
  BY <1>4, <1>9, RecordFacts
<1>11. record.id \in Sync!IdsOf(rows[b])
  BY <1>1, <1>4, <1>10 DEF RunClear
<1>12. record.to \in {"approved"} \cup Ended
  <2>1. PICK n \in DOMAIN rows[a] : rows[a][n].id = record.id
    BY <1>10 DEF Sync!IdsOf
  <2>2. Reached(rows[a][n].status, record.to)
    BY <1>4, <1>9, <2>1 DEF StoreClear, Reflected
  <2>. QED  BY <2>2 DEF Reached
<1>13. ASSUME NEW n \in DOMAIN rows[b], rows[b][n].id = record.id
       PROVE  Sync!RowOf(rows[b], record.id) = rows[b][n] /\ rows[b][n].status \in Sync!Statuses
  <2>1. RowsDiffer(rows[b])
    BY <1>4 DEF StoreTyped
  <2>2. Sync!RowOf(rows[b], record.id) = rows[b][n]
    BY <1>13, <2>1 DEF RowsDiffer, Sync!RowOf
  <2>3. rows[b][n] \in SyncRows
    <3>. HIDE DEF SyncRows
    <3>. QED  BY <1>4
  <2>. QED  BY <2>2, <2>3 DEF SyncRows
<1>14. PICK before : before = trail[b]
  OBVIOUS
<1>15. PICK log : log = IF record \in Sync!ToSet(before) THEN before ELSE Append(before, record)
  OBVIOUS
<1>16. PICK replay : replay = IF record \notin Sync!ToSet(before)
                                 /\ Sync!IsLegalV2Transition(Sync!RowOf(rows[b], record.id).status, record.to)
                              THEN record ELSE Sync!NoReplay
  OBVIOUS
<1>17. /\ trail' = [trail EXCEPT ![b] = log]
       /\ run' = IF replay = Sync!NoReplay THEN Sync!NextItem ELSE [Sync!NextItem EXCEPT !.replay = record]
  <2>1. record # Sync!NoReplay
    BY <1>8, RecordsAreNoGap
  <2>2. CASE record \in Sync!ToSet(before)
    <3>1. run' = Sync!NextItem /\ trail' = trail
      BY <1>3, <1>5, <1>14, <2>2 DEF Sync!ImportTransition
    <3>. QED  BY <1>4, <1>14, <1>15, <1>16, <2>2, <3>1
  <2>3. CASE record \notin Sync!ToSet(before)
    <3>1. /\ trail' = [trail EXCEPT ![b] = Append(@, record)]
          /\ run' = IF Sync!IsLegalV2Transition(Sync!RowOf(rows[b], record.id).status, record.to)
                    THEN [Sync!NextItem EXCEPT !.replay = record] ELSE Sync!NextItem
      BY <1>3, <1>5, <1>11, <1>14, <2>3 DEF Sync!ImportTransition, Sync!Sink, Sync!Replayable
    <3>. QED  BY <1>14, <1>15, <1>16, <2>1, <2>3, <3>1
  <2>. QED  BY <2>2, <2>3
<1>18. PICK seen : seen = run.seen
  OBVIOUS
<1>19. /\ todo \in Todos /\ seen \in Nat /\ record \in ReplayRecords /\ replay \in {Sync!NoReplay, record}
       /\ "trail" \in Phases
  BY <1>4, <1>8, <1>16, <1>18, ItemsFit DEF SyncRuns, Phases, ReplayRecords
<1>20. MovedOn(run', run, "trail", todo, seen, replay)
  <2>1. run' = IF replay = Sync!NoReplay THEN [run EXCEPT !.todo = todo]
               ELSE [[run EXCEPT !.todo = todo] EXCEPT !.replay = record]
    BY <1>6, <1>17 DEF Sync!NextItem
  <2>2. /\ MovedOn([run EXCEPT !.todo = todo], run, run.phase, todo, run.seen, run.replay)
        /\ MovedOn([[run EXCEPT !.todo = todo] EXCEPT !.replay = record],
                   run, run.phase, todo, run.seen, record)
    BY <1>4, <1>19, RunMoves
  <2>. QED  BY <1>1, <1>18, <1>19, <2>1, <2>2
<1>21. PICK list : list = rows[b]
  OBVIOUS
<1>22. PICK rels : rels = relations[b]
  OBVIOUS
<1>23. PICK other : other = trail[a]
  OBVIOUS
<1>24. PICK waiting : waiting = IF replay = Sync!NoReplay THEN {} ELSE {replay}
  OBVIOUS
<1>25. Explained(list, before, other) /\ Reflected(list, before, {})
  BY <1>1, <1>4, <1>14, <1>21, <1>23 DEF RunClear, Waiting
<1>26. record \notin Sync!ToSet(before) => Grown(log, before, record)
  BY <1>4, <1>8, <1>14, <1>15, AppendGrows
<1>27. Explained(list, log, other) /\ Reflected(list, log, waiting)
  <2>1. CASE record \in Sync!ToSet(before)
    BY <1>15, <1>16, <1>24, <1>25, <2>1
  <2>2. CASE record \notin Sync!ToSet(before)
    <3>1. ASSUME NEW n \in DOMAIN list, list[n].id = record.id
          PROVE  record \in waiting \/ Reached(list[n].status, record.to)
      <4>1. Sync!IsLegalV2Transition(list[n].status, record.to) => record = replay
        BY <1>13, <1>16, <1>21, <2>2, <3>1
      <4>2. record # Sync!NoReplay
        BY <1>8, RecordsAreNoGap
      <4>3. Sync!IsLegalV2Transition(list[n].status, record.to) \/ Reached(list[n].status, record.to)
        BY <1>12, <1>13, <1>21, <3>1, BehindOrReached
      <4>. QED  BY <1>24, <4>1, <4>2, <4>3
    <3>. QED  BY <1>25, <1>26, <2>2, <3>1, RecordClear
  <2>. QED  BY <2>1, <2>2
<1>28. /\ Longer(log, before) /\ (replay # Sync!NoReplay => replay \in Sync!ToSet(log))
       /\ \A k \in DOMAIN log : k \in DOMAIN before \/
             (log[k] \in Sync!ToSet(trail[a]) /\ log[k] \notin Sync!ToSet(before))
  <2>1. record \in Sync!ToSet(trail[a])
    BY <1>9 DEF Sync!ToSet
  <2>2. CASE record \in Sync!ToSet(before)
    BY <1>15, <1>16, <2>2, ListStays
  <2>3. CASE record \notin Sync!ToSet(before)
    <3>1. Longer(log, before) /\ Sync!ToSet(log) = Sync!ToSet(before) \cup {record}
      BY <1>26, <2>3, GrownIds
    <3>2. ASSUME NEW k \in DOMAIN log PROVE k \in DOMAIN before \/ log[k] = record
      BY <1>26, <2>3 DEF Grown
    <3>3. replay # Sync!NoReplay => replay \in Sync!ToSet(log)
      BY <1>16, <3>1
    <3>. QED  BY <2>1, <2>3, <3>1, <3>2, <3>3
  <2>. QED  BY <2>2, <2>3
<1>29. replay # Sync!NoReplay => \A n \in DOMAIN list : list[n].id = replay.id =>
           Sync!IsLegalV2Transition(list[n].status, replay.to)
  BY <1>13, <1>16, <1>21
<1>30. SinkGets(a, b, list, rels, log)
  BY <1>1, <1>4, <1>14, <1>17, <1>21, <1>22, <1>28, ListStays DEF SinkGets
<1>31. ClearAt(a, "trail", todo, seen, replay, list, log)
  <2>1. seen = Len(trail[a]) /\ Sync!IdsOf(rows[a]) \subseteq Sync!IdsOf(list)
    BY <1>1, <1>4, <1>18, <1>21 DEF RunClear
  <2>. QED  BY <1>23, <1>24, <1>27, <1>28, <1>29, <2>1 DEF ClearAt
<1>32. LiveBefore(a, list, rows[b]) /\ LinksAt("trail", rels)
  BY <1>1, <1>21, ListStays DEF LinksAt
<1>. QED  BY <1>1, <1>2, <1>3, <1>20, <1>30, <1>31, <1>32, RunGoesOn

LEMMA IdleIsNoRun == ASSUME SyncTyped, run.phase = "idle" PROVE run = Sync!NoRun
<1>1. run # Sync!NoRun => run \in SyncRuns
  BY DEF SyncTyped, RunTyped
<1>2. run \in SyncRuns => run.phase # "idle"
  BY DEF SyncRuns, Phases
<1>. QED  BY <1>1, <1>2

\* Of two stores, each is the other's only peer.
TwoStores == \A s, t, u \in Stores : s = t \/ t = u \/ s = u

LEMMA CalmKeeps ==
    ASSUME TwoStores, SyncTyped, CalmInv, LinkInv, Revisions \in Nat, Records \in Nat, Runs \in Nat, Calm!Next
    PROVE  CalmInv' /\ LinkInv'
<1>1. CASE Calm!LocalStep
  <2>1. run = Sync!NoRun
    <3>1. \A s : Calm!Save(s) => Calm!DecisionTurn(s)
      BY DEF Calm!Save
    <3>2. \A s, i : Calm!Approve(s, i) => Calm!DecisionTurn(s)
      BY DEF Calm!Approve
    <3>3. \A s, i : Calm!ApplyStatusTransition(s, i) => Calm!DecisionTurn(s)
      BY DEF Calm!ApplyStatusTransition
    <3>4. \A s, i, j : Calm!SupersedeExplicit(s, i, j) => Calm!DecisionTurn(s)
      BY DEF Calm!SupersedeExplicit
    <3>5. \E s \in Stores : Calm!DecisionTurn(s)
      BY <1>1, <3>1, <3>2, <3>3, <3>4 DEF Calm!LocalStep
    <3>. QED  BY <3>5, IdleIsNoRun DEF Calm!DecisionTurn, Calm!LocalTurn
  <2>2. PICK s \in Stores :
           \/ Sync!Save(s)
           \/ \E i \in Sync!IdsOf(rows[s]) :
                 \/ Sync!Approve(s, i)
                 \/ Sync!ApplyStatusTransition(s, i)
                 \/ \E j \in Sync!IdsOf(rows[s]) : Sync!SupersedeExplicit(s, i, j)
    BY <1>1, CalmIsSync DEF Sync!LocalStep
  <2>. QED  BY <2>1, <2>2, SaveCalm, ApproveCalm, StatusCalm
<1>2. CASE \E a, b \in Stores : Calm!Begin(a, b)
  BY <1>2, CalmIsSync, BeginCalm
<1>3. CASE Calm!RowStep
  BY <1>3, CalmIsSync, ImportObservationCalm, ReadRelationsCalm DEF Sync!RowStep
<1>4. CASE Calm!RelationStep
  BY <1>4, CalmIsSync, ImportRelationCalm, ReadTrailCalm, LinkHeadsCalm DEF Sync!RelationStep
<1>5. CASE Calm!TrailStep
  BY <1>5, CalmIsSync, ImportTransitionCalm, ApplyImportedStatusCalm DEF Sync!TrailStep
<1>6. CASE Calm!Finish
  BY <1>6, CalmIsSync, FinishCalm DEF TwoStores
<1>7. ~Calm!Crash
  BY DEF Calm!Crash, CalmInv
<1>. QED  BY <1>1, <1>2, <1>3, <1>4, <1>5, <1>6, <1>7 DEF Calm!Next

LEMMA CalmStarts ==
    ASSUME Calm!Init PROVE CalmInv /\ LinkInv
<1>1. /\ rows = [s \in Stores |-> <<>>] /\ relations = [s \in Stores |-> <<>>]
      /\ trail = [s \in Stores |-> <<>>] /\ run = Sync!NoRun /\ crashes = 0
  BY DEF Calm!Init, Calm!NoRun, Sync!NoRun
<1>2. \A s \in Stores : StoreClear(s) /\ EndsOnce(trail[s], s)
  BY <1>1 DEF StoreClear, Explained, Reflected, EndsOnce
<1>3. CalmInv
  BY <1>1, <1>2 DEF CalmInv
<1>4. LinkInv
  BY <1>1 DEF LinkInv, HeadsLinked
<1>. QED  BY <1>3, <1>4

LEMMA CalmStutters ==
    ASSUME CalmInv, LinkInv, UNCHANGED syncing
    PROVE  CalmInv' /\ LinkInv'
<1>1. CalmInv'
  BY DEF syncing, CalmInv, StoreClear, RunClear, Waiting
<1>2. LinkInv'
  BY DEF syncing, LinkInv, HeadsLinked, SinkLinked
<1>. QED  BY <1>1, <1>2

-----------------------------------------------------------------------------
\* Two statuses that are where records of the same set led, and show each of it.
LEMMA SameRecordsSameStatus ==
    ASSUME NEW told, NEW one, NEW other,
           one # "pending_review" => one \in told, other # "pending_review" => other \in told,
           \A to \in told : Reached(one, to) /\ Reached(other, to),
           \A x, y \in told : x \in Ended /\ y \in Ended => x = y
    PROVE  one = other
BY DEF Reached, Ended

\* What the invariants say of a completed run.
LEMMA DoneFacts ==
    ASSUME SyncTyped, CalmInv, LinkInv, run.phase = "done", NEW a, NEW b, a = run.from, b = run.to
    PROVE  /\ a \in Stores /\ b \in Stores
           /\ Sync!IdsOf(rows[a]) \subseteq Sync!IdsOf(rows[b]) /\ Sync!ToSet(trail[a]) \subseteq Sync!ToSet(trail[b])
           /\ Explained(rows[a], trail[a], trail[a]) /\ Reflected(rows[a], trail[a], {})
           /\ Explained(rows[b], trail[b], trail[a]) /\ Reflected(rows[b], trail[b], {})
           /\ rows[a] \in Seq(SyncRows) /\ rows[b] \in Seq(SyncRows) /\ SinkLinked(a, b)
<1>1. /\ a \in Stores /\ b \in Stores /\ run # Sync!NoRun /\ RunClear(a, b) /\ StoreClear(a)
      /\ RunTyped(run, Sync!IdsOf(rows[b]), trail[a], trail[b], Len(knew)) /\ SinkLinked(a, b)
      /\ trail[a] \in Seq(SyncRecords)
      /\ rows[a] \in Seq(SyncRows) /\ rows[b] \in Seq(SyncRows)
  BY RunParts
<1>2. Sync!ToSet(trail[a]) \subseteq Sync!ToSet(trail[b])
  <2>1. Carried(trail[a], trail[b], <<>>, run.seen) /\ run.seen = Len(trail[a])
    BY <1>1 DEF RunTyped, RunClear
  <2>2. DOMAIN trail[a] = 1..Len(trail[a]) /\ Len(trail[a]) \in Nat
    <3>. HIDE DEF SyncRecords
    <3>. QED  BY <1>1
  <2>. QED  BY <2>1, <2>2 DEF Carried, Sync!ToSet
<1>. QED  BY <1>1, <1>2 DEF RunClear, StoreClear, Waiting

LEMMA CalmConverges ==
    ASSUME SyncTyped, CalmInv, LinkInv PROVE Sync!CompletedRunConverges
<1>1. PICK a : a = run.from
  OBVIOUS
<1>2. PICK b : b = run.to
  OBVIOUS
<1>3. SUFFICES ASSUME run.phase = "done", NEW i \in Sync!IdsOf(rows[a])
               PROVE  /\ i \in Sync!IdsOf(rows[b])
                      /\ (/\ Sync!RecordsOf(b, i) \subseteq Sync!RecordsOf(a, i)
                          /\ \A q, r \in Sync!RecordsOf(a, i) : q.by = r.by) =>
                             Sync!RowOf(rows[b], i).status = Sync!RowOf(rows[a], i).status
  BY <1>1, <1>2 DEF Sync!CompletedRunConverges, Sync!Done, Sync!Sink
<1>4. /\ a \in Stores /\ b \in Stores
      /\ Sync!IdsOf(rows[a]) \subseteq Sync!IdsOf(rows[b]) /\ Sync!ToSet(trail[a]) \subseteq Sync!ToSet(trail[b])
      /\ Explained(rows[a], trail[a], trail[a]) /\ Reflected(rows[a], trail[a], {})
      /\ Explained(rows[b], trail[b], trail[a]) /\ Reflected(rows[b], trail[b], {})
      /\ rows[a] \in Seq(SyncRows) /\ rows[b] \in Seq(SyncRows)
  BY <1>1, <1>2, <1>3, DoneFacts
<1>5. ASSUME Sync!RecordsOf(b, i) \subseteq Sync!RecordsOf(a, i),
             \A q, r \in Sync!RecordsOf(a, i) : q.by = r.by
      PROVE  Sync!RowOf(rows[b], i).status = Sync!RowOf(rows[a], i).status
  <2>1. PICK k \in DOMAIN rows[a] : rows[a][k].id = i /\ Sync!RowOf(rows[a], i) = rows[a][k]
    BY <1>4, RowFound
  <2>2. PICK n \in DOMAIN rows[b] : rows[b][n].id = i /\ Sync!RowOf(rows[b], i) = rows[b][n]
    BY <1>4, RowFound
  <2>3. PICK told : told = {r.to : r \in Sync!RecordsOf(a, i)}
    OBVIOUS
  <2>4. Sync!RecordsOf(b, i) = Sync!RecordsOf(a, i)
    BY <1>4, <1>5 DEF Sync!RecordsOf
  <2>5. rows[a][k].status # "pending_review" => rows[a][k].status \in told
    BY <1>4, <2>1, <2>3 DEF Explained, Tells, Sync!RecordsOf, Sync!ToSet
  <2>6. rows[b][n].status # "pending_review" => rows[b][n].status \in told
    <3>1. ASSUME rows[b][n].status # "pending_review"
          PROVE  \E r \in Sync!RecordsOf(b, i) \cup Sync!RecordsOf(a, i) : r.to = rows[b][n].status
      BY <1>4, <2>2, <3>1 DEF Explained, Tells, Sync!RecordsOf, Sync!ToSet
    <3>. QED  BY <2>3, <2>4, <3>1
  <2>7. \A to \in told : Reached(rows[a][k].status, to)
    BY <1>4, <2>1, <2>3 DEF Reflected, Sync!RecordsOf, Sync!ToSet
  <2>8. \A to \in told : Reached(rows[b][n].status, to)
    BY <1>4, <2>2, <2>3, <2>4 DEF Reflected, Sync!RecordsOf, Sync!ToSet
  <2>9. ASSUME NEW q \in Sync!RecordsOf(a, i), NEW r \in Sync!RecordsOf(a, i), q.to \in Ended, r.to \in Ended
        PROVE  q.to = r.to
    <3>1. PICK m \in DOMAIN trail[a] : q = trail[a][m] /\ q.id = i
      BY DEF Sync!RecordsOf, Sync!ToSet
    <3>2. PICK l \in DOMAIN trail[a] : r = trail[a][l] /\ r.id = i
      BY DEF Sync!RecordsOf, Sync!ToSet
    <3>3. PICK s : s = q.by
      OBVIOUS
    <3>4. s \in Stores /\ r.by = s
      BY <1>4, <1>5, <3>1, <3>3, RecordFacts
    <3>5. q \in Sync!ToSet(trail[s]) /\ r \in Sync!ToSet(trail[s]) /\ EndsOnce(trail[s], s)
      BY <1>4, <3>1, <3>2, <3>3, <3>4 DEF CalmInv
    <3>. QED  BY <2>9, <3>1, <3>2, <3>3, <3>4, <3>5 DEF EndsOnce, Sync!ToSet
  <2>10. \A x, y \in told : x \in Ended /\ y \in Ended => x = y
    BY <2>3, <2>9
  <2>11. rows[a][k].status = rows[b][n].status
    BY <2>5, <2>6, <2>7, <2>8, <2>10, SameRecordsSameStatus
  <2>. QED  BY <2>1, <2>2, <2>11
<1>. QED  BY <1>3, <1>4, <1>5

LEMMA CalmLinks ==
    ASSUME SyncTyped, CalmInv, LinkInv PROVE Sync!UnsharedIsLinked
<1>1. PICK a : a = run.from
  OBVIOUS
<1>2. PICK b : b = run.to
  OBVIOUS
<1>3. SUFFICES ASSUME run.phase = "done", rows[a] # <<>>,
                      NEW j \in Sync!LiveIn(b), j \notin Sync!IdsOf(rows[a])
               PROVE  \E i \in Sync!IdsOf(rows[a]) : {i, j} \in Sync!Conflicts(b)
  BY <1>1, <1>2 DEF Sync!UnsharedIsLinked, Sync!Done
<1>4. b \in Stores /\ rows[b] \in Seq(SyncRows) /\ SinkLinked(a, b)
  BY <1>1, <1>2, <1>3, DoneFacts
<1>5. PICK n \in DOMAIN rows[b] : rows[b][n].id = j /\ Sync!RowOf(rows[b], j) = rows[b][n]
  BY <1>3, <1>4, RowFound DEF Sync!LiveIn
<1>6. rows[b][n].status \in Sync!Live
  BY <1>3, <1>5 DEF Sync!LiveIn
<1>7. Attached(relations[b], j, Sync!IdsOf(rows[a]))
  BY <1>3, <1>4, <1>5, <1>6 DEF SinkLinked
<1>. QED  BY <1>7 DEF Attached, Sync!Conflicts, Sync!ToSet

LEMMA CalmRunsMean ==
    Sync!CompletedRunConverges /\ Sync!UnsharedIsLinked => Calm!CompletedRunConverges /\ Calm!UnsharedIsLinked
<1>1. \A list : Calm!IdsOf(list) = Sync!IdsOf(list)
  BY DEF Calm!IdsOf, Sync!IdsOf
<1>2. \A list : Calm!ToSet(list) = Sync!ToSet(list)
  BY DEF Calm!ToSet, Sync!ToSet
<1>3. \A list, i : Calm!RowOf(list, i) = Sync!RowOf(list, i)
  BY DEF Calm!RowOf, Sync!RowOf
<1>4. \A s, i : Calm!RecordsOf(s, i) = Sync!RecordsOf(s, i)
  BY <1>2 DEF Calm!RecordsOf, Sync!RecordsOf
<1>5. \A s : Calm!LiveIn(s) = Sync!LiveIn(s)
  BY <1>1, <1>3 DEF Calm!LiveIn, Sync!LiveIn, Calm!Live, Sync!Live
<1>6. \A s : Calm!Conflicts(s) = Sync!Conflicts(s)
  BY <1>2 DEF Calm!Conflicts, Sync!Conflicts
<1>7. Sync!CompletedRunConverges => Calm!CompletedRunConverges
  BY <1>1, <1>3, <1>4 DEF Calm!CompletedRunConverges, Sync!CompletedRunConverges,
     Calm!Done, Sync!Done, Calm!Sink, Sync!Sink
<1>8. Sync!UnsharedIsLinked => Calm!UnsharedIsLinked
  BY <1>1, <1>5, <1>6 DEF Calm!UnsharedIsLinked, Sync!UnsharedIsLinked, Calm!Done, Sync!Done
<1>. QED  BY <1>7, <1>8

\* In the calm part its invariant holds.
LEMMA CalmGoesOn ==
    ASSUME TwoStores, SyncTyped, part = "calm" => CalmInv /\ LinkInv, [MCNext]_<<vars, syncing, part>>
    PROVE  (part = "calm" => CalmInv /\ LinkInv)'
<1>1. Revisions \in Nat /\ Records \in Nat /\ Runs \in Nat
  BY PartsAssumption DEF Busy!SyncAssumption
<1>2. part' = part
  BY DEF MCNext, ReviewPart, CalmPart, BusyPart
<1>3. SUFFICES ASSUME part = "calm" PROVE CalmInv' /\ LinkInv'
  BY <1>2
<1>4. CASE Calm!Next
  BY <1>1, <1>3, <1>4, CalmKeeps
<1>5. CASE UNCHANGED syncing
  BY <1>3, <1>5, CalmStutters
<1>6. Calm!Next \/ UNCHANGED syncing
  BY <1>3 DEF MCNext, ReviewPart, CalmPart, BusyPart
<1>. QED  BY <1>4, <1>5, <1>6

\* THEOREM.  Between two stores, after a run that nobody disturbs the sink has every row
\* of the source, in its status when only one store decided it, and a live revision that
\* only the sink has is linked as a conflict with one of the source; and every completed
\* run has carried over each record that it read.
THEOREM TwoStoresConverge == ASSUME TwoStores PROVE MCSpec => []RunsConverge
<1>. DEFINE RunsInv == SyncTyped /\ (part = "calm" => CalmInv /\ LinkInv)
<1>1. MCInit => RunsInv
  BY SyncStarts, CalmStarts DEF MCInit
<1>2. MemInv /\ RunsInv /\ [MCNext]_<<vars, syncing, part>> => RunsInv'
  BY TablesStay, CalmGoesOn
<1>3. RunsInv => RunsConverge
  BY SyncTypedMeans, BusyMeans, CalmConverges, CalmLinks, CalmRunsMean DEF RunsConverge
<1>. HIDE DEF RunsInv
<1>. QED  BY <1>1, <1>2, <1>3, TablesHold, PTL DEF MCSpec

=============================================================================
