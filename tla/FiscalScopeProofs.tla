-------------------------- MODULE FiscalScopeProofs --------------------------
(***************************************************************************)
(* Theorems about FiscalScope, for every set of handles, actors, references *)
(* and objects, and every number of memories and links: no change after     *)
(* the last link of a bound memory goes unnoticed by the layer, a guarded   *)
(* act on it is linked, and enforcing handles leave nothing unbound.        *)
(***************************************************************************)
EXTENDS FiscalScope, TLAPS

-----------------------------------------------------------------------------
(* Sequences whose elements are not typed beforehand *)

IsSeq(s) == Len(s) \in Nat /\ s \in [1..Len(s) -> {s[n] : n \in 1..Len(s)}]

LEMMA EmptyIsSeq == IsSeq(<<>>) /\ Len(<<>>) = 0
  BY DEF IsSeq

LEMMA FunctionIsSeq ==
    ASSUME NEW s, NEW n \in Nat, s = [k \in 1..n |-> s[k]]
    PROVE  IsSeq(s) /\ Len(s) = n
  <1> DEFINE S == {s[k] : k \in 1..n}
  <1>1. s \in [1..n -> S]
    OBVIOUS
  <1>2. s \in Seq(S)
    BY <1>1
  <1>3. Len(s) = n
    BY <1>1, <1>2
  <1>4. QED
    BY <1>1, <1>3 DEF IsSeq

LEMMA SeqAppend ==
    ASSUME NEW s, IsSeq(s), NEW e
    PROVE  LET t == Append(s, e)
           IN  /\ IsSeq(t) /\ Len(t) = Len(s) + 1 /\ t[Len(s) + 1] = e /\ t # <<>>
               /\ \A n \in 1..Len(s) : t[n] = s[n]
  <1> DEFINE S == {s[n] : n \in 1..Len(s)} \cup {e}
             t == Append(s, e)
  <1>1. s \in [1..Len(s) -> S] /\ Len(s) \in Nat
    BY DEF IsSeq
  <1>2. s \in Seq(S) /\ e \in S
    BY <1>1
  <1> HIDE DEF S
  <1>3. /\ t \in Seq(S) /\ Len(t) = Len(s) + 1 /\ t[Len(s) + 1] = e
        /\ \A n \in 1..Len(s) : t[n] = s[n]
    BY <1>2
  <1> HIDE DEF t
  <1>4. t # <<>> /\ IsSeq(t)
    BY <1>1, <1>3 DEF IsSeq
  <1>5. QED
    BY <1>3, <1>4 DEF t

Updated(s, i, e) == [s EXCEPT ![i] = e]

LEMMA SeqUpdate ==
    ASSUME NEW s, IsSeq(s), NEW i \in 1..Len(s), NEW e
    PROVE  /\ IsSeq(Updated(s, i, e)) /\ Len(Updated(s, i, e)) = Len(s)
           /\ \A n \in 1..Len(s) : Updated(s, i, e)[n] = IF n = i THEN e ELSE s[n]
  <1> DEFINE S == {s[n] : n \in 1..Len(s)} \cup {e}
             t == [s EXCEPT ![i] = e]
  <1>1. s \in [1..Len(s) -> S] /\ Len(s) \in Nat /\ e \in S
    BY DEF IsSeq
  <1>2. s \in Seq(S)
    BY <1>1
  <1> HIDE DEF S
  <1>3. /\ t \in Seq(S) /\ Len(t) = Len(s)
        /\ \A n \in 1..Len(s) : t[n] = IF n = i THEN e ELSE s[n]
    BY <1>1, <1>2
  <1> HIDE DEF t
  <1>4. IsSeq(t)
    BY <1>1, <1>3 DEF IsSeq
  <1>5. QED
    BY <1>3, <1>4 DEF t, Updated

-----------------------------------------------------------------------------
(* The rows, and what a step may do to one *)

RowStatuses == Live \cup {"rejected", "superseded", "voided"}

IsRow(r) == /\ r \in [status : RowStatuses, refs : SUBSET Refs, succ : 0..MaxMemories,
                      by : Actors, links : {r.links}]
            /\ IsSeq(r.links)

\* Statuses only move forward, so none comes back.
Rank(status) == CASE status = "pending_review" -> 0
                  [] status \in {"approved", "returned", "rejected"} -> 1
                  [] OTHER -> 2

Later(new, old) ==
    /\ new.by = old.by /\ old.refs \subseteq new.refs
    /\ \/ new.status = old.status /\ new.succ = old.succ
       \/ Rank(old.status) < Rank(new.status)

\* A change that appends no link.
Loose(new, old) == IsRow(new) /\ new.links = old.links /\ new # old /\ Later(new, old)

\* A change with its link, of an act that is not on record yet.
Linked(new, old) ==
    /\ IsRow(new) /\ Later(new, old)
    /\ Len(new.links) = Len(old.links) + 1
    /\ \A n \in 1..Len(old.links) : /\ new.links[n] = old.links[n]
                                    /\ old.links[n].act # new.links[Len(new.links)].act
    /\ new.links[Len(new.links)].resulting = Envelope(new)
    /\ new.links[Len(new.links)].act.binding.op = "memory.approve" => new.status # "pending_review"

\* A new row, unbound or with its first link.
Created(new) ==
    /\ IsRow(new) /\ Len(new.links) \in {0, 1}
    /\ Len(new.links) = 1 => /\ new.links[1].resulting = Envelope(new)
                             /\ new.links[1].act.binding.op # "memory.approve"

RowChange(new, old) == new = old \/ Loose(new, old) \/ Linked(new, old)

LEMMA EnvelopeEqual ==
    ASSUME NEW r, NEW s, Envelope(r) = Envelope(s)
    PROVE  /\ r.status = s.status /\ r.refs = s.refs /\ r.succ = s.succ
           /\ Envelope(r).acts = Envelope(s).acts
  <1>1. /\ Envelope(r).status = r.status /\ Envelope(r).refs = r.refs /\ Envelope(r).succ = r.succ
        /\ Envelope(s).status = s.status /\ Envelope(s).refs = s.refs /\ Envelope(s).succ = s.succ
    BY DEF Envelope
  <1>2. QED
    BY <1>1

LEMMA EnvelopeOfSame ==
    ASSUME NEW r, NEW s, r.status = s.status, r.refs = s.refs, r.succ = s.succ,
           DOMAIN r.links = DOMAIN s.links,
           \A n \in DOMAIN r.links : r.links[n].act = s.links[n].act
    PROVE  Envelope(r) = Envelope(s)
  <1>1. [n \in DOMAIN r.links |-> r.links[n].act] = [n \in DOMAIN s.links |-> s.links[n].act]
    OBVIOUS
  <1>2. QED
    BY <1>1 DEF Envelope

\* The row with the link of an act: the link records the envelope that it leaves.
IsLinkedRow(new, row, b, reviewed) ==
    LET n == Len(row.links) + 1
    IN  /\ IsRow(new) /\ new.status = row.status /\ new.refs = row.refs
        /\ new.succ = row.succ /\ new.by = row.by
        /\ Len(new.links) = n
        /\ \A k \in 1..Len(row.links) : new.links[k] = row.links[k]
        /\ new.links[n].act = ActEvidence(b, reviewed)
        /\ new.links[n].resulting = Envelope(new)

LEMMA WithLinkRow ==
    ASSUME NEW row, IsRow(row), NEW b, NEW reviewed
    PROVE  IsLinkedRow(WithLink(row, b, reviewed), row, b, reviewed)
  <1> DEFINE act     == ActEvidence(b, reviewed)
             pending == [row EXCEPT !.links = Append(@, [act |-> act])]
             env     == Envelope(pending)
             link    == [act |-> act, resulting |-> env]
             new     == [row EXCEPT !.links = Append(@, link)]
             n       == Len(row.links) + 1
             open    == Append(row.links, [act |-> act])
             closed  == Append(row.links, link)
  <1>1. IsSeq(row.links) /\ Len(row.links) \in Nat
    BY DEF IsRow, IsSeq
  <1>2. link.act = act /\ link.resulting = env
    OBVIOUS
  <1>3. /\ pending.links = open /\ pending.status = row.status /\ pending.refs = row.refs
        /\ pending.succ = row.succ
    BY DEF IsRow
  <1>4. /\ new.links = closed /\ new.status = row.status /\ new.refs = row.refs
        /\ new.succ = row.succ /\ new.by = row.by
        /\ new \in [status : RowStatuses, refs : SUBSET Refs, succ : 0..MaxMemories,
                    by : Actors, links : {new.links}]
    BY DEF IsRow
  <1>5. WithLink(row, b, reviewed) = new
    BY DEF WithLink
  <1> HIDE DEF act, pending, env, new, link
  <1>6. /\ IsSeq(open) /\ Len(open) = n /\ open[n] = [act |-> act]
        /\ \A k \in 1..Len(row.links) : open[k] = row.links[k]
    BY <1>1, SeqAppend
  <1>7. /\ IsSeq(closed) /\ Len(closed) = n /\ closed[n] = link
        /\ \A k \in 1..Len(row.links) : closed[k] = row.links[k]
    BY <1>1, SeqAppend
  <1> HIDE DEF open, closed
  <1>8. env = Envelope(new)
    <2>1. DOMAIN pending.links = 1..n /\ DOMAIN new.links = 1..n
      BY <1>3, <1>4, <1>6, <1>7 DEF IsSeq
    <2>2. ASSUME NEW k \in 1..n PROVE pending.links[k].act = new.links[k].act
      <3>1. CASE k = n
        BY <1>2, <1>3, <1>4, <1>6, <1>7, <3>1
      <3>2. CASE k # n
        BY <1>1, <1>3, <1>4, <1>6, <1>7, <3>2
      <3>3. QED
        BY <3>1, <3>2
    <2>3. pending.status = new.status /\ pending.refs = new.refs /\ pending.succ = new.succ
      BY <1>3, <1>4
    <2>4. Envelope(pending) = Envelope(new)
      BY <2>1, <2>2, <2>3, EnvelopeOfSame
    <2>5. QED
      BY <2>4 DEF env
  <1>9. IsRow(new)
    BY <1>4, <1>7 DEF IsRow
  <1>10. new.links[n].act = act /\ new.links[n].resulting = Envelope(new)
    BY <1>2, <1>4, <1>7, <1>8
  <1>11. QED
    BY <1>4, <1>5, <1>7, <1>9, <1>10 DEF act, IsLinkedRow

-----------------------------------------------------------------------------
(* The rows after each step *)

RowsOK == IsSeq(memories) /\ Len(memories) <= MaxMemories /\ \A i \in MemoryIds : IsRow(memories[i])

\* An approval is on record only for what is pending no more, and no act twice.
ActsOK(r) ==
    /\ \A n \in 1..Len(r.links) :
           r.links[n].act.binding.op = "memory.approve" => r.status # "pending_review"
    /\ \A m, n \in 1..Len(r.links) : r.links[m].act = r.links[n].act => m = n

RowsInv == RowsOK /\ \A i \in MemoryIds : ActsOK(memories[i])

\* What a step may do to the memories.
RowsStep ==
    /\ IsSeq(memories') /\ Len(memories) <= Len(memories') /\ Len(memories') <= MaxMemories
    /\ \A i \in MemoryIds : RowChange(memories'[i], memories[i])
    /\ \A i \in MemoryIds' \ MemoryIds : Created(memories'[i])

LEMMA RowOf ==
    ASSUME RowsOK, NEW i \in MemoryIds
    PROVE  /\ IsRow(memories[i]) /\ memories[i].status \in RowStatuses
           /\ memories[i].refs \subseteq Refs /\ memories[i].succ \in 0..MaxMemories
           /\ memories[i].by \in Actors /\ IsSeq(memories[i].links) /\ Len(memories[i].links) \in Nat
           /\ i \in Nat /\ i \in 1..MaxMemories /\ Len(memories) \in Nat
  <1>1. IsRow(memories[i]) /\ Len(memories) \in Nat /\ Len(memories) <= MaxMemories
    BY DEF RowsOK, IsSeq
  <1>2. i \in Nat /\ i \in 1..MaxMemories
    BY <1>1, FiscalScopeAssumption DEF MemoryIds
  <1>3. QED
    BY <1>1, <1>2 DEF IsRow, IsSeq

\* A step that rewrites one row.
LEMMA RewriteStep ==
    ASSUME RowsOK, NEW i \in MemoryIds, NEW row, memories' = Updated(memories, i, row),
           RowChange(row, memories[i])
    PROVE  /\ RowsStep /\ MemoryIds' = MemoryIds
           /\ \A k \in MemoryIds : memories'[k] = IF k = i THEN row ELSE memories[k]
  <1>1. /\ IsSeq(memories') /\ Len(memories') = Len(memories)
        /\ \A k \in 1..Len(memories) : memories'[k] = IF k = i THEN row ELSE memories[k]
    <2>1. IsSeq(memories) /\ i \in 1..Len(memories)
      BY DEF RowsOK, MemoryIds
    <2>2. /\ IsSeq(Updated(memories, i, row)) /\ Len(Updated(memories, i, row)) = Len(memories)
          /\ \A k \in 1..Len(memories) :
                Updated(memories, i, row)[k] = IF k = i THEN row ELSE memories[k]
      BY <2>1, SeqUpdate
    <2>3. QED
      BY <2>2
  <1>2. MemoryIds' = MemoryIds /\ Len(memories) \in Nat
    BY <1>1 DEF MemoryIds, RowsOK, IsSeq
  <1>3. \A k \in MemoryIds : RowChange(memories'[k], memories[k])
    BY <1>1 DEF RowChange, MemoryIds
  <1>4. QED
    BY <1>1, <1>2, <1>3 DEF RowsStep, RowsOK, MemoryIds

\* What a guarded act writes: the changed row, with the act unless it came without a
\* binding.
LEMMA ActWrite ==
    ASSUME NEW old, IsRow(old), NEW mid, IsRow(mid), mid.links = old.links, Later(mid, old),
           NEW b, NEW reviewed,
           \A n \in 1..Len(old.links) : old.links[n].act # ActEvidence(b, reviewed),
           b.op = "memory.approve" => mid.status # "pending_review"
    PROVE  LET new == WithLink(mid, b, reviewed)
           IN  /\ Linked(new, old) /\ new.links # old.links
               /\ new.status = mid.status /\ new.refs = mid.refs
  <1> DEFINE new == WithLink(mid, b, reviewed)
             n   == Len(old.links) + 1
  <1>1. /\ IsRow(new) /\ new.status = mid.status /\ new.refs = mid.refs
        /\ new.succ = mid.succ /\ new.by = mid.by
        /\ Len(new.links) = n
        /\ \A k \in 1..Len(old.links) : new.links[k] = old.links[k]
        /\ new.links[n].act = ActEvidence(b, reviewed)
        /\ new.links[n].resulting = Envelope(new)
    <2>1. IsLinkedRow(new, mid, b, reviewed)
      BY WithLinkRow
    <2> HIDE DEF new
    <2>2. QED
      BY <2>1 DEF IsLinkedRow
  <1> HIDE DEF new
  <1>2. Len(old.links) \in Nat
    BY DEF IsRow, IsSeq
  <1>3. ActEvidence(b, reviewed).binding.op = b.op
    BY DEF ActEvidence
  <1>4. new.links # old.links
    BY <1>1, <1>2
  <1>5. Later(new, old)
    BY <1>1 DEF Later
  <1>6. Linked(new, old)
    BY <1>1, <1>2, <1>3, <1>5 DEF Linked
  <1>7. QED
    BY <1>1, <1>4, <1>6 DEF new

\* A row whose status moves on, alone.
LEMMA MovesOn ==
    ASSUME NEW row, IsRow(row), NEW to \in RowStatuses, NEW succ \in 0..MaxMemories,
           Rank(row.status) < Rank(to), Rank(to) \in Nat, Rank(row.status) \in Nat
    PROVE  LET new == [row EXCEPT !.status = to, !.succ = succ]
           IN  Loose(new, row) /\ IsRow(new) /\ new.links = row.links /\ new.status = to
  <1> DEFINE new == [row EXCEPT !.status = to, !.succ = succ]
  <1>1. /\ new.links = row.links /\ new.status = to /\ new.by = row.by /\ new.refs = row.refs
        /\ new \in [status : RowStatuses, refs : SUBSET Refs, succ : 0..MaxMemories,
                    by : Actors, links : {new.links}]
    BY DEF IsRow
  <1> HIDE DEF new
  <1>2. new.status # row.status
    BY <1>1
  <1>3. IsRow(new)
    BY <1>1 DEF IsRow
  <1>4. QED
    BY <1>1, <1>2, <1>3 DEF Loose, Later, new

LEMMA RowUnmoved ==
    ASSUME NEW row, IsRow(row), NEW to \in RowStatuses,
           Rank(row.status) < Rank(to), Rank(to) \in Nat, Rank(row.status) \in Nat
    PROVE  LET new == [row EXCEPT !.status = to]
           IN  Loose(new, row) /\ IsRow(new) /\ new.links = row.links /\ new.status = to
  <1> DEFINE new == [row EXCEPT !.status = to]
  <1>1. /\ new.links = row.links /\ new.status = to /\ new.by = row.by /\ new.refs = row.refs
        /\ new \in [status : RowStatuses, refs : SUBSET Refs, succ : 0..MaxMemories,
                    by : Actors, links : {new.links}]
    BY DEF IsRow
  <1> HIDE DEF new
  <1>2. new.status # row.status
    BY <1>1
  <1>3. IsRow(new)
    BY <1>1 DEF IsRow
  <1>4. QED
    BY <1>1, <1>2, <1>3 DEF Loose, Later, new

\* A row that gains references, alone.
LEMMA GainsRefs ==
    ASSUME NEW row, IsRow(row), NEW refs \in SUBSET Refs
    PROVE  LET new == [row EXCEPT !.refs = @ \cup refs]
           IN  /\ IsRow(new) /\ new.links = row.links /\ new.status = row.status
               /\ new.refs = row.refs \cup refs /\ Later(new, row)
               /\ new = row \/ Loose(new, row)
  <1> DEFINE new == [row EXCEPT !.refs = @ \cup refs]
  <1>1. /\ new.links = row.links /\ new.status = row.status /\ new.by = row.by
        /\ new.refs = row.refs \cup refs /\ new.succ = row.succ
        /\ new \in [status : RowStatuses, refs : SUBSET Refs, succ : 0..MaxMemories,
                    by : Actors, links : {new.links}]
    BY DEF IsRow
  <1> HIDE DEF new
  <1>2. IsRow(new)
    BY <1>1 DEF IsRow
  <1>3. QED
    BY <1>1, <1>2 DEF Loose, Later, new

LEMMA Ranks ==
    /\ \A s : Rank(s) \in Nat
    /\ Rank("pending_review") = 0 /\ Rank("approved") = 1 /\ Rank("returned") = 1
    /\ Rank("rejected") = 1 /\ Rank("superseded") = 2 /\ Rank("voided") = 2
    /\ \A s \in Live : Rank(s) < Rank("superseded")
  BY DEF Rank, Live

LEMMA BlankRow ==
    ASSUME NEW a \in Actors
    PROVE  LET blank == [status |-> "pending_review", refs |-> {}, succ |-> 0, by |-> a, links |-> <<>>]
           IN  IsRow(blank) /\ blank.links = <<>>
  <1> DEFINE blank == [status |-> "pending_review", refs |-> {}, succ |-> 0, by |-> a, links |-> <<>>]
  <1>1. IsSeq(<<>>) /\ 0 \in 0..MaxMemories /\ "pending_review" \in RowStatuses
    BY EmptyIsSeq, FiscalScopeAssumption DEF RowStatuses, Live
  <1>2. blank \in [status : RowStatuses, refs : SUBSET Refs, succ : 0..MaxMemories,
                   by : Actors, links : {blank.links}]
    BY <1>1
  <1>3. QED
    BY <1>1, <1>2 DEF IsRow

\* An unbound row with its first link.
LEMMA FirstLink ==
    ASSUME NEW blank, IsRow(blank), Len(blank.links) = 0, NEW b, b.op # "memory.approve", NEW reviewed
    PROVE  Created(WithLink(blank, b, reviewed)) /\ WithLink(blank, b, reviewed).links # <<>>
  <1> DEFINE new == WithLink(blank, b, reviewed)
             n   == Len(blank.links) + 1
  <1>1. /\ IsRow(new) /\ Len(new.links) = n
        /\ new.links[n].act = ActEvidence(b, reviewed)
        /\ new.links[n].resulting = Envelope(new)
    <2>1. IsLinkedRow(new, blank, b, reviewed)
      BY WithLinkRow
    <2> HIDE DEF new
    <2>2. QED
      BY <2>1 DEF IsLinkedRow
  <1>2. ActEvidence(b, reviewed).binding.op = b.op
    BY DEF ActEvidence
  <1>2a. n = 1
    OBVIOUS
  <1> HIDE DEF new, n
  <1>3. Created(new) /\ new.links # <<>>
    BY <1>1, <1>2, <1>2a, EmptyIsSeq DEF Created
  <1>4. QED
    BY <1>3 DEF new

\* A save supersedes the row before it and inserts one, linked when it is bound.
LEMMA SaveRows ==
    ASSUME RowsOK, NEW h \in Handles, NEW a \in Actors, NEW intent \in Fitting("memory.save", a),
           Save(h, a, intent)
    PROVE  /\ RowsStep /\ MemoryIds \subseteq MemoryIds'
           /\ h = "enforce" => \A i \in MemoryIds' \ MemoryIds : memories'[i].links # <<>>
  <1> DEFINE i     == Len(memories) + 1
             blank == [status |-> "pending_review", refs |-> {}, succ |-> 0, by |-> a, links |-> <<>>]
             row   == IF intent = NoIntent THEN blank ELSE WithLink(blank, intent, NotReviewed)
             gone(k) == [memories[k] EXCEPT !.status = "superseded", !.succ = i]
             kept  == [k \in MemoryIds |-> IF k = Len(memories) /\ memories[k].status \in Live
                                           THEN gone(k) ELSE memories[k]]
  <1>1. /\ memories' = Append(kept, row) /\ i <= MaxMemories /\ Len(memories) \in Nat /\ i \in Nat
        /\ GateOpen(h, Class(<<>>, intent)) /\ IsSeq(memories)
    <2>1. memories' = Append(kept, row) /\ i <= MaxMemories /\ GateOpen(h, Class(<<>>, intent))
      BY DEF Save
    <2>2. IsSeq(memories) /\ Len(memories) \in Nat
      BY DEF RowsOK, IsSeq
    <2> HIDE DEF kept, row
    <2>3. QED
      BY <2>1, <2>2
  <1>1a. i \in 0..MaxMemories
    <2>1. i \in Nat /\ i <= MaxMemories
      BY <1>1
    <2>2. QED
      BY <2>1, FiscalScopeAssumption
  <1>2. IsRow(blank) /\ blank.links = <<>> /\ Len(blank.links) = 0
    BY BlankRow, EmptyIsSeq
  <1>3. Created(row) /\ (intent # NoIntent => row.links # <<>>)
    <2>1. CASE intent = NoIntent
      BY <1>2, <2>1 DEF Created
    <2>2. CASE intent # NoIntent
      <3>1. intent.op # "memory.approve"
        BY <2>2 DEF Fitting
      <3> HIDE DEF blank
      <3>2. Created(WithLink(blank, intent, NotReviewed))
            /\ WithLink(blank, intent, NotReviewed).links # <<>>
        BY <1>2, <3>1, FirstLink
      <3>3. QED
        BY <2>2, <3>2
    <2>3. QED
      BY <2>1, <2>2
  <1> HIDE DEF row, blank
  <1>4. ASSUME NEW k \in MemoryIds PROVE RowChange(kept[k], memories[k])
    <2>1. CASE k = Len(memories) /\ memories[k].status \in Live
      <3>1. i \in 0..MaxMemories /\ "superseded" \in RowStatuses
        BY <1>1a DEF RowStatuses
      <3>2. IsRow(memories[k]) /\ memories[k].status \in RowStatuses
        BY RowOf
      <3>3. Rank(memories[k].status) < Rank("superseded") /\ Rank(memories[k].status) \in Nat
            /\ Rank("superseded") \in Nat
        BY <2>1, Ranks
      <3>4. Loose(gone(k), memories[k])
        BY <3>1, <3>2, <3>3, MovesOn
      <3>5. QED
        BY <2>1, <3>4 DEF RowChange
    <2>2. CASE ~(k = Len(memories) /\ memories[k].status \in Live)
      BY <2>2 DEF RowChange
    <2>3. QED
      BY <2>1, <2>2
  <1>5. kept = [k \in 1..Len(memories) |-> kept[k]]
    BY DEF MemoryIds
  <1> HIDE DEF kept
  <1>6. IsSeq(kept) /\ Len(kept) = Len(memories)
    BY <1>1, <1>5, FunctionIsSeq
  <1>7. /\ IsSeq(memories') /\ Len(memories') = i /\ memories'[i] = row
        /\ \A k \in 1..Len(memories) : memories'[k] = kept[k]
    BY <1>1, <1>6, SeqAppend
  <1>8. MemoryIds' = MemoryIds \cup {i} /\ \A k \in MemoryIds : memories'[k] = kept[k]
    BY <1>1, <1>7 DEF MemoryIds
  <1>9. RowsStep
    <2>1. Len(memories) <= Len(memories') /\ Len(memories') <= MaxMemories
      BY <1>1, <1>7
    <2>2. \A k \in MemoryIds : RowChange(memories'[k], memories[k])
      BY <1>4, <1>8
    <2>3. \A k \in MemoryIds' \ MemoryIds : Created(memories'[k])
      BY <1>3, <1>7, <1>8
    <2>4. QED
      BY <1>7, <2>1, <2>2, <2>3 DEF RowsStep
  <1>10. h = "enforce" => row.links # <<>>
    BY <1>1, <1>3 DEF GateOpen, Class
  <1>11. QED
    BY <1>7, <1>8, <1>9, <1>10

\* An approval of a bound memory is linked.
LEMMA ApproveRows ==
    ASSUME RowsInv, NEW h \in Handles, NEW p \in Actors, NEW i \in MemoryIds,
           NEW intent \in Fitting("memory.approve", p), NEW readable \in BOOLEAN,
           Approve(h, p, i, intent, readable)
    PROVE  /\ RowsStep /\ MemoryIds' = MemoryIds
           /\ \A k \in MemoryIds : memories'[k] # memories[k] /\ Bound(k) =>
                 memories'[k].links # memories[k].links
  <1> DEFINE row == [memories[i] EXCEPT !.status = "approved"]
             new == IF intent = NoIntent THEN row ELSE WithLink(row, intent, Envelope(memories[i]))
  <1>1. /\ RequiresIntent(memories[i].links, intent) /\ memories[i].status = "pending_review"
        /\ memories' = Updated(memories, i, new)
    BY DEF Approve, VerifiedLinks, Updated
  <1>2. IsRow(memories[i]) /\ RowsOK /\ ActsOK(memories[i])
    BY RowOf DEF RowsInv
  <1>3. Loose(row, memories[i]) /\ IsRow(row) /\ row.links = memories[i].links /\ row.status = "approved"
    <2>1. /\ Rank(memories[i].status) < Rank("approved") /\ Rank(memories[i].status) \in Nat
          /\ Rank("approved") \in Nat /\ "approved" \in RowStatuses
      BY <1>1, Ranks DEF RowStatuses, Live
    <2>2. QED
      BY <1>2, <2>1, RowUnmoved
  <1> HIDE DEF row
  <1>4. CASE intent = NoIntent
    <2>1. RowChange(new, memories[i]) /\ ~Bound(i)
      BY <1>1, <1>3, <1>4 DEF RowChange, RequiresIntent, Bound
    <2> HIDE DEF new
    <2>2. QED
      BY <1>1, <1>2, <2>1, RewriteStep
  <1>5. CASE intent # NoIntent
    <2>1. intent.op = "memory.approve"
      BY <1>5 DEF Fitting
    <2>2. \A n \in 1..Len(memories[i].links) :
             memories[i].links[n].act # ActEvidence(intent, Envelope(memories[i]))
      <3>1. ActEvidence(intent, Envelope(memories[i])).binding.op = "memory.approve"
        BY <2>1 DEF ActEvidence
      <3>2. QED
        BY <1>1, <1>2, <3>1 DEF ActsOK
    <2>3. Later(row, memories[i]) /\ row.status # "pending_review"
      BY <1>3 DEF Loose
    <2>4. Linked(new, memories[i]) /\ new.links # memories[i].links
      BY <1>2, <1>3, <1>5, <2>2, <2>3, ActWrite
    <2> HIDE DEF new
    <2>5. RowChange(new, memories[i])
      BY <2>4 DEF RowChange
    <2>6. QED
      BY <1>1, <1>2, <2>4, <2>5, RewriteStep
  <1>6. QED
    BY <1>4, <1>5

LEMMA NotRecorded ==
    ASSUME RowsOK, NEW i \in MemoryIds, NEW act
    PROVE  Recorded(i, act) <=> \E n \in 1..Len(memories[i].links) : memories[i].links[n].act = act
  <1>1. DOMAIN memories[i].links = 1..Len(memories[i].links)
    BY RowOf DEF IsSeq
  <1>2. QED
    BY <1>1 DEF Recorded

\* So is an explicit supersession.
LEMMA SupersedeRows ==
    ASSUME RowsInv, NEW h \in Handles, NEW a \in Actors, NEW i \in MemoryIds, NEW j \in MemoryIds,
           NEW intent \in Fitting("memory.supersede", a), NEW readable \in BOOLEAN,
           SupersedeExplicit(h, a, i, j, intent, readable)
    PROVE  /\ RowsStep /\ MemoryIds' = MemoryIds
           /\ \A k \in MemoryIds : memories'[k] # memories[k] /\ Bound(k) =>
                 memories'[k].links # memories[k].links
  <1> DEFINE row == [memories[i] EXCEPT !.status = "superseded", !.succ = j]
             new == IF intent = NoIntent THEN row ELSE WithLink(row, intent, NotReviewed)
  <1>1. /\ RequiresIntent(memories[i].links, intent) /\ memories[i].status \in Live
        /\ ~Recorded(i, ActEvidence(intent, NotReviewed))
        /\ memories' = Updated(memories, i, new)
    BY DEF SupersedeExplicit, VerifiedLinks, Updated
  <1>2. IsRow(memories[i]) /\ RowsOK /\ j \in 0..MaxMemories
    BY RowOf, FiscalScopeAssumption DEF RowsInv
  <1>3. Loose(row, memories[i]) /\ IsRow(row) /\ row.links = memories[i].links /\ row.status = "superseded"
    <2>1. /\ Rank(memories[i].status) < Rank("superseded") /\ Rank(memories[i].status) \in Nat
          /\ Rank("superseded") \in Nat /\ "superseded" \in RowStatuses
      BY <1>1, Ranks DEF RowStatuses
    <2>2. QED
      BY <1>2, <2>1, MovesOn
  <1> HIDE DEF row
  <1>4. CASE intent = NoIntent
    <2>1. RowChange(new, memories[i]) /\ ~Bound(i)
      BY <1>1, <1>3, <1>4 DEF RowChange, RequiresIntent, Bound
    <2> HIDE DEF new
    <2>2. QED
      BY <1>1, <1>2, <2>1, RewriteStep
  <1>5. CASE intent # NoIntent
    <2>1. intent.op # "memory.approve"
      BY <1>5 DEF Fitting
    <2>2. \A n \in 1..Len(memories[i].links) :
             memories[i].links[n].act # ActEvidence(intent, NotReviewed)
      BY <1>1, <1>2, NotRecorded
    <2>3. Later(row, memories[i])
      BY <1>3 DEF Loose
    <2>4. Linked(new, memories[i]) /\ new.links # memories[i].links
      BY <1>2, <1>3, <1>5, <2>1, <2>2, <2>3, ActWrite
    <2> HIDE DEF new
    <2>5. RowChange(new, memories[i])
      BY <2>4 DEF RowChange
    <2>6. QED
      BY <1>1, <1>2, <2>4, <2>5, RewriteStep
  <1>6. QED
    BY <1>4, <1>5

LinkAct(a) == ActEvidence([op |-> "evidence.link", actor |-> a], NotReviewed)

\* A batch is linked, or its act is on record already.
LEMMA BatchRows ==
    ASSUME RowsInv, NEW h \in Handles, NEW a \in Actors, NEW i \in MemoryIds, NEW refs \in SUBSET Refs,
           NEW intent \in Fitting("evidence.link", a), NEW readable \in BOOLEAN,
           LinkBatch(h, a, i, refs, intent, readable)
    PROVE  /\ RowsStep /\ MemoryIds' = MemoryIds
           /\ \A k \in MemoryIds : memories'[k] # memories[k] /\ Bound(k) =>
                 memories'[k].links # memories[k].links \/ Recorded(k, LinkAct(a))
  <1> DEFINE row == [memories[i] EXCEPT !.refs = @ \cup refs]
             act == ActEvidence(intent, NotReviewed)
             new == IF intent = NoIntent \/ Recorded(i, act) THEN row
                    ELSE WithLink(row, intent, NotReviewed)
  <1>1. /\ RequiresIntent(memories[i].links, intent)
        /\ memories' = Updated(memories, i, new)
    BY DEF LinkBatch, VerifiedLinks, Updated
  <1>2. IsRow(memories[i]) /\ RowsOK
    BY RowOf DEF RowsInv
  <1>3. /\ IsRow(row) /\ row.links = memories[i].links /\ Later(row, memories[i])
        /\ row = memories[i] \/ Loose(row, memories[i])
    BY <1>2, GainsRefs
  <1> HIDE DEF row
  <1>4. CASE intent = NoIntent \/ Recorded(i, act)
    <2>1. Bound(i) => Recorded(i, LinkAct(a))
      BY <1>1, <1>4 DEF RequiresIntent, Bound, Fitting, LinkAct
    <2>2. RowChange(new, memories[i])
      BY <1>3, <1>4 DEF RowChange
    <2> HIDE DEF new
    <2>3. QED
      BY <1>1, <1>2, <2>1, <2>2, RewriteStep
  <1>5. CASE ~(intent = NoIntent \/ Recorded(i, act))
    <2>1. intent.op # "memory.approve"
      BY <1>5 DEF Fitting
    <2>2. \A n \in 1..Len(memories[i].links) : memories[i].links[n].act # act
      BY <1>2, <1>5, NotRecorded
    <2>4. Linked(new, memories[i]) /\ new.links # memories[i].links
      BY <1>2, <1>3, <1>5, <2>1, <2>2, ActWrite
    <2> HIDE DEF new
    <2>5. RowChange(new, memories[i])
      BY <2>4 DEF RowChange
    <2>6. QED
      BY <1>1, <1>2, <2>4, <2>5, RewriteStep
  <1>6. QED
    BY <1>4, <1>5

\* The writes without a guard move a row on and link nothing.
LEMMA LooseRows ==
    ASSUME RowsOK, NEW h \in Handles, NEW i \in MemoryIds,
           \/ \E ref \in Refs : LinkEvidence(h, i, ref)
           \/ \E p \in Actors, to \in {"rejected", "returned"} : DecidePending(h, p, i, to)
           \/ ApplyStatusTransition(h, i)
    PROVE  /\ RowsStep /\ MemoryIds' = MemoryIds /\ UNCHANGED objects
           /\ \E op : Observe(h, op) /\ op \notin {"approve", "supersede", "link batch"}
  <1>1. IsRow(memories[i]) /\ \A s : Rank(s) \in Nat
    BY RowOf, Ranks
  <1>2. CASE \E ref \in Refs : LinkEvidence(h, i, ref)
    <2>1. PICK ref \in Refs : LinkEvidence(h, i, ref)
      BY <1>2
    <2> DEFINE row == [memories[i] EXCEPT !.refs = @ \cup {ref}]
    <2>2. memories' = Updated(memories, i, row) /\ Observe(h, "link evidence")
          /\ UNCHANGED objects
      BY <2>1 DEF LinkEvidence, Updated
    <2>3. row = memories[i] \/ Loose(row, memories[i])
      BY <1>1, GainsRefs
    <2> HIDE DEF row
    <2>4. RowChange(row, memories[i])
      BY <2>3 DEF RowChange
    <2>5. RowsStep /\ MemoryIds' = MemoryIds
      BY <2>2, <2>4, RewriteStep
    <2>6. "link evidence" \notin {"approve", "supersede", "link batch"}
      OBVIOUS
    <2>7. QED
      BY <2>2, <2>5, <2>6
  <1>3. CASE \E p \in Actors, to \in {"rejected", "returned"} : DecidePending(h, p, i, to)
    <2>1. PICK p \in Actors, to \in {"rejected", "returned"} : DecidePending(h, p, i, to)
      BY <1>3
    <2> DEFINE row == [memories[i] EXCEPT !.status = to]
    <2>2. memories' = Updated(memories, i, row) /\ Observe(h, to)
          /\ UNCHANGED objects /\ memories[i].status = "pending_review"
      BY <2>1 DEF DecidePending, Updated
    <2>3. Rank(memories[i].status) < Rank(to) /\ to \in RowStatuses
      BY <2>2, Ranks DEF RowStatuses, Live
    <2>4. Loose(row, memories[i])
      BY <1>1, <2>3, RowUnmoved
    <2> HIDE DEF row
    <2>5. RowChange(row, memories[i])
      BY <2>4 DEF RowChange
    <2>6. to \notin {"approve", "supersede", "link batch"}
      OBVIOUS
    <2>7. RowsStep /\ MemoryIds' = MemoryIds
      BY <2>2, <2>5, RewriteStep
    <2>8. QED
      BY <2>2, <2>6, <2>7
  <1>4. CASE ApplyStatusTransition(h, i)
    <2> DEFINE row == [memories[i] EXCEPT !.status = "voided"]
    <2>2. memories' = Updated(memories, i, row) /\ Observe(h, "voided")
          /\ UNCHANGED objects /\ memories[i].status \in {"pending_review", "approved"}
      BY <1>4 DEF ApplyStatusTransition, Updated
    <2>3. Rank(memories[i].status) < Rank("voided") /\ "voided" \in RowStatuses
      BY <2>2, Ranks DEF RowStatuses
    <2>4. Loose(row, memories[i])
      BY <1>1, <2>3, RowUnmoved
    <2> HIDE DEF row
    <2>5. RowChange(row, memories[i])
      BY <2>4 DEF RowChange
    <2>6. RowsStep /\ MemoryIds' = MemoryIds
      BY <2>2, <2>5, RewriteStep
    <2>7. "voided" \notin {"approve", "supersede", "link batch"}
      OBVIOUS
    <2>8. QED
      BY <2>2, <2>6, <2>7
  <1>5. QED
    BY <1>2, <1>3, <1>4

-----------------------------------------------------------------------------
(* What every step does *)

\* The history of the changes that came without a link, after a step.
Observed(op) ==
    /\ \A u \in unlinked' :
          \/ u \in unlinked /\ memories'[u.id].links = memories[u.id].links
          \/ /\ u.id \in MemoryIds /\ Bound(u.id) /\ u.op = op
             /\ memories'[u.id] # memories[u.id] /\ memories'[u.id].links = memories[u.id].links
    /\ \A u \in unlinked : memories'[u.id].links = memories[u.id].links => u \in unlinked'
    /\ \A i \in MemoryIds :
          Bound(i) /\ memories'[i] # memories[i] /\ memories'[i].links = memories[i].links
              => \E u \in unlinked' : u.id = i

\* Which operations leave a bound memory changed without a link.
Noticed(op) ==
    \A k \in MemoryIds :
        Bound(k) /\ memories'[k] # memories[k] /\ memories'[k].links = memories[k].links =>
            /\ op \notin {"approve", "supersede"}
            /\ op = "link batch" => \E a \in Actors : Recorded(k, LinkAct(a))

BoundObjects == Handles = {"enforce"} =>
    /\ \A i \in MemoryIds' \ MemoryIds : memories'[i].links # <<>>
    /\ \A o \in DOMAIN objects' : \/ o \in DOMAIN objects /\ objects'[o] = objects[o]
                                  \/ objects'[o] # <<>>

Effects == /\ RowsStep /\ MemoryIds \subseteq MemoryIds'
           /\ \E op : Observed(op) /\ Noticed(op)
           /\ BoundObjects
           /\ DOMAIN objects' \subseteq DOMAIN objects \cup Objects

LEMMA ObserveFacts ==
    ASSUME NEW h, NEW op, Observe(h, op)
    PROVE  Observed(op)
  <1> DEFINE kept  == {u \in unlinked : memories'[u.id].links = memories[u.id].links}
             loose == {i \in MemoryIds : /\ Bound(i) /\ memories'[i] # memories[i]
                                         /\ memories'[i].links = memories[i].links}
             added == {[id |-> i, handle |-> h, op |-> op] : i \in loose}
  <1>1. unlinked' = kept \cup added
    BY DEF Observe
  <1>2. ASSUME NEW u \in added PROVE u.id \in loose /\ u.op = op
    OBVIOUS
  <1>3. ASSUME NEW i \in loose PROVE \E u \in added : u.id = i
    <2>1. [id |-> i, handle |-> h, op |-> op] \in added
      OBVIOUS
    <2>2. [id |-> i, handle |-> h, op |-> op].id = i
      OBVIOUS
    <2>3. QED
      BY <2>1, <2>2
  <1> HIDE DEF added
  <1>4. QED
    BY <1>1, <1>2, <1>3 DEF Observed

LEMMA QuietEffects ==
    ASSUME RowsOK, UNCHANGED <<memories, unlinked>>
    PROVE  /\ RowsStep /\ MemoryIds' = MemoryIds /\ Observed("none") /\ Noticed("none")
  <1>1. /\ IsSeq(memories') /\ Len(memories') = Len(memories) /\ Len(memories) \in Nat
        /\ Len(memories) <= MaxMemories /\ MemoryIds' = MemoryIds
    BY DEF RowsOK, IsSeq, MemoryIds
  <1>2. RowsStep
    BY <1>1 DEF RowsStep, RowChange
  <1>3. QED
    BY <1>1, <1>2 DEF Observed, Noticed

LEMMA StepEffects ==
    ASSUME RowsInv, [Next]_vars
    PROVE  Effects
  <1>0. RowsOK
    BY DEF RowsInv
  <1>1. CASE SaveStep
    <2>1. PICK a \in Actors : \E intent \in Fitting("memory.save", a), h \in Handles : Save(h, a, intent)
      BY <1>1 DEF SaveStep
    <2>2. PICK intent \in Fitting("memory.save", a), h \in Handles : Save(h, a, intent)
      BY <2>1
    <2>3. /\ RowsStep /\ MemoryIds \subseteq MemoryIds'
          /\ h = "enforce" => \A i \in MemoryIds' \ MemoryIds : memories'[i].links # <<>>
      BY <1>0, <2>2, SaveRows
    <2>4. Observed("save") /\ UNCHANGED objects
      BY <2>2, ObserveFacts DEF Save
    <2>5. BoundObjects
      BY <2>3, <2>4 DEF BoundObjects
    <2>6. Noticed("save")
      BY DEF Noticed
    <2>7. QED
      BY <2>3, <2>4, <2>5, <2>6 DEF Effects
  <1>2. CASE GuardedStep
    <2>1. PICK a \in Actors :
             \/ \E intent \in Fitting("memory.approve", a), h \in Handles, i \in MemoryIds,
                   readable \in BOOLEAN : Approve(h, a, i, intent, readable)
             \/ \E intent \in Fitting("memory.supersede", a), h \in Handles, i, j \in MemoryIds,
                   readable \in BOOLEAN : SupersedeExplicit(h, a, i, j, intent, readable)
             \/ \E intent \in Fitting("evidence.link", a), h \in Handles, i \in MemoryIds,
                   refs \in SUBSET Refs, readable \in BOOLEAN : LinkBatch(h, a, i, refs, intent, readable)
      BY <1>2 DEF GuardedStep
    <2>2. CASE \E intent \in Fitting("memory.approve", a), h \in Handles, i \in MemoryIds,
                  readable \in BOOLEAN : Approve(h, a, i, intent, readable)
      <3>1. PICK intent \in Fitting("memory.approve", a), h \in Handles, i \in MemoryIds,
                 readable \in BOOLEAN : Approve(h, a, i, intent, readable)
        BY <2>2
      <3>2. RowsStep /\ MemoryIds' = MemoryIds /\ Noticed("approve")
        BY <3>1, ApproveRows DEF Noticed
      <3>3. Observed("approve") /\ UNCHANGED objects
        BY <3>1, ObserveFacts DEF Approve
      <3>4. QED
        BY <3>2, <3>3 DEF Effects, BoundObjects
    <2>3. CASE \E intent \in Fitting("memory.supersede", a), h \in Handles, i, j \in MemoryIds,
                  readable \in BOOLEAN : SupersedeExplicit(h, a, i, j, intent, readable)
      <3>1. PICK intent \in Fitting("memory.supersede", a), h \in Handles, i \in MemoryIds, j \in MemoryIds,
                 readable \in BOOLEAN : SupersedeExplicit(h, a, i, j, intent, readable)
        BY <2>3
      <3>2. RowsStep /\ MemoryIds' = MemoryIds /\ Noticed("supersede")
        BY <3>1, SupersedeRows DEF Noticed
      <3>3. Observed("supersede") /\ UNCHANGED objects
        BY <3>1, ObserveFacts DEF SupersedeExplicit
      <3>4. QED
        BY <3>2, <3>3 DEF Effects, BoundObjects
    <2>4. CASE \E intent \in Fitting("evidence.link", a), h \in Handles, i \in MemoryIds,
                  refs \in SUBSET Refs, readable \in BOOLEAN : LinkBatch(h, a, i, refs, intent, readable)
      <3>1. PICK intent \in Fitting("evidence.link", a), h \in Handles, i \in MemoryIds,
                 refs \in SUBSET Refs, readable \in BOOLEAN : LinkBatch(h, a, i, refs, intent, readable)
        BY <2>4
      <3>2. RowsStep /\ MemoryIds' = MemoryIds /\ Noticed("link batch")
        BY <3>1, BatchRows DEF Noticed
      <3>3. Observed("link batch") /\ UNCHANGED objects
        BY <3>1, ObserveFacts DEF LinkBatch
      <3>4. QED
        BY <3>2, <3>3 DEF Effects, BoundObjects
    <2>5. QED
      BY <2>1, <2>2, <2>3, <2>4
  <1>3. CASE LooseStep
    <2>1. PICK h \in Handles, i \in MemoryIds :
             \/ \E ref \in Refs : LinkEvidence(h, i, ref)
             \/ \E p \in Actors, to \in {"rejected", "returned"} : DecidePending(h, p, i, to)
             \/ ApplyStatusTransition(h, i)
      BY <1>3 DEF LooseStep
    <2>2. /\ RowsStep /\ MemoryIds' = MemoryIds /\ UNCHANGED objects
          /\ \E op : Observe(h, op) /\ op \notin {"approve", "supersede", "link batch"}
      BY <1>0, <2>1, LooseRows
    <2>3. PICK op : Observe(h, op) /\ op \notin {"approve", "supersede", "link batch"}
      BY <2>2
    <2>4. Observed(op)
      BY <2>3, ObserveFacts
    <2>5. Noticed(op)
      BY <2>3 DEF Noticed
    <2>6. QED
      BY <2>2, <2>4, <2>5 DEF Effects, BoundObjects
  <1>4. CASE ObjectStep
    <2>1. PICK a \in Actors : \E intent \in Fitting("evidence.store", a), h \in Handles, o \in Objects :
              StoreObject(h, a, o, intent)
      BY <1>4 DEF ObjectStep
    <2>2. PICK intent \in Fitting("evidence.store", a), h \in Handles, o \in Objects :
              StoreObject(h, a, o, intent)
      BY <2>1
    <2>3. RowsStep /\ MemoryIds' = MemoryIds
      <3>1. memories' = memories
        BY <2>2 DEF StoreObject
      <3>2. IsSeq(memories) /\ Len(memories) \in Nat /\ Len(memories) <= MaxMemories
        BY <1>0 DEF RowsOK, IsSeq
      <3>3. QED
        BY <3>1, <3>2 DEF RowsStep, RowChange, MemoryIds
    <2>4. Observed("store object")
      BY <2>2, ObserveFacts DEF StoreObject
    <2>5. Noticed("store object")
      BY DEF Noticed
    <2>6. /\ DOMAIN objects' = DOMAIN objects \cup {o} /\ o \notin DOMAIN objects
          /\ \A x \in DOMAIN objects : objects'[x] = objects[x]
          /\ h = "enforce" => objects'[o] # <<>>
      <3>1. /\ DOMAIN objects' = DOMAIN objects \cup {o} /\ o \notin DOMAIN objects
            /\ \A x \in DOMAIN objects : objects'[x] = objects[x]
        BY <2>2 DEF StoreObject
      <3>2. ASSUME h = "enforce" PROVE objects'[o] # <<>>
        <4>1. intent # NoIntent
          BY <2>2, <3>2 DEF StoreObject, GateOpen, Class
        <4>2. objects'[o] = <<[act |-> ActEvidence(intent, NotReviewed), resulting |-> o]>>
          BY <2>2, <4>1 DEF StoreObject
        <4>3. QED
          BY <4>2
      <3>3. QED
        BY <3>1, <3>2
    <2>7. BoundObjects
      BY <2>3, <2>6 DEF BoundObjects
    <2>8. QED
      BY <2>3, <2>4, <2>5, <2>6, <2>7 DEF Effects
  <1>5. CASE UNCHANGED vars
    <2>1. UNCHANGED <<memories, objects, unlinked>>
      BY <1>5 DEF vars
    <2>2. QED
      BY <1>0, <2>1, QuietEffects DEF Effects, BoundObjects
  <1>6. QED
    BY <1>1, <1>2, <1>3, <1>4, <1>5 DEF Next

-----------------------------------------------------------------------------
(* The invariant of the rows, and type correctness *)

LEMMA NonEmpty == ASSUME NEW s, IsSeq(s) PROVE s = <<>> <=> Len(s) = 0
  <1>1. s \in Seq({s[n] : n \in 1..Len(s)})
    BY DEF IsSeq
  <1>2. QED
    BY <1>1

\* What a changed row keeps of its links.
LEMMA ChangeKeepsLinks ==
    ASSUME NEW old, IsRow(old), NEW new, RowChange(new, old)
    PROVE  /\ IsRow(new) /\ Len(old.links) <= Len(new.links) /\ Len(old.links) \in Nat
           /\ Len(new.links) \in Nat
           /\ \A n \in 1..Len(old.links) : new.links[n] = old.links[n]
           /\ old.links # <<>> => new.links # <<>>
           /\ new.links = old.links \/ Linked(new, old)
           /\ new.status = "pending_review" => old.status = "pending_review"
  <1>1. Len(old.links) \in Nat /\ IsRow(new) /\ Len(new.links) \in Nat
    BY DEF RowChange, Loose, Linked, IsRow, IsSeq
  <1>2. new.links = old.links \/ Linked(new, old)
    BY DEF RowChange, Loose
  <1>3. Len(old.links) <= Len(new.links) /\ \A n \in 1..Len(old.links) : new.links[n] = old.links[n]
    BY <1>1, <1>2 DEF Linked
  <1>4. old.links # <<>> => new.links # <<>>
    <2>1. IsSeq(old.links) /\ IsSeq(new.links)
      BY <1>1 DEF IsRow
    <2>2. QED
      BY <1>1, <1>3, <2>1, NonEmpty
  <1>5. new.status = "pending_review" => old.status = "pending_review"
    <2>1. new = old \/ Later(new, old)
      BY DEF RowChange, Loose, Linked
    <2>2. QED
      BY <2>1, Ranks DEF Later
  <1>6. QED
    BY <1>1, <1>2, <1>3, <1>4, <1>5

LEMMA ChangeKeepsActs ==
    ASSUME NEW old, IsRow(old), NEW new, RowChange(new, old), ActsOK(old)
    PROVE  ActsOK(new)
  <1>1. /\ Len(old.links) \in Nat /\ \A n \in 1..Len(old.links) : new.links[n] = old.links[n]
        /\ new.links = old.links \/ Linked(new, old)
        /\ new.status = "pending_review" => old.status = "pending_review"
    BY ChangeKeepsLinks
  <1>2. CASE new.links = old.links
    BY <1>1, <1>2 DEF ActsOK
  <1>3. CASE Linked(new, old)
    <2> DEFINE n == Len(new.links)
    <2>1. /\ n = Len(old.links) + 1
          /\ \A k \in 1..Len(old.links) : old.links[k].act # new.links[n].act
          /\ new.links[n].act.binding.op = "memory.approve" => new.status # "pending_review"
      BY <1>3 DEF Linked
    <2> HIDE DEF n
    <2>2. \A k \in 1..n : k = n \/ k \in 1..Len(old.links)
      BY <1>1, <2>1
    <2>3. \A k \in 1..n : new.links[k].act.binding.op = "memory.approve" => new.status # "pending_review"
      BY <1>1, <2>1, <2>2 DEF ActsOK
    <2>4. \A k, m \in 1..n : new.links[k].act = new.links[m].act => k = m
      BY <1>1, <2>1, <2>2 DEF ActsOK
    <2>5. QED
      BY <2>3, <2>4 DEF ActsOK, n
  <1>4. QED
    BY <1>1, <1>2, <1>3

LEMMA CreatedActs == ASSUME NEW new, Created(new) PROVE ActsOK(new)
  <1>1. Len(new.links) = 0 \/ Len(new.links) = 1
    BY DEF Created
  <1>2. 1..0 = {} /\ 1..1 = {1}
    OBVIOUS
  <1>3. QED
    BY <1>1, <1>2 DEF Created, ActsOK

LEMMA RowsInvStep ==
    ASSUME RowsInv, RowsStep
    PROVE  RowsInv'
  <1>1. ASSUME NEW i \in MemoryIds' PROVE IsRow(memories'[i]) /\ ActsOK(memories'[i])
    <2>1. CASE i \in MemoryIds
      <3>1. IsRow(memories[i]) /\ ActsOK(memories[i]) /\ RowChange(memories'[i], memories[i])
        BY <2>1, RowOf DEF RowsInv, RowsStep
      <3>2. QED
        BY <3>1, ChangeKeepsLinks, ChangeKeepsActs
    <2>2. CASE i \notin MemoryIds
      <3>1. Created(memories'[i])
        BY <2>2 DEF RowsStep
      <3>2. QED
        BY <3>1, CreatedActs DEF Created
    <2>3. QED
      BY <2>1, <2>2
  <1>2. RowsOK'
    BY <1>1 DEF RowsStep, RowsOK, IsSeq, IsRow, Envelope
  <1>3. QED
    BY <1>1, <1>2 DEF RowsInv, ActsOK

StoreInv == DOMAIN objects \subseteq Objects

LEMMA InitRows == Init => RowsInv /\ StoreInv
  <1> SUFFICES ASSUME Init PROVE RowsInv /\ StoreInv
    OBVIOUS
  <1>1. memories = <<>> /\ objects = <<>> /\ DOMAIN objects = {}
    BY DEF Init
  <1>2. IsSeq(memories) /\ Len(memories) = 0 /\ MemoryIds = {}
    BY <1>1, EmptyIsSeq DEF MemoryIds
  <1>3. QED
    BY <1>1, <1>2, FiscalScopeAssumption DEF RowsInv, RowsOK, StoreInv

LEMMA NextRows == RowsInv /\ StoreInv /\ [Next]_vars => RowsInv' /\ StoreInv'
  <1> SUFFICES ASSUME RowsInv, StoreInv, [Next]_vars PROVE RowsInv' /\ StoreInv'
    OBVIOUS
  <1>1. Effects
    BY StepEffects
  <1>2. RowsInv'
    BY <1>1, RowsInvStep DEF Effects
  <1>3. StoreInv'
    BY <1>1 DEF Effects, StoreInv
  <1>4. QED
    BY <1>2, <1>3

LEMMA RowsHold == Spec => [](RowsInv /\ StoreInv)
  BY InitRows, NextRows, PTL DEF Spec

\* THEOREM.  The rows, links and objects of the bindings stay well typed, and no act
\* is recorded twice for its subject.
THEOREM TypesHold == Spec => []TypeOK
  <1>1. RowsInv /\ StoreInv => TypeOK
    <2> SUFFICES ASSUME RowsInv, StoreInv PROVE TypeOK
      OBVIOUS
    <2>1. ASSUME NEW i \in MemoryIds
          PROVE  /\ memories[i].status \in Live \cup {"rejected", "superseded", "voided"}
                 /\ memories[i].refs \subseteq Refs /\ memories[i].by \in Actors
                 /\ memories[i].succ \in 0..MaxMemories
                 /\ \A m, n \in DOMAIN memories[i].links :
                       memories[i].links[m].act = memories[i].links[n].act => m = n
      <3>1. /\ memories[i].status \in RowStatuses /\ memories[i].refs \subseteq Refs
            /\ memories[i].by \in Actors /\ memories[i].succ \in 0..MaxMemories
            /\ IsSeq(memories[i].links) /\ ActsOK(memories[i])
        BY RowOf DEF RowsInv
      <3>2. DOMAIN memories[i].links = 1..Len(memories[i].links)
        BY <3>1 DEF IsSeq
      <3>3. QED
        BY <3>1, <3>2 DEF ActsOK, RowStatuses
    <2>2. QED
      BY <2>1 DEF TypeOK, StoreInv
  <1>2. QED
    BY <1>1, RowsHold, PTL

-----------------------------------------------------------------------------
(* The layer *)

\* The last link of a bound row against the row: the references have only grown,
\* the status has only moved forward, and a successor comes with its status.
Since(last, row) ==
    /\ last.refs \subseteq row.refs
    /\ \/ last.status = row.status /\ last.succ = row.succ
       \/ Rank(last.status) < Rank(row.status)

LastResult(row) == row.links[Len(row.links)].resulting

\* INVARIANT.  A change without a link is still recorded until the next link, and
\* what is recorded is true.
LayerInv ==
    /\ \A u \in unlinked : u.id \in MemoryIds
    /\ \A i \in MemoryIds : Bound(i) =>
          /\ Since(LastResult(memories[i]), memories[i])
          /\ LastResult(memories[i]) = Envelope(memories[i]) <=> \A u \in unlinked : u.id # i

\* A row that changed without a link differs from what its last link committed to.
LEMMA LooseDiffers ==
    ASSUME NEW old, IsRow(old), NEW new, Loose(new, old), NEW last, Since(last, old)
    PROVE  Since(last, new) /\ last # Envelope(new)
  <1>1. /\ Envelope(new).refs = new.refs /\ Envelope(new).status = new.status
        /\ IsRow(new) /\ new.links = old.links /\ new # old /\ new.by = old.by
        /\ old.refs \subseteq new.refs /\ last.refs \subseteq old.refs
    BY DEF Envelope, Loose, Later, Since
  <1>2. Rank(last.status) \in Nat /\ Rank(old.status) \in Nat /\ Rank(new.status) \in Nat
    BY Ranks
  <1>3. CASE new.status = old.status /\ new.succ = old.succ
    <2>1. new.refs # old.refs
      BY <1>1, <1>3 DEF IsRow
    <2>2. last.refs # new.refs
      BY <1>1, <2>1
    <2>3. Since(last, new)
      BY <1>1, <1>3 DEF Since
    <2>4. QED
      BY <1>1, <2>2, <2>3
  <1>4. CASE Rank(old.status) < Rank(new.status)
    <2>1. Rank(last.status) < Rank(new.status)
      BY <1>2, <1>4 DEF Since
    <2>2. last.status # new.status
      BY <1>2, <2>1
    <2>3. Since(last, new)
      BY <1>1, <2>1 DEF Since
    <2>4. QED
      BY <1>1, <2>2, <2>3
  <1>5. QED
    BY <1>3, <1>4 DEF Loose, Later

\* What a fresh link says of its row.
LEMMA FreshLink ==
    ASSUME NEW row, LastResult(row) = Envelope(row)
    PROVE  Since(LastResult(row), row)
  <1>1. /\ Envelope(row).refs = row.refs /\ Envelope(row).status = row.status
        /\ Envelope(row).succ = row.succ
    BY DEF Envelope
  <1>2. QED
    BY <1>1 DEF Since

LEMMA LayerStep ==
    ASSUME RowsInv, LayerInv, Effects, NEW i \in MemoryIds', memories'[i].links # <<>>
    PROVE  /\ Since(LastResult(memories'[i]), memories'[i])
           /\ LastResult(memories'[i]) = Envelope(memories'[i]) <=> \A u \in unlinked' : u.id # i
  <1>1. RowsOK /\ RowsStep /\ MemoryIds \subseteq MemoryIds' /\ \E op : Observed(op)
    BY DEF Effects, RowsInv
  <1>2. /\ \A u \in unlinked' : \/ u \in unlinked /\ memories'[u.id].links = memories[u.id].links
                                \/ u.id \in MemoryIds /\ memories'[u.id] # memories[u.id]
                                   /\ memories'[u.id].links = memories[u.id].links
        /\ \A u \in unlinked : memories'[u.id].links = memories[u.id].links => u \in unlinked'
        /\ \A k \in MemoryIds :
              Bound(k) /\ memories'[k] # memories[k] /\ memories'[k].links = memories[k].links
                  => \E u \in unlinked' : u.id = k
    BY <1>1 DEF Observed
  <1>3. CASE i \in MemoryIds
    <2>1. IsRow(memories[i]) /\ RowChange(memories'[i], memories[i]) /\ IsSeq(memories[i].links)
          /\ Len(memories[i].links) \in Nat
      BY <1>1, <1>3, RowOf DEF RowsStep
    <2>2. CASE memories'[i] = memories[i]
      <3>1. Bound(i)
        BY <2>2 DEF Bound
      <3>2. /\ Since(LastResult(memories[i]), memories[i])
            /\ LastResult(memories[i]) = Envelope(memories[i]) <=> \A u \in unlinked : u.id # i
        BY <1>3, <3>1 DEF LayerInv
      <3>3. (\A u \in unlinked : u.id # i) <=> (\A u \in unlinked' : u.id # i)
        BY <1>2, <2>2
      <3>4. QED
        BY <2>2, <3>2, <3>3
    <2>3. CASE Loose(memories'[i], memories[i])
      <3>1. memories'[i].links = memories[i].links /\ memories'[i] # memories[i] /\ Bound(i)
        BY <2>3 DEF Loose, Bound
      <3>2. Since(LastResult(memories[i]), memories[i])
        BY <1>3, <3>1 DEF LayerInv
      <3>3. LastResult(memories'[i]) = LastResult(memories[i])
        BY <3>1 DEF LastResult
      <3>4. Since(LastResult(memories'[i]), memories'[i]) /\ LastResult(memories'[i]) # Envelope(memories'[i])
        BY <2>1, <2>3, <3>2, <3>3, LooseDiffers
      <3>5. \E u \in unlinked' : u.id = i
        BY <1>2, <1>3, <3>1
      <3>6. QED
        BY <3>4, <3>5
    <2>4. CASE Linked(memories'[i], memories[i])
      <3>1. LastResult(memories'[i]) = Envelope(memories'[i])
        BY <2>4 DEF Linked, LastResult
      <3>2. memories'[i].links # memories[i].links
        BY <2>1, <2>4 DEF Linked
      <3>3. \A u \in unlinked' : u.id # i
        BY <1>2, <3>2
      <3>4. QED
        BY <3>1, <3>3, FreshLink
    <2>5. QED
      BY <2>1, <2>2, <2>3, <2>4 DEF RowChange
  <1>4. CASE i \notin MemoryIds
    <2>1. Created(memories'[i])
      BY <1>1, <1>4 DEF RowsStep
    <2>2. Len(memories'[i].links) = 1
      <3>1. IsSeq(memories'[i].links)
        BY <2>1 DEF Created, IsRow
      <3>2. QED
        BY <2>1, <3>1, NonEmpty DEF Created
    <2>3. LastResult(memories'[i]) = Envelope(memories'[i])
      BY <2>1, <2>2 DEF Created, LastResult
    <2>4. \A u \in unlinked' : u.id # i
      BY <1>2, <1>4 DEF LayerInv
    <2>5. QED
      BY <2>3, <2>4, FreshLink
  <1>5. QED
    BY <1>3, <1>4

LEMMA NextLayer == RowsInv /\ LayerInv /\ [Next]_vars => LayerInv'
  <1> SUFFICES ASSUME RowsInv, LayerInv, [Next]_vars PROVE LayerInv'
    OBVIOUS
  <1>1. Effects
    BY StepEffects
  <1>2. \A u \in unlinked' : u.id \in MemoryIds'
    <2>1. MemoryIds \subseteq MemoryIds' /\ \E op : Observed(op)
      BY <1>1 DEF Effects
    <2>2. QED
      BY <2>1 DEF Observed, LayerInv
  <1>3. \A i \in MemoryIds' : memories'[i].links # <<>> =>
           /\ Since(LastResult(memories'[i]), memories'[i])
           /\ LastResult(memories'[i]) = Envelope(memories'[i]) <=> \A u \in unlinked' : u.id # i
    BY <1>1, LayerStep
  <1>4. QED
    BY <1>2, <1>3 DEF LayerInv, Bound, Since, LastResult, Envelope

LEMMA InitLayer == Init => LayerInv
  <1> SUFFICES ASSUME Init PROVE LayerInv
    OBVIOUS
  <1>1. MemoryIds = {} /\ unlinked = {}
    BY EmptyIsSeq DEF Init, MemoryIds
  <1>2. QED
    BY <1>1 DEF LayerInv

\* THEOREM.  The fiscal layer of a bound memory fails exactly when something changed
\* the memory after its last link, under every mix of handles, bindings, batches and
\* writes that no binding guards.
THEOREM LayerIsHonest == Spec => []LayerShowsLooseChanges
  <1>1. RowsInv /\ LayerInv => LayerShowsLooseChanges
    <2> SUFFICES ASSUME LayerInv, NEW i \in MemoryIds, Bound(i)
                 PROVE  LayerPasses(i) <=> ChangedBy(i) = {}
      BY DEF LayerShowsLooseChanges
    <2>1. LayerPasses(i) <=> LastResult(memories[i]) = Envelope(memories[i])
      BY DEF LayerPasses, LastResult, Last
    <2>2. ChangedBy(i) = {} <=> \A u \in unlinked : u.id # i
      <3>1. ASSUME NEW u \in unlinked, u.id = i PROVE ChangedBy(i) # {}
        <4>1. u \in {v \in unlinked : v.id = i}
          BY <3>1
        <4>2. u.op \in ChangedBy(i)
          BY <4>1 DEF ChangedBy
        <4>3. QED
          BY <4>2
      <3>2. ASSUME \A u \in unlinked : u.id # i PROVE ChangedBy(i) = {}
        BY <3>2 DEF ChangedBy
      <3>3. QED
        BY <3>1, <3>2
    <2>3. QED
      BY <2>1, <2>2 DEF LayerInv
  <1>2. Spec => []LayerInv
    BY InitLayer, NextLayer, RowsHold, PTL DEF Spec
  <1>3. QED
    BY <1>1, <1>2, RowsHold, PTL

-----------------------------------------------------------------------------
(* Guarded acts, and enforcing handles *)

LEMMA NextGuarded == RowsInv /\ LayerInv /\ GuardedActsAreLinked /\ [Next]_vars => GuardedActsAreLinked'
  <1> SUFFICES ASSUME RowsInv, LayerInv, GuardedActsAreLinked, [Next]_vars,
                      NEW u \in unlinked'
               PROVE  /\ u.op \notin {"approve", "supersede"}
                      /\ u.op = "link batch" => \E a \in Actors : Recorded(u.id, LinkAct(a))'
    BY DEF GuardedActsAreLinked, LinkAct
  <1>1. RowsOK /\ RowsStep
    BY StepEffects DEF Effects, RowsInv
  <1>2. PICK op : Observed(op) /\ Noticed(op)
    BY StepEffects DEF Effects
  <1>3. /\ u.id \in MemoryIds /\ u.op \notin {"approve", "supersede"}
        /\ u.op = "link batch" => \E a \in Actors : Recorded(u.id, LinkAct(a))
    <2>1. CASE u \in unlinked
      BY <2>1 DEF GuardedActsAreLinked, LayerInv, LinkAct
    <2>2. CASE u \notin unlinked
      <3>1. /\ u.id \in MemoryIds /\ Bound(u.id) /\ u.op = op /\ memories'[u.id] # memories[u.id]
            /\ memories'[u.id].links = memories[u.id].links
        BY <1>2, <2>2 DEF Observed
      <3>2. QED
        BY <1>2, <3>1 DEF Noticed
    <2>3. QED
      BY <2>1, <2>2
  <1>4. memories'[u.id].links = memories[u.id].links
    BY <1>2 DEF Observed
  <1>5. \A a \in Actors : Recorded(u.id, LinkAct(a)) => Recorded(u.id, LinkAct(a))'
    BY <1>4 DEF Recorded, LinkAct, ActEvidence, NotReviewed
  <1>6. QED
    BY <1>3, <1>5

\* THEOREM.  What changes a bound memory without a link is no approval, no explicit
\* supersession, and no batch but one whose act is on record, also when the read of
\* the links fails.
THEOREM GuardedActsLink == Spec => []GuardedActsAreLinked
  <1>1. Init => GuardedActsAreLinked
    BY DEF Init, GuardedActsAreLinked
  <1>2. QED
    BY <1>1, InitLayer, NextLayer, NextGuarded, RowsHold, PTL DEF Spec

\* THEOREM.  A store that only enforcing handles write holds no unbound memory and no
\* unbound object.
THEOREM EnforcedStoresAreBound ==
    ASSUME Handles = {"enforce"}
    PROVE  Spec => []EnforceBindsEverything
  <1>1. Init => EnforceBindsEverything
    <2> SUFFICES ASSUME Init PROVE EnforceBindsEverything
      OBVIOUS
    <2>1. MemoryIds = {} /\ DOMAIN objects = {}
      BY EmptyIsSeq DEF Init, MemoryIds
    <2>2. QED
      BY <2>1 DEF EnforceBindsEverything
  <1>2. RowsInv /\ EnforceBindsEverything /\ [Next]_vars => EnforceBindsEverything'
    <2> SUFFICES ASSUME RowsInv, EnforceBindsEverything, [Next]_vars PROVE EnforceBindsEverything'
      OBVIOUS
    <2>1. RowsStep /\ BoundObjects /\ RowsOK
      BY StepEffects DEF Effects, RowsInv
    <2>2. ASSUME NEW i \in MemoryIds' PROVE memories'[i].links # <<>>
      <3>1. CASE i \in MemoryIds
        <4>1. IsRow(memories[i]) /\ memories[i].links # <<>> /\ RowChange(memories'[i], memories[i])
          BY <2>1, <3>1, RowOf DEF EnforceBindsEverything, Bound, RowsStep
        <4>2. QED
          BY <4>1, ChangeKeepsLinks
      <3>2. CASE i \notin MemoryIds
        BY <2>1, <3>2 DEF BoundObjects
      <3>3. QED
        BY <3>1, <3>2
    <2>3. \A o \in DOMAIN objects' : objects'[o] # <<>>
      BY <2>1 DEF BoundObjects, EnforceBindsEverything
    <2>4. QED
      BY <2>2, <2>3 DEF EnforceBindsEverything, Bound
  <1>3. QED
    BY <1>1, <1>2, RowsHold, PTL DEF Spec

=============================================================================
