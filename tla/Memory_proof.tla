---------------------------- MODULE Memory_proof ----------------------------
(***************************************************************************)
(* What the memory keeps for every set of records, texts and dimensions,   *)
(* every batch size, and every number of ingests, faults and closings: no  *)
(* search answers from vectors the file no longer holds, and the backends  *)
(* agree after an ingest that ran through and after a backfill.            *)
(***************************************************************************)
EXTENDS Memory, FiniteSetTheorems, WellFoundedInduction, TLAPS

-----------------------------------------------------------------------------
(* Sets of natural numbers, as the backfill pages through them: the least  *)
(* and the greatest element, and the first few of a set.  (Claims_proof    *)
(* has these lemmas too, and says what they rest on.)                      *)

\* A set of natural numbers has a least element, and Min is it.
LEMMA Least ==
  ASSUME NEW S \in SUBSET Nat, S # {}
  PROVE  Min(S) \in S /\ \A n \in S : Min(S) <= n
<1> DEFINE R == OpToRel(<, Nat)
<1>1. IsWellFoundedOn(R, Nat)
  BY NatLessThanWellFounded
<1>2. \A x, y \in Nat : <<x, y>> \in R <=> x < y
  BY DEF OpToRel
<1> HIDE DEF R
<1>3. PICK m \in S : \A n \in S : ~(<<n, m>> \in R)
  BY <1>1, WFMin
<1>4. ASSUME NEW n \in S PROVE m <= n
  <2>1. m \in Nat /\ n \in Nat
    OBVIOUS
  <2>2. ~(n < m)
    BY <1>2, <1>3, <2>1
  <2>3. QED
    BY <2>1, <2>2
<1>5. QED
  BY <1>3, <1>4 DEF Min

\* The members of a set that are beyond one of its elements are fewer than
\* those beyond a smaller one.
LEMMA FewerAbove ==
  ASSUME NEW S \in SUBSET Nat, IsFiniteSet(S), NEW m \in S, NEW n \in S, m < n
  PROVE  /\ Cardinality({k \in S : k > n}) \in Nat /\ Cardinality({k \in S : k > m}) \in Nat
         /\ Cardinality({k \in S : k > n}) < Cardinality({k \in S : k > m})
<1> DEFINE A == {k \in S : k > n}
           B == {k \in S : k > m}
<1>1. IsFiniteSet(A) /\ IsFiniteSet(B)
  BY FS_Subset
<1>2. A \subseteq B /\ n \in B /\ n \notin A
  <2>1. m \in Nat /\ n \in Nat /\ \A k \in S : k \in Nat
    OBVIOUS
  <2>2. /\ \A k \in S : k > n => k > m
        /\ n > m /\ ~(n > n)
    BY <2>1
  <2>3. QED
    BY <2>1, <2>2
<1>3. Cardinality(A) \in Nat /\ Cardinality(B) \in Nat
  BY <1>1, FS_CardinalityType
<1> HIDE DEF A, B
<1>4. Cardinality(A) <= Cardinality(B) /\ Cardinality(A) # Cardinality(B)
  BY <1>1, <1>2, FS_Subset
<1>5. QED
  BY <1>3, <1>4 DEF A, B

\* A finite set of natural numbers has a greatest element, and Max is it.
LEMMA GreatestOfFinite ==
  ASSUME NEW S \in SUBSET Nat, S # {}, IsFiniteSet(S)
  PROVE  Max(S) \in S /\ \A n \in S : n <= Max(S)
<1> DEFINE Above(m) == Cardinality({k \in S : k > m})
           T == {Above(m) : m \in S}
<1>1. T \subseteq Nat /\ T # {}
  <2>1. \A m \in S : Above(m) \in Nat
    BY FS_Subset, FS_CardinalityType
  <2>2. QED
    BY <2>1
<1>2. Min(T) \in T /\ \A t \in T : Min(T) <= t
  BY <1>1, Least
<1>3. PICK m \in S : Min(T) = Above(m)
  BY <1>2
<1>4. ASSUME NEW n \in S PROVE n <= m
  <2>1. Above(n) \in T
    OBVIOUS
  <2>2. m \in Nat /\ n \in Nat /\ Above(m) <= Above(n)
    BY <1>2, <1>3, <2>1
  <2>3. m < n => Above(n) \in Nat /\ Above(m) \in Nat /\ Above(n) < Above(m)
    BY FewerAbove
  <2> HIDE DEF Above
  <2>4. QED
    BY <2>2, <2>3
<1>5. QED
  BY <1>4 DEF Max

-----------------------------------------------------------------------------
(* The first few.                                                          *)

FirstOf(S, count) == {n \in S : Cardinality({m \in S : m < n}) < count}

\* The first few of a non-empty set are not empty, and the others follow them.
LEMMA FirstComeFirst ==
  ASSUME NEW S \in SUBSET Nat, IsFiniteSet(S), NEW count \in Nat \ {0}
  PROVE  /\ S # {} => FirstOf(S, count) # {}
         /\ \A n \in S \ FirstOf(S, count), m \in FirstOf(S, count) : m < n
<1> DEFINE Below(n) == {m \in S : m < n}
<1>1. \A n \in S : IsFiniteSet(Below(n)) /\ Cardinality(Below(n)) \in Nat
  BY FS_Subset, FS_CardinalityType
<1>2. S # {} => FirstOf(S, count) # {}
  <2> SUFFICES ASSUME S # {} PROVE FirstOf(S, count) # {}
    OBVIOUS
  <2>1. Min(S) \in S /\ \A n \in S : Min(S) <= n
    BY Least
  <2>2. Below(Min(S)) = {}
    <3>1. Min(S) \in Nat /\ \A m \in S : m \in Nat
      BY <2>1
    <3>2. \A m \in S : ~(m < Min(S))
      BY <2>1, <3>1
    <3>3. QED
      BY <3>2
  <2>3. Cardinality(Below(Min(S))) < count
    BY <2>2, FS_EmptySet
  <2>4. QED
    BY <2>1, <2>3 DEF FirstOf
<1>3. ASSUME NEW n \in S \ FirstOf(S, count), NEW m \in FirstOf(S, count) PROVE m < n
  <2>1. m \in S /\ Cardinality(Below(m)) < count /\ ~(Cardinality(Below(n)) < count)
    BY DEF FirstOf
  <2>2. ASSUME n <= m PROVE FALSE
    <3>1. Below(n) \subseteq Below(m)
      <4>1. n \in Nat /\ m \in Nat /\ \A k \in S : k \in Nat
        BY <2>1
      <4>2. \A k \in S : k < n => k < m
        BY <2>2, <4>1
      <4>3. QED
        BY <4>2
    <3>2. Cardinality(Below(n)) <= Cardinality(Below(m))
      BY <1>1, <2>1, <3>1, FS_Subset
    <3>3. QED
      BY <1>1, <2>1, <3>2
  <2>3. QED
    BY <2>1, <2>2
<1>4. QED
  BY <1>2, <1>3


USE DEF storeVars, ingestVars, backfillVars

-----------------------------------------------------------------------------
(* Rows and documents.                                                     *)

\* What a record's write puts in place of its rows.
NumberedRows(r, given) == {[id |-> r, index |-> i, of |-> given] : i \in 1..given.passages}

LEMMA RowsAreFinite ==
  ASSUME NEW r, NEW given, given.passages \in Nat
  PROVE  IsFiniteSet(NumberedRows(r, given))
<1> DEFINE f == [i \in 1..given.passages |-> [id |-> r, index |-> i, of |-> given]]
<1>1. IsFiniteSet(1..given.passages)
  BY FS_Interval
<1>2. NumberedRows(r, given) = {f[i] : i \in 1..given.passages}
  BY DEF NumberedRows
<1>3. f \in Surjection(1..given.passages, NumberedRows(r, given))
  BY <1>2 DEF Surjection
<1>4. QED
  BY <1>1, <1>3, FS_Surjection

\* Replacing the rows of one record leaves those of the others.
LEMMA RowsReplaced ==
  ASSUME NEW q, NEW given, given.passages \in Nat, IsFiniteSet(chunks),
         chunks' = (chunks \ RowsOf(q)) \union NumberedRows(q, given)
  PROVE  /\ IsFiniteSet(chunks')
         /\ RowsOf(q)' = NumberedRows(q, given)
         /\ \A r : r # q => RowsOf(r)' = RowsOf(r)
         /\ \A row \in chunks' : row.id = q \/ row \in chunks
         /\ \A row \in chunks : row.id = q \/ row \in chunks'
<1>1. \A row \in NumberedRows(q, given) : row.id = q
  BY DEF NumberedRows
<1>2. IsFiniteSet(chunks')
  BY RowsAreFinite, FS_Difference, FS_Union
<1>3. QED
  BY <1>1, <1>2 DEF RowsOf

\* Replacing the document of one record leaves those of the others.
LEMMA DocumentLanded ==
  ASSUME NEW q \in RecordIds, LandDocument(q)
  PROVE  /\ DocumentsOf(q)' = Whole(q)
         /\ \A r : r # q => DocumentsOf(r)' = DocumentsOf(r)
         /\ \A r : r # q => (r \in Indexed' <=> r \in Indexed)
         /\ late' = During(late, q)
<1>1. \A d \in Whole(q) : d.id = q
  BY DEF Whole
<1>2. documents' = {d \in documents : d.id # q} \union Whole(q)
  BY DEF LandDocument, Whole
<1>3. QED
  BY <1>1, <1>2 DEF LandDocument, DocumentsOf, Indexed

\* A record has a document where it is indexed.
LEMMA IndexedHas == \A r : r \in Indexed <=> DocumentsOf(r) # {}
BY DEF Indexed, DocumentsOf

-----------------------------------------------------------------------------
(* A batch of the backfill.                                                *)

\* A batch is the next stored ids: every stored id is in it, was passed before
\* or lies ahead; and it is empty only when none lies ahead.
LEMMA BatchRead ==
  ASSUME Assumption, Typed, ReadBatch
  PROVE  /\ after' \in Nat /\ after <= after'
         /\ \A id \in DOMAIN batch' : /\ id \in RecordIds /\ RowsOf(id) # {}
                                     /\ after < id /\ id <= after'
         /\ \A row \in chunks : row.id <= after \/ row.id \in DOMAIN batch' \/ row.id > after'
         /\ DOMAIN batch' = {} => after' = after /\ \A row \in chunks : row.id <= after
         /\ phase' = IF DOMAIN batch' # {} THEN "building" ELSE IF pending # {} THEN "last" ELSE "done"
<1> DEFINE next == {row.id : row \in {c \in chunks : c.id > after}}
           ids == FirstOf(next, BatchSize)
           reach == ids \union {after}
<1>1. after' = Max(reach) /\ DOMAIN batch' = ids
  BY DEF ReadBatch, FirstOf
<1>2. phase' = IF ids # {} THEN "building" ELSE IF pending # {} THEN "last" ELSE "done"
  BY DEF ReadBatch, FirstOf
<1>3. \A row \in chunks : row.id \in Nat
  BY DEF Typed, Assumption
<1>4. after \in Nat /\ BatchSize \in Nat \ {0} /\ RecordIds \subseteq Nat
  BY DEF Typed, Assumption
<1>5. next \in SUBSET Nat /\ IsFiniteSet(next)
  <2> DEFINE ahead == {c \in chunks : c.id > after}
             f == [c \in ahead |-> c.id]
  <2>1. IsFiniteSet(ahead)
    BY FS_Subset DEF Typed
  <2>2. f \in Surjection(ahead, next)
    BY DEF Surjection
  <2>3. QED
    BY <1>3, <2>1, <2>2, FS_Surjection
<1>6. \A id \in next : id > after /\ id \in RecordIds /\ RowsOf(id) # {}
  BY DEF RowsOf, Typed
<1>7. \A row \in chunks : row.id <= after \/ row.id \in next
  BY <1>3, <1>4
<1> HIDE DEF next
<1>8. /\ ids \subseteq next
      /\ next # {} => ids # {}
      /\ \A n \in next \ ids, m \in ids : m < n
  BY <1>4, <1>5, FirstComeFirst DEF FirstOf
<1>9. reach \in SUBSET Nat /\ reach # {} /\ IsFiniteSet(reach)
  BY <1>4, <1>5, <1>8, FS_Subset, FS_AddElement
<1> HIDE DEF ids
<1>10. Max(reach) \in reach /\ \A n \in reach : n <= Max(reach)
  BY <1>9, GreatestOfFinite
<1>11. \A n \in next \ ids : n > Max(reach)
  BY <1>4, <1>5, <1>6, <1>8, <1>9, <1>10
<1>12. ids = {} => Max(reach) = after /\ next = {}
  BY <1>8, <1>10
<1>13. \A row \in chunks : row.id <= after \/ row.id \in ids \/ row.id > Max(reach)
  BY <1>7, <1>11
<1>14. \A id \in ids : id \in RecordIds /\ RowsOf(id) # {} /\ after < id /\ id <= Max(reach)
  BY <1>4, <1>5, <1>6, <1>8, <1>10
<1>15. Max(reach) \in Nat /\ after <= Max(reach)
  BY <1>9, <1>10
<1> HIDE DEF reach
<1>16. QED
  BY <1>1, <1>2, <1>7, <1>12, <1>13, <1>14, <1>15

\* Building takes one record of the batch, and adds it unless it is indexed.
LEMMA BuiltIs ==
  ASSUME Assumption, Typed, Backfilled, Build
  PROVE  \E id \in DOMAIN batch :
           /\ id \in RecordIds /\ DOMAIN batch' = DOMAIN batch \ {id}
           /\ \/ id \in existing /\ pending' = pending
              \/ /\ id \notin existing
                 /\ pending' = pending \union {[id |-> id, of |-> batch[id], full |-> FALSE]}
<1>1. DOMAIN batch # {} /\ DOMAIN batch \in SUBSET Nat
  BY DEF Backfilled, Build, Typed, Assumption
<1>2. Min(DOMAIN batch) \in DOMAIN batch
  BY <1>1, Least
<1>3. QED
  BY <1>2 DEF Build, Added, Restrict, Typed

-----------------------------------------------------------------------------
(* Types.                                                                  *)

LEMMA MemoryInit == ASSUME Assumption PROVE Init => MemoryInv
<1> SUFFICES ASSUME Init PROVE MemoryInv
  OBVIOUS
<1> USE DEF Init
<1>1. Typed
  BY FS_EmptySet DEF Typed, Pending
<1>2. SnapshotSound
  BY DEF SnapshotSound, NoSnapshot
<1>3. BranchesSound
  BY DEF BranchesSound, RowsOf, NewRows, DocumentsOf, Whole, IsBlank
<1>4. Backfilled
  BY DEF Backfilled, Pending
<1>5. QED
  BY <1>1, <1>2, <1>3, <1>4 DEF MemoryInv

\* Only the writes of chunks change the rows.
Rows(r, given) == chunks' = (chunks \ RowsOf(r)) \union NumberedRows(r, given)

LEMMA LandedIs ==
  ASSUME Typed, NEW r \in RecordIds, LandChunks(r)
  PROVE  /\ Rows(r, text[r]) /\ text[r].passages \in Nat
         /\ NewRows(r) = NumberedRows(r, text[r])
         /\ snapshot' = {} /\ touched' = During(touched, r)
BY DEF Typed, LandChunks, Rows, NewRows, NumberedRows, NoSnapshot

LEMMA TypedStep ==
  ASSUME Assumption, Typed, Backfilled, [Next]_memoryVars
  PROVE  Typed'
<1> USE DEF Typed, Assumption
<1>1. ASSUME NEW r \in RecordIds, NEW given, given.passages \in Nat, Rows(r, given)
      PROVE  IsFiniteSet(chunks') /\ \A row \in chunks' : row.id \in RecordIds
  BY <1>1, RowsReplaced DEF Rows
<1>2. CASE UNCHANGED memoryVars
  BY <1>2 DEF memoryVars
<1>3. ASSUME NEW dim \in Dims, Query(dim) PROVE Typed'
  BY <1>3 DEF Query
<1>4. CASE Close
  BY <1>4 DEF Close, Reopened
<1>5. ASSUME NEW r \in Foreign, ForeignWrite(r) PROVE Typed'
  <2>1. PICK given \in Texts : Rows(r, given)
    BY <1>5 DEF ForeignWrite, Rows, NumberedRows
  <2>2. r \in RecordIds /\ given.passages \in Nat
    OBVIOUS
  <2>3. IsFiniteSet(chunks') /\ \A row \in chunks' : row.id \in RecordIds
    BY <1>1, <2>1, <2>2
  <2>4. QED
    BY <1>5, <2>3 DEF ForeignWrite
<1>6. ASSUME NEW r \in RecordIds \ Foreign, NEW given \in Texts, Start(r, given) PROVE Typed'
  BY <1>6 DEF Start
<1>7. ASSUME NEW r \in RecordIds \ Foreign, Embedded(r) \/ VectorsFail(r) \/ IndexFails(r) \/ Gathered(r)
      PROVE  Typed'
  BY <1>7 DEF Embedded, VectorsFail, IndexFails, Gathered
<1>8. ASSUME NEW r \in RecordIds, LandDocument(r) PROVE \A d \in documents' : d.id \in RecordIds
  BY <1>8 DEF LandDocument
<1>9. ASSUME NEW r \in RecordIds \ Foreign, WriteDocument(r) PROVE Typed'
  BY <1>8, <1>9 DEF WriteDocument
<1>10. ASSUME NEW r \in RecordIds \ Foreign, WriteChunks(r) PROVE Typed'
  <2>1. IsFiniteSet(chunks') /\ \A row \in chunks' : row.id \in RecordIds
    BY <1>1, <1>10, LandedIs DEF WriteChunks
  <2>2. QED
    BY <1>10, <2>1 DEF WriteChunks
<1>11. ASSUME NEW r \in RecordIds \ Foreign, Cancel(r) PROVE Typed'
  <2>1. IsFiniteSet(chunks') /\ \A row \in chunks' : row.id \in RecordIds
    <3>1. CASE LandChunks(r)
      BY <1>1, <3>1, LandedIs
    <3>2. CASE UNCHANGED chunks
      BY <3>2
    <3>3. QED
      BY <1>11, <3>1, <3>2 DEF Cancel
  <2>2. \A d \in documents' : d.id \in RecordIds
    BY <1>11, <1>8 DEF Cancel
  <2>3. QED
    BY <1>11, <2>1, <2>2 DEF Cancel
<1>12. CASE StartBackfill \/ IndexPending \/ BackfillFails
  BY <1>12 DEF StartBackfill, IndexPending, BackfillFails
<1>13. CASE Build
  <2>1. PICK id \in DOMAIN batch :
           /\ id \in RecordIds /\ DOMAIN batch' = DOMAIN batch \ {id}
           /\ \/ id \in existing /\ pending' = pending
              \/ /\ id \notin existing
                 /\ pending' = pending \union {[id |-> id, of |-> batch[id], full |-> FALSE]}
    BY <1>13, BuiltIs
  <2> DEFINE d == [id |-> id, of |-> batch[id], full |-> FALSE]
  <2>2. d.id \in RecordIds /\ (pending' = pending \/ pending' = pending \union {d})
    BY <2>1
  <2> HIDE DEF d
  <2>3. (\A e \in pending' : e.id \in RecordIds) /\ DOMAIN batch' \subseteq RecordIds
    BY <2>1, <2>2
  <2>4. QED
    BY <1>13, <2>3 DEF Build
<1>14. CASE ReadBatch
  <2>1. after' \in Nat /\ phase' \in {"building", "last", "done"} /\ DOMAIN batch' \subseteq RecordIds
    BY <1>14, BatchRead
  <2>2. QED
    BY <1>14, <2>1 DEF ReadBatch
<1>15. QED
  BY <1>2, <1>3, <1>4, <1>5, <1>6, <1>7, <1>10, <1>11, <1>12, <1>14, <1>9, <1>13 DEF Next

-----------------------------------------------------------------------------
(* Searches.                                                               *)

\* Every write of the store drops the snapshot, and a foreign one is told by the
\* version: what is left answers as the rows do.
LEMMA SnapshotStep ==
  ASSUME Assumption, Typed, SnapshotSound, [Next]_memoryVars
  PROVE  SnapshotSound'
<1> USE DEF SnapshotSound, NoSnapshot
<1>1. version \in Nat
  BY DEF Typed
<1>2. CASE UNCHANGED <<chunks, snapshot, version, answered>>
  BY <1>2
<1>3. ASSUME NEW dim \in Dims, Query(dim) PROVE SnapshotSound'
  <2> DEFINE rows == {row \in chunks : DimOf[row.id] = dim}
  <2>1. CASE \E s \in snapshot : s.version = version /\ s.dim = dim
    <3>1. UNCHANGED <<chunks, snapshot, version>>
      BY <1>3, <2>1 DEF Query
    <3>2. answered' = (answered /\ \A s \in snapshot' : s.rows = rows)
      BY <1>3 DEF Query
    <3>3. \A s \in snapshot : s.rows = rows
      BY <2>1
    <3>4. answered'
      BY <3>1, <3>2, <3>3
    <3>5. QED
      BY <3>1, <3>4
  <2>2. CASE ~\E s \in snapshot : s.version = version /\ s.dim = dim
    <3>1. /\ snapshot' = {[version |-> version, dim |-> dim, rows |-> rows]}
          /\ UNCHANGED <<chunks, version>>
          /\ answered' = (answered /\ \A s \in snapshot' : s.rows = rows)
      BY <1>3, <2>2 DEF Query
    <3>2. \A s \in snapshot' : s.version = version /\ s.dim = dim /\ s.rows = rows
      BY <3>1
    <3>3. answered'
      BY <3>1, <3>2
    <3>4. \A s, t \in snapshot' : s = t
      BY <3>1
    <3>5. QED
      BY <1>1, <3>1, <3>2, <3>3, <3>4
  <2>3. QED
    BY <2>1, <2>2
<1>4. CASE snapshot' = {} /\ UNCHANGED answered
  BY <1>4
<1>5. CASE Close
  BY <1>4, <1>5 DEF Close, Reopened
<1>6. ASSUME NEW r \in Foreign, ForeignWrite(r) PROVE SnapshotSound'
  BY <1>1, <1>6 DEF ForeignWrite
<1>7. ASSUME NEW r \in RecordIds \ Foreign, NEW given \in Texts, Start(r, given) PROVE SnapshotSound'
  BY <1>2, <1>7 DEF Start
<1>8. ASSUME NEW r \in RecordIds \ Foreign,
             Embedded(r) \/ WriteDocument(r) \/ IndexFails(r) \/ Gathered(r)
      PROVE  SnapshotSound'
  BY <1>2, <1>8 DEF Embedded, WriteDocument, IndexFails, Gathered
<1>9. ASSUME NEW r \in RecordIds \ Foreign, VectorsFail(r) PROVE SnapshotSound'
  BY <1>2, <1>4, <1>9 DEF VectorsFail
<1>10. ASSUME NEW r \in RecordIds \ Foreign, WriteChunks(r) PROVE SnapshotSound'
  BY <1>4, <1>10 DEF WriteChunks, LandChunks
<1>11. ASSUME NEW r \in RecordIds \ Foreign, Cancel(r) PROVE SnapshotSound'
  BY <1>2, <1>4, <1>11 DEF Cancel, LandChunks
<1>12. CASE StartBackfill \/ ReadBatch \/ Build \/ IndexPending \/ BackfillFails
  BY <1>2, <1>12 DEF StartBackfill, ReadBatch, Build, IndexPending, BackfillFails
<1>13. CASE UNCHANGED memoryVars
  BY <1>2, <1>13 DEF memoryVars
<1>14. QED
  BY <1>3, <1>5, <1>6, <1>7, <1>8, <1>9, <1>10, <1>11, <1>12, <1>13 DEF Next

-----------------------------------------------------------------------------
(* Ingests.                                                                *)

\* What BranchesSound says of one record.
BranchSound(r) ==
  /\ vectors[r] = "idle" <=> index[r] = "idle"
  /\ r \in intact => vectors[r] = "idle"
  /\ r \in Foreign => vectors[r] = "idle"
  /\ vectors[r] = "done" \/ r \in intact => RowsOf(r) = NewRows(r)
  /\ (index[r] = "done" \/ r \in intact) /\ r \notin overrun => DocumentsOf(r) = Whole(r)

LEMMA BranchesAre ==
  BranchesSound <=> intact \subseteq RecordIds \ Foreign /\ \A r \in RecordIds : BranchSound(r)
BY DEF BranchesSound, BranchSound

\* A record whose branches, text, rows and document stay keeps them sound.
LEMMA BranchKept ==
  ASSUME NEW r, BranchSound(r), overrun \subseteq overrun',
         vectors'[r] = vectors[r], index'[r] = index[r], text'[r] = text[r],
         r \in intact' => r \in intact,
         RowsOf(r)' = RowsOf(r), DocumentsOf(r)' = DocumentsOf(r)
  PROVE  BranchSound(r)'
<1>1. NewRows(r)' = NewRows(r) /\ Whole(r)' = Whole(r)
  BY DEF NewRows, Whole, IsBlank
<1>2. QED
  BY <1>1 DEF BranchSound

\* A record that was in no one's hands while the backfill goes over its document
\* had none when the backfill began, and so no intact text.
LEMMA OverrunIsSeen ==
  ASSUME Typed, BranchesSound, Backfilled, IndexPending, NEW r \in RecordIds, r \in Pending,
         r \notin overrun'
  PROVE  index[r] # "done" /\ r \notin intact
<1>1. r \notin late /\ r \notin touched /\ r \notin Busy /\ r \notin overrun
  BY DEF IndexPending, Pending
<1>2. vectors[r] = "idle" /\ index[r] # "done"
  BY <1>1 DEF Busy, BranchesSound
<1>3. RowsOf(r) # {} /\ r \notin existing /\ phase \notin {"idle", "failed"}
  BY <1>1 DEF Backfilled, IndexPending
<1>4. r \notin Indexed
  BY <1>1, <1>3 DEF Backfilled
<1>5. ASSUME r \in intact PROVE FALSE
  <2>1. RowsOf(r) = NewRows(r) /\ DocumentsOf(r) = Whole(r)
    BY <1>1, <1>5 DEF BranchesSound
  <2>2. text[r].passages \in Nat /\ text[r].passages # 0
    BY <1>3, <2>1 DEF NewRows, Typed
  <2>3. Whole(r) # {}
    BY <2>2 DEF Whole, IsBlank
  <2>4. QED
    BY <1>4, <2>1, <2>3, IndexedHas
<1>6. QED
  BY <1>2, <1>5


LEMMA BranchesStep ==
  ASSUME Assumption, Typed, BranchesSound, Backfilled, [Next]_memoryVars
  PROVE  BranchesSound'
<1>0. intact \subseteq RecordIds \ Foreign /\ \A r \in RecordIds : BranchSound(r)
  BY BranchesAre
<1> DEFINE Sound == intact' \subseteq RecordIds \ Foreign /\ \A r \in RecordIds : BranchSound(r)'
<1>1. SUFFICES Sound
  BY DEF BranchesSound, BranchSound
<1>2. UNCHANGED chunks => \A r : RowsOf(r)' = RowsOf(r)
  BY DEF RowsOf
<1>3. UNCHANGED documents => \A r : DocumentsOf(r)' = DocumentsOf(r)
  BY DEF DocumentsOf
<1>4. /\ vectors \in [RecordIds -> {"idle", "embedding", "writing", "done", "fault"}]
      /\ index \in [RecordIds -> {"idle", "writing", "done", "fault"}]
      /\ text \in [RecordIds -> [title : BOOLEAN, passages : Nat]] /\ IsFiniteSet(chunks)
  BY DEF Typed
<1>5. CASE UNCHANGED <<chunks, documents, ingestVars, overrun>>
  BY <1>0, <1>2, <1>3, <1>5, BranchKept
<1>6. ASSUME NEW q \in RecordIds \ Foreign, BranchSound(q)', overrun \subseteq overrun',
             \A r \in RecordIds \ {q} :
               /\ vectors'[r] = vectors[r] /\ index'[r] = index[r] /\ text'[r] = text[r]
               /\ RowsOf(r)' = RowsOf(r) /\ DocumentsOf(r)' = DocumentsOf(r),
             intact' \subseteq intact \union {q}
      PROVE  Sound
  <2>1. \A r \in RecordIds \ {q} : BranchSound(r)'
    BY <1>0, <1>6, BranchKept
  <2>2. QED
    BY <1>0, <1>6, <2>1
<1>7. ASSUME NEW q \in RecordIds, LandChunks(q)
      PROVE  /\ RowsOf(q)' = NewRows(q)
             /\ \A r : r # q => RowsOf(r)' = RowsOf(r)
  BY <1>4, <1>7, LandedIs, RowsReplaced DEF Rows
<1>8. ASSUME NEW q \in RecordIds, UNCHANGED text
      PROVE  NewRows(q)' = NewRows(q) /\ Whole(q)' = Whole(q)
  BY <1>8 DEF NewRows, Whole, IsBlank
<1>9. ASSUME NEW q \in RecordIds \ Foreign, NEW given \in Texts, Start(q, given) PROVE Sound
  <2>1. BranchSound(q)'
    BY <1>4, <1>9 DEF Start, BranchSound
  <2>2. QED
    BY <1>2, <1>3, <1>4, <1>6, <1>9, <2>1 DEF Start
<1>10. ASSUME NEW q \in RecordIds \ Foreign, Embedded(q) PROVE Sound
  <2>1. BranchSound(q)'
    BY <1>0, <1>2, <1>3, <1>4, <1>8, <1>10 DEF Embedded, BranchSound
  <2>2. QED
    BY <1>2, <1>3, <1>4, <1>6, <1>10, <2>1 DEF Embedded
<1>11. ASSUME NEW q \in RecordIds \ Foreign, WriteChunks(q) PROVE Sound
  <2>1. BranchSound(q)'
    BY <1>0, <1>3, <1>4, <1>7, <1>8, <1>11 DEF WriteChunks, BranchSound
  <2>2. QED
    BY <1>3, <1>4, <1>6, <1>7, <1>11, <2>1 DEF WriteChunks
<1>12. ASSUME NEW q \in RecordIds \ Foreign, WriteDocument(q) PROVE Sound
  <2>1. BranchSound(q)'
    BY <1>0, <1>2, <1>4, <1>8, <1>12, DocumentLanded DEF WriteDocument, BranchSound
  <2>2. QED
    BY <1>2, <1>4, <1>6, <1>12, <2>1, DocumentLanded DEF WriteDocument
<1>13. ASSUME NEW q \in RecordIds \ Foreign, VectorsFail(q) \/ IndexFails(q) PROVE Sound
  <2>1. BranchSound(q)'
    BY <1>0, <1>2, <1>3, <1>4, <1>8, <1>13 DEF VectorsFail, IndexFails, BranchSound
  <2>2. QED
    BY <1>2, <1>3, <1>4, <1>6, <1>13, <2>1 DEF VectorsFail, IndexFails
<1>14. ASSUME NEW q \in RecordIds \ Foreign, Gathered(q) PROVE Sound
  <2>1. BranchSound(q)'
    BY <1>0, <1>2, <1>3, <1>4, <1>8, <1>14 DEF Gathered, BranchSound
  <2>2. QED
    BY <1>2, <1>3, <1>4, <1>6, <1>14, <2>1 DEF Gathered
<1>15. ASSUME NEW q \in RecordIds \ Foreign, Cancel(q) PROVE Sound
  <2>1. q \notin intact
    BY <1>0, <1>15 DEF Cancel, BranchSound
  <2>2. BranchSound(q)'
    BY <1>4, <1>15, <2>1 DEF Cancel, BranchSound
  <2>3. \A r : r # q => RowsOf(r)' = RowsOf(r)
    BY <1>2, <1>7, <1>15 DEF Cancel
  <2>4. \A r : r # q => DocumentsOf(r)' = DocumentsOf(r)
    BY <1>3, <1>15, DocumentLanded DEF Cancel
  <2>5. QED
    BY <1>4, <1>6, <1>15, <2>2, <2>3, <2>4 DEF Cancel
<1>16. ASSUME NEW q \in Foreign, ForeignWrite(q) PROVE Sound
  <2>1. PICK given \in Texts : Rows(q, given)
    BY <1>16 DEF ForeignWrite, Rows, NumberedRows
  <2>2. \A r : r # q => RowsOf(r)' = RowsOf(r)
    BY <1>4, <2>1, RowsReplaced DEF Rows, Assumption
  <2>3. UNCHANGED <<documents, text, vectors, index, intact, overrun>>
    BY <1>16 DEF ForeignWrite
  <2>4. \A r \in RecordIds \ {q} : BranchSound(r)'
    BY <1>0, <1>3, <2>2, <2>3, BranchKept
  <2>5. q \in RecordIds /\ vectors[q] = "idle" /\ index[q] = "idle" /\ q \notin intact
    BY <1>0 DEF BranchSound, Assumption
  <2>6. BranchSound(q)'
    BY <2>3, <2>5 DEF BranchSound
  <2>7. QED
    BY <1>0, <2>3, <2>4, <2>6
<1>17. CASE IndexPending
  <2>1. /\ UNCHANGED <<chunks, text, vectors, index, intact>> /\ overrun \subseteq overrun'
        /\ documents' = {d \in documents : d.id \notin Pending} \union pending
    BY <1>17 DEF IndexPending, Pending
  <2>2. \A r \in RecordIds \ Pending : DocumentsOf(r)' = DocumentsOf(r)
    BY <2>1 DEF DocumentsOf, Pending
  <2>3. ASSUME NEW r \in RecordIds \ Pending PROVE BranchSound(r)'
    BY <1>0, <1>2, <2>1, <2>2, BranchKept
  <2>4. ASSUME NEW r \in RecordIds, r \in Pending PROVE BranchSound(r)'
    <3>1. r \notin overrun' => index[r] # "done" /\ r \notin intact
      BY <1>17, <2>4, OverrunIsSeen
    <3>2. NewRows(r)' = NewRows(r) /\ RowsOf(r)' = RowsOf(r)
      BY <1>2, <1>8, <2>1
    <3>3. QED
      BY <1>0, <2>1, <3>1, <3>2 DEF BranchSound
  <2>5. QED
    BY <1>0, <2>1, <2>3, <2>4
<1>18. CASE UNCHANGED memoryVars
  BY <1>5, <1>18 DEF memoryVars
<1>19. ASSUME NEW dim \in Dims, Query(dim) PROVE Sound
  BY <1>5, <1>19 DEF Query
<1>20. CASE Close
  BY <1>5, <1>20 DEF Close
<1>21. CASE StartBackfill \/ ReadBatch \/ Build \/ BackfillFails
  BY <1>5, <1>21 DEF StartBackfill, ReadBatch, Build, BackfillFails
<1> HIDE DEF Sound
<1>22. QED
  BY <1>9, <1>10, <1>11, <1>12, <1>13, <1>14, <1>15, <1>16, <1>17, <1>18, <1>19, <1>20, <1>21 DEF Next

-----------------------------------------------------------------------------
(* The backfill.                                                           *)

\* Writes beside a backfill keep it sound, since it is told of them.
LEMMA WritesBeside ==
  ASSUME Assumption, Typed', Backfilled, UNCHANGED backfillVars,
         touched \subseteq touched', late \subseteq late',
         phase # "idle" =>
           /\ \A row \in chunks' : row \in chunks \/ row.id \in touched'
           /\ \A r : r \notin touched' => RowsOf(r)' = RowsOf(r)
           /\ \A r : r \notin late' => (r \in Indexed' <=> r \in Indexed)
  PROVE  Backfilled'
<1> SUFFICES ASSUME phase # "failed" PROVE Backfilled'
  BY DEF Backfilled
<1>1. Pending' = Pending
  BY DEF Pending
<1>2. CASE phase = "idle"
  <2>1. DOMAIN batch = {} /\ Pending = {} /\ after = 0 /\ pending = {}
    BY <1>2 DEF Backfilled, Pending
  <2>2. \A row \in chunks' : row.id > after
    <3>1. \A row \in chunks' : row.id \in Nat \ {0}
      BY DEF Typed, Assumption
    <3>2. QED
      BY <2>1, <3>1
  <2>3. QED
    BY <1>1, <1>2, <2>1, <2>2 DEF Backfilled
<1>3. CASE phase # "idle"
  <2>1. existing \ late \subseteq Indexed => existing \ late' \subseteq Indexed'
    BY <1>3
  <2>2. \A r \in DOMAIN batch \union Pending :
          r <= after /\ (r \notin touched' => RowsOf(r)' # {})
    BY <1>3 DEF Backfilled
  <2>3. \A r \in (Indexed' \ late') \ existing : r <= after /\ r \notin DOMAIN batch \union Pending
    BY <1>3 DEF Backfilled
  <2>4. \A row \in chunks' :
          \/ row.id \in touched' \union late' \union Indexed' \union DOMAIN batch \union Pending
          \/ phase \notin {"last", "done"} /\ row.id > after
    <3> SUFFICES ASSUME NEW row \in chunks', row.id \notin touched', row.id \notin late'
                 PROVE  \/ row.id \in Indexed' \union DOMAIN batch \union Pending
                        \/ phase \notin {"last", "done"} /\ row.id > after
      OBVIOUS
    <3>1. row \in chunks /\ row.id \notin touched /\ row.id \notin late
      BY <1>3
    <3>2. row.id \in Indexed => row.id \in Indexed'
      BY <1>3
    <3>3. QED
      BY <3>1, <3>2 DEF Backfilled
  <2>5. QED
    BY <1>1, <1>3, <2>1, <2>2, <2>3, <2>4 DEF Backfilled
<1>4. QED
  BY <1>2, <1>3

LEMMA BackfilledStep ==
  ASSUME Assumption, Typed, Typed', Backfilled, [Next]_memoryVars
  PROVE  Backfilled'
<1> DEFINE chunksTold == \/ UNCHANGED <<chunks, touched>>
                         \/ \E q \in RecordIds : \E given :
                              /\ given.passages \in Nat /\ Rows(q, given)
                              /\ touched' = During(touched, q)
           documentsTold == \/ UNCHANGED <<documents, late>>
                            \/ \E q \in RecordIds : LandDocument(q)
<1>1. ASSUME UNCHANGED backfillVars, chunksTold, documentsTold PROVE Backfilled'
  <2>1. touched \subseteq touched' /\ late \subseteq late'
    BY <1>1, DocumentLanded DEF During
  <2>2. phase # "idle" =>
          /\ \A row \in chunks' : row \in chunks \/ row.id \in touched'
          /\ \A r : r \notin touched' => RowsOf(r)' = RowsOf(r)
    <3>1. CASE UNCHANGED <<chunks, touched>>
      BY <3>1 DEF RowsOf
    <3>2. ASSUME NEW q \in RecordIds, NEW given, given.passages \in Nat, Rows(q, given),
                 touched' = During(touched, q), phase # "idle"
          PROVE  /\ \A row \in chunks' : row \in chunks \/ row.id \in touched'
                 /\ \A r : r \notin touched' => RowsOf(r)' = RowsOf(r)
      <4>1. IsFiniteSet(chunks) /\ q \in touched'
        BY <3>2 DEF Typed, During
      <4>2. QED
        BY <3>2, <4>1, RowsReplaced DEF Rows
    <3>3. QED
      BY <1>1, <3>1, <3>2
  <2>3. phase # "idle" => \A r : r \notin late' => (r \in Indexed' <=> r \in Indexed)
    <3>1. CASE UNCHANGED <<documents, late>>
      BY <3>1 DEF Indexed
    <3>2. ASSUME NEW q \in RecordIds, LandDocument(q), phase # "idle"
          PROVE  \A r : r \notin late' => (r \in Indexed' <=> r \in Indexed)
      <4>1. q \in late'
        BY <3>2, DocumentLanded DEF During
      <4>2. QED
        BY <3>2, <4>1, DocumentLanded
    <3>3. QED
      BY <1>1, <3>1, <3>2
  <2>4. QED
    BY <1>1, <2>1, <2>2, <2>3, WritesBeside
<1>2. ASSUME NEW r \in RecordIds, LandChunks(r) PROVE chunksTold
  BY <1>2, LandedIs
<1>3. CASE UNCHANGED memoryVars
  BY <1>1, <1>3 DEF memoryVars
<1>4. ASSUME NEW dim \in Dims, Query(dim) PROVE Backfilled'
  BY <1>1, <1>4 DEF Query
<1>5. CASE Close
  BY <1>1, <1>5 DEF Close
<1>6. ASSUME NEW r \in Foreign, ForeignWrite(r) PROVE Backfilled'
  <2>1. PICK given \in Texts : Rows(r, given)
    BY <1>6 DEF ForeignWrite, Rows, NumberedRows
  <2>2. r \in RecordIds /\ given.passages \in Nat /\ touched' = During(touched, r)
    BY <1>6 DEF ForeignWrite, Assumption
  <2>3. chunksTold
    BY <2>1, <2>2
  <2>4. QED
    BY <1>1, <1>6, <2>3 DEF ForeignWrite
<1>7. ASSUME NEW r \in RecordIds \ Foreign, NEW given \in Texts, Start(r, given) PROVE Backfilled'
  BY <1>1, <1>7 DEF Start
<1>8. ASSUME NEW r \in RecordIds \ Foreign, Embedded(r) \/ VectorsFail(r) \/ IndexFails(r) \/ Gathered(r)
      PROVE  Backfilled'
  BY <1>1, <1>8 DEF Embedded, VectorsFail, IndexFails, Gathered
<1>9. ASSUME NEW r \in RecordIds \ Foreign, WriteChunks(r) PROVE Backfilled'
  BY <1>1, <1>2, <1>9 DEF WriteChunks
<1>10. ASSUME NEW r \in RecordIds \ Foreign, WriteDocument(r) PROVE Backfilled'
  BY <1>1, <1>10 DEF WriteDocument
<1>11. ASSUME NEW r \in RecordIds \ Foreign, Cancel(r) PROVE Backfilled'
  BY <1>1, <1>2, <1>11 DEF Cancel
<1> HIDE DEF chunksTold, documentsTold
<1>12. CASE StartBackfill
  <2>1. phase = "idle" /\ phase' = "reading" /\ existing' = Indexed
        /\ UNCHANGED <<chunks, documents, after, batch, pending, touched, late>>
    BY <1>12 DEF StartBackfill, Indexed
  <2>2. Indexed' = Indexed /\ Pending' = Pending /\ Pending = {}
        /\ DOMAIN batch = {} /\ after = 0
    BY <2>1 DEF Backfilled, Indexed, Pending
  <2>3. \A row \in chunks : row.id > after
    <3>1. \A row \in chunks : row.id \in Nat \ {0}
      BY DEF Typed, Assumption
    <3>2. QED
      BY <2>2, <3>1
  <2>4. QED
    BY <2>1, <2>2, <2>3 DEF Backfilled
<1>13. CASE ReadBatch
  <2>1. /\ phase = "reading" /\ UNCHANGED <<chunks, documents, existing, pending, touched, late>>
        /\ UNCHANGED <<Indexed, Pending>> /\ \A r : RowsOf(r)' = RowsOf(r)
    BY <1>13 DEF ReadBatch, Indexed, Pending, RowsOf
  <2>2. DOMAIN batch = {} /\ after \in Nat
    BY <2>1 DEF Backfilled, Typed
  <2>3. \A r \in Pending : r <= after /\ (r \notin touched => RowsOf(r) # {})
    BY <2>1 DEF Backfilled
  <2>4. Pending = {} <=> pending = {}
    BY DEF Pending
  <2>5. /\ after' \in Nat /\ after <= after'
        /\ \A id \in DOMAIN batch' : /\ id \in RecordIds /\ RowsOf(id) # {}
                                    /\ after < id /\ id <= after'
        /\ \A row \in chunks : row.id <= after \/ row.id \in DOMAIN batch' \/ row.id > after'
        /\ DOMAIN batch' = {} => after' = after /\ \A row \in chunks : row.id <= after
        /\ phase' = IF DOMAIN batch' # {} THEN "building" ELSE IF pending # {} THEN "last" ELSE "done"
    BY <1>13, BatchRead
  <2> DEFINE new == DOMAIN batch'
  <2>6. RecordIds \subseteq Nat /\ Pending \subseteq Nat /\ Indexed \subseteq Nat /\ new \subseteq Nat
        /\ \A row \in chunks : row.id \in Nat
    BY <2>5 DEF Typed, Assumption, Indexed, Pending
  <2> HIDE DEF new
  <2>7. new \intersect Pending = {}
    BY <2>2, <2>3, <2>5, <2>6 DEF new
  <2>8. \A r \in new \union Pending : r <= after' /\ (r \notin touched => RowsOf(r) # {})
    <3>1. \A r \in new : r <= after' /\ RowsOf(r) # {}
      BY <2>5 DEF new
    <3>2. ASSUME NEW r \in Pending PROVE r <= after' /\ (r \notin touched => RowsOf(r) # {})
      <4>1. r \in Nat /\ r <= after /\ after \in Nat /\ after' \in Nat /\ after <= after'
        BY <2>2, <2>3, <2>5, <2>6
      <4>2. QED
        BY <2>3, <4>1
    <3>3. QED
      BY <3>1, <3>2
  <2>9. \A r \in (Indexed \ late) \ existing : r <= after' /\ r \notin new \union Pending
    <3> SUFFICES ASSUME NEW r \in (Indexed \ late) \ existing PROVE r <= after' /\ r \notin new \union Pending
      OBVIOUS
    <3>1. r <= after /\ r \notin Pending /\ r \in Nat
      BY <2>1, <2>6 DEF Backfilled
    <3>2. \A id \in new : after < id /\ id \in Nat
      BY <2>5, <2>6 DEF new
    <3>3. QED
      BY <2>2, <2>5, <3>1, <3>2
  <2>10. \A row \in chunks :
           \/ row.id \in touched \union late \union Indexed \union new \union Pending
           \/ phase' \notin {"last", "done"} /\ row.id > after'
    <3> SUFFICES ASSUME NEW row \in chunks, row.id \notin touched \union late \union Indexed \union Pending
                 PROVE  row.id \in new \/ (phase' \notin {"last", "done"} /\ row.id > after')
      OBVIOUS
    <3>1. row.id > after /\ row.id \in Nat
      BY <2>1, <2>2, <2>6 DEF Backfilled
    <3>2. ~(row.id <= after)
      BY <2>2, <3>1
    <3>3. new # {}
      BY <2>5, <3>2 DEF new
    <3>4. QED
      BY <2>5, <3>2, <3>3 DEF new
  <2>11. QED
    BY <2>1, <2>4, <2>5, <2>7, <2>8, <2>9, <2>10 DEF Backfilled, new
<1>14. CASE Build
  <2>1. /\ phase = "building" /\ phase' \in {"indexing", "reading", "building"}
        /\ phase' = "reading" => DOMAIN batch' = {}
        /\ phase' = "building" => DOMAIN batch' # {}
        /\ UNCHANGED <<chunks, documents, existing, after, touched, late>>
        /\ UNCHANGED Indexed /\ \A r : RowsOf(r)' = RowsOf(r)
    BY <1>14 DEF Build, Indexed, RowsOf
  <2>2. PICK id \in DOMAIN batch :
           /\ id \in RecordIds /\ DOMAIN batch' = DOMAIN batch \ {id}
           /\ \/ id \in existing /\ pending' = pending
              \/ /\ id \notin existing
                 /\ pending' = pending \union {[id |-> id, of |-> batch[id], full |-> FALSE]}
    BY <1>14, BuiltIs
  <2>3. \/ id \in existing /\ Pending' = Pending
        \/ id \notin existing /\ Pending' = Pending \union {id}
    <3>1. CASE pending' = pending
      BY <2>2, <3>1 DEF Pending
    <3>2. CASE /\ id \notin existing
               /\ pending' = pending \union {[id |-> id, of |-> batch[id], full |-> FALSE]}
      <4> DEFINE d == [id |-> id, of |-> batch[id], full |-> FALSE]
      <4>1. d.id = id /\ pending' = pending \union {d}
        BY <3>2
      <4> HIDE DEF d
      <4>2. QED
        BY <3>2, <4>1 DEF Pending
    <3>3. QED
      BY <2>2, <3>1, <3>2
  <2>4. /\ DOMAIN batch \intersect Pending = {} /\ Pending \intersect existing = {}
        /\ existing \ late \subseteq Indexed
        /\ \A r \in DOMAIN batch \union Pending : r <= after /\ (r \notin touched => RowsOf(r) # {})
        /\ \A r \in (Indexed \ late) \ existing : r <= after /\ r \notin DOMAIN batch \union Pending
        /\ \A row \in chunks :
             \/ row.id \in touched \union late \union Indexed \union DOMAIN batch \union Pending
             \/ row.id > after
    BY <2>1 DEF Backfilled
  <2>5. /\ DOMAIN batch' \intersect Pending' = {} /\ Pending' \intersect existing = {}
        /\ DOMAIN batch' \union Pending' \subseteq DOMAIN batch \union Pending
        /\ (DOMAIN batch \union Pending) \ (DOMAIN batch' \union Pending') \subseteq existing
    BY <2>2, <2>3, <2>4
  <2>6. \A row \in chunks :
          \/ row.id \in touched \union late \union Indexed \union DOMAIN batch' \union Pending'
          \/ row.id > after
    BY <2>4, <2>5
  <2>7. QED
    BY <2>1, <2>4, <2>5, <2>6 DEF Backfilled
<1>15. CASE IndexPending
  <2>1. /\ phase \in {"indexing", "last"}
        /\ phase' = IF phase = "last" THEN "done" ELSE IF DOMAIN batch = {} THEN "reading" ELSE "building"
        /\ UNCHANGED <<chunks, existing, after, batch, touched, late>> /\ pending' = {}
        /\ documents' = {d \in documents : d.id \notin Pending} \union pending
        /\ \A r : RowsOf(r)' = RowsOf(r)
    BY <1>15 DEF IndexPending, Pending, RowsOf
  <2>2. Indexed' = Indexed \union Pending /\ Pending' = {}
    BY <2>1 DEF Indexed, Pending
  <2>3. QED
    BY <2>1, <2>2 DEF Backfilled
<1>16. CASE BackfillFails
  BY <1>16 DEF BackfillFails, Backfilled
<1>17. QED
  BY <1>3, <1>4, <1>5, <1>6, <1>7, <1>8, <1>9, <1>10, <1>11, <1>12, <1>13, <1>14, <1>15, <1>16 DEF Next

-----------------------------------------------------------------------------
(* The theorems.                                                           *)

LEMMA MemoryStep == ASSUME Assumption PROVE MemoryInv /\ [Next]_memoryVars => MemoryInv'
<1> SUFFICES ASSUME MemoryInv, [Next]_memoryVars PROVE MemoryInv'
  OBVIOUS
<1>1. Typed /\ SnapshotSound /\ BranchesSound /\ Backfilled
  BY DEF MemoryInv
<1>2. Typed'
  BY <1>1, TypedStep
<1>3. SnapshotSound' /\ BranchesSound' /\ Backfilled'
  BY <1>1, <1>2, SnapshotStep, BranchesStep, BackfilledStep
<1>4. QED
  BY <1>2, <1>3 DEF MemoryInv

LEMMA MemoryInvTells == MemoryInv => SearchIsCurrent /\ BackendsAgree
<1> SUFFICES ASSUME MemoryInv PROVE SearchIsCurrent /\ BackendsAgree
  OBVIOUS
<1>1. SearchIsCurrent
  BY DEF MemoryInv, SnapshotSound, SearchIsCurrent
<1>2. \A r \in intact \ overrun : RowsOf(r) = NewRows(r) /\ DocumentsOf(r) = Whole(r)
  BY DEF MemoryInv, BranchesSound
<1>3. ASSUME phase = "done", NEW row \in chunks, row.id \notin touched \union late
      PROVE  \E d \in documents : d.id = row.id
  <2>1. row.id \in Indexed
    BY <1>3 DEF MemoryInv, Backfilled, Pending
  <2>2. QED
    BY <2>1 DEF Indexed
<1>4. QED
  BY <1>1, <1>2, <1>3 DEF BackendsAgree, DocumentsOf, Whole

\* The rows, documents, branches and the backfill's own variables stay related as
\* MemoryInv says, for every set of records, texts and dimensions.
THEOREM MemoryInvariant == ASSUME Assumption PROVE Spec => []MemoryInv
BY MemoryInit, MemoryStep, PTL DEF Spec

\* No search answers from vectors the file no longer holds, whoever wrote it, and
\* after an ingest ran through, or a backfill has, the backends agree.
THEOREM MemoriesAgree == ASSUME Assumption PROVE Spec => [](SearchIsCurrent /\ BackendsAgree)
BY MemoryInvariant, MemoryInvTells, PTL
=============================================================================
