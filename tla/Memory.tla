------------------------------- MODULE Memory -------------------------------
(***************************************************************************)
(* The memory of a pipeline: a composite ingestor feeds the vector store,  *)
(* whose searches answer from a snapshot, and the text index; a backfill   *)
(* copies the first into the second beside it.  A second process may write *)
(* its own records to the vector store's file.  One call of a store is one *)
(* transaction, and calls of one store exclude each other (SqliteRunner).  *)
(***************************************************************************)
EXTENDS Integers, Sequences, SequencesExt, FiniteSets, FiniteSetsExt

CONSTANTS
  RecordIds, Foreign,  \* ids, numbered in their order; those another process writes
  Dims, DimOf,         \* dimensions searched for, [RecordIds -> Dims]
  Texts,               \* a text as [title : BOOLEAN, passages : Nat]
  BatchSize,
  MaxIngests, MaxFaults, MaxCloses

Assumption ==
  /\ RecordIds \subseteq Nat \ {0} /\ DimOf \in [RecordIds -> Dims] /\ Foreign \subseteq RecordIds
  /\ Texts \subseteq [title : BOOLEAN, passages : Nat]
  /\ BatchSize \in Nat \ {0} /\ {MaxIngests, MaxFaults, MaxCloses} \subseteq Nat

VARIABLES
  chunks,    \* rows of the vector store: [id, index, of]
  snapshot,  \* the decoded vectors kept between searches, or {}
  version,   \* data_version of the open connection: foreign commits it has seen
  documents, \* the text index: {[id, of, full]}
  text,      \* text[r]: what the ingest of r under way, or the last one, was given
  vectors, index,   \* the two branches of an ingest: idle, embedding, writing, done, fault or failed
  phase,     \* of the backfill: idle, reading, building, indexing, last or done
  existing, after, batch, pending,   \* its local variables; batch: texts by id
  ingests, faults, closes,
  \* history
  answered,  \* every search answered what the store then held
  intact,    \* records whose last ingest ran through
  touched, late,   \* records and documents written since the backfill began
  overrun    \* records the backfill has indexed although an ingest had, or had begun to

storeVars == <<chunks, snapshot, version, documents>>
ingestVars == <<text, vectors, index, ingests, intact>>
backfillVars == <<phase, existing, after, batch, pending>>
memoryVars == <<storeVars, ingestVars, backfillVars, faults, closes, answered, touched, late, overrun>>

-----------------------------------------------------------------------------
(* Algorithms                                                               *)

\* SlidingWindowChunker.chunk(): windows of a sequence of words.
Chunk(words, size, overlap) ==
  LET step == size - overlap
      last == Min({k \in 0..Len(words) : k * step + size >= Len(words)})
  IN IF words = <<>> THEN <<>>
     ELSE [k \in 1..(last + 1) |->
             SubSeq(words, (k - 1) * step + 1, Min({(k - 1) * step + size, Len(words)}))]

\* Mutant: one word less of the overlap is compared than is dropped.
JoinShort(words, passage, overlap) ==
  IF overlap > 0 /\ Len(words) >= overlap /\ Len(passage) >= overlap
     /\ SubSeq(passage, 1, overlap - 1) = SubSeq(words, Len(words) - overlap + 2, Len(words))
  THEN words \o SubSeq(passage, overlap + 1, Len(passage)) ELSE words \o passage

\* One passage after the words so far: a repeated overlap counts once.
Join(words, passage, overlap) ==
  IF overlap \in 1..(Len(passage) - 1) /\ Len(words) >= overlap
     /\ SubSeq(passage, 1, overlap) = SubSeq(words, Len(words) - overlap + 1, Len(words))
  THEN words \o SubSeq(passage, overlap + 1, Len(passage)) ELSE words \o passage

MergePassages(passages, overlap) ==
  FoldLeft(LAMBDA words, passage : Join(words, passage, overlap), <<>>, passages)

\* Mutant: equal scores at the cut-off are left out.
AboveCutoffStrictly(rows, score, k) ==
  IF k >= Cardinality(rows) THEN rows
  ELSE {r \in rows : Cardinality({q \in rows : score[q] >= score[r]}) <= k}

\* Rows that may be among the best k, equal scores at the cut-off included.
AboveCutoff(rows, score, k) ==
  IF k >= Cardinality(rows) THEN rows
  ELSE {r \in rows : Cardinality({q \in rows : score[q] > score[r]}) < k}

\* _select(): the best k of the rows with a usable score, equal ones in the
\* order of the rows.
Select(usable, score, k, minScore) ==
  LET Before(r, q) == score[r] > score[q] \/ (score[r] = score[q] /\ r < q)
      ranked == SetToSortSeq(AboveCutoff(usable, score, k), Before)
  IN SelectSeq(SubSeq(ranked, 1, Min({k, Len(ranked)})), LAMBDA r : score[r] >= minScore)

\* EmbeddingEdgeSource.neighbours(): the records whose best chunk is most like
\* one's own text, found among the best limit * factor chunks of others.
Neighbours(of, score, own, limit, factor) ==
  LET hits == ToSet(Select({r \in DOMAIN of : of[r] # own}, score, limit * factor, 0))
      best == [n \in {of[h] : h \in hits} |-> Max({score[h] : h \in {g \in hits : of[g] = n}})]
      ranked == SetToSortSeq(DOMAIN best, LAMBDA n, k : best[n] > best[k] \/ (best[n] = best[k] /\ n < k))
  IN [i \in 1..Min({limit, Len(ranked)}) |-> <<ranked[i], best[ranked[i]]>>]

\* The passages of a text merge back into its words (backfill_async.py:27).
MergesBack(words, size, overlap) == MergePassages(Chunk(words, size, overlap), overlap) = words

\* The cut-off loses nothing: what is selected is the head of all usable rows in
\* the order of their scores, then of the rows (store_sqlite_async.py:191).
SelectsBest(score, k, minScore) ==
  LET Before(r, q) == score[r] > score[q] \/ (score[r] = score[q] /\ r < q)
      all == SetToSortSeq(DOMAIN score, Before)
  IN Select(DOMAIN score, score, k, minScore) =
       SelectSeq(SubSeq(all, 1, Min({k, Len(all)})), LAMBDA r : score[r] >= minScore)

\* A pool of chunks gives records by their true best chunks: none that is left out
\* is nearer than one that is not, and fewer come than were asked for only if the
\* chunks of those that come fill the pool (search/edges.py:106-108).
NearestKept(of, score, own, limit, factor) ==
  LET out == Neighbours(of, score, own, limit, factor)
      others == ToSet(of) \ {own}
      Best(n) == Max({score[r] : r \in {q \in DOMAIN of : of[q] = n}})
      given == {out[i][1] : i \in DOMAIN out}
  IN /\ \A i \in DOMAIN out : out[i][2] = Best(out[i][1]) /\ out[i][1] \in others
     /\ \A n \in others \ given, i \in DOMAIN out : out[i][2] >= Best(n)
     /\ Len(out) < limit /\ given # others =>
          Cardinality({r \in DOMAIN of : of[r] \in given}) >= limit * factor

-----------------------------------------------------------------------------
(* The vector store                                                         *)

RowsOf(r) == {row \in chunks : row.id = r}
NewRows(r) == {[id |-> r, index |-> i, of |-> text[r]] : i \in 1..text[r].passages}
NoSnapshot == {}

\* r joins what is written once a backfill has begun.
During(written, r) == IF phase = "idle" THEN written ELSE written \union {r}

Init ==
  /\ chunks = {} /\ snapshot = NoSnapshot /\ version = 0 /\ documents = {}
  /\ text = [r \in RecordIds |-> [title |-> FALSE, passages |-> 0]]
  /\ vectors = [r \in RecordIds |-> "idle"] /\ index = [r \in RecordIds |-> "idle"]
  /\ phase = "idle" /\ existing = {} /\ after = 0 /\ batch = <<>> /\ pending = {}
  /\ ingests = 0 /\ faults = 0 /\ closes = 0
  /\ answered = TRUE /\ intact = RecordIds \ Foreign /\ touched = {} /\ late = {} /\ overrun = {}

\* A search for vectors of one dimension, from the snapshot unless it is stale.
Query(dim) ==
  LET rows == {row \in chunks : DimOf[row.id] = dim}
      isCurrent(s) == s.version = version /\ s.dim = dim
  IN /\ IF \E s \in snapshot : isCurrent(s) THEN UNCHANGED snapshot
        ELSE snapshot' = {[version |-> version, dim |-> dim, rows |-> rows]}
     /\ answered' = (answered /\ \A s \in snapshot' : s.rows = rows)
  /\ UNCHANGED <<chunks, version, documents, ingestVars, backfillVars, faults, closes, touched, late, overrun>>

\* Mutant: a new connection counts the changes it sees from the start, and the
\* snapshot of the one before is kept.
ReopenedKeeping == version' = 0 /\ UNCHANGED snapshot

Reopened == version' = 0 /\ snapshot' = NoSnapshot

\* aclose(), and the connection a later call opens.
Close ==
  /\ closes < MaxCloses /\ closes' = closes + 1 /\ Reopened
  /\ UNCHANGED <<chunks, documents, ingestVars, backfillVars, faults, answered, touched, late, overrun>>

\* Another process replaces or deletes a record of its own.
ForeignWrite(r) ==
  /\ ingests < MaxIngests /\ ingests' = ingests + 1
  /\ \E given \in Texts :
       chunks' = (chunks \ RowsOf(r)) \union
                 {[id |-> r, index |-> i, of |-> given] : i \in 1..given.passages}
  /\ version' = version + 1 /\ touched' = During(touched, r)
  /\ UNCHANGED <<snapshot, documents, text, vectors, index, intact, backfillVars, faults, closes,
                 answered, late, overrun>>
-----------------------------------------------------------------------------
(* AsyncCompositeIngestor: a chunk ingestor and an indexer side by side     *)

IsBlank(given) == ~given.title /\ given.passages = 0

Start(r, given) ==
  /\ vectors[r] = "idle" /\ index[r] = "idle" /\ ingests < MaxIngests
  /\ text' = [text EXCEPT ![r] = given] /\ ingests' = ingests + 1 /\ intact' = intact \ {r}
  /\ vectors' = [vectors EXCEPT ![r] = IF given.passages = 0 THEN "writing" ELSE "embedding"]
  /\ index' = [index EXCEPT ![r] = "writing"]
  /\ UNCHANGED <<storeVars, backfillVars, faults, closes, answered, touched, late, overrun>>

Embedded(r) ==
  /\ vectors[r] = "embedding" /\ vectors' = [vectors EXCEPT ![r] = "writing"]
  /\ UNCHANGED <<storeVars, text, index, ingests, intact, backfillVars, faults, closes,
                 answered, touched, late, overrun>>

\* Mutant: the rows the new ones do not replace stay.
LandChunksOver(r) ==
  /\ chunks' = {row \in chunks : row.id # r \/ row.index > text[r].passages} \union NewRows(r)
  /\ snapshot' = NoSnapshot /\ touched' = During(touched, r)

\* replace_record() of the vector store, which drops the snapshot first.
LandChunks(r) ==
  /\ chunks' = (chunks \ RowsOf(r)) \union NewRows(r)
  /\ snapshot' = NoSnapshot /\ touched' = During(touched, r)

\* replace_record(), or delete_record() for a blank one, of the text index.
LandDocument(r) ==
  /\ documents' = {d \in documents : d.id # r} \union
                  (IF IsBlank(text[r]) THEN {} ELSE {[id |-> r, of |-> text[r], full |-> TRUE]})
  /\ late' = During(late, r)

WriteChunks(r) ==
  /\ vectors[r] = "writing" /\ vectors' = [vectors EXCEPT ![r] = "done"] /\ LandChunks(r)
  /\ UNCHANGED <<version, documents, text, index, ingests, intact, backfillVars, faults, closes,
                 answered, late, overrun>>

WriteDocument(r) ==
  /\ index[r] = "writing" /\ index' = [index EXCEPT ![r] = "done"] /\ LandDocument(r)
  /\ UNCHANGED <<chunks, snapshot, version, text, vectors, ingests, intact, backfillVars, faults, closes,
                 answered, touched, overrun>>

\* An embedding or a transaction fails; a failed write has dropped the snapshot.
VectorsFail(r) ==
  /\ vectors[r] \in {"embedding", "writing"} /\ faults < MaxFaults /\ faults' = faults + 1
  /\ vectors' = [vectors EXCEPT ![r] = "fault"]
  /\ snapshot' = IF vectors[r] = "writing" THEN NoSnapshot ELSE snapshot
  /\ UNCHANGED <<chunks, version, documents, text, index, ingests, intact, backfillVars, closes,
                 answered, touched, late, overrun>>
IndexFails(r) ==
  /\ index[r] = "writing" /\ faults < MaxFaults /\ faults' = faults + 1
  /\ index' = [index EXCEPT ![r] = "fault"]
  /\ UNCHANGED <<storeVars, text, vectors, ingests, intact, backfillVars, closes,
                 answered, touched, late, overrun>>

\* gather(): the call returns, or raises, once both branches are through.
Gathered(r) ==
  /\ {vectors[r], index[r]} \subseteq {"done", "fault"}
  /\ intact' = IF {vectors[r], index[r]} = {"done"} THEN intact \union {r} ELSE intact
  /\ vectors' = [vectors EXCEPT ![r] = "idle"] /\ index' = [index EXCEPT ![r] = "idle"]
  /\ UNCHANGED <<storeVars, text, ingests, backfillVars, faults, closes, answered, touched, late, overrun>>

\* Both branches are cancelled; a transaction under way is finished first.
Cancel(r) ==
  /\ vectors[r] # "idle" /\ faults < MaxFaults /\ faults' = faults + 1
  /\ vectors' = [vectors EXCEPT ![r] = "idle"] /\ index' = [index EXCEPT ![r] = "idle"]
  /\ \/ vectors[r] = "writing" /\ LandChunks(r)
     \/ UNCHANGED <<chunks, snapshot, touched>>
  /\ \/ index[r] = "writing" /\ LandDocument(r)
     \/ UNCHANGED <<documents, late>>
  /\ UNCHANGED <<version, text, ingests, intact, backfillVars, closes, answered, overrun>>

-----------------------------------------------------------------------------
(* backfill_text_index()                                                    *)

StartBackfill ==
  /\ phase = "idle" /\ phase' = "reading" /\ existing' = {d.id : d \in documents}
  /\ UNCHANGED <<storeVars, ingestVars, after, batch, pending, faults, closes, answered, touched, late, overrun>>

\* iter_records(): the next ids after the last batch, each with its passages.
ReadBatch ==
  /\ phase = "reading"
  /\ LET next == {row.id : row \in {c \in chunks : c.id > after}}
         ids == {id \in next : Cardinality({other \in next : other < id}) < BatchSize}
     IN /\ batch' = [id \in ids |-> (CHOOSE row \in RowsOf(id) : row.index = 1).of]
        /\ after' = Max(ids \union {after})
        /\ phase' = IF ids # {} THEN "building" ELSE IF pending # {} THEN "last" ELSE "done"
  /\ UNCHANGED <<storeVars, ingestVars, existing, pending, faults, closes, answered, touched, late, overrun>>

\* Mutant: what the index has is forgotten.
AddedAlways(id) == pending \union {[id |-> id, of |-> batch[id], full |-> FALSE]}

\* stored_record_document(), for records the index did not have.
Added(id) ==
  IF id \in existing THEN pending
  ELSE pending \union {[id |-> id, of |-> batch[id], full |-> FALSE]}

Build ==
  /\ phase = "building"
  /\ LET id == Min(DOMAIN batch)
     IN /\ pending' = Added(id) /\ batch' = Restrict(batch, DOMAIN batch \ {id})
  /\ phase' = IF Cardinality(pending') >= BatchSize THEN "indexing"
              ELSE IF DOMAIN batch' = {} THEN "reading" ELSE "building"
  /\ UNCHANGED <<storeVars, ingestVars, existing, after, faults, closes, answered, touched, late, overrun>>

Busy == {r \in RecordIds : vectors[r] # "idle"}

IndexPending ==
  /\ phase \in {"indexing", "last"} /\ pending' = {}
  /\ LET ids == {d.id : d \in pending}
     IN /\ documents' = {d \in documents : d.id \notin ids} \union pending
          /\ overrun' = overrun \union (ids \intersect (late \union touched \union Busy))
  /\ phase' = IF phase = "last" THEN "done" ELSE IF DOMAIN batch = {} THEN "reading" ELSE "building"
  /\ UNCHANGED <<chunks, snapshot, version, ingestVars, existing, after, batch, faults, closes,
                 answered, touched, late>>

BackfillFails ==
  /\ phase \in {"reading", "indexing", "last"} /\ phase' = "failed"
  /\ faults < MaxFaults /\ faults' = faults + 1
  /\ UNCHANGED <<storeVars, ingestVars, existing, after, batch, pending, closes, answered, touched, late, overrun>>

Next ==
  \/ \E dim \in Dims : Query(dim)
  \/ Close \/ \E r \in Foreign : ForeignWrite(r)
  \/ \E r \in RecordIds \ Foreign :
       \/ \E given \in Texts : Start(r, given)
       \/ Embedded(r) \/ WriteChunks(r) \/ WriteDocument(r) \/ VectorsFail(r) \/ IndexFails(r)
       \/ Gathered(r) \/ Cancel(r)
  \/ StartBackfill \/ ReadBatch \/ Build \/ IndexPending \/ BackfillFails

Spec == Init /\ [][Next]_memoryVars

-----------------------------------------------------------------------------
(* Properties *)

\* The decoded vectors "are reloaded only after a write, from this store or any
\* other connection to the file" (store_sqlite_async.py:73): no search answers
\* from vectors the file no longer holds.
SearchIsCurrent == answered

\* After an ingest ran through, both backends hold its text and nothing of an
\* earlier one, whatever failed before, unless a backfill that ran
\* beside it overran it; and a finished backfill has left no record out that it could
\* read from the start (ingest_async.py, backfill_async.py).
BackendsAgree ==
  /\ \A r \in intact \ overrun :
       /\ RowsOf(r) = NewRows(r)
       /\ {d \in documents : d.id = r} =
            IF IsBlank(text[r]) THEN {} ELSE {[id |-> r, of |-> text[r], full |-> TRUE]}
  /\ phase = "done" =>
       \A row \in chunks : row.id \notin touched \union late => \E d \in documents : d.id = row.id

-----------------------------------------------------------------------------
(* Why they hold: the inductive invariant.                                  *)

DocumentsOf(r) == {d \in documents : d.id = r}
Indexed == {d.id : d \in documents}
Pending == {d.id : d \in pending}

\* What the text index holds of a record whose ingest wrote its document.
Whole(r) == IF IsBlank(text[r]) THEN {} ELSE {[id |-> r, of |-> text[r], full |-> TRUE]}

Typed ==
  /\ IsFiniteSet(chunks) /\ \A row \in chunks : row.id \in RecordIds
  /\ \A d \in documents \union pending : d.id \in RecordIds
  /\ version \in Nat /\ after \in Nat /\ DOMAIN batch \subseteq RecordIds
  /\ text \in [RecordIds -> [title : BOOLEAN, passages : Nat]]
  /\ vectors \in [RecordIds -> {"idle", "embedding", "writing", "done", "fault"}]
  /\ index \in [RecordIds -> {"idle", "writing", "done", "fault"}]
  /\ phase \in {"idle", "reading", "building", "indexing", "last", "done", "failed"}

\* A snapshot holds the rows of its dimension, or a foreign commit was seen since.
SnapshotSound ==
  /\ answered
  /\ \A s, t \in snapshot : s = t
  /\ \A s \in snapshot :
       /\ s.version \in 0..version
       /\ s.version = version => s.rows = {row \in chunks : DimOf[row.id] = s.dim}

\* Both branches of an ingest are at work or none is; one that is done has its text
\* in its backend, unless a backfill went over it.
BranchesSound ==
  /\ intact \subseteq RecordIds \ Foreign
  /\ \A r \in RecordIds :
       /\ vectors[r] = "idle" <=> index[r] = "idle"
       /\ r \in intact => vectors[r] = "idle"
       /\ r \in Foreign => vectors[r] = "idle"
       /\ vectors[r] = "done" \/ r \in intact => RowsOf(r) = NewRows(r)
       /\ (index[r] = "done" \/ r \in intact) /\ r \notin overrun => DocumentsOf(r) = Whole(r)

\* A record the backfill found stored is indexed, or lies ahead of it, unless it
\* was written since; one it is to index had no document when it began.
Backfilled ==
  phase # "failed" =>
    /\ phase \in {"idle", "reading", "last", "done"} => DOMAIN batch = {}
    /\ phase = "building" => DOMAIN batch # {}
    /\ phase \in {"idle", "done"} => pending = {}
    /\ phase = "idle" => after = 0
    /\ DOMAIN batch \intersect Pending = {}
    /\ \A r \in DOMAIN batch \union Pending :
         r <= after /\ (r \notin touched => RowsOf(r) # {})
    /\ Pending \intersect existing = {}
    /\ phase # "idle" =>
         /\ existing \ late \subseteq Indexed
         /\ \A r \in (Indexed \ late) \ existing : r <= after /\ r \notin DOMAIN batch \union Pending
    /\ \A row \in chunks :
         \/ row.id \in touched \union late \union Indexed \union DOMAIN batch \union Pending
         \/ phase \notin {"last", "done"} /\ row.id > after

MemoryInv == Typed /\ SnapshotSound /\ BranchesSound /\ Backfilled
=============================================================================
