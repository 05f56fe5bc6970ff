----------------------------- MODULE TextIndex ------------------------------
(***************************************************************************)
(* The text index on SQLite (AsyncSqliteFts5Store): a file of documents,   *)
(* the FTS5 rows its triggers keep, the tags derived from each document's  *)
(* metadata under the writing store's facet keys, and the facet keys the   *)
(* file records as built.  Every operation is one transaction, so a step.  *)
(* The reference for every answer is the in-memory store, which reads the  *)
(* metadata itself.                                                        *)
(*                                                                         *)
(* A document's text is the score it has for the one query asked, 0 when   *)
(* it does not match, and its metadata a set of <<key, value>> tags; a     *)
(* range filter is a filter on the values its range holds.                 *)
(***************************************************************************)
EXTENDS Orders, SequencesExt

CONSTANTS
  Stores,         \* the store instances that open the file
  KeysOf,         \* [Stores -> SUBSET Keys], their facet keys
  RecordIds,      \* record ids, numbers for their order as text
  Keys, Values,   \* of metadata
  Contents,       \* the documents' [score, metadata]
  MaxDocId,       \* bounds the row ids
  KeysOnlyGrow,   \* a store is opened only once its keys include all before it
  NoKeys          \* the file has recorded no facet keys

Assumption ==
  /\ KeysOf \in [Stores -> SUBSET Keys] /\ \A keys \in SUBSET Keys : keys # NoKeys
  /\ RecordIds \subseteq Nat /\ IsFiniteSet(RecordIds)
  /\ Contents \subseteq [score : Nat, metadata : SUBSET (Keys \X Values)]
  /\ KeysOnlyGrow \in BOOLEAN /\ MaxDocId \in Nat

VARIABLES
  documents,   \* record id -> [doc_id, score, metadata], for the records held
  fts,         \* doc_id -> score, for the rows of the FTS5 index
  tags,        \* rows <<doc_id, key, value>> of document_tags
  facetKeys,   \* the facet keys recorded in the file, or NoKeys
  opened       \* the store whose connection is open

indexVars == <<documents, fts, tags, facetKeys, opened>>

Without(f, k) == Restrict(f, DOMAIN f \ {k})
With(f, k, v) == [x \in DOMAIN f \union {k} |-> IF x = k THEN v ELSE f[x]]

\* The tags of a document's metadata under some keys.
TagRows(metadata, keys) == {tag \in metadata : tag[1] \in keys}

Init ==
  /\ documents = <<>> /\ fts = <<>> /\ tags = {}
  /\ facetKeys = NoKeys /\ opened = {}

\* bootstrap(): a file without recorded keys and without documents adopts the
\* store's.
Bootstrapped(s) == IF facetKeys = NoKeys /\ DOMAIN documents = {} THEN KeysOf[s] ELSE facetKeys

\* The connection another store had is closed first.
Open(s) ==
  /\ s \notin opened
  /\ KeysOnlyGrow => \A t \in opened : KeysOf[t] \subseteq KeysOf[s]
  /\ opened' = {s}
  /\ facetKeys' = Bootstrapped(s)
  /\ UNCHANGED <<documents, fts, tags>>

\* Mutant: the tags of the document's last version stay.
WriteKeepingTags(s, r, content) ==
  LET docId == IF r \in DOMAIN documents THEN documents[r].doc_id
               ELSE Max(DOMAIN fts \union {0}) + 1
  IN /\ s \in opened /\ docId <= MaxDocId
     /\ documents' = With(documents, r, [doc_id |-> docId, score |-> content.score,
                                         metadata |-> content.metadata])
     /\ fts' = With(fts, docId, content.score)
     /\ tags' = tags \union {<<docId, tag[1], tag[2]>> : tag \in TagRows(content.metadata, KeysOf[s])}
     /\ UNCHANGED <<facetKeys, opened>>

\* index(): the upsert keeps the row's doc_id, or takes the one after the
\* largest; the triggers rewrite its FTS5 row, and its tags are replaced.
Write(s, r, content) ==
  LET docId == IF r \in DOMAIN documents THEN documents[r].doc_id
               ELSE Max(DOMAIN fts \union {0}) + 1
  IN /\ s \in opened /\ docId <= MaxDocId
     /\ documents' = With(documents, r, [doc_id |-> docId, score |-> content.score,
                                         metadata |-> content.metadata])
     /\ fts' = With(fts, docId, content.score)
     /\ tags' = {row \in tags : row[1] # docId} \union
                {<<docId, tag[1], tag[2]>> : tag \in TagRows(content.metadata, KeysOf[s])}
     /\ UNCHANGED <<facetKeys, opened>>

\* delete_record(): the FTS5 row goes by trigger, the tags by cascade.
Delete(s, r) ==
  /\ s \in opened
  /\ LET docIds == {documents[q].doc_id : q \in DOMAIN documents \intersect {r}}
     IN /\ documents' = Without(documents, r)
        /\ fts' = Restrict(fts, DOMAIN fts \ docIds)
        /\ tags' = {row \in tags : row[1] \notin docIds}
  /\ UNCHANGED <<facetKeys, opened>>

RebuildTags(s) ==
  /\ s \in opened
  /\ tags' = UNION {{<<documents[r].doc_id, tag[1], tag[2]>> :
                       tag \in TagRows(documents[r].metadata, KeysOf[s])} : r \in DOMAIN documents}
  /\ facetKeys' = KeysOf[s]
  /\ UNCHANGED <<documents, fts, opened>>

Next ==
  \E s \in Stores :
    \/ Open(s) \/ RebuildTags(s)
    \/ \E r \in RecordIds : Delete(s, r) \/ \E content \in Contents : Write(s, r, content)

Spec == Init /\ [][Next]_indexVars

-----------------------------------------------------------------------------
(* What the open store answers.  A query is none, a match, or a negation,  *)
(* which cannot be ranked; a filter is [key, values, negated].             *)

Queries == {"none", "match", "negation"}
Filters == [key : Keys, values : SUBSET Values \ {{}}, negated : BOOLEAN]

\* One condition of the WHERE clause: a tag row exists, or none does.
Condition(docId, filter) ==
  (\E value \in filter.values : <<docId, filter.key, value>> \in tags) # filter.negated
Conditions(docId, filters) == \A filter \in filters : Condition(docId, filter)

\* FILTER_LEAF, or NOT of it.
Matched(docId, query) ==
  CASE query = "match" -> docId \in DOMAIN fts /\ fts[docId] > 0
    [] query = "negation" -> ~(docId \in DOMAIN fts /\ fts[docId] > 0)
    [] OTHER -> TRUE

\* _read: a filter or facet needs its key's tags built.
IsBuilt(keys) == facetKeys # NoKeys /\ keys \subseteq facetKeys
Answers(s, keys) == s \in opened /\ keys \subseteq KeysOf[s] /\ (keys # {} => IsBuilt(keys))

FilterIds(query, filters) ==
  {r \in DOMAIN documents : Matched(documents[r].doc_id, query)
                            /\ Conditions(documents[r].doc_id, filters)}

FilterCandidates(candidates, filters) ==
  {r \in candidates \intersect DOMAIN documents : Conditions(documents[r].doc_id, filters)}

Others(filters, key) == {filter \in filters : filter.key # key}

\* Counted on the matches joined to their tags, on the tags alone, or, for a
\* query that cannot be ranked, on the documents.
FacetCount(key, value, query, filters) ==
  LET held == {documents[r].doc_id : r \in DOMAIN documents}
      rows == CASE query = "match" -> {id \in DOMAIN fts : fts[id] > 0}
                [] query = "none" -> {row[1] : row \in tags}
                [] OTHER -> {id \in held : Matched(id, query)}
  IN Cardinality({id \in rows : <<id, key, value>> \in tags /\ Conditions(id, Others(filters, key))})

RangeCount(range, query, filters) ==
  Cardinality(FilterIds(query, Others(filters, range.key) \union {range}))

\* A rankable query is counted on its FTS5 rows; a cap stops the count.
CountMatches(query, filters, cap) ==
  LET rows == IF query = "match" THEN {id \in DOMAIN fts : fts[id] > 0 /\ Conditions(id, filters)}
              ELSE {documents[r].doc_id : r \in FilterIds(query, filters)}
  IN Min({Cardinality(rows), cap})

\* The record a row of the FTS5 index is of.
Name(docId) == CHOOSE r \in DOMAIN documents : documents[r].doc_id = docId

\* Mutant: a tie across the boundary is cut as FTS5 happened to order it.
RankedAsScored(scored, limit, filters) ==
  LET top == {scored[i] : i \in 1..Min({limit, Len(scored)})}
      ranked == BestFirst(top, fts, [id \in top |-> Name(id)])
  IN [i \in DOMAIN ranked |-> Name(ranked[i])]

\* _ranking: FTS5 gives one row more than the limit by score, ties in any
\* order; a tie across the boundary is read whole and cut by record id.
Ranked(scored, limit, filters) ==
  LET cut == Min({limit, Len(scored)})
      boundary == fts[scored[limit]]
      isTied == Len(scored) > limit /\ fts[scored[limit + 1]] = boundary
      tied == {id \in DOMAIN fts : fts[id] = boundary /\ Conditions(id, filters)}
      top == IF isTied THEN {scored[i] : i \in {j \in 1..cut : fts[scored[j]] > boundary}} \union tied
             ELSE {scored[i] : i \in 1..cut}
      ranked == BestFirst(top, fts, [id \in top |-> Name(id)])
  IN [i \in 1..Min({limit, Len(ranked)}) |-> Name(ranked[i])]

-----------------------------------------------------------------------------
(* The in-memory store over the same documents *)

MatchesFilters(metadata, filters) ==
  \A filter \in filters :
    (\E value \in filter.values : <<filter.key, value>> \in metadata) # filter.negated

Matching(query, filters) ==
  {r \in DOMAIN documents :
     /\ query = "match" => documents[r].score > 0
     /\ query = "negation" => documents[r].score = 0
     /\ MatchesFilters(documents[r].metadata, filters)}

FacetTally(key, value, query, filters) ==
  Cardinality({r \in Matching(query, Others(filters, key)) : <<key, value>> \in documents[r].metadata})

Search(limit, filters) ==
  LET found == Matching("match", filters)
  IN Top(BestFirst(found, [r \in found |-> documents[r].score], [r \in found |-> r]), limit)

-----------------------------------------------------------------------------
(* Properties *)

FilterSets == {{}} \union {{filter} : filter \in Filters}

\* A filter, a candidate check, a facet, a range and a count each either raise
\* because their key's tags are not built, or answer what the in-memory store
\* answers for the same documents, whichever store wrote them and whatever was
\* deleted, replaced and rebuilt since (store_sqlite_fts5.py _write, _read).
AnswersAreReference ==
  \A s \in opened, filters \in FilterSets, query \in Queries :
    LET keys == {filter.key : filter \in filters}
        expected == Matching(query, filters)
    IN Answers(s, keys) =>
         /\ FilterIds(query, filters) = expected
         /\ FilterCandidates(RecordIds, filters) = Matching("none", filters)
         /\ \A cap \in {1, 2} : CountMatches(query, filters, cap) = Min({Cardinality(expected), cap})
         /\ \A key \in Keys : Answers(s, keys \union {key}) =>
              /\ \A value \in Values : FacetCount(key, value, query, filters)
                                     = FacetTally(key, value, query, filters)
              /\ \A range \in {f \in Filters : f.key = key} :
                   RangeCount(range, query, filters)
                     = Cardinality(Matching(query, Others(filters, key) \union {range}))

\* A key whose tags the file records as built has a tag for every document that
\* needs one: "until then a filter or facet on a key whose tags are not built
\* raises" (store_sqlite_fts5.py:179).
BuiltTagsComplete ==
  facetKeys # NoKeys =>
    \A r \in DOMAIN documents : \A tag \in TagRows(documents[r].metadata, facetKeys) :
      <<documents[r].doc_id, tag[1], tag[2]>> \in tags

\* However FTS5 orders equal scores, a ranked search gives the best matches
\* that pass the filters, equal ones by record id (store_sqlite_fts5.py
\* _ranking).
RankIsReference ==
  \A s \in opened, filters \in FilterSets, limit \in 1..2 :
    Answers(s, {filter.key : filter \in filters}) =>
      LET rows == {id \in DOMAIN fts : fts[id] > 0 /\ Conditions(id, filters)}
          Scored == {q \in UNION {[1..n -> rows] : n \in {Min({Cardinality(rows), limit + 1})}} :
                      /\ \A i, j \in DOMAIN q : i < j => q[i] # q[j] /\ fts[q[i]] >= fts[q[j]]
                      /\ \A id \in rows \ Range(q) : \A i \in DOMAIN q : fts[q[i]] >= fts[id]}
      IN \A scored \in Scored : Ranked(scored, limit, filters) = Search(limit, filters)
=============================================================================
