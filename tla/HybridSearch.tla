---------------------------- MODULE HybridSearch ----------------------------
(***************************************************************************)
(* One search by AsyncHybridSearcher: the lexical and the semantic leg run *)
(* at once, either may fail, the semantic candidates are narrowed to those *)
(* passing the filters, both rankings are fused, and the hits shown are    *)
(* completed from the text index.  Each await reads the index as it is     *)
(* then: the pipeline writes to it meanwhile.                              *)
(*                                                                         *)
(* A document is its [score, passes]: its score for the query (0 when it   *)
(* does not match), and whether it passes the filters.                     *)
(***************************************************************************)
EXTENDS Orders, SequencesExt, Functions

CONSTANTS
  RecordIds,      \* numbers, for their order as text
  Passages,       \* record -> the similarities of its chunks in the vector memory
  Scores,         \* of a document for the query
  Pool,           \* candidate_pool
  ChunkPool,      \* chunks asked of the vector memory
  TopK,
  K,              \* FusionParams.k
  Scale,          \* a common multiple of K + 1 .. K + Pool, so that scores are integers
  HasFinder,
  MaxIndexWrites  \* bounds the writes during a search

Assumption ==
  /\ RecordIds \subseteq Nat /\ IsFiniteSet(RecordIds) /\ Scores \subseteq Nat
  /\ DOMAIN Passages \subseteq Nat /\ IsFiniteSet(DOMAIN Passages)
  /\ \A r \in DOMAIN Passages : Passages[r] \in Seq(Int) \ {<<>>}
  /\ Pool \in Nat /\ TopK \in 1..Pool /\ ChunkPool \in Nat /\ Pool <= ChunkPool
  /\ K \in Nat \ {0} /\ Scale \in Nat \ {0}
  /\ \A rank \in 1..Pool : Scale % (K + rank) = 0
  /\ HasFinder \in BOOLEAN

VARIABLES
  index,      \* record -> [score, passes], for the documents held
  request,    \* [mode, filtered, meaning] of the search
  phase,      \* where search() is
  lexical,    \* the lexical leg: absent, pending, failed, or a ranking
  semantic,   \* the semantic leg; "broken" is any error but an EmbeddingError
  outcome,    \* [hits, degraded, skipped] or [raised]
  \* history
  passed,     \* records that passed the filters at some moment of the search
  written     \* records written or deleted since the search began

hybridVars == <<index, request, phase, lexical, semantic, outcome, passed, written>>

Passing == {r \in DOMAIN index : index[r].passes}

-----------------------------------------------------------------------------
(* Fusion *)

Ids(ranking) == ToSet(ranking)
RankIn(ranking, r) == SelectInSeq(ranking, LAMBDA q : q = r)

\* Mutant: ranks are counted from the end of the list.
ContributionFromEnd(ranking, r) ==
  IF r \notin Ids(ranking) THEN 0 ELSE Scale \div (K + Len(ranking) + 1 - RankIn(ranking, r))

Contribution(ranking, r) ==
  IF r \notin Ids(ranking) THEN 0 ELSE Scale \div (K + RankIn(ranking, r))

\* Records by a score, equal scores by record id.
ByScore(records, Score(_)) ==
  BestFirst(records, [r \in records |-> Score(r)], [r \in records |-> r])

\* reciprocal_rank_fusion of both legs; one that ranks nothing adds nothing.
Fused(one, other) ==
  ByScore(Ids(one) \union Ids(other), LAMBDA r : Contribution(one, r) + Contribution(other, r))

-----------------------------------------------------------------------------
(* The stores *)

\* rank(): the matches that pass the filters, by score, then record id.
Rank(filtered) ==
  LET matches == {r \in DOMAIN index : index[r].score > 0 /\ (filtered => index[r].passes)}
  IN Top(ByScore(matches, LAMBDA r : index[r].score), Pool)

\* find_best_chunks(): the records of the nearest chunks, each by its best one.
BestChunks ==
  LET chunks == UNION {{<<r, i>> : i \in DOMAIN Passages[r]} : r \in DOMAIN Passages}
      Nearer(p, q) == \/ Passages[p[1]][p[2]] > Passages[q[1]][q[2]]
                      \/ Passages[p[1]][p[2]] = Passages[q[1]][q[2]]
                         /\ (p[1] < q[1] \/ (p[1] = q[1] /\ p[2] < q[2]))
      near == {c \in chunks : Cardinality({d \in chunks : Nearer(d, c)}) < ChunkPool}
  IN Top(ByScore({c[1] : c \in near}, LAMBDA r : Max(Range(Passages[r]))), Pool)

-----------------------------------------------------------------------------

Leg(state) == [is |-> state, ids |-> <<>>]
Ranking(ids) == [is |-> "ranking", ids |-> ids]
IsRanking(leg) == leg.is = "ranking"

Init ==
  /\ index \in [RecordIds -> [score : Scores, passes : BOOLEAN]]
  /\ request = <<>> /\ phase = "idle" /\ outcome = <<>>
  /\ lexical = Leg("absent") /\ semantic = Leg("absent")
  /\ passed = {} /\ written = {}

\* search(): parsing, then both legs start.  meaning says that the query has
\* a whole word that is not negated.
Start(mode, filtered, meaning) ==
  LET embeds == mode # "lexical" /\ meaning /\ HasFinder
  IN /\ phase = "idle"
     /\ request' = [mode |-> mode, filtered |-> filtered, meaning |-> meaning]
     /\ IF mode = "semantic" /\ ~embeds
        THEN /\ phase' = "done" /\ outcome' = [raised |-> "SearchQueryError"]
             /\ UNCHANGED <<lexical, semantic>>
        ELSE /\ phase' = "legs" /\ UNCHANGED outcome
             /\ lexical' = IF mode = "semantic" THEN Leg("absent") ELSE Leg("pending")
             /\ semantic' = Leg(IF embeds THEN "pending" ELSE "absent")
     /\ passed' = Passing /\ UNCHANGED <<index, written>>

LexicalAnswers ==
  /\ phase = "legs" /\ lexical.is = "pending"
  /\ lexical' \in {Ranking(Rank(request.filtered)), Leg("failed")}
  /\ UNCHANGED <<index, request, phase, semantic, outcome, passed, written>>

SemanticAnswers ==
  /\ phase = "legs" /\ semantic.is = "pending"
  /\ semantic' \in {Ranking(BestChunks), Leg("failed"), Leg("broken")}
  /\ UNCHANGED <<index, request, phase, lexical, outcome, passed, written>>

Skipped == IF request.mode = "hybrid" /\ semantic.is = "absent" THEN {"semantic"} ELSE {}

\* gather() has every result: a lexical failure comes first, and an embedding
\* failure is absorbed only by a hybrid search.
Gathered ==
  /\ phase = "legs" /\ lexical.is # "pending" /\ semantic.is # "pending"
  /\ CASE lexical.is = "failed" ->
            /\ phase' = "done" /\ outcome' = [raised |-> "SearchStoreError"] /\ UNCHANGED semantic
       [] semantic.is = "broken" \/ (semantic.is = "failed" /\ request.mode = "semantic") ->
            /\ phase' = "done" /\ outcome' = [raised |-> "EmbeddingError"] /\ UNCHANGED semantic
       [] OTHER ->
            /\ phase' = IF IsRanking(semantic) /\ request.filtered THEN "filter" ELSE "fuse"
            /\ UNCHANGED <<semantic, outcome>>
  /\ UNCHANGED <<index, request, lexical, passed, written>>

\* The ids of a ranking that are among some, in its order.
Among(ranking, ids) == ByScore(Ids(ranking) \intersect ids, LAMBDA r : 0 - RankIn(ranking, r))

\* Mutant: only the candidates the filters are known to drop are dropped.
FilterStored ==
  /\ phase = "filter"
  /\ semantic' = Ranking(Among(semantic.ids, {r \in Ids(semantic.ids) : r \in DOMAIN index => index[r].passes}))
  /\ phase' = "fuse"
  /\ UNCHANGED <<index, request, lexical, outcome, passed, written>>

\* filter_candidates() on the semantic candidates alone.
Filter ==
  /\ phase = "filter"
  /\ semantic' = Ranking(Among(semantic.ids, Passing))
  /\ phase' = "fuse"
  /\ UNCHANGED <<index, request, lexical, outcome, passed, written>>

\* A read of the index that fails between the legs and the answer.
ReadFails ==
  /\ phase \in {"filter", "hydrate", "headers"}
  /\ phase' = "done" /\ outcome' = [raised |-> "SearchStoreError"]
  /\ UNCHANGED <<index, request, lexical, semantic, passed, written>>

\* The fused hits that will be shown, each with nothing but its ranks yet.
Fuse ==
  LET fused == Top(Fused(lexical.ids, semantic.ids), TopK)
  IN /\ phase = "fuse" /\ phase' = "hydrate"
     /\ outcome' = [hits |-> [i \in DOMAIN fused |->
                               [record |-> fused[i], lexical |-> RankIn(lexical.ids, fused[i]),
                                semantic |-> RankIn(semantic.ids, fused[i]), shows |-> "bare"]],
                    degraded |-> IF semantic.is = "failed" THEN {"semantic"} ELSE {},
                    skipped |-> Skipped]
     /\ UNCHANGED <<index, request, lexical, semantic, passed, written>>

\* hydrate(): a lexical hit that is gone, or no longer matches, stays bare.
Hydrate ==
  LET Completed(hit) ==
        IF hit.lexical > 0 /\ hit.record \in DOMAIN index /\ index[hit.record].score > 0
        THEN [hit EXCEPT !.shows = "snippet"] ELSE hit
  IN /\ phase = "hydrate" /\ phase' = "headers"
     /\ outcome' = [outcome EXCEPT !.hits = [i \in DOMAIN @ |-> Completed(@[i])]]
     /\ UNCHANGED <<index, request, lexical, semantic, passed, written>>

\* get_headers(): the title of a hit only the semantic leg found comes from
\* the index, or else from the passage itself.
Headers ==
  LET Titled(hit) ==
        IF hit.lexical > 0 THEN hit
        ELSE [hit EXCEPT !.shows = IF hit.record \in DOMAIN index THEN "header" ELSE "passage"]
  IN /\ phase = "headers" /\ phase' = "done"
     /\ outcome' = [outcome EXCEPT !.hits = [i \in DOMAIN @ |-> Titled(@[i])]]
     /\ UNCHANGED <<index, request, lexical, semantic, passed, written>>

\* The pipeline indexes or deletes a record during the search.
IndexWrites(r) ==
  /\ phase \in {"legs", "filter", "fuse", "hydrate", "headers"}
  /\ Cardinality(written) < MaxIndexWrites /\ r \notin written
  /\ \/ index' = Restrict(index, DOMAIN index \ {r})
     \/ \E score \in Scores, passes \in BOOLEAN :
          index' = [q \in DOMAIN index \union {r} |->
                     IF q = r THEN [score |-> score, passes |-> passes] ELSE index[q]]
  /\ written' = written \union {r}
  /\ passed' = passed \union {q \in DOMAIN index' : index'[q].passes}
  /\ UNCHANGED <<request, phase, lexical, semantic, outcome>>

Next ==
  \/ \E mode \in {"lexical", "semantic", "hybrid"}, filtered, meaning \in BOOLEAN :
       Start(mode, filtered, meaning)
  \/ LexicalAnswers \/ SemanticAnswers \/ Gathered \/ Filter \/ ReadFails
  \/ Fuse \/ Hydrate \/ Headers
  \/ \E r \in RecordIds : IndexWrites(r)

Spec == Init /\ [][Next]_hybridVars

-----------------------------------------------------------------------------
(* Properties *)

IsShown == phase = "done" /\ "hits" \in DOMAIN outcome
Shown == {outcome.hits[i] : i \in DOMAIN outcome.hits}

\* A filtered search shows no record that never passed the filters while it
\* ran, though its legs look at different moments, and no record twice
\* (hybrid_async.py search, "a filtered-out record never takes a slot").
FilteredNeverShown ==
  IsShown =>
    /\ request.filtered => \A hit \in Shown : hit.record \in passed
    /\ Cardinality(Shown) = Len(outcome.hits)

\* Where a record is among the hits shown, 0 when it is not.
Place(r) == SelectInSeq(outcome.hits, LAMBDA hit : hit.record = r)

\* No leg ranks q above p, and every leg that ranks q ranks p.
Dominates(p, q) ==
  /\ p # q
  /\ \A leg \in {lexical, semantic} : (IsRanking(leg) /\ q \in Ids(leg.ids)) =>
       p \in Ids(leg.ids) /\ RankIn(leg.ids, p) < RankIn(leg.ids, q)

\* A record never comes after one that no leg ranked above it, and a hit stays
\* without its text only if its record was written during the search: with an
\* index at rest the hits are those of one complete search (hybrid_async.py
\* _fuse, fusion.py).
BestInEveryLegFirst ==
  IsShown =>
    LET found == UNION {Ids(leg.ids) : leg \in {l \in {lexical, semantic} : IsRanking(l)}}
    IN /\ \A p, q \in found : Dominates(p, q) /\ Place(q) > 0 => Place(p) \in 1..(Place(q) - 1)
       /\ \A hit \in Shown : hit.shows = "bare" => hit.record \in written
       /\ (written = {} /\ request.mode = "lexical") =>
            [i \in DOMAIN outcome.hits |-> outcome.hits[i].record] = Top(Rank(request.filtered), TopK)
=============================================================================
