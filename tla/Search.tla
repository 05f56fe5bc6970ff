------------------------------- MODULE Search -------------------------------
(***************************************************************************)
(* The search subsystem, and the newest-first runs that find what is new.  *)
(* A behaviour is of one part: it gives one input to a pure algorithm and  *)
(* stops, or it is one of the text index, of one hybrid search, of one     *)
(* graph build, or of the runs over a listing.                             *)
(***************************************************************************)
EXTENDS Orders

CONSTANTS
  InputsOf,                                                  \* kind -> the inputs of an algorithm
  Stores, KeysOf, Keys, Values, Contents, MaxDocId, KeysOnlyGrow, NoKeys,         \* TextIndex
  Passages, Scores, Pool, ChunkPool, TopK, K, Scale, HasFinder, MaxIndexWrites,   \* HybridSearch
  RecordIds,                                                                      \* of both
  GraphRecords, Seed, Sources, Weights, Depth, Fanout, MinWeight, MaxNodes,
  MutualOnly, MaxIterations, MaxCorpusWrites,                                     \* DiscoveryGraph
  Entries, Unreadable, PageSize, PlainPageSize, HeadIdLimit, Totals, SubmitMidRun,
  MaxWithdrawals, MaxRuns                                                         \* NewestFirst

VARIABLES
  part, input,
  documents, fts, tags, facetKeys, opened,
  index, request, phase, lexical, semantic, outcome, passed, written,
  corpus, step, level, nodes, frontier, memo, answers, graph, asked, changes,
  knowsTotal, submitted, listing, withdrawn, processed, saved, runs, running, position, undisturbed, overtaken

Index == INSTANCE TextIndex
Hybrid == INSTANCE HybridSearch
Graph == INSTANCE DiscoveryGraph WITH RecordIds <- GraphRecords
Newest == INSTANCE NewestFirst

ASSUME IndexAssumption == Index!Assumption
ASSUME HybridAssumption == Hybrid!Assumption
ASSUME GraphAssumption == Graph!Assumption
ASSUME InputsAssumption == DOMAIN InputsOf \intersect {"none", "index", "hybrid", "graph", "newest"} = {}
ASSUME NewestAssumption == Newest!SizeAssumption /\ Newest!ChoiceAssumption

-----------------------------------------------------------------------------
indexVars == <<documents, fts, tags, facetKeys, opened>>
hybridVars == <<index, request, phase, lexical, semantic, outcome, passed, written>>
graphVars == <<corpus, step, level, nodes, frontier, memo, answers, graph, asked, changes>>
newestVars == <<knowsTotal, submitted, listing, withdrawn, processed, saved, runs, running, position, undisturbed, overtaken>>
vars == <<part, input, indexVars, hybridVars, graphVars, newestVars>>

HybridOff ==
  /\ index = <<>> /\ request = <<>> /\ phase = "idle" /\ outcome = <<>>
  /\ lexical = <<>> /\ semantic = <<>> /\ passed = {} /\ written = {}
GraphOff ==
  /\ corpus = <<>> /\ step = "expand" /\ level = 0 /\ nodes = <<>> /\ frontier = <<>>
  /\ memo = <<>> /\ answers = <<>> /\ graph = <<>> /\ asked = <<>> /\ changes = 0

Init ==
  /\ input = <<>> /\ Index!Init
  /\ Newest!Init
  /\ \/ part \in {"none", "index", "newest"} /\ HybridOff /\ GraphOff
     \/ part = "hybrid" /\ Hybrid!Init /\ GraphOff
     \/ part = "graph" /\ HybridOff /\ Graph!Init
  /\ part # "newest" => ~knowsTotal

Choose ==
  /\ part = "none" /\ part' \in DOMAIN InputsOf /\ input' \in InputsOf[part']
  /\ UNCHANGED <<indexVars, hybridVars, graphVars, newestVars>>

IndexNext == part = "index" /\ Index!Next /\ UNCHANGED <<part, input, hybridVars, graphVars, newestVars>>
HybridNext == part = "hybrid" /\ Hybrid!Next /\ UNCHANGED <<part, input, indexVars, graphVars, newestVars>>
GraphNext == part = "graph" /\ Graph!Next /\ UNCHANGED <<part, input, indexVars, hybridVars, newestVars>>
NewestNext == part = "newest" /\ Newest!Next /\ UNCHANGED <<part, input, indexVars, hybridVars, graphVars>>

Next == Choose \/ IndexNext \/ HybridNext \/ GraphNext \/ NewestNext

Spec == Init /\ [][Next]_vars

-----------------------------------------------------------------------------
\* Every answer of the text index is the in-memory store's, or raises because a
\* key's tags are not built; a ranked search gives the best matches, equal ones by
\* record id; and built tags are complete (store_sqlite_fts5.py _read, _ranking, _write).
AnswersAreReference ==
  part = "index" => Index!AnswersAreReference /\ Index!RankIsReference /\ Index!BuiltTagsComplete

\* A filtered hybrid search shows nothing that never passed (hybrid_async.py).
FilteredNeverShown == part = "hybrid" => Hybrid!FilteredNeverShown

\* The fused order respects every leg, and hits are complete (hybrid_async.py _fuse).
BestInEveryLegFirst == part = "hybrid" => Hybrid!BestInEveryLegFirst

\* A graph is tied to its seed within its bounds (graph.py build_discovery_graph).
GraphHangsTogether == part = "graph" => Graph!GraphHangsTogether

\* Communities are canonical, and stable once converged (graph.py label_communities).
CommunitiesAreStable == part = "graph" => Graph!CommunitiesAreStable

\* The gap a newest-first run jumps over is settled, unless submissions overtook
\* a head scan (_listing_head.py).
GapIsSettled == part = "newest" => Newest!GapIsSettled

\* A clean run leaves nothing behind it unsettled, down to the end of a listing
\* without a total, and every page takes a run on (_listing_position.py).
CleanRunsSettle ==
  Newest!PagedOutSettlesAll /\ Newest!CleanRunLeavesNoGap /\ Newest!EveryPageAdvances
=============================================================================
