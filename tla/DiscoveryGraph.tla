--------------------------- MODULE DiscoveryGraph ---------------------------
(***************************************************************************)
(* build_discovery_graph: breadth-first from a seed, one batched call per  *)
(* edge source and level, all sources at once, then the mutual check, the  *)
(* edges, the records connected to the seed, and label propagation over    *)
(* them.  The corpus is written to while the build waits, so the lists of  *)
(* two levels need not agree with each other.  A weight is a number, 0     *)
(* where two records are not related; records are numbers, whose order is  *)
(* their ids'.                                                             *)
(***************************************************************************)
EXTENDS Integers, Sequences, FiniteSets, SequencesExt, FiniteSetsExt, Functions

CONSTANTS
  RecordIds, Seed,
  Sources,          \* 1 .. n, in their order
  Weights,          \* the corpora, each [Sources -> [pairs {r, q} -> weight]]
  Depth, Fanout, MinWeight, MaxNodes, MutualOnly, MaxIterations,  \* GraphParams
  MaxCorpusWrites   \* bounds the changes of the corpus during the build

Assumption ==
  /\ RecordIds \subseteq Nat /\ Seed \in RecordIds
  /\ Depth \in Nat /\ Fanout \in Nat \ {0} /\ MaxNodes \in Nat \ {0}
  /\ MinWeight \in Nat \ {0} /\ MaxIterations \in Nat \ {0} /\ MutualOnly \in BOOLEAN

VARIABLES
  corpus,    \* the weights the sources answer from
  step,      \* "expand", "mutual", "done" or "failed"
  level,     \* breadth-first levels begun
  nodes,     \* record ids in the order found
  frontier,  \* the last level of them
  memo,      \* per source, record -> its cleaned neighbour list
  answers,   \* the gather under way: per source asked, its lists or "error"
  graph,     \* [kept, edges, labels, converged]
  asked,     \* history: <<source, record>> -> how often its list was fetched
  changes    \* changes of the corpus so far

graphVars == <<corpus, step, level, nodes, frontier, memo, answers, graph, asked, changes>>

Top(list, n) == SubSeq(list, 1, Min({n, Len(list)}))
Heavier(p, q) == p[2] > q[2] \/ (p[2] = q[2] /\ p[1] < q[1])

-----------------------------------------------------------------------------
(* Pure parts *)

\* What an edge source finds for a record, best first: the records with a tag,
\* or a passage, in common, weighted by how much.
Related(weights, r) ==
  LET related == {q \in RecordIds \ {r} : weights[{r, q}] > 0}
  IN SetToSortSeq({<<q, weights[{r, q}]>> : q \in related}, Heavier)

\* _cleaned(): the part of it the build uses.
Neighbours(weights, r) == Top(Related(weights, r), Fanout)

\* The neighbours a record expands to, over every source's list.
Expansion(lists, r) ==
  LET found == UNION {{pair \in ToSet(lists[s][r]) : pair[2] >= MinWeight} : s \in Sources}
      Best(q) == Max({pair[2] : pair \in {p \in found : p[1] = q}})
      best == SetToSortSeq({<<pair[1], Best(pair[1])>> : pair \in found}, Heavier)
  IN [i \in DOMAIN best |-> best[i][1]]

Lists(lists, s, r) == IF r \in DOMAIN lists[s] THEN ToSet(lists[s][r]) ELSE {}

\* Mutant: one record being near the other is enough.
SelectEdgesOneWay(lists, members) ==
  UNION {{[pair |-> {r, p[1]}, kind |-> s, weight |-> p[2]] :
            p \in {q \in Lists(lists, s, r) : q[1] \in members /\ q[1] # r /\ q[2] >= MinWeight}} :
           s \in Sources, r \in members}

\* Undirected edges between members, the heaviest of one pair and kind.
SelectEdges(lists, members) ==
  LET IsMutual(s, r, q) == ~MutualOnly \/ \E pair \in Lists(lists, s, q) : pair[1] = r
      found == UNION {{[pair |-> {r, p[1]}, kind |-> s, weight |-> p[2]] :
                         p \in {q \in Lists(lists, s, r) :
                                 /\ q[1] \in members /\ q[1] # r /\ q[2] >= MinWeight
                                 /\ IsMutual(s, r, q[1])}} :
                        s \in Sources, r \in members}
  IN {e \in found : \A f \in found : f.pair = e.pair /\ f.kind = e.kind => f.weight <= e.weight}

Connected(edges) ==
  LET Reach[n \in 0..Cardinality(RecordIds)] ==
        IF n = 0 THEN {Seed}
        ELSE Reach[n - 1] \union UNION {e.pair : e \in {f \in edges : f.pair \intersect Reach[n - 1] # {}}}
  IN Reach[Cardinality(RecordIds)]

Degree(edges, r) == Cardinality(UNION {e.pair : e \in {f \in edges : r \in f.pair}} \ {r})

\* The heaviest edge of a pair, and the weight a label has around a record.
Adjacent(edges, r, q) == Max({e.weight : e \in {f \in edges : f.pair = {r, q}}} \union {0})
Total(edges, label, r, l) ==
  FoldSet(LAMBDA q, sum : sum + Adjacent(edges, r, q), 0, {q \in DOMAIN label \ {r} : label[q] = l})

\* Mutant: a record only ever moves to an earlier community.
RelabelEarlier(edges, label) ==
  LET Visit(current, r) ==
        LET heaviest == Max({Total(edges, current, r, l) : l \in Range(current)})
            best == Min({l \in Range(current) : Total(edges, current, r, l) = heaviest})
        IN IF best < current[r] THEN [current EXCEPT ![r] = best] ELSE current
  IN FoldLeft(Visit, label, SetToSortSeq(DOMAIN label, <))

\* One pass, in place and in order of the ids; it is the last if it changes none.
Relabel(edges, label) ==
  LET Visit(current, r) ==
        LET heaviest == Max({Total(edges, current, r, l) : l \in Range(current)})
        IN IF heaviest > Total(edges, current, r, current[r])
           THEN [current EXCEPT ![r] = Min({l \in Range(current) : Total(edges, current, r, l) = heaviest})]
           ELSE current
  IN FoldLeft(Visit, label, SetToSortSeq(DOMAIN label, <))

\* Labels start as the records' indexes and end numbered by smallest member.
LabelCommunities(members, edges) ==
  LET Pass[n \in 0..MaxIterations] ==
        IF n = 0 THEN [r \in members |-> Cardinality({q \in members : q < r})]
        ELSE Relabel(edges, Pass[n - 1])
      last == Pass[MaxIterations]
      First(l) == Min({r \in members : last[r] = l})
  IN [converged |-> \E n \in 1..MaxIterations : Pass[n] = Pass[n - 1],
      labels |-> [r \in members |-> Cardinality({l \in Range(last) : First(l) < First(last[r])})]]

\* filter_graph: communities stay, edges and degrees follow the nodes kept.
FilterGraph(whole, matched) ==
  LET kept == {r \in whole.kept : r = Seed \/ r \in matched}
  IN [whole EXCEPT !.kept = kept, !.edges = {e \in @ : e.pair \subseteq kept}]

-----------------------------------------------------------------------------
(* The build *)

Init ==
  /\ corpus \in Weights
  /\ step = "expand" /\ level = 0 /\ nodes = <<Seed>> /\ frontier = <<Seed>>
  /\ memo = [s \in Sources |-> <<>>] /\ answers = <<>>
  /\ graph = <<>> /\ asked = <<>> /\ changes = 0

\* The records whose lists _fetch asks a source for.
Wanted(s) == (IF step = "expand" THEN ToSet(frontier) ELSE ToSet(nodes)) \ DOMAIN memo[s]

\* _fetch is due: another level, or the lists the mutual check lacks.
Fetches ==
  \/ step = "expand" /\ level < Depth /\ frontier # <<>> /\ Len(nodes) < MaxNodes
  \/ step = "mutual"
Asked == {s \in Sources : Wanted(s) # {}}

Answer(s) ==
  /\ Fetches /\ s \in Asked \ DOMAIN answers
  /\ \/ answers' = [t \in DOMAIN answers \union {s} |->
                     IF t = s THEN [r \in Wanted(s) |-> Neighbours(corpus[s], r)] ELSE answers[t]]
     \/ answers' = [t \in DOMAIN answers \union {s} |-> IF t = s THEN <<>> ELSE answers[t]]
  /\ asked' = LET batch == {<<s, r>> : r \in Wanted(s)}
              IN [x \in DOMAIN asked \union batch |->
                   (IF x \in DOMAIN asked THEN asked[x] ELSE 0) + (IF x \in batch THEN 1 ELSE 0)]
  /\ UNCHANGED <<corpus, step, level, nodes, frontier, memo, graph, changes>>

Remembered == [s \in Sources |-> IF s \in DOMAIN answers THEN answers[s] @@ memo[s] ELSE memo[s]]

\* A source that failed: the error is raised once every source has answered.
SourceFails ==
  /\ Fetches /\ DOMAIN answers = Asked /\ \E s \in Asked : DOMAIN answers[s] = {}
  /\ step' = "failed"
  /\ UNCHANGED <<corpus, level, nodes, frontier, memo, answers, graph, asked, changes>>

Expand ==
  LET Add(found, q) ==
        IF q \in ToSet(found) \/ Len(found) >= MaxNodes THEN found ELSE Append(found, q)
      AddAll(found, r) == FoldLeft(Add, found, Expansion(Remembered, r))
      grown == FoldLeft(AddAll, nodes, frontier)
  IN /\ Fetches /\ step = "expand"
     /\ DOMAIN answers = Asked /\ \A s \in Asked : DOMAIN answers[s] # {}
     /\ memo' = Remembered /\ answers' = <<>>
     /\ nodes' = grown /\ frontier' = SubSeq(grown, Len(nodes) + 1, Len(grown))
     /\ level' = level + 1
     /\ UNCHANGED <<corpus, step, graph, asked, changes>>

Finished(lists) ==
  LET candidates == SelectEdges(lists, ToSet(nodes))
      connected == Connected(candidates)
      edges == {e \in candidates : e.pair \subseteq connected}
      kept == ToSet(nodes) \intersect connected
  IN [kept |-> kept, edges |-> edges, communities |-> LabelCommunities(kept, edges)]

ExpandEnds ==
  /\ step = "expand" /\ ~Fetches
  /\ IF MutualOnly THEN step' = "mutual" /\ UNCHANGED graph
     ELSE step' = "done" /\ graph' = Finished(memo)
  /\ UNCHANGED <<corpus, level, nodes, frontier, memo, answers, asked, changes>>

MutualEnds ==
  /\ step = "mutual" /\ DOMAIN answers = Asked /\ \A s \in Asked : DOMAIN answers[s] # {}
  /\ memo' = Remembered /\ answers' = <<>>
  /\ graph' = Finished(Remembered) /\ step' = "done"
  /\ UNCHANGED <<corpus, level, nodes, frontier, asked, changes>>

\* The corpus changes between two answers.
CorpusWrites ==
  /\ step \in {"expand", "mutual"} /\ changes < MaxCorpusWrites
  /\ corpus' \in Weights \ {corpus} /\ changes' = changes + 1
  /\ UNCHANGED <<step, level, nodes, frontier, memo, answers, graph, asked>>

Next ==
  \/ \E s \in Sources : Answer(s)
  \/ SourceFails \/ Expand \/ ExpandEnds \/ MutualEnds \/ CorpusWrites

Spec == Init /\ [][Next]_graphVars

-----------------------------------------------------------------------------
(* Properties *)

\* Even over a corpus that changes beneath the build: a record's lists are
\* fetched at most once, every record kept is tied to the seed by the kept
\* edges, never more than MaxNodes of them, and with mutual_only no record has
\* more neighbours than its own lists are long (graph.py
\* build_discovery_graph, GraphParams).
GraphHangsTogether ==
  /\ \A x \in DOMAIN asked : asked[x] <= 1
  /\ step = "done" =>
       /\ Seed \in graph.kept /\ Cardinality(graph.kept) <= MaxNodes
       /\ \A e \in graph.edges : e.pair \subseteq graph.kept
       /\ \A part \in SUBSET graph.kept :
            Seed \in part /\ part # graph.kept =>
              \E e \in graph.edges : e.pair \intersect part # {} /\ ~(e.pair \subseteq part)
       /\ MutualOnly => \A r \in graph.kept : Degree(graph.edges, r) <= Fanout * Cardinality(Sources)
       /\ \A matched \in SUBSET graph.kept : LET shown == FilterGraph(graph, matched)
            IN \A e \in shown.edges : e.pair \subseteq shown.kept

\* Communities are numbered from 0 by smallest member, and when they have
\* converged no record has more weight towards another community than towards
\* its own (graph.py label_communities).
CommunitiesAreStable ==
  step = "done" =>
    LET label == graph.communities.labels
        members == graph.kept
    IN /\ Range(label) = 0..(Cardinality(Range(label)) - 1)
       /\ \A r \in members : label[r] = 0 \/ \E q \in members : q < r /\ label[q] = label[r] - 1
       /\ graph.communities.converged =>
            \A r \in members, l \in Range(label) :
              Total(graph.edges, label, r, l) <= Total(graph.edges, label, r, label[r])
=============================================================================
