------------------------------ MODULE MCSearch ------------------------------
(***************************************************************************)
(* A small search subsystem for TLC, the inputs its pure algorithms are    *)
(* given, and what they must do with them.                                 *)
(***************************************************************************)
EXTENDS Search, QueryLanguage, TLC

CONSTANTS
  MaxLexemes,   \* lexemes in a query text
  MaxTokens,    \* tokens of a field
  MaxDistance,  \* the distance of a NEAR group
  narrow, wide  \* stores

FieldOrder == <<"title", "body">>

KeysOfStores == narrow :> {"k"} @@ wide :> {"k", "l"}
IndexedContents == {[score |-> 1, metadata |-> {<<"k", 1>>}],
                    [score |-> 1, metadata |-> {<<"k", 2>>, <<"l", 1>>}],
                    [score |-> 0, metadata |-> {<<"k", 1>>, <<"k", 2>>, <<"l", 1>>}]}

\* The vector memory holds a record the index does not, and one of many chunks.
Embedded == 1 :> <<2>> @@ 2 :> <<3, 1>> @@ 4 :> <<1>>

\* Similarity by text, and a tag the seed shares with every record.
Pairs == {p \in SUBSET (1..4) : Cardinality(p) = 2}
Similarities == {w \in [Pairs -> 0..2] : \A p \in Pairs :
                  IF 4 \in p THEN w[p] # 1 ELSE w[p] > 0 /\ (3 \notin p => w[p] = 1)}
Corpora == {<<w, [p \in Pairs |-> IF 1 \in p THEN 1 ELSE 0]>> : w \in Similarities}

-----------------------------------------------------------------------------
(* Inputs *)

a == Leaf(<<"a">>, {}, FALSE)
b == Leaf(<<"b">>, {}, FALSE)
ab == Leaf(<<"a", "b">>, {}, FALSE)
scoped == Leaf(<<"b">>, {"title"}, FALSE)

Lists(S) == {<<x>> : x \in S} \union {<<x, y>> : x \in S, y \in S}
Groups(S) == {Group(k, l) : k \in {"and", "or"}, l \in Lists(S)}
Literals == {a, scoped, Not(a), Not(scoped), Not(Not(a))}
Trees == LET inner == Literals \union Groups({a, Not(a), scoped, Not(scoped)})
             pairs == {NearLexeme(<<ab>>, <<TRUE>>, 0, {}), Not(NearLexeme(<<ab, a>>, <<TRUE, FALSE>>, 1, {"title"}))}
         IN Groups(inner) \union {Not(g) : g \in Groups(Literals)} \union Groups(pairs \union Literals)

Words(n) == UNION {[1..k -> {"a", "b"}] : k \in 0..n}
Documents == [title : Words(2), body : Words(1)]

Texts == UNION {[1..n -> {a, scoped, Leaf(<<"a">>, {}, TRUE)} \union Operators] :
                  n \in 0..MaxLexemes}

NearGroups == {Near(o, d, f) : o \in {<<a, b>>, <<b, ab>>, <<a, b, a>>},
                               d \in 0..MaxDistance, f \in {{}, {"title"}}}

Marked == UNION {[1..n -> {"open", "close", "x"}] : n \in 0..5}
Ranges(n) == {<<i, j>> : i \in 0..n, j \in 0..n} \intersect {r \in Nat \X Nat : r[1] < r[2]}

AllInputs == [kind \in {"text", "tree", "near", "snippet", "marked"} |->
  CASE kind = "text" -> Texts
    [] kind = "tree" -> Trees
    [] kind = "near" -> NearGroups \X [title : Words(MaxTokens), body : Words(2)]
    [] kind = "snippet" ->
         UNION {{n} \X {r \in SUBSET Ranges(n) : Cardinality(r) <= 3} \X (1..3) : n \in 1..4}
    [] kind = "marked" -> Marked]

-----------------------------------------------------------------------------
(* The published grammar: NOT binds tightest, then AND (written or not),   *)
(* then OR.  Trees(symbol, s) is every way to read all of s as the symbol. *)

Before(s, k) == SubSeq(s, 1, k - 1)
After(s, k) == SubSeq(s, k + 1, Len(s))

RECURSIVE GrammarTrees(_, _)
GrammarTrees(symbol, s) ==
  LET Split(kind, left, right, operator) ==
        UNION {{Group(kind, <<l, r>>) : l \in GrammarTrees(left, Before(s, k)),
                                        r \in GrammarTrees(right, After(s, k))} :
                 k \in {j \in DOMAIN s : s[j] = Op(operator)}}
      Adjacent == UNION {{Group("and", <<l, r>>) : l \in GrammarTrees("N", SubSeq(s, 1, k)),
                                                  r \in GrammarTrees("C", After(s, k))} :
                           k \in 1..(Len(s) - 1)}
  IN CASE s = <<>> -> {}
       [] symbol = "D" -> GrammarTrees("C", s) \union Split("or", "C", "D", "OR")
       [] symbol = "C" -> GrammarTrees("N", s) \union Adjacent \union Split("and", "N", "C", "AND")
       [] symbol = "N" -> GrammarTrees("P", s) \union
                          (IF s[1] = Op("NOT") THEN {Not(t) : t \in GrammarTrees("N", Tail(s))} ELSE {})
       [] Len(s) = 1 -> {s[1]} \ Operators
       [] s[1] = Op("(") /\ Last(s) = Op(")") -> GrammarTrees("D", Front(Tail(s)))
       [] OTHER -> {}

Nesting(s) ==
  LET Open(k) == Cardinality({i \in 1..k : s[i] = Op("(")}) - Cardinality({i \in 1..k : s[i] = Op(")")})
  IN Max({Open(k) : k \in 0..Len(s)})

SameMatches(one, other) ==
  \A document \in Documents : Satisfies(one, document) = Satisfies(other, document)

ReadsAsGrammar(text) ==
  LET trees == GrammarTrees("D", text)
      parsed == ParseQuery(text)
      IsLocated(parse) == parsed.fault = 0 /\ parse.fault # 0 => parse.fault \in DOMAIN text
  IN /\ (parsed.fault = 0) <=> (trees # {} /\ Nesting(text) <= MaxGroupDepth)
     /\ parsed.fault = 0 => \A tree \in trees : SameMatches(parsed.node, tree)
     /\ parsed.fault \in 0..(Len(text) + 1)
     /\ IsLocated(ParseRankedQuery(text)) /\ IsLocated(ParseSemanticQuery(text))

\* A text is refused exactly when the published grammar cannot read it or it
\* nests too deeply, and otherwise finds what the grammar's reading finds; a
\* query refused for what it means is refused at a lexeme that is there
\* (parser.py parse_query, parse_ranked_query, parse_semantic_query).
ParsesAsGrammar == [][part' = "text" => ReadsAsGrammar(input')]_vars

\* A MATCH expression under every precedence and associativity FTS5 could have.
RECURSIVE MatchReadings(_)
MatchReadings(e) ==
  LET Binary == {k \in DOMAIN e : e[k].kind \in {"AND", "OR", "NOT"}}
      Read(l, op, r) == CASE op = "AND" -> Group("and", <<l, r>>)
                          [] op = "OR" -> Group("or", <<l, r>>)
                          [] op = "NOT" -> Group("and", <<l, Not(r)>>)
  IN (IF Len(e) = 1 THEN ToSet(e) \ Operators ELSE {}) \union
     (IF Len(e) > 2 /\ e[1] = Op("(") /\ Last(e) = Op(")") THEN MatchReadings(Front(Tail(e))) ELSE {}) \union
     UNION {{Read(l, e[k].kind, r) : l \in MatchReadings(Before(e, k)), r \in MatchReadings(After(e, k))} :
              k \in Binary}

RECURSIVE SqlHolds(_, _)
SqlHolds(condition, document) ==
  CASE condition.kind = "match" ->
         \A r \in MatchReadings(condition.expression) : Satisfies(r, document)
    [] condition.kind = "not" -> ~SqlHolds(condition.operand, document)
    [] condition.kind = "and" ->
         \A i \in DOMAIN condition.operands : SqlHolds(condition.operands[i], document)
    [] condition.kind = "or" ->
         \E i \in DOMAIN condition.operands : SqlHolds(condition.operands[i], document)

CompilesAlike(query) ==
  LET node == Normalize(query)
  IN /\ Normalize(node) = node /\ SameMatches(node, query)
     /\ IsRankable(query) =>
          /\ MatchReadings(Compile(node)) # {}
          /\ \A reading \in MatchReadings(Compile(node)) : SameMatches(reading, node)
     /\ \A document \in Documents :
          SqlHolds(FilterExpression(node), document) <=> Satisfies(node, document)

\* Normalising keeps a query's matches and has nothing left to do; the MATCH
\* expression finds them however FTS5 binds its operators, and so does the
\* filter condition (query.py normalize, compile_fts5.py).
CompilationsAgree == [][part' = "tree" => CompilesAlike(input')]_vars

ShowsItsHits(query) ==
  LET node == Normalize(query)
      positive == PositiveLeaves(node, FALSE)
      wanted == UNION {IF chip.negated THEN {}
                       ELSE IF chip.shown.kind = "near" THEN ToSet(ScopedOperands(chip.shown))
                       ELSE {chip.shown} : chip \in ToSet(Describe(query))}
  IN /\ wanted = positive
     /\ ToSet(SemanticText(query)) \subseteq UNION {ToSet(leaf.words) : leaf \in positive}
     /\ \A document \in Documents :
          LET counted == CountedHits(node, document)
              shown == UNION ToSet(counted.hits)
          IN /\ counted.matched <=> Satisfies(node, document)
             /\ IsRankable(query) /\ counted.matched =>
                  \E hit \in shown : hit[1] = BestField(counted.hits)
             /\ shown \subseteq UNION {Occurrences(leaf, document) : leaf \in positive}

\* A hit of a ranked search always has something to highlight, only from
\* leaves the query's chips show as wanted, and what is embedded for it are
\* words of those (store_memory.py _counted_hits, query.py describe).
HitsAreShown == [][part' = "tree" => ShowsItsHits(input')]_vars

-----------------------------------------------------------------------------

WalksAsDeclared(near, document) ==
  LET operands == ScopedOperands(near)
      found == [i \in DOMAIN operands |-> Occurrences(operands[i], document)]
      Chosen(field) == {c \in [DOMAIN operands -> 0..MaxTokens] :
                         \A i \in DOMAIN operands : <<field, c[i]>> \in found[i]}
      IsNear(c) == \A i, last \in DOMAIN operands :
                     c[i] + Len(operands[i].words) + near.distance >= c[last]
      hits == NearOccurrences(near, document)
  IN /\ Satisfies(near, document) <=> \E f \in ToSet(Fields) : \E c \in Chosen(f) : IsNear(c)
     /\ \A i \in DOMAIN operands : \A hit \in hits[i] :
          \E c \in Chosen(hit[1]) : IsNear(c) /\ c[i] = hit[2]

\* The walk over NEAR positions finds a match exactly when some choice of one
\* occurrence per operand, all in one field, is near enough, and every
\* occurrence it keeps belongs to such a choice (evaluate.py trim_near).
NearIsDeclarative == [][part' = "near" => WalksAsDeclared(input'[1], input'[2])]_vars

\* A snippet is a window of the text that shows its first highlighted range,
\* highlights in it exactly the highlighted tokens, once each, and markers
\* read back as the spans they enclose, whatever order they come in
\* (snippets.py snippet_window, filters.py split_markers).
SnippetsKeepTheirRanges ==
  /\ part = "snippet" =>
       LET window == SnippetWindow(input[1], input[2], input[3])
           Tokens(ranges) == UNION {r[1]..(r[2] - 1) : r \in ranges}
           highlights == window.highlights
           wanted == Tokens(input[2]) \intersect 0..(input[1] - 1)
       IN /\ window.stop - window.start = Min({input[1], input[3]})
          /\ Tokens(ToSet(highlights)) = wanted \intersect window.start..(window.stop - 1)
          /\ wanted # {} => Min(wanted) \in window.start..(window.stop - 1)
          /\ \A i \in 1..(Len(highlights) - 1) : highlights[i][2] <= highlights[i + 1][1]
  /\ part = "marked" =>
       LET split == SplitMarkers(input)
           text == {j \in DOMAIN input : input[j] = "x"}
           Offset(j) == Cardinality({i \in text : i < j})
           inside == {Offset(j) : j \in {k \in text : \E i \in 1..k :
                        input[i] = "open" /\ \A m \in i..k : input[m] # "close"}}
       IN /\ split.plain = Cardinality(text)
          /\ UNION {s[1]..(s[2] - 1) : s \in ToSet(split.spans)} = inside
          /\ \A i \in 1..(Len(split.spans) - 1) : split.spans[i][2] <= split.spans[i + 1][1]
=============================================================================
