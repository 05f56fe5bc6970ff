--------------------------- MODULE QueryLanguage ----------------------------
(***************************************************************************)
(* The Boolean query language of the text search: the grammar parse_query  *)
(* accepts, normalisation, the two compilations (an FTS5 MATCH expression  *)
(* for a ranked search, a SQL condition for a filter), the reference       *)
(* evaluation that the in-memory store uses, and what a query shows and    *)
(* embeds.  Text is a sequence of lexemes and a document a sequence of     *)
(* words per field; a word is a sequence of letters, so that a prefix term *)
(* has something to be a prefix of.                                        *)
(***************************************************************************)
EXTENDS Integers, Sequences, SequencesExt, FiniteSetsExt

CONSTANTS
  Fields,         \* the searchable fields, in their fixed order
  ColumnWidth,    \* how far apart the positions of two fields are packed
  MaxGroupDepth   \* how deeply parentheses may nest

ASSUME QueryAssumption ==
  /\ Fields \in Seq(STRING) /\ Fields # <<>>
  /\ ColumnWidth \in Nat \ {0} /\ MaxGroupDepth \in Nat

-----------------------------------------------------------------------------
(* The syntax tree.  Term and Phrase differ in their number of words only. *)

Leaf(words, fields, prefix) ==
  [kind |-> "leaf", words |-> words, fields |-> fields, prefix |-> prefix]
Near(operands, distance, fields) ==
  [kind |-> "near", operands |-> operands, distance |-> distance, fields |-> fields]
Group(kind, operands) == [kind |-> kind, operands |-> operands]
Not(operand) == [kind |-> "not", operand |-> operand]

IsNot(node) == node.kind = "not"
Negated(nodes) == [i \in DOMAIN nodes |-> nodes[i].operand]

\* The group's fields, put on each operand.
ScopedOperands(near) ==
  IF near.fields = {} THEN near.operands
  ELSE [i \in DOMAIN near.operands |->
         [near.operands[i] EXCEPT !.fields = near.fields]]

-----------------------------------------------------------------------------
(* Normalisation *)

Collapse(kind, operands) ==
  IF Len(operands) = 1 THEN operands[1] ELSE Group(kind, operands)

RECURSIVE Normalize(_)

FlattenGroups(kind, operands) ==
  FlattenSeq([i \in DOMAIN operands |->
    LET normalized == Normalize(operands[i])
    IN IF normalized.kind = kind THEN normalized.operands ELSE <<normalized>>])

MergeNegations(operands) ==
  LET negated == SelectSeq(operands, IsNot)
      IsKept(node) == ~IsNot(node)
      first == SelectInSeq(operands, IsNot)
      merged == Not(Collapse("or", FlattenGroups("or", Negated(negated))))
  IN IF Len(negated) < 2 THEN operands
     ELSE InsertAt(SelectSeq(operands, IsKept), first, merged)

Normalize(node) ==
  CASE node.kind = "not" ->
         LET operand == Normalize(node.operand)
         IN IF IsNot(operand) THEN operand.operand ELSE Not(operand)
    [] node.kind = "or" -> Collapse("or", FlattenGroups("or", node.operands))
    [] node.kind = "and" ->
         Collapse("and", MergeNegations(FlattenGroups("and", node.operands)))
    [] OTHER -> node

-----------------------------------------------------------------------------
(* Evaluation *)

SearchedFields(leaf) ==
  IF leaf.fields = {} THEN ToSet(Fields) ELSE leaf.fields

\* Where query occurs in tokens, counted from 0.
Starts(tokens, query, prefix) ==
  LET n == Len(query)
      Same(word, wanted, isLast) ==
        IF isLast /\ prefix THEN IsPrefix(wanted, word) ELSE word = wanted
  IN IF n = 0 THEN {}
     ELSE {start \in 0..(Len(tokens) - n) :
             \A k \in 1..n : Same(tokens[start + k], query[k], k = n)}

\* A set of <<field, start>>.
Occurrences(leaf, document) ==
  UNION {{<<field, start>> : start \in Starts(document[field], leaf.words, leaf.prefix)} :
           field \in SearchedFields(leaf)}

Packed(hits) ==
  {(SelectInSeq(Fields, LAMBDA f : f = hit[1]) - 1) * ColumnWidth + hit[2] : hit \in hits}
Unpacked(starts) ==
  {<<Fields[p \div ColumnWidth + 1], p % ColumnWidth>> : p \in starts}

\* Mutant: an operand's own length is left out of its distance.
CatchUpByStarts(positions, lengths, distance, walk, i) ==
  LET current == positions[i][walk.cursor[i]]
      earliest == walk.latest - distance
      later == {c \in walk.cursor[i]..Len(positions[i]) : positions[i][c] >= earliest}
  IN IF walk.exhausted \/ (current >= earliest /\ current <= walk.latest) THEN walk
     ELSE IF later = {} THEN [walk EXCEPT !.exhausted = TRUE]
     ELSE [walk EXCEPT !.matched = FALSE, !.cursor[i] = Min(later),
                       !.latest = Max({walk.latest, positions[i][Min(later)]})]

\* One operand of the pass over all of them: it catches up with the latest
\* start, and if it had to move, or is the latest itself, the pass is no match.
CatchUp(positions, lengths, distance, walk, i) ==
  LET current == positions[i][walk.cursor[i]]
      earliest == walk.latest - lengths[i] - distance
      later == {c \in walk.cursor[i]..Len(positions[i]) : positions[i][c] >= earliest}
  IN IF walk.exhausted \/ (current >= earliest /\ current <= walk.latest) THEN walk
     ELSE IF later = {} THEN [walk EXCEPT !.exhausted = TRUE]
     ELSE [walk EXCEPT !.matched = FALSE, !.cursor[i] = Min(later),
                       !.latest = Max({walk.latest, positions[i][Min(later)]})]

RECURSIVE Settle(_, _, _, _), WalkNear(_, _, _, _, _)

Settle(positions, lengths, distance, walk) ==
  LET pass == FoldLeft(LAMBDA w, i : CatchUp(positions, lengths, distance, w, i),
                       [walk EXCEPT !.matched = TRUE],
                       [i \in DOMAIN positions |-> i])
  IN IF pass.exhausted \/ pass.matched THEN pass
     ELSE Settle(positions, lengths, distance, pass)

\* Every operand's starts are walked together; the current ones are kept each
\* time they match, and the operand whose next start is smallest moves on.
WalkNear(positions, lengths, distance, cursor, kept) ==
  LET settled == Settle(positions, lengths, distance,
                   [cursor |-> cursor, latest |-> positions[1][cursor[1]],
                    matched |-> FALSE, exhausted |-> FALSE])
      at == settled.cursor
      keptNow == [i \in DOMAIN kept |-> kept[i] \union {positions[i][at[i]]}]
      Remaining == {i \in DOMAIN positions : at[i] < Len(positions[i])}
      advancing == CHOOSE i \in Remaining : \A j \in Remaining :
                     LET a == positions[i][at[i] + 1]
                         b == positions[j][at[j] + 1]
                     IN a < b \/ (a = b /\ i <= j)
  IN IF settled.exhausted THEN kept
     ELSE IF Remaining = {} THEN keptNow
     ELSE WalkNear(positions, lengths, distance, [at EXCEPT ![advancing] = @ + 1], keptNow)

\* The occurrences of each operand that count as part of a NEAR match.
TrimNear(found, lengths, distance) ==
  LET positions == [i \in DOMAIN found |-> SetToSortSeq(Packed(found[i]), <)]
      none == [i \in DOMAIN found |-> {}]
      kept == IF \E i \in DOMAIN found : found[i] = {} THEN none
              ELSE WalkNear(positions, lengths, distance, [i \in DOMAIN found |-> 1], none)
  IN [i \in DOMAIN kept |-> Unpacked(kept[i])]

\* An operand without a word is dropped, and one left alone keeps all it has.
NearHits(found, lengths, distance) ==
  LET kept == SetToSortSeq({i \in DOMAIN found : lengths[i] > 0}, <)
      trimmed == IF Len(kept) = 1 THEN <<found[kept[1]]>>
                 ELSE TrimNear([k \in DOMAIN kept |-> found[kept[k]]],
                               [k \in DOMAIN kept |-> lengths[kept[k]]], distance)
  IN [i \in DOMAIN found |->
       IF lengths[i] > 0 THEN trimmed[SelectInSeq(kept, LAMBDA k : k = i)] ELSE {}]

NearOccurrences(near, document) ==
  LET operands == ScopedOperands(near)
  IN NearHits([i \in DOMAIN operands |-> Occurrences(operands[i], document)],
              [i \in DOMAIN operands |-> Len(operands[i].words)], near.distance)

RECURSIVE Satisfies(_, _)
Satisfies(node, document) ==
  CASE node.kind = "not" -> ~Satisfies(node.operand, document)
    [] node.kind = "and" ->
         \A i \in DOMAIN node.operands : Satisfies(node.operands[i], document)
    [] node.kind = "or" ->
         \E i \in DOMAIN node.operands : Satisfies(node.operands[i], document)
    [] node.kind = "near" ->
         LET hits == NearOccurrences(node, document)
         IN \E i \in DOMAIN hits : hits[i] # {}
    [] OTHER -> Occurrences(node, document) # {}

-----------------------------------------------------------------------------
(* Compilation to FTS5.  A MATCH expression is a sequence of lexemes, its   *)
(* literals the leaves and NEAR groups themselves; <<>> stands for None.    *)

Op(name) == [kind |-> name]
Operators == {Op(name) : name \in {"AND", "OR", "NOT", "(", ")"}}

Parenthesized(expression) == <<Op("(")>> \o expression \o <<Op(")")>>

Joined(operator, expressions) ==
  FoldLeft(LAMBDA joined, e : joined \o <<Op(operator)>> \o e, Head(expressions), Tail(expressions))

Subtracts(node) ==
  node.kind = "and" /\ \E i \in DOMAIN node.operands : IsNot(node.operands[i])

RECURSIVE Compile(_)

\* Mutant: a subtraction inside another expression is not parenthesised.
CompileEachBare(operands) == [i \in DOMAIN operands |-> Compile(operands[i])]

\* A sequence of expressions; one that cannot be compiled spoils them all.
CompileEach(operands) ==
  [i \in DOMAIN operands |->
    LET expression == Compile(operands[i])
    IN IF Subtracts(operands[i]) /\ expression # <<>>
       THEN Parenthesized(expression) ELSE expression]

Spoiled(expressions) == \E i \in DOMAIN expressions : expressions[i] = <<>>

Compile(node) ==
  LET IsKept(operand) == ~IsNot(operand)
      each == CompileEach(node.operands)
      kept == CompileEach(SelectSeq(node.operands, IsKept))
      removed == CompileEach(Negated(SelectSeq(node.operands, IsNot)))
      included == IF Len(kept) = 1 THEN kept[1] ELSE Parenthesized(Joined("AND", kept))
  IN CASE node.kind \in {"leaf", "near"} -> <<node>>
       [] node.kind = "or" ->
            IF Spoiled(each) THEN <<>> ELSE Parenthesized(Joined("OR", each))
       [] node.kind = "and" ->
            IF Spoiled(kept) \/ Spoiled(removed) THEN <<>>
            ELSE IF removed = <<>> THEN included ELSE included \o <<Op("NOT")>> \o removed[1]
       [] OTHER -> <<>>

IsRankable(node) == Compile(Normalize(node)) # <<>>

\* A SQL condition is a Boolean tree whose leaves are MATCH expressions.
SqlLeaf(expression) == [kind |-> "match", expression |-> expression]

RECURSIVE FilterExpression(_)
FilterExpression(node) ==
  LET expression == Compile(node)
  IN CASE node.kind \in {"leaf", "near"} -> SqlLeaf(<<node>>)
       [] node.kind = "not" -> Not(FilterExpression(node.operand))
       [] expression # <<>> -> SqlLeaf(expression)
       [] OTHER -> Group(node.kind, [i \in DOMAIN node.operands |->
                                      FilterExpression(node.operands[i])])

-----------------------------------------------------------------------------
(* What a query shows, highlights and embeds *)

\* The leaves and NEAR groups in the order written, with their sign and depth.
RECURSIVE Described(_, _, _)

\* Mutant: a second negation does not undo the first.
DescribedOnce(node, negated, depth) ==
  CASE node.kind = "not" -> Described(node.operand, TRUE, depth)
    [] node.kind \in {"and", "or"} ->
         FlattenSeq([i \in DOMAIN node.operands |->
                      Described(node.operands[i], negated, depth + 1)])
    [] OTHER -> <<[shown |-> node, negated |-> negated, depth |-> Max({depth - 1, 0})]>>

Described(node, negated, depth) ==
  CASE node.kind = "not" -> Described(node.operand, ~negated, depth)
    [] node.kind \in {"and", "or"} ->
         FlattenSeq([i \in DOMAIN node.operands |->
                      Described(node.operands[i], negated, depth + 1)])
    [] OTHER -> <<[shown |-> node, negated |-> negated, depth |-> Max({depth - 1, 0})]>>

Describe(node) == Described(Normalize(node), FALSE, 0)

RECURSIVE PositiveLeaves(_, _)
PositiveLeaves(node, negated) ==
  CASE node.kind = "not" -> PositiveLeaves(node.operand, ~negated)
    [] node.kind \in {"and", "or"} ->
         UNION {PositiveLeaves(node.operands[i], negated) : i \in DOMAIN node.operands}
    [] negated -> {}
    [] node.kind = "near" -> ToSet(ScopedOperands(node))
    [] OTHER -> {node}

RECURSIVE Meaning(_)
Meaning(node) ==
  CASE node.kind \in {"and", "or", "near"} ->
         FlattenSeq([i \in DOMAIN node.operands |-> Meaning(node.operands[i])])
    [] node.kind = "leaf" /\ ~node.prefix -> node.words
    [] OTHER -> <<>>

SemanticText(node) == Meaning(Normalize(node))

-----------------------------------------------------------------------------
(* Parsing.  A lexeme is an operator, a parenthesis, or a leaf or NEAR      *)
(* group; a parse is a node and the index of the lexeme after it, or a      *)
(* fault with the index of the lexeme it is located at.                     *)

Parsed(node, next) == [node |-> node, next |-> next, fault |-> 0]
Fault(at) == [node |-> <<>>, next |-> 0, fault |-> at]

IsOperand(lexeme) == lexeme \notin Operators \union {Op("END")}
StartsOperand(lexeme) == IsOperand(lexeme) \/ lexeme.kind \in {"(", "NOT"}
Current(lexemes, at) == IF at <= Len(lexemes) THEN lexemes[at] ELSE Op("END")

RECURSIVE Disjunction(_, _, _, _), Conjunction(_, _, _, _)

\* Consecutive negations are counted, and only their parity matters.
RECURSIVE Negations(_, _)
Negations(lexemes, at) ==
  IF Current(lexemes, at).kind = "NOT" THEN 1 + Negations(lexemes, at + 1) ELSE 0

GroupAt(lexemes, opening, depth) ==
  LET inner == Disjunction(lexemes, opening + 1, depth, <<>>)
  IN CASE depth > MaxGroupDepth -> Fault(opening)
       [] inner.fault # 0 -> inner
       [] Current(lexemes, inner.next).kind # ")" -> Fault(opening)
       [] OTHER -> Parsed(inner.node, inner.next + 1)

Primary(lexemes, at, depth) ==
  LET lexeme == Current(lexemes, at)
  IN CASE IsOperand(lexeme) -> Parsed(lexeme, at + 1)
       [] lexeme.kind = "(" -> GroupAt(lexemes, at, depth + 1)
       [] lexeme.kind = "END" -> Fault(at - 1)
       [] OTHER -> Fault(at)

\* Mutant: any number of negations is one.
NegationOnce(lexemes, at, depth) ==
  LET negations == Negations(lexemes, at)
      operand == Primary(lexemes, at + negations, depth)
  IN IF operand.fault = 0 /\ negations > 0
     THEN Parsed(Not(operand.node), operand.next) ELSE operand

Negation(lexemes, at, depth) ==
  LET negations == Negations(lexemes, at)
      operand == Primary(lexemes, at + negations, depth)
  IN IF operand.fault = 0 /\ negations % 2 = 1
     THEN Parsed(Not(operand.node), operand.next) ELSE operand

Conjunction(lexemes, at, depth, operands) ==
  LET operand == Negation(lexemes, at, depth)
      all == Append(operands, operand.node)
      lexeme == Current(lexemes, operand.next)
  IN CASE operand.fault # 0 -> operand
       [] lexeme.kind = "AND" -> Conjunction(lexemes, operand.next + 1, depth, all)
       [] StartsOperand(lexeme) -> Conjunction(lexemes, operand.next, depth, all)
       [] OTHER -> Parsed(Group("and", all), operand.next)

Disjunction(lexemes, at, depth, operands) ==
  LET operand == Conjunction(lexemes, at, depth, <<>>)
      all == Append(operands, operand.node)
  IN CASE operand.fault # 0 -> operand
       [] Current(lexemes, operand.next).kind = "OR" ->
            Disjunction(lexemes, operand.next + 1, depth, all)
       [] OTHER -> Parsed(Group("or", all), operand.next)

ParseQuery(lexemes) ==
  LET whole == Disjunction(lexemes, 1, 0, <<>>)
  IN CASE lexemes = <<>> -> Fault(1)
       [] whole.fault # 0 -> whole
       [] Current(lexemes, whole.next).kind = ")" -> Fault(whole.next)
       [] OTHER -> [whole EXCEPT !.node = Normalize(@)]

\* The lexeme an error about the whole query is located at, or the end.
Locate(lexemes, Wanted(_)) ==
  Min({i \in DOMAIN lexemes : Wanted(lexemes[i])} \union {Len(lexemes) + 1})

LacksWholeWord(lexeme) ==
  IsOperand(lexeme) /\
    IF lexeme.kind = "near" THEN \A i \in DOMAIN lexeme.operands : lexeme.operands[i].prefix
    ELSE lexeme.prefix

ParseRankedQuery(lexemes) ==
  LET parsed == ParseQuery(lexemes)
  IN IF parsed.fault = 0 /\ ~IsRankable(parsed.node)
     THEN Fault(Locate(lexemes, LAMBDA lexeme : lexeme.kind = "NOT")) ELSE parsed

ParseSemanticQuery(lexemes) ==
  LET parsed == ParseRankedQuery(lexemes)
  IN IF parsed.fault = 0 /\ SemanticText(parsed.node) = <<>>
     THEN Fault(Locate(lexemes, LacksWholeWord)) ELSE parsed

\* What NEAR( ... ) reads as: one quoted phrase is taken apart, a single
\* operand is no group, and the scope goes on whichever is left.
NearLexeme(operands, quoted, distance, fields) ==
  LET parts == IF Len(operands) = 1 /\ quoted[1] /\ Len(operands[1].words) > 1
               THEN [i \in DOMAIN operands[1].words |-> Leaf(<<operands[1].words[i]>>, {}, FALSE)]
               ELSE operands
  IN IF Len(parts) = 1 THEN [parts[1] EXCEPT !.fields = fields]
     ELSE Near(parts, distance, fields)

-----------------------------------------------------------------------------
(* Snippets: a text of n tokens, the [start, stop) ranges to highlight in   *)
(* it, and a window of at most SnippetTokens tokens around the first.       *)

\* Mutant: a range inside the one before shortens it.
MergeShortening(ranges) ==
  FoldLeft(LAMBDA merged, r :
             IF merged # <<>> /\ r[1] < Last(merged)[2]
             THEN [merged EXCEPT ![Len(merged)] = <<@[1], r[2]>>]
             ELSE Append(merged, r),
           <<>>, ranges)

MergeOverlapping(ranges) ==
  FoldLeft(LAMBDA merged, r :
             IF merged # <<>> /\ r[1] < Last(merged)[2]
             THEN [merged EXCEPT ![Len(merged)] = <<@[1], Max({@[2], r[2]})>>]
             ELSE Append(merged, r),
           <<>>, ranges)

InOrder(r, s) == r[1] < s[1] \/ (r[1] = s[1] /\ r[2] <= s[2])

SnippetWindow(n, ranges, snippetTokens) ==
  LET spans == MergeOverlapping(SetToSortSeq(ranges, InOrder))
      first == IF spans = <<>> THEN 0 ELSE spans[1][1]
      start == Max({0, Min({first, n - snippetTokens})})
      stop == Min({n, start + snippetTokens})
      Cut(span) == <<Max({span[1], start}), Min({span[2], stop})>>
  IN [start |-> start, stop |-> stop,
      highlights |-> SelectSeq([i \in DOMAIN spans |-> Cut(spans[i])], LAMBDA c : c[1] < c[2])]

\* Marked text back into its plain text's length and spans.
SplitMarkers(raw) ==
  LET Close(s) == IF s.opened >= 0 /\ s.opened < s.plain
                  THEN Append(s.spans, <<s.opened, s.plain>>) ELSE s.spans
      Step(s, c) ==
        CASE c = "open" -> [s EXCEPT !.opened = IF @ < 0 THEN s.plain ELSE @]
          [] c = "close" -> [s EXCEPT !.spans = Close(s), !.opened = -1]
          [] OTHER -> [s EXCEPT !.plain = @ + 1]
      end == FoldLeft(Step, [plain |-> 0, spans |-> <<>>, opened |-> -1], raw)
  IN [plain |-> end.plain, spans |-> Close(end)]

-----------------------------------------------------------------------------
(* What a hit counts: per leaf of the query, the occurrences in the parts  *)
(* of it the document satisfies.                                           *)

RECURSIVE CountedHits(_, _)
CountedHits(node, document) ==
  LET hits == CASE node.kind = "near" -> NearOccurrences(node, document)
                [] node.kind = "leaf" -> <<Occurrences(node, document)>>
                [] OTHER -> <<>>
      Silenced(part, counts) ==
        IF counts THEN part.hits ELSE [i \in DOMAIN part.hits |-> {}]
      inner == CountedHits(node.operand, document)
      parts == [i \in DOMAIN node.operands |-> CountedHits(node.operands[i], document)]
      all == \A i \in DOMAIN parts : parts[i].matched
      any == \E i \in DOMAIN parts : parts[i].matched
  IN CASE node.kind = "not" -> [matched |-> ~inner.matched, hits |-> Silenced(inner, FALSE)]
       [] node.kind = "and" ->
            [matched |-> all,
             hits |-> FlattenSeq([i \in DOMAIN parts |-> Silenced(parts[i], all)])]
       [] node.kind = "or" ->
            [matched |-> any,
             hits |-> FlattenSeq([i \in DOMAIN parts |-> Silenced(parts[i], parts[i].matched)])]
       [] OTHER -> [matched |-> \E i \in DOMAIN hits : hits[i] # {}, hits |-> hits]

\* The field a snippet is cut from: the first with the most highlights.
BestField(hits) ==
  LET Count(field) == FoldLeft(LAMBDA n, h : n + Cardinality({x \in h : x[1] = field}), 0, hits)
      most == Max({Count(Fields[i]) : i \in DOMAIN Fields})
  IN Fields[Min({i \in DOMAIN Fields : Count(Fields[i]) = most})]
=============================================================================
