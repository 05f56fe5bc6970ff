----------------------------- MODULE MCServices -----------------------------
(***************************************************************************)
(* Small services for TLC, and the texts and tables the pure parts are     *)
(* given.                                                                  *)
(***************************************************************************)
EXTENDS Services, Documents, FullTexts, Screening, TLC

CONSTANTS f, m, e,           \* a download, a model's and an embedder's call
          main, other,       \* threads
          c1, c2, c3         \* two relevance filters and an extractor

\* One slot for three requests of one host, one of them to a subdomain.
Kinds == f :> "fetch" @@ m :> "llm" @@ e :> "embed"
Hosts == f :> <<"export", "arxiv">> @@ m :> <<"arxiv">> @@ e :> <<"arxiv">>
OneSlot == <<"arxiv">> :> 1
Batches == f :> 1 @@ m :> 1 @@ e :> 2

\* A main thread without a deadline, in up to two guards, and another with one.
Deadlines == main :> FALSE @@ other :> TRUE
Nesting == main :> 2 @@ other :> 1

\* Three callers about one record.
Roles == c1 :> "filter" @@ c2 :> "filter" @@ c3 :> "extractor"
OneRecord == [c \in {c1, c2, c3} |-> 1]

\* Entries without an id, two versions of a paper, one PubMed no longer serves, and
\* one past the cap.
Entry(id, paper) == [id |-> id, paper |-> paper]
Results == <<Entry(1, 1), Entry(0, 2), Entry(3, 2), Entry(0, 3), Entry(5, 1), Entry(6, 4)>>
Saved(kind, offset) == [kind |-> kind, at |-> offset]
SavedCursors == {Saved("none", 0), Saved("decimal", 0), Saved("decimal", 2), Saved("decimal", 5),
                 Saved("opaque", 2)}
Waits == {0 - 1, 3}

Quotes == INSTANCE Claims WITH
  RecordIds <- {}, Keys <- {}, EntryOf <- <<>>, Answers <- {}, Limit <- 1,
  MaxWrites <- 0, MaxFaults <- 0, MaxCrashes <- 0,
  claims <- 0, changes <- 0, entries <- 0, resolved <- 0, drafts <- 0, saved <- 0,
  page <- 0, mirror <- 0, sweep <- 0, due <- 0, writes <- 0, crashes <- 0, exported <- 0, decided <- 0

Passages == INSTANCE Memory WITH
  RecordIds <- {}, Foreign <- {}, Dims <- {}, DimOf <- <<>>, Texts <- {}, BatchSize <- 1,
  MaxIngests <- 0, MaxFaults <- 0, MaxCloses <- 0,
  chunks <- 0, snapshot <- 0, version <- 0, text <- 0, vectors <- 0, index <- 0, phase <- 0,
  existing <- 0, after <- 0, pending <- 0, ingests <- 0, closes <- 0, answered <- 0,
  intact <- 0, touched <- 0, late <- 0, overrun <- 0

-----------------------------------------------------------------------------
(* Inputs of the transformations *)

Upto(n, S) == UNION {[1..k -> S] : k \in 0..n}
Pairs == {p \in (1..3) \X (1..3) : p[1] # p[2]}

\* Articles of up to three levels, with sections, headings, rows and what is
\* skipped wherever they may be.
Leaves == {Element(n, <<>>) : n \in {"sec", "p", "table", "label", "title", "td"}}
Branches == {Element(n, k) : n \in {"sec", "p", "table", "tr", "title", "label"}, k \in Upto(2, Leaves)}
Bodies == {Element("body", <<t, u>>) : t \in Branches, u \in Leaves} \union
          {Element("body", <<Element(n, <<t>>)>>) : n \in {"sec", "p", "table"}, t \in Branches}

\* Paragraphs with deleted runs, in the body, in cells, in a nested table.
InPairs(name, S) == {Element(name, k) : k \in Upto(2, S)}
Run == Element("t", <<>>)
Paragraphs == InPairs("p", {Run, Element("del", <<Run>>), Element("r", <<Run>>)})
InCells == {p \in Paragraphs : Len(p.kids) = 2 /\ p.kids[1] = Run}
TableRows == InPairs("tr", InPairs("tc", {p \in InCells : p.kids[2] # Run}))
Table == Element("tbl", <<CHOOSE r \in TableRows : Len(r.kids) = 2 /\ Len(r.kids[1].kids) = 2>>)
WordBodies == InPairs("body", Paragraphs) \union
  {Element("body", <<Element("tbl", <<r>>)>>) : r \in TableRows} \union
  {Element("body", <<s>>) : s \in InPairs("sdt", InCells \union {Table})} \union
  {Element("body", <<Element("tbl", <<Element("tr", <<c>>)>>)>>) : c \in InPairs("tc", InCells \union {Table})}

Bounds == {Open} \union {Number(n) : n \in 0..5} \union {Bound(t) : t \in Upto(2, 0..2)}
Values == {Number(0), Number(1)} \union [kind : {"missing", "text", "nan"}]

AllInputs ==
  [kind : {"quote"}, text : Upto(4, {"a", "B", "F", ".", " ", "|"})] \union
  [kind : {"passages"}, words : Upto(6, {"a", "b"})] \union
  [kind : {"scores"}, score : Upto(4, 0..2)] \union
  [kind : {"rows"}, keys : [1..3 -> 0..2], given : SUBSET (1..3)] \union
  [kind : {"similar"}, of : [1..4 -> 1..3], score : [1..4 -> 0..2]] \union
  [kind : {"ops"}, ops : Upto(4, [do : {"get", "set", "delete"}, key : 1..3])] \union
  [kind : {"article"}, body : Bodies] \union
  [kind : {"word"}, body : WordBodies] \union
  [kind : {"dates"}, dates : {S \in SUBSET ((1..2) \X (0..2) \X (0..2)) : Cardinality(S) \in 1..3}] \union
  [kind : {"key"}, key : Upto(4, {"a", "b", "1", " "})] \union
  [kind : {"range"}, low : Bounds, high : Bounds] \union
  [kind : {"files"}, includes : [1..3 -> {<<>>} \union [1..1 -> 1..3] \union [1..2 -> 1..3]]]

-----------------------------------------------------------------------------
\* Quotes are located by whole sentences, chunks merge back into their text, a
\* search takes the best rows and the nearest records, an in-memory cache keeps the
\* recent answers, no row, file or text of a document is lost or taken twice, and
\* validators and range filters reject what they say they do.
TransformsAgree ==
  CASE input.kind = "none" -> TRUE
    [] input.kind = "quote" -> Quotes!QuotesAreLocated(input.text)
    [] input.kind = "passages" ->
         \A size \in 1..3, overlap \in 0..2 : overlap < size => Passages!MergesBack(input.words, size, overlap)
    [] input.kind = "scores" -> \A k \in 1..3, least \in 0..2 : Passages!SelectsBest(input.score, k, least)
    [] input.kind = "rows" ->
         \A pairs \in Upto(3, Pairs) :
           LET groups == Groups(input.keys)
               within == SelectSeq(pairs, LAMBDA p : {p[1], p[2]} \subseteq DOMAIN groups)
           IN NothingDiscarded(input.keys, [r \in 1..3 |-> IF r \in input.given THEN r ELSE 0], within)
    [] input.kind = "similar" ->
         \A limit \in 1..2, factor \in 1..2 : Passages!NearestKept(input.of, input.score, 1, limit, factor)
    [] input.kind = "ops" -> \A limit \in 1..2 : Cache!RecentKept(input.ops, limit)
    [] input.kind = "article" -> \A out \in {{"label"}, {"label", "table"}} : TextsKeptOnce(input.body, out)
    [] input.kind = "word" -> ReadInLines(input.body)
    [] input.kind = "dates" -> IsEarliest(input.dates)
    [] input.kind = "key" ->
         /\ \A keyword \in Upto(2, {"a", "b", "1", " "}) : KeywordsAreWhole(input.key, keyword)
         /\ \A values \in [{"m", "z"} -> Values] :
              ViolationsAgree(<<"m", "z">>, values, [field \in {"m", "z"} |-> 1..2], input.key,
                              {<<"a">>, <<"a", " ", "b">>})
    [] input.kind = "range" -> RangesAreUsable(input.low, input.high, Upto(3, 0..2))
    [] input.kind = "files" -> \A roots \in SUBSET (1..3) : AssembledOnce(input.includes, roots)
=============================================================================
