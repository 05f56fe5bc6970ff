------------------------------ MODULE FullTexts ------------------------------
(***************************************************************************)
(* What the parsers of XML documents keep of them, and in which order: the *)
(* body of a JATS article (parsers/jats.py) and of a Word document         *)
(* (parsers/docx.py).  An element is [name, kids]; its path is the         *)
(* sequence of kid numbers that leads to it.  Every element has a text     *)
(* before its first kid and one after its end, its tail.                   *)
(***************************************************************************)
EXTENDS Naturals, Sequences, SequencesExt, FiniteSets, FiniteSetsExt

Element(name, kids) == [name |-> name, kids |-> kids]

Text(at) == <<at, "text">>
TailOf(at) == <<at, "tail">>

Numbers(element) == [i \in DOMAIN element.kids |-> i]

\* What F makes of each kid that Keeps, in their order.
OfKids(element, at, Keeps(_), F(_, _)) ==
  FlattenSeq([i \in DOMAIN element.kids |->
    IF Keeps(element.kids[i].name) THEN F(element.kids[i], Append(at, i)) ELSE <<>>])

Everything(name) == TRUE

-----------------------------------------------------------------------------
(* JATS.  skipped are the names whose elements are left out; a tail belongs *)
(* to the text around its element and stays.                                *)

BlockElements == {"p", "title", "sec"}

\* _inline(): the pieces of one element's text.
RECURSIVE Pieces(_, _, _, _)
Pieces(element, at, top, skipped) ==
  LET inner == OfKids(element, at, Everything, LAMBDA kid, path : Pieces(kid, path, FALSE, skipped))
      own == IF ~top /\ element.name \in skipped THEN <<>> ELSE <<Text(at)>> \o inner
  IN IF top THEN own ELSE Append(own, TailOf(at))

Inline(element, at, skipped) == Pieces(element, at, TRUE, skipped)

Add(block, blocks) == IF block = <<>> THEN blocks ELSE Append(blocks, block)
Flush(w) == [blocks |-> Add(w.buffer, w.blocks), buffer |-> <<>>]
Buffered(w, piece) == [w EXCEPT !.buffer = Append(@, piece)]

\* The cells of a table row, one block.
Row(element, at, skipped) ==
  OfKids(element, at, LAMBDA name : name = "td", LAMBDA kid, path : Inline(kid, path, skipped))

\* Mutant: the tail of an element that is skipped goes with it.
TailedUnlessSkipped(w, element, at, top, skipped) ==
  IF top \/ element.name \in skipped THEN w ELSE Buffered(w, TailOf(at))

Tailed(w, element, at, top, skipped) == IF top THEN w ELSE Buffered(w, TailOf(at))

\* _walk(): the blocks so far and the text of the one begun.
RECURSIVE Walk(_, _, _, _, _)
Walk(w, element, at, top, skipped) ==
  LET Through(v) == FoldLeft(LAMBDA x, i : Walk(x, element.kids[i], Append(at, i), FALSE, skipped),
                             Buffered(v, Text(at)), Numbers(element))
      walked == CASE element.name \in skipped -> w
                  [] element.name = "tr" ->
                       [Flush(w) EXCEPT !.blocks = Add(Row(element, at, skipped), @)]
                  [] element.name \in BlockElements -> Flush(Through(Flush(w)))
                  [] OTHER -> Through(w)
  IN Tailed(walked, element, at, top, skipped)

\* _blocks()
Blocks(element, at, skipped) ==
  Flush(Walk([blocks |-> <<>>, buffer |-> <<>>], element, at, TRUE, skipped)).blocks

\* The first title among the kids.
TitleAt(section) == SelectInSeq(section.kids, LAMBDA kid : kid.name = "title")
Title(section, at, skipped) ==
  IF TitleAt(section) = 0 THEN <<>>
  ELSE Inline(section.kids[TitleAt(section)], Append(at, TitleAt(section)), skipped)

\* _section(): a section, then those in it.
RECURSIVE SectionsOf(_, _, _, _)
SectionsOf(section, at, level, skipped) ==
  <<[title |-> Title(section, at, skipped), level |-> level,
     text |-> OfKids(section, at, LAMBDA name : name \notin {"sec", "title"},
                     LAMBDA kid, path : Blocks(kid, path, skipped))]>>
  \o OfKids(section, at, LAMBDA name : name = "sec",
            LAMBDA kid, path : SectionsOf(kid, path, level + 1, skipped))

\* _sections(): what the body has outside sections comes first.
Sections(body, skipped) ==
  LET lead == OfKids(body, <<>>, LAMBDA name : name # "sec", LAMBDA kid, path : Blocks(kid, path, skipped))
  IN (IF lead = <<>> THEN <<>> ELSE <<[title |-> <<>>, level |-> 0, text |-> lead]>>)
     \o OfKids(body, <<>>, LAMBDA name : name = "sec", LAMBDA kid, path : SectionsOf(kid, path, 1, skipped))

\* body_text()
BodyText(sections) ==
  FlattenSeq([i \in DOMAIN sections |-> Add(sections[i].title, <<>>) \o sections[i].text])

\* _published(): the earliest of the dates <<year, month, day>> given, 0 where one
\* is not, as far as each is precise.
SortKey(date) ==
  <<date[1], IF date[2] = 0 THEN 13 ELSE date[2], IF date[2] = 0 \/ date[3] = 0 THEN 32 ELSE date[3]>>
Published(dates) ==
  CHOOSE date \in dates : \A other \in dates :
    LET k == SortKey(date)
        l == SortKey(other)
    IN k[1] < l[1] \/ (k[1] = l[1] /\ (k[2] < l[2] \/ (k[2] = l[2] /\ k[3] <= l[3])))

-----------------------------------------------------------------------------
(* Word.  A paragraph's text is in its "t" elements, named by their paths.  *)

SkippedRuns == {"del"}

RECURSIVE Runs(_, _)
Runs(element, at) ==
  OfKids(element, at, LAMBDA name : name \notin SkippedRuns,
         LAMBDA kid, path : IF kid.name = "t" THEN <<path>> ELSE Runs(kid, path))

\* _collect_blocks() and _table_rows(): a line for each paragraph outside a table
\* and each row of one; a table in a cell is part of the row.
RECURSIVE Lines(_, _)
Lines(container, at) ==
  LET Cell(cell, path) == FlattenSeq(Lines(cell, path))
      TableRow(row, path) == <<OfKids(row, path, LAMBDA name : name = "tc", Cell)>>
      Block(kid, path) ==
        CASE kid.name = "p" -> <<Runs(kid, path)>>
          [] kid.name = "tbl" -> OfKids(kid, path, LAMBDA name : name = "tr", TableRow)
          [] kid.name \in {"sdt", "ins"} -> Lines(kid, path)
          [] OTHER -> <<>>
  IN OfKids(container, at, Everything, Block)

-----------------------------------------------------------------------------
(* Properties *)

RECURSIVE ElementAt(_, _)
ElementAt(element, at) ==
  IF at = <<>> THEN element ELSE ElementAt(element.kids[Head(at)], Tail(at))
NameAt(element, at) == ElementAt(element, at).name

\* The paths of the element and of those around it, the body left out.
Around(at) == {SubSeq(at, 1, n) : n \in 1..Len(at)}

\* A section, or the body: what is directly in it is not text.
IsSection(body, at) == \A p \in Around(at) : NameAt(body, p) = "sec"

\* Texts of elements that are kept and hold text: not of a section itself, nor of
\* a table row outside its cells; and one title of each section.
IsKept(body, piece, skipped) ==
  LET at == piece[1]
      inside == IF piece[2] = "text" THEN Around(at) ELSE Around(Front(at))
      rows == {p \in inside : NameAt(body, p) = "tr"}
      around == IF piece[2] = "text" THEN at ELSE Front(at)
  IN /\ \A p \in inside : NameAt(body, p) \notin skipped
     /\ ~IsSection(body, around)
     /\ \A row \in rows :
          Len(around) > Len(row) /\ NameAt(body, SubSeq(at, 1, Len(row) + 1)) = "td"
     /\ \A p \in inside : LET section == Front(p) IN
          NameAt(body, p) = "title" /\ section # <<>> /\ IsSection(body, section) =>
            Last(p) = TitleAt(ElementAt(body, section))

\* A section's title is first and its sections are last, as JATS has them.
IsInOrder(body, at) ==
  LET names == [i \in DOMAIN ElementAt(body, at).kids |-> ElementAt(body, at).kids[i].name]
  IN /\ \A i, j \in DOMAIN names : i < j /\ names[i] = "sec" => names[j] = "sec"
     /\ at # <<>> => \A i \in DOMAIN names : names[i] = "title" => i = 1

\* Where a new block begins: around a block element or a row outside any row and
\* heading, and around whatever is directly in a section.
IsBoundary(body, at, skipped) ==
  /\ at # <<>>
  /\ \A p \in Around(Front(at)) :
       /\ NameAt(body, p) \notin skipped \union {"tr"}
       /\ ~(NameAt(body, p) = "title" /\ Len(p) > 1 /\ IsSection(body, Front(p)))
  /\ NameAt(body, at) \in BlockElements \union {"tr"} \/ IsSection(body, Front(at))

\* Every text that is kept is in the article exactly once, nothing else is, in the
\* order of the document where its sections are in order, and two texts are in one
\* block exactly when no block begins or ends between them (parsers/jats.py:59-211).
TextsKeptOnce(body, skipped) ==
  LET document == Inline(body, <<>>, {})
      blocks == BodyText(Sections(body, skipped))
      kept == SelectSeq(document, LAMBDA piece : IsKept(body, piece, skipped))
      paths == {piece[1] : piece \in ToSet(document)}
      Region(piece) == Cardinality({i \in 1..Min({j \in DOMAIN document : document[j] = piece}) :
                                      IsBoundary(body, document[i][1], skipped)})
  IN /\ IsInjective(FlattenSeq(blocks)) /\ ToSet(FlattenSeq(blocks)) = ToSet(kept)
     /\ (\A at \in paths : IsSection(body, at) => IsInOrder(body, at)) => FlattenSeq(blocks) = kept
     /\ \A i, j \in DOMAIN blocks : \A one \in ToSet(blocks[i]), other \in ToSet(blocks[j]) :
          (i = j) <=> Region(one) = Region(other)

\* "an ISO 8601 date of the earliest <pub-date> given" (parsers/jats.py:37): none of the
\* others is earlier, however precise it is.
IsEarliest(dates) ==
  \A date \in dates : LET chosen == Published(dates) IN
    /\ date[1] >= chosen[1]
    /\ date[1] = chosen[1] /\ date[2] # 0 => chosen[2] # 0 /\ date[2] >= chosen[2]
    /\ date[1] = chosen[1] /\ date[2] # 0 /\ date[2] = chosen[2] /\ date[3] # 0 =>
         chosen[3] # 0 /\ date[3] >= chosen[3]

\* Every text of a Word document that no revision deleted is read once, in its
\* order, each paragraph outside a table and each row of an outermost table on a
\* line of its own (parsers/docx.py:23-31).
ReadInLines(body) ==
  LET lines == Lines(body, <<>>)
      texts == SelectSeq(Inline(body, <<>>, {}), LAMBDA piece : piece[2] = "text" /\ NameAt(body, piece[1]) = "t")
      live == SelectSeq(texts, LAMBDA piece : \A p \in Around(piece[1]) : NameAt(body, p) \notin SkippedRuns)
      Line(at) ==
        LET rows == {p \in Around(at) : NameAt(body, p) = "tr"}
            paragraphs == {p \in Around(at) : NameAt(body, p) = "p"}
            Outermost(S) == CHOOSE p \in S : \A q \in S : Len(p) <= Len(q)
        IN IF rows = {} THEN Outermost(paragraphs) ELSE Outermost(rows)
  IN /\ FlattenSeq(lines) = [i \in DOMAIN live |-> live[i][1]]
     /\ \A i, j \in DOMAIN lines : \A one \in ToSet(lines[i]), other \in ToSet(lines[j]) :
          (i = j) <=> Line(one) = Line(other)
=============================================================================
