----------------------------- MODULE Extractors -----------------------------
(***************************************************************************)
(* The four sources of records.  Each pages through its search listing in  *)
(* its own way: arXiv, PubMed and Semantic Scholar by offset, the last two *)
(* up to a cap; OpenAlex by a cursor of the server's that may expire.  A   *)
(* walk is one listing read page by page by the pipeline, which keeps the  *)
(* cursor when a page fails and starts over when it is stale; then the     *)
(* full text of a record is read until an attempt settles it.              *)
(***************************************************************************)
EXTENDS Integers, Sequences, FiniteSets, FiniteSetsExt, Functions

CONSTANTS
  Listing,     \* what the search matches: [id, paper], id 0 for an entry without
               \* one; entries of one paper are its versions
  Unserved,    \* positions of it that PubMed counts and no longer serves
  PageSize, Cap,
  Starts,      \* cursors that earlier runs may have saved: [kind, at]
  MaxExpiries, MaxFaults

Assumption ==
  /\ Listing \in Seq([id : Nat, paper : Nat]) /\ Unserved \subseteq DOMAIN Listing
  /\ {PageSize, Cap} \subseteq Nat \ {0} /\ {MaxExpiries, MaxFaults} \subseteq Nat
  /\ Starts \subseteq [kind : {"none", "decimal", "opaque"}, at : Nat]

VARIABLES
  source,      \* arxiv, pubmed, openalex or s2
  counts,      \* whether its answers tell the number of results
  cursor, outcome,    \* walking, ended or truncated
  expiries,    \* OpenAlex has dropped the cursors it gave before the last one
  issued,      \* how many expiries the cursor has seen
  documents,   \* what a record's document is: text, gone or unreadable
  settled,     \* the text the record got: none yet, or where it is from
  faults,
  \* history
  from, found             \* where the walk began, and the papers it was given

walkVars == <<cursor, outcome, issued, from, found>>
textVars == <<documents, settled, faults>>
extractorVars == <<source, counts, walkVars, expiries, textVars>>

Sources == {"arxiv", "pubmed", "openalex", "s2"}
IsCapped == source \in {"pubmed", "s2"}

NoCursor == [kind |-> "none", at |-> 0]
DecimalCursor(offset) == [kind |-> "decimal", at |-> offset]
OpaqueCursor(offset) == [kind |-> "opaque", at |-> offset]

\* offset_from_cursor() refuses what is no offset, OpenAlex what is one and what
\* its server has dropped.
IsStale ==
  IF source = "openalex"
  THEN cursor.kind = "decimal" \/ (cursor.kind = "opaque" /\ issued < expiries)
  ELSE cursor.kind = "opaque"

DocumentKinds == {"text", "gone", "unreadable"}
DocumentsOf == IF source = "arxiv" THEN {"latex", "pdf"} ELSE {"document"}

Init ==
  /\ source \in Sources /\ counts \in BOOLEAN
  /\ cursor \in Starts /\ outcome = "walking" /\ expiries = 0 /\ issued = 0
  /\ from = cursor.at /\ found = {}
  /\ documents \in [DocumentsOf -> DocumentKinds] /\ settled = "none" /\ faults = 0

-----------------------------------------------------------------------------
(* Listing                                                                  *)

\* What the server has from an offset on, at most limit entries of it.
Available(limit) == Max({0, Min({limit, Len(Listing) - cursor.at})})

Positions(entries) == (cursor.at + 1)..(cursor.at + entries)

\* The papers of the entries that become records: none without an id, none
\* PubMed no longer serves; a later version of one already on the page adds none.
Papers(positions) ==
  {Listing[i].paper : i \in {j \in positions : Listing[j].id # 0 /\
                                               ~(source = "pubmed" /\ j \in Unserved)}}

Give(entries) == found' = found \union Papers(Positions(entries))

\* Mutant: PubMed counts the records it got for its ids.
CountedRecords(positions) ==
  Cardinality({i \in positions : source = "pubmed" => Listing[i].id # 0 /\ i \notin Unserved})

\* What a page counts for: every entry, but of PubMed the ids that _search_ids()
\* leaves, which are none of the blank ones.
Counted(positions) == Cardinality({i \in positions : source = "pubmed" => Listing[i].id # 0})

\* Mutant: the listing goes on after the records of the page.
OffsetPageOfRecords(entries) ==
  LET records == {i \in Positions(entries) : Listing[i].id # 0} IN
  IF records = {} THEN outcome' = "ended" /\ UNCHANGED cursor
  ELSE outcome' = "walking" /\ cursor' = DecimalCursor(cursor.at + entries)

\* offset_page(): until a page has no entries.
OffsetPage(entries) ==
  IF entries = 0 THEN outcome' = "ended" /\ UNCHANGED cursor
  ELSE outcome' = "walking" /\ cursor' = DecimalCursor(cursor.at + entries)

\* Mutant: the page that reaches the cap ends the listing as any other.
CappedPageEnding(entries) ==
  LET counted == Counted(Positions(entries))
      end == cursor.at + counted
  IN
  IF counted = 0 \/ (counts /\ end >= Len(Listing)) \/ end >= Cap
  THEN outcome' = "ended" /\ UNCHANGED cursor
  ELSE outcome' = "walking" /\ cursor' = DecimalCursor(end)

\* PubMed and Semantic Scholar: until a page counts for nothing, the number of
\* results is reached, which the answer need not tell, or the cap.  The offset goes
\* on by what the page counts for, so PubMed is asked again for as many entries as
\* the page had blank ids.
CappedPage(entries) ==
  LET counted == Counted(Positions(entries))
      end == cursor.at + counted
  IN
  IF counted = 0 \/ (counts /\ end >= Len(Listing)) THEN outcome' = "ended" /\ UNCHANGED cursor
  ELSE IF end >= Cap THEN outcome' = "truncated" /\ UNCHANGED cursor
  ELSE outcome' = "walking" /\ cursor' = DecimalCursor(end)

\* A page the server answers, which may hold less than it was asked for.
FetchOffsetPage ==
  /\ source = "arxiv" /\ outcome = "walking" /\ ~IsStale
  /\ \E entries \in Min({1, Available(PageSize)})..Available(PageSize) :
       OffsetPage(entries) /\ Give(entries)
  /\ UNCHANGED <<source, counts, expiries, issued, from, textVars>>

FetchCappedPage ==
  /\ IsCapped /\ outcome = "walking" /\ ~IsStale /\ cursor.at < Cap
  /\ LET most == Available(Min({PageSize, Cap - cursor.at}))
     IN \E entries \in Min({1, most})..most : CappedPage(entries) /\ Give(entries)
  /\ UNCHANGED <<source, counts, expiries, issued, from, textVars>>

\* A cursor past the cap asks for nothing.
PastTheCap ==
  /\ IsCapped /\ outcome = "walking" /\ ~IsStale /\ cursor.at >= Cap
  /\ outcome' = "truncated"
  /\ UNCHANGED <<source, counts, cursor, issued, expiries, from, found, textVars>>

\* OpenAlex names the next page itself; past the last one, or with it, it has none.
FetchCursorPage ==
  /\ source = "openalex" /\ outcome = "walking" /\ ~IsStale
  /\ \E entries \in Min({1, Available(PageSize)})..Available(PageSize) :
       /\ Give(entries)
       /\ \/ cursor.at + entries >= Len(Listing) /\ outcome' = "ended" /\ UNCHANGED <<cursor, issued>>
          \/ /\ entries > 0 /\ cursor' = OpaqueCursor(cursor.at + entries) /\ issued' = expiries
             /\ outcome' = "walking"
  /\ UNCHANGED <<source, counts, expiries, from, textVars>>

\* StaleCursorError: the pipeline lists from the start.
StartOver ==
  /\ outcome = "walking" /\ IsStale
  /\ cursor' = NoCursor /\ from' = 0 /\ found' = {}
  /\ UNCHANGED <<source, counts, outcome, issued, expiries, textVars>>

\* The server forgets the cursors it has given out.
Expire ==
  /\ source = "openalex" /\ expiries < MaxExpiries /\ expiries' = expiries + 1
  /\ UNCHANGED <<source, counts, walkVars, textVars>>

-----------------------------------------------------------------------------
(* Full text                                                                *)

\* Mutant: a document that could not be fetched is one there is not.
FullTextOfAnswered(answers) ==
  IF \E d \in DOMAIN answers : answers[d] = "text"
  THEN IF "latex" \in DOMAIN answers /\ answers["latex"] = "text" THEN "latex"
       ELSE CHOOSE d \in DOMAIN answers \ {"latex"} : answers[d] = "text"
  ELSE "abstract"

\* fetch_full_text(): the first document with a text; a failed fetch is raised
\* once no other has any, and the abstract is the last resort.
FullText(answers) ==
  IF \E d \in DOMAIN answers : answers[d] = "text"
  THEN IF "latex" \in DOMAIN answers /\ answers["latex"] = "text" THEN "latex"
       ELSE CHOOSE d \in DOMAIN answers \ {"latex"} : answers[d] = "text"
  ELSE IF "fault" \in Range(answers) THEN "none" ELSE "abstract"

\* An attempt to read the record, some of its fetches failing.
Read ==
  /\ settled = "none"
  /\ \E failing \in SUBSET DOMAIN documents :
       /\ faults + Cardinality(failing) <= MaxFaults /\ faults' = faults + Cardinality(failing)
       /\ settled' = FullText([d \in DOMAIN documents |-> IF d \in failing THEN "fault" ELSE documents[d]])
  /\ UNCHANGED <<source, counts, walkVars, expiries, documents>>

Pages == FetchOffsetPage \/ FetchCappedPage \/ PastTheCap \/ FetchCursorPage \/ StartOver

Next == Pages \/ Expire \/ Read

-----------------------------------------------------------------------------
(* Properties *)

\* PubMed took a page of blank ids for the end of the listing, whatever the number of
\* results (pubmed_async.py:135): models.py:81 says a page without a next cursor is the
\* last.
StoppedOnBlanks ==
  source = "pubmed" /\ cursor.at < Len(Listing) /\ Listing[cursor.at + 1].id = 0

\* No page passes over an entry, and "ended" and "truncated" are told apart: however
\* short the pages and whatever they count for, a walk was given every paper with
\* an id from where it began to its cursor; if it ended, to the end of the listing,
\* unless PubMed stopped on blank ids; if it is truncated, all that the source
\* serves, and there is more if its answers tell (a cursor saved past the cap asks
\* for none) (extractors/, ListingPage.truncated).
WalkIsWhole ==
  /\ outcome # "truncated" => Papers((from + 1)..cursor.at) \subseteq found
  /\ outcome = "ended" => Papers((from + 1)..Len(Listing)) \subseteq found \/ StoppedOnBlanks
  /\ outcome = "truncated" =>
       Papers((from + 1)..Cap) \subseteq found /\ (counts /\ from < Cap => Len(Listing) > Cap)

\* No record settles on its abstract while one of its documents has a text,
\* however its fetches failed (arxiv_async.py:279).
AbstractIsLastResort ==
  settled = "abstract" => \A d \in DOMAIN documents : documents[d] # "text"

\* A listing ends once its cursors stop expiring, and a record is settled.
WalkEnds == <>(outcome # "walking" /\ settled # "none")
=============================================================================
