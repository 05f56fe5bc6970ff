----------------------------- MODULE NewestFirst -----------------------------
(***************************************************************************)
(* Runs with newest_first=True over one listing that grows at the top:     *)
(* NewestFirstPosition and NewestFirstCursor, and what they save for the   *)
(* next run.  Between runs entries are submitted and withdrawn, and plain  *)
(* runs move the saved cursor.                                             *)
(*                                                                         *)
(* A page is fetched, processed and accounted for in one step: what the    *)
(* position does depends on the page and on whether all its records        *)
(* settled.  Entries are numbers in order of submission, so the listing is *)
(* a decreasing sequence; Unreadable ones appear on a page without an id.  *)
(***************************************************************************)
EXTENDS Orders, SequencesExt

CONSTANTS
  Entries,        \* bound: how many entries are ever submitted
  Unreadable,     \* the entries that have no usable id
  PageSize,       \* page_size of the newest-first runs
  PlainPageSize,  \* page_size of the other runs
  HeadIdLimit,    \* HEAD_ID_LIMIT
  Totals,         \* whether the source may know its total (a set of BOOLEANs)
  SubmitMidRun,   \* entries may be submitted while a run pages
  MaxWithdrawals, \* bound: entries withdrawn
  MaxRuns         \* bound: runs

SizeAssumption ==
  /\ Entries \in Nat /\ MaxWithdrawals \in Nat /\ MaxRuns \in Nat
  /\ PageSize \in Nat \ {0} /\ PlainPageSize \in Nat \ {0} /\ HeadIdLimit \in Nat \ {0}
ChoiceAssumption ==
  Unreadable \subseteq 1..Entries /\ SubmitMidRun \in BOOLEAN /\ Totals \subseteq BOOLEAN

VARIABLES
  knowsTotal, \* the listing ends on the last page with entries, not on an empty one
  submitted,  \* how many entries were ever submitted
  listing,    \* the entries listed now, newest first
  withdrawn,  \* how many were withdrawn
  processed,  \* the state manager's processed ids
  saved,      \* the saved metadata
  runs,       \* how many runs have started
  running,    \* a newest-first run is paging
  position,   \* NewestFirstPosition: its offset and its NewestFirstCursor
  undisturbed, \* history: nothing failed, was submitted or withdrawn in this run
  overtaken   \* history: entries were submitted between the first and the last
              \* saved head id a head scan passed

source == <<knowsTotal, submitted, listing, withdrawn>>
vars == <<source, processed, saved, runs, running, position, undisturbed, overtaken>>

Ids == 1..Entries

NoShift == 0 - Entries - 1   \* shift is None
NoHead == [offset |-> 0, ids |-> <<>>]

\* NewestFirstCursor(metadata) and an offset of 0.  first is the metadata the
\* run or its restart began with; the run's own copy is meta.  restarted is the
\* run's flag of that name.
StartAt(m) ==
  [offset |-> 0, meta |-> m, first |-> m,
   mode |-> IF m.head = <<>> THEN "rescan" ELSE "scanning",
   unsettledHead |-> NoHead, fresh |-> <<>>,
   scanSettled |-> TRUE, scanOffset |-> 0, scanTail |-> <<>>,
   backlogSettled |-> TRUE, headEnd |-> 0, headEndTail |-> <<>>,
   shift |-> NoShift, restarted |-> FALSE]

Fresh == [head |-> <<>>, headOffset |-> 0, cursor |-> 0, tail |-> <<>>]

Init ==
  /\ knowsTotal \in Totals
  /\ submitted = 0 /\ listing = <<>> /\ withdrawn = 0
  /\ processed = {}
  /\ saved = Fresh
  /\ runs = 0 /\ running = FALSE
  /\ position = StartAt(Fresh)
  /\ undisturbed = TRUE
  /\ overtaken = FALSE

-----------------------------------------------------------------------------
(* NewestFirstCursor.  Each operator is a method: p is the position before *)
(* it, its value the position after it, with the offset to fetch next.     *)

FirstIds(ids) == SubSeq(ids, 1, Min({Len(ids), HeadIdLimit}))
LastIds(ids) == SubSeq(ids, Max({0, Len(ids) - HeadIdLimit}) + 1, Len(ids))

\* _set_backlog
SetBacklog(p, offset, tail) == [p EXCEPT !.meta.cursor = offset, !.meta.tail = tail]

\* The next page to fetch, and what for.
GoOn(p, mode, offset) == [p EXCEPT !.mode = mode, !.offset = offset]

\* _adopt_scan
AdoptScan(p) ==
  SetBacklog([p EXCEPT !.mode = "rescan", !.meta.head = p.fresh, !.meta.headOffset = 0],
             p.scanOffset, p.scanTail)

\* Mutant: the run turns back, but keeps the offset it probed.
FallBackKeepingCursor(p) == GoOn(p, "backlog", p.headEnd)

\* Mutant: the run turns back, and probes again.
FallBackProbing(p) == [SetBacklog(p, p.headEnd, p.headEndTail) EXCEPT !.offset = p.headEnd]

\* _fall_back
FallBack(p) == GoOn(SetBacklog(p, p.headEnd, p.headEndTail), "backlog", p.headEnd)

\* _locate: how far the first saved id on the page has moved.  Positions are
\* counted from 0.
Locate(p, start, ids) ==
  LET on == {i \in DOMAIN ids : \E j \in DOMAIN p.first.head : ids[i] = p.first.head[j]}
      i == Min(on)
      j == CHOOSE k \in DOMAIN p.first.head : p.first.head[k] = ids[i]
  IN  IF on = {} THEN NoShift ELSE (start + i) - (p.first.headOffset + j)

\* Mutant: the head is taken from the first page, whatever failed.
ObserveHeadForgetting(p, start, ids, next, complete) ==
  LET shift == IF p.shift = NoShift THEN Locate(p, start, ids) ELSE p.shift
      backlog == p.first.cursor + shift
      q == [p EXCEPT !.shift = shift, !.offset = next]
      anchored == [q EXCEPT !.meta.head = q.fresh, !.meta.headOffset = 0,
                            !.headEnd = next, !.headEndTail = LastIds(ids)]
  IN  IF shift = NoShift \/ next < p.first.headOffset + Len(p.first.head) + shift
      THEN q
      ELSE IF p.first.tail # <<>> /\ backlog - PageSize > next
      THEN [SetBacklog(anchored, backlog, anchored.meta.tail) EXCEPT
              !.mode = "probing", !.offset = backlog - PageSize]
      ELSE [SetBacklog(anchored, next, LastIds(ids)) EXCEPT !.mode = "backlog"]

\* _observe_head, where the scan has passed the last saved head id: the head for
\* the next run to look for.
Anchored(p, next, tail) ==
  [p EXCEPT !.meta.head = IF p.unsettledHead = NoHead THEN p.fresh ELSE p.unsettledHead.ids,
            !.meta.headOffset = p.unsettledHead.offset,
            !.headEnd = next, !.headEndTail = tail]

\* There the run jumps to the page before the backlog, or goes on if that is not ahead.
Jump(p, next, tail) ==
  LET backlog == p.first.cursor + p.shift
      probe == backlog - PageSize
  IN  IF p.first.tail # <<>> /\ probe > next
      THEN GoOn(SetBacklog(Anchored(p, next, tail), backlog, p.meta.tail), "probing", probe)
      ELSE GoOn(SetBacklog(Anchored(p, next, tail), next, tail), "backlog", next)

\* _observe_head
ObserveHead(p, start, ids, next, complete) ==
  LET tail == LastIds(ids)
      q == [p EXCEPT !.offset = next,
                     !.unsettledHead =
                        IF complete THEN @ ELSE [offset |-> start + Len(ids) - Len(tail), ids |-> tail],
                     !.shift = IF @ = NoShift THEN Locate(p, start, ids) ELSE @]
  IN  IF q.shift = NoShift \/ next < p.first.headOffset + Len(p.first.head) + q.shift
      THEN q
      ELSE Jump(q, next, tail)

\* Mutant: resumes at the probed page without looking for the tail on it.
ObserveProbeUnchecked(p, start, ids, next, complete) ==
  GoOn(SetBacklog(p, next, LastIds(ids)), "backlog", next)

\* _observe_probe
ObserveProbe(p, start, ids, next, complete) ==
  IF ToSet(p.first.tail) \intersect ToSet(ids) = {}
  THEN FallBack(p)
  ELSE LET q == IF complete
                THEN SetBacklog(p, next, LastIds(ids))
                ELSE [SetBacklog(p, start, <<>>) EXCEPT !.backlogSettled = FALSE]
       IN  GoOn(q, "backlog", next)

\* _settle_backlog
SettleBacklog(p, ids, next, complete) ==
  LET q == [p EXCEPT !.backlogSettled = @ /\ complete, !.offset = next]
  IN  IF q.backlogSettled THEN SetBacklog(q, next, LastIds(ids)) ELSE q

\* observe_page
ObservePage(p, start, ids, entries, complete) ==
  LET next == start + entries
      settled == p.scanSettled /\ complete
      q == [p EXCEPT !.fresh = IF start = 0 THEN FirstIds(ids) ELSE @,
                     !.scanSettled = settled,
                     !.scanOffset = IF settled THEN next ELSE @,
                     !.scanTail = IF settled THEN LastIds(ids) ELSE @]
  IN  CASE q.mode = "rescan" -> GoOn(AdoptScan(q), "rescan", next)
        [] q.mode = "scanning" -> ObserveHead(q, start, ids, next, complete)
        [] q.mode = "probing" -> ObserveProbe(q, start, ids, next, complete)
        [] q.mode = "backlog" -> SettleBacklog(q, ids, next, complete)

\* listing_ended, and NewestFirstPosition._listing_ended(end): whether the
\* run pages on from an earlier offset.
ListingEnded(p) ==
  CASE p.mode = "scanning" -> AdoptScan(p)
    [] p.mode = "probing" -> FallBack(p)
    [] OTHER -> p
PagesOn(p, end) == p.mode = "probing" /\ p.headEnd < end

-----------------------------------------------------------------------------
(* Runs.                                                                   *)

StartRun ==
  /\ ~running /\ runs < MaxRuns
  /\ runs' = runs + 1
  /\ running' = TRUE
  /\ position' = StartAt(saved)
  /\ undisturbed' = TRUE
  /\ UNCHANGED <<source, processed, saved, overtaken>>

\* The page at the position's offset, and the ids on it.
PageAt(offset) == SubSeq(listing, offset + 1, Min({offset + PageSize, Len(listing)}))
IdsOn(page) ==
  LET readable == ToSet(page) \ Unreadable
  IN BestFirst(readable, [id \in readable |-> id], [id \in readable |-> id])

\* What the run saves, and where it goes on, after a page.
Save(p) == position' = p /\ saved' = p.meta

\* The run's objects are gone.
EndRun == running' = FALSE /\ position' = StartAt(Fresh)

\* A page with entries: some of its unprocessed records fail, the others settle.
\* A source that knows its total has no next page after the last entry, and the
\* run ends there: a probe is never begun past the last entry, so the position
\* has nowhere earlier to page on from.
ProcessPage ==
  LET start == position.offset
      page == PageAt(start)
      last == knowsTotal /\ start + Len(page) = Len(listing)
  IN  /\ running /\ page # <<>>
      /\ \E failing \in SUBSET (ToSet(IdsOn(page)) \ processed) :
           LET p == ObservePage(position, start, IdsOn(page), Len(page), failing = {})
           IN  /\ processed' = processed \union (ToSet(IdsOn(page)) \ failing)
               /\ undisturbed' = (undisturbed /\ failing = {})
               /\ IF last
                  THEN saved' = ListingEnded(p).meta /\ EndRun
                  ELSE Save(p) /\ UNCHANGED running
      /\ UNCHANGED <<source, runs, overtaken>>

\* An empty page.
EmptyPage ==
  LET p == ListingEnded(position)
  IN  /\ running /\ PageAt(position.offset) = <<>>
      /\ saved' = p.meta
      /\ IF PagesOn(position, position.offset)
         THEN position' = p /\ UNCHANGED running
         ELSE EndRun
      /\ UNCHANGED <<source, processed, runs, undisturbed, overtaken>>

\* Some records of the page at hand settle, and the page goes unaccounted for.
SettleSome ==
  \E some \in SUBSET ToSet(IdsOn(PageAt(position.offset))) :
     processed' = processed \union some

\* The limit, a stall, a shutdown or a fault ends the run, between pages or in
\* the middle of one.
StopRun ==
  /\ running
  /\ SettleSome
  /\ EndRun
  /\ undisturbed' = FALSE
  /\ UNCHANGED <<source, saved, runs, overtaken>>

\* truncate(): the source stopped at its cap on this page.
TruncateRun ==
  /\ running
  /\ SettleSome
  /\ saved' = [position.meta EXCEPT !.cursor = 0]
  /\ EndRun
  /\ undisturbed' = FALSE
  /\ UNCHANGED <<source, runs, overtaken>>

\* restart(): the source rejected the cursor, for the first time in the run (a
\* second time ends it).
RestartRun ==
  /\ running /\ position.offset # 0 /\ ~position.restarted
  /\ Save([StartAt(Fresh) EXCEPT !.restarted = TRUE])
  /\ UNCHANGED <<source, processed, runs, running, undisturbed, overtaken>>

\* A run without newest_first: it settles whole pages from the saved cursor on,
\* and leaves the head and the tail as they are.  (What it settles after a page
\* that failed, with the cursor held there, is what a stopped run may settle.)
PlainRun ==
  /\ ~running /\ runs < MaxRuns
  /\ runs' = runs + 1
  /\ \E pages \in 1..Len(listing) :
       LET end == Min({saved.cursor + pages * PlainPageSize, Len(listing)})
       IN  /\ saved.cursor < end
           /\ processed' = processed \union
                ToSet(IdsOn(SubSeq(listing, saved.cursor + 1, end)))
           /\ saved' = [saved EXCEPT !.cursor = end]
  /\ UNCHANGED <<source, running, position, undisturbed, overtaken>>

-----------------------------------------------------------------------------
(* The source.                                                             *)

Submit ==
  /\ submitted < Entries
  /\ running => SubmitMidRun
  /\ submitted' = submitted + 1
  /\ listing' = <<submitted'>> \o listing
  /\ undisturbed' = FALSE
  /\ overtaken' = (overtaken \/ (running /\ position.mode = "scanning" /\ position.shift # NoShift))
  /\ UNCHANGED <<knowsTotal, withdrawn, processed, saved, runs, running, position>>

Withdraw ==
  /\ ~running /\ withdrawn < MaxWithdrawals
  /\ withdrawn' = withdrawn + 1
  /\ \E i \in DOMAIN listing : listing' = RemoveAt(listing, i)
  /\ UNCHANGED <<knowsTotal, submitted, processed, saved, runs, running, position, undisturbed, overtaken>>

RunStep == ProcessPage \/ EmptyPage

Next ==
  \/ StartRun \/ RunStep \/ StopRun \/ TruncateRun \/ RestartRun \/ PlainRun
  \/ Submit \/ Withdraw

Spec == Init /\ [][Next]_vars

-----------------------------------------------------------------------------
Unsettled == ToSet(listing) \ (processed \union Unreadable)

\* A run that nothing disturbs, on a source whose listing ends on an empty page,
\* leaves no listed record unprocessed, whatever earlier runs skipped, failed or
\* left behind ("when the records before the saved offset aren't where they should
\* be, the run pages on from the top instead of skipping",
\* docs/guide/state.md:127-129).
PagedOutSettlesAll ==
  [][running /\ ~running' /\ undisturbed' /\ ~knowsTotal /\ ~overtaken => Unsettled' = {}]_vars

\* Whatever the source, such a run leaves what it did not settle at or after the
\* offset it saves, for the next run.
CleanRunLeavesNoGap ==
  [][running /\ ~running' /\ undisturbed' /\ ~overtaken =>
       \A i \in 1..Min({saved'.cursor, Len(listing)}) : listing[i] \notin Unsettled']_vars

\* A record still to be processed is either among or above the saved head ids, or
\* below the saved tail ("so the next run's head scan reaches every record left
\* unsettled near the top, which lies at or before those ids",
\* _listing_head.py:39-41).
HeadScanReachesUnsettled ==
  saved.head # <<>> /\ saved.tail # <<>> =>
    \A id \in Unsettled : id >= Last(saved.head) \/ id < Last(saved.tail)

\* The gap a run jumps over is settled, unless submissions have overtaken a head scan.
GapIsSettled == ~overtaken => HeadScanReachesUnsettled

\* Every page takes a run on: down the listing, or from the head scan to the
\* probe and from there to the backlog, so it turns back at most once and cannot
\* page for ever, however the saved offset and ids came apart.
Stage == CASE position.mode \in {"rescan", "scanning"} -> 0
           [] position.mode = "probing" -> 1
           [] position.mode = "backlog" -> 2
Advances ==
  Stage' > Stage \/ (Stage' = Stage /\ position'.offset > position.offset)
EveryPageAdvances == [][running' /\ ~Advances => ~RunStep]_vars
=============================================================================
