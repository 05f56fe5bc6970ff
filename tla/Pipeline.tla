------------------------------ MODULE Pipeline ------------------------------
(***************************************************************************)
(* AsyncETLPipeline.run with a CursorPosition: one process that runs again *)
(* and again over one growing listing, with its state manager, its         *)
(* exporter and the source it pages.                                       *)
(*                                                                         *)
(* The run is one coroutine (phase) that, on a page, fans out one task per *)
(* record under a semaphore.  Code between two awaits is one action; each  *)
(* awaited call completes, or fails, in an action of its own.  A call that *)
(* fails may have taken effect first.  A disturbance is a fault, a         *)
(* cancellation, a shutdown request or a crash; MaxFaults bounds them.     *)
(***************************************************************************)
EXTENDS Integers, Sequences, FiniteSets

CONSTANTS
  Listing,         \* the ids of the listing's entries, in listing order
  Blank,           \* the id of an entry that has none
  Irrelevant,      \* the ids the relevance filter rejects
  PageSize,        \* page_size
  TotalLimit,      \* total_limit
  MaxConcurrency,  \* max_concurrency
  MaxAttempts,     \* max_attempts; 0 stands for None
  DurableWrites,   \* the exporter's durable_writes
  OffsetPaging,    \* the extractor is an OffsetListing
  Cap,             \* the source serves no entry past this one
  MaxFaults        \* bound: disturbances in a behaviour

Positions == DOMAIN Listing
Records == {Listing[i] : i \in Positions}

ASSUME ListingAssumption == Listing \in Seq(Records)
ASSUME NumberAssumption ==
  /\ PageSize \in Nat \ {0}
  /\ TotalLimit \in Nat
  /\ MaxConcurrency \in Nat \ {0}
  /\ MaxAttempts \in Nat
  /\ Cap \in Nat \ {0}
  /\ MaxFaults \in Nat
ASSUME FlagAssumption == DurableWrites \in BOOLEAN /\ OffsetPaging \in BOOLEAN

VARIABLES
  \* What outlives the process.
  published,   \* how many entries the listing has
  sink,        \* ids whose entities the exporter holds durably
  processed,   \* the state manager's processed ids
  failures,    \* failures[r]: the state manager's counted attempts
  saved,       \* the state manager's metadata: cursor and truncated
  \* The environment.
  faults,      \* disturbances so far
  stop,        \* the ShutdownSignal is triggered
  \* The run.
  phase,       \* where the run's coroutine is
  outcome,     \* how the current or last run ends
  known,       \* processed_ids, the run's copy of the processed ids
  quarantined, \* _Quarantine: the ids this run skips
  meta,        \* metadata, the run's copy
  cursor,      \* position.cursor, as an offset; None is 0
  settled,     \* position._settled: every page of the run has settled
  restarted,   \* a stale cursor already restarted this run
  total,       \* total_processed
  stalled,     \* stalled_pages
  held,        \* held_failures, by position
  \* The page.
  page,        \* the ListingPage: entries, whether it is the last, truncated
  task,        \* task[i]: the task of the entry at position i, or its outcome
  budget,      \* _PageBudget._remaining
  flushFault,  \* the page's flush raised
  commits,     \* failures still to be committed: held ones, then the page's
  more,        \* the listing goes on after this page
  \* The exporter's memory.
  buffer       \* ids written and not flushed

durable == <<published, sink, processed, failures, saved>>
environment == <<faults, stop>>
listingVars == <<meta, cursor, settled, restarted, more>>
tally == <<total, stalled, held, commits>>
pageVars == <<page, task, budget, flushFault>>
loaded == <<known, quarantined>>
vars == <<durable, environment, phase, outcome, loaded, listingVars, tally, pageVars, buffer>>

-----------------------------------------------------------------------------
(* Types.                                                                  *)

Phases == {"idle", "opening", "loading", "top", "fetching", "restartSaving",
           "page", "flushing", "marking", "settling", "committing", "saving",
           "closing", "exporterClosing", "stateFlushing"}
Outcomes == {"none", "completed", "interrupted", "aborted", "failed", "cancelled", "crashed"}

InFlight == {"judging", "exporting", "markingIrrelevant", "markingWritten"}
Ended == {"processed", "irrelevant", "deferred", "written", "failed"}
TaskStates == {"off", "queued"} \union InFlight \union Ended

Metadata == [cursor: Nat, truncated: BOOLEAN]
Pages == [entries: Nat, last: BOOLEAN, truncated: BOOLEAN]

ValuesTyped ==
  /\ published \in 0..Len(Listing)
  /\ sink \subseteq Records
  /\ processed \subseteq Records
  /\ failures \in [Records -> Nat]
  /\ saved \in Metadata
  /\ faults \in 0..MaxFaults
  /\ phase \in Phases
  /\ outcome \in Outcomes
  /\ known \subseteq Records
  /\ quarantined \subseteq Records
  /\ meta \in Metadata
  /\ cursor \in Nat
  /\ total \in Nat
  /\ stalled \in Nat
  /\ held \subseteq Positions
  /\ page \in Pages
  /\ task \in [Positions -> TaskStates]
  /\ budget \in Int
  /\ commits \in [old: SUBSET Positions, new: SUBSET Positions]
  /\ buffer \subseteq Records

FlagsTyped ==
  /\ stop \in BOOLEAN
  /\ settled \in BOOLEAN
  /\ restarted \in BOOLEAN
  /\ flushFault \in BOOLEAN
  /\ more \in BOOLEAN

TypeOK == ValuesTyped /\ FlagsTyped

-----------------------------------------------------------------------------
(* Helpers.                                                                *)

Smaller(a, b) == IF a < b THEN a ELSE b

In(state) == {i \in Positions : task[i] = state}
InStates(states) == {i \in Positions : task[i] \in states}

\* i is the first of the positions in S.
First(i, S) == i \in S /\ \A j \in S : i <= j

NoPage == [entries |-> 0, last |-> FALSE, truncated |-> FALSE]
NoTask == [i \in Positions |-> "off"]
NoCommits == [old |-> {}, new |-> {}]

\* What a page fetched at offset c may say.  A source that knows its total
\* ends the listing on its last page; one that does not ends it on an empty
\* page.
PagesAt(c) ==
  LET reach == Smaller(published, Cap)
      n == IF c < reach THEN Smaller(PageSize, reach - c) ELSE 0
  IN  IF c >= Cap
      THEN {[entries |-> 0, last |-> TRUE, truncated |-> TRUE]}
      ELSE {p \in [entries: {n}, last: BOOLEAN, truncated: BOOLEAN] :
              /\ n = 0 => p.last
              /\ c + n < published => p.last = (c + n >= Cap)
              /\ p.truncated <=> c + n < published /\ c + n >= Cap}

PageEntries == (cursor + 1)..(cursor + page.entries)

\* Mutant: an empty page does not end the listing.
EndsOnEntriesOnly == page.truncated \/ (page.last /\ page.entries > 0)

\* listing_ends(page)
ListingEnds == page.truncated \/ page.last \/ page.entries = 0

\* Quarantined when a run loads the failure counts.
Exhausted(r) == MaxAttempts > 0 /\ failures[r] >= MaxAttempts

\* An entry the pipeline needs no further run for.
SettledEntry(i) ==
  \/ Listing[i] = Blank
  \/ Listing[i] \in processed
  \/ Exhausted(Listing[i])

\* _PageResult
PageProcessed == Cardinality(In("processed"))
PageFailed == In("failed")
\* Mutant: deferred records do not keep a page open.
CompleteDespiteDeferred == InStates({"failed", "written"}) = {}

PageComplete == InStates({"failed", "deferred", "written"}) = {}
PageStalled == flushFault \/ (PageFailed # {} /\ PageProcessed = 0)

\* A disturbance is spent.
Disturb == faults < MaxFaults /\ faults' = faults + 1

\* mark_processed: the id is appended and its failure count dropped.
Mark(ids) ==
  /\ processed' = processed \union ids
  /\ failures' = [r \in Records |-> IF r \in ids THEN 0 ELSE failures[r]]

\* Exporter.write for some ids.
Write(ids) ==
  IF DurableWrites
  THEN sink' = sink \union ids /\ UNCHANGED buffer
  ELSE buffer' = buffer \union ids /\ UNCHANGED sink

-----------------------------------------------------------------------------
(* The state of the run outside any run.                                   *)

FreshListing == /\ meta' = [cursor |-> 0, truncated |-> FALSE]
                /\ cursor' = 0
                /\ settled' = TRUE
                /\ restarted' = FALSE
                /\ more' = TRUE
FreshTally == /\ total' = 0
              /\ stalled' = 0
              /\ held' = {}
              /\ commits' = NoCommits
FreshPage == /\ page' = NoPage
             /\ task' = NoTask
             /\ budget' = 0
             /\ flushFault' = FALSE

\* The run's objects are gone: its locals, and what the exporter held in memory.
Forget ==
  /\ phase' = "idle"
  /\ known' = {} /\ quarantined' = {}
  /\ FreshListing /\ FreshTally /\ FreshPage
  /\ buffer' = {}
  /\ stop' = FALSE

Init ==
  /\ published = 0
  /\ sink = {} /\ processed = {}
  /\ failures = [r \in Records |-> 0]
  /\ saved = [cursor |-> 0, truncated |-> FALSE]
  /\ faults = 0 /\ stop = FALSE
  /\ phase = "idle" /\ outcome = "none"
  /\ known = {} /\ quarantined = {}
  /\ meta = [cursor |-> 0, truncated |-> FALSE]
  /\ cursor = 0 /\ settled = TRUE /\ restarted = FALSE /\ more = TRUE
  /\ total = 0 /\ stalled = 0 /\ held = {} /\ commits = NoCommits
  /\ page = NoPage /\ task = NoTask /\ budget = 0 /\ flushFault = FALSE
  /\ buffer = {}

-----------------------------------------------------------------------------
(* Starting a run.                                                         *)

StartRun ==
  /\ phase = "idle"
  /\ phase' = "opening"
  /\ outcome' = "none"
  /\ UNCHANGED <<durable, environment, loaded, listingVars, tally, pageVars, buffer>>

OpenExporter ==
  /\ phase = "opening"
  /\ phase' = "loading"
  /\ UNCHANGED <<durable, environment, outcome, loaded, listingVars, tally, pageVars, buffer>>

\* The exporter is not closed after a failed open; state is flushed.
OpenFails ==
  /\ phase = "opening" /\ Disturb
  /\ \E o \in {"aborted", "cancelled"} : outcome' = o
  /\ phase' = "stateFlushing"
  /\ UNCHANGED <<durable, stop, loaded, listingVars, tally, pageVars, buffer>>

LoadState ==
  /\ phase = "loading"
  /\ known' = processed
  /\ quarantined' = {r \in Records : Exhausted(r)}
  /\ meta' = saved
  /\ cursor' = saved.cursor
  /\ phase' = "top"
  /\ UNCHANGED <<durable, environment, outcome, settled, restarted, more, tally, pageVars, buffer>>

\* An exception leaves _run_pages; run() closes the exporter and flushes state.
Break(o) == phase' = "closing" /\ outcome' = o

LoadFails ==
  /\ phase = "loading" /\ Disturb
  /\ \E o \in {"failed", "cancelled"} : Break(o)
  /\ UNCHANGED <<durable, stop, loaded, listingVars, tally, pageVars, buffer>>

-----------------------------------------------------------------------------
(* The page loop: its guard, the listing request.                          *)

LimitReached ==
  /\ phase = "top" /\ total >= TotalLimit
  /\ Break("completed")
  /\ UNCHANGED <<durable, environment, loaded, listingVars, tally, pageVars, buffer>>

\* A shutdown request is seen before a listing request, or cuts it or the
\* wait before it short.
InterruptRun ==
  /\ phase \in {"top", "fetching"} /\ stop
  /\ phase = "top" => total < TotalLimit
  /\ Break("interrupted")
  /\ UNCHANGED <<durable, environment, loaded, listingVars, tally, pageVars, buffer>>

BeginFetch ==
  /\ phase = "top" /\ total < TotalLimit /\ ~stop
  /\ phase' = "fetching"
  /\ UNCHANGED <<durable, environment, outcome, loaded, listingVars, tally, pageVars, buffer>>

\* Mutant: the page's processed ids are not left out.
UnprocessedOrNot(i) == Listing[i] \notin quarantined /\ Listing[i] # Blank

\* _unprocessed, and the blank ids _process_page leaves out.
Unprocessed(i) ==
  /\ Listing[i] \notin known
  /\ Listing[i] \notin quarantined
  /\ Listing[i] # Blank

\* The page arrives, even if a shutdown request arrives with it, and its
\* unprocessed records become tasks.
FetchPage ==
  /\ phase = "fetching"
  /\ page' \in PagesAt(cursor)
  /\ task' = [i \in Positions |->
                IF i \in (cursor + 1)..(cursor + page'.entries) /\ Unprocessed(i)
                THEN "queued" ELSE "off"]
  /\ budget' = TotalLimit - total
  /\ flushFault' = FALSE
  /\ phase' = IF page'.entries = 0 THEN "settling" ELSE "page"
  /\ UNCHANGED <<durable, environment, outcome, loaded, listingVars, tally, buffer>>

\* The run is cancelled in the wait between two pages.
CancelWait ==
  /\ phase = "top" /\ total < TotalLimit /\ Disturb
  /\ Break("cancelled")
  /\ UNCHANGED <<durable, stop, loaded, listingVars, tally, pageVars, buffer>>

FetchFails ==
  /\ phase = "fetching" /\ Disturb
  /\ \E o \in {"aborted", "cancelled"} : Break(o)
  /\ UNCHANGED <<durable, stop, loaded, listingVars, tally, pageVars, buffer>>

\* position.restart(), the first time.
FetchStale ==
  /\ phase = "fetching" /\ cursor # 0 /\ ~restarted /\ Disturb
  /\ restarted' = TRUE
  /\ settled' = TRUE
  /\ cursor' = 0
  /\ meta' = [meta EXCEPT !.cursor = 0]
  /\ phase' = "restartSaving"
  /\ UNCHANGED <<durable, stop, outcome, loaded, more, tally, pageVars, buffer>>

StaleAgain ==
  /\ phase = "fetching" /\ cursor # 0 /\ restarted /\ Disturb
  /\ Break("aborted")
  /\ UNCHANGED <<durable, stop, loaded, listingVars, tally, pageVars, buffer>>

SaveRestart ==
  /\ phase = "restartSaving"
  /\ saved' = meta
  /\ phase' = "top"
  /\ UNCHANGED <<published, sink, processed, failures, environment, outcome, loaded,
                 listingVars, tally, pageVars, buffer>>

-----------------------------------------------------------------------------
(* The tasks of a page: _process_record and _settle_record.                *)

Become(i, state) == task' = [task EXCEPT ![i] = state]

\* gather starts the tasks in listing order and the semaphore is FIFO.  A task
\* that gets a permit defers its record if no slot or no time is left.
StartRecord(i) ==
  /\ phase = "page" /\ First(i, In("queued"))
  /\ Cardinality(InStates(InFlight)) < MaxConcurrency
  /\ Become(i, IF budget <= 0 \/ stop THEN "deferred" ELSE "judging")
  /\ UNCHANGED <<durable, environment, phase, outcome, loaded, listingVars, tally,
                 page, budget, flushFault, buffer>>

JudgeIrrelevant(i) ==
  /\ phase = "page" /\ task[i] = "judging" /\ Listing[i] \in Irrelevant
  /\ Become(i, "markingIrrelevant")
  /\ UNCHANGED <<durable, environment, phase, outcome, loaded, listingVars, tally,
                 page, budget, flushFault, buffer>>

\* Mutant: the slot found free before the relevance call is taken unchecked.
TakeSlotUnchecked(i) ==
  /\ phase = "page" /\ task[i] = "judging" /\ Listing[i] \notin Irrelevant
  /\ Become(i, "exporting") /\ budget' = budget - 1
  /\ UNCHANGED <<durable, environment, phase, outcome, loaded, listingVars, tally,
                 page, flushFault, buffer>>

\* The answer came after an await, so the slot is asked for again.
JudgeRelevant(i) ==
  /\ phase = "page" /\ task[i] = "judging" /\ Listing[i] \notin Irrelevant
  /\ IF budget <= 0
     THEN Become(i, "deferred") /\ UNCHANGED budget
     ELSE Become(i, "exporting") /\ budget' = budget - 1
  /\ UNCHANGED <<durable, environment, phase, outcome, loaded, listingVars, tally,
                 page, flushFault, buffer>>

JudgeFails(i) ==
  /\ phase = "page" /\ task[i] = "judging" /\ Disturb
  /\ Become(i, "failed")
  /\ UNCHANGED <<durable, stop, phase, outcome, loaded, listingVars, tally,
                 page, budget, flushFault, buffer>>

\* Full text, memory, extraction and write: no state is read in between.
ExportRecord(i) ==
  /\ phase = "page" /\ task[i] = "exporting"
  /\ Write({Listing[i]})
  /\ Become(i, IF DurableWrites THEN "markingWritten" ELSE "written")
  /\ UNCHANGED <<published, processed, failures, saved, environment, phase, outcome, loaded,
                 listingVars, tally, page, budget, flushFault>>

\* Any of these raised, the write perhaps after it took effect; the slot is released.
ExportFails(i) ==
  /\ phase = "page" /\ task[i] = "exporting" /\ Disturb
  /\ \E landed \in SUBSET {Listing[i]} : Write(landed)
  /\ Become(i, "failed")
  /\ budget' = budget + 1
  /\ UNCHANGED <<published, processed, failures, saved, stop, phase, outcome, loaded,
                 listingVars, tally, page, flushFault>>

\* _mark_done, for a record judged irrelevant or written durably.
MarkRecord(i) ==
  /\ phase = "page" /\ task[i] \in {"markingIrrelevant", "markingWritten"}
  /\ Mark({Listing[i]})
  /\ known' = known \union {Listing[i]}
  /\ Become(i, IF task[i] = "markingWritten" THEN "processed" ELSE "irrelevant")
  /\ UNCHANGED <<published, sink, saved, environment, phase, outcome, quarantined,
                 listingVars, tally, page, budget, flushFault, buffer>>

\* mark_processed raised; the run does not know the id even if it was appended.
MarkFails(i) ==
  /\ phase = "page" /\ task[i] \in {"markingIrrelevant", "markingWritten"} /\ Disturb
  /\ \E landed \in SUBSET {Listing[i]} : Mark(landed)
  /\ Become(i, "failed")
  /\ budget' = IF task[i] = "markingWritten" THEN budget + 1 ELSE budget
  /\ UNCHANGED <<published, sink, saved, stop, phase, outcome, loaded,
                 listingVars, tally, page, flushFault, buffer>>

\* gather returns when every task has ended.
GatherPage ==
  /\ phase = "page" /\ InStates({"queued"} \union InFlight) = {}
  /\ phase' = "flushing"
  /\ UNCHANGED <<durable, environment, outcome, loaded, listingVars, tally, pageVars, buffer>>

\* The run is cancelled while tasks are in flight: gather cancels them all and
\* each may have got its call through.
CancelPage ==
  /\ phase = "page" /\ Disturb
  /\ \E writes \in SUBSET {Listing[i] : i \in In("exporting")} : Write(writes)
  /\ \E marks \in SUBSET {Listing[i] : i \in InStates({"markingIrrelevant", "markingWritten"})} :
        Mark(marks)
  /\ Break("cancelled")
  /\ UNCHANGED <<published, saved, stop, loaded, listingVars, tally, pageVars>>

-----------------------------------------------------------------------------
(* The end of a page: _flush_page, the failures, the position.             *)

\* The written records are durable once flush returns.
FlushPage ==
  /\ phase = "flushing"
  /\ sink' = sink \union buffer
  /\ buffer' = {}
  /\ phase' = "marking"
  /\ UNCHANGED <<published, processed, failures, saved, environment, outcome, loaded,
                 listingVars, tally, pageVars>>

\* The run is cancelled in the flush, which may have got some records through.
CancelFlush ==
  /\ phase = "flushing" /\ Disturb
  /\ \E landed \in SUBSET buffer : sink' = sink \union landed
  /\ Break("cancelled")
  /\ UNCHANGED <<published, processed, failures, saved, stop, loaded, listingVars, tally,
                 pageVars, buffer>>

\* Mutant: after a failed flush the written records are marked all the same.
MarkAfterFlushFailed ==
  /\ phase = "flushing" /\ Disturb
  /\ \E landed \in SUBSET buffer : sink' = sink \union landed
  /\ flushFault' = TRUE
  /\ phase' = "marking"
  /\ UNCHANGED <<published, processed, failures, saved, stop, outcome, loaded, listingVars,
                 tally, page, task, budget, buffer>>

\* flush raised, perhaps part-way; the written records stay unflushed.
FlushFails ==
  /\ phase = "flushing" /\ Disturb
  /\ \E landed \in SUBSET buffer : sink' = sink \union landed
  /\ flushFault' = TRUE
  /\ phase' = "settling"
  /\ UNCHANGED <<published, processed, failures, saved, stop, outcome, loaded, listingVars,
                 tally, page, task, budget, buffer>>

\* The flushed records are marked one after the other.
MarkWritten(i) ==
  /\ phase = "marking" /\ First(i, In("written"))
  /\ Mark({Listing[i]})
  /\ known' = known \union {Listing[i]}
  /\ Become(i, "processed")
  /\ UNCHANGED <<published, sink, saved, environment, phase, outcome, quarantined,
                 listingVars, tally, page, budget, flushFault, buffer>>

\* A fault here is no record's failure: it ends the run.
MarkWrittenBreaks(i) ==
  /\ phase = "marking" /\ First(i, In("written")) /\ Disturb
  /\ \E landed \in SUBSET {Listing[i]} : Mark(landed)
  /\ \E o \in {"failed", "cancelled"} : Break(o)
  /\ UNCHANGED <<published, sink, saved, stop, loaded, listingVars, tally, pageVars, buffer>>

PageMarked ==
  /\ phase = "marking" /\ In("written") = {}
  /\ phase' = "settling"
  /\ UNCHANGED <<durable, environment, outcome, loaded, listingVars, tally, pageVars, buffer>>

\* Mutant: every page's failures are counted.
CommitEveryFailure ==
  /\ phase = "settling"
  /\ total' = total + PageProcessed
  /\ stalled' = IF PageProcessed > 0 /\ ~flushFault THEN 0 ELSE stalled
  /\ commits' = IF MaxAttempts > 0 THEN [old |-> held, new |-> PageFailed] ELSE NoCommits
  /\ held' = {}
  /\ phase' = "committing"
  /\ UNCHANGED <<durable, environment, outcome, loaded, listingVars, pageVars, buffer>>

\* The page is counted; failures are committed once a page processed a record.
SettlePage ==
  /\ phase = "settling"
  /\ total' = total + PageProcessed
  /\ stalled' = IF PageProcessed > 0 /\ ~flushFault THEN 0 ELSE stalled
  /\ commits' = IF PageProcessed > 0 /\ MaxAttempts > 0
                THEN [old |-> held, new |-> PageFailed]
                ELSE NoCommits
  /\ held' = IF PageProcessed > 0 THEN {} ELSE held
  /\ phase' = "committing"
  /\ UNCHANGED <<durable, environment, outcome, loaded, listingVars, pageVars, buffer>>

\* The failure record_failure is called for next: held ones come first.
NextCommit(i) == First(i, IF commits.old # {} THEN commits.old ELSE commits.new)

CountFailure(i) == failures' = [failures EXCEPT ![Listing[i]] = @ + 1]

CommitFailure(i) ==
  /\ phase = "committing" /\ NextCommit(i)
  /\ CountFailure(i)
  /\ commits' = IF commits.old # {}
                THEN [commits EXCEPT !.old = @ \ {i}]
                ELSE [commits EXCEPT !.new = @ \ {i}]
  /\ UNCHANGED <<published, sink, processed, saved, environment, phase, outcome, loaded,
                 listingVars, total, stalled, held, pageVars, buffer>>

CommitBreaks(i) ==
  /\ phase = "committing" /\ NextCommit(i) /\ Disturb
  /\ CountFailure(i) \/ UNCHANGED failures
  /\ \E o \in {"failed", "cancelled"} : Break(o)
  /\ UNCHANGED <<published, sink, processed, saved, stop, loaded, listingVars, tally,
                 pageVars, buffer>>

\* How many stalled pages stand uncleared after this one.
StalledNow == IF PageStalled THEN stalled + 1 ELSE stalled

\* Mutant: a stalled page that the end of the listing leaves uncleared passes.
AbortOnTwoStallsOnly == PageStalled /\ StalledNow >= 2

\* Two stalled pages, or one that the end of the listing leaves uncleared.
MustAbort ==
  \/ PageStalled /\ StalledNow >= 2
  \/ ListingEnds /\ StalledNow > 0

Counted == phase = "committing" /\ commits = NoCommits

HoldFailures ==
  /\ stalled' = StalledNow
  /\ held' = IF PageStalled /\ PageProcessed = 0 THEN held \union PageFailed ELSE held
  /\ UNCHANGED <<total, commits>>

AbortStalled ==
  /\ Counted /\ MustAbort
  /\ HoldFailures
  /\ Break("aborted")
  /\ UNCHANGED <<durable, environment, loaded, listingVars, pageVars, buffer>>

\* Mutant: the next run starts where the source stopped.
TruncateKeepingCursor ==
  /\ Counted /\ ~MustAbort /\ page.truncated
  /\ HoldFailures
  /\ meta' = [cursor |-> cursor + page.entries, truncated |-> TRUE]
  /\ more' = FALSE
  /\ phase' = "saving"
  /\ UNCHANGED <<durable, environment, outcome, loaded, cursor, settled, restarted,
                 pageVars, buffer>>

\* position.truncate()
TruncateListing ==
  /\ Counted /\ ~MustAbort /\ page.truncated
  /\ HoldFailures
  /\ meta' = [cursor |-> 0, truncated |-> TRUE]
  /\ more' = FALSE
  /\ phase' = "saving"
  /\ UNCHANGED <<durable, environment, outcome, loaded, cursor, settled, restarted,
                 pageVars, buffer>>

\* Mutant: the offset after the page, computed with the wrong sign.
EndCursorBackwards == IF OffsetPaging THEN cursor - page.entries ELSE 0

\* position._end_cursor(page)
EndCursor == IF OffsetPaging THEN cursor + page.entries ELSE 0

\* position.advance(page, complete) at the end of the listing
EndListing ==
  /\ Counted /\ ~MustAbort /\ ~page.truncated /\ ListingEnds
  /\ HoldFailures
  /\ settled' = (settled /\ PageComplete)
  /\ meta' = [cursor |-> IF settled' THEN EndCursor ELSE meta.cursor, truncated |-> FALSE]
  /\ more' = FALSE
  /\ phase' = "saving"
  /\ UNCHANGED <<durable, environment, outcome, loaded, cursor, restarted, pageVars, buffer>>

\* position.advance(page, complete) before it
NextPage ==
  /\ Counted /\ ~MustAbort /\ ~ListingEnds
  /\ HoldFailures
  /\ settled' = (settled /\ PageComplete)
  /\ cursor' = cursor + page.entries
  /\ meta' = IF settled' THEN [meta EXCEPT !.cursor = cursor'] ELSE meta
  /\ more' = TRUE
  /\ phase' = "saving"
  /\ UNCHANGED <<durable, environment, outcome, loaded, restarted, pageVars, buffer>>

\* save_metadata; the wait between pages, before "top", reads and changes nothing.
SavePage ==
  /\ phase = "saving"
  /\ saved' = meta
  /\ IF more THEN phase' = "top" /\ UNCHANGED outcome ELSE Break("completed")
  /\ FreshPage
  /\ UNCHANGED <<published, sink, processed, failures, environment, loaded, listingVars,
                 tally, buffer>>

SaveBreaks ==
  /\ phase \in {"saving", "restartSaving"} /\ Disturb
  /\ saved' \in {saved, meta}
  /\ \E o \in {"failed", "cancelled"} : Break(o)
  /\ UNCHANGED <<published, sink, processed, failures, stop, loaded, listingVars, tally,
                 pageVars, buffer>>

-----------------------------------------------------------------------------
(* Ending a run: _close_exporter and the state manager's flush.            *)

\* A fault of the end turns a completed run into a failed one.
EndFault == outcome' = IF outcome = "completed" THEN "failed" ELSE outcome

FlushAtEnd ==
  /\ phase = "closing"
  /\ sink' = sink \union buffer
  /\ buffer' = {}
  /\ phase' = "exporterClosing"
  /\ UNCHANGED <<published, processed, failures, saved, environment, outcome, loaded,
                 listingVars, tally, pageVars>>

\* The exporter is closed even when its flush raised.
FlushAtEndFails ==
  /\ phase = "closing" /\ Disturb
  /\ \E landed \in SUBSET buffer : sink' = sink \union landed
  /\ phase' = "exporterClosing"
  /\ EndFault
  /\ UNCHANGED <<published, processed, failures, saved, stop, loaded, listingVars,
                 tally, pageVars, buffer>>

\* aclose may still write what a failed flush left behind.
CloseExporter ==
  /\ phase = "exporterClosing"
  /\ \E landed \in SUBSET buffer : sink' = sink \union landed
  /\ buffer' = {}
  /\ phase' = "stateFlushing"
  /\ \/ UNCHANGED <<faults, outcome>>
     \/ Disturb /\ EndFault
  /\ UNCHANGED <<published, processed, failures, saved, stop, loaded, listingVars,
                 tally, pageVars>>

FlushState ==
  /\ phase = "stateFlushing"
  /\ Forget
  /\ \/ UNCHANGED <<faults, outcome>>
     \/ Disturb /\ EndFault
  /\ UNCHANGED durable

-----------------------------------------------------------------------------
(* The environment.                                                        *)

\* An entry is appended to the listing.
Publish ==
  /\ published < Len(Listing)
  /\ published' = published + 1
  /\ UNCHANGED <<sink, processed, failures, saved, environment, phase, outcome, loaded,
                 listingVars, tally, pageVars, buffer>>

RequestStop ==
  /\ phase # "idle" /\ ~stop /\ Disturb
  /\ stop' = TRUE
  /\ UNCHANGED <<durable, phase, outcome, loaded, listingVars, tally, pageVars, buffer>>

\* The process dies; only what is durable is left.
Crash ==
  /\ phase # "idle" /\ Disturb
  /\ Forget
  /\ outcome' = "crashed"
  /\ UNCHANGED durable

-----------------------------------------------------------------------------
TaskStep(i) ==
  \/ StartRecord(i)
  \/ JudgeIrrelevant(i)
  \/ JudgeRelevant(i)
  \/ ExportRecord(i)
  \/ MarkRecord(i)
  \/ MarkWritten(i)
  \/ CommitFailure(i)

RunStep ==
  \/ OpenExporter \/ LoadState
  \/ LimitReached \/ InterruptRun \/ BeginFetch \/ FetchPage \/ SaveRestart
  \/ \E i \in Positions : TaskStep(i)
  \/ GatherPage \/ FlushPage \/ PageMarked \/ SettlePage
  \/ AbortStalled \/ TruncateListing \/ EndListing \/ NextPage \/ SavePage
  \/ FlushAtEnd \/ CloseExporter \/ FlushState

TaskFault(i) ==
  \/ JudgeFails(i)
  \/ ExportFails(i)
  \/ MarkFails(i)
  \/ MarkWrittenBreaks(i)
  \/ CommitBreaks(i)

Disturbance ==
  \/ OpenFails \/ LoadFails \/ FetchFails \/ CancelWait \/ FetchStale \/ StaleAgain
  \/ \E i \in Positions : TaskFault(i)
  \/ CancelPage \/ CancelFlush \/ FlushFails \/ SaveBreaks \/ FlushAtEndFails
  \/ RequestStop \/ Crash

Next == StartRun \/ RunStep \/ Disturbance \/ Publish

Spec == Init /\ [][Next]_vars

\* The event loop runs what is ready, awaited calls return, and the operator
\* keeps scheduling runs.
FairSpec == Spec /\ WF_vars(RunStep) /\ WF_vars(StartRun)

-----------------------------------------------------------------------------
(* Properties.                                                             *)

\* A processed record is irrelevant or its entities are durable, across every
\* fault, cancellation and crash: R20, "A crash between write and flush
\* repeats the record on the next run and loses none".
MarkedIsDurable == processed \subseteq Irrelevant \union sink

\* The next run starts before every record that still needs one: R1, "the
\* saved cursor never moves forward past a page with an unsettled record".
CursorBehindUnsettled == \A i \in 1..saved.cursor : SettledEntry(i)

\* The positions that hold a slot of the page's budget, or have used one.
Slots == InStates({"exporting", "markingWritten", "written", "processed"})

\* total_limit is exact (R2): the records processed so far, and those that
\* hold a slot, never exceed it, whatever order tasks fail and finish in.
LimitExact ==
  /\ total <= TotalLimit
  /\ phase \in {"page", "flushing", "marking"} => total + Cardinality(Slots) <= TotalLimit

\* R6 and R5: a run reports completion only if no stalled page stands
\* uncleared, unless it stopped at its limit.
CompletedIsHealthy ==
  outcome = "completed" /\ phase = "closing" => stalled = 0 \/ total >= TotalLimit

\* R18: an outage that fails every record never counts against one: an
\* attempt is counted only in a run that has processed a record.
OutageCountsNothing ==
  [][(\E r \in Records : failures'[r] > failures[r]) => total > 0]_vars

\* Another entry of the page has the id of the entry at position i.
ListedTwice(i) == \E j \in PageEntries \ {i} : Listing[j] = Listing[i]

\* A run never exports a record the state manager already had as processed
\* when the run started or that the run itself marked, unless its page lists
\* the id twice: a page is filtered once, before any of its tasks has marked.
NeverReprocessed ==
  [][\A i \in Positions :
       task[i] = "judging" /\ task'[i] = "exporting" =>
         Listing[i] \notin known \/ ListedTwice(i)]_vars

\* Every run ends, however it is disturbed.
EveryRunEnds == phase # "idle" ~> phase = "idle"

\* Once disturbances stop, the runs settle every entry the source serves.
EverythingSettles ==
  \A i \in Positions : i <= published /\ i <= Cap ~> SettledEntry(i)

-----------------------------------------------------------------------------
(* Why the two invariants about what is saved hold: parts that every step  *)
(* preserves.                                                              *)

\* A task that marks, or has marked, has a settled record behind it; what is
\* written is at least in the exporter's buffer until the page is flushed.
TasksSound ==
  \A i \in Positions :
    /\ task[i] = "markingIrrelevant" => Listing[i] \in Irrelevant
    /\ task[i] = "markingWritten" => Listing[i] \in sink
    /\ task[i] \in {"processed", "irrelevant"} => Listing[i] \in processed
    /\ task[i] = "written" /\ phase \in {"page", "flushing"} => Listing[i] \in sink \union buffer
    /\ task[i] = "written" /\ phase = "marking" => Listing[i] \in sink

\* What the run skips is settled.
SkipsSound == known \subseteq processed /\ \A r \in quarantined : r \in processed \/ Exhausted(r)

\* Entries 1..n are served and settled.
Behind(n) == n <= published /\ \A i \in 1..n : SettledEntry(i)

\* Both copies of the saved cursor, and the position of a run whose pages
\* have all settled, have only settled entries behind them.
CursorsSound ==
  /\ Behind(saved.cursor)
  /\ Behind(meta.cursor)
  /\ cursor <= published
  /\ settled => Behind(cursor)

PagePhases == {"page", "flushing", "marking", "settling", "committing"}

\* A page's entry that has no task is settled, and every task has ended when
\* the page is flushed.
PageSound ==
  /\ phase \in PagePhases =>
       /\ cursor + page.entries <= published
       /\ \A i \in PageEntries : task[i] = "off" => SettledEntry(i)
  /\ phase \in PagePhases \ {"page"} =>
       \A i \in Positions : task[i] \in {"off"} \union Ended

SavedInv ==
  /\ TypeOK /\ MarkedIsDurable
  /\ TasksSound /\ SkipsSound /\ CursorsSound /\ PageSound

\* The parts of a second inductive invariant, of one run's tallies.

\* The slots that are free and those that are taken add up to what the limit
\* leaves, from the page's arrival until it is counted.
SlotsAddUp ==
  /\ total <= TotalLimit
  /\ phase \in {"page", "flushing", "marking", "settling"} =>
       budget >= 0 /\ budget + Cardinality(Slots) = TotalLimit - total

\* Failures are committed only by a run that has processed a record.
CommitsEarned == commits # NoCommits => total > 0

\* A listing is left behind only with no stalled page uncleared.
StallsCleared ==
  /\ phase = "saving" /\ ~more => stalled = 0
  /\ CompletedIsHealthy

\* Tasks are those of the page's entries, and one that has not passed the
\* relevance filter yet is not of a record the run knows, or has a namesake.
TasksFiltered ==
  phase = "page" =>
    \A i \in Positions :
      /\ task[i] # "off" => i \in PageEntries
      /\ task[i] \in {"queued", "judging"} => Listing[i] \notin known \/ ListedTwice(i)

TallyInv == TypeOK /\ SlotsAddUp /\ CommitsEarned /\ StallsCleared /\ TasksFiltered

\* The runs keep the ledger: RunLedger's at-least-once delivery and cursor.
Ledger == INSTANCE RunLedger WITH
  delivered <- sink,
  givenUp <- {r \in Records : Exhausted(r)},
  cursor <- saved.cursor

KeepsLedger == Ledger!LedgerSpec
=============================================================================
