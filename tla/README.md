# Formal models of sci-etl-core

sci-etl-core takes the records a scientific source lists through a relevance
filter, full text, memory, entity extraction and export, and remembers what it
has processed so that the next run goes on where this one stopped. This
directory holds TLA+ models of the parts whose correctness depends on ordering,
failure and concurrency, the TLC configurations that check them on small
instances, and TLAPS proofs of the main safety properties for every instance.

Paths below are relative to `src/sci_etl_core/` unless they start with `docs/`.
`PROJECT.json` maps every definition to the lines it stands for, names for
every property a mutant of the code that breaks it, and lists every hazard.

## Running

    tlc -workers 2 -config PipelineBuffered.cfg MCPipeline
    tlc -workers 2 -config MCServices.cfg MCServices
    for m in *_proof.tla; do tlapm $m; done

The module of each configuration is in the table under "Runs". Every module
parses on its own; `*_proof.tla` modules hold lemmas, theorems, proofs and the
definitions only they use. The longest are `MCStores_proof` and `Services_proof`, some
ten minutes each, and `Search_proof`, some twenty.

## The system

| part | state | operations | works with |
| --- | --- | --- | --- |
| run pipeline, `pipeline_async.py` | processed ids, quarantine, page budget, stalled pages, held failures, metadata | `run`: open, load, page loop, close, flush | everything below |
| listing position, `_listing_position.py`, `_listing_head.py` | cursor, settled flag; head ids, backlog offset and tail, mode | `advance`, `truncate`, `restart` | called by the run after each page; its metadata is what is saved |
| state managers, `state/` | processed ids, failed attempts, metadata, on disk | `mark_processed`, `record_failure`, `forget`, load, save | called by tasks of the run; threads and other processes underneath |
| exporters, `exporters/` | pending lines; file, journal and table on disk | `open`, `write`, `flush`, `aclose` | called by tasks, flushed once per page |
| shared sqlite connection, `_sqlite_async.py` | connection, lazily created `asyncio.Lock` | `run`, `aclose` | every sqlite store and state manager, from many tasks, on worker threads |
| shutdown, `signals.py` | event, guard depth, replaced handlers | `guard`, `install`, `uninstall`, `request` | set by the operating system, read between awaits of the run |
| extractors, `extractors/` | none | `list_page`, `fetch_full_text` | retry through `_http.py`, slots from `rate_limiter.py` |
| LLM, `llm/` | response cache | `complete`, `invalidate` | judge and extract; cached client wraps the real one |
| sync facade, `pipeline.py`, `_sync_bridge.py` | one loop on one thread | `run_sync`, `shutdown` | blocks the calling thread on the async pipeline |
| memories, `embeddings/`, `search/`, `claims/`, `ingest_async.py` | sqlite or in-memory stores, a vector snapshot, a change feed | ingest, search, backfill, `changes_since` | written by the run, whose memory faults are absorbed |
| parsers, processors, config, observability, testing kit | none, or local | pure functions | |

What is hard about it:

* *One run is one coroutine that fans out.* Records of a page are tasks under a
  semaphore. Each checks the limit before the relevance call is awaited and
  takes its slot after it; failed tasks give slots back; `processed_ids` and the
  budget are shared. Any fault, cancellation, shutdown or crash may fall between
  any two awaits, and a call that fails may have taken effect.
* *Durability is in two steps.* A buffering exporter holds what was written
  until the page's flush; only then are records marked. Exporters retry after
  failed appends and recover files a crash left torn.
* *What is saved must not skip.* The cursor is held behind the first page that
  did not settle, moves back after a stale cursor, and in newest-first runs is
  guessed from ids seen earlier in a listing that has grown since.
* *One connection, many tasks.* A cancelled call must not let the next one in
  while its thread still works.

What makes each part correct, in one line: the run repeats records but loses
none, and never exceeds its limit (R1, R2, R5, R6, R18, R20 of
`docs/guide/run-semantics.md`); the position never jumps over a record that
still needs a run, and always comes to an end; the exporters keep what a flush
returned for; the connection has one user and is closed once; state changes
are not lost to each other; the bridge and the guards leave nobody waiting and
no handler behind; caches and snapshots never answer from a state that a
finished write has replaced.

## Modules

| module | models | role |
| --- | --- | --- |
| `RunLedger` | what runs promise | abstract specification |
| `Pipeline` | `AsyncETLPipeline.run` with `CursorPosition`, its state manager, exporter and source | component, refines `RunLedger` |
| `Pipeline_proof` | | theorems: R20, R1, the refinement, a run's tallies |
| `NewestFirst` | `NewestFirstPosition`, `NewestFirstCursor` over a moving listing | component |
| `SharedConnection` | what tasks that share a connection rely on | properties |
| `SqliteRunner` | `AsyncSqliteRunner` | component |
| `FileState` | `AsyncFileStateManager` | component |
| `FileState_proof` | | theorems: calls are serialized, promises kept |
| `StateDatabase` | `AsyncSqliteStateManager` and `migrate()`, several processes | component |
| `StateDatabase_proof` | | theorems: calls are atomic, upgrades resume |
| `ExportLog` | files of lines, torn and garbled | operators both exporters use |
| `JsonlExporter`, `CsvExporter` | the two bundled exporters | components |
| `Memory` | vector store with its snapshot, composite ingest, backfill, chunking, selection | component |
| `Claims` | claim extraction, claim store and feed, rejections and review, quote location | component |
| `Memory_proof`, `Claims_proof` | | theorems: memories agree, nothing is missed |
| `Upstream` | `RetryingFetcher`, the chat and embedding clients, host limiters | component |
| `SyncBridge` | bridge loop, `run_sync`, `ShutdownSignal` | component |
| `AnswerCache` | cached chat client, relevance cascade, entity extraction | component |
| `Extractors` | the four sources: listings and full texts | component |
| `QueryLanguage` | query grammar, normal form, both compilations, evaluation, chips, snippets | pure operators |
| `Orders` | best first, equal scores by record id | operators of every ranking |
| `TextIndex` | the FTS5 store: documents, triggers, tags, facet keys | component |
| `HybridSearch` | one search over both legs, fusion | component |
| `DiscoveryGraph` | graph build and communities | component |
| `Documents` | deduplication, assembly of LaTeX files | pure operators |
| `FullTexts` | JATS bodies and dates, Word bodies | pure operators |
| `Screening` | validators, range filters | pure operators |
| `Services` | `Upstream`, `SyncBridge`, `AnswerCache`, `Extractors` | composition with every parameter a constant |
| `Services_proof` | | theorems: requests, guards, verdicts and listings |
| `Search` | `TextIndex`, `HybridSearch`, `DiscoveryGraph`, `NewestFirst` | composition with every parameter a constant |
| `Search_proof` | | theorems: answers, filters and the order of hits; the shared connection; the gap of newest-first runs |
| `MCPipeline`, `MCStores`, `MCSearch`, `MCServices` | | TLC instances; the first two compose as well |
| `MCStores_proof` | | theorems: the exporters, and each store as a part of `MCStores` |

How the components meet: `Pipeline` holds the protocol of the state managers,
exporters and sources; `FileState`, `StateDatabase`, the exporters and
`Extractors` model those from the inside. All sqlite stores call through
`SqliteRunner`, whose proved mutual exclusion is why one call of a store is one
step in `StateDatabase`, `Memory`, `Claims` and `TextIndex`. The compositions
put components that share an environment under one next-state relation; a
variable (`sink`, `part`) says which of them a behaviour is of, so that the
states of a run are the sum of its components' and not their product. `Services`
and `Search` name the constants of their four components and state their
properties; `MCServices` and `MCSearch` give the constants values and add the pure
operators, some of which are recursive and out of the provers' reach.

### Pipeline

`phase` is where the coroutine of `run()` stands; code between two awaits is one
action, and each awaited call completes or fails in one of its own. `task[i]` is
the task of the listing's `i`-th entry while its page is processed: queued on
the semaphore, judging, exporting, marking, or one of the ends `_Outcome` names
(`written` is a record that waits for the page's flush). `sink`, `processed`,
`failures` and `saved` outlive the process; everything else is gone after
`FlushState` or `Crash`, which is what `Forget` says. The exporter is its
protocol: `Write` is durable at once or goes to `buffer`; a flush makes the
buffer durable, or raises with any part of it through.

* *Order.* `StartRecord` follows the FIFO semaphore; from there tasks interleave
  freely. `JudgeRelevant` asks for the slot again, because it was only seen free
  before the relevance call. `ExportFails` and a failed mark of a written record
  give the slot back, a failed mark of an irrelevant one does not.
* *Pages.* `SettlePage`, `CommitFailure` and the five actions after it are
  `_run_pages` from the count of a page to its save: failures are committed only
  once a page processed a record, two stalled pages or one at the end of the
  listing abort, and `NextPage`, `EndListing`, `TruncateListing` are the branches
  of the position.
* *Failure.* A call that may fail does so in an action ending in `Fails` or
  `Breaks`, with its effect done or not. A second cancellation while the run is
  closing leaves what `Crash` leaves. `MaxFaults` bounds all disturbances.
* *Choices.* Relevance is a constant set; unreadable entries are `Blank`, since
  the run does the same with both. `PagesAt` gives every page the source may
  answer with: a source may or may not know that a page is its last.

### RunLedger

Four variables and three actions: records reach the sink and are settled,
a record is given up, the cursor is saved past settled entries only. Pipeline
implements it with `delivered <- sink`, `givenUp <- {r : Exhausted(r)}`,
`cursor <- saved.cursor`; no page, task or phase appears in it, so it states
what a user of the package may rely on.

### NewestFirst

The listing is a sequence of entry numbers, newest first. `position` is the
record of `NewestFirstCursor`'s attributes, and `ObservePage`, `ObserveHead`,
`ObserveProbe`, `SettleBacklog`, `FallBack`, `AdoptScan` and `Locate` are its
methods as functions from one such record to the next. A page is fetched,
processed and accounted for in one step, because the position only depends on
the page and on whether it settled. Between runs entries are withdrawn and plain
runs move the cursor; submissions may also fall between two pages of a run.
Two history variables are not in the code. `undisturbed`: nothing failed, was
submitted or stopped the current run. `overtaken`: entries were submitted between
the first and the last saved head id that a head scan passed (finding 1); what the
`search` run shows of the gap between head and tail is said of behaviours where
that never happened.

### SqliteRunner

`pc[t]` is a task's call, `queue` and `holder` the FIFO `asyncio.Lock`,
`thread[t]` the worker thread of its operation, which goes on whatever happens
to the call, `conn` is `self._connection`. `CancelAwait` is the first
cancellation, after which `run` waits for its thread; `CancelDrain` is the
second, which ends that wait. Both `run` and `aclose` can be cancelled wherever
they await. `abandoned` records the calls that left a thread behind. A task that
left a thread behind calls again only when the thread has ended.

### FileState

`pc[t]` is the call of a task (idle, waiting for the lock, or the job it awaits),
`job[t]` what the worker thread of that job does next, `read[t]` what the thread
has read and will write back. A read, an append and an atomic replacement are
one step each, since they hold the file's lock or are one rename; reading and
replacing are two. `CancelAwait` cancels a call whose thread has not begun or is
done, `AbandonThread` one whose thread goes on: the lock is free and the thread
still writes. `promised` is a history variable, the effect of the calls that
returned. What a call that did not return left in the files is taken over into
it, or, once a thread was abandoned, only struck from it, so that
`AcknowledgedKept` never counts a cancelled call's own change as lost.

### ExportLog, JsonlExporter, CsvExporter

A file is a sequence of lines, each a record and a version, whole or torn;
`Garbled` is a line that was appended onto a torn one. A flush is one step whose
cases are its faults (append, truncate, `tell`, rename, delete) and crashes,
because the pipeline calls nothing while it awaits a flush. The file handle's
own buffer, which `truncate()` and `tell()` write out, is modelled: that is
where the retry of a failed append goes wrong. `CsvExporter` publishes in two
steps, rename and delete, with faults and crashes between them.

### StateDatabase

A call is the list of its SQL statements, `draft` what the open transaction has
made of the file, `file` what is committed. `Open` reads `user_version` before
any lock, as `migrate()` does, and plans the migrations from what it read;
`Refused` are the statements that fail on what is there (`ALTER TABLE ADD
COLUMN`). Existing files are of every shape earlier releases left.

### Memory, Claims

`Memory` keeps the rows of the vector store, the decoded `snapshot` with the
`data_version` and dimension it was read for, and the text index; an ingest has
two branches, `vectors` and `index`, gathered at the end. A cancelled write has
landed or not begun. The backfill has its local variables: the ids it read
once, the id it is after, its batch (a function from ids to texts, taken in the
order of the ids) and what is pending. `answered`, `touched`,
`late` and `overrun` are history variables.

`Claims` follows a record from the drafts of a model's answer to the claims and
the rejections, the job that pages through the feed of revisions and saves where
it stands, and the reviewer whose pages go by entry id. A crash takes away all
but the stores and the saved revision. `LocateQuote` is `locate_quote()` with
the sentence bounds, over texts of six characters. `UniqueClaims` picks the first
claim of each id by its rank among the places kept, because the provers have no
facts about filtered sequences.

### Upstream, SyncBridge, AnswerCache, Extractors

`Upstream`: `at[r]` is where a request is (queued for a limiter slot, granted,
sent, waiting for the next attempt); `Release` hands a slot to the first waiter.
`wire` keeps what came back for each attempt, so the properties can say which
results an outcome rests on.

`SyncBridge`: threads enter and leave guards, get a loop, submit, wait; a
shutdown lets go of the loop before it stops it. The OS handler runs between two
steps of the main thread, sets the flag on the loop, and on a second signal puts
the host's handler back and raises. Loops are numbered, since a stopped one is
replaced by the next call.

`AnswerCache`: callers about one record go through the embedding filter (whose
references are embedded once, under a lock), the cache, the model, and what each
makes of an answer. `orphans` are the keys whose rejected answer was left behind
because its holder was cancelled or the cache failed. The in-memory cache is the
pure operator `Applied`.

`Extractors`: `cursor` and `outcome` are the walk the pipeline makes of one
listing; what a page may hold is chosen among all short and full pages. `found`
holds the papers the pages gave it since `from`. A page counts for its entries
(`Counted`), but a PubMed page for the ids that are not blank: the offset goes on by
those, so that some entries are asked for again, and a page of blank ids ends the
listing (`StoppedOnBlanks`).
`FullText` is the order in which documents are tried.

### TextIndex, HybridSearch, DiscoveryGraph

A ranking is what `Orders` makes of a set, a score and a name: the member at place
`n` is the one with `n - 1` members before it. Every `sort` and `ORDER BY` of the
search is this one order, and no leg, cut or filter can disagree with it.
`TextIndex` keeps three tables in the words of their triggers; every answer is
compared with `search/store_memory.py` over the same documents. `HybridSearch`
and `DiscoveryGraph` are one search and one graph build as coroutines, with a
writer between any two awaits; `passed`, `written` and `asked` are history.

### QueryLanguage, Documents, FullTexts, Screening

Pure operators. Text is a sequence of lexemes, words or single characters, as
coarse as the properties allow; XML is a tree of names whose texts are named by
their path, so that "exactly once and in order" can be said. Each is compared
with a definition that does not follow the code: a grammar, a set of spans, the
order of the document. In `KeywordViolations` a key that is only spaces stands
for the null-like keys, and a fullwidth or folded character for itself.

## Runs

| run | configuration | bounds | shows |
| --- | --- | --- | --- |
| `pipeline_buffered` | `PipelineBuffered.cfg`, `MCPipeline` | 5 entries, an id repeated, pages of 2, limit 2, 2 tasks, 1 attempt, 3 disturbances | all eight properties of a buffering exporter |
| `pipeline_durable` | `PipelineDurable.cfg`, `MCPipeline` | 5 entries with a repeated id and a blank one, pages of 3, cap 4, limit 1, 2 attempts, opaque cursor, 2 disturbances | what durable writes and opaque cursors change; every run ends; everything served settles |
| `sqlite_runner` | `SqliteRunner.cfg`, `SqliteRunner` | 3 tasks, 4 connections, 2 cancellations per call | one user, no double close, every call returns |
| `stores` | `MCStores.cfg`, `MCStores` | exporters: 2 records, 4 writes, 2 faults, 2 crashes; file state: 2 tasks, 2 records, 4 calls, 2 faults; database: 2 processes, 3 openings, 2 calls, 1 fault, 5 kinds of file; memory: 2 records, 3 writes, 1 fault, 1 closing; claims: 2 records, 3 writes, 1 fault, 1 crash | what calls returned for stays |
| `search` | `MCSearch.cfg`, `MCSearch` | 5 lexemes, trees of depth 3, 4 tokens, 3 documents, 2 stores, 1 write during a search or build; newest first: 6 entries, pages of 2 (plain runs: 1), 3 runs, 1 withdrawal, two head ids | answers agree; filters hold; nothing is jumped over |
| `services` | `MCServices.cfg`, `MCServices` | 3 requests, 1 slot, 2 attempts, 1 cancellation; 2 threads, 1 loop, 2 nested guards; 3 callers about one record; 6 entries, cap 5; the inputs of the operators | every call ends, and as it should |
| `sqlite_runner_twice` | `SqliteRunnerTwice.cfg`, `SqliteRunner` | | finding 3 |
| `newest_first_overtaken` | `NewestFirstOvertaken.cfg`, `NewestFirst` | | finding 1 |
| `newest_first_gaps` | `NewestFirstGaps.cfg`, `NewestFirst` | | finding 2 |
| `jsonl_torn` | `JsonlExporter.cfg`, `JsonlExporter` | | finding 4 |
| `file_state_cancelled` | `FileStateCancelled.cfg`, `FileState` | | finding 5 |
| `state_database_raced` | `StateDatabaseRaced.cfg`, `StateDatabase` | | finding 6 |

Why the bounds are enough: two pages of two records, a limit that is met in the
middle of a page and two tasks at a time make every pair of tasks of a page, a
page before and a page after it, and a run before and after it occur; three
disturbances cover a fault, the fault of its clean-up and a crash (two where
liveness is checked too). Four calls of a state manager are one that is cut
short, one beside it, one that acts on what both left and one more; a record's
second attempt needs two. For newest first, three runs are the one that saves a
head, the one that jumps from it and the one that jumps again, and six entries
leave a gap of a page between head and backlog. Three tasks on a connection, and
three requests on a slot, are one that works, one that was cancelled and one
that waits; one request has two batches, so that attempts of one could be
charged to the other. Two crashes and two faults let a retry and a recovery be
hit in turn. Three openings of a database are two that upgrade it and one that
resumes. In the memory, three writes are one ingest that is cut short, one that
repeats it and a foreign one beside them; a second record gives the backfill a
second batch. Three changes are a replaced, a repeated and a deleted record for
a feed read one change at a time. The inputs of pure operators are all up to the
length at which every branch has been taken together with every other. The
proofs remove the bounds for the properties they cover.

Deadlock is checked in the pipeline and the connection. It is not in the other
runs, whose calls, writes, faults and inputs are bounded and so come to an end.
`EveryCallEnds` says instead that nobody is left waiting.

### Properties

* `MarkedIsDurable` (R20): a record marked processed is irrelevant or durable,
  over write, flush, mark, cancellation and crash.
* `CursorBehindUnsettled` (R1): the saved cursor has only settled entries behind
  it. The run keeps a flag and two copies of the cursor to get this right.
* `LimitExact` (R2): slots taken, returned and counted never exceed the limit,
  in any order of tasks.
* `CompletedIsHealthy` (R5, R6): no run reports completion over a stalled page
  nothing has cleared.
* `OutageCountsNothing` (R18): an attempt is counted only in a run that has
  processed something.
* `NeverReprocessed`: no task exports a record the run knows to be processed,
  unless the page lists its id twice: the two tasks then check before either marks.
* `KeepsLedger`: every step is one of `RunLedger`'s.
* `EveryRunEnds`, `EverythingSettles`: liveness, below.
* `GapIsSettled`: between the saved head ids and the saved tail every record is
  settled, unless submissions overtook a head scan. `CleanRunsSettle`: what an undisturbed run leaves for the next, and
  that a run turns back at most once.
* `OneUserUnlessAbandoned`, `UsesCurrentConnection`, `ClosedOnce`,
  `EveryCallReturns` for the connection.
* `KeptUnlessAbandoned`, `ClearedLast` for the state files: marks, counted attempts
  and the saved cursor of calls that returned stay, and the attempts of a record
  that is not marked yet survive a crash inside `mark_processed`.
* `UpgradesResume`, `CallsAreAtomic` for the state database: an interrupted
  upgrade goes on where it stopped, and each commit is the whole of one call.
* `JsonlNeverLost`, `CsvRecoverable` for the exporters. Both exclude appends
  after a torn line; finding 4 says what those cost.
* `MemoryIsCurrent`: no search answers from vectors the file no longer holds,
  and after an ingest ran through both backends hold its text and nothing of an
  earlier one, unless a backfill that ran beside it has overrun it.
* `ClaimsAccounted`: a follower of the feed holds every record's claims unless a
  change lies ahead of it, every draft is a claim or waits for review, a
  decision outlives later extractions, and a sweep shows all that stayed.
* `RequestsJustified`: no limiter slot is exceeded or lost, and every result
  follows from what came back.
* `GuardedHears`: inside a guard signals are heard, outside the host's handler
  is back.
* `VerdictsHold`: a rejected answer is on its way out of the cache or its holder
  was cut short; no verdict of irrelevance comes from a fault; the references
  are embedded once.
* `ListingsWalkedWhole`: a walk was given every paper with an id up to its cursor;
  one that ended, to the end of the listing unless PubMed stopped on blank ids; a
  truncated one, all that is served, and it is truncated only where there is more. An
  abstract stands in only when no document has a text.
* `EveryCallEnds`: requests, calls of the facade, questions to the model and
  walks end; a signal that was taken sets the flag.
* `ParsesAsGrammar`, `CompilationsAgree`, `HitsAreShown`, `NearIsDeclarative`,
  `SnippetsKeepTheirRanges`: a query means the same in every form it is given.
* `AnswersAreReference`: the text index answers as the in-memory store does, or
  raises; a ranked search cuts ties by id.
* `FilteredNeverShown`, `BestInEveryLegFirst` for a hybrid search beside writes.
* `GraphHangsTogether`, `CommunitiesAreStable` for a graph over a corpus that
  changes.
* `TransformsAgree`: quotes, passages, selections, neighbours, cache contents,
  merged rows, assembled files, article and Word texts, dates, keywords and
  ranges, each against its reference.

The properties of the query language are stated of the step that chooses an
input, `[][part' = "text" => ReadsAsGrammar(input')]_vars` and its like, which
evaluates each of them once per input.

### Fairness

`Pipeline`: weak fairness on the run's own steps and on `StartRun`. The event
loop runs what is ready, an awaited call returns or raises (clients have
timeouts, and a call that never returned would be a wedged service), and the
operator keeps scheduling runs. Disturbances are finite, so
`EverythingSettles` says what happens once they stop. A record that is given up
counts as settled, as it does for the code; with two disturbances and two
attempts that happens to a record at most once.
`SqliteRunner`: weak fairness on loop and thread steps, for the same reasons;
no fairness makes anybody call or cancel. `MCServices`: weak fairness on each
request's, caller's and thread's own steps, on the loop's steps (it runs a
scheduled `set()`, completes coroutines, stops and is closed), and on reading
pages and texts: timers fire, and a server answers or fails in the end. Nobody
has to call, cancel, signal or shut down, and a server need not succeed.
`EveryCallEnds` excludes one case, a thread that waits without a deadline on a
loop that was stopped, which does wait for ever. `NewestFirst` needs none:
`EveryPageAdvances`, a part of `CleanRunsSettle`, bounds a run by a measure
instead.

## Findings

1. `_listing_head.py:112` (code). The head scan measures the shift once, on the
   page that shows the first saved head id. Submissions that arrive before it has
   passed the last one move that id further down, the scan stops short of it, and
   a record that failed there falls between the head and the tail that are saved:
   no later run visits it, although lines 39-41 say the next head scan does. It
   takes pages shorter than about twice `HEAD_ID_LIMIT`; with longer ones the same
   submissions also move the saved tail off the probed page, and the run falls back.
2. `_listing_head.py:163` (code). Positions are counted among readable ids,
   offsets among all entries. An entry without an id above the head ids makes
   the shift too small, and a record that failed near the top is never visited
   again.
3. `_sqlite_async.py:58` (doc and code). The second cancellation of one call
   frees the lock with the thread still on the connection; the class
   documentation (14-16) says this can never happen.
4. `exporters/jsonl_async.py:106` (doc and code). An append after a torn line
   swallows its first record, whose flush returned;
   `exporters/async_base.py:21` says a crash never loses one. The line may come
   from a crash or from a full disk, where `truncate()` first writes out the
   buffer and raises again.
5. `state/async_file_state.py:151` (doc and code). A cancelled call leaves the
   lock while its thread is between reading and replacing the metadata file; the
   change of the next call, acknowledged to its caller, is overwritten. Line 63
   says callers are serialized.
6. `_migrations.py:56` (code). `migrate()` reads `user_version` before its first
   transaction takes the write lock. Of two processes that open an old or new
   database at once, the slower one runs version 1 over the upgraded file and
   sets the version back; its version 2, and that of every later opening, fails
   with a duplicate column. Lines 43-45 say an interrupted upgrade resumes.

1, 2, 5, 6 and the full-disk case of 4 were repeated with the package itself.

Met and not checked by a run of their own:

* `exporters/csv_async.py:237` has the same torn prefix when an append is retried,
  and a crash before the table is rendered then leaves a journal `open` refuses until
  it is repaired by hand.
* `extractors/pubmed_async.py:200` drops blank ids before a page is counted. A page
  with nothing else ends the listing (135-136) although the search has more results,
  and the run takes it for complete; `models.py:80-82` says that a page's entries
  include those without an id and that a page without a next cursor is the last, and
  `pubmed_async.py:105-106` that a listing ends with the page that reaches the result
  count. `ListingsWalkedWhole` holds of the code because it excepts this end by name;
  without `StoppedOnBlanks` TLC finds it violated within the bounds of `services`.

## Proofs

`Pipeline_proof`. `TypeCorrect` splits types into values and flags, which
different backends decide. The inductive invariant `SavedInv` adds to the types

* `TasksSound`: a task that marks a written record has it in the sink; one that
  waits for the flush has it in sink or buffer;
* `SkipsSound`: what the run skips is processed or given up;
* `PageSound`: an entry of the page without a task is settled;
* `CursorsSound`: the saved cursor, the run's copy, and the position itself
  while `settled` holds, have only settled entries behind them;
* `MarkedIsDurable` itself.

Neither R20 nor R1 is inductive: R20 needs what a task in the middle of marking
has behind it, R1 needs that the position may be trusted while the flag is set,
which in turn needs the page and the skip sets. Each part is shown preserved by
each action in a lemma of its own (`TasksStep`, `PageStep`, `CursorsStep`,
`SkipsStep`, `DurableStep`), resting on three facts: the sink grows, what is
settled stays settled (`SettledStays`), and so do prefixes (`BehindStays`).
`MarkedDurable` and `CursorSafe` follow for every listing, page size, limit,
concurrency, attempt limit, cap and number of disturbances.
`ImplementsLedger` shows every step to be a ledger step or a stutter, from the
same invariant.

The second invariant of that module, `TallyInv`, is of one run: `SlotsAddUp`
(what the limit leaves is the free slots and the tasks that hold one, from a
page's arrival until it is counted), `CommitsEarned`, `StallsCleared` and
`TasksFiltered`. `LimitExact` bounds a sum that every task changes twice, so it
needs the equation; `CompletedIsHealthy` needs that a listing is only left with
no stall uncleared; `NeverReprocessed` needs what the filter said when the task
was queued. `LimitIsExact`, `CompletedRunsAreHealthy`, `OutagesCountNothing` and
`KnownNeverReprocessed` follow. A page that lists an id twice is the exception
that the first proof attempt of `NeverReprocessed` showed and TLC then confirmed.

`FileState_proof`. `SerialInv` says, until a call has been abandoned: the queue
holds waiting tasks once each; the lock's holder is the one task with a job, and
only its thread works; each job belongs to its call, and what its thread has
read and will write back is what the file still holds; the files are what the
returned calls promised, with as much of the holder's call as is through. The
last part is `KeptUnlessAbandoned` made inductive: between the append and the
rewrite of one `mark_processed` the files are neither the old promise nor the
new. `PromisesKept` and `AttemptsClearedLast` follow for any tasks, records,
calls, faults and crashes, both until a call is abandoned: finding 5 is what
such a call costs.

`StateDatabase_proof`. `AtomicInv`: the draft of an open transaction, with the
statements it has still to run, comes to the whole call applied to the file
(`Ran`, at most four statements, so no induction is needed). `CallsWhole` is the
commit of that. `ResumeInv` adds, unless two processes upgrade the file at once:
one process at most is opening an old file, the file is as its version tells,
and the plan of that process is what the version has pending. The exception is
finding 6. `UpgradesAlwaysResume` follows for any number of processes, openings
and faults and every file an earlier release can have left.

`Memory_proof`. `MemoryInv` has four parts: types; `SnapshotSound` (a snapshot
of the current version holds the rows of its dimension); `BranchesSound` (both
branches of an ingest run or none does, and one that is done has its text in its
backend unless a backfill went over it); `Backfilled` (each stored record is
indexed, in the batch, pending, ahead of the backfill, or was written since).
The agreement of the backends is of records at rest; what makes it hold is what
each branch has done on the way, and what the backfill may still write.

`Claims_proof`. `ClaimsInv`: `JobInStep` (the page runs on from what was saved
to where the job reads, and a record with no change ahead of the page is
mirrored), `RejectedFirst` (claims are written only when what they leave out is
stored), `SweepAhead` (what a sweep still has to show lies beyond its page), and
the properties that need them. That pages of the first so many above an id skip
nothing is `FirstComeFirst`; that dropping repeated claims drops no key is
`UniqueKeepsKeys`. The lemmas about least elements, the first few and ranks rest on
the well-foundedness of the natural numbers and on the sizes of finite sets.

`MCStores_proof`. For the exporters, lemmas about the log come first: what is
appended comes last (`LastOfBoth`), what a cut leaves was in the lines that were
cut (`CutTells`), and garbled stays garbled. `KeepInv` of the JSONL exporter
adds to its property that no line still to be written is older than what a flush
returned for; `RecoverInv` of the CSV exporter relates the queued lines and the
rows to both, and says that the journal is deleted only when the table is the
rows. Appends after a torn line are excepted (finding 4). The other stores are
proved in their own modules, which `MCStores` instantiates: a step of a
behaviour is a step of its store, so the invariant carries over
(`StateInvHolds`, `MemoryInvHolds`, `ClaimsInvHolds`); the state database, whose
variables are its own, is refined as a whole (`DatabaseBehaves`).

`Services_proof` has one inductive invariant for each of the four services; a step
of a behaviour is a step of its service or leaves the service's variables alone.

* `UpstreamInv`. `SlotsInv`: the members of a limiter's queue are the requests
  queued for it, once each; free slots and holders add up to the limit; and nobody
  queues while a slot is free. The equation needs the queue: `Release` hands a slot
  over instead of freeing it, and a cancelled waiter is struck from the queue, which
  must strike that waiter and no other. `RequestInv`: a request under way has seen
  only answers and transient failures, of which the last `attempt[r]` are failures
  (`Pending`); one that has ended is what `AttemptsJustified` says of it
  (`Concluded`). That a failure ends a call only after `MaxRetries` of them in a row
  follows from the counter only because the counter is tied to `wire` at every step.
  A request has the limiter of the longest suffix of its host that has a limit, or
  none (`HasLimiterOrNone`), which only a limit of the empty host would confuse;
  `HostRateLimiter.__init__` refuses that, so `Upstream` assumes there is none.
* `BridgeInv`. Until guards of two threads overlap, the blocks counted in `depth` are
  those of one thread, only its first is outermost, our handler is in force only
  within the main thread's guard, and the host's is captured exactly while it is
  (`OneGuards`, `Handlers`). `GuardedHears` is not inductive: between `Enter` and
  `Install`, and between `Leave` and `Uninstall`, the depth and the handler disagree.
* `CacheInv`. Who embeds the references is the head of the lock's queue, and the
  references are not there yet, which is why they are embedded once (`LockInv`).
  A key has one stored answer; one that speaks against a record was given as evidence,
  in the cache as in the hands of a caller about to store it (`StoredInv`).
* `SourcesInv`. A walk was given every paper with an id between where it began and its
  cursor, which while it is under way is within the listing and below the cap unless
  it has not moved (`OnItsWay`). A page counts for no more than it holds, and for
  nothing only if it is empty or begins with a blank id of PubMed's (`CountedOf`), so
  no cursor passes over an entry (`PageGoesOn`), and a walk ends at the end of the
  listing or on blank ids (`PageEnds`).

The theorems `RequestsAlwaysJustified`, `GuardedAlwaysHears`, `VerdictsAlwaysHold` and
`ListingsAlwaysWalkedWhole` follow for any requests, hosts, limits, threads, callers,
listings, page sizes, caps and saved cursors. The last excepts, by name, the PubMed
walk that stopped on blank ids (`StoppedOnBlanks`); its other walks with blank ids
are covered.

The last corrected the model twice. `WalkIsWhole` said that a truncated listing is
longer than its cap; a cursor saved past the cap (by a run with a larger one, say)
makes `PastTheCap` truncate without asking the server anything, so nothing is known
of the length, and the property now says it of walks that began below the cap. And
`FetchCursorPage` did not end on an empty page past the end of a listing, where
`extractors/openalex_async.py:151` does.

`Search_proof` begins with `Orders`. Names tell the members of a set apart, so of
two members one comes before the other (`PlacesDiffer`), each place is taken once
(`PlacesTaken`), and the ranking lists the set (`BestFirstLists`), is the only listing
in that order (`OneListing`), and restricted to the best few is their ranking
(`BestOfPart`). That each place is taken is a pigeonhole argument over the sizes of
finite sets; no induction over a sort is needed.

* `HybridInv` is of one search. `HybridTyped`: legs list records without repeats.
  `LegsPassed`: what a leg keeps has passed the filters at some moment, the semantic
  leg from `Filter` on. `HitsFused`: while hits are completed they are the first
  `TopK` of the fused rankings. `TextsKept`: a hit of the lexical leg has its text
  unless a writer took it. `RankingKept`: without writes the lexical ranking is still
  the index's. `FilteredNeverShown` and `BestInEveryLegFirst` speak of shown hits and
  say nothing before there are any. That a record above another in every leg has the
  larger sum is `ContributionsFall`, from the shares of a rank falling strictly
  (`SharesFall`): that is where `Scale` must be a multiple of every denominator, which
  makes the code's fractions integers without rounding. A lexical search keeps its
  ranking through the fusion of one list (`FusedAlone`).
* `IndexInv`. `RowsOfDocuments` and `TagsOfDocuments`: the three tables are those of
  the documents, which is why an answer counted in the tags is one counted in the
  metadata (`FacetIs`, `CountIs`). `BuiltForOpened`: the keys recorded as built are
  among the open store's, so every key recorded as built has all its tags. A ranked
  search reads one row more than it needs and, if the cut falls among equal scores,
  every row of that score; `CutIsWhole` shows that whatever order FTS5 gave them in, the rows that
  are then sorted contain the best `limit`, and `RankedIs` that their ranking is the
  reference's.
* `SqliteRunner`, whose serialized calls these answers rest on. `RunnerInv` is its
  types, `ThreadHoldsLock` (until a call is abandoned a running thread's task holds
  the lock), `UserWorks` (a thread that uses a connection is running, and uses the
  current one) and `ClosedOnce`. `OneUserUnlessAbandoned` alone is not inductive: it
  says nothing of who holds the lock. `MutualExclusion`, `ConnectionInUseIsCurrent`
  and `ConnectionsClosedOnce` follow for any tasks, connections and number of
  cancellations: `SqliteRunner` keeps what `SharedConnection` says.
* `GapInv`, of the runs of `NewestFirst`. Ids fall down the listing (`Falling`), so a
  page is a part of it that leaves nothing out (`PageDense`), and so are the ids that
  are saved of one. `MetaSound`: the saved head is such a part of the listing, and
  between tail and head everything is settled. `PositionSound` says what a run has
  behind it, phase by phase: `ScanSound`, that what it scanned from the top is settled
  as far as it recorded; `HeadSound`, that nothing unsettled lies above its offset
  and below the ids it would save, and that the shift, once known, tells where it will
  have passed all saved head ids (`LocateTells`, `PassedFrom`: from where one of them
  is, the others follow without a gap); `ProbeSound`, that it may turn back to where
  the head scan ended; `BacklogSound`, that everything from its offset up to the saved
  head is settled. Each phase has a lemma for a page of it (`RescanSound`,
  `ScanningSound`, `ProbingSound`, `BacklogKeepsSound`). Where the head scan jumps, the
  old gap and the page at hand join up (`GapExtends`); where a probe finds a saved tail
  id, what is above it on the page is new and what is below it has just settled
  (`FoundSettles`). A submission moves every offset by one, which `GrownSound` shows to
  lose nothing but the shift, and that is what `overtaken` records. `GapIsSettled`
  alone is not inductive: it says nothing of a run in progress.

`FilteredNeverGetsShown` and `ShownBestInEveryLegFirst` follow for any records,
passages, pools, fusion constants, writes and failures. `AnswersAlwaysReference`
follows for any stores, keys, documents and filters under one hypothesis,
`KeysOnlyGrow`: a store's facet keys include those of the stores opened before it.
Without it the property is false of the code (see "Met while modelling"), and the
`search` run assumes the same.

`GapAlwaysSettled` follows for any page sizes, number of head ids, number of runs,
submissions and withdrawals, and any mix of failures, stops, truncations, restarts and
plain runs, under one hypothesis: every entry has an id (`Unreadable = {}`). Without it
the property is false of the code (finding 2); what happens when submissions overtake
a head scan (finding 1) is excluded by the property itself.

Every part of an inductive invariant was first an invariant of a TLC run of its
module. The assumptions are the named `ASSUME`s of the modules, of `MCStores`,
`Services` and `Search`, which TLC evaluates on every run: numbers are natural, distinct
drafts have distinct entry ids, ids that order pages are positive numbers, record ids
are finitely many numbers, and a record in the vector memory has a passage. In the
code ids are strings, of which a store holds finitely many and none is empty;
numbered in their order, they compare as the strings do.

Only model-checked:

* liveness (`EveryRunEnds`, `EverythingSettles`, `EveryCallReturns`,
  `EveryCallEnds`), which rests on fairness and `ENABLED`;
* `TransformsAgree` and the action properties of the query language, whose
  operators are recursive over data (trees, token lists, files that include files):
  what they compute for every input is an induction the provers cannot do;
* `DiscoveryGraph`, whose neighbours and communities are folds, of which nothing is
  known beyond a first step without an induction, and `CleanRunsSettle`, of the
  newest-first runs.

## What is not modelled

* `start_index` runs, which skip entries by design; metrics and events; the wait
  between pages, merged into the top of the loop. What the run does with a
  memory ingest that raises is in `Memory`, not in `Pipeline`. The shutdown
  event is never cleared: a run is assumed to get a fresh one.
* Cancelling the inner task of `SqliteRunner` by tearing the loop down; the
  second read of `self._connection` in `_execute`, which can differ only after
  an abandoned call.
* `fsync=False`; cancellation inside a flush; lines written by a caller other
  than the pipeline while a flush is awaited.
* A second process on the state files: `forget` rewrites the ids file from lines
  it read earlier and may drop what another process appended (the documentation
  says so), and the metadata file is read and replaced under no common lock.
  Torn id lines; the checks on an id's characters; files of version 0.4.
* Requests and responses themselves: parameters, metadata fields, prompts, the
  splitting of long texts for extraction, HTTP dates, the interval limiter's
  clock, expiry of cached answers. They are arithmetic and formatting of one
  value each.
* Vector arithmetic, FTS5's ranking and the Unicode table: libraries and data.
* HTML and PDF parsing, which libraries do, and the reference trimmer and LaTeX
  clean-up, which are regular expressions one after another.
* `processors/` other than deduplication and validation: single calls of pandas
  or scikit-learn. Configuration, observability, plug-in look-up, the testing
  kit and package plumbing: no order, sharing or failure of their own.

Met while modelling and left out of the inputs, since no property of theirs
would hold or fail in an informative way:

* On a source that knows its total, a probe of the last page that does not find
  the saved tail ends the run (`_listing_position.py:103`), and the records between
  the head and the probe wait for the next run. `docs/guide/state.md:127-129` says
  the run pages on from the top. `CleanRunsSettle` has what holds: such a run
  leaves them at or after the offset it saves.
* A store that opens the text index with fewer facet keys writes documents
  without the tags the file records as built; `MCSearch` opens stores whose keys
  only grow.
* A row or cell of a Word table inside a content control is not read
  (`parsers/docx.py:100-113` looks at direct children only), although line 23
  says the body is read in order.
* A grounded draft that misses a part raises in `Claim.from_draft` and fails its
  record, although `claims/extractor_async.py:30` says every other draft becomes
  a claim; it is the guard of `Extract`.
* In a JATS body whatever follows the sections, such as a signature block, is
  read before them; `TextsKeptOnce` asks for the order of the document only
  where sections come last.
* A second OS signal before the loop has run the `set()` of the first does not
  escalate, and guards of two threads that overlap without nesting uninstall
  the handlers with the first block.

## Plan

Done: all modules above, and the proofs above, which state every safety property of
`pipeline_buffered`, `stores` and `sqlite_runner`, every one of `services` but
`TransformsAgree`, and those of `search` that are of the text index and the hybrid
search, and `GapIsSettled`. What is left to prove is `CleanRunsSettle`: that a run
nothing disturbs leaves nothing behind it, from what it has settled down to its offset.

A second process on the state files, and an abstract state manager that both
`FileState` and `StateDatabase` refine, are the modelling that would add most.
