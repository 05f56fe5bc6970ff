------------------------------ MODULE MCStores ------------------------------
(***************************************************************************)
(* The pipeline's stores under writes, faults and crashes: one of the      *)
(* exporters, the file state manager under the calls of two tasks, the     *)
(* SQLite state database under two processes, the vector store and text    *)
(* index of its memory, or the claim and rejection stores.  sink says which*)
(* of them a behaviour is of.                                              *)
(***************************************************************************)
EXTENDS ExportLog, TLC

CONSTANTS
  MaxFaults, MaxCrashes,             \* of an exporter
  Tasks, None, MaxCalls              \* of the state manager

VARIABLES
  sink,                                    \* jsonl, csv, state, database, memory or claims
  file, buffered, open,                    \* of JsonlExporter
  table, journal, rows, phase, renamed,    \* of CsvExporter
  pending, page, delivered,                \* of both
  ids, meta, failedIds, queue, holder, pc, call, job, read, calls, promised, abandoned,
  chunks, snapshot, version, documents, text, vectors, index, ingests, intact,
  backfill, existing, after, batch, gathered, closes, answered, touched, late, overrun,
  claims, changes, exported, entries, resolved, decided, stage, drafts,
  saved, at, feed, mirror, sweep, due,
  database, writer, draft, connection, plan, request, opens, dbCalls, dbFaults, raced,
  writes, faults, crashes                  \* of several

Jsonl == INSTANCE JsonlExporter
Csv == INSTANCE CsvExporter
State == INSTANCE FileState_proof WITH Cursors <- {1}

\* Two processes and the files of earlier releases.
Database == INSTANCE StateDatabase_proof WITH
  Processes <- Tasks, Records <- {1, 2}, Cursors <- {3},
  Existing <- {"new", "0.4", "0.4 with heads", "version 1", "current"},
  MaxOpens <- 3, MaxCalls <- 2, MaxFaults <- 1,
  file <- database, at <- connection, call <- request

\* Record 2 may also be another process's; a text that shrinks, and a blank one.
Mem == INSTANCE Memory_proof WITH
  RecordIds <- {1, 2}, Foreign <- {2}, Dims <- {1, 2}, DimOf <- 1 :> 1 @@ 2 :> 1,
  Texts <- {[title |-> TRUE, passages |-> 2], [title |-> FALSE, passages |-> 1],
            [title |-> FALSE, passages |-> 0]},
  BatchSize <- 1, MaxIngests <- 3, MaxFaults <- 1, MaxCloses <- 1,
  phase <- backfill, pending <- gathered

\* A claim drafted twice beside an ungrounded one; a draft that is refused.
Draft(k, grounded, complete) == [key |-> k, grounded |-> grounded, complete |-> complete]
Claim == INSTANCE Claims_proof WITH
  RecordIds <- {1, 2}, Keys <- {1, 2},
  EntryOf <- <<1, 1>> :> 2 @@ <<1, 2>> :> 3 @@ <<2, 1>> :> 4 @@ <<2, 2>> :> 1,
  Answers <- {<<>>, <<Draft(1, TRUE, TRUE), Draft(2, FALSE, FALSE), Draft(1, TRUE, TRUE)>>,
              <<Draft(2, TRUE, FALSE)>>},
  Limit <- 1, MaxWrites <- 3, MaxFaults <- 1, MaxCrashes <- 1, page <- feed

ASSUME StateAssumption == State!FileStateAssumption
ASSUME DatabaseAssumption == Database!Assumption
ASSUME MemoryAssumption == Mem!Assumption
ASSUME ClaimsAssumption == Claim!Assumption

jsonlVars == <<file, buffered, open>>
csvVars == <<table, journal, rows, phase, renamed>>
logVars == <<pending, page, delivered>>
stateVars == <<ids, meta, failedIds, queue, holder, pc, call, job, read, calls, promised, abandoned>>
memoryVars == <<chunks, snapshot, version, documents, text, vectors, index, ingests, intact,
                backfill, existing, after, batch, gathered, closes, answered, touched, late, overrun>>
claimVars == <<claims, changes, exported, entries, resolved, decided, stage, drafts,
               saved, at, feed, mirror, sweep, due>>
databaseVars == <<database, writer, draft, connection, plan, request, opens, dbCalls, dbFaults, raced>>
counters == <<writes, faults, crashes>>
vars == <<sink, jsonlVars, csvVars, logVars, stateVars, memoryVars, claimVars, databaseVars, counters>>

Init == /\ sink \in {"jsonl", "csv", "state", "database", "memory", "claims"}
        /\ Jsonl!Init /\ Csv!Init /\ State!Init /\ Database!Init /\ Mem!Init /\ Claim!Init
        /\ sink # "database" => database = Database!FileOf("new")

Next ==
  \/ /\ sink = "jsonl" /\ Jsonl!Next
     /\ UNCHANGED <<sink, csvVars, stateVars, memoryVars, claimVars, databaseVars>>
  \/ /\ sink = "csv" /\ Csv!Next
     /\ UNCHANGED <<sink, jsonlVars, stateVars, memoryVars, claimVars, databaseVars>>
  \/ /\ sink = "state" /\ State!Next
     /\ UNCHANGED <<sink, jsonlVars, csvVars, logVars, memoryVars, claimVars, databaseVars, writes, crashes>>
  \/ /\ sink = "memory" /\ Mem!Next
     /\ UNCHANGED <<sink, jsonlVars, csvVars, logVars, stateVars, claimVars, databaseVars, writes, crashes>>
  \/ /\ sink = "claims" /\ Claim!Next
     /\ UNCHANGED <<sink, jsonlVars, csvVars, logVars, stateVars, memoryVars, databaseVars>>
  \/ /\ sink = "database" /\ Database!Next
     /\ UNCHANGED <<sink, jsonlVars, csvVars, logVars, stateVars, memoryVars, claimVars, counters>>

Spec == Init /\ [][Next]_vars

-----------------------------------------------------------------------------
\* What a flush returned for is the last that the JSONL file says of a record,
\* through faults, retries and crashes, unless an append went on after a torn
\* line (JsonlExporter!NeverLost says what that costs).
JsonlNeverLost == sink = "jsonl" => Jsonl!NeverLostUnlessGarbled

\* What a flush returned for can be recovered from the CSV file and its journal
\* at every moment, under the same exception; and an open exporter holds at
\* least that much, so that publishing its rows takes nothing back.
CsvRecoverable == sink = "csv" => Csv!Recoverable /\ Csv!RowsComplete

\* Unless a cancelled call of the state manager left its thread at work, its
\* files hold what the calls that returned have promised and no more.
KeptUnlessAbandoned == sink = "state" => State!KeptUnlessAbandoned

\* Attempts are cleared only once their record is processed or being forgotten,
\* through failed writes and crashes inside mark_processed.
ClearedLast == State!ClearedLast

\* The state database stays as its version tells and openable, through faults,
\* crashes and upgrades of older files that no second process joins.
UpgradesResume == sink = "database" => Database!UpgradesResume

\* Every change of its file is the whole of one call, whatever other processes do.
CallsAreAtomic == Database!CallsAreAtomic

\* A vector search answers from the rows the file holds, after its own writes,
\* another process's and a reopening; and both backends hold the last text
\* ingested whole, through failed branches, cancellations and a backfill
\* (store_sqlite_async.py, ingest_async.py, backfill_async.py).
MemoryIsCurrent == sink = "memory" => Mem!SearchIsCurrent /\ Mem!BackendsAgree

\* A job that follows the claim feed misses no change, no draft of an exported
\* record is lost between the claims and the rejections, and a reviewer's
\* decisions and sweeps stand (claims/, rejections.py).
ClaimsAccounted ==
  sink = "claims" => Claim!FeedMissesNothing /\ Claim!DraftsAccounted /\ Claim!ReviewsKept
=============================================================================
