---------------------------- MODULE CsvExporter -----------------------------
(***************************************************************************)
(* AsyncCsvExporter as AsyncETLPipeline calls it.  Each flush appends the  *)
(* page's records to a journal; aclose renders all rows into the table by  *)
(* an atomic rename and then deletes the journal, and open does the same   *)
(* with the journal a crashed run left.  As in JsonlExporter, a flush is   *)
(* one step; publishing takes two, with faults and crashes between them.   *)
(***************************************************************************)
EXTENDS ExportLog

CONSTANTS MaxFaults, MaxCrashes   \* bounds

VARIABLES
  table,     \* the version of each record in the CSV file, 0 without rows
  journal,   \* the lines of the journal; none when there is no journal
  rows,      \* _rows: what the next table will hold
  phase,     \* closed; loading: open() publishes a replayed journal; opened;
             \* closing: aclose() publishes
  renamed,   \* the publishing under way has renamed the new table into place
  pending, page, delivered, writes, faults, crashes

caller == <<pending, page, delivered, writes, faults, crashes>>
vars == <<table, journal, rows, phase, renamed, caller>>

NoRows == [r \in Records |-> 0]

Init ==
  /\ table = NoRows /\ rows = NoRows
  /\ journal = <<>>
  /\ phase = "closed" /\ renamed = FALSE
  /\ pending = <<>> /\ page = {}
  /\ delivered = NoRows
  /\ writes = 0 /\ faults = 0 /\ crashes = 0

\* _replay_journal: a torn last line is left out.
Replayed == [r \in Records |-> LastVersion(journal, r, table[r])]

\* Mutant: opens on the table alone.
LoadWithoutReplay ==
  /\ phase = "closed" /\ ~IsGarbled(journal)
  /\ rows' = table
  /\ phase' = IF journal = <<>> THEN "opened" ELSE "loading"
  /\ UNCHANGED <<table, journal, renamed, caller>>

\* open(): reads the table and replays the journal, if there is one.  A line
\* of the journal that cannot be read raises instead.
Load ==
  /\ phase = "closed" /\ ~IsGarbled(journal)
  /\ rows' = Replayed
  /\ phase' = IF journal = <<>> THEN "opened" ELSE "loading"
  /\ UNCHANGED <<table, journal, renamed, caller>>

Write(r) ==
  /\ phase = "opened" /\ writes < MaxWrites
  /\ writes' = writes + 1
  /\ rows' = [rows EXCEPT ![r] = writes']
  /\ pending' = Append(pending, Line(r, writes'))
  /\ page' = page \union {r}
  /\ UNCHANGED <<table, journal, phase, renamed, delivered, faults, crashes>>

\* A flush that returns: the page's records may be marked processed.
FlushReturns ==
  /\ phase = "opened" /\ pending # <<>>
  /\ journal' = Appended(journal, pending, FALSE)
  /\ pending' = <<>> /\ page' = {}
  /\ delivered' = Latest(pending, page, delivered)
  /\ UNCHANGED <<table, rows, phase, renamed, writes, faults, crashes>>

\* The append raised, wherever it had got to: the journal keeps what was
\* written, and the lines stay queued.
FlushRaises ==
  /\ phase = "opened" /\ pending # <<>> /\ faults < MaxFaults
  /\ faults' = faults + 1
  /\ \E c \in Cuts(pending) : journal' = Appended(journal, Cut(pending, c[1], c[2]), FALSE)
  /\ page' = {}
  /\ UNCHANGED <<table, rows, phase, renamed, pending, delivered, writes, crashes>>

\* aclose() with nothing left to flush begins to publish.
Close ==
  /\ phase = "opened" /\ pending = <<>>
  /\ phase' = "closing"
  /\ UNCHANGED <<table, journal, rows, renamed, caller>>

\* Mutant: deletes the journal before it replaces the table.
DeleteFirst ==
  /\ phase \in {"loading", "closing"} /\ ~renamed
  /\ IF journal # <<>>
     THEN journal' = <<>> /\ UNCHANGED <<table, renamed>>
     ELSE table' = rows /\ renamed' = TRUE /\ UNCHANGED journal
  /\ UNCHANGED <<rows, phase, caller>>

\* _publish: the table is replaced, then the journal is deleted.
RenameTable ==
  /\ phase \in {"loading", "closing"} /\ ~renamed
  /\ table' = rows
  /\ renamed' = TRUE
  /\ UNCHANGED <<journal, rows, phase, caller>>

DeleteJournal ==
  /\ renamed
  /\ journal' = <<>>
  /\ renamed' = FALSE
  /\ IF phase = "loading"
     THEN phase' = "opened" /\ UNCHANGED rows
     ELSE phase' = "closed" /\ rows' = NoRows
  /\ UNCHANGED <<table, caller>>

\* _publish raises: open() stays to be repeated, and so does aclose().
PublishRaises ==
  /\ phase \in {"loading", "closing"} /\ faults < MaxFaults
  /\ faults' = faults + 1
  /\ phase' = IF phase = "loading" THEN "closed" ELSE "opened"
  /\ renamed' = FALSE
  /\ UNCHANGED <<table, journal, rows, pending, page, delivered, writes, crashes>>

\* The process ends, between calls or inside one.
Crash ==
  /\ crashes < MaxCrashes
  /\ crashes' = crashes + 1
  /\ \/ UNCHANGED journal
     \/ phase = "opened" /\ \E c \in Cuts(pending) :
          journal' = Appended(journal, Cut(pending, c[1], c[2]), FALSE)
  /\ phase' = "closed" /\ renamed' = FALSE /\ rows' = NoRows
  /\ pending' = <<>> /\ page' = {}
  /\ UNCHANGED <<table, delivered, writes, faults>>

Next ==
  \/ Load \/ FlushReturns \/ FlushRaises \/ Close \/ RenameTable \/ DeleteJournal
  \/ PublishRaises \/ Crash
  \/ \E r \in Records : Write(r)

Spec == Init /\ [][Next]_vars

-----------------------------------------------------------------------------
\* "A run that crashed leaves the journal behind, and the next open replays it
\* into the table" (csv_async.py): what a flush returned for is in the table or
\* in the journal on top of it, whenever the process ends and whichever step
\* failed, as long as no append went on after a torn line.
Recoverable == IsGarbled(journal) \/ \A r \in Records : Replayed[r] >= delivered[r]

\* The rows in memory are never behind the files while the exporter is open:
\* publishing them loses nothing a flush returned for.
RowsComplete == phase \in {"opened", "closing"} => \A r \in Records : rows[r] >= delivered[r]

-----------------------------------------------------------------------------
(* Why they hold: the inductive invariant.                                 *)

Typed ==
  /\ journal \in Seq(Kept) /\ pending \in Seq(Lines)
  /\ {table, rows, delivered} \subseteq [Records -> Nat] /\ writes \in Nat
  /\ phase \in {"closed", "loading", "opened", "closing"} /\ renamed \in BOOLEAN

\* Only an open exporter has lines queued: none older than what a flush returned
\* for, and none newer than the rows.
Queued ==
  /\ phase # "opened" => pending = <<>>
  /\ \A i \in 1..Len(pending) :
       LET line == pending[i]
       IN  line.version \in delivered[line.record]..writes /\ rows[line.record] >= line.version
  /\ \A r \in Records : delivered[r] <= writes

\* Rows that are to be published hold all that a flush returned for, and the
\* journal is deleted once the table holds them.
Published ==
  /\ phase # "closed" => \A r \in Records : rows[r] >= delivered[r]
  /\ renamed => phase \in {"loading", "closing"} /\ table = rows

RecoverInv == Typed /\ Queued /\ Published /\ Recoverable
=============================================================================
