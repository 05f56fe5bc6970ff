--------------------------- MODULE JsonlExporter ----------------------------
(***************************************************************************)
(* AsyncJsonlExporter as AsyncETLPipeline calls it: writes of a page, then *)
(* a flush, after which the page's records are marked processed; aclose    *)
(* when the run ends.  The pipeline calls nothing while a flush is under   *)
(* way, so a flush is one step, with its faults and crashes as the cases.  *)
(***************************************************************************)
EXTENDS ExportLog

CONSTANTS MaxFaults, MaxCrashes   \* bounds

VARIABLES
  file,      \* the lines in the file
  buffered,  \* lines the handle's own buffer kept from a failed append; when
             \* the file's last line is torn, the first of them is its rest
  open,      \* the handle is open
  pending,   \* the lines queued for the next flush
  page,      \* the records of the page being written
  delivered, \* history: the version of each record that a flush returned for
  writes,    \* how many writes there were
  faults, crashes

caller == <<pending, page, delivered, writes, faults, crashes>>
vars == <<file, buffered, open, caller>>

Init ==
  /\ file = <<>> /\ buffered = <<>>
  /\ open = FALSE
  /\ pending = <<>> /\ page = {}
  /\ delivered = [r \in Records |-> 0]
  /\ writes = 0 /\ faults = 0 /\ crashes = 0

\* open(); a later call finds the handle open.
Open ==
  /\ ~open
  /\ open' = TRUE
  /\ UNCHANGED <<file, buffered, caller>>

Write(r) ==
  /\ open /\ writes < MaxWrites
  /\ writes' = writes + 1
  /\ pending' = Append(pending, Line(r, writes'))
  /\ page' = page \union {r}
  /\ UNCHANGED <<file, buffered, open, delivered, faults, crashes>>

\* handle.tell() writes out what the handle had kept.
Settled == Appended(file, buffered, TRUE)

\* A flush that returns: the page's records may be marked processed.
FlushReturns ==
  /\ open /\ pending # <<>>
  /\ file' = Appended(Settled, pending, FALSE)
  /\ buffered' = <<>>
  /\ pending' = <<>> /\ page' = {}
  /\ delivered' = Latest(pending, page, delivered)
  /\ UNCHANGED <<open, writes, faults, crashes>>

\* The flush raises and the page goes unmarked; its lines stay queued.
FlushRaises ==
  /\ open /\ pending # <<>> /\ faults < MaxFaults
  /\ faults' = faults + 1
  /\ page' = {}
  /\ UNCHANGED <<open, pending, delivered, writes, crashes>>

\* Mutant: the size to truncate to was taken one line too early.
TruncatedTooFar ==
  /\ FlushRaises
  /\ Settled # <<>> /\ file' = Front(Settled) /\ buffered' = <<>>

\* The append or the fsync raised, and the file was truncated back.
TruncatedBack ==
  /\ FlushRaises
  /\ file' = Settled /\ buffered' = <<>>

\* truncate() begins by writing out the handle's buffer, raises as the append
\* did and is passed over: the lines that got out stay, and the others are kept
\* in the buffer or are gone.
NotTruncated ==
  /\ FlushRaises
  /\ \E c \in Cuts(pending) :
       /\ file' = Appended(Settled, Cut(pending, c[1], c[2]), FALSE)
       /\ buffered' \in {<<>>, SubSeq(pending, c[1] + 1, Len(pending))}

\* tell() raised, with part of what the handle had kept written out.
TellRaises ==
  /\ FlushRaises
  /\ \E c \in Cuts(buffered) :
       /\ c[1] < Len(buffered)
       /\ file' = Appended(file, Cut(buffered, c[1], c[2]), TRUE)
       /\ buffered' = SubSeq(buffered, c[1] + 1, Len(buffered))

\* aclose() with nothing left to flush; the last page may be marked.
Close ==
  /\ open /\ pending = <<>>
  /\ open' = FALSE
  /\ UNCHANGED <<file, buffered, caller>>

\* The process ends, between calls or inside a flush; at its end it may write
\* out what the handle kept.
Crash ==
  /\ crashes < MaxCrashes
  /\ crashes' = crashes + 1
  /\ \/ UNCHANGED file
     \/ \E c \in Cuts(buffered) : file' = Appended(file, Cut(buffered, c[1], c[2]), TRUE)
     \/ open /\ \E c \in Cuts(pending) : file' = Appended(Settled, Cut(pending, c[1], c[2]), FALSE)
  /\ open' = FALSE /\ buffered' = <<>> /\ pending' = <<>> /\ page' = {}
  /\ UNCHANGED <<delivered, writes, faults>>

Next ==
  \/ Open \/ FlushReturns \/ TruncatedBack \/ NotTruncated \/ TellRaises \/ Close \/ Crash
  \/ \E r \in Records : Write(r)

Spec == Init /\ [][Next]_vars

-----------------------------------------------------------------------------
\* "Delivery is at least once: a crash can repeat a record, never lose one"
\* (exporters/async_base.py:21): the last line of a record is never older than
\* the one a flush returned for.
NeverLost == \A r \in Records : LastVersion(file, r, 0) >= delivered[r]

\* The same of every behaviour in which no append went on after a torn line.
NeverLostUnlessGarbled == IsGarbled(file) \/ NeverLost

-----------------------------------------------------------------------------
(* Why it holds: the inductive invariant.                                  *)

\* No line that is still to be written is older than what a flush returned for.
Newer(lines) == \A i \in 1..Len(lines) : lines[i].version \in delivered[lines[i].record]..writes

Typed ==
  /\ file \in Seq(Kept) /\ buffered \in Seq(Lines) /\ pending \in Seq(Lines)
  /\ delivered \in [Records -> Nat] /\ writes \in Nat

KeepInv ==
  /\ Typed /\ Newer(buffered) /\ Newer(pending) /\ \A r \in Records : delivered[r] <= writes
  /\ NeverLostUnlessGarbled
=============================================================================
