----------------------------- MODULE ExportLog ------------------------------
(***************************************************************************)
(* The append-only files of the exporters, line by line.  A line holds one *)
(* write of a record; versions count the writes, so a later write of a     *)
(* record has a higher version.  A fault or a crash in the middle of an    *)
(* append leaves a prefix of the lines, and possibly a torn last line      *)
(* without its newline.  What is appended after a torn line continues it.  *)
(***************************************************************************)
EXTENDS Naturals, Sequences, SequencesExt

CONSTANTS
  Records,    \* record ids
  MaxWrites   \* bound: how often write() is called

ASSUME WritesAssumption == MaxWrites \in Nat

Line(r, v) == [record |-> r, version |-> v, kind |-> "line"]
Lines == [record: Records, version: Nat, kind: {"line"}]

\* The start of a line, and a line that two appends made together.
Torn(line) == [line EXCEPT !.kind = "torn"]
Garbled(line) == [line EXCEPT !.kind = "garbled"]
Kept == [record: Records, version: Nat, kind: {"line", "torn", "garbled"}]

IsTorn(log) == log # <<>> /\ Last(log).kind = "torn"
IsGarbled(log) == \E i \in DOMAIN log : log[i].kind = "garbled"

\* Appending to a log.  completes says that the first of the lines is the rest
\* of the torn one.
Appended(log, lines, completes) ==
  CASE lines = <<>> -> log
    [] lines # <<>> /\ ~IsTorn(log) -> log \o lines
    [] lines # <<>> /\ IsTorn(log) /\ completes -> Front(log) \o lines
    [] OTHER -> Front(log) \o <<Garbled(Last(log))>> \o Tail(lines)

\* The first k lines, and the start of the next one when cut.
Cut(lines, k, cut) ==
  SubSeq(lines, 1, k) \o IF cut THEN <<Torn(lines[k + 1])>> ELSE <<>>
Cuts(lines) == {c \in (0..Len(lines)) \X BOOLEAN : c[2] => c[1] < Len(lines)}

\* The version of r that the last readable line gives, or otherwise.
LastVersion(log, r, otherwise) ==
  LET of == {i \in DOMAIN log : log[i].kind = "line" /\ log[i].record = r}
  IN  IF of = {} THEN otherwise
      ELSE log[CHOOSE i \in of : \A j \in of : j <= i].version

\* What a page of writes leaves of a record: its last version among the lines.
Latest(lines, page, before) ==
  [r \in Records |-> IF r \in page THEN LastVersion(lines, r, before[r]) ELSE before[r]]
=============================================================================
