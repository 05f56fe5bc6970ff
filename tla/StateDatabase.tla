--------------------------- MODULE StateDatabase ---------------------------
(***************************************************************************)
(* AsyncSqliteStateManager's file, which several processes open, upgrade   *)
(* and write.  The calls of one process follow each other (SqliteRunner).  *)
(* A transaction takes SQLite's write lock up front, and its statements    *)
(* change a draft of the file until it commits; a failure or a crash drops *)
(* the draft.                                                              *)
(***************************************************************************)
EXTENDS Naturals, Sequences, SequencesExt, FiniteSets

CONSTANTS
  Processes, Records, None,
  Cursors,     \* the cursors that are saved
  Existing,    \* the files the first process may find
  MaxOpens, MaxCalls, MaxFaults

Columns == {"tables", "heads", "cursor", "failures"}

Assumption ==
  /\ None \notin Processes /\ {MaxOpens, MaxCalls, MaxFaults} \subseteq Nat
  /\ Existing \subseteq {"new", "0.4", "0.4 with heads", "version 1", "current"}

VARIABLES
  file,      \* what is committed
  writer,    \* the process that has the write lock
  draft,     \* what its transaction has made of the file
  at,        \* at[p]: closed, opening, open or calling
  plan,      \* plan[p]: the transactions p is to run, each a sequence of statements
  call,      \* call[p]: what p called
  opens, dbCalls, dbFaults,
  \* history
  raced      \* two processes were opening the file at once

bounds == <<opens, dbCalls, dbFaults>>
databaseVars == <<file, writer, draft, at, plan, call, bounds, raced>>

-----------------------------------------------------------------------------
(* Statements *)

Add(column, once) == [do |-> "add", column |-> column, once |-> once]
Version(v) == [do |-> "version", to |-> v]

Mark(r) == <<[do |-> "insert", id |-> r], [do |-> "clear", id |-> r]>>
Forget(r) == <<[do |-> "delete", id |-> r], [do |-> "clear", id |-> r]>>
CountFailure(r) == <<[do |-> "count", id |-> r]>>
SaveMetadata(c) == <<[do |-> "save", cursor |-> c]>>

Statements(c) ==
  CASE c.op = "mark" -> Mark(c.id)
    [] c.op = "forget" -> Forget(c.id)
    [] c.op = "fail" -> CountFailure(c.id)
    [] c.op = "save" -> SaveMetadata(c.cursor)

\* The first migration accepts tables that are there, the second does not.
Migrations ==
  <<<<Add("tables", FALSE), Add("heads", FALSE)>>,
    <<Add("cursor", TRUE), [do |-> "upgrade"], Add("failures", TRUE)>>>>
Supported == Len(Migrations)

\* Mutant: the version is recorded ahead of the migration, in a transaction of its own.
RecordedFirst(v) == <<<<Version(v)>>, Migrations[v]>>

Recorded(v) == <<Append(Migrations[v], Version(v))>>

\* migrate(): the migrations above the version it has found.
Pending(found) ==
  (IF found < 1 THEN Recorded(1) ELSE <<>>) \o (IF found < 2 THEN Recorded(2) ELSE <<>>)

\* ALTER TABLE ADD COLUMN and CREATE TABLE refuse what is there.
Refused(s, db) == s.do = "add" /\ s.once /\ s.column \in db.columns

Executed(s, db) ==
  CASE s.do = "add" -> [db EXCEPT !.columns = @ \union {s.column}]
    [] s.do = "version" -> [db EXCEPT !.version = s.to]
    [] s.do = "upgrade" -> [db EXCEPT !.cursor = IF db.offset > 0 THEN db.offset ELSE @]
    [] s.do = "insert" -> [db EXCEPT !.ids = @ \union {s.id}]
    [] s.do = "delete" -> [db EXCEPT !.ids = @ \ {s.id}]
    [] s.do = "clear" -> [db EXCEPT !.attempts[s.id] = 0]
    [] s.do = "count" -> [db EXCEPT !.attempts[s.id] = @ + 1]
    [] s.do = "save" -> [db EXCEPT !.cursor = s.cursor]

-----------------------------------------------------------------------------

\* Files of earlier releases hold ids and an offset.
FileOf(kind) ==
  LET old == IF kind = "new" THEN 0 ELSE 1
  IN [version |-> CASE kind = "version 1" -> 1 [] kind = "current" -> 2 [] OTHER -> 0,
      columns |-> CASE kind = "new" -> {} [] kind = "0.4" -> {"tables"}
                    [] kind = "current" -> Columns [] OTHER -> {"tables", "heads"},
      ids |-> IF kind = "new" THEN {} ELSE Records, attempts |-> [r \in Records |-> 0],
      offset |-> old, cursor |-> IF kind = "current" THEN old ELSE 0]

Init ==
  /\ file \in {FileOf(kind) : kind \in Existing} /\ writer = None /\ draft = file
  /\ at = [p \in Processes |-> "closed"]
  /\ plan = [p \in Processes |-> <<>>] /\ call = [p \in Processes |-> None]
  /\ opens = 0 /\ dbCalls = 0 /\ dbFaults = 0 /\ raced = FALSE

\* _open_connection(): the version is read before any lock is taken; a file of a
\* newer version is refused.
Open(p) ==
  /\ at[p] = "closed" /\ opens < MaxOpens /\ opens' = opens + 1
  /\ file.version <= Supported
  /\ plan' = [plan EXCEPT ![p] = Pending(file.version)]
  /\ at' = [at EXCEPT ![p] = IF plan'[p] = <<>> THEN "open" ELSE "opening"]
  /\ raced' = (raced \/ (plan'[p] # <<>> /\ \E q \in Processes : at[q] = "opening"))
  /\ UNCHANGED <<file, writer, draft, call, dbCalls, dbFaults>>

Calls == [op : {"mark", "forget", "fail"}, id : Records] \union [op : {"save"}, cursor : Cursors]

Call(p) ==
  /\ at[p] = "open" /\ dbCalls < MaxCalls /\ dbCalls' = dbCalls + 1
  /\ \E c \in Calls : call' = [call EXCEPT ![p] = c] /\ plan' = [plan EXCEPT ![p] = <<Statements(c)>>]
  /\ at' = [at EXCEPT ![p] = "calling"]
  /\ UNCHANGED <<file, writer, draft, opens, dbFaults, raced>>

\* transaction(): BEGIN IMMEDIATE waits for the write lock.
Begin(p) ==
  /\ writer = None /\ plan[p] # <<>>
  /\ writer' = p /\ draft' = file
  /\ UNCHANGED <<file, at, plan, call, bounds, raced>>

\* ROLLBACK; a connection that could not be opened is closed.
Rollback(p) ==
  /\ writer' = IF writer = p THEN None ELSE writer
  /\ plan' = [plan EXCEPT ![p] = <<>>] /\ call' = [call EXCEPT ![p] = None]
  /\ UNCHANGED <<file, draft>>

Raises(p) ==
  /\ Rollback(p) /\ at' = [at EXCEPT ![p] = IF @ = "opening" THEN "closed" ELSE "open"]

\* Mutant: each statement commits by itself.
ExecuteCommitting(p) ==
  /\ writer = p /\ Head(plan[p]) # <<>>
  /\ IF Refused(Head(Head(plan[p])), draft) THEN Raises(p)
     ELSE /\ draft' = Executed(Head(Head(plan[p])), draft) /\ file' = draft'
          /\ plan' = [plan EXCEPT ![p][1] = Tail(@)]
          /\ UNCHANGED <<writer, at, call>>
  /\ UNCHANGED <<bounds, raced>>

Execute(p) ==
  /\ writer = p /\ Head(plan[p]) # <<>>
  /\ IF Refused(Head(Head(plan[p])), draft) THEN Raises(p)
     ELSE /\ draft' = Executed(Head(Head(plan[p])), draft)
          /\ plan' = [plan EXCEPT ![p][1] = Tail(@)]
          /\ UNCHANGED <<file, writer, at, call>>
  /\ UNCHANGED <<bounds, raced>>

Commit(p) ==
  /\ writer = p /\ Head(plan[p]) = <<>>
  /\ file' = draft /\ writer' = None
  /\ plan' = [plan EXCEPT ![p] = Tail(@)]
  /\ IF plan'[p] = <<>>
     THEN at' = [at EXCEPT ![p] = "open"] /\ call' = [call EXCEPT ![p] = None]
     ELSE UNCHANGED <<at, call>>
  /\ UNCHANGED <<draft, bounds, raced>>

\* A statement fails, or the lock does not come free in time.
Fails(p) ==
  /\ plan[p] # <<>> /\ dbFaults < MaxFaults /\ dbFaults' = dbFaults + 1
  /\ Raises(p)
  /\ UNCHANGED <<opens, dbCalls, raced>>

\* aclose(), or the process dies.
Leave(p) ==
  /\ at[p] # "closed" /\ at' = [at EXCEPT ![p] = "closed"]
  /\ IF plan[p] = <<>> THEN UNCHANGED dbFaults ELSE dbFaults < MaxFaults /\ dbFaults' = dbFaults + 1
  /\ Rollback(p)
  /\ UNCHANGED <<opens, dbCalls, raced>>

Next == \E p \in Processes :
  Open(p) \/ Call(p) \/ Begin(p) \/ Execute(p) \/ Commit(p) \/ Fails(p) \/ Leave(p)

Spec == Init /\ [][Next]_databaseVars

-----------------------------------------------------------------------------
(* Properties *)

ColumnsOf(v) == IF v = 1 THEN {"tables", "heads"} ELSE Columns

\* "Each migration newer than the file's PRAGMA user_version runs in its own
\* transaction and then records its version, so an interrupted upgrade resumes
\* where it stopped" (_migrations.py:43): the version recorded tells what the file
\* has, or no later opening gets past the migration that is there already.
VersionTellsColumns == file.version > 0 => file.columns = ColumnsOf(file.version)

\* So it is, through faults and crashes, unless two processes upgrade the file at
\* once; an open file is of the newest version, and no upgrade lost the offset.
UpgradesResume ==
  ~raced =>
    /\ VersionTellsColumns
    /\ (\E p \in Processes : at[p] \in {"open", "calling"}) => file.version = Supported
    /\ file.version = Supported /\ dbCalls = 0 => file.cursor = file.offset

\* What a call does to the file.
Effect(c, db) ==
  CASE c.op = "mark" -> [db EXCEPT !.ids = @ \union {c.id}, !.attempts[c.id] = 0]
    [] c.op = "forget" -> [db EXCEPT !.ids = @ \ {c.id}, !.attempts[c.id] = 0]
    [] c.op = "fail" -> [db EXCEPT !.attempts[c.id] = @ + 1]
    [] c.op = "save" -> [db EXCEPT !.cursor = c.cursor]

\* "concurrent runs cannot interleave a half-written record" (sqlite_async.py:60):
\* the file changes by the whole of one call, whatever other processes do, fail or
\* crash at, and an upgrade changes no id and no attempts.
CallsAreAtomic ==
  [][\/ \E p \in Processes : at[p] = "calling" /\ file' = Effect(call[p], file)
     \/ file'.ids = file.ids /\ file'.attempts = file.attempts /\ file'.cursor \in {file.cursor, file.offset}
        /\ \E p \in Processes : at[p] = "opening"]_file

-----------------------------------------------------------------------------
(* Why they hold: the parts of two inductive invariants.                   *)

Upgrading == [do: {"add"}, column: Columns, once: BOOLEAN] \union [do: {"version"}, to: 1..Supported]
             \union [do: {"upgrade"}]
Writing == [do: {"insert", "delete", "clear", "count"}, id: Records]
           \union [do: {"save"}, cursor: Cursors]

Files == [version: Nat, columns: SUBSET Columns, ids: SUBSET Records, attempts: [Records -> Nat],
          offset: Nat, cursor: Nat \union Cursors]

\* What a transaction's statements, at most four, make of db.
Ran(statements, db) ==
  LET ran(k, d) == IF k <= Len(statements) THEN Executed(statements[k], d) ELSE d
  IN  ran(4, ran(3, ran(2, ran(1, db))))

DatabaseTyped ==
  /\ file \in Files /\ draft \in Files
  /\ writer \in Processes \union {None}
  /\ at \in [Processes -> {"closed", "opening", "open", "calling"}]
  /\ plan \in [Processes -> Seq(Seq(Upgrading \union Writing))]
  /\ call = [p \in Processes |-> call[p]]
  /\ dbCalls \in Nat

\* What a process is to run is of the kind of what it is at, and the draft of a
\* transaction is what the statements behind it have made of the file.
Whole(p) ==
  /\ at[p] \in {"closed", "open"} => plan[p] = <<>> /\ writer # p
  /\ at[p] = "opening" =>
       /\ plan[p] # <<>> /\ plan[p] \in Seq(Seq(Upgrading))
       /\ writer = p => /\ draft.ids = file.ids /\ draft.attempts = file.attempts
                        /\ draft.offset = file.offset
                        /\ draft.cursor \in {file.cursor, file.offset}
  /\ at[p] = "calling" =>
       /\ call[p] \in Calls /\ dbCalls > 0 /\ Len(plan[p]) = 1
       /\ IF writer = p
          THEN Len(plan[p][1]) <= 4 /\ Ran(plan[p][1], draft) = Ran(Statements(call[p]), file)
          ELSE plan[p][1] = Statements(call[p])

TransactionsWhole == \A p \in Processes : Whole(p)

AtomicInv == DatabaseTyped /\ TransactionsWhole

\* The file is as its version tells, nothing but an upgrade changes an old one,
\* and its only upgrade goes on where the version says it stopped.
AsItsVersion ==
  /\ file.version \in 0..Supported /\ VersionTellsColumns
  /\ file.version = 0 => file.columns \subseteq ColumnsOf(1)
  /\ file.version < Supported => file.cursor = 0
  /\ file.version = Supported /\ dbCalls = 0 => file.cursor = file.offset

Resuming(p) ==
  /\ at[p] \in {"open", "calling"} => file.version = Supported
  /\ at[p] = "opening" =>
       /\ file.version < Supported
       /\ IF writer = p
          THEN /\ Tail(plan[p]) = Pending(file.version + 1) /\ Len(plan[p][1]) <= 4
               /\ Ran(plan[p][1], draft) = Ran(Recorded(file.version + 1)[1], file)
          ELSE plan[p] = Pending(file.version)

UpgradeInStep ==
  /\ \A p, q \in Processes : at[p] = "opening" /\ at[q] = "opening" => p = q
  /\ AsItsVersion
  /\ \A p \in Processes : Resuming(p)

ResumeInv == AtomicInv /\ (~raced => UpgradeInStep)
=============================================================================
