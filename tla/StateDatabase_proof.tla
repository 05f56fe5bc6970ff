------------------------ MODULE StateDatabase_proof ------------------------
(***************************************************************************)
(* What the state database keeps for every set of processes, records and   *)
(* cursors, and every number of openings, calls and faults: its file       *)
(* changes by whole calls, and unless two processes upgrade it at once an  *)
(* interrupted upgrade resumes where it stopped.                           *)
(***************************************************************************)
EXTENDS StateDatabase, SequenceTheorems, TLAPS

USE DEF bounds

-----------------------------------------------------------------------------
(* Short sequences.                                                        *)

LEMMA NotEmpty ==
  ASSUME NEW S, NEW s \in Seq(S), s # <<>>
  PROVE  /\ Len(s) \in Nat \ {0} /\ Head(s) = s[1] /\ Head(s) \in S
         /\ Tail(s) \in Seq(S) /\ Len(Tail(s)) = Len(s) - 1
         /\ \A k \in 1..Len(Tail(s)) : Tail(s)[k] = s[k + 1]
<1>1. /\ Head(s) \in S /\ Tail(s) \in Seq(S) /\ Len(Tail(s)) = Len(s) - 1
      /\ \A k \in 1..Len(Tail(s)) : Tail(s)[k] = s[k + 1]
  BY HeadTailProperties
<1>2. Len(Tail(s)) \in Nat /\ Len(s) \in Nat
  BY <1>1, LenProperties
<1>3. Len(s) \in Nat \ {0}
  BY <1>1, <1>2
<1>4. QED
  BY <1>1, <1>3

LEMMA Joined == \A a, b : <<a>> \o <<b>> = <<a, b>>
<1> SUFFICES ASSUME NEW a, NEW b PROVE <<a>> \o <<b>> = <<a, b>>
  OBVIOUS
<1> DEFINE S == {a, b}
<1>1. /\ <<a>> \in Seq(S) /\ Len(<<a>>) = 1 /\ <<b>> \in Seq(S) /\ Len(<<b>>) = 1
      /\ <<a, b>> \in Seq(S) /\ Len(<<a, b>>) = 2
  OBVIOUS
<1>2. <<a>> \o <<b>> \in Seq(S) /\ Len(<<a>> \o <<b>>) = 2
  BY <1>1, ConcatProperties
<1>3. \A k \in 1..2 : (<<a>> \o <<b>>)[k] = <<a, b>>[k]
  BY <1>1, ConcatProperties
<1>4. QED
  BY <1>1, <1>2, <1>3, SeqEqual

LEMMA AppendedToTwo == \A a, b, c : Append(<<a, b>>, c) = <<a, b, c>>
<1> SUFFICES ASSUME NEW a, NEW b, NEW c PROVE Append(<<a, b>>, c) = <<a, b, c>>
  OBVIOUS
<1> DEFINE S == {a, b, c}
<1>1. <<a, b>> \in Seq(S) /\ Len(<<a, b>>) = 2 /\ <<a, b, c>> \in Seq(S)
  OBVIOUS
<1>2. Append(<<a, b>>, c) \in Seq(S) /\ Len(Append(<<a, b>>, c)) = 3
  BY <1>1, AppendProperties
<1>3. \A k \in 1..3 : Append(<<a, b>>, c)[k] = <<a, b, c>>[k]
  BY <1>1, AppendProperties
<1>4. QED
  BY <1>1, <1>2, <1>3, SeqEqual

LEMMA AppendedToThree == \A a, b, c, d : Append(<<a, b, c>>, d) = <<a, b, c, d>>
<1> SUFFICES ASSUME NEW a, NEW b, NEW c, NEW d PROVE Append(<<a, b, c>>, d) = <<a, b, c, d>>
  OBVIOUS
<1> DEFINE S == {a, b, c, d}
<1>1. <<a, b, c>> \in Seq(S) /\ Len(<<a, b, c>>) = 3 /\ <<a, b, c, d>> \in Seq(S)
  OBVIOUS
<1>2. Append(<<a, b, c>>, d) \in Seq(S) /\ Len(Append(<<a, b, c>>, d)) = 4
  BY <1>1, AppendProperties
<1>3. \A k \in 1..4 : Append(<<a, b, c>>, d)[k] = <<a, b, c, d>>[k]
  BY <1>1, AppendProperties
<1>4. QED
  BY <1>1, <1>2, <1>3, SeqEqual

-----------------------------------------------------------------------------
(* Statements.                                                             *)

Stated == Upgrading \union Writing

LEMMA SupportedIsTwo == Supported = 2
BY DEF Supported, Migrations

\* A statement makes a file of a file.
LEMMA ExecutedTyped ==
  ASSUME NEW s \in Stated, NEW d \in Files
  PROVE  Executed(s, d) \in Files
<1>1. CASE s \in [do: {"add"}, column: Columns, once: BOOLEAN]
  BY <1>1 DEF Executed, Files
<1>2. CASE s \in [do: {"version"}, to: 1..Supported]
  <2>1. s.do = "version" /\ s.to \in Nat
    BY <1>2, SupportedIsTwo
  <2>2. QED
    BY <2>1 DEF Executed, Files
<1>3. CASE s \in [do: {"upgrade"}]
  BY <1>3 DEF Executed, Files
<1>4. CASE s \in [do: {"insert", "delete", "clear", "count"}, id: Records]
  <2>1. /\ [d.attempts EXCEPT ![s.id] = 0] \in [Records -> Nat]
        /\ [d.attempts EXCEPT ![s.id] = @ + 1] \in [Records -> Nat]
    BY <1>4 DEF Files
  <2>2. CASE s.do \in {"insert", "delete"}
    BY <1>4, <2>2 DEF Executed, Files
  <2>3. CASE s.do = "clear"
    BY <1>4, <2>1, <2>3 DEF Executed, Files
  <2>4. CASE s.do = "count"
    BY <1>4, <2>1, <2>4 DEF Executed, Files
  <2>5. QED
    BY <1>4, <2>2, <2>3, <2>4
<1>5. CASE s \in [do: {"save"}, cursor: Cursors]
  BY <1>5 DEF Executed, Files
<1>6. QED
  BY <1>1, <1>2, <1>3, <1>4, <1>5 DEF Stated, Upgrading, Writing

\* An upgrade's statement changes no id, no attempts and no offset, and a cursor
\* only to the offset.
LEMMA UpgradingKeeps ==
  ASSUME NEW s \in Upgrading, NEW d \in Files
  PROVE  /\ Executed(s, d).ids = d.ids
         /\ Executed(s, d).attempts = d.attempts
         /\ Executed(s, d).offset = d.offset
         /\ Executed(s, d).cursor \in {d.cursor, d.offset}
BY DEF Upgrading, Executed, Files

\* What no more than four statements make of db, one after the other.
LEMMA RanAre ==
  ASSUME NEW s \in Seq(Stated), NEW d
  PROVE  /\ Len(s) = 0 => Ran(s, d) = d
         /\ Len(s) = 1 => Ran(s, d) = Executed(s[1], d)
         /\ Len(s) = 2 => Ran(s, d) = Executed(s[2], Executed(s[1], d))
         /\ Len(s) = 3 => Ran(s, d) = Executed(s[3], Executed(s[2], Executed(s[1], d)))
         /\ Len(s) = 4 =>
              Ran(s, d) = Executed(s[4], Executed(s[3], Executed(s[2], Executed(s[1], d))))
<1>1. CASE Len(s) = 0
  BY <1>1 DEF Ran
<1>2. CASE Len(s) = 1
  BY <1>2 DEF Ran
<1>3. CASE Len(s) = 2
  BY <1>3 DEF Ran
<1>4. CASE Len(s) = 3
  BY <1>4 DEF Ran
<1>5. CASE Len(s) = 4
  BY <1>5 DEF Ran
<1>6. QED
  BY <1>1, <1>2, <1>3, <1>4, <1>5

\* Executing the first statement leaves to the others what they all make of db.
LEMMA RanNext ==
  ASSUME NEW rest \in Seq(Stated), rest # <<>>, Len(rest) <= 4, NEW d
  PROVE  Ran(Tail(rest), Executed(Head(rest), d)) = Ran(rest, d)
<1> DEFINE t == Tail(rest)
           e == Executed(rest[1], d)
<1>0. /\ Len(rest) \in Nat \ {0} /\ Head(rest) = rest[1]
      /\ t \in Seq(Stated) /\ Len(t) = Len(rest) - 1
      /\ \A k \in 1..Len(t) : t[k] = rest[k + 1]
  BY NotEmpty
<1> HIDE DEF t, e
<1>1. /\ Len(rest) \in 1..4 /\ Head(rest) = rest[1]
      /\ t \in Seq(Stated) /\ Len(t) = Len(rest) - 1
      /\ \A k \in 1..Len(t) : t[k] = rest[k + 1]
  BY <1>0
<1>2. CASE Len(rest) = 1
  <2>1. Len(t) = 0
    BY <1>1, <1>2
  <2>2. Ran(t, e) = e /\ Ran(rest, d) = Executed(rest[1], d)
    BY <1>1, <1>2, <2>1, RanAre
  <2>3. QED
    BY <1>1, <2>2 DEF t, e
<1>3. CASE Len(rest) = 2
  <2>1. Len(t) = 1 /\ t[1] = rest[2]
    BY <1>1, <1>3
  <2>2. Ran(t, e) = Executed(t[1], e) /\ Ran(rest, d) = Executed(rest[2], Executed(rest[1], d))
    BY <1>1, <1>3, <2>1, RanAre
  <2>3. QED
    BY <1>1, <2>1, <2>2 DEF t, e
<1>4. CASE Len(rest) = 3
  <2>1. Len(t) = 2 /\ t[1] = rest[2] /\ t[2] = rest[3]
    BY <1>1, <1>4
  <2>2. /\ Ran(t, e) = Executed(t[2], Executed(t[1], e))
        /\ Ran(rest, d) = Executed(rest[3], Executed(rest[2], Executed(rest[1], d)))
    BY <1>1, <1>4, <2>1, RanAre
  <2>3. QED
    BY <1>1, <2>1, <2>2 DEF t, e
<1>5. CASE Len(rest) = 4
  <2>1. Len(t) = 3 /\ t[1] = rest[2] /\ t[2] = rest[3] /\ t[3] = rest[4]
    BY <1>1, <1>5
  <2>2. /\ Ran(t, e) = Executed(t[3], Executed(t[2], Executed(t[1], e)))
        /\ Ran(rest, d) = Executed(rest[4], Executed(rest[3], Executed(rest[2], Executed(rest[1], d))))
    BY <1>1, <1>5, <2>1, RanAre
  <2>3. QED
    BY <1>1, <2>1, <2>2 DEF t, e
<1>6. QED
  BY <1>1, <1>2, <1>3, <1>4, <1>5

\* Nothing left to execute leaves db.
LEMMA RanNothing == \A d : Ran(<<>>, d) = d
BY DEF Ran

-----------------------------------------------------------------------------
(* Calls.                                                                  *)

\* A call is of one of four kinds; only saving has a cursor.
LEMMA CallsAre ==
  ASSUME NEW c \in Calls
  PROVE  \/ c.op \in {"mark", "forget", "fail"} /\ c.id \in Records
         \/ c.op = "save" /\ c.cursor \in Cursors
BY DEF Calls

\* The statements of a call make of a file what the call does to it.
LEMMA StatementsAre ==
  ASSUME NEW c \in Calls, NEW d \in Files
  PROVE  /\ Statements(c) \in Seq(Stated) /\ Len(Statements(c)) <= 4
         /\ Ran(Statements(c), d) = Effect(c, d)
<1>1. CASE c.op = "mark"
  <2> DEFINE s == [do |-> "insert", id |-> c.id]
             t == [do |-> "clear", id |-> c.id]
  <2>1. s \in Stated /\ t \in Stated /\ Statements(c) = <<s, t>>
    BY <1>1, CallsAre DEF Stated, Writing, Statements, Mark
  <2>2. Ran(<<s, t>>, d) = Executed(t, Executed(s, d))
    BY DEF Ran
  <2>3. Executed(t, Executed(s, d)) = Effect(c, d)
    BY <1>1, CallsAre DEF Executed, Effect, Files
  <2>4. QED
    BY <2>1, <2>2, <2>3
<1>2. CASE c.op = "forget"
  <2> DEFINE s == [do |-> "delete", id |-> c.id]
             t == [do |-> "clear", id |-> c.id]
  <2>1. s \in Stated /\ t \in Stated /\ Statements(c) = <<s, t>>
    BY <1>2, CallsAre DEF Stated, Writing, Statements, Forget
  <2>2. Ran(<<s, t>>, d) = Executed(t, Executed(s, d))
    BY DEF Ran
  <2>3. Executed(t, Executed(s, d)) = Effect(c, d)
    BY <1>2, CallsAre DEF Executed, Effect, Files
  <2>4. QED
    BY <2>1, <2>2, <2>3
<1>3. CASE c.op = "fail"
  <2> DEFINE s == [do |-> "count", id |-> c.id]
  <2>1. s \in Stated /\ Statements(c) = <<s>>
    BY <1>3, CallsAre DEF Stated, Writing, Statements, CountFailure
  <2>2. Ran(<<s>>, d) = Executed(s, d)
    BY DEF Ran
  <2>3. Executed(s, d) = Effect(c, d)
    BY <1>3 DEF Executed, Effect
  <2>4. QED
    BY <2>1, <2>2, <2>3
<1>4. CASE c.op = "save"
  <2> DEFINE s == [do |-> "save", cursor |-> c.cursor]
  <2>1. s \in Stated /\ Statements(c) = <<s>>
    BY <1>4, CallsAre DEF Stated, Writing, Statements, SaveMetadata
  <2>2. Ran(<<s>>, d) = Executed(s, d)
    BY DEF Ran
  <2>3. Executed(s, d) = Effect(c, d)
    BY <1>4 DEF Executed, Effect
  <2>4. QED
    BY <2>1, <2>2, <2>3
<1>5. QED
  BY <1>1, <1>2, <1>3, <1>4, CallsAre

-----------------------------------------------------------------------------
(* Migrations.                                                             *)

Tables == <<Add("tables", FALSE), Add("heads", FALSE), Version(1)>>
Cursor == <<Add("cursor", TRUE), [do |-> "upgrade"], Add("failures", TRUE), Version(2)>>

LEMMA RecordedAre == Recorded(1) = <<Tables>> /\ Recorded(2) = <<Cursor>>
<1>1. /\ Migrations[1] = <<Add("tables", FALSE), Add("heads", FALSE)>>
      /\ Migrations[2] = <<Add("cursor", TRUE), [do |-> "upgrade"], Add("failures", TRUE)>>
  BY Zenon DEF Migrations
<1>2. QED
  BY <1>1, AppendedToTwo, AppendedToThree DEF Recorded, Tables, Cursor

LEMMA UpgradesStated == \A s \in Seq(Seq(Upgrading)) : s \in Seq(Seq(Stated))
<1>1. Upgrading \subseteq Stated
  BY DEF Stated
<1>2. Seq(Upgrading) \subseteq Seq(Stated)
  BY <1>1, SeqMonotonic
<1>3. QED
  BY <1>2, SeqMonotonic

LEMMA MigrationsTyped == Tables \in Seq(Upgrading) /\ Cursor \in Seq(Upgrading)
<1>1. /\ Add("tables", FALSE) \in Upgrading /\ Add("heads", FALSE) \in Upgrading
      /\ Add("cursor", TRUE) \in Upgrading /\ Add("failures", TRUE) \in Upgrading
      /\ [do |-> "upgrade"] \in Upgrading
      /\ Version(1) \in Upgrading /\ Version(2) \in Upgrading
  BY SupportedIsTwo DEF Upgrading, Columns, Add, Version
<1>2. /\ \A a, b, c \in Upgrading : <<a, b, c>> \in Seq(Upgrading)
      /\ \A a, b, c, d \in Upgrading : <<a, b, c, d>> \in Seq(Upgrading)
  OBVIOUS
<1>3. QED
  BY <1>1, <1>2 DEF Tables, Cursor

\* The migrations above a version, one transaction each.
LEMMA PendingAre ==
  /\ Pending(0) = <<Tables, Cursor>> /\ Pending(1) = <<Cursor>> /\ Pending(2) = <<>>
<1>1. Recorded(1) \o Recorded(2) = <<Tables, Cursor>>
  BY RecordedAre, Joined
<1>2. <<>> \o Recorded(2) = <<Cursor>>
  BY RecordedAre
<1>3. QED
  BY <1>1, <1>2 DEF Pending

\* The first migration that is pending leads to the next version.
LEMMA PendingNext ==
  ASSUME NEW v \in 0..1
  PROVE  /\ Pending(v) # <<>> /\ Pending(v) \in Seq(Seq(Upgrading))
         /\ Pending(v)[1] = Recorded(v + 1)[1] /\ Len(Pending(v)[1]) <= 4
         /\ Tail(Pending(v)) = Pending(v + 1)
<1>1. Len(Tables) <= 4 /\ Len(Cursor) <= 4
  BY DEF Tables, Cursor
<1>2. CASE v = 0
  <2>1. Pending(v) = <<Tables, Cursor>> /\ Pending(v + 1) = <<Cursor>> /\ Recorded(v + 1) = <<Tables>>
    BY <1>2, PendingAre, RecordedAre
  <2>2. /\ <<Tables, Cursor>> # <<>> /\ <<Tables, Cursor>>[1] = Tables /\ <<Tables>>[1] = Tables
        /\ Tail(<<Tables, Cursor>>) = <<Cursor>>
    OBVIOUS
  <2>3. <<Tables, Cursor>> \in Seq(Seq(Upgrading))
    BY MigrationsTyped
  <2>4. QED
    BY <1>1, <2>1, <2>2, <2>3
<1>3. CASE v = 1
  <2>1. Pending(v) = <<Cursor>> /\ Pending(v + 1) = <<>> /\ Recorded(v + 1) = <<Cursor>>
    BY <1>3, PendingAre, RecordedAre
  <2>2. <<Cursor>> # <<>> /\ <<Cursor>>[1] = Cursor /\ Tail(<<Cursor>>) = <<>>
    OBVIOUS
  <2>3. <<Cursor>> \in Seq(Seq(Upgrading))
    BY MigrationsTyped
  <2>4. QED
    BY <1>1, <2>1, <2>2, <2>3
<1>4. QED
  BY <1>2, <1>3

\* What a migration's statements make of a file.
LEMMA AddMakes ==
  ASSUME NEW d \in Files, NEW column \in Columns, NEW once
  PROVE  LET e == Executed(Add(column, once), d)
         IN  /\ e \in Files /\ e.version = d.version /\ e.columns = d.columns \union {column}
             /\ e.cursor = d.cursor /\ e.offset = d.offset
BY DEF Executed, Add, Files

LEMMA UpgradeMakes ==
  ASSUME NEW d \in Files
  PROVE  LET e == Executed([do |-> "upgrade"], d)
         IN  /\ e \in Files /\ e.version = d.version /\ e.columns = d.columns
             /\ e.cursor = (IF d.offset > 0 THEN d.offset ELSE d.cursor) /\ e.offset = d.offset
BY DEF Executed, Files

LEMMA VersionMakes ==
  ASSUME NEW d \in Files, NEW v \in Nat
  PROVE  LET e == Executed(Version(v), d)
         IN  /\ e.version = v /\ e.columns = d.columns
             /\ e.cursor = d.cursor /\ e.offset = d.offset
BY DEF Executed, Version, Files

\* The first migration makes the tables and the heads.
LEMMA TablesMake ==
  ASSUME NEW d \in Files
  PROVE  /\ Ran(Tables, d).version = 1
         /\ Ran(Tables, d).columns = d.columns \union {"tables", "heads"}
         /\ Ran(Tables, d).cursor = d.cursor
         /\ Ran(Tables, d).offset = d.offset
<1> DEFINE a == Executed(Add("tables", FALSE), d)
           b == Executed(Add("heads", FALSE), a)
           c == Executed(Version(1), b)
<1>1. Ran(Tables, d) = c
  BY DEF Ran, Tables
<1>2. "tables" \in Columns /\ "heads" \in Columns
  BY DEF Columns
<1>3. /\ a \in Files /\ a.version = d.version /\ a.columns = d.columns \union {"tables"}
      /\ a.cursor = d.cursor /\ a.offset = d.offset
  BY <1>2, AddMakes
<1> HIDE DEF a
<1>4. /\ b \in Files /\ b.version = a.version /\ b.columns = a.columns \union {"heads"}
      /\ b.cursor = a.cursor /\ b.offset = a.offset
  BY <1>2, <1>3, AddMakes
<1> HIDE DEF b
<1>5. c.version = 1 /\ c.columns = b.columns /\ c.cursor = b.cursor /\ c.offset = b.offset
  BY <1>4, VersionMakes
<1> HIDE DEF c
<1>6. QED
  BY <1>1, <1>3, <1>4, <1>5

\* The second makes the cursor, taken from the offset, and the failures.
LEMMA CursorMakes ==
  ASSUME NEW d \in Files
  PROVE  /\ Ran(Cursor, d).version = 2
         /\ Ran(Cursor, d).columns = d.columns \union {"cursor", "failures"}
         /\ Ran(Cursor, d).cursor = (IF d.offset > 0 THEN d.offset ELSE d.cursor)
         /\ Ran(Cursor, d).offset = d.offset
<1> DEFINE a == Executed(Add("cursor", TRUE), d)
           b == Executed([do |-> "upgrade"], a)
           c == Executed(Add("failures", TRUE), b)
           e == Executed(Version(2), c)
<1>1. Ran(Cursor, d) = e
  BY DEF Ran, Cursor
<1>2. "cursor" \in Columns /\ "failures" \in Columns
  BY DEF Columns
<1>3. /\ a \in Files /\ a.version = d.version /\ a.columns = d.columns \union {"cursor"}
      /\ a.cursor = d.cursor /\ a.offset = d.offset
  BY <1>2, AddMakes
<1> HIDE DEF a
<1>4. /\ b \in Files /\ b.version = a.version /\ b.columns = a.columns
      /\ b.cursor = (IF a.offset > 0 THEN a.offset ELSE a.cursor) /\ b.offset = a.offset
  BY <1>3, UpgradeMakes
<1> HIDE DEF b
<1>5. /\ c \in Files /\ c.version = b.version /\ c.columns = b.columns \union {"failures"}
      /\ c.cursor = b.cursor /\ c.offset = b.offset
  BY <1>2, <1>4, AddMakes
<1> HIDE DEF c
<1>6. e.version = 2 /\ e.columns = c.columns /\ e.cursor = c.cursor /\ e.offset = c.offset
  BY <1>5, VersionMakes
<1> HIDE DEF e
<1>7. QED
  BY <1>1, <1>3, <1>4, <1>5, <1>6

-----------------------------------------------------------------------------
(* Calls are atomic.                                                       *)

\* What the earlier releases left is a file.
LEMMA FileOfTyped == \A kind : FileOf(kind) \in Files
BY DEF FileOf, Files, Columns

LEMMA AtomicInit == Assumption /\ Init => AtomicInv
<1> SUFFICES ASSUME Assumption, Init PROVE AtomicInv
  OBVIOUS
<1>1. DatabaseTyped
  BY FileOfTyped DEF Init, DatabaseTyped
<1>2. TransactionsWhole
  BY DEF Init, Assumption, TransactionsWhole, Whole
<1>3. QED
  BY <1>1, <1>2 DEF AtomicInv

\* What a process that is at its transactions has left to do.
LEMMA Working ==
  ASSUME AtomicInv, NEW p \in Processes, plan[p] # <<>> \/ writer = p
  PROVE  /\ at[p] \in {"opening", "calling"} /\ plan[p] # <<>>
         /\ plan[p] \in Seq(Seq(Stated)) /\ Len(plan[p]) \in Nat \ {0}
         /\ Head(plan[p]) = plan[p][1] /\ plan[p][1] \in Seq(Stated)
         /\ Tail(plan[p]) \in Seq(Seq(Stated))
<1>1. plan[p] \in Seq(Seq(Stated)) /\ at[p] \in {"closed", "opening", "open", "calling"}
  BY DEF AtomicInv, DatabaseTyped, Stated
<1>2. at[p] \in {"opening", "calling"}
  BY <1>1 DEF AtomicInv, TransactionsWhole, Whole
<1>3. plan[p] # <<>>
  <2>1. CASE at[p] = "opening"
    BY <2>1 DEF AtomicInv, TransactionsWhole, Whole
  <2>2. CASE at[p] = "calling"
    BY <2>2 DEF AtomicInv, TransactionsWhole, Whole
  <2>3. QED
    BY <1>2, <2>1, <2>2
<1>4. QED
  BY <1>1, <1>2, <1>3, NotEmpty

LEMMA RaisesKeepsAtomic ==
  ASSUME Assumption, AtomicInv, NEW p \in Processes, Rollback(p),
         at' = [at EXCEPT ![p] = "closed"] \/ at' = [at EXCEPT ![p] = "open"],
         dbCalls' = dbCalls
  PROVE  AtomicInv'
<1>1. DatabaseTyped'
  <2>1. plan' \in [Processes -> Seq(Seq(Stated))]
    BY EmptySeq DEF AtomicInv, DatabaseTyped, Rollback, Stated
  <2>2. QED
    BY <2>1 DEF AtomicInv, DatabaseTyped, Rollback, Stated
<1>2. TransactionsWhole'
  <2> SUFFICES ASSUME NEW q \in Processes PROVE Whole(q)'
    BY DEF TransactionsWhole
  <2>1. CASE q = p
    BY <2>1 DEF AtomicInv, DatabaseTyped, Rollback, Assumption, Whole
  <2>2. CASE q # p
    <3>1. /\ at'[q] = at[q] /\ plan'[q] = plan[q] /\ call'[q] = call[q] /\ (writer' = q <=> writer = q)
          /\ file' = file /\ draft' = draft
      BY <2>2 DEF AtomicInv, DatabaseTyped, Rollback, Assumption
    <3>2. QED
      BY <3>1 DEF AtomicInv, TransactionsWhole, Whole
  <2>3. QED
    BY <2>1, <2>2
<1>3. QED
  BY <1>1, <1>2 DEF AtomicInv

\* A process that is not at the step keeps what it has left to do.
LEMMA OthersWhole ==
  ASSUME AtomicInv, NEW q \in Processes,
         at'[q] = at[q], plan'[q] = plan[q], call'[q] = call[q],
         writer # q, writer' # q, dbCalls' \in Nat, dbCalls' >= dbCalls
  PROVE  Whole(q)'
BY DEF AtomicInv, TransactionsWhole, Whole, DatabaseTyped

LEMMA OpenKeepsAtomic ==
  ASSUME Assumption, AtomicInv, NEW p \in Processes, Open(p)
  PROVE  AtomicInv'
<1>1. /\ Pending(file.version) \in Seq(Seq(Upgrading)) /\ Pending(file.version) \in Seq(Seq(Stated))
      /\ Pending(file.version) = <<>> <=> file.version = 2
  <2>1. file.version \in 0..1 \/ file.version = 2
    BY SupportedIsTwo DEF Open, AtomicInv, DatabaseTyped, Files
  <2>2. CASE file.version \in 0..1
    <3>1. Pending(file.version) # <<>> /\ Pending(file.version) \in Seq(Seq(Upgrading))
      BY <2>2, PendingNext
    <3>2. QED
      BY <2>2, <3>1, UpgradesStated
  <2>3. CASE file.version = 2
    <3>1. Pending(file.version) = <<>>
      BY <2>3, PendingAre
    <3>2. QED
      BY <2>3, <3>1, EmptySeq
  <2>4. QED
    BY <2>1, <2>2, <2>3
<1>2. DatabaseTyped'
  BY <1>1 DEF Open, AtomicInv, DatabaseTyped, Stated
<1>3. ASSUME NEW q \in Processes PROVE Whole(q)'
  <2>1. writer # p
    BY DEF Open, AtomicInv, TransactionsWhole, Whole
  <2>2. CASE q = p
    BY <1>1, <2>1, <2>2 DEF Open, AtomicInv, DatabaseTyped, Whole
  <2>3. CASE q # p
    <3>1. /\ at'[q] = at[q] /\ plan'[q] = plan[q] /\ call'[q] = call[q] /\ writer' = writer
          /\ file' = file /\ draft' = draft /\ dbCalls' = dbCalls
      BY <2>3 DEF Open, AtomicInv, DatabaseTyped
    <3>2. QED
      BY <3>1 DEF AtomicInv, TransactionsWhole, Whole
  <2>4. QED
    BY <2>2, <2>3
<1>4. QED
  BY <1>2, <1>3 DEF AtomicInv, TransactionsWhole

LEMMA CallTyped ==
  ASSUME DatabaseTyped, NEW p \in Processes, NEW c,
         file' = file, draft' = draft, writer' = writer, dbCalls' = dbCalls + 1,
         at' = [at EXCEPT ![p] = "calling"], call' = [call EXCEPT ![p] = c],
         plan' \in [Processes -> Seq(Seq(Stated))]
  PROVE  DatabaseTyped'
<1>1. at' \in [Processes -> {"closed", "opening", "open", "calling"}]
  BY DEF DatabaseTyped
<1>2. call' = [q \in Processes |-> call'[q]]
  BY DEF DatabaseTyped
<1>3. QED
  BY <1>1, <1>2 DEF DatabaseTyped, Stated

LEMMA CallKeepsAtomic ==
  ASSUME Assumption, AtomicInv, NEW p \in Processes, Call(p)
  PROVE  AtomicInv'
<1> PICK c \in Calls : call' = [call EXCEPT ![p] = c] /\ plan' = [plan EXCEPT ![p] = <<Statements(c)>>]
  BY DEF Call
<1>1. Statements(c) \in Seq(Stated)
  BY StatementsAre DEF AtomicInv, DatabaseTyped
<1>2. DatabaseTyped'
  <2>1. <<Statements(c)>> \in Seq(Seq(Stated))
    BY <1>1
  <2>2. plan' \in [Processes -> Seq(Seq(Stated))]
    BY <2>1 DEF AtomicInv, DatabaseTyped, Stated
  <2>3. QED
    <3>1. /\ file' = file /\ draft' = draft /\ writer' = writer /\ dbCalls' = dbCalls + 1
          /\ at' = [at EXCEPT ![p] = "calling"] /\ call' = [call EXCEPT ![p] = c]
      BY DEF Call
    <3>2. QED
      BY <2>2, <3>1, CallTyped DEF AtomicInv
<1>3. ASSUME NEW q \in Processes PROVE Whole(q)'
  <2>1. writer # p
    BY DEF Call, AtomicInv, TransactionsWhole, Whole
  <2>2. CASE q = p
    <3>1. /\ at'[p] = "calling" /\ call'[p] = c /\ plan'[p] = <<Statements(c)>> /\ writer' = writer
          /\ dbCalls' > 0
      BY DEF Call, AtomicInv, DatabaseTyped
    <3>2. QED
      BY <2>1, <2>2, <3>1 DEF Whole
  <2>3. CASE q # p
    <3>1. /\ at'[q] = at[q] /\ plan'[q] = plan[q] /\ call'[q] = call[q] /\ writer' = writer
          /\ file' = file /\ draft' = draft /\ dbCalls' > 0
      BY <2>3 DEF Call, AtomicInv, DatabaseTyped
    <3>2. QED
      BY <3>1 DEF AtomicInv, TransactionsWhole, Whole
  <2>4. QED
    BY <2>2, <2>3
<1>4. QED
  BY <1>2, <1>3 DEF AtomicInv, TransactionsWhole

LEMMA BeginKeepsAtomic ==
  ASSUME Assumption, AtomicInv, NEW p \in Processes, Begin(p)
  PROVE  AtomicInv'
<1>1. DatabaseTyped'
  BY DEF Begin, AtomicInv, DatabaseTyped
<1>2. ASSUME NEW q \in Processes PROVE Whole(q)'
  <2>1. CASE q = p
    <3>1. at[p] = "calling" => Len(Statements(call[p])) <= 4
      BY StatementsAre DEF AtomicInv, DatabaseTyped, TransactionsWhole, Whole
    <3>2. QED
      BY <2>1, <3>1, Working DEF Begin, Assumption, AtomicInv, TransactionsWhole, Whole
  <2>2. CASE q # p
    <3>1. /\ writer # q /\ writer' # q
          /\ at' = at /\ plan' = plan /\ call' = call /\ dbCalls' = dbCalls /\ dbCalls \in Nat
      BY <2>2 DEF Begin, Assumption, AtomicInv, DatabaseTyped
    <3>2. QED
      BY <3>1, OthersWhole
  <2>3. QED
    BY <2>1, <2>2
<1>3. QED
  BY <1>1, <1>2 DEF AtomicInv, TransactionsWhole

\* The statements left of a transaction, after its first.
LEMMA LeftOver ==
  ASSUME NEW s \in Seq(Seq(Stated)), s # <<>>, s[1] # <<>>
  PROVE  LET t == [s EXCEPT ![1] = Tail(@)]
         IN  /\ t \in Seq(Seq(Stated)) /\ Len(t) = Len(s) /\ t # <<>>
             /\ t[1] = Tail(s[1]) /\ Tail(t) = Tail(s)
             /\ s \in Seq(Seq(Upgrading)) => t \in Seq(Seq(Upgrading))
<1> DEFINE t == [s EXCEPT ![1] = Tail(@)]
<1>1. s[1] \in Seq(Stated) /\ Len(s) \in Nat \ {0} /\ 1 \in 1..Len(s)
  BY NotEmpty
<1>2. Tail(s[1]) \in Seq(Stated)
  BY <1>1, NotEmpty
<1>3. /\ t \in Seq(Seq(Stated)) /\ Len(t) = Len(s)
      /\ \A k \in 1..Len(s) : t[k] = IF k = 1 THEN Tail(s[1]) ELSE s[k]
  BY <1>1, <1>2, ExceptSeq
<1> HIDE DEF t
<1>4. t # <<>>
  BY <1>1, <1>3
<1>5. t[1] = Tail(s[1])
  BY <1>1, <1>3
<1>6. Tail(t) = Tail(s)
  <2>1. /\ Tail(s) \in Seq(Seq(Stated)) /\ Len(Tail(s)) = Len(s) - 1
        /\ \A k \in 1..Len(Tail(s)) : Tail(s)[k] = s[k + 1]
    BY NotEmpty
  <2>2. /\ Tail(t) \in Seq(Seq(Stated)) /\ Len(Tail(t)) = Len(s) - 1
        /\ \A k \in 1..Len(Tail(t)) : Tail(t)[k] = t[k + 1]
    BY <1>3, <1>4, NotEmpty
  <2>3. \A k \in 1..Len(Tail(t)) : Tail(t)[k] = Tail(s)[k]
    BY <1>1, <1>3, <2>1, <2>2
  <2>4. QED
    BY <2>1, <2>2, <2>3, SeqEqual
<1>7. ASSUME s \in Seq(Seq(Upgrading)) PROVE t \in Seq(Seq(Upgrading))
  <2>1. s[1] \in Seq(Upgrading)
    BY <1>1, <1>7, ElementOfSeq
  <2>2. Tail(s[1]) \in Seq(Upgrading)
    BY <2>1, NotEmpty
  <2>3. QED
    BY <1>1, <1>7, <2>2, ExceptSeq DEF t
<1>8. QED
  BY <1>3, <1>4, <1>5, <1>6, <1>7 DEF t

\* A statement that the file does not refuse changes the draft.
Executes(p) ==
  /\ writer = p /\ Head(plan[p]) # <<>>
  /\ draft' = Executed(Head(Head(plan[p])), draft)
  /\ plan' = [plan EXCEPT ![p][1] = Tail(@)]
  /\ UNCHANGED <<file, writer, at, call, bounds, raced>>

\* What executing leaves of the writer's transaction, and what it has made.
LEMMA ExecutesOne ==
  ASSUME AtomicInv, NEW p \in Processes, Executes(p)
  PROVE  LET s == Head(Head(plan[p]))
         IN  /\ s \in Stated /\ draft' \in Files /\ plan'[p] \in Seq(Seq(Stated))
             /\ Len(plan'[p]) = Len(plan[p]) /\ plan'[p] # <<>>
             /\ plan'[p][1] = Tail(plan[p][1]) /\ Len(plan'[p][1]) = Len(plan[p][1]) - 1
             /\ Tail(plan'[p]) = Tail(plan[p])
             /\ Len(plan[p][1]) <= 4 => Ran(plan'[p][1], draft') = Ran(plan[p][1], draft)
             /\ plan[p] \in Seq(Seq(Upgrading)) => s \in Upgrading /\ plan'[p] \in Seq(Seq(Upgrading))
<1> DEFINE s == Head(Head(plan[p]))
<1>1. /\ plan[p] # <<>> /\ plan[p] \in Seq(Seq(Stated)) /\ Len(plan[p]) \in Nat \ {0}
      /\ Head(plan[p]) = plan[p][1] /\ plan[p][1] \in Seq(Stated) /\ plan[p][1] # <<>>
  BY Working DEF Executes
<1>2. /\ Head(plan[p][1]) \in Stated /\ Head(plan[p][1]) = s
      /\ Len(Tail(plan[p][1])) = Len(plan[p][1]) - 1
  BY <1>1, NotEmpty
<1>3. plan'[p] = [plan[p] EXCEPT ![1] = Tail(@)]
  BY DEF Executes, AtomicInv, DatabaseTyped
<1>4. draft' \in Files
  BY <1>2, ExecutedTyped DEF Executes, AtomicInv, DatabaseTyped
<1>5. /\ plan'[p] \in Seq(Seq(Stated)) /\ Len(plan'[p]) = Len(plan[p]) /\ plan'[p] # <<>>
      /\ plan'[p][1] = Tail(plan[p][1]) /\ Tail(plan'[p]) = Tail(plan[p])
      /\ plan[p] \in Seq(Seq(Upgrading)) => plan'[p] \in Seq(Seq(Upgrading))
  BY <1>1, <1>3, LeftOver
<1>6. Len(plan[p][1]) <= 4 => Ran(plan'[p][1], draft') = Ran(plan[p][1], draft)
  BY <1>1, <1>2, <1>5, RanNext DEF Executes
<1>7. plan[p] \in Seq(Seq(Upgrading)) => s \in Upgrading
  <2> SUFFICES ASSUME plan[p] \in Seq(Seq(Upgrading)) PROVE s \in Upgrading
    OBVIOUS
  <2>1. plan[p][1] \in Seq(Upgrading)
    BY <1>1, ElementOfSeq
  <2>2. QED
    BY <1>1, <1>2, <2>1, NotEmpty
<1>8. QED
  BY <1>2, <1>4, <1>5, <1>6, <1>7

LEMMA ExecutesKeepsAtomic ==
  ASSUME Assumption, AtomicInv, NEW p \in Processes, Executes(p)
  PROVE  AtomicInv'
<1>1. DatabaseTyped'
  <2>1. plan' \in [Processes -> Seq(Seq(Stated))]
    BY ExecutesOne DEF Executes, AtomicInv, DatabaseTyped, Stated
  <2>2. QED
    BY <2>1, ExecutesOne DEF Executes, AtomicInv, DatabaseTyped, Stated
<1>2. ASSUME NEW q \in Processes PROVE Whole(q)'
  <2>1. CASE q = p
    <3>1. at[p] \in {"opening", "calling"}
      BY Working DEF Executes
    <3>2. CASE at[p] = "opening"
      <4>1. /\ draft.ids = file.ids /\ draft.attempts = file.attempts /\ draft.offset = file.offset
            /\ draft.cursor \in {file.cursor, file.offset} /\ plan[p] \in Seq(Seq(Upgrading))
        BY <3>2 DEF Executes, AtomicInv, TransactionsWhole, Whole
      <4>2. /\ plan'[p] # <<>> /\ plan'[p] \in Seq(Seq(Upgrading))
            /\ Head(Head(plan[p])) \in Upgrading
        BY <4>1, ExecutesOne
      <4>3. /\ draft'.ids = draft.ids /\ draft'.attempts = draft.attempts /\ draft'.offset = draft.offset
            /\ draft'.cursor \in {draft.cursor, draft.offset}
        BY <4>2, UpgradingKeeps DEF Executes, AtomicInv, DatabaseTyped
      <4>4. QED
        BY <2>1, <3>2, <4>1, <4>2, <4>3 DEF Executes, Whole
    <3>3. CASE at[p] = "calling"
      <4>1. /\ call[p] \in Calls /\ dbCalls > 0 /\ Len(plan[p]) = 1 /\ Len(plan[p][1]) <= 4
            /\ Ran(plan[p][1], draft) = Ran(Statements(call[p]), file)
        BY <3>3 DEF Executes, AtomicInv, TransactionsWhole, Whole
      <4>2. plan[p][1] \in Seq(Stated) /\ Len(plan[p][1]) \in Nat
        BY Working, LenProperties DEF Executes
      <4>3. /\ Len(plan'[p]) = 1 /\ Len(plan'[p][1]) <= 4
            /\ Ran(plan'[p][1], draft') = Ran(plan[p][1], draft)
        BY <4>1, <4>2, ExecutesOne
      <4>4. QED
        BY <2>1, <3>3, <4>1, <4>3 DEF Executes, Whole
    <3>4. QED
      BY <3>1, <3>2, <3>3
  <2>2. CASE q # p
    <3>1. /\ writer # q /\ writer' # q /\ at' = at /\ plan'[q] = plan[q] /\ call' = call
          /\ dbCalls' = dbCalls /\ dbCalls \in Nat
      BY <2>2 DEF Executes, AtomicInv, DatabaseTyped
    <3>2. QED
      BY <3>1, OthersWhole
  <2>3. QED
    BY <2>1, <2>2
<1>3. QED
  BY <1>1, <1>2 DEF AtomicInv, TransactionsWhole

LEMMA CommitKeepsAtomic ==
  ASSUME Assumption, AtomicInv, NEW p \in Processes, Commit(p)
  PROVE  AtomicInv'
<1>1. /\ plan[p] # <<>> /\ Tail(plan[p]) \in Seq(Seq(Stated)) /\ at[p] \in {"opening", "calling"}
      /\ plan'[p] = Tail(plan[p])
  BY Working DEF Commit, AtomicInv, DatabaseTyped
<1>2. DatabaseTyped'
  <2>1. plan' \in [Processes -> Seq(Seq(Stated))]
    BY <1>1 DEF Commit, AtomicInv, DatabaseTyped, Stated
  <2>2. at' \in [Processes -> {"closed", "opening", "open", "calling"}]
    BY DEF Commit, AtomicInv, DatabaseTyped
  <2>3. call' = [q \in Processes |-> call'[q]]
    BY DEF Commit, AtomicInv, DatabaseTyped
  <2>4. QED
    BY <2>1, <2>2, <2>3 DEF Commit, AtomicInv, DatabaseTyped, Stated
<1>3. ASSUME NEW q \in Processes PROVE Whole(q)'
  <2>1. CASE q = p
    <3>1. CASE plan'[p] = <<>>
      <4>1. at'[p] = "open" /\ writer' # p
        BY <3>1 DEF Commit, Assumption, AtomicInv, DatabaseTyped
      <4>2. QED
        BY <2>1, <3>1, <4>1 DEF Whole
    <3>2. CASE plan'[p] # <<>>
      <4>1. at'[p] = at[p] /\ writer' # p
        BY <3>2 DEF Commit, Assumption
      <4>2. at[p] # "calling"
        <5>1. at[p] = "calling" => Len(Tail(plan[p])) = 0
          BY <1>1, Working, NotEmpty DEF AtomicInv, TransactionsWhole, Whole
        <5>2. at[p] = "calling" => Tail(plan[p]) = <<>>
          BY <1>1, <5>1, EmptySeq, SeqEqual
        <5>3. QED
          BY <1>1, <3>2, <5>2
      <4>3. plan'[p] \in Seq(Seq(Upgrading))
        BY <1>1, <4>2, NotEmpty DEF AtomicInv, TransactionsWhole, Whole
      <4>4. QED
        BY <1>1, <2>1, <3>2, <4>1, <4>2, <4>3 DEF Whole
    <3>3. QED
      BY <3>1, <3>2
  <2>2. CASE q # p
    <3>1. /\ writer # q /\ writer' # q /\ at'[q] = at[q] /\ plan'[q] = plan[q] /\ call'[q] = call[q]
          /\ dbCalls' = dbCalls /\ dbCalls \in Nat
      BY <2>2 DEF Commit, Assumption, AtomicInv, DatabaseTyped
    <3>2. QED
      BY <3>1, OthersWhole
  <2>3. QED
    BY <2>1, <2>2
<1>4. QED
  BY <1>2, <1>3 DEF AtomicInv, TransactionsWhole

\* Executing a statement is to change the draft, or to raise.
LEMMA ExecuteIs ==
  ASSUME NEW p \in Processes, Execute(p)
  PROVE  Executes(p) \/ (Raises(p) /\ UNCHANGED <<bounds, raced>>)
BY DEF Execute, Executes

\* A failure of what a process does, or its end.
Stops(p) ==
  /\ Rollback(p) /\ UNCHANGED <<opens, dbCalls, raced>>
  /\ \/ at' = [at EXCEPT ![p] = "closed"]
     \/ at' = [at EXCEPT ![p] = "open"] /\ at[p] \in {"open", "calling"}

\* Every step is one of six of a process, or raises or closes it.
LEMMA StepIs ==
  ASSUME AtomicInv, [Next]_databaseVars
  PROVE  \/ \E p \in Processes : Open(p) \/ Call(p) \/ Begin(p) \/ Executes(p) \/ Commit(p)
         \/ \E p \in Processes : Stops(p)
         \/ UNCHANGED databaseVars
<1> SUFFICES ASSUME NEW p \in Processes, Execute(p) \/ Fails(p) \/ Leave(p)
             PROVE  Executes(p) \/ Stops(p)
  BY DEF Next
<1>1. CASE Execute(p)
  <2>1. CASE Executes(p)
    BY <2>1
  <2>2. CASE Raises(p) /\ UNCHANGED <<bounds, raced>>
    <3>1. at[p] \in {"opening", "calling"}
      BY <1>1, Working DEF Execute
    <3>2. QED
      BY <2>2, <3>1 DEF Raises, Stops, AtomicInv, DatabaseTyped
  <2>3. QED
    BY <1>1, <2>1, <2>2, ExecuteIs
<1>2. CASE Fails(p)
  <2>1. at[p] \in {"opening", "calling"}
    BY <1>2, Working DEF Fails
  <2>2. QED
    BY <1>2, <2>1 DEF Fails, Raises, Stops, AtomicInv, DatabaseTyped
<1>3. CASE Leave(p)
  BY <1>3 DEF Leave, Stops
<1>4. QED
  BY <1>1, <1>2, <1>3

LEMMA AtomicStep == Assumption /\ AtomicInv /\ [Next]_databaseVars => AtomicInv'
<1> SUFFICES ASSUME Assumption, AtomicInv, [Next]_databaseVars PROVE AtomicInv'
  OBVIOUS
<1>1. ASSUME NEW p \in Processes, Open(p) \/ Call(p) \/ Begin(p) \/ Executes(p) \/ Commit(p)
      PROVE  AtomicInv'
  BY <1>1, OpenKeepsAtomic, CallKeepsAtomic, BeginKeepsAtomic, ExecutesKeepsAtomic, CommitKeepsAtomic
<1>2. ASSUME NEW p \in Processes, Stops(p)
      PROVE  AtomicInv'
  BY <1>2, RaisesKeepsAtomic DEF Stops
<1>3. CASE UNCHANGED databaseVars
  BY <1>3 DEF databaseVars, AtomicInv, DatabaseTyped, TransactionsWhole, Whole
<1>4. QED
  BY <1>1, <1>2, <1>3, StepIs

\* Only a commit changes the file, and it does by the whole of a call or by one
\* migration.
LEMMA AtomicChanges ==
  ASSUME Assumption, AtomicInv, [Next]_databaseVars, file' # file
  PROVE  \/ \E p \in Processes : at[p] = "calling" /\ file' = Effect(call[p], file)
         \/ file'.ids = file.ids /\ file'.attempts = file.attempts /\ file'.cursor \in {file.cursor, file.offset}
            /\ \E p \in Processes : at[p] = "opening"
<1>1. PICK p \in Processes : Commit(p)
  BY StepIs DEF Open, Call, Begin, Executes, Stops, Rollback, databaseVars
<1>2. at[p] \in {"opening", "calling"} /\ Head(plan[p]) = plan[p][1] /\ plan[p][1] = <<>>
  BY <1>1, Working DEF Commit
<1>3. CASE at[p] = "opening"
  BY <1>1, <1>3 DEF Commit, AtomicInv, TransactionsWhole, Whole
<1>4. CASE at[p] = "calling"
  <2>1. call[p] \in Calls /\ Ran(plan[p][1], draft) = Ran(Statements(call[p]), file)
    BY <1>1, <1>4 DEF Commit, AtomicInv, TransactionsWhole, Whole
  <2>2. Ran(Statements(call[p]), file) = Effect(call[p], file)
    BY <2>1, StatementsAre DEF AtomicInv, DatabaseTyped
  <2>3. file' = Effect(call[p], file)
    BY <1>1, <1>2, <2>1, <2>2, RanNothing DEF Commit
  <2>4. QED
    BY <1>4, <2>3
<1>5. QED
  BY <1>2, <1>3, <1>4

\* The file changes by the whole of one call, whatever other processes do, fail or
\* crash at.
THEOREM CallsWhole == ASSUME Assumption PROVE Spec => CallsAreAtomic
<1>1. Init => AtomicInv
  BY AtomicInit
<1>2. AtomicInv /\ [Next]_databaseVars => AtomicInv'
  BY AtomicStep
<1>3. AtomicInv /\ [Next]_databaseVars =>
        [\/ \E p \in Processes : at[p] = "calling" /\ file' = Effect(call[p], file)
         \/ file'.ids = file.ids /\ file'.attempts = file.attempts /\ file'.cursor \in {file.cursor, file.offset}
            /\ \E p \in Processes : at[p] = "opening"]_file
  BY AtomicChanges
<1>4. QED
  BY <1>1, <1>2, <1>3, PTL DEF Spec, CallsAreAtomic

-----------------------------------------------------------------------------
(* An upgrade resumes.                                                     *)

LEMMA ColumnsAre == ColumnsOf(1) = {"tables", "heads"} /\ ColumnsOf(2) = Columns
BY DEF ColumnsOf

LEMMA AsVersions ==
  ASSUME \/ file.version = 0 /\ file.columns \subseteq {"tables", "heads"} /\ file.cursor = 0
         \/ file.version = 1 /\ file.columns = {"tables", "heads"} /\ file.cursor = 0
         \/ file.version = 2 /\ file.columns = Columns /\ file.cursor = file.offset
  PROVE  AsItsVersion
BY ColumnsAre, SupportedIsTwo DEF AsItsVersion, VersionTellsColumns

LEMMA FileOfAsItsVersion ==
  ASSUME NEW kind \in {"new", "0.4", "0.4 with heads", "version 1", "current"},
         file = FileOf(kind), dbCalls = 0
  PROVE  AsItsVersion
<1>1. /\ file.version = CASE kind = "version 1" -> 1 [] kind = "current" -> 2 [] OTHER -> 0
      /\ file.columns = CASE kind = "new" -> {} [] kind = "0.4" -> {"tables"}
                          [] kind = "current" -> Columns [] OTHER -> {"tables", "heads"}
      /\ file.offset = IF kind = "new" THEN 0 ELSE 1
      /\ file.cursor = IF kind = "current" THEN file.offset ELSE 0
  BY DEF FileOf
<1>2. CASE kind = "new"
  <2>1. file.version = 0 /\ file.columns = {} /\ file.cursor = 0
    BY <1>1, <1>2
  <2>2. QED
    BY <2>1, AsVersions
<1>3. CASE kind = "0.4"
  <2>1. file.version = 0 /\ file.columns = {"tables"} /\ file.cursor = 0
    BY <1>1, <1>3
  <2>2. QED
    BY <2>1, AsVersions
<1>4. CASE kind = "0.4 with heads"
  <2>1. file.version = 0 /\ file.columns = {"tables", "heads"} /\ file.cursor = 0
    BY <1>1, <1>4
  <2>2. QED
    BY <2>1, AsVersions
<1>5. CASE kind = "version 1"
  <2>1. file.version = 1 /\ file.columns = {"tables", "heads"} /\ file.cursor = 0
    BY <1>1, <1>5
  <2>2. QED
    BY <2>1, AsVersions
<1>6. CASE kind = "current"
  <2>1. file.version = 2 /\ file.columns = Columns /\ file.cursor = file.offset
    BY <1>1, <1>6
  <2>2. QED
    BY <2>1, AsVersions
<1>7. QED
  BY <1>2, <1>3, <1>4, <1>5, <1>6

LEMMA ResumeInit == Assumption /\ Init => ResumeInv
<1> SUFFICES ASSUME Assumption, Init PROVE ResumeInv
  OBVIOUS
<1>1. AsItsVersion
  BY FileOfAsItsVersion DEF Init, Assumption
<1>2. /\ \A p, q \in Processes : at[p] = "opening" /\ at[q] = "opening" => p = q
      /\ \A p \in Processes : Resuming(p)
  BY DEF Init, Resuming
<1>3. QED
  BY <1>1, <1>2, AtomicInit DEF ResumeInv, UpgradeInStep

\* A process that is not at the step, of a file that does not change.
LEMMA OthersResuming ==
  ASSUME UpgradeInStep, NEW q \in Processes,
         at'[q] = at[q], plan'[q] = plan[q], file' = file, writer # q, writer' # q
  PROVE  Resuming(q)'
BY DEF UpgradeInStep, Resuming, Recorded

LEMMA OpenResumes ==
  ASSUME AtomicInv, UpgradeInStep, NEW p \in Processes, Open(p), ~raced'
  PROVE  UpgradeInStep'
<1>1. writer # p /\ writer' = writer /\ file' = file /\ dbCalls' = dbCalls
  BY DEF Open, AtomicInv, TransactionsWhole, Whole
<1>2. AsItsVersion'
  BY <1>1 DEF UpgradeInStep, AsItsVersion, VersionTellsColumns
<1>3. /\ plan'[p] = Pending(file.version)
      /\ at'[p] = IF Pending(file.version) = <<>> THEN "open" ELSE "opening"
      /\ \A q \in Processes : q # p => at'[q] = at[q] /\ plan'[q] = plan[q]
  BY DEF Open, AtomicInv, DatabaseTyped
<1>4. /\ file.version < Supported => Pending(file.version) # <<>>
      /\ file.version = Supported => Pending(file.version) = <<>>
      /\ file.version \in 0..Supported
  <2>1. file.version \in 0..1 \/ file.version = 2
    BY SupportedIsTwo DEF UpgradeInStep, AsItsVersion
  <2>2. QED
    BY <2>1, PendingNext, PendingAre, SupportedIsTwo
<1>5. \A r, q \in Processes : at'[r] = "opening" /\ at'[q] = "opening" => r = q
  <2>1. at'[p] = "opening" => \A q \in Processes : at[q] # "opening"
    <3>1. ~(plan'[p] # <<>> /\ \E q \in Processes : at[q] = "opening")
      BY Zenon DEF Open
    <3>2. QED
      BY <1>3, <3>1
  <2>2. QED
    BY <1>3, <2>1 DEF UpgradeInStep
<1>6. ASSUME NEW q \in Processes PROVE Resuming(q)'
  <2>1. CASE q = p
    BY <1>1, <1>3, <1>4, <2>1, SupportedIsTwo DEF Resuming
  <2>2. CASE q # p
    BY <1>1, <1>3, <2>2 DEF Open, UpgradeInStep, Resuming, Recorded
  <2>3. QED
    BY <2>1, <2>2
<1>7. QED
  BY <1>2, <1>5, <1>6 DEF UpgradeInStep

LEMMA CallResumes ==
  ASSUME AtomicInv, UpgradeInStep, NEW p \in Processes, Call(p)
  PROVE  UpgradeInStep'
<1>1. /\ file' = file /\ writer' = writer /\ draft' = draft /\ dbCalls' > 0
      /\ at[p] = "open" /\ at'[p] = "calling"
      /\ \A q \in Processes : q # p => at'[q] = at[q] /\ plan'[q] = plan[q]
  BY DEF Call, AtomicInv, DatabaseTyped
<1>2. AsItsVersion'
  BY <1>1 DEF UpgradeInStep, AsItsVersion, VersionTellsColumns
<1>3. \A r, q \in Processes : at'[r] = "opening" /\ at'[q] = "opening" => r = q
  BY <1>1 DEF UpgradeInStep
<1>4. ASSUME NEW q \in Processes PROVE Resuming(q)'
  <2>1. CASE q = p
    BY <1>1, <2>1 DEF UpgradeInStep, Resuming
  <2>2. CASE q # p
    BY <1>1, <2>2 DEF UpgradeInStep, Resuming, Recorded
  <2>3. QED
    BY <2>1, <2>2
<1>5. QED
  BY <1>2, <1>3, <1>4 DEF UpgradeInStep

LEMMA BeginResumes ==
  ASSUME Assumption, AtomicInv, UpgradeInStep, NEW p \in Processes, Begin(p)
  PROVE  UpgradeInStep'
<1>1. /\ file' = file /\ at' = at /\ plan' = plan /\ dbCalls' = dbCalls
      /\ writer = None /\ writer' = p /\ draft' = file
  BY DEF Begin
<1>2. AsItsVersion'
  BY <1>1 DEF UpgradeInStep, AsItsVersion, VersionTellsColumns
<1>3. \A r, q \in Processes : at'[r] = "opening" /\ at'[q] = "opening" => r = q
  BY <1>1 DEF UpgradeInStep
<1>4. ASSUME NEW q \in Processes PROVE Resuming(q)'
  <2>1. writer # q
    BY <1>1 DEF Assumption
  <2>2. CASE q = p /\ at[p] = "opening"
    <3>1. plan[p] = Pending(file.version) /\ file.version \in 0..1
      BY <2>1, <2>2, SupportedIsTwo DEF UpgradeInStep, AsItsVersion, Resuming
    <3>2. LET v == file.version
          IN  /\ Pending(v)[1] = Recorded(v + 1)[1] /\ Len(Pending(v)[1]) <= 4
              /\ Tail(Pending(v)) = Pending(v + 1)
      BY <3>1, PendingNext
    <3>3. QED
      BY <1>1, <2>2, <3>1, <3>2, SupportedIsTwo DEF Resuming
  <2>3. CASE ~(q = p /\ at[p] = "opening")
    BY <1>1, <2>1, <2>3 DEF UpgradeInStep, Resuming
  <2>4. QED
    BY <2>2, <2>3
<1>5. QED
  BY <1>2, <1>3, <1>4 DEF UpgradeInStep

LEMMA ExecutesResumes ==
  ASSUME AtomicInv, UpgradeInStep, NEW p \in Processes, Executes(p)
  PROVE  UpgradeInStep'
<1>1. /\ file' = file /\ at' = at /\ dbCalls' = dbCalls /\ writer = p /\ writer' = p
      /\ \A q \in Processes : q # p => plan'[q] = plan[q]
  BY DEF Executes, AtomicInv, DatabaseTyped
<1>2. AsItsVersion'
  BY <1>1 DEF UpgradeInStep, AsItsVersion, VersionTellsColumns
<1>3. \A r, q \in Processes : at'[r] = "opening" /\ at'[q] = "opening" => r = q
  BY <1>1 DEF UpgradeInStep
<1>4. ASSUME NEW q \in Processes PROVE Resuming(q)'
  <2>1. CASE q = p /\ at[p] = "opening"
    <3>1. /\ file.version < Supported
          /\ Tail(plan[p]) = Pending(file.version + 1) /\ Len(plan[p][1]) <= 4
          /\ Ran(plan[p][1], draft) = Ran(Recorded(file.version + 1)[1], file)
      BY <1>1, <2>1 DEF UpgradeInStep, Resuming
    <3>2. plan[p][1] \in Seq(Stated) /\ Len(plan[p][1]) \in Nat
      BY <1>1, Working, LenProperties
    <3>3. /\ Tail(plan'[p]) = Tail(plan[p]) /\ Len(plan'[p][1]) <= 4
          /\ Ran(plan'[p][1], draft') = Ran(plan[p][1], draft)
      BY <3>1, <3>2, ExecutesOne
    <3>4. QED
      BY <1>1, <2>1, <3>1, <3>3 DEF Resuming
  <2>2. CASE ~(q = p /\ at[p] = "opening")
    BY <1>1, <2>2 DEF UpgradeInStep, Resuming, Recorded
  <2>3. QED
    BY <2>1, <2>2
<1>5. QED
  BY <1>2, <1>3, <1>4 DEF UpgradeInStep

LEMMA StopsResumes ==
  ASSUME Assumption, AtomicInv, UpgradeInStep, NEW p \in Processes, Stops(p)
  PROVE  UpgradeInStep'
<1>1. /\ file' = file /\ draft' = draft /\ dbCalls' = dbCalls
      /\ at'[p] = "closed" \/ (at'[p] = "open" /\ at[p] \in {"open", "calling"})
      /\ \A q \in Processes : q # p => /\ at'[q] = at[q] /\ plan'[q] = plan[q]
                                       /\ (writer' = q <=> writer = q)
  BY DEF Stops, Rollback, Assumption, AtomicInv, DatabaseTyped
<1>2. AsItsVersion'
  BY <1>1 DEF UpgradeInStep, AsItsVersion, VersionTellsColumns
<1>3. \A r, q \in Processes : at'[r] = "opening" /\ at'[q] = "opening" => r = q
  BY <1>1 DEF UpgradeInStep
<1>4. ASSUME NEW q \in Processes PROVE Resuming(q)'
  <2>1. CASE q = p
    BY <1>1, <2>1 DEF UpgradeInStep, Resuming
  <2>2. CASE q # p
    BY <1>1, <2>2 DEF UpgradeInStep, Resuming, Recorded
  <2>3. QED
    BY <2>1, <2>2
<1>5. QED
  BY <1>2, <1>3, <1>4 DEF UpgradeInStep

\* A migration that commits takes the file to the next version and what it tells.
LEMMA MigrationCommits ==
  ASSUME AtomicInv, UpgradeInStep, NEW p \in Processes, Commit(p), at[p] = "opening"
  PROVE  /\ AsItsVersion' /\ file'.version = file.version + 1
         /\ plan'[p] = Pending(file'.version)
<1>1. /\ writer = p /\ file' = draft /\ plan'[p] = Tail(plan[p]) /\ dbCalls' = dbCalls
      /\ plan[p][1] = <<>>
  BY Working DEF Commit, AtomicInv, DatabaseTyped
<1>2. /\ file.version \in 0..1 /\ Tail(plan[p]) = Pending(file.version + 1)
      /\ Ran(plan[p][1], draft) = Ran(Recorded(file.version + 1)[1], file)
  BY <1>1, SupportedIsTwo DEF UpgradeInStep, AsItsVersion, Resuming
<1>3. file' = Ran(Recorded(file.version + 1)[1], file)
  BY <1>1, <1>2, RanNothing
<1>4. file \in Files /\ file.cursor = 0 /\ file.offset \in Nat
  BY <1>2, SupportedIsTwo DEF AtomicInv, DatabaseTyped, Files, UpgradeInStep, AsItsVersion
<1>5. CASE file.version = 0
  <2>1. file' = Ran(Tables, file)
    BY <1>3, <1>5, RecordedAre
  <2>2. /\ file'.version = 1 /\ file'.columns = file.columns \union {"tables", "heads"}
        /\ file'.cursor = 0
    BY <1>4, <2>1, TablesMake
  <2>3. file.columns \subseteq {"tables", "heads"}
    BY <1>5, ColumnsAre DEF UpgradeInStep, AsItsVersion
  <2>4. AsItsVersion'
    BY <2>2, <2>3, ColumnsAre, SupportedIsTwo DEF AsItsVersion, VersionTellsColumns
  <2>5. QED
    BY <1>1, <1>2, <1>5, <2>2, <2>4
<1>6. CASE file.version = 1
  <2>1. file' = Ran(Cursor, file)
    BY <1>3, <1>6, RecordedAre
  <2>2. /\ file'.version = 2 /\ file'.columns = file.columns \union {"cursor", "failures"}
        /\ file'.cursor = file.offset /\ file'.offset = file.offset
    BY <1>4, <2>1, CursorMakes
  <2>3. file.columns = {"tables", "heads"}
    BY <1>6, ColumnsAre DEF UpgradeInStep, AsItsVersion, VersionTellsColumns
  <2>4. AsItsVersion'
    BY <2>2, <2>3, ColumnsAre, SupportedIsTwo DEF AsItsVersion, VersionTellsColumns, Columns
  <2>5. QED
    BY <1>1, <1>2, <1>6, <2>2, <2>4
<1>7. QED
  BY <1>2, <1>5, <1>6

\* A call leaves the version and the columns.
LEMMA CallCommits ==
  ASSUME AtomicInv, UpgradeInStep, NEW p \in Processes, Commit(p), at[p] = "calling"
  PROVE  AsItsVersion' /\ file'.version = Supported /\ file.version = Supported
<1>1. /\ call[p] \in Calls /\ dbCalls' > 0
      /\ Ran(plan[p][1], draft) = Ran(Statements(call[p]), file)
  BY DEF Commit, AtomicInv, TransactionsWhole, Whole
<1>2. file' = Effect(call[p], file)
  <2>1. Ran(Statements(call[p]), file) = Effect(call[p], file)
    BY <1>1, StatementsAre DEF AtomicInv, DatabaseTyped
  <2>2. plan[p][1] = <<>> /\ file' = draft
    BY Working DEF Commit
  <2>3. QED
    BY <1>1, <2>1, <2>2, RanNothing
<1>3. file'.version = file.version /\ file'.columns = file.columns
  BY <1>1, <1>2, CallsAre DEF Effect, AtomicInv, DatabaseTyped, Files
<1>4. file.version = Supported
  BY DEF UpgradeInStep, Resuming
<1>5. QED
  BY <1>1, <1>3, <1>4, SupportedIsTwo DEF UpgradeInStep, AsItsVersion, VersionTellsColumns

LEMMA CommitResumes ==
  ASSUME Assumption, AtomicInv, UpgradeInStep, NEW p \in Processes, Commit(p)
  PROVE  UpgradeInStep'
<1>1. /\ writer = p /\ writer' # p
      /\ at'[p] = IF plan'[p] = <<>> THEN "open" ELSE at[p]
      /\ at[p] \in {"opening", "calling"}
      /\ \A q \in Processes : q # p => at'[q] = at[q] /\ plan'[q] = plan[q] /\ writer # q /\ writer' # q
  BY Working DEF Commit, Assumption, AtomicInv, DatabaseTyped
<1>2. AsItsVersion'
  BY <1>1, MigrationCommits, CallCommits
<1>3. \A r, q \in Processes : at'[r] = "opening" /\ at'[q] = "opening" => r = q
  BY <1>1 DEF UpgradeInStep
<1>4. ASSUME NEW q \in Processes PROVE Resuming(q)'
  <2>1. CASE at[p] = "opening"
    <3>1. /\ file'.version = file.version + 1 /\ plan'[p] = Pending(file'.version)
          /\ file.version \in 0..1
      BY <2>1, MigrationCommits, SupportedIsTwo DEF UpgradeInStep, AsItsVersion, Resuming
    <3>2. file'.version < Supported <=> Pending(file'.version) # <<>>
      <4>1. CASE file'.version = 1
        BY <4>1, SupportedIsTwo, PendingNext
      <4>2. CASE file'.version = 2
        BY <4>2, SupportedIsTwo, PendingAre
      <4>3. QED
        BY <3>1, <4>1, <4>2
    <3>3. CASE q = p
      BY <1>1, <2>1, <3>1, <3>2, <3>3, SupportedIsTwo DEF Resuming
    <3>4. CASE q # p
      <4>1. at[q] # "opening"
        BY <2>1, <3>4 DEF UpgradeInStep
      <4>2. at[q] \notin {"open", "calling"}
        BY <3>1, SupportedIsTwo DEF UpgradeInStep, Resuming
      <4>3. QED
        BY <1>1, <3>4, <4>1, <4>2 DEF Resuming
    <3>5. QED
      BY <3>3, <3>4
  <2>2. CASE at[p] = "calling"
    <3>1. file'.version = Supported /\ file.version = Supported
      BY <2>2, CallCommits
    <3>2. at'[q] # "opening"
      BY <1>1, <2>2, <3>1, SupportedIsTwo DEF UpgradeInStep, Resuming
    <3>3. QED
      BY <3>1, <3>2 DEF Resuming
  <2>3. QED
    BY <1>1, <2>1, <2>2
<1>5. QED
  BY <1>2, <1>3, <1>4 DEF UpgradeInStep

\* No step takes back that two processes were opening the file at once.
LEMMA RacedForEver == AtomicInv /\ [Next]_databaseVars => (~raced' => ~raced)
<1> SUFFICES ASSUME AtomicInv, [Next]_databaseVars, ~raced' PROVE ~raced
  OBVIOUS
<1>1. ASSUME NEW p \in Processes, Open(p) PROVE ~raced
  BY <1>1, Zenon DEF Open
<1>2. ASSUME NEW p \in Processes, Call(p) \/ Begin(p) \/ Executes(p) \/ Commit(p) \/ Stops(p) PROVE raced' = raced
  BY <1>2 DEF Call, Begin, Executes, Commit, Stops
<1>3. ASSUME UNCHANGED databaseVars PROVE raced' = raced
  BY <1>3 DEF databaseVars
<1>4. QED
  BY <1>1, <1>2, <1>3, StepIs

LEMMA ResumeStep == Assumption /\ ResumeInv /\ [Next]_databaseVars => ResumeInv'
<1> SUFFICES ASSUME Assumption, ResumeInv, [Next]_databaseVars PROVE ResumeInv'
  OBVIOUS
<1>1. AtomicInv /\ AtomicInv'
  BY AtomicStep DEF ResumeInv
<1>2. ASSUME ~raced' PROVE UpgradeInStep'
  <2>1. UpgradeInStep
    BY <1>1, <1>2, RacedForEver DEF ResumeInv
  <2>2. ASSUME NEW p \in Processes, Open(p) \/ Call(p) \/ Begin(p) \/ Executes(p) \/ Commit(p) \/ Stops(p)
        PROVE  UpgradeInStep'
    BY <1>1, <1>2, <2>1, <2>2, OpenResumes, CallResumes, BeginResumes, ExecutesResumes,
       CommitResumes, StopsResumes
  <2>3. CASE UNCHANGED databaseVars
    BY <2>1, <2>3 DEF databaseVars, UpgradeInStep, AsItsVersion, VersionTellsColumns, Resuming
  <2>4. QED
    BY <1>1, <2>2, <2>3, StepIs
<1>3. QED
  BY <1>1, <1>2 DEF ResumeInv

LEMMA ResumeTells == ResumeInv => UpgradesResume
BY DEF ResumeInv, UpgradeInStep, AsItsVersion, Resuming, UpgradesResume

\* Through faults and crashes the version recorded tells what the file has, an open
\* file is of the newest version and no upgrade lost the offset, unless two
\* processes upgrade it at once.
THEOREM UpgradesAlwaysResume == ASSUME Assumption PROVE Spec => []UpgradesResume
<1>1. Init => ResumeInv
  BY ResumeInit
<1>2. ResumeInv /\ [Next]_databaseVars => ResumeInv'
  BY ResumeStep
<1>3. ResumeInv => UpgradesResume
  BY ResumeTells
<1>4. QED
  BY <1>1, <1>2, <1>3, PTL DEF Spec
=============================================================================
