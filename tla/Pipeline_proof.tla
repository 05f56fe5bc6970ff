--------------------------- MODULE Pipeline_proof ---------------------------
(***************************************************************************)
(* What holds of the pipeline's runs for every listing, page size, limit,  *)
(* concurrency, and number of disturbances: the types, that marked records *)
(* are durable (R20), that the saved cursor stays behind unsettled entries *)
(* (R1), that the runs keep the abstract ledger, that the limit is exact   *)
(* (R2), that a completed run has no stalled page uncleared (R5, R6), that *)
(* an outage counts against no record (R18), and that a run exports no     *)
(* record that it knows.                                                   *)
(***************************************************************************)
EXTENDS Pipeline, FiniteSetTheorems, TLAPS

USE DEF durable, environment, listingVars, tally, pageVars, loaded

-----------------------------------------------------------------------------
(* Types.                                                                  *)

\* The listing is a finite sequence, and its positions are numbers.
LEMMA PositionsAreNumbers == Positions = 1..Len(Listing) /\ Len(Listing) \in Nat
BY ListingAssumption DEF Positions

\* Every position of the listing holds a record or a blank entry of Records.
LEMMA ListedAreRecords == \A i \in Positions : Listing[i] \in Records
BY DEF Records

\* The number of processed tasks of a page is a natural number, because a
\* page has finitely many positions.
LEMMA ProcessedIsNumber == PageProcessed \in Nat
<1>1. IsFiniteSet(1..Len(Listing))
  BY PositionsAreNumbers, FS_Interval
<1>2. IsFiniteSet(In("processed"))
  BY <1>1, PositionsAreNumbers, FS_Subset DEF In
<1>3. QED
  BY <1>2, FS_CardinalityType DEF PageProcessed

\* What fetch_page returns is a page, and a page begun inside the published
\* listing ends inside it.
LEMMA PagesTyped ==
  ASSUME ValuesTyped, NEW p \in PagesAt(cursor)
  PROVE  /\ p \in Pages
         /\ cursor <= published => cursor + p.entries <= published
<1> DEFINE reach == Smaller(published, Cap)
           n == IF cursor < reach THEN Smaller(PageSize, reach - cursor) ELSE 0
<1>1. cursor \in Nat /\ published \in Nat /\ PageSize \in Nat /\ Cap \in Nat
  BY NumberAssumption, PositionsAreNumbers DEF ValuesTyped
<1>2. reach \in Nat /\ reach <= published
  BY <1>1 DEF Smaller
<1>3. n \in Nat /\ (cursor <= published => cursor + n <= published)
  BY <1>1, <1>2 DEF Smaller
<1>4. p.entries \in {0, n} /\ p \in [entries: {0, n}, last: BOOLEAN, truncated: BOOLEAN]
  <2>1. CASE cursor >= Cap
    <3>1. p = [entries |-> 0, last |-> TRUE, truncated |-> TRUE]
      BY <2>1 DEF PagesAt
    <3>2. QED
      BY <3>1
  <2>2. CASE ~(cursor >= Cap)
    <3>1. p \in [entries: {n}, last: BOOLEAN, truncated: BOOLEAN]
      BY <2>2 DEF PagesAt
    <3>2. QED
      BY <3>1
  <2>3. QED
    BY <2>1, <2>2
<1>5. QED
  BY <1>1, <1>3, <1>4 DEF Pages

\* The first state is well typed.
LEMMA TypeInit == Init => TypeOK
<1> SUFFICES ASSUME Init PROVE TypeOK
  OBVIOUS
<1>1. published \in 0..Len(Listing) /\ faults \in 0..MaxFaults
  BY NumberAssumption, PositionsAreNumbers DEF Init
<1>2. saved \in Metadata /\ meta \in Metadata /\ page \in Pages
  BY DEF Init, Metadata, Pages, NoPage
<1>3. task \in [Positions -> TaskStates] /\ failures \in [Records -> Nat]
  BY DEF Init, NoTask, TaskStates
<1>4. commits \in [old: SUBSET Positions, new: SUBSET Positions]
  BY DEF Init, NoCommits
<1>5. FlagsTyped
  BY DEF Init, FlagsTyped
<1>6. ValuesTyped
  BY <1>1, <1>2, <1>3, <1>4 DEF Init, ValuesTyped, Phases, Outcomes
<1>7. QED
  BY <1>5, <1>6 DEF TypeOK

\* The flags are assigned Boolean values only.
LEMMA FlagsStep ==
  ASSUME FlagsTyped, [Next]_vars
  PROVE  FlagsTyped'
<1> USE DEF FlagsTyped
<1>1. CASE UNCHANGED vars
  BY <1>1 DEF vars
<1>3. CASE FetchPage \/ FetchStale \/ FlushFails \/ SavePage \/ RequestStop
  BY <1>3 DEF FetchPage, FetchStale, FlushFails, SavePage, RequestStop, FreshPage
<1>4. CASE TruncateListing \/ EndListing \/ NextPage
  BY <1>4 DEF TruncateListing, EndListing, NextPage
<1>5. CASE FlushState \/ Crash
  BY <1>5 DEF FlushState, Crash, Forget, FreshListing, FreshPage
<1>6. CASE StartRun \/ OpenExporter \/ LoadState \/ LimitReached \/ InterruptRun
           \/ BeginFetch \/ SaveRestart \/ GatherPage \/ FlushPage \/ PageMarked
           \/ SettlePage \/ AbortStalled \/ FlushAtEnd \/ CloseExporter \/ Publish
  BY <1>6
     DEF StartRun, OpenExporter, LoadState, LimitReached, InterruptRun, BeginFetch,
         SaveRestart, GatherPage, FlushPage, PageMarked, SettlePage, AbortStalled,
         FlushAtEnd, CloseExporter, Publish
<1>7. ASSUME NEW i \in Positions, TaskStep(i) \/ TaskFault(i)
      PROVE  FlagsTyped'
  BY <1>7
     DEF TaskStep, StartRecord, JudgeIrrelevant, JudgeRelevant, ExportRecord, MarkRecord,
         MarkWritten, CommitFailure, TaskFault, JudgeFails, ExportFails, MarkFails,
         MarkWrittenBreaks, CommitBreaks
<1>8. CASE OpenFails \/ LoadFails \/ FetchFails \/ CancelWait \/ StaleAgain \/ CancelPage
           \/ CancelFlush \/ SaveBreaks \/ FlushAtEndFails
  BY <1>8
     DEF OpenFails, LoadFails, FetchFails, CancelWait, StaleAgain, CancelPage, CancelFlush,
         SaveBreaks, FlushAtEndFails
<1>9. QED
  BY <1>1, <1>3, <1>4, <1>5, <1>6, <1>7, <1>8 DEF Next, RunStep, Disturbance

\* Every step keeps the variables that hold numbers, sets, functions and
\* records well typed.
LEMMA ValuesStep ==
  ASSUME ValuesTyped, [Next]_vars
  PROVE  ValuesTyped'
<1> USE DEF ValuesTyped, Phases, Outcomes
<1>1. CASE UNCHANGED vars
  BY <1>1 DEF vars
<1>2. CASE StartRun \/ OpenExporter
  BY <1>2 DEF StartRun, OpenExporter
<1>3. CASE LoadState
  BY <1>3 DEF LoadState, Metadata
<1>4. CASE BeginFetch
  BY <1>4 DEF BeginFetch
<1>5. CASE LimitReached \/ InterruptRun
  BY <1>5 DEF LimitReached, InterruptRun, Break
<1>6. CASE OpenFails
  BY <1>6, NumberAssumption DEF OpenFails, Disturb
<1>7. CASE LoadFails \/ CancelWait
  BY <1>7, NumberAssumption DEF LoadFails, CancelWait, Break, Disturb
<1>8. CASE FetchFails \/ StaleAgain
  BY <1>8, NumberAssumption DEF FetchFails, StaleAgain, Break, Disturb
<1>9. CASE FetchStale
  <2>1. meta' \in Metadata
    BY <1>9 DEF FetchStale, Metadata
  <2>2. faults' \in 0..MaxFaults
    BY <1>9, NumberAssumption DEF FetchStale, Disturb
  <2>3. QED
    BY <1>9, <2>1, <2>2 DEF FetchStale
<1>10. CASE FetchPage
  <2>1. page' \in Pages
    BY <1>10, PagesTyped DEF FetchPage
  <2>2. QED
    BY <1>10, <2>1 DEF FetchPage, TaskStates
<1>11. CASE SaveRestart
  BY <1>11 DEF SaveRestart
<1>12. CASE SavePage
  BY <1>12 DEF SavePage, Break, FreshPage, NoPage, NoTask, Pages, TaskStates
<1>13. CASE SaveBreaks
  BY <1>13, NumberAssumption DEF SaveBreaks, Break, Disturb
<1>14. ASSUME NEW i \in Positions, StartRecord(i) PROVE ValuesTyped'
  BY <1>14 DEF StartRecord, Become, TaskStates, InFlight, Ended
<1>15. ASSUME NEW i \in Positions, JudgeIrrelevant(i) PROVE ValuesTyped'
  BY <1>15 DEF JudgeIrrelevant, Become, TaskStates, InFlight, Ended
<1>16. ASSUME NEW i \in Positions, JudgeRelevant(i) PROVE ValuesTyped'
  BY <1>16 DEF JudgeRelevant, Become, TaskStates, InFlight, Ended
<1>17. ASSUME NEW i \in Positions, JudgeFails(i) PROVE ValuesTyped'
  BY <1>17, NumberAssumption DEF JudgeFails, Become, Disturb, TaskStates, InFlight, Ended
<1>18. ASSUME NEW i \in Positions, ExportRecord(i) PROVE ValuesTyped'
  BY <1>18, ListedAreRecords DEF ExportRecord, Become, Write, TaskStates, InFlight, Ended
<1>19. ASSUME NEW i \in Positions, ExportFails(i) PROVE ValuesTyped'
  BY <1>19, NumberAssumption, ListedAreRecords
     DEF ExportFails, Become, Write, Disturb, TaskStates, InFlight, Ended
<1>20. ASSUME NEW i \in Positions, MarkRecord(i) PROVE ValuesTyped'
  BY <1>20, ListedAreRecords DEF MarkRecord, Become, Mark, TaskStates, InFlight, Ended
<1>21. ASSUME NEW i \in Positions, MarkFails(i) PROVE ValuesTyped'
  BY <1>21, NumberAssumption, ListedAreRecords
     DEF MarkFails, Become, Mark, Disturb, TaskStates, InFlight, Ended
<1>22. ASSUME NEW i \in Positions, MarkWritten(i) PROVE ValuesTyped'
  BY <1>22, ListedAreRecords DEF MarkWritten, Become, Mark, TaskStates, InFlight, Ended
<1>23. ASSUME NEW i \in Positions, MarkWrittenBreaks(i) PROVE ValuesTyped'
  BY <1>23, NumberAssumption, ListedAreRecords DEF MarkWrittenBreaks, Mark, Break, Disturb
<1>24. ASSUME NEW i \in Positions, CommitFailure(i) PROVE ValuesTyped'
  <2>1. failures' \in [Records -> Nat]
    BY <1>24, ListedAreRecords DEF CommitFailure, CountFailure
  <2>2. commits' \in [old: SUBSET Positions, new: SUBSET Positions]
    BY <1>24 DEF CommitFailure
  <2>3. QED
    BY <1>24, <2>1, <2>2 DEF CommitFailure
<1>25. ASSUME NEW i \in Positions, CommitBreaks(i) PROVE ValuesTyped'
  BY <1>25, NumberAssumption, ListedAreRecords DEF CommitBreaks, CountFailure, Break, Disturb
<1>26. CASE GatherPage \/ PageMarked
  BY <1>26 DEF GatherPage, PageMarked
<1>27. CASE FlushPage
  BY <1>27 DEF FlushPage
<1>28. CASE FlushFails
  BY <1>28, NumberAssumption DEF FlushFails, Disturb
<1>29. CASE CancelFlush
  BY <1>29, NumberAssumption DEF CancelFlush, Disturb, Break
<1>30. CASE CancelPage
  BY <1>30, NumberAssumption, ListedAreRecords
     DEF CancelPage, Write, Mark, Disturb, Break, In, InStates
<1>31. CASE SettlePage
  BY <1>31, ProcessedIsNumber DEF SettlePage, NoCommits, PageFailed, In
<1>32. CASE AbortStalled
  BY <1>32 DEF AbortStalled, HoldFailures, StalledNow, PageFailed, In, Break
<1>33. CASE TruncateListing
  BY <1>33 DEF TruncateListing, HoldFailures, StalledNow, PageFailed, In, Metadata
<1>34. CASE EndListing
  BY <1>34 DEF EndListing, HoldFailures, StalledNow, PageFailed, In, Metadata, EndCursor, Pages
<1>35. CASE NextPage
  <2>1. cursor' \in Nat
    BY <1>35 DEF NextPage, Pages
  <2>2. meta' \in Metadata
    BY <1>35, <2>1 DEF NextPage, Metadata
  <2>3. held' \subseteq Positions /\ stalled' \in Nat
    BY <1>35 DEF NextPage, HoldFailures, StalledNow, PageFailed, In
  <2>4. QED
    BY <1>35, <2>1, <2>2, <2>3 DEF NextPage, HoldFailures
<1>36. CASE FlushAtEnd
  BY <1>36 DEF FlushAtEnd
<1>37. CASE FlushAtEndFails
  BY <1>37, NumberAssumption DEF FlushAtEndFails, EndFault, Disturb
<1>38. CASE CloseExporter
  BY <1>38, NumberAssumption DEF CloseExporter, EndFault, Disturb
<1>39. CASE FlushState
  BY <1>39, NumberAssumption
     DEF FlushState, Forget, FreshListing, FreshTally, FreshPage, NoPage, NoTask, NoCommits,
         Pages, TaskStates, Metadata, EndFault, Disturb
<1>40. CASE Crash
  BY <1>40, NumberAssumption
     DEF Crash, Forget, FreshListing, FreshTally, FreshPage, NoPage, NoTask, NoCommits,
         Pages, TaskStates, Metadata, Disturb
<1>41. CASE Publish
  BY <1>41, PositionsAreNumbers DEF Publish
<1>42. CASE RequestStop
  BY <1>42, NumberAssumption DEF RequestStop, Disturb
<1>43. QED
  BY <1>1, <1>2, <1>3, <1>4, <1>5, <1>6, <1>7, <1>8, <1>9, <1>10, <1>11, <1>12, <1>13, <1>14,
     <1>15, <1>16, <1>17, <1>18, <1>19, <1>20, <1>21, <1>22, <1>23, <1>24, <1>25, <1>26,
     <1>27, <1>28, <1>29, <1>30, <1>31, <1>32, <1>33, <1>34, <1>35, <1>36, <1>37, <1>38,
     <1>39, <1>40, <1>41, <1>42
     DEF Next, RunStep, TaskStep, Disturbance, TaskFault

\* Every variable of the pipeline keeps its type.
THEOREM TypeCorrect == Spec => []TypeOK
<1>1. TypeOK /\ [Next]_vars => TypeOK'
  BY ValuesStep, FlagsStep DEF TypeOK
<1>2. QED
  BY <1>1, TypeInit, PTL DEF Spec

-----------------------------------------------------------------------------
(* What the state manager and the exporter hold only grows.                *)

\* Nothing leaves the exporter's durable store.
LEMMA SinkGrows ==
  ASSUME [Next]_vars
  PROVE  sink \subseteq sink'
<1>1. CASE UNCHANGED vars
  BY <1>1 DEF vars
<1>2. CASE StartRun \/ OpenExporter \/ OpenFails \/ LoadState \/ LoadFails \/ LimitReached
           \/ InterruptRun \/ BeginFetch \/ FetchPage \/ CancelWait \/ FetchFails
           \/ FetchStale \/ StaleAgain \/ SaveRestart
  BY <1>2
     DEF StartRun, OpenExporter, OpenFails, LoadState, LoadFails, LimitReached, InterruptRun,
         BeginFetch, FetchPage, CancelWait, FetchFails, FetchStale, StaleAgain, SaveRestart
<1>3. ASSUME NEW i \in Positions, TaskStep(i) \/ TaskFault(i)
      PROVE  sink \subseteq sink'
  BY <1>3
     DEF TaskStep, StartRecord, JudgeIrrelevant, JudgeRelevant, ExportRecord, MarkRecord,
         MarkWritten, CommitFailure, TaskFault, JudgeFails, ExportFails, MarkFails,
         MarkWrittenBreaks, CommitBreaks, Write
<1>4. CASE GatherPage \/ CancelPage \/ FlushPage \/ CancelFlush \/ FlushFails \/ PageMarked
           \/ SettlePage
  BY <1>4
     DEF GatherPage, CancelPage, FlushPage, CancelFlush, FlushFails, PageMarked, SettlePage, Write
<1>5. CASE AbortStalled \/ TruncateListing \/ EndListing \/ NextPage \/ SavePage \/ SaveBreaks
  BY <1>5 DEF AbortStalled, TruncateListing, EndListing, NextPage, SavePage, SaveBreaks
<1>6. CASE FlushAtEnd \/ FlushAtEndFails \/ CloseExporter \/ FlushState \/ Crash \/ Publish
           \/ RequestStop
  BY <1>6 DEF FlushAtEnd, FlushAtEndFails, CloseExporter, FlushState, Crash, Publish, RequestStop
<1>7. QED
  BY <1>1, <1>2, <1>3, <1>4, <1>5, <1>6 DEF Next, RunStep, Disturbance

\* The positions whose task is in mark_processed.
Marking == {i \in Positions : \/ task[i] \in {"markingIrrelevant", "markingWritten"}
                              \/ phase = "marking" /\ task[i] = "written"}

\* What a step does to the state manager's ids: it marks records whose task is
\* marking, or counts one failure, or leaves them alone.
StateStep ==
  \/ \E ids \in SUBSET {Listing[i] : i \in Marking} : Mark(ids) /\ UNCHANGED saved
  \/ \E i \in Positions : CountFailure(i) /\ UNCHANGED <<processed, saved, sink>>
  \/ UNCHANGED <<processed, failures, saved>>
  \/ saved' = meta /\ UNCHANGED <<processed, failures, sink>>

\* Every step changes the saved state in one of the ways StateStep lists.
LEMMA StateSteps ==
  ASSUME [Next]_vars
  PROVE  StateStep
<1>1. CASE UNCHANGED vars
  BY <1>1 DEF vars, StateStep
<1>2. CASE StartRun \/ OpenExporter \/ OpenFails \/ LoadState \/ LoadFails \/ LimitReached
           \/ InterruptRun \/ BeginFetch \/ FetchPage \/ CancelWait \/ FetchFails
           \/ FetchStale \/ StaleAgain
  BY <1>2
     DEF StartRun, OpenExporter, OpenFails, LoadState, LoadFails, LimitReached, InterruptRun,
         BeginFetch, FetchPage, CancelWait, FetchFails, FetchStale, StaleAgain, StateStep
<1>3. CASE SaveRestart \/ SavePage \/ SaveBreaks
  BY <1>3 DEF SaveRestart, SavePage, SaveBreaks, StateStep
<1>4. ASSUME NEW i \in Positions,
             StartRecord(i) \/ JudgeIrrelevant(i) \/ JudgeRelevant(i) \/ JudgeFails(i)
             \/ ExportRecord(i) \/ ExportFails(i)
      PROVE  StateStep
  BY <1>4
     DEF StartRecord, JudgeIrrelevant, JudgeRelevant, JudgeFails, ExportRecord, ExportFails,
         StateStep
<1>5. ASSUME NEW i \in Positions,
             MarkRecord(i) \/ MarkFails(i) \/ MarkWritten(i) \/ MarkWrittenBreaks(i)
      PROVE  StateStep
  <2>1. i \in Marking
    BY <1>5
       DEF MarkRecord, MarkFails, MarkWritten, MarkWrittenBreaks, Marking, First, In
  <2>2. PICK ids \in SUBSET {Listing[i]} : Mark(ids) /\ UNCHANGED saved
    BY <1>5 DEF MarkRecord, MarkFails, MarkWritten, MarkWrittenBreaks
  <2>3. ids \in SUBSET {Listing[j] : j \in Marking}
    BY <2>1
  <2>4. QED
    BY <2>2, <2>3 DEF StateStep
<1>6. ASSUME NEW i \in Positions, CommitFailure(i) \/ CommitBreaks(i)
      PROVE  StateStep
  BY <1>6 DEF CommitFailure, CommitBreaks, StateStep
<1>7. CASE CancelPage
  <2>1. PICK ids \in SUBSET {Listing[i] : i \in InStates({"markingIrrelevant", "markingWritten"})} :
            Mark(ids) /\ UNCHANGED saved
    BY <1>7 DEF CancelPage
  <2>2. ids \in SUBSET {Listing[i] : i \in Marking}
    BY DEF InStates, Marking
  <2>3. QED
    BY <2>1, <2>2 DEF StateStep
<1>8. CASE GatherPage \/ FlushPage \/ CancelFlush \/ FlushFails \/ PageMarked \/ SettlePage
  BY <1>8 DEF GatherPage, FlushPage, CancelFlush, FlushFails, PageMarked, SettlePage, StateStep
<1>9. CASE AbortStalled \/ TruncateListing \/ EndListing \/ NextPage
  BY <1>9 DEF AbortStalled, TruncateListing, EndListing, NextPage, StateStep
<1>10. CASE FlushAtEnd \/ FlushAtEndFails \/ CloseExporter \/ FlushState \/ Crash \/ Publish
            \/ RequestStop
  BY <1>10
     DEF FlushAtEnd, FlushAtEndFails, CloseExporter, FlushState, Crash, Publish, RequestStop,
         StateStep
<1>11. QED
  BY <1>1, <1>2, <1>3, <1>4, <1>5, <1>6, <1>7, <1>8, <1>9, <1>10
     DEF Next, RunStep, TaskStep, Disturbance, TaskFault

\* A record given up stays given up until it is processed.
LEMMA SettledStays ==
  ASSUME ValuesTyped, StateStep
  PROVE  /\ processed \subseteq processed'
         /\ \A r \in Records : Exhausted(r) => r \in processed' \/ Exhausted(r)'
<1>1. ASSUME NEW ids \in SUBSET {Listing[i] : i \in Marking}, Mark(ids)
      PROVE  /\ processed \subseteq processed'
             /\ \A r \in Records : Exhausted(r) => r \in processed' \/ Exhausted(r)'
  BY <1>1 DEF Mark, Exhausted
<1>2. ASSUME NEW i \in Positions, CountFailure(i), UNCHANGED processed
      PROVE  /\ processed \subseteq processed'
             /\ \A r \in Records : Exhausted(r) => r \in processed' \/ Exhausted(r)'
  <2>1. Listing[i] \in Records /\ MaxAttempts \in Nat
    BY ListedAreRecords, NumberAssumption
  <2>2. \A r \in Records : failures[r] \in Nat /\ failures'[r] \in Nat /\ failures'[r] >= failures[r]
    BY <1>2, <2>1 DEF ValuesTyped, CountFailure
  <2>3. QED
    BY <1>2, <2>1, <2>2 DEF Exhausted
<1>3. CASE UNCHANGED <<processed, failures>>
  BY <1>3 DEF Exhausted
<1>4. QED
  BY <1>1, <1>2, <1>3 DEF StateStep

\* What is behind a settled prefix of the listing stays so.
LEMMA BehindStays ==
  ASSUME ValuesTyped, StateStep, published' \in Nat, published <= published', NEW n \in Nat, Behind(n)
  PROVE  Behind(n)'
<1>1. n <= published' /\ n <= Len(Listing) /\ n <= published
  BY PositionsAreNumbers DEF Behind, ValuesTyped
<1>2. ASSUME NEW i \in 1..n PROVE SettledEntry(i)'
  <2>1. SettledEntry(i)
    BY DEF Behind
  <2>2. Listing[i] \in Records
    BY <1>1, PositionsAreNumbers, ListedAreRecords
  <2>3. QED
    BY <2>1, <2>2, SettledStays DEF SettledEntry
<1>3. QED
  BY <1>1, <1>2 DEF Behind

-----------------------------------------------------------------------------
(* R20: a record is marked only once its entities are durable.             *)

\* R20 is kept by every step: what mark_processed marks was irrelevant or in
\* the sink already.
LEMMA DurableStep ==
  ASSUME MarkedIsDurable, TasksSound, [Next]_vars
  PROVE  MarkedIsDurable'
<1>1. sink \subseteq sink'
  BY SinkGrows
<1>2. ASSUME NEW i \in Marking
      PROVE  Listing[i] \in Irrelevant \union sink
  BY <1>2 DEF Marking, TasksSound
<1>3. processed' \subseteq processed \union {Listing[i] : i \in Marking}
  BY StateSteps DEF StateStep, Mark
<1>4. QED
  BY <1>1, <1>2, <1>3 DEF MarkedIsDurable

\* A step that moves no task, and either stays in its phase or leaves the
\* phases that write and mark.
TasksStand ==
  /\ task' = task
  /\ \/ phase' = phase /\ sink \union buffer \subseteq sink' \union buffer'
     \/ phase' \notin {"page", "flushing", "marking"}

\* A step that moves the task of one entry, from a phase it stays in.
TaskMoves(i, state) ==
  /\ task' = [task EXCEPT ![i] = state]
  /\ phase' = phase
  /\ buffer \subseteq buffer'

\* A step that moves no task, or none that the invariant speaks of, keeps what
\* is known of the tasks.
LEMMA StandingTasks ==
  ASSUME TasksSound, TasksStand, sink \subseteq sink', processed \subseteq processed'
  PROVE  TasksSound'
<1> SUFFICES ASSUME NEW i \in Positions
    PROVE /\ task'[i] = "markingIrrelevant" => Listing[i] \in Irrelevant
          /\ task'[i] = "markingWritten" => Listing[i] \in sink'
          /\ task'[i] \in {"processed", "irrelevant"} => Listing[i] \in processed'
          /\ task'[i] = "written" /\ phase' \in {"page", "flushing"} =>
               Listing[i] \in sink' \union buffer'
          /\ task'[i] = "written" /\ phase' = "marking" => Listing[i] \in sink'
  BY DEF TasksSound
<1>1. QED
  BY DEF TasksSound, TasksStand

\* The tasks' states are backed by the stores whatever one task does, as long
\* as the state it moves to is.
LEMMA MovingTask ==
  ASSUME ValuesTyped, TasksSound, sink \subseteq sink', processed \subseteq processed',
         NEW i \in Positions, NEW state \in TaskStates, TaskMoves(i, state),
         state = "markingIrrelevant" => Listing[i] \in Irrelevant,
         state = "markingWritten" => Listing[i] \in sink',
         state \in {"processed", "irrelevant"} => Listing[i] \in processed',
         state = "written" => phase = "page" /\ Listing[i] \in sink' \union buffer'
  PROVE  TasksSound'
<1> SUFFICES ASSUME NEW j \in Positions
    PROVE /\ task'[j] = "markingIrrelevant" => Listing[j] \in Irrelevant
          /\ task'[j] = "markingWritten" => Listing[j] \in sink'
          /\ task'[j] \in {"processed", "irrelevant"} => Listing[j] \in processed'
          /\ task'[j] = "written" /\ phase' \in {"page", "flushing"} =>
               Listing[j] \in sink' \union buffer'
          /\ task'[j] = "written" /\ phase' = "marking" => Listing[j] \in sink'
  BY DEF TasksSound
<1>1. CASE i = j
  <2>1. task'[j] = state
    BY <1>1 DEF TaskMoves, ValuesTyped
  <2>2. QED
    BY <1>1, <2>1 DEF TaskMoves
<1>2. CASE i # j
  <2>1. task'[j] = task[j]
    BY <1>2 DEF TaskMoves, ValuesTyped
  <2>2. QED
    BY <2>1 DEF TaskMoves, TasksSound
<1>3. QED
  BY <1>1, <1>2

\* Every step keeps what is known of the tasks: a task that marks holds a
\* record that may be marked, and one that ended left it marked.
LEMMA TasksStep ==
  ASSUME ValuesTyped, TasksSound, [Next]_vars
  PROVE  TasksSound'
<1>1. sink \subseteq sink' /\ processed \subseteq processed'
  BY SinkGrows, StateSteps, SettledStays
<1> USE DEF TasksStand
<1>2. CASE UNCHANGED vars
  BY <1>1, <1>2, StandingTasks DEF vars
<1>3. CASE StartRun \/ OpenExporter \/ OpenFails \/ LoadState \/ LoadFails \/ LimitReached
           \/ InterruptRun \/ BeginFetch \/ CancelWait \/ FetchFails \/ FetchStale
           \/ StaleAgain \/ SaveRestart
  <2>1. TasksStand
    BY <1>3
       DEF StartRun, OpenExporter, OpenFails, LoadState, LoadFails, LimitReached, InterruptRun,
           BeginFetch, CancelWait, FetchFails, FetchStale, StaleAgain, SaveRestart, Break
  <2>2. QED
    BY <1>1, <2>1, StandingTasks
<1>4. CASE FetchPage
  BY <1>4 DEF FetchPage, TasksSound
<1>5. ASSUME NEW i \in Positions, TaskStep(i) \/ TaskFault(i)
      PROVE  TasksSound'
  <2> USE DEF TaskMoves, Become, TaskStates, InFlight, Ended
  <2>1. CASE StartRecord(i)
    <3>1. \E state \in {"deferred", "judging"} : TaskMoves(i, state)
      BY <2>1 DEF StartRecord
    <3>2. QED
      BY <1>1, <3>1, MovingTask
  <2>2. CASE JudgeIrrelevant(i)
    BY <1>1, <2>2, MovingTask DEF JudgeIrrelevant
  <2>3. CASE JudgeRelevant(i)
    <3>1. \E state \in {"deferred", "exporting"} : TaskMoves(i, state)
      BY <2>3 DEF JudgeRelevant
    <3>2. QED
      BY <1>1, <3>1, MovingTask
  <2>4. CASE JudgeFails(i)
    BY <1>1, <2>4, MovingTask DEF JudgeFails
  <2>5. CASE ExportRecord(i)
    <3>1. CASE DurableWrites
      <4>1. TaskMoves(i, "markingWritten") /\ Listing[i] \in sink'
        BY <2>5, <3>1 DEF ExportRecord, Write
      <4>2. QED
        BY <1>1, <4>1, MovingTask
    <3>2. CASE ~DurableWrites
      <4>1. TaskMoves(i, "written") /\ phase = "page" /\ Listing[i] \in buffer'
        BY <2>5, <3>2 DEF ExportRecord, Write
      <4>2. QED
        BY <1>1, <4>1, MovingTask
    <3>3. QED
      BY <3>1, <3>2
  <2>6. CASE ExportFails(i)
    <3>1. TaskMoves(i, "failed")
      BY <2>6 DEF ExportFails, Write
    <3>2. QED
      BY <1>1, <3>1, MovingTask
  <2>7. CASE MarkRecord(i)
    <3>1. \E state \in {"processed", "irrelevant"} : TaskMoves(i, state)
      BY <2>7 DEF MarkRecord
    <3>2. Listing[i] \in processed'
      BY <2>7 DEF MarkRecord, Mark
    <3>3. QED
      BY <1>1, <3>1, <3>2, MovingTask
  <2>8. CASE MarkFails(i)
    <3>1. TaskMoves(i, "failed")
      BY <2>8 DEF MarkFails
    <3>2. QED
      BY <1>1, <3>1, MovingTask
  <2>9. CASE MarkWritten(i)
    <3>1. TaskMoves(i, "processed") /\ Listing[i] \in processed'
      BY <2>9 DEF MarkWritten, Mark
    <3>2. QED
      BY <1>1, <3>1, MovingTask
  <2>10. CASE CommitFailure(i) \/ MarkWrittenBreaks(i) \/ CommitBreaks(i)
    <3>1. TasksStand
      BY <2>10 DEF CommitFailure, MarkWrittenBreaks, CommitBreaks, Break
    <3>2. QED
      BY <1>1, <3>1, StandingTasks
  <2>11. QED
    BY <1>5, <2>1, <2>2, <2>3, <2>4, <2>5, <2>6, <2>7, <2>8, <2>9, <2>10 DEF TaskStep, TaskFault
<1>6. CASE GatherPage
  BY <1>6 DEF GatherPage, TasksSound
<1>7. CASE FlushPage
  BY <1>1, <1>7 DEF FlushPage, TasksSound
<1>8. CASE CancelPage \/ CancelFlush \/ FlushFails \/ PageMarked \/ SettlePage \/ AbortStalled
           \/ TruncateListing \/ EndListing \/ NextPage \/ SaveBreaks
  <2>1. TasksStand
    BY <1>8
       DEF CancelPage, CancelFlush, FlushFails, PageMarked, SettlePage, AbortStalled,
           TruncateListing, EndListing, NextPage, SaveBreaks, Break
  <2>2. QED
    BY <1>1, <2>1, StandingTasks
<1>9. CASE SavePage \/ FlushState \/ Crash
  <2>1. \A i \in Positions : task'[i] = "off"
    BY <1>9 DEF SavePage, FlushState, Crash, Forget, FreshPage, NoTask
  <2>2. QED
    BY <2>1 DEF TasksSound
<1>10. CASE FlushAtEnd \/ FlushAtEndFails \/ CloseExporter \/ Publish \/ RequestStop
  <2>1. TasksStand
    BY <1>10 DEF FlushAtEnd, FlushAtEndFails, CloseExporter, Publish, RequestStop
  <2>2. QED
    BY <1>1, <2>1, StandingTasks
<1>11. QED
  BY <1>2, <1>3, <1>4, <1>5, <1>6, <1>7, <1>8, <1>9, <1>10 DEF Next, RunStep, Disturbance

-----------------------------------------------------------------------------
(* R1: the saved cursor stays behind every entry that needs another run.   *)

\* The number of published entries only grows.
LEMMA PublishedGrows ==
  ASSUME ValuesTyped, [Next]_vars
  PROVE  published' \in Nat /\ published <= published'
<1>1. published \in Nat
  BY PositionsAreNumbers DEF ValuesTyped
<1>2. CASE Publish
  BY <1>1, <1>2 DEF Publish
<1>3. CASE UNCHANGED vars
  BY <1>1, <1>3 DEF vars
<1>4. ASSUME NEW i \in Positions, TaskStep(i) \/ TaskFault(i)
      PROVE  published' = published
  BY <1>4
     DEF TaskStep, StartRecord, JudgeIrrelevant, JudgeRelevant, ExportRecord, MarkRecord,
         MarkWritten, CommitFailure, TaskFault, JudgeFails, ExportFails, MarkFails,
         MarkWrittenBreaks, CommitBreaks
<1>5. CASE StartRun \/ OpenExporter \/ OpenFails \/ LoadState \/ LoadFails \/ LimitReached
           \/ InterruptRun \/ BeginFetch \/ FetchPage \/ CancelWait \/ FetchFails
           \/ FetchStale \/ StaleAgain \/ SaveRestart
  BY <1>1, <1>5
     DEF StartRun, OpenExporter, OpenFails, LoadState, LoadFails, LimitReached, InterruptRun,
         BeginFetch, FetchPage, CancelWait, FetchFails, FetchStale, StaleAgain, SaveRestart
<1>6. CASE GatherPage \/ CancelPage \/ FlushPage \/ CancelFlush \/ FlushFails \/ PageMarked
           \/ SettlePage \/ AbortStalled \/ TruncateListing \/ EndListing \/ NextPage
           \/ SavePage \/ SaveBreaks
  BY <1>1, <1>6
     DEF GatherPage, CancelPage, FlushPage, CancelFlush, FlushFails, PageMarked, SettlePage,
         AbortStalled, TruncateListing, EndListing, NextPage, SavePage, SaveBreaks
<1>7. CASE FlushAtEnd \/ FlushAtEndFails \/ CloseExporter \/ FlushState \/ Crash \/ RequestStop
  BY <1>1, <1>7 DEF FlushAtEnd, FlushAtEndFails, CloseExporter, FlushState, Crash, RequestStop
<1>8. QED
  BY <1>1, <1>2, <1>3, <1>4, <1>5, <1>6, <1>7 DEF Next, RunStep, Disturbance

\* A step inside a page: it stays on the page, no task loses its entry, and
\* the tasks that ended stay ended.
PageStands ==
  /\ cursor' = cursor /\ page' = page
  /\ \A i \in Positions : task'[i] = "off" => task[i] = "off"
  /\ phase' \in PagePhases => phase \in PagePhases
  /\ phase' \in PagePhases \ {"page"} =>
       \A i \in Positions : task'[i] \in {"off"} \union Ended

\* A step that leaves the page as it is keeps what is known of it.
LEMMA StandingPage ==
  ASSUME ValuesTyped, PageSound, PageStands, StateStep,
         published' \in Nat, published <= published'
  PROVE  PageSound'
<1>1. cursor \in Nat /\ page.entries \in Nat /\ published \in Nat
  BY PositionsAreNumbers DEF ValuesTyped, Pages
<1>2. PageEntries' = PageEntries
  BY DEF PageStands, PageEntries
<1>3. ASSUME phase' \in PagePhases
      PROVE  /\ cursor' + page'.entries <= published'
             /\ \A i \in PageEntries : task'[i] = "off" => SettledEntry(i)'
  <2>1. cursor + page.entries <= published
    BY <1>3 DEF PageStands, PageSound
  <2>2. cursor' + page'.entries <= published'
    BY <1>1, <2>1 DEF PageStands
  <2>3. PageEntries \subseteq Positions
    BY <1>1, <2>1, PositionsAreNumbers DEF PageEntries, ValuesTyped
  <2>4. ASSUME NEW i \in PageEntries, task'[i] = "off" PROVE SettledEntry(i)'
    <3>1. SettledEntry(i) /\ Listing[i] \in Records
      BY <1>3, <2>3, <2>4, ListedAreRecords DEF PageStands, PageSound
    <3>2. QED
      BY <3>1, SettledStays DEF SettledEntry
  <2>5. QED
    BY <2>2, <2>4
<1>4. QED
  BY <1>2, <1>3 DEF PageSound, PageStands

\* Every step keeps what is known of the page: once complete, its entries are
\* settled.
LEMMA PageStep ==
  ASSUME ValuesTyped, SkipsSound, CursorsSound, PageSound, [Next]_vars
  PROVE  PageSound'
<1>1. StateStep /\ published' \in Nat /\ published <= published'
  BY StateSteps, PublishedGrows
<1> USE DEF PageStands, PagePhases
<1>2. CASE UNCHANGED vars
  <2>1. PageStands
    BY <1>2 DEF vars, PageSound
  <2>2. QED
    BY <1>1, <2>1, StandingPage
<1>3. CASE \/ StartRun \/ OpenExporter \/ OpenFails \/ LoadFails \/ LimitReached
           \/ InterruptRun \/ BeginFetch \/ CancelWait \/ FetchFails \/ StaleAgain \/ SaveRestart
           \/ CancelPage \/ CancelFlush \/ AbortStalled \/ SaveBreaks
           \/ FlushAtEnd \/ FlushAtEndFails \/ CloseExporter
  <2>1. phase' \notin PagePhases
    BY <1>3
       DEF StartRun, OpenExporter, OpenFails, LoadFails, LimitReached, InterruptRun, BeginFetch,
           CancelWait, FetchFails, StaleAgain, SaveRestart, CancelPage, CancelFlush,
           AbortStalled, SaveBreaks, FlushAtEnd, FlushAtEndFails, CloseExporter, Break
  <2>2. QED
    BY <2>1 DEF PageSound
<1>4. CASE LoadState \/ FetchStale \/ TruncateListing \/ EndListing \/ NextPage \/ SavePage
           \/ FlushState \/ Crash
  <2>1. phase' \notin PagePhases
    BY <1>4
       DEF LoadState, FetchStale, TruncateListing, EndListing, NextPage, SavePage, Break,
           FlushState, Crash, Forget
  <2>2. QED
    BY <2>1 DEF PageSound
<1>5. CASE FetchPage
  <2>1. /\ page' \in Pages /\ cursor' = cursor /\ published' = published
        /\ cursor + page'.entries <= published
    BY <1>5, PagesTyped DEF FetchPage, CursorsSound
  <2>2. cursor \in Nat /\ page'.entries \in Nat /\ published \in Nat
    BY <2>1, PositionsAreNumbers DEF ValuesTyped, Pages
  <2>3. (cursor + 1)..(cursor + page'.entries) \subseteq Positions
    BY <2>1, <2>2, PositionsAreNumbers DEF ValuesTyped
  <2>4. PageEntries' = (cursor + 1)..(cursor + page'.entries)
    BY <2>1 DEF PageEntries
  <2>5. ASSUME NEW i \in PageEntries', task'[i] = "off" PROVE SettledEntry(i)'
    <3>1. ~Unprocessed(i)
      BY <1>5, <2>3, <2>4, <2>5 DEF FetchPage
    <3>2. SettledEntry(i)
      BY <3>1 DEF Unprocessed, SettledEntry, SkipsSound
    <3>3. QED
      BY <1>5, <3>2 DEF FetchPage, SettledEntry, Exhausted
  <2>6. ASSUME phase' \in PagePhases \ {"page"}, NEW i \in Positions PROVE task'[i] = "off"
    <3>1. page'.entries = 0
      BY <1>5, <2>6 DEF FetchPage
    <3>2. i \notin (cursor + 1)..(cursor + page'.entries)
      BY <2>2, <3>1, PositionsAreNumbers
    <3>3. QED
      BY <1>5, <3>2 DEF FetchPage
  <2>7. QED
    BY <2>1, <2>5, <2>6 DEF PageSound
<1>6. ASSUME NEW i \in Positions,
             \/ StartRecord(i) \/ JudgeIrrelevant(i) \/ JudgeRelevant(i) \/ JudgeFails(i)
             \/ ExportRecord(i) \/ ExportFails(i) \/ MarkRecord(i) \/ MarkFails(i)
      PROVE  PageSound'
  <2>1. phase = "page" /\ phase' = "page" /\ cursor' = cursor /\ page' = page
    BY <1>6
       DEF StartRecord, JudgeIrrelevant, JudgeRelevant, JudgeFails, ExportRecord, ExportFails,
           MarkRecord, MarkFails
  <2>2. \E state \in TaskStates \ {"off"} : task' = [task EXCEPT ![i] = state]
    BY <1>6
       DEF StartRecord, JudgeIrrelevant, JudgeRelevant, JudgeFails, ExportRecord, ExportFails,
           MarkRecord, MarkFails, Become, TaskStates, InFlight, Ended
  <2>3. PageStands
    BY <2>1, <2>2 DEF ValuesTyped
  <2>4. QED
    BY <1>1, <2>3, StandingPage
<1>7. ASSUME NEW i \in Positions, MarkWritten(i)
      PROVE  PageSound'
  <2>1. PageStands
    BY <1>7 DEF MarkWritten, Become, ValuesTyped, PageSound, Ended
  <2>2. QED
    BY <1>1, <2>1, StandingPage
<1>8. ASSUME NEW i \in Positions, CommitFailure(i)
      PROVE  PageSound'
  <2>1. PageStands
    BY <1>8 DEF CommitFailure, PageSound
  <2>2. QED
    BY <1>1, <2>1, StandingPage
<1>9. ASSUME NEW i \in Positions, MarkWrittenBreaks(i) \/ CommitBreaks(i)
      PROVE  PageSound'
  BY <1>9 DEF MarkWrittenBreaks, CommitBreaks, Break, PageSound
<1>10. CASE GatherPage
  <2>1. \A i \in Positions : task[i] \in {"off"} \union Ended
    BY <1>10 DEF GatherPage, InStates, ValuesTyped, TaskStates
  <2>2. PageStands
    BY <1>10, <2>1 DEF GatherPage
  <2>3. QED
    BY <1>1, <2>2, StandingPage
<1>11. CASE FlushPage \/ FlushFails \/ PageMarked \/ SettlePage
  <2>1. PageStands
    BY <1>11 DEF FlushPage, FlushFails, PageMarked, SettlePage, PageSound
  <2>2. QED
    BY <1>1, <2>1, StandingPage
<1>12. CASE Publish \/ RequestStop
  <2>1. PageStands
    BY <1>12 DEF Publish, RequestStop, PageSound
  <2>2. QED
    BY <1>1, <2>1, StandingPage
<1>13. QED
  BY <1>2, <1>3, <1>4, <1>5, <1>6, <1>7, <1>8, <1>9, <1>10, <1>11, <1>12
     DEF Next, RunStep, TaskStep, Disturbance, TaskFault

\* Once a page has settled completely, everything up to its end is settled.
LEMMA PageDone ==
  ASSUME ValuesTyped, TasksSound, PageSound, phase = "committing", PageComplete, Behind(cursor)
  PROVE  Behind(cursor + page.entries)
<1>1. /\ cursor \in Nat /\ page.entries \in Nat /\ published \in Nat
      /\ cursor + page.entries <= published
  BY PositionsAreNumbers DEF ValuesTyped, Pages, PageSound, PagePhases
<1>2. ASSUME NEW i \in 1..(cursor + page.entries)
      PROVE  SettledEntry(i)
  <2>1. i \in Positions
    BY <1>1, PositionsAreNumbers DEF ValuesTyped
  <2>2. CASE i <= cursor
    BY <1>1, <2>2 DEF Behind
  <2>3. CASE ~(i <= cursor)
    <3>1. i \in PageEntries
      BY <1>1, <2>3 DEF PageEntries
    <3>2. CASE task[i] = "off"
      BY <3>1, <3>2 DEF PageSound, PagePhases
    <3>3. CASE task[i] # "off"
      <4>1. task[i] \in Ended
        BY <2>1, <3>3 DEF PageSound, PagePhases
      <4>2. task[i] \notin {"failed", "deferred", "written"}
        BY <2>1 DEF PageComplete, InStates
      <4>3. task[i] \in {"processed", "irrelevant"}
        BY <4>1, <4>2 DEF Ended
      <4>4. QED
        BY <2>1, <4>3 DEF TasksSound, SettledEntry
    <3>4. QED
      BY <3>2, <3>3
  <2>4. QED
    BY <2>2, <2>3
<1>3. QED
  BY <1>1, <1>2 DEF Behind

\* No entry lies behind the first page.
LEMMA NothingIsBehind ==
  ASSUME ValuesTyped
  PROVE  Behind(0)
BY PositionsAreNumbers DEF ValuesTyped, Behind

\* A step that moves none of the cursors.
CursorsStand ==
  /\ saved' = saved /\ meta' = meta
  /\ cursor' = cursor
  /\ settled' = settled

\* A step that moves no cursor keeps every entry behind them settled.
LEMMA StandingCursors ==
  ASSUME ValuesTyped, CursorsSound, CursorsStand, StateStep,
         published' \in Nat, published <= published'
  PROVE  CursorsSound'
<1>1. saved.cursor \in Nat /\ meta.cursor \in Nat /\ cursor \in Nat /\ published \in Nat
  BY PositionsAreNumbers DEF ValuesTyped, Metadata
<1>2. ASSUME NEW n \in Nat, Behind(n) PROVE Behind(n)'
  BY <1>2, BehindStays
<1>3. Behind(saved.cursor)' /\ Behind(meta.cursor)'
  <2>1. saved'.cursor = saved.cursor /\ meta'.cursor = meta.cursor
    BY DEF CursorsStand
  <2>2. Behind(saved.cursor) /\ Behind(meta.cursor)
    BY DEF CursorsSound
  <2>3. QED
    BY <1>1, <1>2, <2>1, <2>2 DEF Behind
<1>4. cursor' <= published' /\ (settled' => Behind(cursor)')
  <2>1. cursor' = cursor /\ settled' = settled
    BY DEF CursorsStand
  <2>2. cursor <= published /\ (settled => Behind(cursor))
    BY DEF CursorsSound
  <2>3. cursor' <= published'
    BY <1>1, <2>1, <2>2
  <2>4. Behind(cursor) => Behind(cursor)'
    BY <1>1, <1>2, <2>1 DEF Behind
  <2>5. QED
    BY <2>1, <2>2, <2>3, <2>4
<1>5. QED
  BY <1>3, <1>4 DEF CursorsSound

\* A step that changes neither the listing nor any settled record.
LedgerStands == UNCHANGED <<published, processed, failures>>

\* The run takes a new cursor, or a new position, that is sound.
LEMMA MovedCursors ==
  ASSUME ValuesTyped, CursorsSound, LedgerStands,
         NEW s \in Nat, NEW m \in Nat, NEW c \in Nat,
         saved'.cursor = s, meta'.cursor = m, cursor' = c,
         Behind(s), Behind(m), c <= published, settled' => Behind(c)
  PROVE  CursorsSound'
<1>1. Behind(saved.cursor)' <=> Behind(s)
  BY DEF LedgerStands, Behind, SettledEntry, Exhausted
<1>2. Behind(meta.cursor)' <=> Behind(m)
  BY DEF LedgerStands, Behind, SettledEntry, Exhausted
<1>3. Behind(cursor)' <=> Behind(c)
  BY DEF LedgerStands, Behind, SettledEntry, Exhausted
<1>4. cursor' <= published'
  BY DEF LedgerStands
<1>5. QED
  BY <1>1, <1>2, <1>3, <1>4 DEF CursorsSound

\* Every step keeps the entries behind the cursors settled.
LEMMA CursorsStep ==
  ASSUME ValuesTyped, TasksSound, PageSound, CursorsSound, [Next]_vars
  PROVE  CursorsSound'
<1>1. StateStep /\ published' \in Nat /\ published <= published'
  BY StateSteps, PublishedGrows
<1>2. saved.cursor \in Nat /\ meta.cursor \in Nat /\ cursor \in Nat /\ published \in Nat
  BY PositionsAreNumbers DEF ValuesTyped, Metadata
<1>3. Behind(saved.cursor) /\ Behind(meta.cursor) /\ cursor <= published /\ (settled => Behind(cursor))
  BY DEF CursorsSound
<1>4. Behind(0) /\ 0 <= published
  BY <1>2, NothingIsBehind
<1>5. CASE UNCHANGED vars
  <2>1. CursorsStand
    BY <1>5 DEF vars, CursorsStand
  <2>2. QED
    BY <1>1, <2>1, StandingCursors
<1>6. CASE \/ StartRun \/ OpenExporter \/ OpenFails \/ LoadFails \/ LimitReached \/ InterruptRun
           \/ BeginFetch \/ FetchPage \/ CancelWait \/ FetchFails \/ StaleAgain
  <2>1. CursorsStand
    BY <1>6
       DEF StartRun, OpenExporter, OpenFails, LoadFails, LimitReached, InterruptRun, BeginFetch,
           FetchPage, CancelWait, FetchFails, StaleAgain, CursorsStand
  <2>2. QED
    BY <1>1, <2>1, StandingCursors
<1>7. ASSUME NEW i \in Positions, TaskStep(i) \/ TaskFault(i)
      PROVE  CursorsSound'
  <2>1. CursorsStand
    BY <1>7
       DEF TaskStep, StartRecord, JudgeIrrelevant, JudgeRelevant, ExportRecord, MarkRecord,
           MarkWritten, CommitFailure, TaskFault, JudgeFails, ExportFails, MarkFails,
           MarkWrittenBreaks, CommitBreaks, CursorsStand
  <2>2. QED
    BY <1>1, <2>1, StandingCursors
<1>8. CASE \/ GatherPage \/ CancelPage \/ FlushPage \/ CancelFlush \/ FlushFails \/ PageMarked
           \/ SettlePage \/ AbortStalled \/ FlushAtEnd \/ FlushAtEndFails \/ CloseExporter
           \/ Publish \/ RequestStop
  <2>1. CursorsStand
    BY <1>8
       DEF GatherPage, CancelPage, FlushPage, CancelFlush, FlushFails, PageMarked, SettlePage,
           AbortStalled, FlushAtEnd, FlushAtEndFails, CloseExporter, Publish, RequestStop,
           CursorsStand
  <2>2. QED
    BY <1>1, <2>1, StandingCursors
<1>9. CASE LoadState
  <2>1. LedgerStands /\ saved' = saved /\ meta' = saved /\ cursor' = saved.cursor
    BY <1>9 DEF LoadState, LedgerStands
  <2>2. saved.cursor <= published
    BY <1>3 DEF Behind
  <2>3. QED
    BY <1>2, <1>3, <2>1, <2>2, MovedCursors
<1>10. CASE FetchStale
  <2>1. LedgerStands /\ saved' = saved /\ cursor' = 0
    BY <1>10 DEF FetchStale, LedgerStands
  <2>2. meta'.cursor = 0
    BY <1>10 DEF FetchStale, ValuesTyped, Metadata
  <2>3. QED
    BY <1>2, <1>3, <1>4, <2>1, <2>2, MovedCursors
<1>11. CASE SaveRestart \/ SavePage \/ SaveBreaks
  <2>1. LedgerStands /\ saved' \in {saved, meta}
    BY <1>11 DEF SaveRestart, SavePage, SaveBreaks, LedgerStands
  <2>2. meta' = meta /\ cursor' = cursor /\ settled' = settled
    BY <1>11 DEF SaveRestart, SavePage, SaveBreaks
  <2>3. saved'.cursor \in Nat /\ Behind(saved'.cursor)
    BY <1>2, <1>3, <2>1
  <2>4. settled' => Behind(cursor)
    BY <1>3, <2>2
  <2>5. QED
    BY <1>2, <1>3, <2>1, <2>2, <2>3, <2>4, MovedCursors
<1>12. CASE TruncateListing
  <2>1. LedgerStands /\ saved' = saved /\ cursor' = cursor
    BY <1>12 DEF TruncateListing, LedgerStands
  <2>2. meta'.cursor = 0 /\ settled' = settled
    BY <1>12 DEF TruncateListing
  <2>3. settled' => Behind(cursor)
    BY <1>3, <2>2
  <2>4. QED
    BY <1>2, <1>3, <1>4, <2>1, <2>2, <2>3, MovedCursors
<1>13. page.entries \in Nat /\ (phase = "committing" => cursor + page.entries <= published)
  BY DEF ValuesTyped, Pages, PageSound, PagePhases
<1>14. CASE EndListing
  <2>1. LedgerStands /\ saved' = saved /\ cursor' = cursor /\ phase = "committing"
    BY <1>14 DEF EndListing, LedgerStands, Counted
  <2>2. settled' => settled /\ PageComplete
    BY <1>14 DEF EndListing
  <2>3. settled' => Behind(cursor) /\ Behind(EndCursor)
    BY <1>3, <1>4, <2>1, <2>2, PageDone DEF EndCursor
  <2>4. meta'.cursor \in Nat /\ Behind(meta'.cursor)
    <3>1. CASE settled'
      <4>1. meta'.cursor = EndCursor
        BY <1>14, <3>1 DEF EndListing
      <4>2. QED
        BY <1>2, <1>13, <2>3, <3>1, <4>1 DEF EndCursor
    <3>2. CASE ~settled'
      <4>1. meta'.cursor = meta.cursor
        BY <1>14, <3>2 DEF EndListing
      <4>2. QED
        BY <1>2, <1>3, <4>1
    <3>3. QED
      BY <3>1, <3>2
  <2>5. QED
    BY <1>2, <1>3, <2>1, <2>3, <2>4, MovedCursors
<1>15. CASE NextPage
  <2>1. LedgerStands /\ saved' = saved /\ cursor' = cursor + page.entries /\ phase = "committing"
    BY <1>15 DEF NextPage, LedgerStands, Counted
  <2>2. settled' => settled /\ PageComplete
    BY <1>15 DEF NextPage
  <2>3. settled' => Behind(cursor + page.entries)
    BY <1>3, <2>1, <2>2, PageDone
  <2>4. meta'.cursor \in Nat /\ Behind(meta'.cursor)
    <3>1. CASE settled'
      <4>1. meta'.cursor = cursor + page.entries
        BY <1>15, <3>1, <2>1 DEF NextPage, ValuesTyped, Metadata
      <4>2. QED
        BY <1>2, <1>13, <2>3, <3>1, <4>1
    <3>2. CASE ~settled'
      <4>1. meta'.cursor = meta.cursor
        BY <1>15, <3>2 DEF NextPage
      <4>2. QED
        BY <1>2, <1>3, <4>1
    <3>3. QED
      BY <3>1, <3>2
  <2>5. cursor + page.entries \in Nat /\ cursor + page.entries <= published
    BY <1>2, <1>13, <2>1
  <2>6. QED
    BY <1>2, <1>3, <2>1, <2>3, <2>4, <2>5, MovedCursors
<1>16. CASE FlushState \/ Crash
  <2>1. LedgerStands /\ saved' = saved /\ cursor' = 0 /\ meta'.cursor = 0
    BY <1>16 DEF FlushState, Crash, Forget, FreshListing, LedgerStands
  <2>2. QED
    BY <1>2, <1>3, <1>4, <2>1, MovedCursors
<1>17. QED
  BY <1>5, <1>6, <1>7, <1>8, <1>9, <1>10, <1>11, <1>12, <1>14, <1>15, <1>16
     DEF Next, RunStep, Disturbance

\* The run's copy of the processed ids and its quarantine.
LEMMA SkipsStep ==
  ASSUME ValuesTyped, SkipsSound, [Next]_vars
  PROVE  SkipsSound'
<1>1. StateStep /\ processed \subseteq processed'
      /\ \A r \in Records : Exhausted(r) => r \in processed' \/ Exhausted(r)'
  BY StateSteps, SettledStays
<1>2. ASSUME quarantined' = quarantined, known' \subseteq processed'
      PROVE  SkipsSound'
  <2>1. quarantined \subseteq Records
    BY DEF ValuesTyped
  <2>2. QED
    BY <1>1, <1>2, <2>1 DEF SkipsSound
<1>3. known \subseteq processed'
  BY <1>1 DEF SkipsSound
<1>4. CASE LoadState
  BY <1>4 DEF LoadState, SkipsSound, Exhausted
<1>5. CASE FlushState \/ Crash
  BY <1>5 DEF FlushState, Crash, Forget, SkipsSound
<1>6. ASSUME NEW i \in Positions, MarkRecord(i) \/ MarkWritten(i)
      PROVE  SkipsSound'
  BY <1>2, <1>3, <1>6 DEF MarkRecord, MarkWritten, Mark
<1>7. ASSUME NEW i \in Positions,
             \/ StartRecord(i) \/ JudgeIrrelevant(i) \/ JudgeRelevant(i) \/ JudgeFails(i)
             \/ ExportRecord(i) \/ ExportFails(i) \/ MarkFails(i) \/ MarkWrittenBreaks(i)
             \/ CommitFailure(i) \/ CommitBreaks(i)
      PROVE  SkipsSound'
  BY <1>2, <1>3, <1>7
     DEF StartRecord, JudgeIrrelevant, JudgeRelevant, JudgeFails, ExportRecord, ExportFails,
         MarkFails, MarkWrittenBreaks, CommitFailure, CommitBreaks
<1>8. CASE UNCHANGED vars
  BY <1>2, <1>3, <1>8 DEF vars
<1>9. CASE \/ StartRun \/ OpenExporter \/ OpenFails \/ LoadFails \/ LimitReached \/ InterruptRun
           \/ BeginFetch \/ FetchPage \/ CancelWait \/ FetchFails \/ FetchStale \/ StaleAgain
           \/ SaveRestart
  BY <1>2, <1>3, <1>9
     DEF StartRun, OpenExporter, OpenFails, LoadFails, LimitReached, InterruptRun, BeginFetch,
         FetchPage, CancelWait, FetchFails, FetchStale, StaleAgain, SaveRestart
<1>10. CASE \/ GatherPage \/ CancelPage \/ FlushPage \/ CancelFlush \/ FlushFails \/ PageMarked
            \/ SettlePage \/ AbortStalled \/ TruncateListing \/ EndListing \/ NextPage
            \/ SavePage \/ SaveBreaks
  BY <1>2, <1>3, <1>10
     DEF GatherPage, CancelPage, FlushPage, CancelFlush, FlushFails, PageMarked, SettlePage,
         AbortStalled, TruncateListing, EndListing, NextPage, SavePage, SaveBreaks
<1>11. CASE FlushAtEnd \/ FlushAtEndFails \/ CloseExporter \/ Publish \/ RequestStop
  BY <1>2, <1>3, <1>11 DEF FlushAtEnd, FlushAtEndFails, CloseExporter, Publish, RequestStop
<1>12. QED
  BY <1>4, <1>5, <1>6, <1>7, <1>8, <1>9, <1>10, <1>11
     DEF Next, RunStep, TaskStep, Disturbance, TaskFault

-----------------------------------------------------------------------------
(* The inductive invariant of what is saved, and what follows from it.     *)

\* The inductive invariant holds in the first state.
LEMMA SavedInit == Init => SavedInv
<1> SUFFICES ASSUME Init PROVE SavedInv
  OBVIOUS
<1>1. TypeOK
  BY TypeInit
<1>2. TasksSound /\ SkipsSound /\ MarkedIsDurable
  BY DEF Init, TasksSound, SkipsSound, MarkedIsDurable, NoTask
<1>3. CursorsSound
  BY <1>1, NothingIsBehind DEF Init, CursorsSound, TypeOK, Behind
<1>4. PageSound
  BY DEF Init, PageSound, PagePhases
<1>5. QED
  BY <1>1, <1>2, <1>3, <1>4 DEF SavedInv

\* Every step keeps the inductive invariant.
LEMMA SavedStep == SavedInv /\ [Next]_vars => SavedInv'
<1> SUFFICES ASSUME SavedInv, [Next]_vars PROVE SavedInv'
  OBVIOUS
<1>1. ValuesTyped /\ FlagsTyped
  BY DEF SavedInv, TypeOK
<1>2. TypeOK'
  BY <1>1, ValuesStep, FlagsStep DEF TypeOK
<1>3. MarkedIsDurable'
  BY DurableStep DEF SavedInv
<1>4. TasksSound'
  BY <1>1, TasksStep DEF SavedInv
<1>5. SkipsSound'
  BY <1>1, SkipsStep DEF SavedInv
<1>6. CursorsSound'
  BY <1>1, CursorsStep DEF SavedInv
<1>7. PageSound'
  BY <1>1, PageStep DEF SavedInv
<1>8. QED
  BY <1>2, <1>3, <1>4, <1>5, <1>6, <1>7 DEF SavedInv

\* The inductive invariant holds in every reachable state.
THEOREM SavedInvariant == Spec => []SavedInv
BY SavedInit, SavedStep, PTL DEF Spec

\* R20: in every reachable state a record marked processed is irrelevant or
\* its entities are in the exporter's durable store.
THEOREM MarkedDurable == Spec => []MarkedIsDurable
<1>1. SavedInv => MarkedIsDurable
  BY DEF SavedInv
<1>2. QED
  BY <1>1, SavedInvariant, PTL

\* R1: the saved cursor never skips an entry that needs another run.
THEOREM CursorSafe == Spec => []CursorBehindUnsettled
<1>1. SavedInv => CursorBehindUnsettled
  BY DEF SavedInv, CursorsSound, Behind, CursorBehindUnsettled
<1>2. QED
  BY <1>1, SavedInvariant, PTL

-----------------------------------------------------------------------------
(* The runs implement the ledger.                                          *)

GivenUp == {r \in Records : Exhausted(r)}

\* A record counted as failed once more is at most one more given up.
LEMMA CountingGivesUp ==
  ASSUME ValuesTyped, NEW i \in Positions, CountFailure(i),
         UNCHANGED <<processed, saved, sink>>
  PROVE  Ledger!GiveUp \/ UNCHANGED Ledger!ledgerVars
<1>1. Listing[i] \in Records /\ MaxAttempts \in Nat
  BY ListedAreRecords, NumberAssumption
<1>2. failures[Listing[i]] \in Nat /\ failures'[Listing[i]] = failures[Listing[i]] + 1
  BY <1>1 DEF ValuesTyped, CountFailure
<1>3. ASSUME NEW r \in Records, r # Listing[i] PROVE Exhausted(r)' <=> Exhausted(r)
  <2>1. failures'[r] = failures[r]
    BY <1>3 DEF ValuesTyped, CountFailure
  <2>2. QED
    BY <2>1 DEF Exhausted
<1>4. Exhausted(Listing[i]) => Exhausted(Listing[i])'
  <2>1. failures'[Listing[i]] >= failures[Listing[i]] /\ failures'[Listing[i]] \in Nat
    BY <1>2
  <2>2. QED
    BY <1>1, <1>2, <2>1 DEF Exhausted
<1>5. GivenUp' \in {GivenUp, GivenUp \union {Listing[i]}}
  BY <1>1, <1>3, <1>4 DEF GivenUp
<1>6. CASE GivenUp' = GivenUp
  BY <1>6 DEF GivenUp, Ledger!ledgerVars
<1>7. CASE GivenUp' = GivenUp \union {Listing[i]}
  BY <1>1, <1>7 DEF GivenUp, Ledger!GiveUp, Ledger!Records, Records, Positions
<1>8. QED
  BY <1>5, <1>6, <1>7

\* Whatever else a step does, it delivers and settles soundly as long as the
\* saved cursor stays.
LEMMA StepDelivers ==
  ASSUME TypeOK, TasksSound, sink \subseteq sink', UNCHANGED saved,
         \/ \E ids \in SUBSET {Listing[i] : i \in Marking} : Mark(ids)
         \/ UNCHANGED <<processed, failures>>
  PROVE  Ledger!DeliverAndSettle
<1>1. ASSUME NEW ids \in SUBSET {Listing[i] : i \in Marking}, Mark(ids)
      PROVE  Ledger!DeliverAndSettle
  <2>1. ids \subseteq Irrelevant \union sink
    BY DEF Marking, TasksSound
  <2>2. processed' = processed \union ids
    BY <1>1 DEF Mark
  <2>3. ASSUME NEW r \in Records
        PROVE  /\ r \in GivenUp' => r \in GivenUp
               /\ r \in GivenUp /\ r \notin ids => r \in GivenUp'
    <3>1. failures'[r] = IF r \in ids THEN 0 ELSE failures[r]
      BY <1>1 DEF Mark
    <3>2. QED
      BY <3>1, NumberAssumption DEF GivenUp, Exhausted
  <2>4. GivenUp' \subseteq GivenUp /\ GivenUp \ GivenUp' \subseteq ids
    <3>1. GivenUp' \subseteq Records /\ GivenUp \subseteq Records
      BY DEF GivenUp
    <3>2. QED
      BY <2>3, <3>1
  <2>5. QED
    BY <2>1, <2>2, <2>4 DEF GivenUp, Ledger!DeliverAndSettle
<1>2. CASE UNCHANGED <<processed, failures>>
  BY <1>2 DEF Exhausted, Ledger!DeliverAndSettle
<1>3. QED
  BY <1>1, <1>2

\* Saving the run's cursor moves the ledger's past settled entries only.
LEMMA SavingMoves ==
  ASSUME TypeOK, CursorsSound, saved' = meta, UNCHANGED <<processed, failures, sink>>
  PROVE  Ledger!MoveCursor
<1>1. meta.cursor \in Nat /\ meta.cursor <= Len(Listing)
  BY PositionsAreNumbers DEF TypeOK, ValuesTyped, Metadata, CursorsSound, Behind
<1>2. ASSUME NEW i \in 1..meta.cursor
      PROVE  Ledger!SettledEntry(i)
  <2>1. Listing[i] \in Records
    BY <1>1, PositionsAreNumbers, ListedAreRecords
  <2>2. SettledEntry(i)
    BY DEF CursorsSound, Behind
  <2>3. QED
    BY <2>1, <2>2 DEF SettledEntry, Ledger!SettledEntry
<1>3. GivenUp' = GivenUp
  BY DEF GivenUp, Exhausted
<1>4. QED
  BY <1>1, <1>2, <1>3, PositionsAreNumbers
     DEF GivenUp, Ledger!MoveCursor, Ledger!SettledEntry

\* Every step of the runs is a step of the ledger.
LEMMA StepKeepsLedger ==
  ASSUME SavedInv, [Next]_vars
  PROVE  [Ledger!LedgerNext]_(Ledger!ledgerVars)
<1>1. TypeOK /\ ValuesTyped /\ TasksSound /\ CursorsSound
  BY DEF SavedInv, TypeOK
<1>2. StateStep /\ sink \subseteq sink'
  BY StateSteps, SinkGrows
<1>3. CASE \E i \in Positions : CountFailure(i) /\ UNCHANGED <<processed, saved, sink>>
  BY <1>1, <1>3, CountingGivesUp DEF Ledger!LedgerNext
<1>4. CASE saved' = meta /\ UNCHANGED <<processed, failures, sink>>
  BY <1>1, <1>4, SavingMoves DEF Ledger!LedgerNext
<1>5. CASE \/ \E ids \in SUBSET {Listing[i] : i \in Marking} : Mark(ids) /\ UNCHANGED saved
           \/ UNCHANGED <<processed, failures, saved>>
  BY <1>1, <1>2, <1>5, StepDelivers DEF Ledger!LedgerNext
<1>6. QED
  BY <1>2, <1>3, <1>4, <1>5 DEF StateStep

\* At the start nothing is delivered, processed or given up.
LEMMA InitKeepsLedger == Init => Ledger!LedgerInit
<1> SUFFICES ASSUME Init PROVE Ledger!LedgerInit
  OBVIOUS
<1>1. \A r \in Records : ~Exhausted(r)
  BY NumberAssumption DEF Init, Exhausted
<1>2. QED
  BY <1>1 DEF Init, Ledger!LedgerInit

\* The detailed runs, with all their tasks, faults and crashes, implement the
\* at-least-once ledger.
THEOREM ImplementsLedger == Spec => KeepsLedger
<1>1. SavedInv /\ [Next]_vars => [Ledger!LedgerNext]_(Ledger!ledgerVars)
  BY StepKeepsLedger
<1>2. QED
  BY <1>1, InitKeepsLedger, SavedInvariant, PTL DEF Spec, KeepsLedger, Ledger!LedgerSpec

-----------------------------------------------------------------------------
(* Slots.                                                                  *)

\* Every set of positions is finite, so its size is a natural number.
LEMMA PositionSetsFinite ==
  ASSUME NEW S \in SUBSET Positions
  PROVE  IsFiniteSet(S) /\ Cardinality(S) \in Nat
<1>1. IsFiniteSet(1..Len(Listing))
  BY PositionsAreNumbers, FS_Interval
<1>2. IsFiniteSet(S)
  BY <1>1, PositionsAreNumbers, FS_Subset
<1>3. QED
  BY <1>2, FS_CardinalityType

\* A position added to a set of positions counts one more.
LEMMA OneMore ==
  ASSUME NEW S \in SUBSET Positions, NEW i \in Positions \ S
  PROVE  Cardinality(S \union {i}) = Cardinality(S) + 1
BY PositionSetsFinite, FS_AddElement

\* A position taken from a set of positions counts one less.
LEMMA OneLess ==
  ASSUME NEW S \in SUBSET Positions, NEW i \in S
  PROVE  Cardinality(S \ {i}) = Cardinality(S) - 1
BY PositionSetsFinite, FS_RemoveElement

Holding == {"exporting", "markingWritten", "written", "processed"}

\* A task that moves between two states that both hold a slot, or neither,
\* leaves the slots as they are.
LEMMA SlotKept ==
  ASSUME ValuesTyped, NEW i \in Positions, NEW state, Become(i, state),
         task[i] \in Holding <=> state \in Holding
  PROVE  Slots' = Slots
<1>1. \A j \in Positions : task'[j] = IF j = i THEN state ELSE task[j]
  BY DEF Become, ValuesTyped
<1>2. QED
  BY <1>1 DEF Slots, InStates, Holding

\* A task that moves to a state that holds a slot takes one.
LEMMA SlotTaken ==
  ASSUME ValuesTyped, NEW i \in Positions, NEW state, Become(i, state),
         task[i] \notin Holding, state \in Holding
  PROVE  Cardinality(Slots') = Cardinality(Slots) + 1
<1>1. \A j \in Positions : task'[j] = IF j = i THEN state ELSE task[j]
  BY DEF Become, ValuesTyped
<1>2. Slots' = Slots \union {i} /\ i \notin Slots /\ Slots \in SUBSET Positions
  BY <1>1 DEF Slots, InStates, Holding
<1>3. QED
  BY <1>2, OneMore

\* A task that leaves the states that hold a slot releases one.
LEMMA SlotReleased ==
  ASSUME ValuesTyped, NEW i \in Positions, NEW state, Become(i, state),
         task[i] \in Holding, state \notin Holding
  PROVE  Cardinality(Slots') = Cardinality(Slots) - 1
<1>1. \A j \in Positions : task'[j] = IF j = i THEN state ELSE task[j]
  BY DEF Become, ValuesTyped
<1>2. Slots' = Slots \ {i} /\ i \in Slots /\ Slots \in SUBSET Positions
  BY <1>1 DEF Slots, InStates, Holding
<1>3. QED
  BY <1>2, OneLess

\* The records that a page processed hold a slot each.
LEMMA ProcessedHeld == PageProcessed \in Nat /\ Cardinality(Slots) \in Nat
                       /\ PageProcessed <= Cardinality(Slots)
<1>1. In("processed") \subseteq Slots /\ Slots \subseteq Positions
  BY DEF In, Slots, InStates
<1>2. QED
  BY <1>1, PositionSetsFinite, FS_Subset DEF PageProcessed

SlotPhases == {"page", "flushing", "marking", "settling"}

\* A step that moves no task and either keeps the phase or goes on to one in
\* which the slots are held as before, or to one in which none are.
SlotsStand ==
  /\ total' = total
  /\ phase' \in SlotPhases => phase \in SlotPhases /\ UNCHANGED <<task, budget>>

LEMMA SlotsStanding ==
  ASSUME SlotsAddUp, SlotsStand
  PROVE  SlotsAddUp'
BY DEF SlotsAddUp, SlotsStand, SlotPhases, Slots, InStates

\* A step of one task that moves as many slots as it moves the budget.
SlotMoves ==
  /\ UNCHANGED <<phase, total>>
  /\ \/ Slots' = Slots /\ budget' = budget
     \/ Cardinality(Slots') = Cardinality(Slots) + 1 /\ budget' = budget - 1 /\ budget > 0
     \/ Cardinality(Slots') = Cardinality(Slots) - 1 /\ budget' = budget + 1

LEMMA SlotMoving ==
  ASSUME ValuesTyped, SlotsAddUp, SlotMoves
  PROVE  SlotsAddUp'
<1>1. budget \in Int /\ Cardinality(Slots) \in Nat /\ total \in Nat /\ TotalLimit \in Nat
  BY ProcessedHeld, NumberAssumption DEF ValuesTyped
<1>2. QED
  BY <1>1 DEF SlotsAddUp, SlotMoves

\* Every step keeps the sum of free and taken slots what the limit leaves.
LEMMA SlotsStep ==
  ASSUME ValuesTyped, SlotsAddUp, [Next]_vars
  PROVE  SlotsAddUp'
<1> USE DEF SlotsStand, SlotPhases
<1>1. CASE UNCHANGED vars
  BY <1>1, SlotsStanding DEF vars
<1>2. CASE StartRun \/ OpenExporter \/ OpenFails \/ LoadState \/ LoadFails \/ LimitReached
           \/ InterruptRun \/ BeginFetch \/ CancelWait \/ FetchFails \/ FetchStale
           \/ StaleAgain \/ SaveRestart
  BY <1>2, SlotsStanding
     DEF StartRun, OpenExporter, OpenFails, LoadState, LoadFails, LimitReached, InterruptRun,
         BeginFetch, CancelWait, FetchFails, FetchStale, StaleAgain, SaveRestart, Break
<1>3. CASE FetchPage
  <2>1. Slots' = {}
    BY <1>3 DEF FetchPage, Slots, InStates
  <2>2. Cardinality(Slots') = 0
    BY <2>1, FS_EmptySet
  <2>3. total' = total /\ budget' = TotalLimit - total
    BY <1>3 DEF FetchPage
  <2>4. QED
    BY <2>2, <2>3, NumberAssumption DEF SlotsAddUp, ValuesTyped
<1>4. ASSUME NEW i \in Positions, TaskStep(i) \/ TaskFault(i)
      PROVE  SlotsAddUp'
  <2> USE DEF SlotMoves, Holding
  <2>1. budget \in Int
    BY DEF ValuesTyped
  <2>2. CASE StartRecord(i)
    <3>1. task[i] = "queued" /\ UNCHANGED <<phase, total, budget>>
      BY <2>2 DEF StartRecord, First, In
    <3>2. PICK state \in {"deferred", "judging"} : Become(i, state)
      BY <2>2 DEF StartRecord
    <3>3. Slots' = Slots
      BY <3>1, <3>2, SlotKept
    <3>4. QED
      BY <3>1, <3>3, SlotMoving
  <2>3. CASE JudgeIrrelevant(i)
    <3>1. Slots' = Slots
      BY <2>3, SlotKept DEF JudgeIrrelevant
    <3>2. QED
      BY <2>3, <3>1, SlotMoving DEF JudgeIrrelevant
  <2>4. CASE JudgeRelevant(i) /\ budget <= 0
    <3>1. Slots' = Slots
      BY <2>4, SlotKept DEF JudgeRelevant
    <3>2. QED
      BY <2>4, <3>1, SlotMoving DEF JudgeRelevant
  <2>5. CASE JudgeRelevant(i) /\ ~(budget <= 0)
    <3>1. Cardinality(Slots') = Cardinality(Slots) + 1
      BY <2>5, SlotTaken DEF JudgeRelevant
    <3>2. QED
      BY <2>1, <2>5, <3>1, SlotMoving DEF JudgeRelevant
  <2>6. CASE JudgeFails(i)
    <3>1. Slots' = Slots
      BY <2>6, SlotKept DEF JudgeFails
    <3>2. QED
      BY <2>6, <3>1, SlotMoving DEF JudgeFails
  <2>7. CASE ExportRecord(i)
    <3>1. Slots' = Slots
      BY <2>7, SlotKept DEF ExportRecord
    <3>2. QED
      BY <2>7, <3>1, SlotMoving DEF ExportRecord
  <2>8. CASE ExportFails(i)
    <3>1. Cardinality(Slots') = Cardinality(Slots) - 1
      BY <2>8, SlotReleased DEF ExportFails
    <3>2. QED
      BY <2>8, <3>1, SlotMoving DEF ExportFails
  <2>9. CASE MarkRecord(i)
    <3>1. Slots' = Slots
      BY <2>9, SlotKept DEF MarkRecord
    <3>2. QED
      BY <2>9, <3>1, SlotMoving DEF MarkRecord
  <2>10. CASE MarkFails(i) /\ task[i] = "markingWritten"
    <3>1. Cardinality(Slots') = Cardinality(Slots) - 1
      BY <2>10, SlotReleased DEF MarkFails
    <3>2. QED
      BY <2>10, <3>1, SlotMoving DEF MarkFails
  <2>11. CASE MarkFails(i) /\ task[i] = "markingIrrelevant"
    <3>1. Slots' = Slots
      BY <2>11, SlotKept DEF MarkFails
    <3>2. QED
      BY <2>11, <3>1, SlotMoving DEF MarkFails
  <2>12. CASE MarkWritten(i)
    <3>1. task[i] = "written"
      BY <2>12 DEF MarkWritten, First, In
    <3>2. Slots' = Slots
      BY <2>12, <3>1, SlotKept DEF MarkWritten
    <3>3. QED
      BY <2>12, <3>2, SlotMoving DEF MarkWritten
  <2>13. CASE CommitFailure(i) \/ MarkWrittenBreaks(i) \/ CommitBreaks(i)
    BY <2>13, SlotsStanding DEF CommitFailure, MarkWrittenBreaks, CommitBreaks, Break
  <2>14. QED
    BY <1>4, <2>2, <2>3, <2>4, <2>5, <2>6, <2>7, <2>8, <2>9, <2>10, <2>11, <2>12, <2>13
       DEF TaskStep, TaskFault, MarkFails
<1>5. CASE SettlePage
  <2>1. total' = total + PageProcessed /\ phase = "settling" /\ phase' = "committing"
    BY <1>5 DEF SettlePage
  <2>2. total + PageProcessed <= TotalLimit
    BY <2>1, ProcessedHeld, NumberAssumption DEF SlotsAddUp, ValuesTyped
  <2>3. QED
    BY <2>1, <2>2 DEF SlotsAddUp
<1>6. CASE GatherPage \/ CancelPage \/ FlushPage \/ CancelFlush \/ FlushFails \/ PageMarked
           \/ AbortStalled \/ TruncateListing \/ EndListing \/ NextPage \/ SavePage \/ SaveBreaks
  BY <1>6, SlotsStanding
     DEF GatherPage, CancelPage, FlushPage, CancelFlush, FlushFails, PageMarked, AbortStalled,
         TruncateListing, EndListing, NextPage, SavePage, SaveBreaks, HoldFailures, Break
<1>7. CASE FlushState \/ Crash
  <2>1. total' = 0 /\ phase' = "idle"
    BY <1>7 DEF FlushState, Crash, Forget, FreshTally
  <2>2. QED
    BY <2>1, NumberAssumption DEF SlotsAddUp
<1>8. CASE FlushAtEnd \/ FlushAtEndFails \/ CloseExporter \/ Publish \/ RequestStop
  BY <1>8, SlotsStanding DEF FlushAtEnd, FlushAtEndFails, CloseExporter, Publish, RequestStop
<1>9. QED
  BY <1>1, <1>2, <1>3, <1>4, <1>5, <1>6, <1>7, <1>8 DEF Next, RunStep, Disturbance

-----------------------------------------------------------------------------
(* Failures, stalls.                                                       *)

\* A step that commits nothing new and takes no processed record back.
CommitsStand == /\ total' = total
                /\ commits' # NoCommits => commits # NoCommits

\* Failures to be committed are those of a run that has processed a record.
LEMMA CommitsStep ==
  ASSUME ValuesTyped, CommitsEarned, [Next]_vars
  PROVE  CommitsEarned'
<1>1. CommitsStand => CommitsEarned'
  BY DEF CommitsStand, CommitsEarned
<1> USE DEF CommitsStand
<1>2. CASE UNCHANGED vars
  BY <1>1, <1>2 DEF vars
<1>3. CASE StartRun \/ OpenExporter \/ OpenFails \/ LoadState \/ LoadFails \/ LimitReached
           \/ InterruptRun \/ BeginFetch \/ FetchPage \/ CancelWait \/ FetchFails
           \/ FetchStale \/ StaleAgain \/ SaveRestart
  BY <1>1, <1>3
     DEF StartRun, OpenExporter, OpenFails, LoadState, LoadFails, LimitReached, InterruptRun,
         BeginFetch, FetchPage, CancelWait, FetchFails, FetchStale, StaleAgain, SaveRestart
<1>4. ASSUME NEW i \in Positions, TaskStep(i) \/ TaskFault(i)
      PROVE  CommitsEarned'
  <2>1. CASE CommitFailure(i)
    <3>1. i \in commits.old \/ i \in commits.new
      BY <2>1 DEF CommitFailure, NextCommit, First
    <3>2. commits # NoCommits
      BY <3>1 DEF NoCommits
    <3>3. QED
      BY <1>1, <2>1, <3>2 DEF CommitFailure
  <2>2. CASE ~CommitFailure(i)
    BY <1>1, <1>4, <2>2
       DEF TaskStep, StartRecord, JudgeIrrelevant, JudgeRelevant, ExportRecord, MarkRecord,
           MarkWritten, TaskFault, JudgeFails, ExportFails, MarkFails, MarkWrittenBreaks,
           CommitBreaks
  <2>3. QED
    BY <2>1, <2>2
<1>5. CASE SettlePage
  BY <1>5, ProcessedIsNumber DEF SettlePage, CommitsEarned, ValuesTyped
<1>6. CASE GatherPage \/ CancelPage \/ FlushPage \/ CancelFlush \/ FlushFails \/ PageMarked
           \/ AbortStalled \/ TruncateListing \/ EndListing \/ NextPage \/ SavePage \/ SaveBreaks
  BY <1>1, <1>6
     DEF GatherPage, CancelPage, FlushPage, CancelFlush, FlushFails, PageMarked, AbortStalled,
         TruncateListing, EndListing, NextPage, SavePage, SaveBreaks, HoldFailures
<1>7. CASE FlushState \/ Crash
  BY <1>7 DEF FlushState, Crash, Forget, FreshTally, CommitsEarned
<1>8. CASE FlushAtEnd \/ FlushAtEndFails \/ CloseExporter \/ Publish \/ RequestStop
  BY <1>1, <1>8 DEF FlushAtEnd, FlushAtEndFails, CloseExporter, Publish, RequestStop
<1>9. QED
  BY <1>2, <1>3, <1>4, <1>5, <1>6, <1>7, <1>8 DEF Next, RunStep, Disturbance

\* A step that neither ends a listing nor completes a run.
StallsStand ==
  /\ phase' = "saving" => UNCHANGED <<phase, more, stalled>>
  /\ phase' = "closing" /\ outcome' = "completed" =>
       UNCHANGED <<phase, outcome, stalled, total>>

\* A listing is left behind, and a run completed, with no stalled page uncleared.
LEMMA StallsStep ==
  ASSUME ValuesTyped, StallsCleared, [Next]_vars
  PROVE  StallsCleared'
<1>1. StallsStand => StallsCleared'
  BY DEF StallsStand, StallsCleared, CompletedIsHealthy
<1> USE DEF StallsStand
<1>2. CASE UNCHANGED vars
  BY <1>1, <1>2 DEF vars
<1>3. CASE StartRun \/ OpenExporter \/ OpenFails \/ LoadState \/ LoadFails \/ InterruptRun
           \/ BeginFetch \/ FetchPage \/ CancelWait \/ FetchFails \/ FetchStale
           \/ StaleAgain \/ SaveRestart
  BY <1>1, <1>3
     DEF StartRun, OpenExporter, OpenFails, LoadState, LoadFails, InterruptRun,
         BeginFetch, FetchPage, CancelWait, FetchFails, FetchStale, StaleAgain, SaveRestart, Break
<1>4. CASE LimitReached
  BY <1>4 DEF LimitReached, Break, StallsCleared, CompletedIsHealthy
<1>5. ASSUME NEW i \in Positions, TaskStep(i) \/ TaskFault(i)
      PROVE  StallsCleared'
  BY <1>1, <1>5
     DEF TaskStep, StartRecord, JudgeIrrelevant, JudgeRelevant, ExportRecord, MarkRecord,
         MarkWritten, CommitFailure, TaskFault, JudgeFails, ExportFails, MarkFails,
         MarkWrittenBreaks, CommitBreaks, Break
<1>6. CASE TruncateListing \/ EndListing
  <2>1. ListingEnds /\ ~MustAbort
    BY <1>6 DEF TruncateListing, EndListing, ListingEnds
  <2>2. StalledNow \in Nat
    BY DEF StalledNow, ValuesTyped
  <2>3. StalledNow = 0
    BY <2>1, <2>2 DEF MustAbort
  <2>4. stalled' = 0 /\ phase' = "saving"
    BY <1>6, <2>3 DEF TruncateListing, EndListing, HoldFailures
  <2>5. QED
    BY <2>4 DEF StallsCleared, CompletedIsHealthy
<1>7. CASE NextPage
  BY <1>7 DEF NextPage, StallsCleared, CompletedIsHealthy
<1>8. CASE SavePage
  <2>1. CASE more
    BY <1>1, <1>8, <2>1 DEF SavePage
  <2>2. CASE ~more
    BY <1>8, <2>2 DEF SavePage, Break, StallsCleared, CompletedIsHealthy
  <2>3. QED
    BY <2>1, <2>2
<1>9. CASE GatherPage \/ CancelPage \/ FlushPage \/ CancelFlush \/ FlushFails \/ PageMarked
           \/ SettlePage \/ AbortStalled \/ SaveBreaks
  BY <1>1, <1>9
     DEF GatherPage, CancelPage, FlushPage, CancelFlush, FlushFails, PageMarked, SettlePage,
         AbortStalled, SaveBreaks, Break
<1>10. CASE FlushAtEnd \/ FlushAtEndFails \/ CloseExporter \/ FlushState \/ Crash \/ Publish
            \/ RequestStop
  BY <1>1, <1>10
     DEF FlushAtEnd, FlushAtEndFails, CloseExporter, FlushState, Crash, Forget, Publish, RequestStop
<1>11. QED
  BY <1>2, <1>3, <1>4, <1>5, <1>6, <1>7, <1>8, <1>9, <1>10 DEF Next, RunStep, Disturbance

-----------------------------------------------------------------------------
(* What the run knows.                                                     *)

\* A step that leaves a page's tasks, its entries and what the run knows alone.
FilterStands == phase' = "page" => UNCHANGED <<phase, cursor, page, known, task>>

LEMMA FilterStanding ==
  ASSUME TasksFiltered, FilterStands
  PROVE  TasksFiltered'
BY DEF TasksFiltered, FilterStands, ListedTwice, PageEntries

\* A step of the task of entry i, which makes at most that entry's id known.
FilterMoves(i) ==
  /\ phase = "page" /\ task[i] # "off"
  /\ UNCHANGED <<cursor, page>>
  /\ \A j \in Positions \ {i} : task'[j] = task[j]
  /\ known' \subseteq known \union {Listing[i]}
  /\ task'[i] \in {"queued", "judging"} => task[i] \in {"queued", "judging"} /\ known' = known

\* An id that one task makes known has a namesake at every other task of the
\* page that still has it.
LEMMA FilterMoving ==
  ASSUME TasksFiltered, NEW i \in Positions, FilterMoves(i)
  PROVE  TasksFiltered'
<1> SUFFICES ASSUME NEW j \in Positions
             PROVE  /\ task'[j] # "off" => j \in PageEntries'
                    /\ task'[j] \in {"queued", "judging"} =>
                         Listing[j] \notin known' \/ ListedTwice(j)'
  BY DEF TasksFiltered
<1>1. PageEntries' = PageEntries
  BY DEF FilterMoves, PageEntries
<1>2. ListedTwice(j)' <=> ListedTwice(j)
  BY <1>1 DEF ListedTwice
<1>3. i \in PageEntries
  BY DEF FilterMoves, TasksFiltered
<1>4. CASE j = i
  BY <1>1, <1>2, <1>3, <1>4 DEF FilterMoves, TasksFiltered
<1>5. CASE j # i /\ Listing[j] # Listing[i]
  BY <1>1, <1>2, <1>5 DEF FilterMoves, TasksFiltered
<1>6. CASE j # i /\ Listing[j] = Listing[i]
  <2>1. ListedTwice(j)
    BY <1>3, <1>6 DEF ListedTwice
  <2>2. QED
    BY <1>1, <1>2, <1>6, <2>1 DEF FilterMoves, TasksFiltered
<1>7. QED
  BY <1>4, <1>5, <1>6

\* Every step keeps the page's tasks filtered.
LEMMA FilterStep ==
  ASSUME ValuesTyped, TasksFiltered, [Next]_vars
  PROVE  TasksFiltered'
<1> USE DEF FilterStands
<1>1. CASE UNCHANGED vars
  BY <1>1, FilterStanding DEF vars
<1>2. CASE StartRun \/ OpenExporter \/ OpenFails \/ LoadState \/ LoadFails \/ LimitReached
           \/ InterruptRun \/ BeginFetch \/ CancelWait \/ FetchFails \/ FetchStale
           \/ StaleAgain \/ SaveRestart
  BY <1>2, FilterStanding
     DEF StartRun, OpenExporter, OpenFails, LoadState, LoadFails, LimitReached, InterruptRun,
         BeginFetch, CancelWait, FetchFails, FetchStale, StaleAgain, SaveRestart, Break
<1>3. CASE FetchPage
  <2>1. PageEntries' = (cursor + 1)..(cursor + page'.entries) /\ known' = known
    BY <1>3 DEF FetchPage, PageEntries
  <2>2. ASSUME NEW j \in Positions, task'[j] # "off"
        PROVE  j \in PageEntries' /\ Listing[j] \notin known'
    BY <1>3, <2>1, <2>2 DEF FetchPage, Unprocessed
  <2>3. QED
    BY <2>2 DEF TasksFiltered
<1>4. ASSUME NEW i \in Positions, TaskStep(i) \/ TaskFault(i)
      PROVE  TasksFiltered'
  <2>1. CASE CommitFailure(i) \/ MarkWritten(i) \/ MarkWrittenBreaks(i) \/ CommitBreaks(i)
    BY <2>1, FilterStanding
       DEF CommitFailure, MarkWritten, MarkWrittenBreaks, CommitBreaks, Break
  <2>2. CASE ~(CommitFailure(i) \/ MarkWritten(i) \/ MarkWrittenBreaks(i) \/ CommitBreaks(i))
    <3>1. task[i] # "off" /\ phase = "page" /\ UNCHANGED <<cursor, page>>
      BY <1>4, <2>2
         DEF TaskStep, StartRecord, JudgeIrrelevant, JudgeRelevant, ExportRecord, MarkRecord,
             TaskFault, JudgeFails, ExportFails, MarkFails, First, In
    <3>2. \E state \in TaskStates : Become(i, state)
      BY <1>4, <2>2
         DEF TaskStep, StartRecord, JudgeIrrelevant, JudgeRelevant, ExportRecord, MarkRecord,
             TaskFault, JudgeFails, ExportFails, MarkFails, TaskStates, InFlight, Ended
    <3>3. \A j \in Positions \ {i} : task'[j] = task[j]
      BY <3>2 DEF Become, ValuesTyped
    <3>4. known' \subseteq known \union {Listing[i]}
      BY <1>4, <2>2
         DEF TaskStep, StartRecord, JudgeIrrelevant, JudgeRelevant, ExportRecord, MarkRecord,
             TaskFault, JudgeFails, ExportFails, MarkFails
    <3>5. ASSUME task'[i] \in {"queued", "judging"}
          PROVE  task[i] \in {"queued", "judging"} /\ known' = known
      <4>1. \A state : Become(i, state) => task'[i] = state
        BY DEF Become, ValuesTyped
      <4>2. StartRecord(i)
        BY <1>4, <2>2, <3>5, <4>1
           DEF TaskStep, JudgeIrrelevant, JudgeRelevant, ExportRecord, MarkRecord,
               TaskFault, JudgeFails, ExportFails, MarkFails
      <4>3. QED
        BY <4>2 DEF StartRecord, First, In
    <3>6. QED
      BY <3>1, <3>3, <3>4, <3>5, FilterMoving DEF FilterMoves
  <2>3. QED
    BY <2>1, <2>2
<1>5. CASE GatherPage \/ CancelPage \/ FlushPage \/ CancelFlush \/ FlushFails \/ PageMarked
           \/ SettlePage \/ AbortStalled \/ TruncateListing \/ EndListing \/ NextPage
           \/ SavePage \/ SaveBreaks
  BY <1>5, FilterStanding
     DEF GatherPage, CancelPage, FlushPage, CancelFlush, FlushFails, PageMarked, SettlePage,
         AbortStalled, TruncateListing, EndListing, NextPage, SavePage, SaveBreaks, Break
<1>6. CASE FlushAtEnd \/ FlushAtEndFails \/ CloseExporter \/ FlushState \/ Crash \/ Publish
           \/ RequestStop
  BY <1>6, FilterStanding
     DEF FlushAtEnd, FlushAtEndFails, CloseExporter, FlushState, Crash, Forget, Publish, RequestStop
<1>7. QED
  BY <1>1, <1>2, <1>3, <1>4, <1>5, <1>6 DEF Next, RunStep, Disturbance

-----------------------------------------------------------------------------
(* The inductive invariant of a run's tallies, and what follows from it.   *)

LEMMA TallyInit == Init => TallyInv
<1> SUFFICES ASSUME Init PROVE TallyInv
  OBVIOUS
<1>1. TypeOK /\ TotalLimit \in Nat
  BY TypeInit, NumberAssumption
<1>2. QED
  BY <1>1 DEF Init, TallyInv, SlotsAddUp, CommitsEarned, StallsCleared, CompletedIsHealthy,
              TasksFiltered

\* Every step keeps each of its parts.
LEMMA TallyStep == TallyInv /\ [Next]_vars => TallyInv'
<1> SUFFICES ASSUME TallyInv, [Next]_vars PROVE TallyInv'
  OBVIOUS
<1>1. ValuesTyped /\ FlagsTyped
  BY DEF TallyInv, TypeOK
<1>2. TypeOK'
  BY <1>1, ValuesStep, FlagsStep DEF TypeOK
<1>3. SlotsAddUp'
  BY <1>1, SlotsStep DEF TallyInv
<1>4. CommitsEarned'
  BY <1>1, CommitsStep DEF TallyInv
<1>5. StallsCleared'
  BY <1>1, StallsStep DEF TallyInv
<1>6. TasksFiltered'
  BY <1>1, FilterStep DEF TallyInv
<1>7. QED
  BY <1>2, <1>3, <1>4, <1>5, <1>6 DEF TallyInv

\* The sums, stalls and filtered tasks of a run are as TallyInv says in every
\* reachable state.
THEOREM TallyInvariant == Spec => []TallyInv
BY TallyInit, TallyStep, PTL DEF Spec

\* R2: in every reachable state the records processed and those that hold a
\* slot are at most total_limit.
THEOREM LimitIsExact == Spec => []LimitExact
<1>1. TallyInv => LimitExact
  <2> SUFFICES ASSUME TallyInv PROVE LimitExact
    OBVIOUS
  <2>1. budget \in Int /\ total \in Nat /\ Cardinality(Slots) \in Nat /\ TotalLimit \in Nat
    BY ProcessedHeld, NumberAssumption DEF TallyInv, TypeOK, ValuesTyped
  <2>2. QED
    BY <2>1 DEF TallyInv, SlotsAddUp, LimitExact
<1>2. QED
  BY <1>1, TallyInvariant, PTL

\* R5, R6: a run reports completion only with no stalled page uncleared, or at
\* its limit.
THEOREM CompletedRunsAreHealthy == Spec => []CompletedIsHealthy
<1>1. TallyInv => CompletedIsHealthy
  BY DEF TallyInv, StallsCleared
<1>2. QED
  BY <1>1, TallyInvariant, PTL

\* A step that counts an attempt against a record is one of committing.
LEMMA CountingCommits ==
  ASSUME ValuesTyped, [Next]_vars, NEW r \in Records, failures'[r] > failures[r]
  PROVE  commits # NoCommits
<1>1. failures[r] \in Nat
  BY DEF ValuesTyped
<1>2. \A ids : ~Mark(ids)
  BY <1>1 DEF Mark
<1>3. failures' # failures
  BY <1>1
<1>4. \A i \in Positions : NextCommit(i) => commits # NoCommits
  BY DEF NextCommit, First, NoCommits
<1>5. PICK i \in Positions : TaskStep(i) \/ TaskFault(i)
  BY <1>2, <1>3
     DEF Next, RunStep, Disturbance, vars, StartRun, OpenExporter, OpenFails, LoadState,
         LoadFails, LimitReached, InterruptRun, BeginFetch, FetchPage, CancelWait, FetchFails,
         FetchStale, StaleAgain, SaveRestart, GatherPage, CancelPage, FlushPage, CancelFlush,
         FlushFails, PageMarked, SettlePage, AbortStalled, TruncateListing, EndListing,
         NextPage, SavePage, SaveBreaks, FlushAtEnd, FlushAtEndFails, CloseExporter,
         FlushState, Crash, Publish, RequestStop
<1>6. CommitFailure(i) \/ CommitBreaks(i)
  BY <1>2, <1>3, <1>5
     DEF TaskStep, StartRecord, JudgeIrrelevant, JudgeRelevant, ExportRecord, MarkRecord,
         MarkWritten, TaskFault, JudgeFails, ExportFails, MarkFails, MarkWrittenBreaks
<1>7. QED
  BY <1>4, <1>6 DEF CommitFailure, CommitBreaks

\* R18: no step of any run counts an attempt before the run processed a record.
THEOREM OutagesCountNothing == Spec => OutageCountsNothing
<1>1. TallyInv /\ [Next]_vars => [(\E r \in Records : failures'[r] > failures[r]) => total > 0]_vars
  BY CountingCommits DEF TallyInv, TypeOK, CommitsEarned
<1>2. QED
  BY <1>1, TallyInvariant, PTL DEF Spec, OutageCountsNothing

\* No step of any run exports a record that the run knows to be processed,
\* unless its page lists the id twice.
THEOREM KnownNeverReprocessed == Spec => NeverReprocessed
<1>1. ASSUME TallyInv, [Next]_vars, NEW i \in Positions,
             task[i] = "judging", task'[i] = "exporting"
      PROVE  Listing[i] \notin known \/ ListedTwice(i)
  <2>1. phase = "page"
    BY <1>1
       DEF Next, RunStep, Disturbance, TaskStep, TaskFault, vars, StartRun, OpenExporter,
           OpenFails, LoadState, LoadFails, LimitReached, InterruptRun, BeginFetch, FetchPage,
           CancelWait, FetchFails, FetchStale, StaleAgain, SaveRestart, GatherPage, CancelPage,
           FlushPage, CancelFlush, FlushFails, PageMarked, SettlePage, AbortStalled,
           TruncateListing, EndListing, NextPage, SavePage, SaveBreaks, FlushAtEnd,
           FlushAtEndFails, CloseExporter, FlushState, Crash, Publish, RequestStop, Forget,
           FreshPage, NoTask, StartRecord, JudgeIrrelevant, JudgeRelevant, ExportRecord,
           MarkRecord, MarkWritten, CommitFailure, JudgeFails, ExportFails, MarkFails,
           MarkWrittenBreaks, CommitBreaks, TallyInv, TypeOK, ValuesTyped, Become
  <2>2. QED
    BY <1>1, <2>1 DEF TallyInv, TasksFiltered
<1>2. TallyInv /\ [Next]_vars =>
        [\A i \in Positions :
           task[i] = "judging" /\ task'[i] = "exporting" =>
             Listing[i] \notin known \/ ListedTwice(i)]_vars
  BY <1>1
<1>3. QED
  BY <1>2, TallyInvariant, PTL DEF Spec, NeverReprocessed
=============================================================================
