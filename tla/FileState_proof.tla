--------------------------- MODULE FileState_proof ---------------------------
(***************************************************************************)
(* What the file state manager keeps for every set of tasks, records and   *)
(* cursors, and every number of calls and faults: as long as no cancelled  *)
(* call left its thread at work, its files hold what the calls that        *)
(* returned have promised, and attempts are cleared last.                  *)
(***************************************************************************)
EXTENDS FileState, SequenceTheorems, TLAPS

USE DEF files, memory, bounds

\* A call that awaits a job has a kind, and only saving has a cursor.
LEMMA OpsAre ==
  ASSUME NEW c \in Ops
  PROVE  /\ c.op \in {"mark", "fail", "forget", "save", "load"}
         /\ c.op \in {"mark", "fail", "forget"} => c.id \in Records
         /\ c.op = "save" => c.cursor \in Cursors
BY DEF Ops

-----------------------------------------------------------------------------
(* What a call does to the ids, the attempts and the cursor.               *)

Promises == [ids: SUBSET Records, attempts: [Records -> Nat], cursor: Nat]

IdsAfter(c, i) == IF c.op = "mark" THEN i \union {c.id}
                  ELSE IF c.op = "forget" THEN i \ {c.id} ELSE i
AttemptsAfter(c, a) == IF c.op \in {"mark", "forget"} THEN [a EXCEPT ![c.id] = 0]
                       ELSE IF c.op = "fail" THEN [a EXCEPT ![c.id] = @ + 1] ELSE a
CursorAfter(c, n) == IF c.op = "save" THEN c.cursor ELSE n

\* Each of them keeps its type.
LEMMA AfterTyped ==
  ASSUME FileStateAssumption, NEW c \in Ops,
         NEW i \in SUBSET Records, NEW a \in [Records -> Nat], NEW n \in Nat
  PROVE  /\ IdsAfter(c, i) \in SUBSET Records
         /\ AttemptsAfter(c, a) \in [Records -> Nat]
         /\ CursorAfter(c, n) \in Nat
<1>1. IdsAfter(c, i) \in SUBSET Records
  BY OpsAre DEF IdsAfter
<1>2. AttemptsAfter(c, a) \in [Records -> Nat]
  <2>1. CASE c.op \in {"mark", "forget"}
    BY <2>1 DEF AttemptsAfter
  <2>2. CASE c.op = "fail"
    BY <2>2, OpsAre DEF AttemptsAfter
  <2>3. CASE c.op \notin {"mark", "forget", "fail"}
    BY <2>3 DEF AttemptsAfter
  <2>4. QED
    BY <2>1, <2>2, <2>3
<1>3. CursorAfter(c, n) \in Nat
  BY OpsAre DEF CursorAfter, FileStateAssumption
<1>4. QED
  BY <1>1, <1>2, <1>3

\* What a call promises is what it does.
LEMMA PromiseIs ==
  ASSUME NEW c \in Ops, NEW p \in Promises
  PROVE  Promise(c, p) = [ids |-> IdsAfter(c, p.ids), attempts |-> AttemptsAfter(c, p.attempts),
                          cursor |-> CursorAfter(c, p.cursor)]
<1> USE DEF Promise, Promises, IdsAfter, AttemptsAfter, CursorAfter
<1>1. CASE c.op = "mark"
  BY <1>1
<1>2. CASE c.op = "forget"
  BY <1>2
<1>3. CASE c.op = "fail"
  BY <1>3
<1>4. CASE c.op \in {"save", "load"}
  BY <1>4
<1>5. QED
  BY <1>1, <1>2, <1>3, <1>4, OpsAre

\* What a call writes to the metadata it has read is what it does to them.
LEMMA ChangedIs ==
  ASSUME NEW c \in Ops, c.op # "load", NEW m \in Metadata
  PROVE  Changed(c, m) = [attempts |-> AttemptsAfter(c, m.attempts),
                          cursor |-> CursorAfter(c, m.cursor)]
<1> USE DEF Changed, Metadata, AttemptsAfter, CursorAfter
<1>1. CASE c.op \in {"mark", "forget"}
  BY <1>1
<1>2. CASE c.op \in {"save", "fail"}
  BY <1>2
<1>3. QED
  BY <1>1, <1>2, OpsAre

\* The ids that have attempts are never None.
LEMMA FailingIsNotNone ==
  ASSUME FileStateAssumption, NEW m
  PROVE  Failing(m) # None
BY DEF FileStateAssumption, Failing

LEMMA SerialInit == FileStateAssumption /\ Init => SerialInv
<1> SUFFICES ASSUME FileStateAssumption, Init PROVE SerialInv
  OBVIOUS
<1>1. Typed
  BY DEF Init, Typed, Metadata, NoAttempts, Jobs
<1>2. QueueSound
  BY DEF Init, QueueSound
<1>3. Serialized /\ JobsInStep
  BY DEF Init, Serialized, JobsInStep, Jobs, FileStateAssumption
<1>4. AsPromised
  BY DEF Init, AsPromised, FileStateAssumption
<1>5. QED
  BY <1>1, <1>2, <1>3, <1>4 DEF SerialInv

-----------------------------------------------------------------------------
(* Steps of the event loop that leave the files alone.                     *)

SerialParts == Typed /\ QueueSound /\ Serialized /\ JobsInStep /\ AsPromised

\* The files and their promises stand when nobody's call gets further.
LEMMA PromiseStands ==
  ASSUME AsPromised, UNCHANGED <<files, promised, holder>>,
         \A t \in Tasks : holder = t =>
           /\ call'[t] = call[t]
           /\ IdsWritten(t)' = IdsWritten(t) /\ MetaWritten(t)' = MetaWritten(t)
  PROVE  AsPromised'
BY DEF AsPromised

\* Every task is idle, waiting, or awaits a job of its call.
LEMMA CallStep ==
  ASSUME FileStateAssumption, SerialParts, NEW t \in Tasks, Call(t)
  PROVE  SerialParts'
<1> USE DEF SerialParts, Call
<1>1. Typed'
  <2>1. PICK c \in Ops : call' = [call EXCEPT ![t] = c]
    OBVIOUS
  <2>2. call' \in [Tasks -> Ops \union {None}]
    BY <2>1 DEF Typed
  <2>3. QED
    BY <2>2 DEF Typed, Failing
<1>2. QueueSound'
  BY DEF QueueSound, Typed
<1>3. Serialized'
  BY DEF Serialized, Typed, Jobs
<1>4. JobsInStep'
  BY DEF JobsInStep, Typed
<1>5. AsPromised'
  BY PromiseStands DEF Serialized, Typed, Jobs, IdsWritten, MetaWritten
<1>6. QED
  BY <1>1, <1>2, <1>3, <1>4, <1>5

\* The task at the head of the queue takes the free lock and starts its first job.
LEMMA AcquireStep ==
  ASSUME FileStateAssumption, SerialParts, NEW t \in Tasks, Acquire(t)
  PROVE  SerialParts'
<1> USE DEF SerialParts, Acquire, Await
<1>1. pc[t] = "waiting" /\ call[t] \in Ops /\ job[t] = "none"
  BY DEF QueueSound, Serialized, Typed, FileStateAssumption, Jobs
<1>2. /\ FirstJob(call[t]) \in Jobs
      /\ call[t].op = "mark" => FirstJob(call[t]) = "append"
      /\ call[t].op = "forget" => FirstJob(call[t]) = "drop"
      /\ call[t].op = "load" => FirstJob(call[t]) = "load"
      /\ call[t].op \in {"fail", "save"} => FirstJob(call[t]) = "update"
  BY <1>1, OpsAre DEF FirstJob, Jobs
<1>3. Typed'
  BY <1>2 DEF Typed, Failing
<1>4. QueueSound'
  <2>1. \A k \in DOMAIN queue' : queue'[k] = queue[k + 1] /\ k + 1 \in DOMAIN queue /\ k + 1 # 1
    BY DEF Typed
  <2>2. \A k \in DOMAIN queue' : queue'[k] \in Tasks /\ queue'[k] # t
    BY <2>1 DEF Typed, QueueSound
  <2>3. QED
    BY <2>1, <2>2 DEF Typed, QueueSound
<1>5. Serialized'
  BY <1>1, <1>2 DEF Serialized, Typed, Jobs, FileStateAssumption
<1>6. JobsInStep'
  BY <1>1, <1>2, OpsAre DEF JobsInStep, Typed, Serialized, Jobs
<1>7. AsPromised'
  <2>1. holder = None
    OBVIOUS
  <2>2. ids = promised.ids /\ meta.attempts = promised.attempts /\ meta.cursor = promised.cursor
    BY <2>1 DEF AsPromised
  <2>3. ~MetaWritten(t)' /\ (IdsWritten(t)' => call[t].op \in {"load", "fail", "save"})
    BY <1>1, <1>2, OpsAre DEF MetaWritten, IdsWritten, Typed, Jobs
  <2>4. call[t].op \in {"load", "fail", "save"} => Promise(call[t], promised).ids = promised.ids
    <3>1. promised \in Promises
      BY DEF Typed, Promises
    <3>2. QED
      BY <1>1, <3>1, PromiseIs DEF IdsAfter
  <2>5. QED
    BY <2>2, <2>3, <2>4 DEF AsPromised, FileStateAssumption
<1>8. QED
  BY <1>3, <1>4, <1>5, <1>6, <1>7

\* The holder's job is done and its call starts the next one.
LEMMA ContinueStep ==
  ASSUME FileStateAssumption, SerialParts, NEW t \in Tasks, Continue(t)
  PROVE  SerialParts'
<1> USE DEF SerialParts, Continue, Await
<1>1. holder = t /\ call[t] \in Ops
  BY DEF Serialized, Jobs
<1>2. /\ NextJob(call[t], pc[t]) \in {"load", "update"}
      /\ pc[t] # "update" /\ call[t].op \in {"mark", "forget"}
  BY DEF NextJob
<1>3. Typed'
  BY <1>2 DEF Typed, Failing, Jobs
<1>4. QueueSound'
  BY <1>1 DEF QueueSound, Typed, Jobs
<1>5. Serialized'
  BY <1>1, <1>2 DEF Serialized, Typed, Jobs
<1>6. JobsInStep'
  BY <1>1, <1>2 DEF JobsInStep, Typed, Jobs
<1>7. AsPromised'
  BY <1>1, <1>2, PromiseStands DEF Typed, IdsWritten, MetaWritten, Jobs
<1>8. QED
  BY <1>3, <1>4, <1>5, <1>6, <1>7

\* A waiting call is cancelled and leaves the queue.
LEMMA CancelWaitingStep ==
  ASSUME FileStateAssumption, SerialParts, NEW t \in Tasks, CancelWaiting(t)
  PROVE  SerialParts'
<1> USE DEF SerialParts, CancelWaiting
<1>1. PICK k \in DOMAIN queue : queue[k] = t /\ queue' = RemoveAt(queue, k)
  OBVIOUS
<1> DEFINE n == Len(queue)
           after(l) == IF l < k THEN l ELSE l + 1
<1>2. n \in Nat /\ k \in 1..n /\ queue \in Seq(Tasks)
  BY DEF Typed
<1>3. /\ queue' \in Seq(Tasks) /\ Len(queue') = n - 1
      /\ \A l \in 1..(n - 1) : after(l) \in DOMAIN queue \ {k} /\ queue'[l] = queue[after(l)]
  <2> DEFINE front == SubSeq(queue, 1, k - 1)
             back == SubSeq(queue, k + 1, n)
  <2>1. front \in Seq(Tasks) /\ Len(front) = k - 1 /\ \A l \in 1..(k - 1) : front[l] = queue[l]
    BY <1>2
  <2>2. back \in Seq(Tasks) /\ Len(back) = n - k /\ \A l \in 1..(n - k) : back[l] = queue[l + k]
    BY <1>2
  <2>3. queue' = front \o back
    BY <1>1 DEF RemoveAt
  <2> HIDE DEF front, back
  <2>4. /\ queue' \in Seq(Tasks) /\ Len(queue') = Len(front) + Len(back)
        /\ \A l \in 1..(Len(front) + Len(back)) :
             queue'[l] = IF l <= Len(front) THEN front[l] ELSE back[l - Len(front)]
    BY <2>1, <2>2, <2>3, ConcatProperties
  <2>5. /\ Len(queue') = n - 1
        /\ \A l \in 1..(n - 1) : queue'[l] = IF l <= k - 1 THEN front[l] ELSE back[l - (k - 1)]
    <3>1. Len(front) + Len(back) = n - 1
      BY <1>2, <2>1, <2>2
    <3>2. QED
      BY <2>1, <2>4, <3>1
  <2>6. ASSUME NEW l \in 1..(n - 1)
        PROVE  after(l) \in DOMAIN queue \ {k} /\ queue'[l] = queue[after(l)]
    <3>1. CASE l < k
      BY <1>2, <2>1, <2>5, <3>1
    <3>2. CASE ~(l < k)
      <4>1. l - (k - 1) \in 1..(n - k)
        BY <1>2, <3>2
      <4>2. queue'[l] = back[l - (k - 1)]
        BY <1>2, <2>5, <3>2
      <4>3. back[l - (k - 1)] = queue[(l - (k - 1)) + k]
        BY <2>2, <4>1
      <4>4. QED
        BY <1>2, <3>2, <4>2, <4>3
    <3>3. QED
      BY <3>1, <3>2
  <2>7. QED
    BY <2>4, <2>5, <2>6
<1> HIDE DEF after
<1>4. Typed'
  BY <1>3 DEF Typed, Failing
<1>5. QueueSound'
  <2>1. DOMAIN queue' = 1..(n - 1)
    BY <1>2, <1>3
  <2>2. ASSUME NEW l \in DOMAIN queue'
        PROVE  queue'[l] # t /\ queue'[l] \in Tasks /\ pc[queue'[l]] = "waiting"
    <3>1. after(l) \in DOMAIN queue \ {k} /\ queue'[l] = queue[after(l)]
      BY <1>3, <2>1
    <3>2. queue[after(l)] # queue[k] /\ pc[queue[after(l)]] = "waiting"
      BY <3>1 DEF QueueSound
    <3>3. queue[after(l)] \in Tasks
      BY <1>2, <3>1
    <3>4. QED
      BY <1>1, <3>1, <3>2, <3>3
  <2>3. ASSUME NEW l \in DOMAIN queue', NEW m \in DOMAIN queue', queue'[l] = queue'[m]
        PROVE  l = m
    <3>1. after(l) = after(m)
      BY <1>3, <2>1, <2>3 DEF QueueSound
    <3>2. QED
      BY <1>2, <2>1, <3>1 DEF after
  <2>4. pc' = [pc EXCEPT ![t] = "idle"] /\ pc \in [Tasks -> {"idle", "waiting"} \union Jobs]
    BY DEF Typed
  <2>5. QED
    BY <2>2, <2>3, <2>4 DEF QueueSound
<1>6. Serialized'
  BY DEF Serialized, Typed, Jobs
<1>7. JobsInStep'
  BY DEF JobsInStep, Typed
<1>8. AsPromised'
  BY PromiseStands DEF Serialized, Typed, Jobs, IdsWritten, MetaWritten
<1>9. QED
  BY <1>4, <1>5, <1>6, <1>7, <1>8

-----------------------------------------------------------------------------
(* Steps that end a call.                                                  *)

\* The holder's call is over and the lock free.
LEMMA EndedCall ==
  ASSUME FileStateAssumption, SerialParts, NEW t \in Tasks, holder = t, EndCall(t),
         UNCHANGED <<files, failedIds, queue>>, read' = [u \in Tasks |-> read'[u]],
         promised' \in Promises, ids = promised'.ids,
         meta.attempts = promised'.attempts, meta.cursor = promised'.cursor
  PROVE  SerialParts'
<1> USE DEF SerialParts, EndCall
<1>1. Typed'
  BY DEF Typed, Failing, Promises
<1>2. QueueSound'
  BY DEF QueueSound, Typed, Serialized, Jobs
<1>3. Serialized'
  BY DEF Serialized, Typed, Jobs, FileStateAssumption
<1>4. JobsInStep'
  BY DEF JobsInStep, Typed, Serialized, Jobs
<1>5. AsPromised'
  BY DEF AsPromised, FileStateAssumption
<1>6. QED
  BY <1>1, <1>2, <1>3, <1>4, <1>5

\* A call that returns has done all that it promises: nothing is left to clear
\* when the record is known to have no attempts.
LEMMA ReturnStep ==
  ASSUME FileStateAssumption, SerialParts, NEW t \in Tasks, Return(t)
  PROVE  SerialParts'
<1> USE DEF SerialParts, Return
<1> DEFINE c == call[t]
<1>1. holder = t /\ c \in Ops /\ promised \in Promises /\ meta \in Metadata
  BY DEF Serialized, Typed, Promises, Jobs
<1>2. promised' = [ids |-> IdsAfter(c, promised.ids), attempts |-> AttemptsAfter(c, promised.attempts),
                   cursor |-> CursorAfter(c, promised.cursor)]
  BY <1>1, PromiseIs
<1>3. promised' \in Promises
  BY <1>1, <1>2, AfterTyped DEF Promises
<1>4. IdsWritten(t)
  BY DEF IdsWritten
<1>5. ids = promised'.ids
  BY <1>1, <1>4 DEF AsPromised
<1>6. meta.attempts = promised'.attempts /\ meta.cursor = promised'.cursor
  <2>1. CASE pc[t] = "update"
    BY <1>1, <2>1 DEF AsPromised, MetaWritten
  <2>2. CASE pc[t] # "update"
    <3>1. meta.attempts = promised.attempts /\ meta.cursor = promised.cursor
      BY <1>1, <2>2 DEF AsPromised, MetaWritten
    <3>2. CASE c.op \in {"mark", "forget"}
      <4>1. pc[t] \in {"append", "drop", "load"}
        BY <2>2 DEF Jobs
      <4>2. failedIds # None /\ c.id \notin failedIds
        BY <3>2, <4>1 DEF NextJob, JobsInStep
      <4>3. c.id \in Records /\ meta.attempts[c.id] = 0
        BY <1>1, <3>2, <4>2, OpsAre DEF Typed, Failing, Metadata
      <4>4. AttemptsAfter(c, meta.attempts) = meta.attempts
        BY <1>1, <3>2, <4>3 DEF AttemptsAfter, Metadata
      <4>5. QED
        BY <1>2, <3>1, <3>2, <4>4 DEF CursorAfter
    <3>3. CASE c.op = "load"
      BY <1>2, <3>1, <3>3 DEF AttemptsAfter, CursorAfter
    <3>4. QED
      BY <2>2, <3>2, <3>3 DEF JobsInStep, Jobs
  <2>3. QED
    BY <2>1, <2>2
<1>7. QED
  BY <1>1, <1>3, <1>5, <1>6, EndedCall DEF Typed

\* A call that is cancelled, or whose job raises, promises nothing new: what the
\* files hold is what the next call is measured by.
LEMMA BrokenCallStep ==
  ASSUME FileStateAssumption, SerialParts, ~abandoned, NEW t \in Tasks,
         CancelAwait(t) \/ JobFails(t)
  PROVE  SerialParts'
<1>1. holder = t
  BY DEF SerialParts, CancelAwait, JobFails, Serialized
<1>2. pc[t] \in Jobs
  BY <1>1 DEF SerialParts, Serialized
<1>3. EndCall(t) /\ UNCHANGED <<files, failedIds, queue>>
  BY <1>2 DEF CancelAwait, JobFails
<1>4. promised' = [ids |-> ids, attempts |-> meta.attempts, cursor |-> meta.cursor]
  BY <1>2 DEF CancelAwait, JobFails, Reconcile
<1>5. read' = [u \in Tasks |-> read'[u]]
  BY DEF CancelAwait, JobFails, SerialParts, Typed
<1>6. promised' \in Promises
  BY <1>4 DEF SerialParts, Typed, Metadata, Promises
<1>7. QED
  BY <1>1, <1>3, <1>4, <1>5, <1>6, EndedCall

\* A new process starts with the files as they are.
LEMMA CrashStep ==
  ASSUME FileStateAssumption, SerialParts, ~abandoned, Crash
  PROVE  SerialParts'
<1> USE DEF SerialParts, Crash
<1>1. promised' = [ids |-> ids, attempts |-> meta.attempts, cursor |-> meta.cursor]
  BY DEF Reconcile
<1>2. Typed'
  <2>1. promised' \in Promises
    BY <1>1 DEF Typed, Metadata, Promises
  <2>2. QED
    BY <2>1 DEF Typed, Promises, Jobs
<1>3. QueueSound'
  BY DEF QueueSound
<1>4. Serialized' /\ JobsInStep'
  BY DEF Serialized, JobsInStep, Jobs, FileStateAssumption
<1>5. AsPromised'
  BY <1>1 DEF AsPromised, FileStateAssumption
<1>6. QED
  BY <1>2, <1>3, <1>4, <1>5

-----------------------------------------------------------------------------
(* The worker threads.                                                     *)

\* The thread of the lock's holder gets on with its job, for the call that waits.
LEMMA HolderAtWork ==
  ASSUME SerialParts, NEW t \in Tasks, job[t] \notin {"none", "done"}
  PROVE  /\ holder = t /\ pc[t] \in Jobs /\ call[t] \in Ops
         /\ job[t] = "append" => pc[t] = "append" /\ call[t].op = "mark"
         /\ job[t] \in {"drop", "dropWrite"} => pc[t] = "drop" /\ call[t].op = "forget"
         /\ job[t] = "load" => pc[t] = "load" /\ call[t].op \in {"mark", "forget", "load"}
         /\ job[t] \in {"update", "updateWrite"} =>
              pc[t] = "update" /\ call[t].op \in {"mark", "forget", "fail", "save"}
<1>1. holder = t /\ pc[t] \in Jobs /\ call[t] \in Ops
  BY DEF SerialParts, Serialized, Jobs
<1>2. QED
  BY <1>1 DEF SerialParts, JobsInStep, Jobs

\* What is left of the invariant when the holder's thread has done a part of
\* its job: the lock, the queue and the calls stand as they are.
LEMMA ThreadParts ==
  ASSUME SerialParts, NEW t \in Tasks, holder = t, NEW state,
         job' = [job EXCEPT ![t] = state], state \in {"done", "dropWrite", "updateWrite"},
         UNCHANGED <<queue, holder, pc, call>>
  PROVE  /\ QueueSound' /\ Serialized'
         /\ job' \in [Tasks -> {"none", "done", "dropWrite", "updateWrite"} \union Jobs]
         /\ job'[t] = state
         /\ \A u \in Tasks \ {t} : job'[u] = job[u] /\ pc[u] \notin Jobs
<1>1. job \in [Tasks -> {"none", "done", "dropWrite", "updateWrite"} \union Jobs]
  BY DEF SerialParts, Typed
<1>2. \A u \in Tasks \ {t} : pc[u] \notin Jobs
  BY DEF SerialParts, Serialized
<1>3. QED
  BY <1>1, <1>2 DEF SerialParts, QueueSound, Serialized

\* The id is appended.
LEMMA AppendStep ==
  ASSUME FileStateAssumption, SerialParts, NEW t \in Tasks, AppendId(t)
  PROVE  SerialParts'
<1>1. /\ job[t] = "append" /\ holder = t /\ pc[t] = "append"
      /\ call[t] \in Ops /\ call[t].op = "mark" /\ pc[t] \in Jobs
  BY HolderAtWork DEF AppendId
<1>2. job' = [job EXCEPT ![t] = "done"] /\ UNCHANGED <<meta, failedIds, queue, holder, pc, read, call, promised>>
  BY <1>1 DEF AppendId, JobDone
<1>3. ids = promised.ids /\ meta.attempts = promised.attempts /\ meta.cursor = promised.cursor
  BY <1>1 DEF SerialParts, AsPromised, IdsWritten, MetaWritten
<1>4. promised \in Promises /\ ids' = IdsAfter(call[t], ids)
  BY <1>1 DEF SerialParts, Typed, Promises, AppendId, IdsAfter
<1>5. /\ QueueSound' /\ Serialized' /\ job'[t] = "done"
      /\ job' \in [Tasks -> {"none", "done", "dropWrite", "updateWrite"} \union Jobs]
      /\ \A u \in Tasks \ {t} : job'[u] = job[u] /\ pc[u] \notin Jobs
  BY <1>1, <1>2, ThreadParts
<1>6. Typed'
  BY <1>1, <1>2, <1>5, OpsAre DEF SerialParts, Typed, Failing, AppendId
<1>7. JobsInStep'
  BY <1>1, <1>2, <1>5 DEF JobsInStep, Jobs
<1>8. AsPromised'
  <2>1. ids' = Promise(call[t], promised).ids
    BY <1>1, <1>3, <1>4, PromiseIs
  <2>2. QED
    BY <1>1, <1>2, <1>3, <1>5, <2>1 DEF AsPromised, IdsWritten, MetaWritten, FileStateAssumption
<1>9. QED
  BY <1>5, <1>6, <1>7, <1>8 DEF SerialParts

\* The ids are read: either the id is gone already, or they are to be rewritten.
LEMMA ReadIdsStep ==
  ASSUME FileStateAssumption, SerialParts, NEW t \in Tasks, ReadIds(t)
  PROVE  SerialParts'
<1>1. /\ job[t] = "drop" /\ holder = t /\ pc[t] = "drop"
      /\ call[t] \in Ops /\ call[t].op = "forget" /\ pc[t] \in Jobs
  BY HolderAtWork DEF ReadIds
<1>2. UNCHANGED <<ids, meta, failedIds, queue, holder, pc, call, promised>>
  BY <1>1 DEF ReadIds, JobDone
<1>3. PICK state \in {"done", "dropWrite"} :
        /\ job' = [job EXCEPT ![t] = state]
        /\ state = "done" => call[t].id \notin ids /\ read' = read
        /\ state = "dropWrite" => read' = [read EXCEPT ![t] = ids]
  BY <1>1 DEF ReadIds, JobDone
<1>4. ids = promised.ids /\ meta.attempts = promised.attempts /\ meta.cursor = promised.cursor
  BY <1>1 DEF SerialParts, AsPromised, IdsWritten, MetaWritten
<1>5. /\ QueueSound' /\ Serialized' /\ job'[t] = state
      /\ job' \in [Tasks -> {"none", "done", "dropWrite", "updateWrite"} \union Jobs]
      /\ \A u \in Tasks \ {t} : job'[u] = job[u] /\ pc[u] \notin Jobs
  BY <1>1, <1>2, <1>3, ThreadParts
<1>6. Typed'
  BY <1>2, <1>3, <1>5 DEF SerialParts, Typed, Failing
<1>7. JobsInStep'
  <2>1. state = "dropWrite" => read'[t] = ids
    BY <1>3 DEF SerialParts, Typed
  <2>2. QED
    BY <1>1, <1>2, <1>3, <1>5, <2>1 DEF JobsInStep, Jobs
<1>8. AsPromised'
  <2>1. promised \in Promises
    BY DEF SerialParts, Typed, Promises
  <2>2. state = "done" => ids = Promise(call[t], promised).ids
    <3>1. Promise(call[t], promised).ids = IdsAfter(call[t], ids)
      BY <1>1, <1>4, <2>1, PromiseIs
    <3>2. state = "done" => IdsAfter(call[t], ids) = ids
      BY <1>1, <1>3 DEF IdsAfter
    <3>3. QED
      BY <3>1, <3>2
  <2>3. QED
    BY <1>1, <1>2, <1>3, <1>4, <1>5, <2>2
       DEF AsPromised, IdsWritten, MetaWritten, FileStateAssumption
<1>9. QED
  BY <1>5, <1>6, <1>7, <1>8 DEF SerialParts

\* The ids are rewritten as they were read, without the one to be forgotten.
LEMMA RewriteIdsStep ==
  ASSUME FileStateAssumption, SerialParts, NEW t \in Tasks, RewriteIds(t)
  PROVE  SerialParts'
<1>1. /\ job[t] = "dropWrite" /\ holder = t /\ pc[t] = "drop"
      /\ call[t] \in Ops /\ call[t].op = "forget" /\ pc[t] \in Jobs
  BY HolderAtWork DEF RewriteIds
<1>2. /\ job' = [job EXCEPT ![t] = "done"] /\ read' = [read EXCEPT ![t] = None]
      /\ UNCHANGED <<meta, failedIds, queue, holder, pc, call, promised>>
  BY <1>1 DEF RewriteIds, JobDone, Overtaken
<1>3. ids = promised.ids /\ meta.attempts = promised.attempts /\ meta.cursor = promised.cursor
  BY <1>1 DEF SerialParts, AsPromised, IdsWritten, MetaWritten
<1>4. ids' = ids \ {call[t].id} /\ promised \in Promises
  BY <1>1 DEF RewriteIds, SerialParts, JobsInStep, Typed, Promises
<1>5. /\ QueueSound' /\ Serialized' /\ job'[t] = "done"
      /\ job' \in [Tasks -> {"none", "done", "dropWrite", "updateWrite"} \union Jobs]
      /\ \A u \in Tasks \ {t} : job'[u] = job[u] /\ pc[u] \notin Jobs
  BY <1>1, <1>2, ThreadParts
<1>6. Typed'
  BY <1>2, <1>4, <1>5 DEF SerialParts, Typed, Failing
<1>7. JobsInStep'
  BY <1>1, <1>2, <1>5 DEF JobsInStep, Jobs
<1>8. AsPromised'
  <2>1. ids' = Promise(call[t], promised).ids
    BY <1>1, <1>3, <1>4, PromiseIs DEF IdsAfter
  <2>2. QED
    BY <1>1, <1>2, <1>3, <1>5, <2>1 DEF AsPromised, IdsWritten, MetaWritten, FileStateAssumption
<1>9. QED
  BY <1>5, <1>6, <1>7, <1>8 DEF SerialParts

\* The metadata are read for the ids that have attempts.
LEMMA LoadMetadataStep ==
  ASSUME FileStateAssumption, SerialParts, NEW t \in Tasks, LoadMetadata(t)
  PROVE  SerialParts'
<1>1. /\ job[t] = "load" /\ holder = t /\ pc[t] = "load" /\ pc[t] \in Jobs
      /\ call[t] \in Ops /\ call[t].op \in {"mark", "forget", "load"}
  BY HolderAtWork DEF LoadMetadata
<1>2. /\ job' = [job EXCEPT ![t] = "done"] /\ failedIds' = Failing(meta)
      /\ UNCHANGED <<files, queue, holder, pc, call, read, promised>>
  BY <1>1 DEF LoadMetadata, JobDone
<1>3. failedIds' # None
  BY <1>2, FailingIsNotNone
<1>4. /\ QueueSound' /\ Serialized' /\ job'[t] = "done"
      /\ job' \in [Tasks -> {"none", "done", "dropWrite", "updateWrite"} \union Jobs]
      /\ \A u \in Tasks \ {t} : job'[u] = job[u] /\ pc[u] \notin Jobs
  BY <1>1, <1>2, ThreadParts
<1>5. Typed'
  BY <1>2, <1>4 DEF SerialParts, Typed, Failing
<1>6. JobsInStep'
  BY <1>1, <1>2, <1>3, <1>4 DEF JobsInStep, Jobs
<1>7. AsPromised'
  BY <1>1, <1>2, <1>4, PromiseStands DEF SerialParts, IdsWritten, MetaWritten
<1>8. QED
  BY <1>4, <1>5, <1>6, <1>7 DEF SerialParts

\* The metadata are read to be changed.
LEMMA ReadMetadataStep ==
  ASSUME FileStateAssumption, SerialParts, NEW t \in Tasks, ReadMetadata(t)
  PROVE  SerialParts'
<1>1. /\ job[t] = "update" /\ holder = t /\ pc[t] = "update" /\ pc[t] \in Jobs
      /\ call[t] \in Ops /\ call[t].op \in {"mark", "forget", "fail", "save"}
  BY HolderAtWork DEF ReadMetadata
<1>2. /\ job' = [job EXCEPT ![t] = "updateWrite"] /\ failedIds' = Failing(meta)
      /\ read' = [read EXCEPT ![t] = meta]
      /\ UNCHANGED <<files, queue, holder, pc, call, promised>>
  BY DEF ReadMetadata
<1>3. /\ QueueSound' /\ Serialized' /\ job'[t] = "updateWrite"
      /\ job' \in [Tasks -> {"none", "done", "dropWrite", "updateWrite"} \union Jobs]
      /\ \A u \in Tasks \ {t} : job'[u] = job[u] /\ pc[u] \notin Jobs
  BY <1>1, <1>2, ThreadParts
<1>4. Typed'
  BY <1>2, <1>3 DEF SerialParts, Typed, Failing
<1>5. JobsInStep'
  <2>1. read'[t] = meta
    BY <1>2 DEF SerialParts, Typed
  <2>2. QED
    BY <1>1, <1>2, <1>3, <2>1 DEF JobsInStep, Jobs
<1>6. AsPromised'
  BY <1>1, <1>2, <1>3, PromiseStands DEF SerialParts, IdsWritten, MetaWritten
<1>7. QED
  BY <1>3, <1>4, <1>5, <1>6 DEF SerialParts

\* The changed metadata replace the file.
LEMMA ReplaceMetadataStep ==
  ASSUME FileStateAssumption, SerialParts, NEW t \in Tasks, ReplaceMetadata(t)
  PROVE  /\ SerialParts'
         /\ meta' = [attempts |-> AttemptsAfter(call[t], meta.attempts),
                     cursor |-> CursorAfter(call[t], meta.cursor)]
<1> DEFINE c == call[t]
<1>1. /\ job[t] = "updateWrite" /\ holder = t /\ pc[t] = "update" /\ pc[t] \in Jobs
      /\ c \in Ops /\ c.op \in {"mark", "forget", "fail", "save"}
  BY HolderAtWork DEF ReplaceMetadata
<1>2. /\ job' = [job EXCEPT ![t] = "done"] /\ read' = [read EXCEPT ![t] = None]
      /\ failedIds' = Failing(meta') /\ meta' = Changed(c, read[t])
      /\ UNCHANGED <<ids, queue, holder, pc, call, promised>>
  BY <1>1 DEF ReplaceMetadata, JobDone, Overtaken
<1>3. meta.attempts = promised.attempts /\ meta.cursor = promised.cursor
  BY <1>1 DEF SerialParts, AsPromised, MetaWritten
<1>4. read[t] = meta /\ meta \in Metadata /\ promised \in Promises
  BY <1>1 DEF SerialParts, JobsInStep, Typed, Promises
<1>5. meta' = [attempts |-> AttemptsAfter(c, meta.attempts), cursor |-> CursorAfter(c, meta.cursor)]
  BY <1>1, <1>2, <1>4, ChangedIs
<1>6. /\ QueueSound' /\ Serialized' /\ job'[t] = "done"
      /\ job' \in [Tasks -> {"none", "done", "dropWrite", "updateWrite"} \union Jobs]
      /\ \A u \in Tasks \ {t} : job'[u] = job[u] /\ pc[u] \notin Jobs
  BY <1>1, <1>2, ThreadParts
<1>7. meta' \in Metadata
  BY <1>1, <1>4, <1>5, AfterTyped DEF Metadata, Promises
<1>8. Typed'
  BY <1>2, <1>6, <1>7 DEF SerialParts, Typed
<1>9. JobsInStep'
  BY <1>1, <1>2, <1>6 DEF JobsInStep, Jobs
<1>10. AsPromised'
  <2>1. Promise(c, promised) = [ids |-> IdsAfter(c, promised.ids),
                                attempts |-> AttemptsAfter(c, promised.attempts),
                                cursor |-> CursorAfter(c, promised.cursor)]
    BY <1>1, <1>4, PromiseIs
  <2>2. meta'.attempts = Promise(c, promised).attempts /\ meta'.cursor = Promise(c, promised).cursor
    BY <1>3, <1>5, <2>1
  <2>3. ids = Promise(c, promised).ids
    BY <1>1 DEF SerialParts, AsPromised, IdsWritten
  <2>4. QED
    BY <1>1, <1>2, <1>6, <2>2, <2>3 DEF AsPromised, IdsWritten, MetaWritten, FileStateAssumption
<1>11. QED
  BY <1>5, <1>6, <1>8, <1>9, <1>10 DEF SerialParts

-----------------------------------------------------------------------------
(* The inductive invariant, and what follows from it.                      *)

LEMMA SerialStep == FileStateAssumption /\ SerialInv /\ [Next]_vars => SerialInv'
<1> SUFFICES ASSUME FileStateAssumption, SerialInv, [Next]_vars, ~abandoned'
             PROVE  SerialParts'
  BY DEF SerialInv, SerialParts
<1>1. CASE UNCHANGED vars
  BY <1>1
     DEF vars, SerialInv, SerialParts, Typed, Failing, QueueSound, Serialized, JobsInStep,
         AsPromised, IdsWritten, MetaWritten
<1>2. CASE Crash
  <2>1. ~abandoned
    BY <1>2 DEF Crash
  <2>2. QED
    BY <1>2, <2>1, CrashStep DEF SerialInv, SerialParts
<1>3. ASSUME NEW t \in Tasks, Caller(t)
      PROVE  SerialParts'
  <2>1. ~AbandonThread(t)
    BY DEF AbandonThread
  <2>2. ~abandoned /\ SerialParts
    BY <1>3, <2>1
       DEF SerialInv, SerialParts, Caller, Call, Acquire, Continue, Return, CancelWaiting, CancelAwait
  <2>3. QED
    BY <1>3, <2>1, <2>2, CallStep, AcquireStep, ContinueStep, ReturnStep, CancelWaitingStep,
       BrokenCallStep
       DEF Caller
<1>4. ASSUME NEW t \in Tasks, Thread(t)
      PROVE  SerialParts'
  <2>1. ~abandoned /\ SerialParts
    BY <1>4
       DEF SerialInv, SerialParts, Thread, AppendId, ReadIds, RewriteIds, LoadMetadata,
           ReadMetadata, ReplaceMetadata, JobFails
  <2>2. QED
    BY <1>4, <2>1, AppendStep, ReadIdsStep, RewriteIdsStep, LoadMetadataStep, ReadMetadataStep,
       ReplaceMetadataStep, BrokenCallStep
       DEF Thread
<1>5. QED
  BY <1>1, <1>2, <1>3, <1>4 DEF Next

\* The calls of the file state manager are serialized and the files hold what
\* they have promised, in every reachable state in which no cancelled call has
\* left its thread at work.
THEOREM SerialInvariant ==
  ASSUME FileStateAssumption
  PROVE  Spec => []SerialInv
<1>1. Init => SerialInv
  BY SerialInit
<1>2. SerialInv /\ [Next]_vars => SerialInv'
  BY SerialStep
<1>3. QED
  BY <1>1, <1>2, PTL DEF Spec

\* The inductive invariant says what the files hold whatever the call that has
\* the lock is at.
LEMMA SerialKeepsPromises == FileStateAssumption /\ SerialInv => KeptUnlessAbandoned
<1> SUFFICES ASSUME FileStateAssumption, SerialParts
             PROVE  /\ AcknowledgedKept
                    /\ meta.cursor = promised.cursor \/ Saving
                    /\ \A r \in ids : r \in promised.ids \/ At({"mark", "forget"}, r)
                    /\ \A r \in Records :
                         meta.attempts[r] = promised.attempts[r] \/ At({"mark", "fail", "forget"}, r)
  BY DEF SerialInv, SerialParts, KeptUnlessAbandoned
<1>1. promised \in Promises /\ meta \in Metadata /\ ids \subseteq Records
  BY DEF SerialParts, Typed, Promises
<1>2. CASE holder = None
  BY <1>1, <1>2 DEF SerialParts, AsPromised, AcknowledgedKept, Promises
<1>3. ASSUME NEW t \in Tasks, holder = t
      PROVE  /\ AcknowledgedKept
             /\ meta.cursor = promised.cursor \/ Saving
             /\ \A r \in ids : r \in promised.ids \/ At({"mark", "forget"}, r)
             /\ \A r \in Records :
                  meta.attempts[r] = promised.attempts[r] \/ At({"mark", "fail", "forget"}, r)
  <2> DEFINE c == call[t]
  <2>1. c \in Ops /\ job[t] # "none"
    BY <1>3 DEF SerialParts, Serialized, Jobs
  <2>2. /\ ids \in {promised.ids, IdsAfter(c, promised.ids)}
        /\ meta.attempts \in {promised.attempts, AttemptsAfter(c, promised.attempts)}
        /\ meta.cursor \in {promised.cursor, CursorAfter(c, promised.cursor)}
    BY <1>1, <1>3, <2>1, PromiseIs DEF SerialParts, AsPromised
  <2>3. \A ops, r : c.op \in ops /\ c.id = r => At(ops, r)
    BY <2>1 DEF At
  <2>4. \A r \in promised.ids : r \in ids \/ At({"forget"}, r)
    BY <2>2, <2>3 DEF IdsAfter
  <2>5. \A r \in ids : r \in promised.ids \/ At({"mark", "forget"}, r)
    BY <2>2, <2>3 DEF IdsAfter
  <2>6. ASSUME NEW r \in Records
        PROVE  /\ meta.attempts[r] >= promised.attempts[r] \/ At({"mark", "forget"}, r)
               /\ meta.attempts[r] = promised.attempts[r] \/ At({"mark", "fail", "forget"}, r)
    <3>1. promised.attempts \in [Records -> Nat]
      BY <1>1 DEF Promises
    <3>2. CASE c.op \in {"mark", "forget"} /\ c.id = r
      BY <2>3, <3>2
    <3>3. CASE c.op \in {"mark", "forget"} /\ c.id # r
      BY <2>2, <3>1, <3>3 DEF AttemptsAfter
    <3>4. CASE c.op = "fail" /\ c.id = r
      BY <2>2, <2>3, <3>1, <3>4 DEF AttemptsAfter
    <3>5. CASE c.op = "fail" /\ c.id # r
      BY <2>2, <3>1, <3>5 DEF AttemptsAfter
    <3>6. CASE c.op \notin {"mark", "forget", "fail"}
      BY <2>2, <3>1, <3>6 DEF AttemptsAfter
    <3>7. QED
      BY <3>2, <3>3, <3>4, <3>5, <3>6
  <2>7. meta.cursor = promised.cursor \/ Saving
    BY <2>1, <2>2 DEF CursorAfter, Saving
  <2>8. QED
    BY <2>4, <2>5, <2>6, <2>7 DEF AcknowledgedKept
<1>4. QED
  BY <1>2, <1>3 DEF SerialParts, Typed

\* Attempts are cleared by a call that has marked its record, or forgets it.
LEMMA SerialClearsLast ==
  ASSUME FileStateAssumption, SerialInv, [Next]_vars, ~abandoned,
         NEW r \in Records, meta'.attempts[r] < meta.attempts[r]
  PROVE  r \in ids \/ At({"forget"}, r)
<1>1. SerialParts
  BY DEF SerialInv, SerialParts
<1>2. meta \in Metadata /\ promised \in Promises
  BY <1>1 DEF SerialParts, Typed, Promises
<1>3. meta' # meta
  BY <1>2 DEF Metadata
<1>4. PICK t \in Tasks : ReplaceMetadata(t)
  BY <1>3
     DEF Next, vars, Crash, Caller, Call, Acquire, Continue, Return, CancelWaiting, CancelAwait,
         AbandonThread, Thread, AppendId, ReadIds, RewriteIds, LoadMetadata, ReadMetadata, JobFails
<1> DEFINE c == call[t]
<1>5. /\ job[t] = "updateWrite" /\ holder = t /\ pc[t] = "update" /\ c \in Ops
      /\ c.op \in {"mark", "forget", "fail", "save"}
  BY <1>1, <1>4, HolderAtWork DEF ReplaceMetadata
<1>6. AttemptsAfter(c, meta.attempts)[r] < meta.attempts[r] /\ meta.attempts \in [Records -> Nat]
  BY <1>1, <1>2, <1>4, ReplaceMetadataStep DEF Metadata
<1>7. c.op \in {"mark", "forget"} /\ c.id = r
  BY <1>5, <1>6, OpsAre DEF AttemptsAfter
<1>8. CASE c.op = "mark"
  <2>1. ids = Promise(c, promised).ids
    BY <1>1, <1>5 DEF SerialParts, AsPromised, IdsWritten
  <2>2. ids = promised.ids \union {c.id}
    BY <1>2, <1>5, <1>8, <2>1, PromiseIs DEF IdsAfter
  <2>3. QED
    BY <1>7, <2>2
<1>9. CASE c.op = "forget"
  BY <1>5, <1>7, <1>9 DEF At
<1>10. QED
  BY <1>7, <1>8, <1>9

\* As long as no cancelled call left its thread at work, the files hold what the
\* calls that returned have promised and no more: AcknowledgedKept among it.
THEOREM PromisesKept ==
  ASSUME FileStateAssumption
  PROVE  Spec => []KeptUnlessAbandoned
<1>1. SerialInv => KeptUnlessAbandoned
  BY SerialKeepsPromises
<1>2. QED
  BY <1>1, SerialInvariant, PTL

\* Attempts are cleared last, as long as no cancelled call left its thread at work.
THEOREM AttemptsClearedLast ==
  ASSUME FileStateAssumption
  PROVE  Spec => ClearedLast
<1>1. SerialInv /\ [Next]_vars =>
        [\A r \in Records :
           ~abandoned /\ meta'.attempts[r] < meta.attempts[r] => r \in ids \/ At({"forget"}, r)]_vars
  BY SerialClearsLast
<1>2. QED
  BY <1>1, SerialInvariant, PTL DEF Spec, ClearedLast
=============================================================================
