----------------------------- MODULE FileState -----------------------------
(***************************************************************************)
(* AsyncFileStateManager: processed ids, one per line, in a file that is   *)
(* appended to, and attempts and metadata in a file that is read, changed  *)
(* and replaced.  Calls of an event loop's tasks take an asyncio.Lock one  *)
(* after the other; their file work runs in worker threads, which go on    *)
(* when the call that waits for them is cancelled.                         *)
(*                                                                         *)
(* A read, an append and an atomic replacement of a file are one step      *)
(* each: they hold the file's lock or are one rename.                      *)
(***************************************************************************)
EXTENDS Integers, Sequences, SequencesExt

CONSTANTS
  Tasks,      \* the tasks of the event loop
  Records,    \* record ids
  Cursors,    \* the cursors that are saved, numbers
  None,       \* no holder, no call, nothing read
  MaxCalls,   \* bound: calls in a behaviour
  MaxFaults   \* bound: failed jobs, cancellations and crashes

FileStateAssumption ==
  /\ None \notin Tasks /\ (\A S \in SUBSET Records : S # None) /\ Cursors \subseteq Nat
  /\ MaxCalls \in Nat /\ MaxFaults \in Nat

VARIABLES
  ids,       \* the ids in the processed-ids file
  meta,      \* the metadata file: failed attempts and cursor
  failedIds, \* self._failed_ids: the ids with attempts; None if not read yet
  queue,     \* tasks waiting for the lock, first come first served
  holder,    \* the task that holds it
  pc,        \* pc[t]: idle, waiting for the lock, or the job t's call awaits
  call,      \* call[t]: what t called, as long as the call or its thread lasts
  job,       \* job[t]: what t's worker thread is about to do
  read,      \* read[t]: what that thread has read and will write back, changed
  calls,     \* calls so far
  faults,    \* faults so far
  promised,  \* history: the state the calls that returned have promised
  abandoned  \* history: a cancelled call ever left its thread running

files == <<ids, meta>>
memory == <<failedIds, queue, holder, pc, call, job, read>>
bounds == <<calls, faults>>
vars == <<files, memory, bounds, promised, abandoned>>

Ops == [op: {"mark", "fail", "forget"}, id: Records]
         \union [op: {"save"}, cursor: Cursors] \union [op: {"load"}]
Jobs == {"append", "drop", "load", "update"}

NoAttempts == [r \in Records |-> 0]

Init ==
  /\ ids = {}
  /\ meta = [attempts |-> NoAttempts, cursor |-> 0]
  /\ failedIds = None
  /\ queue = <<>> /\ holder = None
  /\ pc = [t \in Tasks |-> "idle"]
  /\ call = [t \in Tasks |-> None]
  /\ job = [t \in Tasks |-> "none"]
  /\ read = [t \in Tasks |-> None]
  /\ calls = 0 /\ faults = 0
  /\ promised = [ids |-> {}, attempts |-> NoAttempts, cursor |-> 0]
  /\ abandoned = FALSE

-----------------------------------------------------------------------------
(* What the calls do.                                                      *)

Smaller(m, n) == IF m < n THEN m ELSE n

Failing(m) == {r \in Records : m.attempts[r] > 0}

\* Mutant: the saved metadata replaces the file, attempts and all.
ChangedAlone(c, m) ==
  CASE c.op = "fail" -> [m EXCEPT !.attempts[c.id] = @ + 1]
    [] c.op = "save" -> [attempts |-> NoAttempts, cursor |-> c.cursor]
    [] OTHER -> [m EXCEPT !.attempts[c.id] = 0]

\* The change a call makes to the metadata it has read.
Changed(c, m) ==
  CASE c.op = "fail" -> [m EXCEPT !.attempts[c.id] = @ + 1]
    [] c.op = "save" -> [m EXCEPT !.cursor = c.cursor]
    [] OTHER -> [m EXCEPT !.attempts[c.id] = 0]

\* Mutant: attempts are cleared before the id is appended.
FirstJobClearing(c) ==
  CASE c.op = "mark" -> "update"
    [] c.op = "forget" -> "drop"
    [] c.op = "load" -> "load"
    [] OTHER -> "update"

\* The first job of a call.
FirstJob(c) ==
  CASE c.op = "mark" -> "append"
    [] c.op = "forget" -> "drop"
    [] c.op = "load" -> "load"
    [] OTHER -> "update"

\* The job after j, or "none" when the call returns: marking and forgetting
\* clear the record's attempts, if it is known to have any.
NextJob(c, j) ==
  CASE c.op \in {"mark", "forget"} /\ j \in {"append", "drop"} /\ failedIds = None -> "load"
    [] /\ c.op \in {"mark", "forget"} /\ j # "update"
       /\ failedIds # None /\ c.id \in failedIds -> "update"
    [] OTHER -> "none"

\* What a call that returns has promised.
Promise(c, p) ==
  CASE c.op = "mark" -> [p EXCEPT !.ids = @ \union {c.id}, !.attempts[c.id] = 0]
    [] c.op = "forget" -> [p EXCEPT !.ids = @ \ {c.id}, !.attempts[c.id] = 0]
    [] c.op = "fail" -> [p EXCEPT !.attempts[c.id] = @ + 1]
    [] c.op = "save" -> [p EXCEPT !.cursor = c.cursor]
    [] OTHER -> p

\* A cancelled call that takes effect after all: what it was to change is no
\* longer as promised.
Overtaken(t) ==
  promised' =
    IF pc[t] \in Jobs THEN promised
    ELSE CASE job[t] = "dropWrite" -> [promised EXCEPT !.ids = @ \ {call[t].id}]
           [] call[t].op \in {"save", "fail"} -> promised
           [] OTHER -> [promised EXCEPT !.attempts[call[t].id] = 0]

\* A call that did not return promises nothing: what the files still hold of
\* the earlier promises stands.
Release ==
  promised' = [ids |-> promised.ids \intersect ids,
               attempts |-> [r \in Records |-> Smaller(promised.attempts[r], meta.attempts[r])],
               cursor |-> promised.cursor]

\* The same when every change is in the files: they are what the next call is
\* measured by.
Reconcile ==
  IF abandoned
  THEN Release
  ELSE promised' = [ids |-> ids, attempts |-> meta.attempts, cursor |-> meta.cursor]

-----------------------------------------------------------------------------
(* The event loop.                                                         *)

Call(t) ==
  /\ pc[t] = "idle" /\ job[t] = "none" /\ calls < MaxCalls
  /\ calls' = calls + 1
  /\ call' \in {[call EXCEPT ![t] = c] : c \in Ops}
  /\ pc' = [pc EXCEPT ![t] = "waiting"]
  /\ queue' = Append(queue, t)
  /\ UNCHANGED <<files, failedIds, holder, job, read, faults, promised, abandoned>>

\* asyncio.to_thread
Await(t, j) ==
  /\ pc' = [pc EXCEPT ![t] = j]
  /\ job' = [job EXCEPT ![t] = j]

Acquire(t) ==
  /\ queue # <<>> /\ t = Head(queue) /\ holder = None
  /\ holder' = t
  /\ queue' = Tail(queue)
  /\ Await(t, FirstJob(call[t]))
  /\ UNCHANGED <<files, failedIds, call, read, bounds, promised, abandoned>>

\* The call has left the lock; its thread has nothing more to do.
EndCall(t) ==
  /\ holder' = None
  /\ pc' = [pc EXCEPT ![t] = "idle"]
  /\ job' = [job EXCEPT ![t] = "none"]
  /\ call' = [call EXCEPT ![t] = None]

\* The thread has done its job: the call starts the next one, or returns.
Continue(t) ==
  /\ pc[t] \in Jobs /\ job[t] = "done" /\ NextJob(call[t], pc[t]) # "none"
  /\ Await(t, NextJob(call[t], pc[t]))
  /\ UNCHANGED <<files, failedIds, queue, holder, call, read, bounds, promised, abandoned>>

Return(t) ==
  /\ pc[t] \in Jobs /\ job[t] = "done" /\ NextJob(call[t], pc[t]) = "none"
  /\ EndCall(t)
  /\ promised' = Promise(call[t], promised)
  /\ UNCHANGED <<files, failedIds, queue, read, bounds, abandoned>>

Fault == faults < MaxFaults /\ faults' = faults + 1

CancelWaiting(t) ==
  /\ pc[t] = "waiting" /\ Fault
  /\ \E k \in DOMAIN queue : queue[k] = t /\ queue' = RemoveAt(queue, k)
  /\ pc' = [pc EXCEPT ![t] = "idle"]
  /\ call' = [call EXCEPT ![t] = None]
  /\ UNCHANGED <<files, failedIds, holder, job, read, calls, promised, abandoned>>

\* The call is cancelled before its thread began, or after it was done.
CancelAwait(t) ==
  /\ pc[t] \in Jobs /\ job[t] \notin {"dropWrite", "updateWrite"} /\ Fault
  /\ EndCall(t)
  /\ Reconcile
  /\ UNCHANGED <<files, failedIds, queue, read, calls, abandoned>>

\* The call is cancelled and the lock released while its thread is at work.
AbandonThread(t) ==
  /\ pc[t] \in Jobs /\ job[t] # "done" /\ Fault
  /\ holder' = None
  /\ pc' = [pc EXCEPT ![t] = "idle"]
  /\ abandoned' = TRUE
  /\ Release
  /\ UNCHANGED <<files, failedIds, queue, call, job, read, calls>>

-----------------------------------------------------------------------------
(* The worker threads.                                                     *)

\* A thread whose call is gone has nobody to report to.
JobDone(t) ==
  IF pc[t] \in Jobs
  THEN job' = [job EXCEPT ![t] = "done"] /\ UNCHANGED call
  ELSE job' = [job EXCEPT ![t] = "none"] /\ call' = [call EXCEPT ![t] = None]

\* _append_id
AppendId(t) ==
  /\ job[t] = "append"
  /\ ids' = ids \union {call[t].id}
  /\ JobDone(t)
  /\ UNCHANGED <<meta, failedIds, queue, holder, pc, read, bounds, promised, abandoned>>

\* _drop_ids: the lines are read, and rewritten if one of them is to go.
ReadIds(t) ==
  /\ job[t] = "drop"
  /\ IF call[t].id \in ids
     THEN /\ job' = [job EXCEPT ![t] = "dropWrite"]
          /\ read' = [read EXCEPT ![t] = ids]
          /\ UNCHANGED call
     ELSE JobDone(t) /\ UNCHANGED read
  /\ UNCHANGED <<files, failedIds, queue, holder, pc, bounds, promised, abandoned>>

RewriteIds(t) ==
  /\ job[t] = "dropWrite"
  /\ ids' = read[t] \ {call[t].id}
  /\ read' = [read EXCEPT ![t] = None]
  /\ JobDone(t)
  /\ Overtaken(t)
  /\ UNCHANGED <<meta, failedIds, queue, holder, pc, bounds, abandoned>>

\* _read_metadata
LoadMetadata(t) ==
  /\ job[t] = "load"
  /\ failedIds' = Failing(meta)
  /\ JobDone(t)
  /\ UNCHANGED <<files, queue, holder, pc, read, bounds, promised, abandoned>>

\* _update_metadata: the file is read, and replaced.
ReadMetadata(t) ==
  /\ job[t] = "update"
  /\ read' = [read EXCEPT ![t] = meta]
  /\ failedIds' = Failing(meta)
  /\ job' = [job EXCEPT ![t] = "updateWrite"]
  /\ UNCHANGED <<files, queue, holder, pc, call, bounds, promised, abandoned>>

ReplaceMetadata(t) ==
  /\ job[t] = "updateWrite"
  /\ meta' = Changed(call[t], read[t])
  /\ failedIds' = Failing(meta')
  /\ read' = [read EXCEPT ![t] = None]
  /\ JobDone(t)
  /\ Overtaken(t)
  /\ UNCHANGED <<ids, queue, holder, pc, bounds, abandoned>>

\* The job raises: a file cannot be read, written or replaced.  A call that
\* still waits for it raises too and releases the lock.
JobFails(t) ==
  /\ job[t] \notin {"none", "done"} /\ Fault
  /\ read' = [read EXCEPT ![t] = None]
  /\ IF pc[t] \in Jobs
     THEN EndCall(t) /\ Reconcile
     ELSE JobDone(t) /\ UNCHANGED <<holder, pc, promised>>
  /\ UNCHANGED <<files, failedIds, queue, calls, abandoned>>

-----------------------------------------------------------------------------
\* The process dies; a new one starts with the files as they are.
Crash ==
  /\ calls > 0 /\ Fault
  /\ failedIds' = None
  /\ queue' = <<>> /\ holder' = None
  /\ pc' = [t \in Tasks |-> "idle"]
  /\ call' = [t \in Tasks |-> None]
  /\ job' = [t \in Tasks |-> "none"]
  /\ read' = [t \in Tasks |-> None]
  /\ Reconcile
  /\ UNCHANGED <<files, calls, abandoned>>

Thread(t) ==
  \/ AppendId(t) \/ ReadIds(t) \/ RewriteIds(t) \/ LoadMetadata(t)
  \/ ReadMetadata(t) \/ ReplaceMetadata(t) \/ JobFails(t)

Caller(t) ==
  \/ Call(t) \/ Acquire(t) \/ Continue(t) \/ Return(t)
  \/ CancelWaiting(t) \/ CancelAwait(t) \/ AbandonThread(t)

Next == Crash \/ \E t \in Tasks : Caller(t) \/ Thread(t)

Spec == Init /\ [][Next]_vars

-----------------------------------------------------------------------------
(* Properties.                                                             *)

\* A thread is at work on behalf of t's call of one of ops, about id.
At(ops, r) ==
  \E t \in Tasks : job[t] # "none" /\ call[t].op \in ops /\ call[t].id = r
Saving == \E t \in Tasks : job[t] # "none" /\ call[t].op = "save"

\* What a call that returned has written stays until a later call changes it
\* ("In-process callers are serialized by an asyncio.Lock",
\* async_file_state.py:63): no mark and no counted attempt is lost.
AcknowledgedKept ==
  /\ \A r \in promised.ids : r \in ids \/ At({"forget"}, r)
  /\ \A r \in Records :
       meta.attempts[r] >= promised.attempts[r] \/ At({"mark", "forget"}, r)

\* As long as no cancelled call left its thread at work, the files hold what
\* was promised and no more, through failed jobs, cancellations and crashes.
KeptUnlessAbandoned ==
  ~abandoned =>
    /\ AcknowledgedKept
    /\ meta.cursor = promised.cursor \/ Saving
    /\ \A r \in ids : r \in promised.ids \/ At({"mark", "forget"}, r)
    /\ \A r \in Records :
         meta.attempts[r] = promised.attempts[r] \/ At({"mark", "fail", "forget"}, r)

\* A record's attempts are cleared only when it is processed or on its way to
\* be forgotten: a crash or a failed write inside mark_processed leaves the
\* attempts of a record that is not marked yet, and quarantine works on (R18).
ClearedLast ==
  [][\A r \in Records :
       ~abandoned /\ meta'.attempts[r] < meta.attempts[r] => r \in ids \/ At({"forget"}, r)]_vars

-----------------------------------------------------------------------------
(* Why they hold, as long as no cancelled call left its thread at work:    *)
(* the parts of an inductive invariant.                                    *)

Metadata == [attempts: [Records -> Nat], cursor: Nat]

Typed ==
  /\ ids \subseteq Records
  /\ meta \in Metadata
  /\ failedIds \in {None, Failing(meta)}
  /\ queue \in Seq(Tasks)
  /\ holder \in Tasks \union {None}
  /\ pc \in [Tasks -> {"idle", "waiting"} \union Jobs]
  /\ call \in [Tasks -> Ops \union {None}]
  /\ job \in [Tasks -> {"none", "done", "dropWrite", "updateWrite"} \union Jobs]
  /\ read = [t \in Tasks |-> read[t]]
  /\ promised \in [ids: SUBSET Records, attempts: [Records -> Nat], cursor: Nat]

\* The queue holds waiting tasks, each once.
QueueSound ==
  /\ \A k \in DOMAIN queue : pc[queue[k]] = "waiting"
  /\ \A k, l \in DOMAIN queue : queue[k] = queue[l] => k = l

\* Only the lock's holder awaits a job, and only its thread is at work.
Serialized ==
  \A t \in Tasks :
    /\ (holder = t) <=> pc[t] \in Jobs
    /\ (holder = t) <=> job[t] # "none"
    /\ pc[t] # "idle" => call[t] \in Ops

\* Each call runs the jobs of its kind, and its thread writes what it has read
\* of a file nobody else has changed.
JobsInStep ==
  \A t \in Tasks :
    CASE pc[t] = "append" -> call[t].op = "mark" /\ job[t] \in {"append", "done"}
      [] pc[t] = "drop" ->
           /\ call[t].op = "forget" /\ job[t] \in {"drop", "dropWrite", "done"}
           /\ job[t] = "dropWrite" => read[t] = ids
      [] pc[t] = "load" ->
           /\ call[t].op \in {"mark", "forget", "load"} /\ job[t] \in {"load", "done"}
           /\ job[t] = "done" => failedIds # None
      [] pc[t] = "update" ->
           /\ call[t].op \in {"mark", "forget", "fail", "save"}
           /\ job[t] \in {"update", "updateWrite", "done"}
           /\ job[t] = "updateWrite" => read[t] = meta
      [] OTHER -> TRUE

\* The call that holds the lock has written the ids, or the metadata too.
IdsWritten(t) == pc[t] \in {"load", "update"} \/ job[t] = "done"
MetaWritten(t) == pc[t] = "update" /\ job[t] = "done"

\* The files hold what was promised, and what the holder's call is to promise as
\* far as it has written it.
AsPromised ==
  /\ holder = None =>
       ids = promised.ids /\ meta.attempts = promised.attempts /\ meta.cursor = promised.cursor
  /\ \A t \in Tasks : holder = t =>
       LET next == Promise(call[t], promised)
           now == IF MetaWritten(t) THEN next ELSE promised
       IN  /\ ids = IF IdsWritten(t) THEN next.ids ELSE promised.ids
           /\ meta.attempts = now.attempts /\ meta.cursor = now.cursor

SerialInv == ~abandoned => Typed /\ QueueSound /\ Serialized /\ JobsInStep /\ AsPromised
=============================================================================
