---------------------------- MODULE SqliteRunner ----------------------------
(***************************************************************************)
(* AsyncSqliteRunner: the one sqlite3 connection of a store, shared by the *)
(* tasks of an event loop.  A call of run() takes the runner's asyncio.Lock *)
(* and hands its operation to a worker thread; a cancelled call waits for  *)
(* that thread before it releases the lock.  aclose() takes the connection *)
(* away under the lock and closes it on a thread after releasing it.       *)
(*                                                                         *)
(* Loop code between two awaits is one action; a worker thread steps on    *)
(* its own.  The lock is FIFO, as asyncio.Lock is.                         *)
(***************************************************************************)
EXTENDS SharedConnection, Naturals, Sequences, SequencesExt

CONSTANT MaxCancels  \* how often the caller of one call may be cancelled

ASSUME CancelAssumption == MaxCancels \in Nat

VARIABLES
  pc,       \* pc[t]: where t's call is, in the event loop
  cancels,  \* cancels[t]: cancellations t's current call has received
  queue,    \* tasks waiting for the asyncio.Lock, first come first served
  holder    \* the task that holds the lock

vars == <<pc, cancels, queue, holder, thread, using, conn, closing, abandoned>>

Init ==
  /\ pc = [t \in Tasks |-> "idle"]
  /\ cancels = [t \in Tasks |-> 0]
  /\ queue = <<>>
  /\ holder = None
  /\ thread = [t \in Tasks |-> "none"]
  /\ using = [t \in Tasks |-> None]
  /\ conn = None
  /\ closing = [t \in Tasks |-> None]
  /\ abandoned = {}

-----------------------------------------------------------------------------
(* The event loop.                                                         *)

\* A task that has left no thread behind calls run() or aclose().
Call(t, first) ==
  /\ pc[t] = "idle" /\ thread[t] = "none" /\ closing[t] = None
  /\ pc' = [pc EXCEPT ![t] = first]
  /\ cancels' = [cancels EXCEPT ![t] = 0]
  /\ queue' = Append(queue, t)
  /\ UNCHANGED <<holder, thread, using, conn, closing, abandoned>>

CallRun(t) == Call(t, "waiting")
CallClose(t) == Call(t, "closeWaiting")

\* The lock is free and t is the first waiter.
MayAcquire(t) == holder = None /\ queue # <<>> /\ Head(queue) = t

\* run(): take the lock and submit the operation to the executor.
Acquire(t) ==
  /\ pc[t] = "waiting" /\ MayAcquire(t)
  /\ pc' = [pc EXCEPT ![t] = "awaiting"]
  /\ queue' = Tail(queue)
  /\ holder' = t
  /\ thread' = [thread EXCEPT ![t] = "queued"]
  /\ UNCHANGED <<cancels, using, conn, closing, abandoned>>

\* Mutant: a call that drained its thread forgets the lock.
FinishKeepingLock(t) ==
  /\ pc[t] \in {"awaiting", "draining"} /\ thread[t] = "finished"
  /\ pc' = [pc EXCEPT ![t] = "idle"]
  /\ holder' = IF pc[t] = "draining" THEN holder ELSE None
  /\ thread' = [thread EXCEPT ![t] = "none"]
  /\ UNCHANGED <<cancels, queue, using, conn, closing, abandoned>>

\* run() leaves once its thread is done: normally, or re-raising the
\* cancellation it drained.
Finish(t) ==
  /\ pc[t] \in {"awaiting", "draining"} /\ thread[t] = "finished"
  /\ pc' = [pc EXCEPT ![t] = "idle"]
  /\ holder' = None
  /\ thread' = [thread EXCEPT ![t] = "none"]
  /\ UNCHANGED <<cancels, queue, using, conn, closing, abandoned>>

\* Mutant: aclose() does not wait for the lock.
TakeWithoutLock(t) ==
  /\ pc[t] = "closeWaiting"
  /\ queue' = Remove(queue, t)
  /\ conn' = None
  /\ closing' = [closing EXCEPT ![t] = conn]
  /\ pc' = [pc EXCEPT ![t] = IF conn = None THEN "idle" ELSE "closing"]
  /\ UNCHANGED <<cancels, holder, thread, using, abandoned>>

\* Mutant: aclose() leaves the connection in place.
TakeAndKeep(t) ==
  /\ pc[t] = "closeWaiting" /\ MayAcquire(t)
  /\ queue' = Tail(queue)
  /\ closing' = [closing EXCEPT ![t] = conn]
  /\ pc' = [pc EXCEPT ![t] = IF conn = None THEN "idle" ELSE "closing"]
  /\ UNCHANGED <<cancels, holder, thread, using, conn, abandoned>>

\* aclose(): the critical section holds no await, so it is one step.
TakeConnection(t) ==
  /\ pc[t] = "closeWaiting" /\ MayAcquire(t)
  /\ queue' = Tail(queue)
  /\ conn' = None
  /\ closing' = [closing EXCEPT ![t] = conn]
  /\ pc' = [pc EXCEPT ![t] = IF conn = None THEN "idle" ELSE "closing"]
  /\ UNCHANGED <<cancels, holder, thread, using, abandoned>>

\* aclose() returns once its thread has closed the connection.
CloseReturns(t) ==
  /\ pc[t] = "closing" /\ closing[t] = None
  /\ pc' = [pc EXCEPT ![t] = "idle"]
  /\ UNCHANGED <<cancels, queue, holder, thread, using, conn, closing, abandoned>>

\* A cancellation of a call waiting for the lock, or closing: the call ends
\* and leaves any closing thread to itself.
CancelOutsideLock(t) ==
  /\ pc[t] \in {"waiting", "closeWaiting", "closing"} /\ cancels[t] < MaxCancels
  /\ pc' = [pc EXCEPT ![t] = "idle"]
  /\ cancels' = [cancels EXCEPT ![t] = @ + 1]
  /\ queue' = Remove(queue, t)
  /\ UNCHANGED <<holder, thread, using, conn, closing, abandoned>>

\* Mutant: the first cancellation already lets go of the thread.
CancelReleases(t) ==
  /\ pc[t] = "awaiting" /\ cancels[t] < MaxCancels
  /\ pc' = [pc EXCEPT ![t] = "idle"]
  /\ cancels' = [cancels EXCEPT ![t] = @ + 1]
  /\ holder' = None
  /\ UNCHANGED <<queue, thread, using, conn, closing, abandoned>>

\* The first cancellation of a call that has submitted its operation: shield
\* raises, and the call awaits the thread.
CancelAwait(t) ==
  /\ pc[t] = "awaiting" /\ cancels[t] < MaxCancels
  /\ pc' = [pc EXCEPT ![t] = "draining"]
  /\ cancels' = [cancels EXCEPT ![t] = @ + 1]
  /\ UNCHANGED <<queue, holder, thread, using, conn, closing, abandoned>>

\* A further cancellation lands in "await asyncio.wait({work})", which
\* nothing guards: the lock is released and the thread goes on.
CancelDrain(t) ==
  /\ pc[t] = "draining" /\ thread[t] # "finished" /\ cancels[t] < MaxCancels
  /\ pc' = [pc EXCEPT ![t] = "idle"]
  /\ cancels' = [cancels EXCEPT ![t] = @ + 1]
  /\ holder' = None
  /\ abandoned' = abandoned \union {t}
  /\ UNCHANGED <<queue, thread, using, conn, closing>>

-----------------------------------------------------------------------------
(* Worker threads.                                                         *)

\* _execute reads self._connection, and opens one when there is none.
ThreadStart(t) ==
  /\ thread[t] = "queued"
  /\ thread' = [thread EXCEPT ![t] = IF conn = None THEN "opening" ELSE "executing"]
  /\ using' = [using EXCEPT ![t] = conn]
  /\ UNCHANGED <<pc, cancels, queue, holder, conn, closing, abandoned>>

InUse == {conn} \union {using[t] : t \in Tasks} \union {closing[t] : t \in Tasks}

ThreadOpens(t) ==
  /\ thread[t] = "opening"
  /\ \E c \in Conns \ InUse :
       /\ conn' = c
       /\ using' = [using EXCEPT ![t] = c]
  /\ thread' = [thread EXCEPT ![t] = "executing"]
  /\ UNCHANGED <<pc, cancels, queue, holder, closing, abandoned>>

\* The operation returns or raises, or open_connection raised.  The result of
\* a thread whose call was abandoned is discarded at once.
ThreadEnds(t) ==
  /\ thread[t] \in {"opening", "executing"}
  /\ thread' = [thread EXCEPT ![t] = IF pc[t] = "idle" THEN "none" ELSE "finished"]
  /\ using' = [using EXCEPT ![t] = None]
  /\ UNCHANGED <<pc, cancels, queue, holder, conn, closing, abandoned>>

ThreadCloses(t) ==
  /\ closing[t] # None
  /\ closing' = [closing EXCEPT ![t] = None]
  /\ UNCHANGED <<pc, cancels, queue, holder, thread, using, conn, abandoned>>

-----------------------------------------------------------------------------
\* What the loop and the threads do of their own accord.
Progress(t) ==
  \/ Acquire(t)
  \/ Finish(t)
  \/ TakeConnection(t)
  \/ CloseReturns(t)
  \/ ThreadStart(t)
  \/ ThreadOpens(t)
  \/ ThreadEnds(t)
  \/ ThreadCloses(t)

\* What callers choose to do.
Caller(t) ==
  \/ CallRun(t)
  \/ CallClose(t)
  \/ CancelOutsideLock(t)
  \/ CancelAwait(t)
  \/ CancelDrain(t)

Next == \E t \in Tasks : Progress(t) \/ Caller(t)

Spec == Init /\ [][Next]_vars

\* The loop keeps running its ready callbacks and an operation that has
\* started ends; callers owe nothing.
FairSpec == Spec /\ \A t \in Tasks : WF_vars(Progress(t))

-----------------------------------------------------------------------------
\* Every call comes back, even when the calls before it were cancelled while
\* their thread was opening, working or failing: the lock is never lost.
EveryCallReturns ==
  \A t \in Tasks : pc[t] # "idle" ~> pc[t] = "idle"
=============================================================================
