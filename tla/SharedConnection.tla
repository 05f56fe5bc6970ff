-------------------------- MODULE SharedConnection --------------------------
(***************************************************************************)
(* What a store may rely on when its tasks share one sqlite3 connection    *)
(* through AsyncSqliteRunner.  It speaks of the worker threads and of the  *)
(* connections they are given, and of no call, lock or cancellation.       *)
(***************************************************************************)
CONSTANTS
  Tasks,        \* the tasks that call the runner
  Conns,        \* identities of sqlite3 connections, reused once closed
  None          \* no connection, no lock holder

ASSUME NoneAssumption == None \notin Tasks \union Conns

VARIABLES
  thread,   \* thread[t]: the worker thread running t's operation
  using,    \* using[t]: the connection that thread passes to the operation
  conn,     \* self._connection
  closing,  \* closing[t]: a connection t's aclose has taken and not closed yet
  abandoned \* history: the tasks whose call ever left its thread behind

Working(t) == thread[t] \in {"opening", "executing"}

\* "A second task can never take the connection while the first is still
\* using it" (_sqlite_async.py:14-16): no two worker threads are inside
\* _execute at the same time, whatever is cancelled and closed meanwhile.
OneUser ==
  \A t, u \in Tasks : Working(t) /\ Working(u) => t = u

\* The same, as long as no call was cancelled a second time while it waited
\* for the thread of its first cancellation.
OneUserUnlessAbandoned == abandoned = {} => OneUser

\* Under the same condition a thread works on the runner's current connection:
\* aclose never closes a connection under an operation, and no operation is
\* left on a connection that another thread has replaced.
UsesCurrentConnection ==
  abandoned = {} => \A t \in Tasks : using[t] # None => using[t] = conn

\* Even then, a connection that aclose took is closed by exactly one thread and
\* is no longer the one new operations are given.
ClosedOnce ==
  \A t \in Tasks : closing[t] # None =>
     /\ closing[t] # conn
     /\ \A u \in Tasks : closing[u] = closing[t] => u = t
=============================================================================
