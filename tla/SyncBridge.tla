----------------------------- MODULE SyncBridge -----------------------------
(***************************************************************************)
(* The synchronous facade: threads block in run_sync() while a shared loop *)
(* on a thread of its own runs their coroutines; ETLPipeline.run() does so *)
(* inside a guard of its ShutdownSignal, whose OS handler runs on the main *)
(* thread between two slices of the wait and sets the flag on the loop.    *)
(* shutdown_bridge() may stop the loop at any moment.  One signal is       *)
(* guarded; the handler the host application had for it interrupts the     *)
(* main thread.                                                            *)
(***************************************************************************)
EXTENDS Integers, Sequences, SequencesExt, FiniteSetsExt

CONSTANTS
  Threads, Main,  \* the callers, and the one OS signals are delivered to
  HasDeadline,    \* [Threads -> BOOLEAN]: run_sync() was given a finite timeout
  MaxNest,        \* [Threads -> Nat]: guards a thread nests
  MaxLoops        \* bounds the restarts of the loop

Assumption ==
  /\ Main \in Threads /\ HasDeadline \in [Threads -> BOOLEAN]
  /\ MaxNest \in [Threads -> Nat] /\ MaxLoops \in Nat

VARIABLES
  loop,      \* _BridgeLoop._loop: the number of the current loop, or 0
  life,      \* life[l]: unborn, running, stopping, stopped or closed
  sets,      \* the loops an event.set() is scheduled on
  pc,        \* pc[t]: free, installing, submitting, waiting or uninstalling
  runsOn,    \* runsOn[t]: the loop t's coroutine was submitted to
  future,    \* future[t]: none, pending, done or cancelled
  blocks,    \* blocks[t]: the guards t is in, each TRUE when it was outermost
  depth,     \* ShutdownSignal._depth
  handler,   \* the OS handler in force: host or ours
  previous,  \* _previous: the captured handler, or none
  target,    \* ShutdownSignal._loop, or 0
  event,     \* the flag
  \* history
  mixed,     \* a thread entered a guard while another was in one
  escalated, \* a second signal has given the handlers back
  heard      \* a signal was taken as the first one

signalVars == <<depth, handler, previous, target, event, mixed, escalated, heard>>
callVars == <<pc, runsOn, future, blocks>>
loopVars == <<loop, life, sets>>
bridgeVars == <<loopVars, callVars, signalVars>>

Loops == 1..MaxLoops
Goto(t, label) == pc' = [pc EXCEPT ![t] = label]
Idle(t) == Goto(t, "free") /\ runsOn' = [runsOn EXCEPT ![t] = 0]

Init ==
  /\ loop = 0 /\ life = [l \in Loops |-> "unborn"] /\ sets = {}
  /\ pc = [t \in Threads |-> "free"] /\ runsOn = [t \in Threads |-> 0]
  /\ future = [t \in Threads |-> "none"] /\ blocks = [t \in Threads |-> <<>>]
  /\ depth = 0 /\ handler = "host" /\ previous = "none" /\ target = 0
  /\ event = FALSE
  /\ mixed = FALSE /\ escalated = FALSE /\ heard = FALSE

-----------------------------------------------------------------------------
(* The bridge loop *)

\* loop(): the current loop, started if there is none.
Unborn == {l \in Loops : life[l] = "unborn"}
StartedLoop ==
  IF loop # 0 THEN UNCHANGED <<loop, life>>
  ELSE /\ Unborn # {} /\ loop' = Min(Unborn)
       /\ life' = [life EXCEPT ![loop'] = "running"]

RunsSet(l) ==
  /\ life[l] \in {"running", "stopping"} /\ l \in sets
  /\ sets' = sets \ {l} /\ event' = TRUE
  /\ UNCHANGED <<loop, life, callVars, depth, handler, previous, target, mixed, escalated, heard>>

Completes(t) ==
  /\ future[t] = "pending" /\ life[runsOn[t]] \in {"running", "stopping"}
  /\ future' = [future EXCEPT ![t] = "done"]
  /\ UNCHANGED <<loopVars, pc, runsOn, blocks, signalVars>>

\* shutdown(): the loop is let go of, then stopped, then closed.
Shutdown ==
  /\ loop # 0 /\ loop' = 0 /\ life' = [life EXCEPT ![loop] = "stopping"]
  /\ UNCHANGED <<sets, callVars, signalVars>>
Stop(l) ==
  /\ life[l] = "stopping" /\ life' = [life EXCEPT ![l] = "stopped"]
  /\ UNCHANGED <<loop, sets, callVars, signalVars>>
Close(l) ==
  /\ life[l] = "stopped" /\ life' = [life EXCEPT ![l] = "closed"]
  /\ UNCHANGED <<loop, sets, callVars, signalVars>>

-----------------------------------------------------------------------------
(* guard() *)

\* Mutant: every block installs and uninstalls.
IsOutermostAlways == TRUE

IsOutermost == depth = 0

Enter(t) ==
  /\ pc[t] = "free" /\ Len(blocks[t]) < MaxNest[t] /\ StartedLoop
  /\ blocks' = [blocks EXCEPT ![t] = Append(@, IsOutermost)] /\ depth' = depth + 1
  /\ IF IsOutermost THEN Goto(t, "installing") /\ runsOn' = [runsOn EXCEPT ![t] = loop']
     ELSE UNCHANGED <<pc, runsOn>>
  /\ mixed' = (mixed \/ \E u \in Threads \ {t} : blocks[u] # <<>> \/ pc[u] = "uninstalling")
  /\ UNCHANGED <<sets, future, handler, previous, target, event, escalated, heard>>

\* Handlers are installed from the main thread alone.
Install(t) ==
  /\ pc[t] = "installing" /\ Idle(t) /\ target' = runsOn[t]
  /\ IF t = Main
     THEN /\ previous' = IF previous = "none" THEN handler ELSE previous
          /\ handler' = "ours"
     ELSE UNCHANGED <<previous, handler>>
  /\ UNCHANGED <<loopVars, future, blocks, depth, event, mixed, escalated, heard>>

Leave(t) ==
  /\ pc[t] = "free" /\ blocks[t] # <<>>
  /\ blocks' = [blocks EXCEPT ![t] = Front(@)] /\ depth' = depth - 1
  /\ IF Last(blocks[t]) THEN Goto(t, "uninstalling") ELSE UNCHANGED pc
  /\ UNCHANGED <<loopVars, runsOn, future, handler, previous, target, event, mixed, escalated, heard>>

\* uninstall(): the captured handler is dropped, and put back if t may do so.
Uninstalled(t) ==
  /\ previous' = "none" /\ target' = 0
  /\ handler' = IF t = Main /\ previous # "none" THEN previous ELSE handler

Uninstall(t) ==
  /\ pc[t] = "uninstalling" /\ Goto(t, "free") /\ Uninstalled(t)
  /\ UNCHANGED <<loopVars, runsOn, future, blocks, depth, event, mixed, escalated, heard>>

-----------------------------------------------------------------------------
(* run_sync() *)

GetLoop(t) ==
  /\ pc[t] = "free" /\ future[t] = "none" /\ StartedLoop
  /\ runsOn' = [runsOn EXCEPT ![t] = loop']
  /\ Goto(t, "submitting") /\ UNCHANGED <<sets, future, blocks, signalVars>>

\* A closed loop refuses the coroutine.
Submit(t) ==
  /\ pc[t] = "submitting"
  /\ IF life[runsOn[t]] = "closed" THEN Idle(t) /\ UNCHANGED future
     ELSE Goto(t, "waiting") /\ UNCHANGED runsOn /\ future' = [future EXCEPT ![t] = "pending"]
  /\ UNCHANGED <<loopVars, blocks, signalVars>>

\* Mutant: only a loop that still runs is given up on.
DeadlineWhileRunning(t) ==
  /\ pc[t] = "waiting" /\ HasDeadline[t] /\ future[t] = "pending" /\ life[runsOn[t]] = "running"
  /\ Idle(t) /\ future' = [future EXCEPT ![t] = "none"]
  /\ UNCHANGED <<loopVars, blocks, signalVars>>

\* The wait is sliced, so its deadline is noticed whatever the loop does.
Deadline(t) ==
  /\ pc[t] = "waiting" /\ HasDeadline[t] /\ future[t] = "pending"
  /\ Idle(t) /\ future' = [future EXCEPT ![t] = "none"]
  /\ UNCHANGED <<loopVars, blocks, signalVars>>

Return(t) ==
  /\ pc[t] = "waiting" /\ future[t] = "done"
  /\ Idle(t) /\ future' = [future EXCEPT ![t] = "none"]
  /\ UNCHANGED <<loopVars, blocks, signalVars>>

-----------------------------------------------------------------------------
(* OS signals, between two steps of the main thread *)

\* The host's handler ends a wait of the main thread, which cancels its task.
Interrupted ==
  IF pc[Main] = "waiting"
  THEN Idle(Main) /\ future' = [future EXCEPT ![Main] = "none"]
  ELSE UNCHANGED <<pc, runsOn, future>>

Signal ==
  /\ IF handler = "host"
     THEN Interrupted /\ UNCHANGED <<sets, event, handler, previous, target, escalated, heard>>
     ELSE IF event
     THEN Interrupted /\ Uninstalled(Main) /\ escalated' = TRUE /\ UNCHANGED <<sets, event, heard>>
     ELSE /\ heard' = TRUE /\ UNCHANGED <<pc, runsOn, future, handler, previous, target, escalated>>
          /\ IF target = 0 \/ life[target] = "closed" THEN event' = TRUE /\ UNCHANGED sets
             ELSE sets' = sets \union {target} /\ UNCHANGED event
  /\ UNCHANGED <<loop, life, blocks, depth, mixed>>

Goes(t) == Install(t) \/ Uninstall(t) \/ Submit(t) \/ Deadline(t) \/ Return(t)

Next ==
  \/ \E t \in Threads : Enter(t) \/ Leave(t) \/ GetLoop(t) \/ Goes(t) \/ Completes(t)
  \/ \E l \in Loops : RunsSet(l) \/ Stop(l) \/ Close(l)
  \/ Shutdown \/ Signal

-----------------------------------------------------------------------------
(* Properties *)

\* "Guards nest" (signals.py:65), and "the exact handler in force beforehand is
\* put back on exit" (signals.py:29): unless guards of two threads overlap, the
\* main thread hears a signal in every block it is in, until a second one gave
\* the handlers back, and outside of them the host's handler is in force.
GuardedHears ==
  ~mixed /\ pc[Main] \notin {"installing", "uninstalling"} =>
    /\ blocks[Main] # <<>> /\ ~escalated => handler = "ours" /\ previous = "host"
    /\ (\A t \in Threads : blocks[t] = <<>> /\ pc[t] # "uninstalling") => handler = "host" /\ previous = "none"

\* A call of run_sync() ends, also when the loop is stopped beneath it, unless
\* it then waits without a deadline; a signal taken as the first one sets the
\* flag unless its loop is stopped first.
CallReturns(t) ==
  pc[t] = "waiting" ~> \/ pc[t] # "waiting"
                       \/ ~HasDeadline[t] /\ life[runsOn[t]] \in {"stopped", "closed"}
SignalSets == heard ~> event \/ \E l \in Loops : life[l] \in {"stopped", "closed"}
=============================================================================
