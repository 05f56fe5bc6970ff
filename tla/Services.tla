------------------------------ MODULE Services ------------------------------
(***************************************************************************)
(* The services a pipeline calls and is called through: requests to the    *)
(* rate-limited upstream servers, the synchronous facade's bridge loop and *)
(* its shutdown signals, the model's answers and their cache, the sources' *)
(* listings, and the pure transformations of texts and tables.  part says  *)
(* which of them a behaviour is of; the next-state relation and fairness   *)
(* are theirs.                                                             *)
(***************************************************************************)
EXTENDS Integers

CONSTANTS
  Requests, KindOf, HostOf, Limits, BatchesOf, MaxRetries, MaxRetryAfter, RetryAfters, \* Upstream
  Threads, Main, HasDeadline, MaxNest, MaxLoops,                                       \* SyncBridge
  Callers, RoleOf, RecordOf, EmbedLenient, AskLenient, MaxCacheFaults,                 \* AnswerCache
  Listing, Unserved, PageSize, Cap, Starts, MaxExpiries, MaxFaults,                    \* Extractors
  MaxCancels,   \* of Upstream and of AnswerCache
  Inputs        \* of the transformations: records with a kind

VARIABLES
  part, input,
  at, free, waiters, attempt, batch, delay, result, wire, cancels,
  loop, life, sets, pc, runsOn, future, blocks, depth, handler, previous, target, event,
  mixed, escalated, heard,
  cache, references, lock, stage, answer, verdict, rejections, orphans, evidence, embeddings,
  source, counts, cursor, outcome, expiries, issued, documents, settled, from, found,
  faults

Upstream == INSTANCE Upstream
Bridge == INSTANCE SyncBridge
Cache == INSTANCE AnswerCache WITH MaxFaults <- MaxCacheFaults, pc <- stage
Sources == INSTANCE Extractors

ASSUME UpstreamAssumption == Upstream!Assumption
ASSUME BridgeAssumption == Bridge!Assumption
ASSUME CacheAssumption == Cache!Assumption
ASSUME SourcesAssumption == Sources!Assumption

-----------------------------------------------------------------------------
NoInput == [kind |-> "none"]

Transform == input = NoInput /\ input' \in Inputs

-----------------------------------------------------------------------------
upstreamVars == <<at, free, waiters, attempt, batch, delay, result, wire>>
cacheVars == <<cache, references, lock, stage, answer, verdict, rejections, orphans, evidence, embeddings>>
sourceVars == <<source, counts, cursor, outcome, expiries, issued, documents, settled, from, found>>
bridgeVars == <<loop, life, sets, pc, runsOn, future, blocks, depth, handler, previous, target,
                event, mixed, escalated, heard>>
vars == <<part, input, upstreamVars, bridgeVars, cacheVars, sourceVars, cancels, faults>>

Init ==
  /\ part \in {"upstream", "bridge", "answers", "sources", "pure"} /\ input = NoInput
  /\ Upstream!Init /\ Bridge!Init /\ Cache!Init /\ Sources!Init
  /\ part # "sources" => /\ source = "pubmed" /\ counts /\ cursor = Sources!NoCursor
                         /\ documents["document"] = "text"

InUpstream(A) ==
  part = "upstream" /\ A /\ UNCHANGED <<part, input, bridgeVars, cacheVars, sourceVars, faults>>
InBridge(A) ==
  part = "bridge" /\ A /\ UNCHANGED <<part, input, upstreamVars, cacheVars, sourceVars, cancels, faults>>
InAnswers(A) ==
  part = "answers" /\ A /\ UNCHANGED <<part, input, upstreamVars, bridgeVars, sourceVars>>
InSources(A) ==
  part = "sources" /\ A /\ UNCHANGED <<part, input, upstreamVars, bridgeVars, cacheVars, cancels>>

Next ==
  \/ InUpstream(Upstream!Next) \/ InBridge(Bridge!Next)
  \/ InAnswers(Cache!Next) \/ InSources(Sources!Next)
  \/ /\ part = "pure" /\ Transform
     /\ UNCHANGED <<part, upstreamVars, bridgeVars, cacheVars, sourceVars, cancels, faults>>

\* The event loop runs what is ready, the threads run, timers fire, and a server
\* or a model answers or fails in the end.
Fairness ==
  /\ \A r \in Requests : WF_upstreamVars(part = "upstream" /\ Upstream!Step(r))
  /\ \A t \in Threads : WF_bridgeVars(part = "bridge" /\ Bridge!Goes(t)) /\ WF_bridgeVars(part = "bridge" /\ Bridge!Completes(t))
  /\ \A l \in Bridge!Loops : /\ WF_bridgeVars(part = "bridge" /\ Bridge!RunsSet(l))
                            /\ WF_bridgeVars(part = "bridge" /\ Bridge!Stop(l))
                            /\ WF_bridgeVars(part = "bridge" /\ Bridge!Close(l))
  /\ \A c \in Callers : WF_cacheVars(part = "answers" /\ Cache!Step(c))
  /\ WF_sourceVars(part = "sources" /\ Sources!Pages) /\ WF_sourceVars(part = "sources" /\ Sources!Read)

Spec == Init /\ [][Next]_vars /\ Fairness

-----------------------------------------------------------------------------
\* Requests hold no more slots than there are, none is lost by a failure or a
\* cancellation, and a call gives up or succeeds only as its answers justify
\* (rate_limiter.py, _http.py, the clients).
RequestsJustified == part = "upstream" => Upstream!SlotsAccounted /\ Upstream!AttemptsJustified

\* The main thread hears signals in every guarded block, unless guards of two
\* threads overlapped or a signal escalated, and outside any the host's handler is
\* in force (signals.py).
GuardedHears == part = "bridge" => Bridge!GuardedHears

\* A cached answer its reader rejected is taken out, and no record is called
\* irrelevant without evidence (extraction_async.py, relevance_*.py).
VerdictsHold == part = "answers" => Cache!RejectedTakenOut /\ Cache!IrrelevantByEvidence

\* No page passes over a paper with an id; a listing that ended was walked whole, unless
\* PubMed stopped on blank ids, a truncated one as far as it is served, and an abstract
\* is what a record is read by only if nothing else can be (extractors/).
ListingsWalkedWhole == part = "sources" => Sources!WalkIsWhole /\ Sources!AbstractIsLastResort

\* Every request ends, every call of the synchronous facade returns and a signal
\* it took is set, every call about a model's answer ends, and so does every walk
\* through a listing, whatever failed, was cancelled or shut down on the way.
EveryCallEnds ==
  /\ \A r \in Requests : Upstream!CallEnds(r)
  /\ \A t \in Threads : Bridge!CallReturns(t)
  /\ Bridge!SignalSets
  /\ \A c \in Callers : Cache!CallEnds(c)
  /\ part = "sources" => Sources!WalkEnds
=============================================================================
