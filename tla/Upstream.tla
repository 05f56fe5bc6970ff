------------------------------ MODULE Upstream ------------------------------
(***************************************************************************)
(* Requests to services: the extractors' RetryingFetcher, the chat client  *)
(* and the embedder, which share host limiters.  Each attempt waits for a  *)
(* slot of its host's limiter, gives it back once the response is there,   *)
(* and a transient failure is tried again after a back-off.  A request may *)
(* be cancelled at any await.                                              *)
(***************************************************************************)
EXTENDS Integers, Sequences, SequencesExt, FiniteSets, FiniteSetsExt

CONSTANTS
  Requests,        \* calls of fetch(), complete_json() or embed()
  KindOf, HostOf,  \* [Requests -> {"fetch", "llm", "embed"}], the host as a sequence of labels
  Limits,          \* limited host -> slots; other hosts are not limited
  MaxRetries, MaxRetryAfter,
  BatchesOf,       \* how many batches an embed() call is split into; 1 for the others
  RetryAfters,     \* the waits a response may ask for, -1 for none
  MaxCancels

Assumption ==
  /\ IsFiniteSet(Requests) /\ KindOf \in [Requests -> {"fetch", "llm", "embed"}]
  /\ HostOf \in [Requests -> Seq(STRING)] /\ BatchesOf \in [Requests -> Nat \ {0}]
  /\ Limits \in [DOMAIN Limits -> Nat \ {0}] /\ <<>> \notin DOMAIN Limits
  /\ MaxRetries \in Nat \ {0} /\ MaxRetryAfter \in Nat /\ MaxCancels \in Nat
  /\ RetryAfters \subseteq Int

VARIABLES
  at,       \* at[r]: idle, queued, granted, sent, waiting or ended
  free,     \* slots of each limiter
  waiters,  \* the requests queued for each limiter
  attempt,  \* attempt[r]: attempts of the batch under way that have failed
  batch,    \* batch[r]: batches answered
  delay,    \* delay[r]: the wait before the next attempt
  result,   \* result[r]: what the call returned or raised
  wire,     \* history: what came back for each attempt of r
  cancels

upstreamVars == <<at, free, waiters, attempt, batch, delay, result, wire, cancels>>

-----------------------------------------------------------------------------
\* HostRateLimiter.for_url(): the most specific configured name, or <<>>.
ForUrl(host) ==
  LET suffixes == {SubSeq(host, start, Len(host)) : start \in 1..Len(host)} \intersect DOMAIN Limits
  IN IF suffixes = {} THEN <<>> ELSE CHOOSE s \in suffixes : \A t \in suffixes : Len(t) <= Len(s)

LimiterOf == [r \in Requests |-> ForUrl(HostOf[r])]
Limiter(r) == LimiterOf[r]

\* retry_delay(), with a back-off factor of 2.
RetryDelay(failed, retryAfter) ==
  Max({2 ^ failed, Min({retryAfter, MaxRetryAfter})})

\* What an attempt brings: a usable answer, a failure worth another attempt (a
\* transport fault, or a status among the retryable ones), or one that no
\* attempt can change, whose error depends on the caller.
Responses(kind) == {"answer", "transient"} \union
  (IF kind = "fetch" THEN {"rejected", "too_large"} ELSE IF kind = "llm" THEN {"malformed"} ELSE {"refused"})

Raised(response) ==
  CASE response \in {"rejected", "too_large"} -> "ExtractionError"
    [] response = "malformed" -> "LLMError"
    [] response = "refused" -> "EmbeddingError"
Exhausted(kind) ==
  CASE kind = "fetch" -> "UpstreamError" [] kind = "llm" -> "LLMError" [] OTHER -> "EmbeddingError"

Init ==
  /\ at = [r \in Requests |-> "idle"]
  /\ free = Limits /\ waiters = [host \in DOMAIN Limits |-> <<>>]
  /\ attempt = [r \in Requests |-> 0] /\ batch = [r \in Requests |-> 0]
  /\ delay = [r \in Requests |-> 0] /\ result = [r \in Requests |-> "none"]
  /\ wire = [r \in Requests |-> <<>>] /\ cancels = 0

-----------------------------------------------------------------------------
(* asyncio.Semaphore: release() hands the slot to the first waiter, which   *)
(* holds it before it runs again.                                           *)

TakeSlot(r) ==
  LET host == Limiter(r)
  IN IF host = <<>> THEN at' = [at EXCEPT ![r] = "granted"] /\ UNCHANGED <<free, waiters>>
     ELSE IF free[host] > 0 /\ waiters[host] = <<>>
     THEN /\ at' = [at EXCEPT ![r] = "granted"] /\ free' = [free EXCEPT ![host] = @ - 1]
          /\ UNCHANGED waiters
     ELSE /\ at' = [at EXCEPT ![r] = "queued"] /\ waiters' = [waiters EXCEPT ![host] = Append(@, r)]
          /\ UNCHANGED free

\* Mutant: the slot is kept while the request backs off.
ReleaseAtEnd(r, next) ==
  LET host == Limiter(r)
  IN IF host = <<>> \/ next = "waiting" THEN at' = [at EXCEPT ![r] = next] /\ UNCHANGED <<free, waiters>>
     ELSE IF waiters[host] = <<>>
     THEN /\ at' = [at EXCEPT ![r] = next] /\ free' = [free EXCEPT ![host] = @ + 1]
          /\ UNCHANGED waiters
     ELSE /\ at' = [at EXCEPT ![r] = next, ![Head(waiters[host])] = "granted"]
          /\ waiters' = [waiters EXCEPT ![host] = Tail(@)] /\ UNCHANGED free

\* The slot r has goes to the first waiter or becomes free; r goes on to next.
Release(r, next) ==
  LET host == Limiter(r)
  IN IF host = <<>> THEN at' = [at EXCEPT ![r] = next] /\ UNCHANGED <<free, waiters>>
     ELSE IF waiters[host] = <<>>
     THEN /\ at' = [at EXCEPT ![r] = next] /\ free' = [free EXCEPT ![host] = @ + 1]
          /\ UNCHANGED waiters
     ELSE /\ at' = [at EXCEPT ![r] = next, ![Head(waiters[host])] = "granted"]
          /\ waiters' = [waiters EXCEPT ![host] = Tail(@)] /\ UNCHANGED free

-----------------------------------------------------------------------------

Start(r) ==
  /\ at[r] = "idle" /\ TakeSlot(r)
  /\ UNCHANGED <<attempt, batch, delay, result, wire, cancels>>

Send(r) ==
  /\ at[r] = "granted" /\ at' = [at EXCEPT ![r] = "sent"]
  /\ UNCHANGED <<free, waiters, attempt, batch, delay, result, wire, cancels>>

Respond(r, response) ==
  /\ at[r] = "sent" /\ response \in Responses(KindOf[r])
  /\ wire' = [wire EXCEPT ![r] = Append(@, response)]

\* Mutant: the attempts of one batch are charged to the next.
AnsweredKeepingCount(r) ==
  /\ Respond(r, "answer") /\ batch' = [batch EXCEPT ![r] = @ + 1]
  /\ IF batch'[r] = BatchesOf[r]
     THEN Release(r, "ended") /\ result' = [result EXCEPT ![r] = "answer"]
     ELSE Release(r, "waiting") /\ UNCHANGED result
  /\ UNCHANGED <<attempt, delay, cancels>>

\* The answer to the last batch ends the call; another batch starts anew.
Answered(r) ==
  /\ Respond(r, "answer") /\ batch' = [batch EXCEPT ![r] = @ + 1]
  /\ IF batch'[r] = BatchesOf[r]
     THEN Release(r, "ended") /\ result' = [result EXCEPT ![r] = "answer"]
     ELSE Release(r, "waiting") /\ UNCHANGED result
  /\ attempt' = [attempt EXCEPT ![r] = 0] /\ delay' = [delay EXCEPT ![r] = 0]
  /\ UNCHANGED cancels

Refused(r, response) ==
  /\ response \notin {"answer", "transient"} /\ Respond(r, response) /\ Release(r, "ended")
  /\ result' = [result EXCEPT ![r] = Raised(response)]
  /\ UNCHANGED <<attempt, batch, delay, cancels>>

Failed(r, retryAfter) ==
  /\ Respond(r, "transient") /\ attempt' = [attempt EXCEPT ![r] = @ + 1]
  /\ IF attempt'[r] < MaxRetries
     THEN /\ Release(r, "waiting") /\ UNCHANGED result
          /\ delay' = [delay EXCEPT ![r] = RetryDelay(attempt[r], retryAfter)]
     ELSE /\ Release(r, "ended") /\ UNCHANGED delay
          /\ result' = [result EXCEPT ![r] = Exhausted(KindOf[r])]
  /\ UNCHANGED <<batch, cancels>>

\* The back-off is over, or there was none between two batches.
Retry(r) ==
  /\ at[r] = "waiting" /\ TakeSlot(r)
  /\ UNCHANGED <<attempt, batch, delay, result, wire, cancels>>

Cancelled(r) ==
  /\ cancels < MaxCancels /\ cancels' = cancels + 1
  /\ result' = [result EXCEPT ![r] = "CancelledError"]
  /\ UNCHANGED <<attempt, batch, delay, wire>>

\* A cancelled waiter leaves the queue; a slot it had been handed, or holds for
\* a request that is out, is given back.
CancelQueued(r) ==
  /\ at[r] = "queued" /\ Cancelled(r)
  /\ at' = [at EXCEPT ![r] = "ended"]
  /\ waiters' = [waiters EXCEPT ![Limiter(r)] = RemoveFirst(@, r)]
  /\ UNCHANGED free
CancelHolding(r) == at[r] \in {"granted", "sent"} /\ Cancelled(r) /\ Release(r, "ended")
CancelWaiting(r) ==
  /\ at[r] = "waiting" /\ Cancelled(r)
  /\ at' = [at EXCEPT ![r] = "ended"] /\ UNCHANGED <<free, waiters>>

Step(r) ==
  \/ Send(r) \/ Answered(r) \/ Retry(r)
  \/ \E response \in Responses(KindOf[r]) : Refused(r, response)
  \/ \E retryAfter \in RetryAfters : Failed(r, retryAfter)

Next == \E r \in Requests :
  Start(r) \/ Step(r) \/ CancelQueued(r) \/ CancelHolding(r) \/ CancelWaiting(r)

-----------------------------------------------------------------------------
(* Properties *)

Holders(host) == {r \in Requests : at[r] \in {"granted", "sent"} /\ Limiter(r) = host}

\* A limiter never lets more requests out than it has slots, no slot is lost to
\* a failure, a back-off or a cancellation, and none is free while a request
\* waits for it (rate_limiter.py SemaphoreRateLimiter).
SlotsAccounted ==
  \A host \in DOMAIN Limits :
    /\ free[host] >= 0 /\ free[host] + Cardinality(Holders(host)) = Limits[host]
    /\ waiters[host] # <<>> => free[host] = 0

\* "UpstreamError: Every attempt failed transiently" (_http.py:92): a call gives
\* up only after MaxRetries transient failures in a row, never tries again what
\* an attempt has settled, never repeats an answered batch, and a wait is no
\* shorter than the back-off and no longer than the server may ask for.
AttemptsJustified ==
  \A r \in Requests :
    LET transient(i) == wire[r][i] = "transient"
        answers == Cardinality({i \in DOMAIN wire[r] : wire[r][i] = "answer"})
        n == Len(wire[r])
    IN /\ result[r] = Exhausted(KindOf[r]) /\ (n = 0 \/ transient(n)) =>
            n >= MaxRetries /\ \A i \in (n - MaxRetries + 1)..n : transient(i)
       /\ \A i \in 1..(n - 1) : wire[r][i] \in {"answer", "transient"}
       /\ answers <= BatchesOf[r] /\ (result[r] = "answer" <=> answers = BatchesOf[r])
       /\ at[r] = "waiting" /\ attempt[r] > 0 =>
            delay[r] \in (2 ^ (attempt[r] - 1))..Max({MaxRetryAfter, 2 ^ (attempt[r] - 1)})

\* Whatever the others do, a call that was made ends.
CallEnds(r) == at[r] # "idle" ~> at[r] = "ended"
=============================================================================
