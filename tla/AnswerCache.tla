---------------------------- MODULE AnswerCache ----------------------------
(***************************************************************************)
(* Calls of the relevance cascade (embedding filter, then chat filter) and *)
(* of the entity extractor, which ask one chat model through a             *)
(* CachingLLMClient over a cache file.  An answer is stored before anyone  *)
(* has judged it, and a caller that rejects it takes it out again.  Each   *)
(* await may fail or be cancelled; a cancelled operation on the file       *)
(* completes if its thread has started.                                    *)
(***************************************************************************)
EXTENDS Naturals, Sequences, SequencesExt, FiniteSets

CONSTANTS
  Callers,
  RoleOf, RecordOf,   \* [Callers -> {"filter", "extractor"}], [Callers -> record]
  EmbedLenient, AskLenient,   \* default_on_error of the two filters
  MaxFaults, MaxCancels

Assumption ==
  /\ RoleOf \in [Callers -> {"filter", "extractor"}]
  /\ {EmbedLenient, AskLenient} \subseteq BOOLEAN /\ {MaxFaults, MaxCancels} \subseteq Nat

VARIABLES
  cache,       \* the stored answers: {<<key, answer>>}
  references,  \* the reference matrix is there
  lock,        \* who waits for the lock of the references, its holder first
  pc, answer,  \* pc[c] and the answer c holds
  verdict,     \* verdict[c]: none, relevant, irrelevant, entities, error or cancelled
  rejections,  \* the rejection store: {<<record, entity>>}
  faults, cancels,
  \* history
  orphans,     \* keys whose holder was cancelled, or could not take the answer out
  evidence,    \* records a model or a similarity spoke against
  embeddings   \* how often the references were embedded

cacheVars == <<cache, references, lock, pc, answer, verdict, rejections, faults, cancels,
               orphans, evidence, embeddings>>

\* response_cache_key(): the prompts of the two components differ.
Key(c) == <<RoleOf[c], RecordOf[c]>>

\* What _read_verdict and _entity_list make of an answer: a clear verdict, a list
\* of entities, one of which may fail its validation, or nothing.
Clear(role) == IF role = "filter" THEN {"yes", "no"} ELSE {"valid", "flawed"}
Answers(role) == Clear(role) \union {"unclear"}

Init ==
  /\ cache = {} /\ references = FALSE /\ lock = <<>>
  /\ pc = [c \in Callers |-> "idle"] /\ answer = [c \in Callers |-> "none"]
  /\ verdict = [c \in Callers |-> "none"] /\ rejections = {}
  /\ faults = 0 /\ cancels = 0 /\ orphans = {} /\ evidence = {} /\ embeddings = 0

Goto(c, label) == pc' = [pc EXCEPT ![c] = label]
Ends(c, outcome) == Goto(c, "ended") /\ verdict' = [verdict EXCEPT ![c] = outcome]
Fault == faults < MaxFaults /\ faults' = faults + 1

-----------------------------------------------------------------------------
(* InMemoryLLMResponseCache: the keys it holds, the least recently used      *)
(* first.                                                                   *)

Touched(keys, key) == Append(SelectSeq(keys, LAMBDA k : k # key), key)

\* get(), set() and delete()
Applied(keys, op, limit) ==
  LET touched == Touched(keys, op.key)
  IN CASE op.do = "get" -> IF op.key \in ToSet(keys) THEN touched ELSE keys
       [] op.do = "set" -> IF Len(touched) > limit THEN Tail(touched) ELSE touched
       [] op.do = "delete" -> SelectSeq(keys, LAMBDA k : k # op.key)

\* "the least recently used response is evicted once the cache is full"
\* (cache_async.py:106): no step takes out a key that was read or written after one
\* that stays, and none but a deletion takes one out below the limit.
RecentKept(ops, limit) ==
  LET Held(n) == FoldLeft(LAMBDA keys, op : Applied(keys, op, limit), <<>>, SubSeq(ops, 1, n))
      LastUse(key, n) == CHOOSE i \in 1..n : ops[i].key = key /\ \A j \in (i + 1)..n : ops[j].key # key
  IN \A n \in DOMAIN ops :
       /\ Len(Held(n)) <= limit
       /\ ops[n].do = "set" => ops[n].key \in ToSet(Held(n))
       /\ \A gone \in ToSet(Held(n - 1)) \ ToSet(Held(n)) :
            \/ ops[n] = [do |-> "delete", key |-> gone]
            \/ Len(Held(n)) = limit /\ \A kept \in ToSet(Held(n)) : LastUse(kept, n) > LastUse(gone, n)

-----------------------------------------------------------------------------
(* AsyncEmbeddingRelevanceFilter: the references are embedded under a lock  *)
(* by the first caller that finds none.                                     *)

\* AsyncLLMEntityExtractor has no filter before it.
Begin(c) ==
  /\ pc[c] = "idle"
  /\ IF RoleOf[c] = "extractor" THEN Goto(c, "reading") /\ UNCHANGED lock
     ELSE IF references THEN Goto(c, "comparing") /\ UNCHANGED lock
     ELSE /\ lock' = Append(lock, c)
          /\ Goto(c, IF lock = <<>> THEN "embedding" ELSE "queued")
  /\ UNCHANGED <<cache, references, answer, verdict, rejections, faults, cancels, orphans, evidence, embeddings>>

\* Mutant: the references are not looked for again under the lock.
GrantedUnchecked(c) ==
  /\ pc[c] = "queued" /\ Head(lock) = c
  /\ Goto(c, "embedding") /\ UNCHANGED lock
  /\ UNCHANGED <<cache, references, answer, verdict, rejections, faults, cancels, orphans, evidence, embeddings>>

Granted(c) ==
  /\ pc[c] = "queued" /\ Head(lock) = c
  /\ IF references THEN Goto(c, "comparing") /\ lock' = Tail(lock)
     ELSE Goto(c, "embedding") /\ UNCHANGED lock
  /\ UNCHANGED <<cache, references, answer, verdict, rejections, faults, cancels, orphans, evidence, embeddings>>

ReferencesEmbedded(c) ==
  /\ pc[c] = "embedding" /\ Goto(c, "comparing")
  /\ references' = TRUE /\ embeddings' = embeddings + 1 /\ lock' = Tail(lock)
  /\ UNCHANGED <<cache, answer, verdict, rejections, faults, cancels, orphans, evidence>>

\* Mutant: a fault of a strict filter passes for a rejection.
FilterFaultRejecting(c, lenient, next) ==
  IF lenient THEN Goto(c, next) /\ UNCHANGED verdict ELSE Ends(c, "irrelevant")

\* A fault lets the record through to what follows, or raises.
FilterFault(c, lenient, next) ==
  IF lenient THEN Goto(c, next) /\ UNCHANGED verdict ELSE Ends(c, "error")

\* An embedding fails, or its vector cannot be compared.
EmbeddingFails(c) ==
  /\ pc[c] \in {"embedding", "comparing"} /\ Fault
  /\ FilterFault(c, EmbedLenient, "reading")
  /\ lock' = IF pc[c] = "embedding" THEN Tail(lock) ELSE lock
  /\ UNCHANGED <<cache, references, answer, rejections, cancels, orphans, evidence, embeddings>>

Compared(c, similar) ==
  /\ pc[c] = "comparing"
  /\ IF similar THEN Goto(c, "reading") /\ UNCHANGED <<verdict, evidence>>
     ELSE Ends(c, "irrelevant") /\ evidence' = evidence \union {RecordOf[c]}
  /\ UNCHANGED <<cache, references, lock, answer, rejections, faults, cancels, orphans, embeddings>>

-----------------------------------------------------------------------------
(* CachingLLMClient._complete() and what the component makes of the answer  *)

\* A clear verdict ends the call; entities are screened; anything else is to be
\* invalidated.
Judge(c, given) ==
  /\ answer' = [answer EXCEPT ![c] = given]
  /\ CASE given \in {"yes", "no"} -> Ends(c, IF given = "yes" THEN "relevant" ELSE "irrelevant")
       [] given = "valid" -> Ends(c, "entities")
       [] given = "flawed" -> Goto(c, "screening") /\ UNCHANGED verdict
       [] given = "unclear" -> Goto(c, "invalidating") /\ UNCHANGED verdict

Hit(c) ==
  /\ pc[c] = "reading" /\ \E entry \in cache : entry[1] = Key(c) /\ Judge(c, entry[2])
  /\ orphans' = orphans \ {Key(c)}
  /\ UNCHANGED <<cache, references, lock, rejections, faults, cancels, evidence, embeddings>>

\* No answer is stored, or the cache cannot be read.
Miss(c) ==
  /\ pc[c] = "reading" /\ Goto(c, "asking")
  /\ IF \E entry \in cache : entry[1] = Key(c) THEN Fault ELSE UNCHANGED faults
  /\ UNCHANGED <<cache, references, lock, answer, verdict, rejections, cancels, orphans, evidence, embeddings>>

Asked(c, given) ==
  /\ pc[c] = "asking" /\ Goto(c, "storing") /\ answer' = [answer EXCEPT ![c] = given]
  /\ evidence' = IF given = "no" THEN evidence \union {RecordOf[c]} ELSE evidence
  /\ UNCHANGED <<cache, references, lock, verdict, rejections, faults, cancels, orphans, embeddings>>

\* A failed or unclear answer of the chat model.
Unanswered(c) == IF RoleOf[c] = "filter" /\ AskLenient THEN Ends(c, "relevant") ELSE Ends(c, "error")

AskFails(c) ==
  /\ pc[c] = "asking" /\ Fault
  /\ Unanswered(c)
  /\ UNCHANGED <<cache, references, lock, answer, rejections, cancels, orphans, evidence, embeddings>>

Stores(c) == cache' = {entry \in cache : entry[1] # Key(c)} \union {<<Key(c), answer[c]>>}

Store(c) ==
  /\ pc[c] = "storing" /\ Stores(c) /\ Judge(c, answer[c]) /\ orphans' = orphans \ {Key(c)}
  /\ UNCHANGED <<references, lock, rejections, faults, cancels, evidence, embeddings>>

\* The cache never fails a completion.
StoreFails(c) ==
  /\ pc[c] = "storing" /\ Fault /\ Judge(c, answer[c])
  /\ UNCHANGED <<cache, references, lock, rejections, cancels, orphans, evidence, embeddings>>

\* Mutant: the schema of the request is forgotten, and with it half of the key.
DeletesWithoutSchema(c) == cache' = {entry \in cache : entry[1] # <<"filter", RecordOf[c]>>}

Deletes(c) == cache' = {entry \in cache : entry[1] # Key(c)}

\* invalidate() never raises; then an unclear answer counts as a fault.
Invalidate(c) ==
  /\ pc[c] = "invalidating" /\ Unanswered(c)
  /\ \/ Deletes(c) /\ orphans' = orphans \ {Key(c)} /\ UNCHANGED faults
     \/ UNCHANGED cache /\ Fault /\ orphans' = orphans \union {Key(c)}
  /\ UNCHANGED <<references, lock, answer, rejections, cancels, evidence, embeddings>>

\* _screened(): the rejected entities are filed before the others are returned.
Screen(c) ==
  /\ pc[c] = "screening"
  /\ \/ /\ rejections' = rejections \union {RecordOf[c]} /\ Ends(c, "entities") /\ UNCHANGED faults
     \/ /\ Fault /\ Ends(c, "error") /\ UNCHANGED rejections
  /\ UNCHANGED <<cache, references, lock, answer, cancels, orphans, evidence, embeddings>>
-----------------------------------------------------------------------------

\* A cancelled operation on the cache file or the rejection store has landed, or
\* had not started.
Cancel(c) ==
  /\ pc[c] \notin {"idle", "ended"} /\ Ends(c, "cancelled")
  /\ cancels < MaxCancels /\ cancels' = cancels + 1
  /\ lock' = RemoveFirst(lock, c)
  /\ \/ UNCHANGED <<cache, rejections>>
        /\ orphans' = IF pc[c] = "invalidating" THEN orphans \union {Key(c)} ELSE orphans
     \/ /\ pc[c] = "storing" /\ Stores(c) /\ UNCHANGED rejections
        /\ orphans' = orphans \union {Key(c)}
     \/ /\ pc[c] = "invalidating" /\ Deletes(c) /\ UNCHANGED rejections
        /\ orphans' = orphans \ {Key(c)}
     \/ /\ pc[c] = "screening" /\ rejections' = rejections \union {RecordOf[c]}
        /\ UNCHANGED <<cache, orphans>>
  /\ UNCHANGED <<references, answer, faults, evidence, embeddings>>

Step(c) ==
  \/ Granted(c) \/ ReferencesEmbedded(c) \/ EmbeddingFails(c)
  \/ \E similar \in BOOLEAN : Compared(c, similar)
  \/ Hit(c) \/ Miss(c) \/ AskFails(c) \/ Store(c) \/ StoreFails(c) \/ Invalidate(c) \/ Screen(c)
  \/ \E given \in Answers(RoleOf[c]) : Asked(c, given)

Next == \E c \in Callers : Begin(c) \/ Step(c) \/ Cancel(c)

-----------------------------------------------------------------------------
(* Properties *)

\* A response that a component rejects "is removed through :meth:`invalidate`, so
\* the next request reaches the LLM again" (cache_async.py:254): a rejected answer
\* that is stored is about to be taken out, unless the one to do so was
\* cancelled or the cache failed it, and then its next reader does.
RejectedTakenOut ==
  \A entry \in cache : entry[2] = "unclear" =>
    \/ entry[1] \in orphans
    \/ \E c \in Callers : Key(c) = entry[1] /\ pc[c] = "invalidating"

\* "A fault never reads as a verdict of irrelevance" (relevance_async.py:64), a
\* cached verdict is of the record it was given for, and the references are
\* embedded once, however many calls find them missing.
IrrelevantByEvidence ==
  /\ \A c \in Callers : verdict[c] = "irrelevant" => RecordOf[c] \in evidence
  /\ embeddings <= 1

\* Every call ends, whoever is cancelled while it holds or waits for the lock.
CallEnds(c) == pc[c] # "idle" ~> pc[c] = "ended"
=============================================================================
