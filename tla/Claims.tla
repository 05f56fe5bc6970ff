------------------------------- MODULE Claims -------------------------------
(***************************************************************************)
(* Claims with their evidence: an extractor grounds the drafts of a model's*)
(* answer and keeps the others for review, the exporter replaces the       *)
(* record's claims in the claim store, a downstream job follows the feed of*)
(* its changes, and a reviewer pages through the rejected drafts.  One call*)
(* of a store is one transaction, and calls of one store exclude each other*)
(* (SqliteRunner), so a call is one action and a crash falls between two.  *)
(***************************************************************************)
EXTENDS Integers, Sequences, SequencesExt, FiniteSets, FiniteSetsExt

CONSTANTS
  RecordIds, Keys,     \* Keys: the identifying fields of a claim, its span included
  EntryOf,             \* rejection_id() of a record's draft, in [RecordIds \X Keys -> Nat]
  Answers,             \* sequences of drafts [key, grounded, complete]
  Limit,               \* page size of the job and the reviewer
  MaxWrites, MaxFaults, MaxCrashes

Assumption ==
  /\ EntryOf \in [RecordIds \X Keys -> Nat \ {0}] /\ IsInjective(EntryOf)
  /\ Answers \subseteq Seq([key : Keys, grounded : BOOLEAN, complete : BOOLEAN])
  /\ Limit \in Nat \ {0} /\ {MaxWrites, MaxFaults, MaxCrashes} \subseteq Nat

VARIABLES
  claims,       \* claims[r]: the keys of its claims, in their positions
  changes,      \* the feed, [record, op]; a revision is an index into it
  entries,      \* ids of the rejected drafts stored
  resolved,     \* those a reviewer has resolved
  stage, drafts,    \* of each record's extraction: idle, rejecting or writing
  saved, at, page,  \* of the job: revision saved, read from, and the changes read
  mirror,       \* what the job last read of each record's claims
  sweep, due,   \* of the reviewer: the last entry shown; entries to show in this sweep
  writes, faults, crashes,
  \* history
  exported,     \* the drafts of the record's last write, <<>> once deleted
  decided       \* entries a reviewer has resolved

storeVars == <<claims, changes, exported>>
rejectionVars == <<entries, resolved, decided>>
jobVars == <<saved, at, page, mirror>>
claimVars == <<storeVars, rejectionVars, stage, drafts, jobVars, sweep, due, writes, faults, crashes>>

-----------------------------------------------------------------------------
(* Quotes.  A text is a sequence of a lowercase letter "a", another "B", an *)
(* abbreviation "F", a full stop, a space and a blank line "|".             *)

IsSpace(c) == c \in {" ", "|"}

\* _ends_sentence(): the stop at p, which the character `following` comes after.
EndsSentence(text, p, following) ==
  /\ text[following] # "a"
  /\ ~(p > 1 /\ text[p - 1] = "F" /\ (p = 2 \/ IsSpace(text[p - 2])))

\* _paragraph_sentences(): the last stop q of each run that ends a sentence.
Ends(text) ==
  {q \in 1..(Len(text) - 2) :
     /\ text[q] = "." /\ text[q + 1] = " "
     /\ \E following \in (q + 2)..Len(text) :
          /\ \A i \in (q + 1)..(following - 1) : text[i] = " "
          /\ ~IsSpace(text[following])
          /\ EndsSentence(text, Min({p \in 1..q : \A i \in p..q : text[i] = "."}), following)}

\* sentence_bounds(), as the first and last characters of each sentence: what
\* neither an end of a sentence nor a blank line parts stays together.
Sentences(text) ==
  LET ends == Ends(text)
      Together(i, j) == \A k \in i..j : text[k] # "|" /\ (k < j => k \notin ends)
      inside == {i \in DOMAIN text : ~IsSpace(text[i])}
      SentenceOf(i) == {j \in inside : Together(Min({i, j}), Max({i, j}))}
  IN {<<Min(SentenceOf(i)), Max(SentenceOf(i))>> : i \in inside}

\* _normalized(): the positions kept; each is a space or itself.
Positions(text) ==
  SelectSeq([i \in 1..Len(text) |-> i],
            LAMBDA i : ~IsSpace(text[i]) \/ (i > 1 /\ ~IsSpace(text[i - 1])))
Normalized(text) ==
  LET kept == Positions(text)
  IN [k \in DOMAIN kept |-> IF IsSpace(text[kept[k]]) THEN " " ELSE text[kept[k]]]

\* Mutant: an end inside a later sentence is cut at the end of the first.
SnapToFirst(bounds, start, end) ==
  LET touched == {b \in bounds : b[1] <= start /\ start <= b[2]}
  IN <<Min({b[1] : b \in touched}), Max({b[2] : b \in touched})>>

\* _snap(): the sentences that hold the first and the last character.
Snap(bounds, start, end) ==
  LET touched == {b \in bounds : b[1] <= end /\ start <= b[2]}
  IN <<Min({b[1] : b \in touched}), Max({b[2] : b \in touched})>>

Stripped(words) ==
  LET in == {i \in DOMAIN words : words[i] # " "}
  IN IF in = {} THEN <<>> ELSE SubSeq(words, Min(in), Max(in))

\* locate_quote() where the quote occurs as it is; <<>> when it does not.
LocateQuote(text, quote) ==
  LET target == Stripped(Normalized(quote))
      normalized == Normalized(text)
      found == {i \in 1..(Len(normalized) - Len(target) + 1) :
                  SubSeq(normalized, i, i + Len(target) - 1) = target}
  IN IF target = <<>> \/ found = {} THEN <<>>
     ELSE Snap(Sentences(text), Positions(text)[Min(found)],
               Positions(text)[Min(found) + Len(target) - 1])

-----------------------------------------------------------------------------
(* Extraction and export                                                    *)

KeysOf(answer) == [i \in DOMAIN answer |-> answer[i].key]
Grounded(answer) == {i \in DOMAIN answer : answer[i].grounded}
Ungrounded(r) == {EntryOf[<<r, d.key>>] : d \in {e \in Range(drafts[r]) : ~e.grounded}}

\* unique_claims(): of the claims at some places, the first of each id, in their
\* order.
UniqueClaims(keys, places) ==
  LET first == {i \in places : \A j \in places : j < i => keys[j] # keys[i]}
  IN [k \in 1..Cardinality(first) |->
        keys[CHOOSE i \in first : Cardinality({j \in first : j <= i}) = k]]

Init ==
  /\ claims = [r \in RecordIds |-> <<>>] /\ changes = <<>>
  /\ entries = {} /\ resolved = {} /\ decided = {}
  /\ stage = [r \in RecordIds |-> "idle"] /\ drafts = [r \in RecordIds |-> <<>>]
  /\ saved = 0 /\ at = 0 /\ page = <<>> /\ mirror = [r \in RecordIds |-> <<>>]
  /\ sweep = 0 /\ due = {} /\ writes = 0 /\ faults = 0 /\ crashes = 0
  /\ exported = [r \in RecordIds |-> <<>>]

\* extract_record(): a grounded draft that misses a part fails the record.
Extract(r, answer) ==
  /\ stage[r] = "idle" /\ writes < MaxWrites /\ writes' = writes + 1
  /\ \A i \in DOMAIN answer : answer[i].grounded => answer[i].complete
  /\ drafts' = [drafts EXCEPT ![r] = answer]
  /\ stage' = [stage EXCEPT ![r] = IF Grounded(answer) = DOMAIN answer THEN "writing" ELSE "rejecting"]
  /\ UNCHANGED <<storeVars, rejectionVars, jobVars, sweep, due, faults, crashes>>

\* Mutant: a stored entry is replaced, its resolution with it.
PutReplacing(new) == entries' = entries \union new /\ resolved' = resolved \ new

\* put(): an entry already stored is left as it is.
Put(new) == entries' = entries \union new /\ UNCHANGED resolved

StoreUngrounded(r) ==
  /\ stage[r] = "rejecting" /\ stage' = [stage EXCEPT ![r] = "writing"]
  /\ Put(Ungrounded(r))
  /\ UNCHANGED <<storeVars, decided, drafts, jobVars, sweep, due, writes, faults, crashes>>

\* Mutant: writing no claims over none leaves no change behind.
ChangeUnlessEmpty(r, op, keys) ==
  changes' = IF keys = <<>> THEN changes ELSE Append(changes, [record |-> r, op |-> op])

Change(r, op, keys) == changes' = Append(changes, [record |-> r, op |-> op])

\* _write(): the claims and their change, in one transaction.
WriteRecord(r, op, keys) == claims' = [claims EXCEPT ![r] = keys] /\ Change(r, op, keys)

Export(r) ==
  /\ stage[r] = "writing" /\ stage' = [stage EXCEPT ![r] = "idle"]
  /\ WriteRecord(r, "replace", UniqueClaims(KeysOf(drafts[r]), Grounded(drafts[r])))
  /\ exported' = [exported EXCEPT ![r] = drafts[r]]
  /\ UNCHANGED <<rejectionVars, drafts, jobVars, sweep, due, writes, faults, crashes>>

\* Either write fails, and the record with it; a later run extracts it again.
WriteFails(r) ==
  /\ stage[r] # "idle" /\ stage' = [stage EXCEPT ![r] = "idle"]
  /\ faults < MaxFaults /\ faults' = faults + 1
  /\ UNCHANGED <<storeVars, rejectionVars, drafts, jobVars, sweep, due, writes, crashes>>

DeleteRecord(r) ==
  /\ writes < MaxWrites /\ writes' = writes + 1
  /\ WriteRecord(r, "delete", <<>>) /\ exported' = [exported EXCEPT ![r] = <<>>]
  /\ UNCHANGED <<rejectionVars, stage, drafts, jobVars, sweep, due, faults, crashes>>

-----------------------------------------------------------------------------
(* The downstream job and the reviewer                                      *)

\* Mutant: the next page starts after the newest revision there is.
NextRevisionNewest(rows, revision) == Len(changes)

NextRevision(rows, revision) == IF rows = <<>> THEN revision ELSE Last(rows)

\* changes_since(): the revisions of up to Limit changes above `at`.
FetchPage ==
  /\ page = <<>> /\ saved = at
  /\ page' = [i \in 1..Min({Limit, Len(changes) - at}) |-> at + i]
  /\ at' = NextRevision(page', at)
  /\ UNCHANGED <<storeVars, rejectionVars, stage, drafts, saved, mirror, sweep, due, writes, faults, crashes>>

\* claims_for_records() of the next record of the page, as it is by now.
Follow ==
  /\ page # <<>> /\ page' = Tail(page)
  /\ LET r == changes[Head(page)].record IN mirror' = [mirror EXCEPT ![r] = claims[r]]
  /\ UNCHANGED <<storeVars, rejectionVars, stage, drafts, saved, at, sweep, due, writes, faults, crashes>>

\* The job saves where it stands once a page is through.
Save ==
  /\ page = <<>> /\ saved # at /\ saved' = at
  /\ UNCHANGED <<storeVars, rejectionVars, stage, drafts, at, page, mirror, sweep, due, writes, faults, crashes>>

Unresolved == entries \ resolved

\* Mutant: the page holds any of the entries left.
FirstAfterNewest(after) ==
  LET left == {e \in Unresolved : e > after}
  IN {e \in left : Cardinality({d \in left : d > e}) < Limit}

\* unresolved(): up to Limit entries after `after`, in their order.
FirstAfter(after) ==
  LET left == {e \in Unresolved : e > after}
  IN {e \in left : Cardinality({d \in left : d < e}) < Limit}

\* A page of the reviewer's sweep; an empty one ends it, and a new one starts.
ReviewPage ==
  /\ LET shown == FirstAfter(sweep)
     IN IF shown = {} THEN sweep' = 0 /\ due' = Unresolved
        ELSE sweep' = Max(shown) /\ due' = (IF sweep = 0 THEN Unresolved ELSE due) \ shown
  /\ UNCHANGED <<storeVars, rejectionVars, stage, drafts, jobVars, writes, faults, crashes>>

\* resolve() of an entry that is stored; resolving one again changes its text.
Resolve(e) ==
  /\ e \in Unresolved /\ resolved' = resolved \union {e} /\ decided' = decided \union {e}
  /\ due' = due \ {e}
  /\ UNCHANGED <<storeVars, entries, stage, drafts, jobVars, sweep, writes, faults, crashes>>

\* The stores keep what was committed; the processes start over.
Crash ==
  /\ crashes < MaxCrashes /\ crashes' = crashes + 1
  /\ stage' = [r \in RecordIds |-> "idle"] /\ page' = <<>> /\ at' = saved
  /\ sweep' = 0 /\ due' = Unresolved
  /\ UNCHANGED <<storeVars, rejectionVars, drafts, saved, mirror, writes, faults>>

Next ==
  \/ \E r \in RecordIds :
       \/ \E answer \in Answers : Extract(r, answer)
       \/ StoreUngrounded(r) \/ Export(r) \/ WriteFails(r) \/ DeleteRecord(r)
  \/ FetchPage \/ Follow \/ Save \/ ReviewPage
  \/ \E e \in entries : Resolve(e)
  \/ Crash

Spec == Init /\ [][Next]_claimVars

-----------------------------------------------------------------------------
(* Properties *)

\* A text's own words, however spaced, are found in it, and the span reaches from
\* the start of the sentence an occurrence starts in to the end of the one it ends
\* in (locate.py:115).  Other words are not found.
QuotesAreLocated(text) ==
  LET SentenceAt(i) == CHOOSE s \in Sentences(text) : s[1] <= i /\ i <= s[2]
      inside == {i \in DOMAIN text : ~IsSpace(text[i])}
  IN /\ \A i, j \in inside : i <= j =>
          \E k, l \in inside :
            /\ Normalized(SubSeq(text, k, l)) = Normalized(SubSeq(text, i, j))
            /\ LocateQuote(text, <<" ">> \o SubSeq(text, i, j) \o <<"|">>) =
                 <<SentenceAt(k)[1], SentenceAt(l)[2]>>
     /\ \A quote \in {<<>>, <<" ">>, <<"x">>} : LocateQuote(text, quote) = <<>>

\* A job that continues from the last revision it saw (claims.md:97) holds every
\* record's claims as they are, unless a change of that record lies ahead of it:
\* paging, replacing, deleting and crashing make it miss nothing.
FeedMissesNothing ==
  \A r \in RecordIds :
    (\A i \in (saved + 1)..Len(changes) : changes[i].record # r) => mirror[r] = claims[r]

\* Each draft of a record's last export is a claim or waits for a reviewer, "Every
\* other draft" (extractor_async.py:30), whatever failed before.
DraftsAccounted ==
  \A r \in RecordIds : \A d \in Range(exported[r]) :
    IF d.grounded THEN d.key \in Range(claims[r]) ELSE EntryOf[<<r, d.key>>] \in entries

\* A reviewer's decision outlives every later extraction of its draft, and a sweep
\* that is over has shown what stayed unresolved all through it.
ReviewsKept ==
  /\ decided \subseteq resolved
  /\ sweep # 0 /\ FirstAfter(sweep) = {} => due = {}

-----------------------------------------------------------------------------
(* Why they hold: the inductive invariant.                                  *)

Ops == {"replace", "delete"}

Typed ==
  /\ changes \in Seq([record : RecordIds, op : Ops])
  /\ DOMAIN claims = RecordIds /\ DOMAIN mirror = RecordIds
  /\ stage \in [RecordIds -> {"idle", "rejecting", "writing"}]
  /\ {drafts, exported} \subseteq [RecordIds -> Seq([key : Keys, grounded : BOOLEAN, complete : BOOLEAN])]
  /\ entries \subseteq Nat \ {0} /\ IsFiniteSet(entries) /\ sweep \in Nat

\* The job has followed the feed up to its page, which runs on to where it reads
\* from, and holds what no change ahead of it concerns.
JobInStep ==
  /\ page \in Seq(Nat) /\ {saved, at} \subseteq Nat /\ at <= Len(changes)
  /\ saved <= at - Len(page)
  /\ \A i \in 1..Len(page) : page[i] = at - Len(page) + i
  /\ \A r \in RecordIds :
       (\A i \in (at - Len(page) + 1)..Len(changes) : changes[i].record # r) => mirror[r] = claims[r]

\* Claims are written only once what they leave out waits for review.
RejectedFirst == \A r \in RecordIds : stage[r] = "writing" => Ungrounded(r) \subseteq entries

\* What a sweep still has to show lies ahead of it.
SweepAhead == sweep # 0 => due \subseteq {e \in Unresolved : e > sweep}

ClaimsInv == Typed /\ JobInStep /\ RejectedFirst /\ DraftsAccounted /\ SweepAhead /\ decided \subseteq resolved
=============================================================================
