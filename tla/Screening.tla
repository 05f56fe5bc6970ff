------------------------------ MODULE Screening ------------------------------
(***************************************************************************)
(* What decides which extracted entities are kept and which records a      *)
(* range filter keeps: the validators (processors/validation.py), and tags *)
(* between two bounds (search/filters.py).  A text is a sequence of        *)
(* characters; digits are numbers, of base Base, and letters are strings.  *)
(***************************************************************************)
EXTENDS Integers, Sequences, SequencesExt, FiniteSets, FiniteSetsExt

-----------------------------------------------------------------------------
(* Validators.  A violation is <<code, field>>; all are errors.             *)

\* _token_kind(): the kind of a character, " " for one that separates.
Kind(c) == IF c \in {"a", "b"} THEN "letter" ELSE IF c = "1" THEN "number" ELSE "none"

\* Mutant: a token is whatever stands between separators.
TokenizeAtSeparators(text) ==
  SelectSeq(FoldLeft(LAMBDA runs, c : IF Kind(c) = "none" THEN Append(runs, <<>>)
                                      ELSE Append(Front(runs), Append(Last(runs), c)),
                     <<<<>>>>, text),
            LAMBDA run : run # <<>>)

\* _tokenize(): the runs of letters and the runs of numbers.
Tokenize(text) ==
  SelectSeq(FoldLeft(LAMBDA runs, c : IF runs # <<>> /\ Kind(Last(Last(runs))) = Kind(c)
                                      THEN Append(Front(runs), Append(Last(runs), c))
                                      ELSE Append(runs, <<c>>),
                     <<>>, text),
            LAMBDA run : Kind(run[1]) # "none")

\* KeywordExclusionValidator.validate(): the first forbidden phrase, the shorter
\* ones first, rejects the key.
KeywordViolations(key, keywords) ==
  LET phrases == {Tokenize(k) : k \in keywords} \ {<<>>}
      tokens == Tokenize(key)
      Has(length) == \E start \in 0..(Len(tokens) - length) :
                       SubSeq(tokens, start + 1, start + length) \in phrases
  IN IF ToSet(key) \subseteq {" "} THEN <<<<"null-key", "name">>>>
     ELSE IF \E length \in {Len(p) : p \in phrases} : Has(length) THEN <<<<"forbidden-keyword", "name">>>>
     ELSE <<>>

\* NumericRangeValidator.validate(): a missing value passes, a NaN is in no range.
RangeViolations(fields, record, ranges) ==
  LET Judged(field) ==
        LET value == record[field]
        IN CASE value.kind = "missing" -> <<>>
             [] value.kind = "text" -> <<<<"not-a-number", field>>>>
             [] value.kind = "nan" -> <<<<"out-of-range", field>>>>
             [] value.kind = "number" ->
                  IF value.number \in ranges[field] THEN <<>> ELSE <<<<"out-of-range", field>>>>
  IN FlattenSeq([i \in DOMAIN fields |-> Judged(fields[i])])

\* CompositeValidator: validate() asks every validator, is_valid() until one
\* rejects.
CompositeViolations(found) == FlattenSeq(found)
IsValid(found) == \A i \in DOMAIN found : found[i] = <<>>

-----------------------------------------------------------------------------
(* Ranges.  A bound is Open, a number or a text; the one given says which.  *)

Base == 3
Open == [kind |-> "open"]
Number(n) == [kind |-> "number", number |-> n]
Bound(text) == [kind |-> "text", text |-> text]

IsCanonical(tag) == tag = <<0>> \/ (tag # <<>> /\ tag[1] # 0)
ValueOf(tag) == FoldLeft(LAMBDA n, digit : n * Base + digit, 0, tag)

\* Python's order of texts.
Precedes(s, t) ==
  \/ IsPrefix(s, t)
  \/ \E i \in DOMAIN s \intersect DOMAIN t :
       s[i] < t[i] /\ \A j \in 1..(i - 1) : s[j] = t[j]

\* Mutant: the tag is compared with the upper bound in full.
TagInRangeInFull(tag, low, high) ==
  IF "number" \in {low.kind, high.kind}
  THEN /\ IsCanonical(tag)
       /\ low = Open \/ low.number <= ValueOf(tag)
       /\ high = Open \/ ValueOf(tag) <= high.number
  ELSE /\ low = Open \/ Precedes(low.text, tag)
       /\ high = Open \/ Precedes(tag, high.text)

\* tag_in_range()
TagInRange(tag, low, high) ==
  IF "number" \in {low.kind, high.kind}
  THEN /\ IsCanonical(tag)
       /\ low = Open \/ low.number <= ValueOf(tag)
       /\ high = Open \/ ValueOf(tag) <= high.number
  ELSE /\ low = Open \/ Precedes(low.text, tag)
       /\ high = Open \/ Precedes(SubSeq(tag, 1, Min({Len(tag), Len(high.text)})), high.text)

\* str() of a number.
Digits(n) == CHOOSE tag \in UNION {[1..k -> 0..(Base - 1)] : k \in 1..3} : IsCanonical(tag) /\ ValueOf(tag) = n

\* RangeFilter.__post_init__(): what it refuses.
IsRefused(low, high) ==
  \/ low = Open /\ high = Open
  \/ \E bound \in {low, high} : bound.kind = "text" /\ bound.text = <<>>
  \/ low # Open /\ high # Open /\
       \/ low.kind # high.kind
       \/ ~TagInRange(IF low.kind = "number" THEN Digits(low.number) ELSE low.text, low, high)

-----------------------------------------------------------------------------
(* Properties *)

\* "a keyword matches only a contiguous sequence of whole runs" (processors/validation.py:98-99):
\* a keyword of one run is in a key that is rejected, and nothing of its kind is
\* next to it there.
KeywordsAreWhole(key, keyword) ==
  Len(Tokenize(keyword)) = 1 /\ Tokenize(key) # <<>> =>
    LET word == Tokenize(keyword)[1]
        IsEdge(i) == i \notin DOMAIN key \/ Kind(key[i]) # Kind(word[1])
    IN (KeywordViolations(key, {keyword}) # <<>>) <=>
         \E i \in DOMAIN key : /\ i + Len(word) - 1 <= Len(key)
                               /\ SubSeq(key, i, i + Len(word) - 1) = word
                               /\ IsEdge(i - 1) /\ IsEdge(i + Len(word))

\* validate() rejects "exactly the records is_valid rejects" (processors/validation.py:57-58), a
\* field at most once.
ViolationsAgree(fields, record, ranges, key, keywords) ==
  LET found == <<KeywordViolations(key, keywords), RangeViolations(fields, record, ranges)>>
      all == CompositeViolations(found)
  IN /\ (all = <<>>) <=> IsValid(found)
     /\ IsInjective([i \in DOMAIN all |-> all[i][2]])

\* A filter is refused when "no tag could be in range" (search/filters.py:76), and only
\* then; a text's upper bound keeps whatever begins with it.
RangesAreUsable(low, high, tags) ==
  /\ low # Open /\ high # Open /\ low.kind = high.kind /\ ~(low.kind = "text" /\ <<>> \in {low.text, high.text}) =>
       (IsRefused(low, high) <=> \A tag \in tags : ~TagInRange(tag, low, high))
  /\ high.kind = "text" /\ high.text # <<>> /\ low = Open => \A tag \in tags :
       TagInRange(tag, low, high) <=> Precedes(tag, high.text) \/ IsPrefix(high.text, tag)
=============================================================================
