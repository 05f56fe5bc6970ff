------------------------------- MODULE Orders -------------------------------
(***************************************************************************)
(* Rankings: sequences of the members of a set, best first, as every list  *)
(* of search results is ordered.  A member's place is the number of those  *)
(* that come before it.                                                    *)
(***************************************************************************)
EXTENDS Integers, Sequences, FiniteSets, FiniteSetsExt

\* A higher score comes first, and of equal scores the smaller name.
ComesBefore(score, name, x, y) ==
  score[x] > score[y] \/ (score[x] = score[y] /\ name[x] < name[y])

\* _best_first, and ORDER BY score DESC, record_id: the members of S.
BestFirst(S, score, name) ==
  [place \in 1..Cardinality(S) |->
    CHOOSE x \in S : Cardinality({y \in S : ComesBefore(score, name, y, x)}) = place - 1]

Top(ranking, n) == SubSeq(ranking, 1, Min({n, Len(ranking)}))
=============================================================================
