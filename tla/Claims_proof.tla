---------------------------- MODULE Claims_proof ----------------------------
(***************************************************************************)
(* What the claim and rejection stores keep for every set of records, keys *)
(* and answers, every page size, and every number of writes, faults and    *)
(* crashes: a follower of the feed misses nothing, every draft of an       *)
(* exported record is a claim or waits for review, and decisions stand.    *)
(***************************************************************************)
EXTENDS Claims, FiniteSetTheorems, SequenceTheorems, WellFoundedInduction, TLAPS

-----------------------------------------------------------------------------
(* Sets of natural numbers, as the feed and the sweep page through them:   *)
(* the least and the greatest element, the first few of a set, and its     *)
(* elements by their rank.  Proved without induction, from the well-       *)
(* foundedness of the natural numbers.                                     *)

\* A set of natural numbers has a least element, and Min is it.
LEMMA Least ==
  ASSUME NEW S \in SUBSET Nat, S # {}
  PROVE  Min(S) \in S /\ \A n \in S : Min(S) <= n
<1> DEFINE R == OpToRel(<, Nat)
<1>1. IsWellFoundedOn(R, Nat)
  BY NatLessThanWellFounded
<1>2. \A x, y \in Nat : <<x, y>> \in R <=> x < y
  BY DEF OpToRel
<1> HIDE DEF R
<1>3. PICK m \in S : \A n \in S : ~(<<n, m>> \in R)
  BY <1>1, WFMin
<1>4. ASSUME NEW n \in S PROVE m <= n
  <2>1. m \in Nat /\ n \in Nat
    OBVIOUS
  <2>2. ~(n < m)
    BY <1>2, <1>3, <2>1
  <2>3. QED
    BY <2>1, <2>2
<1>5. QED
  BY <1>3, <1>4 DEF Min

\* The members of a set that are beyond one of its elements are fewer than
\* those beyond a smaller one.
LEMMA FewerAbove ==
  ASSUME NEW S \in SUBSET Nat, IsFiniteSet(S), NEW m \in S, NEW n \in S, m < n
  PROVE  /\ Cardinality({k \in S : k > n}) \in Nat /\ Cardinality({k \in S : k > m}) \in Nat
         /\ Cardinality({k \in S : k > n}) < Cardinality({k \in S : k > m})
<1> DEFINE A == {k \in S : k > n}
           B == {k \in S : k > m}
<1>1. IsFiniteSet(A) /\ IsFiniteSet(B)
  BY FS_Subset
<1>2. A \subseteq B /\ n \in B /\ n \notin A
  <2>1. m \in Nat /\ n \in Nat /\ \A k \in S : k \in Nat
    OBVIOUS
  <2>2. /\ \A k \in S : k > n => k > m
        /\ n > m /\ ~(n > n)
    BY <2>1
  <2>3. QED
    BY <2>1, <2>2
<1>3. Cardinality(A) \in Nat /\ Cardinality(B) \in Nat
  BY <1>1, FS_CardinalityType
<1> HIDE DEF A, B
<1>4. Cardinality(A) <= Cardinality(B) /\ Cardinality(A) # Cardinality(B)
  BY <1>1, <1>2, FS_Subset
<1>5. QED
  BY <1>3, <1>4 DEF A, B

\* A finite set of natural numbers has a greatest element, and Max is it.
LEMMA GreatestOfFinite ==
  ASSUME NEW S \in SUBSET Nat, S # {}, IsFiniteSet(S)
  PROVE  Max(S) \in S /\ \A n \in S : n <= Max(S)
<1> DEFINE Above(m) == Cardinality({k \in S : k > m})
           T == {Above(m) : m \in S}
<1>1. T \subseteq Nat /\ T # {}
  <2>1. \A m \in S : Above(m) \in Nat
    BY FS_Subset, FS_CardinalityType
  <2>2. QED
    BY <2>1
<1>2. Min(T) \in T /\ \A t \in T : Min(T) <= t
  BY <1>1, Least
<1>3. PICK m \in S : Min(T) = Above(m)
  BY <1>2
<1>4. ASSUME NEW n \in S PROVE n <= m
  <2>1. Above(n) \in T
    OBVIOUS
  <2>2. m \in Nat /\ n \in Nat /\ Above(m) <= Above(n)
    BY <1>2, <1>3, <2>1
  <2>3. m < n => Above(n) \in Nat /\ Above(m) \in Nat /\ Above(n) < Above(m)
    BY FewerAbove
  <2> HIDE DEF Above
  <2>4. QED
    BY <2>2, <2>3
<1>5. QED
  BY <1>4 DEF Max

-----------------------------------------------------------------------------
(* The first few.                                                          *)

FirstOf(S, count) == {n \in S : Cardinality({m \in S : m < n}) < count}

\* The first few of a non-empty set are not empty, and the others follow them.
LEMMA FirstComeFirst ==
  ASSUME NEW S \in SUBSET Nat, IsFiniteSet(S), NEW count \in Nat \ {0}
  PROVE  /\ S # {} => FirstOf(S, count) # {}
         /\ \A n \in S \ FirstOf(S, count), m \in FirstOf(S, count) : m < n
<1> DEFINE Below(n) == {m \in S : m < n}
<1>1. \A n \in S : IsFiniteSet(Below(n)) /\ Cardinality(Below(n)) \in Nat
  BY FS_Subset, FS_CardinalityType
<1>2. S # {} => FirstOf(S, count) # {}
  <2> SUFFICES ASSUME S # {} PROVE FirstOf(S, count) # {}
    OBVIOUS
  <2>1. Min(S) \in S /\ \A n \in S : Min(S) <= n
    BY Least
  <2>2. Below(Min(S)) = {}
    <3>1. Min(S) \in Nat /\ \A m \in S : m \in Nat
      BY <2>1
    <3>2. \A m \in S : ~(m < Min(S))
      BY <2>1, <3>1
    <3>3. QED
      BY <3>2
  <2>3. Cardinality(Below(Min(S))) < count
    BY <2>2, FS_EmptySet
  <2>4. QED
    BY <2>1, <2>3 DEF FirstOf
<1>3. ASSUME NEW n \in S \ FirstOf(S, count), NEW m \in FirstOf(S, count) PROVE m < n
  <2>1. m \in S /\ Cardinality(Below(m)) < count /\ ~(Cardinality(Below(n)) < count)
    BY DEF FirstOf
  <2>2. ASSUME n <= m PROVE FALSE
    <3>1. Below(n) \subseteq Below(m)
      <4>1. n \in Nat /\ m \in Nat /\ \A k \in S : k \in Nat
        BY <2>1
      <4>2. \A k \in S : k < n => k < m
        BY <2>2, <4>1
      <4>3. QED
        BY <4>2
    <3>2. Cardinality(Below(n)) <= Cardinality(Below(m))
      BY <1>1, <2>1, <3>1, FS_Subset
    <3>3. QED
      BY <1>1, <2>1, <3>2
  <2>3. QED
    BY <2>1, <2>2
<1>4. QED
  BY <1>2, <1>3

-----------------------------------------------------------------------------
(* Ranks.                                                                  *)

Rank(S, n) == Cardinality({m \in S : m <= n})

\* Ranks run from 1 to the size of the set, and no two elements share one: the
\* element of a given rank is the one chosen by it.
LEMMA RanksAreUnique ==
  ASSUME NEW S \in SUBSET Nat, IsFiniteSet(S), NEW n \in S
  PROVE  /\ Rank(S, n) \in 1..Cardinality(S)
         /\ (CHOOSE m \in S : Rank(S, m) = Rank(S, n)) = n
<1> DEFINE UpTo(m) == {k \in S : k <= m}
<1>1. \A m \in S : IsFiniteSet(UpTo(m)) /\ Cardinality(UpTo(m)) \in Nat
  BY FS_Subset, FS_CardinalityType
<1>2. Rank(S, n) \in 1..Cardinality(S)
  <2>1. UpTo(n) \subseteq S /\ n \in UpTo(n)
    OBVIOUS
  <2>2. Cardinality(S) \in Nat /\ Cardinality(UpTo(n)) <= Cardinality(S)
    BY <2>1, FS_Subset, FS_CardinalityType
  <2>3. Cardinality(UpTo(n)) # 0
    BY <1>1, <2>1, FS_EmptySet
  <2>4. QED
    BY <1>1, <2>2, <2>3 DEF Rank
<1>3. ASSUME NEW m \in S, NEW k \in S, m < k PROVE Rank(S, m) # Rank(S, k)
  <2>1. UpTo(m) \subseteq UpTo(k) /\ k \in UpTo(k) /\ k \notin UpTo(m)
    <3>1. m \in Nat /\ k \in Nat /\ \A j \in S : j \in Nat
      OBVIOUS
    <3>2. /\ \A j \in S : j <= m => j <= k
          /\ k <= k /\ ~(k <= m)
      BY <1>3, <3>1
    <3>3. QED
      BY <3>2
  <2>2. Cardinality(UpTo(m)) # Cardinality(UpTo(k))
    BY <1>1, <2>1, FS_Subset
  <2>3. QED
    BY <2>2 DEF Rank
<1>4. \A m \in S : Rank(S, m) = Rank(S, n) => m = n
  <2> SUFFICES ASSUME NEW m \in S, Rank(S, m) = Rank(S, n) PROVE m = n
    OBVIOUS
  <2>1. ~(m < n) /\ ~(n < m)
    BY <1>3
  <2>2. QED
    BY <2>1
<1>5. QED
  BY <1>2, <1>4


USE DEF storeVars, rejectionVars, jobVars

Drafts == [key : Keys, grounded : BOOLEAN, complete : BOOLEAN]

-----------------------------------------------------------------------------
(* Answers.                                                                *)

\* Dropping repeated claims drops no key.
LEMMA UniqueKeepsKeys ==
  ASSUME NEW keys \in Seq(Keys), NEW places \in SUBSET (DOMAIN keys), NEW i \in places
  PROVE  keys[i] \in Range(UniqueClaims(keys, places))
<1> DEFINE same == {j \in places : keys[j] = keys[i]}
           first == {k \in places : \A j \in places : j < k => keys[j] # keys[k]}
           m == Min(same)
<1>1. /\ Len(keys) \in Nat /\ DOMAIN keys = 1..Len(keys)
      /\ \A j \in places : j \in 1..Len(keys) /\ j \in Nat
  BY LenProperties
<1>2. same \in SUBSET Nat /\ i \in same
  BY <1>1
<1>3. m \in same /\ \A j \in same : m <= j
  BY <1>2, Least
<1> HIDE DEF m
<1>4. m \in first
  BY <1>1, <1>3
<1>5. IsFiniteSet(first) /\ first \in SUBSET Nat
  <2>1. IsFiniteSet(1..Len(keys)) /\ first \subseteq 1..Len(keys)
    BY <1>1, FS_Interval
  <2>2. QED
    BY <1>1, <2>1, FS_Subset
<1> HIDE DEF first
<1>6. /\ Rank(first, m) \in 1..Cardinality(first)
      /\ (CHOOSE k \in first : Rank(first, k) = Rank(first, m)) = m
  BY <1>4, <1>5, RanksAreUnique
<1>7. UniqueClaims(keys, places) =
        [k \in 1..Cardinality(first) |-> keys[CHOOSE j \in first : Rank(first, j) = k]]
  BY DEF UniqueClaims, first, Rank
<1>8. UniqueClaims(keys, places)[Rank(first, m)] = keys[m]
  BY <1>6, <1>7
<1>9. keys[m] = keys[i]
  BY <1>3
<1>10. Rank(first, m) \in DOMAIN UniqueClaims(keys, places)
  BY <1>6, <1>7
<1>11. QED
  BY <1>8, <1>9, <1>10 DEF Range

\* The claims written for an answer have the keys of all its grounded drafts.
LEMMA ClaimsOfAnswer ==
  ASSUME NEW answer \in Seq(Drafts), NEW d \in Range(answer), d.grounded
  PROVE  d.key \in Range(UniqueClaims(KeysOf(answer), Grounded(answer)))
<1>1. PICK i \in DOMAIN answer : answer[i] = d
  BY DEF Range
<1>2. KeysOf(answer) \in Seq(Keys) /\ DOMAIN KeysOf(answer) = DOMAIN answer
  <2>1. Len(answer) \in Nat /\ DOMAIN answer = 1..Len(answer)
        /\ \A j \in 1..Len(answer) : answer[j] \in Drafts
    BY LenProperties, ElementOfSeq
  <2>2. \A j \in 1..Len(answer) : answer[j].key \in Keys
    BY <2>1 DEF Drafts
  <2>3. KeysOf(answer) = [j \in 1..Len(answer) |-> answer[j].key]
    BY <2>1 DEF KeysOf
  <2>4. QED
    BY <2>1, <2>2, <2>3
<1>3. i \in Grounded(answer) /\ Grounded(answer) \subseteq DOMAIN KeysOf(answer)
  BY <1>1, <1>2 DEF Grounded
<1>4. KeysOf(answer)[i] = d.key
  BY <1>1 DEF KeysOf
<1>5. QED
  BY <1>2, <1>3, <1>4, UniqueKeepsKeys

\* The entries of what an answer leaves out are finitely many, and positive.
LEMMA UngroundedTyped ==
  ASSUME Assumption, NEW r \in RecordIds, drafts[r] \in Seq(Drafts)
  PROVE  Ungrounded(r) \subseteq Nat \ {0} /\ IsFiniteSet(Ungrounded(r))
<1> DEFINE left == {i \in DOMAIN drafts[r] : ~drafts[r][i].grounded}
           f == [i \in left |-> EntryOf[<<r, drafts[r][i].key>>]]
<1>1. IsFiniteSet(DOMAIN drafts[r])
  BY LenProperties, FS_Interval
<1>2. IsFiniteSet(left)
  BY <1>1, FS_Subset
<1>3. Ungrounded(r) = {f[i] : i \in left}
  BY DEF Ungrounded, Range
<1>4. f \in Surjection(left, Ungrounded(r))
  BY <1>3 DEF Surjection
<1>5. \A i \in left : EntryOf[<<r, drafts[r][i].key>>] \in Nat \ {0}
  <2>1. \A i \in DOMAIN drafts[r] : drafts[r][i] \in Drafts
    BY ElementOfSeq, LenProperties
  <2>2. \A i \in left : drafts[r][i].key \in Keys
    BY <2>1 DEF Drafts
  <2>3. QED
    BY <2>2 DEF Assumption
<1>6. QED
  BY <1>2, <1>3, <1>4, <1>5, FS_Surjection

-----------------------------------------------------------------------------
(* Types.                                                                  *)

Changes == [record : RecordIds, op : Ops]
Stages == {"idle", "rejecting", "writing"}

LEMMA TypedIs ==
  Typed <=> /\ changes \in Seq(Changes) /\ DOMAIN claims = RecordIds /\ DOMAIN mirror = RecordIds
            /\ stage \in [RecordIds -> Stages]
            /\ drafts \in [RecordIds -> Seq(Drafts)] /\ exported \in [RecordIds -> Seq(Drafts)]
            /\ entries \subseteq Nat \ {0} /\ IsFiniteSet(entries) /\ sweep \in Nat
BY DEF Typed, Changes, Stages, Drafts

LEMMA ClaimsInit == ASSUME Assumption PROVE Init => ClaimsInv
<1> SUFFICES ASSUME Init PROVE ClaimsInv
  OBVIOUS
<1> USE DEF Init
<1>1. <<>> \in Seq(Changes) /\ <<>> \in Seq(Drafts) /\ <<>> \in Seq(Nat) /\ Len(<<>>) = 0
  BY EmptySeq
<1>2. Typed
  BY <1>1, TypedIs, FS_EmptySet DEF Stages
<1>3. JobInStep
  BY <1>1 DEF JobInStep
<1>4. RejectedFirst
  BY DEF RejectedFirst
<1>5. DraftsAccounted
  BY <1>1 DEF DraftsAccounted, Range
<1>6. SweepAhead /\ decided \subseteq resolved
  BY DEF SweepAhead
<1>7. QED
  BY <1>2, <1>3, <1>4, <1>5, <1>6 DEF ClaimsInv

\* A write is a change of one record.
LEMMA Written ==
  ASSUME Typed, NEW r \in RecordIds, NEW op \in Ops, NEW keys, WriteRecord(r, op, keys)
  PROVE  /\ claims' = [claims EXCEPT ![r] = keys] /\ DOMAIN claims' = RecordIds
         /\ changes' \in Seq(Changes) /\ Len(changes') = Len(changes) + 1
         /\ \A i \in 1..Len(changes) : changes'[i] = changes[i]
         /\ changes'[Len(changes) + 1].record = r
<1> DEFINE change == [record |-> r, op |-> op]
<1>1. change \in Changes /\ change.record = r
  BY DEF Changes
<1>2. claims' = [claims EXCEPT ![r] = keys] /\ changes' = Append(changes, change)
  BY DEF WriteRecord, Change
<1>3. changes \in Seq(Changes) /\ DOMAIN claims = RecordIds
  BY TypedIs
<1> HIDE DEF change
<1>4. QED
  BY <1>1, <1>2, <1>3, AppendProperties

\* The sweep's page: what it shows lies ahead, and what it leaves lies beyond it.
LEMMA PageShown ==
  ASSUME Assumption, Typed
  PROVE  LET shown == FirstAfter(sweep)
             left == {e \in Unresolved : e > sweep}
         IN  /\ shown \subseteq left /\ (left # {} => shown # {})
             /\ shown # {} => /\ Max(shown) \in Nat \ {0}
                             /\ \A e \in left \ shown : e > Max(shown)
<1> DEFINE left == {e \in Unresolved : e > sweep}
           shown == FirstAfter(sweep)
<1>1. entries \subseteq Nat \ {0} /\ IsFiniteSet(entries) /\ sweep \in Nat /\ Limit \in Nat \ {0}
  BY TypedIs DEF Assumption
<1>2. left \in SUBSET Nat /\ IsFiniteSet(left) /\ 0 \notin left
  BY <1>1, FS_Subset DEF Unresolved
<1>3. shown = FirstOf(left, Limit)
  BY DEF FirstAfter, FirstOf
<1> HIDE DEF left, shown
<1>4. /\ shown \subseteq left /\ (left # {} => shown # {})
      /\ \A n \in left \ shown, m \in shown : m < n
  BY <1>1, <1>2, <1>3, FirstComeFirst DEF FirstOf
<1>5. shown # {} => Max(shown) \in shown
  BY <1>2, <1>4, FS_Subset, GreatestOfFinite
<1>6. shown # {} => Max(shown) \in Nat \ {0}
  BY <1>2, <1>4, <1>5
<1>7. ASSUME shown # {}, NEW e \in left \ shown PROVE e > Max(shown)
  <2>1. Max(shown) < e /\ e \in Nat /\ Max(shown) \in Nat
    BY <1>2, <1>4, <1>5, <1>6, <1>7
  <2>2. QED
    BY <2>1
<1>8. QED
  BY <1>4, <1>6, <1>7 DEF left, shown

LEMMA TypedStep == ASSUME Assumption, Typed, [Next]_claimVars PROVE Typed'
<1>0. /\ changes \in Seq(Changes) /\ DOMAIN claims = RecordIds /\ DOMAIN mirror = RecordIds
      /\ stage \in [RecordIds -> Stages]
      /\ drafts \in [RecordIds -> Seq(Drafts)] /\ exported \in [RecordIds -> Seq(Drafts)]
      /\ entries \subseteq Nat \ {0} /\ IsFiniteSet(entries) /\ sweep \in Nat
  BY TypedIs
<1> DEFINE T == /\ changes' \in Seq(Changes) /\ DOMAIN claims' = RecordIds /\ DOMAIN mirror' = RecordIds
                /\ stage' \in [RecordIds -> Stages]
                /\ drafts' \in [RecordIds -> Seq(Drafts)] /\ exported' \in [RecordIds -> Seq(Drafts)]
                /\ entries' \subseteq Nat \ {0} /\ IsFiniteSet(entries') /\ sweep' \in Nat
<1>1. SUFFICES T
  BY DEF Typed, Changes, Stages, Drafts
<1>2. ASSUME NEW r \in RecordIds, NEW answer \in Answers, Extract(r, answer) PROVE T
  <2>1. answer \in Seq(Drafts)
    BY DEF Assumption, Drafts
  <2>2. QED
    BY <1>0, <1>2, <2>1 DEF Extract, Stages
<1>3. ASSUME NEW r \in RecordIds, StoreUngrounded(r) PROVE T
  <2>1. Ungrounded(r) \subseteq Nat \ {0} /\ IsFiniteSet(Ungrounded(r))
    BY <1>0, UngroundedTyped
  <2>2. entries' = entries \union Ungrounded(r)
    BY <1>3 DEF StoreUngrounded, Put
  <2>3. entries' \subseteq Nat \ {0} /\ IsFiniteSet(entries')
    BY <1>0, <2>1, <2>2, FS_Union
  <2>4. QED
    BY <1>0, <1>3, <2>3 DEF StoreUngrounded, Stages
<1>4. ASSUME NEW r \in RecordIds, Export(r) PROVE T
  <2>1. changes' \in Seq(Changes) /\ DOMAIN claims' = RecordIds
    BY <1>4, Written DEF Export, Ops
  <2>2. QED
    BY <1>0, <1>4, <2>1 DEF Export, Stages
<1>5. ASSUME NEW r \in RecordIds, DeleteRecord(r) PROVE T
  <2>1. changes' \in Seq(Changes) /\ DOMAIN claims' = RecordIds
    BY <1>5, Written DEF DeleteRecord, Ops
  <2>2. <<>> \in Seq(Drafts)
    BY EmptySeq
  <2>3. QED
    BY <1>0, <1>5, <2>1, <2>2 DEF DeleteRecord
<1>6. ASSUME NEW r \in RecordIds, WriteFails(r) PROVE T
  BY <1>0, <1>6 DEF WriteFails, Stages
<1>7. CASE FetchPage \/ Save
  BY <1>0, <1>7 DEF FetchPage, Save
<1>8. CASE Follow
  BY <1>0, <1>8 DEF Follow
<1>9. CASE ReviewPage
  <2>1. sweep' \in Nat
    BY <1>0, <1>9, PageShown DEF ReviewPage
  <2>2. QED
    BY <1>0, <1>9, <2>1 DEF ReviewPage
<1>10. ASSUME NEW e \in entries, Resolve(e) PROVE T
  BY <1>0, <1>10 DEF Resolve
<1>11. CASE Crash
  BY <1>0, <1>11 DEF Crash, Stages
<1>12. CASE UNCHANGED claimVars
  BY <1>0, <1>12 DEF claimVars
<1>13. QED
  BY <1>2, <1>3, <1>4, <1>5, <1>6, <1>7, <1>8, <1>9, <1>10, <1>11, <1>12 DEF Next

-----------------------------------------------------------------------------
(* The feed.                                                               *)

\* How far the job has followed the feed.
Followed == at - Len(page)

JobIs ==
  /\ page \in Seq(Nat) /\ saved \in Nat /\ at \in Nat /\ at <= Len(changes)
  /\ saved <= Followed
  /\ \A i \in 1..Len(page) : page[i] = Followed + i
  /\ \A r \in RecordIds :
       (\A i \in (Followed + 1)..Len(changes) : changes[i].record # r) => mirror[r] = claims[r]

LEMMA JobAs == JobInStep <=> JobIs
BY DEF JobInStep, JobIs, Followed

\* A change of the feed leaves the job in step: what it concerns lies ahead.
LEMMA JobWritten ==
  ASSUME Typed, JobIs, NEW r \in RecordIds, NEW op \in Ops, NEW keys, WriteRecord(r, op, keys),
         UNCHANGED jobVars
  PROVE  JobIs'
<1>1. /\ claims' = [claims EXCEPT ![r] = keys] /\ DOMAIN claims = RecordIds
      /\ changes' \in Seq(Changes) /\ Len(changes') = Len(changes) + 1
      /\ \A i \in 1..Len(changes) : changes'[i] = changes[i]
      /\ changes'[Len(changes) + 1].record = r
  BY Written, TypedIs
<1>2. Followed' = Followed /\ Followed \in Nat /\ Followed <= Len(changes) /\ Len(changes) \in Nat
      /\ at \in Nat /\ at <= Len(changes) /\ at <= Len(changes) + 1
  <2>1. Len(page) \in Nat /\ Len(changes) \in Nat /\ saved \in Nat /\ at \in Nat
    BY LenProperties, TypedIs DEF JobIs
  <2>2. Followed = at - Len(page) /\ saved <= Followed /\ at <= Len(changes)
    BY DEF JobIs, Followed
  <2>3. Followed' = Followed
    BY DEF Followed
  <2> HIDE DEF Followed
  <2>4. QED
    BY <2>1, <2>2, <2>3
<1> HIDE DEF Followed
<1>3. ASSUME NEW q \in RecordIds, \A i \in (Followed + 1)..(Len(changes) + 1) : changes'[i].record # q
      PROVE  mirror[q] = claims'[q]
  <2>1. Len(changes) + 1 \in (Followed + 1)..(Len(changes) + 1)
    BY <1>2
  <2>2. q # r
    BY <1>1, <1>3, <2>1
  <2>3. \A i \in (Followed + 1)..Len(changes) : changes[i].record # q
    <3> SUFFICES ASSUME NEW i \in (Followed + 1)..Len(changes) PROVE changes[i].record # q
      OBVIOUS
    <3>1. i \in (Followed + 1)..(Len(changes) + 1) /\ i \in 1..Len(changes)
      BY <1>2
    <3>2. QED
      BY <1>1, <1>3, <3>1
  <2>4. mirror[q] = claims[q]
    BY <2>3 DEF JobIs
  <2>5. QED
    BY <1>1, <2>2, <2>4
<1>4. at' <= Len(changes') /\ page' = page /\ saved' = saved /\ mirror' = mirror /\ at' = at
  BY <1>1, <1>2
<1>5. \A q \in RecordIds :
        (\A i \in (Followed' + 1)..Len(changes') : changes'[i].record # q) => mirror'[q] = claims'[q]
  BY <1>1, <1>2, <1>3, <1>4
<1>6. QED
  BY <1>2, <1>4, <1>5 DEF JobIs

LEMMA JobStep == ASSUME Assumption, Typed, JobInStep, [Next]_claimVars PROVE JobInStep'
<1>0. /\ JobIs /\ Followed = at - Len(page)
      /\ page \in Seq(Nat) /\ saved \in Nat /\ at \in Nat /\ at <= Len(changes) /\ saved <= Followed
      /\ \A i \in 1..Len(page) : page[i] = Followed + i
      /\ Len(page) \in Nat /\ Len(changes) \in Nat /\ Limit \in Nat \ {0} /\ Followed \in Nat
  <2>1. JobIs
    BY JobAs
  <2>2. Len(page) \in Nat /\ Len(changes) \in Nat
    BY <2>1, TypedIs, LenProperties DEF JobIs
  <2>3. Followed = at - Len(page)
    BY DEF Followed
  <2>4. /\ page \in Seq(Nat) /\ saved \in Nat /\ at \in Nat /\ at <= Len(changes) /\ saved <= Followed
        /\ \A i \in 1..Len(page) : page[i] = Followed + i
    BY <2>1 DEF JobIs
  <2> HIDE DEF Followed
  <2>5. QED
    BY <2>1, <2>2, <2>3, <2>4 DEF Assumption
<1>1. SUFFICES JobIs'
  BY DEF JobInStep, JobIs, Followed
<1>2. CASE UNCHANGED <<claims, changes, jobVars>>
  BY <1>0, <1>2 DEF JobIs, Followed
<1>3. ASSUME NEW r \in RecordIds, NEW answer \in Answers, Extract(r, answer) PROVE JobIs'
  BY <1>2, <1>3 DEF Extract
<1>4. ASSUME NEW r \in RecordIds, StoreUngrounded(r) \/ WriteFails(r) PROVE JobIs'
  BY <1>2, <1>4 DEF StoreUngrounded, WriteFails
<1>5. ASSUME NEW r \in RecordIds, Export(r) PROVE JobIs'
  BY <1>0, <1>5, JobWritten DEF Export, Ops
<1>6. ASSUME NEW r \in RecordIds, DeleteRecord(r) PROVE JobIs'
  BY <1>0, <1>6, JobWritten DEF DeleteRecord, Ops
<1>7. CASE FetchPage
  <2> DEFINE n == Min({Limit, Len(changes) - at})
  <2>1. /\ page = <<>> /\ saved = at /\ page' = [i \in 1..n |-> at + i]
        /\ at' = NextRevision(page', at) /\ UNCHANGED <<claims, changes, saved, mirror>>
    BY <1>7 DEF FetchPage
  <2>2. n \in Nat /\ n <= Len(changes) - at
    <3>1. {Limit, Len(changes) - at} \in SUBSET Nat
      BY <1>0
    <3>2. n \in {Limit, Len(changes) - at} /\ n <= Len(changes) - at
      BY <3>1, Least
    <3>3. QED
      BY <3>1, <3>2
  <2> HIDE DEF n
  <2>3. page' \in Seq(Nat) /\ Len(page') = n /\ \A i \in 1..n : page'[i] = at + i
    BY <1>0, <2>1, <2>2
  <2>4. at' = at + n
    <3>1. CASE n = 0
      <4>1. page' = <<>>
        BY <2>3, <3>1, EmptySeq
      <4>2. QED
        BY <1>0, <2>1, <3>1, <4>1 DEF NextRevision
    <3>2. CASE n # 0
      <4>1. n \in 1..n
        BY <2>2, <3>2
      <4>2. page' # <<>> /\ Last(page') = at + n
        BY <2>3, <3>2, <4>1, EmptySeq DEF Last
      <4>3. QED
        BY <2>1, <4>2 DEF NextRevision
    <3>3. QED
      BY <3>1, <3>2
  <2>5. Len(page) = 0
    BY <2>1, EmptySeq
  <2>6. Followed = at /\ Followed' = at
    BY <1>0, <2>2, <2>3, <2>4, <2>5 DEF Followed
  <2>7. at' \in Nat /\ at' <= Len(changes) /\ saved <= at
    BY <1>0, <2>1, <2>2, <2>4
  <2>8. \A r \in RecordIds :
         (\A i \in (at + 1)..Len(changes) : changes[i].record # r) => mirror[r] = claims[r]
    BY <1>0, <2>6 DEF JobIs
  <2>9. QED
    BY <1>0, <2>1, <2>3, <2>6, <2>7, <2>8 DEF JobIs
<1>8. CASE Follow
  <2> DEFINE n == Head(page)
             q == changes[n].record
  <2>1. /\ page # <<>> /\ page' = Tail(page) /\ mirror' = [mirror EXCEPT ![q] = claims[q]]
        /\ UNCHANGED <<claims, changes, saved, at>>
    BY <1>8 DEF Follow
  <2>2. /\ Tail(page) \in Seq(Nat) /\ Len(Tail(page)) = Len(page) - 1
        /\ \A i \in 1..Len(Tail(page)) : Tail(page)[i] = page[i + 1]
        /\ Head(page) = page[1]
    BY <1>0, <2>1, HeadTailProperties
  <2>3. Len(Tail(page)) \in Nat
    BY <2>2, LenProperties
  <2>4. Len(page) >= 1
    BY <1>0, <2>2, <2>3
  <2>5. n = Followed + 1 /\ n \in 1..Len(changes)
    <3>1. 1 \in 1..Len(page)
      BY <1>0, <2>4
    <3>2. n = Followed + 1
      BY <1>0, <2>2, <3>1
    <3>3. QED
      BY <1>0, <2>4, <3>2
  <2>6. Followed' = Followed + 1
    BY <1>0, <2>1, <2>2 DEF Followed
  <2>7. changes[n].record \in RecordIds /\ DOMAIN mirror = RecordIds
    <3>1. changes \in Seq(Changes) /\ DOMAIN mirror = RecordIds
      BY TypedIs
    <3>2. changes[n] \in Changes
      BY <2>5, <3>1, ElementOfSeq
    <3>3. QED
      BY <3>1, <3>2 DEF Changes
  <2> HIDE DEF n
  <2>8. ASSUME NEW r \in RecordIds, \A i \in (Followed + 2)..Len(changes) : changes[i].record # r
        PROVE  mirror'[r] = claims[r]
    <3>1. CASE r = q
      BY <2>1, <2>7, <3>1
    <3>2. CASE r # q
      <4>1. \A i \in (Followed + 1)..Len(changes) : changes[i].record # r
        <5> SUFFICES ASSUME NEW i \in (Followed + 1)..Len(changes) PROVE changes[i].record # r
          OBVIOUS
        <5>1. i = Followed + 1 \/ i \in (Followed + 2)..Len(changes)
          BY <1>0
        <5>2. QED
          BY <2>5, <2>8, <3>2, <5>1
      <4>2. mirror[r] = claims[r]
        BY <1>0, <4>1 DEF JobIs
      <4>3. QED
        BY <2>1, <3>2, <4>2
    <3>3. QED
      BY <3>1, <3>2
  <2>9. \A i \in 1..Len(page') : page'[i] = Followed' + i
    <3> SUFFICES ASSUME NEW i \in 1..Len(page') PROVE page'[i] = Followed' + i
      OBVIOUS
    <3>1. i \in 1..Len(Tail(page)) /\ i \in Nat
      BY <2>1, <2>3
    <3>2. page'[i] = page[i + 1] /\ i + 1 \in 1..Len(page)
      BY <1>0, <2>1, <2>2, <3>1
    <3>3. page[i + 1] = Followed + (i + 1)
      BY <1>0, <3>2
    <3>4. QED
      BY <1>0, <2>6, <3>1, <3>2, <3>3
  <2>10. saved' <= Followed' /\ saved' \in Nat /\ at' \in Nat /\ at' <= Len(changes')
    BY <1>0, <2>1, <2>6
  <2>11. \A r \in RecordIds :
          (\A i \in (Followed' + 1)..Len(changes') : changes'[i].record # r) => mirror'[r] = claims'[r]
    <3>1. Followed' + 1 = Followed + 2
      BY <1>0, <2>6
    <3>2. QED
      BY <2>1, <2>8, <3>1
  <2>12. QED
    BY <2>1, <2>2, <2>9, <2>10, <2>11 DEF JobIs
<1>9. CASE Save
  <2>1. page = <<>> /\ saved' = at /\ UNCHANGED <<claims, changes, at, page, mirror>>
    BY <1>9 DEF Save
  <2>2. Followed' = Followed /\ Followed = at
    BY <1>0, <2>1, EmptySeq DEF Followed
  <2>3. saved' <= Followed' /\ saved' \in Nat
    BY <1>0, <2>1, <2>2
  <2>4. QED
    BY <1>0, <2>1, <2>2, <2>3 DEF JobIs
<1>10. CASE Crash
  <2>1. page' = <<>> /\ at' = saved /\ UNCHANGED <<claims, changes, saved, mirror>>
    BY <1>10 DEF Crash
  <2>2. page' \in Seq(Nat) /\ Len(page') = 0
    BY <2>1, EmptySeq
  <2>3. Followed' = saved
    BY <1>0, <2>1, <2>2 DEF Followed
  <2>4. saved <= Len(changes)
    BY <1>0
  <2>5. ASSUME NEW r \in RecordIds, \A i \in (saved + 1)..Len(changes) : changes[i].record # r
        PROVE  mirror[r] = claims[r]
    <3>1. \A i \in (Followed + 1)..Len(changes) : i \in (saved + 1)..Len(changes)
      BY <1>0
    <3>2. QED
      BY <1>0, <2>5, <3>1 DEF JobIs
  <2>6. QED
    BY <1>0, <2>1, <2>2, <2>3, <2>4, <2>5 DEF JobIs
<1>11. CASE ReviewPage
  BY <1>2, <1>11 DEF ReviewPage
<1>12. ASSUME NEW e \in entries, Resolve(e) PROVE JobIs'
  BY <1>2, <1>12 DEF Resolve
<1>13. CASE UNCHANGED claimVars
  BY <1>2, <1>13 DEF claimVars
<1>14. QED
  BY <1>3, <1>4, <1>5, <1>6, <1>7, <1>8, <1>9, <1>10, <1>11, <1>12, <1>13 DEF Next

-----------------------------------------------------------------------------
(* Drafts and their review.                                                *)

\* Entries only ever grow, and are what they were unless drafts are rejected.
LEMMA EntriesGrow ==
  ASSUME [Next]_claimVars
  PROVE  entries \subseteq entries'
<1>1. ASSUME NEW r \in RecordIds, NEW answer \in Answers, Extract(r, answer) PROVE entries' = entries
  BY <1>1 DEF Extract
<1>2. ASSUME NEW r \in RecordIds, StoreUngrounded(r) PROVE entries \subseteq entries'
  BY <1>2 DEF StoreUngrounded, Put
<1>3. ASSUME NEW r \in RecordIds, Export(r) \/ WriteFails(r) \/ DeleteRecord(r) PROVE entries' = entries
  BY <1>3 DEF Export, WriteFails, DeleteRecord
<1>4. CASE FetchPage \/ Follow \/ Save \/ ReviewPage \/ Crash
  BY <1>4 DEF FetchPage, Follow, Save, ReviewPage, Crash
<1>5. ASSUME NEW e \in entries, Resolve(e) PROVE entries' = entries
  BY <1>5 DEF Resolve
<1>6. CASE UNCHANGED claimVars
  BY <1>6 DEF claimVars
<1>7. QED
  BY <1>1, <1>2, <1>3, <1>4, <1>5, <1>6 DEF Next

LEMMA RejectedStep ==
  ASSUME Assumption, Typed, RejectedFirst, [Next]_claimVars
  PROVE  RejectedFirst'
<1>0. /\ entries \subseteq entries' /\ stage \in [RecordIds -> Stages] /\ drafts \in [RecordIds -> Seq(Drafts)]
      /\ \A q \in RecordIds : stage[q] = "writing" => Ungrounded(q) \subseteq entries
  BY EntriesGrow, TypedIs DEF RejectedFirst
<1> SUFFICES ASSUME NEW q \in RecordIds, stage'[q] = "writing"
             PROVE  Ungrounded(q)' \subseteq entries'
  BY DEF RejectedFirst
<1>1. ASSUME stage'[q] = stage[q], drafts'[q] = drafts[q] PROVE Ungrounded(q)' \subseteq entries'
  BY <1>0, <1>1 DEF Ungrounded
<1>2. ASSUME NEW r \in RecordIds, NEW answer \in Answers, Extract(r, answer)
      PROVE  Ungrounded(q)' \subseteq entries'
  <2>1. CASE q # r
    BY <1>0, <1>1, <1>2, <2>1 DEF Extract
  <2>2. CASE q = r
    <3>1. drafts'[r] = answer /\ Grounded(answer) = DOMAIN answer
      BY <1>0, <1>2, <2>2 DEF Extract
    <3>2. \A e \in Range(answer) : e.grounded
      BY <3>1 DEF Grounded, Range
    <3>3. Ungrounded(r)' = {}
      BY <3>1, <3>2 DEF Ungrounded
    <3>4. QED
      BY <2>2, <3>3
  <2>3. QED
    BY <2>1, <2>2
<1>3. ASSUME NEW r \in RecordIds, StoreUngrounded(r) PROVE Ungrounded(q)' \subseteq entries'
  <2>1. CASE q # r
    BY <1>0, <1>1, <1>3, <2>1 DEF StoreUngrounded
  <2>2. CASE q = r
    BY <1>3, <2>2 DEF StoreUngrounded, Put, Ungrounded
  <2>3. QED
    BY <2>1, <2>2
<1>4. ASSUME NEW r \in RecordIds, Export(r) \/ WriteFails(r) PROVE Ungrounded(q)' \subseteq entries'
  <2>1. q # r /\ drafts' = drafts /\ stage' = [stage EXCEPT ![r] = "idle"]
    BY <1>0, <1>4 DEF Export, WriteFails
  <2>2. QED
    BY <1>0, <1>1, <2>1
<1>5. ASSUME NEW r \in RecordIds, DeleteRecord(r) PROVE Ungrounded(q)' \subseteq entries'
  BY <1>1, <1>5 DEF DeleteRecord
<1>6. CASE FetchPage \/ Follow \/ Save \/ ReviewPage
  BY <1>1, <1>6 DEF FetchPage, Follow, Save, ReviewPage
<1>7. ASSUME NEW e \in entries, Resolve(e) PROVE Ungrounded(q)' \subseteq entries'
  BY <1>1, <1>7 DEF Resolve
<1>8. CASE Crash
  BY <1>8 DEF Crash
<1>9. CASE UNCHANGED claimVars
  BY <1>1, <1>9 DEF claimVars
<1>10. QED
  BY <1>2, <1>3, <1>4, <1>5, <1>6, <1>7, <1>8, <1>9 DEF Next

LEMMA DraftsStep ==
  ASSUME Assumption, Typed, RejectedFirst, DraftsAccounted, [Next]_claimVars
  PROVE  DraftsAccounted'
<1>0. /\ entries \subseteq entries' /\ drafts \in [RecordIds -> Seq(Drafts)]
      /\ exported \in [RecordIds -> Seq(Drafts)] /\ DOMAIN claims = RecordIds
      /\ \A q \in RecordIds : stage[q] = "writing" => Ungrounded(q) \subseteq entries
  BY EntriesGrow, TypedIs DEF RejectedFirst
<1> SUFFICES ASSUME NEW q \in RecordIds, NEW d \in Range(exported'[q])
             PROVE  IF d.grounded THEN d.key \in Range(claims'[q]) ELSE EntryOf[<<q, d.key>>] \in entries'
  BY DEF DraftsAccounted
<1> DEFINE Kept == IF d.grounded THEN d.key \in Range(claims'[q]) ELSE EntryOf[<<q, d.key>>] \in entries'
<1>1. ASSUME exported'[q] = exported[q], claims'[q] = claims[q] PROVE Kept
  BY <1>0, <1>1 DEF DraftsAccounted
<1>2. CASE UNCHANGED <<claims, exported>>
  BY <1>1, <1>2
<1>3. ASSUME NEW r \in RecordIds, Export(r) PROVE Kept
  <2> DEFINE keys == UniqueClaims(KeysOf(drafts[r]), Grounded(drafts[r]))
  <2>1. /\ stage[r] = "writing" /\ exported' = [exported EXCEPT ![r] = drafts[r]]
        /\ claims' = [claims EXCEPT ![r] = keys]
    BY <1>3 DEF Export, WriteRecord
  <2>2. CASE q # r
    BY <1>0, <1>1, <2>1, <2>2
  <2>3. CASE q = r
    <3>1. d \in Range(drafts[r]) /\ claims'[q] = keys
      BY <1>0, <2>1, <2>3
    <3>2. d.grounded => d.key \in Range(keys)
      BY <1>0, <3>1, ClaimsOfAnswer
    <3>3. ~d.grounded => EntryOf[<<q, d.key>>] \in entries
      BY <1>0, <2>1, <2>3, <3>1 DEF Ungrounded
    <3>4. QED
      BY <1>0, <3>1, <3>2, <3>3
  <2>4. QED
    BY <2>2, <2>3
<1>4. ASSUME NEW r \in RecordIds, DeleteRecord(r) PROVE Kept
  <2>1. exported' = [exported EXCEPT ![r] = <<>>] /\ claims' = [claims EXCEPT ![r] = <<>>]
    BY <1>4 DEF DeleteRecord, WriteRecord
  <2>2. q # r
    <3>1. Range(<<>>) = {}
      BY EmptySeq DEF Range
    <3>2. QED
      BY <1>0, <2>1, <3>1
  <2>3. QED
    BY <1>0, <1>1, <2>1, <2>2
<1>5. ASSUME NEW r \in RecordIds, NEW answer \in Answers, Extract(r, answer) PROVE Kept
  BY <1>2, <1>5 DEF Extract
<1>6. ASSUME NEW r \in RecordIds, StoreUngrounded(r) \/ WriteFails(r) PROVE Kept
  BY <1>2, <1>6 DEF StoreUngrounded, WriteFails
<1>7. CASE FetchPage \/ Follow \/ Save \/ ReviewPage \/ Crash
  BY <1>2, <1>7 DEF FetchPage, Follow, Save, ReviewPage, Crash
<1>8. ASSUME NEW e \in entries, Resolve(e) PROVE Kept
  BY <1>2, <1>8 DEF Resolve
<1>9. CASE UNCHANGED claimVars
  BY <1>2, <1>9 DEF claimVars
<1>10. QED
  BY <1>3, <1>4, <1>5, <1>6, <1>7, <1>8, <1>9 DEF Next

LEMMA SweepStep ==
  ASSUME Assumption, Typed, SweepAhead, [Next]_claimVars
  PROVE  SweepAhead'
<1>0. entries \subseteq entries' /\ entries \subseteq Nat \ {0}
  BY EntriesGrow, TypedIs
<1>1. ASSUME UNCHANGED <<resolved, sweep, due>> PROVE SweepAhead'
  BY <1>0, <1>1 DEF SweepAhead, Unresolved
<1>2. ASSUME NEW r \in RecordIds, NEW answer \in Answers, Extract(r, answer) PROVE SweepAhead'
  BY <1>1, <1>2 DEF Extract
<1>3. ASSUME NEW r \in RecordIds, StoreUngrounded(r) PROVE SweepAhead'
  BY <1>1, <1>3 DEF StoreUngrounded, Put
<1>4. ASSUME NEW r \in RecordIds, Export(r) \/ WriteFails(r) \/ DeleteRecord(r) PROVE SweepAhead'
  BY <1>1, <1>4 DEF Export, WriteFails, DeleteRecord
<1>5. CASE FetchPage \/ Follow \/ Save
  BY <1>1, <1>5 DEF FetchPage, Follow, Save
<1>6. CASE ReviewPage
  <2> DEFINE left == {e \in Unresolved : e > sweep}
             shown == FirstAfter(sweep)
             before == IF sweep = 0 THEN Unresolved ELSE due
  <2>1. UNCHANGED <<entries, resolved>>
    BY <1>6 DEF ReviewPage
  <2>2. IF shown = {} THEN sweep' = 0 ELSE sweep' = Max(shown) /\ due' = before \ shown
    BY <1>6 DEF ReviewPage
  <2>3. shown # {} => \A e \in left \ shown : e > Max(shown)
    BY PageShown
  <2> HIDE DEF shown
  <2>4. before \subseteq left
    <3>1. CASE sweep = 0
      <4>1. \A e \in entries : e > 0
        BY <1>0
      <4>2. \A e \in Unresolved : e > sweep
        BY <3>1, <4>1 DEF Unresolved
      <4>3. before = Unresolved
        BY <3>1
      <4> HIDE DEF before
      <4>4. QED
        BY <4>2, <4>3
    <3>2. CASE sweep # 0
      BY <3>2 DEF SweepAhead
    <3>3. QED
      BY <3>1, <3>2
  <2>5. Unresolved' = Unresolved /\ left \subseteq Unresolved
    BY <2>1 DEF Unresolved
  <2> HIDE DEF left, shown, before
  <2>6. QED
    BY <2>2, <2>3, <2>4, <2>5 DEF SweepAhead
<1>7. ASSUME NEW e \in entries, Resolve(e) PROVE SweepAhead'
  BY <1>7 DEF Resolve, SweepAhead, Unresolved
<1>8. CASE Crash
  BY <1>8 DEF Crash, SweepAhead
<1>9. CASE UNCHANGED claimVars
  BY <1>1, <1>9 DEF claimVars
<1>10. QED
  BY <1>2, <1>3, <1>4, <1>5, <1>6, <1>7, <1>8, <1>9 DEF Next

\* A decision is recorded with the resolution it makes, and neither is undone.
LEMMA DecidedStep ==
  ASSUME decided \subseteq resolved, [Next]_claimVars
  PROVE  decided' \subseteq resolved'
<1>1. CASE UNCHANGED <<decided, resolved>>
  BY <1>1
<1>2. ASSUME NEW r \in RecordIds, NEW answer \in Answers, Extract(r, answer) PROVE UNCHANGED <<decided, resolved>>
  BY <1>2 DEF Extract
<1>3. ASSUME NEW r \in RecordIds, StoreUngrounded(r) \/ Export(r) \/ WriteFails(r) \/ DeleteRecord(r)
      PROVE  UNCHANGED <<decided, resolved>>
  BY <1>3 DEF StoreUngrounded, Put, Export, WriteFails, DeleteRecord
<1>4. CASE FetchPage \/ Follow \/ Save \/ ReviewPage \/ Crash
  BY <1>4 DEF FetchPage, Follow, Save, ReviewPage, Crash
<1>5. ASSUME NEW e \in entries, Resolve(e) PROVE decided' \subseteq resolved'
  BY <1>5 DEF Resolve
<1>6. CASE UNCHANGED claimVars
  BY <1>6 DEF claimVars
<1>7. QED
  BY <1>1, <1>2, <1>3, <1>4, <1>5, <1>6 DEF Next

-----------------------------------------------------------------------------
(* What the stores promise.                                                *)

LEMMA ClaimsStep == ASSUME Assumption, ClaimsInv, [Next]_claimVars PROVE ClaimsInv'
BY TypedStep, JobStep, RejectedStep, DraftsStep, SweepStep, DecidedStep DEF ClaimsInv

\* From the invariant: a change that lies ahead of the page lies ahead of what the
\* job saved, and a sweep that shows nothing more had nothing left to show.
LEMMA ClaimsInvTells ==
  ASSUME Assumption, ClaimsInv
  PROVE  FeedMissesNothing /\ DraftsAccounted /\ ReviewsKept
<1>1. Typed /\ JobIs /\ SweepAhead /\ DraftsAccounted /\ decided \subseteq resolved
  BY JobAs DEF ClaimsInv
<1>2. FeedMissesNothing
  <2> SUFFICES ASSUME NEW r \in RecordIds, \A i \in (saved + 1)..Len(changes) : changes[i].record # r
               PROVE  mirror[r] = claims[r]
    BY DEF FeedMissesNothing
  <2>1. Len(page) \in Nat /\ Len(changes) \in Nat /\ saved \in Nat /\ at \in Nat
    BY <1>1, TypedIs, LenProperties DEF JobIs
  <2>2. saved <= Followed /\ Followed \in Int
    BY <1>1, <2>1 DEF JobIs, Followed
  <2> HIDE DEF Followed
  <2>3. \A i \in (Followed + 1)..Len(changes) : i \in (saved + 1)..Len(changes)
    BY <2>1, <2>2
  <2>4. QED
    BY <1>1, <2>3 DEF JobIs
<1>3. sweep # 0 /\ FirstAfter(sweep) = {} => due = {}
  <2>1. FirstAfter(sweep) = {} => {e \in Unresolved : e > sweep} = {}
    BY <1>1, PageShown
  <2>2. QED
    BY <1>1, <2>1 DEF SweepAhead
<1>4. QED
  BY <1>1, <1>2, <1>3 DEF ReviewsKept

\* The inductive invariant: where the job, the extractions and the sweep stand
\* against what the two stores hold (storage.py, rejections.py).
THEOREM ClaimsInvariant == ASSUME Assumption PROVE Spec => []ClaimsInv
<1>1. Init => ClaimsInv
  BY ClaimsInit
<1>2. ClaimsInv /\ [Next]_claimVars => ClaimsInv'
  BY ClaimsStep
<1>3. QED
  BY <1>1, <1>2, PTL DEF Spec

\* Whatever fails or crashes, a job that follows the feed misses no change, every
\* draft of an exported record is a claim or waits for review, and no decision of a
\* reviewer is undone or passed over by a sweep.
THEOREM ClaimsAccountedFor ==
  ASSUME Assumption
  PROVE  Spec => [](FeedMissesNothing /\ DraftsAccounted /\ ReviewsKept)
<1>1. ClaimsInv => FeedMissesNothing /\ DraftsAccounted /\ ReviewsKept
  BY ClaimsInvTells
<1>2. QED
  BY <1>1, ClaimsInvariant, PTL
=============================================================================
