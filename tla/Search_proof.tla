---------------------------- MODULE Search_proof ----------------------------
(***************************************************************************)
(* What the text index and the hybrid search promise as parts of Search,   *)
(* for every set of records, documents and stores, every query and filter, *)
(* and every number of writes and failures; that the connection every      *)
(* store shares has one user; and that newest-first runs, whatever they    *)
(* are through, leave nothing unsettled in the gap they jump over.         *)
(***************************************************************************)
EXTENDS Search, SharedConnection, SequencesExt, Functions, FiniteSetTheorems, SequenceTheorems, TLAPS

-----------------------------------------------------------------------------
(* Rankings.                                                               *)

\* What BestFirst needs of the members of a set to order them all.
Orderable(S, score, name) ==
  /\ IsFiniteSet(S)
  /\ \A x \in S : score[x] \in Int /\ name[x] \in Int
  /\ \A x, y \in S : name[x] = name[y] => x = y

Before(S, score, name, x) == {y \in S : ComesBefore(score, name, y, x)}

\* Of two members one comes before the other, and has fewer before it.
LEMMA PlacesDiffer ==
  ASSUME NEW S, NEW score, NEW name, Orderable(S, score, name),
         NEW x \in S, NEW y \in S
  PROVE  /\ x # y => ComesBefore(score, name, x, y) \/ ComesBefore(score, name, y, x)
         /\ ComesBefore(score, name, x, y) =>
              Cardinality(Before(S, score, name, x)) < Cardinality(Before(S, score, name, y))
         /\ Cardinality(Before(S, score, name, x)) \in 0..(Cardinality(S) - 1)
<1> DEFINE B(z) == Before(S, score, name, z)
<1>1. \A z \in S : score[z] \in Int /\ name[z] \in Int
  BY DEF Orderable
<1>2. x # y => ComesBefore(score, name, x, y) \/ ComesBefore(score, name, y, x)
  BY <1>1 DEF Orderable, ComesBefore
<1>3. \A z \in S : IsFiniteSet(B(z)) /\ Cardinality(B(z)) \in Nat /\ B(z) \in SUBSET S
  BY FS_Subset, FS_CardinalityType DEF Orderable, Before
<1>4. ASSUME NEW u \in S, NEW v \in S, NEW w \in S,
             ComesBefore(score, name, u, v), ComesBefore(score, name, v, w)
      PROVE  ComesBefore(score, name, u, w)
  BY <1>1, <1>4 DEF ComesBefore
<1>5. \A z \in S : ~ComesBefore(score, name, z, z)
  BY <1>1 DEF ComesBefore
<1>6. ASSUME ComesBefore(score, name, x, y)
      PROVE  Cardinality(B(x)) < Cardinality(B(y))
  <2>1. B(x) \in SUBSET B(y)
    BY <1>4, <1>6 DEF Before
  <2>2. x \in B(y) /\ x \notin B(x)
    BY <1>5, <1>6 DEF Before
  <2>3. Cardinality(B(x)) <= Cardinality(B(y)) /\ Cardinality(B(x)) # Cardinality(B(y))
    BY <1>3, <2>1, <2>2, FS_Subset
  <2>4. QED
    BY <1>3, <2>3
<1>7. Cardinality(B(x)) \in 0..(Cardinality(S) - 1)
  <2>1. B(x) # S
    BY <1>5 DEF Before
  <2>2. Cardinality(B(x)) <= Cardinality(S) /\ Cardinality(B(x)) # Cardinality(S)
    BY <1>3, <2>1, FS_Subset DEF Orderable
  <2>3. Cardinality(S) \in Nat
    BY FS_CardinalityType DEF Orderable
  <2>4. QED
    BY <1>3, <2>2, <2>3
<1>8. QED
  BY <1>2, <1>6, <1>7

\* Every place is taken.
LEMMA PlacesTaken ==
  ASSUME NEW S, NEW score, NEW name, Orderable(S, score, name),
         NEW n \in 0..(Cardinality(S) - 1)
  PROVE  \E x \in S : Cardinality(Before(S, score, name, x)) = n
<1> DEFINE T == 0..(Cardinality(S) - 1)
           f == [x \in S |-> Cardinality(Before(S, score, name, x))]
<1>1. IsFiniteSet(S) /\ Cardinality(S) \in Nat
  BY FS_CardinalityType DEF Orderable
<1>2. IsFiniteSet(T) /\ Cardinality(T) = Cardinality(S)
  <2>1. 0 \in Int /\ Cardinality(S) - 1 \in Int
    BY <1>1
  <2>2. IsFiniteSet(T) /\ Cardinality(T) = IF 0 > Cardinality(S) - 1 THEN 0 ELSE Cardinality(S) - 1 - 0 + 1
    BY <2>1, FS_Interval
  <2>3. QED
    BY <1>1, <2>2
<1>3. f \in [S -> T]
  BY PlacesDiffer
<1>4. ASSUME NEW x \in S, NEW y \in S, f[x] = f[y] PROVE x = y
  <2>1. f[x] \in Int /\ f[y] \in Int
    BY <1>3
  <2>2. ~(f[x] < f[y]) /\ ~(f[y] < f[x])
    BY <1>4, <2>1
  <2>3. QED
    BY <2>2, PlacesDiffer
<1> HIDE DEF T
<1>5. f \in Injection(S, T)
  BY <1>3, <1>4 DEF Injection, IsInjective
<1>6. f \in Surjection(S, T)
  BY <1>1, <1>2, <1>5, FS_Injection
<1>7. \E x \in S : f[x] = n
  BY <1>6 DEF Surjection, T
<1>8. QED
  BY <1>7

\* BestFirst lists the members of S, each once and each after those before it.
Lists(b, S, score, name) ==
  /\ b \in Seq(S) /\ Len(b) = Cardinality(S) /\ DOMAIN b = 1..Cardinality(S)
  /\ \A x \in S : \E i \in DOMAIN b : b[i] = x
  /\ \A i, j \in DOMAIN b : i < j <=> ComesBefore(score, name, b[i], b[j])
  /\ \A i, j \in DOMAIN b : b[i] = b[j] => i = j

LEMMA BestFirstLists ==
  ASSUME NEW S, NEW score, NEW name, Orderable(S, score, name)
  PROVE  /\ Lists(BestFirst(S, score, name), S, score, name)
         /\ \A i \in 1..Cardinality(S) :
              Cardinality(Before(S, score, name, BestFirst(S, score, name)[i])) = i - 1
<1> DEFINE b == BestFirst(S, score, name)
           c(x) == Cardinality(Before(S, score, name, x))
           n == Cardinality(S)
<1>1. n \in Nat
  BY FS_CardinalityType DEF Orderable
<1>2. \A i \in 1..n : b[i] \in S /\ c(b[i]) = i - 1
  <2> TAKE i \in 1..n
  <2>1. i - 1 \in 0..(n - 1)
    BY <1>1
  <2>2. \E x \in S : c(x) = i - 1
    BY <2>1, PlacesTaken
  <2>3. b[i] = CHOOSE x \in S : c(x) = i - 1
    BY DEF BestFirst, Before
  <2>4. QED
    BY <2>2, <2>3
<1>3. b = [i \in 1..n |-> b[i]]
  <2> DEFINE Placed(i) == CHOOSE x \in S : Cardinality({y \in S : ComesBefore(score, name, y, x)}) = i - 1
  <2>1. b = [i \in 1..n |-> Placed(i)]
    BY Zenon DEF BestFirst
  <2> HIDE DEF Placed, b, n
  <2>2. QED
    BY <2>1
<1> HIDE DEF b
<1>4. b \in Seq(S) /\ Len(b) = n /\ DOMAIN b = 1..n
  <2>1. b \in [1..n -> S]
    BY <1>2, <1>3
  <2>2. QED
    BY <1>1, <2>1
<1>5. \A x, y \in S : c(x) = c(y) => x = y
  <2> TAKE x, y \in S
  <2> HAVE c(x) = c(y)
  <2>1. c(x) \in Int /\ c(y) \in Int
    BY PlacesDiffer
  <2>2. ~(c(x) < c(y)) /\ ~(c(y) < c(x))
    BY <2>1
  <2>3. QED
    BY <2>2, PlacesDiffer
<1>6. \A x \in S : \E i \in DOMAIN b : b[i] = x
  <2> TAKE x \in S
  <2>1. c(x) \in 0..(n - 1)
    BY PlacesDiffer
  <2> HIDE DEF c
  <2>2. PICK i \in 1..n : c(x) = i - 1
    BY <1>1, <2>1
  <2>3. c(b[i]) = c(x) /\ b[i] \in S
    BY <1>2, <2>2
  <2>4. b[i] = x
    BY <1>5, <2>3
  <2>5. QED
    BY <1>4, <2>4
<1>7. \A i, j \in DOMAIN b : b[i] = b[j] => i = j
  BY <1>2, <1>4
<1>8. \A i, j \in DOMAIN b : i < j <=> ComesBefore(score, name, b[i], b[j])
  <2> TAKE i, j \in DOMAIN b
  <2>1. i \in Int /\ j \in Int /\ b[i] \in S /\ b[j] \in S /\ c(b[i]) = i - 1 /\ c(b[j]) = j - 1
    BY <1>2, <1>4
  <2>2. ComesBefore(score, name, b[i], b[j]) => i < j
    <3>1. ComesBefore(score, name, b[i], b[j]) => c(b[i]) < c(b[j])
      BY <2>1, PlacesDiffer
    <3>2. QED
      BY <2>1, <3>1
  <2>3. ASSUME i < j PROVE ComesBefore(score, name, b[i], b[j])
    <3>1. b[i] # b[j]
      BY <1>7, <2>1, <2>3
    <3>2. ~ComesBefore(score, name, b[j], b[i])
      <4>1. ComesBefore(score, name, b[j], b[i]) => c(b[j]) < c(b[i])
        BY <2>1, PlacesDiffer
      <4>2. QED
        BY <2>1, <2>3, <4>1
    <3>3. QED
      BY <2>1, <3>1, <3>2, PlacesDiffer
  <2>4. QED
    BY <2>2, <2>3
<1>9. QED
  BY <1>2, <1>4, <1>6, <1>7, <1>8 DEF Lists, b

\* There is only one such list.
LEMMA OneListing ==
  ASSUME NEW S, NEW score, NEW name, Orderable(S, score, name),
         NEW s, Lists(s, S, score, name)
  PROVE  s = BestFirst(S, score, name)
<1> DEFINE b == BestFirst(S, score, name)
           c(x) == Cardinality(Before(S, score, name, x))
           n == Cardinality(S)
<1>1. n \in Nat /\ s \in Seq(S) /\ Len(s) = n /\ DOMAIN s = 1..n
  BY FS_CardinalityType DEF Orderable, Lists
<1>2. Lists(b, S, score, name) /\ \A i \in 1..n : c(b[i]) = i - 1
  BY BestFirstLists
<1>3. ASSUME NEW i \in 1..n PROVE s[i] \in S /\ c(s[i]) = i - 1
  <2> DEFINE I == 1..(i - 1)
             f == [j \in I |-> s[j]]
  <2>1. i \in Int /\ s[i] \in S
    BY <1>1, <1>3, ElementOfSeq
  <2>2. IsFiniteSet(I) /\ Cardinality(I) = i - 1
    BY <2>1, <1>3, FS_Interval
  <2>3. \A j \in I : j \in 1..n /\ j < i
    BY <1>1, <1>3
  <2>4. f \in [I -> Before(S, score, name, s[i])]
    BY <1>1, <1>3, <2>3, ElementOfSeq DEF Lists, Before
  <2>5. \A j, k \in I : f[j] = f[k] => j = k
    BY <1>1, <2>3 DEF Lists
  <2>6. \A y \in Before(S, score, name, s[i]) : \E j \in I : f[j] = y
    <3> TAKE y \in Before(S, score, name, s[i])
    <3>1. PICK j \in 1..n : s[j] = y
      BY <1>1 DEF Before, Lists
    <3>2. j < i
      BY <1>1, <1>3, <3>1 DEF Before, Lists
    <3>3. j \in I
      BY <1>3, <2>1, <3>1, <3>2
    <3>4. QED
      BY <3>1, <3>3
  <2> HIDE DEF I
  <2>7. f \in Bijection(I, Before(S, score, name, s[i]))
    BY <2>4, <2>5, <2>6 DEF Bijection, Injection, IsInjective, Surjection
  <2>8. QED
    BY <2>1, <2>2, <2>7, FS_Bijection DEF ExistsBijection
<1>4. ASSUME NEW i \in 1..n PROVE s[i] = b[i]
  <2>1. b[i] \in S /\ c(b[i]) = i - 1 /\ i - 1 \in Int
    BY <1>1, <1>2, ElementOfSeq DEF Lists
  <2>2. ~(c(s[i]) < c(b[i])) /\ ~(c(b[i]) < c(s[i]))
    BY <1>3, <2>1
  <2>3. QED
    BY <1>3, <2>1, <2>2, PlacesDiffer
<1>5. QED
  <2>1. b \in Seq(S) /\ Len(b) = n
    BY <1>2 DEF Lists
  <2>2. QED
    BY <1>1, <1>4, <2>1, SeqEqual

\* Where a listing ends early: the members before its cut are the best of S.
LEMMA BestOfPart ==
  ASSUME NEW S, NEW score, NEW name, Orderable(S, score, name), NEW T \in SUBSET S,
         \A x \in T, y \in S : ComesBefore(score, name, y, x) => y \in T
  PROVE  /\ Orderable(T, score, name) /\ Cardinality(T) \in Nat /\ Cardinality(T) <= Cardinality(S)
         /\ \A i \in 1..Cardinality(T) :
              BestFirst(T, score, name)[i] = BestFirst(S, score, name)[i]
<1>1. Orderable(T, score, name) /\ Cardinality(T) <= Cardinality(S)
  BY FS_Subset DEF Orderable
<1>2. Cardinality(T) \in Nat /\ Cardinality(S) \in Nat
  BY <1>1, FS_CardinalityType DEF Orderable
<1>3. ASSUME NEW i \in 1..Cardinality(T)
      PROVE  BestFirst(T, score, name)[i] = BestFirst(S, score, name)[i]
  <2> DEFINE x == BestFirst(T, score, name)[i]
             z == BestFirst(S, score, name)[i]
  <2>1. i \in 1..Cardinality(S)
    BY <1>1, <1>2
  <2>2. x \in T /\ Cardinality(Before(T, score, name, x)) = i - 1
    BY <1>1, BestFirstLists, ElementOfSeq DEF Lists
  <2>3. z \in S /\ Cardinality(Before(S, score, name, z)) = i - 1
    BY <2>1, BestFirstLists, ElementOfSeq DEF Lists
  <2>4. Before(T, score, name, x) = Before(S, score, name, x)
    BY <2>2 DEF Before
  <2> HIDE DEF x, z
  <2>5. /\ ~(Cardinality(Before(S, score, name, x)) < Cardinality(Before(S, score, name, z)))
        /\ ~(Cardinality(Before(S, score, name, z)) < Cardinality(Before(S, score, name, x)))
    BY <2>2, <2>3, <2>4
  <2>6. QED
    BY <2>2, <2>3, <2>5, PlacesDiffer DEF x, z
<1>4. QED
  BY <1>1, <1>2, <1>3

\* A finite set of numbers has a largest and a smallest one.
LEMMA Extremes ==
  ASSUME NEW S \in SUBSET Int, IsFiniteSet(S), S # {}
  PROVE  /\ Max(S) \in S /\ \A n \in S : n <= Max(S)
         /\ Min(S) \in S /\ \A n \in S : Min(S) <= n
<1> DEFINE id == [n \in S |-> n]
           zero == [n \in S |-> 0]
<1>1. Orderable(S, id, id) /\ Orderable(S, zero, id)
  BY DEF Orderable
<1>2. Cardinality(S) \in Nat /\ Cardinality(S) # 0
  BY FS_CardinalityType, FS_EmptySet
<1>3. 0 \in 0..(Cardinality(S) - 1)
  BY <1>2
<1> HIDE DEF id, zero
<1>4. ASSUME NEW score, Orderable(S, score, id)
      PROVE  \E x \in S : \A y \in S : ~ComesBefore(score, id, y, x)
  <2>1. PICK x \in S : Cardinality(Before(S, score, id, x)) = 0
    BY <1>3, <1>4, PlacesTaken
  <2>2. IsFiniteSet(Before(S, score, id, x))
    BY FS_Subset DEF Before
  <2>3. Before(S, score, id, x) = {}
    BY <2>1, <2>2, FS_EmptySet
  <2>4. QED
    BY <2>3 DEF Before
<1>5. \E x \in S : \A y \in S : x >= y
  <2>1. PICK x \in S : \A y \in S : ~ComesBefore(id, id, y, x)
    BY <1>1, <1>4
  <2>2. QED
    BY <2>1 DEF ComesBefore, id
<1>6. \E x \in S : \A y \in S : x =< y
  <2>1. PICK x \in S : \A y \in S : ~ComesBefore(zero, id, y, x)
    BY <1>1, <1>4
  <2>2. \A y \in S : zero[y] = 0 /\ id[y] = y
    BY DEF zero, id
  <2>3. QED
    BY <2>1, <2>2 DEF ComesBefore
<1>7. \A x, y \in S : x >= y <=> y <= x
  OBVIOUS
<1>8. Max(S) \in S /\ \A y \in S : Max(S) >= y
  BY <1>5 DEF Max
<1>9. Min(S) \in S /\ \A y \in S : Min(S) =< y
  BY <1>6 DEF Min
<1>10. QED
  BY <1>7, <1>8, <1>9

LEMMA LesserOf == \A m, n \in Int : Min({m, n}) = IF m <= n THEN m ELSE n
<1> TAKE m, n \in Int
<1>1. {m, n} \in SUBSET Int /\ {m, n} # {} /\ IsFiniteSet({m, n})
  <2>1. IsFiniteSet({m} \union {n})
    BY FS_Singleton, FS_Union
  <2>2. {m, n} = {m} \union {n}
    OBVIOUS
  <2>3. QED
    BY <2>1, <2>2
<1>2. Min({m, n}) \in {m, n} /\ Min({m, n}) <= m /\ Min({m, n}) <= n
  BY <1>1, Extremes
<1>3. QED
  BY <1>2

\* The first n of a ranking.
LEMMA TopIs ==
  ASSUME NEW S, NEW s \in Seq(S), NEW n \in Nat
  PROVE  /\ Top(s, n) \in Seq(S)
         /\ Len(Top(s, n)) = (IF n <= Len(s) THEN n ELSE Len(s))
         /\ DOMAIN Top(s, n) = 1..Len(Top(s, n))
         /\ \A i \in 1..Len(Top(s, n)) : i \in DOMAIN s /\ Top(s, n)[i] = s[i]
<1> DEFINE k == IF n <= Len(s) THEN n ELSE Len(s)
<1>1. Len(s) \in Nat /\ DOMAIN s = 1..Len(s)
  BY LenProperties
<1>2. Top(s, n) = SubSeq(s, 1, k)
  BY <1>1, LesserOf DEF Top
<1>3. k \in Nat /\ k <= Len(s)
  BY <1>1
<1> HIDE DEF k
<1>4. \A i \in 1..k : i \in DOMAIN s /\ s[i] \in S /\ 1 + i - 1 = i
  BY <1>1, <1>3, ElementOfSeq
<1>5. /\ SubSeq(s, 1, k) \in Seq(S)
      /\ Len(SubSeq(s, 1, k)) = IF 1 <= k THEN k - 1 + 1 ELSE 0
      /\ \A i \in 1..(k - 1 + 1) : SubSeq(s, 1, k)[i] = s[1 + i - 1]
  BY <1>3, <1>4, SubSeqProperties
<1>6. Len(SubSeq(s, 1, k)) = k /\ k - 1 + 1 = k
  BY <1>3, <1>5
<1>7. \A i \in 1..k : SubSeq(s, 1, k)[i] = s[i]
  BY <1>4, <1>5, <1>6
<1>8. DOMAIN SubSeq(s, 1, k) = 1..k
  BY <1>5, <1>6, LenProperties
<1>9. QED
  BY <1>2, <1>4, <1>5, <1>6, <1>7, <1>8 DEF k

-----------------------------------------------------------------------------
(* Fusion.                                                                 *)

\* The instances' library operators are the library's.
LEMMA HybridNames ==
  /\ \A S : Hybrid!Cardinality(S) = Cardinality(S)
  /\ \A S : Hybrid!IsFiniteSet(S) = IsFiniteSet(S)
  /\ \A S : Hybrid!Min(S) = Min(S) /\ Hybrid!Max(S) = Max(S)
  /\ \A S, score, name : Hybrid!BestFirst(S, score, name) = BestFirst(S, score, name)
  /\ \A s, n : Hybrid!Top(s, n) = Top(s, n)
  /\ \A s : Hybrid!Ids(s) = {s[i] : i \in DOMAIN s}
<1>1. \A S : Hybrid!IsFiniteSet(S) = IsFiniteSet(S)
  BY DEF Hybrid!IsFiniteSet, IsFiniteSet
<1>2. \A S : Hybrid!Cardinality(S) = Cardinality(S)
  BY DEF Hybrid!Cardinality, Cardinality
<1>3. \A S : Hybrid!Min(S) = Min(S) /\ Hybrid!Max(S) = Max(S)
  BY DEF Hybrid!Min, Min, Hybrid!Max, Max
<1>4. \A S, score, name : Hybrid!BestFirst(S, score, name) = BestFirst(S, score, name)
  BY DEF Hybrid!BestFirst, BestFirst, Hybrid!ComesBefore, ComesBefore,
         Hybrid!Cardinality, Cardinality, Hybrid!IsFiniteSet, IsFiniteSet
<1>5. \A s, n : Hybrid!Top(s, n) = Top(s, n)
  BY <1>3 DEF Hybrid!Top, Top
<1>6. \A s : Hybrid!Ids(s) = {s[i] : i \in DOMAIN s}
  BY DEF Hybrid!Ids, Hybrid!ToSet
<1>7. QED
  BY <1>1, <1>2, <1>3, <1>4, <1>5, <1>6

\* A ranking a leg may give.
Legal(s) ==
  /\ s \in Seq(Nat) /\ Len(s) <= Pool
  /\ \A i, j \in DOMAIN s : s[i] = s[j] => i = j

LEMMA LegalIds ==
  ASSUME NEW s, Legal(s)
  PROVE  /\ Len(s) \in Nat /\ DOMAIN s = 1..Len(s)
         /\ Hybrid!Ids(s) = {s[i] : i \in 1..Len(s)} /\ Hybrid!Ids(s) \in SUBSET Nat
         /\ IsFiniteSet(Hybrid!Ids(s)) /\ Cardinality(Hybrid!Ids(s)) = Len(s)
<1> DEFINE I == 1..Len(s)
           f == [i \in I |-> s[i]]
<1>1. Len(s) \in Nat /\ DOMAIN s = I
  BY LenProperties DEF Legal
<1>2. Hybrid!Ids(s) = {s[i] : i \in I}
  BY <1>1, HybridNames
<1>3. Hybrid!Ids(s) \in SUBSET Nat
  BY <1>2, ElementOfSeq DEF Legal
<1>4. IsFiniteSet(I) /\ Cardinality(I) = Len(s)
  <2>1. IsFiniteSet(I) /\ Cardinality(I) = IF 1 > Len(s) THEN 0 ELSE Len(s) - 1 + 1
    BY <1>1, FS_Interval
  <2>2. QED
    BY <1>1, <2>1
<1>5. f \in [I -> Hybrid!Ids(s)] /\ \A x \in Hybrid!Ids(s) : \E i \in I : f[i] = x
  BY <1>2
<1>6. \A i, j \in I : f[i] = f[j] => i = j
  BY <1>1 DEF Legal
<1> HIDE DEF I
<1>7. f \in Bijection(I, Hybrid!Ids(s))
  BY <1>5, <1>6 DEF Bijection, Injection, IsInjective, Surjection
<1>8. IsFiniteSet(Hybrid!Ids(s)) /\ Cardinality(Hybrid!Ids(s)) = Len(s)
  BY <1>4, <1>7, FS_Bijection DEF ExistsBijection
<1>9. QED
  BY <1>1, <1>2, <1>3, <1>8 DEF I

LEMMA RankIs ==
  ASSUME NEW s, Legal(s)
  PROVE  /\ \A r : Hybrid!RankIn(s, r) \in 0..Len(s)
         /\ \A r : r \notin Hybrid!Ids(s) => Hybrid!RankIn(s, r) = 0
         /\ \A i \in 1..Len(s) : Hybrid!RankIn(s, s[i]) = i
<1> DEFINE I(r) == {i \in 1..Len(s) : s[i] = r}
<1>1. /\ Len(s) \in Nat /\ DOMAIN s = 1..Len(s)
      /\ Hybrid!Ids(s) = {s[i] : i \in 1..Len(s)}
  BY LegalIds
<1>2. \A r : Hybrid!RankIn(s, r) = IF I(r) # {} THEN Min(I(r)) ELSE 0
  BY HybridNames DEF Hybrid!RankIn, Hybrid!SelectInSeq
<1>3. ASSUME NEW r, I(r) # {} PROVE Min(I(r)) \in I(r)
  <2>1. I(r) \in SUBSET Int /\ IsFiniteSet(1..Len(s)) /\ I(r) \in SUBSET (1..Len(s))
    BY <1>1, FS_Interval
  <2>2. IsFiniteSet(I(r))
    BY <2>1, FS_Subset
  <2> HIDE DEF I
  <2>3. QED
    BY <1>3, <2>1, <2>2, Extremes
<1>4. ASSUME NEW r PROVE Hybrid!RankIn(s, r) \in 0..Len(s)
  <2> HIDE DEF I
  <2>1. CASE I(r) = {}
    BY <1>1, <1>2, <2>1
  <2>2. CASE I(r) # {}
    <3>1. Min(I(r)) \in 1..Len(s) /\ Hybrid!RankIn(s, r) = Min(I(r))
      BY <1>2, <1>3, <2>2 DEF I
    <3>2. QED
      BY <1>1, <3>1
  <2>3. QED
    BY <2>1, <2>2
<1>5. \A r : r \notin Hybrid!Ids(s) => Hybrid!RankIn(s, r) = 0
  BY <1>1, <1>2
<1>6. ASSUME NEW i \in 1..Len(s) PROVE Hybrid!RankIn(s, s[i]) = i
  <2>1. I(s[i]) = {i}
    BY <1>1, <1>6 DEF Legal
  <2>2. Min(I(s[i])) \in I(s[i]) /\ Hybrid!RankIn(s, s[i]) = Min(I(s[i]))
    BY <1>2, <1>3, <2>1
  <2>3. QED
    BY <2>1, <2>2
<1>7. QED
  BY <1>4, <1>5, <1>6

\* A larger divisor leaves a smaller share.
LEMMA SharesFall ==
  ASSUME NEW a \in Nat \ {0}, NEW b \in Nat \ {0}, NEW n \in Nat \ {0},
         n % a = 0, n % b = 0, a < b
  PROVE  n \div a > n \div b
<1>1. n \div a \in Int /\ n \div b \in Int
  OBVIOUS
<1>2. n = a * (n \div a) /\ n = b * (n \div b)
  <2>1. n = a * (n \div a) + (n % a)
    OBVIOUS
  <2>2. n = b * (n \div b) + (n % b)
    OBVIOUS
  <2>3. QED
    BY <1>1, <2>1, <2>2
<1>3. ASSUME NEW x \in Int, NEW y \in Int, n = a * x, n = b * y PROVE x > y
  <2>1. y > 0
    <3>1. ASSUME y = 0 PROVE FALSE
      BY <1>3, <3>1
    <3>2. ASSUME y < 0 PROVE FALSE
      <4>1. b * y <= 0
        BY <3>2
      <4>2. QED
        BY <1>3, <4>1
    <3>3. QED
      BY <3>1, <3>2
  <2>2. ASSUME x <= y PROVE FALSE
    <3>1. a * x <= a * y
      BY <2>2
    <3>2. a * y < b * y
      BY <2>1
    <3>3. a * x \in Int /\ a * y \in Int /\ b * y \in Int
      OBVIOUS
    <3>4. QED
      BY <1>3, <3>1, <3>2, <3>3
  <2>3. QED
    BY <2>2
<1>4. QED
  BY <1>1, <1>2, <1>3

LEMMA ShareIsSome ==
  ASSUME NEW a \in Nat \ {0}, NEW n \in Nat \ {0}, n % a = 0
  PROVE  n \div a \in Nat \ {0}
<1>1. n \div a \in Int
  OBVIOUS
<1>2. n = a * (n \div a) + (n % a)
  OBVIOUS
<1>3. n = a * (n \div a)
  BY <1>1, <1>2
<1>4. ASSUME NEW x \in Int, n = a * x PROVE x > 0
  <2>1. ASSUME x = 0 PROVE FALSE
    BY <1>4, <2>1
  <2>2. ASSUME x < 0 PROVE FALSE
    <3>1. a * x <= 0
      BY <2>2
    <3>2. QED
      BY <1>4, <3>1
  <2>3. QED
    BY <2>1, <2>2
<1>5. QED
  BY <1>1, <1>3, <1>4

\* What a leg contributes falls along its ranking.
LEMMA ContributionsFall ==
  ASSUME NEW s, Legal(s)
  PROVE  /\ \A r : Hybrid!Contribution(s, r) \in Nat
         /\ \A r : r \notin Hybrid!Ids(s) => Hybrid!Contribution(s, r) = 0
         /\ \A p, q \in Hybrid!Ids(s) : Hybrid!RankIn(s, p) < Hybrid!RankIn(s, q) =>
              Hybrid!Contribution(s, p) > Hybrid!Contribution(s, q)
<1>1. /\ Pool \in Nat /\ K \in Nat \ {0} /\ Scale \in Nat \ {0}
      /\ \A rank \in 1..Pool : Scale % (K + rank) = 0
  BY HybridAssumption DEF Hybrid!Assumption
<1>2. Len(s) \in Nat /\ Len(s) <= Pool
  BY LegalIds DEF Legal
<1>3. ASSUME NEW r \in Hybrid!Ids(s)
      PROVE  /\ Hybrid!RankIn(s, r) \in 1..Pool
             /\ K + Hybrid!RankIn(s, r) \in Nat \ {0}
             /\ Scale % (K + Hybrid!RankIn(s, r)) = 0
             /\ Hybrid!Contribution(s, r) = Scale \div (K + Hybrid!RankIn(s, r))
  <2>1. PICK i \in 1..Len(s) : r = s[i]
    BY LegalIds
  <2>2. Hybrid!RankIn(s, r) = i
    BY <2>1, RankIs
  <2>3. i \in 1..Pool /\ K + i \in Nat \ {0}
    BY <1>1, <1>2
  <2>4. QED
    BY <1>1, <2>2, <2>3 DEF Hybrid!Contribution
<1>4. \A r : r \notin Hybrid!Ids(s) => Hybrid!Contribution(s, r) = 0
  BY DEF Hybrid!Contribution
<1>5. \A r \in Hybrid!Ids(s) : Hybrid!Contribution(s, r) \in Nat
  BY <1>1, <1>3, ShareIsSome
<1>6. ASSUME NEW p \in Hybrid!Ids(s), NEW q \in Hybrid!Ids(s),
             Hybrid!RankIn(s, p) < Hybrid!RankIn(s, q)
      PROVE  Hybrid!Contribution(s, p) > Hybrid!Contribution(s, q)
  <2>1. K + Hybrid!RankIn(s, p) < K + Hybrid!RankIn(s, q)
    BY <1>1, <1>3, <1>6
  <2>2. QED
    BY <1>1, <1>3, <2>1, SharesFall
<1>7. QED
  BY <1>4, <1>5, <1>6

\* The records of two rankings, by what both contribute to them.
FusedIds(one, other) == Hybrid!Ids(one) \union Hybrid!Ids(other)
FusedScores(one, other) ==
  [r \in FusedIds(one, other) |-> Hybrid!Contribution(one, r) + Hybrid!Contribution(other, r)]
Itself(S) == [r \in S |-> r]

LEMMA FusedIs ==
  ASSUME NEW one, NEW other, Legal(one), Legal(other)
  PROVE  /\ FusedIds(one, other) \in SUBSET Nat
         /\ Orderable(FusedIds(one, other), FusedScores(one, other), Itself(FusedIds(one, other)))
         /\ Lists(Hybrid!Fused(one, other), FusedIds(one, other), FusedScores(one, other),
                  Itself(FusedIds(one, other)))
         /\ Hybrid!Fused(one, other) =
              BestFirst(FusedIds(one, other), FusedScores(one, other), Itself(FusedIds(one, other)))
<1> DEFINE U == FusedIds(one, other)
<1>1. U \in SUBSET Nat /\ IsFiniteSet(U)
  BY LegalIds, FS_Union DEF FusedIds
<1>2. ASSUME NEW r \in U
      PROVE  FusedScores(one, other)[r] \in Int /\ Itself(U)[r] = r /\ Itself(U)[r] \in Int
  <2>1. Hybrid!Contribution(one, r) \in Nat /\ Hybrid!Contribution(other, r) \in Nat
    BY ContributionsFall
  <2>2. QED
    BY <1>1, <2>1 DEF FusedScores, Itself
<1>3. Orderable(U, FusedScores(one, other), Itself(U))
  BY <1>1, <1>2 DEF Orderable
<1>4. Hybrid!Fused(one, other) = BestFirst(U, FusedScores(one, other), Itself(U))
  BY HybridNames DEF Hybrid!Fused, Hybrid!ByScore, FusedIds, FusedScores, Itself
<1>5. QED
  BY <1>1, <1>3, <1>4, BestFirstLists

\* The part of a ranking that is among some ids is a ranking of them.
LEMMA AmongIs ==
  ASSUME NEW s, Legal(s), NEW ids
  PROVE  Legal(Hybrid!Among(s, ids)) /\ Hybrid!Ids(Hybrid!Among(s, ids)) \subseteq ids
<1> DEFINE S == Hybrid!Ids(s) \intersect ids
           score == [r \in S |-> 0 - Hybrid!RankIn(s, r)]
           b == BestFirst(S, score, Itself(S))
<1>1. Len(s) \in Nat /\ IsFiniteSet(S) /\ S \in SUBSET Nat /\ Cardinality(S) <= Len(s)
  BY LegalIds, FS_Intersection
<1>2. \A r \in S : score[r] \in Int /\ Itself(S)[r] = r /\ Itself(S)[r] \in Int
  <2> TAKE r \in S
  <2>1. Hybrid!RankIn(s, r) \in Int
    BY <1>1, RankIs
  <2>2. QED
    BY <1>1, <2>1 DEF Itself
<1>3. Hybrid!Among(s, ids) = b
  BY HybridNames DEF Hybrid!Among, Hybrid!ByScore, Itself
<1> HIDE DEF S, score
<1>4. Orderable(S, score, Itself(S))
  BY <1>1, <1>2 DEF Orderable
<1>5. Lists(b, S, score, Itself(S))
  BY <1>4, BestFirstLists
<1> HIDE DEF b
<1>6. b \in Seq(Nat) /\ Len(b) = Cardinality(S) /\ DOMAIN b = 1..Cardinality(S)
  BY <1>1, <1>5, SeqMonotonic DEF Lists
<1>7. Cardinality(S) \in Nat /\ Pool \in Nat
  BY <1>1, FS_CardinalityType, HybridAssumption DEF Hybrid!Assumption
<1>8. Legal(b)
  BY <1>1, <1>5, <1>6, <1>7 DEF Legal, Lists
<1>9. Hybrid!Ids(b) \subseteq S
  <2>1. \A i \in DOMAIN b : b[i] \in S
    BY <1>5, ElementOfSeq DEF Lists
  <2>2. QED
    BY <2>1, HybridNames
<1>10. QED
  BY <1>3, <1>8, <1>9 DEF S

\* The first Pool of a listing are a ranking a leg may give.
LEMMA TopIsLegal ==
  ASSUME NEW S \in SUBSET Nat, NEW score, NEW name, NEW b, Lists(b, S, score, name)
  PROVE  Legal(Top(b, Pool)) /\ Hybrid!Ids(Top(b, Pool)) \subseteq S
<1> DEFINE t == Top(b, Pool)
<1>1. Pool \in Nat
  BY HybridAssumption DEF Hybrid!Assumption
<1>2. b \in Seq(S) /\ Len(b) \in Nat
  BY LenProperties DEF Lists
<1>3. /\ t \in Seq(S) /\ DOMAIN t = 1..Len(t)
      /\ Len(t) = IF Pool <= Len(b) THEN Pool ELSE Len(b)
      /\ \A i \in 1..Len(t) : i \in DOMAIN b /\ t[i] = b[i]
  BY <1>1, <1>2, TopIs
<1> HIDE DEF t
<1>4. t \in Seq(Nat) /\ Len(t) <= Pool
  <2>1. t \in Seq(Nat)
    BY <1>3, SeqMonotonic
  <2>2. Len(t) <= Pool
    BY <1>1, <1>2, <1>3
  <2>3. QED
    BY <2>1, <2>2
<1>5. \A i, j \in DOMAIN t : t[i] = t[j] => i = j
  BY <1>3 DEF Lists
<1>6. \A i \in DOMAIN t : t[i] \in S
  BY <1>3, ElementOfSeq
<1>7. Hybrid!Ids(t) \subseteq S
  BY <1>6, HybridNames
<1>8. QED
  BY <1>4, <1>5, <1>7 DEF Legal, t

-----------------------------------------------------------------------------
(* One hybrid search.                                                      *)

Hits == [record : Nat, lexical : Nat, semantic : Nat, shows : {"bare", "snippet", "header", "passage"}]
Answers == [hits : Seq(Hits), degraded : SUBSET {"semantic"}, skipped : SUBSET {"semantic"}]

HybridTyped ==
  /\ IsFiniteSet(DOMAIN index) /\ DOMAIN index \subseteq RecordIds
  /\ \A r \in DOMAIN index : index[r].score \in Nat
  /\ Legal(lexical.ids) /\ (lexical.is # "ranking" => lexical.ids = <<>>)
  /\ Legal(semantic.ids) /\ (semantic.is # "ranking" => semantic.ids = <<>>)
  /\ phase = "idle" => lexical = Hybrid!Leg("absent") /\ semantic = Hybrid!Leg("absent")

\* The answer is being completed, or was given.
Answering == phase \in {"hydrate", "headers"} \/ Hybrid!IsShown

\* What a leg keeps has passed the filters.
LegsPassed ==
  phase # "idle" =>
    /\ Hybrid!Passing \subseteq passed
    /\ request.filtered => Hybrid!Ids(lexical.ids) \subseteq passed
    /\ request.filtered /\ (phase = "fuse" \/ Answering) => Hybrid!Ids(semantic.ids) \subseteq passed

\* The hits are the best of the fused rankings.
HitsFused ==
  Answering =>
    LET fused == Top(Hybrid!Fused(lexical.ids, semantic.ids), TopK)
    IN /\ outcome \in Answers /\ Len(outcome.hits) = Len(fused)
       /\ \A i \in 1..Len(fused) :
            /\ outcome.hits[i].record = fused[i]
            /\ outcome.hits[i].lexical = Hybrid!RankIn(lexical.ids, fused[i])

\* What the lexical leg found still has its text, unless it was written since.
TextsKept ==
  /\ \A r \in Hybrid!Ids(lexical.ids) : r \in written \/ (r \in DOMAIN index /\ index[r].score > 0)
  /\ phase = "headers" \/ Hybrid!IsShown =>
       \A i \in DOMAIN outcome.hits :
         (outcome.hits[i].lexical > 0 \/ Hybrid!IsShown) /\ outcome.hits[i].shows = "bare" =>
           outcome.hits[i].record \in written

\* A lexical search of an index at rest shows its ranking.
RankingKept ==
  phase # "idle" =>
    /\ written = {} /\ lexical.is = "ranking" => lexical.ids = Hybrid!Rank(request.filtered)
    /\ request.mode = "lexical" => semantic.is = "absent" /\ lexical.is \in {"pending", "failed", "ranking"}
    /\ phase = "filter" => request.mode # "lexical"
    /\ phase \in {"filter", "fuse"} \/ Answering => lexical.is \notin {"pending", "failed"}

HybridInv == HybridTyped /\ LegsPassed /\ HitsFused /\ TextsKept /\ RankingKept

\* The lexical leg ranks matches that pass the filters.
LEMMA RankLegal ==
  ASSUME HybridTyped, NEW filtered
  PROVE  /\ Legal(Hybrid!Rank(filtered))
         /\ \A r \in Hybrid!Ids(Hybrid!Rank(filtered)) :
              r \in DOMAIN index /\ index[r].score > 0 /\ (filtered => index[r].passes)
<1> DEFINE S == {r \in DOMAIN index : index[r].score > 0 /\ (filtered => index[r].passes)}
           score == [r \in S |-> index[r].score]
           b == BestFirst(S, score, Itself(S))
<1>1. RecordIds \subseteq Nat
  BY HybridAssumption DEF Hybrid!Assumption
<1>2. S \in SUBSET Nat /\ IsFiniteSet(S) /\ \A r \in S : r \in Int /\ score[r] \in Int
  <2>1. IsFiniteSet(S)
    BY FS_Subset DEF HybridTyped
  <2>2. S \subseteq Nat
    BY <1>1 DEF HybridTyped
  <2>3. \A r \in S : score[r] = index[r].score /\ index[r].score \in Nat
    BY DEF HybridTyped
  <2> HIDE DEF S, score
  <2>4. QED
    BY <2>1, <2>2, <2>3
<1>3. Orderable(S, score, Itself(S))
  BY <1>2 DEF Orderable, Itself
<1>4. Hybrid!Rank(filtered) = Top(b, Pool)
  BY HybridNames DEF Hybrid!Rank, Hybrid!ByScore, Itself
<1> HIDE DEF S, score
<1>5. Lists(b, S, score, Itself(S))
  BY <1>3, BestFirstLists
<1> HIDE DEF b
<1>6. Legal(Top(b, Pool)) /\ Hybrid!Ids(Top(b, Pool)) \subseteq S
  BY <1>2, <1>5, TopIsLegal
<1>7. QED
  BY <1>4, <1>6 DEF S

\* The semantic leg ranks records of the vector memory.
LEMMA ChunksLegal == Legal(Hybrid!BestChunks)
<1> DEFINE chunks == UNION {{<<r, i>> : i \in DOMAIN Passages[r]} : r \in DOMAIN Passages}
           Nearer(p, q) == \/ Passages[p[1]][p[2]] > Passages[q[1]][q[2]]
                           \/ Passages[p[1]][p[2]] = Passages[q[1]][q[2]]
                              /\ (p[1] < q[1] \/ (p[1] = q[1] /\ p[2] < q[2]))
           near == {c \in chunks : Cardinality({d \in chunks : Nearer(d, c)}) < ChunkPool}
           S == {c[1] : c \in near}
           score == [r \in S |-> Max(Hybrid!Range(Passages[r]))]
           b == BestFirst(S, score, Itself(S))
<1>1. /\ DOMAIN Passages \in SUBSET Nat /\ IsFiniteSet(DOMAIN Passages)
      /\ \A r \in DOMAIN Passages : Passages[r] \in Seq(Int) \ {<<>>}
  BY HybridAssumption, HybridNames DEF Hybrid!Assumption
<1>2. \A c \in near : c[1] \in DOMAIN Passages
  OBVIOUS
<1>3. Hybrid!BestChunks = Top(b, Pool)
  BY HybridNames DEF Hybrid!BestChunks, Hybrid!ByScore, Itself
<1>4. S \in SUBSET DOMAIN Passages
  BY <1>2
<1>5. \A r \in S : score[r] = Max(Hybrid!Range(Passages[r]))
  OBVIOUS
<1> HIDE DEF S, score
<1>6. S \in SUBSET Nat /\ IsFiniteSet(S)
  BY <1>1, <1>4, FS_Subset
<1>7. ASSUME NEW r \in S PROVE score[r] \in Int
  <2> DEFINE s == Passages[r]
             I == 1..Len(s)
             f == [i \in I |-> s[i]]
             T == Hybrid!Range(s)
  <2>1. s \in Seq(Int) /\ s # <<>> /\ Len(s) \in Nat \ {0} /\ DOMAIN s = I
    BY <1>1, <1>4, <1>7, EmptySeq, LenProperties
  <2>2. T = {s[i] : i \in I}
    BY <2>1 DEF Hybrid!Range
  <2>3. T \in SUBSET Int /\ s[1] \in T
    BY <2>1, <2>2, ElementOfSeq
  <2>4. IsFiniteSet(I)
    BY <2>1, FS_Interval
  <2>5. f \in Surjection(I, T)
    BY <2>2 DEF Surjection
  <2>6. IsFiniteSet(T)
    BY <2>4, <2>5, FS_Surjection
  <2> HIDE DEF T
  <2>7. Max(T) \in Int
    BY <2>3, <2>6, Extremes
  <2>8. QED
    BY <1>5, <1>7, <2>7 DEF T
<1>8. Orderable(S, score, Itself(S))
  BY <1>6, <1>7 DEF Orderable, Itself
<1>9. Lists(b, S, score, Itself(S))
  BY <1>8, BestFirstLists
<1> HIDE DEF b
<1>10. QED
  BY <1>3, <1>6, <1>9, TopIsLegal

LEMMA NothingLegal == Legal(<<>>) /\ Hybrid!Ids(<<>>) = {}
<1>1. <<>> \in Seq(Nat) /\ Len(<<>>) = 0 /\ DOMAIN <<>> = {}
  OBVIOUS
<1>2. Pool \in Nat
  BY HybridAssumption DEF Hybrid!Assumption
<1>3. QED
  BY <1>1, <1>2, HybridNames DEF Legal

LEMMA HybridInit == Hybrid!Init => HybridInv
<1> SUFFICES ASSUME Hybrid!Init PROVE HybridInv
  OBVIOUS
<1>1. /\ index \in [RecordIds -> [score : Scores, passes : BOOLEAN]] /\ phase = "idle"
      /\ lexical = Hybrid!Leg("absent") /\ semantic = Hybrid!Leg("absent")
  BY DEF Hybrid!Init
<1>2. lexical.ids = <<>> /\ semantic.ids = <<>>
  BY <1>1 DEF Hybrid!Leg
<1>3. RecordIds \subseteq Nat /\ IsFiniteSet(RecordIds) /\ Scores \subseteq Nat
  BY HybridAssumption, HybridNames DEF Hybrid!Assumption
<1>4. DOMAIN index = RecordIds /\ \A r \in DOMAIN index : index[r].score \in Nat
  BY <1>1, <1>3
<1>5. ~Answering /\ ~Hybrid!IsShown
  BY <1>1 DEF Answering, Hybrid!IsShown
<1>6. HybridTyped
  BY <1>1, <1>2, <1>3, <1>4, NothingLegal DEF HybridTyped
<1>7. QED
  BY <1>1, <1>2, <1>5, <1>6, NothingLegal
     DEF HybridInv, LegsPassed, HitsFused, TextsKept, RankingKept

LEMMA RankSame ==
  ASSUME index' = index, request' = request
  PROVE  Hybrid!Rank(request.filtered)' = Hybrid!Rank(request.filtered)
BY DEF Hybrid!Rank, Hybrid!ByScore

\* Until an answer is being completed nothing is shown.
LEMMA StartKeeps ==
  ASSUME HybridInv, NEW mode \in {"lexical", "semantic", "hybrid"},
         NEW filtered \in BOOLEAN, NEW meaning \in BOOLEAN,
         Hybrid!Start(mode, filtered, meaning)
  PROVE  HybridInv'
<1>1. /\ phase = "idle" /\ request' = [mode |-> mode, filtered |-> filtered, meaning |-> meaning]
      /\ passed' = Hybrid!Passing /\ index' = index /\ written' = written
  BY DEF Hybrid!Start
<1>2. lexical = Hybrid!Leg("absent") /\ semantic = Hybrid!Leg("absent")
  BY <1>1 DEF HybridInv, HybridTyped
<1>3. ~Answering' /\ ~Hybrid!IsShown' /\ phase' \in {"legs", "done"}
  BY DEF Hybrid!Start, Answering, Hybrid!IsShown
<1>4. /\ lexical'.is \in {"absent", "pending"} /\ lexical'.ids = <<>>
      /\ semantic'.is \in {"absent", "pending"} /\ semantic'.ids = <<>>
  BY <1>2 DEF Hybrid!Start, Hybrid!Leg
<1>5. mode = "lexical" => semantic'.is = "absent" /\ lexical'.is = "pending"
  BY <1>2 DEF Hybrid!Start, Hybrid!Leg
<1>6. Hybrid!Passing' = Hybrid!Passing
  BY <1>1 DEF Hybrid!Passing
<1>7. HybridTyped'
  BY <1>1, <1>3, <1>4, NothingLegal DEF HybridInv, HybridTyped
<1>8. QED
  BY <1>1, <1>3, <1>4, <1>5, <1>6, <1>7, NothingLegal
     DEF HybridInv, LegsPassed, HitsFused, TextsKept, RankingKept

LEMMA LexicalKeeps == ASSUME HybridInv, Hybrid!LexicalAnswers PROVE HybridInv'
<1>1. /\ phase = "legs" /\ phase' = "legs" /\ request' = request /\ passed' = passed
      /\ index' = index /\ written' = written /\ semantic' = semantic
      /\ lexical.is = "pending"
  BY DEF Hybrid!LexicalAnswers
<1>2. ~Answering' /\ ~Hybrid!IsShown'
  BY <1>1 DEF Answering, Hybrid!IsShown
<1>3. Hybrid!Passing' = Hybrid!Passing /\ Hybrid!Rank(request.filtered)' = Hybrid!Rank(request.filtered)
  BY <1>1, RankSame DEF Hybrid!Passing
<1>4. CASE lexical' = Hybrid!Leg("failed")
  <2>1. lexical'.is = "failed" /\ lexical'.ids = <<>>
    BY <1>4 DEF Hybrid!Leg
  <2>2. HybridTyped'
    BY <1>1, <2>1, NothingLegal DEF HybridInv, HybridTyped
  <2>3. QED
    BY <1>1, <1>2, <1>3, <2>1, <2>2, NothingLegal
       DEF HybridInv, LegsPassed, HitsFused, TextsKept, RankingKept
<1>5. CASE lexical' = Hybrid!Ranking(Hybrid!Rank(request.filtered))
  <2>1. lexical'.is = "ranking" /\ lexical'.ids = Hybrid!Rank(request.filtered)
    BY <1>5 DEF Hybrid!Ranking
  <2>2. /\ Legal(lexical'.ids)
        /\ \A r \in Hybrid!Ids(lexical'.ids) :
             r \in DOMAIN index /\ index[r].score > 0 /\ (request.filtered => index[r].passes)
    BY <2>1, RankLegal DEF HybridInv
  <2>3. HybridTyped'
    BY <1>1, <2>1, <2>2 DEF HybridInv, HybridTyped
  <2>4. request.filtered => Hybrid!Ids(lexical'.ids) \subseteq Hybrid!Passing
    BY <2>2 DEF Hybrid!Passing
  <2>5. LegsPassed'
    BY <1>1, <1>2, <1>3, <2>4 DEF HybridInv, LegsPassed
  <2>6. TextsKept' /\ HitsFused'
    BY <1>1, <1>2, <2>2 DEF TextsKept, HitsFused
  <2>7. RankingKept'
    BY <1>1, <1>2, <1>3, <2>1 DEF HybridInv, RankingKept
  <2>8. QED
    BY <2>3, <2>5, <2>6, <2>7 DEF HybridInv
<1>6. QED
  BY <1>4, <1>5 DEF Hybrid!LexicalAnswers

LEMMA SemanticKeeps == ASSUME HybridInv, Hybrid!SemanticAnswers PROVE HybridInv'
<1>1. /\ phase = "legs" /\ phase' = "legs" /\ request' = request /\ passed' = passed
      /\ index' = index /\ written' = written /\ lexical' = lexical
      /\ semantic.is = "pending"
  BY DEF Hybrid!SemanticAnswers
<1>2. ~Answering' /\ ~Hybrid!IsShown'
  BY <1>1 DEF Answering, Hybrid!IsShown
<1>3. Hybrid!Passing' = Hybrid!Passing /\ Hybrid!Rank(request.filtered)' = Hybrid!Rank(request.filtered)
  BY <1>1, RankSame DEF Hybrid!Passing
<1>4. Legal(semantic'.ids) /\ (semantic'.is # "ranking" => semantic'.ids = <<>>)
  BY ChunksLegal, NothingLegal DEF Hybrid!SemanticAnswers, Hybrid!Ranking, Hybrid!Leg
<1>5. HybridTyped'
  BY <1>1, <1>4 DEF HybridInv, HybridTyped
<1>6. QED
  BY <1>1, <1>2, <1>3, <1>5 DEF HybridInv, LegsPassed, HitsFused, TextsKept, RankingKept

LEMMA GatheredKeeps == ASSUME HybridInv, Hybrid!Gathered PROVE HybridInv'
<1>1. /\ phase = "legs" /\ request' = request /\ passed' = passed /\ index' = index
      /\ written' = written /\ lexical' = lexical /\ semantic' = semantic
      /\ lexical.is # "pending" /\ phase' \in {"done", "filter", "fuse"}
  BY DEF Hybrid!Gathered
<1>2. ~Answering' /\ ~Hybrid!IsShown'
  BY DEF Hybrid!Gathered, Answering, Hybrid!IsShown
<1>3. Hybrid!Passing' = Hybrid!Passing /\ Hybrid!Rank(request.filtered)' = Hybrid!Rank(request.filtered)
  BY <1>1, RankSame DEF Hybrid!Passing
<1>4. phase' # "done" => lexical.is # "failed"
  BY DEF Hybrid!Gathered
<1>5. phase' = "filter" => semantic.is = "ranking"
  BY DEF Hybrid!Gathered, Hybrid!IsRanking
<1>6. phase' = "fuse" /\ request.filtered => semantic.is # "ranking"
  BY DEF Hybrid!Gathered, Hybrid!IsRanking
<1>7. phase' = "fuse" /\ request.filtered => Hybrid!Ids(semantic.ids) = {}
  BY <1>6, NothingLegal DEF HybridInv, HybridTyped
<1>8. HybridTyped'
  BY <1>1 DEF HybridInv, HybridTyped
<1>9. LegsPassed'
  BY <1>1, <1>2, <1>3, <1>7 DEF HybridInv, LegsPassed
<1>10. QED
  BY <1>1, <1>2, <1>3, <1>4, <1>5, <1>8, <1>9 DEF HybridInv, HitsFused, TextsKept, RankingKept

LEMMA FilterKeeps == ASSUME HybridInv, Hybrid!Filter PROVE HybridInv'
<1>1. /\ phase = "filter" /\ phase' = "fuse" /\ request' = request /\ passed' = passed
      /\ index' = index /\ written' = written /\ lexical' = lexical
  BY DEF Hybrid!Filter
<1>2. ~Answering' /\ ~Hybrid!IsShown'
  BY <1>1 DEF Answering, Hybrid!IsShown
<1>3. Hybrid!Passing' = Hybrid!Passing /\ Hybrid!Rank(request.filtered)' = Hybrid!Rank(request.filtered)
  BY <1>1, RankSame DEF Hybrid!Passing
<1>4. semantic'.is = "ranking" /\ semantic'.ids = Hybrid!Among(semantic.ids, Hybrid!Passing)
  BY DEF Hybrid!Filter, Hybrid!Ranking
<1>5. Legal(semantic'.ids) /\ Hybrid!Ids(semantic'.ids) \subseteq Hybrid!Passing
  BY <1>4, AmongIs DEF HybridInv, HybridTyped
<1>6. HybridTyped'
  BY <1>1, <1>4, <1>5 DEF HybridInv, HybridTyped
<1>7. LegsPassed'
  BY <1>1, <1>2, <1>3, <1>5 DEF HybridInv, LegsPassed
<1>8. QED
  BY <1>1, <1>2, <1>3, <1>6, <1>7 DEF HybridInv, HitsFused, TextsKept, RankingKept

LEMMA ReadFailsKeeps == ASSUME HybridInv, Hybrid!ReadFails PROVE HybridInv'
<1>1. /\ phase # "idle" /\ phase' = "done" /\ request' = request /\ passed' = passed
      /\ index' = index /\ written' = written /\ lexical' = lexical /\ semantic' = semantic
  BY DEF Hybrid!ReadFails
<1>2. ~Answering' /\ ~Hybrid!IsShown'
  BY DEF Hybrid!ReadFails, Answering, Hybrid!IsShown
<1>3. Hybrid!Passing' = Hybrid!Passing /\ Hybrid!Rank(request.filtered)' = Hybrid!Rank(request.filtered)
  BY <1>1, RankSame DEF Hybrid!Passing
<1>4. HybridTyped'
  BY <1>1 DEF HybridInv, HybridTyped
<1>5. QED
  BY <1>1, <1>2, <1>3, <1>4 DEF HybridInv, LegsPassed, HitsFused, TextsKept, RankingKept

\* The hits are a prefix of the fused ranking, each a record of one leg.
LEMMA FusedTop ==
  ASSUME HybridInv
  PROVE  LET fused == Top(Hybrid!Fused(lexical.ids, semantic.ids), TopK)
         IN /\ fused \in Seq(Nat) /\ DOMAIN fused = 1..Len(fused) /\ Len(fused) \in Nat
            /\ \A i \in 1..Len(fused) :
                 /\ fused[i] \in Hybrid!Ids(lexical.ids) \union Hybrid!Ids(semantic.ids)
                 /\ i \in DOMAIN Hybrid!Fused(lexical.ids, semantic.ids)
                 /\ fused[i] = Hybrid!Fused(lexical.ids, semantic.ids)[i]
            /\ \A i \in DOMAIN Hybrid!Fused(lexical.ids, semantic.ids), j \in 1..Len(fused) :
                 i < j => i \in 1..Len(fused)
<1> DEFINE U == FusedIds(lexical.ids, semantic.ids)
           b == Hybrid!Fused(lexical.ids, semantic.ids)
           t == Top(b, TopK)
<1>1. TopK \in Nat
  BY HybridAssumption DEF Hybrid!Assumption
<1>2. U \in SUBSET Nat /\ Lists(b, U, FusedScores(lexical.ids, semantic.ids), Itself(U))
  BY FusedIs DEF HybridInv, HybridTyped
<1> HIDE DEF U, b
<1>3. b \in Seq(U) /\ Len(b) \in Nat /\ DOMAIN b = 1..Len(b)
  BY <1>2, LenProperties DEF Lists
<1>4. /\ t \in Seq(U) /\ DOMAIN t = 1..Len(t)
      /\ Len(t) = IF TopK <= Len(b) THEN TopK ELSE Len(b)
      /\ \A i \in 1..Len(t) : i \in DOMAIN b /\ t[i] = b[i]
  BY <1>1, <1>3, TopIs
<1> HIDE DEF t
<1>5. t \in Seq(Nat) /\ Len(t) \in Nat
  BY <1>1, <1>2, <1>3, <1>4, SeqMonotonic
<1>6. \A i \in 1..Len(t) : t[i] \in U
  BY <1>4, ElementOfSeq
<1>7. \A i \in DOMAIN b, j \in 1..Len(t) : i < j => i \in 1..Len(t)
  BY <1>3, <1>5
<1>8. QED
  BY <1>4, <1>5, <1>6, <1>7 DEF U, b, t, FusedIds

LEMMA FuseKeeps == ASSUME HybridInv, Hybrid!Fuse PROVE HybridInv'
<1> DEFINE t == Top(Hybrid!Fused(lexical.ids, semantic.ids), TopK)
<1>1. /\ phase = "fuse" /\ phase' = "hydrate" /\ request' = request /\ passed' = passed
      /\ index' = index /\ written' = written /\ lexical' = lexical /\ semantic' = semantic
  BY DEF Hybrid!Fuse
<1>2. Answering' /\ ~Hybrid!IsShown'
  BY <1>1 DEF Answering, Hybrid!IsShown
<1>3. Hybrid!Passing' = Hybrid!Passing /\ Hybrid!Rank(request.filtered)' = Hybrid!Rank(request.filtered)
  BY <1>1, RankSame DEF Hybrid!Passing
<1>4. t \in Seq(Nat) /\ DOMAIN t = 1..Len(t) /\ Len(t) \in Nat
  BY FusedTop
<1>5. outcome' = [hits |-> [i \in DOMAIN t |->
                             [record |-> t[i], lexical |-> Hybrid!RankIn(lexical.ids, t[i]),
                              semantic |-> Hybrid!RankIn(semantic.ids, t[i]), shows |-> "bare"]],
                  degraded |-> IF semantic.is = "failed" THEN {"semantic"} ELSE {},
                  skipped |-> Hybrid!Skipped]
  BY HybridNames DEF Hybrid!Fuse
<1> HIDE DEF t
<1>6. ASSUME NEW i \in 1..Len(t)
      PROVE  [record |-> t[i], lexical |-> Hybrid!RankIn(lexical.ids, t[i]),
              semantic |-> Hybrid!RankIn(semantic.ids, t[i]), shows |-> "bare"] \in Hits
  <2>1. t[i] \in Nat
    BY <1>4, ElementOfSeq
  <2>2. \A s : Legal(s) => Hybrid!RankIn(s, t[i]) \in Nat
    <3>1. \A s : Legal(s) => Len(s) \in Nat /\ Hybrid!RankIn(s, t[i]) \in 0..Len(s)
      BY RankIs, LegalIds
    <3>2. QED
      BY <3>1
  <2>3. QED
    BY <2>1, <2>2 DEF HybridInv, HybridTyped, Hits
<1>7. Hybrid!Skipped \in SUBSET {"semantic"}
  BY DEF Hybrid!Skipped
<1>8. outcome' \in Answers /\ Len(outcome'.hits) = Len(t)
  <2>1. outcome'.hits \in [1..Len(t) -> Hits]
    BY <1>4, <1>5, <1>6
  <2>2. outcome'.hits \in Seq(Hits) /\ Len(outcome'.hits) = Len(t)
    BY <1>4, <2>1
  <2>3. QED
    BY <1>5, <1>7, <2>2 DEF Answers
<1>9. \A i \in 1..Len(t) : /\ outcome'.hits[i].record = t[i]
                          /\ outcome'.hits[i].lexical = Hybrid!RankIn(lexical.ids, t[i])
  BY <1>4, <1>5
<1>10. HybridTyped'
  BY <1>1 DEF HybridInv, HybridTyped
<1>11. HitsFused'
  BY <1>1, <1>8, <1>9 DEF HitsFused, t
<1>12. LegsPassed' /\ TextsKept' /\ RankingKept'
  BY <1>1, <1>2, <1>3 DEF HybridInv, LegsPassed, TextsKept, RankingKept
<1>13. QED
  BY <1>10, <1>11, <1>12 DEF HybridInv

\* Completing hits changes nothing but what they show.
LEMMA CompletedHits ==
  ASSUME HybridInv, phase \in {"hydrate", "headers"}, NEW hits,
         outcome' = [outcome EXCEPT !.hits = hits], DOMAIN hits = DOMAIN outcome.hits,
         \A i \in DOMAIN outcome.hits :
           \E shows \in {"bare", "snippet", "header", "passage"} :
             hits[i] = [outcome.hits[i] EXCEPT !.shows = shows],
         hits = [i \in DOMAIN hits |-> hits[i]],
         lexical' = lexical, semantic' = semantic, phase' \in {"headers", "done"}
  PROVE  /\ HitsFused' /\ outcome'.hits = hits /\ Answering' /\ (phase' = "done" => Hybrid!IsShown')
         /\ \A i \in DOMAIN hits : /\ hits[i].record = outcome.hits[i].record
                                  /\ hits[i].lexical = outcome.hits[i].lexical
<1> DEFINE t == Top(Hybrid!Fused(lexical.ids, semantic.ids), TopK)
<1>1. /\ outcome \in Answers /\ Len(outcome.hits) = Len(t)
      /\ \A i \in 1..Len(t) : /\ outcome.hits[i].record = t[i]
                             /\ outcome.hits[i].lexical = Hybrid!RankIn(lexical.ids, t[i])
  BY DEF HybridInv, HitsFused, Answering
<1> HIDE DEF t
<1>2. outcome.hits \in Seq(Hits) /\ DOMAIN outcome.hits = 1..Len(t) /\ Len(t) \in Nat
  BY <1>1, LenProperties DEF Answers
<1>3. ASSUME NEW i \in DOMAIN hits
      PROVE  /\ hits[i] \in Hits /\ hits[i].record = outcome.hits[i].record
             /\ hits[i].lexical = outcome.hits[i].lexical
  <2>1. outcome.hits[i] \in Hits
    BY <1>1, <1>2, ElementOfSeq
  <2>2. PICK shows \in {"bare", "snippet", "header", "passage"} :
          hits[i] = [outcome.hits[i] EXCEPT !.shows = shows]
    OBVIOUS
  <2>3. QED
    BY <2>1, <2>2 DEF Hits
<1>4. hits \in [1..Len(t) -> Hits]
  BY <1>2, <1>3
<1>5. hits \in Seq(Hits) /\ Len(hits) = Len(t)
  BY <1>2, <1>4
<1>6. outcome' \in Answers /\ outcome'.hits = hits /\ "hits" \in DOMAIN outcome'
  BY <1>1, <1>5 DEF Answers
<1>7. Answering' /\ (phase' = "done" => Hybrid!IsShown')
  BY <1>6 DEF Answering, Hybrid!IsShown
<1>8. HitsFused'
  BY <1>1, <1>2, <1>3, <1>5, <1>6 DEF HitsFused, t
<1>9. QED
  BY <1>3, <1>6, <1>7, <1>8

LEMMA HydrateKeeps == ASSUME HybridInv, Hybrid!Hydrate PROVE HybridInv'
<1> DEFINE Completed(hit) ==
             IF hit.lexical > 0 /\ hit.record \in DOMAIN index /\ index[hit.record].score > 0
             THEN [hit EXCEPT !.shows = "snippet"] ELSE hit
           hits == [i \in DOMAIN outcome.hits |-> Completed(outcome.hits[i])]
<1>1. /\ phase = "hydrate" /\ phase' = "headers" /\ request' = request /\ passed' = passed
      /\ index' = index /\ written' = written /\ lexical' = lexical /\ semantic' = semantic
  BY DEF Hybrid!Hydrate
<1>2. outcome \in Answers /\ Answering
  BY <1>1 DEF HybridInv, HitsFused, Answering
<1>3. outcome' = [outcome EXCEPT !.hits = hits]
  BY <1>2 DEF Hybrid!Hydrate, Answers
<1>4. /\ \A i \in DOMAIN outcome.hits : hits[i] = Completed(outcome.hits[i])
      /\ DOMAIN hits = DOMAIN outcome.hits /\ hits = [i \in DOMAIN hits |-> hits[i]]
  OBVIOUS
<1> HIDE DEF hits
<1>5. ASSUME NEW i \in DOMAIN outcome.hits
      PROVE  \E shows \in {"bare", "snippet", "header", "passage"} :
               hits[i] = [outcome.hits[i] EXCEPT !.shows = shows]
  <2>1. outcome.hits[i] \in Hits
    BY <1>2, LenProperties, ElementOfSeq DEF Answers
  <2>2. outcome.hits[i] = [outcome.hits[i] EXCEPT !.shows = outcome.hits[i].shows]
        /\ outcome.hits[i].shows \in {"bare", "snippet", "header", "passage"}
    BY <2>1 DEF Hits
  <2>3. QED
    BY <1>4, <2>2
<1>6. /\ HitsFused' /\ outcome'.hits = hits /\ Answering'
      /\ \A i \in DOMAIN hits : /\ hits[i].record = outcome.hits[i].record
                               /\ hits[i].lexical = outcome.hits[i].lexical
  BY <1>1, <1>3, <1>4, <1>5, CompletedHits
<1>7. Hybrid!Passing' = Hybrid!Passing /\ Hybrid!Rank(request.filtered)' = Hybrid!Rank(request.filtered)
  BY <1>1, RankSame DEF Hybrid!Passing
<1>8. ~Hybrid!IsShown'
  BY <1>1 DEF Hybrid!IsShown
<1>9. HybridTyped'
  BY <1>1 DEF HybridInv, HybridTyped
<1>10. ASSUME NEW i \in DOMAIN hits, hits[i].lexical > 0, hits[i].shows = "bare"
       PROVE  hits[i].record \in written
  <2> DEFINE hit == outcome.hits[i]
  <2>1. hit \in Hits /\ hits[i] = Completed(hit) /\ hit.lexical > 0
    BY <1>2, <1>4, <1>6, <1>10, LenProperties, ElementOfSeq DEF Answers
  <2>2. ~(hit.record \in DOMAIN index /\ index[hit.record].score > 0)
    BY <1>10, <2>1 DEF Hits
  <2>3. hit.lexical = Hybrid!RankIn(lexical.ids, hit.record)
    <3>1. /\ i \in 1..Len(Top(Hybrid!Fused(lexical.ids, semantic.ids), TopK))
      BY <1>2, <1>4, LenProperties DEF HybridInv, HitsFused, Answers
    <3>2. QED
      BY <1>2, <3>1 DEF HybridInv, HitsFused
  <2>4. hit.record \in Hybrid!Ids(lexical.ids)
    <3>1. hit.record \notin Hybrid!Ids(lexical.ids) => Hybrid!RankIn(lexical.ids, hit.record) = 0
      BY RankIs DEF HybridInv, HybridTyped
    <3>2. QED
      BY <2>1, <2>3, <3>1
  <2>5. QED
    BY <1>6, <2>2, <2>4 DEF HybridInv, TextsKept
<1>11. TextsKept'
  BY <1>1, <1>6, <1>8, <1>10 DEF HybridInv, TextsKept
<1>12. LegsPassed' /\ RankingKept'
  BY <1>1, <1>2, <1>7 DEF HybridInv, LegsPassed, RankingKept
<1>13. QED
  BY <1>6, <1>9, <1>11, <1>12 DEF HybridInv

LEMMA HeadersKeeps == ASSUME HybridInv, Hybrid!Headers PROVE HybridInv'
<1> DEFINE Titled(hit) ==
             IF hit.lexical > 0 THEN hit
             ELSE [hit EXCEPT !.shows = IF hit.record \in DOMAIN index THEN "header" ELSE "passage"]
           hits == [i \in DOMAIN outcome.hits |-> Titled(outcome.hits[i])]
<1>1. /\ phase = "headers" /\ phase' = "done" /\ request' = request /\ passed' = passed
      /\ index' = index /\ written' = written /\ lexical' = lexical /\ semantic' = semantic
  BY DEF Hybrid!Headers
<1>2. outcome \in Answers /\ Answering
  BY <1>1 DEF HybridInv, HitsFused, Answering
<1>3. outcome' = [outcome EXCEPT !.hits = hits]
  BY <1>2 DEF Hybrid!Headers, Answers
<1>4. /\ \A i \in DOMAIN outcome.hits : hits[i] = Titled(outcome.hits[i])
      /\ DOMAIN hits = DOMAIN outcome.hits /\ hits = [i \in DOMAIN hits |-> hits[i]]
  OBVIOUS
<1> HIDE DEF hits
<1>5. ASSUME NEW i \in DOMAIN outcome.hits
      PROVE  /\ outcome.hits[i] \in Hits
             /\ \E shows \in {"bare", "snippet", "header", "passage"} :
                  hits[i] = [outcome.hits[i] EXCEPT !.shows = shows]
  <2>1. outcome.hits[i] \in Hits
    BY <1>2, LenProperties, ElementOfSeq DEF Answers
  <2>2. outcome.hits[i] = [outcome.hits[i] EXCEPT !.shows = outcome.hits[i].shows]
        /\ outcome.hits[i].shows \in {"bare", "snippet", "header", "passage"}
    BY <2>1 DEF Hits
  <2>3. QED
    BY <1>4, <2>1, <2>2
<1>6. /\ HitsFused' /\ outcome'.hits = hits /\ Answering' /\ Hybrid!IsShown'
      /\ \A i \in DOMAIN hits : /\ hits[i].record = outcome.hits[i].record
                               /\ hits[i].lexical = outcome.hits[i].lexical
  <2>1. \A i \in DOMAIN outcome.hits : \E shows \in {"bare", "snippet", "header", "passage"} :
          hits[i] = [outcome.hits[i] EXCEPT !.shows = shows]
    BY <1>5
  <2>2. QED
    BY <1>1, <1>3, <1>4, <2>1, CompletedHits
<1>7. Hybrid!Passing' = Hybrid!Passing /\ Hybrid!Rank(request.filtered)' = Hybrid!Rank(request.filtered)
  BY <1>1, RankSame DEF Hybrid!Passing
<1>8. HybridTyped'
  BY <1>1 DEF HybridInv, HybridTyped
<1>9. ASSUME NEW i \in DOMAIN hits, hits[i].shows = "bare"
      PROVE  hits[i].record \in written
  <2>1. outcome.hits[i] \in Hits /\ hits[i] = Titled(outcome.hits[i])
    BY <1>4, <1>5
  <2>2. outcome.hits[i].lexical > 0 /\ outcome.hits[i].shows = "bare"
    BY <1>9, <2>1 DEF Hits
  <2>3. QED
    BY <1>1, <1>4, <1>6, <2>2 DEF HybridInv, TextsKept
<1>10. TextsKept'
  BY <1>1, <1>6, <1>9 DEF HybridInv, TextsKept
<1>11. LegsPassed' /\ RankingKept'
  BY <1>1, <1>2, <1>7 DEF HybridInv, LegsPassed, RankingKept
<1>12. QED
  BY <1>6, <1>8, <1>10, <1>11 DEF HybridInv

LEMMA IndexWritesKeeps ==
  ASSUME HybridInv, NEW r \in RecordIds, Hybrid!IndexWrites(r)
  PROVE  HybridInv'
<1>1. /\ phase \in {"legs", "filter", "fuse", "hydrate", "headers"} /\ phase' = phase
      /\ request' = request /\ lexical' = lexical /\ semantic' = semantic /\ outcome' = outcome
      /\ written' = written \union {r}
      /\ passed' = passed \union {q \in DOMAIN index' : index'[q].passes}
  BY DEF Hybrid!IndexWrites
<1>2. /\ DOMAIN index' \subseteq DOMAIN index \union {r}
      /\ \A q \in DOMAIN index' : index'[q].score \in Nat
      /\ \A q \in DOMAIN index : q # r => q \in DOMAIN index' /\ index'[q] = index[q]
  <2>1. CASE index' = Hybrid!Restrict(index, DOMAIN index \ {r})
    BY <2>1 DEF Hybrid!Restrict, HybridInv, HybridTyped
  <2>2. CASE \E score \in Scores, passes \in BOOLEAN :
               index' = [q \in DOMAIN index \union {r} |->
                          IF q = r THEN [score |-> score, passes |-> passes] ELSE index[q]]
    <3>1. Scores \subseteq Nat
      BY HybridAssumption DEF Hybrid!Assumption
    <3>2. QED
      BY <2>2, <3>1 DEF HybridInv, HybridTyped
  <2>3. QED
    BY <2>1, <2>2 DEF Hybrid!IndexWrites
<1>3. IsFiniteSet(DOMAIN index') /\ DOMAIN index' \subseteq RecordIds
  <2>1. IsFiniteSet(DOMAIN index \union {r})
    BY FS_AddElement DEF HybridInv, HybridTyped
  <2>2. QED
    BY <1>2, <2>1, FS_Subset DEF HybridInv, HybridTyped
<1>4. HybridTyped'
  BY <1>1, <1>2, <1>3 DEF HybridInv, HybridTyped
<1>5. Answering' = Answering /\ ~Hybrid!IsShown /\ ~Hybrid!IsShown'
  BY <1>1 DEF Answering, Hybrid!IsShown
<1>6. LegsPassed'
  <2>1. Hybrid!Passing' \subseteq passed' /\ passed \subseteq passed'
    BY <1>1 DEF Hybrid!Passing
  <2>2. QED
    BY <1>1, <1>5, <2>1 DEF HybridInv, LegsPassed
<1>7. HitsFused'
  BY <1>1, <1>5 DEF HybridInv, HitsFused
<1>8. TextsKept'
  BY <1>1, <1>2, <1>5 DEF HybridInv, TextsKept
<1>9. RankingKept'
  BY <1>1, <1>5 DEF HybridInv, RankingKept
<1>10. QED
  BY <1>4, <1>6, <1>7, <1>8, <1>9 DEF HybridInv

LEMMA HybridStep == HybridInv /\ [Hybrid!Next]_hybridVars => HybridInv'
<1> SUFFICES ASSUME HybridInv, [Hybrid!Next]_hybridVars PROVE HybridInv'
  OBVIOUS
<1>1. CASE UNCHANGED hybridVars
  <2>1. Hybrid!Rank(request.filtered)' = Hybrid!Rank(request.filtered)
    BY <1>1, RankSame DEF hybridVars
  <2>2. Hybrid!Passing' = Hybrid!Passing /\ Hybrid!IsShown' = Hybrid!IsShown /\ Answering' = Answering
    BY <1>1 DEF hybridVars, Hybrid!Passing, Hybrid!IsShown, Answering
  <2>3. QED
    BY <1>1, <2>1, <2>2 DEF hybridVars, HybridInv, HybridTyped, LegsPassed, HitsFused, TextsKept, RankingKept
<1>2. CASE Hybrid!Next
  BY <1>2, StartKeeps, LexicalKeeps, SemanticKeeps, GatheredKeeps, FilterKeeps, ReadFailsKeeps,
     FuseKeeps, HydrateKeeps, HeadersKeeps, IndexWritesKeeps DEF Hybrid!Next
<1>3. QED
  BY <1>1, <1>2

-----------------------------------------------------------------------------
(* What the invariant says of the hits shown.                              *)

\* The records shown, and the place of each.
LEMMA ShownIs ==
  ASSUME HybridInv, Hybrid!IsShown
  PROVE  LET fused == Hybrid!Fused(lexical.ids, semantic.ids)
             hits == outcome.hits
         IN /\ DOMAIN hits = 1..Len(hits) /\ Len(hits) \in Nat /\ hits \in Seq(Hits)
            /\ \A i \in DOMAIN hits :
                 /\ i \in DOMAIN fused /\ hits[i].record = fused[i]
                 /\ hits[i].record \in Hybrid!Ids(lexical.ids) \union Hybrid!Ids(semantic.ids)
            /\ \A i \in DOMAIN fused, j \in DOMAIN hits : i < j => i \in DOMAIN hits
            /\ \A i, j \in DOMAIN hits : hits[i].record = hits[j].record => i = j
<1> DEFINE b == Hybrid!Fused(lexical.ids, semantic.ids)
           t == Top(b, TopK)
           hits == outcome.hits
<1>1. /\ outcome \in Answers /\ Len(hits) = Len(t)
      /\ \A i \in 1..Len(t) : hits[i].record = t[i]
  BY DEF HybridInv, HitsFused, Answering
<1>2. hits \in Seq(Hits) /\ DOMAIN hits = 1..Len(t) /\ Len(t) \in Nat
  BY <1>1, LenProperties DEF Answers
<1>3. /\ \A i \in 1..Len(t) : /\ t[i] \in Hybrid!Ids(lexical.ids) \union Hybrid!Ids(semantic.ids)
                             /\ i \in DOMAIN b /\ t[i] = b[i]
      /\ \A i \in DOMAIN b, j \in 1..Len(t) : i < j => i \in 1..Len(t)
  BY FusedTop
<1>4. \A i, j \in DOMAIN b : b[i] = b[j] => i = j
  BY FusedIs DEF HybridInv, HybridTyped, Lists
<1> HIDE DEF b, t
<1>5. \A i, j \in DOMAIN hits : hits[i].record = hits[j].record => i = j
  BY <1>1, <1>2, <1>3, <1>4
<1>6. QED
  BY <1>1, <1>2, <1>3, <1>5 DEF b

LEMMA NothingUnfiltered == HybridInv => Hybrid!FilteredNeverShown
<1> SUFFICES ASSUME HybridInv, Hybrid!IsShown
             PROVE  /\ request.filtered => \A hit \in Hybrid!Shown : hit.record \in passed
                    /\ Hybrid!Cardinality(Hybrid!Shown) = Len(outcome.hits)
  BY DEF Hybrid!FilteredNeverShown
<1> DEFINE hits == outcome.hits
           f == [i \in 1..Len(hits) |-> hits[i]]
           I == 1..Len(hits)
<1>1. /\ DOMAIN hits = I /\ Len(hits) \in Nat
      /\ \A i \in DOMAIN hits : hits[i].record \in Hybrid!Ids(lexical.ids) \union Hybrid!Ids(semantic.ids)
      /\ \A i, j \in DOMAIN hits : hits[i].record = hits[j].record => i = j
  BY ShownIs
<1>2. Hybrid!Shown = {hits[i] : i \in I}
  BY <1>1 DEF Hybrid!Shown
<1>3. ASSUME request.filtered, NEW hit \in Hybrid!Shown PROVE hit.record \in passed
  <2>1. PICK i \in I : hit = hits[i]
    BY <1>2
  <2>2. phase = "done" /\ Answering
    BY DEF Hybrid!IsShown, Answering
  <2>3. QED
    BY <1>1, <1>3, <2>1, <2>2 DEF HybridInv, LegsPassed
<1>4. IsFiniteSet(I) /\ Cardinality(I) = Len(hits)
  <2> DEFINE n == Len(hits)
  <2>1. n \in Nat /\ n \in Int /\ 1 \in Int /\ I = 1..n
    BY <1>1
  <2> HIDE DEF n, I, f, hits
  <2>2. IsFiniteSet(1..n) /\ Cardinality(1..n) = IF 1 > n THEN 0 ELSE n - 1 + 1
    BY <2>1, FS_Interval
  <2>3. IsFiniteSet(I) /\ Cardinality(I) = n
    BY <2>1, <2>2
  <2>4. QED
    BY <2>3 DEF n
<1>5. f \in [I -> Hybrid!Shown] /\ \A hit \in Hybrid!Shown : \E i \in I : f[i] = hit
  BY <1>2
<1>6. \A i, j \in I : f[i] = f[j] => i = j
  BY <1>1
<1> HIDE DEF I
<1>7. f \in Bijection(I, Hybrid!Shown)
  BY <1>5, <1>6 DEF Bijection, Injection, IsInjective, Surjection
<1>8. Cardinality(Hybrid!Shown) = Len(hits)
  BY <1>4, <1>7, FS_Bijection DEF ExistsBijection
<1>9. QED
  BY <1>3, <1>8, HybridNames

\* A record that no leg ranks above one comes after it.
LEMMA DominatedAfter ==
  ASSUME NEW one, NEW other, Legal(one), Legal(other),
         NEW p \in FusedIds(one, other), NEW q \in FusedIds(one, other),
         \A leg \in {one, other} : q \in Hybrid!Ids(leg) =>
           p \in Hybrid!Ids(leg) /\ Hybrid!RankIn(leg, p) < Hybrid!RankIn(leg, q),
         NEW i \in DOMAIN Hybrid!Fused(one, other), Hybrid!Fused(one, other)[i] = q
  PROVE  \E j \in DOMAIN Hybrid!Fused(one, other) : Hybrid!Fused(one, other)[j] = p /\ j < i
<1> DEFINE b == Hybrid!Fused(one, other)
<1>1. Lists(b, FusedIds(one, other), FusedScores(one, other), Itself(FusedIds(one, other)))
  BY FusedIs
<1>2. ASSUME NEW leg \in {one, other}
      PROVE  /\ Hybrid!Contribution(leg, p) \in Nat /\ Hybrid!Contribution(leg, q) \in Nat
             /\ Hybrid!Contribution(leg, p) >= Hybrid!Contribution(leg, q)
             /\ q \in Hybrid!Ids(leg) => Hybrid!Contribution(leg, p) > Hybrid!Contribution(leg, q)
  <2>1. Legal(leg)
    OBVIOUS
  <2>2. Hybrid!Contribution(leg, p) \in Nat /\ Hybrid!Contribution(leg, q) \in Nat
    BY <2>1, ContributionsFall
  <2>3. CASE q \in Hybrid!Ids(leg)
    <3>1. Hybrid!Contribution(leg, p) > Hybrid!Contribution(leg, q)
      BY <2>1, <2>3, ContributionsFall
    <3>2. QED
      BY <2>2, <3>1
  <2>4. CASE q \notin Hybrid!Ids(leg)
    <3>1. Hybrid!Contribution(leg, q) = 0
      BY <2>1, <2>4, ContributionsFall
    <3>2. QED
      BY <2>2, <2>4, <3>1
  <2>5. QED
    BY <2>3, <2>4
<1>3. q \in Hybrid!Ids(one) \/ q \in Hybrid!Ids(other)
  BY DEF FusedIds
<1>4. Hybrid!Contribution(one, p) + Hybrid!Contribution(other, p)
        > Hybrid!Contribution(one, q) + Hybrid!Contribution(other, q)
  BY <1>2, <1>3
<1>5. ComesBefore(FusedScores(one, other), Itself(FusedIds(one, other)), p, q)
  BY <1>4 DEF ComesBefore, FusedScores
<1>6. PICK j \in DOMAIN b : b[j] = p
  BY <1>1 DEF Lists
<1>7. j < i
  BY <1>1, <1>5, <1>6 DEF Lists
<1>8. QED
  BY <1>6, <1>7

\* One leg alone keeps its order.
LEMMA FusedAlone == ASSUME NEW one, Legal(one) PROVE Hybrid!Fused(one, <<>>) = one
<1> DEFINE U == FusedIds(one, <<>>)
           score == FusedScores(one, <<>>)
<1>1. /\ Len(one) \in Nat /\ DOMAIN one = 1..Len(one) /\ Hybrid!Ids(one) = {one[i] : i \in 1..Len(one)}
      /\ Cardinality(Hybrid!Ids(one)) = Len(one) /\ Hybrid!Ids(one) \in SUBSET Nat
  BY LegalIds
<1>2. U = Hybrid!Ids(one) /\ Legal(<<>>)
  BY NothingLegal DEF FusedIds
<1>3. \A i \in DOMAIN one : one[i] \in U /\ Hybrid!RankIn(one, one[i]) = i
  BY <1>1, <1>2, RankIs
<1>4. \A r \in U : score[r] = Hybrid!Contribution(one, r) /\ score[r] \in Nat
  <2> TAKE r \in U
  <2>1. Hybrid!Contribution(<<>>, r) = 0 /\ Hybrid!Contribution(one, r) \in Nat
    BY <1>2, NothingLegal, ContributionsFall
  <2>2. QED
    BY <2>1 DEF FusedScores
<1> HIDE DEF score, U
<1>5. one \in Seq(U)
  <2>1. one \in [1..Len(one) -> U]
    BY <1>1, <1>3 DEF Legal
  <2>2. QED
    BY <1>1, <2>1
<1>6. \A i, j \in DOMAIN one : i < j => score[one[i]] > score[one[j]]
  <2> TAKE i, j \in DOMAIN one
  <2> HAVE i < j
  <2>1. Hybrid!Contribution(one, one[i]) > Hybrid!Contribution(one, one[j])
    BY <1>2, <1>3, ContributionsFall
  <2>2. QED
    BY <1>3, <1>4, <2>1
<1>7. \A i, j \in DOMAIN one : i < j <=> ComesBefore(score, Itself(U), one[i], one[j])
  <2> TAKE i, j \in DOMAIN one
  <2>1. i \in Int /\ j \in Int /\ one[i] \in U /\ one[j] \in U /\ U \subseteq Nat
    BY <1>1, <1>2, <1>3
  <2>2. score[one[i]] \in Int /\ score[one[j]] \in Int /\ Itself(U)[one[i]] \in Int /\ Itself(U)[one[j]] \in Int
    <3>1. score[one[i]] \in Nat /\ score[one[j]] \in Nat
      BY <1>4, <2>1
    <3>2. Itself(U)[one[i]] = one[i] /\ Itself(U)[one[j]] = one[j] /\ one[i] \in Nat /\ one[j] \in Nat
      BY <2>1 DEF Itself
    <3> HIDE DEF Itself
    <3>3. QED
      BY <3>1, <3>2
  <2>3. CASE i < j
    <3>1. score[one[i]] > score[one[j]]
      BY <1>6, <2>3
    <3>2. QED
      BY <2>3, <3>1 DEF ComesBefore
  <2>4. CASE j < i
    <3>1. score[one[j]] > score[one[i]]
      BY <1>6, <2>4
    <3>2. QED
      BY <2>1, <2>2, <2>4, <3>1 DEF ComesBefore
  <2>5. CASE i = j
    <3>1. ~ComesBefore(score, Itself(U), one[i], one[i])
      BY <2>2 DEF ComesBefore
    <3>2. QED
      BY <2>1, <2>5, <3>1
  <2>6. QED
    BY <2>1, <2>3, <2>4, <2>5
<1>8. Lists(one, U, score, Itself(U))
  BY <1>1, <1>2, <1>5, <1>7 DEF Lists, Legal
<1>9. Orderable(U, score, Itself(U)) /\ Hybrid!Fused(one, <<>>) = BestFirst(U, score, Itself(U))
  BY <1>2, FusedIs DEF U, score
<1>10. QED
  BY <1>8, <1>9, OneListing

LEMMA ShownInOrder == HybridInv => Hybrid!BestInEveryLegFirst
<1> SUFFICES ASSUME HybridInv, Hybrid!IsShown PROVE Hybrid!BestInEveryLegFirst
  BY DEF Hybrid!BestInEveryLegFirst
<1> DEFINE hits == outcome.hits
           found == UNION {Hybrid!Ids(leg.ids) : leg \in {l \in {lexical, semantic} : Hybrid!IsRanking(l)}}
           fused == Hybrid!Fused(lexical.ids, semantic.ids)
           I(r) == {i \in 1..Len(hits) : hits[i].record = r}
           At(r) == IF I(r) # {} THEN Min(I(r)) ELSE 0
<1>1. /\ DOMAIN hits = 1..Len(hits) /\ Len(hits) \in Nat
      /\ \A i \in DOMAIN hits : i \in DOMAIN fused /\ hits[i].record = fused[i]
      /\ \A i \in DOMAIN fused, j \in DOMAIN hits : i < j => i \in DOMAIN hits
      /\ \A i, j \in DOMAIN hits : hits[i].record = hits[j].record => i = j
  BY ShownIs
<1>2. phase = "done" /\ Answering
  BY DEF Hybrid!IsShown, Answering
<1>3. ASSUME NEW i \in DOMAIN hits PROVE At(hits[i].record) = i
  <2>1. I(hits[i].record) = {i}
    BY <1>1
  <2>2. i \in Int
    BY <1>1
  <2>3. Min({i}) \in {i}
    <3>1. IsFiniteSet({i})
      BY FS_Singleton
    <3>2. QED
      BY <2>2, <3>1, Extremes
  <2> HIDE DEF I
  <2>4. QED
    BY <2>1, <2>3
<1>4. ASSUME NEW r, At(r) > 0 PROVE \E i \in DOMAIN hits : hits[i].record = r /\ At(r) = i
  <2>1. I(r) # {}
    BY <1>4
  <2>2. PICK i \in DOMAIN hits : hits[i].record = r
    BY <1>1, <2>1
  <2>3. QED
    BY <1>3, <2>2
<1>5. \A r : Hybrid!Place(r) = At(r)
  BY HybridNames DEF Hybrid!Place, Hybrid!SelectInSeq
<1> HIDE DEF At
<1>6. /\ lexical.is # "ranking" => Hybrid!Ids(lexical.ids) = {}
      /\ semantic.is # "ranking" => Hybrid!Ids(semantic.ids) = {}
  BY NothingLegal DEF HybridInv, HybridTyped
<1>7. found = FusedIds(lexical.ids, semantic.ids)
  BY <1>6 DEF FusedIds, Hybrid!IsRanking
<1>8. ASSUME NEW p \in found, NEW q \in found, Hybrid!Dominates(p, q), At(q) > 0
      PROVE  At(p) \in 1..(At(q) - 1)
  <2>1. PICK i \in DOMAIN hits : hits[i].record = q /\ At(q) = i
    BY <1>4, <1>8
  <2>2. /\ p # q
        /\ \A s \in {lexical.ids, semantic.ids} : q \in Hybrid!Ids(s) =>
             p \in Hybrid!Ids(s) /\ Hybrid!RankIn(s, p) < Hybrid!RankIn(s, q)
    BY <1>6, <1>8 DEF Hybrid!Dominates, Hybrid!IsRanking
  <2>3. i \in DOMAIN fused /\ fused[i] = q
    BY <1>1, <2>1
  <2>4. Legal(lexical.ids) /\ Legal(semantic.ids)
    BY DEF HybridInv, HybridTyped
  <2>5. PICK j \in DOMAIN fused : fused[j] = p /\ j < i
    BY <1>7, <2>2, <2>3, <2>4, DominatedAfter
  <2>6. j \in DOMAIN hits /\ hits[j].record = p
    BY <1>1, <2>1, <2>5
  <2>7. At(p) = j
    BY <1>3, <2>6
  <2>8. QED
    BY <1>1, <2>1, <2>5, <2>6, <2>7
<1>9. \A hit \in Hybrid!Shown : hit.shows = "bare" => hit.record \in written
  BY <1>2 DEF Hybrid!Shown, HybridInv, TextsKept
<1>10. ASSUME written = {}, request.mode = "lexical"
      PROVE  [i \in DOMAIN hits |-> hits[i].record] = Hybrid!Top(Hybrid!Rank(request.filtered), TopK)
  <2> DEFINE t == Top(lexical.ids, TopK)
  <2>1. lexical.is = "ranking" /\ lexical.ids = Hybrid!Rank(request.filtered) /\ semantic.ids = <<>>
    BY <1>2, <1>10 DEF HybridInv, RankingKept, HybridTyped
  <2>2. fused = lexical.ids
    BY <2>1, FusedAlone DEF HybridInv, HybridTyped
  <2>3. Len(hits) = Len(t) /\ \A i \in 1..Len(t) : hits[i].record = t[i]
    BY <1>2, <2>2 DEF HybridInv, HitsFused
  <2>4. t \in Seq(Nat)
    <3>1. lexical.ids \in Seq(Nat) /\ Len(lexical.ids) \in Nat /\ TopK \in Nat
      BY LenProperties, HybridAssumption DEF Hybrid!Assumption, HybridInv, HybridTyped, Legal
    <3>2. QED
      BY <3>1, TopIs
  <2> HIDE DEF t
  <2>5. t = [i \in 1..Len(t) |-> t[i]]
    BY <2>4
  <2>6. [i \in DOMAIN hits |-> hits[i].record] = [i \in 1..Len(t) |-> t[i]]
    BY <1>1, <2>3
  <2>7. QED
    BY <2>1, <2>5, <2>6, HybridNames DEF t
<1> HIDE DEF found, hits
<1>11. QED
  BY <1>5, <1>8, <1>9, <1>10 DEF Hybrid!BestInEveryLegFirst, found, hits
-----------------------------------------------------------------------------
(* The invariant of a behaviour that is of a search.                       *)

HybridHolds == part = "hybrid" => HybridInv

\* It holds when the search has not begun.
LEMMA HybridHoldsAtFirst == Init => HybridHolds
  BY HybridInit DEF Init, HybridHolds

\* Only the search's own steps touch it.
LEMMA HybridHoldsOn ==
  ASSUME HybridHolds, [Next]_vars
  PROVE  HybridHolds'
<1> SUFFICES ASSUME part' = "hybrid" PROVE HybridInv'
  BY DEF HybridHolds
<1>1. CASE Choose
  BY <1>1, InputsAssumption DEF Choose
<1>2. CASE part = "hybrid" /\ [Hybrid!Next]_hybridVars
  BY <1>2, HybridStep DEF HybridHolds
<1>3. QED
  BY <1>1, <1>2 DEF Next, vars, IndexNext, HybridNext, GraphNext, NewestNext, hybridVars

THEOREM HybridInvHolds == Spec => []HybridHolds
<1>1. HybridHolds /\ [Next]_vars => HybridHolds'
  BY HybridHoldsOn
<1>2. QED
  BY <1>1, HybridHoldsAtFirst, PTL DEF Spec

\* A filtered search never shows a record that did not pass its filters while it
\* ran, nor a record twice (hybrid_async.py search).
THEOREM FilteredNeverGetsShown == Spec => []FilteredNeverShown
<1>1. HybridHolds => FilteredNeverShown
  BY NothingUnfiltered DEF HybridHolds, FilteredNeverShown
<1>2. QED
  BY <1>1, HybridInvHolds, PTL

\* Whatever the legs ranked, the hits shown respect the order of every leg, and
\* one without its text was written during the search (hybrid_async.py _fuse).
THEOREM ShownBestInEveryLegFirst == Spec => []BestInEveryLegFirst
<1>1. HybridHolds => BestInEveryLegFirst
  BY ShownInOrder DEF HybridHolds, BestInEveryLegFirst
<1>2. QED
  BY <1>1, HybridInvHolds, PTL
-----------------------------------------------------------------------------
(* The text index.                                                         *)

LEMMA IndexNames ==
  /\ \A S : Index!Cardinality(S) = Cardinality(S)
  /\ \A S : Index!Min(S) = Min(S) /\ Index!Max(S) = Max(S)
  /\ \A S, score, name : Index!BestFirst(S, score, name) = BestFirst(S, score, name)
  /\ \A s, n : Index!Top(s, n) = Top(s, n)
  /\ \A f, S : Index!Restrict(f, S) = [x \in S |-> f[x]]
  /\ \A f : Index!Range(f) = {f[x] : x \in DOMAIN f}
<1>1. \A S : Index!Cardinality(S) = Cardinality(S)
  BY DEF Index!Cardinality, Cardinality, Index!IsFiniteSet, IsFiniteSet
<1>2. \A S : Index!Min(S) = Min(S) /\ Index!Max(S) = Max(S)
  BY DEF Index!Min, Min, Index!Max, Max
<1>3. \A S, score, name : Index!BestFirst(S, score, name) = BestFirst(S, score, name)
  BY DEF Index!BestFirst, BestFirst, Index!ComesBefore, ComesBefore,
         Index!Cardinality, Cardinality, Index!IsFiniteSet, IsFiniteSet
<1>4. \A s, n : Index!Top(s, n) = Top(s, n)
  BY <1>2 DEF Index!Top, Top
<1>5. \A f, S : Index!Restrict(f, S) = [x \in S |-> f[x]]
  BY DEF Index!Restrict
<1>6. \A f : Index!Range(f) = {f[x] : x \in DOMAIN f}
  BY DEF Index!Range
<1>7. QED
  BY <1>1, <1>2, <1>3, <1>4, <1>5, <1>6

Held == DOMAIN documents
Document == [doc_id : Nat, score : Nat, metadata : SUBSET (Keys \X Values)]

IndexTyped ==
  /\ Held \in SUBSET RecordIds /\ opened \in SUBSET Stores
  /\ \A r \in Held : documents[r] \in Document
  /\ \A q, r \in Held : documents[q].doc_id = documents[r].doc_id => q = r

\* A row of the FTS5 index for every document, and none besides.
RowsOfDocuments ==
  /\ DOMAIN fts = {documents[r].doc_id : r \in Held}
  /\ \A r \in Held : fts[documents[r].doc_id] = documents[r].score

\* A tag is one of a document's metadata.
TagsOfDocuments ==
  \A row \in tags : \E r \in Held : \E tag \in documents[r].metadata :
    row = <<documents[r].doc_id, tag[1], tag[2]>>

\* The keys recorded as built are among those of the store that is open, so that
\* what it writes has its tags: true only while each store's keys include those
\* of the stores opened before it.
BuiltForOpened ==
  /\ \A s, t \in opened : s = t
  /\ facetKeys = NoKeys => Held = {}
  /\ facetKeys = NoKeys <=> opened = {}
  /\ facetKeys # NoKeys => \A s \in opened : facetKeys \subseteq KeysOf[s]

IndexInv == IndexTyped /\ RowsOfDocuments /\ TagsOfDocuments /\ BuiltForOpened /\ Index!BuiltTagsComplete

LEMMA IndexFirst == Index!Init => IndexInv
  BY DEF Index!Init, IndexInv, IndexTyped, Held, RowsOfDocuments, TagsOfDocuments, BuiltForOpened,
         Index!BuiltTagsComplete

LEMMA IndexConstants ==
  /\ \A s \in Stores : KeysOf[s] \in SUBSET Keys /\ KeysOf[s] # NoKeys
  /\ RecordIds \in SUBSET Nat /\ IsFiniteSet(RecordIds)
  /\ Contents \in SUBSET [score : Nat, metadata : SUBSET (Keys \X Values)]
<1>1. \A S : Index!IsFiniteSet(S) = IsFiniteSet(S)
  BY DEF Index!IsFiniteSet, IsFiniteSet
<1>2. QED
  BY <1>1, IndexAssumption DEF Index!Assumption

\* Opening the file.
LEMMA OpenKeeps ==
  ASSUME KeysOnlyGrow, IndexInv, NEW s \in Stores, Index!Open(s)
  PROVE  IndexInv'
<1>1. UNCHANGED <<documents, fts, tags>> /\ opened' = {s} /\ Held' = Held
  BY DEF Index!Open, Held
<1>2. IndexTyped' /\ RowsOfDocuments' /\ TagsOfDocuments'
  BY <1>1 DEF IndexInv, IndexTyped, RowsOfDocuments, TagsOfDocuments, Document
<1>3. CASE facetKeys = NoKeys
  <2>1. Held = {} /\ facetKeys' = KeysOf[s] /\ facetKeys' # NoKeys
    BY <1>3, IndexConstants DEF IndexInv, BuiltForOpened, Held, Index!Open, Index!Bootstrapped
  <2>2. BuiltForOpened'
    BY <1>1, <2>1 DEF BuiltForOpened
  <2>3. Index!BuiltTagsComplete'
    BY <1>1, <2>1 DEF Index!BuiltTagsComplete, Held
  <2>4. QED
    BY <1>2, <2>2, <2>3 DEF IndexInv
<1>4. CASE facetKeys # NoKeys
  <2>1. facetKeys' = facetKeys
    BY <1>4 DEF Index!Open, Index!Bootstrapped
  <2>2. PICK t \in opened : KeysOf[t] \subseteq KeysOf[s] /\ facetKeys \subseteq KeysOf[t]
    BY <1>4 DEF IndexInv, BuiltForOpened, Index!Open
  <2>3. BuiltForOpened'
    BY <1>1, <1>4, <2>1, <2>2 DEF BuiltForOpened
  <2>4. Index!BuiltTagsComplete'
    BY <1>1, <2>1 DEF IndexInv, Index!BuiltTagsComplete, Index!TagRows
  <2>5. QED
    BY <1>2, <2>3, <2>4 DEF IndexInv
<1>5. QED
  BY <1>3, <1>4

\* The id an upsert gives a record: its own, or one no document has.
LEMMA IdsAreFresh ==
  ASSUME IndexInv, NEW r \in RecordIds
  PROVE  LET docId == IF r \in Held THEN documents[r].doc_id ELSE Max(DOMAIN fts \union {0}) + 1
         IN docId \in Nat /\ \A q \in Held : documents[q].doc_id = docId => q = r
<1> DEFINE I == DOMAIN fts \union {0}
<1>1. \A q \in Held : documents[q].doc_id \in Nat
  BY DEF IndexInv, IndexTyped, Document
<1>2. CASE r \in Held
  BY <1>1, <1>2 DEF IndexInv, IndexTyped
<1>3. CASE r \notin Held
  <2>1. Held \in SUBSET RecordIds /\ IsFiniteSet(Held)
    BY IndexConstants, FS_Subset DEF IndexInv, IndexTyped
  <2>2. IsFiniteSet({documents[q].doc_id : q \in Held})
    <3> DEFINE f == [q \in Held |-> documents[q].doc_id]
    <3>1. f \in Surjection(Held, {documents[q].doc_id : q \in Held})
      BY DEF Surjection
    <3>2. QED
      BY <2>1, <3>1, FS_Surjection
  <2>3. DOMAIN fts = {documents[q].doc_id : q \in Held}
    BY DEF IndexInv, RowsOfDocuments
  <2>4. IsFiniteSet(I)
    BY <2>2, <2>3, FS_AddElement
  <2>5. I \in SUBSET Nat /\ 0 \in I
    BY <1>1, <2>3
  <2> HIDE DEF I
  <2>6. Max(I) \in I /\ \A n \in I : n <= Max(I)
    BY <2>4, <2>5, Extremes
  <2>7. Max(I) \in Nat
    BY <2>5, <2>6
  <2>8. \A q \in Held : documents[q].doc_id \in I
    BY <2>3 DEF I
  <2>9. \A q \in Held : documents[q].doc_id # Max(I) + 1
    <3> TAKE q \in Held
    <3>1. documents[q].doc_id <= Max(I) /\ documents[q].doc_id \in Nat
      BY <1>1, <2>6, <2>8
    <3>2. QED
      BY <2>7, <3>1
  <2>10. Max(I) = Max(DOMAIN fts \union {0})
    BY DEF I
  <2>11. Max(I) + 1 \in Nat
    BY <2>7
  <2>12. QED
    BY <1>3, <2>9, <2>10, <2>11
<1>4. QED
  BY <1>2, <1>3

\* Writing a document.
LEMMA WriteKeeps ==
  ASSUME IndexInv, NEW s \in Stores, NEW r \in RecordIds, NEW content \in Contents,
         Index!Write(s, r, content)
  PROVE  IndexInv'
<1> DEFINE docId == IF r \in Held THEN documents[r].doc_id ELSE Max(DOMAIN fts \union {0}) + 1
           doc == [doc_id |-> docId, score |-> content.score, metadata |-> content.metadata]
           new == {<<docId, tag[1], tag[2]>> : tag \in Index!TagRows(content.metadata, KeysOf[s])}
<1>1. /\ s \in opened /\ UNCHANGED <<facetKeys, opened>>
      /\ documents' = [x \in Held \union {r} |-> IF x = r THEN doc ELSE documents[x]]
      /\ fts' = [x \in DOMAIN fts \union {docId} |-> IF x = docId THEN content.score ELSE fts[x]]
      /\ tags' = {row \in tags : row[1] # docId} \union new
  BY IndexNames DEF Index!Write, Index!With, Held
<1>2. docId \in Nat /\ \A q \in Held : documents[q].doc_id = docId => q = r
  BY IdsAreFresh
<1>3. r \in Held => documents[r].doc_id = docId
  OBVIOUS
<1>4. content.score \in Nat /\ content.metadata \in SUBSET (Keys \X Values)
  BY IndexConstants
<1>5. content.metadata = doc.metadata /\ content.score = doc.score /\ docId = doc.doc_id /\ doc \in Document
  BY <1>2, <1>4 DEF Document
<1> HIDE DEF docId, doc
<1>6. /\ Held' = Held \union {r}
      /\ documents'[r] = doc
      /\ \A q \in Held : q # r => documents'[q] = documents[q]
  BY <1>1 DEF Held
<1>7. IndexTyped'
  <2>1. Held' \in SUBSET RecordIds /\ opened' \in SUBSET Stores
    BY <1>1, <1>6 DEF IndexInv, IndexTyped
  <2>2. \A q \in Held' : documents'[q] \in Document
    BY <1>5, <1>6 DEF IndexInv, IndexTyped
  <2>3. \A p, q \in Held' : documents'[p].doc_id = documents'[q].doc_id => p = q
    BY <1>2, <1>5, <1>6 DEF IndexInv, IndexTyped
  <2>4. QED
    BY <2>1, <2>2, <2>3 DEF IndexTyped, Document
<1>8. RowsOfDocuments'
  <2>1. DOMAIN fts = {documents[q].doc_id : q \in Held}
    BY DEF IndexInv, RowsOfDocuments
  <2>2. DOMAIN fts' = DOMAIN fts \union {docId}
    BY <1>1
  <2>3. \A q \in Held : documents[q].doc_id \in {documents'[p].doc_id : p \in Held'}
    BY <1>3, <1>5, <1>6
  <2>4. DOMAIN fts' = {documents'[q].doc_id : q \in Held'}
    BY <1>5, <1>6, <2>1, <2>2, <2>3
  <2>5. \A q \in Held' : fts'[documents'[q].doc_id] = documents'[q].score
    <3> TAKE q \in Held'
    <3>1. CASE q = r
      BY <1>1, <1>5, <1>6, <3>1
    <3>2. CASE q # r
      BY <1>1, <1>2, <1>6, <2>1, <3>2 DEF IndexInv, RowsOfDocuments
    <3>3. QED
      BY <3>1, <3>2
  <2>6. QED
    BY <2>4, <2>5 DEF RowsOfDocuments
<1>9. TagsOfDocuments'
  <2> SUFFICES ASSUME NEW row \in tags'
               PROVE  \E q \in Held' : \E tag \in documents'[q].metadata :
                        row = <<documents'[q].doc_id, tag[1], tag[2]>>
    BY DEF TagsOfDocuments
  <2>1. CASE row \in new
    BY <1>5, <1>6, <2>1 DEF Index!TagRows
  <2>2. CASE row \in tags /\ row[1] # docId
    <3>1. PICK q \in Held : \E tag \in documents[q].metadata :
            row = <<documents[q].doc_id, tag[1], tag[2]>>
      BY <2>2 DEF IndexInv, TagsOfDocuments
    <3>2. q # r
      BY <1>3, <2>2, <3>1
    <3>3. QED
      BY <1>6, <3>1, <3>2
  <2>3. QED
    BY <1>1, <2>1, <2>2
<1>10. BuiltForOpened'
  BY <1>1, <1>6 DEF IndexInv, BuiltForOpened
<1>11. Index!BuiltTagsComplete'
  <2> SUFFICES ASSUME facetKeys' # NoKeys, NEW q \in Held',
                      NEW tag \in documents'[q].metadata, tag[1] \in facetKeys'
               PROVE  <<documents'[q].doc_id, tag[1], tag[2]>> \in tags'
    BY DEF Index!BuiltTagsComplete, Index!TagRows, Held
  <2>1. facetKeys # NoKeys /\ tag[1] \in facetKeys
    BY <1>1
  <2>2. CASE q = r
    <3>1. tag[1] \in KeysOf[s]
      BY <1>1, <2>1 DEF IndexInv, BuiltForOpened
    <3>2. QED
      BY <1>1, <1>5, <1>6, <2>2, <3>1 DEF Index!TagRows
  <2>3. CASE q # r
    <3>1. q \in Held /\ documents'[q] = documents[q] /\ documents[q].doc_id # docId
      BY <1>2, <1>6, <2>3
    <3>2. <<documents[q].doc_id, tag[1], tag[2]>> \in tags
      BY <2>1, <3>1 DEF IndexInv, Index!BuiltTagsComplete, Index!TagRows, Held
    <3>3. QED
      BY <1>1, <3>1, <3>2
  <2>4. QED
    BY <2>2, <2>3
<1>12. QED
  BY <1>7, <1>8, <1>9, <1>10, <1>11 DEF IndexInv

\* Deleting a document.
LEMMA DeleteKeeps ==
  ASSUME IndexInv, NEW s \in Stores, NEW r \in RecordIds, Index!Delete(s, r)
  PROVE  IndexInv'
<1> DEFINE gone == {documents[q].doc_id : q \in Held \intersect {r}}
<1>1. /\ s \in opened /\ UNCHANGED <<facetKeys, opened>>
      /\ documents' = [x \in Held \ {r} |-> documents[x]]
      /\ fts' = [x \in DOMAIN fts \ gone |-> fts[x]]
      /\ tags' = {row \in tags : row[1] \notin gone}
  BY IndexNames DEF Index!Delete, Index!Without, Held
<1>2. /\ Held' = Held \ {r}
      /\ \A q \in Held' : q \in Held /\ documents'[q] = documents[q] /\ documents[q].doc_id \notin gone
  BY <1>1 DEF IndexInv, IndexTyped, Held
<1>3. \A q \in Held : documents[q].doc_id \notin gone => q \in Held'
  BY <1>2
<1>4. IndexTyped'
  BY <1>1, <1>2 DEF IndexInv, IndexTyped, Document
<1> HIDE DEF gone
<1>5. RowsOfDocuments'
  <2>1. DOMAIN fts = {documents[q].doc_id : q \in Held} /\ DOMAIN fts' = DOMAIN fts \ gone
    BY <1>1 DEF IndexInv, RowsOfDocuments
  <2>2. DOMAIN fts' = {documents'[q].doc_id : q \in Held'}
    BY <1>2, <1>3, <2>1
  <2>3. \A q \in Held' : fts'[documents'[q].doc_id] = documents'[q].score
    BY <1>1, <1>2, <2>1 DEF IndexInv, RowsOfDocuments
  <2>4. QED
    BY <2>2, <2>3 DEF RowsOfDocuments
<1>6. TagsOfDocuments'
  <2> SUFFICES ASSUME NEW row \in tags'
               PROVE  \E q \in Held' : \E tag \in documents'[q].metadata :
                        row = <<documents'[q].doc_id, tag[1], tag[2]>>
    BY DEF TagsOfDocuments
  <2>1. row \in tags /\ row[1] \notin gone
    BY <1>1
  <2>2. PICK q \in Held : \E tag \in documents[q].metadata :
          row = <<documents[q].doc_id, tag[1], tag[2]>>
    BY <2>1 DEF IndexInv, TagsOfDocuments
  <2>3. q \in Held' /\ documents'[q] = documents[q]
    BY <1>2, <1>3, <2>1, <2>2
  <2>4. QED
    BY <2>2, <2>3
<1>7. BuiltForOpened'
  BY <1>1, <1>2 DEF IndexInv, BuiltForOpened
<1>8. Index!BuiltTagsComplete'
  <2> SUFFICES ASSUME facetKeys' # NoKeys, NEW q \in Held',
                      NEW tag \in documents'[q].metadata, tag[1] \in facetKeys'
               PROVE  <<documents'[q].doc_id, tag[1], tag[2]>> \in tags'
    BY DEF Index!BuiltTagsComplete, Index!TagRows, Held
  <2>1. <<documents[q].doc_id, tag[1], tag[2]>> \in tags
    BY <1>1, <1>2 DEF IndexInv, Index!BuiltTagsComplete, Index!TagRows, Held
  <2>2. QED
    BY <1>1, <1>2, <2>1
<1>9. QED
  BY <1>4, <1>5, <1>6, <1>7, <1>8 DEF IndexInv

\* Building every document's tags again.
LEMMA RebuildKeeps ==
  ASSUME IndexInv, NEW s \in Stores, Index!RebuildTags(s)
  PROVE  IndexInv'
<1>1. /\ s \in opened /\ UNCHANGED <<documents, fts, opened>> /\ facetKeys' = KeysOf[s]
      /\ Held' = Held
      /\ tags' = UNION {{<<documents[r].doc_id, tag[1], tag[2]>> :
                           tag \in Index!TagRows(documents[r].metadata, KeysOf[s])} : r \in Held}
  BY DEF Index!RebuildTags, Held
<1>2. IndexTyped' /\ RowsOfDocuments'
  BY <1>1 DEF IndexInv, IndexTyped, RowsOfDocuments, Document
<1>3. TagsOfDocuments'
  BY <1>1 DEF TagsOfDocuments, Index!TagRows
<1>4. BuiltForOpened'
  BY <1>1, IndexConstants DEF IndexInv, BuiltForOpened
<1>5. Index!BuiltTagsComplete'
  BY <1>1 DEF Index!BuiltTagsComplete, Index!TagRows, Held
<1>6. QED
  BY <1>2, <1>3, <1>4, <1>5 DEF IndexInv

LEMMA IndexStep ==
  ASSUME KeysOnlyGrow, IndexInv, [Index!Next]_indexVars
  PROVE  IndexInv'
<1>1. CASE UNCHANGED indexVars
  BY <1>1 DEF indexVars, IndexInv, IndexTyped, Held, Document, RowsOfDocuments, TagsOfDocuments,
              BuiltForOpened, Index!BuiltTagsComplete, Index!TagRows
<1>2. QED
  BY <1>1, OpenKeeps, WriteKeeps, DeleteKeeps, RebuildKeeps DEF Index!Next

IndexHolds == part = "index" => IndexInv

LEMMA IndexHoldsAtFirst == Init => IndexHolds
  BY IndexFirst DEF Init, IndexHolds

LEMMA IndexHoldsOn ==
  ASSUME KeysOnlyGrow, IndexHolds, [Next]_vars
  PROVE  IndexHolds'
<1> SUFFICES ASSUME part' = "index" PROVE IndexInv'
  BY DEF IndexHolds
<1>1. CASE Choose
  BY <1>1, InputsAssumption DEF Choose
<1>2. CASE part = "index" /\ [Index!Next]_indexVars
  BY <1>2, IndexStep DEF IndexHolds
<1>3. QED
  BY <1>1, <1>2 DEF Next, vars, IndexNext, HybridNext, GraphNext, NewestNext, indexVars

THEOREM IndexInvHolds == ASSUME KeysOnlyGrow PROVE Spec => []IndexHolds
<1>1. IndexHolds /\ [Next]_vars => IndexHolds'
  BY IndexHoldsOn
<1>2. QED
  BY <1>1, IndexHoldsAtFirst, PTL DEF Spec

-----------------------------------------------------------------------------
(* Its answers.                                                            *)

Built(filters) == \A filter \in filters : facetKeys # NoKeys /\ filter.key \in facetKeys

\* A built key's tag rows are the metadata of the documents.
LEMMA RowsAreMetadata ==
  ASSUME IndexInv, facetKeys # NoKeys, NEW key \in facetKeys, NEW value, NEW r \in Held
  PROVE  <<documents[r].doc_id, key, value>> \in tags <=> <<key, value>> \in documents[r].metadata
<1>1. ASSUME <<documents[r].doc_id, key, value>> \in tags
      PROVE  <<key, value>> \in documents[r].metadata
  <2>1. PICK q \in Held : \E tag \in documents[q].metadata :
          <<documents[r].doc_id, key, value>> = <<documents[q].doc_id, tag[1], tag[2]>>
    BY <1>1 DEF IndexInv, TagsOfDocuments
  <2>2. PICK tag \in documents[q].metadata :
          documents[r].doc_id = documents[q].doc_id /\ key = tag[1] /\ value = tag[2]
    BY <2>1
  <2>3. q = r
    BY <2>2 DEF IndexInv, IndexTyped
  <2>4. tag \in Keys \X Values
    BY <2>2 DEF IndexInv, IndexTyped, Document
  <2>5. tag = <<key, value>>
    BY <2>2, <2>4
  <2>6. QED
    BY <2>2, <2>3, <2>5
<1>2. ASSUME <<key, value>> \in documents[r].metadata
      PROVE  <<documents[r].doc_id, key, value>> \in tags
  <2>1. <<key, value>>[1] = key /\ <<key, value>>[2] = value
    OBVIOUS
  <2>2. <<key, value>> \in Index!TagRows(documents[r].metadata, facetKeys)
    BY <1>2, <2>1 DEF Index!TagRows
  <2>3. QED
    BY <2>1, <2>2 DEF IndexInv, Index!BuiltTagsComplete, Held
<1>3. QED
  BY <1>1, <1>2

LEMMA ConditionsAre ==
  ASSUME IndexInv, NEW filters \in SUBSET Index!Filters, Built(filters), NEW r \in Held
  PROVE  Index!Conditions(documents[r].doc_id, filters)
           <=> Index!MatchesFilters(documents[r].metadata, filters)
<1>1. ASSUME NEW filter \in filters
      PROVE  (\E value \in filter.values : <<documents[r].doc_id, filter.key, value>> \in tags)
               <=> (\E value \in filter.values : <<filter.key, value>> \in documents[r].metadata)
  <2>1. facetKeys # NoKeys /\ filter.key \in facetKeys
    BY DEF Built
  <2>2. \A value : <<documents[r].doc_id, filter.key, value>> \in tags
                     <=> <<filter.key, value>> \in documents[r].metadata
    BY <2>1, RowsAreMetadata
  <2>3. QED
    BY <2>2
<1>2. ASSUME NEW filter \in filters
      PROVE  Index!Condition(documents[r].doc_id, filter)
               <=> ((\E value \in filter.values : <<filter.key, value>> \in documents[r].metadata)
                      # filter.negated)
  <2>1. ((\E value \in filter.values : <<documents[r].doc_id, filter.key, value>> \in tags) # filter.negated)
          <=> ((\E value \in filter.values : <<filter.key, value>> \in documents[r].metadata)
                 # filter.negated)
    BY <1>1, Zenon
  <2>2. QED
    BY <2>1 DEF Index!Condition
<1>3. QED
  BY <1>2 DEF Index!Conditions, Index!MatchesFilters

\* A document's FTS5 row matches as the document does.
LEMMA MatchedIs ==
  ASSUME IndexInv, NEW query \in Index!Queries, NEW r \in Held
  PROVE  /\ documents[r].doc_id \in DOMAIN fts /\ documents[r].score \in Nat
         /\ fts[documents[r].doc_id] = documents[r].score
         /\ Index!Matched(documents[r].doc_id, query)
              <=> /\ query = "match" => documents[r].score > 0
                  /\ query = "negation" => documents[r].score = 0
<1>1. documents[r].doc_id \in DOMAIN fts /\ fts[documents[r].doc_id] = documents[r].score
  BY DEF IndexInv, RowsOfDocuments
<1>2. documents[r].score \in Nat
  BY DEF IndexInv, IndexTyped, Document
<1>3. QED
  BY <1>1, <1>2 DEF Index!Matched, Index!Queries

LEMMA FilterIdsAre ==
  ASSUME IndexInv, NEW query \in Index!Queries, NEW filters \in SUBSET Index!Filters, Built(filters)
  PROVE  /\ Index!FilterIds(query, filters) = Index!Matching(query, filters)
         /\ Index!Matching(query, filters) \in SUBSET Held
<1>1. Index!Matching(query, filters) \in SUBSET Held
  BY DEF Index!Matching, Held
<1>2. Index!FilterIds(query, filters) \in SUBSET Held
  BY DEF Index!FilterIds, Held
<1>3. ASSUME NEW r \in Held
      PROVE  r \in Index!FilterIds(query, filters) <=> r \in Index!Matching(query, filters)
  BY MatchedIs, ConditionsAre DEF Index!FilterIds, Index!Matching, Held
<1>4. QED
  BY <1>1, <1>2, <1>3

\* There are as many row ids as documents.
LEMMA AsManyRows ==
  ASSUME IndexInv, NEW S \in SUBSET Held
  PROVE  Cardinality({documents[r].doc_id : r \in S}) = Cardinality(S) /\ IsFiniteSet(S)
<1> DEFINE f == [r \in S |-> documents[r].doc_id]
           I == {documents[r].doc_id : r \in S}
<1>1. IsFiniteSet(S)
  BY IndexConstants, FS_Subset DEF IndexInv, IndexTyped
<1>2. f \in Bijection(S, I)
  BY DEF Bijection, Injection, IsInjective, Surjection, IndexInv, IndexTyped
<1>3. QED
  BY <1>1, <1>2, FS_Bijection DEF ExistsBijection

\* The rows a ranked read goes over are those of the documents that match.
LEMMA RowsOfMatches ==
  ASSUME IndexInv, NEW filters \in SUBSET Index!Filters, Built(filters)
  PROVE  {id \in DOMAIN fts : fts[id] > 0 /\ Index!Conditions(id, filters)}
           = {documents[r].doc_id : r \in Index!Matching("match", filters)}
<1> DEFINE rows == {id \in DOMAIN fts : fts[id] > 0 /\ Index!Conditions(id, filters)}
           found == Index!Matching("match", filters)
<1>1. "match" \in Index!Queries
  BY DEF Index!Queries
<1>2. \A r \in Held : documents[r].doc_id \in rows <=> r \in found
  BY <1>1, MatchedIs, ConditionsAre DEF Index!Matching, Held
<1>3. found \in SUBSET Held
  BY <1>1, FilterIdsAre
<1>4. \A id \in rows : \E r \in Held : id = documents[r].doc_id
  BY DEF IndexInv, RowsOfDocuments
<1> HIDE DEF rows, found
<1>5. rows = {documents[r].doc_id : r \in found}
  BY <1>2, <1>3, <1>4
<1>6. QED
  BY <1>5 DEF rows, found

LEMMA CountIs ==
  ASSUME IndexInv, NEW query \in Index!Queries, NEW filters \in SUBSET Index!Filters, Built(filters), NEW cap
  PROVE  Index!CountMatches(query, filters, cap)
           = Index!Min({Index!Cardinality(Index!Matching(query, filters)), cap})
<1> DEFINE found == Index!Matching(query, filters)
           rows == IF query = "match" THEN {id \in DOMAIN fts : fts[id] > 0 /\ Index!Conditions(id, filters)}
                   ELSE {documents[r].doc_id : r \in Index!FilterIds(query, filters)}
<1>1. rows = {documents[r].doc_id : r \in found}
  BY RowsOfMatches, FilterIdsAre
<1>2. Cardinality(rows) = Cardinality(found)
  BY <1>1, FilterIdsAre, AsManyRows
<1>3. Index!CountMatches(query, filters, cap) = Index!Min({Index!Cardinality(rows), cap})
  BY DEF Index!CountMatches
<1> HIDE DEF rows
<1>4. QED
  BY <1>2, <1>3, IndexNames

LEMMA FacetIs ==
  ASSUME IndexInv, NEW query \in Index!Queries, NEW filters \in SUBSET Index!Filters, Built(filters),
         facetKeys # NoKeys, NEW key \in facetKeys, NEW value
  PROVE  Index!FacetCount(key, value, query, filters) = Index!FacetTally(key, value, query, filters)
<1> DEFINE rest == Index!Others(filters, key)
           held == {documents[r].doc_id : r \in Held}
           rows == CASE query = "match" -> {id \in DOMAIN fts : fts[id] > 0}
                     [] query = "none" -> {row[1] : row \in tags}
                     [] OTHER -> {id \in held : Index!Matched(id, query)}
           counted == {id \in rows : <<id, key, value>> \in tags /\ Index!Conditions(id, rest)}
           found == {r \in Index!Matching(query, rest) : <<key, value>> \in documents[r].metadata}
<1>1. rest \in SUBSET Index!Filters /\ Built(rest)
  BY DEF Index!Others, Built
<1>2. found \in SUBSET Held
  BY <1>1, FilterIdsAre
<1>3. \A id : id \in rows => id \in held
  <2>1. DOMAIN fts = held
    BY DEF IndexInv, RowsOfDocuments
  <2>2. ASSUME NEW row \in tags PROVE row[1] \in held
    <3>1. PICK r \in Held : \E tag \in documents[r].metadata : row = <<documents[r].doc_id, tag[1], tag[2]>>
      BY DEF IndexInv, TagsOfDocuments
    <3>2. row[1] = documents[r].doc_id
      BY <3>1
    <3>3. QED
      BY <3>2
  <2>3. QED
    BY <2>1, <2>2
<1>4. ASSUME NEW r \in Held, <<documents[r].doc_id, key, value>> \in tags
      PROVE  documents[r].doc_id \in rows <=> Index!Matched(documents[r].doc_id, query)
  <2>1. documents[r].doc_id \in DOMAIN fts /\ documents[r].doc_id \in held
    BY MatchedIs
  <2>2. documents[r].doc_id \in {row[1] : row \in tags}
    <3>1. <<documents[r].doc_id, key, value>>[1] = documents[r].doc_id
      OBVIOUS
    <3>2. QED
      BY <1>4, <3>1
  <2>3. QED
    BY <2>1, <2>2 DEF Index!Matched, Index!Queries
<1>5. ASSUME NEW r \in Held PROVE documents[r].doc_id \in counted <=> r \in found
  <2>1. <<documents[r].doc_id, key, value>> \in tags <=> <<key, value>> \in documents[r].metadata
    BY RowsAreMetadata
  <2>2. r \in Index!Matching(query, rest)
          <=> Index!Matched(documents[r].doc_id, query) /\ Index!Conditions(documents[r].doc_id, rest)
    BY <1>1, MatchedIs, ConditionsAre DEF Index!Matching, Held
  <2> HIDE DEF rows, rest
  <2>3. QED
    BY <1>4, <2>1, <2>2
<1> HIDE DEF rows
<1>6. counted = {documents[r].doc_id : r \in found}
  <2>1. \A id \in counted : \E r \in Held : id = documents[r].doc_id
    BY <1>3
  <2> HIDE DEF counted, found
  <2>2. QED
    BY <1>2, <1>5, <2>1
<1>7. Cardinality(counted) = Cardinality(found)
  BY <1>2, <1>6, AsManyRows
<1>8. /\ Index!FacetCount(key, value, query, filters) = Index!Cardinality(counted)
      /\ Index!FacetTally(key, value, query, filters) = Index!Cardinality(found)
  BY DEF Index!FacetCount, Index!FacetTally, rows, Held
<1> HIDE DEF counted, found
<1>9. QED
  BY <1>7, <1>8, IndexNames

LEMMA CandidatesAre ==
  ASSUME IndexInv, NEW filters \in SUBSET Index!Filters, Built(filters)
  PROVE  Index!FilterCandidates(RecordIds, filters) = Index!Matching("none", filters)
<1>1. \A r \in Held : r \in RecordIds
  BY DEF IndexInv, IndexTyped
<1>2. \A r \in Held : Index!Conditions(documents[r].doc_id, filters)
                        <=> Index!MatchesFilters(documents[r].metadata, filters)
  BY ConditionsAre
<1>3. QED
  BY <1>1, <1>2 DEF Index!FilterCandidates, Index!Matching, Held

LEMMA BuiltWhenAnswered ==
  ASSUME NEW s, NEW filters, NEW keys, Index!Answers(s, keys),
         \A filter \in filters : filter.key \in keys
  PROVE  Built(filters)
  BY DEF Index!Answers, Index!IsBuilt, Built

LEMMA ReferenceAnswers == IndexInv => Index!AnswersAreReference
<1> SUFFICES ASSUME IndexInv, NEW s \in opened, NEW filters \in Index!FilterSets, NEW query \in Index!Queries,
                    Index!Answers(s, {filter.key : filter \in filters})
             PROVE  LET keys == {filter.key : filter \in filters}
                        expected == Index!Matching(query, filters)
                    IN /\ Index!FilterIds(query, filters) = expected
                       /\ Index!FilterCandidates(RecordIds, filters) = Index!Matching("none", filters)
                       /\ \A cap \in {1, 2} : Index!CountMatches(query, filters, cap)
                                                = Index!Min({Index!Cardinality(expected), cap})
                       /\ \A key \in Keys : Index!Answers(s, keys \union {key}) =>
                            /\ \A value \in Values : Index!FacetCount(key, value, query, filters)
                                                   = Index!FacetTally(key, value, query, filters)
                            /\ \A range \in {f \in Index!Filters : f.key = key} :
                                 Index!RangeCount(range, query, filters)
                                   = Index!Cardinality(Index!Matching(query,
                                                                      Index!Others(filters, key) \union {range}))
  BY DEF Index!AnswersAreReference
<1>1. filters \in SUBSET Index!Filters
  BY DEF Index!FilterSets
<1>2. Built(filters)
  BY BuiltWhenAnswered
<1>3. /\ Index!FilterIds(query, filters) = Index!Matching(query, filters)
      /\ Index!FilterCandidates(RecordIds, filters) = Index!Matching("none", filters)
      /\ \A cap \in {1, 2} : Index!CountMatches(query, filters, cap)
                               = Index!Min({Index!Cardinality(Index!Matching(query, filters)), cap})
  BY <1>1, <1>2, FilterIdsAre, CandidatesAre, CountIs
<1>4. ASSUME NEW key \in Keys, Index!Answers(s, {filter.key : filter \in filters} \union {key}),
             NEW value \in Values
      PROVE  Index!FacetCount(key, value, query, filters) = Index!FacetTally(key, value, query, filters)
  <2>1. facetKeys # NoKeys /\ key \in facetKeys
    BY <1>4 DEF Index!Answers, Index!IsBuilt
  <2>2. QED
    BY <1>1, <1>2, <2>1, FacetIs
<1>5. ASSUME NEW key \in Keys, Index!Answers(s, {filter.key : filter \in filters} \union {key}),
             NEW range \in Index!Filters, range.key = key
      PROVE  Index!RangeCount(range, query, filters)
               = Index!Cardinality(Index!Matching(query, Index!Others(filters, key) \union {range}))
  <2> DEFINE with == Index!Others(filters, key) \union {range}
  <2>1. with \in SUBSET Index!Filters
    BY <1>1 DEF Index!Others
  <2>2. \A filter \in with : filter.key \in {f.key : f \in filters} \union {key}
    BY <1>5 DEF Index!Others
  <2>3. Built(with)
    BY <1>5, <2>2, BuiltWhenAnswered
  <2>4. Index!RangeCount(range, query, filters) = Index!Cardinality(Index!FilterIds(query, with))
    BY <1>5 DEF Index!RangeCount
  <2> HIDE DEF with
  <2>5. Index!RangeCount(range, query, filters) = Index!Cardinality(Index!Matching(query, with))
    BY <2>1, <2>3, <2>4, FilterIdsAre
  <2>6. QED
    BY <2>5 DEF with
<1>6. QED
  BY <1>3, <1>4, <1>5

-----------------------------------------------------------------------------
(* Its rankings.                                                           *)

LEMMA NameIs == ASSUME IndexInv, NEW r \in Held PROVE Index!Name(documents[r].doc_id) = r
  BY DEF IndexInv, IndexTyped, Index!Name, Held

\* An order is of the names its members have.
LEMMA Renamed ==
  ASSUME NEW S, NEW score, NEW name, Orderable(S, score, name), NEW other, \A x \in S : other[x] = name[x]
  PROVE  BestFirst(S, score, other) = BestFirst(S, score, name)
<1> DEFINE b == BestFirst(S, score, other)
<1>1. Orderable(S, score, other)
  BY DEF Orderable
<1>2. Lists(b, S, score, other)
  BY <1>1, BestFirstLists
<1>3. \A x, y \in S : ComesBefore(score, other, x, y) <=> ComesBefore(score, name, x, y)
  BY DEF ComesBefore
<1>4. \A i \in DOMAIN b : b[i] \in S
  BY <1>2, ElementOfSeq DEF Lists
<1> HIDE DEF b
<1>5. Lists(b, S, score, name)
  BY <1>2, <1>3, <1>4 DEF Lists
<1>6. QED
  BY <1>5, OneListing DEF b

\* The best documents are those of the best rows.
LEMMA BestRows ==
  ASSUME IndexInv, NEW found \in SUBSET Held
  PROVE  LET rows == {documents[r].doc_id : r \in found}
             named == [id \in rows |-> Index!Name(id)]
             b == BestFirst(rows, fts, named)
         IN /\ Orderable(rows, fts, named)
            /\ \A id \in rows : fts[id] \in Nat /\ Index!Name(id) \in found
            /\ Cardinality(rows) \in Nat
            /\ BestFirst(found, [r \in found |-> documents[r].score], [r \in found |-> r])
                 = [i \in 1..Cardinality(rows) |-> Index!Name(b[i])]
<1> DEFINE rows == {documents[r].doc_id : r \in found}
           named == [id \in rows |-> Index!Name(id)]
           b == BestFirst(rows, fts, named)
           score == [r \in found |-> documents[r].score]
           self == [r \in found |-> r]
           N == Cardinality(rows)
           c == [i \in 1..N |-> Index!Name(b[i])]
<1>1. /\ \A r \in found : documents[r].doc_id \in rows /\ Index!Name(documents[r].doc_id) = r
      /\ \A id \in rows : /\ Index!Name(id) \in found /\ documents[Index!Name(id)].doc_id = id
                          /\ fts[id] = documents[Index!Name(id)].score /\ fts[id] \in Nat
  BY NameIs, MatchedIs DEF Index!Queries
<1>2. \A r \in found : r \in Nat
  BY IndexConstants DEF IndexInv, IndexTyped
<1>3. IsFiniteSet(found) /\ Cardinality(rows) = Cardinality(found)
  BY AsManyRows
<1>4. IsFiniteSet(rows) /\ N \in Nat
  <2>1. [r \in found |-> documents[r].doc_id] \in Surjection(found, rows)
    BY DEF Surjection
  <2>2. QED
    BY <1>3, <2>1, FS_Surjection, FS_CardinalityType
<1>5. \A id \in rows : named[id] = Index!Name(id) /\ named[id] \in Nat
  BY <1>1, <1>2
<1>6. \A r \in found : self[r] = r /\ score[r] = documents[r].score /\ score[r] \in Nat
  BY MatchedIs DEF Index!Queries
<1> HIDE DEF rows, named, score, self
<1>7. Orderable(rows, fts, named)
  BY <1>1, <1>4, <1>5 DEF Orderable
<1>8. Orderable(found, score, self)
  BY <1>2, <1>3, <1>6 DEF Orderable
<1>9. Lists(b, rows, fts, named)
  BY <1>7, BestFirstLists
<1>10. \A i \in 1..N : b[i] \in rows
  BY <1>9, ElementOfSeq DEF Lists
<1>11. DOMAIN c = 1..N /\ \A i \in 1..N : c[i] = Index!Name(b[i]) /\ c[i] \in found
  BY <1>1, <1>10
<1>12. c \in Seq(found) /\ Len(c) = N
  <2>1. c \in [1..N -> found]
    BY <1>11
  <2>2. QED
    BY <1>4, <2>1
<1>13. \A x, y \in rows : ComesBefore(fts, named, x, y)
                            <=> ComesBefore(score, self, Index!Name(x), Index!Name(y))
  BY <1>1, <1>5, <1>6 DEF ComesBefore
<1>14. Lists(c, found, score, self)
  <2> HIDE DEF c, b
  <2>1. \A r \in found : \E i \in DOMAIN c : c[i] = r
    <3> TAKE r \in found
    <3>1. PICK i \in DOMAIN b : b[i] = documents[r].doc_id
      BY <1>1, <1>9 DEF Lists
    <3>2. QED
      BY <1>1, <1>9, <1>11, <3>1 DEF Lists
  <2>2. \A i, j \in DOMAIN c : i < j <=> ComesBefore(score, self, c[i], c[j])
    BY <1>9, <1>10, <1>11, <1>13 DEF Lists
  <2>3. \A i, j \in DOMAIN c : c[i] = c[j] => i = j
    <3> TAKE i, j \in DOMAIN c
    <3> HAVE c[i] = c[j]
    <3>1. b[i] \in rows /\ b[j] \in rows /\ Index!Name(b[i]) = Index!Name(b[j])
      BY <1>10, <1>11
    <3>2. b[i] = b[j]
      BY <1>1, <3>1
    <3>3. QED
      BY <1>9, <1>11, <3>2 DEF Lists
  <2>4. Len(c) = Cardinality(found) /\ DOMAIN c = 1..Cardinality(found)
    BY <1>3, <1>11, <1>12
  <2>5. QED
    BY <1>12, <2>1, <2>2, <2>3, <2>4 DEF Lists
<1>15. c = BestFirst(found, score, self)
  BY <1>8, <1>14, OneListing
<1>16. QED
  BY <1>1, <1>4, <1>7, <1>15 DEF rows, named, score, self

\* What _ranking keeps of a scored read: the best rows by score, down to a whole
\* tie, and no fewer than were asked for.
Lesser(m, n) == IF m <= n THEN m ELSE n
Kept(rows, f, limit, n, s) ==
  IF n > limit /\ f[s[limit + 1]] = f[s[limit]]
  THEN {s[i] : i \in {j \in 1..Lesser(limit, n) : f[s[j]] > f[s[limit]]}} \union {x \in rows : f[x] = f[s[limit]]}
  ELSE {s[i] : i \in 1..Lesser(limit, n)}

LEMMA CutIsWhole ==
  ASSUME NEW rows, IsFiniteSet(rows), NEW f, \A x \in rows : f[x] \in Nat,
         NEW limit \in Nat \ {0}, NEW n, n = Lesser(Cardinality(rows), limit + 1),
         NEW s \in [1..n -> rows],
         \A i, j \in 1..n : i < j => s[i] # s[j] /\ f[s[i]] >= f[s[j]],
         \A x \in rows : (\A i \in 1..n : s[i] # x) => \A i \in 1..n : f[s[i]] >= f[x]
  PROVE  LET T == Kept(rows, f, limit, n, s)
         IN /\ T \in SUBSET rows /\ \A x \in T, y \in rows : f[y] >= f[x] => y \in T
            /\ Cardinality(T) \in Nat
            /\ Lesser(limit, Cardinality(T)) = Lesser(limit, Cardinality(rows))
<1> DEFINE T == Kept(rows, f, limit, n, s)
           N == Cardinality(rows)
           cut == Lesser(limit, n)
           low == {s[i] : i \in 1..cut}
<1>1. T = IF n > limit /\ f[s[limit + 1]] = f[s[limit]]
          THEN {s[i] : i \in {j \in 1..cut : f[s[j]] > f[s[limit]]}}
                 \union {x \in rows : f[x] = f[s[limit]]}
          ELSE {s[i] : i \in 1..cut}
  BY DEF Kept
<1>2. N \in Nat /\ n = (IF N <= limit + 1 THEN N ELSE limit + 1) /\ cut = (IF limit <= n THEN limit ELSE n)
  BY FS_CardinalityType DEF Lesser
<1> HIDE DEF T, N, cut
<1>3. N \in Nat /\ n \in Nat /\ cut \in Nat /\ cut <= n /\ n <= N
  BY <1>2
<1>4. N = Cardinality(rows)
  BY DEF N
<1>5. \A i \in 1..n : s[i] \in rows /\ f[s[i]] \in Nat
  OBVIOUS
<1>6. IsFiniteSet(low) /\ Cardinality(low) = cut
  <2> DEFINE I == 1..cut
             g == [i \in I |-> s[i]]
  <2>1. \A i \in I : i \in 1..n /\ i \in Int
    BY <1>3
  <2>2. \A i, j \in I : s[i] = s[j] => i = j
    BY <2>1
  <2>3. IsFiniteSet(I) /\ Cardinality(I) = cut
    <3>1. IsFiniteSet(I) /\ Cardinality(I) = IF 1 > cut THEN 0 ELSE cut - 1 + 1
      BY <1>3, FS_Interval
    <3>2. QED
      BY <1>3, <3>1
  <2>4. low = {s[i] : i \in I}
    OBVIOUS
  <2> HIDE DEF I
  <2>5. g \in Bijection(I, low)
    BY <2>2, <2>4 DEF Bijection, Injection, IsInjective, Surjection
  <2>6. QED
    BY <2>3, <2>5, FS_Bijection DEF ExistsBijection
<1>7. low \in SUBSET rows
  BY <1>3, <1>5
<1> DEFINE Good == /\ T \in SUBSET rows /\ \A x \in T, y \in rows : f[y] >= f[x] => y \in T
                   /\ Cardinality(T) \in Nat /\ Lesser(limit, Cardinality(T)) = Lesser(limit, Cardinality(rows))
<1>8. ASSUME n <= limit PROVE Good
  <2>1. n = N /\ cut = n /\ T = low
    BY <1>1, <1>2, <1>3, <1>8
  <2>2. T = rows
    BY <1>4, <1>6, <1>7, <2>1, FS_Subset
  <2>3. QED
    BY <1>4, <1>3, <2>2
<1>9. ASSUME n > limit PROVE Good
  <2>1. n = limit + 1 /\ cut = limit /\ limit \in 1..n /\ limit + 1 \in 1..n /\ limit < N /\ limit < limit + 1
    BY <1>2, <1>3, <1>9
  <2> DEFINE b == f[s[limit]]
             z == f[s[limit + 1]]
  <2>2. b \in Nat /\ z \in Nat /\ z <= b
    BY <1>5, <2>1
  <2>3. \A i \in 1..limit : i \in 1..n /\ f[s[i]] >= b /\ f[s[i]] \in Nat /\ s[i] \in rows
    <3> TAKE i \in 1..limit
    <3>1. i \in 1..n
      BY <2>1
    <3>2. CASE i = limit
      BY <1>5, <2>2, <3>1, <3>2
    <3>3. CASE i < limit
      BY <1>5, <2>1, <3>1, <3>3
    <3>4. QED
      BY <2>1, <3>2, <3>3
  <2>4. ASSUME NEW y \in rows, f[y] > z PROVE y \in low
    <3>1. PICK i \in 1..n : s[i] = y
      BY <1>5, <2>1, <2>4
    <3>2. i # limit + 1
      BY <2>2, <2>4, <3>1
    <3>3. i \in 1..cut
      BY <2>1, <3>1, <3>2
    <3>4. QED
      BY <3>1, <3>3
  <2>5. /\ T \in SUBSET rows /\ low \in SUBSET T
        /\ \A x \in T, y \in rows : f[y] >= f[x] => y \in T
    <3>1. CASE z = b
      <4>1. T = {s[i] : i \in {j \in 1..limit : f[s[j]] > b}} \union {x \in rows : f[x] = b}
        BY <1>1, <1>9, <2>1, <3>1
      <4> HIDE DEF b, z
      <4>2. T = {x \in rows : f[x] >= b}
        <5>1. \A x \in T : x \in rows /\ f[x] >= b
          BY <2>2, <2>3, <4>1
        <5>2. ASSUME NEW y \in rows, f[y] >= b PROVE y \in T
          <6>1. CASE f[y] = b
            BY <4>1, <6>1
          <6>2. CASE f[y] > b
            <7>1. PICK i \in 1..cut : s[i] = y
              BY <2>4, <3>1, <6>2
            <7>2. QED
              BY <2>1, <4>1, <6>2, <7>1
          <6>3. QED
            BY <2>2, <5>2, <6>1, <6>2
        <5>3. QED
          BY <5>1, <5>2
      <4>3. low \in SUBSET T
        BY <2>1, <2>3, <4>2
      <4>4. \A x \in T, y \in rows : f[y] >= f[x] => y \in T
        BY <2>2, <4>2
      <4>5. QED
        BY <4>2, <4>3, <4>4
    <3>2. CASE z # b
      <4>1. T = low
        BY <1>1, <3>2
      <4>2. \A x \in low : f[x] >= b /\ f[x] \in Nat
        BY <2>1, <2>3
      <4>3. ASSUME NEW x \in low, NEW y \in rows, f[y] >= f[x] PROVE y \in low
        <5>1. f[y] \in Nat /\ f[x] >= b /\ f[x] \in Nat
          BY <4>2
        <5> HIDE DEF low, b, z
        <5>2. f[y] > z
          BY <2>2, <3>2, <4>3, <5>1
        <5>3. QED
          BY <2>4, <5>2
      <4> HIDE DEF low
      <4>4. QED
        BY <1>7, <4>1, <4>3
    <3>3. QED
      BY <3>1, <3>2
  <2> HIDE DEF low, b, z
  <2>6. Cardinality(T) \in Nat /\ Cardinality(T) >= cut
    <3>1. IsFiniteSet(T)
      BY <2>5, FS_Subset
    <3>2. Cardinality(low) <= Cardinality(T)
      BY <2>5, <3>1, FS_Subset
    <3>3. Cardinality(T) \in Nat
      BY <3>1, FS_CardinalityType
    <3>4. QED
      BY <1>3, <1>6, <3>2, <3>3
  <2>7. Lesser(limit, Cardinality(T)) = limit /\ Lesser(limit, N) = limit
    BY <1>3, <2>1, <2>6 DEF Lesser
  <2>8. QED
    BY <1>4, <2>5, <2>6, <2>7
<1>10. n <= limit \/ n > limit
  BY <1>3
<1>11. QED
  BY <1>8, <1>9, <1>10 DEF T

\* However FTS5 orders equal scores, the ranking is the in-memory store's.
LEMMA RankedIs ==
  ASSUME IndexInv, NEW filters \in SUBSET Index!Filters, Built(filters), NEW limit \in Nat \ {0},
         NEW rows, rows = {id \in DOMAIN fts : fts[id] > 0 /\ Index!Conditions(id, filters)},
         NEW n, n = Min({Cardinality(rows), limit + 1}), NEW scored \in [1..n -> rows],
         \A i, j \in 1..n : i < j => scored[i] # scored[j] /\ fts[scored[i]] >= fts[scored[j]],
         \A id \in rows \ {scored[i] : i \in 1..n} : \A i \in 1..n : fts[scored[i]] >= fts[id]
  PROVE  Index!Ranked(scored, limit, filters) = Index!Search(limit, filters)
<1> DEFINE found == Index!Matching("match", filters)
           named == [id \in rows |-> Index!Name(id)]
           b == BestFirst(rows, fts, named)
           N == Cardinality(rows)
           cut == Min({limit, Len(scored)})
           boundary == fts[scored[limit]]
           isTied == Len(scored) > limit /\ fts[scored[limit + 1]] = boundary
           tied == {id \in DOMAIN fts : fts[id] = boundary /\ Index!Conditions(id, filters)}
           T == IF isTied THEN {scored[i] : i \in {j \in 1..cut : fts[scored[j]] > boundary}} \union tied
                ELSE {scored[i] : i \in 1..cut}
           ranked == BestFirst(T, fts, [id \in T |-> Index!Name(id)])
           all == BestFirst(found, [r \in found |-> documents[r].score], [r \in found |-> r])
<1>1. found \in SUBSET Held /\ rows = {documents[r].doc_id : r \in found}
  BY FilterIdsAre, RowsOfMatches DEF Index!Queries
<1>2. /\ Orderable(rows, fts, named) /\ N \in Nat
      /\ \A id \in rows : fts[id] \in Nat
      /\ all = [i \in 1..N |-> Index!Name(b[i])]
  <2>1. Orderable(rows, fts, named) /\ N \in Nat
    BY ZenonT(30), <1>1, BestRows
  <2>2. \A id \in rows : fts[id] \in Nat
    BY ZenonT(30), <1>1, BestRows
  <2>3. all = [i \in 1..N |-> Index!Name(b[i])]
    BY ZenonT(30), <1>1, BestRows
  <2>4. QED
    BY <2>1, <2>2, <2>3
<1>3. n = (IF N <= limit + 1 THEN N ELSE limit + 1) /\ n \in Nat
  BY <1>2, LesserOf
<1>4. Len(scored) = n
  BY <1>3
<1>5. cut = IF limit <= n THEN limit ELSE n
  BY <1>3, <1>4, LesserOf
<1>6. limit \in 1..n => /\ scored[limit] \in rows /\ boundary > 0
                        /\ tied = {id \in rows : fts[id] = boundary}
  <2> SUFFICES ASSUME limit \in 1..n
               PROVE  /\ scored[limit] \in rows /\ boundary > 0
                      /\ tied = {id \in rows : fts[id] = boundary}
    OBVIOUS
  <2>1. scored[limit] \in rows
    OBVIOUS
  <2>2. boundary > 0
    BY <2>1
  <2>3. QED
    BY <2>1, <2>2
<1>7. T = IF n > limit /\ fts[scored[limit + 1]] = fts[scored[limit]]
          THEN {scored[i] : i \in {j \in 1..cut : fts[scored[j]] > fts[scored[limit]]}}
                 \union {x \in rows : fts[x] = fts[scored[limit]]}
          ELSE {scored[i] : i \in 1..cut}
  <2>1. n > limit => limit \in 1..n
    BY <1>3
  <2> HIDE DEF tied, cut
  <2>2. QED
    BY <1>4, <1>6, <2>1
<1>8. Index!Ranked(scored, limit, filters)
        = [i \in 1..Min({limit, Len(ranked)}) |-> Index!Name(ranked[i])]
  BY ZenonT(30), IndexNames DEF Index!Ranked
<1>9. Index!Search(limit, filters) = Top(all, limit)
  BY IndexNames DEF Index!Search
<1> HIDE DEF T, cut, boundary, isTied, tied
<1>10. /\ T \in SUBSET rows /\ \A x \in T, y \in rows : fts[y] >= fts[x] => y \in T
       /\ Cardinality(T) \in Nat /\ Lesser(limit, Cardinality(T)) = Lesser(limit, N)
  <2>1. IsFiniteSet(rows)
    BY <1>2 DEF Orderable
  <2>2. \A x \in rows : (\A i \in 1..n : scored[i] # x) => \A i \in 1..n : fts[scored[i]] >= fts[x]
    OBVIOUS
  <2>3. \A x \in rows : fts[x] \in Nat
    BY <1>2
  <2>4. n = Lesser(Cardinality(rows), limit + 1)
    BY <1>3 DEF Lesser
  <2>5. T = Kept(rows, fts, limit, n, scored)
    BY <1>5, <1>7 DEF Kept, Lesser
  <2>6. QED
    BY <2>1, <2>2, <2>3, <2>4, <2>5, CutIsWhole
<1>11. \A x \in T, y \in rows : ComesBefore(fts, named, y, x) => y \in T
  BY <1>2, <1>10 DEF ComesBefore
<1>12. /\ Orderable(T, fts, named) /\ Cardinality(T) <= N
       /\ \A i \in 1..Cardinality(T) : BestFirst(T, fts, named)[i] = b[i]
  <2>1. Orderable(rows, fts, named) /\ T \in SUBSET rows
    BY <1>2, <1>10
  <2> HIDE DEF named
  <2>2. QED
    BY <1>11, <2>1, BestOfPart
<1>13. ranked = BestFirst(T, fts, named)
  BY <1>10, <1>12, Renamed
<1>14. Len(ranked) = Cardinality(T) /\ \A i \in 1..Cardinality(T) : ranked[i] = b[i]
  BY <1>12, <1>13, BestFirstLists DEF Lists
<1> DEFINE m == IF limit <= N THEN limit ELSE N
<1> HIDE DEF ranked, b, N, all, found, named
<1>15. Min({limit, Len(ranked)}) = m /\ m \in Nat /\ m <= Cardinality(T) /\ m <= N
  BY <1>2, <1>10, <1>14, LesserOf DEF Lesser
<1>16. Index!Ranked(scored, limit, filters) = [i \in 1..m |-> Index!Name(b[i])]
  <2>1. \A i \in 1..m : i \in 1..Cardinality(T)
    BY <1>10, <1>15
  <2>2. \A i \in 1..m : ranked[i] = b[i]
    BY <1>14, <2>1
  <2>3. Index!Ranked(scored, limit, filters) = [i \in 1..m |-> Index!Name(ranked[i])]
    BY <1>8, <1>15
  <2>4. QED
    BY <2>2, <2>3
<1>17. Top(all, limit) = [i \in 1..m |-> Index!Name(b[i])]
  <2> DEFINE V == {Index!Name(b[i]) : i \in 1..N}
  <2>1. all \in [1..N -> V]
    BY <1>2
  <2> HIDE DEF V
  <2>2. N \in Nat /\ limit \in Nat
    BY <1>2
  <2>3. all \in Seq(V) /\ Len(all) = N
    BY <2>1, <2>2
  <2>4. /\ DOMAIN Top(all, limit) = 1..m /\ Top(all, limit) \in Seq(V)
        /\ \A i \in 1..m : Top(all, limit)[i] = all[i]
    <3>1. /\ Len(Top(all, limit)) = (IF limit <= Len(all) THEN limit ELSE Len(all))
          /\ DOMAIN Top(all, limit) = 1..Len(Top(all, limit)) /\ Top(all, limit) \in Seq(V)
          /\ \A i \in 1..Len(Top(all, limit)) : Top(all, limit)[i] = all[i]
      BY <2>2, <2>3, TopIs
    <3>2. Len(Top(all, limit)) = m
      BY <2>3, <3>1 DEF m
    <3>3. QED
      BY <3>1, <3>2
  <2>5. \A i \in 1..m : all[i] = Index!Name(b[i])
    BY <1>2, <1>15
  <2>6. Top(all, limit) = [i \in 1..m |-> Top(all, limit)[i]]
    BY SMTT(20), <2>4
  <2>7. QED
    BY <2>4, <2>5, <2>6
<1>18. QED
  BY <1>9, <1>16, <1>17

LEMMA ReferenceRanks == IndexInv => Index!RankIsReference
<1> SUFFICES ASSUME IndexInv, NEW s \in opened, NEW filters \in Index!FilterSets, NEW limit \in 1..2,
                    Index!Answers(s, {filter.key : filter \in filters}),
                    NEW rows, rows = {id \in DOMAIN fts : fts[id] > 0 /\ Index!Conditions(id, filters)},
                    NEW n, n = Index!Min({Index!Cardinality(rows), limit + 1}),
                    NEW scored \in [1..n -> rows],
                    \A i, j \in DOMAIN scored : i < j =>
                      scored[i] # scored[j] /\ fts[scored[i]] >= fts[scored[j]],
                    \A id \in rows \ Index!Range(scored) : \A i \in DOMAIN scored :
                      fts[scored[i]] >= fts[id]
             PROVE  Index!Ranked(scored, limit, filters) = Index!Search(limit, filters)
  BY DEF Index!RankIsReference
<1>1. filters \in SUBSET Index!Filters
  BY DEF Index!FilterSets
<1>2. Built(filters)
  BY BuiltWhenAnswered
<1>3. limit \in Nat \ {0} /\ DOMAIN scored = 1..n
  OBVIOUS
<1>4. Index!Range(scored) = {scored[i] : i \in 1..n} /\ n = Min({Cardinality(rows), limit + 1})
  BY <1>3, IndexNames
<1>5. QED
  BY <1>1, <1>2, <1>3, <1>4, RankedIs

-----------------------------------------------------------------------------
\* Every answer of the text index that does not raise is the in-memory store's, a
\* ranked search gives the best documents, equal ones by record id, whatever order
\* FTS5 gave equal scores in, and the keys recorded as built have all their tags,
\* while each store's facet keys include those of the stores opened before it
\* (store_sqlite_fts5.py _read, _ranking, _write).
THEOREM AnswersAlwaysReference == ASSUME KeysOnlyGrow PROVE Spec => []AnswersAreReference
<1>1. IndexHolds => AnswersAreReference
  BY ReferenceAnswers, ReferenceRanks DEF IndexHolds, IndexInv, AnswersAreReference
<1>2. QED
  BY <1>1, IndexInvHolds, PTL

-----------------------------------------------------------------------------
(* The sqlite connection that the tasks of a store share, the text index's *)
(* as every other's: why a call of it is one step of TextIndex.            *)

CONSTANT MaxCancels
VARIABLES pc, cancels, queue, holder

Runner == INSTANCE SqliteRunner

\* The part of the type invariant the argument needs.
RunnerTyped ==
  /\ pc \in [Tasks -> {"idle", "waiting", "awaiting", "draining", "closeWaiting", "closing"}]
  /\ cancels \in [Tasks -> Nat]
  /\ thread \in [Tasks -> {"none", "queued", "opening", "executing", "finished"}]
  /\ using \in [Tasks -> Conns \union {None}]
  /\ conn \in Conns \union {None}
  /\ closing \in [Tasks -> Conns \union {None}]
  /\ abandoned \subseteq Tasks

\* A call that has a thread holds the lock: what serializes the threads, until
\* a call leaves its thread behind.
ThreadHoldsLock ==
  abandoned = {} => \A t \in Tasks : thread[t] # "none" => holder = t

\* Only a working thread uses a connection, and it is the current one.
UserWorks ==
  abandoned = {} =>
    \A t \in Tasks : using[t] # None => thread[t] = "executing" /\ using[t] = conn

RunnerInv == RunnerTyped /\ ThreadHoldsLock /\ UserWorks /\ ClosedOnce

\* The invariant holds when nothing has been called.
LEMMA RunnerInit == Runner!Init => RunnerInv
  BY NoneAssumption DEF Runner!Init, RunnerInv, RunnerTyped, ThreadHoldsLock, UserWorks, ClosedOnce

\* Every step of the loop, of a thread and of a caller preserves it.
LEMMA RunnerStep ==
  ASSUME RunnerInv, [Runner!Next]_Runner!vars
  PROVE  RunnerInv'
<1> USE NoneAssumption DEF RunnerInv, RunnerTyped, ThreadHoldsLock, UserWorks, ClosedOnce
<1>1. CASE UNCHANGED Runner!vars
  BY <1>1 DEF Runner!vars
<1>2. ASSUME NEW t \in Tasks, Runner!Acquire(t) PROVE RunnerInv'
  BY <1>2 DEF Runner!Acquire, Runner!MayAcquire
<1>3. ASSUME NEW t \in Tasks, Runner!Finish(t) PROVE RunnerInv'
  BY <1>3 DEF Runner!Finish
<1>4. ASSUME NEW t \in Tasks, Runner!TakeConnection(t) PROVE RunnerInv'
  BY <1>4 DEF Runner!TakeConnection, Runner!MayAcquire
<1>5. ASSUME NEW t \in Tasks, Runner!CloseReturns(t) PROVE RunnerInv'
  BY <1>5 DEF Runner!CloseReturns
<1>6. ASSUME NEW t \in Tasks, Runner!ThreadStart(t) PROVE RunnerInv'
  BY <1>6 DEF Runner!ThreadStart
<1>7. ASSUME NEW t \in Tasks, Runner!ThreadOpens(t) PROVE RunnerInv'
  BY <1>7 DEF Runner!ThreadOpens, Runner!InUse
<1>8. ASSUME NEW t \in Tasks, Runner!ThreadEnds(t) PROVE RunnerInv'
  BY <1>8 DEF Runner!ThreadEnds
<1>9. ASSUME NEW t \in Tasks, Runner!ThreadCloses(t) PROVE RunnerInv'
  BY <1>9 DEF Runner!ThreadCloses
<1>10. ASSUME NEW t \in Tasks, NEW first \in {"waiting", "closeWaiting"}, Runner!Call(t, first)
       PROVE  RunnerInv'
  BY <1>10 DEF Runner!Call
<1>11. ASSUME NEW t \in Tasks, Runner!CancelOutsideLock(t) PROVE RunnerInv'
  BY <1>11 DEF Runner!CancelOutsideLock
<1>12. ASSUME NEW t \in Tasks, Runner!CancelAwait(t) PROVE RunnerInv'
  BY <1>12 DEF Runner!CancelAwait
<1>13. ASSUME NEW t \in Tasks, Runner!CancelDrain(t) PROVE RunnerInv'
  BY <1>13 DEF Runner!CancelDrain
<1>14. QED
  BY <1>1, <1>2, <1>3, <1>4, <1>5, <1>6, <1>7, <1>8, <1>9, <1>10, <1>11, <1>12, <1>13
     DEF Runner!Next, Runner!Progress, Runner!Caller, Runner!CallRun, Runner!CallClose

\* The invariant holds in every reachable state.
LEMMA RunnerInductive == Runner!Spec => []RunnerInv
<1>1. RunnerInv /\ [Runner!Next]_Runner!vars => RunnerInv'
  BY RunnerStep
<1>2. QED
  BY <1>1, RunnerInit, PTL DEF Runner!Spec

\* Until a call is cancelled twice, at most one worker thread is inside
\* _execute, for any number of tasks (_sqlite_async.py:14-16).
THEOREM MutualExclusion == Runner!Spec => []OneUserUnlessAbandoned
<1>1. RunnerInv => OneUserUnlessAbandoned
  BY DEF RunnerInv, ThreadHoldsLock, OneUserUnlessAbandoned, OneUser, Working
<1>2. QED
  BY <1>1, RunnerInductive, PTL

\* Until then a thread's connection is the runner's current one: nothing
\* closes or replaces it meanwhile.
THEOREM ConnectionInUseIsCurrent == Runner!Spec => []UsesCurrentConnection
<1>1. RunnerInv => UsesCurrentConnection
  BY DEF RunnerInv, UserWorks, UsesCurrentConnection
<1>2. QED
  BY <1>1, RunnerInductive, PTL

\* No two closers ever hold one connection, nor is it handed out again.
THEOREM ConnectionsClosedOnce == Runner!Spec => []ClosedOnce
<1>1. RunnerInv => ClosedOnce
  BY DEF RunnerInv
<1>2. QED
  BY <1>1, RunnerInductive, PTL

-----------------------------------------------------------------------------
(* Newest-first runs, over listings whose entries all have an id.          *)

LEMMA NewestNames ==
  /\ \A S : Newest!Min(S) = Min(S) /\ Newest!Max(S) = Max(S)
  /\ \A S, score, name : Newest!BestFirst(S, score, name) = BestFirst(S, score, name)
  /\ \A s : Newest!ToSet(s) = {s[i] : i \in DOMAIN s}
  /\ \A s : Newest!Last(s) = s[Len(s)]
<1>1. \A S : Newest!Min(S) = Min(S) /\ Newest!Max(S) = Max(S)
  BY DEF Newest!Min, Min, Newest!Max, Max
<1>2. \A S, score, name : Newest!BestFirst(S, score, name) = BestFirst(S, score, name)
  BY DEF Newest!BestFirst, BestFirst, Newest!ComesBefore, ComesBefore,
         Newest!Cardinality, Cardinality, Newest!IsFiniteSet, IsFiniteSet
<1>3. \A s : Newest!ToSet(s) = {s[i] : i \in DOMAIN s}
  BY DEF Newest!ToSet
<1>4. \A s : Newest!Last(s) = s[Len(s)]
  BY DEF Newest!Last
<1>5. QED
  BY <1>1, <1>2, <1>3, <1>4

LEMMA GreaterOf == \A m, n \in Int : Max({m, n}) = IF m <= n THEN n ELSE m
<1> TAKE m, n \in Int
<1>1. {m, n} \in SUBSET Int /\ {m, n} # {} /\ IsFiniteSet({m, n})
  <2>1. IsFiniteSet({m} \union {n})
    BY FS_Singleton, FS_Union
  <2>2. {m, n} = {m} \union {n}
    OBVIOUS
  <2>3. QED
    BY <2>1, <2>2
<1>2. Max({m, n}) \in {m, n} /\ m <= Max({m, n}) /\ n <= Max({m, n})
  BY <1>1, Extremes
<1>3. QED
  BY <1>2

\* Ids in the order of the listing.
Falling(s) == s \in Seq(Nat) /\ \A i, j \in DOMAIN s : i < j => s[i] > s[j]
Low(s) == s[Len(s)]

LEMMA FallingHas ==
  ASSUME NEW s, Falling(s)
  PROVE  /\ Len(s) \in Nat /\ DOMAIN s = 1..Len(s) /\ (s = <<>> <=> Len(s) = 0)
         /\ \A i \in DOMAIN s : s[i] \in Nat /\ i \in Nat
         /\ \A i, j \in DOMAIN s : (s[i] > s[j] => i < j) /\ (s[i] >= s[j] => i <= j) /\ (s[i] = s[j] => i = j)
         /\ s # <<>> => 1 \in DOMAIN s /\ Len(s) \in DOMAIN s /\ Low(s) \in Nat /\ s[1] \in Nat
         /\ s # <<>> => \A i \in DOMAIN s : Low(s) <= s[i] /\ s[i] <= s[1]
<1>1. Len(s) \in Nat /\ DOMAIN s = 1..Len(s) /\ s \in Seq(Nat)
  BY LenProperties DEF Falling
<1>2. s = <<>> <=> Len(s) = 0
  BY <1>1, EmptySeq
<1>3. \A i \in DOMAIN s : s[i] \in Nat /\ i \in Nat
  BY <1>1, ElementOfSeq
<1>4. \A i, j \in DOMAIN s : i < j => s[i] > s[j]
  BY DEF Falling
<1>5. \A i, j \in DOMAIN s : (s[i] > s[j] => i < j) /\ (s[i] >= s[j] => i <= j) /\ (s[i] = s[j] => i = j)
  BY <1>3, <1>4
<1>6. s # <<>> => 1 \in DOMAIN s /\ Len(s) \in DOMAIN s
  BY <1>1, <1>2
<1>7. s # <<>> => \A i \in DOMAIN s : Low(s) <= s[i] /\ s[i] <= s[1]
  BY <1>1, <1>3, <1>4, <1>6 DEF Low
<1>8. QED
  BY <1>1, <1>2, <1>3, <1>5, <1>6, <1>7 DEF Low

\* A part of a falling sequence falls.
Part(s, m, n) == SubSeq(s, m, n)

LEMMA PartFalls ==
  ASSUME NEW s, Falling(s), NEW m \in Nat \ {0}, NEW n \in Nat, n <= Len(s),
         NEW t, t = Part(s, m, n)
  PROVE  /\ Falling(t) /\ Len(t) = (IF m <= n THEN n - m + 1 ELSE 0)
         /\ \A i \in DOMAIN t : m + i - 1 \in DOMAIN s /\ t[i] = s[m + i - 1]
         /\ \A k \in m..n : k - m + 1 \in DOMAIN t /\ t[k - m + 1] = s[k]
         /\ m <= n => t # <<>> /\ Low(t) = s[n] /\ t[1] = s[m]
<1> DEFINE l == IF m <= n THEN n - m + 1 ELSE 0
<1>1. Len(s) \in Nat /\ DOMAIN s = 1..Len(s) /\ \A i \in DOMAIN s : s[i] \in Nat
  BY FallingHas
<1>2. \A i \in m..n : s[i] \in Nat
  BY <1>1
<1>3. t \in Seq(Nat) /\ Len(t) = l /\ \A i \in 1..(n - m + 1) : t[i] = s[m + i - 1]
  BY <1>2, SubSeqProperties DEF Part
<1>4. DOMAIN t = 1..l
  BY <1>3, LenProperties
<1>5. \A i \in 1..l : i \in 1..(n - m + 1) /\ m + i - 1 \in DOMAIN s
  BY <1>1
<1>6. \A i \in DOMAIN t : m + i - 1 \in DOMAIN s /\ t[i] = s[m + i - 1]
  BY <1>3, <1>4, <1>5
<1>7. Falling(t)
  <2>1. \A i, j \in DOMAIN t : i < j => m + i - 1 < m + j - 1
    BY <1>4
  <2>2. \A i, j \in DOMAIN t : i < j => t[i] > t[j]
    BY <1>6, <2>1 DEF Falling
  <2>3. QED
    BY <1>3, <2>2 DEF Falling
<1>8. \A k \in m..n : k - m + 1 \in DOMAIN t /\ t[k - m + 1] = s[k]
  <2> TAKE k \in m..n
  <2>1. k - m + 1 \in 1..l /\ k - m + 1 \in 1..(n - m + 1) /\ m + (k - m + 1) - 1 = k
    BY <1>1
  <2>2. QED
    BY <1>3, <1>4, <2>1
<1>9. m <= n => t # <<>> /\ Low(t) = s[n] /\ t[1] = s[m]
  <2> SUFFICES ASSUME m <= n PROVE t # <<>> /\ Low(t) = s[n] /\ t[1] = s[m]
    OBVIOUS
  <2>1. l = n - m + 1 /\ l \in Nat /\ l > 0 /\ m - m + 1 = 1 /\ m \in m..n /\ n \in m..n
    OBVIOUS
  <2>2. t # <<>>
    BY <1>7, <1>3, <2>1, FallingHas
  <2>3. t[n - m + 1] = s[n] /\ t[m - m + 1] = s[m]
    BY <1>8, <2>1
  <2>4. QED
    BY <1>3, <2>1, <2>2, <2>3 DEF Low
<1>10. QED
  BY <1>3, <1>6, <1>7, <1>8, <1>9

\* Its first and its last are those of the sequence.
LEMMA PartEnds ==
  ASSUME NEW s, Falling(s), NEW m \in Nat \ {0}, NEW n \in Nat, n <= Len(s), m <= n,
         NEW t, t = Part(s, m, n)
  PROVE  t # <<>> /\ Low(t) = s[n] /\ t[1] = s[m]
BY PartFalls

\* Lists of ids up to n, as they are saved.
IdLists(n) == {s \in Seq(Nat) : Falling(s) /\ \A i \in DOMAIN s : s[i] <= n}

\* The records with low <= id < high are settled: d are those processed.
Settled(l, d, low, high) == \A i \in DOMAIN l : low <= l[i] /\ l[i] < high => l[i] \in d
\* So are those with id < bound among the first n of the listing l.
SettledTo(l, d, n, bound) == \A i \in DOMAIN l : i <= n /\ l[i] < bound => l[i] \in d
\* s leaves out none of the listed ids between its first and its last.
Dense(l, s) ==
  s # <<>> => \A i \in DOMAIN l : Low(s) <= l[i] /\ l[i] <= s[1] => \E j \in DOMAIN s : s[j] = l[i]
\* What is listed at or above the last id of s is among the first n.
Passed(l, s, n) == \A i \in DOMAIN l : Low(s) <= l[i] => i <= n

\* ids are a page of l, at offset start.
OnPage(l, start, ids) ==
  /\ ids # <<>> /\ start + Len(ids) <= Len(l)
  /\ \A i \in DOMAIN ids : start + i \in DOMAIN l /\ ids[i] = l[start + i]

LEMMA IdListsGrow == ASSUME NEW m \in Nat, NEW n \in Nat, m <= n PROVE IdLists(m) \subseteq IdLists(n)
<1> SUFFICES ASSUME NEW s \in IdLists(m) PROVE s \in IdLists(n)
  OBVIOUS
<1>1. Falling(s) /\ s \in Seq(Nat) /\ \A i \in DOMAIN s : s[i] <= m /\ s[i] \in Nat
  BY FallingHas DEF IdLists
<1>2. \A i \in DOMAIN s : s[i] <= n
  BY <1>1
<1>3. QED
  BY <1>1, <1>2 DEF IdLists

\* A part of a list of ids is one.
LEMMA PartListed ==
  ASSUME NEW n \in Nat, NEW s \in IdLists(n), NEW a \in Nat \ {0}, NEW b \in Nat, b <= Len(s)
  PROVE  SubSeq(s, a, b) \in IdLists(n)
<1>1. Falling(s) /\ \A i \in DOMAIN s : s[i] <= n
  BY DEF IdLists
<1> DEFINE t == SubSeq(s, a, b)
<1> HIDE DEF t
<1>2. Falling(t) /\ \A i \in DOMAIN t : a + i - 1 \in DOMAIN s /\ t[i] = s[a + i - 1]
  <2>1. t = Part(s, a, b)
    BY DEF t, Part
  <2>2. QED
    BY <1>1, <2>1, PartFalls
<1>3. t \in Seq(Nat)
  BY <1>2 DEF Falling
<1>4. t \in IdLists(n)
  BY <1>1, <1>2, <1>3 DEF IdLists
<1>5. QED
  BY <1>4 DEF t

\* A page of a listing is dense, and so are its first and last ids.
LEMMA PageDense ==
  ASSUME NEW l, Falling(l), NEW k \in Nat, NEW s, Falling(s),
         \A i \in DOMAIN s : k + i \in DOMAIN l /\ s[i] = l[k + i]
  PROVE  Dense(l, s)
<1> SUFFICES ASSUME s # <<>>, NEW i \in DOMAIN l, Low(s) <= l[i], l[i] <= s[1]
             PROVE  \E j \in DOMAIN s : s[j] = l[i]
  BY DEF Dense
<1>1. Len(s) \in Nat /\ DOMAIN s = 1..Len(s) /\ 1 \in DOMAIN s /\ Len(s) \in DOMAIN s
  BY FallingHas
<1>2. k + 1 \in DOMAIN l /\ s[1] = l[k + 1] /\ k + Len(s) \in DOMAIN l /\ Low(s) = l[k + Len(s)]
  BY <1>1 DEF Low
<1>3. i \in Nat /\ l[i] \in Nat /\ l[k + 1] \in Nat /\ l[k + Len(s)] \in Nat
  BY <1>2, FallingHas
<1>4. l[k + 1] >= l[i] /\ l[i] >= l[k + Len(s)]
  BY <1>2, <1>3
<1>5. k + 1 <= i /\ i <= k + Len(s)
  BY <1>2, <1>4, FallingHas
<1>6. i - k \in DOMAIN s /\ k + (i - k) = i
  BY <1>1, <1>3, <1>5
<1>7. QED
  BY <1>6

LEMMA FirstIdsAre ==
  ASSUME NEW n \in Nat, NEW ids \in IdLists(n), ids # <<>>, NEW l, Falling(l), NEW start \in Nat,
         OnPage(l, start, ids)
  PROVE  /\ Newest!FirstIds(ids) \in IdLists(n) /\ Newest!FirstIds(ids) # <<>>
         /\ Newest!FirstIds(ids)[1] = l[start + 1] /\ Dense(l, Newest!FirstIds(ids))
<1> DEFINE k == IF Len(ids) <= HeadIdLimit THEN Len(ids) ELSE HeadIdLimit
           s == Newest!FirstIds(ids)
<1>1. Falling(ids) /\ Len(ids) \in Nat /\ DOMAIN ids = 1..Len(ids) /\ Len(ids) # 0
  BY FallingHas DEF IdLists
<1>2. HeadIdLimit \in Nat \ {0}
  BY NewestAssumption DEF Newest!SizeAssumption
<1>3. k \in Nat /\ k <= Len(ids) /\ 1 <= k
  BY <1>1, <1>2
<1>4. s = SubSeq(ids, 1, k)
  BY <1>1, <1>2, LesserOf, NewestNames DEF Newest!FirstIds
<1> HIDE DEF k, s
<1>5. s \in IdLists(n) /\ Falling(s)
  BY <1>3, <1>4, PartListed DEF IdLists
<1>6. s # <<>> /\ s[1] = ids[1] /\ \A i \in DOMAIN s : 1 + i - 1 \in DOMAIN ids /\ s[i] = ids[1 + i - 1]
  <2> DEFINE a == 1
  <2>1. a \in Nat \ {0} /\ a <= k /\ s = Part(ids, a, k)
    BY <1>3, <1>4 DEF Part
  <2> HIDE DEF a
  <2>2. s # <<>> /\ s[1] = ids[a] /\ \A i \in DOMAIN s : a + i - 1 \in DOMAIN ids /\ s[i] = ids[a + i - 1]
    <3>1. Falling(ids) /\ a \in Nat \ {0} /\ k \in Nat /\ k <= Len(ids) /\ a <= k /\ s = Part(ids, a, k)
      BY <1>1, <1>3, <2>1
    <3>2. \A i \in DOMAIN s : a + i - 1 \in DOMAIN ids /\ s[i] = ids[a + i - 1]
      BY <3>1, PartFalls
    <3>3. s # <<>>
      BY <3>1, PartFalls
    <3>4. s[1] = ids[a]
      BY <3>1, PartFalls
    <3>5. QED
      BY <3>2, <3>3, <3>4
  <2>3. QED
    BY <2>2 DEF a
<1>7. \A i \in DOMAIN s : i \in DOMAIN ids /\ s[i] = ids[i]
  <2> TAKE i \in DOMAIN s
  <2>1. i \in Nat
    BY <1>5, FallingHas
  <2>2. 1 + i - 1 = i
    BY <2>1
  <2>3. QED
    BY <1>6, <2>2
<1>8. \A i \in DOMAIN s : start + i \in DOMAIN l /\ s[i] = l[start + i]
  BY <1>7 DEF OnPage
<1>9. Dense(l, s)
  BY <1>5, <1>8, PageDense
<1>10. s[1] = l[start + 1]
  BY <1>1, <1>6 DEF OnPage
<1>11. QED
  BY <1>5, <1>6, <1>9, <1>10 DEF s

LEMMA LastIdsAre ==
  ASSUME NEW n \in Nat, NEW ids \in IdLists(n), ids # <<>>, NEW l, Falling(l), NEW start \in Nat,
         OnPage(l, start, ids)
  PROVE  /\ Newest!LastIds(ids) \in IdLists(n) /\ Newest!LastIds(ids) # <<>>
         /\ Low(Newest!LastIds(ids)) = l[start + Len(ids)] /\ Dense(l, Newest!LastIds(ids))
<1> DEFINE k == IF 0 <= Len(ids) - HeadIdLimit THEN Len(ids) - HeadIdLimit ELSE 0
           s == Newest!LastIds(ids)
<1>1. Falling(ids) /\ Len(ids) \in Nat /\ DOMAIN ids = 1..Len(ids) /\ Len(ids) # 0
  BY FallingHas DEF IdLists
<1>2. HeadIdLimit \in Nat \ {0}
  BY NewestAssumption DEF Newest!SizeAssumption
<1>3. k \in Nat /\ k + 1 <= Len(ids) /\ k + 1 \in Nat \ {0}
  BY <1>1, <1>2
<1>4. s = SubSeq(ids, k + 1, Len(ids))
  <2>1. Max({0, Len(ids) - HeadIdLimit}) = k
    BY <1>1, <1>2, GreaterOf
  <2>2. QED
    BY <2>1, NewestNames DEF Newest!LastIds
<1> DEFINE a == k + 1
<1> HIDE DEF k, s
<1>5. a \in Nat \ {0} /\ a <= Len(ids) /\ s = Part(ids, a, Len(ids))
  BY <1>1, <1>3, <1>4 DEF Part
<1> HIDE DEF a
<1>6. /\ s \in IdLists(n) /\ Falling(s) /\ s # <<>> /\ Low(s) = ids[Len(ids)]
      /\ \A i \in DOMAIN s : a + i - 1 \in DOMAIN ids /\ s[i] = ids[a + i - 1]
  <2>1. Len(ids) <= Len(ids)
    BY <1>1
  <2>2. s \in IdLists(n)
    BY <1>1, <1>5, <2>1, PartListed DEF Part
  <2>3. /\ Falling(s) /\ s # <<>> /\ Low(s) = ids[Len(ids)]
        /\ \A i \in DOMAIN s : a + i - 1 \in DOMAIN ids /\ s[i] = ids[a + i - 1]
    <3> DEFINE last == Len(ids)
    <3>1. Falling(ids) /\ a \in Nat \ {0} /\ last \in Nat /\ last <= Len(ids) /\ a <= last /\ s = Part(ids, a, last)
      BY <1>1, <1>5, <2>1
    <3> HIDE DEF last
    <3>2. \A i \in DOMAIN s : a + i - 1 \in DOMAIN ids /\ s[i] = ids[a + i - 1]
      BY <3>1, PartFalls
    <3>3. s # <<>>
      BY <3>1, PartFalls
    <3>4. Low(s) = ids[last]
      BY <3>1, PartEnds
    <3>5. Falling(s)
      BY <3>1, PartFalls
    <3>6. QED
      BY <3>2, <3>3, <3>4, <3>5 DEF last
  <2>4. QED
    BY <2>2, <2>3
<1>7. \A i \in DOMAIN s : (start + k) + i \in DOMAIN l /\ s[i] = l[(start + k) + i]
  <2> TAKE i \in DOMAIN s
  <2>1. i \in Nat
    BY <1>6, FallingHas
  <2>2. start + (a + i - 1) = (start + k) + i
    BY <1>3, <2>1 DEF a
  <2>3. QED
    BY <1>6, <2>2 DEF OnPage
<1>8. start + k \in Nat
  BY <1>3
<1>9. Dense(l, s)
  BY <1>6, <1>7, <1>8, PageDense
<1>10. Low(s) = l[start + Len(ids)]
  BY <1>1, <1>6 DEF OnPage
<1>11. QED
  BY <1>6, <1>9, <1>10 DEF s

\* From where one of them is, the others of s follow without a gap.
LEMMA PassedFrom ==
  ASSUME NEW l, Falling(l), NEW s, Falling(s), s # <<>>, Dense(l, s),
         NEW k \in DOMAIN l, NEW j \in DOMAIN s, l[k] = s[j]
  PROVE  Passed(l, s, k + Len(s) - j)
<1> SUFFICES ASSUME NEW i \in DOMAIN l, Low(s) <= l[i] PROVE i <= k + Len(s) - j
  BY DEF Passed
<1> DEFINE A == k..i
           B == j..Len(s)
           f == [x \in A |-> CHOOSE y \in DOMAIN s : s[y] = l[x]]
<1>1. /\ k \in Nat /\ i \in Nat /\ j \in Nat /\ Len(s) \in Nat /\ j <= Len(s) /\ 1 <= k /\ 1 <= j
      /\ Len(l) \in Nat /\ i <= Len(l)
  BY FallingHas
<1>2. CASE i <= k
  BY <1>1, <1>2
<1>3. CASE k < i
  <2>1. \A x \in A : x \in DOMAIN l /\ l[x] \in Nat /\ l[i] <= l[x] /\ l[x] <= l[k]
    <3> TAKE x \in A
    <3>1. x \in Nat /\ k <= x /\ x <= i /\ x \in DOMAIN l
      BY <1>1, FallingHas
    <3>2. l[x] \in Nat /\ l[i] \in Nat /\ l[k] \in Nat
      BY <3>1, FallingHas
    <3>3. (l[i] > l[x] => i < x) /\ (l[x] > l[k] => x < k)
      BY <3>1, FallingHas
    <3>4. QED
      BY <1>1, <3>1, <3>2, <3>3
  <2>2. Low(s) \in Nat /\ s[1] \in Nat /\ s[j] \in Nat /\ s[j] <= s[1] /\ l[i] \in Nat
    BY FallingHas
  <2>3. \A x \in A : \E y \in DOMAIN s : s[y] = l[x]
    <3> TAKE x \in A
    <3>1. Low(s) <= l[x] /\ l[x] <= s[1]
      BY <2>1, <2>2
    <3>2. QED
      BY <2>1, <3>1 DEF Dense
  <2>4. \A x \in A : f[x] \in DOMAIN s /\ s[f[x]] = l[x]
    BY <2>3
  <2>5. \A x \in A : f[x] \in B
    <3> TAKE x \in A
    <3>1. s[f[x]] <= s[j] /\ s[f[x]] \in Nat
      BY <2>1, <2>4
    <3>2. s[j] >= s[f[x]]
      BY <2>2, <3>1
    <3>3. j <= f[x]
      BY <2>4, <3>2, FallingHas
    <3>4. f[x] \in 1..Len(s)
      <4>1. DOMAIN s = 1..Len(s)
        BY FallingHas
      <4>2. QED
        BY <2>4, <4>1
    <3>5. QED
      BY <1>1, <3>3, <3>4
  <2>6. \A x, y \in A : f[x] = f[y] => x = y
    <3> TAKE x, y \in A
    <3>1. f[x] = f[y] => l[x] = l[y]
      BY <2>4
    <3>2. QED
      BY <2>1, <3>1, FallingHas
  <2>7. f \in Injection(A, B)
    <3>1. f \in [A -> B]
      BY <2>5
    <3> HIDE DEF A, B
    <3>2. QED
      BY <2>6, <3>1 DEF Injection, IsInjective
  <2>8. IsFiniteSet(A) /\ Cardinality(A) = i - k + 1
    <3>1. k \in Int /\ i \in Int /\ ~(k > i)
      BY <1>1, <1>3
    <3>2. QED
      BY <3>1, FS_Interval
  <2>9. IsFiniteSet(B) /\ Cardinality(B) = Len(s) - j + 1
    <3>1. j \in Int /\ Len(s) \in Int /\ ~(j > Len(s))
      BY <1>1
    <3>2. QED
      BY <3>1, FS_Interval
  <2> HIDE DEF A, B, f
  <2>10. Cardinality(A) <= Cardinality(B)
    BY <2>7, <2>8, <2>9, FS_Injection
  <2>11. QED
    BY <1>1, <2>8, <2>9, <2>10
<1>4. QED
  BY <1>1, <1>2, <1>3

\* What a position and the saved metadata hold.
Metas(n) == [head : IdLists(n), headOffset : Int, cursor : Int, tail : IdLists(n)]
Modes == {"rescan", "scanning", "probing", "backlog"}
Positions(n) ==
  [offset : Nat, meta : Metas(n), first : Metas(n), mode : Modes,
   unsettledHead : [offset : Int, ids : IdLists(n)], fresh : IdLists(n),
   scanSettled : BOOLEAN, scanOffset : Int, scanTail : IdLists(n),
   backlogSettled : BOOLEAN, headEnd : Nat, headEndTail : IdLists(n),
   shift : Int, restarted : BOOLEAN]

LEMMA SizesAre ==
  /\ Entries \in Nat /\ PageSize \in Nat \ {0} /\ HeadIdLimit \in Nat \ {0}
  /\ Newest!NoShift \in Int
  BY NewestAssumption DEF Newest!SizeAssumption, Newest!NoShift

\* The shift tells how far down the saved head ids are.
LEMMA LocateTells ==
  ASSUME NEW n \in Nat, NEW p \in Positions(n), NEW l, Falling(l), NEW start \in Nat,
         NEW ids \in IdLists(n), OnPage(l, start, ids)
  PROVE  /\ Newest!Locate(p, start, ids) \in Int
         /\ Newest!Locate(p, start, ids) # Newest!NoShift /\ Dense(l, p.first.head) =>
              Passed(l, p.first.head, p.first.headOffset + Len(p.first.head) + Newest!Locate(p, start, ids))
<1> DEFINE h == p.first.head
           on == {i \in DOMAIN ids : \E j \in DOMAIN h : ids[i] = h[j]}
           i == Min(on)
           j == CHOOSE k \in DOMAIN h : h[k] = ids[i]
           at == (start + i) - (p.first.headOffset + j)
<1>1. Newest!Locate(p, start, ids) = IF on = {} THEN Newest!NoShift ELSE at
  <2>1. Newest!Min(on) = i
    BY NewestNames
  <2>2. Newest!Locate(p, start, ids) =
          IF on = {} THEN Newest!NoShift
          ELSE (start + Newest!Min(on)) - (p.first.headOffset + CHOOSE k \in DOMAIN h : h[k] = ids[Newest!Min(on)])
    BY Zenon DEF Newest!Locate
  <2> HIDE DEF on, i
  <2>3. QED
    BY <2>1, <2>2
<1>2. h \in IdLists(n) /\ Falling(h) /\ p.first.headOffset \in Int /\ Falling(ids)
  BY DEF Positions, Metas, IdLists
<1>3. Len(h) \in Nat /\ DOMAIN h = 1..Len(h) /\ DOMAIN ids = 1..Len(ids) /\ Len(ids) \in Nat
  BY <1>2, FallingHas
<1>4. ASSUME on # {}
      PROVE  i \in DOMAIN ids /\ i \in Int /\ j \in DOMAIN h /\ j \in Int /\ h[j] = ids[i]
  <2>1. IsFiniteSet(DOMAIN ids)
    BY <1>3, FS_Interval
  <2>2. on \in SUBSET Int /\ IsFiniteSet(on)
    <3>1. on \subseteq DOMAIN ids
      OBVIOUS
    <3>2. IsFiniteSet(on)
      BY <2>1, <3>1, FS_Subset
    <3>3. QED
      BY <1>3, <3>1, <3>2
  <2> HIDE DEF on
  <2>3. i \in on
    BY <1>4, <2>2, Extremes
  <2>4. i \in DOMAIN ids /\ \E k \in DOMAIN h : ids[i] = h[k]
    BY <2>3 DEF on
  <2> HIDE DEF i
  <2>5. j \in DOMAIN h /\ h[j] = ids[i]
    BY <2>4
  <2>6. QED
    BY <1>3, <2>4, <2>5
<1> HIDE DEF i, j, on
<1>5. CASE on = {}
  BY <1>1, <1>5, SizesAre
<1>6. CASE on # {}
  <2>0. i \in DOMAIN ids /\ i \in Int /\ j \in DOMAIN h /\ j \in Int /\ h[j] = ids[i]
    BY <1>4, <1>6
  <2>1. start + i \in DOMAIN l /\ l[start + i] = h[j]
    BY <2>0 DEF OnPage
  <2>2. h # <<>>
    <3>1. h = <<>> <=> Len(h) = 0
      BY <1>2, FallingHas
    <3>2. DOMAIN h = 1..Len(h) /\ j \in DOMAIN h
      BY <1>3, <2>0
    <3> HIDE DEF h
    <3>3. QED
      BY <3>1, <3>2
  <2>3. Dense(l, h) => Passed(l, h, (start + i) + Len(h) - j)
    BY SMTT(20), <1>2, <2>0, <2>1, <2>2, PassedFrom
  <2>4. (start + i) + Len(h) - j = p.first.headOffset + Len(h) + at
    <3> DEFINE first == p.first.headOffset
               n0 == Len(h)
    <3>1. first \in Int /\ n0 \in Int /\ i \in Int /\ j \in Int /\ start \in Int
      BY <1>2, <1>3, <2>0
    <3> HIDE DEF first, n0
    <3>2. (start + i) + n0 - j = first + n0 + ((start + i) - (first + j))
      BY <3>1
    <3>3. QED
      BY <3>2 DEF first, n0
  <2>5. at \in Int
    BY <1>2, <1>4, <1>6
  <2>6. Newest!Locate(p, start, ids) = at
    BY <1>1, <1>6
  <2> HIDE DEF at, h
  <2>7. Dense(l, h) => Passed(l, h, p.first.headOffset + Len(h) + at)
    BY <2>3, <2>4
  <2>8. QED
    BY <2>5, <2>6, <2>7 DEF h
<1>7. QED
  BY <1>5, <1>6

\* What the head scan leaves of a position as it is.
SameScan(r, p) ==
  /\ r.first = p.first /\ r.fresh = p.fresh /\ r.scanSettled = p.scanSettled
  /\ r.scanOffset = p.scanOffset /\ r.scanTail = p.scanTail

LEMMA BacklogSet ==
  ASSUME NEW n \in Nat, NEW p \in Positions(n), NEW offset \in Int, NEW tail \in IdLists(n),
         NEW q, q = Newest!SetBacklog(p, offset, tail)
  PROVE  /\ q \in Positions(n) /\ SameScan(q, p)
         /\ q.meta.head = p.meta.head /\ q.meta.headOffset = p.meta.headOffset
         /\ q.meta.cursor = offset /\ q.meta.tail = tail
         /\ q.offset = p.offset /\ q.mode = p.mode /\ q.unsettledHead = p.unsettledHead
         /\ q.backlogSettled = p.backlogSettled /\ q.headEnd = p.headEnd
         /\ q.headEndTail = p.headEndTail /\ q.shift = p.shift
<1> DEFINE m == [p.meta EXCEPT !.cursor = offset, !.tail = tail]
<1>1. p.meta \in Metas(n)
  BY DEF Positions
<1>2. /\ m \in Metas(n) /\ m.head = p.meta.head /\ m.headOffset = p.meta.headOffset
      /\ m.cursor = offset /\ m.tail = tail
  BY <1>1 DEF Metas
<1>3. q = [p EXCEPT !.meta = m]
  BY DEF Newest!SetBacklog, Positions
<1> HIDE DEF m
<1>4. q \in Positions(n) /\ q.meta = m
  BY <1>2, <1>3 DEF Positions
<1>5. /\ SameScan(q, p)
      /\ q.offset = p.offset /\ q.mode = p.mode /\ q.unsettledHead = p.unsettledHead
      /\ q.backlogSettled = p.backlogSettled /\ q.headEnd = p.headEnd
      /\ q.headEndTail = p.headEndTail /\ q.shift = p.shift
  BY <1>3 DEF Positions, SameScan
<1>6. QED
  BY <1>2, <1>4, <1>5

\* The run goes on elsewhere.
LEMMA GoneOn ==
  ASSUME NEW n \in Nat, NEW p \in Positions(n), NEW mode \in Modes, NEW offset \in Nat,
         NEW q, q = Newest!GoOn(p, mode, offset)
  PROVE  /\ q \in Positions(n) /\ SameScan(q, p) /\ q.mode = mode /\ q.offset = offset /\ q.meta = p.meta
         /\ q.unsettledHead = p.unsettledHead /\ q.shift = p.shift
         /\ q.backlogSettled = p.backlogSettled /\ q.headEnd = p.headEnd /\ q.headEndTail = p.headEndTail
<1>1. q \in Positions(n)
  BY DEF Positions, Newest!GoOn
<1>2. QED
  BY <1>1 DEF Positions, SameScan, Newest!GoOn

\* The run has adopted its scan of the listing from the top.
LEMMA ScanAdopted ==
  ASSUME NEW n \in Nat, NEW p \in Positions(n), NEW q, q = Newest!AdoptScan(p)
  PROVE  /\ q \in Positions(n) /\ SameScan(q, p)
         /\ q.meta.head = p.fresh /\ q.meta.tail = p.scanTail /\ q.meta.cursor = p.scanOffset
         /\ q.offset = p.offset /\ q.mode = "rescan" /\ q.unsettledHead = p.unsettledHead
<1> DEFINE m == [p.meta EXCEPT !.head = p.fresh, !.headOffset = 0]
           r == [p EXCEPT !.mode = "rescan", !.meta = m]
<1>1. p.meta \in Metas(n) /\ p.fresh \in IdLists(n) /\ p.scanTail \in IdLists(n) /\ p.scanOffset \in Int
  BY DEF Positions
<1>2. m \in Metas(n) /\ m.head = p.fresh
  <2>1. 0 \in Int
    OBVIOUS
  <2> DEFINE f == p.fresh
             o == p.meta
  <2> HIDE DEF f, o
  <2>2. [o EXCEPT !.head = f, !.headOffset = 0] \in Metas(n) /\ [o EXCEPT !.head = f, !.headOffset = 0].head = f
    <3>1. f \in IdLists(n) /\ o \in Metas(n)
      BY <1>1 DEF f, o
    <3>2. QED
      BY <2>1, <3>1 DEF Metas
  <2>3. QED
    BY <2>2 DEF f, o
<1>3. q = Newest!SetBacklog(r, p.scanOffset, p.scanTail)
  <2>1. [p EXCEPT !.mode = "rescan", !.meta.head = p.fresh, !.meta.headOffset = 0] = r
    BY DEF Positions
  <2>2. QED
    BY <2>1 DEF Newest!AdoptScan
<1> HIDE DEF m
<1>4. /\ r \in Positions(n) /\ r.meta = m /\ r.mode = "rescan" /\ SameScan(r, p)
      /\ r.offset = p.offset /\ r.unsettledHead = p.unsettledHead
  BY <1>2 DEF Positions, Modes, SameScan
<1> HIDE DEF r
<1>5. QED
  BY <1>1, <1>2, <1>3, <1>4, BacklogSet DEF SameScan

\* The run has turned back to where its head scan ended.
LEMMA FallenBack ==
  ASSUME NEW n \in Nat, NEW p \in Positions(n), NEW q, q = Newest!FallBack(p)
  PROVE  /\ q \in Positions(n) /\ SameScan(q, p)
         /\ q.meta.head = p.meta.head /\ q.meta.tail = p.headEndTail /\ q.meta.cursor = p.headEnd
         /\ q.offset = p.headEnd /\ q.mode = "backlog" /\ q.unsettledHead = p.unsettledHead
         /\ q.backlogSettled = p.backlogSettled
<1> DEFINE r == Newest!SetBacklog(p, p.headEnd, p.headEndTail)
<1>1. p.headEnd \in Nat /\ p.headEnd \in Int /\ p.headEndTail \in IdLists(n)
  BY DEF Positions
<1>2. /\ r \in Positions(n) /\ SameScan(r, p)
      /\ r.meta.head = p.meta.head /\ r.meta.tail = p.headEndTail /\ r.meta.cursor = p.headEnd
      /\ r.unsettledHead = p.unsettledHead /\ r.backlogSettled = p.backlogSettled
  BY <1>1, BacklogSet
<1>3. q = Newest!GoOn(r, "backlog", p.headEnd) /\ "backlog" \in Modes
  BY DEF Newest!FallBack, Modes
<1> HIDE DEF r
<1>4. QED
  BY <1>1, <1>2, <1>3, GoneOn DEF SameScan

\* A page of the head scan: what it notes, and how it ends the scan.
Noted(p, start, ids, next, complete) ==
  [p EXCEPT !.offset = next,
            !.unsettledHead =
               IF complete THEN @
               ELSE [offset |-> start + Len(ids) - Len(Newest!LastIds(ids)), ids |-> Newest!LastIds(ids)],
            !.shift = IF @ = Newest!NoShift THEN Newest!Locate(p, start, ids) ELSE @]

LEMMA ObserveHeadIs ==
  ASSUME NEW p, NEW start, NEW ids, NEW next, NEW complete,
         NEW q, q = Noted(p, start, ids, next, complete)
  PROVE  Newest!ObserveHead(p, start, ids, next, complete) =
           IF q.shift = Newest!NoShift \/ next < p.first.headOffset + Len(p.first.head) + q.shift
           THEN q ELSE Newest!Jump(q, next, Newest!LastIds(ids))
  BY Zenon DEF Newest!ObserveHead, Noted

LEMMA JumpIs ==
  ASSUME NEW p, NEW next, NEW tail,
         NEW backlog, backlog = p.first.cursor + p.shift, NEW probe, probe = backlog - PageSize
  PROVE  Newest!Jump(p, next, tail) =
           IF p.first.tail # <<>> /\ probe > next
           THEN Newest!GoOn(Newest!SetBacklog(Newest!Anchored(p, next, tail), backlog, p.meta.tail), "probing", probe)
           ELSE Newest!GoOn(Newest!SetBacklog(Newest!Anchored(p, next, tail), next, tail), "backlog", next)
  BY Zenon DEF Newest!Jump

\* The last page that left records unsettled, and the shift, after a page of the head scan.
LeftAt(p, start, ids, complete, tail) ==
  IF complete THEN p.unsettledHead ELSE [offset |-> start + Len(ids) - Len(tail), ids |-> tail]
ShiftAt(p, start, ids) == IF p.shift = Newest!NoShift THEN Newest!Locate(p, start, ids) ELSE p.shift

\* The scan goes on, or the run jumps, or it finds nothing to jump over.
HeadOutcome(r, p, u, sh, next, tail) ==
  \/ r.mode = p.mode /\ r.meta = p.meta /\ r.offset = next
  \/ /\ sh # Newest!NoShift /\ p.first.headOffset + Len(p.first.head) + sh <= next
     /\ r.meta.head = (IF u = Newest!NoHead THEN p.fresh ELSE u.ids)
     /\ r.headEnd = next /\ r.headEndTail = tail
     /\ \/ /\ r.mode = "probing" /\ r.meta.tail = p.meta.tail /\ p.first.tail # <<>>
           /\ next < r.offset /\ r.meta.cursor = r.offset + PageSize
        \/ r.mode = "backlog" /\ r.meta.tail = tail /\ r.offset = next /\ r.meta.cursor = next

LEMMA HeadObserved ==
  ASSUME NEW n \in Nat, NEW p \in Positions(n), NEW start \in Nat, NEW ids \in IdLists(n),
         NEW next \in Nat, NEW complete \in BOOLEAN,
         NEW tail \in IdLists(n), tail = Newest!LastIds(ids),
         Newest!Locate(p, start, ids) \in Int,
         NEW u, u = LeftAt(p, start, ids, complete, tail), NEW sh, sh = ShiftAt(p, start, ids),
         NEW r, r = Newest!ObserveHead(p, start, ids, next, complete)
  PROVE  /\ r \in Positions(n) /\ SameScan(r, p) /\ r.unsettledHead = u /\ r.shift = sh
         /\ r.backlogSettled = p.backlogSettled /\ HeadOutcome(r, p, u, sh, next, tail)
<1> DEFINE q == [p EXCEPT !.offset = next, !.unsettledHead = u, !.shift = sh]
           h == IF u = Newest!NoHead THEN p.fresh ELSE u.ids
           m == [p.meta EXCEPT !.head = h, !.headOffset = u.offset]
           a == [q EXCEPT !.meta = m, !.headEnd = next, !.headEndTail = tail]
           backlog == p.first.cursor + sh
           probe == backlog - PageSize
           ends == p.first.headOffset + Len(p.first.head) + sh
<1>0. /\ u = IF complete THEN p.unsettledHead ELSE [offset |-> start + Len(ids) - Len(tail), ids |-> tail]
      /\ sh = IF p.shift = Newest!NoShift THEN Newest!Locate(p, start, ids) ELSE p.shift
  BY DEF LeftAt, ShiftAt
<1>1. /\ p.meta \in Metas(n) /\ p.fresh \in IdLists(n) /\ p.first \in Metas(n) /\ p.shift \in Int
      /\ p.unsettledHead \in [offset : Int, ids : IdLists(n)]
  BY DEF Positions
<1>2. p.first.cursor \in Int /\ p.first.headOffset \in Int /\ p.meta.tail \in IdLists(n) /\ Len(p.first.head) \in Nat
  BY <1>1, LenProperties DEF Metas, IdLists
<1>3. u \in [offset : Int, ids : IdLists(n)] /\ sh \in Int
  <2>1. Len(ids) \in Nat /\ Len(tail) \in Nat
    BY LenProperties DEF IdLists
  <2>2. start + Len(ids) - Len(tail) \in Int
    BY <2>1
  <2>3. QED
    BY <1>0, <1>1, <2>2
<1>4. u.offset \in Int /\ h \in IdLists(n)
  BY <1>1, <1>3
<1>5. m \in Metas(n) /\ m.head = h /\ m.tail = p.meta.tail
  BY <1>1, <1>4 DEF Metas
<1>6. backlog \in Int /\ probe \in Int /\ ends \in Int
  <2>1. sh \in Int
    BY <1>3
  <2>2. PageSize \in Int /\ Len(p.first.head) \in Int
    BY <1>2, SizesAre
  <2> DEFINE c == p.first.cursor
             f == p.first.headOffset
             k == Len(p.first.head)
  <2>3. c \in Int /\ f \in Int /\ k \in Int
    BY <1>2, <2>2
  <2> HIDE DEF c, f, k
  <2>4. c + sh \in Int /\ c + sh - PageSize \in Int /\ f + k + sh \in Int
    BY <2>1, <2>2, <2>3
  <2>5. backlog = c + sh /\ probe = c + sh - PageSize /\ ends = f + k + sh
    <3>1. backlog = c + sh
      BY DEF c
    <3>2. ends = f + k + sh
      BY DEF f, k
    <3> HIDE DEF backlog
    <3>3. probe = c + sh - PageSize
      BY <2>1, <2>2, <2>3, <3>1
    <3>4. QED
      BY <3>1, <3>2, <3>3
  <2> HIDE DEF backlog, probe, ends
  <2>6. QED
    BY <2>4, <2>5
<1>7. /\ q \in Positions(n) /\ q.meta = p.meta /\ q.mode = p.mode /\ SameScan(q, p) /\ q.offset = next
      /\ q.unsettledHead = u /\ q.shift = sh /\ q.backlogSettled = p.backlogSettled
  <2>1. q \in Positions(n)
    BY <1>3 DEF Positions
  <2>2. QED
    BY <2>1 DEF Positions, SameScan
<1>8. q = Noted(p, start, ids, next, complete)
  BY <1>0 DEF Positions, Noted
<1>9. a = Newest!Anchored(q, next, tail)
  <2> DEFINE hd == IF q.unsettledHead = Newest!NoHead THEN q.fresh ELSE q.unsettledHead.ids
  <2>1. q \in Positions(n) /\ q.meta = p.meta /\ q.unsettledHead = u /\ q.fresh = p.fresh
    BY <1>7 DEF SameScan
  <2> HIDE DEF q
  <2>2. \A x, y : [q EXCEPT !.meta.head = x, !.meta.headOffset = y, !.headEnd = next, !.headEndTail = tail]
                = [q EXCEPT !.meta = [q.meta EXCEPT !.head = x, !.headOffset = y], !.headEnd = next, !.headEndTail = tail]
    BY <2>1 DEF Positions
  <2>3. hd = h
    BY <2>1
  <2> HIDE DEF hd, h
  <2>4. [q EXCEPT !.meta.head = hd, !.meta.headOffset = q.unsettledHead.offset, !.headEnd = next, !.headEndTail = tail]
        = [q EXCEPT !.meta = [p.meta EXCEPT !.head = h, !.headOffset = u.offset], !.headEnd = next, !.headEndTail = tail]
    <3>1. [q EXCEPT !.meta.head = hd, !.meta.headOffset = q.unsettledHead.offset, !.headEnd = next, !.headEndTail = tail]
          = [q EXCEPT !.meta = [q.meta EXCEPT !.head = hd, !.headOffset = q.unsettledHead.offset],
                      !.headEnd = next, !.headEndTail = tail]
      BY <2>2, Zenon
    <3>2. hd = h /\ q.unsettledHead.offset = u.offset /\ q.meta = p.meta
      BY <2>1, <2>3
    <3>3. QED
      BY <3>1, <3>2
  <2>5. QED
    BY <2>4, Zenon DEF hd, Newest!Anchored
<1>10. r = IF sh = Newest!NoShift \/ next < ends THEN q
           ELSE IF p.first.tail # <<>> /\ probe > next
           THEN Newest!GoOn(Newest!SetBacklog(a, backlog, p.meta.tail), "probing", probe)
           ELSE Newest!GoOn(Newest!SetBacklog(a, next, tail), "backlog", next)
  <2>1. q.shift = sh /\ q.first = p.first /\ q.meta = p.meta
    BY <1>7 DEF SameScan
  <2> HIDE DEF a, q
  <2>2. r = IF q.shift = Newest!NoShift \/ next < p.first.headOffset + Len(p.first.head) + q.shift
            THEN q ELSE Newest!Jump(q, next, tail)
    BY <1>8, ObserveHeadIs
  <2>3. backlog = q.first.cursor + q.shift
    BY <2>1
  <2> HIDE DEF backlog
  <2>4. probe = backlog - PageSize
    OBVIOUS
  <2> HIDE DEF probe
  <2>5. Newest!Jump(q, next, tail) =
          IF q.first.tail # <<>> /\ probe > next
          THEN Newest!GoOn(Newest!SetBacklog(Newest!Anchored(q, next, tail), backlog, q.meta.tail), "probing", probe)
          ELSE Newest!GoOn(Newest!SetBacklog(Newest!Anchored(q, next, tail), next, tail), "backlog", next)
    BY <2>3, <2>4, JumpIs
  <2>6. ends = p.first.headOffset + Len(p.first.head) + q.shift
    BY <2>1
  <2> HIDE DEF ends
  <2>7. QED
    BY <1>9, <2>1, <2>2, <2>5, <2>6
<1> HIDE DEF m, h, q
<1>11. /\ a \in Positions(n) /\ a.meta = m /\ SameScan(a, p) /\ a.offset = next
       /\ a.unsettledHead = u /\ a.shift = sh /\ a.backlogSettled = p.backlogSettled
       /\ a.headEnd = next /\ a.headEndTail = tail
  <2>1. a \in Positions(n)
    BY <1>5, <1>7 DEF Positions
  <2>2. QED
    BY <1>7, <2>1 DEF Positions, SameScan
<1> HIDE DEF a, probe, backlog, ends
<1>12. CASE sh = Newest!NoShift \/ next < ends
  <2>1. r = q
    BY <1>10, <1>12
  <2>2. QED
    BY <1>7, <2>1 DEF HeadOutcome
<1>13. CASE sh # Newest!NoShift /\ ~(next < ends) /\ p.first.tail # <<>> /\ probe > next
  <2> DEFINE b == Newest!SetBacklog(a, backlog, p.meta.tail)
  <2>1. /\ b \in Positions(n) /\ SameScan(b, a) /\ b.meta.head = h /\ b.meta.tail = p.meta.tail
        /\ b.meta.cursor = backlog /\ b.unsettledHead = u /\ b.shift = sh /\ b.backlogSettled = p.backlogSettled
        /\ b.headEnd = next /\ b.headEndTail = tail
    BY <1>2, <1>5, <1>6, <1>11, BacklogSet
  <2>2. r = Newest!GoOn(b, "probing", probe)
    BY <1>10, <1>13
  <2>3. probe \in Nat /\ backlog = probe + PageSize
    BY <1>6, <1>13, SizesAre DEF probe
  <2> HIDE DEF b
  <2>4. /\ r \in Positions(n) /\ SameScan(r, b) /\ r.meta = b.meta /\ r.unsettledHead = u /\ r.shift = sh
        /\ r.backlogSettled = b.backlogSettled /\ r.headEnd = next /\ r.headEndTail = tail
        /\ r.mode = "probing" /\ r.offset = probe
    <3>1. "probing" \in Modes /\ probe \in Nat /\ b \in Positions(n)
      BY <2>1, <2>3 DEF Modes
    <3>2. /\ r \in Positions(n) /\ SameScan(r, b) /\ r.mode = "probing" /\ r.offset = probe /\ r.meta = b.meta
          /\ r.unsettledHead = b.unsettledHead /\ r.shift = b.shift
          /\ r.backlogSettled = b.backlogSettled /\ r.headEnd = b.headEnd /\ r.headEndTail = b.headEndTail
      BY <2>2, <3>1, GoneOn
    <3>3. QED
      BY <2>1, <3>2
  <2>5. ends <= next
    BY <1>6, <1>13
  <2>6. SameScan(r, p)
    BY <1>11, <2>1, <2>4 DEF SameScan
  <2>7. QED
    BY <1>13, <2>1, <2>3, <2>4, <2>5, <2>6 DEF ends, h, HeadOutcome
<1>14. CASE sh # Newest!NoShift /\ ~(next < ends) /\ ~(p.first.tail # <<>> /\ probe > next)
  <2> DEFINE b == Newest!SetBacklog(a, next, tail)
  <2>1. /\ b \in Positions(n) /\ SameScan(b, a) /\ b.meta.head = h /\ b.meta.tail = tail
        /\ b.meta.cursor = next /\ b.unsettledHead = u /\ b.shift = sh /\ b.backlogSettled = p.backlogSettled
        /\ b.headEnd = next /\ b.headEndTail = tail /\ b.offset = next
    BY <1>5, <1>11, BacklogSet
  <2>2. r = Newest!GoOn(b, "backlog", next)
    BY <1>10, <1>14
  <2> HIDE DEF b
  <2>3. /\ r \in Positions(n) /\ SameScan(r, b) /\ r.meta = b.meta /\ r.unsettledHead = u /\ r.shift = sh
        /\ r.backlogSettled = b.backlogSettled /\ r.headEnd = next /\ r.headEndTail = tail
        /\ r.mode = "backlog" /\ r.offset = next
    <3>1. "backlog" \in Modes
      BY DEF Modes
    <3>2. QED
      BY <2>1, <2>2, <3>1, GoneOn
  <2>4. ends <= next
    BY <1>6, <1>14
  <2>5. SameScan(r, p)
    BY <1>11, <2>1, <2>3 DEF SameScan
  <2>6. QED
    BY <1>14, <2>1, <2>3, <2>4, <2>5 DEF ends, h, HeadOutcome
<1>15. QED
  BY <1>12, <1>13, <1>14

\* The page at the saved offset: the run turns back, or resumes there.
ProbeOutcome(r, p, start, ids, next, complete, tail) ==
  \/ /\ r.meta.tail = p.headEndTail /\ r.meta.cursor = p.headEnd /\ r.offset = p.headEnd
     /\ r.backlogSettled = p.backlogSettled
  \/ /\ \E i \in DOMAIN p.first.tail, j \in DOMAIN ids : p.first.tail[i] = ids[j]
     /\ r.offset = next
     /\ \/ /\ complete /\ r.meta.tail = tail /\ r.meta.cursor = next
           /\ r.backlogSettled = p.backlogSettled
        \/ ~complete /\ r.meta.tail = <<>> /\ r.meta.cursor = start /\ ~r.backlogSettled

LEMMA ProbeObserved ==
  ASSUME NEW n \in Nat, NEW p \in Positions(n), NEW start \in Nat, NEW ids \in IdLists(n),
         NEW next \in Nat, NEW complete \in BOOLEAN,
         NEW tail \in IdLists(n), tail = Newest!LastIds(ids),
         NEW r, r = Newest!ObserveProbe(p, start, ids, next, complete)
  PROVE  /\ r \in Positions(n) /\ SameScan(r, p) /\ r.mode = "backlog"
         /\ r.meta.head = p.meta.head /\ r.unsettledHead = p.unsettledHead
         /\ ProbeOutcome(r, p, start, ids, next, complete, tail)
<1> DEFINE none == Newest!ToSet(p.first.tail) \intersect Newest!ToSet(ids) = {}
           b == IF complete THEN Newest!SetBacklog(p, next, tail) ELSE Newest!SetBacklog(p, start, <<>>)
           q == IF complete THEN b ELSE [b EXCEPT !.backlogSettled = FALSE]
<1>1. <<>> \in IdLists(n)
  BY EmptySeq, LenProperties DEF IdLists, Falling
<1>2. /\ b \in Positions(n) /\ SameScan(b, p) /\ b.meta.head = p.meta.head
      /\ b.unsettledHead = p.unsettledHead /\ b.backlogSettled = p.backlogSettled
      /\ complete => b.meta.tail = tail /\ b.meta.cursor = next
      /\ ~complete => b.meta.tail = <<>> /\ b.meta.cursor = start
  <2>1. CASE complete
    BY <2>1, BacklogSet
  <2>2. CASE ~complete
    BY <1>1, <2>2, BacklogSet
  <2>3. QED
    BY <2>1, <2>2
<1>3. r = IF none THEN Newest!FallBack(p) ELSE Newest!GoOn(q, "backlog", next)
  <2>1. q = IF complete THEN Newest!SetBacklog(p, next, tail)
            ELSE [Newest!SetBacklog(p, start, <<>>) EXCEPT !.backlogSettled = FALSE]
    OBVIOUS
  <2> HIDE DEF q, b
  <2>2. Newest!ObserveProbe(p, start, ids, next, complete) =
          IF none THEN Newest!FallBack(p)
          ELSE Newest!GoOn(IF complete THEN Newest!SetBacklog(p, next, tail)
                           ELSE [Newest!SetBacklog(p, start, <<>>) EXCEPT !.backlogSettled = FALSE],
                           "backlog", next)
    BY Zenon DEF Newest!ObserveProbe
  <2>3. QED
    BY <2>1, <2>2
<1> HIDE DEF b
<1>4. CASE none
  <2>1. r = Newest!FallBack(p)
    BY <1>3, <1>4
  <2> HIDE DEF none, q
  <2>2. /\ r \in Positions(n) /\ SameScan(r, p)
        /\ r.meta.head = p.meta.head /\ r.meta.tail = p.headEndTail /\ r.meta.cursor = p.headEnd
        /\ r.offset = p.headEnd /\ r.mode = "backlog" /\ r.unsettledHead = p.unsettledHead
        /\ r.backlogSettled = p.backlogSettled
    BY <2>1, FallenBack
  <2>3. QED
    BY <2>2 DEF ProbeOutcome
<1>5. CASE ~none
  <2>1. \E i \in DOMAIN p.first.tail, j \in DOMAIN ids : p.first.tail[i] = ids[j]
    BY <1>5, NewestNames
  <2>2. r = Newest!GoOn(q, "backlog", next)
    BY <1>3, <1>5
  <2> HIDE DEF none
  <2>3. /\ q \in Positions(n) /\ SameScan(q, p) /\ q.meta = b.meta /\ q.unsettledHead = b.unsettledHead
        /\ q.backlogSettled = (complete /\ b.backlogSettled)
    <3>1. CASE complete
      BY <1>2, <3>1 DEF Positions
    <3>2. CASE ~complete
      BY <1>2, <3>2 DEF Positions, SameScan
    <3>3. QED
      BY <3>1, <3>2
  <2> HIDE DEF q
  <2>4. /\ r \in Positions(n) /\ SameScan(r, q) /\ r.meta = q.meta /\ r.unsettledHead = q.unsettledHead
        /\ r.backlogSettled = q.backlogSettled /\ r.mode = "backlog" /\ r.offset = next
    <3>1. "backlog" \in Modes /\ next \in Nat /\ q \in Positions(n)
      BY <2>3 DEF Modes
    <3>2. QED
      BY <2>2, <3>1, GoneOn
  <2>5. SameScan(r, p)
    BY <2>3, <2>4 DEF SameScan
  <2>6. p.backlogSettled \in BOOLEAN
    BY DEF Positions
  <2>7. CASE complete
    <3>1. r.backlogSettled = p.backlogSettled
      BY <1>2, <2>3, <2>4, <2>6, <2>7
    <3>2. r.meta.tail = tail /\ r.meta.cursor = next /\ r.meta.head = p.meta.head /\ r.unsettledHead = p.unsettledHead
      BY <1>2, <2>3, <2>4, <2>7
    <3>3. QED
      BY <2>1, <2>4, <2>5, <2>7, <3>1, <3>2 DEF ProbeOutcome
  <2>8. CASE ~complete
    <3>1. ~r.backlogSettled
      BY <2>3, <2>4, <2>8
    <3>2. r.meta.tail = <<>> /\ r.meta.cursor = start /\ r.meta.head = p.meta.head /\ r.unsettledHead = p.unsettledHead
      BY <1>2, <2>3, <2>4, <2>8
    <3>3. QED
      BY <2>1, <2>4, <2>5, <2>8, <3>1, <3>2 DEF ProbeOutcome
  <2>9. QED
    BY <2>7, <2>8
<1>6. QED
  BY <1>4, <1>5

\* A page of the backlog.
LEMMA BacklogSettled ==
  ASSUME NEW n \in Nat, NEW p \in Positions(n), NEW ids \in IdLists(n),
         NEW next \in Nat, NEW complete \in BOOLEAN,
         NEW tail \in IdLists(n), tail = Newest!LastIds(ids),
         NEW r, r = Newest!SettleBacklog(p, ids, next, complete)
  PROVE  /\ r \in Positions(n) /\ SameScan(r, p) /\ r.mode = p.mode /\ r.offset = next
         /\ r.meta.head = p.meta.head /\ r.unsettledHead = p.unsettledHead
         /\ r.backlogSettled = (p.backlogSettled /\ complete)
         /\ IF r.backlogSettled THEN r.meta.tail = tail /\ r.meta.cursor = next ELSE r.meta = p.meta
<1> DEFINE q == [p EXCEPT !.backlogSettled = p.backlogSettled /\ complete, !.offset = next]
<1>1. p.backlogSettled \in BOOLEAN
  BY DEF Positions
<1>2. /\ q \in Positions(n) /\ SameScan(q, p) /\ q.mode = p.mode /\ q.offset = next /\ q.meta = p.meta
      /\ q.unsettledHead = p.unsettledHead
  BY <1>1 DEF Positions, SameScan
<1>3. q.backlogSettled = (p.backlogSettled /\ complete)
  BY DEF Positions
<1>4. q = [p EXCEPT !.backlogSettled = @ /\ complete, !.offset = next]
  OBVIOUS
<1>5. r = IF q.backlogSettled THEN Newest!SetBacklog(q, next, tail) ELSE q
  BY <1>4, Zenon DEF Newest!SettleBacklog
<1> HIDE DEF q
<1>6. CASE q.backlogSettled
  <2>1. r = Newest!SetBacklog(q, next, tail)
    BY <1>5, <1>6
  <2>2. /\ r \in Positions(n) /\ SameScan(r, q) /\ r.mode = q.mode /\ r.offset = q.offset
        /\ r.meta.head = q.meta.head /\ r.unsettledHead = q.unsettledHead
        /\ r.backlogSettled = q.backlogSettled /\ r.meta.tail = tail /\ r.meta.cursor = next
    BY <1>2, <2>1, BacklogSet
  <2>3. SameScan(r, p)
    BY <1>2, <2>2 DEF SameScan
  <2>4. QED
    BY <1>2, <1>3, <1>6, <2>2, <2>3
<1>7. CASE ~q.backlogSettled
  BY <1>2, <1>3, <1>5, <1>7
<1>8. QED
  BY <1>6, <1>7

\* A page as the scan from the top notes it.
ScanOf(p, start, ids, next, complete) ==
  [p EXCEPT !.fresh = IF start = 0 THEN Newest!FirstIds(ids) ELSE @,
            !.scanSettled = p.scanSettled /\ complete,
            !.scanOffset = IF p.scanSettled /\ complete THEN next ELSE @,
            !.scanTail = IF p.scanSettled /\ complete THEN Newest!LastIds(ids) ELSE @]

LEMMA ObservePageIs ==
  ASSUME NEW p, NEW start, NEW ids, NEW entries, NEW complete,
         NEW next, next = start + entries, NEW q, q = ScanOf(p, start, ids, next, complete)
  PROVE  Newest!ObservePage(p, start, ids, entries, complete) =
           CASE q.mode = "rescan" -> Newest!GoOn(Newest!AdoptScan(q), "rescan", next)
             [] q.mode = "scanning" -> Newest!ObserveHead(q, start, ids, next, complete)
             [] q.mode = "probing" -> Newest!ObserveProbe(q, start, ids, next, complete)
             [] q.mode = "backlog" -> Newest!SettleBacklog(q, ids, next, complete)
  BY Zenon DEF Newest!ObservePage, ScanOf

Scanned(q, p, start, head, tail, next, complete) ==
  /\ q.fresh = (IF start = 0 THEN head ELSE p.fresh)
  /\ q.scanSettled = (p.scanSettled /\ complete)
  /\ q.scanOffset = (IF p.scanSettled /\ complete THEN next ELSE p.scanOffset)
  /\ q.scanTail = (IF p.scanSettled /\ complete THEN tail ELSE p.scanTail)

LEMMA ScanNoted ==
  ASSUME NEW n \in Nat, NEW p \in Positions(n), NEW start \in Nat, NEW ids, NEW next \in Nat, NEW complete \in BOOLEAN,
         NEW head \in IdLists(n), head = Newest!FirstIds(ids), NEW tail \in IdLists(n), tail = Newest!LastIds(ids),
         NEW q, q = ScanOf(p, start, ids, next, complete)
  PROVE  /\ q \in Positions(n) /\ Scanned(q, p, start, head, tail, next, complete)
         /\ q.offset = p.offset /\ q.meta = p.meta /\ q.first = p.first /\ q.mode = p.mode
         /\ q.unsettledHead = p.unsettledHead /\ q.backlogSettled = p.backlogSettled
         /\ q.headEnd = p.headEnd /\ q.headEndTail = p.headEndTail /\ q.shift = p.shift
<1> DEFINE f == IF start = 0 THEN head ELSE p.fresh
           s == p.scanSettled /\ complete
           o == IF p.scanSettled /\ complete THEN next ELSE p.scanOffset
           t == IF p.scanSettled /\ complete THEN tail ELSE p.scanTail
<1>1. f \in IdLists(n) /\ s \in BOOLEAN /\ o \in Int /\ t \in IdLists(n)
  BY DEF Positions
<1>2. q = [p EXCEPT !.fresh = f, !.scanSettled = s, !.scanOffset = o, !.scanTail = t]
  BY DEF ScanOf, Positions
<1> HIDE DEF f, s, o, t
<1>3. q \in Positions(n)
  BY <1>1, <1>2 DEF Positions
<1>4. q.fresh = f /\ q.scanSettled = s /\ q.scanOffset = o /\ q.scanTail = t
  BY <1>2 DEF Positions
<1>5. /\ q.offset = p.offset /\ q.meta = p.meta /\ q.first = p.first /\ q.mode = p.mode
      /\ q.unsettledHead = p.unsettledHead /\ q.backlogSettled = p.backlogSettled
      /\ q.headEnd = p.headEnd /\ q.headEndTail = p.headEndTail /\ q.shift = p.shift
  BY <1>2 DEF Positions
<1>6. QED
  BY <1>3, <1>4, <1>5 DEF f, s, o, t, Scanned

-----------------------------------------------------------------------------
\* Between the tail and the head that m saves everything is settled.
GapOf(l, d, m) == m.head # <<>> /\ m.tail # <<>> => Settled(l, d, Low(m.tail), Low(m.head))
MetaSound(l, d, over, m) == Dense(l, m.head) /\ (~over => GapOf(l, d, m))

\* The scan from the top: what of it is settled, if its ids were to be saved.
ScanSound(l, d, p) ==
  /\ p.offset = 0 => p.fresh = <<>> /\ p.scanTail = <<>>
  /\ p.offset # 0 => p.fresh # <<>>
  /\ p.fresh # <<>> /\ p.scanSettled => SettledTo(l, d, p.offset, p.fresh[1] + 1)
  /\ p.fresh # <<>> /\ p.scanTail # <<>> => Settled(l, d, Low(p.scanTail), p.fresh[1] + 1)

\* The head scan: the ids it will save have nothing unsettled below them, down to
\* its offset, and it will not end before it has passed all saved head ids.
HeadSound(l, d, over, p) ==
  /\ p.first.head # <<>> /\ p.meta.head = p.first.head /\ p.meta.tail = p.first.tail
  /\ p.unsettledHead = Newest!NoHead /\ p.fresh # <<>> => SettledTo(l, d, p.offset, p.fresh[1] + 1)
  /\ p.unsettledHead # Newest!NoHead => SettledTo(l, d, p.offset, Low(p.unsettledHead.ids))
  /\ ~over /\ p.shift # Newest!NoShift =>
       Passed(l, p.first.head, p.first.headOffset + Len(p.first.head) + p.shift)

\* The probe: the run may resume behind it, or turn back to the end of the head scan.
ProbeSound(l, d, p) ==
  /\ p.headEndTail # <<>> /\ p.meta.head # <<>> /\ p.meta.tail = p.first.tail
  /\ Settled(l, d, Low(p.headEndTail), Low(p.meta.head))
  /\ SettledTo(l, d, p.headEnd, Low(p.meta.head))

\* The backlog: all above its offset is settled, up to the saved head.
BacklogSound(l, d, over, p) ==
  /\ p.meta.head # <<>>
  /\ ~over /\ p.backlogSettled => SettledTo(l, d, p.offset, Low(p.meta.head))

PositionSound(l, d, over, p) ==
  /\ MetaSound(l, d, over, p.meta) /\ MetaSound(l, d, over, p.first)
  /\ Dense(l, p.fresh) /\ Dense(l, p.unsettledHead.ids)
  /\ p.unsettledHead # Newest!NoHead => p.unsettledHead.ids # <<>>
  /\ p.mode \in {"rescan", "scanning"} => ScanSound(l, d, p)
  /\ p.mode = "scanning" => HeadSound(l, d, over, p)
  /\ p.mode = "probing" => ProbeSound(l, d, p)
  /\ p.mode = "backlog" => BacklogSound(l, d, over, p)

\* What is settled stays so.
LEMMA SettlingKeeps ==
  ASSUME NEW l, NEW d, NEW e, d \subseteq e, NEW over
  PROVE  /\ \A low, high : Settled(l, d, low, high) => Settled(l, e, low, high)
         /\ \A n, bound : SettledTo(l, d, n, bound) => SettledTo(l, e, n, bound)
         /\ \A m : MetaSound(l, d, over, m) => MetaSound(l, e, over, m)
         /\ \A p : PositionSound(l, d, over, p) => PositionSound(l, e, over, p)
<1>1. \A low, high : Settled(l, d, low, high) => Settled(l, e, low, high)
  BY DEF Settled
<1>2. \A n, bound : SettledTo(l, d, n, bound) => SettledTo(l, e, n, bound)
  BY DEF SettledTo
<1>3. \A m : MetaSound(l, d, over, m) => MetaSound(l, e, over, m)
  BY <1>1 DEF MetaSound, GapOf
<1>4. ASSUME NEW p PROVE ScanSound(l, d, p) => ScanSound(l, e, p)
  BY <1>1, <1>2 DEF ScanSound
<1>5. ASSUME NEW p PROVE HeadSound(l, d, over, p) => HeadSound(l, e, over, p)
  BY <1>2 DEF HeadSound
<1>6. ASSUME NEW p PROVE ProbeSound(l, d, p) => ProbeSound(l, e, p)
  BY <1>1, <1>2 DEF ProbeSound
<1>7. ASSUME NEW p PROVE BacklogSound(l, d, over, p) => BacklogSound(l, e, over, p)
  BY <1>2 DEF BacklogSound
<1>8. \A p : PositionSound(l, d, over, p) => PositionSound(l, e, over, p)
  BY <1>3, <1>4, <1>5, <1>6, <1>7 DEF PositionSound
<1>9. QED
  BY <1>1, <1>2, <1>3, <1>8

\* A page takes what is settled further.
LEMMA PageSettles ==
  ASSUME NEW l, Falling(l), NEW d, NEW start \in Nat, NEW ids, Falling(ids), OnPage(l, start, ids),
         NEW next, next = start + Len(ids)
  PROVE  /\ next \in DOMAIN l /\ next \in Nat /\ start < next
         /\ \A bound : SettledTo(l, d, start, bound) /\ (\A i \in DOMAIN ids : ids[i] \in d) => SettledTo(l, d, next, bound)
         /\ \A bound \in Int : SettledTo(l, d, next, bound) => Settled(l, d, l[next], bound)
         /\ \A bound \in Int : bound <= l[next] => SettledTo(l, d, next, bound)
<1>1. /\ Len(ids) \in Nat /\ DOMAIN ids = 1..Len(ids) /\ Len(ids) # 0 /\ Len(l) \in Nat /\ DOMAIN l = 1..Len(l)
      /\ start + Len(ids) <= Len(l)
  BY FallingHas DEF OnPage
<1>2. next \in DOMAIN l /\ next \in Nat /\ start < next
  BY <1>1
<1>3. \A i \in DOMAIN l : i \in Nat /\ l[i] \in Nat
  BY FallingHas
<1>4. ASSUME NEW bound, SettledTo(l, d, start, bound), \A i \in DOMAIN ids : ids[i] \in d
      PROVE  SettledTo(l, d, next, bound)
  <2> SUFFICES ASSUME NEW i \in DOMAIN l, i <= next, l[i] < bound PROVE l[i] \in d
    BY DEF SettledTo
  <2>1. CASE i <= start
    BY <1>4, <2>1 DEF SettledTo
  <2>2. CASE i > start
    <3>1. i - start \in DOMAIN ids /\ start + (i - start) = i
      BY <1>1, <1>3, <2>2
    <3>2. QED
      BY <1>4, <3>1 DEF OnPage
  <2>3. QED
    BY <1>3, <2>1, <2>2
<1>5. ASSUME NEW bound \in Int, SettledTo(l, d, next, bound) PROVE Settled(l, d, l[next], bound)
  <2> SUFFICES ASSUME NEW i \in DOMAIN l, l[next] <= l[i], l[i] < bound PROVE l[i] \in d
    BY DEF Settled
  <2>1. l[i] >= l[next]
    BY <1>2, <1>3
  <2>2. i <= next
    BY <1>2, <2>1, FallingHas
  <2>3. QED
    BY <1>5, <2>2 DEF SettledTo
<1>6. ASSUME NEW bound \in Int, bound <= l[next] PROVE SettledTo(l, d, next, bound)
  <2> SUFFICES ASSUME NEW i \in DOMAIN l, i <= next, l[i] < bound PROVE FALSE
    BY DEF SettledTo
  <2>1. l[next] > l[i]
    BY <1>2, <1>3, <1>6
  <2>2. next < i
    BY <1>2, <2>1, FallingHas
  <2>3. QED
    BY <1>2, <1>3, <2>2
<1>7. QED
  BY <1>2, <1>4, <1>5, <1>6

\* Nothing is settled less up to a smaller bound.
LEMMA BoundsFall ==
  ASSUME NEW l, Falling(l), NEW d, NEW b \in Int, NEW c \in Int, b <= c
  PROVE  /\ \A n : SettledTo(l, d, n, c) => SettledTo(l, d, n, b)
         /\ \A low : Settled(l, d, low, c) => Settled(l, d, low, b)
<1>1. \A i \in DOMAIN l : l[i] \in Nat
  BY FallingHas
<1>2. \A i \in DOMAIN l : l[i] < b => l[i] < c
  BY <1>1
<1>3. QED
  BY <1>2 DEF SettledTo, Settled

-----------------------------------------------------------------------------
\* A run whose position is sound sees the page at its offset.
PageSeen(n, l, d, over, p, ids, next, complete) ==
  /\ n \in Nat /\ l \in IdLists(n) /\ p \in Positions(n) /\ ids \in IdLists(n)
  /\ OnPage(l, p.offset, ids) /\ next = p.offset + Len(ids)
  /\ complete \in BOOLEAN /\ (complete => \A i \in DOMAIN ids : ids[i] \in d)
  /\ PositionSound(l, d, over, p)

LEMMA PageFacts ==
  ASSUME NEW n, NEW l, NEW d, NEW over, NEW p, NEW ids, NEW next, NEW complete,
         PageSeen(n, l, d, over, p, ids, next, complete),
         NEW head, head = Newest!FirstIds(ids), NEW tail, tail = Newest!LastIds(ids)
  PROVE  /\ Falling(l) /\ next \in DOMAIN l /\ next \in Nat /\ p.offset < next /\ l[next] \in Nat
         /\ head \in IdLists(n) /\ head # <<>> /\ head[1] = l[p.offset + 1] /\ Dense(l, head)
         /\ tail \in IdLists(n) /\ tail # <<>> /\ Low(tail) = l[next] /\ Dense(l, tail)
         /\ \A bound : complete /\ SettledTo(l, d, p.offset, bound) => SettledTo(l, d, next, bound)
         /\ \A bound \in Int : SettledTo(l, d, next, bound) => Settled(l, d, l[next], bound)
         /\ SettledTo(l, d, next, l[next])
         /\ \A s \in IdLists(n) : s # <<>> => Low(s) \in Nat /\ s[1] \in Nat /\ Low(s) <= s[1]
<1>1. /\ n \in Nat /\ Falling(l) /\ ids \in IdLists(n) /\ Falling(ids) /\ ids # <<>>
      /\ p.offset \in Nat /\ OnPage(l, p.offset, ids) /\ next = p.offset + Len(ids)
      /\ complete => \A i \in DOMAIN ids : ids[i] \in d
  BY DEF PageSeen, IdLists, OnPage, Positions
<1>2. /\ next \in DOMAIN l /\ next \in Nat /\ p.offset < next
      /\ \A bound : SettledTo(l, d, p.offset, bound) /\ (\A i \in DOMAIN ids : ids[i] \in d) => SettledTo(l, d, next, bound)
      /\ \A bound \in Int : SettledTo(l, d, next, bound) => Settled(l, d, l[next], bound)
      /\ \A bound \in Int : bound <= l[next] => SettledTo(l, d, next, bound)
  BY <1>1, PageSettles
<1>3. l[next] \in Nat
  BY <1>1, <1>2, FallingHas
<1>4. SettledTo(l, d, next, l[next])
  <2>1. l[next] \in Int /\ l[next] <= l[next]
    BY <1>3
  <2>2. QED
    BY <1>2, <2>1
<1>5. head \in IdLists(n) /\ head # <<>> /\ head[1] = l[p.offset + 1] /\ Dense(l, head)
  BY <1>1, FirstIdsAre
<1>6. tail \in IdLists(n) /\ tail # <<>> /\ Low(tail) = l[next] /\ Dense(l, tail)
  BY <1>1, LastIdsAre
<1>7. \A s \in IdLists(n) : s # <<>> => Low(s) \in Nat /\ s[1] \in Nat /\ Low(s) <= s[1]
  <2> TAKE s \in IdLists(n)
  <2>1. Falling(s)
    BY DEF IdLists
  <2>2. QED
    BY <2>1, FallingHas
<1>8. QED
  BY <1>1, <1>2, <1>3, <1>4, <1>5, <1>6, <1>7

\* The page at a run's offset, as its scan notes it.
LEMMA PageNoted ==
  ASSUME NEW n, NEW l, NEW d, NEW over, NEW p, NEW ids, NEW next, NEW complete,
         PageSeen(n, l, d, over, p, ids, next, complete),
         NEW q, q = ScanOf(p, p.offset, ids, next, complete)
  PROVE  /\ q \in Positions(n) /\ q.offset = p.offset /\ q.meta = p.meta /\ q.first = p.first /\ q.mode = p.mode
         /\ q.unsettledHead = p.unsettledHead /\ q.backlogSettled = p.backlogSettled
         /\ q.headEnd = p.headEnd /\ q.headEndTail = p.headEndTail /\ q.shift = p.shift
<1> DEFINE head == Newest!FirstIds(ids)
           tail == Newest!LastIds(ids)
<1>1. head = Newest!FirstIds(ids) /\ tail = Newest!LastIds(ids)
  OBVIOUS
<1> HIDE DEF head, tail
<1>2. next \in Nat /\ head \in IdLists(n) /\ tail \in IdLists(n)
  BY <1>1, PageFacts
<1>3. n \in Nat /\ p \in Positions(n) /\ p.offset \in Nat /\ complete \in BOOLEAN
  BY DEF PageSeen, Positions
<1>4. q \in Positions(n)
  BY <1>1, <1>2, <1>3, ScanNoted
<1>5. q.offset = p.offset /\ q.meta = p.meta
  BY SMTT(20), <1>1, <1>2, <1>3, ScanNoted
<1>6. q.first = p.first /\ q.mode = p.mode /\ q.unsettledHead = p.unsettledHead
  BY SMTT(20), <1>1, <1>2, <1>3, ScanNoted
<1>7. q.backlogSettled = p.backlogSettled /\ q.headEnd = p.headEnd
  BY <1>1, <1>2, <1>3, ScanNoted
<1>8. q.headEndTail = p.headEndTail /\ q.shift = p.shift
  BY <1>1, <1>2, <1>3, ScanNoted
<1>9. QED
  BY <1>4, <1>5, <1>6, <1>7, <1>8

\* The scan from the top goes on by this page.
LEMMA ScanGoesOn ==
  ASSUME NEW n, NEW l, NEW d, NEW over, NEW p, NEW ids, NEW next, NEW complete,
         PageSeen(n, l, d, over, p, ids, next, complete), p.mode \in {"rescan", "scanning"},
         NEW q, q = ScanOf(p, p.offset, ids, next, complete)
  PROVE  /\ q.fresh # <<>> /\ Dense(l, q.fresh) /\ (p.offset # 0 => q.fresh = p.fresh)
         /\ q.scanSettled => SettledTo(l, d, next, q.fresh[1] + 1)
         /\ q.scanTail # <<>> => Settled(l, d, Low(q.scanTail), q.fresh[1] + 1)
<1> DEFINE head == Newest!FirstIds(ids)
           tail == Newest!LastIds(ids)
<1>1. /\ Falling(l) /\ next \in Nat /\ p.offset < next /\ l[next] \in Nat
      /\ head \in IdLists(n) /\ head # <<>> /\ head[1] = l[p.offset + 1] /\ Dense(l, head)
      /\ tail \in IdLists(n) /\ tail # <<>> /\ Low(tail) = l[next]
      /\ \A bound : complete /\ SettledTo(l, d, p.offset, bound) => SettledTo(l, d, next, bound)
      /\ \A bound \in Int : SettledTo(l, d, next, bound) => Settled(l, d, l[next], bound)
      /\ \A s \in IdLists(n) : s # <<>> => Low(s) \in Nat /\ s[1] \in Nat /\ Low(s) <= s[1]
  BY PageFacts
<1>2. n \in Nat /\ p \in Positions(n) /\ p.offset \in Nat /\ complete \in BOOLEAN /\ PositionSound(l, d, over, p)
  BY DEF PageSeen, Positions
<1>3. head = Newest!FirstIds(ids) /\ tail = Newest!LastIds(ids)
  OBVIOUS
<1> HIDE DEF head, tail
<1>4. /\ q \in Positions(n) /\ q.fresh = (IF p.offset = 0 THEN head ELSE p.fresh)
      /\ q.scanSettled = (p.scanSettled /\ complete)
      /\ q.scanTail = (IF p.scanSettled /\ complete THEN tail ELSE p.scanTail)
  <2>1. n \in Nat /\ p.offset \in Nat /\ next \in Nat /\ complete \in BOOLEAN /\ head \in IdLists(n) /\ tail \in IdLists(n)
    BY <1>1, <1>2
  <2>2. q \in Positions(n)
    BY <1>2, <1>3, <2>1, ScanNoted
  <2>3. Scanned(q, p, p.offset, head, tail, next, complete)
    BY <1>2, <1>3, <2>1, ScanNoted
  <2>4. QED
    BY <2>2, <2>3 DEF Scanned
<1>5. ScanSound(l, d, p) /\ Dense(l, p.fresh) /\ p.scanSettled \in BOOLEAN
  BY <1>2 DEF PositionSound, Positions
<1>6. q.fresh # <<>> /\ Dense(l, q.fresh) /\ q.fresh \in IdLists(n)
  BY <1>1, <1>2, <1>4, <1>5 DEF ScanSound, Positions
<1>7. q.fresh[1] + 1 \in Int
  BY <1>1, <1>6
<1>8. ASSUME q.scanSettled PROVE SettledTo(l, d, next, q.fresh[1] + 1)
  <2>1. p.scanSettled /\ complete
    BY <1>2, <1>4, <1>5, <1>8
  <2>2. CASE p.offset = 0
    <3>1. SettledTo(l, d, p.offset, q.fresh[1] + 1)
      <4>1. \A i \in DOMAIN l : i \in 1..Len(l)
        BY <1>1, FallingHas
      <4>2. \A i \in DOMAIN l : ~(i <= p.offset)
        BY <2>2, <4>1
      <4>3. QED
        BY <4>2 DEF SettledTo
    <3>2. QED
      BY <1>1, <2>1, <3>1
  <2>3. CASE p.offset # 0
    <3>1. q.fresh = p.fresh
      BY <1>4, <2>3
    <3>2. SettledTo(l, d, p.offset, q.fresh[1] + 1)
      BY <1>5, <1>6, <2>1, <3>1 DEF ScanSound
    <3>3. QED
      BY <1>1, <2>1, <3>2
  <2>4. QED
    BY <2>2, <2>3
<1>9. ASSUME q.scanTail # <<>> PROVE Settled(l, d, Low(q.scanTail), q.fresh[1] + 1)
  <2>1. CASE p.scanSettled /\ complete
    BY <1>1, <1>4, <1>7, <1>8, <2>1
  <2>2. CASE ~(p.scanSettled /\ complete)
    <3>1. q.scanTail = p.scanTail /\ p.offset # 0
      BY <1>4, <1>5, <1>9, <2>2 DEF ScanSound
    <3>2. q.fresh = p.fresh
      BY <1>4, <3>1
    <3>3. QED
      BY <1>5, <1>6, <1>9, <3>1, <3>2 DEF ScanSound
  <2>3. QED
    BY <2>1, <2>2
<1>10. QED
  BY <1>4, <1>6, <1>8, <1>9

\* A rescan may save what it has settled after any page, and when it ends.
LEMMA AdoptedSound ==
  ASSUME NEW n \in Nat, NEW l, Falling(l), NEW d, NEW over, NEW p \in Positions(n),
         MetaSound(l, d, over, p.first), Dense(l, p.fresh), Dense(l, p.unsettledHead.ids),
         p.unsettledHead # Newest!NoHead => p.unsettledHead.ids # <<>>,
         p.fresh # <<>> /\ p.scanTail # <<>> => Settled(l, d, Low(p.scanTail), p.fresh[1] + 1),
         NEW q, q = Newest!AdoptScan(p)
  PROVE  /\ q \in Positions(n) /\ SameScan(q, p) /\ q.mode = "rescan" /\ q.unsettledHead = p.unsettledHead
         /\ MetaSound(l, d, over, q.meta)
<1>1. /\ q \in Positions(n) /\ SameScan(q, p) /\ q.meta.head = p.fresh /\ q.meta.tail = p.scanTail
      /\ q.mode = "rescan" /\ q.unsettledHead = p.unsettledHead
  BY ScanAdopted
<1>2. ASSUME p.fresh # <<>>, p.scanTail # <<>> PROVE Settled(l, d, Low(p.scanTail), Low(p.fresh))
  <2>1. Falling(p.fresh)
    BY DEF Positions, IdLists
  <2>2. Low(p.fresh) \in Nat /\ p.fresh[1] \in Nat /\ 1 \in DOMAIN p.fresh
    BY <1>2, <2>1, FallingHas
  <2>3. Low(p.fresh) <= p.fresh[1]
    BY <1>2, <2>1, <2>2, FallingHas
  <2>4. Low(p.fresh) \in Int /\ p.fresh[1] + 1 \in Int /\ Low(p.fresh) <= p.fresh[1] + 1
    BY <2>2, <2>3
  <2>5. QED
    BY <1>2, <2>4, BoundsFall
<1>3. QED
  BY <1>1, <1>2 DEF MetaSound, GapOf

LEMMA RescanSound ==
  ASSUME NEW n, NEW l, NEW d, NEW over, NEW p, NEW ids, NEW next, NEW complete,
         PageSeen(n, l, d, over, p, ids, next, complete), p.mode = "rescan",
         NEW q, q = ScanOf(p, p.offset, ids, next, complete),
         NEW r, r = Newest!GoOn(Newest!AdoptScan(q), "rescan", next)
  PROVE  r \in Positions(n) /\ PositionSound(l, d, over, r)
<1> DEFINE head == Newest!FirstIds(ids)
           tail == Newest!LastIds(ids)
           a == Newest!AdoptScan(q)
<1>1. /\ Falling(l) /\ next \in Nat /\ p.offset < next
      /\ head \in IdLists(n) /\ tail \in IdLists(n)
  BY PageFacts
<1>2. n \in Nat /\ p \in Positions(n) /\ p.offset \in Nat /\ complete \in BOOLEAN /\ PositionSound(l, d, over, p)
  BY DEF PageSeen, Positions
<1>3. /\ q \in Positions(n) /\ q.first = p.first /\ q.unsettledHead = p.unsettledHead
  BY PageNoted
<1>4. /\ q.fresh # <<>> /\ Dense(l, q.fresh)
      /\ q.scanSettled => SettledTo(l, d, next, q.fresh[1] + 1)
      /\ q.scanTail # <<>> => Settled(l, d, Low(q.scanTail), q.fresh[1] + 1)
  BY ScanGoesOn
<1>5. /\ MetaSound(l, d, over, q.first) /\ Dense(l, q.unsettledHead.ids)
      /\ q.unsettledHead # Newest!NoHead => q.unsettledHead.ids # <<>>
  BY <1>2, <1>3 DEF PositionSound
<1>6. /\ a \in Positions(n) /\ SameScan(a, q) /\ a.mode = "rescan" /\ a.unsettledHead = q.unsettledHead
      /\ MetaSound(l, d, over, a.meta)
  BY <1>1, <1>2, <1>3, <1>4, <1>5, AdoptedSound
<1> HIDE DEF a, head, tail
<1>7. "rescan" \in Modes
  BY DEF Modes
<1>8. /\ r \in Positions(n) /\ SameScan(r, a) /\ r.mode = "rescan" /\ r.offset = next /\ r.meta = a.meta
      /\ r.unsettledHead = a.unsettledHead
  BY <1>1, <1>2, <1>6, <1>7, GoneOn DEF a
<1>9. SameScan(r, q) /\ r.offset # 0
  BY <1>1, <1>2, <1>6, <1>8 DEF SameScan
<1>10. ScanSound(l, d, r)
  BY <1>4, <1>8, <1>9 DEF SameScan, ScanSound
<1>11. QED
  BY <1>4, <1>5, <1>6, <1>8, <1>9, <1>10 DEF PositionSound, SameScan

\* u: the last page of the head scan that left records unsettled, head: the ids
\* the run would save; everything below them is settled, as far as the scan has come.
TopSettled(n, l, d, q, u, head, next) ==
  /\ Dense(l, u.ids) /\ (u # Newest!NoHead => u.ids # <<>>)
  /\ u = Newest!NoHead => SettledTo(l, d, next, q.fresh[1] + 1)
  /\ u # Newest!NoHead => SettledTo(l, d, next, Low(u.ids))
  /\ head \in IdLists(n) /\ head # <<>> /\ Dense(l, head)
  /\ SettledTo(l, d, next, Low(head)) /\ Low(head) \in Nat

LEMMA HeadNoted ==
  ASSUME NEW n, NEW l, NEW d, NEW over, NEW p, NEW ids, NEW next, NEW complete,
         PageSeen(n, l, d, over, p, ids, next, complete), p.mode = "scanning",
         NEW q, q = ScanOf(p, p.offset, ids, next, complete),
         NEW tail, tail = Newest!LastIds(ids),
         NEW u, u = LeftAt(q, p.offset, ids, complete, tail),
         NEW head, head = (IF u = Newest!NoHead THEN q.fresh ELSE u.ids)
  PROVE  TopSettled(n, l, d, q, u, head, next)
<1>0. n \in Nat /\ p \in Positions(n) /\ p.offset \in Nat /\ complete \in BOOLEAN /\ PositionSound(l, d, over, p)
  BY DEF PageSeen, Positions
<1>1. /\ Falling(l) /\ next \in Nat /\ l[next] \in Nat
      /\ tail \in IdLists(n) /\ tail # <<>> /\ Low(tail) = l[next] /\ Dense(l, tail)
      /\ \A bound : complete /\ SettledTo(l, d, p.offset, bound) => SettledTo(l, d, next, bound)
      /\ SettledTo(l, d, next, l[next])
      /\ \A s \in IdLists(n) : s # <<>> => Low(s) \in Nat /\ s[1] \in Nat /\ Low(s) <= s[1]
      /\ Newest!FirstIds(ids) \in IdLists(n)
  BY PageFacts
<1>2. q \in Positions(n) /\ q.unsettledHead = p.unsettledHead
  BY PageNoted
<1>3. q.fresh # <<>> /\ Dense(l, q.fresh) /\ (p.offset # 0 => q.fresh = p.fresh)
  BY ScanGoesOn
<1>4. /\ Dense(l, p.unsettledHead.ids) /\ (p.unsettledHead # Newest!NoHead => p.unsettledHead.ids # <<>>)
      /\ HeadSound(l, d, over, p) /\ ScanSound(l, d, p)
  BY <1>0 DEF PositionSound
<1>5. ~complete => u.ids = tail /\ u # Newest!NoHead
  BY <1>1 DEF Newest!NoHead, LeftAt
<1>6. complete => u = p.unsettledHead
  BY <1>2 DEF LeftAt
<1>7. Dense(l, u.ids) /\ (u # Newest!NoHead => u.ids # <<>>)
  BY <1>1, <1>4, <1>5, <1>6
<1>8. ASSUME u = Newest!NoHead PROVE SettledTo(l, d, next, q.fresh[1] + 1)
  <2>1. complete /\ p.unsettledHead = Newest!NoHead
    BY <1>5, <1>6, <1>8
  <2>2. CASE p.offset = 0
    <3>1. \A i \in DOMAIN l : i \in 1..Len(l)
      BY <1>1, FallingHas
    <3>2. \A i \in DOMAIN l : ~(i <= p.offset)
      BY <2>2, <3>1
    <3>3. SettledTo(l, d, p.offset, q.fresh[1] + 1)
      BY <3>2 DEF SettledTo
    <3>4. QED
      BY <1>1, <2>1, <3>3
  <2>3. CASE p.offset # 0
    <3>1. q.fresh = p.fresh
      BY <1>3, <2>3
    <3>2. SettledTo(l, d, p.offset, q.fresh[1] + 1)
      BY <1>3, <1>4, <2>1, <3>1 DEF HeadSound
    <3>3. QED
      BY <1>1, <2>1, <3>2
  <2>4. QED
    BY <2>2, <2>3
<1>9. ASSUME u # Newest!NoHead PROVE SettledTo(l, d, next, Low(u.ids))
  <2>1. CASE complete
    <3>1. SettledTo(l, d, p.offset, Low(u.ids))
      BY <1>4, <1>6, <1>9, <2>1 DEF HeadSound
    <3>2. QED
      BY <1>1, <2>1, <3>1
  <2>2. CASE ~complete
    BY <1>1, <1>5, <2>2
  <2>3. QED
    BY <1>0, <2>1, <2>2
<1>10. head \in IdLists(n) /\ head # <<>> /\ Dense(l, head)
  <2>1. q.fresh \in IdLists(n) /\ p.unsettledHead.ids \in IdLists(n)
    BY <1>0, <1>2 DEF Positions
  <2>2. u.ids \in IdLists(n)
    BY <1>0, <1>1, <1>5, <1>6, <2>1
  <2>3. QED
    BY <1>3, <1>7, <2>1, <2>2
<1>11. Low(head) \in Nat
  BY <1>1, <1>10
<1>12. SettledTo(l, d, next, Low(head))
  <2>1. CASE u = Newest!NoHead
    <3>1. head = q.fresh /\ SettledTo(l, d, next, q.fresh[1] + 1)
      BY <1>8, <2>1
    <3>2. q.fresh[1] \in Nat /\ Low(head) <= q.fresh[1]
      BY <1>1, <1>10, <3>1
    <3>3. Low(head) \in Int /\ q.fresh[1] + 1 \in Int /\ Low(head) <= q.fresh[1] + 1
      BY <1>11, <3>2
    <3>4. QED
      BY <1>1, <3>1, <3>3, BoundsFall
  <2>2. CASE u # Newest!NoHead
    BY <1>9, <2>2
  <2>3. QED
    BY <2>1, <2>2
<1>13. QED
  BY <1>7, <1>8, <1>9, <1>10, <1>11, <1>12 DEF TopSettled

\* The shift of the head tells where the head scan has passed it.
LEMMA ShiftTells ==
  ASSUME NEW n, NEW l, NEW d, NEW over, NEW p, NEW ids, NEW next, NEW complete,
         PageSeen(n, l, d, over, p, ids, next, complete), p.mode = "scanning",
         NEW q \in Positions(n), q.first = p.first, q.shift = p.shift,
         NEW sh, sh = ShiftAt(q, p.offset, ids)
  PROVE  /\ Newest!Locate(q, p.offset, ids) \in Int /\ sh \in Int
         /\ ~over /\ sh # Newest!NoShift => Passed(l, q.first.head, q.first.headOffset + Len(q.first.head) + sh)
<1>1. n \in Nat /\ Falling(l) /\ p.offset \in Nat /\ ids \in IdLists(n) /\ OnPage(l, p.offset, ids)
      /\ PositionSound(l, d, over, p)
  BY DEF PageSeen, Positions, IdLists
<1>2. HeadSound(l, d, over, p) /\ Dense(l, p.first.head)
  BY <1>1 DEF PositionSound, MetaSound
<1>3. /\ Newest!Locate(q, p.offset, ids) \in Int
      /\ Newest!Locate(q, p.offset, ids) # Newest!NoShift /\ Dense(l, q.first.head) =>
           Passed(l, q.first.head, q.first.headOffset + Len(q.first.head) + Newest!Locate(q, p.offset, ids))
  BY <1>1, LocateTells
<1>4. sh \in Int
  BY <1>3 DEF Positions, ShiftAt
<1>5. CASE q.shift = Newest!NoShift
  BY <1>2, <1>3, <1>4, <1>5 DEF ShiftAt
<1>6. CASE q.shift # Newest!NoShift
  BY <1>2, <1>3, <1>4, <1>6 DEF HeadSound, ShiftAt
<1>7. QED
  BY <1>5, <1>6

\* The gap grows by what the head scan has passed.
LEMMA GapExtends ==
  ASSUME NEW l, Falling(l), NEW d, NEW next \in Nat,
         NEW low \in Int, NEW mid, NEW high \in Int, NEW s, Low(s) = mid, mid \in Int,
         Settled(l, d, low, mid), NEW k \in Int, k <= next, Passed(l, s, k), SettledTo(l, d, next, high)
  PROVE  Settled(l, d, low, high)
<1> SUFFICES ASSUME NEW i \in DOMAIN l, low <= l[i], l[i] < high PROVE l[i] \in d
  BY DEF Settled
<1>1. l[i] \in Nat /\ i \in Nat
  BY FallingHas
<1>2. CASE l[i] < mid
  BY <1>2 DEF Settled
<1>3. CASE mid <= l[i]
  <2>1. i <= k
    BY <1>3 DEF Passed
  <2>2. i <= next
    BY <1>1, <2>1
  <2>3. QED
    BY <2>2 DEF SettledTo
<1>4. QED
  BY <1>1, <1>2, <1>3

LEMMA ScanningSound ==
  ASSUME NEW n, NEW l, NEW d, NEW over, NEW p, NEW ids, NEW next, NEW complete,
         PageSeen(n, l, d, over, p, ids, next, complete), p.mode = "scanning",
         NEW q, q = ScanOf(p, p.offset, ids, next, complete),
         NEW r, r = Newest!ObserveHead(q, p.offset, ids, next, complete)
  PROVE  r \in Positions(n) /\ PositionSound(l, d, over, r)
<1> DEFINE tail == Newest!LastIds(ids)
           u == LeftAt(q, p.offset, ids, complete, tail)
           sh == ShiftAt(q, p.offset, ids)
           head == IF u = Newest!NoHead THEN q.fresh ELSE u.ids
           reach == q.first.headOffset + Len(q.first.head) + sh
<1>0. n \in Nat /\ p \in Positions(n) /\ p.offset \in Nat /\ complete \in BOOLEAN /\ PositionSound(l, d, over, p)
      /\ ids \in IdLists(n)
  BY DEF PageSeen, Positions
<1>1. /\ Falling(l) /\ next \in Nat /\ p.offset < next /\ l[next] \in Nat
      /\ tail \in IdLists(n) /\ tail # <<>> /\ Low(tail) = l[next]
      /\ \A bound \in Int : SettledTo(l, d, next, bound) => Settled(l, d, l[next], bound)
      /\ \A s \in IdLists(n) : s # <<>> => Low(s) \in Nat /\ s[1] \in Nat /\ Low(s) <= s[1]
      /\ Newest!FirstIds(ids) \in IdLists(n)
  BY PageFacts
<1>2. /\ q \in Positions(n) /\ q.first = p.first /\ q.meta = p.meta /\ q.mode = p.mode /\ q.shift = p.shift
  BY PageNoted
<1>3. /\ q.fresh # <<>> /\ Dense(l, q.fresh)
      /\ q.scanSettled => SettledTo(l, d, next, q.fresh[1] + 1)
      /\ q.scanTail # <<>> => Settled(l, d, Low(q.scanTail), q.fresh[1] + 1)
  BY ScanGoesOn
<1>5. /\ Newest!Locate(q, p.offset, ids) \in Int /\ sh \in Int
      /\ ~over /\ sh # Newest!NoShift => Passed(l, q.first.head, reach)
  BY <1>2, ShiftTells
<1>6. /\ tail = Newest!LastIds(ids)
      /\ u = LeftAt(q, p.offset, ids, complete, tail) /\ sh = ShiftAt(q, p.offset, ids)
      /\ head = (IF u = Newest!NoHead THEN q.fresh ELSE u.ids)
      /\ reach = q.first.headOffset + Len(q.first.head) + sh
  OBVIOUS
<1> HIDE DEF tail, u, sh, head, reach
<1>4. /\ Dense(l, u.ids) /\ (u # Newest!NoHead => u.ids # <<>>)
      /\ u = Newest!NoHead => SettledTo(l, d, next, q.fresh[1] + 1)
      /\ u # Newest!NoHead => SettledTo(l, d, next, Low(u.ids))
      /\ head \in IdLists(n) /\ head # <<>> /\ Dense(l, head)
      /\ SettledTo(l, d, next, Low(head)) /\ Low(head) \in Nat
  <2>1. TopSettled(n, l, d, q, u, head, next)
    BY <1>6, HeadNoted
  <2>2. QED
    BY <2>1 DEF TopSettled
<1>7. /\ r \in Positions(n) /\ SameScan(r, q) /\ r.unsettledHead = u /\ r.shift = sh
      /\ \/ r.mode = q.mode /\ r.meta = q.meta /\ r.offset = next
         \/ /\ sh # Newest!NoShift /\ reach <= next
            /\ r.meta.head = head /\ r.headEnd = next /\ r.headEndTail = tail
            /\ \/ /\ r.mode = "probing" /\ r.meta.tail = q.meta.tail /\ q.first.tail # <<>>
               \/ r.mode = "backlog" /\ r.meta.tail = tail /\ r.offset = next
  <2>1. tail \in IdLists(n) /\ next \in Nat /\ Newest!Locate(q, p.offset, ids) \in Int
    BY <1>1, <1>5
  <2>2. /\ n \in Nat /\ q \in Positions(n) /\ p.offset \in Nat /\ ids \in IdLists(n) /\ complete \in BOOLEAN
        /\ tail = Newest!LastIds(ids)
        /\ u = LeftAt(q, p.offset, ids, complete, tail) /\ sh = ShiftAt(q, p.offset, ids)
    BY <1>0, <1>2, <1>6
  <2>3. /\ r \in Positions(n) /\ SameScan(r, q) /\ r.unsettledHead = u /\ r.shift = sh
    BY <2>1, <2>2, HeadObserved
  <2>4. HeadOutcome(r, q, u, sh, next, tail)
    BY <2>1, <2>2, HeadObserved
  <2>5. QED
    BY <1>6, <2>3, <2>4 DEF HeadOutcome
<1>8. /\ MetaSound(l, d, over, q.meta) /\ MetaSound(l, d, over, q.first) /\ HeadSound(l, d, over, p)
  BY <1>0, <1>2 DEF PositionSound
<1>9. /\ MetaSound(l, d, over, r.first) /\ Dense(l, r.fresh) /\ Dense(l, r.unsettledHead.ids)
      /\ r.unsettledHead # Newest!NoHead => r.unsettledHead.ids # <<>>
  BY <1>3, <1>4, <1>7, <1>8 DEF SameScan
<1>10. Settled(l, d, Low(tail), Low(head))
  <2>1. Low(head) \in Int
    BY <1>4
  <2>2. QED
    BY <1>1, <1>4, <2>1
<1>11. CASE r.mode = q.mode /\ r.meta = q.meta /\ r.offset = next
  <2>1. r.mode = "scanning" /\ r.offset # 0 /\ r.first = p.first /\ r.fresh = q.fresh
    <3>1. r.mode = "scanning" /\ r.first = p.first /\ r.fresh = q.fresh
      BY <1>2, <1>7, <1>11 DEF SameScan
    <3>2. next # 0
      BY <1>0, <1>1
    <3>3. QED
      BY <1>11, <3>1, <3>2
  <2>2. ScanSound(l, d, r)
    BY <1>3, <1>7, <1>11, <2>1 DEF ScanSound, SameScan
  <2>3. HeadSound(l, d, over, r)
    <3>1. r.first.head # <<>> /\ r.meta.head = r.first.head /\ r.meta.tail = r.first.tail
      BY <1>2, <1>8, <1>11, <2>1 DEF HeadSound
    <3>2. r.unsettledHead = Newest!NoHead => SettledTo(l, d, r.offset, r.fresh[1] + 1)
      BY <1>4, <1>7, <1>11, <2>1
    <3>3. r.unsettledHead # Newest!NoHead => SettledTo(l, d, r.offset, Low(r.unsettledHead.ids))
      BY <1>4, <1>7, <1>11
    <3>4. reach = r.first.headOffset + Len(r.first.head) + r.shift
      BY <1>2, <1>6, <1>7, <2>1
    <3>5. ~over /\ r.shift # Newest!NoShift => Passed(l, r.first.head, r.first.headOffset + Len(r.first.head) + r.shift)
      BY <1>2, <1>5, <1>7, <2>1, <3>4
    <3>6. QED
      BY <3>1, <3>2, <3>3, <3>5 DEF HeadSound
  <2>4. QED
    BY <1>7, <1>8, <1>9, <1>11, <2>1, <2>2, <2>3 DEF PositionSound
<1>12. CASE /\ sh # Newest!NoShift /\ reach <= next
            /\ r.meta.head = head /\ r.headEnd = next /\ r.headEndTail = tail
            /\ r.mode = "probing" /\ r.meta.tail = q.meta.tail /\ q.first.tail # <<>>
  <2>1. r.first = p.first /\ q.first = p.first /\ q.meta.tail = p.first.tail /\ p.first.head # <<>>
    BY <1>2, <1>7, <1>8 DEF SameScan, HeadSound
  <2>2. ProbeSound(l, d, r)
    BY <1>1, <1>4, <1>10, <1>12, <2>1 DEF ProbeSound
  <2>3. ASSUME ~over PROVE Settled(l, d, Low(p.first.tail), Low(head))
    <3>1. Settled(l, d, Low(p.first.tail), Low(p.first.head))
      BY <1>8, <1>12, <2>1, <2>3 DEF MetaSound, GapOf
    <3>2. Passed(l, p.first.head, reach)
      BY <1>5, <1>12, <2>1, <2>3
    <3>3. p.first.tail \in IdLists(n) /\ p.first.head \in IdLists(n) /\ p.first.headOffset \in Int
      BY <1>0 DEF Positions, Metas
    <3>4. Low(p.first.tail) \in Int /\ Low(p.first.head) \in Int /\ Low(head) \in Int
      BY <1>1, <1>4, <1>12, <2>1, <3>3
    <3>5. reach \in Int
      <4>1. Len(p.first.head) \in Int
        BY <3>3 DEF IdLists
      <4>2. QED
        BY <1>5, <1>6, <2>1, <3>3, <4>1
    <3>6. QED
      BY <1>1, <1>4, <1>12, <3>1, <3>2, <3>4, <3>5, GapExtends
  <2>4. MetaSound(l, d, over, r.meta)
    BY <1>4, <1>12, <2>1, <2>3 DEF MetaSound, GapOf
  <2>5. QED
    BY <1>7, <1>9, <1>12, <2>2, <2>4 DEF PositionSound
<1>13. CASE /\ r.meta.head = head
            /\ r.mode = "backlog" /\ r.meta.tail = tail /\ r.offset = next
  <2>1. BacklogSound(l, d, over, r)
    BY <1>4, <1>13 DEF BacklogSound
  <2>2. MetaSound(l, d, over, r.meta)
    BY <1>4, <1>10, <1>13 DEF MetaSound, GapOf
  <2>3. QED
    BY <1>7, <1>9, <1>13, <2>1, <2>2 DEF PositionSound
<1>14. QED
  BY <1>7, <1>11, <1>12, <1>13

\* What a page below the head leaves of a sound position.
LEMMA ScanStaysDense ==
  ASSUME NEW n, NEW l, NEW d, NEW over, NEW p, NEW ids, NEW next, NEW complete,
         PageSeen(n, l, d, over, p, ids, next, complete),
         NEW q, q = ScanOf(p, p.offset, ids, next, complete)
  PROVE  Dense(l, q.fresh)
<1> DEFINE head == Newest!FirstIds(ids)
           tail == Newest!LastIds(ids)
<1>1. head = Newest!FirstIds(ids) /\ tail = Newest!LastIds(ids)
  OBVIOUS
<1> HIDE DEF head, tail
<1>2. next \in Nat /\ head \in IdLists(n) /\ tail \in IdLists(n) /\ Dense(l, head)
  BY <1>1, PageFacts
<1>3. n \in Nat /\ p \in Positions(n) /\ p.offset \in Nat /\ complete \in BOOLEAN
  BY DEF PageSeen, Positions
<1>4. Dense(l, p.fresh)
  BY DEF PageSeen, PositionSound
<1>5. Scanned(q, p, p.offset, head, tail, next, complete)
  BY <1>1, <1>2, <1>3, ScanNoted
<1>6. QED
  BY <1>2, <1>4, <1>5 DEF Scanned

\* A position in the backlog is sound if what it saves and has settled is.
LEMMA InBacklog ==
  ASSUME NEW n, NEW l, NEW d, NEW over, NEW p, NEW q, NEW r,
         PositionSound(l, d, over, p), Dense(l, q.fresh), q.first = p.first, q.unsettledHead = p.unsettledHead,
         SameScan(r, q), r.unsettledHead = q.unsettledHead, r.mode = "backlog",
         MetaSound(l, d, over, r.meta), BacklogSound(l, d, over, r)
  PROVE  PositionSound(l, d, over, r)
<1>1. r.first = p.first /\ r.fresh = q.fresh /\ r.unsettledHead = p.unsettledHead
  BY DEF SameScan
<1>2. /\ MetaSound(l, d, over, r.first) /\ Dense(l, r.fresh) /\ Dense(l, r.unsettledHead.ids)
      /\ r.unsettledHead # Newest!NoHead => r.unsettledHead.ids # <<>>
  BY <1>1 DEF PositionSound
<1>3. QED
  BY <1>2 DEF PositionSound

\* A run that turns back goes on where its head scan ended.
LEMMA TurnedBackSound ==
  ASSUME NEW l, NEW d, NEW over, NEW p, NEW r, ProbeSound(l, d, p), Dense(l, p.meta.head),
         r.meta.head = p.meta.head, r.meta.tail = p.headEndTail, r.offset = p.headEnd
  PROVE  MetaSound(l, d, over, r.meta) /\ BacklogSound(l, d, over, r)
  BY DEF ProbeSound, MetaSound, GapOf, BacklogSound

\* Where a page with a saved tail id is found, everything above it is settled.
LEMMA FoundSettles ==
  ASSUME NEW l, Falling(l), NEW d, NEW start \in Nat, NEW ids, Falling(ids), OnPage(l, start, ids),
         NEW next, next = start + Len(ids), \A i \in DOMAIN ids : ids[i] \in d,
         NEW s, Falling(s), NEW i \in DOMAIN s, NEW j \in DOMAIN ids, s[i] = ids[j],
         NEW high \in Int, Settled(l, d, Low(s), high)
  PROVE  SettledTo(l, d, next, high)
<1> SUFFICES ASSUME NEW k \in DOMAIN l, k <= next, l[k] < high PROVE l[k] \in d
  BY DEF SettledTo
<1>1. s # <<>> /\ Low(s) \in Nat /\ s[i] \in Nat /\ Low(s) <= s[i]
  <2>1. Len(s) \in Nat /\ DOMAIN s = 1..Len(s) /\ (s = <<>> <=> Len(s) = 0)
    BY FallingHas
  <2>2. s # <<>>
    BY <2>1
  <2>3. QED
    BY <2>2, FallingHas
<1>2. /\ Len(ids) \in Nat /\ DOMAIN ids = 1..Len(ids) /\ j \in Nat
  BY FallingHas
<1>3. l[k] \in Nat /\ k \in Nat
  BY FallingHas
<1>4. start + j \in DOMAIN l /\ ids[j] = l[start + j]
  BY DEF OnPage
<1>5. CASE Low(s) <= l[k]
  BY <1>5 DEF Settled
<1>6. CASE ~(Low(s) <= l[k])
  <2>1. l[start + j] \in Nat /\ start + j \in Nat
    BY <1>4, FallingHas
  <2>2. l[start + j] > l[k]
    BY <1>1, <1>3, <1>4, <1>6, <2>1
  <2>3. start + j < k
    BY <1>4, <2>2, FallingHas
  <2>4. k - start \in DOMAIN ids /\ start + (k - start) = k
    BY <1>2, <1>3, <2>1, <2>3
  <2>5. ids[k - start] = l[k]
    BY <2>4 DEF OnPage
  <2>6. QED
    BY <2>4, <2>5
<1>7. QED
  BY <1>5, <1>6

LEMMA ProbingSound ==
  ASSUME NEW n, NEW l, NEW d, NEW over, NEW p, NEW ids, NEW next, NEW complete,
         PageSeen(n, l, d, over, p, ids, next, complete), p.mode = "probing",
         NEW q, q = ScanOf(p, p.offset, ids, next, complete),
         NEW r, r = Newest!ObserveProbe(q, p.offset, ids, next, complete)
  PROVE  r \in Positions(n) /\ PositionSound(l, d, over, r)
<1> DEFINE tail == Newest!LastIds(ids)
<1>0. n \in Nat /\ p \in Positions(n) /\ p.offset \in Nat /\ complete \in BOOLEAN /\ PositionSound(l, d, over, p)
      /\ ids \in IdLists(n) /\ (complete => \A i \in DOMAIN ids : ids[i] \in d)
      /\ OnPage(l, p.offset, ids) /\ next = p.offset + Len(ids)
  BY DEF PageSeen, Positions
<1>1. tail = Newest!LastIds(ids)
  OBVIOUS
<1> HIDE DEF tail
<1>2. /\ Falling(l) /\ next \in Nat /\ tail \in IdLists(n) /\ Low(tail) = l[next]
      /\ \A bound \in Int : SettledTo(l, d, next, bound) => Settled(l, d, l[next], bound)
      /\ \A s \in IdLists(n) : s # <<>> => Low(s) \in Nat /\ s[1] \in Nat /\ Low(s) <= s[1]
  BY <1>1, PageFacts
<1>3. /\ q \in Positions(n) /\ q.meta = p.meta /\ q.first = p.first /\ q.unsettledHead = p.unsettledHead
      /\ q.headEnd = p.headEnd /\ q.headEndTail = p.headEndTail
  BY PageNoted
<1>4. Dense(l, q.fresh)
  BY ScanStaysDense
<1>5. /\ r \in Positions(n) /\ SameScan(r, q) /\ r.mode = "backlog"
      /\ r.meta.head = q.meta.head /\ r.unsettledHead = q.unsettledHead
  BY <1>0, <1>1, <1>2, <1>3, ProbeObserved
<1>6. ProbeOutcome(r, q, p.offset, ids, next, complete, tail)
  BY <1>0, <1>1, <1>2, <1>3, ProbeObserved
<1>7. ProbeSound(l, d, p) /\ MetaSound(l, d, over, p.meta)
  BY <1>0 DEF PositionSound
<1>8. Dense(l, r.meta.head) /\ r.meta.head = p.meta.head /\ r.meta.head # <<>>
  BY <1>3, <1>5, <1>7 DEF MetaSound, ProbeSound
<1>9. MetaSound(l, d, over, r.meta) /\ BacklogSound(l, d, over, r) => PositionSound(l, d, over, r)
  <2>1. PositionSound(l, d, over, p)
    BY <1>0
  <2>2. QED
    BY <1>3, <1>4, <1>5, <2>1, InBacklog
<1>10. CASE r.meta.tail = q.headEndTail /\ r.offset = q.headEnd
  <2>1. MetaSound(l, d, over, r.meta) /\ BacklogSound(l, d, over, r)
    BY <1>3, <1>7, <1>8, <1>10, TurnedBackSound
  <2>2. QED
    BY <1>5, <1>9, <2>1
<1>11. CASE /\ \E i \in DOMAIN q.first.tail, j \in DOMAIN ids : q.first.tail[i] = ids[j]
            /\ r.offset = next /\ complete /\ r.meta.tail = tail
  <2>1. PICK i \in DOMAIN p.first.tail, j \in DOMAIN ids : p.first.tail[i] = ids[j]
    BY <1>3, <1>11
  <2>2. p.first.tail \in IdLists(n) /\ p.meta.head \in IdLists(n)
    BY <1>0 DEF Positions, Metas
  <2>3. Falling(p.first.tail) /\ Falling(ids)
    BY <1>0, <2>2 DEF IdLists
  <2>4. p.first.tail # <<>>
    <3>1. DOMAIN p.first.tail = 1..Len(p.first.tail) /\ (p.first.tail = <<>> <=> Len(p.first.tail) = 0)
      BY <2>3, FallingHas
    <3>2. QED
      BY <3>1
  <2>5. Low(p.meta.head) \in Nat
    BY <1>2, <1>8, <2>2
  <2>6. ASSUME ~over PROVE SettledTo(l, d, next, Low(p.meta.head))
    <3>1. Settled(l, d, Low(p.first.tail), Low(p.meta.head))
      BY <1>7, <1>8, <2>4, <2>6 DEF MetaSound, GapOf, ProbeSound
    <3>2. Low(p.meta.head) \in Int
      BY <2>5
    <3>3. QED
      BY <1>0, <1>2, <1>11, <2>1, <2>3, <3>1, <3>2, FoundSettles
  <2>7. ASSUME ~over PROVE Settled(l, d, Low(tail), Low(p.meta.head))
    <3>1. Low(p.meta.head) \in Int
      BY <2>5
    <3>2. QED
      BY <1>2, <2>6, <2>7, <3>1
  <2>8. MetaSound(l, d, over, r.meta)
    BY <1>8, <1>11, <2>7 DEF MetaSound, GapOf
  <2>9. BacklogSound(l, d, over, r)
    BY <1>8, <1>11, <2>6 DEF BacklogSound
  <2>10. QED
    BY <1>5, <1>9, <2>8, <2>9
<1>12. CASE r.meta.tail = <<>> /\ ~r.backlogSettled
  <2>1. MetaSound(l, d, over, r.meta) /\ BacklogSound(l, d, over, r)
    BY <1>8, <1>12 DEF MetaSound, GapOf, BacklogSound
  <2>2. QED
    BY <1>5, <1>9, <2>1
<1>13. QED
  BY <1>6, <1>10, <1>11, <1>12 DEF ProbeOutcome

LEMMA BacklogKeepsSound ==
  ASSUME NEW n, NEW l, NEW d, NEW over, NEW p, NEW ids, NEW next, NEW complete,
         PageSeen(n, l, d, over, p, ids, next, complete), p.mode = "backlog",
         NEW q, q = ScanOf(p, p.offset, ids, next, complete),
         NEW r, r = Newest!SettleBacklog(q, ids, next, complete)
  PROVE  r \in Positions(n) /\ PositionSound(l, d, over, r)
<1> DEFINE tail == Newest!LastIds(ids)
<1>0. n \in Nat /\ p \in Positions(n) /\ p.offset \in Nat /\ complete \in BOOLEAN /\ PositionSound(l, d, over, p)
      /\ ids \in IdLists(n) /\ p.backlogSettled \in BOOLEAN /\ p.meta.head \in IdLists(n)
  BY DEF PageSeen, Positions, Metas
<1>1. tail = Newest!LastIds(ids)
  OBVIOUS
<1> HIDE DEF tail
<1>2. /\ next \in Nat /\ tail \in IdLists(n) /\ Low(tail) = l[next]
      /\ \A bound \in Int : SettledTo(l, d, next, bound) => Settled(l, d, l[next], bound)
      /\ \A bound : complete /\ SettledTo(l, d, p.offset, bound) => SettledTo(l, d, next, bound)
      /\ \A s \in IdLists(n) : s # <<>> => Low(s) \in Nat /\ s[1] \in Nat /\ Low(s) <= s[1]
  BY <1>1, PageFacts
<1>3. /\ q \in Positions(n) /\ q.meta = p.meta /\ q.first = p.first /\ q.unsettledHead = p.unsettledHead
      /\ q.backlogSettled = p.backlogSettled /\ q.mode = p.mode
  BY PageNoted
<1>4. Dense(l, q.fresh)
  BY ScanStaysDense
<1>5. /\ r \in Positions(n) /\ SameScan(r, q) /\ r.mode = q.mode /\ r.offset = next
      /\ r.meta.head = q.meta.head /\ r.unsettledHead = q.unsettledHead
      /\ r.backlogSettled = (q.backlogSettled /\ complete)
      /\ IF r.backlogSettled THEN r.meta.tail = tail /\ r.meta.cursor = next ELSE r.meta = q.meta
  BY <1>0, <1>1, <1>2, <1>3, BacklogSettled
<1>6. BacklogSound(l, d, over, p) /\ MetaSound(l, d, over, p.meta)
  BY <1>0 DEF PositionSound
<1>7. Low(p.meta.head) \in Nat /\ p.meta.head # <<>> /\ r.meta.head = p.meta.head
  BY <1>0, <1>2, <1>3, <1>5, <1>6 DEF BacklogSound
<1>8. ASSUME ~over, r.backlogSettled PROVE SettledTo(l, d, next, Low(p.meta.head))
  BY <1>0, <1>2, <1>3, <1>5, <1>6, <1>8 DEF BacklogSound
<1>9. BacklogSound(l, d, over, r)
  BY <1>5, <1>7, <1>8 DEF BacklogSound
<1>10. MetaSound(l, d, over, r.meta)
  <2>1. CASE r.backlogSettled
    <3>1. ~over => Settled(l, d, Low(tail), Low(p.meta.head))
      <4>1. Low(p.meta.head) \in Int
        BY <1>7
      <4>2. QED
        BY <1>2, <1>8, <2>1, <4>1
    <3>2. QED
      BY <1>5, <1>6, <1>7, <2>1, <3>1 DEF MetaSound, GapOf
  <2>2. CASE ~r.backlogSettled
    BY <1>3, <1>5, <1>6, <2>2
  <2>3. QED
    BY <2>1, <2>2
<1>11. QED
  BY <1>0, <1>3, <1>4, <1>5, <1>9, <1>10, InBacklog

-----------------------------------------------------------------------------
\* A page keeps a position sound.
LEMMA PageSound ==
  ASSUME NEW n, NEW l, NEW d, NEW over, NEW p, NEW ids, NEW complete,
         PageSeen(n, l, d, over, p, ids, p.offset + Len(ids), complete),
         NEW r, r = Newest!ObservePage(p, p.offset, ids, Len(ids), complete)
  PROVE  r \in Positions(n) /\ PositionSound(l, d, over, r)
<1> DEFINE next == p.offset + Len(ids)
           q == ScanOf(p, p.offset, ids, next, complete)
<1>1. next = p.offset + Len(ids) /\ q = ScanOf(p, p.offset, ids, next, complete)
  OBVIOUS
<1>2. PageSeen(n, l, d, over, p, ids, next, complete)
  OBVIOUS
<1> HIDE DEF next, q
<1>3. r = CASE q.mode = "rescan" -> Newest!GoOn(Newest!AdoptScan(q), "rescan", next)
            [] q.mode = "scanning" -> Newest!ObserveHead(q, p.offset, ids, next, complete)
            [] q.mode = "probing" -> Newest!ObserveProbe(q, p.offset, ids, next, complete)
            [] q.mode = "backlog" -> Newest!SettleBacklog(q, ids, next, complete)
  <2> DEFINE e == Len(ids)
             start == p.offset
  <2>1. e = Len(ids) /\ start = p.offset /\ next = start + e
    BY <1>1
  <2> HIDE DEF e, start
  <2>2. q = ScanOf(p, start, ids, next, complete) /\ r = Newest!ObservePage(p, start, ids, e, complete)
    BY <1>1, <2>1
  <2>3. Newest!ObservePage(p, start, ids, e, complete) =
          CASE q.mode = "rescan" -> Newest!GoOn(Newest!AdoptScan(q), "rescan", next)
            [] q.mode = "scanning" -> Newest!ObserveHead(q, start, ids, next, complete)
            [] q.mode = "probing" -> Newest!ObserveProbe(q, start, ids, next, complete)
            [] q.mode = "backlog" -> Newest!SettleBacklog(q, ids, next, complete)
    BY <2>1, <2>2, Zenon DEF Newest!ObservePage, ScanOf
  <2>4. QED
    BY <2>1, <2>2, <2>3
<1>4. q.mode = p.mode
  BY <1>1, <1>2, PageNoted
<1>5. p.mode \in Modes
  BY DEF PageSeen, Positions
<1>6. CASE p.mode = "rescan"
  <2>1. r = Newest!GoOn(Newest!AdoptScan(q), "rescan", next)
    BY <1>3, <1>4, <1>6
  <2>2. QED
    BY <1>1, <1>2, <1>6, <2>1, RescanSound
<1>7. CASE p.mode = "scanning"
  <2>1. r = Newest!ObserveHead(q, p.offset, ids, next, complete)
    BY <1>3, <1>4, <1>7
  <2>2. QED
    BY <1>1, <1>2, <1>7, <2>1, ScanningSound
<1>8. CASE p.mode = "probing"
  <2>1. r = Newest!ObserveProbe(q, p.offset, ids, next, complete)
    BY <1>3, <1>4, <1>8
  <2>2. QED
    BY <1>1, <1>2, <1>8, <2>1, ProbingSound
<1>9. CASE p.mode = "backlog"
  <2>1. r = Newest!SettleBacklog(q, ids, next, complete)
    BY <1>3, <1>4, <1>9
  <2>2. QED
    BY <1>1, <1>2, <1>9, <2>1, BacklogKeepsSound
<1>10. QED
  BY <1>5, <1>6, <1>7, <1>8, <1>9 DEF Modes

\* So does the end of the listing.
LEMMA EndedSound ==
  ASSUME NEW n \in Nat, NEW l, Falling(l), NEW d, NEW over, NEW p \in Positions(n), PositionSound(l, d, over, p),
         NEW r, r = Newest!ListingEnded(p)
  PROVE  r \in Positions(n) /\ PositionSound(l, d, over, r)
<1>1. r = CASE p.mode = "scanning" -> Newest!AdoptScan(p)
            [] p.mode = "probing" -> Newest!FallBack(p)
            [] OTHER -> p
  BY Zenon DEF Newest!ListingEnded
<1>2. /\ MetaSound(l, d, over, p.first) /\ Dense(l, p.fresh) /\ Dense(l, p.unsettledHead.ids)
      /\ p.unsettledHead # Newest!NoHead => p.unsettledHead.ids # <<>>
  BY DEF PositionSound
<1>3. CASE p.mode = "scanning"
  <2>1. r = Newest!AdoptScan(p)
    BY <1>1, <1>3
  <2>2. ScanSound(l, d, p)
    BY <1>3 DEF PositionSound
  <2>3. p.fresh # <<>> /\ p.scanTail # <<>> => Settled(l, d, Low(p.scanTail), p.fresh[1] + 1)
    BY <2>2 DEF ScanSound
  <2>4. /\ r \in Positions(n) /\ SameScan(r, p) /\ r.mode = "rescan" /\ r.unsettledHead = p.unsettledHead
        /\ MetaSound(l, d, over, r.meta)
    BY <1>2, <2>1, <2>3, AdoptedSound
  <2>5. r.offset = p.offset
    BY <2>1, ScanAdopted
  <2>6. ScanSound(l, d, r)
    BY <2>2, <2>4, <2>5 DEF ScanSound, SameScan
  <2>7. QED
    BY <1>2, <2>4, <2>6 DEF PositionSound, SameScan
<1>4. CASE p.mode = "probing"
  <2>1. r = Newest!FallBack(p)
    BY <1>1, <1>4
  <2>2. /\ r \in Positions(n) /\ SameScan(r, p)
        /\ r.meta.head = p.meta.head /\ r.meta.tail = p.headEndTail
        /\ r.offset = p.headEnd /\ r.mode = "backlog" /\ r.unsettledHead = p.unsettledHead
    BY <2>1, FallenBack
  <2>3. ProbeSound(l, d, p) /\ Dense(l, p.meta.head)
    BY <1>4 DEF PositionSound, MetaSound
  <2>4. MetaSound(l, d, over, r.meta) /\ BacklogSound(l, d, over, r)
    BY <2>2, <2>3, TurnedBackSound
  <2>5. QED
    BY <1>2, <2>2, <2>4, InBacklog
<1>5. CASE p.mode # "scanning" /\ p.mode # "probing"
  BY <1>1, <1>5
<1>6. QED
  BY <1>3, <1>4, <1>5

\* A run that starts from sound metadata is sound.
LEMMA StartSound ==
  ASSUME NEW n \in Nat, NEW l, NEW d, NEW over, NEW m \in Metas(n), MetaSound(l, d, over, m),
         NEW r, r = Newest!StartAt(m) \/ r = [Newest!StartAt(m) EXCEPT !.restarted = TRUE]
  PROVE  r \in Positions(n) /\ PositionSound(l, d, over, r)
<1>1. <<>> \in IdLists(n) /\ Dense(l, <<>>)
  BY EmptySeq, LenProperties DEF IdLists, Falling, Dense
<1>2. /\ r.offset = 0 /\ r.meta = m /\ r.first = m /\ r.mode = (IF m.head = <<>> THEN "rescan" ELSE "scanning")
      /\ r.unsettledHead = Newest!NoHead /\ r.fresh = <<>> /\ r.scanTail = <<>> /\ r.shift = Newest!NoShift
  BY DEF Newest!StartAt
<1>3. r \in Positions(n)
  <2> DEFINE mode == IF m.head = <<>> THEN "rescan" ELSE "scanning"
  <2>1. mode \in Modes /\ Newest!NoHead \in [offset : Int, ids : IdLists(n)] /\ Newest!NoShift \in Int
    BY <1>1, SizesAre DEF Modes, Newest!NoHead
  <2>2. Newest!StartAt(m) =
          [offset |-> 0, meta |-> m, first |-> m, mode |-> mode,
           unsettledHead |-> Newest!NoHead, fresh |-> <<>>, scanSettled |-> TRUE, scanOffset |-> 0,
           scanTail |-> <<>>, backlogSettled |-> TRUE, headEnd |-> 0, headEndTail |-> <<>>,
           shift |-> Newest!NoShift, restarted |-> FALSE]
    BY DEF Newest!StartAt
  <2> HIDE DEF mode
  <2>3. Newest!StartAt(m) \in Positions(n)
    BY <1>1, <2>1, <2>2 DEF Positions
  <2>4. [Newest!StartAt(m) EXCEPT !.restarted = TRUE] \in Positions(n)
    BY <2>3 DEF Positions
  <2>5. QED
    BY <2>3, <2>4
<1>4. Newest!NoHead.ids = <<>>
  BY DEF Newest!NoHead
<1>5. ScanSound(l, d, r)
  BY <1>2 DEF ScanSound
<1>6. m.head # <<>> => HeadSound(l, d, over, r)
  BY <1>2 DEF HeadSound
<1>7. QED
  BY <1>1, <1>2, <1>3, <1>4, <1>5, <1>6 DEF PositionSound

\* Two lists of ids, one above the other.
Joined(s, t) == s \o t

LEMMA JoinedAre ==
  ASSUME NEW s \in Seq(Nat), NEW t \in Seq(Nat), NEW j, j = Joined(s, t)
  PROVE  /\ j \in Seq(Nat) /\ DOMAIN j = 1..(Len(s) + Len(t))
         /\ \A i \in DOMAIN j : j[i] = (IF i <= Len(s) THEN s[i] ELSE t[i - Len(s)])
<1>1. j = s \o t
  BY DEF Joined
<1>2. j \in Seq(Nat) /\ Len(j) = Len(s) + Len(t)
  BY <1>1, ConcatProperties
<1>3. \A i \in 1..(Len(s) + Len(t)) : j[i] = (IF i <= Len(s) THEN s[i] ELSE t[i - Len(s)])
  BY <1>1, ConcatProperties
<1>4. DOMAIN j = 1..(Len(s) + Len(t))
  BY <1>2, LenProperties
<1>5. QED
  BY <1>2, <1>3, <1>4

\* A listing with a new entry on top.
LEMMA Grown ==
  ASSUME NEW n \in Nat, NEW l \in IdLists(n), NEW m, m = <<n + 1>> \o l
  PROVE  /\ m \in IdLists(n + 1)
         /\ \A i \in DOMAIN m : m[i] = n + 1 \/ (i - 1 \in DOMAIN l /\ m[i] = l[i - 1] /\ i \in Nat)
<1>1. l \in Seq(Nat) /\ Falling(l) /\ Len(l) \in Nat /\ DOMAIN l = 1..Len(l)
  BY FallingHas DEF IdLists
<1>2. \A i \in DOMAIN l : l[i] \in Nat /\ l[i] <= n
  BY <1>1, FallingHas DEF IdLists
<1> DEFINE top == <<n + 1>>
<1>3. top \in Seq(Nat) /\ Len(top) = 1 /\ top[1] = n + 1
  OBVIOUS
<1>4. m = Joined(top, l)
  BY DEF Joined
<1> HIDE DEF top
<1>5. /\ m \in Seq(Nat) /\ DOMAIN m = 1..(1 + Len(l))
      /\ \A i \in DOMAIN m : m[i] = (IF i <= 1 THEN top[i] ELSE l[i - 1])
  <2>0. top \in Seq(Nat) /\ l \in Seq(Nat)
    BY <1>1, <1>3
  <2>1. m \in Seq(Nat) /\ DOMAIN m = 1..(Len(top) + Len(l))
    BY <1>4, <2>0, JoinedAre
  <2>2. \A i \in DOMAIN m : m[i] = (IF i <= Len(top) THEN top[i] ELSE l[i - Len(top)])
    BY <1>4, <2>0, JoinedAre, Zenon
  <2>3. QED
    BY <1>3, <2>1, <2>2
<1>6. \A i \in DOMAIN m : i = 1 \/ (i - 1 \in DOMAIN l /\ i > 1 /\ m[i] = l[i - 1])
  BY <1>1, <1>5
<1>7. 1 \in DOMAIN m => m[1] = n + 1
  BY <1>3, <1>5
<1>8. \A i \in DOMAIN m : i \in Nat
  BY <1>1, <1>5
<1>9. Falling(m)
  <2> SUFFICES ASSUME NEW i \in DOMAIN m, NEW j \in DOMAIN m, i < j PROVE m[i] > m[j]
    BY <1>5 DEF Falling
  <2>0. i \in Nat /\ j \in Nat
    BY <1>8
  <2>1. j # 1
    BY <1>1, <1>5, <2>0
  <2>2. j - 1 \in DOMAIN l /\ m[j] = l[j - 1]
    BY <1>6, <2>1
  <2>3. CASE i = 1
    BY <1>2, <1>7, <2>2, <2>3
  <2>4. CASE i # 1
    <3>1. i - 1 \in DOMAIN l /\ m[i] = l[i - 1]
      BY <1>6, <2>4
    <3>2. i - 1 < j - 1
      BY <2>0
    <3>3. QED
      BY <1>1, <2>2, <3>1, <3>2 DEF Falling
  <2>5. QED
    BY <2>3, <2>4
<1>10. \A i \in DOMAIN m : m[i] <= n + 1
  BY <1>2, <1>6, <1>7
<1>11. m \in IdLists(n + 1)
  BY <1>5, <1>9, <1>10 DEF IdLists
<1>12. QED
  BY <1>6, <1>7, <1>8, <1>11

\* Nothing a position stands for is lost when one is submitted.
LEMMA GrownSound ==
  ASSUME NEW n \in Nat, NEW l \in IdLists(n), NEW m, m = <<n + 1>> \o l, NEW d, NEW over, NEW now, ~now => ~over
  PROVE  /\ \A x \in Metas(n) : MetaSound(l, d, over, x) => MetaSound(m, d, now, x)
         /\ \A p \in Positions(n) : PositionSound(l, d, over, p) /\ (~now /\ p.mode = "scanning" => p.shift = Newest!NoShift)
              => PositionSound(m, d, now, p)
<1>1. \A i \in DOMAIN m : m[i] = n + 1 \/ (i - 1 \in DOMAIN l /\ m[i] = l[i - 1] /\ i \in Nat)
  BY Grown
<1>2. ASSUME NEW high \in Int, high <= n + 1, NEW low, Settled(l, d, low, high) PROVE Settled(m, d, low, high)
  BY <1>1, <1>2 DEF Settled
<1>3. ASSUME NEW high \in Int, high <= n + 1, NEW k \in Int, SettledTo(l, d, k, high) PROVE SettledTo(m, d, k, high)
  <2> SUFFICES ASSUME NEW i \in DOMAIN m, i <= k, m[i] < high PROVE m[i] \in d
    BY DEF SettledTo
  <2>1. i - 1 \in DOMAIN l /\ m[i] = l[i - 1] /\ i \in Nat
    BY <1>1, <1>3
  <2>2. i - 1 <= k
    BY <2>1
  <2>3. QED
    BY <1>3, <2>1, <2>2 DEF SettledTo
<1>4. \A s \in IdLists(n) : s # <<>> => /\ Low(s) \in Int /\ s[1] \in Int /\ Low(s) <= n + 1 /\ s[1] <= n
                                       /\ s[1] + 1 \in Int /\ s[1] + 1 <= n + 1
  <2> SUFFICES ASSUME NEW s \in IdLists(n), s # <<>> PROVE Low(s) \in Nat /\ s[1] \in Nat /\ Low(s) <= n /\ s[1] <= n
    OBVIOUS
  <2>1. Falling(s) /\ \A i \in DOMAIN s : s[i] <= n
    BY DEF IdLists
  <2>2. 1 \in DOMAIN s /\ Len(s) \in DOMAIN s /\ Low(s) \in Nat /\ s[1] \in Nat
    BY <2>1, FallingHas
  <2>3. QED
    BY <2>1, <2>2 DEF Low
<1>5. ASSUME NEW s \in IdLists(n), Dense(l, s) PROVE Dense(m, s)
  <2> SUFFICES ASSUME s # <<>>, NEW i \in DOMAIN m, Low(s) <= m[i], m[i] <= s[1] PROVE \E j \in DOMAIN s : s[j] = m[i]
    BY DEF Dense
  <2>1. m[i] # n + 1
    BY <1>4
  <2>2. i - 1 \in DOMAIN l /\ m[i] = l[i - 1]
    BY <1>1, <2>1
  <2>3. QED
    BY <1>5, <2>2 DEF Dense
<1>6. ASSUME NEW x \in Metas(n), MetaSound(l, d, over, x) PROVE MetaSound(m, d, now, x)
  <2>1. x.head \in IdLists(n) /\ x.tail \in IdLists(n)
    BY DEF Metas
  <2>2. ~now => GapOf(m, d, x)
    BY <1>2, <1>4, <1>6, <2>1 DEF MetaSound, GapOf
  <2>3. QED
    BY <1>5, <1>6, <2>1, <2>2 DEF MetaSound
<1>7. ASSUME NEW p \in Positions(n), PositionSound(l, d, over, p), ~now /\ p.mode = "scanning" => p.shift = Newest!NoShift
      PROVE  PositionSound(m, d, now, p)
  <2>1. /\ p.meta \in Metas(n) /\ p.first \in Metas(n) /\ p.fresh \in IdLists(n) /\ p.unsettledHead.ids \in IdLists(n)
        /\ p.scanTail \in IdLists(n) /\ p.headEndTail \in IdLists(n) /\ p.offset \in Int /\ p.headEnd \in Int
        /\ p.meta.head \in IdLists(n)
    BY DEF Positions, Metas
  <2>2. /\ MetaSound(m, d, now, p.meta) /\ MetaSound(m, d, now, p.first)
        /\ Dense(m, p.fresh) /\ Dense(m, p.unsettledHead.ids)
        /\ p.unsettledHead # Newest!NoHead => p.unsettledHead.ids # <<>>
    BY <1>5, <1>6, <1>7, <2>1 DEF PositionSound
  <2>3. ScanSound(l, d, p) => ScanSound(m, d, p)
    BY <1>2, <1>3, <1>4, <2>1 DEF ScanSound
  <2>4. p.mode = "scanning" /\ HeadSound(l, d, over, p) => HeadSound(m, d, now, p)
    <3> SUFFICES ASSUME p.mode = "scanning", HeadSound(l, d, over, p) PROVE HeadSound(m, d, now, p)
      OBVIOUS
    <3>1. p.unsettledHead = Newest!NoHead /\ p.fresh # <<>> => SettledTo(m, d, p.offset, p.fresh[1] + 1)
      BY <1>3, <1>4, <2>1 DEF HeadSound
    <3>2. p.unsettledHead # Newest!NoHead => SettledTo(m, d, p.offset, Low(p.unsettledHead.ids))
      BY <1>3, <1>4, <2>1, <2>2 DEF HeadSound
    <3>3. ~(~now /\ p.shift # Newest!NoShift)
      BY <1>7
    <3>4. QED
      BY <3>1, <3>2, <3>3 DEF HeadSound
  <2>5. ProbeSound(l, d, p) => ProbeSound(m, d, p)
    BY <1>2, <1>3, <1>4, <2>1 DEF ProbeSound
  <2>6. BacklogSound(l, d, over, p) => BacklogSound(m, d, now, p)
    BY <1>3, <1>4, <2>1 DEF BacklogSound
  <2>7. QED
    BY <1>7, <2>2, <2>3, <2>4, <2>5, <2>6 DEF PositionSound
<1>8. QED
  BY <1>6, <1>7

\* What is saved grows with the ids.
LEMMA PositionsGrow ==
  ASSUME NEW m \in Nat, NEW n \in Nat, m <= n
  PROVE  Metas(m) \subseteq Metas(n) /\ Positions(m) \subseteq Positions(n)
<1>1. IdLists(m) \subseteq IdLists(n)
  BY IdListsGrow
<1>2. Metas(m) \subseteq Metas(n)
  BY <1>1 DEF Metas
<1>3. [offset : Int, ids : IdLists(m)] \subseteq [offset : Int, ids : IdLists(n)]
  BY <1>1
<1>4. Positions(m) \subseteq Positions(n)
  BY <1>1, <1>2, <1>3 DEF Positions
<1>5. QED
  BY <1>2, <1>4

\* A listing with one entry taken out.
LEMMA Shrunk ==
  ASSUME NEW n \in Nat, NEW l \in IdLists(n), NEW k \in DOMAIN l, NEW m, m = Newest!RemoveAt(l, k)
  PROVE  m \in IdLists(n) /\ \A i \in DOMAIN m : \E j \in DOMAIN l : m[i] = l[j]
<1>1. l \in Seq(Nat) /\ Falling(l) /\ Len(l) \in Nat /\ DOMAIN l = 1..Len(l)
  BY FallingHas DEF IdLists
<1> DEFINE s == Part(l, 1, k - 1)
           t == Part(l, k + 1, Len(l))
<1>2. m = Joined(s, t)
  BY DEF Joined, Part, Newest!RemoveAt
<1>3. /\ Falling(s) /\ Len(s) = k - 1 /\ \A i \in DOMAIN s : 1 + i - 1 \in DOMAIN l /\ s[i] = l[1 + i - 1]
  <2> DEFINE a == 1
             b == k - 1
  <2>1. a \in Nat \ {0} /\ b \in Nat /\ b <= Len(l) /\ s = Part(l, a, b) /\ a = 1 /\ b = k - 1
    BY <1>1
  <2> HIDE DEF s, a, b
  <2>0. Falling(l)
    BY <1>1
  <2>2. Falling(s) /\ Len(s) = (IF a <= b THEN b - a + 1 ELSE 0)
    BY <2>0, <2>1, PartFalls
  <2>3. \A i \in DOMAIN s : a + i - 1 \in DOMAIN l /\ s[i] = l[a + i - 1]
    BY <2>0, <2>1, PartFalls
  <2>4. QED
    BY <2>1, <2>2, <2>3
<1>4. /\ Falling(t) /\ Len(t) = Len(l) - k /\ \A i \in DOMAIN t : (k + 1) + i - 1 \in DOMAIN l /\ t[i] = l[(k + 1) + i - 1]
  <2> DEFINE a == k + 1
             b == Len(l)
  <2>1. a \in Nat \ {0} /\ b \in Nat /\ b <= Len(l) /\ t = Part(l, a, b)
    BY <1>1
  <2>5. a = k + 1 /\ b = Len(l) /\ k \in Nat /\ k <= b
    BY <1>1
  <2> HIDE DEF t, a, b
  <2>0. Falling(l)
    BY <1>1
  <2>2. Falling(t) /\ Len(t) = (IF a <= b THEN b - a + 1 ELSE 0)
    BY <2>0, <2>1, PartFalls
  <2>3. \A i \in DOMAIN t : a + i - 1 \in DOMAIN l /\ t[i] = l[a + i - 1]
    BY <2>0, <2>1, PartFalls
  <2>4. QED
    BY <2>1, <2>2, <2>3, <2>5
<1> HIDE DEF s, t
<1>5. s \in Seq(Nat) /\ t \in Seq(Nat) /\ DOMAIN s = 1..(k - 1) /\ DOMAIN t = 1..(Len(l) - k)
  <2>1. DOMAIN s = 1..Len(s) /\ DOMAIN t = 1..Len(t)
    BY <1>3, <1>4, FallingHas
  <2>2. QED
    BY <1>3, <1>4, <2>1 DEF Falling
<1> DEFINE at(i) == IF i < k THEN i ELSE i + 1
<1>6. /\ m \in Seq(Nat) /\ DOMAIN m = 1..(Len(l) - 1)
      /\ \A i \in DOMAIN m : m[i] = (IF i <= k - 1 THEN s[i] ELSE t[i - (k - 1)])
  <2>1. /\ m \in Seq(Nat) /\ DOMAIN m = 1..(Len(s) + Len(t))
        /\ \A i \in DOMAIN m : m[i] = (IF i <= Len(s) THEN s[i] ELSE t[i - Len(s)])
    BY ZenonT(30), <1>2, <1>5, JoinedAre
  <2>2. Len(s) + Len(t) = Len(l) - 1
    <3>1. Len(s) = k - 1 /\ Len(t) = Len(l) - k /\ Len(l) \in Nat /\ k \in Nat
      BY <1>1, <1>3, <1>4
    <3>2. QED
      BY <3>1
  <2>3. QED
    BY <1>3, <2>1, <2>2
<1>7. ASSUME NEW i \in DOMAIN m PROVE i \in Nat /\ at(i) \in DOMAIN l /\ m[i] = l[at(i)]
  <2>0. i \in Nat /\ k \in Nat /\ 1 <= i /\ i <= Len(l) - 1 /\ 1 <= k /\ k <= Len(l)
    <3>1. i \in 1..(Len(l) - 1)
      BY <1>6
    <3>2. QED
      BY <1>1, <3>1
  <2>1. CASE i < k
    <3>1. i \in DOMAIN s /\ i <= k - 1 /\ 1 + i - 1 = i
      BY <1>5, <2>0, <2>1
    <3>2. m[i] = s[i] /\ s[i] = l[i] /\ i \in DOMAIN l
      BY SMTT(20), <1>3, <1>6, <3>1
    <3>3. QED
      BY <2>0, <2>1, <3>2
  <2>2. CASE ~(i < k)
    <3> DEFINE j == i - (k - 1)
               n0 == Len(l)
    <3>0. n0 \in Nat /\ n0 = Len(l) /\ i <= n0 - 1 /\ k <= n0 /\ i \in Nat /\ k \in Nat /\ k <= i /\ j = i - (k - 1)
      BY <1>1, <2>0, <2>2
    <3> HIDE DEF j, n0
    <3>1. j \in 1..(n0 - k) /\ ~(i <= k - 1) /\ (k + 1) + j - 1 = i + 1
      BY SMTT(20), <3>0
    <3>2. m[i] = t[j]
      BY <1>6, <3>1 DEF j
    <3>3. t[j] = l[i + 1] /\ i + 1 \in DOMAIN l
      BY <1>4, <1>5, <3>0, <3>1
    <3>4. QED
      BY <2>0, <2>2, <3>2, <3>3
  <2>3. QED
    BY <2>1, <2>2
<1>8. \A i, j \in DOMAIN m : i < j => at(i) < at(j)
  <2>1. k \in Nat
    BY <1>1
  <2>2. \A i \in DOMAIN m : i \in Nat
    BY <1>7
  <2>3. QED
    BY <2>1, <2>2
<1> HIDE DEF at
<1>9. Falling(m)
  <2>1. \A i, j \in DOMAIN m : i < j => m[i] > m[j]
    BY <1>1, <1>7, <1>8 DEF Falling
  <2>2. QED
    BY <1>6, <2>1 DEF Falling
<1>10. \A i \in DOMAIN m : \E j \in DOMAIN l : m[i] = l[j]
  BY <1>7
<1>11. \A i \in DOMAIN m : m[i] <= n
  BY <1>10 DEF IdLists
<1>12. QED
  BY <1>6, <1>9, <1>10, <1>11 DEF IdLists

LEMMA ShrunkSound ==
  ASSUME NEW l, NEW m, \A i \in DOMAIN m : \E j \in DOMAIN l : m[i] = l[j], NEW d, NEW over,
         NEW x, MetaSound(l, d, over, x)
  PROVE  MetaSound(m, d, over, x)
<1>1. Dense(m, x.head)
  <2>1. Dense(l, x.head)
    BY DEF MetaSound
  <2>2. QED
    BY <2>1 DEF Dense
<1>2. \A low, high : Settled(l, d, low, high) => Settled(m, d, low, high)
  BY DEF Settled
<1>3. QED
  BY <1>1, <1>2 DEF MetaSound, GapOf

\* S is what is on s, and id names its members.
OnList(s, S, id) ==
  /\ \A i \in DOMAIN s : s[i] \in S
  /\ \A x \in S : id[x] = x /\ \E i \in DOMAIN s : s[i] = x

\* A falling sequence is the one best-first list of what is on it.
LEMMA FallingLists ==
  ASSUME NEW s, Falling(s), NEW S, NEW id, OnList(s, S, id)
  PROVE  Newest!BestFirst(S, id, id) = s
<1>0. (\A i \in DOMAIN s : s[i] \in S) /\ \A x \in S : id[x] = x /\ \E i \in DOMAIN s : s[i] = x
  BY DEF OnList
<1>1. Len(s) \in Nat /\ DOMAIN s = 1..Len(s) /\ \A i \in DOMAIN s : s[i] \in Nat /\ i \in Nat
  BY FallingHas
<1>2. \A i, j \in DOMAIN s : (s[i] > s[j] => i < j) /\ (i < j => s[i] > s[j]) /\ (s[i] = s[j] => i = j)
  BY FallingHas DEF Falling
<1>3. S \subseteq Nat /\ \A x \in S : id[x] = x
  BY <1>0, <1>1
<1>4. s \in Seq(Nat)
  BY DEF Falling
<1>5. s \in [1..Len(s) -> S]
  BY <1>0, <1>1, <1>4, LenProperties
<1>6. IsFiniteSet(1..Len(s)) /\ Cardinality(1..Len(s)) = Len(s)
  <2>1. 1 \in Int /\ Len(s) \in Int
    BY <1>1
  <2>2. IsFiniteSet(1..Len(s)) /\ Cardinality(1..Len(s)) = IF 1 > Len(s) THEN 0 ELSE Len(s) - 1 + 1
    BY <2>1, FS_Interval
  <2>3. QED
    BY <1>1, <2>2
<1>7. IsFiniteSet(S) /\ Cardinality(S) = Len(s)
  <2>1. s \in Injection(1..Len(s), S)
    BY <1>1, <1>2, <1>5 DEF Injection, IsInjective
  <2>2. s \in Surjection(1..Len(s), S)
    BY <1>0, <1>1, <1>5 DEF Surjection
  <2>3. ExistsBijection(1..Len(s), S)
    BY <2>1, <2>2 DEF ExistsBijection, Bijection
  <2>4. QED
    BY <1>6, <2>3, FS_Bijection
<1>8. Orderable(S, id, id)
  BY <1>3, <1>7 DEF Orderable
<1>9. s \in Seq(S)
  BY <1>1, <1>5
<1>10. \A i, j \in DOMAIN s : i < j <=> ComesBefore(id, id, s[i], s[j])
  <2> TAKE i, j \in DOMAIN s
  <2>1. s[i] \in S /\ s[j] \in S /\ s[i] \in Nat /\ s[j] \in Nat
    BY <1>0, <1>1
  <2>2. ComesBefore(id, id, s[i], s[j]) <=> s[i] > s[j]
    BY <1>3, <2>1 DEF ComesBefore
  <2>3. QED
    BY <1>2, <2>2
<1>11. Lists(s, S, id, id)
  BY <1>0, <1>1, <1>2, <1>7, <1>9, <1>10 DEF Lists
<1>12. QED
  BY <1>8, <1>11, OneListing, NewestNames

\* Where every entry has an id, a page shows the ids that are listed there.
LEMMA PageShows ==
  ASSUME Unreadable = {}, NEW n \in Nat, NEW l \in IdLists(n), NEW offset \in Nat,
         NEW page, page = Part(l, offset + 1, Min({offset + PageSize, Len(l)})), page # <<>>
  PROVE  Newest!IdsOn(page) = page /\ page \in IdLists(n) /\ OnPage(l, offset, page)
<1> DEFINE a == offset + 1
           b == Min({offset + PageSize, Len(l)})
<1>1. Falling(l) /\ Len(l) \in Nat
  BY FallingHas DEF IdLists
<1>2. a \in Nat \ {0} /\ b \in Nat /\ b <= Len(l) /\ a = offset + 1
  <2>1. offset + PageSize \in Nat /\ Len(l) \in Nat /\ offset + PageSize \in Int /\ Len(l) \in Int
    BY <1>1, SizesAre
  <2> DEFINE c == offset + PageSize
             e == Len(l)
  <2>2. c \in Nat /\ e \in Nat /\ c \in Int /\ e \in Int
    BY <2>1
  <2> HIDE DEF c, e
  <2>3. Min({c, e}) = IF c <= e THEN c ELSE e
    BY <2>2, LesserOf
  <2>4. Min({c, e}) \in Nat /\ Min({c, e}) <= e
    BY <2>2, <2>3
  <2>5. b = Min({c, e}) /\ e = Len(l)
    BY DEF c, e
  <2>6. QED
    BY <2>4, <2>5
<1>3. page = Part(l, a, b)
  OBVIOUS
<1> HIDE DEF a, b
<1>4. /\ Falling(page) /\ Len(page) = (IF a <= b THEN b - a + 1 ELSE 0)
      /\ \A i \in DOMAIN page : a + i - 1 \in DOMAIN l /\ page[i] = l[a + i - 1]
  <2>1. a \in Nat \ {0} /\ b \in Nat /\ b <= Len(l) /\ Falling(l)
    BY <1>1, <1>2
  <2>2. Falling(page) /\ Len(page) = (IF a <= b THEN b - a + 1 ELSE 0)
    BY <1>3, <2>1, PartFalls
  <2>3. \A i \in DOMAIN page : a + i - 1 \in DOMAIN l /\ page[i] = l[a + i - 1]
    BY <1>3, <2>1, PartFalls
  <2>4. QED
    BY <2>2, <2>3
<1>5. DOMAIN page = 1..Len(page) /\ Len(page) # 0 /\ \A i \in DOMAIN page : i \in Nat
  <2>1. Falling(page)
    BY <1>4
  <2>2. QED
    BY <2>1, FallingHas
<1>6. offset + Len(page) <= Len(l)
  <2>1. a <= b /\ Len(page) = b - a + 1
    BY <1>4, <1>5
  <2>2. QED
    BY <1>1, <1>2, <2>1
<1>7. \A i \in DOMAIN page : offset + i \in DOMAIN l /\ page[i] = l[offset + i]
  <2> TAKE i \in DOMAIN page
  <2>1. a + i - 1 = offset + i
    BY <1>2, <1>5
  <2>2. QED
    BY <1>4, <2>1
<1>8. OnPage(l, offset, page)
  BY <1>6, <1>7 DEF OnPage
<1>9. page \in IdLists(n)
  <2>1. page \in Seq(Nat)
    BY <1>4 DEF Falling
  <2>2. \A i \in DOMAIN page : page[i] <= n
    BY <1>7 DEF IdLists
  <2>3. QED
    BY <1>4, <2>1, <2>2 DEF IdLists
<1>10. Newest!IdsOn(page) = page
  <2> DEFINE S == Newest!ToSet(page) \ Unreadable
             id == [x \in S |-> x]
  <2>1. S = {page[i] : i \in DOMAIN page}
    BY NewestNames
  <2>2. Newest!IdsOn(page) = Newest!BestFirst(S, id, id)
    BY DEF Newest!IdsOn
  <2>3. \A x \in S : id[x] = x
    OBVIOUS
  <2> HIDE DEF S, id
  <2>4. Newest!BestFirst(S, id, id) = page
    <3>1. Falling(page)
      BY <1>4
    <3>2. OnList(page, S, id)
      BY <2>1, <2>3 DEF OnList
    <3>3. QED
      BY <3>1, <3>2, FallingLists
  <2>5. QED
    BY <2>2, <2>4
<1>11. QED
  BY <1>8, <1>9, <1>10

-----------------------------------------------------------------------------
\* What is saved, and where a run stands, leave no record unsettled in the gap.
GapInv ==
  /\ submitted \in Nat /\ listing \in IdLists(submitted)
  /\ saved \in Metas(submitted) /\ MetaSound(listing, processed, overtaken, saved)
  /\ position \in Positions(submitted) /\ PositionSound(listing, processed, overtaken, position)
  /\ ~running => position = Newest!StartAt(Newest!Fresh)

\* Nothing saved promises nothing.
LEMMA FreshSound ==
  ASSUME NEW n \in Nat, NEW l, NEW d, NEW over
  PROVE  /\ Newest!Fresh \in Metas(n) /\ MetaSound(l, d, over, Newest!Fresh)
         /\ Newest!StartAt(Newest!Fresh) \in Positions(n)
         /\ PositionSound(l, d, over, Newest!StartAt(Newest!Fresh))
<1>1. <<>> \in IdLists(n) /\ Dense(l, <<>>)
  BY EmptySeq, LenProperties DEF IdLists, Falling, Dense
<1>2. Newest!Fresh \in Metas(n) /\ MetaSound(l, d, over, Newest!Fresh)
  BY <1>1 DEF Newest!Fresh, Metas, MetaSound, GapOf
<1>3. QED
  BY <1>2, StartSound

LEMMA GapFirst == Newest!Init => GapInv
<1> SUFFICES ASSUME Newest!Init PROVE GapInv
  OBVIOUS
<1>1. /\ submitted = 0 /\ listing = <<>> /\ saved = Newest!Fresh /\ position = Newest!StartAt(Newest!Fresh)
  BY DEF Newest!Init
<1>2. listing \in IdLists(0)
  BY <1>1, EmptySeq, LenProperties DEF IdLists, Falling
<1>3. QED
  BY <1>1, <1>2, FreshSound DEF GapInv

\* A run's page.
LEMMA PageKeeps ==
  ASSUME Unreadable = {}, GapInv, Newest!ProcessPage
  PROVE  GapInv'
<1> DEFINE page == Newest!PageAt(position.offset)
           l == listing
           n == submitted
<1>1. /\ n \in Nat /\ l \in IdLists(n) /\ position \in Positions(n) /\ position.offset \in Nat /\ Falling(l)
      /\ PositionSound(l, processed, overtaken, position)
  BY DEF GapInv, Positions, IdLists
<1>2. page # <<>> /\ running /\ UNCHANGED <<knowsTotal, submitted, listing, withdrawn, runs, overtaken>>
  BY DEF Newest!ProcessPage, Newest!source
<1>3. page = Part(l, position.offset + 1, Min({position.offset + PageSize, Len(l)}))
  BY NewestNames DEF Newest!PageAt, Part
<1> HIDE DEF page
<1>4. Newest!IdsOn(page) = page /\ page \in IdLists(n) /\ OnPage(l, position.offset, page)
  BY <1>1, <1>2, <1>3, PageShows
<1>5. PICK failing \in SUBSET (Newest!ToSet(page) \ processed) :
        /\ processed' = processed \union (Newest!ToSet(page) \ failing)
        /\ LET p == Newest!ObservePage(position, position.offset, page, Len(page), failing = {})
           IN  \/ saved' = Newest!ListingEnded(p).meta /\ Newest!EndRun
               \/ position' = p /\ saved' = p.meta /\ UNCHANGED running
  BY ZenonT(40), <1>4 DEF Newest!ProcessPage, Newest!Save, page
<1> DEFINE complete == failing = {}
           p == Newest!ObservePage(position, position.offset, page, Len(page), complete)
<1>6. PositionSound(l, processed', overtaken, position)
  BY <1>1, <1>5, SettlingKeeps
<1>7. complete => \A i \in DOMAIN page : page[i] \in processed'
  BY <1>5, NewestNames
<1>8. PageSeen(n, l, processed', overtaken, position, page, position.offset + Len(page), complete)
  BY <1>1, <1>4, <1>6, <1>7 DEF PageSeen
<1>9. /\ \/ saved' = Newest!ListingEnded(p).meta /\ Newest!EndRun
         \/ position' = p /\ saved' = p.meta /\ UNCHANGED running
      /\ p = Newest!ObservePage(position, position.offset, page, Len(page), complete)
  BY <1>5
<1> HIDE DEF p, complete
<1>10. p \in Positions(n) /\ PositionSound(l, processed', overtaken, p)
  BY <1>8, <1>9, PageSound
<1>11. CASE saved' = Newest!ListingEnded(p).meta /\ Newest!EndRun
  <2> DEFINE e == Newest!ListingEnded(p)
  <2>1. e = Newest!ListingEnded(p) /\ saved' = e.meta
    BY <1>11
  <2> HIDE DEF e
  <2>2. e \in Positions(n) /\ PositionSound(l, processed', overtaken, e)
    BY <1>1, <1>10, <2>1, EndedSound
  <2>3. saved' \in Metas(n) /\ MetaSound(l, processed', overtaken, saved')
    BY <2>1, <2>2 DEF Positions, PositionSound
  <2>4. position' = Newest!StartAt(Newest!Fresh)
    BY <1>11 DEF Newest!EndRun
  <2>5. QED
    BY <1>1, <1>2, <2>3, <2>4, FreshSound DEF GapInv
<1>12. CASE position' = p /\ saved' = p.meta /\ UNCHANGED running
  <2>1. saved' \in Metas(n) /\ MetaSound(l, processed', overtaken, saved')
    BY <1>10, <1>12 DEF Positions, PositionSound
  <2>2. QED
    BY <1>1, <1>2, <1>10, <1>12, <2>1 DEF GapInv
<1>13. QED
  BY <1>9, <1>11, <1>12

\* The end of the listing.
LEMMA EmptyPageKeeps ==
  ASSUME GapInv, Newest!EmptyPage
  PROVE  GapInv'
<1> DEFINE e == Newest!ListingEnded(position)
<1>1. /\ submitted \in Nat /\ listing \in IdLists(submitted) /\ position \in Positions(submitted) /\ Falling(listing)
      /\ PositionSound(listing, processed, overtaken, position)
  BY DEF GapInv, IdLists
<1>2. /\ saved' = e.meta /\ ((position' = e /\ UNCHANGED running) \/ position' = Newest!StartAt(Newest!Fresh))
      /\ running /\ UNCHANGED <<submitted, listing, processed, overtaken>> /\ e = Newest!ListingEnded(position)
  BY DEF Newest!EmptyPage, Newest!EndRun, Newest!source
<1> HIDE DEF e
<1>3. e \in Positions(submitted) /\ PositionSound(listing, processed, overtaken, e)
  BY <1>1, <1>2, EndedSound
<1>4. saved' \in Metas(submitted) /\ MetaSound(listing, processed, overtaken, saved')
  BY <1>2, <1>3 DEF Positions, PositionSound
<1>5. position' \in Positions(submitted) /\ PositionSound(listing, processed, overtaken, position')
  BY <1>1, <1>2, <1>3, FreshSound
<1>6. ~running' => position' = Newest!StartAt(Newest!Fresh)
  BY <1>2
<1>7. QED
  BY <1>1, <1>2, <1>4, <1>5, <1>6 DEF GapInv

\* The start and the ways out of a run, and a run of the other kind.
LEMMA RunsKeep ==
  ASSUME GapInv, Newest!StartRun \/ Newest!StopRun \/ Newest!TruncateRun \/ Newest!RestartRun \/ Newest!PlainRun
  PROVE  GapInv'
<1> DEFINE n == submitted
<1>1. /\ n \in Nat /\ listing \in IdLists(n) /\ saved \in Metas(n) /\ MetaSound(listing, processed, overtaken, saved)
      /\ position \in Positions(n) /\ PositionSound(listing, processed, overtaken, position)
      /\ ~running => position = Newest!StartAt(Newest!Fresh)
  BY DEF GapInv
<1>2. CASE Newest!StartRun
  <2>1. /\ position' = Newest!StartAt(saved) /\ running' /\ UNCHANGED <<submitted, listing, processed, saved, overtaken>>
    BY <1>2 DEF Newest!StartRun, Newest!source
  <2>2. position' \in Positions(n) /\ PositionSound(listing, processed, overtaken, position')
    BY <1>1, <2>1, StartSound
  <2>3. QED
    BY <1>1, <2>1, <2>2 DEF GapInv
<1>3. CASE Newest!StopRun
  <2>1. /\ position' = Newest!StartAt(Newest!Fresh) /\ processed \subseteq processed'
        /\ UNCHANGED <<submitted, listing, saved, overtaken>>
    BY <1>3 DEF Newest!StopRun, Newest!SettleSome, Newest!EndRun, Newest!source
  <2>2. MetaSound(listing, processed', overtaken, saved)
    BY <1>1, <2>1, SettlingKeeps
  <2>3. QED
    BY <1>1, <2>1, <2>2, FreshSound DEF GapInv
<1>4. CASE Newest!TruncateRun
  <2>1. /\ position' = Newest!StartAt(Newest!Fresh) /\ processed \subseteq processed'
        /\ saved' = [position.meta EXCEPT !.cursor = 0] /\ UNCHANGED <<submitted, listing, overtaken>>
    BY <1>4 DEF Newest!TruncateRun, Newest!SettleSome, Newest!EndRun, Newest!source
  <2>2. position.meta \in Metas(n) /\ MetaSound(listing, processed, overtaken, position.meta)
    BY <1>1 DEF Positions, PositionSound
  <2>3. saved' \in Metas(n) /\ saved'.head = position.meta.head /\ saved'.tail = position.meta.tail
    BY <2>1, <2>2 DEF Metas
  <2>4. MetaSound(listing, processed, overtaken, saved')
    BY <2>2, <2>3 DEF MetaSound, GapOf
  <2>5. MetaSound(listing, processed', overtaken, saved')
    BY <2>1, <2>4, SettlingKeeps
  <2>6. QED
    BY <1>1, <2>1, <2>3, <2>5, FreshSound DEF GapInv
<1>5. CASE Newest!RestartRun
  <2>1. /\ position' = [Newest!StartAt(Newest!Fresh) EXCEPT !.restarted = TRUE] /\ saved' = position'.meta
        /\ running /\ UNCHANGED <<submitted, listing, processed, running, overtaken>>
    BY <1>5 DEF Newest!RestartRun, Newest!Save, Newest!source
  <2>2. /\ Newest!Fresh \in Metas(n) /\ MetaSound(listing, processed, overtaken, Newest!Fresh)
    BY <1>1, FreshSound
  <2>3. position' \in Positions(n) /\ PositionSound(listing, processed, overtaken, position')
    BY <1>1, <2>1, <2>2, StartSound
  <2>4. saved' \in Metas(n) /\ MetaSound(listing, processed, overtaken, saved')
    BY <2>1, <2>3 DEF Positions, PositionSound
  <2>5. QED
    BY <1>1, <2>1, <2>3, <2>4 DEF GapInv
<1>6. CASE Newest!PlainRun
  <2>1. PICK pages \in 1..Len(listing) :
          /\ processed \subseteq processed'
          /\ saved' = [saved EXCEPT !.cursor = Newest!Min({saved.cursor + pages * PlainPageSize, Len(listing)})]
    BY <1>6 DEF Newest!PlainRun
  <2>2. ~running /\ UNCHANGED <<submitted, listing, running, position, overtaken>>
    BY <1>6 DEF Newest!PlainRun, Newest!source
  <2> DEFINE a == saved.cursor + pages * PlainPageSize
             b == Len(listing)
             end == Newest!Min({a, b})
  <2>3. Len(listing) \in Nat /\ saved.cursor \in Int /\ PlainPageSize \in Nat
    BY <1>1, LenProperties, NewestAssumption DEF IdLists, Metas, Newest!SizeAssumption
  <2>4. pages * PlainPageSize \in Int
    BY <2>3
  <2>5. a \in Int /\ b \in Int
    BY <2>3, <2>4
  <2>6. saved' = [saved EXCEPT !.cursor = end]
    BY <2>1
  <2> HIDE DEF a, b
  <2>7. end \in Int
    <3>1. end = Min({a, b})
      BY NewestNames
    <3>2. QED
      BY <2>5, <3>1, LesserOf
  <2> HIDE DEF end
  <2>8. saved' \in Metas(n) /\ saved'.head = saved.head /\ saved'.tail = saved.tail
    BY <1>1, <2>6, <2>7 DEF Metas
  <2>9. MetaSound(listing, processed, overtaken, saved')
    BY <1>1, <2>8 DEF MetaSound, GapOf
  <2>10. MetaSound(listing, processed', overtaken, saved') /\ PositionSound(listing, processed', overtaken, position)
    BY <1>1, <2>1, <2>9, SettlingKeeps
  <2>11. QED
    BY <1>1, <2>2, <2>8, <2>10 DEF GapInv
<1>7. QED
  BY <1>2, <1>3, <1>4, <1>5, <1>6

\* What happens at the source.
LEMMA SubmitKeeps ==
  ASSUME GapInv, Newest!Submit
  PROVE  GapInv'
<1>1. /\ submitted \in Nat /\ listing \in IdLists(submitted)
      /\ saved \in Metas(submitted) /\ MetaSound(listing, processed, overtaken, saved)
      /\ position \in Positions(submitted) /\ PositionSound(listing, processed, overtaken, position)
      /\ ~running => position = Newest!StartAt(Newest!Fresh)
  BY DEF GapInv
<1>2. /\ submitted' = submitted + 1 /\ listing' = <<submitted + 1>> \o listing
      /\ overtaken' = (overtaken \/ (running /\ position.mode = "scanning" /\ position.shift # Newest!NoShift))
      /\ UNCHANGED <<processed, saved, running, position>>
  BY DEF Newest!Submit
<1>3. listing' \in IdLists(submitted + 1)
  BY <1>1, <1>2, Grown
<1>4. ~overtaken' => ~overtaken
  BY <1>2
<1>5. ~overtaken' /\ position.mode = "scanning" => position.shift = Newest!NoShift
  <2>1. ~running => position.mode # "scanning"
    BY <1>1 DEF Newest!StartAt, Newest!Fresh
  <2>2. QED
    BY <1>2, <2>1
<1>6. MetaSound(listing', processed, overtaken', saved) /\ PositionSound(listing', processed, overtaken', position)
  <2>1. submitted \in Nat /\ listing \in IdLists(submitted) /\ listing' = <<submitted + 1>> \o listing
    BY <1>1, <1>2
  <2>2. MetaSound(listing', processed, overtaken', saved)
    <3>1. saved \in Metas(submitted) /\ MetaSound(listing, processed, overtaken, saved)
      BY <1>1
    <3>2. QED
      BY <1>4, <2>1, <3>1, GrownSound
  <2>3. PositionSound(listing', processed, overtaken', position)
    <3>1. position \in Positions(submitted) /\ PositionSound(listing, processed, overtaken, position)
      BY <1>1
    <3>2. QED
      BY <1>4, <1>5, <2>1, <3>1, GrownSound
  <2>4. QED
    BY <2>2, <2>3
<1>7. saved \in Metas(submitted + 1) /\ position \in Positions(submitted + 1) /\ submitted + 1 \in Nat
  <2>1. submitted + 1 \in Nat /\ submitted <= submitted + 1
    BY <1>1
  <2>2. QED
    BY <1>1, <2>1, PositionsGrow
<1>8. QED
  BY <1>1, <1>2, <1>3, <1>6, <1>7 DEF GapInv

LEMMA WithdrawKeeps ==
  ASSUME GapInv, Newest!Withdraw
  PROVE  GapInv'
<1>1. /\ submitted \in Nat /\ listing \in IdLists(submitted)
      /\ saved \in Metas(submitted) /\ MetaSound(listing, processed, overtaken, saved)
      /\ ~running => position = Newest!StartAt(Newest!Fresh)
  BY DEF GapInv
<1>2. PICK i \in DOMAIN listing : listing' = Newest!RemoveAt(listing, i)
  BY DEF Newest!Withdraw
<1>3. ~running /\ UNCHANGED <<submitted, processed, saved, running, position, overtaken>>
  BY DEF Newest!Withdraw
<1>4. listing' \in IdLists(submitted) /\ \A k \in DOMAIN listing' : \E j \in DOMAIN listing : listing'[k] = listing[j]
  BY <1>1, <1>2, Shrunk
<1>5. MetaSound(listing', processed, overtaken, saved)
  BY <1>1, <1>4, ShrunkSound
<1>6. position \in Positions(submitted) /\ PositionSound(listing', processed, overtaken, position)
  BY <1>1, <1>3, FreshSound
<1>7. QED
  BY <1>1, <1>3, <1>4, <1>5, <1>6 DEF GapInv

LEMMA NewestStep ==
  ASSUME Unreadable = {}, GapInv, [Newest!Next]_newestVars
  PROVE  GapInv'
<1>1. CASE UNCHANGED newestVars
  BY <1>1 DEF newestVars, GapInv
<1>2. QED
  BY <1>1, PageKeeps, EmptyPageKeeps, RunsKeep, SubmitKeeps, WithdrawKeeps DEF Newest!Next, Newest!RunStep

GapHolds == part = "newest" => GapInv

LEMMA GapHoldsAtFirst == Init => GapHolds
  BY GapFirst DEF Init, GapHolds

LEMMA GapHoldsOn ==
  ASSUME Unreadable = {}, GapHolds, [Next]_vars
  PROVE  GapHolds'
<1> SUFFICES ASSUME part' = "newest" PROVE GapInv'
  BY DEF GapHolds
<1>1. CASE Choose
  BY <1>1, InputsAssumption DEF Choose
<1>2. CASE part = "newest" /\ [Newest!Next]_newestVars
  BY <1>2, NewestStep DEF GapHolds
<1>3. QED
  BY <1>1, <1>2 DEF Next, vars, IndexNext, HybridNext, GraphNext, NewestNext, newestVars

THEOREM GapInvHolds == ASSUME Unreadable = {} PROVE Spec => []GapHolds
<1>1. GapHolds /\ [Next]_vars => GapHolds'
  BY GapHoldsOn
<1>2. QED
  BY <1>1, GapHoldsAtFirst, PTL DEF Spec

LEMMA GapStaysSettled == GapInv => Newest!GapIsSettled
<1> SUFFICES ASSUME GapInv, ~overtaken, saved.head # <<>>, saved.tail # <<>>, NEW id \in Newest!Unsettled
             PROVE  id >= Newest!Last(saved.head) \/ id < Newest!Last(saved.tail)
  BY DEF Newest!GapIsSettled, Newest!HeadScanReachesUnsettled
<1>1. Newest!Last(saved.head) = Low(saved.head) /\ Newest!Last(saved.tail) = Low(saved.tail)
  BY NewestNames DEF Low
<1>2. Settled(listing, processed, Low(saved.tail), Low(saved.head))
  BY DEF GapInv, MetaSound, GapOf
<1>3. PICK i \in DOMAIN listing : id = listing[i] /\ id \notin processed
  BY NewestNames DEF Newest!Unsettled
<1>4. ~(Low(saved.tail) <= id /\ id < Low(saved.head))
  BY <1>2, <1>3 DEF Settled
<1>5. Falling(listing) /\ Falling(saved.head) /\ Falling(saved.tail)
  BY DEF GapInv, Metas, IdLists
<1>6. id \in Nat /\ Low(saved.head) \in Nat /\ Low(saved.tail) \in Nat
  BY <1>3, <1>5, FallingHas
<1>7. QED
  BY <1>1, <1>4, <1>6

\* A record that is still to be processed is among or above the saved head ids, or
\* below the saved tail ("so the next run's head scan reaches every record left
\* unsettled near the top", _listing_head.py:39-41), whatever runs failed, stopped,
\* were truncated or began anew, and whatever was submitted or withdrawn, unless
\* entries came in between the first and the last saved head id a head scan passed,
\* on a listing whose entries all have an id.
THEOREM GapAlwaysSettled == ASSUME Unreadable = {} PROVE Spec => []GapIsSettled
<1>1. GapHolds => GapIsSettled
  BY GapStaysSettled DEF GapHolds, GapIsSettled
<1>2. QED
  BY <1>1, GapInvHolds, PTL
=============================================================================
