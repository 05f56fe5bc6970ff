---------------------------- MODULE Services_proof ----------------------------
(***************************************************************************)
(* What the services promise, for every set of requests, threads and       *)
(* callers, every listing, and every number of slots, retries, faults,     *)
(* cancellations and nested guards.  A behaviour of Services is of one     *)
(* part and its steps are that part's.                                     *)
(***************************************************************************)
EXTENDS Services, Sequences, SequencesExt, FiniteSets, FiniteSetsExt,
        FiniteSetTheorems, SequenceTheorems, WellFoundedInduction, TLAPS

\* A set of natural numbers has a least element, and Min is it.
LEMMA Least ==
  ASSUME NEW S \in SUBSET Nat, S # {}
  PROVE  Min(S) \in S /\ \A n \in S : Min(S) <= n
<1> DEFINE R == OpToRel(<, Nat)
<1>1. IsWellFoundedOn(R, Nat)
  BY NatLessThanWellFounded
<1>2. \A x, y \in Nat : <<x, y>> \in R <=> x < y
  BY DEF OpToRel
<1> HIDE DEF R
<1>3. PICK m \in S : \A n \in S : ~(<<n, m>> \in R)
  BY <1>1, WFMin
<1>4. ASSUME NEW n \in S PROVE m <= n
  <2>1. m \in Nat /\ n \in Nat
    OBVIOUS
  <2>2. ~(n < m)
    BY <1>2, <1>3, <2>1
  <2>3. QED
    BY <2>1, <2>2
<1>5. QED
  BY <1>3, <1>4 DEF Min

\* A power of two counts the subsets of a finite set.
LEMMA PowerOfTwo == ASSUME NEW n \in Nat PROVE 2 ^ n \in Nat
<1>1. IsFiniteSet(1..n) /\ Cardinality(1..n) = n
  BY FS_Interval
<1>2. QED
  BY <1>1, FS_SUBSET, FS_CardinalityType

\* RemoveFirst takes out the place the element has, if it has one.
LEMMA FirstRemoved ==
  ASSUME NEW S, NEW s \in Seq(S), NEW e
  PROVE  \/ (\A i \in DOMAIN s : s[i] # e) /\ RemoveFirst(s, e) = s
         \/ \E i \in DOMAIN s : s[i] = e /\ RemoveFirst(s, e) = RemoveAt(s, i)
<1>1. Len(s) \in Nat /\ DOMAIN s = 1..Len(s)
  BY LenProperties
<1>2. CASE \A i \in DOMAIN s : s[i] # e
  BY <1>1, <1>2 DEF RemoveFirst
<1>3. CASE \E i \in DOMAIN s : s[i] = e
  <2> DEFINE I == {i \in 1..Len(s) : s[i] = e}
  <2>1. I \in SUBSET Nat /\ I # {}
    BY <1>1, <1>3
  <2>2. Min(I) \in I
    BY <2>1, Least
  <2>3. RemoveFirst(s, e) = RemoveAt(s, Min(I))
    BY <1>1, <1>3 DEF RemoveFirst, SelectInSeq
  <2>4. QED
    BY <1>1, <2>2, <2>3
<1>4. QED
  BY <1>2, <1>3

\* What follows the place taken out moves up by one.
LEMMA Removed ==
  ASSUME NEW S, NEW s \in Seq(S), NEW i \in DOMAIN s
  PROVE  /\ RemoveAt(s, i) \in Seq(S) /\ Len(RemoveAt(s, i)) = Len(s) - 1
         /\ \A j \in 1..(Len(s) - 1) : RemoveAt(s, i)[j] = IF j < i THEN s[j] ELSE s[j + 1]
<1> DEFINE a == SubSeq(s, 1, i - 1)
           b == SubSeq(s, i + 1, Len(s))
<1>1. Len(s) \in Nat /\ DOMAIN s = 1..Len(s) /\ i \in Int
  BY LenProperties
<1>2. /\ a \in Seq(S) /\ Len(a) = i - 1 /\ \A j \in 1..(i - 1) : a[j] = s[j]
  BY <1>1, SubSeqProperties, ElementOfSeq
<1>3. /\ b \in Seq(S) /\ Len(b) = Len(s) - i /\ \A j \in 1..(Len(s) - i) : b[j] = s[i + j]
  BY <1>1, SubSeqProperties, ElementOfSeq
<1> HIDE DEF a, b
<1>4. /\ a \o b \in Seq(S) /\ Len(a \o b) = Len(a) + Len(b)
      /\ \A j \in 1..(Len(a) + Len(b)) : (a \o b)[j] = IF j <= Len(a) THEN a[j] ELSE b[j - Len(a)]
  BY <1>2, <1>3, ConcatProperties
<1>6. ASSUME NEW j \in 1..(Len(s) - 1)
      PROVE  (a \o b)[j] = IF j < i THEN s[j] ELSE s[j + 1]
  <2>1. j \in 1..(Len(a) + Len(b))
    BY <1>1, <1>2, <1>3
  <2>2. CASE j < i
    BY <1>1, <1>2, <1>4, <2>1, <2>2
  <2>3. CASE ~(j < i)
    <3>1. (a \o b)[j] = b[j - (i - 1)] /\ j - (i - 1) \in 1..(Len(s) - i)
      BY <1>1, <1>2, <1>4, <2>1, <2>3
    <3>2. b[j - (i - 1)] = s[i + (j - (i - 1))] /\ i + (j - (i - 1)) = j + 1
      BY <1>1, <1>3, <3>1
    <3>3. QED
      BY <2>3, <3>1, <3>2
  <2>4. QED
    BY <2>2, <2>3
<1>7. Len(a \o b) = Len(s) - 1
  BY <1>1, <1>2, <1>3, <1>4
<1>8. RemoveAt(s, i) = a \o b
  BY DEF RemoveAt, a, b
<1>9. QED
  BY <1>4, <1>6, <1>7, <1>8

-----------------------------------------------------------------------------
(* Queues, in which nobody stands twice.                                   *)

Members(q) == {q[i] : i \in DOMAIN q}
Distinct(q) == \A i, j \in DOMAIN q : q[i] = q[j] => i = j

\* Only the empty queue has no members.
LEMMA EmptyQueue ==
  ASSUME NEW S, NEW q \in Seq(S)
  PROVE  /\ q = <<>> <=> Members(q) = {}
         /\ Members(<<>>) = {} /\ Distinct(<<>>)
<1>1. Members(<<>>) = {} /\ Distinct(<<>>)
  BY DEF Members, Distinct
<1>2. ASSUME q # <<>> PROVE Members(q) # {}
  <2>1. Len(q) \in Nat /\ DOMAIN q = 1..Len(q) /\ Len(q) # 0
    BY <1>2, LenProperties, EmptySeq
  <2>2. 1 \in DOMAIN q
    BY <2>1
  <2>3. QED
    BY <2>2 DEF Members
<1>3. QED
  BY <1>1, <1>2

\* The last of a queue joins its members.
LEMMA Appended ==
  ASSUME NEW S, NEW q \in Seq(S), NEW x \in S
  PROVE  /\ Append(q, x) \in Seq(S) /\ Members(Append(q, x)) = Members(q) \union {x}
         /\ Append(q, x) # <<>>
         /\ Distinct(q) /\ x \notin Members(q) => Distinct(Append(q, x))
         /\ Head(Append(q, x)) = IF q = <<>> THEN x ELSE Head(q)
<1> DEFINE n == Len(q)
           t == Append(q, x)
<1>1. n \in Nat /\ DOMAIN q = 1..n
  BY LenProperties
<1>2. /\ t \in Seq(S) /\ Len(t) = n + 1 /\ DOMAIN t = 1..(n + 1)
      /\ \A i \in 1..n : t[i] = q[i]
      /\ t[n + 1] = x
  BY <1>1, AppendProperties, LenProperties
<1> HIDE DEF t
<1>3. \A i \in DOMAIN t : (i \in DOMAIN q /\ t[i] = q[i]) \/ (i = n + 1 /\ t[i] = x)
  <2> SUFFICES ASSUME NEW i \in 1..(n + 1)
               PROVE  (i \in DOMAIN q /\ t[i] = q[i]) \/ (i = n + 1 /\ t[i] = x)
    BY <1>2
  <2>1. i \in 1..n \/ i = n + 1
    BY <1>1
  <2>2. QED
    BY <1>1, <1>2, <2>1
<1>4. Members(t) = Members(q) \union {x}
  <2>1. \A i \in DOMAIN q : i \in DOMAIN t
    BY <1>1, <1>2
  <2>2. n + 1 \in DOMAIN t
    BY <1>1, <1>2
  <2>3. QED
    BY <1>1, <1>2, <1>3, <2>1, <2>2 DEF Members
<1>5. Distinct(q) /\ x \notin Members(q) => Distinct(t)
  BY <1>3 DEF Distinct, Members
<1>6. t # <<>> /\ Head(t) = t[1]
  <2>1. Len(t) # 0
    BY <1>1, <1>2
  <2>2. t # <<>>
    BY <2>1, EmptySeq
  <2>3. QED
    BY <1>2, <2>2, HeadTailProperties
<1>7. Head(t) = IF q = <<>> THEN x ELSE Head(q)
  <2>1. CASE q = <<>>
    <3>1. n = 0
      BY <2>1
    <3>2. QED
      BY <1>2, <1>6, <2>1, <3>1
  <2>2. CASE q # <<>>
    <3>1. Head(q) = q[1] /\ n # 0
      BY <2>2, HeadTailProperties, EmptySeq
    <3>2. QED
      BY <1>1, <1>2, <1>6, <2>2, <3>1
  <2>3. QED
    BY <2>1, <2>2
<1>8. QED
  BY <1>2, <1>4, <1>5, <1>6, <1>7 DEF t

\* A queue without one of its places lacks what stood there and nothing else.
LEMMA Shortened ==
  ASSUME NEW S, NEW q \in Seq(S), NEW k \in DOMAIN q, NEW t \in Seq(S), Len(t) = Len(q) - 1,
         \A j \in 1..(Len(q) - 1) : t[j] = IF j < k THEN q[j] ELSE q[j + 1]
  PROVE  /\ Distinct(q) => Distinct(t) /\ Members(t) = Members(q) \ {q[k]}
         /\ k # 1 => t # <<>> /\ Head(t) = Head(q)
<1>1. /\ Len(q) \in Nat /\ DOMAIN q = 1..Len(q) /\ DOMAIN t = 1..(Len(q) - 1)
      /\ k \in Nat /\ 1 <= k /\ k <= Len(q)
  BY LenProperties
<1> DEFINE Old(j) == IF j < k THEN j ELSE j + 1
<1>2. \A j \in DOMAIN t : Old(j) \in DOMAIN q /\ Old(j) # k /\ t[j] = q[Old(j)]
  BY <1>1
<1>3. \A i, j \in DOMAIN t : Old(i) = Old(j) => i = j
  BY <1>1
<1>4. \A i \in DOMAIN q : i # k => \E j \in DOMAIN t : Old(j) = i
  <2> SUFFICES ASSUME NEW i \in DOMAIN q, i # k PROVE \E j \in DOMAIN t : Old(j) = i
    OBVIOUS
  <2>1. CASE i < k
    <3>1. i \in DOMAIN t /\ Old(i) = i
      BY <1>1, <2>1
    <3>2. QED
      BY <3>1
  <2>2. CASE i > k
    <3>1. i - 1 \in DOMAIN t /\ Old(i - 1) = i
      BY <1>1, <2>2
    <3>2. QED
      BY <3>1
  <2>3. QED
    BY <1>1, <2>1, <2>2
<1> HIDE DEF Old
<1>5. ASSUME Distinct(q) PROVE Distinct(t) /\ Members(t) = Members(q) \ {q[k]}
  <2>1. Distinct(t)
    BY <1>2, <1>3, <1>5 DEF Distinct
  <2>2. Members(t) \subseteq Members(q) \ {q[k]}
    BY <1>2, <1>5 DEF Members, Distinct
  <2>3. Members(q) \ {q[k]} \subseteq Members(t)
    BY <1>2, <1>4 DEF Members
  <2>4. QED
    BY <2>1, <2>2, <2>3
<1>6. ASSUME k # 1 PROVE t # <<>> /\ Head(t) = Head(q)
  <2>1. Len(t) # 0 /\ Len(q) # 0 /\ 1 < k /\ 1 \in 1..(Len(q) - 1)
    BY <1>1, <1>6
  <2>2. t # <<>> /\ q # <<>>
    BY <2>1, EmptySeq
  <2>3. Head(t) = t[1] /\ Head(q) = q[1]
    BY <2>2, HeadTailProperties
  <2>4. QED
    BY <2>1, <2>2, <2>3
<1>7. QED
  BY <1>5, <1>6

\* The first of a queue leaves it.
LEMMA FirstGone ==
  ASSUME NEW S, NEW q \in Seq(S), q # <<>>, Distinct(q)
  PROVE  /\ Tail(q) \in Seq(S) /\ Distinct(Tail(q)) /\ Head(q) \in Members(q) /\ Head(q) \in S
         /\ Members(Tail(q)) = Members(q) \ {Head(q)}
<1> DEFINE t == Tail(q)
<1>1. /\ Len(q) \in Nat /\ DOMAIN q = 1..Len(q) /\ Len(q) # 0
      /\ Head(q) = q[1]
      /\ t \in Seq(S) /\ Len(t) = Len(q) - 1
      /\ \A j \in 1..(Len(q) - 1) : t[j] = q[j + 1]
  BY LenProperties, EmptySeq, HeadTailProperties
<1>2. 1 \in DOMAIN q /\ Head(q) \in S
  BY <1>1, ElementOfSeq
<1> HIDE DEF t
<1>3. \A j \in 1..(Len(q) - 1) : t[j] = IF j < 1 THEN q[j] ELSE q[j + 1]
  BY <1>1
<1>4. Distinct(t) /\ Members(t) = Members(q) \ {q[1]}
  BY <1>1, <1>2, <1>3, Shortened
<1>5. QED
  BY <1>1, <1>2, <1>4 DEF Members, t

\* Anyone may leave a queue; unless it is the first, the first stays.
LEMMA OneGone ==
  ASSUME NEW S, NEW q \in Seq(S), NEW x, Distinct(q)
  PROVE  /\ RemoveFirst(q, x) \in Seq(S) /\ Distinct(RemoveFirst(q, x))
         /\ Members(RemoveFirst(q, x)) = Members(q) \ {x}
         /\ q # <<>> /\ x # Head(q) => RemoveFirst(q, x) # <<>> /\ Head(RemoveFirst(q, x)) = Head(q)
<1>1. CASE (\A i \in DOMAIN q : q[i] # x) /\ RemoveFirst(q, x) = q
  BY <1>1 DEF Members
<1>2. ASSUME NEW i \in DOMAIN q, q[i] = x, RemoveFirst(q, x) = RemoveAt(q, i)
      PROVE  /\ RemoveFirst(q, x) \in Seq(S) /\ Distinct(RemoveFirst(q, x))
             /\ Members(RemoveFirst(q, x)) = Members(q) \ {x}
             /\ q # <<>> /\ x # Head(q) => RemoveFirst(q, x) # <<>> /\ Head(RemoveFirst(q, x)) = Head(q)
  <2>1. /\ RemoveAt(q, i) \in Seq(S) /\ Len(RemoveAt(q, i)) = Len(q) - 1
        /\ \A j \in 1..(Len(q) - 1) : RemoveAt(q, i)[j] = IF j < i THEN q[j] ELSE q[j + 1]
    BY Removed
  <2>2. /\ Distinct(RemoveAt(q, i)) /\ Members(RemoveAt(q, i)) = Members(q) \ {x}
        /\ i # 1 => RemoveAt(q, i) # <<>> /\ Head(RemoveAt(q, i)) = Head(q)
    <3> DEFINE t == RemoveAt(q, i)
    <3>1. t \in Seq(S) /\ Len(t) = Len(q) - 1
          /\ \A j \in 1..(Len(q) - 1) : t[j] = IF j < i THEN q[j] ELSE q[j + 1]
      BY <2>1
    <3> HIDE DEF t
    <3>2. /\ Distinct(t) /\ Members(t) = Members(q) \ {q[i]}
          /\ i # 1 => t # <<>> /\ Head(t) = Head(q)
      BY <3>1, Shortened
    <3>3. QED
      BY <1>2, <3>2 DEF t
  <2>3. q # <<>> /\ x # Head(q) => i # 1
    BY <1>2, HeadTailProperties
  <2>4. QED
    BY <1>2, <2>1, <2>2, <2>3
<1>3. QED
  BY <1>1, <1>2, FirstRemoved

-----------------------------------------------------------------------------
(* Requests: the slots of the limiters.                                    *)

\* A request has the limiter of its host, or none.
LEMMA HasLimiterOrNone ==
  ASSUME Upstream!Assumption, NEW r \in Requests
  PROVE  Upstream!Limiter(r) \in DOMAIN Limits \union {<<>>}
<1> DEFINE host == HostOf[r]
           n == Len(host)
           S == {SubSeq(host, start, n) : start \in 1..n} \intersect DOMAIN Limits
           K == {start \in 1..n : SubSeq(host, start, n) \in DOMAIN Limits}
<1>1. host \in Seq(STRING) /\ n \in Nat
  BY LenProperties DEF Upstream!Assumption
<1>2. Upstream!Limiter(r) = IF S = {} THEN <<>> ELSE CHOOSE s \in S : \A t \in S : Len(t) <= Len(s)
  BY DEF Upstream!Limiter, Upstream!LimiterOf, Upstream!ForUrl
<1>3. \A start \in 1..n : Len(SubSeq(host, start, n)) = n - start + 1
  <2> SUFFICES ASSUME NEW start \in 1..n PROVE Len(SubSeq(host, start, n)) = n - start + 1
    OBVIOUS
  <2>1. start \in Int /\ n \in Int /\ start <= n /\ \A i \in start..n : host[i] \in STRING
    BY <1>1, ElementOfSeq
  <2>2. QED
    BY <2>1, SubSeqProperties
<1>4. ASSUME S # {} PROVE \E s \in S : \A t \in S : Len(t) <= Len(s)
  <2>1. K \in SUBSET Nat
    BY <1>1
  <2>6. PICK start \in 1..n : SubSeq(host, start, n) \in DOMAIN Limits
    BY <1>4
  <2>7. K # {}
    BY <2>6
  <2>2. Min(K) \in K /\ \A k \in K : Min(K) <= k
    BY <2>1, <2>7, Least
  <2>3. SubSeq(host, Min(K), n) \in S
    BY <2>2
  <2>4. \A t \in S : Len(t) <= Len(SubSeq(host, Min(K), n))
    <3> SUFFICES ASSUME NEW k \in K
                 PROVE  Len(SubSeq(host, k, n)) <= Len(SubSeq(host, Min(K), n))
      OBVIOUS
    <3>1. Min(K) <= k /\ k \in 1..n /\ Min(K) \in 1..n
      BY <2>2
    <3>2. Len(SubSeq(host, k, n)) = n - k + 1 /\ Len(SubSeq(host, Min(K), n)) = n - Min(K) + 1
      BY <1>3, <3>1
    <3>3. QED
      BY <1>1, <3>1, <3>2
  <2>5. QED
    BY <2>3, <2>4
<1>5. QED
  BY <1>2, <1>4

States == {"idle", "queued", "granted", "sent", "waiting", "ended"}
Queued(host) == {r \in Requests : at[r] = "queued" /\ Upstream!Limiter(r) = host}

\* Who stands in a limiter's queue, and that its slots are accounted for.
SlotsTyped ==
  /\ at \in [Requests -> States] /\ free \in [DOMAIN Limits -> Nat]
  /\ waiters \in [DOMAIN Limits -> Seq(Requests)]
InLine ==
  \A host \in DOMAIN Limits : Distinct(waiters[host]) /\ Members(waiters[host]) = Queued(host)
SlotsKept ==
  \A host \in DOMAIN Limits :
    /\ free[host] + Cardinality(Upstream!Holders(host)) = Limits[host]
    /\ waiters[host] # <<>> => free[host] = 0
SlotsInv == SlotsTyped /\ InLine /\ SlotsKept

\* The module's own names for what the library defines.
LEMMA UpstreamNames ==
  /\ \A S : Upstream!IsFiniteSet(S) <=> IsFiniteSet(S)
  /\ \A S : Upstream!Cardinality(S) = Cardinality(S)
  /\ \A S : Upstream!Max(S) = Max(S) /\ Upstream!Min(S) = Min(S)
  /\ \A q, e : Upstream!RemoveFirst(q, e) = RemoveFirst(q, e)
<1>1. \A S : Upstream!IsFiniteSet(S) <=> IsFiniteSet(S)
  BY DEF Upstream!IsFiniteSet, IsFiniteSet
<1>2. \A S : Upstream!Cardinality(S) = Cardinality(S)
  BY DEF Upstream!Cardinality, Cardinality
<1>3. \A S : Upstream!Max(S) = Max(S) /\ Upstream!Min(S) = Min(S)
  BY DEF Upstream!Max, Max, Upstream!Min, Min
<1>4. \A q, e : Upstream!RemoveFirst(q, e) = RemoveFirst(q, e)
  BY DEF Upstream!RemoveFirst, RemoveFirst, RemoveAt, Upstream!RemoveAt,
         SelectInSeq, Upstream!SelectInSeq, Min, Upstream!Min
<1>5. QED
  BY <1>1, <1>2, <1>3, <1>4

LEMMA SlotsKeptAccounted ==
  SlotsTyped => (SlotsKept <=> Upstream!SlotsAccounted)
BY UpstreamNames DEF SlotsKept, Upstream!SlotsAccounted, SlotsTyped

LEMMA HoldersFinite ==
  ASSUME Upstream!Assumption
  PROVE  \A host : /\ IsFiniteSet(Upstream!Holders(host))
                   /\ Cardinality(Upstream!Holders(host)) \in Nat
<1> SUFFICES ASSUME NEW host
             PROVE  /\ IsFiniteSet(Upstream!Holders(host))
                    /\ Cardinality(Upstream!Holders(host)) \in Nat
  OBVIOUS
<1>1. Upstream!Holders(host) \subseteq Requests /\ IsFiniteSet(Requests)
  BY UpstreamNames DEF Upstream!Holders, Upstream!Assumption
<1>2. QED
  BY <1>1, FS_Subset, FS_CardinalityType

\* A step that moves no one into or out of a slot or a queue.
LEMMA SlotsUntouched ==
  ASSUME Upstream!Assumption, SlotsInv, UNCHANGED <<free, waiters>>, at' \in [Requests -> States],
         \A host \in DOMAIN Limits : /\ Upstream!Holders(host)' = Upstream!Holders(host)
                                     /\ Queued(host)' = Queued(host)
  PROVE  SlotsInv'
BY DEF SlotsInv, SlotsTyped, InLine, SlotsKept

\* A request that held no slot is granted one or joins the queue.
LEMMA SlotTaken ==
  ASSUME Upstream!Assumption, SlotsInv, NEW r \in Requests, at[r] \in {"idle", "waiting"},
         Upstream!TakeSlot(r)
  PROVE  /\ SlotsInv' /\ at'[r] \in {"granted", "queued"}
         /\ \A q \in Requests : q # r => at'[q] = at[q]
<1> DEFINE host == Upstream!Limiter(r)
<1> USE DEF SlotsInv
<1>1. CASE host = <<>> /\ at' = [at EXCEPT ![r] = "granted"] /\ UNCHANGED <<free, waiters>>
  <2>1. /\ at' \in [Requests -> States] /\ at'[r] = "granted"
        /\ \A q \in Requests : q # r => at'[q] = at[q]
    BY <1>1 DEF SlotsTyped, States
  <2>2. \A h \in DOMAIN Limits : h # host
    BY <1>1 DEF Upstream!Assumption
  <2>3. \A h \in DOMAIN Limits : /\ Upstream!Holders(h)' = Upstream!Holders(h)
                                 /\ Queued(h)' = Queued(h)
    BY <2>1, <2>2 DEF Upstream!Holders, Queued, Upstream!Limiter
  <2>4. QED
    BY <1>1, <2>1, <2>3, SlotsUntouched
<1>2. CASE /\ host \in DOMAIN Limits /\ free[host] > 0 /\ waiters[host] = <<>>
           /\ at' = [at EXCEPT ![r] = "granted"] /\ free' = [free EXCEPT ![host] = @ - 1]
           /\ UNCHANGED waiters
  <2>1. /\ at' \in [Requests -> States] /\ at'[r] = "granted"
        /\ \A q \in Requests : q # r => at'[q] = at[q]
    BY <1>2 DEF SlotsTyped, States
  <2>2. /\ free' \in [DOMAIN Limits -> Nat] /\ free'[host] = free[host] - 1
        /\ \A h \in DOMAIN Limits : h # host => free'[h] = free[h]
    BY <1>2 DEF SlotsTyped
  <2>3. \A h \in DOMAIN Limits : Queued(h)' = Queued(h)
    BY <2>1 DEF Queued, Upstream!Limiter
  <2>4. /\ \A h \in DOMAIN Limits : h # host => Upstream!Holders(h)' = Upstream!Holders(h)
        /\ Upstream!Holders(host)' = Upstream!Holders(host) \union {r}
        /\ r \notin Upstream!Holders(host)
    BY <2>1 DEF Upstream!Holders, Upstream!Limiter
  <2>5. Cardinality(Upstream!Holders(host)') = Cardinality(Upstream!Holders(host)) + 1
    BY <2>4, HoldersFinite, FS_AddElement
  <2>6. InLine'
    BY <1>2, <2>3 DEF InLine
  <2>7. SlotsKept'
    <3> SUFFICES ASSUME NEW h \in DOMAIN Limits
                 PROVE  /\ free'[h] + Cardinality(Upstream!Holders(h)') = Limits[h]
                        /\ waiters'[h] # <<>> => free'[h] = 0
      BY DEF SlotsKept
    <3>1. CASE h # host
      BY <1>2, <2>2, <2>4, <3>1 DEF SlotsKept
    <3>2. CASE h = host
      <4>1. /\ free[host] \in Nat /\ Cardinality(Upstream!Holders(host)) \in Nat
            /\ free[host] + Cardinality(Upstream!Holders(host)) = Limits[host]
        BY <1>2, HoldersFinite DEF SlotsKept, SlotsTyped
      <4>2. free'[host] + Cardinality(Upstream!Holders(host)') = Limits[host]
        BY <1>2, <2>2, <2>5, <4>1
      <4>3. QED
        BY <1>2, <3>2, <4>2
    <3>3. QED
      BY <3>1, <3>2
  <2>8. QED
    BY <1>2, <2>1, <2>2, <2>6, <2>7 DEF SlotsTyped
<1>3. CASE /\ host \in DOMAIN Limits /\ ~(free[host] > 0 /\ waiters[host] = <<>>)
           /\ at' = [at EXCEPT ![r] = "queued"] /\ waiters' = [waiters EXCEPT ![host] = Append(@, r)]
           /\ UNCHANGED free
  <2>1. /\ at' \in [Requests -> States] /\ at'[r] = "queued"
        /\ \A q \in Requests : q # r => at'[q] = at[q]
    BY <1>3 DEF SlotsTyped, States
  <2>2. /\ waiters[host] \in Seq(Requests) /\ Distinct(waiters[host])
        /\ r \notin Members(waiters[host])
    BY <1>3 DEF InLine, Queued, SlotsTyped
  <2>3. /\ Append(waiters[host], r) \in Seq(Requests) /\ Distinct(Append(waiters[host], r))
        /\ Members(Append(waiters[host], r)) = Members(waiters[host]) \union {r}
    BY <2>2, Appended
  <2>4. /\ waiters' \in [DOMAIN Limits -> Seq(Requests)] /\ waiters'[host] = Append(waiters[host], r)
        /\ \A h \in DOMAIN Limits : h # host => waiters'[h] = waiters[h]
    BY <1>3, <2>3 DEF SlotsTyped
  <2>5. /\ \A h \in DOMAIN Limits : h # host => Queued(h)' = Queued(h)
        /\ Queued(host)' = Queued(host) \union {r}
    BY <2>1 DEF Queued, Upstream!Limiter
  <2>6. \A h \in DOMAIN Limits : Upstream!Holders(h)' = Upstream!Holders(h)
    BY <2>1 DEF Upstream!Holders, Upstream!Limiter
  <2>7. InLine'
    <3> SUFFICES ASSUME NEW h \in DOMAIN Limits
                 PROVE  Distinct(waiters'[h]) /\ Members(waiters'[h]) = Queued(h)'
      BY DEF InLine, Distinct, Members
    <3>1. CASE h # host
      BY <2>4, <2>5, <3>1 DEF InLine
    <3>2. CASE h = host
      BY <1>3, <2>3, <2>4, <2>5, <3>2 DEF InLine
    <3>3. QED
      BY <3>1, <3>2
  <2>8. SlotsKept'
    <3>1. free[host] = 0
      <4>1. free[host] \in Nat /\ (waiters[host] # <<>> => free[host] = 0)
        BY <1>3 DEF SlotsKept, SlotsTyped
      <4>2. QED
        BY <1>3, <4>1
    <3>2. QED
      BY <1>3, <2>4, <2>6, <3>1 DEF SlotsKept
  <2>9. QED
    BY <1>3, <2>1, <2>4, <2>7, <2>8 DEF SlotsTyped
<1>4. QED
  BY <1>1, <1>2, <1>3, HasLimiterOrNone DEF Upstream!TakeSlot

\* The slot a request gives back goes to the first of the queue, or becomes free.
LEMMA SlotReleased ==
  ASSUME Upstream!Assumption, SlotsInv, NEW r \in Requests, at[r] \in {"granted", "sent"},
         NEW next \in {"waiting", "ended"}, Upstream!Release(r, next)
  PROVE  /\ SlotsInv' /\ at'[r] = next
         /\ \A q \in Requests :
              q # r => at'[q] = at[q] \/ (at[q] = "queued" /\ at'[q] = "granted")
<1> DEFINE host == Upstream!Limiter(r)
<1> USE DEF SlotsInv
<1>1. CASE host = <<>> /\ at' = [at EXCEPT ![r] = next] /\ UNCHANGED <<free, waiters>>
  <2>1. /\ at' \in [Requests -> States] /\ at'[r] = next
        /\ \A q \in Requests : q # r => at'[q] = at[q]
    BY <1>1 DEF SlotsTyped, States
  <2>2. \A h \in DOMAIN Limits : h # host
    BY <1>1 DEF Upstream!Assumption
  <2>3. \A h \in DOMAIN Limits : /\ Upstream!Holders(h)' = Upstream!Holders(h)
                                 /\ Queued(h)' = Queued(h)
    BY <2>1, <2>2 DEF Upstream!Holders, Queued, Upstream!Limiter
  <2>4. QED
    BY <1>1, <2>1, <2>3, SlotsUntouched
<1>2. CASE /\ host \in DOMAIN Limits /\ waiters[host] = <<>>
           /\ at' = [at EXCEPT ![r] = next] /\ free' = [free EXCEPT ![host] = @ + 1]
           /\ UNCHANGED waiters
  <2>1. /\ at' \in [Requests -> States] /\ at'[r] = next
        /\ \A q \in Requests : q # r => at'[q] = at[q]
    BY <1>2 DEF SlotsTyped, States
  <2>2. /\ free' \in [DOMAIN Limits -> Nat] /\ free'[host] = free[host] + 1
        /\ \A h \in DOMAIN Limits : h # host => free'[h] = free[h]
    BY <1>2 DEF SlotsTyped
  <2>3. \A h \in DOMAIN Limits : Queued(h)' = Queued(h)
    BY <2>1 DEF Queued, Upstream!Limiter
  <2>4. /\ \A h \in DOMAIN Limits : h # host => Upstream!Holders(h)' = Upstream!Holders(h)
        /\ Upstream!Holders(host)' = Upstream!Holders(host) \ {r}
        /\ r \in Upstream!Holders(host)
    BY <2>1 DEF Upstream!Holders, Upstream!Limiter
  <2>5. Cardinality(Upstream!Holders(host)') = Cardinality(Upstream!Holders(host)) - 1
    BY <2>4, HoldersFinite, FS_RemoveElement
  <2>6. InLine'
    BY <1>2, <2>3 DEF InLine
  <2>7. SlotsKept'
    <3> SUFFICES ASSUME NEW h \in DOMAIN Limits
                 PROVE  /\ free'[h] + Cardinality(Upstream!Holders(h)') = Limits[h]
                        /\ waiters'[h] # <<>> => free'[h] = 0
      BY DEF SlotsKept
    <3>1. CASE h # host
      BY <1>2, <2>2, <2>4, <3>1 DEF SlotsKept
    <3>2. CASE h = host
      <4>1. /\ free[host] \in Nat /\ Cardinality(Upstream!Holders(host)) \in Nat
            /\ free[host] + Cardinality(Upstream!Holders(host)) = Limits[host]
        BY <1>2, HoldersFinite DEF SlotsKept, SlotsTyped
      <4>2. free'[host] + Cardinality(Upstream!Holders(host)') = Limits[host]
        BY <1>2, <2>2, <2>5, <4>1
      <4>3. QED
        BY <1>2, <3>2, <4>2
    <3>3. QED
      BY <3>1, <3>2
  <2>8. QED
    BY <1>2, <2>1, <2>2, <2>6, <2>7 DEF SlotsTyped
<1>3. CASE /\ host \in DOMAIN Limits /\ waiters[host] # <<>>
           /\ at' = [at EXCEPT ![r] = next, ![Head(waiters[host])] = "granted"]
           /\ waiters' = [waiters EXCEPT ![host] = Tail(@)] /\ UNCHANGED free
  <2> DEFINE w == Head(waiters[host])
  <2>1. /\ Tail(waiters[host]) \in Seq(Requests) /\ Distinct(Tail(waiters[host]))
        /\ w \in Members(waiters[host]) /\ w \in Requests
        /\ Members(Tail(waiters[host])) = Members(waiters[host]) \ {w}
    BY <1>3, FirstGone DEF InLine, SlotsTyped
  <2>2. at[w] = "queued" /\ Upstream!Limiter(w) = host /\ w # r
    BY <1>3, <2>1 DEF InLine, Queued
  <2> HIDE DEF w
  <2>3. /\ at' \in [Requests -> States] /\ at'[r] = next /\ at'[w] = "granted"
        /\ \A q \in Requests : q # r /\ q # w => at'[q] = at[q]
    BY <1>3, <2>1, <2>2 DEF SlotsTyped, States, w
  <2>4. /\ waiters' \in [DOMAIN Limits -> Seq(Requests)] /\ waiters'[host] = Tail(waiters[host])
        /\ \A h \in DOMAIN Limits : h # host => waiters'[h] = waiters[h]
    BY <1>3, <2>1 DEF SlotsTyped
  <2>5. /\ \A h \in DOMAIN Limits : h # host => Queued(h)' = Queued(h)
        /\ Queued(host)' = Queued(host) \ {w}
    BY <2>1, <2>2, <2>3 DEF Queued, Upstream!Limiter
  <2>6. /\ \A h \in DOMAIN Limits : h # host => Upstream!Holders(h)' = Upstream!Holders(h)
        /\ Upstream!Holders(host)' = (Upstream!Holders(host) \ {r}) \union {w}
        /\ r \in Upstream!Holders(host) /\ w \notin Upstream!Holders(host)
    BY <2>1, <2>2, <2>3 DEF Upstream!Holders, Upstream!Limiter
  <2>7. Cardinality(Upstream!Holders(host)') = Cardinality(Upstream!Holders(host))
    <3> DEFINE rest == Upstream!Holders(host) \ {r}
    <3>1. IsFiniteSet(rest) /\ Cardinality(rest) = Cardinality(Upstream!Holders(host)) - 1
      BY <2>6, HoldersFinite, FS_RemoveElement
    <3>2. Cardinality(rest \union {w}) = Cardinality(rest) + 1
      BY <2>6, <3>1, FS_AddElement
    <3>3. QED
      BY <2>6, <3>1, <3>2, HoldersFinite
  <2>8. InLine'
    <3> SUFFICES ASSUME NEW h \in DOMAIN Limits
                 PROVE  Distinct(waiters'[h]) /\ Members(waiters'[h]) = Queued(h)'
      BY DEF InLine, Distinct, Members
    <3>1. CASE h # host
      BY <2>4, <2>5, <3>1 DEF InLine
    <3>2. CASE h = host
      BY <1>3, <2>1, <2>4, <2>5, <3>2 DEF InLine
    <3>3. QED
      BY <3>1, <3>2
  <2>9. SlotsKept'
    BY <1>3, <2>4, <2>6, <2>7 DEF SlotsKept
  <2>10. QED
    BY <1>3, <2>1, <2>2, <2>3, <2>4, <2>8, <2>9 DEF SlotsTyped
<1>4. QED
  BY <1>1, <1>2, <1>3, HasLimiterOrNone DEF Upstream!Release

-----------------------------------------------------------------------------
(* Requests: what their attempts justify.                                  *)

Seen == {"answer", "transient", "rejected", "too_large", "malformed", "refused"}
Failures == {"ExtractionError", "LLMError", "EmbeddingError", "UpstreamError"}
Answers(r) == Cardinality({i \in DOMAIN wire[r] : wire[r][i] = "answer"})

AttemptsTyped ==
  /\ attempt \in [Requests -> Nat] /\ batch \in [Requests -> Nat] /\ delay \in [Requests -> Int]
  /\ result \in [Requests -> Failures \union {"none", "answer", "CancelledError"}]
  /\ wire \in [Requests -> Seq(Seen)]

\* A request under way has only seen answers and transient failures, of which
\* the last, as many as it counts, are failures.
Pending(r) ==
  /\ result[r] = "none" /\ attempt[r] < MaxRetries /\ batch[r] < BatchesOf[r]
  /\ attempt[r] <= Len(wire[r])
  /\ \A i \in DOMAIN wire[r] : wire[r][i] \in {"answer", "transient"}
  /\ \A i \in DOMAIN wire[r] : i > Len(wire[r]) - attempt[r] => wire[r][i] = "transient"

\* What AttemptsJustified says of a request that has ended.
Concluded(r) ==
  LET n == Len(wire[r])
  IN /\ result[r] = Upstream!Exhausted(KindOf[r]) /\ (n = 0 \/ wire[r][n] = "transient") =>
          n >= MaxRetries /\ \A i \in (n - MaxRetries + 1)..n : wire[r][i] = "transient"
     /\ \A i \in 1..(n - 1) : wire[r][i] \in {"answer", "transient"}
     /\ batch[r] <= BatchesOf[r] /\ (result[r] = "answer" <=> batch[r] = BatchesOf[r])

\* The back-off that follows so many failures, and the longest wait.
Backoff(r) == 2 ^ (attempt[r] - 1)
WaitsInBounds(r) ==
  at[r] = "waiting" /\ attempt[r] > 0 => delay[r] \in Backoff(r)..Max({MaxRetryAfter, Backoff(r)})

RequestInv(r) ==
  /\ Answers(r) = batch[r] /\ (at[r] # "ended" => Pending(r)) /\ (at[r] = "ended" => Concluded(r))
  /\ WaitsInBounds(r)

UpstreamInv == SlotsInv /\ AttemptsTyped /\ \A r \in Requests : RequestInv(r)

LEMMA ExhaustedRaises ==
  \A kind : Upstream!Exhausted(kind) \in Failures /\ Upstream!Exhausted(kind) \notin {"none", "answer", "CancelledError"}
BY DEF Upstream!Exhausted, Failures

LEMMA RaisedRaises ==
  ASSUME NEW response \in Seen \ {"answer", "transient"} PROVE Upstream!Raised(response) \in Failures
BY DEF Upstream!Raised, Failures, Seen

LEMMA ResponsesSeen == \A kind : Upstream!Responses(kind) \subseteq Seen
BY DEF Upstream!Responses, Seen

\* The greater and the lesser of two numbers.
LEMMA MaxOfTwo ==
  ASSUME NEW m \in Int, NEW n \in Int
  PROVE  Max({m, n}) = (IF m >= n THEN m ELSE n) /\ Min({m, n}) = (IF m <= n THEN m ELSE n)
<1>1. ASSUME NEW k \in {m, n}, \A y \in {m, n} : k >= y PROVE Max({m, n}) = k
  <2>1. \A x \in {m, n} : (\A y \in {m, n} : x >= y) => x = k
    BY <1>1
  <2>2. QED
    BY <1>1, <2>1 DEF Max
<1>2. ASSUME NEW k \in {m, n}, \A y \in {m, n} : k <= y PROVE Min({m, n}) = k
  <2>1. \A x \in {m, n} : (\A y \in {m, n} : x <= y) => x = k
    BY <1>2
  <2>2. QED
    BY <1>2, <2>1 DEF Min
<1>3. CASE m <= n
  <2>1. \A y \in {m, n} : n >= y /\ m <= y
    BY <1>3
  <2>2. Max({m, n}) = n /\ Min({m, n}) = m
    BY <1>1, <1>2, <2>1
  <2>3. QED
    BY <1>3, <2>2
<1>4. CASE ~(m <= n)
  <2>1. \A y \in {m, n} : m >= y /\ n <= y
    BY <1>4
  <2>2. Max({m, n}) = m /\ Min({m, n}) = n
    BY <1>1, <1>2, <2>1
  <2>3. QED
    BY <1>4, <2>2
<1>5. QED
  BY <1>3, <1>4

\* One more response: the others keep their places, and an answer counts.
LEMMA OneMore ==
  ASSUME NEW w \in Seq(Seen), NEW x \in Seen
  PROVE  /\ Append(w, x) \in Seq(Seen) /\ Len(w) \in Nat /\ Len(Append(w, x)) = Len(w) + 1
         /\ DOMAIN w = 1..Len(w) /\ DOMAIN Append(w, x) = 1..(Len(w) + 1)
         /\ \A i \in 1..Len(w) : Append(w, x)[i] = w[i]
         /\ Append(w, x)[Len(w) + 1] = x
         /\ Cardinality({i \in DOMAIN w : w[i] = "answer"}) \in Nat
         /\ Cardinality({i \in DOMAIN Append(w, x) : Append(w, x)[i] = "answer"})
              = Cardinality({i \in DOMAIN w : w[i] = "answer"}) + (IF x = "answer" THEN 1 ELSE 0)
<1> DEFINE t == Append(w, x)
           n == Len(w)
           A == {i \in DOMAIN w : w[i] = "answer"}
           B == {i \in DOMAIN t : t[i] = "answer"}
<1>1. /\ t \in Seq(Seen) /\ n \in Nat /\ Len(t) = n + 1
      /\ DOMAIN w = 1..n /\ DOMAIN t = 1..(n + 1)
      /\ \A i \in 1..n : t[i] = w[i]
      /\ t[n + 1] = x
  BY AppendProperties, LenProperties
<1> HIDE DEF t
<1>2. IsFiniteSet(A) /\ Cardinality(A) \in Nat
  <2>1. IsFiniteSet(1..n)
    BY <1>1, FS_Interval
  <2>2. A \subseteq 1..n
    BY <1>1
  <2>3. QED
    BY <2>1, <2>2, FS_Subset, FS_CardinalityType
<1>3. n + 1 \notin A /\ \A i : i \in 1..(n + 1) <=> i \in 1..n \/ i = n + 1
  BY <1>1
<1>4. B = IF x = "answer" THEN A \union {n + 1} ELSE A
  BY <1>1, <1>3
<1> HIDE DEF A, B
<1>5. Cardinality(B) = Cardinality(A) + (IF x = "answer" THEN 1 ELSE 0)
  <2>1. CASE x = "answer"
    BY <1>2, <1>3, <1>4, <2>1, FS_AddElement
  <2>2. CASE x # "answer"
    <3>1. B = A /\ (IF x = "answer" THEN 1 ELSE 0) = 0
      BY <1>4, <2>2
    <3>2. QED
      BY <1>2, <3>1
  <2>3. QED
    BY <2>1, <2>2
<1>6. QED
  BY <1>1, <1>2, <1>5 DEF t, A, B

\* A response that is no answer counts for none.
LEMMA NoMoreAnswers ==
  ASSUME NEW r, NEW x \in Seen \ {"answer"}, wire[r] \in Seq(Seen), wire'[r] = Append(wire[r], x)
  PROVE  Answers(r)' = Answers(r)
<1>1. /\ Len(wire[r]) \in Nat /\ DOMAIN wire[r] = 1..Len(wire[r])
      /\ DOMAIN wire'[r] = 1..(Len(wire[r]) + 1)
      /\ \A i \in 1..Len(wire[r]) : wire'[r][i] = wire[r][i]
      /\ wire'[r][Len(wire[r]) + 1] # "answer"
  BY OneMore
<1>2. {i \in DOMAIN wire'[r] : wire'[r][i] = "answer"} = {i \in DOMAIN wire[r] : wire[r][i] = "answer"}
  <2>1. \A i : i \in DOMAIN wire'[r] <=> i \in DOMAIN wire[r] \/ i = Len(wire[r]) + 1
    BY <1>1
  <2>2. \A i \in DOMAIN wire[r] : wire'[r][i] = wire[r][i]
    BY <1>1
  <2>3. QED
    BY <1>1, <2>1, <2>2
<1>3. QED
  BY <1>2 DEF Answers

\* A request about which nothing came back is as justified as it was.
LEMMA RequestKept ==
  ASSUME NEW q, RequestInv(q), wire'[q] = wire[q], attempt'[q] = attempt[q], batch'[q] = batch[q],
         delay'[q] = delay[q], result'[q] = result[q],
         at'[q] = at[q] \/ (at[q] # "ended" /\ at'[q] \notin {"ended", "waiting"})
  PROVE  RequestInv(q)'
<1>1. Answers(q)' = Answers(q) /\ Backoff(q)' = Backoff(q)
  BY DEF Answers, Backoff
<1>2. (Pending(q) => Pending(q)') /\ (Concluded(q) => Concluded(q)')
  BY DEF Pending, Concluded
<1>3. WaitsInBounds(q) /\ (at'[q] = at[q] \/ at'[q] # "waiting") => WaitsInBounds(q)'
  BY <1>1 DEF WaitsInBounds
<1>4. QED
  BY <1>1, <1>2, <1>3 DEF RequestInv

-----------------------------------------------------------------------------
(* Requests: the invariant is kept.                                        *)

LEMMA UpstreamInit == Upstream!Assumption /\ Upstream!Init => UpstreamInv
<1> SUFFICES ASSUME Upstream!Assumption, Upstream!Init PROVE UpstreamInv
  OBVIOUS
<1>1. SlotsTyped
  <2>1. \A host \in DOMAIN Limits : <<>> \in Seq(Requests)
    BY EmptySeq
  <2>2. QED
    BY <2>1 DEF SlotsTyped, States, Upstream!Init, Upstream!Assumption
<1>2. InLine
  BY EmptyQueue, EmptySeq DEF InLine, Queued, Upstream!Init
<1>3. SlotsKept
  <2> SUFFICES ASSUME NEW host \in DOMAIN Limits
               PROVE  /\ free[host] + Cardinality(Upstream!Holders(host)) = Limits[host]
                      /\ waiters[host] = <<>>
    BY DEF SlotsKept
  <2>1. Upstream!Holders(host) = {}
    BY DEF Upstream!Init, Upstream!Holders
  <2>2. Cardinality(Upstream!Holders(host)) = 0
    BY <2>1, FS_EmptySet
  <2>3. free[host] = Limits[host] /\ Limits[host] \in Nat
    BY DEF Upstream!Init, Upstream!Assumption
  <2>4. QED
    BY <2>2, <2>3 DEF Upstream!Init
<1>4. AttemptsTyped
  <2>1. <<>> \in Seq(Seen)
    BY EmptySeq
  <2>2. QED
    BY <2>1 DEF AttemptsTyped, Upstream!Init
<1>5. ASSUME NEW r \in Requests PROVE RequestInv(r)
  <2>1. {i \in DOMAIN wire[r] : wire[r][i] = "answer"} = {}
    BY DEF Upstream!Init
  <2>2. Answers(r) = 0
    BY <2>1, FS_EmptySet DEF Answers
  <2>3. Pending(r)
    BY DEF Pending, Upstream!Init, Upstream!Assumption
  <2>4. QED
    BY <2>2, <2>3 DEF RequestInv, WaitsInBounds, Upstream!Init
<1>6. QED
  BY <1>1, <1>2, <1>3, <1>4, <1>5 DEF UpstreamInv, SlotsInv

\* Starting, sending and trying again tell nothing of an attempt's outcome.
LEMMA StartKeeps ==
  ASSUME Upstream!Assumption, UpstreamInv, NEW r \in Requests, Upstream!Start(r) \/ Upstream!Retry(r)
  PROVE  UpstreamInv'
<1>1. /\ at[r] \in {"idle", "waiting"} /\ Upstream!TakeSlot(r)
      /\ UNCHANGED <<attempt, batch, delay, result, wire>>
  BY DEF Upstream!Start, Upstream!Retry
<1>2. /\ SlotsInv' /\ at'[r] \in {"granted", "queued"}
      /\ \A q \in Requests : q # r => at'[q] = at[q]
  BY <1>1, SlotTaken DEF UpstreamInv
<1>3. ASSUME NEW q \in Requests PROVE RequestInv(q)'
  BY <1>1, <1>2, RequestKept DEF UpstreamInv
<1>4. AttemptsTyped'
  BY <1>1 DEF UpstreamInv, AttemptsTyped
<1>5. QED
  BY <1>2, <1>3, <1>4 DEF UpstreamInv

LEMMA SendKeeps ==
  ASSUME Upstream!Assumption, UpstreamInv, NEW r \in Requests, Upstream!Send(r)
  PROVE  UpstreamInv'
<1>1. /\ at[r] = "granted" /\ at' \in [Requests -> States] /\ at'[r] = "sent"
      /\ \A q \in Requests : q # r => at'[q] = at[q]
      /\ UNCHANGED <<free, waiters, attempt, batch, delay, result, wire>>
  BY DEF Upstream!Send, UpstreamInv, SlotsInv, SlotsTyped, States
<1>2. \A host : Upstream!Holders(host)' = Upstream!Holders(host) /\ Queued(host)' = Queued(host)
  BY <1>1 DEF Upstream!Holders, Queued, Upstream!Limiter
<1>3. SlotsInv'
  BY <1>1, <1>2, SlotsUntouched DEF UpstreamInv
<1>4. ASSUME NEW q \in Requests PROVE RequestInv(q)'
  BY <1>1, RequestKept DEF UpstreamInv
<1>5. AttemptsTyped'
  BY <1>1 DEF UpstreamInv, AttemptsTyped
<1>6. QED
  BY <1>3, <1>4, <1>5 DEF UpstreamInv

\* What a response changes: only its own request, which goes on to next.
LEMMA Responded ==
  ASSUME Upstream!Assumption, UpstreamInv, NEW r \in Requests, NEW response,
         NEW next \in {"waiting", "ended"}, Upstream!Respond(r, response), Upstream!Release(r, next)
  PROVE  /\ response \in Seen /\ SlotsInv' /\ Pending(r) /\ at'[r] = next
         /\ wire' \in [Requests -> Seq(Seen)] /\ wire'[r] = Append(wire[r], response)
         /\ \A q \in Requests : q # r =>
              /\ at'[q] = at[q] \/ (at[q] # "ended" /\ at'[q] \notin {"ended", "waiting"})
              /\ wire'[q] = wire[q]
<1>1. at[r] = "sent" /\ response \in Seen
  BY ResponsesSeen DEF Upstream!Respond
<1>2. /\ SlotsInv' /\ at'[r] = next
      /\ \A q \in Requests : q # r => at'[q] = at[q] \/ (at[q] = "queued" /\ at'[q] = "granted")
  BY <1>1, SlotReleased DEF UpstreamInv
<1>3. Append(wire[r], response) \in Seq(Seen)
  BY <1>1, OneMore DEF UpstreamInv, AttemptsTyped
<1>4. /\ wire' \in [Requests -> Seq(Seen)] /\ wire'[r] = Append(wire[r], response)
      /\ \A q \in Requests : q # r => wire'[q] = wire[q]
  BY <1>3 DEF Upstream!Respond, UpstreamInv, AttemptsTyped
<1>5. Pending(r)
  BY <1>1 DEF UpstreamInv, RequestInv
<1>6. QED
  BY <1>1, <1>2, <1>4, <1>5

LEMMA AnsweredKeeps ==
  ASSUME Upstream!Assumption, UpstreamInv, NEW r \in Requests, Upstream!Answered(r)
  PROVE  UpstreamInv'
<1> DEFINE n == Len(wire[r])
           w == wire[r]
<1>1. PICK next \in {"waiting", "ended"} :
        /\ Upstream!Respond(r, "answer") /\ Upstream!Release(r, next)
        /\ batch' = [batch EXCEPT ![r] = @ + 1]
        /\ attempt' = [attempt EXCEPT ![r] = 0] /\ delay' = [delay EXCEPT ![r] = 0]
        /\ IF next = "ended" THEN batch'[r] = BatchesOf[r] /\ result' = [result EXCEPT ![r] = "answer"]
           ELSE batch'[r] # BatchesOf[r] /\ UNCHANGED result
  BY DEF Upstream!Answered
<1>2. /\ SlotsInv' /\ Pending(r) /\ at'[r] = next
      /\ wire' \in [Requests -> Seq(Seen)] /\ wire'[r] = Append(w, "answer")
      /\ \A q \in Requests : q # r =>
           /\ at'[q] = at[q] \/ (at[q] # "ended" /\ at'[q] \notin {"ended", "waiting"})
           /\ wire'[q] = wire[q]
  BY <1>1, Responded
<1>3. /\ batch[r] \in Nat /\ batch'[r] = batch[r] + 1 /\ attempt'[r] = 0 /\ delay'[r] = 0
      /\ result'[r] = IF next = "ended" THEN "answer" ELSE result[r]
      /\ \A q \in Requests : q # r =>
           /\ batch'[q] = batch[q] /\ attempt'[q] = attempt[q] /\ delay'[q] = delay[q]
           /\ result'[q] = result[q]
  BY <1>1 DEF UpstreamInv, AttemptsTyped
<1>4. AttemptsTyped'
  <2>1. AttemptsTyped /\ result' \in [Requests -> Failures \union {"none", "answer", "CancelledError"}]
    BY <1>1 DEF UpstreamInv, AttemptsTyped
  <2>2. batch' \in [Requests -> Nat]
    BY <1>1, <2>1 DEF AttemptsTyped
  <2>3. attempt' \in [Requests -> Nat] /\ delay' \in [Requests -> Int]
    BY <1>1, <2>1 DEF AttemptsTyped
  <2>4. QED
    BY <1>2, <2>1, <2>2, <2>3 DEF AttemptsTyped
<1>5. /\ w \in Seq(Seen) /\ n \in Nat /\ Len(wire'[r]) = n + 1
      /\ DOMAIN w = 1..n /\ DOMAIN wire'[r] = 1..(n + 1)
      /\ \A i \in 1..n : wire'[r][i] = w[i]
      /\ wire'[r][n + 1] = "answer"
  BY <1>2, OneMore DEF UpstreamInv, AttemptsTyped, Seen
<1>6. Answers(r)' = Answers(r) + 1
  <2>1. "answer" \in Seen /\ (IF "answer" = "answer" THEN 1 ELSE 0) = 1
    BY DEF Seen
  <2>2. Cardinality({i \in DOMAIN Append(w, "answer") : Append(w, "answer")[i] = "answer"})
          = Cardinality({i \in DOMAIN w : w[i] = "answer"}) + 1
    BY <1>5, <2>1, OneMore
  <2>3. QED
    BY <1>2, <2>2 DEF Answers
<1>7. Answers(r)' = batch'[r]
  BY <1>3, <1>6 DEF UpstreamInv, RequestInv
<1>8. \A i \in 1..(n + 1) : wire'[r][i] \in {"answer", "transient"}
  <2> SUFFICES ASSUME NEW i \in 1..(n + 1) PROVE wire'[r][i] \in {"answer", "transient"}
    OBVIOUS
  <2>1. i \in 1..n \/ i = n + 1
    BY <1>5
  <2>2. QED
    BY <1>2, <1>5, <2>1 DEF Pending
<1>9. BatchesOf[r] \in Nat /\ batch[r] < BatchesOf[r] /\ MaxRetries \in Nat \ {0}
  BY <1>2 DEF Pending, Upstream!Assumption
<1>10. ASSUME next = "ended" PROVE RequestInv(r)'
  <2>1. Concluded(r)'
    <3>1. batch'[r] = BatchesOf[r] /\ result'[r] = "answer"
      BY <1>1, <1>3, <1>10
    <3>2. \A i \in 1..(Len(wire'[r]) - 1) : wire'[r][i] \in {"answer", "transient"}
      BY <1>5, <1>8
    <3>3. result'[r] # Upstream!Exhausted(KindOf[r])
      BY <3>1, ExhaustedRaises
    <3>4. QED
      BY <1>9, <3>1, <3>2, <3>3 DEF Concluded
  <2>2. QED
    BY <1>2, <1>7, <1>10, <2>1 DEF RequestInv, WaitsInBounds
<1>11. ASSUME next = "waiting" PROVE RequestInv(r)'
  <2>1. Pending(r)'
    <3>1. batch'[r] < BatchesOf[r]
      BY <1>1, <1>3, <1>9, <1>11
    <3>2. result'[r] = "none" /\ attempt'[r] < MaxRetries /\ attempt'[r] <= Len(wire'[r])
      BY <1>2, <1>3, <1>5, <1>9, <1>11 DEF Pending
    <3>3. \A i \in DOMAIN wire'[r] : ~(i > Len(wire'[r]) - attempt'[r])
      BY <1>3, <1>5
    <3>4. QED
      BY <1>5, <1>8, <3>1, <3>2, <3>3 DEF Pending
  <2>2. WaitsInBounds(r)'
    BY <1>3 DEF WaitsInBounds
  <2>3. QED
    BY <1>2, <1>7, <1>11, <2>1, <2>2 DEF RequestInv
<1>12. ASSUME NEW q \in Requests PROVE RequestInv(q)'
  <2>1. RequestInv(r)'
    BY <1>10, <1>11
  <2>2. CASE q # r
    BY <1>2, <1>3, <2>2, RequestKept DEF UpstreamInv
  <2>3. QED
    BY <2>1, <2>2
<1>13. QED
  BY <1>2, <1>4, <1>12 DEF UpstreamInv

LEMMA RefusedKeeps ==
  ASSUME Upstream!Assumption, UpstreamInv, NEW r \in Requests, NEW response, Upstream!Refused(r, response)
  PROVE  UpstreamInv'
<1> DEFINE n == Len(wire[r])
           w == wire[r]
<1>1. /\ response \notin {"answer", "transient"}
      /\ Upstream!Respond(r, response) /\ Upstream!Release(r, "ended")
      /\ result' = [result EXCEPT ![r] = Upstream!Raised(response)]
      /\ UNCHANGED <<attempt, batch, delay>>
  BY DEF Upstream!Refused
<1>2. /\ response \in Seen /\ SlotsInv' /\ Pending(r) /\ at'[r] = "ended"
      /\ wire' \in [Requests -> Seq(Seen)] /\ wire'[r] = Append(w, response)
      /\ \A q \in Requests : q # r =>
           /\ at'[q] = at[q] \/ (at[q] # "ended" /\ at'[q] \notin {"ended", "waiting"})
           /\ wire'[q] = wire[q]
  BY <1>1, Responded
<1>3. Upstream!Raised(response) \in Failures
  BY <1>1, <1>2, RaisedRaises
<1>4. /\ result' \in [Requests -> Failures \union {"none", "answer", "CancelledError"}]
      /\ result'[r] = Upstream!Raised(response)
      /\ \A q \in Requests : q # r => result'[q] = result[q]
  BY <1>1, <1>3 DEF UpstreamInv, AttemptsTyped
<1>5. AttemptsTyped'
  BY <1>1, <1>2, <1>4 DEF UpstreamInv, AttemptsTyped
<1>6. /\ w \in Seq(Seen) /\ n \in Nat /\ Len(wire'[r]) = n + 1
      /\ DOMAIN w = 1..n /\ DOMAIN wire'[r] = 1..(n + 1)
      /\ \A i \in 1..n : wire'[r][i] = w[i]
      /\ wire'[r][n + 1] = response
  BY <1>2, OneMore DEF UpstreamInv, AttemptsTyped
<1>7. Answers(r)' = batch'[r]
  <2>1. wire[r] \in Seq(Seen)
    BY DEF UpstreamInv, AttemptsTyped
  <2>3. Answers(r)' = Answers(r)
    BY <1>1, <1>2, <2>1, NoMoreAnswers
  <2>4. QED
    BY <1>1, <2>3 DEF UpstreamInv, RequestInv
<1>8. Concluded(r)'
  <2>1. wire'[r][Len(wire'[r])] # "transient" /\ Len(wire'[r]) # 0
    BY <1>1, <1>6
  <2>2. \A i \in 1..(Len(wire'[r]) - 1) : wire'[r][i] \in {"answer", "transient"}
    BY <1>2, <1>6 DEF Pending
  <2>3. BatchesOf[r] \in Nat /\ batch[r] \in Nat /\ batch'[r] = batch[r] /\ batch[r] < BatchesOf[r]
    BY <1>1, <1>2 DEF Pending, Upstream!Assumption, UpstreamInv, AttemptsTyped
  <2>4. result'[r] # "answer"
    BY <1>3, <1>4 DEF Failures
  <2>5. QED
    BY <2>1, <2>2, <2>3, <2>4 DEF Concluded
<1>9. RequestInv(r)'
  BY <1>2, <1>7, <1>8 DEF RequestInv, WaitsInBounds
<1>10. ASSUME NEW q \in Requests, q # r PROVE RequestInv(q)'
  BY <1>1, <1>2, <1>4, <1>10, RequestKept DEF UpstreamInv
<1>11. QED
  BY <1>2, <1>5, <1>9, <1>10 DEF UpstreamInv

\* The wait before the next attempt.
LEMMA WaitInBounds ==
  ASSUME Upstream!Assumption, NEW a \in Nat, NEW ra \in RetryAfters
  PROVE  Upstream!RetryDelay(a, ra) \in (2 ^ a)..Max({MaxRetryAfter, 2 ^ a})
<1> DEFINE b == 2 ^ a
           m == Min({ra, MaxRetryAfter})
<1>1. b \in Nat /\ ra \in Int /\ MaxRetryAfter \in Int
  BY PowerOfTwo DEF Upstream!Assumption
<1>2. Upstream!RetryDelay(a, ra) = Max({b, m})
  BY UpstreamNames DEF Upstream!RetryDelay
<1> HIDE DEF b
<1>3. m \in Int /\ m <= MaxRetryAfter
  <2>1. m = IF ra <= MaxRetryAfter THEN ra ELSE MaxRetryAfter
    BY <1>1, MaxOfTwo
  <2>2. QED
    BY <1>1, <2>1
<1> HIDE DEF m
<1>4. Max({b, m}) = (IF b >= m THEN b ELSE m) /\ Max({MaxRetryAfter, b}) = (IF MaxRetryAfter >= b THEN MaxRetryAfter ELSE b)
  BY <1>1, <1>3, MaxOfTwo
<1>5. Max({b, m}) \in b..Max({MaxRetryAfter, b})
  BY <1>1, <1>3, <1>4
<1>6. QED
  BY <1>2, <1>5 DEF b

LEMMA FailedKeeps ==
  ASSUME Upstream!Assumption, UpstreamInv, NEW r \in Requests, NEW ra \in RetryAfters, Upstream!Failed(r, ra)
  PROVE  UpstreamInv'
<1> DEFINE n == Len(wire[r])
           w == wire[r]
<1>1. PICK next \in {"waiting", "ended"} :
        /\ Upstream!Respond(r, "transient") /\ Upstream!Release(r, next)
        /\ attempt' = [attempt EXCEPT ![r] = @ + 1] /\ UNCHANGED batch
        /\ IF next = "waiting"
           THEN /\ attempt'[r] < MaxRetries /\ UNCHANGED result
                /\ delay' = [delay EXCEPT ![r] = Upstream!RetryDelay(attempt[r], ra)]
           ELSE /\ ~(attempt'[r] < MaxRetries) /\ UNCHANGED delay
                /\ result' = [result EXCEPT ![r] = Upstream!Exhausted(KindOf[r])]
  BY DEF Upstream!Failed
<1>2. /\ SlotsInv' /\ Pending(r) /\ at'[r] = next
      /\ wire' \in [Requests -> Seq(Seen)] /\ wire'[r] = Append(w, "transient")
      /\ \A q \in Requests : q # r =>
           /\ at'[q] = at[q] \/ (at[q] # "ended" /\ at'[q] \notin {"ended", "waiting"})
           /\ wire'[q] = wire[q]
  BY <1>1, Responded
<1>3. attempt[r] \in Nat /\ attempt'[r] = attempt[r] + 1 /\ batch[r] \in Nat /\ batch'[r] = batch[r]
  BY <1>1 DEF UpstreamInv, AttemptsTyped
<1>4. Upstream!RetryDelay(attempt[r], ra) \in (2 ^ attempt[r])..Max({MaxRetryAfter, 2 ^ attempt[r]})
  BY <1>3, WaitInBounds
<1>5. \A q \in Requests : q # r =>
        /\ batch'[q] = batch[q] /\ attempt'[q] = attempt[q] /\ delay'[q] = delay[q]
        /\ result'[q] = result[q]
  BY <1>1 DEF UpstreamInv, AttemptsTyped
<1>6. AttemptsTyped'
  <2>1. AttemptsTyped /\ attempt' \in [Requests -> Nat]
    BY <1>1 DEF UpstreamInv, AttemptsTyped
  <2>2. Upstream!RetryDelay(attempt[r], ra) \in Int
    BY <1>4
  <2>3. delay' \in [Requests -> Int]
    BY <1>1, <2>1, <2>2 DEF AttemptsTyped
  <2>4. result' \in [Requests -> Failures \union {"none", "answer", "CancelledError"}]
    BY <1>1, <2>1, ExhaustedRaises DEF AttemptsTyped
  <2>5. QED
    BY <1>1, <1>2, <2>1, <2>3, <2>4 DEF AttemptsTyped
<1>7. /\ w \in Seq(Seen) /\ n \in Nat /\ Len(wire'[r]) = n + 1
      /\ DOMAIN w = 1..n /\ DOMAIN wire'[r] = 1..(n + 1)
      /\ \A i \in 1..n : wire'[r][i] = w[i]
      /\ wire'[r][n + 1] = "transient"
  BY <1>2, OneMore DEF UpstreamInv, AttemptsTyped, Seen
<1>8. Answers(r)' = batch'[r]
  <2>1. wire[r] \in Seq(Seen) /\ "transient" \in Seen
    BY DEF UpstreamInv, AttemptsTyped, Seen
  <2>3. Answers(r)' = Answers(r)
    BY <1>2, <2>1, NoMoreAnswers
  <2>4. QED
    BY <1>1, <2>3 DEF UpstreamInv, RequestInv
<1>9. \A i \in 1..(n + 1) : wire'[r][i] \in {"answer", "transient"}
  <2> SUFFICES ASSUME NEW i \in 1..(n + 1) PROVE wire'[r][i] \in {"answer", "transient"}
    OBVIOUS
  <2>1. i \in 1..n \/ i = n + 1
    BY <1>7
  <2>2. QED
    BY <1>2, <1>7, <2>1 DEF Pending
<1>10. \A i \in 1..(n + 1) : i > n - attempt[r] => wire'[r][i] = "transient"
  <2> SUFFICES ASSUME NEW i \in 1..(n + 1), i > n - attempt[r] PROVE wire'[r][i] = "transient"
    OBVIOUS
  <2>1. i \in 1..n \/ i = n + 1
    BY <1>7
  <2>2. QED
    BY <1>2, <1>7, <2>1 DEF Pending
<1>11. /\ BatchesOf[r] \in Nat /\ batch[r] < BatchesOf[r] /\ MaxRetries \in Nat \ {0}
       /\ attempt[r] <= n /\ attempt[r] < MaxRetries /\ result[r] = "none"
  BY <1>2 DEF Pending, Upstream!Assumption
<1>12. ASSUME next = "ended" PROVE RequestInv(r)'
  <2>1. result'[r] = Upstream!Exhausted(KindOf[r]) /\ result'[r] # "answer"
    BY <1>1, <1>12, ExhaustedRaises DEF UpstreamInv, AttemptsTyped
  <2>2. attempt[r] = MaxRetries - 1
    BY <1>1, <1>3, <1>11, <1>12
  <2>3. n + 1 >= MaxRetries /\ \A i \in ((n + 1) - MaxRetries + 1)..(n + 1) : wire'[r][i] = "transient"
    <3>1. n + 1 >= MaxRetries
      BY <1>7, <1>11, <2>2
    <3>2. ASSUME NEW i \in ((n + 1) - MaxRetries + 1)..(n + 1) PROVE wire'[r][i] = "transient"
      <4>1. i \in 1..(n + 1) /\ i > n - attempt[r]
        BY <1>7, <1>11, <2>2, <3>1
      <4>2. QED
        BY <1>10, <4>1
    <3>3. QED
      BY <3>1, <3>2
  <2>4. \A i \in 1..(Len(wire'[r]) - 1) : wire'[r][i] \in {"answer", "transient"}
    BY <1>7, <1>9
  <2>5. batch'[r] <= BatchesOf[r] /\ batch'[r] # BatchesOf[r]
    BY <1>3, <1>11
  <2>6. Concluded(r)'
    BY <1>7, <2>1, <2>3, <2>4, <2>5 DEF Concluded
  <2>7. QED
    BY <1>2, <1>8, <1>12, <2>6 DEF RequestInv, WaitsInBounds
<1>13. ASSUME next = "waiting" PROVE RequestInv(r)'
  <2>1. Pending(r)'
    <3>1. result'[r] = "none" /\ attempt'[r] < MaxRetries /\ batch'[r] < BatchesOf[r]
      BY <1>1, <1>3, <1>11, <1>13
    <3>2. attempt'[r] <= Len(wire'[r])
      BY <1>3, <1>7, <1>11
    <3>3. \A i \in DOMAIN wire'[r] : i > Len(wire'[r]) - attempt'[r] => wire'[r][i] = "transient"
      <4>1. Len(wire'[r]) - attempt'[r] = n - attempt[r]
        <5>1. Len(wire'[r]) = n + 1 /\ n \in Int /\ attempt[r] \in Int
          BY <1>3, <1>7
        <5>2. QED
          BY <1>3, <5>1
      <4>2. QED
        BY <1>7, <1>10, <4>1
    <3>4. QED
      BY <1>7, <1>9, <3>1, <3>2, <3>3 DEF Pending
  <2>2. WaitsInBounds(r)'
    <3>1. attempt'[r] - 1 = attempt[r]
      BY <1>3
    <3>2. delay'[r] = Upstream!RetryDelay(attempt[r], ra)
      BY <1>1, <1>13 DEF UpstreamInv, AttemptsTyped
    <3>3. QED
      BY <1>4, <3>1, <3>2 DEF WaitsInBounds, Backoff
  <2>3. QED
    BY <1>2, <1>8, <1>13, <2>1, <2>2 DEF RequestInv
<1>14. ASSUME NEW q \in Requests, q # r PROVE RequestInv(q)'
  BY <1>2, <1>3, <1>1, <1>5, <1>14, RequestKept DEF UpstreamInv
<1>15. RequestInv(r)'
  BY <1>12, <1>13
<1>16. QED
  BY <1>2, <1>6, <1>14, <1>15 DEF UpstreamInv

\* A request under way that is cancelled has ended as justified.
LEMMA CancelConcludes ==
  ASSUME Upstream!Assumption, UpstreamInv, NEW r \in Requests, at[r] \notin {"idle", "ended"},
         Upstream!Cancelled(r), at'[r] = "ended"
  PROVE  /\ AttemptsTyped' /\ RequestInv(r)'
         /\ \A q \in Requests : q # r => result'[q] = result[q]
<1>1. /\ UNCHANGED <<attempt, batch, delay, wire>> /\ AttemptsTyped
      /\ result' = [result EXCEPT ![r] = "CancelledError"]
  BY DEF Upstream!Cancelled, UpstreamInv
<1>2. /\ result' \in [Requests -> Failures \union {"none", "answer", "CancelledError"}]
      /\ result'[r] = "CancelledError"
      /\ \A q \in Requests : q # r => result'[q] = result[q]
  BY <1>1 DEF AttemptsTyped
<1>3. AttemptsTyped'
  BY <1>1, <1>2 DEF AttemptsTyped
<1>4. Pending(r) /\ Answers(r) = batch[r] /\ Answers(r)' = Answers(r)
  BY <1>1 DEF UpstreamInv, RequestInv, Answers
<1>5. Concluded(r)'
  <2>1. result'[r] # Upstream!Exhausted(KindOf[r]) /\ result'[r] # "answer"
    BY <1>2, ExhaustedRaises
  <2>2. \A i \in 1..(Len(wire'[r]) - 1) : wire'[r][i] \in {"answer", "transient"}
    <3>1. wire[r] \in Seq(Seen) /\ wire'[r] = wire[r]
      BY <1>1 DEF AttemptsTyped
    <3>2. \A i \in 1..(Len(wire[r]) - 1) : i \in DOMAIN wire[r]
      BY <3>1, LenProperties
    <3>3. QED
      BY <1>4, <3>1, <3>2 DEF Pending
  <2>3. BatchesOf[r] \in Nat /\ batch[r] \in Nat /\ batch'[r] = batch[r] /\ batch[r] < BatchesOf[r]
    BY <1>1, <1>4 DEF Pending, Upstream!Assumption, AttemptsTyped
  <2>4. QED
    BY <2>1, <2>2, <2>3 DEF Concluded
<1>6. QED
  BY <1>1, <1>2, <1>3, <1>4, <1>5 DEF RequestInv, WaitsInBounds

\* What is left of the others after a cancellation.
LEMMA CancelKeeps ==
  ASSUME Upstream!Assumption, UpstreamInv, NEW r \in Requests, at[r] \notin {"idle", "ended"},
         Upstream!Cancelled(r), SlotsInv', at'[r] = "ended",
         \A q \in Requests :
           q # r => at'[q] = at[q] \/ (at[q] = "queued" /\ at'[q] = "granted")
  PROVE  UpstreamInv'
<1>1. /\ AttemptsTyped' /\ RequestInv(r)'
      /\ \A q \in Requests : q # r => result'[q] = result[q]
  BY CancelConcludes
<1>2. UNCHANGED <<attempt, batch, delay, wire>>
  BY DEF Upstream!Cancelled
<1>3. ASSUME NEW q \in Requests, q # r PROVE RequestInv(q)'
  BY <1>1, <1>2, <1>3, RequestKept DEF UpstreamInv
<1>4. QED
  BY <1>1, <1>3 DEF UpstreamInv

\* A cancelled waiter leaves the queue, and only it does.
LEMMA CancelQueuedKeeps ==
  ASSUME Upstream!Assumption, UpstreamInv, NEW r \in Requests, Upstream!CancelQueued(r)
  PROVE  UpstreamInv'
<1> DEFINE host == Upstream!Limiter(r)
<1>1. /\ SlotsInv /\ SlotsTyped /\ at[r] = "queued" /\ Upstream!Cancelled(r)
      /\ at' = [at EXCEPT ![r] = "ended"] /\ UNCHANGED free
      /\ waiters' = [waiters EXCEPT ![host] = RemoveFirst(@, r)]
  <2>1. Upstream!RemoveFirst(waiters[host], r) = RemoveFirst(waiters[host], r)
    BY UpstreamNames
  <2>2. QED
    BY <2>1 DEF Upstream!CancelQueued, UpstreamInv, SlotsInv
<1>2. /\ at' \in [Requests -> States] /\ at'[r] = "ended"
      /\ \A q \in Requests : q # r => at'[q] = at[q]
  BY <1>1 DEF SlotsTyped, States
<1>3. \A h : Upstream!Holders(h)' = Upstream!Holders(h)
  BY <1>1, <1>2 DEF Upstream!Holders, Upstream!Limiter
<1>4. /\ \A h : h # host => Queued(h)' = Queued(h)
      /\ Queued(host)' = Queued(host) \ {r}
  BY <1>1, <1>2 DEF Queued, Upstream!Limiter
<1>5. SlotsInv'
  <2>1. CASE host \notin DOMAIN Limits
    <3>1. waiters' = waiters
      BY <1>1, <2>1 DEF SlotsTyped
    <3>2. \A h \in DOMAIN Limits : h # host
      BY <2>1
    <3>3. QED
      BY <1>1, <1>2, <1>3, <1>4, <3>1, <3>2, SlotsUntouched
  <2>2. CASE host \in DOMAIN Limits
    <3> DEFINE q == waiters[host]
    <3>1. q \in Seq(Requests) /\ Distinct(q) /\ Members(q) = Queued(host)
      BY <1>1, <2>2 DEF SlotsInv, SlotsTyped, InLine
    <3>2. /\ RemoveFirst(q, r) \in Seq(Requests) /\ Distinct(RemoveFirst(q, r))
          /\ Members(RemoveFirst(q, r)) = Members(q) \ {r}
      BY <3>1, OneGone
    <3>3. /\ waiters' \in [DOMAIN Limits -> Seq(Requests)] /\ waiters'[host] = RemoveFirst(q, r)
          /\ \A h \in DOMAIN Limits : h # host => waiters'[h] = waiters[h]
      BY <1>1, <2>2, <3>2 DEF SlotsTyped
    <3>4. InLine'
      <4> SUFFICES ASSUME NEW h \in DOMAIN Limits
                   PROVE  Distinct(waiters'[h]) /\ Members(waiters'[h]) = Queued(h)'
        BY DEF InLine, Distinct, Members
      <4>1. CASE h # host
        BY <1>1, <1>4, <3>3, <4>1 DEF SlotsInv, InLine
      <4>2. CASE h = host
        BY <1>4, <3>1, <3>2, <3>3, <4>2
      <4>3. QED
        BY <4>1, <4>2
    <3>5. SlotsKept'
      <4>1. q = <<>> => RemoveFirst(q, r) = <<>>
        BY <3>1, <3>2, EmptyQueue
      <4>2. \A h \in DOMAIN Limits : waiters'[h] # <<>> => waiters[h] # <<>>
        BY <3>3, <4>1
      <4>3. QED
        BY <1>1, <1>3, <4>2 DEF SlotsInv, SlotsKept
    <3>6. QED
      BY <1>1, <1>2, <3>3, <3>4, <3>5 DEF SlotsInv, SlotsTyped
  <2>3. QED
    BY <2>1, <2>2
<1>6. QED
  BY <1>1, <1>2, <1>5, CancelKeeps

LEMMA CancelOtherKeeps ==
  ASSUME Upstream!Assumption, UpstreamInv, NEW r \in Requests,
         Upstream!CancelHolding(r) \/ Upstream!CancelWaiting(r)
  PROVE  UpstreamInv'
<1>1. CASE Upstream!CancelHolding(r)
  <2>1. at[r] \in {"granted", "sent"} /\ Upstream!Cancelled(r) /\ Upstream!Release(r, "ended")
    BY <1>1 DEF Upstream!CancelHolding
  <2>2. /\ SlotsInv' /\ at'[r] = "ended"
        /\ \A q \in Requests :
             q # r => at'[q] = at[q] \/ (at[q] = "queued" /\ at'[q] = "granted")
    BY <2>1, SlotReleased DEF UpstreamInv
  <2>3. QED
    BY <2>1, <2>2, CancelKeeps
<1>2. CASE Upstream!CancelWaiting(r)
  <2>1. /\ at[r] = "waiting" /\ Upstream!Cancelled(r) /\ UNCHANGED <<free, waiters>>
        /\ at' \in [Requests -> States] /\ at'[r] = "ended"
        /\ \A q \in Requests : q # r => at'[q] = at[q]
    BY <1>2 DEF Upstream!CancelWaiting, UpstreamInv, SlotsInv, SlotsTyped, States
  <2>2. \A host : Upstream!Holders(host)' = Upstream!Holders(host) /\ Queued(host)' = Queued(host)
    BY <2>1 DEF Upstream!Holders, Queued, Upstream!Limiter
  <2>3. SlotsInv'
    BY <2>1, <2>2, SlotsUntouched DEF UpstreamInv
  <2>4. QED
    BY <2>1, <2>3, CancelKeeps
<1>3. QED
  BY <1>1, <1>2

LEMMA UpstreamStutters ==
  Upstream!Assumption /\ UpstreamInv /\ UNCHANGED Upstream!upstreamVars => UpstreamInv'
<1> SUFFICES ASSUME Upstream!Assumption, UpstreamInv, UNCHANGED Upstream!upstreamVars
             PROVE  UpstreamInv'
  OBVIOUS
<1>1. UNCHANGED <<at, free, waiters, attempt, batch, delay, result, wire>>
  BY DEF Upstream!upstreamVars
<1>2. SlotsInv'
  <2>1. \A host : Upstream!Holders(host)' = Upstream!Holders(host) /\ Queued(host)' = Queued(host)
    BY <1>1 DEF Upstream!Holders, Queued, Upstream!Limiter
  <2>2. at' \in [Requests -> States] /\ SlotsInv
    BY <1>1 DEF UpstreamInv, SlotsInv, SlotsTyped
  <2>3. QED
    BY <1>1, <2>1, <2>2, SlotsUntouched
<1>3. AttemptsTyped'
  BY <1>1 DEF UpstreamInv, AttemptsTyped
<1>4. ASSUME NEW q \in Requests PROVE RequestInv(q)'
  BY <1>1, RequestKept DEF UpstreamInv
<1>5. QED
  BY <1>2, <1>3, <1>4 DEF UpstreamInv

LEMMA UpstreamStep ==
  Upstream!Assumption /\ UpstreamInv /\ [Upstream!Next]_Upstream!upstreamVars => UpstreamInv'
<1> SUFFICES ASSUME Upstream!Assumption, UpstreamInv, Upstream!Next PROVE UpstreamInv'
  BY UpstreamStutters
<1>1. PICK r \in Requests :
        \/ Upstream!Start(r) \/ Upstream!Step(r)
        \/ Upstream!CancelQueued(r) \/ Upstream!CancelHolding(r) \/ Upstream!CancelWaiting(r)
  BY DEF Upstream!Next
<1>2. CASE Upstream!Start(r)
  BY <1>2, StartKeeps
<1>3. CASE Upstream!Step(r)
  BY <1>3, StartKeeps, SendKeeps, AnsweredKeeps, RefusedKeeps, FailedKeeps DEF Upstream!Step
<1>4. CASE Upstream!CancelQueued(r)
  BY <1>4, CancelQueuedKeeps
<1>5. CASE Upstream!CancelHolding(r) \/ Upstream!CancelWaiting(r)
  BY <1>5, CancelOtherKeeps
<1>6. QED
  BY <1>1, <1>2, <1>3, <1>4, <1>5

\* What the invariant says of the promises.
LEMMA UpstreamPromises ==
  Upstream!Assumption /\ UpstreamInv => Upstream!SlotsAccounted /\ Upstream!AttemptsJustified
<1> SUFFICES ASSUME Upstream!Assumption, UpstreamInv
             PROVE  Upstream!SlotsAccounted /\ Upstream!AttemptsJustified
  OBVIOUS
<1>1. Upstream!SlotsAccounted
  BY SlotsKeptAccounted DEF UpstreamInv, SlotsInv
<1>2. ASSUME NEW r \in Requests
      PROVE  LET transient(i) == wire[r][i] = "transient"
                 answers == Cardinality({i \in DOMAIN wire[r] : wire[r][i] = "answer"})
                 n == Len(wire[r])
             IN /\ result[r] = Upstream!Exhausted(KindOf[r]) /\ (n = 0 \/ transient(n)) =>
                     n >= MaxRetries /\ \A i \in (n - MaxRetries + 1)..n : transient(i)
                /\ \A i \in 1..(n - 1) : wire[r][i] \in {"answer", "transient"}
                /\ answers <= BatchesOf[r] /\ (result[r] = "answer" <=> answers = BatchesOf[r])
                /\ at[r] = "waiting" /\ attempt[r] > 0 =>
                     delay[r] \in (2 ^ (attempt[r] - 1))..Max({MaxRetryAfter, 2 ^ (attempt[r] - 1)})
  <2>1. RequestInv(r) /\ batch[r] \in Nat /\ BatchesOf[r] \in Nat /\ wire[r] \in Seq(Seen)
    BY DEF UpstreamInv, AttemptsTyped, Upstream!Assumption
  <2>2. Concluded(r)
    <3>1. CASE at[r] = "ended"
      BY <2>1, <3>1 DEF RequestInv
    <3>2. CASE at[r] # "ended"
      <4>1. Pending(r)
        BY <2>1, <3>2 DEF RequestInv
      <4>2. \A i \in 1..(Len(wire[r]) - 1) : i \in DOMAIN wire[r]
        BY <2>1, LenProperties
      <4>3. batch[r] <= BatchesOf[r] /\ batch[r] # BatchesOf[r]
        BY <2>1, <4>1 DEF Pending
      <4>4. QED
        BY <4>1, <4>2, <4>3, ExhaustedRaises DEF Pending, Concluded
    <3>3. QED
      BY <3>1, <3>2
  <2>3. WaitsInBounds(r) /\ Answers(r) = batch[r]
    BY <2>1 DEF RequestInv
  <2>4. QED
    BY <2>2, <2>3 DEF Concluded, WaitsInBounds, Backoff, Answers
<1>3. Upstream!AttemptsJustified
  BY <1>2, UpstreamNames DEF Upstream!AttemptsJustified
<1>4. QED
  BY <1>1, <1>3

-----------------------------------------------------------------------------
(* A behaviour is of one part, whose steps are the part's.                 *)

UpstreamInvOf == part = "upstream" => UpstreamInv

LEMMA StepsOfUpstream ==
  [Next]_vars => part' = part /\ (part = "upstream" => [Upstream!Next]_Upstream!upstreamVars)
<1> SUFFICES ASSUME [Next]_vars
             PROVE  part' = part /\ (part = "upstream" => [Upstream!Next]_Upstream!upstreamVars)
  OBVIOUS
<1>1. part' = part
  BY DEF Next, vars, InUpstream, InBridge, InAnswers, InSources
<1>2. ASSUME part = "upstream" PROVE Upstream!Next \/ UNCHANGED Upstream!upstreamVars
  BY <1>2 DEF Next, vars, upstreamVars, Upstream!upstreamVars, InUpstream, InBridge, InAnswers, InSources
<1>3. QED
  BY <1>1, <1>2

\* The inductive invariant of the requests: who stands in a queue is queued, a
\* limiter's slots are free or held, a request under way has only seen answers and
\* transient failures, the last of which it counts (rate_limiter.py, _http.py).
THEOREM UpstreamInvHolds == Spec => []UpstreamInvOf
<1>1. Init => UpstreamInvOf
  BY UpstreamAssumption, UpstreamInit DEF Init, UpstreamInvOf
<1>2. UpstreamInvOf /\ [Next]_vars => UpstreamInvOf'
  BY UpstreamAssumption, StepsOfUpstream, UpstreamStep DEF UpstreamInvOf
<1>3. QED
  BY <1>1, <1>2, PTL DEF Spec

\* A limiter's slots are accounted for whatever fails or is cancelled, and a call
\* gives up only after MaxRetries transient failures in a row, repeats nothing an
\* attempt settled, and waits no longer than it may (rate_limiter.py, _http.py,
\* the clients' retries).
THEOREM RequestsAlwaysJustified == Spec => []RequestsJustified
<1>1. UpstreamInvOf => RequestsJustified
  BY UpstreamAssumption, UpstreamPromises DEF UpstreamInvOf, RequestsJustified
<1>2. QED
  BY <1>1, UpstreamInvHolds, PTL

-----------------------------------------------------------------------------
(* Listings.                                                               *)

Outcomes == {"walking", "ended", "truncated"}
Cursors == [kind : {"none", "decimal", "opaque"}, at : Nat]

\* The cursor of a walk under way is within the listing and below the cap, unless it
\* stands where the walk began.
OnItsWay ==
  /\ from <= cursor.at
  /\ cursor.at > from => cursor.at <= Len(Listing) /\ (Sources!IsCapped => cursor.at < Cap)
WalkInv ==
  /\ cursor \in Cursors /\ from \in Nat /\ outcome \in Outcomes
  /\ (outcome = "walking" => OnItsWay) /\ Sources!WalkIsWhole
TextInv ==
  /\ documents \in [Sources!DocumentsOf -> Sources!DocumentKinds] /\ Sources!AbstractIsLastResort
SourcesInv == WalkInv /\ TextInv

\* What was given has every paper with an id between two places of the listing, but
\* those PubMed no longer serves.
GivenAll(first, last, by, given) ==
  \A i \in first..last :
    Listing[i].id # 0 /\ ~(by = "pubmed" /\ i \in Unserved) => Listing[i].paper \in given

\* What WalkIsWhole says, place by place, of a state and of the next one.
LEMMA Whole ==
  /\ Sources!WalkIsWhole <=>
       /\ outcome # "truncated" => GivenAll(from + 1, cursor.at, source, found)
       /\ outcome = "ended" => GivenAll(from + 1, Len(Listing), source, found) \/ Sources!StoppedOnBlanks
       /\ outcome = "truncated" =>
            GivenAll(from + 1, Cap, source, found) /\ (counts /\ from < Cap => Len(Listing) > Cap)
  /\ Sources!WalkIsWhole' <=>
       /\ outcome' # "truncated" => GivenAll(from' + 1, cursor'.at, source', found')
       /\ outcome' = "ended" => GivenAll(from' + 1, Len(Listing), source', found') \/ Sources!StoppedOnBlanks'
       /\ outcome' = "truncated" =>
            GivenAll(from' + 1, Cap, source', found') /\ (counts' /\ from' < Cap => Len(Listing) > Cap)
<1>1. \A S : Sources!Papers(S) \subseteq found <=>
             \A i \in S : Listing[i].id # 0 /\ ~(source = "pubmed" /\ i \in Unserved) => Listing[i].paper \in found
  BY DEF Sources!Papers
<1>2. \A S : Sources!Papers(S)' \subseteq found' <=>
             \A i \in S : Listing[i].id # 0 /\ ~(source' = "pubmed" /\ i \in Unserved) => Listing[i].paper \in found'
  BY DEF Sources!Papers
<1>3. /\ \A first, last : Sources!Papers(first..last) \subseteq found <=> GivenAll(first, last, source, found)
      /\ \A first, last : Sources!Papers(first..last)' \subseteq found' <=> GivenAll(first, last, source', found')
  BY <1>1, <1>2 DEF GivenAll
<1>4. QED
  BY <1>3 DEF Sources!WalkIsWhole

LEMMA SourcesNames ==
  /\ \A S : Sources!Max(S) = Max(S) /\ Sources!Min(S) = Min(S)
  /\ \A S : Sources!Cardinality(S) = Cardinality(S)
  /\ \A f : Sources!Range(f) = {f[x] : x \in DOMAIN f}
<1>1. \A S : Sources!Max(S) = Max(S) /\ Sources!Min(S) = Min(S)
  BY DEF Sources!Max, Max, Sources!Min, Min
<1>2. \A S : Sources!Cardinality(S) = Cardinality(S)
  BY DEF Sources!Cardinality, Cardinality, Sources!IsFiniteSet, IsFiniteSet
<1>3. \A f : Sources!Range(f) = {f[x] : x \in DOMAIN f}
  BY DEF Sources!Range
<1>4. QED
  BY <1>1, <1>2, <1>3

\* A page is empty only where the listing has no more, and never passes its end.
LEMMA PageOf ==
  ASSUME Sources!Assumption, cursor \in Cursors, NEW limit \in Nat \ {0},
         NEW entries \in Sources!Min({1, Sources!Available(limit)})..Sources!Available(limit)
  PROVE  /\ entries \in Nat /\ entries <= limit /\ Len(Listing) \in Nat
         /\ entries > 0 => cursor.at + entries <= Len(Listing)
         /\ entries = 0 => Len(Listing) <= cursor.at
<1> DEFINE left == Len(Listing) - cursor.at
           least == Min({limit, left})
           most == Max({0, least})
<1>1. Len(Listing) \in Nat /\ cursor.at \in Nat /\ left \in Int /\ limit \in Int
  BY LenProperties DEF Sources!Assumption, Cursors
<1>2. Sources!Available(limit) = most /\ entries \in Min({1, most})..most
  BY SourcesNames DEF Sources!Available
<1> HIDE DEF left
<1>3. least = IF limit <= left THEN limit ELSE left
  BY <1>1, MaxOfTwo
<1> HIDE DEF least
<1>4. least \in Int
  BY <1>1, <1>3
<1>5. most = IF 0 >= least THEN 0 ELSE least
  BY <1>4, MaxOfTwo
<1> HIDE DEF most
<1>6. most \in Int
  BY <1>4, <1>5
<1>7. Min({1, most}) = IF 1 <= most THEN 1 ELSE most
  BY <1>6, MaxOfTwo
<1>8. entries \in Nat /\ entries <= most /\ (entries = 0 => most = 0)
  BY <1>2, <1>4, <1>5, <1>6, <1>7
<1>9. entries <= limit /\ (entries > 0 => entries <= left) /\ (entries = 0 => left <= 0)
  BY <1>1, <1>3, <1>4, <1>5, <1>8
<1>10. QED
  BY <1>1, <1>8, <1>9 DEF left

\* A page counts for no more than it has, and for nothing only if it is empty or
\* begins with a blank id of PubMed's.
LEMMA CountedOf ==
  ASSUME Sources!Assumption, cursor \in Cursors, NEW entries \in Nat
  PROVE  LET counted == Sources!Counted(Sources!Positions(entries)) IN
         /\ counted \in Nat /\ counted <= entries
         /\ counted = 0 /\ entries > 0 => source = "pubmed" /\ Listing[cursor.at + 1].id = 0
<1> DEFINE page == (cursor.at + 1)..(cursor.at + entries)
           counting == {i \in page : source = "pubmed" => Listing[i].id # 0}
<1>1. cursor.at \in Nat
  BY DEF Cursors
<1>2. IsFiniteSet(page) /\ Cardinality(page) = entries
  <2>1. cursor.at + 1 \in Int /\ cursor.at + entries \in Int
    BY <1>1
  <2>2. IsFiniteSet(page) /\ Cardinality(page) = IF cursor.at + 1 > cursor.at + entries THEN 0
                                                 ELSE (cursor.at + entries) - (cursor.at + 1) + 1
    BY <2>1, FS_Interval
  <2> HIDE DEF page
  <2>3. QED
    BY <1>1, <2>2
<1>3. counting \in SUBSET page
  OBVIOUS
<1>4. IsFiniteSet(counting) /\ Cardinality(counting) <= Cardinality(page)
  <2> HIDE DEF page, counting
  <2>1. QED
    BY <1>2, <1>3, FS_Subset
<1>5. Cardinality(counting) \in Nat /\ Cardinality(counting) <= entries
  <2> HIDE DEF page, counting
  <2>1. QED
    BY <1>2, <1>4, FS_CardinalityType
<1>6. ASSUME Cardinality(counting) = 0, entries > 0
      PROVE  source = "pubmed" /\ Listing[cursor.at + 1].id = 0
  <2>1. counting = {}
    <3> HIDE DEF counting
    <3>1. QED
      BY <1>4, <1>6, FS_EmptySet
  <2>2. cursor.at + 1 \in page
    BY <1>1, <1>6
  <2>3. QED
    BY <2>1, <2>2
<1>7. Sources!Counted(Sources!Positions(entries)) = Cardinality(counting)
  BY SourcesNames DEF Sources!Counted, Sources!Positions
<1> HIDE DEF counting
<1>8. QED
  BY <1>5, <1>6, <1>7

\* What a walk has been given with one more page.
LEMMA PageGiven ==
  ASSUME Sources!Assumption, WalkInv, outcome = "walking", NEW entries \in Nat, Sources!Give(entries)
  PROVE  GivenAll(from + 1, cursor.at + entries, source, found')
<1>1. GivenAll(from + 1, cursor.at, source, found) /\ from \in Nat /\ cursor.at \in Nat
  BY Whole DEF WalkInv, Cursors
<1>2. found' = found \union Sources!Papers((cursor.at + 1)..(cursor.at + entries))
  BY DEF Sources!Give, Sources!Positions
<1>3. GivenAll(cursor.at + 1, cursor.at + entries, source, found')
  BY <1>2 DEF Sources!Papers, GivenAll
<1>4. GivenAll(from + 1, cursor.at, source, found')
  BY <1>1, <1>2 DEF GivenAll
<1>5. \A i \in (from + 1)..(cursor.at + entries) :
        i \in (from + 1)..cursor.at \/ i \in (cursor.at + 1)..(cursor.at + entries)
  BY <1>1
<1>6. QED
  BY <1>3, <1>4, <1>5 DEF GivenAll

\* A page of a walk that goes on, from within what it gave.
LEMMA PageGoesOn ==
  ASSUME Sources!Assumption, WalkInv, outcome = "walking", NEW entries \in Nat, NEW next \in Nat,
         cursor.at < next, next <= cursor.at + entries, cursor.at + entries <= Len(Listing),
         Sources!IsCapped => next < Cap, Sources!Give(entries), UNCHANGED <<source, counts, from>>,
         outcome' = "walking", cursor' \in Cursors, cursor'.at = next
  PROVE  WalkInv'
<1>1. from \in Nat /\ cursor.at \in Nat /\ from <= cursor.at /\ Len(Listing) \in Nat
  BY LenProperties DEF WalkInv, OnItsWay, Cursors, Sources!Assumption
<1>2. GivenAll(from + 1, cursor.at + entries, source, found')
  BY PageGiven
<1>3. GivenAll(from + 1, next, source, found')
  BY <1>1, <1>2 DEF GivenAll
<1>4. OnItsWay'
  BY <1>1 DEF OnItsWay, Sources!IsCapped
<1>5. Sources!WalkIsWhole'
  BY <1>3, Whole
<1>6. QED
  BY <1>1, <1>4, <1>5 DEF WalkInv, Outcomes

\* A page that ends a walk.
LEMMA PageEnds ==
  ASSUME Sources!Assumption, WalkInv, outcome = "walking", NEW entries \in Nat,
         cursor.at + entries >= Len(Listing) \/ Sources!StoppedOnBlanks,
         Sources!Give(entries), UNCHANGED <<source, counts, from, cursor>>, outcome' = "ended"
  PROVE  WalkInv'
<1>1. from \in Nat /\ cursor.at \in Nat /\ Len(Listing) \in Nat
  BY LenProperties DEF WalkInv, Cursors, Sources!Assumption
<1>2. GivenAll(from + 1, cursor.at + entries, source, found')
  BY PageGiven
<1>3. GivenAll(from + 1, cursor.at, source, found')
  BY <1>1, <1>2 DEF GivenAll
<1>4. GivenAll(from + 1, Len(Listing), source, found') \/ Sources!StoppedOnBlanks'
  <2>1. CASE cursor.at + entries >= Len(Listing)
    BY <1>1, <1>2, <2>1 DEF GivenAll
  <2>2. CASE Sources!StoppedOnBlanks
    BY <2>2 DEF Sources!StoppedOnBlanks
  <2>3. QED
    BY <2>1, <2>2
<1>5. Sources!WalkIsWhole'
  BY <1>3, <1>4, Whole
<1>6. QED
  BY <1>5 DEF WalkInv, Outcomes

LEMMA PagesKeep ==
  ASSUME Sources!Assumption, WalkInv, Sources!Pages
  PROVE  WalkInv'
<1> USE DEF WalkInv
<1>1. /\ PageSize \in Nat \ {0} /\ Cap \in Nat \ {0} /\ cursor.at \in Nat /\ from \in Nat
      /\ Len(Listing) \in Nat
  BY LenProperties DEF Sources!Assumption, Cursors
<1>2. CASE Sources!FetchOffsetPage
  <2>1. /\ source = "arxiv" /\ outcome = "walking" /\ UNCHANGED <<source, counts, from>>
    BY <1>2 DEF Sources!FetchOffsetPage
  <2>2. PICK entries \in Sources!Min({1, Sources!Available(PageSize)})..Sources!Available(PageSize) :
          Sources!OffsetPage(entries) /\ Sources!Give(entries)
    BY <1>2 DEF Sources!FetchOffsetPage
  <2>3. /\ entries \in Nat
        /\ entries > 0 => cursor.at + entries <= Len(Listing)
        /\ entries = 0 => Len(Listing) <= cursor.at
    BY <1>1, PageOf
  <2>4. CASE entries = 0
    BY <1>1, <2>1, <2>2, <2>3, <2>4, PageEnds DEF Sources!OffsetPage
  <2>5. CASE entries # 0
    <3>1. outcome' = "walking" /\ cursor' \in Cursors /\ cursor'.at = cursor.at + entries
      BY <1>1, <2>2, <2>3, <2>5 DEF Sources!OffsetPage, Sources!DecimalCursor, Cursors
    <3>2. ~Sources!IsCapped /\ cursor.at + entries \in Nat
          /\ cursor.at < cursor.at + entries /\ cursor.at + entries <= Len(Listing)
      BY <1>1, <2>1, <2>3, <2>5 DEF Sources!IsCapped
    <3>3. QED
      BY <1>1, <2>1, <2>2, <2>3, <3>1, <3>2, PageGoesOn
  <2>6. QED
    BY <2>4, <2>5
<1>3. CASE Sources!FetchCappedPage
  <2> DEFINE limit == Sources!Min({PageSize, Cap - cursor.at})
  <2>1. /\ Sources!IsCapped /\ outcome = "walking" /\ cursor.at < Cap /\ UNCHANGED <<source, counts, from>>
    BY <1>3 DEF Sources!FetchCappedPage
  <2>2. PICK entries \in Sources!Min({1, Sources!Available(limit)})..Sources!Available(limit) :
          Sources!CappedPage(entries) /\ Sources!Give(entries)
    BY <1>3 DEF Sources!FetchCappedPage
  <2>3. limit = Min({PageSize, Cap - cursor.at})
    BY SourcesNames
  <2>4. limit = IF PageSize <= Cap - cursor.at THEN PageSize ELSE Cap - cursor.at
    <3>1. PageSize \in Int /\ Cap - cursor.at \in Int
      BY <1>1
    <3>2. QED
      BY <2>3, <3>1, MaxOfTwo
  <2> HIDE DEF limit
  <2>5. limit \in Nat \ {0} /\ cursor.at + limit <= Cap
    BY <1>1, <2>1, <2>4
  <2>6. /\ entries \in Nat /\ entries <= limit
        /\ entries > 0 => cursor.at + entries <= Len(Listing)
        /\ entries = 0 => Len(Listing) <= cursor.at
    BY <1>1, <2>5, PageOf
  <2> DEFINE counted == Sources!Counted(Sources!Positions(entries))
  <2>7. /\ counted \in Nat /\ counted <= entries
        /\ counted = 0 /\ entries > 0 => source = "pubmed" /\ Listing[cursor.at + 1].id = 0
    BY <2>6, CountedOf
  <2>8. \/ /\ counted = 0 \/ (counts /\ cursor.at + counted >= Len(Listing))
           /\ outcome' = "ended" /\ UNCHANGED cursor
        \/ /\ counted # 0 /\ ~(counts /\ cursor.at + counted >= Len(Listing)) /\ cursor.at + counted >= Cap
           /\ outcome' = "truncated" /\ UNCHANGED cursor
        \/ /\ counted # 0 /\ ~(cursor.at + counted >= Cap)
           /\ outcome' = "walking" /\ cursor' = Sources!DecimalCursor(cursor.at + counted)
    BY <2>2 DEF Sources!CappedPage
  <2> HIDE DEF counted
  <2>9. CASE /\ counted = 0 \/ (counts /\ cursor.at + counted >= Len(Listing))
             /\ outcome' = "ended" /\ UNCHANGED cursor
    <3>1. cursor.at + entries >= Len(Listing) \/ Sources!StoppedOnBlanks
      <4>1. CASE entries = 0 \/ (counts /\ cursor.at + counted >= Len(Listing))
        BY <1>1, <2>6, <2>7, <4>1
      <4>2. CASE entries > 0 /\ counted = 0
        <5>1. cursor.at < Len(Listing)
          BY <1>1, <2>6, <4>2
        <5>2. QED
          BY <2>7, <4>2, <5>1 DEF Sources!StoppedOnBlanks
      <4>3. QED
        BY <2>6, <2>9, <4>1, <4>2
    <3>2. QED
      BY <2>1, <2>2, <2>6, <2>9, <3>1, PageEnds
  <2>10. CASE /\ counted # 0 /\ ~(counts /\ cursor.at + counted >= Len(Listing)) /\ cursor.at + counted >= Cap
              /\ outcome' = "truncated" /\ UNCHANGED cursor
    <3>1. Cap <= cursor.at + entries /\ (counts => Len(Listing) > Cap)
      BY <1>1, <2>6, <2>7, <2>10
    <3>2. GivenAll(from + 1, cursor.at + entries, source, found')
      BY <2>1, <2>2, <2>6, PageGiven
    <3>3. GivenAll(from + 1, Cap, source, found')
      BY <1>1, <2>6, <3>1, <3>2 DEF GivenAll
    <3>4. Sources!WalkIsWhole'
      BY <2>1, <2>10, <3>1, <3>3, Whole
    <3>5. QED
      BY <2>1, <2>10, <3>4 DEF Outcomes
  <2>11. CASE /\ counted # 0 /\ ~(cursor.at + counted >= Cap)
              /\ outcome' = "walking" /\ cursor' = Sources!DecimalCursor(cursor.at + counted)
    <3> DEFINE next == cursor.at + counted
    <3>1. next \in Nat /\ cursor' \in Cursors /\ cursor'.at = next
      BY <1>1, <2>7, <2>11 DEF Sources!DecimalCursor, Cursors
    <3>2. cursor.at < next /\ next <= cursor.at + entries /\ cursor.at + entries <= Len(Listing) /\ next < Cap
      BY <1>1, <2>6, <2>7, <2>11
    <3> HIDE DEF next
    <3>3. QED
      BY <2>1, <2>2, <2>6, <2>11, <3>1, <3>2, PageGoesOn
  <2>12. QED
    BY <2>8, <2>9, <2>10, <2>11
<1>4. CASE Sources!PastTheCap
  <2>1. /\ Sources!IsCapped /\ outcome = "walking" /\ cursor.at >= Cap /\ outcome' = "truncated"
        /\ UNCHANGED <<source, counts, cursor, from, found>>
    BY <1>4 DEF Sources!PastTheCap
  <2>2. from >= Cap
    BY <1>1, <2>1 DEF OnItsWay
  <2>3. GivenAll(from + 1, Cap, source, found) /\ ~(from < Cap)
    BY <1>1, <2>2 DEF GivenAll
  <2>4. Sources!WalkIsWhole'
    BY <2>1, <2>3, Whole
  <2>5. QED
    BY <2>1, <2>4 DEF Outcomes
<1>5. CASE Sources!FetchCursorPage
  <2>1. /\ source = "openalex" /\ outcome = "walking" /\ UNCHANGED <<source, counts, from>>
    BY <1>5 DEF Sources!FetchCursorPage
  <2>2. PICK entries \in Sources!Min({1, Sources!Available(PageSize)})..Sources!Available(PageSize) :
          /\ Sources!Give(entries)
          /\ \/ cursor.at + entries >= Len(Listing) /\ outcome' = "ended" /\ UNCHANGED <<cursor, issued>>
             \/ /\ entries > 0 /\ cursor' = Sources!OpaqueCursor(cursor.at + entries) /\ issued' = expiries
                /\ outcome' = "walking"
    BY <1>5 DEF Sources!FetchCursorPage
  <2>3. /\ entries \in Nat
        /\ entries > 0 => cursor.at + entries <= Len(Listing)
        /\ entries = 0 => Len(Listing) <= cursor.at
    BY <1>1, PageOf
  <2>4. CASE cursor.at + entries >= Len(Listing) /\ outcome' = "ended" /\ UNCHANGED <<cursor, issued>>
    BY <2>1, <2>2, <2>3, <2>4, PageEnds
  <2>5. CASE entries > 0 /\ cursor' = Sources!OpaqueCursor(cursor.at + entries) /\ outcome' = "walking"
    <3>1. cursor' \in Cursors /\ cursor'.at = cursor.at + entries
      BY <1>1, <2>3, <2>5 DEF Sources!OpaqueCursor, Cursors
    <3>2. ~Sources!IsCapped /\ cursor.at + entries \in Nat
          /\ cursor.at < cursor.at + entries /\ cursor.at + entries <= Len(Listing)
      BY <1>1, <2>1, <2>3, <2>5 DEF Sources!IsCapped
    <3>3. QED
      BY <2>1, <2>2, <2>3, <2>5, <3>1, <3>2, PageGoesOn
  <2>6. QED
    BY <2>2, <2>4, <2>5
<1>6. CASE Sources!StartOver
  <2>1. /\ cursor' = Sources!NoCursor /\ from' = 0 /\ outcome = "walking" /\ outcome' = "walking"
    BY <1>6 DEF Sources!StartOver
  <2>2. cursor' \in Cursors /\ cursor'.at = 0
    BY <2>1 DEF Sources!NoCursor, Cursors
  <2>3. OnItsWay'
    BY <2>1, <2>2 DEF OnItsWay
  <2>4. GivenAll(from' + 1, cursor'.at, source', found')
    BY <2>1, <2>2 DEF GivenAll
  <2>5. Sources!WalkIsWhole'
    BY <2>1, <2>4, Whole
  <2>6. QED
    BY <2>1, <2>2, <2>3, <2>5 DEF Outcomes
<1>7. QED
  BY <1>2, <1>3, <1>4, <1>5, <1>6 DEF Sources!Pages

\* A record is read by its abstract only if nothing failed and nothing has a text.
LEMMA ReadKeeps == ASSUME TextInv, Sources!Read PROVE TextInv'
<1>1. /\ documents \in [Sources!DocumentsOf -> Sources!DocumentKinds] /\ UNCHANGED <<documents, source>>
  BY DEF TextInv, Sources!Read, Sources!walkVars
<1>2. "abstract" \notin DOMAIN documents
  BY <1>1 DEF Sources!DocumentsOf
<1>3. PICK failing \in SUBSET DOMAIN documents :
        settled' = Sources!FullText([d \in DOMAIN documents |-> IF d \in failing THEN "fault" ELSE documents[d]])
  BY DEF Sources!Read
<1> DEFINE answers == [d \in DOMAIN documents |-> IF d \in failing THEN "fault" ELSE documents[d]]
<1>4. ASSUME settled' = "abstract" PROVE \A d \in DOMAIN documents : documents[d] # "text"
  <2>1. ASSUME \E d \in DOMAIN answers : answers[d] = "text" PROVE FALSE
    <3>1. CASE "latex" \in DOMAIN answers /\ answers["latex"] = "text"
      BY <1>3, <1>4, <2>1, <3>1 DEF Sources!FullText
    <3>2. CASE ~("latex" \in DOMAIN answers /\ answers["latex"] = "text")
      <4>1. \E d \in DOMAIN answers \ {"latex"} : answers[d] = "text"
        BY <2>1, <3>2
      <4>2. (CHOOSE d \in DOMAIN answers \ {"latex"} : answers[d] = "text") \in DOMAIN documents
        BY <4>1
      <4>3. settled' = CHOOSE d \in DOMAIN answers \ {"latex"} : answers[d] = "text"
        BY <1>3, <2>1, <3>2 DEF Sources!FullText
      <4>4. QED
        BY <1>2, <1>4, <4>2, <4>3
    <3>3. QED
      BY <3>1, <3>2
  <2>2. "fault" \notin Sources!Range(answers)
    BY <1>3, <1>4, <2>1 DEF Sources!FullText
  <2>3. \A d \in DOMAIN documents : answers[d] # "fault"
    BY <2>2, SourcesNames
  <2>4. \A d \in DOMAIN documents : answers[d] = documents[d]
    BY <2>3
  <2>5. QED
    BY <2>1, <2>4
<1>5. QED
  BY <1>1, <1>4 DEF TextInv, Sources!AbstractIsLastResort, Sources!DocumentsOf

LEMMA SourcesInit == Sources!Assumption /\ Sources!Init => SourcesInv
<1> SUFFICES ASSUME Sources!Assumption, Sources!Init PROVE SourcesInv
  OBVIOUS
<1>1. cursor \in Cursors /\ outcome = "walking" /\ from = cursor.at /\ from \in Nat
  BY DEF Sources!Init, Sources!Assumption, Cursors
<1>2. GivenAll(from + 1, cursor.at, source, found)
  BY <1>1 DEF GivenAll
<1>3. Sources!WalkIsWhole
  BY <1>1, <1>2, Whole
<1>4. WalkInv
  BY <1>1, <1>3 DEF WalkInv, OnItsWay, Outcomes
<1>5. TextInv
  BY DEF TextInv, Sources!Init, Sources!AbstractIsLastResort
<1>6. QED
  BY <1>4, <1>5 DEF SourcesInv

LEMMA SourcesStep ==
  Sources!Assumption /\ SourcesInv /\ [Sources!Next]_Sources!extractorVars => SourcesInv'
<1> SUFFICES ASSUME Sources!Assumption, SourcesInv, [Sources!Next]_Sources!extractorVars PROVE SourcesInv'
  OBVIOUS
<1>1. ASSUME UNCHANGED <<source, counts, cursor, outcome, from, found>>, WalkInv PROVE WalkInv'
  BY <1>1, Whole DEF WalkInv, OnItsWay, Sources!StoppedOnBlanks, Sources!IsCapped
<1>2. ASSUME UNCHANGED <<source, documents, settled>>, TextInv PROVE TextInv'
  BY <1>2 DEF TextInv, Sources!AbstractIsLastResort, Sources!DocumentsOf
<1>3. WalkInv /\ TextInv
  BY DEF SourcesInv
<1>4. CASE Sources!Pages
  <2>1. UNCHANGED <<source, documents, settled>>
    BY <1>4 DEF Sources!Pages, Sources!FetchOffsetPage, Sources!FetchCappedPage, Sources!PastTheCap,
                Sources!FetchCursorPage, Sources!StartOver, Sources!textVars
  <2>2. QED
    BY <1>2, <1>3, <1>4, <2>1, PagesKeep DEF SourcesInv
<1>5. CASE Sources!Read
  <2>1. UNCHANGED <<source, counts, cursor, outcome, from, found>>
    BY <1>5 DEF Sources!Read, Sources!walkVars
  <2>2. QED
    BY <1>1, <1>3, <1>5, <2>1, ReadKeeps DEF SourcesInv
<1>6. CASE Sources!Expire \/ UNCHANGED Sources!extractorVars
  <2>1. UNCHANGED <<source, counts, cursor, outcome, from, found, documents, settled>>
    BY <1>6 DEF Sources!Expire, Sources!extractorVars, Sources!walkVars, Sources!textVars
  <2>2. QED
    BY <1>1, <1>2, <1>3, <2>1 DEF SourcesInv
<1>7. QED
  BY <1>4, <1>5, <1>6 DEF Sources!Next

SourcesInvOf == part = "sources" => SourcesInv

LEMMA StepsOfSources ==
  [Next]_vars => part' = part /\ (part = "sources" => [Sources!Next]_Sources!extractorVars)
<1> SUFFICES ASSUME [Next]_vars
             PROVE  part' = part /\ (part = "sources" => [Sources!Next]_Sources!extractorVars)
  OBVIOUS
<1>1. part' = part
  BY DEF Next, vars, InUpstream, InBridge, InAnswers, InSources
<1>2. ASSUME part = "sources" PROVE Sources!Next \/ UNCHANGED Sources!extractorVars
  BY <1>2 DEF Next, vars, sourceVars, Sources!extractorVars, Sources!walkVars, Sources!textVars,
              InUpstream, InBridge, InAnswers, InSources
<1>3. QED
  BY <1>1, <1>2

\* The inductive invariant of the listings: a walk was given every paper with an id
\* up to its cursor, however little of a page its source counts, and the cursor of a
\* walk under way stays within the listing and below the cap (extractors/).
THEOREM SourcesInvHolds == Spec => []SourcesInvOf
<1>1. Init => SourcesInvOf
  BY SourcesAssumption, SourcesInit DEF Init, SourcesInvOf
<1>2. SourcesInvOf /\ [Next]_vars => SourcesInvOf'
  BY SourcesAssumption, StepsOfSources, SourcesStep DEF SourcesInvOf
<1>3. QED
  BY <1>1, <1>2, PTL DEF Spec

\* For any listing, page size and cap, and whatever cursor an earlier run has saved, a
\* walk passes over no paper with an id; one that ended was given them to the end of
\* the listing unless PubMed stopped on blank ids, a truncated one as far as the source
\* serves; and the abstract stands in only for documents without a text (extractors/).
THEOREM ListingsAlwaysWalkedWhole == Spec => []ListingsWalkedWhole
<1>1. SourcesInvOf => ListingsWalkedWhole
  BY DEF SourcesInvOf, SourcesInv, WalkInv, TextInv, ListingsWalkedWhole
<1>2. QED
  BY <1>1, SourcesInvHolds, PTL

-----------------------------------------------------------------------------
(* Guards of the shutdown signal.                                          *)

Doing == {"free", "installing", "submitting", "waiting", "uninstalling"}
InGuard(t) == blocks[t] # <<>> \/ pc[t] = "uninstalling"

\* While the guards of two threads have not overlapped, one thread's blocks are
\* those that are counted, and its first one is the outermost.
BridgeTyped == pc \in [Threads -> Doing] /\ blocks \in [Threads -> Seq(BOOLEAN)]
OneGuards ==
  /\ \A t, u \in Threads : InGuard(t) /\ InGuard(u) => t = u
  /\ \A t \in Threads :
       /\ blocks[t] # <<>> => depth = Len(blocks[t])
       /\ \A i \in DOMAIN blocks[t] : blocks[t][i] = (i = 1)
       /\ pc[t] = "installing" => blocks[t] # <<>>
       /\ pc[t] = "uninstalling" => blocks[t] = <<>>
  /\ (\A t \in Threads : blocks[t] = <<>>) => depth = 0

\* Ours is in force with the host's captured, within the main thread's guard, or
\* the host's with none captured.
Hearing == InGuard(Main) /\ pc[Main] # "installing"
Handlers ==
  /\ (handler = "ours" /\ previous = "host") \/ (handler = "host" /\ previous = "none")
  /\ handler = "ours" => Hearing
  /\ Hearing /\ ~escalated => handler = "ours"

BridgeInv == BridgeTyped /\ (~mixed => OneGuards /\ Handlers)

\* A thread that enters a block, and one that leaves its last.
LEMMA Entered ==
  ASSUME NEW q \in Seq(BOOLEAN), NEW x \in BOOLEAN
  PROVE  /\ Append(q, x) \in Seq(BOOLEAN) /\ Append(q, x) # <<>> /\ Len(Append(q, x)) = Len(q) + 1
         /\ Len(q) \in Nat /\ (q = <<>> <=> Len(q) = 0)
         /\ (\A i \in DOMAIN q : q[i] = (i = 1)) /\ x = (Len(q) = 0)
              => \A i \in DOMAIN Append(q, x) : Append(q, x)[i] = (i = 1)
<1> DEFINE n == Len(q)
           t == Append(q, x)
<1>1. n \in Nat /\ DOMAIN q = 1..n /\ (q = <<>> <=> n = 0)
  BY LenProperties, EmptySeq
<1>2. /\ t \in Seq(BOOLEAN) /\ Len(t) = n + 1 /\ DOMAIN t = 1..(n + 1)
      /\ \A i \in 1..n : t[i] = q[i]
      /\ t[n + 1] = x
  BY <1>1, AppendProperties, LenProperties
<1> HIDE DEF t
<1>3. t # <<>>
  BY <1>1, <1>2, EmptySeq
<1>4. ASSUME \A i \in DOMAIN q : q[i] = (i = 1), x = (n = 0), NEW i \in DOMAIN t
      PROVE  t[i] = (i = 1)
  <2>1. i \in 1..n \/ i = n + 1
    BY <1>1, <1>2
  <2>2. CASE i \in 1..n
    <3>1. t[i] = q[i] /\ q[i] = (i = 1)
      BY <1>1, <1>2, <1>4, <2>2
    <3>2. QED
      BY <3>1
  <2>3. CASE i = n + 1
    <3>1. (n = 0) = (i = 1)
      BY <1>1, <2>3
    <3>2. QED
      BY <1>2, <1>4, <2>3, <3>1
  <2>4. QED
    BY <2>1, <2>2, <2>3
<1>5. QED
  BY <1>1, <1>2, <1>3, <1>4 DEF t

LEMMA Left ==
  ASSUME NEW q \in Seq(BOOLEAN), q # <<>>
  PROVE  /\ Bridge!Front(q) \in Seq(BOOLEAN) /\ Len(q) \in Nat \ {0}
         /\ Bridge!Front(q) = <<>> <=> Len(q) = 1
         /\ Len(Bridge!Front(q)) = Len(q) - 1
         /\ Len(q) \in DOMAIN q /\ Bridge!Last(q) = q[Len(q)]
         /\ (\A i \in DOMAIN q : q[i] = (i = 1))
              => \A i \in DOMAIN Bridge!Front(q) : Bridge!Front(q)[i] = (i = 1)
<1> DEFINE n == Len(q)
           t == SubSeq(q, 1, n - 1)
<1>1. n \in Nat /\ DOMAIN q = 1..n /\ n # 0
  BY LenProperties, EmptySeq
<1>2. Bridge!Front(q) = t /\ Bridge!Last(q) = q[n]
  BY DEF Bridge!Front, Bridge!Last
<1>3. /\ t \in Seq(BOOLEAN) /\ Len(t) = n - 1 /\ \A i \in 1..(n - 1) : t[i] = q[i]
  BY <1>1, SubSeqProperties, ElementOfSeq
<1> HIDE DEF t
<1>4. DOMAIN t = 1..(n - 1) /\ (t = <<>> <=> n - 1 = 0)
  BY <1>3, LenProperties, EmptySeq
<1>5. ASSUME \A i \in DOMAIN q : q[i] = (i = 1), NEW i \in DOMAIN t PROVE t[i] = (i = 1)
  <2>1. i \in DOMAIN q /\ t[i] = q[i]
    BY <1>1, <1>3, <1>4
  <2>2. QED
    BY <1>5, <2>1
<1>6. n = 1 <=> n - 1 = 0
  BY <1>1
<1>7. n \in DOMAIN q
  BY <1>1
<1>8. QED
  BY <1>1, <1>2, <1>3, <1>4, <1>5, <1>6, <1>7

\* Steps in which no thread begins or ends a guard and no handler changes.
LEMMA BridgeQuiet ==
  ASSUME BridgeInv, UNCHANGED <<blocks, depth, handler, previous, mixed, escalated>>,
         pc' \in [Threads -> Doing], Main \in Threads,
         \A t \in Threads : pc'[t] = pc[t] \/ (pc[t] \notin {"installing", "uninstalling"} /\
                                                pc'[t] \notin {"installing", "uninstalling"})
  PROVE  BridgeInv'
<1>1. \A t \in Threads : /\ InGuard(t)' <=> InGuard(t)
                         /\ pc'[t] = "installing" <=> pc[t] = "installing"
                         /\ pc'[t] = "uninstalling" <=> pc[t] = "uninstalling"
  BY DEF InGuard
<1>2. Hearing' <=> Hearing
  BY <1>1 DEF Hearing
<1>3. ASSUME ~mixed PROVE OneGuards' /\ Handlers'
  <2>1. OneGuards /\ Handlers
    BY <1>3 DEF BridgeInv
  <2>2. OneGuards'
    BY <1>1, <2>1 DEF OneGuards
  <2>3. Handlers'
    BY <1>2, <2>1 DEF Handlers
  <2>4. QED
    BY <2>2, <2>3
<1>4. BridgeTyped'
  BY DEF BridgeInv, BridgeTyped
<1>5. QED
  BY <1>3, <1>4 DEF BridgeInv

LEMMA BridgeInit == Bridge!Assumption /\ Bridge!Init => BridgeInv
<1> SUFFICES ASSUME Bridge!Assumption, Bridge!Init PROVE BridgeInv
  OBVIOUS
<1>1. /\ pc = [t \in Threads |-> "free"] /\ blocks = [t \in Threads |-> <<>>] /\ depth = 0
      /\ handler = "host" /\ previous = "none" /\ Main \in Threads
  BY DEF Bridge!Init, Bridge!Assumption
<1>2. BridgeTyped
  <2>1. <<>> \in Seq(BOOLEAN)
    BY EmptySeq
  <2>2. QED
    BY <1>1, <2>1 DEF BridgeTyped, Doing
<1>3. \A t \in Threads : ~InGuard(t)
  BY <1>1 DEF InGuard
<1>4. OneGuards
  BY <1>1, <1>3 DEF OneGuards
<1>5. Handlers
  BY <1>1, <1>3 DEF Handlers, Hearing
<1>6. QED
  BY <1>2, <1>4, <1>5 DEF BridgeInv

LEMMA EnterKeeps ==
  ASSUME Bridge!Assumption, BridgeInv, NEW t \in Threads, Bridge!Enter(t)
  PROVE  BridgeInv'
<1> DEFINE q == blocks[t]
           x == depth = 0
<1>1. /\ pc[t] = "free" /\ blocks' = [blocks EXCEPT ![t] = Append(q, x)] /\ depth' = depth + 1
      /\ pc' = IF x THEN [pc EXCEPT ![t] = "installing"] ELSE pc
      /\ UNCHANGED <<handler, previous, escalated>>
  BY DEF Bridge!Enter, Bridge!IsOutermost, Bridge!Goto
<1>2. /\ Main \in Threads /\ pc \in [Threads -> Doing] /\ blocks \in [Threads -> Seq(BOOLEAN)]
      /\ q \in Seq(BOOLEAN) /\ x \in BOOLEAN
  BY DEF BridgeInv, BridgeTyped, Bridge!Assumption
<1>3. /\ Append(q, x) \in Seq(BOOLEAN) /\ Append(q, x) # <<>> /\ Len(Append(q, x)) = Len(q) + 1
      /\ Len(q) \in Nat /\ (q = <<>> <=> Len(q) = 0)
      /\ (\A i \in DOMAIN q : q[i] = (i = 1)) /\ x = (Len(q) = 0)
           => \A i \in DOMAIN Append(q, x) : Append(q, x)[i] = (i = 1)
  BY <1>2, Entered
<1>4. /\ blocks' \in [Threads -> Seq(BOOLEAN)] /\ blocks'[t] = Append(q, x)
      /\ \A u \in Threads : u # t => blocks'[u] = blocks[u]
  BY <1>1, <1>2, <1>3
<1>5. /\ pc' \in [Threads -> Doing] /\ pc'[t] = IF x THEN "installing" ELSE "free"
      /\ \A u \in Threads : u # t => pc'[u] = pc[u]
  <2>1. CASE x
    BY <1>1, <1>2, <2>1 DEF Doing
  <2>2. CASE ~x
    BY <1>1, <1>2, <2>2
  <2>3. QED
    BY <2>1, <2>2
<1>6. ASSUME ~mixed' PROVE OneGuards' /\ Handlers'
  <2>1. ~mixed /\ ~\E u \in Threads \ {t} : blocks[u] # <<>> \/ pc[u] = "uninstalling"
    BY <1>6 DEF Bridge!Enter
  <2>2. OneGuards /\ Handlers
    BY <2>1 DEF BridgeInv
  <2>3. \A u \in Threads : u # t => blocks[u] = <<>> /\ pc[u] # "uninstalling" /\ pc[u] # "installing"
    BY <2>1, <2>2 DEF OneGuards
  <2>4. x <=> Len(q) = 0
    <3>1. CASE q = <<>>
      <4>1. depth = 0
        BY <2>2, <2>3, <3>1 DEF OneGuards
      <4>2. QED
        BY <1>3, <3>1, <4>1
    <3>2. CASE q # <<>>
      <4>1. depth = Len(q)
        BY <2>2, <3>2 DEF OneGuards
      <4>2. QED
        BY <1>3, <4>1
    <3>3. QED
      BY <3>1, <3>2
  <2>5. depth = Len(q)
    BY <1>3, <2>2, <2>4 DEF OneGuards
  <2>6. \A i \in DOMAIN blocks'[t] : blocks'[t][i] = (i = 1)
    <3>1. x = (Len(q) = 0)
      BY <2>4
    <3>2. \A i \in DOMAIN q : q[i] = (i = 1)
      BY <2>2 DEF OneGuards
    <3>3. QED
      BY <1>3, <1>4, <3>1, <3>2
  <2>7. OneGuards'
    <3> SUFFICES /\ \A u, v \in Threads : InGuard(u)' /\ InGuard(v)' => u = v
                 /\ \A u \in Threads :
                      /\ blocks'[u] # <<>> => depth' = Len(blocks'[u])
                      /\ \A i \in DOMAIN blocks'[u] : blocks'[u][i] = (i = 1)
                      /\ pc'[u] = "installing" => blocks'[u] # <<>>
                      /\ pc'[u] = "uninstalling" => blocks'[u] = <<>>
                 /\ (\A u \in Threads : blocks'[u] = <<>>) => depth' = 0
      BY DEF OneGuards
    <3>1. \A u \in Threads : u # t => blocks'[u] = <<>> /\ pc'[u] # "uninstalling" /\ pc'[u] # "installing"
      BY <1>4, <1>5, <2>3
    <3>2. \A u \in Threads : InGuard(u)' => u = t
      BY <3>1 DEF InGuard
    <3>3. /\ blocks'[t] # <<>> /\ depth' = Len(blocks'[t]) /\ pc'[t] # "uninstalling"
      BY <1>1, <1>3, <1>4, <1>5, <2>5
    <3>4. \A u \in Threads : u # t => DOMAIN blocks'[u] = {}
      BY <3>1
    <3>5. QED
      BY <2>6, <3>1, <3>2, <3>3, <3>4
  <2>8. Handlers'
    <3>1. CASE t = Main
      <4>1. CASE x
        <5>1. pc'[Main] = "installing"
          BY <1>5, <3>1, <4>1
        <5>2. ~InGuard(Main)
          BY <1>1, <1>3, <2>4, <3>1, <4>1 DEF InGuard
        <5>3. QED
          BY <1>1, <2>2, <5>1, <5>2 DEF Handlers, Hearing
      <4>2. CASE ~x
        <5>1. blocks[Main] # <<>> /\ pc[Main] = "free" /\ pc'[Main] = "free" /\ blocks'[Main] # <<>>
          BY <1>1, <1>3, <1>4, <1>5, <2>4, <3>1, <4>2
        <5>2. Hearing /\ Hearing'
          BY <5>1 DEF Hearing, InGuard
        <5>3. QED
          BY <1>1, <2>2, <5>2 DEF Handlers
      <4>3. QED
        BY <4>1, <4>2
    <3>2. CASE t # Main
      <4>1. Hearing' <=> Hearing
        BY <1>2, <1>4, <1>5, <3>2 DEF Hearing, InGuard
      <4>2. QED
        BY <1>1, <2>2, <4>1 DEF Handlers
    <3>3. QED
      BY <3>1, <3>2
  <2>9. QED
    BY <2>7, <2>8
<1>7. QED
  BY <1>4, <1>5, <1>6 DEF BridgeInv, BridgeTyped

LEMMA LeaveKeeps ==
  ASSUME Bridge!Assumption, BridgeInv, NEW t \in Threads, Bridge!Leave(t)
  PROVE  BridgeInv'
<1> DEFINE q == blocks[t]
           f == Bridge!Front(q)
<1>1. /\ pc[t] = "free" /\ q # <<>> /\ blocks' = [blocks EXCEPT ![t] = f] /\ depth' = depth - 1
      /\ pc' = IF Bridge!Last(q) THEN [pc EXCEPT ![t] = "uninstalling"] ELSE pc
      /\ UNCHANGED <<handler, previous, mixed, escalated>>
  BY DEF Bridge!Leave, Bridge!Goto
<1>2. /\ Main \in Threads /\ pc \in [Threads -> Doing] /\ blocks \in [Threads -> Seq(BOOLEAN)]
      /\ q \in Seq(BOOLEAN)
  BY DEF BridgeInv, BridgeTyped, Bridge!Assumption
<1>3. /\ f \in Seq(BOOLEAN) /\ Len(q) \in Nat \ {0} /\ (f = <<>> <=> Len(q) = 1)
      /\ Len(f) = Len(q) - 1 /\ Len(q) \in DOMAIN q /\ Bridge!Last(q) = q[Len(q)]
      /\ (\A i \in DOMAIN q : q[i] = (i = 1)) => \A i \in DOMAIN f : f[i] = (i = 1)
  BY <1>1, <1>2, Left
<1> HIDE DEF f
<1>4. /\ blocks' \in [Threads -> Seq(BOOLEAN)] /\ blocks'[t] = f
      /\ \A u \in Threads : u # t => blocks'[u] = blocks[u]
  BY <1>1, <1>2, <1>3
<1>5. /\ pc' \in [Threads -> Doing] /\ pc'[t] = IF Bridge!Last(q) THEN "uninstalling" ELSE "free"
      /\ \A u \in Threads : u # t => pc'[u] = pc[u]
  <2>1. CASE Bridge!Last(q)
    BY <1>1, <1>2, <2>1 DEF Doing
  <2>2. CASE ~Bridge!Last(q)
    BY <1>1, <1>2, <2>2
  <2>3. QED
    BY <2>1, <2>2
<1>6. ASSUME ~mixed' PROVE OneGuards' /\ Handlers'
  <2>1. OneGuards /\ Handlers
    BY <1>1, <1>6 DEF BridgeInv
  <2>2. \A i \in DOMAIN q : q[i] = (i = 1)
    BY <2>1 DEF OneGuards
  <2>3. Bridge!Last(q) <=> Len(q) = 1
    BY <1>3, <2>2
  <2>4. pc'[t] = IF f = <<>> THEN "uninstalling" ELSE "free"
    BY <1>3, <1>5, <2>3
  <2>5. depth = Len(q) /\ depth' = Len(f)
    BY <1>1, <1>3, <2>1 DEF OneGuards
  <2>6. \A u \in Threads : u # t => ~InGuard(u) /\ ~InGuard(u)' /\ pc'[u] # "installing"
    <3>1. InGuard(t)
      BY <1>1 DEF InGuard
    <3>2. \A u \in Threads : u # t => ~InGuard(u)
      BY <2>1, <3>1 DEF OneGuards
    <3>3. \A u \in Threads : u # t => ~InGuard(u)'
      BY <1>4, <1>5, <3>2 DEF InGuard
    <3>4. \A u \in Threads : u # t => pc'[u] # "installing"
      BY <1>5, <2>1, <3>2 DEF OneGuards, InGuard
    <3>5. QED
      BY <3>2, <3>3, <3>4
  <2>7. OneGuards'
    <3> SUFFICES /\ \A u, v \in Threads : InGuard(u)' /\ InGuard(v)' => u = v
                 /\ \A u \in Threads :
                      /\ blocks'[u] # <<>> => depth' = Len(blocks'[u])
                      /\ \A i \in DOMAIN blocks'[u] : blocks'[u][i] = (i = 1)
                      /\ pc'[u] = "installing" => blocks'[u] # <<>>
                      /\ pc'[u] = "uninstalling" => blocks'[u] = <<>>
                 /\ (\A u \in Threads : blocks'[u] = <<>>) => depth' = 0
      BY DEF OneGuards
    <3>1. \A u \in Threads : u # t => blocks'[u] = <<>> /\ pc'[u] # "uninstalling" /\ pc'[u] # "installing"
      BY <2>6 DEF InGuard
    <3>2. \A i \in DOMAIN blocks'[t] : blocks'[t][i] = (i = 1)
      BY <1>3, <1>4, <2>2
    <3>3. /\ depth' = Len(blocks'[t]) /\ pc'[t] # "installing"
          /\ pc'[t] = "uninstalling" => blocks'[t] = <<>>
      BY <1>4, <2>4, <2>5
    <3>4. f = <<>> => depth' = 0
      BY <2>5
    <3>5. \A u \in Threads : u # t => DOMAIN blocks'[u] = {}
      BY <3>1
    <3>6. QED
      BY <1>4, <2>6, <3>1, <3>2, <3>3, <3>4, <3>5
  <2>8. Handlers'
    <3>1. Hearing' <=> Hearing
      <4>1. CASE t = Main
        BY <1>1, <1>4, <2>4, <4>1 DEF Hearing, InGuard
      <4>2. CASE t # Main
        BY <1>2, <1>4, <1>5, <4>2 DEF Hearing, InGuard
      <4>3. QED
        BY <4>1, <4>2
    <3>2. QED
      BY <1>1, <2>1, <3>1 DEF Handlers
  <2>9. QED
    BY <2>7, <2>8
<1>7. QED
  BY <1>4, <1>5, <1>6 DEF BridgeInv, BridgeTyped

\* A guard that has been entered or left still counts for its thread, and only for it.
LEMMA InstallKeeps ==
  ASSUME Bridge!Assumption, BridgeInv, NEW t \in Threads, Bridge!Install(t) \/ Bridge!Uninstall(t)
  PROVE  BridgeInv'
<1>1. /\ pc[t] \in {"installing", "uninstalling"} /\ pc' = [pc EXCEPT ![t] = "free"]
      /\ UNCHANGED <<blocks, depth, mixed, escalated>>
      /\ Main \in Threads /\ pc \in [Threads -> Doing]
  BY DEF Bridge!Install, Bridge!Uninstall, Bridge!Idle, Bridge!Goto, BridgeInv, BridgeTyped,
         Bridge!Assumption
<1>2. /\ pc' \in [Threads -> Doing] /\ pc'[t] = "free"
      /\ \A u \in Threads : u # t => pc'[u] = pc[u]
  BY <1>1 DEF Doing
<1>3. ASSUME ~mixed PROVE OneGuards' /\ Handlers'
  <2>1. OneGuards /\ Handlers
    BY <1>3 DEF BridgeInv
  <2>2. InGuard(t) /\ \A u \in Threads : u # t => ~InGuard(u)
    BY <1>1, <2>1 DEF OneGuards, InGuard
  <2>3. \A u \in Threads : InGuard(u)' => InGuard(u)
    BY <1>1, <1>2 DEF InGuard
  <2>4. OneGuards'
    <3>1. \A u \in Threads : pc'[u] = pc[u] \/ pc'[u] = "free"
      BY <1>2
    <3>2. QED
      BY <1>1, <2>1, <2>3, <3>1 DEF OneGuards
  <2>5. CASE t # Main
    <3>1. ~Hearing /\ ~Hearing'
      BY <1>1, <2>2, <2>3, <2>5 DEF Hearing
    <3>2. handler = "host" /\ previous = "none"
      BY <2>1, <3>1 DEF Handlers
    <3>3. handler' = "host" /\ previous' = "none"
      BY <2>5, <3>2 DEF Bridge!Install, Bridge!Uninstall, Bridge!Uninstalled
    <3>4. QED
      BY <2>4, <3>1, <3>3 DEF Handlers
  <2>6. CASE t = Main /\ Bridge!Install(t)
    <3>1. pc[Main] = "installing" /\ ~Hearing
      BY <2>6 DEF Bridge!Install, Hearing
    <3>2. handler = "host" /\ previous = "none"
      BY <2>1, <3>1 DEF Handlers
    <3>3. handler' = "ours" /\ previous' = "host"
      BY <2>6, <3>2 DEF Bridge!Install
    <3>4. Hearing'
      BY <1>1, <1>2, <2>1, <2>6, <3>1 DEF OneGuards, Hearing, InGuard
    <3>5. QED
      BY <2>4, <3>3, <3>4 DEF Handlers
  <2>7. CASE t = Main /\ Bridge!Uninstall(t)
    <3>1. pc[Main] = "uninstalling"
      BY <2>7 DEF Bridge!Uninstall
    <3>2. ~Hearing'
      BY <1>1, <1>2, <2>1, <2>7, <3>1 DEF OneGuards, Hearing, InGuard
    <3>3. handler' = "host" /\ previous' = "none"
      BY <2>1, <2>7 DEF Bridge!Uninstall, Bridge!Uninstalled, Handlers
    <3>4. QED
      BY <2>4, <3>2, <3>3 DEF Handlers
  <2>8. QED
    BY <2>5, <2>6, <2>7
<1>4. QED
  BY <1>1, <1>2, <1>3 DEF BridgeInv, BridgeTyped

\* run_sync() and the loop do not touch the guards.
LEMMA CallKeeps ==
  ASSUME Bridge!Assumption, BridgeInv,
         \/ \E t \in Threads : \/ Bridge!GetLoop(t) \/ Bridge!Submit(t) \/ Bridge!Deadline(t)
                               \/ Bridge!Return(t) \/ Bridge!Completes(t)
         \/ \E l \in Bridge!Loops : Bridge!RunsSet(l) \/ Bridge!Stop(l) \/ Bridge!Close(l)
         \/ Bridge!Shutdown
  PROVE  BridgeInv'
<1>1. /\ Main \in Threads /\ pc \in [Threads -> Doing]
      /\ UNCHANGED <<blocks, depth, handler, previous, mixed, escalated>>
  BY DEF Bridge!GetLoop, Bridge!Submit, Bridge!Deadline, Bridge!Return, Bridge!Completes, Bridge!RunsSet,
         Bridge!Stop, Bridge!Close, Bridge!Shutdown, Bridge!signalVars, Bridge!callVars, BridgeInv,
         BridgeTyped, Bridge!Assumption
<1>2. \/ UNCHANGED pc
      \/ \E t \in Threads : \E label \in {"free", "submitting", "waiting"} :
           pc[t] \in {"free", "submitting", "waiting"} /\ pc' = [pc EXCEPT ![t] = label]
  <2>1. CASE \E l \in Bridge!Loops : Bridge!RunsSet(l) \/ Bridge!Stop(l) \/ Bridge!Close(l)
    BY <2>1 DEF Bridge!RunsSet, Bridge!Stop, Bridge!Close, Bridge!callVars
  <2>2. CASE Bridge!Shutdown
    BY <2>2 DEF Bridge!Shutdown, Bridge!callVars
  <2>3. ASSUME NEW t \in Threads,
               \/ Bridge!GetLoop(t) \/ Bridge!Submit(t) \/ Bridge!Deadline(t)
               \/ Bridge!Return(t) \/ Bridge!Completes(t)
        PROVE  \/ UNCHANGED pc
               \/ \E label \in {"free", "submitting", "waiting"} :
                    pc[t] \in {"free", "submitting", "waiting"} /\ pc' = [pc EXCEPT ![t] = label]
    BY <2>3 DEF Bridge!GetLoop, Bridge!Submit, Bridge!Deadline, Bridge!Return, Bridge!Completes,
                Bridge!Idle, Bridge!Goto
  <2>4. QED
    BY <2>1, <2>2, <2>3
<1>3. /\ pc' \in [Threads -> Doing]
      /\ \A t \in Threads : pc'[t] = pc[t] \/ (pc[t] \notin {"installing", "uninstalling"} /\
                                                pc'[t] \notin {"installing", "uninstalling"})
  BY <1>1, <1>2 DEF Doing
<1>4. QED
  BY <1>1, <1>3, BridgeQuiet

\* The first signal is heard, the second gives the handlers back.
LEMMA SignalKeeps ==
  ASSUME Bridge!Assumption, BridgeInv, Bridge!Signal
  PROVE  BridgeInv'
<1>1. Main \in Threads /\ pc \in [Threads -> Doing] /\ UNCHANGED <<blocks, depth, mixed>>
  BY DEF Bridge!Signal, BridgeInv, BridgeTyped, Bridge!Assumption
<1>2. UNCHANGED pc \/ (pc[Main] = "waiting" /\ pc' = [pc EXCEPT ![Main] = "free"])
  BY DEF Bridge!Signal, Bridge!Interrupted, Bridge!Idle, Bridge!Goto
<1>3. /\ pc' \in [Threads -> Doing]
      /\ \A t \in Threads : pc'[t] = pc[t] \/ (pc[t] \notin {"installing", "uninstalling"} /\
                                                pc'[t] \notin {"installing", "uninstalling"})
  BY <1>1, <1>2 DEF Doing
<1>4. CASE UNCHANGED <<handler, previous, escalated>>
  BY <1>1, <1>3, <1>4, BridgeQuiet
<1>5. CASE Bridge!Uninstalled(Main) /\ escalated' = TRUE
  <2>1. ASSUME ~mixed PROVE OneGuards' /\ Handlers'
    <3>1. OneGuards /\ Handlers
      BY <2>1 DEF BridgeInv
    <3>2. \A t \in Threads : /\ InGuard(t)' <=> InGuard(t)
                             /\ pc'[t] = "installing" <=> pc[t] = "installing"
                             /\ pc'[t] = "uninstalling" <=> pc[t] = "uninstalling"
      BY <1>1, <1>3 DEF InGuard
    <3>3. OneGuards'
      BY <1>1, <3>1, <3>2 DEF OneGuards
    <3>4. handler' = "host" /\ previous' = "none"
      BY <1>5, <3>1 DEF Bridge!Uninstalled, Handlers
    <3>5. Handlers'
      BY <1>5, <3>4 DEF Handlers
    <3>6. QED
      BY <3>3, <3>5
  <2>2. QED
    BY <1>1, <1>3, <2>1 DEF BridgeInv, BridgeTyped
<1>6. QED
  BY <1>4, <1>5 DEF Bridge!Signal

LEMMA BridgeStep ==
  Bridge!Assumption /\ BridgeInv /\ [Bridge!Next]_Bridge!bridgeVars => BridgeInv'
<1> SUFFICES ASSUME Bridge!Assumption, BridgeInv, [Bridge!Next]_Bridge!bridgeVars PROVE BridgeInv'
  OBVIOUS
<1>1. CASE UNCHANGED Bridge!bridgeVars
  <2>1. UNCHANGED <<pc, blocks, depth, handler, previous, mixed, escalated>>
    BY <1>1 DEF Bridge!bridgeVars, Bridge!callVars, Bridge!signalVars
  <2>2. QED
    BY <2>1, BridgeQuiet DEF BridgeInv, BridgeTyped, Bridge!Assumption
<1>2. ASSUME NEW t \in Threads, Bridge!Enter(t) \/ Bridge!Leave(t) \/ Bridge!Install(t) \/ Bridge!Uninstall(t)
      PROVE  BridgeInv'
  BY <1>2, EnterKeeps, LeaveKeeps, InstallKeeps
<1>3. QED
  BY <1>1, <1>2, CallKeeps, SignalKeeps DEF Bridge!Next, Bridge!Goes

BridgeInvOf == part = "bridge" => BridgeInv

LEMMA StepsOfBridge ==
  [Next]_vars => part' = part /\ (part = "bridge" => [Bridge!Next]_Bridge!bridgeVars)
<1> SUFFICES ASSUME [Next]_vars
             PROVE  part' = part /\ (part = "bridge" => [Bridge!Next]_Bridge!bridgeVars)
  OBVIOUS
<1>1. part' = part
  BY DEF Next, vars, InUpstream, InBridge, InAnswers, InSources
<1>2. ASSUME part = "bridge" PROVE Bridge!Next \/ UNCHANGED Bridge!bridgeVars
  BY <1>2 DEF Next, vars, bridgeVars, Bridge!bridgeVars, Bridge!loopVars, Bridge!callVars,
              Bridge!signalVars, InUpstream, InBridge, InAnswers, InSources
<1>3. QED
  BY <1>1, <1>2

\* The inductive invariant of the guards: while those of two threads have not
\* overlapped, one thread's blocks are the ones counted, and our handler is in
\* force only within the main thread's (signals.py).
THEOREM BridgeInvHolds == Spec => []BridgeInvOf
<1>1. Init => BridgeInvOf
  BY BridgeAssumption, BridgeInit DEF Init, BridgeInvOf
<1>2. BridgeInvOf /\ [Next]_vars => BridgeInvOf'
  BY BridgeAssumption, StepsOfBridge, BridgeStep DEF BridgeInvOf
<1>3. QED
  BY <1>1, <1>2, PTL DEF Spec

\* The main thread hears signals in every guarded block, however deep guards nest,
\* and outside of them the host's handler is in force (signals.py:29, 65).
THEOREM GuardedAlwaysHears == Spec => []GuardedHears
<1>1. BridgeInv => Bridge!GuardedHears
  <2> SUFFICES ASSUME BridgeInv, ~mixed, pc[Main] \notin {"installing", "uninstalling"}
               PROVE  /\ blocks[Main] # <<>> /\ ~escalated => handler = "ours" /\ previous = "host"
                      /\ (\A t \in Threads : blocks[t] = <<>> /\ pc[t] # "uninstalling")
                           => handler = "host" /\ previous = "none"
    BY DEF Bridge!GuardedHears
  <2>1. Handlers /\ Main \in Threads
    BY BridgeAssumption DEF BridgeInv, Bridge!Assumption
  <2>2. QED
    BY <2>1 DEF Handlers, Hearing, InGuard
<1>2. BridgeInvOf => GuardedHears
  BY <1>1 DEF BridgeInvOf, GuardedHears
<1>3. QED
  BY <1>2, BridgeInvHolds, PTL

-----------------------------------------------------------------------------
(* Answers of the model, and the lock of the references.                   *)

Stages == {"idle", "queued", "embedding", "comparing", "reading", "asking", "storing", "invalidating",
           "screening", "ended"}
Given == {"yes", "no", "valid", "flawed", "unclear"}
Verdicts == {"none", "relevant", "irrelevant", "entities", "error", "cancelled"}

AnswersTyped ==
  /\ stage \in [Callers -> Stages] /\ answer \in [Callers -> Given \union {"none"}]
  /\ verdict \in [Callers -> Verdicts]

\* Who embeds the references holds their lock, and finds none.
AtLock == {c \in Callers : stage[c] \in {"queued", "embedding"}}
LockInv ==
  /\ lock \in Seq(Callers) /\ Distinct(lock) /\ Members(lock) = AtLock
  /\ \A c \in Callers : stage[c] = "embedding" => Head(lock) = c /\ ~references
  /\ (references => embeddings = 1) /\ (~references => embeddings = 0)

\* A stored answer, and one about to be, that speaks against a record is evidence;
\* a key has one answer.
StoredInv ==
  /\ \A entry \in cache :
       /\ entry[2] \in Given
       /\ entry[2] = "no" => \A c \in Callers : Cache!Key(c) = entry[1] => RecordOf[c] \in evidence
  /\ \A entry, other \in cache : entry[1] = other[1] => entry = other
  /\ \A c \in Callers : stage[c] = "storing" =>
       answer[c] \in Given /\ (answer[c] = "no" => RecordOf[c] \in evidence)
AgainstByEvidence == \A c \in Callers : verdict[c] = "irrelevant" => RecordOf[c] \in evidence

CacheInv == AnswersTyped /\ LockInv /\ StoredInv /\ Cache!RejectedTakenOut /\ AgainstByEvidence

LEMMA CacheNames == \A q, e : Cache!RemoveFirst(q, e) = RemoveFirst(q, e)
BY DEF Cache!RemoveFirst, RemoveFirst, RemoveAt, Cache!RemoveAt, SelectInSeq, Cache!SelectInSeq,
       Min, Cache!Min

LEMMA CacheInit == Cache!Assumption /\ Cache!Init => CacheInv
<1> SUFFICES ASSUME Cache!Assumption, Cache!Init PROVE CacheInv
  OBVIOUS
<1>1. AnswersTyped
  BY DEF AnswersTyped, Cache!Init, Stages, Verdicts
<1>2. LockInv
  <2>1. lock = <<>> /\ AtLock = {} /\ embeddings = 0 /\ ~references
    BY DEF Cache!Init, AtLock
  <2>2. \A c \in Callers : stage[c] # "embedding"
    BY DEF Cache!Init
  <2>3. lock \in Seq(Callers) /\ Distinct(lock) /\ Members(lock) = {}
    BY <2>1, EmptySeq, EmptyQueue
  <2>4. QED
    BY <2>1, <2>2, <2>3 DEF LockInv
<1>3. StoredInv /\ Cache!RejectedTakenOut /\ AgainstByEvidence
  BY DEF Cache!Init, StoredInv, Cache!RejectedTakenOut, AgainstByEvidence
<1>4. QED
  BY <1>1, <1>2, <1>3 DEF CacheInv

-----------------------------------------------------------------------------
(* The lock.                                                               *)

\* A caller that goes on away from the lock.
LEMMA LockUntouched ==
  ASSUME LockInv, NEW c \in Callers, UNCHANGED <<lock, references, embeddings>>,
         stage[c] \notin {"queued", "embedding"}, stage'[c] \notin {"queued", "embedding"},
         \A d \in Callers : d # c => stage'[d] = stage[d]
  PROVE  LockInv'
<1>1. AtLock' = AtLock
  BY DEF AtLock
<1>2. \A d \in Callers : stage'[d] = "embedding" => stage[d] = "embedding"
  OBVIOUS
<1>3. QED
  BY <1>1, <1>2 DEF LockInv

\* The holder of the lock goes on, and the next one, if any, is queued.
LEMMA LockGiven ==
  ASSUME LockInv, NEW c \in Callers, lock # <<>>, Head(lock) = c, lock' = Tail(lock),
         stage'[c] \notin {"queued", "embedding"}, \A d \in Callers : d # c => stage'[d] = stage[d],
         (references' /\ embeddings' = 1) \/ UNCHANGED <<references, embeddings>>
  PROVE  LockInv'
<1>1. /\ lock' \in Seq(Callers) /\ Distinct(lock') /\ Members(lock') = Members(lock) \ {c}
  BY FirstGone DEF LockInv
<1>2. Members(lock') = AtLock'
  BY <1>1 DEF LockInv, AtLock
<1>3. \A d \in Callers : stage'[d] # "embedding"
  <2> SUFFICES ASSUME NEW d \in Callers, d # c PROVE stage[d] # "embedding"
    OBVIOUS
  <2>1. QED
    BY DEF LockInv
<1>4. (references' => embeddings' = 1) /\ (~references' => embeddings' = 0)
  BY DEF LockInv
<1>5. QED
  BY <1>1, <1>2, <1>3, <1>4 DEF LockInv, Distinct, Members

LEMMA BeginLocks ==
  ASSUME CacheInv, NEW c \in Callers, Cache!Begin(c)
  PROVE  LockInv'
<1>1. /\ LockInv /\ stage[c] = "idle" /\ stage \in [Callers -> Stages]
      /\ UNCHANGED <<references, embeddings>>
  BY DEF CacheInv, AnswersTyped, Cache!Begin
<1>2. CASE UNCHANGED lock /\ \E label \in {"reading", "comparing"} : stage' = [stage EXCEPT ![c] = label]
  BY <1>1, <1>2, LockUntouched
<1>3. CASE /\ ~references /\ lock' = Append(lock, c)
           /\ stage' = [stage EXCEPT ![c] = IF lock = <<>> THEN "embedding" ELSE "queued"]
  <2>1. lock \in Seq(Callers) /\ Distinct(lock) /\ Members(lock) = AtLock /\ c \notin Members(lock)
    BY <1>1 DEF LockInv, AtLock
  <2>2. /\ lock' \in Seq(Callers) /\ Members(lock') = Members(lock) \union {c} /\ Distinct(lock')
        /\ Head(lock') = IF lock = <<>> THEN c ELSE Head(lock)
    BY <1>3, <2>1, Appended
  <2>3. /\ stage'[c] = IF lock = <<>> THEN "embedding" ELSE "queued"
        /\ \A d \in Callers : d # c => stage'[d] = stage[d]
    BY <1>1, <1>3
  <2>4. Members(lock') = AtLock'
    BY <2>1, <2>2, <2>3 DEF AtLock
  <2>5. ASSUME NEW d \in Callers, stage'[d] = "embedding" PROVE Head(lock') = d
    <3>1. CASE d = c
      <4>1. lock = <<>>
        BY <2>3, <2>5, <3>1
      <4>2. QED
        BY <2>2, <3>1, <4>1
    <3>2. CASE d # c
      <4>1. stage[d] = "embedding" /\ Head(lock) = d
        BY <1>1, <2>3, <2>5, <3>2 DEF LockInv
      <4>2. Members(lock) # {}
        BY <2>1, <4>1 DEF AtLock
      <4>3. lock # <<>>
        BY <2>1, <4>2, EmptyQueue
      <4>4. QED
        BY <2>2, <4>1, <4>3
    <3>3. QED
      BY <3>1, <3>2
  <2>6. QED
    BY <1>1, <1>3, <2>2, <2>4, <2>5 DEF LockInv, Distinct, Members
<1>4. QED
  BY <1>1, <1>2, <1>3 DEF Cache!Begin, Cache!Goto

LEMMA GrantedLocks ==
  ASSUME CacheInv, NEW c \in Callers, Cache!Granted(c)
  PROVE  LockInv'
<1>1. /\ LockInv /\ stage[c] = "queued" /\ Head(lock) = c /\ stage \in [Callers -> Stages]
      /\ UNCHANGED <<references, embeddings>>
  BY DEF CacheInv, AnswersTyped, Cache!Granted
<1>2. lock # <<>>
  <2>1. c \in Members(lock) /\ lock \in Seq(Callers)
    BY <1>1 DEF LockInv, AtLock
  <2>2. QED
    BY <2>1, EmptyQueue
<1>3. CASE references /\ stage' = [stage EXCEPT ![c] = "comparing"] /\ lock' = Tail(lock)
  BY <1>1, <1>2, <1>3, LockGiven
<1>4. CASE ~references /\ stage' = [stage EXCEPT ![c] = "embedding"] /\ UNCHANGED lock
  <2>1. stage'[c] = "embedding" /\ \A d \in Callers : d # c => stage'[d] = stage[d]
    BY <1>1, <1>4
  <2>2. AtLock' = AtLock
    BY <1>1, <2>1 DEF AtLock
  <2>3. \A d \in Callers : stage'[d] = "embedding" => Head(lock) = d
    BY <1>1, <2>1 DEF LockInv
  <2>4. QED
    BY <1>1, <1>4, <2>2, <2>3 DEF LockInv
<1>5. QED
  BY <1>3, <1>4 DEF Cache!Granted, Cache!Goto

LEMMA EmbeddedLocks ==
  ASSUME CacheInv, NEW c \in Callers, Cache!ReferencesEmbedded(c) \/ Cache!EmbeddingFails(c)
  PROVE  LockInv'
<1>1. LockInv /\ stage \in [Callers -> Stages]
  BY DEF CacheInv, AnswersTyped
<1>2. ASSUME stage[c] = "embedding" PROVE Head(lock) = c /\ lock # <<>> /\ embeddings = 0
  <2>1. c \in Members(lock) /\ lock \in Seq(Callers)
    BY <1>1, <1>2 DEF LockInv, AtLock
  <2>2. lock # <<>>
    BY <2>1, EmptyQueue
  <2>3. QED
    BY <1>1, <1>2, <2>2 DEF LockInv
<1>3. CASE Cache!ReferencesEmbedded(c)
  <2>1. /\ stage[c] = "embedding" /\ stage' = [stage EXCEPT ![c] = "comparing"]
        /\ references' = TRUE /\ embeddings' = embeddings + 1 /\ lock' = Tail(lock)
    BY <1>3 DEF Cache!ReferencesEmbedded, Cache!Goto
  <2>2. references' /\ embeddings' = 1
    BY <1>2, <2>1
  <2>3. stage'[c] = "comparing" /\ \A d \in Callers : d # c => stage'[d] = stage[d]
    BY <1>1, <2>1
  <2>4. QED
    BY <1>1, <1>2, <2>1, <2>2, <2>3, LockGiven
<1>4. CASE Cache!EmbeddingFails(c)
  <2>1. /\ stage[c] \in {"embedding", "comparing"} /\ UNCHANGED <<references, embeddings>>
        /\ \E label \in {"reading", "ended"} : stage' = [stage EXCEPT ![c] = label]
        /\ lock' = IF stage[c] = "embedding" THEN Tail(lock) ELSE lock
    BY <1>4 DEF Cache!EmbeddingFails, Cache!FilterFault, Cache!Goto, Cache!Ends
  <2>2. stage'[c] \in {"reading", "ended"} /\ \A d \in Callers : d # c => stage'[d] = stage[d]
    BY <1>1, <2>1
  <2>3. CASE stage[c] = "embedding"
    BY <1>1, <1>2, <2>1, <2>2, <2>3, LockGiven
  <2>4. CASE stage[c] = "comparing"
    BY <1>1, <2>1, <2>2, <2>4, LockUntouched
  <2>5. QED
    BY <2>1, <2>3, <2>4
<1>5. QED
  BY <1>3, <1>4

\* A cancelled caller leaves the lock or its queue.
LEMMA CancelLocks ==
  ASSUME CacheInv, NEW c \in Callers, Cache!Cancel(c)
  PROVE  LockInv'
<1>1. /\ LockInv /\ stage \in [Callers -> Stages] /\ UNCHANGED <<references, embeddings>>
      /\ stage' = [stage EXCEPT ![c] = "ended"] /\ lock' = RemoveFirst(lock, c)
  BY CacheNames DEF CacheInv, AnswersTyped, Cache!Cancel, Cache!Ends, Cache!Goto
<1>2. /\ lock \in Seq(Callers) /\ Distinct(lock) /\ Members(lock) = AtLock
  BY <1>1 DEF LockInv
<1>3. /\ lock' \in Seq(Callers) /\ Distinct(lock') /\ Members(lock') = Members(lock) \ {c}
      /\ lock # <<>> /\ c # Head(lock) => Head(lock') = Head(lock)
  BY <1>1, <1>2, OneGone
<1>4. stage'[c] = "ended" /\ \A d \in Callers : d # c => stage'[d] = stage[d]
  BY <1>1
<1>5. Members(lock') = AtLock'
  BY <1>2, <1>3, <1>4 DEF AtLock
<1>6. ASSUME NEW d \in Callers, stage'[d] = "embedding" PROVE Head(lock') = d /\ ~references
  <2>1. d # c /\ stage[d] = "embedding" /\ Head(lock) = d /\ ~references
    BY <1>1, <1>4, <1>6 DEF LockInv
  <2>2. Members(lock) # {}
    BY <1>2, <2>1 DEF AtLock
  <2>3. lock # <<>>
    BY <1>2, <2>2, EmptyQueue
  <2>4. QED
    BY <1>3, <2>1, <2>3
<1>7. QED
  BY <1>1, <1>3, <1>5, <1>6 DEF LockInv, Distinct, Members

-----------------------------------------------------------------------------
(* The stored answers.                                                     *)

\* Only an unclear answer is to be invalidated, and only "no" speaks against.
LEMMA Judged ==
  ASSUME CacheInv, NEW c \in Callers, NEW given \in Given, Cache!Judge(c, given)
  PROVE  /\ AnswersTyped' /\ stage'[c] \in {"ended", "screening", "invalidating"}
         /\ given = "unclear" => stage'[c] = "invalidating"
         /\ verdict'[c] = "irrelevant" => given = "no" \/ verdict[c] = "irrelevant"
         /\ \A d \in Callers : d # c => /\ stage'[d] = stage[d] /\ verdict'[d] = verdict[d]
                                        /\ answer'[d] = answer[d]
<1>1. AnswersTyped /\ answer' = [answer EXCEPT ![c] = given]
  BY DEF CacheInv, Cache!Judge
<1>2. CASE given \in {"yes", "no"}
  <2>1. /\ stage' = [stage EXCEPT ![c] = "ended"]
        /\ verdict' = [verdict EXCEPT ![c] = IF given = "yes" THEN "relevant" ELSE "irrelevant"]
    BY <1>2 DEF Cache!Judge, Cache!Ends, Cache!Goto
  <2>2. QED
    BY <1>1, <1>2, <2>1 DEF AnswersTyped, Stages, Verdicts, Given
<1>3. CASE given = "valid"
  <2>1. stage' = [stage EXCEPT ![c] = "ended"] /\ verdict' = [verdict EXCEPT ![c] = "entities"]
    BY <1>3 DEF Cache!Judge, Cache!Ends, Cache!Goto
  <2>2. QED
    BY <1>1, <1>3, <2>1 DEF AnswersTyped, Stages, Verdicts, Given
<1>4. CASE given = "flawed"
  <2>1. stage' = [stage EXCEPT ![c] = "screening"] /\ UNCHANGED verdict
    BY <1>4 DEF Cache!Judge, Cache!Goto
  <2>2. QED
    BY <1>1, <1>4, <2>1 DEF AnswersTyped, Stages, Given
<1>5. CASE given = "unclear"
  <2>1. stage' = [stage EXCEPT ![c] = "invalidating"] /\ UNCHANGED verdict
    BY <1>5 DEF Cache!Judge, Cache!Goto
  <2>2. QED
    BY <1>1, <1>5, <2>1 DEF AnswersTyped, Stages, Given
<1>6. QED
  BY <1>2, <1>3, <1>4, <1>5 DEF Given

\* A step that stores nothing, takes nothing out and settles no one's answer.
LEMMA StoredUntouched ==
  ASSUME CacheInv, NEW c \in Callers, UNCHANGED <<cache, orphans>>, evidence \subseteq evidence',
         stage[c] # "invalidating", stage'[c] # "storing" \/
           (answer'[c] \in Given /\ (answer'[c] = "no" => RecordOf[c] \in evidence')),
         \A d \in Callers : d # c => stage'[d] = stage[d] /\ answer'[d] = answer[d]
  PROVE  StoredInv' /\ Cache!RejectedTakenOut'
<1>1. StoredInv'
  BY DEF CacheInv, StoredInv, Cache!Key
<1>2. \A d \in Callers : stage[d] = "invalidating" => stage'[d] = "invalidating"
  OBVIOUS
<1>3. Cache!RejectedTakenOut'
  BY <1>2 DEF CacheInv, Cache!RejectedTakenOut, Cache!Key
<1>4. QED
  BY <1>1, <1>3

\* What is stored replaces what the key had; its holder takes it out or is gone.
LEMMA StoredAnew ==
  ASSUME CacheInv, NEW c \in Callers, stage[c] = "storing", Cache!Stores(c), UNCHANGED evidence,
         \A d \in Callers : d # c => stage'[d] = stage[d] /\ answer'[d] = answer[d],
         stage'[c] # "storing",
         \/ orphans' = orphans \ {Cache!Key(c)} /\ (answer[c] = "unclear" => stage'[c] = "invalidating")
         \/ orphans' = orphans \union {Cache!Key(c)}
  PROVE  StoredInv' /\ Cache!RejectedTakenOut'
<1> DEFINE key == Cache!Key(c)
           new == <<key, answer[c]>>
<1>1. cache' = {entry \in cache : entry[1] # key} \union {new}
  BY DEF Cache!Stores
<1>2. StoredInv /\ Cache!RejectedTakenOut
  BY DEF CacheInv
<1>3. answer[c] \in Given /\ (answer[c] = "no" => RecordOf[c] \in evidence)
  BY <1>2 DEF StoredInv
<1>4. \A d \in Callers : Cache!Key(d) = key => RecordOf[d] = RecordOf[c]
  BY DEF Cache!Key
<1>5. new[1] = key /\ new[2] = answer[c]
  OBVIOUS
<1> HIDE DEF key, new
<1>6. \A entry \in cache' : entry = new \/ (entry \in cache /\ entry[1] # key)
  BY <1>1
<1>7. \A entry \in cache' : entry[2] \in Given
  BY <1>2, <1>3, <1>5, <1>6 DEF StoredInv
<1>8. \A entry \in cache' : entry[2] = "no" =>
        \A d \in Callers : Cache!Key(d) = entry[1] => RecordOf[d] \in evidence
  BY <1>2, <1>3, <1>4, <1>5, <1>6 DEF StoredInv
<1>9. \A entry, other \in cache' : entry[1] = other[1] => entry = other
  BY <1>2, <1>5, <1>6 DEF StoredInv
<1>10. \A d \in Callers : stage'[d] = "storing" =>
         answer'[d] \in Given /\ (answer'[d] = "no" => RecordOf[d] \in evidence)
  BY <1>2 DEF StoredInv
<1>11. StoredInv'
  BY <1>7, <1>8, <1>9, <1>10 DEF StoredInv, Cache!Key
<1>12. Cache!RejectedTakenOut'
  <2> SUFFICES ASSUME NEW entry \in cache', entry[2] = "unclear"
               PROVE  \/ entry[1] \in orphans'
                      \/ \E d \in Callers : Cache!Key(d) = entry[1] /\ stage'[d] = "invalidating"
    BY DEF Cache!RejectedTakenOut, Cache!Key
  <2>1. CASE entry = new
    BY <1>5, <2>1 DEF key
  <2>2. CASE entry \in cache /\ entry[1] # key
    <3>1. \/ entry[1] \in orphans
          \/ \E d \in Callers : Cache!Key(d) = entry[1] /\ stage[d] = "invalidating"
      BY <1>2, <2>2 DEF Cache!RejectedTakenOut
    <3>2. entry[1] \in orphans => entry[1] \in orphans'
      BY <2>2 DEF key
    <3>3. QED
      BY <3>1, <3>2
  <2>3. QED
    BY <1>6, <2>1, <2>2
<1>13. QED
  BY <1>11, <1>12

\* The one to take an answer out does, or leaves it to the next reader.
LEMMA TakenOut ==
  ASSUME CacheInv, NEW c \in Callers, stage[c] = "invalidating", UNCHANGED evidence,
         \A d \in Callers : d # c => stage'[d] = stage[d] /\ answer'[d] = answer[d],
         stage'[c] = "ended",
         \/ Cache!Deletes(c) /\ orphans' = orphans \ {Cache!Key(c)}
         \/ UNCHANGED cache /\ orphans' = orphans \union {Cache!Key(c)}
  PROVE  StoredInv' /\ Cache!RejectedTakenOut'
<1>1. StoredInv /\ Cache!RejectedTakenOut
  BY DEF CacheInv
<1>2. cache' \subseteq cache
  BY DEF Cache!Deletes
<1>3. StoredInv'
  BY <1>1, <1>2 DEF StoredInv, Cache!Key
<1>4. Cache!RejectedTakenOut'
  <2> SUFFICES ASSUME NEW entry \in cache', entry[2] = "unclear"
               PROVE  \/ entry[1] \in orphans'
                      \/ \E d \in Callers : Cache!Key(d) = entry[1] /\ stage'[d] = "invalidating"
    BY DEF Cache!RejectedTakenOut, Cache!Key
  <2>1. \/ entry[1] \in orphans
        \/ \E d \in Callers : Cache!Key(d) = entry[1] /\ stage[d] = "invalidating"
    BY <1>1, <1>2 DEF Cache!RejectedTakenOut
  <2>2. CASE entry[1] # Cache!Key(c)
    <3>1. entry[1] \in orphans => entry[1] \in orphans'
      BY <2>2
    <3>2. \A d \in Callers : Cache!Key(d) = entry[1] => d # c
      BY <2>2
    <3>3. QED
      BY <2>1, <3>1, <3>2
  <2>3. CASE entry[1] = Cache!Key(c)
    BY <2>3 DEF Cache!Deletes
  <2>4. QED
    BY <2>2, <2>3
<1>5. QED
  BY <1>3, <1>4

\* A caller that finds an answer takes it out if it rejects it.
LEMMA HitStored ==
  ASSUME CacheInv, NEW c \in Callers, Cache!Hit(c)
  PROVE  CacheInv'
<1>1. PICK entry \in cache : entry[1] = Cache!Key(c) /\ Cache!Judge(c, entry[2])
  BY DEF Cache!Hit
<1>2. /\ stage[c] = "reading" /\ orphans' = orphans \ {Cache!Key(c)}
      /\ UNCHANGED <<cache, references, lock, evidence, embeddings>>
      /\ StoredInv /\ Cache!RejectedTakenOut /\ AgainstByEvidence /\ LockInv
  BY DEF Cache!Hit, CacheInv
<1>3. entry[2] \in Given
  BY <1>2 DEF StoredInv
<1>4. /\ AnswersTyped' /\ stage'[c] \in {"ended", "screening", "invalidating"}
      /\ entry[2] = "unclear" => stage'[c] = "invalidating"
      /\ verdict'[c] = "irrelevant" => entry[2] = "no" \/ verdict[c] = "irrelevant"
      /\ \A d \in Callers : d # c => /\ stage'[d] = stage[d] /\ verdict'[d] = verdict[d]
                                     /\ answer'[d] = answer[d]
  BY <1>1, <1>3, Judged
<1>5. LockInv'
  BY <1>2, <1>4, LockUntouched
<1>6. StoredInv'
  BY <1>2, <1>4 DEF StoredInv, Cache!Key
<1>7. Cache!RejectedTakenOut'
  <2> SUFFICES ASSUME NEW e \in cache, e[2] = "unclear"
               PROVE  \/ e[1] \in orphans'
                      \/ \E d \in Callers : Cache!Key(d) = e[1] /\ stage'[d] = "invalidating"
    BY <1>2 DEF Cache!RejectedTakenOut, Cache!Key
  <2>1. CASE e[1] = Cache!Key(c)
    <3>1. e = entry
      BY <1>1, <1>2, <2>1 DEF StoredInv
    <3>2. QED
      BY <1>4, <2>1, <3>1
  <2>2. CASE e[1] # Cache!Key(c)
    <3>1. \/ e[1] \in orphans
          \/ \E d \in Callers : Cache!Key(d) = e[1] /\ stage[d] = "invalidating"
      BY <1>2 DEF Cache!RejectedTakenOut
    <3>2. \A d \in Callers : Cache!Key(d) = e[1] => d # c
      BY <2>2
    <3>3. QED
      BY <1>2, <1>4, <2>2, <3>1, <3>2
  <2>3. QED
    BY <2>1, <2>2
<1>8. AgainstByEvidence'
  <2>1. entry[2] = "no" => RecordOf[c] \in evidence
    BY <1>1, <1>2 DEF StoredInv
  <2>2. QED
    BY <1>2, <1>4, <2>1 DEF AgainstByEvidence
<1>9. QED
  BY <1>4, <1>5, <1>6, <1>7, <1>8 DEF CacheInv

LEMMA StoreStored ==
  ASSUME CacheInv, NEW c \in Callers, Cache!Store(c) \/ Cache!StoreFails(c)
  PROVE  CacheInv'
<1>1. /\ stage[c] = "storing" /\ Cache!Judge(c, answer[c])
      /\ UNCHANGED <<references, lock, evidence, embeddings>>
      /\ StoredInv /\ AgainstByEvidence /\ LockInv
  BY DEF Cache!Store, Cache!StoreFails, CacheInv
<1>2. answer[c] \in Given /\ (answer[c] = "no" => RecordOf[c] \in evidence)
  BY <1>1 DEF StoredInv
<1>3. /\ AnswersTyped' /\ stage'[c] \in {"ended", "screening", "invalidating"}
      /\ answer[c] = "unclear" => stage'[c] = "invalidating"
      /\ verdict'[c] = "irrelevant" => answer[c] = "no" \/ verdict[c] = "irrelevant"
      /\ \A d \in Callers : d # c => /\ stage'[d] = stage[d] /\ verdict'[d] = verdict[d]
                                     /\ answer'[d] = answer[d]
  BY <1>1, <1>2, Judged
<1>4. LockInv'
  BY <1>1, <1>3, LockUntouched
<1>5. StoredInv' /\ Cache!RejectedTakenOut'
  <2>1. CASE Cache!Store(c)
    <3>1. Cache!Stores(c) /\ orphans' = orphans \ {Cache!Key(c)}
      BY <2>1 DEF Cache!Store
    <3>2. QED
      BY <1>1, <1>3, <3>1, StoredAnew
  <2>2. CASE Cache!StoreFails(c)
    <3>1. UNCHANGED <<cache, orphans>>
      BY <2>2 DEF Cache!StoreFails
    <3>2. QED
      BY <1>1, <1>3, <3>1, StoredUntouched
  <2>3. QED
    BY <2>1, <2>2
<1>6. AgainstByEvidence'
  BY <1>1, <1>2, <1>3 DEF AgainstByEvidence
<1>7. QED
  BY <1>3, <1>4, <1>5, <1>6 DEF CacheInv

LEMMA InvalidateStored ==
  ASSUME CacheInv, NEW c \in Callers, Cache!Invalidate(c)
  PROVE  CacheInv'
<1>1. /\ stage[c] = "invalidating" /\ UNCHANGED <<references, lock, answer, evidence, embeddings>>
      /\ AnswersTyped /\ AgainstByEvidence /\ LockInv
      /\ stage' = [stage EXCEPT ![c] = "ended"]
      /\ \E v \in {"relevant", "error"} : verdict' = [verdict EXCEPT ![c] = v]
  BY DEF Cache!Invalidate, Cache!Unanswered, Cache!Ends, Cache!Goto, CacheInv
<1>2. /\ AnswersTyped' /\ stage'[c] = "ended" /\ verdict'[c] # "irrelevant"
      /\ \A d \in Callers : d # c => stage'[d] = stage[d] /\ verdict'[d] = verdict[d]
  BY <1>1 DEF AnswersTyped, Stages, Verdicts
<1>3. LockInv'
  BY <1>1, <1>2, LockUntouched
<1>4. StoredInv' /\ Cache!RejectedTakenOut'
  BY <1>1, <1>2, TakenOut DEF Cache!Invalidate
<1>5. AgainstByEvidence'
  BY <1>1, <1>2 DEF AgainstByEvidence
<1>6. QED
  BY <1>2, <1>3, <1>4, <1>5 DEF CacheInv

LEMMA CancelStored ==
  ASSUME CacheInv, NEW c \in Callers, Cache!Cancel(c)
  PROVE  CacheInv'
<1>1. /\ UNCHANGED <<answer, evidence>> /\ AnswersTyped /\ AgainstByEvidence
      /\ stage' = [stage EXCEPT ![c] = "ended"] /\ verdict' = [verdict EXCEPT ![c] = "cancelled"]
  BY DEF Cache!Cancel, Cache!Ends, Cache!Goto, CacheInv
<1>2. /\ AnswersTyped' /\ stage'[c] = "ended" /\ verdict'[c] = "cancelled"
      /\ \A d \in Callers : d # c => /\ stage'[d] = stage[d] /\ verdict'[d] = verdict[d]
                                     /\ answer'[d] = answer[d]
  BY <1>1 DEF AnswersTyped, Stages, Verdicts
<1>3. StoredInv' /\ Cache!RejectedTakenOut'
  <2>1. CASE stage[c] # "invalidating" /\ UNCHANGED <<cache, orphans>>
    BY <1>1, <1>2, <2>1, StoredUntouched
  <2>2. CASE stage[c] = "storing" /\ Cache!Stores(c) /\ orphans' = orphans \union {Cache!Key(c)}
    BY <1>1, <1>2, <2>2, StoredAnew
  <2>3. CASE /\ stage[c] = "invalidating"
             /\ \/ Cache!Deletes(c) /\ orphans' = orphans \ {Cache!Key(c)}
                \/ UNCHANGED cache /\ orphans' = orphans \union {Cache!Key(c)}
    BY <1>1, <1>2, <2>3, TakenOut
  <2>4. QED
    BY <2>1, <2>2, <2>3 DEF Cache!Cancel
<1>4. AgainstByEvidence'
  BY <1>1, <1>2 DEF AgainstByEvidence
<1>5. QED
  BY <1>2, <1>3, <1>4, CancelLocks DEF CacheInv

\* The steps in which nothing is stored or taken out, but for those at the lock.
LEMMA OthersStored ==
  ASSUME CacheInv, NEW c \in Callers,
         \/ Cache!Begin(c) \/ Cache!Granted(c) \/ Cache!ReferencesEmbedded(c) \/ Cache!EmbeddingFails(c)
         \/ \E similar \in BOOLEAN : Cache!Compared(c, similar)
         \/ Cache!Miss(c) \/ Cache!AskFails(c) \/ Cache!Screen(c)
  PROVE  CacheInv'
<1> DEFINE Labels == {"reading", "comparing", "embedding", "queued", "asking", "ended"}
<1>1. /\ stage[c] \notin {"storing", "invalidating"} /\ UNCHANGED <<cache, orphans, answer>>
      /\ AnswersTyped /\ AgainstByEvidence /\ LockInv
  BY DEF CacheInv, Cache!Begin, Cache!Granted, Cache!ReferencesEmbedded, Cache!EmbeddingFails,
         Cache!Compared, Cache!Miss, Cache!AskFails, Cache!Screen
<1>2. \E label \in Labels : stage' = [stage EXCEPT ![c] = label]
  BY DEF Cache!Begin, Cache!Granted, Cache!ReferencesEmbedded, Cache!EmbeddingFails, Cache!Compared,
         Cache!Miss, Cache!AskFails, Cache!Screen, Cache!Goto, Cache!Ends, Cache!FilterFault,
         Cache!Unanswered
<1>3. \/ UNCHANGED <<verdict, evidence>>
      \/ UNCHANGED evidence /\ \E v \in {"error", "relevant", "entities"} : verdict' = [verdict EXCEPT ![c] = v]
      \/ /\ evidence' = evidence \union {RecordOf[c]} /\ verdict' = [verdict EXCEPT ![c] = "irrelevant"]
  BY DEF Cache!Begin, Cache!Granted, Cache!ReferencesEmbedded, Cache!EmbeddingFails, Cache!Compared,
         Cache!Miss, Cache!AskFails, Cache!Screen, Cache!Ends, Cache!FilterFault, Cache!Unanswered
<1>4. /\ stage' \in [Callers -> Stages] /\ stage'[c] \in Labels
      /\ \A d \in Callers : d # c => stage'[d] = stage[d]
  BY <1>1, <1>2 DEF AnswersTyped, Stages
<1>5. /\ AnswersTyped' /\ evidence \subseteq evidence'
      /\ verdict'[c] = "irrelevant" => verdict[c] = "irrelevant" \/ RecordOf[c] \in evidence'
      /\ \A d \in Callers : d # c => verdict'[d] = verdict[d]
  BY <1>1, <1>3, <1>4 DEF AnswersTyped, Verdicts
<1>6. AgainstByEvidence'
  BY <1>1, <1>5 DEF AgainstByEvidence
<1>7. StoredInv' /\ Cache!RejectedTakenOut'
  BY <1>1, <1>4, <1>5, StoredUntouched
<1>8. LockInv'
  <2>1. ASSUME \/ \E similar \in BOOLEAN : Cache!Compared(c, similar)
               \/ Cache!Miss(c) \/ Cache!AskFails(c) \/ Cache!Screen(c)
        PROVE  LockInv'
    <3>1. /\ UNCHANGED <<lock, references, embeddings>>
          /\ stage[c] \notin {"queued", "embedding"}
          /\ \E label \in {"reading", "asking", "ended"} : stage' = [stage EXCEPT ![c] = label]
      BY <2>1 DEF Cache!Compared, Cache!Miss, Cache!AskFails, Cache!Screen, Cache!Goto, Cache!Ends,
                  Cache!Unanswered
    <3>2. stage'[c] \notin {"queued", "embedding"}
      BY <1>1, <3>1 DEF AnswersTyped
    <3>3. QED
      BY <1>1, <1>4, <3>1, <3>2, LockUntouched
  <2>2. QED
    BY <2>1, BeginLocks, GrantedLocks, EmbeddedLocks
<1>9. QED
  BY <1>5, <1>6, <1>7, <1>8 DEF CacheInv

LEMMA AskedStored ==
  ASSUME Cache!Assumption, CacheInv, NEW c \in Callers, NEW given \in Cache!Answers(RoleOf[c]),
         Cache!Asked(c, given)
  PROVE  CacheInv'
<1>1. given \in Given
  BY DEF Cache!Answers, Cache!Clear, Given
<1>2. /\ stage[c] = "asking" /\ stage' = [stage EXCEPT ![c] = "storing"]
      /\ answer' = [answer EXCEPT ![c] = given]
      /\ evidence' = IF given = "no" THEN evidence \union {RecordOf[c]} ELSE evidence
      /\ UNCHANGED <<cache, references, lock, verdict, orphans, embeddings>>
      /\ AnswersTyped /\ AgainstByEvidence /\ LockInv
  BY DEF Cache!Asked, Cache!Goto, CacheInv
<1>3. /\ AnswersTyped' /\ stage'[c] = "storing" /\ answer'[c] = given
      /\ \A d \in Callers : d # c => stage'[d] = stage[d] /\ answer'[d] = answer[d]
  BY <1>1, <1>2 DEF AnswersTyped, Stages
<1>4. LockInv'
  BY <1>2, <1>3, LockUntouched
<1>5. evidence \subseteq evidence' /\ (given = "no" => RecordOf[c] \in evidence')
  BY <1>2
<1>6. StoredInv' /\ Cache!RejectedTakenOut'
  BY <1>1, <1>2, <1>3, <1>5, StoredUntouched
<1>7. AgainstByEvidence'
  BY <1>2, <1>5 DEF AgainstByEvidence
<1>8. QED
  BY <1>3, <1>4, <1>6, <1>7 DEF CacheInv

LEMMA CacheStutters == CacheInv /\ UNCHANGED Cache!cacheVars => CacheInv'
<1> SUFFICES ASSUME CacheInv, UNCHANGED Cache!cacheVars PROVE CacheInv'
  OBVIOUS
<1>1. UNCHANGED <<cache, references, lock, stage, answer, verdict, orphans, evidence, embeddings>>
  BY DEF Cache!cacheVars
<1>2. AnswersTyped' /\ AgainstByEvidence'
  BY <1>1 DEF CacheInv, AnswersTyped, AgainstByEvidence
<1>3. LockInv'
  BY <1>1 DEF CacheInv, LockInv, AtLock, Distinct, Members
<1>4. StoredInv' /\ Cache!RejectedTakenOut'
  BY <1>1 DEF CacheInv, StoredInv, Cache!RejectedTakenOut, Cache!Key
<1>5. QED
  BY <1>2, <1>3, <1>4 DEF CacheInv

LEMMA CacheStep ==
  Cache!Assumption /\ CacheInv /\ [Cache!Next]_Cache!cacheVars => CacheInv'
<1> SUFFICES ASSUME Cache!Assumption, CacheInv, Cache!Next PROVE CacheInv'
  BY CacheStutters
<1>1. PICK c \in Callers : Cache!Begin(c) \/ Cache!Step(c) \/ Cache!Cancel(c)
  BY DEF Cache!Next
<1>2. CASE Cache!Begin(c)
  BY <1>2, OthersStored
<1>3. CASE Cache!Step(c)
  BY <1>3, OthersStored, HitStored, StoreStored, InvalidateStored, AskedStored DEF Cache!Step
<1>4. CASE Cache!Cancel(c)
  BY <1>4, CancelStored
<1>5. QED
  BY <1>1, <1>2, <1>3, <1>4

CacheInvOf == part = "answers" => CacheInv

LEMMA StepsOfCache ==
  [Next]_vars => part' = part /\ (part = "answers" => [Cache!Next]_Cache!cacheVars)
<1> SUFFICES ASSUME [Next]_vars
             PROVE  part' = part /\ (part = "answers" => [Cache!Next]_Cache!cacheVars)
  OBVIOUS
<1>1. part' = part
  BY DEF Next, vars, InUpstream, InBridge, InAnswers, InSources
<1>2. ASSUME part = "answers" PROVE Cache!Next \/ UNCHANGED Cache!cacheVars
  BY <1>2 DEF Next, vars, cacheVars, Cache!cacheVars, InUpstream, InBridge, InAnswers, InSources
<1>3. QED
  BY <1>1, <1>2

\* The inductive invariant of the answers: who embeds the references is first in
\* the queue for their lock, a key has one answer, and one that speaks against a
\* record was given for it (relevance_async.py, cache_async.py).
THEOREM CacheInvHolds == Spec => []CacheInvOf
<1>1. Init => CacheInvOf
  BY CacheAssumption, CacheInit DEF Init, CacheInvOf
<1>2. CacheInvOf /\ [Next]_vars => CacheInvOf'
  BY CacheAssumption, StepsOfCache, CacheStep DEF CacheInvOf
<1>3. QED
  BY <1>1, <1>2, PTL DEF Spec

\* However many callers share the cache, fail or are cancelled: a rejected answer is
\* about to be taken out or was left by one that could not, no record is irrelevant
\* without evidence, and the references are embedded once (extraction_async.py,
\* relevance_*.py).
THEOREM VerdictsAlwaysHold == Spec => []VerdictsHold
<1>1. CacheInv => Cache!IrrelevantByEvidence
  BY DEF CacheInv, LockInv, AgainstByEvidence, Cache!IrrelevantByEvidence
<1>2. CacheInvOf => VerdictsHold
  BY <1>1 DEF CacheInvOf, CacheInv, VerdictsHold
<1>3. QED
  BY <1>2, CacheInvHolds, PTL

=============================================================================
