--------------------------- MODULE MCStores_proof ---------------------------
(***************************************************************************)
(* What the stores keep as parts of MCStores, for every set of records and *)
(* tasks and every number of writes, faults, calls and crashes.  The       *)
(* exporters are proved here, over the log that both write.  A behaviour   *)
(* of MCStores is of one store and its steps are that store's, so what is  *)
(* proved of the other stores in modules of their own holds of it.         *)
(***************************************************************************)
EXTENDS MCStores, FiniteSetTheorems, SequenceTheorems, WellFoundedInduction, TLAPS

-----------------------------------------------------------------------------
(* The last readable line of a record.                                     *)

LEMMA Greatest ==
  ASSUME NEW n \in Nat, NEW S \in SUBSET (1..n), S # {}
  PROVE  \E m \in S : \A k \in S : k <= m
<1> DEFINE R == OpToRel(<, Nat)
           T == {n - k : k \in S}
<1>1. IsWellFoundedOn(R, Nat)
  BY NatLessThanWellFounded
<1>2. \A x, y \in Nat : <<x, y>> \in R <=> x < y
  BY DEF OpToRel
<1>3. \A k \in S : k \in Nat /\ n - k \in Nat
  OBVIOUS
<1>4. T \subseteq Nat /\ T # {}
  BY <1>3
<1> HIDE DEF R, T
<1>5. PICK t \in T : \A u \in T : ~(<<u, t>> \in R)
  BY <1>1, <1>4, WFMin
<1> USE DEF T
<1>6. PICK m \in S : t = n - m
  BY <1>5
<1>7. ASSUME NEW k \in S PROVE k <= m
  <2>1. ~(n - k < n - m)
    BY <1>3, <1>5, <1>6, <1>2
  <2>2. QED
    BY <1>3, <2>1
<1>8. QED
  BY <1>7

\* The places of the readable lines of a record.
Of(log, r) == {i \in DOMAIN log : log[i].kind = "line" /\ log[i].record = r}

LEMMA LastVersionIs ==
  ASSUME NEW log \in Seq(Kept), NEW r
  PROVE  \/ Of(log, r) = {} /\ \A o : LastVersion(log, r, o) = o
         \/ \E m \in Of(log, r) : /\ \A k \in Of(log, r) : k <= m
                                  /\ \A o : LastVersion(log, r, o) = log[m].version
<1>1. CASE Of(log, r) = {}
  BY <1>1 DEF Of, LastVersion
<1>2. CASE Of(log, r) # {}
  <2>1. /\ Of(log, r) \in SUBSET (1..Len(log)) /\ Len(log) \in Nat
        /\ \A k \in Of(log, r) : k \in Nat
    BY LenProperties DEF Of
  <2>2. \E m \in Of(log, r) : \A k \in Of(log, r) : k <= m
    BY <1>2, <2>1, Greatest
  <2> DEFINE m == CHOOSE i \in Of(log, r) : \A k \in Of(log, r) : k <= i
  <2>3. m \in Of(log, r) /\ \A k \in Of(log, r) : k <= m
    BY <2>2
  <2>4. \A o : LastVersion(log, r, o) = log[m].version
    BY <1>2, Zenon DEF Of, LastVersion
  <2>5. QED
    BY <2>3, <2>4
<1>3. QED
  BY <1>1, <1>2

\* The place of the last readable line is the only one with no later.
LEMMA LastVersionAt ==
  ASSUME NEW log \in Seq(Kept), NEW r, NEW m \in Of(log, r),
         \A k \in Of(log, r) : k <= m
  PROVE  \A o : LastVersion(log, r, o) = log[m].version
<1>1. \A k \in Of(log, r) : k \in Int
  BY LenProperties DEF Of
<1>2. PICK i \in Of(log, r) : /\ \A k \in Of(log, r) : k <= i
                              /\ \A o : LastVersion(log, r, o) = log[i].version
  BY LastVersionIs
<1>3. i = m
  BY <1>1, <1>2
<1>4. QED
  BY <1>2, <1>3

\* What is appended comes last.
LEMMA LastOfBoth ==
  ASSUME NEW s \in Seq(Kept), NEW t \in Seq(Kept), NEW r, NEW o
  PROVE  LastVersion(s \o t, r, o) = LastVersion(t, r, LastVersion(s, r, o))
<1> DEFINE both == s \o t
<1>1. /\ both \in Seq(Kept) /\ Len(both) = Len(s) + Len(t) /\ Len(s) \in Nat /\ Len(t) \in Nat
      /\ \A i \in 1..Len(s) : both[i] = s[i]
      /\ \A i \in 1..Len(t) : both[i + Len(s)] = t[i]
      /\ DOMAIN both = 1..Len(both) /\ DOMAIN s = 1..Len(s) /\ DOMAIN t = 1..Len(t)
  <2>1. /\ both \in Seq(Kept) /\ Len(both) = Len(s) + Len(t)
        /\ \A i \in 1 .. Len(s) + Len(t) : both[i] = IF i <= Len(s) THEN s[i] ELSE t[i - Len(s)]
    BY ConcatProperties
  <2>2. /\ Len(s) \in Nat /\ Len(t) \in Nat
        /\ DOMAIN both = 1..Len(both) /\ DOMAIN s = 1..Len(s) /\ DOMAIN t = 1..Len(t)
    BY <2>1, LenProperties
  <2> HIDE DEF both
  <2>3. \A i \in 1..Len(s) : both[i] = s[i]
    BY <2>1, <2>2
  <2>4. \A i \in 1..Len(t) : both[i + Len(s)] = t[i]
    <3> SUFFICES ASSUME NEW i \in 1..Len(t) PROVE both[i + Len(s)] = t[i]
      OBVIOUS
    <3>1. i + Len(s) \in 1..Len(s) + Len(t) /\ ~(i + Len(s) <= Len(s)) /\ (i + Len(s)) - Len(s) = i
      BY <2>2
    <3>2. QED
      BY <2>1, <3>1
  <2>5. QED
    BY <2>1, <2>2, <2>3, <2>4
<1> HIDE DEF both
<1>2. \A i \in Of(both, r) : (i \in Of(s, r)) \/ (i - Len(s) \in Of(t, r) /\ i > Len(s))
  <2> SUFFICES ASSUME NEW i \in Of(both, r), i \notin Of(s, r)
               PROVE  i - Len(s) \in Of(t, r) /\ i > Len(s)
    OBVIOUS
  <2>1. i \in 1..Len(both) /\ both[i].kind = "line" /\ both[i].record = r
    BY <1>1 DEF Of
  <2>2. i > Len(s)
    BY <1>1, <2>1 DEF Of
  <2>3. i - Len(s) \in 1..Len(t) /\ (i - Len(s)) + Len(s) = i
    BY <1>1, <2>1, <2>2
  <2>4. both[i] = t[i - Len(s)]
    BY <1>1, <2>3
  <2>5. QED
    BY <1>1, <2>1, <2>2, <2>3, <2>4 DEF Of
<1>3. \A i \in Of(t, r) : i \in 1..Len(t) /\ i + Len(s) \in Of(both, r)
  <2> SUFFICES ASSUME NEW i \in Of(t, r) PROVE i \in 1..Len(t) /\ i + Len(s) \in Of(both, r)
    OBVIOUS
  <2>1. i \in 1..Len(t) /\ i + Len(s) \in 1..Len(both)
    BY <1>1 DEF Of
  <2>2. both[i + Len(s)] = t[i]
    BY <1>1, <2>1
  <2>3. QED
    BY <1>1, <2>1, <2>2 DEF Of
<1>4. \A i \in Of(s, r) : i \in 1..Len(s) /\ i \in Of(both, r)
  BY <1>1 DEF Of
<1>5. CASE Of(t, r) = {}
  <2>1. \A p : LastVersion(t, r, p) = p
    BY <1>5, LastVersionIs
  <2>2. CASE Of(s, r) = {}
    <3>1. Of(both, r) = {}
      BY <1>2, <1>5, <2>2
    <3>2. LastVersion(both, r, o) = o /\ LastVersion(s, r, o) = o
      BY <1>1, <2>2, <3>1, LastVersionIs
    <3>3. QED
      BY <2>1, <3>2 DEF both
  <2>3. CASE Of(s, r) # {}
    <3>1. PICK m \in Of(s, r) : /\ \A k \in Of(s, r) : k <= m
                                /\ \A p : LastVersion(s, r, p) = s[m].version
      BY <2>3, LastVersionIs
    <3>2. m \in Of(both, r) /\ \A k \in Of(both, r) : k <= m
      BY <1>2, <1>4, <1>5, <3>1
    <3>3. LastVersion(both, r, o) = both[m].version
      BY <1>1, <3>2, LastVersionAt
    <3>4. both[m] = s[m]
      BY <1>1, <1>4, <3>1
    <3>5. QED
      BY <2>1, <3>1, <3>3, <3>4 DEF both
  <2>4. QED
    BY <2>2, <2>3
<1>6. CASE Of(t, r) # {}
  <2>1. PICK m \in Of(t, r) : /\ \A k \in Of(t, r) : k <= m
                              /\ \A p : LastVersion(t, r, p) = t[m].version
    BY <1>6, LastVersionIs
  <2>2. m + Len(s) \in Of(both, r) /\ \A k \in Of(both, r) : k <= m + Len(s)
    <3>1. m \in 1..Len(t) /\ m + Len(s) \in Of(both, r)
      BY <1>3
    <3>2. ASSUME NEW k \in Of(both, r) PROVE k <= m + Len(s)
      <4>1. CASE k \in Of(s, r)
        BY <1>1, <1>4, <3>1, <4>1
      <4>2. CASE k - Len(s) \in Of(t, r) /\ k > Len(s)
        <5>1. k \in Nat /\ k - Len(s) <= m
          BY <1>1, <2>1, <4>2 DEF Of
        <5>2. QED
          BY <1>1, <3>1, <5>1
      <4>3. QED
        BY <1>2, <4>1, <4>2
    <3>3. QED
      BY <3>1, <3>2
  <2>3. LastVersion(both, r, o) = both[m + Len(s)].version
    BY <1>1, <2>2, LastVersionAt
  <2>4. both[m + Len(s)] = t[m]
    BY <1>1, <1>3
  <2>5. QED
    BY <2>1, <2>3, <2>4 DEF both
<1>7. QED
  BY <1>5, <1>6

-----------------------------------------------------------------------------
(* Appending to a log.                                                     *)

LEMMA ConcatKept ==
  ASSUME NEW s \in Seq(Kept), NEW t \in Seq(Kept)
  PROVE  /\ s \o t \in Seq(Kept)
         /\ (IsGarbled(s) \/ IsGarbled(t)) => IsGarbled(s \o t)
<1>1. /\ s \o t \in Seq(Kept) /\ Len(s \o t) = Len(s) + Len(t)
      /\ \A i \in 1 .. Len(s) + Len(t) : (s \o t)[i] = IF i <= Len(s) THEN s[i] ELSE t[i - Len(s)]
  BY ConcatProperties
<1>2. /\ Len(s) \in Nat /\ Len(t) \in Nat
      /\ DOMAIN (s \o t) = 1..Len(s \o t) /\ DOMAIN s = 1..Len(s) /\ DOMAIN t = 1..Len(t)
  BY <1>1, LenProperties
<1> DEFINE both == s \o t
<1> HIDE DEF both
<1>3. ASSUME NEW i \in DOMAIN s, s[i].kind = "garbled" PROVE IsGarbled(both)
  <2>1. i \in 1..Len(s) + Len(t) /\ i <= Len(s)
    BY <1>2
  <2>2. i \in DOMAIN both /\ both[i] = s[i]
    BY <1>1, <1>2, <2>1 DEF both
  <2>3. QED
    BY <1>3, <2>2 DEF IsGarbled
<1>4. ASSUME NEW i \in DOMAIN t, t[i].kind = "garbled" PROVE IsGarbled(both)
  <2>1. i + Len(s) \in 1..Len(s) + Len(t) /\ ~(i + Len(s) <= Len(s)) /\ (i + Len(s)) - Len(s) = i
    BY <1>2
  <2>2. i + Len(s) \in DOMAIN both /\ both[i + Len(s)] = t[i]
    BY <1>1, <1>2, <2>1 DEF both
  <2>3. QED
    BY <1>4, <2>2 DEF IsGarbled
<1>5. QED
  BY <1>1, <1>3, <1>4 DEF IsGarbled, both

\* A log without its torn last line tells the same.
LEMMA FrontTells ==
  ASSUME NEW log \in Seq(Kept), IsTorn(log)
  PROVE  /\ Front(log) \in Seq(Kept) /\ Last(log) \in Kept
         /\ IsGarbled(log) => IsGarbled(Front(log))
         /\ \A r, o : LastVersion(Front(log), r, o) = LastVersion(log, r, o)
<1>1. Len(log) \in Nat \ {0} /\ DOMAIN log = 1..Len(log) /\ log[Len(log)].kind = "torn"
  <2>1. log # <<>> /\ log[Len(log)].kind = "torn"
    BY DEF IsTorn, Last
  <2>2. Tail(log) \in Seq(Kept) /\ Len(Tail(log)) = Len(log) - 1
    BY <2>1, HeadTailProperties
  <2>3. Len(Tail(log)) \in Nat /\ Len(log) \in Nat
    BY <2>2, LenProperties
  <2>4. QED
    BY <2>1, <2>2, <2>3, LenProperties
<1> DEFINE n == Len(log) - 1
<1>2. n \in Nat /\ n < Len(log) /\ \A i \in 1..Len(log) : i \in 1..n \/ i = Len(log)
  <2>1. \A l \in Nat \ {0} : /\ l - 1 \in Nat /\ l - 1 < l
                            /\ \A i \in 1..l : i \in 1..(l - 1) \/ i = l
    OBVIOUS
  <2>2. QED
    BY <1>1, <2>1
<1>3. \A i \in 1..Len(log) : log[i] \in Kept
  BY ElementOfSeq
<1>4. /\ Front(log) \in Seq(Kept) /\ Len(Front(log)) = n /\ \A i \in 1..n : Front(log)[i] = log[i]
  <2>1. /\ SubSeq(log, 1, n) \in Seq(Kept)
        /\ Len(SubSeq(log, 1, n)) = IF 1 <= n THEN n - 1 + 1 ELSE 0
        /\ \A i \in 1..n - 1 + 1 : SubSeq(log, 1, n)[i] = log[1 + i - 1]
    BY <1>2, <1>3, SubSeqProperties
  <2>2. /\ (IF 1 <= n THEN n - 1 + 1 ELSE 0) = n /\ n - 1 + 1 = n
        /\ \A i \in 1..n : 1 + i - 1 = i
    BY <1>2
  <2>3. SubSeq(log, 1, n) = Front(log)
    BY DEF Front
  <2> HIDE DEF n
  <2>4. QED
    BY <2>1, <2>2, <2>3
<1> DEFINE f == Front(log)
<1>5. f \in Seq(Kept) /\ DOMAIN f = 1..n /\ \A i \in 1..n : f[i] = log[i]
  BY <1>4, LenProperties
<1> HIDE DEF n, f
<1>6. ASSUME NEW r PROVE Of(f, r) = Of(log, r)
  <2>1. ASSUME NEW i \in Of(log, r) PROVE i \in Of(f, r)
    <3>1. i \in 1..Len(log) /\ log[i].kind = "line" /\ log[i].record = r
      BY <1>1 DEF Of
    <3>2. i \in 1..n
      BY <1>1, <1>2, <3>1
    <3>3. QED
      BY <1>5, <3>1, <3>2 DEF Of
  <2>2. ASSUME NEW i \in Of(f, r) PROVE i \in Of(log, r)
    <3>1. i \in 1..n /\ log[i].kind = "line" /\ log[i].record = r
      BY <1>5 DEF Of
    <3>2. i \in DOMAIN log
      <4>1. i \in 1..n /\ n \in Nat /\ n < Len(log) /\ Len(log) \in Nat
        BY <1>1, <1>2, <3>1
      <4>2. i \in 1..Len(log)
        BY <4>1
      <4>3. QED
        BY <1>1, <4>2
    <3>3. QED
      BY <3>1, <3>2 DEF Of
  <2>3. QED
    BY <2>1, <2>2
<1>7. ASSUME NEW r, NEW o PROVE LastVersion(f, r, o) = LastVersion(log, r, o)
  <2>1. CASE Of(f, r) = {}
    BY <1>5, <1>6, <2>1, LastVersionIs
  <2>2. CASE Of(f, r) # {}
    <3>1. PICK m \in Of(log, r) : /\ \A k \in Of(log, r) : k <= m
                                  /\ \A p : LastVersion(log, r, p) = log[m].version
      BY <1>6, <2>2, LastVersionIs
    <3>2. m \in Of(f, r) /\ \A k \in Of(f, r) : k <= m
      BY <1>6, <3>1
    <3>3. LastVersion(f, r, o) = f[m].version
      BY <1>5, <3>2, LastVersionAt
    <3>4. m \in 1..n
      BY <1>5, <3>2 DEF Of
    <3>5. QED
      BY <1>5, <3>1, <3>3, <3>4
  <2>3. QED
    BY <2>1, <2>2
<1>8. IsGarbled(log) => IsGarbled(f)
  BY <1>1, <1>2, <1>5 DEF IsGarbled
<1>9. Last(log) \in Kept
  BY <1>1, <1>3 DEF Last
<1>10. QED
  BY <1>5, <1>7, <1>8, <1>9 DEF f

\* Unless the append went on after a torn line, a log tells of a record what the
\* lines that were appended tell, and otherwise what it told before; and nothing
\* repairs a garbled log.
LEMMA AppendedTells ==
  ASSUME NEW log \in Seq(Kept), NEW lines \in Seq(Kept), NEW completes
  PROVE  LET new == Appended(log, lines, completes)
         IN  /\ new \in Seq(Kept)
             /\ IsGarbled(log) => IsGarbled(new)
             /\ \/ IsGarbled(new)
                \/ \A r, o : LastVersion(new, r, o) = LastVersion(lines, r, LastVersion(log, r, o))
<1> DEFINE new == Appended(log, lines, completes)
<1>1. CASE lines = <<>>
  <2>1. new = log
    BY <1>1 DEF Appended
  <2>2. \A r, o : LastVersion(lines, r, o) = o
    <3>1. \A r : Of(lines, r) = {}
      BY <1>1 DEF Of
    <3>2. QED
      BY <3>1, LastVersionIs
  <2>3. QED
    BY <2>1, <2>2
<1>2. CASE lines # <<>> /\ ~IsTorn(log)
  <2>1. new = log \o lines
    BY <1>2 DEF Appended
  <2>2. QED
    BY <2>1, ConcatKept, LastOfBoth
<1>3. CASE lines # <<>> /\ IsTorn(log) /\ completes
  <2>1. new = Front(log) \o lines
    BY <1>3 DEF Appended
  <2>2. QED
    <3>1. /\ Front(log) \in Seq(Kept)
          /\ IsGarbled(log) => IsGarbled(Front(log))
          /\ \A r, o : LastVersion(Front(log), r, o) = LastVersion(log, r, o)
      BY <1>3, FrontTells
    <3>2. \A r, o : LastVersion(new, r, o) = LastVersion(lines, r, LastVersion(log, r, o))
      BY <2>1, <3>1, LastOfBoth
    <3>3. new \in Seq(Kept) /\ (IsGarbled(log) => IsGarbled(new))
      BY <2>1, <3>1, ConcatKept
    <3>4. QED
      BY <3>2, <3>3
<1>4. CASE lines # <<>> /\ IsTorn(log) /\ ~completes
  <2>1. new = Front(log) \o <<Garbled(Last(log))>> \o Tail(lines)
    BY <1>4 DEF Appended
  <2>2. Front(log) \in Seq(Kept) /\ Last(log) \in Kept
    BY <1>4, FrontTells
  <2>3. Garbled(Last(log)) \in Kept /\ Garbled(Last(log)).kind = "garbled"
    BY <2>2 DEF Garbled, Kept
  <2>4. <<Garbled(Last(log))>> \in Seq(Kept) /\ IsGarbled(<<Garbled(Last(log))>>)
    BY <2>3 DEF IsGarbled
  <2>5. Tail(lines) \in Seq(Kept)
    BY <1>4, HeadTailProperties
  <2>6. /\ Front(log) \o <<Garbled(Last(log))>> \in Seq(Kept)
        /\ IsGarbled(Front(log) \o <<Garbled(Last(log))>>)
    BY <2>2, <2>4, ConcatKept
  <2>7. new \in Seq(Kept) /\ IsGarbled(new)
    BY <2>1, <2>5, <2>6, ConcatKept
  <2>8. QED
    BY <2>7
<1>5. QED
  BY <1>1, <1>2, <1>3, <1>4

\* The lines that got out of a write before it stopped, and those that did not.
LEMMA CutTells ==
  ASSUME NEW lines \in Seq(Lines), NEW c \in Cuts(lines)
  PROVE  /\ Cut(lines, c[1], c[2]) \in Seq(Kept)
         /\ SubSeq(lines, c[1] + 1, Len(lines)) \in Seq(Lines)
         /\ \A v, r : (\A i \in 1..Len(lines) : lines[i].record = r => lines[i].version >= v) =>
              \A o : o >= v => LastVersion(Cut(lines, c[1], c[2]), r, o) >= v
         /\ LET rest == SubSeq(lines, c[1] + 1, Len(lines))
            IN  \A i \in 1..Len(rest) : \E j \in 1..Len(lines) : rest[i] = lines[j]
<1> DEFINE k == c[1]
           n == Len(lines)
           first == SubSeq(lines, 1, k)
           last == IF c[2] THEN <<Torn(lines[k + 1])>> ELSE <<>>
           rest == SubSeq(lines, k + 1, n)
<1>1. k \in 0..n /\ n \in Nat /\ (c[2] => k < n)
  BY LenProperties DEF Cuts
<1>2. \A i \in 1..n : lines[i] \in Lines
  BY ElementOfSeq
<1>3. Lines \subseteq Kept
  BY DEF Lines, Kept
<1>4. /\ first \in Seq(Lines) /\ Len(first) = k /\ \A i \in 1..k : first[i] = lines[i]
  <2>1. \A i \in 1..k : lines[i] \in Lines
    BY <1>1, <1>2
  <2>2. /\ first \in Seq(Lines) /\ Len(first) = IF 1 <= k THEN k - 1 + 1 ELSE 0
        /\ \A i \in 1..k - 1 + 1 : first[i] = lines[1 + i - 1]
    BY <1>1, <2>1, SubSeqProperties
  <2>3. /\ (IF 1 <= k THEN k - 1 + 1 ELSE 0) = k /\ k - 1 + 1 = k
        /\ \A i \in 1..k : 1 + i - 1 = i
    BY <1>1
  <2> HIDE DEF k, first
  <2>4. QED
    BY <2>2, <2>3
<1>5. /\ rest \in Seq(Lines)
      /\ \A i \in 1..Len(rest) : i + k \in 1..n /\ rest[i] = lines[i + k]
  <2>1. \A i \in k + 1..n : lines[i] \in Lines
    BY <1>1, <1>2
  <2>2. /\ rest \in Seq(Lines) /\ Len(rest) = IF k + 1 <= n THEN n - (k + 1) + 1 ELSE 0
        /\ \A i \in 1..n - (k + 1) + 1 : rest[i] = lines[(k + 1) + i - 1]
    BY <1>1, <2>1, SubSeqProperties
  <2>3. /\ (IF k + 1 <= n THEN n - (k + 1) + 1 ELSE 0) = n - k /\ n - (k + 1) + 1 = n - k
        /\ \A i \in 1..n - k : (k + 1) + i - 1 = i + k /\ i + k \in 1..n
    BY <1>1
  <2> HIDE DEF k, n, rest
  <2>4. QED
    BY <2>2, <2>3
<1>6. last \in Seq(Kept) /\ \A r : Of(last, r) = {}
  <2>1. CASE c[2]
    <3>1. lines[k + 1] \in Lines
      BY <1>1, <1>2, <2>1
    <3>2. Torn(lines[k + 1]) \in Kept /\ Torn(lines[k + 1]).kind = "torn"
      BY <3>1 DEF Torn, Lines, Kept
    <3>3. last = <<Torn(lines[k + 1])>>
      BY <2>1
    <3> HIDE DEF last
    <3>4. QED
      BY <3>2, <3>3 DEF Of
  <2>2. CASE ~c[2]
    <3>1. last = <<>>
      BY <2>2
    <3> HIDE DEF last
    <3>2. QED
      BY <3>1 DEF Of
  <2>3. QED
    BY <2>1, <2>2
<1>7. first \in Seq(Kept)
  BY <1>3, <1>4, SeqMonotonic
<1>8. Cut(lines, k, c[2]) = first \o last
  BY DEF Cut
<1> HIDE DEF k, n, first, last, rest
<1>9. first \o last \in Seq(Kept)
  BY <1>6, <1>7, ConcatKept
<1>10. ASSUME NEW v, NEW r, \A i \in 1..n : lines[i].record = r => lines[i].version >= v
       PROVE  \A o : o >= v => LastVersion(first \o last, r, o) >= v
  <2>1. ASSUME NEW o, o >= v PROVE LastVersion(first \o last, r, o) >= v
    <3>1. LastVersion(first \o last, r, o) = LastVersion(first, r, o)
      <4>1. LastVersion(first \o last, r, o) = LastVersion(last, r, LastVersion(first, r, o))
        BY <1>6, <1>7, LastOfBoth
      <4>2. \A p : LastVersion(last, r, p) = p
        BY <1>6, LastVersionIs
      <4>3. QED
        BY <4>1, <4>2
    <3>2. CASE LastVersion(first, r, o) = o
      BY <2>1, <3>1, <3>2
    <3>3. CASE \E m \in Of(first, r) : LastVersion(first, r, o) = first[m].version
      <4>1. PICK m \in Of(first, r) : LastVersion(first, r, o) = first[m].version
        BY <3>3
      <4>2. m \in 1..k /\ first[m].record = r
        BY <1>4, LenProperties DEF Of
      <4>3. m \in 1..n /\ first[m] = lines[m]
        BY <1>1, <1>4, <4>2
      <4>4. QED
        BY <1>10, <3>1, <4>1, <4>2, <4>3
    <3>4. QED
      BY <1>7, <3>2, <3>3, LastVersionIs
  <2>2. QED
    BY <2>1
<1>11. QED
  BY <1>5, <1>8, <1>9, <1>10 DEF k, n, rest

\* Lines that are no older than v and no newer than w tell of nothing older or newer.
LEMMA LinesTell ==
  ASSUME NEW lines \in Seq(Lines), NEW r, NEW v \in Nat, NEW w \in Nat,
         \A i \in 1..Len(lines) : lines[i].record = r => lines[i].version \in v..w
  PROVE  /\ \A o \in Nat : o >= v => LastVersion(lines, r, o) >= v
         /\ \A o \in v..w : LastVersion(lines, r, o) \in v..w
<1>1. lines \in Seq(Kept)
  <2>1. Lines \subseteq Kept
    BY DEF Lines, Kept
  <2>2. QED
    BY <2>1, SeqMonotonic
<1>2. CASE \A o : LastVersion(lines, r, o) = o
  BY <1>2
<1>3. CASE \E m \in Of(lines, r) : \A o : LastVersion(lines, r, o) = lines[m].version
  <2>1. PICK m \in Of(lines, r) : \A o : LastVersion(lines, r, o) = lines[m].version
    BY <1>3
  <2>2. m \in 1..Len(lines) /\ lines[m].record = r
    BY LenProperties DEF Of
  <2>3. lines[m].version \in v..w
    BY <2>2
  <2>4. QED
    BY <2>1, <2>3
<1>4. QED
  BY <1>1, <1>2, <1>3, LastVersionIs

LEMMA LinesKept == \A lines \in Seq(Lines) : lines \in Seq(Kept)
<1>1. Lines \subseteq Kept
  BY DEF Lines, Kept
<1>2. QED
  BY <1>1, SeqMonotonic

\* What is told of a record is a version.
LEMMA LastVersionTyped ==
  ASSUME NEW log \in Seq(Kept), NEW r, NEW o \in Nat
  PROVE  LastVersion(log, r, o) \in Nat
<1>1. \A m \in Of(log, r) : log[m] \in Kept
  BY ElementOfSeq, LenProperties DEF Of
<1>2. \A m \in Of(log, r) : log[m].version \in Nat
  BY <1>1 DEF Kept
<1>3. QED
  BY <1>2, LastVersionIs

-----------------------------------------------------------------------------
(* The exporters' lines are those of ExportLog.                            *)

LEMMA JsonlLog ==
  /\ \A r, v : Jsonl!Line(r, v) = Line(r, v)
  /\ Jsonl!Lines = Lines /\ Jsonl!Kept = Kept
  /\ \A log : Jsonl!IsGarbled(log) = IsGarbled(log)
  /\ \A log, lines, completes : Jsonl!Appended(log, lines, completes) = Appended(log, lines, completes)
  /\ \A lines : Jsonl!Cuts(lines) = Cuts(lines)
  /\ \A lines, k, cut : Jsonl!Cut(lines, k, cut) = Cut(lines, k, cut)
  /\ \A log, r, o : Jsonl!LastVersion(log, r, o) = LastVersion(log, r, o)
BY DEF Jsonl!Line, Line, Jsonl!Lines, Lines, Jsonl!Kept, Kept, Jsonl!IsGarbled, IsGarbled, Jsonl!Appended, Appended, Jsonl!IsTorn, IsTorn,
       Jsonl!Garbled, Garbled, Jsonl!Cuts, Cuts, Jsonl!Cut, Cut, Jsonl!Torn, Torn,
       Jsonl!LastVersion, LastVersion, Jsonl!Front, Front, Jsonl!Last, Last

LEMMA CsvLog ==
  /\ \A r, v : Csv!Line(r, v) = Line(r, v)
  /\ Csv!Lines = Lines /\ Csv!Kept = Kept
  /\ \A log : Csv!IsGarbled(log) = IsGarbled(log)
  /\ \A log, lines, completes : Csv!Appended(log, lines, completes) = Appended(log, lines, completes)
  /\ \A lines : Csv!Cuts(lines) = Cuts(lines)
  /\ \A lines, k, cut : Csv!Cut(lines, k, cut) = Cut(lines, k, cut)
  /\ \A log, r, o : Csv!LastVersion(log, r, o) = LastVersion(log, r, o)
BY DEF Csv!Line, Line, Csv!Lines, Lines, Csv!Kept, Kept, Csv!IsGarbled, IsGarbled, Csv!Appended, Appended, Csv!IsTorn, IsTorn,
       Csv!Garbled, Garbled, Csv!Cuts, Cuts, Csv!Cut, Cut, Csv!Torn, Torn,
       Csv!LastVersion, LastVersion, Csv!Front, Front, Csv!Last, Last

-----------------------------------------------------------------------------
(* The JSONL file.                                                         *)

\* What the log tells is no older than what a flush returned for.
Covers(log) == IsGarbled(log) \/ \A r \in Records : LastVersion(log, r, 0) >= delivered[r]

\* Lines that tell of nothing older leave it so.
LEMMA AppendedCovers ==
  ASSUME delivered \in [Records -> Nat],
         NEW log \in Seq(Kept), Covers(log), NEW lines \in Seq(Kept), NEW completes,
         \A r \in Records, o \in Nat : o >= delivered[r] => LastVersion(lines, r, o) >= delivered[r]
  PROVE  Appended(log, lines, completes) \in Seq(Kept) /\ Covers(Appended(log, lines, completes))
<1> DEFINE new == Appended(log, lines, completes)
<1>1. /\ new \in Seq(Kept)
      /\ IsGarbled(log) => IsGarbled(new)
      /\ IsGarbled(new) \/ \A r, o : LastVersion(new, r, o) = LastVersion(lines, r, LastVersion(log, r, o))
  BY AppendedTells
<1> HIDE DEF new
<1>2. ASSUME ~IsGarbled(new), NEW r \in Records PROVE LastVersion(new, r, 0) >= delivered[r]
  <2>1. LastVersion(log, r, 0) \in Nat /\ LastVersion(log, r, 0) >= delivered[r]
    BY <1>1, <1>2, LastVersionTyped DEF Covers
  <2>2. LastVersion(lines, r, LastVersion(log, r, 0)) >= delivered[r]
    BY <2>1
  <2>3. QED
    BY <1>1, <1>2, <2>2
<1>3. QED
  BY <1>1, <1>2 DEF Covers, new

\* The invariant, in the words of ExportLog.
LEMMA JsonlInvIs ==
  Jsonl!KeepInv <=>
    /\ file \in Seq(Kept) /\ buffered \in Seq(Lines) /\ pending \in Seq(Lines)
    /\ delivered \in [Records -> Nat] /\ writes \in Nat
    /\ Jsonl!Newer(buffered) /\ Jsonl!Newer(pending)
    /\ \A r \in Records : delivered[r] <= writes
    /\ Covers(file)
BY JsonlLog DEF Jsonl!KeepInv, Jsonl!Typed, Jsonl!NeverLostUnlessGarbled, Jsonl!NeverLost, Covers

LEMMA JsonlInit == Jsonl!Init => Jsonl!KeepInv
<1> SUFFICES ASSUME Jsonl!Init PROVE Jsonl!KeepInv
  OBVIOUS
<1>1. <<>> \in Seq(Kept) /\ <<>> \in Seq(Lines)
  BY EmptySeq
<1>2. Covers(<<>>)
  <2>1. \A r : Of(<<>>, r) = {}
    BY DEF Of
  <2>2. \A r : LastVersion(<<>>, r, 0) = 0
    BY <1>1, <2>1, LastVersionIs
  <2>3. QED
    BY <2>2 DEF Covers, Jsonl!Init
<1>3. QED
  BY <1>1, <1>2, JsonlInvIs DEF Jsonl!Init, Jsonl!Newer

\* No line is no older line.
LEMMA NothingOlder == <<>> \in Seq(Lines) /\ Jsonl!Newer(<<>>)
<1>1. <<>> \in Seq(Lines) /\ Len(<<>>) = 0
  BY EmptySeq
<1>2. QED
  BY <1>1 DEF Jsonl!Newer

\* Newer lines tell of nothing older.
LEMMA NewerTells ==
  ASSUME delivered \in [Records -> Nat], writes \in Nat, NEW lines \in Seq(Lines), Jsonl!Newer(lines),
         NEW r \in Records
  PROVE  /\ \A o \in Nat : o >= delivered[r] => LastVersion(lines, r, o) >= delivered[r]
         /\ \A o \in delivered[r]..writes : LastVersion(lines, r, o) \in delivered[r]..writes
<1>1. \A i \in 1..Len(lines) : lines[i].record = r => lines[i].version \in delivered[r]..writes
  BY DEF Jsonl!Newer
<1>2. delivered[r] \in Nat
  OBVIOUS
<1>3. QED
  BY <1>1, <1>2, LinesTell

\* So do those of them that got out, and those that did not are as new.
LEMMA NewerCut ==
  ASSUME delivered \in [Records -> Nat], writes \in Nat, NEW lines \in Seq(Lines), Jsonl!Newer(lines),
         NEW c \in Cuts(lines)
  PROVE  /\ Cut(lines, c[1], c[2]) \in Seq(Kept)
         /\ \A r \in Records, o \in Nat :
              o >= delivered[r] => LastVersion(Cut(lines, c[1], c[2]), r, o) >= delivered[r]
         /\ SubSeq(lines, c[1] + 1, Len(lines)) \in Seq(Lines)
         /\ Jsonl!Newer(SubSeq(lines, c[1] + 1, Len(lines)))
<1> DEFINE rest == SubSeq(lines, c[1] + 1, Len(lines))
<1>1. /\ Cut(lines, c[1], c[2]) \in Seq(Kept) /\ rest \in Seq(Lines)
      /\ \A v, r : (\A i \in 1..Len(lines) : lines[i].record = r => lines[i].version >= v) =>
           \A o : o >= v => LastVersion(Cut(lines, c[1], c[2]), r, o) >= v
      /\ \A i \in 1..Len(rest) : \E j \in 1..Len(lines) : rest[i] = lines[j]
  BY CutTells
<1> HIDE DEF rest
<1>2. ASSUME NEW r \in Records, NEW o \in Nat, o >= delivered[r]
      PROVE  LastVersion(Cut(lines, c[1], c[2]), r, o) >= delivered[r]
  <2>1. \A i \in 1..Len(lines) : lines[i].record = r => lines[i].version >= delivered[r]
    BY DEF Jsonl!Newer
  <2>2. QED
    BY <1>1, <1>2, <2>1
<1>3. Jsonl!Newer(rest)
  BY <1>1 DEF Jsonl!Newer
<1>4. QED
  BY <1>1, <1>2, <1>3 DEF rest

\* What the handle had kept is no older either.
LEMMA SettledCovers ==
  ASSUME Jsonl!KeepInv
  PROVE  Jsonl!Settled = Appended(file, buffered, TRUE) /\ Jsonl!Settled \in Seq(Kept) /\ Covers(Jsonl!Settled)
<1>1. Jsonl!Settled = Appended(file, buffered, TRUE)
  BY JsonlLog DEF Jsonl!Settled
<1>2. \A r \in Records, o \in Nat : o >= delivered[r] => LastVersion(buffered, r, o) >= delivered[r]
  BY JsonlInvIs, NewerTells
<1>3. QED
  BY <1>1, <1>2, JsonlInvIs, LinesKept, AppendedCovers

\* A step that appends no older lines and takes back no promise keeps the invariant.
LEMMA JsonlKeeps ==
  ASSUME Jsonl!KeepInv, delivered' = delivered, writes' = writes,
         file' \in Seq(Kept), Covers(file'),
         buffered' \in Seq(Lines), Jsonl!Newer(buffered'),
         pending' = pending \/ pending' = <<>>
  PROVE  Jsonl!KeepInv'
<1>1. <<>> \in Seq(Lines) /\ Jsonl!Newer(<<>>)
  BY NothingOlder
<1>2. pending' \in Seq(Lines) /\ Jsonl!Newer(pending')
  BY <1>1, JsonlInvIs
<1>3. Jsonl!Newer(buffered)' /\ Jsonl!Newer(pending)'
  BY <1>2 DEF Jsonl!Newer
<1>4. Covers(file)'
  BY DEF Covers
<1>5. QED
  BY <1>2, <1>3, <1>4, JsonlInvIs, JsonlLog
     DEF Jsonl!KeepInv, Jsonl!Typed, Jsonl!NeverLostUnlessGarbled, Jsonl!NeverLost, Covers

LEMMA JsonlWrites ==
  ASSUME Jsonl!KeepInv, NEW r \in Records, Jsonl!Write(r)
  PROVE  Jsonl!KeepInv'
<1> DEFINE line == Line(r, writes + 1)
<1>1. /\ writes' = writes + 1 /\ pending' = Append(pending, line)
      /\ file' = file /\ buffered' = buffered /\ delivered' = delivered
  BY JsonlLog DEF Jsonl!Write
<1>2. /\ file \in Seq(Kept) /\ buffered \in Seq(Lines) /\ pending \in Seq(Lines)
      /\ delivered \in [Records -> Nat] /\ writes \in Nat
      /\ Jsonl!Newer(buffered) /\ Jsonl!Newer(pending)
      /\ \A q \in Records : delivered[q] <= writes
      /\ Covers(file)
  BY JsonlInvIs
<1>3. line \in Lines /\ line.record = r /\ line.version = writes + 1
  BY <1>2 DEF Line, Lines
<1> HIDE DEF line
<1>4. pending' \in Seq(Lines) /\ Jsonl!Newer(pending)'
  <2>1. /\ Append(pending, line) \in Seq(Lines) /\ Len(Append(pending, line)) = Len(pending) + 1
        /\ \A i \in 1..Len(pending) : Append(pending, line)[i] = pending[i]
        /\ Append(pending, line)[Len(pending) + 1] = line
    BY <1>2, <1>3, AppendProperties
  <2>2. Len(pending) \in Nat /\ \A i \in 1..Len(pending) : pending[i] \in Lines
    BY <1>2, LenProperties, ElementOfSeq
  <2>3. ASSUME NEW i \in 1..Len(pending) + 1
        PROVE  Append(pending, line)[i].version
                 \in delivered[Append(pending, line)[i].record]..(writes + 1)
    <3>1. CASE i \in 1..Len(pending)
      BY <1>2, <2>1, <2>2, <3>1 DEF Jsonl!Newer, Lines
    <3>2. CASE i = Len(pending) + 1
      BY <1>2, <1>3, <2>1, <3>2
    <3>3. QED
      BY <2>2, <2>3, <3>1, <3>2
  <2>4. QED
    BY <1>1, <2>1, <2>3 DEF Jsonl!Newer
<1>5. Jsonl!Newer(buffered)'
  <2>1. \A i \in 1..Len(buffered) : buffered[i] \in Lines
    BY <1>2, ElementOfSeq
  <2>2. QED
    BY <1>1, <1>2, <2>1 DEF Jsonl!Newer, Lines
<1>6. (\A q \in Records : delivered[q] <= writes)' /\ Covers(file)'
  BY <1>1, <1>2 DEF Covers
<1>7. QED
  BY <1>1, <1>2, <1>4, <1>5, <1>6, JsonlLog
     DEF Jsonl!KeepInv, Jsonl!Typed, Jsonl!NeverLostUnlessGarbled, Jsonl!NeverLost, Covers

LEMMA JsonlFlushes ==
  ASSUME Jsonl!KeepInv, Jsonl!FlushReturns
  PROVE  Jsonl!KeepInv'
<1>1. /\ file' = Appended(Jsonl!Settled, pending, FALSE) /\ buffered' = <<>> /\ pending' = <<>>
      /\ writes' = writes
  BY JsonlLog DEF Jsonl!FlushReturns
<1>2. delivered' = [r \in Records |-> IF r \in page THEN LastVersion(pending, r, delivered[r]) ELSE delivered[r]]
  BY JsonlLog DEF Jsonl!FlushReturns, Jsonl!Latest
<1>3. /\ file \in Seq(Kept) /\ pending \in Seq(Lines) /\ Jsonl!Newer(pending)
      /\ delivered \in [Records -> Nat] /\ writes \in Nat
      /\ \A r \in Records : delivered[r] <= writes
  BY JsonlInvIs
<1>4. ASSUME NEW r \in Records
      PROVE  delivered'[r] \in delivered[r]..writes
  <2>1. delivered[r] \in delivered[r]..writes
    BY <1>3
  <2>2. LastVersion(pending, r, delivered[r]) \in delivered[r]..writes
    BY <1>3, <2>1, NewerTells
  <2>3. QED
    BY <1>2, <2>1, <2>2
<1>5. /\ delivered' \in [Records -> Nat] /\ \A r \in Records : delivered'[r] <= writes
  <2>1. \A r \in Records : delivered'[r] \in Nat /\ delivered'[r] <= writes
    BY <1>3, <1>4
  <2>2. delivered' = [r \in Records |-> delivered'[r]]
    BY <1>2
  <2>3. QED
    BY <2>1, <2>2
<1>6. file' \in Seq(Kept) /\ Covers(file)'
  <2>1. /\ Jsonl!Settled \in Seq(Kept) /\ Covers(Jsonl!Settled) /\ pending \in Seq(Kept)
    BY <1>3, SettledCovers, LinesKept
  <2>2. /\ file' \in Seq(Kept)
        /\ IsGarbled(Jsonl!Settled) => IsGarbled(file')
        /\ \/ IsGarbled(file')
           \/ \A r, o : LastVersion(file', r, o) = LastVersion(pending, r, LastVersion(Jsonl!Settled, r, o))
    BY <1>1, <2>1, AppendedTells
  <2>3. ASSUME ~IsGarbled(file'), NEW r \in Records PROVE LastVersion(file', r, 0) >= delivered'[r]
    <3> DEFINE o == LastVersion(Jsonl!Settled, r, 0)
    <3>1. o \in Nat /\ o >= delivered[r]
      BY <2>1, <2>2, <2>3, LastVersionTyped DEF Covers
    <3>2. LastVersion(file', r, 0) = LastVersion(pending, r, o)
      BY <2>2, <2>3
    <3> HIDE DEF o
    <3>3. LastVersion(pending, r, o) >= delivered[r]
      BY <1>3, <3>1, NewerTells
    <3>4. \/ LastVersion(pending, r, delivered[r]) = delivered[r]
          \/ LastVersion(pending, r, delivered[r]) = LastVersion(pending, r, o)
      BY <2>1, LastVersionIs
    <3>5. LastVersion(pending, r, o) \in Nat
      BY <2>1, <3>1, LastVersionTyped
    <3>6. QED
      BY <1>2, <1>3, <3>2, <3>3, <3>4, <3>5
  <2>4. QED
    BY <2>2, <2>3 DEF Covers
<1>7. /\ <<>> \in Seq(Lines) /\ Jsonl!Newer(buffered)' /\ Jsonl!Newer(pending)'
  BY <1>1, EmptySeq DEF Jsonl!Newer
<1>8. QED
  BY <1>1, <1>3, <1>5, <1>6, <1>7, JsonlLog
     DEF Jsonl!KeepInv, Jsonl!Typed, Jsonl!NeverLostUnlessGarbled, Jsonl!NeverLost, Covers

LEMMA JsonlStep == Jsonl!KeepInv /\ [Jsonl!Next]_Jsonl!vars => Jsonl!KeepInv'
<1> SUFFICES ASSUME Jsonl!KeepInv, [Jsonl!Next]_Jsonl!vars PROVE Jsonl!KeepInv'
  OBVIOUS
<1> USE DEF Jsonl!caller
<1>0. /\ file \in Seq(Kept) /\ Covers(file) /\ buffered \in Seq(Lines) /\ Jsonl!Newer(buffered)
      /\ pending \in Seq(Lines) /\ Jsonl!Newer(pending)
      /\ delivered \in [Records -> Nat] /\ writes \in Nat
      /\ <<>> \in Seq(Lines) /\ Jsonl!Newer(<<>>)
  BY JsonlInvIs, NothingOlder
<1>1. CASE UNCHANGED Jsonl!vars \/ Jsonl!Open \/ Jsonl!Close
  BY <1>0, <1>1, JsonlKeeps DEF Jsonl!vars, Jsonl!Open, Jsonl!Close
<1>2. CASE Jsonl!FlushReturns
  BY <1>2, JsonlFlushes
<1>3. CASE Jsonl!TruncatedBack
  BY <1>0, <1>3, SettledCovers, JsonlKeeps DEF Jsonl!TruncatedBack, Jsonl!FlushRaises
<1>4. CASE Jsonl!NotTruncated
  <2>1. PICK c \in Cuts(pending) :
          /\ file' = Appended(Jsonl!Settled, Cut(pending, c[1], c[2]), FALSE)
          /\ buffered' \in {<<>>, SubSeq(pending, c[1] + 1, Len(pending))}
    BY <1>4, JsonlLog DEF Jsonl!NotTruncated
  <2>2. file' \in Seq(Kept) /\ Covers(file')
    BY <1>0, <2>1, SettledCovers, NewerCut, AppendedCovers
  <2>3. buffered' \in Seq(Lines) /\ Jsonl!Newer(buffered')
    BY <1>0, <2>1, NewerCut
  <2>4. QED
    BY <1>4, <2>2, <2>3, JsonlKeeps DEF Jsonl!NotTruncated, Jsonl!FlushRaises
<1>5. CASE Jsonl!TellRaises
  <2>1. PICK c \in Cuts(buffered) :
          /\ file' = Appended(file, Cut(buffered, c[1], c[2]), TRUE)
          /\ buffered' = SubSeq(buffered, c[1] + 1, Len(buffered))
    BY <1>5, JsonlLog DEF Jsonl!TellRaises
  <2>2. file' \in Seq(Kept) /\ Covers(file')
    BY <1>0, <2>1, NewerCut, AppendedCovers
  <2>3. buffered' \in Seq(Lines) /\ Jsonl!Newer(buffered')
    BY <1>0, <2>1, NewerCut
  <2>4. QED
    BY <1>5, <2>2, <2>3, JsonlKeeps DEF Jsonl!TellRaises, Jsonl!FlushRaises
<1>6. CASE Jsonl!Crash
  <2>1. CASE UNCHANGED file
    BY <1>0, <1>6, <2>1, JsonlKeeps DEF Jsonl!Crash
  <2>2. CASE \E c \in Cuts(buffered) : file' = Appended(file, Cut(buffered, c[1], c[2]), TRUE)
    <3>1. file' \in Seq(Kept) /\ Covers(file')
      BY <1>0, <2>2, NewerCut, AppendedCovers
    <3>2. QED
      BY <1>0, <1>6, <3>1, JsonlKeeps DEF Jsonl!Crash
  <2>3. CASE \E c \in Cuts(pending) : file' = Appended(Jsonl!Settled, Cut(pending, c[1], c[2]), FALSE)
    <3>1. file' \in Seq(Kept) /\ Covers(file')
      BY <1>0, <2>3, SettledCovers, NewerCut, AppendedCovers
    <3>2. QED
      BY <1>0, <1>6, <3>1, JsonlKeeps DEF Jsonl!Crash
  <2>4. QED
    BY <1>6, <2>1, <2>2, <2>3, JsonlLog DEF Jsonl!Crash
<1>7. CASE \E r \in Records : Jsonl!Write(r)
  BY <1>7, JsonlWrites
<1>8. QED
  BY <1>1, <1>2, <1>3, <1>4, <1>5, <1>6, <1>7 DEF Jsonl!Next

\* The exporters share what the pipeline has queued, so the invariant is of the
\* behaviours of this one.
JsonlInv == sink = "jsonl" => Jsonl!KeepInv

LEMMA JsonlInvHolds == Spec => []JsonlInv
<1>1. Init => JsonlInv
  BY JsonlInit DEF Init, JsonlInv
<1>2. JsonlInv /\ [Next]_vars => JsonlInv'
  <2>1. ASSUME [Next]_vars PROVE sink' = sink /\ (sink = "jsonl" => [Jsonl!Next]_Jsonl!vars)
    BY <2>1 DEF Next, vars, jsonlVars, logVars, counters, Jsonl!vars, Jsonl!caller
  <2>2. QED
    BY <2>1, JsonlStep DEF JsonlInv
<1>3. QED
  BY <1>1, <1>2, PTL DEF Spec

\* What a flush returned for is the last that the JSONL file says of a record,
\* through faults, retries and crashes, unless an append went on after a torn line.
THEOREM JsonlNeverLoses == Spec => []JsonlNeverLost
<1>1. JsonlInv => JsonlNeverLost
  BY DEF JsonlInv, Jsonl!KeepInv, JsonlNeverLost
<1>2. QED
  BY <1>1, JsonlInvHolds, PTL

-----------------------------------------------------------------------------
(* The CSV file and its journal.                                           *)

\* What the journal tells on top of the table is no older than what a flush
\* returned for.
Recovers(log) ==
  IsGarbled(log) \/ \A r \in Records : LastVersion(log, r, table[r]) >= delivered[r]

\* What is queued for a record r that was last written as v.
QueuedFor(lines, r, v) ==
  \A i \in 1..Len(lines) :
    lines[i].record = r => lines[i].version \in delivered[r]..writes /\ v >= lines[i].version

\* The invariant, in the words of ExportLog.
CsvWords ==
  /\ journal \in Seq(Kept) /\ pending \in Seq(Lines)
  /\ table \in [Records -> Nat] /\ rows \in [Records -> Nat] /\ delivered \in [Records -> Nat]
  /\ writes \in Nat
  /\ phase \in {"closed", "loading", "opened", "closing"} /\ renamed \in BOOLEAN
  /\ phase # "opened" => pending = <<>>
  /\ \A r \in Records : QueuedFor(pending, r, rows[r])
  /\ \A r \in Records : delivered[r] <= writes
  /\ phase # "closed" => \A r \in Records : rows[r] >= delivered[r]
  /\ renamed => phase \in {"loading", "closing"} /\ table = rows
  /\ Recovers(journal)

LEMMA CsvInvIs == Csv!RecoverInv <=> CsvWords
<1>1. ASSUME pending \in Seq(Lines)
      PROVE  (\A r \in Records : QueuedFor(pending, r, rows[r])) <=>
             \A i \in 1..Len(pending) :
               LET line == pending[i]
               IN  line.version \in delivered[line.record]..writes /\ rows[line.record] >= line.version
  <2>1. \A i \in 1..Len(pending) : pending[i] \in Lines
    BY <1>1, ElementOfSeq
  <2>2. \A i \in 1..Len(pending) : pending[i].record \in Records
    BY <2>1 DEF Lines
  <2>3. QED
    BY <2>2 DEF QueuedFor
<1>2. Csv!Recoverable <=> Recovers(journal)
  BY CsvLog DEF Csv!Recoverable, Csv!Replayed, Recovers
<1>3. QED
  BY <1>1, <1>2, CsvLog DEF CsvWords, Csv!RecoverInv, Csv!Typed, Csv!Queued, Csv!Published

LEMMA CsvInit == Csv!Init => Csv!RecoverInv
<1> SUFFICES ASSUME Csv!Init PROVE Csv!RecoverInv
  OBVIOUS
<1>1. <<>> \in Seq(Kept) /\ <<>> \in Seq(Lines)
  BY EmptySeq
<1>2. table \in [Records -> Nat] /\ rows = table /\ delivered = table /\ \A r \in Records : table[r] = 0
  BY DEF Csv!Init, Csv!NoRows
<1>3. Recovers(<<>>)
  <2>1. \A r : Of(<<>>, r) = {}
    BY DEF Of
  <2>2. \A r, o : LastVersion(<<>>, r, o) = o
    BY <1>1, <2>1, LastVersionIs
  <2>3. QED
    BY <1>2, <2>2 DEF Recovers
<1>4. \A r \in Records : QueuedFor(<<>>, r, rows[r])
  BY DEF QueuedFor
<1>5. /\ journal = <<>> /\ pending = <<>> /\ writes = 0 /\ phase = "closed" /\ renamed = FALSE
      /\ \A r \in Records : delivered[r] <= 0
  BY <1>2 DEF Csv!Init
<1>6. QED
  BY <1>1, <1>2, <1>3, <1>4, <1>5, CsvInvIs DEF CsvWords

LEMMA CsvInvNext == Csv!RecoverInv' <=> CsvWords'
BY CsvInvIs, PTL

\* A log's readable lines tell the same whatever lies under it.
LEMMA OnTop ==
  ASSUME NEW log \in Seq(Kept), NEW r, NEW o, NEW p
  PROVE  \/ LastVersion(log, r, o) = o /\ LastVersion(log, r, p) = p
         \/ LastVersion(log, r, o) = LastVersion(log, r, p)
BY LastVersionIs

LEMMA NothingQueued == \A r, v : QueuedFor(<<>>, r, v)
BY DEF QueuedFor

LEMMA LoadKeeps ==
  ASSUME Csv!RecoverInv, Csv!Load
  PROVE  Csv!RecoverInv'
<1> USE DEF Csv!caller
<1>1. /\ journal \in Seq(Kept) /\ table \in [Records -> Nat] /\ pending = <<>> /\ renamed = FALSE
      /\ ~IsGarbled(journal) /\ Recovers(journal)
  BY CsvInvIs, CsvLog DEF CsvWords, Csv!Load
<1>2. rows' = [r \in Records |-> LastVersion(journal, r, table[r])]
  BY CsvLog DEF Csv!Load, Csv!Replayed
<1>3. rows' \in [Records -> Nat] /\ \A r \in Records : rows'[r] >= delivered[r]
  BY <1>1, <1>2, LastVersionTyped DEF Recovers
<1>4. \A r \in Records : QueuedFor(pending, r, rows[r])'
  BY <1>1, NothingQueued DEF Csv!Load, QueuedFor
<1>5. Recovers(journal)'
  BY <1>1 DEF Csv!Load, Recovers
<1>6. /\ UNCHANGED <<table, journal, renamed, pending, delivered, writes>>
      /\ phase' \in {"loading", "opened"}
  BY DEF Csv!Load
<1>7. QED
  BY <1>1, <1>3, <1>4, <1>5, <1>6, CsvInvIs, CsvInvNext DEF CsvWords

LEMMA WriteKeeps ==
  ASSUME Csv!RecoverInv, NEW r \in Records, Csv!Write(r)
  PROVE  Csv!RecoverInv'
<1> DEFINE line == Line(r, writes + 1)
<1>1. /\ writes' = writes + 1 /\ pending' = Append(pending, line) /\ rows' = [rows EXCEPT ![r] = writes + 1]
      /\ phase = "opened" /\ phase' = "opened"
      /\ table' = table /\ journal' = journal /\ renamed' = renamed /\ delivered' = delivered
  BY CsvLog DEF Csv!Write
<1>2. /\ journal \in Seq(Kept) /\ pending \in Seq(Lines)
      /\ table \in [Records -> Nat] /\ rows \in [Records -> Nat] /\ delivered \in [Records -> Nat]
      /\ writes \in Nat /\ renamed = FALSE
      /\ \A q \in Records : QueuedFor(pending, q, rows[q])
      /\ \A q \in Records : delivered[q] <= writes /\ rows[q] >= delivered[q]
      /\ Recovers(journal)
  BY <1>1, CsvInvIs DEF CsvWords
<1>3. line \in Lines /\ line.record = r /\ line.version = writes + 1
  BY <1>2 DEF Line, Lines
<1> HIDE DEF line
<1>4. /\ pending' \in Seq(Lines) /\ Len(pending') = Len(pending) + 1
      /\ \A i \in 1..Len(pending) : pending'[i] = pending[i]
      /\ pending'[Len(pending) + 1] = line
  BY <1>1, <1>2, <1>3, AppendProperties
<1>5. /\ rows' \in [Records -> Nat] /\ rows'[r] = writes + 1
      /\ \A q \in Records : q # r => rows'[q] = rows[q]
  BY <1>1, <1>2
<1>6. ASSUME NEW q \in Records PROVE QueuedFor(pending, q, rows[q])'
  <2>1. Len(pending) \in Nat /\ \A i \in 1..Len(pending) : pending[i] \in Lines
    BY <1>2, LenProperties, ElementOfSeq
  <2>2. ASSUME NEW i \in 1..Len(pending) + 1, pending'[i].record = q
        PROVE  pending'[i].version \in delivered[q]..(writes + 1) /\ rows'[q] >= pending'[i].version
    <3>1. CASE i \in 1..Len(pending)
      <4>1. pending[i].version \in delivered[q]..writes /\ rows[q] >= pending[i].version
        BY <1>2, <1>4, <2>2, <3>1 DEF QueuedFor
      <4>2. rows'[q] = rows[q] \/ rows'[q] = writes + 1
        BY <1>5
      <4>3. QED
        BY <1>2, <1>4, <3>1, <4>1, <4>2
    <3>2. CASE i = Len(pending) + 1
      <4>1. q = r /\ pending'[i].version = writes + 1
        BY <1>3, <1>4, <2>2, <3>2
      <4>2. delivered[r] \in Nat /\ delivered[r] <= writes
        BY <1>2
      <4>3. QED
        BY <1>2, <1>5, <4>1, <4>2
    <3>3. QED
      BY <2>1, <2>2, <3>1, <3>2
  <2>3. QED
    BY <1>1, <1>4, <2>2 DEF QueuedFor
<1>7. ASSUME NEW q \in Records PROVE delivered'[q] <= writes' /\ rows'[q] >= delivered'[q]
  BY <1>1, <1>2, <1>5
<1>8. Recovers(journal)'
  BY <1>1, <1>2 DEF Recovers
<1>9. QED
  BY <1>1, <1>2, <1>4, <1>5, <1>6, <1>7, <1>8, CsvInvNext DEF CsvWords

LEMMA FlushKeeps ==
  ASSUME Csv!RecoverInv, Csv!FlushReturns
  PROVE  Csv!RecoverInv'
<1>1. /\ journal' = Appended(journal, pending, FALSE) /\ pending' = <<>>
      /\ phase = "opened" /\ UNCHANGED <<table, rows, phase, renamed, writes>>
  BY CsvLog DEF Csv!FlushReturns
<1>2. delivered' = [r \in Records |-> IF r \in page THEN LastVersion(pending, r, delivered[r]) ELSE delivered[r]]
  BY CsvLog DEF Csv!FlushReturns, Csv!Latest
<1>3. /\ journal \in Seq(Kept) /\ pending \in Seq(Lines)
      /\ table \in [Records -> Nat] /\ rows \in [Records -> Nat] /\ delivered \in [Records -> Nat]
      /\ writes \in Nat /\ renamed = FALSE
      /\ \A q \in Records : QueuedFor(pending, q, rows[q])
      /\ \A q \in Records : delivered[q] <= writes /\ rows[q] >= delivered[q]
      /\ Recovers(journal)
  BY <1>1, CsvInvIs DEF CsvWords
<1>4. ASSUME NEW r \in Records
      PROVE  /\ delivered'[r] \in delivered[r]..writes /\ rows[r] >= delivered'[r]
             /\ \A o \in Nat : o >= delivered[r] => LastVersion(pending, r, o) >= delivered[r]
  <2>1. delivered[r] \in Nat /\ rows[r] \in Nat
    BY <1>3
  <2>2. \A i \in 1..Len(pending) : pending[i].record = r => pending[i].version \in delivered[r]..writes
    BY <1>3 DEF QueuedFor
  <2>3. \A i \in 1..Len(pending) : pending[i].record = r => pending[i].version \in delivered[r]..rows[r]
    BY <1>3, <2>1 DEF QueuedFor
  <2>4. /\ \A o \in Nat : o >= delivered[r] => LastVersion(pending, r, o) >= delivered[r]
        /\ \A o \in delivered[r]..writes : LastVersion(pending, r, o) \in delivered[r]..writes
    BY <1>3, <2>1, <2>2, LinesTell
  <2>5. \A o \in delivered[r]..rows[r] : LastVersion(pending, r, o) \in delivered[r]..rows[r]
    BY <1>3, <2>1, <2>3, LinesTell
  <2>6. delivered[r] \in delivered[r]..writes /\ delivered[r] \in delivered[r]..rows[r]
    BY <1>3, <2>1
  <2>7. /\ LastVersion(pending, r, delivered[r]) \in delivered[r]..writes
        /\ LastVersion(pending, r, delivered[r]) \in delivered[r]..rows[r]
    BY <2>4, <2>5, <2>6
  <2>8. delivered'[r] = LastVersion(pending, r, delivered[r]) \/ delivered'[r] = delivered[r]
    BY <1>2
  <2>9. QED
    BY <2>1, <2>4, <2>6, <2>7, <2>8
<1>5. delivered' \in [Records -> Nat] /\ \A r \in Records : delivered'[r] <= writes
  <2>1. \A r \in Records : delivered'[r] \in Nat /\ delivered'[r] <= writes
    BY <1>3, <1>4
  <2>2. delivered' = [r \in Records |-> delivered'[r]]
    BY <1>2
  <2>3. QED
    BY <2>1, <2>2
<1>6. journal' \in Seq(Kept) /\ Recovers(journal)'
  <2>1. pending \in Seq(Kept)
    BY <1>3, LinesKept
  <2>2. /\ journal' \in Seq(Kept)
        /\ IsGarbled(journal) => IsGarbled(journal')
        /\ \/ IsGarbled(journal')
           \/ \A r, o : LastVersion(journal', r, o) = LastVersion(pending, r, LastVersion(journal, r, o))
    BY <1>1, <1>3, <2>1, AppendedTells
  <2>3. ASSUME ~IsGarbled(journal'), NEW r \in Records
        PROVE  LastVersion(journal', r, table[r]) >= delivered'[r]
    <3> DEFINE o == LastVersion(journal, r, table[r])
    <3>1. o \in Nat /\ o >= delivered[r]
      BY <1>3, <2>2, <2>3, LastVersionTyped DEF Recovers
    <3>2. LastVersion(journal', r, table[r]) = LastVersion(pending, r, o)
      BY <2>2, <2>3
    <3> HIDE DEF o
    <3>3. LastVersion(pending, r, o) >= delivered[r]
      BY <1>4, <3>1
    <3>4. \/ LastVersion(pending, r, delivered[r]) = delivered[r]
          \/ LastVersion(pending, r, delivered[r]) = LastVersion(pending, r, o)
      BY <2>1, OnTop
    <3>5. LastVersion(pending, r, o) \in Nat
      BY <2>1, <3>1, LastVersionTyped
    <3>6. QED
      BY <1>2, <1>3, <3>2, <3>3, <3>4, <3>5
  <2>4. QED
    BY <1>1, <2>2, <2>3 DEF Recovers
<1>7. \A r \in Records : QueuedFor(pending, r, rows[r])'
  BY <1>1 DEF QueuedFor
<1>8. <<>> \in Seq(Lines)
  BY EmptySeq
<1>9. QED
  BY <1>1, <1>3, <1>4, <1>5, <1>6, <1>7, <1>8, CsvInvNext DEF CsvWords

\* An append that stopped somewhere takes nothing back.
LEMMA StoppedRecovers ==
  ASSUME Csv!RecoverInv, NEW c \in Cuts(pending),
         journal' = Appended(journal, Cut(pending, c[1], c[2]), FALSE)
  PROVE  journal' \in Seq(Kept) /\ Recovers(journal')
<1> DEFINE cut == Cut(pending, c[1], c[2])
<1>1. /\ journal \in Seq(Kept) /\ pending \in Seq(Lines) /\ Recovers(journal)
      /\ table \in [Records -> Nat] /\ delivered \in [Records -> Nat] /\ writes \in Nat
      /\ \A q \in Records : QueuedFor(pending, q, rows[q])
  BY CsvInvIs DEF CsvWords
<1>2. /\ cut \in Seq(Kept)
      /\ \A v, r : (\A i \in 1..Len(pending) : pending[i].record = r => pending[i].version >= v) =>
           \A o : o >= v => LastVersion(cut, r, o) >= v
  BY <1>1, CutTells
<1> HIDE DEF cut
<1>3. /\ journal' \in Seq(Kept)
      /\ IsGarbled(journal) => IsGarbled(journal')
      /\ \/ IsGarbled(journal')
         \/ \A r, o : LastVersion(journal', r, o) = LastVersion(cut, r, LastVersion(journal, r, o))
  BY <1>1, <1>2, AppendedTells DEF cut
<1>4. ASSUME ~IsGarbled(journal'), NEW r \in Records
      PROVE  LastVersion(journal', r, table[r]) >= delivered[r]
  <2>1. \A i \in 1..Len(pending) : pending[i].record = r => pending[i].version >= delivered[r]
    BY <1>1 DEF QueuedFor
  <2>2. LastVersion(journal, r, table[r]) >= delivered[r]
    BY <1>1, <1>3, <1>4 DEF Recovers
  <2>3. \A o : o >= delivered[r] => LastVersion(cut, r, o) >= delivered[r]
    BY <1>2, <2>1
  <2>4. LastVersion(journal', r, table[r]) = LastVersion(cut, r, LastVersion(journal, r, table[r]))
    BY <1>3, <1>4
  <2>5. LastVersion(cut, r, LastVersion(journal, r, table[r])) >= delivered[r]
    BY <2>2, <2>3
  <2>6. QED
    BY <2>4, <2>5
<1>5. QED
  BY <1>3, <1>4 DEF Recovers

\* Publishing, and closing, whichever step of it fails.
LEMMA PublishKeeps ==
  ASSUME Csv!RecoverInv, Csv!RenameTable \/ Csv!DeleteJournal \/ Csv!PublishRaises \/ Csv!Close
  PROVE  Csv!RecoverInv'
<1> USE DEF Csv!caller
<1>0. CsvWords
  BY CsvInvIs
<1>1. /\ pending' = pending /\ delivered' = delivered /\ writes' = writes
      /\ phase \in {"loading", "opened", "closing"} /\ (phase # "opened" => pending = <<>>)
      /\ phase' = "opened" => rows' = rows
      /\ phase' # "opened" => pending = <<>>
      /\ phase' \in {"closed", "loading", "opened", "closing"}
  BY <1>0 DEF CsvWords, Csv!RenameTable, Csv!DeleteJournal, Csv!PublishRaises, Csv!Close
<1>2. \A r \in Records : QueuedFor(pending, r, rows[r])'
  <2>1. CASE phase' = "opened"
    BY <1>0, <1>1, <2>1 DEF CsvWords, QueuedFor
  <2>2. CASE phase' # "opened"
    BY <1>1, <2>2 DEF QueuedFor
  <2>3. QED
    BY <2>1, <2>2
<1>3. CASE Csv!RenameTable
  <2>1. /\ table' = rows /\ renamed' = TRUE /\ UNCHANGED <<journal, rows, phase>>
        /\ phase \in {"loading", "closing"}
    BY <1>3 DEF Csv!RenameTable
  <2>2. ASSUME ~IsGarbled(journal), NEW r \in Records
        PROVE  LastVersion(journal, r, rows[r]) >= delivered[r]
    BY <1>0, <1>1, <2>2, OnTop DEF CsvWords, Recovers
  <2>3. Recovers(journal)'
    BY <1>1, <2>1, <2>2 DEF Recovers
  <2>4. QED
    BY <1>0, <1>1, <1>2, <2>1, <2>3, CsvInvNext DEF CsvWords
<1>4. CASE Csv!DeleteJournal
  <2>1. /\ journal' = <<>> /\ renamed' = FALSE /\ table' = table
        /\ renamed
        /\ \/ phase' = "opened" /\ rows' = rows
           \/ phase' = "closed" /\ rows' = Csv!NoRows
    BY <1>4 DEF Csv!DeleteJournal
  <2>2. table = rows /\ \A r \in Records : table[r] >= delivered[r]
    BY <1>0, <1>1, <2>1 DEF CsvWords
  <2>3. Csv!NoRows \in [Records -> Nat]
    BY DEF Csv!NoRows
  <2>4. <<>> \in Seq(Kept) /\ Recovers(journal)'
    <3>1. <<>> \in Seq(Kept) /\ \A r : Of(<<>>, r) = {}
      BY EmptySeq DEF Of
    <3>2. \A r, o : LastVersion(<<>>, r, o) = o
      BY <3>1, LastVersionIs
    <3>3. QED
      BY <1>1, <2>1, <2>2, <3>1, <3>2 DEF Recovers
  <2>5. QED
    BY <1>0, <1>1, <1>2, <2>1, <2>2, <2>3, <2>4, CsvInvNext DEF CsvWords
<1>5. CASE Csv!PublishRaises \/ Csv!Close
  <2>1. /\ UNCHANGED <<table, journal, rows>> /\ (renamed' = FALSE \/ (renamed' = renamed /\ phase = "opened"))
    BY <1>5 DEF Csv!PublishRaises, Csv!Close
  <2>2. renamed' = FALSE /\ Recovers(journal)'
    BY <1>0, <1>1, <2>1 DEF CsvWords, Recovers
  <2>3. QED
    BY <1>0, <1>1, <1>2, <2>1, <2>2, CsvInvNext DEF CsvWords
<1>6. QED
  BY <1>3, <1>4, <1>5

LEMMA CsvStep == Csv!RecoverInv /\ [Csv!Next]_Csv!vars => Csv!RecoverInv'
<1> SUFFICES ASSUME Csv!RecoverInv, [Csv!Next]_Csv!vars PROVE Csv!RecoverInv'
  OBVIOUS
<1> USE DEF Csv!caller
<1>0. CsvWords
  BY CsvInvIs
<1>1. CASE UNCHANGED Csv!vars
  <2>1. UNCHANGED <<table, journal, rows, phase, renamed, pending, delivered, writes>>
    BY <1>1 DEF Csv!vars
  <2>2. QED
    BY <1>0, <2>1, CsvInvNext DEF CsvWords, Recovers, QueuedFor
<1>2. CASE Csv!FlushRaises
  <2>1. journal' \in Seq(Kept) /\ Recovers(journal')
    BY <1>2, CsvLog, StoppedRecovers DEF Csv!FlushRaises
  <2>2. UNCHANGED <<table, rows, phase, renamed, pending, delivered, writes>>
    BY <1>2 DEF Csv!FlushRaises
  <2>3. QED
    BY <1>0, <2>1, <2>2, CsvInvNext DEF CsvWords, Recovers, QueuedFor
<1>3. CASE Csv!Crash
  <2>1. journal' \in Seq(Kept) /\ Recovers(journal')
    BY <1>0, <1>3, CsvLog, StoppedRecovers DEF CsvWords, Csv!Crash
  <2>2. /\ UNCHANGED <<table, delivered, writes>>
        /\ phase' = "closed" /\ renamed' = FALSE /\ rows' = Csv!NoRows /\ pending' = <<>>
    BY <1>3 DEF Csv!Crash
  <2>3. Csv!NoRows \in [Records -> Nat] /\ <<>> \in Seq(Lines)
    BY EmptySeq DEF Csv!NoRows
  <2>4. Recovers(journal)'
    BY <2>1, <2>2 DEF Recovers
  <2>5. \A r \in Records : QueuedFor(pending, r, rows[r])'
    BY <2>2 DEF QueuedFor
  <2>6. QED
    BY <1>0, <2>1, <2>2, <2>3, <2>4, <2>5, CsvInvNext DEF CsvWords
<1>4. CASE \E r \in Records : Csv!Write(r)
  BY <1>4, WriteKeeps
<1>5. CASE Csv!RenameTable \/ Csv!DeleteJournal \/ Csv!PublishRaises \/ Csv!Close
  BY <1>5, PublishKeeps
<1>6. QED
  BY <1>1, <1>2, <1>3, <1>4, <1>5, LoadKeeps, FlushKeeps DEF Csv!Next

CsvInv == sink = "csv" => Csv!RecoverInv

LEMMA CsvInvHolds == Spec => []CsvInv
<1>1. Init => CsvInv
  BY CsvInit DEF Init, CsvInv
<1>2. CsvInv /\ [Next]_vars => CsvInv'
  <2>1. ASSUME [Next]_vars PROVE sink' = sink /\ (sink = "csv" => [Csv!Next]_Csv!vars)
    BY <2>1 DEF Next, vars, csvVars, logVars, counters, Csv!vars, Csv!caller
  <2>2. QED
    BY <2>1, CsvStep DEF CsvInv
<1>3. QED
  BY <1>1, <1>2, PTL DEF Spec

\* What a flush returned for can be recovered from the CSV file and its journal at
\* every moment, unless an append went on after a torn line; and an open exporter
\* holds at least that much.
THEOREM CsvAlwaysRecoverable == Spec => []CsvRecoverable
<1>1. CsvInv => CsvRecoverable
  BY DEF CsvInv, Csv!RecoverInv, Csv!Published, CsvRecoverable, Csv!RowsComplete
<1>2. QED
  BY <1>1, CsvInvHolds, PTL

-----------------------------------------------------------------------------
(* The file state manager.                                                 *)

\* A step of a behaviour of the file state manager is one of its steps.
LEMMA StateSteps ==
  ASSUME [Next]_vars
  PROVE  /\ sink' = sink
         /\ sink = "state" => [State!Next]_State!vars
         /\ sink # "state" => UNCHANGED stateVars
BY DEF Next, vars, stateVars, counters, State!vars, State!files, State!memory, State!bounds

\* Where the file state manager runs, its invariant holds; elsewhere its files
\* are never touched.
StateInv ==
  /\ sink = "state" => State!SerialInv
  /\ sink # "state" => meta \in State!Metadata

LEMMA StateInvHolds == Spec => []StateInv
<1>1. Init => StateInv
  <2>1. Init => State!SerialInv /\ meta \in State!Metadata
    BY StateAssumption, State!SerialInit DEF Init, State!Init, State!Metadata, State!NoAttempts
  <2>2. QED
    BY <2>1 DEF StateInv
<1>2. StateInv /\ [Next]_vars => StateInv'
  <2> SUFFICES ASSUME StateInv, [Next]_vars PROVE StateInv'
    OBVIOUS
  <2>1. CASE sink = "state"
    BY <2>1, StateSteps, StateAssumption, State!SerialStep DEF StateInv
  <2>2. CASE sink # "state"
    BY <2>2, StateSteps DEF StateInv, stateVars
  <2>3. QED
    BY <2>1, <2>2
<1>3. QED
  BY <1>1, <1>2, PTL DEF Spec

\* Unless a cancelled call left its thread at work, the files of the file state
\* manager hold what the calls that returned have promised and no more.
THEOREM FilesKeepPromises == Spec => []KeptUnlessAbandoned
<1>1. StateInv => KeptUnlessAbandoned
  BY StateAssumption, State!SerialKeepsPromises DEF StateInv, KeptUnlessAbandoned
<1>2. QED
  BY <1>1, StateInvHolds, PTL

\* Attempts are cleared only once their record is processed or being forgotten.
THEOREM AttemptsClearedLast == Spec => ClearedLast
<1>1. StateInv /\ [Next]_vars =>
        [\A r \in Records :
           ~abandoned /\ meta'.attempts[r] < meta.attempts[r] =>
             r \in ids \/ State!At({"forget"}, r)]_State!vars
  <2> SUFFICES ASSUME StateInv, [Next]_vars, NEW r \in Records,
                      ~abandoned, meta'.attempts[r] < meta.attempts[r]
               PROVE  r \in ids \/ State!At({"forget"}, r)
    OBVIOUS
  <2>1. CASE sink = "state"
    BY <2>1, StateSteps, StateAssumption, State!SerialClearsLast DEF StateInv
  <2>2. CASE sink # "state"
    BY <2>2, StateSteps DEF StateInv, stateVars, State!Metadata
  <2>3. QED
    BY <2>1, <2>2
<1>2. QED
  BY <1>1, StateInvHolds, PTL DEF Spec, ClearedLast, State!ClearedLast

-----------------------------------------------------------------------------
(* The state database.  All of its variables are its own.                  *)

\* A behaviour of the stores is, for the state database, one of its own.
LEMMA DatabaseBehaves == Spec => Database!Spec
<1>1. Init => Database!Init
  BY DEF Init
<1>2. [Next]_vars => [Database!Next]_Database!databaseVars
  BY DEF Next, vars, databaseVars, Database!databaseVars, Database!bounds
<1>3. QED
  BY <1>1, <1>2, PTL DEF Spec, Database!Spec

\* The state database stays as its version tells and openable, through faults,
\* crashes and upgrades of older files that no second process joins.
THEOREM UpgradesAlwaysResume == Spec => []UpgradesResume
<1>1. Database!Spec => []Database!UpgradesResume
  BY DatabaseAssumption, Database!UpgradesAlwaysResume
<1>2. Database!UpgradesResume => UpgradesResume
  BY DEF UpgradesResume
<1>3. QED
  BY <1>1, <1>2, DatabaseBehaves, PTL

\* Every change of its file is the whole of one call.
THEOREM CallsWhole == Spec => CallsAreAtomic
<1>1. Database!Spec => Database!CallsAreAtomic
  BY DatabaseAssumption, Database!CallsWhole
<1>2. QED
  BY <1>1, DatabaseBehaves DEF CallsAreAtomic

-----------------------------------------------------------------------------
(* The memory.  Its steps count the faults that the other stores count too. *)

MemoryInvOf == sink = "memory" => Mem!MemoryInv

LEMMA MemoryInvHolds == Spec => []MemoryInvOf
<1>1. Init => MemoryInvOf
  BY MemoryAssumption, Mem!MemoryInit DEF Init, MemoryInvOf
<1>2. MemoryInvOf /\ [Next]_vars => MemoryInvOf'
  <2>1. ASSUME [Next]_vars PROVE sink' = sink /\ (sink = "memory" => [Mem!Next]_Mem!memoryVars)
    BY <2>1 DEF Next, vars, memoryVars, counters, Mem!memoryVars, Mem!storeVars, Mem!ingestVars, Mem!backfillVars
  <2>2. QED
    BY <2>1, MemoryAssumption, Mem!MemoryStep DEF MemoryInvOf
<1>3. QED
  BY <1>1, <1>2, PTL DEF Spec

\* A vector search answers from the rows the file holds, and both backends hold the
\* last text ingested whole.
THEOREM MemoriesCurrent == Spec => []MemoryIsCurrent
<1>1. MemoryInvOf => MemoryIsCurrent
  BY MemoryAssumption, Mem!MemoryInvTells DEF MemoryInvOf, MemoryIsCurrent
<1>2. QED
  BY <1>1, MemoryInvHolds, PTL

-----------------------------------------------------------------------------
(* The claims and the rejected drafts.                                     *)

ClaimsInvOf == sink = "claims" => Claim!ClaimsInv

LEMMA ClaimsInvHolds == Spec => []ClaimsInvOf
<1>1. Init => ClaimsInvOf
  BY ClaimsAssumption, Claim!ClaimsInit DEF Init, ClaimsInvOf
<1>2. ClaimsInvOf /\ [Next]_vars => ClaimsInvOf'
  <2>1. ASSUME [Next]_vars PROVE sink' = sink /\ (sink = "claims" => [Claim!Next]_Claim!claimVars)
    BY <2>1 DEF Next, vars, claimVars, counters, Claim!claimVars, Claim!storeVars, Claim!rejectionVars, Claim!jobVars
  <2>2. QED
    BY <2>1, ClaimsAssumption, Claim!ClaimsStep DEF ClaimsInvOf
<1>3. QED
  BY <1>1, <1>2, PTL DEF Spec

\* A job that follows the claim feed misses no change, no draft of an exported record
\* is lost between the claims and the rejections, and decisions and sweeps stand.
THEOREM ClaimsStayAccounted == Spec => []ClaimsAccounted
<1>1. ClaimsInvOf => ClaimsAccounted
  BY ClaimsAssumption, Claim!ClaimsInvTells DEF ClaimsInvOf, ClaimsAccounted
<1>2. QED
  BY <1>1, ClaimsInvHolds, PTL
=============================================================================
