-------------------------- MODULE SequenceLemmas --------------------------
(***************************************************************************)
(* What Filter returns, the elements kept, in their order; and what a fold *)
(* over a sequence computes, one element after another.                    *)
(***************************************************************************)
EXTENDS SeqFilter, SequencesExt, FiniteSetTheorems, FunctionTheorems, SequenceTheorems,
        WellFoundedInduction, TLAPS

\* Rank numbers a finite set of indices 1, 2, ... in increasing order.
LEMMA RankProperties ==
  ASSUME NEW n \in Nat, NEW I \in SUBSET (1..n)
  PROVE  /\ IsFiniteSet(I) /\ Cardinality(I) \in Nat
         /\ \A i \in I : Rank(I, i) \in 1..Cardinality(I)
         /\ \A i, j \in I : i < j => Rank(I, i) < Rank(I, j)
         /\ \A k \in 1..Cardinality(I) : \E i \in I : Rank(I, i) = k
<1> DEFINE Below(i) == {j \in I : j <= i}
<1>1. IsFiniteSet(I) /\ Cardinality(I) \in Nat
  <2>1. IsFiniteSet(1..n)
    BY FS_Interval
  <2>2. IsFiniteSet(I)
    BY <2>1, FS_Subset
  <2> QED BY <2>2, FS_CardinalityType
<1>2. \A i \in I : IsFiniteSet(Below(i)) /\ Cardinality(Below(i)) \in Nat
                    /\ Cardinality(Below(i)) <= Cardinality(I)
  <2> TAKE i \in I
  <2>1. Below(i) \in SUBSET I
    OBVIOUS
  <2> HIDE DEF Below
  <2> QED BY <1>1, <2>1, FS_Subset, FS_CardinalityType
<1>3. \A i \in I : Cardinality(Below(i)) # 0
  <2> TAKE i \in I
  <2>1. Below(i) # {}
    OBVIOUS
  <2> HIDE DEF Below
  <2> QED BY <1>2, <2>1, FS_EmptySet
<1>4. \A i \in I : Rank(I, i) \in 1..Cardinality(I)
  <2> HIDE DEF Below
  <2>1. \A i \in I : Rank(I, i) = Cardinality(Below(i))
    BY DEF Rank, Below
  <2> QED BY <1>1, <1>2, <1>3, <2>1
<1>5. \A i, j \in I : i < j => Rank(I, i) < Rank(I, j)
  <2> SUFFICES ASSUME NEW i \in I, NEW j \in I, i < j
               PROVE  Rank(I, i) < Rank(I, j)
    OBVIOUS
  <2> i \in Int /\ j \in Int /\ I \subseteq Int
    OBVIOUS
  <2>1. Below(i) \in SUBSET Below(j)
    <3> SUFFICES ASSUME NEW x \in I, x <= i
                 PROVE  x <= j
      OBVIOUS
    <3> QED OBVIOUS
  <2>0. j \in Below(j) /\ j \notin Below(i)
    OBVIOUS
  <2>2. Rank(I, i) = Cardinality(Below(i)) /\ Rank(I, j) = Cardinality(Below(j))
    BY DEF Rank
  <2> HIDE DEF Below
  <2> QED BY <1>2, <2>0, <2>1, <2>2, FS_Subset
<1>6. \A k \in 1..Cardinality(I) : \E i \in I : Rank(I, i) = k
  <2> DEFINE r == [i \in I |-> Rank(I, i)]
             K == 1..Cardinality(I)
  <2>1. r \in [I -> K]
    BY <1>4
  <2>2. \A i, j \in I : r[i] = r[j] => i = j
    <3> SUFFICES ASSUME NEW i \in I, NEW j \in I, Rank(I, i) = Rank(I, j)
                 PROVE  i = j
      OBVIOUS
    <3>1. Rank(I, i) \in Int /\ Rank(I, j) \in Int
      BY <1>4
    <3> QED BY <1>5, <3>1
  <2>3. IsFiniteSet(K) /\ Cardinality(K) = Cardinality(I)
    BY <1>1, FS_Interval
  <2>4. r \in Injection(I, K)
    <3> HIDE DEF r, K
    <3> QED BY <2>1, <2>2, Fun_IsInj
  <2>5. r \in Surjection(I, K)
    <3> HIDE DEF r, K
    <3> QED BY <2>3, <2>4, FS_Injection
  <2>6. \A k \in K : \E i \in I : r[i] = k
    BY <2>5 DEF Surjection
  <2> QED BY <2>6
<1> QED BY <1>1, <1>4, <1>5, <1>6

\* Nth enumerates a finite set of indices in increasing order.
LEMMA NthProperties ==
  ASSUME NEW n \in Nat, NEW I \in SUBSET (1..n)
  PROVE  /\ Cardinality(I) \in Nat
         /\ \A k \in 1..Cardinality(I) : Nth(I, k) \in I
         /\ \A k, l \in 1..Cardinality(I) : k < l => Nth(I, k) < Nth(I, l)
         /\ \A i \in I : \E k \in 1..Cardinality(I) : Nth(I, k) = i
<1>0. /\ Cardinality(I) \in Nat
      /\ \A i \in I : Rank(I, i) \in 1..Cardinality(I)
      /\ \A i, j \in I : i < j => Rank(I, i) < Rank(I, j)
      /\ \A k \in 1..Cardinality(I) : \E i \in I : Rank(I, i) = k
  BY RankProperties
<1>1. \A k \in 1..Cardinality(I) : Nth(I, k) \in I /\ Rank(I, Nth(I, k)) = k
  BY <1>0 DEF Nth
<1>2. \A i, j \in I : Rank(I, i) < Rank(I, j) => i < j
  <2> SUFFICES ASSUME NEW i \in I, NEW j \in I, Rank(I, i) < Rank(I, j), ~(i < j)
               PROVE  FALSE
    OBVIOUS
  <2>1. Rank(I, i) \in Int /\ Rank(I, j) \in Int
    BY <1>0
  <2>2. i = j \/ j < i
    OBVIOUS
  <2> QED BY <1>0, <2>1, <2>2
<1>3. \A i, j \in I : Rank(I, i) = Rank(I, j) => i = j
  <2> SUFFICES ASSUME NEW i \in I, NEW j \in I, Rank(I, i) = Rank(I, j), i # j
               PROVE  FALSE
    OBVIOUS
  <2>1. Rank(I, i) \in Int /\ Rank(I, j) \in Int
    BY <1>0
  <2>2. i < j \/ j < i
    OBVIOUS
  <2> QED BY <1>0, <2>1, <2>2
<1>4. \A i \in I : Nth(I, Rank(I, i)) = i
  <2> TAKE i \in I
  <2>1. Rank(I, i) \in 1..Cardinality(I)
    BY <1>0
  <2>2. Nth(I, Rank(I, i)) \in I /\ Rank(I, Nth(I, Rank(I, i))) = Rank(I, i)
    BY <1>1, <2>1
  <2> QED BY <1>3, <2>2
<1>5. \A k, l \in 1..Cardinality(I) : k < l => Nth(I, k) < Nth(I, l)
  <2> SUFFICES ASSUME NEW k \in 1..Cardinality(I), NEW l \in 1..Cardinality(I), k < l
               PROVE  Nth(I, k) < Nth(I, l)
    OBVIOUS
  <2>1. Rank(I, Nth(I, k)) < Rank(I, Nth(I, l))
    BY <1>1
  <2> QED BY <1>1, <1>2, <2>1
<1>6. \A i \in I : \E k \in 1..Cardinality(I) : Nth(I, k) = i
  BY <1>0, <1>4
<1> QED BY <1>0, <1>1, <1>5, <1>6

\* A filtered sequence is a sequence of the elements kept.
LEMMA FilterType ==
  ASSUME NEW S, NEW s \in Seq(S), NEW T
  PROVE  /\ Filter(s, T) \in Seq(S)
         /\ Filter(s, T) \in Seq(T)
         /\ Range(Filter(s, T)) = Range(s) \cap T
<1> DEFINE I == Kept(s, T)
           F == Filter(s, T)
<1>1. Len(s) \in Nat /\ I \in SUBSET (1..Len(s)) /\ s \in [1..Len(s) -> S]
  BY DEF Kept
<1>2. /\ Cardinality(I) \in Nat
      /\ \A k \in 1..Cardinality(I) : Nth(I, k) \in I
      /\ \A i \in I : \E k \in 1..Cardinality(I) : Nth(I, k) = i
  <2> HIDE DEF I
  <2> QED BY <1>1, NthProperties
<1>3. DOMAIN F = 1..Cardinality(I) /\ \A k \in 1..Cardinality(I) : F[k] = s[Nth(I, k)]
  BY DEF Filter
<1>4. \A i \in I : s[i] \in S /\ s[i] \in T
  BY <1>1 DEF Kept
<1>5. F \in [1..Cardinality(I) -> S] /\ F \in [1..Cardinality(I) -> T]
  <2>1. F = [k \in 1..Cardinality(I) |-> s[Nth(I, k)]]
    BY DEF Filter
  <2> HIDE DEF I, F
  <2> QED BY <1>2, <1>4, <2>1
<1>6. F \in Seq(S) /\ F \in Seq(T)
  <2> HIDE DEF I, F
  <2> QED BY <1>2, <1>5, SeqDef, ZenonT(40)
<1>7. Range(F) \subseteq Range(s) \cap T
  <2> HIDE DEF I, F
  <2>1. \A k \in DOMAIN F : F[k] \in T /\ Nth(I, k) \in DOMAIN s /\ F[k] = s[Nth(I, k)]
    BY <1>1, <1>2, <1>3, <1>4
  <2> QED BY <2>1 DEF Range
<1>8. Range(s) \cap T \subseteq Range(F)
  <2> SUFFICES ASSUME NEW i \in 1..Len(s), s[i] \in T
               PROVE  s[i] \in Range(F)
    BY <1>1 DEF Range
  <2>1. i \in I
    BY DEF Kept
  <2> HIDE DEF I, F
  <2>2. PICK k \in 1..Cardinality(I) : Nth(I, k) = i
    BY <1>2, <2>1
  <2> QED BY <1>3, <2>2 DEF Range
<1> QED BY <1>6, <1>7, <1>8

\* Filter keeps the elements it keeps in order, and repeats none.
LEMMA FilterOrder ==
  ASSUME NEW S, NEW s \in Seq(S), NEW T
  PROVE  \A k, l \in 1..Len(Filter(s, T)) : k < l =>
            \E i, j \in 1..Len(s) :
               i < j /\ Filter(s, T)[k] = s[i] /\ Filter(s, T)[l] = s[j]
<1> DEFINE I == Kept(s, T)
           F == Filter(s, T)
<1>1. Len(s) \in Nat /\ I \in SUBSET (1..Len(s))
  BY DEF Kept
<1>2. /\ Cardinality(I) \in Nat
      /\ \A k \in 1..Cardinality(I) : Nth(I, k) \in I
      /\ \A k, l \in 1..Cardinality(I) : k < l => Nth(I, k) < Nth(I, l)
  <2> HIDE DEF I
  <2> QED BY <1>1, NthProperties
<1>3. DOMAIN F = 1..Cardinality(I) /\ \A k \in 1..Cardinality(I) : F[k] = s[Nth(I, k)]
  BY DEF Filter
<1>4. Len(F) = Cardinality(I)
  <2>1. F \in Seq(S)
    BY FilterType
  <2> HIDE DEF I, F
  <2> QED BY <1>2, <1>3, <2>1, LenProperties
<1> SUFFICES ASSUME NEW k \in 1..Len(F), NEW l \in 1..Len(F), k < l
             PROVE  \E i, j \in 1..Len(s) : i < j /\ F[k] = s[i] /\ F[l] = s[j]
  OBVIOUS
<1>5. Nth(I, k) \in 1..Len(s) /\ Nth(I, l) \in 1..Len(s) /\ Nth(I, k) < Nth(I, l)
  <2> HIDE DEF I, F
  <2> QED BY <1>1, <1>2, <1>4
<1>6. F[k] = s[Nth(I, k)] /\ F[l] = s[Nth(I, l)]
  <2> HIDE DEF I, F
  <2> QED BY <1>3, <1>4
<1> HIDE DEF F, I
<1> QED BY <1>5, <1>6

\* Filtering makes a sequence no longer.
LEMMA FilterLength ==
  ASSUME NEW S, NEW s \in Seq(S), NEW T
  PROVE  Len(Filter(s, T)) \in Nat /\ Len(Filter(s, T)) <= Len(s)
<1> DEFINE n == Len(s)
           I == Kept(s, T)
<1>1. n \in Nat /\ I \subseteq 1..n
  BY DEF Kept
<1> HIDE DEF n, I
<1>2. IsFiniteSet(1..n) /\ Cardinality(1..n) = n
  <2>1. 1 \in Int /\ n \in Int
    BY <1>1
  <2>2. /\ IsFiniteSet(1..n)
        /\ Cardinality(1..n) = IF 1 > n THEN 0 ELSE n - 1 + 1
    BY <2>1, FS_Interval, Zenon
  <2> QED BY <1>1, <2>2
<1>3. Cardinality(I) \in Nat /\ Cardinality(I) <= n
  <2>1. IsFiniteSet(I) /\ Cardinality(I) <= Cardinality(1..n)
    BY <1>1, <1>2, FS_Subset
  <2> QED BY <1>2, <2>1, FS_CardinalityType
<1>4. Len(Filter(s, T)) = Cardinality(I)
  <2>1. Filter(s, T) = [k \in 1..Cardinality(I) |-> s[Nth(I, k)]]
    BY DEF Filter, I
  <2>2. Filter(s, T) \in Seq(S)
    BY FilterType
  <2> QED BY <1>3, <2>1, <2>2, LenProperties
<1> QED BY <1>3, <1>4 DEF n

\* A sequence without duplicates is filtered into one without duplicates.
LEMMA FilterInjective ==
  ASSUME NEW S, NEW s \in Seq(S), NEW T, IsInjective(s)
  PROVE  IsInjective(Filter(s, T))
<1> DEFINE F == Filter(s, T)
<1>1. F \in Seq(S) /\ DOMAIN F = 1..Len(F) /\ Len(F) \in Nat
  BY FilterType, LenProperties
<1>2. \A k, l \in 1..Len(F) : k < l =>
         \E i, j \in 1..Len(s) : i < j /\ F[k] = s[i] /\ F[l] = s[j]
  BY FilterOrder
<1>3. \A i, j \in 1..Len(s) : i < j => s[i] # s[j]
  BY LenProperties DEF IsInjective
<1> HIDE DEF F
<1>4. \A k, l \in 1..Len(F) : k < l => F[k] # F[l]
  BY <1>2, <1>3
<1>5. \A k, l \in 1..Len(F) : F[k] = F[l] => k = l
  <2> SUFFICES ASSUME NEW k \in 1..Len(F), NEW l \in 1..Len(F), F[k] = F[l], k # l
               PROVE  FALSE
    OBVIOUS
  <2>1. k < l \/ l < k
    BY <1>1
  <2> QED BY <1>4, <2>1
<1>6. IsInjective(F)
  BY <1>1, <1>5 DEF IsInjective
<1> QED BY <1>6 DEF F

-----------------------------------------------------------------------------
(* Concatenation, and sequences without repetition.                         *)

\* Such a sequence is as long as the set of its members is large.
LEMMA InjectiveLength ==
  ASSUME NEW S, NEW q \in Seq(S), IsInjective(q)
  PROVE  IsFiniteSet(Range(q)) /\ Cardinality(Range(q)) = Len(q)
<1>1. Len(q) \in Nat /\ DOMAIN q = 1..Len(q) /\ q \in [1..Len(q) -> S]
  BY LenProperties
<1>2. q \in [1..Len(q) -> Range(q)]
  BY <1>1 DEF Range
<1>3. q \in Bijection(1..Len(q), Range(q))
  BY <1>1, <1>2 DEF Bijection, Injection, Surjection, Range, IsInjective
<1>4. IsFiniteSet(1..Len(q)) /\ Cardinality(1..Len(q)) = Len(q)
  BY <1>1, FS_Interval
<1> QED BY <1>3, <1>4, FS_Bijection DEF ExistsBijection

\* The members of a concatenation, and when it repeats none.
LEMMA RangeConcat ==
  ASSUME NEW S, NEW q \in Seq(S), NEW r \in Seq(S)
  PROVE  q \o r \in Seq(S) /\ Range(q \o r) = Range(q) \cup Range(r)
<1>1. /\ Len(q) \in Nat /\ Len(r) \in Nat /\ q \o r \in Seq(S)
      /\ DOMAIN (q \o r) = 1..Len(q) + Len(r)
      /\ DOMAIN q = 1..Len(q) /\ DOMAIN r = 1..Len(r)
      /\ \A i \in 1..Len(q) : (q \o r)[i] = q[i]
      /\ \A i \in 1..Len(r) : (q \o r)[Len(q) + i] = r[i]
  OBVIOUS
<1>2. ASSUME NEW x \in Range(q \o r) PROVE x \in Range(q) \cup Range(r)
  <2> PICK i \in 1..Len(q) + Len(r) : x = (q \o r)[i]
    BY <1>1 DEF Range
  <2>1. CASE i <= Len(q)
    BY <1>1, <2>1 DEF Range
  <2>2. CASE i > Len(q)
    <3>1. i - Len(q) \in 1..Len(r) /\ i = Len(q) + (i - Len(q))
      BY <1>1, <2>2
    <3> QED BY <1>1, <3>1 DEF Range
  <2> QED BY <1>1, <2>1, <2>2
<1>3. ASSUME NEW x \in Range(q) PROVE x \in Range(q \o r)
  BY <1>1 DEF Range
<1>4. ASSUME NEW x \in Range(r) PROVE x \in Range(q \o r)
  <2> PICK i \in 1..Len(r) : x = r[i]
    BY <1>1 DEF Range
  <2>1. Len(q) + i \in 1..Len(q) + Len(r)
    BY <1>1
  <2> QED BY <1>1, <2>1 DEF Range
<1> QED BY <1>1, <1>2, <1>3, <1>4

LEMMA InjectiveConcat ==
  ASSUME NEW S, NEW q \in Seq(S), NEW r \in Seq(S), IsInjective(q), IsInjective(r),
         Range(q) \cap Range(r) = {}
  PROVE  IsInjective(q \o r)
<1>1. /\ Len(q) \in Nat /\ Len(r) \in Nat
      /\ DOMAIN (q \o r) = 1..Len(q) + Len(r)
      /\ DOMAIN q = 1..Len(q) /\ DOMAIN r = 1..Len(r)
      /\ \A i \in 1..Len(q) : (q \o r)[i] = q[i]
      /\ \A i \in 1..Len(r) : (q \o r)[Len(q) + i] = r[i]
  OBVIOUS
<1> SUFFICES ASSUME NEW i \in 1..Len(q) + Len(r), NEW j \in 1..Len(q) + Len(r),
                    (q \o r)[i] = (q \o r)[j]
             PROVE  i = j
  BY <1>1 DEF IsInjective
<1>2. \A k \in 1..Len(q) + Len(r) :
        \/ k \in 1..Len(q)
        \/ k - Len(q) \in 1..Len(r) /\ k = Len(q) + (k - Len(q))
  BY <1>1
<1>3. \A k \in 1..Len(q) : q[k] \in Range(q)
  BY <1>1 DEF Range
<1>4. \A k \in 1..Len(r) : r[k] \in Range(r)
  BY <1>1 DEF Range
<1>5. CASE i \in 1..Len(q) /\ j \in 1..Len(q)
  BY <1>1, <1>5 DEF IsInjective
<1>6. CASE i - Len(q) \in 1..Len(r) /\ j - Len(q) \in 1..Len(r)
  <2>1. r[i - Len(q)] = r[j - Len(q)]
    BY <1>1, <1>2, <1>6
  <2>2. i - Len(q) = j - Len(q)
    BY <1>1, <1>6, <2>1 DEF IsInjective
  <2> QED BY <1>1, <2>2
<1>7. CASE i \in 1..Len(q) /\ j - Len(q) \in 1..Len(r)
  <2>1. q[i] = r[j - Len(q)]
    BY <1>1, <1>2, <1>7
  <2> QED BY <1>3, <1>4, <1>7, <2>1
<1>8. CASE i - Len(q) \in 1..Len(r) /\ j \in 1..Len(q)
  <2>1. r[i - Len(q)] = q[j]
    BY <1>1, <1>2, <1>8
  <2> QED BY <1>3, <1>4, <1>8, <2>1
<1> QED BY <1>2, <1>5, <1>6, <1>7, <1>8

\* The first element of a sequence and the rest of it.
LEMMA HeadAndTail ==
  ASSUME NEW S, NEW q \in Seq(S), q # << >>
  PROVE  /\ Head(q) \in S /\ Tail(q) \in Seq(S)
         /\ Head(q) \in Range(q) /\ Range(Tail(q)) \subseteq Range(q)
<1>1. /\ Len(q) \in Nat /\ Len(q) >= 1 /\ Head(q) = q[1]
      /\ Len(Tail(q)) = Len(q) - 1 /\ Tail(q) \in Seq(S) /\ Head(q) \in S
      /\ \A i \in 1..Len(q) - 1 : Tail(q)[i] = q[i + 1]
      /\ DOMAIN q = 1..Len(q) /\ DOMAIN Tail(q) = 1..Len(q) - 1
  OBVIOUS
<1>2. Head(q) \in Range(q)
  BY <1>1 DEF Range
<1>3. Range(Tail(q)) \subseteq Range(q)
  BY <1>1 DEF Range
<1> QED BY <1>1, <1>2, <1>3

LEMMA TailOfInjective ==
  ASSUME NEW S, NEW q \in Seq(S), IsInjective(q), q # << >>
  PROVE  /\ Head(q) \in S /\ Head(q) \in Range(q) /\ Tail(q) \in Seq(S)
         /\ Range(Tail(q)) = Range(q) \ {Head(q)} /\ IsInjective(Tail(q))
<1> DEFINE r == Tail(q)
<1>1. /\ Len(q) \in Nat /\ Len(q) > 0 /\ DOMAIN q = 1..Len(q) /\ Head(q) = q[1]
      /\ r \in Seq(S) /\ Len(r) = Len(q) - 1 /\ DOMAIN r = 1..Len(q) - 1
      /\ \A i \in 1..Len(q) - 1 : r[i] = q[i + 1] /\ i + 1 \in 1..Len(q)
      /\ q[1] \in S
  OBVIOUS
<1> HIDE DEF r
<1>2. \A i, j \in 1..Len(q) : q[i] = q[j] => i = j
  BY <1>1 DEF IsInjective
<1>3. IsInjective(r)
  <2> SUFFICES ASSUME NEW i \in 1..Len(q) - 1, NEW j \in 1..Len(q) - 1, r[i] = r[j]
               PROVE  i = j
    BY <1>1 DEF IsInjective
  <2>1. q[i + 1] = q[j + 1] /\ i + 1 \in 1..Len(q) /\ j + 1 \in 1..Len(q)
    BY <1>1
  <2>2. i + 1 = j + 1
    BY <1>2, <2>1
  <2> QED BY <1>1, <2>2
<1>4. ASSUME NEW x \in Range(r) PROVE x \in Range(q) /\ x # q[1]
  <2> PICK i \in 1..Len(q) - 1 : x = r[i]
    BY <1>1 DEF Range
  <2>1. x = q[i + 1] /\ i + 1 \in 1..Len(q) /\ i + 1 # 1 /\ 1 \in 1..Len(q)
    BY <1>1
  <2> QED BY <1>1, <1>2, <2>1 DEF Range
<1>5. ASSUME NEW x \in Range(q), x # q[1] PROVE x \in Range(r)
  <2> PICK i \in 1..Len(q) : x = q[i]
    BY <1>1 DEF Range
  <2>1. i - 1 \in 1..Len(q) - 1 /\ (i - 1) + 1 = i
    BY <1>1, <1>5
  <2>2. r[i - 1] = q[i]
    BY <1>1, <2>1
  <2> QED BY <1>1, <2>1, <2>2 DEF Range
<1>6. q[1] \in Range(q)
  BY <1>1 DEF Range
<1> QED BY <1>1, <1>3, <1>4, <1>5, <1>6 DEF r

-----------------------------------------------------------------------------
(* Folds.  The function a fold goes by is that of MapThenFoldSet: from the  *)
(* set of all positions down to the empty one.  The lemmas take the step as *)
(* a function F[i], from what the first i - 1 elements gave to what the     *)
(* first i give.                                                            *)

\* A set of natural numbers that has a member has a least one.
LEMMA LeastOf ==
  ASSUME NEW S \in SUBSET Nat, S # {}
  PROVE \E n \in S : \A m \in S : n <= m
<1> DEFINE R == OpToRel(<, Nat)
<1>1. IsWellFoundedOn(R, Nat)
  BY NatLessThanWellFounded
<1>2. \A x, y \in Nat : x < y => <<x, y>> \in R
  BY DEF OpToRel
<1> HIDE DEF R
<1>3. PICK n \in S : \A y \in S : ~(<<y,n>> \in R)
  BY <1>1, WFMin
<1>4. \A m \in S : n <= m
  <2> SUFFICES ASSUME NEW m \in S, m < n PROVE FALSE
    OBVIOUS
  <2> QED BY <1>2, <1>3
<1> QED BY <1>4

\* Induction on the natural numbers, over a set instead of an operator.
LEMMA NatInductionOn ==
  ASSUME NEW S, 0 \in S, \A n \in Nat : n \in S => n + 1 \in S
  PROVE  \A n \in Nat : n \in S
<1> SUFFICES ASSUME NEW k \in Nat, k \notin S PROVE FALSE
  OBVIOUS
<1> DEFINE B == Nat \ S
<1>1. PICK n \in B : \A m \in B : n <= m
  <2>1. B # {} /\ B \in SUBSET Nat
    OBVIOUS
  <2> QED BY <2>1, LeastOf
<1>2. n # 0
  BY <1>1
<1>3. n - 1 \in Nat /\ n - 1 \notin B
  BY <1>1, <1>2
<1> QED BY <1>3, <1>1

\* What Max chooses from the sets a fold visits.
LEMMA MaxOfInterval ==
  ASSUME NEW n \in Nat, NEW s \in SUBSET (1..n + 1), n + 1 \in s
  PROVE  Max(s) = n + 1
<1>1. \A x \in s : (\A y \in s : x >= y) <=> x = n + 1
  OBVIOUS
<1>2. (CHOOSE x \in s : \A y \in s : x >= y) = CHOOSE x \in s : x = n + 1
  BY <1>1
<1> QED BY <1>2, Zenon DEF Max

\* The same for an interval.
LEMMA MaxUpTo ==
  ASSUME NEW n \in Nat, n # 0
  PROVE  Max(1..n) = n
<1>1. 1..n \in SUBSET (1..(n - 1) + 1) /\ (n - 1) + 1 = n /\ n \in 1..n /\ n - 1 \in Nat
  OBVIOUS
<1> QED BY <1>1, MaxOfInterval

\* Max of a finite set of positions is one of them.
LEMMA MaxIn ==
  ASSUME NEW N \in Nat, NEW D \in SUBSET (1..N), D # {}
  PROVE  Max(D) \in D
<1> DEFINE Up == {N - d : d \in D}
<1>1. PICK m \in Up : \A y \in Up : m <= y
  <2>1. \A d \in D : N - d \in Nat
    OBVIOUS
  <2>2. Up \in SUBSET Nat /\ Up # {}
    BY <2>1
  <2> HIDE DEF Up
  <2> QED BY <2>2, LeastOf
<1>2. PICK d \in D : m = N - d
  OBVIOUS
<1>3. \A y \in D : d >= y
  BY <1>1, <1>2
<1> QED BY <1>3 DEF Max

\* The sets of positions a fold visits on its way.
LEMMA FoldDomain ==
  ASSUME NEW N \in Nat
  PROVE  /\ \A D \in SUBSET (1..N) : D # {} => Max(D) \in 1..N /\ D \ {Max(D)} \in SUBSET (1..N)
         /\ \A i \in 1..N : /\ 1..i \in SUBSET (1..N) /\ 1..i # {} /\ i - 1 \in 0..N
                            /\ Max(1..i) = i /\ (1..i) \ {Max(1..i)} = 1..i - 1
<1>1. ASSUME NEW D \in SUBSET (1..N), D # {} PROVE Max(D) \in 1..N /\ D \ {Max(D)} \in SUBSET (1..N)
  <2>1. Max(D) \in D
    BY <1>1, MaxIn
  <2> QED BY <2>1
<1>2. ASSUME NEW i \in 1..N
      PROVE  /\ 1..i \in SUBSET (1..N) /\ 1..i # {} /\ i - 1 \in 0..N
             /\ Max(1..i) = i /\ (1..i) \ {Max(1..i)} = 1..i - 1
  <2>1. Max(1..i) = i
    BY MaxUpTo
  <2>2. 1..i \in SUBSET (1..N) /\ 1..i # {} /\ i - 1 \in 0..N
    OBVIOUS
  <2>3. (1..i) \ {i} = 1..i - 1
    OBVIOUS
  <2> QED BY <2>1, <2>2, <2>3
<1> QED BY <1>1, <1>2

\* The folds of F over 1..N: by sets of positions, as MapThenFoldSet iterates,
\* and one position after another.
FoldsOf(S, N, base, F) ==
  {g \in [SUBSET (1..N) -> S] : \A s \in SUBSET (1..N) :
     g[s] = IF s = {} THEN base ELSE F[Max(s)][g[s \ {Max(s)}]]}
StepsOf(S, N, base, F) ==
  {h \in [0..N -> S] : h[0] = base /\ \A i \in 1..N : h[i] = F[i][h[i - 1]]}

\* g does so as far as its values are in S.
Iterates(S, N, base, F, g) ==
  /\ g[{}] = base
  /\ \A D \in (SUBSET (1..N)) \ {{}} :
       g[D \ {Max(D)}] \in S => g[D] = F[Max(D)][g[D \ {Max(D)}]]

\* There is such a fold for every F: the function that MapThenFoldSet chooses
\* exists.
LEMMA FoldExists ==
  ASSUME NEW S, NEW N \in Nat, NEW base \in S, NEW F \in [1..N -> [S -> S]]
  PROVE  FoldsOf(S, N, base, F) # {}
<1> DEFINE IsFold(g, n) == \A s \in SUBSET (1..n) :
             g[s] = IF s = {} THEN base ELSE F[Max(s)][g[s \ {Max(s)}]]
           Folds(n) == {g \in [SUBSET (1..n) -> S] : IsFold(g, n)}
           Good == {n \in Nat : n <= N => Folds(n) # {}}
<1>1. 0 \in Good
  <2> DEFINE g == [s \in SUBSET (1..0) |-> base]
  <2>1. \A s \in SUBSET (1..0) : s = {}
    OBVIOUS
  <2>2. g \in [SUBSET (1..0) -> S] /\ IsFold(g, 0)
    BY <2>1
  <2>3. g \in Folds(0)
    BY <2>2
  <2> HIDE DEF Folds
  <2> QED BY <2>3
<1>2. ASSUME NEW n \in Nat, Folds(n) # {}, n + 1 <= N PROVE Folds(n + 1) # {}
  <2>1. PICK f \in [SUBSET (1..n) -> S] : IsFold(f, n)
    <3>1. PICK f : f \in Folds(n)
      BY <1>2
    <3> QED BY <3>1
  <2> DEFINE g == [s \in SUBSET (1..n + 1) |->
               IF n + 1 \in s THEN F[n + 1][f[s \ {n + 1}]] ELSE f[s]]
  <2>2. \A s \in SUBSET (1..n + 1) : s \ {n + 1} \in SUBSET (1..n)
    OBVIOUS
  <2>3. n + 1 \in 1..N
    <3> HIDE DEF Folds
    <3> QED BY <1>2
  <2>4. g \in [SUBSET (1..n + 1) -> S]
    <3> SUFFICES ASSUME NEW s \in SUBSET (1..n + 1)
                 PROVE  (IF n + 1 \in s THEN F[n + 1][f[s \ {n + 1}]] ELSE f[s]) \in S
      OBVIOUS
    <3>1. CASE n + 1 \in s
      <4>1. f[s \ {n + 1}] \in S
        BY <2>2
      <4> QED BY <4>1, <2>3, <3>1
    <3>2. CASE n + 1 \notin s
      <4>1. s \in SUBSET (1..n)
        BY <2>2, <3>2
      <4> QED BY <4>1, <3>2
    <3> QED BY <3>1, <3>2
  <2>5. ASSUME NEW s \in SUBSET (1..n + 1) PROVE g[s] = IF s = {} THEN base ELSE F[Max(s)][g[s \ {Max(s)}]]
    <3>1. CASE n + 1 \in s
      <4>1. Max(s) = n + 1
        BY <3>1, MaxOfInterval
      <4>2. g[s \ {n + 1}] = f[s \ {n + 1}]
        BY <2>2
      <4>3. g[s] = F[n + 1][f[s \ {n + 1}]]
        BY <3>1
      <4> QED BY <3>1, <4>1, <4>2, <4>3
    <3>2. CASE n + 1 \notin s
      <4>1. s \in SUBSET (1..n) /\ g[s] = f[s]
        BY <2>2, <3>2
      <4>2. g[s \ {Max(s)}] = f[s \ {Max(s)}]
        <5> DEFINE r == s \ {Max(s)}
        <5>1. r \in SUBSET (1..n) /\ n + 1 \notin r /\ r \in SUBSET (1..n + 1)
          <6> HIDE DEF g
          <6>1. r \subseteq s
            OBVIOUS
          <6> HIDE DEF r
          <6> QED BY <6>1, <3>2, <4>1
        <5> HIDE DEF r
        <5>2. g[r] = f[r]
          BY <5>1
        <5> QED BY <5>2 DEF r
      <4> HIDE DEF g
      <4> QED BY <4>1, <4>2, <2>1
    <3> QED BY <3>1, <3>2
  <2> HIDE DEF g
  <2>6. g \in Folds(n + 1)
    BY <2>4, <2>5
  <2> HIDE DEF Folds
  <2> QED BY <2>6
<1>3. Folds(N) # {}
  <2> HIDE DEF Folds
  <2>1. \A n \in Nat : n \in Good => n + 1 \in Good
    BY <1>2
  <2> HIDE DEF Good
  <2>2. N \in Good
    BY <1>1, <2>1, NatInductionOn
  <2> QED BY <2>2 DEF Good
<1> QED BY <1>3 DEF FoldsOf
\* What iterates so over sets of positions goes from one position to the next.
LEMMA FoldPrefixes ==
  ASSUME NEW S, NEW N \in Nat, NEW base \in S, NEW F \in [1..N -> [S -> S]],
         NEW g, Iterates(S, N, base, F, g)
  PROVE  \E h \in StepsOf(S, N, base, F) : h[N] = g[1..N]
<1> DEFINE up == [i \in 0..N |-> g[1..i]]
           Good == {n \in Nat : n <= N => up[n] \in S}
<1>1. 1..0 = {} /\ 0 \in 0..N /\ N \in 0..N
  OBVIOUS
<1>2. \A i \in 1..N : i \in 0..N /\ i - 1 \in 0..N
  OBVIOUS
<1>3. \A n \in Nat : n + 1 <= N => n <= N /\ n + 1 \in 1..N /\ (n + 1) - 1 = n
  OBVIOUS
<1>4. \A n \in 0..N : n \in Nat /\ n <= N
  OBVIOUS
<1>5. \A i \in 0..N : up[i] = g[1..i]
  OBVIOUS
<1>8. ASSUME NEW i \in 1..N, NEW x \in S PROVE F[i][x] \in S
  OBVIOUS
<1> HIDE DEF up
<1>13. g[{}] = base
  BY DEF Iterates
<1>14. ASSUME NEW i \in 1..N PROVE g[1..i - 1] \in S => g[1..i] = F[i][g[1..i - 1]]
  <2> HAVE g[1..i - 1] \in S
  <2> DEFINE D == 1..i
  <2>1. D \in (SUBSET (1..N)) \ {{}} /\ Max(D) = i /\ D \ {Max(D)} = 1..i - 1
    BY FoldDomain
  <2> HIDE DEF D
  <2>2. g[D] = F[i][g[1..i - 1]]
    BY <2>1 DEF Iterates
  <2> QED BY <2>2 DEF D
<1>6. up[0] = base
  BY <1>1, <1>5, <1>13
<1>7. ASSUME NEW i \in 1..N, up[i - 1] \in S PROVE up[i] = F[i][up[i - 1]]
  <2>1. up[i] = g[1..i] /\ up[i - 1] = g[1..i - 1]
    BY <1>2, <1>5
  <2>2. g[1..i] = F[i][g[1..i - 1]]
    BY <2>1, <1>7, <1>14
  <2> QED BY <2>1, <2>2
<1>9. \A n \in Nat : n \in Good
  <2>1. 0 \in Good
    BY <1>6
  <2>2. ASSUME NEW n \in Nat, n \in Good PROVE n + 1 \in Good
    <3> SUFFICES ASSUME n + 1 <= N PROVE up[n + 1] \in S
      OBVIOUS
    <3>1. up[n] \in S /\ n + 1 \in 1..N /\ (n + 1) - 1 = n
      BY <2>2, <1>3
    <3>2. up[n + 1] = F[n + 1][up[n]]
      BY <3>1, <1>7
    <3>3. F[n + 1][up[n]] \in S
      BY <3>1, <1>8
    <3> QED BY <3>2, <3>3
  <2> HIDE DEF Good
  <2> QED BY <2>1, <2>2, NatInductionOn
<1>10. \A n \in 0..N : up[n] \in S
  BY <1>9, <1>4
<1>11. up \in [0..N -> S]
  BY <1>10 DEF up
<1>12. up \in StepsOf(S, N, base, F)
  BY <1>2, <1>6, <1>7, <1>10, <1>11 DEF StepsOf
<1> QED BY <1>1, <1>5, <1>12

\* Every F has a function that goes from one position to the next, and only one.
LEMMA StepsExist ==
  ASSUME NEW S, NEW N \in Nat, NEW base \in S, NEW F \in [1..N -> [S -> S]]
  PROVE  \E h : h \in StepsOf(S, N, base, F)
<1>1. PICK g : g \in FoldsOf(S, N, base, F)
  BY FoldExists
<1>2. Iterates(S, N, base, F, g)
  <2>1. g[{}] = base
    BY <1>1 DEF FoldsOf
  <2>2. ASSUME NEW D \in (SUBSET (1..N)) \ {{}} PROVE g[D] = F[Max(D)][g[D \ {Max(D)}]]
    BY <1>1 DEF FoldsOf
  <2> QED BY <2>1, <2>2 DEF Iterates
<1> QED BY <1>2, FoldPrefixes

\* Two functions start alike, and one goes on where the other does.
Follows(f, h, N) == f[0] = h[0] /\ \A i \in 1..N : f[i - 1] = h[i - 1] => f[i] = h[i]

LEMMA StepsAgree ==
  ASSUME NEW N \in Nat, NEW f, NEW h, Follows(f, h, N)
  PROVE  \A i \in 0..N : f[i] = h[i]
<1> USE DEF Follows
<1> DEFINE Good == {n \in Nat : n <= N => f[n] = h[n]}
<1>1. 0 \in Good
  OBVIOUS
<1>2. ASSUME NEW n \in Nat, n <= N => f[n] = h[n], n + 1 <= N PROVE f[n + 1] = h[n + 1]
  <2>1. n + 1 \in 1..N /\ (n + 1) - 1 = n /\ n <= N
    BY <1>2
  <2> QED BY <1>2, <2>1
<1>3. \A n \in Nat : n \in Good
  <2>1. \A n \in Nat : n \in Good => n + 1 \in Good
    BY <1>2
  <2> HIDE DEF Good
  <2> QED BY <1>1, <2>1, NatInductionOn
<1> QED BY <1>3

\* FlattenSeq puts the sequences of s end to end, one after another.
Glues(h, s, X) ==
  /\ h \in [0..Len(s) -> Seq(X)] /\ h[0] = << >>
  /\ \A i \in 1..Len(s) : h[i] = h[i - 1] \o s[i]

LEMMA FlattenSteps ==
  ASSUME NEW X, NEW s \in Seq(Seq(X))
  PROVE  \E h : Glues(h, s, X) /\ FlattenSeq(s) = h[Len(s)]
<1>1. PICK N, S, base, e : N = Len(s) /\ S = Seq(X) /\ base = << >> /\ e = s
  OBVIOUS
<1>2. N \in Nat /\ base \in S /\ e \in [1..N -> S] /\ Len(base) = 0
  BY <1>1
<1>20. \A x \in S : base \o x = x /\ Len(x) \in Nat
  BY <1>1, ConcatEmptySeq
<1>21. \A x, y \in S :
          /\ x \o y \in S /\ Len(x \o y) = Len(x) + Len(y)
          /\ \A j \in 1..Len(x) + Len(y) : (x \o y)[j] = IF j <= Len(x) THEN x[j] ELSE y[j - Len(x)]
  BY <1>1, ConcatProperties
<1>23. /\ \A i \in 1..N : i \in 0..N /\ i - 1 \in 0..N /\ (i # 1 => i - 1 \in 1..N)
       /\ 1 - 1 = 0 /\ 0 \in 0..N /\ N \in 0..N
  BY <1>2
<1> DEFINE F == [i \in 1..N |-> [x \in S |-> x \o e[i]]]
<1>3. F \in [1..N -> [S -> S]]
  BY <1>2, <1>21
<1>4. \A i \in 1..N, x \in S : F[i][x] = x \o e[i]
  OBVIOUS
<1> HIDE DEF F
<1>5. PICK h : h \in StepsOf(S, N, base, F)
  BY <1>2, <1>3, StepsExist
<1>6. /\ h \in [0..N -> S] /\ h[0] = base
      /\ \A i \in 1..N : h[i] = h[i - 1] \o e[i]
  BY <1>4, <1>5, <1>23 DEF StepsOf
<1>7. ASSUME NEW i \in 1..N, i = 1 PROVE h[i] = e[i]
  <2>1. i - 1 = 0 /\ e[i] \in S
    BY <1>2, <1>7
  <2>2. h[i - 1] = base
    BY <1>6, <2>1
  <2>3. h[i] = base \o e[i]
    BY <1>6, <2>2
  <2> QED BY <1>20, <2>1, <2>3
<1>8. FlattenSeq(s) = h[N]
  <2>1. CASE N = 0
    <3>1. s = << >>
      BY <1>1, <2>1, EmptySeq
    <3> QED BY <1>1, <1>6, <2>1, <3>1 DEF FlattenSeq
  <2>2. CASE N # 0
    <3> DEFINE Body(g) == [i \in 1..Len(s) |-> IF i = 1 THEN s[i] ELSE g[i - 1] \o s[i]]
               flat == CHOOSE g : g = Body(g)
    <3>1. FlattenSeq(s) = flat[N]
      BY <1>1, <2>2 DEF FlattenSeq
    <3>2. \A g : Body(g) = [i \in 1..N |-> IF i = 1 THEN e[i] ELSE g[i - 1] \o e[i]]
      BY <1>1
    <3> HIDE DEF Body
    <3>3. PICK g : g = [i \in 1..N |-> h[i]]
      OBVIOUS
    <3>4. g = Body(g)
      <4>1. ASSUME NEW i \in 1..N PROVE h[i] = IF i = 1 THEN e[i] ELSE g[i - 1] \o e[i]
        BY <1>6, <1>7, <1>23, <3>3
      <4> QED BY <3>2, <3>3, <4>1
    <3>5. flat = Body(flat)
      BY <3>4
    <3> HIDE DEF flat
    <3>6. \A i \in 1..N : flat[i] = IF i = 1 THEN e[i] ELSE flat[i - 1] \o e[i]
      BY <3>2, <3>5
    <3>7. PICK f : f = [i \in 0..N |-> IF i = 0 THEN base ELSE flat[i]]
      OBVIOUS
    <3>8. f[0] = h[0] /\ \A i \in 1..N : f[i] = flat[i] /\ (i # 1 => f[i - 1] = flat[i - 1])
      BY <1>6, <1>23, <3>7
    <3>9. ASSUME NEW i \in 1..N, f[i - 1] = h[i - 1] PROVE f[i] = h[i]
      <4>1. CASE i = 1
        BY <1>7, <3>6, <3>8, <4>1
      <4>2. CASE i # 1
        <5>1. f[i - 1] = flat[i - 1] /\ f[i] = flat[i]
          BY <3>8, <4>2
        <5>2. flat[i] = flat[i - 1] \o e[i]
          BY <3>6, <4>2
        <5>3. h[i] = h[i - 1] \o e[i]
          BY <1>6
        <5> QED BY <3>9, <5>1, <5>2, <5>3
      <4> QED BY <4>1, <4>2
    <3>11. Follows(f, h, N)
      BY <3>8, <3>9 DEF Follows
    <3>10. \A i \in 0..N : f[i] = h[i]
      <4> HIDE DEF Follows
      <4>1. N \in Nat
        BY <1>2
      <4> QED BY <4>1, <3>11, StepsAgree, Zenon
    <3> QED BY <1>23, <3>1, <3>8, <3>10, <2>2
  <2> QED BY <2>1, <2>2
<1> QED BY <1>1, <1>6, <1>8 DEF Glues

\* The sequences that FlattenSeq puts end to end begin where the lengths of
\* those before add up to.
Sums(o, s) ==
  /\ o \in [0..Len(s) -> Nat] /\ o[0] = 0
  /\ \A i \in 1..Len(s) : o[i] = o[i - 1] + Len(s[i])

Joins(f, o, s) ==
  /\ Len(f) = o[Len(s)]
  /\ \A i \in 1..Len(s) : \A k \in 1..Len(s[i]) : f[o[i - 1] + k] = s[i][k]

LEMMA Flattened ==
  ASSUME NEW X, NEW s \in Seq(Seq(X)), NEW o, Sums(o, s)
  PROVE  FlattenSeq(s) \in Seq(X) /\ Joins(FlattenSeq(s), o, s)
<1>1. PICK N, S, base, e : N = Len(s) /\ S = Seq(X) /\ base = << >> /\ e = s
  OBVIOUS
<1>2. N \in Nat /\ base \in S /\ e \in [1..N -> S] /\ Len(base) = 0
  BY <1>1
<1>20. \A x \in S : base \o x = x /\ Len(x) \in Nat
  BY <1>1, ConcatEmptySeq
<1>21. \A x, y \in S :
          /\ x \o y \in S /\ Len(x \o y) = Len(x) + Len(y)
          /\ \A j \in 1..Len(x) + Len(y) : (x \o y)[j] = IF j <= Len(x) THEN x[j] ELSE y[j - Len(x)]
  BY <1>1, ConcatProperties
<1>22. /\ o \in [0..N -> Nat] /\ o[0] = 0
       /\ \A i \in 1..N : o[i] = o[i - 1] + Len(e[i])
  BY <1>1 DEF Sums
<1>23. /\ \A i \in 1..N : i \in 0..N /\ i - 1 \in 0..N /\ (i # 1 => i - 1 \in 1..N)
       /\ 1 - 1 = 0 /\ 0 \in 0..N /\ N \in 0..N
  BY <1>2
<1>5. PICK h : Glues(h, s, X) /\ FlattenSeq(s) = h[Len(s)]
  BY FlattenSteps
<1>6. /\ h \in [0..N -> S] /\ h[0] = base
      /\ \A i \in 1..N : h[i] = h[i - 1] \o e[i]
  BY <1>1, <1>5 DEF Glues
<1>8. FlattenSeq(s) = h[N]
  BY <1>1, <1>5
<1> DEFINE Placed(n) ==
             /\ Len(h[n]) = o[n]
             /\ \A i \in 1..n : \A k \in 1..Len(e[i]) :
                   o[i - 1] + k \in 1..o[n] /\ h[n][o[i - 1] + k] = e[i][k]
           Good == {n \in Nat : n <= N => Placed(n)}
<1>9. Placed(0)
  BY <1>2, <1>6, <1>22
<1>10. ASSUME NEW n \in Nat, n + 1 <= N, Placed(n) PROVE Placed(n + 1)
  <2>1. n + 1 \in 1..N /\ (n + 1) - 1 = n /\ n \in 0..N /\ n + 1 \in 0..N
    BY <1>2, <1>10
  <2>2. PICK q, r, a, m : q = h[n] /\ r = e[n + 1] /\ a = o[n] /\ m = Len(r)
    OBVIOUS
  <2>3. /\ h[n + 1] = q \o r /\ o[n + 1] = a + m /\ q \in S /\ r \in S /\ a \in Nat
    BY <1>2, <1>6, <1>22, <2>1, <2>2
  <2>4. m \in Nat /\ Len(q) = a
    BY <1>10, <1>20, <2>2, <2>3
  <2>5. Len(q \o r) = a + m /\ \A j \in 1..a + m : (q \o r)[j] = IF j <= a THEN q[j] ELSE r[j - a]
    <3>1. /\ Len(q \o r) = Len(q) + Len(r)
          /\ \A j \in 1..Len(q) + Len(r) : (q \o r)[j] = IF j <= Len(q) THEN q[j] ELSE r[j - Len(q)]
      BY <1>21, <2>3
    <3>2. Len(q) = a /\ Len(r) = m
      BY <2>2, <2>4
    <3> HIDE DEF Placed
    <3> QED BY <3>1, <3>2
  <2>6. ASSUME NEW i \in 1..n + 1, NEW k \in 1..Len(e[i])
        PROVE  o[i - 1] + k \in 1..o[n + 1] /\ h[n + 1][o[i - 1] + k] = e[i][k]
    <3>1. CASE i = n + 1
      <4>1. e[i] = r /\ o[i - 1] = a /\ k \in 1..m
        BY <2>1, <2>2, <3>1
      <4>2. a + k \in 1..a + m /\ ~(a + k <= a) /\ (a + k) - a = k
        BY <2>3, <2>4, <4>1
      <4>3. (q \o r)[a + k] = r[k]
        BY <2>5, <4>2
      <4> QED BY <2>3, <4>1, <4>2, <4>3
    <3>2. CASE i # n + 1
      <4>1. i \in 1..n
        BY <3>2
      <4>2. PICK j : j = o[i - 1] + k
        OBVIOUS
      <4>3. j \in 1..a /\ q[j] = e[i][k]
        BY <1>10, <2>2, <4>1, <4>2
      <4>4. j \in 1..a + m /\ j <= a
        BY <2>3, <2>4, <4>3
      <4>5. (q \o r)[j] = q[j]
        BY <2>5, <4>4
      <4> QED BY <2>3, <4>2, <4>3, <4>4, <4>5
    <3> QED BY <3>1, <3>2
  <2>7. Len(h[n + 1]) = o[n + 1]
    BY <2>3, <2>5
  <2> QED BY <2>6, <2>7
<1>11. ASSUME NEW n \in Nat, n \in Good PROVE n + 1 \in Good
  <2> HIDE DEF Placed
  <2> QED BY <1>10, <1>11, <1>2
<1>12. N \in Good
  <2>1. 0 \in Good
    BY <1>9
  <2> HIDE DEF Good
  <2> QED BY <1>2, <1>11, <2>1, NatInductionOn
<1>13. Placed(N)
  BY <1>2, <1>12
<1>14. h[N] \in Seq(X)
  BY <1>1, <1>6, <1>23
<1> QED BY <1>1, <1>8, <1>13, <1>14 DEF Joins

\* Every position of the flattened sequence belongs to one of its parts, and to
\* one only.
LEMMA SumsCover ==
  ASSUME NEW X, NEW s \in Seq(Seq(X)), NEW o, Sums(o, s)
  PROVE  /\ \A j \in 1..o[Len(s)] : \E i \in 1..Len(s) : j \in o[i - 1] + 1..o[i - 1] + Len(s[i])
         /\ \A i, m \in 1..Len(s) :
              (o[i - 1] + 1..o[i - 1] + Len(s[i])) \cap (o[m - 1] + 1..o[m - 1] + Len(s[m])) # {}
                => i = m
         /\ \A i \in 1..Len(s) : o[i - 1] + Len(s[i]) <= o[Len(s)]
<1>1. PICK N : N = Len(s)
  OBVIOUS
<1>2. /\ N \in Nat /\ o \in [0..N -> Nat] /\ o[0] = 0
      /\ \A i \in 1..N : o[i] = o[i - 1] + Len(s[i])
  BY <1>1 DEF Sums
<1>3. \A i \in 1..N : s[i] \in Seq(X) /\ Len(s[i]) \in Nat /\ i - 1 \in 0..N
  BY <1>1
<1> DEFINE Before(n) == \A i \in 0..N : i <= n => o[i] <= o[n]
           Covered(n) == \A j \in 1..o[n] : \E i \in 1..N : j \in o[i - 1] + 1..o[i - 1] + Len(s[i])
           Good == {n \in Nat : n <= N => Before(n) /\ Covered(n)}
<1>4. Before(0) /\ Covered(0)
  BY <1>2
<1>5. ASSUME NEW n \in Nat, n + 1 <= N, Before(n), Covered(n) PROVE Before(n + 1) /\ Covered(n + 1)
  <2>0. n + 1 \in 1..N
    BY <1>2, <1>5
  <2>1. PICK m : m = Len(s[n + 1]) /\ m \in Nat
    BY <1>3, <2>0
  <2>2. n + 1 \in 1..N /\ (n + 1) - 1 = n /\ n \in 0..N /\ n + 1 \in 0..N
    BY <1>2, <1>5
  <2>3. o[n + 1] = o[n] + m /\ o[n] \in Nat /\ o[n + 1] \in Nat
    BY <1>2, <2>1, <2>2
  <2>4. ASSUME NEW i \in 0..N, i <= n + 1 PROVE o[i] <= o[n + 1]
    <3>1. CASE i = n + 1
      BY <2>3, <3>1
    <3>2. CASE i # n + 1
      <4>1. i <= n /\ o[i] \in Nat
        BY <1>2, <2>4, <3>2
      <4>2. o[i] <= o[n]
        BY <1>5, <4>1
      <4> QED BY <2>1, <2>3, <4>1, <4>2
    <3> QED BY <3>1, <3>2
  <2>5. ASSUME NEW j \in 1..o[n + 1] PROVE \E i \in 1..N : j \in o[i - 1] + 1..o[i - 1] + Len(s[i])
    <3>1. CASE j <= o[n]
      <4>1. j \in 1..o[n]
        BY <2>3, <3>1
      <4> QED BY <1>5, <4>1
    <3>2. CASE j > o[n]
      <4>1. j \in o[n] + 1..o[n] + m
        BY <2>1, <2>3, <3>2
      <4>2. j \in o[(n + 1) - 1] + 1..o[(n + 1) - 1] + Len(s[n + 1])
        BY <2>1, <2>2, <4>1
      <4> QED BY <2>2, <4>2
    <3> QED BY <2>3, <3>1, <3>2
  <2> QED BY <2>4, <2>5
<1> HIDE DEF Before, Covered
<1>6. \A n \in Nat : n \in Good
  <2>1. 0 \in Good
    BY <1>4
  <2>2. ASSUME NEW n \in Nat, n \in Good PROVE n + 1 \in Good
    <3>1. n + 1 <= N => n <= N
      BY <1>2
    <3> QED BY <1>5, <2>2, <3>1
  <2> HIDE DEF Good
  <2> QED BY <2>1, <2>2, NatInductionOn
<1>7. \A n \in 0..N : Before(n) /\ Covered(n)
  BY <1>6, <1>2
<1>8. ASSUME NEW i \in 1..N, NEW m \in 1..N, i < m,
             NEW j \in (o[i - 1] + 1..o[i - 1] + Len(s[i])) \cap (o[m - 1] + 1..o[m - 1] + Len(s[m]))
      PROVE  FALSE
  <2>1. i \in 0..N /\ m - 1 \in 0..N /\ i <= m - 1 /\ i - 1 \in 0..N
    BY <1>2, <1>8
  <2>2. o[i] <= o[m - 1]
    BY <1>7, <2>1 DEF Before
  <2>3. o[i] = o[i - 1] + Len(s[i]) /\ o[i] \in Nat /\ o[m - 1] \in Nat /\ o[i - 1] \in Nat
    BY <1>2, <2>1
  <2> QED BY <1>3, <1>8, <2>2, <2>3
<1>9. ASSUME NEW i \in 1..N, NEW m \in 1..N,
             (o[i - 1] + 1..o[i - 1] + Len(s[i])) \cap (o[m - 1] + 1..o[m - 1] + Len(s[m])) # {}
      PROVE  i = m
  <2>1. ~(i < m) /\ ~(m < i)
    BY <1>8, <1>9
  <2> QED BY <2>1
<1>10. ASSUME NEW i \in 1..N PROVE o[i - 1] + Len(s[i]) <= o[N]
  <2>1. i \in 0..N /\ N \in 0..N /\ i <= N /\ o[i] = o[i - 1] + Len(s[i])
    BY <1>2
  <2> QED BY <1>7, <2>1 DEF Before
<1>11. Covered(N)
  BY <1>2, <1>7
<1> QED BY <1>1, <1>9, <1>10, <1>11 DEF Covered
=============================================================================
