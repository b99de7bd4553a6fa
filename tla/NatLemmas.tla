------------------------------ MODULE NatLemmas ------------------------------
(***************************************************************************)
(* Least and greatest elements of sets of natural numbers, the finiteness   *)
(* of what a sequence holds, and what a selection from it holds: the facts  *)
(* the proofs of the components share.                                     *)
(***************************************************************************)
EXTENDS Integers, Sequences, FiniteSets, FiniteSetTheorems, FunctionTheorems,
        WellFoundedInduction, SequenceTheorems, Selections, TLAPS

\* Every non-empty set of naturals has a least element.
LEMMA LeastNat ==
  ASSUME NEW T, T \subseteq Nat, T # {}
  PROVE  \E x \in T : \A y \in T : x <= y
<1> DEFINE R == {ss \in Nat \X Nat : ss[1] < ss[2]}
<1>1. IsWellFoundedOn(R, Nat)
  BY NatLessThanWellFounded DEF OpToRel
<1>2. \A x, y \in Nat : x < y => <<x, y>> \in R
  OBVIOUS
<1>3. \A x, y \in T : ~ (y < x) => x <= y
  OBVIOUS
<1> HIDE DEF R
<1>4. \E x \in T : \A y \in T : ~ (<<y, x>> \in R)
  BY <1>1, WFMin
<1> QED BY <1>2, <1>3, <1>4, Zenon

\* Every non-empty finite set of integers that is a set of naturals has a
\* greatest element.
LEMMA FiniteMax ==
  ASSUME NEW S, S \subseteq Nat, S # {}, IsFiniteSet(S)
  PROVE  \E x \in S : \A y \in S : y <= x
<1> DEFINE NoMax(X) == X # {} /\ ~ \E x \in X : \A y \in X : y <= x
           Bad == {n \in Nat : \E X \in SUBSET S : Cardinality(X) = n /\ NoMax(X)}
<1>1. SUFFICES ASSUME NoMax(S) PROVE FALSE
  OBVIOUS
<1>2. Cardinality(S) \in Bad
  BY <1>1, FS_CardinalityType
<1>3. PICK n \in Bad : \A m \in Bad : n <= m
  BY <1>2, LeastNat
<1>4. PICK X \in SUBSET S : Cardinality(X) = n /\ NoMax(X)
  BY <1>3
<1>5. PICK e \in X : TRUE
  BY <1>4
<1>6. /\ Cardinality(X \ {e}) = n - 1
      /\ n \in Nat /\ n - 1 \in Nat
  <2>1. IsFiniteSet(X)
    BY FS_Subset
  <2>2. IsFiniteSet(X \ {e}) /\ Cardinality(X \ {e}) = n - 1
    BY <2>1, <1>4, <1>5, FS_RemoveElement
  <2>3. n \in Nat /\ Cardinality(X \ {e}) \in Nat
    BY <2>2, <1>3, FS_CardinalityType
  <2> QED BY <2>2, <2>3
<1>7. NoMax(X \ {e})
  <2>1. CASE X \ {e} = {}
    <3>1. \A y \in X : y <= e
      BY <2>1, <1>5, <1>4
    <3> QED BY <3>1, <1>4, <1>5
  <2>2. CASE X \ {e} # {}
    <3>1. SUFFICES ASSUME NEW x \in X \ {e}, \A y \in X \ {e} : y <= x PROVE FALSE
      BY <2>2
    <3>2. x \in Nat /\ e \in Nat
      BY <1>4, <1>5
    <3>3. CASE e <= x
      BY <3>1, <3>3, <1>4
    <3>4. CASE ~(e <= x)
      <4>1. \A y \in X : y <= e
        BY <3>1, <3>2, <3>4, <1>4
      <4> QED BY <4>1, <1>4, <1>5
    <3> QED BY <3>3, <3>4
  <2> QED BY <2>1, <2>2
<1>8. n - 1 \in Bad
  BY <1>6, <1>7, <1>4
<1> QED BY <1>8, <1>3, <1>6

\* The image of 1..n under a function is finite.
LEMMA FiniteRange ==
  ASSUME NEW n \in Nat, NEW f, DOMAIN f = 1..n, f = [i \in DOMAIN f |-> f[i]]
  PROVE  IsFiniteSet({f[i] : i \in 1..n})
<1>1. f \in Surjection(1..n, {f[i] : i \in 1..n})
  BY DEF Surjection
<1>2. IsFiniteSet(1..n)
  BY FS_Interval
<1> QED BY <1>1, <1>2, FS_Surjection

\* What a sequence holds is a finite set.
LEMMA FiniteSeqRange ==
  ASSUME NEW S, NEW s \in Seq(S)
  PROVE  IsFiniteSet({s[i] : i \in DOMAIN s})
<1>1. Len(s) \in Nat /\ s \in [1..Len(s) -> S] /\ DOMAIN s = 1..Len(s)
  BY LenProperties
<1>2. s = [i \in DOMAIN s |-> s[i]]
  BY <1>1
<1> QED BY <1>1, <1>2, FiniteRange

\* 1..m has m elements.
LEMMA IntervalCardinality ==
  ASSUME NEW m \in Nat
  PROVE  IsFiniteSet(1..m) /\ Cardinality(1..m) = m
<1>1. 1 \in Int /\ m \in Int
  OBVIOUS
<1>2. IsFiniteSet(1..m) /\ Cardinality(1..m) = IF 1 > m THEN 0 ELSE m - 1 + 1
  BY <1>1, FS_Interval, Zenon
<1>3. (IF 1 > m THEN 0 ELSE m - 1 + 1) = m
  OBVIOUS
<1> QED BY <1>2, <1>3

\* The empty sequence and a sequence of one.
LEMMA ShortSeqs ==
  ASSUME NEW S
  PROVE  <<>> \in Seq(S) /\ \A x \in S : <<x>> \in Seq(S)
  OBVIOUS

\* A prefix of a sequence is a sequence of the same elements.
LEMMA PrefixType ==
  ASSUME NEW S, NEW s \in Seq(S), NEW n \in 0..Len(s)
  PROVE  /\ SubSeq(s, 1, n) \in Seq(S) /\ Len(SubSeq(s, 1, n)) = n
         /\ \A i \in 1..n : SubSeq(s, 1, n)[i] = s[i]
  OBVIOUS

\* So is what follows a prefix.
LEMMA SuffixType ==
  ASSUME NEW S, NEW s \in Seq(S), NEW n \in 0..Len(s)
  PROVE  SubSeq(s, n + 1, Len(s)) \in Seq(S)
<1>1. Len(s) \in Nat /\ n \in Nat
  BY LenProperties
<1>2. n + 1 \in 1..(Len(s) + 1)
  BY <1>1
<1> QED BY <1>1, <1>2, SubSeqProperties

-----------------------------------------------------------------------------
(* What a selection by position holds: the elements at the positions chosen, *)
(* in order.                                                                 *)

\* F holds what is kept of every prefix of s up to n.
KeptBelow(F, s, K, n) ==
  F = [i \in 0..n |-> IF i = 0 THEN <<>>
                      ELSE IF i \in K THEN Append(F[i - 1], s[i]) ELSE F[i - 1]]

LEMMA KeptExtends ==
  ASSUME NEW s, NEW K, NEW m \in Nat, NEW F, KeptBelow(F, s, K, m)
  PROVE  \E G : KeptBelow(G, s, K, m + 1)
<1> DEFINE Final == IF m + 1 \in K THEN Append(F[m], s[m + 1]) ELSE F[m]
           G == [i \in 0..(m + 1) |-> IF i = m + 1 THEN Final ELSE F[i]]
<1>1. \A i \in 0..m : F[i] = IF i = 0 THEN <<>>
                             ELSE IF i \in K THEN Append(F[i - 1], s[i]) ELSE F[i - 1]
  BY DEF KeptBelow
<1>2. G[m + 1] = Final /\ \A i \in 0..m : G[i] = F[i]
  OBVIOUS
<1>3. DOMAIN G = 0..(m + 1) /\ G = [i \in 0..(m + 1) |-> G[i]]
  OBVIOUS
<1> HIDE DEF G
<1>4. ASSUME NEW i \in 0..(m + 1)
      PROVE  G[i] = IF i = 0 THEN <<>>
                    ELSE IF i \in K THEN Append(G[i - 1], s[i]) ELSE G[i - 1]
  <2>1. CASE i = m + 1
    <3>1. G[i - 1] = F[m] /\ i # 0
      BY <2>1, <1>2
    <3> QED BY <3>1, <2>1, <1>2
  <2>2. CASE i # m + 1
    <3>1. i \in 0..m /\ (i # 0 => i - 1 \in 0..m)
      BY <2>2
    <3> QED BY <3>1, <1>1, <1>2
  <2> QED BY <2>1, <2>2
<1>5. KeptBelow(G, s, K, m + 1)
  BY <1>3, <1>4 DEF KeptBelow
<1> QED BY <1>5

LEMMA KeptExists ==
  ASSUME NEW s, NEW K, NEW n \in Nat
  PROVE  \E F : KeptBelow(F, s, K, n)
<1> DEFINE Bad == {m \in Nat : ~ \E F : KeptBelow(F, s, K, m)}
<1>1. SUFFICES ASSUME Bad # {} PROVE FALSE
  OBVIOUS
<1>2. PICK m \in Bad : \A k \in Bad : m <= k
  BY <1>1, LeastNat
<1>3. CASE m = 0
  <2>1. 0..0 = {0}
    OBVIOUS
  <2>2. KeptBelow([i \in 0..0 |-> <<>>], s, K, 0)
    BY <2>1 DEF KeptBelow
  <2> QED BY <2>2, <1>2, <1>3
<1>4. CASE m # 0
  <2>1. m - 1 \in Nat /\ m - 1 \notin Bad /\ m - 1 + 1 = m
    BY <1>2, <1>4
  <2>2. PICK F : KeptBelow(F, s, K, m - 1)
    BY <2>1
  <2>3. \E G : KeptBelow(G, s, K, m - 1 + 1)
    BY <2>1, <2>2, KeptExtends
  <2> QED BY <2>1, <2>3, <1>2
<1> QED BY <1>3, <1>4

\* SelectAt goes through the sequence once.
SelectsBy(F, s, K) ==
  /\ F[0] = <<>> /\ SelectAt(s, K) = F[Len(s)]
  /\ \A i \in 1..Len(s) : F[i] = IF i \in K THEN Append(F[i - 1], s[i]) ELSE F[i - 1]

LEMMA SelectAtSteps ==
  ASSUME NEW s, NEW K, Len(s) \in Nat
  PROVE  \E F : SelectsBy(F, s, K)
<1> DEFINE kept == CHOOSE F : KeptBelow(F, s, K, Len(s))
<1>1. SelectAt(s, K) = kept[Len(s)]
  BY DEF SelectAt, KeptBelow
<1>2. KeptBelow(kept, s, K, Len(s))
  BY KeptExists
<1> HIDE DEF kept
<1>3. \A i \in 0..Len(s) : kept[i] = IF i = 0 THEN <<>>
                           ELSE IF i \in K THEN Append(kept[i - 1], s[i]) ELSE kept[i - 1]
  BY <1>2 DEF KeptBelow
<1>4. 0 \in 0..Len(s) /\ \A i \in 1..Len(s) : i \in 0..Len(s) /\ i # 0
  OBVIOUS
<1>5. SelectsBy(kept, s, K)
  BY <1>1, <1>3, <1>4 DEF SelectsBy
<1> QED BY <1>5

\* It holds the elements at those positions, as many as there are positions.
Selected(t, S, s, K) ==
  /\ t \in Seq(S)
  /\ Len(t) = Cardinality(K \cap DOMAIN s)
  /\ \A i \in DOMAIN t : \E j \in K \cap DOMAIN s : t[i] = s[j]
  /\ \A j \in K \cap DOMAIN s : \E i \in DOMAIN t : t[i] = s[j]

\* In their order: an element comes after those at the positions before it.
AtRank(t, s, K) ==
  \A j \in K \cap DOMAIN s : /\ Cardinality(K \cap (1..j)) \in DOMAIN t
                            /\ t[Cardinality(K \cap (1..j))] = s[j]

LEMMA SelectAtFacts ==
  ASSUME NEW S, NEW s \in Seq(S), NEW K
  PROVE  Selected(SelectAt(s, K), S, s, K) /\ AtRank(SelectAt(s, K), s, K)
<1>1. Len(s) \in Nat /\ DOMAIN s = 1..Len(s) /\ \A i \in 1..Len(s) : s[i] \in S
  BY LenProperties
<1>2. PICK F : SelectsBy(F, s, K)
  BY <1>1, SelectAtSteps, Zenon
<1> USE DEF SelectsBy
<1> DEFINE Kn(n) == K \cap (1..n)
           Good(n) == /\ F[n] \in Seq(S) /\ IsFiniteSet(Kn(n)) /\ Len(F[n]) = Cardinality(Kn(n))
                      /\ \A i \in DOMAIN F[n] : \E j \in Kn(n) : F[n][i] = s[j]
                      /\ \A j \in Kn(n) : \E i \in DOMAIN F[n] : F[n][i] = s[j]
                      /\ \A j \in Kn(n) : /\ Cardinality(Kn(j)) \in DOMAIN F[n]
                                          /\ F[n][Cardinality(Kn(j))] = s[j]
           Bad == {n \in 0..Len(s) : ~ Good(n)}
<1>3. Good(0)
  <2>1. Kn(0) = {}
    OBVIOUS
  <2>2. IsFiniteSet(Kn(0)) /\ Cardinality(Kn(0)) = 0
    BY <2>1, FS_EmptySet
  <2>3. F[0] \in Seq(S) /\ Len(F[0]) = 0 /\ DOMAIN F[0] = {}
    BY <1>2
  <2> HIDE DEF Kn
  <2> QED BY <2>1, <2>2, <2>3
<1>4. ASSUME NEW n \in 1..Len(s), Good(n - 1) PROVE Good(n)
  <2>1. n - 1 \in Nat /\ n \in Nat /\ s[n] \in S
    BY <1>1
  <2>2. CASE n \in K
    <3>1. F[n] = Append(F[n - 1], s[n])
      BY <2>2, <1>2
    <3>2. Kn(n) = Kn(n - 1) \cup {n} /\ n \notin Kn(n - 1)
      BY <2>2, <2>1
    <3> HIDE DEF Kn
    <3>3. IsFiniteSet(Kn(n)) /\ Cardinality(Kn(n)) = Cardinality(Kn(n - 1)) + 1
      <4>1. IsFiniteSet(Kn(n - 1))
        BY <1>4
      <4> HIDE DEF Good
      <4>2. /\ IsFiniteSet(Kn(n - 1) \cup {n})
            /\ Cardinality(Kn(n - 1) \cup {n}) = Cardinality(Kn(n - 1)) + 1
        BY <4>1, <3>2, FS_AddElement
      <4> QED BY <4>2, <3>2
    <3>4. /\ F[n] \in Seq(S) /\ Len(F[n]) = Len(F[n - 1]) + 1 /\ Len(F[n - 1]) \in Nat
          /\ F[n][Len(F[n - 1]) + 1] = s[n]
          /\ \A i \in 1..Len(F[n - 1]) : F[n][i] = F[n - 1][i]
          /\ DOMAIN F[n] = 1..(Len(F[n - 1]) + 1) /\ DOMAIN F[n - 1] = 1..Len(F[n - 1])
      <4>1. F[n - 1] \in Seq(S)
        BY <1>4
      <4> QED BY <4>1, <3>1, <2>1
    <3> DEFINE f == F[n - 1]
               g == F[n]
    <3>5. /\ \A i \in 1..Len(f) : \E j \in Kn(n - 1) : f[i] = s[j]
          /\ \A j \in Kn(n - 1) : \E i \in 1..Len(f) : f[i] = s[j]
      BY <3>4, <1>4
    <3>6. /\ \A j \in Kn(n - 1) : Cardinality(Kn(j)) \in 1..Len(f) /\ f[Cardinality(Kn(j))] = s[j]
          /\ Len(f) = Cardinality(Kn(n - 1))
      BY <3>4, <1>4
    <3>7. /\ g[Len(f) + 1] = s[n] /\ DOMAIN g = 1..(Len(f) + 1) /\ Len(f) \in Nat
          /\ \A i \in 1..Len(f) : g[i] = f[i]
      BY <3>4
    <3> HIDE DEF f, g
    <3>8. ASSUME NEW i \in DOMAIN g PROVE \E j \in Kn(n) : g[i] = s[j]
      <4>1. CASE i = Len(f) + 1
        BY <4>1, <3>2, <3>7
      <4>2. CASE i \in 1..Len(f)
        BY <4>2, <3>2, <3>5, <3>7
      <4> QED BY <4>1, <4>2, <3>7
    <3>9. ASSUME NEW j \in Kn(n) PROVE \E i \in DOMAIN g : g[i] = s[j]
      <4>1. CASE j = n
        BY <4>1, <3>7
      <4>2. CASE j \in Kn(n - 1)
        <5>1. PICK i \in 1..Len(f) : f[i] = s[j]
          BY <4>2, <3>5
        <5> QED BY <5>1, <3>7
      <4> QED BY <4>1, <4>2, <3>2
    <3>10. ASSUME NEW j \in Kn(n) PROVE Cardinality(Kn(j)) \in DOMAIN g /\ g[Cardinality(Kn(j))] = s[j]
      <4>1. CASE j = n
        BY <4>1, <3>3, <3>7, <3>6
      <4>2. CASE j \in Kn(n - 1)
        <5>1. Cardinality(Kn(j)) \in 1..Len(f) /\ f[Cardinality(Kn(j))] = s[j]
          BY <4>2, <3>6
        <5> QED BY <5>1, <3>7
      <4> QED BY <4>1, <4>2, <3>2
    <3> QED BY <3>3, <3>4, <3>8, <3>9, <3>10, <1>4 DEF g
  <2>3. CASE n \notin K
    <3>1. F[n] = F[n - 1]
      BY <2>3, <1>2
    <3>2. Kn(n) = Kn(n - 1)
      BY <2>3, <2>1
    <3> HIDE DEF Kn
    <3> QED BY <3>1, <3>2, <1>4
  <2> QED BY <2>2, <2>3
<1>5. Bad = {}
  <2>1. SUFFICES ASSUME Bad # {} PROVE FALSE
    OBVIOUS
  <2>2. Bad \subseteq Nat
    OBVIOUS
  <2>3. PICK n \in Bad : \A m \in Bad : n <= m
    BY <2>1, <2>2, LeastNat
  <2> HIDE DEF Good
  <2>4. n # 0
    BY <2>3, <1>3
  <2>5. n \in 1..Len(s) /\ n - 1 \in 0..Len(s) /\ n - 1 < n
    BY <2>3, <2>4, <1>1
  <2>6. Good(n - 1)
    BY <2>5, <2>3
  <2> QED BY <2>5, <2>6, <1>4, <2>3
<1>6. Good(Len(s))
  <2> HIDE DEF Good
  <2>1. Len(s) \in 0..Len(s)
    BY <1>1
  <2> QED BY <2>1, <1>5
<1>7. Kn(Len(s)) = K \cap DOMAIN s
  BY <1>1
<1>8. AtRank(F[Len(s)], s, K)
  BY <1>6, <1>7 DEF AtRank
<1> HIDE DEF Kn
<1> QED BY <1>2, <1>6, <1>7, <1>8 DEF Selected

\* Of the positions up to k it keeps the prefix.
LEMMA SelectAtPrefix ==
  ASSUME NEW S, NEW s \in Seq(S), NEW K, NEW k \in 0..Len(s), K \cap DOMAIN s = 1..k
  PROVE  SelectAt(s, K) = SubSeq(s, 1, k)
<1>1. Len(s) \in Nat /\ DOMAIN s = 1..Len(s) /\ \A i \in 1..Len(s) : s[i] \in S
  BY LenProperties
<1>2. PICK F : SelectsBy(F, s, K)
  BY <1>1, SelectAtSteps, Zenon
<1> USE DEF SelectsBy
<1>3. \A i \in 1..Len(s) : i \in K <=> i <= k
  BY <1>1
<1> DEFINE P(n) == SubSeq(s, 1, n)
           Good(n) == F[n] = IF n <= k THEN P(n) ELSE P(k)
           Bad == {n \in 0..Len(s) : ~ Good(n)}
<1>4. \A n \in 0..Len(s) : P(n) \in Seq(S) /\ Len(P(n)) = n /\ \A i \in 1..n : P(n)[i] = s[i]
  BY PrefixType
<1>5. Good(0)
  <2>1. Len(P(0)) = 0 /\ P(0) \in Seq(S)
    BY <1>4, <1>1
  <2>2. P(0) = <<>>
    BY <2>1
  <2> QED BY <2>2, <1>2
<1>6. ASSUME NEW n \in 1..Len(s), n <= k PROVE P(n) = Append(P(n - 1), s[n])
  OBVIOUS
<1> HIDE DEF P
<1>7. ASSUME NEW n \in 1..Len(s), Good(n - 1) PROVE Good(n)
  <2>1. F[n] = IF n <= k THEN Append(F[n - 1], s[n]) ELSE F[n - 1]
    BY <1>2, <1>3
  <2>2. n \in Nat /\ k \in Nat
    BY <1>1
  <2>3. CASE n <= k
    <3>1. n - 1 <= k
      BY <2>2, <2>3
    <3> QED BY <3>1, <2>1, <2>3, <1>6, <1>7
  <2>4. CASE ~(n <= k) /\ n - 1 <= k
    <3>1. n - 1 = k
      BY <2>2, <2>4
    <3> QED BY <3>1, <2>1, <2>4, <1>7
  <2>5. CASE ~(n <= k) /\ ~(n - 1 <= k)
    BY <2>5, <2>1, <1>7
  <2> QED BY <2>3, <2>4, <2>5
<1> HIDE DEF Good
<1>8. Bad = {}
  <2>1. SUFFICES ASSUME Bad # {} PROVE FALSE
    OBVIOUS
  <2>2. PICK n \in Bad : \A m \in Bad : n <= m
    <3>1. Bad \subseteq Nat
      OBVIOUS
    <3> QED BY <3>1, <2>1, LeastNat
  <2>3. n # 0
    BY <2>2, <1>5
  <2>4. n \in 1..Len(s) /\ n - 1 \in 0..Len(s) /\ n - 1 < n
    BY <2>2, <2>3, <1>1
  <2> QED BY <2>2, <2>4, <1>7
<1>9. Good(Len(s))
  <2>1. Len(s) \in 0..Len(s)
    BY <1>1
  <2> QED BY <2>1, <1>8
<1>10. Len(s) <= k => Len(s) = k
  <2>1. k \in Nat /\ k <= Len(s) /\ Len(s) \in Nat
    BY <1>1
  <2> QED BY <2>1
<1> QED BY <1>9, <1>10, <1>2 DEF Good, P
=============================================================================
