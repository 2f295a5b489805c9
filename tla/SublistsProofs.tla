---------------------------- MODULE SublistsProofs ----------------------------
(***************************************************************************)
(* What sublists of a sequence are, for every sequence and every set of    *)
(* its positions.                                                          *)
(***************************************************************************)
EXTENDS Sublists, Integers, FiniteSetTheorems, SequenceTheorems, TLAPS

(* Positions of a sequence are a finite set of natural numbers.            *)
LEMMA PositionsFinite ==
    ASSUME NEW n \in Nat, NEW K \in SUBSET (1..n)
    PROVE  /\ IsFiniteSet(K)
           /\ Cardinality(K) \in 0..n
  <1>1. IsFiniteSet(1..n) /\ Cardinality(1..n) = n
    BY FS_Interval
  <1>2. IsFiniteSet(K) /\ Cardinality(K) <= n
    BY <1>1, FS_Subset
  <1>3. Cardinality(K) \in Nat
    BY <1>2, FS_CardinalityType
  <1>4. QED
    BY <1>2, <1>3

(* A position's rank counts it and the positions before it.                *)
LEMMA RankBounds ==
    ASSUME NEW n \in Nat, NEW K \in SUBSET (1..n), NEW i \in K
    PROVE  Rank(K, i) \in 1..Cardinality(K)
  <1> DEFINE upto == {j \in K : j <= i}
  <1>1. IsFiniteSet(K) /\ Cardinality(K) \in Nat
    BY PositionsFinite
  <1>2. /\ IsFiniteSet(upto)
        /\ Cardinality(upto) <= Cardinality(K)
    BY <1>1, FS_Subset
  <1>3. i \in upto
    OBVIOUS
  <1>4. Cardinality(upto) \in Nat /\ Cardinality(upto) # 0
    BY <1>2, <1>3, FS_CardinalityType, FS_EmptySet
  <1>5. QED
    BY <1>1, <1>2, <1>4 DEF Rank

(* A later position has a higher rank.                                     *)
LEMMA RankIncreases ==
    ASSUME NEW n \in Nat, NEW K \in SUBSET (1..n), NEW i \in K, NEW j \in K, i < j
    PROVE  Rank(K, i) < Rank(K, j)
  <1> DEFINE A == {x \in K : x <= i}
             B == {x \in K : x <= j}
  <1>1. IsFiniteSet(B)
    BY PositionsFinite, FS_Subset
  <1>2. A \subseteq B /\ A # B
    <2>1. j \in B /\ j \notin A
      OBVIOUS
    <2>2. K \subseteq Int
      OBVIOUS
    <2>3. \A x \in K : x <= i => x <= j
      BY <2>2
    <2>4. QED
      BY <2>1, <2>3
  <1>3. /\ Cardinality(A) <= Cardinality(B)
        /\ Cardinality(A) # Cardinality(B)
    BY <1>1, <1>2, FS_Subset
  <1>4. Cardinality(A) \in Nat /\ Cardinality(B) \in Nat
    BY <1>1, <1>2, FS_Subset, FS_CardinalityType
  <1>5. QED
    BY <1>3, <1>4 DEF Rank

(* Each number up to the size of K is the rank of a position.              *)
LEMMA RankOnto ==
    ASSUME NEW n \in Nat, NEW K \in SUBSET (1..n), NEW k \in 1..Cardinality(K)
    PROVE  \E i \in K : Rank(K, i) = k
  <1> DEFINE c == Cardinality(K)
             f == [i \in K |-> Rank(K, i)]
  <1>1. IsFiniteSet(K) /\ c \in Nat
    BY PositionsFinite
  <1>2. f \in [K -> 1..c]
    BY RankBounds
  <1>3. \A i, j \in K : f[i] = f[j] => i = j
    <2>1. \A i, j \in K : i < j => f[i] < f[j]
      BY RankIncreases
    <2>2. \A i, j \in K : i < j \/ j < i \/ i = j
      OBVIOUS
    <2>3. \A i \in K : f[i] \in Nat
      BY <1>1, <1>2
    <2> HIDE DEF f
    <2>4. QED
      BY <2>1, <2>2, <2>3
  <1>4. f \in Injection(K, 1..c)
    BY <1>2, <1>3 DEF Injection, IsInjective
  <1>5. IsFiniteSet(1..c) /\ Cardinality(1..c) = c
    BY <1>1, FS_Interval
  <1> HIDE DEF f
  <1>6. f \in Surjection(K, 1..c)
    BY <1>4, <1>5, FS_Injection
  <1>7. \E i \in K : f[i] = k
    BY <1>6 DEF Surjection
  <1>8. QED
    BY <1>7 DEF f

(* Nth and Rank undo each other.                                           *)
LEMMA NthHasRank ==
    ASSUME NEW n \in Nat, NEW K \in SUBSET (1..n), NEW k \in 1..Cardinality(K)
    PROVE  Nth(K, k) \in K /\ Rank(K, Nth(K, k)) = k
  BY RankOnto DEF Nth

(* The member of the rank of a member is that member.                      *)
LEMMA NthOfRank ==
    ASSUME NEW n \in Nat, NEW K \in SUBSET (1..n), NEW i \in K
    PROVE  Nth(K, Rank(K, i)) = i
  <1> DEFINE j == Nth(K, Rank(K, i))
  <1>1. Rank(K, i) \in 1..Cardinality(K) /\ Cardinality(K) \in Nat
    <2>1. Rank(K, i) \in 1..Cardinality(K)
      BY RankBounds
    <2>2. IsFiniteSet(K) /\ Cardinality(K) \in Nat
      BY PositionsFinite
    <2>3. QED
      BY <2>1, <2>2
  <1>2. j \in K /\ Rank(K, j) = Rank(K, i)
    BY <1>1, NthHasRank
  <1> HIDE DEF j
  <1>3. ~(i < j) /\ ~(j < i)
    <2>1. i < j => Rank(K, i) < Rank(K, j)
      BY <1>2, RankIncreases
    <2>2. j < i => Rank(K, j) < Rank(K, i)
      BY <1>2, RankIncreases
    <2>3. QED
      BY <1>1, <1>2, <2>1, <2>2
  <1>4. i \in Int /\ j \in Int
    BY <1>2
  <1>5. i = j
    BY <1>3, <1>4
  <1>6. QED
    BY <1>5 DEF j

(* The k-th positions increase with k.                                     *)
LEMMA NthIncreases ==
    ASSUME NEW n \in Nat, NEW K \in SUBSET (1..n),
           NEW k \in 1..Cardinality(K), NEW l \in 1..Cardinality(K), k < l
    PROVE  Nth(K, k) < Nth(K, l)
  <1> DEFINE i == Nth(K, k)
             j == Nth(K, l)
  <1>1. /\ i \in K /\ Rank(K, i) = k
        /\ j \in K /\ Rank(K, j) = l
    BY NthHasRank
  <1> HIDE DEF i, j
  <1>2. i # j
    BY <1>1
  <1>3. ~(j < i)
    BY <1>1, RankIncreases
  <1>4. i < j
    BY <1>1, <1>2, <1>3
  <1>5. QED
    BY <1>4 DEF i, j

(* A sublist is a sequence of the items at its positions, and of no others. *)
LEMMA SublistType ==
    ASSUME NEW S, NEW s \in Seq(S), NEW K \in SUBSET DOMAIN s
    PROVE  /\ Sublist(s, K) \in Seq(S)
           /\ Len(Sublist(s, K)) = Cardinality(K)
           /\ {Sublist(s, K)[k] : k \in DOMAIN Sublist(s, K)} = {s[i] : i \in K}
  <1> DEFINE n == Len(s)
             c == Cardinality(K)
             t == Sublist(s, K)
  <1>1. n \in Nat /\ K \in SUBSET (1..n) /\ DOMAIN s = 1..n /\ \A i \in 1..n : s[i] \in S
    BY ElementOfSeq, LenProperties
  <1> HIDE DEF n
  <1>2. c \in Nat
    BY <1>1, PositionsFinite
  <1>3. \A k \in 1..c : Nth(K, k) \in K
    BY <1>1, NthHasRank
  <1>4. t = [k \in 1..c |-> s[Nth(K, k)]]
    BY DEF Sublist
  <1>5. t \in [1..c -> S]
    BY <1>1, <1>3, <1>4
  <1>6. t \in Seq(S) /\ Len(t) = c
    BY <1>2, <1>5, SeqDef, LenProperties
  <1>7. \A i \in K : Rank(K, i) \in 1..c /\ Nth(K, Rank(K, i)) = i
    BY <1>1, RankBounds, NthOfRank
  <1>8. {t[k] : k \in DOMAIN t} = {s[i] : i \in K}
    <2>1. ASSUME NEW k \in 1..c
          PROVE  t[k] \in {s[i] : i \in K}
      BY <1>3, <1>4
    <2>2. ASSUME NEW i \in K
          PROVE  \E k \in 1..c : t[k] = s[i]
      BY <1>4, <1>7
    <2>3. QED
      BY <1>5, <2>1, <2>2
  <1>9. QED
    BY <1>6, <1>8

(* The item behind a sublist's index is the item at the index's position.   *)
LEMMA SublistAt ==
    ASSUME NEW S, NEW s \in Seq(S), NEW K \in SUBSET DOMAIN s,
           NEW k \in DOMAIN Sublist(s, K)
    PROVE  Nth(K, k) \in K /\ Sublist(s, K)[k] = s[Nth(K, k)]
  <1>1. Len(s) \in Nat /\ DOMAIN s = 1..Len(s)
    BY LenProperties
  <1>2. DOMAIN Sublist(s, K) = 1..Cardinality(K)
    BY DEF Sublist
  <1>3. QED
    BY <1>1, <1>2, NthHasRank DEF Sublist

(* Items put behind a sequence that are not kept leave its sublists alone.  *)
LEMMA SublistSkip ==
    ASSUME NEW S, NEW s \in Seq(S), NEW e \in S, NEW K \in SUBSET DOMAIN s
    PROVE  Sublist(Append(s, e), K) = Sublist(s, K)
  <1>1. Len(s) \in Nat /\ DOMAIN s = 1..Len(s)
    BY LenProperties
  <1>2. \A i \in K : Append(s, e)[i] = s[i]
    BY <1>1, AppendProperties
  <1>3. \A k \in 1..Cardinality(K) : Nth(K, k) \in K
    BY <1>1, NthHasRank
  <1>4. QED
    BY <1>2, <1>3 DEF Sublist

(* One that is kept comes behind the sublist.                              *)
LEMMA SublistKeep ==
    ASSUME NEW S, NEW s \in Seq(S), NEW e \in S, NEW K \in SUBSET DOMAIN s
    PROVE  Sublist(Append(s, e), K \union {Len(s) + 1}) = Append(Sublist(s, K), e)
  <1> DEFINE n == Len(s)
             c == Cardinality(K)
             s1 == Append(s, e)
             K1 == K \union {n + 1}
             t == Sublist(s, K)
             t1 == Sublist(s1, K1)
  <1>1. n \in Nat /\ DOMAIN s = 1..n /\ K \in SUBSET (1..n)
    BY LenProperties
  <1>2. /\ s1 \in Seq(S) /\ DOMAIN s1 = 1..(n + 1) /\ s1[n + 1] = e
        /\ \A i \in 1..n : s1[i] = s[i]
    BY AppendProperties, LenProperties
  <1> HIDE DEF n, s1
  <1>3. IsFiniteSet(K) /\ c \in Nat
    BY <1>1, PositionsFinite
  <1>4. K1 \in SUBSET (1..(n + 1)) /\ n + 1 \in Nat /\ n + 1 \notin K
    BY <1>1
  <1>5. Cardinality(K1) = c + 1
    BY <1>3, <1>4, FS_AddElement
  <1>6. \A i \in K : Rank(K1, i) = Rank(K, i)
    <2>1. \A i \in K : {j \in K1 : j <= i} = {j \in K : j <= i}
      BY <1>1
    <2>2. QED
      BY <2>1 DEF Rank
  <1>7. Rank(K1, n + 1) = c + 1
    <2>1. {j \in K1 : j <= n + 1} = K1
      BY <1>1
    <2>2. QED
      BY <1>5, <2>1 DEF Rank
  <1>8. \A k \in 1..c : Nth(K1, k) = Nth(K, k)
    <2>1. SUFFICES ASSUME NEW k \in 1..c
                   PROVE  Nth(K1, k) = Nth(K, k)
      OBVIOUS
    <2>2. Nth(K, k) \in K /\ Rank(K, Nth(K, k)) = k
      BY <1>1, NthHasRank
    <2>3. Rank(K1, Nth(K, k)) = k
      BY <1>6, <2>2
    <2>4. Nth(K1, Rank(K1, Nth(K, k))) = Nth(K, k)
      BY <1>4, <2>2, NthOfRank
    <2>5. QED
      BY <2>3, <2>4
  <1>9. Nth(K1, c + 1) = n + 1
    <2>1. n + 1 \in K1
      OBVIOUS
    <2>2. Nth(K1, Rank(K1, n + 1)) = n + 1
      BY <1>4, <2>1, NthOfRank
    <2>3. QED
      BY <1>7, <2>2
  <1> HIDE DEF c, K1
  <1>10. t1 = [k \in 1..(c + 1) |-> s1[Nth(K1, k)]]
    BY <1>5 DEF Sublist
  <1>11. t = [k \in 1..c |-> s[Nth(K, k)]]
    BY DEF Sublist, c
  <1>12. t \in Seq(S) /\ Len(t) = c
    BY <1>1, SublistType DEF c
  <1>13. \A k \in 1..c : Nth(K, k) \in 1..n
    BY <1>1, NthHasRank DEF c
  <1>14. \A k \in 1..c : t1[k] = t[k]
    BY <1>2, <1>3, <1>8, <1>10, <1>11, <1>13
  <1>15. t1[c + 1] = e
    BY <1>2, <1>3, <1>9, <1>10
  <1> HIDE DEF t, t1
  <1>16. t1 = Append(t, e)
    <2>1. /\ Append(t, e) \in Seq(S) /\ Len(Append(t, e)) = c + 1
          /\ \A k \in 1..c : Append(t, e)[k] = t[k]
          /\ Append(t, e)[c + 1] = e
      BY <1>12, AppendProperties
    <2>2. t1 \in Seq(S) /\ Len(t1) = c + 1
      <3>1. \A k \in 1..(c + 1) : t1[k] \in S
        <4>1. \A k \in 1..c : t[k] \in S
          BY <1>12, ElementOfSeq
        <4>2. QED
          BY <1>3, <1>14, <1>15, <4>1
      <3>2. t1 \in [1..(c + 1) -> S]
        BY <1>10, <3>1
      <3>3. c + 1 \in Nat
        BY <1>3
      <3>4. QED
        BY <3>2, <3>3, SeqDef, LenProperties
    <2>3. \A k \in 1..(c + 1) : t1[k] = Append(t, e)[k]
      BY <1>3, <1>14, <1>15, <2>1
    <2>4. QED
      BY <2>1, <2>2, <2>3, SeqEqual
  <1>17. QED
    BY <1>16 DEF t, t1, s1, K1, n

(* A function that keeps items apart keeps how many there are.             *)
LEMMA ImageSize ==
    ASSUME NEW L, IsFiniteSet(L), NEW M, NEW f \in [L -> M],
           \A k, l \in L : f[k] = f[l] => k = l,
           \A m \in M : \E k \in L : f[k] = m
    PROVE  Cardinality(M) = Cardinality(L)
  <1>1. f \in Injection(L, M)
    BY DEF Injection, IsInjective
  <1>2. f \in Surjection(L, M)
    BY DEF Surjection
  <1>3. ExistsBijection(L, M)
    BY <1>1, <1>2 DEF ExistsBijection, Bijection
  <1>4. QED
    BY <1>3, FS_Bijection

(* A sublist of a sublist is the sublist at the positions kept twice.      *)
LEMMA SublistTwice ==
    ASSUME NEW S, NEW s \in Seq(S), NEW K \in SUBSET DOMAIN s,
           NEW L \in SUBSET DOMAIN Sublist(s, K), NEW M,
           \A k \in L : Nth(K, k) \in M,
           \A i \in M : \E k \in L : i = Nth(K, k)
    PROVE  Sublist(Sublist(s, K), L) = Sublist(s, M)
  <1> DEFINE n == Len(s)
             c == Cardinality(K)
             f == [k \in L |-> Nth(K, k)]
             t == Sublist(s, K)
  <1>1. n \in Nat /\ K \in SUBSET (1..n)
    BY LenProperties
  <1>2. c \in Nat /\ L \in SUBSET (1..c) /\ t = [k \in 1..c |-> s[Nth(K, k)]]
    BY <1>1, PositionsFinite DEF Sublist
  <1>3. \A k \in L : f[k] = Nth(K, k) /\ f[k] \in K
    BY <1>1, <1>2, NthHasRank
  <1>4. /\ f \in [L -> M] /\ \A m \in M : \E k \in L : f[k] = m
        /\ M \in SUBSET (1..n)
    BY <1>1, <1>3
  <1>5. ASSUME NEW k \in L, NEW l \in L, k < l
        PROVE  f[k] < f[l]
    <2>1. k \in 1..c /\ l \in 1..c
      BY <1>2
    <2>2. Nth(K, k) < Nth(K, l)
      BY <1>1, <1>5, <2>1, NthIncreases
    <2>3. QED
      BY <1>3, <2>2
  <1>6. IsFiniteSet(L) /\ Cardinality(L) \in Nat
    BY <1>2, PositionsFinite
  <1> HIDE DEF f, n, c, t
  <1>7. \A k, l \in L : k \in Int /\ l \in Int /\ f[k] \in Int /\ f[l] \in Int
    BY <1>1, <1>2, <1>3
  <1>8. \A k, l \in L : f[k] = f[l] => k = l
    BY <1>5, <1>7
  <1>9. \A k, l \in L : f[l] <= f[k] <=> l <= k
    BY <1>5, <1>7, <1>8
  <1>10. Cardinality(M) = Cardinality(L)
    BY <1>4, <1>6, <1>8, ImageSize
  <1>11. ASSUME NEW k \in L
         PROVE  Rank(M, f[k]) = Rank(L, k)
    <2> DEFINE L1 == {l \in L : l <= k}
               M1 == {i \in M : i <= f[k]}
               f1 == [l \in L1 |-> f[l]]
    <2>1. /\ f1 \in [L1 -> M1]
          /\ \A m \in M1 : \E l \in L1 : f1[l] = m
          /\ \A l, m \in L1 : f1[l] = f1[m] => l = m
      BY <1>4, <1>8, <1>9
    <2>2. IsFiniteSet(L1)
      BY <1>6, FS_Subset
    <2> HIDE DEF L1, M1, f1
    <2>3. Cardinality(M1) = Cardinality(L1)
      BY <2>1, <2>2, ImageSize
    <2>4. QED
      BY <2>3 DEF Rank, L1, M1
  <1>12. ASSUME NEW j \in 1..Cardinality(L)
         PROVE  t[Nth(L, j)] = s[Nth(M, j)]
    <2>1. Nth(L, j) \in L /\ Rank(L, Nth(L, j)) = j
      BY <1>2, NthHasRank
    <2>2. f[Nth(L, j)] \in M /\ Rank(M, f[Nth(L, j)]) = j
      BY <1>4, <1>11, <2>1
    <2>3. Nth(M, Rank(M, f[Nth(L, j)])) = f[Nth(L, j)]
      BY <1>1, <1>4, <2>2, NthOfRank
    <2>4. t[Nth(L, j)] = s[f[Nth(L, j)]]
      BY <1>2, <1>3, <2>1
    <2>5. QED
      BY <2>2, <2>3, <2>4
  <1>13. Sublist(t, L) = Sublist(s, M)
    BY <1>10, <1>12 DEF Sublist
  <1>14. QED
    BY <1>13 DEF t
===============================================================================
