------------------------------ MODULE SeqPickProofs ------------------------------
(***************************************************************************)
(* What Pick promises for every sequence and every set of positions, and   *)
(* what the proofs need of Min, Max, SetToSeq and InsertAt.                *)
(***************************************************************************)
EXTENDS SeqPick, SequencesExt, FiniteSetTheorems, SequenceTheorems, TLAPS

(* Ranks count from 1, and grow with the position.                         *)
LEMMA RankGrows ==
  ASSUME NEW n \in Nat, NEW keep \in SUBSET (1 .. n)
  PROVE  /\ IsFiniteSet(keep) /\ Cardinality(keep) \in Nat
         /\ \A k \in keep : Rank(keep, k) \in 1 .. Cardinality(keep)
         /\ \A j, k \in keep : j < k => Rank(keep, j) < Rank(keep, k)
  <1>1. IsFiniteSet(keep)
    <2>1. IsFiniteSet(1 .. n)
      BY FS_Interval
    <2> QED BY <2>1, FS_Subset
  <1>2. Cardinality(keep) \in Nat
    BY <1>1, FS_CardinalityType
  <1> DEFINE Upto(k) == {x \in keep : x <= k}
  <1>3. \A k \in keep : IsFiniteSet(Upto(k)) /\ Cardinality(Upto(k)) \in 0 .. Cardinality(keep)
    <2> TAKE k \in keep
    <2>1. Upto(k) \in SUBSET keep
      OBVIOUS
    <2> HIDE DEF Upto
    <2>2. IsFiniteSet(Upto(k)) /\ Cardinality(Upto(k)) <= Cardinality(keep)
      BY <1>1, <2>1, FS_Subset
    <2>3. Cardinality(Upto(k)) \in Nat
      BY <2>2, FS_CardinalityType
    <2> QED BY <1>2, <2>2, <2>3
  <1>4. \A k \in keep : Cardinality(Upto(k)) # 0
    <2> TAKE k \in keep
    <2>1. k \in Upto(k)
      OBVIOUS
    <2> HIDE DEF Upto
    <2> QED BY <1>3, <2>1, FS_EmptySet
  <1>5. ASSUME NEW j \in keep, NEW k \in keep, j < k
        PROVE  Cardinality(Upto(j)) < Cardinality(Upto(k))
    <2>0. j \in Int /\ k \in Int /\ \A x \in keep : x \in Int
      OBVIOUS
    <2>1. ASSUME NEW x \in Upto(j) PROVE x \in Upto(k)
      <3>1. x \in keep /\ x \in Int /\ x <= j
        BY <2>0
      <3>2. x <= k
        BY <1>5, <2>0, <3>1
      <3> QED BY <3>1, <3>2
    <2>2. k \in Upto(k) /\ k \notin Upto(j)
      BY <1>5, <2>0
    <2> HIDE DEF Upto
    <2>3. Cardinality(Upto(j)) <= Cardinality(Upto(k)) /\ Cardinality(Upto(j)) # Cardinality(Upto(k))
      <3>1. Upto(j) \in SUBSET Upto(k)
        BY <2>1
      <3> QED BY <1>3, <2>2, <3>1, FS_Subset
    <2> QED BY <1>2, <1>3, <2>3
  <1> QED BY <1>1, <1>2, <1>3, <1>4, <1>5 DEF Rank

(* Every rank is somebody's: one position has it, and no other.            *)
LEMMA RankedOnce ==
  ASSUME NEW n \in Nat, NEW keep \in SUBSET (1 .. n), NEW i \in 1 .. Cardinality(keep)
  PROVE  /\ \E k \in keep : Rank(keep, k) = i
         /\ \A j, k \in keep : Rank(keep, j) = i /\ Rank(keep, k) = i => j = k
  <1> DEFINE m == Cardinality(keep)
             rank == [k \in keep |-> Rank(keep, k)]
  <1>1. /\ IsFiniteSet(keep) /\ m \in Nat
        /\ \A k \in keep : Rank(keep, k) \in 1 .. m
        /\ \A j, k \in keep : j < k => Rank(keep, j) < Rank(keep, k)
    BY RankGrows
  <1>2. \A j, k \in keep : Rank(keep, j) = Rank(keep, k) => j = k
    <2> TAKE j, k \in keep
    <2>1. j < k \/ k < j \/ j = k
      OBVIOUS
    <2> QED BY <1>1, <2>1
  <1>3. rank \in Injection(keep, 1 .. m)
    BY <1>1, <1>2 DEF Injection, IsInjective
  <1>4. IsFiniteSet(1 .. m) /\ Cardinality(1 .. m) = m
    BY <1>1, FS_Interval
  <1> HIDE DEF rank
  <1>5. rank \in Surjection(keep, 1 .. m)
    BY <1>3, <1>4, FS_Injection
  <1>6. \E k \in keep : rank[k] = i
    BY <1>5 DEF Surjection
  <1> QED BY <1>2, <1>6 DEF rank

(* The positions Pick takes, in increasing order and each of them once.    *)
Orders(at, keep) ==
  /\ Cardinality(keep) \in Nat
  /\ at \in [1 .. Cardinality(keep) -> keep]
  /\ \A k \in keep : \E i \in 1 .. Cardinality(keep) : at[i] = k
  /\ \A i, j \in 1 .. Cardinality(keep) : i < j => at[i] < at[j]

LEMMA PickOrder ==
  ASSUME NEW S, NEW s \in Seq(S), NEW keep \in SUBSET (1 .. Len(s))
  PROVE  \E at : Orders(at, keep) /\ Pick(s, keep) = [i \in 1 .. Cardinality(keep) |-> s[at[i]]]
  <1> DEFINE m == Cardinality(keep)
             at == [i \in 1 .. m |-> CHOOSE k \in keep : Rank(keep, k) = i]
  <1>0. Len(s) \in Nat
    OBVIOUS
  <1>1. /\ m \in Nat
        /\ \A k \in keep : Rank(keep, k) \in 1 .. m
        /\ \A j, k \in keep : j < k => Rank(keep, j) < Rank(keep, k)
    BY <1>0, RankGrows
  <1>2. \A i \in 1 .. m : at[i] \in keep /\ Rank(keep, at[i]) = i
    BY <1>0, RankedOnce
  <1>3. \A k \in keep : at[Rank(keep, k)] = k
    BY <1>0, <1>1, <1>2, RankedOnce
  <1>4. at \in [1 .. m -> keep]
    BY <1>2
  <1>5. Pick(s, keep) = [i \in 1 .. m |-> s[at[i]]]
    BY DEF Pick
  <1> HIDE DEF at
  <1>6. ASSUME NEW i \in 1 .. m, NEW j \in 1 .. m, i < j
        PROVE  at[i] < at[j]
    <2>1. at[i] \in Int /\ at[j] \in Int
      <3>1. \A x \in keep : x \in Int
        OBVIOUS
      <3> QED BY <1>2, <3>1
    <2>2. ~(at[j] < at[i]) /\ at[i] # at[j]
      <3>1. /\ i \in Int /\ j \in Int /\ at[i] \in keep /\ at[j] \in keep
            /\ Rank(keep, at[i]) = i /\ Rank(keep, at[j]) = j
        BY <1>1, <1>2
      <3>2. at[j] < at[i] => j < i
        BY <1>1, <3>1
      <3> QED BY <1>6, <3>1, <3>2
    <2> QED BY <2>1, <2>2
  <1>7. Orders(at, keep)
    BY <1>1, <1>3, <1>4, <1>6 DEF Orders
  <1> QED BY <1>5, <1>7

(* What is picked is a sequence of the members at the positions kept.      *)
LEMMA PickMembers ==
  ASSUME NEW S, NEW s \in Seq(S), NEW keep \in SUBSET (1 .. Len(s))
  PROVE  /\ Pick(s, keep) \in Seq(S)
         /\ \A i \in DOMAIN Pick(s, keep) : \E k \in keep : Pick(s, keep)[i] = s[k]
         /\ \A k \in keep : \E i \in DOMAIN Pick(s, keep) : Pick(s, keep)[i] = s[k]
  <1>1. PICK at : Orders(at, keep) /\ Pick(s, keep) = [i \in 1 .. Cardinality(keep) |-> s[at[i]]]
    BY PickOrder
  <1>2. \A k \in keep : s[k] \in S
    OBVIOUS
  <1> DEFINE p == Pick(s, keep)
             m == Cardinality(keep)
  <1>3. /\ m \in Nat /\ p = [i \in 1 .. m |-> s[at[i]]]
        /\ \A i \in 1 .. m : at[i] \in keep
        /\ \A k \in keep : \E i \in 1 .. m : at[i] = k
    BY <1>1 DEF Orders
  <1> HIDE DEF p, m
  <1>4. \A i \in 1 .. m : p[i] \in S
    BY <1>2, <1>3
  <1>5. DOMAIN p = 1 .. m /\ p \in [1 .. m -> S]
    BY <1>3, <1>4
  <1>6. p \in Seq(S)
    BY <1>3, <1>5, SeqDef
  <1>7. /\ \A i \in DOMAIN p : \E k \in keep : p[i] = s[k]
        /\ \A k \in keep : \E i \in DOMAIN p : p[i] = s[k]
    BY <1>3, <1>5
  <1> QED BY <1>6, <1>7 DEF p

-----------------------------------------------------------------------------
(* A set of positions has a least member,                                  *)
LEMMA Least ==
  ASSUME NEW T \in SUBSET Nat, T # {}
  PROVE  \E x \in T : \A y \in T : x <= y
  <1>1. \E x \in T : \A y \in T : <<y, x>> \notin OpToRel(<, Nat)
    BY NatLessThanWellFounded, WFMin
  <1>2. \A x, y \in T : <<y, x>> \notin OpToRel(<, Nat) => x <= y
    BY DEF OpToRel
  <1> QED BY <1>1, <1>2

LEMMA MinFacts ==
  ASSUME NEW S \in SUBSET Nat, S # {}
  PROVE  Min(S) \in S /\ \A x \in S : Min(S) <= x
  <1>1. \E x \in S : \A y \in S : x =< y
    BY Least
  <1> QED BY <1>1 DEF Min

(* and, within bounds, a greatest.                                         *)
LEMMA MaxFacts ==
  ASSUME NEW S \in SUBSET Nat, S # {}, NEW b \in Nat, \A x \in S : x <= b
  PROVE  Max(S) \in S /\ \A x \in S : x <= Max(S)
  <1> DEFINE T == {c \in Nat : \A x \in S : x <= c}
  <1>1. PICK c \in T : \A y \in T : c <= y
    <2>1. T \in SUBSET Nat /\ b \in T
      OBVIOUS
    <2> HIDE DEF T
    <2> QED BY <2>1, Least
  <1>2. c \in S
    <2>1. SUFFICES ASSUME c \notin S PROVE FALSE
      OBVIOUS
    <2>2. \A x \in S : x < c
      BY <1>1, <2>1
    <2>3. c \in Nat /\ c # 0
      <3>1. PICK x \in S : TRUE
        OBVIOUS
      <3> QED BY <1>1, <2>2, <3>1
    <2>4. c - 1 \in T
      BY <2>2, <2>3
    <2>5. c <= c - 1
      <3> HIDE DEF T
      <3> QED BY <1>1, <2>4
    <2> QED BY <2>3, <2>5
  <1>3. \E x \in S : \A y \in S : x >= y
    BY <1>1, <1>2
  <1>4. Max(S) \in S /\ \A y \in S : Max(S) >= y
    BY <1>3 DEF Max
  <1> QED BY <1>4

(* Every member of a finite set is in the sequence made of it.             *)
LEMMA AllInSeq ==
  ASSUME NEW R, IsFiniteSet(R)
  PROVE  SetToSeq(R) \in Seq(R) /\ \A x \in R : \E i \in DOMAIN SetToSeq(R) : SetToSeq(R)[i] = x
  <1> DEFINE n == Cardinality(R)
             s == SetToSeq(R)
  <1>1. n \in Nat /\ ExistsBijection(1 .. n, R)
    BY FS_CardinalityType
  <1>2. \E f \in [1 .. n -> R] : IsInjective(f)
    BY <1>1 DEF ExistsBijection, Bijection, Injection
  <1>3. s \in [1 .. n -> R] /\ IsInjective(s)
    BY <1>2 DEF SetToSeq
  <1> HIDE DEF s
  <1>4. s \in Injection(1 .. n, R)
    BY <1>3 DEF Injection
  <1>5. Cardinality(1 .. n) = n
    BY <1>1, FS_Interval
  <1>6. s \in Surjection(1 .. n, R)
    BY <1>4, <1>5, FS_Injection
  <1>7. \A x \in R : \E i \in 1 .. n : s[i] = x
    BY <1>6 DEF Surjection
  <1>8. s \in Seq(R) /\ DOMAIN s = 1 .. n
    <2> HIDE DEF n
    <2> QED BY <1>1, <1>3
  <1> QED BY <1>7, <1>8 DEF s

(* InsertAt puts e at position i and moves what stood there and after it.  *)
LEMMA InsertFacts ==
  ASSUME NEW S, NEW s \in Seq(S), NEW i \in 1 .. Len(s) + 1, NEW e \in S
  PROVE  LET r == InsertAt(s, i, e) IN
         /\ r \in Seq(S) /\ Len(r) = Len(s) + 1
         /\ r[i] = e
         /\ \A k \in 1 .. Len(s) + 1 : (k < i => r[k] = s[k]) /\ (k > i => r[k] = s[k - 1])
         /\ ToSet(r) = ToSet(s) \cup {e}
  <1> DEFINE n == Len(s)
  <1>0. n \in Nat /\ i \in 1 .. n + 1 /\ i \in Int /\ \A k \in 1 .. n : s[k] \in S
    OBVIOUS
  <1> DEFINE a == SubSeq(s, 1, i - 1)
             b == <<e>>
             c == SubSeq(s, i, n)
             ab == a \o b
             r == ab \o c
  <1>1. a \in Seq(S) /\ Len(a) = i - 1 /\ \A k \in 1 .. i - 1 : a[k] = s[k]
    BY <1>0
  <1>2. b \in Seq(S) /\ Len(b) = 1 /\ b[1] = e
    OBVIOUS
  <1>3. c \in Seq(S) /\ Len(c) = n - i + 1 /\ \A k \in 1 .. n - i + 1 : c[k] = s[i + k - 1]
    BY <1>0
  <1>6. InsertAt(s, i, e) = r
    BY DEF InsertAt
  <1> HIDE DEF a, b, c, r, ab
  <1>4. /\ ab \in Seq(S) /\ Len(ab) = Len(a) + Len(b)
        /\ \A k \in 1 .. Len(a) + Len(b) : ab[k] = IF k <= Len(a) THEN a[k] ELSE b[k - Len(a)]
    BY <1>1, <1>2, ConcatProperties DEF ab
  <1>5. /\ r \in Seq(S) /\ Len(r) = Len(ab) + Len(c)
        /\ \A k \in 1 .. Len(ab) + Len(c) : r[k] = IF k <= Len(ab) THEN ab[k] ELSE c[k - Len(ab)]
    <2>1. ab \in Seq(S) /\ c \in Seq(S)
      BY <1>3, <1>4
    <2>2. r = ab \o c
      BY DEF r
    <2> QED BY <2>1, <2>2, ConcatProperties
  <1> HIDE DEF n
  <1>7. Len(ab) = i /\ Len(r) = n + 1 /\ \A k \in 1 .. n + 1 : r[k] = IF k < i THEN s[k] ELSE IF k = i THEN e ELSE s[k - 1]
    <2>1. Len(ab) = i /\ Len(r) = n + 1
      BY <1>0, <1>1, <1>2, <1>3, <1>4, <1>5
    <2>2. ASSUME NEW k \in 1 .. n + 1, k < i PROVE r[k] = s[k]
      <3>1. k \in 1 .. i - 1 /\ k \in 1 .. Len(a) + Len(b) /\ k <= Len(a) /\ k <= Len(ab) /\ k \in 1 .. Len(ab) + Len(c)
        BY <1>0, <1>1, <1>2, <1>3, <2>1, <2>2
      <3> QED BY <1>1, <1>4, <1>5, <3>1
    <2>3. r[i] = e
      <3>1. i \in 1 .. Len(a) + Len(b) /\ ~(i <= Len(a)) /\ i - Len(a) = 1 /\ i <= Len(ab) /\ i \in 1 .. Len(ab) + Len(c)
        BY <1>0, <1>1, <1>2, <1>3, <2>1
      <3> QED BY <1>2, <1>4, <1>5, <3>1
    <2>4. ASSUME NEW k \in 1 .. n + 1, ~(k < i), k # i PROVE r[k] = s[k - 1]
      <3>1. k \in 1 .. Len(ab) + Len(c) /\ ~(k <= Len(ab)) /\ k - Len(ab) \in 1 .. n - i + 1 /\ i + (k - Len(ab)) - 1 = k - 1
        BY <1>0, <1>3, <2>1, <2>4
      <3> QED BY <1>3, <1>5, <3>1
    <2> QED BY <2>1, <2>2, <2>3, <2>4
  <1>8. DOMAIN r = 1 .. n + 1 /\ DOMAIN s = 1 .. n
    BY <1>5, <1>7 DEF n
  <1>9. ASSUME NEW x \in ToSet(r) PROVE x \in ToSet(s) \cup {e}
    <2>1. PICK k \in 1 .. n + 1 : x = r[k]
      BY <1>8, <1>9 DEF ToSet
    <2>2. k < i => k \in DOMAIN s
      BY <1>0, <1>8
    <2>3. k > i => k - 1 \in DOMAIN s
      BY <1>0, <1>8
    <2> QED BY <1>0, <1>7, <2>1, <2>2, <2>3 DEF ToSet
  <1>10. ASSUME NEW x \in ToSet(s) \cup {e} PROVE x \in ToSet(r)
    <2>1. CASE x = e
      BY <1>0, <1>7, <1>8, <2>1 DEF ToSet
    <2>2. CASE x \in ToSet(s)
      <3>1. PICK k \in 1 .. n : x = s[k]
        BY <1>8, <2>2 DEF ToSet
      <3>2. CASE k < i
        <4>1. k \in DOMAIN r /\ r[k] = x
          BY <1>0, <1>7, <1>8, <3>1, <3>2
        <4> QED BY <4>1 DEF ToSet
      <3>3. CASE k >= i
        <4>1. k + 1 \in 1 .. n + 1 /\ ~(k + 1 < i) /\ k + 1 # i /\ (k + 1) - 1 = k
          BY <1>0, <3>3
        <4>2. k + 1 \in DOMAIN r /\ r[k + 1] = x
          BY <1>7, <1>8, <3>1, <4>1
        <4> QED BY <4>2 DEF ToSet
      <3> QED BY <1>0, <3>2, <3>3
    <2> QED BY <1>10, <2>1, <2>2
  <1>11. /\ r[i] = e
         /\ \A k \in 1 .. n + 1 : (k < i => r[k] = s[k]) /\ (k > i => r[k] = s[k - 1])
    BY <1>0, <1>7
  <1> QED BY <1>5, <1>6, <1>7, <1>9, <1>10, <1>11 DEF n
=============================================================================
