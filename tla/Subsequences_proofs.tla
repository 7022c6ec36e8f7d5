------------------------- MODULE Subsequences_proofs -------------------------
(***************************************************************************)
(* What Chosen returns, for sequences and sets of positions of any length. *)
(***************************************************************************)
EXTENDS Subsequences, FiniteSetTheorems, TLAPS

\* A set of positions, and its ranks, are finite.
LEMMA RankType ==
  ASSUME NEW D, IsFiniteSet(D), NEW i
  PROVE  IsFiniteSet({j \in D : j <= i}) /\ Rank(D, i) \in 0..Cardinality(D)
<1>1. {j \in D : j <= i} \in SUBSET D
  OBVIOUS
<1>2. /\ IsFiniteSet({j \in D : j <= i})
      /\ Cardinality({j \in D : j <= i}) <= Cardinality(D)
  BY <1>1, FS_Subset
<1>3. Cardinality({j \in D : j <= i}) \in Nat /\ Cardinality(D) \in Nat
  BY <1>2, FS_CardinalityType
<1>. QED BY <1>2, <1>3 DEF Rank

\* Ranks grow from one position of D to the next, and start at one.
LEMMA RankGrows ==
  ASSUME NEW D \in SUBSET Nat, IsFiniteSet(D), NEW i \in D
  PROVE  /\ Rank(D, i) \in 1..Cardinality(D)
         /\ \A h \in Nat : h < i => Rank(D, h) < Rank(D, i)
<1>1. ASSUME NEW h \in Nat, h < i PROVE Rank(D, h) < Rank(D, i)
  <2>1. PICK A, B : A = {j \in D : j <= h} /\ B = {j \in D : j <= i}
    OBVIOUS
  <2>2. A \in SUBSET B /\ i \in B /\ i \notin A
    <3>1. i \in Nat /\ i <= i /\ ~(i <= h) /\ \A j \in D : j <= h => j <= i
      BY <1>1
    <3>. QED BY <2>1, <3>1
  <2>3. IsFiniteSet(A) /\ IsFiniteSet(B)
    BY <2>1, RankType
  <2>4. Cardinality(A) <= Cardinality(B) /\ (Cardinality(B) = Cardinality(A) => B = A)
    BY <2>2, <2>3, FS_Subset
  <2>5. Cardinality(A) \in Nat /\ Cardinality(B) \in Nat
    BY <2>3, FS_CardinalityType
  <2>6. Cardinality(A) < Cardinality(B)
    BY <2>2, <2>4, <2>5
  <2>. QED BY <2>1, <2>6 DEF Rank
<1>2. Rank(D, i) # 0
  <2>1. i \in {j \in D : j <= i}
    OBVIOUS
  <2>. QED BY <2>1, RankType, FS_EmptySet DEF Rank
<1>3. Rank(D, i) \in 0..Cardinality(D) /\ Cardinality(D) \in Nat
  BY RankType, FS_CardinalityType
<1>4. Rank(D, i) \in 1..Cardinality(D)
  BY <1>2, <1>3
<1>. QED BY <1>1, <1>4

\* Every number up to the size of D is the rank of one position.
LEMMA RankOnto ==
  ASSUME NEW D \in SUBSET Nat, IsFiniteSet(D)
  PROVE  \A k \in 1..Cardinality(D) : \E i \in D : Rank(D, i) = k
<1> DEFINE n == Cardinality(D)
           f == [i \in D |-> Rank(D, i)]
<1>1. n \in Nat
  BY FS_CardinalityType
<1>2. f \in [D -> 1..n]
  BY RankGrows
<1>3. \A i, j \in D : i < j => f[i] # f[j]
  <2>. SUFFICES ASSUME NEW i \in D, NEW j \in D, i < j PROVE f[i] # f[j]
    OBVIOUS
  <2>1. Rank(D, i) < Rank(D, j) /\ Rank(D, i) \in Nat /\ Rank(D, j) \in Nat
    BY RankGrows, RankType, <1>1
  <2>. QED BY <2>1
<1>4. f \in Injection(D, 1..n)
  <2>1. \A i, j \in D : f[i] = f[j] => i = j
    <3>. SUFFICES ASSUME NEW i \in D, NEW j \in D, f[i] = f[j] PROVE i = j
      OBVIOUS
    <3>1. i \in Nat /\ j \in Nat /\ ~(i < j) /\ ~(j < i)
      BY <1>3
    <3>. QED BY <3>1
  <2>. QED BY <1>2, <2>1 DEF Injection, IsInjective
<1>5. IsFiniteSet(1..n) /\ Cardinality(1..n) = n
  <2>1. 1 \in Int /\ n \in Int
    BY <1>1
  <2>2. IsFiniteSet(1..n) /\ Cardinality(1..n) = IF 1 > n THEN 0 ELSE n - 1 + 1
    BY <2>1, FS_Interval
  <2>. QED BY <1>1, <2>2
<1>6. f \in Surjection(D, 1..n)
  BY <1>4, <1>5, FS_Injection
<1>. QED BY <1>6 DEF Surjection

\* Nth enumerates D in order.
LEMMA NthInOrder ==
  ASSUME NEW D \in SUBSET Nat, IsFiniteSet(D)
  PROVE  /\ \A k \in 1..Cardinality(D) : Nth(D, k) \in D /\ Rank(D, Nth(D, k)) = k
         /\ \A k, l \in 1..Cardinality(D) : k < l => Nth(D, k) < Nth(D, l)
         /\ \A i \in D : Nth(D, Rank(D, i)) = i
<1>0. Cardinality(D) \in Nat
  BY FS_CardinalityType
<1>1. \A k \in 1..Cardinality(D) : Nth(D, k) \in D /\ Rank(D, Nth(D, k)) = k
  BY RankOnto DEF Nth
<1>2. ASSUME NEW k \in 1..Cardinality(D), NEW l \in 1..Cardinality(D), k < l
      PROVE  Nth(D, k) < Nth(D, l)
  <2>1. PICK i, j \in D : i = Nth(D, k) /\ j = Nth(D, l)
    BY <1>1
  <2>2. Rank(D, i) = k /\ Rank(D, j) = l
    BY <1>1, <2>1
  <2>3. j < i => Rank(D, j) < Rank(D, i)
    BY RankGrows
  <2>4. i \in Nat /\ j \in Nat /\ k \in Nat /\ l \in Nat
    BY <1>0
  <2>5. i # j /\ ~(j < i)
    BY <1>2, <2>2, <2>3, <2>4
  <2>. QED BY <2>1, <2>4, <2>5
<1>3. ASSUME NEW i \in D PROVE Nth(D, Rank(D, i)) = i
  <2>1. PICK j : j = Nth(D, Rank(D, i))
    OBVIOUS
  <2>2. j \in D /\ Rank(D, j) = Rank(D, i) /\ Rank(D, i) \in 1..Cardinality(D)
    BY <1>1, <2>1, RankGrows
  <2>3. (j < i => Rank(D, j) < Rank(D, i)) /\ (i < j => Rank(D, i) < Rank(D, j))
    BY <2>2, RankGrows
  <2>4. j = i
    BY <1>0, <2>2, <2>3
  <2>. QED BY <2>1, <2>4
<1>. QED BY <1>1, <1>2, <1>3

\* Positions of a sequence are finitely many.
LEMMA PositionsFinite ==
  ASSUME NEW S, NEW s \in Seq(S), NEW D \in SUBSET DOMAIN s
  PROVE  D \in SUBSET Nat /\ IsFiniteSet(D) /\ Cardinality(D) \in 0..Len(s)
<1>1. DOMAIN s = 1..Len(s) /\ Len(s) \in Nat
  OBVIOUS
<1>2. 1 \in Int /\ Len(s) \in Int
  BY <1>1
<1>3. IsFiniteSet(1..Len(s)) /\ Cardinality(1..Len(s)) = IF 1 > Len(s) THEN 0 ELSE Len(s) - 1 + 1
  BY <1>2, FS_Interval
<1>4. IsFiniteSet(D) /\ Cardinality(D) <= Cardinality(1..Len(s))
  BY <1>1, <1>3, FS_Subset
<1>5. Cardinality(D) \in Nat
  BY <1>4, FS_CardinalityType
<1>. QED BY <1>1, <1>3, <1>4, <1>5

\* Chosen elements are a sequence, no longer than the whole.
LEMMA ChosenType ==
  ASSUME NEW S, NEW s \in Seq(S), NEW D \in SUBSET DOMAIN s
  PROVE  /\ Chosen(s, D) \in Seq(S)
         /\ Len(Chosen(s, D)) = Cardinality(D) /\ Cardinality(D) \in 0..Len(s)
         /\ DOMAIN Chosen(s, D) = 1..Cardinality(D)
<1>1. D \in SUBSET Nat /\ IsFiniteSet(D) /\ Cardinality(D) \in 0..Len(s) /\ Len(s) \in Nat
  BY PositionsFinite
<1>2. \A k \in 1..Cardinality(D) : Nth(D, k) \in D
  BY <1>1, NthInOrder
<1>3. \A k \in 1..Cardinality(D) : s[Nth(D, k)] \in S
  BY <1>2
<1>. QED BY <1>1, <1>3 DEF Chosen

\* All elements, or none.
LEMMA ChosenNone ==
  ASSUME NEW s
  PROVE  Chosen(s, {}) = <<>>
BY FS_EmptySet DEF Chosen

\* A longer sequence, index by index.
LEMMA AppendByIndex ==
  ASSUME NEW S, NEW c \in Seq(S), NEW x \in S
  PROVE  Append(c, x) = [k \in 1..(Len(c) + 1) |-> IF k = Len(c) + 1 THEN x ELSE c[k]]
<1>1. PICK u : u = Append(c, x)
  OBVIOUS
<1>2. u \in Seq(S) /\ Len(u) = Len(c) + 1 /\ Len(c) \in Nat
  BY <1>1
<1>3. \A k \in 1..(Len(c) + 1) : u[k] = IF k = Len(c) + 1 THEN x ELSE c[k]
  BY <1>1, <1>2
<1>4. u = [k \in 1..(Len(c) + 1) |-> u[k]]
  BY <1>2
<1>. QED BY <1>1, <1>3, <1>4

\* An element that is added behind the chosen positions is chosen last, or not
\* at all; the others stay as they were.
LEMMA ChosenAppend ==
  ASSUME NEW S, NEW s \in Seq(S), NEW x \in S, NEW D \in SUBSET DOMAIN s
  PROVE  /\ Chosen(Append(s, x), D) = Chosen(s, D)
         /\ Chosen(Append(s, x), D \cup {Len(s) + 1}) = Append(Chosen(s, D), x)
<1> DEFINE m == Len(s) + 1
           E == D \cup {m}
           t == Append(s, x)
           n == Cardinality(D)
<1>1. /\ D \in SUBSET Nat /\ IsFiniteSet(D) /\ n \in Nat /\ m \in Nat /\ m \notin D
      /\ \A i \in D : i < m /\ t[i] = s[i]
      /\ t[m] = x
  BY PositionsFinite
<1>2. E \in SUBSET Nat /\ IsFiniteSet(E) /\ Cardinality(E) = n + 1
  BY <1>1, FS_AddElement
<1>3. \A k \in 1..n : Nth(D, k) \in D /\ Rank(D, Nth(D, k)) = k
  BY <1>1, NthInOrder
<1>4. Chosen(t, D) = Chosen(s, D)
  <2>1. \A k \in 1..n : t[Nth(D, k)] = s[Nth(D, k)]
    BY <1>1, <1>3
  <2>. QED BY <2>1 DEF Chosen
<1>5. \A i \in D : Rank(E, i) = Rank(D, i)
  <2>. SUFFICES ASSUME NEW i \in D PROVE Rank(E, i) = Rank(D, i)
    OBVIOUS
  <2>1. {j \in E : j <= i} = {j \in D : j <= i}
    BY <1>1
  <2>. QED BY <2>1 DEF Rank
<1>6. Rank(E, m) = n + 1
  <2>1. {j \in E : j <= m} = E
    BY <1>1
  <2>. QED BY <1>2, <2>1 DEF Rank
<1>7. \A i \in E : Nth(E, Rank(E, i)) = i
  BY <1>2, NthInOrder
<1>8. \A k \in 1..n : Nth(E, k) = Nth(D, k)
  <2>. SUFFICES ASSUME NEW k \in 1..n PROVE Nth(E, k) = Nth(D, k)
    OBVIOUS
  <2>1. PICK i \in D : i = Nth(D, k) /\ Rank(E, i) = k
    BY <1>3, <1>5
  <2>. QED BY <1>7, <2>1
<1>9. Nth(E, n + 1) = m
  BY <1>6, <1>7
<1>10. Chosen(t, E) = [k \in 1..(n + 1) |-> t[Nth(E, k)]]
  BY <1>2 DEF Chosen
<1>11. Chosen(s, D) \in Seq(S) /\ Len(Chosen(s, D)) = n
  BY ChosenType
<1>12. Append(Chosen(s, D), x) = [k \in 1..(n + 1) |-> IF k = n + 1 THEN x ELSE Chosen(s, D)[k]]
  <2>1. PICK c \in Seq(S) : c = Chosen(s, D) /\ Len(c) = n
    BY <1>11
  <2>2. Append(c, x) = [k \in 1..(n + 1) |-> IF k = n + 1 THEN x ELSE c[k]]
    BY <2>1, AppendByIndex
  <2>. QED BY <2>1, <2>2
<1>13. \A k \in 1..(n + 1) : t[Nth(E, k)] = IF k = n + 1 THEN x ELSE Chosen(s, D)[k]
  <2>. SUFFICES ASSUME NEW k \in 1..(n + 1), k # n + 1
       PROVE  t[Nth(E, k)] = Chosen(s, D)[k]
    BY <1>1, <1>9
  <2>1. k \in 1..n
    BY <1>1
  <2>. QED BY <1>1, <1>3, <1>8, <2>1 DEF Chosen
<1>14. Chosen(t, E) = Append(Chosen(s, D), x)
  BY <1>10, <1>12, <1>13
<1>. QED BY <1>4, <1>14

\* The last element of the whole, when it is chosen, is the last chosen.
LEMMA ChosenLast ==
  ASSUME NEW S, NEW s \in Seq(S), NEW D \in SUBSET DOMAIN s, Len(s) \in D
  PROVE  Chosen(s, D)[Cardinality(D)] = s[Len(s)]
<1>1. D \in SUBSET Nat /\ IsFiniteSet(D) /\ Cardinality(D) \in Nat /\ \A i \in D : i <= Len(s)
  BY PositionsFinite
<1>2. {j \in D : j <= Len(s)} = D
  BY <1>1
<1>3. Rank(D, Len(s)) = Cardinality(D)
  BY <1>2 DEF Rank
<1>4. Nth(D, Cardinality(D)) = Len(s)
  BY <1>1, <1>3, NthInOrder
<1>5. Cardinality(D) \in 1..Cardinality(D)
  BY <1>1, FS_EmptySet
<1>. QED BY <1>4, <1>5 DEF Chosen
=============================================================================
