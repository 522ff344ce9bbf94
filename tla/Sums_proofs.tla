----------------------------- MODULE Sums_proofs -----------------------------
(***************************************************************************)
(* What a sum over a finite set of rows is worth when a row joins it,      *)
(* leaves it or changes.  The library's fold is a recursive function over  *)
(* the subsets of the set; each lemma here goes by the smallest subset of  *)
(* which it would be false.                                                *)
(***************************************************************************)
EXTENDS Sums, FiniteSetTheorems, WellFoundedInduction, TLAPS

LEMMA SmallestSubset ==
  ASSUME NEW S, IsFiniteSet(S), NEW B \in SUBSET SUBSET S, B # {}
  PROVE  \E m \in B : \A s \in B : s \subseteq m => s = m
<1>1. B \subseteq FiniteSubsetsOf(S) BY FS_Subset DEF FiniteSubsetsOf
<1>2. PICK m \in B : \A s \in B : <<s, m>> \notin StrictSubsetOrdering(S)
  BY <1>1, FS_StrictSubsetOrderingWellFounded, WFMin, Zenon
<1>3. \A s \in B : s \subseteq m => s = m BY <1>2 DEF StrictSubsetOrdering
<1> QED BY <1>3

First(s) == CHOOSE x \in s : TRUE

(* h is the recursive function of which the fold takes the value at S.     *)
IsSum(f, S, h) ==
  h = [s \in SUBSET S |-> IF s = {} THEN 0 ELSE f[First(s)] + h[s \ {First(s)}]]

LEMMA SumIs == ASSUME NEW f, NEW S PROVE SumOf(f, S) = (CHOOSE h : IsSum(f, S, h))[S]
BY DEF SumOf, MapThenSumSet, MapThenFoldSet, IsSum, First

LEMMA FirstIn == ASSUME NEW s, s # {} PROVE First(s) \in s /\ s \ {First(s)} # s
BY DEF First

LEMMA IsSumAt ==
  ASSUME NEW f, NEW S, NEW h, IsSum(f, S, h), NEW s \in SUBSET S
  PROVE  /\ s = {} => h[s] = 0
         /\ s # {} => h[s] = f[First(s)] + h[s \ {First(s)}]
<1>1. h[s] = IF s = {} THEN 0 ELSE f[First(s)] + h[s \ {First(s)}] BY Zenon DEF IsSum
<1> QED BY <1>1

LEMMA SumUnique ==
  ASSUME NEW f, NEW S, IsFiniteSet(S), NEW U, NEW V, S \subseteq U, S \subseteq V,
         NEW h, NEW g, IsSum(f, U, h), IsSum(f, V, g)
  PROVE  h[S] = g[S]
<1> DEFINE B == {s \in SUBSET S : h[s] # g[s]}
<1> SUFFICES ASSUME B # {} PROVE FALSE OBVIOUS
<1>0. B \in SUBSET SUBSET S OBVIOUS
<1>1. PICK m \in B : \A s \in B : s \subseteq m => s = m
  <2> HIDE DEF B
  <2> QED BY <1>0, SmallestSubset
<1>2. m \in SUBSET U /\ m \in SUBSET V /\ h[m] # g[m] OBVIOUS
<1>3. m # {} BY <1>2, IsSumAt
<1>4. m \ {First(m)} \notin B BY <1>1, <1>3, FirstIn
<1>5. h[m \ {First(m)}] = g[m \ {First(m)}] BY <1>4
<1> QED BY <1>2, <1>3, <1>5, IsSumAt

LEMMA SumExists ==
  ASSUME NEW f, NEW S, IsFiniteSet(S)
  PROVE  \E h : IsSum(f, S, h)
<1> DEFINE B == {s \in SUBSET S : ~\E h : IsSum(f, s, h)}
<1> SUFFICES ASSUME B # {} PROVE FALSE OBVIOUS
<1>0. B \in SUBSET SUBSET S OBVIOUS
<1>1. PICK m \in B : \A s \in B : s \subseteq m => s = m
  <2> HIDE DEF B
  <2> QED BY <1>0, SmallestSubset
<1>2. IsFiniteSet(m) /\ ~\E h : IsSum(f, m, h) BY FS_Subset
<1>3. ASSUME NEW u \in SUBSET m, u # m
      PROVE  IsFiniteSet(u) /\ IsSum(f, u, CHOOSE h : IsSum(f, u, h))
  <2>1. u \notin B BY <1>1, <1>3
  <2>2. \E h : IsSum(f, u, h) BY <2>1
  <2> QED BY <2>2, <1>2, FS_Subset
<1> DEFINE H == [s \in SUBSET m |-> IF s = {} THEN 0
                                   ELSE f[First(s)] + SumOf(f, s \ {First(s)})]
<1>4. ASSUME NEW u \in SUBSET m, u # m PROVE H[u] = SumOf(f, u)
  <2> DEFINE h == CHOOSE h : IsSum(f, u, h)
  <2>1. IsSum(f, u, h) /\ SumOf(f, u) = h[u] BY <1>3, <1>4, SumIs
  <2> HIDE DEF h
  <2>2. CASE u = {} BY <2>1, <2>2, IsSumAt
  <2>3. CASE u # {}
    <3> DEFINE v == u \ {First(u)}
    <3>1. v \in SUBSET m /\ v # m /\ v \subseteq u BY <2>3, FirstIn
    <3>2. h[v] = SumOf(f, v)
      <4> DEFINE g == CHOOSE h1 : IsSum(f, v, h1)
      <4>1. IsFiniteSet(v) /\ IsSum(f, v, g) /\ SumOf(f, v) = g[v] BY <3>1, <1>3, SumIs
      <4> HIDE DEF g, v
      <4> QED BY <4>1, <2>1, <3>1, SumUnique
    <3>3. h[u] = f[First(u)] + h[v] BY <2>1, <2>3, IsSumAt
    <3>4. H[u] = f[First(u)] + SumOf(f, v) BY <2>3
    <3> QED BY <2>1, <3>2, <3>3, <3>4
  <2> QED BY <2>2, <2>3
<1>5. ASSUME NEW s \in SUBSET m, s # {}
      PROVE  H[s \ {First(s)}] = SumOf(f, s \ {First(s)})
  <2>1. s \ {First(s)} \in SUBSET m /\ s \ {First(s)} # m BY <1>5, FirstIn
  <2> HIDE DEF H
  <2> QED BY <2>1, <1>4
<1>6. ASSUME NEW s \in SUBSET m
      PROVE  H[s] = IF s = {} THEN 0 ELSE f[First(s)] + H[s \ {First(s)}]
  <2>1. H[s] = IF s = {} THEN 0 ELSE f[First(s)] + SumOf(f, s \ {First(s)}) OBVIOUS
  <2> HIDE DEF H
  <2> QED BY <2>1, <1>5
<1>7. H = [s \in SUBSET m |-> H[s]] OBVIOUS
<1> HIDE DEF H
<1>8. H = [s \in SUBSET m |-> IF s = {} THEN 0 ELSE f[First(s)] + H[s \ {First(s)}]]
  BY <1>6, <1>7, Zenon
<1>9. IsSum(f, m, H) BY <1>8 DEF IsSum
<1> QED BY <1>9, <1>2

LEMMA SumEmpty == ASSUME NEW f PROVE SumOf(f, {}) = 0
BY SumIs, SumExists, IsSumAt, FS_EmptySet

LEMMA SumFirst ==
  ASSUME NEW f, NEW S, IsFiniteSet(S), S # {}
  PROVE  SumOf(f, S) = f[First(S)] + SumOf(f, S \ {First(S)})
<1> DEFINE T == S \ {First(S)}
           h == CHOOSE h : IsSum(f, S, h)
           g == CHOOSE g : IsSum(f, T, g)
<1>1. IsFiniteSet(T) /\ T \subseteq S BY FS_Subset
<1>2. IsSum(f, S, h) BY SumExists
<1>3. IsSum(f, T, g) BY <1>1, SumExists
<1>4. SumOf(f, S) = h[S] /\ SumOf(f, T) = g[T] BY SumIs
<1> HIDE DEF h, g
<1>5. h[S] = f[First(S)] + h[T] BY <1>2, IsSumAt
<1> HIDE DEF T
<1>6. h[T] = g[T] BY <1>1, <1>2, <1>3, SumUnique
<1> QED BY <1>4, <1>5, <1>6 DEF T

-----------------------------------------------------------------------------
(* What is left of a finite set under induction on its subsets.            *)
Column(f, S) == \A x \in S : f[x] \in Int

LEMMA SumType ==
  ASSUME NEW f, NEW S, IsFiniteSet(S), Column(f, S)
  PROVE  SumOf(f, S) \in Int
<1> DEFINE B == {s \in SUBSET S : SumOf(f, s) \notin Int}
<1> SUFFICES ASSUME B # {} PROVE FALSE OBVIOUS
<1>0. B \in SUBSET SUBSET S OBVIOUS
<1>1. PICK m \in B : \A s \in B : s \subseteq m => s = m
  <2> HIDE DEF B
  <2> QED BY <1>0, SmallestSubset
<1>2. IsFiniteSet(m) /\ m \subseteq S BY FS_Subset
<1>3. m # {} BY SumEmpty
<1>4. First(m) \in S /\ m \ {First(m)} \notin B BY <1>1, <1>2, <1>3, FirstIn
<1>5. f[First(m)] \in Int /\ SumOf(f, m \ {First(m)}) \in Int BY <1>2, <1>4 DEF Column
<1>6. SumOf(f, m) = f[First(m)] + SumOf(f, m \ {First(m)}) BY <1>2, <1>3, SumFirst
<1> QED BY <1>5, <1>6

(* A row that leaves takes its own amount with it.                         *)
LEMMA SumWithout ==
  ASSUME NEW f, NEW S, IsFiniteSet(S), Column(f, S), NEW x \in S
  PROVE  SumOf(f, S) = f[x] + SumOf(f, S \ {x})
<1> DEFINE B == {s \in SUBSET S : \E y \in s : SumOf(f, s) # f[y] + SumOf(f, s \ {y})}
<1> SUFFICES ASSUME B # {} PROVE FALSE OBVIOUS
<1>0. B \in SUBSET SUBSET S OBVIOUS
<1>1. PICK m \in B : \A s \in B : s \subseteq m => s = m
  <2> HIDE DEF B
  <2> QED BY <1>0, SmallestSubset
<1>2. IsFiniteSet(m) /\ m \subseteq S BY FS_Subset
<1>3. PICK y \in m : SumOf(f, m) # f[y] + SumOf(f, m \ {y}) OBVIOUS
<1> DEFINE c == First(m)  r == (m \ {c}) \ {y}
<1>4. c \in m /\ SumOf(f, m) = f[c] + SumOf(f, m \ {c}) BY <1>2, FirstIn, SumFirst
<1>5. y # c BY <1>3, <1>4
<1>6. m \ {c} \notin B /\ m \ {y} \notin B BY <1>1, <1>4
<1>7. SumOf(f, m \ {c}) = f[y] + SumOf(f, r) BY <1>2, <1>5, <1>6
<1>8. SumOf(f, m \ {y}) = f[c] + SumOf(f, (m \ {y}) \ {c}) BY <1>2, <1>4, <1>5, <1>6
<1>9. (m \ {y}) \ {c} = r OBVIOUS
<1>10. f[c] \in Int /\ f[y] \in Int BY <1>2, <1>4 DEF Column
<1>11. IsFiniteSet(r) /\ Column(f, r) BY <1>2, FS_Subset DEF Column
<1>12. SumOf(f, r) \in Int BY <1>11, SumType
<1> QED BY <1>3, <1>4, <1>7, <1>8, <1>9, <1>10, <1>12

(* Rows that have the same amounts have the same sum.                      *)
LEMMA SumSame ==
  ASSUME NEW f, NEW g, NEW S, IsFiniteSet(S), \A x \in S : f[x] = g[x]
  PROVE  SumOf(f, S) = SumOf(g, S)
<1> DEFINE B == {s \in SUBSET S : SumOf(f, s) # SumOf(g, s)}
<1> SUFFICES ASSUME B # {} PROVE FALSE OBVIOUS
<1>0. B \in SUBSET SUBSET S OBVIOUS
<1>1. PICK m \in B : \A s \in B : s \subseteq m => s = m
  <2> HIDE DEF B
  <2> QED BY <1>0, SmallestSubset
<1>2. IsFiniteSet(m) /\ m \subseteq S BY FS_Subset
<1>3. m # {} BY SumEmpty
<1>4. First(m) \in S /\ m \ {First(m)} \notin B BY <1>1, <1>2, <1>3, FirstIn
<1>5. /\ SumOf(f, m \ {First(m)}) = SumOf(g, m \ {First(m)})
      /\ f[First(m)] = g[First(m)]
  BY <1>2, <1>4
<1>6. /\ SumOf(f, m) = f[First(m)] + SumOf(f, m \ {First(m)})
      /\ SumOf(g, m) = g[First(m)] + SumOf(g, m \ {First(m)})
  BY <1>2, <1>3, SumFirst
<1> QED BY <1>5, <1>6

LEMMA SumWith ==
  ASSUME NEW f, NEW S, IsFiniteSet(S), Column(f, S), NEW x, x \notin S, f[x] \in Int
  PROVE  SumOf(f, S \cup {x}) = f[x] + SumOf(f, S)
<1>1. IsFiniteSet(S \cup {x}) BY FS_AddElement
<1>2. Column(f, S \cup {x}) BY DEF Column
<1>3. (S \cup {x}) \ {x} = S OBVIOUS
<1> QED BY <1>1, <1>2, <1>3, SumWithout

(* Rows that are worth something or nothing.                               *)
LEMMA SumNatural ==
  ASSUME NEW f, NEW S, IsFiniteSet(S), \A x \in S : f[x] \in Nat
  PROVE  SumOf(f, S) \in Nat
<1> DEFINE B == {s \in SUBSET S : SumOf(f, s) \notin Nat}
<1> SUFFICES ASSUME B # {} PROVE FALSE OBVIOUS
<1>0. B \in SUBSET SUBSET S OBVIOUS
<1>1. PICK m \in B : \A s \in B : s \subseteq m => s = m
  <2> HIDE DEF B
  <2> QED BY <1>0, SmallestSubset
<1>2. IsFiniteSet(m) /\ m \subseteq S BY FS_Subset
<1>3. m # {} BY SumEmpty
<1>4. First(m) \in S /\ m \ {First(m)} \notin B BY <1>1, <1>2, <1>3, FirstIn
<1>5. f[First(m)] \in Nat /\ SumOf(f, m \ {First(m)}) \in Nat BY <1>2, <1>4
<1>6. SumOf(f, m) = f[First(m)] + SumOf(f, m \ {First(m)}) BY <1>2, <1>3, SumFirst
<1> QED BY <1>5, <1>6
=============================================================================
