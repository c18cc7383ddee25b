-------------------------------- MODULE Sums --------------------------------
(* Sums over finite sets: what the proofs need to know of SumFunctionOnSet,  *)
(* the sum in which the counters of FairUse and Counters are read and the    *)
(* history is added up. It is a fold in an order nobody chose, so its        *)
(* defining equation is a recursion over subsets, and what it computes is    *)
(* found by looking at a smallest set that would have another sum.           *)
EXTENDS Integers, FiniteSets, FiniteSetsExt, FiniteSetTheorems,
        WellFoundedInduction, TLAPS

-----------------------------------------------------------------------------
(* A smallest set.                                                         *)

\* Of the sets of a collection of subsets of a finite set, one has no other
\* below it.
LEMMA SmallestSet ==
  ASSUME NEW S, IsFiniteSet(S), NEW B, B \subseteq SUBSET S, B # {}
  PROVE  \E T \in B : \A U \in B : U \subseteq T => U = T
  <1>1. IsWellFoundedOn(StrictSubsetOrdering(S), SUBSET S)
    BY FS_StrictSubsetOrderingWellFounded, FS_FiniteSubsetsOfFinite
  <1>2. PICK T \in B : \A U \in B : ~ (<<U, T>> \in StrictSubsetOrdering(S))
    BY <1>1, WFMin, Zenon
  <1>3. ASSUME NEW U \in B, U \subseteq T, U # T
        PROVE  FALSE
    <2>1. <<U, T>> \in (SUBSET S) \X (SUBSET S)
      BY Zenon
    <2>2. <<U, T>>[1] = U /\ <<U, T>>[2] = T
      OBVIOUS
    <2>3. <<U, T>> \in StrictSubsetOrdering(S)
      BY <1>3, <2>1, <2>2, Zenon DEF StrictSubsetOrdering
    <2> QED BY <1>2, <2>3
  <1> QED BY <1>2, <1>3

-----------------------------------------------------------------------------
(* The fold has a value.                                                   *)

Pick(s) == CHOOSE x \in s : TRUE

\* g is the sum of f over every subset of T.
Adds(g, f, T) ==
  g = [s \in SUBSET T |-> IF s = {} THEN 0 ELSE f[Pick(s)] + g[s \ {Pick(s)}]]

\* What is picked is in the set.
LEMMA PickType == \A s : s # {} => Pick(s) \in s
  BY DEF Pick

\* Two functions that add agree wherever both are defined.
LEMMA AddsUnique ==
  ASSUME NEW f, NEW S, IsFiniteSet(S), NEW T, NEW U, S \subseteq T, S \subseteq U,
         NEW g, Adds(g, f, T), NEW h, Adds(h, f, U)
  PROVE  g[S] = h[S]
  <1> DEFINE B == {s \in SUBSET S : g[s] # h[s]}
  <1>1. SUFFICES ASSUME B # {} PROVE FALSE
    BY <1>1
  <1>2. PICK s \in B : \A r \in B : r \subseteq s => r = s
    <2> HIDE DEF B
    <2>1. B \subseteq SUBSET S
      BY DEF B
    <2> QED BY <1>1, <2>1, SmallestSet
  <1>3. /\ g[s] = IF s = {} THEN 0 ELSE f[Pick(s)] + g[s \ {Pick(s)}]
        /\ h[s] = IF s = {} THEN 0 ELSE f[Pick(s)] + h[s \ {Pick(s)}]
    <2>1. s \in SUBSET T /\ s \in SUBSET U
      OBVIOUS
    <2> QED BY <2>1, Zenon DEF Adds
  <1>4. s # {}
    BY <1>3
  <1>5. s \ {Pick(s)} \subseteq s /\ s \ {Pick(s)} # s
    BY <1>4, PickType
  <1>6. g[s \ {Pick(s)}] = h[s \ {Pick(s)}]
    BY <1>2, <1>5
  <1> QED BY <1>3, <1>4, <1>6

\* Every finite set has one.
LEMMA AddsExists ==
  ASSUME NEW f, NEW S, IsFiniteSet(S)
  PROVE  \E g : Adds(g, f, S)
  <1> DEFINE B == {s \in SUBSET S : ~ \E g : Adds(g, f, s)}
  <1>1. SUFFICES ASSUME B # {} PROVE FALSE
    BY <1>1
  <1>2. PICK s \in B : \A r \in B : r \subseteq s => r = s
    <2>1. B \subseteq SUBSET S
      OBVIOUS
    <2> HIDE DEF B
    <2> QED BY <1>1, <2>1, SmallestSet
  <1> DEFINE V(r) == (CHOOSE g : Adds(g, f, r))[r]
             W(r) == IF r = {} THEN 0 ELSE f[Pick(r)] + V(r \ {Pick(r)})
             g == [r \in SUBSET s |-> W(r)]
  <1>3. ASSUME NEW r \in SUBSET s, r # s
        PROVE  g[r] = V(r)
    <2>1. r \notin B
      BY <1>2, <1>3
    <2>2. \E k : Adds(k, f, r)
      BY <2>1
    <2> DEFINE k == CHOOSE k : Adds(k, f, r)
    <2>3. Adds(k, f, r)
      BY <2>2
    <2> HIDE DEF k
    <2>4. k[r] = IF r = {} THEN 0 ELSE f[Pick(r)] + k[r \ {Pick(r)}]
      <3>1. r \in SUBSET r
        OBVIOUS
      <3> QED BY <2>3, <3>1, Zenon DEF Adds
    <2>5. ASSUME r # {}
          PROVE  k[r \ {Pick(r)}] = V(r \ {Pick(r)})
      <3> DEFINE q == r \ {Pick(r)}
      <3>1. q \in SUBSET s /\ q # s /\ q \subseteq r
        BY <1>3, <2>5, PickType
      <3>2. q \notin B
        BY <1>2, <3>1
      <3>3. \E m : Adds(m, f, q)
        BY <3>1, <3>2
      <3> DEFINE m == CHOOSE m : Adds(m, f, q)
      <3>4. Adds(m, f, q)
        BY <3>3
      <3>5. IsFiniteSet(q)
        BY <3>1, FS_Subset
      <3>6. V(q) = m[q]
        OBVIOUS
      <3> HIDE DEF m, q, V
      <3>7. k[q] = m[q]
        BY <2>3, <3>1, <3>4, <3>5, AddsUnique
      <3> QED BY <3>6, <3>7 DEF q
    <2>6. V(r) = k[r]
      BY DEF k
    <2>7. g[r] = W(r)
      OBVIOUS
    <2> HIDE DEF g, V
    <2> QED BY <2>4, <2>5, <2>6, <2>7
  <1>4. ASSUME NEW r \in SUBSET s
        PROVE  g[r] = IF r = {} THEN 0 ELSE f[Pick(r)] + g[r \ {Pick(r)}]
    <2>1. g[r] = W(r)
      OBVIOUS
    <2>2. ASSUME r # {}
          PROVE  g[r \ {Pick(r)}] = V(r \ {Pick(r)})
      <3>1. r \ {Pick(r)} \in SUBSET s /\ r \ {Pick(r)} # s
        BY <2>2, PickType
      <3> HIDE DEF g, V
      <3> QED BY <1>3, <3>1
    <2> HIDE DEF g, V
    <2> QED BY <2>1, <2>2
  <1>5. g = [r \in SUBSET s |-> g[r]]
    OBVIOUS
  <1> HIDE DEF g
  <1>6. Adds(g, f, s)
    BY <1>4, <1>5 DEF Adds
  <1> QED BY <1>2, <1>6

-----------------------------------------------------------------------------
(* The sum.                                                                *)

\* The sum over S is the last value of a function that adds.
LEMMA SumIsAdded ==
  ASSUME NEW f, NEW S, IsFiniteSet(S), NEW T, S \subseteq T, NEW g, Adds(g, f, T)
  PROVE  SumFunctionOnSet(f, S) = g[S]
  <1> DEFINE k == CHOOSE k : Adds(k, f, S)
  <1>1. Adds(k, f, S)
    BY AddsExists
  <1>2. SumFunctionOnSet(f, S) = k[S]
    BY DEF SumFunctionOnSet, FoldFunctionOnSet, MapThenFoldSet, Adds, Pick
  <1> HIDE DEF k
  <1>3. k[S] = g[S]
    BY <1>1, AddsUnique
  <1> QED BY <1>2, <1>3

\* Nothing to add.
LEMMA SumEmpty == ASSUME NEW f PROVE SumFunctionOnSet(f, {}) = 0
  <1>1. IsFiniteSet({})
    BY FS_EmptySet
  <1>2. PICK g : Adds(g, f, {})
    BY <1>1, AddsExists
  <1>3. {} \in SUBSET {}
    OBVIOUS
  <1>4. g[{}] = IF {} = {} THEN 0 ELSE f[Pick({})] + g[{} \ {Pick({})}]
    BY <1>2, <1>3, Zenon DEF Adds
  <1>5. SumFunctionOnSet(f, {}) = g[{}]
    BY <1>1, <1>2, SumIsAdded
  <1> QED BY <1>4, <1>5

\* The recursion of the fold.
LEMMA SumUnfold ==
  ASSUME NEW f, NEW S, IsFiniteSet(S), S # {}
  PROVE  SumFunctionOnSet(f, S) = f[Pick(S)] + SumFunctionOnSet(f, S \ {Pick(S)})
  <1>1. PICK g : Adds(g, f, S)
    BY AddsExists
  <1>2. S \in SUBSET S /\ S \ {Pick(S)} \subseteq S
    OBVIOUS
  <1>3. g[S] = IF S = {} THEN 0 ELSE f[Pick(S)] + g[S \ {Pick(S)}]
    BY <1>1, <1>2, Zenon DEF Adds
  <1>4. IsFiniteSet(S \ {Pick(S)})
    BY FS_RemoveElement
  <1>5. SumFunctionOnSet(f, S) = g[S]
    BY <1>1, <1>2, SumIsAdded
  <1>6. SumFunctionOnSet(f, S \ {Pick(S)}) = g[S \ {Pick(S)}]
    BY <1>1, <1>2, <1>4, SumIsAdded
  <1> QED BY <1>3, <1>5, <1>6

\* What is left of a finite set without what was picked.
LEMMA LessPicked ==
  ASSUME NEW S, IsFiniteSet(S), NEW s \in SUBSET S, s # {}
  PROVE  /\ Pick(s) \in s /\ Pick(s) \in S
         /\ IsFiniteSet(s) /\ IsFiniteSet(s \ {Pick(s)})
         /\ s \ {Pick(s)} \in SUBSET S
         /\ s \ {Pick(s)} \subseteq s /\ s \ {Pick(s)} # s
  <1>1. Pick(s) \in s
    BY PickType
  <1>2. IsFiniteSet(s)
    BY FS_Subset
  <1>3. IsFiniteSet(s \ {Pick(s)})
    BY <1>2, FS_RemoveElement
  <1> QED BY <1>1, <1>2, <1>3

\* Sums of integers are integers.
LEMMA SumInt ==
  ASSUME NEW f, NEW S, IsFiniteSet(S), \A x \in S : f[x] \in Int
  PROVE  SumFunctionOnSet(f, S) \in Int
  <1> DEFINE B == {s \in SUBSET S : SumFunctionOnSet(f, s) \notin Int}
  <1>1. SUFFICES ASSUME B # {} PROVE FALSE
    BY <1>1
  <1>2. PICK s \in B : \A r \in B : r \subseteq s => r = s
    <2>1. B \subseteq SUBSET S
      OBVIOUS
    <2> HIDE DEF B
    <2> QED BY <1>1, <2>1, SmallestSet
  <1>3. s # {}
    BY SumEmpty
  <1>4. SumFunctionOnSet(f, s) = f[Pick(s)] + SumFunctionOnSet(f, s \ {Pick(s)})
    BY <1>3, LessPicked, SumUnfold
  <1>5. SumFunctionOnSet(f, s \ {Pick(s)}) \in Int
    BY <1>2, <1>3, LessPicked
  <1>6. f[Pick(s)] \in Int
    BY <1>3, LessPicked
  <1> QED BY <1>4, <1>5, <1>6

\* ... of natural numbers natural numbers.
LEMMA SumNat ==
  ASSUME NEW f, NEW S, IsFiniteSet(S), \A x \in S : f[x] \in Nat
  PROVE  SumFunctionOnSet(f, S) \in Nat
  <1> DEFINE B == {s \in SUBSET S : SumFunctionOnSet(f, s) \notin Nat}
  <1>1. SUFFICES ASSUME B # {} PROVE FALSE
    BY <1>1
  <1>2. PICK s \in B : \A r \in B : r \subseteq s => r = s
    <2>1. B \subseteq SUBSET S
      OBVIOUS
    <2> HIDE DEF B
    <2> QED BY <1>1, <2>1, SmallestSet
  <1>3. s # {}
    BY SumEmpty
  <1>4. SumFunctionOnSet(f, s) = f[Pick(s)] + SumFunctionOnSet(f, s \ {Pick(s)})
    BY <1>3, LessPicked, SumUnfold
  <1>5. SumFunctionOnSet(f, s \ {Pick(s)}) \in Nat
    BY <1>2, <1>3, LessPicked
  <1>6. f[Pick(s)] \in Nat
    BY <1>3, LessPicked
  <1> QED BY <1>4, <1>5, <1>6

\* The order does not matter: any element can be taken out first.
LEMMA SumRemove ==
  ASSUME NEW f, NEW S, IsFiniteSet(S), \A x \in S : f[x] \in Int, NEW x \in S
  PROVE  SumFunctionOnSet(f, S) = f[x] + SumFunctionOnSet(f, S \ {x})
  <1> DEFINE B == {s \in SUBSET S :
                     \E y \in s : SumFunctionOnSet(f, s) # f[y] + SumFunctionOnSet(f, s \ {y})}
  <1>1. SUFFICES ASSUME B # {} PROVE FALSE
    BY <1>1
  <1>2. PICK s \in B : \A r \in B : r \subseteq s => r = s
    <2>1. B \subseteq SUBSET S
      OBVIOUS
    <2> HIDE DEF B
    <2> QED BY <1>1, <2>1, SmallestSet
  <1>3. PICK y \in s : SumFunctionOnSet(f, s) # f[y] + SumFunctionOnSet(f, s \ {y})
    OBVIOUS
  <1> DEFINE p == Pick(s)
  <1>4. /\ p \in s /\ IsFiniteSet(s) /\ IsFiniteSet(s \ {p})
        /\ s \ {p} \in SUBSET S /\ s \ {p} # s
    BY <1>3, LessPicked
  <1>5. SumFunctionOnSet(f, s) = f[p] + SumFunctionOnSet(f, s \ {p})
    BY <1>3, <1>4, SumUnfold
  <1>6. y # p
    BY <1>3, <1>5
  <1> DEFINE r == s \ {p, y}
  <1>7. SumFunctionOnSet(f, s \ {p}) = f[y] + SumFunctionOnSet(f, r)
    <2>1. SumFunctionOnSet(f, s \ {p}) = f[y] + SumFunctionOnSet(f, (s \ {p}) \ {y})
      BY <1>2, <1>4, <1>6
    <2>2. (s \ {p}) \ {y} = r
      OBVIOUS
    <2> QED BY <2>1, <2>2, Zenon
  <1>8. SumFunctionOnSet(f, s \ {y}) = f[p] + SumFunctionOnSet(f, r)
    <2>1. s \ {y} \in SUBSET S /\ s \ {y} \subseteq s /\ s \ {y} # s /\ p \in s \ {y}
      BY <1>4, <1>6
    <2>2. SumFunctionOnSet(f, s \ {y}) = f[p] + SumFunctionOnSet(f, (s \ {y}) \ {p})
      BY <1>2, <2>1
    <2>3. (s \ {y}) \ {p} = r
      OBVIOUS
    <2> QED BY <2>2, <2>3, Zenon
  <1>9. f[p] \in Int /\ f[y] \in Int /\ SumFunctionOnSet(f, r) \in Int
    <2>1. r \subseteq S
      OBVIOUS
    <2>2. IsFiniteSet(r)
      BY <2>1, FS_Subset
    <2>3. f[p] \in Int /\ f[y] \in Int
      BY <1>4
    <2> HIDE DEF r
    <2> QED BY <2>1, <2>2, <2>3, SumInt
  <1> HIDE DEF p, r, B
  <1> QED BY <1>3, <1>5, <1>7, <1>8, <1>9

\* A sum depends on the values it adds.
LEMMA SumSame ==
  ASSUME NEW f, NEW g, NEW S, IsFiniteSet(S), \A x \in S : f[x] = g[x]
  PROVE  SumFunctionOnSet(f, S) = SumFunctionOnSet(g, S)
  <1> DEFINE B == {s \in SUBSET S : SumFunctionOnSet(f, s) # SumFunctionOnSet(g, s)}
  <1>1. SUFFICES ASSUME B # {} PROVE FALSE
    BY <1>1
  <1>2. PICK s \in B : \A r \in B : r \subseteq s => r = s
    <2>1. B \subseteq SUBSET S
      OBVIOUS
    <2> HIDE DEF B
    <2> QED BY <1>1, <2>1, SmallestSet
  <1>3. s # {}
    BY SumEmpty
  <1>4. /\ SumFunctionOnSet(f, s) = f[Pick(s)] + SumFunctionOnSet(f, s \ {Pick(s)})
        /\ SumFunctionOnSet(g, s) = g[Pick(s)] + SumFunctionOnSet(g, s \ {Pick(s)})
    BY <1>3, LessPicked, SumUnfold
  <1>5. SumFunctionOnSet(f, s \ {Pick(s)}) = SumFunctionOnSet(g, s \ {Pick(s)})
    BY <1>2, <1>3, LessPicked
  <1>6. f[Pick(s)] = g[Pick(s)]
    BY <1>3, LessPicked
  <1> QED BY <1>4, <1>5, <1>6

\* One value more.
LEMMA SumChange ==
  ASSUME NEW f, NEW g, NEW S, IsFiniteSet(S), NEW x \in S,
         \A y \in S : f[y] \in Int /\ g[y] \in Int,
         \A y \in S \ {x} : g[y] = f[y]
  PROVE  SumFunctionOnSet(g, S) = SumFunctionOnSet(f, S) + (g[x] - f[x])
  <1>1. IsFiniteSet(S \ {x})
    BY FS_RemoveElement
  <1>2. SumFunctionOnSet(g, S \ {x}) = SumFunctionOnSet(f, S \ {x})
    BY <1>1, SumSame
  <1>3. SumFunctionOnSet(f, S \ {x}) \in Int
    BY <1>1, SumInt
  <1>4. /\ SumFunctionOnSet(f, S) = f[x] + SumFunctionOnSet(f, S \ {x})
        /\ SumFunctionOnSet(g, S) = g[x] + SumFunctionOnSet(g, S \ {x})
    BY SumRemove
  <1> QED BY <1>2, <1>3, <1>4

\* Two parts that have nothing in common.
LEMMA SumSplit ==
  ASSUME NEW f, NEW S, IsFiniteSet(S), NEW T \in SUBSET S, \A x \in S : f[x] \in Int
  PROVE  SumFunctionOnSet(f, S) = SumFunctionOnSet(f, T) + SumFunctionOnSet(f, S \ T)
  <1> DEFINE B == {s \in SUBSET T :
                     SumFunctionOnSet(f, S) # SumFunctionOnSet(f, s) + SumFunctionOnSet(f, S \ s)}
  <1>0. IsFiniteSet(T)
    BY FS_Subset
  <1>1. SUFFICES ASSUME B # {} PROVE FALSE
    BY <1>1
  <1>2. PICK s \in B : \A r \in B : r \subseteq s => r = s
    <2>1. B \subseteq SUBSET T
      OBVIOUS
    <2> HIDE DEF B
    <2> QED BY <1>0, <1>1, <2>1, SmallestSet
  <1>3. s # {}
    <2>1. S \ {} = S
      OBVIOUS
    <2>2. SumFunctionOnSet(f, S) \in Int
      BY SumInt
    <2> QED BY <2>1, <2>2, SumEmpty
  <1> DEFINE p == Pick(s)
             q == s \ {p}
  <1>4. /\ p \in s /\ p \in T /\ IsFiniteSet(s) /\ IsFiniteSet(q)
        /\ q \in SUBSET T /\ q \subseteq s /\ q # s
    BY <1>0, <1>3, LessPicked
  <1> HIDE DEF p
  <1>5. SumFunctionOnSet(f, s) = f[p] + SumFunctionOnSet(f, q)
    BY <1>4, SumRemove
  <1>6. SumFunctionOnSet(f, S \ q) = f[p] + SumFunctionOnSet(f, S \ s)
    <2>1. IsFiniteSet(S \ q) /\ p \in S \ q
      BY <1>4, FS_Subset
    <2>2. SumFunctionOnSet(f, S \ q) = f[p] + SumFunctionOnSet(f, (S \ q) \ {p})
      BY <2>1, SumRemove
    <2>3. (S \ q) \ {p} = S \ s
      BY <1>4
    <2> QED BY <2>2, <2>3, Zenon
  <1>7. SumFunctionOnSet(f, S) # SumFunctionOnSet(f, s) + SumFunctionOnSet(f, S \ s)
    OBVIOUS
  <1>8. SumFunctionOnSet(f, S) = SumFunctionOnSet(f, q) + SumFunctionOnSet(f, S \ q)
    BY <1>2, <1>4
  <1>9. /\ f[p] \in Int /\ SumFunctionOnSet(f, q) \in Int
        /\ SumFunctionOnSet(f, S \ s) \in Int
    <2>1. IsFiniteSet(S \ s)
      BY FS_Subset
    <2> QED BY <1>4, <2>1, SumInt
  <1> HIDE DEF q, B
  <1> QED BY <1>5, <1>6, <1>7, <1>8, <1>9

\* A part of a sum of numbers is at most the whole.
LEMMA SumPart ==
  ASSUME NEW f, NEW S, IsFiniteSet(S), NEW T \in SUBSET S, \A x \in S : f[x] \in Nat
  PROVE  SumFunctionOnSet(f, T) <= SumFunctionOnSet(f, S)
  <1>1. IsFiniteSet(T) /\ IsFiniteSet(S \ T)
    BY FS_Subset
  <1>2. SumFunctionOnSet(f, T) \in Nat /\ SumFunctionOnSet(f, S \ T) \in Nat
    BY <1>1, SumNat
  <1>3. SumFunctionOnSet(f, S) = SumFunctionOnSet(f, T) + SumFunctionOnSet(f, S \ T)
    BY SumSplit
  <1> QED BY <1>2, <1>3

\* A sum of n values of at most b is at most n * b.
LEMMA SumBound ==
  ASSUME NEW f, NEW S, IsFiniteSet(S), NEW b \in Nat,
         \A x \in S : f[x] \in Nat /\ f[x] <= b
  PROVE  SumFunctionOnSet(f, S) <= Cardinality(S) * b
  <1> DEFINE B == {s \in SUBSET S : ~ (SumFunctionOnSet(f, s) <= Cardinality(s) * b)}
  <1>1. SUFFICES ASSUME B # {} PROVE FALSE
    BY <1>1
  <1>2. PICK s \in B : \A r \in B : r \subseteq s => r = s
    <2>1. B \subseteq SUBSET S
      OBVIOUS
    <2> HIDE DEF B
    <2> QED BY <1>1, <2>1, SmallestSet
  <1>3. s # {}
    BY SumEmpty, FS_EmptySet
  <1> DEFINE p == Pick(s)
             q == s \ {p}
             n == Cardinality(q)
  <1>4. /\ p \in s /\ IsFiniteSet(s) /\ IsFiniteSet(q)
        /\ q \in SUBSET S /\ q \subseteq s /\ q # s
    BY <1>3, LessPicked
  <1>5. SumFunctionOnSet(f, s) = f[p] + SumFunctionOnSet(f, q)
    BY <1>3, <1>4, SumUnfold
  <1>6. SumFunctionOnSet(f, q) <= n * b
    BY <1>2, <1>4
  <1>7. n \in Nat /\ Cardinality(s) = n + 1
    <2>1. Cardinality(q) = Cardinality(s) - 1
      BY <1>4, FS_RemoveElement
    <2>2. Cardinality(s) \in Nat /\ Cardinality(q) \in Nat
      BY <1>4, FS_CardinalityType
    <2> QED BY <2>1, <2>2
  <1>8. (n + 1) * b = n * b + b /\ n * b \in Nat
    <2> HIDE DEF n
    <2> QED BY <1>7
  <1>9. f[p] \in Nat /\ f[p] <= b /\ SumFunctionOnSet(f, q) \in Nat
    BY <1>4, SumNat
  <1>10. ~ (SumFunctionOnSet(f, s) <= Cardinality(s) * b)
    OBVIOUS
  <1> HIDE DEF n, p, q
  <1> QED BY <1>5, <1>6, <1>7, <1>8, <1>9, <1>10

\* The same values under other names.
LEMMA SumRenamed ==
  ASSUME NEW f, NEW g, NEW S, IsFiniteSet(S), NEW h,
         \A x \in S : f[x] \in Int /\ g[h[x]] = f[x],
         \A x, y \in S : h[x] = h[y] => x = y
  PROVE  SumFunctionOnSet(g, {h[x] : x \in S}) = SumFunctionOnSet(f, S)
  <1> DEFINE N(s) == {h[x] : x \in s}
             B == {s \in SUBSET S : SumFunctionOnSet(g, N(s)) # SumFunctionOnSet(f, s)}
  <1>1. SUFFICES ASSUME B # {} PROVE FALSE
    BY <1>1
  <1>2. PICK s \in B : \A r \in B : r \subseteq s => r = s
    <2>1. B \subseteq SUBSET S
      OBVIOUS
    <2> HIDE DEF B
    <2> QED BY <1>1, <2>1, SmallestSet
  <1>3. s # {}
    <2>1. N({}) = {}
      OBVIOUS
    <2> QED BY <2>1, SumEmpty
  <1> DEFINE p == Pick(s)
             q == s \ {p}
  <1>4. /\ p \in s /\ IsFiniteSet(s) /\ IsFiniteSet(q)
        /\ q \in SUBSET S /\ q \subseteq s /\ q # s
    BY <1>3, LessPicked
  <1>5. SumFunctionOnSet(f, s) = f[p] + SumFunctionOnSet(f, q)
    BY <1>3, <1>4, SumUnfold
  <1>6. SumFunctionOnSet(g, N(q)) = SumFunctionOnSet(f, q)
    BY <1>2, <1>4
  <1>7. h[p] \in N(s) /\ N(s) \ {h[p]} = N(q)
    BY <1>4
  <1>8. IsFiniteSet(N(s))
    <2>1. [x \in s |-> h[x]] \in Surjection(s, N(s))
      BY DEF Surjection
    <2> HIDE DEF N, B
    <2> QED BY <1>4, <2>1, FS_Surjection
  <1>9. \A y \in N(s) : g[y] \in Int
    OBVIOUS
  <1>10. SumFunctionOnSet(g, N(s)) = g[h[p]] + SumFunctionOnSet(g, N(q))
    <2> HIDE DEF N, p, q, B
    <2> QED BY <1>7, <1>8, <1>9, SumRemove
  <1>11. g[h[p]] = f[p]
    BY <1>4
  <1>12. SumFunctionOnSet(g, N(s)) # SumFunctionOnSet(f, s)
    OBVIOUS
  <1> HIDE DEF N, p, q
  <1> QED BY <1>5, <1>6, <1>10, <1>11, <1>12

\* Smaller values have a smaller sum.
LEMMA SumLess ==
  ASSUME NEW f, NEW g, NEW S, IsFiniteSet(S),
         \A x \in S : f[x] \in Int /\ g[x] \in Int /\ f[x] <= g[x]
  PROVE  SumFunctionOnSet(f, S) <= SumFunctionOnSet(g, S)
  <1> DEFINE B == {s \in SUBSET S : ~ (SumFunctionOnSet(f, s) <= SumFunctionOnSet(g, s))}
  <1>1. SUFFICES ASSUME B # {} PROVE FALSE
    BY <1>1
  <1>2. PICK s \in B : \A r \in B : r \subseteq s => r = s
    <2>1. B \subseteq SUBSET S
      OBVIOUS
    <2> HIDE DEF B
    <2> QED BY <1>1, <2>1, SmallestSet
  <1>3. s # {}
    BY SumEmpty
  <1> DEFINE p == Pick(s)
             q == s \ {p}
  <1>4. /\ p \in s /\ IsFiniteSet(s) /\ IsFiniteSet(q)
        /\ q \in SUBSET S /\ q \subseteq s /\ q # s
    BY <1>3, LessPicked
  <1>5. /\ SumFunctionOnSet(f, s) = f[p] + SumFunctionOnSet(f, q)
        /\ SumFunctionOnSet(g, s) = g[p] + SumFunctionOnSet(g, q)
    BY <1>3, <1>4, SumUnfold
  <1>6. SumFunctionOnSet(f, q) <= SumFunctionOnSet(g, q)
    BY <1>2, <1>4
  <1>7. /\ f[p] \in Int /\ g[p] \in Int /\ f[p] <= g[p]
        /\ SumFunctionOnSet(f, q) \in Int /\ SumFunctionOnSet(g, q) \in Int
    BY <1>4, SumInt
  <1>8. ~ (SumFunctionOnSet(f, s) <= SumFunctionOnSet(g, s))
    OBVIOUS
  <1> HIDE DEF p, q, B
  <1> QED BY <1>5, <1>6, <1>7, <1>8

\* Nothing adds up to nothing.
LEMMA SumZero ==
  ASSUME NEW f, NEW S, IsFiniteSet(S), \A x \in S : f[x] = 0
  PROVE  SumFunctionOnSet(f, S) = 0
  <1>1. SumFunctionOnSet(f, S) <= Cardinality(S) * 0
    BY SumBound
  <1>2. Cardinality(S) \in Nat
    BY FS_CardinalityType
  <1>3. SumFunctionOnSet(f, S) \in Nat
    BY SumNat
  <1> QED BY <1>1, <1>2, <1>3

\* Two values for every element.
LEMMA SumPlus ==
  ASSUME NEW f, NEW g, NEW k, NEW S, IsFiniteSet(S),
         \A x \in S : f[x] \in Int /\ g[x] \in Int /\ k[x] = f[x] + g[x]
  PROVE  SumFunctionOnSet(k, S) = SumFunctionOnSet(f, S) + SumFunctionOnSet(g, S)
  <1> DEFINE B == {s \in SUBSET S :
                     SumFunctionOnSet(k, s) # SumFunctionOnSet(f, s) + SumFunctionOnSet(g, s)}
  <1>1. SUFFICES ASSUME B # {} PROVE FALSE
    BY <1>1
  <1>2. PICK s \in B : \A r \in B : r \subseteq s => r = s
    <2>1. B \subseteq SUBSET S
      OBVIOUS
    <2> HIDE DEF B
    <2> QED BY <1>1, <2>1, SmallestSet
  <1>3. s # {}
    <2>1. 0 = 0 + 0
      OBVIOUS
    <2>2. SumFunctionOnSet(k, {}) = SumFunctionOnSet(f, {}) + SumFunctionOnSet(g, {})
      BY <2>1, SumEmpty
    <2> QED BY <2>2
  <1> DEFINE p == Pick(s)
             q == s \ {p}
  <1>4. /\ p \in s /\ IsFiniteSet(s) /\ IsFiniteSet(q)
        /\ q \in SUBSET S /\ q \subseteq s /\ q # s
    BY <1>3, LessPicked
  <1>5. /\ SumFunctionOnSet(f, s) = f[p] + SumFunctionOnSet(f, q)
        /\ SumFunctionOnSet(g, s) = g[p] + SumFunctionOnSet(g, q)
        /\ SumFunctionOnSet(k, s) = k[p] + SumFunctionOnSet(k, q)
    BY <1>3, <1>4, SumUnfold
  <1>6. SumFunctionOnSet(k, q) = SumFunctionOnSet(f, q) + SumFunctionOnSet(g, q)
    BY <1>2, <1>4
  <1>7. /\ f[p] \in Int /\ g[p] \in Int /\ k[p] = f[p] + g[p]
        /\ SumFunctionOnSet(f, q) \in Int /\ SumFunctionOnSet(g, q) \in Int
    BY <1>4, SumInt
  <1>8. SumFunctionOnSet(k, s) # SumFunctionOnSet(f, s) + SumFunctionOnSet(g, s)
    OBVIOUS
  <1> HIDE DEF p, q, B
  <1> QED BY <1>5, <1>6, <1>7, <1>8

\* A part that is everything there is to add.
LEMMA SumWhere ==
  ASSUME NEW f, NEW g, NEW S, IsFiniteSet(S), NEW T \in SUBSET S,
         \A x \in T : f[x] \in Int /\ g[x] = f[x], \A x \in S \ T : g[x] = 0
  PROVE  SumFunctionOnSet(g, S) = SumFunctionOnSet(f, T)
  <1>1. IsFiniteSet(T) /\ IsFiniteSet(S \ T)
    BY FS_Subset
  <1>2. \A x \in S : g[x] \in Int
    OBVIOUS
  <1>3. SumFunctionOnSet(g, S) = SumFunctionOnSet(g, T) + SumFunctionOnSet(g, S \ T)
    BY <1>2, SumSplit
  <1>4. SumFunctionOnSet(g, S \ T) = 0
    BY <1>1, SumZero
  <1>5. SumFunctionOnSet(g, T) = SumFunctionOnSet(f, T)
    BY <1>1, SumSame
  <1>6. SumFunctionOnSet(f, T) \in Int
    BY <1>1, SumInt
  <1> QED BY <1>3, <1>4, <1>5, <1>6

\* Adding up group by group, when no element is in two groups.
LEMMA SumGroups ==
  ASSUME NEW f, NEW S, IsFiniteSet(S), \A x \in S : f[x] \in Int,
         NEW D, IsFiniteSet(D), NEW P, \A d \in D : P[d] \subseteq S,
         \A c, d \in D : c # d => P[c] \cap P[d] = {},
         NEW g, \A d \in D : g[d] = SumFunctionOnSet(f, P[d])
  PROVE  SumFunctionOnSet(f, UNION {P[d] : d \in D}) = SumFunctionOnSet(g, D)
  <1> DEFINE U(s) == UNION {P[d] : d \in s}
             B == {s \in SUBSET D : SumFunctionOnSet(f, U(s)) # SumFunctionOnSet(g, s)}
  <1>1. SUFFICES ASSUME B # {} PROVE FALSE
    BY <1>1
  <1>2. PICK s \in B : \A r \in B : r \subseteq s => r = s
    <2>1. B \subseteq SUBSET D
      OBVIOUS
    <2> HIDE DEF B
    <2> QED BY <1>1, <2>1, SmallestSet
  <1>3. s # {}
    <2>1. SUFFICES ASSUME s = {} PROVE FALSE
      OBVIOUS
    <2>2. UNION {P[d] : d \in {}} = {}
      OBVIOUS
    <2>3. SumFunctionOnSet(f, UNION {P[d] : d \in s}) # SumFunctionOnSet(g, s)
      OBVIOUS
    <2> HIDE DEF B, U
    <2> QED BY <2>1, <2>2, <2>3, SumEmpty
  <1> DEFINE p == Pick(s)
             q == s \ {p}
  <1>4. /\ p \in s /\ p \in D /\ IsFiniteSet(s) /\ IsFiniteSet(q)
        /\ q \in SUBSET D /\ q \subseteq s /\ q # s
    BY <1>3, LessPicked
  <1>5. SumFunctionOnSet(g, s) = g[p] + SumFunctionOnSet(g, q)
    BY <1>3, <1>4, SumUnfold
  <1>6. SumFunctionOnSet(f, U(q)) = SumFunctionOnSet(g, q)
    BY <1>2, <1>4
  <1>7. U(s) \subseteq S /\ P[p] \subseteq U(s) /\ U(s) \ P[p] = U(q)
    BY <1>4
  <1>8. SumFunctionOnSet(f, U(s)) = SumFunctionOnSet(f, P[p]) + SumFunctionOnSet(f, U(q))
    <2>1. IsFiniteSet(U(s))
      BY <1>7, FS_Subset
    <2> DEFINE u == U(s)
               v == U(q)
               w == P[p]
    <2>2. IsFiniteSet(u) /\ (\A x \in u : f[x] \in Int) /\ w \in SUBSET u /\ u \ w = v
      BY <1>7, <2>1
    <2> HIDE DEF u, v, w, U, B, p, q
    <2>3. SumFunctionOnSet(f, u) = SumFunctionOnSet(f, w) + SumFunctionOnSet(f, v)
      BY <2>2, SumSplit
    <2> QED BY <2>3 DEF u, v, w
  <1>9. g[p] = SumFunctionOnSet(f, P[p])
    BY <1>4
  <1>10. SumFunctionOnSet(f, U(s)) # SumFunctionOnSet(g, s)
    OBVIOUS
  <1> HIDE DEF p, q, B, U
  <1> QED BY <1>5, <1>6, <1>8, <1>9, <1>10

\* Counts by age, a step of time later: all one older, and nothing new.
LEMMA SumAged ==
  ASSUME NEW f, NEW g, NEW n \in Nat, \A a \in 0 .. n : f[a] \in Int,
         g[0] = 0, \A a \in 0 .. n : g[a + 1] = f[a]
  PROVE  SumFunctionOnSet(g, 0 .. n + 1) = SumFunctionOnSet(f, 0 .. n)
  <1> DEFINE h == [a \in 0 .. n |-> a + 1]
  <1>1. IsFiniteSet(0 .. n) /\ IsFiniteSet(0 .. n + 1)
    BY FS_Interval
  <1>2. {h[a] : a \in 0 .. n} = (0 .. n + 1) \ {0}
    <2>1. ASSUME NEW b \in (0 .. n + 1) \ {0}
          PROVE  \E a \in 0 .. n : h[a] = b
      <3>1. b - 1 \in 0 .. n /\ h[b - 1] = b
        OBVIOUS
      <3> QED BY <3>1
    <2>2. \A a \in 0 .. n : h[a] \in (0 .. n + 1) \ {0}
      OBVIOUS
    <2> HIDE DEF h
    <2> QED BY <2>1, <2>2
  <1>3. SumFunctionOnSet(g, {h[a] : a \in 0 .. n}) = SumFunctionOnSet(f, 0 .. n)
    <2>1. \A a \in 0 .. n : f[a] \in Int /\ g[h[a]] = f[a]
      OBVIOUS
    <2>2. \A a, b \in 0 .. n : h[a] = h[b] => a = b
      OBVIOUS
    <2> DEFINE A == 0 .. n
    <2>3. /\ IsFiniteSet(A)
          /\ \A a \in A : f[a] \in Int /\ g[h[a]] = f[a]
          /\ \A a, b \in A : h[a] = h[b] => a = b
      BY <1>1, <2>1, <2>2
    <2> HIDE DEF h, A
    <2>4. SumFunctionOnSet(g, {h[a] : a \in A}) = SumFunctionOnSet(f, A)
      BY <2>3, SumRenamed
    <2> QED BY <2>4 DEF A
  <1>4. \A b \in 0 .. n + 1 : g[b] \in Int
    <2> SUFFICES ASSUME NEW b \in 0 .. n + 1 PROVE g[b] \in Int
      OBVIOUS
    <2>1. b = 0 \/ (b - 1 \in 0 .. n /\ b = (b - 1) + 1)
      OBVIOUS
    <2> QED BY <2>1
  <1>5. 0 \in 0 .. n + 1
    OBVIOUS
  <1> DEFINE T == 0 .. n + 1
  <1>6. SumFunctionOnSet(g, T) = g[0] + SumFunctionOnSet(g, T \ {0})
    <2>1. IsFiniteSet(T) /\ (\A b \in T : g[b] \in Int) /\ 0 \in T
      BY <1>1, <1>4, <1>5
    <2> HIDE DEF T, h
    <2> QED BY <2>1, SumRemove
  <1>7. SumFunctionOnSet(g, T \ {0}) = SumFunctionOnSet(f, 0 .. n)
    BY <1>2, <1>3, Zenon
  <1>8. SumFunctionOnSet(f, 0 .. n) \in Int
    BY <1>1, SumInt
  <1>9. SumFunctionOnSet(g, T) = SumFunctionOnSet(f, 0 .. n)
    <2> HIDE DEF T, h
    <2> QED BY <1>6, <1>7, <1>8
  <1> QED BY <1>9

-----------------------------------------------------------------------------
(* Slots of time.                                                          *)

\* Quotient and remainder.
LEMMA Division ==
  ASSUME NEW x \in Nat, NEW n \in Nat \ {0}
  PROVE  /\ x \div n \in Nat /\ x % n \in 0 .. n - 1
         /\ x = n * (x \div n) + (x % n)
  BY SMT

LEMMA DivisionInt ==
  ASSUME NEW x \in Int, NEW n \in Nat \ {0}
  PROVE  /\ x \div n \in Int /\ x % n \in 0 .. n - 1
         /\ x = n * (x \div n) + (x % n)
  BY SMT

\* The remainder is the only one there is.
LEMMA RemainderIs ==
  ASSUME NEW x \in Int, NEW n \in Nat \ {0}, NEW q \in Int, NEW r \in 0 .. n - 1,
         x = n * q + r
  PROVE  x % n = r
  BY Z3

\* A tick later.
LEMMA NextRemainder ==
  ASSUME NEW x \in Nat, NEW n \in Nat \ {0}
  PROVE  (x + 1) % n = IF x % n = n - 1 THEN 0 ELSE (x % n) + 1
  <1> DEFINE q == x \div n
             r == x % n
  <1>1. q \in Nat /\ r \in 0 .. n - 1 /\ x = n * q + r
    BY Division
  <1> HIDE DEF q, r
  <1>2. CASE r = n - 1
    <2>1. x + 1 = n * (q + 1) + 0
      BY <1>1, <1>2
    <2>2. x + 1 \in Int /\ q + 1 \in Int /\ 0 \in 0 .. n - 1
      BY <1>1
    <2>3. (x + 1) % n = 0
      BY <2>1, <2>2, RemainderIs
    <2> QED BY <1>2, <2>3 DEF r
  <1>3. CASE r # n - 1
    <2>1. x + 1 = n * q + (r + 1)
      BY <1>1
    <2>2. x + 1 \in Int /\ q \in Int /\ r + 1 \in 0 .. n - 1
      BY <1>1, <1>3
    <2>3. (x + 1) % n = r + 1
      BY <2>1, <2>2, RemainderIs
    <2> QED BY <1>3, <2>3 DEF r
  <1> QED BY <1>2, <1>3

\* What divides the day divides the month.
LEMMA DividesThrough ==
  ASSUME NEW m \in Nat, NEW d \in Nat \ {0}, NEW s \in Nat \ {0}, m % d = 0, d % s = 0
  PROVE  m % s = 0
  <1> DEFINE a == m \div d
             b == d \div s
  <1>1. a \in Nat /\ m = d * a
    BY Division
  <1>2. b \in Nat /\ d = s * b
    BY Division
  <1> HIDE DEF a, b
  <1>3. m = s * (b * a) + 0
    <2>1. d * a = (s * b) * a
      BY <1>2
    <2>2. \A x, y, z \in Nat : (x * y) * z = x * (y * z)
      OBVIOUS
    <2> QED BY <1>1, <1>2, <2>1, <2>2
  <1>4. PICK q \in Int : q = b * a
    BY <1>1, <1>2
  <1>5. m = s * q + 0 /\ m \in Int /\ 0 \in 0 .. s - 1
    BY <1>3, <1>4
  <1> QED BY <1>5, RemainderIs

=============================================================================
