---------------------------- MODULE InductionFacts ----------------------------
(***************************************************************************)
(* Facts whose proofs are inductions, by a smallest counterexample: least  *)
(* naturals, smallest subsets, and sums over functions on finite sets      *)
(* (SumFunction of the community module Functions): that a sum is what its *)
(* recursion says, whichever elements CHOOSE takes first, and how it       *)
(* changes with the function.  Then induction up to a number (UpTo), and   *)
(* that what is defined step by step along the naturals exists             *)
(* (StepsExist).                                                           *)
(***************************************************************************)
EXTENDS Functions, FiniteSetTheorems, TLAPS

\* A set of naturals has a least one, if it has any.
LEMMA FirstOne ==
    ASSUME NEW B \in SUBSET Nat, B # {}
    PROVE  \E m \in B : \A k \in B : m <= k
<1> DEFINE R == OpToRel(<, Nat)
<1>1. IsWellFoundedOn(R, Nat)
  BY NatLessThanWellFounded
<1>2. PICK m \in B : \A k \in B : <<k, m>> \notin R
  <2> HIDE DEF R
  <2> QED
    BY <1>1, WFMin
<1>3. ASSUME NEW k \in B
      PROVE  m <= k
  <2>1. ~(k < m)
    BY <1>2 DEF OpToRel
  <2> QED
    BY <2>1
<1> QED
  BY <1>3

\* A set of subsets of a finite set has a smallest member, if it has any.
LEMMA SmallestSubset ==
    ASSUME NEW S, IsFiniteSet(S), NEW B \in SUBSET (SUBSET S), B # {}
    PROVE  \E T \in B : \A U \in SUBSET T : U # T => U \notin B
<1> DEFINE R == StrictSubsetOrdering(S)
<1>1. IsWellFoundedOn(R, SUBSET S)
  BY FS_StrictSubsetOrderingWellFounded, FS_FiniteSubsetsOfFinite
<1>2. PICK T \in B : \A U \in B : <<U, T>> \notin R
  <2> HIDE DEF R
  <2> QED
    BY <1>1, WFMin, Zenon
<1>3. ASSUME NEW U \in SUBSET T, U # T, U \in B
      PROVE  FALSE
  BY <1>2, <1>3 DEF StrictSubsetOrdering
<1> QED
  BY <1>3

\* What holds of 0 and passes from each number to the next holds up to n.
LEMMA UpTo ==
    ASSUME NEW n \in Nat, NEW P, 0 \in P, \A i \in 1..n : i-1 \in P => i \in P
    PROVE  \A i \in 0..n : i \in P
<1> DEFINE B == {i \in 0..n : i \notin P}
<1> SUFFICES ASSUME B # {} PROVE FALSE
  OBVIOUS
<1>1. PICK m \in B : \A k \in B : m <= k
  <2>1. B \in SUBSET Nat
    OBVIOUS
  <2> HIDE DEF B
  <2> QED
    BY <2>1, FirstOne
<1>2. m \in 1..n /\ m-1 \in 0..n /\ ~(m <= m-1)
  OBVIOUS
<1>3. m-1 \in P
  BY <1>1, <1>2
<1> QED
  BY <1>2, <1>3

\* A sequence of steps of any length can be taken from any start: the functions
\* that the models define by recursion on a natural number exist.
Iterates(f, X, x, n, Step) ==
    /\ f \in [0..n -> X]
    /\ f[0] = x
    /\ \A i \in 1..n : f[i] = Step[<<f[i-1], i>>]

LEMMA StepsExist ==
    ASSUME NEW X, NEW x \in X, NEW n \in Nat, NEW Step \in [X \X (1..n) -> X]
    PROVE  \E f : Iterates(f, X, x, n, Step)
<1> DEFINE Run(k, f) == f[0] = x /\ \A i \in 1..k : f[i] = Step[<<f[i-1], i>>]
           P == {k \in 0..n : \E f \in [0..k -> X] : Run(k, f)}
<1>1. 0 \in P
  <2>1. Run(0, [i \in 0..0 |-> x])
    OBVIOUS
  <2>2. [i \in 0..0 |-> x] \in [0..0 -> X]
    OBVIOUS
  <2> HIDE DEF Run
  <2> QED
    BY <2>1, <2>2
<1>2. ASSUME NEW k \in 1..n, k-1 \in P
      PROVE  k \in P
  <2>1. PICK g \in [0..(k-1) -> X] : Run(k-1, g)
    BY <1>2
  <2> DEFINE f == [i \in 0..k |-> IF i = k THEN Step[<<g[k-1], k>>] ELSE g[i]]
  <2>2. k-1 \in 0..(k-1) /\ <<g[k-1], k>> \in X \X (1..n)
    OBVIOUS
  <2>3. Step[<<g[k-1], k>>] \in X
    BY <2>2
  <2>4. f \in [0..k -> X]
    BY <2>3
  <2>5. f[0] = x
    BY <2>1
  <2>6. ASSUME NEW i \in 1..k
        PROVE  f[i] = Step[<<f[i-1], i>>]
    <3>1. f[i-1] = g[i-1] /\ i-1 \in 0..k-1
      OBVIOUS
    <3>2. CASE i = k
      <4>1. f[k] = Step[<<g[k-1], k>>] /\ f[k-1] = g[k-1]
        OBVIOUS
      <4> HIDE DEF f
      <4> QED
        BY <3>2, <4>1
    <3>3. CASE i # k
      <4>1. i \in 1..(k-1) /\ f[i] = g[i]
        BY <3>3
      <4> HIDE DEF f
      <4> QED
        BY <2>1, <3>1, <4>1
    <3> QED
      BY <3>2, <3>3
  <2>7. Run(k, f)
    BY <2>5, <2>6
  <2> HIDE DEF f, Run
  <2> QED
    BY <2>4, <2>7
<1>3. n \in P
  <2> HIDE DEF P
  <2> QED
    BY <1>1, <1>2, UpTo
<1>4. PICK f \in [0..n -> X] : Run(n, f)
  <2> HIDE DEF Run
  <2> QED
    BY <1>3
<1> HIDE DEF P
<1> QED
  BY <1>4 DEF Iterates

-----------------------------------------------------------------------------
(* The recursion behind SumFunctionOnSet.                                  *)

Pick(s) == CHOOSE x \in s : TRUE
Adds(f, S, g) ==
    g = [s \in SUBSET S |-> IF s = {} THEN 0 ELSE f[Pick(s)] + g[s \ {Pick(s)}]]
Total(f, S) == CHOOSE g : Adds(f, S, g)

\* The fold takes the elements of a set in the order of CHOOSE.
LEMMA SumIsTotal ==
    ASSUME NEW f, NEW S
    PROVE  SumFunctionOnSet(f, S) = Total(f, S)[S]
BY DEF SumFunctionOnSet, FoldFunctionOnSet, MapThenFoldSet, Total, Adds, Pick
\* CHOOSE takes an element of the set.
LEMMA PickType == ASSUME NEW s, s # {} PROVE Pick(s) \in s
BY DEF Pick

\* Two functions that add up agree where both are defined.
LEMMA AddsUnique ==
    ASSUME NEW f, NEW S, IsFiniteSet(S), NEW T \in SUBSET S, NEW g, NEW h,
           Adds(f, S, g), Adds(f, T, h)
    PROVE  \A s \in SUBSET T : g[s] = h[s]
<1> DEFINE B == {s \in SUBSET T : g[s] # h[s]}
<1> SUFFICES ASSUME B # {} PROVE FALSE
  OBVIOUS
<1>1. IsFiniteSet(T)
  BY FS_Subset
<1>2. PICK s \in B : \A u \in SUBSET s : u # s => u \notin B
  <2>1. B \in SUBSET (SUBSET T)
    OBVIOUS
  <2> HIDE DEF B
  <2> QED
    BY <1>1, <2>1, SmallestSubset
<1>3. s \in SUBSET T /\ s \in SUBSET S
  OBVIOUS
<1>4. CASE s = {}
  BY <1>3, <1>4 DEF Adds
<1>5. CASE s # {}
  <2>1. s \ {Pick(s)} \in SUBSET s /\ s \ {Pick(s)} # s
    BY <1>5, PickType
  <2>2. g[s \ {Pick(s)}] = h[s \ {Pick(s)}]
    BY <1>2, <1>3, <2>1
  <2>3. g[s] = f[Pick(s)] + g[s \ {Pick(s)}] /\ h[s] = f[Pick(s)] + h[s \ {Pick(s)}]
    BY <1>3, <1>5 DEF Adds
  <2> QED
    BY <2>2, <2>3
<1> QED
  BY <1>4, <1>5

\* There is such a function on every finite set: it takes the values of those
\* on smaller sets.
LEMMA AddsExists ==
    ASSUME NEW f, NEW S, IsFiniteSet(S)
    PROVE  Adds(f, S, Total(f, S))
<1> DEFINE B == {T \in SUBSET S : ~Adds(f, T, Total(f, T))}
<1> SUFFICES ASSUME B # {} PROVE FALSE
  OBVIOUS
<1>1. PICK T \in B : \A U \in SUBSET T : U # T => U \notin B
  <2>1. B \in SUBSET (SUBSET S)
    OBVIOUS
  <2> HIDE DEF B
  <2> QED
    BY <2>1, SmallestSubset
<1>2. T \in SUBSET S /\ ~Adds(f, T, Total(f, T))
  OBVIOUS
<1>3. ASSUME NEW U \in SUBSET T, U # T
      PROVE  IsFiniteSet(U) /\ Adds(f, U, Total(f, U))
  BY <1>1, <1>2, <1>3, FS_Subset
<1> HIDE DEF B
<1> DEFINE Less(s) == s \ {Pick(s)}
           G == [s \in SUBSET T |->
                    IF s = {} THEN 0 ELSE f[Pick(s)] + Total(f, Less(s))[Less(s)]]
<1>4. ASSUME NEW s \in SUBSET T, s # {}
      PROVE  Less(s) \in SUBSET T /\ Less(s) # T
  BY <1>4, PickType
<1>5. ASSUME NEW u \in SUBSET T, u # T
      PROVE  G[u] = Total(f, u)[u]
  <2>1. IsFiniteSet(u) /\ Adds(f, u, Total(f, u))
    BY <1>3, <1>5
  <2>2. CASE u = {}
    <3>1. Total(f, u)[u] = 0
      BY <2>1, <2>2 DEF Adds
    <3> QED
      BY <2>2, <3>1
  <2>3. CASE u # {}
    <3>1. Less(u) \in SUBSET u /\ Less(u) \in SUBSET T /\ Less(u) # T
      BY <1>4, <2>3
    <3>2. Adds(f, Less(u), Total(f, Less(u)))
      BY <1>3, <3>1
    <3>3. Total(f, u)[u] = f[Pick(u)] + Total(f, u)[Less(u)]
      BY <2>1, <2>3 DEF Adds
    <3>4. Total(f, u)[Less(u)] = Total(f, Less(u))[Less(u)]
      <4>1. Less(u) \in SUBSET Less(u)
        OBVIOUS
      <4> HIDE DEF Less
      <4> QED
        BY <2>1, <3>1, <3>2, <4>1, AddsUnique
    <3>5. G[u] = f[Pick(u)] + Total(f, Less(u))[Less(u)]
      BY <2>3
    <3> HIDE DEF Less, G
    <3> QED
      BY <3>3, <3>4, <3>5
  <2> QED
    BY <2>2, <2>3
<1>6. Adds(f, T, G)
  <2>1. ASSUME NEW s \in SUBSET T, s # {}
        PROVE  G[s] = f[Pick(s)] + G[Less(s)]
    <3>1. G[s] = f[Pick(s)] + Total(f, Less(s))[Less(s)]
      BY <2>1
    <3>2. G[Less(s)] = Total(f, Less(s))[Less(s)]
      <4>1. Less(s) \in SUBSET T /\ Less(s) # T
        BY <1>4, <2>1
      <4> HIDE DEF Less, G
      <4> QED
        BY <1>5, <4>1
    <3> HIDE DEF Less, G
    <3> QED
      BY <3>1, <3>2
  <2>2. {} \in SUBSET T => G[{}] = 0
    OBVIOUS
  <2>3. G = [s \in SUBSET T |-> G[s]]
    OBVIOUS
  <2> DEFINE V(s) == IF s = {} THEN 0 ELSE f[Pick(s)] + G[s \ {Pick(s)}]
  <2>4. \A s \in SUBSET T : G[s] = V(s)
    <3> HIDE DEF G
    <3> QED
      BY <2>1, <2>2
  <2>5. G = [s \in SUBSET T |-> V(s)]
    <3> HIDE DEF G, V
    <3> QED
      BY <2>3, <2>4
  <2> HIDE DEF G
  <2> QED
    BY <2>5 DEF Adds
<1> QED
  <2> HIDE DEF G
  <2> QED
    BY <1>2, <1>6 DEF Total
-----------------------------------------------------------------------------
(* What a sum is, element by element.                                      *)

\* Nothing adds up to nothing.
LEMMA SumEmpty == ASSUME NEW f PROVE SumFunctionOnSet(f, {}) = 0
<1>1. Adds(f, {}, Total(f, {}))
  BY AddsExists, FS_EmptySet
<1>2. Total(f, {})[{}] = 0
  BY <1>1 DEF Adds
<1> QED
  BY <1>2, SumIsTotal

\* The element that is taken first, and the sum over the others.
LEMMA SumPick ==
    ASSUME NEW f, NEW S, IsFiniteSet(S), S # {}
    PROVE  SumFunctionOnSet(f, S) = f[Pick(S)] + SumFunctionOnSet(f, S \ {Pick(S)})
<1> DEFINE T == S \ {Pick(S)}
<1>1. T \in SUBSET S /\ IsFiniteSet(T)
  BY FS_Subset
<1>2. Adds(f, S, Total(f, S)) /\ Adds(f, T, Total(f, T))
  <2> HIDE DEF T
  <2> QED
    BY <1>1, AddsExists
<1>3. Total(f, S)[S] = f[Pick(S)] + Total(f, S)[T]
  BY <1>2 DEF Adds
<1>4. Total(f, S)[T] = Total(f, T)[T]
  <2> HIDE DEF T
  <2>1. T \in SUBSET T
    OBVIOUS
  <2> QED
    BY <1>1, <1>2, <2>1, AddsUnique
<1>5. SumFunctionOnSet(f, S) = Total(f, S)[S] /\ SumFunctionOnSet(f, T) = Total(f, T)[T]
  BY SumIsTotal
<1> HIDE DEF T
<1>6. SumFunctionOnSet(f, S) = f[Pick(S)] + SumFunctionOnSet(f, T)
  BY <1>3, <1>4, <1>5
<1> QED
  BY <1>6 DEF T

\* A sum of naturals is a natural.
LEMMA SumType ==
    ASSUME NEW S, IsFiniteSet(S), NEW f, \A x \in S : f[x] \in Nat
    PROVE  SumFunctionOnSet(f, S) \in Nat
<1> DEFINE B == {T \in SUBSET S : SumFunctionOnSet(f, T) \notin Nat}
<1> SUFFICES ASSUME B # {} PROVE FALSE
  OBVIOUS
<1>1. PICK T \in B : \A U \in SUBSET T : U # T => U \notin B
  <2>1. B \in SUBSET (SUBSET S)
    OBVIOUS
  <2> HIDE DEF B
  <2> QED
    BY <2>1, SmallestSubset
<1>2. T \in SUBSET S /\ IsFiniteSet(T) /\ SumFunctionOnSet(f, T) \notin Nat
  BY FS_Subset
<1>3. T # {}
  BY <1>2, SumEmpty
<1>4. /\ Pick(T) \in S
      /\ T \ {Pick(T)} \in SUBSET T /\ T \ {Pick(T)} \in SUBSET S /\ T \ {Pick(T)} # T
  BY <1>2, <1>3, PickType
<1>5. SumFunctionOnSet(f, T \ {Pick(T)}) \in Nat
  BY <1>1, <1>4
<1>6. SumFunctionOnSet(f, T) = f[Pick(T)] + SumFunctionOnSet(f, T \ {Pick(T)})
  BY <1>2, <1>3, SumPick
<1> QED
  <2> HIDE DEF B
  <2> QED
    BY <1>2, <1>4, <1>5, <1>6

\* Zeros add up to zero.
LEMMA SumZero ==
    ASSUME NEW S, IsFiniteSet(S), NEW f, \A x \in S : f[x] = 0
    PROVE  SumFunctionOnSet(f, S) = 0
<1> DEFINE B == {T \in SUBSET S : SumFunctionOnSet(f, T) # 0}
<1> SUFFICES ASSUME B # {} PROVE FALSE
  OBVIOUS
<1>1. PICK T \in B : \A U \in SUBSET T : U # T => U \notin B
  <2>1. B \in SUBSET (SUBSET S)
    OBVIOUS
  <2> HIDE DEF B
  <2> QED
    BY <2>1, SmallestSubset
<1>2. T \in SUBSET S /\ IsFiniteSet(T) /\ SumFunctionOnSet(f, T) # 0
  BY FS_Subset
<1>3. T # {}
  BY <1>2, SumEmpty
<1>4. /\ Pick(T) \in S
      /\ T \ {Pick(T)} \in SUBSET T /\ T \ {Pick(T)} \in SUBSET S /\ T \ {Pick(T)} # T
  BY <1>2, <1>3, PickType
<1>5. SumFunctionOnSet(f, T \ {Pick(T)}) = 0
  BY <1>1, <1>4
<1>6. SumFunctionOnSet(f, T) = f[Pick(T)] + SumFunctionOnSet(f, T \ {Pick(T)})
  BY <1>2, <1>3, SumPick
<1> QED
  BY <1>2, <1>4, <1>5, <1>6

\* Any element can be taken first.
LEMMA SumRemove ==
    ASSUME NEW S, IsFiniteSet(S), NEW f, \A x \in S : f[x] \in Nat, NEW a \in S
    PROVE  SumFunctionOnSet(f, S) = f[a] + SumFunctionOnSet(f, S \ {a})
<1> DEFINE P(T) == \A x \in T :
                       SumFunctionOnSet(f, T) = f[x] + SumFunctionOnSet(f, T \ {x})
           B == {T \in SUBSET S : ~P(T)}
<1> SUFFICES ASSUME B # {} PROVE FALSE
  OBVIOUS
<1>1. PICK T \in B : \A U \in SUBSET T : U # T => U \notin B
  <2>1. B \in SUBSET (SUBSET S)
    OBVIOUS
  <2> HIDE DEF B
  <2> QED
    BY <2>1, SmallestSubset
<1>2. T \in SUBSET S /\ IsFiniteSet(T)
  BY FS_Subset
<1>3. PICK x \in T : SumFunctionOnSet(f, T) # f[x] + SumFunctionOnSet(f, T \ {x})
  OBVIOUS
<1>4. ASSUME NEW U \in SUBSET T, U # T
      PROVE  P(U)
  BY <1>1, <1>2, <1>4
<1> HIDE DEF B, P
<1> DEFINE y == Pick(T)
           sum(U) == SumFunctionOnSet(f, U)
<1>5. y \in T
  BY <1>3, PickType
<1>6. sum(T) = f[y] + sum(T \ {y})
  BY <1>2, <1>3, SumPick
<1>7. x # y
  BY <1>3, <1>6
<1>8. sum(T \ {y}) = f[x] + sum((T \ {y}) \ {x})
  <2>1. P(T \ {y})
    BY <1>4, <1>5
  <2> QED
    BY <1>7, <2>1 DEF P
<1>9. sum(T \ {x}) = f[y] + sum((T \ {x}) \ {y})
  <2>1. P(T \ {x})
    BY <1>4
  <2> QED
    BY <1>5, <1>7, <2>1 DEF P
<1>10. (T \ {x}) \ {y} = (T \ {y}) \ {x}
  OBVIOUS
<1>11. sum((T \ {y}) \ {x}) \in Nat /\ f[x] \in Nat /\ f[y] \in Nat
  <2>1. (T \ {y}) \ {x} \in SUBSET T
    OBVIOUS
  <2>2. IsFiniteSet((T \ {y}) \ {x})
    BY <1>2, <2>1, FS_Subset
  <2> QED
    BY <1>2, <1>5, <2>2, SumType
<1>12. sum(T) # f[x] + sum(T \ {x})
  BY <1>3
<1> HIDE DEF y, sum
<1> QED
  BY <1>6, <1>8, <1>9, <1>10, <1>11, <1>12

-----------------------------------------------------------------------------
(* How a sum changes with the function.                                    *)

\* A function that is one more on the elements of C has a sum that is larger by
\* their number.
LEMMA SumCounts ==
    ASSUME NEW S, IsFiniteSet(S), NEW C \in SUBSET S, NEW f, \A x \in S : f[x] \in Nat,
           NEW g, \A x \in S : g[x] = IF x \in C THEN f[x] + 1 ELSE f[x]
    PROVE  SumFunctionOnSet(g, S) = SumFunctionOnSet(f, S) + Cardinality(C)
<1> DEFINE P(T) == SumFunctionOnSet(g, T) = SumFunctionOnSet(f, T) + Cardinality(C \cap T)
           B == {T \in SUBSET S : ~P(T)}
<1>0. SUFFICES ASSUME B # {} PROVE FALSE
  <2>1. P(S)
    OBVIOUS
  <2>2. C \cap S = C
    OBVIOUS
  <2> QED
    BY <2>1, <2>2
<1>1. PICK T \in B : \A U \in SUBSET T : U # T => U \notin B
  <2>1. B \in SUBSET (SUBSET S)
    OBVIOUS
  <2> HIDE DEF B
  <2> QED
    BY <1>0, <2>1, SmallestSubset
<1>2. T \in SUBSET S /\ IsFiniteSet(T) /\ ~P(T)
  BY FS_Subset
<1>3. T # {}
  <2>1. C \cap {} = {}
    OBVIOUS
  <2>2. P({})
    BY <2>1, SumEmpty, FS_EmptySet
  <2> HIDE DEF P, B
  <2> QED
    BY <1>2, <2>2
<1> DEFINE y == Pick(T)
           U == T \ {y}
<1>4. y \in T /\ y \in S /\ U \in SUBSET T /\ U \in SUBSET S /\ U # T
  BY <1>2, <1>3, PickType
<1>5. P(U)
  BY <1>1, <1>4
<1>6. /\ SumFunctionOnSet(f, T) = f[y] + SumFunctionOnSet(f, U)
      /\ SumFunctionOnSet(g, T) = g[y] + SumFunctionOnSet(g, U)
  BY <1>2, <1>3, SumPick
<1>7. IsFiniteSet(U) /\ IsFiniteSet(C \cap U)
  <2>1. C \cap U \in SUBSET S
    BY <1>4
  <2> QED
    BY <1>4, <2>1, FS_Subset
<1>8. Cardinality(C \cap T) = Cardinality(C \cap U) + (IF y \in C THEN 1 ELSE 0)
  <2>1. y \notin C \cap U
    OBVIOUS
  <2>2. CASE y \in C
    <3>1. C \cap T = (C \cap U) \cup {y}
      BY <1>4, <2>2
    <3> HIDE DEF U, y
    <3> QED
      BY <1>7, <2>1, <2>2, <3>1, FS_AddElement
  <2>3. CASE y \notin C
    <3>1. C \cap T = C \cap U
      BY <2>3
    <3>2. Cardinality(C \cap U) \in Nat
      BY <1>7, FS_CardinalityType
    <3> HIDE DEF U, y
    <3> QED
      BY <2>3, <3>1, <3>2
  <2> QED
    BY <2>2, <2>3
<1>9. SumFunctionOnSet(f, U) \in Nat /\ Cardinality(C \cap U) \in Nat /\ f[y] \in Nat
  <2>1. \A x \in U : f[x] \in Nat
    BY <1>4
  <2> HIDE DEF U, y
  <2> QED
    BY <1>4, <1>7, <2>1, SumType, FS_CardinalityType
<1>10. SumFunctionOnSet(g, U) = SumFunctionOnSet(f, U) + Cardinality(C \cap U)
  BY <1>5
<1>11. SumFunctionOnSet(g, T) # SumFunctionOnSet(f, T) + Cardinality(C \cap T)
  BY <1>2
<1>12. g[y] = IF y \in C THEN f[y] + 1 ELSE f[y]
  BY <1>4
<1> HIDE DEF U, y, B, P
<1> QED
  BY <1>6, <1>8, <1>9, <1>10, <1>11, <1>12

\* The sum grows with the function.
LEMMA SumMonotone ==
    ASSUME NEW S, IsFiniteSet(S), NEW f, NEW g,
           \A x \in S : f[x] \in Nat /\ g[x] \in Nat /\ f[x] <= g[x]
    PROVE  SumFunctionOnSet(f, S) <= SumFunctionOnSet(g, S)
<1> DEFINE P(T) == SumFunctionOnSet(f, T) <= SumFunctionOnSet(g, T)
           B == {T \in SUBSET S : ~P(T)}
<1>0. SUFFICES ASSUME B # {} PROVE FALSE
  OBVIOUS
<1>1. PICK T \in B : \A U \in SUBSET T : U # T => U \notin B
  <2>1. B \in SUBSET (SUBSET S)
    OBVIOUS
  <2> HIDE DEF B
  <2> QED
    BY <1>0, <2>1, SmallestSubset
<1>2. T \in SUBSET S /\ IsFiniteSet(T) /\ ~P(T)
  BY FS_Subset
<1>3. T # {}
  <2>1. P({})
    BY SumEmpty
  <2> HIDE DEF P, B
  <2> QED
    BY <1>2, <2>1
<1> DEFINE y == Pick(T)
           U == T \ {y}
<1>4. y \in T /\ y \in S /\ U \in SUBSET T /\ U \in SUBSET S /\ U # T /\ IsFiniteSet(U)
  BY <1>2, <1>3, PickType, FS_Subset
<1>5. P(U)
  BY <1>1, <1>4
<1>6. /\ SumFunctionOnSet(f, T) = f[y] + SumFunctionOnSet(f, U)
      /\ SumFunctionOnSet(g, T) = g[y] + SumFunctionOnSet(g, U)
  BY <1>2, <1>3, SumPick
<1>7. SumFunctionOnSet(f, U) \in Nat /\ SumFunctionOnSet(g, U) \in Nat
  <2>1. \A x \in U : f[x] \in Nat /\ g[x] \in Nat
    BY <1>4
  <2> HIDE DEF U, y
  <2> QED
    BY <1>4, <2>1, SumType
<1>8. /\ f[y] \in Nat /\ g[y] \in Nat /\ f[y] <= g[y]
      /\ SumFunctionOnSet(f, U) <= SumFunctionOnSet(g, U)
      /\ ~(SumFunctionOnSet(f, T) <= SumFunctionOnSet(g, T))
  BY <1>2, <1>4, <1>5
<1> HIDE DEF U, y, B, P
<1> QED
  BY <1>6, <1>7, <1>8
=============================================================================
