----------------------------- MODULE SumTheorems ----------------------------
(***************************************************************************)
(* What a sum over a finite set is: SumFunctionOnSet of the community      *)
(* modules, a recursive function on the subsets of the set, satisfies its  *)
(* recursion, whichever element is taken out first.                        *)
(***************************************************************************)
EXTENDS Integers, Functions, FiniteSetTheorems, TLAPS

\* Induction over the subsets of a finite set, for a set C of them: the
\* least subset outside C would have an element to take out.
LEMMA SubsetInduction ==
  ASSUME NEW S, IsFiniteSet(S), NEW C, {} \in C,
         \A T \in SUBSET S : \A x \in S \ T : T \in C => T \cup {x} \in C
  PROVE  S \in C
<1> DEFINE Out == {T \in SUBSET S : T \notin C}
<1>1. IsWellFoundedOn(StrictSubsetOrdering(S), FiniteSubsetsOf(S))
  BY FS_StrictSubsetOrderingWellFounded
<1>2. FiniteSubsetsOf(S) = SUBSET S
  BY FS_FiniteSubsetsOfFinite
<1>3. SUFFICES ASSUME Out # {} PROVE FALSE
  OBVIOUS
<1>4. PICK T \in Out : \A U \in Out : ~(<<U, T>> \in StrictSubsetOrdering(S))
  <2>1. Out \subseteq FiniteSubsetsOf(S)
    BY <1>2
  <2> HIDE DEF Out
  <2>2. QED
    BY <1>1, <1>3, <2>1, WFMin
<1>5. PICK x \in T : TRUE
  OBVIOUS
<1>6. <<T \ {x}, T>> \in StrictSubsetOrdering(S)
  BY DEF StrictSubsetOrdering
<1>7. T \ {x} \in C
  BY <1>4, <1>6
<1>8. (T \ {x}) \cup {x} = T
  OBVIOUS
<1>9. QED
  BY <1>7, <1>8

\* What it is to be the sum of f over every subset of S.
IsSumOf(F, f, S) ==
  /\ F \in [SUBSET S -> Int] /\ F[{}] = 0
  /\ \A T \in SUBSET S : \A x \in T : F[T] = f[x] + F[T \ {x}]

LEMMA SumExists ==
  ASSUME NEW S, IsFiniteSet(S), NEW f, \A x \in S : f[x] \in Int
  PROVE  \E F : IsSumOf(F, f, S)
<1> DEFINE C == {T \in SUBSET S : \E F : IsSumOf(F, f, T)}
<1>1. {} \in C
  <2>1. IsSumOf([T \in {{}} |-> 0], f, {})
    BY DEF IsSumOf
  <2>2. QED
    BY <2>1
<1>2. ASSUME NEW T \in SUBSET S, NEW x \in S \ T, T \in C PROVE T \cup {x} \in C
  <2>1. PICK F : IsSumOf(F, f, T)
    BY <1>2
  <2> DEFINE G == [U \in SUBSET (T \cup {x}) |->
                     IF x \in U THEN f[x] + F[U \ {x}] ELSE F[U]]
  <2>2. G \in [SUBSET (T \cup {x}) -> Int] /\ G[{}] = 0
    BY <2>1 DEF IsSumOf
  <2>3. ASSUME NEW U \in SUBSET (T \cup {x}), NEW y \in U
        PROVE  G[U] = f[y] + G[U \ {y}]
    <3>0. \A V \in SUBSET T : F[V] \in Int
      BY <2>1 DEF IsSumOf
    <3>1. CASE y = x
      BY <3>1
    <3>2. CASE y # x /\ x \in U
      <4>1. /\ G[U] = f[x] + F[U \ {x}] /\ G[U \ {y}] = f[x] + F[(U \ {y}) \ {x}]
            /\ U \ {x} \in SUBSET T /\ y \in U \ {x}
        BY <3>2
      <4>2. F[U \ {x}] = f[y] + F[(U \ {x}) \ {y}]
        BY <2>1, <4>1 DEF IsSumOf
      <4>3. (U \ {x}) \ {y} = (U \ {y}) \ {x}
        OBVIOUS
      <4>4. F[(U \ {y}) \ {x}] \in Int /\ f[x] \in Int /\ f[y] \in Int
        BY <3>0
      <4>5. G[U \ {y}] = f[x] + F[(U \ {x}) \ {y}]
        BY <4>1, <4>3
      <4>6. F[(U \ {x}) \ {y}] \in Int
        BY <4>3, <4>4
      <4> HIDE DEF G
      <4>7. QED
        BY <4>1, <4>2, <4>4, <4>5, <4>6
    <3>3. CASE x \notin U
      BY <2>1, <3>3 DEF IsSumOf
    <3>4. QED
      BY <3>1, <3>2, <3>3
  <2>4. IsSumOf(G, f, T \cup {x})
    BY <2>2, <2>3 DEF IsSumOf
  <2>5. QED
    BY <2>4
<1> HIDE DEF C
<1>3. S \in C
  BY <1>1, <1>2, SubsetInduction
<1>4. QED
  BY <1>3 DEF C

\* The recursion of the fold behind SumFunctionOnSet has that solution alone.
LEMMA FoldIsSum ==
  ASSUME NEW S, IsFiniteSet(S), NEW f, NEW F, IsSumOf(F, f, S)
  PROVE  SumFunctionOnSet(f, S) = F[S]
<1> DEFINE first(T) == CHOOSE x \in T : TRUE
           Step(g) == [T \in SUBSET S |->
                         IF T = {} THEN 0 ELSE f[first(T)] + g[T \ {first(T)}]]
           iter == CHOOSE g : g = Step(g)
<1>1. SumFunctionOnSet(f, S) = iter[S]
  BY DEF SumFunctionOnSet, FoldFunctionOnSet, MapThenFoldSet
<1>2. \A T \in SUBSET S : T # {} => first(T) \in T
  OBVIOUS
<1> HIDE DEF first
<1>3. F = Step(F)
  BY <1>2 DEF IsSumOf
<1>4. iter = Step(iter)
  <2> HIDE DEF Step
  <2>1. QED
    BY <1>3
<1>5. \A T \in SUBSET S :
        iter[T] = IF T = {} THEN 0 ELSE f[first(T)] + iter[T \ {first(T)}]
  <2> HIDE DEF iter
  <2>1. QED
    BY <1>4
<1> HIDE DEF iter
<1> DEFINE Differ == {T \in SUBSET S : iter[T] # F[T]}
<1>6. SUFFICES ASSUME Differ # {} PROVE FALSE
  BY <1>1
<1>7. PICK T \in Differ : \A U \in Differ : ~(<<U, T>> \in StrictSubsetOrdering(S))
  <2>1. Differ \subseteq FiniteSubsetsOf(S)
    BY FS_FiniteSubsetsOfFinite
  <2> HIDE DEF Differ
  <2>2. QED
    BY <1>6, <2>1, WFMin, FS_StrictSubsetOrderingWellFounded
<1>8. T # {}
  BY <1>5 DEF IsSumOf
<1>9. first(T) \in T /\ T \ {first(T)} \in SUBSET S
  BY <1>2, <1>8
<1>10. <<T \ {first(T)}, T>> \in StrictSubsetOrdering(S)
  BY <1>9 DEF StrictSubsetOrdering
<1>11. iter[T \ {first(T)}] = F[T \ {first(T)}]
  BY <1>7, <1>9, <1>10
<1>12. iter[T] = f[first(T)] + iter[T \ {first(T)}]
  BY <1>5, <1>8
<1>13. F[T] = f[first(T)] + F[T \ {first(T)}]
  BY <1>9 DEF IsSumOf
<1>14. QED
  BY <1>11, <1>12, <1>13

-----------------------------------------------------------------------------
\* The facts to cite: the empty sum, the type, and taking an element out.
LEMMA SumRecursion ==
  ASSUME NEW S, IsFiniteSet(S), NEW f, \A x \in S : f[x] \in Int
  PROVE  /\ SumFunctionOnSet(f, {}) = 0
         /\ \A T \in SUBSET S :
              /\ SumFunctionOnSet(f, T) \in Int
              /\ \A x \in T :
                   SumFunctionOnSet(f, T) = f[x] + SumFunctionOnSet(f, T \ {x})
<1>1. PICK F : IsSumOf(F, f, S)
  BY SumExists
<1>2. ASSUME NEW T \in SUBSET S PROVE SumFunctionOnSet(f, T) = F[T]
  <2>1. IsFiniteSet(T)
    BY FS_Subset
  <2> DEFINE G == [U \in SUBSET T |-> F[U]]
  <2>2. G \in [SUBSET T -> Int] /\ G[{}] = 0
    BY <1>1 DEF IsSumOf
  <2>3. ASSUME NEW U \in SUBSET T, NEW x \in U PROVE G[U] = f[x] + G[U \ {x}]
    <3>1. U \in SUBSET S /\ G[U] = F[U] /\ G[U \ {x}] = F[U \ {x}]
      OBVIOUS
    <3> HIDE DEF G
    <3>2. QED
      BY <1>1, <3>1 DEF IsSumOf
  <2> HIDE DEF G
  <2>4. IsSumOf(G, f, T)
    BY <2>2, <2>3 DEF IsSumOf
  <2>5. SumFunctionOnSet(f, T) = G[T]
    BY <2>1, <2>4, FoldIsSum
  <2>6. QED
    BY <2>5 DEF G
<1>3. \A T \in SUBSET S : \A x \in T : T \ {x} \in SUBSET S
  OBVIOUS
<1>4. QED
  BY <1>1, <1>2, <1>3 DEF IsSumOf

\* Functions that agree on a set have one sum over it.
LEMMA SumAgrees ==
  ASSUME NEW T, IsFiniteSet(T), NEW f, NEW g,
         \A x \in T : f[x] \in Int /\ f[x] = g[x]
  PROVE  SumFunctionOnSet(f, T) = SumFunctionOnSet(g, T)
<1> DEFINE C == {U \in SUBSET T : SumFunctionOnSet(f, U) = SumFunctionOnSet(g, U)}
<1>1. {} \in C
  BY SumRecursion
<1>2. ASSUME NEW U \in SUBSET T, NEW x \in T \ U, U \in C PROVE U \cup {x} \in C
  <2>1. (U \cup {x}) \ {x} = U /\ U \cup {x} \in SUBSET T
    OBVIOUS
  <2>2. SumFunctionOnSet(f, U \cup {x}) = f[x] + SumFunctionOnSet(f, U)
    BY <2>1, SumRecursion
  <2>3. SumFunctionOnSet(g, U \cup {x}) = g[x] + SumFunctionOnSet(g, U)
    BY <2>1, SumRecursion
  <2>4. QED
    BY <1>2, <2>2, <2>3
<1> HIDE DEF C
<1>3. T \in C
  BY <1>1, <1>2, SubsetInduction
<1>4. QED
  BY <1>3 DEF C

\* A value that changes at one point changes the sum by as much.
LEMMA SumChanges ==
  ASSUME NEW S, IsFiniteSet(S), NEW f, NEW g, NEW x \in S,
         \A y \in S : f[y] \in Int /\ g[y] \in Int,
         \A y \in S \ {x} : g[y] = f[y]
  PROVE  SumFunctionOnSet(g, S) = SumFunctionOnSet(f, S) - f[x] + g[x]
<1>1. SumFunctionOnSet(g, S \ {x}) = SumFunctionOnSet(f, S \ {x})
  BY FS_Subset, SumAgrees
<1>2. S \in SUBSET S /\ S \ {x} \in SUBSET S
  OBVIOUS
<1>3. /\ SumFunctionOnSet(f, S) = f[x] + SumFunctionOnSet(f, S \ {x})
      /\ SumFunctionOnSet(g, S) = g[x] + SumFunctionOnSet(g, S \ {x})
      /\ SumFunctionOnSet(f, S \ {x}) \in Int
  BY <1>2, SumRecursion
<1>4. f[x] \in Int /\ g[x] \in Int
  OBVIOUS
<1>5. QED
  BY <1>1, <1>3, <1>4

\* The sum of a sum.
LEMMA SumAdds ==
  ASSUME NEW S, IsFiniteSet(S), NEW f, NEW g, NEW h,
         \A x \in S : f[x] \in Int /\ g[x] \in Int /\ h[x] = f[x] + g[x]
  PROVE  SumFunctionOnSet(h, S) = SumFunctionOnSet(f, S) + SumFunctionOnSet(g, S)
<1> DEFINE C == {T \in SUBSET S :
                   SumFunctionOnSet(h, T) = SumFunctionOnSet(f, T) + SumFunctionOnSet(g, T)}
<1>1. {} \in C
  BY SumRecursion
<1>2. ASSUME NEW T \in SUBSET S, NEW x \in S \ T, T \in C PROVE T \cup {x} \in C
  <2>1. T \cup {x} \in SUBSET S /\ (T \cup {x}) \ {x} = T
    OBVIOUS
  <2>2. /\ SumFunctionOnSet(f, T \cup {x}) = f[x] + SumFunctionOnSet(f, T)
        /\ SumFunctionOnSet(f, T) \in Int
    BY <2>1, SumRecursion
  <2>3. /\ SumFunctionOnSet(g, T \cup {x}) = g[x] + SumFunctionOnSet(g, T)
        /\ SumFunctionOnSet(g, T) \in Int
    BY <2>1, SumRecursion
  <2>4. \A y \in S : h[y] \in Int
    OBVIOUS
  <2>5. SumFunctionOnSet(h, T \cup {x}) = h[x] + SumFunctionOnSet(h, T)
    BY <2>1, <2>4, SumRecursion
  <2>6. QED
    BY <1>2, <2>1, <2>2, <2>3, <2>5
<1> HIDE DEF C
<1>3. S \in C
  BY <1>1, <1>2, SubsetInduction
<1>4. QED
  BY <1>3 DEF C

\* The sum over a part is the sum over the whole of what is zero outside it.
LEMMA SumOfPart ==
  ASSUME NEW S, IsFiniteSet(S), NEW f, NEW g, NEW P \in SUBSET S,
         \A x \in S : f[x] \in Int /\ g[x] = IF x \in P THEN f[x] ELSE 0
  PROVE  SumFunctionOnSet(f, P) = SumFunctionOnSet(g, S)
<1> DEFINE C == {T \in SUBSET S : SumFunctionOnSet(f, P \cap T) = SumFunctionOnSet(g, T)}
<1>1. {} \in C
  BY SumRecursion
<1>2. ASSUME NEW T \in SUBSET S, NEW x \in S \ T, T \in C PROVE T \cup {x} \in C
  <2>1. SumFunctionOnSet(g, T \cup {x}) = g[x] + SumFunctionOnSet(g, T)
    <3>1. T \cup {x} \in SUBSET S /\ (T \cup {x}) \ {x} = T
      OBVIOUS
    <3>2. QED
      BY <3>1, SumRecursion
  <2>2. SumFunctionOnSet(g, T) \in Int
    BY SumRecursion
  <2>3. CASE x \in P
    <3>1. /\ (P \cap (T \cup {x})) \ {x} = P \cap T
          /\ P \cap (T \cup {x}) \in SUBSET S /\ x \in P \cap (T \cup {x})
      BY <2>3
    <3>2. SumFunctionOnSet(f, P \cap (T \cup {x})) = f[x] + SumFunctionOnSet(f, P \cap T)
      BY <3>1, SumRecursion
    <3>3. QED
      BY <1>2, <2>1, <2>3, <3>2
  <2>4. CASE x \notin P
    <3>1. P \cap (T \cup {x}) = P \cap T /\ g[x] = 0
      BY <2>4
    <3>2. SumFunctionOnSet(g, T \cup {x}) = SumFunctionOnSet(g, T)
      BY <2>1, <2>2, <3>1
    <3>3. SumFunctionOnSet(f, P \cap (T \cup {x})) = SumFunctionOnSet(g, T)
      BY <1>2, <3>1
    <3>4. QED
      BY <3>2, <3>3
  <2>5. QED
    BY <2>3, <2>4
<1> HIDE DEF C
<1>3. S \in C
  BY <1>1, <1>2, SubsetInduction
<1>4. P \cap S = P
  OBVIOUS
<1>5. QED
  BY <1>3, <1>4 DEF C

\* A sum of zeros.
LEMMA SumOfZeros ==
  ASSUME NEW S, IsFiniteSet(S), NEW f, \A x \in S : f[x] = 0
  PROVE  SumFunctionOnSet(f, S) = 0
<1>1. SumFunctionOnSet(f, {}) = SumFunctionOnSet(f, S)
  BY SumOfPart
<1>2. QED
  BY <1>1, SumRecursion

\* A sum of numbers none of which is negative.
LEMMA SumOfNats ==
  ASSUME NEW S, IsFiniteSet(S), NEW f, \A x \in S : f[x] \in Nat
  PROVE  /\ SumFunctionOnSet(f, S) \in Nat
         /\ \A x \in S : f[x] <= SumFunctionOnSet(f, S)
<1> DEFINE C == {T \in SUBSET S : SumFunctionOnSet(f, T) \in Nat}
<1>0. \A x \in S : f[x] \in Int
  OBVIOUS
<1>1. {} \in C
  BY <1>0, SumRecursion
<1>2. ASSUME NEW T \in SUBSET S, NEW x \in S \ T, T \in C PROVE T \cup {x} \in C
  <2>1. T \cup {x} \in SUBSET S /\ (T \cup {x}) \ {x} = T
    OBVIOUS
  <2>2. SumFunctionOnSet(f, T \cup {x}) = f[x] + SumFunctionOnSet(f, T)
    BY <1>0, <2>1, SumRecursion
  <2>3. QED
    BY <1>2, <2>1, <2>2
<1>3. ASSUME NEW T \in SUBSET S PROVE SumFunctionOnSet(f, T) \in Nat
  <2> DEFINE D == C \cap SUBSET T
  <2>1. {} \in D /\ \A U \in SUBSET T : \A x \in T \ U : U \in D => U \cup {x} \in D
    BY <1>1, <1>2
  <2>2. IsFiniteSet(T)
    BY FS_Subset
  <2> HIDE DEF D
  <2>3. T \in D
    BY <2>1, <2>2, SubsetInduction
  <2>4. QED
    BY <2>3 DEF D
<1>4. ASSUME NEW x \in S PROVE f[x] <= SumFunctionOnSet(f, S)
  <2>1. S \in SUBSET S /\ S \ {x} \in SUBSET S
    OBVIOUS
  <2>2. SumFunctionOnSet(f, S) = f[x] + SumFunctionOnSet(f, S \ {x})
    BY <1>0, <2>1, SumRecursion
  <2>3. SumFunctionOnSet(f, S \ {x}) \in Nat /\ f[x] \in Nat
    BY <1>3, <2>1
  <2> HIDE DEF C
  <2>4. QED
    BY <2>2, <2>3
<1>5. QED
  BY <1>3, <1>4

\* A sum over two sets with nothing in common.
LEMMA SumOfUnion ==
  ASSUME NEW S, IsFiniteSet(S), NEW f, \A x \in S : f[x] \in Int,
         NEW P \in SUBSET S, NEW Q \in SUBSET S, P \cap Q = {}, P \cup Q = S
  PROVE  SumFunctionOnSet(f, S) = SumFunctionOnSet(f, P) + SumFunctionOnSet(f, Q)
<1> DEFINE g == [x \in S |-> IF x \in P THEN f[x] ELSE 0]
           h == [x \in S |-> IF x \in Q THEN f[x] ELSE 0]
<1>1. \A x \in S : /\ g[x] \in Int /\ h[x] \in Int /\ f[x] = g[x] + h[x]
                   /\ g[x] = IF x \in P THEN f[x] ELSE 0
                   /\ h[x] = IF x \in Q THEN f[x] ELSE 0
  OBVIOUS
<1> HIDE DEF g, h
<1>2. SumFunctionOnSet(f, S) = SumFunctionOnSet(g, S) + SumFunctionOnSet(h, S)
  BY <1>1, SumAdds
<1>3. SumFunctionOnSet(f, P) = SumFunctionOnSet(g, S)
  BY <1>1, SumOfPart
<1>4. SumFunctionOnSet(f, Q) = SumFunctionOnSet(h, S)
  BY <1>1, SumOfPart
<1>5. QED
  BY <1>2, <1>3, <1>4

\* A common factor.
LEMMA SumScales ==
  ASSUME NEW S, IsFiniteSet(S), NEW f, NEW g, NEW k \in Int,
         \A x \in S : f[x] \in Int /\ g[x] = k * f[x]
  PROVE  SumFunctionOnSet(g, S) = k * SumFunctionOnSet(f, S)
<1> DEFINE C == {T \in SUBSET S : SumFunctionOnSet(g, T) = k * SumFunctionOnSet(f, T)}
<1>0. \A x \in S : g[x] \in Int
  OBVIOUS
<1>1. {} \in C
  BY <1>0, SumRecursion
<1>2. ASSUME NEW T \in SUBSET S, NEW x \in S \ T, T \in C PROVE T \cup {x} \in C
  <2>1. T \cup {x} \in SUBSET S /\ (T \cup {x}) \ {x} = T
    OBVIOUS
  <2>2. /\ SumFunctionOnSet(f, T \cup {x}) = f[x] + SumFunctionOnSet(f, T)
        /\ SumFunctionOnSet(f, T) \in Int /\ f[x] \in Int
    BY <2>1, SumRecursion
  <2>3. SumFunctionOnSet(g, T \cup {x}) = g[x] + SumFunctionOnSet(g, T)
    BY <1>0, <2>1, SumRecursion
  <2>4. ASSUME NEW a \in Int, NEW b \in Int PROVE k * a + k * b = k * (a + b)
    OBVIOUS
  <2>5. g[x] = k * f[x] /\ SumFunctionOnSet(g, T) = k * SumFunctionOnSet(f, T)
    BY <1>2
  <2>6. QED
    BY <2>1, <2>2, <2>3, <2>4, <2>5
<1> HIDE DEF C
<1>3. S \in C
  BY <1>1, <1>2, SubsetInduction
<1>4. QED
  BY <1>3 DEF C

\* The sum of the rows of a table is the sum of its columns.
LEMMA SumSwaps ==
  ASSUME NEW S, IsFiniteSet(S), NEW T, IsFiniteSet(T), NEW f,
         \A x \in S : \A y \in T : f[x][y] \in Int
  PROVE  SumFunctionOnSet([x \in S |-> SumFunctionOnSet(f[x], T)], S)
           = SumFunctionOnSet([y \in T |-> SumFunctionOnSet([x \in S |-> f[x][y]], S)], T)
<1> DEFINE row(U) == [x \in S |-> SumFunctionOnSet(f[x], U)]
           column(y) == [x \in S |-> f[x][y]]
           total == [y \in T |-> SumFunctionOnSet(column(y), S)]
           C == {U \in SUBSET T :
                   SumFunctionOnSet(row(U), S) = SumFunctionOnSet(total, U)}
<1>0. /\ \A y \in T : total[y] = SumFunctionOnSet(column(y), S)
      /\ \A y \in T : \A x \in S : column(y)[x] = f[x][y]
      /\ \A U : \A x \in S : row(U)[x] = SumFunctionOnSet(f[x], U)
  OBVIOUS
<1> HIDE DEF row, column, total
<1>1. /\ \A y \in T : total[y] \in Int
      /\ \A U \in SUBSET T : \A x \in S : row(U)[x] \in Int
  <2>1. ASSUME NEW y \in T PROVE SumFunctionOnSet(column(y), S) \in Int
    <3>1. \A x \in S : column(y)[x] \in Int
      BY <1>0
    <3>2. QED
      BY <3>1, SumRecursion
  <2>2. ASSUME NEW U \in SUBSET T, NEW x \in S PROVE SumFunctionOnSet(f[x], U) \in Int
    BY SumRecursion
  <2>3. QED
    BY <1>0, <2>1, <2>2
<1>2. {} \in C
  <2>1. \A x \in S : row({})[x] = 0
    BY <1>0, SumRecursion
  <2>2. SumFunctionOnSet(row({}), S) = 0
    BY <2>1, SumOfZeros
  <2>3. SumFunctionOnSet(total, {}) = 0
    BY <1>1, SumRecursion
  <2>4. QED
    BY <2>2, <2>3
<1>3. ASSUME NEW U \in SUBSET T, NEW y \in T \ U, U \in C PROVE U \cup {y} \in C
  <2>1. U \cup {y} \in SUBSET T /\ (U \cup {y}) \ {y} = U
    OBVIOUS
  <2>2. ASSUME NEW x \in S
        PROVE  row(U \cup {y})[x] = column(y)[x] + row(U)[x]
    <3>1. SumFunctionOnSet(f[x], U \cup {y}) = f[x][y] + SumFunctionOnSet(f[x], U)
      BY <2>1, SumRecursion
    <3>2. QED
      BY <1>0, <2>1, <3>1
  <2>3. \A x \in S : column(y)[x] \in Int /\ row(U)[x] \in Int
    BY <1>0, <1>1
  <2>4. SumFunctionOnSet(row(U \cup {y}), S)
          = SumFunctionOnSet(column(y), S) + SumFunctionOnSet(row(U), S)
    BY <2>2, <2>3, SumAdds
  <2>5. SumFunctionOnSet(total, U \cup {y}) = total[y] + SumFunctionOnSet(total, U)
    BY <1>1, <2>1, SumRecursion
  <2>6. total[y] = SumFunctionOnSet(column(y), S)
    BY <1>0
  <2>7. SumFunctionOnSet(row(U), S) = SumFunctionOnSet(total, U)
    BY <1>3
  <2>8. QED
    BY <2>1, <2>4, <2>5, <2>6, <2>7
<1> HIDE DEF C
<1>4. T \in C
  BY <1>2, <1>3, SubsetInduction
<1>5. QED
  BY <1>4 DEF C, row, column, total
=============================================================================
