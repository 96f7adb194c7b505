----------------------------- MODULE SumTheorems -----------------------------
(***************************************************************************)
(* What SumFunction, the sum of a function over its finite domain, is      *)
(* worth: it is the same whatever the order, so changing one value moves   *)
(* it by the difference.  SumFunction is a recursive function over the     *)
(* subsets of the domain; every fact below is proved from a smallest set   *)
(* that would refute it.                                                   *)
(***************************************************************************)
EXTENDS FiniteSetTheorems, TLAPS

Some(T) == CHOOSE x \in T : TRUE

(* h sums f over every subset of S.                                        *)
Sums(f, S, h) ==
  h = [T \in SUBSET S |-> IF T = {} THEN 0 ELSE f[Some(T)] + h[T \ {Some(T)}]]

LEMMA SomeIn == ASSUME NEW T, T # {} PROVE Some(T) \in T
BY DEF Some

(* The definition of the library is such an h.                             *)
LEMMA SumIsSums ==
  ASSUME NEW f, NEW S
  PROVE  SumFunctionOnSet(f, S) = (CHOOSE h : Sums(f, S, h))[S]
BY Zenon DEF SumFunctionOnSet, FoldFunctionOnSet, MapThenFoldSet, Sums, Some

(* A set of subsets of a finite set has a smallest member.                 *)
LEMMA SmallestSubset ==
  ASSUME NEW S, IsFiniteSet(S), NEW B \in SUBSET (SUBSET S), B # {}
  PROVE  \E T \in B : \A U \in B : U \subseteq T => U = T
<1>1. IsWellFoundedOn(StrictSubsetOrdering(S), SUBSET S)
  BY FS_StrictSubsetOrderingWellFounded, FS_FiniteSubsetsOfFinite
<1>2. PICK T \in B : \A U \in B : ~(<<U, T>> \in StrictSubsetOrdering(S))
  BY <1>1, WFMin, Zenon
<1>3. \A U \in B : U \subseteq T /\ U # T => <<U, T>> \in StrictSubsetOrdering(S)
  BY DEF StrictSubsetOrdering
<1>4. \A U \in B : U \subseteq T => U = T
  BY <1>2, <1>3, Zenon
<1>5. QED BY <1>4, Zenon

(* Two summations agree on the sets they both know.                        *)
LEMMA SumsAgree ==
  ASSUME NEW f, NEW S, NEW h, Sums(f, S, h), NEW R, NEW g, Sums(f, R, g),
         NEW T \in SUBSET (S \cap R), IsFiniteSet(T)
  PROVE  h[T] = g[T]
<1> DEFINE B == {U \in SUBSET T : h[U] # g[U]}
<1>1. SUFFICES ASSUME B # {} PROVE FALSE
  OBVIOUS
<1>2. PICK U \in B : \A W \in B : W \subseteq U => W = U
  <2>1. B \in SUBSET (SUBSET T)
    OBVIOUS
  <2> HIDE DEF B
  <2>2. QED BY <1>1, <2>1, SmallestSubset
<1>3. /\ h[U] = IF U = {} THEN 0 ELSE f[Some(U)] + h[U \ {Some(U)}]
      /\ g[U] = IF U = {} THEN 0 ELSE f[Some(U)] + g[U \ {Some(U)}]
  <2>1. U \in SUBSET S /\ U \in SUBSET R
    OBVIOUS
  <2>2. QED BY <2>1 DEF Sums
<1>4. U # {}
  BY <1>3
<1>5. U \ {Some(U)} \in SUBSET T /\ U \ {Some(U)} # U /\ U \ {Some(U)} \subseteq U
  BY <1>4, SomeIn
<1>6. h[U \ {Some(U)}] = g[U \ {Some(U)}]
  BY <1>2, <1>5
<1>7. QED BY <1>3, <1>4, <1>6

(* There is a summation over every finite set.                             *)
LEMMA SumsExist ==
  ASSUME NEW f, NEW S, IsFiniteSet(S)
  PROVE  \E h : Sums(f, S, h)
<1> DEFINE B == {U \in SUBSET S : ~\E h : Sums(f, U, h)}
           V(W) == (CHOOSE h : Sums(f, W, h))[W]
<1>1. SUFFICES ASSUME B # {} PROVE FALSE
  OBVIOUS
<1>2. PICK T \in B : \A W \in B : W \subseteq T => W = T
  <2>1. B \in SUBSET (SUBSET S)
    OBVIOUS
  <2> HIDE DEF B
  <2>2. QED BY <1>1, <2>1, SmallestSubset
<1>3. \A W \in SUBSET T : W # T => \E h : Sums(f, W, h)
  BY <1>2
<1>4. ASSUME NEW W \in SUBSET T, W # T
      PROVE  V(W) = IF W = {} THEN 0 ELSE f[Some(W)] + V(W \ {Some(W)})
  <2> DEFINE h == CHOOSE h : Sums(f, W, h)
  <2>1. Sums(f, W, h)
    BY <1>3, <1>4
  <2> HIDE DEF h
  <2>2. h[W] = IF W = {} THEN 0 ELSE f[Some(W)] + h[W \ {Some(W)}]
    <3>1. W \in SUBSET W
      OBVIOUS
    <3>2. QED BY <2>1, <3>1 DEF Sums
  <2>3. ASSUME W # {} PROVE h[W \ {Some(W)}] = V(W \ {Some(W)})
    <3> DEFINE X == W \ {Some(W)}
               g == CHOOSE g : Sums(f, X, g)
    <3>1. X \in SUBSET T /\ X # T /\ X \in SUBSET (W \cap X)
      BY <1>4, <2>3, SomeIn
    <3>2. Sums(f, X, g)
      BY <1>3, <3>1
    <3>3. IsFiniteSet(X)
      <4>1. X \in SUBSET S
        BY <3>1
      <4>2. QED BY <4>1, FS_Subset
    <3> HIDE DEF X, g
    <3>4. h[X] = g[X]
      BY <2>1, <3>1, <3>2, <3>3, SumsAgree
    <3>5. QED BY <3>4 DEF X, g
  <2>4. V(W) = h[W]
    BY DEF h
  <2>5. QED BY <2>2, <2>3, <2>4
<1> DEFINE G == [U \in SUBSET T |-> IF U = {} THEN 0 ELSE f[Some(U)] + V(U \ {Some(U)})]
<1> HIDE DEF V
<1>5. ASSUME NEW U \in SUBSET T, U # {}
      PROVE  V(U \ {Some(U)}) = G[U \ {Some(U)}]
  <2>1. U \ {Some(U)} \in SUBSET T /\ U \ {Some(U)} # T
    BY <1>5, SomeIn
  <2>2. QED BY <1>4, <2>1
<1>6. Sums(f, T, G)
  BY <1>5 DEF Sums
<1>7. QED BY <1>2, <1>6

(* The same, as the two equations the proofs below use.                    *)
Unfolds(f, S, h) ==
  /\ h[{}] = 0
  /\ \A T \in SUBSET S : T # {} =>
       /\ Some(T) \in T
       /\ h[T] = f[Some(T)] + h[T \ {Some(T)}]

(* What the sum over S is made of.                                         *)
LEMMA SumDefined ==
  ASSUME NEW f, NEW S, IsFiniteSet(S)
  PROVE  \E h : SumFunctionOnSet(f, S) = h[S] /\ Unfolds(f, S, h)
<1> DEFINE h == CHOOSE h : Sums(f, S, h)
<1>1. Sums(f, S, h)
  BY SumsExist
<1>2. SumFunctionOnSet(f, S) = h[S]
  BY SumIsSums
<1> HIDE DEF h
<1>3. Unfolds(f, S, h)
  <2>1. \A T \in SUBSET S :
          h[T] = IF T = {} THEN 0 ELSE f[Some(T)] + h[T \ {Some(T)}]
    BY <1>1 DEF Sums
  <2>2. QED BY <2>1, SomeIn DEF Unfolds
<1>4. QED BY <1>2, <1>3, Zenon

(* A sum of integers is an integer, a sum of naturals a natural that is    *)
(* not less than any of its terms.                                         *)
LEMMA SumInt ==
  ASSUME NEW S, IsFiniteSet(S), NEW f \in [S -> Int]
  PROVE  SumFunctionOnSet(f, S) \in Int
<1>1. PICK h : SumFunctionOnSet(f, S) = h[S] /\ Unfolds(f, S, h)
  BY SumDefined, Zenon
<1> DEFINE B == {T \in SUBSET S : h[T] \notin Int}
<1>2. SUFFICES ASSUME B # {} PROVE FALSE
  <2>1. S \in SUBSET S
    OBVIOUS
  <2>2. QED BY <1>1, <2>1
<1>3. PICK T \in B : \A U \in B : U \subseteq T => U = T
  <2>1. B \in SUBSET (SUBSET S)
    OBVIOUS
  <2> HIDE DEF B
  <2>2. QED BY <1>2, <2>1, SmallestSubset
<1>4. T # {}
  <2>1. h[{}] = 0
    BY <1>1 DEF Unfolds
  <2>2. {} \notin B
    BY <2>1
  <2>3. QED BY <2>2, Zenon
<1>5. Some(T) \in S /\ T \ {Some(T)} \in SUBSET S /\ T \ {Some(T)} # T
  BY <1>4, SomeIn
<1>6. h[T \ {Some(T)}] \in Int /\ f[Some(T)] \in Int
  BY <1>3, <1>5
<1>7. h[T] = f[Some(T)] + h[T \ {Some(T)}]
  BY <1>1, <1>4 DEF Unfolds
<1>8. QED BY <1>6, <1>7

LEMMA SumNat ==
  ASSUME NEW S, IsFiniteSet(S), NEW f \in [S -> Nat]
  PROVE  /\ SumFunctionOnSet(f, S) \in Nat
         /\ \A x \in S : SumFunctionOnSet(f, S) >= f[x]
<1>1. PICK h : SumFunctionOnSet(f, S) = h[S] /\ Unfolds(f, S, h)
  BY SumDefined, Zenon
<1> DEFINE Good(T) == h[T] \in Nat /\ \A x \in T : h[T] >= f[x]
           B == {T \in SUBSET S : ~Good(T)}
<1>2. SUFFICES ASSUME B # {} PROVE FALSE
  <2>1. S \in SUBSET S
    OBVIOUS
  <2>2. QED BY <1>1, <2>1
<1>3. PICK T \in B : \A U \in B : U \subseteq T => U = T
  <2>1. B \in SUBSET (SUBSET S)
    OBVIOUS
  <2> HIDE DEF B
  <2>2. QED BY <1>2, <2>1, SmallestSubset
<1>4. T # {}
  <2>1. h[{}] = 0
    BY <1>1 DEF Unfolds
  <2>2. {} \notin B
    BY <2>1
  <2>3. QED BY <2>2, Zenon
<1>5. Some(T) \in S /\ T \ {Some(T)} \in SUBSET S /\ T \ {Some(T)} # T
  BY <1>4, SomeIn
<1>6. Good(T \ {Some(T)}) /\ f[Some(T)] \in Nat
  BY <1>3, <1>5
<1>7. h[T] = f[Some(T)] + h[T \ {Some(T)}]
  BY <1>1, <1>4 DEF Unfolds
<1>8. \A x \in T : f[x] \in Nat /\ (x = Some(T) \/ x \in T \ {Some(T)})
  OBVIOUS
<1>9. Good(T)
  BY <1>6, <1>7, <1>8
<1>10. QED BY <1>9

(* Changing one term moves the sum by the difference.                      *)
LEMMA SumMoves ==
  ASSUME NEW S, IsFiniteSet(S), NEW f \in [S -> Int], NEW g \in [S -> Int],
         NEW r \in S, \A x \in S \ {r} : g[x] = f[x]
  PROVE  SumFunctionOnSet(g, S) = SumFunctionOnSet(f, S) + (g[r] - f[r])
<1>1. PICK h : SumFunctionOnSet(f, S) = h[S] /\ Unfolds(f, S, h)
  BY SumDefined, Zenon
<1>2. PICK k : SumFunctionOnSet(g, S) = k[S] /\ Unfolds(g, S, k)
  BY SumDefined, Zenon
<1> DEFINE Good(T) == /\ h[T] \in Int /\ k[T] \in Int
                      /\ k[T] = IF r \in T THEN h[T] + (g[r] - f[r]) ELSE h[T]
           B == {T \in SUBSET S : ~Good(T)}
<1>3. SUFFICES ASSUME B # {} PROVE FALSE
  <2>1. S \in SUBSET S
    OBVIOUS
  <2>2. QED BY <1>1, <1>2, <2>1
<1>4. PICK T \in B : \A U \in B : U \subseteq T => U = T
  <2>1. B \in SUBSET (SUBSET S)
    OBVIOUS
  <2> HIDE DEF B
  <2>2. QED BY <1>3, <2>1, SmallestSubset
<1>5. T # {}
  <2>1. h[{}] = 0 /\ k[{}] = 0
    BY <1>1, <1>2 DEF Unfolds
  <2>2. {} \notin B
    BY <2>1
  <2>3. QED BY <2>2, Zenon
<1>6. Some(T) \in S /\ Some(T) \in T /\ T \ {Some(T)} \in SUBSET S /\ T \ {Some(T)} # T
  BY <1>5, SomeIn
<1>7. Good(T \ {Some(T)})
  BY <1>4, <1>6
<1>8. /\ h[T] = f[Some(T)] + h[T \ {Some(T)}] /\ k[T] = g[Some(T)] + k[T \ {Some(T)}]
      /\ f[Some(T)] \in Int /\ g[Some(T)] \in Int /\ f[r] \in Int /\ g[r] \in Int
  BY <1>1, <1>2, <1>5, <1>6 DEF Unfolds
<1>9. CASE Some(T) = r
  <2>1. r \in T /\ r \notin T \ {Some(T)}
    BY <1>6, <1>9
  <2>2. QED BY <1>7, <1>8, <1>9, <2>1
<1>10. CASE Some(T) # r
  <2>1. /\ r \in T <=> r \in T \ {Some(T)}
        /\ g[Some(T)] = f[Some(T)]
    BY <1>6, <1>10
  <2>2. QED BY <1>7, <1>8, <2>1
<1>11. QED BY <1>9, <1>10

(* Nothing adds up to nothing.                                             *)
LEMMA SumZero ==
  ASSUME NEW S, IsFiniteSet(S), NEW f \in [S -> {0}]
  PROVE  SumFunctionOnSet(f, S) = 0
<1>1. PICK h : SumFunctionOnSet(f, S) = h[S] /\ Unfolds(f, S, h)
  BY SumDefined, Zenon
<1> DEFINE B == {T \in SUBSET S : h[T] # 0}
<1>2. SUFFICES ASSUME B # {} PROVE FALSE
  <2>1. S \in SUBSET S
    OBVIOUS
  <2>2. QED BY <1>1, <2>1
<1>3. PICK T \in B : \A U \in B : U \subseteq T => U = T
  <2>1. B \in SUBSET (SUBSET S)
    OBVIOUS
  <2> HIDE DEF B
  <2>2. QED BY <1>2, <2>1, SmallestSubset
<1>4. T # {}
  <2>1. h[{}] = 0
    BY <1>1 DEF Unfolds
  <2>2. {} \notin B
    BY <2>1
  <2>3. QED BY <2>2, Zenon
<1>5. Some(T) \in S /\ T \ {Some(T)} \in SUBSET S /\ T \ {Some(T)} # T
  BY <1>4, SomeIn
<1>6. h[T \ {Some(T)}] = 0 /\ f[Some(T)] = 0
  BY <1>3, <1>5
<1>7. h[T] = f[Some(T)] + h[T \ {Some(T)}]
  BY <1>1, <1>4 DEF Unfolds
<1>8. QED BY <1>6, <1>7

LEMMA SumOnDomain ==
  ASSUME NEW S, NEW V, NEW f \in [S -> V]
  PROVE  SumFunction(f) = SumFunctionOnSet(f, S)
<1>1. DOMAIN f = S
  OBVIOUS
<1>2. QED BY <1>1, Zenon DEF SumFunction
=============================================================================
