---------------------- MODULE PlaygroundMessages_proofs -----------------------
(***************************************************************************)
(* Proofs about the messages of the playground page, for any number of     *)
(* requests, chunks, edits and visits, whatever words the server sends:    *)
(* that no answer shows text of another request, that an answer which is   *)
(* not cut keeps what it received, and that the page is busy exactly while *)
(* a request is.                                                           *)
(*                                                                         *)
(* React evaluates the queued updaters later, at the generation it finds   *)
(* then; so ChatInv, the inductive invariant, follows the list that the    *)
(* queue would produce now and the one it would produce after a Stop.      *)
(***************************************************************************)
EXTENDS PlaygroundChat_proofs, SumTheorems

(***************************************************************************)
(* Evaluating the update queue.  EvaluateAll is a recursive function over  *)
(* sets of positions; that it evaluates one updater after the other is     *)
(* proved here, once, from smallest sets that would refute it.             *)
(***************************************************************************)
(* h evaluates q on list at every set of positions in S.                   *)
Evaluates(q, list, g, S, h) ==
    h = [T \in SUBSET S |-> IF T = {} THEN list
                            ELSE Evaluate(q[Max(T)], h[T \ {Max(T)}], g)]

LEMMA EvaluateAllIs ==
  ASSUME NEW q, NEW list, NEW g
  PROVE  EvaluateAll(q, list, g)
           = (CHOOSE h : Evaluates(q, list, g, DOMAIN q, h))[DOMAIN q]
  BY Zenon DEF EvaluateAll, FoldLeft, MapThenFoldSet, Evaluates

LEMMA LastPosition ==
  ASSUME NEW n \in Nat, NEW T \in SUBSET (1..n), T # {}
  PROVE  Max(T) \in T
<1> DEFINE R == {p \in Nat \X Nat : p[1] < p[2]}
           S == {n - x : x \in T}
<1>1. IsWellFoundedOn(R, Nat)
  <2>1. R = OpToRel(<, Nat)  BY Zenon DEF OpToRel
  <2> QED  BY <2>1, NatLessThanWellFounded, Zenon
<1>2. S \in SUBSET Nat /\ S # {}
  <2>1. \A x \in T : n - x \in Nat  OBVIOUS
  <2>2. PICK x \in T : TRUE  OBVIOUS
  <2>3. n - x \in S  OBVIOUS
  <2> QED  BY <2>1, <2>3
<1>3. \A y, x \in Nat : <<y, x>> \in R <=> y < x  OBVIOUS
<1> HIDE DEF R
<1>4. PICK z \in S : \A y \in S : ~(<<y, z>> \in R)
  <2> HIDE DEF S
  <2> QED  BY <1>1, <1>2, WFMin, Zenon
<1>5. PICK x \in T : z = n - x  OBVIOUS
<1>6. \A y \in T : x >= y
  <2> TAKE y \in T
  <2>1. n - y \in S /\ n - y \in Nat /\ z \in Nat  BY <1>2
  <2>2. ~(n - y < z)  BY <1>3, <1>4, <2>1
  <2>3. x \in Int /\ y \in Int  OBVIOUS
  <2> QED  BY <1>5, <2>2, <2>3
<1> QED  BY <1>6 DEF Max

(* A set of positions, any part of which has a last one.                   *)
Positions(P) == IsFiniteSet(P) /\ \A T \in SUBSET P : T # {} => Max(T) \in T

LEMMA PositionsOfSequence ==
  ASSUME NEW n \in Nat
  PROVE  Positions(1..n)
<1>1. IsFiniteSet(1..n)  BY FS_Interval
<1> QED  BY <1>1, LastPosition DEF Positions

LEMMA EvaluationsAgree ==
  ASSUME NEW list, NEW g, NEW P, Positions(P), NEW S, NEW R,
         NEW q, NEW h, Evaluates(q, list, g, S, h),
         NEW p, NEW k, Evaluates(p, list, g, R, k),
         NEW T \in SUBSET (S \cap R), T \in SUBSET P, \A i \in T : q[i] = p[i]
  PROVE  h[T] = k[T]
<1> DEFINE B == {U \in SUBSET T : h[U] # k[U]}
<1>1. SUFFICES ASSUME B # {} PROVE FALSE
  OBVIOUS
<1>2. PICK U \in B : \A W \in B : W \subseteq U => W = U
  <2>1. B \in SUBSET (SUBSET T)  OBVIOUS
  <2>2. IsFiniteSet(T)
    <3>1. IsFiniteSet(P)  BY DEF Positions
    <3> QED  BY <3>1, FS_Subset, Zenon
  <2> HIDE DEF B
  <2> QED  BY <1>1, <2>1, <2>2, SmallestSubset
<1>3. /\ h[U] = IF U = {} THEN list ELSE Evaluate(q[Max(U)], h[U \ {Max(U)}], g)
      /\ k[U] = IF U = {} THEN list ELSE Evaluate(p[Max(U)], k[U \ {Max(U)}], g)
  <2>1. U \in SUBSET S /\ U \in SUBSET R  OBVIOUS
  <2> QED  BY <2>1, Zenon DEF Evaluates
<1>4. U # {}  BY <1>3
<1>5. Max(U) \in U  BY <1>4 DEF Positions
<1>6. U \ {Max(U)} \in SUBSET T /\ U \ {Max(U)} # U /\ U \ {Max(U)} \subseteq U
  BY <1>5
<1>7. h[U \ {Max(U)}] = k[U \ {Max(U)}] /\ q[Max(U)] = p[Max(U)]
  BY <1>2, <1>5, <1>6
<1>8. h[U] = k[U]  BY <1>3, <1>4, <1>7, Zenon
<1> QED  BY <1>8

LEMMA EvaluationExists ==
  ASSUME NEW q, NEW list, NEW g, NEW P, Positions(P)
  PROVE  \E h : Evaluates(q, list, g, P, h)
<1> DEFINE B == {U \in SUBSET P : ~\E h : Evaluates(q, list, g, U, h)}
           V(W) == (CHOOSE h : Evaluates(q, list, g, W, h))[W]
<1>1. SUFFICES ASSUME B # {} PROVE FALSE
  OBVIOUS
<1>2. PICK T \in B : \A W \in B : W \subseteq T => W = T
  <2>1. B \in SUBSET (SUBSET P)  OBVIOUS
  <2>2. IsFiniteSet(P)  BY DEF Positions
  <2> HIDE DEF B
  <2> QED  BY <1>1, <2>1, <2>2, SmallestSubset
<1>3. \A W \in SUBSET T : W # T => \E h : Evaluates(q, list, g, W, h)
  BY <1>2
<1>4. ASSUME NEW W \in SUBSET T, W # T
      PROVE  V(W) = IF W = {} THEN list ELSE Evaluate(q[Max(W)], V(W \ {Max(W)}), g)
  <2> DEFINE h == CHOOSE h : Evaluates(q, list, g, W, h)
  <2>1. Evaluates(q, list, g, W, h)
    <3>1. \E x : Evaluates(q, list, g, W, x)  BY <1>3, <1>4
    <3> QED  BY <3>1, Zenon
  <2> HIDE DEF h
  <2>2. h[W] = IF W = {} THEN list ELSE Evaluate(q[Max(W)], h[W \ {Max(W)}], g)
    <3>1. W \in SUBSET W  OBVIOUS
    <3> QED  BY <2>1, <3>1, Zenon DEF Evaluates
  <2>3. ASSUME W # {} PROVE h[W \ {Max(W)}] = V(W \ {Max(W)})
    <3> DEFINE X == W \ {Max(W)}
               k == CHOOSE k : Evaluates(q, list, g, X, k)
    <3>1. Max(W) \in W  BY <2>3 DEF Positions
    <3>2. /\ X \in SUBSET T /\ X # T /\ X \in SUBSET (W \cap X) /\ X \in SUBSET P
      BY <1>4, <3>1
    <3>3. Evaluates(q, list, g, X, k)
      <4>1. \E x : Evaluates(q, list, g, X, x)  BY <1>3, <3>2
      <4> QED  BY <4>1, Zenon
    <3> HIDE DEF X, k
    <3>4. h[X] = k[X]
      <4>1. \A i \in X : q[i] = q[i]  OBVIOUS
      <4>2. X \in SUBSET (W \cap X) /\ X \in SUBSET P  BY <3>2
      <4> HIDE DEF B, V
      <4> QED  BY <2>1, <3>3, <4>1, <4>2, EvaluationsAgree
    <3> QED  BY <3>4, Zenon DEF X, k
  <2>4. V(W) = h[W]  BY Zenon DEF h
  <2> QED  BY <2>2, <2>3, <2>4, Zenon
<1> DEFINE G == [U \in SUBSET T |-> IF U = {} THEN list
                                     ELSE Evaluate(q[Max(U)], V(U \ {Max(U)}), g)]
<1> HIDE DEF V
<1>5. ASSUME NEW U \in SUBSET T, U # {}
      PROVE  V(U \ {Max(U)}) = G[U \ {Max(U)}]
  <2>1. Max(U) \in U  BY <1>5 DEF Positions
  <2>2. U \ {Max(U)} \in SUBSET T /\ U \ {Max(U)} # T  BY <2>1
  <2>3. G[U \ {Max(U)}] = IF U \ {Max(U)} = {} THEN list
                          ELSE Evaluate(q[Max(U \ {Max(U)})],
                                        V((U \ {Max(U)}) \ {Max(U \ {Max(U)})}), g)
    BY <2>2, Zenon
  <2> QED  BY <1>4, <2>2, <2>3, Zenon
<1>6. Evaluates(q, list, g, T, G)
  <2>1. \A U \in SUBSET T :
          (IF U = {} THEN list ELSE Evaluate(q[Max(U)], V(U \ {Max(U)}), g))
            = IF U = {} THEN list ELSE Evaluate(q[Max(U)], G[U \ {Max(U)}], g)
    BY <1>5, Zenon
  <2> HIDE DEF V
  <2> QED  BY <2>1, Zenon DEF Evaluates
<1> QED  BY <1>2, <1>6, Zenon

(* An empty queue changes nothing, and an updater is evaluated on what the *)
(* ones before it have produced.                                           *)
LEMMA NothingToEvaluate ==
  ASSUME NEW list, NEW g
  PROVE  EvaluateAll(<<>>, list, g) = list
<1> DEFINE h == CHOOSE h : Evaluates(<<>>, list, g, DOMAIN <<>>, h)
<1>1. DOMAIN <<>> = 1..0 /\ 1..0 = {}  OBVIOUS
<1>2. Evaluates(<<>>, list, g, DOMAIN <<>>, h)
  <2>1. \E x : Evaluates(<<>>, list, g, DOMAIN <<>>, x)
    BY <1>1, PositionsOfSequence, EvaluationExists
  <2> QED  BY <2>1, Zenon
<1>3. EvaluateAll(<<>>, list, g) = h[DOMAIN <<>>]  BY EvaluateAllIs, Zenon
<1> HIDE DEF h
<1>4. DOMAIN <<>> = {}  BY <1>1
<1>5. h[DOMAIN <<>>] = list
  <2>1. DOMAIN <<>> \in SUBSET DOMAIN <<>>  OBVIOUS
  <2> QED  BY <1>2, <1>4, <2>1, Zenon DEF Evaluates
<1> QED  BY <1>3, <1>5

LEMMA EvaluateNext ==
  ASSUME NEW S, NEW q \in Seq(S), NEW u, NEW list, NEW g
  PROVE  EvaluateAll(Append(q, u), list, g) = Evaluate(u, EvaluateAll(q, list, g), g)
<1> DEFINE n == Len(q)
           p == Append(q, u)
           h == CHOOSE h : Evaluates(q, list, g, DOMAIN q, h)
           k == CHOOSE k : Evaluates(p, list, g, DOMAIN p, k)
<1>1. /\ n \in Nat /\ DOMAIN q = 1..n /\ DOMAIN p = 1..(n + 1)
      /\ p[n + 1] = u /\ \A i \in 1..n : p[i] = q[i]
  OBVIOUS
<1> HIDE DEF n, p
<1>2. Evaluates(q, list, g, 1..n, h)
  <2>1. Positions(1..n)  BY <1>1, PositionsOfSequence
  <2>2. \E x : Evaluates(q, list, g, 1..n, x)  BY <2>1, EvaluationExists, Zenon
  <2> QED  BY <1>1, <2>2, Zenon
<1>3. Evaluates(p, list, g, 1..(n + 1), k)
  <2>1. Positions(1..(n + 1))  BY <1>1, PositionsOfSequence
  <2>2. \E x : Evaluates(p, list, g, 1..(n + 1), x)  BY <2>1, EvaluationExists, Zenon
  <2> QED  BY <1>1, <2>2, Zenon
<1>4. EvaluateAll(q, list, g) = h[1..n]  BY <1>1, EvaluateAllIs, Zenon
<1>5. EvaluateAll(p, list, g) = k[1..(n + 1)]  BY <1>1, EvaluateAllIs, Zenon
<1> HIDE DEF h, k
<1>6. h[1..n] = k[1..n]
  <2> DEFINE N == 1..n
             M == 1..(n + 1)
  <2>1. N \in SUBSET (N \cap M)  BY <1>1
  <2>2. N \in SUBSET N /\ \A i \in N : q[i] = p[i]  BY <1>1
  <2>3. Positions(N)  BY <1>1, PositionsOfSequence
  <2>4. Evaluates(q, list, g, N, h) /\ Evaluates(p, list, g, M, k)  BY <1>2, <1>3
  <2> HIDE DEF N, M
  <2>5. h[N] = k[N]  BY <2>1, <2>2, <2>3, <2>4, EvaluationsAgree
  <2> QED  BY <2>5 DEF N
<1>7. Max(1..(n + 1)) = n + 1
  BY <1>1 DEF Max
<1>8. (1..(n + 1)) \ {n + 1} = 1..n /\ 1..(n + 1) # {}
  <2>1. \A i : i \in (1..(n + 1)) \ {n + 1} <=> i \in 1..n  BY <1>1
  <2>2. n + 1 \in 1..(n + 1)  BY <1>1
  <2> QED  BY <2>1, <2>2, Zenon
<1>9. k[1..(n + 1)] = Evaluate(p[n + 1], k[1..n], g)
  <2>1. 1..(n + 1) \in SUBSET (1..(n + 1))  OBVIOUS
  <2> QED  BY <1>3, <1>7, <1>8, <2>1, Zenon DEF Evaluates
<1>10. EvaluateAll(p, list, g) = Evaluate(u, EvaluateAll(q, list, g), g)
  BY <1>1, <1>4, <1>5, <1>6, <1>9, Zenon
<1> QED  BY <1>10, Zenon DEF p

--------------------------------------------------------------------------------
(***************************************************************************)
(* Texts.                                                                  *)
(***************************************************************************)
OwnText(r) == Seq({r} \X Nat)

Segment(r, a, n) == [k \in 1..(n - a) |-> Piece(r, a + k)]

(* Text t is what deltas a + 1 to n of request r leave behind.             *)
Covers(t, r, a, n) ==
    /\ ToSet(t) = ToSet(Segment(r, a, n))
    /\ Exact(r, "delta") => t = Segment(r, a, n)

(* What was received of request r and not yet queued, p, continues the     *)
(* first a chunks; c is the connection of r.                               *)
Fits(r, a, p, c) ==
    IF p = <<>> THEN a = c.got \/ c.mode = "plain"
    ELSE /\ a < c.got /\ c.mode # "plain"
         /\ IF c.mode = "delta" THEN Covers(p, r, a, c.got) ELSE p = Pieces(r, c.got)

LEMMA PieceOwn ==
  ASSUME NEW r \in Reqs, NEW k \in 1..MaxPieces
  PROVE  Piece(r, k) \in {r} \X Nat /\ Piece(r, k) = <<r, Word[r][k]>>
<1>1. Word[r] \in [1..MaxPieces -> Nat]  BY PlaygroundBounds DEF Reqs
<1>2. Word[r][k] \in Nat  BY <1>1
<1> QED  BY <1>2 DEF Piece

LEMMA SegmentFacts ==
  ASSUME NEW r \in Reqs, NEW n \in 0..MaxPieces, NEW a \in 0..n
  PROVE  /\ Segment(r, a, n) \in OwnText(r) /\ Len(Segment(r, a, n)) = n - a
         /\ \A k \in 1..(n - a) : Segment(r, a, n)[k] = Piece(r, a + k)
<1>1. n - a \in Nat /\ MaxPieces \in Nat  BY Bounds
<1>2. \A k \in 1..(n - a) : Piece(r, a + k) \in {r} \X Nat
  <2>1. \A k \in 1..(n - a) : a + k \in 1..MaxPieces  BY <1>1
  <2> QED  BY <2>1, PieceOwn
<1> DEFINE s == Segment(r, a, n)
<1>3. s \in [1..(n - a) -> {r} \X Nat]  BY <1>2 DEF Segment
<1>4. \A k \in 1..(n - a) : s[k] = Piece(r, a + k)  BY DEF Segment
<1> HIDE DEF s
<1>5. s \in OwnText(r)  BY <1>1, <1>3 DEF OwnText
<1>6. Len(s) = n - a
  <2>1. PICK d \in Nat : d = n - a  BY <1>1
  <2>2. DOMAIN s = 1..d  BY <1>3, <2>1
  <2>3. Len(s) \in Nat /\ DOMAIN s = 1..Len(s)  BY <1>5 DEF OwnText
  <2>4. Len(s) = d  BY <2>2, <2>3
  <2> QED  BY <2>1, <2>4
<1> QED  BY <1>4, <1>5, <1>6 DEF s

(* The beginning of what request r sends is one segment.                   *)
LEMMA PiecesSegment ==
  ASSUME NEW r, NEW n \in 0..MaxPieces
  PROVE  Segment(r, 0, n) = Pieces(r, n)
<1>1. n \in Nat /\ n - 0 = n /\ 0 \in 0..n  BY Bounds
<1>2. \A k \in 1..n : 0 + k = k  BY <1>1
<1> QED  BY <1>1, <1>2 DEF Segment, Pieces

LEMMA PiecesFacts ==
  ASSUME NEW r \in Reqs, NEW n \in 0..MaxPieces
  PROVE  /\ Pieces(r, n) \in OwnText(r) /\ Len(Pieces(r, n)) = n
         /\ \A k \in 1..n : Pieces(r, n)[k] = Piece(r, k)
<1>1. n \in Nat /\ MaxPieces \in Nat  BY Bounds
<1>2. \A k \in 1..n : Piece(r, k) \in {r} \X Nat
  <2>1. \A k \in 1..n : k \in 1..MaxPieces  BY <1>1
  <2> QED  BY <2>1, PieceOwn
<1> DEFINE s == Pieces(r, n)
<1>3. s \in [1..n -> {r} \X Nat]  BY <1>2 DEF Pieces
<1>4. \A k \in 1..n : s[k] = Piece(r, k)  BY DEF Pieces
<1> HIDE DEF s
<1>5. s \in OwnText(r)  BY <1>1, <1>3 DEF OwnText
<1>6. Len(s) = n  BY <1>1, <1>3, <1>5 DEF OwnText
<1> QED  BY <1>4, <1>5, <1>6 DEF s

LEMMA SegmentSet ==
  ASSUME NEW r \in Reqs, NEW n \in 0..MaxPieces, NEW a \in 0..n
  PROVE  \A x : x \in ToSet(Segment(r, a, n)) <=> \E k \in (a + 1)..n : x = Piece(r, k)
<1>1. a \in Nat /\ n \in Nat  BY Bounds
<1> DEFINE s == Segment(r, a, n)
<1>2. DOMAIN s = 1..(n - a) /\ \A k \in 1..(n - a) : s[k] = Piece(r, a + k)
  BY DEF Segment
<1> HIDE DEF s
<1>3. ASSUME NEW x, NEW k \in 1..(n - a), x = Piece(r, a + k)
      PROVE  \E j \in (a + 1)..n : x = Piece(r, j)
  <2>1. a + k \in (a + 1)..n  BY <1>1
  <2> QED  BY <1>3, <2>1
<1>4. ASSUME NEW x, NEW j \in (a + 1)..n, x = Piece(r, j)
      PROVE  \E k \in 1..(n - a) : x = Piece(r, a + k)
  <2>1. j - a \in 1..(n - a) /\ a + (j - a) = j  BY <1>1
  <2> QED  BY <1>4, <2>1
<1>5. \A x : x \in ToSet(s) <=> \E k \in 1..(n - a) : x = Piece(r, a + k)
  BY <1>2 DEF ToSet
<1> QED  BY <1>3, <1>4, <1>5 DEF s

LEMMA PrefixFacts ==
  ASSUME NEW S, NEW s \in Seq(S), NEW t \in Seq(S)
  PROVE  IsPrefix(s, t) <=> Len(s) <= Len(t) /\ \A i \in 1..Len(s) : s[i] = t[i]
<1>1. CASE ~(Len(s) <= Len(t))  BY <1>1 DEF IsPrefix
<1>2. CASE Len(s) <= Len(t)
  <2> DEFINE a == SubSeq(s, 1, Len(s))
             b == SubSeq(t, 1, Len(s))
  <2>1. /\ a \in Seq(S) /\ Len(a) = Len(s) /\ \A i \in 1..Len(s) : a[i] = s[i]
        /\ b \in Seq(S) /\ Len(b) = Len(s) /\ \A i \in 1..Len(s) : b[i] = t[i]
    BY <1>2
  <2> HIDE DEF a, b
  <2>2. a = b <=> \A i \in 1..Len(s) : s[i] = t[i]  BY <2>1
  <2> QED  BY <1>2, <2>2 DEF IsPrefix, a, b
<1> QED  BY <1>1, <1>2

LEMMA SameText ==
  ASSUME NEW S, NEW s \in Seq(S), NEW t \in Seq(S), Len(s) = Len(t),
         \A i \in 1..Len(s) : s[i] = t[i]
  PROVE  s = t
  OBVIOUS

LEMMA JoinedText ==
  ASSUME NEW S, NEW s \in Seq(S), NEW t \in Seq(S)
  PROVE  s \o t \in Seq(S) /\ Len(s \o t) = Len(s) + Len(t)
  OBVIOUS

LEMMA JoinedAt ==
  ASSUME NEW S, NEW s \in Seq(S), NEW t \in Seq(S), NEW k \in 1..(Len(s) + Len(t))
  PROVE  /\ k <= Len(s) => (s \o t)[k] = s[k]
         /\ k > Len(s) => (s \o t)[k] = t[k - Len(s)]
  OBVIOUS

LEMMA MergeOwn ==
  ASSUME NEW r, NEW t \in OwnText(r), NEW c \in OwnText(r)
  PROVE  Merge(t, c) \in OwnText(r)
  BY DEF OwnText, Merge

LEMMA MergeFirst ==
  ASSUME NEW r, NEW c \in OwnText(r)
  PROVE  Merge(<<>>, c) = c
  BY DEF OwnText, Merge

(* A chunk after the buffered ones.                                        *)
LEMMA MergeSnapshot ==
  ASSUME NEW r \in Reqs, NEW n \in 0..MaxPieces, NEW a \in 0..n
  PROVE  Merge(Pieces(r, a), Pieces(r, n)) = Pieces(r, n)
<1> DEFINE s == Pieces(r, a)
           t == Pieces(r, n)
<1>1. a \in 0..MaxPieces /\ a <= n  BY Bounds
<1>2. /\ s \in OwnText(r) /\ Len(s) = a /\ \A k \in 1..a : s[k] = Piece(r, k)
      /\ t \in OwnText(r) /\ Len(t) = n /\ \A k \in 1..n : t[k] = Piece(r, k)
  BY <1>1, PiecesFacts
<1> HIDE DEF s, t
<1>3. CASE s = <<>>  BY <1>2, <1>3, MergeFirst DEF s, t
<1>4. CASE s # <<>>
  <2>1. \A i \in 1..Len(s) : s[i] = t[i]  BY <1>1, <1>2
  <2>2. Len(s) <= Len(t)  BY <1>1, <1>2
  <2>3. IsPrefix(s, t)  BY <1>2, <2>1, <2>2, PrefixFacts DEF OwnText
  <2> QED  BY <1>4, <2>3 DEF Merge, s, t
<1> QED  BY <1>3, <1>4

LEMMA MergeSegment ==
  ASSUME NEW r \in Reqs, NEW n \in 0..MaxPieces, NEW m \in 0..n, NEW a \in 0..m,
         m < n, Exact(r, "delta")
  PROVE  Merge(Segment(r, a, m), Segment(r, m, n)) = Segment(r, a, n)
<1> DEFINE s == Segment(r, a, m)
           t == Segment(r, m, n)
           w == Segment(r, a, n)
<1>1. m \in 0..MaxPieces /\ a \in 0..n /\ m \in Nat /\ n \in Nat /\ a \in Nat  BY Bounds
<1>2. s \in OwnText(r) /\ Len(s) = m - a /\ \A k \in 1..(m - a) : s[k] = Piece(r, a + k)
  BY <1>1, SegmentFacts
<1>3. t \in OwnText(r) /\ Len(t) = n - m /\ \A k \in 1..(n - m) : t[k] = Piece(r, m + k)
  BY <1>1, SegmentFacts
<1>4. w \in OwnText(r) /\ Len(w) = n - a /\ \A k \in 1..(n - a) : w[k] = Piece(r, a + k)
  BY <1>1, SegmentFacts
<1> HIDE DEF s, t, w
<1>5. ~(s # <<>> /\ IsPrefix(s, t))
  <2>1. SUFFICES ASSUME s # <<>>, IsPrefix(s, t) PROVE FALSE
    OBVIOUS
  <2>2. Len(s) <= Len(t) /\ \A i \in 1..Len(s) : s[i] = t[i]
    BY <1>2, <1>3, <2>1, PrefixFacts DEF OwnText
  <2>3. Len(s) # 0  BY <1>2, <2>1 DEF OwnText
  <2>4. 1 \in 1..(m - a) /\ 1 \in 1..(n - m)  BY <1>1, <1>2, <2>3
  <2>5. Piece(r, a + 1) = Piece(r, m + 1)  BY <1>2, <1>3, <2>2, <2>4
  <2>6. a + 1 \in 1..MaxPieces /\ m + 1 \in 1..MaxPieces  BY <1>1, Bounds
  <2>7. Word[r][a + 1] = Word[r][m + 1]
    <3>1. <<r, Word[r][a + 1]>> = <<r, Word[r][m + 1]>>  BY <2>5, <2>6, PieceOwn
    <3> QED  BY <3>1
  <2>8. a + 1 = m + 1  BY <2>6, <2>7 DEF Exact
  <2> QED  BY <1>1, <2>4, <2>8
<1>6. Merge(s, t) = s \o t  BY <1>5 DEF Merge
<1> DEFINE c == s \o t
<1>7. c \in OwnText(r) /\ Len(c) = n - a
  <2>1. c \in OwnText(r) /\ Len(c) = Len(s) + Len(t)
    BY <1>2, <1>3, JoinedText DEF OwnText
  <2>2. (m - a) + (n - m) = n - a  BY <1>1
  <2> QED  BY <1>2, <1>3, <2>1, <2>2
<1>8. ASSUME NEW k \in 1..(n - a) PROVE c[k] = Piece(r, a + k)
  <2> HIDE DEF c
  <2>1. k \in 1..(Len(s) + Len(t))  BY <1>1, <1>2, <1>3
  <2>2. s \in Seq({r} \X Nat) /\ t \in Seq({r} \X Nat)  BY <1>2, <1>3 DEF OwnText
  <2>3. (k <= Len(s) => c[k] = s[k]) /\ (k > Len(s) => c[k] = t[k - Len(s)])
    BY <2>1, <2>2, JoinedAt DEF c
  <2>4. CASE k <= m - a
    <3>1. c[k] = s[k]  BY <1>2, <2>4, <2>3
    <3> QED  BY <1>1, <1>2, <2>4, <3>1
  <2>5. CASE k > m - a
    <3>1. c[k] = t[k - (m - a)]  BY <1>2, <2>5, <2>3
    <3>2. k - (m - a) \in 1..(n - m) /\ m + (k - (m - a)) = a + k  BY <1>1, <2>5
    <3> QED  BY <1>3, <3>1, <3>2
  <2>6. k <= m - a \/ k > m - a  BY <1>1
  <2> QED  BY <2>4, <2>5, <2>6, Zenon
<1> HIDE DEF c
<1>9. c = w  BY <1>4, <1>7, <1>8, SameText DEF OwnText
<1> QED  BY <1>6, <1>9 DEF c, s, t, w

LEMMA OneChunk ==
  ASSUME NEW r \in Reqs, NEW n \in 0..MaxPieces, n < MaxPieces
  PROVE  Segment(r, n, n + 1) = <<Piece(r, n + 1)>>
<1> DEFINE s == Segment(r, n, n + 1)
<1>1. n + 1 \in 0..MaxPieces /\ n \in 0..(n + 1) /\ (n + 1) - n = 1
      /\ n + 1 \in 1..MaxPieces
  BY Bounds
<1>2. s \in OwnText(r) /\ Len(s) = 1 /\ \A k \in 1..1 : s[k] = Piece(r, n + k)
  BY <1>1, SegmentFacts
<1> HIDE DEF s
<1>3. s[1] = Piece(r, n + 1)  BY <1>2
<1>4. PICK x \in {r} \X Nat : x = s[1]  BY <1>1, <1>3, PieceOwn
<1>5. <<x>> \in OwnText(r) /\ Len(<<x>>) = 1 /\ \A i \in 1..1 : s[i] = <<x>>[i]
  BY <1>4 DEF OwnText
<1>6. s = <<x>>  BY <1>2, <1>5, SameText DEF OwnText
<1> QED  BY <1>3, <1>4, <1>6 DEF s

(* Merging loses no word.                                                  *)
LEMMA MergeSet ==
  ASSUME NEW r, NEW t \in OwnText(r), NEW c \in OwnText(r)
  PROVE  \A x : x \in ToSet(Merge(t, c)) <=> x \in ToSet(t) \/ x \in ToSet(c)
<1>1. /\ Len(t) \in Nat /\ DOMAIN t = 1..Len(t) /\ Len(c) \in Nat /\ DOMAIN c = 1..Len(c)
  BY DEF OwnText
<1>2. CASE t # <<>> /\ IsPrefix(t, c)
  <2>1. Len(t) <= Len(c) /\ \A i \in 1..Len(t) : t[i] = c[i]
    BY <1>2, PrefixFacts DEF OwnText
  <2>2. \A i \in DOMAIN t : i \in DOMAIN c /\ t[i] = c[i]  BY <1>1, <2>1
  <2>3. \A x : x \in ToSet(t) => x \in ToSet(c)  BY <2>2 DEF ToSet
  <2>4. Merge(t, c) = c  BY <1>2 DEF Merge
  <2> QED  BY <2>3, <2>4
<1>3. CASE ~(t # <<>> /\ IsPrefix(t, c))
  <2> DEFINE w == t \o c
  <2>1. Merge(t, c) = w  BY <1>3 DEF Merge
  <2>2. /\ DOMAIN w = 1..(Len(t) + Len(c))
        /\ \A i \in 1..Len(t) : w[i] = t[i]
        /\ \A i \in 1..(Len(t) + Len(c)) : i > Len(t) => w[i] = c[i - Len(t)]
    BY <1>1 DEF OwnText
  <2> HIDE DEF w
  <2>3. \A i \in DOMAIN t : i \in DOMAIN w /\ w[i] = t[i]  BY <1>1, <2>2
  <2>4. ASSUME NEW i \in DOMAIN c PROVE Len(t) + i \in DOMAIN w /\ w[Len(t) + i] = c[i]
    <3>1. Len(t) + i \in 1..(Len(t) + Len(c)) /\ Len(t) + i > Len(t)
          /\ (Len(t) + i) - Len(t) = i
      BY <1>1
    <3> QED  BY <2>2, <3>1
  <2>5. ASSUME NEW i \in DOMAIN w
        PROVE  (\E j \in DOMAIN t : w[i] = t[j]) \/ (\E j \in DOMAIN c : w[i] = c[j])
    <3>1. i \in 1..(Len(t) + Len(c))  BY <2>2
    <3>2. CASE i <= Len(t)
      <4>1. i \in DOMAIN t  BY <1>1, <3>1, <3>2
      <4> QED  BY <2>3, <4>1
    <3>3. CASE i > Len(t)
      <4>1. i - Len(t) \in DOMAIN c  BY <1>1, <3>1, <3>3
      <4>2. w[i] = c[i - Len(t)]  BY <2>2, <3>1, <3>3
      <4> QED  BY <4>1, <4>2
    <3> QED  BY <1>1, <3>1, <3>2, <3>3
  <2>6. \A x : x \in ToSet(w) => x \in ToSet(t) \/ x \in ToSet(c)  BY <2>5, Zenon DEF ToSet
  <2>7. \A x : x \in ToSet(t) => x \in ToSet(w)  BY <2>3, Zenon DEF ToSet
  <2>8. \A x : x \in ToSet(c) => x \in ToSet(w)
    <3> TAKE x
    <3> HAVE x \in ToSet(c)
    <3>1. PICK i \in DOMAIN c : x = c[i]  BY DEF ToSet
    <3>2. Len(t) + i \in DOMAIN w /\ w[Len(t) + i] = x  BY <2>4, <3>1
    <3> QED  BY <3>2, Zenon DEF ToSet
  <2> QED  BY <2>1, <2>6, <2>7, <2>8
<1> QED  BY <1>2, <1>3

(* Text that continues what is there.                                      *)
LEMMA MergeCovers ==
  ASSUME NEW r \in Reqs, NEW n \in 0..MaxPieces, NEW m \in 0..n, NEW a \in 0..m,
         m < n, NEW t \in OwnText(r), NEW p \in OwnText(r),
         Covers(t, r, a, m), Covers(p, r, m, n)
  PROVE  Covers(Merge(t, p), r, a, n)
<1>1. m \in 0..MaxPieces /\ a \in 0..n /\ m \in Nat /\ n \in Nat /\ a \in Nat  BY Bounds
<1>2. /\ \A x : x \in ToSet(t) <=> \E k \in (a + 1)..m : x = Piece(r, k)
      /\ \A x : x \in ToSet(p) <=> \E k \in (m + 1)..n : x = Piece(r, k)
      /\ \A x : x \in ToSet(Segment(r, a, n)) <=> \E k \in (a + 1)..n : x = Piece(r, k)
  <2>1. ToSet(t) = ToSet(Segment(r, a, m)) /\ ToSet(p) = ToSet(Segment(r, m, n))
    BY DEF Covers
  <2>2. \A x : x \in ToSet(Segment(r, a, m)) <=> \E k \in (a + 1)..m : x = Piece(r, k)
    BY <1>1, SegmentSet
  <2>3. \A x : x \in ToSet(Segment(r, m, n)) <=> \E k \in (m + 1)..n : x = Piece(r, k)
    BY SegmentSet
  <2>4. \A x : x \in ToSet(Segment(r, a, n)) <=> \E k \in (a + 1)..n : x = Piece(r, k)
    BY <1>1, SegmentSet
  <2> QED  BY <2>1, <2>2, <2>3, <2>4, Zenon
<1>3. \A k : k \in (a + 1)..n <=> k \in (a + 1)..m \/ k \in (m + 1)..n  BY <1>1
<1>4. \A x : x \in ToSet(Merge(t, p)) <=> x \in ToSet(Segment(r, a, n))
  <2>1. \A x : x \in ToSet(Merge(t, p)) <=> x \in ToSet(t) \/ x \in ToSet(p)  BY MergeSet
  <2> QED  BY <1>2, <1>3, <2>1, Zenon
<1>5. ToSet(Merge(t, p)) = ToSet(Segment(r, a, n))  BY <1>4, Zenon
<1>6. ASSUME Exact(r, "delta") PROVE Merge(t, p) = Segment(r, a, n)
  <2>1. t = Segment(r, a, m) /\ p = Segment(r, m, n)  BY <1>6 DEF Covers
  <2> QED  BY <1>6, <2>1, MergeSegment
<1> QED  BY <1>5, <1>6 DEF Covers

LEMMA MergeSome ==
  ASSUME NEW r, NEW t \in OwnText(r), NEW c \in OwnText(r), c # <<>>
  PROVE  Merge(t, c) # <<>>
<1>1. Len(c) # 0 /\ Len(c) \in Nat /\ Len(t) \in Nat  BY DEF OwnText
<1>2. t \o c # <<>>
  <2>1. Len(t \o c) = Len(t) + Len(c)  BY JoinedText DEF OwnText
  <2> QED  BY <1>1, <2>1
<1> QED  BY <1>2 DEF Merge

(* What is shown of a stream of deltas is what they cover.                 *)
LEMMA ShowsCovers ==
  ASSUME NEW r, NEW a \in 0..MaxPieces, NEW t, NEW mode
  PROVE  /\ mode = "delta" => (Shows(t, r, mode, a) <=> Covers(t, r, 0, a))
         /\ mode # "delta" => (Shows(t, r, mode, a) <=> t = Pieces(r, a))
<1>1. Segment(r, 0, a) = Pieces(r, a)  BY PiecesSegment
<1>2. mode # "delta" => Exact(r, mode)  BY DEF Exact
<1> QED  BY <1>1, <1>2, Zenon DEF Shows, Covers

LEMMA ShowsNothing ==
  ASSUME NEW r \in Reqs, NEW mode
  PROVE  Shows(<<>>, r, mode, 0)
<1>1. 0 \in 0..MaxPieces  BY Bounds
<1>2. Pieces(r, 0) \in OwnText(r) /\ Len(Pieces(r, 0)) = 0  BY <1>1, PiecesFacts
<1>3. <<>> = Pieces(r, 0)  BY <1>2 DEF OwnText
<1> QED  BY <1>3, Zenon DEF Shows

(* A chunk is buffered after the ones before it.                           *)
LEMMA ChunkFits ==
  ASSUME NEW r \in Reqs, NEW c \in Conns, c.got \in 0..MaxPieces, c.got < MaxPieces,
         c.mode # "plain", NEW p \in OwnText(r), NEW a \in 0..c.got, Fits(r, a, p, c),
         NEW d \in Conns, d.mode = c.mode, d.got = c.got + 1,
         NEW ch, ch = IF c.mode = "delta" THEN <<Piece(r, d.got)>> ELSE Pieces(r, d.got)
  PROVE  Fits(r, a, Merge(p, ch), d)
<1>1. PICK n \in 0..MaxPieces : n = c.got  OBVIOUS
<1>2. n \in Nat /\ n + 1 \in 0..MaxPieces /\ n \in 0..(n + 1) /\ a \in 0..n
      /\ a \in 0..(n + 1) /\ a < n + 1 /\ n < n + 1 /\ n < MaxPieces
  BY <1>1, Bounds
<1>3. ch \in OwnText(r) /\ ch # <<>>
  <2>1. CASE c.mode = "delta"
    <3>1. ch = Segment(r, n, n + 1)  BY <1>1, <1>2, <2>1, OneChunk
    <3>2. ch \in OwnText(r)  BY <1>2, <3>1, SegmentFacts
    <3>3. Len(ch) = (n + 1) - n  BY <1>2, <3>1, SegmentFacts
    <3>4. (n + 1) - n # 0  BY <1>2
    <3> QED  BY <3>2, <3>3, <3>4
  <2>2. CASE c.mode # "delta"
    <3>1. ch \in OwnText(r) /\ Len(ch) = n + 1  BY <1>1, <1>2, <2>2, PiecesFacts
    <3>2. n + 1 # 0  BY <1>2
    <3> QED  BY <3>1, <3>2
  <2> QED  BY <2>1, <2>2
<1>4. Merge(p, ch) # <<>>  BY <1>3, MergeSome
<1>5. CASE c.mode = "delta"
  <2>1. ch = Segment(r, n, n + 1)  BY <1>1, <1>2, <1>5, OneChunk
  <2>2. Covers(ch, r, n, n + 1)  BY <2>1 DEF Covers
  <2>3. Covers(Merge(p, ch), r, a, n + 1)
    <3>1. CASE p = <<>>
      <4>1. a = n  BY <1>1, <1>5, <3>1 DEF Fits
      <4>2. Merge(p, ch) = ch  BY <1>3, <3>1, MergeFirst
      <4> QED  BY <2>2, <4>1, <4>2
    <3>2. CASE p # <<>>
      <4>1. Covers(p, r, a, n)  BY <1>1, <1>5, <3>2 DEF Fits
      <4> QED  BY <1>2, <1>3, <2>2, <4>1, MergeCovers
    <3> QED  BY <3>1, <3>2
  <2> QED  BY <1>1, <1>2, <1>4, <1>5, <2>3 DEF Fits
<1>6. CASE c.mode # "delta"
  <2>1. ch = Pieces(r, n + 1)  BY <1>1, <1>6
  <2>2. Merge(p, ch) = Pieces(r, n + 1)
    <3>1. CASE p = <<>>
      <4> QED  BY <1>3, <2>1, <3>1, MergeFirst
    <3>2. CASE p # <<>>
      <4>1. p = Pieces(r, n)  BY <1>1, <1>6, <3>2 DEF Fits
      <4> QED  BY <1>2, <2>1, <4>1, MergeSnapshot
    <3> QED  BY <3>1, <3>2
  <2> QED  BY <1>1, <1>2, <1>4, <1>6, <2>2 DEF Fits
<1> QED  BY <1>5, <1>6

(* A batch completes what is shown.                                        *)
LEMMA BatchFits ==
  ASSUME NEW r \in Reqs, NEW c \in Conns, c.got \in 0..MaxPieces, NEW t \in OwnText(r),
         NEW p \in OwnText(r), p # <<>>, NEW a \in 0..c.got, Shows(t, r, c.mode, a),
         Fits(r, a, p, c)
  PROVE  Shows(Merge(t, p), r, c.mode, c.got) /\ Fits(r, c.got, <<>>, c)
<1>1. /\ a < c.got /\ a \in 0..MaxPieces /\ 0 \in 0..a
      /\ IF c.mode = "delta" THEN Covers(p, r, a, c.got) ELSE p = Pieces(r, c.got)
  BY Bounds DEF Fits
<1>2. CASE c.mode = "delta"
  <2>1. Covers(t, r, 0, a)  BY <1>1, <1>2, ShowsCovers
  <2>2. Covers(Merge(t, p), r, 0, c.got)  BY <1>1, <1>2, <2>1, MergeCovers
  <2>3. Shows(Merge(t, p), r, c.mode, c.got)  BY <1>2, <2>2, ShowsCovers
  <2> QED  BY <2>3 DEF Fits
<1>3. CASE c.mode # "delta"
  <2>1. t = Pieces(r, a)  BY <1>1, <1>3, ShowsCovers
  <2>2. Merge(t, p) = Pieces(r, c.got)  BY <1>1, <1>3, <2>1, MergeSnapshot
  <2>3. Shows(Merge(t, p), r, c.mode, c.got)  BY <1>3, <2>2, ShowsCovers
  <2> QED  BY <2>3 DEF Fits
<1> QED  BY <1>2, <1>3

--------------------------------------------------------------------------------
(***************************************************************************)
(* What a request, the page and the buffer know of each other.             *)
(***************************************************************************)
Answering == {"headers", "open", "plain"}

(* The two generations move together.                                      *)
OneGeneration ==
    /\ ctl.gen = gen /\ ctl.src \in 0..MaxSends /\ pend.gen \in 0..gen
    /\ \A r \in Reqs : conn[r].cgen = conn[r].gen /\ conn[r].gen <= gen

(* A current request that may still be answered holds the promise.         *)
AnswerLatched ==
    \A r \in Reqs : conn[r].gen = gen /\ conn[r].st \in Answering => latch = r

ReceivedOK(c) ==
    /\ c.got \in 0..MaxPieces
    /\ c.st = "plain" => c.mode = "plain" /\ c.got = 0
    /\ c.st \in {"headers", "open"} => c.mode # "plain"

(* A page that renders as idle has nothing under way.                      *)
IdlePage ==
    /\ flags.requesting => latch # 0
    /\ flags.streaming => latch # 0 /\ conn[latch].st = "open"
    /\ busy => sends # 0
    /\ ~busy => queue = <<>> /\ latch = 0
    /\ page # "open" => ~busy /\ lost = 1..sends
    /\ lost \subseteq 1..sends

(* What is buffered came from the request that holds the promise.          *)
BufferOwned ==
    /\ pend = [gen |-> pend.gen, text |-> pend.text]
    /\ latch # 0 => pend.gen = gen /\ pend.text \in OwnText(latch)
    /\ pend.text # <<>> => latch # 0 /\ conn[latch].st = "open"

(* Each request can be stopped once, each visit ended once.                *)
Counted ==
    /\ visits \in 0..MaxVisits
    /\ gen + (IF busy THEN 1 ELSE 0)
         <= 2 * sends + visits + (IF page = "open" THEN 0 ELSE 1)

Control ==
    /\ OneGeneration /\ AnswerLatched /\ IdlePage /\ BufferOwned /\ Counted
    /\ \A r \in Reqs : ReceivedOK(conn[r])

PageControl == PageInv /\ Control

LEMMA ControlFacts ==
  ASSUME PageControl
  PROVE  /\ gen \in Nat /\ sends \in Nat /\ sends <= MaxSends /\ latch \in 0..MaxSends
         /\ \A r \in Reqs : /\ conn[r] \in Conns /\ conn[r].gen \in Nat
                            /\ conn[r].got \in 0..MaxPieces /\ conn[r].got \in Nat
         /\ latch # 0 =>
              /\ latch \in Reqs /\ latch = sends /\ busy /\ page = "open"
              /\ flags.requesting
              /\ conn[latch].gen = gen /\ conn[latch].st \in Answering
         /\ flags.streaming \in BOOLEAN /\ flags.requesting \in BOOLEAN
         /\ busy \in BOOLEAN /\ visits \in Nat
<1> USE DEF PageControl, PageInv
<1>1. /\ gen \in Nat /\ sends \in Nat /\ sends <= MaxSends /\ latch \in 0..MaxSends
      /\ \A r \in Reqs : conn[r] \in Conns /\ conn[r].gen \in Nat
      /\ flags.streaming \in BOOLEAN /\ flags.requesting \in BOOLEAN
      /\ busy \in BOOLEAN
  BY FieldTypes, Bounds DEF Types
<1>2. \A r \in Reqs : conn[r].got \in 0..MaxPieces /\ conn[r].got \in Nat
  BY Bounds DEF Control, ReceivedOK
<1>3. latch # 0 =>
        /\ latch \in Reqs /\ busy /\ page = "open" /\ flags.requesting
        /\ conn[latch].gen = gen /\ conn[latch].st \in Answering
  BY <1>1, Bounds DEF Latched, Answering
<1>4. latch # 0 => latch = sends  BY <1>3 DEF LastIsCurrent, Answering
<1>5. visits \in Nat  BY PlaygroundBounds DEF Control, Counted
<1> QED  BY <1>1, <1>2, <1>3, <1>4, <1>5

(* The connection of r changes; r stays in its generation.                 *)
LEMMA ConnControl ==
  ASSUME PageControl, NEW r \in Reqs, NEW c \in Conns,
         conn[r].st # "none", c.gen = conn[r].gen, c.cgen = conn[r].cgen, c.mode = conn[r].mode,
         c.st \in Answering => conn[r].st \in Answering,
         ReceivedOK(c),
         conn' = [conn EXCEPT ![r] = c], UNCHANGED <<gen, sends>>, ctl'.gen = ctl.gen,
         ctl'.src \in 0..MaxSends, pend'.gen = pend.gen,
         latch' = latch \/ (c.st = "closed" /\ conn[r].gen = gen /\ latch' = 0)
  PROVE  /\ OneGeneration' /\ AnswerLatched' /\ \A s \in Reqs : ReceivedOK(conn'[s])
         /\ conn'[r] = c /\ \A s \in Reqs \ {r} : conn'[s] = conn[s]
<1> USE ControlFacts
<1>1. conn'[r] = c /\ \A s \in Reqs \ {r} : conn'[s] = conn[s]
  BY DEF PageControl, PageInv, Types
<1>2. OneGeneration'  BY <1>1 DEF PageControl, Control, OneGeneration
<1>3. \A s \in Reqs : ReceivedOK(conn'[s])  BY <1>1 DEF PageControl, Control
<1>4. AnswerLatched'
  <2> SUFFICES ASSUME NEW s \in Reqs, conn'[s].gen = gen, conn'[s].st \in Answering
               PROVE  latch' = s
    BY DEF AnswerLatched
  <2>1. conn[s].gen = gen /\ conn[s].st \in Answering
    <3>1. CASE s = r  BY <1>1, <3>1
    <3>2. CASE s # r  BY <1>1, <3>2
    <3> QED  BY <3>1, <3>2
  <2>2. latch = s  BY <2>1 DEF PageControl, Control, AnswerLatched
  <2>3. latch' = latch
    <3> SUFFICES ASSUME c.st = "closed", conn[r].gen = gen  PROVE FALSE
      OBVIOUS
    <3>1. s # r  BY <1>1 DEF Answering
    <3>2. s = sends /\ r = sends
      BY <2>1 DEF PageControl, PageInv, LastIsCurrent, Answering
    <3> QED  BY <3>1, <3>2
  <2> QED  BY <2>2, <2>3
<1> QED  BY <1>1, <1>2, <1>3, <1>4

LEMMA StreamOpenControl ==
  ASSUME PageControl, NEW r \in Reqs, StreamOpen(r)
  PROVE  Control'
<1> USE ControlFacts DEF PageControl
<1>1. /\ conn[r].st = "headers"
      /\ UNCHANGED <<gen, pend, latch, queue, busy, page, sends, visits, lost>>
  BY DEF StreamOpen
<1>2. Counted'  BY <1>1 DEF Control, Counted
<1>3. CASE ctl.gen = conn[r].cgen
  <2>1. PICK c : c = [conn[r] EXCEPT !.st = "open"]  OBVIOUS
  <2>2. /\ c \in Conns /\ c.gen = conn[r].gen /\ c.cgen = conn[r].cgen /\ c.st = "open"
        /\ c.mode = conn[r].mode /\ c.got = conn[r].got
    BY <2>1 DEF Conns
  <2>3. conn' = [conn EXCEPT ![r] = c] /\ ctl' = [ctl EXCEPT !.src = r]
        /\ flags' = [flags EXCEPT !.streaming = TRUE]
    BY <1>3, <2>1 DEF StreamOpen
  <2>4. ctl'.gen = ctl.gen /\ ctl'.src \in 0..MaxSends
    BY <2>3, Bounds DEF PageInv, Types
  <2>5. /\ ReceivedOK(c) /\ conn[r].st # "none" /\ pend'.gen = pend.gen
        /\ conn[r].st \in Answering
    BY <1>1, <2>2 DEF Control, ReceivedOK, Answering
  <2>6. /\ OneGeneration' /\ AnswerLatched' /\ \A s \in Reqs : ReceivedOK(conn'[s])
        /\ conn'[r] = c /\ \A s \in Reqs \ {r} : conn'[s] = conn[s]
    <3> HIDE ControlFacts DEF PageControl
    <3> QED  BY <1>1, <2>2, <2>3, <2>4, <2>5, ConnControl
  <2>7. latch = r
    BY <1>1, <1>3 DEF Control, OneGeneration, AnswerLatched, Answering
  <2>8. flags'.requesting = flags.requesting  BY <2>3 DEF PageInv, Types
  <2>9. IdlePage'  BY <1>1, <2>2, <2>6, <2>7, <2>8, Bounds DEF Control, IdlePage
  <2>10. BufferOwned'  BY <1>1, <2>2, <2>6, <2>7 DEF Control, BufferOwned
  <2> QED  BY <1>2, <2>6, <2>9, <2>10 DEF Control
<1>4. CASE ctl.gen # conn[r].cgen
  <2>1. PICK c : c = [conn[r] EXCEPT !.st = "closed"]  OBVIOUS
  <2>2. /\ c \in Conns /\ c.gen = conn[r].gen /\ c.cgen = conn[r].cgen /\ c.st = "closed"
        /\ c.mode = conn[r].mode /\ c.got = conn[r].got
    BY <2>1 DEF Conns
  <2>3. conn' = [conn EXCEPT ![r] = c] /\ UNCHANGED <<ctl, flags>>
    BY <1>4, <2>1 DEF StreamOpen
  <2>4. ctl'.gen = ctl.gen /\ ctl'.src \in 0..MaxSends
    BY <2>3 DEF Control, OneGeneration
  <2>5. /\ ReceivedOK(c) /\ conn[r].st # "none" /\ pend'.gen = pend.gen
        /\ c.st \notin Answering
    BY <1>1, <2>2 DEF Control, ReceivedOK, Answering
  <2>6. /\ OneGeneration' /\ AnswerLatched' /\ \A s \in Reqs : ReceivedOK(conn'[s])
        /\ conn'[r] = c /\ \A s \in Reqs \ {r} : conn'[s] = conn[s]
    <3> HIDE ControlFacts DEF PageControl
    <3> QED  BY <1>1, <2>2, <2>3, <2>4, <2>5, ConnControl
  <2>7. latch # r  BY <1>4, Bounds DEF Control, OneGeneration
  <2>8. IdlePage'  BY <1>1, <2>3, <2>6, <2>7 DEF Control, IdlePage
  <2>9. BufferOwned'  BY <1>1, <2>6, <2>7 DEF Control, BufferOwned
  <2> QED  BY <1>2, <2>6, <2>8, <2>9 DEF Control
<1> QED  BY <1>3, <1>4

(* The end of a current request.                                           *)
LEMMA EndControl ==
  ASSUME PageControl, NEW r \in Reqs, NEW c \in Conns,
         conn[r].gen = gen, conn[r].st \in Answering,
         c.st = "closed", c.gen = conn[r].gen, c.cgen = conn[r].cgen, c.mode = conn[r].mode,
         c.got \in 0..MaxPieces,
         conn' = [conn EXCEPT ![r] = c], ctl'.gen = ctl.gen, ctl'.src \in 0..MaxSends,
         ~flags'.streaming, ~flags'.requesting, latch' = 0,
         pend' = [gen |-> pend.gen, text |-> <<>>],
         UNCHANGED <<gen, busy, page, sends, visits, lost>>
  PROVE  Control'
<1> USE ControlFacts DEF PageControl
<1>1. /\ ReceivedOK(c) /\ conn[r].st # "none" /\ c.st \notin Answering
      /\ latch' = latch \/ (c.st = "closed" /\ conn[r].gen = gen /\ latch' = 0)
  BY DEF ReceivedOK, Answering
<1>2. pend'.gen = pend.gen /\ pend'.text = <<>>  OBVIOUS
<1>3. /\ OneGeneration' /\ AnswerLatched' /\ \A s \in Reqs : ReceivedOK(conn'[s])
  <2> HIDE ControlFacts DEF PageControl
  <2> QED  BY <1>1, <1>2, ConnControl
<1>4. latch = r  BY DEF Control, AnswerLatched
<1>5. IdlePage'  BY <1>4, Bounds DEF Control, IdlePage
<1>6. BufferOwned'  BY <1>2 DEF BufferOwned
<1>7. Counted'  BY DEF Control, Counted
<1> QED  BY <1>3, <1>5, <1>6, <1>7 DEF Control

LEMMA ClosedConn ==
  ASSUME NEW c \in Conns, NEW d, d = [c EXCEPT !.st = "closed"]
  PROVE  /\ d \in Conns /\ d.st = "closed" /\ d.gen = c.gen /\ d.cgen = c.cgen
         /\ d.mode = c.mode /\ d.got = c.got
  BY DEF Conns

(* The end of a current request flushes its buffer and queues u.           *)
LEMMA FinishFacts ==
  ASSUME PageControl, latch # 0, NEW kind, NEW ok, Finish(gen, kind, ok)
  PROVE  /\ pend' = [gen |-> pend.gen, text |-> <<>>] /\ latch' = 0
         /\ queue' = queue \o Batch(gen) \o <<Updater(kind, gen, <<>>, <<>>)>>
<1>1. Flush(gen) /\ latch' = 0
      /\ queue' = queue \o Batch(gen) \o <<Updater(kind, gen, <<>>, <<>>)>>
  BY DEF Finish
<1>2. pend.gen = gen /\ pend = [gen |-> pend.gen, text |-> pend.text]
  BY DEF PageControl, Control, BufferOwned
<1>3. pend' = [pend EXCEPT !.text = <<>>]  BY <1>1, <1>2 DEF Flush
<1> QED  BY <1>1, <1>2, <1>3

LEMMA StreamEndControl ==
  ASSUME PageControl, NEW r \in Reqs, NEW kind, NEW ok, StreamEnd(r, kind, ok)
  PROVE  Control' /\ latch = r /\ Finish(gen, kind, ok)
         /\ conn' = [conn EXCEPT ![r].st = "closed"] 
         /\ UNCHANGED <<gen, busy, msgs, editor, disk, page, sends, edits, visits, lost>>
<1> USE ControlFacts DEF PageControl
<1>1. /\ conn[r].st = "open" /\ ctl.gen = conn[r].cgen /\ ctl' = [ctl EXCEPT !.src = 0]
      /\ conn' = [conn EXCEPT ![r].st = "closed"]
      /\ Finish(conn[r].gen, kind, ok)
      /\ UNCHANGED <<gen, busy, msgs, editor, disk, page, sends, edits, visits, lost>>
  BY DEF StreamEnd, IsCurrent
<1>2. conn[r].gen = gen  BY <1>1 DEF Control, OneGeneration
<1>3. latch = r /\ r # 0  BY <1>1, <1>2, Bounds DEF Control, AnswerLatched, Answering
<1>4. PICK c : c = [conn[r] EXCEPT !.st = "closed"]  OBVIOUS
<1>5. /\ c \in Conns /\ c.st = "closed" /\ c.gen = conn[r].gen /\ c.cgen = conn[r].cgen
      /\ c.mode = conn[r].mode /\ c.got = conn[r].got
  BY <1>4, ClosedConn
<1>6. conn' = [conn EXCEPT ![r] = c]  BY <1>1, <1>4
<1>7. ctl'.gen = ctl.gen /\ ctl'.src \in 0..MaxSends  BY <1>1, Bounds DEF PageInv, Types
<1>8. flags' = [streaming |-> FALSE, requesting |-> FALSE]  BY <1>2 DEF StreamEnd
<1>9. ~flags'.streaming /\ ~flags'.requesting  BY <1>8
<1>10. Finish(gen, kind, ok)  BY <1>1, <1>2
<1>11. pend' = [gen |-> pend.gen, text |-> <<>>] /\ latch' = 0
  BY <1>3, <1>10, FinishFacts
<1>12. Control'
  BY <1>1, <1>2, <1>5, <1>6, <1>7, <1>9, <1>11, EndControl DEF Answering
<1> QED  BY <1>1, <1>3, <1>10, <1>12

LEMMA StreamStartErrorControl ==
  ASSUME PageControl, NEW r \in Reqs, StreamStartError(r)
  PROVE  Control' /\ latch = r /\ Finish(gen, "error", FALSE)
         /\ conn' = [conn EXCEPT ![r].st = "closed"]
         /\ UNCHANGED <<gen, busy, msgs, editor, disk, page, sends, edits, visits, lost>>
<1> USE ControlFacts DEF PageControl
<1>1. /\ conn[r].st = "headers" /\ ctl.gen = conn[r].cgen
      /\ conn' = [conn EXCEPT ![r].st = "closed"]
      /\ Finish(conn[r].gen, "error", FALSE)
      /\ UNCHANGED <<gen, ctl, busy, msgs, editor, disk, page, sends, edits, visits, lost>>
  BY DEF StreamStartError
<1>2. conn[r].gen = gen  BY <1>1 DEF Control, OneGeneration
<1>3. latch = r /\ r # 0  BY <1>1, <1>2, Bounds DEF Control, AnswerLatched, Answering
<1>4. PICK c : c = [conn[r] EXCEPT !.st = "closed"]  OBVIOUS
<1>5. /\ c \in Conns /\ c.st = "closed" /\ c.gen = conn[r].gen /\ c.cgen = conn[r].cgen
      /\ c.mode = conn[r].mode /\ c.got = conn[r].got
  BY <1>4, ClosedConn
<1>6. conn' = [conn EXCEPT ![r] = c]  BY <1>1, <1>4
<1>7. ctl'.gen = ctl.gen /\ ctl'.src \in 0..MaxSends  BY <1>1 DEF Control, OneGeneration
<1>8. flags' = [flags EXCEPT !.requesting = FALSE]  BY <1>2 DEF StreamStartError
<1>9. ~flags'.streaming /\ ~flags'.requesting
  BY <1>1, <1>3, <1>8 DEF PageInv, Types, Control, IdlePage
<1>10. Finish(gen, "error", FALSE)  BY <1>1, <1>2
<1>11. pend' = [gen |-> pend.gen, text |-> <<>>] /\ latch' = 0
  BY <1>3, <1>10, FinishFacts
<1>12. Control'
  BY <1>1, <1>2, <1>5, <1>6, <1>7, <1>9, <1>11, EndControl DEF Answering
<1> QED  BY <1>1, <1>3, <1>10, <1>12

LEMMA PlainErrorControl ==
  ASSUME PageControl, NEW r \in Reqs, PlainError(r)
  PROVE  Control' /\ latch = r /\ Finish(gen, "error", FALSE)
         /\ conn' = [conn EXCEPT ![r].st = "closed"]
         /\ UNCHANGED <<gen, busy, msgs, editor, disk, page, sends, edits, visits, lost>>
<1> USE ControlFacts DEF PageControl
<1>1. /\ conn[r].st = "plain" /\ conn[r].gen = gen
      /\ conn' = [conn EXCEPT ![r].st = "closed"]
      /\ Finish(gen, "error", FALSE) /\ flags' = [flags EXCEPT !.requesting = FALSE]
      /\ UNCHANGED <<gen, ctl, busy, msgs, editor, disk, page, sends, edits, visits, lost>>
  BY DEF PlainError
<1>2. latch = r /\ r # 0  BY <1>1, Bounds DEF Control, AnswerLatched, Answering
<1>3. PICK c : c = [conn[r] EXCEPT !.st = "closed"]  OBVIOUS
<1>4. /\ c \in Conns /\ c.st = "closed" /\ c.gen = conn[r].gen /\ c.cgen = conn[r].cgen
      /\ c.mode = conn[r].mode /\ c.got = conn[r].got
  BY <1>3, ClosedConn
<1>5. conn' = [conn EXCEPT ![r] = c]  BY <1>1, <1>3
<1>6. ctl'.gen = ctl.gen /\ ctl'.src \in 0..MaxSends  BY <1>1 DEF Control, OneGeneration
<1>7. ~flags'.streaming /\ ~flags'.requesting
  BY <1>1, <1>2 DEF PageInv, Types, Control, IdlePage
<1>8. pend' = [gen |-> pend.gen, text |-> <<>>] /\ latch' = 0
  BY <1>1, <1>2, FinishFacts
<1>9. Control'
  BY <1>1, <1>4, <1>5, <1>6, <1>7, <1>8, EndControl DEF Answering
<1> QED  BY <1>1, <1>2, <1>9

LEMMA PlainAnswerControl ==
  ASSUME PageControl, NEW r \in Reqs, PlainAnswer(r)
  PROVE  Control' /\ latch = r /\ pend.text = <<>>
<1> USE ControlFacts DEF PageControl
<1>1. /\ conn[r].st = "plain" /\ conn[r].gen = gen
      /\ conn' = [conn EXCEPT ![r].st = "closed", ![r].got = MaxPieces]
      /\ latch' = 0 /\ flags' = [flags EXCEPT !.requesting = FALSE]
      /\ UNCHANGED <<gen, ctl, pend, busy, page, sends, visits, lost>>
  BY DEF PlainAnswer
<1>2. latch = r /\ r # 0  BY <1>1, Bounds DEF Control, AnswerLatched, Answering
<1>3. PICK c : c = [conn[r] EXCEPT !.st = "closed", !.got = MaxPieces]  OBVIOUS
<1>4. /\ c \in Conns /\ c.st = "closed" /\ c.gen = conn[r].gen /\ c.cgen = conn[r].cgen
      /\ c.mode = conn[r].mode /\ c.got = MaxPieces /\ MaxPieces \in 0..MaxPieces
  <2>1. conn[r] \in Conns /\ MaxPieces \in Nat  BY Bounds
  <2>2. MaxPieces \in 0..MaxPieces  BY <2>1
  <2> HIDE ControlFacts
  <2> QED  BY <1>3, <2>1, <2>2 DEF Conns
<1>5. conn' = [conn EXCEPT ![r] = c]  BY <1>1, <1>3 DEF PageInv, Types
<1>6. ctl'.gen = ctl.gen /\ ctl'.src \in 0..MaxSends  BY <1>1 DEF Control, OneGeneration
<1>7. ~flags'.streaming /\ ~flags'.requesting
  BY <1>1, <1>2 DEF PageInv, Types, Control, IdlePage
<1>8. pend.text = <<>> /\ pend' = [gen |-> pend.gen, text |-> <<>>]
  BY <1>1, <1>2 DEF Control, BufferOwned
<1>9. Control'
  BY <1>1, <1>4, <1>5, <1>6, <1>7, <1>8, EndControl DEF Answering
<1> QED  BY <1>2, <1>8, <1>9

LEMMA StreamChunkControl ==
  ASSUME PageControl, NEW r \in Reqs, StreamChunk(r)
  PROVE  /\ Control' /\ latch = r
         /\ \E c \in Conns :
              /\ conn' = [conn EXCEPT ![r] = c] /\ c.mode = conn[r].mode
              /\ c.mode # "plain" /\ conn[r].got < MaxPieces /\ c.got = conn[r].got + 1
              /\ conn'[r] = c /\ \A s \in Reqs \ {r} : conn'[s] = conn[s]
         /\ pend'.text = Merge(pend.text, Chunk(r, conn[r].got + 1))
<1> USE ControlFacts DEF PageControl
<1>1. /\ conn[r].st = "open" /\ conn[r].got < MaxPieces /\ conn[r].gen = gen
      /\ pend' = [pend EXCEPT !.text = Merge(@, Chunk(r, conn[r].got + 1))]
      /\ conn' = [conn EXCEPT ![r].got = @ + 1]
      /\ UNCHANGED <<gen, ctl, latch, queue, flags, busy, page, sends, visits, lost>>
  BY DEF StreamChunk
<1>2. latch = r /\ r # 0  BY <1>1, Bounds DEF Control, AnswerLatched, Answering
<1>3. /\ pend = [gen |-> pend.gen, text |-> pend.text] /\ pend.gen = gen
      /\ pend.text \in OwnText(r)
  BY <1>2 DEF Control, BufferOwned
<1>4. PICK n \in 0..MaxPieces : n = conn[r].got + 1 /\ n \in Nat
  BY <1>1, Bounds
<1>5. PICK c : c = [conn[r] EXCEPT !.got = n]  OBVIOUS
<1>6. /\ c \in Conns /\ c.st = "open" /\ c.gen = conn[r].gen /\ c.cgen = conn[r].cgen
      /\ c.mode = conn[r].mode /\ c.got = n
  <2>1. conn[r] \in Conns  OBVIOUS
  <2> HIDE ControlFacts
  <2> QED  BY <1>1, <1>4, <1>5, <2>1 DEF Conns
<1>7. conn' = [conn EXCEPT ![r] = c]  BY <1>1, <1>4, <1>5 DEF PageInv, Types
<1>8. conn[r].mode # "plain" /\ ReceivedOK(c)
  BY <1>1, <1>4, <1>6 DEF Control, ReceivedOK
<1>9. Chunk(r, n) \in OwnText(r)
  <2>1. CASE conn[r].mode = "delta"
    <3>1. n \in 1..MaxPieces  BY <1>4, Bounds
    <3>2. Piece(r, n) \in {r} \X Nat  BY <3>1, PieceOwn
    <3> QED  BY <2>1, <3>2 DEF Chunk, OwnText
  <2>2. CASE conn[r].mode # "delta"  BY <1>4, <2>2, PiecesFacts DEF Chunk
  <2> QED  BY <2>1, <2>2
<1>10. /\ pend' = [gen |-> pend'.gen, text |-> pend'.text] /\ pend'.gen = pend.gen
       /\ pend'.text = Merge(pend.text, Chunk(r, n))
  BY <1>1, <1>3, <1>4
<1>11. pend'.text \in OwnText(r)  BY <1>3, <1>9, <1>10, MergeOwn
<1>12. ctl'.gen = ctl.gen /\ ctl'.src \in 0..MaxSends /\ conn[r].st \in Answering
       /\ conn[r].st # "none"
  BY <1>1 DEF Control, OneGeneration, Answering
<1>13. /\ OneGeneration' /\ AnswerLatched' /\ \A s \in Reqs : ReceivedOK(conn'[s])
       /\ conn'[r] = c /\ \A s \in Reqs \ {r} : conn'[s] = conn[s]
  <2> HIDE ControlFacts DEF PageControl
  <2> QED  BY <1>1, <1>6, <1>7, <1>8, <1>10, <1>12, ConnControl
<1>14. IdlePage'  BY <1>1, <1>2, <1>6, <1>13 DEF Control, IdlePage
<1>15. BufferOwned'  BY <1>1, <1>2, <1>3, <1>6, <1>10, <1>11, <1>13 DEF BufferOwned
<1>16. Counted'  BY <1>1 DEF Control, Counted
<1>17. Control'  BY <1>13, <1>14, <1>15, <1>16 DEF Control
<1> QED  BY <1>1, <1>2, <1>4, <1>6, <1>7, <1>8, <1>10, <1>13, <1>17

(* Steps that leave the requests alone.                                    *)
LEMMA StillControl ==
  ASSUME PageControl, UNCHANGED <<gen, ctl, conn, pend, latch, queue, flags, busy, page,
                                  sends, visits, lost>>
  PROVE  Control'
  BY DEF PageControl, Control, OneGeneration, AnswerLatched, IdlePage, BufferOwned,
         Counted, ReceivedOK

LEMMA FlushTimerControl ==
  ASSUME PageControl, FlushTimer
  PROVE  Control' /\ timer = gen /\ busy' = busy /\ gen' = gen
<1> USE ControlFacts DEF PageControl
<1>1. /\ timer # 0 /\ queue' = queue \o Batch(timer) /\ Flush(timer)
      /\ UNCHANGED <<gen, ctl, conn, latch, flags, busy, page, sends, visits, lost>>
  BY DEF FlushTimer
<1>2. timer = gen  BY <1>1 DEF PageInv, Buffered
<1>3. pend' = [gen |-> pend.gen, text |-> <<>>] \/ pend' = pend
  <2>1. pend = [gen |-> pend.gen, text |-> pend.text]  BY DEF Control, BufferOwned
  <2>2. CASE pend.gen = gen
    <3>1. pend' = [pend EXCEPT !.text = <<>>]  BY <1>1, <1>2, <2>2 DEF Flush
    <3> QED  BY <2>1, <3>1
  <2>3. CASE pend.gen # gen  BY <1>1, <1>2, <2>3 DEF Flush
  <2> QED  BY <2>2, <2>3
<1>4. /\ pend' = [gen |-> pend'.gen, text |-> pend'.text] /\ pend'.gen = pend.gen
      /\ pend'.text = <<>> \/ pend'.text = pend.text
  <2>1. pend = [gen |-> pend.gen, text |-> pend.text]  BY DEF Control, BufferOwned
  <2> QED  BY <1>3, <2>1
<1>5. <<>> \in OwnText(latch)  BY DEF OwnText
<1>6. BufferOwned'  BY <1>1, <1>4, <1>5 DEF Control, BufferOwned
<1>7. ~busy => pend.text = <<>>  BY DEF Control, BufferOwned, IdlePage
<1>8. ~busy => queue' = queue
  <2>1. ~busy => Batch(timer) = <<>>  BY <1>7 DEF Batch
  <2>2. ~busy => queue = <<>>  BY DEF Control, IdlePage
  <2> QED  BY <1>1, <2>1, <2>2
<1>9. IdlePage'  BY <1>1, <1>8 DEF Control, IdlePage
<1>10. OneGeneration' /\ AnswerLatched' /\ Counted'
  BY <1>1, <1>4 DEF Control, OneGeneration, AnswerLatched, Counted
<1> QED  BY <1>1, <1>2, <1>6, <1>9, <1>10 DEF Control, ReceivedOK

(* A rendering that leaves the requests alone.                             *)
LEMMA RenderControl ==
  ASSUME PageControl, page = "open", NEW q, Rendered(q, gen), flags' = flags,
         UNCHANGED <<gen, ctl, conn, pend, latch, page, sends, visits>>,
         lost' \subseteq 1..sends
  PROVE  Control'
<1> USE ControlFacts DEF PageControl
<1>1. busy' = (flags.streaming \/ flags.requesting) /\ queue' = <<>>  BY DEF Rendered
<1>2. latch # 0 <=> busy'
  <2>1. latch # 0 => flags.requesting  OBVIOUS
  <2>2. flags.requesting \/ flags.streaming => latch # 0  BY DEF Control, IdlePage
  <2> QED  BY <1>1, <2>1, <2>2
<1>3. IdlePage'  BY <1>1, <1>2 DEF Control, IdlePage
<1>4. Counted'  BY <1>2 DEF Control, Counted
<1>5. OneGeneration' /\ AnswerLatched' /\ BufferOwned'
  BY DEF Control, OneGeneration, AnswerLatched, BufferOwned
<1> QED  BY <1>3, <1>4, <1>5 DEF Control, ReceivedOK

(* The generations move on and no request is left current.                 *)
LEMMA AbandonControl ==
  ASSUME PageControl, gen' = gen + 1, ctl' = [gen |-> ctl.gen + 1, src |-> 0],
         NEW g \in 0..gen', pend' = [gen |-> g, text |-> <<>>], latch' = 0,
         flags' = IdleFlags, queue' = <<>>, busy' = FALSE, UNCHANGED <<conn, sends, visits>>,
         lost' \subseteq 1..sends, page' # "open" => lost' = 1..sends, Counted'
  PROVE  Control'
<1> USE ControlFacts DEF PageControl
<1>1. ctl'.gen = ctl.gen + 1 /\ ctl'.src = 0 /\ pend'.gen = g /\ pend'.text = <<>>
  OBVIOUS
<1>2. OneGeneration'
  <2>1. ctl'.gen = gen' /\ ctl'.src \in 0..MaxSends
    BY <1>1, Bounds DEF Control, OneGeneration
  <2>2. \A r \in Reqs : conn[r].cgen = conn[r].gen /\ conn[r].gen <= gen'
    BY DEF Control, OneGeneration
  <2> QED  BY <1>1, <2>1, <2>2 DEF OneGeneration
<1>3. AnswerLatched'
  <2>1. \A r \in Reqs : conn[r].gen # gen'  BY DEF Control, OneGeneration
  <2> QED  BY <2>1 DEF AnswerLatched
<1>4. ~flags'.streaming /\ ~flags'.requesting  BY DEF IdleFlags
<1>5. IdlePage'  BY <1>4 DEF IdlePage
<1>6. BufferOwned'  BY <1>1 DEF BufferOwned
<1> QED  BY <1>2, <1>3, <1>5, <1>6 DEF Control, ReceivedOK

LEMMA StopControl ==
  ASSUME PageControl, Stop
  PROVE  Control'
<1> USE ControlFacts
<1>1. /\ page = "open" /\ busy /\ gen' = gen + 1 /\ latch' = 0
      /\ pend' = [gen |-> gen', text |-> <<>>]
      /\ ctl' = [gen |-> ctl.gen + 1, src |-> 0] /\ flags' = IdleFlags
      /\ UNCHANGED <<conn, page, sends, visits, lost>>
  BY DEF Stop
<1>2. queue' = <<>> /\ busy' = (flags'.streaming \/ flags'.requesting)
  BY DEF Stop, Rendered
<1>3. busy' = FALSE  BY <1>1, <1>2 DEF IdleFlags
<1>4. lost \subseteq 1..sends  BY DEF PageControl, Control, IdlePage
<1>5. gen + 1 <= 2 * sends + visits  BY <1>1 DEF PageControl, Control, Counted
<1>6. Counted'
  <2>1. gen' + 0 <= 2 * sends + visits + 0  BY <1>1, <1>5
  <2> QED  BY <1>1, <1>3, <2>1 DEF PageControl, Control, Counted
<1>7. gen' \in 0..gen'  BY <1>1
<1> HIDE ControlFacts
<1> QED  BY <1>1, <1>2, <1>3, <1>4, <1>6, <1>7, AbandonControl

LEMMA UnmountedControl ==
  ASSUME PageControl, Unmounted, page = "open", page' # "open"
  PROVE  Control'
<1> USE ControlFacts
<1>1. /\ gen' = gen + 1 /\ latch' = 0 /\ pend' = [gen |-> 0, text |-> <<>>]
      /\ ctl' = [gen |-> ctl.gen + 1, src |-> 0] /\ flags' = IdleFlags
      /\ queue' = <<>> /\ busy' = FALSE /\ lost' = 1..sends
      /\ UNCHANGED <<conn, sends, visits>>
  BY DEF Unmounted
<1>2. gen <= 2 * sends + visits
  <2>1. gen + (IF busy THEN 1 ELSE 0) <= 2 * sends + visits + 0
    BY DEF PageControl, Control, Counted
  <2> QED  BY <2>1
<1>3. Counted'
  <2>1. gen' + 0 <= 2 * sends + visits + 1  BY <1>1, <1>2
  <2> QED  BY <1>1, <2>1 DEF PageControl, Control, Counted
<1>4. 0 \in 0..gen'  BY <1>1
<1> HIDE ControlFacts
<1> QED  BY <1>1, <1>3, <1>4, AbandonControl

LEMMA LoadControl ==
  ASSUME PageControl, Load
  PROVE  Control'
<1> USE ControlFacts
<1>1. /\ page # "open" /\ page' = "open" /\ visits < MaxVisits /\ visits' = visits + 1
      /\ UNCHANGED <<gen, ctl, conn, pend, latch, queue, flags, busy, sends, lost>>
  BY DEF Load
<1>2. ~busy /\ gen <= 2 * sends + visits + 1
  <2>1. ~busy  BY <1>1 DEF PageControl, Control, IdlePage
  <2>2. gen + 0 <= 2 * sends + visits + 1
    BY <1>1, <2>1 DEF PageControl, Control, Counted
  <2> QED  BY <2>1, <2>2
<1>3. Counted'
  <2>1. gen' + 0 <= 2 * sends' + visits' + 0  BY <1>1, <1>2
  <2>2. visits' \in 0..MaxVisits  BY <1>1, PlaygroundBounds
  <2> QED  BY <1>1, <1>2, <2>1, <2>2 DEF Counted
<1>4. IdlePage'  BY <1>1 DEF PageControl, Control, IdlePage
<1>5. OneGeneration' /\ AnswerLatched' /\ BufferOwned'
  BY <1>1 DEF PageControl, Control, OneGeneration, AnswerLatched, BufferOwned
<1> QED  BY <1>1, <1>3, <1>4, <1>5 DEF PageControl, Control, ReceivedOK

LEMMA DispatchControl ==
  ASSUME PageControl, page = "open", sends < MaxSends, NEW mode \in Modes, NEW list,
         NEW claim, Dispatch(sends + 1, mode, list, claim)
  PROVE  /\ Control' /\ sends + 1 \in Reqs /\ sends' = sends + 1 /\ latch' = sends'
         /\ busy' /\ queue' = <<>> /\ pend'.text = <<>> /\ lost' = lost
         /\ conn'[sends'].got = 0 /\ conn'[sends'].mode = mode
         /\ \A s \in Reqs : s # sends' => conn'[s] = conn[s]
<1> USE ControlFacts DEF PageControl
<1>1. PICK r \in Reqs : r = sends + 1 /\ r \in Nat  BY Bounds
<1>2. /\ gen' = gen + 1 /\ latch' = r /\ sends' = r
      /\ pend' = [gen |-> gen + 1, text |-> <<>>]
      /\ ctl' = [gen |-> ctl.gen + 1, src |-> 0]
      /\ flags' = [streaming |-> FALSE, requesting |-> TRUE]
      /\ UNCHANGED <<page, visits, lost>>
  BY <1>1 DEF Dispatch
<1>3. queue' = <<>> /\ busy' = (flags'.streaming \/ flags'.requesting)
  BY DEF Dispatch, Rendered
<1>4. ~flags'.streaming /\ flags'.requesting /\ busy'  BY <1>2, <1>3
<1>5. PICK st \in {"plain", "headers"} : st = IF mode = "plain" THEN "plain" ELSE "headers"
  OBVIOUS
<1>6. PICK c : c = [mode |-> mode, st |-> st, gen |-> gen + 1, cgen |-> ctl.gen + 1, got |-> 0]
  OBVIOUS
<1>7. /\ c.st = st /\ c.gen = gen + 1 /\ c.cgen = ctl.gen + 1 /\ c.got = 0
      /\ c.mode = mode
  BY <1>6
<1>8. conn'[r] = c /\ \A s \in Reqs \ {r} : conn'[s] = conn[s]
  BY <1>1, <1>5, <1>6 DEF Dispatch, PageInv, Types
<1>9. ctl.gen = gen  BY DEF Control, OneGeneration
<1>10. /\ ctl'.gen = gen' /\ ctl'.src = 0 /\ pend'.gen = gen' /\ pend'.text = <<>>
       /\ gen' \in Nat
  BY <1>2, <1>9
<1>11. OneGeneration'
  <2>1. \A s \in Reqs : conn'[s].cgen = conn'[s].gen /\ conn'[s].gen <= gen'
    <3> TAKE s \in Reqs
    <3>1. CASE s = r  BY <1>2, <1>7, <1>8, <1>9, <3>1
    <3>2. CASE s # r
      <4>1. conn[s].cgen = conn[s].gen /\ conn[s].gen <= gen /\ conn[s].gen \in Nat
        BY DEF Control, OneGeneration
      <4> QED  BY <1>2, <1>8, <3>2, <4>1
    <3> QED  BY <3>1, <3>2
  <2>2. ctl'.src \in 0..MaxSends  BY <1>10, Bounds
  <2> QED  BY <1>10, <2>1, <2>2 DEF OneGeneration
<1>12. AnswerLatched'
  <2> SUFFICES ASSUME NEW s \in Reqs, conn'[s].gen = gen'  PROVE s = r
    BY <1>2 DEF AnswerLatched
  <2> SUFFICES ASSUME s # r  PROVE FALSE  OBVIOUS
  <2>1. conn[s].gen <= gen /\ conn[s].gen \in Nat  BY DEF Control, OneGeneration
  <2> QED  BY <1>2, <1>8, <2>1
<1>13. \A s \in Reqs : ReceivedOK(conn'[s])
  <2>1. ReceivedOK(c)  BY <1>5, <1>7, Bounds DEF ReceivedOK
  <2> QED  BY <1>8, <2>1 DEF Control
<1>14. BufferOwned'
  <2>1. <<>> \in OwnText(r)  BY DEF OwnText
  <2>2. pend' = [gen |-> pend'.gen, text |-> pend'.text]  BY <1>2
  <2> QED  BY <1>2, <1>10, <2>1, <2>2 DEF BufferOwned
<1>15. IdlePage'
  <2>1. lost \subseteq 1..sends /\ 1..sends \subseteq 1..r
    BY <1>1 DEF Control, IdlePage
  <2> QED  BY <1>1, <1>2, <1>4, <2>1, Bounds DEF IdlePage
<1>16. Counted'
  <2>1. gen + (IF busy THEN 1 ELSE 0) <= 2 * sends + visits + 0
    BY DEF Control, Counted
  <2>2. gen <= 2 * sends + visits /\ gen \in Nat /\ sends \in Nat /\ visits \in Nat
    BY <2>1
  <2>3. gen' + 1 <= 2 * r + visits + 0
    <3> HIDE ControlFacts DEF PageControl
    <3> QED  BY <1>1, <1>2, <2>2
  <2> QED  BY <1>2, <1>4, <2>3 DEF Control, Counted
<1>17. Control'  BY <1>11, <1>12, <1>13, <1>14, <1>15, <1>16 DEF Control
<1> QED  BY <1>1, <1>2, <1>3, <1>4, <1>7, <1>8, <1>10, <1>17

LEMMA InitControl == Init => PageControl
<1> SUFFICES ASSUME Init  PROVE Control  BY InitHolds DEF PageControl
<1>1. /\ NoConn.gen = 0 /\ NoConn.cgen = 0 /\ NoConn.got = 0 /\ NoConn.st = "none"
  BY DEF NoConn
<1>2. \A r \in Reqs : conn[r] = NoConn  BY DEF Init
<1>3. OneGeneration /\ AnswerLatched /\ \A r \in Reqs : ReceivedOK(conn[r])
  BY <1>1, <1>2, Bounds DEF Init, OneGeneration, AnswerLatched, Answering, ReceivedOK
<1>4. IdlePage  BY DEF Init, IdlePage, IdleFlags
<1>5. BufferOwned  BY DEF Init, BufferOwned
<1>6. Counted  BY PlaygroundBounds DEF Init, Counted
<1> QED  BY <1>3, <1>4, <1>5, <1>6 DEF Control

LEMMA NetworkControl ==
  ASSUME PageControl, NEW r \in Reqs, Network(r)
  PROVE  Control'
  BY StreamOpenControl, StreamStartErrorControl, StreamChunkControl, StreamEndControl,
     PlainAnswerControl, PlainErrorControl
  DEF Network, StreamDone, StreamError

LEMMA EditControl ==
  ASSUME PageControl, NEW i \in DOMAIN msgs,
         EditOpen(i) \/ EditSave(i) \/ SendRefused(i) \/ DeleteMessage(i)
  PROVE  Control'
<1>1. CASE EditOpen(i)  BY <1>1, StillControl DEF EditOpen
<1>2. CASE EditSave(i)
  <2>1. lost' = IF queue = <<>> THEN lost ELSE lost \cup {sends}  BY <1>2 DEF EditSave
  <2>2. lost \subseteq 1..sends  BY DEF PageControl, Control, IdlePage
  <2>3. CASE queue = <<>>  BY <1>2, <2>1, <2>2, <2>3, RenderControl DEF EditSave
  <2>4. CASE queue # <<>>
    <3>1. busy /\ sends # 0 /\ sends \in Nat
      BY <2>4, ControlFacts DEF PageControl, Control, IdlePage
    <3>2. sends \in 1..sends  BY <3>1
    <3> QED  BY <1>2, <2>1, <2>2, <2>4, <3>2, RenderControl DEF EditSave
  <2> QED  BY <2>3, <2>4
<1>3. CASE SendRefused(i)  BY <1>3, StillControl DEF SendRefused
<1>4. CASE DeleteMessage(i)
  <2>1. lost \subseteq 1..sends  BY DEF PageControl, Control, IdlePage
  <2> QED  BY <1>4, <2>1, RenderControl DEF DeleteMessage, DeleteBy
<1> QED  BY <1>1, <1>2, <1>3, <1>4

LEMMA ClickControl ==
  ASSUME PageControl, NEW mode \in Modes, Click(mode)
  PROVE  Control'
<1>1. CASE SendMessage(mode)  BY <1>1, DispatchControl DEF SendMessage
<1>2. ASSUME NEW i \in DOMAIN msgs, Regenerate(i, mode)  PROVE Control'
  BY <1>2, DispatchControl DEF Regenerate
<1>3. ASSUME NEW i \in DOMAIN msgs, EditSubmit(i, mode)  PROVE Control'
  BY <1>3, DispatchControl DEF EditSubmit
<1> QED  BY <1>1, <1>2, <1>3 DEF Click

LEMMA StepControl == PageControl /\ [Next]_vars => PageControl'
<1> SUFFICES ASSUME PageControl, [Next]_vars  PROVE Control'
  BY StepKeeps DEF PageControl
<1> DEFINE Quiet == UNCHANGED <<gen, ctl, conn, pend, latch, queue, flags, busy, page, sends,
                                visits, lost>>
<1>1. lost \subseteq 1..sends  BY DEF PageControl, Control, IdlePage
<1>2. CASE \E r \in Reqs : Network(r)  BY <1>2, NetworkControl
<1>3. CASE \E mode \in Modes : Click(mode)  BY <1>3, ClickControl
<1>4. CASE \E i \in DOMAIN msgs : EditOpen(i) \/ EditSave(i) \/ SendRefused(i)
                                    \/ DeleteMessage(i)
  BY <1>4, EditControl
<1>5. CASE Stop  BY <1>5, StopControl
<1>6. CASE ClearMessages  BY <1>1, <1>6, RenderControl DEF ClearMessages, DeleteBy
<1>7. CASE Render  BY <1>1, <1>7, RenderControl DEF Render
<1>8. CASE FlushTimer  BY <1>8, FlushTimerControl
<1>9. CASE EditCancel \/ SaveTimer \/ UNCHANGED vars
  <2>1. Quiet  BY <1>9 DEF EditCancel, SaveTimer, vars
  <2> QED  BY <2>1, StillControl
<1>10. CASE Leave \/ Crash  BY <1>10, UnmountedControl DEF Leave, Crash
<1>11. CASE Load  BY <1>11, LoadControl
<1> QED
  BY <1>2, <1>3, <1>4, <1>5, <1>6, <1>7, <1>8, <1>9, <1>10, <1>11 DEF Next

(* A request that may still be answered holds the promise, only it fills   *)
(* the buffer, and a page that renders as idle has nothing queued or under *)
(* way (requestGenerationRef, pendingStreamChunksRef, activeResultRef).    *)
THEOREM RequestsControlled == Spec => []PageControl
  BY InitControl, StepControl, PTL DEF Spec

--------------------------------------------------------------------------------
(***************************************************************************)
(* Lists of messages.                                                      *)
(***************************************************************************)
LEMMA FirstPosition ==
  ASSUME NEW n \in Nat, NEW T \in SUBSET (1..n), T # {}
  PROVE  Min(T) \in T
<1> DEFINE R == {p \in Nat \X Nat : p[1] < p[2]}
<1>1. IsWellFoundedOn(R, Nat)
  <2>1. R = OpToRel(<, Nat)  BY Zenon DEF OpToRel
  <2> QED  BY <2>1, NatLessThanWellFounded, Zenon
<1>2. T \in SUBSET Nat /\ T # {}  OBVIOUS
<1>3. \A y, x \in Nat : <<y, x>> \in R <=> y < x  OBVIOUS
<1> HIDE DEF R
<1>4. PICK x \in T : \A y \in T : ~(<<y, x>> \in R)
  BY <1>1, <1>2, WFMin, Zenon
<1>5. \A y \in T : x <= y
  <2> TAKE y \in T
  <2>1. ~(y < x) /\ x \in Nat /\ y \in Nat  BY <1>2, <1>3, <1>4
  <2> QED  BY <2>1
<1> QED  BY <1>5 DEF Min

(* Removing a message keeps the others.                                    *)
LEMMA RemovedKeeps ==
  ASSUME NEW S, NEW list \in Seq(S), NEW r
  PROVE  Removed(list, r) \in Seq(S)
<1> DEFINE T == {i \in 1..Len(list) : list[i].req = r}
           k == Min(T)
<1>1. CASE T = {}
  <2>1. ~\E i \in 1..Len(list) : list[i].req = r  BY <1>1
  <2> QED  BY <2>1 DEF Removed, RemoveFirstMatch
<1>2. CASE T # {}
  <2>1. \E i \in 1..Len(list) : list[i].req = r  BY <1>2
  <2>2. Removed(list, r) = SubSeq(list, 1, k - 1) \o SubSeq(list, k + 1, Len(list))
    BY <1>2, <2>1 DEF Removed, RemoveFirstMatch, RemoveAt, SelectInSeq
  <2>3. k \in 1..Len(list)
    <3>1. Len(list) \in Nat /\ T \in SUBSET (1..Len(list))  OBVIOUS
    <3>2. k \in T  BY <1>2, <3>1, FirstPosition
    <3> QED  BY <3>1, <3>2
  <2> HIDE DEF k
  <2>4. SubSeq(list, 1, k - 1) \in Seq(S) /\ SubSeq(list, k + 1, Len(list)) \in Seq(S)
    BY <2>3
  <2> QED  BY <2>2, <2>4
<1> QED  BY <1>1, <1>2

LEMMA SeqMonotone ==
  ASSUME NEW S, NEW T, S \subseteq T, NEW s \in Seq(S)
  PROVE  s \in Seq(T)
<1>1. s \in [1..Len(s) -> S] /\ Len(s) \in Nat  OBVIOUS
<1>2. s \in [1..Len(s) -> T]  BY <1>1
<1> QED  BY <1>1, <1>2

LEMMA AppendFacts ==
  ASSUME NEW S, NEW base \in Seq(S), NEW m
  PROVE  /\ Append(base, m) # <<>> /\ Len(Append(base, m)) = Len(base) + 1
         /\ Len(base) \in Nat /\ Append(base, m)[Len(base) + 1] = m
         /\ \A i \in 1..Len(base) : Append(base, m)[i] = base[i]
         /\ DOMAIN Append(base, m) = 1..(Len(base) + 1)
<1>1. base \in Seq(S \cup {m}) /\ m \in S \cup {m}  BY SeqMonotone
<1> DEFINE T == S \cup {m}
           s == Append(base, m)
<1> HIDE DEF T
<1>2. /\ s \in Seq(T) /\ Len(s) = Len(base) + 1 /\ Len(base) \in Nat
      /\ s[Len(base) + 1] = m /\ \A i \in 1..Len(base) : s[i] = base[i]
  <2>1. base \in Seq(T) /\ m \in T  BY <1>1 DEF T
  <2> QED  BY <2>1
<1> HIDE DEF s
<1>3. DOMAIN s = 1..(Len(base) + 1)  BY <1>2
<1>4. s # <<>>
  <2>1. Len(s) # 0  BY <1>2
  <2> QED  BY <2>1
<1> QED  BY <1>2, <1>3, <1>4 DEF s

(* A cut in front of the last message.                                     *)
LEMMA CutKeeps ==
  ASSUME NEW S, NEW base \in Seq(S), NEW m, NEW n \in 0..Len(base)
  PROVE  SubSeq(Append(base, m), 1, n) \in Seq(S)
<1>1. /\ Len(base) \in Nat /\ n \in Nat
      /\ \A i \in 1..Len(base) : Append(base, m)[i] = base[i]
  BY AppendFacts
<1>2. base \in Seq(S \cup {m}) /\ Append(base, m) \in Seq(S \cup {m})
      /\ Len(Append(base, m)) = Len(base) + 1
  BY SeqMonotone, AppendFacts
<1> DEFINE s == SubSeq(Append(base, m), 1, n)
           t == SubSeq(base, 1, n)
<1>3. s \in Seq(S \cup {m}) /\ Len(s) = n /\ \A i \in 1..n : s[i] = Append(base, m)[i]
  BY <1>1, <1>2
<1>4. t \in Seq(S) /\ Len(t) = n /\ \A i \in 1..n : t[i] = base[i]
  BY <1>1
<1> HIDE DEF s, t
<1>5. t \in Seq(S \cup {m})  BY <1>4, SeqMonotone
<1>6. \A i \in 1..n : s[i] = t[i]
  <2>1. \A i \in 1..n : i \in 1..Len(base)  BY <1>1
  <2> QED  BY <1>1, <1>3, <1>4, <2>1
<1>7. s = t  BY <1>3, <1>4, <1>5, <1>6, SameText
<1> QED  BY <1>4, <1>7 DEF s

(* An updater of a stream changes the last message.                        *)
StreamKinds == {"batch", "complete", "error", "response"}

LEMMA EvaluateAppended ==
  ASSUME NEW S, NEW base \in Seq(S), NEW m, NEW u, u.kind \in StreamKinds, NEW g
  PROVE  Evaluate(u, Append(base, m), g)
           = Append(base, IF u.kind # "batch" /\ u.g # g THEN m ELSE Updated(m, u))
<1> DEFINE list == Append(base, m)
           n == Len(base) + 1
           x == Updated(m, u)
           new == [list EXCEPT ![n] = x]
<1>1. list # <<>> /\ Len(list) = n /\ list[n] = m  BY AppendFacts
<1>2. UpdateLast(list, u) = new  BY <1>1 DEF UpdateLast
<1>3. new = Append(base, x)
  <2> HIDE DEF x
  <2> DEFINE T == S \cup {m, x}
             other == Append(base, x)
  <2>1. base \in Seq(T) /\ m \in T /\ x \in T  BY SeqMonotone
  <2>2. /\ list \in Seq(T) /\ other \in Seq(T) /\ Len(base) \in Nat
        /\ Len(list) = n /\ Len(other) = n
    BY <2>1
  <2>3. /\ \A i \in 1..Len(base) : list[i] = base[i] /\ other[i] = base[i]
        /\ other[n] = x
    BY <2>1
  <2> HIDE DEF T, list, other
  <2>4. new \in Seq(T) /\ Len(new) = n /\ \A i \in 1..n : new[i] = IF i = n THEN x ELSE list[i]
    BY <2>1, <2>2
  <2>5. \A i \in 1..n : new[i] = other[i]
    <3> TAKE i \in 1..n
    <3>1. CASE i = n  BY <2>3, <2>4, <3>1
    <3>2. CASE i # n
      <4>1. i \in 1..Len(base)  BY <2>2, <3>2
      <4> QED  BY <2>3, <2>4, <3>2, <4>1
    <3> QED  BY <3>1, <3>2
  <2>6. new = other
    <3> HIDE DEF new, n
    <3> QED  BY <2>2, <2>4, <2>5, SameText
  <2> QED  BY <2>6 DEF other
<1>4. u.kind # "set" /\ u.kind # "remove"  BY DEF StreamKinds
<1> HIDE DEF list, n, x, new
<1>5. Evaluate(u, list, g) = IF u.kind # "batch" /\ u.g # g THEN list ELSE UpdateLast(list, u)
  BY <1>4 DEF Evaluate
<1> QED  BY <1>2, <1>3, <1>5 DEF list, x

--------------------------------------------------------------------------------
(***************************************************************************)
(* Messages.  n is the number of requests sent, L the requests cut, f the  *)
(* connections, c the connection of the message's own request.             *)
(***************************************************************************)
Own(m) == m.text \in OwnText(m.req)

Proper(n) == {m \in Messages : m.req <= n /\ Own(m)}

(* All that was received is shown.                                         *)
Kept(m, c) ==
    IF m.st = "error" THEN m.text = <<>>
    ELSE IF c.mode = "plain" THEN m.text \in {<<>>, Pieces(m.req, c.got)}
    ELSE Shows(m.text, m.req, c.mode, c.got)

Final(n, L, f) ==
    {m \in Proper(n) : m.req \notin L => ~Pending(m) /\ Kept(m, f[m.req])}

Older(n, L, f) == {m \in Final(n, L, f) : m.req < n}

(* The answer of the last request: as it is shown, as it will be when the  *)
(* request has ended, and as it will be while p is still buffered.         *)
Shown(m, n, L, c) ==
    /\ m \in Messages /\ m.req = n /\ Own(m)
    /\ n \notin L => /\ Pending(m) /\ (c.mode = "plain" => m.text = <<>>)
                     /\ \E a \in 0..c.got : Shows(m.text, n, c.mode, a)

Over(m, n, L, c) ==
    /\ m \in Messages /\ m.req = n /\ Own(m)
    /\ n \notin L => ~Pending(m) /\ Kept(m, c)

Due(m, n, L, c, p) ==
    /\ m \in Messages /\ m.req = n /\ Own(m)
    /\ n \notin L => /\ Pending(m) /\ (c.mode = "plain" => m.text = <<>>)
                     /\ \E a \in 0..c.got :
                          Shows(m.text, n, c.mode, a) /\ Fits(n, a, p, c)

LEMMA OwnTexts ==
  ASSUME NEW r \in Reqs
  PROVE  OwnText(r) \subseteq Texts /\ <<>> \in OwnText(r)
<1>1. {r} \X Nat \subseteq Reqs \X Nat  OBVIOUS
<1>2. \A t \in OwnText(r) : t \in Texts  BY <1>1, SeqMonotone DEF OwnText, Texts
<1> QED  BY <1>2 DEF OwnText

LEMMA MessageFields ==
  ASSUME NEW m \in Messages
  PROVE  /\ m.key \in Reqs /\ m.req \in Reqs /\ m.text \in Texts
         /\ m.st \in {"loading", "streaming", "complete", "error"}
         /\ m = [key |-> m.key, req |-> m.req, text |-> m.text, st |-> m.st]
  BY DEF Messages

LEMMA EndMade ==
  ASSUME NEW m \in Messages, NEW x, x = Completed(m)
  PROVE  x \in Messages /\ x.req = m.req /\ x.text = m.text /\ x.st = "complete"
  BY DEF Messages, Completed

LEMMA FailedMade ==
  ASSUME NEW m \in Messages, NEW x, x = Failed(m)
  PROVE  x \in Messages /\ x.req = m.req /\ x.text = <<>> /\ x.st = "error" /\ Own(x)
<1>1. <<>> \in Texts  BY DEF Texts
<1>2. x \in Messages /\ x.req = m.req /\ x.text = <<>> /\ x.st = "error"
  BY <1>1 DEF Messages, Failed
<1> QED  BY <1>2 DEF Own, OwnText

(* A batch of chunks.                                                      *)
LEMMA BatchUpdates ==
  ASSUME NEW n, NEW L, NEW c \in Conns, c.got \in 0..MaxPieces, NEW p \in OwnText(n), p # <<>>,
         NEW u, u.kind = "batch", u.text = p, NEW m, Due(m, n, L, c, p)
  PROVE  Due(Updated(m, u), n, L, c, <<>>)
<1>1. m \in Messages /\ m.req = n /\ m.text \in OwnText(n) /\ n \in Reqs
  BY MessageFields DEF Due, Own
<1>2. PICK x : x = Updated(m, u)  OBVIOUS
<1>3. x = Streamed(m, p)  BY <1>2 DEF Updated
<1>4. CASE m.st = "error"
  <2>1. x = m  BY <1>3, <1>4 DEF Streamed
  <2>2. n \in L  BY <1>4 DEF Due, Pending
  <2> QED  BY <1>1, <1>2, <2>1, <2>2 DEF Due, Own
<1>5. CASE m.st # "error"
  <2>1. PICK t : t = Merge(m.text, p)  OBVIOUS
  <2>2. t \in OwnText(n) /\ t \in Texts  BY <1>1, <2>1, MergeOwn, OwnTexts
  <2>3. x = [m EXCEPT !.text = t, !.st = "streaming"]  BY <1>3, <1>5, <2>1 DEF Streamed
  <2>4. x \in Messages /\ x.req = n /\ x.text = t /\ x.st = "streaming"
    BY <1>1, <2>2, <2>3 DEF Messages
  <2>5. ASSUME n \notin L
        PROVE  /\ Pending(x) /\ (c.mode = "plain" => x.text = <<>>)
               /\ \E a \in 0..c.got :
                    Shows(x.text, n, c.mode, a) /\ Fits(n, a, <<>>, c)
    <3>1. PICK a \in 0..c.got : Shows(m.text, n, c.mode, a) /\ Fits(n, a, p, c)
      BY <2>5 DEF Due
    <3>2. Shows(t, n, c.mode, c.got) /\ Fits(n, c.got, <<>>, c)
      BY <1>1, <2>1, <3>1, BatchFits
    <3>3. c.mode # "plain"  BY <3>1 DEF Fits
    <3>4. c.got \in 0..c.got  BY Bounds
    <3> QED  BY <2>4, <3>2, <3>3, <3>4 DEF Pending
  <2> QED  BY <1>2, <2>2, <2>4, <2>5 DEF Due, Own
<1> QED  BY <1>4, <1>5

(* The end of a stream.                                                    *)
LEMMA EndUpdates ==
  ASSUME NEW n, NEW L, NEW c, NEW u, u.kind \in {"complete", "error"},
         NEW m, Due(m, n, L, c, <<>>)
  PROVE  Over(Updated(m, u), n, L, c)
<1>1. m \in Messages /\ m.req = n /\ Own(m)  BY DEF Due
<1>2. PICK x : x = Updated(m, u)  OBVIOUS
<1>3. CASE u.kind = "error"
  <2>1. x = Failed(m)  BY <1>2, <1>3 DEF Updated
  <2>2. x \in Messages /\ x.req = n /\ x.text = <<>> /\ x.st = "error" /\ Own(x)
    BY <1>1, <2>1, FailedMade
  <2> QED  BY <1>2, <2>2 DEF Over, Pending, Kept
<1>4. CASE u.kind = "complete"
  <2>1. x = IF Pending(m) THEN Completed(m) ELSE m  BY <1>2, <1>4 DEF Updated
  <2>2. CASE ~Pending(m)
    <3>1. x = m /\ n \in L  BY <2>1, <2>2 DEF Due
    <3> QED  BY <1>1, <1>2, <3>1 DEF Over
  <2>3. CASE Pending(m)
    <3>1. x = Completed(m)  BY <2>1, <2>3
    <3>2. x \in Messages /\ x.req = n /\ x.text = m.text /\ x.st = "complete"
      BY <1>1, <3>1, EndMade
    <3>3. ASSUME n \notin L  PROVE Kept(x, c)
      <4>1. PICK a \in 0..c.got : Shows(m.text, n, c.mode, a) /\ Fits(n, a, <<>>, c)
        BY <3>3 DEF Due
      <4>2. c.mode # "plain" => Shows(m.text, n, c.mode, c.got)  BY <4>1 DEF Fits
      <4>3. c.mode = "plain" => m.text = <<>>  BY <3>3 DEF Due
      <4> QED  BY <1>1, <3>2, <4>2, <4>3 DEF Kept
    <3> QED  BY <1>1, <1>2, <3>2, <3>3 DEF Over, Own, Pending
  <2> QED  BY <2>2, <2>3
<1> QED  BY <1>3, <1>4

(* The whole answer of a request that does not stream.                     *)
LEMMA ResponseUpdates ==
  ASSUME NEW n, NEW L, NEW c, c.got \in 0..MaxPieces, c.mode = "plain",
         NEW u, u.kind = "response", u.text = Pieces(n, c.got),
         NEW m, m \in Messages, m.req = n
  PROVE  Over(Updated(m, u), n, L, c)
<1>1. n \in Reqs  BY MessageFields
<1>2. PICK t : t = Pieces(n, c.got)  OBVIOUS
<1>3. t \in OwnText(n) /\ t \in Texts  BY <1>1, <1>2, PiecesFacts, OwnTexts
<1>4. PICK x : x = Updated(m, u)  OBVIOUS
<1>5. x = Completed([m EXCEPT !.text = t])  BY <1>2, <1>4 DEF Updated
<1>6. x = [m EXCEPT !.text = t, !.st = "complete"]  BY <1>5 DEF Completed
<1>7. x \in Messages /\ x.req = n /\ x.text = t /\ x.st = "complete"
  BY <1>3, <1>6 DEF Messages
<1> QED  BY <1>2, <1>3, <1>4, <1>7 DEF Over, Own, Pending, Kept

--------------------------------------------------------------------------------
(***************************************************************************)
(* The invariant of the list.  While an answer is generated, the messages  *)
(* before it are final, and evaluating the queue, now or after a stop,     *)
(* changes the last message only.                                          *)
(***************************************************************************)
Updaters == [kind : StreamKinds, g : Generations, text : Texts, list : Seq(Messages)]

Generation(base, x, now, stopped) ==
    /\ base \in Seq(Older(sends, lost, conn)) /\ msgs = Append(base, x)
    /\ Shown(x, sends, lost, conn[sends])
    /\ EvaluateAll(queue, msgs, gen) = Append(base, now)
    /\ IF latch = 0 THEN Over(now, sends, lost, conn[sends])
       ELSE Due(now, sends, lost, conn[sends], pend.text)
    /\ EvaluateAll(queue, msgs, gen + 1) = Append(base, stopped)
    /\ Due(stopped, sends, lost, conn[sends], pend.text)

Generating == busy => \E base, x, now, stopped : Generation(base, x, now, stopped)

Idle == ~busy => msgs \in Seq(Final(sends, lost, conn))

Drafts == [failed : 0..MaxSends, owner : 0..MaxSends]

Rest ==
    /\ queue \in Seq(Updaters) /\ draft \in Drafts /\ disk \in Seq(Proper(sends))
    /\ editor \in 0..MaxSends /\ edits \in 0..MaxEdits /\ page \in {"open", "left", "lost"}

ChatInv == PageControl /\ Generating /\ Idle /\ Rest

SameReceived(c, d) == c.mode = d.mode /\ c.got = d.got

LEMMA ProperGrows ==
  ASSUME NEW n \in Nat, NEW k \in Nat, n <= k
  PROVE  Proper(n) \subseteq Proper(k)
<1> SUFFICES ASSUME NEW m \in Proper(n)  PROVE m \in Proper(k)  OBVIOUS
<1>1. m \in Messages /\ m.req <= n /\ Own(m)  BY DEF Proper
<1>2. m.req \in Nat  BY <1>1, MessageFields, Bounds
<1>3. m.req <= k  BY <1>1, <1>2
<1> QED  BY <1>1, <1>3 DEF Proper

LEMMA FinalKept ==
  ASSUME NEW n \in Nat, NEW k \in Nat, n <= k, NEW L, NEW M, L \subseteq M, NEW f, NEW h,
         \A r \in Reqs : r <= n => SameReceived(f[r], h[r])
  PROVE  Final(n, L, f) \subseteq Final(k, M, h)
<1> SUFFICES ASSUME NEW m \in Final(n, L, f)  PROVE m \in Final(k, M, h)  OBVIOUS
<1>1. m \in Proper(n) /\ (m.req \notin L => ~Pending(m) /\ Kept(m, f[m.req]))
  BY DEF Final
<1>2. m \in Proper(k)  BY <1>1, ProperGrows
<1>3. m.req \in Reqs /\ m.req <= n  BY <1>1, MessageFields DEF Proper
<1>4. Kept(m, f[m.req]) => Kept(m, h[m.req])  BY <1>3 DEF Kept, SameReceived
<1> QED  BY <1>1, <1>2, <1>4 DEF Final

LEMMA OlderKept ==
  ASSUME NEW n \in Nat, NEW L, NEW M, L \subseteq M, NEW f, NEW h,
         \A r \in Reqs : r < n => SameReceived(f[r], h[r])
  PROVE  Older(n, L, f) \subseteq Older(n, M, h) /\ Older(n, L, f) \subseteq Final(n, L, f)
<1> SUFFICES ASSUME NEW m \in Older(n, L, f)  PROVE m \in Older(n, M, h)  BY DEF Older
<1>1. /\ m \in Proper(n) /\ (m.req \notin L => ~Pending(m) /\ Kept(m, f[m.req]))
      /\ m.req < n
  BY DEF Final, Older
<1>2. m.req \in Reqs  BY <1>1, MessageFields DEF Proper
<1>3. Kept(m, f[m.req]) => Kept(m, h[m.req])  BY <1>1, <1>2 DEF Kept, SameReceived
<1> QED  BY <1>1, <1>3 DEF Final, Older

(* What was received decides, not how the connection stands.               *)
LEMMA SameDue ==
  ASSUME NEW n, NEW L, NEW c, NEW d, SameReceived(c, d), NEW p, NEW m
  PROVE  /\ Shown(m, n, L, c) => Shown(m, n, L, d)
         /\ Over(m, n, L, c) => Over(m, n, L, d)
         /\ Due(m, n, L, c, p) => Due(m, n, L, d, p)
<1>1. Shown(m, n, L, c) => Shown(m, n, L, d)  BY DEF Shown, SameReceived
<1>2. Over(m, n, L, c) => Over(m, n, L, d)  BY DEF Over, SameReceived, Kept
<1>3. Due(m, n, L, c, p) => Due(m, n, L, d, p)
  <2>1. \A a : Fits(n, a, p, c) => Fits(n, a, p, d)  BY DEF Fits, SameReceived
  <2> QED  BY <2>1 DEF Due, SameReceived
<1> QED  BY <1>1, <1>2, <1>3

LEMMA ChatFacts ==
  ASSUME ChatInv
  PROVE  /\ sends \in Nat /\ gen \in Nat /\ gen \in Generations /\ pend.gen \in Generations
         /\ busy => sends \in Reqs /\ sends # 0
         /\ \A r \in Reqs : conn[r] \in Conns /\ conn[r].got \in 0..MaxPieces
         /\ latch # 0 => latch = sends /\ pend.text \in OwnText(sends) /\ pend.gen = gen
         /\ latch = 0 => pend.text = <<>>
         /\ queue \in Seq(Updaters) /\ busy \in BOOLEAN
<1>1. PageControl /\ Rest  BY DEF ChatInv
<1>2. /\ gen \in Nat /\ sends \in Nat /\ sends <= MaxSends /\ visits \in Nat
      /\ \A r \in Reqs : conn[r] \in Conns /\ conn[r].got \in 0..MaxPieces
      /\ latch # 0 => latch = sends
      /\ busy \in BOOLEAN
  BY <1>1, ControlFacts
<1>3. gen <= 2 * sends + visits + 1
  <2>1. CASE page = "open"
    <3>1. gen + (IF busy THEN 1 ELSE 0) <= 2 * sends + visits + 0
      BY <1>1, <2>1 DEF PageControl, Control, Counted
    <3> QED  BY <1>2, <3>1
  <2>2. CASE page # "open"
    <3>1. gen + (IF busy THEN 1 ELSE 0) <= 2 * sends + visits + 1
      BY <1>1, <2>2 DEF PageControl, Control, Counted
    <3> QED  BY <1>2, <3>1
  <2> QED  BY <2>1, <2>2
<1>4. visits <= MaxVisits /\ MaxVisits \in Nat /\ MaxSends \in Nat
  BY <1>1, PlaygroundBounds DEF PageControl, Control, Counted
<1>5. gen <= 2 * MaxSends + MaxVisits + 1  BY <1>2, <1>3, <1>4
<1>6. gen \in Generations  BY <1>2, <1>4, <1>5 DEF Generations
<1>7. pend.gen \in Generations
  <2>1. pend.gen \in 0..gen  BY <1>1 DEF PageControl, Control, OneGeneration
  <2> QED  BY <1>2, <1>4, <1>5, <2>1 DEF Generations
<1>8. busy => sends \in Reqs /\ sends # 0
  BY <1>1, <1>2, Bounds DEF PageControl, Control, IdlePage
<1>9. latch # 0 => pend.text \in OwnText(sends) /\ pend.gen = gen
  BY <1>1, <1>2 DEF PageControl, Control, BufferOwned
<1>10. latch = 0 => pend.text = <<>>  BY <1>1 DEF PageControl, Control, BufferOwned
<1> QED  BY <1>1, <1>2, <1>6, <1>7, <1>8, <1>9, <1>10 DEF Rest

(* Steps that leave the list and what it depends on alone.                 *)
LEMMA StillMessages ==
  ASSUME ChatInv, UNCHANGED <<gen, latch, queue, busy, msgs, sends, lost>>,
         pend'.text = pend.text, \A r \in Reqs : SameReceived(conn[r], conn'[r])
  PROVE  Generating' /\ Idle'
<1> USE ChatFacts
<1>1. CASE busy
  <2>1. PICK base, x, now, stopped : Generation(base, x, now, stopped)
    BY <1>1 DEF ChatInv, Generating
  <2>2. base \in Seq(Older(sends, lost, conn'))
    <3>1. Older(sends, lost, conn) \subseteq Older(sends, lost, conn')
      <4>1. \A r \in Reqs : r < sends => SameReceived(conn[r], conn'[r])  OBVIOUS
      <4> QED  BY <4>1, OlderKept
    <3> QED  BY <2>1, <3>1, SeqMonotone DEF Generation
  <2>3. SameReceived(conn[sends], conn'[sends])  BY <1>1
  <2>4. /\ Shown(x, sends, lost, conn'[sends])
        /\ IF latch = 0 THEN Over(now, sends, lost, conn'[sends])
           ELSE Due(now, sends, lost, conn'[sends], pend.text)
        /\ Due(stopped, sends, lost, conn'[sends], pend.text)
    BY <2>1, <2>3, SameDue DEF Generation
  <2>5. Generation(base, x, now, stopped)'
    <3> HIDE ChatFacts
    <3> QED  BY <2>1, <2>2, <2>4 DEF Generation
  <2> QED  BY <1>1, <2>5 DEF Generating, Idle
<1>2. CASE ~busy
  <2>1. msgs \in Seq(Final(sends, lost, conn))  BY <1>2 DEF ChatInv, Idle
  <2>2. Final(sends, lost, conn) \subseteq Final(sends, lost, conn')
    <3>1. \A r \in Reqs : r <= sends => SameReceived(conn[r], conn'[r])  OBVIOUS
    <3>2. sends <= sends  OBVIOUS
    <3> QED  BY <3>1, <3>2, FinalKept
  <2> QED  BY <1>2, <2>1, <2>2, SeqMonotone DEF Generating, Idle
<1> QED  BY <1>1, <1>2

(***************************************************************************)
(* The queue grows.                                                        *)
(***************************************************************************)
LEMMA Queued ==
  ASSUME NEW T, NEW q \in Seq(T), NEW S, NEW base \in Seq(S), NEW list, NEW m, NEW G,
         NEW u, u.kind \in StreamKinds
  PROVE  EvaluateAll(q, list, G) = Append(base, m) =>
           /\ u.kind # "batch" /\ u.g # G =>
                EvaluateAll(Append(q, u), list, G) = Append(base, m)
           /\ u.kind = "batch" \/ u.g = G =>
                EvaluateAll(Append(q, u), list, G) = Append(base, Updated(m, u))
<1>1. EvaluateAll(Append(q, u), list, G) = Evaluate(u, EvaluateAll(q, list, G), G)
  BY EvaluateNext
<1>2. Evaluate(u, Append(base, m), G)
        = Append(base, IF u.kind # "batch" /\ u.g # G THEN m ELSE Updated(m, u))
  BY EvaluateAppended
<1>3. EvaluateAll(q, list, G) = Append(base, m) =>
        EvaluateAll(Append(q, u), list, G) = Evaluate(u, Append(base, m), G)
  BY <1>1, Zenon
<1> QED  BY <1>2, <1>3

LEMMA UpdaterFields ==
  ASSUME NEW kind \in StreamKinds, NEW g \in Generations, NEW t \in Texts,
         NEW u, u = Updater(kind, g, t, <<>>)
  PROVE  u \in Updaters /\ u.kind = kind /\ u.g = g /\ u.text = t
  BY DEF Updater, Updaters

LEMMA AppendIs ==
  ASSUME NEW S, NEW q \in Seq(S), NEW u \in S
  PROVE  q \o <<u>> = Append(q, u) /\ Append(q, u) \in Seq(S) /\ q \o <<>> = q
  OBVIOUS

(* The buffer is flushed.                                                  *)
LEMMA Flushed ==
  ASSUME ChatInv, busy, NEW S, NEW base \in Seq(S), NEW G, NEW m,
         EvaluateAll(queue, msgs, G) = Append(base, m),
         Due(m, sends, lost, conn[sends], pend.text)
  PROVE  \E k : /\ EvaluateAll(queue \o Batch(gen), msgs, G) = Append(base, k)
                /\ Due(k, sends, lost, conn[sends], <<>>)
<1> USE ChatFacts
<1>1. CASE pend.text = <<>>
  <2>1. queue \o Batch(gen) = queue  BY <1>1 DEF Batch
  <2> QED  BY <1>1, <2>1
<1>2. CASE pend.text # <<>>
  <2>1. PICK u : u = Updater("batch", gen, pend.text, <<>>)  OBVIOUS
  <2>2. /\ latch # 0 /\ pend.text \in OwnText(sends) /\ pend.text \in Texts
        /\ pend.gen = gen
    BY <1>2, OwnTexts
  <2>3. Batch(gen) = <<u>>  BY <1>2, <2>1, <2>2 DEF Batch
  <2>4. u \in Updaters /\ u.kind = "batch" /\ u.text = pend.text
    BY <2>1, <2>2, UpdaterFields DEF StreamKinds
  <2>5. queue \o Batch(gen) = Append(queue, u)  BY <2>3, <2>4, AppendIs
  <2>6. EvaluateAll(Append(queue, u), msgs, G) = Append(base, Updated(m, u))
    BY <2>4, Queued DEF StreamKinds
  <2>7. Due(Updated(m, u), sends, lost, conn[sends], <<>>)
    BY <1>2, <2>2, <2>4, BatchUpdates
  <2> QED  BY <2>5, <2>6, <2>7
<1> QED  BY <1>1, <1>2

LEMMA FlushedQueue ==
  ASSUME ChatInv, busy
  PROVE  queue \o Batch(gen) \in Seq(Updaters) /\ (latch = 0 => queue \o Batch(gen) = queue)
<1> USE ChatFacts
<1>1. CASE pend.text = <<>>
  <2>1. queue \o Batch(gen) = queue  BY <1>1 DEF Batch
  <2> QED  BY <2>1
<1>2. CASE pend.text # <<>>
  <2>1. PICK u : u = Updater("batch", gen, pend.text, <<>>)  OBVIOUS
  <2>2. latch # 0 /\ pend.text \in Texts /\ pend.gen = gen  BY <1>2, OwnTexts
  <2>3. Batch(gen) = <<u>>  BY <1>2, <2>1, <2>2 DEF Batch
  <2>4. u \in Updaters  BY <2>1, <2>2, UpdaterFields DEF StreamKinds
  <2> QED  BY <2>2, <2>3, <2>4, AppendIs
<1> QED  BY <1>1, <1>2

LEMMA FlushTimerMessages ==
  ASSUME ChatInv, FlushTimer
  PROVE  Generating' /\ Idle' /\ queue' \in Seq(Updaters)
<1> USE ChatFacts
<1>1. /\ timer = gen /\ queue' = queue \o Batch(timer) /\ Flush(timer)
      /\ UNCHANGED <<gen, conn, latch, busy, msgs, sends, lost>>
  BY FlushTimerControl DEF FlushTimer, ChatInv
<1>2. pend'.text = <<>>
  <2>1. pend = [gen |-> pend.gen, text |-> pend.text]
    BY DEF ChatInv, PageControl, Control, BufferOwned
  <2>2. CASE pend.gen = gen
    <3>1. pend' = [pend EXCEPT !.text = <<>>]  BY <1>1, <2>2 DEF Flush
    <3> QED  BY <2>1, <3>1
  <2>3. CASE pend.gen # gen  BY <1>1, <2>3 DEF Flush
  <2> QED  BY <2>2, <2>3
<1>3. CASE busy
  <2>1. PICK base, x, now, stopped : Generation(base, x, now, stopped)
    BY <1>3 DEF ChatInv, Generating
  <2>2. PICK k : /\ EvaluateAll(queue', msgs, gen + 1) = Append(base, k)
                 /\ Due(k, sends, lost, conn[sends], <<>>)
    BY <1>1, <1>3, <2>1, Flushed DEF Generation
  <2>3. PICK j : /\ EvaluateAll(queue', msgs, gen) = Append(base, j)
                 /\ IF latch = 0 THEN Over(j, sends, lost, conn[sends])
                    ELSE Due(j, sends, lost, conn[sends], <<>>)
    <3>1. CASE latch = 0
      <4>1. queue' = queue  BY <1>1, <1>3, <3>1, FlushedQueue
      <4> QED  BY <2>1, <3>1, <4>1 DEF Generation
    <3>2. CASE latch # 0
      <4>1. \E j : /\ EvaluateAll(queue', msgs, gen) = Append(base, j)
                   /\ Due(j, sends, lost, conn[sends], <<>>)
        BY <1>1, <1>3, <2>1, <3>2, Flushed DEF Generation
      <4> QED  BY <3>2, <4>1
    <3> QED  BY <3>1, <3>2
  <2>4. Generation(base, x, j, k)'
    <3> HIDE ChatFacts
    <3> QED  BY <1>1, <1>2, <2>1, <2>2, <2>3 DEF Generation
  <2>5. queue' \in Seq(Updaters)  BY <1>1, <1>3, FlushedQueue
  <2> QED  BY <1>1, <1>3, <2>4, <2>5 DEF Generating, Idle
<1>4. CASE ~busy
  <2>1. queue' = queue
    <3>1. Batch(timer) = <<>>
      BY <1>4 DEF Batch, ChatInv, PageControl, Control, BufferOwned, IdlePage
    <3> QED  BY <1>1, <3>1
  <2>2. Idle'  BY <1>1 DEF ChatInv, Idle
  <2> QED  BY <1>1, <1>4, <2>1, <2>2 DEF Generating
<1> QED  BY <1>3, <1>4

(* A request ends, or could not start: what was buffered and the end of    *)
(* the stream are queued.                                                  *)
LEMMA FinishMessages ==
  ASSUME ChatInv, latch # 0, NEW kind \in {"complete", "error"}, NEW ok,
         Finish(gen, kind, ok), \A r \in Reqs : SameReceived(conn[r], conn'[r]),
         UNCHANGED <<gen, busy, msgs, sends, lost>>
  PROVE  Generating' /\ Idle' /\ queue' \in Seq(Updaters)
<1> USE ChatFacts
<1>1. busy  BY ControlFacts DEF ChatInv
<1>2. PICK u : u = Updater(kind, gen, <<>>, <<>>)  OBVIOUS
<1>3. u \in Updaters /\ u.kind = kind /\ u.g = gen
  <2>1. <<>> \in Texts /\ kind \in StreamKinds  BY DEF Texts, StreamKinds
  <2> QED  BY <1>2, <2>1, UpdaterFields
<1>4. PICK q : q = queue \o Batch(gen)  OBVIOUS
<1>5. q \in Seq(Updaters)  BY <1>1, <1>4, FlushedQueue
<1>6. /\ pend' = [gen |-> pend.gen, text |-> <<>>] /\ latch' = 0
      /\ queue' = q \o <<u>>
  BY <1>2, <1>4, FinishFacts DEF ChatInv
<1>7. queue' = Append(q, u) /\ queue' \in Seq(Updaters)  BY <1>3, <1>5, <1>6, AppendIs
<1>8. PICK base, x, now, stopped : Generation(base, x, now, stopped)
  BY <1>1 DEF ChatInv, Generating
<1>9. PICK k : /\ EvaluateAll(q, msgs, gen + 1) = Append(base, k)
               /\ Due(k, sends, lost, conn[sends], <<>>)
  BY <1>1, <1>4, <1>8, Flushed DEF Generation
<1>10. PICK j : /\ EvaluateAll(q, msgs, gen) = Append(base, j)
                /\ Due(j, sends, lost, conn[sends], <<>>)
  BY <1>1, <1>4, <1>8, Flushed DEF Generation
<1>11. u.kind \in StreamKinds /\ u.kind # "batch" /\ u.g # gen + 1
  BY <1>3 DEF StreamKinds
<1>12. EvaluateAll(queue', msgs, gen + 1) = Append(base, k)
  <2>1. base \in Seq(Older(sends, lost, conn))  BY <1>8 DEF Generation
  <2> HIDE ChatFacts
  <2>2. EvaluateAll(Append(q, u), msgs, gen + 1) = Append(base, k)
    BY <1>5, <1>9, <1>11, <2>1, Queued
  <2> QED  BY <1>7, <2>2, Zenon
<1>13. EvaluateAll(queue', msgs, gen) = Append(base, Updated(j, u))
  <2>1. base \in Seq(Older(sends, lost, conn))  BY <1>8 DEF Generation
  <2> HIDE ChatFacts
  <2>2. EvaluateAll(Append(q, u), msgs, gen) = Append(base, Updated(j, u))
    BY <1>3, <1>5, <1>10, <1>11, <2>1, Queued
  <2> QED  BY <1>7, <2>2, Zenon
<1>14. Over(Updated(j, u), sends, lost, conn[sends])  BY <1>3, <1>10, EndUpdates
<1>15. SameReceived(conn[sends], conn'[sends])  BY <1>1
<1>16. /\ Shown(x, sends, lost, conn'[sends])
       /\ Over(Updated(j, u), sends, lost, conn'[sends])
       /\ Due(k, sends, lost, conn'[sends], <<>>)
  BY <1>8, <1>9, <1>14, <1>15, SameDue DEF Generation
<1>17. base \in Seq(Older(sends, lost, conn'))
  <2>1. Older(sends, lost, conn) \subseteq Older(sends, lost, conn')
    <3>1. \A r \in Reqs : r < sends => SameReceived(conn[r], conn'[r])  OBVIOUS
    <3> QED  BY <3>1, OlderKept
  <2> QED  BY <1>8, <2>1, SeqMonotone DEF Generation
<1>18. Generation(base, x, Updated(j, u), k)'
  <2>1. msgs = Append(base, x) /\ pend'.text = <<>>  BY <1>6, <1>8 DEF Generation
  <2> HIDE ChatFacts
  <2> QED  BY <1>6, <1>12, <1>13, <1>16, <1>17, <2>1 DEF Generation
<1> QED  BY <1>1, <1>7, <1>18 DEF Generating, Idle

LEMMA StreamChunkMessages ==
  ASSUME ChatInv, NEW r \in Reqs, StreamChunk(r)
  PROVE  Generating' /\ Idle'
<1> USE ChatFacts
<1>1. /\ latch = r /\ pend'.text = Merge(pend.text, Chunk(r, conn[r].got + 1))
      /\ UNCHANGED <<gen, latch, queue, busy, msgs, sends, lost>>
  BY StreamChunkControl DEF ChatInv, StreamChunk
<1>2. r # 0 /\ sends = r /\ busy
  BY <1>1, Bounds, ControlFacts DEF ChatInv
<1>3. PICK c \in Conns :
        /\ c.mode = conn[r].mode /\ c.mode # "plain" /\ conn[r].got < MaxPieces
        /\ c.got = conn[r].got + 1
        /\ conn'[r] = c /\ \A s \in Reqs \ {r} : conn'[s] = conn[s]
  BY StreamChunkControl DEF ChatInv
<1>4. PICK base, x, now, stopped : Generation(base, x, now, stopped)
  BY <1>2 DEF ChatInv, Generating
<1>5. base \in Seq(Older(sends, lost, conn'))
  <2>1. Older(sends, lost, conn) \subseteq Older(sends, lost, conn')
    <3>1. \A s \in Reqs : s < sends => SameReceived(conn[s], conn'[s])
      <4> TAKE s \in Reqs
      <4>1. s < sends => s # r  BY <1>2, Bounds
      <4> QED  BY <1>3, <4>1 DEF SameReceived
    <3> QED  BY <3>1, OlderKept
  <2> QED  BY <1>4, <2>1, SeqMonotone DEF Generation
<1>6. conn[r] \in Conns /\ conn[r].got \in 0..MaxPieces /\ conn[r].got \in Nat
      /\ pend.text \in OwnText(r)
  BY <1>1, <1>2, Bounds
<1>7. \A a \in 0..conn[r].got : a \in 0..c.got  BY <1>3, <1>6
<1>8. PICK ch : ch = Chunk(r, c.got)  OBVIOUS
<1>9. ch = IF conn[r].mode = "delta" THEN <<Piece(r, c.got)>> ELSE Pieces(r, c.got)
  BY <1>8 DEF Chunk
<1>10. pend'.text = Merge(pend.text, ch)  BY <1>1, <1>3, <1>8
<1>11. ASSUME NEW a \in 0..conn[r].got, Fits(r, a, pend.text, conn[r])
       PROVE  Fits(r, a, pend'.text, c)
  <2>1. Fits(r, a, Merge(pend.text, ch), c)
    <3> HIDE ChatFacts
    <3> QED  BY <1>3, <1>6, <1>9, <1>11, ChunkFits
  <2> QED  BY <1>10, <2>1
<1>12. ASSUME NEW m, Due(m, r, lost, conn[r], pend.text)
       PROVE  Due(m, r, lost, c, pend'.text)
  <2> HIDE ChatFacts
  <2> QED  BY <1>3, <1>7, <1>11, <1>12 DEF Due
<1>13. Shown(x, r, lost, c)
  <2>1. Shown(x, r, lost, conn[r])  BY <1>2, <1>4 DEF Generation
  <2> HIDE ChatFacts
  <2> QED  BY <1>3, <1>7, <2>1 DEF Shown
<1>14. Due(now, r, lost, c, pend'.text) /\ Due(stopped, r, lost, c, pend'.text)
  <2>1. Due(now, r, lost, conn[r], pend.text) /\ Due(stopped, r, lost, conn[r], pend.text)
    BY <1>1, <1>2, <1>4 DEF Generation
  <2> QED  BY <1>12, <2>1
<1>15. Generation(base, x, now, stopped)'
  <2> HIDE ChatFacts
  <2> QED  BY <1>1, <1>2, <1>3, <1>4, <1>5, <1>13, <1>14 DEF Generation
<1> QED  BY <1>1, <1>2, <1>15 DEF Generating, Idle

LEMMA PlainAnswerMessages ==
  ASSUME ChatInv, NEW r \in Reqs, PlainAnswer(r)
  PROVE  Generating' /\ Idle' /\ queue' \in Seq(Updaters)
<1> USE ChatFacts
<1>1. /\ latch = r /\ pend.text = <<>> /\ latch' = 0
      /\ conn[r].st = "plain"
      /\ conn' = [conn EXCEPT ![r].st = "closed", ![r].got = MaxPieces]
      /\ queue' = Append(queue, Updater("response", gen, Pieces(r, MaxPieces), <<>>))
      /\ UNCHANGED <<gen, pend, busy, msgs, sends, lost>>
  BY PlainAnswerControl DEF ChatInv, PlainAnswer
<1>2. r # 0 /\ sends = r /\ busy
  BY <1>1, Bounds, ControlFacts DEF ChatInv
<1>3. PICK c : c = conn'[r]  OBVIOUS
<1>4. c.mode = "plain" /\ c.got = MaxPieces /\ c.got \in 0..MaxPieces
      /\ \A s \in Reqs \ {r} : conn'[s] = conn[s]
  <2>1. conn \in [Reqs -> Conns] /\ conn[r].mode = "plain"
    BY <1>1 DEF ChatInv, PageControl, PageInv, Types, Control, ReceivedOK
  <2>2. MaxPieces \in 0..MaxPieces  BY Bounds
  <2> HIDE ChatFacts
  <2>3. c = [conn[r] EXCEPT !.st = "closed", !.got = MaxPieces]
        /\ \A s \in Reqs \ {r} : conn'[s] = conn[s]
    BY <1>1, <1>3, <2>1
  <2>4. conn[r] \in Conns  BY <2>1
  <2>5. c.mode = conn[r].mode /\ c.got = MaxPieces  BY <2>3, <2>4 DEF Conns
  <2> QED  BY <2>1, <2>2, <2>3, <2>5
<1>5. PICK t : t = Pieces(r, MaxPieces)  OBVIOUS
<1>6. t \in Texts  BY <1>4, <1>5, PiecesFacts, OwnTexts
<1>7. PICK u : u = Updater("response", gen, t, <<>>)  OBVIOUS
<1>8. u \in Updaters /\ u.kind = "response" /\ u.g = gen /\ u.text = t
  BY <1>6, <1>7, UpdaterFields DEF StreamKinds
<1>9. queue' = Append(queue, u) /\ queue' \in Seq(Updaters)
  BY <1>1, <1>5, <1>7, <1>8, AppendIs
<1>10. PICK base, x, now, stopped : Generation(base, x, now, stopped)
  BY <1>2 DEF ChatInv, Generating
<1>11. /\ base \in Seq(Older(sends, lost, conn)) /\ msgs = Append(base, x)
       /\ Shown(x, r, lost, conn[r]) /\ Due(stopped, r, lost, conn[r], <<>>)
       /\ EvaluateAll(queue, msgs, gen) = Append(base, now)
       /\ EvaluateAll(queue, msgs, gen + 1) = Append(base, stopped)
       /\ now \in Messages /\ now.req = r
  BY <1>1, <1>2, <1>10 DEF Generation, Due
<1>12. base \in Seq(Older(sends, lost, conn'))
  <2>1. Older(sends, lost, conn) \subseteq Older(sends, lost, conn')
    <3>1. \A s \in Reqs : s < sends => SameReceived(conn[s], conn'[s])
      <4> TAKE s \in Reqs
      <4>1. s < sends => s # r  BY <1>2, Bounds
      <4> QED  BY <1>4, <4>1 DEF SameReceived
    <3> QED  BY <3>1, OlderKept
  <2> QED  BY <1>11, <2>1, SeqMonotone
<1>13. u.kind \in StreamKinds /\ u.kind # "batch" /\ u.g # gen + 1
  BY <1>8 DEF StreamKinds
<1>14. EvaluateAll(queue', msgs, gen + 1) = Append(base, stopped)
  <2>1. queue \in Seq(Updaters)  OBVIOUS
  <2> HIDE ChatFacts
  <2>2. /\ base \in Seq(Older(sends, lost, conn))
        /\ EvaluateAll(queue, msgs, gen + 1) = Append(base, stopped)
    BY <1>11
  <2>3. EvaluateAll(Append(queue, u), msgs, gen + 1) = Append(base, stopped)
    BY <1>13, <2>1, <2>2, Queued
  <2> QED  BY <1>9, <2>3, Zenon
<1>15. EvaluateAll(queue', msgs, gen) = Append(base, Updated(now, u))
  <2>1. queue \in Seq(Updaters)  OBVIOUS
  <2> HIDE ChatFacts
  <2>2. EvaluateAll(Append(queue, u), msgs, gen) = Append(base, Updated(now, u))
    BY <1>8, <1>11, <1>13, <2>1, Queued
  <2> QED  BY <1>9, <2>2, Zenon
<1>16. Over(Updated(now, u), r, lost, c)
  <2> HIDE ChatFacts
  <2> QED  BY <1>4, <1>5, <1>8, <1>11, ResponseUpdates
<1>17. Shows(<<>>, r, c.mode, 0) /\ 0 \in 0..c.got /\ Fits(r, 0, <<>>, c)
  <2>1. 0 \in 0..c.got  BY <1>4, Bounds
  <2>2. Fits(r, 0, <<>>, c)  BY <1>4 DEF Fits
  <2>3. Shows(<<>>, r, c.mode, 0)  BY ShowsNothing
  <2> QED  BY <2>1, <2>2, <2>3
<1>18. conn[r].mode = "plain"
  BY <1>1 DEF ChatInv, PageControl, Control, ReceivedOK
<1>19. Shown(x, r, lost, c)
  <2> HIDE ChatFacts
  <2> QED  BY <1>11, <1>17, <1>18 DEF Shown
<1>20. Due(stopped, r, lost, c, <<>>)
  <2> HIDE ChatFacts
  <2> QED  BY <1>11, <1>17, <1>18 DEF Due
<1>21. Generation(base, x, Updated(now, u), stopped)'
  <2> HIDE ChatFacts
  <2> QED  BY <1>1, <1>2, <1>3, <1>11, <1>12, <1>14, <1>15, <1>16, <1>19, <1>20
           DEF Generation
<1> QED  BY <1>1, <1>2, <1>9, <1>21 DEF Generating, Idle

(***************************************************************************)
(* The list is rendered: the queue is empty, and the last message is the   *)
(* answer of a request under way, or over.                                 *)
(***************************************************************************)
LEMMA RenderedTo ==
  ASSUME NEW base, NEW y, base \in Seq(Older(sends', lost', conn')), msgs' = Append(base, y),
         queue' = <<>>, sends' \in Nat, busy' <=> latch' # 0,
         latch' = 0 => Over(y, sends', lost', conn'[sends']),
         latch' # 0 => Due(y, sends', lost', conn'[sends'], pend'.text)
  PROVE  Generating' /\ Idle'
<1>1. CASE latch' = 0
  <2>1. y \in Final(sends', lost', conn')
    <3>1. /\ y \in Messages /\ y.req = sends' /\ Own(y)
          /\ sends' \notin lost' => ~Pending(y) /\ Kept(y, conn'[sends'])
      BY <1>1 DEF Over
    <3>2. sends' <= sends'  OBVIOUS
    <3> QED  BY <3>1, <3>2 DEF Final, Proper
  <2>2. base \in Seq(Final(sends', lost', conn'))
    <3>1. Older(sends', lost', conn') \subseteq Final(sends', lost', conn')  BY DEF Older
    <3> QED  BY <3>1, SeqMonotone
  <2>3. msgs' \in Seq(Final(sends', lost', conn'))  BY <2>1, <2>2
  <2> QED  BY <1>1, <2>3 DEF Generating, Idle
<1>2. CASE latch' # 0
  <2>1. Due(y, sends', lost', conn'[sends'], pend'.text)  BY <1>2
  <2>2. Shown(y, sends', lost', conn'[sends'])  BY <2>1 DEF Due, Shown
  <2>3. EvaluateAll(queue', msgs', gen') = msgs' /\ EvaluateAll(queue', msgs', gen' + 1) = msgs'
    BY NothingToEvaluate
  <2>4. Generation(base, y, y, y)'
    BY <1>2, <2>1, <2>2, <2>3 DEF Generation
  <2> QED  BY <1>2, <2>4 DEF Generating, Idle
<1> QED  BY <1>1, <1>2

LEMMA RenderMessages ==
  ASSUME ChatInv, Render
  PROVE  Generating' /\ Idle' /\ queue' = <<>>
<1> USE ChatFacts
<1>1. /\ page = "open" /\ flags' = flags /\ queue' = <<>>
      /\ busy' = (flags.streaming \/ flags.requesting)
      /\ msgs' = IF queue = <<>> THEN msgs ELSE EvaluateAll(queue, msgs, gen)
      /\ UNCHANGED <<gen, conn, pend, latch, sends, lost>>
  BY DEF Render, Rendered
<1>2. msgs' = EvaluateAll(queue, msgs, gen)  BY <1>1, NothingToEvaluate
<1>3. busy' <=> latch # 0
  <2>1. latch # 0 => flags.requesting  BY ControlFacts DEF ChatInv
  <2>2. flags.requesting \/ flags.streaming => latch # 0
    BY DEF ChatInv, PageControl, Control, IdlePage
  <2> QED  BY <1>1, <2>1, <2>2
<1>4. CASE busy
  <2>1. PICK base, x, now, stopped : Generation(base, x, now, stopped)
    BY <1>4 DEF ChatInv, Generating
  <2>2. /\ base \in Seq(Older(sends', lost', conn')) /\ msgs' = Append(base, now)
        /\ latch' = 0 => Over(now, sends', lost', conn'[sends'])
        /\ latch' # 0 => Due(now, sends', lost', conn'[sends'], pend'.text)
    BY <1>1, <1>2, <2>1 DEF Generation
  <2>3. sends' \in Nat /\ (busy' <=> latch' # 0)  BY <1>1, <1>3
  <2> HIDE ChatFacts
  <2> QED  BY <1>1, <2>2, <2>3, RenderedTo
<1>5. CASE ~busy
  <2>1. queue = <<>> /\ latch = 0  BY <1>5 DEF ChatInv, PageControl, Control, IdlePage
  <2>2. msgs' = msgs /\ ~busy'  BY <1>1, <1>3, <2>1
  <2> QED  BY <1>1, <1>5, <2>2 DEF ChatInv, Generating, Idle
<1> QED  BY <1>4, <1>5

LEMMA StopMessages ==
  ASSUME ChatInv, Stop
  PROVE  Generating' /\ Idle' /\ queue' = <<>>
<1> USE ChatFacts
<1>1. /\ busy /\ gen' = gen + 1 /\ latch' = 0 /\ flags' = IdleFlags /\ queue' = <<>>
      /\ busy' = (flags'.streaming \/ flags'.requesting)
      /\ UNCHANGED <<conn, sends, lost>>
  BY DEF Stop, Rendered
<1>2. busy' <=> latch' # 0
  <2>1. ~flags'.streaming /\ ~flags'.requesting  BY <1>1 DEF IdleFlags
  <2> QED  BY <1>1, <2>1
<1>3. PICK q : q = queue \o Batch(gen)  OBVIOUS
<1>4. q \in Seq(Updaters)  BY <1>1, <1>3, FlushedQueue
<1>5. PICK u : u = Updater("complete", gen + 1, <<>>, <<>>)  OBVIOUS
<1>6. u.kind = "complete" /\ u.g = gen + 1 /\ u.kind \in StreamKinds
  BY <1>5 DEF Updater, StreamKinds
<1>7. PICK p : p = q \o <<u>>  OBVIOUS
<1>8. p = Append(q, u) /\ p # <<>>
  <2> DEFINE T == Updaters \cup {u}
  <2>1. q \in Seq(T) /\ u \in T  BY <1>4, SeqMonotone
  <2> HIDE DEF T
  <2>2. q \o <<u>> = Append(q, u)  BY <2>1, AppendIs
  <2>3. Append(q, u) # <<>>  BY <2>1, AppendFacts
  <2> QED  BY <1>7, <2>2, <2>3
<1>9. msgs' = EvaluateAll(p, msgs, gen + 1)
  <2>1. msgs' = IF p = <<>> THEN msgs ELSE EvaluateAll(p, msgs, gen + 1)
    BY <1>3, <1>5, <1>7 DEF Stop, Rendered
  <2> QED  BY <1>8, <2>1
<1>10. PICK base, x, now, stopped : Generation(base, x, now, stopped)
  BY <1>1 DEF ChatInv, Generating
<1>11. PICK k : /\ EvaluateAll(q, msgs, gen + 1) = Append(base, k)
                /\ Due(k, sends, lost, conn[sends], <<>>)
  BY <1>1, <1>3, <1>10, Flushed DEF Generation
<1>12. base \in Seq(Older(sends, lost, conn))  BY <1>10 DEF Generation
<1>13. EvaluateAll(Append(q, u), msgs, gen + 1) = Append(base, Updated(k, u))
  <2> HIDE ChatFacts
  <2> QED  BY <1>4, <1>6, <1>11, <1>12, Queued
<1>14. msgs' = Append(base, Updated(k, u))  BY <1>8, <1>9, <1>13, Zenon
<1>15. Over(Updated(k, u), sends, lost, conn[sends])  BY <1>6, <1>11, EndUpdates
<1>16. sends' \in Nat  BY <1>1
<1> HIDE ChatFacts
<1> QED  BY <1>1, <1>2, <1>12, <1>14, <1>15, <1>16, RenderedTo

(***************************************************************************)
(* Clicks that replace the list.                                           *)
(***************************************************************************)
LEMMA ShownProper ==
  ASSUME NEW n \in Nat, NEW L, NEW c, NEW m, Shown(m, n, L, c)
  PROVE  m \in Proper(n) /\ m \in Messages /\ m.req = n /\ Own(m)
  BY DEF Shown, Proper

(* The messages as last rendered.                                          *)
LEMMA Listed ==
  ASSUME ChatInv
  PROVE  /\ msgs \in Seq(Proper(sends)) /\ msgs \in Seq(Messages)
         /\ Len(msgs) \in Nat /\ DOMAIN msgs = 1..Len(msgs)
         /\ \A i \in DOMAIN msgs : msgs[i] \in Messages /\ Keep(i - 1) \in Seq(Final(sends, lost, conn))
<1> USE ChatFacts
<1> DEFINE F == Final(sends, lost, conn)
           P == Proper(sends)
<1>1. F \subseteq P /\ P \subseteq Messages  BY DEF Final, Proper
<1>2. msgs \in Seq(P)
      /\ \A n \in 0..(Len(msgs) - 1) : Keep(n) \in Seq(F)
  <2>1. CASE busy
    <3>1. PICK base, x, now, stopped : Generation(base, x, now, stopped)
      BY <2>1 DEF ChatInv, Generating
    <3>2. /\ base \in Seq(Older(sends, lost, conn)) /\ msgs = Append(base, x)
          /\ Shown(x, sends, lost, conn[sends])
      BY <3>1 DEF Generation
    <3>3. base \in Seq(F)
      <4>1. Older(sends, lost, conn) \subseteq F  BY DEF Older
      <4> QED  BY <3>2, <4>1, SeqMonotone
    <3>4. x \in P  BY <3>2, ShownProper
    <3> HIDE DEF F, P
    <3>5. base \in Seq(P)  BY <1>1, <3>3, SeqMonotone
    <3>6. Append(base, x) \in Seq(P)  BY <3>4, <3>5
    <3>7. Len(msgs) = Len(base) + 1 /\ Len(base) \in Nat  BY <3>2, <3>3, AppendFacts
    <3>8. ASSUME NEW n \in 0..(Len(msgs) - 1)  PROVE Keep(n) \in Seq(F)
      <4>1. n \in 0..Len(base)  BY <3>7
      <4>2. SubSeq(Append(base, x), 1, n) \in Seq(F)  BY <3>3, <4>1, CutKeeps
      <4> QED  BY <3>2, <4>2 DEF Keep
    <3> QED  BY <3>2, <3>6, <3>8
  <2>2. CASE ~busy
    <3>1. msgs \in Seq(F)  BY <2>2 DEF ChatInv, Idle
    <3> HIDE DEF F, P
    <3>2. msgs \in Seq(P)  BY <1>1, <3>1, SeqMonotone
    <3>3. ASSUME NEW n \in 0..(Len(msgs) - 1)  PROVE Keep(n) \in Seq(F)
      <4>1. n \in 0..Len(msgs) /\ Len(msgs) \in Nat  BY <3>1
      <4> QED  BY <3>1, <4>1 DEF Keep
    <3> QED  BY <3>2, <3>3
  <2> QED  BY <2>1, <2>2
<1> HIDE DEF F, P
<1>3. msgs \in Seq(Messages)  BY <1>1, <1>2, SeqMonotone
<1>4. Len(msgs) \in Nat /\ DOMAIN msgs = 1..Len(msgs)  BY <1>3
<1>5. ASSUME NEW i \in DOMAIN msgs  PROVE msgs[i] \in Messages /\ Keep(i - 1) \in Seq(F)
  <2>1. i - 1 \in 0..(Len(msgs) - 1)  BY <1>4
  <2> QED  BY <1>2, <1>3, <1>4, <2>1
<1> QED  BY <1>2, <1>3, <1>4, <1>5 DEF F, P

(* A list that is set.                                                     *)
LEMMA SetEvaluates ==
  ASSUME ChatInv, NEW list, NEW g, Rendered(Append(queue, Updater("set", 0, <<>>, list)), g)
  PROVE  msgs' = list /\ queue' = <<>> /\ busy' = (flags'.streaming \/ flags'.requesting)
<1>1. PICK u : u = Updater("set", 0, <<>>, list)  OBVIOUS
<1>2. u.kind = "set" /\ u.list = list  BY <1>1 DEF Updater
<1>3. queue \in Seq(Updaters)  BY DEF ChatInv, Rest
<1>4. EvaluateAll(Append(queue, u), msgs, g) = Evaluate(u, EvaluateAll(queue, msgs, g), g)
  BY <1>3, EvaluateNext
<1>5. Evaluate(u, EvaluateAll(queue, msgs, g), g) = list  BY <1>2 DEF Evaluate
<1>6. Append(queue, u) # <<>>  BY <1>3, AppendFacts
<1>7. msgs' = IF Append(queue, u) = <<>> THEN msgs ELSE EvaluateAll(Append(queue, u), msgs, g)
  BY <1>1 DEF Rendered
<1>8. msgs' = list  BY <1>4, <1>5, <1>6, <1>7
<1> QED  BY <1>8 DEF Rendered

LEMMA EditSaveMessages ==
  ASSUME ChatInv, NEW i \in DOMAIN msgs, EditSave(i)
  PROVE  Generating' /\ Idle' /\ queue' = <<>>
<1> USE ChatFacts
<1>1. /\ flags' = flags /\ Rendered(Append(queue, Updater("set", 0, <<>>, msgs)), gen)
      /\ lost' = IF queue = <<>> THEN lost ELSE lost \cup {sends}
      /\ UNCHANGED <<gen, conn, pend, latch, sends>>
  BY DEF EditSave
<1>2. /\ msgs' = msgs /\ queue' = <<>>
      /\ busy' = (flags.streaming \/ flags.requesting)
  BY <1>1, SetEvaluates
<1>3. busy' <=> latch # 0
  <2>1. latch # 0 => flags.requesting  BY ControlFacts DEF ChatInv
  <2>2. flags.requesting \/ flags.streaming => latch # 0
    BY DEF ChatInv, PageControl, Control, IdlePage
  <2> QED  BY <1>2, <2>1, <2>2
<1>4. lost \subseteq lost' /\ sends' \in Nat /\ (busy' <=> latch' # 0)  BY <1>1, <1>3
<1>5. CASE busy
  <2>1. PICK base, x, now, stopped : Generation(base, x, now, stopped)
    BY <1>5 DEF ChatInv, Generating
  <2>2. base \in Seq(Older(sends', lost', conn'))
    <3>1. \A r \in Reqs : r < sends => SameReceived(conn[r], conn[r])  BY DEF SameReceived
    <3>2. Older(sends, lost, conn) \subseteq Older(sends, lost', conn)
      BY <1>4, <3>1, OlderKept
    <3>3. base \in Seq(Older(sends, lost', conn))
      BY <2>1, <3>2, SeqMonotone DEF Generation
    <3> QED  BY <1>1, <3>3
  <2>3. CASE queue = <<>>
    <3>1. msgs = Append(base, now)
      BY <2>1, <2>3, NothingToEvaluate DEF Generation
    <3>2. /\ latch' = 0 => Over(now, sends', lost', conn'[sends'])
          /\ latch' # 0 => Due(now, sends', lost', conn'[sends'], pend'.text)
      BY <1>1, <2>1, <2>3 DEF Generation
    <3>3. msgs' = Append(base, now)  BY <1>2, <3>1
    <3> HIDE ChatFacts
    <3> QED  BY <1>2, <1>4, <2>2, <3>2, <3>3, RenderedTo
  <2>4. CASE queue # <<>>
    <3>1. msgs' = Append(base, x) /\ Shown(x, sends, lost, conn[sends])
      BY <1>2, <2>1 DEF Generation
    <3>2. sends' \in lost' /\ x \in Messages /\ x.req = sends' /\ Own(x)
      BY <1>1, <2>4, <3>1 DEF Shown
    <3>3. Over(x, sends', lost', conn'[sends']) /\ Due(x, sends', lost', conn'[sends'], pend'.text)
      BY <3>2 DEF Over, Due
    <3> HIDE ChatFacts
    <3> QED  BY <1>2, <1>4, <2>2, <3>1, <3>3, RenderedTo
  <2> QED  BY <2>3, <2>4
<1>6. CASE ~busy
  <2>1. queue = <<>> /\ latch = 0  BY <1>6 DEF ChatInv, PageControl, Control, IdlePage
  <2>2. ~busy' /\ lost' = lost  BY <1>1, <1>3, <2>1
  <2> QED  BY <1>1, <1>2, <1>6, <2>2 DEF ChatInv, Generating, Idle
<1> QED  BY <1>5, <1>6

LEMMA DispatchMessages ==
  ASSUME ChatInv, page = "open", sends < MaxSends, NEW mode \in Modes, NEW claim,
         NEW base, base \in Seq(Final(sends, lost, conn)), NEW key \in Reqs,
         Dispatch(sends + 1, mode, Append(base, Loading(key, sends + 1)), claim)
  PROVE  Generating' /\ Idle' /\ queue' = <<>>
<1> USE ChatFacts
<1>1. PICK r : r = sends + 1  OBVIOUS
<1>2. PICK y : y = Loading(key, r)  OBVIOUS
<1>3. /\ r \in Reqs /\ sends' = r /\ latch' = r /\ busy' /\ pend'.text = <<>> /\ lost' = lost
      /\ conn'[r].got = 0 /\ conn'[r].mode = mode
      /\ \A s \in Reqs : s # r => conn'[s] = conn[s]
  <2>1. /\ sends + 1 \in Reqs /\ sends' = sends + 1 /\ latch' = sends'
        /\ busy' /\ pend'.text = <<>> /\ lost' = lost
        /\ conn'[sends'].got = 0 /\ conn'[sends'].mode = mode
        /\ \A s \in Reqs : s # sends' => conn'[s] = conn[s]
    <3> HIDE ChatFacts
    <3> QED  BY DispatchControl DEF ChatInv
  <2> QED  BY <1>1, <2>1
<1>4. msgs' = Append(base, y) /\ queue' = <<>>
  <2>1. Rendered(Append(queue, Updater("set", 0, <<>>, Append(base, y))), gen + 1)
    BY <1>1, <1>2 DEF Dispatch
  <2> QED  BY <2>1, SetEvaluates
<1>5. base \in Seq(Older(r, lost, conn'))
  <2>1. Final(sends, lost, conn) \subseteq Older(r, lost, conn')
    <3>1. \A s \in Reqs : s <= sends => SameReceived(conn[s], conn'[s])
      <4> TAKE s \in Reqs
      <4>1. s <= sends => s # r  BY <1>1, Bounds
      <4> QED  BY <1>3, <4>1 DEF SameReceived
    <3>2. r \in Nat /\ sends <= r /\ lost \subseteq lost  BY <1>1
    <3>3. Final(sends, lost, conn) \subseteq Final(r, lost, conn')
      BY <3>1, <3>2, FinalKept
    <3>4. \A m \in Final(sends, lost, conn) : m.req < r
      <4> TAKE m \in Final(sends, lost, conn)
      <4>1. m \in Messages /\ m.req <= sends  BY DEF Final, Proper
      <4>2. m.req \in Nat  BY <4>1, MessageFields, Bounds
      <4> QED  BY <1>1, <4>1, <4>2
    <3> QED  BY <3>3, <3>4 DEF Older
  <2> QED  BY <2>1, SeqMonotone
<1>6. /\ y \in Messages /\ y.req = r /\ y.text = <<>> /\ y.st = "loading" /\ Own(y)
  <2>1. <<>> \in Texts /\ <<>> \in OwnText(r)  BY <1>3, OwnTexts
  <2>2. y \in Messages /\ y.req = r /\ y.text = <<>> /\ y.st = "loading"
    BY <1>2, <1>3, <2>1 DEF Loading, Messages
  <2> QED  BY <2>1, <2>2 DEF Own
<1>7. Due(y, r, lost, conn'[r], <<>>)
  <2>1. 0 \in 0..conn'[r].got /\ Fits(r, 0, <<>>, conn'[r])  BY <1>3 DEF Fits
  <2>2. Shows(<<>>, r, conn'[r].mode, 0)  BY <1>3, ShowsNothing
  <2> QED  BY <1>6, <2>1, <2>2 DEF Due, Pending
<1>8. latch' # 0 /\ sends' \in Nat  BY <1>3, Bounds
<1> HIDE ChatFacts
<1>9. /\ base \in Seq(Older(sends', lost', conn')) /\ busy' /\ queue' = <<>>
      /\ Due(y, sends', lost', conn'[sends'], pend'.text)
  BY <1>3, <1>4, <1>5, <1>7
<1> QED  BY <1>4, <1>8, <1>9, RenderedTo

LEMMA ClickMessages ==
  ASSUME ChatInv, NEW mode \in Modes, Click(mode)
  PROVE  Generating' /\ Idle' /\ queue' = <<>>
<1> USE ChatFacts
<1>1. CASE SendMessage(mode)
  <2> DEFINE owned == msgs # <<>> /\ draft.failed # 0 /\ Last(msgs).req = draft.failed
             base == IF owned THEN Keep(Len(msgs) - 1) ELSE msgs
  <2>1. /\ page = "open" /\ ~busy /\ sends < MaxSends
        /\ Dispatch(sends + 1, mode, Append(base, Loading(sends + 1, sends + 1)), TRUE)
    BY <1>1 DEF SendMessage
  <2>2. base \in Seq(Final(sends, lost, conn))
    <3>1. CASE owned
      <4>1. Len(msgs) \in DOMAIN msgs
        <5>1. msgs \in Seq(Messages) /\ msgs # <<>>  BY <3>1, Listed
        <5> QED  BY <5>1
      <4>2. Keep(Len(msgs) - 1) \in Seq(Final(sends, lost, conn))  BY <4>1, Listed
      <4> QED  BY <3>1, <4>2
    <3>2. CASE ~owned  BY <2>1, <3>2 DEF ChatInv, Idle
    <3> QED  BY <3>1, <3>2
  <2>3. sends + 1 \in Reqs  BY <2>1, Bounds
  <2> HIDE ChatFacts DEF base
  <2> QED  BY <2>1, <2>2, <2>3, DispatchMessages
<1>2. ASSUME NEW i \in DOMAIN msgs, Regenerate(i, mode)
      PROVE  Generating' /\ Idle' /\ queue' = <<>>
  <2>1. /\ page = "open" /\ sends < MaxSends
        /\ Dispatch(sends + 1, mode, Append(Keep(i - 1), Loading(msgs[i].key, sends + 1)),
                    msgs[i].req = draft.failed)
    BY <1>2 DEF Regenerate
  <2>2. Keep(i - 1) \in Seq(Final(sends, lost, conn)) /\ msgs[i].key \in Reqs
    BY Listed, MessageFields
  <2> HIDE ChatFacts
  <2> QED  BY <2>1, <2>2, DispatchMessages
<1>3. ASSUME NEW i \in DOMAIN msgs, EditSubmit(i, mode)
      PROVE  Generating' /\ Idle' /\ queue' = <<>>
  <2>1. /\ page = "open" /\ sends < MaxSends /\ editor = msgs[i].key
        /\ Dispatch(sends + 1, mode, Append(Keep(i - 1), Loading(editor, sends + 1)), FALSE)
    BY <1>3 DEF EditSubmit, Editing
  <2>2. Keep(i - 1) \in Seq(Final(sends, lost, conn)) /\ editor \in Reqs
    BY <2>1, Listed, MessageFields
  <2> HIDE ChatFacts
  <2> QED  BY <2>1, <2>2, DispatchMessages
<1> QED  BY <1>1, <1>2, <1>3 DEF Click

(* Deleting is possible on an idle page only.                              *)
LEMMA DeleteByMessages ==
  ASSUME ChatInv, NEW u, DeleteBy(u),
         Evaluate(u, msgs, gen) \in Seq(Final(sends, lost, conn))
  PROVE  Generating' /\ Idle' /\ queue' = <<>>
<1>1. /\ page = "open" /\ ~busy /\ flags' = flags /\ queue' = <<>>
      /\ busy' = (flags.streaming \/ flags.requesting)
      /\ msgs' = IF Append(queue, u) = <<>> THEN msgs ELSE EvaluateAll(Append(queue, u), msgs, gen)
      /\ UNCHANGED <<gen, conn, latch, sends, lost>>
  BY DEF DeleteBy, Rendered
<1>2. queue = <<>> /\ latch = 0 /\ queue \in Seq(Updaters)
  BY <1>1 DEF ChatInv, PageControl, Control, IdlePage, Rest
<1>3. ~busy'
  <2>1. ~flags.streaming /\ ~flags.requesting
    BY <1>2 DEF ChatInv, PageControl, Control, IdlePage
  <2> QED  BY <1>1, <2>1
<1>4. EvaluateAll(Append(queue, u), msgs, gen) = Evaluate(u, EvaluateAll(queue, msgs, gen), gen)
  BY <1>2, EvaluateNext
<1>5. EvaluateAll(queue, msgs, gen) = msgs  BY <1>2, NothingToEvaluate
<1>6. Append(queue, u) # <<>>  BY <1>2, AppendFacts
<1>7. msgs' = Evaluate(u, msgs, gen)  BY <1>1, <1>4, <1>5, <1>6
<1> QED  BY <1>1, <1>3, <1>7 DEF Generating, Idle

LEMMA DeleteMessages ==
  ASSUME ChatInv, (\E i \in DOMAIN msgs : DeleteMessage(i)) \/ ClearMessages
  PROVE  Generating' /\ Idle' /\ queue' = <<>>
<1>1. ASSUME NEW i \in DOMAIN msgs, DeleteMessage(i)
      PROVE  Generating' /\ Idle' /\ queue' = <<>>
  <2>1. PICK u : u = Updater("remove", msgs[i].req, <<>>, <<>>)  OBVIOUS
  <2>2. u.kind = "remove"  BY <2>1 DEF Updater
  <2>3. DeleteBy(u)  BY <1>1, <2>1 DEF DeleteMessage
  <2>4. msgs \in Seq(Final(sends, lost, conn))  BY <2>3 DEF DeleteBy, ChatInv, Idle
  <2>5. Evaluate(u, msgs, gen) = Removed(msgs, u.g)  BY <2>2 DEF Evaluate
  <2>6. Evaluate(u, msgs, gen) \in Seq(Final(sends, lost, conn))
    BY <2>4, <2>5, RemovedKeeps
  <2> QED  BY <2>3, <2>6, DeleteByMessages
<1>2. ASSUME ClearMessages  PROVE Generating' /\ Idle' /\ queue' = <<>>
  <2>1. PICK u : u = Updater("set", 0, <<>>, <<>>)  OBVIOUS
  <2>2. u.kind = "set" /\ u.list = <<>>  BY <2>1 DEF Updater
  <2>3. DeleteBy(u)  BY <1>2, <2>1 DEF ClearMessages
  <2>4. Evaluate(u, msgs, gen) \in Seq(Final(sends, lost, conn))  BY <2>2 DEF Evaluate
  <2> QED  BY <2>3, <2>4, DeleteByMessages
<1> QED  BY <1>1, <1>2

(***************************************************************************)
(* Leaving and loading: every request so far is cut.                       *)
(***************************************************************************)
LEMMA CutIsFinal ==
  ASSUME NEW n \in Nat, NEW f
  PROVE  Proper(n) \subseteq Final(n, 1..n, f)
<1> SUFFICES ASSUME NEW m \in Proper(n)  PROVE m \in Final(n, 1..n, f)  OBVIOUS
<1>1. m \in Messages /\ m.req <= n  BY DEF Proper
<1>2. m.req \in 1..n  BY <1>1, MessageFields, Bounds
<1> QED  BY <1>2 DEF Final

LEMMA UnmountedMessages ==
  ASSUME ChatInv, Unmounted, UNCHANGED msgs
  PROVE  Generating' /\ Idle' /\ queue' = <<>>
<1>1. busy' = FALSE /\ queue' = <<>> /\ lost' = 1..sends /\ UNCHANGED <<conn, sends>>
  BY DEF Unmounted
<1>2. msgs \in Seq(Proper(sends)) /\ sends \in Nat  BY Listed, ChatFacts
<1>3. msgs \in Seq(Final(sends, 1..sends, conn))  BY <1>2, CutIsFinal, SeqMonotone
<1> QED  BY <1>1, <1>3 DEF Generating, Idle

LEMMA SanitizedProper ==
  ASSUME NEW n \in Nat, NEW list \in Seq(Proper(n))
  PROVE  Sanitized(list) \in Seq(Proper(n))
<1> DEFINE normal == [i \in DOMAIN list |->
                        IF Pending(list[i]) /\ list[i].text # <<>>
                        THEN Completed(list[i]) ELSE list[i]]
           last == {i \in DOMAIN normal : Pending(normal[i])
                      /\ \A j \in DOMAIN normal : j > i => ~Pending(normal[j])}
           new == [i \in DOMAIN normal |-> IF i \in last THEN Failed(normal[i]) ELSE normal[i]]
<1>1. Len(list) \in Nat /\ DOMAIN list = 1..Len(list)
      /\ \A i \in DOMAIN list : list[i] \in Proper(n)
  OBVIOUS
<1>2. \A m \in Proper(n) : Completed(m) \in Proper(n) /\ Failed(m) \in Proper(n)
  <2> TAKE m \in Proper(n)
  <2>1. m \in Messages /\ m.req <= n /\ Own(m)  BY DEF Proper
  <2>2. PICK x : x = Completed(m)  OBVIOUS
  <2>3. x \in Messages /\ x.req = m.req /\ x.text = m.text  BY <2>1, <2>2, EndMade
  <2>4. PICK y : y = Failed(m)  OBVIOUS
  <2>5. y \in Messages /\ y.req = m.req /\ Own(y)  BY <2>1, <2>4, FailedMade
  <2> QED  BY <2>1, <2>2, <2>3, <2>4, <2>5 DEF Proper, Own
<1>3. DOMAIN normal = DOMAIN list /\ \A i \in DOMAIN list : normal[i] \in Proper(n)
  BY <1>1, <1>2
<1>4. Sanitized(list) = new  BY DEF Sanitized
<1> HIDE DEF normal, last
<1>5. DOMAIN new = DOMAIN list /\ \A i \in DOMAIN list : new[i] \in Proper(n)
  BY <1>2, <1>3
<1>6. new \in [1..Len(list) -> Proper(n)]  BY <1>1, <1>3, <1>5
<1> HIDE DEF new
<1> QED  BY <1>1, <1>4, <1>6

LEMMA LoadMessages ==
  ASSUME ChatInv, Load
  PROVE  Generating' /\ Idle' /\ UNCHANGED queue /\ disk' \in Seq(Proper(sends))
<1>1. /\ page # "open" /\ msgs' = Sanitized(disk) /\ disk' = Sanitized(disk)
      /\ UNCHANGED <<conn, queue, busy, sends, lost>>
  BY DEF Load
<1>2. ~busy /\ lost = 1..sends  BY <1>1 DEF ChatInv, PageControl, Control, IdlePage
<1>3. disk \in Seq(Proper(sends)) /\ sends \in Nat  BY ChatFacts DEF ChatInv, Rest
<1>4. Sanitized(disk) \in Seq(Proper(sends))  BY <1>3, SanitizedProper
<1>5. msgs' \in Seq(Final(sends, 1..sends, conn))
  BY <1>1, <1>3, <1>4, CutIsFinal, SeqMonotone
<1> QED  BY <1>1, <1>2, <1>4, <1>5 DEF Generating, Idle

(***************************************************************************)
(* Every step keeps the invariant.                                         *)
(***************************************************************************)
LEMMA DraftTyped ==
  ASSUME ChatInv, NEW ok
  PROVE  Settled(ok) \in Drafts /\ NoDraft \in Drafts /\ draft \in Drafts
<1>1. draft \in Drafts /\ latch \in 0..MaxSends /\ 0 \in 0..MaxSends
  BY Bounds, ControlFacts DEF ChatInv, Rest
<1>2. NoDraft \in Drafts  BY <1>1 DEF NoDraft, Drafts
<1>3. Settled(ok) \in Drafts
  <2>1. CASE latch = 0 \/ draft.owner # latch  BY <1>1, <2>1 DEF Settled
  <2>2. CASE ~(latch = 0 \/ draft.owner # latch)
    <3>1. PICK x \in 0..MaxSends : x = IF ok THEN 0 ELSE latch  BY <1>1
    <3>2. Settled(ok) = [failed |-> x, owner |-> 0]  BY <2>2, <3>1 DEF Settled
    <3> QED  BY <1>1, <3>2 DEF Drafts
  <2> QED  BY <2>1, <2>2
<1> QED  BY <1>1, <1>2, <1>3

LEMMA RestKept ==
  ASSUME ChatInv, queue' \in Seq(Updaters), draft' \in Drafts,
         UNCHANGED <<disk, editor, edits, page, sends>>
  PROVE  Rest'
  BY DEF ChatInv, Rest

LEMMA ReceivedSame ==
  ASSUME ChatInv, NEW r \in Reqs, NEW st, conn' = [conn EXCEPT ![r].st = st]
  PROVE  \A s \in Reqs : SameReceived(conn[s], conn'[s])
<1>1. conn \in [Reqs -> Conns]  BY DEF ChatInv, PageControl, PageInv, Types
<1> TAKE s \in Reqs
<1>2. CASE s = r
  <2>1. conn'[s] = [conn[s] EXCEPT !.st = st] /\ conn[s] \in Conns  BY <1>1, <1>2
  <2> QED  BY <2>1 DEF SameReceived, Conns
<1>3. CASE s # r
  <2>1. conn'[s] = conn[s]  BY <1>1, <1>3
  <2> QED  BY <2>1 DEF SameReceived
<1> QED  BY <1>2, <1>3

LEMMA FinishDraft ==
  ASSUME ChatInv, NEW kind, NEW ok, Finish(gen, kind, ok)
  PROVE  draft' \in Drafts
  BY DraftTyped DEF Finish

LEMMA NetworkMessages ==
  ASSUME ChatInv, NEW r \in Reqs, Network(r)
  PROVE  Generating' /\ Idle' /\ Rest'
<1>0. PageControl  BY DEF ChatInv
<1>1. CASE StreamOpen(r)
  <2>1. UNCHANGED <<gen, pend, latch, draft, queue, busy, msgs, editor, disk, page, sends, edits,
                    lost>>
    BY <1>1 DEF StreamOpen
  <2>2. \A s \in Reqs : SameReceived(conn[s], conn'[s])
    <3>1. CASE ctl.gen = conn[r].cgen  BY <1>1, <3>1, ReceivedSame DEF StreamOpen
    <3>2. CASE ctl.gen # conn[r].cgen  BY <1>1, <3>2, ReceivedSame DEF StreamOpen
    <3> QED  BY <3>1, <3>2
  <2>3. Generating' /\ Idle'  BY <2>1, <2>2, StillMessages
  <2> QED  BY <2>1, <2>3 DEF ChatInv, Rest
<1>2. CASE StreamStartError(r)
  <2>1. /\ latch = r /\ Finish(gen, "error", FALSE)
        /\ conn' = [conn EXCEPT ![r].st = "closed"]
        /\ UNCHANGED <<gen, busy, msgs, editor, disk, page, sends, edits, visits, lost>>
    BY <1>0, <1>2, StreamStartErrorControl
  <2>2. Generating' /\ Idle' /\ queue' \in Seq(Updaters)
    BY <2>1, Bounds, ReceivedSame, FinishMessages
  <2> QED  BY <2>1, <2>2, FinishDraft, RestKept
<1>3. CASE StreamChunk(r)
  <2>1. UNCHANGED <<draft, queue, editor, disk, page, sends, edits>>  BY <1>3 DEF StreamChunk
  <2>2. Generating' /\ Idle'  BY <1>3, StreamChunkMessages
  <2> QED  BY <2>1, <2>2 DEF ChatInv, Rest
<1>4. ASSUME NEW kind \in {"complete", "error"}, NEW ok, StreamEnd(r, kind, ok)
      PROVE  Generating' /\ Idle' /\ Rest'
  <2>1. /\ latch = r /\ Finish(gen, kind, ok)
        /\ conn' = [conn EXCEPT ![r].st = "closed"]
        /\ UNCHANGED <<gen, busy, msgs, editor, disk, page, sends, edits, visits, lost>>
    BY <1>0, <1>4, StreamEndControl
  <2>2. Generating' /\ Idle' /\ queue' \in Seq(Updaters)
    BY <2>1, Bounds, ReceivedSame, FinishMessages
  <2> QED  BY <2>1, <2>2, FinishDraft, RestKept
<1>5. CASE StreamDone(r)  BY <1>4, <1>5 DEF StreamDone
<1>6. CASE StreamError(r)  BY <1>4, <1>6 DEF StreamError
<1>7. CASE PlainAnswer(r)
  <2>1. draft' = Settled(TRUE) /\ UNCHANGED <<editor, disk, page, sends, edits>>
    BY <1>7 DEF PlainAnswer
  <2>2. Generating' /\ Idle' /\ queue' \in Seq(Updaters)  BY <1>7, PlainAnswerMessages
  <2> QED  BY <2>1, <2>2, DraftTyped, RestKept
<1>8. CASE PlainError(r)
  <2>1. /\ latch = r /\ Finish(gen, "error", FALSE)
        /\ conn' = [conn EXCEPT ![r].st = "closed"]
        /\ UNCHANGED <<gen, busy, msgs, editor, disk, page, sends, edits, visits, lost>>
    BY <1>0, <1>8, PlainErrorControl
  <2>2. Generating' /\ Idle' /\ queue' \in Seq(Updaters)
    BY <2>1, Bounds, ReceivedSame, FinishMessages
  <2> QED  BY <2>1, <2>2, FinishDraft, RestKept
<1> QED  BY <1>1, <1>2, <1>3, <1>5, <1>6, <1>7, <1>8 DEF Network

LEMMA DispatchRest ==
  ASSUME ChatInv, sends < MaxSends, NEW mode \in Modes, NEW list, NEW claim \in BOOLEAN,
         Dispatch(sends + 1, mode, list, claim), editor' \in 0..MaxSends, queue' = <<>>
  PROVE  Rest'
<1>1. PICK r \in 0..MaxSends : r = sends + 1 /\ r \in Nat  BY ChatFacts, Bounds
<1>2. draft' = [failed |-> 0, owner |-> IF claim THEN r ELSE 0] /\ sends' = r
      /\ UNCHANGED <<disk, page, edits>>
  BY <1>1 DEF Dispatch
<1>3. draft' \in Drafts
  <2>1. 0 \in 0..MaxSends  BY Bounds
  <2>2. PICK o \in 0..MaxSends : o = IF claim THEN r ELSE 0  BY <2>1
  <2> QED  BY <1>2, <2>1, <2>2 DEF Drafts
<1>4. disk' \in Seq(Proper(r))
  <2>1. sends \in Nat /\ sends <= r /\ disk \in Seq(Proper(sends))
    BY <1>1, ChatFacts DEF ChatInv, Rest
  <2> QED  BY <1>1, <1>2, <2>1, ProperGrows, SeqMonotone
<1> QED  BY <1>2, <1>3, <1>4 DEF ChatInv, Rest

LEMMA ClickRest ==
  ASSUME ChatInv, NEW mode \in Modes, Click(mode)
  PROVE  Rest'
<1>1. queue' = <<>> /\ editor \in 0..MaxSends /\ 0 \in 0..MaxSends
  BY ClickMessages, Bounds DEF ChatInv, Rest
<1>2. CASE SendMessage(mode)
  <2>1. sends < MaxSends /\ editor' = editor /\ TRUE \in BOOLEAN
        /\ \E list : Dispatch(sends + 1, mode, list, TRUE)
    BY <1>2 DEF SendMessage
  <2> QED  BY <1>1, <2>1, DispatchRest
<1>3. ASSUME NEW i \in DOMAIN msgs, Regenerate(i, mode)  PROVE Rest'
  <2>1. PICK claim \in BOOLEAN : claim = (msgs[i].req = draft.failed)  OBVIOUS
  <2>2. sends < MaxSends /\ editor' = editor
        /\ \E list : Dispatch(sends + 1, mode, list, claim)
    BY <1>3, <2>1 DEF Regenerate
  <2> QED  BY <1>1, <2>2, DispatchRest
<1>4. ASSUME NEW i \in DOMAIN msgs, EditSubmit(i, mode)  PROVE Rest'
  <2>1. sends < MaxSends /\ editor' = 0 /\ FALSE \in BOOLEAN
        /\ \E list : Dispatch(sends + 1, mode, list, FALSE)
    BY <1>4 DEF EditSubmit
  <2> QED  BY <1>1, <2>1, DispatchRest
<1> QED  BY <1>2, <1>3, <1>4 DEF Click

LEMMA EditMessages ==
  ASSUME ChatInv, NEW i \in DOMAIN msgs,
         EditOpen(i) \/ EditSave(i) \/ SendRefused(i) \/ DeleteMessage(i)
  PROVE  Generating' /\ Idle' /\ Rest'
<1>1. NoDraft \in Drafts /\ queue \in Seq(Updaters) /\ <<>> \in Seq(Updaters)
      /\ 0 \in 0..MaxSends /\ \A r \in Reqs : SameReceived(conn[r], conn[r])
  BY DraftTyped, Bounds DEF ChatInv, Rest, SameReceived
<1>2. CASE EditOpen(i)
  <2>1. /\ editor' = msgs[i].key /\ edits < MaxEdits /\ edits' = edits + 1 /\ draft' = NoDraft
        /\ UNCHANGED <<gen, conn, pend, latch, queue, busy, msgs, disk, page, sends, lost>>
    BY <1>2 DEF EditOpen
  <2>2. Generating' /\ Idle'  BY <1>1, <2>1, StillMessages
  <2>3. editor' \in 0..MaxSends
    <3>1. msgs[i].key \in Reqs  BY Listed, MessageFields
    <3> QED  BY <2>1, <3>1, Bounds
  <2>4. edits' \in 0..MaxEdits  BY <2>1, PlaygroundBounds DEF ChatInv, Rest
  <2> QED  BY <1>1, <2>1, <2>2, <2>3, <2>4 DEF ChatInv, Rest
<1>3. CASE EditSave(i)
  <2>1. editor' = 0 /\ draft' = NoDraft /\ UNCHANGED <<disk, page, sends, edits>>
    BY <1>3 DEF EditSave
  <2>2. Generating' /\ Idle' /\ queue' = <<>>  BY <1>3, EditSaveMessages
  <2> QED  BY <1>1, <2>1, <2>2 DEF ChatInv, Rest
<1>4. CASE SendRefused(i)
  <2>1. /\ draft' = NoDraft
        /\ UNCHANGED <<gen, conn, pend, latch, queue, busy, msgs, editor, disk, page, sends, edits,
                       lost>>
    BY <1>4 DEF SendRefused
  <2>2. Generating' /\ Idle'  BY <1>1, <2>1, StillMessages
  <2> QED  BY <1>1, <2>1, <2>2 DEF ChatInv, Rest
<1>5. CASE DeleteMessage(i)
  <2>1. draft' = NoDraft /\ UNCHANGED <<disk, editor, page, sends, edits>>
    BY <1>5 DEF DeleteMessage, DeleteBy
  <2>2. Generating' /\ Idle' /\ queue' = <<>>  BY <1>5, DeleteMessages
  <2> QED  BY <1>1, <2>1, <2>2 DEF ChatInv, Rest
<1> QED  BY <1>2, <1>3, <1>4, <1>5

LEMMA LeaveMessages ==
  ASSUME ChatInv, Leave \/ Crash
  PROVE  Generating' /\ Idle' /\ Rest'
<1>1. Unmounted /\ UNCHANGED msgs /\ page' \in {"left", "lost"} /\ (disk' = msgs \/ disk' = disk)
  BY DEF Leave, Crash
<1>2. Generating' /\ Idle' /\ queue' = <<>>  BY <1>1, UnmountedMessages
<1>3. draft' = NoDraft /\ editor' = 0 /\ UNCHANGED <<sends, edits>>  BY <1>1 DEF Unmounted
<1>4. NoDraft \in Drafts /\ 0 \in 0..MaxSends /\ <<>> \in Seq(Updaters)
  BY DraftTyped, Bounds
<1>5. disk' \in Seq(Proper(sends))  BY <1>1, Listed DEF ChatInv, Rest
<1> QED  BY <1>1, <1>2, <1>3, <1>4, <1>5 DEF ChatInv, Rest

LEMMA InitChat == Init => ChatInv
<1> SUFFICES ASSUME Init  PROVE ChatInv  OBVIOUS
<1>1. PageControl  BY InitControl
<1>2. Generating  BY DEF Init, Generating
<1>3. Idle  BY DEF Init, Idle
<1>4. Rest
  <2>1. NoDraft \in Drafts  BY Bounds DEF NoDraft, Drafts
  <2> QED  BY <2>1, PlaygroundBounds DEF Init, Rest
<1> QED  BY <1>1, <1>2, <1>3, <1>4 DEF ChatInv

LEMMA StepChat == ChatInv /\ [Next]_vars => ChatInv'
<1> SUFFICES ASSUME ChatInv, [Next]_vars  PROVE Generating' /\ Idle' /\ Rest'
  BY StepControl DEF ChatInv
<1>1. /\ NoDraft \in Drafts /\ <<>> \in Seq(Updaters) /\ 0 \in 0..MaxSends
      /\ \A r \in Reqs : SameReceived(conn[r], conn[r])
  BY DraftTyped, Bounds DEF SameReceived
<1>2. CASE \E r \in Reqs : Network(r)  BY <1>2, NetworkMessages
<1>3. CASE \E mode \in Modes : Click(mode)  BY <1>3, ClickMessages, ClickRest
<1>4. CASE \E i \in DOMAIN msgs : EditOpen(i) \/ EditSave(i) \/ SendRefused(i)
                                    \/ DeleteMessage(i)
  BY <1>4, EditMessages
<1>5. CASE Stop
  <2>1. draft' = Settled(FALSE) /\ UNCHANGED <<editor, disk, page, sends, edits>>
    BY <1>5 DEF Stop
  <2>2. Generating' /\ Idle' /\ queue' = <<>>  BY <1>5, StopMessages
  <2> QED  BY <1>1, <2>1, <2>2, DraftTyped, RestKept
<1>6. CASE EditCancel
  <2>1. /\ editor' = 0 /\ draft' = NoDraft
        /\ UNCHANGED <<gen, conn, pend, latch, queue, busy, msgs, disk, page, sends, edits, lost>>
    BY <1>6 DEF EditCancel
  <2>2. Generating' /\ Idle'  BY <1>1, <2>1, StillMessages
  <2> QED  BY <1>1, <2>1, <2>2 DEF ChatInv, Rest
<1>7. CASE ClearMessages
  <2>1. editor' = 0 /\ draft' = NoDraft /\ UNCHANGED <<disk, page, sends, edits>>
    BY <1>7 DEF ClearMessages, DeleteBy
  <2>2. Generating' /\ Idle' /\ queue' = <<>>  BY <1>7, DeleteMessages
  <2> QED  BY <1>1, <2>1, <2>2 DEF ChatInv, Rest
<1>8. CASE Render
  <2>1. UNCHANGED <<draft, editor, disk, page, sends, edits>>  BY <1>8 DEF Render
  <2>2. Generating' /\ Idle' /\ queue' = <<>>  BY <1>8, RenderMessages
  <2> QED  BY <1>1, <2>1, <2>2 DEF ChatInv, Rest
<1>9. CASE FlushTimer
  <2>1. UNCHANGED <<draft, editor, disk, page, sends, edits>>  BY <1>9 DEF FlushTimer
  <2>2. Generating' /\ Idle' /\ queue' \in Seq(Updaters)  BY <1>9, FlushTimerMessages
  <2> QED  BY <2>1, <2>2 DEF ChatInv, Rest
<1>10. CASE SaveTimer
  <2>1. /\ disk' = msgs
        /\ UNCHANGED <<gen, conn, pend, latch, draft, queue, busy, msgs, editor, page, sends,
                       edits, lost>>
    BY <1>10 DEF SaveTimer
  <2>2. Generating' /\ Idle'  BY <1>1, <2>1, StillMessages
  <2>3. disk' \in Seq(Proper(sends))  BY <2>1, Listed
  <2> QED  BY <2>1, <2>2, <2>3 DEF ChatInv, Rest
<1>11. CASE Leave \/ Crash  BY <1>11, LeaveMessages
<1>12. CASE Load
  <2>1. page' = "open" /\ UNCHANGED <<draft, editor, sends, edits>>  BY <1>12 DEF Load
  <2>2. Generating' /\ Idle' /\ UNCHANGED queue /\ disk' \in Seq(Proper(sends))
    BY <1>12, LoadMessages
  <2> QED  BY <2>1, <2>2 DEF ChatInv, Rest
<1>13. CASE UNCHANGED vars
  <2>1. UNCHANGED <<gen, conn, pend, latch, draft, queue, busy, msgs, editor, disk, page, sends,
                    edits, lost>>
    BY <1>13 DEF vars
  <2>2. Generating' /\ Idle'  BY <1>1, <2>1, StillMessages
  <2> QED  BY <2>1, <2>2 DEF ChatInv, Rest
<1> QED
  BY <1>2, <1>3, <1>4, <1>5, <1>6, <1>7, <1>8, <1>9, <1>10, <1>11, <1>12, <1>13 DEF Next

--------------------------------------------------------------------------------
(***************************************************************************)
(* What the invariant says of the list.                                    *)
(***************************************************************************)
LEMMA EachMessage ==
  ASSUME ChatInv, NEW i \in DOMAIN msgs
  PROVE  \/ msgs[i] \in Final(sends, lost, conn)
         \/ busy /\ \E base, now, stopped : Generation(base, msgs[i], now, stopped)
<1>1. CASE ~busy
  <2>1. msgs \in Seq(Final(sends, lost, conn))  BY <1>1 DEF ChatInv, Idle
  <2> QED  BY <2>1
<1>2. CASE busy
  <2>1. PICK base, x, now, stopped : Generation(base, x, now, stopped)
    BY <1>2 DEF ChatInv, Generating
  <2>2. base \in Seq(Older(sends, lost, conn)) /\ msgs = Append(base, x)
    BY <2>1 DEF Generation
  <2>3. /\ Len(base) \in Nat /\ msgs[Len(base) + 1] = x
        /\ \A j \in 1..Len(base) : msgs[j] = base[j]
        /\ i \in 1..(Len(base) + 1)
    BY <2>2, AppendFacts
  <2>4. CASE i = Len(base) + 1
    <3>1. msgs[i] = x  BY <2>3, <2>4
    <3> QED  BY <1>2, <2>1, <3>1
  <2>5. CASE i # Len(base) + 1
    <3>1. i \in 1..Len(base)  BY <2>3, <2>5
    <3>2. base[i] \in Older(sends, lost, conn)  BY <2>2, <3>1
    <3> QED  BY <2>3, <3>1, <3>2 DEF Older
  <2> QED  BY <2>4, <2>5
<1> QED  BY <1>1, <1>2

LEMMA TextKept ==
  ASSUME ChatInv, NEW i \in DOMAIN msgs
  PROVE  LET m == msgs[i] IN
         /\ \A k \in DOMAIN m.text : m.text[k][1] = m.req
         /\ m.req \notin lost =>
              \E a \in 0..conn[m.req].got : Shows(m.text, m.req, conn[m.req].mode, a)
         /\ (/\ m.st # "error" /\ conn[m.req].mode # "plain" /\ m.req \notin lost
             /\ queue = <<>> /\ (pend.text = <<>> \/ pend.gen # conn[m.req].gen))
               => Shows(m.text, m.req, conn[m.req].mode, conn[m.req].got)
<1>1. PICK m : m = msgs[i]  OBVIOUS
<1>2. PICK c : c = conn[m.req]  OBVIOUS
<1>3. m \in Messages /\ m.req \in Reqs  BY <1>1, Listed, MessageFields
<1>4. c.got \in 0..MaxPieces /\ 0 \in 0..c.got /\ c.got \in 0..c.got
  <2>1. c.got \in 0..MaxPieces  BY <1>2, <1>3, ChatFacts
  <2> QED  BY <2>1, Bounds
<1>5. CASE m \in Final(sends, lost, conn)
  <2>1. Own(m) /\ (m.req \notin lost => Kept(m, c))  BY <1>2, <1>5 DEF Final, Proper
  <2>2. m.req \notin lost => m.text = <<>> \/ Shows(m.text, m.req, c.mode, c.got)
    <3>1. c.mode = "plain" => (Shows(m.text, m.req, c.mode, c.got)
                                 <=> m.text = Pieces(m.req, c.got))
      BY <1>4, ShowsCovers
    <3> QED  BY <2>1, <3>1 DEF Kept
  <2>3. m.req \notin lost => \E a \in 0..c.got : Shows(m.text, m.req, c.mode, a)
    <3>1. Shows(<<>>, m.req, c.mode, 0)  BY <1>3, ShowsNothing
    <3> QED  BY <1>4, <2>2, <3>1
  <2>4. \A k \in DOMAIN m.text : m.text[k][1] = m.req  BY <2>1 DEF Own, OwnText
  <2>5. m.st # "error" /\ c.mode # "plain" /\ m.req \notin lost
          => Shows(m.text, m.req, c.mode, c.got)
    BY <2>1 DEF Kept
  <2> QED  BY <1>1, <1>2, <2>3, <2>4, <2>5
<1>6. CASE busy /\ \E base, now, stopped : Generation(base, m, now, stopped)
  <2>1. PICK base, now, stopped : Generation(base, m, now, stopped)  BY <1>6
  <2>2. Shown(m, sends, lost, conn[sends])  BY <2>1 DEF Generation
  <2>3. m.req = sends /\ Own(m) /\ c = conn[sends]  BY <1>2, <2>2 DEF Shown
  <2>4. m.req \notin lost => \E a \in 0..c.got : Shows(m.text, m.req, c.mode, a)
    BY <2>2, <2>3 DEF Shown
  <2>5. \A k \in DOMAIN m.text : m.text[k][1] = m.req  BY <2>3 DEF Own, OwnText
  <2>6. ASSUME m.st # "error", c.mode # "plain", m.req \notin lost, queue = <<>>,
               pend.text = <<>> \/ pend.gen # c.gen
        PROVE  Shows(m.text, m.req, c.mode, c.got)
    <3>1. /\ base \in Seq(Older(sends, lost, conn)) /\ msgs = Append(base, m)
          /\ EvaluateAll(queue, msgs, gen) = Append(base, now)
      BY <2>1 DEF Generation
    <3>2. Append(base, m) = Append(base, now)  BY <2>6, <3>1, NothingToEvaluate
    <3>3. m = now
      <4>1. Append(base, m)[Len(base) + 1] = m /\ Append(base, now)[Len(base) + 1] = now
        BY <3>1, AppendFacts
      <4> QED  BY <3>2, <4>1
    <3>4. CASE latch = 0
      <4>1. Over(m, sends, lost, c)  BY <2>1, <2>3, <3>3, <3>4 DEF Generation
      <4> QED  BY <2>3, <2>6, <4>1 DEF Over, Kept
    <3>5. CASE latch # 0
      <4>1. Due(m, sends, lost, c, pend.text)  BY <2>1, <2>3, <3>3, <3>5 DEF Generation
      <4>2. latch = sends /\ pend.gen = gen  BY <3>5, ChatFacts
      <4>3. conn[latch].gen = gen  BY <3>5, ControlFacts DEF ChatInv
      <4>4. pend.text = <<>>  BY <2>3, <2>6, <4>2, <4>3
      <4>5. PICK a \in 0..c.got : Shows(m.text, sends, c.mode, a) /\ Fits(sends, a, <<>>, c)
        BY <2>3, <2>6, <4>1, <4>4 DEF Due
      <4>6. a = c.got  BY <2>6, <4>5 DEF Fits
      <4> QED  BY <2>3, <4>5, <4>6
    <3> QED  BY <3>4, <3>5
  <2> QED  BY <1>1, <1>2, <2>4, <2>5, <2>6
<1> QED  BY <1>1, <1>5, <1>6, EachMessage

LEMMA ChatTyped ==
  ASSUME ChatInv
  PROVE  TypeOK
<1> USE ChatFacts
<1>1. PageControl /\ PageInv /\ Types /\ Control /\ Rest
  BY DEF ChatInv, PageControl, PageInv
<1>2. \A x \in 0..gen : x \in Generations
  <2>1. PICK top \in Int : top = 2 * MaxSends + MaxVisits + 1
    BY Bounds, PlaygroundBounds
  <2>2. Generations = 0..top /\ gen \in 0..top  BY <2>1 DEF Generations
  <2> HIDE ChatFacts
  <2> QED  BY <2>2
<1>3. gen \in Generations /\ timer \in Generations
  <2>1. 0 \in 0..gen  OBVIOUS
  <2> QED  BY <1>1, <1>2, <2>1 DEF PageInv, Buffered
<1>4. ctl \in [gen : Generations, src : 0..MaxSends]
  <2>1. ctl \in [gen : Nat, src : Nat] /\ ctl.gen = gen /\ ctl.src \in 0..MaxSends
    BY <1>1 DEF Types, Control, OneGeneration
  <2> QED  BY <1>3, <2>1
<1>5. conn \in [Reqs -> [mode : Modes, st : {"none", "headers", "open", "plain", "closed"},
                         gen : Generations, cgen : Generations, got : 0..MaxPieces]]
  <2>1. conn \in [Reqs -> Conns]  BY <1>1 DEF Types
  <2>2. ASSUME NEW r \in Reqs
        PROVE  conn[r] \in [mode : Modes, st : {"none", "headers", "open", "plain", "closed"},
                            gen : Generations, cgen : Generations, got : 0..MaxPieces]
    <3>1. conn[r] \in Conns /\ conn[r].got \in 0..MaxPieces  OBVIOUS
    <3>2. conn[r].cgen = conn[r].gen /\ conn[r].gen <= gen
      BY <1>1 DEF Control, OneGeneration
    <3>3. conn[r].gen \in Nat  BY <3>1 DEF Conns
    <3>4. conn[r].gen \in Generations
      <4>1. conn[r].gen \in 0..gen  BY <3>2, <3>3
      <4> QED  BY <1>2, <4>1
    <3> HIDE ChatFacts
    <3> QED  BY <3>1, <3>2, <3>4 DEF Conns
  <2> QED  BY <2>1, <2>2
<1>6. pend \in [gen : Generations, text : Texts]
  <2>1. pend = [gen |-> pend.gen, text |-> pend.text]  BY <1>1 DEF Control, BufferOwned
  <2>2. pend.text \in Texts
    <3>1. CASE latch = 0
      <4>1. pend.text = <<>>  BY <3>1
      <4> QED  BY <4>1 DEF Texts
    <3>2. CASE latch # 0
      <4>1. busy  BY <1>1, <3>2, ControlFacts
      <4> QED  BY <3>2, <4>1, OwnTexts
    <3> QED  BY <3>1, <3>2
  <2>3. pend.gen \in Generations  OBVIOUS
  <2> HIDE ChatFacts
  <2> QED  BY <2>1, <2>2, <2>3
<1>7. queue \in Seq([kind : {"set", "remove", "batch", "complete", "error", "response"},
                     g : Generations, text : Texts, list : Seq(Messages)])
  <2>1. Updaters \subseteq [kind : {"set", "remove", "batch", "complete", "error", "response"},
                            g : Generations, text : Texts, list : Seq(Messages)]
    BY DEF Updaters, StreamKinds
  <2> QED  BY <2>1, SeqMonotone
<1>8. msgs \in Seq(Messages) /\ disk \in Seq(Messages)
  <2>1. Proper(sends) \subseteq Messages  BY DEF Proper
  <2>2. disk \in Seq(Proper(sends))  BY <1>1 DEF Rest
  <2> QED  BY <2>1, <2>2, Listed, SeqMonotone
<1>9. lost \subseteq Reqs
  <2>1. lost \subseteq 1..sends /\ sends <= MaxSends  BY <1>1, ControlFacts DEF Control, IdlePage
  <2> QED  BY <2>1, Bounds
<1>10. /\ latch \in 0..MaxSends /\ sends \in 0..MaxSends
       /\ flags \in [streaming : BOOLEAN, requesting : BOOLEAN]
       /\ busy \in BOOLEAN /\ dirty \in BOOLEAN
  BY <1>1 DEF Types
<1>11. /\ draft \in [failed : 0..MaxSends, owner : 0..MaxSends] /\ editor \in 0..MaxSends
       /\ page \in {"open", "left", "lost"} /\ edits \in 0..MaxEdits
       /\ visits \in 0..MaxVisits
  BY <1>1 DEF Rest, Drafts, Control, Counted
<1> HIDE ChatFacts
<1> QED
  BY <1>3, <1>4, <1>5, <1>6, <1>7, <1>8, <1>9, <1>10, <1>11 DEF TypeOK

--------------------------------------------------------------------------------
(***************************************************************************)
(* The theorems.                                                           *)
(***************************************************************************)
(* The invariant of the list holds throughout: evaluating the queued       *)
(* updaters, now or after a stop, changes the answer under way only.       *)
THEOREM ChatInvariant == Spec => []ChatInv
  BY InitChat, StepChat, PTL DEF Spec

(* Every variable keeps its type; in particular the generation stays below *)
(* two for each request and one for each visit.                            *)
THEOREM TypeCorrect == Spec => []TypeOK
<1>1. ChatInv => TypeOK  BY ChatTyped
<1> QED  BY <1>1, ChatInvariant, PTL

(* No answer shows text of another request, whatever happens.  An answer   *)
(* whose request was not cut by a saved edit, a visit or a reload shows a  *)
(* beginning of what its stream delivered, and once React has caught up    *)
(* every chunk, the ones buffered or queued at a Stop included             *)
(* (flushStreamUpdates, applyStreamingChunk, stopGeneration).  When deltas *)
(* repeat a word, the merge may swallow a repetition, and what is proved   *)
(* is that every word delivered is still shown and no other.               *)
THEOREM ReceivedKept == Spec => []ReceivedTextKept
<1>1. ChatInv => ReceivedTextKept
  <2> SUFFICES ASSUME ChatInv  PROVE ReceivedTextKept  OBVIOUS
  <2>1. BufferFlushes  BY DEF ChatInv, PageControl, PageInv, Buffered, BufferFlushes
  <2> QED  BY <2>1, TextKept DEF ReceivedTextKept
<1> QED  BY <1>1, ChatInvariant, PTL

(* The page is set busy exactly while a request holds the promise, and     *)
(* that request's connection can still settle it; a page that renders as   *)
(* idle holds none and leaves no answer loading or streaming, but for      *)
(* requests cut by a saved edit, a visit or a reload, which may stay so    *)
(* (settleRequest, setIsRequesting, completeAssistantMessage).             *)
THEOREM BusyMatchesRequest == Spec => []BusyIffActive
<1>1. ChatInv => BusyIffActive
  <2> SUFFICES ASSUME ChatInv  PROVE BusyIffActive  OBVIOUS
  <2>1. LatchSettles
    BY DEF ChatInv, PageControl, PageInv, Latched, LatchSettles, IsCurrent
  <2>2. ASSUME ~busy, NEW i \in DOMAIN msgs, Pending(msgs[i])  PROVE msgs[i].req \in lost
    BY <2>2, EachMessage DEF Final
  <2>3. flags.streaming \/ flags.requesting <=> latch # 0
    <3>1. flags.streaming => latch # 0  BY DEF ChatInv, PageControl, Control, IdlePage
    <3>2. flags.requesting => latch # 0  BY DEF ChatInv, PageControl, Control, IdlePage
    <3>3. latch # 0 => flags.requesting  BY ControlFacts DEF ChatInv
    <3> QED  BY <3>1, <3>2, <3>3
  <2> QED  BY <2>1, <2>2, <2>3 DEF BusyIffActive
<1> QED  BY <1>1, ChatInvariant, PTL

================================================================================
