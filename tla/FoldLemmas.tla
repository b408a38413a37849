------------------------------ MODULE FoldLemmas ------------------------------
(***************************************************************************)
(* What the folds of the community modules come to.  MapThenSumSet and     *)
(* FoldSet are recursive functions that take the elements of a set one by  *)
(* one in an order of their own, FlattenSeq is one that joins the pieces   *)
(* of a sequence.  The lemmas show that the functions exist, how a sum     *)
(* changes with its set and its summands, that a set put in order is each  *)
(* of its elements once, and that a sequence cut in pieces is itself.      *)
(***************************************************************************)
EXTENDS Integers, FiniteSetsExt, SequencesExt, FiniteSetTheorems, SequenceTheorems,
        WellFoundedInduction, TLAPS

Pick(s) == CHOOSE x \in s : TRUE

\* The recursion, on every subset of S.
IsFold(g, v, S) ==
    g = [s \in SUBSET S |-> IF s = {} THEN 0 ELSE v[Pick(s)] + g[s \ {Pick(s)}]]

\* The sum of v over S.
Total(v, S) == MapThenSumSet(LAMBDA x : v[x], S)

\* Of the subsets of a finite set that have a property one is smallest: what
\* fails for some subset fails for one all of whose own subsets are good.
LEMMA SmallestSubset ==
    ASSUME NEW S, IsFiniteSet(S), NEW Bad \in SUBSET SUBSET S, Bad # {}
    PROVE  \E T \in Bad : \A U \in SUBSET T : U # T => U \notin Bad
<1>1. PICK T \in Bad : \A U \in Bad : <<U, T>> \notin StrictSubsetOrdering(S)
  <2>1. Bad \subseteq FiniteSubsetsOf(S)
    BY FS_FiniteSubsetsOfFinite
  <2>2. IsWellFoundedOn(StrictSubsetOrdering(S), FiniteSubsetsOf(S))
    BY FS_StrictSubsetOrderingWellFounded
  <2> QED
    BY <2>1, <2>2, WFMin
<1>2. ASSUME NEW U \in SUBSET T, U # T, U \in Bad PROVE FALSE
  BY <1>1, <1>2 DEF StrictSubsetOrdering
<1> QED
  BY <1>2

\* A nonempty finite set of integers has a least element: of the sets of its
\* members up to a given one, take a smallest.
LEMMA LeastElement ==
    ASSUME NEW S, S \subseteq Int, IsFiniteSet(S), S # {}
    PROVE  Min(S) \in S /\ \A y \in S : Min(S) <= y
<1> DEFINE Upto(x) == {y \in S : y <= x}
           Lows == {Upto(x) : x \in S}
<1>1. PICK x \in S : \A U \in SUBSET Upto(x) : U # Upto(x) => U \notin Lows
  <2>1. Lows \in SUBSET SUBSET S /\ Lows # {}
    OBVIOUS
  <2>2. PICK T \in Lows : \A U \in SUBSET T : U # T => U \notin Lows
    <3> HIDE DEF Lows
    <3> QED
      BY <2>1, SmallestSubset
  <2> QED
    BY <2>2
<1>2. ASSUME NEW y \in S PROVE x <= y
  <2> SUFFICES ASSUME ~(x <= y) PROVE FALSE
    OBVIOUS
  <2>1. x \in Int /\ y \in Int
    OBVIOUS
  <2>2. \A z \in S : z \in Int /\ (z <= y => z <= x)
    BY <2>1
  <2>3. Upto(y) \subseteq Upto(x) /\ Upto(y) \in Lows
    BY <2>2
  <2>4. x \notin Upto(y) /\ x \in Upto(x)
    BY <2>1
  <2> QED
    BY <1>1, <2>3, <2>4
<1> QED
  BY <1>2 DEF Min

\* And a greatest: the least of the numbers below it all.
LEMMA GreatestElement ==
    ASSUME NEW S, S \subseteq Int, IsFiniteSet(S), S # {}
    PROVE  Max(S) \in S /\ \A y \in S : y <= Max(S)
<1> DEFINE N == {0 - x : x \in S}
<1>1. N \subseteq Int /\ N # {}
  <2>1. \A x \in S : 0 - x \in Int /\ 0 - x \in N
    OBVIOUS
  <2> QED
    BY <2>1
<1>2. IsFiniteSet(N)
  <2> DEFINE f == [x \in S |-> 0 - x]
  <2>1. f \in Surjection(S, N)
    BY DEF Surjection
  <2> QED
    BY <2>1, FS_Surjection
<1>3. Min(N) \in N /\ \A y \in N : Min(N) <= y
  <2> HIDE DEF N
  <2> QED
    BY <1>1, <1>2, LeastElement
<1>4. PICK x \in S : \A y \in S : 0 - x <= 0 - y
  BY <1>3
<1>5. \A y \in S : y \in Int /\ y <= x
  BY <1>4
<1> QED
  BY <1>5 DEF Max

LEMMA PickIn ==
    ASSUME NEW s, s # {}
    PROVE  Pick(s) \in s /\ s \ {Pick(s)} # s
  BY DEF Pick

LEMMA FoldAt ==
    ASSUME NEW g, NEW v, NEW S, IsFold(g, v, S), NEW s \in SUBSET S
    PROVE  g[s] = IF s = {} THEN 0 ELSE v[Pick(s)] + g[s \ {Pick(s)}]
  BY DEF IsFold

\* Two such functions agree wherever both are defined.
LEMMA FoldsAgree ==
    ASSUME NEW S, IsFiniteSet(S), NEW v, NEW g, IsFold(g, v, S),
           NEW A, NEW h, IsFold(h, v, A), NEW s \in SUBSET S, s \subseteq A
    PROVE  g[s] = h[s]
<1> DEFINE Bad == {x \in SUBSET S : x \subseteq A /\ g[x] # h[x]}
<1> SUFFICES ASSUME Bad # {} PROVE FALSE
  OBVIOUS
<1>1. PICK T \in Bad : \A U \in SUBSET T : U # T => U \notin Bad
  BY SmallestSubset
<1>2. CASE T = {}
  BY <1>1, <1>2, FoldAt
<1>3. CASE T # {}
  <2> DEFINE U == T \ {Pick(T)}
  <2>1. g[U] = h[U]
    BY <1>1, <1>3, PickIn
  <2>2. T \in SUBSET S /\ T \in SUBSET A /\ g[T] # h[T]
    BY <1>1
  <2> HIDE DEF Bad
  <2>3. g[T] = v[Pick(T)] + g[U]
    BY <1>3, <2>2, FoldAt
  <2>4. h[T] = v[Pick(T)] + h[U]
    BY <1>3, <2>2, FoldAt
  <2> QED
    BY <2>1, <2>2, <2>3, <2>4
<1> QED
  BY <1>2, <1>3

\* There is one.
LEMMA FoldExists ==
    ASSUME NEW S, IsFiniteSet(S), NEW v
    PROVE  \E g : IsFold(g, v, S)
<1> DEFINE Bad == {T \in SUBSET S : ~ \E g : IsFold(g, v, T)}
           G(T) == CHOOSE g : IsFold(g, v, T)
<1> SUFFICES ASSUME Bad # {} PROVE FALSE
  OBVIOUS
<1>0. Bad \in SUBSET SUBSET S
  OBVIOUS
<1> HIDE DEF Bad
<1>1. PICK T \in Bad : \A U \in SUBSET T : U # T => U \notin Bad
  BY <1>0, SmallestSubset
<1> USE DEF Bad
<1>2. ASSUME NEW U \in SUBSET T, U # T PROVE IsFold(G(U), v, U) /\ IsFiniteSet(U)
  <2>1. \E g : IsFold(g, v, U)
    BY <1>1, <1>2
  <2>2. IsFiniteSet(U)
    BY <1>1, FS_Subset
  <2> QED
    BY <2>1, <2>2
<1> DEFINE f == [s \in SUBSET T |->
                   IF s = {} THEN 0 ELSE v[Pick(s)] + G(s \ {Pick(s)})[s \ {Pick(s)}]]
<1>3. ASSUME NEW U \in SUBSET T, U # T PROVE f[U] = G(U)[U]
  <2>1. CASE U = {}
    <3>1. f[U] = 0
      BY <2>1
    <3>2. IsFold(G(U), v, U)
      BY <1>2, <1>3
    <3> HIDE DEF G, f
    <3> QED
      BY <2>1, <3>1, <3>2, FoldAt
  <2>2. CASE U # {}
    <3> DEFINE W == U \ {Pick(U)}
    <3>1. W \in SUBSET U /\ W # U /\ W \in SUBSET T /\ W # T
      BY <1>3, <2>2, PickIn
    <3>2. G(U)[W] = G(W)[W]
      <4>1. IsFold(G(U), v, U) /\ IsFold(G(W), v, W) /\ IsFiniteSet(U)
        BY <1>2, <1>3, <3>1
      <4> HIDE DEF G, W
      <4> QED
        BY <3>1, <4>1, FoldsAgree
    <3>3. G(U)[U] = v[Pick(U)] + G(U)[W]
      <4>1. IsFold(G(U), v, U)
        BY <1>2, <1>3
      <4> HIDE DEF G
      <4> QED
        BY <2>2, <4>1, FoldAt
    <3>4. f[U] = v[Pick(U)] + G(W)[W]
      BY <2>2
    <3> QED
      BY <3>2, <3>3, <3>4
  <2> QED
    BY <2>1, <2>2
<1>4. ASSUME NEW s \in SUBSET T, s # {}
      PROVE  f[s \ {Pick(s)}] = G(s \ {Pick(s)})[s \ {Pick(s)}]
  BY <1>3, <1>4, PickIn
<1>5. f = [s \in SUBSET T |-> IF s = {} THEN 0 ELSE v[Pick(s)] + f[s \ {Pick(s)}]]
  <2>1. f = [s \in SUBSET T |-> f[s]]
    OBVIOUS
  <2>2. \A s \in SUBSET T : f[s] = IF s = {} THEN 0 ELSE v[Pick(s)] + f[s \ {Pick(s)}]
    <3> SUFFICES ASSUME NEW s \in SUBSET T
                 PROVE  f[s] = IF s = {} THEN 0 ELSE v[Pick(s)] + f[s \ {Pick(s)}]
      OBVIOUS
    <3>1. s = {} => f[s] = 0
      OBVIOUS
    <3>2. s # {} => f[s] = v[Pick(s)] + G(s \ {Pick(s)})[s \ {Pick(s)}]
      OBVIOUS
    <3> HIDE DEF f, G
    <3> QED
      BY <1>4, <3>1, <3>2
  <2> HIDE DEF f
  <2> QED
    BY <2>1, <2>2
<1>6. IsFold(f, v, T)
  BY <1>5 DEF IsFold
<1> QED
  BY <1>1, <1>6

\* So a sum is what any of them says.
LEMMA TotalIsFold ==
    ASSUME NEW S, IsFiniteSet(S), NEW v, NEW g, IsFold(g, v, S), NEW s \in SUBSET S
    PROVE  g[s] = Total(v, s)
<1> DEFINE h == CHOOSE f : f = [x \in SUBSET s |-> IF x = {} THEN 0
                                                   ELSE v[Pick(x)] + f[x \ {Pick(x)}]]
<1>1. Total(v, s) = h[s]
  BY Zenon DEF Total, MapThenSumSet, MapThenFoldSet, Pick
<1>2. IsFiniteSet(s)
  BY FS_Subset
<1>3. IsFold(h, v, s)
  <2>1. \E f : IsFold(f, v, s)
    BY <1>2, FoldExists
  <2> QED
    BY <2>1, Zenon DEF IsFold
<1> HIDE DEF h
<1> QED
  BY <1>1, <1>3, FoldsAgree

----------------------------------------------------------------------------
\* How sums change.

LEMMA TotalEmpty ==
    ASSUME NEW v
    PROVE  Total(v, {}) = 0
<1>1. IsFiniteSet({})
  BY FS_EmptySet
<1>2. PICK g : IsFold(g, v, {})
  BY <1>1, FoldExists
<1> QED
  BY <1>1, <1>2, FoldAt, TotalIsFold

LEMMA TotalStep ==
    ASSUME NEW S, IsFiniteSet(S), S # {}, NEW v
    PROVE  Total(v, S) = v[Pick(S)] + Total(v, S \ {Pick(S)})
<1>1. PICK g : IsFold(g, v, S)
  BY FoldExists
<1> QED
  BY <1>1, FoldAt, TotalIsFold

\* A sum of integers is one.
LEMMA TotalInt ==
    ASSUME NEW S, IsFiniteSet(S), NEW v, \A x \in S : v[x] \in Int
    PROVE  Total(v, S) \in Int
<1> DEFINE Bad == {T \in SUBSET S : Total(v, T) \notin Int}
<1> SUFFICES ASSUME Bad # {} PROVE FALSE
  OBVIOUS
<1>1. PICK T \in Bad : \A U \in SUBSET T : U # T => U \notin Bad
  <2>1. Bad \in SUBSET SUBSET S
    OBVIOUS
  <2> HIDE DEF Bad
  <2> QED
    BY <2>1, SmallestSubset
<1>2. T # {} /\ IsFiniteSet(T)
  <2>1. T \subseteq S /\ Total(v, T) \notin Int
    BY <1>1
  <2>2. Total(v, {}) = 0
    BY TotalEmpty
  <2>3. IsFiniteSet(T)
    BY <2>1, FS_Subset
  <2> HIDE DEF Bad
  <2> QED
    BY <2>1, <2>2, <2>3
<1>3. Total(v, T) = v[Pick(T)] + Total(v, T \ {Pick(T)})
  BY <1>2, TotalStep
<1>4. v[Pick(T)] \in Int /\ Total(v, T \ {Pick(T)}) \in Int
  BY <1>1, <1>2, PickIn
<1> QED
  BY <1>1, <1>3, <1>4

\* Any element may be taken first.
LEMMA TotalTake ==
    ASSUME NEW S, IsFiniteSet(S), NEW v, \A x \in S : v[x] \in Int, NEW x \in S
    PROVE  Total(v, S) = v[x] + Total(v, S \ {x})
<1> DEFINE Fails(T, y) == Total(v, T) # v[y] + Total(v, T \ {y})
           Bad == {T \in SUBSET S : \E y \in T : Fails(T, y)}
<1> SUFFICES ASSUME Bad # {} PROVE FALSE
  OBVIOUS
<1>1. PICK T \in Bad : \A U \in SUBSET T : U # T => U \notin Bad
  <2>1. Bad \in SUBSET SUBSET S
    OBVIOUS
  <2> HIDE DEF Bad
  <2> QED
    BY <2>1, SmallestSubset
<1>2. PICK y \in T : Total(v, T) # v[y] + Total(v, T \ {y})
  BY <1>1
<1> DEFINE p == Pick(T)
<1>3. p \in T /\ T \subseteq S
  BY <1>1, <1>2, PickIn
<1>4. IsFiniteSet(T) /\ IsFiniteSet((T \ {p}) \ {y})
  BY <1>3, FS_Subset
<1>5. Total(v, T) = v[p] + Total(v, T \ {p})
  BY <1>3, <1>4, TotalStep
<1> HIDE DEF p
<1>6. p # y
  BY <1>2, <1>5
<1>7. Total(v, T \ {p}) = v[y] + Total(v, (T \ {p}) \ {y})
  BY <1>1, <1>2, <1>3, <1>6
<1>8. Total(v, T \ {y}) = v[p] + Total(v, (T \ {y}) \ {p})
  BY <1>1, <1>2, <1>3, <1>6
<1>9. (T \ {y}) \ {p} = (T \ {p}) \ {y}
  OBVIOUS
<1>10. v[p] \in Int /\ v[y] \in Int /\ Total(v, (T \ {p}) \ {y}) \in Int
  BY <1>2, <1>3, <1>4, TotalInt
<1> DEFINE rest == Total(v, (T \ {p}) \ {y})
<1>11. Total(v, T) = v[p] + (v[y] + rest) /\ Total(v, T \ {y}) = v[p] + rest
  BY <1>5, <1>7, <1>8, <1>9
<1> HIDE DEF Bad, rest
<1> QED
  BY <1>2, <1>10, <1>11 DEF rest

\* One more element, or none where there is nothing to add.
LEMMA TotalMore ==
    ASSUME NEW S, IsFiniteSet(S), NEW v, \A x \in S : v[x] \in Int, NEW amount \in Int,
           NEW more, more \intersect S = {},
           (more = {} /\ amount = 0) \/ \E x : more = {x} /\ v[x] = amount
    PROVE  /\ IsFiniteSet(S \union more) /\ \A x \in S \union more : v[x] \in Int
           /\ Total(v, S \union more) = Total(v, S) + amount
<1>1. Total(v, S) \in Int
  BY TotalInt
<1>2. CASE more = {} /\ amount = 0
  <2>1. S \union more = S
    BY <1>2
  <2> QED
    BY <1>1, <1>2, <2>1
<1>3. ASSUME NEW x, more = {x}, v[x] = amount
      PROVE  /\ IsFiniteSet(S \union more) /\ \A y \in S \union more : v[y] \in Int
             /\ Total(v, S \union more) = Total(v, S) + amount
  <2> DEFINE all == S \union more
  <2>1. all = S \union {x} /\ all \ {x} = S /\ x \in all /\ \A y \in all : v[y] \in Int
    BY <1>3
  <2> HIDE DEF all
  <2>2. IsFiniteSet(all)
    BY <2>1, FS_AddElement
  <2>3. Total(v, all) = v[x] + Total(v, S)
    BY <2>1, <2>2, TotalTake
  <2>4. Total(v, all) = Total(v, S) + amount
    <3>1. v[x] = amount
      BY <1>3
    <3> QED
      BY <1>1, <2>3, <3>1
  <2> QED
    BY <2>1, <2>2, <2>4 DEF all
<1> QED
  BY <1>2, <1>3

\* The sum that FoldLeft makes of a sequence, its last element first.
LeftSum(base, q) == FoldLeft(LAMBDA sum, amount : sum + amount, base, q)

LEMMA LeftSumIs ==
    ASSUME NEW n \in Nat, NEW q, DOMAIN q = 1..n, \A j \in 1..n : q[j] \in Int, NEW base \in Int
    PROVE  LeftSum(base, q) = base + Total(q, 1..n)
<1> DEFINE S == 1..n
           Rec(f) == [s \in SUBSET S |-> IF s = {} THEN base ELSE f[s \ {Max(s)}] + q[Max(s)]]
           h == CHOOSE f : f = Rec(f)
           w == [s \in SUBSET S |-> base + Total(q, s)]
<1>1. IsFiniteSet(S) /\ S \subseteq Int /\ \A j \in S : q[j] \in Int
  BY FS_Interval
<1>2. LeftSum(base, q) = h[S]
  BY Zenon DEF LeftSum, FoldLeft, MapThenFoldSet
<1> HIDE DEF S
<1>3. ASSUME NEW s \in SUBSET S
      PROVE  IsFiniteSet(s) /\ s \subseteq Int /\ Total(q, s) \in Int
  <2>1. IsFiniteSet(s) /\ s \subseteq Int /\ \A j \in s : q[j] \in Int
    BY <1>1, FS_Subset
  <2> QED
    BY <2>1, TotalInt
<1>4. ASSUME NEW s \in SUBSET S, s # {}
      PROVE  /\ Max(s) \in s /\ q[Max(s)] \in Int
             /\ Total(q, s) = q[Max(s)] + Total(q, s \ {Max(s)})
  <2>1. IsFiniteSet(s) /\ s \subseteq Int /\ \A j \in s : q[j] \in Int
    BY <1>1, <1>3
  <2>2. Max(s) \in s
    BY <1>4, <2>1, GreatestElement
  <2> QED
    BY <2>1, <2>2, TotalTake
<1>5. ASSUME NEW s \in SUBSET S
      PROVE  w[s] = IF s = {} THEN base ELSE w[s \ {Max(s)}] + q[Max(s)]
  <2>1. CASE s = {}
    BY <1>5, <2>1, TotalEmpty
  <2>2. CASE s # {}
    <3> DEFINE r == s \ {Max(s)}
    <3>1. r \in SUBSET S /\ w[r] = base + Total(q, r) /\ w[s] = base + Total(q, s)
      BY <1>5
    <3>2. q[Max(s)] \in Int /\ Total(q, r) \in Int /\ Total(q, s) = q[Max(s)] + Total(q, r)
      BY <1>3, <1>4, <2>2, <3>1
    <3> HIDE DEF r, w
    <3>3. w[s] = w[r] + q[Max(s)]
      BY <3>1, <3>2
    <3> QED
      BY <2>2, <3>3 DEF r
  <2> QED
    BY <2>1, <2>2
<1>6. w = Rec(w)
  BY <1>5
<1>7. h = Rec(h)
  <2> HIDE DEF Rec, w
  <2> QED
    BY <1>6
<1>8. ASSUME NEW s \in SUBSET S
      PROVE  h[s] = IF s = {} THEN base ELSE h[s \ {Max(s)}] + q[Max(s)]
  <2> HIDE DEF h
  <2> QED
    BY <1>7
<1> DEFINE Bad == {s \in SUBSET S : h[s] # base + Total(q, s)}
<1> HIDE DEF h, w, Rec
<1>9. Bad = {}
  <2> SUFFICES ASSUME Bad # {} PROVE FALSE
    OBVIOUS
  <2>1. Bad \in SUBSET SUBSET S
    OBVIOUS
  <2>2. PICK T \in Bad : \A U \in SUBSET T : U # T => U \notin Bad
    <3> HIDE DEF Bad
    <3> QED
      BY <1>1, <2>1, SmallestSubset
  <2>3. T \in SUBSET S /\ h[T] # base + Total(q, T)
    BY <2>2
  <2>4. CASE T = {}
    <3>1. h[T] = base /\ Total(q, T) = 0
      BY <1>8, <2>3, <2>4, TotalEmpty
    <3> QED
      BY <2>3, <3>1
  <2>5. CASE T # {}
    <3> DEFINE r == T \ {Max(T)}
    <3>1. Max(T) \in T /\ q[Max(T)] \in Int /\ Total(q, T) = q[Max(T)] + Total(q, r)
      BY <1>4, <2>3, <2>5
    <3>2. r \in SUBSET T /\ r # T /\ r \in SUBSET S
      BY <2>3, <3>1
    <3>3. h[T] = h[r] + q[Max(T)]
      BY <1>8, <2>3, <2>5
    <3> HIDE DEF r
    <3>4. h[r] = base + Total(q, r) /\ Total(q, r) \in Int
      BY <1>3, <2>2, <3>2
    <3> QED
      BY <2>3, <3>1, <3>3, <3>4
  <2> QED
    BY <2>4, <2>5
<1> QED
  BY <1>2, <1>9 DEF S

\* A sum of equal summands, of sums, and over more elements.
LEMMA TotalSame ==
    ASSUME NEW S, IsFiniteSet(S), NEW v, NEW w, \A x \in S : v[x] = w[x]
    PROVE  Total(v, S) = Total(w, S)
<1> DEFINE Bad == {T \in SUBSET S : Total(v, T) # Total(w, T)}
<1> SUFFICES ASSUME Bad # {} PROVE FALSE
  OBVIOUS
<1>1. PICK T \in Bad : \A U \in SUBSET T : U # T => U \notin Bad
  <2>1. Bad \in SUBSET SUBSET S
    OBVIOUS
  <2> HIDE DEF Bad
  <2> QED
    BY <2>1, SmallestSubset
<1>2. T # {} /\ IsFiniteSet(T)
  BY <1>1, TotalEmpty, FS_Subset
<1>3. Pick(T) \in T /\ T \ {Pick(T)} # T
  BY <1>2, PickIn
<1>4. /\ Total(v, T) = v[Pick(T)] + Total(v, T \ {Pick(T)})
      /\ Total(w, T) = w[Pick(T)] + Total(w, T \ {Pick(T)})
  BY <1>2, TotalStep
<1> QED
  BY <1>1, <1>3, <1>4

LEMMA TotalPlus ==
    ASSUME NEW S, IsFiniteSet(S), NEW u, NEW v, NEW w,
           \A x \in S : v[x] \in Int /\ w[x] \in Int /\ u[x] = v[x] + w[x]
    PROVE  Total(u, S) = Total(v, S) + Total(w, S)
<1> DEFINE Bad == {T \in SUBSET S : Total(u, T) # Total(v, T) + Total(w, T)}
<1> SUFFICES ASSUME Bad # {} PROVE FALSE
  OBVIOUS
<1>1. PICK T \in Bad : \A U \in SUBSET T : U # T => U \notin Bad
  <2>1. Bad \in SUBSET SUBSET S
    OBVIOUS
  <2> HIDE DEF Bad
  <2> QED
    BY <2>1, SmallestSubset
<1>2. T # {} /\ IsFiniteSet(T)
  <2>1. T \subseteq S /\ Total(u, T) # Total(v, T) + Total(w, T)
    BY <1>1
  <2>2. Total(u, {}) = 0 /\ Total(v, {}) = 0 /\ Total(w, {}) = 0
    BY TotalEmpty
  <2>3. IsFiniteSet(T)
    BY <2>1, FS_Subset
  <2>4. T = {} => Total(u, T) = 0 /\ Total(v, T) = 0 /\ Total(w, T) = 0
    BY <2>2, Zenon
  <2> HIDE DEF Bad
  <2> QED
    BY <2>1, <2>3, <2>4
<1> DEFINE p == Pick(T)
           U == T \ {p}
<1>3. p \in T /\ U # T /\ p \in S
  BY <1>1, <1>2, PickIn
<1>4. /\ Total(u, T) = u[p] + Total(u, U)
      /\ Total(v, T) = v[p] + Total(v, U)
      /\ Total(w, T) = w[p] + Total(w, U)
  BY <1>2, TotalStep
<1>5. Total(u, U) = Total(v, U) + Total(w, U)
  BY <1>1, <1>3
<1>6. v[p] \in Int /\ w[p] \in Int /\ u[p] = v[p] + w[p]
  BY <1>3
<1>7. Total(v, U) \in Int /\ Total(w, U) \in Int
  <2>1. IsFiniteSet(U) /\ U \subseteq S
    BY <1>1, <1>2, FS_Subset
  <2> HIDE DEF U
  <2> QED
    BY <2>1, TotalInt
<1>8. Total(u, T) # Total(v, T) + Total(w, T)
  BY <1>1
<1> HIDE DEF p, U, Bad
<1> QED
  BY <1>4, <1>5, <1>6, <1>7, <1>8

LEMMA TotalGrows ==
    ASSUME NEW S, IsFiniteSet(S), NEW v, \A x \in S : v[x] \in Nat, NEW A \in SUBSET S
    PROVE  Total(v, A) <= Total(v, S)
<1> DEFINE Bad == {T \in SUBSET S : \E B \in SUBSET T : ~(Total(v, B) <= Total(v, T))}
<1> SUFFICES ASSUME Bad # {} PROVE FALSE
  OBVIOUS
<1>1. PICK T \in Bad : \A U \in SUBSET T : U # T => U \notin Bad
  <2>1. Bad \in SUBSET SUBSET S
    OBVIOUS
  <2> HIDE DEF Bad
  <2> QED
    BY <2>1, SmallestSubset
<1>2. PICK B \in SUBSET T : ~(Total(v, B) <= Total(v, T))
  BY <1>1
<1>3. IsFiniteSet(T) /\ IsFiniteSet(B) /\ T \subseteq S
  BY <1>1, FS_Subset
<1>4. Total(v, B) \in Int /\ Total(v, T) \in Int
  BY <1>3, TotalInt
<1>5. PICK x \in T : x \notin B
  BY <1>2, <1>4
<1>6. Total(v, T) = v[x] + Total(v, T \ {x})
  BY <1>3, TotalTake
<1>7. Total(v, B) <= Total(v, T \ {x})
  BY <1>1, <1>5
<1>8. Total(v, T \ {x}) \in Int /\ v[x] \in Nat
  <2>1. IsFiniteSet(T \ {x}) /\ T \ {x} \subseteq S
    BY <1>3, FS_Subset
  <2> QED
    BY <1>3, <2>1, TotalInt
<1> QED
  BY <1>2, <1>4, <1>6, <1>7, <1>8

LEMMA ImageFinite ==
    ASSUME NEW S, IsFiniteSet(S), NEW F
    PROVE  IsFiniteSet({F[x] : x \in S})
<1> DEFINE f == [x \in S |-> F[x]]
<1>1. f \in Surjection(S, {F[x] : x \in S})
  BY DEF Surjection
<1> QED
  BY <1>1, FS_Surjection

\* A sum over the values of a function that tells its arguments apart.
LEMMA TotalOfImage ==
    ASSUME NEW S, IsFiniteSet(S), NEW F, NEW v, NEW w,
           \A x \in S : v[x] \in Int /\ w[F[x]] = v[x],
           \A x, y \in S : F[x] = F[y] => x = y
    PROVE  Total(w, {F[x] : x \in S}) = Total(v, S)
<1> DEFINE Im(T) == {F[x] : x \in T}
           Bad == {T \in SUBSET S : Total(w, Im(T)) # Total(v, T)}
<1> SUFFICES ASSUME Bad # {} PROVE FALSE
  OBVIOUS
<1>1. PICK T \in Bad : \A U \in SUBSET T : U # T => U \notin Bad
  <2>1. Bad \in SUBSET SUBSET S
    OBVIOUS
  <2> HIDE DEF Bad
  <2> QED
    BY <2>1, SmallestSubset
<1>2. IsFiniteSet(T) /\ T \subseteq S /\ Total(w, Im(T)) # Total(v, T)
  BY <1>1, FS_Subset
<1>3. T # {}
  <2>1. T = {} => Im(T) = {}
    OBVIOUS
  <2> QED
    BY <1>2, <2>1, TotalEmpty
<1>4. PICK x \in T : TRUE
  BY <1>3
<1> DEFINE U == T \ {x}
<1>5. Total(w, Im(U)) = Total(v, U)
  BY <1>1, <1>4
<1>6. Total(v, T) = v[x] + Total(v, U)
  BY <1>2, TotalTake
<1>7. Im(U) = Im(T) \ {F[x]}
  BY <1>2
<1>8. Total(w, Im(T)) = w[F[x]] + Total(w, Im(T) \ {F[x]})
  <2>1. IsFiniteSet(Im(T))
    BY <1>2, ImageFinite
  <2>2. F[x] \in Im(T) /\ \A y \in Im(T) : w[y] \in Int
    BY <1>2
  <2> HIDE DEF Im
  <2> QED
    BY <2>1, <2>2, TotalTake
<1>9. w[F[x]] = v[x]
  BY <1>2
<1> HIDE DEF Im, U
<1> QED
  BY <1>2, <1>5, <1>6, <1>7, <1>8, <1>9

\* The sum over two sets that share nothing.
LEMMA TotalUnion ==
    ASSUME NEW S, IsFiniteSet(S), NEW T, IsFiniteSet(T), S \intersect T = {},
           NEW v, \A x \in S \union T : v[x] \in Int
    PROVE  Total(v, S \union T) = Total(v, S) + Total(v, T)
<1> DEFINE Bad == {U \in SUBSET T : Total(v, S \union U) # Total(v, S) + Total(v, U)}
<1> SUFFICES ASSUME Bad # {} PROVE FALSE
  OBVIOUS
<1>1. PICK U \in Bad : \A W \in SUBSET U : W # U => W \notin Bad
  <2>1. Bad \in SUBSET SUBSET T
    OBVIOUS
  <2> HIDE DEF Bad
  <2> QED
    BY <2>1, SmallestSubset
<1>2. IsFiniteSet(U) /\ U \in SUBSET T /\ Total(v, S) \in Int
  BY <1>1, FS_Subset, TotalInt
<1>3. U # {}
  <2> SUFFICES ASSUME U = {} PROVE FALSE
    OBVIOUS
  <2>1. S \union U = S /\ Total(v, U) = 0
    BY TotalEmpty
  <2>2. Total(v, S \union U) # Total(v, S) + Total(v, U)
    BY <1>1
  <2>3. Total(v, S) # Total(v, S) + 0
    BY <2>1, <2>2
  <2> QED
    BY <1>2, <2>3
<1> DEFINE x == Pick(U)
           W == U \ {x}
<1>4. x \in U /\ W \in SUBSET U /\ W # U /\ W \in SUBSET T
  BY <1>2, <1>3, PickIn
<1>5. Total(v, S \union W) = Total(v, S) + Total(v, W)
  BY <1>1, <1>4
<1>6. IsFiniteSet(S \union U) /\ x \in S \union U /\ S \union W = (S \union U) \ {x}
  <2>1. IsFiniteSet(S \union U)
    BY <1>2, FS_Union
  <2> QED
    BY <1>4, <2>1
<1>7. IsFiniteSet(W) /\ (\A y \in U : v[y] \in Int) /\ v[x] \in Int /\ \A y \in S \union U : v[y] \in Int
  BY <1>2, <1>4, FS_Subset
<1> HIDE DEF x, W
<1>8. Total(v, S \union U) = v[x] + Total(v, S \union W)
  BY <1>6, <1>7, TotalTake
<1>9. Total(v, U) = v[x] + Total(v, W) /\ Total(v, W) \in Int
  <2>1. Total(v, U) = v[x] + Total(v, U \ {x})
    BY <1>2, <1>4, <1>7, TotalTake
  <2>2. \A y \in W : v[y] \in Int
    BY <1>4, <1>7
  <2> QED
    BY <1>7, <2>1, <2>2, TotalInt DEF W
<1> QED
  BY <1>1, <1>2, <1>5, <1>7, <1>8, <1>9

\* A sum taken class by class.
LEMMA TotalByClass ==
    ASSUME NEW S, IsFiniteSet(S), NEW v, \A x \in S : v[x] \in Int,
           NEW K, IsFiniteSet(K), NEW F, \A x \in S : F[x] \in K
    PROVE  Total(v, S) = Total([k \in K |-> Total(v, {x \in S : F[x] = k})], K)
<1> DEFINE Of(k) == {x \in S : F[x] = k}
           In(U) == {x \in S : F[x] \in U}
           w == [k \in K |-> Total(v, Of(k))]
           Bad == {U \in SUBSET K : Total(v, In(U)) # Total(w, U)}
<1>1. \A k \in K : IsFiniteSet(Of(k)) /\ w[k] = Total(v, Of(k)) /\ w[k] \in Int
  <2> SUFFICES ASSUME NEW k \in K PROVE IsFiniteSet(Of(k)) /\ Total(v, Of(k)) \in Int
    OBVIOUS
  <2>1. Of(k) \in SUBSET S
    OBVIOUS
  <2>2. IsFiniteSet(Of(k)) /\ \A x \in Of(k) : v[x] \in Int
    BY <2>1, FS_Subset
  <2> HIDE DEF Of
  <2> QED
    BY <2>2, TotalInt
<1>2. Bad = {}
  <2> SUFFICES ASSUME Bad # {} PROVE FALSE
    OBVIOUS
  <2>1. PICK U \in Bad : \A W \in SUBSET U : W # U => W \notin Bad
    <3>1. Bad \in SUBSET SUBSET K
      OBVIOUS
    <3> HIDE DEF Bad
    <3> QED
      BY <3>1, SmallestSubset
  <2>2. IsFiniteSet(U) /\ U \in SUBSET K
    BY <2>1, FS_Subset
  <2>3. U # {}
    <3>1. In({}) = {}
      OBVIOUS
    <3> HIDE DEF In, w
    <3> QED
      BY <2>1, <3>1, TotalEmpty
  <2> DEFINE k == Pick(U)
             W == U \ {k}
  <2>4. k \in U /\ k \in K /\ W \in SUBSET U /\ W # U /\ W \in SUBSET K
    BY <2>2, <2>3, PickIn
  <2>5. Total(v, In(W)) = Total(w, W)
    BY <2>1, <2>4
  <2>6. In(U) = In(W) \union Of(k) /\ In(W) \intersect Of(k) = {}
    BY <2>4
  <2>7. IsFiniteSet(In(W)) /\ IsFiniteSet(Of(k)) /\ \A x \in In(W) \union Of(k) : v[x] \in Int
    <3>1. In(W) \in SUBSET S /\ Of(k) \in SUBSET S
      OBVIOUS
    <3> HIDE DEF In, Of, W, k
    <3> QED
      BY <3>1, FS_Subset
  <2>8. Total(v, In(U)) = Total(v, In(W)) + Total(v, Of(k))
    <3> HIDE DEF In, Of, W, k, w
    <3> QED
      BY <2>6, <2>7, TotalUnion
  <2>9. Total(w, U) = w[k] + Total(w, W)
    <3>1. \A y \in U : w[y] \in Int
      BY <1>1, <2>2
    <3> HIDE DEF w, k
    <3> QED
      BY <2>2, <2>4, <3>1, TotalTake
  <2>10. w[k] = Total(v, Of(k)) /\ w[k] \in Int /\ Total(w, W) \in Int
    <3>1. \A y \in W : w[y] \in Int
      BY <1>1, <2>4
    <3>2. IsFiniteSet(W)
      BY <2>2, FS_Subset
    <3> HIDE DEF w, k, W, Of
    <3> QED
      BY <1>1, <2>4, <3>1, <3>2, TotalInt
  <2>11. Total(v, In(U)) # Total(w, U)
    BY <2>1
  <2> HIDE DEF In, Of, W, k, w, Bad
  <2> QED
    BY <2>5, <2>8, <2>9, <2>10, <2>11
<1>3. In(K) = S
  OBVIOUS
<1>4. Total(v, In(K)) = Total(w, K)
  BY <1>2
<1> QED
  BY <1>3, <1>4

\* How many there are.
LEMMA TotalOfOnes ==
    ASSUME NEW S, IsFiniteSet(S), NEW v, \A x \in S : v[x] = 1
    PROVE  Total(v, S) = Cardinality(S)
<1> DEFINE Bad == {T \in SUBSET S : Total(v, T) # Cardinality(T)}
<1> SUFFICES ASSUME Bad # {} PROVE FALSE
  OBVIOUS
<1>1. PICK T \in Bad : \A U \in SUBSET T : U # T => U \notin Bad
  <2>1. Bad \in SUBSET SUBSET S
    OBVIOUS
  <2> HIDE DEF Bad
  <2> QED
    BY <2>1, SmallestSubset
<1>2. IsFiniteSet(T) /\ \A x \in T : v[x] \in Int
  BY <1>1, FS_Subset
<1>3. T # {}
  BY <1>1, TotalEmpty, FS_EmptySet
<1> DEFINE x == Pick(T)
           U == T \ {x}
<1>4. x \in T /\ U \in SUBSET T /\ U # T
  BY <1>3, PickIn
<1>5. Total(v, U) = Cardinality(U)
  BY <1>1, <1>4
<1>6. Cardinality(U) = Cardinality(T) - 1 /\ Cardinality(T) \in Nat
  BY <1>2, <1>4, FS_RemoveElement, FS_CardinalityType
<1>7. v[x] = 1 /\ Total(v, T) # Cardinality(T)
  BY <1>1, <1>4
<1> HIDE DEF x, Bad
<1>8. Total(v, T) = v[x] + Total(v, U)
  BY <1>2, <1>4, TotalTake
<1> HIDE DEF U
<1> QED
  BY <1>5, <1>6, <1>7, <1>8

----------------------------------------------------------------------------
\* A set put in order.

\* The elements of a set, in the order the fold takes them.
PutInOrder(S) == FoldSet(LAMBDA row, seq : Append(seq, row), <<>>, S)

\* The recursion, on every subset of S.
IsOrder(g, S) ==
    g = [s \in SUBSET S |-> IF s = {} THEN <<>> ELSE Append(g[s \ {Pick(s)}], Pick(s))]

LEMMA OrderAt ==
    ASSUME NEW g, NEW S, IsOrder(g, S), NEW s \in SUBSET S
    PROVE  g[s] = IF s = {} THEN <<>> ELSE Append(g[s \ {Pick(s)}], Pick(s))
  BY DEF IsOrder

LEMMA OrdersAgree ==
    ASSUME NEW S, IsFiniteSet(S), NEW g, IsOrder(g, S),
           NEW A, NEW h, IsOrder(h, A), NEW s \in SUBSET S, s \subseteq A
    PROVE  g[s] = h[s]
<1> DEFINE Bad == {x \in SUBSET S : x \subseteq A /\ g[x] # h[x]}
<1> SUFFICES ASSUME Bad # {} PROVE FALSE
  OBVIOUS
<1>1. PICK T \in Bad : \A U \in SUBSET T : U # T => U \notin Bad
  BY SmallestSubset
<1>2. CASE T = {}
  BY <1>1, <1>2, OrderAt
<1>3. CASE T # {}
  <2> DEFINE U == T \ {Pick(T)}
  <2>1. g[U] = h[U]
    BY <1>1, <1>3, PickIn
  <2>2. g[T] = Append(g[U], Pick(T)) /\ h[T] = Append(h[U], Pick(T))
    BY <1>1, <1>3, OrderAt
  <2> QED
    BY <1>1, <2>1, <2>2
<1> QED
  BY <1>2, <1>3

LEMMA OrderExists ==
    ASSUME NEW S, IsFiniteSet(S)
    PROVE  \E g : IsOrder(g, S)
<1> DEFINE Bad == {T \in SUBSET S : ~ \E g : IsOrder(g, T)}
           G(T) == CHOOSE g : IsOrder(g, T)
<1> SUFFICES ASSUME Bad # {} PROVE FALSE
  OBVIOUS
<1>0. Bad \in SUBSET SUBSET S
  OBVIOUS
<1> HIDE DEF Bad
<1>1. PICK T \in Bad : \A U \in SUBSET T : U # T => U \notin Bad
  BY <1>0, SmallestSubset
<1> USE DEF Bad
<1>2. ASSUME NEW U \in SUBSET T, U # T PROVE IsOrder(G(U), U) /\ IsFiniteSet(U)
  <2>1. \E g : IsOrder(g, U)
    BY <1>1, <1>2
  <2>2. IsFiniteSet(U)
    BY <1>1, FS_Subset
  <2> QED
    BY <2>1, <2>2
<1> DEFINE f == [s \in SUBSET T |->
                   IF s = {} THEN <<>> ELSE Append(G(s \ {Pick(s)})[s \ {Pick(s)}], Pick(s))]
<1>3. ASSUME NEW U \in SUBSET T, U # T PROVE f[U] = G(U)[U]
  <2>0. IsOrder(G(U), U)
    BY <1>2, <1>3
  <2>1. CASE U = {}
    <3>1. f[U] = <<>>
      BY <2>1
    <3> HIDE DEF G, f
    <3> QED
      BY <2>0, <2>1, <3>1, OrderAt
  <2>2. CASE U # {}
    <3> DEFINE W == U \ {Pick(U)}
    <3>1. W \in SUBSET U /\ W # U /\ W \in SUBSET T /\ W # T
      BY <1>3, <2>2, PickIn
    <3>2. G(U)[W] = G(W)[W]
      <4>1. IsOrder(G(U), U) /\ IsOrder(G(W), W) /\ IsFiniteSet(U)
        BY <1>2, <1>3, <3>1
      <4> HIDE DEF G, W
      <4> QED
        BY <3>1, <4>1, OrdersAgree
    <3>3. G(U)[U] = Append(G(U)[W], Pick(U))
      <4> HIDE DEF G
      <4> QED
        BY <2>0, <2>2, OrderAt
    <3>4. f[U] = Append(G(W)[W], Pick(U))
      BY <2>2
    <3> HIDE DEF G, f, W
    <3> QED
      BY <3>2, <3>3, <3>4
  <2> QED
    BY <2>1, <2>2
<1>4. ASSUME NEW s \in SUBSET T, s # {}
      PROVE  f[s \ {Pick(s)}] = G(s \ {Pick(s)})[s \ {Pick(s)}]
  BY <1>3, <1>4, PickIn
<1>5. f = [s \in SUBSET T |-> IF s = {} THEN <<>> ELSE Append(f[s \ {Pick(s)}], Pick(s))]
  <2>1. f = [s \in SUBSET T |-> f[s]]
    OBVIOUS
  <2>2. \A s \in SUBSET T : f[s] = IF s = {} THEN <<>> ELSE Append(f[s \ {Pick(s)}], Pick(s))
    <3> SUFFICES ASSUME NEW s \in SUBSET T
                 PROVE  f[s] = IF s = {} THEN <<>> ELSE Append(f[s \ {Pick(s)}], Pick(s))
      OBVIOUS
    <3>1. s = {} => f[s] = <<>>
      OBVIOUS
    <3>2. s # {} => f[s] = Append(G(s \ {Pick(s)})[s \ {Pick(s)}], Pick(s))
      OBVIOUS
    <3> HIDE DEF f, G
    <3> QED
      BY <1>4, <3>1, <3>2
  <2> HIDE DEF f
  <2> QED
    BY <2>1, <2>2
<1>6. IsOrder(f, T)
  BY <1>5 DEF IsOrder
<1> QED
  BY <1>1, <1>6

LEMMA OrderIs ==
    ASSUME NEW S, IsFiniteSet(S), NEW g, IsOrder(g, S), NEW s \in SUBSET S
    PROVE  g[s] = PutInOrder(s)
<1> DEFINE h == CHOOSE f : f = [x \in SUBSET s |-> IF x = {} THEN <<>>
                                                   ELSE Append(f[x \ {Pick(x)}], Pick(x))]
<1>1. PutInOrder(s) = h[s]
  BY Zenon DEF PutInOrder, FoldSet, MapThenFoldSet, Pick
<1>2. IsFiniteSet(s)
  BY FS_Subset
<1>3. IsOrder(h, s)
  <2>1. \E f : IsOrder(f, s)
    BY <1>2, OrderExists
  <2> QED
    BY <2>1, Zenon DEF IsOrder
<1> HIDE DEF h
<1> QED
  BY <1>1, <1>3, OrdersAgree

LEMMA OrderSteps ==
    ASSUME NEW S, IsFiniteSet(S)
    PROVE  PutInOrder(S) = IF S = {} THEN <<>>
                           ELSE Append(PutInOrder(S \ {Pick(S)}), Pick(S))
<1>1. PICK g : IsOrder(g, S)
  BY OrderExists
<1>2. g[S] = IF S = {} THEN <<>> ELSE Append(g[S \ {Pick(S)}], Pick(S))
  BY <1>1, OrderAt
<1>3. g[S] = PutInOrder(S) /\ g[S \ {Pick(S)}] = PutInOrder(S \ {Pick(S)})
  BY <1>1, OrderIs
<1> QED
  BY <1>2, <1>3

\* A set in order: each element once.
InOrder(seq, S) ==
    /\ seq \in Seq(S)
    /\ Len(seq) = Cardinality(S)
    /\ \A x \in S : \E i \in 1..Len(seq) : seq[i] = x

LEMMA OrderIsOfTheSet ==
    ASSUME NEW S, IsFiniteSet(S)
    PROVE  InOrder(PutInOrder(S), S)
<1> DEFINE Bad == {T \in SUBSET S : ~InOrder(PutInOrder(T), T)}
<1> SUFFICES ASSUME Bad # {} PROVE FALSE
  OBVIOUS
<1>0. Bad \in SUBSET SUBSET S
  OBVIOUS
<1> HIDE DEF Bad
<1>1. PICK T \in Bad : \A U \in SUBSET T : U # T => U \notin Bad
  BY <1>0, SmallestSubset
<1> USE DEF Bad
<1>2. IsFiniteSet(T)
  BY <1>1, FS_Subset
<1>3. CASE T = {}
  <2>1. PutInOrder(T) = <<>>
    BY <1>2, <1>3, OrderSteps
  <2>2. <<>> \in Seq(T) /\ Len(<<>>) = 0 /\ Cardinality(T) = 0
    BY <1>3, FS_EmptySet
  <2>3. InOrder(<<>>, T)
    BY <1>3, <2>2 DEF InOrder
  <2> QED
    BY <1>1, <2>1, <2>3
<1>4. CASE T # {}
  <2> DEFINE U == T \ {Pick(T)}
             seq == PutInOrder(U)
             x == Pick(T)
  <2>1. x \in T /\ U \in SUBSET T /\ U # T
    BY <1>4, PickIn
  <2>2. InOrder(seq, U)
    BY <1>1, <2>1
  <2>3. PutInOrder(T) = Append(seq, x)
    BY <1>2, <1>4, OrderSteps
  <2>4. IsFiniteSet(U) /\ Cardinality(T) = Cardinality(U) + 1
    <3>1. IsFiniteSet(U)
      BY <1>2, FS_Subset
    <3>2. T = U \union {x} /\ x \notin U
      BY <2>1
    <3> HIDE DEF U, x
    <3> QED
      BY <3>1, <3>2, FS_AddElement
  <2>5. seq \in Seq(T)
    BY <2>1, <2>2, SeqMonotonic DEF InOrder
  <2>6. Cardinality(U) \in Nat /\ Len(seq) = Cardinality(U)
    BY <2>2, <2>4, FS_CardinalityType DEF InOrder
  <2> HIDE DEF x, seq
  <2>7. /\ Append(seq, x) \in Seq(T) /\ Len(Append(seq, x)) = Len(seq) + 1
        /\ \A i \in 1..Len(seq) : Append(seq, x)[i] = seq[i]
        /\ Append(seq, x)[Len(seq) + 1] = x
    BY <2>1, <2>5, AppendProperties
  <2>8. \A y \in T : \E i \in 1..Len(Append(seq, x)) : Append(seq, x)[i] = y
    <3> SUFFICES ASSUME NEW y \in T
                 PROVE  \E i \in 1..Len(Append(seq, x)) : Append(seq, x)[i] = y
      OBVIOUS
    <3>1. CASE y = x
      BY <2>6, <2>7, <3>1
    <3>2. CASE y # x
      <4>1. y \in U
        BY <3>2 DEF x
      <4>2. PICK i \in 1..Len(seq) : seq[i] = y
        BY <2>2, <4>1 DEF InOrder
      <4> QED
        BY <2>6, <2>7, <4>2
    <3> QED
      BY <3>1, <3>2
  <2> QED
    BY <1>1, <2>3, <2>4, <2>6, <2>7, <2>8 DEF InOrder
<1> QED
  BY <1>3, <1>4

----------------------------------------------------------------------------
\* A sequence cut in pieces.

LEMMA NextPiece ==
    ASSUME NEW T, NEW all \in Seq(T), NEW k \in 0..Len(all), NEW m \in k..Len(all)
    PROVE  SubSeq(all, 1, k) \o SubSeq(all, k + 1, m) = SubSeq(all, 1, m)
<1>1. Len(all) \in Nat /\ 1 \in 1..Len(all) + 1 /\ k \in 1 - 1..Len(all)
  BY LenProperties
<1> QED
  BY <1>1, ConcatAdjacentSubSeq

\* The end of a piece is where the next one starts; joined they are the whole.
LEMMA PiecesInARow ==
    ASSUME NEW T, NEW all \in Seq(T), NEW n \in Nat \ {0}, NEW to \in [0..n -> 0..Len(all)],
           to[0] = 0, to[n] = Len(all), \A i \in 1..n : to[i - 1] <= to[i],
           NEW pieces, DOMAIN pieces = 1..n, pieces = [i \in 1..n |-> pieces[i]],
           \A i \in 1..n : pieces[i] = SubSeq(all, to[i - 1] + 1, to[i])
    PROVE  FlattenSeq(pieces) = all
<1> DEFINE Joins(f) == f = [i \in 1..n |-> IF i = 1 THEN pieces[i] ELSE f[i - 1] \o pieces[i]]
           h == CHOOSE f : Joins(f)
           upto == [i \in 1..n |-> SubSeq(all, 1, to[i])]
<1>0. Len(pieces) = n
  BY LenProperties
<1>1. FlattenSeq(pieces) = h[n]
  BY <1>0, Zenon DEF FlattenSeq
<1>2. ASSUME NEW i \in 2..n PROVE SubSeq(all, 1, to[i]) = SubSeq(all, 1, to[i - 1]) \o pieces[i]
  <2>1. i \in 1..n /\ i - 1 \in 0..n
    OBVIOUS
  <2>2. to[i - 1] \in 0..Len(all) /\ to[i] \in 0..Len(all) /\ to[i - 1] <= to[i]
    BY <2>1
  <2>3. SubSeq(all, 1, to[i - 1]) \o SubSeq(all, to[i - 1] + 1, to[i]) = SubSeq(all, 1, to[i])
    <3>1. to[i] \in to[i - 1]..Len(all)
      BY <2>2
    <3> QED
      BY <2>2, <3>1, NextPiece
  <2> QED
    BY <2>1, <2>3
<1>3. pieces[1] = SubSeq(all, 1, to[1])
  <2>1. 1 \in 1..n /\ 1 - 1 = 0 /\ 0 + 1 = 1
    OBVIOUS
  <2>2. pieces[1] = SubSeq(all, to[1 - 1] + 1, to[1])
    BY <2>1
  <2> QED
    BY <2>1, <2>2
<1>4. Joins(upto)
  <2>1. ASSUME NEW i \in 1..n
        PROVE  upto[i] = IF i = 1 THEN pieces[i] ELSE upto[i - 1] \o pieces[i]
    <3>1. CASE i = 1
      BY <1>3, <3>1
    <3>2. CASE i # 1
      <4>1. i \in 2..n /\ i - 1 \in 1..n
        BY <3>2
      <4> QED
        BY <1>2, <3>2, <4>1
    <3> QED
      BY <3>1, <3>2
  <2>2. upto = [i \in 1..n |-> upto[i]]
    OBVIOUS
  <2> HIDE DEF upto
  <2> QED
    BY <2>1, <2>2
<1>5. Joins(h)
  <2> HIDE DEF upto
  <2> QED
    BY <1>4, Zenon
<1> HIDE DEF h
<1>6. \A i \in 1..n : h[i] = SubSeq(all, 1, to[i])
  <2> DEFINE Bad == {i \in 1..n : h[i] # SubSeq(all, 1, to[i])}
  <2> SUFFICES ASSUME Bad # {} PROVE FALSE
    OBVIOUS
  <2>1. Bad \subseteq Int /\ IsFiniteSet(Bad)
    <3>0. 1 \in Int /\ n \in Int /\ Bad \in SUBSET (1..n)
      OBVIOUS
    <3>1. IsFiniteSet(1..n)
      BY <3>0, FS_Interval
    <3> HIDE DEF Bad
    <3> QED
      BY <3>0, <3>1, FS_Subset
  <2>2. PICK i \in Bad : \A j \in Bad : i <= j
    <3> HIDE DEF Bad
    <3> QED
      BY <2>1, LeastElement
  <2>3. i # 1
    BY <1>3, <1>5
  <2>4. i \in 2..n /\ i - 1 \in 1..n /\ i - 1 \notin Bad
    <3>1. i \in 2..n /\ i - 1 \in 1..n /\ i - 1 < i
      BY <2>2, <2>3
    <3> HIDE DEF Bad
    <3>2. \A j \in Bad : i <= j
      BY <2>2
    <3>3. i - 1 \notin Bad
      BY <3>1, <3>2
    <3> QED
      BY <3>1, <3>3
  <2>5. h[i] = h[i - 1] \o pieces[i]
    <3>1. i \in 1..n /\ i # 1
      BY <2>4
    <3> HIDE DEF Bad
    <3> QED
      BY <1>5, <3>1
  <2> QED
    BY <1>2, <2>4, <2>5
<1>7. h[n] = SubSeq(all, 1, Len(all))
  BY <1>6
<1> QED
  BY <1>1, <1>7, SubSeqFull

----------------------------------------------------------------------------
\* Numbers.

LEMMA Division ==
    ASSUME NEW a \in Nat, NEW b \in Nat \ {0}
    PROVE  a \div b \in Nat /\ (a \div b) * b <= a /\ a < (a \div b) * b + b
<1>1. a \div b \in Int
  OBVIOUS
<1>2. (a \div b) * b <= a
  OBVIOUS
<1>3. a < (a \div b) * b + b
  OBVIOUS
<1>4. a \div b \in Nat
  OBVIOUS
<1> QED
  BY <1>1, <1>2, <1>3, <1>4

LEMMA Times ==
    ASSUME NEW i \in Nat, NEW j \in Nat, i <= j, NEW b \in Nat
    PROVE  i * b \in Nat /\ i * b <= j * b /\ (i + 1) * b = i * b + b
  OBVIOUS

LEMMA OfTwo ==
    ASSUME NEW a \in Int, NEW b \in Int
    PROVE  /\ Max({a, b}) = IF a <= b THEN b ELSE a
           /\ Min({a, b}) = IF a <= b THEN a ELSE b
  BY DEF Max, Min
=============================================================================
