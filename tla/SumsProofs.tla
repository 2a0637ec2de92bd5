----------------------------- MODULE SumsProofs -----------------------------
(***************************************************************************)
(* Facts about sums, for any function with a finite domain and integer     *)
(* values.  SumOf is a fold: a recursive function over the subsets of its  *)
(* domain that takes the elements in an order of its own.  First, that     *)
(* there is such a function (WalkExists) and one only (WalksAgree); then   *)
(* that the order does not matter (SumWith), from which the rest follows.  *)
(***************************************************************************)
EXTENDS Sums, Integers, FiniteSets, FiniteSetTheorems, WellFoundedInduction, TLAPS

(* f on T only. *)
Part(f, T) == [x \in T |-> f[x]]
Picked(s) == CHOOSE x \in s : TRUE

(* g is a walk of f through the subsets of S: it takes the element picked  *)
(* of a set, then the rest.                                                *)
IsWalk(g, f, S) ==
  g = [s \in SUBSET S |-> IF s = {} THEN 0 ELSE f[Picked(s)] + g[s \ {Picked(s)}]]
Walk(f, S) == CHOOSE g : IsWalk(g, f, S)

(* Induction over numbers, on a set in place of a predicate. *)
LEMMA LeastNat ==
  ASSUME NEW S \in SUBSET Nat, S # {}
  PROVE  \E x \in S : \A y \in S : x <= y
<1>1. PICK x \in S : \A y \in S : ~(<<y, x>> \in OpToRel(<, Nat))
  BY NatLessThanWellFounded, WFMin
<1>2. \A y \in S : ~(y < x)
  BY <1>1 DEF OpToRel
<1> QED BY <1>2

LEMMA Upwards ==
  ASSUME NEW n \in Nat, NEW X, 0 \in X, \A i \in 0..(n - 1) : i \in X => i + 1 \in X
  PROVE  0..n \subseteq X
<1> DEFINE Y == {i \in 0..n : i \notin X}
<1>1. SUFFICES ASSUME Y # {} PROVE FALSE
  OBVIOUS
<1>2. PICK y \in Y : \A z \in Y : y <= z
  <2>1. Y \in SUBSET Nat
    OBVIOUS
  <2> HIDE DEF Y
  <2> QED BY <1>1, <2>1, LeastNat
<1>3. y # 0 /\ y - 1 \in 0..(n - 1)
  BY <1>2
<1>4. y - 1 \in X
  BY <1>2, <1>3
<1> QED BY <1>2, <1>3, <1>4

LEMMA SumIsWalk == ASSUME NEW f PROVE SumOf(f) = Walk(f, DOMAIN f)[DOMAIN f]
  BY DEF SumOf, MapThenSumSet, MapThenFoldSet, Walk, IsWalk, Picked

LEMMA PickedIs == ASSUME NEW s, s # {} PROVE Picked(s) \in s
  BY DEF Picked

(* Induction over the subsets of a finite set: if any is a counterexample, *)
(* one is such that no proper subset of it is.                             *)
LEMMA LeastSubset ==
  ASSUME NEW S, IsFiniteSet(S), NEW X, X \subseteq SUBSET S, X # {}
  PROVE  \E T \in X : \A U \in X : U \subseteq T => U = T
<1> DEFINE R == StrictSubsetOrdering(S)
<1>1. IsWellFoundedOn(R, SUBSET S)
  BY FS_StrictSubsetOrderingWellFounded, FS_FiniteSubsetsOfFinite
<1>2. PICK T \in X : \A U \in X : <<U, T>> \notin R
  <2> HIDE DEF R
  <2> QED BY <1>1, WFMin
<1>3. \A U \in X : U \subseteq T => U = T
  BY <1>2 DEF StrictSubsetOrdering
<1> QED BY <1>3

LEMMA WalkStep ==
  ASSUME NEW g, NEW f, NEW S, IsWalk(g, f, S), NEW s \in SUBSET S
  PROVE  /\ s = {} => g[s] = 0
         /\ s # {} => g[s] = f[Picked(s)] + g[s \ {Picked(s)}]
  BY DEF IsWalk

(* Walks of what agrees agree. *)
LEMMA WalksAgree ==
  ASSUME NEW A, IsFiniteSet(A), NEW B, NEW f, NEW e, NEW g, NEW h,
         IsWalk(g, f, A), IsWalk(h, e, B), \A x \in A \cap B : f[x] = e[x]
  PROVE  \A s \in SUBSET (A \cap B) : g[s] = h[s]
<1> DEFINE X == {s \in SUBSET (A \cap B) : g[s] # h[s]}
<1> SUFFICES ASSUME X # {} PROVE FALSE
  OBVIOUS
<1>1. X \subseteq SUBSET A
  OBVIOUS
<1>2. PICK T \in X : \A U \in X : U \subseteq T => U = T
  <2> HIDE DEF X
  <2> QED BY <1>1, LeastSubset
<1>3. T # {}
  BY <1>2, WalkStep
<1>4. Picked(T) \in T /\ T \in SUBSET A /\ T \in SUBSET B
  BY <1>3, PickedIs
<1>5. T \ {Picked(T)} \notin X
  BY <1>2, <1>4
<1>6. g[T \ {Picked(T)}] = h[T \ {Picked(T)}] /\ f[Picked(T)] = e[Picked(T)]
  BY <1>4, <1>5
<1>7. g[T] = f[Picked(T)] + g[T \ {Picked(T)}] /\ h[T] = e[Picked(T)] + h[T \ {Picked(T)}]
  BY <1>3, <1>4, WalkStep
<1> QED BY <1>6, <1>7

LEMMA WalkExists ==
  ASSUME NEW f, NEW S, IsFiniteSet(S)
  PROVE  IsWalk(Walk(f, S), f, S)
<1> DEFINE X == {T \in SUBSET S : ~ IsWalk(Walk(f, T), f, T)}
<1>1. SUFFICES ASSUME X # {} PROVE FALSE
  OBVIOUS
<1>2. PICK T \in X : \A U \in X : U \subseteq T => U = T
  <2>1. X \subseteq SUBSET S
    OBVIOUS
  <2> HIDE DEF X
  <2> QED BY <1>1, <2>1, LeastSubset
<1>3. \A U \in SUBSET T : U # T => IsWalk(Walk(f, U), f, U)
  BY <1>2
<1> DEFINE At(u) == Walk(f, u)[u]
           h == [s \in SUBSET T |-> IF s = {} THEN 0 ELSE f[Picked(s)] + At(s \ {Picked(s)})]
<1>4. \A u \in SUBSET T : u # T => h[u] = At(u)
  <2> SUFFICES ASSUME NEW u \in SUBSET T, u # T PROVE h[u] = At(u)
    OBVIOUS
  <2>1. IsWalk(Walk(f, u), f, u)
    BY <1>3
  <2>2. CASE u = {}
    BY <2>1, <2>2, WalkStep
  <2>3. CASE u # {}
    <3> DEFINE v == u \ {Picked(u)}
    <3>1. v \in SUBSET u /\ v # T
      OBVIOUS
    <3>2. IsWalk(Walk(f, v), f, v)
      BY <1>3, <3>1
    <3>3. IsFiniteSet(u)
      BY FS_Subset
    <3>4. Walk(f, u)[v] = Walk(f, v)[v]
      BY <2>1, <3>2, <3>3, WalksAgree
    <3>5. Walk(f, u)[u] = f[Picked(u)] + Walk(f, u)[v]
      BY <2>1, <2>3, WalkStep
    <3> QED BY <2>3, <3>4, <3>5
  <2> QED BY <2>2, <2>3
<1>5. \A s \in SUBSET T : s # {} => h[s] = f[Picked(s)] + h[s \ {Picked(s)}]
  <2> SUFFICES ASSUME NEW s \in SUBSET T, s # {} PROVE h[s] = f[Picked(s)] + h[s \ {Picked(s)}]
    OBVIOUS
  <2>1. s \ {Picked(s)} \in SUBSET T /\ s \ {Picked(s)} # T
    BY PickedIs
  <2>2. h[s \ {Picked(s)}] = At(s \ {Picked(s)})
    BY <1>4, <2>1
  <2> QED BY <2>2
<1>6. h[{}] = 0 /\ DOMAIN h = SUBSET T
  OBVIOUS
<1>7. h = [s \in SUBSET T |-> h[s]]
  OBVIOUS
<1> HIDE DEF h
<1>8. h = [s \in SUBSET T |-> IF s = {} THEN 0 ELSE f[Picked(s)] + h[s \ {Picked(s)}]]
  BY <1>5, <1>6, <1>7
<1>9. IsWalk(h, f, T)
  BY <1>8 DEF IsWalk
<1> QED BY <1>2, <1>9 DEF Walk

-----------------------------------------------------------------------------
(* The sum of f over a finite set T. *)

LEMMA SumEmpty == ASSUME NEW f PROVE SumOf(Part(f, {})) = 0
<1>1. IsWalk(Walk(Part(f, {}), {}), Part(f, {}), {})
  BY WalkExists, FS_EmptySet
<1>2. DOMAIN Part(f, {}) = {}
  BY DEF Part
<1> QED BY <1>1, <1>2, WalkStep, SumIsWalk

LEMMA SumPicked ==
  ASSUME NEW f, NEW T, IsFiniteSet(T), T # {}
  PROVE  SumOf(Part(f, T)) = f[Picked(T)] + SumOf(Part(f, T \ {Picked(T)}))
<1> DEFINE p == Picked(T)
           U == T \ {p}
           w == Walk(Part(f, T), T)
           v == Walk(Part(f, U), U)
<1>1. p \in T
  BY PickedIs
<1>2. IsFiniteSet(U)
  BY FS_RemoveElement
<1>3. IsWalk(w, Part(f, T), T) /\ IsWalk(v, Part(f, U), U)
  BY <1>2, WalkExists
<1>4. \A x \in T \cap U : Part(f, T)[x] = Part(f, U)[x]
  BY DEF Part
<1>5. SumOf(Part(f, T)) = w[T] /\ SumOf(Part(f, U)) = v[U]
  BY SumIsWalk DEF Part
<1>6. w[T] = Part(f, T)[p] + w[U]
  BY <1>3, WalkStep
<1>7. w[U] = v[U]
  <2> HIDE DEF w, v, U, p
  <2>1. U \in SUBSET (T \cap U)
    BY DEF U
  <2> QED BY <1>3, <1>4, <2>1, WalksAgree
<1>8. Part(f, T)[p] = f[p]
  BY <1>1 DEF Part
<1> QED BY <1>5, <1>6, <1>7, <1>8

LEMMA SumType ==
  ASSUME NEW f, NEW S, IsFiniteSet(S), \A x \in S : f[x] \in Int
  PROVE  SumOf(Part(f, S)) \in Int
<1> DEFINE X == {T \in SUBSET S : SumOf(Part(f, T)) \notin Int}
<1>1. SUFFICES ASSUME X # {} PROVE FALSE
  OBVIOUS
<1>2. PICK T \in X : \A U \in X : U \subseteq T => U = T
  <2>1. X \subseteq SUBSET S
    OBVIOUS
  <2> HIDE DEF X
  <2> QED BY <1>1, <2>1, LeastSubset
<1>3. T # {}
  <2>1. SumOf(Part(f, {})) \in Int
    BY SumEmpty
  <2> QED BY <1>2, <2>1
<1>4. Picked(T) \in T /\ IsFiniteSet(T)
  BY <1>3, PickedIs, FS_Subset
<1>5. SumOf(Part(f, T \ {Picked(T)})) \in Int
  BY <1>2, <1>4
<1> QED BY <1>2, <1>3, <1>4, <1>5, SumPicked

(* Any element may come first. *)
LEMMA SumWith ==
  ASSUME NEW f, NEW S, IsFiniteSet(S), \A y \in S : f[y] \in Int, NEW x \in S
  PROVE  SumOf(Part(f, S)) = f[x] + SumOf(Part(f, S \ {x}))
<1> DEFINE Takes(T, y) == SumOf(Part(f, T)) = f[y] + SumOf(Part(f, T \ {y}))
           X == {T \in SUBSET S : \E y \in T : ~Takes(T, y)}
<1>1. SUFFICES ASSUME X # {} PROVE FALSE
  OBVIOUS
<1>2. PICK T \in X : \A U \in X : U \subseteq T => U = T
  <2>1. X \subseteq SUBSET S
    OBVIOUS
  <2> HIDE DEF X
  <2> QED BY <1>1, <2>1, LeastSubset
<1>3. PICK y \in T : ~Takes(T, y)
  BY <1>2
<1> DEFINE p == Picked(T)
           U == T \ {p}
           V == T \ {y}
           W == T \ {p, y}
<1>4. p \in T /\ IsFiniteSet(T) /\ T \subseteq S
  BY <1>2, <1>3, PickedIs, FS_Subset
<1>5. Takes(T, p)
  BY <1>3, <1>4, SumPicked
<1>6. p # y
  BY <1>3, <1>5
<1>7. Takes(U, y) /\ Takes(V, p)
  <2>1. U \notin X /\ V \notin X
    BY <1>2, <1>3, <1>4
  <2>2. U \in SUBSET S /\ V \in SUBSET S /\ y \in U /\ p \in V
    BY <1>3, <1>4, <1>6
  <2> QED BY <2>1, <2>2
<1>8. U \ {y} = W /\ V \ {p} = W
  OBVIOUS
<1>9. SumOf(Part(f, W)) \in Int /\ f[p] \in Int /\ f[y] \in Int
  <2>1. IsFiniteSet(W) /\ W \subseteq S
    BY <1>4, FS_Subset
  <2> QED BY <1>3, <1>4, <2>1, SumType
<1>10. /\ SumOf(Part(f, T)) = f[p] + SumOf(Part(f, U))
       /\ SumOf(Part(f, U)) = f[y] + SumOf(Part(f, W))
       /\ SumOf(Part(f, V)) = f[p] + SumOf(Part(f, W))
  BY <1>5, <1>7, <1>8
<1> HIDE DEF p, U, V, W
<1>11. SumOf(Part(f, T)) = f[y] + SumOf(Part(f, V))
  BY <1>9, <1>10
<1> QED BY <1>3, <1>11 DEF V
-----------------------------------------------------------------------------
(* The same of a function and its whole domain. *)

LEMMA PartWhole == ASSUME NEW S, NEW R, NEW f \in [S -> R] PROVE Part(f, S) = f
  BY DEF Part

LEMMA SumInt ==
  ASSUME NEW S, IsFiniteSet(S), NEW f \in [S -> Int]
  PROVE  SumOf(f) \in Int
  BY SumType, PartWhole

LEMMA SumNone == ASSUME NEW f, DOMAIN f = {}, f = [x \in {} |-> f[x]] PROVE SumOf(f) = 0
<1>1. Part(f, {}) = f
  BY DEF Part
<1> QED BY <1>1, SumEmpty

LEMMA SumSplit ==
  ASSUME NEW S, IsFiniteSet(S), NEW f \in [S -> Int], NEW x \in S
  PROVE  /\ SumOf(f) = f[x] + SumOf([y \in S \ {x} |-> f[y]])
         /\ SumOf([y \in S \ {x} |-> f[y]]) \in Int
<1>1. SumOf(Part(f, S)) = f[x] + SumOf(Part(f, S \ {x}))
  BY SumWith
<1>2. SumOf(Part(f, S \ {x})) \in Int
  BY SumType, FS_RemoveElement
<1> QED BY <1>1, <1>2, PartWhole DEF Part

(* A function that differs in one value. *)
LEMMA SumChange ==
  ASSUME NEW S, IsFiniteSet(S), NEW f \in [S -> Int], NEW g \in [S -> Int], NEW x \in S,
         \A y \in S \ {x} : g[y] = f[y]
  PROVE  SumOf(g) = SumOf(f) + g[x] - f[x]
<1> DEFINE e == [y \in S \ {x} |-> f[y]]
           d == [y \in S \ {x} |-> g[y]]
<1>1. SumOf(f) = f[x] + SumOf(e) /\ SumOf(e) \in Int
  BY SumSplit
<1>2. SumOf(g) = g[x] + SumOf(d)
  BY SumSplit
<1>3. f[x] \in Int /\ g[x] \in Int
  OBVIOUS
<1>4. e = d
  OBVIOUS
<1> HIDE DEF e, d
<1> QED BY <1>1, <1>2, <1>3, <1>4

LEMMA SumLinear ==
  ASSUME NEW S, IsFiniteSet(S), NEW f \in [S -> Int], NEW g \in [S -> Int],
         NEW a \in Int, NEW b \in Int
  PROVE  SumOf([x \in S |-> a * f[x] + b * g[x]]) = a * SumOf(f) + b * SumOf(g)
<1> DEFINE h == [x \in S |-> a * f[x] + b * g[x]]
           L(T) == SumOf(Part(h, T)) = a * SumOf(Part(f, T)) + b * SumOf(Part(g, T))
           X == {T \in SUBSET S : ~L(T)}
<1>0. h \in [S -> Int]
  <2>1. \A x \in S : f[x] \in Int /\ g[x] \in Int
    OBVIOUS
  <2>2. \A i, j \in Int : a * i + b * j \in Int
    OBVIOUS
  <2> QED BY <2>1, <2>2
<1>1. ASSUME X # {} PROVE FALSE
  <2>1. PICK T \in X : \A U \in X : U \subseteq T => U = T
    <3>1. X \subseteq SUBSET S
      OBVIOUS
    <3> HIDE DEF X
    <3> QED BY <1>1, <3>1, LeastSubset
  <2>2. T # {}
    <3>1. L({})
      BY SumEmpty
    <3> QED BY <2>1, <3>1
  <2>3. PICK x \in T : TRUE
    BY <2>2
  <2> DEFINE U == T \ {x}
  <2>4. T \subseteq S /\ x \in S /\ IsFiniteSet(T) /\ U \subseteq S /\ IsFiniteSet(U)
    BY <2>1, <2>3, FS_Subset
  <2>5. L(U)
    BY <2>1, <2>3, <2>4
  <2>6. /\ SumOf(Part(h, T)) = h[x] + SumOf(Part(h, U))
        /\ SumOf(Part(f, T)) = f[x] + SumOf(Part(f, U))
        /\ SumOf(Part(g, T)) = g[x] + SumOf(Part(g, U))
    <3>1. \A y \in T : h[y] \in Int /\ f[y] \in Int /\ g[y] \in Int
      BY <1>0, <2>4
    <3> HIDE DEF h
    <3> QED BY <2>3, <2>4, <3>1, SumWith
  <2>7. SumOf(Part(f, U)) \in Int /\ SumOf(Part(g, U)) \in Int /\ f[x] \in Int /\ g[x] \in Int
    BY <2>4, SumType
  <2>8. h[x] = a * f[x] + b * g[x]
    BY <2>4
  <2>9. ~L(T)
    BY <2>1
  <2> HIDE DEF h, U
  <2>10. \A i, j, p, q \in Int : a * (i + p) + b * (j + q) = (a * i + b * j) + (a * p + b * q)
    OBVIOUS
  <2>11. L(T)
    BY <2>5, <2>6, <2>7, <2>8, <2>10
  <2> QED BY <2>9, <2>11
<1>2. L(S)
  BY <1>1
<1>3. Part(f, S) = f /\ Part(g, S) = g /\ Part(h, S) = h
  BY <1>0, PartWhole
<1> QED BY <1>2, <1>3

LEMMA SumMonotone ==
  ASSUME NEW S, IsFiniteSet(S), NEW f \in [S -> Int], NEW g \in [S -> Int],
         \A x \in S : f[x] <= g[x]
  PROVE  SumOf(f) <= SumOf(g)
<1> DEFINE L(T) == SumOf(Part(f, T)) <= SumOf(Part(g, T))
           X == {T \in SUBSET S : ~L(T)}
<1>1. ASSUME X # {} PROVE FALSE
  <2>1. PICK T \in X : \A U \in X : U \subseteq T => U = T
    <3>1. X \subseteq SUBSET S
      OBVIOUS
    <3> HIDE DEF X
    <3> QED BY <1>1, <3>1, LeastSubset
  <2>2. T # {}
    <3>1. L({})
      BY SumEmpty
    <3> QED BY <2>1, <3>1
  <2>3. PICK x \in T : TRUE
    BY <2>2
  <2> DEFINE U == T \ {x}
  <2>4. T \subseteq S /\ x \in S /\ IsFiniteSet(T) /\ U \subseteq S /\ IsFiniteSet(U)
    BY <2>1, <2>3, FS_Subset
  <2>5. L(U)
    BY <2>1, <2>3, <2>4
  <2>6. /\ SumOf(Part(f, T)) = f[x] + SumOf(Part(f, U))
        /\ SumOf(Part(g, T)) = g[x] + SumOf(Part(g, U))
    <3>1. \A y \in T : f[y] \in Int /\ g[y] \in Int
      BY <2>4
    <3> QED BY <2>3, <2>4, <3>1, SumWith
  <2>7. SumOf(Part(f, U)) \in Int /\ SumOf(Part(g, U)) \in Int /\ f[x] \in Int /\ g[x] \in Int
    BY <2>4, SumType
  <2>8. f[x] <= g[x]
    BY <2>4
  <2>9. ~L(T)
    BY <2>1
  <2> HIDE DEF U
  <2>10. L(T)
    BY <2>5, <2>6, <2>7, <2>8
  <2> QED BY <2>9, <2>10
<1>2. L(S)
  BY <1>1
<1>3. Part(f, S) = f /\ Part(g, S) = g
  BY PartWhole
<1> QED BY <1>2, <1>3

(* A sum over a sequence's positions grows by its last element.            *)
LEMMA SumNext ==
  ASSUME NEW n \in Nat, NEW f \in [1..(n + 1) -> Int]
  PROVE  /\ SumOf(f) = f[n + 1] + SumOf([i \in 1..n |-> f[i]])
         /\ SumOf([i \in 1..n |-> f[i]]) \in Int
<1> DEFINE S == 1..(n + 1)
<1>1. IsFiniteSet(S)
  BY FS_Interval
<1>4. n + 1 \in S /\ S \ {n + 1} = 1..n
  OBVIOUS
<1>2. f \in [S -> Int]
  OBVIOUS
<1> HIDE DEF S
<1>3. /\ SumOf(f) = f[n + 1] + SumOf([i \in S \ {n + 1} |-> f[i]])
      /\ SumOf([i \in S \ {n + 1} |-> f[i]]) \in Int
  BY <1>1, <1>2, <1>4, SumSplit
<1> QED BY <1>3, <1>4

LEMMA SumNegated ==
  ASSUME NEW S, IsFiniteSet(S), NEW f \in [S -> Int]
  PROVE  SumOf([x \in S |-> -f[x]]) = -SumOf(f) /\ SumOf(f) \in Int
<1>1. PICK a \in Int : a = -1
  OBVIOUS
<1>2. PICK b \in Int : b = 0
  OBVIOUS
<1>3. SumOf([x \in S |-> a * f[x] + b * f[x]]) = a * SumOf(f) + b * SumOf(f) /\ SumOf(f) \in Int
  BY SumLinear, SumInt
<1>4. \A x \in S : a * f[x] + b * f[x] = -f[x]
  BY <1>1, <1>2
<1>5. [x \in S |-> a * f[x] + b * f[x]] = [x \in S |-> -f[x]]
  BY <1>4
<1> QED BY <1>1, <1>2, <1>3, <1>5

LEMMA SumTimes ==
  ASSUME NEW S, IsFiniteSet(S), NEW f \in [S -> Int], NEW a \in Int
  PROVE  SumOf([x \in S |-> a * f[x]]) = a * SumOf(f)
<1>1. PICK b \in Int : b = 0
  OBVIOUS
<1>2. SumOf([x \in S |-> a * f[x] + b * f[x]]) = a * SumOf(f) + b * SumOf(f) /\ SumOf(f) \in Int
  BY SumLinear, SumInt
<1>3. \A x \in S : a * f[x] + b * f[x] = a * f[x]
  <2> TAKE x \in S
  <2>1. f[x] \in Int
    OBVIOUS
  <2>2. \A y \in Int : a * y + b * y = a * y
    BY <1>1
  <2> QED BY <2>1, <2>2
<1>4. [x \in S |-> a * f[x] + b * f[x]] = [x \in S |-> a * f[x]]
  BY <1>3
<1>5. a * SumOf(f) + b * SumOf(f) = a * SumOf(f)
  <2>1. \A y \in Int : a * y + b * y = a * y
    BY <1>1
  <2> QED BY <1>2, <2>1
<1> QED BY <1>2, <1>4, <1>5

LEMMA SumMinus ==
  ASSUME NEW S, IsFiniteSet(S), NEW f \in [S -> Int], NEW g \in [S -> Int]
  PROVE  SumOf([x \in S |-> f[x] - g[x]]) = SumOf(f) - SumOf(g)
<1>1. PICK a \in Int, b \in Int : a = 1 /\ b = -1
  OBVIOUS
<1>2. /\ SumOf([x \in S |-> a * f[x] + b * g[x]]) = a * SumOf(f) + b * SumOf(g)
      /\ SumOf(f) \in Int /\ SumOf(g) \in Int
  BY SumLinear, SumInt
<1>3. \A x, y \in Int : a * x + b * y = x - y
  BY <1>1
<1>4. [x \in S |-> a * f[x] + b * g[x]] = [x \in S |-> f[x] - g[x]]
  BY <1>3
<1>5. a * SumOf(f) + b * SumOf(g) = SumOf(f) - SumOf(g)
  BY <1>2, <1>3
<1> QED BY <1>2, <1>4, <1>5

(* A term of a sum of numbers that are not negative is no more than it.    *)
LEMMA SumNat ==
  ASSUME NEW S, IsFiniteSet(S), NEW f \in [S -> Nat]
  PROVE  SumOf(f) \in Nat /\ \A x \in S : f[x] <= SumOf(f)
<1> DEFINE zero == [x \in S |-> 0]
<1>1. f \in [S -> Int] /\ zero \in [S -> Int] /\ zero = [x \in S |-> 0 * f[x] + 0 * f[x]]
  OBVIOUS
<1>2. SumOf(f) \in Int
  BY <1>1, SumInt
<1>3. SumOf(zero) = 0
  <2> HIDE DEF zero
  <2>1. SumOf(zero) = 0 * SumOf(f) + 0 * SumOf(f)
    BY <1>1, SumLinear
  <2> QED BY <1>2, <2>1
<1>4. 0 <= SumOf(f)
  <2>1. \A x \in S : zero[x] <= f[x]
    OBVIOUS
  <2> HIDE DEF zero
  <2> QED BY <1>1, <1>3, <2>1, SumMonotone
<1>5. ASSUME NEW x \in S PROVE f[x] <= SumOf(f)
  <2> DEFINE R == S \ {x}
             e == [y \in R |-> f[y]]
  <2>1. SumOf(f) = f[x] + SumOf(e)
    BY <1>1, SumSplit
  <2>2. IsFiniteSet(R) /\ e \in [R -> Int]
    BY FS_RemoveElement
  <2>3. SumOf(e) >= 0
    <3> DEFINE none == [y \in R |-> 0]
    <3>1. none \in [R -> Int] /\ none = [y \in R |-> 0 * e[y] + 0 * e[y]] /\ \A y \in R : none[y] <= e[y]
      OBVIOUS
    <3> HIDE DEF none, e, R
    <3>2. SumOf(none) = 0 * SumOf(e) + 0 * SumOf(e) /\ SumOf(e) \in Int
      BY <2>2, <3>1, SumLinear, SumInt
    <3>3. SumOf(none) <= SumOf(e)
      BY <2>2, <3>1, SumMonotone
    <3> QED BY <3>2, <3>3
  <2>4. SumOf(e) \in Int
    <3> HIDE DEF e, R
    <3> QED BY <2>2, SumInt
  <2> HIDE DEF e
  <2> QED BY <2>1, <2>3, <2>4
<1> QED BY <1>2, <1>4, <1>5

-----------------------------------------------------------------------------
(* Sums along a sequence. *)

Prefix(f, k) == SumOf([i \in 1..k |-> f[i]])

LEMMA PrefixNext ==
  ASSUME NEW n \in Nat, NEW f \in [1..n -> Int], NEW k \in 0..(n - 1)
  PROVE  Prefix(f, k + 1) = f[k + 1] + Prefix(f, k) /\ Prefix(f, k) \in Int /\ f[k + 1] \in Int
<1> DEFINE e == [i \in 1..(k + 1) |-> f[i]]
<1>1. k \in Nat /\ k + 1 \in 1..n /\ \A i \in 1..(k + 1) : i \in 1..n
  OBVIOUS
<1>2. e \in [1..(k + 1) -> Int] /\ e[k + 1] = f[k + 1] /\ f[k + 1] \in Int
  BY <1>1
<1>3. [i \in 1..k |-> e[i]] = [i \in 1..k |-> f[i]]
  BY <1>1
<1>4. SumOf(e) = e[k + 1] + SumOf([i \in 1..k |-> e[i]]) /\ SumOf([i \in 1..k |-> e[i]]) \in Int
  <2> HIDE DEF e
  <2> QED BY <1>1, <1>2, SumNext
<1> QED BY <1>2, <1>3, <1>4 DEF Prefix

LEMMA PrefixNone == ASSUME NEW f PROVE Prefix(f, 0) = 0
<1> DEFINE e == [i \in 1..0 |-> f[i]]
<1>1. DOMAIN e = {} /\ e = [x \in {} |-> e[x]]
  OBVIOUS
<1>2. SumOf(e) = 0
  <2> HIDE DEF e
  <2> QED BY <1>1, SumNone
<1> QED BY <1>2 DEF Prefix

LEMMA PrefixAll ==
  ASSUME NEW n, NEW R, NEW f \in [1..n -> R]
  PROVE  Prefix(f, n) = SumOf(f)
<1>1. [i \in 1..n |-> f[i]] = f
  OBVIOUS
<1> QED BY <1>1 DEF Prefix

LEMMA PrefixInt ==
  ASSUME NEW n \in Nat, NEW f \in [1..n -> Int], NEW k \in 0..n
  PROVE  Prefix(f, k) \in Int
<1> DEFINE e == [i \in 1..k |-> f[i]]
<1>1. IsFiniteSet(1..k)
  BY FS_Interval
<1>2. e \in [1..k -> Int]
  OBVIOUS
<1>3. SumOf(e) \in Int
  <2> HIDE DEF e
  <2> QED BY <1>1, <1>2, SumInt
<1> QED BY <1>3 DEF Prefix

LEMMA PrefixWithin ==
  ASSUME NEW n \in Nat, NEW f \in [1..n -> Nat], NEW k \in 0..n
  PROVE  Prefix(f, k) <= SumOf(f)
<1> DEFINE X == {j \in 0..(n - k) : Prefix(f, k) <= Prefix(f, k + j)}
<1>1. f \in [1..n -> Int] /\ n - k \in Nat
  OBVIOUS
<1>2. \A j \in 0..n : Prefix(f, j) \in Int
  BY <1>1, PrefixInt
<1>3. 0 \in X
  <2>1. k + 0 = k /\ Prefix(f, k) <= Prefix(f, k)
    BY <1>2
  <2> QED BY <1>1, <2>1
<1>4. ASSUME NEW j \in 0..(n - k - 1), j \in X PROVE j + 1 \in X
  <2>1. k + j \in 0..(n - 1) /\ j + 1 \in 0..(n - k) /\ (k + j) + 1 = k + (j + 1)
    BY <1>4
  <2>2. Prefix(f, k + (j + 1)) = f[k + (j + 1)] + Prefix(f, k + j)
    BY <1>1, <2>1, PrefixNext
  <2>3. f[k + (j + 1)] \in Nat /\ Prefix(f, k + j) \in Int /\ Prefix(f, k) \in Int
    BY <1>2, <2>1
  <2>4. Prefix(f, k) <= Prefix(f, k + j)
    BY <1>4
  <2>5. Prefix(f, k) <= Prefix(f, k + (j + 1))
    BY <2>2, <2>3, <2>4
  <2> QED BY <2>1, <2>5
<1>5. n - k \in X
  <2>1. 0..(n - k) \subseteq X
    <3> HIDE DEF X
    <3> QED BY <1>1, <1>3, <1>4, Upwards
  <2> QED BY <1>1, <2>1
<1>6. k + (n - k) = n
  OBVIOUS
<1> QED BY <1>5, <1>6, PrefixAll

LEMMA ProductInt == \A x, y \in Int : x * y \in Int
  OBVIOUS

LEMMA Farther == \A x, y, b \in Int : x <= y /\ b <= 0 => y * b <= x * b
  OBVIOUS

LEMMA Weighed == \A x, a, b, u, v \in Int : x * ((a + u) - (b + v)) = (a * x - b * x) + x * (u - v)
  OBVIOUS

(* Of two ways t and g to take as much at rising prices p, the one that is *)
(* never behind the other pays less.                                       *)
LEMMA Earlier ==
  ASSUME NEW n \in Nat, NEW p \in [1..n -> Int], NEW t \in [1..n -> Int], NEW g \in [1..n -> Int],
         \A i, j \in 1..n : i <= j => p[i] <= p[j],
         \A k \in 0..n : Prefix(t, k) <= Prefix(g, k),
         SumOf(t) = SumOf(g)
  PROVE  SumOf([i \in 1..n |-> g[i] * p[i]]) <= SumOf([i \in 1..n |-> t[i] * p[i]])
<1> DEFINE c == [i \in 1..n |-> t[i] * p[i]]
           d == [i \in 1..n |-> g[i] * p[i]]
           behind(k) == Prefix(t, k) - Prefix(g, k)
           X == {k \in 0..n : k = 0 \/ p[k] * behind(k) <= Prefix(c, k) - Prefix(d, k)}
<1>1. c \in [1..n -> Int] /\ d \in [1..n -> Int]
  <2>1. \A i \in 1..n : t[i] \in Int /\ g[i] \in Int /\ p[i] \in Int
    OBVIOUS
  <2>2. \A x, y \in Int : x * y \in Int
    OBVIOUS
  <2> QED BY <2>1, <2>2
<1>2. \A k \in 0..n : /\ Prefix(c, k) \in Int /\ Prefix(d, k) \in Int
                      /\ Prefix(t, k) \in Int /\ Prefix(g, k) \in Int
                      /\ behind(k) \in Int /\ behind(k) <= 0
  <2> TAKE k \in 0..n
  <2>1. /\ Prefix(c, k) \in Int /\ Prefix(d, k) \in Int
        /\ Prefix(t, k) \in Int /\ Prefix(g, k) \in Int
    <3> HIDE DEF c, d
    <3> QED BY <1>1, PrefixInt
  <2> QED BY <2>1
<1>3. 0 \in X
  OBVIOUS
<1>4. ASSUME NEW k \in 0..(n - 1), k \in X PROVE k + 1 \in X
  <2> DEFINE j == k + 1
  <2>1. j \in 1..n /\ j \in 0..n /\ k \in 0..n
    BY <1>4
  <2>2. c[j] = t[j] * p[j] /\ d[j] = g[j] * p[j] /\ p[j] \in Int /\ t[j] \in Int /\ g[j] \in Int
    BY <2>1
  <2> HIDE DEF c, d
  <2>3. /\ Prefix(c, j) = c[j] + Prefix(c, k) /\ Prefix(d, j) = d[j] + Prefix(d, k)
        /\ Prefix(t, j) = t[j] + Prefix(t, k) /\ Prefix(g, j) = g[j] + Prefix(g, k)
    BY <1>1, PrefixNext
  <2>4. p[j] * behind(k) <= Prefix(c, k) - Prefix(d, k)
    <3>1. CASE k = 0
      <4>1. behind(k) = 0 /\ Prefix(c, k) = 0 /\ Prefix(d, k) = 0
        BY <3>1, PrefixNone
      <4> QED BY <2>2, <4>1
    <3>2. CASE k # 0
      <4>1. p[k] \in Int /\ p[k] <= p[j] /\ p[k] * behind(k) <= Prefix(c, k) - Prefix(d, k)
        BY <1>4, <2>1, <3>2
      <4>2. behind(k) \in Int /\ behind(k) <= 0
        BY <1>2, <2>1
      <4>3. p[j] * behind(k) <= p[k] * behind(k)
        <5> HIDE DEF behind, j
        <5> QED BY <2>2, <4>1, <4>2, Farther
      <4>4. p[j] * behind(k) \in Int /\ p[k] * behind(k) \in Int
        <5> HIDE DEF behind, j
        <5> QED BY <2>2, <4>1, <4>2, ProductInt
      <4>5. Prefix(c, k) - Prefix(d, k) \in Int
        BY <1>2, <2>1
      <4> HIDE DEF behind, j
      <4> QED BY <4>1, <4>3, <4>4, <4>5
    <3> QED BY <3>1, <3>2
  <2>5. p[j] * behind(j) <= Prefix(c, j) - Prefix(d, j)
    <3>1. /\ Prefix(c, k) \in Int /\ Prefix(d, k) \in Int /\ Prefix(t, k) \in Int
          /\ Prefix(g, k) \in Int
      BY <1>2, <2>1
    <3>2. p[j] * behind(j) = (t[j] * p[j] - g[j] * p[j]) + p[j] * behind(k)
      <4> DEFINE a == t[j]
                 b == g[j]
                 x == p[j]
                 u == Prefix(t, k)
                 v == Prefix(g, k)
      <4>1. a \in Int /\ b \in Int /\ x \in Int /\ u \in Int /\ v \in Int
        BY <2>2, <3>1
      <4>2. behind(j) = (a + u) - (b + v) /\ behind(k) = u - v
        BY <2>3
      <4> HIDE DEF a, b, x, u, v, behind
      <4>3. x * ((a + u) - (b + v)) = (a * x - b * x) + x * (u - v)
        BY <4>1, Weighed
      <4> QED BY <4>2, <4>3 DEF a, b, x
    <3>3. behind(k) \in Int /\ behind(j) \in Int
      BY <1>2, <2>1
    <3> HIDE DEF behind, j
    <3>4. PICK w \in Int, x \in Int, y \in Int, z \in Int :
            w = t[j] * p[j] /\ x = g[j] * p[j] /\ y = p[j] * behind(k) /\ z = p[j] * behind(j)
      BY <2>2, <3>3, ProductInt
    <3>5. z = (w - x) + y /\ y <= Prefix(c, k) - Prefix(d, k)
      BY <2>4, <3>2, <3>4
    <3>6. Prefix(c, j) = w + Prefix(c, k) /\ Prefix(d, j) = x + Prefix(d, k)
      BY <2>2, <2>3, <3>4
    <3>7. z <= Prefix(c, j) - Prefix(d, j)
      <4>1. w \in Int /\ x \in Int /\ y \in Int
        BY <3>4
      <4> QED BY <3>1, <3>5, <3>6, <4>1
    <3> QED BY <3>4, <3>7
  <2> QED BY <2>1, <2>5
<1>5. n \in X
  <2>1. 0..n \subseteq X
    <3> HIDE DEF X
    <3> QED BY <1>3, <1>4, Upwards
  <2>2. n \in 0..n
    OBVIOUS
  <2> HIDE DEF X
  <2> QED BY <2>1, <2>2
<1>6. /\ Prefix(c, n) = SumOf(c) /\ Prefix(d, n) = SumOf(d)
      /\ Prefix(t, n) = SumOf(t) /\ Prefix(g, n) = SumOf(g)
  <2> HIDE DEF c, d
  <2> QED BY <1>1, PrefixAll
<1>7. SumOf(c) \in Int /\ SumOf(d) \in Int /\ behind(n) = 0
  BY <1>2, <1>6
<1>8. n = 0 => SumOf(c) = 0 /\ SumOf(d) = 0
  BY <1>6, PrefixNone
<1>9. n # 0 => 0 <= SumOf(c) - SumOf(d)
  <2>1. n # 0 => p[n] \in Int /\ p[n] * behind(n) <= SumOf(c) - SumOf(d)
    BY <1>5, <1>6
  <2> QED BY <1>7, <2>1
<1> HIDE DEF c, d
<1>10. SumOf(d) <= SumOf(c)
  BY <1>7, <1>8, <1>9
<1> QED BY <1>10 DEF c, d

LEMMA Dearer ==
  ASSUME NEW a \in Int, NEW b \in Int, NEW f \in Nat, NEW h \in Nat, NEW q \in Int,
         a <= q * f, q * (h - f) <= b - a, f <= h
  PROVE  a * h <= b * f
<1>1. PICK d \in Nat : d = h - f
  OBVIOUS
<1>2. PICK e \in Int, w \in Int : e = b - a /\ w = q * f
  OBVIOUS
<1>3. a * d <= w * d
  BY <1>1, <1>2
<1>4. (q * d) * f <= e * f
  <2>1. PICK v \in Int : v = q * d
    BY <1>1
  <2>2. v <= e
    BY <1>1, <1>2, <2>1
  <2>3. v * f <= e * f
    BY <2>2
  <2> QED BY <2>1, <2>3
<1>5. (q * d) * f = (q * f) * d
  BY <1>1
<1>6. a * d <= e * f
  <2>1. PICK x \in Int, y \in Int : x = a * d /\ y = e * f
    BY <1>1, <1>2
  <2>2. x <= w * d /\ w * d <= y /\ w * d \in Int
    BY <1>1, <1>2, <1>3, <1>4, <1>5, <2>1
  <2> QED BY <2>1, <2>2
<1>7. h = f + d /\ b = a + e
  BY <1>1, <1>2
<1>8. a * (f + d) = a * f + a * d /\ (a + e) * f = a * f + e * f
  BY <1>1, <1>2
<1>9. a * f \in Int /\ a * d \in Int /\ e * f \in Int
  BY <1>1, <1>2, ProductInt
<1> QED BY <1>6, <1>7, <1>8, <1>9

(* Of two ways to take at rising prices, of which one goes on where the    *)
(* other ends, the longer one pays more on average.                        *)
LEMMA OnAverage ==
  ASSUME NEW n \in Nat, NEW p \in [1..n -> Int], NEW g \in [1..n -> Nat], NEW h \in [1..n -> Nat],
         \A i, j \in 1..n : i <= j => p[i] <= p[j],
         NEW m \in 1..n, \A i \in 1..n : i < m => g[i] = h[i],
         \A i \in 1..n : i > m => g[i] = 0, g[m] <= h[m]
  PROVE  /\ SumOf([i \in 1..n |-> g[i] * p[i]]) * SumOf(h) <= SumOf([i \in 1..n |-> h[i] * p[i]]) * SumOf(g)
<1> DEFINE S == 1..n
           q == p[m]
           c == [i \in S |-> g[i] * p[i]]
           d == [i \in S |-> h[i] * p[i]]
           more == [i \in S |-> h[i] - g[i]]
           extra == [i \in S |-> d[i] - c[i]]
           even == [i \in S |-> q * g[i]]
           evenly == [i \in S |-> q * more[i]]
<1>1. IsFiniteSet(S)
  BY FS_Interval
<1>2. \A i \in S : g[i] \in Nat /\ h[i] \in Nat /\ p[i] \in Int /\ q \in Int
  OBVIOUS
<1>3. \A i \in S : g[i] <= h[i] /\ (g[i] # 0 => p[i] <= q) /\ (g[i] # h[i] => q <= p[i])
  <2> TAKE i \in S
  <2>1. CASE i < m
    BY <1>2, <2>1
  <2>2. CASE i = m
    BY <1>2, <2>2
  <2>3. CASE i > m
    BY <1>2, <2>3
  <2> QED BY <2>1, <2>2, <2>3
<1>4. \A i \in S : c[i] \in Int /\ d[i] \in Int /\ even[i] \in Int /\ more[i] \in Nat /\ extra[i] \in Int /\ evenly[i] \in Int
  <2> TAKE i \in S
  <2>1. more[i] \in Nat
    BY <1>2, <1>3
  <2>2. g[i] * p[i] \in Int /\ h[i] * p[i] \in Int /\ q * g[i] \in Int
    BY <1>2, ProductInt
  <2>3. q * more[i] \in Int
    <3> HIDE DEF more
    <3> QED BY <1>2, <2>1, ProductInt
  <2> QED BY <2>1, <2>2, <2>3
<1>5. /\ c \in [S -> Int] /\ d \in [S -> Int] /\ even \in [S -> Int] /\ more \in [S -> Int]
      /\ extra \in [S -> Int] /\ evenly \in [S -> Int] /\ more \in [S -> Nat]
  <2>1. /\ c = [i \in S |-> c[i]] /\ d = [i \in S |-> d[i]] /\ even = [i \in S |-> even[i]]
        /\ more = [i \in S |-> more[i]] /\ extra = [i \in S |-> extra[i]]
        /\ evenly = [i \in S |-> evenly[i]]
    OBVIOUS
  <2> HIDE DEF S, c, d, even, more, extra, evenly
  <2> QED BY <1>4, <2>1
<1>6. \A i \in S : c[i] <= even[i]
  <2> TAKE i \in S
  <2>1. CASE g[i] = 0
    <3>1. g[i] * p[i] = 0 /\ q * g[i] = 0
      BY <1>2, <2>1
    <3> QED BY <3>1
  <2>2. CASE g[i] # 0
    <3>1. \A k \in Nat, x, y \in Int : x <= y => k * x <= y * k
      OBVIOUS
    <3>2. g[i] * p[i] <= q * g[i]
      <4>1. p[i] <= q
        BY <1>3, <2>2
      <4> HIDE DEF q
      <4> QED BY <1>2, <3>1, <4>1
    <3> QED BY <3>2
  <2> QED BY <2>1, <2>2
<1>7. \A i \in S : evenly[i] <= extra[i]
  <2> TAKE i \in S
  <2>1. \A x, y, z \in Int : y * x - z * x = x * (y - z)
    OBVIOUS
  <2>2. extra[i] = p[i] * more[i] /\ more[i] = h[i] - g[i]
    <3>1. h[i] * p[i] - g[i] * p[i] = p[i] * (h[i] - g[i])
      BY <1>2, <2>1
    <3> QED BY <3>1
  <2>3. evenly[i] = q * more[i]
    OBVIOUS
  <2>4. more[i] = 0 \/ q <= p[i]
    BY <1>2, <1>3
  <2>5. more[i] \in Nat /\ p[i] \in Int /\ q \in Int
    BY <1>2, <1>4
  <2>6. \A k \in Nat, x, y \in Int : k = 0 \/ x <= y => x * k <= y * k
    OBVIOUS
  <2> HIDE DEF evenly, extra, more, q
  <2> QED BY <2>2, <2>3, <2>4, <2>5, <2>6
<1>8. g \in [S -> Int] /\ h \in [S -> Int] /\ g \in [S -> Nat] /\ h \in [S -> Nat]
  BY <1>2
<1>9. q \in Int
  OBVIOUS
<1>10. /\ SumOf(even) = q * SumOf(g) /\ SumOf(more) = SumOf(h) - SumOf(g)
       /\ SumOf(extra) = SumOf(d) - SumOf(c)
  <2>1. SumOf([i \in S |-> q * g[i]]) = q * SumOf(g)
    <3> HIDE DEF S, q
    <3> QED BY <1>1, <1>8, <1>9, SumTimes
  <2>2. SumOf([i \in S |-> h[i] - g[i]]) = SumOf(h) - SumOf(g)
    <3> HIDE DEF S
    <3> QED BY <1>1, <1>8, SumMinus
  <2>3. SumOf([i \in S |-> d[i] - c[i]]) = SumOf(d) - SumOf(c)
    <3> HIDE DEF S, c, d
    <3> QED BY <1>1, <1>5, SumMinus
  <2> QED BY <2>1, <2>2, <2>3
<1>11. SumOf(evenly) = q * SumOf(more)
  <2> HIDE DEF S, q, more
  <2> QED BY <1>1, <1>5, <1>9, SumTimes
<1> HIDE DEF S, q, c, d, more, extra, even, evenly
<1>12. SumOf(c) <= SumOf(even) /\ SumOf(evenly) <= SumOf(extra)
  BY <1>1, <1>5, <1>6, <1>7, SumMonotone
<1>13. /\ SumOf(c) \in Int /\ SumOf(d) \in Int /\ SumOf(g) \in Nat /\ SumOf(h) \in Nat
       /\ SumOf(more) \in Nat
  BY <1>1, <1>5, <1>8, SumInt, SumNat
<1>14. /\ SumOf(c) <= q * SumOf(g) /\ q * (SumOf(h) - SumOf(g)) <= SumOf(d) - SumOf(c)
       /\ SumOf(g) <= SumOf(h)
  BY <1>10, <1>11, <1>12, <1>13
<1>15. SumOf(c) * SumOf(h) <= SumOf(d) * SumOf(g)
  BY <1>9, <1>13, <1>14, Dearer
<1> QED BY <1>15 DEF c, d, S
=============================================================================
