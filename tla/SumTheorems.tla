----------------------------- MODULE SumTheorems -----------------------------
(***************************************************************************)
(* What SumFunction of the community modules returns.  It folds a function *)
(* over its domain in an order CHOOSE picks; the lemmas show that there is *)
(* such a fold, that the order does not matter, and how the sum changes    *)
(* with one element more.                                                  *)
(*                                                                         *)
(* The induction is over sets of naturals, by WFMin: a theorem with an     *)
(* operator parameter would be out of the provers' reach.                  *)
(***************************************************************************)
EXTENDS Integers, FiniteSets, Functions, FiniteSetTheorems, TLAPS

\* A set of naturals that holds zero and every successor holds them all.
LEMMA Induction ==
    ASSUME NEW S, 0 \in S, \A n \in Nat : n \in S => n + 1 \in S
    PROVE  Nat \subseteq S
<1> DEFINE T == Nat \ S
<1> SUFFICES ASSUME T # {} PROVE FALSE
  OBVIOUS
<1>1. PICK x \in T : \A y \in T : <<y, x>> \notin OpToRel(<, Nat)
  <2>1. T # {} /\ T \subseteq Nat
    OBVIOUS
  <2> HIDE DEF T
  <2> QED
    BY <2>1, NatLessThanWellFounded, WFMin
<1>2. x - 1 \in T
  OBVIOUS
<1>3. <<x - 1, x>> \in OpToRel(<, Nat)
  BY <1>2 DEF OpToRel
<1> QED
  BY <1>1, <1>2, <1>3

\* One step of the fold, and a function that makes it at every subset of S.
Taken(s) == CHOOSE x \in s : TRUE
Fold(f, g, s) == IF s = {} THEN 0 ELSE f[Taken(s)] + g[s \ {Taken(s)}]
Solves(g, f, S) == g = [s \in SUBSET S |-> Fold(f, g, s)]

\* Subsets of a finite set, and what is left of them without one element.
LEMMA Subsets ==
    ASSUME NEW S, IsFiniteSet(S), NEW s \in SUBSET S
    PROVE  /\ IsFiniteSet(s) /\ Cardinality(s) \in Nat
           /\ Cardinality(s) <= Cardinality(S)
           /\ Cardinality(s) = 0 <=> s = {}
           /\ \A x \in s : s \ {x} \in SUBSET S /\ Cardinality(s \ {x}) = Cardinality(s) - 1
<1>1. IsFiniteSet(s) /\ Cardinality(s) <= Cardinality(S)
  BY FS_Subset
<1>2. Cardinality(s) \in Nat
  BY <1>1, FS_CardinalityType
<1>3. Cardinality(s) = 0 <=> s = {}
  BY <1>1, FS_EmptySet
<1>4. \A x \in s : Cardinality(s \ {x}) = Cardinality(s) - 1
  BY <1>1, FS_RemoveElement
<1> QED
  BY <1>1, <1>2, <1>3, <1>4

LEMMA TakenIn == \A s : s # {} => Taken(s) \in s
BY DEF Taken

\* The fold exists: for subsets of one element more, one step more.
LEMMA SolutionExists ==
    ASSUME NEW S, IsFiniteSet(S), NEW f
    PROVE  \E g : Solves(g, f, S)
<1> DEFINE Upto(n) == {s \in SUBSET S : Cardinality(s) <= n}
           N == {n \in Nat : \E g : g = [s \in Upto(n) |-> Fold(f, g, s)]}
<1>1. 0 \in N
  <2> DEFINE g == [s \in Upto(0) |-> 0]
  <2>1. \A s \in Upto(0) : s = {}
    BY Subsets
  <2>2. g = [s \in Upto(0) |-> Fold(f, g, s)]
    BY <2>1 DEF Fold
  <2> QED
    BY <2>2
<1>2. ASSUME NEW n \in Nat, n \in N PROVE n + 1 \in N
  <2>1. PICK g : g = [s \in Upto(n) |-> Fold(f, g, s)]
    BY <1>2
  <2> DEFINE h == [s \in Upto(n + 1) |-> Fold(f, g, s)]
  <2>2. ASSUME NEW s \in Upto(n + 1) PROVE Fold(f, g, s) = Fold(f, h, s)
    <3>1. CASE s = {}
      BY <3>1 DEF Fold
    <3>2. CASE s # {}
      <4> DEFINE t == s \ {Taken(s)}
      <4>1. t \in Upto(n) /\ t \in Upto(n + 1)
        BY <3>2, TakenIn, Subsets
      <4>2. g[t] = Fold(f, g, t) /\ h[t] = Fold(f, g, t)
        BY <2>1, <4>1
      <4> QED
        BY <3>2, <4>2 DEF Fold
    <3> QED
      BY <3>1, <3>2
  <2>3. h = [s \in Upto(n + 1) |-> Fold(f, h, s)]
    BY <2>2
  <2>4. \E e : e = [s \in Upto(n + 1) |-> Fold(f, e, s)]
    <3> HIDE DEF h
    <3> QED
      BY <2>3
  <2> QED
    BY <2>4
<1>3. Cardinality(S) \in N
  <2>1. Cardinality(S) \in Nat
    BY FS_CardinalityType
  <2> HIDE DEF N
  <2> QED
    BY <1>1, <1>2, <2>1, Induction
<1>4. Upto(Cardinality(S)) = SUBSET S
  BY Subsets
<1> QED
  BY <1>3, <1>4 DEF Solves

\* Which the fold of the library chooses.
LEMMA SumSolved ==
    ASSUME NEW f, IsFiniteSet(DOMAIN f)
    PROVE  \E g : Solves(g, f, DOMAIN f) /\ SumFunction(f) = g[DOMAIN f]
<1> DEFINE h == CHOOSE g : Solves(g, f, DOMAIN f)
<1>1. Solves(h, f, DOMAIN f)
  BY SolutionExists
<1>2. SumFunction(f) = h[DOMAIN f]
  BY DEF SumFunction, SumFunctionOnSet, FoldFunctionOnSet, MapThenFoldSet, Solves, Fold, Taken
<1> QED
  BY <1>1, <1>2

\* Two folds agree where their functions do.
LEMMA SolutionsAgree ==
    ASSUME NEW S, IsFiniteSet(S), NEW T, T \subseteq S, NEW f, NEW e,
           \A x \in T : f[x] = e[x],
           NEW g, Solves(g, f, S), NEW h, Solves(h, e, T)
    PROVE  g[T] = h[T]
<1> DEFINE N == {n \in Nat : \A s \in SUBSET T : Cardinality(s) = n => g[s] = h[s]}
<1>1. \A s \in SUBSET T : s \in SUBSET S /\ g[s] = Fold(f, g, s) /\ h[s] = Fold(e, h, s)
  BY DEF Solves
<1>2. 0 \in N
  <2>1. \A s \in SUBSET T : Cardinality(s) = 0 => s = {}
    BY Subsets
  <2> QED
    BY <1>1, <2>1 DEF Fold
<1>3. ASSUME NEW n \in Nat, n \in N PROVE n + 1 \in N
  <2> SUFFICES ASSUME NEW s \in SUBSET T, Cardinality(s) = n + 1 PROVE g[s] = h[s]
    OBVIOUS
  <2>1. s # {}
    BY <1>1, Subsets
  <2>2. Taken(s) \in s /\ s \ {Taken(s)} \in SUBSET T /\ Cardinality(s \ {Taken(s)}) = n
    BY <1>1, <2>1, TakenIn, Subsets
  <2>3. g[s \ {Taken(s)}] = h[s \ {Taken(s)}]
    BY <1>3, <2>2
  <2> QED
    BY <1>1, <2>1, <2>2, <2>3 DEF Fold
<1>4. Cardinality(T) \in Nat
  BY Subsets
<1> HIDE DEF N
<1>5. Cardinality(T) \in N
  BY <1>2, <1>3, <1>4, Induction
<1> QED
  BY <1>5 DEF N

\* A fold of integers is one, whatever element is taken first.
AnyOrder(g, f, S) == \A s \in SUBSET S : g[s] \in Int /\ \A x \in s : g[s] = f[x] + g[s \ {x}]

LEMMA AnyFirst ==
    ASSUME NEW S, IsFiniteSet(S), NEW f, \A x \in S : f[x] \in Int,
           NEW g, Solves(g, f, S)
    PROVE  AnyOrder(g, f, S)
<1> DEFINE Good(s) == g[s] \in Int /\ \A x \in s : g[s] = f[x] + g[s \ {x}]
           N == {n \in Nat : \A s \in SUBSET S : Cardinality(s) <= n => Good(s)}
<1>1. \A s \in SUBSET S : g[s] = Fold(f, g, s)
  BY DEF Solves
<1>2. 0 \in N
  <2>1. \A s \in SUBSET S : Cardinality(s) <= 0 => s = {}
    BY Subsets
  <2>2. Good({})
    BY <1>1 DEF Fold
  <2> HIDE DEF Good
  <2> QED
    BY <2>1, <2>2
<1>3. ASSUME NEW n \in Nat, n \in N PROVE n + 1 \in N
  <2>0. Good({})
    BY <1>1 DEF Fold
  <2> SUFFICES ASSUME NEW s \in SUBSET S, Cardinality(s) <= n + 1, s # {} PROVE Good(s)
    <3> HIDE DEF Good
    <3> QED
      BY <2>0
  <2> DEFINE y == Taken(s)
  <2>1. /\ y \in s /\ f[y] \in Int
        /\ \A x \in s : s \ {x} \in SUBSET S /\ Cardinality(s \ {x}) <= n
    BY TakenIn, Subsets
  <2>2. \A x \in s : Good(s \ {x})
    BY <1>3, <2>1
  <2>3. g[s] = f[y] + g[s \ {y}]
    BY <1>1 DEF Fold
  <2>4. ASSUME NEW x \in s, x # y PROVE g[s] = f[x] + g[s \ {x}]
    <3>1. x \in s \ {y} /\ y \in s \ {x} /\ (s \ {y}) \ {x} = (s \ {x}) \ {y}
      BY <2>1, <2>4
    <3>2. /\ g[s \ {y}] = f[x] + g[(s \ {x}) \ {y}]
          /\ g[s \ {x}] = f[y] + g[(s \ {x}) \ {y}]
      BY <2>1, <2>2, <3>1
    <3>3. g[(s \ {x}) \ {y}] \in Int
      <4>1. Good(s \ {x})
        BY <2>2
      <4>2. \A t \in SUBSET S : Cardinality(t) <= n => g[t] \in Int
        BY <1>3
      <4>3. s \ {x} \in SUBSET S /\ Cardinality(s \ {x}) <= n
        BY <2>1
      <4>4. (s \ {x}) \ {y} \in SUBSET S /\ Cardinality((s \ {x}) \ {y}) = Cardinality(s \ {x}) - 1
        <5> DEFINE t == s \ {x}
        <5>1. t \in SUBSET S /\ y \in t
          BY <3>1, <4>3
        <5> HIDE DEF t
        <5>2. t \ {y} \in SUBSET S /\ Cardinality(t \ {y}) = Cardinality(t) - 1
          BY <5>1, Subsets
        <5> QED
          BY <5>2 DEF t
      <4>5. Cardinality(s \ {x}) \in Nat
        BY <4>3, Subsets
      <4> QED
        BY <4>2, <4>3, <4>4, <4>5
    <3>4. f[x] \in Int
      OBVIOUS
    <3> QED
      BY <2>1, <2>3, <3>2, <3>3, <3>4
  <2>5. g[s \ {y}] \in Int
    BY <2>1, <2>2
  <2>6. g[s] \in Int
    BY <2>1, <2>3, <2>5
  <2>7. \A x \in s : g[s] = f[x] + g[s \ {x}]
    BY <2>3, <2>4
  <2> QED
    BY <2>6, <2>7
<1>4. Cardinality(S) \in Nat
  BY Subsets
<1>5. Cardinality(S) \in N
  <2> HIDE DEF N
  <2> QED
    BY <1>2, <1>3, <1>4, Induction
<1> QED
  BY <1>5, Subsets DEF AnyOrder

-----------------------------------------------------------------------------
(* The sum of a function with a finite domain.                             *)

LEMMA SumEmpty == \A f : DOMAIN f = {} => SumFunction(f) = 0
<1> SUFFICES ASSUME NEW f, DOMAIN f = {} PROVE SumFunction(f) = 0
  OBVIOUS
<1>1. PICK g : Solves(g, f, DOMAIN f) /\ SumFunction(f) = g[DOMAIN f]
  BY FS_EmptySet, SumSolved
<1> QED
  BY <1>1 DEF Solves, Fold

\* Any element can be taken out of a sum.
LEMMA SumWithout ==
    ASSUME NEW f, IsFiniteSet(DOMAIN f), \A x \in DOMAIN f : f[x] \in Int, NEW x \in DOMAIN f
    PROVE  SumFunction(f) = f[x] + SumFunction([y \in DOMAIN f \ {x} |-> f[y]])
<1> DEFINE rest == [y \in DOMAIN f \ {x} |-> f[y]]
<1>1. PICK g : Solves(g, f, DOMAIN f) /\ SumFunction(f) = g[DOMAIN f]
  BY SumSolved
<1>2. IsFiniteSet(DOMAIN rest) /\ DOMAIN rest = DOMAIN f \ {x}
  BY FS_RemoveElement
<1>3. PICK h : Solves(h, rest, DOMAIN rest) /\ SumFunction(rest) = h[DOMAIN rest]
  BY <1>2, SumSolved
<1>4. g[DOMAIN f] = f[x] + g[DOMAIN f \ {x}]
  <2> DEFINE S == DOMAIN f
  <2>1. IsFiniteSet(S) /\ x \in S /\ Solves(g, f, S) /\ \A y \in S : f[y] \in Int
    BY <1>1
  <2> HIDE DEF S
  <2>2. AnyOrder(g, f, S)
    BY <2>1, AnyFirst
  <2> QED
    BY <2>1, <2>2 DEF AnyOrder, S
<1>5. g[DOMAIN f \ {x}] = h[DOMAIN f \ {x}]
  <2>1. \A y \in DOMAIN rest : f[y] = rest[y]
    OBVIOUS
  <2> HIDE DEF rest
  <2> QED
    BY <1>1, <1>2, <1>3, <2>1, SolutionsAgree
<1> QED
  BY <1>1, <1>2, <1>3, <1>4, <1>5

LEMMA SumInt ==
    ASSUME NEW f, IsFiniteSet(DOMAIN f), \A x \in DOMAIN f : f[x] \in Int
    PROVE  SumFunction(f) \in Int
<1>1. PICK g : Solves(g, f, DOMAIN f) /\ SumFunction(f) = g[DOMAIN f]
  BY SumSolved
<1> QED
  BY <1>1, AnyFirst DEF AnyOrder

\* A sum over one index more.
LEMMA SumAppend ==
    ASSUME NEW n \in Nat, NEW f, DOMAIN f = 1 .. n + 1, \A k \in 1 .. n + 1 : f[k] \in Int
    PROVE  SumFunction(f) = SumFunction([k \in 1 .. n |-> f[k]]) + f[n + 1]
<1>1. IsFiniteSet(DOMAIN f) /\ n + 1 \in DOMAIN f
  BY FS_Interval
<1>2. DOMAIN f \ {n + 1} = 1 .. n
  OBVIOUS
<1>3. SumFunction(f) = f[n + 1] + SumFunction([k \in 1 .. n |-> f[k]])
  BY <1>1, <1>2, SumWithout
<1>4. SumFunction([k \in 1 .. n |-> f[k]]) \in Int
  BY FS_Interval, SumInt
<1> QED
  BY <1>3, <1>4

\* Sums of one and of two terms.
LEMMA SumOne == ASSUME NEW f, DOMAIN f = {1}, f[1] \in Int PROVE SumFunction(f) = f[1]
<1>1. DOMAIN f = 1 .. 0 + 1 /\ \A k \in 1 .. 0 + 1 : f[k] \in Int
  OBVIOUS
<1>2. SumFunction(f) = SumFunction([k \in 1 .. 0 |-> f[k]]) + f[0 + 1]
  BY <1>1, SumAppend
<1>3. DOMAIN [k \in 1 .. 0 |-> f[k]] = {}
  OBVIOUS
<1>4. SumFunction([k \in 1 .. 0 |-> f[k]]) = 0
  BY <1>3, SumEmpty
<1> QED
  BY <1>2, <1>4

LEMMA SumTwo ==
    ASSUME NEW f, DOMAIN f = 1 .. 2, f[1] \in Int, f[2] \in Int
    PROVE  SumFunction(f) = f[1] + f[2]
<1> DEFINE e == [k \in 1 .. 1 |-> f[k]]
<1>1. DOMAIN f = 1 .. 1 + 1 /\ \A k \in 1 .. 1 + 1 : f[k] \in Int
  OBVIOUS
<1>2. SumFunction(f) = SumFunction(e) + f[1 + 1]
  BY <1>1, SumAppend
<1>3. DOMAIN e = {1} /\ e[1] = f[1]
  OBVIOUS
<1> HIDE DEF e
<1>4. SumFunction(e) = f[1]
  BY <1>3, SumOne
<1> QED
  BY <1>2, <1>4

\* A common factor can be taken out of a sum over places.
LEMMA SumScaled ==
    ASSUME NEW n \in Nat, NEW c \in Int, NEW f, \A k \in 1 .. n : f[k] \in Int
    PROVE  SumFunction([k \in 1 .. n |-> f[k] * c]) = SumFunction([k \in 1 .. n |-> f[k]]) * c
<1> DEFINE N == {m \in Nat : m <= n =>
                   /\ SumFunction([k \in 1 .. m |-> f[k]]) \in Int
                   /\ SumFunction([k \in 1 .. m |-> f[k] * c]) = SumFunction([k \in 1 .. m |-> f[k]]) * c}
<1>1. 0 \in N
  <2>1. 1 .. 0 = {}
    OBVIOUS
  <2>2. /\ SumFunction([k \in 1 .. 0 |-> f[k]]) = 0
        /\ SumFunction([k \in 1 .. 0 |-> f[k] * c]) = 0
    BY <2>1, SumEmpty
  <2> QED
    BY <2>2
<1>2. ASSUME NEW m \in Nat, m \in N PROVE m + 1 \in N
  <2> SUFFICES ASSUME m + 1 <= n
      PROVE  /\ SumFunction([k \in 1 .. m + 1 |-> f[k]]) \in Int
             /\ SumFunction([k \in 1 .. m + 1 |-> f[k] * c]) = SumFunction([k \in 1 .. m + 1 |-> f[k]]) * c
    BY DEF N
  <2> DEFINE plain(l) == [k \in 1 .. l |-> f[k]]
             scaled(l) == [k \in 1 .. l |-> f[k] * c]
  <2>1. \A k \in 1 .. m + 1 : f[k] \in Int
    OBVIOUS
  <2>2. \A k \in 1 .. m + 1 : f[k] * c \in Int
    BY <2>1
  <2>3. SumFunction(plain(m + 1)) = SumFunction(plain(m)) + f[m + 1]
    <3>1. SumFunction(plain(m + 1)) = SumFunction([k \in 1 .. m |-> plain(m + 1)[k]]) + plain(m + 1)[m + 1]
      <4> DEFINE g == plain(m + 1)
      <4>1. DOMAIN g = 1 .. m + 1 /\ \A k \in 1 .. m + 1 : g[k] \in Int
        BY <2>1
      <4> HIDE DEF g
      <4>2. SumFunction(g) = SumFunction([k \in 1 .. m |-> g[k]]) + g[m + 1]
        BY <4>1, SumAppend
      <4> QED
        BY <4>2 DEF g
    <3>2. [k \in 1 .. m |-> plain(m + 1)[k]] = plain(m) /\ plain(m + 1)[m + 1] = f[m + 1]
      OBVIOUS
    <3> QED
      BY <3>1, <3>2
  <2>4. SumFunction(scaled(m + 1)) = SumFunction(scaled(m)) + f[m + 1] * c
    <3>1. SumFunction(scaled(m + 1)) = SumFunction([k \in 1 .. m |-> scaled(m + 1)[k]]) + scaled(m + 1)[m + 1]
      <4> DEFINE g == scaled(m + 1)
      <4>1. DOMAIN g = 1 .. m + 1 /\ \A k \in 1 .. m + 1 : g[k] \in Int
        BY <2>2
      <4> HIDE DEF g
      <4>2. SumFunction(g) = SumFunction([k \in 1 .. m |-> g[k]]) + g[m + 1]
        BY <4>1, SumAppend
      <4> QED
        BY <4>2 DEF g
    <3>2. [k \in 1 .. m |-> scaled(m + 1)[k]] = scaled(m) /\ scaled(m + 1)[m + 1] = f[m + 1] * c
      OBVIOUS
    <3> QED
      BY <3>1, <3>2
  <2>5. SumFunction(plain(m)) \in Int /\ SumFunction(scaled(m)) = SumFunction(plain(m)) * c
    BY <1>2 DEF N
  <2> HIDE DEF plain, scaled
  <2>6. PICK s \in Int, x \in Int : s = SumFunction(plain(m)) /\ x = f[m + 1]
    BY <2>1, <2>5
  <2>7. (s + x) * c = s * c + x * c
    OBVIOUS
  <2>8. SumFunction(plain(m + 1)) \in Int /\ SumFunction(scaled(m + 1)) = SumFunction(plain(m + 1)) * c
    BY <2>3, <2>4, <2>5, <2>6, <2>7
  <2> QED
    BY <2>8 DEF plain, scaled
<1> HIDE DEF N
<1>3. n \in N
  BY <1>1, <1>2, Induction
<1> QED
  BY <1>3 DEF N

\* Naturals that sum up to zero are all zero.
LEMMA SumNat ==
    ASSUME NEW f, IsFiniteSet(DOMAIN f), \A x \in DOMAIN f : f[x] \in Nat
    PROVE  SumFunction(f) \in Nat
<1> DEFINE N == {n \in Nat : \A S : IsFiniteSet(S) /\ Cardinality(S) = n =>
                    \A e : DOMAIN e = S /\ (\A x \in S : e[x] \in Nat) => SumFunction(e) \in Nat}
<1>1. 0 \in N
  BY FS_EmptySet, SumEmpty
<1>2. ASSUME NEW n \in Nat, n \in N PROVE n + 1 \in N
  <2> SUFFICES ASSUME NEW S, IsFiniteSet(S), Cardinality(S) = n + 1,
                      NEW e, DOMAIN e = S, \A x \in S : e[x] \in Nat
      PROVE  SumFunction(e) \in Nat
    OBVIOUS
  <2>1. PICK x : x \in S
    BY FS_EmptySet
  <2> DEFINE rest == [y \in S \ {x} |-> e[y]]
  <2>2. IsFiniteSet(S \ {x}) /\ Cardinality(S \ {x}) = n
    <3>1. Cardinality(S \ {x}) = Cardinality(S) - 1
      BY <2>1, FS_RemoveElement
    <3> QED
      BY <2>1, <3>1, FS_RemoveElement
  <2>3. SumFunction(rest) \in Nat
    BY <1>2, <2>2
  <2>4. SumFunction(e) = e[x] + SumFunction(rest)
    BY <2>1, SumWithout
  <2> QED
    BY <2>1, <2>3, <2>4
<1>3. Cardinality(DOMAIN f) \in Nat
  BY FS_CardinalityType
<1>4. Cardinality(DOMAIN f) \in N
  <2> HIDE DEF N
  <2> QED
    BY <1>1, <1>2, <1>3, Induction
<1> QED
  BY <1>4

LEMMA SumZero ==
    ASSUME NEW f, IsFiniteSet(DOMAIN f), \A x \in DOMAIN f : f[x] \in Nat,
           SumFunction(f) = 0, NEW x \in DOMAIN f
    PROVE  f[x] = 0
<1> DEFINE rest == [y \in DOMAIN f \ {x} |-> f[y]]
<1>1. SumFunction(f) = f[x] + SumFunction(rest)
  BY SumWithout
<1>2. SumFunction(rest) \in Nat
  BY FS_RemoveElement, SumNat
<1> QED
  BY <1>1, <1>2

\* A sum of naturals over part of the places, of at most as much in each, is at
\* most as much.
LEMMA SumWithin ==
    ASSUME NEW f, IsFiniteSet(DOMAIN f), \A x \in DOMAIN f : f[x] \in Nat,
           NEW g, DOMAIN g \subseteq DOMAIN f, \A x \in DOMAIN g : g[x] \in Nat /\ g[x] <= f[x]
    PROVE  SumFunction(g) \in Nat /\ SumFunction(f) \in Nat /\ SumFunction(g) <= SumFunction(f)
<1> DEFINE Within(e, h) == /\ \A x \in DOMAIN e : e[x] \in Nat
                           /\ DOMAIN h \subseteq DOMAIN e
                           /\ \A x \in DOMAIN h : h[x] \in Nat /\ h[x] <= e[x]
           N == {n \in Nat : \A e, h : IsFiniteSet(DOMAIN e) /\ Cardinality(DOMAIN e) = n /\ Within(e, h)
                               => SumFunction(h) <= SumFunction(e)}
<1>1. 0 \in N
  <2> SUFFICES ASSUME NEW e, NEW h, IsFiniteSet(DOMAIN e), Cardinality(DOMAIN e) = 0, Within(e, h)
      PROVE  SumFunction(h) <= SumFunction(e)
    OBVIOUS
  <2>1. DOMAIN e = {} /\ DOMAIN h = {}
    BY FS_EmptySet
  <2>2. SumFunction(e) = 0 /\ SumFunction(h) = 0
    BY <2>1, SumEmpty
  <2> QED
    BY <2>2
<1>2. ASSUME NEW n \in Nat, n \in N PROVE n + 1 \in N
  <2> SUFFICES ASSUME NEW e, NEW h, IsFiniteSet(DOMAIN e), Cardinality(DOMAIN e) = n + 1, Within(e, h)
      PROVE  SumFunction(h) <= SumFunction(e)
    OBVIOUS
  <2>1. PICK x : x \in DOMAIN e
    BY FS_EmptySet
  <2> DEFINE rest(k) == [y \in DOMAIN k \ {x} |-> k[y]]
  <2>2. IsFiniteSet(DOMAIN e \ {x}) /\ Cardinality(DOMAIN e \ {x}) = n
    <3>1. Cardinality(DOMAIN e \ {x}) = Cardinality(DOMAIN e) - 1
      BY <2>1, FS_RemoveElement
    <3> QED
      BY <2>1, <3>1, FS_RemoveElement
  <2>3. SumFunction(e) = e[x] + SumFunction(rest(e)) /\ SumFunction(rest(e)) \in Nat
    <3>1. SumFunction(e) = e[x] + SumFunction(rest(e))
      BY <2>1, SumWithout
    <3>2. SumFunction(rest(e)) \in Nat
      BY <2>2, SumNat
    <3> QED
      BY <3>1, <3>2
  <2>4. IsFiniteSet(DOMAIN h) /\ SumFunction(h) \in Nat
    BY FS_Subset, SumNat
  <2>5. CASE x \in DOMAIN h
    <3>1. SumFunction(h) = h[x] + SumFunction(rest(h)) /\ SumFunction(rest(h)) \in Nat
      <4>1. SumFunction(h) = h[x] + SumFunction(rest(h))
        BY <2>4, <2>5, SumWithout
      <4>2. SumFunction(rest(h)) \in Nat
        BY <2>4, FS_RemoveElement, SumNat
      <4> QED
        BY <4>1, <4>2
    <3>2. DOMAIN rest(e) = DOMAIN e \ {x} /\ Within(rest(e), rest(h))
      OBVIOUS
    <3>3. SumFunction(rest(h)) <= SumFunction(rest(e))
      <4> HIDE DEF rest, Within
      <4> QED
        BY <1>2, <2>2, <3>2
    <3>4. h[x] \in Nat /\ e[x] \in Nat /\ h[x] <= e[x]
      BY <2>5
    <3> QED
      BY <2>3, <3>1, <3>3, <3>4
  <2>6. CASE x \notin DOMAIN h
    <3>1. DOMAIN rest(e) = DOMAIN e \ {x} /\ Within(rest(e), h)
      BY <2>6
    <3>2. SumFunction(h) <= SumFunction(rest(e))
      <4> HIDE DEF rest, Within
      <4> QED
        BY <1>2, <2>2, <3>1
    <3> QED
      BY <2>1, <2>3, <2>4, <3>2
  <2> QED
    BY <2>5, <2>6
<1>3. Cardinality(DOMAIN f) \in N
  <2>1. Cardinality(DOMAIN f) \in Nat
    BY FS_CardinalityType
  <2> HIDE DEF N
  <2> QED
    BY <1>1, <1>2, <2>1, Induction
<1>4. IsFiniteSet(DOMAIN g)
  BY FS_Subset
<1> QED
  BY <1>3, <1>4, SumNat

\* A sum of zeros.
LEMMA SumOfZeros ==
    ASSUME NEW f, IsFiniteSet(DOMAIN f), \A x \in DOMAIN f : f[x] = 0
    PROVE  SumFunction(f) = 0
<1> DEFINE N == {n \in Nat : \A e : IsFiniteSet(DOMAIN e) /\ Cardinality(DOMAIN e) = n
                               /\ (\A x \in DOMAIN e : e[x] = 0) => SumFunction(e) = 0}
<1>1. 0 \in N
  BY FS_EmptySet, SumEmpty
<1>2. ASSUME NEW n \in Nat, n \in N PROVE n + 1 \in N
  <2> SUFFICES ASSUME NEW e, IsFiniteSet(DOMAIN e), Cardinality(DOMAIN e) = n + 1,
                      \A x \in DOMAIN e : e[x] = 0
      PROVE  SumFunction(e) = 0
    OBVIOUS
  <2>1. PICK x : x \in DOMAIN e
    BY FS_EmptySet
  <2> DEFINE rest == [y \in DOMAIN e \ {x} |-> e[y]]
  <2>2. IsFiniteSet(DOMAIN rest) /\ Cardinality(DOMAIN rest) = n
    <3>1. Cardinality(DOMAIN e \ {x}) = Cardinality(DOMAIN e) - 1
      BY <2>1, FS_RemoveElement
    <3> QED
      BY <2>1, <3>1, FS_RemoveElement
  <2>3. SumFunction(rest) = 0
    <3>1. \A y \in DOMAIN rest : rest[y] = 0
      OBVIOUS
    <3> HIDE DEF rest
    <3> QED
      BY <1>2, <2>2, <3>1
  <2>4. SumFunction(e) = e[x] + SumFunction(rest)
    BY <2>1, SumWithout
  <2> QED
    BY <2>1, <2>3, <2>4
<1>3. Cardinality(DOMAIN f) \in N
  <2>1. Cardinality(DOMAIN f) \in Nat
    BY FS_CardinalityType
  <2> HIDE DEF N
  <2> QED
    BY <1>1, <1>2, <2>1, Induction
<1> QED
  BY <1>3

\* A sum does not change when its places are counted from one lower.
LEMMA SumShifted ==
    ASSUME NEW n \in Nat, NEW f, \A k \in 2 .. n + 1 : f[k] \in Int
    PROVE  SumFunction([k \in 2 .. n + 1 |-> f[k]]) = SumFunction([k \in 1 .. n |-> f[k + 1]])
<1> DEFINE upper(m) == [k \in 2 .. m + 1 |-> f[k]]
           lower(m) == [k \in 1 .. m |-> f[k + 1]]
           N == {m \in Nat : m <= n => SumFunction(upper(m)) = SumFunction(lower(m))}
<1>1. 0 \in N
  <2>1. 2 .. 0 + 1 = {} /\ 1 .. 0 = {}
    OBVIOUS
  <2>2. SumFunction(upper(0)) = 0 /\ SumFunction(lower(0)) = 0
    BY <2>1, SumEmpty
  <2> QED
    BY <2>2
<1>2. ASSUME NEW m \in Nat, m \in N PROVE m + 1 \in N
  <2> SUFFICES ASSUME m + 1 <= n PROVE SumFunction(upper(m + 1)) = SumFunction(lower(m + 1))
    OBVIOUS
  <2>1. SumFunction(upper(m + 1)) = f[m + 2] + SumFunction(upper(m))
    <3> DEFINE g == upper(m + 1)
    <3>1. DOMAIN g = 2 .. m + 2 /\ (\A k \in 2 .. m + 2 : g[k] = f[k] /\ g[k] \in Int) /\ m + 2 \in 2 .. m + 2
      OBVIOUS
    <3>2. (2 .. m + 2) \ {m + 2} = 2 .. m + 1
      OBVIOUS
    <3>3. upper(m) = [k \in 2 .. m + 1 |-> g[k]]
      OBVIOUS
    <3> HIDE DEF g, upper
    <3>4. SumFunction(g) = g[m + 2] + SumFunction([k \in 2 .. m + 1 |-> g[k]])
      <4>1. IsFiniteSet(DOMAIN g) /\ (\A k \in DOMAIN g : g[k] \in Int) /\ m + 2 \in DOMAIN g
        BY <3>1, FS_Interval
      <4>2. DOMAIN g \ {m + 2} = 2 .. m + 1
        BY <3>1, <3>2
      <4> QED
        BY <4>1, <4>2, SumWithout
    <3> QED
      BY <3>1, <3>3, <3>4 DEF g
  <2>2. SumFunction(lower(m + 1)) = SumFunction(lower(m)) + f[m + 2]
    <3> DEFINE g == lower(m + 1)
    <3>1. DOMAIN g = 1 .. m + 1 /\ (\A k \in 1 .. m + 1 : g[k] = f[k + 1] /\ g[k] \in Int) /\ g[m + 1] = f[m + 2]
      OBVIOUS
    <3>2. lower(m) = [k \in 1 .. m |-> g[k]]
      OBVIOUS
    <3> HIDE DEF g, lower
    <3>3. SumFunction(g) = SumFunction([k \in 1 .. m |-> g[k]]) + g[m + 1]
      BY <3>1, SumAppend
    <3> QED
      BY <3>1, <3>2, <3>3 DEF g
  <2>3. SumFunction(upper(m)) = SumFunction(lower(m))
    BY <1>2
  <2>4. SumFunction(upper(m)) \in Int
    <3>1. DOMAIN upper(m) = 2 .. m + 1 /\ \A k \in 2 .. m + 1 : upper(m)[k] \in Int
      OBVIOUS
    <3> HIDE DEF upper
    <3> QED
      BY <3>1, FS_Interval, SumInt
  <2>5. f[m + 2] \in Int
    OBVIOUS
  <2> HIDE DEF upper, lower
  <2> QED
    BY <2>1, <2>2, <2>3, <2>4, <2>5
<1>3. n \in N
  <2> HIDE DEF N
  <2> QED
    BY <1>1, <1>2, Induction
<1> QED
  BY <1>3

\* The differences from one place to the next add up to that of the ends.
LEMMA SumTelescopes ==
    ASSUME NEW lo \in Nat, NEW n \in Nat, NEW s, \A k \in lo .. lo + n : s[k] \in Int
    PROVE  SumFunction([k \in lo + 1 .. lo + n |-> s[k] - s[k - 1]]) = s[lo + n] - s[lo]
<1> DEFINE steps(m) == [k \in lo + 1 .. lo + m |-> s[k] - s[k - 1]]
           N == {m \in Nat : m <= n => SumFunction(steps(m)) = s[lo + m] - s[lo]}
<1>1. 0 \in N
  <2>1. lo + 1 .. lo + 0 = {} /\ s[lo + 0] = s[lo] /\ s[lo] \in Int
    OBVIOUS
  <2>2. SumFunction(steps(0)) = 0
    BY <2>1, SumEmpty
  <2> QED
    BY <2>1, <2>2
<1>2. ASSUME NEW m \in Nat, m \in N PROVE m + 1 \in N
  <2> SUFFICES ASSUME m + 1 <= n PROVE SumFunction(steps(m + 1)) = s[lo + m + 1] - s[lo]
    OBVIOUS
  <2> DEFINE last == lo + m + 1
             g == steps(m + 1)
  <2>1. /\ last \in lo + 1 .. last /\ (lo + 1 .. last) \ {last} = lo + 1 .. lo + m
        /\ lo + (m + 1) = last /\ last - 1 = lo + m
    OBVIOUS
  <2>2. s[lo] \in Int /\ s[lo + m] \in Int /\ s[last] \in Int
    OBVIOUS
  <2>3. /\ DOMAIN g = lo + 1 .. last /\ g[last] = s[last] - s[lo + m]
        /\ \A k \in lo + 1 .. last : g[k] = s[k] - s[k - 1] /\ g[k] \in Int
    <3>1. \A k \in lo + 1 .. last : s[k] \in Int /\ s[k - 1] \in Int
      OBVIOUS
    <3> QED
      BY <2>1, <3>1
  <2>4. steps(m) = [k \in lo + 1 .. lo + m |-> g[k]]
    BY <2>1, <2>3
  <2>5. IsFiniteSet(lo + 1 .. last)
    <3>1. lo + 1 \in Int /\ last \in Int
      OBVIOUS
    <3> HIDE DEF last
    <3> QED
      BY <3>1, FS_Interval
  <2>6. SumFunction(steps(m)) = s[lo + m] - s[lo]
    BY <1>2
  <2> HIDE DEF g, steps, last
  <2>7. SumFunction(g) = g[last] + SumFunction([k \in lo + 1 .. lo + m |-> g[k]])
    <3>1. last \in DOMAIN g /\ IsFiniteSet(DOMAIN g) /\ \A k \in DOMAIN g : g[k] \in Int
      BY <2>1, <2>3, <2>5
    <3>2. DOMAIN g \ {last} = lo + 1 .. lo + m
      BY <2>1, <2>3
    <3> QED
      BY <3>1, <3>2, SumWithout
  <2> QED
    BY <2>2, <2>3, <2>4, <2>6, <2>7 DEF g, last
<1>3. n \in N
  <2> HIDE DEF N
  <2> QED
    BY <1>1, <1>2, Induction
<1> QED
  BY <1>3

\* A set of numbers up to n has a smallest and a largest one.
LEMMA Extremes ==
    ASSUME NEW n \in Nat, NEW S \in SUBSET (1 .. n), S # {}
    PROVE  \E lo \in S, hi \in S : \A l \in S : lo <= l /\ l <= hi
<1> DEFINE Bounded(T) == \E lo \in T, hi \in T : \A l \in T : lo <= l /\ l <= hi
           N == {m \in Nat : \A T \in SUBSET (1 .. m) : T # {} => Bounded(T)}
<1>1. 0 \in N
  <2>1. 1 .. 0 = {}
    OBVIOUS
  <2> QED
    BY <2>1
<1>2. ASSUME NEW m \in Nat, m \in N PROVE m + 1 \in N
  <2> SUFFICES ASSUME NEW T \in SUBSET (1 .. m + 1), T # {} PROVE Bounded(T)
    OBVIOUS
  <2> DEFINE rest == T \ {m + 1}
  <2>1. rest \in SUBSET (1 .. m)
    OBVIOUS
  <2>2. CASE rest = {}
    <3>1. m + 1 \in T /\ \A l \in T : l = m + 1
      BY <2>2
    <3> QED
      BY <3>1
  <2>3. CASE rest # {}
    <3>1. PICK lo \in rest, hi \in rest : \A l \in rest : lo <= l /\ l <= hi
      BY <1>2, <2>1, <2>3
    <3>2. CASE m + 1 \in T
      <4>1. \A l \in T : lo <= l /\ l <= m + 1
        BY <3>1
      <4> QED
        BY <3>1, <3>2, <4>1
    <3>3. CASE m + 1 \notin T
      <4>1. \A l \in T : lo <= l /\ l <= hi
        BY <3>1, <3>3
      <4> QED
        BY <3>1, <4>1
    <3> QED
      BY <3>2, <3>3
  <2> QED
    BY <2>2, <2>3
<1>3. n \in N
  <2> HIDE DEF N
  <2> QED
    BY <1>1, <1>2, Induction
<1> QED
  BY <1>3

=============================================================================
