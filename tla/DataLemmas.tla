----------------------------- MODULE DataLemmas -----------------------------
(***************************************************************************)
(* Facts about numbers and finite sets that several proofs rest on.  They  *)
(* are proved from a least counterexample, which stands for induction.     *)
(***************************************************************************)
EXTENDS Integers, FiniteSetsExt, FiniteSetTheorems, WellFoundedInduction, TLAPS

\* Most steps are first-order; the few that calculate name SMT.
USE Zenon

-----------------------------------------------------------------------------
(* Least elements *)

\* A set of natural numbers has a least element.
LEMMA LeastNumber ==
    ASSUME NEW T, T \subseteq Nat, T # {}
    PROVE  \E x \in T : \A y \in T : x <= y
<1> DEFINE R == {ss \in Nat \X Nat : ss[1] < ss[2]}
<1>1. IsWellFoundedOn(R, Nat)
  BY NatLessThanWellFounded DEF OpToRel
<1> HIDE DEF R
<1>2. \E x \in T : \A y \in T : ~ (<<y, x>> \in R)
  BY <1>1, WFMin
<1>3. PICK x \in T : \A y \in T : ~ (<<y, x>> \in R)
  BY <1>2
<1>4. \A z, y \in Nat : y < z => <<y, z>> \in R
  BY DEF R
<1>5. \A y \in T : ~ (y < x)
  BY <1>3, <1>4
<1>6. \A y \in T : x <= y
  BY <1>5, SMT
<1> QED
  BY <1>6

\* Induction over the natural numbers, for a set.
LEMMA Induction ==
    ASSUME NEW S, 0 \in S, \A n \in Nat : n \in S => n + 1 \in S
    PROVE  Nat \subseteq S
<1> SUFFICES ASSUME Nat \ S # {} PROVE FALSE
  OBVIOUS
<1>1. PICK x \in Nat \ S : \A y \in Nat \ S : x <= y
  BY LeastNumber
<1>2. x - 1 \in Nat
  BY <1>1, SMT
<1>3. x - 1 \notin S
  BY <1>1, <1>2, SMT
<1> QED
  BY <1>1, <1>2, <1>3, SMT

\* A finite set has a minimal element in every strict partial order on it.
LEMMA Minimal ==
    ASSUME NEW S, IsFiniteSet(S), S # {}, NEW below \in [S -> SUBSET S],
           \A x \in S : x \notin below[x],
           \A x, y \in S : y \in below[x] => below[y] \subseteq below[x]
    PROVE  \E x \in S : below[x] = {}
<1> DEFINE size == [x \in S |-> Cardinality(below[x])]
           T == {size[x] : x \in S}
<1>1. \A x \in S : IsFiniteSet(below[x]) /\ Cardinality(below[x]) \in Nat
  BY FS_Subset, FS_CardinalityType
<1>2. \A x \in S : size[x] = Cardinality(below[x])
  OBVIOUS
<1> HIDE DEF size
<1>3. T \subseteq Nat /\ T # {}
  BY <1>1, <1>2, SMT
<1>4. PICK k \in T : \A m \in T : k <= m
  BY <1>3, LeastNumber
<1>5. PICK x \in S : size[x] = k
  BY <1>4
<1>6. SUFFICES ASSUME NEW y \in below[x] PROVE FALSE
  BY SMT
<1>7. y \in S /\ below[y] \in SUBSET (below[x] \ {y})
  BY <1>6
<1>8. /\ Cardinality(below[x] \ {y}) = Cardinality(below[x]) - 1
      /\ IsFiniteSet(below[x] \ {y})
  BY <1>1, <1>6, FS_RemoveElement
<1>9. Cardinality(below[y]) <= Cardinality(below[x] \ {y})
  BY <1>7, <1>8, FS_Subset
<1>10. size[x] <= size[y]
  BY <1>4, <1>5, <1>7, SMT
<1> QED
  BY <1>1, <1>2, <1>7, <1>8, <1>9, <1>10, SMT

\* A function on a finite set has a greatest and a least value.
LEMMA Greatest ==
    ASSUME NEW S, IsFiniteSet(S), S # {}, NEW f \in [S -> Int]
    PROVE  \E x \in S : \A y \in S : f[y] <= f[x]
<1> DEFINE below == [x \in S |-> {y \in S : f[y] > f[x]}]
<1>1. \A x, y \in S : y \in below[x] <=> f[y] > f[x]
  OBVIOUS
<1>2. below \in [S -> SUBSET S]
  OBVIOUS
<1> HIDE DEF below
<1>3. \A x \in S : x \notin below[x]
  BY <1>1, SMT
<1>4. \A x, y \in S : y \in below[x] => below[y] \subseteq below[x]
  BY <1>1, <1>2, SMT
<1>5. PICK x \in S : below[x] = {}
  BY <1>2, <1>3, <1>4, Minimal
<1> QED
  BY <1>1, <1>5, SMT

LEMMA Least ==
    ASSUME NEW S, IsFiniteSet(S), S # {}, NEW f \in [S -> Int]
    PROVE  \E x \in S : \A y \in S : f[x] <= f[y]
<1> DEFINE g == [x \in S |-> - f[x]]
<1>1. g \in [S -> Int] /\ \A x \in S : g[x] = - f[x]
  BY SMT
<1> HIDE DEF g
<1>2. PICK x \in S : \A y \in S : g[y] <= g[x]
  BY <1>1, Greatest
<1> QED
  BY <1>1, <1>2, SMT

\* Max and Min of a finite set of numbers are what they say.
LEMMA MaxIsMax ==
    ASSUME NEW S \in SUBSET Int, IsFiniteSet(S), S # {}
    PROVE  Max(S) \in S /\ \A y \in S : y <= Max(S)
<1> DEFINE f == [x \in S |-> x]
<1>1. f \in [S -> Int]
  OBVIOUS
<1>2. \A x \in S : f[x] = x
  OBVIOUS
<1> HIDE DEF f
<1>3. PICK x \in S : \A y \in S : f[y] <= f[x]
  BY <1>1, Greatest
<1>4. \A y \in S : y <= x
  BY <1>2, <1>3
<1>5. \A y \in S : x >= y
  BY <1>4
<1>6. Max(S) \in S /\ \A y \in S : Max(S) >= y
  BY <1>5 DEF Max
<1> QED
  BY <1>6

LEMMA MinIsMin ==
    ASSUME NEW S \in SUBSET Int, IsFiniteSet(S), S # {}
    PROVE  Min(S) \in S /\ \A y \in S : Min(S) <= y
<1> DEFINE f == [x \in S |-> x]
<1>1. f \in [S -> Int]
  OBVIOUS
<1>2. \A x \in S : f[x] = x
  OBVIOUS
<1> HIDE DEF f
<1>3. PICK x \in S : \A y \in S : f[x] <= f[y]
  BY <1>1, Least
<1>4. \A y \in S : x <= y
  BY <1>2, <1>3
<1> QED
  BY <1>4 DEF Min

\* The image of a finite set is finite.
LEMMA FiniteImage ==
    ASSUME NEW S, IsFiniteSet(S), NEW f, DOMAIN f = S, f = [x \in S |-> f[x]]
    PROVE  IsFiniteSet({f[x] : x \in S})
<1> DEFINE T == {f[x] : x \in S}
<1>1. f \in [S -> T]
  OBVIOUS
<1>2. \A t \in T : \E x \in S : f[x] = t
  OBVIOUS
<1> HIDE DEF T
<1>3. f \in Surjection(S, T)
  BY <1>1, <1>2 DEF Surjection
<1>4. IsFiniteSet(T)
  BY <1>3, FS_Surjection
<1> QED BY <1>4 DEF T

LEMMA FinitePair ==
    ASSUME NEW a, NEW b
    PROVE  IsFiniteSet({a, b})
<1>1. IsFiniteSet({a})
  BY FS_Singleton
<1>2. IsFiniteSet({a} \cup {b})
  BY <1>1, FS_AddElement
<1>3. {a} \cup {b} = {a, b}
  OBVIOUS
<1> QED BY <1>2, <1>3

LEMMA FiniteProduct ==
    ASSUME NEW S, IsFiniteSet(S), NEW T, IsFiniteSet(T)
    PROVE  IsFiniteSet(S \X T)
BY FS_Product

-----------------------------------------------------------------------------
(* Sums *)

\* g gives the sum of f over every subset of D, element by element.
IsSum(g, f, D) ==
    /\ g \in [SUBSET D -> Int]
    /\ g[{}] = 0
    /\ \A s \in SUBSET D : \A y \in s : g[s] = f[y] + g[s \ {y}]

\* The subsets of D with at most n elements.
Small(D, n) == {s \in SUBSET D : Cardinality(s) <= n}

\* Removing an element from a small subset leaves a smaller one.
LEMMA SmallLess ==
    ASSUME NEW D, IsFiniteSet(D), NEW n \in Nat,
           NEW s \in Small(D, n + 1), NEW x \in s
    PROVE  s \ {x} \in Small(D, n)
<1>1. IsFiniteSet(s) /\ Cardinality(s) \in Nat
  BY FS_Subset, FS_CardinalityType DEF Small
<1>2. Cardinality(s \ {x}) = Cardinality(s) - 1
  BY <1>1, FS_RemoveElement
<1> QED
  BY <1>1, <1>2, SMT DEF Small

\* The smallest and all the subsets.
LEMMA SmallRange ==
    ASSUME NEW D, IsFiniteSet(D)
    PROVE  /\ Small(D, 0) = {{}}
           /\ Cardinality(D) \in Nat /\ Small(D, Cardinality(D)) = SUBSET D
           /\ \A n \in Nat : Small(D, n) \subseteq Small(D, n + 1)
<1>1. \A s \in SUBSET D : /\ IsFiniteSet(s) /\ Cardinality(s) \in Nat
                          /\ Cardinality(s) <= Cardinality(D)
                          /\ Cardinality(s) = 0 <=> s = {}
  BY FS_Subset, FS_CardinalityType, FS_EmptySet
<1>2. Small(D, 0) = {{}}
  <2>1. {} \in SUBSET D
    OBVIOUS
  <2> QED
    BY <1>1, <2>1, SMT DEF Small
<1>3. Cardinality(D) \in Nat /\ Small(D, Cardinality(D)) = SUBSET D
  BY <1>1, FS_CardinalityType DEF Small
<1>4. \A n \in Nat : Small(D, n) \subseteq Small(D, n + 1)
  BY <1>1, SMT DEF Small
<1> QED
  BY <1>2, <1>3, <1>4

\* One step of the recursion that SumFunction folds with.
SumStep(g, f, s) ==
    IF s = {} THEN 0
    ELSE LET x == CHOOSE y \in s : TRUE IN f[x] + g[s \ {x}]

\* The recursion has a solution on the small subsets, hence on all of them.
LEMMA SumOnSmall ==
    ASSUME NEW D, IsFiniteSet(D), NEW f \in [D -> Int], NEW n \in Nat
    PROVE  \E g \in [Small(D, n) -> Int] :
              \A s \in Small(D, n) : g[s] = SumStep(g, f, s)
<1> DEFINE Good(k, g) == \A s \in Small(D, k) : g[s] = SumStep(g, f, s)
           S == {k \in Nat : \E g \in [Small(D, k) -> Int] : Good(k, g)}
<1>1. 0 \in S
  <2> DEFINE g == [s \in Small(D, 0) |-> 0]
  <2>1. g \in [Small(D, 0) -> Int]
    BY SMT
  <2>2. Good(0, g)
    BY SmallRange DEF SumStep
  <2> QED
    BY <2>1, <2>2
<1>2. ASSUME NEW k \in Nat, k \in S PROVE k + 1 \in S
  <2>1. PICK g \in [Small(D, k) -> Int] : Good(k, g)
    BY <1>2
  <2> DEFINE h == [s \in Small(D, k + 1) |-> SumStep(g, f, s)]
  <2>2. \A s \in Small(D, k + 1) : h[s] = SumStep(g, f, s)
    OBVIOUS
  <2>3. \A s \in Small(D, k + 1) : s # {} =>
           /\ (CHOOSE y \in s : TRUE) \in D
           /\ s \ {CHOOSE y \in s : TRUE} \in Small(D, k)
    <3> SUFFICES ASSUME NEW s \in Small(D, k + 1), s # {}
                 PROVE  /\ (CHOOSE y \in s : TRUE) \in D
                        /\ s \ {CHOOSE y \in s : TRUE} \in Small(D, k)
      OBVIOUS
    <3>1. (CHOOSE y \in s : TRUE) \in s
      OBVIOUS
    <3> QED
      BY <3>1, SmallLess DEF Small
  <2>4. \A s \in Small(D, k + 1) : SumStep(g, f, s) \in Int
    BY <2>3, SMT DEF SumStep
  <2>5. h \in [Small(D, k + 1) -> Int]
    BY <2>4
  <2>6. \A s \in Small(D, k) : h[s] = g[s]
    BY <2>1, <2>2, SmallRange
  <2> HIDE DEF h
  <2>7. \A s \in Small(D, k + 1) : SumStep(h, f, s) = SumStep(g, f, s)
    BY <2>3, <2>6, SMT DEF SumStep
  <2>8. Good(k + 1, h)
    BY <2>2, <2>7
  <2> HIDE DEF Good
  <2> QED
    BY <2>5, <2>8, SMT
<1> HIDE DEF S
<1>3. n \in S
  BY <1>1, <1>2, Induction
<1> QED
  BY <1>3 DEF S

\* SumFunction is that solution at the whole domain.
LEMMA SumUnfolds ==
    ASSUME NEW D, IsFiniteSet(D), NEW f \in [D -> Int]
    PROVE  \E g : /\ g = [s \in SUBSET D |-> g[s]]
                 /\ SumFunction(f) = g[D]
                 /\ \A s \in SUBSET D : g[s] = SumStep(g, f, s)
<1> DEFINE Rec(g) == [s \in SUBSET D |->
                        IF s = {} THEN 0
                        ELSE LET x == CHOOSE y \in s : TRUE
                             IN  f[x] + g[s \ {x}]]
           it == CHOOSE g : g = Rec(g)
<1>1. PICK g \in [SUBSET D -> Int] :
              \A s \in SUBSET D : g[s] = SumStep(g, f, s)
  <2>1. \E g \in [Small(D, Cardinality(D)) -> Int] :
           \A s \in Small(D, Cardinality(D)) : g[s] = SumStep(g, f, s)
    BY SmallRange, SumOnSmall, SMT
  <2> QED
    BY <2>1, SmallRange
<1>2. g = Rec(g)
  <2>1. \A s \in SUBSET D : g[s] = Rec(g)[s]
    BY <1>1 DEF SumStep
  <2>2. DOMAIN Rec(g) = SUBSET D /\ DOMAIN g = SUBSET D
    OBVIOUS
  <2>3. g = [s \in SUBSET D |-> g[s]] /\ Rec(g) = [s \in SUBSET D |-> Rec(g)[s]]
    BY SMT
  <2> HIDE DEF Rec
  <2> QED
    BY <2>1, <2>3
<1>3. it = Rec(it)
  BY <1>2
<1>4. SumFunction(f) = it[D]
  BY DEF SumFunction, SumFunctionOnSet, FoldFunctionOnSet, MapThenFoldSet
<1>5. \A s \in SUBSET D : it[s] = SumStep(it, f, s)
  BY <1>3 DEF SumStep
<1>6. it = [s \in SUBSET D |-> it[s]]
  <2>1. \A h : Rec(h) = [s \in SUBSET D |-> Rec(h)[s]]
    BY SMT
  <2> HIDE DEF it, Rec
  <2> QED
    BY <1>3, <2>1
<1> HIDE DEF it
<1> QED
  BY <1>4, <1>5, <1>6

\* The element taken off first does not matter.
LEMMA SumAnyOrder ==
    ASSUME NEW D, IsFiniteSet(D), NEW f \in [D -> Int],
           NEW g, g = [s \in SUBSET D |-> g[s]],
           \A s \in SUBSET D : g[s] = SumStep(g, f, s)
    PROVE  IsSum(g, f, D)
<1> DEFINE Good(s) == /\ g[s] \in Int
                      /\ \A y \in s : g[s] = f[y] + g[s \ {y}]
           S == {k \in Nat : \A s \in Small(D, k) : Good(s)}
<1>1. {} \in SUBSET D /\ g[{}] = 0
  BY DEF SumStep
<1>2. 0 \in S
  <2>1. Good({})
    BY <1>1, SMT
  <2> HIDE DEF Good
  <2>2. \A s \in Small(D, 0) : s = {}
    BY SmallRange
  <2>3. \A s \in Small(D, 0) : Good(s)
    BY <2>1, <2>2
  <2> QED
    BY <2>3
<1>3. ASSUME NEW k \in Nat, k \in S PROVE k + 1 \in S
  <2>0. SUFFICES ASSUME NEW s \in Small(D, k + 1) PROVE Good(s)
    <3> HIDE DEF Good
    <3> QED
      BY <2>0, SMT
  <2>1. s \in SUBSET D
    BY DEF Small
  <2>2. CASE s = {}
    BY <1>1, <2>2, SMT
  <2>3. CASE s # {}
    <3>1. PICK x \in s : g[s] = f[x] + g[s \ {x}]
      BY <2>1, <2>3 DEF SumStep
    <3>2. \A y \in s : s \ {y} \in Small(D, k)
      BY SmallLess
    <3>3. \A y \in s : Good(s \ {y})
      BY <1>3, <3>2
    <3>4. g[s] \in Int
      <4>1. g[s \ {x}] \in Int /\ f[x] \in Int
        BY <2>1, <3>3
      <4> QED
        BY <3>1, <4>1, SMT
    <3>5. ASSUME NEW y \in s, y # x PROVE g[s] = f[y] + g[s \ {y}]
      <4> DEFINE r == (s \ {x}) \ {y}
      <4>1. g[s \ {x}] = f[y] + g[r]
        BY <3>3, <3>5
      <4>2. (s \ {y}) \ {x} = r
        OBVIOUS
      <4>3. g[s \ {y}] = f[x] + g[r]
        BY <3>3, <3>5, <4>2
      <4>4. r \in Small(D, k)
        <5>1. r \in SUBSET (s \ {x}) /\ s \ {x} \in SUBSET D
          BY <2>1
        <5>2. IsFiniteSet(s \ {x})
          BY <5>1, FS_Subset
        <5>3. /\ Cardinality(r) <= Cardinality(s \ {x})
              /\ Cardinality(r) \in Nat /\ Cardinality(s \ {x}) \in Nat
          BY <5>1, <5>2, FS_Subset, FS_CardinalityType
        <5> QED
          BY <3>2, <5>1, <5>3, SMT DEF Small
      <4>5. g[r] \in Int
        BY <1>3, <4>4
      <4> HIDE DEF r
      <4>6. f[x] \in Int /\ f[y] \in Int
        BY <2>1
      <4> QED
        BY <3>1, <4>1, <4>3, <4>5, <4>6, SMT
    <3> QED
      BY <3>1, <3>4, <3>5
  <2> QED
    BY <2>2, <2>3
<1> HIDE DEF S
<1>4. Cardinality(D) \in S
  BY <1>2, <1>3, Induction, SmallRange
<1>5. \A s \in SUBSET D : Good(s)
  <2> HIDE DEF Good
  <2>1. \A s \in Small(D, Cardinality(D)) : Good(s)
    BY <1>4 DEF S
  <2>2. Small(D, Cardinality(D)) = SUBSET D
    BY SmallRange
  <2> QED
    BY <2>1, <2>2
<1>6. g \in [SUBSET D -> Int]
  BY <1>5
<1> QED
  BY <1>1, <1>5, <1>6 DEF IsSum

\* What SumFunction computes.
LEMMA SumIsSum ==
    ASSUME NEW D, IsFiniteSet(D), NEW f \in [D -> Int]
    PROVE  \E g : IsSum(g, f, D) /\ SumFunction(f) = g[D]
BY SumUnfolds, SumAnyOrder

LEMMA SumEmpty ==
    ASSUME NEW f \in [{} -> Int]
    PROVE  SumFunction(f) = 0
<1>1. IsFiniteSet({})
  BY FS_EmptySet
<1>2. PICK g : IsSum(g, f, {}) /\ SumFunction(f) = g[{}]
  BY <1>1, SumIsSum
<1> QED BY <1>2 DEF IsSum

\* Sums of functions that agree on a set agree on it.
LEMMA SumAgree ==
    ASSUME NEW D, IsFiniteSet(D), NEW f, NEW g, IsSum(g, f, D),
           NEW e, NEW h, IsSum(h, e, D),
           NEW s \in SUBSET D, \A x \in s : f[x] = e[x]
    PROVE  g[s] = h[s]
<1> DEFINE S == {k \in Nat : \A r \in Small(D, k) : r \subseteq s => g[r] = h[r]}
<1>1. 0 \in S
  BY SmallRange DEF IsSum
<1>2. ASSUME NEW k \in Nat, k \in S PROVE k + 1 \in S
  <2> SUFFICES ASSUME NEW r \in Small(D, k + 1), r \subseteq s
               PROVE  g[r] = h[r]
    BY SMT
  <2>1. CASE r = {}
    BY <2>1 DEF IsSum
  <2>2. CASE r # {}
    <3>1. PICK x \in r : TRUE
      BY <2>2
    <3>2. r \ {x} \in Small(D, k) /\ r \ {x} \subseteq s
      BY <3>1, SmallLess
    <3>3. g[r \ {x}] = h[r \ {x}]
      BY <1>2, <3>2
    <3>4. r \in SUBSET D
      BY DEF Small
    <3>5. g[r] = f[x] + g[r \ {x}] /\ h[r] = e[x] + h[r \ {x}]
      BY <3>1, <3>4 DEF IsSum
    <3> QED
      BY <3>1, <3>3, <3>5
  <2> QED
    BY <2>1, <2>2
<1> HIDE DEF S
<1>3. Cardinality(D) \in S
  BY <1>1, <1>2, Induction, SmallRange
<1> QED
  BY <1>3, SmallRange DEF S

\* Changing one value changes the sum by the difference.
LEMMA SumUpdate ==
    ASSUME NEW D, IsFiniteSet(D), NEW f \in [D -> Int], NEW e \in [D -> Int],
           NEW a \in D, \A x \in D \ {a} : e[x] = f[x]
    PROVE  /\ SumFunction(f) \in Int
           /\ SumFunction(e) = SumFunction(f) - f[a] + e[a]
<1>1. PICK g : IsSum(g, f, D) /\ SumFunction(f) = g[D]
  BY SumIsSum
<1>2. PICK h : IsSum(h, e, D) /\ SumFunction(e) = h[D]
  BY SumIsSum
<1>3. D \in SUBSET D /\ D \ {a} \in SUBSET D
  OBVIOUS
<1>4. g[D \ {a}] = h[D \ {a}]
  <2>1. \A x \in D \ {a} : f[x] = e[x]
    OBVIOUS
  <2> QED
    BY <1>1, <1>2, <1>3, <2>1, SumAgree, SMT
<1>5. g[D] = f[a] + g[D \ {a}] /\ g[D \ {a}] \in Int
  BY <1>1, <1>3 DEF IsSum
<1>6. h[D] = e[a] + h[D \ {a}]
  BY <1>2, <1>3 DEF IsSum
<1>7. f[a] \in Int /\ e[a] \in Int
  OBVIOUS
<1> QED
  BY <1>1, <1>2, <1>4, <1>5, <1>6, <1>7, SMT

\* A sum of naturals is a natural at least as large as each of them.
LEMMA SumNat ==
    ASSUME NEW D, IsFiniteSet(D), NEW f \in [D -> Nat]
    PROVE  SumFunction(f) \in Nat /\ \A a \in D : f[a] <= SumFunction(f)
<1>1. f \in [D -> Int]
  BY SMT
<1>2. PICK g : IsSum(g, f, D) /\ SumFunction(f) = g[D]
  BY <1>1, SumIsSum
<1> DEFINE S == {k \in Nat : \A s \in Small(D, k) : g[s] \in Nat}
<1>3. 0 \in S
  <2>1. g[{}] \in Nat
    BY <1>2, SMT DEF IsSum
  <2>2. \A s \in Small(D, 0) : s = {}
    BY SmallRange
  <2> QED
    BY <2>1, <2>2
<1>4. ASSUME NEW k \in Nat, k \in S PROVE k + 1 \in S
  <2> SUFFICES ASSUME NEW s \in Small(D, k + 1) PROVE g[s] \in Nat
    BY SMT
  <2>1. CASE s = {}
    BY <1>2, <2>1, SMT DEF IsSum
  <2>2. ASSUME NEW x \in s PROVE g[s] \in Nat
    <3>1. s \in SUBSET D
      BY DEF Small
    <3>2. g[s] = f[x] + g[s \ {x}]
      BY <1>2, <2>2, <3>1 DEF IsSum
    <3>3. g[s \ {x}] \in Nat
      BY <1>4, <2>2, SmallLess
    <3>4. f[x] \in Nat
      BY <2>2, <3>1
    <3> QED
      BY <3>2, <3>3, <3>4, SMT
  <2> QED
    BY <2>1, <2>2
<1> HIDE DEF S
<1>5. Cardinality(D) \in S
  BY <1>3, <1>4, Induction, SmallRange
<1>6. \A s \in SUBSET D : g[s] \in Nat
  BY <1>5, SmallRange DEF S
<1>7. ASSUME NEW a \in D PROVE f[a] <= g[D]
  <2>1. D \in SUBSET D /\ D \ {a} \in SUBSET D
    OBVIOUS
  <2>2. g[D] = f[a] + g[D \ {a}] /\ g[D \ {a}] \in Nat /\ f[a] \in Nat
    BY <1>2, <1>6, <2>1 DEF IsSum
  <2> QED
    BY <2>2, SMT
<1> QED
  BY <1>2, <1>6, <1>7

\* The sum of a function that is zero but for one element.
LEMMA SumOfOne ==
    ASSUME NEW D, IsFiniteSet(D), NEW f \in [D -> Int],
           NEW a \in D, \A x \in D \ {a} : f[x] = 0
    PROVE  SumFunction(f) = f[a]
<1>1. PICK g : IsSum(g, f, D) /\ SumFunction(f) = g[D]
  BY SumIsSum
<1> DEFINE z == [x \in D |-> 0]
           h == [s \in SUBSET D |-> 0]
<1>2. IsSum(h, z, D)
  <2>1. \A s \in SUBSET D : \A y \in s : s \ {y} \in SUBSET D /\ y \in D
    OBVIOUS
  <2> QED
    BY <2>1, SMT DEF IsSum
<1>3. D \in SUBSET D /\ D \ {a} \in SUBSET D
  OBVIOUS
<1>4. \A x \in D \ {a} : f[x] = z[x]
  OBVIOUS
<1>5. h[D \ {a}] = 0
  OBVIOUS
<1> HIDE DEF z, h
<1>6. g[D \ {a}] = 0
  BY <1>1, <1>2, <1>3, <1>4, <1>5, SumAgree, SMT
<1>7. g[D] = f[a] + g[D \ {a}] /\ f[a] \in Int
  BY <1>1, <1>3 DEF IsSum
<1> QED
  BY <1>1, <1>6, <1>7, SMT

\* The finite function f, on B, is e, on D, with one more element a.
OneMore(f, B, e, D, a) ==
    /\ IsFiniteSet(B) /\ a \in B /\ D = B \ {a}
    /\ f \in [B -> Int] /\ e \in [D -> Int] /\ \A x \in D : e[x] = f[x]

\* One more element adds its value to the sum.
LEMMA SumGrow ==
    ASSUME NEW f, NEW B, NEW e, NEW D, NEW a, OneMore(f, B, e, D, a)
    PROVE  SumFunction(f) = f[a] + SumFunction(e)
<1> USE DEF OneMore
<1>1. D \in SUBSET B /\ B \in SUBSET B /\ D = B \ {a}
  OBVIOUS
<1>2. IsFiniteSet(D)
  BY <1>1, FS_Subset
<1>3. PICK g : IsSum(g, f, B) /\ SumFunction(f) = g[B]
  BY SumIsSum
<1>4. PICK h : IsSum(h, e, D) /\ SumFunction(e) = h[D]
  BY <1>2, SumIsSum
<1> DEFINE k == [s \in SUBSET D |-> g[s]]
<1>5. \A s \in SUBSET D : s \in SUBSET B /\ k[s] = g[s]
  BY <1>1
<1>6. IsSum(k, e, D)
  <2>1. k \in [SUBSET D -> Int]
    BY <1>3, <1>5 DEF IsSum
  <2>2. k[{}] = 0
    BY <1>3, <1>5 DEF IsSum
  <2>3. ASSUME NEW s \in SUBSET D, NEW y \in s PROVE k[s] = e[y] + k[s \ {y}]
    <3>1. s \ {y} \in SUBSET D /\ y \in D
      OBVIOUS
    <3>2. g[s] = f[y] + g[s \ {y}]
      BY <1>3, <1>5, <2>3 DEF IsSum
    <3> HIDE DEF k
    <3> QED BY <1>5, <3>1, <3>2
  <2> HIDE DEF k
  <2> QED BY <2>1, <2>2, <2>3 DEF IsSum
<1>7. k[D] = g[D]
  OBVIOUS
<1> HIDE DEF k
<1>8. k[D] = h[D]
  <2>1. D \in SUBSET D /\ \A x \in D : e[x] = e[x]
    OBVIOUS
  <2> QED BY <1>2, <1>4, <1>6, <2>1, SumAgree, SMT
<1>9. g[B] = f[a] + g[B \ {a}]
  BY <1>1, <1>3 DEF IsSum
<1> QED BY <1>1, <1>3, <1>4, <1>7, <1>8, <1>9

\* Counting the elements of a set up to one number more.
LEMMA CountGrow ==
    ASSUME NEW T, NEW n \in Nat
    PROVE  /\ IsFiniteSet((1..n) \cap T)
           /\ Cardinality((1..n) \cap T) \in Nat
           /\ Cardinality((1..n + 1) \cap T)
                = Cardinality((1..n) \cap T) + (IF n + 1 \in T THEN 1 ELSE 0)
<1> DEFINE S == (1..n) \cap T
<1>1. IsFiniteSet(1..n)
  BY FS_Interval, SMT
<1>2. IsFiniteSet(S) /\ Cardinality(S) \in Nat
  <2>1. IsFiniteSet(S)
    BY <1>1, FS_Subset
  <2> QED BY <2>1, FS_CardinalityType
<1>3. 1..n + 1 = (1..n) \cup {n + 1} /\ n + 1 \notin 1..n
  BY SMT
<1>4. CASE n + 1 \in T
  <2>1. (1..n + 1) \cap T = S \cup {n + 1} /\ n + 1 \notin S
    BY <1>3, <1>4
  <2> HIDE DEF S
  <2>2. Cardinality(S \cup {n + 1}) = Cardinality(S) + 1
    BY <1>2, <2>1, FS_AddElement
  <2>3. Cardinality((1..n + 1) \cap T) = Cardinality(S) + 1
    BY <2>1, <2>2
  <2> QED BY <1>2, <1>4, <2>3 DEF S
<1>5. CASE n + 1 \notin T
  <2>1. (1..n + 1) \cap T = S
    BY <1>3, <1>5
  <2>2. Cardinality((1..n + 1) \cap T) = Cardinality(S) + 0
    BY <1>2, <2>1, SMT
  <2> QED BY <1>2, <1>5, <2>2
<1> QED BY <1>4, <1>5

=============================================================================
