---------------------------- MODULE SumTheorems ----------------------------
(***************************************************************************)
(* Sums over the values of a function, which the books of the easy shop    *)
(* are made of (SumFunction of the community modules, a fold): that a sum  *)
(* does not depend on the order of its terms and grows by what is added.   *)
(*                                                                         *)
(* The induction theorems of the library take the formula to be proved as  *)
(* an operator, which the provers cannot instantiate.  That the naturals   *)
(* are well-founded is stated about sets, and the induction over numbers   *)
(* derived from it here is, too.                                           *)
(***************************************************************************)
EXTENDS Integers, FiniteSets, Functions, WellFoundedInduction, FiniteSetTheorems, TLAPS

----------------------------------------------------------------------------
(* Induction *)

\* A set of naturals that is not empty has a least element.
LEMMA LeastElement ==
    ASSUME NEW A \in SUBSET Nat, A # {}
    PROVE  \E n \in A : \A m \in A : n <= m
<1>. DEFINE R == OpToRel(<, Nat)
<1>1. IsWellFoundedOn(R, Nat)
  BY NatLessThanWellFounded
<1>2. \A x, y \in Nat : x < y => <<x, y>> \in R
  BY DEF OpToRel
<1>. HIDE DEF R
<1>3. PICK x \in A : \A y \in A : ~ (<<y, x>> \in R)
  BY <1>1, WFMin
<1>4. \A y \in A : ~ (y < x)
  BY <1>2, <1>3
<1>. QED  BY <1>4

\* A set that holds 0 and the successor of each of its naturals holds every natural.
THEOREM NatInductionOverSets ==
    ASSUME NEW A, 0 \in A, \A n \in Nat : n \in A => n + 1 \in A
    PROVE  Nat \subseteq A
<1>1. SUFFICES ASSUME Nat \ A # {} PROVE FALSE
  OBVIOUS
<1>2. PICK n \in Nat \ A : \A m \in Nat \ A : n <= m
  BY <1>1, LeastElement
<1>3. n # 0 /\ n - 1 \in Nat
  BY <1>2
<1>4. n - 1 \in A
  BY <1>2, <1>3
<1>. QED  BY <1>3, <1>4

----------------------------------------------------------------------------
(* The fold as a recursive function *)

\* The subsets of S of at most n elements.
Small(S, n) == {s \in SUBSET S : Cardinality(s) <= n}

\* The element that the fold takes first, and the equation that it solves.
First(s) == CHOOSE x \in s : TRUE
Step(f, g, s) == IF s = {} THEN 0 ELSE f[First(s)] + g[s \ {First(s)}]
Solves(g, f, D) == g = [s \in D |-> Step(f, g, s)]

\* The first element of a set that is not empty is one of its elements.
LEMMA FirstIn ==
    ASSUME NEW s, s # {}
    PROVE  First(s) \in s
BY DEF First

\* What a sum is by its definition: the value at S of a function chosen to solve the equation.
LEMMA SumUnfold ==
    ASSUME NEW f, NEW S
    PROVE  SumFunctionOnSet(f, S) = (CHOOSE g : Solves(g, f, SUBSET S))[S]
BY DEF SumFunctionOnSet, FoldFunctionOnSet, MapThenFoldSet, Solves, Step, First

\* The subsets of a finite set, by their size.
LEMMA SmallSets ==
    ASSUME NEW S, IsFiniteSet(S), NEW n \in Nat
    PROVE  /\ {} \in Small(S, n)
           /\ \A s \in Small(S, n + 1) : \A x \in s : s \ {x} \in Small(S, n)
           /\ Small(S, 0) = {{}}
           /\ Small(S, n) \subseteq Small(S, n + 1)
           /\ Cardinality(S) \in Nat /\ Small(S, Cardinality(S)) = SUBSET S
<1>1. \A s \in SUBSET S : IsFiniteSet(s) /\ Cardinality(s) \in Nat
                            /\ Cardinality(s) <= Cardinality(S)
  BY FS_Subset, FS_CardinalityType
<1>2. {} \in Small(S, n)
  BY FS_EmptySet DEF Small
<1>3. ASSUME NEW s \in Small(S, n + 1), NEW x \in s
      PROVE  s \ {x} \in Small(S, n)
  <2>1. IsFiniteSet(s)
    BY <1>1 DEF Small
  <2>2. Cardinality(s \ {x}) = Cardinality(s) - 1
    BY <2>1, FS_RemoveElement
  <2>. QED  BY <1>1, <2>2 DEF Small
<1>4. Small(S, 0) = {{}}
  <2>1. \A s \in SUBSET S : Cardinality(s) = 0 <=> s = {}
    BY <1>1, FS_EmptySet
  <2>. QED  BY <1>1, <2>1 DEF Small
<1>5. Small(S, n) \subseteq Small(S, n + 1)
  BY <1>1 DEF Small
<1>6. Small(S, Cardinality(S)) = SUBSET S
  BY <1>1 DEF Small
<1>. QED  BY <1>1, <1>2, <1>3, <1>4, <1>5, <1>6

\* Induction over the subsets of a finite set by their size.
LEMMA SizeInduction ==
    ASSUME NEW S, IsFiniteSet(S), NEW F,
           {} \in F,
           \A n \in Nat : Small(S, n) \subseteq F => Small(S, n + 1) \subseteq F
    PROVE  SUBSET S \subseteq F
<1>. DEFINE A == {n \in Nat : Small(S, n) \subseteq F}
<1>1. 0 \in A
  <2>1. Small(S, 0) = {{}}
    BY SmallSets
  <2>. QED  BY <2>1
<1>2. \A n \in Nat : n \in A => n + 1 \in A
  OBVIOUS
<1>. HIDE DEF A
<1>3. Nat \subseteq A
  BY <1>1, <1>2, NatInductionOverSets
<1>4. Cardinality(S) \in Nat /\ Small(S, Cardinality(S)) = SUBSET S
  BY SmallSets
<1>. QED  BY <1>3, <1>4 DEF A

\* The equation has a solution on the subsets of every finite set ...
LEMMA SolutionExists ==
    ASSUME NEW f, NEW S, IsFiniteSet(S)
    PROVE  \E g : Solves(g, f, SUBSET S)
<1>. DEFINE A == {n \in Nat : \E g : Solves(g, f, Small(S, n))}
<1>1. 0 \in A
  <2>. DEFINE g == [s \in {{}} |-> 0]
  <2>1. g = [s \in {{}} |-> Step(f, g, s)]
    BY DEF Step
  <2>. QED  BY <2>1, SmallSets DEF Solves
<1>2. ASSUME NEW n \in Nat, n \in A
      PROVE  n + 1 \in A
  <2>1. PICK g : Solves(g, f, Small(S, n))
    BY <1>2
  <2>. DEFINE h == [s \in Small(S, n + 1) |-> Step(f, g, s)]
  <2>2. \A s \in Small(S, n) : g[s] = h[s]
    BY <2>1, SmallSets DEF Solves
  <2>3. \A s \in Small(S, n + 1) : s # {} => s \ {First(s)} \in Small(S, n)
    BY SmallSets, FirstIn
  <2>4. \A s \in Small(S, n + 1) : Step(f, g, s) = Step(f, h, s)
    BY <2>2, <2>3 DEF Step
  <2>5. h = [s \in Small(S, n + 1) |-> Step(f, h, s)]
    BY <2>4
  <2>. HIDE DEF h
  <2>6. \E k : Solves(k, f, Small(S, n + 1))
    BY <2>5 DEF Solves
  <2>. QED  BY <2>6
<1>. HIDE DEF A
<1>3. Nat \subseteq A
  BY <1>1, <1>2, NatInductionOverSets
<1>4. Cardinality(S) \in Nat /\ Small(S, Cardinality(S)) = SUBSET S
  BY SmallSets
<1>5. \E g : Solves(g, f, Small(S, Cardinality(S)))
  BY <1>3, <1>4 DEF A
<1>. QED  BY <1>4, <1>5

\* ... and only one, also compared with one on fewer sets.
LEMMA SolutionUnique ==
    ASSUME NEW f, NEW S, IsFiniteSet(S), NEW T, T \subseteq S,
           NEW g, Solves(g, f, SUBSET S),
           NEW h, Solves(h, f, SUBSET T)
    PROVE  g[T] = h[T]
<1>. DEFINE F == {s \in SUBSET T : g[s] = h[s]}
<1>1. IsFiniteSet(T)
  BY FS_Subset
<1>2. \A s \in SUBSET T : g[s] = Step(f, g, s) /\ h[s] = Step(f, h, s)
  BY DEF Solves
<1>3. {} \in F
  BY <1>2 DEF Step
<1>4. ASSUME NEW n \in Nat, Small(T, n) \subseteq F
      PROVE  Small(T, n + 1) \subseteq F
  <2>1. SUFFICES ASSUME NEW s \in Small(T, n + 1)
                 PROVE  s \in SUBSET T /\ g[s] = h[s]
    OBVIOUS
  <2>2. s \in SUBSET T
    BY DEF Small
  <2>3. CASE s = {}
    BY <1>2, <2>2, <2>3 DEF Step
  <2>4. CASE s # {}
    <3>1. s \ {First(s)} \in Small(T, n)
      BY <1>1, <2>4, SmallSets, FirstIn
    <3>2. g[s \ {First(s)}] = h[s \ {First(s)}]
      BY <1>4, <3>1
    <3>. QED  BY <1>2, <2>2, <2>4, <3>2 DEF Step
  <2>. QED  BY <2>2, <2>3, <2>4
<1>. HIDE DEF F
<1>5. SUBSET T \subseteq F
  BY <1>1, <1>3, <1>4, SizeInduction
<1>. QED  BY <1>5 DEF F

\* So a sum is that of a solution, whichever that is, ...
LEMMA SumOfSolution ==
    ASSUME NEW f, NEW S, IsFiniteSet(S), NEW T, T \subseteq S,
           NEW g, Solves(g, f, SUBSET S)
    PROVE  SumFunctionOnSet(f, T) = g[T]
<1>1. IsFiniteSet(T)
  BY FS_Subset
<1>2. PICK h : Solves(h, f, SUBSET T) /\ SumFunctionOnSet(f, T) = h[T]
  BY <1>1, SolutionExists, SumUnfold
<1>3. g[T] = h[T]
  <2>1. \A k : Solves(k, f, SUBSET S) => \A l : Solves(l, f, SUBSET T) => k[T] = l[T]
    BY SolutionUnique
  <2>. QED  BY <1>2, <2>1
<1>. QED  BY <1>2, <1>3

\* ... and the sums of the subsets solve the equation.
LEMMA SumEquation ==
    ASSUME NEW f, NEW S, IsFiniteSet(S)
    PROVE  SumFunctionOnSet(f, S) =
             IF S = {} THEN 0
             ELSE f[First(S)] + SumFunctionOnSet(f, S \ {First(S)})
<1>1. PICK g : Solves(g, f, SUBSET S)
  BY SolutionExists
<1>2. SumFunctionOnSet(f, S) = g[S] /\ SumFunctionOnSet(f, S \ {First(S)}) = g[S \ {First(S)}]
  <2>1. S \subseteq S /\ S \ {First(S)} \subseteq S
    OBVIOUS
  <2>. QED  BY <1>1, <2>1, SumOfSolution
<1>3. g[S] = Step(f, g, S)
  <2>1. S \in SUBSET S
    OBVIOUS
  <2>. QED  BY <1>1, <2>1 DEF Solves
<1>. QED  BY <1>2, <1>3 DEF Step

----------------------------------------------------------------------------
(* Sums *)

ValuesIn(f, S, V) == \A x \in S : f[x] \in V

\* A sum of naturals is a natural, a sum of integers an integer.
LEMMA SumType ==
    ASSUME NEW V \in {Nat, Int}, NEW f, NEW S, IsFiniteSet(S), ValuesIn(f, S, V)
    PROVE  SumFunctionOnSet(f, S) \in V
<1>. DEFINE Sum(s) == SumFunctionOnSet(f, s)
            F == {s \in SUBSET S : Sum(s) \in V}
<1>1. \A s \in SUBSET S : IsFiniteSet(s)
  BY FS_Subset
<1>2. Sum({}) = 0 /\ \A s \in SUBSET S : s # {} => Sum(s) = f[First(s)] + Sum(s \ {First(s)})
  BY <1>1, SumEquation, FS_EmptySet
<1>3. 0 \in V /\ \A a, b \in V : a + b \in V
  <2>1. CASE V = Nat
    BY <2>1
  <2>2. CASE V = Int
    BY <2>2
  <2>. QED  BY <2>1, <2>2
<1>. HIDE DEF Sum
<1>4. {} \in F
  BY <1>2, <1>3
<1>5. ASSUME NEW n \in Nat, Small(S, n) \subseteq F
      PROVE  Small(S, n + 1) \subseteq F
  <2>1. SUFFICES ASSUME NEW s \in Small(S, n + 1)
                 PROVE  s \in SUBSET S /\ Sum(s) \in V
    OBVIOUS
  <2>2. s \in SUBSET S
    BY DEF Small
  <2>3. CASE s = {}
    BY <1>2, <1>3, <2>3
  <2>4. CASE s # {}
    <3>1. First(s) \in s
      BY <2>4, FirstIn
    <3>2. Sum(s \ {First(s)}) \in V
      BY <1>5, <3>1, SmallSets
    <3>3. f[First(s)] \in V
      BY <2>2, <3>1 DEF ValuesIn
    <3>. QED  BY <1>2, <1>3, <2>2, <2>4, <3>2, <3>3
  <2>. QED  BY <2>2, <2>3, <2>4
<1>. HIDE DEF F
<1>6. S \in F
  BY <1>4, <1>5, SizeInduction
<1>. QED  BY <1>6 DEF F, Sum

\* A sum is any of its terms and the sum of the others.
LEMMA SumRemove ==
    ASSUME NEW f, NEW S, IsFiniteSet(S), ValuesIn(f, S, Int), NEW x \in S
    PROVE  SumFunctionOnSet(f, S) = f[x] + SumFunctionOnSet(f, S \ {x})
<1>. DEFINE Sum(s) == SumFunctionOnSet(f, s)
            F == {s \in SUBSET S : \A y \in s : Sum(s) = f[y] + Sum(s \ {y})}
<1>1. \A s \in SUBSET S : IsFiniteSet(s)
  BY FS_Subset
<1>2. \A s \in SUBSET S : Sum(s) \in Int
  BY <1>1, SumType DEF ValuesIn
<1>3. \A s \in SUBSET S : s # {} => Sum(s) = f[First(s)] + Sum(s \ {First(s)})
  BY <1>1, SumEquation
<1>. HIDE DEF Sum
<1>4. {} \in F
  OBVIOUS
<1>5. ASSUME NEW n \in Nat, Small(S, n) \subseteq F
      PROVE  Small(S, n + 1) \subseteq F
  <2>1. SUFFICES ASSUME NEW s \in Small(S, n + 1)
                 PROVE  s \in SUBSET S /\ \A y \in s : Sum(s) = f[y] + Sum(s \ {y})
    OBVIOUS
  <2>2. s \in SUBSET S
    BY DEF Small
  <2>3. ASSUME NEW y \in s
        PROVE  Sum(s) = f[y] + Sum(s \ {y})
    <3>. DEFINE c == First(s)
    <3>1. c \in s
      BY FirstIn
    <3>2. Sum(s) = f[c] + Sum(s \ {c})
      BY <1>3, <2>2
    <3>3. f[c] \in Int /\ f[y] \in Int
      BY <2>2, <3>1 DEF ValuesIn
    <3>. HIDE DEF c
    <3>4. CASE c = y
      BY <3>2, <3>4
    <3>5. CASE c # y
      <4>1. s \ {c} \in F /\ s \ {y} \in F
        BY <1>5, <3>1, SmallSets
      <4>2. Sum(s \ {c}) = f[y] + Sum((s \ {c}) \ {y})
        BY <3>5, <4>1
      <4>3. Sum(s \ {y}) = f[c] + Sum((s \ {y}) \ {c})
        BY <3>1, <3>5, <4>1
      <4>4. (s \ {c}) \ {y} = (s \ {y}) \ {c}
        OBVIOUS
      <4>5. Sum((s \ {y}) \ {c}) \in Int
        BY <1>2, <2>2
      <4>6. ASSUME NEW a \in Int, NEW b \in Int, NEW r \in Int
            PROVE  a + (b + r) = b + (a + r)
        OBVIOUS
      <4>7. Sum(s) = f[c] + (f[y] + Sum((s \ {y}) \ {c}))
        BY <3>2, <4>2, <4>4
      <4>. QED  BY <3>3, <4>3, <4>5, <4>6, <4>7
    <3>. QED  BY <3>4, <3>5
  <2>. QED  BY <2>2, <2>3
<1>. HIDE DEF F
<1>6. S \in F
  BY <1>4, <1>5, SizeInduction
<1>. QED  BY <1>6 DEF F, Sum

\* Functions that agree on a set have the same sum over it.
LEMMA SumCongruent ==
    ASSUME NEW f, NEW h, NEW S, IsFiniteSet(S), \A x \in S : f[x] = h[x]
    PROVE  SumFunctionOnSet(f, S) = SumFunctionOnSet(h, S)
<1>1. PICK g : Solves(g, f, SUBSET S)
  BY SolutionExists
<1>2. \A s \in SUBSET S : Step(f, g, s) = Step(h, g, s)
  BY FirstIn DEF Step
<1>3. Solves(g, h, SUBSET S)
  BY <1>1, <1>2 DEF Solves
<1>4. S \subseteq S
  OBVIOUS
<1>. QED  BY <1>1, <1>3, <1>4, SumOfSolution

----------------------------------------------------------------------------
(* The same of all the values of a function *)

\* Nothing adds up to 0.
THEOREM SumNothing ==
    ASSUME NEW f, DOMAIN f = {}
    PROVE  SumFunction(f) = 0
<1>1. IsFiniteSet({})
  BY FS_EmptySet
<1>. QED  BY <1>1, SumEquation DEF SumFunction

\* Finitely many naturals add up to a natural, finitely many integers to an integer.
THEOREM SumFunctionType ==
    ASSUME NEW V \in {Nat, Int}, NEW f, IsFiniteSet(DOMAIN f), \A x \in DOMAIN f : f[x] \in V
    PROVE  SumFunction(f) \in V
BY SumType DEF SumFunction, ValuesIn

\* One value more adds that value to the sum.
THEOREM SumExtended ==
    ASSUME NEW f, NEW h, IsFiniteSet(DOMAIN f), NEW x, x \notin DOMAIN f,
           DOMAIN h = DOMAIN f \union {x},
           \A y \in DOMAIN f : h[y] = f[y],
           \A y \in DOMAIN h : h[y] \in Int
    PROVE  SumFunction(h) = SumFunction(f) + h[x]
<1>1. IsFiniteSet(DOMAIN h)
  BY FS_AddElement
<1>2. SumFunction(h) = h[x] + SumFunctionOnSet(h, DOMAIN h \ {x})
  BY <1>1, SumRemove DEF SumFunction, ValuesIn
<1>3. DOMAIN h \ {x} = DOMAIN f
  OBVIOUS
<1>4. SumFunctionOnSet(h, DOMAIN f) = SumFunction(f)
  BY SumCongruent DEF SumFunction
<1>5. h[x] \in Int /\ SumFunction(f) \in Int
  BY SumFunctionType
<1>. QED  BY <1>2, <1>3, <1>4, <1>5

=============================================================================
