---------------------------- MODULE BbsHomeProofs ----------------------------
(***************************************************************************)
(* For any number of pages, users and comments: what the board's server    *)
(* and its pages promise (BbsServer, BbsHome).                             *)
(*                                                                         *)
(* The argument has two parts.  TypeInv says that what tables, caches,     *)
(* requests and pages speak of is in the table, and what the words of an   *)
(* area can be after what was done to it.  The server only adds: Grows     *)
(* says so, and then the requests and pages stay as they should be; a page *)
(* only forgets requests and sends new ones: Follows says so, and then the *)
(* requests stay as they should be, and nothing of the server's changes.   *)
(*                                                                         *)
(* RacesInv says what holds between a request's check and its write unless *)
(* races tells of another one between them.  A step keeps the requests     *)
(* that have begun, but one that ends (KeepsBut) or one that begins, and   *)
(* that one has checked, with nobody under way it should not meet.         *)
(***************************************************************************)
EXTENDS BbsHome, SumTheorems, SequenceTheorems

----------------------------------------------------------------------------
(* Sequences *)

\* How many of a set are not above x.
Place(S, x) == Cardinality({y \in S : y <= x})

\* The places of the elements of a finite set of numbers go up with them.
LEMMA PlaceGrows ==
    ASSUME NEW S \in SUBSET Nat, IsFiniteSet(S), NEW x \in S, NEW y \in S
    PROVE  /\ Place(S, x) \in 1..Cardinality(S)
           /\ x < y => Place(S, x) < Place(S, y)
<1>. DEFINE X == {z \in S : z <= x}
            Y == {z \in S : z <= y}
<1>1. IsFiniteSet(X) /\ IsFiniteSet(Y) /\ Cardinality(X) \in Nat /\ Cardinality(Y) \in Nat
       /\ Cardinality(S) \in Nat /\ Cardinality(X) <= Cardinality(S)
  BY FS_Subset, FS_CardinalityType
<1>2. Cardinality(X) # 0
  <2>1. x \in X
    OBVIOUS
  <2>2. X # {}
    BY <2>1
  <2>. HIDE DEF X, Y
  <2>. QED  BY <1>1, <2>2, FS_EmptySet
<1>3. ASSUME x < y PROVE Cardinality(X) < Cardinality(Y)
  <2>1. X \subseteq Y /\ y \in Y /\ y \notin X
    <3>1. x \in Nat /\ y \in Nat /\ \A z \in S : z \in Nat
      OBVIOUS
    <3>2. \A z \in S : z <= x => z <= y
      BY <1>3, <3>1
    <3>3. y <= y /\ ~ (y <= x)
      BY <1>3, <3>1
    <3>. QED  BY <3>2, <3>3
  <2>2. Cardinality(X) <= Cardinality(Y) /\ Cardinality(X) # Cardinality(Y)
    <3>. HIDE DEF X, Y
    <3>. QED  BY <1>1, <2>1, FS_Subset
  <2>. QED  BY <1>1, <2>2
<1>. QED  BY <1>1, <1>2, <1>3 DEF Place

\* Each place is that of an element.
LEMMA PlaceTaken ==
    ASSUME NEW S \in SUBSET Nat, IsFiniteSet(S), NEW i \in 1..Cardinality(S)
    PROVE  \E x \in S : Place(S, x) = i
<1>. DEFINE Full(T) == \A k \in 1..Cardinality(T) : \E x \in T : Place(T, x) = k
            A == {n \in Nat : \A T \in SUBSET Nat : IsFiniteSet(T) /\ Cardinality(T) = n => Full(T)}
<1>1. 0 \in A
  OBVIOUS
<1>2. ASSUME NEW n \in Nat, n \in A
      PROVE  n + 1 \in A
  <2>1. SUFFICES ASSUME NEW T \in SUBSET Nat, IsFiniteSet(T), Cardinality(T) = n + 1,
                        NEW k \in 1..(n + 1)
                 PROVE  \E x \in T : Place(T, x) = k
    OBVIOUS
  <2>2. T # {}
    BY <2>1, FS_EmptySet
  <2>3. PICK m \in T : \A x \in T : m <= x
    BY <2>2, LeastElement
  <2>. DEFINE U == T \ {m}
  <2>4. IsFiniteSet(U) /\ Cardinality(U) = n /\ U \in SUBSET Nat
    <3>1. IsFiniteSet(U) /\ Cardinality(U) = Cardinality(T) - 1
      BY <2>1, <2>3, FS_RemoveElement
    <3>. QED  BY <2>1, <3>1
  <2>5. Full(U)
    BY <1>2, <2>4
  <2>6. ASSUME NEW x \in U PROVE Place(T, x) = Place(U, x) + 1
    <3>1. {y \in T : y <= x} = {y \in U : y <= x} \cup {m}
      <4>1. m <= x /\ m \in T
        BY <2>3
      <4>2. \A y \in T : y \in U <=> y # m
        OBVIOUS
      <4>3. ASSUME NEW y PROVE y \in {z \in T : z <= x} <=> y \in {z \in U : z <= x} \cup {m}
        BY <4>1, <4>2
      <4>. QED  BY <4>3
    <3>2. IsFiniteSet({y \in U : y <= x}) /\ m \notin {y \in U : y <= x}
      BY <2>4, FS_Subset
    <3>. QED  BY <3>1, <3>2, FS_AddElement DEF Place
  <2>7. Place(T, m) = 1
    <3>1. \A y \in T : y <= m <=> y = m
      BY <2>3
    <3>2. {y \in T : y <= m} = {m}
      BY <3>1
    <3>. QED  BY <3>2, FS_Singleton DEF Place
  <2>8. CASE k = 1
    BY <2>7, <2>8
  <2>9. CASE k # 1
    <3>1. k - 1 \in 1..n
      BY <2>1, <2>9
    <3>2. PICK x \in U : Place(U, x) = k - 1
      BY <2>4, <2>5, <3>1
    <3>. QED  BY <2>6, <3>2, <2>1
  <2>. QED  BY <2>8, <2>9
<1>. HIDE DEF A
<1>3. Nat \subseteq A
  BY <1>1, <1>2, NatInductionOverSets
<1>4. Cardinality(S) \in Nat
  BY FS_CardinalityType
<1>. QED  BY <1>3, <1>4 DEF A

\* Sorted(S) is a sequence of the elements of S, each once, the smaller first.
LEMMA SortedIs ==
    ASSUME NEW S \in SUBSET Nat, IsFiniteSet(S)
    PROVE  /\ Cardinality(S) \in Nat
           /\ Sorted(S) \in [1..Cardinality(S) -> S]
           /\ \A i, j \in 1..Cardinality(S) : i < j => Sorted(S)[i] < Sorted(S)[j]
           /\ \A i, j \in 1..Cardinality(S) : Sorted(S)[i] = Sorted(S)[j] => i = j
           /\ Elems(Sorted(S)) = S
<1>1. Cardinality(S) \in Nat
  BY FS_CardinalityType
<1>2. Sorted(S) = [i \in 1..Cardinality(S) |-> CHOOSE x \in S : Place(S, x) = i]
  BY DEF Sorted, Place
<1>3. \A i \in 1..Cardinality(S) : Sorted(S)[i] \in S /\ Place(S, Sorted(S)[i]) = i
  BY <1>2, PlaceTaken
<1>4. Sorted(S) \in [1..Cardinality(S) -> S]
  BY <1>2, <1>3
<1>5. \A i, j \in 1..Cardinality(S) : i < j => Sorted(S)[i] < Sorted(S)[j]
  <2>1. \A x, y \in S : x < y => Place(S, x) < Place(S, y)
    BY PlaceGrows
  <2>2. S \subseteq Nat
    OBVIOUS
  <2>. QED
    <3>1. TAKE i, j \in 1..Cardinality(S)
    <3>2. HAVE i < j
    <3>. DEFINE x == Sorted(S)[i]  y == Sorted(S)[j]
    <3>3. x \in S /\ y \in S /\ Place(S, x) = i /\ Place(S, y) = j
      BY <1>3
    <3>4. ~ (y < x) /\ x # y
      <4>1. y < x => j < i
        BY <2>1, <3>3
      <4>. QED  BY <3>2, <3>3, <4>1, <1>1
    <3>. HIDE DEF x, y
    <3>5. x < y
      BY <2>2, <3>3, <3>4
    <3>. QED  BY <3>5 DEF x, y
<1>6. \A x \in S : \E i \in 1..Cardinality(S) : Sorted(S)[i] = x
  <2>1. TAKE x \in S
  <2>. DEFINE i == Place(S, x)
  <2>2. i \in 1..Cardinality(S)
    BY PlaceGrows
  <2>3. Sorted(S)[i] \in S /\ Place(S, Sorted(S)[i]) = i
    BY <1>3, <2>2
  <2>4. ~ (Sorted(S)[i] < x) /\ ~ (x < Sorted(S)[i])
    <3>. DEFINE y == Sorted(S)[i]
    <3>0. y \in S /\ Place(S, y) = Place(S, x)
      BY <2>3
    <3>. HIDE DEF y
    <3>1. y < x => Place(S, y) < Place(S, x)
      BY <3>0, PlaceGrows
    <3>2. x < y => Place(S, x) < Place(S, y)
      BY <3>0, PlaceGrows
    <3>3. Place(S, x) \in Nat
      BY PlaceGrows
    <3>4. ~ (y < x) /\ ~ (x < y)
      BY <3>0, <3>1, <3>2, <3>3
    <3>. QED  BY <3>4 DEF y
  <2>5. Sorted(S)[i] = x
    <3>1. Sorted(S)[i] \in Nat /\ x \in Nat
      BY <2>3
    <3>. HIDE DEF i
    <3>. QED  BY <2>4, <3>1
  <2>. QED  BY <2>2, <2>5
<1>7. \A i, j \in 1..Cardinality(S) : Sorted(S)[i] = Sorted(S)[j] => i = j
  BY <1>3
<1>8. Elems(Sorted(S)) = S
  <2>1. DOMAIN Sorted(S) = 1..Cardinality(S)
    BY <1>2
  <2>. QED  BY <1>3, <1>6, <2>1 DEF Elems
<1>. QED  BY <1>1, <1>4, <1>5, <1>7, <1>8

\* Only(s, at) is a sequence with the elements of s at those places.
LEMMA OnlyIs ==
    ASSUME NEW X, NEW s \in Seq(X), NEW at \in SUBSET DOMAIN s
    PROVE  /\ Only(s, at) \in Seq(X)
           /\ Sorted(at) \in [DOMAIN Only(s, at) -> at]
           /\ \A k \in DOMAIN Only(s, at) : Only(s, at)[k] = s[Sorted(at)[k]]
           /\ \A k, l \in DOMAIN Only(s, at) : Sorted(at)[k] = Sorted(at)[l] => k = l
           /\ Elems(Only(s, at)) = {s[i] : i \in at}
<1>1. DOMAIN s = 1..Len(s) /\ Len(s) \in Nat /\ at \in SUBSET Nat
  OBVIOUS
<1>2. IsFiniteSet(at)
  <2>1. IsFiniteSet(DOMAIN s)
    BY <1>1, FS_Interval
  <2>. QED  BY <2>1, FS_Subset
<1>. DEFINE n == Cardinality(at)
            f == Sorted(at)
            t == Only(s, at)
<1>3. /\ n \in Nat /\ f \in [1..n -> at]
      /\ \A k, l \in 1..n : f[k] = f[l] => k = l
      /\ Elems(f) = at
  BY <1>1, <1>2, SortedIs
<1>4. t = [k \in DOMAIN f |-> s[f[k]]]
  BY DEF Only
<1>. HIDE DEF n, f, t
<1>5. t = [k \in 1..n |-> s[f[k]]]
  BY <1>3, <1>4
<1>6. \A k \in 1..n : f[k] \in at /\ t[k] = s[f[k]] /\ t[k] \in X
  BY <1>1, <1>3, <1>5
<1>7. t \in Seq(X) /\ DOMAIN t = 1..n /\ DOMAIN f = 1..n
  BY <1>3, <1>5, <1>6
<1>8. Elems(t) = {s[i] : i \in at}
  BY <1>3, <1>6, <1>7 DEF Elems
<1>. QED  BY <1>3, <1>6, <1>7, <1>8 DEF f, t

----------------------------------------------------------------------------
(* The tree under a comment *)

\* A level of the tree under c, from the one above it.
Level(g, table, c, n) ==
    IF n = 0 THEN {c} \cap DOMAIN table
    ELSE g[n - 1] \cup {x \in DOMAIN table : table[x].parent \in g[n - 1]}
\* All levels: what Under recurses over.
Levels(g, table, c, N) == g = [n \in 0..N |-> Level(g, table, c, n)]

\* The levels of the tree exist, down to any of them.
LEMMA LevelsExist ==
    ASSUME NEW table, NEW c, NEW N \in Nat
    PROVE  \E g : Levels(g, table, c, N)
<1>. DEFINE A == {n \in Nat : \E g : Levels(g, table, c, n)}
<1>1. 0 \in A
  <2>. DEFINE g == [n \in 0..0 |-> {c} \cap DOMAIN table]
  <2>1. g = [n \in 0..0 |-> Level(g, table, c, n)]
    BY DEF Level
  <2>. HIDE DEF g
  <2>. QED  BY <2>1 DEF Levels
<1>2. ASSUME NEW n \in Nat, n \in A
      PROVE  n + 1 \in A
  <2>1. PICK g : Levels(g, table, c, n)
    BY <1>2
  <2>. DEFINE h == [k \in 0..(n + 1) |-> IF k <= n THEN g[k] ELSE Level(g, table, c, n + 1)]
  <2>2. \A k \in 0..n : h[k] = g[k] /\ g[k] = Level(g, table, c, k)
    BY <2>1 DEF Levels
  <2>3. \A k \in 0..(n + 1) : Level(h, table, c, k) = Level(g, table, c, k)
    <3>1. TAKE k \in 0..(n + 1)
    <3>2. k # 0 => k - 1 \in 0..n
      OBVIOUS
    <3>3. k # 0 => h[k - 1] = g[k - 1]
      BY <2>2, <3>2
    <3>. HIDE DEF h
    <3>. QED  BY <3>3 DEF Level
  <2>4. h[n + 1] = Level(g, table, c, n + 1)
    OBVIOUS
  <2>5. \A k \in 0..(n + 1) : h[k] = Level(h, table, c, k)
    <3>1. TAKE k \in 0..(n + 1)
    <3>2. k \in 0..n \/ k = n + 1
      OBVIOUS
    <3>. HIDE DEF h
    <3>. QED  BY <2>2, <2>3, <2>4, <3>2
  <2>6. h = [k \in 0..(n + 1) |-> h[k]]
    OBVIOUS
  <2>. HIDE DEF h
  <2>7. Levels(h, table, c, n + 1)
    BY <2>5, <2>6 DEF Levels
  <2>. QED  BY <2>7
<1>. HIDE DEF A
<1>3. Nat \subseteq A
  BY <1>1, <1>2, NatInductionOverSets
<1>. QED  BY <1>3 DEF A

\* What is under a comment: the comment, if there is one, and with a comment its replies.
LEMMA UnderIs ==
    ASSUME NEW X, NEW table \in Seq(X), NEW c,
           \A x \in DOMAIN table : table[x].parent \in Nat /\ table[x].parent < x
    PROVE  /\ Under(table, c) \subseteq DOMAIN table
           /\ c \in DOMAIN table => c \in Under(table, c)
           /\ \A x \in DOMAIN table :
                 table[x].parent \in Under(table, c) => x \in Under(table, c)
<1>. DEFINE N == Len(table)
            g == CHOOSE f : Levels(f, table, c, N)
<1>1. N \in Nat /\ DOMAIN table = 1..N
  OBVIOUS
<1>2. Under(table, c) = g[N]
  BY DEF Under, Levels, Level
<1>3. Levels(g, table, c, N)
  BY <1>1, LevelsExist
<1>. HIDE DEF g, N
<1>4. \A n \in 0..N : g[n] = Level(g, table, c, n)
  BY <1>3 DEF Levels
<1>5. \A n \in 0..N : n # 0 => n - 1 \in 0..N /\ g[n] = g[n - 1] \cup
                                    {x \in DOMAIN table : table[x].parent \in g[n - 1]}
  <2>1. \A n \in 0..N : n # 0 => n - 1 \in 0..N
    BY <1>1
  <2>2. \A n \in 0..N : n # 0 => Level(g, table, c, n) = g[n - 1] \cup
                                    {x \in DOMAIN table : table[x].parent \in g[n - 1]}
    BY DEF Level
  <2>. QED  BY <1>4, <2>1, <2>2
<1>6. g[0] = {c} \cap DOMAIN table
  <2>1. 0 \in 0..N
    BY <1>1
  <2>2. Level(g, table, c, 0) = {c} \cap DOMAIN table
    BY DEF Level
  <2>. QED  BY <1>4, <2>1, <2>2
<1>7. \A n \in 0..N : g[n] \subseteq DOMAIN table /\ \A m \in 0..n : g[m] \subseteq g[n]
  <2>. DEFINE A == {n \in Nat : n <= N => /\ g[n] \subseteq DOMAIN table
                                         /\ \A m \in 0..n : g[m] \subseteq g[n]}
  <2>1. 0 \in A
    BY <1>6
  <2>2. ASSUME NEW n \in Nat, n \in A PROVE n + 1 \in A
    <3>1. SUFFICES ASSUME n + 1 <= N
                   PROVE  /\ g[n + 1] \subseteq DOMAIN table
                          /\ \A m \in 0..(n + 1) : g[m] \subseteq g[n + 1]
      OBVIOUS
    <3>2. g[n + 1] = g[n] \cup {x \in DOMAIN table : table[x].parent \in g[n]}
      BY <1>1, <1>5, <3>1
    <3>3. g[n] \subseteq DOMAIN table /\ \A m \in 0..n : g[m] \subseteq g[n]
      BY <2>2, <3>1, <1>1
    <3>4. \A m \in 0..(n + 1) : m \in 0..n \/ m = n + 1
      OBVIOUS
    <3>. QED  BY <3>2, <3>3, <3>4
  <2>. HIDE DEF A
  <2>3. Nat \subseteq A
    BY <2>1, <2>2, NatInductionOverSets
  <2>. QED  BY <1>1, <2>3 DEF A
<1>8. \A n \in 0..N : \A x \in g[n] : x \in g[x]
  <2>. DEFINE A == {n \in Nat : n <= N => \A x \in g[n] : x \in g[x]}
  <2>1. 0 \in A
    <3>1. \A x \in g[0] : x \in 0..N /\ 0 \in 0..x
      BY <1>1, <1>6
    <3>. QED  BY <1>7, <3>1
  <2>2. ASSUME NEW n \in Nat, n \in A PROVE n + 1 \in A
    <3>1. SUFFICES ASSUME n + 1 <= N, NEW x \in g[n + 1] PROVE x \in g[x]
      OBVIOUS
    <3>2. g[n + 1] = g[n] \cup {y \in DOMAIN table : table[y].parent \in g[n]}
      BY <1>1, <1>5, <3>1
    <3>3. \A y \in g[n] : y \in g[y]
      BY <2>2, <3>1, <1>1
    <3>4. CASE x \in g[n]
      BY <3>3, <3>4
    <3>5. CASE x \in DOMAIN table /\ table[x].parent \in g[n]
      <4>. DEFINE y == table[x].parent
      <4>1. y \in g[y] /\ y \in Nat /\ y < x /\ x \in 1..N
        BY <1>1, <3>3, <3>5
      <4>2. y \in 0..(x - 1) /\ x - 1 \in 0..N /\ x \in 0..N /\ x # 0
        BY <1>1, <4>1
      <4>3. y \in g[x - 1]
        BY <1>7, <4>1, <4>2
      <4>. QED  BY <1>5, <3>5, <4>2, <4>3
    <3>. QED  BY <3>1, <3>2, <3>4, <3>5
  <2>. HIDE DEF A
  <2>3. Nat \subseteq A
    BY <2>1, <2>2, NatInductionOverSets
  <2>. QED  BY <1>1, <2>3 DEF A
<1>9. c \in DOMAIN table => c \in g[N]
  <2>1. 0 \in 0..N /\ N \in 0..N
    BY <1>1
  <2>. QED  BY <1>6, <1>7, <2>1
<1>10. ASSUME NEW x \in DOMAIN table, table[x].parent \in g[N]
       PROVE  x \in g[N]
  <2>. DEFINE y == table[x].parent
  <2>1. N \in 0..N /\ x \in 1..N
    BY <1>1
  <2>2. y \in g[y] /\ y \in Nat /\ y < x
    BY <1>8, <1>10, <2>1
  <2>3. y \in 0..(x - 1) /\ x - 1 \in 0..N /\ x \in 0..N /\ x # 0
    BY <1>1, <2>1, <2>2
  <2>4. x \in g[x]
    <3>1. y \in g[x - 1]
      BY <1>7, <2>2, <2>3
    <3>. QED  BY <1>5, <2>3, <3>1
  <2>5. x \in 0..N
    BY <2>3
  <2>. QED  BY <1>7, <2>1, <2>4, <2>5
<1>11. g[N] \subseteq DOMAIN table
  BY <1>1, <1>7
<1>. QED  BY <1>2, <1>9, <1>10, <1>11

\* A list of main comments, or of replies, lists comments of the table.
LEMMA MainListIs ==
    ASSUME NEW X, NEW table \in Seq(X)
    PROVE  MainList(table) \in Seq(Nat) /\ Elems(MainList(table)) \subseteq DOMAIN table
<1>. DEFINE S == {c \in Alive(table) : table[c].parent = 0}
            mains == Sorted(S)
            n == IF Len(mains) < Rows THEN Len(mains) ELSE Rows
<1>1. S \in SUBSET DOMAIN table /\ DOMAIN table = 1..Len(table) /\ Len(table) \in Nat
  BY DEF Alive
<1>2. S \in SUBSET Nat /\ IsFiniteSet(S)
  <2>1. IsFiniteSet(DOMAIN table)
    BY <1>1, FS_Interval
  <2>. HIDE DEF S
  <2>. QED  BY <1>1, <2>1, FS_Subset
<1>. HIDE DEF S
<1>3. mains \in Seq(S) /\ Elems(mains) = S
  BY <1>2, SortedIs
<1>. HIDE DEF mains
<1>4. n \in Nat /\ n <= Len(mains)
  BY <1>3, ServerAssumption
<1>. HIDE DEF n
<1>5. SubSeq(mains, 1, n) \in Seq(S) /\ Elems(SubSeq(mains, 1, n)) \subseteq S
  BY <1>3, <1>4 DEF Elems
<1>6. MainList(table) = SubSeq(mains, 1, n)
  BY DEF MainList, mains, S, n
<1>7. SubSeq(mains, 1, n) \in Seq(Nat)
  BY <1>2, <1>5, SeqMonotonic
<1>. QED  BY <1>1, <1>5, <1>6, <1>7

\* A set of places, in order, is a sequence of all of them.
LEMMA SortedList ==
    ASSUME NEW n \in Nat, NEW S \in SUBSET (1..n)
    PROVE  IsFiniteSet(S) /\ Sorted(S) \in Seq(Nat) /\ Elems(Sorted(S)) = S
<1>1. IsFiniteSet(S) /\ S \in SUBSET Nat
  <2>1. IsFiniteSet(1..n)
    BY FS_Interval
  <2>2. IsFiniteSet(S)
    BY <2>1, FS_Subset
  <2>. QED  BY <2>2
<1>2. Sorted(S) \in [1..Cardinality(S) -> S] /\ Cardinality(S) \in Nat
  BY <1>1, SortedIs
<1>3. Sorted(S) \in Seq(Nat)
  <2>1. Sorted(S) \in Seq(S)
    BY <1>2
  <2>. QED  BY <1>1, <2>1, SeqMonotonic
<1>. QED  BY <1>1, <1>3, SortedIs

\* The rows a find reads are of the table.
LEMMA RowsIn ==
    ASSUME NEW table, NEW c
    PROVE  ReplyRows(table, c) \subseteq DOMAIN table
BY DEF ReplyRows, Alive

\* The round of processCommentMain loses and makes up none.
LEMMA OneRoundIs ==
    ASSUME NEW list \in Seq(Nat)
    PROVE  OneRound(list) \in Seq(Nat) /\ Elems(OneRound(list)) \subseteq Elems(list)
<1>1. CASE Len(list) < 2
  BY <1>1 DEF OneRound
<1>2. CASE ~ (Len(list) < 2)
  <2>1. Len(list) \in Nat /\ DOMAIN list = 1..Len(list) /\ list # << >>
    BY <1>2
  <2>. DEFINE t == Tail(list)
  <2>2. t \in Seq(Nat) /\ Len(t) = Len(list) - 1 /\ \A k \in 1..Len(t) : t[k] = list[k + 1]
    BY <2>1
  <2>3. Head(list) = list[1] /\ Head(list) \in Nat
    BY <2>1, <1>2
  <2>. HIDE DEF t
  <2>. DEFINE r == t \o <<Head(list)>>
  <2>4. r \in Seq(Nat) /\ Len(r) = Len(list) /\ r[Len(list)] = list[1]
        /\ \A k \in 1..Len(t) : r[k] = t[k]
    <3>1. <<Head(list)>> \in Seq(Nat) /\ Len(<<Head(list)>>) = 1
      BY <2>3
    <3>2. /\ r \in Seq(Nat) /\ Len(r) = Len(t) + 1
          /\ \A k \in 1..(Len(t) + 1) : r[k] = IF k <= Len(t) THEN t[k]
                                               ELSE <<Head(list)>>[k - Len(t)]
      BY <2>2, <3>1, ConcatProperties
    <3>. HIDE DEF r
    <3>3. Len(t) + 1 = Len(list) /\ Len(t) \in Nat
      BY <2>1, <2>2
    <3>4. r[Len(list)] = list[1]
      BY <2>3, <3>2, <3>3
    <3>. QED  BY <3>2, <3>3, <3>4
  <2>. HIDE DEF r
  <2>5. \A k \in DOMAIN r : \E l \in DOMAIN list : r[k] = list[l]
    <3>1. TAKE k \in DOMAIN r
    <3>2. k \in 1..Len(list)
      BY <2>4
    <3>3. CASE k = Len(list)
      BY <1>2, <2>1, <2>4, <3>3
    <3>4. CASE k # Len(list)
      <4>1. k \in 1..Len(t) /\ k + 1 \in DOMAIN list
        BY <2>1, <2>2, <3>2, <3>4
      <4>. QED  BY <2>2, <2>4, <4>1
    <3>. QED  BY <3>3, <3>4
  <2>6. OneRound(list) = r
    BY <1>2 DEF OneRound, r, t
  <2>. QED  BY <2>4, <2>5, <2>6 DEF Elems
<1>. QED  BY <1>1, <1>2

----------------------------------------------------------------------------
(* Types *)

\* The values that occur: what was done to an area, words, requests, rows of the tables.
Deeds == {"sent", "erased", "timeout"}
Words == {"long", "short", "whole", "quoted", "cut", "more", "hint", "empty", "none",
          "reply", "main"} \cup Names
Apis  == Writes \cup {"main.find", "reply.find", "signup", "signin"}

Comments  == [user : Nat, parent : Nat, deleted : BOOLEAN, text : Words, period : Int,
              why : SUBSET Deeds]
Users     == [name : Names \cup Elems(Members), last : Nat]
Responses == [ok : BOOLEAN, list : Seq(Nat)]
Requests  == [page : Pages \cup {NoPage}, user : Nat, api : Apis, at : Nat, box : Nat,
              text : Words, why : SUBSET Deeds, phase : {"sent", "begun", "answered"},
              seen : Seq(Comments), answer : Responses]
Areas     == [head : {"hint", "prefix", "none"}, typed : BOOLEAN,
              btn : {"unset", "on", "off"}, info : Nat]
Timeouts  == [box : Nat, newest : BOOLEAN]

\* The types of the tables, and of what the pages keep.
TableTypes   == /\ comments \in Seq(Comments) /\ users \in Seq(Users)
                /\ cacheMain \subseteq Seq(Nat) /\ cacheReply \in [Ids -> SUBSET SUBSET Nat]
                /\ period \in Nat
SessionTypes == /\ where \in [Pages -> {"login", "home", "broken"}]
                /\ cookie \in [Pages -> Int] /\ me \in [Pages -> Nat]
ShownTypes   == boxes \in [Pages -> Seq(Nat)] /\ listed \in [Pages -> [Ids -> Seq(Nat)]]
WritingTypes == /\ areas \in [Pages -> [Ids -> Areas]] /\ focus \in [Pages -> Nat]
                /\ pending \in [Pages -> Seq(Timeouts)]
                /\ written \in [Pages -> [Ids -> SUBSET Deeds]]

\* Words that are not what was typed come with what was done to them.
WordsOK(r) == /\ r.text \in {"cut", "more"} => r.why \cap {"erased", "timeout"} # {}
              /\ r.text = "hint" => r.why \cap {"sent", "timeout"} # {}

\* A comment follows its parent, and its author is there.
CommentsOK == /\ Len(comments) <= MaxComments
              /\ \A c \in DOMAIN comments : /\ comments[c].parent < c
                                            /\ comments[c].user \in DOMAIN users
                                            /\ WordsOK(comments[c])
\* What is cached is in the table, be it stale.
CachesOK == /\ \A found \in cacheMain : Elems(found) \subseteq DOMAIN comments
            /\ \A c \in Ids : \A rows \in cacheReply[c] : rows \subseteq DOMAIN comments

\* Of a request when cs are the comments and us the users: its snapshot is of an earlier
\* table, with the same parents; what the answer lists is there, and so is what the
\* request is about and who sent it.
SeenOK(seen, cs) == /\ Len(seen) <= Len(cs)
                    /\ \A c \in DOMAIN seen : seen[c].parent = cs[c].parent
AnswerOK(api, a, cs, us) ==
    IF api = "signin" THEN Elems(a.list) \subseteq DOMAIN us /\ (a.ok => a.list # << >>)
    ELSE Elems(a.list) \subseteq DOMAIN cs
AboutOK(r, cs, us) ==
    /\ r.api \notin {"signup", "signin"} => r.user \in DOMAIN us
    /\ r.api = "main.add" => r.at = 0 /\ r.text \in {"long", "short"}
    /\ r.api \in {"reply.add", "delete", "reply.find"} => r.at \in DOMAIN cs
    /\ r.api = "reply.add" => WordsOK(r) /\ r.box # 0
    /\ r.api \in {"signup", "signin"} => r.text \in Names
    /\ r.box <= Len(cs)
RequestOK(r, cs, us) == /\ AboutOK(r, cs, us) /\ SeenOK(r.seen, cs)
                        /\ AnswerOK(r.api, r.answer, cs, us)
\* All requests are so.
RequestsOK == /\ reqs \in Seq(Requests)
              /\ \A i \in DOMAIN reqs : RequestOK(reqs[i], comments, users)

\* Who a page is signed in as is a user; what it shows is there.
CookieOK(p) == /\ cookie[p] \in {NoCookie, NullCookie} \cup DOMAIN users
               /\ where[p] = "home" => me[p] \in DOMAIN users
ShownOK(p)  == /\ Elems(boxes[p]) \subseteq DOMAIN comments
               /\ \A m \in Ids : Elems(listed[p][m]) \subseteq DOMAIN comments

\* Of the area a of the box m, with w what was done to it, where f has the focus: what may
\* be sent, or become so by typing, and is not what was typed.
AreaOK(a, w, m, f) ==
    /\ a.btn = "on" /\ ~ a.typed /\ a.head # "prefix" => w \cap {"sent", "timeout"} # {}
    /\ a.head = "hint" /\ (a.typed \/ f = m) => w \cap {"erased", "timeout"} # {}
    /\ a.info # 0 /\ a.head # "prefix" => w \cap {"erased", "timeout"} # {}
    /\ a.head = "prefix" => a.info # 0
\* The areas of a page, its focus and its timeouts are of boxes it shows.
WritingOK(p) == /\ \A m \in Ids : /\ areas[p][m].info <= Len(comments)
                                  /\ AreaOK(areas[p][m], written[p][m], m, focus[p])
                /\ focus[p] \in {0} \cup Elems(boxes[p])
                /\ \A i \in DOMAIN pending[p] : pending[p][i].box \in Elems(boxes[p])

\* The invariant of the server.
ServerInv == TableTypes /\ CommentsOK /\ CachesOK
\* The invariant of the pages.
PagesInv  == /\ SessionTypes /\ ShownTypes /\ WritingTypes
             /\ \A p \in Pages : CookieOK(p) /\ ShownOK(p) /\ WritingOK(p)

\* The requests of a page that are not to sign up or in are of one that is at home.
AtHome    == \A i \in DOMAIN reqs :
                reqs[i].page # NoPage /\ reqs[i].api \notin {"signup", "signin"}
                => where[reqs[i].page] = "home"
\* The inductive invariant: no part of it is kept without the others.
TypeInv   == ServerInv /\ RequestsOK /\ PagesInv /\ AtHome

----------------------------------------------------------------------------
(* The tables only grow, and what is about them stays right *)

\* A step of the server keeps the comments there are, their parents, and the users.
Grows == /\ Len(comments) <= Len(comments') /\ DOMAIN comments \subseteq DOMAIN comments'
         /\ \A c \in DOMAIN comments : comments'[c].parent = comments[c].parent
         /\ DOMAIN users \subseteq DOMAIN users'

\* Then a request is about what there is, as it was.
LEMMA RequestStays ==
    ASSUME Grows, ServerInv, TableTypes', NEW r \in Requests, RequestOK(r, comments, users)
    PROVE  RequestOK(r, comments', users')
<1>0. /\ DOMAIN comments = 1..Len(comments) /\ Len(comments) \in Nat
      /\ DOMAIN comments' = 1..Len(comments') /\ Len(comments') \in Nat
  BY DEF ServerInv, TableTypes
<1>1. r.seen \in Seq(Comments) /\ DOMAIN r.seen = 1..Len(r.seen) /\ Len(r.seen) \in Nat
      /\ r.box \in Nat
  BY DEF Requests
<1>2. SeenOK(r.seen, comments')
  BY <1>0, <1>1 DEF Grows, RequestOK, SeenOK
<1>3. AboutOK(r, comments', users')
  BY <1>0, <1>1 DEF Grows, RequestOK, AboutOK
<1>4. AnswerOK(r.api, r.answer, comments', users')
  BY DEF Grows, RequestOK, AnswerOK
<1>. QED  BY <1>2, <1>3, <1>4 DEF RequestOK

\* And so are the pages, if the step is not theirs.
LEMMA PagesStay ==
    ASSUME Grows, ServerInv, TableTypes', PagesInv, UNCHANGED <<page, past>>
    PROVE  PagesInv'
<1>0. /\ DOMAIN comments = 1..Len(comments) /\ Len(comments) \in Nat
      /\ DOMAIN comments' = 1..Len(comments') /\ Len(comments') \in Nat
  BY DEF ServerInv, TableTypes
<1>1. UNCHANGED <<where, cookie, me, boxes, listed, areas, focus, pending, written>>
  BY DEF page, past, session, shown, writing
<1>2. SessionTypes' /\ ShownTypes' /\ WritingTypes'
  BY <1>1 DEF PagesInv, SessionTypes, ShownTypes, WritingTypes
<1>3. ASSUME NEW p \in Pages PROVE CookieOK(p)' /\ ShownOK(p)' /\ WritingOK(p)'
  <2>1. CookieOK(p) /\ ShownOK(p) /\ WritingOK(p)
    BY DEF PagesInv
  <2>2. CookieOK(p)'
    BY <1>1, <2>1 DEF CookieOK, Grows
  <2>3. ShownOK(p)'
    BY <1>1, <2>1 DEF ShownOK, Grows
  <2>4. WritingOK(p)'
    <3>1. \A m \in Ids : areas[p][m].info \in Nat
      BY DEF PagesInv, WritingTypes, Areas
    <3>. QED  BY <1>0, <1>1, <2>1, <3>1 DEF WritingOK, Grows
  <2>. QED  BY <2>2, <2>3, <2>4
<1>. QED  BY <1>2, <1>3 DEF PagesInv

----------------------------------------------------------------------------
(* What is left of the requests *)

AnsweredWith(r, a) == [r EXCEPT !.phase = "answered", !.answer = a, !.seen = << >>]

\* A request that is answered is answered, or gone; the others are what they were.
LEMMA AnswersGives ==
    ASSUME reqs \in Seq(Requests), NEW i \in DOMAIN reqs, NEW a \in Responses, Answers(i, a)
    PROVE  /\ reqs' \in Seq(Requests)
           /\ \E f \in [DOMAIN reqs' -> DOMAIN reqs] :
                 /\ \A k, l \in DOMAIN reqs' : f[k] = f[l] => k = l
                 /\ \A k \in DOMAIN reqs' : reqs'[k] = IF f[k] = i THEN AnsweredWith(reqs[i], a)
                                                       ELSE reqs[f[k]]
<1>1. DOMAIN reqs = 1..Len(reqs) /\ Len(reqs) \in Nat /\ \A j \in DOMAIN reqs : reqs[j] \in Requests
  OBVIOUS
<1>2. CASE reqs[i].page = NoPage
  <2>. DEFINE at == DOMAIN reqs \ {i}
              f == Sorted(at)
              s == Only(reqs, at)
  <2>1. reqs' = s
    BY <1>2 DEF Answers, Without
  <2>2. at \in SUBSET DOMAIN reqs
    OBVIOUS
  <2>3. /\ s \in Seq(Requests) /\ f \in [DOMAIN s -> at]
        /\ \A k \in DOMAIN s : s[k] = reqs[f[k]]
        /\ \A k, l \in DOMAIN s : f[k] = f[l] => k = l
    <3>. HIDE DEF at
    <3>. QED  BY <2>2, OnlyIs
  <2>. HIDE DEF f, s
  <2>4. f \in [DOMAIN s -> DOMAIN reqs] /\ \A k \in DOMAIN s : f[k] # i
    BY <2>3
  <2>. QED  BY <2>1, <2>3, <2>4
<1>3. CASE reqs[i].page # NoPage
  <2>. DEFINE f == [k \in DOMAIN reqs |-> k]
              r == AnsweredWith(reqs[i], a)
  <2>1. reqs' = [reqs EXCEPT ![i] = r]
    BY <1>3 DEF Answers, AnsweredWith
  <2>2. r \in Requests
    <3>1. << >> \in Seq(Comments)
      OBVIOUS
    <3>. QED  BY <1>1, <3>1 DEF AnsweredWith, Requests
  <2>. HIDE DEF r
  <2>3. reqs' \in Seq(Requests) /\ DOMAIN reqs' = DOMAIN reqs
    BY <1>1, <2>1, <2>2, ExceptSeq
  <2>4. \A k \in DOMAIN reqs : reqs'[k] = IF k = i THEN r ELSE reqs[k]
    BY <1>1, <2>1
  <2>5. f \in [DOMAIN reqs' -> DOMAIN reqs] /\ \A k \in DOMAIN reqs : f[k] = k
    BY <2>3
  <2>. HIDE DEF f
  <2>. QED  BY <2>3, <2>4, <2>5 DEF r
<1>. QED  BY <1>2, <1>3

\* A request that begins has its snapshot; the others are what they were.
LEMMA BeginsGives ==
    ASSUME reqs \in Seq(Requests), comments \in Seq(Comments), NEW i \in DOMAIN reqs, Begins(i)
    PROVE  /\ reqs' \in Seq(Requests) /\ DOMAIN reqs' = DOMAIN reqs
           /\ \A k \in DOMAIN reqs :
                 reqs'[k] = IF k = i THEN [reqs[i] EXCEPT !.phase = "begun", !.seen = comments]
                            ELSE reqs[k]
<1>. DEFINE r == [reqs[i] EXCEPT !.phase = "begun", !.seen = comments]
<1>1. DOMAIN reqs = 1..Len(reqs) /\ \A j \in DOMAIN reqs : reqs[j] \in Requests
  OBVIOUS
<1>2. reqs' = [reqs EXCEPT ![i] = r]
  BY DEF Begins
<1>3. r \in Requests
  BY <1>1 DEF Requests
<1>. HIDE DEF r
<1>4. reqs' \in Seq(Requests) /\ DOMAIN reqs' = DOMAIN reqs
  BY <1>1, <1>2, <1>3, ExceptSeq
<1>5. \A k \in DOMAIN reqs : reqs'[k] = IF k = i THEN r ELSE reqs[k]
  BY <1>1, <1>2
<1>. QED  BY <1>4, <1>5 DEF r

\* When the tables have only grown and what is answered is there, all requests are as they
\* should be.
LEMMA AnsweredOK ==
    ASSUME ServerInv, RequestsOK, Grows, TableTypes', NEW i \in DOMAIN reqs, NEW a \in Responses,
           Answers(i, a), AnswerOK(reqs[i].api, a, comments', users')
    PROVE  RequestsOK'
<1>1. PICK f \in [DOMAIN reqs' -> DOMAIN reqs] :
         \A k \in DOMAIN reqs' : reqs'[k] = IF f[k] = i THEN AnsweredWith(reqs[i], a)
                                            ELSE reqs[f[k]]
  BY AnswersGives DEF RequestsOK
<1>2. reqs' \in Seq(Requests)
  BY AnswersGives DEF RequestsOK
<1>3. \A j \in DOMAIN reqs : reqs[j] \in Requests /\ RequestOK(reqs[j], comments', users')
  <2>1. \A j \in DOMAIN reqs : reqs[j] \in Requests /\ RequestOK(reqs[j], comments, users)
    BY DEF RequestsOK
  <2>. QED  BY <2>1, RequestStays
<1>4. RequestOK(AnsweredWith(reqs[i], a), comments', users')
  <2>1. reqs[i] \in Requests /\ RequestOK(reqs[i], comments', users')
    BY <1>3
  <2>. DEFINE r == AnsweredWith(reqs[i], a)
  <2>2. /\ r.api = reqs[i].api /\ r.user = reqs[i].user /\ r.at = reqs[i].at
        /\ r.text = reqs[i].text /\ r.why = reqs[i].why /\ r.box = reqs[i].box
        /\ r.seen = << >> /\ r.answer = a
    BY <2>1 DEF AnsweredWith, Requests
  <2>. HIDE DEF r
  <2>3. AboutOK(r, comments', users')
    BY <2>1, <2>2 DEF RequestOK, AboutOK, WordsOK
  <2>4. SeenOK(r.seen, comments')
    <3>1. Len(comments') \in Nat
      BY DEF TableTypes
    <3>. QED  BY <2>2, <3>1 DEF SeenOK
  <2>. QED  BY <2>2, <2>3, <2>4 DEF RequestOK, r
<1>. QED  BY <1>1, <1>2, <1>3, <1>4 DEF RequestsOK

\* Then all requests are as they should be.
LEMMA BegunOK ==
    ASSUME ServerInv, RequestsOK, NEW i \in DOMAIN reqs, Begins(i), UNCHANGED tables
    PROVE  RequestsOK'
<1>0. comments \in Seq(Comments) /\ reqs \in Seq(Requests) /\ UNCHANGED <<comments, users>>
  BY DEF ServerInv, TableTypes, RequestsOK, tables
<1>1. /\ reqs' \in Seq(Requests) /\ DOMAIN reqs' = DOMAIN reqs
      /\ \A k \in DOMAIN reqs :
            reqs'[k] = IF k = i THEN [reqs[i] EXCEPT !.phase = "begun", !.seen = comments]
                       ELSE reqs[k]
  BY <1>0, BeginsGives
<1>2. \A j \in DOMAIN reqs : reqs[j] \in Requests /\ RequestOK(reqs[j], comments, users)
  BY DEF RequestsOK
<1>3. RequestOK([reqs[i] EXCEPT !.phase = "begun", !.seen = comments], comments, users)
  <2>. DEFINE r == [reqs[i] EXCEPT !.phase = "begun", !.seen = comments]
  <2>1. reqs[i] \in Requests /\ RequestOK(reqs[i], comments, users)
    BY <1>2
  <2>2. /\ r.api = reqs[i].api /\ r.user = reqs[i].user /\ r.at = reqs[i].at
        /\ r.text = reqs[i].text /\ r.why = reqs[i].why /\ r.box = reqs[i].box /\ r.seen = comments
        /\ r.answer = reqs[i].answer
    BY <2>1 DEF Requests
  <2>. HIDE DEF r
  <2>3. AboutOK(r, comments, users) /\ AnswerOK(r.api, r.answer, comments, users)
    BY <2>1, <2>2 DEF RequestOK, AboutOK, WordsOK
  <2>4. SeenOK(r.seen, comments)
    <3>1. Len(comments) \in Nat
      BY <1>0
    <3>. QED  BY <2>2, <3>1 DEF SeenOK
  <2>. QED  BY <2>3, <2>4 DEF RequestOK, r
<1>. QED  BY <1>0, <1>1, <1>2, <1>3 DEF RequestsOK

----------------------------------------------------------------------------
(* The steps of the server *)

\* A failure lists nothing.
LEMMA NoAnswerIs ==
    ASSUME NEW api, NEW cs, NEW us
    PROVE  NoAnswer \in Responses /\ AnswerOK(api, NoAnswer, cs, us)
BY DEF NoAnswer, Responses, AnswerOK, Elems

\* Neither does the answer to a write.
LEMMA DoneIs ==
    ASSUME NEW api, api # "signin", NEW cs, NEW us
    PROVE  /\ [ok |-> TRUE, list |-> << >>] \in Responses
           /\ AnswerOK(api, [ok |-> TRUE, list |-> << >>], cs, us)
BY DEF Responses, AnswerOK, Elems

\* The replies that are answered are in the table.
LEMMA RepliesIs ==
    ASSUME comments \in Seq(Comments), NEW c, NEW rows \in SUBSET DOMAIN comments
    PROVE  Replies(c, rows) \in Responses /\ Elems(Replies(c, rows).list) \subseteq DOMAIN comments
<1>1. DOMAIN comments = 1..Len(comments) /\ Len(comments) \in Nat
  OBVIOUS
<1>2. CASE rows = {} \/ ~ Readable(rows)
  BY <1>2, NoAnswerIs DEF Replies, NoAnswer, Elems
<1>3. CASE ~ (rows = {} \/ ~ Readable(rows))
  <2>1. Replies(c, rows) = [ok |-> TRUE, list |-> Sorted(rows \ {c})]
    BY <1>3 DEF Replies
  <2>2. Sorted(rows \ {c}) \in Seq(Nat) /\ Elems(Sorted(rows \ {c})) = rows \ {c}
    BY <1>1, SortedList
  <2>. DEFINE list == Sorted(rows \ {c})
  <2>. HIDE DEF list
  <2>3. [ok |-> TRUE, list |-> list] \in Responses /\ Elems(list) \subseteq DOMAIN comments
    BY <2>2 DEF Responses, list
  <2>4. Replies(c, rows) = [ok |-> TRUE, list |-> list]
    BY <2>1 DEF list
  <2>5. Replies(c, rows).list = list
    BY <2>4
  <2>. QED  BY <2>3, <2>4, <2>5
<1>. QED  BY <1>2, <1>3

\* With the tables as they were, what the server knows is right as before.
LEMMA TablesSame ==
    ASSUME ServerInv, UNCHANGED <<tables, caches, period>>
    PROVE  Grows /\ ServerInv'
<1>1. UNCHANGED <<comments, users, cacheMain, cacheReply, period>>
  BY DEF tables, caches
<1>2. Len(comments) \in Nat
  BY DEF ServerInv, TableTypes
<1>3. Grows
  BY <1>1, <1>2 DEF Grows
<1>4. TableTypes' /\ CommentsOK' /\ CachesOK'
  BY <1>1 DEF ServerInv, TableTypes, CommentsOK, CachesOK
<1>. QED  BY <1>3, <1>4 DEF ServerInv

\* The answer to a sign-in.
LEMMA SignInAnswer ==
    ASSUME ServerInv, NEW name, Cardinality(Named(name)) = 1
    PROVE  /\ [ok |-> TRUE, list |-> Sorted(Named(name))] \in Responses
           /\ AnswerOK("signin", [ok |-> TRUE, list |-> Sorted(Named(name))], comments, users)
<1>. DEFINE S == Named(name)
<1>1. S \in SUBSET (1..Len(users)) /\ Len(users) \in Nat /\ DOMAIN users = 1..Len(users)
  BY DEF Named, ServerInv, TableTypes
<1>. HIDE DEF S
<1>2. IsFiniteSet(S) /\ Sorted(S) \in Seq(Nat) /\ Elems(Sorted(S)) = S
  BY <1>1, SortedList
<1>3. S # {}
  BY <1>2, FS_EmptySet DEF S
<1>4. Sorted(S) # << >>
  <2>1. Elems(<< >>) = {}
    BY DEF Elems
  <2>. QED  BY <1>2, <1>3, <2>1
<1>. QED  BY <1>1, <1>2, <1>4 DEF Responses, AnswerOK, S

\* A request begins if it may.
Starts(i) == /\ Begins(i) /\ reqs[i].phase = "sent"
             /\ UNCHANGED <<comments, users, cacheMain, cacheReply, period>>
             /\ reqs[i].api = "main.add" => ~ TooFast(reqs[i].user)
             /\ reqs[i].api = "reply.add" => reqs[i].at \in Alive(comments)
             /\ reqs[i].api = "signup" => Named(reqs[i].text) = {}

\* A request that begins goes on, or is answered at once.
LEMMA BeginGives ==
    ASSUME ServerInv, RequestsOK, NEW i \in DOMAIN reqs, Begin(i)
    PROVE  \/ Starts(i)
           \/ \E a \in Responses : Answers(i, a) /\ AnswerOK(reqs[i].api, a, comments, users)
<1>0. reqs[i] \in Requests /\ RequestOK(reqs[i], comments, users)
  BY DEF RequestsOK
<1>1. Answers(i, NoAnswer)
      => \E a \in Responses : Answers(i, a) /\ AnswerOK(reqs[i].api, a, comments, users)
  BY NoAnswerIs
<1>2. CASE reqs[i].api \in {"main.add", "reply.add", "delete", "signup"}
  BY <1>1, <1>2 DEF Begin, Starts, tables, caches
<1>3. CASE reqs[i].api = "signin"
  <2>1. CASE Cardinality(Named(reqs[i].text)) # 1
    BY <1>1, <1>3, <2>1 DEF Begin, Starts, tables, caches
  <2>2. CASE Cardinality(Named(reqs[i].text)) = 1
    BY <1>3, <2>2, SignInAnswer DEF Begin, Starts, tables, caches
  <2>. QED  BY <2>1, <2>2
<1>4. CASE reqs[i].api = "main.find"
  <2>1. Starts(i) \/ \E found \in cacheMain : Answers(i, [ok |-> TRUE, list |-> found])
    BY <1>4 DEF Begin, Starts, tables, caches
  <2>2. \A found \in cacheMain : /\ [ok |-> TRUE, list |-> found] \in Responses
                                 /\ Elems(found) \subseteq DOMAIN comments
    BY DEF ServerInv, TableTypes, CachesOK, Responses
  <2>. QED  BY <1>4, <2>1, <2>2 DEF AnswerOK
<1>5. CASE reqs[i].api = "reply.find"
  <2>1. Starts(i) \/ \E rows \in cacheReply[reqs[i].at] : Answers(i, Replies(reqs[i].at, rows))
    BY <1>5 DEF Begin, Starts, tables, caches
  <2>2. reqs[i].at \in Ids
    BY <1>0, <1>5, ServerAssumption DEF RequestOK, AboutOK, ServerInv, TableTypes, CommentsOK, Ids
  <2>3. \A rows \in cacheReply[reqs[i].at] : rows \in SUBSET DOMAIN comments
    BY <2>2 DEF ServerInv, CachesOK
  <2>4. \A rows \in cacheReply[reqs[i].at] :
           /\ Replies(reqs[i].at, rows) \in Responses
           /\ Elems(Replies(reqs[i].at, rows).list) \subseteq DOMAIN comments
    BY <2>3, RepliesIs DEF ServerInv, TableTypes
  <2>. QED  BY <1>5, <2>1, <2>4 DEF AnswerOK
<1>6. reqs[i].api \in Apis
  BY <1>0 DEF Requests
<1>. QED  BY <1>2, <1>3, <1>4, <1>5, <1>6 DEF Apis, Writes

\* The steps of a request, one by one: each leaves tables and requests as they should be.
LEMMA BeginOK ==
    ASSUME ServerInv, RequestsOK, NEW i \in DOMAIN reqs, Begin(i)
    PROVE  Grows /\ ServerInv' /\ RequestsOK'
<1>1. UNCHANGED <<tables, caches, period>> /\ UNCHANGED <<comments, users>>
  BY DEF Begin, tables
<1>2. Grows /\ ServerInv' /\ TableTypes'
  BY <1>1, TablesSame DEF ServerInv
<1>4. Begins(i) \/ \E a \in Responses : Answers(i, a) /\ AnswerOK(reqs[i].api, a, comments, users)
  BY BeginGives DEF Starts
<1>5. CASE Begins(i)
  BY <1>1, <1>2, <1>5, BegunOK DEF tables
<1>6. CASE \E a \in Responses : Answers(i, a) /\ AnswerOK(reqs[i].api, a, comments, users)
  BY <1>1, <1>2, <1>6, AnsweredOK
<1>. QED  BY <1>2, <1>4, <1>5, <1>6

\* The writes: what is inserted is a comment of the table.
LEMMA InsertedOK ==
    ASSUME ServerInv, NEW r \in Requests, RequestOK(r, comments, users),
           r.api \in {"main.add", "reply.add"}, Len(comments) < MaxComments, Inserted(r),
           users' \in Seq(Users), DOMAIN users' = DOMAIN users, Emptied, UNCHANGED period
    PROVE  /\ Grows /\ ServerInv'
           /\ Len(comments') = Len(comments) + 1
           /\ \A c \in DOMAIN comments : comments'[c] = comments[c]
           /\ comments'[Len(comments) + 1] = [user |-> r.user, parent |-> r.at, deleted |-> FALSE,
                                  text |-> r.text, period |-> period, why |-> r.why]
<1>. DEFINE new == [user |-> r.user, parent |-> r.at, deleted |-> FALSE,
                    text |-> r.text, period |-> period, why |-> r.why]
            n == Len(comments)
<1>1. comments \in Seq(Comments) /\ n \in Nat /\ DOMAIN comments = 1..n /\ period \in Nat
      /\ MaxComments \in Nat
  BY ServerAssumption DEF ServerInv, TableTypes
<1>2. new \in Comments
  BY <1>1 DEF Requests, Comments
<1>3. new.user = r.user /\ new.parent = r.at
  OBVIOUS
<1>4. comments' = Append(comments, new)
  BY DEF Inserted
<1>. HIDE DEF new
<1>5. /\ comments' \in Seq(Comments) /\ Len(comments') = n + 1 /\ comments'[n + 1] = new
      /\ \A c \in 1..n : comments'[c] = comments[c]
  BY <1>1, <1>2, <1>4
<1>6. DOMAIN comments' = 1..(n + 1)
  BY <1>5
<1>. HIDE DEF n
<1>7. Grows
  BY <1>1, <1>5, <1>6 DEF Grows, n
<1>8. r.at \in Nat /\ r.at < n + 1 /\ r.user \in DOMAIN users
  BY <1>1 DEF RequestOK, AboutOK
<1>9. CommentsOK'
  <2>1. \A c \in 1..n : /\ comments[c].parent < c /\ comments[c].user \in DOMAIN users
                        /\ WordsOK(comments[c])
    BY <1>1 DEF ServerInv, CommentsOK
  <2>2. \A c \in 1..(n + 1) : c \in 1..n \/ c = n + 1
    BY <1>1
  <2>3. n + 1 <= MaxComments
    BY <1>1 DEF n
  <2>4. WordsOK(new)
    <3>1. new.text = r.text /\ new.why = r.why
      BY DEF new
    <3>2. r.text \in {"long", "short"} \/ WordsOK(r)
      BY DEF RequestOK, AboutOK
    <3>. QED  BY <3>1, <3>2 DEF WordsOK
  <2>. QED  BY <1>3, <1>5, <1>6, <1>8, <2>1, <2>2, <2>3, <2>4 DEF CommentsOK
<1>10. cacheMain' = {} /\ cacheReply' \in [Ids -> {{}}]
  BY DEF Emptied, ServerInv, TableTypes
<1>11. TableTypes'
  BY <1>1, <1>5, <1>10 DEF TableTypes
<1>12. CachesOK'
  BY <1>10 DEF CachesOK
<1>. QED  BY <1>1, <1>5, <1>7, <1>9, <1>11, <1>12 DEF ServerInv, new, n

\* addMain leaves tables and requests as they should be.
LEMMA AddMainOK ==
    ASSUME ServerInv, RequestsOK, NEW i \in DOMAIN reqs, AddMain(i), UNCHANGED period
    PROVE  Grows /\ ServerInv' /\ RequestsOK'
<1>1. reqs[i] \in Requests /\ RequestOK(reqs[i], comments, users) /\ reqs[i].api = "main.add"
  BY DEF RequestsOK, AddMain
<1>2. users' \in Seq(Users) /\ DOMAIN users' = DOMAIN users
  <2>1. users' = [users EXCEPT ![reqs[i].user].last = period]
    BY DEF AddMain
  <2>2. users \in Seq(Users) /\ period \in Nat /\ reqs[i].user \in 1..Len(users)
    BY <1>1 DEF ServerInv, TableTypes, RequestOK, AboutOK
  <2>. DEFINE u == [users[reqs[i].user] EXCEPT !.last = period]
  <2>3. u \in Users
    <3>1. users[reqs[i].user] \in Users
      BY <2>2
    <3>. QED  BY <2>2, <3>1 DEF Users
  <2>4. users' = [users EXCEPT ![reqs[i].user] = u]
    BY <2>1
  <2>. HIDE DEF u
  <2>. QED  BY <2>2, <2>3, <2>4, ExceptSeq
<1>3. Grows /\ ServerInv'
  BY <1>1, <1>2, InsertedOK DEF AddMain
<1>4. RequestsOK'
  BY <1>1, <1>3, DoneIs, AnsweredOK DEF AddMain, ServerInv
<1>. QED  BY <1>3, <1>4

\* So does addReply.
LEMMA AddReplyOK ==
    ASSUME ServerInv, RequestsOK, NEW i \in DOMAIN reqs, AddReply(i), UNCHANGED period
    PROVE  Grows /\ ServerInv' /\ RequestsOK'
<1>1. reqs[i] \in Requests /\ RequestOK(reqs[i], comments, users) /\ reqs[i].api = "reply.add"
  BY DEF RequestsOK, AddReply
<1>2. users' \in Seq(Users) /\ DOMAIN users' = DOMAIN users
  BY DEF AddReply, ServerInv, TableTypes
<1>3. Grows /\ ServerInv'
  BY <1>1, <1>2, InsertedOK DEF AddReply
<1>4. RequestsOK'
  BY <1>1, <1>3, DoneIs, AnsweredOK DEF AddReply, ServerInv
<1>. QED  BY <1>3, <1>4

\* deleteReply: the rows stay, marked.
LEMMA DeleteOK ==
    ASSUME ServerInv, RequestsOK, NEW i \in DOMAIN reqs, Delete(i), UNCHANGED period
    PROVE  Grows /\ ServerInv' /\ RequestsOK'
<1>. DEFINE gone == Under(reqs[i].seen, reqs[i].at) \cap Alive(comments)
<1>1. comments \in Seq(Comments) /\ Len(comments) \in Nat /\ DOMAIN comments = 1..Len(comments)
  BY DEF ServerInv, TableTypes
<1>2. reqs[i].api = "delete" /\ UNCHANGED users
  BY DEF Delete
<1>3. CASE gone = {}
  <2>1. UNCHANGED <<tables, caches, period>> /\ Answers(i, NoAnswer)
    BY <1>2, <1>3 DEF Delete, tables
  <2>2. Grows /\ ServerInv'
    BY <2>1, TablesSame
  <2>. QED  BY <2>1, <2>2, NoAnswerIs, AnsweredOK DEF ServerInv
<1>4. CASE gone # {}
  <2>1. /\ comments' = [c \in DOMAIN comments |->
                          IF c \in gone THEN [comments[c] EXCEPT !.deleted = TRUE] ELSE comments[c]]
        /\ Emptied /\ Answers(i, [ok |-> TRUE, list |-> << >>])
    BY <1>4 DEF Delete
  <2>. HIDE DEF gone
  <2>2. \A c \in DOMAIN comments : /\ comments[c] \in Comments /\ comments'[c] \in Comments
                                   /\ comments'[c].parent = comments[c].parent
                                   /\ comments'[c].user = comments[c].user
                                   /\ comments'[c].text = comments[c].text
                                   /\ comments'[c].why = comments[c].why
    <3>1. \A c \in DOMAIN comments : comments[c] \in Comments
      BY <1>1
    <3>2. ASSUME NEW r \in Comments PROVE /\ [r EXCEPT !.deleted = TRUE] \in Comments
                                          /\ [r EXCEPT !.deleted = TRUE].parent = r.parent
                                          /\ [r EXCEPT !.deleted = TRUE].user = r.user
                                          /\ [r EXCEPT !.deleted = TRUE].text = r.text
                                          /\ [r EXCEPT !.deleted = TRUE].why = r.why
      BY DEF Comments
    <3>. QED  BY <2>1, <3>1, <3>2
  <2>3. comments' \in Seq(Comments) /\ Len(comments') = Len(comments)
        /\ DOMAIN comments' = DOMAIN comments
    BY <1>1, <2>1, <2>2
  <2>4. Grows
    BY <1>1, <1>2, <2>2, <2>3 DEF Grows
  <2>5. CommentsOK'
    BY <1>2, <2>2, <2>3 DEF ServerInv, CommentsOK, WordsOK
  <2>6. cacheMain' = {} /\ cacheReply' \in [Ids -> {{}}]
    BY <2>1 DEF Emptied, ServerInv, TableTypes
  <2>7. TableTypes'
    BY <1>2, <2>3, <2>6 DEF TableTypes, ServerInv
  <2>8. CachesOK'
    BY <2>6 DEF CachesOK
  <2>. QED  BY <1>2, <2>1, <2>4, <2>5, <2>7, <2>8, DoneIs, AnsweredOK DEF ServerInv
<1>. QED  BY <1>3, <1>4

\* findMain: what was read may be old, but is in the table.
LEMMA FindMainOK ==
    ASSUME ServerInv, RequestsOK, NEW i \in DOMAIN reqs, FindMain(i), UNCHANGED period
    PROVE  Grows /\ ServerInv' /\ RequestsOK'
<1>. DEFINE r == reqs[i]
            found == MainList(r.seen)
<1>1. r \in Requests /\ RequestOK(r, comments, users)
  BY DEF RequestsOK
<1>2. r.seen \in Seq(Comments) /\ DOMAIN r.seen \subseteq DOMAIN comments
  <2>1. r.seen \in Seq(Comments)
    BY <1>1 DEF Requests
  <2>2. comments \in Seq(Comments) /\ Len(r.seen) <= Len(comments)
    BY <1>1 DEF ServerInv, TableTypes, RequestOK, SeenOK
  <2>. HIDE DEF r
  <2>. QED  BY <2>1, <2>2
<1>3. found \in Seq(Nat) /\ Elems(found) \subseteq DOMAIN comments
  <2>1. found \in Seq(Nat) /\ Elems(found) \subseteq DOMAIN r.seen
    BY <1>2, MainListIs
  <2>. QED  BY <1>2, <2>1
<1>4. /\ r.api = "main.find" /\ cacheMain' = {found} /\ Answers(i, [ok |-> TRUE, list |-> found])
      /\ UNCHANGED <<comments, users, cacheReply>>
  BY DEF FindMain, tables
<1>. HIDE DEF found
<1>5. TableTypes' /\ CommentsOK' /\ CachesOK'
  BY <1>3, <1>4 DEF ServerInv, TableTypes, CommentsOK, CachesOK
<1>6. Grows
  <2>1. Len(comments) \in Nat
    BY DEF ServerInv, TableTypes
  <2>. QED  BY <1>4, <2>1 DEF Grows
<1>7. [ok |-> TRUE, list |-> found] \in Responses
  BY <1>3 DEF Responses
<1>8. AnswerOK(r.api, [ok |-> TRUE, list |-> found], comments', users')
  BY <1>3, <1>4 DEF AnswerOK
<1>9. RequestsOK'
  BY <1>4, <1>5, <1>6, <1>7, <1>8, AnsweredOK
<1>. QED  BY <1>5, <1>6, <1>9 DEF ServerInv

\* What findReply has read may be old, but is in the table.
LEMMA FindReplyOK ==
    ASSUME ServerInv, RequestsOK, NEW i \in DOMAIN reqs, FindReply(i), UNCHANGED period
    PROVE  Grows /\ ServerInv' /\ RequestsOK'
<1>. DEFINE r    == reqs[i]
            rows == ReplyRows(r.seen, r.at)
            a    == Replies(r.at, rows)
<1>1. r \in Requests /\ RequestOK(r, comments, users)
  BY DEF RequestsOK
<1>2. rows \subseteq DOMAIN comments
  <2>1. r.seen \in Seq(Comments)
    BY <1>1 DEF Requests
  <2>2. comments \in Seq(Comments) /\ Len(r.seen) <= Len(comments)
    BY <1>1 DEF ServerInv, TableTypes, RequestOK, SeenOK
  <2>3. DOMAIN r.seen \subseteq DOMAIN comments
    <3>. HIDE DEF r
    <3>. QED  BY <2>1, <2>2
  <2>. QED  BY <2>3, RowsIn
<1>3. /\ r.api = "reply.find" /\ Answers(i, a) /\ UNCHANGED <<comments, users, cacheMain>>
      /\ \/ cacheReply' = [cacheReply EXCEPT ![r.at] = {rows}]
         \/ cacheReply' = cacheReply
  BY DEF FindReply, tables
<1>. HIDE DEF rows
<1>4. a \in Responses /\ Elems(a.list) \subseteq DOMAIN comments
  BY <1>2, RepliesIs DEF ServerInv, TableTypes
<1>. HIDE DEF a
<1>5. DOMAIN comments \subseteq Nat
  BY DEF ServerInv, TableTypes
<1>6. cacheReply' \in [Ids -> SUBSET SUBSET Nat]
      /\ \A c \in Ids : cacheReply'[c] \subseteq cacheReply[c] \cup {rows}
  BY <1>2, <1>3, <1>5 DEF ServerInv, TableTypes
<1>7. TableTypes' /\ CommentsOK' /\ CachesOK'
  BY <1>2, <1>3, <1>6 DEF ServerInv, TableTypes, CommentsOK, CachesOK
<1>8. Grows
  <2>1. Len(comments) \in Nat
    BY DEF ServerInv, TableTypes
  <2>. QED  BY <1>3, <2>1 DEF Grows
<1>9. AnswerOK(r.api, a, comments', users')
  BY <1>3, <1>4 DEF AnswerOK
<1>10. RequestsOK'
  BY <1>3, <1>4, <1>7, <1>8, <1>9, AnsweredOK
<1>. QED  BY <1>7, <1>8, <1>10 DEF ServerInv

\* signUp adds a user, and leaves the rest as it should be.
LEMMA SignUpOK ==
    ASSUME ServerInv, RequestsOK, NEW i \in DOMAIN reqs, SignUp(i), UNCHANGED period
    PROVE  Grows /\ ServerInv' /\ RequestsOK'
<1>1. reqs[i].text \in Names /\ reqs[i].api = "signup"
  BY DEF RequestsOK, RequestOK, AboutOK, SignUp
<1>2. /\ users' = Append(users, [name |-> reqs[i].text, last |-> 0])
      /\ Answers(i, [ok |-> TRUE, list |-> << >>])
      /\ UNCHANGED <<comments, cacheMain, cacheReply>>
  BY DEF SignUp, caches
<1>3. users' \in Seq(Users) /\ DOMAIN users \subseteq DOMAIN users'
  <2>1. [name |-> reqs[i].text, last |-> 0] \in Users
    BY <1>1 DEF Users
  <2>2. users \in Seq(Users)
    BY DEF ServerInv, TableTypes
  <2>. QED  BY <1>2, <2>1, <2>2
<1>4. Grows
  <2>1. Len(comments) \in Nat
    BY DEF ServerInv, TableTypes
  <2>. QED  BY <1>2, <1>3, <2>1 DEF Grows
<1>5. TableTypes' /\ CommentsOK' /\ CachesOK'
  BY <1>2, <1>3 DEF ServerInv, TableTypes, CommentsOK, CachesOK
<1>6. RequestsOK'
  BY <1>1, <1>2, <1>4, <1>5, DoneIs, AnsweredOK
<1>. QED  BY <1>4, <1>5, <1>6 DEF ServerInv

\* A failure of the database changes no table.
LEMMA FailOK ==
    ASSUME ServerInv, RequestsOK, NEW i \in DOMAIN reqs, Fail(i)
    PROVE  Grows /\ ServerInv' /\ RequestsOK'
<1>1. UNCHANGED <<tables, caches, period>> /\ Answers(i, NoAnswer)
  BY DEF Fail
<1>2. Grows /\ ServerInv'
  BY <1>1, TablesSame
<1>. QED  BY <1>1, <1>2, NoAnswerIs, AnsweredOK DEF ServerInv

\* The clock changes no table, and empties the caches.
LEMMA TimePassesOK ==
    ASSUME ServerInv, RequestsOK, TimePasses
    PROVE  Grows /\ ServerInv' /\ RequestsOK'
<1>1. /\ UNCHANGED <<comments, users, reqs>> /\ period' = period + 1
      /\ cacheMain' = {} /\ cacheReply' \in [Ids -> {{}}]
  BY DEF TimePasses, tables, Emptied, ServerInv, TableTypes
<1>2. Grows
  <2>1. Len(comments) \in Nat
    BY DEF ServerInv, TableTypes
  <2>. QED  BY <1>1, <2>1 DEF Grows
<1>3. TableTypes' /\ CommentsOK' /\ CachesOK'
  BY <1>1 DEF ServerInv, TableTypes, CommentsOK, CachesOK
<1>4. RequestsOK'
  BY <1>1 DEF RequestsOK
<1>. QED  BY <1>2, <1>3, <1>4 DEF ServerInv

\* Every step of the server lets the tables grow, and keeps them as they should be.
LEMMA ServerStep ==
    ASSUME ServerInv, RequestsOK, Serve \/ TimePasses
    PROVE  Grows /\ ServerInv' /\ RequestsOK'
<1>1. CASE TimePasses
  BY <1>1, TimePassesOK
<1>2. CASE Serve
  <2>1. PICK i \in DOMAIN reqs : Begin(i) \/ End(i) \/ Fail(i)
    BY <1>2 DEF Serve
  <2>2. CASE End(i)
    <3>1. UNCHANGED period
      BY <2>2 DEF End
    <3>. QED  BY <2>2, <3>1, AddMainOK, AddReplyOK, DeleteOK, FindMainOK, FindReplyOK, SignUpOK
              DEF End
  <2>. QED  BY <2>1, <2>2, BeginOK, FailOK
<1>. QED  BY <1>1, <1>2

----------------------------------------------------------------------------
(* Writing on a page *)

\* The boxes of a page have areas.
LEMMA BoxesAreIds ==
    ASSUME ServerInv, PagesInv, NEW p \in Pages
    PROVE  /\ Elems(boxes[p]) \subseteq Ids /\ DOMAIN comments \subseteq Ids
           /\ Ids \subseteq Nat /\ 0 \notin Ids
           /\ DOMAIN comments = 1..Len(comments) /\ Len(comments) \in Nat
           /\ areas[p] \in [Ids -> Areas] /\ written[p] \in [Ids -> SUBSET Deeds]
           /\ pending[p] \in Seq(Timeouts) /\ focus[p] \in Nat
           /\ CookieOK(p) /\ ShownOK(p) /\ WritingOK(p)
<1>1. DOMAIN comments = 1..Len(comments) /\ Len(comments) \in Nat /\ Len(comments) <= MaxComments
  BY DEF ServerInv, TableTypes, CommentsOK
<1>2. DOMAIN comments \subseteq Ids
  BY <1>1, ServerAssumption DEF Ids
<1>3. CookieOK(p) /\ ShownOK(p) /\ WritingOK(p) /\ WritingTypes
  BY DEF PagesInv
<1>4. Ids \subseteq Nat /\ 0 \notin Ids
  BY ServerAssumption DEF Ids
<1>. QED  BY <1>1, <1>2, <1>3, <1>4 DEF ShownOK, WritingTypes

\* A page that is written on; the others are what they were.
LEMMA WritingStep ==
    ASSUME ServerInv, PagesInv, UNCHANGED <<comments, users, where, cookie, me, boxes, listed>>,
           NEW p \in Pages,
           NEW A \in [Ids -> Areas], areas' = [areas EXCEPT ![p] = A],
           NEW W \in [Ids -> SUBSET Deeds], written' = [written EXCEPT ![p] = W],
           NEW f \in {0} \cup Elems(boxes[p]), focus' = [focus EXCEPT ![p] = f],
           NEW P \in Seq(Timeouts), pending' = [pending EXCEPT ![p] = P],
           \A m \in Ids : A[m].info <= Len(comments) /\ AreaOK(A[m], W[m], m, f),
           \A i \in DOMAIN P : P[i].box \in Elems(boxes[p])
    PROVE  PagesInv'
<1>1. SessionTypes' /\ ShownTypes'
  BY DEF PagesInv, SessionTypes, ShownTypes
<1>2. f \in Nat
  <2>1. Elems(boxes[p]) \subseteq Nat
    BY BoxesAreIds
  <2>. QED  BY <2>1
<1>3. WritingTypes'
  BY <1>2 DEF PagesInv, WritingTypes
<1>4. areas'[p] = A /\ written'[p] = W /\ focus'[p] = f /\ pending'[p] = P
  BY DEF PagesInv, WritingTypes
<1>5. \A q \in Pages \ {p} : /\ areas'[q] = areas[q] /\ written'[q] = written[q]
                             /\ focus'[q] = focus[q] /\ pending'[q] = pending[q]
  BY DEF PagesInv, WritingTypes
<1>6. ASSUME NEW q \in Pages PROVE CookieOK(q)' /\ ShownOK(q)' /\ WritingOK(q)'
  <2>1. CookieOK(q) /\ ShownOK(q) /\ WritingOK(q)
    BY DEF PagesInv
  <2>2. CookieOK(q)' /\ ShownOK(q)'
    BY <2>1 DEF CookieOK, ShownOK
  <2>3. WritingOK(p)'
    <3>1. /\ \A m \in Ids : /\ areas'[p][m].info <= Len(comments')
                            /\ AreaOK(areas'[p][m], written'[p][m], m, focus'[p])
          /\ focus'[p] \in {0} \cup Elems(boxes'[p])
          /\ \A i \in DOMAIN pending'[p] : pending'[p][i].box \in Elems(boxes'[p])
      BY <1>4
    <3>. QED  BY <3>1 DEF WritingOK
  <2>4. ASSUME q # p PROVE WritingOK(q)'
    <3>1. /\ areas'[q] = areas[q] /\ written'[q] = written[q] /\ focus'[q] = focus[q]
          /\ pending'[q] = pending[q] /\ boxes' = boxes /\ comments' = comments
      BY <1>5, <2>4
    <3>2. /\ \A m \in Ids : /\ areas[q][m].info <= Len(comments)
                            /\ AreaOK(areas[q][m], written[q][m], m, focus[q])
          /\ focus[q] \in {0} \cup Elems(boxes[q])
          /\ \A i \in DOMAIN pending[q] : pending[q][i].box \in Elems(boxes[q])
      BY <2>1 DEF WritingOK
    <3>3. /\ \A m \in Ids : /\ areas'[q][m].info <= Len(comments')
                            /\ AreaOK(areas'[q][m], written'[q][m], m, focus'[q])
          /\ focus'[q] \in {0} \cup Elems(boxes'[q])
          /\ \A i \in DOMAIN pending'[q] : pending'[q][i].box \in Elems(boxes'[q])
      BY <3>1, <3>2
    <3>. QED  BY <3>3 DEF WritingOK
  <2>. QED  BY <2>2, <2>3, <2>4
<1>. QED  BY <1>1, <1>3, <1>6 DEF PagesInv

\* A timeout more: those there are stay, but none is the newest.
LEMMA LaterSeq ==
    ASSUME NEW P \in Seq(Timeouts), NEW m \in Nat, NEW B,
           m \in B, \A i \in DOMAIN P : P[i].box \in B
    PROVE  LET Q == Append([i \in DOMAIN P |-> [P[i] EXCEPT !.newest = FALSE]],
                           [box |-> m, newest |-> TRUE])
           IN  Q \in Seq(Timeouts) /\ \A i \in DOMAIN Q : Q[i].box \in B
<1>. DEFINE O == [i \in DOMAIN P |-> [P[i] EXCEPT !.newest = FALSE]]
            t == [box |-> m, newest |-> TRUE]
            Q == Append(O, t)
<1>1. DOMAIN P = 1..Len(P) /\ Len(P) \in Nat /\ \A i \in DOMAIN P : P[i] \in Timeouts
  OBVIOUS
<1>2. ASSUME NEW s \in Timeouts PROVE /\ [s EXCEPT !.newest = FALSE] \in Timeouts
                                       /\ [s EXCEPT !.newest = FALSE].box = s.box
  BY DEF Timeouts
<1>3. \A i \in DOMAIN P : O[i] \in Timeouts /\ O[i].box \in B
  BY <1>1, <1>2
<1>4. DOMAIN O = 1..Len(P)
  BY <1>1
<1>5. O = [i \in 1..Len(P) |-> O[i]]
  BY <1>1
<1>6. t \in Timeouts /\ t.box \in B
  BY DEF Timeouts
<1>. HIDE DEF O, t
<1>7. O \in Seq(Timeouts)
  BY <1>1, <1>3, <1>5
<1>8. Q \in Seq(Timeouts) /\ Len(Q) = Len(O) + 1 /\ Q[Len(O) + 1] = t
      /\ \A i \in 1..Len(O) : Q[i] = O[i]
  BY <1>6, <1>7
<1>9. Len(O) = Len(P)
  BY <1>1, <1>4, <1>7
<1>. HIDE DEF Q
<1>10. \A i \in DOMAIN Q : i \in 1..Len(O) \/ i = Len(O) + 1
  BY <1>1, <1>8, <1>9
<1>11. \A i \in DOMAIN Q : Q[i].box \in B
  BY <1>1, <1>3, <1>6, <1>8, <1>9, <1>10
<1>. QED  BY <1>8, <1>11 DEF Q, O, t

\* The timeout that onblur sets is of a box of the page.
LEMMA LaterIs ==
    ASSUME NEW p, pending[p] \in Seq(Timeouts), NEW m \in Nat, m \in Elems(boxes[p]),
           \A i \in DOMAIN pending[p] : pending[p][i].box \in Elems(boxes[p])
    PROVE  /\ Later(p, m) \in Seq(Timeouts)
           /\ \A i \in DOMAIN Later(p, m) : Later(p, m)[i].box \in Elems(boxes[p])
BY LaterSeq DEF Later

\* Losing the focus leaves the areas as they should be, and timeouts of boxes of the page.
LEMMA AfterBlurIs ==
    ASSUME ServerInv, PagesInv, NEW p \in Pages
    PROVE  /\ AfterBlur(p).areas \in [Ids -> Areas]
           /\ \A m \in Ids : /\ AfterBlur(p).areas[m].info <= Len(comments)
                             /\ AreaOK(AfterBlur(p).areas[m], written[p][m], m, 0)
                             /\ AfterBlur(p).areas[m].btn = areas[p][m].btn
                             /\ AfterBlur(p).areas[m].head = areas[p][m].head
                             /\ AfterBlur(p).areas[m].typed = areas[p][m].typed
           /\ AfterBlur(p).pending \in Seq(Timeouts)
           /\ \A i \in DOMAIN AfterBlur(p).pending :
                 AfterBlur(p).pending[i].box \in Elems(boxes[p])
<1>. DEFINE b == AfterBlur(p)
            m0 == focus[p]
<1>1. /\ Elems(boxes[p]) \subseteq Ids /\ 0 \notin Ids /\ Len(comments) \in Nat
      /\ areas[p] \in [Ids -> Areas] /\ pending[p] \in Seq(Timeouts)
      /\ m0 \in {0} \cup Elems(boxes[p]) /\ m0 \in Nat
      /\ \A m \in Ids : /\ areas[p][m].info <= Len(comments)
                        /\ AreaOK(areas[p][m], written[p][m], m, m0)
      /\ \A i \in DOMAIN pending[p] : pending[p][i].box \in Elems(boxes[p])
  BY BoxesAreIds DEF WritingOK
<1>2. \A m \in Ids : AreaOK(areas[p][m], written[p][m], m, 0)
  <2>1. \A m \in Ids : m # 0
    BY <1>1
  <2>. QED  BY <1>1, <2>1 DEF AreaOK
<1>3. CASE m0 = 0
  <2>1. b.areas = areas[p] /\ b.pending = pending[p]
    BY <1>3 DEF AfterBlur
  <2>. QED  BY <1>1, <1>2, <2>1
<1>4. CASE m0 # 0
  <2>. DEFINE a == areas[p][m0]
              c == IF IsEmpty(a) THEN [a EXCEPT !.info = 0] ELSE a
              P == IF IsEmpty(a) THEN Later(p, m0) ELSE pending[p]
  <2>1. b.areas = [areas[p] EXCEPT ![m0] = c] /\ b.pending = P
    BY <1>4 DEF AfterBlur, Blurred
  <2>2. m0 \in Ids /\ m0 \in Elems(boxes[p]) /\ a \in Areas /\ m0 \in Nat
    BY <1>1, <1>4
  <2>3. /\ c \in Areas /\ c.btn = a.btn /\ c.head = a.head /\ c.typed = a.typed
        /\ c.info = a.info \/ (c.info = 0 /\ a.head = "none")
    BY <2>2 DEF Areas, IsEmpty
  <2>4. Later(p, m0) \in Seq(Timeouts)
        /\ \A i \in DOMAIN Later(p, m0) : Later(p, m0)[i].box \in Elems(boxes[p])
    BY <1>1, <2>2, LaterIs
  <2>. HIDE DEF a, c, P
  <2>5. P \in Seq(Timeouts) /\ \A i \in DOMAIN P : P[i].box \in Elems(boxes[p])
    BY <1>1, <2>4 DEF P
  <2>6. /\ b.areas \in [Ids -> Areas] /\ b.areas[m0] = c
        /\ \A m \in Ids \ {m0} : b.areas[m] = areas[p][m]
    BY <1>1, <2>1, <2>2, <2>3
  <2>7. AreaOK(a, written[p][m0], m0, 0) /\ a.info <= Len(comments)
    BY <1>1, <1>2, <2>2 DEF a
  <2>8. AreaOK(c, written[p][m0], m0, 0) /\ c.info <= Len(comments)
    BY <1>1, <2>3, <2>7 DEF AreaOK
  <2>. HIDE DEF b
  <2>9. ASSUME NEW m \in Ids
        PROVE  /\ b.areas[m].info <= Len(comments) /\ AreaOK(b.areas[m], written[p][m], m, 0)
               /\ b.areas[m].btn = areas[p][m].btn /\ b.areas[m].head = areas[p][m].head
               /\ b.areas[m].typed = areas[p][m].typed
    <3>1. CASE m = m0
      BY <2>3, <2>6, <2>8, <3>1 DEF a
    <3>2. CASE m # m0
      BY <1>1, <1>2, <2>6, <3>2
    <3>. QED  BY <3>1, <3>2
  <2>10. b.pending = P
    BY <2>1 DEF b
  <2>. QED  BY <2>5, <2>6, <2>9, <2>10 DEF b
<1>. QED  BY <1>3, <1>4

\* One area changes, and the focus is there or nowhere else than it was.
LEMMA AreaPut ==
    ASSUME NEW A \in [Ids -> Areas], NEW W \in [Ids -> SUBSET Deeds], NEW m \in Ids, NEW f, NEW n,
           NEW a \in Areas, NEW w \in SUBSET Deeds, a.info <= n, AreaOK(a, w, m, f),
           \A k \in Ids : A[k].info <= n /\ (k # m => AreaOK(A[k], W[k], k, f))
    PROVE  /\ [A EXCEPT ![m] = a] \in [Ids -> Areas]
           /\ [W EXCEPT ![m] = w] \in [Ids -> SUBSET Deeds]
           /\ \A k \in Ids : /\ [A EXCEPT ![m] = a][k].info <= n
                             /\ AreaOK([A EXCEPT ![m] = a][k], [W EXCEPT ![m] = w][k], k, f)
<1>. DEFINE B == [A EXCEPT ![m] = a]
            V == [W EXCEPT ![m] = w]
<1>1. /\ B \in [Ids -> Areas] /\ B[m] = a /\ \A k \in Ids \ {m} : B[k] = A[k]
      /\ V \in [Ids -> SUBSET Deeds] /\ V[m] = w /\ \A k \in Ids \ {m} : V[k] = W[k]
  OBVIOUS
<1>. HIDE DEF B, V
<1>2. ASSUME NEW k \in Ids PROVE B[k].info <= n /\ AreaOK(B[k], V[k], k, f)
  <2>1. CASE k = m
    BY <1>1, <2>1
  <2>2. CASE k # m
    BY <1>1, <2>2
  <2>. QED  BY <2>1, <2>2
<1>3. /\ B \in [Ids -> Areas] /\ V \in [Ids -> SUBSET Deeds]
      /\ \A k \in Ids : B[k].info <= n /\ AreaOK(B[k], V[k], k, f)
  BY <1>1, <1>2
<1>. QED  BY <1>3 DEF B, V

\* An area that was left is as well as if the focus were in another.
LEMMA ElsewhereIsAway ==
    ASSUME NEW a, NEW w, NEW m, m # 0, NEW f, f # m
    PROVE  AreaOK(a, w, m, f) <=> AreaOK(a, w, m, 0)
BY DEF AreaOK

\* The variables that writing leaves alone.
LEMMA WritingLeaves ==
    ASSUME UNCHANGED <<server, session, shown>>
    PROVE  UNCHANGED <<comments, users, where, cookie, me, boxes, listed>>
BY DEF server, tables, session, shown

\* What was done to the areas stays.
LEMMA WrittenSame ==
    ASSUME PagesInv, UNCHANGED written, NEW p \in Pages
    PROVE  written' = [written EXCEPT ![p] = written[p]]
BY DEF PagesInv, WritingTypes

\* onfocus leaves the pages as they should be: the hint goes, or is remembered.
LEMMA FocusOK ==
    ASSUME ServerInv, PagesInv, NEW p \in Pages, NEW m, Focus(p, m)
    PROVE  PagesInv'
<1>. DEFINE b == AfterBlur(p)
            a == Focused(b.areas[m])
            A == [b.areas EXCEPT ![m] = a]
<1>1. /\ m \in Elems(boxes[p]) /\ m \in Ids /\ m # 0 /\ Ids \subseteq Nat
      /\ written[p] \in [Ids -> SUBSET Deeds] /\ \A k \in Ids : k # 0
  BY BoxesAreIds DEF Focus
<1>2. /\ areas' = [areas EXCEPT ![p] = A] /\ pending' = [pending EXCEPT ![p] = b.pending]
      /\ focus' = [focus EXCEPT ![p] = m] /\ UNCHANGED <<server, session, shown>>
      /\ written' = written
  BY DEF Focus, past
<1>3. /\ b.areas \in [Ids -> Areas] /\ b.pending \in Seq(Timeouts)
      /\ \A k \in Ids : b.areas[k].info <= Len(comments) /\ AreaOK(b.areas[k], written[p][k], k, 0)
      /\ \A i \in DOMAIN b.pending : b.pending[i].box \in Elems(boxes[p])
  BY AfterBlurIs
<1>. HIDE DEF b
<1>4. b.areas[m] \in Areas /\ b.areas[m].info <= Len(comments)
      /\ AreaOK(b.areas[m], written[p][m], m, 0)
  BY <1>1, <1>3
<1>5. a \in Areas /\ a.info <= Len(comments) /\ AreaOK(a, written[p][m], m, m)
  BY <1>1, <1>4 DEF Focused, Areas, AreaOK
<1>. HIDE DEF a
<1>6. \A k \in Ids : k # m => AreaOK(b.areas[k], written[p][k], k, m)
  BY <1>1, <1>3, ElsewhereIsAway
<1>7. /\ A \in [Ids -> Areas]
      /\ \A k \in Ids : /\ A[k].info <= Len(comments)
                        /\ AreaOK(A[k], [written[p] EXCEPT ![m] = written[p][m]][k], k, m)
  BY <1>1, <1>3, <1>5, <1>6, AreaPut
<1>8. [written[p] EXCEPT ![m] = written[p][m]] = written[p]
  BY <1>1
<1>9. written' = [written EXCEPT ![p] = written[p]]
  BY <1>2, WrittenSame
<1>. HIDE DEF A
<1>10. \A k \in Ids : A[k].info <= Len(comments) /\ AreaOK(A[k], written[p][k], k, m)
  BY <1>7, <1>8
<1>11. A \in [Ids -> Areas] /\ m \in {0} \cup Elems(boxes[p])
  BY <1>1, <1>7
<1>. QED  BY <1>1, <1>2, <1>3, <1>9, <1>10, <1>11, WritingLeaves, WritingStep

\* So does onblur: what is empty is for nobody.
LEMMA BlurOK ==
    ASSUME ServerInv, PagesInv, NEW p \in Pages, Blur(p)
    PROVE  PagesInv'
<1>. DEFINE b == AfterBlur(p)
<1>1. /\ areas' = [areas EXCEPT ![p] = b.areas] /\ pending' = [pending EXCEPT ![p] = b.pending]
      /\ focus' = [focus EXCEPT ![p] = 0] /\ UNCHANGED <<server, session, shown>>
      /\ written' = written
  BY DEF Blur, past
<1>2. /\ b.areas \in [Ids -> Areas] /\ b.pending \in Seq(Timeouts)
      /\ \A k \in Ids : b.areas[k].info <= Len(comments) /\ AreaOK(b.areas[k], written[p][k], k, 0)
      /\ \A i \in DOMAIN b.pending : b.pending[i].box \in Elems(boxes[p])
  BY AfterBlurIs
<1>3. written' = [written EXCEPT ![p] = written[p]] /\ written[p] \in [Ids -> SUBSET Deeds]
  BY <1>1, WrittenSame, BoxesAreIds
<1>. HIDE DEF b
<1>. QED  BY <1>1, <1>2, <1>3, WritingLeaves, WritingStep

\* Typing sets the button; the pages stay as they should be.
LEMMA TypingOK ==
    ASSUME ServerInv, PagesInv, NEW p \in Pages, Type(p)
    PROVE  PagesInv'
<1>. DEFINE m == focus[p]
            a == [areas[p][m] EXCEPT !.typed = TRUE, !.btn = "on"]
            A == [areas[p] EXCEPT ![m] = a]
<1>1. /\ m \in {0} \cup Elems(boxes[p]) /\ m \in Ids /\ m # 0 /\ \A k \in Ids : k # 0
      /\ written[p] \in [Ids -> SUBSET Deeds] /\ areas[p] \in [Ids -> Areas]
      /\ pending[p] \in Seq(Timeouts)
  BY BoxesAreIds DEF Type, WritingOK
<1>2. /\ areas' = [areas EXCEPT ![p] = A] /\ focus' = focus /\ pending' = pending
      /\ UNCHANGED <<server, session, shown>> /\ written' = written
  BY DEF Type, past
<1>3. /\ \A k \in Ids : /\ areas[p][k].info <= Len(comments)
                        /\ AreaOK(areas[p][k], written[p][k], k, m)
      /\ \A i \in DOMAIN pending[p] : pending[p][i].box \in Elems(boxes[p])
  BY BoxesAreIds DEF WritingOK
<1>4. areas[p][m] \in Areas /\ areas[p][m].info <= Len(comments)
      /\ AreaOK(areas[p][m], written[p][m], m, m)
  BY <1>1, <1>3
<1>5. a \in Areas /\ a.info <= Len(comments) /\ AreaOK(a, written[p][m], m, m)
  BY <1>4 DEF Areas, AreaOK
<1>6. focus' = [focus EXCEPT ![p] = m] /\ pending' = [pending EXCEPT ![p] = pending[p]]
  BY <1>2 DEF PagesInv, WritingTypes
<1>. HIDE DEF a, m
<1>7. /\ A \in [Ids -> Areas]
      /\ \A k \in Ids : /\ A[k].info <= Len(comments)
                        /\ AreaOK(A[k], [written[p] EXCEPT ![m] = written[p][m]][k], k, m)
  BY <1>1, <1>3, <1>5, AreaPut
<1>8. [written[p] EXCEPT ![m] = written[p][m]] = written[p]
  BY <1>1
<1>9. written' = [written EXCEPT ![p] = written[p]]
  BY <1>2, WrittenSame
<1>. HIDE DEF A
<1>10. \A k \in Ids : A[k].info <= Len(comments) /\ AreaOK(A[k], written[p][k], k, m)
  BY <1>7, <1>8
<1>. QED  BY <1>1, <1>2, <1>3, <1>6, <1>7, <1>9, <1>10, WritingLeaves, WritingStep

\* Clearing the area is remembered; the pages stay as they should be.
LEMMA EraseOK ==
    ASSUME ServerInv, PagesInv, NEW p \in Pages, Erase(p)
    PROVE  PagesInv'
<1>. DEFINE m == focus[p]
            a == [areas[p][m] EXCEPT !.head = "none", !.typed = FALSE, !.btn = "off"]
            A == [areas[p] EXCEPT ![m] = a]
            w == written[p][m] \cup {"erased"}
            W == [written[p] EXCEPT ![m] = w]
<1>1. /\ m \in {0} \cup Elems(boxes[p]) /\ m \in Ids /\ m # 0 /\ \A k \in Ids : k # 0
      /\ written[p] \in [Ids -> SUBSET Deeds] /\ areas[p] \in [Ids -> Areas]
      /\ pending[p] \in Seq(Timeouts)
  BY BoxesAreIds DEF Erase, WritingOK
<1>2. /\ areas' = [areas EXCEPT ![p] = A] /\ focus' = focus /\ pending' = pending
      /\ UNCHANGED <<server, session, shown>> /\ written' = [written EXCEPT ![p] = W]
  BY DEF Erase
<1>3. /\ \A k \in Ids : /\ areas[p][k].info <= Len(comments)
                        /\ AreaOK(areas[p][k], written[p][k], k, m)
      /\ \A i \in DOMAIN pending[p] : pending[p][i].box \in Elems(boxes[p])
  BY BoxesAreIds DEF WritingOK
<1>4. areas[p][m] \in Areas /\ areas[p][m].info <= Len(comments)
      /\ AreaOK(areas[p][m], written[p][m], m, m) /\ written[p][m] \in SUBSET Deeds
  BY <1>1, <1>3
<1>5. w \in SUBSET Deeds /\ "erased" \in w
  BY <1>4 DEF Deeds
<1>6. a \in Areas /\ a.info <= Len(comments) /\ AreaOK(a, w, m, m)
  <2>. HIDE DEF w
  <2>. QED  BY <1>4, <1>5 DEF Areas, AreaOK
<1>7. focus' = [focus EXCEPT ![p] = m] /\ pending' = [pending EXCEPT ![p] = pending[p]]
  BY <1>2 DEF PagesInv, WritingTypes
<1>. HIDE DEF a, m, w
<1>8. /\ A \in [Ids -> Areas] /\ W \in [Ids -> SUBSET Deeds]
      /\ \A k \in Ids : A[k].info <= Len(comments) /\ AreaOK(A[k], W[k], k, m)
  BY <1>1, <1>3, <1>5, <1>6, AreaPut
<1>. HIDE DEF A, W
<1>. QED  BY <1>1, <1>2, <1>3, <1>7, <1>8, WritingLeaves, WritingStep

\* A timeout that writes over something is remembered, likewise.
LEMMA TimeoutOK ==
    ASSUME ServerInv, PagesInv, NEW p \in Pages, Timeout(p)
    PROVE  PagesInv'
<1>. DEFINE t == Head(pending[p])
            m == t.box
            f == focus[p]
            a == [areas[p][m] EXCEPT !.head = "hint", !.typed = FALSE]
            A == [areas[p] EXCEPT ![m] = a]
            w == IF IsEmpty(areas[p][m]) /\ f # m THEN written[p][m]
                 ELSE written[p][m] \cup {"timeout"}
            W == [written[p] EXCEPT ![m] = w]
<1>1. /\ f \in {0} \cup Elems(boxes[p]) /\ \A k \in Ids : k # 0
      /\ written[p] \in [Ids -> SUBSET Deeds] /\ areas[p] \in [Ids -> Areas]
      /\ pending[p] \in Seq(Timeouts) /\ pending[p] # << >>
      /\ Elems(boxes[p]) \subseteq Ids
  BY BoxesAreIds DEF Timeout, WritingOK
<1>2. /\ areas' = [areas EXCEPT ![p] = A] /\ focus' = focus
      /\ pending' = [pending EXCEPT ![p] = Tail(pending[p])]
      /\ UNCHANGED <<server, session, shown>> /\ written' = [written EXCEPT ![p] = W]
  BY DEF Timeout
<1>3. /\ \A k \in Ids : /\ areas[p][k].info <= Len(comments)
                        /\ AreaOK(areas[p][k], written[p][k], k, f)
      /\ \A i \in DOMAIN pending[p] : pending[p][i].box \in Elems(boxes[p])
  BY BoxesAreIds DEF WritingOK
<1>4. /\ t = pending[p][1] /\ 1 \in DOMAIN pending[p] /\ Tail(pending[p]) \in Seq(Timeouts)
      /\ \A i \in DOMAIN Tail(pending[p]) : /\ i + 1 \in DOMAIN pending[p]
                                            /\ Tail(pending[p])[i] = pending[p][i + 1]
  <2>. DEFINE P == pending[p]
  <2>1. P \in Seq(Timeouts) /\ P # << >>
    BY <1>1
  <2>. HIDE DEF P
  <2>2. Head(P) = P[1] /\ 1 \in DOMAIN P /\ Tail(P) \in Seq(Timeouts)
        /\ \A i \in DOMAIN Tail(P) : i + 1 \in DOMAIN P /\ Tail(P)[i] = P[i + 1]
    BY <2>1
  <2>. QED  BY <2>2 DEF P
<1>5. m \in Ids /\ \A i \in DOMAIN Tail(pending[p]) : Tail(pending[p])[i].box \in Elems(boxes[p])
  BY <1>1, <1>3, <1>4
<1>6. areas[p][m] \in Areas /\ areas[p][m].info <= Len(comments)
      /\ AreaOK(areas[p][m], written[p][m], m, f) /\ written[p][m] \in SUBSET Deeds
  BY <1>1, <1>3, <1>5
<1>7. w \in SUBSET Deeds /\ ((w = written[p][m] /\ IsEmpty(areas[p][m]) /\ f # m) \/ "timeout" \in w)
  BY <1>6 DEF Deeds
<1>8. a \in Areas /\ a.info <= Len(comments) /\ AreaOK(a, w, m, f)
  <2>. HIDE DEF w, f, m
  <2>. QED  BY <1>6, <1>7 DEF Areas, AreaOK, IsEmpty
<1>9. focus' = [focus EXCEPT ![p] = f]
  BY <1>2 DEF PagesInv, WritingTypes
<1>. HIDE DEF a, m, f, w
<1>10. /\ A \in [Ids -> Areas] /\ W \in [Ids -> SUBSET Deeds]
      /\ \A k \in Ids : A[k].info <= Len(comments) /\ AreaOK(A[k], W[k], k, f)
  BY <1>1, <1>3, <1>5, <1>7, <1>8, AreaPut
<1>. HIDE DEF A, W
<1>. QED  BY <1>1, <1>2, <1>4, <1>5, <1>9, <1>10, WritingLeaves, WritingStep

\* The grey button only takes timeouts away.
LEMMA GreyButtonOK ==
    ASSUME ServerInv, PagesInv, NEW p \in Pages, NEW m, GreyButton(p, m)
    PROVE  PagesInv'
<1>. DEFINE b == AfterBlur(p)
            at == {i \in DOMAIN b.pending : ~ b.pending[i].newest}
            P == Only(b.pending, at)
<1>1. /\ areas' = [areas EXCEPT ![p] = b.areas] /\ pending' = [pending EXCEPT ![p] = P]
      /\ focus' = [focus EXCEPT ![p] = 0] /\ UNCHANGED <<server, session, shown>>
      /\ written' = written
  BY DEF GreyButton, past
<1>2. /\ b.areas \in [Ids -> Areas] /\ b.pending \in Seq(Timeouts)
      /\ \A k \in Ids : b.areas[k].info <= Len(comments) /\ AreaOK(b.areas[k], written[p][k], k, 0)
      /\ \A i \in DOMAIN b.pending : b.pending[i].box \in Elems(boxes[p])
  BY AfterBlurIs
<1>3. written' = [written EXCEPT ![p] = written[p]] /\ written[p] \in [Ids -> SUBSET Deeds]
  BY <1>1, WrittenSame, BoxesAreIds
<1>. HIDE DEF b
<1>4. at \in SUBSET DOMAIN b.pending
  OBVIOUS
<1>. HIDE DEF at
<1>5. /\ P \in Seq(Timeouts) /\ Sorted(at) \in [DOMAIN P -> at]
      /\ \A k \in DOMAIN P : P[k] = b.pending[Sorted(at)[k]]
  BY <1>2, <1>4, OnlyIs
<1>. HIDE DEF P
<1>6. \A k \in DOMAIN P : P[k].box \in Elems(boxes[p])
  BY <1>2, <1>4, <1>5
<1>7. UNCHANGED <<comments, users, where, cookie, me, boxes, listed>>
  BY <1>1, WritingLeaves
<1>8. 0 \in {0} \cup Elems(boxes[p]) /\ P \in Seq(Timeouts)
  BY <1>5
<1>. QED  BY <1>1, <1>2, <1>3, <1>6, <1>7, <1>8, WritingStep

\* operate(): the words are put before, and whom they are for is in the hidden field.
LEMMA OperateOK ==
    ASSUME ServerInv, PagesInv, NEW p \in Pages, NEW m, NEW c, Operate(p, m, c)
    PROVE  PagesInv'
<1>. DEFINE b == AfterBlur(p)
            a == [b.areas[m] EXCEPT !.head = "prefix", !.typed = FALSE, !.info = c]
            A == [b.areas EXCEPT ![m] = a]
            W == [written[p] EXCEPT ![m] = {}]
<1>1. /\ m \in Elems(boxes[p]) /\ m \in Ids /\ \A k \in Ids : k # 0
      /\ written[p] \in [Ids -> SUBSET Deeds]
  BY BoxesAreIds DEF Operate
<1>2. /\ areas' = [areas EXCEPT ![p] = A] /\ pending' = [pending EXCEPT ![p] = b.pending]
      /\ focus' = [focus EXCEPT ![p] = m] /\ UNCHANGED <<server, session, shown>>
      /\ written' = [written EXCEPT ![p] = W]
  BY DEF Operate
<1>3. /\ b.areas \in [Ids -> Areas] /\ b.pending \in Seq(Timeouts)
      /\ \A k \in Ids : b.areas[k].info <= Len(comments) /\ AreaOK(b.areas[k], written[p][k], k, 0)
      /\ \A i \in DOMAIN b.pending : b.pending[i].box \in Elems(boxes[p])
  BY AfterBlurIs
<1>. HIDE DEF b
<1>4. c \in DOMAIN comments /\ c \in Nat /\ c # 0 /\ c <= Len(comments)
  <2>1. c \in DOMAIN comments
    BY <1>1, BoxesAreIds DEF Operate, ShownOK
  <2>2. DOMAIN comments = 1..Len(comments) /\ Len(comments) \in Nat
    BY BoxesAreIds
  <2>. QED  BY <2>1, <2>2
<1>5. b.areas[m] \in Areas
  BY <1>1, <1>3
<1>6. a \in Areas /\ a.info <= Len(comments) /\ AreaOK(a, {}, m, m)
  BY <1>4, <1>5 DEF Areas, AreaOK
<1>. HIDE DEF a
<1>7. \A k \in Ids : k # m => AreaOK(b.areas[k], written[p][k], k, m)
  BY <1>1, <1>3, ElsewhereIsAway
<1>8. {} \in SUBSET Deeds
  OBVIOUS
<1>9. /\ A \in [Ids -> Areas] /\ W \in [Ids -> SUBSET Deeds]
      /\ \A k \in Ids : A[k].info <= Len(comments) /\ AreaOK(A[k], W[k], k, m)
  BY <1>1, <1>3, <1>6, <1>7, <1>8, AreaPut
<1>. HIDE DEF A, W
<1>. QED  BY <1>1, <1>2, <1>3, <1>9, WritingLeaves, WritingStep

\* reply() leaves the area empty, and "sent".
LEMMA ReplyOK ==
    ASSUME ServerInv, PagesInv, NEW p \in Pages, NEW m, Reply(p, m)
    PROVE  PagesInv'
<1>. DEFINE b == AfterBlur(p)
            a == [b.areas[m] EXCEPT !.head = "none", !.typed = FALSE, !.info = 0]
            A == [b.areas EXCEPT ![m] = a]
            W == [written[p] EXCEPT ![m] = {"sent"}]
            P == Append([i \in DOMAIN b.pending |-> [b.pending[i] EXCEPT !.newest = FALSE]],
                        [box |-> m, newest |-> TRUE])
<1>1. /\ m \in Elems(boxes[p]) /\ m \in Ids /\ m \in Nat
      /\ written[p] \in [Ids -> SUBSET Deeds]
  BY BoxesAreIds DEF Reply
<1>2. /\ areas' = [areas EXCEPT ![p] = A] /\ pending' = [pending EXCEPT ![p] = P]
      /\ focus' = [focus EXCEPT ![p] = 0] /\ UNCHANGED <<server, session, shown>>
      /\ written' = [written EXCEPT ![p] = W]
  BY DEF Reply
<1>3. /\ b.areas \in [Ids -> Areas] /\ b.pending \in Seq(Timeouts)
      /\ \A k \in Ids : b.areas[k].info <= Len(comments) /\ AreaOK(b.areas[k], written[p][k], k, 0)
      /\ \A i \in DOMAIN b.pending : b.pending[i].box \in Elems(boxes[p])
  BY AfterBlurIs
<1>. HIDE DEF b
<1>4. b.areas[m] \in Areas /\ Len(comments) \in Nat
  BY <1>1, <1>3, BoxesAreIds
<1>5. a \in Areas /\ a.info <= Len(comments) /\ AreaOK(a, {"sent"}, m, 0)
  <2>1. {"sent"} \cap {"sent", "timeout"} # {}
    OBVIOUS
  <2>2. a \in Areas /\ a.head = "none" /\ a.info = 0
    BY <1>4 DEF Areas
  <2>. HIDE DEF a
  <2>. QED  BY <1>4, <2>1, <2>2 DEF AreaOK
<1>. HIDE DEF a
<1>6. {"sent"} \in SUBSET Deeds
  BY DEF Deeds
<1>7. /\ A \in [Ids -> Areas] /\ W \in [Ids -> SUBSET Deeds]
      /\ \A k \in Ids : A[k].info <= Len(comments) /\ AreaOK(A[k], W[k], k, 0)
  BY <1>1, <1>3, <1>5, <1>6, AreaPut
<1>8. P \in Seq(Timeouts) /\ \A i \in DOMAIN P : P[i].box \in Elems(boxes[p])
  BY <1>1, <1>3, LaterSeq
<1>. HIDE DEF A, W, P
<1>. QED  BY <1>2, <1>7, <1>8, WritingLeaves, WritingStep

----------------------------------------------------------------------------
(* The other steps of a page *)

\* The pages but p are left alone.
Others(p) == \A q \in Pages \ {p} :
    /\ where'[q] = where[q] /\ cookie'[q] = cookie[q] /\ me'[q] = me[q]
    /\ boxes'[q] = boxes[q] /\ listed'[q] = listed[q] /\ areas'[q] = areas[q]
    /\ written'[q] = written[q] /\ focus'[q] = focus[q] /\ pending'[q] = pending[q]

\* It is enough to look at the page that takes the step.
LEMMA OnePage ==
    ASSUME PagesInv, UNCHANGED <<comments, users>>, NEW p \in Pages, Others(p),
           SessionTypes', ShownTypes', WritingTypes', CookieOK(p)', ShownOK(p)', WritingOK(p)'
    PROVE  PagesInv'
<1>1. ASSUME NEW q \in Pages PROVE CookieOK(q)' /\ ShownOK(q)' /\ WritingOK(q)'
  <2>1. CASE q = p
    BY <2>1
  <2>2. CASE q # p
    <3>1. /\ where'[q] = where[q] /\ cookie'[q] = cookie[q] /\ me'[q] = me[q]
          /\ boxes'[q] = boxes[q] /\ listed'[q] = listed[q] /\ areas'[q] = areas[q]
          /\ written'[q] = written[q] /\ focus'[q] = focus[q] /\ pending'[q] = pending[q]
          /\ comments' = comments /\ users' = users
      BY <2>2 DEF Others
    <3>2. CookieOK(q) /\ ShownOK(q) /\ WritingOK(q)
      BY DEF PagesInv
    <3>3. CookieOK(q)'
      BY <3>1, <3>2 DEF CookieOK
    <3>4. ShownOK(q)'
      BY <3>1, <3>2 DEF ShownOK
    <3>5. WritingOK(q)'
      <4>1. /\ \A m \in Ids : /\ areas[q][m].info <= Len(comments)
                              /\ AreaOK(areas[q][m], written[q][m], m, focus[q])
            /\ focus[q] \in {0} \cup Elems(boxes[q])
            /\ \A i \in DOMAIN pending[q] : pending[q][i].box \in Elems(boxes[q])
        BY <3>2 DEF WritingOK
      <4>2. /\ \A m \in Ids : /\ areas'[q][m].info <= Len(comments')
                              /\ AreaOK(areas'[q][m], written'[q][m], m, focus'[q])
            /\ focus'[q] \in {0} \cup Elems(boxes'[q])
            /\ \A i \in DOMAIN pending'[q] : pending'[q][i].box \in Elems(boxes'[q])
        BY <3>1, <4>1
      <4>. QED  BY <4>2 DEF WritingOK
    <3>. QED  BY <3>3, <3>4, <3>5
  <2>. QED  BY <2>1, <2>2
<1>. QED  BY <1>1 DEF PagesInv

\* Steps that leave the page alone, and what the server knows.
LEMMA PageSame ==
    ASSUME PagesInv, UNCHANGED <<comments, users, where, cookie, me, shown, writing, written>>
    PROVE  PagesInv'
<1>1. UNCHANGED <<comments, users, where, cookie, me, boxes, listed, areas, focus, pending, written>>
  BY DEF shown, writing
<1>. QED  BY <1>1 DEF PagesInv, SessionTypes, ShownTypes, WritingTypes, CookieOK, ShownOK, WritingOK

\* The cross of a box.
LEMMA CloseOK ==
    ASSUME ServerInv, PagesInv, NEW p \in Pages, NEW m, Close(p, m)
    PROVE  PagesInv'
<1>. DEFINE s == boxes[p]
            B == Only(s, {j \in DOMAIN s : s[j] # m})
            t == pending[p]
            P == Only(t, {j \in DOMAIN t : t[j].box # m})
            f == IF focus[p] = m THEN 0 ELSE focus[p]
<1>1. /\ boxes' = [boxes EXCEPT ![p] = B] /\ pending' = [pending EXCEPT ![p] = P]
      /\ focus' = [focus EXCEPT ![p] = f]
      /\ UNCHANGED <<comments, users, where, cookie, me, listed, areas, written>>
  BY DEF Close, server, tables, session, past
<1>2. s \in Seq(Nat) /\ t \in Seq(Timeouts)
  BY DEF PagesInv, ShownTypes, WritingTypes
<1>3. B \in Seq(Nat) /\ Elems(B) = Elems(s) \ {m}
  <2>. DEFINE at == {j \in DOMAIN s : s[j] # m}
  <2>1. at \in SUBSET DOMAIN s
    OBVIOUS
  <2>2. {s[j] : j \in at} = Elems(s) \ {m}
    BY DEF Elems
  <2>. HIDE DEF s, at
  <2>3. Only(s, at) \in Seq(Nat) /\ Elems(Only(s, at)) = {s[j] : j \in at}
    BY <1>2, <2>1, OnlyIs
  <2>. QED  BY <2>2, <2>3 DEF at
<1>4. P \in Seq(Timeouts) /\ \A k \in DOMAIN P : \E j \in DOMAIN t : P[k] = t[j] /\ t[j].box # m
  <2>. DEFINE at == {j \in DOMAIN t : t[j].box # m}
  <2>1. at \in SUBSET DOMAIN t /\ \A j \in at : t[j].box # m
    OBVIOUS
  <2>. HIDE DEF t, at
  <2>2. /\ Only(t, at) \in Seq(Timeouts) /\ Sorted(at) \in [DOMAIN Only(t, at) -> at]
        /\ \A k \in DOMAIN Only(t, at) : Only(t, at)[k] = t[Sorted(at)[k]]
    BY <1>2, <2>1, OnlyIs
  <2>3. \A k \in DOMAIN Only(t, at) : Sorted(at)[k] \in at
    BY <2>2
  <2>4. \A k \in DOMAIN Only(t, at) : \E j \in DOMAIN t : Only(t, at)[k] = t[j] /\ t[j].box # m
    BY <2>1, <2>2, <2>3
  <2>. QED  BY <2>2, <2>4 DEF at
<1>5. focus[p] \in Nat /\ f \in Nat
  BY DEF PagesInv, WritingTypes
<1>. HIDE DEF B, P
<1>6. /\ boxes'[p] = B /\ pending'[p] = P /\ focus'[p] = f
      /\ \A q \in Pages \ {p} : boxes'[q] = boxes[q] /\ pending'[q] = pending[q] /\ focus'[q] = focus[q]
  BY <1>1 DEF PagesInv, ShownTypes, WritingTypes
<1>7. Others(p)
  BY <1>1, <1>6 DEF Others
<1>8. SessionTypes' /\ ShownTypes' /\ WritingTypes'
  BY <1>1, <1>3, <1>4, <1>5 DEF PagesInv, SessionTypes, ShownTypes, WritingTypes
<1>9. /\ CookieOK(p) /\ ShownOK(p) /\ WritingOK(p) /\ \A k \in Ids : k # 0
  BY BoxesAreIds
<1>10. CookieOK(p)' /\ ShownOK(p)'
  BY <1>1, <1>3, <1>6, <1>9 DEF CookieOK, ShownOK
<1>11. WritingOK(p)'
  <2>1. \A k \in Ids : areas[p][k].info <= Len(comments) /\ AreaOK(areas[p][k], written[p][k], k, f)
    BY <1>9 DEF WritingOK, AreaOK
  <2>2. f \in {0} \cup Elems(B)
    BY <1>3, <1>9 DEF WritingOK
  <2>3. \A k \in DOMAIN P : P[k].box \in Elems(B)
    BY <1>3, <1>4, <1>9 DEF WritingOK
  <2>. HIDE DEF f
  <2>. QED  BY <1>1, <1>6, <2>1, <2>2, <2>3 DEF WritingOK
<1>. QED  BY <1>1, <1>7, <1>8, <1>10, <1>11, OnePage

\* A page with new boxes, and nothing in them.
LEMMA Anew ==
    ASSUME ServerInv, PagesInv, NEW p \in Pages, UNCHANGED <<comments, users>>,
           NEW list \in Seq(Nat), Elems(list) \subseteq DOMAIN comments,
           boxes' = [boxes EXCEPT ![p] = list],
           listed' = [listed EXCEPT ![p] = [m \in Ids |-> << >>]],
           areas' = [areas EXCEPT ![p] = [m \in Ids |-> NewArea]],
           written' = [written EXCEPT ![p] = [m \in Ids |-> {}]],
           focus' = [focus EXCEPT ![p] = 0],
           pending' = [pending EXCEPT ![p] = << >>],
           SessionTypes', CookieOK(p)',
           \A q \in Pages \ {p} : where'[q] = where[q] /\ cookie'[q] = cookie[q] /\ me'[q] = me[q]
    PROVE  PagesInv'
<1>1. /\ boxes'[p] = list /\ \A m \in Ids : listed'[p][m] = << >>
      /\ \A m \in Ids : areas'[p][m] = NewArea
      /\ \A m \in Ids : written'[p][m] = {}
      /\ focus'[p] = 0 /\ pending'[p] = << >>
  BY DEF PagesInv, ShownTypes, WritingTypes
<1>2. Others(p)
  BY DEF Others, PagesInv, ShownTypes, WritingTypes
<1>3. NewArea \in Areas /\ NewArea.info = 0 /\ \A m \in Ids : AreaOK(NewArea, {}, m, 0)
  <2>1. \A m \in Ids : m # 0
    BY BoxesAreIds
  <2>. QED  BY <2>1 DEF NewArea, Areas, AreaOK
<1>4. [m \in Ids |-> << >>] \in [Ids -> Seq(Nat)]
  OBVIOUS
<1>5. ShownTypes'
  BY <1>4 DEF PagesInv, ShownTypes
<1>6. WritingTypes'
  <2>1. << >> \in Seq(Timeouts) /\ [m \in Ids |-> {}] \in [Ids -> SUBSET Deeds]
        /\ [m \in Ids |-> NewArea] \in [Ids -> Areas]
    BY <1>3
  <2>. QED  BY <2>1 DEF PagesInv, WritingTypes
<1>7. ShownOK(p)'
  BY <1>1 DEF ShownOK, Elems
<1>8. WritingOK(p)'
  <2>1. Len(comments) \in Nat
    BY BoxesAreIds
  <2>2. \A m \in Ids : areas'[p][m].info <= Len(comments')
                       /\ AreaOK(areas'[p][m], written'[p][m], m, focus'[p])
    <3>1. TAKE m \in Ids
    <3>2. areas'[p][m] = NewArea /\ written'[p][m] = {} /\ focus'[p] = 0 /\ comments' = comments
      BY <1>1
    <3>3. 0 <= Len(comments)
      BY <2>1
    <3>. QED  BY <1>3, <3>2, <3>3
  <2>. QED  BY <1>1, <2>2 DEF WritingOK
<1>. QED  BY <1>2, <1>5, <1>6, <1>7, <1>8, OnePage

\* What an answer lists.
LEMMA AnswerIs ==
    ASSUME RequestsOK, NEW i \in DOMAIN reqs
    PROVE  /\ reqs[i].answer.list \in Seq(Nat)
           /\ AnswerOK(reqs[i].api, reqs[i].answer, comments, users)
<1>1. reqs[i] \in Requests /\ RequestOK(reqs[i], comments, users)
  BY DEF RequestsOK
<1>2. reqs[i].answer \in Responses
  BY <1>1 DEF Requests
<1>. QED  BY <1>1, <1>2 DEF Responses, RequestOK

\* A list of replies that changes.
LEMMA ListedStep ==
    ASSUME ServerInv, PagesInv, NEW p \in Pages, NEW m,
           NEW list \in Seq(Nat), Elems(list) \subseteq DOMAIN comments,
           listed' = [listed EXCEPT ![p] = [listed[p] EXCEPT ![m] = list]],
           UNCHANGED <<comments, users, where, cookie, me, boxes, writing, written>>
    PROVE  PagesInv'
<1>1. UNCHANGED <<areas, focus, pending>>
  BY DEF writing
<1>2. Others(p)
  BY <1>1 DEF Others, PagesInv, ShownTypes
<1>3. SessionTypes' /\ WritingTypes' /\ ShownTypes'
  BY <1>1 DEF PagesInv, SessionTypes, WritingTypes, ShownTypes
<1>4. CookieOK(p) /\ ShownOK(p) /\ WritingOK(p)
  BY DEF PagesInv
<1>5. CookieOK(p)' /\ WritingOK(p)'
  BY <1>1, <1>4 DEF CookieOK, WritingOK
<1>6. \A k \in Ids : listed'[p][k] = IF k = m THEN list ELSE listed[p][k]
  BY DEF PagesInv, ShownTypes
<1>7. ShownOK(p)'
  BY <1>4, <1>6 DEF ShownOK
<1>. QED  BY <1>2, <1>3, <1>5, <1>7, OnePage

\* processCommentMain shows boxes of comments there are.
LEMMA MainFoundOK ==
    ASSUME ServerInv, RequestsOK, PagesInv, NEW p \in Pages, NEW i \in DOMAIN reqs,
           reqs[i].api = "main.find", MainFound(p, i), UNCHANGED <<server, session>>
    PROVE  PagesInv'
<1>. DEFINE found == reqs[i].answer.list
            list == OneRound(found)
<1>1. found \in Seq(Nat) /\ Elems(found) \subseteq DOMAIN comments
  BY AnswerIs DEF AnswerOK
<1>2. list \in Seq(Nat) /\ Elems(list) \subseteq DOMAIN comments
  BY <1>1, OneRoundIs
<1>3. UNCHANGED <<comments, users, where, cookie, me>>
  BY DEF server, tables, session
<1>4. SessionTypes' /\ CookieOK(p)'
  BY <1>3 DEF PagesInv, SessionTypes, CookieOK
<1>5. /\ boxes' = [boxes EXCEPT ![p] = list]
      /\ listed' = [listed EXCEPT ![p] = [m \in Ids |-> << >>]]
      /\ areas' = [areas EXCEPT ![p] = [m \in Ids |-> NewArea]]
      /\ written' = [written EXCEPT ![p] = [m \in Ids |-> {}]]
      /\ focus' = [focus EXCEPT ![p] = 0]
      /\ pending' = [pending EXCEPT ![p] = << >>]
  BY DEF MainFound
<1>. HIDE DEF list
<1>. QED  BY <1>2, <1>3, <1>4, <1>5, Anew

\* processCommentReply shows replies there are.
LEMMA ReplyFoundOK ==
    ASSUME ServerInv, RequestsOK, PagesInv, NEW p \in Pages, NEW i \in DOMAIN reqs,
           reqs[i].api = "reply.find", ReplyFound(p, i), UNCHANGED <<server, session>>
    PROVE  PagesInv'
<1>. DEFINE found == reqs[i].answer.list
            m == reqs[i].box
<1>1. found \in Seq(Nat) /\ Elems(found) \subseteq DOMAIN comments
  BY AnswerIs DEF AnswerOK
<1>2. /\ UNCHANGED <<comments, users, where, cookie, me, boxes, writing, written>>
      /\ \/ listed' = listed
         \/ listed' = [listed EXCEPT ![p] = [listed[p] EXCEPT ![m] = found]]
  BY DEF ReplyFound, server, tables, session
<1>. HIDE DEF found, m
<1>3. CASE listed' = listed
  BY <1>2, <1>3, PageSame DEF shown
<1>4. CASE listed' = [listed EXCEPT ![p] = [listed[p] EXCEPT ![m] = found]]
  BY <1>1, <1>2, <1>4, ListedStep
<1>. QED  BY <1>2, <1>3, <1>4

\* The answer to a write takes at most a reply away.
LEMMA WrittenOK ==
    ASSUME ServerInv, RequestsOK, PagesInv, NEW p \in Pages, NEW i \in DOMAIN reqs,
           Written(p, i), UNCHANGED <<server, session>>
    PROVE  PagesInv'
<1>. DEFINE m == reqs[i].box
            s == listed[p][m]
            at == {j \in DOMAIN s : s[j] # reqs[i].at}
            list == Only(s, at)
<1>1. /\ UNCHANGED <<comments, users, where, cookie, me, boxes, writing, written>>
      /\ \/ listed' = listed
         \/ m # 0 /\ listed' = [listed EXCEPT ![p] = [listed[p] EXCEPT ![m] = list]]
  BY DEF Written, server, tables, session, past
<1>2. CASE listed' = listed
  BY <1>1, <1>2, PageSame DEF shown
<1>3. CASE m # 0 /\ listed' = [listed EXCEPT ![p] = [listed[p] EXCEPT ![m] = list]]
  <2>1. m \in Ids
    <3>1. reqs[i] \in Requests /\ RequestOK(reqs[i], comments, users)
      BY DEF RequestsOK
    <3>2. m \in Nat /\ m <= Len(comments)
      BY <3>1 DEF Requests, RequestOK, AboutOK
    <3>3. DOMAIN comments \subseteq Ids /\ DOMAIN comments = 1..Len(comments) /\ Len(comments) \in Nat
      BY BoxesAreIds
    <3>4. m \in 1..Len(comments)
      BY <1>3, <3>2, <3>3
    <3>. QED  BY <3>3, <3>4
  <2>2. s \in Seq(Nat) /\ Elems(s) \subseteq DOMAIN comments
    BY <2>1 DEF PagesInv, ShownTypes, ShownOK
  <2>3. at \in SUBSET DOMAIN s
    OBVIOUS
  <2>. HIDE DEF s, at
  <2>4. list \in Seq(Nat) /\ Elems(list) = {s[j] : j \in at}
    BY <2>2, <2>3, OnlyIs
  <2>5. {s[j] : j \in at} \subseteq DOMAIN comments
    BY <2>2, <2>3 DEF Elems
  <2>. HIDE DEF list
  <2>. QED  BY <1>1, <1>3, <2>4, <2>5, ListedStep
<1>. QED  BY <1>1, <1>2, <1>3

\* The answer to a sign-in, and the other steps that change the cookie.
LEMMA CookieStep ==
    ASSUME PagesInv, NEW p \in Pages, NEW c \in {NoCookie, NullCookie} \cup DOMAIN users, c \in Int,
           cookie' = [cookie EXCEPT ![p] = c],
           UNCHANGED <<comments, users, where, me, shown, writing, written>>
    PROVE  PagesInv'
<1>1. UNCHANGED <<boxes, listed, areas, focus, pending>>
  BY DEF shown, writing
<1>2. cookie'[p] = c /\ \A q \in Pages \ {p} : cookie'[q] = cookie[q]
  BY DEF PagesInv, SessionTypes
<1>3. Others(p)
  BY <1>1, <1>2 DEF Others
<1>4. SessionTypes' /\ WritingTypes' /\ ShownTypes'
  BY <1>1 DEF PagesInv, SessionTypes, WritingTypes, ShownTypes
<1>5. CookieOK(p) /\ ShownOK(p) /\ WritingOK(p)
  BY DEF PagesInv
<1>6. CookieOK(p)'
  BY <1>2, <1>5 DEF CookieOK
<1>7. ShownOK(p)' /\ WritingOK(p)'
  BY <1>1, <1>5 DEF ShownOK, WritingOK
<1>. QED  BY <1>3, <1>4, <1>6, <1>7, OnePage

\* A cookie is of a user.
LEMMA SignedInOK ==
    ASSUME ServerInv, RequestsOK, PagesInv, NEW p \in Pages, NEW i \in DOMAIN reqs, SignedIn(p, i)
    PROVE  PagesInv'
<1>. DEFINE a == reqs[i].answer
<1>1. UNCHANGED <<comments, users, where, me, shown, writing, written>>
  BY DEF SignedIn, Answered, server, tables, past
<1>2. CASE a.ok /\ reqs[i].api = "signin"
  <2>1. cookie' = [cookie EXCEPT ![p] = Head(a.list)]
    BY <1>2 DEF SignedIn
  <2>2. a.list \in Seq(Nat) /\ Elems(a.list) \subseteq DOMAIN users /\ a.list # << >>
    BY <1>2, AnswerIs DEF AnswerOK
  <2>3. Head(a.list) \in DOMAIN users /\ Head(a.list) \in Nat
    <3>1. 1 \in DOMAIN a.list /\ Head(a.list) = a.list[1] /\ a.list[1] \in Nat
      <4>. HIDE DEF a
      <4>. DEFINE s == a.list
      <4>1. s \in Seq(Nat) /\ s # << >>
        BY <2>2
      <4>. HIDE DEF s
      <4>2. 1 \in DOMAIN s /\ Head(s) = s[1] /\ s[1] \in Nat
        BY <4>1
      <4>. QED  BY <4>2 DEF s
    <3>. QED  BY <2>2, <3>1 DEF Elems
  <2>. DEFINE c == Head(a.list)
  <2>4. c \in {NoCookie, NullCookie} \cup DOMAIN users /\ c \in Int
    BY <2>3
  <2>. HIDE DEF a, c
  <2>. QED  BY <1>1, <2>1, <2>4, CookieStep DEF c
<1>3. CASE ~ (a.ok /\ reqs[i].api = "signin")
  BY <1>1, <1>3, PageSame DEF SignedIn
<1>. QED  BY <1>2, <1>3

\* exitLogin leaves the text "null" as the cookie.
LEMMA ExitLoginOK ==
    ASSUME ServerInv, PagesInv, NEW p \in Pages, ExitLogin(p)
    PROVE  PagesInv'
<1>1. UNCHANGED <<comments, users, where, me, shown, writing, written>>
      /\ cookie' = [cookie EXCEPT ![p] = NullCookie]
  BY DEF ExitLogin, server, tables, past
<1>2. NullCookie \in Int
  BY DEF NullCookie
<1>. QED  BY <1>1, <1>2, CookieStep

\* A page starts, at home only with the cookie of a user.
LEMMA ArriveOK ==
    ASSUME ServerInv, PagesInv, NEW p \in Pages, NEW at, Arrive(p, at)
    PROVE  /\ PagesInv'
           /\ where'[p] = "home" => cookie[p] \in DOMAIN users /\ me'[p] = cookie[p]
           /\ \A q \in Pages \ {p} : where'[q] = where[q]
<1>1. /\ where' = [where EXCEPT ![p] = Shows(at, cookie[p])]
      /\ me' = [me EXCEPT ![p] = IF where'[p] = "home" THEN cookie[p] ELSE 0]
      /\ UNCHANGED <<comments, users, cookie>>
  BY DEF Arrive, server, tables
<1>2. CookieOK(p) /\ SessionTypes /\ DOMAIN users \subseteq Nat
  BY DEF PagesInv, ServerInv, TableTypes
<1>3. /\ where'[p] = Shows(at, cookie[p])
      /\ me'[p] = IF where'[p] = "home" THEN cookie[p] ELSE 0
      /\ \A q \in Pages \ {p} : where'[q] = where[q] /\ me'[q] = me[q]
  BY <1>1, <1>2 DEF SessionTypes
<1>4. Shows(at, cookie[p]) \in {"login", "home", "broken"}
      /\ (Shows(at, cookie[p]) = "home" => cookie[p] \in DOMAIN users)
  BY <1>2 DEF Shows, CookieOK
<1>5. SessionTypes' /\ CookieOK(p)'
  BY <1>1, <1>2, <1>3, <1>4 DEF SessionTypes, CookieOK
<1>6. << >> \in Seq(Nat) /\ Elems(<< >>) \subseteq DOMAIN comments
  BY DEF Elems
<1>7. /\ boxes' = [boxes EXCEPT ![p] = << >>]
      /\ listed' = [listed EXCEPT ![p] = [m \in Ids |-> << >>]]
      /\ areas' = [areas EXCEPT ![p] = [m \in Ids |-> NewArea]]
      /\ written' = [written EXCEPT ![p] = [m \in Ids |-> {}]]
      /\ focus' = [focus EXCEPT ![p] = 0]
      /\ pending' = [pending EXCEPT ![p] = << >>]
  BY DEF Arrive
<1>8. PagesInv'
  BY <1>1, <1>3, <1>5, <1>6, <1>7, Anew
<1>. QED  BY <1>3, <1>4, <1>8

----------------------------------------------------------------------------
(* What the pages do to the requests *)

\* Of a request that was there, where it came from and where it goes may be forgotten.
Like(r, s) ==
    /\ r \in Requests
    /\ r.user = s.user /\ r.api = s.api /\ r.at = s.at /\ r.text = s.text /\ r.why = s.why
    /\ r.phase = s.phase /\ r.seen = s.seen /\ r.answer = s.answer
    /\ r.box = s.box \/ (r.api = "delete" /\ r.box = 0)
    /\ r.page \in {s.page, NoPage}
\* A request a page has just sent, about what there is.
NewRequest(r) ==
    /\ r \in Requests
    /\ r.phase = "sent" /\ r.seen = << >> /\ r.answer = NoAnswer /\ AboutOK(r, comments, users)
    /\ r.api \notin {"signup", "signin"} => r.page \in Pages /\ where'[r.page] = "home"

\* Each request is one that was there, no two the same, or is new.
FollowsBy(f, new, old) ==
    /\ f \in [DOMAIN new -> Nat]
    /\ \A k \in DOMAIN new : \/ f[k] \in DOMAIN old /\ Like(new[k], old[f[k]])
                             \/ f[k] = 0 /\ NewRequest(new[k])
    /\ \A k, l \in DOMAIN new : f[k] = f[l] /\ f[k] # 0 => k = l
\* Some f says which request of before each is.
Follows(new, old) == new \in Seq(Requests) /\ \E f : FollowsBy(f, new, old)

\* A request is like itself.
LEMMA LikeItself ==
    ASSUME NEW r \in Requests
    PROVE  Like(r, r)
BY DEF Like

\* What may be forgotten may be forgotten in two steps.
LEMMA LikeThrough ==
    ASSUME NEW r, NEW s, NEW t, Like(r, s), Like(s, t)
    PROVE  Like(r, t)
BY DEF Like

\* Some of the requests follow all of them.
LEMMA FollowsOnly ==
    ASSUME NEW old \in Seq(Requests), NEW at \in SUBSET DOMAIN old
    PROVE  Follows(Only(old, at), old)
<1>. DEFINE s == Only(old, at)
            f == Sorted(at)
<1>1. /\ s \in Seq(Requests) /\ f \in [DOMAIN s -> at]
      /\ \A k \in DOMAIN s : s[k] = old[f[k]]
      /\ \A k, l \in DOMAIN s : f[k] = f[l] => k = l
  BY OnlyIs
<1>. HIDE DEF s, f
<1>2. DOMAIN old \subseteq Nat /\ \A j \in DOMAIN old : old[j] \in Requests
  OBVIOUS
<1>3. f \in [DOMAIN s -> Nat] /\ \A k \in DOMAIN s : f[k] \in DOMAIN old
  BY <1>1, <1>2
<1>4. \A k \in DOMAIN s : f[k] \in DOMAIN old /\ Like(s[k], old[f[k]])
  <2>1. \A j \in DOMAIN old : Like(old[j], old[j])
    BY <1>2, LikeItself
  <2>. QED  BY <1>1, <1>3, <2>1
<1>5. FollowsBy(f, s, old)
  BY <1>1, <1>3, <1>4 DEF FollowsBy
<1>6. Follows(s, old)
  BY <1>1, <1>5 DEF Follows
<1>. QED  BY <1>6 DEF s

\* All requests follow themselves.
LEMMA FollowsItself ==
    ASSUME NEW old \in Seq(Requests)
    PROVE  Follows(old, old)
<1>. DEFINE f == [k \in DOMAIN old |-> k]
<1>1. f \in [DOMAIN old -> Nat] /\ \A k \in DOMAIN old : f[k] = k
  OBVIOUS
<1>. HIDE DEF f
<1>2. \A k \in DOMAIN old : Like(old[k], old[k])
  BY LikeItself
<1>3. FollowsBy(f, old, old)
  BY <1>1, <1>2 DEF FollowsBy
<1>. QED  BY <1>3 DEF Follows

\* Requests of which something is forgotten follow what those follow that they were.
LEMMA FollowsLike ==
    ASSUME NEW old \in Seq(Requests), NEW s, Follows(s, old),
           NEW t \in Seq(Requests), DOMAIN t = DOMAIN s, \A k \in DOMAIN s : Like(t[k], s[k]),
           \A k \in DOMAIN s : NewRequest(s[k]) => NewRequest(t[k])
    PROVE  Follows(t, old)
<1>1. PICK f : FollowsBy(f, s, old)
  BY DEF Follows
<1>2. /\ f \in [DOMAIN s -> Nat]
      /\ \A k \in DOMAIN s : \/ f[k] \in DOMAIN old /\ Like(s[k], old[f[k]])
                             \/ f[k] = 0 /\ NewRequest(s[k])
      /\ \A k, l \in DOMAIN s : f[k] = f[l] /\ f[k] # 0 => k = l
  BY <1>1 DEF FollowsBy
<1>3. \A k \in DOMAIN t : \/ f[k] \in DOMAIN old /\ Like(t[k], old[f[k]])
                          \/ f[k] = 0 /\ NewRequest(t[k])
  BY <1>2, LikeThrough
<1>4. FollowsBy(f, t, old)
  BY <1>2, <1>3 DEF FollowsBy
<1>. QED  BY <1>4 DEF Follows

\* So do requests with new ones behind them.
LEMMA FollowsMore ==
    ASSUME NEW old \in Seq(Requests), NEW s, Follows(s, old),
           NEW t \in Seq(Requests), \A k \in DOMAIN t : NewRequest(t[k])
    PROVE  Follows(s \o t, old)
<1>1. PICK f : FollowsBy(f, s, old)
  BY DEF Follows
<1>2. /\ f \in [DOMAIN s -> Nat]
      /\ \A k \in DOMAIN s : \/ f[k] \in DOMAIN old /\ Like(s[k], old[f[k]])
                             \/ f[k] = 0 /\ NewRequest(s[k])
      /\ \A k, l \in DOMAIN s : f[k] = f[l] /\ f[k] # 0 => k = l
  BY <1>1 DEF FollowsBy
<1>3. s \in Seq(Requests) /\ DOMAIN s = 1..Len(s) /\ Len(s) \in Nat
      /\ DOMAIN t = 1..Len(t) /\ Len(t) \in Nat
  BY DEF Follows
<1>. DEFINE u == s \o t
<1>4. /\ u \in Seq(Requests) /\ Len(u) = Len(s) + Len(t)
      /\ \A i \in 1..(Len(s) + Len(t)) : u[i] = IF i <= Len(s) THEN s[i] ELSE t[i - Len(s)]
  BY <1>3, ConcatProperties
<1>. HIDE DEF u
<1>5. DOMAIN u = 1..(Len(s) + Len(t))
  BY <1>4
<1>. DEFINE g == [k \in DOMAIN u |-> IF k \in DOMAIN s THEN f[k] ELSE 0]
<1>6. \A k \in DOMAIN u : IF k \in DOMAIN s THEN u[k] = s[k] /\ g[k] = f[k]
                          ELSE k - Len(s) \in DOMAIN t /\ u[k] = t[k - Len(s)] /\ g[k] = 0
  BY <1>3, <1>4, <1>5
<1>7. g \in [DOMAIN u -> Nat]
  BY <1>2
<1>. HIDE DEF g
<1>8. \A k \in DOMAIN u : \/ g[k] \in DOMAIN old /\ Like(u[k], old[g[k]])
                          \/ g[k] = 0 /\ NewRequest(u[k])
  BY <1>2, <1>6
<1>9. \A k, l \in DOMAIN u : g[k] = g[l] /\ g[k] # 0 => k = l
  BY <1>2, <1>6
<1>10. FollowsBy(g, u, old)
  BY <1>7, <1>8, <1>9 DEF FollowsBy
<1>11. Follows(u, old)
  BY <1>4, <1>10 DEF Follows
<1>. QED  BY <1>11 DEF u

\* Then the requests are as they should be, if the page of none that stays has changed.
LEMMA FollowsOK ==
    ASSUME ServerInv, RequestsOK, UNCHANGED <<comments, users>>, Follows(reqs', reqs)
    PROVE  RequestsOK'
<1>1. PICK f : FollowsBy(f, reqs', reqs)
  BY DEF Follows
<1>2. \A k \in DOMAIN reqs' : \/ f[k] \in DOMAIN reqs /\ Like(reqs'[k], reqs[f[k]])
                              \/ NewRequest(reqs'[k])
  BY <1>1 DEF FollowsBy
<1>3. \A j \in DOMAIN reqs : reqs[j] \in Requests /\ RequestOK(reqs[j], comments, users)
  BY DEF RequestsOK
<1>4. ASSUME NEW r, NEW s \in Requests, Like(r, s), RequestOK(s, comments, users)
      PROVE  RequestOK(r, comments, users)
  <2>1. /\ r.api = s.api /\ r.user = s.user /\ r.at = s.at /\ r.text = s.text /\ r.why = s.why
        /\ r.seen = s.seen /\ r.answer = s.answer
        /\ r.box = s.box \/ (r.api = "delete" /\ r.box = 0)
    BY <1>4 DEF Like
  <2>2. AboutOK(s, comments, users) /\ SeenOK(s.seen, comments)
        /\ AnswerOK(s.api, s.answer, comments, users)
    BY <1>4 DEF RequestOK
  <2>3. 0 <= Len(comments)
    BY DEF ServerInv, TableTypes
  <2>4. AboutOK(r, comments, users)
    BY <2>1, <2>2, <2>3 DEF AboutOK, WordsOK
  <2>. QED  BY <2>1, <2>2, <2>4 DEF RequestOK
<1>5. ASSUME NEW r, NewRequest(r) PROVE RequestOK(r, comments, users)
  <2>1. Len(comments) \in Nat
    BY DEF ServerInv, TableTypes
  <2>. QED  BY <1>5, <2>1 DEF NewRequest, RequestOK, SeenOK, AnswerOK, NoAnswer, Elems
<1>6. \A k \in DOMAIN reqs' : RequestOK(reqs'[k], comments, users)
  BY <1>2, <1>3, <1>4, <1>5
<1>. QED  BY <1>6 DEF RequestsOK, Follows

\* And they are of pages at home, if no page has gone.
LEMMA FollowsAtHome ==
    ASSUME RequestsOK, AtHome, UNCHANGED where, Follows(reqs', reqs)
    PROVE  AtHome'
<1>1. PICK f : FollowsBy(f, reqs', reqs)
  BY DEF Follows
<1>2. \A k \in DOMAIN reqs' : \/ f[k] \in DOMAIN reqs /\ Like(reqs'[k], reqs[f[k]])
                              \/ NewRequest(reqs'[k])
  BY <1>1 DEF FollowsBy
<1>3. SUFFICES ASSUME NEW k \in DOMAIN reqs',
                      reqs'[k].page # NoPage, reqs'[k].api \notin {"signup", "signin"}
               PROVE  where'[reqs'[k].page] = "home"
  BY DEF AtHome
<1>4. CASE f[k] \in DOMAIN reqs /\ Like(reqs'[k], reqs[f[k]])
  BY <1>3, <1>4 DEF Like, AtHome
<1>5. CASE NewRequest(reqs'[k])
  BY <1>3, <1>5 DEF NewRequest
<1>. QED  BY <1>2, <1>4, <1>5

----------------------------------------------------------------------------
(* What each step of a page does to the requests *)

\* A page at home sends a request.
LEMMA SendsNew ==
    ASSUME RequestsOK, NEW r, NewRequest(r), Send(<<r>>)
    PROVE  Follows(reqs', reqs)
<1>1. reqs \in Seq(Requests) /\ reqs' = reqs \o <<r>>
  BY DEF RequestsOK, Send
<1>2. r \in Requests
  BY DEF NewRequest
<1>3. <<r>> \in Seq(Requests) /\ \A k \in DOMAIN <<r>> : <<r>>[k] = r
  BY <1>2
<1>. DEFINE t == <<r>>
<1>4. t \in Seq(Requests) /\ \A k \in DOMAIN t : NewRequest(t[k])
  BY <1>3
<1>. HIDE DEF t
<1>5. Follows(reqs \o t, reqs)
  BY <1>1, <1>4, FollowsItself, FollowsMore
<1>. QED  BY <1>1, <1>5 DEF t

\* What a request that is sent is made of.
LEMMA PlainRequestIs ==
    ASSUME NEW p \in Pages, NEW u \in Nat, NEW api \in Apis, NEW at \in Nat, NEW box \in Nat,
           NEW text \in Words
    PROVE  LET r == Request(p, u, api, at, box, text)
           IN  /\ r \in Requests /\ r.page = p /\ r.user = u /\ r.api = api /\ r.at = at
               /\ r.box = box /\ r.text = text /\ r.why = {}
               /\ r.phase = "sent" /\ r.seen = << >> /\ r.answer = NoAnswer
<1>1. << >> \in Seq(Comments) /\ NoAnswer \in Responses
  <2>1. << >> \in Seq(Nat) /\ << >> \in Seq(Comments)
    OBVIOUS
  <2>. QED  BY <2>1 DEF NoAnswer, Responses
<1>. QED  BY <1>1 DEF Request, Requests

\* The requests of a page at home, but a reply.
LEMMA FromHome ==
    ASSUME ServerInv, NEW p \in Pages, where'[p] = "home", NEW u \in DOMAIN users,
           NEW api \in {"main.find", "main.add", "reply.find", "delete"},
           NEW at \in Nat, NEW box \in Nat, NEW text \in Words,
           api = "main.add" => at = 0 /\ text \in {"long", "short"},
           api \in {"delete", "reply.find"} => at \in DOMAIN comments,
           box <= Len(comments)
    PROVE  NewRequest(Request(p, u, api, at, box, text))
<1>. DEFINE r == Request(p, u, api, at, box, text)
<1>1. u \in Nat /\ api \in Apis
  BY DEF ServerInv, TableTypes, Apis, Writes
<1>2. /\ r \in Requests /\ r.page = p /\ r.user = u /\ r.api = api /\ r.at = at
      /\ r.box = box /\ r.text = text /\ r.why = {}
      /\ r.phase = "sent" /\ r.seen = << >> /\ r.answer = NoAnswer
  BY <1>1, PlainRequestIs
<1>. HIDE DEF r
<1>3. AboutOK(r, comments, users)
  BY <1>2 DEF AboutOK
<1>4. NewRequest(r)
  BY <1>2, <1>3 DEF NewRequest
<1>. QED  BY <1>4 DEF r

\* What a page at home knows.
LEMMA HomeIs ==
    ASSUME ServerInv, PagesInv, NEW p \in Pages, where[p] = "home"
    PROVE  /\ me[p] \in DOMAIN users /\ me[p] \in Nat /\ Len(comments) \in Nat
           /\ \A c \in DOMAIN comments : c \in Nat /\ c <= Len(comments) /\ c # 0
           /\ \A m \in Elems(boxes[p]) :
                 m \in Ids /\ m \in DOMAIN comments /\ Elems(listed[p][m]) \subseteq DOMAIN comments
<1>1. CookieOK(p) /\ ShownOK(p) /\ DOMAIN users \subseteq Nat
  BY DEF PagesInv, ServerInv, TableTypes
<1>2. DOMAIN comments = 1..Len(comments) /\ Len(comments) \in Nat /\ Elems(boxes[p]) \subseteq Ids
  BY BoxesAreIds
<1>. QED  BY <1>1, <1>2 DEF CookieOK, ShownOK

\* addCommentMain sends a request of the user of the page.
LEMMA AddCommentMainSends ==
    ASSUME ServerInv, RequestsOK, PagesInv, NEW p \in Pages, NEW text \in {"long", "short"},
           AddCommentMain(p, text)
    PROVE  Follows(reqs', reqs) /\ UNCHANGED <<server, page, past>>
<1>1. /\ where[p] = "home" /\ UNCHANGED <<server, page, past>>
      /\ Send(<<Request(p, me[p], "main.add", 0, 0, text)>>)
  BY DEF AddCommentMain, Click
<1>2. where'[p] = "home"
  BY <1>1 DEF page, session
<1>3. me[p] \in DOMAIN users /\ 0 <= Len(comments) /\ text \in Words
  BY <1>1, HomeIs DEF Words
<1>4. NewRequest(Request(p, me[p], "main.add", 0, 0, text))
  BY <1>2, <1>3, FromHome
<1>. QED  BY <1>1, <1>4, SendsNew

\* What is sent of an area is what was typed, or what was done to it is known.
LEMMA TextIs ==
    ASSUME NEW a \in Areas, NEW w \in SUBSET Deeds, NEW m, AreaOK(a, w, m, 0), a.btn = "on",
           NEW text, text \in {Text(a)} \cup IF Text(a) = "whole" THEN {"quoted"} ELSE {}
    PROVE  /\ text \in Words
           /\ text \in {"cut", "more"} => w \cap {"erased", "timeout"} # {}
           /\ text = "hint" => w \cap {"sent", "timeout"} # {}
<1>1. /\ a.head \in {"hint", "prefix", "none"} /\ a.typed \in BOOLEAN /\ a.info \in Nat
  BY DEF Areas
<1>2. CASE ~ a.typed
  BY <1>1, <1>2 DEF Text, AreaOK, Words
<1>3. CASE a.typed /\ a.info # 0
  BY <1>1, <1>3 DEF Text, AreaOK, Words
<1>4. CASE a.typed /\ a.info = 0
  BY <1>1, <1>4 DEF Text, AreaOK, Words
<1>. QED  BY <1>1, <1>2, <1>3, <1>4

\* reply(): whom it is for is the box, or a comment that was shown in it.
LEMMA ReplySends ==
    ASSUME ServerInv, RequestsOK, PagesInv, NEW p \in Pages, NEW m, Reply(p, m)
    PROVE  Follows(reqs', reqs) /\ UNCHANGED <<server, session>>
<1>. DEFINE b == AfterBlur(p)
            a == b.areas[m]
            w == written[p][m]
            at == IF a.info = 0 THEN m ELSE a.info
<1>1. /\ where[p] = "home" /\ m \in Elems(boxes[p]) /\ a.btn = "on" /\ UNCHANGED <<server, session>>
  BY DEF Reply, Click
<1>2. PICK text \in {Text(a)} \cup IF Text(a) = "whole" THEN {"quoted"} ELSE {} :
         Send(<<[Request(p, me[p], "reply.add", at, m, text) EXCEPT !.why = w]>>)
  BY DEF Reply
<1>3. /\ me[p] \in DOMAIN users /\ me[p] \in Nat /\ m \in Ids /\ m \in DOMAIN comments
      /\ m \in Nat /\ m <= Len(comments) /\ Len(comments) \in Nat
      /\ \A c \in DOMAIN comments : c \in Nat /\ c <= Len(comments) /\ c # 0
  BY <1>1, HomeIs
<1>4. b.areas \in [Ids -> Areas] /\ written[p] \in [Ids -> SUBSET Deeds]
      /\ \A k \in Ids : b.areas[k].info <= Len(comments) /\ AreaOK(b.areas[k], written[p][k], k, 0)
  BY AfterBlurIs, BoxesAreIds
<1>. HIDE DEF b
<1>5. a \in Areas /\ w \in SUBSET Deeds /\ AreaOK(a, w, m, 0) /\ a.info <= Len(comments)
  BY <1>3, <1>4
<1>6. /\ text \in Words
      /\ text \in {"cut", "more"} => w \cap {"erased", "timeout"} # {}
      /\ text = "hint" => w \cap {"sent", "timeout"} # {}
  <2>. HIDE DEF a, w
  <2>. QED  BY <1>1, <1>2, <1>5, TextIs
<1>7. at \in DOMAIN comments /\ at \in Nat
  <2>1. a.info \in Nat /\ DOMAIN comments = 1..Len(comments)
    BY <1>5, BoxesAreIds DEF Areas
  <2>. QED  BY <1>3, <1>5, <2>1
<1>. HIDE DEF a, w, at
<1>. DEFINE r == [Request(p, me[p], "reply.add", at, m, text) EXCEPT !.why = w]
<1>8. /\ r \in Requests /\ r.page = p /\ r.user = me[p] /\ r.api = "reply.add" /\ r.at = at
      /\ r.box = m /\ r.text = text /\ r.why = w
      /\ r.phase = "sent" /\ r.seen = << >> /\ r.answer = NoAnswer
  <2>. DEFINE q == Request(p, me[p], "reply.add", at, m, text)
  <2>1. "reply.add" \in Apis
    BY DEF Apis, Writes
  <2>2. /\ q \in Requests /\ q.page = p /\ q.user = me[p] /\ q.api = "reply.add" /\ q.at = at
        /\ q.box = m /\ q.text = text
        /\ q.phase = "sent" /\ q.seen = << >> /\ q.answer = NoAnswer
    BY <1>3, <1>6, <1>7, <2>1, PlainRequestIs
  <2>3. r = [q EXCEPT !.why = w]
    OBVIOUS
  <2>. HIDE DEF q, r
  <2>. QED  BY <1>5, <2>2, <2>3 DEF Requests
<1>. HIDE DEF r
<1>9. AboutOK(r, comments, users)
  BY <1>3, <1>6, <1>7, <1>8 DEF AboutOK, WordsOK
<1>10. where'[p] = "home"
  BY <1>1 DEF session
<1>11. NewRequest(r)
  BY <1>8, <1>9, <1>10 DEF NewRequest
<1>12. Send(<<r>>)
  BY <1>2 DEF r
<1>. QED  BY <1>1, <1>11, <1>12, SendsNew

\* removeCommentReply sends one about a reply that was shown.
LEMMA RemoveCommentReplySends ==
    ASSUME ServerInv, RequestsOK, PagesInv, NEW p \in Pages, NEW m, NEW c,
           RemoveCommentReply(p, m, c)
    PROVE  Follows(reqs', reqs) /\ UNCHANGED <<server, page, past>>
<1>1. /\ where[p] = "home" /\ m \in Elems(boxes[p]) /\ c \in Elems(listed[p][m])
      /\ Send(<<Request(p, me[p], "delete", c, m, "reply")>>) /\ UNCHANGED <<server, page, past>>
  BY DEF RemoveCommentReply, Click
<1>2. where'[p] = "home"
  BY <1>1 DEF page, session
<1>3. /\ me[p] \in DOMAIN users /\ c \in DOMAIN comments /\ c \in Nat
      /\ m \in Nat /\ m <= Len(comments) /\ "reply" \in Words
  BY <1>1, HomeIs DEF Words
<1>4. NewRequest(Request(p, me[p], "delete", c, m, "reply"))
  BY <1>2, <1>3, FromHome
<1>. QED  BY <1>1, <1>4, SendsNew

\* removeCommentMain sends one about a box that was shown.
LEMMA CloseSends ==
    ASSUME ServerInv, RequestsOK, PagesInv, NEW p \in Pages, NEW m, Close(p, m)
    PROVE  Follows(reqs', reqs) /\ UNCHANGED <<server, session>>
<1>1. /\ where[p] = "home" /\ m \in Elems(boxes[p])
      /\ Send(<<Request(p, me[p], "delete", m, 0, "main")>>) /\ UNCHANGED <<server, session>>
  BY DEF Close, Click
<1>2. where'[p] = "home"
  BY <1>1 DEF session
<1>3. /\ me[p] \in DOMAIN users /\ m \in DOMAIN comments /\ m \in Nat
      /\ 0 <= Len(comments) /\ "main" \in Words
  BY <1>1, HomeIs DEF Words
<1>4. NewRequest(Request(p, me[p], "delete", m, 0, "main"))
  BY <1>2, <1>3, FromHome
<1>. QED  BY <1>1, <1>4, SendsNew

\* The buttons of index.html send one with a name.
LEMMA LoginSends ==
    ASSUME ServerInv, RequestsOK, NEW p \in Pages, NEW api \in {"signup", "signin"}, Login(p, api)
    PROVE  Follows(reqs', reqs) /\ UNCHANGED <<server, page, past>>
<1>1. PICK n \in Names : Send(<<Request(p, 0, api, 0, 0, n)>>)
  BY DEF Login
<1>. DEFINE r == Request(p, 0, api, 0, 0, n)
<1>2. n \in Words /\ api \in Apis
  BY DEF Words, Apis
<1>3. /\ r \in Requests /\ r.page = p /\ r.user = 0 /\ r.api = api /\ r.at = 0
      /\ r.box = 0 /\ r.text = n /\ r.why = {}
      /\ r.phase = "sent" /\ r.seen = << >> /\ r.answer = NoAnswer
  BY <1>2, PlainRequestIs
<1>. HIDE DEF r
<1>4. Len(comments) \in Nat
  BY DEF ServerInv, TableTypes
<1>5. AboutOK(r, comments, users)
  BY <1>3, <1>4 DEF AboutOK
<1>6. NewRequest(r)
  BY <1>3, <1>5 DEF NewRequest
<1>7. Send(<<r>>)
  BY <1>1 DEF r
<1>. QED  BY <1>6, <1>7, SendsNew DEF Login

----------------------------------------------------------------------------
(* The answers, and the requests a page sends after them *)

\* Requests whose node is gone are like what they were.
LEMMA RebuiltLike ==
    ASSUME ServerInv, NEW s \in Seq(Requests), NEW p, NEW inBoxes
    PROVE  LET t == Rebuilt(s, p, inBoxes)
           IN  /\ t \in Seq(Requests) /\ DOMAIN t = DOMAIN s
               /\ \A k \in DOMAIN s : Like(t[k], s[k])
               /\ \A k \in DOMAIN s : NewRequest(s[k]) => NewRequest(t[k])
<1>. DEFINE t == Rebuilt(s, p, inBoxes)
<1>1. DOMAIN s = 1..Len(s) /\ Len(s) \in Nat /\ \A k \in DOMAIN s : s[k] \in Requests
  OBVIOUS
<1>2. /\ DOMAIN t = DOMAIN s
      /\ \A k \in DOMAIN s :
            t[k] = s[k] \/ (s[k].api = "delete" /\ t[k] = [s[k] EXCEPT !.box = 0])
  BY DEF Rebuilt
<1>3. t = [k \in 1..Len(s) |-> t[k]]
  BY <1>1 DEF Rebuilt
<1>. HIDE DEF t
<1>4. ASSUME NEW r \in Requests, r.api = "delete"
      PROVE  /\ [r EXCEPT !.box = 0] \in Requests /\ Like([r EXCEPT !.box = 0], r)
             /\ NewRequest(r) => NewRequest([r EXCEPT !.box = 0])
  <2>. DEFINE q == [r EXCEPT !.box = 0]
  <2>1. q \in Requests
    BY DEF Requests
  <2>2. /\ q.user = r.user /\ q.api = r.api /\ q.at = r.at /\ q.text = r.text /\ q.why = r.why
        /\ q.phase = r.phase /\ q.seen = r.seen /\ q.answer = r.answer
        /\ q.box = 0 /\ q.page = r.page
    BY DEF Requests
  <2>. HIDE DEF q
  <2>3. Like(q, r)
    BY <1>4, <2>1, <2>2 DEF Like
  <2>4. NewRequest(r) => NewRequest(q)
    <3>1. 0 <= Len(comments)
      BY DEF ServerInv, TableTypes
    <3>. QED  BY <1>4, <2>1, <2>2, <3>1 DEF NewRequest, AboutOK
  <2>. QED  BY <2>1, <2>3, <2>4 DEF q
<1>5. \A k \in DOMAIN s : /\ t[k] \in Requests /\ Like(t[k], s[k])
                          /\ NewRequest(s[k]) => NewRequest(t[k])
  BY <1>1, <1>2, <1>4, LikeItself
<1>6. t \in Seq(Requests)
  BY <1>1, <1>2, <1>3, <1>5
<1>. QED  BY <1>2, <1>5, <1>6 DEF t

\* So they follow what those follow.
LEMMA FollowsRebuilt ==
    ASSUME ServerInv, NEW old \in Seq(Requests), NEW s, Follows(s, old), NEW p, NEW inBoxes
    PROVE  Follows(Rebuilt(s, p, inBoxes), old)
<1>1. s \in Seq(Requests)
  BY DEF Follows
<1>. DEFINE t == Rebuilt(s, p, inBoxes)
<1>2. /\ t \in Seq(Requests) /\ DOMAIN t = DOMAIN s
      /\ \A k \in DOMAIN s : Like(t[k], s[k])
      /\ \A k \in DOMAIN s : NewRequest(s[k]) => NewRequest(t[k])
  BY <1>1, RebuiltLike
<1>. HIDE DEF t
<1>3. Follows(t, old)
  BY <1>2, FollowsLike
<1>. QED  BY <1>3 DEF t

\* All requests but one follow them.
LEMMA WithoutFollows ==
    ASSUME RequestsOK, NEW i
    PROVE  reqs \in Seq(Requests) /\ Follows(Without(i), reqs)
<1>1. reqs \in Seq(Requests) /\ DOMAIN reqs \ {i} \in SUBSET DOMAIN reqs
  BY DEF RequestsOK
<1>. QED  BY <1>1, FollowsOnly DEF Without

\* The answer to a sign-up or sign-in sends nothing.
LEMMA SignedInFollows ==
    ASSUME RequestsOK, NEW p \in Pages, NEW i \in DOMAIN reqs, SignedIn(p, i)
    PROVE  Follows(reqs', reqs) /\ UNCHANGED <<server, where>>
BY WithoutFollows DEF SignedIn, Answered

\* What page the request that is answered is of.
LEMMA ReceiveIs ==
    ASSUME ServerInv, RequestsOK, PagesInv, AtHome, NEW p \in Pages, NEW i \in DOMAIN reqs,
           Receive(p, i)
    PROVE  /\ where[p] = "home" /\ where'[p] = "home" /\ me[p] \in DOMAIN users
           /\ UNCHANGED <<server, session>>
           /\ reqs[i] \in Requests /\ RequestOK(reqs[i], comments, users)
<1>1. reqs[i].api \notin {"signup", "signin"} /\ reqs[i].page = p /\ UNCHANGED <<server, session>>
  BY DEF Receive, Writes, Answered
<1>2. p # NoPage
  BY ServerAssumption
<1>3. where[p] = "home"
  BY <1>1, <1>2 DEF AtHome
<1>4. reqs[i] \in Requests /\ RequestOK(reqs[i], comments, users)
  BY DEF RequestsOK
<1>. QED  BY <1>1, <1>3, <1>4, HomeIs DEF session

\* processCommentMain asks for the replies of every box.
LEMMA MainFoundFollows ==
    ASSUME ServerInv, RequestsOK, PagesInv, AtHome, NEW p \in Pages, NEW i \in DOMAIN reqs,
           Receive(p, i), reqs[i].api = "main.find", MainFound(p, i)
    PROVE  Follows(reqs', reqs)
<1>. DEFINE found == reqs[i].answer.list
            list == OneRound(found)
            new == [k \in DOMAIN list |-> GetCommentReply(p, list[k])]
            s == Rebuilt(Without(i), p, Ids)
<1>1. found \in Seq(Nat) /\ Elems(found) \subseteq DOMAIN comments
  BY AnswerIs DEF AnswerOK
<1>2. list \in Seq(Nat) /\ Elems(list) \subseteq DOMAIN comments
  BY <1>1, OneRoundIs
<1>3. reqs' = s \o new
  BY DEF MainFound
<1>4. where'[p] = "home" /\ me[p] \in DOMAIN users
  BY ReceiveIs
<1>5. Follows(s, reqs) /\ reqs \in Seq(Requests)
  BY WithoutFollows, FollowsRebuilt
<1>. HIDE DEF s, list
<1>6. DOMAIN list = 1..Len(list) /\ Len(list) \in Nat
      /\ \A k \in DOMAIN list : list[k] \in DOMAIN comments
  BY <1>2 DEF Elems
<1>7. DOMAIN comments = 1..Len(comments) /\ Len(comments) \in Nat
  BY DEF ServerInv, TableTypes
<1>8. ASSUME NEW c \in DOMAIN comments PROVE NewRequest(GetCommentReply(p, c))
  <2>1. c \in Nat /\ c <= Len(comments) /\ "none" \in Words
    BY <1>7 DEF Words
  <2>. QED  BY <1>4, <2>1, FromHome DEF GetCommentReply
<1>9. \A k \in DOMAIN list : NewRequest(new[k]) /\ new[k] \in Requests
  BY <1>6, <1>8 DEF NewRequest
<1>10. DOMAIN new = DOMAIN list /\ new = [k \in 1..Len(list) |-> new[k]]
  BY <1>6
<1>. HIDE DEF new
<1>11. new \in Seq(Requests)
  BY <1>6, <1>9, <1>10
<1>. QED  BY <1>3, <1>5, <1>9, <1>10, <1>11, FollowsMore

\* processCommentReply asks for nothing.
LEMMA ReplyFoundFollows ==
    ASSUME ServerInv, RequestsOK, NEW p \in Pages, NEW i \in DOMAIN reqs, ReplyFound(p, i)
    PROVE  Follows(reqs', reqs)
<1>1. reqs' = Without(i) \/ \E m : reqs' = Rebuilt(Without(i), p, {m})
  BY DEF ReplyFound
<1>. QED  BY <1>1, WithoutFollows, FollowsRebuilt

\* What was written is asked for again.
LEMMA WrittenFollows ==
    ASSUME ServerInv, RequestsOK, PagesInv, AtHome, NEW p \in Pages, NEW i \in DOMAIN reqs,
           Receive(p, i), Written(p, i)
    PROVE  Follows(reqs', reqs)
<1>. DEFINE r == reqs[i]
            new == Again(p, r)
<1>1. where'[p] = "home" /\ me[p] \in DOMAIN users /\ r \in Requests /\ RequestOK(r, comments, users)
  BY ReceiveIs
<1>2. reqs' = Without(i) \o new
  BY DEF Written
<1>3. DOMAIN comments = 1..Len(comments) /\ Len(comments) \in Nat /\ "none" \in Words
  BY DEF ServerInv, TableTypes, Words
<1>4. ASSUME r.api = "reply.add" PROVE NewRequest(GetCommentReply(p, r.box))
  <2>1. r.box \in DOMAIN comments /\ r.box \in Nat /\ r.box <= Len(comments)
    BY <1>1, <1>3, <1>4 DEF Requests, RequestOK, AboutOK
  <2>. QED  BY <1>1, <1>3, <2>1, FromHome DEF GetCommentReply
<1>5. NewRequest(GetCommentMain(p))
  <2>1. 0 <= Len(comments)
    BY <1>3
  <2>. QED  BY <1>1, <1>3, <2>1, FromHome DEF GetCommentMain
<1>6. \/ new = << >>
      \/ \E q : new = <<q>> /\ NewRequest(q)
  BY <1>4, <1>5 DEF Again
<1>. HIDE DEF r, new
<1>7. new \in Seq(Requests) /\ \A k \in DOMAIN new : NewRequest(new[k])
  <2>1. CASE new = << >>
    BY <2>1
  <2>2. ASSUME NEW q, new = <<q>>, NewRequest(q)
        PROVE  new \in Seq(Requests) /\ \A k \in DOMAIN new : NewRequest(new[k])
    <3>1. q \in Requests
      BY <2>2 DEF NewRequest
    <3>2. new \in Seq(Requests) /\ \A k \in DOMAIN new : new[k] = q
      BY <2>2, <3>1
    <3>. QED  BY <2>2, <3>2
  <2>. QED  BY <1>6, <2>1, <2>2
<1>. QED  BY <1>2, <1>7, WithoutFollows, FollowsMore

\* An answer that comes: what is left of the requests, and of the page.
LEMMA ReceiveOK ==
    ASSUME ServerInv, RequestsOK, PagesInv, AtHome, NEW p \in Pages, NEW i \in DOMAIN reqs,
           Receive(p, i)
    PROVE  Follows(reqs', reqs) /\ UNCHANGED <<server, session>> /\ PagesInv'
<1>1. UNCHANGED <<server, session>>
  BY ReceiveIs
<1>2. CASE reqs[i].api = "main.find" /\ MainFound(p, i)
  BY <1>1, <1>2, MainFoundFollows, MainFoundOK
<1>3. CASE reqs[i].api = "reply.find" /\ ReplyFound(p, i)
  BY <1>1, <1>3, ReplyFoundFollows, ReplyFoundOK
<1>4. CASE reqs[i].api \in Writes /\ Written(p, i)
  BY <1>1, <1>4, WrittenFollows, WrittenOK
<1>. QED  BY <1>1, <1>2, <1>3, <1>4 DEF Receive

----------------------------------------------------------------------------
(* A page starts *)

\* Nothing of what the page left asked for is for it any more.
LEMMA LeftIs ==
    ASSUME RequestsOK, NEW p \in Pages
    PROVE  /\ Left(p) \in Seq(Requests) /\ Follows(Left(p), reqs)
           /\ \A k \in DOMAIN Left(p) :
                 \/ Left(p)[k].page = NoPage
                 \/ Left(p)[k].page # p /\ \E j \in DOMAIN reqs : Left(p)[k] = reqs[j]
<1>. DEFINE at   == {j \in DOMAIN reqs : reqs[j].page = p => reqs[j].phase # "answered"}
            open == Only(reqs, at)
            left == [k \in DOMAIN open |-> IF open[k].page = p THEN [open[k] EXCEPT !.page = NoPage]
                                           ELSE open[k]]
<1>1. Left(p) = left
  BY DEF Left
<1>2. reqs \in Seq(Requests) /\ at \in SUBSET DOMAIN reqs
  BY DEF RequestsOK
<1>. HIDE DEF at
<1>3. /\ open \in Seq(Requests) /\ Follows(open, reqs)
      /\ Sorted(at) \in [DOMAIN open -> at]
      /\ \A k \in DOMAIN open : open[k] = reqs[Sorted(at)[k]]
  BY <1>2, OnlyIs, FollowsOnly
<1>. HIDE DEF open
<1>4. \A k \in DOMAIN open : \E j \in DOMAIN reqs : open[k] = reqs[j]
  BY <1>2, <1>3
<1>5. DOMAIN open = 1..Len(open) /\ Len(open) \in Nat
      /\ \A k \in DOMAIN open : open[k] \in Requests
  BY <1>3
<1>6. ASSUME NEW r \in Requests
      PROVE  /\ [r EXCEPT !.page = NoPage] \in Requests /\ Like([r EXCEPT !.page = NoPage], r)
             /\ [r EXCEPT !.page = NoPage].page = NoPage
  <2>. DEFINE q == [r EXCEPT !.page = NoPage]
  <2>1. q \in Requests
    BY DEF Requests
  <2>2. /\ q.user = r.user /\ q.api = r.api /\ q.at = r.at /\ q.text = r.text /\ q.why = r.why
        /\ q.phase = r.phase /\ q.seen = r.seen /\ q.answer = r.answer
        /\ q.box = r.box /\ q.page = NoPage
    BY DEF Requests
  <2>. HIDE DEF q
  <2>3. Like(q, r)
    BY <2>1, <2>2 DEF Like
  <2>. QED  BY <2>1, <2>2, <2>3 DEF q
<1>7. \A k \in DOMAIN open :
         IF open[k].page = p THEN left[k] = [open[k] EXCEPT !.page = NoPage] ELSE left[k] = open[k]
  OBVIOUS
<1>8. DOMAIN left = DOMAIN open /\ left = [k \in 1..Len(open) |-> left[k]]
  BY <1>5
<1>. HIDE DEF left
<1>9. \A k \in DOMAIN open : left[k] \in Requests /\ Like(left[k], open[k])
  BY <1>5, <1>6, <1>7, LikeItself
<1>10. left \in Seq(Requests)
  BY <1>5, <1>8, <1>9
<1>11. ASSUME NEW k \in DOMAIN left
       PROVE  \/ left[k].page = NoPage
              \/ left[k].page # p /\ \E j \in DOMAIN reqs : left[k] = reqs[j]
  <2>1. open[k] \in Requests /\ k \in DOMAIN open
    BY <1>5, <1>8
  <2>2. CASE open[k].page = p
    BY <1>6, <1>7, <2>1, <2>2
  <2>3. CASE open[k].page # p
    BY <1>4, <1>7, <2>1, <2>3
  <2>. QED  BY <2>2, <2>3
<1>14. Follows(left, reqs)
  <2>. DEFINE g == Sorted(at)
  <2>1. \A k, l \in DOMAIN open : g[k] = g[l] => k = l
    BY <1>2, OnlyIs DEF open
  <2>2. DOMAIN reqs \subseteq Nat
    BY <1>2
  <2>3. g \in [DOMAIN left -> Nat] /\ \A k \in DOMAIN left : g[k] \in DOMAIN reqs
    BY <1>2, <1>3, <1>8, <2>2
  <2>4. \A k \in DOMAIN left : Like(left[k], reqs[g[k]])
    BY <1>3, <1>8, <1>9
  <2>. HIDE DEF g
  <2>5. FollowsBy(g, left, reqs)
    BY <1>8, <2>1, <2>3, <2>4 DEF FollowsBy
  <2>. QED  BY <1>10, <2>5 DEF Follows
<1>. QED  BY <1>1, <1>10, <1>11, <1>14

\* A page that starts asks for the list, if it is at home.
LEMMA ArriveFollows ==
    ASSUME ServerInv, RequestsOK, PagesInv, AtHome, NEW p \in Pages, NEW at, Arrive(p, at)
    PROVE  Follows(reqs', reqs) /\ UNCHANGED server /\ PagesInv' /\ AtHome'
<1>. DEFINE left == Left(p)
            r    == Request(p, cookie[p], "main.find", 0, 0, "none")
            new  == IF where'[p] # "home" THEN << >> ELSE <<r>>
<1>1. reqs' = left \o new /\ UNCHANGED server
  BY DEF Arrive
<1>2. /\ PagesInv' /\ \A q \in Pages \ {p} : where'[q] = where[q]
      /\ where'[p] = "home" => cookie[p] \in DOMAIN users
  BY ArriveOK
<1>3. /\ left \in Seq(Requests) /\ Follows(left, reqs) /\ reqs \in Seq(Requests)
      /\ \A k \in DOMAIN left :
            \/ left[k].page = NoPage
            \/ left[k].page # p /\ \E j \in DOMAIN reqs : left[k] = reqs[j]
  BY LeftIs DEF RequestsOK
<1>4. where'[p] = "home" => NewRequest(r) /\ r.page = p
  <2>1. 0 <= Len(comments) /\ "none" \in Words
    BY DEF ServerInv, TableTypes, Words
  <2>. QED  BY <1>2, <2>1, FromHome DEF Request
<1>. HIDE DEF left, r
<1>5. /\ new \in Seq(Requests)
      /\ \A k \in DOMAIN new : NewRequest(new[k]) /\ new[k].page = p /\ where'[p] = "home"
  <2>1. CASE where'[p] # "home"
    BY <2>1
  <2>2. CASE where'[p] = "home"
    <3>1. NewRequest(r) /\ r.page = p /\ r \in Requests
      BY <1>4, <2>2 DEF NewRequest
    <3>2. new = <<r>>
      BY <2>2
    <3>3. <<r>> \in Seq(Requests) /\ \A k \in DOMAIN <<r>> : <<r>>[k] = r
      BY <3>1
    <3>. QED  BY <2>2, <3>1, <3>2, <3>3
  <2>. QED  BY <2>1, <2>2
<1>. HIDE DEF new
<1>6. Follows(reqs', reqs)
  BY <1>1, <1>3, <1>5, FollowsMore
<1>7. ASSUME NEW k \in DOMAIN reqs',
             reqs'[k].page # NoPage, reqs'[k].api \notin {"signup", "signin"}
      PROVE  where'[reqs'[k].page] = "home"
  <2>1. \/ k \in DOMAIN left /\ reqs'[k] = left[k]
        \/ k - Len(left) \in DOMAIN new /\ reqs'[k] = new[k - Len(left)]
    <3>1. /\ Len(left) \in Nat /\ DOMAIN left = 1..Len(left)
          /\ Len(new) \in Nat /\ DOMAIN new = 1..Len(new)
      BY <1>3, <1>5
    <3>2. /\ left \o new \in Seq(Requests) /\ Len(left \o new) = Len(left) + Len(new)
          /\ \A i \in 1..(Len(left) + Len(new)) :
                (left \o new)[i] = IF i <= Len(left) THEN left[i] ELSE new[i - Len(left)]
      BY <1>3, <1>5, ConcatProperties
    <3>3. k \in 1..(Len(left) + Len(new))
      BY <1>1, <1>7, <3>2
    <3>. QED  BY <1>1, <3>1, <3>2, <3>3
  <2>2. CASE k \in DOMAIN left /\ reqs'[k] = left[k]
    <3>1. PICK j \in DOMAIN reqs : reqs'[k] = reqs[j]
      BY <1>3, <1>7, <2>2
    <3>2. reqs[j].page # p /\ where[reqs[j].page] = "home"
      BY <1>3, <1>7, <2>2, <3>1 DEF AtHome
    <3>3. reqs[j].page \in Pages
      <4>1. reqs[j] \in Requests
        BY DEF RequestsOK
      <4>. QED  BY <1>7, <3>1, <4>1 DEF Requests
    <3>. QED  BY <1>2, <3>1, <3>2, <3>3
  <2>3. CASE k - Len(left) \in DOMAIN new /\ reqs'[k] = new[k - Len(left)]
    BY <1>5, <2>3
  <2>. QED  BY <2>1, <2>2, <2>3
<1>8. AtHome'
  BY <1>7 DEF AtHome
<1>. QED  BY <1>1, <1>2, <1>6, <1>8

----------------------------------------------------------------------------
(* Every step of a page *)

\* What a step of a page does to the requests and to the page.
LEMMA PageStep ==
    ASSUME ServerInv, RequestsOK, PagesInv, AtHome, NEW p \in Pages,
           Writing(p) \/ Clicking(p) \/ Client(p)
    PROVE  Follows(reqs', reqs) /\ UNCHANGED server /\ PagesInv' /\ AtHome'
<1>1. Follows(reqs, reqs)
  BY FollowsItself DEF RequestsOK
<1>2. ASSUME Follows(reqs', reqs), UNCHANGED <<server, where>>, PagesInv'
      PROVE  Follows(reqs', reqs) /\ UNCHANGED server /\ PagesInv' /\ AtHome'
  BY <1>2, FollowsAtHome
<1>3. ASSUME UNCHANGED reqs, UNCHANGED <<server, where>>, PagesInv'
      PROVE  Follows(reqs', reqs) /\ UNCHANGED server /\ PagesInv' /\ AtHome'
  BY <1>1, <1>2, <1>3
<1>4. ASSUME Follows(reqs', reqs), UNCHANGED <<server, page, past>>
      PROVE  Follows(reqs', reqs) /\ UNCHANGED server /\ PagesInv' /\ AtHome'
  <2>1. UNCHANGED <<comments, users, where, cookie, me, shown, writing, written>>
    BY <1>4 DEF server, tables, page, session, past
  <2>. QED  BY <1>2, <1>4, <2>1, PageSame
<1>5. CASE Writing(p)
  <2>1. CASE Blur(p)
    BY <1>3, <2>1, BlurOK DEF Blur, session
  <2>2. CASE Type(p)
    BY <1>3, <2>2, TypingOK DEF Type, session
  <2>3. CASE Erase(p)
    BY <1>3, <2>3, EraseOK DEF Erase, session
  <2>4. ASSUME NEW m, Focus(p, m)
        PROVE  Follows(reqs', reqs) /\ UNCHANGED server /\ PagesInv' /\ AtHome'
    BY <1>3, <2>4, FocusOK DEF Focus, session
  <2>5. ASSUME NEW m, GreyButton(p, m)
        PROVE  Follows(reqs', reqs) /\ UNCHANGED server /\ PagesInv' /\ AtHome'
    BY <1>3, <2>5, GreyButtonOK DEF GreyButton, session
  <2>6. ASSUME NEW m, NEW c, Operate(p, m, c)
        PROVE  Follows(reqs', reqs) /\ UNCHANGED server /\ PagesInv' /\ AtHome'
    BY <1>3, <2>6, OperateOK DEF Operate, session
  <2>. QED  BY <1>5, <2>1, <2>2, <2>3, <2>4, <2>5, <2>6 DEF Writing
<1>6. CASE Clicking(p)
  <2>1. ASSUME NEW text \in {"long", "short"}, AddCommentMain(p, text)
        PROVE  Follows(reqs', reqs) /\ UNCHANGED server /\ PagesInv' /\ AtHome'
    BY <1>4, <2>1, AddCommentMainSends
  <2>2. ASSUME NEW m, Reply(p, m)
        PROVE  Follows(reqs', reqs) /\ UNCHANGED server /\ PagesInv' /\ AtHome'
    BY <1>2, <2>2, ReplySends, ReplyOK DEF session
  <2>3. ASSUME NEW m, Close(p, m)
        PROVE  Follows(reqs', reqs) /\ UNCHANGED server /\ PagesInv' /\ AtHome'
    BY <1>2, <2>3, CloseSends, CloseOK DEF session
  <2>4. ASSUME NEW m, NEW c, RemoveCommentReply(p, m, c)
        PROVE  Follows(reqs', reqs) /\ UNCHANGED server /\ PagesInv' /\ AtHome'
    BY <1>4, <2>4, RemoveCommentReplySends
  <2>5. ASSUME NEW api \in {"signup", "signin"}, Login(p, api)
        PROVE  Follows(reqs', reqs) /\ UNCHANGED server /\ PagesInv' /\ AtHome'
    BY <1>4, <2>5, LoginSends
  <2>6. CASE ExitLogin(p)
    BY <1>3, <2>6, ExitLoginOK DEF ExitLogin
  <2>7. ASSUME NEW at, Open(p, at)
        PROVE  Follows(reqs', reqs) /\ UNCHANGED server /\ PagesInv' /\ AtHome'
    BY <2>7, ArriveFollows DEF Open
  <2>. QED  BY <1>6, <2>1, <2>2, <2>3, <2>4, <2>5, <2>6, <2>7 DEF Clicking
<1>7. CASE Client(p)
  <2>1. ASSUME NEW i \in DOMAIN reqs, Receive(p, i)
        PROVE  Follows(reqs', reqs) /\ UNCHANGED server /\ PagesInv' /\ AtHome'
    BY <1>2, <2>1, ReceiveOK DEF session
  <2>2. ASSUME NEW i \in DOMAIN reqs, SignedIn(p, i)
        PROVE  Follows(reqs', reqs) /\ UNCHANGED server /\ PagesInv' /\ AtHome'
    BY <1>2, <2>2, SignedInFollows, SignedInOK
  <2>3. CASE Timeout(p)
    BY <1>3, <2>3, TimeoutOK DEF Timeout, session
  <2>4. CASE Leave(p)
    BY <2>4, ArriveFollows DEF Leave
  <2>. QED  BY <1>7, <2>1, <2>2, <2>3, <2>4 DEF Client
<1>. QED  BY <1>5, <1>6, <1>7

----------------------------------------------------------------------------
(* What is always so of the tables, the requests and the pages *)

\* A request that ends is answered.
LEMMA EndGives ==
    ASSUME ServerInv, RequestsOK, NEW i \in DOMAIN reqs, End(i)
    PROVE  \E a \in Responses : Answers(i, a)
<1>1. NoAnswer \in Responses /\ [ok |-> TRUE, list |-> << >>] \in Responses
  BY NoAnswerIs, DoneIs
<1>2. CASE SignUp(i) \/ AddMain(i) \/ AddReply(i)
  BY <1>1, <1>2 DEF SignUp, AddMain, AddReply
<1>3. CASE Delete(i)
  BY <1>1, <1>3 DEF Delete
<1>4. reqs[i].seen \in Seq(Comments) /\ DOMAIN reqs[i].seen \subseteq DOMAIN comments
  <2>1. reqs[i] \in Requests /\ RequestOK(reqs[i], comments, users)
    BY DEF RequestsOK
  <2>2. reqs[i].seen \in Seq(Comments) /\ Len(reqs[i].seen) <= Len(comments)
    BY <2>1 DEF Requests, RequestOK, SeenOK
  <2>3. comments \in Seq(Comments)
    BY DEF ServerInv, TableTypes
  <2>. DEFINE s == reqs[i].seen
  <2>4. s \in Seq(Comments) /\ Len(s) <= Len(comments)
    BY <2>2
  <2>. HIDE DEF s
  <2>5. DOMAIN s \subseteq DOMAIN comments
    BY <2>3, <2>4
  <2>. QED  BY <2>4, <2>5 DEF s
<1>5. CASE FindMain(i)
  <2>1. MainList(reqs[i].seen) \in Seq(Nat)
    BY <1>4, MainListIs
  <2>. QED  BY <1>5, <2>1 DEF FindMain, Responses
<1>6. CASE FindReply(i)
  <2>1. ReplyRows(reqs[i].seen, reqs[i].at) \in SUBSET DOMAIN comments
    BY <1>4, RowsIn
  <2>2. Replies(reqs[i].at, ReplyRows(reqs[i].seen, reqs[i].at)) \in Responses
    BY <2>1, RepliesIs DEF ServerInv, TableTypes
  <2>. QED  BY <1>6, <2>2 DEF FindReply
<1>. QED  BY <1>2, <1>3, <1>5, <1>6 DEF End

\* A step of the server is that of a request, which begins or is answered, or of the clock.
LEMMA ServeGives ==
    ASSUME ServerInv, RequestsOK, NEW i \in DOMAIN reqs, Begin(i) \/ End(i) \/ Fail(i)
    PROVE  Starts(i) \/ \E a \in Responses : Answers(i, a)
BY BeginGives, EndGives, NoAnswerIs DEF Fail

\* The server does not change of what page a request is, or what for.
LEMMA ServerAtHome ==
    ASSUME ServerInv, RequestsOK, AtHome, Serve \/ TimePasses, UNCHANGED page
    PROVE  AtHome'
<1>1. where' = where
  BY DEF page, session
<1>2. SUFFICES ASSUME NEW k \in DOMAIN reqs'
               PROVE  \E j \in DOMAIN reqs : /\ reqs'[k].page = reqs[j].page
                                             /\ reqs'[k].api = reqs[j].api
  BY <1>1 DEF AtHome
<1>3. CASE TimePasses
  BY <1>3 DEF TimePasses
<1>4. CASE Serve
  <2>1. PICK i \in DOMAIN reqs : Begin(i) \/ End(i) \/ Fail(i)
    BY <1>4 DEF Serve
  <2>2. reqs \in Seq(Requests) /\ comments \in Seq(Comments) /\ reqs[i] \in Requests
    BY DEF RequestsOK, ServerInv, TableTypes
  <2>3. CASE Starts(i)
    <3>1. DOMAIN reqs' = DOMAIN reqs
          /\ reqs'[k] = IF k = i THEN [reqs[i] EXCEPT !.phase = "begun", !.seen = comments]
                        ELSE reqs[k]
      BY <2>2, <2>3, BeginsGives DEF Starts
    <3>. QED  BY <2>2, <3>1 DEF Requests
  <2>4. ASSUME NEW a \in Responses, Answers(i, a)
        PROVE  \E j \in DOMAIN reqs : reqs'[k].page = reqs[j].page /\ reqs'[k].api = reqs[j].api
    <3>1. PICK f \in [DOMAIN reqs' -> DOMAIN reqs] :
             reqs'[k] = IF f[k] = i THEN AnsweredWith(reqs[i], a) ELSE reqs[f[k]]
      BY <2>2, <2>4, AnswersGives
    <3>2. AnsweredWith(reqs[i], a).page = reqs[i].page /\ AnsweredWith(reqs[i], a).api = reqs[i].api
      BY <2>2 DEF AnsweredWith, Requests
    <3>. QED  BY <3>1, <3>2
  <2>. QED  BY <2>1, <2>3, <2>4, ServeGives
<1>. QED  BY <1>3, <1>4

\* Every step keeps the invariant.
LEMMA TypeInvStep ==
    ASSUME TypeInv, [Next]_vars
    PROVE  TypeInv'
<1>1. ServerInv /\ RequestsOK /\ PagesInv /\ AtHome
  BY DEF TypeInv
<1>2. ASSUME NEW p \in Pages, Writing(p) \/ Clicking(p) \/ Client(p)
      PROVE  TypeInv'
  <2>1. Follows(reqs', reqs) /\ UNCHANGED server /\ PagesInv' /\ AtHome'
    BY <1>1, <1>2, PageStep
  <2>2. UNCHANGED <<comments, users, cacheMain, cacheReply, period>>
    BY <2>1 DEF server, tables, caches
  <2>3. ServerInv'
    BY <1>1, <2>2 DEF ServerInv, TableTypes, CommentsOK, CachesOK
  <2>4. RequestsOK'
    BY <1>1, <2>1, <2>2, FollowsOK
  <2>. QED  BY <2>1, <2>3, <2>4 DEF TypeInv
<1>3. CASE (Serve \/ TimePasses) /\ UNCHANGED <<page, budget, past>>
  <2>1. Grows /\ ServerInv' /\ RequestsOK'
    BY <1>1, <1>3, ServerStep
  <2>2. PagesInv'
    BY <1>1, <1>3, <2>1, PagesStay DEF ServerInv
  <2>3. AtHome'
    BY <1>1, <1>3, ServerAtHome
  <2>. QED  BY <2>1, <2>2, <2>3 DEF TypeInv
<1>4. CASE UNCHANGED vars
  <2>1. UNCHANGED <<comments, users, cacheMain, cacheReply, period, reqs, where, cookie, me,
                    shown, writing, written>>
    BY <1>4 DEF vars, server, tables, caches, page, session, past
  <2>2. ServerInv' /\ RequestsOK' /\ AtHome'
    BY <1>1, <2>1 DEF ServerInv, TableTypes, CommentsOK, CachesOK, RequestsOK, AtHome
  <2>3. PagesInv'
    BY <1>1, <2>1, PageSame
  <2>. QED  BY <2>2, <2>3 DEF TypeInv
<1>. QED  BY <1>2, <1>3, <1>4 DEF Next

\* The tables at first.
LEMMA TablesAtFirst ==
    ASSUME Init
    PROVE  ServerInv /\ comments = Table /\ DOMAIN users = DOMAIN Members
<1>1. /\ comments = Table /\ users = [u \in DOMAIN Members |-> [name |-> Members[u], last |-> 0]]
      /\ cacheMain = {} /\ cacheReply = [c \in Ids |-> {}] /\ period = 1
  BY DEF Init, ServerInit, Ids
<1>2. DOMAIN Members = 1..Len(Members) /\ Len(Members) \in Nat
      /\ \A u \in DOMAIN Members : Members[u] \in Elems(Members)
  BY TableAssumption DEF Elems
<1>3. DOMAIN Table = 1..Len(Table) /\ Len(Table) \in Nat /\ Len(Table) <= MaxComments
      /\ \A c \in DOMAIN Table :
            /\ Table[c] \in [user : DOMAIN Members, parent : 0..MaxComments, deleted : BOOLEAN,
                             text : {"long", "whole", "quoted"}, period : Int, why : {{}}]
            /\ Table[c].parent < c
  <2>. DEFINE R == [user : DOMAIN Members, parent : 0..MaxComments, deleted : BOOLEAN,
                    text : {"long", "whole", "quoted"}, period : Int, why : {{}}]
  <2>1. Table \in Seq(R) /\ Len(Table) <= MaxComments
        /\ \A c \in DOMAIN Table : Table[c].parent < c
    BY TableAssumption
  <2>. HIDE DEF R
  <2>2. DOMAIN Table = 1..Len(Table) /\ Len(Table) \in Nat /\ \A c \in DOMAIN Table : Table[c] \in R
    BY <2>1
  <2>. QED  BY <2>1, <2>2 DEF R
<1>4. \A c \in DOMAIN Table : Table[c] \in Comments
  BY <1>2, <1>3, ServerAssumption DEF Comments, Words
<1>5. comments \in Seq(Comments)
  <2>1. Table \in Seq(Comments)
    <3>1. Table = [c \in 1..Len(Table) |-> Table[c]]
      BY TableAssumption
    <3>. QED  BY <1>3, <1>4, <3>1
  <2>. QED  BY <1>1, <2>1
<1>6. users \in Seq(Users) /\ DOMAIN users = DOMAIN Members
  <2>1. \A u \in DOMAIN Members : [name |-> Members[u], last |-> 0] \in Users
    BY <1>2 DEF Users
  <2>. QED  BY <1>1, <1>2, <2>1
<1>7. TableTypes
  BY <1>1, <1>5, <1>6 DEF TableTypes
<1>8. CommentsOK
  <2>1. \A c \in DOMAIN Table : WordsOK(Table[c]) /\ Table[c].user \in DOMAIN Members
    BY <1>3 DEF WordsOK
  <2>. QED  BY <1>1, <1>3, <1>6, <2>1 DEF CommentsOK
<1>9. CachesOK
  BY <1>1 DEF CachesOK
<1>. QED  BY <1>1, <1>6, <1>7, <1>8, <1>9 DEF ServerInv

\* It is so at first.
LEMMA TypeInvInit ==
    ASSUME Init
    PROVE  TypeInv
<1>1. ServerInv /\ comments = Table /\ DOMAIN users = DOMAIN Members
  BY TablesAtFirst
<1>2. reqs = << >>
  BY DEF Init, ServerInit
<1>3. RequestsOK /\ AtHome
  BY <1>2 DEF RequestsOK, AtHome
<1>4. /\ where = [p \in Pages |-> IF p \in DOMAIN Home THEN "home" ELSE "login"]
      /\ cookie = [p \in Pages |-> IF p \in DOMAIN Home THEN Home[p] ELSE NoCookie]
      /\ me = [p \in Pages |-> IF p \in DOMAIN Home THEN Home[p] ELSE 0]
  BY DEF Init
<1>5. DOMAIN users \subseteq Nat /\ \A p \in DOMAIN Home : Home[p] \in DOMAIN users
  BY <1>1, PageAssumption DEF ServerInv, TableTypes
<1>6. SessionTypes /\ \A p \in Pages : CookieOK(p)
  BY <1>4, <1>5 DEF SessionTypes, CookieOK, NoCookie, NullCookie
<1>7. Table \in Seq(Comments) /\ DOMAIN Table = 1..Len(Table) /\ Len(Table) \in Nat
  BY <1>1 DEF ServerInv, TableTypes
<1>8. ShownTypes /\ \A p \in Pages : ShownOK(p)
  <2>. DEFINE B == OneRound(MainList(Table))
              L(p, m) == IF p \in DOMAIN Home /\ m \in DOMAIN Table
                         THEN Sorted(ReplyRows(Table, m) \ {m}) ELSE << >>
  <2>1. B \in Seq(Nat) /\ Elems(B) \subseteq DOMAIN Table
    BY <1>7, MainListIs, OneRoundIs
  <2>2. << >> \in Seq(Nat) /\ Elems(<< >>) = {}
    BY DEF Elems
  <2>3. ASSUME NEW m
        PROVE  /\ Sorted(ReplyRows(Table, m) \ {m}) \in Seq(Nat)
               /\ Elems(Sorted(ReplyRows(Table, m) \ {m})) \subseteq DOMAIN Table
    <3>1. ReplyRows(Table, m) \ {m} \in SUBSET (1..Len(Table))
      BY <1>7, RowsIn
    <3>. QED  BY <1>7, <3>1, SortedList
  <2>4. \A p, m : L(p, m) \in Seq(Nat) /\ Elems(L(p, m)) \subseteq DOMAIN Table
    BY <2>2, <2>3
  <2>5. /\ boxes = [p \in Pages |-> IF p \in DOMAIN Home THEN B ELSE << >>]
        /\ listed = [p \in Pages |-> [m \in Ids |-> L(p, m)]]
    BY DEF Init
  <2>. HIDE DEF B, L
  <2>. QED  BY <1>1, <2>1, <2>2, <2>4, <2>5 DEF ShownTypes, ShownOK
<1>9. WritingTypes /\ \A p \in Pages : WritingOK(p)
  <2>1. /\ areas = [p \in Pages |-> [m \in Ids |-> NewArea]]
        /\ focus = [p \in Pages |-> 0] /\ pending = [p \in Pages |-> << >>]
        /\ written = [p \in Pages |-> [m \in Ids |-> {}]]
    BY DEF Init
  <2>2. NewArea \in Areas /\ NewArea.info = 0 /\ \A m \in Ids : AreaOK(NewArea, {}, m, 0)
    <3>1. \A m \in Ids : m # 0
      BY ServerAssumption DEF Ids
    <3>. QED  BY <3>1 DEF NewArea, Areas, AreaOK
  <2>3. << >> \in Seq(Timeouts) /\ 0 <= Len(comments)
    BY <1>1, <1>7
  <2>. HIDE DEF NewArea
  <2>. QED  BY <2>1, <2>2, <2>3 DEF WritingTypes, WritingOK
<1>. QED  BY <1>1, <1>3, <1>6, <1>8, <1>9 DEF TypeInv, PagesInv

\* The tables, the requests and the pages are always as they should be.
THEOREM TypesAlways == Spec => []TypeInv
<1>1. Init => TypeInv
  BY TypeInvInit
<1>2. TypeInv /\ [Next]_vars => TypeInv'
  BY TypeInvStep
<1>. QED  BY <1>1, <1>2, PTL DEF Spec

\* A comment is below one that was there before it, by a user there is; a page shows,
\* replies to and waits for what there is, and is at home with a user.
THEOREM TypeCorrect == Spec => []TypeOK
<1>1. TypeInv => TypeOK
  <2>. SUFFICES ASSUME TypeInv PROVE TypeOK
    OBVIOUS
  <2>1. ServerInv /\ PagesInv /\ comments \in Seq(Comments) /\ users \in Seq(Users)
    BY DEF TypeInv, ServerInv, TableTypes
  <2>2. ASSUME NEW c \in DOMAIN comments
        PROVE  comments[c].parent \in 0..(c - 1) /\ comments[c].user \in DOMAIN users
    <3>1. comments[c] \in Comments /\ c \in Nat
      BY <2>1
    <3>2. comments[c].parent \in Nat /\ comments[c].parent < c /\ comments[c].user \in DOMAIN users
      BY <2>1, <3>1 DEF Comments, ServerInv, CommentsOK
    <3>. QED  BY <3>1, <3>2
  <2>3. cookie \in [Pages -> {NoCookie, NullCookie} \cup 1..Len(users)]
    BY <2>1 DEF PagesInv, SessionTypes, CookieOK
  <2>4. ASSUME NEW p \in Pages
        PROVE  /\ where[p] = "home" => me[p] \in DOMAIN users
               /\ Elems(boxes[p]) \subseteq DOMAIN comments
               /\ \A m \in Ids : /\ areas[p][m].info \in 0..Len(comments)
                                 /\ areas[p][m].btn \in {"unset", "on", "off"}
               /\ focus[p] \in {0} \cup Elems(boxes[p])
               /\ \A i \in DOMAIN pending[p] : pending[p][i].box \in Elems(boxes[p])
    <3>1. CookieOK(p) /\ ShownOK(p) /\ WritingOK(p) /\ WritingTypes /\ Len(comments) \in Nat
      BY <2>1 DEF PagesInv
    <3>2. \A m \in Ids : areas[p][m] \in Areas
      BY <3>1 DEF WritingTypes
    <3>3. \A m \in Ids : areas[p][m].info \in Nat /\ areas[p][m].btn \in {"unset", "on", "off"}
      BY <3>2 DEF Areas
    <3>. QED  BY <3>1, <3>3 DEF CookieOK, ShownOK, WritingOK
  <2>. QED  BY <2>2, <2>3, <2>4 DEF TypeOK
<1>. QED  BY <1>1, TypesAlways, PTL

\* Words that are not what was typed are in the table only with what was done to them.
THEOREM WordsExplained == Spec => []SentAsTyped
<1>1. TypeInv => SentAsTyped
  BY DEF TypeInv, ServerInv, CommentsOK, WordsOK, SentAsTyped
<1>. QED  BY <1>1, TypesAlways, PTL

----------------------------------------------------------------------------
(* What only requests that overlap get wrong *)

\* The requests that have begun, and are to do what they were let do.
Begun(api) == {i \in DOMAIN reqs : reqs[i].phase = "begun" /\ reqs[i].api = api}

\* No two users have a name, nor will have.
NameInv ==
    "name" \notin races =>
       /\ \A u, v \in DOMAIN users : users[u].name = users[v].name => u = v
       /\ \A i \in Begun("signup") : Named(reqs[i].text) = {}
       /\ \A i, j \in Begun("signup") : i = j

\* The time of a user's last comment is not before any of theirs, nor after the clock.
TimesInv ==
    /\ \A u \in DOMAIN users : users[u].last <= period
    /\ \A c \in DOMAIN comments : comments[c].parent = 0 =>
          comments[c].period <= users[comments[c].user].last

\* A user has one main comment in a period, and does not write another.
LimitInv ==
    "limit" \notin races =>
       /\ \A c, d \in DOMAIN comments :
             /\ comments[c].parent = 0 /\ comments[d].parent = 0
             /\ comments[c].user = comments[d].user /\ comments[c].period = comments[d].period
             => c = d
       /\ \A i \in Begun("main.add") : users[reqs[i].user].last # period
       /\ \A i, j \in Begun("main.add") : reqs[i].user = reqs[j].user => i = j

\* No reply is without its parent: while one is written none is deleted, and one that is
\* deleted goes with all that is below it, for the snapshot has every reply.
OrphanInv ==
    "orphan" \notin races =>
       /\ Orphans(comments) = {}
       /\ \A i \in Begun("reply.add") : ~ comments[reqs[i].at].deleted
       /\ Begun("reply.add") = {} \/ Begun("delete") = {}
       /\ \A i \in Begun("delete") : \A c \in DOMAIN comments :
             c \in DOMAIN reqs[i].seen \/ comments[c].parent = 0

\* The caches are the table's: what is to be put there was read of the table as it is.
StaleInv ==
    "stale" \notin races =>
       /\ cacheMain \subseteq {MainList(comments)}
       /\ \A c \in Ids : cacheReply[c] \subseteq {ReplyRows(comments, c)}
       /\ \A i \in DOMAIN reqs : reqs[i].phase = "begun" /\ reqs[i].api \notin Writes
                                 => reqs[i].seen = comments
       /\ \A i, j \in DOMAIN reqs : reqs[i].phase = "begun" /\ reqs[j].phase = "begun"
                                    => (reqs[i].api \in Writes <=> reqs[j].api \in Writes)

\* The inductive invariant, given that of the types.
RacesInv == NameInv /\ TimesInv /\ LimitInv /\ OrphanInv /\ StaleInv

----------------------------------------------------------------------------
(* The kinds of steps *)

\* No request begins, and the one at i, if there is, has ended.
KeepsBy(f, i) ==
    /\ \A k \in DOMAIN reqs' : reqs'[k].phase = "begun" =>
          /\ f[k] \in DOMAIN reqs /\ f[k] # i /\ reqs[f[k]].phase = "begun"
          /\ reqs'[k].api = reqs[f[k]].api /\ reqs'[k].user = reqs[f[k]].user
          /\ reqs'[k].at = reqs[f[k]].at /\ reqs'[k].text = reqs[f[k]].text
          /\ reqs'[k].seen = reqs[f[k]].seen
    /\ \A k, l \in DOMAIN reqs' :
          reqs'[k].phase = "begun" /\ reqs'[l].phase = "begun" /\ f[k] = f[l] => k = l
\* Some f says which request of before each is.
KeepsBut(i) == \E f : KeepsBy(f, i)

\* Nothing is written.
Idle == /\ \E i : KeepsBut(i)
        /\ UNCHANGED <<comments, users, cacheMain, cacheReply, period, races>>

\* What a page does ends no request of the server's.
LEMMA FollowsKeeps ==
    ASSUME RequestsOK, Follows(reqs', reqs)
    PROVE  KeepsBut(0)
<1>1. PICK f : FollowsBy(f, reqs', reqs)
  BY DEF Follows
<1>2. /\ \A k \in DOMAIN reqs' : \/ f[k] \in DOMAIN reqs /\ Like(reqs'[k], reqs[f[k]])
                                 \/ f[k] = 0 /\ NewRequest(reqs'[k])
      /\ \A k, l \in DOMAIN reqs' : f[k] = f[l] /\ f[k] # 0 => k = l
  BY <1>1 DEF FollowsBy
<1>3. 0 \notin DOMAIN reqs
  BY DEF RequestsOK
<1>4. \A k \in DOMAIN reqs' : reqs'[k].phase = "begun"
         => f[k] \in DOMAIN reqs /\ Like(reqs'[k], reqs[f[k]]) /\ f[k] # 0
  BY <1>2, <1>3 DEF NewRequest
<1>5. KeepsBy(f, 0)
  BY <1>2, <1>4 DEF KeepsBy, Like
<1>. QED  BY <1>5 DEF KeepsBut

\* Nor does the server, but the one it answers.
LEMMA AnswersKeeps ==
    ASSUME RequestsOK, NEW i \in DOMAIN reqs, NEW a \in Responses, Answers(i, a)
    PROVE  KeepsBut(i) /\ UNCHANGED races
<1>1. PICK f \in [DOMAIN reqs' -> DOMAIN reqs] :
         /\ \A k, l \in DOMAIN reqs' : f[k] = f[l] => k = l
         /\ \A k \in DOMAIN reqs' : reqs'[k] = IF f[k] = i THEN AnsweredWith(reqs[i], a)
                                               ELSE reqs[f[k]]
  BY AnswersGives DEF RequestsOK
<1>2. AnsweredWith(reqs[i], a).phase = "answered"
  <2>1. reqs[i] \in Requests
    BY DEF RequestsOK
  <2>. QED  BY <2>1 DEF AnsweredWith, Requests
<1>3. \A k \in DOMAIN reqs' : reqs'[k].phase = "begun" => f[k] # i /\ reqs'[k] = reqs[f[k]]
  BY <1>1, <1>2
<1>4. KeepsBy(f, i)
  BY <1>1, <1>3 DEF KeepsBy
<1>. QED  BY <1>4 DEF KeepsBut, Answers

\* Every step is of one of these kinds.
LEMMA StepKinds ==
    ASSUME TypeInv, [Next]_vars
    PROVE  \/ Idle
           \/ KeepsBut(0) /\ TimePasses
           \/ \E i \in DOMAIN reqs : Starts(i)
           \/ \E i \in DOMAIN reqs : End(i) /\ KeepsBut(i) /\ UNCHANGED races
<1>1. ServerInv /\ RequestsOK /\ PagesInv /\ AtHome
  BY DEF TypeInv
<1>2. reqs' = reqs => KeepsBut(0)
  BY <1>1, FollowsItself, FollowsKeeps DEF RequestsOK
<1>3. ASSUME NEW p \in Pages, Writing(p) \/ Clicking(p) \/ Client(p)
      PROVE  Idle
  <2>1. Follows(reqs', reqs) /\ UNCHANGED server
    BY <1>1, <1>3, PageStep
  <2>. QED  BY <1>1, <2>1, FollowsKeeps DEF Idle, server, tables, caches
<1>4. CASE TimePasses
  BY <1>2, <1>4 DEF TimePasses
<1>5. CASE Serve
  <2>1. PICK i \in DOMAIN reqs : Begin(i) \/ End(i) \/ Fail(i)
    BY <1>5 DEF Serve
  <2>2. Starts(i) \/ (KeepsBut(i) /\ UNCHANGED races)
    BY <1>1, <2>1, ServeGives, AnswersKeeps
  <2>3. CASE Begin(i)
    <3>1. UNCHANGED <<comments, users, cacheMain, cacheReply, period>>
      BY <2>3 DEF Begin, tables, caches
    <3>. QED  BY <2>2, <2>3, <3>1 DEF Idle
  <2>4. CASE End(i)
    <3>1. KeepsBut(i) /\ UNCHANGED races
      BY <1>1, <2>4, EndGives, AnswersKeeps
    <3>. QED  BY <2>4, <3>1
  <2>5. CASE Fail(i)
    <3>1. KeepsBut(i) /\ UNCHANGED races
      BY <1>1, <2>5, NoAnswerIs, AnswersKeeps DEF Fail
    <3>. QED  BY <2>5, <3>1 DEF Fail, Idle, tables, caches
  <2>. QED  BY <2>1, <2>3, <2>4, <2>5
<1>6. CASE UNCHANGED vars
  BY <1>2, <1>6 DEF vars, Idle, server, tables, caches
<1>. QED  BY <1>3, <1>4, <1>5, <1>6 DEF Next

\* A request that begins: the others are what they were, and what may go wrong is told.
LEMMA BeginsIs ==
    ASSUME TypeInv, NEW i \in DOMAIN reqs, Starts(i)
    PROVE  /\ UNCHANGED <<comments, users, cacheMain, cacheReply, period>>
           /\ races \subseteq races' /\ DOMAIN reqs' = DOMAIN reqs
           /\ \A k \in DOMAIN reqs \ {i} : reqs'[k] = reqs[k]
           /\ reqs[i].phase = "sent" /\ reqs'[i].phase = "begun" /\ reqs'[i].seen = comments
           /\ reqs'[i].api = reqs[i].api /\ reqs'[i].user = reqs[i].user
           /\ reqs'[i].at = reqs[i].at /\ reqs'[i].text = reqs[i].text
           /\ \A j \in DOMAIN reqs \ {i} : reqs[j].phase = "begun"
                                           => Overlaps(reqs[i], reqs[j]) \subseteq races'
<1>1. UNCHANGED <<comments, users, cacheMain, cacheReply, period>> /\ reqs[i].phase = "sent"
  BY DEF Starts
<1>2. reqs \in Seq(Requests) /\ comments \in Seq(Comments) /\ reqs[i] \in Requests
  BY DEF TypeInv, RequestsOK, ServerInv, TableTypes
<1>3. /\ DOMAIN reqs' = DOMAIN reqs
      /\ \A k \in DOMAIN reqs :
            reqs'[k] = IF k = i THEN [reqs[i] EXCEPT !.phase = "begun", !.seen = comments]
                       ELSE reqs[k]
  BY <1>2, BeginsGives DEF Starts
<1>4. /\ reqs'[i].phase = "begun" /\ reqs'[i].seen = comments
      /\ reqs'[i].api = reqs[i].api /\ reqs'[i].user = reqs[i].user
      /\ reqs'[i].at = reqs[i].at /\ reqs'[i].text = reqs[i].text
  BY <1>2, <1>3 DEF Requests
<1>5. races' = races \cup UNION {Overlaps(reqs[i], reqs[j]) : j \in Running(i)}
  BY DEF Starts, Begins
<1>6. \A j \in DOMAIN reqs \ {i} : reqs[j].phase = "begun"
                                   => Overlaps(reqs[i], reqs[j]) \subseteq races'
  BY <1>5 DEF Running
<1>. QED  BY <1>1, <1>3, <1>4, <1>5, <1>6

\* What a comment that is added, or a deletion, does to the table.
LEMMA AddedIs ==
    ASSUME TypeInv, NEW i \in DOMAIN reqs, reqs[i].api \in {"main.add", "reply.add"},
           Inserted(reqs[i])
    PROVE  LET n == Len(comments) + 1
           IN  /\ n \notin DOMAIN comments /\ DOMAIN comments' = DOMAIN comments \cup {n}
               /\ \A c \in DOMAIN comments : comments'[c] = comments[c]
               /\ comments'[n].user = reqs[i].user /\ comments'[n].parent = reqs[i].at
               /\ comments'[n].period = period /\ comments'[n].deleted = FALSE
<1>. DEFINE n   == Len(comments) + 1
            r   == reqs[i]
            new == [user |-> r.user, parent |-> r.at, deleted |-> FALSE,
                    text |-> r.text, period |-> period, why |-> r.why]
<1>1. comments \in Seq(Comments) /\ period \in Nat /\ r \in Requests
  BY DEF TypeInv, ServerInv, TableTypes, RequestsOK
<1>2. new \in Comments
  BY <1>1 DEF Requests, Comments
<1>3. new.user = r.user /\ new.parent = r.at /\ new.period = period /\ new.deleted = FALSE
  OBVIOUS
<1>4. comments' = Append(comments, new)
  BY DEF Inserted
<1>. HIDE DEF new
<1>5. /\ DOMAIN comments' = 1..n /\ comments'[n] = new /\ DOMAIN comments = 1..Len(comments)
      /\ Len(comments) \in Nat /\ \A c \in DOMAIN comments : comments'[c] = comments[c]
  BY <1>1, <1>2, <1>4
<1>6. n \notin DOMAIN comments /\ DOMAIN comments' = DOMAIN comments \cup {n}
  BY <1>5
<1>. QED  BY <1>3, <1>5, <1>6

\* A deletion marks what is under the comment in the snapshot.
LEMMA DeletedIs ==
    ASSUME TypeInv, NEW i \in DOMAIN reqs, Delete(i)
    PROVE  /\ DOMAIN comments' = DOMAIN comments
           /\ \A c \in DOMAIN comments :
                 /\ comments'[c].user = comments[c].user /\ comments'[c].parent = comments[c].parent
                 /\ comments'[c].period = comments[c].period
                 /\ comments'[c].deleted <=> \/ comments[c].deleted
                                             \/ c \in Under(reqs[i].seen, reqs[i].at)
<1>. DEFINE under == Under(reqs[i].seen, reqs[i].at)
            gone == under \cap Alive(comments)
<1>1. \A c \in DOMAIN comments : comments[c] \in Comments
  BY DEF TypeInv, ServerInv, TableTypes
<1>2. \A c \in DOMAIN comments : comments[c].deleted \/ c \in gone <=> comments[c].deleted \/ c \in under
  BY DEF Alive
<1>3. CASE gone = {}
  <2>1. comments' = comments
    BY <1>3 DEF Delete
  <2>. QED  BY <1>2, <1>3, <2>1
<1>4. CASE gone # {}
  <2>1. comments' = [c \in DOMAIN comments |->
                       IF c \in gone THEN [comments[c] EXCEPT !.deleted = TRUE] ELSE comments[c]]
    BY <1>4 DEF Delete
  <2>. HIDE DEF gone, under
  <2>2. ASSUME NEW r \in Comments PROVE /\ [r EXCEPT !.deleted = TRUE].parent = r.parent
                                        /\ [r EXCEPT !.deleted = TRUE].user = r.user
                                        /\ [r EXCEPT !.deleted = TRUE].period = r.period
                                        /\ [r EXCEPT !.deleted = TRUE].deleted = TRUE
    BY DEF Comments
  <2>3. \A c \in DOMAIN comments : IF c \in gone
           THEN comments'[c] = [comments[c] EXCEPT !.deleted = TRUE] ELSE comments'[c] = comments[c]
    BY <2>1
  <2>4. DOMAIN comments' = DOMAIN comments
    BY <2>1
  <2>5. ASSUME NEW c \in DOMAIN comments
        PROVE  /\ comments'[c].user = comments[c].user /\ comments'[c].parent = comments[c].parent
               /\ comments'[c].period = comments[c].period
               /\ comments'[c].deleted <=> comments[c].deleted \/ c \in gone
    <3>1. CASE c \in gone
      BY <1>1, <2>2, <2>3, <3>1
    <3>2. CASE c \notin gone
      BY <2>3, <3>2
    <3>. QED  BY <3>1, <3>2
  <2>. QED  BY <1>2, <2>4, <2>5 DEF under
<1>. QED  BY <1>3, <1>4

----------------------------------------------------------------------------
(* Each of them is kept *)

\* What a request is about that has begun.
LEMMA BegunIs ==
    ASSUME TypeInv, NEW i \in DOMAIN reqs
    PROVE  /\ i # 0
           /\ reqs[i].api \notin {"signup", "signin"} => reqs[i].user \in DOMAIN users
           /\ reqs[i].api = "main.add" => reqs[i].at = 0
           /\ reqs[i].api \in {"reply.add", "delete", "reply.find"}
              => reqs[i].at \in DOMAIN comments
           /\ reqs[i].seen \in Seq(Comments) /\ DOMAIN reqs[i].seen \subseteq DOMAIN comments
           /\ \A c \in DOMAIN reqs[i].seen : reqs[i].seen[c].parent = comments[c].parent
<1>1. reqs[i] \in Requests /\ RequestOK(reqs[i], comments, users) /\ i # 0
  BY DEF TypeInv, RequestsOK
<1>2. reqs[i].seen \in Seq(Comments) /\ SeenOK(reqs[i].seen, comments) /\ comments \in Seq(Comments)
  BY <1>1 DEF Requests, RequestOK, TypeInv, ServerInv, TableTypes
<1>. DEFINE s == reqs[i].seen
<1>3. s \in Seq(Comments) /\ Len(s) <= Len(comments)
      /\ \A c \in DOMAIN s : s[c].parent = comments[c].parent
  BY <1>2 DEF SeenOK
<1>. HIDE DEF s
<1>4. DOMAIN s \subseteq DOMAIN comments
  BY <1>2, <1>3
<1>. QED  BY <1>1, <1>3, <1>4 DEF s, RequestOK, AboutOK

\* Names: nobody else is to sign up with what is free.
LEMMA NameStep ==
    ASSUME TypeInv, NameInv, [Next]_vars
    PROVE  NameInv'
<1>1. ASSUME NEW i, KeepsBut(i), UNCHANGED users, races \subseteq races'
      PROVE  NameInv'
  <2>1. PICK f : KeepsBy(f, i)
    BY <1>1 DEF KeepsBut
  <2>. QED  BY <1>1, <2>1 DEF NameInv, KeepsBy, Begun, Named
<1>2. CASE Idle
  BY <1>1, <1>2 DEF Idle
<1>3. CASE KeepsBut(0) /\ TimePasses
  BY <1>1, <1>3 DEF TimePasses, tables
<1>4. ASSUME NEW i \in DOMAIN reqs, Starts(i)
      PROVE  NameInv'
  <2>1. /\ users' = users /\ races \subseteq races' /\ DOMAIN reqs' = DOMAIN reqs
        /\ \A k \in DOMAIN reqs \ {i} : reqs'[k] = reqs[k]
        /\ reqs[i].phase = "sent" /\ reqs'[i].api = reqs[i].api /\ reqs'[i].text = reqs[i].text
        /\ \A j \in DOMAIN reqs \ {i} : reqs[j].phase = "begun"
                                        => Overlaps(reqs[i], reqs[j]) \subseteq races'
    BY <1>4, BeginsIs
  <2>2. reqs[i].api = "signup" => Named(reqs[i].text) = {}
    BY <1>4 DEF Starts
  <2>3. SUFFICES ASSUME "name" \notin races'
                 PROVE  /\ \A u, v \in DOMAIN users' : users'[u].name = users'[v].name => u = v
                        /\ \A k \in Begun("signup")' : Named(reqs[k].text)' = {}
                        /\ \A k, l \in Begun("signup")' : k = l
    BY DEF NameInv
  <2>4. reqs[i].api = "signup" => Begun("signup") = {}
    BY <2>1, <2>3 DEF Overlaps, Begun
  <2>5. \A k \in Begun("signup")' : k \in Begun("signup") \/ (k = i /\ reqs[i].api = "signup")
    BY <2>1 DEF Begun
  <2>6. /\ \A u, v \in DOMAIN users : users[u].name = users[v].name => u = v
        /\ \A k \in Begun("signup") : Named(reqs[k].text) = {}
        /\ \A k, l \in Begun("signup") : k = l
    BY <2>1, <2>3 DEF NameInv
  <2>7. \A k \in Begun("signup") : reqs'[k] = reqs[k]
    BY <2>1 DEF Begun
  <2>. QED  BY <2>1, <2>2, <2>4, <2>5, <2>6, <2>7 DEF Named
<1>5. ASSUME NEW i \in DOMAIN reqs, End(i), KeepsBut(i), UNCHANGED races
      PROVE  NameInv'
  <2>1. CASE SignUp(i)
    <3>1. SUFFICES ASSUME "name" \notin races PROVE NameInv'
      BY <1>5 DEF NameInv
    <3>2. i \in Begun("signup")
      BY <1>5, <2>1 DEF End, SignUp, Begun
    <3>3. /\ \A u, v \in DOMAIN users : users[u].name = users[v].name => u = v
          /\ Named(reqs[i].text) = {} /\ \A k \in Begun("signup") : k = i
      BY <3>1, <3>2 DEF NameInv
    <3>4. Begun("signup")' = {}
      <4>1. PICK f : KeepsBy(f, i)
        BY <1>5 DEF KeepsBut
      <4>. QED  BY <3>3, <4>1 DEF KeepsBy, Begun
    <3>5. users \in Seq(Users) /\ users' = Append(users, [name |-> reqs[i].text, last |-> 0])
      BY <2>1 DEF SignUp, TypeInv, ServerInv, TableTypes
    <3>6. reqs[i].text \in Names
      BY <2>1 DEF SignUp, TypeInv, RequestsOK, RequestOK, AboutOK
    <3>. DEFINE new == [name |-> reqs[i].text, last |-> 0]
    <3>7. new \in Users /\ new.name = reqs[i].text
      BY <3>6 DEF Users
    <3>8. users' = Append(users, new)
      BY <3>5
    <3>. HIDE DEF new
    <3>9. /\ DOMAIN users' = DOMAIN users \cup {Len(users) + 1} /\ users'[Len(users) + 1] = new
          /\ \A u \in DOMAIN users : users'[u] = users[u] /\ users[u].name # reqs[i].text
      <4>1. \A u \in DOMAIN users : users[u].name # reqs[i].text
        BY <3>3 DEF Named
      <4>2. /\ DOMAIN users' = DOMAIN users \cup {Len(users) + 1} /\ users'[Len(users) + 1] = new
            /\ \A u \in DOMAIN users : users'[u] = users[u]
        BY <3>5, <3>7, <3>8
      <4>. QED  BY <4>1, <4>2
    <3>10. \A u, v \in DOMAIN users' : users'[u].name = users'[v].name => u = v
      BY <3>3, <3>7, <3>9
    <3>. QED  BY <3>4, <3>10 DEF NameInv
  <2>2. CASE AddMain(i)
    <3>. DEFINE w == reqs[i].user
    <3>1. users \in Seq(Users) /\ users' = [users EXCEPT ![w].last = period]
      BY <2>2 DEF AddMain, TypeInv, ServerInv, TableTypes
    <3>2. DOMAIN users' = DOMAIN users /\ \A u \in DOMAIN users : users'[u].name = users[u].name
      <4>1. \A u \in DOMAIN users : users[u] \in Users
        BY <3>1
      <4>2. ASSUME NEW r \in Users PROVE [r EXCEPT !.last = period].name = r.name
        BY DEF Users
      <4>3. DOMAIN users' = DOMAIN users
            /\ \A u \in DOMAIN users : users'[u] = users[u] \/ users'[u] = [users[u] EXCEPT !.last = period]
        BY <3>1
      <4>. QED  BY <4>1, <4>2, <4>3
    <3>3. PICK f : KeepsBy(f, i)
      BY <1>5 DEF KeepsBut
    <3>. HIDE DEF w
    <3>. QED  BY <1>5, <3>2, <3>3 DEF NameInv, KeepsBy, Begun, Named
  <2>3. CASE AddReply(i) \/ Delete(i) \/ FindMain(i) \/ FindReply(i)
    <3>1. UNCHANGED users
      BY <2>3 DEF AddReply, Delete, FindMain, FindReply, tables
    <3>. QED  BY <1>1, <1>5, <3>1
  <2>. QED  BY <1>5, <2>1, <2>2, <2>3 DEF End
<1>. QED  BY <1>2, <1>3, <1>4, <1>5, StepKinds

\* The users after a request has ended: a comment is the last of its author's, a new user
\* has none.
LEMMA UsersIs ==
    ASSUME TypeInv, NEW i \in DOMAIN reqs, End(i)
    PROVE  /\ DOMAIN users \subseteq DOMAIN users' /\ period' = period
           /\ \A u \in DOMAIN users : users'[u].last =
                 IF reqs[i].api = "main.add" /\ u = reqs[i].user THEN period ELSE users[u].last
           /\ \A u \in DOMAIN users' \ DOMAIN users : users'[u].last = 0
<1>1. users \in Seq(Users) /\ period' = period
  BY DEF TypeInv, ServerInv, TableTypes, End
<1>2. \A u \in DOMAIN users : users[u] \in Users
  BY <1>1
<1>3. CASE AddMain(i)
  <2>. DEFINE w == reqs[i].user
  <2>1. users' = [users EXCEPT ![w].last = period] /\ reqs[i].api = "main.add"
    BY <1>3 DEF AddMain
  <2>2. ASSUME NEW r \in Users PROVE [r EXCEPT !.last = period].last = period
    BY DEF Users
  <2>3. DOMAIN users' = DOMAIN users
        /\ \A u \in DOMAIN users : IF u = w THEN users'[u] = [users[u] EXCEPT !.last = period]
                                   ELSE users'[u] = users[u]
    BY <1>1, <2>1
  <2>4. \A u \in DOMAIN users : users'[u].last = IF u = w THEN period ELSE users[u].last
    BY <1>2, <2>2, <2>3
  <2>. QED  BY <1>1, <2>1, <2>3, <2>4
<1>4. CASE SignUp(i)
  <2>1. reqs[i].text \in Names /\ reqs[i].api = "signup"
    BY <1>4 DEF SignUp, TypeInv, RequestsOK, RequestOK, AboutOK
  <2>. DEFINE new == [name |-> reqs[i].text, last |-> 0]
  <2>2. new \in Users /\ new.last = 0 /\ users' = Append(users, new)
    BY <1>4, <2>1 DEF SignUp, Users
  <2>. HIDE DEF new
  <2>3. /\ DOMAIN users' = DOMAIN users \cup {Len(users) + 1} /\ users'[Len(users) + 1] = new
        /\ \A u \in DOMAIN users : users'[u] = users[u]
    BY <1>1, <2>2
  <2>. QED  BY <1>1, <2>1, <2>2, <2>3
<1>5. CASE AddReply(i) \/ Delete(i) \/ FindMain(i) \/ FindReply(i)
  <2>1. UNCHANGED users /\ reqs[i].api # "main.add"
    BY <1>5 DEF AddReply, Delete, FindMain, FindReply, tables
  <2>. QED  BY <1>1, <2>1
<1>. QED  BY <1>3, <1>4, <1>5 DEF End

\* The table, likewise.
LEMMA TableIs ==
    ASSUME TypeInv, NEW i \in DOMAIN reqs, End(i)
    PROVE  \/ reqs[i].api \in {"signup", "main.find", "reply.find"} /\ comments' = comments
           \/ reqs[i].api \in {"main.add", "reply.add"} /\ Inserted(reqs[i]) /\ Emptied
           \/ Delete(i)
BY DEF End, SignUp, AddMain, AddReply, FindMain, FindReply, tables

\* The times are numbers.
LEMMA TimesAre ==
    ASSUME TypeInv
    PROVE  /\ period \in Nat /\ \A u \in DOMAIN users : users[u].last \in Nat
           /\ \A c \in DOMAIN comments : /\ comments[c].user \in DOMAIN users
                                         /\ comments[c].period \in Int
<1>1. /\ users \in Seq(Users) /\ comments \in Seq(Comments) /\ period \in Nat
      /\ \A c \in DOMAIN comments : comments[c].user \in DOMAIN users
  BY DEF TypeInv, ServerInv, TableTypes, CommentsOK
<1>2. /\ \A u \in DOMAIN users : users[u] \in Users
      /\ \A c \in DOMAIN comments : comments[c] \in Comments
  BY <1>1
<1>. QED  BY <1>1, <1>2 DEF Users, Comments

\* Times: who writes a main comment has its time.
LEMMA TimesStep ==
    ASSUME TypeInv, TimesInv, [Next]_vars
    PROVE  TimesInv'
<1>1. CASE Idle
  BY <1>1 DEF Idle, TimesInv
<1>2. CASE TimePasses
  <2>1. UNCHANGED <<comments, users>> /\ period' = period + 1 /\ period \in Nat
    BY <1>2 DEF TimePasses, tables, TypeInv, ServerInv, TableTypes
  <2>2. \A u \in DOMAIN users : users[u].last \in Nat
    BY TimesAre
  <2>. QED  BY <2>1, <2>2 DEF TimesInv
<1>3. ASSUME NEW i \in DOMAIN reqs, Starts(i)
      PROVE  TimesInv'
  BY <1>3 DEF Starts, TimesInv
<1>4. ASSUME NEW i \in DOMAIN reqs, End(i)
      PROVE  TimesInv'
  <2>1. /\ DOMAIN users \subseteq DOMAIN users' /\ period' = period
        /\ \A u \in DOMAIN users : users'[u].last =
              IF reqs[i].api = "main.add" /\ u = reqs[i].user THEN period ELSE users[u].last
        /\ \A u \in DOMAIN users' \ DOMAIN users : users'[u].last = 0
    BY <1>4, UsersIs
  <2>2. period \in Nat /\ \A u \in DOMAIN users : users[u].last \in Nat
    BY TimesAre
  <2>3. \A c \in DOMAIN comments : comments[c].user \in DOMAIN users /\ comments[c].period \in Int
    BY TimesAre
  <2>4. /\ \A u \in DOMAIN users : users[u].last <= period
        /\ \A c \in DOMAIN comments : comments[c].parent = 0 =>
              comments[c].period <= users[comments[c].user].last
    BY DEF TimesInv
  <2>5. \A u \in DOMAIN users' : users'[u].last <= period'
    BY <2>1, <2>2, <2>4
  <2>6. \A u \in DOMAIN users : users[u].last <= users'[u].last
    BY <2>1, <2>2, <2>4
  <2>7. \A c \in DOMAIN comments : comments[c].parent = 0 =>
           comments[c].period <= users'[comments[c].user].last
    <3>1. TAKE c \in DOMAIN comments
    <3>. DEFINE u == comments[c].user
    <3>2. u \in DOMAIN users /\ users'[u].last \in Nat /\ users[u].last \in Nat
          /\ comments[c].period \in Int
      BY <2>1, <2>2, <2>3
    <3>. QED  BY <2>4, <2>6, <3>2
  <2>8. ASSUME NEW c \in DOMAIN comments', comments'[c].parent = 0
        PROVE  comments'[c].period <= users'[comments'[c].user].last
    <3>1. CASE comments' = comments
      BY <2>7, <2>8, <3>1
    <3>2. CASE Delete(i)
      <4>1. c \in DOMAIN comments /\ comments'[c].user = comments[c].user
            /\ comments'[c].parent = comments[c].parent /\ comments'[c].period = comments[c].period
        BY <2>8, <3>2, DeletedIs
      <4>. QED  BY <2>7, <2>8, <4>1
    <3>3. CASE reqs[i].api \in {"main.add", "reply.add"} /\ Inserted(reqs[i])
      <4>. DEFINE n == Len(comments) + 1
      <4>1. /\ n \notin DOMAIN comments /\ DOMAIN comments' = DOMAIN comments \cup {n}
            /\ \A d \in DOMAIN comments : comments'[d] = comments[d]
            /\ comments'[n].user = reqs[i].user /\ comments'[n].parent = reqs[i].at
            /\ comments'[n].period = period
        BY <3>3, AddedIs
      <4>. HIDE DEF n
      <4>2. CASE c \in DOMAIN comments
        BY <2>7, <2>8, <4>1, <4>2
      <4>3. CASE c = n
        <5>1. reqs[i].user \in DOMAIN users
          BY <3>3, BegunIs
        <5>2. reqs[i].api = "main.add"
          <6>1. 0 \notin DOMAIN comments
            BY DEF TypeInv, ServerInv, TableTypes
          <6>. QED  BY <2>8, <3>3, <4>1, <4>3, <6>1, BegunIs
        <5>3. users'[reqs[i].user].last = period
          BY <2>1, <5>1, <5>2
        <5>. QED  BY <2>2, <4>1, <4>3, <5>3
      <4>. QED  BY <4>1, <4>2, <4>3
    <3>. QED  BY <1>4, <3>1, <3>2, <3>3, TableIs
  <2>. QED  BY <2>5, <2>8 DEF TimesInv
<1>. QED  BY <1>1, <1>2, <1>3, <1>4, StepKinds

\* Limits: who may write one has none of this period.
LEMMA LimitStep ==
    ASSUME TypeInv, TimesInv, LimitInv, [Next]_vars
    PROVE  LimitInv'
<1>0. \A j \in Begun("main.add") : reqs[j].user \in DOMAIN users
  BY BegunIs DEF Begun
<1>1. CASE Idle
  <2>1. PICK i, f : KeepsBy(f, i)
    BY <1>1 DEF Idle, KeepsBut
  <2>. QED  BY <1>1, <2>1 DEF Idle, LimitInv, KeepsBy, Begun
<1>2. CASE KeepsBut(0) /\ TimePasses
  <2>1. PICK f : KeepsBy(f, 0)
    BY <1>2 DEF KeepsBut
  <2>2. UNCHANGED <<comments, users, races>> /\ period' = period + 1 /\ period \in Nat
    BY <1>2 DEF TimePasses, tables, TypeInv, ServerInv, TableTypes
  <2>3. \A u \in DOMAIN users : users[u].last \in Nat /\ users[u].last <= period
    BY TimesAre DEF TimesInv
  <2>4. \A u \in DOMAIN users : users[u].last # period'
    BY <2>2, <2>3
  <2>5. \A k \in Begun("main.add")' : f[k] \in Begun("main.add") /\ reqs'[k].user = reqs[f[k]].user
    BY <2>1 DEF KeepsBy, Begun
  <2>. QED  BY <1>0, <2>1, <2>2, <2>4, <2>5 DEF LimitInv, KeepsBy, Begun
<1>3. ASSUME NEW i \in DOMAIN reqs, Starts(i)
      PROVE  LimitInv'
  <2>1. /\ UNCHANGED <<comments, users, period>>
        /\ races \subseteq races' /\ DOMAIN reqs' = DOMAIN reqs
        /\ \A k \in DOMAIN reqs \ {i} : reqs'[k] = reqs[k]
        /\ reqs[i].phase = "sent"
        /\ reqs'[i].api = reqs[i].api /\ reqs'[i].user = reqs[i].user
        /\ \A j \in DOMAIN reqs \ {i} : reqs[j].phase = "begun"
                                        => Overlaps(reqs[i], reqs[j]) \subseteq races'
    BY <1>3, BeginsIs
  <2>2. SUFFICES ASSUME "limit" \notin races' PROVE LimitInv'
    BY DEF LimitInv
  <2>3. reqs[i].api = "main.add" => users[reqs[i].user].last # period
    BY <1>3 DEF Starts, TooFast
  <2>4. reqs[i].api = "main.add" => \A j \in Begun("main.add") : reqs[j].user # reqs[i].user
    <3>1. \A j \in Begun("main.add") : j # i /\ "limit" \notin Overlaps(reqs[i], reqs[j])
      BY <2>1, <2>2 DEF Begun
    <3>. QED  BY <3>1 DEF Overlaps, Begun
  <2>5. \A k \in Begun("main.add")' : k \in Begun("main.add") \/ (k = i /\ reqs[i].api = "main.add")
    BY <2>1 DEF Begun
  <2>6. \A k \in Begun("main.add") : reqs'[k] = reqs[k]
    BY <2>1 DEF Begun
  <2>7. "limit" \notin races
    BY <2>1, <2>2
  <2>. QED  BY <2>1, <2>3, <2>4, <2>5, <2>6, <2>7 DEF LimitInv
<1>4. ASSUME NEW i \in DOMAIN reqs, End(i), KeepsBut(i), UNCHANGED races
      PROVE  LimitInv'
  <2>1. PICK f : KeepsBy(f, i)
    BY <1>4 DEF KeepsBut
  <2>2. SUFFICES ASSUME "limit" \notin races PROVE LimitInv'
    BY <1>4 DEF LimitInv
  <2>3. /\ \A c, d \in DOMAIN comments :
              /\ comments[c].parent = 0 /\ comments[d].parent = 0
              /\ comments[c].user = comments[d].user /\ comments[c].period = comments[d].period
              => c = d
        /\ \A k \in Begun("main.add") : users[reqs[k].user].last # period
        /\ \A k, l \in Begun("main.add") : reqs[k].user = reqs[l].user => k = l
    BY <2>2 DEF LimitInv
  <2>4. \A k \in Begun("main.add")' : /\ f[k] \in Begun("main.add") \ {i}
                                      /\ reqs'[k].user = reqs[f[k]].user
    BY <2>1 DEF KeepsBy, Begun
  <2>5. \A k, l \in Begun("main.add")' : reqs'[k].user = reqs'[l].user => k = l
    <3>1. \A k, l \in Begun("main.add")' : f[k] = f[l] => k = l
      BY <2>1 DEF KeepsBy, Begun
    <3>. QED  BY <2>3, <2>4, <3>1
  <2>6. /\ period' = period
        /\ \A u \in DOMAIN users : users'[u].last =
              IF reqs[i].api = "main.add" /\ u = reqs[i].user THEN period ELSE users[u].last
    BY <1>4, UsersIs
  <2>7. i \in Begun(reqs[i].api)
    BY <1>4 DEF Begun, End
  <2>8. \A k \in Begun("main.add")' : users'[reqs'[k].user].last # period'
    <3>1. TAKE k \in Begun("main.add")'
    <3>. DEFINE u == reqs'[k].user
    <3>2. u \in DOMAIN users /\ users[u].last # period
      BY <1>0, <2>3, <2>4
    <3>3. ~ (reqs[i].api = "main.add" /\ u = reqs[i].user)
      BY <2>3, <2>4, <2>7
    <3>. QED  BY <2>6, <3>2, <3>3
  <2>9. ASSUME NEW c \in DOMAIN comments', NEW d \in DOMAIN comments',
               comments'[c].parent = 0, comments'[d].parent = 0,
               comments'[c].user = comments'[d].user, comments'[c].period = comments'[d].period
        PROVE  c = d
    <3>1. CASE comments' = comments
      BY <2>3, <2>9, <3>1
    <3>2. CASE Delete(i)
      <4>1. DOMAIN comments' = DOMAIN comments
            /\ \A x \in DOMAIN comments : /\ comments'[x].user = comments[x].user
                                          /\ comments'[x].parent = comments[x].parent
                                          /\ comments'[x].period = comments[x].period
        BY <3>2, DeletedIs
      <4>. QED  BY <2>3, <2>9, <4>1
    <3>3. CASE reqs[i].api \in {"main.add", "reply.add"} /\ Inserted(reqs[i])
      <4>. DEFINE n == Len(comments) + 1
      <4>1. /\ n \notin DOMAIN comments /\ DOMAIN comments' = DOMAIN comments \cup {n}
            /\ \A x \in DOMAIN comments : comments'[x] = comments[x]
            /\ comments'[n].user = reqs[i].user /\ comments'[n].parent = reqs[i].at
            /\ comments'[n].period = period
        BY <3>3, AddedIs
      <4>. HIDE DEF n
      <4>2. ASSUME comments'[n].parent = 0, NEW x \in DOMAIN comments, comments[x].parent = 0,
                   comments[x].user = reqs[i].user
            PROVE  comments[x].period # period
        <5>1. 0 \notin DOMAIN comments
          BY DEF TypeInv, ServerInv, TableTypes
        <5>2. reqs[i].api = "main.add"
          BY <3>3, <4>1, <4>2, <5>1, BegunIs
        <5>3. users[reqs[i].user].last # period /\ reqs[i].user \in DOMAIN users
          BY <1>0, <2>3, <2>7, <5>2
        <5>4. users[reqs[i].user].last <= period
              /\ comments[x].period <= users[reqs[i].user].last
          BY <4>2, <5>3 DEF TimesInv
        <5>5. /\ users[reqs[i].user].last \in Nat /\ period \in Nat /\ comments[x].period \in Int
          BY <5>3, TimesAre
        <5>. QED  BY <5>3, <5>4, <5>5
      <4>3. CASE c \in DOMAIN comments /\ d \in DOMAIN comments
        BY <2>3, <2>9, <4>1, <4>3
      <4>4. CASE c = n /\ d \in DOMAIN comments
        BY <2>9, <4>1, <4>2, <4>4
      <4>5. CASE d = n /\ c \in DOMAIN comments
        BY <2>9, <4>1, <4>2, <4>5
      <4>. QED  BY <4>1, <4>3, <4>4, <4>5
    <3>. QED  BY <1>4, <3>1, <3>2, <3>3, TableIs
  <2>. QED  BY <2>5, <2>8, <2>9 DEF LimitInv
<1>. QED  BY <1>1, <1>2, <1>3, <1>4, StepKinds

\* A parent is in the table.
LEMMA ParentIs ==
    ASSUME TypeInv
    PROVE  /\ 0 \notin DOMAIN comments
           /\ \A c \in DOMAIN comments :
                 /\ comments[c].parent = 0 \/ comments[c].parent \in DOMAIN comments
                 /\ comments[c].deleted \in BOOLEAN
<1>1. comments \in Seq(Comments) /\ \A c \in DOMAIN comments : comments[c].parent < c
  BY DEF TypeInv, ServerInv, TableTypes, CommentsOK
<1>2. ASSUME NEW c \in DOMAIN comments
      PROVE  /\ comments[c].parent = 0 \/ comments[c].parent \in DOMAIN comments
             /\ comments[c].deleted \in BOOLEAN
  <2>1. comments[c] \in Comments /\ DOMAIN comments = 1..Len(comments) /\ Len(comments) \in Nat
    BY <1>1
  <2>2. comments[c].parent \in Nat /\ comments[c].deleted \in BOOLEAN
    BY <2>1 DEF Comments
  <2>. QED  BY <1>1, <2>1, <2>2
<1>. QED  BY <1>1, <1>2

\* Orphans: none is made, for replies and deletions do not meet.
LEMMA OrphanStep ==
    ASSUME TypeInv, OrphanInv, [Next]_vars
    PROVE  OrphanInv'
<1>0. /\ \A k \in Begun("reply.add") : reqs[k].at \in DOMAIN comments
      /\ \A c \in DOMAIN comments : comments[c].parent = 0 \/ comments[c].parent \in DOMAIN comments
  BY BegunIs, ParentIs DEF Begun
<1>1. ASSUME NEW i, KeepsBut(i), UNCHANGED <<comments, races>>
      PROVE  OrphanInv'
  <2>1. PICK f : KeepsBy(f, i)
    BY <1>1 DEF KeepsBut
  <2>2. ASSUME NEW api, NEW k \in Begun(api)'
        PROVE  /\ f[k] \in Begun(api)
               /\ reqs'[k].at = reqs[f[k]].at /\ reqs'[k].seen = reqs[f[k]].seen
    BY <2>1, <2>2 DEF KeepsBy, Begun
  <2>3. SUFFICES ASSUME "orphan" \notin races PROVE OrphanInv'
    BY <1>1 DEF OrphanInv
  <2>4. /\ Orphans(comments) = {}
        /\ \A k \in Begun("reply.add") : ~ comments[reqs[k].at].deleted
        /\ Begun("reply.add") = {} \/ Begun("delete") = {}
        /\ \A k \in Begun("delete") : \A c \in DOMAIN comments :
              c \in DOMAIN reqs[k].seen \/ comments[c].parent = 0
    BY <2>3 DEF OrphanInv
  <2>5. Begun("reply.add")' = {} \/ Begun("delete")' = {}
    BY <2>2, <2>4
  <2>6. \A k \in Begun("reply.add")' : ~ comments'[reqs'[k].at].deleted
    BY <1>1, <2>2, <2>4
  <2>7. \A k \in Begun("delete")' : \A c \in DOMAIN comments' :
           c \in DOMAIN reqs'[k].seen \/ comments'[c].parent = 0
    BY <1>1, <2>2, <2>4
  <2>8. Orphans(comments)' = {}
    BY <1>1, <2>4 DEF Orphans, Alive
  <2>. QED  BY <2>5, <2>6, <2>7, <2>8 DEF OrphanInv
<1>2. CASE Idle
  BY <1>1, <1>2 DEF Idle
<1>3. CASE KeepsBut(0) /\ TimePasses
  BY <1>1, <1>3 DEF TimePasses, tables
<1>4. ASSUME NEW i \in DOMAIN reqs, Starts(i)
      PROVE  OrphanInv'
  <2>1. /\ comments' = comments
        /\ races \subseteq races' /\ DOMAIN reqs' = DOMAIN reqs
        /\ \A k \in DOMAIN reqs \ {i} : reqs'[k] = reqs[k]
        /\ reqs[i].phase = "sent" /\ reqs'[i].seen = comments
        /\ reqs'[i].api = reqs[i].api /\ reqs'[i].at = reqs[i].at
        /\ \A j \in DOMAIN reqs \ {i} : reqs[j].phase = "begun"
                                        => Overlaps(reqs[i], reqs[j]) \subseteq races'
    BY <1>4, BeginsIs
  <2>2. SUFFICES ASSUME "orphan" \notin races' PROVE OrphanInv'
    BY DEF OrphanInv
  <2>3. "orphan" \notin races
    BY <2>1, <2>2
  <2>4. /\ Orphans(comments) = {}
        /\ \A k \in Begun("reply.add") : ~ comments[reqs[k].at].deleted
        /\ Begun("reply.add") = {} \/ Begun("delete") = {}
        /\ \A k \in Begun("delete") : \A c \in DOMAIN comments :
              c \in DOMAIN reqs[k].seen \/ comments[c].parent = 0
    BY <2>3 DEF OrphanInv
  <2>5. reqs[i].api = "reply.add" => ~ comments[reqs[i].at].deleted
    BY <1>4 DEF Starts, Alive
  <2>6. /\ reqs[i].api = "reply.add" => Begun("delete") = {}
        /\ reqs[i].api = "delete" => Begun("reply.add") = {}
    <3>1. \A api : \A j \in Begun(api) : j # i /\ reqs[j].api = api
                                         /\ "orphan" \notin Overlaps(reqs[i], reqs[j])
      BY <2>1, <2>2 DEF Begun
    <3>. QED  BY <3>1 DEF Overlaps
  <2>7. \A api : \A k \in Begun(api)' : (k \in Begun(api) /\ reqs'[k] = reqs[k])
                                        \/ (k = i /\ reqs[i].api = api)
    BY <2>1 DEF Begun
  <2>8. \A k \in Begun("reply.add")' : ~ comments'[reqs'[k].at].deleted
    BY <2>1, <2>4, <2>5, <2>7
  <2>9. \A k \in Begun("delete")' : \A c \in DOMAIN comments' :
           c \in DOMAIN reqs'[k].seen \/ comments'[c].parent = 0
    BY <2>1, <2>4, <2>7
  <2>10. Begun("reply.add")' = {} \/ Begun("delete")' = {}
    BY <2>4, <2>6, <2>7
  <2>11. Orphans(comments)' = {}
    BY <2>1, <2>4 DEF Orphans, Alive
  <2>. QED  BY <2>8, <2>9, <2>10, <2>11 DEF OrphanInv
<1>5. ASSUME NEW i \in DOMAIN reqs, End(i), KeepsBut(i), UNCHANGED races
      PROVE  OrphanInv'
  <2>1. PICK f : KeepsBy(f, i)
    BY <1>5 DEF KeepsBut
  <2>2. ASSUME NEW api, NEW k \in Begun(api)'
        PROVE  /\ f[k] \in Begun(api)
               /\ reqs'[k].at = reqs[f[k]].at /\ reqs'[k].seen = reqs[f[k]].seen
    BY <2>1, <2>2 DEF KeepsBy, Begun
  <2>3. SUFFICES ASSUME "orphan" \notin races PROVE OrphanInv'
    BY <1>5 DEF OrphanInv
  <2>4. /\ Orphans(comments) = {}
        /\ \A k \in Begun("reply.add") : ~ comments[reqs[k].at].deleted
        /\ Begun("reply.add") = {} \/ Begun("delete") = {}
        /\ \A k \in Begun("delete") : \A c \in DOMAIN comments :
              c \in DOMAIN reqs[k].seen \/ comments[c].parent = 0
    BY <2>3 DEF OrphanInv
  <2>5. \A c \in DOMAIN comments : ~ comments[c].deleted /\ comments[c].parent # 0
                                   => ~ comments[comments[c].parent].deleted
    BY <2>4 DEF Orphans, Alive
  <2>6. i \in Begun(reqs[i].api)
    BY <1>5 DEF Begun, End
  <2>7. Begun("reply.add")' = {} \/ Begun("delete")' = {}
    BY <2>2, <2>4
  <2>8. CASE comments' = comments
    BY <1>1, <1>5, <2>8
  <2>9. CASE reqs[i].api \in {"main.add", "reply.add"} /\ Inserted(reqs[i])
    <3>. DEFINE n == Len(comments) + 1
    <3>1. /\ n \notin DOMAIN comments /\ DOMAIN comments' = DOMAIN comments \cup {n}
          /\ \A x \in DOMAIN comments : comments'[x] = comments[x]
          /\ comments'[n].parent = reqs[i].at /\ comments'[n].deleted = FALSE
      BY <2>9, AddedIs
    <3>. HIDE DEF n
    <3>2. \/ reqs[i].at = 0
          \/ /\ reqs[i].at \in DOMAIN comments /\ ~ comments[reqs[i].at].deleted
             /\ Begun("delete") = {}
      BY <2>4, <2>6, <2>9, BegunIs
    <3>3. \A k \in Begun("reply.add")' : ~ comments'[reqs'[k].at].deleted
      BY <1>0, <2>2, <2>4, <3>1
    <3>4. \A k \in Begun("delete")' : \A c \in DOMAIN comments' :
             c \in DOMAIN reqs'[k].seen \/ comments'[c].parent = 0
      BY <2>2, <2>4, <3>1, <3>2
    <3>5. \A c \in DOMAIN comments' : ~ comments'[c].deleted /\ comments'[c].parent # 0
                                      => ~ comments'[comments'[c].parent].deleted
      BY <1>0, <2>5, <3>1, <3>2
    <3>6. Orphans(comments)' = {}
      BY <3>5 DEF Orphans, Alive
    <3>. QED  BY <2>7, <3>3, <3>4, <3>6 DEF OrphanInv
  <2>10. CASE Delete(i)
    <3>. DEFINE under == Under(reqs[i].seen, reqs[i].at)
    <3>1. reqs[i].api = "delete"
      BY <2>10 DEF Delete
    <3>2. i \in Begun("delete") /\ Begun("reply.add") = {}
      BY <2>4, <2>6, <3>1
    <3>3. /\ DOMAIN comments' = DOMAIN comments
          /\ \A c \in DOMAIN comments :
                /\ comments'[c].parent = comments[c].parent
                /\ comments'[c].deleted <=> comments[c].deleted \/ c \in under
      BY <2>10, DeletedIs
    <3>4. /\ reqs[i].seen \in Seq(Comments) /\ DOMAIN reqs[i].seen \subseteq DOMAIN comments
          /\ \A c \in DOMAIN reqs[i].seen : reqs[i].seen[c].parent = comments[c].parent
      BY BegunIs
    <3>5. \A c \in DOMAIN reqs[i].seen : comments[c].parent \in under => c \in under
      <4>. DEFINE s == reqs[i].seen
      <4>1. \A c \in DOMAIN s : s[c].parent \in Nat /\ s[c].parent < c
        <5>1. \A c \in DOMAIN s : s[c] \in Comments
          BY <3>4
        <5>2. \A c \in DOMAIN s : s[c].parent \in Nat
          BY <5>1 DEF Comments
        <5>3. \A c \in DOMAIN comments : comments[c].parent < c
          BY DEF TypeInv, ServerInv, CommentsOK
        <5>. QED  BY <3>4, <5>2, <5>3
      <4>2. s \in Seq(Comments)
        BY <3>4
      <4>. HIDE DEF s
      <4>3. \A c \in DOMAIN s : s[c].parent \in Under(s, reqs[i].at) => c \in Under(s, reqs[i].at)
        BY <4>1, <4>2, UnderIs
      <4>. QED  BY <3>4, <4>3 DEF s
    <3>. HIDE DEF under
    <3>6. \A c \in DOMAIN comments' : ~ comments'[c].deleted /\ comments'[c].parent # 0
                                      => ~ comments'[comments'[c].parent].deleted
      <4>1. SUFFICES ASSUME NEW c \in DOMAIN comments, ~ comments'[c].deleted, comments[c].parent # 0
                     PROVE  ~ comments'[comments[c].parent].deleted
        BY <3>3
      <4>2. /\ ~ comments[c].deleted /\ c \notin under /\ comments[c].parent \in DOMAIN comments
            /\ ~ comments[comments[c].parent].deleted
        BY <1>0, <2>5, <3>3, <4>1
      <4>3. c \in DOMAIN reqs[i].seen
        BY <2>4, <3>2, <4>1
      <4>4. comments[c].parent \notin under
        BY <3>5, <4>2, <4>3
      <4>. QED  BY <3>3, <4>2, <4>4
    <3>7. Orphans(comments)' = {}
      BY <3>6 DEF Orphans, Alive
    <3>8. Begun("reply.add")' = {}
      BY <2>2, <3>2
    <3>9. \A k \in Begun("delete")' : \A c \in DOMAIN comments' :
             c \in DOMAIN reqs'[k].seen \/ comments'[c].parent = 0
      BY <2>2, <2>4, <3>3
    <3>. QED  BY <3>7, <3>8, <3>9 DEF OrphanInv
  <2>. QED  BY <1>5, <2>8, <2>9, <2>10, TableIs
<1>. QED  BY <1>2, <1>3, <1>4, <1>5, StepKinds

\* Caches: they are emptied with each write, and filled from the table as it is.
LEMMA StaleStep ==
    ASSUME TypeInv, StaleInv, [Next]_vars
    PROVE  StaleInv'
<1>0. cacheReply \in [Ids -> SUBSET SUBSET Nat]
  BY DEF TypeInv, ServerInv, TableTypes
<1>1. ASSUME NEW i, KeepsBut(i), UNCHANGED <<comments, races>>,
             "stale" \notin races =>
                /\ cacheMain' \subseteq {MainList(comments)}
                /\ \A c \in Ids : cacheReply'[c] \subseteq {ReplyRows(comments, c)}
      PROVE  StaleInv'
  <2>1. PICK f : KeepsBy(f, i)
    BY <1>1 DEF KeepsBut
  <2>2. SUFFICES ASSUME "stale" \notin races PROVE StaleInv'
    BY <1>1 DEF StaleInv
  <2>3. /\ \A k \in DOMAIN reqs : reqs[k].phase = "begun" /\ reqs[k].api \notin Writes
                                  => reqs[k].seen = comments
        /\ \A k, l \in DOMAIN reqs : reqs[k].phase = "begun" /\ reqs[l].phase = "begun"
                                     => (reqs[k].api \in Writes <=> reqs[l].api \in Writes)
    BY <2>2 DEF StaleInv
  <2>4. \A k \in DOMAIN reqs' : reqs'[k].phase = "begun"
           => /\ f[k] \in DOMAIN reqs /\ reqs[f[k]].phase = "begun"
              /\ reqs'[k].api = reqs[f[k]].api /\ reqs'[k].seen = reqs[f[k]].seen
    BY <2>1 DEF KeepsBy
  <2>5. \A k \in DOMAIN reqs' : reqs'[k].phase = "begun" /\ reqs'[k].api \notin Writes
                                => reqs'[k].seen = comments'
    BY <1>1, <2>3, <2>4
  <2>6. \A k, l \in DOMAIN reqs' : reqs'[k].phase = "begun" /\ reqs'[l].phase = "begun"
                                   => (reqs'[k].api \in Writes <=> reqs'[l].api \in Writes)
    BY <2>3, <2>4
  <2>7. /\ cacheMain' \subseteq {MainList(comments')}
        /\ \A c \in Ids : cacheReply'[c] \subseteq {ReplyRows(comments', c)}
    BY <1>1, <2>2
  <2>. QED  BY <2>5, <2>6, <2>7 DEF StaleInv
<1>2. Emptied => cacheMain' = {} /\ \A c \in Ids : cacheReply'[c] = {}
  BY <1>0 DEF Emptied
<1>3. CASE Idle
  BY <1>1, <1>3 DEF Idle, StaleInv
<1>4. CASE KeepsBut(0) /\ TimePasses
  <2>1. UNCHANGED <<comments, races>> /\ Emptied
    BY <1>4 DEF TimePasses, tables
  <2>. QED  BY <1>1, <1>2, <1>4, <2>1
<1>5. ASSUME NEW i \in DOMAIN reqs, Starts(i)
      PROVE  StaleInv'
  <2>1. /\ UNCHANGED <<comments, cacheMain, cacheReply>>
        /\ races \subseteq races' /\ DOMAIN reqs' = DOMAIN reqs
        /\ \A k \in DOMAIN reqs \ {i} : reqs'[k] = reqs[k]
        /\ reqs[i].phase = "sent" /\ reqs'[i].seen = comments /\ reqs'[i].api = reqs[i].api
        /\ \A j \in DOMAIN reqs \ {i} : reqs[j].phase = "begun"
                                        => Overlaps(reqs[i], reqs[j]) \subseteq races'
    BY <1>5, BeginsIs
  <2>2. SUFFICES ASSUME "stale" \notin races' PROVE StaleInv'
    BY DEF StaleInv
  <2>3. "stale" \notin races
    BY <2>1, <2>2
  <2>4. \A j \in DOMAIN reqs \ {i} : reqs[j].phase = "begun"
           => (reqs[i].api \in Writes <=> reqs[j].api \in Writes)
    <3>1. \A j \in DOMAIN reqs \ {i} : reqs[j].phase = "begun"
             => "stale" \notin Overlaps(reqs[i], reqs[j])
      BY <2>1, <2>2
    <3>. QED  BY <3>1 DEF Overlaps
  <2>5. /\ cacheMain \subseteq {MainList(comments)}
        /\ \A c \in Ids : cacheReply[c] \subseteq {ReplyRows(comments, c)}
        /\ \A k \in DOMAIN reqs : reqs[k].phase = "begun" /\ reqs[k].api \notin Writes
                                  => reqs[k].seen = comments
        /\ \A k, l \in DOMAIN reqs : reqs[k].phase = "begun" /\ reqs[l].phase = "begun"
                                     => (reqs[k].api \in Writes <=> reqs[l].api \in Writes)
    BY <2>3 DEF StaleInv
  <2>6. \A k \in DOMAIN reqs' : reqs'[k].phase = "begun" /\ reqs'[k].api \notin Writes
                                => reqs'[k].seen = comments'
    BY <2>1, <2>5
  <2>7. \A k, l \in DOMAIN reqs' : reqs'[k].phase = "begun" /\ reqs'[l].phase = "begun"
                                   => (reqs'[k].api \in Writes <=> reqs'[l].api \in Writes)
    BY <2>1, <2>4, <2>5
  <2>. QED  BY <2>1, <2>5, <2>6, <2>7 DEF StaleInv
<1>6. ASSUME NEW i \in DOMAIN reqs, End(i), KeepsBut(i), UNCHANGED races
      PROVE  StaleInv'
  <2>1. PICK f : KeepsBy(f, i)
    BY <1>6 DEF KeepsBut
  <2>2. reqs[i].phase = "begun"
    BY <1>6 DEF End
  <2>3. CASE comments' # comments
    <3>1. Emptied /\ reqs[i].api \in Writes
      BY <1>6, <2>3 DEF End, AddMain, AddReply, Delete, SignUp, FindMain, FindReply, tables, Writes
    <3>2. SUFFICES ASSUME "stale" \notin races PROVE StaleInv'
      BY <1>6 DEF StaleInv
    <3>3. \A k \in DOMAIN reqs : reqs[k].phase = "begun" => reqs[k].api \in Writes
      BY <2>2, <3>1, <3>2 DEF StaleInv
    <3>4. \A k \in DOMAIN reqs' : reqs'[k].phase = "begun" => reqs'[k].api \in Writes
      BY <2>1, <3>3 DEF KeepsBy
    <3>. QED  BY <1>2, <3>1, <3>4 DEF StaleInv
  <2>4. CASE comments' = comments
    <3>1. SUFFICES ASSUME "stale" \notin races
                   PROVE  /\ cacheMain' \subseteq {MainList(comments)}
                          /\ \A c \in Ids : cacheReply'[c] \subseteq {ReplyRows(comments, c)}
      BY <1>1, <1>6, <2>4
    <3>2. /\ cacheMain \subseteq {MainList(comments)}
          /\ \A c \in Ids : cacheReply[c] \subseteq {ReplyRows(comments, c)}
          /\ reqs[i].api \notin Writes => reqs[i].seen = comments
      BY <2>2, <3>1 DEF StaleInv
    <3>3. CASE Emptied
      BY <1>2, <3>3
    <3>4. CASE SignUp(i) \/ (Delete(i) /\ ~ Emptied)
      BY <3>2, <3>4 DEF SignUp, Delete, caches
    <3>5. CASE FindMain(i)
      BY <3>2, <3>5 DEF FindMain, Writes
    <3>6. CASE FindReply(i)
      <4>. DEFINE rows == ReplyRows(reqs[i].seen, reqs[i].at)
      <4>1. /\ reqs[i].seen = comments /\ cacheMain' = cacheMain
            /\ \/ cacheReply' = [cacheReply EXCEPT ![reqs[i].at] = {rows}]
               \/ cacheReply' = cacheReply
        BY <3>2, <3>6 DEF FindReply, Writes
      <4>2. rows = ReplyRows(comments, reqs[i].at)
        BY <4>1
      <4>. HIDE DEF rows
      <4>. QED  BY <1>0, <3>2, <4>1, <4>2
    <3>. QED  BY <1>6, <3>3, <3>4, <3>5, <3>6 DEF End, AddMain, AddReply
  <2>. QED  BY <2>3, <2>4
<1>. QED  BY <1>3, <1>4, <1>5, <1>6, StepKinds

\* It is so at first.
LEMMA RacesInit ==
    ASSUME Init
    PROVE  RacesInv
<1>1. /\ comments = Table /\ users = [u \in DOMAIN Members |-> [name |-> Members[u], last |-> 0]]
      /\ cacheMain = {} /\ cacheReply = [c \in Ids |-> {}] /\ period = 1 /\ reqs = << >>
  BY DEF Init, ServerInit, Ids
<1>2. /\ DOMAIN users = DOMAIN Members
      /\ \A u \in DOMAIN users : users[u].name = Members[u] /\ users[u].last = 0
  BY <1>1
<1>3. /\ Orphans(Table) = {}
      /\ \A u, v \in DOMAIN Members : Members[u] = Members[v] => u = v
      /\ \A c \in DOMAIN Table : Table[c].period <= 0
      /\ \A c, d \in DOMAIN Table :
            /\ Table[c].parent = 0 /\ Table[d].parent = 0
            /\ Table[c].user = Table[d].user /\ Table[c].period = Table[d].period
            => c = d
  BY TableAssumption
<1>4. \A c \in DOMAIN comments : comments[c].user \in DOMAIN users
  BY TablesAtFirst DEF ServerInv, CommentsOK
<1>5. \A api : Begun(api) = {}
  BY <1>1 DEF Begun
<1>6. NameInv /\ LimitInv /\ OrphanInv
  BY <1>1, <1>2, <1>3, <1>5 DEF NameInv, LimitInv, OrphanInv
<1>7. TimesInv
  BY <1>1, <1>2, <1>3, <1>4 DEF TimesInv
<1>8. StaleInv
  BY <1>1 DEF StaleInv
<1>. QED  BY <1>6, <1>7, <1>8 DEF RacesInv

\* Every reply has its parent, a user has one main comment in a period, a name one user,
\* and a cache what the table has, unless two requests overlapped of those whose checks
\* are not in one step with what they check for.
THEOREM RacesOnly == Spec => []OnlyByRaces
<1>1. Init => RacesInv
  BY RacesInit
<1>2. TypeInv /\ RacesInv /\ [Next]_vars => RacesInv'
  BY NameStep, TimesStep, LimitStep, OrphanStep, StaleStep DEF RacesInv
<1>3. TypeInv /\ RacesInv => OnlyByRaces
  <2>. SUFFICES ASSUME TypeInv, RacesInv PROVE OnlyByRaces
    OBVIOUS
  <2>1. DOMAIN comments \subseteq Ids
    <3>1. DOMAIN comments = 1..Len(comments) /\ Len(comments) \in Nat /\ Len(comments) <= MaxComments
      BY DEF TypeInv, ServerInv, TableTypes, CommentsOK
    <3>. QED  BY <3>1, ServerAssumption DEF Ids
  <2>. QED  BY <2>1 DEF RacesInv, NameInv, LimitInv, OrphanInv, StaleInv, OnlyByRaces
<1>. QED  BY <1>1, <1>2, <1>3, TypesAlways, PTL DEF Spec

=============================================================================
