---------------------------- MODULE SetInduction ----------------------------
(***************************************************************************)
(* Facts that the proofs of several modules need: least and greatest       *)
(* elements of bounded sets of integers, induction over the naturals and   *)
(* over the parts of a finite set (stated with the set of what is proved,  *)
(* where the library's theorems have a predicate), the sum that            *)
(* FoldFunction makes, and the list that Ascending makes of a set.         *)
(***************************************************************************)
EXTENDS Integers, Ranks, Functions, FiniteSetTheorems, WellFoundedInduction, TLAPS

\* A nonempty set of integers with a lower bound has a least element.
LEMMA LeastExists ==
  ASSUME NEW S \in SUBSET Int, S # {}, NEW b \in Int, \A x \in S : b <= x
  PROVE  \E m \in S : \A x \in S : m <= x
<1> DEFINE T == {n \in Nat : b + n \in S}
<1>1. T # {}
  <2>1. PICK x \in S : TRUE
    OBVIOUS
  <2>2. x - b \in Nat /\ b + (x - b) = x
    BY <2>1
  <2>3. QED
    BY <2>1, <2>2
<1>2. T \subseteq Nat
  OBVIOUS
<1>3. PICK n \in T : \A k \in T : ~(<<k, n>> \in OpToRel(<, Nat))
  <2> HIDE DEF T
  <2>1. \E x \in T : \A y \in T : ~(<<y, x>> \in OpToRel(<, Nat))
    BY <1>1, <1>2, NatLessThanWellFounded, WFMin, Zenon
  <2>2. QED
    BY <2>1, Zenon
<1>4. ASSUME NEW k \in T PROVE n <= k
  <2>1. k \in Nat /\ n \in Nat
    OBVIOUS
  <2>2. ~(k < n)
    BY <1>3, <2>1, Zenon DEF OpToRel
  <2>3. QED
    BY <2>1, <2>2
<1>5. ASSUME NEW x \in S PROVE b + n <= x
  <2>1. x - b \in Nat /\ b + (x - b) = x
    BY <1>5
  <2>2. x - b \in T
    BY <2>1
  <2>3. n <= x - b
    BY <1>4, <2>2
  <2>4. QED
    BY <2>1, <2>3, <1>2
<1>6. QED
  BY <1>5, <1>2

\* A nonempty set of integers with an upper bound has a greatest element.
LEMMA GreatestExists ==
  ASSUME NEW S \in SUBSET Int, S # {}, NEW b \in Int, \A x \in S : x <= b
  PROVE  \E m \in S : \A x \in S : x <= m
<1> DEFINE T == {y \in Int : -y \in S}
<1>1. T \in SUBSET Int /\ T # {} /\ \A y \in T : -b <= y
  <2>1. PICK x \in S : TRUE
    OBVIOUS
  <2>2. -x \in T
    BY <2>1
  <2>3. QED
    BY <2>2
<1>2. PICK y \in T : \A z \in T : y <= z
  <2> HIDE DEF T
  <2>1. -b \in Int
    OBVIOUS
  <2>2. \E m \in T : \A x \in T : m <= x
    BY <1>1, <2>1, LeastExists, Zenon
  <2>3. QED
    BY <2>2, Zenon
<1>3. -y \in S /\ y \in Int
  OBVIOUS
<1>4. ASSUME NEW x \in S PROVE x <= -y
  <2>1. -x \in T
    OBVIOUS
  <2>2. y <= -x
    BY <2>1, <1>2
  <2>3. QED
    BY <2>2, <1>3
<1>5. QED
  BY <1>3, <1>4

----------------------------------------------------------------------------

\* A set of naturals with 0 and the successor of each member is Nat.
LEMMA CountUp ==
  ASSUME NEW P \in SUBSET Nat, 0 \in P, \A n \in P : n + 1 \in P
  PROVE  P = Nat
<1> SUFFICES ASSUME P # Nat PROVE FALSE
  OBVIOUS
<1> DEFINE T == Nat \ P
<1>1. T \in SUBSET Int /\ T # {} /\ \A x \in T : 0 <= x
  <2>1. T # {} /\ T \subseteq Nat
    OBVIOUS
  <2> HIDE DEF T
  <2>2. \A x \in T : x \in Int /\ 0 <= x
    BY <2>1
  <2>3. QED
    BY <2>1, <2>2
<1>2. PICK m \in T : \A x \in T : m <= x
  <2> HIDE DEF T
  <2>1. 0 \in Int
    OBVIOUS
  <2>2. \E m \in T : \A x \in T : m <= x
    BY <1>1, <2>1, LeastExists, Zenon
  <2>3. QED
    BY <2>2, Zenon
<1>3. m \in Nat /\ m # 0 /\ m \notin P
  BY <1>2
<1>4. m - 1 \in Nat /\ m - 1 \notin T
  BY <1>2, <1>3
<1>5. m - 1 \in P
  BY <1>4
<1>6. (m - 1) + 1 \in P /\ (m - 1) + 1 = m
  BY <1>3, <1>5
<1> QED
  BY <1>3, <1>6

\* Up to a bound, step by step.
LEMMA UpTo ==
  ASSUME NEW n \in Nat, NEW P, 0 \in P, \A k \in 0 .. (n - 1) : k \in P => k + 1 \in P
  PROVE  \A k \in 0 .. n : k \in P
<1> DEFINE Q == {k \in Nat : k <= n => k \in P}
<1>1. 0 \in Q
  OBVIOUS
<1>2. ASSUME NEW k \in Q PROVE k + 1 \in Q
  <2>1. k \in Nat /\ (k + 1 <= n => k \in P /\ k \in 0 .. (n - 1))
    OBVIOUS
  <2>2. QED
    BY <2>1
<1>3. Q = Nat
  <2> HIDE DEF Q
  <2>1. QED
    BY <1>1, <1>2, CountUp DEF Q
<1>4. QED
  BY <1>3

\* Finitely many integers lie between two integers.
LEMMA BoundExists ==
  ASSUME NEW n \in Nat, NEW v \in [1 .. n -> Int]
  PROVE  \E b \in Nat : \A j \in 1 .. n : -b <= v[j] /\ v[j] <= b
<1> DEFINE P == {m \in Nat : m <= n => \E b \in Nat : \A j \in 1 .. m : -b <= v[j] /\ v[j] <= b}
<1>1. 0 \in P
  OBVIOUS
<1>2. ASSUME NEW m \in P PROVE m + 1 \in P
  <2>1. SUFFICES ASSUME m + 1 <= n
                 PROVE  \E b \in Nat : \A j \in 1 .. m + 1 : -b <= v[j] /\ v[j] <= b
    OBVIOUS
  <2>2. PICK b \in Nat : \A j \in 1 .. m : -b <= v[j] /\ v[j] <= b
    BY <2>1
  <2>3. v[m + 1] \in Int /\ m \in Nat
    BY <2>1
  <2>4. PICK c \in Nat : b <= c /\ -c <= v[m + 1] /\ v[m + 1] <= c
    <3>1. CASE v[m + 1] >= 0
      <4>1. b + v[m + 1] \in Nat
        BY <2>3, <3>1
      <4>2. QED
        BY <2>3, <3>1, <4>1
    <3>2. CASE v[m + 1] < 0
      <4>1. b - v[m + 1] \in Nat
        BY <2>3, <3>2
      <4>2. QED
        BY <2>3, <3>2, <4>1
    <3>3. QED
      BY <2>3, <3>1, <3>2
  <2>5. \A j \in 1 .. m + 1 : -c <= v[j] /\ v[j] <= c
    <3>1. \A j \in 1 .. m + 1 : j \in 1 .. m \/ j = m + 1
      BY <2>3
    <3>2. \A j \in 1 .. m : v[j] \in Int
      BY <2>1, <2>3
    <3>3. QED
      BY <2>2, <2>4, <3>1, <3>2
  <2>6. QED
    BY <2>5
<1>3. P = Nat
  <2> HIDE DEF P
  <2>1. QED
    BY <1>1, <1>2, CountUp DEF P
<1>4. n \in P /\ n <= n
  <2> HIDE DEF P
  <2>1. QED
    BY <1>3
<1> QED
  BY <1>4

\* The member that FoldFunction takes out of a set first.
FirstOut(s) == CHOOSE x \in s : TRUE

\* What leaves a set smaller by one.
LEMMA WithoutFirst ==
  ASSUME NEW S, IsFiniteSet(S), NEW s \in SUBSET S
  PROVE  /\ IsFiniteSet(s) /\ Cardinality(s) \in Nat
         /\ Cardinality(s) = 0 <=> s = {}
         /\ s # {} => /\ FirstOut(s) \in s /\ s \ {FirstOut(s)} \in SUBSET S
                      /\ Cardinality(s \ {FirstOut(s)}) = Cardinality(s) - 1
<1>1. IsFiniteSet(s)
  BY FS_Subset
<1>2. s # {} => FirstOut(s) \in s
  BY DEF FirstOut
<1> QED
  BY <1>1, <1>2, FS_CardinalityType, FS_EmptySet, FS_RemoveElement

\* A set of parts that holds the empty one, and a part whenever it holds it
\* without its first member, holds them all.
LEMMA PartsUp ==
  ASSUME NEW S, IsFiniteSet(S), NEW P, {} \in P,
         \A s \in SUBSET S : s # {} /\ s \ {FirstOut(s)} \in P => s \in P
  PROVE  SUBSET S \subseteq P
<1> DEFINE Q == {n \in Nat : \A s \in SUBSET S : Cardinality(s) = n => s \in P}
<1>1. 0 \in Q
  BY WithoutFirst
<1>2. ASSUME NEW n \in Q PROVE n + 1 \in Q
  <2>1. ASSUME NEW s \in SUBSET S, Cardinality(s) = n + 1 PROVE s \in P
    <3>1. s # {} /\ s \ {FirstOut(s)} \in SUBSET S /\ Cardinality(s \ {FirstOut(s)}) = n
      BY <2>1, WithoutFirst
    <3>2. QED
      BY <1>2, <3>1
  <2>2. QED
    BY <1>2, <2>1
<1>3. Q = Nat
  <2> HIDE DEF Q
  <2>1. QED
    BY <1>1, <1>2, CountUp DEF Q
<1> QED
  BY <1>3, WithoutFirst

\* The equation of the function that FoldFunction adds up with.
Adds(f, S, D, g) ==
  g = [s \in D |-> IF s = {} THEN 0 ELSE f[FirstOut(s)] + g[s \ {FirstOut(s)}]]

\* The parts of at most n members.
SmallParts(S, n) == {s \in SUBSET S : Cardinality(s) <= n}

\* There is such a function.
LEMMA AddsExists ==
  ASSUME NEW S, IsFiniteSet(S), NEW f
  PROVE  \E g : Adds(f, S, SUBSET S, g)
<1> DEFINE D(n) == SmallParts(S, n)
           P == {n \in Nat : \E g : Adds(f, S, D(n), g)}
<1>1. 0 \in P
  <2> DEFINE g == [s \in D(0) |-> 0]
  <2>1. \A s \in D(0) : s = {}
    <3>1. \A s \in SUBSET S : Cardinality(s) \in Nat /\ (Cardinality(s) = 0 <=> s = {})
      BY WithoutFirst
    <3>2. QED
      BY <3>1 DEF SmallParts
  <2>2. g = [s \in D(0) |-> IF s = {} THEN 0 ELSE f[FirstOut(s)] + g[s \ {FirstOut(s)}]]
    BY <2>1, Zenon
  <2>3. Adds(f, S, D(0), g)
    BY <2>2 DEF Adds
  <2>4. QED
    BY <2>3
<1>2. ASSUME NEW n \in P PROVE n + 1 \in P
  <2>1. n \in Nat
    OBVIOUS
  <2>2. PICK g : Adds(f, S, D(n), g)
    OBVIOUS
  <2> DEFINE h == [s \in D(n + 1) |->
                     IF s = {} THEN 0 ELSE f[FirstOut(s)] + g[s \ {FirstOut(s)}]]
  <2>3. \A s \in D(n) : s \in D(n + 1) /\ h[s] = g[s]
    <3>1. \A s \in D(n) : s \in D(n + 1)
      <4>1. \A s \in SUBSET S : Cardinality(s) \in Nat
        BY WithoutFirst
      <4>2. QED
        BY <2>1, <4>1 DEF SmallParts
    <3>2. \A s \in D(n) :
             g[s] = IF s = {} THEN 0 ELSE f[FirstOut(s)] + g[s \ {FirstOut(s)}]
      BY <2>2 DEF Adds
    <3>3. \A s \in D(n + 1) :
             h[s] = IF s = {} THEN 0 ELSE f[FirstOut(s)] + g[s \ {FirstOut(s)}]
      OBVIOUS
    <3> HIDE DEF h, D
    <3>4. QED
      BY <3>1, <3>2, <3>3
  <2>4. \A s \in D(n + 1) : s # {} => s \ {FirstOut(s)} \in D(n)
    <3>1. \A s \in SUBSET S : s # {} =>
            /\ s \ {FirstOut(s)} \in SUBSET S /\ Cardinality(s) \in Nat
            /\ Cardinality(s \ {FirstOut(s)}) = Cardinality(s) - 1
      BY WithoutFirst
    <3>2. QED
      BY <2>1, <3>1 DEF SmallParts
  <2>5. \A s \in D(n + 1) : s # {} => h[s \ {FirstOut(s)}] = g[s \ {FirstOut(s)}]
    BY <2>3, <2>4
  <2>6. h = [s \in D(n + 1) |-> IF s = {} THEN 0 ELSE f[FirstOut(s)] + h[s \ {FirstOut(s)}]]
    BY <2>5
  <2>7. Adds(f, S, D(n + 1), h)
    BY <2>6 DEF Adds
  <2> HIDE DEF D, h
  <2>8. QED
    BY <2>1, <2>7
<1>3. P = Nat
  <2> HIDE DEF P
  <2>1. QED
    BY <1>1, <1>2, CountUp DEF P
<1>4. Cardinality(S) \in Nat /\ \A s \in SUBSET S : Cardinality(s) <= Cardinality(S)
  BY FS_CardinalityType, FS_Subset
<1>5. D(Cardinality(S)) = SUBSET S
  BY <1>4 DEF SmallParts
<1>6. Cardinality(S) \in P
  BY <1>3, <1>4
<1> QED
  BY <1>5, <1>6

\* The sum of the values of a function.
Total(f) == FoldFunction(+, 0, f)

\* A sum over a finite set: nothing gives 0, and a part is its first member and
\* the sum of what is left.
LEMMA SumParts ==
  ASSUME NEW S, IsFiniteSet(S), NEW f \in [S -> Int]
  PROVE  \E g : /\ g \in [SUBSET S -> Int]
                /\ g[{}] = 0
                /\ \A s \in SUBSET S :
                     s # {} => g[s] = f[FirstOut(s)] + g[s \ {FirstOut(s)}]
                /\ Total(f) = g[S]
<1> DEFINE g == CHOOSE g : g = [s \in SUBSET S |->
                  IF s = {} THEN 0 ELSE LET x == CHOOSE x \in s : TRUE
                                        IN  f[x] + g[s \ {x}]]
<1>1. Adds(f, S, SUBSET S, g)
  <2>0. \E k : Adds(f, S, SUBSET S, k)
    BY AddsExists
  <2>1. \E k : k = [s \in SUBSET S |->
                  IF s = {} THEN 0 ELSE LET x == CHOOSE x \in s : TRUE
                                        IN  f[x] + k[s \ {x}]]
    BY <2>0, Zenon DEF Adds, FirstOut
  <2>2. g = [s \in SUBSET S |->
                  IF s = {} THEN 0 ELSE LET x == CHOOSE x \in s : TRUE
                                        IN  f[x] + g[s \ {x}]]
    BY <2>1, Zenon
  <2>3. QED
    BY <2>2, Zenon DEF Adds, FirstOut
<1>2. DOMAIN f = S
  OBVIOUS
<1>3. Total(f) = g[S]
  BY <1>2 DEF Total, FoldFunction, FoldFunctionOnSet, MapThenFoldSet
<1>4. g[{}] = 0 /\ \A s \in SUBSET S : s # {} => g[s] = f[FirstOut(s)] + g[s \ {FirstOut(s)}]
  <2> HIDE DEF g
  <2>1. \A s \in SUBSET S : g[s] = IF s = {} THEN 0 ELSE f[FirstOut(s)] + g[s \ {FirstOut(s)}]
    BY <1>1 DEF Adds
  <2>2. QED
    BY <2>1
<1> HIDE DEF g
<1>5. SUBSET S \subseteq {s \in SUBSET S : g[s] \in Int}
  <2> DEFINE P == {s \in SUBSET S : g[s] \in Int}
  <2>1. {} \in P
    <3>1. {} \in SUBSET S /\ 0 \in Int
      OBVIOUS
    <3>2. g[{}] = 0
      BY <1>4, Zenon
    <3>3. QED
      BY <3>1, <3>2
  <2>2. ASSUME NEW s \in SUBSET S, s # {}, s \ {FirstOut(s)} \in P PROVE s \in P
    <3>1. g[s] = f[FirstOut(s)] + g[s \ {FirstOut(s)}] /\ FirstOut(s) \in s
      BY <1>4, <2>2, WithoutFirst
    <3>2. f[FirstOut(s)] \in Int /\ g[s \ {FirstOut(s)}] \in Int
      BY <2>2, <3>1
    <3>3. QED
      BY <3>1, <3>2
  <2> HIDE DEF P
  <2>3. SUBSET S \subseteq P
    BY <2>1, <2>2, PartsUp
  <2>4. QED
    BY <2>3 DEF P
<1>6. g \in [SUBSET S -> Int]
  BY <1>1, <1>5 DEF Adds
<1> QED
  BY <1>3, <1>4, <1>6

\* A sum grows by what one of its terms grows.
LEMMA SumGrows ==
  ASSUME NEW S, IsFiniteSet(S), NEW f \in [S -> Int], NEW o \in S, NEW q \in Int
  PROVE  /\ Total([f EXCEPT ![o] = @ + q]) = Total(f) + q
         /\ Total(f) \in Int
<1> DEFINE h == [f EXCEPT ![o] = @ + q]
<1>1. h \in [S -> Int] /\ h[o] = f[o] + q /\ \A x \in S : x # o => h[x] = f[x]
  OBVIOUS
<1> HIDE DEF h
<1>2. PICK g \in [SUBSET S -> Int] :
        /\ g[{}] = 0
        /\ \A s \in SUBSET S : s # {} => g[s] = f[FirstOut(s)] + g[s \ {FirstOut(s)}]
        /\ Total(f) = g[S]
  BY SumParts, Zenon
<1>3. PICK k \in [SUBSET S -> Int] :
        /\ k[{}] = 0
        /\ \A s \in SUBSET S : s # {} => k[s] = h[FirstOut(s)] + k[s \ {FirstOut(s)}]
        /\ Total(h) = k[S]
  BY <1>1, SumParts, Zenon
<1> DEFINE P == {s \in SUBSET S : k[s] = g[s] + (IF o \in s THEN q ELSE 0)}
<1>4. {} \in P
  <2>1. o \notin {} /\ {} \in SUBSET S
    OBVIOUS
  <2>2. k[{}] = 0 /\ g[{}] = 0
    BY <1>2, <1>3, Zenon
  <2>3. QED
    BY <2>1, <2>2
<1>5. ASSUME NEW s \in SUBSET S, s # {}, s \ {FirstOut(s)} \in P PROVE s \in P
  <2>1. FirstOut(s) \in s
    <3> HIDE DEF P
    <3>1. QED
      BY <1>5, WithoutFirst
  <2>2. /\ k[s] = h[FirstOut(s)] + k[s \ {FirstOut(s)}]
        /\ g[s] = f[FirstOut(s)] + g[s \ {FirstOut(s)}]
    BY <1>2, <1>3, <1>5
  <2>3. /\ k[s \ {FirstOut(s)}] = g[s \ {FirstOut(s)}] + (IF o \in s \ {FirstOut(s)} THEN q ELSE 0)
        /\ g[s \ {FirstOut(s)}] \in Int
    BY <1>2, <1>5
  <2> HIDE DEF P
  <2>4. CASE FirstOut(s) = o
    <3>1. o \in s /\ o \notin s \ {FirstOut(s)} /\ f[o] \in Int
      BY <2>1, <2>4
    <3>2. k[s] = g[s] + q
      BY <1>1, <2>2, <2>3, <2>4, <3>1
    <3>3. QED
      BY <3>1, <3>2 DEF P
  <2>5. CASE FirstOut(s) # o
    <3>1. (o \in s <=> o \in s \ {FirstOut(s)}) /\ f[FirstOut(s)] \in Int
          /\ h[FirstOut(s)] = f[FirstOut(s)]
      BY <1>1, <2>1, <2>5
    <3>2. k[s] = g[s] + (IF o \in s THEN q ELSE 0)
      BY <2>2, <2>3, <3>1
    <3>3. QED
      BY <3>2 DEF P
  <2>6. QED
    BY <2>4, <2>5
<1>6. SUBSET S \subseteq P
  <2> HIDE DEF P
  <2>1. QED
    BY <1>4, <1>5, PartsUp
<1>7. k[S] = g[S] + q /\ g[S] \in Int
  BY <1>6
<1> QED
  BY <1>2, <1>3, <1>7 DEF h

\* A sum of nothing but zeros is zero.
LEMMA SumOfZeros ==
  ASSUME NEW S, IsFiniteSet(S), NEW f \in [S -> Int], \A x \in S : f[x] = 0
  PROVE  Total(f) = 0
<1>1. PICK g \in [SUBSET S -> Int] :
        /\ g[{}] = 0
        /\ \A s \in SUBSET S : s # {} => g[s] = f[FirstOut(s)] + g[s \ {FirstOut(s)}]
        /\ Total(f) = g[S]
  BY SumParts, Zenon
<1> DEFINE P == {s \in SUBSET S : g[s] = 0}
<1>2. {} \in P
  <2>1. {} \in SUBSET S
    OBVIOUS
  <2>2. g[{}] = 0
    BY <1>1, Zenon
  <2>3. QED
    BY <2>1, <2>2, Zenon
<1>3. ASSUME NEW s \in SUBSET S, s # {}, s \ {FirstOut(s)} \in P PROVE s \in P
  <2>1. g[s \ {FirstOut(s)}] = 0 /\ g[s] = f[FirstOut(s)] + g[s \ {FirstOut(s)}]
    BY <1>1, <1>3
  <2>2. FirstOut(s) \in S
    <3> HIDE DEF P
    <3>1. QED
      BY <1>3, WithoutFirst
  <2>3. g[s] = 0
    BY <2>1, <2>2
  <2>4. QED
    BY <2>3
<1>4. SUBSET S \subseteq P
  <2> HIDE DEF P
  <2>1. QED
    BY <1>2, <1>3, PartsUp
<1>5. g[S] = 0
  BY <1>4
<1> QED
  BY <1>1, <1>5, Zenon

-----------------------------------------------------------------------------
\* A greater element has a greater rank.
LEMMA RankGrows ==
  ASSUME NEW S \in SUBSET Int, IsFiniteSet(S), NEW t \in S, NEW u \in S, t < u
  PROVE  Rank(t, S) < Rank(u, S)
<1> DEFINE below == {v \in S : v <= t}
           upto == {v \in S : v <= u}
<1>1. IsFiniteSet(upto) /\ IsFiniteSet(below)
  BY FS_Subset
<1>2. \A v \in below : v \in upto
  <2> SUFFICES ASSUME NEW v \in S, v <= t PROVE v <= u
    OBVIOUS
  <2>1. v \in Int /\ t \in Int /\ u \in Int
    OBVIOUS
  <2>. QED
    BY <2>1
<1>3. u \in upto /\ u \notin below
  OBVIOUS
<1> HIDE DEF below, upto
<1>4. Cardinality(below) <= Cardinality(upto) /\ Cardinality(below) # Cardinality(upto)
  <2>1. below \in SUBSET upto
    BY <1>2
  <2>. QED
    BY <1>1, <1>3, <2>1, FS_Subset
<1>5. Cardinality(below) \in Nat /\ Cardinality(upto) \in Nat
  BY <1>1, FS_CardinalityType
<1> QED
  BY <1>4, <1>5 DEF Rank, below, upto

\* Every rank up to the number of elements is the rank of one of them.
LEMMA RankFound ==
  ASSUME NEW S \in SUBSET Int, IsFiniteSet(S)
  PROVE  /\ \A t \in S : Rank(t, S) \in 1 .. Cardinality(S)
         /\ \A n \in 1 .. Cardinality(S) : \E t \in S : Rank(t, S) = n
<1> DEFINE rank == [t \in S |-> Rank(t, S)]
           N == Cardinality(S)
<1>1. N \in Nat
  BY FS_CardinalityType
<1>2. ASSUME NEW t \in S PROVE Rank(t, S) \in 1 .. N
  <2> DEFINE below == {v \in S : v <= t}
  <2>1. IsFiniteSet(below) /\ Cardinality(below) <= N
    BY FS_Subset
  <2>2. t \in below
    OBVIOUS
  <2> HIDE DEF below
  <2>3. Cardinality(below) \in Nat /\ Cardinality(below) # 0
    BY <2>1, <2>2, FS_CardinalityType, FS_EmptySet
  <2>. QED
    BY <1>1, <2>1, <2>3 DEF Rank, below
<1>3. \A t, u \in S : Rank(t, S) = Rank(u, S) => t = u
  <2> SUFFICES ASSUME NEW t \in S, NEW u \in S, Rank(t, S) = Rank(u, S), t # u PROVE FALSE
    OBVIOUS
  <2>1. t < u \/ u < t
    OBVIOUS
  <2>2. Rank(t, S) < Rank(u, S) \/ Rank(u, S) < Rank(t, S)
    BY <2>1, RankGrows
  <2>3. Rank(t, S) \in Int
    BY <1>2
  <2>. QED
    BY <2>2, <2>3
<1>4. rank \in Injection(S, 1 .. N)
  BY <1>2, <1>3 DEF Injection, IsInjective
<1>5. IsFiniteSet(1 .. N) /\ Cardinality(1 .. N) = N
  BY <1>1, FS_Interval
<1>6. rank \in Surjection(S, 1 .. N)
  <2> HIDE DEF rank
  <2>. QED
    BY <1>4, <1>5, FS_Injection
<1>7. \A n \in 1 .. N : \E t \in S : rank[t] = n
  <2> HIDE DEF rank
  <2>. QED
    BY <1>6 DEF Surjection
<1> QED
  BY <1>2, <1>7

\* Ascending lists a finite set of integers, each of them once and in order.
LEMMA Listed ==
  ASSUME NEW S \in SUBSET Int, IsFiniteSet(S)
  PROVE  /\ Cardinality(S) \in Nat /\ Ascending(S) \in [1 .. Cardinality(S) -> S]
         /\ \A m, n \in 1 .. Cardinality(S) : m < n => Ascending(S)[m] < Ascending(S)[n]
         /\ \A t \in S : Rank(t, S) \in 1 .. Cardinality(S) /\ Ascending(S)[Rank(t, S)] = t
<1> DEFINE s == Ascending(S)
           N == Cardinality(S)
<1>0. \A x \in S : x \in Int
  OBVIOUS
<1>1. N \in Nat
  BY FS_CardinalityType
<1>2. \A n \in 1 .. N : s[n] \in S /\ Rank(s[n], S) = n
  BY RankFound DEF Ascending
<1>3. s \in [1 .. N -> S] /\ DOMAIN s = 1 .. N
  BY <1>2 DEF Ascending
<1> HIDE DEF s
<1>5. ASSUME NEW a \in 1 .. N, NEW b \in 1 .. N, a < b PROVE s[a] < s[b]
  <2>1. s[a] \in S /\ s[b] \in S /\ Rank(s[a], S) = a /\ Rank(s[b], S) = b
    BY <1>2
  <2>2. s[a] \in Int /\ s[b] \in Int
    BY <1>0, <2>1
  <2>3. a \in Int /\ b \in Int
    BY <1>1
  <2>4. ~(s[b] < s[a]) /\ s[a] # s[b]
    BY <1>5, <2>1, <2>2, <2>3, RankGrows
  <2>. QED
    BY <2>2, <2>4
<1>6. ASSUME NEW t \in S PROVE Rank(t, S) \in 1 .. N /\ s[Rank(t, S)] = t
  <2> DEFINE n == Rank(t, S)
  <2>1. n \in 1 .. N
    BY RankFound
  <2>2. s[n] \in S /\ Rank(s[n], S) = Rank(t, S)
    BY <1>2, <2>1
  <2>3. s[n] \in Int /\ t \in Int
    BY <1>0, <2>2
  <2>4. s[n] < t \/ t < s[n] \/ s[n] = t
    BY <2>3
  <2>5. ~(Rank(t, S) < Rank(t, S))
    BY <2>1
  <2>6. ~(s[n] < t) /\ ~(t < s[n])
    BY <2>2, <2>5, RankGrows
  <2>. QED
    BY <2>1, <2>4, <2>6
<1> QED
  BY <1>1, <1>3, <1>5, <1>6 DEF s

-----------------------------------------------------------------------------
\* The greatest member, which FoldLeft takes out of a set of positions.
Top(T) == CHOOSE x \in T : \A y \in T : x >= y

LEMMA TopIs ==
  ASSUME NEW n \in Nat, NEW T \in SUBSET (1 .. n), T # {}
  PROVE  /\ Top(T) \in T /\ \A y \in T : Top(T) >= y
         /\ \A x \in T : (\A y \in T : x >= y) => Top(T) = x
         /\ T \ {Top(T)} \in SUBSET (1 .. n)
<1>1. T \in SUBSET Int /\ \A x \in T : x <= n
  OBVIOUS
<1>2. \E m \in T : \A x \in T : x <= m
  <2>1. n \in Int
    OBVIOUS
  <2>2. QED
    BY <1>1, <2>1, GreatestExists
<1>3. PICK m \in T : \A x \in T : x <= m
  BY <1>2
<1>4. \A y \in T : m >= y
  BY <1>1, <1>3
<1>5. Top(T) \in T /\ \A y \in T : Top(T) >= y
  BY <1>4 DEF Top
<1>6. ASSUME NEW x \in T, \A y \in T : x >= y PROVE Top(T) = x
  <2>1. x >= Top(T) /\ Top(T) >= x /\ x \in Int /\ Top(T) \in Int
    BY <1>1, <1>5, <1>6
  <2>2. QED
    BY <2>1
<1> QED
  BY <1>5, <1>6

LEMMA TopOfRun ==
  ASSUME NEW k \in Nat
  PROVE  /\ Top(1 .. (k + 1)) = k + 1 /\ 1 .. (k + 1) # {}
         /\ (1 .. (k + 1)) \ {k + 1} = 1 .. k
<1>1. k + 1 \in 1 .. (k + 1) /\ \A y \in 1 .. (k + 1) : k + 1 >= y
  OBVIOUS
<1>2. k + 1 \in Nat /\ 1 .. (k + 1) \in SUBSET (1 .. (k + 1)) /\ 1 .. (k + 1) # {}
  BY <1>1
<1>3. Top(1 .. (k + 1)) = k + 1
  BY <1>1, <1>2, TopIs
<1>4. (1 .. (k + 1)) \ {k + 1} = 1 .. k
  OBVIOUS
<1> QED
  BY <1>2, <1>3, <1>4

\* The equation of the function that FoldLeft folds with: G takes what is
\* folded so far and the next position.
FoldsWith(G, base, S, g) ==
  g = [T \in SUBSET S |-> IF T = {} THEN base ELSE G[<<g[T \ {Top(T)}], Top(T)>>]]

\* There is such a function.
LEMMA FoldExists ==
  ASSUME NEW n \in Nat, NEW V, NEW base \in V, NEW G \in [V \X (1 .. n) -> V]
  PROVE  \E g \in [SUBSET (1 .. n) -> V] : FoldsWith(G, base, 1 .. n, g)
<1> DEFINE Folded(m) == \E g \in [SUBSET (1 .. m) -> V] : FoldsWith(G, base, 1 .. m, g)
           P == {m \in Nat : m <= n => Folded(m)}
<1>1. 0 \in P
  <2> DEFINE g == [T \in SUBSET (1 .. 0) |-> base]
  <2>1. \A T \in SUBSET (1 .. 0) : T = {}
    OBVIOUS
  <2>2. g = [T \in SUBSET (1 .. 0) |-> IF T = {} THEN base ELSE G[<<g[T \ {Top(T)}], Top(T)>>]]
    BY <2>1, Zenon
  <2>3. g \in [SUBSET (1 .. 0) -> V] /\ FoldsWith(G, base, 1 .. 0, g)
    BY <2>2 DEF FoldsWith
  <2> HIDE DEF g
  <2>4. QED
    BY <2>3
<1>2. ASSUME NEW m \in P PROVE m + 1 \in P
  <2>0. m \in Nat
    OBVIOUS
  <2> SUFFICES ASSUME m + 1 <= n
               PROVE  Folded(m + 1)
    <3> HIDE DEF Folded
    <3>1. QED
      BY <2>0
  <2>9. Folded(m)
    <3> HIDE DEF Folded
    <3>1. QED
      BY <2>0
  <2>1. PICK g \in [SUBSET (1 .. m) -> V] : FoldsWith(G, base, 1 .. m, g)
    BY <2>9
  <2> DEFINE h == [T \in SUBSET (1 .. (m + 1)) |->
                     IF m + 1 \in T THEN G[<<g[T \ {m + 1}], m + 1>>] ELSE g[T]]
             step(f, T) == IF T = {} THEN base ELSE G[<<f[T \ {Top(T)}], Top(T)>>]
  <2>2. ASSUME NEW T \in SUBSET (1 .. m) PROVE T \in SUBSET (1 .. (m + 1)) /\ h[T] = g[T]
    <3>1. m + 1 \notin T /\ T \in SUBSET (1 .. (m + 1))
      BY <2>0
    <3>2. QED
      BY <3>1
  <2>3. ASSUME NEW T \in SUBSET (1 .. (m + 1)) PROVE h[T] \in V /\ h[T] = step(h, T)
    <3>1. CASE m + 1 \in T
      <4>1. T \ {m + 1} \in SUBSET (1 .. m)
        BY <2>0
      <4>2. Top(T) = m + 1 /\ T # {}
        <5>1. \A y \in T : m + 1 >= y
          BY <2>0
        <5>2. m + 1 \in Nat
          BY <2>0
        <5>3. QED
          BY <3>1, <5>1, <5>2, TopIs
      <4>3. h[T] = G[<<g[T \ {m + 1}], m + 1>>] /\ h[T \ {m + 1}] = g[T \ {m + 1}]
        BY <2>2, <3>1, <4>1
      <4>4. g[T \ {m + 1}] \in V /\ m + 1 \in 1 .. n
        BY <2>0, <2>1, <4>1
      <4>5. h[T] \in V
        BY <4>3, <4>4
      <4> HIDE DEF h
      <4>6. QED
        BY <4>2, <4>3, <4>5
    <3>2. CASE m + 1 \notin T
      <4>1. T \in SUBSET (1 .. m)
        BY <2>0, <3>2
      <4>2. h[T] = g[T] /\ g[T] \in V
        BY <2>2, <4>1
      <4>3. g[T] = step(g, T)
        BY <2>1, <4>1 DEF FoldsWith
      <4>4. T # {} => h[T \ {Top(T)}] = g[T \ {Top(T)}]
        <5>1. T # {} => T \ {Top(T)} \in SUBSET (1 .. m)
          BY <4>1
        <5>2. QED
          BY <2>2, <5>1
      <4> HIDE DEF h
      <4>5. QED
        BY <4>2, <4>3, <4>4
    <3>3. QED
      BY <3>1, <3>2
  <2>4. h \in [SUBSET (1 .. (m + 1)) -> V]
    BY <2>3
  <2>5. h = [T \in SUBSET (1 .. (m + 1)) |-> step(h, T)]
    BY <2>3
  <2>6. FoldsWith(G, base, 1 .. (m + 1), h)
    BY <2>5 DEF FoldsWith
  <2> HIDE DEF h
  <2>7. QED
    BY <2>4, <2>6
<1>3. P = Nat
  <2> HIDE DEF P
  <2>1. QED
    BY <1>1, <1>2, CountUp DEF P
<1>4. Folded(n)
  <2> HIDE DEF Folded
  <2>1. QED
    BY <1>3
<1> QED
  BY <1>4

\* Such a function goes along a sequence a position at a time, and never leaves
\* a set that G does not leave.
LEMMA FoldRuns ==
  ASSUME NEW n \in Nat, NEW V, NEW base \in V, NEW G,
         NEW g, FoldsWith(G, base, 1 .. n, g),
         \A v \in V : \A k \in 1 .. n : G[<<v, k>>] \in V
  PROVE  \E run \in [0 .. n -> V] :
           /\ run[0] = base /\ run[n] = g[1 .. n]
           /\ \A k \in 0 .. (n - 1) : run[k + 1] = G[<<run[k], k + 1>>]
<1> DEFINE run == [k \in 0 .. n |-> g[1 .. k]]
<1>1. \A k \in 0 .. n : 1 .. k \in SUBSET (1 .. n)
  OBVIOUS
<1>2. run[n] = g[1 .. n]
  OBVIOUS
<1>3. g[{}] = base
  BY DEF FoldsWith
<1>4. run[0] = base
  <2>1. 1 .. 0 = {} /\ 0 \in 0 .. n
    OBVIOUS
  <2>2. QED
    BY <1>3, <2>1
<1>5. ASSUME NEW k \in 0 .. (n - 1) PROVE run[k + 1] = G[<<run[k], k + 1>>]
  <2>1. k \in Nat /\ k \in 0 .. n /\ k + 1 \in 0 .. n
    OBVIOUS
  <2>2. run[k] = g[1 .. k] /\ run[k + 1] = g[1 .. (k + 1)]
    BY <2>1
  <2>3. 1 .. (k + 1) \in SUBSET (1 .. n)
    BY <1>1, <2>1
  <2>4. g[1 .. (k + 1)] = G[<<g[1 .. k], k + 1>>]
    <3> DEFINE T == 1 .. (k + 1)
    <3>1. T # {} /\ Top(T) = k + 1 /\ T \ {Top(T)} = 1 .. k
      BY <2>1, TopOfRun
    <3>2. T \in SUBSET (1 .. n)
      BY <2>3
    <3> HIDE DEF T
    <3>3. g[T] = G[<<g[T \ {Top(T)}], Top(T)>>]
      BY <3>1, <3>2 DEF FoldsWith
    <3>4. QED
      BY <3>1, <3>3 DEF T
  <2>5. QED
    BY <2>2, <2>4
<1> HIDE DEF run
<1>6. \A k \in 0 .. n : run[k] \in V
  <2> DEFINE P == {k \in Nat : k <= n => run[k] \in V}
  <2>1. 0 \in P
    BY <1>4
  <2>2. ASSUME NEW k \in P PROVE k + 1 \in P
    <3> SUFFICES ASSUME k + 1 <= n PROVE run[k + 1] \in V
      OBVIOUS
    <3>1. k \in 0 .. (n - 1) /\ run[k] \in V /\ k + 1 \in 1 .. n
      OBVIOUS
    <3>2. QED
      BY <1>5, <3>1
  <2>3. P = Nat
    <3> HIDE DEF P
    <3>1. QED
      BY <2>1, <2>2, CountUp DEF P
  <2>4. QED
    BY <2>3
<1>7. run \in [0 .. n -> V]
  BY <1>6 DEF run
<1> QED
  BY <1>2, <1>4, <1>5, <1>7
=============================================================================
