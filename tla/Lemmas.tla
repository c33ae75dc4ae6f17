-------------------------------- MODULE Lemmas --------------------------------
(***************************************************************************)
(* Facts about numbers that the proofs of several components rest on: a    *)
(* least element, induction up to N, that a recursion over 0..N has a      *)
(* solution, how many elements a set has below each of its own, and        *)
(* remainders.                                                             *)
(***************************************************************************)
EXTENDS Integers, FiniteSetTheorems, WellFoundedInduction, NaturalsInduction, TLAPS

Less == {p \in Nat \X Nat : p[1] < p[2]}

(* A set of naturals has a least element. *)
LEMMA Minimum ==
  ASSUME NEW S \in SUBSET Nat, S # {}
  PROVE  \E i \in S : \A j \in S : i <= j
<1>1. OpToRel(<, Nat) = Less
  BY Zenon DEF OpToRel, Less
<1>2. PICK i \in S : \A j \in S : ~ (<<j, i>> \in Less)
  <2>1. IsWellFoundedOn(Less, Nat)
    BY <1>1, NatLessThanWellFounded, Zenon
  <2> QED BY <2>1, WFMin
<1>3. ASSUME NEW j \in S PROVE i <= j
  <2>1. i \in Nat /\ j \in Nat
    OBVIOUS
  <2>2. j < i => <<j, i>> \in Less
    BY <2>1 DEF Less
  <2> QED BY <1>2, <2>1, <2>2
<1> QED BY <1>3

(* Induction up to N: a set with 0 and, with every number, the next one.   *)
LEMMA Reaches ==
  ASSUME NEW N \in Nat, NEW T, 0 \in T, \A n \in 1..N : n - 1 \in T => n \in T
  PROVE  \A n \in 0..N : n \in T
<1> DEFINE S == {n \in 0..N : n \notin T}
<1>1. S = {}
  <2> SUFFICES ASSUME S # {} PROVE FALSE
    OBVIOUS
  <2>1. PICK n \in S : \A j \in S : n <= j
    <3>1. S \in SUBSET Nat
      OBVIOUS
    <3> HIDE DEF S
    <3> QED BY <3>1, Minimum
  <2>2. n \in 1..N /\ n - 1 \in 0..N /\ ~ (n <= n - 1)
    BY <2>1
  <2> QED BY <2>1, <2>2
<1> QED BY <1>1

(* What step makes of the value at n - 1 is the value at n. *)
Follows(f, n, x0, step) ==
  f[0] = x0 /\ \A i \in 1..n : f[i] = step[<<i, f[i - 1]>>]

(* Every such recursion over 0..N has a solution. *)
LEMMA RecursionExists ==
  ASSUME NEW N \in Nat, NEW X, NEW x0 \in X, NEW step \in [(1..N) \X X -> X]
  PROVE  \E f \in [0..N -> X] : Follows(f, N, x0, step)
<1> DEFINE Solved(n) == \E f \in [0..n -> X] : Follows(f, n, x0, step)
           S == {n \in 0..N : ~ Solved(n)}
<1>1. Solved(0)
  <2>1. [i \in 0..0 |-> x0] \in [0..0 -> X] /\ Follows([i \in 0..0 |-> x0], 0, x0, step)
    BY DEF Follows
  <2> QED BY <2>1
<1>2. ASSUME NEW n \in 1..N, Solved(n - 1) PROVE Solved(n)
  <2>1. PICK g \in [0..(n - 1) -> X] : Follows(g, n - 1, x0, step)
    BY <1>2
  <2> DEFINE x == step[<<n, g[n - 1]>>]
             f == [i \in 0..n |-> IF i = n THEN x ELSE g[i]]
  <2>2. x \in X
    <3>1. n - 1 \in 0..(n - 1)
      OBVIOUS
    <3>2. <<n, g[n - 1]>> \in (1..N) \X X
      BY <2>1, <3>1
    <3> QED BY <3>2
  <2>3. f \in [0..n -> X]
    BY <2>1, <2>2
  <2>4. f[0] = x0
    BY <2>1 DEF Follows
  <2>5. ASSUME NEW i \in 1..n PROVE f[i] = step[<<i, f[i - 1]>>]
    <3>1. f[i - 1] = g[i - 1]
      <4>1. \A j \in 0..n : j # n => f[j] = g[j]
        OBVIOUS
      <4>2. i - 1 \in 0..n /\ i - 1 # n
        OBVIOUS
      <4> HIDE DEF f
      <4> QED BY <4>1, <4>2
    <3>2. CASE i = n
      <4>1. n \in 0..n
        OBVIOUS
      <4>2. f[i] = x
        BY <3>2, <4>1
      <4> QED BY <3>1, <3>2, <4>2
    <3>3. CASE i # n
      <4>1. i \in 1..(n - 1) /\ f[i] = g[i]
        BY <3>3
      <4> QED BY <2>1, <3>1, <4>1 DEF Follows
    <3> QED BY <3>2, <3>3
  <2>6. Follows(f, n, x0, step)
    BY <2>4, <2>5 DEF Follows
  <2> HIDE DEF f
  <2> QED BY <2>3, <2>6
<1> HIDE DEF Solved
<1>3. S = {}
  <2> SUFFICES ASSUME S # {} PROVE FALSE
    OBVIOUS
  <2>1. S \in SUBSET Nat
    OBVIOUS
  <2>2. PICK n \in S : \A j \in S : n <= j
    BY <2>1, Minimum
  <2>3. n \in 1..N
    BY <1>1, <2>2
  <2>4. n - 1 \in 0..N /\ ~ (n <= n - 1)
    BY <2>3
  <2>5. Solved(n - 1)
    BY <2>2, <2>4
  <2> QED BY <1>2, <2>2, <2>3, <2>5
<1>4. Solved(N)
  BY <1>3
<1> QED BY <1>4 DEF Solved

(* How many elements of S are below n. *)
Below(S, n) == Cardinality({s \in S : s < n})

(* One more number below the bound is one more element, if it is one. *)
LEMMA BelowStep ==
  ASSUME NEW S, \A s \in S : s \in Nat, IsFiniteSet(S), NEW n \in Nat
  PROVE  /\ Below(S, n) \in Nat
         /\ Below(S, n + 1) = Below(S, n) + (IF n \in S THEN 1 ELSE 0)
<1> DEFINE T == {s \in S : s < n}
<1>1. IsFiniteSet(T) /\ Cardinality(T) \in Nat
  BY FS_Subset, FS_CardinalityType
<1>2. CASE n \in S
  <2>1. n \notin T
    OBVIOUS
  <2>2. {s \in S : s < n + 1} = T \cup {n}
    <3>1. \A s \in S : s < n + 1 <=> s < n \/ s = n
      OBVIOUS
    <3>2. {s \in S : s < n + 1} = {s \in S : s < n \/ s = n}
      BY <3>1
    <3>3. {s \in S : s < n \/ s = n} = T \cup {n}
      BY <1>2, Zenon
    <3> QED BY <3>2, <3>3
  <2>3. Cardinality(T \cup {n}) = Cardinality(T) + 1
    BY <1>1, <2>1, FS_AddElement
  <2> QED BY <1>1, <1>2, <2>2, <2>3 DEF Below
<1>3. CASE n \notin S
  <2>1. {s \in S : s < n + 1} = T
    BY <1>3
  <2> QED BY <1>1, <1>3, <2>1 DEF Below
<1> QED BY <1>2, <1>3

(* Every number less than the number of elements is the rank of one. *)
LEMMA RankExists ==
  ASSUME NEW n \in Nat, NEW S, \A s \in S : s \in 0..n, NEW k \in Nat, k < Cardinality(S)
  PROVE  \E s \in S : Below(S, s) = k
<1>1. IsFiniteSet(S) /\ \A s \in S : s \in Nat
  <2>1. IsFiniteSet(0..n)
    BY FS_Interval
  <2>2. S \subseteq 0..n
    OBVIOUS
  <2>3. IsFiniteSet(S)
    BY <2>1, <2>2, FS_Subset
  <2> QED BY <2>3
<1> DEFINE Beyond == {m \in Nat : Below(S, m) > k}
<1>2. n + 1 \in Beyond
  <2>1. {s \in S : s < n + 1} = S
    OBVIOUS
  <2>2. Cardinality(S) \in Nat
    BY <1>1, FS_CardinalityType
  <2> QED BY <2>1, <2>2 DEF Below
<1>3. PICK m \in Beyond : \A j \in Beyond : m <= j
  <2>1. Beyond \in SUBSET Nat /\ Beyond # {}
    BY <1>2
  <2> HIDE DEF Beyond
  <2> QED BY <2>1, Minimum
<1>4. m # 0
  <2>1. {s \in S : s < 0} = {}
    OBVIOUS
  <2>2. Below(S, 0) = 0
    BY <2>1, FS_EmptySet DEF Below
  <2> QED BY <1>3, <2>2
<1>5. m - 1 \in Nat /\ m - 1 \notin Beyond
  BY <1>3, <1>4
<1>6. Below(S, m - 1) \in Nat /\ Below(S, m) = Below(S, m - 1) + (IF m - 1 \in S THEN 1 ELSE 0)
  <2>1. (m - 1) + 1 = m
    BY <1>5
  <2> QED BY <1>1, <1>5, <2>1, BelowStep
<1>7. Below(S, m) > k /\ ~ (Below(S, m - 1) > k)
  BY <1>3, <1>5
<1>8. m - 1 \in S /\ Below(S, m - 1) = k
  BY <1>6, <1>7
<1> QED BY <1>8

(* More elements are below a number than below any element below it. *)
LEMMA RankBelow ==
  ASSUME NEW S, \A r \in S : r \in Nat, IsFiniteSet(S), NEW s \in S, NEW t \in Nat, s < t
  PROVE  Below(S, s) \in Nat /\ Below(S, t) \in Nat /\ Below(S, s) < Below(S, t)
<1> DEFINE A == {r \in S : r < s}
           B == {r \in S : r < t}
<1>1. IsFiniteSet(A) /\ IsFiniteSet(B) /\ Cardinality(A) \in Nat /\ Cardinality(B) \in Nat
  BY FS_Subset, FS_CardinalityType
<1>2. A \cup {s} \subseteq B /\ s \notin A
  OBVIOUS
<1>3. Cardinality(A \cup {s}) = Cardinality(A) + 1
  BY <1>1, <1>2, FS_AddElement
<1>4. Cardinality(A \cup {s}) <= Cardinality(B)
  BY <1>1, <1>2, FS_Subset
<1> HIDE DEF A, B
<1>5. Cardinality(A) < Cardinality(B)
  BY <1>1, <1>3, <1>4
<1> QED BY <1>1, <1>5 DEF Below, A, B

(* There are as many elements as there are below a number beyond them all. *)
LEMMA BelowAll ==
  ASSUME NEW S, NEW n \in Nat, \A s \in S : s < n
  PROVE  Below(S, n) = Cardinality(S)
<1>1. {s \in S : s < n} = S
  OBVIOUS
<1> QED BY <1>1 DEF Below

(* No multiple of d lies strictly between 0 and d. *)
LEMMA NoMultiple ==
  ASSUME NEW d \in Nat \ {0}, NEW q \in Int, NEW e \in 1..(d - 1) PROVE e # d * q
<1>1. CASE q <= 0
  <2>1. d * q <= 0
    BY <1>1
  <2> QED BY <2>1
<1>2. CASE q >= 1
  <2>1. d * q >= d
    BY <1>2
  <2> QED BY <2>1
<1> QED BY <1>1, <1>2

(* Division with remainder.                                                *)
LEMMA ModRange ==
  ASSUME NEW d \in Nat \ {0}, NEW x \in Int
  PROVE  x % d \in 0..(d - 1) /\ x \div d \in Int /\ x = d * (x \div d) + (x % d)
OBVIOUS

(* There is only one remainder.                                            *)
LEMMA ModUnique ==
  ASSUME NEW d \in Nat \ {0}, NEW x \in Int, NEW q \in Int, NEW r \in 0..(d - 1), x = d * q + r
  PROVE  x % d = r
<1> DEFINE p == x \div d
           m == x % d
<1>1. m \in 0..(d - 1) /\ p \in Int /\ x = d * p + m
  BY ModRange
<1> HIDE DEF p, m
<1>2. d * (p - q) = d * p - d * q /\ d * (q - p) = d * q - d * p
  BY <1>1
<1>3. d * p \in Int /\ d * q \in Int /\ p - q \in Int /\ q - p \in Int
  BY <1>1
<1>4. r - m = d * (p - q) /\ m - r = d * (q - p)
  BY <1>1, <1>2, <1>3
<1>5. ~ (r - m \in 1..(d - 1))
  BY <1>3, <1>4, NoMultiple
<1>6. ~ (m - r \in 1..(d - 1))
  BY <1>3, <1>4, NoMultiple
<1>7. m = r
  BY <1>1, <1>5, <1>6
<1> QED BY <1>7 DEF m

(* Numbers below d are their own remainders.                               *)
LEMMA ModSmall ==
  ASSUME NEW d \in Nat \ {0}, NEW x \in 0..(d - 1) PROVE x % d = x
<1>1. x = d * 0 + x
  OBVIOUS
<1> QED BY <1>1, ModUnique

(* d more leaves the same remainder.                                       *)
LEMMA ModShift ==
  ASSUME NEW d \in Nat \ {0}, NEW x \in Int PROVE (x - d) % d = x % d
<1> DEFINE p == x \div d
           m == x % d
<1>1. m \in 0..(d - 1) /\ p \in Int /\ x = d * p + m
  BY ModRange
<1> HIDE DEF p, m
<1>2. d * (p - 1) = d * p - d /\ p - 1 \in Int /\ d * p \in Int
  BY <1>1
<1>3. x - d = d * (p - 1) + m
  BY <1>1, <1>2
<1>4. (x - d) % d = m
  BY <1>1, <1>2, <1>3, ModUnique
<1> QED BY <1>4 DEF m

===============================================================================
