---------------------------- MODULE RankTheorems ----------------------------
(***************************************************************************)
(* What Ranks defines is what sorting is expected to be: every element     *)
(* once, in order, ties as they came.                                      *)
(***************************************************************************)
EXTENDS Ranks, Sequences, FiniteSetsExt, FiniteSetTheorems, WellFoundedInduction, TLAPS

\* Induction over numbers, in the form its provers can use: a least one.
LEMMA LeastNumber ==
  ASSUME NEW T \in SUBSET Nat, T # {}
  PROVE  \E m \in T : \A k \in T : m <= k
<1> DEFINE less == {ss \in Nat \X Nat : ss[1] < ss[2]}
<1>1. IsWellFoundedOn(less, Nat)
  BY NatLessThanWellFounded, Zenon DEF OpToRel
<1> HIDE DEF less
<1>2. PICK m \in T : \A k \in T : <<k, m>> \notin less
  BY <1>1, WFMin, Zenon
<1>3. \A k \in T : ~(k < m)
  BY <1>2 DEF less
<1> QED
  BY <1>3

\* Step by step from 0 to n.
LEMMA StepByStep ==
  ASSUME NEW n \in Nat, NEW P, 0 \in P, \A i \in 1..n : i - 1 \in P => i \in P
  PROVE  \A i \in 0..n : i \in P
<1> SUFFICES ASSUME NEW j \in 0..n, j \notin P PROVE FALSE
  OBVIOUS
<1>1. PICK T : T = {i \in 0..n : i \notin P}
  OBVIOUS
<1>2. T \in SUBSET Nat /\ T # {}
  BY <1>1
<1>3. PICK m \in T : \A k \in T : m <= k
  BY <1>2, LeastNumber
<1>4. m \in 0..n /\ m \notin P /\ m # 0
  BY <1>1, <1>3
<1>5. m \in 1..n /\ m - 1 \in 0..n
  BY <1>4
<1>6. m - 1 \in P
  BY <1>1, <1>3, <1>5
<1> QED
  BY <1>4, <1>5, <1>6

\* n turns of a loop whose body is g.
Turns(f, n, b, g) == f[0] = b /\ \A i \in 1..n : f[i] = g[<<f[i - 1], i>>]

\* A loop of n turns has a run.
LEMMA LoopRuns ==
  ASSUME NEW D, NEW n \in Nat, NEW b \in D, NEW g \in [D \X (1..n) -> D]
  PROVE  \E f \in [0..n -> D] : Turns(f, n, b, g)
<1>1. PICK P : P = {m \in 0..n : \E f \in [0..m -> D] : Turns(f, m, b, g)}
  OBVIOUS
<1>2. 0 \in P
  <2>1. PICK f : f = [i \in 0..0 |-> b]
    OBVIOUS
  <2>2. f \in [0..0 -> D] /\ Turns(f, 0, b, g)
    BY <2>1 DEF Turns
  <2> QED
    BY <1>1, <2>2
<1>3. ASSUME NEW m \in 1..n, m - 1 \in P PROVE m \in P
  <2>1. PICK f \in [0..m - 1 -> D] : Turns(f, m - 1, b, g)
    BY <1>1, <1>3
  <2>2. PICK e : e = [i \in 0..m |-> IF i = m THEN g[<<f[m - 1], m>>] ELSE f[i]]
    OBVIOUS
  <2>3. f[m - 1] \in D /\ g[<<f[m - 1], m>>] \in D /\ \A i \in 0..m : i # m => i \in 0..m - 1
    OBVIOUS
  <2>4. e \in [0..m -> D]
    BY <2>2, <2>3
  <2>5. e[0] = b
    BY <2>1, <2>2 DEF Turns
  <2>6. ASSUME NEW i \in 1..m PROVE e[i] = g[<<e[i - 1], i>>]
    <3>1. i - 1 \in 0..m /\ i - 1 # m /\ e[i - 1] = f[i - 1] /\ i \in 0..m
      BY <2>2
    <3>2. CASE i = m
      BY <2>2, <3>1, <3>2
    <3>3. CASE i # m
      <4>1. i \in 1..m - 1 /\ e[i] = f[i]
        BY <2>2, <3>1, <3>3
      <4> QED
        BY <2>1, <3>1, <4>1 DEF Turns
    <3> QED
      BY <3>2, <3>3
  <2>7. Turns(e, m, b, g)
    BY <2>5, <2>6 DEF Turns
  <2> QED
    BY <1>1, <2>4, <2>7
<1>4. \A i \in 0..n : i \in P
  BY <1>2, <1>3, StepByStep
<1> QED
  BY <1>1, <1>4

\* F is a fold from the left: what it makes of the first turns of a set of them
\* goes into the last.
Folds(F, n, b, g) ==
  /\ F[{}] = b
  /\ \A T \in SUBSET (1..n) : \A m \in T :
       (\A y \in T : y <= m) => F[T] = g[<<F[T \ {m}], m>>]

\* A fold over the sets of the first n places is a function.
LEMMA FoldExists ==
  ASSUME NEW D, NEW n \in Nat, NEW b \in D, NEW g \in [D \X (1..n) -> D]
  PROVE  \E F \in [SUBSET (1..n) -> D] : Folds(F, n, b, g)
<1>1. PICK Q : Q = SUBSET (1..n)
  OBVIOUS
<1>2. PICK H : H = [Q -> D]
  OBVIOUS
<1>3. PICK b0 : b0 = [T \in Q |-> b]
  OBVIOUS
<1>4. PICK g0 : g0 = [p \in H \X (1..n) |->
                        [T \in Q |-> IF p[2] \in T THEN g[<<p[1][T \ {p[2]}], p[2]>>]
                                     ELSE p[1][T]]]
  OBVIOUS
<1>5. ASSUME NEW h \in H, NEW i \in 1..n
      PROVE  /\ g0[<<h, i>>] \in H
             /\ \A T \in Q : g0[<<h, i>>][T] = IF i \in T THEN g[<<h[T \ {i}], i>>] ELSE h[T]
  <2>1. g0[<<h, i>>] = [T \in Q |-> IF i \in T THEN g[<<h[T \ {i}], i>>] ELSE h[T]]
    BY <1>4
  <2>2. \A T \in Q : T \ {i} \in Q
    BY <1>1
  <2>3. \A T \in Q : (IF i \in T THEN g[<<h[T \ {i}], i>>] ELSE h[T]) \in D
    BY <1>2, <2>2
  <2> QED
    BY <1>2, <2>1, <2>3
<1>6. b0 \in H /\ g0 \in [H \X (1..n) -> H]
  <2>1. b0 \in H
    BY <1>2, <1>3
  <2>2. \A p \in H \X (1..n) : p = <<p[1], p[2]>> /\ p[1] \in H /\ p[2] \in 1..n
    OBVIOUS
  <2>3. \A p \in H \X (1..n) : g0[p] \in H
    BY <1>5, <2>2
  <2>4. g0 = [p \in H \X (1..n) |-> g0[p]]
    BY <1>4
  <2> QED
    BY <2>1, <2>3, <2>4
<1>7. PICK run \in [0..n -> H] : Turns(run, n, b0, g0)
  BY <1>6, LoopRuns
<1>8. \A i \in 1..n : run[i - 1] \in H /\ run[i] = g0[<<run[i - 1], i>>]
  <2> TAKE i \in 1..n
  <2>1. i - 1 \in 0..n
    OBVIOUS
  <2> QED
    BY <1>7, <2>1 DEF Turns
<1>9. \A i \in 1..n : \A T \in Q :
        run[i][T] = IF i \in T THEN g[<<run[i - 1][T \ {i}], i>>] ELSE run[i - 1][T]
  <2> TAKE i \in 1..n
  <2>1. PICK h : h = run[i - 1]
    OBVIOUS
  <2>2. h \in H /\ run[i] = g0[<<h, i>>]
    BY <1>8, <2>1
  <2>3. \A T \in Q : g0[<<h, i>>][T] = IF i \in T THEN g[<<h[T \ {i}], i>>] ELSE h[T]
    BY <1>5, <2>2, Zenon
  <2> QED
    BY <2>1, <2>2, <2>3, Zenon
<1>10. PICK P : P = {k \in 0..n : \A j \in 0..k : \A T \in Q :
                       T \subseteq 1..j => run[k][T] = run[j][T]}
  OBVIOUS
<1>11. 0 \in P
  BY <1>10
<1>12. ASSUME NEW k \in 1..n, k - 1 \in P PROVE k \in P
  <2>1. k \in 0..n
    OBVIOUS
  <2>2. ASSUME NEW j \in 0..k, NEW T \in Q, T \subseteq 1..j PROVE run[k][T] = run[j][T]
    <3>1. CASE j = k
      BY <3>1
    <3>2. CASE j # k
      <4>1. j \in 0..k - 1 /\ k \notin 1..j
        BY <3>2
      <4>2. run[k][T] = run[k - 1][T]
        BY <1>9, <2>2, <4>1, Zenon
      <4>3. run[k - 1][T] = run[j][T]
        BY <1>10, <1>12, <2>2, <4>1, Zenon
      <4> QED
        BY <4>2, <4>3
    <3> QED
      BY <3>1, <3>2
  <2> QED
    BY <1>10, <2>1, <2>2, Zenon
<1>13. \A k \in 0..n : k \in P
  BY <1>11, <1>12, StepByStep
<1>14. \A j \in 0..n : \A T \in Q : T \subseteq 1..j => run[n][T] = run[j][T]
  BY <1>10, <1>13
<1>15. PICK F : F = run[n]
  OBVIOUS
<1>16. F \in H
  BY <1>7, <1>15
<1>17. F[{}] = b
  <2>1. {} \in Q /\ {} \subseteq 1..0 /\ 0 \in 0..n
    BY <1>1
  <2>2. run[n][{}] = run[0][{}]
    BY <1>14, <2>1
  <2> QED
    BY <1>3, <1>7, <1>15, <2>1, <2>2 DEF Turns
<1>18. ASSUME NEW T \in Q, NEW m \in T, \A y \in T : y <= m
       PROVE  F[T] = g[<<F[T \ {m}], m>>]
  <2>1. T \subseteq 1..n /\ m \in 1..n /\ m \in 0..n /\ m - 1 \in 0..n
    BY <1>1
  <2>2. T \subseteq 1..m /\ T \ {m} \subseteq 1..m - 1 /\ T \ {m} \in Q
    BY <1>1, <1>18, <2>1
  <2>3. run[n][T] = run[m][T] /\ run[n][T \ {m}] = run[m - 1][T \ {m}]
    BY <1>14, <2>1, <2>2
  <2>4. run[m][T] = g[<<run[m - 1][T \ {m}], m>>]
    BY <1>9, <2>1
  <2> QED
    BY <1>15, <2>3, <2>4
<1> QED
  BY <1>1, <1>2, <1>16, <1>17, <1>18 DEF Folds

\* The sets a fold over a sequence goes through.
LEMMA PlacesUpTo ==
  ASSUME NEW i \in Nat
  PROVE  /\ i = 0 => 1..i = {}
         /\ i > 0 => /\ i \in 1..i /\ (1..i) \ {i} = 1..i - 1 /\ 1..i # {}
                     /\ \A m \in 1..i : (\A y \in 1..i : m >= y) => m = i
                     /\ \A y \in 1..i : i >= y
OBVIOUS

\* The largest of some places, which a fold from the left takes last.
LEMMA LastPlace ==
  ASSUME NEW n \in Nat, NEW T \in SUBSET (1..n), T # {}
  PROVE  Max(T) \in T /\ \A y \in T : Max(T) >= y
<1>1. PICK U : U = {n - x : x \in T}
  OBVIOUS
<1>2. U \in SUBSET Nat /\ U # {}
  <2>1. \A x \in T : n - x \in Nat
    OBVIOUS
  <2>2. \A x \in T : n - x \in U
    BY <1>1
  <2> QED
    BY <1>1, <2>1, <2>2
<1>3. PICK m \in U : \A k \in U : m <= k
  BY <1>2, LeastNumber
<1>4. PICK x \in T : m = n - x
  BY <1>1, <1>3
<1>5. \A y \in T : x >= y
  <2> TAKE y \in T
  <2>1. n - y \in U /\ y \in Int /\ x \in Int
    BY <1>1
  <2> QED
    BY <1>3, <1>4, <2>1
<1>6. \E z \in T : \A y \in T : z >= y
  BY <1>5
<1> QED
  BY <1>6, Zenon DEF Max

\* Such a fold takes the last of the places left.
TakesLast(F, D, n, b, g) ==
  \A q \in SUBSET (1..n) :
    /\ q = {} => F[q] = b
    /\ q # {} => /\ Max(q) \in 1..n /\ F[q \ {Max(q)}] \in D
                 /\ F[q] = g[<<F[q \ {Max(q)}], Max(q)>>]

\* A fold takes the last place last.
LEMMA FoldTurn ==
  ASSUME NEW D, NEW n \in Nat, NEW b, NEW g, NEW F \in [SUBSET (1..n) -> D],
         Folds(F, n, b, g)
  PROVE  TakesLast(F, D, n, b, g)
<1> SUFFICES ASSUME NEW q \in SUBSET (1..n)
             PROVE  /\ q = {} => F[q] = b
                    /\ q # {} => /\ Max(q) \in 1..n /\ F[q \ {Max(q)}] \in D
                                 /\ F[q] = g[<<F[q \ {Max(q)}], Max(q)>>]
  BY DEF TakesLast
<1>1. CASE q = {}
  BY <1>1 DEF Folds
<1>2. CASE q # {}
  <2>1. PICK m : m = Max(q)
    OBVIOUS
  <2>2. m \in q /\ \A y \in q : m >= y
    BY <1>2, <2>1, LastPlace
  <2>3. m \in 1..n /\ (\A y \in q : y <= m) /\ q \ {m} \in SUBSET (1..n)
    BY <2>2
  <2>4. F[q] = g[<<F[q \ {m}], m>>]
    BY <2>2, <2>3 DEF Folds
  <2> QED
    BY <1>2, <2>1, <2>3, <2>4
<1> QED
  BY <1>1, <1>2

\* The places up to i, and those before i.
LEMMA LastUpTo ==
  ASSUME NEW n \in Nat, NEW i \in 1..n
  PROVE  /\ 1..i \in SUBSET (1..n) /\ 1..i # {} /\ Max(1..i) = i
         /\ (1..i) \ {Max(1..i)} = 1..i - 1 /\ 1..i - 1 \in SUBSET (1..n)
<1>1. i \in Nat /\ i > 0 /\ 1..i \in SUBSET (1..i) /\ 1..i # {}
  OBVIOUS
<1>2. Max(1..i) \in 1..i /\ \A y \in 1..i : Max(1..i) >= y
  BY <1>1, LastPlace
<1>3. Max(1..i) = i /\ (1..i) \ {i} = 1..i - 1
  BY <1>1, <1>2, PlacesUpTo
<1> QED
  BY <1>1, <1>3

StrictTotal(S, R) ==
  /\ \A x \in S : <<x, x>> \notin R
  /\ \A x, y, z \in S : <<x, y>> \in R /\ <<y, z>> \in R => <<x, z>> \in R
  /\ \A x, y \in S : x = y \/ <<x, y>> \in R \/ <<y, x>> \in R

\* An injection of a finite set into one of its size reaches all of it.
OneToOne(f, S) == \A x, y \in S : f[x] = f[y] => x = y

\* A one-to-one map between finite sets of one size reaches all.
LEMMA InjectionReaches ==
  ASSUME NEW S, NEW T, IsFiniteSet(T), NEW f \in [S -> T], OneToOne(f, S),
         Cardinality(S) = Cardinality(T)
  PROVE  \A t \in T : \E x \in S : f[x] = t
<1>1. f \in Injection(S, T)
  BY DEF OneToOne, Injection, IsInjective
<1>2. f \in Surjection(S, T)
  BY <1>1, FS_Injection
<1> QED
  BY <1>2 DEF Surjection

\* A rank is less than the number of elements.
LEMMA RankBound ==
  ASSUME NEW S, IsFiniteSet(S), NEW R, StrictTotal(S, R), NEW x \in S
  PROVE  Rank(S, R, x) \in 0..Cardinality(S) - 1
<1> DEFINE below == {y \in S : <<y, x>> \in R}
<1>1. below \in SUBSET (S \ {x})
  BY DEF StrictTotal
<1>2. IsFiniteSet(S \ {x}) /\ Cardinality(S \ {x}) = Cardinality(S) - 1
  BY FS_RemoveElement
<1>3. IsFiniteSet(below) /\ Cardinality(below) <= Cardinality(S) - 1
  <2> HIDE DEF below
  <2> QED
    BY <1>1, <1>2, FS_Subset
<1>4. Cardinality(below) \in Nat /\ Cardinality(S) \in Nat
  BY <1>3, FS_CardinalityType
<1>5. Rank(S, R, x) = Cardinality(below)
  BY DEF Rank
<1> HIDE DEF below
<1> QED
  BY <1>3, <1>4, <1>5

\* Ranks grow along the order.
LEMMA RankGrows ==
  ASSUME NEW S, IsFiniteSet(S), NEW R, StrictTotal(S, R),
         NEW x \in S, NEW y \in S, <<x, y>> \in R
  PROVE  Rank(S, R, x) < Rank(S, R, y)
<1> DEFINE belowX == {z \in S : <<z, x>> \in R}
           belowY == {z \in S : <<z, y>> \in R}
<1>1. x \notin belowX /\ belowX \cup {x} \subseteq belowY
  BY DEF StrictTotal
<1>2. IsFiniteSet(belowX) /\ IsFiniteSet(belowY)
  BY FS_Subset
<1> HIDE DEF belowX, belowY
<1>3. Cardinality(belowX \cup {x}) = Cardinality(belowX) + 1
  BY <1>1, <1>2, FS_AddElement
<1>4. Cardinality(belowX \cup {x}) <= Cardinality(belowY)
  BY <1>1, <1>2, FS_Subset
<1>5. Cardinality(belowX) \in Nat /\ Cardinality(belowY) \in Nat
  BY <1>2, FS_CardinalityType
<1>6. Rank(S, R, x) = Cardinality(belowX) /\ Rank(S, R, y) = Cardinality(belowY)
  BY DEF Rank, belowX, belowY
<1> QED
  BY <1>3, <1>4, <1>5, <1>6

\* Every place is taken, by one element, and earlier places by earlier elements.
THEOREM SortedTheorem ==
  ASSUME NEW S, IsFiniteSet(S), NEW R, StrictTotal(S, R)
  PROVE  /\ Cardinality(S) \in Nat
         /\ Sorted(S, R) \in [1..Cardinality(S) -> S]
         /\ \A x \in S : /\ Rank(S, R, x) + 1 \in 1..Cardinality(S)
                         /\ Sorted(S, R)[Rank(S, R, x) + 1] = x
         /\ \A k \in 1..Cardinality(S) : Rank(S, R, Sorted(S, R)[k]) = k - 1
         /\ \A j, k \in 1..Cardinality(S) :
              j < k <=> <<Sorted(S, R)[j], Sorted(S, R)[k]>> \in R
<1> DEFINE n == Cardinality(S)
           s == Sorted(S, R)
           rank == [x \in S |-> Rank(S, R, x)]
<1>0. n \in Nat
  BY FS_CardinalityType
<1>1. \A x \in S : Rank(S, R, x) \in 0..n - 1
  BY RankBound
<1>2. \A x, y \in S : Rank(S, R, x) = Rank(S, R, y) => x = y
  <2> TAKE x, y \in S
  <2> HAVE Rank(S, R, x) = Rank(S, R, y)
  <2>1. Rank(S, R, x) \in Int /\ Rank(S, R, y) \in Int
    BY <1>1
  <2>2. <<x, y>> \in R => Rank(S, R, x) < Rank(S, R, y)
    BY RankGrows
  <2>3. <<y, x>> \in R => Rank(S, R, y) < Rank(S, R, x)
    BY RankGrows
  <2>4. x = y \/ <<x, y>> \in R \/ <<y, x>> \in R
    BY DEF StrictTotal
  <2> QED
    BY <2>1, <2>2, <2>3, <2>4
<1>3. rank \in [S -> 0..n - 1]
  BY <1>1
<1>4. \A x, y \in S : rank[x] = rank[y] => x = y
  BY <1>2
<1>5. IsFiniteSet(0..n - 1) /\ Cardinality(0..n - 1) = n
  <2>1. 0 \in Int /\ n - 1 \in Int /\ (IF 0 > n - 1 THEN 0 ELSE n - 1 - 0 + 1) = n
    BY <1>0
  <2> QED
    BY <2>1, FS_Interval
<1>6. \A i \in 0..n - 1 : \E x \in S : rank[x] = i
  <2>1. PICK f : f = rank
    OBVIOUS
  <2>2. PICK T : T = 0..n - 1
    OBVIOUS
  <2>3. IsFiniteSet(T) /\ Cardinality(S) = Cardinality(T) /\ f \in [S -> T]
    BY <1>3, <1>5, <2>1, <2>2
  <2>4. OneToOne(f, S)
    BY <1>4, <2>1 DEF OneToOne
  <2>5. \A i \in T : \E x \in S : f[x] = i
    BY <2>3, <2>4, InjectionReaches
  <2> QED
    BY <2>1, <2>2, <2>5
<1>7. \A k \in 1..n : s[k] \in S /\ Rank(S, R, s[k]) = k - 1
  <2> TAKE k \in 1..n
  <2>1. k - 1 \in 0..n - 1
    BY <1>0
  <2>2. \E x \in S : Rank(S, R, x) = k - 1
    BY <1>6, <2>1
  <2>3. s[k] = CHOOSE x \in S : Rank(S, R, x) = k - 1
    BY DEF Sorted
  <2> QED
    BY <2>2, <2>3
<1>8. s \in [1..n -> S]
  <2>1. s = [k \in 1..n |-> s[k]]
    BY DEF Sorted
  <2> HIDE DEF s
  <2> QED
    BY <1>7, <2>1
<1> HIDE DEF s, rank, n
<1>9. \A x \in S : Rank(S, R, x) + 1 \in 1..n /\ s[Rank(S, R, x) + 1] = x
  <2> TAKE x \in S
  <2>1. Rank(S, R, x) \in 0..n - 1
    BY <1>1
  <2>2. Rank(S, R, x) + 1 \in 1..n /\ (Rank(S, R, x) + 1) - 1 = Rank(S, R, x)
    BY <1>0, <2>1
  <2>3. s[Rank(S, R, x) + 1] \in S /\ Rank(S, R, s[Rank(S, R, x) + 1]) = Rank(S, R, x)
    BY <1>7, <2>2
  <2> QED
    BY <1>2, <2>2, <2>3
<1>10. \A j, k \in 1..n : j < k <=> <<s[j], s[k]>> \in R
  <2> TAKE j, k \in 1..n
  <2>1. s[j] \in S /\ s[k] \in S /\ Rank(S, R, s[j]) = j - 1 /\ Rank(S, R, s[k]) = k - 1
    BY <1>7
  <2>2. <<s[j], s[k]>> \in R => j < k
    <3> HAVE <<s[j], s[k]>> \in R
    <3>1. Rank(S, R, s[j]) < Rank(S, R, s[k])
      BY <2>1, RankGrows
    <3> QED
      BY <1>0, <2>1, <3>1
  <2>3. <<s[k], s[j]>> \in R => k < j
    <3> HAVE <<s[k], s[j]>> \in R
    <3>1. Rank(S, R, s[k]) < Rank(S, R, s[j])
      BY <2>1, RankGrows
    <3> QED
      BY <1>0, <2>1, <3>1
  <2>4. s[j] = s[k] => j = k
    BY <1>0, <2>1
  <2>5. s[j] = s[k] \/ <<s[j], s[k]>> \in R \/ <<s[k], s[j]>> \in R
    BY <2>1 DEF StrictTotal
  <2> QED
    BY <1>0, <2>2, <2>3, <2>4, <2>5
<1> QED
  BY <1>0, <1>7, <1>8, <1>9, <1>10 DEF n, s

\* R compares the places of P by their keys.
ComparesBy(R, P, key) == \A i, j \in P : <<i, j>> \in R <=> key[i] < key[j]

\* s lists the n places of P once each, the smallest key first.
SortedBy(s, n, P, key) ==
  /\ n \in Nat /\ s \in [1..n -> P]
  /\ \A x \in P : \E k \in 1..n : s[k] = x
  /\ \A j, k \in 1..n : s[j] = s[k] => j = k
  /\ \A j, k \in 1..n : j < k => key[s[j]] <= key[s[k]]

\* A sort by a number, ties as they came, is an order of its places.
LEMMA StableIsTotal ==
  ASSUME NEW P \in SUBSET Int, NEW key \in [P -> Int],
         NEW R, ComparesBy(R, P, key)
  PROVE  /\ StrictTotal(P, Stable(P, R))
         /\ \A i, j \in P : <<i, j>> \in Stable(P, R) <=>
              key[i] < key[j] \/ (key[i] = key[j] /\ i < j)
<1>1. \A i, j \in P : key[i] \in Int /\ i \in Int
  OBVIOUS
<1>2. \A i, j \in P : <<i, j>> \in Stable(P, R) <=>
                        key[i] < key[j] \/ (key[i] = key[j] /\ i < j)
  <2> TAKE i, j \in P
  <2>1. <<i, j>> \in Stable(P, R) <=> <<i, j>> \in R \/ (<<j, i>> \notin R /\ i < j)
    BY DEF Stable
  <2>2. (<<i, j>> \in R <=> key[i] < key[j]) /\ (<<j, i>> \in R <=> key[j] < key[i])
    BY DEF ComparesBy
  <2> QED
    BY <1>1, <2>1, <2>2
<1>3. \A x \in P : <<x, x>> \notin Stable(P, R)
  BY <1>1, <1>2
<1>4. \A x, y \in P : x = y \/ <<x, y>> \in Stable(P, R) \/ <<y, x>> \in Stable(P, R)
  <2> TAKE x, y \in P
  <2>1. x = y \/ x < y \/ y < x
    BY <1>1
  <2>2. key[x] = key[y] \/ key[x] < key[y] \/ key[y] < key[x]
    BY <1>1
  <2> QED
    BY <1>2, <2>1, <2>2
<1>5. \A x, y, z \in P :
        <<x, y>> \in Stable(P, R) /\ <<y, z>> \in Stable(P, R) => <<x, z>> \in Stable(P, R)
  BY <1>1, <1>2
<1> QED
  BY <1>2, <1>3, <1>4, <1>5 DEF StrictTotal

\* The order of numbers is total.
LEMMA AscendingTotal ==
  ASSUME NEW P \in SUBSET Int
  PROVE  StrictTotal(P, {p \in P \X P : p[1] < p[2]})
BY DEF StrictTotal

\* Ascending lists every number of a finite set once, lesser ones first.
LEMMA AscendingTheorem ==
  ASSUME NEW P \in SUBSET Int, IsFiniteSet(P)
  PROVE  /\ Cardinality(P) \in Nat /\ Ascending(P) \in [1..Cardinality(P) -> P]
         /\ \A x \in P : \E k \in 1..Cardinality(P) : Ascending(P)[k] = x
         /\ \A j, k \in 1..Cardinality(P) : j < k <=> Ascending(P)[j] < Ascending(P)[k]
<1>1. PICK R : R = {p \in P \X P : p[1] < p[2]}
  OBVIOUS
<1>2. StrictTotal(P, R) /\ Ascending(P) = Sorted(P, R)
  BY <1>1, AscendingTotal DEF Ascending
<1>3. /\ Cardinality(P) \in Nat /\ Ascending(P) \in [1..Cardinality(P) -> P]
      /\ \A x \in P : /\ Rank(P, R, x) + 1 \in 1..Cardinality(P)
                      /\ Ascending(P)[Rank(P, R, x) + 1] = x
      /\ \A j, k \in 1..Cardinality(P) :
           j < k <=> <<Ascending(P)[j], Ascending(P)[k]>> \in R
  BY <1>2, SortedTheorem
<1>4. \A i, j \in P : <<i, j>> \in R <=> i < j
  BY <1>1
<1> QED
  BY <1>3, <1>4

\* The first n numbers are n.
LEMMA OneToN ==
  ASSUME NEW n \in Nat
  PROVE  IsFiniteSet(1..n) /\ Cardinality(1..n) = n
BY FS_Interval

\* What is at some places of a sequence, in order.
LEMMA ElementsAtSeq ==
  ASSUME NEW S, NEW s \in Seq(S), NEW P \in SUBSET DOMAIN s
  PROVE  /\ ElementsAt(s, P) \in Seq(S)
         /\ Len(ElementsAt(s, P)) = Cardinality(P)
         /\ Cardinality(P) <= Len(s)
         /\ \A j \in DOMAIN ElementsAt(s, P) :
              \E i \in P : ElementsAt(s, P)[j] = s[i]
         /\ \A i \in P : \E j \in DOMAIN ElementsAt(s, P) : ElementsAt(s, P)[j] = s[i]
<1>1. Len(s) \in Nat /\ DOMAIN s = 1..Len(s) /\ P \in SUBSET (1..Len(s)) /\ P \in SUBSET Int
  OBVIOUS
<1>2. IsFiniteSet(1..Len(s)) /\ Cardinality(1..Len(s)) = Len(s)
  BY <1>1, OneToN
<1>3. PICK n : n = Cardinality(P)
  OBVIOUS
<1>4. IsFiniteSet(P) /\ n \in Nat /\ n <= Len(s)
  BY <1>1, <1>2, <1>3, FS_Subset, FS_CardinalityType
<1>5. PICK at : at = Ascending(P)
  OBVIOUS
<1>6. /\ at \in [1..n -> P]
      /\ \A x \in P : \E k \in 1..n : at[k] = x
  BY <1>1, <1>3, <1>4, <1>5, AscendingTheorem
<1>7. PICK e : e = [j \in 1..n |-> s[at[j]]]
  OBVIOUS
<1>8. ElementsAt(s, P) = e
  BY <1>3, <1>5, <1>7 DEF ElementsAt
<1>9. e \in [1..n -> S] /\ e \in Seq(S) /\ Len(e) = n /\ DOMAIN e = 1..n
  <2>1. \A j \in 1..n : s[at[j]] \in S
    BY <1>1, <1>6
  <2> QED
    BY <1>4, <1>7, <2>1
<1>10. \A j \in 1..n : \E i \in P : e[j] = s[i]
  <2> TAKE j \in 1..n
  <2>1. at[j] \in P /\ e[j] = s[at[j]]
    BY <1>6, <1>7
  <2> QED
    BY <2>1, Zenon
<1>11. \A i \in P : \E j \in 1..n : e[j] = s[i]
  <2> TAKE i \in P
  <2>1. PICK j \in 1..n : at[j] = i
    BY <1>6, Zenon
  <2>2. e[j] = s[i]
    BY <1>7, <2>1
  <2> QED
    BY <2>2, Zenon
<1> QED
  BY <1>3, <1>4, <1>8, <1>9, <1>10, <1>11, Zenon

\* A sort of places by a number: each once, in order.
LEMMA StableTheorem ==
  ASSUME NEW P \in SUBSET Int, IsFiniteSet(P), NEW key \in [P -> Int],
         NEW R, ComparesBy(R, P, key),
         NEW s, s = Sorted(P, Stable(P, R)), NEW n, n = Cardinality(P)
  PROVE  SortedBy(s, n, P, key)
<1>1. /\ StrictTotal(P, Stable(P, R))
      /\ \A i, j \in P : <<i, j>> \in Stable(P, R) <=>
           key[i] < key[j] \/ (key[i] = key[j] /\ i < j)
  BY StableIsTotal
<1>2. /\ n \in Nat /\ s \in [1..n -> P]
      /\ \A x \in P : Rank(P, Stable(P, R), x) + 1 \in 1..n
                      /\ s[Rank(P, Stable(P, R), x) + 1] = x
      /\ \A j, k \in 1..n : j < k <=> <<s[j], s[k]>> \in Stable(P, R)
  BY <1>1, SortedTheorem
<1>3. \A j, k \in 1..n : s[j] = s[k] => j = k
  <2> TAKE j, k \in 1..n
  <2> HAVE s[j] = s[k]
  <2>1. s[j] \in P /\ <<s[j], s[j]>> \notin Stable(P, R)
    BY <1>1, <1>2 DEF StrictTotal
  <2>2. ~(j < k) /\ ~(k < j)
    BY <1>2, <2>1
  <2> QED
    BY <1>2, <2>2
<1>4. \A i, j \in P : <<i, j>> \in Stable(P, R) => key[i] <= key[j]
  <2> TAKE i, j \in P
  <2>1. key[i] \in Int /\ key[j] \in Int
    OBVIOUS
  <2> QED
    BY <1>1, <2>1
<1>5. \A j, k \in 1..n : j < k => key[s[j]] <= key[s[k]]
  <2> TAKE j, k \in 1..n
  <2> HAVE j < k
  <2>1. s[j] \in P /\ s[k] \in P /\ <<s[j], s[k]>> \in Stable(P, R)
    BY <1>2
  <2> QED
    BY <1>4, <2>1
<1> QED
  BY <1>2, <1>3, <1>5 DEF SortedBy

\* As many as there are, up to n.
LEMMA FirstPlacesSize ==
  ASSUME NEW P \in SUBSET Int, IsFiniteSet(P), NEW n \in Nat
  PROVE  /\ FirstPlaces(P, n) \subseteq P /\ IsFiniteSet(FirstPlaces(P, n))
         /\ Cardinality(FirstPlaces(P, n)) =
              IF Cardinality(P) < n THEN Cardinality(P) ELSE n
<1> DEFINE R == {p \in P \X P : p[1] < p[2]}
           c == Cardinality(P)
           m == IF c < n THEN c ELSE n
           s == Sorted(P, R)
           F == FirstPlaces(P, n)
<1>1. /\ c \in Nat /\ s \in [1..c -> P]
      /\ \A x \in P : Rank(P, R, x) + 1 \in 1..c /\ s[Rank(P, R, x) + 1] = x
      /\ \A k \in 1..c : Rank(P, R, s[k]) = k - 1
  <2> HIDE DEF R
  <2>1. StrictTotal(P, R)
    BY AscendingTotal DEF R
  <2> QED
    BY <2>1, SortedTheorem
<1>2. \A x \in P : x \in F <=> Rank(P, R, x) < n
  <2> TAKE x \in P
  <2>1. {y \in P : <<y, x>> \in R} = {y \in P : y < x}
    OBVIOUS
  <2> QED
    BY <2>1 DEF Rank, FirstPlaces
<1>3. F \subseteq P /\ IsFiniteSet(F) /\ m \in Nat
  <2>1. F \subseteq P
    BY DEF FirstPlaces
  <2> QED
    BY <1>1, <2>1, FS_Subset
<1> HIDE DEF R, s, F
<1>4. PICK f : f = [k \in 1..m |-> s[k]]
  OBVIOUS
<1>5. 1..m \subseteq 1..c /\ \A k \in 1..c : k \in 1..m <=> k - 1 < n
  BY <1>1
<1>6. f \in [1..m -> F]
  <2>1. \A k \in 1..m : s[k] \in F
    BY <1>1, <1>2, <1>5
  <2> QED
    BY <1>4, <2>1
<1>7. \A j, k \in 1..m : f[j] = f[k] => j = k
  <2> TAKE j, k \in 1..m
  <2>1. Rank(P, R, s[j]) = j - 1 /\ Rank(P, R, s[k]) = k - 1
    BY <1>1, <1>5
  <2> QED
    BY <1>3, <1>4, <2>1
<1>8. \A x \in F : \E k \in 1..m : f[k] = x
  <2> TAKE x \in F
  <2>1. /\ Rank(P, R, x) + 1 \in 1..c /\ s[Rank(P, R, x) + 1] = x /\ Rank(P, R, x) < n
        /\ (Rank(P, R, x) + 1) - 1 = Rank(P, R, x)
    <3>1. x \in P /\ Rank(P, R, x) + 1 \in 1..c
      BY <1>1, <1>3
    <3>2. Rank(P, R, x) = Cardinality({y \in P : <<y, x>> \in R})
      BY DEF Rank
    <3>3. Rank(P, R, x) \in Nat
      <4>1. IsFiniteSet({y \in P : <<y, x>> \in R})
        BY FS_Subset
      <4> QED
        BY <3>2, <4>1, FS_CardinalityType
    <3> QED
      BY <1>1, <1>2, <3>1, <3>3
  <2>2. Rank(P, R, x) + 1 \in 1..m
    BY <1>5, <2>1
  <2> QED
    BY <1>4, <2>1, <2>2
<1>9. ExistsBijection(1..m, F)
  <2>1. f \in Bijection(1..m, F)
    BY <1>6, <1>7, <1>8 DEF Bijection, Injection, Surjection, IsInjective
  <2> QED
    BY <2>1 DEF ExistsBijection
<1>10. Cardinality(F) = m
  BY <1>3, <1>9, FS_CountingElements
<1> QED
  BY <1>3, <1>10 DEF F
=============================================================================
