-------------------------- MODULE NumberTheorems --------------------------
(***************************************************************************)
(* Multiples, and induction and recursion over an interval of natural      *)
(* numbers, stated for sets and functions instead of operators so that     *)
(* they can be cited.                                                      *)
(* A recursive function f[n \in 0..N] is the fixed point that CHOOSE picks;*)
(* what it computes can be used only once a fixed point is known to exist. *)
(***************************************************************************)
EXTENDS Integers, WellFoundedInduction, TLAPS

\* A multiple of m that is smaller than m is zero.
LEMMA NoMultiple ==
    ASSUME NEW m \in Nat, m > 0, NEW e \in Int, e * m < m, e * m > -m
    PROVE  e = 0
<1>1. CASE e >= 1
  <2>1. e * m >= 1 * m
    BY <1>1
  <2> QED
    BY <2>1
<1>2. CASE e <= -1
  <2>1. e * m <= (-1) * m
    BY <1>2
  <2> QED
    BY <2>1
<1> QED
  BY <1>1, <1>2

\* A number is a multiple of m and a remainder.
LEMMA Quotient ==
    ASSUME NEW m \in Nat, m > 0, NEW n \in Int
    PROVE  n % m \in 0..(m - 1) /\ \E k \in Int : n = k * m + (n % m)
<1>1. n % m \in 0..(m - 1)
  OBVIOUS
<1>2. PICK k \in Int : n = k * m + (n % m)
  OBVIOUS
<1> QED
  BY <1>1, <1>2

\* n is a multiple of m.
Divides(m, n) == \E k \in Int : n = k * m

\* Multiples are the numbers without a remainder.
LEMMA DividesMod ==
    ASSUME NEW m \in Nat, m > 0, NEW n \in Int
    PROVE  n % m = 0 <=> Divides(m, n)
<1>1. n % m \in 0..(m - 1)
  BY Quotient
<1>2. PICK j \in Int : n = j * m + (n % m)
  BY Quotient
<1>3. ASSUME Divides(m, n) PROVE n % m = 0
  <2>1. PICK k \in Int : n = k * m
    BY <1>3 DEF Divides
  <2>2. (k - j) * m = k * m - j * m /\ k - j \in Int
    OBVIOUS
  <2>3. (k - j) * m = n % m
    BY <1>1, <1>2, <2>1, <2>2
  <2>4. (k - j) * m < m /\ (k - j) * m > -m
    BY <1>1, <2>3
  <2>5. k - j = 0
    BY <2>2, <2>4, NoMultiple
  <2> QED
    BY <2>3, <2>5
<1>4. ASSUME n % m = 0 PROVE Divides(m, n)
  <2>1. n = j * m
    BY <1>2, <1>4
  <2> QED
    BY <2>1 DEF Divides
<1> QED
  BY <1>3, <1>4

LEMMA DividesSum ==
    ASSUME NEW m \in Int, NEW a \in Int, NEW b \in Int, Divides(m, a), Divides(m, b)
    PROVE  Divides(m, a + b)
<1>1. PICK j \in Int : a = j * m
  BY DEF Divides
<1>2. PICK k \in Int : b = k * m
  BY DEF Divides
<1>3. (j + k) * m = j * m + k * m /\ j + k \in Int
  OBVIOUS
<1>4. a + b = (j + k) * m
  BY <1>1, <1>2, <1>3
<1> QED
  BY <1>3, <1>4 DEF Divides

LEMMA DividesTrans ==
    ASSUME NEW l \in Int, NEW m \in Int, NEW n \in Int, Divides(l, m), Divides(m, n)
    PROVE  Divides(l, n)
<1>1. PICK j \in Int : m = j * l
  BY DEF Divides
<1>2. PICK k \in Int : n = k * m
  BY DEF Divides
<1>3. k * (j * l) = (k * j) * l /\ k * j \in Int
  OBVIOUS
<1> QED
  BY <1>1, <1>2, <1>3 DEF Divides
-----------------------------------------------------------------------------
\* A set of natural numbers that is not empty has a least one.
LEMMA LeastNumber ==
    ASSUME NEW T \in SUBSET Nat, T # {}
    PROVE  \E n \in T : \A m \in T : n <= m
<1> DEFINE R == OpToRel(<, Nat)
<1>1. IsWellFoundedOn(R, Nat)
  BY NatLessThanWellFounded
<1>2. \A x, y \in Nat : x < y => <<x, y>> \in R
  BY DEF OpToRel
<1> HIDE DEF R
<1>3. PICK n \in T : \A m \in T : <<m, n>> \notin R
  BY <1>1, WFMin
<1>4. \A m \in T : n \in Nat /\ m \in Nat /\ ~(m < n)
  BY <1>2, <1>3
<1>5. \A m \in T : n <= m
  BY <1>4
<1> QED
  BY <1>5

\* A set of numbers up to N that is not empty has a greatest one.
LEMMA GreatestNumber ==
    ASSUME NEW N \in Nat, NEW T \in SUBSET (0..N), T # {}
    PROVE  \E n \in T : \A m \in T : n >= m
<1> DEFINE U == {x \in 0..N : N - x \in T}
<1>1. U \in SUBSET Nat
  OBVIOUS
<1>2. ASSUME NEW m \in T
      PROVE  m \in 0..N /\ N - m \in 0..N /\ N - (N - m) = m
  BY <1>2
<1>3. \A m \in T : N - m \in U
  BY <1>2
<1>4. U # {}
  BY <1>3
<1>5. \A x \in U : x \in 0..N /\ N - x \in T
  OBVIOUS
<1> HIDE DEF U
<1>6. PICK x \in U : \A y \in U : x <= y
  BY <1>1, <1>4, LeastNumber
<1>7. \A m \in T : m \in 0..N /\ x \in 0..N /\ x <= N - m
  BY <1>2, <1>3, <1>5, <1>6
<1>8. \A m \in T : N - x >= m
  BY <1>7
<1> QED
  BY <1>5, <1>6, <1>8

\* Induction: a set that has 0 and the successors of its members has all.
LEMMA SetInduction ==
    ASSUME NEW N \in Nat, NEW T \in SUBSET Nat, 0 \in T,
           \A n \in 0..(N - 1) : n \in T => n + 1 \in T
    PROVE  0..N \subseteq T
<1> SUFFICES ASSUME ~(0..N \subseteq T)
             PROVE  FALSE
  OBVIOUS
<1> DEFINE U == (0..N) \ T
<1>1. U \in SUBSET Nat /\ U # {}
  OBVIOUS
<1>2. \A u \in U : u \in 0..N /\ u \notin T
  OBVIOUS
<1>3. \A u \in 0..N : u \notin T => u \in U
  OBVIOUS
<1> HIDE DEF U
<1>4. PICK n \in U : \A m \in U : n <= m
  BY <1>1, LeastNumber
<1>5. n \in 1..N /\ n - 1 \in 0..(N - 1) /\ n - 1 \in 0..N
  BY <1>2, <1>4
<1>6. n - 1 \in T
  BY <1>3, <1>4, <1>5
<1>7. (n - 1) + 1 \in T
  BY <1>5, <1>6
<1>8. n \in T
  BY <1>5, <1>7
<1> QED
  BY <1>2, <1>4, <1>8

\* f holds values of S that start with b and go on, up to N, by the table step.
Follows(f, N, S, b, step) ==
    /\ f \in [0..N -> S]
    /\ f[0] = b
    /\ \A n \in 1..N : f[n] = step[<<f[n - 1], n>>]

\* Recursion: whatever the table, there is such a function.
LEMMA RecursiveFunction ==
    ASSUME NEW N \in Nat, NEW S, NEW b \in S, NEW step \in [S \X (1..N) -> S]
    PROVE  \E f : Follows(f, N, S, b, step)
<1> DEFINE Upto(k, f) == f \in [0..k -> S] /\ f[0] = b
                         /\ \A n \in 1..k : f[n] = step[<<f[n - 1], n>>]
           T == {k \in Nat : k <= N => \E f : Upto(k, f)}
<1>1. 0 \in T
  <2> DEFINE g == [i \in 0..0 |-> b]
  <2>1. Upto(0, g)
    OBVIOUS
  <2> QED
    BY <2>1
<1>2. ASSUME NEW k \in 0..(N - 1), k \in T
      PROVE  k + 1 \in T
  <2>1. PICK f : Upto(k, f)
    BY <1>2
  <2> DEFINE y == step[<<f[k], k + 1>>]
             g == [i \in 0..(k + 1) |-> IF i = k + 1 THEN y ELSE f[i]]
  <2>2. k + 1 \in 1..N /\ f[k] \in S /\ y \in S
    BY <2>1
  <2> HIDE DEF y
  <2>3. g \in [0..(k + 1) -> S] /\ g[0] = b
    BY <2>1, <2>2
  <2>4. ASSUME NEW n \in 1..(k + 1)
        PROVE  g[n] = step[<<g[n - 1], n>>]
    <3>1. CASE n = k + 1
      <4>1. k \in 0..(k + 1) /\ k # k + 1 /\ k + 1 \in 0..(k + 1) /\ n - 1 = k
        BY <2>2, <3>1
      <4>2. g[k + 1] = y /\ g[k] = f[k]
        BY <4>1
      <4>3. g[n] = y /\ g[n - 1] = f[k]
        BY <3>1, <4>1, <4>2
      <4> HIDE DEF g
      <4> QED
        BY <3>1, <4>3 DEF y
    <3>2. CASE n \in 1..k
      BY <2>1, <3>2
    <3> QED
      BY <3>1, <3>2
  <2>5. Upto(k + 1, g)
    BY <2>3, <2>4
  <2> HIDE DEF Upto, g
  <2> QED
    BY <2>5
<1>3. T \in SUBSET Nat
  OBVIOUS
<1> HIDE DEF T
<1>4. 0..N \subseteq T
  BY <1>1, <1>2, <1>3, SetInduction
<1>5. N \in T
  BY <1>4
<1> HIDE DEF Upto
<1>6. \E f : Upto(N, f)
  BY <1>5 DEF T
<1> QED
  BY <1>6 DEF Upto, Follows
=============================================================================
