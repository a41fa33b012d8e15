-------------------------- MODULE AggregateProofs --------------------------
(***************************************************************************)
(* Proofs about TypeLayout, for every set of basic types and every way to  *)
(* nest and reuse structs and unions, and about StructMarshal: what sv2ptr *)
(* writes into a block and ptr2sv reads back, for every aggregate that     *)
(* Struct and Union can build and every Perl value.                        *)
(***************************************************************************)
EXTENDS StructMarshal, NumberTheorems, TLAPS

---------------------------------------------------------------------------
\* Layouts.

\* The offset of the next member: the next multiple of its alignment.
LEMMA RoundUpFacts ==
    ASSUME NEW n \in Nat, NEW a \in Nat, a > 0
    PROVE  /\ RoundUp(n, a) \in Nat /\ RoundUp(n, a) >= n /\ RoundUp(n, a) < n + a
           /\ Divides(a, RoundUp(n, a))
<1> DEFINE m == n + a - 1
           q == m \div a
<1>1. m \in Nat /\ q \in Nat /\ m % a \in 0..(a - 1) /\ m = q * a + (m % a)
  OBVIOUS
<1>2. RoundUp(n, a) = q * a
  BY DEF RoundUp
<1> HIDE DEF q
<1>3. q * a \in Nat /\ q * a >= n /\ q * a < n + a
  BY <1>1
<1> QED
  BY <1>1, <1>2, <1>3 DEF Divides

\* The size of an aggregate: padded to the strictest alignment, and never zero.
LEMMA PaddedFacts ==
    ASSUME NEW n \in Nat
    PROVE  /\ Padded(n) \in Nat \ {0} /\ Padded(n) >= n /\ Padded(n) % ByteAlign = 0
           /\ n > 0 => Padded(n) < n + ByteAlign
<1>1. ByteAlign \in Nat /\ ByteAlign > 0
  BY LayoutAssumption
<1> DEFINE r == n % ByteAlign
<1>2. r \in 0..(ByteAlign - 1)
  BY <1>1, Quotient
<1>3. PICK k \in Int : n = k * ByteAlign + r
  BY <1>1, Quotient
<1>4. CASE n = 0
  <2>1. Padded(n) = 1 * ByteAlign
    BY <1>1, <1>4 DEF Padded, padding_needed_for
  <2>2. Divides(ByteAlign, Padded(n))
    BY <2>1 DEF Divides
  <2> QED
    BY <1>1, <1>4, <2>1, <2>2, DividesMod
<1>5. CASE n # 0 /\ r # 0
  <2>1. Padded(n) = n + (ByteAlign - r)
    BY <1>5 DEF Padded, padding_needed_for
  <2> HIDE DEF r
  <2>2. Padded(n) = (k + 1) * ByteAlign /\ k + 1 \in Int
    BY <1>1, <1>2, <1>3, <2>1
  <2>3. Divides(ByteAlign, Padded(n)) /\ Padded(n) \in Int
    BY <1>1, <2>2 DEF Divides
  <2> QED
    BY <1>1, <1>2, <1>5, <2>1, <2>3, DividesMod
<1>6. CASE n # 0 /\ r = 0
  BY <1>1, <1>6 DEF Padded, padding_needed_for
<1> QED
  BY <1>4, <1>5, <1>6

\* Padding pads to the next multiple, as the C rule does.
LEMMA PaddedRoundUp ==
    ASSUME NEW n \in Nat, n > 0
    PROVE  Padded(n) = RoundUp(n, ByteAlign)
<1> DEFINE b == ByteAlign
           x == Padded(n)
           y == RoundUp(n, b)
<1>1. b \in Nat /\ b > 0
  BY LayoutAssumption
<1>2. x \in Nat /\ x >= n /\ x < n + b /\ x % b = 0
  BY PaddedFacts
<1>3. y \in Nat /\ y >= n /\ y < n + b /\ Divides(b, y)
  BY <1>1, RoundUpFacts
<1>4. Divides(b, x)
  BY <1>1, <1>2, DividesMod
<1> HIDE DEF x, y, b
<1>5. PICK i \in Int : x = i * b
  BY <1>4 DEF Divides
<1>6. PICK j \in Int : y = j * b
  BY <1>3 DEF Divides
<1>7. (i - j) * b = i * b - j * b /\ i - j \in Int
  BY <1>1
<1>8. (i - j) * b = x - y
  BY <1>5, <1>6, <1>7
<1>9. (i - j) * b < b /\ (i - j) * b > -b
  BY <1>1, <1>2, <1>3, <1>8
<1>10. i - j = 0
  BY <1>1, <1>7, <1>9, NoMultiple
<1>11. x = y
  BY <1>5, <1>6, <1>10
<1> QED
  BY <1>11 DEF x, y, b

LEMMA PositiveMultiple ==
    ASSUME NEW n \in Nat, n > 0, n % ByteAlign = 0
    PROVE  n >= ByteAlign
<1> DEFINE b == ByteAlign
<1>1. b \in Nat /\ b > 0
  BY LayoutAssumption
<1>2. Divides(b, n)
  BY <1>1, DividesMod
<1> HIDE DEF b
<1>3. PICK k \in Int : n = k * b
  BY <1>2 DEF Divides
<1>4. k >= 1
  <2>1. CASE k <= 0
    <3>1. k * b <= 0
      BY <1>1, <2>1
    <3> QED
      BY <1>3, <3>1
  <2> QED
    BY <2>1
<1>5. k * b >= 1 * b
  BY <1>1, <1>4
<1>6. n >= b
  BY <1>1, <1>3, <1>5
<1> QED
  BY <1>6 DEF b
-----------------------------------------------------------------------------
\* A walk is the function that its recursion describes.
LEMMA StepsUnfold ==
    ASSUME NEW t, NEW p, Len(p) \in Nat
    PROVE  /\ Steps(t, p)[0] = [type |-> t, begin |-> 0, cbegin |-> 0]
           /\ \A n \in 1..Len(p) : Steps(t, p)[n] = Enter(Steps(t, p)[n - 1], p[n])
<1> DEFINE N == Len(p)
           b == [type |-> t, begin |-> 0, cbegin |-> 0]
           Upto(k, f) == /\ f = [i \in 0..k |-> f[i]] /\ f[0] = b
                         /\ \A n \in 1..k : f[n] = Enter(f[n - 1], p[n])
           T == {k \in Nat : k <= N => \E f : Upto(k, f)}
           Body(g) == [n \in 0..N |-> IF n = 0 THEN b ELSE Enter(g[n - 1], p[n])]
<1>1. Steps(t, p) = CHOOSE g : g = Body(g)
  BY Zenon DEF Steps
<1> HIDE DEF N, b
<1>2. N \in Nat
  BY DEF N
<1>3. 0 \in T
  <2> DEFINE g == [i \in 0..0 |-> b]
  <2>1. Upto(0, g)
    OBVIOUS
  <2> QED
    BY <2>1
<1>4. ASSUME NEW k \in 0..(N - 1), k \in T
      PROVE  k + 1 \in T
  <2>1. k <= N /\ k + 1 \in Nat /\ k \in Nat
    BY <1>2
  <2>2. PICK f : Upto(k, f)
    BY <1>4, <2>1
  <2> DEFINE y == Enter(f[k], p[k + 1])
             g == [i \in 0..(k + 1) |-> IF i = k + 1 THEN y ELSE f[i]]
  <2> HIDE DEF y
  <2>3. g[k + 1] = y /\ \A i \in 0..k : g[i] = f[i]
    BY <2>1
  <2>4. g = [i \in 0..(k + 1) |-> g[i]]
    OBVIOUS
  <2> HIDE DEF g
  <2>5. ASSUME NEW n \in 1..(k + 1)
        PROVE  g[n] = Enter(g[n - 1], p[n])
    <3>1. CASE n = k + 1
      <4>1. n - 1 = k /\ k \in 0..k
        BY <2>1, <3>1
      <4>2. g[n] = y /\ g[n - 1] = f[k]
        BY <2>3, <3>1, <4>1
      <4> QED
        BY <3>1, <4>2 DEF y
    <3>2. CASE n \in 1..k
      <4>1. n \in 0..k /\ n - 1 \in 0..k
        BY <2>1, <3>2
      <4> QED
        BY <2>2, <2>3, <3>2, <4>1
    <3> QED
      BY <2>1, <3>1, <3>2
  <2>6. g[0] = b
    BY <2>1, <2>2, <2>3
  <2>7. Upto(k + 1, g)
    BY <2>4, <2>5, <2>6
  <2> HIDE DEF Upto
  <2> QED
    BY <2>1, <2>7
<1>5. T \in SUBSET Nat
  OBVIOUS
<1> HIDE DEF T
<1>6. N \in T
  <2>1. 0..N \subseteq T
    BY <1>2, <1>3, <1>4, <1>5, SetInduction
  <2> QED
    BY <1>2, <2>1
<1>7. PICK g : Upto(N, g)
  BY <1>2, <1>6 DEF T
<1>8. g = Body(g)
  <2>1. g = [i \in 0..N |-> g[i]]
    BY <1>7
  <2>2. \A i \in 0..N : g[i] = IF i = 0 THEN b ELSE Enter(g[i - 1], p[i])
    BY <1>2, <1>7
  <2> QED
    BY <2>1, <2>2
<1> DEFINE c == Steps(t, p)
<1>9. c = Body(c)
  <2> HIDE DEF Body
  <2> QED
    BY <1>1, <1>8, Zenon
<1> HIDE DEF c
<1>10. c[0] = b /\ \A n \in 1..N : c[n] = Enter(c[n - 1], p[n])
  BY <1>2, <1>9
<1> QED
  BY <1>10 DEF c, b, N

\* The beginning of a walk.
LEMMA StepsStart ==
    ASSUME NEW t, NEW p, Len(p) \in Nat
    PROVE  Steps(t, p)[0].type = t /\ Steps(t, p)[0].begin = 0
<1>1. Steps(t, p)[0] = [type |-> t, begin |-> 0, cbegin |-> 0]
  BY StepsUnfold
<1> QED
  BY <1>1

\* The step of a walk from w into its member k, as far as the proofs need it.
Stepped(w, v, k) ==
    /\ k \in DOMAIN w.type.elems =>
          v.type = w.type.elems[k] /\ v.begin = w.begin + v.type.off
    /\ k \notin DOMAIN w.type.elems => v.type = Hole /\ v.begin = w.begin

LEMMA StepFields ==
    ASSUME NEW t, NEW p, Len(p) \in Nat, NEW n \in 1..Len(p)
    PROVE  Stepped(Steps(t, p)[n - 1], Steps(t, p)[n], p[n])
<1>1. Steps(t, p)[n] = Enter(Steps(t, p)[n - 1], p[n])
  BY StepsUnfold
<1> QED
  BY <1>1 DEF Enter, Stepped

\* A path that leads nowhere leads nowhere from there on.
LEMMA HoleStays ==
    ASSUME NEW t, NEW p, Len(p) \in Nat, NEW n \in 1..Len(p),
           p[n] \notin DOMAIN Steps(t, p)[n - 1].type.elems
    PROVE  \A i \in n..Len(p) : Steps(t, p)[i].type = Hole
<1> DEFINE S == Steps(t, p)
           M == Len(p) - n
           T == {j \in Nat : n + j <= Len(p) => S[n + j].type = Hole}
<1>0. M \in Nat /\ n + M = Len(p) /\ n + 0 = n
  OBVIOUS
<1>1. 0 \in T
  <2>1. Stepped(S[n - 1], S[n], p[n])
    BY StepFields
  <2>2. S[n].type = Hole
    BY <2>1 DEF Stepped
  <2> QED
    BY <1>0, <2>2
<1> HIDE DEF M
<1>2. ASSUME NEW j \in 0..(M - 1), j \in T
      PROVE  j + 1 \in T
  <2>1. /\ n + (j + 1) \in 1..Len(p) /\ (n + (j + 1)) - 1 = n + j /\ n + j <= Len(p)
        /\ j + 1 \in Nat
    BY <1>0
  <2>2. S[n + j].type = Hole
    BY <1>2, <2>1
  <2>3. p[n + (j + 1)] \notin DOMAIN S[(n + (j + 1)) - 1].type.elems
    BY <2>1, <2>2 DEF Hole
  <2>4. S[n + (j + 1)].type = Hole
    BY <2>1, <2>3, StepFields DEF Stepped
  <2> QED
    BY <2>1, <2>4
<1>3. T \in SUBSET Nat
  OBVIOUS
<1> HIDE DEF T
<1>4. 0..M \subseteq T
  BY <1>0, <1>1, <1>2, <1>3, SetInduction
<1>5. ASSUME NEW i \in n..Len(p)
      PROVE  S[i].type = Hole
  <2>1. i - n \in 0..M /\ n + (i - n) = i
    BY <1>0
  <2>2. i - n \in T
    BY <1>4, <2>1
  <2> QED
    BY <2>1, <2>2 DEF T
<1> QED
  BY <1>5

\* A walk inside t does not depend on what t itself remembers.
LEMMA SameElems ==
    ASSUME NEW t, NEW s, t.elems = s.elems, NEW p, Len(p) \in Nat
    PROVE  \A n \in 0..Len(p) :
              /\ Steps(t, p)[n].begin = Steps(s, p)[n].begin
              /\ Steps(t, p)[n].type.elems = Steps(s, p)[n].type.elems
              /\ n > 0 => Steps(t, p)[n].type = Steps(s, p)[n].type
<1> DEFINE A == Steps(t, p)
           B == Steps(s, p)
           P(n) == /\ A[n].begin = B[n].begin
                   /\ A[n].type.elems = B[n].type.elems
                   /\ n > 0 => A[n].type = B[n].type
           T == {n \in Nat : n <= Len(p) => P(n)}
<1>1. 0 \in T
  <2>1. A[0].type = t /\ A[0].begin = 0 /\ B[0].type = s /\ B[0].begin = 0
    BY StepsStart
  <2> HIDE DEF A, B
  <2>2. P(0)
    BY <2>1
  <2> HIDE DEF P
  <2> QED
    BY <2>2
<1>2. ASSUME NEW n \in 0..(Len(p) - 1), n \in T
      PROVE  n + 1 \in T
  <2>1. n + 1 \in 1..Len(p) /\ (n + 1) - 1 = n /\ n + 1 \in Nat
    OBVIOUS
  <2>2. P(n)
    BY <1>2
  <2>3. P(n + 1)
    <3>1. CASE p[n + 1] \in DOMAIN A[n].type.elems
      <4>1. A[n + 1].type = A[n].type.elems[p[n + 1]] /\ A[n + 1].begin = A[n].begin + A[n + 1].type.off
        BY <2>1, <3>1, StepFields DEF Stepped
      <4>2. B[n + 1].type = B[n].type.elems[p[n + 1]] /\ B[n + 1].begin = B[n].begin + B[n + 1].type.off
        BY <2>1, <2>2, <3>1, StepFields DEF Stepped
      <4> HIDE DEF A, B
      <4> QED
        BY <2>2, <4>1, <4>2
    <3>2. CASE p[n + 1] \notin DOMAIN A[n].type.elems
      <4>1. A[n + 1].type = Hole /\ A[n + 1].begin = A[n].begin
        BY <2>1, <3>2, StepFields DEF Stepped
      <4>2. B[n + 1].type = Hole /\ B[n + 1].begin = B[n].begin
        BY <2>1, <2>2, <3>2, StepFields DEF Stepped
      <4> HIDE DEF A, B
      <4> QED
        BY <2>2, <4>1, <4>2
    <3> QED
      BY <3>1, <3>2
  <2> HIDE DEF P
  <2> QED
    BY <2>1, <2>3
<1>3. T \in SUBSET Nat
  OBVIOUS
<1> HIDE DEF T
<1>4. 0..Len(p) \subseteq T
  BY <1>1, <1>2, <1>3, SetInduction
<1>5. \A n \in 0..Len(p) : P(n)
  BY <1>4 DEF T
<1> QED
  BY <1>5

\* Path p in t is path q of m positions in s behind a first position, whose member
\* of t is a clone of s.
Behind(t, p, s, q, m) ==
    /\ m \in Nat /\ Len(p) = m + 1 /\ Len(q) = m
    /\ \A j \in 1..m : p[j + 1] = q[j]
    /\ p[1] \in DOMAIN t.elems /\ s.elems = t.elems[p[1]].elems
    /\ t.elems[p[1]].off \in Nat /\ OffsetsAlong(s, q)

\* The walk along p in t has led, after j + 1 steps, to where the walk along q in
\* s led after j, with o bytes before it.
Shifted(t, p, s, q, o, j) ==
    /\ Steps(t, p)[j + 1].type.elems = Steps(s, q)[j].type.elems
    /\ j > 0 => Steps(t, p)[j + 1].type = Steps(s, q)[j].type
    /\ Steps(s, q)[j].begin \in Nat
    /\ Steps(t, p)[j + 1].begin = o + Steps(s, q)[j].begin

\* A walk through member p[1] of t is a walk from that member, moved by its
\* offset.
LEMMA Shift ==
    ASSUME NEW t, NEW s, NEW p, NEW q, NEW m, Behind(t, p, s, q, m)
    PROVE  \A j \in 0..m : Shifted(t, p, s, q, t.elems[p[1]].off, j)
<1> USE DEF Behind
<1> DEFINE A == Steps(t, p)
           B == Steps(s, q)
           o == t.elems[p[1]].off
           P(j) == /\ A[j + 1].type.elems = B[j].type.elems
                   /\ j > 0 => A[j + 1].type = B[j].type
                   /\ B[j].begin \in Nat
                   /\ A[j + 1].begin = o + B[j].begin
           T == {j \in Nat : j <= m => P(j)}
<1>0. Len(p) \in Nat /\ Len(q) \in Nat
  OBVIOUS
<1>1. 0 \in T
  <2>1. 1 \in 1..Len(p) /\ 1 - 1 = 0 /\ 0 + 1 = 1
    OBVIOUS
  <2>2. A[0].type = t /\ A[0].begin = 0 /\ B[0].type = s /\ B[0].begin = 0
    BY <1>0, StepsStart
  <2>3. A[1].type = t.elems[p[1]] /\ A[1].begin = 0 + A[1].type.off
    BY <2>1, <2>2, <1>0, StepFields DEF Stepped
  <2> HIDE DEF A, B
  <2>4. P(0)
    BY <2>1, <2>2, <2>3
  <2> HIDE DEF P
  <2> QED
    BY <2>4
<1>2. ASSUME NEW j \in 0..(m - 1), j \in T
      PROVE  j + 1 \in T
  <2> DEFINE i == j + 1
  <2>1. /\ i + 1 \in 1..Len(p) /\ (i + 1) - 1 = i
        /\ i \in 1..m /\ i \in 1..Len(q) /\ i - 1 = j /\ i \in Nat /\ i > 0
    OBVIOUS
  <2>2. P(j) /\ p[i + 1] = q[i]
    BY <1>2, <2>1
  <2> HIDE DEF i
  <2>3. /\ p[i + 1] \in DOMAIN A[i].type.elems =>
              /\ A[i + 1].type = A[i].type.elems[p[i + 1]]
              /\ A[i + 1].begin = A[i].begin + A[i + 1].type.off
        /\ p[i + 1] \notin DOMAIN A[i].type.elems =>
              A[i + 1].type = Hole /\ A[i + 1].begin = A[i].begin
    <3>1. Stepped(A[(i + 1) - 1], A[i + 1], p[i + 1])
      BY <1>0, <2>1, StepFields
    <3> HIDE DEF A
    <3> QED
      BY <2>1, <3>1 DEF Stepped
  <2>4. /\ q[i] \in DOMAIN B[j].type.elems =>
              /\ B[i].type = B[j].type.elems[q[i]]
              /\ B[i].begin = B[j].begin + B[i].type.off
              /\ B[i].type.off \in Nat
        /\ q[i] \notin DOMAIN B[j].type.elems =>
              B[i].type = Hole /\ B[i].begin = B[j].begin
    <3>1. Stepped(B[i - 1], B[i], q[i])
      BY <1>0, <2>1, StepFields
    <3>2. q[i] \in DOMAIN B[i - 1].type.elems => B[i].type.off \in Nat
      BY <2>1 DEF OffsetsAlong
    <3> HIDE DEF B
    <3> QED
      BY <2>1, <3>1, <3>2 DEF Stepped
  <2>5. A[i].type.elems = B[j].type.elems /\ B[j].begin \in Nat /\ A[i].begin = o + B[j].begin
    BY <2>2 DEF i
  <2> HIDE DEF A, B, o
  <2>6. P(i)
    <3>1. CASE q[i] \in DOMAIN B[j].type.elems
      <4>1. A[i + 1].type = B[i].type
        BY <2>2, <2>3, <2>4, <2>5, <3>1
      <4> DEFINE x == B[i].type.off
                 y == B[j].begin
      <4>2. o \in Nat /\ x \in Nat /\ y \in Nat
        BY <2>4, <2>5, <3>1 DEF o
      <4>3. B[i].begin = y + x /\ A[i + 1].begin = (o + y) + x
        BY <2>2, <2>3, <2>4, <2>5, <3>1, <4>1
      <4> HIDE DEF x, y
      <4>4. y + x \in Nat /\ (o + y) + x = o + (y + x)
        BY <4>2
      <4> QED
        BY <4>1, <4>3, <4>4
    <3>2. CASE q[i] \notin DOMAIN B[j].type.elems
      BY <2>2, <2>3, <2>4, <2>5, <3>2
    <3> QED
      BY <3>1, <3>2
  <2> HIDE DEF P
  <2> QED
    BY <2>1, <2>6 DEF i
<1>3. T \in SUBSET Nat
  OBVIOUS
<1> HIDE DEF T
<1>4. 0..m \subseteq T
  BY <1>1, <1>2, <1>3, SetInduction
<1>5. \A j \in 0..m : P(j)
  BY <1>4 DEF T
<1> QED
  BY <1>5 DEF Shifted
-----------------------------------------------------------------------------
\* The loop of Struct and Union is the function that its recursion describes.
LEMMA TurnsUnfold ==
    ASSUME NEW kind, NEW fs, Len(fs) \in Nat
    PROVE  /\ Turns(kind, fs)[0] = [size |-> 0, align |-> 0, csize |-> 0, store |-> <<>>]
           /\ \A n \in 1..Len(fs) :
                 Turns(kind, fs)[n] = Turn(kind, Turns(kind, fs)[n - 1], TypeOf(fs[n]))
<1> DEFINE N == Len(fs)
           b == [size |-> 0, align |-> 0, csize |-> 0, store |-> <<>>]
           Upto(k, f) == /\ f = [i \in 0..k |-> f[i]] /\ f[0] = b
                         /\ \A n \in 1..k : f[n] = Turn(kind, f[n - 1], TypeOf(fs[n]))
           T == {k \in Nat : k <= N => \E f : Upto(k, f)}
           Body(g) == [n \in 0..N |-> IF n = 0 THEN b ELSE Turn(kind, g[n - 1], TypeOf(fs[n]))]
<1>1. Turns(kind, fs) = CHOOSE g : g = Body(g)
  BY Zenon DEF Turns
<1> HIDE DEF N, b
<1>2. N \in Nat
  BY DEF N
<1>3. 0 \in T
  <2> DEFINE g == [i \in 0..0 |-> b]
  <2>1. Upto(0, g)
    OBVIOUS
  <2> QED
    BY <2>1
<1>4. ASSUME NEW k \in 0..(N - 1), k \in T
      PROVE  k + 1 \in T
  <2>1. k <= N /\ k + 1 \in Nat /\ k \in Nat
    BY <1>2
  <2>2. PICK f : Upto(k, f)
    BY <1>4, <2>1
  <2> DEFINE y == Turn(kind, f[k], TypeOf(fs[k + 1]))
             g == [i \in 0..(k + 1) |-> IF i = k + 1 THEN y ELSE f[i]]
  <2> HIDE DEF y
  <2>3. g[k + 1] = y /\ \A i \in 0..k : g[i] = f[i]
    BY <2>1
  <2>4. g = [i \in 0..(k + 1) |-> g[i]]
    OBVIOUS
  <2> HIDE DEF g
  <2>5. ASSUME NEW n \in 1..(k + 1)
        PROVE  g[n] = Turn(kind, g[n - 1], TypeOf(fs[n]))
    <3>1. CASE n = k + 1
      <4>1. n - 1 = k /\ k \in 0..k
        BY <2>1, <3>1
      <4>2. g[n] = y /\ g[n - 1] = f[k]
        BY <2>3, <3>1, <4>1
      <4> QED
        BY <3>1, <4>2 DEF y
    <3>2. CASE n \in 1..k
      <4>1. n \in 0..k /\ n - 1 \in 0..k
        BY <2>1, <3>2
      <4> QED
        BY <2>2, <2>3, <3>2, <4>1
    <3> QED
      BY <2>1, <3>1, <3>2
  <2>6. g[0] = b
    BY <2>1, <2>2, <2>3
  <2>7. Upto(k + 1, g)
    BY <2>4, <2>5, <2>6
  <2> HIDE DEF Upto
  <2> QED
    BY <2>1, <2>7
<1>5. T \in SUBSET Nat
  OBVIOUS
<1> HIDE DEF T
<1>6. N \in T
  <2>1. 0..N \subseteq T
    BY <1>2, <1>3, <1>4, <1>5, SetInduction
  <2> QED
    BY <1>2, <2>1
<1>7. PICK g : Upto(N, g)
  BY <1>2, <1>6 DEF T
<1>8. g = Body(g)
  <2>1. g = [i \in 0..N |-> g[i]]
    BY <1>7
  <2>2. \A i \in 0..N : g[i] = IF i = 0 THEN b ELSE Turn(kind, g[i - 1], TypeOf(fs[i]))
    BY <1>2, <1>7
  <2> QED
    BY <2>1, <2>2
<1> DEFINE c == Turns(kind, fs)
<1>9. c = Body(c)
  <2> HIDE DEF Body
  <2> QED
    BY <1>1, <1>8, Zenon
<1> HIDE DEF c
<1>10. c[0] = b /\ \A n \in 1..N : c[n] = Turn(kind, c[n - 1], TypeOf(fs[n]))
  BY <1>2, <1>9
<1> QED
  BY <1>10 DEF c, b, N

\* A type that can become a member: a basic type, or an aggregate.
MemberOK(t) ==
    /\ t \in [kind : {"base", "struct", "union"}, size : Nat \ {0},
              align : Base \cup {ByteAlign}, off : Nat, elems : {t.elems},
              csize : {t.csize}, calign : {t.calign}, coff : {t.coff}]
    /\ t.kind = "base" =>
          /\ t.elems = <<>> /\ t.align = t.size /\ t.size \in Base
          /\ t.csize = t.size /\ t.calign = t.align
    /\ t.kind # "base" => Shape(t)

\* What a clone keeps of the type it was made from.
Clone(t, e) ==
    /\ e.kind = t.kind /\ e.size = t.size /\ e.align = t.align /\ e.elems = t.elems
    /\ e.csize = t.csize /\ e.calign = t.calign

\* The member e that was made of type t lies inside the first `size' bytes.
Placed(t, e, size) ==
    /\ Clone(t, e)
    /\ e.off \in Nat /\ e.size \in Nat
    /\ Divides(t.align, e.off)
    /\ e.off + e.size <= size

IsSeq(q) == \E U : q \in Seq(U)

\* The first n members have the size and the alignment of the C ABI.
AsInC(fs, n) ==
    \A k \in 1..n : TypeOf(fs[k]).size = TypeOf(fs[k]).csize
                    /\ TypeOf(fs[k]).align = TypeOf(fs[k]).calign

\* What n turns of the loop have computed, a.
LoopOK(kind, fs, n, a) ==
    /\ a.size \in Nat
    /\ IsSeq(a.store)
    /\ Len(a.store) = n
    /\ \A k \in 1..n : Placed(TypeOf(fs[k]), a.store[k], a.size)
    /\ kind = "struct" =>
          /\ n > 0 => a.align = ByteAlign
          /\ \A k, l \in 1..n : k < l => a.store[k].off + a.store[k].size <= a.store[l].off
    /\ n = 0 => a.size = 0
    /\ kind = "union" => \A k \in 1..n : a.store[k].off = 0
    /\ kind = "union" /\ n > 0 =>
          \E w \in 1..n : a.align = TypeOf(fs[w]).align /\ a.size = TypeOf(fs[w]).size
    /\ AsInC(fs, n) => a.size = a.csize /\ \A k \in 1..n : a.store[k].off = a.store[k].coff

\* Append, for a sequence of anything.
LEMMA AppendAny ==
    ASSUME NEW q, IsSeq(q), NEW e
    PROVE  /\ IsSeq(Append(q, e))
           /\ Len(q) \in Nat /\ Len(Append(q, e)) = Len(q) + 1
           /\ \A i \in 1..Len(q) : Append(q, e)[i] = q[i]
           /\ Append(q, e)[Len(q) + 1] = e
<1>1. PICK U : q \in Seq(U)
  BY DEF IsSeq
<1>2. q \in [1..Len(q) -> U] /\ Len(q) \in Nat
  BY <1>1
<1>3. q \in Seq(U \cup {e})
  BY <1>2
<1>4. Append(q, e) \in Seq(U \cup {e})
  BY <1>3
<1> QED
  BY <1>1, <1>3, <1>4 DEF IsSeq

\* The clone that a turn of the loop stores.
LEMMA CloneFacts ==
    ASSUME NEW t, MemberOK(t), NEW o, NEW c
    PROVE  /\ Clone(t, [t EXCEPT !.off = o, !.coff = c])
           /\ [t EXCEPT !.off = o, !.coff = c].off = o
  BY DEF MemberOK, Clone

LEMMA MemberTypes ==
    ASSUME NEW t, MemberOK(t)
    PROVE  /\ t.size \in Nat /\ t.size > 0 /\ t.align \in Nat /\ t.align > 0
           /\ t.align \in Base \cup {ByteAlign}
  BY LayoutAssumption DEF MemberOK

\* One turn of Struct's loop.
LEMMA AddFieldKeeps ==
    ASSUME NEW fs, NEW n \in Nat, NEW a, LoopOK("struct", fs, n, a),
           MemberOK(TypeOf(fs[n + 1]))
    PROVE  LoopOK("struct", fs, n + 1, AddField(a, TypeOf(fs[n + 1])))
<1> DEFINE t == TypeOf(fs[n + 1])
           o == RoundUp(a.size, t.align)
           e == [t EXCEPT !.off = o, !.coff = RoundUp(a.csize, t.calign)]
           b == AddField(a, t)
<1>1. /\ b.size = o + t.size /\ b.align = ByteAlign /\ b.store = Append(a.store, e)
      /\ b.csize = RoundUp(a.csize, t.calign) + t.csize
  BY DEF AddField
<1>2. MemberOK(t)
  OBVIOUS
<1> HIDE DEF t
<1>3. /\ a.size \in Nat /\ t.size \in Nat /\ t.align \in Nat /\ t.align > 0
  BY <1>2, MemberTypes DEF LoopOK
<1>4. o \in Nat /\ o >= a.size /\ Divides(t.align, o)
  BY <1>3, RoundUpFacts
<1>5. /\ Clone(t, e) /\ e.off = o /\ e.size = t.size
      /\ e.coff = RoundUp(a.csize, t.calign)
  <2>1. Clone(t, e) /\ e.off = o
    BY <1>2, CloneFacts
  <2>2. e.coff = RoundUp(a.csize, t.calign)
    BY <1>2 DEF MemberOK
  <2> QED
    BY <2>1, <2>2 DEF Clone
<1> HIDE DEF o, e, b
<1>6. /\ IsSeq(b.store)
      /\ Len(b.store) = n + 1
      /\ \A k \in 1..n : b.store[k] = a.store[k]
      /\ b.store[n + 1] = e
  <2>1. Len(a.store) = n /\ IsSeq(a.store)
    BY DEF LoopOK
  <2> QED
    BY <1>1, <2>1, AppendAny
<1>7. b.size \in Nat /\ a.size <= b.size
  BY <1>1, <1>3, <1>4
<1>8. ASSUME NEW k \in 1..n
      PROVE  /\ Placed(TypeOf(fs[k]), b.store[k], b.size)
             /\ b.store[k].off + b.store[k].size <= e.off
  <2>1. Placed(TypeOf(fs[k]), a.store[k], a.size) /\ b.store[k] = a.store[k]
    BY <1>6 DEF LoopOK
  <2> HIDE DEF t
  <2> QED
    BY <1>3, <1>4, <1>5, <1>7, <2>1 DEF Placed
<1>9. Placed(t, e, b.size)
  BY <1>1, <1>3, <1>4, <1>5 DEF Placed
<1>10. \A k \in 1..(n + 1) : k \in 1..n \/ k = n + 1
  OBVIOUS
<1>11. \A k \in 1..(n + 1) : Placed(TypeOf(fs[k]), b.store[k], b.size)
  BY <1>6, <1>8, <1>9, <1>10 DEF t
<1>12. ASSUME NEW k \in 1..(n + 1), NEW l \in 1..(n + 1), k < l
       PROVE  b.store[k].off + b.store[k].size <= b.store[l].off
  <2>1. k \in 1..n
    BY <1>12
  <2>2. CASE l = n + 1
    BY <1>6, <1>8, <2>1, <2>2
  <2>3. CASE l \in 1..n
    BY <1>6, <1>12, <2>1, <2>3 DEF LoopOK
  <2> QED
    BY <1>10, <2>2, <2>3
<1>13. ASSUME AsInC(fs, n + 1)
       PROVE  b.size = b.csize /\ \A k \in 1..(n + 1) : b.store[k].off = b.store[k].coff
  <2>1. t.size = t.csize /\ t.align = t.calign /\ AsInC(fs, n)
    BY <1>10, <1>13 DEF AsInC, t
  <2>2. a.size = a.csize /\ \A k \in 1..n : a.store[k].off = a.store[k].coff
    BY <2>1 DEF LoopOK
  <2>3. RoundUp(a.csize, t.calign) = o
    BY <2>1, <2>2 DEF o
  <2> QED
    BY <1>1, <1>5, <1>6, <1>10, <2>1, <2>2, <2>3
<1> QED
  BY <1>1, <1>6, <1>7, <1>11, <1>12, <1>13 DEF LoopOK, b, t

\* One turn of Union's loop.
LEMMA AddMemberKeeps ==
    ASSUME NEW fs, NEW n \in Nat, NEW a, LoopOK("union", fs, n, a),
           MemberOK(TypeOf(fs[n + 1]))
    PROVE  LoopOK("union", fs, n + 1, AddMember(a, TypeOf(fs[n + 1])))
<1> DEFINE t == TypeOf(fs[n + 1])
           e == [t EXCEPT !.off = 0, !.coff = 0]
           b == AddMember(a, t)
<1>1. /\ b.size = IF a.size < t.size THEN t.size ELSE a.size
      /\ b.align = IF a.size < t.size THEN t.align ELSE a.align
      /\ b.store = Append(a.store, e)
      /\ b.csize = IF a.csize < t.csize THEN t.csize ELSE a.csize
  BY DEF AddMember
<1>2. MemberOK(t)
  OBVIOUS
<1> HIDE DEF t
<1>3. /\ a.size \in Nat /\ t.size \in Nat /\ t.size > 0 /\ t.align \in Nat
  BY <1>2, MemberTypes DEF LoopOK
<1>4. Divides(t.align, 0)
  <2>1. 0 = 0 * t.align
    BY <1>3
  <2> QED
    BY <2>1 DEF Divides
<1>5. Clone(t, e) /\ e.off = 0 /\ e.size = t.size /\ e.coff = 0
  <2>1. Clone(t, e) /\ e.off = 0
    BY <1>2, CloneFacts
  <2>2. e.coff = 0
    BY <1>2 DEF MemberOK
  <2> QED
    BY <2>1, <2>2 DEF Clone
<1> HIDE DEF e, b
<1>6. /\ IsSeq(b.store)
      /\ Len(b.store) = n + 1
      /\ \A k \in 1..n : b.store[k] = a.store[k]
      /\ b.store[n + 1] = e
  <2>1. Len(a.store) = n /\ IsSeq(a.store)
    BY DEF LoopOK
  <2> QED
    BY <1>1, <2>1, AppendAny
<1>7. b.size \in Nat /\ a.size <= b.size /\ t.size <= b.size
  BY <1>1, <1>3
<1>8. ASSUME NEW k \in 1..n
      PROVE  Placed(TypeOf(fs[k]), b.store[k], b.size)
  <2>1. Placed(TypeOf(fs[k]), a.store[k], a.size) /\ b.store[k] = a.store[k]
    BY <1>6 DEF LoopOK
  <2> QED
    BY <1>3, <1>7, <2>1 DEF Placed
<1>9. Placed(t, e, b.size)
  BY <1>3, <1>4, <1>5, <1>7 DEF Placed
<1>10. \A k \in 1..(n + 1) : k \in 1..n \/ k = n + 1
  OBVIOUS
<1>11. \A k \in 1..(n + 1) : Placed(TypeOf(fs[k]), b.store[k], b.size)
  BY <1>6, <1>8, <1>9, <1>10 DEF t
<1>12. \E w \in 1..(n + 1) : b.align = TypeOf(fs[w]).align /\ b.size = TypeOf(fs[w]).size
  <2>1. CASE a.size < t.size
    <3>1. b.align = t.align /\ b.size = t.size /\ n + 1 \in 1..(n + 1)
      BY <1>1, <2>1
    <3> QED
      BY <3>1 DEF t
  <2>2. CASE ~(a.size < t.size)
    <3>1. b.align = a.align /\ b.size = a.size /\ a.size > 0
      BY <1>1, <1>3, <2>2
    <3>2. n > 0
      <4>1. CASE n = 0
        <5>1. a.size = 0
          BY <4>1 DEF LoopOK
        <5> QED
          BY <3>1, <5>1
      <4> QED
        BY <4>1
    <3>3. PICK w \in 1..n : a.align = TypeOf(fs[w]).align /\ a.size = TypeOf(fs[w]).size
      BY <3>2 DEF LoopOK
    <3>4. w \in 1..(n + 1)
      OBVIOUS
    <3> QED
      BY <3>1, <3>3, <3>4
  <2> QED
    BY <2>1, <2>2
<1>13. \A k \in 1..(n + 1) : b.store[k].off = 0
  <2>1. \A k \in 1..n : a.store[k].off = 0
    BY DEF LoopOK
  <2> QED
    BY <1>5, <1>6, <1>10, <2>1
<1>14. ASSUME AsInC(fs, n + 1)
       PROVE  b.size = b.csize /\ \A k \in 1..(n + 1) : b.store[k].off = b.store[k].coff
  <2>1. t.size = t.csize /\ AsInC(fs, n)
    BY <1>10, <1>14 DEF AsInC, t
  <2>2. a.size = a.csize /\ \A k \in 1..n : a.store[k].off = a.store[k].coff
    BY <2>1 DEF LoopOK
  <2>3. b.size = b.csize
    BY <1>1, <2>1, <2>2
  <2> QED
    BY <1>5, <1>6, <1>10, <2>2, <2>3
<1> QED
  BY <1>6, <1>7, <1>11, <1>12, <1>13, <1>14 DEF LoopOK, b, t

\* The whole loop.
LEMMA LoopFacts ==
    ASSUME NEW kind \in {"struct", "union"}, NEW fs, Len(fs) \in Nat,
           \A k \in 1..Len(fs) : MemberOK(TypeOf(fs[k]))
    PROVE  LoopOK(kind, fs, Len(fs), Loop(kind, fs))
<1> DEFINE A == Turns(kind, fs)
           T == {n \in Nat : n <= Len(fs) => LoopOK(kind, fs, n, A[n])}
<1>1. 0 \in T
  <2>1. A[0].size = 0 /\ A[0].csize = 0 /\ A[0].store = <<>>
    BY TurnsUnfold
  <2> HIDE DEF A
  <2>2. IsSeq(A[0].store) /\ Len(A[0].store) = 0
    BY <2>1 DEF IsSeq
  <2>3. LoopOK(kind, fs, 0, A[0])
    BY <2>1, <2>2 DEF LoopOK
  <2> QED
    BY <2>3
<1>2. ASSUME NEW n \in 0..(Len(fs) - 1), n \in T
      PROVE  n + 1 \in T
  <2>1. n + 1 \in 1..Len(fs) /\ (n + 1) - 1 = n /\ n + 1 \in Nat /\ n \in Nat
    OBVIOUS
  <2>2. LoopOK(kind, fs, n, A[n]) /\ MemberOK(TypeOf(fs[n + 1]))
    BY <1>2, <2>1
  <2>3. A[n + 1] = Turn(kind, A[n], TypeOf(fs[n + 1]))
    BY <2>1, TurnsUnfold
  <2> HIDE DEF A
  <2>4. LoopOK(kind, fs, n + 1, A[n + 1])
    BY <2>1, <2>2, <2>3, AddFieldKeeps, AddMemberKeeps DEF Turn
  <2> QED
    BY <2>1, <2>4
<1>3. T \in SUBSET Nat
  OBVIOUS
<1> HIDE DEF T
<1>4. 0..Len(fs) \subseteq T
  BY <1>1, <1>2, <1>3, SetInduction
<1>5. LoopOK(kind, fs, Len(fs), A[Len(fs)])
  BY <1>4 DEF T
<1> QED
  BY <1>5 DEF Loop
-----------------------------------------------------------------------------
\* A function on 1..n is a sequence of length n.
LEMMA FunctionSeq ==
    ASSUME NEW S, NEW n \in Nat, NEW p \in [1..n -> S]
    PROVE  p \in Seq(S) /\ Len(p) = n
<1>1. p \in Seq(S)
  OBVIOUS
<1>2. DOMAIN p = 1..n /\ DOMAIN p = 1..Len(p) /\ Len(p) \in Nat
  BY <1>1
<1> QED
  BY <1>1, <1>2

LEMMA PathFacts ==
    ASSUME NEW p \in AllPaths
    PROVE  Len(p) \in 1..MaxTypes /\ p \in [1..Len(p) -> 1..MaxFields]
<1>1. PICK n \in 1..MaxTypes : p \in [1..n -> 1..MaxFields]
  BY DEF AllPaths
<1>2. n \in Nat
  BY LayoutAssumption
<1>3. p \in Seq(1..MaxFields) /\ Len(p) = n
  BY <1>1, <1>2, FunctionSeq
<1> QED
  BY <1>1, <1>3

\* The rest of a path behind its first position.
Rest(p) == [j \in 1..(Len(p) - 1) |-> p[j + 1]]

LEMMA RestFacts ==
    ASSUME NEW p \in AllPaths, Len(p) > 1
    PROVE  /\ Rest(p) \in AllPaths /\ Len(Rest(p)) = Len(p) - 1
           /\ \A j \in 1..(Len(p) - 1) : Rest(p)[j] = p[j + 1]
<1> DEFINE m == Len(p) - 1
<1>1. Len(p) \in 1..MaxTypes /\ p \in [1..Len(p) -> 1..MaxFields]
  BY PathFacts
<1>2. m \in 1..MaxTypes /\ m \in Nat /\ \A j \in 1..m : j + 1 \in 1..Len(p)
  BY <1>1, LayoutAssumption
<1>3. Rest(p) = [j \in 1..m |-> p[j + 1]]
  BY DEF Rest
<1> HIDE DEF m
<1>4. Rest(p) \in [1..m -> 1..MaxFields]
  BY <1>1, <1>2, <1>3
<1>5. Rest(p) \in AllPaths
  BY <1>2, <1>4 DEF AllPaths
<1>6. Rest(p) \in Seq(1..MaxFields) /\ Len(Rest(p)) = m
  BY <1>2, <1>4, FunctionSeq
<1>7. \A j \in 1..m : Rest(p)[j] = p[j + 1]
  BY <1>3
<1> QED
  BY <1>5, <1>6, <1>7 DEF m

\* A path with a new first position.
Prefixed(k, q) == [j \in 1..(Len(q) + 1) |-> IF j = 1 THEN k ELSE q[j - 1]]

LEMMA PrefixedFacts ==
    ASSUME NEW q \in AllPaths, Len(q) < MaxTypes, NEW k \in 1..MaxFields
    PROVE  /\ Prefixed(k, q) \in AllPaths /\ Len(Prefixed(k, q)) = Len(q) + 1
           /\ Prefixed(k, q)[1] = k /\ Rest(Prefixed(k, q)) = q
<1> DEFINE m == Len(q) + 1
           p == Prefixed(k, q)
<1>1. Len(q) \in 1..MaxTypes /\ q \in [1..Len(q) -> 1..MaxFields]
  BY PathFacts
<1>2. m \in 1..MaxTypes /\ m \in Nat /\ \A j \in 1..m : j # 1 => j - 1 \in 1..Len(q)
  BY <1>1, LayoutAssumption
<1>3. p = [j \in 1..m |-> IF j = 1 THEN k ELSE q[j - 1]]
  BY DEF Prefixed
<1> HIDE DEF p
<1>4. p \in [1..m -> 1..MaxFields]
  BY <1>1, <1>2, <1>3
<1>5. p \in AllPaths
  BY <1>2, <1>4 DEF AllPaths
<1>6. p \in Seq(1..MaxFields) /\ Len(p) = m
  BY <1>2, <1>4, FunctionSeq
<1>7. p[1] = k
  BY <1>1, <1>3
<1>8. Rest(p) = q
  <2>1. m - 1 = Len(q)
    BY <1>1
  <2>2. \A j \in 1..Len(q) : j + 1 \in 1..m /\ j + 1 # 1 /\ (j + 1) - 1 = j
    BY <1>1
  <2>3. \A j \in 1..Len(q) : p[j + 1] = q[j]
    BY <1>3, <2>2
  <2>4. Rest(p) = [j \in 1..Len(q) |-> q[j]]
    BY <1>6, <2>1, <2>3 DEF Rest
  <2> QED
    BY <1>1, <2>4
<1> QED
  BY <1>5, <1>6, <1>7, <1>8 DEF p
-----------------------------------------------------------------------------
\* A type that is fit to become a member of the aggregate made after d others.
Sound(s, d) == MemberOK(s) /\ (s.kind # "base" => \E j \in 1..d : WellLaid(s, j))

\* t is an aggregate whose member k is a clone of S[k].
Composed(t, S, d) ==
    /\ d \in Nat /\ d < MaxTypes
    /\ Shape(t)
    /\ \A k \in DOMAIN t.elems : Sound(S[k], d) /\ Placed(S[k], t.elems[k], t.size)
    /\ t.kind = "struct" =>
          \A k, l \in DOMAIN t.elems :
              k < l => t.elems[k].off + t.elems[k].size <= t.elems[l].off
    /\ t.kind = "union" =>
          \E w \in DOMAIN t.elems :
              t.align = S[w].align /\ \A k \in DOMAIN t.elems : S[k].size <= S[w].size
    /\ AtZero(t)
    /\ t.calign = Max({S[k].calign : k \in DOMAIN t.elems})
    /\ (\A k \in DOMAIN t.elems : S[k].size = S[k].csize /\ S[k].align = S[k].calign) =>
          /\ \A k \in DOMAIN t.elems : t.elems[k].off = t.elems[k].coff
          /\ t.calign = ByteAlign => t.size = t.csize

\* The first step of a path.
LEMMA FirstStep ==
    ASSUME NEW t, NEW p \in AllPaths
    PROVE  /\ Steps(t, p)[0].type = t
           /\ p[1] \notin DOMAIN t.elems => \A i \in 1..Len(p) : Steps(t, p)[i].type = Hole
           /\ p[1] \in DOMAIN t.elems /\ t.elems[p[1]].off \in Nat =>
                 /\ Steps(t, p)[1].type = t.elems[p[1]]
                 /\ Steps(t, p)[1].begin = t.elems[p[1]].off
<1>1. Len(p) \in Nat /\ 1 \in 1..Len(p) /\ 1 - 1 = 0
  BY PathFacts
<1>2. Steps(t, p)[0].type = t /\ Steps(t, p)[0].begin = 0
  BY <1>1, StepsStart
<1>3. p[1] \notin DOMAIN t.elems => \A i \in 1..Len(p) : Steps(t, p)[i].type = Hole
  BY <1>1, <1>2, HoleStays
<1>4. Stepped(Steps(t, p)[0], Steps(t, p)[1], p[1])
  BY <1>1, StepFields
<1> QED
  BY <1>2, <1>3, <1>4 DEF Stepped

\* A walk along p in t that is, from its second step on, the walk along q in s,
\* with o bytes before it.
Moved(t, p, s, q, o) ==
    \A j \in 0..Len(q) :
        /\ Steps(t, p)[j + 1].type.elems = Steps(s, q)[j].type.elems
        /\ Steps(t, p)[j + 1].type.kind = Steps(s, q)[j].type.kind
        /\ j > 0 => Steps(t, p)[j + 1].type = Steps(s, q)[j].type
        /\ Steps(s, q)[j].begin \in Nat
        /\ Steps(t, p)[j + 1].begin = o + Steps(s, q)[j].begin

LEMMA ThroughMember ==
    ASSUME NEW t, NEW S, NEW d, Composed(t, S, d),
           NEW p \in AllPaths, Len(p) > 1, p[1] \in DOMAIN t.elems, S[p[1]].kind # "base"
    PROVE  Moved(t, p, S[p[1]], Rest(p), t.elems[p[1]].off)
<1> DEFINE k == p[1]
           s == S[k]
           q == Rest(p)
           m == Len(q)
           e == t.elems[k]
<1>1. Sound(s, d) /\ Placed(s, e, t.size)
  BY DEF Composed
<1>2. e.elems = s.elems /\ e.kind = s.kind /\ e.off \in Nat
  BY <1>1 DEF Placed, Clone
<1>3. q \in AllPaths /\ m = Len(p) - 1 /\ \A j \in 1..(Len(p) - 1) : q[j] = p[j + 1]
  BY RestFacts
<1>4. Len(p) \in Nat
  BY PathFacts
<1>5. m \in Nat /\ Len(p) = m + 1 /\ \A j \in 1..m : p[j + 1] = q[j]
  BY <1>3, <1>4
<1>6. PICK i \in 1..d : WellLaid(s, i)
  BY <1>1 DEF Sound
<1>7. OffsetsAlong(s, q)
  BY <1>3, <1>6 DEF WellLaid, Numbered
<1>8. \A j \in 0..m : Shifted(t, p, s, q, e.off, j)
  <2>1. Behind(t, p, s, q, m)
    BY <1>2, <1>5, <1>7 DEF Behind
  <2> QED
    BY <2>1, Shift
<1>9. \A j \in 0..m : Steps(t, p)[j + 1].type.kind = Steps(s, q)[j].type.kind
  <2>1. Steps(t, p)[0 + 1].type = e
    BY <1>2, FirstStep
  <2>2. Steps(s, q)[0].type = s
    BY <1>3, FirstStep
  <2> HIDE DEF m, q, s, e
  <2> QED
    BY <1>2, <1>5, <1>8, <2>1, <2>2 DEF Shifted
<1> QED
  BY <1>8, <1>9 DEF Moved, Shifted

\* Path p leads to a member of t, or into the member of t that is a clone of s.
Direct(t, p) ==
    Len(p) = 1 /\ Follow(t, p) = t.elems[p[1]] /\ Beginning(t, p) = t.elems[p[1]].off

Nested(t, p, s) ==
    /\ Len(p) > 1 /\ s.kind # "base"
    /\ Rest(p) \in AllPaths /\ Len(Rest(p)) = Len(p) - 1
    /\ Follow(t, p) = Follow(s, Rest(p))
    /\ Beginning(s, Rest(p)) \in Nat
    /\ Beginning(t, p) = t.elems[p[1]].off + Beginning(s, Rest(p))

\* Where a path in a composed type leads to.
LEMMA Destination ==
    ASSUME NEW t, NEW S, NEW d, Composed(t, S, d), NEW p \in AllPaths
    PROVE  \/ Follow(t, p) = Hole
           \/ p[1] \in DOMAIN t.elems /\ (Direct(t, p) \/ Nested(t, p, S[p[1]]))
<1> DEFINE k == p[1]
           s == S[k]
           e == t.elems[k]
<1>1. Len(p) \in Nat /\ Len(p) >= 1
  BY PathFacts
<1>2. CASE k \notin DOMAIN t.elems
  <2>1. Steps(t, p)[Len(p)].type = Hole
    BY <1>1, <1>2, FirstStep
  <2> QED
    BY <2>1 DEF Follow, Walk
<1>3. CASE k \in DOMAIN t.elems
  <2>1. MemberOK(s) /\ e.off \in Nat /\ e.elems = s.elems
    BY <1>3 DEF Composed, Sound, Placed, Clone
  <2>2. Steps(t, p)[1].type = e /\ Steps(t, p)[1].begin = e.off
    BY <1>3, <2>1, FirstStep
  <2>3. CASE Len(p) = 1
    BY <1>3, <2>2, <2>3 DEF Direct, Follow, Beginning, Walk
  <2>4. CASE Len(p) > 1 /\ s.kind = "base"
    <3>1. DOMAIN Steps(t, p)[2 - 1].type.elems = {} /\ 2 \in 1..Len(p)
      BY <1>1, <2>1, <2>2, <2>4 DEF MemberOK
    <3>2. Steps(t, p)[Len(p)].type = Hole
      BY <1>1, <3>1, HoleStays
    <3> QED
      BY <3>2 DEF Follow, Walk
  <2>5. CASE Len(p) > 1 /\ s.kind # "base"
    <3> DEFINE q == Rest(p)
    <3>1. Moved(t, p, s, q, e.off)
      BY <1>3, <2>5, ThroughMember
    <3>2. q \in AllPaths /\ Len(q) = Len(p) - 1
      BY <2>5, RestFacts
    <3> HIDE DEF q
    <3>3. Len(q) \in 0..Len(q) /\ Len(q) > 0 /\ Len(q) + 1 = Len(p)
      BY <1>1, <2>5, <3>2
    <3>4. /\ Follow(t, p) = Follow(s, q) /\ Beginning(s, q) \in Nat
          /\ Beginning(t, p) = e.off + Beginning(s, q)
      BY <3>1, <3>3 DEF Moved, Follow, Beginning, Walk
    <3> QED
      BY <1>3, <2>5, <3>2, <3>4 DEF Nested, q
  <2>6. Len(p) = 1 \/ Len(p) > 1
    BY <1>1
  <2> QED
    BY <2>3, <2>4, <2>5, <2>6
<1> QED
  BY <1>2, <1>3

\* What a basic member of a composed type is: a member, or a basic member of one.
LeafIn(t, p, s) ==
    /\ p[1] \in DOMAIN t.elems
    /\ \/ /\ Direct(t, p) /\ s.kind = "base"
          /\ Follow(t, p).align = s.align /\ Follow(t, p).size = s.size
          /\ Follow(t, p).elems = s.elems
       \/ Nested(t, p, s) /\ Rest(p) \in Leaves(s)

LEMMA LeafCases ==
    ASSUME NEW t, NEW S, NEW d, Composed(t, S, d), NEW p \in Leaves(t)
    PROVE  LeafIn(t, p, S[p[1]])
<1> DEFINE s == S[p[1]]
<1>1. p \in AllPaths /\ Follow(t, p).kind = "base" /\ Follow(t, p) # Hole
  BY DEF Leaves, Hole
<1>2. p[1] \in DOMAIN t.elems /\ (Direct(t, p) \/ Nested(t, p, s))
  BY <1>1, Destination
<1>3. CASE Direct(t, p)
  <2>1. Clone(s, t.elems[p[1]])
    BY <1>2 DEF Composed, Placed
  <2> QED
    BY <1>1, <1>2, <1>3, <2>1 DEF LeafIn, Direct, Clone
<1>4. CASE Nested(t, p, s)
  BY <1>1, <1>2, <1>4 DEF LeafIn, Nested, Leaves
<1> QED
  BY <1>2, <1>3, <1>4

\* A basic member lies inside the member that it is part of.
LEMMA LeafBounds ==
    ASSUME NEW t, NEW S, NEW d, Composed(t, S, d), NEW p \in Leaves(t)
    PROVE  /\ p[1] \in DOMAIN t.elems
           /\ Follow(t, p).align \in Base /\ Follow(t, p).size \in Nat
           /\ Follow(t, p).size \in Base /\ Follow(t, p).elems = <<>>
           /\ Beginning(t, p) \in Nat
           /\ t.elems[p[1]].off \in Nat /\ t.elems[p[1]].size \in Nat
           /\ t.elems[p[1]].off <= Beginning(t, p)
           /\ End(t, p) <= t.elems[p[1]].off + t.elems[p[1]].size
<1> DEFINE s == S[p[1]]
           e == t.elems[p[1]]
           q == Rest(p)
<1>1. LeafIn(t, p, s) /\ p[1] \in DOMAIN t.elems
  BY LeafCases DEF LeafIn
<1>2. Sound(s, d) /\ Placed(s, e, t.size)
  BY <1>1 DEF Composed
<1>3. e.off \in Nat /\ e.size \in Nat /\ e.size = s.size
  BY <1>2 DEF Placed, Clone
<1>4. CASE s.kind = "base" /\ Direct(t, p)
  <2>1. /\ Follow(t, p).align = s.align /\ Follow(t, p).size = s.size
        /\ Follow(t, p).elems = s.elems /\ Beginning(t, p) = e.off
    BY <1>1, <1>4 DEF LeafIn, Direct, Nested
  <2>2. s.align \in Base /\ s.size \in Base /\ s.elems = <<>>
    BY <1>2, <1>4 DEF Sound, MemberOK
  <2> HIDE DEF s, e
  <2> QED
    BY <1>1, <1>3, <2>1, <2>2 DEF End, e
<1>5. CASE Nested(t, p, s) /\ q \in Leaves(s)
  <2>1. PICK j \in 1..d : WellLaid(s, j)
    BY <1>2, <1>5 DEF Sound, Nested
  <2>2. /\ Follow(s, q).align \in Base /\ Follow(s, q).size \in Base
        /\ Follow(s, q).elems = <<>> /\ Follow(s, q).size \in Nat /\ End(s, q) <= s.size
    BY <1>5, <2>1, LayoutAssumption DEF WellLaid, BasicLeaves, Inside
  <2>3. /\ Follow(t, p) = Follow(s, q) /\ Beginning(s, q) \in Nat
        /\ Beginning(t, p) = e.off + Beginning(s, q)
    BY <1>5 DEF Nested
  <2> HIDE DEF s, e, q
  <2>4. /\ e.off <= Beginning(t, p) /\ Beginning(t, p) \in Nat
        /\ End(t, p) <= e.off + e.size
    BY <1>3, <2>2, <2>3 DEF End
  <2> QED
    BY <1>1, <1>3, <2>2, <2>3, <2>4 DEF e
<1> QED
  BY <1>1, <1>4, <1>5 DEF LeafIn
-----------------------------------------------------------------------------
\* Every conjunct of WellLaid, for a composed type.
LEMMA ComposedInside ==
    ASSUME NEW t, NEW S, NEW d, Composed(t, S, d)
    PROVE  BasicLeaves(t) /\ Inside(t)
<1>1. ASSUME NEW p \in Leaves(t)
      PROVE  /\ Follow(t, p).align \in Base /\ Follow(t, p).size \in Base
             /\ Follow(t, p).elems = <<>> /\ End(t, p) <= t.size
  <2> DEFINE e == t.elems[p[1]]
  <2>1. /\ p[1] \in DOMAIN t.elems
        /\ Follow(t, p).align \in Base /\ Follow(t, p).size \in Nat
        /\ Follow(t, p).size \in Base /\ Follow(t, p).elems = <<>>
        /\ Beginning(t, p) \in Nat /\ End(t, p) <= e.off + e.size
        /\ e.off \in Nat /\ e.size \in Nat
    BY LeafBounds
  <2>2. e.off + e.size <= t.size /\ t.size \in Nat
    BY <2>1 DEF Composed, Placed, Shape
  <2>3. End(t, p) \in Nat
    BY <2>1 DEF End
  <2> HIDE DEF e
  <2> QED
    BY <2>1, <2>2, <2>3
<1> QED
  BY <1>1 DEF BasicLeaves, Inside

LEMMA ComposedShallow ==
    ASSUME NEW t, NEW S, NEW d, Composed(t, S, d)
    PROVE  Shallow(t, d + 1)
<1> SUFFICES ASSUME NEW p \in Paths(t)
             PROVE  Len(p) <= d + 1
  BY DEF Shallow
<1> DEFINE s == S[p[1]]
           q == Rest(p)
<1>1. p \in AllPaths /\ Follow(t, p).kind # "none" /\ Follow(t, p) # Hole
  BY DEF Paths, Hole
<1>2. p[1] \in DOMAIN t.elems /\ (Direct(t, p) \/ Nested(t, p, s))
  BY <1>1, Destination
<1>3. d \in Nat /\ Sound(s, d) /\ Len(p) \in Nat
  BY <1>1, <1>2, PathFacts DEF Composed
<1>4. CASE Direct(t, p)
  BY <1>3, <1>4 DEF Direct
<1>5. CASE Nested(t, p, s)
  <2>1. PICK j \in 1..d : WellLaid(s, j)
    BY <1>3, <1>5 DEF Sound, Nested
  <2>2. q \in Paths(s) /\ Len(q) = Len(p) - 1
    BY <1>1, <1>5 DEF Nested, Paths
  <2>3. Len(q) <= j
    BY <2>1, <2>2 DEF WellLaid, Shallow
  <2> HIDE DEF q
  <2> QED
    BY <1>3, <2>2, <2>3
<1> QED
  BY <1>2, <1>4, <1>5

\* Step n of path p in t is step n - 1 of the rest of the path in s.
OneDown(t, p, s, n) ==
    /\ Rest(p) \in AllPaths /\ n - 1 \in 1..Len(Rest(p))
    /\ Rest(p)[n - 1] \in DOMAIN Steps(s, Rest(p))[(n - 1) - 1].type.elems
    /\ Steps(t, p)[n].type = Steps(s, Rest(p))[n - 1].type

\* A step that leads somewhere is the step to a member, or one in a member.
LEMMA DeeperSteps ==
    ASSUME NEW t, NEW S, NEW d, Composed(t, S, d), NEW p \in AllPaths, NEW n \in 1..Len(p),
           p[n] \in DOMAIN Steps(t, p)[n - 1].type.elems
    PROVE  /\ p[1] \in DOMAIN t.elems
           /\ n > 1 => S[p[1]].kind # "base" /\ OneDown(t, p, S[p[1]], n)
<1> DEFINE s == S[p[1]]
           q == Rest(p)
           e == t.elems[p[1]]
<1>1. Len(p) \in Nat /\ n \in Nat
  BY PathFacts
<1>2. p[1] \in DOMAIN t.elems
  <2> SUFFICES ASSUME p[1] \notin DOMAIN t.elems
               PROVE  FALSE
    OBVIOUS
  <2>1. Steps(t, p)[0].type = t /\ \A i \in 1..Len(p) : Steps(t, p)[i].type = Hole
    BY FirstStep
  <2>2. n # 1
    BY <2>1
  <2>3. n - 1 \in 1..Len(p)
    BY <1>1, <2>2
  <2>4. DOMAIN Steps(t, p)[n - 1].type.elems = {}
    BY <2>1, <2>3 DEF Hole
  <2> QED
    BY <2>4
<1>3. MemberOK(s) /\ e.off \in Nat /\ e.elems = s.elems
  BY <1>2 DEF Composed, Sound, Placed, Clone
<1>4. Steps(t, p)[1].type = e
  BY <1>2, <1>3, FirstStep
<1>5. ASSUME n > 1, s.kind = "base"
      PROVE  FALSE
  <2>1. DOMAIN Steps(t, p)[2 - 1].type.elems = {} /\ 2 \in 1..Len(p)
    BY <1>1, <1>3, <1>4, <1>5 DEF MemberOK
  <2>2. \A i \in 2..Len(p) : Steps(t, p)[i].type = Hole
    BY <1>1, <2>1, HoleStays
  <2>3. DOMAIN Steps(t, p)[n - 1].type.elems = {}
    <3>1. CASE n = 2
      BY <2>1, <3>1
    <3>2. CASE n # 2
      <4>1. n - 1 \in 2..Len(p)
        BY <1>1, <1>5, <3>2
      <4> QED
        BY <2>2, <4>1 DEF Hole
    <3> QED
      BY <3>1, <3>2
  <2> QED
    BY <2>3
<1>6. ASSUME n > 1
      PROVE  s.kind # "base" /\ OneDown(t, p, s, n)
  <2> DEFINE i == n - 1
  <2>1. Len(p) > 1 /\ s.kind # "base"
    BY <1>1, <1>5, <1>6
  <2>2. Moved(t, p, s, q, e.off)
    BY <1>2, <2>1, ThroughMember
  <2>3. q \in AllPaths /\ Len(q) = Len(p) - 1 /\ \A j \in 1..(Len(p) - 1) : q[j] = p[j + 1]
    BY <2>1, RestFacts
  <2> HIDE DEF q
  <2>4. /\ i \in 1..Len(q) /\ i + 1 = n /\ (i - 1) + 1 = n - 1 /\ i > 0
        /\ i \in 0..Len(q) /\ i - 1 \in 0..Len(q) /\ i \in 1..(Len(p) - 1)
    BY <1>1, <1>6, <2>3
  <2> HIDE DEF i
  <2>5. Steps(t, p)[(i - 1) + 1].type.elems = Steps(s, q)[i - 1].type.elems
    BY <2>2, <2>4 DEF Moved
  <2>6. Steps(t, p)[i + 1].type = Steps(s, q)[i].type
    BY <2>2, <2>4 DEF Moved
  <2>7. q[i] = p[i + 1]
    BY <2>3, <2>4
  <2>8. /\ q[i] \in DOMAIN Steps(s, q)[i - 1].type.elems
        /\ Steps(t, p)[n].type = Steps(s, q)[i].type
    BY <2>4, <2>5, <2>6, <2>7
  <2> QED
    BY <2>1, <2>3, <2>4, <2>8 DEF OneDown, i, q
<1> QED
  BY <1>2, <1>6

LEMMA ComposedNumbered ==
    ASSUME NEW t, NEW S, NEW d, Composed(t, S, d)
    PROVE  Numbered(t)
<1> SUFFICES ASSUME NEW p \in AllPaths, NEW n \in 1..Len(p),
                    p[n] \in DOMAIN Steps(t, p)[n - 1].type.elems
             PROVE  Steps(t, p)[n].type.off \in Nat
  BY DEF Numbered, OffsetsAlong
<1> DEFINE s == S[p[1]]
           q == Rest(p)
           e == t.elems[p[1]]
<1>1. Len(p) \in Nat /\ n \in Nat
  BY PathFacts
<1>2. p[1] \in DOMAIN t.elems /\ (n > 1 => s.kind # "base")
  BY DeeperSteps
<1>3. Sound(s, d) /\ e.off \in Nat
  BY <1>2 DEF Composed, Placed
<1>4. CASE n = 1
  BY <1>2, <1>3, <1>4, FirstStep
<1>5. CASE n > 1
  <2>1. OneDown(t, p, s, n)
    BY <1>2, <1>5, DeeperSteps
  <2>2. q \in AllPaths /\ OffsetsAlong(s, q)
    BY <1>2, <1>3, <1>5, <2>1 DEF Sound, WellLaid, Numbered, OneDown
  <2> QED
    BY <2>1, <2>2 DEF OneDown, OffsetsAlong
<1> QED
  BY <1>1, <1>4, <1>5

\* Paths through the same member that part in a struct part in it inside the
\* member.
LEMMA PartDeeper ==
    ASSUME NEW t, NEW S, NEW d, Composed(t, S, d),
           NEW p \in AllPaths, NEW q \in AllPaths, p[1] = q[1], p[1] \in DOMAIN t.elems,
           Len(p) > 1, Len(q) > 1, S[p[1]].kind # "base", PartsBefore(t, p, q)
    PROVE  PartsBefore(S[p[1]], Rest(p), Rest(q))
<1> DEFINE s == S[p[1]]
           x == Rest(p)
           y == Rest(q)
<1>1. Len(p) \in Nat /\ Len(q) \in Nat
  BY PathFacts
<1>2. PICK n \in 1..Len(p) :
         /\ n <= Len(q) /\ PartAt(p, q, n) /\ p[n] < q[n]
         /\ Steps(t, p)[n - 1].type.kind = "struct"
  BY DEF PartsBefore
<1>3. n \in Nat /\ n > 1
  BY <1>1, <1>2 DEF PartAt
<1>4. Moved(t, p, s, x, t.elems[p[1]].off)
  BY ThroughMember
<1>5. /\ Len(x) = Len(p) - 1 /\ \A j \in 1..(Len(p) - 1) : x[j] = p[j + 1]
      /\ Len(y) = Len(q) - 1 /\ \A j \in 1..(Len(q) - 1) : y[j] = q[j + 1]
  BY RestFacts
<1> DEFINE i == n - 1
<1>6. /\ i \in 1..Len(x) /\ i <= Len(y) /\ i + 1 = n /\ (i - 1) + 1 = n - 1
      /\ i \in 1..(Len(p) - 1) /\ i \in 1..(Len(q) - 1) /\ i - 1 \in 0..Len(x)
      /\ i \in Nat
  BY <1>1, <1>2, <1>3, <1>5
<1> HIDE DEF x, y, i
<1>7. x[i] = p[n] /\ y[i] = q[n] /\ x[i] # y[i] /\ x[i] < y[i]
  BY <1>2, <1>5, <1>6 DEF PartAt
<1>8. ASSUME NEW k \in 1..(i - 1)
      PROVE  x[k] = y[k]
  <2>1. k \in 1..(Len(p) - 1) /\ k \in 1..(Len(q) - 1) /\ k + 1 \in 1..(n - 1)
    BY <1>1, <1>6
  <2> QED
    BY <1>2, <1>5, <2>1 DEF PartAt
<1>9. Steps(s, x)[i - 1].type.kind = "struct"
  <2>1. Steps(t, p)[(i - 1) + 1].type.kind = Steps(s, x)[i - 1].type.kind
    BY <1>4, <1>6 DEF Moved
  <2> QED
    BY <1>2, <1>6, <2>1
<1>10. PartsBefore(s, x, y)
  BY <1>6, <1>7, <1>8, <1>9 DEF PartsBefore, PartAt
<1> QED
  BY <1>10 DEF x, y

LEMMA ComposedOrdered ==
    ASSUME NEW t, NEW S, NEW d, Composed(t, S, d)
    PROVE  Ordered(t)
<1> SUFFICES ASSUME NEW p \in Leaves(t), NEW q \in Leaves(t), PartsBefore(t, p, q)
             PROVE  End(t, p) <= Beginning(t, q)
  BY DEF Ordered
<1> DEFINE k == p[1]
           l == q[1]
           s == S[p[1]]
           e == t.elems[k]
           f == t.elems[l]
<1>1. p \in AllPaths /\ q \in AllPaths
  BY DEF Leaves
<1>2. /\ k \in DOMAIN t.elems /\ e.off \in Nat /\ e.size \in Nat
      /\ Beginning(t, p) \in Nat /\ Follow(t, p).size \in Nat
      /\ End(t, p) <= e.off + e.size
  BY LeafBounds
<1>3. /\ l \in DOMAIN t.elems /\ f.off \in Nat
      /\ Beginning(t, q) \in Nat /\ f.off <= Beginning(t, q)
  BY LeafBounds
<1>4. End(t, p) \in Nat
  BY <1>2 DEF End
<1>5. PICK n \in 1..Len(p) :
         /\ n <= Len(q) /\ PartAt(p, q, n) /\ p[n] < q[n]
         /\ Steps(t, p)[n - 1].type.kind = "struct"
  BY DEF PartsBefore
<1>6. Len(p) \in Nat /\ Len(q) \in Nat
  BY <1>1, PathFacts
<1>7. CASE n = 1
  <2>1. Steps(t, p)[1 - 1].type = t
    BY <1>1, FirstStep
  <2>2. t.kind = "struct" /\ k < l
    BY <1>5, <1>7, <2>1
  <2>3. e.off + e.size <= f.off
    BY <1>2, <1>3, <2>2 DEF Composed
  <2> HIDE DEF k, l, e, f
  <2> QED
    BY <1>2, <1>3, <1>4, <2>3
<1>8. CASE n > 1
  <2> DEFINE x == Rest(p)
             y == Rest(q)
  <2>1. k = l /\ Len(p) > 1 /\ Len(q) > 1
    BY <1>5, <1>6, <1>8 DEF PartAt
  <2>2. LeafIn(t, p, s) /\ LeafIn(t, q, s)
    BY <2>1, LeafCases
  <2>3. Nested(t, p, s) /\ x \in Leaves(s) /\ Nested(t, q, s) /\ y \in Leaves(s)
    <3>1. ~Direct(t, p) /\ ~Direct(t, q)
      <4>1. \A i \in Nat : i > 1 => i # 1
        OBVIOUS
      <4>2. Len(p) # 1 /\ Len(q) # 1
        BY <1>6, <2>1, <4>1, Zenon
      <4> QED
        BY <4>2, Zenon DEF Direct
    <3> QED
      BY <2>2, <3>1 DEF LeafIn
  <2>4. s.kind # "base"
    BY <2>3 DEF Nested
  <2>5. PartsBefore(s, x, y)
    BY <1>1, <1>2, <2>1, <2>4, PartDeeper
  <2>6. Sound(s, d)
    BY <1>2 DEF Composed
  <2>7. PICK j \in 1..d : WellLaid(s, j)
    BY <2>4, <2>6 DEF Sound
  <2>8. End(s, x) <= Beginning(s, y)
    BY <2>3, <2>5, <2>7 DEF WellLaid, Ordered
  <2>9. /\ Follow(t, p) = Follow(s, x) /\ Beginning(t, p) = e.off + Beginning(s, x)
        /\ Beginning(t, q) = e.off + Beginning(s, y)
        /\ Beginning(s, x) \in Nat /\ Beginning(s, y) \in Nat
    BY <2>1, <2>3 DEF Nested
  <2> HIDE DEF x, y, e, s
  <2>10. End(t, p) = e.off + End(s, x) /\ End(s, x) \in Nat
    BY <1>2, <2>9 DEF End
  <2> QED
    BY <1>2, <2>8, <2>9, <2>10
<1>9. n = 1 \/ n > 1
  BY <1>6
<1> QED
  BY <1>7, <1>8, <1>9

\* The path to member k of t.
LEMMA MemberPath ==
    ASSUME NEW t, NEW S, NEW d, Composed(t, S, d), NEW k \in DOMAIN t.elems
    PROVE  \E p \in AllPaths :
              Len(p) = 1 /\ Follow(t, p) = t.elems[k] /\ Steps(t, p)[0].type = t
<1>1. t.elems[k].off \in Nat
  BY DEF Composed, Placed
<1>2. k \in 1..MaxFields
  BY LayoutAssumption DEF Composed, Shape
<1> DEFINE p == [i \in 1..1 |-> k]
<1>3. 1 \in 1..MaxTypes
  BY LayoutAssumption DEF Composed
<1>4. p \in [1..1 -> 1..MaxFields] /\ p[1] = k
  BY <1>2
<1> HIDE DEF p
<1>5. Len(p) = 1
  BY <1>4, FunctionSeq
<1>6. p \in AllPaths
  BY <1>3, <1>4 DEF AllPaths
<1>7. Steps(t, p)[0].type = t /\ Steps(t, p)[1].type = t.elems[k]
  BY <1>1, <1>4, <1>6, FirstStep
<1>8. Follow(t, p) = t.elems[k]
  BY <1>5, <1>7 DEF Follow, Walk
<1> QED
  BY <1>5, <1>6, <1>7, <1>8

\* The path in t that leads where path q leads in member k.
LEMMA InnerPath ==
    ASSUME NEW t, NEW S, NEW d, Composed(t, S, d), NEW k \in DOMAIN t.elems,
           S[k].kind # "base", NEW q \in Paths(S[k])
    PROVE  \E p \in AllPaths :
              /\ Follow(t, p) = Follow(S[k], q)
              /\ Steps(t, p)[Len(p) - 1].type.kind = Steps(S[k], q)[Len(q) - 1].type.kind
<1> DEFINE s == S[k]
<1>1. q \in AllPaths
  BY DEF Paths
<1>2. d \in Nat /\ d < MaxTypes /\ Sound(s, d)
  BY DEF Composed
<1>3. PICK j \in 1..d : WellLaid(s, j)
  BY <1>2 DEF Sound
<1>4. Len(q) <= j /\ Len(q) \in 1..MaxTypes
  BY <1>1, <1>3, PathFacts DEF WellLaid, Shallow
<1>5. Len(q) < MaxTypes /\ Len(q) \in Nat /\ Len(q) >= 1
  BY <1>2, <1>4, LayoutAssumption
<1>6. k \in 1..MaxFields
  BY LayoutAssumption DEF Composed, Shape
<1> DEFINE p == Prefixed(k, q)
<1>7. p \in AllPaths /\ Len(p) = Len(q) + 1 /\ p[1] = k /\ Rest(p) = q
  BY <1>1, <1>5, <1>6, PrefixedFacts
<1> HIDE DEF p
<1>8. Len(p) > 1
  BY <1>5, <1>7
<1>9. Moved(t, p, s, q, t.elems[k].off)
  BY <1>7, <1>8, ThroughMember
<1>10. /\ Len(q) \in 0..Len(q) /\ Len(q) - 1 \in 0..Len(q) /\ (Len(q) - 1) + 1 = Len(p) - 1
       /\ Len(q) > 0
  BY <1>5, <1>7
<1>11. Steps(t, p)[(Len(q) - 1) + 1].type.kind = Steps(s, q)[Len(q) - 1].type.kind
  BY <1>9, <1>10 DEF Moved
<1>12. Steps(t, p)[Len(q) + 1].type = Steps(s, q)[Len(q)].type
  BY <1>9, <1>10 DEF Moved
<1>13. Follow(t, p) = Follow(s, q)
  BY <1>7, <1>12 DEF Follow, Walk
<1> QED
  BY <1>7, <1>10, <1>11, <1>13

\* A union in a union of a member is one of the whole.
LEMMA UnionDeeper ==
    ASSUME NEW t, NEW S, NEW d, Composed(t, S, d), NEW k \in DOMAIN t.elems,
           S[k].kind # "base", UnionInUnion(S[k])
    PROVE  UnionInUnion(t)
<1> DEFINE s == S[k]
<1>1. PICK q \in AllPaths :
         Follow(s, q).kind = "union" /\ Steps(s, q)[Len(q) - 1].type.kind = "union"
  BY DEF UnionInUnion
<1>2. q \in Paths(s)
  BY <1>1 DEF Paths
<1>3. PICK p \in AllPaths :
         /\ Follow(t, p) = Follow(s, q)
         /\ Steps(t, p)[Len(p) - 1].type.kind = Steps(s, q)[Len(q) - 1].type.kind
  BY <1>2, InnerPath
<1>4. Follow(t, p).kind = "union" /\ Steps(t, p)[Len(p) - 1].type.kind = "union"
  BY <1>1, <1>3
<1> QED
  BY <1>4 DEF UnionInUnion

\* A union that is a member of a union.
LEMMA UnionHere ==
    ASSUME NEW t, NEW S, NEW d, Composed(t, S, d), t.kind = "union",
           NEW k \in DOMAIN t.elems, S[k].kind = "union"
    PROVE  UnionInUnion(t)
<1>1. t.elems[k].kind = "union"
  BY DEF Composed, Placed, Clone
<1>2. PICK p \in AllPaths :
         Len(p) = 1 /\ Follow(t, p) = t.elems[k] /\ Steps(t, p)[0].type = t
  BY MemberPath
<1>3. Len(p) - 1 = 0
  BY <1>2
<1>4. Follow(t, p).kind = "union" /\ Steps(t, p)[Len(p) - 1].type.kind = "union"
  BY <1>1, <1>2, <1>3
<1> QED
  BY <1>4 DEF UnionInUnion

\* The alignments of the basic members of a member divide that of the member.
LEMMA MemberStrict ==
    ASSUME NEW t, NEW S, NEW d, Composed(t, S, d), ~UnionInUnion(t), NEW p \in Leaves(t)
    PROVE  Divides(Follow(t, p).align, S[p[1]].align)
<1> DEFINE s == S[p[1]]
           a == Follow(t, p).align
<1>1. p[1] \in DOMAIN t.elems /\ a \in Base /\ LeafIn(t, p, s)
  BY LeafBounds, LeafCases
<1>2. Sound(s, d) /\ a \in Nat /\ a > 0 /\ s.align \in Nat
  <2>1. Sound(s, d) /\ MemberOK(s)
    BY <1>1 DEF Composed, Sound
  <2> HIDE DEF a, s
  <2> QED
    BY <1>1, <2>1, LayoutAssumption, MemberTypes
<1>3. CASE Direct(t, p) /\ s.kind = "base"
  <2>1. a = s.align
    BY <1>1, <1>3 DEF LeafIn, Nested
  <2>2. s.align = 1 * a
    BY <1>2, <2>1
  <2> QED
    BY <2>2 DEF Divides
<1>4. CASE Nested(t, p, s) /\ Rest(p) \in Leaves(s)
  <2>1. s.kind # "base" /\ Follow(t, p) = Follow(s, Rest(p))
    BY <1>4 DEF Nested
  <2>2. PICK j \in 1..d : WellLaid(s, j)
    BY <1>2, <2>1 DEF Sound
  <2>3. ~UnionInUnion(s)
    BY <1>1, <2>1, UnionDeeper
  <2>4. s.align % a = 0
    BY <1>4, <2>1, <2>2, <2>3 DEF WellLaid, Strict
  <2> QED
    BY <1>2, <2>4, DividesMod
<1> QED
  BY <1>1, <1>3, <1>4 DEF LeafIn

LEMMA ComposedAligned ==
    ASSUME NEW t, NEW S, NEW d, Composed(t, S, d)
    PROVE  Aligned(t)
<1> SUFFICES ASSUME ~UnionInUnion(t), NEW p \in Leaves(t)
             PROVE  Beginning(t, p) % Follow(t, p).align = 0
  BY DEF Aligned
<1> DEFINE s == S[p[1]]
           e == t.elems[p[1]]
           a == Follow(t, p).align
           q == Rest(p)
<1>1. /\ p[1] \in DOMAIN t.elems /\ a \in Base /\ LeafIn(t, p, s)
      /\ Beginning(t, p) \in Nat /\ e.off \in Nat
  BY LeafBounds, LeafCases
<1>2. /\ Sound(s, d) /\ a \in Nat /\ a > 0 /\ s.align \in Nat
      /\ Divides(s.align, e.off)
  <2>1. Sound(s, d) /\ MemberOK(s) /\ Divides(s.align, e.off)
    BY <1>1 DEF Composed, Sound, Placed
  <2> HIDE DEF a, s, e
  <2> QED
    BY <1>1, <2>1, LayoutAssumption, MemberTypes
<1>3. Divides(a, s.align)
  BY MemberStrict
<1>4. Divides(a, e.off)
  <2> HIDE DEF a, s, e
  <2> QED
    BY <1>1, <1>2, <1>3, DividesTrans
<1>5. Divides(a, Beginning(t, p))
  <2>1. CASE Direct(t, p)
    BY <1>4, <2>1 DEF Direct
  <2>2. CASE Nested(t, p, s) /\ q \in Leaves(s)
    <3>1. /\ s.kind # "base" /\ Follow(t, p) = Follow(s, q) /\ Beginning(s, q) \in Nat
          /\ Beginning(t, p) = e.off + Beginning(s, q)
      BY <2>2 DEF Nested
    <3>2. PICK j \in 1..d : WellLaid(s, j)
      BY <1>2, <3>1 DEF Sound
    <3>3. ~UnionInUnion(s)
      BY <1>1, <3>1, UnionDeeper
    <3>4. Beginning(s, q) % a = 0
      BY <2>2, <3>1, <3>2, <3>3 DEF WellLaid, Aligned
    <3> HIDE DEF a, s, e, q
    <3>5. Divides(a, Beginning(s, q))
      BY <1>2, <3>1, <3>4, DividesMod
    <3> QED
      BY <1>1, <1>2, <1>4, <3>1, <3>5, DividesSum
  <2> QED
    BY <1>1, <2>1, <2>2 DEF LeafIn
<1> QED
  BY <1>1, <1>2, <1>5, DividesMod

LEMMA ComposedStrict ==
    ASSUME NEW t, NEW S, NEW d, Composed(t, S, d)
    PROVE  Strict(t)
<1> SUFFICES ASSUME ~UnionInUnion(t), NEW p \in Leaves(t)
             PROVE  t.align % Follow(t, p).align = 0
  BY DEF Strict
<1> DEFINE s == S[p[1]]
           a == Follow(t, p).align
<1>1. p[1] \in DOMAIN t.elems /\ a \in Base
  BY LeafBounds
<1>2. a \in Nat /\ a > 0 /\ ByteAlign \in Nat /\ ByteAlign % a = 0 /\ a <= ByteAlign
  <2> HIDE DEF a
  <2> QED
    BY <1>1, LayoutAssumption
<1>3. t.kind \in {"struct", "union"} /\ (t.kind = "struct" => t.align = ByteAlign)
  BY DEF Composed, Shape
<1>4. CASE t.kind = "struct"
  BY <1>2, <1>3, <1>4
<1>5. CASE t.kind = "union"
  <2>1. PICK w \in DOMAIN t.elems :
           t.align = S[w].align /\ \A k \in DOMAIN t.elems : S[k].size <= S[w].size
    BY <1>5 DEF Composed
  <2> DEFINE g == S[w]
  <2>2. Sound(g, d) /\ MemberOK(g) /\ Sound(s, d) /\ MemberOK(s) /\ s.size <= g.size
    BY <1>1, <2>1 DEF Composed, Sound
  <2>3. g.kind # "union" /\ s.kind # "union"
    BY <1>1, <1>5, <2>1, UnionHere
  <2>4. CASE g.kind = "struct"
    <3>1. g.align = ByteAlign
      BY <2>2, <2>4 DEF MemberOK, Shape
    <3> QED
      BY <1>2, <2>1, <3>1
  <2>5. CASE g.kind = "base"
    <3>1. g.align = g.size /\ g.size \in Base
      BY <2>2, <2>5 DEF MemberOK
    <3>2. g.size \in Nat /\ g.size <= ByteAlign
      <4> HIDE DEF g
      <4> QED
        BY <3>1, LayoutAssumption
    <3>3. CASE s.kind = "base"
      <4>1. s.align = s.size /\ s.align \in Base
        BY <2>2, <3>3 DEF MemberOK
      <4>2. LeafIn(t, p, s)
        BY LeafCases
      <4>3. a = s.align
        BY <3>3, <4>2 DEF LeafIn, Nested
      <4>4. a <= g.align
        BY <2>2, <3>1, <4>1, <4>3
      <4> HIDE DEF a, g, s
      <4>5. g.align % a = 0
        BY <1>1, <3>1, <4>4, LayoutAssumption
      <4> QED
        BY <2>1, <4>5 DEF a, g
    <3>4. CASE s.kind = "struct"
      <4>1. s.size \in Nat \ {0} /\ s.size % ByteAlign = 0
        BY <2>2, <3>4 DEF MemberOK, Shape
      <4> HIDE DEF a, g, s
      <4>2. ByteAlign > 0
        BY <1>2
      <4>3. s.size >= ByteAlign
        BY <4>1, PositiveMultiple
      <4>4. g.align = ByteAlign
        BY <1>2, <2>2, <3>1, <3>2, <4>1, <4>3
      <4> QED
        BY <1>2, <2>1, <4>4 DEF a, g
    <3> QED
      BY <2>2, <2>3, <3>3, <3>4 DEF MemberOK
  <2> QED
    BY <2>2, <2>3, <2>4, <2>5 DEF MemberOK
<1> QED
  BY <1>3, <1>4, <1>5

LEMMA ComposedAtZero ==
    ASSUME NEW t, NEW S, NEW d, Composed(t, S, d)
    PROVE  AtZero(t) /\ \A k \in DOMAIN t.elems : AtZero(t.elems[k])
<1>1. ASSUME NEW k \in DOMAIN t.elems
      PROVE  AtZero(t.elems[k])
  <2>1. Sound(S[k], d) /\ Clone(S[k], t.elems[k])
    BY DEF Composed, Placed
  <2>2. AtZero(S[k])
    <3>1. CASE S[k].kind = "base"
      BY <2>1, <3>1 DEF AtZero, Sound, MemberOK
    <3>2. CASE S[k].kind # "base"
      BY <2>1, <3>2 DEF Sound, WellLaid
    <3> QED
      BY <3>1, <3>2
  <2> QED
    BY <2>1, <2>2 DEF AtZero, Clone
<1> QED
  BY <1>1 DEF Composed

\* The aggregates in a type of the strictest alignment throughout are such types.
LEMMA StrictMembers ==
    ASSUME NEW t, NEW S, NEW d, Composed(t, S, d), StrictThroughout(t),
           NEW k \in DOMAIN t.elems, S[k].kind # "base"
    PROVE  StrictThroughout(S[k])
<1> DEFINE s == S[k]
           e == t.elems[k]
<1>1. Sound(s, d) /\ Clone(s, e)
  BY DEF Composed, Placed
<1>2. e.kind \in {"struct", "union"} /\ e.calign = s.calign
  BY <1>1 DEF Sound, MemberOK, Clone
<1>3. PICK p \in AllPaths : Follow(t, p) = e
  BY MemberPath
<1>4. p \in Paths(t) /\ Follow(t, p).kind # "base"
  BY <1>2, <1>3 DEF Paths
<1>5. s.calign = ByteAlign
  BY <1>2, <1>3, <1>4 DEF StrictThroughout
<1>6. ASSUME NEW q \in Paths(s), Follow(s, q).kind # "base"
      PROVE  Follow(s, q).calign = ByteAlign
  <2>1. PICK r \in AllPaths : Follow(t, r) = Follow(s, q)
    BY InnerPath
  <2>2. r \in Paths(t)
    BY <2>1 DEF Paths
  <2> QED
    BY <1>6, <2>1, <2>2 DEF StrictThroughout
<1> QED
  BY <1>5, <1>6 DEF StrictThroughout

\* In such a type every member has the size and the alignment of the C ABI.
LEMMA MembersAsInC ==
    ASSUME NEW t, NEW S, NEW d, Composed(t, S, d), StrictThroughout(t),
           NEW k \in DOMAIN t.elems
    PROVE  /\ S[k].size = S[k].csize /\ S[k].align = S[k].calign
           /\ S[k].kind # "base" => S[k].align = ByteAlign
<1>1. Sound(S[k], d)
  BY DEF Composed
<1>2. CASE S[k].kind = "base"
  BY <1>1, <1>2 DEF Sound, MemberOK
<1>3. CASE S[k].kind # "base"
  <2>1. StrictThroughout(S[k])
    BY <1>3, StrictMembers
  <2>2. Compiled(S[k])
    BY <1>1, <1>3 DEF Sound, WellLaid
  <2> QED
    BY <2>1, <2>2 DEF Compiled, StrictThroughout
<1> QED
  BY <1>2, <1>3

\* The alignment that the code computes for such a type is the strictest.
LEMMA StrictAlign ==
    ASSUME NEW t, NEW S, NEW d, Composed(t, S, d), StrictThroughout(t)
    PROVE  t.align = ByteAlign
<1> DEFINE D == DOMAIN t.elems
<1>1. t.kind \in {"struct", "union"} /\ (t.kind = "struct" => t.align = ByteAlign)
  BY DEF Composed, Shape
<1>2. CASE t.kind = "struct"
  BY <1>1, <1>2
<1>3. CASE t.kind = "union"
  <2>1. PICK w \in D : t.align = S[w].align /\ \A k \in D : S[k].size <= S[w].size
    BY <1>3 DEF Composed
  <2>2. \A k \in D : MemberOK(S[k])
    BY DEF Composed, Sound
  <2>3. ByteAlign \in Nat /\ \A b \in Base : b \in Nat /\ b <= ByteAlign
    BY LayoutAssumption
  <2>4. ASSUME NEW k \in D
        PROVE  S[k].calign \in 0..ByteAlign
    <3>1. S[k].calign = S[k].align
      BY MembersAsInC
    <3>2. S[k].align \in Base \cup {ByteAlign}
      BY <2>2, MemberTypes
    <3> QED
      BY <2>3, <3>1, <3>2
  <2> DEFINE U == {S[k].calign : k \in D}
  <2>5. U \in SUBSET (0..ByteAlign) /\ U # {}
    BY <2>1, <2>4
  <2>6. \A x \in U : \E k \in D : x = S[k].calign
    OBVIOUS
  <2>7. Max(U) = ByteAlign
    BY DEF Composed, StrictThroughout
  <2> HIDE DEF U
  <2>8. \E n \in U : \A m \in U : n >= m
    BY <2>3, <2>5, GreatestNumber
  <2>9. Max(U) \in U
    BY <2>8 DEF Max
  <2>10. PICK m \in D : S[m].calign = ByteAlign
    BY <2>6, <2>7, <2>9
  <2>11. S[m].size \in Nat /\ S[m].size >= ByteAlign
    <3>1. S[m].align = ByteAlign /\ MemberOK(S[m])
      BY <2>2, <2>10, MembersAsInC
    <3>2. CASE S[m].kind = "base"
      BY <2>3, <3>1, <3>2 DEF MemberOK
    <3>3. CASE S[m].kind # "base"
      <4>1. S[m].size \in Nat \ {0} /\ S[m].size % ByteAlign = 0
        BY <3>1, <3>3 DEF MemberOK, Shape
      <4> QED
        BY <4>1, PositiveMultiple
    <3> QED
      BY <3>2, <3>3
  <2>12. CASE S[w].kind = "base"
    <3>1. S[w].align = S[w].size /\ S[w].size \in Base
      BY <2>2, <2>12 DEF MemberOK
    <3>2. S[m].size <= S[w].size
      BY <2>1
    <3>3. S[w].size \in Nat /\ S[w].size <= ByteAlign
      BY <2>3, <3>1
    <3>4. S[w].size = ByteAlign
      BY <2>3, <2>11, <3>2, <3>3
    <3> QED
      BY <2>1, <3>1, <3>4
  <2>13. CASE S[w].kind # "base"
    BY <2>1, <2>13, MembersAsInC
  <2> QED
    BY <2>12, <2>13
<1> QED
  BY <1>1, <1>2, <1>3

LEMMA ComposedCompiled ==
    ASSUME NEW t, NEW S, NEW d, Composed(t, S, d)
    PROVE  Compiled(t)
<1> SUFFICES ASSUME StrictThroughout(t)
             PROVE  /\ t.size = t.csize /\ t.align = ByteAlign
                    /\ \A p \in AllPaths : CompiledAlong(t, p)
  BY DEF Compiled
<1>1. \A k \in DOMAIN t.elems : S[k].size = S[k].csize /\ S[k].align = S[k].calign
  BY MembersAsInC
<1>2. /\ \A k \in DOMAIN t.elems : t.elems[k].off = t.elems[k].coff
      /\ t.size = t.csize
  BY <1>1 DEF Composed, StrictThroughout
<1>3. ASSUME NEW p \in AllPaths, NEW n \in 1..Len(p),
             p[n] \in DOMAIN Steps(t, p)[n - 1].type.elems
      PROVE  Steps(t, p)[n].type.coff = Steps(t, p)[n].type.off
  <2> DEFINE s == S[p[1]]
             q == Rest(p)
             e == t.elems[p[1]]
  <2>1. Len(p) \in Nat /\ n \in Nat
    BY PathFacts
  <2>2. p[1] \in DOMAIN t.elems /\ (n > 1 => s.kind # "base")
    BY <1>3, DeeperSteps
  <2>3. Sound(s, d) /\ e.off \in Nat /\ e.coff = e.off
    BY <1>2, <2>2 DEF Composed, Placed
  <2>4. CASE n = 1
    <3>1. Steps(t, p)[1].type = e
      BY <2>2, <2>3, FirstStep
    <3> QED
      BY <2>3, <2>4, <3>1
  <2>5. CASE n > 1
    <3>1. OneDown(t, p, s, n)
      BY <1>3, <2>2, <2>5, DeeperSteps
    <3>2. StrictThroughout(s)
      BY <2>2, <2>5, StrictMembers
    <3>3. Compiled(s)
      BY <2>2, <2>3, <2>5 DEF Sound, WellLaid
    <3>4. q \in AllPaths /\ CompiledAlong(s, q)
      BY <3>1, <3>2, <3>3 DEF Compiled, OneDown
    <3> QED
      BY <3>1, <3>4 DEF OneDown, CompiledAlong
  <2> QED
    BY <2>1, <2>4, <2>5
<1>4. \A p \in AllPaths : CompiledAlong(t, p)
  BY <1>3 DEF CompiledAlong
<1> QED
  BY <1>2, <1>4, StrictAlign

LEMMA ComposedWellLaid ==
    ASSUME NEW t, NEW S, NEW d, Composed(t, S, d)
    PROVE  WellLaid(t, d + 1)
<1>1. Shape(t)
  BY DEF Composed
<1> QED
  BY <1>1, ComposedNumbered, ComposedShallow, ComposedInside, ComposedOrdered,
     ComposedAligned, ComposedStrict, ComposedCompiled, ComposedAtZero DEF WellLaid
-----------------------------------------------------------------------------
\* A type that gets another offset keeps its layout: the walks in it are the same.
SameWalk(t, s, p) ==
    /\ \A n \in 0..Len(p) : Steps(t, p)[n].type.kind = Steps(s, p)[n].type.kind
    /\ \A n \in 0..Len(p) : Steps(t, p)[n].type.elems = Steps(s, p)[n].type.elems
    /\ \A n \in 1..Len(p) : Steps(t, p)[n].type = Steps(s, p)[n].type
    /\ Follow(t, p) = Follow(s, p) /\ Beginning(t, p) = Beginning(s, p)

LEMMA SameWalks ==
    ASSUME NEW t, NEW s, t.elems = s.elems, t.kind = s.kind, NEW p \in AllPaths
    PROVE  SameWalk(t, s, p)
<1>1. Len(p) \in Nat /\ Len(p) \in 0..Len(p) /\ Len(p) > 0
  BY PathFacts
<1>2. \A n \in 0..Len(p) :
         /\ Steps(t, p)[n].begin = Steps(s, p)[n].begin
         /\ Steps(t, p)[n].type.elems = Steps(s, p)[n].type.elems
         /\ n > 0 => Steps(t, p)[n].type = Steps(s, p)[n].type
  BY <1>1, SameElems
<1>3. Steps(t, p)[0].type = t /\ Steps(s, p)[0].type = s
  BY FirstStep
<1>4. \A n \in 1..Len(p) : n \in 0..Len(p) /\ n > 0
  BY <1>1
<1>5. \A n \in 1..Len(p) : Steps(t, p)[n].type = Steps(s, p)[n].type
  BY <1>2, <1>4
<1>6. \A n \in 0..Len(p) : n = 0 \/ n \in 1..Len(p)
  BY <1>1
<1>7. \A n \in 0..Len(p) : Steps(t, p)[n].type.kind = Steps(s, p)[n].type.kind
  BY <1>3, <1>5, <1>6
<1>8. Follow(t, p) = Follow(s, p) /\ Beginning(t, p) = Beginning(s, p)
  BY <1>1, <1>2 DEF Follow, Beginning, Walk
<1> QED
  BY <1>2, <1>5, <1>7, <1>8 DEF SameWalk

LEMMA Relocated ==
    ASSUME NEW s, NEW i, WellLaid(s, i), NEW o \in Nat
    PROVE  WellLaid([s EXCEPT !.off = o], i)
<1> DEFINE t == [s EXCEPT !.off = o]
<1>1. Shape(s)
  BY DEF WellLaid
<1>2. /\ t.elems = s.elems /\ t.kind = s.kind /\ t.size = s.size /\ t.align = s.align
      /\ t.csize = s.csize /\ t.calign = s.calign
      /\ Shape(t)
  BY <1>1 DEF Shape
<1> HIDE DEF t
<1>3. \A p \in AllPaths : SameWalk(t, s, p) /\ SameWalk(s, t, p)
  BY <1>2, SameWalks
<1>4. \A p \in AllPaths : Follow(t, p) = Follow(s, p) /\ Beginning(t, p) = Beginning(s, p)
  BY <1>3 DEF SameWalk
<1>5. Leaves(t) = Leaves(s) /\ Paths(t) = Paths(s) /\ Leaves(t) \subseteq AllPaths
  BY <1>4 DEF Leaves, Paths
<1>6. Shallow(t, i) /\ BasicLeaves(t)
  BY <1>4, <1>5 DEF WellLaid, Shallow, BasicLeaves
<1>7. \A p \in Leaves(t) : End(t, p) = End(s, p)
  BY <1>4, <1>5 DEF End
<1>8. Inside(t)
  BY <1>2, <1>5, <1>7 DEF WellLaid, Inside
<1>9. Numbered(t)
  <2> SUFFICES ASSUME NEW p \in AllPaths, NEW n \in 1..Len(p),
                      p[n] \in DOMAIN Steps(t, p)[n - 1].type.elems
               PROVE  Steps(t, p)[n].type.off \in Nat
    BY DEF Numbered, OffsetsAlong
  <2>1. n - 1 \in 0..Len(p)
    BY PathFacts
  <2>2. /\ Steps(t, p)[n - 1].type.elems = Steps(s, p)[n - 1].type.elems
        /\ Steps(t, p)[n].type = Steps(s, p)[n].type
    BY <1>3, <2>1 DEF SameWalk
  <2> QED
    BY <2>2 DEF WellLaid, Numbered, OffsetsAlong
<1>10. ASSUME NEW p \in AllPaths, NEW q \in AllPaths, PartsBefore(t, p, q)
       PROVE  PartsBefore(s, p, q)
  <2>1. PICK n \in 1..Len(p) :
           /\ n <= Len(q) /\ PartAt(p, q, n) /\ p[n] < q[n]
           /\ Steps(t, p)[n - 1].type.kind = "struct"
    BY <1>10 DEF PartsBefore
  <2>2. n - 1 \in 0..Len(p)
    BY PathFacts
  <2>3. Steps(s, p)[n - 1].type.kind = "struct"
    BY <1>3, <2>1, <2>2 DEF SameWalk
  <2> QED
    BY <2>1, <2>3 DEF PartsBefore
<1>11. Ordered(t)
  <2> SUFFICES ASSUME NEW p \in Leaves(t), NEW q \in Leaves(t), PartsBefore(t, p, q)
               PROVE  End(t, p) <= Beginning(t, q)
    BY DEF Ordered
  <2>1. PartsBefore(s, p, q)
    BY <1>5, <1>10
  <2>2. End(s, p) <= Beginning(s, q)
    BY <1>5, <2>1 DEF WellLaid, Ordered
  <2> QED
    BY <1>4, <1>5, <1>7, <2>2
<1>12. UnionInUnion(s) => UnionInUnion(t)
  <2> SUFFICES ASSUME UnionInUnion(s)
               PROVE  UnionInUnion(t)
    OBVIOUS
  <2>1. PICK p \in AllPaths :
           Follow(s, p).kind = "union" /\ Steps(s, p)[Len(p) - 1].type.kind = "union"
    BY DEF UnionInUnion
  <2>2. Len(p) - 1 \in 0..Len(p)
    BY PathFacts
  <2>3. Steps(t, p)[Len(p) - 1].type.kind = "union" /\ Follow(t, p).kind = "union"
    BY <1>3, <1>4, <2>1, <2>2 DEF SameWalk
  <2> QED
    BY <2>1, <2>3 DEF UnionInUnion
<1>13. Aligned(t)
  BY <1>4, <1>5, <1>12 DEF WellLaid, Aligned
<1>14. Strict(t)
  BY <1>2, <1>4, <1>5, <1>12 DEF WellLaid, Strict
<1>15. AtZero(t) /\ \A k \in DOMAIN t.elems : AtZero(t.elems[k])
  BY <1>2 DEF WellLaid, AtZero
<1>16. Compiled(t)
  <2> SUFFICES ASSUME StrictThroughout(t)
               PROVE  /\ t.size = t.csize /\ t.align = ByteAlign
                      /\ \A p \in AllPaths : CompiledAlong(t, p)
    BY DEF Compiled
  <2>1. Paths(s) \subseteq AllPaths
    BY DEF Paths
  <2>2. StrictThroughout(s)
    BY <1>2, <1>4, <1>5, <2>1 DEF StrictThroughout
  <2>3. /\ s.size = s.csize /\ s.align = ByteAlign
        /\ \A p \in AllPaths : CompiledAlong(s, p)
    BY <2>2 DEF WellLaid, Compiled
  <2>4. ASSUME NEW p \in AllPaths, NEW n \in 1..Len(p),
               p[n] \in DOMAIN Steps(t, p)[n - 1].type.elems
        PROVE  Steps(t, p)[n].type.coff = Steps(t, p)[n].type.off
    <3>1. n - 1 \in 0..Len(p)
      BY PathFacts
    <3>2. /\ Steps(t, p)[n - 1].type.elems = Steps(s, p)[n - 1].type.elems
          /\ Steps(t, p)[n].type = Steps(s, p)[n].type
      BY <1>3, <3>1 DEF SameWalk
    <3> QED
      BY <2>3, <2>4, <3>2 DEF CompiledAlong
  <2> QED
    BY <1>2, <2>3, <2>4 DEF CompiledAlong
<1> QED
  BY <1>2, <1>6, <1>8, <1>9, <1>11, <1>13, <1>14, <1>15, <1>16 DEF WellLaid, t
-----------------------------------------------------------------------------
\* A sequence is one of its own elements.
LEMMA OwnElements ==
    ASSUME NEW q, IsSeq(q)
    PROVE  q \in Seq({q[i] : i \in DOMAIN q}) /\ DOMAIN q = 1..Len(q) /\ Len(q) \in Nat
<1>1. PICK U : q \in Seq(U)
  BY DEF IsSeq
<1>2. q \in [1..Len(q) -> U] /\ Len(q) \in Nat /\ DOMAIN q = 1..Len(q)
  BY <1>1
<1>3. q \in [1..Len(q) -> {q[i] : i \in DOMAIN q}]
  BY <1>2
<1> QED
  BY <1>2, <1>3, FunctionSeq

LEMMA FunctionIsSeq ==
    ASSUME NEW n \in Nat, NEW q, q = [i \in 1..n |-> q[i]]
    PROVE  IsSeq(q) /\ Len(q) = n
<1>1. q \in [1..n -> {q[i] : i \in 1..n}]
  OBVIOUS
<1>2. q \in Seq({q[i] : i \in 1..n}) /\ Len(q) = n
  <2> DEFINE U == {q[i] : i \in 1..n}
  <2> HIDE DEF U
  <2>1. q \in [1..n -> U]
    BY <1>1 DEF U
  <2>2. q \in Seq(U) /\ Len(q) = n
    BY <2>1, FunctionSeq
  <2> QED
    BY <2>2 DEF U
<1> QED
  BY <1>2 DEF IsSeq

\* Every member that the program can name is fit to become one.
LEMMA FieldFacts ==
    ASSUME LayoutInv, NEW fs \in FieldLists
    PROVE  /\ Len(fs) \in 1..MaxFields /\ Len(fs) \in Nat /\ DOMAIN fs = 1..Len(fs)
           /\ Len(types) \in Nat /\ DOMAIN types = 1..Len(types)
           /\ \A k \in 1..Len(fs) : Sound(TypeOf(fs[k]), Len(types))
<1>1. PICK n \in 1..MaxFields : fs \in [1..n -> Members]
  BY DEF FieldLists
<1>2. n \in Nat
  BY LayoutAssumption
<1>3. Len(fs) = n /\ DOMAIN fs = 1..n
  BY <1>1, <1>2, FunctionSeq
<1>4. IsSeq(types)
  BY DEF LayoutInv, IsSeq
<1>5. Len(types) \in Nat /\ DOMAIN types = 1..Len(types)
  BY <1>4, OwnElements
<1>6. ASSUME NEW k \in 1..n
      PROVE  Sound(TypeOf(fs[k]), Len(types))
  <2> DEFINE m == fs[k]
  <2>1. m \in Members
    BY <1>1
  <2> HIDE DEF m
  <2>2. CASE \E b \in Base : m = <<"base", b>>
    <3>1. PICK b \in Base : m = <<"base", b>>
      BY <2>2
    <3>2. TypeOf(m) = BaseType(b)
      BY <3>1 DEF TypeOf
    <3>3. b \in Nat \ {0}
      BY LayoutAssumption
    <3>4. MemberOK(BaseType(b)) /\ BaseType(b).kind = "base"
      BY <3>3 DEF MemberOK, BaseType
    <3> QED
      BY <3>2, <3>4 DEF Sound, m
  <2>3. CASE \E i \in 1..Len(types) : m = <<"held", i>>
    <3>1. PICK i \in 1..Len(types) : m = <<"held", i>>
      BY <2>3
    <3>2. TypeOf(m) = types[i]
      BY <3>1 DEF TypeOf
    <3>3. WellLaid(types[i], i)
      BY <1>5 DEF LayoutInv
    <3>4. Shape(types[i])
      BY <3>3 DEF WellLaid
    <3>5. MemberOK(types[i])
      <4> DEFINE t == types[i]
      <4> HIDE DEF t
      <4> QED
        BY <3>4 DEF MemberOK, Shape, t
    <3> QED
      BY <3>2, <3>3, <3>5 DEF Sound, m
  <2> QED
    BY <2>1, <2>2, <2>3 DEF Members
<1> QED
  BY <1>1, <1>2, <1>3, <1>5, <1>6

\* The loop over such members.
LEMMA FieldLoop ==
    ASSUME LayoutInv, NEW fs \in FieldLists, NEW kind \in {"struct", "union"}
    PROVE  LoopOK(kind, fs, Len(fs), Loop(kind, fs))
<1>1. Len(fs) \in Nat /\ \A k \in 1..Len(fs) : Sound(TypeOf(fs[k]), Len(types))
  BY FieldFacts
<1>2. \A k \in 1..Len(fs) : MemberOK(TypeOf(fs[k]))
  BY <1>1 DEF Sound
<1> QED
  BY <1>1, <1>2, LoopFacts

\* The types that the program holds keep their layout when they become members.
LEMMA LocatedFacts ==
    ASSUME LayoutInv, NEW fs \in FieldLists, NEW store,
           \A k \in 1..Len(fs) : store[k].off \in Nat
    PROVE  /\ IsSeq(Located(fs, store)) /\ Len(Located(fs, store)) = Len(types)
           /\ \A i \in 1..Len(types) : WellLaid(Located(fs, store)[i], i)
<1> DEFINE L == Located(fs, store)
           N == Len(types)
           Uses(i) == {k \in DOMAIN fs : fs[k] = <<"held", i>>}
<1>1. N \in Nat /\ DOMAIN types = 1..N /\ Len(fs) \in Nat /\ DOMAIN fs = 1..Len(fs)
  BY FieldFacts
<1>2. L = [i \in 1..N |-> IF Uses(i) = {} THEN types[i]
                          ELSE [types[i] EXCEPT !.off = store[Max(Uses(i))].off]]
  BY <1>1 DEF Located
<1> HIDE DEF L
<1>3. IsSeq(L) /\ Len(L) = N
  <2>1. L = [i \in 1..N |-> L[i]]
    BY <1>2
  <2> QED
    BY <1>1, <2>1, FunctionIsSeq
<1>4. ASSUME NEW i \in 1..N
      PROVE  WellLaid(L[i], i)
  <2>1. WellLaid(types[i], i)
    BY <1>1 DEF LayoutInv
  <2>2. CASE Uses(i) = {}
    BY <1>2, <2>1, <2>2
  <2>3. CASE Uses(i) # {}
    <3> DEFINE U == Uses(i)
    <3>1. U \in SUBSET (0..Len(fs)) /\ U \subseteq 1..Len(fs)
      BY <1>1
    <3> HIDE DEF U
    <3>2. \E n \in U : \A m \in U : n >= m
      BY <1>1, <2>3, <3>1, GreatestNumber DEF U
    <3>3. Max(U) \in U
      BY <3>2 DEF Max
    <3>4. store[Max(U)].off \in Nat
      BY <3>1, <3>3
    <3>5. L[i] = [types[i] EXCEPT !.off = store[Max(U)].off]
      BY <1>2, <2>3 DEF U
    <3> QED
      BY <2>1, <3>4, <3>5, Relocated
  <2> QED
    BY <2>2, <2>3
<1> QED
  BY <1>3, <1>4 DEF L

\* The object that Struct and Union bless is composed of their members.
LEMMA AggregateComposed ==
    ASSUME LayoutInv, NEW fs \in FieldLists, NEW kind \in {"struct", "union"},
           Len(types) < MaxTypes
    PROVE  Composed(Aggregate(kind, Loop(kind, fs), fs),
                    [k \in 1..Len(fs) |-> TypeOf(fs[k])], Len(types))
<1> DEFINE a == Loop(kind, fs)
           t == Aggregate(kind, a, fs)
           N == Len(fs)
           S == [k \in 1..N |-> TypeOf(fs[k])]
           d == Len(types)
<1>1. /\ N \in 1..MaxFields /\ N \in Nat /\ N > 0 /\ d \in Nat /\ d < MaxTypes
      /\ DOMAIN fs = 1..N
      /\ \A k \in 1..N : Sound(TypeOf(fs[k]), d)
  BY FieldFacts
<1>2. LoopOK(kind, fs, N, a)
  BY FieldLoop
<1>3. /\ t.kind = kind /\ t.size = Padded(a.size) /\ t.align = a.align /\ t.off = 0
      /\ t.elems = a.store
      /\ t.calign = CAlign(fs) /\ t.csize = RoundUp(a.csize, CAlign(fs))
      /\ t \in [kind : {t.kind}, size : {t.size}, align : {t.align}, off : {t.off},
                elems : {t.elems}, csize : {t.csize}, calign : {t.calign},
                coff : {t.coff}]
  BY DEF Aggregate
<1> HIDE DEF a, t
<1>4. IsSeq(a.store) /\ Len(a.store) = N /\ a.size \in Nat
  BY <1>2 DEF LoopOK
<1>5. a.store \in Seq({a.store[k] : k \in DOMAIN a.store}) /\ DOMAIN a.store = 1..N
  BY <1>4, OwnElements
<1>6. t.size \in Nat \ {0} /\ t.size >= a.size /\ t.size % ByteAlign = 0
  BY <1>3, <1>4, PaddedFacts
<1>7. \A k \in 1..N : S[k] = TypeOf(fs[k])
  OBVIOUS
<1> HIDE DEF S
<1>8. ASSUME NEW k \in 1..N
      PROVE  Sound(S[k], d) /\ MemberOK(S[k]) /\ Placed(S[k], t.elems[k], t.size)
  <2>1. Placed(TypeOf(fs[k]), a.store[k], a.size)
    BY <1>2 DEF LoopOK
  <2>2. Placed(S[k], t.elems[k], t.size)
    BY <1>3, <1>4, <1>6, <1>7, <2>1 DEF Placed
  <2> QED
    BY <1>1, <1>7, <2>2 DEF Sound
<1>9. kind = "struct" =>
         /\ a.align = ByteAlign
         /\ \A k, l \in 1..N : k < l => a.store[k].off + a.store[k].size <= a.store[l].off
  BY <1>1, <1>2 DEF LoopOK
<1>10. ASSUME kind = "union"
       PROVE  \E w \in 1..N : a.align = S[w].align /\ \A k \in 1..N : S[k].size <= S[w].size
  <2>1. PICK w \in 1..N : a.align = TypeOf(fs[w]).align /\ a.size = TypeOf(fs[w]).size
    BY <1>1, <1>2, <1>10 DEF LoopOK
  <2>2. ASSUME NEW k \in 1..N
        PROVE  S[k].size <= S[w].size
    <3>1. Placed(S[k], a.store[k], a.size)
      BY <1>2, <1>7 DEF LoopOK
    <3>2. a.size = S[w].size
      BY <1>7, <2>1
    <3> QED
      BY <1>4, <3>1, <3>2 DEF Placed, Clone
  <2> QED
    BY <1>7, <2>1, <2>2
<1>11. t.align \in Base \cup {ByteAlign}
  <2>1. CASE kind = "struct"
    BY <1>3, <1>9, <2>1
  <2>2. CASE kind = "union"
    <3>1. PICK w \in 1..N : a.align = S[w].align
      BY <1>10, <2>2
    <3> QED
      BY <1>3, <1>8, <3>1, MemberTypes
  <2> QED
    BY <2>1, <2>2
<1>12. Shape(t)
  BY <1>1, <1>3, <1>4, <1>5, <1>6, <1>9, <1>11 DEF Shape
<1>13. AtZero(t)
  BY <1>2, <1>3, <1>5 DEF AtZero, LoopOK
<1>14. t.calign = Max({S[k].calign : k \in DOMAIN t.elems})
  <2>1. {S[k].calign : k \in DOMAIN t.elems} = {TypeOf(fs[k]).calign : k \in DOMAIN fs}
    BY <1>1, <1>3, <1>5, <1>7
  <2> QED
    BY <1>3, <2>1 DEF CAlign
<1>15. a.size > 0
  <2>1. 1 \in 1..N
    BY <1>1
  <2>2. Placed(S[1], a.store[1], a.size) /\ MemberOK(S[1])
    BY <1>2, <1>7, <1>8, <2>1 DEF LoopOK
  <2>3. S[1].size > 0 /\ S[1].size \in Nat
    BY <2>2, MemberTypes
  <2> QED
    BY <1>4, <2>2, <2>3 DEF Placed, Clone
<1>16. ASSUME \A k \in DOMAIN t.elems : S[k].size = S[k].csize /\ S[k].align = S[k].calign
       PROVE  /\ \A k \in DOMAIN t.elems : t.elems[k].off = t.elems[k].coff
              /\ t.calign = ByteAlign => t.size = t.csize
  <2>1. AsInC(fs, N)
    BY <1>3, <1>5, <1>7, <1>16 DEF AsInC
  <2>2. a.size = a.csize /\ \A k \in 1..N : a.store[k].off = a.store[k].coff
    BY <1>2, <2>1 DEF LoopOK
  <2>3. t.calign = ByteAlign => t.size = t.csize
    BY <1>3, <1>4, <1>15, <2>2, PaddedRoundUp
  <2> QED
    BY <1>3, <1>5, <2>2, <2>3
<1>17. Composed(t, S, d)
  BY <1>1, <1>3, <1>5, <1>8, <1>9, <1>10, <1>12, <1>13, <1>14, <1>16 DEF Composed
<1> QED
  BY <1>17 DEF t, S, a

\* A sequence of well laid types.
AllWellLaid(q) ==
    IsSeq(q) /\ Len(q) <= MaxTypes /\ \A i \in 1..Len(q) : WellLaid(q[i], i)

LEMMA LayoutInvOf ==
    ASSUME AllWellLaid(types)
    PROVE  LayoutInv
<1>1. /\ types \in Seq({types[i] : i \in DOMAIN types})
      /\ DOMAIN types = 1..Len(types) /\ Len(types) \in Nat
  BY OwnElements DEF AllWellLaid
<1> QED
  BY <1>1 DEF AllWellLaid, LayoutInv

\* Struct or Union adds a well laid type to well laid ones.
LEMMA MakeKeeps ==
    ASSUME LayoutInv, NEW fs \in FieldLists, NEW kind \in {"struct", "union"},
           Make(kind, Loop(kind, fs), fs)
    PROVE  AllWellLaid(types')
<1> DEFINE a == Loop(kind, fs)
           t == Aggregate(kind, a, fs)
           L == Located(fs, a.store)
           N == Len(types)
<1>1. N < MaxTypes /\ types' = Append(L, t)
  BY DEF Make
<1>2. N \in Nat
  BY FieldFacts
<1>3. WellLaid(t, N + 1)
  BY <1>1, AggregateComposed, ComposedWellLaid
<1>4. \A k \in 1..Len(fs) : a.store[k].off \in Nat
  BY FieldLoop DEF LoopOK, Placed
<1>5. IsSeq(L) /\ Len(L) = N /\ \A i \in 1..N : WellLaid(L[i], i)
  BY <1>4, LocatedFacts
<1> HIDE DEF t, L
<1>6. /\ IsSeq(types') /\ Len(types') = N + 1
      /\ \A i \in 1..N : types'[i] = L[i]
      /\ types'[N + 1] = t
  BY <1>1, <1>5, AppendAny
<1>7. Len(types') <= MaxTypes
  BY <1>1, <1>2, <1>6, LayoutAssumption
<1>8. ASSUME NEW i \in 1..(N + 1)
      PROVE  WellLaid(types'[i], i)
  <2>1. i \in 1..N \/ i = N + 1
    BY <1>2
  <2> QED
    BY <1>3, <1>5, <1>6, <2>1
<1> QED
  BY <1>6, <1>7, <1>8 DEF AllWellLaid

LEMMA LayoutInit ==
    ASSUME Init
    PROVE  LayoutInv
<1>1. types = <<>> /\ Len(types) = 0
  BY DEF Init
<1>2. IsSeq(types)
  BY <1>1 DEF IsSeq
<1>3. AllWellLaid(types)
  BY <1>1, <1>2, LayoutAssumption DEF AllWellLaid
<1> QED
  BY <1>3, LayoutInvOf

LEMMA LayoutStep ==
    ASSUME LayoutInv, [Next]_types
    PROVE  LayoutInv'
<1>1. CASE UNCHANGED types
  BY <1>1 DEF LayoutInv
<1>2. CASE Next
  <2>1. PICK fs \in FieldLists : Struct(fs) \/ StructDies(fs) \/ Union(fs)
    BY <1>2 DEF Next
  <2>2. AllWellLaid(types')
    <3>1. CASE Struct(fs)
      BY <3>1, MakeKeeps DEF Struct
    <3>2. CASE Union(fs)
      BY <3>2, MakeKeeps DEF Union
    <3>3. CASE StructDies(fs)
      <4> DEFINE a == Loop("struct", fs)
      <4>1. types' = Located(fs, a.store)
        BY <3>3 DEF StructDies
      <4>2. \A k \in 1..Len(fs) : a.store[k].off \in Nat
        BY FieldLoop DEF LoopOK, Placed
      <4>3. /\ IsSeq(types') /\ Len(types') = Len(types)
            /\ \A i \in 1..Len(types) : WellLaid(types'[i], i)
        BY <4>1, <4>2, LocatedFacts
      <4>4. Len(types) <= MaxTypes
        BY DEF LayoutInv
      <4> QED
        BY <4>3, <4>4 DEF AllWellLaid
    <3> QED
      BY <2>1, <3>1, <3>2, <3>3
  <2>3. /\ types' \in Seq({types'[i] : i \in DOMAIN types'})
        /\ DOMAIN types' = 1..Len(types') /\ Len(types') \in Nat
    BY <2>2, OwnElements DEF AllWellLaid
  <2> QED
    BY <2>2, <2>3 DEF AllWellLaid, LayoutInv
<1> QED
  BY <1>1, <1>2

\* Every aggregate that Struct and Union build out of basic types and of each
\* other's aggregates, at any depth and however often a type is reused or a
\* Struct dies half way, satisfies the inductive invariant.
THEOREM LayoutInvariant == Spec => []LayoutInv
  BY LayoutInit, LayoutStep, PTL DEF Spec

\* The sizes are positive multiples of BYTE_ALIGN, the alignments those of a
\* basic type or BYTE_ALIGN, and the offsets written into the types numbers.
THEOREM TypeCorrect == Spec => []TypeOK
<1>1. LayoutInv => TypeOK
  <2> SUFFICES ASSUME LayoutInv
               PROVE  TypeOK
    OBVIOUS
  <2>1. ASSUME NEW i \in DOMAIN types
        PROVE  /\ types[i].kind \in {"struct", "union"}
               /\ types[i].size % ByteAlign = 0 /\ types[i].size > 0
               /\ types[i].align \in Base \cup {ByteAlign}
               /\ types[i].off \in Nat
               /\ Len(types[i].elems) \in 1..MaxFields
    <3> DEFINE t == types[i]
    <3>1. Shape(t)
      BY <2>1 DEF LayoutInv, WellLaid
    <3> HIDE DEF t
    <3>2. /\ t.kind \in {"struct", "union"} /\ t.size % ByteAlign = 0 /\ t.size \in Nat \ {0}
          /\ t.align \in Base \cup {ByteAlign} /\ t.off \in Nat
          /\ Len(t.elems) \in 1..MaxFields
      BY <3>1 DEF Shape
    <3> QED
      BY <3>2 DEF t
  <2> QED
    BY <2>1 DEF TypeOK, LayoutInv
<1> QED
  BY <1>1, LayoutInvariant, PTL

\* Paths that agree lead to the same place.
LEMMA SamePrefix ==
    ASSUME NEW t, NEW p \in AllPaths, NEW q \in AllPaths, NEW m \in Nat,
           m <= Len(p), m <= Len(q), \A k \in 1..m : p[k] = q[k]
    PROVE  Steps(t, p)[m] = Steps(t, q)[m]
<1> DEFINE T == {n \in Nat : n <= m => Steps(t, p)[n] = Steps(t, q)[n]}
<1>0. Len(p) \in Nat /\ Len(q) \in Nat
  BY PathFacts
<1>1. 0 \in T
  <2>1. Steps(t, p)[0] = Steps(t, q)[0]
    BY <1>0, StepsUnfold
  <2> QED
    BY <2>1
<1>2. ASSUME NEW n \in 0..(m - 1), n \in T
      PROVE  n + 1 \in T
  <2>1. /\ n + 1 \in 1..Len(p) /\ n + 1 \in 1..Len(q) /\ (n + 1) - 1 = n /\ n + 1 \in Nat
        /\ n + 1 \in 1..m /\ n <= m
    BY <1>0
  <2>2. Steps(t, p)[n] = Steps(t, q)[n] /\ p[n + 1] = q[n + 1]
    BY <1>2, <2>1
  <2> DEFINE i == n + 1
  <2> HIDE DEF i
  <2>3. Steps(t, p)[i] = Enter(Steps(t, p)[i - 1], p[i])
    <3>1. i \in 1..Len(p)
      BY <2>1 DEF i
    <3> QED
      BY <1>0, <3>1, StepsUnfold
  <2>4. Steps(t, q)[i] = Enter(Steps(t, q)[i - 1], q[i])
    <3>1. i \in 1..Len(q)
      BY <2>1 DEF i
    <3> QED
      BY <1>0, <3>1, StepsUnfold
  <2>5. i - 1 = n
    BY <2>1 DEF i
  <2>6. Steps(t, p)[i] = Steps(t, q)[i]
    BY <2>2, <2>3, <2>4, <2>5 DEF i
  <2> QED
    BY <2>1, <2>6 DEF i
<1>3. T \in SUBSET Nat
  OBVIOUS
<1> HIDE DEF T
<1>4. 0..m \subseteq T
  BY <1>1, <1>2, <1>3, SetInduction
<1> QED
  BY <1>4 DEF T

\* Of two paths that part in a struct one is the first.
LEMMA PartsOneWay ==
    ASSUME NEW t, NEW p \in AllPaths, NEW q \in AllPaths, PartInStruct(t, p, q)
    PROVE  PartsBefore(t, p, q) \/ PartsBefore(t, q, p)
<1>1. PICK n \in 1..Len(p) :
         n <= Len(q) /\ PartAt(p, q, n) /\ Steps(t, p)[n - 1].type.kind = "struct"
  BY DEF PartInStruct
<1>2. /\ Len(p) \in Nat /\ Len(q) \in Nat /\ p \in [1..Len(p) -> 1..MaxFields]
      /\ q \in [1..Len(q) -> 1..MaxFields]
  BY PathFacts
<1>3. n \in 1..Len(q) /\ n <= Len(p) /\ n - 1 \in Nat /\ n - 1 <= Len(p) /\ n - 1 <= Len(q)
  BY <1>1, <1>2
<1>4. p[n] \in Nat /\ q[n] \in Nat /\ p[n] # q[n]
  BY <1>1, <1>2, <1>3 DEF PartAt
<1>5. CASE p[n] < q[n]
  BY <1>1, <1>5 DEF PartsBefore
<1>6. CASE q[n] < p[n]
  <2>1. PartAt(q, p, n)
    BY <1>1 DEF PartAt
  <2>2. Steps(t, p)[n - 1] = Steps(t, q)[n - 1]
    BY <1>1, <1>3, SamePrefix DEF PartAt
  <2> QED
    BY <1>1, <1>3, <1>6, <2>1, <2>2 DEF PartsBefore
<1> QED
  BY <1>4, <1>5, <1>6

LEMMA OrderedApart ==
    ASSUME NEW t, Ordered(t)
    PROVE  Apart(t)
<1> SUFFICES ASSUME NEW p \in Leaves(t), NEW q \in Leaves(t), PartInStruct(t, p, q)
             PROVE  End(t, p) <= Beginning(t, q) \/ End(t, q) <= Beginning(t, p)
  BY DEF Apart
<1>1. p \in AllPaths /\ q \in AllPaths
  BY DEF Leaves
<1> QED
  BY <1>1, PartsOneWay DEF Ordered

\* At any depth of nesting the basic members lie inside the aggregate, and two of
\* them overlap only as parts of different members of a union.
THEOREM LeavesNeverOverlap == Spec => []LeavesApart
<1>1. LayoutInv => LeavesApart
  BY OrderedApart DEF LayoutInv, WellLaid, LeavesApart
<1> QED
  BY <1>1, LayoutInvariant, PTL

\* Unless a union is a member of a union, every basic member is aligned: the
\* alignment that Union takes from its first largest member is strict enough for
\* all of them, because the sizes of structs are padded to BYTE_ALIGN.
THEOREM LeavesStayAligned == Spec => []LeavesAligned
<1>1. LayoutInv => LeavesAligned
  BY DEF LayoutInv, WellLaid, LeavesAligned
<1> QED
  BY <1>1, LayoutInvariant, PTL
-----------------------------------------------------------------------------
\* A path with the offsets of the C ABI ends where it ends by the C ABI.
LEMMA SameBeginnings ==
    ASSUME NEW t, NEW p \in AllPaths, CompiledAlong(t, p)
    PROVE  Beginning(t, p) = CBeginning(t, p)
<1> DEFINE A == Steps(t, p)
           T == {n \in Nat : n <= Len(p) => A[n].begin = A[n].cbegin}
<1>0. Len(p) \in Nat
  BY PathFacts
<1>1. 0 \in T
  <2>1. A[0] = [type |-> t, begin |-> 0, cbegin |-> 0]
    BY <1>0, StepsUnfold
  <2> HIDE DEF A
  <2> QED
    BY <2>1
<1>2. ASSUME NEW n \in 0..(Len(p) - 1), n \in T
      PROVE  n + 1 \in T
  <2>1. n + 1 \in 1..Len(p) /\ (n + 1) - 1 = n /\ n + 1 \in Nat /\ n <= Len(p)
    BY <1>0
  <2>2. A[n].begin = A[n].cbegin
    BY <1>2, <2>1
  <2>3. A[n + 1] = Enter(A[n], p[n + 1])
    BY <1>0, <2>1, StepsUnfold
  <2>4. p[n + 1] \in DOMAIN A[n].type.elems => A[n + 1].type.coff = A[n + 1].type.off
    BY <2>1 DEF CompiledAlong
  <2> HIDE DEF A
  <2>5. A[n + 1].begin = A[n + 1].cbegin
    <3>1. CASE p[n + 1] \in DOMAIN A[n].type.elems
      <4>1. /\ A[n + 1].begin = A[n].begin + A[n + 1].type.off
            /\ A[n + 1].cbegin = A[n].cbegin + A[n + 1].type.coff
        BY <2>3, <3>1 DEF Enter
      <4> QED
        BY <2>2, <2>4, <3>1, <4>1
    <3>2. CASE p[n + 1] \notin DOMAIN A[n].type.elems
      <4>1. A[n + 1].begin = A[n].begin /\ A[n + 1].cbegin = A[n].cbegin
        BY <2>3, <3>2 DEF Enter
      <4> QED
        BY <2>2, <4>1
    <3> QED
      BY <3>1, <3>2
  <2> QED
    BY <2>1, <2>5
<1>3. T \in SUBSET Nat
  OBVIOUS
<1> HIDE DEF T
<1>4. 0..Len(p) \subseteq T
  BY <1>0, <1>1, <1>2, <1>3, SetInduction
<1>5. A[Len(p)].begin = A[Len(p)].cbegin
  BY <1>0, <1>4 DEF T
<1> QED
  BY <1>5 DEF Beginning, CBeginning, Walk

\* Where every aggregate has a member of the strictest alignment, the size and the
\* offsets that Struct and Union compute are those of the C ABI, at every depth.
THEOREM LaidOutAsCompiled == Spec => []AsCompiled
<1>1. LayoutInv => AsCompiled
  <2> SUFFICES ASSUME LayoutInv, NEW i \in DOMAIN types, StrictThroughout(types[i])
               PROVE  /\ types[i].size = types[i].csize
                      /\ \A p \in Paths(types[i]) :
                            Beginning(types[i], p) = CBeginning(types[i], p)
    BY DEF AsCompiled
  <2>1. Compiled(types[i])
    BY DEF LayoutInv, WellLaid
  <2>2. /\ types[i].size = types[i].csize
        /\ \A p \in AllPaths : CompiledAlong(types[i], p)
    BY <2>1 DEF Compiled
  <2>3. Paths(types[i]) \subseteq AllPaths
    BY DEF Paths
  <2> QED
    BY <2>2, <2>3, SameBeginnings
<1> QED
  BY <1>1, LayoutInvariant, PTL

\* The steps of a path that leads somewhere.
LEMMA PathSteps ==
    ASSUME NEW t, NEW p \in Paths(t), NEW n \in 1..Len(p), Numbered(t)
    PROVE  /\ Len(p) \in Nat
           /\ p[n] \in DOMAIN Steps(t, p)[n - 1].type.elems
           /\ Steps(t, p)[n].type = Steps(t, p)[n - 1].type.elems[p[n]]
           /\ Steps(t, p)[n].begin = Steps(t, p)[n - 1].begin + Steps(t, p)[n].type.off
           /\ Steps(t, p)[n].type.off \in Nat
<1>1. p \in AllPaths /\ Follow(t, p) # Hole
  BY DEF Paths, Hole
<1>2. Len(p) \in Nat /\ Len(p) \in n..Len(p)
  BY <1>1, PathFacts
<1>3. p[n] \in DOMAIN Steps(t, p)[n - 1].type.elems
  <2> SUFFICES ASSUME p[n] \notin DOMAIN Steps(t, p)[n - 1].type.elems
               PROVE  FALSE
    OBVIOUS
  <2>1. Steps(t, p)[Len(p)].type = Hole
    BY <1>2, HoleStays
  <2> QED
    BY <1>1, <2>1 DEF Follow, Walk
<1>4. Stepped(Steps(t, p)[n - 1], Steps(t, p)[n], p[n])
  BY <1>2, StepFields
<1>5. Steps(t, p)[n].type.off \in Nat
  BY <1>1, <1>3 DEF Numbered, OffsetsAlong
<1> QED
  BY <1>2, <1>3, <1>4, <1>5 DEF Stepped

\* offsetof stops at the first member that is of another class than t.
LEMMA StopsAtFacts ==
    ASSUME NEW t, NEW p, NEW m \in 1..Len(p), Len(p) \in Nat,
           m = Len(p) \/ Steps(t, p)[m].type.kind # t.kind,
           \A k \in 1..(m - 1) : Steps(t, p)[k].type.kind = t.kind
    PROVE  StopsAt(t, p) = m
<1> DEFINE Here(n) == /\ n = Len(p) \/ Steps(t, p)[n].type.kind # t.kind
                      /\ \A k \in 1..(n - 1) : Steps(t, p)[k].type.kind = t.kind
           x == StopsAt(t, p)
<1>1. Here(m)
  OBVIOUS
<1>2. x = CHOOSE n \in 1..Len(p) : Here(n)
  BY DEF StopsAt
<1> HIDE DEF x
<1>3. x \in 1..Len(p) /\ Here(x)
  <2> HIDE DEF Here
  <2> QED
    BY <1>1, <1>2
<1>4. CASE x < m
  <2>1. x \in 1..(m - 1)
    BY <1>3, <1>4
  <2> QED
    BY <1>3, <1>4, <2>1
<1>5. CASE x > m
  <2>1. m \in 1..(x - 1)
    BY <1>3, <1>5
  <2> QED
    BY <1>1, <1>3, <1>5, <2>1
<1>6. x = m
  BY <1>3, <1>4, <1>5
<1> QED
  BY <1>6 DEF x

LEMMA OffsetofTwoDeep ==
    ASSUME NEW t, NEW d, WellLaid(t, d), t.kind = "struct", t.off = 0,
           NEW p \in Paths(t), Len(p) <= 2
    PROVE  offsetof(t, p) = Beginning(t, p)
<1> DEFINE W == Steps(t, p)
           e == t.elems[p[1]]
<1>1. p \in AllPaths /\ Len(p) \in Nat /\ (Len(p) = 1 \/ Len(p) = 2) /\ 1 \in 1..Len(p)
  <2>1. p \in AllPaths
    BY DEF Paths
  <2>2. Len(p) \in Nat /\ Len(p) >= 1
    BY <2>1, PathFacts
  <2> DEFINE n == Len(p)
  <2>3. n = 1 \/ n = 2
    <3>1. n \in Nat /\ n >= 1 /\ n <= 2
      BY <2>2
    <3> HIDE DEF n
    <3> QED
      BY <3>1
  <2>4. 1 \in 1..Len(p)
    BY <2>2
  <2> QED
    BY <2>1, <2>2, <2>3, <2>4
<1>2. Numbered(t) /\ AtZero(t) /\ \A k \in DOMAIN t.elems : AtZero(t.elems[k])
  BY DEF WellLaid
<1>3. W[0].type = t /\ W[0].begin = 0
  BY <1>1, StepsStart
<1>4. /\ p[1] \in DOMAIN W[1 - 1].type.elems /\ W[1].type = W[1 - 1].type.elems[p[1]]
      /\ W[1].begin = W[1 - 1].begin + W[1].type.off /\ W[1].type.off \in Nat
  BY <1>1, <1>2, PathSteps
<1>5. p[1] \in DOMAIN t.elems /\ W[1].type = e /\ W[1].begin = e.off /\ e.off \in Nat
  <2> HIDE DEF W
  <2> QED
    BY <1>3, <1>4
<1>6. CASE Len(p) = 1
  <2>1. StopsAt(t, p) = 1
    <3>1. \A k \in 1..(1 - 1) : Steps(t, p)[k].type.kind = t.kind
      OBVIOUS
    <3> QED
      BY <1>1, <1>6, <3>1, StopsAtFacts
  <2>2. offsetof(t, p) = W[1].type.off + W[1 - 1].type.off
    BY <2>1 DEF offsetof
  <2>3. Beginning(t, p) = W[1].begin
    BY <1>6 DEF Beginning, Walk
  <2> HIDE DEF W
  <2> QED
    BY <1>3, <1>5, <2>2, <2>3
<1>7. CASE Len(p) = 2
  <2>1. /\ p[2] \in DOMAIN W[2 - 1].type.elems /\ W[2].type = W[2 - 1].type.elems[p[2]]
        /\ W[2].begin = W[2 - 1].begin + W[2].type.off /\ W[2].type.off \in Nat
    <3>1. 2 \in 1..Len(p)
      BY <1>7
    <3> QED
      BY <1>2, <3>1, PathSteps
  <2>2. Beginning(t, p) = W[2].begin
    BY <1>7 DEF Beginning, Walk
  <2>3. Beginning(t, p) = e.off + W[2].type.off
    <3> HIDE DEF W
    <3> QED
      BY <1>5, <2>1, <2>2
  <2>4. CASE e.kind = "struct"
    <3>1. StopsAt(t, p) = 2
      <4>1. \A k \in 1..(2 - 1) : k = 1
        OBVIOUS
      <4>2. \A k \in 1..(2 - 1) : Steps(t, p)[k].type.kind = t.kind
        BY <1>5, <2>4, <4>1
      <4>3. 2 \in 1..Len(p) /\ Len(p) \in Nat /\ 2 = Len(p)
        BY <1>1, <1>7
      <4> QED
        BY <4>2, <4>3, StopsAtFacts
    <3>2. offsetof(t, p) = W[2].type.off + W[2 - 1].type.off
      BY <3>1 DEF offsetof
    <3> HIDE DEF W
    <3> QED
      BY <1>5, <2>1, <2>3, <3>2
  <2>5. CASE e.kind # "struct"
    <3>1. StopsAt(t, p) = 1
      BY <1>1, <1>5, <2>5, StopsAtFacts
    <3>2. offsetof(t, p) = W[1].type.off + W[1 - 1].type.off
      BY <3>1 DEF offsetof
    <3>3. offsetof(t, p) = e.off
      <4> HIDE DEF W
      <4> QED
        BY <1>3, <1>5, <3>2
    <3>4. W[2].type.off = 0
      <4>1. AtZero(e)
        BY <1>2, <1>5
      <4> HIDE DEF W, e
      <4> QED
        BY <1>5, <2>1, <2>5, <4>1 DEF AtZero
    <3> QED
      BY <1>5, <2>3, <3>3, <3>4
  <2> QED
    BY <2>4, <2>5
<1> QED
  BY <1>1, <1>6, <1>7

\* offsetof is right on a struct that is no member of another one, for members and
\* members of members, however often the types in it were reused.
THEOREM OffsetofRight == Spec => []OffsetofNear
<1>1. LayoutInv => OffsetofNear
  <2> SUFFICES ASSUME LayoutInv, NEW i \in DOMAIN types, types[i].kind = "struct",
                      types[i].off = 0, NEW p \in Paths(types[i]), Len(p) <= 2
               PROVE  offsetof(types[i], p) = Beginning(types[i], p)
    BY DEF OffsetofNear
  <2>1. WellLaid(types[i], i)
    BY DEF LayoutInv
  <2> QED
    BY <2>1, OffsetofTwoDeep
<1> QED
  BY <1>1, LayoutInvariant, PTL

---------------------------------------------------------------------------
\* Structs in memory.

\* Where a path begins is a number.
LEMMA BeginningNat ==
    ASSUME NEW t, Numbered(t), NEW p \in Paths(t)
    PROVE  Beginning(t, p) \in Nat
<1> DEFINE A == Steps(t, p)
           T == {n \in Nat : n <= Len(p) => A[n].begin \in Nat}
<1>0. Len(p) \in Nat
  BY PathFacts DEF Paths
<1>1. 0 \in T
  <2>1. A[0].begin = 0
    BY <1>0, StepsStart
  <2> QED
    BY <2>1
<1>2. ASSUME NEW n \in 0..(Len(p) - 1), n \in T
      PROVE  n + 1 \in T
  <2> DEFINE i == n + 1
  <2>1. i \in 1..Len(p) /\ i - 1 = n /\ i \in Nat /\ n <= Len(p)
    BY <1>0
  <2> HIDE DEF i
  <2>2. A[i].begin = A[i - 1].begin + A[i].type.off /\ A[i].type.off \in Nat
    BY <2>1, PathSteps
  <2>3. A[n].begin \in Nat
    BY <1>2, <2>1
  <2> HIDE DEF A
  <2>4. A[i].begin \in Nat
    BY <2>1, <2>2, <2>3
  <2> QED
    BY <2>1, <2>4 DEF i
<1>3. T \in SUBSET Nat
  OBVIOUS
<1> HIDE DEF T
<1>4. 0..Len(p) \subseteq T
  BY <1>0, <1>1, <1>2, <1>3, SetInduction
<1>5. A[Len(p)].begin \in Nat
  BY <1>0, <1>4 DEF T
<1> QED
  BY <1>5 DEF Beginning, Walk

\* A basic member is some bytes of its aggregate.
LEMMA LeafFacts ==
    ASSUME NEW t, NEW d, WellLaid(t, d), NEW p \in Leaves(t)
    PROVE  /\ p \in AllPaths /\ Beginning(t, p) \in Nat
           /\ Follow(t, p).size \in Nat /\ Follow(t, p).size > 0
           /\ End(t, p) = Beginning(t, p) + Follow(t, p).size
           /\ End(t, p) <= t.size /\ t.size \in Nat
<1>1. p \in AllPaths /\ p \in Paths(t)
  BY DEF Leaves, Paths
<1>2. Beginning(t, p) \in Nat
  BY <1>1, BeginningNat DEF WellLaid
<1>3. Follow(t, p).size \in Base
  BY DEF WellLaid, BasicLeaves
<1>4. Follow(t, p).size \in Nat /\ Follow(t, p).size > 0
  <2>1. \A b \in Base : b \in Nat /\ b > 0
    BY LayoutAssumption
  <2> QED
    BY <1>3, <2>1
<1>5. End(t, p) <= t.size /\ t.size \in Nat
  BY DEF WellLaid, Inside, Shape
<1> QED
  BY <1>1, <1>2, <1>4, <1>5 DEF End

\* sv2ptr copies no element, one, or several.
LEMMA ElementsFacts ==
    ASSUME NEW t, NEW d, NEW p
    PROVE  /\ Elements(t, d, p) \in Nat
           /\ d[p] # "many" => Elements(t, d, p) \in {0, 1}
  BY MarshalAssumption DEF Elements

\* The bytes that sv2ptr writes begin at the member; one element fits in it.
LEMMA ExtentFacts ==
    ASSUME NEW t, NEW i, WellLaid(t, i), NEW d, NEW p \in Leaves(t),
           NEW a \in Extent(t, d, p)
    PROVE  /\ a \in Nat /\ Elements(t, d, p) > 0 /\ Beginning(t, p) <= a
           /\ d[p] # "many" => a < End(t, p)
<1> DEFINE b == Beginning(t, p)
           e == Elements(t, d, p)
           s == Follow(t, p).size
<1>1. b \in Nat /\ s \in Nat /\ s > 0 /\ End(t, p) = b + s
  BY LeafFacts
<1>2. e \in Nat /\ (d[p] # "many" => e \in {0, 1})
  BY ElementsFacts
<1>3. a \in b..(b + e * s - 1)
  BY DEF Extent
<1> HIDE DEF b, e, s
<1>4. e * s \in Nat
  BY <1>1, <1>2
<1>5. a \in Nat /\ b <= a /\ a <= b + e * s - 1
  BY <1>1, <1>3, <1>4
<1>6. e > 0
  <2>1. CASE e = 0
    <3>1. e * s = 0
      BY <1>1, <2>1
    <3> QED
      BY <1>1, <1>5, <3>1
  <2> QED
    BY <1>2, <2>1
<1>7. ASSUME d[p] # "many"
      PROVE  a < End(t, p)
  <2>1. e = 1
    BY <1>2, <1>6, <1>7
  <2>2. e * s = s
    BY <1>1, <2>1
  <2> QED
    BY <1>1, <1>5, <2>2
<1> QED
  BY <1>5, <1>6, <1>7 DEF b, e

\* sv2ptr writes all bytes of a member that it writes at all.
LEMMA ExtentCovers ==
    ASSUME NEW t, NEW i, WellLaid(t, i), NEW d, NEW p \in Leaves(t),
           Elements(t, d, p) > 0, NEW a \in Beginning(t, p)..(End(t, p) - 1)
    PROVE  a \in Extent(t, d, p)
<1> DEFINE b == Beginning(t, p)
           e == Elements(t, d, p)
           s == Follow(t, p).size
<1>1. b \in Nat /\ s \in Nat /\ s > 0 /\ End(t, p) = b + s
  BY LeafFacts
<1>2. e \in Nat /\ e > 0
  BY ElementsFacts
<1>3. a \in b..(b + s - 1)
  BY <1>1
<1>4. Extent(t, d, p) = b..(b + e * s - 1)
  BY DEF Extent
<1> HIDE DEF b, e, s
<1>5. e * s >= 1 * s /\ e * s \in Nat
  BY <1>1, <1>2
<1>6. a \in b..(b + e * s - 1)
  BY <1>1, <1>3, <1>5
<1> QED
  BY <1>4, <1>6
-----------------------------------------------------------------------------
\* The order of the fields: a path is not before itself or what is before it.
LEMMA BeforeOneWay ==
    ASSUME NEW p \in AllPaths, NEW q \in AllPaths, Before(p, q)
    PROVE  ~Before(q, p)
<1> SUFFICES ASSUME Before(q, p)
             PROVE  FALSE
  OBVIOUS
<1>1. PICK m \in 1..Len(p) :
         m <= Len(q) /\ p[m] < q[m] /\ \A k \in 1..(m - 1) : p[k] = q[k]
  BY DEF Before
<1>2. PICK n \in 1..Len(q) :
         n <= Len(p) /\ q[n] < p[n] /\ \A k \in 1..(n - 1) : q[k] = p[k]
  BY DEF Before
<1>3. /\ Len(p) \in Nat /\ Len(q) \in Nat /\ p \in [1..Len(p) -> 1..MaxFields]
      /\ q \in [1..Len(q) -> 1..MaxFields]
  BY PathFacts
<1>4. /\ m \in Nat /\ n \in Nat /\ m \in 1..Len(q) /\ n \in 1..Len(p) /\ m >= 1 /\ n >= 1
  BY <1>1, <1>2, <1>3
<1>5. p[m] \in Nat /\ q[m] \in Nat /\ p[n] \in Nat /\ q[n] \in Nat
  BY <1>3, <1>4
<1>6. p[m] # q[m] /\ p[n] # q[n]
  BY <1>1, <1>2, <1>5
<1>7. ~(m < n) /\ ~(n < m)
  <2>1. m < n => m \in 1..(n - 1)
    BY <1>4
  <2>2. n < m => n \in 1..(m - 1)
    BY <1>4
  <2> QED
    BY <1>1, <1>2, <1>6, <2>1, <2>2
<1>8. m = n
  BY <1>4, <1>7
<1> QED
  BY <1>1, <1>2, <1>5, <1>8

\* No path goes on behind a basic member.
LEMMA NoLongerLeaf ==
    ASSUME NEW t, NEW i, WellLaid(t, i), NEW p \in Leaves(t), NEW q \in Leaves(t),
           Len(p) < Len(q), \A k \in 1..Len(p) : p[k] = q[k]
    PROVE  FALSE
<1> DEFINE m == Len(p)
           n == m + 1
<1>1. p \in AllPaths /\ q \in AllPaths /\ Follow(t, q).kind = "base"
  BY DEF Leaves
<1>2. m \in Nat /\ Len(q) \in Nat
  BY <1>1, PathFacts
<1>3. Steps(t, p)[m] = Steps(t, q)[m]
  BY <1>1, <1>2, SamePrefix
<1>4. Follow(t, p).elems = <<>>
  BY DEF WellLaid, BasicLeaves
<1>5. n \in 1..Len(q) /\ n - 1 = m /\ Len(q) \in n..Len(q)
  BY <1>2
<1> HIDE DEF n
<1>6. DOMAIN Steps(t, q)[n - 1].type.elems = {}
  BY <1>3, <1>4, <1>5 DEF Follow, Walk
<1>7. Steps(t, q)[Len(q)].type = Hole
  BY <1>2, <1>5, <1>6, HoleStays
<1> QED
  BY <1>1, <1>7 DEF Follow, Walk, Hole

\* No basic member is a part of another one: of two, one comes first.
LEMMA LeavesInOrder ==
    ASSUME NEW t, NEW i, WellLaid(t, i), NEW p \in Leaves(t), NEW q \in Leaves(t), p # q
    PROVE  Before(p, q) \/ Before(q, p)
<1> DEFINE Differ == {n \in 1..Len(p) : n <= Len(q) /\ p[n] # q[n]}
<1>1. /\ p \in AllPaths /\ q \in AllPaths
      /\ Follow(t, p).kind = "base" /\ Follow(t, q).kind = "base"
  BY DEF Leaves
<1>2. /\ Len(p) \in Nat /\ Len(q) \in Nat /\ p \in [1..Len(p) -> 1..MaxFields]
      /\ q \in [1..Len(q) -> 1..MaxFields]
  BY <1>1, PathFacts
<1>3. CASE Differ # {}
  <2>1. Differ \in SUBSET Nat
    BY <1>2
  <2>2. PICK n \in Differ : \A m \in Differ : n <= m
    BY <1>3, <2>1, LeastNumber
  <2>3. /\ n \in 1..Len(p) /\ n \in 1..Len(q) /\ n <= Len(q) /\ n <= Len(p) /\ p[n] # q[n]
        /\ n \in Nat
    BY <1>2, <2>2
  <2>4. ASSUME NEW k \in 1..(n - 1)
        PROVE  p[k] = q[k]
    <3>1. k \in 1..Len(p) /\ k <= Len(q) /\ ~(n <= k)
      BY <1>2, <2>3
    <3>2. k \notin Differ
      BY <2>2, <3>1
    <3> QED
      BY <3>1, <3>2
  <2>5. p[n] \in Nat /\ q[n] \in Nat
    BY <1>2, <2>3
  <2>6. p[n] < q[n] \/ q[n] < p[n]
    BY <2>3, <2>5
  <2> QED
    BY <2>3, <2>4, <2>6 DEF Before
<1>4. CASE Differ = {}
  <2>1. \A n \in 1..Len(p) : n <= Len(q) => p[n] = q[n]
    BY <1>4
  <2> HIDE DEF Differ
  <2>2. CASE Len(p) = Len(q)
    <3>1. \A n \in 1..Len(p) : p[n] = q[n]
      BY <1>2, <2>1, <2>2
    <3>2. p = q
      BY <1>2, <2>2, <3>1
    <3> QED
      BY <3>2
  <2>3. CASE Len(p) < Len(q)
    <3>1. \A k \in 1..Len(p) : p[k] = q[k]
      BY <1>2, <2>1, <2>3
    <3> QED
      BY <1>1, <1>2, <2>3, <3>1, NoLongerLeaf
  <2>4. CASE Len(q) < Len(p)
    <3>1. \A k \in 1..Len(q) : k \in 1..Len(p) /\ k <= Len(q)
      BY <1>2, <2>4
    <3>2. \A k \in 1..Len(q) : q[k] = p[k]
      BY <2>1, <3>1
    <3> QED
      BY <1>1, <1>2, <2>4, <3>2, NoLongerLeaf
  <2>5. \A j, k \in Nat : j = k \/ j < k \/ k < j
    OBVIOUS
  <2>6. Len(p) = Len(q) \/ Len(p) < Len(q) \/ Len(q) < Len(p)
    BY <1>2, <2>5, Zenon
  <2> QED
    BY <2>2, <2>3, <2>4, <2>6
<1> QED
  BY <1>3, <1>4

\* Members that part in a struct lie in the order of the fields.
LEMMA BeforeEnds ==
    ASSUME NEW t, NEW i, WellLaid(t, i), NEW p \in Leaves(t), NEW q \in Leaves(t),
           Before(p, q), PartInStruct(t, p, q)
    PROVE  End(t, p) <= Beginning(t, q)
<1>1. p \in AllPaths /\ q \in AllPaths
  BY DEF Leaves
<1>2. PartsBefore(t, p, q) \/ PartsBefore(t, q, p)
  BY <1>1, PartsOneWay
<1>3. PartsBefore(t, q, p) => Before(q, p)
  BY DEF PartsBefore, PartAt, Before
<1>4. PartsBefore(t, p, q)
  BY <1>1, <1>2, <1>3, BeforeOneWay
<1> QED
  BY <1>4 DEF WellLaid, Ordered

\* The members that sv2ptr writes into byte a.
Writers(t, d, a) == {p \in Leaves(t) : Reached(t, d, p) /\ a \in Extent(t, d, p)}

\* What sv2ptr leaves in a byte.
LEMMA WrittenFacts ==
    ASSUME NEW t, NEW d, NEW a \in 0..(t.size + MaxMany * ByteAlign)
    PROVE  Written(t, d)[a] =
              CASE Writers(t, d, a) = {}                     -> Zero
                [] d[LastOf(Writers(t, d, a))] = "undef"     -> Zero
                [] OTHER                                     -> LastOf(Writers(t, d, a))
<1> DEFINE L == {q \in Leaves(t) : Reached(t, d, q)}
           extents == [p \in L |-> Extent(t, d, p)]
           B == 0..(t.size + MaxMany * ByteAlign)
           block == Calloc(t.size)
           W(x) == {p \in DOMAIN extents : x \in extents[p]}
           Cell(x) == CASE W(x) = {}                 -> block[x]
                        [] d[LastOf(W(x))] = "undef" -> Zero
                        [] OTHER                     -> LastOf(W(x))
<1>1. DOMAIN block = B /\ block[a] = Zero
  BY DEF Calloc
<1>2. Written(t, d) = [x \in DOMAIN block |-> Cell(x)]
  BY DEF Written
<1>3. W(a) = Writers(t, d, a)
  BY DEF Writers
<1> HIDE DEF W, block
<1>4. Written(t, d)[a] = Cell(a)
  BY <1>1, <1>2
<1> QED
  BY <1>1, <1>3, <1>4

LEMMA WrittenDomain ==
    ASSUME NEW t, NEW d
    PROVE  DOMAIN Written(t, d) = 0..(t.size + MaxMany * ByteAlign)
  BY DEF Written, Calloc

\* A byte of a member, or one that a member's value reaches.
LEMMA InBlock ==
    ASSUME NEW n \in Nat, NEW a \in Nat, a <= n
    PROVE  a \in 0..(n + MaxMany * ByteAlign)
<1>1. MaxMany * ByteAlign \in Nat
  BY MarshalAssumption, LayoutAssumption
<1> QED
  BY <1>1

\* The block does not depend on where a type was last used.
LEMMA SameWritten ==
    ASSUME NEW t, NEW s, t.elems = s.elems, t.kind = s.kind, t.size = s.size, NEW d
    PROVE  Written(t, d) = Written(s, d)
<1>1. \A p \in AllPaths : Follow(t, p) = Follow(s, p) /\ Beginning(t, p) = Beginning(s, p)
  BY SameWalks DEF SameWalk
<1>2. Leaves(t) = Leaves(s) /\ Leaves(t) \subseteq AllPaths
  BY <1>1 DEF Leaves
<1>3. \A p \in Leaves(t) : Extent(t, d, p) = Extent(s, d, p)
  BY <1>1, <1>2 DEF Extent, Elements
<1>4. \A p : Reached(t, d, p) <=> Reached(s, d, p)
  BY DEF Reached
<1>5. \A a : Writers(t, d, a) = Writers(s, d, a)
  BY <1>2, <1>3, <1>4 DEF Writers
<1> DEFINE B == 0..(t.size + MaxMany * ByteAlign)
<1>6. DOMAIN Written(t, d) = B /\ DOMAIN Written(s, d) = B
  BY WrittenDomain
<1>7. ASSUME NEW a \in B
      PROVE  Written(t, d)[a] = Written(s, d)[a]
  BY <1>5, WrittenFacts
<1>8. Written(t, d) = [a \in B |-> Written(t, d)[a]] /\ Written(s, d) = [a \in B |-> Written(s, d)[a]]
  BY <1>6 DEF Written
<1> QED
  BY <1>7, <1>8
-----------------------------------------------------------------------------
\* Struct and Union only write offsets into the types that the program holds.
LEMMA HeldStaysSame ==
    ASSUME LayoutInv, Next, NEW i \in DOMAIN types
    PROVE  /\ i \in DOMAIN types'
           /\ types'[i].elems = types[i].elems /\ types'[i].kind = types[i].kind
           /\ types'[i].size = types[i].size
<1>1. PICK fs \in FieldLists : Struct(fs) \/ StructDies(fs) \/ Union(fs)
  BY DEF Next
<1>2. Len(types) \in Nat /\ DOMAIN types = 1..Len(types)
  BY <1>1, FieldFacts
<1>3. ASSUME NEW store
      PROVE  /\ Located(fs, store)[i].elems = types[i].elems
             /\ Located(fs, store)[i].kind = types[i].kind
             /\ Located(fs, store)[i].size = types[i].size
  <2>1. Shape(types[i])
    BY DEF LayoutInv, WellLaid
  <2>2. PICK o : \/ Located(fs, store)[i] = types[i]
                 \/ Located(fs, store)[i] = [types[i] EXCEPT !.off = o]
    BY DEF Located
  <2> QED
    BY <2>1, <2>2 DEF Shape
<1>4. PICK kind \in {"struct", "union"} :
         \/ Make(kind, Loop(kind, fs), fs)
         \/ types' = Located(fs, Loop(kind, fs).store)
  BY <1>1 DEF Struct, Union, StructDies
<1> DEFINE a == Loop(kind, fs)
           L == Located(fs, a.store)
<1>5. \A k \in 1..Len(fs) : a.store[k].off \in Nat
  BY FieldLoop DEF LoopOK, Placed
<1>6. IsSeq(L) /\ Len(L) = Len(types) /\ DOMAIN L = 1..Len(types)
  BY <1>5, LocatedFacts, OwnElements
<1>7. CASE types' = L
  BY <1>2, <1>3, <1>6, <1>7
<1>8. CASE Make(kind, a, fs)
  <2>1. PICK t : types' = Append(L, t)
    BY <1>8 DEF Make
  <2> HIDE DEF L
  <2>2. types'[i] = L[i] /\ IsSeq(types') /\ Len(types') = Len(types) + 1
    BY <1>2, <1>6, <2>1, AppendAny
  <2>3. DOMAIN types' = 1..(Len(types) + 1)
    BY <2>2, OwnElements
  <2> QED
    BY <1>2, <1>3, <2>2, <2>3 DEF L
<1> QED
  BY <1>4, <1>7, <1>8

LEMMA MarshalStep ==
    ASSUME MarshalInv, [MNext]_mvars
    PROVE  MarshalInv'
<1>1. CASE UNCHANGED mvars
  <2>1. types' = types /\ cur' = cur /\ data' = data /\ mem' = mem /\ status' = status
    BY <1>1 DEF mvars
  <2>2. LayoutInv'
    BY <2>1, LayoutStep DEF MarshalInv
  <2> QED
    BY <2>1, <2>2 DEF MarshalInv
<1>2. CASE MakeType
  <2>1. LayoutInv'
    BY <1>2, LayoutStep DEF MarshalInv, MakeType
  <2>2. ASSUME status' = "written"
        PROVE  cur' \in DOMAIN types' /\ mem' = Written(types'[cur'], data')
    <3>1. cur \in DOMAIN types /\ mem = Written(types[cur], data) /\ LayoutInv
      BY <1>2, <2>2 DEF MarshalInv, MakeType
    <3>2. cur' = cur /\ data' = data /\ mem' = mem /\ Next
      BY <1>2 DEF MakeType
    <3>3. /\ cur \in DOMAIN types'
          /\ types'[cur].elems = types[cur].elems /\ types'[cur].kind = types[cur].kind
          /\ types'[cur].size = types[cur].size
      BY <3>1, <3>2, HeldStaysSame
    <3>4. Written(types'[cur], data) = Written(types[cur], data)
      BY <3>3, SameWritten
    <3> QED
      BY <3>1, <3>2, <3>3, <3>4
  <2> QED
    BY <2>1, <2>2 DEF MarshalInv
<1>3. ASSUME NEW i \in DOMAIN types, Marshal(i)
      PROVE  MarshalInv'
  <2>1. types' = types /\ cur' = i
    BY <1>3 DEF Marshal
  <2>2. LayoutInv'
    BY <2>1, LayoutStep DEF MarshalInv
  <2>3. status' = "written" => mem' = Written(types[i], data')
    BY <1>3 DEF Marshal
  <2> QED
    BY <2>1, <2>2, <2>3 DEF MarshalInv
<1> QED
  BY <1>1, <1>2, <1>3 DEF MNext

\* After sv2ptr, and whatever the program does with its types, the block is what
\* sv2ptr would write for the types as they are now.
THEOREM MarshalInvariant == MSpec => []MarshalInv
<1>1. MInit => MarshalInv
  <2> SUFFICES ASSUME MInit
               PROVE  MarshalInv
    OBVIOUS
  <2>1. LayoutInv
    BY LayoutInit DEF MInit
  <2> QED
    BY <2>1 DEF MInit, MarshalInv
<1>2. MarshalInv /\ [MNext]_mvars => MarshalInv'
  BY MarshalStep
<1> QED
  BY <1>1, <1>2, PTL DEF MSpec

\* What the invariant says of the type that was marshalled.
LEMMA MarshalledFacts ==
    ASSUME MarshalInv, status = "written"
    PROVE  /\ WellLaid(types[cur], cur) /\ types[cur].size \in Nat
           /\ mem = Written(types[cur], data)
           /\ DOMAIN mem = 0..(types[cur].size + MaxMany * ByteAlign)
<1>1. cur \in DOMAIN types /\ mem = Written(types[cur], data) /\ LayoutInv
  BY DEF MarshalInv
<1>2. WellLaid(types[cur], cur)
  BY <1>1 DEF LayoutInv
<1>3. types[cur].size \in Nat
  BY <1>2 DEF WellLaid, Shape
<1> QED
  BY <1>1, <1>2, <1>3, WrittenDomain

\* A member that writes anywhere was written.
LEMMA WritersWrote ==
    ASSUME MarshalInv, status = "written", NEW a, NEW p \in Writers(types[cur], data, a)
    PROVE  p \in Wrote /\ p \in Leaves(types[cur]) /\ a \in Extent(types[cur], data, p)
<1>1. WellLaid(types[cur], cur)
  BY MarshalledFacts
<1>2. /\ p \in Leaves(types[cur]) /\ Reached(types[cur], data, p)
      /\ a \in Extent(types[cur], data, p)
  BY DEF Writers
<1>3. Elements(types[cur], data, p) > 0
  BY <1>1, <1>2, ExtentFacts
<1> QED
  BY <1>2, <1>3 DEF Wrote

\* If no member was given more elements than it has room for, sv2ptr changes only
\* the bytes of the members it was given: no padding, nothing behind the block.
THEOREM OnlyMembersEver == MSpec => []OnlyMembersWritten
<1>1. MarshalInv => OnlyMembersWritten
  <2> SUFFICES ASSUME MarshalInv, status = "written", \A p \in Wrote : data[p] # "many",
                      NEW a \in DOMAIN mem, mem[a] # Zero
               PROVE  /\ a < types[cur].size
                      /\ \E p \in Wrote : Beginning(types[cur], p) <= a /\ a < End(types[cur], p)
    BY DEF OnlyMembersWritten
  <2> DEFINE t == types[cur]
  <2>1. /\ WellLaid(t, cur) /\ mem = Written(t, data)
        /\ a \in 0..(t.size + MaxMany * ByteAlign)
    BY MarshalledFacts
  <2>2. Writers(t, data, a) # {}
    BY <2>1, WrittenFacts
  <2>3. PICK p : p \in Writers(t, data, a)
    BY <2>2
  <2>4. p \in Wrote /\ p \in Leaves(t) /\ a \in Extent(t, data, p)
    BY <2>3, WritersWrote
  <2>5. a \in Nat /\ Beginning(t, p) <= a /\ a < End(t, p)
    BY <2>1, <2>4, ExtentFacts
  <2>6. End(t, p) <= t.size /\ t.size \in Nat /\ End(t, p) \in Nat
    <3>1. /\ Beginning(t, p) \in Nat /\ Follow(t, p).size \in Nat
          /\ End(t, p) = Beginning(t, p) + Follow(t, p).size
          /\ End(t, p) <= t.size /\ t.size \in Nat
      BY <2>1, <2>4, LeafFacts
    <3> HIDE DEF t
    <3> QED
      BY <3>1
  <2> HIDE DEF t
  <2>7. a < t.size
    BY <2>5, <2>6
  <2> QED
    BY <2>4, <2>5, <2>7 DEF t
<1> QED
  BY <1>1, MarshalInvariant, PTL

LEMMA LeafNumbers ==
    ASSUME NEW t, NEW d, WellLaid(t, d), NEW p \in Leaves(t)
    PROVE  Beginning(t, p) \in Nat /\ End(t, p) \in Nat
<1>1. /\ Beginning(t, p) \in Nat /\ Follow(t, p).size \in Nat
      /\ End(t, p) = Beginning(t, p) + Follow(t, p).size
  BY LeafFacts
<1> QED
  BY <1>1

\* Parting in a struct is symmetric.
LEMMA PartEither ==
    ASSUME NEW t, NEW p \in AllPaths, NEW q \in AllPaths, PartInStruct(t, p, q)
    PROVE  PartInStruct(t, q, p)
<1>1. PICK n \in 1..Len(p) :
         n <= Len(q) /\ PartAt(p, q, n) /\ Steps(t, p)[n - 1].type.kind = "struct"
  BY DEF PartInStruct
<1>2. Len(p) \in Nat /\ Len(q) \in Nat
  BY PathFacts
<1>3. n \in 1..Len(q) /\ n <= Len(p) /\ n - 1 \in Nat /\ n - 1 <= Len(p) /\ n - 1 <= Len(q)
  BY <1>1, <1>2
<1>4. Steps(t, p)[n - 1] = Steps(t, q)[n - 1]
  BY <1>1, <1>3, SamePrefix DEF PartAt
<1>5. PartAt(q, p, n)
  BY <1>1 DEF PartAt
<1> QED
  BY <1>1, <1>3, <1>4, <1>5 DEF PartInStruct

\* The bytes of a member, for ptr2sv.
LEMMA Bytes ==
    ASSUME MarshalInv, status = "written", NEW p \in Leaves(types[cur])
    PROVE  /\ Beginning(types[cur], p) \in Beginning(types[cur], p)..(End(types[cur], p) - 1)
           /\ \A a \in Beginning(types[cur], p)..(End(types[cur], p) - 1) :
                 /\ a \in Nat /\ a < End(types[cur], p) /\ Beginning(types[cur], p) <= a
                 /\ a \in 0..(types[cur].size + MaxMany * ByteAlign)
<1> DEFINE t == types[cur]
           b == Beginning(t, p)
           e == End(t, p)
<1>1. WellLaid(t, cur)
  BY MarshalledFacts
<1>2. /\ b \in Nat /\ Follow(t, p).size \in Nat /\ Follow(t, p).size > 0
      /\ e = b + Follow(t, p).size /\ e <= t.size /\ t.size \in Nat
  BY <1>1, LeafFacts
<1> HIDE DEF b, e, t
<1>3. e \in Nat /\ b < e
  BY <1>2
<1>4. b \in b..(e - 1)
  BY <1>2, <1>3
<1>5. ASSUME NEW a \in b..(e - 1)
      PROVE  a \in Nat /\ a < e /\ b <= a /\ a \in 0..(t.size + MaxMany * ByteAlign)
  <2>1. a \in Nat /\ a < e /\ b <= a /\ a <= t.size
    BY <1>2, <1>3
  <2> QED
    BY <1>2, <2>1, InBlock
<1> QED
  BY <1>4, <1>5 DEF b, e, t

\* A member that was not given reads as zero unless it shares a union with one that
\* was, or a member before it was given more elements than it has room for.
THEOREM OverrunNeverBackward == MSpec => []OverrunOnlyForward
<1>1. MarshalInv => OverrunOnlyForward
  <2> SUFFICES ASSUME MarshalInv, status = "written",
                      NEW p \in Leaves(types[cur]) \ Wrote,
                      \A q \in Wrote : /\ PartInStruct(types[cur], p, q)
                                       /\ ~(Before(q, p) /\ data[q] = "many")
               PROVE  Seen(p) = "nothing"
    BY DEF OverrunOnlyForward
  <2> DEFINE t == types[cur]
             I == Beginning(t, p)..(End(t, p) - 1)
             cells == {mem[a] : a \in I}
  <2>1. WellLaid(t, cur) /\ mem = Written(t, data)
    BY MarshalledFacts
  <2>2. /\ Beginning(t, p) \in I
        /\ \A a \in I : /\ a \in Nat /\ a < End(t, p) /\ Beginning(t, p) <= a
                        /\ a \in 0..(t.size + MaxMany * ByteAlign)
    BY Bytes
  <2>3. ASSUME NEW a \in I
        PROVE  mem[a] = Zero
    <3>1. ASSUME NEW q \in Writers(t, data, a)
          PROVE  FALSE
      <4>1. q \in Wrote /\ q \in Leaves(t) /\ a \in Extent(t, data, q)
        BY WritersWrote
      <4>2. p \in Leaves(t) /\ p # q /\ PartInStruct(t, p, q)
        BY <4>1
      <4>3. Before(p, q) \/ Before(q, p)
        BY <2>1, <4>1, <4>2, LeavesInOrder
      <4>4. /\ a \in Nat /\ Beginning(t, q) <= a
            /\ data[q] # "many" => a < End(t, q)
        BY <2>1, <4>1, ExtentFacts
      <4>5. /\ Beginning(t, p) \in Nat /\ Beginning(t, q) \in Nat
            /\ End(t, p) \in Nat /\ End(t, q) \in Nat
        BY <2>1, <4>1, <4>2, LeafNumbers
      <4>6. CASE Before(p, q)
        <5>1. End(t, p) <= Beginning(t, q)
          BY <2>1, <4>1, <4>2, <4>6, BeforeEnds
        <5>2. a < End(t, p)
          BY <2>2
        <5> HIDE DEF t, I
        <5> QED
          BY <4>4, <4>5, <5>1, <5>2
      <4>7. CASE Before(q, p)
        <5>1. PartInStruct(t, q, p)
          BY <4>1, <4>2, PartEither DEF Leaves
        <5>2. End(t, q) <= Beginning(t, p)
          BY <2>1, <4>1, <4>2, <4>7, <5>1, BeforeEnds
        <5>3. a < End(t, q) /\ Beginning(t, p) <= a
          BY <2>2, <4>1, <4>4, <4>7
        <5> HIDE DEF t, I
        <5> QED
          BY <4>4, <4>5, <5>2, <5>3
      <4> QED
        BY <4>3, <4>6, <4>7
    <3>2. Writers(t, data, a) = {}
      BY <3>1
    <3>3. a \in 0..(t.size + MaxMany * ByteAlign)
      BY <2>2
    <3> QED
      BY <2>1, <3>2, <3>3, WrittenFacts
  <2> HIDE DEF I
  <2>4. cells = {Zero}
    BY <2>2, <2>3
  <2>5. Seen(p) = CASE cells = {Zero} -> "nothing"
                    [] cells = {p}    -> "value"
                    [] OTHER          -> "mixture"
    BY DEF Seen, I
  <2>6. {Zero} # {p}
    <3>1. Len(p) >= 1 /\ p \in AllPaths
      BY PathFacts DEF Leaves
    <3>2. Len(Zero) = 0
      BY DEF Zero
    <3> QED
      BY <3>1, <3>2
  <2> HIDE DEF cells
  <2> QED
    BY <2>4, <2>5, <2>6
<1> QED
  BY <1>1, MarshalInvariant, PTL

\* Every value in the hash can be read back at its member unless a later member of
\* a union was given too: sv2ptr writes the members in the order of their offsets
\* and so repairs what a value that is longer than its place ran over.
THEOREM GivenAlwaysReadBack == MSpec => []GivenReadBack
<1>1. MarshalInv => GivenReadBack
  <2> SUFFICES ASSUME MarshalInv, status = "written", NEW p \in Wrote,
                      data[p] # "undef", ~WrittenOver(p)
               PROVE  Seen(p) = "value"
    BY DEF GivenReadBack
  <2> DEFINE t == types[cur]
             I == Beginning(t, p)..(End(t, p) - 1)
             cells == {mem[a] : a \in I}
  <2>1. WellLaid(t, cur) /\ mem = Written(t, data)
    BY MarshalledFacts
  <2>2. p \in Leaves(t) /\ Reached(t, data, p) /\ Elements(t, data, p) > 0
    BY DEF Wrote
  <2>3. /\ Beginning(t, p) \in I
        /\ \A a \in I : /\ a \in Nat /\ a < End(t, p) /\ Beginning(t, p) <= a
                        /\ a \in 0..(t.size + MaxMany * ByteAlign)
    BY <2>2, Bytes
  <2>4. ASSUME NEW a \in I
        PROVE  mem[a] = p
    <3> DEFINE W == Writers(t, data, a)
    <3>1. p \in W
      BY <2>1, <2>2, ExtentCovers DEF Writers
    <3>2. ASSUME NEW q \in W, q # p
          PROVE  Before(q, p)
      <4> SUFFICES ASSUME ~Before(q, p)
                   PROVE  FALSE
        OBVIOUS
      <4>1. q \in Wrote /\ q \in Leaves(t) /\ a \in Extent(t, data, q)
        BY WritersWrote
      <4>2. Before(p, q)
        BY <2>1, <2>2, <3>2, <4>1, LeavesInOrder
      <4>3. PartInStruct(t, p, q)
        BY <4>1, <4>2 DEF WrittenOver
      <4>4. End(t, p) <= Beginning(t, q)
        BY <2>1, <2>2, <4>1, <4>2, <4>3, BeforeEnds
      <4>5. a \in Nat /\ Beginning(t, q) <= a
        BY <2>1, <4>1, ExtentFacts
      <4>6. Beginning(t, q) \in Nat /\ End(t, p) \in Nat
        BY <2>1, <2>2, <4>1, LeafNumbers
      <4>7. a < End(t, p)
        BY <2>3
      <4> HIDE DEF t, I
      <4> QED
        BY <4>4, <4>5, <4>6, <4>7
    <3>3. LastOf(W) = p
      <4>1. W \subseteq AllPaths
        BY DEF Writers, Leaves
      <4> HIDE DEF W
      <4>2. \A x \in W : (\A q \in W \ {x} : Before(q, x)) => x = p
        BY <3>1, <3>2, <4>1, BeforeOneWay
      <4>3. \A q \in W \ {p} : Before(q, p)
        BY <3>2
      <4> QED
        BY <3>1, <4>2, <4>3 DEF LastOf
    <3>4. W # {}
      BY <3>1
    <3>5. a \in 0..(t.size + MaxMany * ByteAlign)
      BY <2>3
    <3>6. mem[a] = CASE W = {} -> Zero
                     [] data[LastOf(W)] = "undef" -> Zero
                     [] OTHER -> LastOf(W)
      BY <2>1, <3>5, WrittenFacts
    <3> HIDE DEF W
    <3> QED
      BY <3>3, <3>4, <3>6
  <2> HIDE DEF I
  <2>5. cells = {p}
    BY <2>3, <2>4
  <2>6. Seen(p) = CASE cells = {Zero} -> "nothing"
                    [] cells = {p}    -> "value"
                    [] OTHER          -> "mixture"
    BY DEF Seen, I
  <2>7. {Zero} # {p}
    <3>1. Len(p) >= 1
      BY <2>2, PathFacts DEF Leaves
    <3>2. Len(Zero) = 0
      BY DEF Zero
    <3> QED
      BY <3>1, <3>2
  <2> HIDE DEF cells
  <2> QED
    BY <2>5, <2>6, <2>7
<1> QED
  BY <1>1, MarshalInvariant, PTL
=============================================================================
