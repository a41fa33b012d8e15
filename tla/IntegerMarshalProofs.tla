------------------------ MODULE IntegerMarshalProofs ------------------------
(***************************************************************************)
(* Proofs about IntegerMarshal, for integers of every width.               *)
(***************************************************************************)
EXTENDS IntegerMarshal, NumberTheorems, TLAPS

\* a and b are the same integer of m values.
Congruent(a, b, m) == \E k \in Int : a = b + k * m

\* Sizes and Perl's word: even, positive, one a multiple of the other.
Sized(m) ==
    /\ m \in Nat /\ m > 0 /\ m % 2 = 0
    /\ \E c \in Nat : c > 0 /\ WordSize = c * m
-----------------------------------------------------------------------------
\* The remainder, with its quotient.
LEMMA Remainder ==
    ASSUME NEW m \in Nat, m > 0, NEW n \in Int
    PROVE  n % m \in 0..(m - 1) /\ Congruent(n, n % m, m) /\ Congruent(n % m, n, m)
<1>1. n % m \in 0..(m - 1)
  OBVIOUS
<1>2. PICK k \in Int : n = k * m + (n % m)
  OBVIOUS
<1>3. n = (n % m) + k * m /\ n % m = n + (-k) * m /\ -k \in Int
  BY <1>1, <1>2
<1> QED
  BY <1>1, <1>3 DEF Congruent

\* Two integers in the same window of m values that are congruent are equal.
LEMMA SameWindow ==
    ASSUME NEW m \in Nat, m > 0, NEW a \in Int, NEW b \in Int, Congruent(a, b, m),
           a - b < m, b - a < m
    PROVE  a = b
<1>1. PICK k \in Int : a = b + k * m
  BY DEF Congruent
<1>2. k * m \in Int /\ k * m < m /\ k * m > -m
  BY <1>1
<1>3. k = 0
  BY <1>2, NoMultiple
<1> QED
  BY <1>1, <1>3

\* Congruence is symmetric and transitive.
LEMMA CongruentSym ==
    ASSUME NEW m \in Nat, NEW a \in Int, NEW b \in Int, Congruent(a, b, m)
    PROVE  Congruent(b, a, m)
<1>1. PICK k \in Int : a = b + k * m
  BY DEF Congruent
<1>2. b = a + (-k) * m /\ -k \in Int
  BY <1>1
<1> QED
  BY <1>2 DEF Congruent

LEMMA CongruentTrans ==
    ASSUME NEW m \in Nat, NEW a \in Int, NEW b \in Int, NEW c \in Int,
           Congruent(a, b, m), Congruent(b, c, m)
    PROVE  Congruent(a, c, m)
<1>1. PICK k \in Int : a = b + k * m
  BY DEF Congruent
<1>2. PICK j \in Int : b = c + j * m
  BY DEF Congruent
<1>3. (j + k) * m = j * m + k * m /\ j + k \in Int
  OBVIOUS
<1>4. a = c + (j + k) * m
  BY <1>1, <1>2, <1>3
<1> QED
  BY <1>3, <1>4 DEF Congruent

\* Congruent as Perl integers, congruent as narrower integers.
LEMMA CongruentNarrow ==
    ASSUME NEW m, Sized(m), NEW a \in Int, NEW b \in Int, Congruent(a, b, WordSize)
    PROVE  Congruent(a, b, m)
<1>1. PICK c \in Nat : WordSize = c * m
  BY DEF Sized
<1>2. PICK k \in Int : a = b + k * WordSize
  BY DEF Congruent
<1>3. m \in Nat /\ k * c \in Int
  BY DEF Sized
<1>4. k * (c * m) = (k * c) * m
  BY <1>3
<1> QED
  BY <1>1, <1>2, <1>3, <1>4 DEF Congruent

\* Congruent integers have the same remainder.
LEMMA CongruentMod ==
    ASSUME NEW m \in Nat, m > 0, NEW a \in Int, NEW b \in Int, Congruent(a, b, m)
    PROVE  a % m = b % m
<1>1. a % m \in 0..(m - 1) /\ b % m \in 0..(m - 1)
  BY Remainder
<1>2. Congruent(a % m, a, m) /\ Congruent(b, b % m, m)
  BY Remainder
<1>3. Congruent(a % m, b % m, m)
  BY <1>1, <1>2, CongruentTrans
<1> QED
  BY <1>1, <1>3, SameWindow
-----------------------------------------------------------------------------
\* The sizes of the types and of Perl's integers are sizes in the sense above.
LEMMA SizedTypes ==
    ASSUME NEW t \in Types
    PROVE  /\ Sized(Size[t]) /\ Size[t] <= WordSize
           /\ Size[t] < WordSize => Size[t] <= WordSize \div 2
<1> DEFINE m == Size[t]
<1>1. m \in Nat /\ m > 0 /\ m % 2 = 0 /\ WordSize % m = 0 /\ WordSize \in Nat /\ WordSize > 2
  BY SizeAssumption
<1> HIDE DEF m
<1>2. PICK c \in Int : WordSize = c * m + (WordSize % m)
  BY <1>1
<1>3. WordSize = c * m
  BY <1>1, <1>2
<1>4. c > 0
  <2>1. CASE c <= 0
    <3>1. c * m <= 0 * m
      BY <1>1, <2>1
    <3> QED
      BY <1>1, <1>3, <3>1
  <2> QED
    BY <2>1
<1>5. m <= WordSize
  <2>1. c * m >= 1 * m
    BY <1>1, <1>4
  <2> QED
    BY <1>1, <1>3, <2>1
<1>6. ASSUME m < WordSize PROVE m <= WordSize \div 2
  <2>1. c >= 2
    BY <1>1, <1>3, <1>4, <1>6
  <2>2. c * m >= 2 * m
    BY <1>1, <2>1
  <2> QED
    BY <1>1, <1>3, <2>2
<1> QED
  BY <1>1, <1>3, <1>4, <1>5, <1>6 DEF Sized, m

LEMMA SizedWord == Sized(WordSize)
<1> DEFINE m == Size["bool"]
<1>1. "bool" \in Types
  BY DEF Types
<1>2. Sized(m) /\ WordSize \in Nat /\ WordSize > 2
  BY <1>1, SizedTypes, SizeAssumption
<1> HIDE DEF m
<1>3. PICK c \in Nat : WordSize = c * m
  BY <1>2 DEF Sized
<1>4. m \in Nat /\ m % 2 = 0
  BY <1>2 DEF Sized
<1>5. PICK h \in Int : m = 2 * h
  BY <1>4
<1>6. WordSize = 2 * (c * h) /\ c * h \in Int
  BY <1>3, <1>5
<1>7. WordSize % 2 = 0
  BY <1>6
<1>8. WordSize = 1 * WordSize
  BY <1>2
<1> QED
  BY <1>2, <1>7, <1>8 DEF Sized

\* The two conversions: their ranges, and that they change an integer only by
\* multiples of the size.
LEMMA Unsigned ==
    ASSUME NEW m, Sized(m), NEW n \in Int
    PROVE  ToUnsigned(n, m) \in 0..(m - 1) /\ Congruent(ToUnsigned(n, m), n, m)
  BY Remainder DEF Sized, ToUnsigned

LEMMA Signed ==
    ASSUME NEW m, Sized(m), NEW n \in Int
    PROVE  ToSigned(n, m) \in (-(m \div 2))..((m \div 2) - 1) /\ Congruent(ToSigned(n, m), n, m)
<1> DEFINE u == n % m
<1>1. m \in Nat /\ m > 0 /\ m % 2 = 0 /\ u \in 0..(m - 1) /\ Congruent(u, n, m)
  BY Remainder DEF Sized
<1>2. ToSigned(n, m) = IF u >= m \div 2 THEN u - m ELSE u
  BY DEF ToSigned
<1> HIDE DEF u
<1>3. m = 2 * (m \div 2) /\ m \div 2 \in Nat
  BY <1>1
<1>4. ToSigned(n, m) \in (-(m \div 2))..((m \div 2) - 1)
  BY <1>1, <1>2, <1>3
<1>5. u - m = u + (-1) * m
  BY <1>1
<1>6. Congruent(u - m, u, m) /\ u - m \in Int
  BY <1>1, <1>5 DEF Congruent
<1>7. Congruent(u - m, n, m)
  BY <1>1, <1>6, CongruentTrans
<1> QED
  BY <1>1, <1>2, <1>4, <1>7

\* An integer that fits is not changed.
LEMMA FitsUnsigned ==
    ASSUME NEW m, Sized(m), NEW n \in 0..(m - 1)
    PROVE  ToUnsigned(n, m) = n
<1>1. m \in Nat /\ m > 0 /\ n \in Int
  BY DEF Sized
<1>2. ToUnsigned(n, m) \in 0..(m - 1) /\ Congruent(ToUnsigned(n, m), n, m)
  BY <1>1, Unsigned
<1>3. ToUnsigned(n, m) \in Int /\ ToUnsigned(n, m) - n < m /\ n - ToUnsigned(n, m) < m
  BY <1>1, <1>2
<1> QED
  BY <1>1, <1>2, <1>3, SameWindow

LEMMA FitsSigned ==
    ASSUME NEW m, Sized(m), NEW n \in (-(m \div 2))..((m \div 2) - 1)
    PROVE  ToSigned(n, m) = n
<1>1. m \in Nat /\ m > 0 /\ n \in Int /\ m = 2 * (m \div 2) /\ m \div 2 \in Nat
  BY DEF Sized
<1>2. ToSigned(n, m) \in (-(m \div 2))..((m \div 2) - 1) /\ Congruent(ToSigned(n, m), n, m)
  BY <1>1, Signed
<1>3. ToSigned(n, m) \in Int /\ ToSigned(n, m) - n < m /\ n - ToSigned(n, m) < m
  BY <1>1, <1>2
<1> QED
  BY <1>1, <1>2, <1>3, SameWindow

\* The conversions give the same for congruent integers.
LEMMA SameConversion ==
    ASSUME NEW m, Sized(m), NEW a \in Int, NEW b \in Int, Congruent(a, b, m)
    PROVE  ToUnsigned(a, m) = ToUnsigned(b, m) /\ ToSigned(a, m) = ToSigned(b, m)
<1>1. a % m = b % m
  BY CongruentMod DEF Sized
<1> QED
  BY <1>1 DEF ToUnsigned, ToSigned

\* What a Perl scalar makes of an integer, as an IV or a UV, is a Perl integer
\* and the same integer for every narrower type.
LEMMA Scalar ==
    ASSUME NEW n \in Int
    PROVE  /\ SvIV(n) \in PerlIntegers /\ SvUV(n) \in PerlIntegers
           /\ \A t \in Types : Congruent(SvIV(n), n, Size[t]) /\ Congruent(SvUV(n), n, Size[t])
<1>1. /\ SvIV(n) \in (-(WordSize \div 2))..((WordSize \div 2) - 1)
      /\ Congruent(SvIV(n), n, WordSize)
  BY SizedWord, Signed DEF SvIV
<1>2. SvUV(n) \in 0..(WordSize - 1) /\ Congruent(SvUV(n), n, WordSize)
  BY SizedWord, Unsigned DEF SvUV
<1>3. WordSize \in Nat
  BY SizeAssumption
<1>4. SvIV(n) \in PerlIntegers /\ SvUV(n) \in PerlIntegers
  BY <1>1, <1>2, <1>3 DEF PerlIntegers
<1>5. SvIV(n) \in Int /\ SvUV(n) \in Int
  BY <1>1, <1>2, <1>3
<1> QED
  BY <1>1, <1>2, <1>4, <1>5, SizedTypes, CongruentNarrow
-----------------------------------------------------------------------------
\* a and b are the same integer of type t.
Same(t, a, b) == IF t = "bool" THEN (a = 0 <=> b = 0) ELSE Congruent(a, b, Size[t])

\* The C conversion by kind of type.
LEMMA CastKinds ==
    ASSUME NEW n
    PROVE  /\ Cast("bool", n) = IF n = 0 THEN 0 ELSE 1
           /\ \A t \in SignedTypes : Cast(t, n) = ToSigned(n, Size[t])
           /\ \A t \in UnsignedTypes : Cast(t, n) = ToUnsigned(n, Size[t])
<1>1. Cast("bool", n) = IF n = 0 THEN 0 ELSE 1
  BY DEF Cast, SignedTypes, UnsignedTypes
<1>2. \A t \in SignedTypes : t # "bool" /\ t \notin UnsignedTypes
  BY DEF SignedTypes, UnsignedTypes
<1>3. \A t \in UnsignedTypes : t # "bool" /\ t \notin SignedTypes
  BY DEF SignedTypes, UnsignedTypes
<1> QED
  BY <1>1, <1>2, <1>3 DEF Cast

\* The conversion gives the same for the same integer of the type, and is that
\* integer.
LEMMA CastSame ==
    ASSUME NEW t \in Types, NEW a \in Int, NEW b \in Int, Same(t, a, b)
    PROVE  Cast(t, a) = Cast(t, b)
<1>1. CASE t = "bool"
  BY <1>1, CastKinds DEF Same
<1>2. CASE t \in SignedTypes \cup UnsignedTypes
  <2>1. Congruent(a, b, Size[t])
    BY <1>2 DEF Same, SignedTypes, UnsignedTypes
  <2> QED
    <3>1. ToUnsigned(a, Size[t]) = ToUnsigned(b, Size[t]) /\ ToSigned(a, Size[t]) = ToSigned(b, Size[t])
      BY <2>1, SizedTypes, SameConversion
    <3> QED
      BY <1>2, <3>1, CastKinds
<1> QED
  BY <1>1, <1>2 DEF Types

LEMMA CastIs ==
    ASSUME NEW t \in Types, NEW n \in Int
    PROVE  /\ Cast(t, n) \in Int /\ Same(t, Cast(t, n), n)
           /\ t = "bool" => Cast(t, n) \in {0, 1}
           /\ t \in SignedTypes => Cast(t, n) \in (-(Size[t] \div 2))..((Size[t] \div 2) - 1)
           /\ t \in UnsignedTypes => Cast(t, n) \in 0..(Size[t] - 1)
<1>0. Sized(Size[t]) /\ Size[t] \in Nat
  BY SizedTypes DEF Sized
<1>1. CASE t = "bool"
  BY <1>1, CastKinds DEF Same, SignedTypes, UnsignedTypes
<1>2. CASE t \in SignedTypes
  <2>1. t # "bool" /\ t \notin UnsignedTypes
    BY <1>2 DEF SignedTypes, UnsignedTypes
  <2>2. Cast(t, n) = ToSigned(n, Size[t])
    BY <1>2, CastKinds
  <2>3. Cast(t, n) \in (-(Size[t] \div 2))..((Size[t] \div 2) - 1) /\ Congruent(Cast(t, n), n, Size[t])
    BY <1>0, <2>2, Signed
  <2> QED
    BY <1>0, <2>1, <2>3 DEF Same
<1>3. CASE t \in UnsignedTypes
  <2>1. t # "bool" /\ t \notin SignedTypes
    BY <1>3 DEF SignedTypes, UnsignedTypes
  <2>2. Cast(t, n) = ToUnsigned(n, Size[t])
    BY <1>3, CastKinds
  <2>3. Cast(t, n) \in 0..(Size[t] - 1) /\ Congruent(Cast(t, n), n, Size[t])
    BY <1>0, <2>2, Unsigned
  <2> QED
    BY <1>0, <2>1, <2>3 DEF Same
<1> QED
  BY <1>1, <1>2, <1>3 DEF Types

\* Being the same integer of a type is transitive.
LEMMA SameTrans ==
    ASSUME NEW t \in Types, NEW a \in Int, NEW b \in Int, NEW c \in Int,
           Same(t, a, b), Same(t, b, c)
    PROVE  Same(t, a, c)
<1>1. CASE t = "bool"
  BY <1>1 DEF Same
<1>2. CASE t # "bool"
  <2>1. Size[t] \in Nat
    BY SizedTypes DEF Sized
  <2> QED
    BY <1>2, <2>1, CongruentTrans DEF Same
<1> QED
  BY <1>1, <1>2

\* Going through an IV or a UV first does not change what C makes of it.
LEMMA CastScalar ==
    ASSUME NEW t \in Types \ {"bool"}, NEW n \in Int
    PROVE  Cast(t, SvIV(n)) = Cast(t, n) /\ Cast(t, SvUV(n)) = Cast(t, n)
<1>1. SvIV(n) \in Int /\ SvUV(n) \in Int
  BY Scalar, SizeAssumption DEF PerlIntegers
<1>2. Same(t, SvIV(n), n) /\ Same(t, SvUV(n), n)
  BY Scalar DEF Same
<1> QED
  BY <1>1, <1>2, CastSame

\* Out of Perl: the three switches all give the C conversion.
LEMMA OutOfPerl ==
    ASSUME NEW t \in Types, NEW n \in Int
    PROVE  /\ Argument(t, n) = Cast(t, n)
           /\ CallbackResult(t, n) = Cast(t, n)
           /\ t \notin {"char", "uchar"} => sv2ptr(t, n) = Cast(t, n)
<1>1. Argument(t, n) = Cast(t, n)
  BY CastScalar DEF Argument, Types, SignedTypes
<1>2. CallbackResult(t, n) = Cast(t, n)
  BY CastScalar DEF CallbackResult
<1>3. ASSUME t \notin {"char", "uchar"} PROVE sv2ptr(t, n) = Cast(t, n)
  <2>1. CASE t = "bool"
    BY <2>1 DEF sv2ptr
  <2>2. CASE t \in {"ushort", "uint"}
    BY <2>2, CastScalar DEF sv2ptr
  <2>3. CASE t \in {"short", "int", "long", "ulong", "longlong", "ulonglong"}
    BY <2>3, CastScalar DEF sv2ptr
  <2> QED
    BY <1>3, <2>1, <2>2, <2>3 DEF Types, SignedTypes, UnsignedTypes
<1> QED
  BY <1>1, <1>2, <1>3

\* A C integer that Perl takes as an IV or a UV: it is a Perl integer, and the
\* same integer of the type.
LEMMA TakenSame ==
    ASSUME NEW t \in Types \ {"bool"}, NEW x \in Int, NEW n \in Int, Same(t, x, n)
    PROVE  /\ SvIV(x) \in PerlIntegers /\ SvUV(x) \in PerlIntegers
           /\ Same(t, SvIV(x), n) /\ Same(t, SvUV(x), n)
<1>1. SvIV(x) \in PerlIntegers /\ SvUV(x) \in PerlIntegers
  BY Scalar
<1>2. SvIV(x) \in Int /\ SvUV(x) \in Int
  BY <1>1, SizeAssumption DEF PerlIntegers
<1>3. Same(t, SvIV(x), x) /\ Same(t, SvUV(x), x)
  BY Scalar DEF Same
<1> QED
  BY <1>1, <1>2, <1>3, SameTrans

\* A Boolean, taken as an IV.
LEMMA TakenBool ==
    ASSUME NEW c \in {0, 1}
    PROVE  SvIV(c) = c /\ c \in PerlIntegers
<1>1. WordSize \in Nat /\ WordSize > 2 /\ WordSize % 2 = 0
  BY SizedWord, SizeAssumption DEF Sized
<1>2. c \in (-(WordSize \div 2))..((WordSize \div 2) - 1)
  BY <1>1
<1>3. c \in PerlIntegers
  BY <1>1 DEF PerlIntegers
<1> QED
  BY <1>2, <1>3, SizedWord, FitsSigned DEF SvIV

\* A signed integer, taken as an IV.
LEMMA TakenSigned ==
    ASSUME NEW t \in SignedTypes, NEW n \in Int
    PROVE  SvIV(Cast(t, n)) = Cast(t, n) /\ DyncallValue(t, Cast(t, n)) = Cast(t, n)
<1> DEFINE c == Cast(t, n)
           m == Size[t]
<1>1. t \in Types /\ t # "bool"
  BY DEF Types, SignedTypes
<1>2. Sized(m) /\ m <= WordSize /\ m \in Nat /\ WordSize \in Nat
  BY <1>1, SizedTypes, SizeAssumption DEF Sized
<1>3. c \in (-(m \div 2))..((m \div 2) - 1)
  BY <1>1, CastIs
<1> HIDE DEF c, m
<1>4. m \div 2 <= WordSize \div 2
  BY <1>2
<1>5. c \in (-(WordSize \div 2))..((WordSize \div 2) - 1)
  BY <1>2, <1>3, <1>4
<1>6. SvIV(c) = c
  BY <1>5, SizedWord, FitsSigned DEF SvIV
<1>7. ToSigned(c, m) = c
  BY <1>2, <1>3, FitsSigned
<1> QED
  BY <1>1, <1>6, <1>7 DEF c, m, DyncallValue

\* An unsigned integer, taken as a UV, or as an IV that is wider; and one as
\* wide as Perl's that came back as the signed type.
LEMMA TakenUnsigned ==
    ASSUME NEW t \in UnsignedTypes, NEW n \in Int
    PROVE  /\ SvUV(Cast(t, n)) = Cast(t, n)
           /\ Size[t] < WordSize => SvIV(Cast(t, n)) = Cast(t, n)
           /\ Size[t] = WordSize => SvUV(DyncallValue(t, Cast(t, n))) = Cast(t, n)
<1> DEFINE c == Cast(t, n)
           m == Size[t]
<1>1. t \in Types /\ t # "bool"
  BY DEF Types, UnsignedTypes
<1>2. Sized(m) /\ m <= WordSize /\ m \in Nat /\ WordSize \in Nat /\ (m < WordSize => m <= WordSize \div 2)
  BY <1>1, SizedTypes, SizeAssumption DEF Sized
<1>3. c \in 0..(m - 1)
  BY <1>1, CastIs
<1> HIDE DEF c, m
<1>4. c \in 0..(WordSize - 1) /\ c \in Int
  BY <1>2, <1>3
<1>5. SvUV(c) = c
  BY <1>4, SizedWord, FitsUnsigned DEF SvUV
<1>6. ASSUME m < WordSize PROVE SvIV(c) = c
  <2>1. c \in (-(WordSize \div 2))..((WordSize \div 2) - 1)
    BY <1>2, <1>3, <1>6
  <2> QED
    BY <2>1, SizedWord, FitsSigned DEF SvIV
<1>7. ASSUME m = WordSize PROVE SvUV(DyncallValue(t, c)) = c
  <2>1. DyncallValue(t, c) = ToSigned(c, WordSize)
    BY <1>1, <1>7 DEF DyncallValue, m
  <2>2. ToSigned(c, WordSize) \in Int /\ Congruent(ToSigned(c, WordSize), c, WordSize)
    BY <1>2, <1>4, SizedWord, Signed
  <2>3. SvUV(ToSigned(c, WordSize)) = SvUV(c)
    BY <1>4, <2>2, SizedWord, SameConversion DEF SvUV
  <2> QED
    BY <1>5, <2>1, <2>3
<1> QED
  BY <1>5, <1>6, <1>7 DEF c, m

\* What dcCall and dcbArg return is the same integer of the type.
LEMMA DyncallSame ==
    ASSUME NEW t \in Types \ {"bool"}, NEW x \in Int, NEW n \in Int, Same(t, x, n)
    PROVE  DyncallValue(t, x) \in Int /\ Same(t, DyncallValue(t, x), n)
<1>1. DyncallValue(t, x) = ToSigned(x, Size[t])
  BY DEF DyncallValue
<1>2. Sized(Size[t]) /\ Size[t] \in Nat
  BY SizedTypes DEF Sized
<1>3. ToSigned(x, Size[t]) \in Int /\ Congruent(ToSigned(x, Size[t]), x, Size[t])
  BY <1>2, Signed
<1>4. Same(t, DyncallValue(t, x), x)
  BY <1>1, <1>3 DEF Same
<1> QED
  BY <1>1, <1>3, <1>4, SameTrans

\* The unsigned types that a crossing does not widen.
LEMMA NotWidened ==
    ASSUME NEW t \in UnsignedTypes
    PROVE  /\ <<t, "call">> \notin Widening => t = "ushort" \/ (t # "uchar" /\ Size[t] = WordSize)
           /\ <<t, "callback">> \notin Widening => t # "uchar" /\ Size[t] = WordSize
           /\ <<t, "memory">> \notin Widening => t = "ushort" \/ Size[t] < WordSize
<1>1. t \in Types
  BY DEF Types
<1>2. Size[t] \in Nat /\ WordSize \in Nat /\ Size[t] <= WordSize
  BY <1>1, SizedTypes, SizeAssumption DEF Sized
<1>3. Size[t] < WordSize \/ Size[t] = WordSize
  BY <1>2
<1> QED
  BY <1>3 DEF Widening

\* Into Perl, as the result of a call.
LEMMA IntoPerlResult ==
    ASSUME NEW t \in Types, NEW n \in Int
    PROVE  /\ Result(t, Cast(t, n)) \in PerlIntegers
           /\ Same(t, Result(t, Cast(t, n)), n)
           /\ <<t, "call">> \notin Widening => Result(t, Cast(t, n)) = Cast(t, n)
<1> DEFINE c == Cast(t, n)
           d == DyncallValue(t, c)
<1>1. c \in Int /\ Same(t, c, n)
  BY CastIs
<1>2. CASE t = "bool"
  <2>1. Result(t, c) = c
    BY <1>2 DEF Result, SignedTypes, UnsignedTypes
  <2>2. c \in PerlIntegers
    BY <1>2, CastIs, TakenBool
  <2> QED
    BY <1>1, <2>1, <2>2
<1>3. CASE t # "bool"
  <2>1. d \in Int /\ Same(t, d, n)
    BY <1>1, <1>3, DyncallSame
  <2>2. /\ SvIV(d) \in PerlIntegers /\ SvUV(d) \in PerlIntegers
        /\ Same(t, SvIV(d), n) /\ Same(t, SvUV(d), n)
    BY <1>3, <2>1, TakenSame
  <2>3. CASE t \in SignedTypes
    <3>1. Result(t, c) = SvIV(d)
      BY <2>3 DEF Result, SignedTypes, UnsignedTypes
    <3>2. SvIV(d) = c
      BY <2>3, TakenSigned
    <3> QED
      BY <2>2, <3>1, <3>2
  <2>4. CASE t = "uchar"
    <3>1. Result(t, c) = SvIV(SvUV(d))
      BY <2>4 DEF Result, SignedTypes, UnsignedTypes
    <3>2. SvUV(d) \in Int
      BY <2>2, SizeAssumption DEF PerlIntegers
    <3>3. SvIV(SvUV(d)) \in PerlIntegers /\ Same(t, SvIV(SvUV(d)), n)
      BY <1>3, <2>2, <3>2, TakenSame
    <3> QED
      BY <2>4, <3>1, <3>3, NotWidened DEF UnsignedTypes
  <2>5. CASE t = "ushort"
    <3>1. Result(t, c) = SvUV(Cast(t, d))
      BY <2>5 DEF Result, SignedTypes, UnsignedTypes
    <3>2. Cast(t, d) = Cast(t, n)
      BY <2>1, CastSame
    <3>3. SvUV(c) = c /\ t \in UnsignedTypes
      BY <2>5, TakenUnsigned DEF UnsignedTypes
    <3>4. SvUV(c) \in PerlIntegers
      BY <1>1, Scalar
    <3> QED
      BY <1>1, <3>1, <3>2, <3>3, <3>4
  <2>6. CASE t \in UnsignedTypes \ {"uchar", "ushort"}
    <3>1. Result(t, c) = SvUV(d)
      BY <2>6 DEF Result, SignedTypes, UnsignedTypes
    <3>2. <<t, "call">> \notin Widening => SvUV(d) = c
      BY <2>6, NotWidened, TakenUnsigned
    <3> QED
      BY <2>2, <3>1, <3>2
  <2> QED
    BY <1>3, <2>3, <2>4, <2>5, <2>6 DEF Types
<1> QED
  BY <1>2, <1>3

\* Into Perl, as the argument of a callback.
LEMMA IntoPerlArgument ==
    ASSUME NEW t \in Types, NEW n \in Int
    PROVE  /\ CallbackArgument(t, Cast(t, n)) \in PerlIntegers
           /\ Same(t, CallbackArgument(t, Cast(t, n)), n)
           /\ <<t, "callback">> \notin Widening => CallbackArgument(t, Cast(t, n)) = Cast(t, n)
<1> DEFINE c == Cast(t, n)
           d == DyncallValue(t, c)
<1>1. c \in Int /\ Same(t, c, n)
  BY CastIs
<1>2. CASE t = "bool"
  <2>1. CallbackArgument(t, c) = c
    BY <1>2 DEF CallbackArgument, SignedTypes, UnsignedTypes
  <2>2. c \in PerlIntegers
    BY <1>2, CastIs, TakenBool
  <2> QED
    BY <1>1, <2>1, <2>2
<1>3. CASE t # "bool"
  <2>1. d \in Int /\ Same(t, d, n)
    BY <1>1, <1>3, DyncallSame
  <2>2. /\ SvIV(d) \in PerlIntegers /\ SvUV(d) \in PerlIntegers
        /\ Same(t, SvIV(d), n) /\ Same(t, SvUV(d), n)
    BY <1>3, <2>1, TakenSame
  <2>3. CASE t \in SignedTypes
    <3>1. CallbackArgument(t, c) = SvIV(d)
      BY <2>3 DEF CallbackArgument, SignedTypes, UnsignedTypes
    <3>2. SvIV(d) = c
      BY <2>3, TakenSigned
    <3> QED
      BY <2>2, <3>1, <3>2
  <2>4. CASE t = "uchar"
    <3>1. CallbackArgument(t, c) = SvIV(SvUV(d))
      BY <2>4 DEF CallbackArgument, SignedTypes, UnsignedTypes
    <3>2. SvUV(d) \in Int
      BY <2>2, SizeAssumption DEF PerlIntegers
    <3>3. SvIV(SvUV(d)) \in PerlIntegers /\ Same(t, SvIV(SvUV(d)), n)
      BY <1>3, <2>2, <3>2, TakenSame
    <3> QED
      BY <2>4, <3>1, <3>3, NotWidened DEF UnsignedTypes
  <2>5. CASE t \in UnsignedTypes \ {"uchar"}
    <3>1. CallbackArgument(t, c) = SvUV(d)
      BY <2>5 DEF CallbackArgument, SignedTypes, UnsignedTypes
    <3>2. <<t, "callback">> \notin Widening => SvUV(d) = c
      BY <2>5, NotWidened, TakenUnsigned
    <3> QED
      BY <2>2, <3>1, <3>2
  <2> QED
    BY <1>3, <2>3, <2>4, <2>5 DEF Types
<1> QED
  BY <1>2, <1>3

\* Into Perl, out of memory.
LEMMA IntoPerlMemory ==
    ASSUME NEW t \in Types, NEW n \in Int
    PROVE  /\ ptr2sv(t, Cast(t, n)) \in PerlIntegers
           /\ Same(t, ptr2sv(t, Cast(t, n)), n)
           /\ <<t, "memory">> \notin Widening => ptr2sv(t, Cast(t, n)) = Cast(t, n)
<1> DEFINE c == Cast(t, n)
<1>1. c \in Int /\ Same(t, c, n)
  BY CastIs
<1>2. CASE t = "bool"
  <2>1. ptr2sv(t, c) = SvIV(c)
    BY <1>2 DEF ptr2sv
  <2>2. SvIV(c) = c /\ c \in PerlIntegers
    BY <1>2, CastIs, TakenBool
  <2> QED
    BY <1>1, <2>1, <2>2
<1>3. CASE t # "bool"
  <2>1. /\ SvIV(c) \in PerlIntegers /\ SvUV(c) \in PerlIntegers
        /\ Same(t, SvIV(c), n) /\ Same(t, SvUV(c), n)
    BY <1>1, <1>3, TakenSame
  <2>2. CASE t \in SignedTypes
    <3>1. ptr2sv(t, c) = SvIV(c)
      BY <2>2 DEF ptr2sv, SignedTypes
    <3> QED
      BY <2>1, <2>2, <3>1, TakenSigned
  <2>3. CASE t = "ushort"
    <3>1. SvUV(c) = c
      BY <2>3, TakenUnsigned DEF UnsignedTypes
    <3> QED
      BY <2>1, <2>3, <3>1 DEF ptr2sv
  <2>4. CASE t \in UnsignedTypes \ {"ushort"}
    <3>1. ptr2sv(t, c) = SvIV(c)
      BY <2>4 DEF ptr2sv
    <3>2. <<t, "memory">> \notin Widening => SvIV(c) = c
      BY <2>4, NotWidened, TakenUnsigned
    <3> QED
      BY <2>1, <3>1, <3>2
  <2> QED
    BY <1>3, <2>2, <2>3, <2>4 DEF Types
<1> QED
  BY <1>2, <1>3
-----------------------------------------------------------------------------
\* A callback runs, and an integer is in memory, only where those are in use.
Routed ==
    /\ inCallback => "callback" \in Routes
    /\ side = "memory" => "memory" \in Routes

\* The inductive invariant: wherever the integer is, it is the one that Perl
\* started with as an integer of its type.
IntInv == TypeOK /\ NativeSees /\ PerlSees /\ Routed /\ Same(ty, val, orig)

\* A crossing out of Perl.
LEMMA OutStep ==
    ASSUME IntInv, NEW to \in {"native", "memory"}, NEW route \in Routes \cup {"call"}, NEW x,
           Cross("perl", to, route, x), x = Cast(ty, val), inCallback' \in BOOLEAN,
           inCallback' => "callback" \in Routes, to = "memory" => "memory" \in Routes
    PROVE  IntInv'
<1>1. /\ ty \in Types /\ orig \in PerlIntegers /\ val \in PerlIntegers /\ Same(ty, val, orig)
      /\ side' = to /\ via' = route /\ val' = x /\ ty' = ty /\ orig' = orig
  BY DEF IntInv, TypeOK, Cross
<1>2. orig \in Int /\ val \in Int
  BY <1>1, SizeAssumption DEF PerlIntegers
<1>3. val' = Cast(ty, orig)
  BY <1>1, <1>2, CastSame
<1>4. Same(ty, val', orig)
  BY <1>1, <1>2, <1>3, CastIs
<1>5. TypeOK'
  BY <1>1, <1>3 DEF TypeOK
<1>6. NativeSees' /\ PerlSees'
  BY <1>1, <1>3 DEF NativeSees, PerlSees
<1>7. Same(ty, val, orig)' /\ Routed'
  BY <1>1, <1>4 DEF Same, Routed
<1> QED
  BY <1>5, <1>6, <1>7 DEF IntInv

\* A crossing into Perl.
LEMMA InStep ==
    ASSUME IntInv, NEW from \in {"native", "memory"}, NEW route \in Routes \cup {"call"}, NEW x,
           Cross(from, "perl", route, x), inCallback' \in BOOLEAN,
           inCallback' => "callback" \in Routes,
           val = Cast(ty, orig) =>
              /\ x \in PerlIntegers /\ Same(ty, x, orig)
              /\ <<ty, route>> \notin Widening => x = Cast(ty, orig)
    PROVE  IntInv'
<1>1. /\ ty \in Types /\ orig \in PerlIntegers
      /\ side = from /\ side' = "perl" /\ via' = route /\ val' = x /\ ty' = ty /\ orig' = orig
  BY DEF IntInv, TypeOK, Cross
<1>2. val = Cast(ty, orig)
  BY <1>1 DEF IntInv, NativeSees
<1>3. TypeOK'
  BY <1>1, <1>2 DEF TypeOK
<1>4. Widening' = Widening
  BY DEF Widening
<1>5. NativeSees' /\ PerlSees'
  BY <1>1, <1>2 DEF NativeSees, PerlSees
<1>6. Same(ty, val, orig)' /\ Routed'
  BY <1>1, <1>2 DEF Same, Routed
<1> QED
  BY <1>3, <1>5, <1>6 DEF IntInv

\* Every step keeps the invariant.
LEMMA IntNext == IntInv /\ [Next]_vars => IntInv'
<1> SUFFICES ASSUME IntInv, [Next]_vars
             PROVE  IntInv'
  OBVIOUS
<1>1. /\ ty \in Types /\ orig \in Int /\ Routes \subseteq {"call", "callback", "memory"}
      /\ inCallback \in BOOLEAN
      /\ side = "perl" => val \in Int
      /\ inCallback => "callback" \in Routes
      /\ side = "memory" => "memory" \in Routes
  BY SizeAssumption DEF IntInv, TypeOK, PerlIntegers, Routed
<1>2. CASE UNCHANGED vars
  BY <1>2 DEF vars, IntInv, TypeOK, NativeSees, PerlSees, Routed, Same
<1>3. CASE Pass
  <2>1. Cross("perl", "native", "call", Argument(ty, val)) /\ inCallback' = inCallback
    BY <1>3 DEF Pass
  <2>2. Argument(ty, val) = Cast(ty, val)
    BY <1>1, <2>1, OutOfPerl DEF Cross
  <2> QED
    BY <1>1, <2>1, <2>2, OutStep
<1>4. CASE Return
  <2>1. Cross("native", "perl", "call", Result(ty, val)) /\ inCallback' = inCallback
    BY <1>4 DEF Return
  <2> QED
    BY <1>1, <2>1, IntoPerlResult, InStep
<1>5. CASE CallBack
  <2>1. /\ Cross("native", "perl", "callback", CallbackArgument(ty, val)) /\ inCallback' = TRUE
        /\ "callback" \in Routes
    BY <1>5 DEF CallBack
  <2> QED
    BY <1>1, <2>1, IntoPerlArgument, InStep
<1>6. CASE CallbackReturn
  <2>1. /\ Cross("perl", "native", "callback", CallbackResult(ty, val)) /\ inCallback' = FALSE
        /\ "callback" \in Routes
    BY <1>1, <1>6 DEF CallbackReturn
  <2>2. CallbackResult(ty, val) = Cast(ty, val)
    BY <1>1, <2>1, OutOfPerl DEF Cross
  <2> QED
    BY <1>1, <2>1, <2>2, OutStep
<1>7. CASE Store
  <2>1. /\ Cross("perl", "memory", "memory", sv2ptr(ty, val)) /\ inCallback' = inCallback
        /\ "memory" \in Routes /\ ty \notin {"char", "uchar"}
    BY <1>7 DEF Store
  <2>2. sv2ptr(ty, val) = Cast(ty, val)
    BY <1>1, <2>1, OutOfPerl DEF Cross
  <2> QED
    BY <1>1, <2>1, <2>2, OutStep
<1>8. CASE Load
  <2>1. /\ Cross("memory", "perl", "memory", ptr2sv(ty, val)) /\ inCallback' = inCallback
        /\ "memory" \in Routes
    BY <1>1, <1>8 DEF Load, Cross
  <2> QED
    BY <1>1, <2>1, IntoPerlMemory, InStep
<1> QED
  BY <1>2, <1>3, <1>4, <1>5, <1>6, <1>7, <1>8 DEF Next

\* The integer starts as itself.
LEMMA IntInit == Init => IntInv
<1> SUFFICES ASSUME Init
             PROVE  IntInv
  OBVIOUS
<1>1. ty \in Types /\ orig \in PerlIntegers /\ val = orig /\ orig \in Int
  BY SizeAssumption DEF Init, PerlIntegers
<1>2. TypeOK /\ NativeSees /\ PerlSees /\ Routed
  BY <1>1 DEF Init, TypeOK, NativeSees, PerlSees, Routed
<1>3. Size[ty] \in Nat
  BY <1>1, SizeAssumption
<1>4. orig = orig + 0 * Size[ty]
  BY <1>1, <1>3
<1>5. Same(ty, val, orig)
  BY <1>1, <1>4 DEF Same, Congruent
<1> QED
  BY <1>2, <1>5 DEF IntInv

\* On every route, for types of every width, the invariant holds.
THEOREM IntegerInvariant == Spec => []IntInv
<1>1. Init => IntInv
  BY IntInit
<1>2. IntInv /\ [Next]_vars => IntInv'
  BY IntNext
<1> QED
  BY <1>1, <1>2, PTL DEF Spec

\* Outside Perl the integer always fits its C type, inside Perl it is an
\* integer that a scalar can hold.
THEOREM TypeCorrect == Spec => []TypeOK
<1>1. IntInv => TypeOK
  BY DEF IntInv
<1> QED
  BY <1>1, IntegerInvariant, PTL

\* However often the integer crossed, native code and memory have what C makes
\* of the integer that Perl started with.
THEOREM NativeAlwaysSees == Spec => []NativeSees
<1>1. IntInv => NativeSees
  BY DEF IntInv
<1> QED
  BY <1>1, IntegerInvariant, PTL

\* Perl sees that integer too, except for the unsigned types and crossings that
\* Widening lists.
THEOREM PerlAlwaysSees == Spec => []PerlSees
<1>1. IntInv => PerlSees
  BY DEF IntInv
<1> QED
  BY <1>1, IntegerInvariant, PTL
=============================================================================
