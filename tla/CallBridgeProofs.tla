------------------------- MODULE CallBridgeProofs -------------------------
(***************************************************************************)
(* Theorems about CallBridge, for every signature and every target:        *)
(*  - the vector never holds more than the arguments need, and the         *)
(*    callee's cursor keeps to the convention of the call (Types);         *)
(*  - 64 bit arguments on the stack are aligned (Alignment);               *)
(*  - a callee that pops its arguments pops what was pushed (Cleanup);     *)
(*  - a struct result reaches the caller (StructsReturned);                *)
(*  - binding an argument disturbs no other (Stays), and on all targets    *)
(*    but two each argument arrives (OwnTaken, ArgumentsArrive), so that   *)
(*    a call implements the channel of ArgChannel.                         *)
(*                                                                         *)
(* The first parts are about the dcArg functions of each target: what one  *)
(* argument does to the vector (Grows), whichever branch of the code binds *)
(* it.  Then come the modes, the dcbArg functions of the callbacks, and    *)
(* the inductive invariants: Course (the loops of a call), Filled (the     *)
(* vector), and OnWords, Popping, Returning, Stored (the arguments bound)  *)
(* and Arriving (what the callback will find), which rest on it.           *)
(***************************************************************************)
EXTENDS ConventionProofs

---------------------------------------------------------------------------
\* The vector of a call VM: its size, its alignment, and what a store does.

\* The fields of a call VM.
Fields == {"vt", "err", "i", "f", "d", "hid", "copies", "size", "mem"}

\* Eight bytes in the vector lie at a multiple of 8.
Wide(mem) == \A e \in mem : e.file = "V" /\ e.len = 8 => e.off % 8 = 0

\* Size s keeps to the words of a target: g is 8 or 4, or 1 where only the places
\* of arguments are aligned, or 0 where nothing is.
OnGrain(s, g) == (g = 8 => s % 8 = 0) /\ (g = 4 => s % 4 = 0)

\* A call VM whose vector is aligned as g says.
Even(m, g) ==
    /\ DOMAIN m = Fields /\ m.size \in Nat /\ m.copies \in Int
    /\ m.i \in Nat /\ m.f \in Nat /\ m.d \in Nat
    /\ OnGrain(m.size, g) /\ (g # 0 => Wide(m.mem))

\* VM x is m with at most k more bytes used up.
Grows(m, x, k, g) ==
    /\ Even(x, g) /\ x.vt = m.vt /\ x.hid = m.hid
    /\ m.size <= x.size /\ x.copies <= m.copies
    /\ x.size <= m.size + k /\ m.copies - m.size <= x.copies - x.size + k

\* One change after another.
LEMMA GrowsTwice ==
    ASSUME NEW m, NEW x, NEW y, NEW k \in Nat, NEW j \in Nat, NEW g, Even(m, g),
           Grows(m, x, k, g), Grows(x, y, j, g)
    PROVE  Grows(m, y, k + j, g)
<1>1. /\ m.size \in Nat /\ m.copies \in Int /\ x.size \in Nat /\ x.copies \in Int
      /\ y.size \in Nat /\ y.copies \in Int
  BY DEF Grows, Even
<1> QED
  BY <1>1 DEF Grows

\* At most k bytes are at most j.
LEMMA GrowsMore ==
    ASSUME NEW m, NEW x, NEW k \in Nat, NEW j \in Nat, NEW g, k <= j, Even(m, g), Grows(m, x, k, g)
    PROVE  Grows(m, x, j, g)
<1>1. m.size \in Nat /\ m.copies \in Int /\ x.size \in Nat /\ x.copies \in Int
  BY DEF Grows, Even
<1> QED
  BY <1>1 DEF Grows

\* No change.
LEMMA GrowsNot ==
    ASSUME NEW m, NEW g, Even(m, g)
    PROVE  Grows(m, m, 0, g)
  BY DEF Grows, Even

\* A store at an offset that the target allows.
Fitting(file, off, p, g) == file # "V" \/ g = 0 \/ p.len # 8 \/ off % 8 = 0

\* A store leaves everything but the memory.
LEMMA PutKeeps ==
    ASSUME NEW m, NEW g, Even(m, g), NEW file, NEW off, NEW p, Fitting(file, off, p, g)
    PROVE  LET x == Put(m, file, off, p)
           IN  /\ Even(x, g) /\ x.vt = m.vt /\ x.hid = m.hid /\ x.size = m.size /\ x.copies = m.copies
               /\ x.i = m.i /\ x.f = m.f /\ x.d = m.d
<1> DEFINE e == [file |-> file, off |-> off, len |-> p.len,
                 arg |-> p.arg, form |-> p.form, from |-> p.from]
           mem == {h \in m.mem : ~Overlap(h, e)} \cup {e}
           x == Put(m, file, off, p)
<1>1. DOMAIN m = Fields /\ m.size \in Nat /\ m.copies \in Int
  BY DEF Even
<1>2. x = [m EXCEPT !.mem = mem]
  BY DEF Put
<1>3. g # 0 => Wide(mem)
  BY DEF Wide, Even, Fitting
<1> HIDE DEF mem, x
<1>4. /\ DOMAIN x = Fields /\ x.mem = mem /\ x.size = m.size /\ x.copies = m.copies
      /\ x.vt = m.vt /\ x.hid = m.hid /\ x.i = m.i /\ x.f = m.f /\ x.d = m.d
  BY <1>1, <1>2 DEF Fields
<1> QED
  BY <1>1, <1>3, <1>4 DEF Even, x

\* A store uses up nothing.
LEMMA GrowsPut ==
    ASSUME NEW m, NEW g, Even(m, g), NEW file, NEW off, NEW p, Fitting(file, off, p, g)
    PROVE  Grows(m, Put(m, file, off, p), 0, g)
<1> DEFINE x == Put(m, file, off, p)
<1>1. Even(x, g) /\ x.vt = m.vt /\ x.hid = m.hid /\ x.size = m.size /\ x.copies = m.copies
  BY PutKeeps
<1> HIDE DEF x
<1> QED
  BY <1>1 DEF Grows, Even, x

\* A change of the counts.
LEMMA GrowsCount ==
    ASSUME NEW m, NEW g, Even(m, g), NEW c \in Nat
    PROVE  /\ Grows(m, [m EXCEPT !.i = c], 0, g) /\ Grows(m, [m EXCEPT !.f = c], 0, g)
           /\ Grows(m, [m EXCEPT !.d = c], 0, g)
  BY DEF Grows, Even, Fields

\* A store into a register, counted.
LEMMA GrowsReg ==
    ASSUME NEW m, NEW g, Even(m, g), NEW file, NEW off, NEW p, Fitting(file, off, p, g), NEW c \in Nat
    PROVE  /\ Grows(m, [Put(m, file, off, p) EXCEPT !.i = c], 0, g)
           /\ Grows(m, [Put(m, file, off, p) EXCEPT !.f = c], 0, g)
           /\ \A b \in Nat : Grows(m, [Put(m, file, off, p) EXCEPT !.f = c, !.d = b], 0, g)
<1> DEFINE x == Put(m, file, off, p)
<1>1. Even(x, g) /\ x.vt = m.vt /\ x.hid = m.hid /\ x.size = m.size /\ x.copies = m.copies
  BY PutKeeps
<1>2. m.size \in Nat /\ m.copies \in Int
  BY DEF Even
<1> HIDE DEF x
<1> QED
  BY <1>1, <1>2 DEF Grows, Even, Fields, x

\* dcVecSkip.
LEMMA GrowsSkip ==
    ASSUME NEW m, NEW g, Even(m, g), NEW k \in Nat, OnGrain(k, g)
    PROVE  /\ Grows(m, dcVecSkip(m, k), k, g) /\ dcVecSkip(m, k).size = m.size + k
<1>1. m.size + k \in Nat /\ OnGrain(m.size + k, g)
  BY DEF Even, OnGrain
<1> QED
  BY <1>1 DEF dcVecSkip, Grows, Even, Fields

\* A store behind the end of the vector that sets its size.
PutEnd(m, off, p, size) == [Put(m, "V", off, p) EXCEPT !.size = @ + size]

\* It uses up its size.
LEMMA GrowsEnd ==
    ASSUME NEW m, NEW g, Even(m, g), NEW off, NEW p, Fitting("V", off, p, g), NEW k \in Nat, OnGrain(k, g)
    PROVE  Grows(m, PutEnd(m, off, p, k), k, g)
<1> DEFINE x == Put(m, "V", off, p)
           y == PutEnd(m, off, p, k)
<1>1. Even(x, g) /\ x.vt = m.vt /\ x.hid = m.hid /\ x.size = m.size /\ x.copies = m.copies
  BY PutKeeps
<1>2. m.size \in Nat /\ m.copies \in Int /\ m.size + k \in Nat /\ OnGrain(m.size + k, g)
  BY DEF Even, OnGrain
<1>3. y = [x EXCEPT !.size = @ + k]
  BY DEF PutEnd
<1> HIDE DEF x, y
<1> QED
  BY <1>1, <1>2, <1>3 DEF Grows, Even, Fields, x, y

\* dcVecAppend, whether the bytes fit or are dropped.
LEMMA GrowsAppend ==
    ASSUME NEW m, NEW g, Even(m, g), NEW p, Fitting("V", m.size, p, g), NEW k \in Nat, OnGrain(k, g)
    PROVE  Grows(m, dcVecAppend(m, p, k), k, g)
<1>1. CASE m.size + k <= VecTotal
  BY <1>1, GrowsEnd DEF dcVecAppend, PutEnd
<1>2. CASE ~(m.size + k <= VecTotal)
  <2>1. dcVecAppend(m, p, k) = m
    BY <1>2 DEF dcVecAppend
  <2> QED
    BY <2>1, GrowsNot, GrowsMore
<1> QED
  BY <1>1, <1>2

\* dcVecAppend leaves the counts alone.
LEMMA AppendKeeps ==
    ASSUME NEW m, NEW g, Even(m, g), NEW p, Fitting("V", m.size, p, g), NEW k
    PROVE  LET x == dcVecAppend(m, p, k) IN x.i = m.i /\ x.f = m.f /\ x.d = m.d
<1> DEFINE y == Put(m, "V", m.size, p)
           x == [y EXCEPT !.size = @ + k]
<1>1. y.i = m.i /\ y.f = m.f /\ y.d = m.d /\ DOMAIN y = Fields
  BY PutKeeps DEF Even
<1>2. dcVecAppend(m, p, k) \in {m, x}
  BY DEF dcVecAppend
<1> HIDE DEF y
<1>3. x.i = m.i /\ x.f = m.f /\ x.d = m.d
  BY <1>1 DEF Fields
<1> HIDE DEF x
<1> QED
  BY <1>2, <1>3

\* A value in a slot that is longer than it.
LEMMA GrowsPadded ==
    ASSUME NEW m, NEW g, Even(m, g), NEW p, Fitting("V", m.size, p, g), NEW k \in Nat, NEW pad \in Nat,
           OnGrain(k + pad, g), m.size + k <= VecTotal
    PROVE  Grows(m, dcVecSkip(dcVecAppend(m, p, k), pad), k + pad, g)
<1> DEFINE x == Put(m, "V", m.size, p)
           y == [x EXCEPT !.size = @ + k]
           z == dcVecSkip(y, pad)
<1>1. Even(x, g) /\ x.vt = m.vt /\ x.hid = m.hid /\ x.size = m.size /\ x.copies = m.copies
  BY PutKeeps
<1>2. dcVecAppend(m, p, k) = y
  BY DEF dcVecAppend
<1>3. m.size \in Nat /\ m.copies \in Int /\ m.size + k + pad \in Nat /\ OnGrain(m.size + k + pad, g)
  BY DEF Even, OnGrain
<1> HIDE DEF x
<1>4. /\ DOMAIN z = Fields /\ z.size = m.size + k + pad /\ z.copies = m.copies /\ z.mem = x.mem
      /\ z.vt = m.vt /\ z.hid = m.hid
      /\ z.i = x.i /\ z.f = x.f /\ z.d = x.d
  BY <1>1, <1>3 DEF dcVecSkip, Even, Fields
<1> HIDE DEF y, z
<1>5. Grows(m, z, k + pad, g)
  BY <1>1, <1>3, <1>4 DEF Grows, Even
<1> QED
  BY <1>2, <1>5 DEF z

\* The two ways to align the end of the vector.
LEMMA GrowsOdd ==
    ASSUME NEW m, NEW g, Even(m, g), g \in {0, 4}
    PROVE  Grows(m, SkipOddWord(m), 4, g) /\ (g = 4 => SkipOddWord(m).size % 8 = 0)
<1> DEFINE k == IF (m.size \div 4) % 2 = 1 THEN 4 ELSE 0
<1>1. k \in Nat /\ k <= 4 /\ OnGrain(k, g) /\ 4 \in Nat
  BY DEF OnGrain
<1>2. SkipOddWord(m) = dcVecSkip(m, k)
  BY DEF SkipOddWord
<1>3. g = 4 => (m.size + k) % 8 = 0
  BY DEF Even, OnGrain
<1> HIDE DEF k
<1>4. Grows(m, dcVecSkip(m, k), k, g) /\ dcVecSkip(m, k).size = m.size + k
  BY <1>1, GrowsSkip
<1>5. Grows(m, dcVecSkip(m, k), 4, g)
  BY <1>1, <1>4, GrowsMore
<1> QED
  BY <1>2, <1>3, <1>4, <1>5

\* dcVecAlign skips less than the alignment.
LEMMA GrowsAlign ==
    ASSUME NEW m, NEW g, Even(m, g), g \in {0, 1}, NEW a \in {1, 2, 4, 8}
    PROVE  Grows(m, dcVecAlign(m, a), 7, g) /\ (a = 8 => dcVecAlign(m, a).size % 8 = 0)
<1> DEFINE s == ((m.size + a - 1) \div a) * a
<1>1. /\ s \in Nat /\ m.size <= s /\ s <= m.size + 7 /\ (a = 8 => s % 8 = 0)
  <2>0. m.size \in Nat
    BY DEF Even
  <2>1. CASE a = 1
    BY <2>0, <2>1
  <2>2. CASE a = 2
    BY <2>0, <2>2
  <2>3. CASE a = 4
    BY <2>0, <2>3
  <2>4. CASE a = 8
    BY <2>0, <2>4
  <2> QED
    BY <2>1, <2>2, <2>3, <2>4
<1>2. dcVecAlign(m, a) = [m EXCEPT !.size = s]
  BY DEF dcVecAlign
<1> HIDE DEF s
<1> QED
  BY <1>1, <1>2 DEF Grows, Even, Fields, OnGrain

---------------------------------------------------------------------------
\* ARM.

\* The lengths of values.
LEMMA ValLen ==
    ASSUME NEW n
    PROVE  /\ Val(n, "i1").len = 1 /\ Val(n, "i2").len = 2 /\ Val(n, "i4").len = 4
           /\ Val(n, "f4").len = 4 /\ Val(n, "i8").len = 8 /\ Val(n, "f8").len = 8
           /\ Val(n, "w8").len = 8
           /\ \A t : Val(n, FormOf[t]).len = Bytes[FormOf[t]]
  BY DEF Val, Part, Bytes

\* The forms of the types.
LEMMA FormLen ==
    /\ FormOf["int"] = "i4" /\ FormOf["longlong"] = "i8" /\ FormOf["float"] = "f4"
    /\ FormOf["double"] = "f8" /\ FormOf["char"] = "i1" /\ FormOf["short"] = "i2"
    /\ DOMAIN FormOf = {"char", "short", "int", "longlong", "float", "double"}
  BY DEF FormOf

\* The arguments that most targets tell apart.
Words == {"int", "longlong", "float", "double"}

\* A value is appended where its target wants it, in a slot of its own.
LEMMA GrowsVal ==
    ASSUME NEW m, NEW g, Even(m, g), NEW y, NEW k \in Nat, k <= 64, Grows(m, y, k, g),
           NEW p, Fitting("V", y.size, p, g), NEW size \in {1, 2, 4, 8}, OnGrain(size, g)
    PROVE  Grows(m, dcVecAppend(y, p, size), 72, g)
<1>1. Even(y, g) /\ size \in Nat /\ k + size \in Nat /\ k + size <= 72 /\ 72 \in Nat
  BY DEF Grows
<1>2. Grows(y, dcVecAppend(y, p, size), size, g)
  BY <1>1, GrowsAppend
<1>3. Grows(m, dcVecAppend(y, p, size), k + size, g)
  BY <1>1, <1>2, GrowsTwice
<1> HIDE DEF Grows
<1> QED
  BY <1>1, <1>3, GrowsMore

\* A value that is appended as it is.
LEMMA GrowsHere ==
    ASSUME NEW m, NEW g, Even(m, g),
           NEW p, Fitting("V", m.size, p, g), NEW size \in {1, 2, 4, 8}, OnGrain(size, g)
    PROVE  Grows(m, dcVecAppend(m, p, size), 72, g)
  BY GrowsNot, GrowsVal

\* A register costs no byte of the vector.
LEMMA GrowsAtMost ==
    ASSUME NEW m, NEW g, Even(m, g), NEW x, Grows(m, x, 0, g)
    PROVE  Grows(m, x, 72, g)
  BY GrowsMore

\* ARM without hard float.
LEMMA ArmGrows ==
    ASSUME NEW m, NEW g, Even(m, g), g \in {0, 4}, g = 4 => m.vt = "arm_eabi",
           NEW t \in Words, NEW n
    PROVE  Grows(m, gVT_arm32_arm_arg(m, t, n), 72, g)
<1> DEFINE p == Val(n, FormOf[t])
<1>1. p.len \in {4, 8} /\ p.len \in {1, 2, 4, 8} /\ (p.len = 8 <=> t \in {"longlong", "double"})
  BY ValLen, FormLen DEF Words, Bytes
<1>2. OnGrain(p.len, g)
  BY <1>1 DEF OnGrain
<1> HIDE DEF p
<1>3. CASE m.vt = "arm_eabi" /\ t \in {"longlong", "double"}
  <2> DEFINE y == SkipOddWord(m)
             k == 4
  <2>1. Grows(m, y, k, g) /\ (g = 4 => y.size % 8 = 0) /\ k \in Nat /\ k <= 64
    BY <1>3, GrowsOdd
  <2>2. gVT_arm32_arm_arg(m, t, n) = dcVecAppend(y, p, p.len)
    BY <1>3 DEF gVT_arm32_arm_arg, dc_callvm_arg_arm32_arm_eabi, dc_callvm_arg_arm32_arm, p
  <2>3. Fitting("V", y.size, p, g)
    BY <2>1 DEF Fitting
  <2> HIDE DEF y, k
  <2> QED
    BY <1>1, <1>2, <2>1, <2>2, <2>3, GrowsVal
<1>4. CASE ~(m.vt = "arm_eabi" /\ t \in {"longlong", "double"})
  <2>1. gVT_arm32_arm_arg(m, t, n) = dcVecAppend(m, p, p.len)
    BY <1>4 DEF gVT_arm32_arm_arg, dc_callvm_arg_arm32_arm_eabi, dc_callvm_arg_arm32_arm, p
  <2>2. Fitting("V", m.size, p, g)
    BY <1>1, <1>4 DEF Fitting
  <2> QED
    BY <1>1, <1>2, <2>1, <2>2, GrowsHere
<1> QED
  BY <1>3, <1>4

\* Hard float.
LEMMA HfInt ==
    ASSUME NEW m, NEW g, Even(m, g), g = 4, NEW p, p.len = 4
    PROVE  Grows(m, armhf_a_int(m, p), 72, g)
<1>1. \A off : Fitting("V", off, p, g)
  BY DEF Fitting
<1>2. CASE m.i < 16
  <2> DEFINE c == m.i + 4
             x == [Put(m, "V", m.i, p) EXCEPT !.i = c]
  <2>1. Put(m, "V", m.i, p).i = m.i /\ c \in Nat
    BY <1>1, PutKeeps DEF Even
  <2>2. armhf_a_int(m, p) = x
    BY <1>2, <2>1 DEF armhf_a_int
  <2> HIDE DEF c
  <2>3. Grows(m, x, 0, g)
    BY <1>1, <2>1, GrowsReg
  <2> QED
    BY <2>2, <2>3, GrowsAtMost
<1>3. CASE ~(m.i < 16)
  <2>1. OnGrain(4, g)
    BY DEF OnGrain
  <2> QED
    BY <1>1, <1>3, <2>1, GrowsHere DEF armhf_a_int
<1> QED
  BY <1>2, <1>3

\* A 64 bit integer, in a pair of registers.
LEMMA HfLongLong ==
    ASSUME NEW m, NEW g, Even(m, g), g = 4, NEW p
    PROVE  Grows(m, armhf_a_longlong(m, p), 72, g)
<1> DEFINE i == ((m.i + 4) \div 8) * 8
           at == [m EXCEPT !.i = i]
           k == 4
<1>0. i % 8 = 0 /\ k \in Nat /\ k <= 64 /\ i \in Nat /\ i + 8 \in Nat
  BY DEF Even
<1> HIDE DEF i
<1>1. Grows(m, at, 0, g) /\ Even(at, g)
  BY <1>0, GrowsCount DEF Grows
<1> HIDE DEF at
<1>2. CASE i < 16
  <2>1. Fitting("V", i, p, g)
    BY <1>0 DEF Fitting
  <2> DEFINE x == [Put(at, "V", i, p) EXCEPT !.i = i + 8]
  <2>2. Grows(at, x, 0, g)
    BY <1>0, <1>1, <2>1, GrowsReg
  <2>3. armhf_a_longlong(m, p) = x
    BY <1>2 DEF armhf_a_longlong, i, at
  <2> HIDE DEF x
  <2>4. Grows(m, x, 0, g)
    BY <1>1, <2>2, GrowsTwice
  <2> QED
    BY <2>3, <2>4, GrowsAtMost
<1>3. CASE ~(i < 16)
  <2> DEFINE y == SkipOddWord(at)
  <2>1. Grows(at, y, k, g) /\ y.size % 8 = 0
    BY <1>1, GrowsOdd
  <2>2. armhf_a_longlong(m, p) = dcVecAppend(y, p, 8)
    BY <1>3 DEF armhf_a_longlong, i, at
  <2> HIDE DEF y, k
  <2>3. Grows(m, y, k, g)
    BY <1>0, <1>1, <2>1, GrowsTwice
  <2>4. Fitting("V", y.size, p, g) /\ OnGrain(8, g)
    BY <2>1 DEF Fitting, OnGrain
  <2> QED
    BY <1>0, <2>2, <2>3, <2>4, GrowsVal
<1> QED
  BY <1>2, <1>3

\* A float: a single register, or the stack.
LEMMA HfFloat ==
    ASSUME NEW m, NEW g, Even(m, g), g = 4, NEW p, p.len = 4
    PROVE  Grows(m, armhf_a_float(m, p), 72, g)
<1>1. /\ \A off : Fitting("V", off, p, g) /\ Fitting("S", off, p, g)
      /\ OnGrain(4, g)
  BY DEF Fitting, OnGrain
<1>2. CASE m.f < 16
  <2> DEFINE s == m.f + 1
             c == IF m.d < s THEN s ELSE m.d
             b == IF m.d < s THEN RoundEven(s) ELSE m.d
             x == [Put(m, "S", 4 * m.f, p) EXCEPT !.f = c, !.d = b]
  <2>1. Put(m, "S", 4 * m.f, p).d = m.d /\ c \in Nat /\ b \in Nat
    <3>1. m.f \in Nat /\ m.d \in Nat
      BY DEF Even
    <3>2. c \in Nat /\ b \in Nat
      BY <3>1 DEF RoundEven
    <3> QED
      BY <1>1, <3>2, PutKeeps
  <2>2. armhf_a_float(m, p) = x
    BY <1>2, <2>1 DEF armhf_a_float
  <2> HIDE DEF c, b
  <2>3. Grows(m, x, 0, g)
    BY <1>1, <2>1, GrowsReg
  <2> QED
    BY <2>2, <2>3, GrowsAtMost
<1>3. CASE ~(m.f < 16)
  BY <1>1, <1>3, GrowsHere DEF armhf_a_float
<1> QED
  BY <1>2, <1>3

\* A double, past a single register that is left.
LEMMA HfDouble ==
    ASSUME NEW m, NEW g, Even(m, g), g = 4, NEW p
    PROVE  Grows(m, armhf_a_double(m, p), 72, g)
<1>1. CASE m.d < 16
  <2> DEFINE c == IF m.f % 2 = 0 THEN m.d + 2 ELSE m.f
             b == m.d + 2
             y == Put(m, "S", 4 * m.d, p)
             x == [y EXCEPT !.f = c, !.d = b]
  <2>0. Fitting("S", 4 * m.d, p, g)
    BY DEF Fitting
  <2>1. y.d = m.d /\ y.f = m.f /\ DOMAIN y = Fields
    BY <2>0, PutKeeps DEF Even
  <2>2. armhf_a_double(m, p) = x
    <3> DEFINE z == [y EXCEPT !.d = @ + 2, !.f = IF m.f % 2 = 0 THEN m.d + 2 ELSE @]
    <3>1. armhf_a_double(m, p) = z
      BY <1>1 DEF armhf_a_double
    <3> HIDE DEF y
    <3>2. z = x
      BY <2>1 DEF Fields
    <3> QED
      BY <3>1, <3>2
  <2>3. Grows(m, x, 0, g)
    <3>1. c \in Nat /\ b \in Nat
      BY DEF Even
    <3> HIDE DEF c, b
    <3> QED
      BY <2>0, <3>1, GrowsReg
  <2> HIDE DEF x
  <2> QED
    BY <2>2, <2>3, GrowsAtMost
<1>2. CASE ~(m.d < 16)
  <2> DEFINE c == 16
             at == [m EXCEPT !.f = c]
             y == SkipOddWord(at)
             k == 4
  <2>1. Grows(m, at, 0, g) /\ Even(at, g) /\ k \in Nat /\ k <= 64
    <3>1. c \in Nat
      OBVIOUS
    <3> HIDE DEF c
    <3>2. Grows(m, at, 0, g)
      BY <3>1, GrowsCount
    <3> HIDE DEF at
    <3> QED
      BY <3>2 DEF Grows
  <2>2. Grows(at, y, k, g) /\ y.size % 8 = 0
    BY <2>1, GrowsOdd
  <2>3. armhf_a_double(m, p) = dcVecAppend(y, p, 8)
    BY <1>2 DEF armhf_a_double
  <2> HIDE DEF y, k, at
  <2>4. Grows(m, y, k, g)
    BY <2>1, <2>2, GrowsTwice
  <2>5. Fitting("V", y.size, p, g) /\ OnGrain(8, g)
    BY <2>2 DEF Fitting, OnGrain
  <2> QED
    BY <2>1, <2>3, <2>4, <2>5, GrowsVal
<1> QED
  BY <1>1, <1>2

\* All arguments of hard float.
LEMMA HfGrows ==
    ASSUME NEW m, NEW g, Even(m, g), g = 4, NEW t \in Words, NEW n
    PROVE  Grows(m, vt_armhf_arg(m, t, n), 72, g)
<1> DEFINE p == Val(n, FormOf[t])
<1>1. t \in {"int", "float"} => p.len = 4
  BY ValLen, FormLen
<1>2. /\ Grows(m, armhf_a_longlong(m, p), 72, g) /\ Grows(m, armhf_a_double(m, p), 72, g)
      /\ p.len = 4 => Grows(m, armhf_a_int(m, p), 72, g) /\ Grows(m, armhf_a_float(m, p), 72, g)
  BY HfInt, HfLongLong, HfFloat, HfDouble
<1>3. \/ vt_armhf_arg(m, t, n) \in {armhf_a_longlong(m, p), armhf_a_double(m, p)}
      \/ p.len = 4 /\ vt_armhf_arg(m, t, n) \in {armhf_a_int(m, p), armhf_a_float(m, p)}
  BY <1>1 DEF vt_armhf_arg, armhf_a_float_ellipsis, armhf_a_double_ellipsis, Words
<1> QED
  BY <1>2, <1>3

---------------------------------------------------------------------------
\* The 64 bit ARM targets and MIPS EABI.

\* A register takes the value.
LEMMA GrowsNext ==
    ASSUME NEW m, NEW g, Even(m, g), NEW file, NEW off, NEW p, file # "V"
    PROVE  /\ Grows(m, [Put(m, file, off, p) EXCEPT !.i = @ + 1], 0, g)
           /\ Grows(m, [Put(m, file, off, p) EXCEPT !.f = @ + 1], 0, g)
           /\ Grows(m, [Put(m, file, off, p) EXCEPT !.i = RoundEven(@) + 2], 0, g)
<1> DEFINE x == Put(m, file, off, p)
           i == m.i + 1
           f == m.f + 1
           e == RoundEven(m.i) + 2
<1>0. Fitting(file, off, p, g)
  BY DEF Fitting
<1>1. x.i = m.i /\ x.f = m.f
  BY <1>0, PutKeeps
<1>2. i \in Nat /\ f \in Nat /\ e \in Nat
  <2>1. m.f \in Nat /\ m.i \in Nat
    BY DEF Even
  <2> QED
    BY <2>1 DEF RoundEven
<1> HIDE DEF i, f, e
<1>3. /\ Grows(m, [x EXCEPT !.i = i], 0, g) /\ Grows(m, [x EXCEPT !.i = e], 0, g)
      /\ Grows(m, [x EXCEPT !.f = f], 0, g)
  BY <1>0, <1>2, GrowsReg
<1> HIDE DEF x
<1>4. [x EXCEPT !.i = @ + 1] = [x EXCEPT !.i = i] /\ [x EXCEPT !.f = @ + 1] = [x EXCEPT !.f = f]
      /\ [x EXCEPT !.i = RoundEven(@) + 2] = [x EXCEPT !.i = e]
  BY <1>1 DEF i, f, e
<1> QED
  BY <1>3, <1>4 DEF x

\* The same, with the count of the registers.
LEMMA GrowsRegister ==
    ASSUME NEW m, NEW g, Even(m, g), NEW file, NEW off, NEW p, file # "V"
    PROVE  /\ Grows(m, [Put(m, file, off, p) EXCEPT !.i = @ + 1], 72, g)
           /\ Grows(m, [Put(m, file, off, p) EXCEPT !.f = @ + 1], 72, g)
           /\ Grows(m, [Put(m, file, off, p) EXCEPT !.i = RoundEven(@) + 2], 72, g)
  BY GrowsNext, GrowsAtMost

\* A value in a slot of eight bytes, filled up.
LEMMA GrowsFloat ==
    ASSUME NEW m, NEW g, Even(m, g), g = 8, NEW p, p.len = 4, m.size + 72 <= VecTotal
    PROVE  Grows(m, dcVecSkip(dcVecAppend(m, p, 4), 4), 72, g)
<1> DEFINE k == 4
<1>0. m.size \in Nat /\ VecTotal \in Nat
  BY VecAssumption DEF Even
<1>1. Fitting("V", m.size, p, g) /\ OnGrain(k + k, g) /\ m.size + k <= VecTotal /\ k \in Nat
      /\ k + k \in Nat /\ k + k <= 72 /\ 72 \in Nat
  BY <1>0 DEF Fitting, OnGrain
<1> HIDE DEF k
<1>2. Grows(m, dcVecSkip(dcVecAppend(m, p, k), k), k + k, g)
  BY <1>1, GrowsPadded
<1>3. Grows(m, dcVecSkip(dcVecAppend(m, p, k), k), 72, g)
  BY <1>1, <1>2, GrowsMore
<1> QED
  BY <1>3 DEF k

\* Where the size is a multiple of 8.
LEMMA GrowsEight ==
    ASSUME NEW m, NEW g, Even(m, g), g = 8, NEW p
    PROVE  Grows(m, dcVecAppend(m, p, 8), 72, g)
<1>1. Fitting("V", m.size, p, g) /\ OnGrain(8, g)
  BY DEF Fitting, OnGrain, Even
<1> QED
  BY <1>1, GrowsHere

\* A word of 4 bytes.
LEMMA GrowsWord ==
    ASSUME NEW m, NEW g, Even(m, g), g # 8, NEW p, p.len = 4
    PROVE  Grows(m, dcVecAppend(m, p, 4), 72, g)
<1>1. Fitting("V", m.size, p, g) /\ OnGrain(4, g)
  BY DEF Fitting, OnGrain
<1> QED
  BY <1>1, GrowsHere

\* Behind an odd word.
LEMMA GrowsPair ==
    ASSUME NEW m, NEW g, Even(m, g), g = 4, NEW p
    PROVE  Grows(m, dcVecAppend(SkipOddWord(m), p, 8), 72, g)
<1> DEFINE k == 4
           y == SkipOddWord(m)
<1>1. Grows(m, y, k, g) /\ y.size % 8 = 0 /\ k \in Nat /\ k <= 64
  BY GrowsOdd
<1>2. Fitting("V", y.size, p, g) /\ OnGrain(8, g)
  BY <1>1 DEF Fitting, OnGrain
<1> HIDE DEF y, k
<1>3. Grows(m, dcVecAppend(y, p, 8), 72, g)
  BY <1>1, <1>2, GrowsVal
<1> QED
  BY <1>3 DEF y

\* A value at a multiple of its size, as Apple wants it.
LEMMA GrowsAligned ==
    ASSUME NEW m, NEW g, Even(m, g), g \in {0, 1}, NEW p, NEW a \in {1, 2, 4, 8}, p.len = a
    PROVE  Grows(m, dcVecAppend(dcVecAlign(m, a), p, a), 72, g)
<1> DEFINE k == 7
           y == dcVecAlign(m, a)
<1>1. Grows(m, y, k, g) /\ (a = 8 => y.size % 8 = 0) /\ k \in Nat /\ k <= 64
  BY GrowsAlign
<1>2. Fitting("V", y.size, p, g) /\ OnGrain(a, g)
  BY <1>1 DEF Fitting, OnGrain
<1> HIDE DEF y, k
<1>3. Grows(m, dcVecAppend(y, p, a), 72, g)
  BY <1>1, <1>2, GrowsVal
<1> QED
  BY <1>3 DEF y

\* AArch64.
LEMMA Arm64Grows ==
    ASSUME NEW m, NEW g, Even(m, g), g = 8, NEW t \in Words, NEW n, m.size + 72 <= VecTotal
    PROVE  /\ Grows(m, vt_arm64_arg(m, t, n), 72, g)
           /\ Grows(m, vt_arm64_win_varargs_arg(m, t, n), 72, g)
<1>1. \A p : Grows(m, arm64_a_i64(m, p), 72, g)
  BY GrowsRegister, GrowsEight DEF arm64_a_i64
<1>2. \A p : Grows(m, arm64_a_double(m, p), 72, g)
  BY GrowsRegister, GrowsEight DEF arm64_a_double
<1>3. \A p : p.len = 4 => Grows(m, arm64_a_float(m, p), 72, g)
  BY GrowsRegister, GrowsFloat DEF arm64_a_float
<1>4. Val(n, "f4").len = 4
  BY ValLen
<1> QED
  BY <1>1, <1>2, <1>3, <1>4 DEF vt_arm64_arg, vt_arm64_win_varargs_arg, arm64_var_float, Words

\* Apple's AArch64.
LEMMA AppleGrows ==
    ASSUME NEW m, NEW g, Even(m, g), g = 1, NEW t \in DOMAIN FormOf, NEW n
    PROVE  Grows(m, vt_apple_arg(m, t, n), 72, g)
<1> DEFINE p == Val(n, FormOf[t])
<1>1. p.len \in {1, 2, 4, 8}
  BY ValLen, FormLen
<1>2. Grows(m, apple_a(m, t, n), 72, g)
  <2> HIDE DEF p
  <2> QED
    BY <1>1, GrowsRegister, GrowsAligned DEF apple_a, p
<1>3. Grows(m, apple_var(m, t, n), 72, g)
  <2> DEFINE q == Val(n, CASE t = "float" -> "w8" [] t = "double" -> "f8" [] OTHER -> "i8")
  <2>1. q.len = 8
    BY ValLen
  <2> HIDE DEF q
  <2> QED
    BY <2>1, GrowsAligned DEF apple_var, q
<1> QED
  BY <1>2, <1>3 DEF vt_apple_arg

\* MIPS EABI.
LEMMA EabiGrows ==
    ASSUME NEW m, NEW g, Even(m, g), g = 4, NEW t \in Words, NEW n
    PROVE  Grows(m, gVT_mips_eabi_arg(m, t, n), 72, g)
<1> DEFINE p == Val(n, FormOf[t])
<1>1. t \in {"int", "float"} => p.len = 4
  BY ValLen, FormLen
<1> HIDE DEF p
<1>2. p.len = 4 => Grows(m, dc_callvm_argInt_mips_eabi(m, p), 72, g)
  <2>1. p.len = 4 => Grows(m, dcVecAppend(m, p, 4), 72, g)
    BY GrowsWord
  <2>2. m.i < 8 => Grows(m, dc_callvm_argInt_mips_eabi(m, p), 72, g)
    BY GrowsRegister DEF dc_callvm_argInt_mips_eabi
  <2> QED
    BY <2>1, <2>2 DEF dc_callvm_argInt_mips_eabi
<1>3. p.len = 4 => Grows(m, dc_callvm_argFloat_mips_eabi(m, p), 72, g)
  <2>1. p.len = 4 => Grows(m, dcVecAppend(m, p, 4), 72, g)
    BY GrowsWord
  <2>2. m.f < 8 => Grows(m, dc_callvm_argFloat_mips_eabi(m, p), 72, g)
    BY GrowsRegister DEF dc_callvm_argFloat_mips_eabi
  <2> QED
    BY <2>1, <2>2 DEF dc_callvm_argFloat_mips_eabi
<1>4. Grows(m, dc_callvm_argLongLong_mips_eabi(m, p), 72, g)
  <2>1. CASE m.i < 7
    BY <2>1, GrowsRegister DEF dc_callvm_argLongLong_mips_eabi
  <2>2. CASE ~(m.i < 7)
    <3> DEFINE c == 8
               at == [m EXCEPT !.i = c]
               k == 4
               y == SkipOddWord(at)
    <3>1. c \in Nat /\ k \in Nat /\ k <= 64 /\ OnGrain(8, g)
      BY DEF OnGrain
    <3>2. dc_callvm_argLongLong_mips_eabi(m, p) = dcVecAppend(y, p, 8)
      BY <2>2 DEF dc_callvm_argLongLong_mips_eabi
    <3> HIDE DEF c, k
    <3>3. Grows(m, at, 0, g)
      BY <3>1, GrowsCount
    <3> HIDE DEF at
    <3>4. Even(at, g)
      BY <3>3 DEF Grows
    <3>5. Grows(at, y, k, g) /\ y.size % 8 = 0
      BY <3>4, GrowsOdd DEF k
    <3> HIDE DEF y
    <3>6. Grows(m, y, k, g) /\ Fitting("V", y.size, p, g)
      BY <3>1, <3>3, <3>5, GrowsTwice DEF Fitting
    <3> QED
      BY <3>1, <3>2, <3>6, GrowsVal
  <2> QED
    BY <2>1, <2>2
<1> QED
  BY <1>1, <1>2, <1>3, <1>4 DEF gVT_mips_eabi_arg, p, Words

---------------------------------------------------------------------------
\* MIPS, SPARC and the System V PowerPC.

\* One more is counted.
LEMMA GrowsOne ==
    ASSUME NEW m, NEW g, Even(m, g), NEW x, NEW k \in Nat, Grows(m, x, k, g)
    PROVE  Grows(m, [x EXCEPT !.i = @ + 1], k, g)
<1> DEFINE c == x.i + 1
<1>1. Even(x, g) /\ c \in Nat
  BY DEF Grows, Even
<1>2. [x EXCEPT !.i = @ + 1] = [x EXCEPT !.i = c]
  OBVIOUS
<1> HIDE DEF c
<1>3. Grows(x, [x EXCEPT !.i = c], 0, g)
  BY <1>1, GrowsCount
<1> DEFINE y == [x EXCEPT !.i = c]
<1> HIDE DEF y
<1>4. Grows(m, y, k + 0, g) /\ k + 0 = k
  BY <1>3, GrowsTwice DEF y
<1> QED
  BY <1>2, <1>4 DEF y

\* MIPS O32.
LEMMA O32Grows ==
    ASSUME NEW m, NEW g, Even(m, g), g = 4, NEW t \in Words, NEW n
    PROVE  Grows(m, gVT_mips_o32_arg(m, t, n), 72, g)
<1> DEFINE p == Val(n, FormOf[t])
<1>1. t \in {"int", "float"} => p.len = 4
  BY ValLen, FormLen
<1> HIDE DEF p
<1>2. ASSUME NEW x, Grows(m, x, 72, g)
      PROVE  /\ Grows(m, [x EXCEPT !.i = @ + 1], 72, g)
             /\ Grows(m, [o32_InRegister(x, p) EXCEPT !.i = @ + 1], 72, g)
  <2>1. Grows(m, o32_InRegister(x, p), 72, g)
    <3>1. CASE x.i < 2
      <4>1. Even(x, g) /\ Fitting("F", 8 * x.i, p, g)
        BY <1>2 DEF Grows, Fitting
      <4>2. Grows(x, Put(x, "F", 8 * x.i, p), 0, g)
        BY <4>1, GrowsPut
      <4> DEFINE y == Put(x, "F", 8 * x.i, p)
                 k == 72
      <4>3. o32_InRegister(x, p) = y /\ k \in Nat /\ k + 0 = k
        BY <3>1 DEF o32_InRegister
      <4> HIDE DEF y, k
      <4>4. Grows(m, y, k + 0, g)
        BY <1>2, <4>2, <4>3, GrowsTwice DEF y, k
      <4> QED
        BY <4>3, <4>4 DEF k
    <3>2. CASE ~(x.i < 2)
      BY <1>2, <3>2 DEF o32_InRegister
    <3> QED
      BY <3>1, <3>2
  <2> QED
    BY <1>2, <2>1, GrowsOne, 72 \in Nat
<1>3. p.len = 4 => Grows(m, dcVecAppend(m, p, 4), 72, g)
  BY GrowsWord
<1>4. Grows(m, dcVecAppend(SkipOddWord(m), p, 8), 72, g)
  BY GrowsPair
<1>5. t \in {"int", "float"} => Grows(m, gVT_mips_o32_arg(m, t, n), 72, g)
  BY <1>1, <1>2, <1>3 DEF gVT_mips_o32_arg, dc_callvm_argInt_mips_o32, dc_callvm_argFloat_mips_o32, p
<1>6. t \in {"longlong", "double"} => Grows(m, gVT_mips_o32_arg(m, t, n), 72, g)
  BY <1>2, <1>4 DEF gVT_mips_o32_arg, dc_callvm_argLongLong_mips_o32, dc_callvm_argDouble_mips_o32, p
<1> QED
  BY <1>5, <1>6 DEF Words

\* MIPS N32 and N64.
LEMMA N64Grows ==
    ASSUME NEW m, NEW g, Even(m, g), g = 8, NEW t \in Words, NEW n, m.size + 72 <= VecTotal
    PROVE  /\ Grows(m, gVT_mips_n64_arg(m, t, n), 72, g)
           /\ Grows(m, gVT_mips_n64_ellipsis_arg(m, t, n), 72, g)
<1>1. \A p : Grows(m, dc_callvm_argLongLong_mips_n64(m, p), 72, g)
  BY GrowsRegister, GrowsEight DEF dc_callvm_argLongLong_mips_n64, Slot
<1>2. \A p : Grows(m, dc_callvm_argDouble_mips_n64(m, p), 72, g)
  BY GrowsRegister, GrowsEight DEF dc_callvm_argDouble_mips_n64, Slot
<1>3. \A p : p.len = 4 => Grows(m, dc_callvm_argFloat_mips_n64(m, p), 72, g)
  BY GrowsRegister, GrowsFloat DEF dc_callvm_argFloat_mips_n64, Slot
<1>4. Val(n, "f4").len = 4
  BY ValLen
<1>5. Grows(m, gVT_mips_n64_arg(m, t, n), 72, g)
  BY <1>1, <1>2, <1>3, <1>4 DEF gVT_mips_n64_arg, Words
<1> QED
  BY <1>1, <1>5 DEF gVT_mips_n64_ellipsis_arg, dc_callvm_argFloat_mips_n64_ellipsis

\* SPARC.
LEMMA SparcGrows ==
    ASSUME NEW m, NEW g, Even(m, g), g = 0, NEW t \in Words, NEW n
    PROVE  Grows(m, gVT_sparc_arg(m, t, n), 72, g)
<1> DEFINE p == Val(n, FormOf[t])
<1>1. p.len \in {1, 2, 4, 8} /\ Fitting("V", m.size, p, g) /\ OnGrain(p.len, g)
  BY ValLen, FormLen DEF Words, Fitting, OnGrain
<1> HIDE DEF p
<1> QED
  BY <1>1, GrowsHere DEF gVT_sparc_arg, dc_callvm_arg_sparc, p

\* SPARC V9.
LEMMA V9Grows ==
    ASSUME NEW m, NEW g, Even(m, g), g = 8, NEW t \in Words, NEW n
    PROVE  Grows(m, gVT_v9_arg(m, t, n), 72, g) /\ Grows(m, gVT_v9_ellipsis_arg(m, t, n), 72, g)
<1>1. \A p : Grows(m, dc_callvm_argLongLong_v9(m, p), 72, g)
  BY GrowsEight DEF dc_callvm_argLongLong_v9
<1>2. Grows(m, dc_callvm_argFloat_v9(m, n), 72, g)
  <2>1. CASE m.size + 8 > VecTotal
    BY <2>1, GrowsNot, GrowsAtMost DEF dc_callvm_argFloat_v9
  <2>2. CASE ~(m.size + 8 > VecTotal)
    <3> DEFINE off == m.size + 4
               p == Val(n, "f4")
               k == 8
    <3>1. k \in Nat /\ k <= 72 /\ 72 \in Nat /\ OnGrain(k, g) /\ Fitting("V", off, p, g)
      BY ValLen DEF OnGrain, Fitting
    <3>2. dc_callvm_argFloat_v9(m, n) = PutEnd(m, off, p, k)
      BY <2>2 DEF dc_callvm_argFloat_v9, PutEnd
    <3> HIDE DEF off, p, k
    <3>3. Grows(m, PutEnd(m, off, p, k), k, g)
      BY <3>1, GrowsEnd
    <3> QED
      BY <3>1, <3>2, <3>3, GrowsMore
  <2> QED
    BY <2>1, <2>2
<1>3. Grows(m, gVT_v9_arg(m, t, n), 72, g)
  BY <1>1, <1>2 DEF gVT_v9_arg, Words
<1> QED
  BY <1>1, <1>3 DEF gVT_v9_ellipsis_arg, dc_callvm_argFloat_v9_ellipsis

\* System V on 32 bit PowerPC.
LEMMA Sysv32Grows ==
    ASSUME NEW m, NEW g, Even(m, g), g \in {0, 1}, NEW t \in Words, NEW n
    PROVE  Grows(m, gVT_ppc32_sysv_arg(m, t, n), 72, g)
<1>1. Val(n, "i4").len = 4 /\ Val(n, "f4").len = 4 /\ Val(n, "i8").len = 8 /\ Val(n, "f8").len = 8
  BY ValLen
<1>f. \A p : Grows(m, FloatReg(m, p), 72, g)
  BY GrowsRegister DEF FloatReg
<1>2. Grows(m, dc_callvm_argInt_ppc32_sysv(m, n), 72, g)
  <2>1. Grows(m, dcVecAppend(m, Val(n, "i4"), 4), 72, g)
    BY <1>1, GrowsWord
  <2>2. m.i < 8 => Grows(m, IntReg(m, 4, Val(n, "i4")), 72, g)
    BY GrowsRegister DEF IntReg
  <2> QED
    BY <2>1, <2>2 DEF dc_callvm_argInt_ppc32_sysv
<1>3. Grows(m, dc_callvm_argFloat_ppc32_sysv(m, n), 72, g)
  <2>1. Grows(m, dcVecAppend(m, Val(n, "f4"), 4), 72, g)
    BY <1>1, GrowsWord
  <2> QED
    BY <1>f, <2>1 DEF dc_callvm_argFloat_ppc32_sysv
<1>4. Grows(m, dc_callvm_argDouble_ppc32_sysv(m, n), 72, g)
  <2>1. Grows(m, dcVecAppend(dcVecAlign(m, 8), Val(n, "f8"), 8), 72, g)
    BY <1>1, GrowsAligned
  <2> QED
    BY <1>f, <2>1 DEF dc_callvm_argDouble_ppc32_sysv
<1>5. Grows(m, dc_callvm_argLongLong_ppc32_sysv(m, n), 72, g)
  <2>1. CASE m.i < 7
    BY <2>1, GrowsRegister DEF dc_callvm_argLongLong_ppc32_sysv
  <2>2. CASE ~(m.i < 7)
    <3> DEFINE c == 8
               at == [m EXCEPT !.i = c]
               k == 7
               y == dcVecAlign(at, 8)
               p == Val(n, "i8")
    <3>1. c \in Nat /\ k \in Nat /\ k <= 64 /\ OnGrain(8, g) /\ 0 + k = k
      BY DEF OnGrain
    <3>2. dc_callvm_argLongLong_ppc32_sysv(m, n) = dcVecAppend(y, p, 8)
      BY <2>2 DEF dc_callvm_argLongLong_ppc32_sysv
    <3> HIDE DEF c, k, p
    <3>3. Grows(m, at, 0, g)
      BY <3>1, GrowsCount
    <3> HIDE DEF at
    <3>4. Even(at, g)
      BY <3>3 DEF Grows
    <3>5. Grows(at, y, k, g) /\ y.size % 8 = 0
      BY <3>4, GrowsAlign DEF k
    <3> HIDE DEF y
    <3>6. Grows(m, y, k, g) /\ Fitting("V", y.size, p, g)
      BY <3>1, <3>3, <3>5, GrowsTwice DEF Fitting
    <3> QED
      BY <3>1, <3>2, <3>6, GrowsVal
  <2> QED
    BY <2>1, <2>2
<1> QED
  BY <1>2, <1>3, <1>4, <1>5 DEF gVT_ppc32_sysv_arg, Words

---------------------------------------------------------------------------
\* PowerPC as Darwin has it, and x86.

\* A general register of PowerPC, if one is left.
LEMMA GrowsIntReg ==
    ASSUME NEW m, NEW g, Even(m, g), NEW w, NEW p
    PROVE  /\ Grows(m, IntReg(m, w, p), 0, g)
           /\ m.i <= 8 => IntReg(m, w, p).i <= 8
           /\ IntReg(m, w, p).size = m.size
<1>1. CASE m.i < 8
  <2> DEFINE y == Put(m, "I", w * m.i, p)
             x == [y EXCEPT !.i = @ + 1]
  <2>1. IntReg(m, w, p) = x
    BY <1>1 DEF IntReg
  <2>2. Fitting("I", w * m.i, p, g)
    BY DEF Fitting
  <2>3. y.i = m.i /\ y.size = m.size /\ DOMAIN y = Fields /\ m.i \in Nat
    BY <2>2, PutKeeps DEF Even
  <2>4. Grows(m, x, 0, g)
    BY GrowsNext
  <2> HIDE DEF y
  <2>5. x.i = m.i + 1 /\ x.size = m.size
    BY <2>3 DEF Fields
  <2> QED
    BY <1>1, <2>1, <2>3, <2>4, <2>5
<1>2. CASE ~(m.i < 8)
  BY <1>2, GrowsNot DEF IntReg
<1> QED
  BY <1>1, <1>2

\* A floating point register.
LEMMA GrowsFloatReg ==
    ASSUME NEW m, NEW g, Even(m, g), NEW p
    PROVE  /\ Grows(m, FloatReg(m, p), 0, g)
           /\ FloatReg(m, p).i = m.i /\ FloatReg(m, p).size = m.size
<1> DEFINE y == Put(m, "F", 8 * m.f, p)
           x == [y EXCEPT !.f = @ + 1]
<1>1. Fitting("F", 8 * m.f, p, g) /\ FloatReg(m, p) = x
  BY DEF Fitting, FloatReg
<1>2. y.i = m.i /\ y.size = m.size /\ DOMAIN y = Fields
  BY <1>1, PutKeeps DEF Even
<1>3. Grows(m, x, 0, g)
  BY GrowsNext
<1> HIDE DEF y
<1>4. x.i = m.i /\ x.size = m.size
  BY <1>2 DEF Fields
<1> QED
  BY <1>1, <1>3, <1>4

\* An operation that uses up no more of the vector.
LEMMA GrowsThen ==
    ASSUME NEW m, NEW g, Even(m, g), NEW x, Grows(m, x, 0, g), NEW y, Grows(x, y, 0, g)
    PROVE  Grows(m, y, 0, g)
<1>1. Grows(m, y, 0 + 0, g)
  BY GrowsTwice
<1> QED
  BY <1>1

\* What was used up leaves the vector aligned.
LEMMA GrowsEvens ==
    ASSUME NEW m, NEW x, NEW k, NEW g, Grows(m, x, k, g)
    PROVE  Even(x, g)
  BY DEF Grows

\* Darwin.
LEMMA DarwinGrows ==
    ASSUME NEW m, NEW g, Even(m, g), g = 0, NEW t \in Words, NEW n
    PROVE  Grows(m, gVT_ppc32_darwin_arg(m, t, n), 72, g)
<1>1. \A p, s : Fitting("V", s, p, g) /\ OnGrain(4, g) /\ OnGrain(8, g)
  BY DEF Fitting, OnGrain
<1>2. ASSUME NEW x, NEW k \in Nat, k <= 64, Grows(m, x, k, g), NEW p, NEW size \in {4, 8}
      PROVE  Grows(m, dcVecAppend(x, p, size), 72, g)
  BY <1>1, <1>2, GrowsVal
<1>3. ASSUME NEW x, Even(x, g), NEW p
      PROVE  Grows(x, dc_callvm_argInt_ppc32_darwin(x, p), 4, g)
  <2> DEFINE y == IntReg(x, 4, p)
             k == 4
  <2>1. Grows(x, y, 0, g) /\ k \in Nat /\ OnGrain(k, g) /\ 0 + k = k
    BY <1>1, <1>3, GrowsIntReg
  <2>2. Even(y, g)
    BY <2>1 DEF Grows
  <2>3. dc_callvm_argInt_ppc32_darwin(x, p) = dcVecAppend(y, p, k)
    BY DEF dc_callvm_argInt_ppc32_darwin
  <2> HIDE DEF y, k
  <2>4. Grows(y, dcVecAppend(y, p, k), k, g)
    BY <1>1, <2>1, <2>2, GrowsAppend
  <2>5. Grows(x, dcVecAppend(y, p, k), 0 + k, g)
    BY <1>3, <2>1, <2>4, GrowsTwice
  <2> QED
    BY <2>1, <2>3, <2>5 DEF k
<1>4. CASE t = "int"
  BY <1>3, <1>4, GrowsMore DEF gVT_ppc32_darwin_arg
<1>5. CASE t = "longlong"
  <2> DEFINE y == dc_callvm_argInt_ppc32_darwin(m, Part(n, "i8", 0, 4))
             z == dc_callvm_argInt_ppc32_darwin(y, Part(n, "i8", 4, 4))
  <2>1. Grows(m, y, 4, g)
    BY <1>3
  <2> HIDE DEF y
  <2>2. Even(y, g)
    BY <2>1 DEF Grows
  <2>3. Grows(y, z, 4, g)
    BY <1>3, <2>2
  <2>4. gVT_ppc32_darwin_arg(m, t, n) = z
    BY <1>5 DEF gVT_ppc32_darwin_arg, dc_callvm_argLongLong_ppc32_darwin, y
  <2> HIDE DEF z
  <2>5. Grows(m, z, 4 + 4, g)
    BY <2>1, <2>3, GrowsTwice
  <2> QED
    BY <2>4, <2>5, GrowsMore
<1>6. CASE t = "double"
  <2> DEFINE p == Val(n, "f8")
             a == FloatReg(m, p)
             b == IntReg(a, 4, Part(n, "f8", 0, 4))
             c == IntReg(b, 4, Part(n, "f8", 4, 4))
             x == IF m.f < 13 THEN c ELSE m
  <2>0. gVT_ppc32_darwin_arg(m, t, n) = dcVecAppend(x, p, 8)
    BY <1>6 DEF gVT_ppc32_darwin_arg, dc_callvm_argDouble_ppc32_darwin
  <2>1. Grows(m, a, 0, g) /\ Even(a, g)
    BY GrowsFloatReg, GrowsEvens
  <2> HIDE DEF a
  <2>2. Grows(a, b, 0, g) /\ Even(b, g)
    BY <2>1, GrowsIntReg, GrowsEvens
  <2> HIDE DEF b
  <2>3. Grows(b, c, 0, g)
    BY <2>2, GrowsIntReg
  <2> HIDE DEF c
  <2>4. Grows(m, c, 0, g)
    BY <2>1, <2>2, <2>3, GrowsThen
  <2>5. Grows(m, x, 0, g)
    BY <2>4, GrowsNot
  <2> HIDE DEF x
  <2> QED
    BY <1>2, <2>0, <2>5
<1>7. CASE t = "float"
  <2> DEFINE p == Val(n, "f4")
             a == IF m.f < 13 THEN FloatReg(m, Val(n, "w8")) ELSE m
             x == IntReg(a, 4, p)
  <2>0. gVT_ppc32_darwin_arg(m, t, n) = dcVecAppend(x, p, 4)
    BY <1>7 DEF gVT_ppc32_darwin_arg, dc_callvm_argFloat_ppc32_darwin
  <2>1. Grows(m, a, 0, g)
    BY GrowsFloatReg, GrowsNot
  <2> HIDE DEF a
  <2>2. Grows(a, x, 0, g)
    BY <2>1, GrowsIntReg, GrowsEvens
  <2> HIDE DEF x
  <2>3. Grows(m, x, 0, g)
    BY <2>1, <2>2, GrowsThen
  <2> QED
    BY <1>2, <2>0, <2>3
<1> QED
  BY <1>4, <1>5, <1>6, <1>7 DEF Words

---------------------------------------------------------------------------
\* x86.
LEMMA X86Grows ==
    ASSUME NEW m, NEW g, Even(m, g), g = 0, NEW t \in Words, NEW n
    PROVE  Grows(m, dcArg_x86(m, t, n), 72, g)
<1>1. \A p, s, file : Fitting(file, s, p, g)
  BY DEF Fitting
<1>2. ASSUME NEW x, Grows(m, x, 0, g), NEW u \in Words
      PROVE  Grows(m, dc_callvm_arg_x86(x, u, n), 72, g)
  <2> DEFINE p == Val(n, FormOf[u])
  <2>1. p.len \in {1, 2, 4, 8} /\ OnGrain(p.len, g)
    BY ValLen, FormLen DEF Words, OnGrain
  <2> HIDE DEF p
  <2> QED
    BY <1>1, <1>2, <2>1, GrowsVal DEF dc_callvm_arg_x86, p
<1>3. Grows(m, m, 0, g)
  BY GrowsNot
<1>4. Grows(m, dc_callvm_argInt_x86_win32_fast_ms(m, n), 72, g)
  <2>1. CASE m.i < 2
    <3> DEFINE y == Put(m, "V", 4 * m.i, Val(n, "i4"))
               c == m.i + 1
    <3>1. y.i = m.i /\ c \in Nat
      BY <1>1, PutKeeps DEF Even
    <3> HIDE DEF c
    <3>2. Grows(m, [y EXCEPT !.i = c], 0, g)
      BY <1>1, <3>1, GrowsReg
    <3> HIDE DEF y
    <3>3. [y EXCEPT !.i = @ + 1] = [y EXCEPT !.i = c]
      BY <3>1 DEF c
    <3> QED
      BY <2>1, <3>2, <3>3, GrowsAtMost DEF dc_callvm_argInt_x86_win32_fast_ms, y
  <2>2. CASE ~(m.i < 2)
    BY <1>2, <1>3, <2>2 DEF dc_callvm_argInt_x86_win32_fast_ms, Words
  <2> QED
    BY <2>1, <2>2
<1>5. Grows(m, dc_callvm_argLongLong_x86_win32_fast_gnu(m, n), 72, g)
  <2> DEFINE c == 2
             x == [m EXCEPT !.i = c]
  <2>1. c \in Nat
    OBVIOUS
  <2>2. dc_callvm_argLongLong_x86_win32_fast_gnu(m, n) = dc_callvm_arg_x86(x, "longlong", n)
    BY DEF dc_callvm_argLongLong_x86_win32_fast_gnu
  <2> HIDE DEF c
  <2>3. Grows(m, x, 0, g)
    BY <2>1, GrowsCount
  <2> HIDE DEF x
  <2> QED
    BY <1>2, <2>2, <2>3 DEF Words
<1>6. Grows(m, dc_callvm_arg_x86(m, t, n), 72, g)
  BY <1>2, <1>3
<1> QED
  BY <1>4, <1>5, <1>6 DEF dcArg_x86

---------------------------------------------------------------------------
\* 64 bit PowerPC.

\* 64 bit PowerPC.
LEMMA GrowsPush ==
    ASSUME NEW m, NEW g, Even(m, g), g = 8, NEW y, Grows(m, y, 0, g), NEW k \in Nat, k <= 64, OnGrain(k, g),
           NEW p
    PROVE  Grows(m, dcVecAppend(dcVecSkip(y, k), p, 8), 72, g)
<1> DEFINE z == dcVecSkip(y, k)
<1>1. Even(y, g) /\ 0 + k = k
  BY GrowsEvens
<1>2. Grows(y, z, k, g)
  BY <1>1, GrowsSkip
<1> HIDE DEF z
<1>3. Grows(m, z, 0 + k, g)
  BY <1>2, GrowsTwice
<1>4. Fitting("V", z.size, p, g) /\ OnGrain(8, g)
  BY <1>2 DEF Fitting, OnGrain, Grows, Even
<1>5. Grows(m, dcVecAppend(z, p, 8), 72, g)
  BY <1>1, <1>3, <1>4, GrowsVal
<1> QED
  BY <1>5 DEF z

\* In front of it.
LEMMA GrowsPushed ==
    ASSUME NEW m, NEW g, Even(m, g), g = 8, NEW y, Grows(m, y, 0, g), NEW p
    PROVE  Grows(m, dcVecAppend(y, p, 8), 72, g) /\ dcVecAppend(y, p, 8).i = y.i
<1>1. Fitting("V", y.size, p, g) /\ OnGrain(8, g) /\ Even(y, g)
  BY DEF Fitting, OnGrain, Grows, Even
<1>2. Grows(m, dcVecAppend(y, p, 8), 72, g)
  BY <1>1, GrowsVal
<1> QED
  BY <1>1, <1>2, AppendKeeps

\* The fields of an extent.
ExtentFields == {"file", "off", "len", "arg", "form", "from"}

\* What is new in the memory of x belongs to argument n, in pieces of l bytes on
\* the stack.
Adds(m, x, n, l) ==
    \A e \in x.mem :
        e \in m.mem \/ (DOMAIN e = ExtentFields /\ e.arg = n /\ (e.file = "V" => e.len = l))

\* A store adds its own extent.
LEMMA AddsPut ==
    ASSUME NEW m, NEW g, Even(m, g), NEW file, NEW off, NEW p, NEW n, NEW l,
           p.arg = n, file = "V" => p.len = l
    PROVE  Adds(m, Put(m, file, off, p), n, l)
<1> DEFINE e == [file |-> file, off |-> off, len |-> p.len,
                 arg |-> p.arg, form |-> p.form, from |-> p.from]
           mem == {h \in m.mem : ~Overlap(h, e)} \cup {e}
<1>1. "mem" \in DOMAIN m
  BY DEF Even, Fields
<1>2. Put(m, file, off, p) = [m EXCEPT !.mem = mem]
  BY DEF Put
<1>3. \A h \in mem :
        h \in m.mem \/ (DOMAIN h = ExtentFields /\ h.arg = n /\ (h.file = "V" => h.len = l))
  BY DEF ExtentFields
<1> HIDE DEF mem
<1>4. Put(m, file, off, p).mem = mem
  BY <1>1, <1>2
<1> QED
  BY <1>3, <1>4 DEF Adds

\* The same store seen from another VM with the same memory.
LEMMA AddsTwice ==
    ASSUME NEW m, NEW x, NEW y, NEW n, NEW l, Adds(m, x, n, l), Adds(x, y, n, l)
    PROVE  Adds(m, y, n, l)
  BY DEF Adds

\* The same memory.
LEMMA AddsSame ==
    ASSUME NEW m, NEW x, NEW n, NEW l, x.mem = m.mem
    PROVE  Adds(m, x, n, l)
  BY DEF Adds

\* A general register.
LEMMA AddsIntReg ==
    ASSUME NEW m, NEW g, Even(m, g), NEW p, NEW n, NEW l, p.arg = n
    PROVE  Adds(m, IntReg(m, 8, p), n, l)
<1> DEFINE y == Put(m, "I", 8 * m.i, p)
<1>1. Adds(m, y, n, l) /\ Adds(m, m, n, l)
  BY AddsPut, AddsSame
<1>2. IntReg(m, 8, p) \in {m, [y EXCEPT !.i = @ + 1]}
  BY DEF IntReg
<1> HIDE DEF y
<1>3. Adds(m, [y EXCEPT !.i = @ + 1], n, l)
  BY <1>1 DEF Adds
<1> QED
  BY <1>1, <1>2, <1>3

\* A floating point register.
LEMMA AddsFloatReg ==
    ASSUME NEW m, NEW g, Even(m, g), NEW p, NEW n, NEW l, p.arg = n
    PROVE  Adds(m, FloatReg(m, p), n, l)
<1> DEFINE y == Put(m, "F", 8 * m.f, p)
<1>1. Adds(m, y, n, l)
  BY AddsPut
<1>2. FloatReg(m, p) = [y EXCEPT !.f = @ + 1]
  BY DEF FloatReg
<1> HIDE DEF y
<1> QED
  BY <1>1, <1>2 DEF Adds

\* The stack.
LEMMA AddsAppend ==
    ASSUME NEW m, NEW g, Even(m, g), NEW p, NEW n, NEW l, p.arg = n, p.len = l, NEW size
    PROVE  Adds(m, dcVecAppend(m, p, size), n, l)
<1> DEFINE y == Put(m, "V", m.size, p)
<1>1. Adds(m, y, n, l) /\ Adds(m, m, n, l)
  BY AddsPut, AddsSame
<1>2. dcVecAppend(m, p, size) \in {m, [y EXCEPT !.size = @ + size]}
  BY DEF dcVecAppend
<1> HIDE DEF y
<1>3. Adds(m, [y EXCEPT !.size = @ + size], n, l)
  BY <1>1 DEF Adds
<1> QED
  BY <1>1, <1>2, <1>3

\* A gap on the stack.
LEMMA AddsSkip ==
    ASSUME NEW m, NEW n, NEW l, NEW k
    PROVE  Adds(m, dcVecSkip(m, k), n, l)
  BY DEF dcVecSkip, Adds

\* A register of the memory, and the stack behind the area of the registers.
LEMMA P64Pushes ==
    ASSUME NEW m, NEW g, Even(m, g), g = 8, NEW y, Grows(m, y, 0, g), NEW p, NEW n, NEW l,
           Adds(m, y, n, l), p.arg = n, p.len = l
    PROVE  Grows(m, Push(y, p), 72, g) /\ Adds(m, Push(y, p), n, l)
<1> DEFINE k == 64
           z == dcVecSkip(y, k)
<1>1. k \in Nat /\ k <= 64 /\ OnGrain(k, g) /\ Even(y, g)
  BY GrowsEvens DEF OnGrain
<1> HIDE DEF k
<1>2. Grows(m, dcVecAppend(z, p, 8), 72, g) /\ Even(z, g)
  BY <1>1, GrowsPush, GrowsSkip, GrowsEvens
<1>3. Adds(y, z, n, l) /\ Adds(z, dcVecAppend(z, p, 8), n, l) /\ Adds(y, dcVecAppend(y, p, 8), n, l)
  BY <1>1, <1>2, AddsSkip, AddsAppend
<1>4. Grows(m, dcVecAppend(y, p, 8), 72, g)
  BY GrowsPushed
<1>5. Push(y, p) \in {dcVecAppend(y, p, 8), dcVecAppend(z, p, 8)}
  BY DEF Push, k
<1> HIDE DEF z
<1> QED
  BY <1>2, <1>3, <1>4, <1>5, AddsTwice

\* VM y is m with argument n in registers.
Loads(m, y, n, l, g) == Grows(m, y, 0, g) /\ y.i <= 8 /\ Adds(m, y, n, l)

\* The registers of one argument.
LEMMA LoadsRegs ==
    ASSUME NEW m, NEW g, Even(m, g), g = 8, m.i <= 8, NEW n, NEW l, NEW p, p.arg = n
    PROVE  /\ Loads(m, m, n, l, g) /\ Loads(m, IntReg(m, 8, p), n, l, g)
           /\ Loads(m, IntReg(FloatReg(m, p), 8, p), n, l, g)
<1> DEFINE y == FloatReg(m, p)
           z == IntReg(y, 8, p)
<1>1. Loads(m, m, n, l, g)
  BY GrowsNot, AddsSame DEF Loads
<1>2. Loads(m, IntReg(m, 8, p), n, l, g)
  BY GrowsIntReg, AddsIntReg DEF Loads
<1>3. Grows(m, y, 0, g) /\ Even(y, g) /\ y.i <= 8 /\ Adds(m, y, n, l)
  BY GrowsFloatReg, GrowsEvens, AddsFloatReg
<1> HIDE DEF y
<1>4. Grows(y, z, 0, g) /\ z.i <= 8 /\ Adds(y, z, n, l)
  BY <1>3, GrowsIntReg, AddsIntReg
<1> HIDE DEF z
<1>5. Grows(m, z, 0, g) /\ Adds(m, z, n, l)
  BY <1>3, <1>4, GrowsThen, AddsTwice
<1> QED
  BY <1>1, <1>2, <1>4, <1>5 DEF Loads, y, z

\* VM x is m with argument n bound.
Binds64(m, x, n, l, g) == Grows(m, x, 72, g) /\ x.i <= 8 /\ Adds(m, x, n, l)

\* The registers, and the stack as well.
LEMMA BindsPush ==
    ASSUME NEW m, NEW g, Even(m, g), g = 8, NEW n, NEW l, NEW y, Loads(m, y, n, l, g),
           NEW p, p.arg = n, p.len = l
    PROVE  /\ Binds64(m, y, n, l, g) /\ Binds64(m, Push(y, p), n, l, g)
           /\ \A k \in Nat : k <= 8 => Binds64(m, PushVariadic(y, k, p), n, l, g)
<1>1. Grows(m, y, 0, g) /\ y.i <= 8 /\ Adds(m, y, n, l) /\ Even(y, g)
  BY GrowsEvens DEF Loads
<1>2. Binds64(m, y, n, l, g)
  BY <1>1, GrowsAtMost DEF Binds64
<1>3. ASSUME NEW k \in Nat, Even(dcVecSkip(y, k), g) PROVE dcVecAppend(dcVecSkip(y, k), p, 8).i = y.i
  <2> DEFINE z == dcVecSkip(y, k)
  <2>1. z.i = y.i
    BY DEF dcVecSkip
  <2>2. Fitting("V", z.size, p, g)
    BY <1>3 DEF Even, OnGrain, Fitting
  <2> HIDE DEF z
  <2>3. Even(z, g)
    BY <1>3 DEF z
  <2>4. dcVecAppend(z, p, 8).i = z.i
    BY <2>2, <2>3, AppendKeeps
  <2> QED
    BY <2>1, <2>4 DEF z
<1>4. Grows(m, dcVecAppend(y, p, 8), 72, g) /\ dcVecAppend(y, p, 8).i = y.i
  BY <1>1, GrowsPushed
<1>5. Binds64(m, Push(y, p), n, l, g)
  <2> DEFINE k == 64
             z == dcVecSkip(y, k)
  <2>1. k \in Nat /\ OnGrain(k, g)
    BY DEF OnGrain
  <2>2. Push(y, p) \in {dcVecAppend(y, p, 8), dcVecAppend(z, p, 8)}
    BY DEF Push
  <2> HIDE DEF k
  <2>3. Even(z, g)
    BY <1>1, <2>1, GrowsSkip, GrowsEvens
  <2>4. dcVecAppend(z, p, 8).i = y.i
    BY <1>3, <2>1, <2>3
  <2>5. Push(y, p).i = y.i
    BY <1>4, <2>2, <2>4
  <2> HIDE DEF z
  <2> QED
    BY <1>1, <2>5, P64Pushes DEF Binds64
<1>6. ASSUME NEW k \in Nat, k <= 8 PROVE Binds64(m, PushVariadic(y, k, p), n, l, g)
  <2> DEFINE j == 8 * k
             z == dcVecSkip(y, j)
  <2>1. j \in Nat /\ j <= 64 /\ OnGrain(j, g)
    BY <1>6 DEF OnGrain
  <2>2. PushVariadic(y, k, p) \in {dcVecAppend(y, p, 8), dcVecAppend(z, p, 8)}
    BY DEF PushVariadic
  <2> HIDE DEF j
  <2>3. Even(z, g) /\ Grows(m, dcVecAppend(z, p, 8), 72, g)
    BY <1>1, <2>1, GrowsSkip, GrowsEvens, GrowsPush
  <2>4. dcVecAppend(z, p, 8).i = y.i
    BY <1>3, <2>1, <2>3
  <2>5. Adds(y, z, n, l) /\ Adds(z, dcVecAppend(z, p, 8), n, l) /\ Adds(y, dcVecAppend(y, p, 8), n, l)
    BY <1>1, <2>3, AddsSkip, AddsAppend
  <2> HIDE DEF z
  <2>6. Adds(m, dcVecAppend(z, p, 8), n, l) /\ Adds(m, dcVecAppend(y, p, 8), n, l)
    BY <1>1, <2>5, AddsTwice
  <2> QED
    BY <1>1, <1>4, <2>2, <2>3, <2>4, <2>6 DEF Binds64
<1> QED
  BY <1>2, <1>5, <1>6

\* A value belongs to its argument.
LEMMA ValArg ==
    ASSUME NEW n, NEW form
    PROVE  Val(n, form).arg = n
  BY DEF Val, Part

\* The arguments of 64 bit PowerPC but a float of version 1.
LEMMA P64Pair ==
    ASSUME NEW m, NEW g, Even(m, g), g = 8, m.i <= 8, NEW n, NEW l, NEW reg, NEW p,
           reg.arg = n, p.arg = n, p.len = l
    PROVE  Binds64(m, dc_callvm_argDouble_ppc64(m, reg, p), n, l, g)
<1> DEFINE at == IF m.f < 13 THEN IntReg(FloatReg(m, reg), 8, reg) ELSE m
<1>1. Loads(m, at, n, l, g)
  BY LoadsRegs
<1>2. dc_callvm_argDouble_ppc64(m, reg, p) \in {at, Push(at, p)}
  BY DEF dc_callvm_argDouble_ppc64
<1> HIDE DEF at
<1>3. Binds64(m, at, n, l, g) /\ Binds64(m, Push(at, p), n, l, g)
  BY <1>1, BindsPush
<1> QED
  BY <1>2, <1>3

\* The float that version 1 justifies moves no other argument.
LEMMA P64Moved ==
    ASSUME NEW m, NEW g, Even(m, g), g = 8, m.i <= 8, NEW n, \A e \in m.mem : e.arg # n
    PROVE  LET x == dc_callvm_argFloat_ppc64(m, n)
           IN  Grows(m, x, 72, g) /\ x.i <= 8 /\ \A e \in x.mem : e \in m.mem \/ e.arg = n
<1> DEFINE l == 4
           y == dc_callvm_argDouble_ppc64(m, Val(n, "w8"), Val(n, "f4"))
           moved == [e \in y.mem |->
                       IF e.file = "V" /\ e.arg = n /\ ~ElfV2(m.vt)
                       THEN [e EXCEPT !.off = @ + 4] ELSE e]
           mem == {moved[e] : e \in y.mem}
           x == [y EXCEPT !.mem = mem]
<1>1. Binds64(m, y, n, l, g)
  <2>1. Val(n, "w8").arg = n /\ Val(n, "f4").arg = n /\ Val(n, "f4").len = l
    BY ValArg, ValLen
  <2> HIDE DEF l
  <2> QED
    BY <2>1, P64Pair
<1>2. dc_callvm_argFloat_ppc64(m, n) = x
  BY DEF dc_callvm_argFloat_ppc64
<1> HIDE DEF y
<1>3. ASSUME NEW h \in mem
      PROVE  h \in m.mem \/ (h.arg = n /\ (h.file = "V" => h.len = l))
  <2>1. PICK e \in y.mem : h = moved[e]
    BY <1>3
  <2>2. e \in m.mem \/ (DOMAIN e = ExtentFields /\ e.arg = n /\ (e.file = "V" => e.len = l))
    BY <1>1, <2>1 DEF Binds64, Adds
  <2>3. h = e \/ h = [e EXCEPT !.off = @ + 4]
    BY <2>1
  <2>4. e.arg # n => h = e
    BY <2>1
  <2> HIDE DEF moved
  <2> QED
    BY <2>2, <2>3, <2>4 DEF ExtentFields
<1> HIDE DEF mem
<1>4. Wide(mem)
  <2>1. Wide(m.mem)
    BY DEF Even
  <2> QED
    BY <1>3, <2>1 DEF Wide
<1>5. Grows(m, y, 72, g) /\ y.i <= 8 /\ Even(y, g)
  BY <1>1, GrowsEvens DEF Binds64
<1>6. /\ DOMAIN x = Fields /\ x.mem = mem /\ x.vt = y.vt /\ x.hid = y.hid
      /\ x.size = y.size /\ x.copies = y.copies /\ x.i = y.i /\ x.f = y.f /\ x.d = y.d
  BY <1>5 DEF Even, Fields
<1> HIDE DEF x
<1>7. Grows(m, x, 72, g)
  BY <1>4, <1>5, <1>6 DEF Grows, Even
<1> QED
  BY <1>2, <1>3, <1>5, <1>6, <1>7

\* 64 bit PowerPC.
LEMMA P64Grows ==
    ASSUME NEW m, NEW g, Even(m, g), g = 8, m.i <= 8, NEW t \in Words, NEW n, \A e \in m.mem : e.arg # n
    PROVE  \A x \in {gVT_ppc64_arg(m, t, n), gVT_ppc64_ellipsis_arg(m, t, n)} :
               Grows(m, x, 72, g) /\ x.i <= 8 /\ \A e \in x.mem : e \in m.mem \/ e.arg = n
<1> DEFINE Good(x) == Grows(m, x, 72, g) /\ x.i <= 8 /\ \A e \in x.mem : e \in m.mem \/ e.arg = n
           l == 8
           i8 == Val(n, "i8")
           f8 == Val(n, "f8")
           w8 == Val(n, "w8")
<1>1. /\ \A p \in {i8, f8, w8} : p.arg = n /\ p.len = l
  BY ValArg, ValLen
<1>2. ASSUME NEW x, Binds64(m, x, n, l, g) PROVE Good(x)
  BY <1>2 DEF Binds64, Adds
<1> HIDE DEF l, i8, f8, w8, Good
<1>3. Binds64(m, dc_callvm_argLongLong_ppc64(m, i8), n, l, g)
  <2>1. Loads(m, IntReg(m, 8, i8), n, l, g)
    BY <1>1, LoadsRegs
  <2>2. Binds64(m, IntReg(m, 8, i8), n, l, g) /\ Binds64(m, Push(IntReg(m, 8, i8), i8), n, l, g)
    BY <1>1, <2>1, BindsPush
  <2> QED
    BY <2>2 DEF dc_callvm_argLongLong_ppc64
<1>4. Binds64(m, dc_callvm_argDouble_ppc64(m, f8, f8), n, l, g)
  BY <1>1, P64Pair
<1>5. Good(dc_callvm_argFloat_ppc64(m, n))
  BY P64Moved DEF Good
<1>6. Binds64(m, dc_callvm_argLongLong_ppc64_ellipsis(m, i8), n, l, g)
  <2>1. Loads(m, IntReg(m, 8, i8), n, l, g) /\ m.i \in Nat
    BY <1>1, LoadsRegs DEF Even
  <2>2. Binds64(m, PushVariadic(IntReg(m, 8, i8), m.i, i8), n, l, g)
    BY <1>1, <2>1, BindsPush
  <2> QED
    BY <2>2 DEF dc_callvm_argLongLong_ppc64_ellipsis
<1>7. ASSUME NEW p \in {f8, w8} PROVE Binds64(m, dc_callvm_argDouble_ppc64_ellipsis(m, p), n, l, g)
  <2> DEFINE at == IF m.f < 13 THEN IntReg(FloatReg(m, p), 8, p) ELSE m
  <2>1. Loads(m, at, n, l, g) /\ m.i \in Nat
    BY <1>1, <1>7, LoadsRegs DEF Even
  <2>2. dc_callvm_argDouble_ppc64_ellipsis(m, p) = PushVariadic(at, m.i, p)
    BY DEF dc_callvm_argDouble_ppc64_ellipsis
  <2> HIDE DEF at
  <2>3. Binds64(m, PushVariadic(at, m.i, p), n, l, g)
    BY <1>1, <1>7, <2>1, BindsPush
  <2> QED
    BY <2>2, <2>3
<1>8. Good(gVT_ppc64_arg(m, t, n))
  BY <1>2, <1>3, <1>4, <1>5 DEF gVT_ppc64_arg, i8, f8, Words
<1>9. Good(gVT_ppc64_ellipsis_arg(m, t, n))
  <2>1. Good(dc_callvm_argDouble_ppc64_ellipsis(m, f8)) /\ Good(dc_callvm_argDouble_ppc64_ellipsis(m, w8))
        /\ Good(dc_callvm_argLongLong_ppc64_ellipsis(m, i8))
    BY <1>2, <1>6, <1>7
  <2> QED
    BY <2>1 DEF gVT_ppc64_ellipsis_arg, i8, f8, w8, Words
<1> QED
  BY <1>8, <1>9 DEF Good

---------------------------------------------------------------------------
\* x64.

\* x64.
LEMMA GrowsCounted ==
    ASSUME NEW m, NEW g, Even(m, g), NEW c \in Nat, NEW y,
           y = [m EXCEPT !.i = c] \/ y = [m EXCEPT !.f = c],
           NEW p, Fitting("V", m.size, p, g), NEW k \in Nat, OnGrain(k, g)
    PROVE  Grows(m, dcVecAppend(y, p, k), k, g)
<1>1. Grows(m, y, 0, g) /\ y.size = m.size
  <2>1. Grows(m, [m EXCEPT !.i = c], 0, g) /\ Grows(m, [m EXCEPT !.f = c], 0, g)
    BY GrowsCount
  <2> QED
    BY <2>1 DEF Even, Fields
<1>2. Even(y, g) /\ 0 + k = k
  BY <1>1, GrowsEvens
<1>3. Grows(y, dcVecAppend(y, p, k), k, g)
  BY <1>1, <1>2, GrowsAppend
<1>4. Grows(m, dcVecAppend(y, p, k), 0 + k, g)
  BY <1>1, <1>3, GrowsTwice
<1> QED
  BY <1>2, <1>4

\* dc_callvm_argLongLong_x64.
LEMMA GrowsLongLong ==
    ASSUME NEW m, NEW g, Even(m, g), g = 8, NEW p
    PROVE  Grows(m, dc_callvm_argLongLong_x64(m, p), 8, g)
<1> DEFINE i == PastHidden(m, m.i)
           c == i + 1
           k == 8
<1>1. i \in Nat /\ c \in Nat /\ k \in Nat /\ OnGrain(k, g) /\ Fitting("V", m.size, p, g)
      /\ Fitting("I", 8 * i, p, g)
  BY DEF PastHidden, Even, OnGrain, Fitting
<1>2. dc_callvm_argLongLong_x64(m, p) =
        IF i < numIntRegs(m.vt) THEN [Put(m, "I", 8 * i, p) EXCEPT !.i = c]
        ELSE dcVecAppend([m EXCEPT !.i = i], p, k)
  BY DEF dc_callvm_argLongLong_x64
<1> HIDE DEF i, c, k
<1>3. Grows(m, [Put(m, "I", 8 * i, p) EXCEPT !.i = c], 0, g)
  BY <1>1, GrowsReg
<1>4. Grows(m, [Put(m, "I", 8 * i, p) EXCEPT !.i = c], k, g)
  BY <1>1, <1>3, GrowsMore
<1>5. Grows(m, dcVecAppend([m EXCEPT !.i = i], p, k), k, g)
  BY <1>1, GrowsCounted
<1> QED
  BY <1>2, <1>4, <1>5 DEF k

\* dc_callvm_argDouble_x64.
LEMMA GrowsDouble ==
    ASSUME NEW m, NEW g, Even(m, g), g = 8, NEW p
    PROVE  Grows(m, dc_callvm_argDouble_x64(m, p), 8, g)
<1> DEFINE f == IF Win(m.vt) THEN PastHidden(m, m.i) ELSE m.f
           c == f + 1
           k == 8
           file == FloatFile(m.vt)
           y == Put(m, file, 8 * f, p)
<1>1. f \in Nat /\ c \in Nat /\ k \in Nat /\ OnGrain(k, g) /\ Fitting("V", m.size, p, g)
      /\ Fitting(file, 8 * f, p, g)
  BY DEF PastHidden, Even, OnGrain, Fitting, FloatFile
<1>2. dc_callvm_argDouble_x64(m, p) =
        IF f < numFloatRegs(m.vt) THEN CountFloat(y, c) ELSE dcVecAppend(CountFloat(m, f), p, k)
  BY DEF dc_callvm_argDouble_x64
<1> HIDE DEF f, c, k, file
<1>3. /\ Grows(m, [y EXCEPT !.i = c], 0, g) /\ Grows(m, [y EXCEPT !.f = c], 0, g)
  BY <1>1, GrowsReg
<1> HIDE DEF y
<1>4. Grows(m, CountFloat(y, c), k, g)
  BY <1>1, <1>3, GrowsMore DEF CountFloat
<1>5. Grows(m, dcVecAppend(CountFloat(m, f), p, k), k, g)
  BY <1>1, GrowsCounted DEF CountFloat
<1> QED
  BY <1>2, <1>4, <1>5 DEF k

\* An eightbyte of a struct.
LEMMA GrowsClass ==
    ASSUME NEW m, NEW g, Even(m, g), g = 8, NEW n, NEW t, NEW j
    PROVE  Grows(m, ArgClass(m, n, t, j), 8, g)
  BY GrowsLongLong, GrowsDouble DEF ArgClass

\* The structs: none is longer than 24 bytes.
LEMMA AggrSize ==
    /\ DOMAIN Aggr = {"s8", "s12", "s16", "s24"}
    /\ \A t \in DOMAIN Aggr : \A n : Val(n, t).len = Aggr[t].size
    /\ Aggr["s8"].size = 8 /\ Aggr["s12"].size = 12 /\ Aggr["s16"].size = 16 /\ Aggr["s24"].size = 24
  BY DEF Aggr, Val, Part, Bytes

\* A copy of a struct at the far end of the vector.
LEMMA GrowsCopy ==
    ASSUME NEW m, NEW g, Even(m, g), g = 8, NEW s \in {12, 16, 24}, NEW p, p.len = s
    PROVE  LET copy == ((m.copies - s) \div 16) * 16
           IN  Grows(m, Put([m EXCEPT !.copies = copy], "V", copy, p), 39, g)
<1> DEFINE copy == ((m.copies - s) \div 16) * 16
           y == [m EXCEPT !.copies = copy]
           k == 39
<1>1. copy \in Int /\ copy <= m.copies /\ m.copies <= copy + k /\ k \in Nat
  BY DEF Even
<1> HIDE DEF copy, k
<1>2. Grows(m, y, k, g)
  BY <1>1 DEF Grows, Even, Fields
<1> HIDE DEF y
<1>3. Even(y, g) /\ Fitting("V", copy, p, g)
  BY <1>2, GrowsEvens DEF Fitting
<1>4. Grows(y, Put(y, "V", copy, p), 0, g)
  BY <1>3, GrowsPut
<1>5. Grows(m, Put(y, "V", copy, p), k + 0, g) /\ k + 0 = k
  BY <1>1, <1>2, <1>4, GrowsTwice
<1>6. Grows(m, Put(y, "V", copy, p), k, g)
  BY <1>5
<1> QED
  BY <1>6 DEF copy, y, k

\* dc_callvm_argAggr_x64.
LEMMA AggrGrows ==
    ASSUME NEW m, NEW g, Even(m, g), g = 8, m.size + 72 <= VecTotal, NEW t \in {"cxx"} \cup DOMAIN Aggr, NEW n
    PROVE  Grows(m, dc_callvm_argAggr_x64(m, t, n), 72, g)
<1> DEFINE whole == Val(n, t)
           one == ArgClass(m, n, t, 1)
           two == ArgClass(one, n, t, 2)
           copy == ((m.copies - Aggr[t].size) \div 16) * 16
           kept == Put([m EXCEPT !.copies = copy], "V", copy, whole)
           x == dc_callvm_argAggr_x64(m, t, n)
<1>1. ASSUME NEW y, NEW k \in {8, 16, 24, 47}, Grows(m, y, k, g) PROVE Grows(m, y, 72, g)
  <2>1. k \in Nat /\ k <= 72 /\ 72 \in Nat
    OBVIOUS
  <2> QED
    BY <1>1, <2>1, GrowsMore
<1>2. CASE t = "cxx"
  BY <1>1, <1>2, GrowsLongLong DEF dc_callvm_argAggr_x64
<1>3. CASE t # "cxx"
  <2>1. t \in {"s8", "s12", "s16", "s24"} /\ whole.len = Aggr[t].size
        /\ whole.len \in {8, 12, 16, 24} /\ (whole.len = 8 <=> t = "s8")
    BY <1>3, AggrSize
  <2>2. Grows(m, two, 16, g) /\ Grows(m, one, 8, g)
    <3>1. Grows(m, one, 8, g)
      BY GrowsClass
    <3> HIDE DEF one
    <3>2. Grows(one, two, 8, g)
      BY <3>1, GrowsEvens, GrowsClass
    <3> HIDE DEF two
    <3>3. Grows(m, two, 8 + 8, g)
      BY <3>1, <3>2, GrowsTwice
    <3> QED
      BY <3>1, <3>3
  <2>3. ASSUME NEW k \in {8, 12, 16, 24}, k = whole.len
        PROVE  Grows(m, dcVecSkip(dcVecAppend(m, whole, k), (8 - (k % 8)) % 8), 72, g)
    <3> DEFINE pad == (8 - (k % 8)) % 8
               sum == k + pad
    <3>1. k \in Nat /\ pad \in Nat /\ sum \in {8, 16, 24} /\ OnGrain(sum, g) /\ sum = k + pad
      BY DEF OnGrain
    <3>2. m.size + k <= VecTotal /\ Fitting("V", m.size, whole, g)
      BY VecAssumption DEF Even, OnGrain, Fitting
    <3> HIDE DEF pad, sum, whole
    <3>3. Grows(m, dcVecSkip(dcVecAppend(m, whole, k), pad), k + pad, g)
      BY <3>1, <3>2, GrowsPadded
    <3>4. Grows(m, dcVecSkip(dcVecAppend(m, whole, k), pad), 72, g)
      BY <1>1, <3>1, <3>3
    <3> QED
      BY <3>4 DEF pad, whole
  <2>4. CASE Win(m.vt) /\ t # "s8"
    <3>1. Grows(m, kept, 39, g)
      BY <2>1, <2>4, GrowsCopy
    <3>2. x = dc_callvm_argLongLong_x64(kept, Val(n, "i8"))
      BY <1>3, <2>1, <2>4 DEF dc_callvm_argAggr_x64
    <3> HIDE DEF kept, x
    <3>3. Grows(kept, x, 8, g)
      BY <3>1, <3>2, GrowsEvens, GrowsLongLong
    <3>4. Grows(m, x, 39 + 8, g)
      BY <3>1, <3>3, GrowsTwice
    <3>5. Grows(m, x, 72, g)
      BY <1>1, <3>4
    <3> QED
      BY <3>5 DEF x
  <2>5. CASE Win(m.vt) /\ t = "s8"
    <3>1. x = dc_callvm_argLongLong_x64(m, whole)
      BY <1>3, <2>1, <2>5 DEF dc_callvm_argAggr_x64
    <3>2. Grows(m, x, 8, g)
      BY <3>1, GrowsLongLong
    <3> QED
      BY <1>1, <3>2
  <2>6. CASE ~Win(m.vt) /\ OnStack(m, t)
    <3>1. x = dcVecSkip(dcVecAppend(m, whole, whole.len), (8 - (whole.len % 8)) % 8)
      BY <1>3, <2>6 DEF dc_callvm_argAggr_x64
    <3> HIDE DEF whole, x
    <3>2. Grows(m, x, 72, g)
      BY <2>1, <2>3, <3>1
    <3> QED
      BY <3>2 DEF x
  <2>7. CASE ~Win(m.vt) /\ ~OnStack(m, t)
    <3>1. x \in {one, two}
      BY <1>3, <2>7 DEF dc_callvm_argAggr_x64
    <3>2. Grows(m, one, 72, g) /\ Grows(m, two, 72, g)
      BY <1>1, <2>2
    <3> HIDE DEF one, two, x
    <3>3. Grows(m, x, 72, g)
      BY <3>1, <3>2
    <3> QED
      BY <3>3 DEF x
  <2> QED
    BY <2>4, <2>5, <2>6, <2>7
<1> QED
  BY <1>2, <1>3

\* All arguments of x64.
LEMMA X64Grows ==
    ASSUME NEW m, NEW g, Even(m, g), g = 8, m.size + 72 <= VecTotal, NEW t \in TypesOf("x64"), NEW n
    PROVE  Grows(m, gVT_x64_arg(m, t, n), 72, g)
<1>1. t \in Words \cup {"cxx"} \cup DOMAIN Aggr /\ Words \cap ({"cxx"} \cup DOMAIN Aggr) = {}
  BY AggrSize DEF TypesOf, Words
<1>2. ASSUME NEW x, Grows(m, x, 8, g) PROVE Grows(m, x, 72, g)
  BY <1>2, GrowsMore
<1>3. CASE t \in {"int", "longlong"}
  BY <1>2, <1>3, GrowsLongLong DEF gVT_x64_arg
<1>4. CASE t \in {"float", "double"}
  BY <1>2, <1>4, GrowsDouble DEF gVT_x64_arg
<1>5. CASE t \notin Words
  BY <1>1, <1>5, AggrGrows DEF gVT_x64_arg, Words
<1> QED
  BY <1>3, <1>4, <1>5 DEF Words

---------------------------------------------------------------------------
\* The modes of each target.

\* A mode selects a vtable of the target, or none; which one is no matter of the VM.
Selects(mode, v) ==
    /\ v \in Vtables(build) \cup {"unsupported"} /\ (mode = "default" => v \in Vtables(build))
    /\ \A m : dcMode(m, mode) = dc_callvm_base_init(m, v)

\* dcMode is a choice of the vtable on every target.
LEMMA ModeSelects ==
    ASSUME build \in Targets, NEW mode
    PROVE  \E v : Selects(mode, v)
<1>1. CASE build = "x86"
  <2> DEFINE v == CASE mode \in {"default", "this", "ellipsis", "varargs", "cdecl"} -> "cdecl"
                    [] mode \in {"std", "fast_ms", "fast_gnu", "this_ms", "int80h_bsd"} -> mode
                    [] mode \in {"sys", "int80h_linux"} -> "int80h_linux"
                    [] OTHER -> "unsupported"
  <2>1. \A m : dcMode(m, mode) = dc_callvm_base_init(m, v)
    BY <1>1 DEF dcMode, dc_callvm_mode_x86
  <2>2. v \in Vtables(build) \cup {"unsupported"} /\ (mode = "default" => v \in Vtables(build))
    BY <1>1 DEF Vtables
  <2> QED
    BY <2>1, <2>2 DEF Selects
<1>2. CASE build = "x64"
  <2> DEFINE v == CASE mode \in {"default", "ellipsis", "varargs", "this", "sysv"} -> "sysv"
                    [] mode = "sys" -> "syscall_sysv"
                    [] OTHER -> "unsupported"
  <2>1. \A m : dcMode(m, mode) = dc_callvm_base_init(m, v)
    BY <1>2 DEF dcMode, dc_callvm_mode_x64
  <2>2. v \in Vtables(build) \cup {"unsupported"} /\ (mode = "default" => v \in Vtables(build))
    BY <1>2 DEF Vtables
  <2> QED
    BY <2>1, <2>2 DEF Selects
<1>3. CASE build = "win64"
  <2> DEFINE v == CASE mode \in {"default", "ellipsis", "varargs", "win64"} -> "win64"
                    [] mode = "this" -> "win64_this"
                    [] OTHER -> "unsupported"
  <2>1. \A m : dcMode(m, mode) = dc_callvm_base_init(m, v)
    BY <1>3 DEF dcMode, dc_callvm_mode_x64
  <2>2. v \in Vtables(build) \cup {"unsupported"} /\ (mode = "default" => v \in Vtables(build))
    BY <1>3 DEF Vtables
  <2> QED
    BY <2>1, <2>2 DEF Selects
<1>4. CASE build \in {"arm", "arm_eabi"}
  <2> DEFINE v == CASE mode \in {"ellipsis", "varargs", "default", "this"} -> build
                    [] mode = "arm_arm" -> "arm"
                    [] mode = "arm_arm_eabi" -> "arm_eabi"
                    [] OTHER -> "unsupported"
  <2>1. \A m : dcMode(m, mode) = dc_callvm_base_init(m, v)
    BY <1>4 DEF dcMode, dc_callvm_mode_arm32_arm
  <2>2. v \in Vtables(build) \cup {"unsupported"} /\ (mode = "default" => v \in Vtables(build))
    BY <1>4 DEF Vtables
  <2> QED
    BY <2>1, <2>2 DEF Selects
<1>5. CASE build \in {"thumb", "thumb_eabi"}
  <2> DEFINE v == CASE mode \in {"ellipsis", "varargs", "default", "this"} ->
                          IF build = "thumb" THEN "arm" ELSE "arm_eabi"
                    [] mode = "arm_thumb" -> "arm"
                    [] mode = "arm_thumb_eabi" -> "arm_eabi"
                    [] OTHER -> "unsupported"
  <2>1. \A m : dcMode(m, mode) = dc_callvm_base_init(m, v)
    BY <1>5 DEF dcMode, dc_callvm_mode_arm32_thumb
  <2>2. v \in Vtables(build) \cup {"unsupported"} /\ (mode = "default" => v \in Vtables(build))
    BY <1>5 DEF Vtables
  <2> QED
    BY <2>1, <2>2 DEF Selects
<1>6. CASE build = "armhf"
  <2> DEFINE v == CASE mode \in {"default", "this", "armhf"} -> "armhf"
                    [] mode \in {"ellipsis", "varargs"} -> "armhf_ellipsis"
                    [] OTHER -> "unsupported"
  <2>1. \A m : dcMode(m, mode) = dc_callvm_base_init(m, v)
    BY <1>6 DEF dcMode, armhf_mode
  <2>2. v \in Vtables(build) \cup {"unsupported"} /\ (mode = "default" => v \in Vtables(build))
    BY <1>6 DEF Vtables
  <2> QED
    BY <2>1, <2>2 DEF Selects
<1>7. CASE build \in {"arm64", "arm64_win"}
  <2> DEFINE v == CASE mode \in {"ellipsis", "varargs"} ->
                          IF build = "arm64_win" THEN "arm64_win_varargs" ELSE "arm64"
                    [] mode \in {"default", "this", "arm64"} -> "arm64"
                    [] OTHER -> "unsupported"
  <2>1. \A m : dcMode(m, mode) = dc_callvm_base_init(m, v)
    BY <1>7 DEF dcMode, arm64_mode
  <2>2. v \in Vtables(build) \cup {"unsupported"} /\ (mode = "default" => v \in Vtables(build))
    BY <1>7 DEF Vtables
  <2> QED
    BY <2>1, <2>2 DEF Selects
<1>8. CASE build = "apple"
  <2> DEFINE v == CASE mode \in {"default", "this", "arm64", "ellipsis"} -> "apple"
                    [] mode = "varargs" -> "apple_variadic"
                    [] OTHER -> "unsupported"
  <2>1. \A m : dcMode(m, mode) = dc_callvm_base_init(m, v)
    BY <1>8 DEF dcMode, apple_mode
  <2>2. v \in Vtables(build) \cup {"unsupported"} /\ (mode = "default" => v \in Vtables(build))
    BY <1>8 DEF Vtables
  <2> QED
    BY <2>1, <2>2 DEF Selects
<1>9. CASE build \in {"mips_eabi", "mips_o32", "mips_n32", "mips_n64"}
  <2> DEFINE varargs == IF build = "mips_n32" THEN "mips_n32_ellipsis"
                        ELSE IF build = "mips_n64" THEN "mips_n64_ellipsis" ELSE build
  <2>1. \A m : dcMode(m, mode) = MipsMode(m, mode, build, varargs)
    BY <1>9 DEF dcMode, dc_callvm_mode_mips_eabi, dc_callvm_mode_mips_o32, dc_callvm_mode_mips_n32,
                dc_callvm_mode_mips_n64
  <2>2. {build, varargs} \subseteq Vtables(build)
    BY <1>9 DEF Vtables
  <2> HIDE DEF varargs
  <2>3. \E v \in {build, varargs, "unsupported"} : /\ mode = "default" => v = build
            /\ \A m : MipsMode(m, mode, build, varargs) = dc_callvm_base_init(m, v)
    BY DEF MipsMode
  <2> QED
    BY <2>1, <2>2, <2>3 DEF Selects
<1>10. CASE build \in {"ppc32_darwin", "ppc32_sysv"}
  <2> DEFINE v == CASE mode \in {"default", "this", "ellipsis", "varargs"} ->
                          IF build = "ppc32_darwin" THEN "darwin" ELSE "sysv"
                    [] mode \in {"darwin", "sysv"} -> mode
                    [] mode = "sys" -> "ppc32_syscall"
                    [] OTHER -> "unsupported"
  <2>1. \A m : dcMode(m, mode) = dc_callvm_base_init(m, v)
    BY <1>10 DEF dcMode, dc_callvm_mode_ppc32
  <2>2. v \in Vtables(build) \cup {"unsupported"} /\ (mode = "default" => v \in Vtables(build))
    BY <1>10 DEF Vtables
  <2> QED
    BY <2>1, <2>2 DEF Selects
<1>11. CASE build \in {"ppc64_v1", "ppc64_v2"}
  <2> DEFINE v == CASE mode \in {"default", "this", "ppc64", "ellipsis"} -> build
                    [] mode = "varargs" -> IF build = "ppc64_v2" THEN "ppc64_v2_ellipsis" ELSE build
                    [] mode = "sys" -> IF build = "ppc64_v2" THEN "ppc64_v2_syscall" ELSE "ppc64_syscall"
                    [] OTHER -> "unsupported"
  <2>1. \A m : dcMode(m, mode) = dc_callvm_base_init(m, v)
    BY <1>11 DEF dcMode, dc_callvm_mode_ppc64
  <2>2. v \in Vtables(build) \cup {"unsupported"} /\ (mode = "default" => v \in Vtables(build))
    BY <1>11 DEF Vtables
  <2> QED
    BY <2>1, <2>2 DEF Selects
<1>12. CASE build = "sparc"
  <2> DEFINE v == IF mode \in {"default", "this", "sparc32", "ellipsis", "varargs"}
                  THEN "sparc" ELSE "unsupported"
  <2>1. \A m : dcMode(m, mode) = dc_callvm_base_init(m, v)
    BY <1>12 DEF dcMode, dc_callvm_mode_sparc
  <2>2. v \in Vtables(build) \cup {"unsupported"} /\ (mode = "default" => v \in Vtables(build))
    BY <1>12 DEF Vtables
  <2> QED
    BY <2>1, <2>2 DEF Selects
<1>13. CASE build = "v9"
  <2> DEFINE v == CASE mode \in {"default", "this", "sparc64", "ellipsis"} -> "v9"
                    [] mode = "varargs" -> "v9_ellipsis"
                    [] OTHER -> "unsupported"
  <2>1. \A m : dcMode(m, mode) = dc_callvm_base_init(m, v)
    BY <1>13 DEF dcMode, dc_callvm_mode_v9
  <2>2. v \in Vtables(build) \cup {"unsupported"} /\ (mode = "default" => v \in Vtables(build))
    BY <1>13 DEF Vtables
  <2> QED
    BY <2>1, <2>2 DEF Selects
<1> QED
  BY <1>1, <1>2, <1>3, <1>4, <1>5, <1>6, <1>7, <1>8, <1>9, <1>10, <1>11, <1>12, <1>13 DEF Targets

\* VM x is m under another vtable.
Remoded(m, x) ==
    /\ DOMAIN x = Fields /\ x.i = m.i /\ x.f = m.f /\ x.d = m.d
    /\ x.hid = m.hid /\ x.copies = m.copies /\ x.size = m.size /\ x.mem = m.mem

\* The vtable is all that dcMode changes.
LEMMA SelectsVt ==
    ASSUME NEW m, DOMAIN m = Fields, NEW mode, NEW v, Selects(mode, v)
    PROVE  Remoded(m, dcMode(m, mode)) /\ dcMode(m, mode).vt = IF v = "unsupported" THEN m.vt ELSE v
<1>1. dcMode(m, mode) = dc_callvm_base_init(m, v)
  BY DEF Selects
<1> QED
  BY <1>1 DEF dc_callvm_base_init, Remoded, Fields

\* dcMode and handle_mode leave the arguments alone.
LEMMA ModeKeeps ==
    ASSUME build \in Targets, NEW m, DOMAIN m = Fields, NEW mode
    PROVE  /\ Remoded(m, dcMode(m, mode))
           /\ m.vt \in Vtables(build) \/ mode = "default" => dcMode(m, mode).vt \in Vtables(build)
<1>1. PICK v : Selects(mode, v)
  BY ModeSelects
<1>2. /\ Remoded(m, dcMode(m, mode)) /\ dcMode(m, mode).vt = IF v = "unsupported" THEN m.vt ELSE v
  BY <1>1, SelectsVt
<1>3. v \in Vtables(build) \cup {"unsupported"} /\ (mode = "default" => v \in Vtables(build))
  BY <1>1 DEF Selects
<1>4. "unsupported" \notin Vtables(build)
  BY DEF Vtables, Targets
<1> QED
  BY <1>2, <1>3, <1>4

\* The same for the modes of a signature.
LEMMA HandleKeeps ==
    ASSUME build \in Targets, NEW m, DOMAIN m = Fields, m.vt \in Vtables(build), NEW mode, NEW last
    PROVE  Remoded(m, handle_mode(m, mode, last)) /\ handle_mode(m, mode, last).vt \in Vtables(build)
<1>1. handle_mode(m, mode, last) \in {m, select_mode(m, mode)}
  BY Zenon DEF handle_mode
<1>2. Remoded(m, m)
  BY DEF Remoded
<1>3. Remoded(m, select_mode(m, mode)) /\ select_mode(m, mode).vt \in Vtables(build)
  <2>1. CASE mode \in SigModes
    BY <2>1, ModeKeeps DEF select_mode
  <2>2. CASE mode \notin SigModes
    BY <1>2, <2>2 DEF select_mode
  <2> QED
    BY <2>1, <2>2
<1> QED
  BY <1>1, <1>2, <1>3

\* A mode leaves the other parts of a call VM what they are.
LEMMA ModeInVM ==
    ASSUME build \in Targets, NEW m \in VM, NEW mode, NEW last
    PROVE  dcMode(m, mode) \in VM /\ handle_mode(m, mode, last) \in VM
<1>1. PICK v : Selects(mode, v)
  BY ModeSelects
<1>2. dcMode(m, mode) = dc_callvm_base_init(m, v) /\ v \in Vtables(build) \cup {"unsupported"}
  BY <1>1 DEF Selects
<1>3. Vtables(build) \subseteq AnyVtable
  BY DEF AnyVtable
<1>4. dc_callvm_base_init(m, v) \in VM
  BY <1>2, <1>3 DEF dc_callvm_base_init, VM
<1> QED
  BY <1>2, <1>4 DEF handle_mode, select_mode

\* The parts of a call VM.
LEMMA VMFields == ASSUME NEW m \in VM PROVE DOMAIN m = Fields
  BY DEF VM, Fields

\* One mode after another.
LEMMA RemodedTwice ==
    ASSUME NEW m, NEW x, NEW y, Remoded(m, x), Remoded(x, y)
    PROVE  Remoded(m, y)
  BY DEF Remoded

\* 64 bit PowerPC.
Plain64 == {"ppc64_v1", "ppc64_v2"}

\* What a client's VM has of every reset.
Cleared(m, x) ==
    /\ DOMAIN x = Fields /\ x.vt = m.vt /\ x.mem = {} /\ x.size \in {0, 8, 16}
    /\ x.i \in Nat /\ x.f \in Nat /\ x.d \in Nat /\ x.copies \in Int
    /\ build \in {"x64", "win64"} => x.hid = NoReg
    /\ build \in Plain64 => x.i = 0

\* dcReset on every target.
LEMMA ResetClears ==
    ASSUME build \in Targets, NEW m, DOMAIN m = Fields, m.vt \in Vtables(build),
           m.i \in Nat, m.f \in Nat, m.d \in Nat, m.copies \in Int
    PROVE  Cleared(m, dcReset(m))
<1>0. VecTotal \in Int
  BY VecAssumption
<1>1. CASE build = "x86"
  BY <1>1 DEF dcReset, dcReset_x86, dc_callvm_reset_x86_win32_fast, dc_callvm_reset_x86, dcVecResize,
              Cleared, Fields, Plain64
<1>2. CASE build \in {"x64", "win64"}
  BY <1>0, <1>2 DEF dcReset, dc_callvm_reset_x64, dcVecResize, Cleared, Fields, Plain64
<1>3. CASE build \in {"arm", "arm_eabi", "thumb", "thumb_eabi"}
  BY <1>3 DEF dcReset, dc_callvm_reset_arm32_arm, dcVecResize, Cleared, Fields, Plain64
<1>4. CASE build = "armhf"
  BY <1>4 DEF dcReset, armhf_reset, dcVecResize, Cleared, Fields, Plain64
<1>5. CASE build \in {"arm64", "arm64_win", "apple"}
  BY <1>5 DEF dcReset, arm64_reset, dcVecResize, Cleared, Fields, Plain64
<1>6. CASE build \in {"mips_eabi", "mips_o32", "mips_n32", "mips_n64"}
  BY <1>6 DEF dcReset, dc_callvm_reset_mips_eabi, dc_callvm_reset_mips_o32, dc_callvm_reset_mips_n64,
              dcVecResize, Cleared, Fields, Plain64
<1>7. CASE build \in {"ppc32_darwin", "ppc32_sysv"}
  BY <1>7 DEF dcReset, dc_callvm_reset_ppc32, dcVecResize, Cleared, Fields, Plain64
<1>8. CASE build \in {"ppc64_v1", "ppc64_v2"}
  BY <1>8 DEF dcReset, dc_callvm_reset_ppc64, dcVecResize, Cleared, Fields, Plain64
<1>9. CASE build \in {"sparc", "v9"}
  BY <1>9 DEF dcReset, dc_callvm_reset_sparc, dc_callvm_reset_v9, dcVecResize, Cleared, Fields, Plain64
<1> QED
  BY <1>1, <1>2, <1>3, <1>4, <1>5, <1>6, <1>7, <1>8, <1>9 DEF Targets

---------------------------------------------------------------------------
\* The dcArg functions of all targets together.

\* The words of a target's stack, whatever its modes; and under a vtable.
Grain(b) ==
    CASE b \in FourAligned \cup {"arm_eabi", "thumb_eabi", "ppc32_sysv"} -> 0
      [] b \in {"armhf", "mips_eabi", "mips_o32"} -> 4
      [] b = "apple" -> 1
      [] OTHER -> 8
GrainOf(b, vt) ==
    CASE b \in {"arm_eabi", "thumb_eabi"} /\ vt = "arm_eabi" -> 4
      [] b = "ppc32_sysv" /\ vt # "darwin" -> 1
      [] OTHER -> Grain(b)

\* The arguments of 64 bit PowerPC in registers, and in the memory.
Numbered(m, n) == build \in Plain64 => m.i <= 8 /\ \A e \in m.mem : e.arg \in 0..n

\* Binding an argument, on every target.
LEMMA ArgGrows ==
    ASSUME build \in Targets, NEW m, m.vt \in Vtables(build),
           NEW g, g \in {Grain(build), GrainOf(build, m.vt)}, Even(m, g), m.size + 72 <= VecTotal,
           NEW t \in TypesOf(build), NEW n \in Nat, Numbered(m, n)
    PROVE  Grows(m, dcArg(m, t, n + 1), 72, g) /\ Numbered(dcArg(m, t, n + 1), n + 1)
<1> DEFINE k == n + 1
           x == dcArg(m, t, k)
<1> USE DEF FourAligned
<1>0. build \notin Plain64 => Numbered(x, k)
  BY DEF Numbered
<1>1. build \notin {"x64", "win64", "apple"} => t \in Words
  BY DEF TypesOf, Words
<1>2. CASE build = "x86"
  <2>1. g = 0 /\ t \in Words
    BY <1>1, <1>2 DEF Grain, GrainOf
  <2>2. x = dcArg_x86(m, t, k)
    BY <1>2 DEF dcArg, Vtables
  <2> HIDE DEF k, x
  <2>3. Grows(m, x, 72, g)
    BY <2>1, <2>2, X86Grows
  <2> QED
    BY <1>0, <1>2, <2>3 DEF k, x, Plain64
<1>3. CASE build \in {"x64", "win64"}
  <2>1. g = 8 /\ t \in TypesOf("x64")
    BY <1>3 DEF Grain, GrainOf, TypesOf
  <2>2. x = gVT_x64_arg(m, t, k)
    BY <1>3 DEF dcArg, Vtables
  <2> HIDE DEF k, x
  <2>3. Grows(m, x, 72, g)
    BY <2>1, <2>2, X64Grows
  <2> QED
    BY <1>0, <1>3, <2>3 DEF k, x, Plain64
<1>4. CASE build \in {"arm", "arm_eabi", "thumb", "thumb_eabi"}
  <2>1. g \in {0, 4} /\ (g = 4 => m.vt = "arm_eabi") /\ t \in Words
    BY <1>1, <1>4 DEF Grain, GrainOf
  <2>2. x = gVT_arm32_arm_arg(m, t, k)
    BY <1>4 DEF dcArg, Vtables, gVT_arm32_thumb_arg
  <2> HIDE DEF k, x
  <2>3. Grows(m, x, 72, g)
    BY <2>1, <2>2, ArmGrows
  <2> QED
    BY <1>0, <1>4, <2>3 DEF k, x, Plain64
<1>5. CASE build = "armhf"
  <2>1. g = 4 /\ t \in Words
    BY <1>1, <1>5 DEF Grain, GrainOf
  <2>2. x = vt_armhf_arg(m, t, k)
    BY <1>5 DEF dcArg, Vtables
  <2> HIDE DEF k, x
  <2>3. Grows(m, x, 72, g)
    BY <2>1, <2>2, HfGrows
  <2> QED
    BY <1>0, <1>5, <2>3 DEF k, x, Plain64
<1>6. CASE build \in {"arm64", "arm64_win"}
  <2>1. g = 8 /\ t \in Words
    BY <1>1, <1>6 DEF Grain, GrainOf
  <2>2. x \in {vt_arm64_arg(m, t, k), vt_arm64_win_varargs_arg(m, t, k)}
    BY <1>6 DEF dcArg, Vtables
  <2> HIDE DEF k, x
  <2>3. Grows(m, x, 72, g)
    BY <2>1, <2>2, Arm64Grows
  <2> QED
    BY <1>0, <1>6, <2>3 DEF k, x, Plain64
<1>7. CASE build = "apple"
  <2>1. g = 1 /\ t \in DOMAIN FormOf
    BY <1>7 DEF Grain, GrainOf, TypesOf
  <2>2. x = vt_apple_arg(m, t, k)
    BY <1>7 DEF dcArg, Vtables
  <2> HIDE DEF k, x
  <2>3. Grows(m, x, 72, g)
    BY <2>1, <2>2, AppleGrows
  <2> QED
    BY <1>0, <1>7, <2>3 DEF k, x, Plain64
<1>8. CASE build \in {"mips_eabi", "mips_o32"}
  <2>1. g = 4 /\ t \in Words
    BY <1>1, <1>8 DEF Grain, GrainOf
  <2>2. x \in {gVT_mips_eabi_arg(m, t, k), gVT_mips_o32_arg(m, t, k)}
    BY <1>8 DEF dcArg, Vtables
  <2> HIDE DEF k, x
  <2>3. Grows(m, x, 72, g)
    BY <2>1, <2>2, EabiGrows, O32Grows
  <2> QED
    BY <1>0, <1>8, <2>3 DEF k, x, Plain64
<1>9. CASE build \in {"mips_n32", "mips_n64"}
  <2>1. g = 8 /\ t \in Words
    BY <1>1, <1>9 DEF Grain, GrainOf
  <2>2. x \in {gVT_mips_n64_arg(m, t, k), gVT_mips_n64_ellipsis_arg(m, t, k)}
    BY <1>9 DEF dcArg, Vtables, dc_callvm_arg_mips_n32, gVT_mips_n32_ellipsis_arg
  <2> HIDE DEF k, x
  <2>3. Grows(m, x, 72, g)
    BY <2>1, <2>2, N64Grows
  <2> QED
    BY <1>0, <1>9, <2>3 DEF k, x, Plain64
<1>10. CASE build \in {"ppc32_darwin", "ppc32_sysv"}
  <2>1. g \in {0, 1} /\ (m.vt = "darwin" => g = 0) /\ t \in Words
    BY <1>1, <1>10 DEF Grain, GrainOf
  <2>2. \/ m.vt = "darwin" /\ x = gVT_ppc32_darwin_arg(m, t, k)
        \/ x = gVT_ppc32_sysv_arg(m, t, k)
    BY <1>10 DEF dcArg, Vtables
  <2> HIDE DEF k, x
  <2>3. Grows(m, x, 72, g)
    BY <2>1, <2>2, DarwinGrows, Sysv32Grows
  <2> QED
    BY <1>0, <1>10, <2>3 DEF k, x, Plain64
<1>11. CASE build \in Plain64
  <2>1. g = 8 /\ t \in Words
    BY <1>1, <1>11 DEF Grain, GrainOf, Plain64
  <2>2. x \in {gVT_ppc64_arg(m, t, k), gVT_ppc64_ellipsis_arg(m, t, k)}
    BY <1>11 DEF dcArg, Vtables, Plain64
  <2>3. m.i <= 8 /\ (\A e \in m.mem : e.arg \in 0..n) /\ \A e \in m.mem : e.arg # k
    BY <1>11 DEF Numbered
  <2> HIDE DEF x
  <2>4. Grows(m, x, 72, g) /\ x.i <= 8 /\ \A e \in x.mem : e \in m.mem \/ e.arg = k
    <3> HIDE DEF k
    <3> QED
      BY <2>1, <2>2, <2>3, P64Grows
  <2>5. ASSUME NEW e \in x.mem PROVE e.arg \in 0..k
    BY <2>3, <2>4, <2>5
  <2> QED
    BY <2>4, <2>5 DEF k, x, Numbered
<1>12. CASE build = "sparc"
  <2>1. g = 0 /\ t \in Words
    BY <1>1, <1>12 DEF Grain, GrainOf
  <2>2. x = gVT_sparc_arg(m, t, k)
    BY <1>12 DEF dcArg, Vtables
  <2> HIDE DEF k, x
  <2>3. Grows(m, x, 72, g)
    BY <2>1, <2>2, SparcGrows
  <2> QED
    BY <1>0, <1>12, <2>3 DEF k, x, Plain64
<1>13. CASE build = "v9"
  <2>1. g = 8 /\ t \in Words
    BY <1>1, <1>13 DEF Grain, GrainOf
  <2>2. x \in {gVT_v9_arg(m, t, k), gVT_v9_ellipsis_arg(m, t, k)}
    BY <1>13 DEF dcArg, Vtables
  <2> HIDE DEF k, x
  <2>3. Grows(m, x, 72, g)
    BY <2>1, <2>2, V9Grows
  <2> QED
    BY <1>0, <1>13, <2>3 DEF k, x, Plain64
<1> QED
  BY <1>2, <1>3, <1>4, <1>5, <1>6, <1>7, <1>8, <1>9, <1>10, <1>11, <1>12, <1>13 DEF Targets, Plain64

---------------------------------------------------------------------------
\* The dcbArg functions: a cursor keeps to its convention.

\* The fields of a cursor.
CursorFields == {"vt", "i", "f", "d", "sp", "hid"}

\* Cursor q is r further on.
Onward(r, q) ==
    DOMAIN r = CursorFields => DOMAIN q = CursorFields /\ q.vt = r.vt /\ q.hid = r.hid

\* One access after another.
LEMMA OnwardTwice ==
    ASSUME NEW r, NEW q, NEW p, Onward(r, q), Onward(q, p)
    PROVE  Onward(r, p)
  BY DEF Onward

\* The changes that the dcbArg functions make to a cursor.
LEMMA OnwardAll ==
    ASSUME NEW r, NEW v, NEW w
    PROVE  /\ Onward(r, r) /\ Onward(r, [r EXCEPT !.i = v]) /\ Onward(r, [r EXCEPT !.f = v])
           /\ Onward(r, [r EXCEPT !.sp = v]) /\ Onward(r, [r EXCEPT !.i = v, !.sp = w])
           /\ Onward(r, [r EXCEPT !.f = v, !.sp = w]) /\ Onward(r, [r EXCEPT !.d = v, !.f = w])
  BY DEF Onward, CursorFields

\* The cursor of an access.
LEMMA AccessCursor ==
    ASSUME NEW r, NEW at, NEW form
    PROVE  Access(r, at, form).rd = r
  BY DEF Access

\* x86.
LEMMA OnwardX86 ==
    ASSUME NEW r, NEW t
    PROVE  Onward(r, dcbArg_x86(r, t).rd)
<1>1. \A u : Onward(r, default_arg(r, u).rd)
  BY DEF Access, Onward, CursorFields, default_arg
<1>2. Onward(r, this_i32(r).rd) /\ Onward(r, fast_i32(r).rd)
  BY <1>1 DEF Access, Onward, CursorFields, this_i32, fast_i32
<1>3. Onward(r, fast_gnu_i64(r).rd)
  BY DEF Access, fast_gnu_i64, default_arg, Onward, CursorFields
<1> QED
  BY <1>1, <1>2, <1>3 DEF dcbArg_x86

\* x64.
LEMMA OnwardX64 ==
    ASSUME NEW r, NEW t
    PROVE  Onward(r, dcbArg_x64(r, t).rd)
<1>1. ASSUME NEW q, NEW form, NEW len PROVE Onward(q, Stacked(q, form, len).rd)
  BY DEF Access, Onward, CursorFields, Stacked
<1>2. ASSUME NEW q, NEW form, NEW len PROVE Onward(q, arg_i64(q, form, len).rd)
  <2> DEFINE i == PastHidden(q, q.i)
             y == [q EXCEPT !.i = i]
  <2>1. Onward(q, y) /\ Onward(y, Stacked(y, form, len).rd) /\ Onward(q, [q EXCEPT !.i = i + 1])
    BY <1>1, OnwardAll
  <2>2. arg_i64(q, form, len).rd \in {[q EXCEPT !.i = i + 1], Stacked(y, form, len).rd}
    BY AccessCursor DEF arg_i64
  <2> HIDE DEF y
  <2> QED
    BY <2>1, <2>2, OnwardTwice
<1>3. ASSUME NEW q, NEW form, NEW len PROVE Onward(q, arg_f64(q, form, len).rd)
  <2> DEFINE f == IF Win(q.vt) THEN PastHidden(q, q.i) ELSE q.f
             y == CountFloat(q, f)
             z == CountFloat(q, f + 1)
  <2>1. Onward(q, y) /\ Onward(q, z)
    BY OnwardAll DEF CountFloat
  <2>2. arg_f64(q, form, len).rd \in {z, Stacked(y, form, len).rd}
    BY AccessCursor DEF arg_f64
  <2> HIDE DEF y, z
  <2>3. Onward(y, Stacked(y, form, len).rd)
    BY <1>1
  <2> QED
    BY <2>1, <2>2, <2>3, OnwardTwice
<1>4. ASSUME NEW q, NEW j PROVE Onward(q, TakeClass(q, t, j).rd)
  BY <1>2, <1>3 DEF TakeClass
<1>5. Onward(r, dcbArgAggr_x64(r, t).rd)
  <2> DEFINE one == TakeClass(r, t, 1)
             two == TakeClass(one.rd, t, 2)
             x == dcbArgAggr_x64(r, t).rd
             rest == [r EXCEPT !.sp = @ + 8 * ((Aggr[t].size + 7) \div 8)]
  <2>1. Onward(r, one.rd) /\ Onward(one.rd, two.rd)
    BY <1>4
  <2>2. Onward(r, two.rd)
    BY <2>1, OnwardTwice
  <2>0. Onward(r, rest)
    BY DEF Onward, CursorFields
  <2>3. \/ x = rest
        \/ x \in {one.rd, two.rd}
        \/ \E form : x = arg_i64(r, form, 8).rd
    <3> HIDE DEF one, two
    <3>1. CASE t = "cxx"
      BY <3>1 DEF dcbArgAggr_x64
    <3>2. CASE t # "cxx"
      <4>1. CASE ~Win(r.vt) /\ OnStack(r, t)
        BY <3>2, <4>1 DEF dcbArgAggr_x64, Access
      <4>2. CASE ~Win(r.vt) /\ ~OnStack(r, t)
        BY <3>2, <4>2, AccessCursor DEF dcbArgAggr_x64, one, two
      <4>3. CASE Win(r.vt)
        BY <3>2, <4>3 DEF dcbArgAggr_x64
      <4> QED
        BY <4>1, <4>2, <4>3
    <3> QED
      BY <3>1, <3>2
  <2> HIDE DEF one, two, x, rest
  <2>4. Onward(r, x)
    BY <1>2, <2>0, <2>1, <2>2, <2>3
  <2> QED
    BY <2>4 DEF x
<1> QED
  BY <1>2, <1>3, <1>5 DEF dcbArg_x64

\* ARM.
LEMMA OnwardArm32 ==
    ASSUME NEW r, NEW t \in Words
    PROVE  Onward(r, dcbArg_arm32(r, t).rd)
<1>1. ASSUME NEW q, NEW form PROVE Onward(q, arm_word(q, form).rd)
  BY DEF Access, Onward, CursorFields, arm_word
<1>2. ASSUME NEW q, NEW form PROVE Onward(q, TwoWords(q, form).rd)
  <2> DEFINE a == arm_align_64(q)
             one == arm_word(a, form)
             two == arm_word(one.rd, form)
  <2>1. Onward(q, a)
    BY OnwardAll DEF arm_align_64
  <2> HIDE DEF a
  <2>2. Onward(a, one.rd) /\ Onward(one.rd, two.rd)
    BY <1>1
  <2>3. TwoWords(q, form).rd = two.rd
    BY AccessCursor DEF TwoWords, a
  <2> HIDE DEF one, two
  <2> QED
    BY <2>1, <2>2, <2>3, OnwardTwice
<1>3. Onward(r, arm_float(r).rd)
  BY <1>1 DEF Access, Onward, CursorFields, arm_float
<1>4. Onward(r, arm_double(r).rd)
  <2> DEFINE d == IF r.d < r.f THEN RoundEven(r.f) ELSE r.d
             y == [r EXCEPT !.d = d, !.f = 16]
             z == [r EXCEPT !.d = d + 2, !.f = IF @ % 2 = 0 THEN d + 2 ELSE @]
  <2>1. Onward(r, y) /\ Onward(r, z)
    BY OnwardAll
  <2>2. arm_double(r).rd \in {z, TwoWords(y, "f8").rd}
    BY AccessCursor DEF arm_double
  <2> HIDE DEF y, z
  <2> QED
    BY <1>2, <2>1, <2>2, OnwardTwice
<1> QED
  BY <1>1, <1>2, <1>3, <1>4 DEF dcbArg_arm32, arm_longlong, Words

\* MIPS.
LEMMA OnwardMips ==
    ASSUME NEW r, NEW t \in Words
    PROVE  /\ Onward(r, dcbArg_mips_eabi(r, t).rd) /\ Onward(r, dcbArg_mips_o32(r, t).rd)
           /\ Onward(r, dcbArg_mips64(r, t).rd)
<1>1. ASSUME NEW q, NEW form PROVE Onward(q, mips_dcbArgInt(q, form).rd)
  BY DEF Access, Onward, CursorFields, mips_dcbArgInt
<1>2. ASSUME NEW form PROVE Onward(r, mips_dcbArgULongLong(r, form).rd)
  <2> DEFINE a == [r EXCEPT !.i = RoundEven(@), !.sp = IF (@ \div 4) % 2 = 1 THEN @ + 4 ELSE @]
             one == mips_dcbArgInt(a, form)
             two == mips_dcbArgInt(one.rd, form)
  <2>1. Onward(r, a)
    BY OnwardAll
  <2>2. mips_dcbArgULongLong(r, form).rd = two.rd
    BY AccessCursor DEF mips_dcbArgULongLong
  <2> HIDE DEF a
  <2>3. Onward(a, one.rd) /\ Onward(one.rd, two.rd)
    BY <1>1
  <2> HIDE DEF one, two
  <2> QED
    BY <2>1, <2>2, <2>3, OnwardTwice
<1>3. Onward(r, mips_dcbArgFloat(r).rd)
  BY DEF Access, Onward, CursorFields, mips_dcbArgFloat
<1>4. Onward(r, dcbArg_mips_eabi(r, t).rd)
  BY <1>1, <1>2, <1>3 DEF dcbArg_mips_eabi, Words
<1>5. Onward(r, dcbArg_mips_o32(r, t).rd)
  BY DEF Access, Onward, CursorFields, dcbArg_mips_o32, o32_dcbArgInt, o32_dcbArgULongLong, o32_dcbArgFloat,
     o32_dcbArgDouble, Words
<1>6. Onward(r, dcbArg_mips64(r, t).rd)
  BY DEF Access, Onward, CursorFields, dcbArg_mips64
<1> QED
  BY <1>4, <1>5, <1>6

\* PowerPC.
LEMMA OnwardPpc ==
    ASSUME NEW r, NEW t \in Words
    PROVE  /\ Onward(r, dcbArg_ppc32_darwin(r, t).rd) /\ Onward(r, dcbArg_ppc32_sysv(r, t).rd)
           /\ Onward(r, dcbArg_ppc64(r, t).rd)
<1>1. ASSUME NEW q, NEW form PROVE Onward(q, darwin_dcbArgInt(q, form).rd)
  BY DEF Access, Onward, CursorFields, darwin_dcbArgInt
<1>2. Onward(r, darwin_dcbArgULongLong(r).rd)
  <2> DEFINE one == darwin_dcbArgInt(r, "i8")
             two == darwin_dcbArgInt(one.rd, "i8")
  <2>1. darwin_dcbArgULongLong(r).rd = two.rd
    BY AccessCursor DEF darwin_dcbArgULongLong
  <2>2. Onward(r, one.rd) /\ Onward(one.rd, two.rd)
    BY <1>1
  <2> HIDE DEF one, two
  <2> QED
    BY <2>1, <2>2, OnwardTwice
<1>3. ASSUME NEW q, Onward(r, q) PROVE Onward(r, [q EXCEPT !.f = @ + 1])
  <2>1. Onward(q, [q EXCEPT !.f = @ + 1])
    BY OnwardAll
  <2> QED
    BY <1>3, <2>1, OnwardTwice
<1>4. Onward(r, darwin_dcbArgDouble(r).rd)
  <2> DEFINE q == [r EXCEPT !.i = IF @ < 7 THEN @ + 2 ELSE 8, !.sp = @ + 8]
  <2>1. Onward(r, q)
    BY OnwardAll
  <2>2. darwin_dcbArgDouble(r).rd \in {q, [q EXCEPT !.f = @ + 1]}
    BY AccessCursor DEF darwin_dcbArgDouble
  <2> HIDE DEF q
  <2> QED
    BY <1>3, <2>1, <2>2
<1>5. Onward(r, darwin_dcbArgFloat(r).rd)
  <2> DEFINE q == [r EXCEPT !.i = IF @ < 8 THEN @ + 1 ELSE @, !.sp = @ + 4]
  <2>1. Onward(r, q)
    BY OnwardAll
  <2>2. darwin_dcbArgFloat(r).rd \in {q, [q EXCEPT !.f = @ + 1]}
    BY AccessCursor DEF darwin_dcbArgFloat
  <2> HIDE DEF q
  <2> QED
    BY <1>3, <2>1, <2>2
<1>6. Onward(r, dcbArg_ppc32_darwin(r, t).rd)
  BY <1>1, <1>2, <1>4, <1>5 DEF dcbArg_ppc32_darwin, Words
<1>7. Onward(r, dcbArg_ppc32_sysv(r, t).rd)
  BY DEF Access, Onward, CursorFields, dcbArg_ppc32_sysv, sysv_dcbArgInt, sysv_dcbArgULongLong,
         sysv_dcbArgDouble,
     sysv_dcbArgFloat, Words
<1>8. Onward(r, dcbArg_ppc64(r, t).rd)
  <2>1. Onward(r, ppc64_dcbArgLongLong(r).rd)
    BY DEF Access, Onward, CursorFields, ppc64_dcbArgLongLong
  <2>2. ASSUME NEW reg, NEW at, NEW form PROVE Onward(r, ppc64_dcbArgDouble(r, reg, at, form).rd)
    BY DEF Access, ppc64_dcbArgDouble, Onward, CursorFields
  <2> QED
    BY <2>1, <2>2 DEF dcbArg_ppc64, Words
<1> QED
  BY <1>6, <1>7, <1>8

\* A dcbArg function keeps to the convention of its callback, on every target.
LEMMA ArgOnward ==
    ASSUME build \in Targets, NEW r, NEW t \in TypesOf(build)
    PROVE  Onward(r, dcbArg(r, t).rd)
<1>1. build \notin {"x64", "win64", "apple"} => t \in Words
  BY DEF TypesOf, Words
<1>2. CASE build = "x86"
  BY <1>2, OnwardX86 DEF dcbArg
<1>3. CASE build \in {"x64", "win64"}
  BY <1>3, OnwardX64 DEF dcbArg
<1>4. CASE build \in {"arm", "arm_eabi", "thumb", "thumb_eabi", "armhf"}
  BY <1>1, <1>4, OnwardArm32 DEF dcbArg
<1>5. CASE build \in {"arm64", "arm64_win"}
  BY <1>5 DEF Access, Onward, CursorFields, dcbArg, dcbArg_arm64
<1>6. CASE build = "apple"
  BY <1>6 DEF Access, Onward, CursorFields, dcbArg, dcbArg_apple
<1>7. CASE build \in {"mips_eabi", "mips_o32", "mips_n32", "mips_n64"}
  BY <1>1, <1>7, OnwardMips DEF dcbArg
<1>8. CASE build \in {"ppc32_darwin", "ppc32_sysv", "ppc64_v1", "ppc64_v2"}
  BY <1>1, <1>8, OnwardPpc DEF dcbArg
<1>9. CASE build \in {"sparc", "v9"}
  BY <1>9 DEF Access, Onward, CursorFields, dcbArg, dcbArg_sparc32, dcbArg_sparc64
<1> QED
  BY <1>2, <1>3, <1>4, <1>5, <1>6, <1>7, <1>8, <1>9 DEF Targets

---------------------------------------------------------------------------
\* The course of a call, and the channel.

\* The course of a call: its signature is one of the client's and is kept to the
\* return, what was bound is no more than the signature has, and the callee has
\* taken as many arguments as its loop made rounds.
Course ==
    /\ build \in Builds
    /\ phase \in {"idle", "ready", "bind", "run"}
    /\ IF phase \in {"bind", "run"} THEN call \in Calls[build] ELSE call = NoCall
    /\ pos \in 0..Len(call.sig)
    /\ sent \in Seq(TypesOf(build))
    /\ got \in Seq(Nat)
    /\ phase = "bind" => Len(sent) <= pos
    /\ phase = "run" => Len(got) = pos /\ pos <= Len(sent) /\ Len(sent) <= Len(call.sig)
    /\ phase # "run" => got = <<>>
    /\ phase \in {"idle", "ready"} => pos = 0 /\ sent = <<>>

\* What the assumption on the client's calls says of the current one.
LEMMA CourseCalls ==
    ASSUME Course
    PROVE  /\ build \in Targets
           /\ call.sig \in Seq(SigModes \cup TypesOf(build))
           /\ call.ret \in {"void"} \cup ReturnsOf(build)
           /\ call.ret # "void" => ~call.open
<1>1. build \in Builds /\ build \in Targets
  BY CallsAssumption DEF Course
<1>2. CASE call \in Calls[build]
  BY <1>1, <1>2, CallsAssumption
<1>3. CASE call = NoCall
  BY <1>1, <1>3 DEF NoCall
<1> QED
  BY <1>2, <1>3 DEF Course

\* A sequence over a larger set.
LEMMA SeqWider ==
    ASSUME NEW S, NEW T, S \subseteq T, NEW s \in Seq(S)
    PROVE  s \in Seq(T)
<1>1. Len(s) \in Nat /\ s = [n \in 1..Len(s) |-> s[n]] /\ \A n \in 1..Len(s) : s[n] \in S
  OBVIOUS
<1> QED
  BY <1>1

\* What was bound has the types of the channel.
LEMMA SentTypes == Course => sent \in Seq(ArgTypes)
<1> SUFFICES ASSUME Course PROVE sent \in Seq(ArgTypes)
  OBVIOUS
<1>1. TypesOf(build) \subseteq ArgTypes
  BY FormLen DEF TypesOf, ArgTypes
<1> QED
  BY <1>1, SeqWider DEF Course

\* A new call VM.
LEMMA CourseInit == Init => Course
  BY DEF Init, Course, NoCall

\* What the loops of a call leave alone.
LEMMA CourseIdle ==
    ASSUME Course, NEW mode \in Modes[build], SetMode(mode) \/ Reset
    PROVE  Course'
  BY DEF Course, SetMode, Reset

\* An access yields the number of an argument or 0.
LEMMA LoadedNumber ==
    ASSUME NEW mem, NEW a, NEW n \in Nat
    PROVE  Loaded(mem, a, n) \in Nat
<1> DEFINE from(k) == IF k = 1 THEN 0 ELSE a.at[1].len
           ok == {m \in 1..n : \A k \in DOMAIN a.at : Holds(mem, a.at[k], m, a.form, from(k))}
<1>1. Loaded(mem, a, n) = IF ok = {} THEN 0 ELSE CHOOSE m \in ok : TRUE
  BY DEF Loaded
<1>2. ok \subseteq Nat
  OBVIOUS
<1> HIDE DEF ok
<1>3. CASE ok = {}
  BY <1>1, <1>3
<1>4. CASE ok # {}
  <2>1. (CHOOSE m \in ok : TRUE) \in ok
    BY <1>4
  <2> QED
    BY <1>1, <1>2, <1>4, <2>1
<1> QED
  BY <1>3, <1>4

\* A call begins with nothing bound, and its signature is one the client may use.
LEMMA CourseBegin == Course /\ Begin => Course'
<1> SUFFICES ASSUME Course, Begin PROVE Course'
  OBVIOUS
<1>1. phase = "ready" /\ phase' = "bind" /\ UNCHANGED <<build, pos, sent, rd, got, result>>
  BY DEF Begin
<1>2. PICK c \in Calls[build] : call' = c
  BY DEF Begin
<1>3. call'.sig \in Seq(SigModes \cup TypesOf(build))
  BY <1>2, CallsAssumption DEF Course
<1> QED
  BY <1>1, <1>2, <1>3 DEF Course

\* A round of the caller's loop binds an argument or changes the mode.
LEMMA CourseArgF ==
    ASSUME Course, ArgF
    PROVE  /\ Course'
           /\ phase = "bind" /\ phase' = "bind" /\ got' = got
           /\ sent' = sent \/ \E t \in ArgTypes : sent' = Append(sent, t)
<1> DEFINE item == call.sig[pos + 1]
<1>1. /\ phase = "bind" /\ pos < Len(call.sig) /\ pos' = pos + 1 /\ phase' = phase
      /\ UNCHANGED <<build, call, rd, got, result>>
  BY DEF ArgF, MoreItems
<1>2. item \in SigModes \cup TypesOf(build)
  BY <1>1, CourseCalls DEF Course
<1>3. sent' = sent \/ (item \in TypesOf(build) /\ sent' = Append(sent, item))
  <2>1. CASE item \in SigModes
    BY <2>1 DEF ArgF
  <2>2. CASE item \notin SigModes
    BY <1>2, <2>2 DEF ArgF
  <2> QED
    BY <2>1, <2>2
<1> HIDE DEF item
<1>4. sent' \in Seq(TypesOf(build)) /\ Len(sent') <= Len(sent) + 1
  BY <1>3 DEF Course
<1>5. Course'
  BY <1>1, <1>4 DEF Course
<1>6. TypesOf(build) \subseteq ArgTypes
  BY FormLen DEF TypesOf, ArgTypes
<1> QED
  BY <1>1, <1>3, <1>5, <1>6

\* The entry into the callee.
LEMMA CourseCall == Course /\ Call => Course'
  BY DEF Course, Call, EnterCallee

\* A round of the callee's loop takes one more argument.
LEMMA CourseTake ==
    ASSUME Course, Take
    PROVE  /\ Course'
           /\ phase = "run" /\ phase' = "run" /\ sent' = sent
           /\ Len(got) < Len(sent) /\ \E v \in Nat : got' = Append(got, v)
<1>1. /\ phase = "run" /\ pos < Len(sent) /\ pos' = pos + 1 /\ phase' = phase
      /\ UNCHANGED <<build, vm, call, sent, result>>
  BY DEF Take, MoreArgs
<1>2. \E v \in Nat : got' = Append(got, v)
  <2> DEFINE n == pos + 1
             access == dcbArg(rd, sent[n])
  <2>1. /\ n \in Nat /\ Len(sent) \in Nat
    BY DEF Course
  <2>2. Loaded(vm.mem, access, Len(sent)) \in Nat
    BY <2>1, LoadedNumber
  <2>3. \/ got' = Append(got, IF CopyIntact(vm, rd, sent[n], n)
                              THEN Loaded(vm.mem, access, Len(sent)) ELSE 0)
        \/ got' = Append(got, IF Intact(vm, n) THEN n ELSE 0)
    BY DEF Take
  <2> HIDE DEF n, access
  <2> QED
    BY <2>1, <2>2, <2>3
<1>3. PICK v \in Nat : got' = Append(got, v)
  BY <1>2
<1>4. got' \in Seq(Nat) /\ Len(got') = Len(got) + 1
  BY <1>3 DEF Course
<1>5. Course'
  BY <1>1, <1>4 DEF Course
<1> QED
  BY <1>1, <1>2, <1>5 DEF Course

\* The callee returns when it has taken as many arguments as were bound.
LEMMA CourseReturn ==
    ASSUME Course, Return
    PROVE  /\ Course'
           /\ phase = "run" /\ phase' = "idle" /\ Len(got) = Len(sent)
           /\ sent' = <<>> /\ got' = <<>>
<1>1. /\ phase = "run" /\ pos = Len(sent) /\ phase' = "idle" /\ pos' = 0
      /\ call' = NoCall /\ sent' = <<>> /\ got' = <<>> /\ build' = build
  BY DEF Return, LeaveCallee
<1> QED
  BY <1>1 DEF Course, NoCall

\* Every step.
LEMMA CourseStep == Course /\ [Next]_vars => Course'
<1> SUFFICES ASSUME Course, [Next]_vars PROVE Course'
  OBVIOUS
<1>1. ASSUME NEW mode \in Modes[build], SetMode(mode) PROVE Course'
  BY <1>1, CourseIdle
<1>2. ASSUME Reset PROVE Course'
  BY <1>2 DEF Course, Reset
<1>3. ASSUME UNCHANGED vars PROVE Course'
  BY <1>3 DEF Course, vars
<1> QED
  BY <1>1, <1>2, <1>3, CourseBegin, CourseArgF, CourseCall, CourseTake, CourseReturn DEF Next

\* The course of a call is the one of the loops, on every target.
THEOREM CourseInvariant == Spec => []Course
<1>1. Spec => Init /\ [][Next]_vars
  BY PTL DEF Spec
<1> QED
  BY <1>1, CourseInit, CourseStep, PTL
---------------------------------------------------------------------------
\* If the callee took its own value, one more argument has come through.
LEMMA TakenNext ==
    ASSUME Course, Take, TakesOwn, TakesOwn'
    PROVE  Taken' = Append(Taken, sent[Len(Taken) + 1]) /\ Len(Taken) = Len(got)
<1>1. PICK v \in Nat : got' = Append(got, v)
  BY CourseTake
<1>2. sent' = sent /\ Len(got) < Len(sent) /\ got \in Seq(Nat) /\ sent \in Seq(ArgTypes)
  BY CourseTake, SentTypes DEF Course
<1>3. /\ DOMAIN got = 1..Len(got) /\ DOMAIN got' = 1..(Len(got) + 1)
      /\ Len(got) \in Nat /\ Len(sent) \in Nat
  BY <1>1, <1>2
<1>4. Taken = [n \in 1..Len(got) |-> sent[n]]
  BY <1>3 DEF Taken, TakesOwn
<1>5. Taken' = [n \in 1..(Len(got) + 1) |-> sent[n]]
  BY <1>2, <1>3 DEF Taken, TakesOwn
<1>6. Taken \in Seq(ArgTypes) /\ Len(Taken) = Len(got)
  BY <1>2, <1>3, <1>4
<1> QED
  BY <1>2, <1>3, <1>4, <1>5, <1>6

\* The step in which the refinement could fail is Take, and it does not when the
\* value taken is the argument's own.
LEMMA ChannelInit == Init => Channel!Init
  BY DEF Init, Channel!Init, Taken

\* A step of the call is one of the channel, or none.
LEMMA ChannelStep ==
    ASSUME Course, TakesOwn, TakesOwn', [Next]_vars
    PROVE  [Channel!Next]_(Channel!vars)
<1>1. ASSUME NEW mode \in Modes[build], SetMode(mode) PROVE UNCHANGED Channel!vars
  BY <1>1 DEF SetMode, Channel!vars, Taken
<1>2. ASSUME Reset PROVE UNCHANGED Channel!vars
  BY <1>2 DEF Reset, Channel!vars, Taken
<1>3. ASSUME Begin PROVE UNCHANGED Channel!vars
  BY <1>3 DEF Begin, Channel!vars, Taken
<1>4. ASSUME ArgF PROVE [Channel!Next]_(Channel!vars)
  <2>1. /\ phase = "bind" /\ phase' = "bind" /\ got' = got /\ got = <<>>
        /\ sent' = sent \/ \E t \in ArgTypes : sent' = Append(sent, t)
    BY <1>4, CourseArgF DEF Course
  <2>2. Taken' = Taken
    BY <2>1 DEF Taken
  <2>3. CASE sent' = sent
    BY <2>1, <2>2, <2>3 DEF Channel!vars
  <2>4. ASSUME NEW t \in ArgTypes, sent' = Append(sent, t) PROVE Channel!Bind(t)
    BY <2>1, <2>2, <2>4 DEF Channel!Bind
  <2> QED
    BY <2>1, <2>3, <2>4 DEF Channel!Next
<1>5. ASSUME Call PROVE Channel!Call
  <2>1. phase = "bind" /\ phase' = "run" /\ sent' = sent /\ got' = got
    BY <1>5 DEF Call, EnterCallee
  <2>2. Taken' = Taken
    BY <2>1 DEF Taken
  <2> QED
    BY <2>1, <2>2 DEF Channel!Call
<1>6. ASSUME Take PROVE Channel!Take
  <2>1. phase = "run" /\ phase' = "run" /\ sent' = sent /\ Len(got) < Len(sent)
    BY <1>6, CourseTake
  <2> QED
    BY <1>6, <2>1, TakenNext DEF Channel!Take
<1>7. ASSUME Return PROVE Channel!Return
  <2>1. /\ phase = "run" /\ phase' = "idle" /\ Len(got) = Len(sent)
        /\ sent' = <<>> /\ got' = <<>> /\ got \in Seq(Nat) /\ sent \in Seq(ArgTypes)
    BY <1>7, CourseReturn, SentTypes DEF Course
  <2>2. Taken = sent
    BY <2>1 DEF Taken, TakesOwn
  <2>3. Taken' = <<>>
    BY <2>1 DEF Taken
  <2> QED
    BY <2>1, <2>2, <2>3 DEF Channel!Return
<1>8. ASSUME UNCHANGED vars PROVE UNCHANGED Channel!vars
  BY <1>8 DEF vars, Channel!vars, Taken
<1> QED
  BY <1>1, <1>2, <1>3, <1>4, <1>5, <1>6, <1>7, <1>8 DEF Next, Channel!Next

\* The elements of a sequence.
LEMMA ElementOf ==
    ASSUME NEW S, NEW s \in Seq(S), NEW n \in DOMAIN s
    PROVE  s[n] \in S
  OBVIOUS

\* What the channel delivers is what was bound.
Delivers == \A n \in DOMAIN Taken : n \in DOMAIN sent /\ Taken[n] = sent[n]

\* A step of the channel delivers nothing else.
LEMMA DeliversStep ==
    ASSUME Course, Course', Delivers, [Channel!Next]_(Channel!vars)
    PROVE  Delivers'
<1>0. DOMAIN Taken = DOMAIN got /\ DOMAIN Taken' = DOMAIN got'
  BY DEF Taken
<1>1. CASE Channel!Clear
  <2>1. phase # "run" /\ Taken' = Taken
    BY <1>1 DEF Channel!Clear
  <2>2. Taken' = <<>>
    BY <2>1 DEF Taken, Course
  <2> QED
    BY <2>2 DEF Delivers
<1>2. ASSUME NEW t \in ArgTypes, Channel!Bind(t) PROVE Delivers'
  <2>1. phase # "run" /\ Taken' = Taken
    BY <1>2 DEF Channel!Bind
  <2>2. Taken' = <<>>
    BY <2>1 DEF Taken, Course
  <2> QED
    BY <2>2 DEF Delivers
<1>3. CASE Channel!Call
  BY <1>3 DEF Channel!Call, Delivers
<1>4. CASE Channel!Take
  <2>1. /\ Len(Taken) < Len(sent) /\ Taken' = Append(Taken, sent[Len(Taken) + 1])
        /\ sent' = sent /\ sent \in Seq(ArgTypes)
    BY <1>4, SentTypes DEF Channel!Take
  <2>2. Taken \in Seq(ArgTypes)
    <3>1. got \in Seq(Nat) /\ DOMAIN got = 1..Len(got) /\ Len(got) \in Nat
      BY DEF Course
    <3>2. ASSUME NEW n \in 1..Len(got) PROVE Taken[n] \in ArgTypes
      <4>1. n \in DOMAIN sent /\ Taken[n] = sent[n]
        BY <1>0, <3>1, <3>2 DEF Delivers
      <4> QED
        BY <2>1, <4>1, ElementOf
    <3>3. Taken = [n \in 1..Len(got) |-> Taken[n]]
      BY <3>1 DEF Taken
    <3> QED
      BY <3>1, <3>2, <3>3
  <2> QED
    BY <2>1, <2>2 DEF Delivers
<1>5. CASE Channel!Return
  BY <1>5 DEF Channel!Return, Delivers
<1>6. CASE UNCHANGED Channel!vars
  BY <1>6 DEF Channel!vars, Delivers
<1> QED
  BY <1>1, <1>2, <1>3, <1>4, <1>5, <1>6 DEF Channel!Next

\* A wrong value is no value of the channel.
LEMMA NoJunk == Course /\ Delivers => TakesOwn
<1> SUFFICES ASSUME Course, Delivers, NEW n \in DOMAIN got PROVE got[n] = n
  BY DEF TakesOwn
<1>1. n \in DOMAIN sent /\ Taken[n] = sent[n] /\ Taken[n] = IF got[n] = n THEN sent[n] ELSE "junk"
  BY DEF Delivers, Taken
<1>2. sent[n] \in ArgTypes
  <2>1. sent \in Seq(ArgTypes)
    BY SentTypes
  <2> QED
    BY <1>1, <2>1, ElementOf
<1>3. "junk" \notin ArgTypes
  BY DEF ArgTypes, FormOf, Aggr
<1> QED
  BY <1>1, <1>2, <1>3

\* The refinement of the channel comes down to TakesOwn: that every value a
\* callback takes is the one bound for that argument.
LEMMA ChannelImplemented == Spec => (RoundTrip <=> []TakesOwn)
<1>1. Spec => Init /\ [][Next]_vars
  BY PTL DEF Spec
<1>2. Init => Delivers
  BY DEF Init, Delivers, Taken
<1>3. RoundTrip => [][Channel!Next]_(Channel!vars)
  BY PTL DEF RoundTrip, Channel!Spec
<1>4. Channel!Init /\ [][Channel!Next]_(Channel!vars) => RoundTrip
  BY PTL DEF RoundTrip, Channel!Spec
<1> QED
  BY <1>1, <1>2, <1>3, <1>4, CourseInvariant, ChannelInit, ChannelStep, DeliversStep, NoJunk, PTL

---------------------------------------------------------------------------
\* The modes that a signature selects.

\* The vtable that handle_mode leaves; that of before does not matter to a mode
\* that the target supports.
VtAfter(vt, mode) == handle_mode([NewVM EXCEPT !.vt = vt], mode, FALSE).vt

\* A mode that the target supports selects the same vtable whatever was selected before.
LEMMA HandleVt ==
    ASSUME build \in Targets, NEW mode
    PROVE  /\ \A m : DOMAIN m = Fields => handle_mode(m, mode, FALSE).vt = VtAfter(m.vt, mode)
           /\ \/ \A vt : VtAfter(vt, mode) = vt
              \/ \A vt, other : VtAfter(vt, mode) = VtAfter(other, mode)
<1>1. CASE mode \notin SigModes
  BY <1>1 DEF handle_mode, select_mode, VtAfter, NewVM
<1>2. CASE mode \in SigModes
  <2>1. PICK v : Selects(mode, v)
    BY ModeSelects
  <2>2. ASSUME NEW m, DOMAIN m = Fields
        PROVE  handle_mode(m, mode, FALSE).vt = IF v = "unsupported" THEN m.vt ELSE v
    BY <1>2, <2>1, <2>2, SelectsVt DEF handle_mode, select_mode
  <2>3. ASSUME NEW vt PROVE VtAfter(vt, mode) = IF v = "unsupported" THEN vt ELSE v
    <3> DEFINE m == [NewVM EXCEPT !.vt = vt]
    <3>1. DOMAIN m = Fields /\ m.vt = vt
      BY DEF NewVM, Fields
    <3>2. VtAfter(vt, mode) = handle_mode(m, mode, FALSE).vt
      BY DEF VtAfter
    <3> HIDE DEF m
    <3> QED
      BY <2>2, <3>1, <3>2
  <2> QED
    BY <2>2, <2>3
<1> QED
  BY <1>1, <1>2

\* The vtables that the modes of a signature select one after the other.
Moding(a, vt, sig) ==
    /\ a \in [0..Len(sig) -> Vtables(build)] /\ a[0] = vt
    /\ \A k \in 1..Len(sig) : a[k] = VtAfter(a[k - 1], sig[k])

\* What dcVCallF has selected when it comes to the struct result.
LEMMA Preselected ==
    ASSUME build \in Targets, NEW m, DOMAIN m = Fields, m.vt \in Vtables(build),
           NEW c, NEW T, c.sig \in Seq(T)
    PROVE  LET x == Preselect(m, c)
           IN  /\ Remoded(m, x) /\ x.vt \in Vtables(build) /\ (m \in VM => x \in VM)
               /\ c.ret = "void" => x = m
               /\ c.ret # "void" => \E a : Moding(a, m.vt, c.sig) /\ x.vt = a[Len(c.sig)]
<1> DEFINE N == Len(c.sig)
           bad == [m EXCEPT !.err = TRUE]
           to(v) == [m EXCEPT !.vt = v, !.err = FALSE]
           no(v) == [m EXCEPT !.vt = v, !.err = TRUE]
           S == {m, bad} \cup {to(v) : v \in Vtables(build)} \cup {no(v) : v \in Vtables(build)}
           step == [x \in S \X (1..N) |-> handle_mode(x[1], c.sig[x[2]], FALSE)]
           Body(g) == [k \in 0..N |-> IF k = 0 THEN m ELSE handle_mode(g[k - 1], c.sig[k], FALSE)]
           at == CHOOSE g : g = Body(g)
<1>1. N \in Nat
  OBVIOUS
<1>a. m \in S /\ bad \in S /\ \A v \in Vtables(build) : to(v) \in S /\ no(v) \in S
  OBVIOUS
<1>b. \A x \in S : x \in {m, bad} \/ \E v \in Vtables(build) : x \in {to(v), no(v)}
  OBVIOUS
<1>4. m \in S
  BY <1>a
<1> HIDE DEF S
<1>2. \A x \in S : DOMAIN x = Fields /\ Remoded(m, x) /\ x.vt \in Vtables(build)
  <2> SUFFICES ASSUME NEW x \in S PROVE DOMAIN x = Fields /\ Remoded(m, x) /\ x.vt \in Vtables(build)
    OBVIOUS
  <2>1. CASE x \in {m, bad}
    BY <2>1 DEF Remoded, Fields
  <2>2. ASSUME NEW v \in Vtables(build), x \in {to(v), no(v)}
        PROVE  DOMAIN x = Fields /\ Remoded(m, x) /\ x.vt \in Vtables(build)
    BY <2>2 DEF Remoded, Fields
  <2> QED
    BY <1>b, <2>1, <2>2
<1>3. \A x \in S : \A mode : handle_mode(x, mode, FALSE) \in S
  <2> SUFFICES ASSUME NEW x \in S, NEW mode PROVE handle_mode(x, mode, FALSE) \in S
    OBVIOUS
  <2>1. CASE mode \notin SigModes
    BY <2>1 DEF handle_mode, select_mode
  <2>2. CASE mode \in SigModes
    <3>1. PICK v : Selects(mode, v)
      BY ModeSelects
    <3>2. handle_mode(x, mode, FALSE) = dc_callvm_base_init(x, v) /\ v \in Vtables(build) \cup {"unsupported"}
      BY <2>2, <3>1 DEF handle_mode, select_mode, Selects
    <3>3. [x EXCEPT !.err = TRUE] \in S
      <4>1. CASE x = m
        BY <1>a, <4>1
      <4>2. CASE x = bad
        <5>1. [bad EXCEPT !.err = TRUE] = bad
          BY DEF Fields
        <5> QED
          BY <1>a, <4>2, <5>1
      <4>3. ASSUME NEW w \in Vtables(build), x \in {to(w), no(w)} PROVE [x EXCEPT !.err = TRUE] \in S
        <5>1. [to(w) EXCEPT !.err = TRUE] = no(w) /\ [no(w) EXCEPT !.err = TRUE] = no(w)
          BY DEF Fields
        <5> QED
          BY <1>a, <4>3, <5>1
      <4> QED
        BY <1>b, <4>1, <4>2, <4>3
    <3>4. ASSUME v \in Vtables(build) PROVE [x EXCEPT !.vt = v, !.err = FALSE] \in S
      <4>1. [m EXCEPT !.vt = v, !.err = FALSE] = to(v) /\ [bad EXCEPT !.vt = v, !.err = FALSE] = to(v)
        BY DEF Fields
      <4>2. \A w : [to(w) EXCEPT !.vt = v, !.err = FALSE] = to(v)
                   /\ [no(w) EXCEPT !.vt = v, !.err = FALSE] = to(v)
        BY DEF Fields
      <4>3. [x EXCEPT !.vt = v, !.err = FALSE] = to(v)
        <5>1. CASE x \in {m, bad}
          BY <4>1, <5>1
        <5>2. ASSUME NEW w, x \in {to(w), no(w)} PROVE [x EXCEPT !.vt = v, !.err = FALSE] = to(v)
          BY <4>2, <5>2
        <5> QED
          BY <1>b, <5>1, <5>2
      <4> QED
        BY <1>a, <3>4, <4>3
    <3> QED
      BY <3>2, <3>3, <3>4 DEF dc_callvm_base_init
  <2> QED
    BY <2>1, <2>2
<1>5. c.ret # "void" => Preselect(m, c) = at[N]
  BY Zenon DEF Preselect
<1>6. c.ret = "void" => Preselect(m, c) = m
  BY Zenon DEF Preselect
<1> HIDE DEF N
<1>7. step \in [S \X (1..N) -> S] /\ \A v \in S, n \in 1..N : step[<<v, n>>] = handle_mode(v, c.sig[n], FALSE)
  BY <1>3
<1> HIDE DEF step
<1>8. PICK g : Follows(g, N, S, m, step)
  BY <1>1, <1>4, <1>7, RecursiveFunction
<1>9. /\ g \in [0..N -> S] /\ g[0] = m
      /\ \A n \in 1..N : g[n] = handle_mode(g[n - 1], c.sig[n], FALSE)
  <2>1. /\ g \in [0..N -> S] /\ g[0] = m /\ \A n \in 1..N : g[n] = step[<<g[n - 1], n>>]
    BY <1>8 DEF Follows
  <2>2. ASSUME NEW n \in 1..N PROVE g[n] = handle_mode(g[n - 1], c.sig[n], FALSE)
    <3>1. n - 1 \in 0..N
      BY <1>1
    <3>2. g[n - 1] \in S
      BY <2>1, <3>1
    <3> QED
      BY <1>7, <2>1, <3>2
  <2> QED
    BY <2>1, <2>2
<1>10. g = Body(g)
  <2>1. ASSUME NEW n \in 0..N PROVE g[n] = Body(g)[n]
    <3>1. Body(g)[n] = IF n = 0 THEN m ELSE handle_mode(g[n - 1], c.sig[n], FALSE)
      OBVIOUS
    <3>2. n = 0 \/ n \in 1..N
      BY <1>1
    <3> HIDE DEF Body
    <3> QED
      BY <1>9, <3>1, <3>2, Zenon
  <2> QED
    BY <1>9, <2>1
<1>11. at = Body(at)
  BY <1>10
<1> HIDE DEF at
<1>12. /\ at[0] = m /\ \A n \in 1..N : at[n] = handle_mode(at[n - 1], c.sig[n], FALSE)
  BY <1>1, <1>11
<1> DEFINE T0 == {n \in Nat : n \in 0..N => at[n] \in S}
<1>13. \A n \in 0..N : at[n] \in S
  <2>1. 0 \in T0 /\ T0 \in SUBSET Nat
    BY <1>4, <1>12
  <2>2. \A n \in 0..(N - 1) : n \in T0 => n + 1 \in T0
    <3> SUFFICES ASSUME NEW n \in 0..(N - 1), n \in T0 PROVE n + 1 \in T0
      OBVIOUS
    <3>1. n \in Nat /\ n \in 0..N /\ n + 1 \in 1..N /\ (n + 1) - 1 = n /\ n + 1 \in Nat
      BY <1>1
    <3>2. at[n + 1] = handle_mode(at[n], c.sig[n + 1], FALSE) /\ at[n] \in S
      BY <1>12, <3>1
    <3> QED
      BY <1>3, <3>1, <3>2
  <2> HIDE DEF T0
  <2>3. 0..N \subseteq T0
    BY <1>1, <2>1, <2>2, SetInduction
  <2> QED
    BY <1>1, <2>3 DEF T0
<1> DEFINE a == [k \in 0..N |-> at[k].vt]
<1>14. Moding(a, m.vt, c.sig)
  <2>1. a \in [0..N -> Vtables(build)] /\ a[0] = m.vt
    BY <1>1, <1>2, <1>12, <1>13
  <2>2. ASSUME NEW k \in 1..N PROVE a[k] = VtAfter(a[k - 1], c.sig[k])
    <3>1. k - 1 \in 0..N /\ k \in 0..N
      BY <1>1
    <3>2. DOMAIN at[k - 1] = Fields
      BY <1>2, <1>13, <3>1
    <3>3. at[k].vt = VtAfter(at[k - 1].vt, c.sig[k])
      BY <1>12, <3>2, HandleVt
    <3> QED
      BY <3>1, <3>3
  <2> QED
    BY <2>1, <2>2 DEF Moding, N
<1>15. a[N] = at[N].vt /\ at[N] \in S
  BY <1>1, <1>13
<1> HIDE DEF a
<1>16. \E b : Moding(b, m.vt, c.sig) /\ at[N].vt = b[N]
  BY <1>14, <1>15
<1>c. ASSUME m \in VM PROVE \A x \in S : x \in VM
  <2>1. Vtables(build) \subseteq AnyVtable
    BY DEF AnyVtable
  <2>2. bad \in VM /\ \A v \in Vtables(build) : to(v) \in VM /\ no(v) \in VM
    BY <1>c, <2>1 DEF VM
  <2>3. ASSUME NEW x \in S PROVE x \in VM
    <3> HIDE DEF bad, to, no
    <3>1. CASE x \in {m, bad}
      BY <1>c, <2>2, <3>1
    <3>2. ASSUME NEW v \in Vtables(build), x \in {to(v), no(v)} PROVE x \in VM
      BY <2>2, <3>2
    <3> QED
      BY <1>b, <3>1, <3>2
  <2> QED
    BY <2>3
<1>17. CASE c.ret = "void"
  BY <1>2, <1>4, <1>6, <1>17
<1>18. CASE c.ret # "void"
  BY <1>2, <1>c, <1>5, <1>15, <1>16, <1>18 DEF N
<1> QED
  BY <1>17, <1>18

---------------------------------------------------------------------------
\* The vector in the course of a call.

\* What the vector of the call VM holds: no more than the arguments bound need.
Filled ==
    /\ vm.vt \in Vtables(build)
    /\ Even(vm, Grain(build)) /\ vm.size <= VecTotal
    /\ phase = "ready" => vm.mem = {} /\ vm.size \in {0, 8, 16}
    /\ phase \in {"ready", "bind"} => vm.size <= 16 + 72 * Len(sent) /\ Numbered(vm, Len(sent))
    /\ phase = "run" => DOMAIN rd = CursorFields /\ rd.vt = vm.vt
    /\ result \in {"none", "value", "junk"}

\* The words that targets have, and the sizes after a reset.
LEMMA GrainValue ==
    /\ \A b : Grain(b) \in {0, 1, 4, 8}
    /\ \A b, vt : GrainOf(b, vt) \in {0, 1, 4, 8}
    /\ \A g \in {0, 1, 4, 8}, s \in {0, 8, 16} : OnGrain(s, g)
  BY DEF Grain, GrainOf, OnGrain

\* A mode leaves the vector aligned.
LEMMA EvenRemoded ==
    ASSUME NEW m, NEW x, Remoded(m, x), NEW g, Even(m, g)
    PROVE  Even(x, g)
  BY DEF Even, Remoded

\* An empty vector is aligned.
LEMMA EvenCleared ==
    ASSUME NEW m, NEW x, Cleared(m, x), NEW g \in {0, 1, 4, 8}
    PROVE  Even(x, g)
  BY GrainValue DEF Even, Cleared, Wide

\* A mode moves no argument.
LEMMA NumberedRemoded ==
    ASSUME NEW m, NEW x, Remoded(m, x), NEW n, Numbered(m, n)
    PROVE  Numbered(x, n)
  BY DEF Numbered, Remoded

\* dcNewCallVM.
LEMMA NewFilled ==
    ASSUME build \in Targets
    PROVE  /\ dcNewCallVM.vt \in Vtables(build)
           /\ \A g \in {0, 1, 4, 8} : Even(dcNewCallVM, g)
           /\ dcNewCallVM.size \in {0, 8, 16}
<1> DEFINE m == dcMode(NewVM, "default")
<1>1. /\ DOMAIN NewVM = Fields /\ NewVM.i \in Nat /\ NewVM.f \in Nat /\ NewVM.d \in Nat
      /\ NewVM.copies \in Int
  BY VecAssumption DEF NewVM, Fields
<1>2. Remoded(NewVM, m) /\ m.vt \in Vtables(build)
  BY <1>1, ModeKeeps
<1> HIDE DEF m
<1>3. DOMAIN m = Fields /\ m.i \in Nat /\ m.f \in Nat /\ m.d \in Nat /\ m.copies \in Int
  BY <1>1, <1>2 DEF Remoded
<1>4. Cleared(m, dcReset(m)) /\ dcNewCallVM = dcReset(m)
  BY <1>2, <1>3, ResetClears DEF dcNewCallVM, m
<1> QED
  BY <1>2, <1>4, EvenCleared DEF Cleared

\* A new call VM.
LEMMA FilledInit == Init /\ Fits => Filled
<1> SUFFICES ASSUME Init, Fits PROVE Filled
  OBVIOUS
<1>1. build \in Targets /\ vm = dcNewCallVM /\ phase = "idle" /\ result = "none"
  BY CallsAssumption DEF Init
<1>2. vm.vt \in Vtables(build) /\ vm.size \in {0, 8, 16} /\ Even(vm, Grain(build))
  BY <1>1, NewFilled, GrainValue
<1> QED
  BY <1>1, <1>2, VecAssumption DEF Filled, Fits

\* dcMode.
LEMMA FilledMode ==
    ASSUME Course, Filled, NEW mode, SetMode(mode)
    PROVE  Filled'
<1>1. build \in Targets /\ phase = "idle" /\ vm' = dcMode(vm, mode)
      /\ UNCHANGED <<build, phase, call, pos, sent, rd, got, result>>
  BY CourseCalls DEF SetMode
<1>2. DOMAIN vm = Fields /\ vm.vt \in Vtables(build) /\ Even(vm, Grain(build))
  BY DEF Filled, Even
<1>3. Remoded(vm, vm') /\ vm'.vt \in Vtables(build)
  BY <1>1, <1>2, ModeKeeps
<1>4. Even(vm', Grain(build))
  BY <1>2, <1>3, EvenRemoded
<1> QED
  BY <1>1, <1>3, <1>4 DEF Filled, Remoded

\* dcReset.
LEMMA FilledReset == ASSUME Course, Filled, Fits, Reset PROVE Filled'
<1>1. build \in Targets /\ phase = "idle" /\ phase' = "ready" /\ vm' = dcReset(vm) /\ result' = "none"
      /\ UNCHANGED <<build, call, pos, sent, rd, got>> /\ sent = <<>>
  BY CourseCalls DEF Reset, Course
<1>2. /\ DOMAIN vm = Fields /\ vm.vt \in Vtables(build) /\ vm.i \in Nat /\ vm.f \in Nat /\ vm.d \in Nat
      /\ vm.copies \in Int
  BY DEF Filled, Even
<1>3. Cleared(vm, vm')
  BY <1>1, <1>2, ResetClears
<1>4. Even(vm', Grain(build)) /\ vm'.vt \in Vtables(build) /\ vm'.size \in {0, 8, 16} /\ vm'.mem = {}
  BY <1>2, <1>3, GrainValue, EvenCleared DEF Cleared
<1>5. Numbered(vm, Len(sent))'
  BY <1>1, <1>3 DEF Numbered, Cleared
<1>6. vm'.size <= VecTotal /\ Len(sent') = 0
  BY <1>1, <1>4, VecAssumption DEF Fits
<1> QED
  BY <1>1, <1>4, <1>5, <1>6 DEF Filled

\* The modes that begin a call, and the struct result.
LEMMA BeginMode ==
    ASSUME Course, vm.vt \in Vtables(build), DOMAIN vm = Fields, NEW c \in Calls[build]
    PROVE  LET moded == Preselect(handle_mode(vm, c.prefix, AtEnd(c, 0)), c)
           IN  /\ Remoded(vm, moded) /\ moded.vt \in Vtables(build) /\ (vm \in VM => moded \in VM)
               /\ c.ret # "void" => \E vt, a : Moding(a, vt, c.sig) /\ moded.vt = a[Len(c.sig)]
<1> DEFINE m == handle_mode(vm, c.prefix, AtEnd(c, 0))
           moded == Preselect(m, c)
<1>1. build \in Targets /\ c.sig \in Seq(SigModes \cup TypesOf(build))
  BY CourseCalls, CallsAssumption DEF Course
<1>2. Remoded(vm, m) /\ m.vt \in Vtables(build)
  BY <1>1, HandleKeeps
<1> HIDE DEF m
<1>3. DOMAIN m = Fields /\ (vm \in VM => m \in VM)
  BY <1>1, <1>2, ModeInVM DEF Remoded, m
<1>4. /\ Remoded(m, moded) /\ moded.vt \in Vtables(build) /\ (m \in VM => moded \in VM)
      /\ c.ret # "void" => \E a : Moding(a, m.vt, c.sig) /\ moded.vt = a[Len(c.sig)]
  BY <1>1, <1>2, <1>3, Preselected
<1> HIDE DEF moded
<1>5. Remoded(vm, moded)
  BY <1>2, <1>4, RemodedTwice
<1> QED
  BY <1>3, <1>4, <1>5 DEF m, moded

\* Only the register for the hidden pointer changes when a call with a struct
\* result begins.
LEMMA BeginAggr ==
    ASSUME NEW m, NEW ret, DOMAIN m = Fields
    PROVE  LET x == dcBeginCallAggr(m, ret)
           IN  /\ DOMAIN x = Fields /\ x.vt = m.vt /\ x.i = m.i /\ x.f = m.f /\ x.d = m.d
               /\ x.copies = m.copies /\ x.size = m.size /\ x.mem = m.mem
  BY DEF dcBeginCallAggr, gVT_x64_begin, dc_callvm_begin_aggr_x64, dc_callvm_begin_aggr_x64_win64_this,
         Fields

\* The beginning of a call.
LEMMA FilledBegin == ASSUME Course, Filled, Begin PROVE Filled'
<1>1. phase = "ready" /\ phase' = "bind" /\ UNCHANGED <<build, pos, sent, rd, got, result>>
  BY DEF Begin
<1> DEFINE moded(c) == Preselect(handle_mode(vm, c.prefix, AtEnd(c, 0)), c)
<1>2. PICK c \in Calls[build] : vm' = dcBeginCallAggr(moded(c), c.ret)
  BY DEF Begin
<1>3. DOMAIN vm = Fields /\ vm.vt \in Vtables(build) /\ Even(vm, Grain(build))
  BY DEF Filled, Even
<1>4. Remoded(vm, moded(c)) /\ moded(c).vt \in Vtables(build)
  BY <1>3, BeginMode
<1> DEFINE m == moded(c)
<1> HIDE DEF moded, m
<1>5. /\ DOMAIN vm' = Fields /\ vm'.vt \in Vtables(build) /\ vm'.i = vm.i /\ vm'.f = vm.f /\ vm'.d = vm.d
      /\ vm'.copies = vm.copies /\ vm'.size = vm.size /\ vm'.mem = vm.mem
  BY <1>2, <1>4, BeginAggr DEF Remoded
<1>6. Even(vm', Grain(build))
  BY <1>3, <1>5 DEF Even
<1>7. Numbered(vm, Len(sent)) => Numbered(vm, Len(sent))'
  BY <1>1, <1>5 DEF Numbered
<1> QED
  BY <1>1, <1>5, <1>6, <1>7 DEF Filled

\* The vector has room for one more argument of the signature.
LEMMA RoomForNext ==
    ASSUME Course, Filled, Fits, phase = "bind", pos < Len(call.sig)
    PROVE  vm.size + 72 <= VecTotal
<1>1. call \in Calls[build] /\ build \in Builds /\ Len(call.sig) \in Nat /\ pos \in Nat
      /\ Len(sent) \in Nat /\ Len(sent) <= pos /\ call.sig \in Seq(SigModes \cup TypesOf(build))
  BY CourseCalls DEF Course
<1>2. 16 + 72 * Len(call.sig) <= VecTotal /\ vm.size \in Nat /\ vm.size <= 16 + 72 * Len(sent)
  BY <1>1 DEF Fits, Filled, Even
<1> QED
  BY <1>1, <1>2, VecAssumption

\* The next item is a mode or an argument.
LEMMA NextItem ==
    ASSUME Course, ArgF
    PROVE  /\ phase = "bind" /\ phase' = "bind" /\ pos < Len(call.sig) /\ pos' = pos + 1
           /\ UNCHANGED <<build, call, rd, got, result>> /\ build \in Targets /\ Len(sent) \in Nat
           /\ \/ /\ call.sig[pos + 1] \in SigModes /\ sent' = sent
                 /\ vm' = handle_mode(vm, call.sig[pos + 1], AtEnd(call, pos + 1))
              \/ /\ call.sig[pos + 1] \in TypesOf(build) /\ sent' = Append(sent, call.sig[pos + 1])
                 /\ call.sig[pos + 1] \notin SigModes
                 /\ vm' = dcArg(vm, call.sig[pos + 1], Len(sent) + 1) /\ Len(sent') = Len(sent) + 1
<1>1. call.sig[pos + 1] \in SigModes \cup TypesOf(build) /\ build \in Targets /\ Len(sent) \in Nat
  BY CourseCalls DEF Course, ArgF, MoreItems
<1>2. sent \in Seq(TypesOf(build))
  BY DEF Course
<1> QED
  BY <1>1, <1>2 DEF ArgF, MoreItems

\* A round of the caller's loop: a mode costs nothing, an argument at most 72 bytes.
LEMMA FilledArgF == ASSUME Course, Filled, Fits, ArgF PROVE Filled'
<1> DEFINE item == call.sig[pos + 1]
           n == Len(sent)
           g == Grain(build)
<1>1. /\ phase = "bind" /\ phase' = "bind" /\ UNCHANGED <<build, call, rd, got, result>>
      /\ build \in Targets /\ n \in Nat
  BY NextItem
<1>2. /\ DOMAIN vm = Fields /\ vm.vt \in Vtables(build) /\ Even(vm, g) /\ vm.size \in Nat
      /\ vm.size <= VecTotal /\ vm.size <= 16 + 72 * n /\ Numbered(vm, n)
  BY <1>1 DEF Filled, Even
<1>3. CASE item \in SigModes /\ sent' = sent /\ vm' = handle_mode(vm, item, AtEnd(call, pos + 1))
  <2>1. Remoded(vm, vm') /\ vm'.vt \in Vtables(build)
    BY <1>1, <1>2, <1>3, HandleKeeps
  <2>2. Even(vm', g) /\ Numbered(vm', n) /\ vm'.size = vm.size
    BY <1>2, <2>1, EvenRemoded, NumberedRemoded DEF Remoded
  <2>3. Numbered(vm, Len(sent))'
    BY <1>1, <1>3, <2>2 DEF Numbered
  <2> QED
    BY <1>1, <1>2, <1>3, <2>1, <2>2, <2>3 DEF Filled
<1>4. CASE item \in TypesOf(build) /\ vm' = dcArg(vm, item, n + 1) /\ Len(sent') = n + 1
  <2>1. vm.size + 72 <= VecTotal
    BY <1>1, NextItem, RoomForNext
  <2>2. Grows(vm, vm', 72, g) /\ Numbered(vm', n + 1)
    <3> HIDE DEF item, n, g
    <3> QED
      BY <1>1, <1>2, <1>4, <2>1, ArgGrows DEF g
  <2>3. Even(vm', g) /\ vm'.vt = vm.vt /\ vm'.size <= vm.size + 72 /\ vm'.size \in Nat
    BY <2>2 DEF Grows, Even
  <2>4. Numbered(vm, Len(sent))'
    BY <1>1, <1>4, <2>2 DEF Numbered
  <2>5. vm'.size <= VecTotal /\ vm'.size <= 16 + 72 * Len(sent')
    BY <1>1, <1>2, <1>4, <2>1, <2>3, VecAssumption
  <2> QED
    BY <1>1, <1>2, <2>3, <2>4, <2>5 DEF Filled
<1> QED
  BY <1>3, <1>4, NextItem

\* The cursor of a callback begins with the convention of the call.
LEMMA CursorBegins ==
    ASSUME build \in Targets, NEW ret
    PROVE  DOMAIN dcbCursor(vm.vt, ret) = CursorFields /\ dcbCursor(vm.vt, ret).vt = vm.vt
  BY DEF dcbCursor, dc_callvm_call_x86, dcbInitCallback2_x64, dcbInitCallback2_arm32, Cursor, CursorFields

\* The entry into the callee.
LEMMA FilledCall == ASSUME Course, Filled, Call PROVE Filled'
<1> DEFINE x == dc_callvm_call_x64(vm)
           g == Grain(build)
<1>1. /\ phase = "bind" /\ phase' = "run" /\ rd' = dcbCursor(vm.vt, call.ret) /\ build \in Targets
      /\ UNCHANGED <<build, call, sent, got, result>> /\ vm' \in {vm, x}
  BY CourseCalls DEF Call, EnterCallee
<1>2. Even(vm, g) /\ vm.vt \in Vtables(build) /\ vm.size <= VecTotal
  BY DEF Filled
<1>3. Even(x, g) /\ x.vt = vm.vt /\ x.size = vm.size
  <2> DEFINE off == 8 * vm.hid
             p == Val(HiddenArg, "i8")
  <2>1. Fitting("I", off, p, g)
    BY DEF Fitting
  <2> HIDE DEF off, p, g
  <2>2. LET y == Put(vm, "I", off, p) IN Even(y, g) /\ y.vt = vm.vt /\ y.size = vm.size
    BY <1>2, <2>1, PutKeeps
  <2>3. x \in {vm, Put(vm, "I", off, p)}
    BY DEF dc_callvm_call_x64, off, p
  <2> HIDE DEF x
  <2> QED
    BY <1>2, <2>2, <2>3
<1> HIDE DEF x, g
<1>4. Even(vm', g) /\ vm'.vt = vm.vt /\ vm'.size = vm.size
  BY <1>1, <1>2, <1>3
<1>5. DOMAIN rd' = CursorFields /\ rd'.vt = vm.vt
  BY <1>1, CursorBegins
<1> QED
  BY <1>1, <1>2, <1>4, <1>5 DEF Filled, g

\* The callee's loop keeps to the convention.
LEMMA TakeOnward ==
    ASSUME Course, Take, DOMAIN rd = CursorFields
    PROVE  DOMAIN rd' = CursorFields /\ rd'.vt = rd.vt /\ rd'.hid = rd.hid
<1>1. phase = "run" /\ pos < Len(sent) /\ build \in Targets /\ pos \in Nat /\ sent \in Seq(TypesOf(build))
  BY CourseCalls DEF Take, MoreArgs, Course
<1>2. sent[pos + 1] \in TypesOf(build)
  BY <1>1
<1>3. Onward(rd, dcbArg(rd, sent[pos + 1]).rd)
  BY <1>1, <1>2, ArgOnward
<1>4. rd' \in {rd, dcbArg(rd, sent[pos + 1]).rd}
  BY DEF Take
<1> QED
  BY <1>3, <1>4 DEF Onward

\* A round of the callee's loop.
LEMMA FilledTake == ASSUME Course, Filled, Take PROVE Filled'
<1>1. phase = "run" /\ phase' = phase /\ UNCHANGED <<build, vm, call, sent, result>>
  BY DEF Take, MoreArgs
<1>2. DOMAIN rd = CursorFields /\ rd.vt = vm.vt
  BY <1>1 DEF Filled
<1>3. DOMAIN rd' = CursorFields /\ rd'.vt = rd.vt
  BY <1>2, TakeOnward
<1> QED
  BY <1>1, <1>2, <1>3 DEF Filled

\* The return.
LEMMA FilledReturn == ASSUME Filled, Return PROVE Filled'
  BY DEF Filled, Return, LeaveCallee

\* Every step.
LEMMA FilledStep == ASSUME Fits, Course, Filled, [Next]_vars PROVE Filled'
<1>1. ASSUME UNCHANGED vars PROVE Filled'
  <2>1. Numbered(vm, Len(sent))' <=> Numbered(vm, Len(sent))
    BY <1>1 DEF vars, Numbered
  <2> QED
    BY <1>1, <2>1 DEF vars, Filled
<1> QED
  BY <1>1, FilledMode, FilledReset, FilledBegin, FilledArgF, FilledCall, FilledTake, FilledReturn DEF Next

\* The two invariants together are the types.
LEMMA CourseTypes == ASSUME Course, Filled PROVE TypeOK
<1>1. call.ret \in {"void", "cxx"} \cup DOMAIN Aggr
  BY CourseCalls DEF ReturnsOf
<1>2. vm.size \in 0..VecTotal
  BY VecAssumption DEF Filled, Even
<1> QED
  BY <1>1, <1>2 DEF TypeOK, Course, Filled

\* On every target, for all calls that fit the vector (Fits): the types, the size
\* of the vector within its bounds, and the callee's cursor at the convention that
\* the caller used.  An argument takes at most 72 bytes, whatever the dcArg
\* function does with it, so none is dropped by dcVecAppend.
THEOREM Types ==
    ASSUME Fits
    PROVE  Spec => []TypeOK
<1>1. Spec => Init /\ [][Next]_vars
  BY PTL DEF Spec
<1>2. Init => Filled
  BY FilledInit
<1>3. Course /\ Filled /\ [Next]_vars => Filled'
  BY FilledStep
<1>4. Course /\ Filled => TypeOK
  BY CourseTypes
<1> QED
  BY <1>1, <1>2, <1>3, <1>4, CourseInvariant, PTL

---------------------------------------------------------------------------
\* Alignment on the stack.

\* While a call is bound, its signature does not turn from a convention whose
\* stack words are 4 bytes to one that aligns 64 bit values.
KeepsAlignment ==
    phase = "bind" /\ phase' = "bind" /\ build \notin FourAligned /\ vm.vt \in {"arm", "darwin"}
        => vm'.vt \in {"arm", "darwin"}

\* The vector keeps to the words of the convention.
OnWords == phase # "idle" => Even(vm, GrainOf(build, vm.vt))

\* A mode that keeps the alignment keeps the words.
LEMMA GrainModes ==
    ASSUME build \in Targets, NEW v \in Vtables(build), NEW w \in Vtables(build),
           build \notin FourAligned /\ v \in {"arm", "darwin"} => w \in {"arm", "darwin"}
    PROVE  GrainOf(build, w) \in {GrainOf(build, v), 0}
<1>1. CASE build \in {"arm_eabi", "thumb_eabi"}
  BY <1>1 DEF GrainOf, Grain, FourAligned, Vtables
<1>2. CASE build = "ppc32_sysv"
  BY <1>2 DEF GrainOf, Grain, FourAligned, Vtables
<1>3. CASE build \notin {"arm_eabi", "thumb_eabi", "ppc32_sysv"}
  BY <1>3 DEF GrainOf
<1> QED
  BY <1>1, <1>2, <1>3

\* An aligned vector is a vector.
LEMMA EvenLess ==
    ASSUME NEW m, NEW g, Even(m, g)
    PROVE  Even(m, 0)
  BY DEF Even, OnGrain

\* dcReset empties the vector.
LEMMA OnWordsReset == ASSUME Course, Filled, Reset PROVE OnWords'
<1>1. build \in Targets /\ vm' = dcReset(vm) /\ build' = build
  BY CourseCalls DEF Reset
<1>2. /\ DOMAIN vm = Fields /\ vm.vt \in Vtables(build) /\ vm.i \in Nat /\ vm.f \in Nat /\ vm.d \in Nat
      /\ vm.copies \in Int
  BY DEF Filled, Even
<1>3. Cleared(vm, vm')
  BY <1>1, <1>2, ResetClears
<1>4. GrainOf(build, vm'.vt) \in {0, 1, 4, 8}
  BY GrainValue
<1>5. Even(vm', GrainOf(build, vm'.vt))
  BY <1>3, <1>4, EvenCleared
<1> QED
  BY <1>1, <1>5 DEF OnWords

\* No mode misaligns an empty vector.
LEMMA OnWordsBegin == ASSUME Course, Filled, Begin PROVE OnWords'
<1>1. phase = "ready" /\ build' = build
  BY DEF Begin
<1> DEFINE moded(c) == Preselect(handle_mode(vm, c.prefix, AtEnd(c, 0)), c)
<1>2. PICK c \in Calls[build] : vm' = dcBeginCallAggr(moded(c), c.ret)
  BY DEF Begin
<1>3. /\ DOMAIN vm = Fields /\ vm.vt \in Vtables(build) /\ vm.mem = {} /\ vm.size \in {0, 8, 16}
      /\ vm.i \in Nat /\ vm.f \in Nat /\ vm.d \in Nat /\ vm.copies \in Int
  BY <1>1 DEF Filled, Even
<1>4. Remoded(vm, moded(c))
  BY <1>3, BeginMode
<1> HIDE DEF moded
<1>5. /\ DOMAIN vm' = Fields /\ vm'.i = vm.i /\ vm'.f = vm.f /\ vm'.d = vm.d
      /\ vm'.copies = vm.copies /\ vm'.size = vm.size /\ vm'.mem = vm.mem
  BY <1>2, <1>4, BeginAggr DEF Remoded
<1>6. GrainOf(build, vm'.vt) \in {0, 1, 4, 8}
  BY GrainValue
<1> DEFINE g == GrainOf(build, vm'.vt)
<1> HIDE DEF g
<1>7. OnGrain(vm'.size, g)
  BY <1>3, <1>5, <1>6, GrainValue DEF g
<1>8. Even(vm', g)
  BY <1>3, <1>5, <1>7 DEF Even, Wide
<1> QED
  BY <1>1, <1>8 DEF OnWords, g

\* An argument keeps to the words of its convention.
LEMMA OnWordsArgF == ASSUME Course, Filled, Fits, OnWords, KeepsAlignment, ArgF PROVE OnWords'
<1> DEFINE item == call.sig[pos + 1]
           n == Len(sent)
           g == GrainOf(build, vm.vt)
<1>1. phase = "bind" /\ phase' = "bind" /\ build' = build /\ build \in Targets /\ n \in Nat
  BY NextItem
<1>2. /\ DOMAIN vm = Fields /\ vm.vt \in Vtables(build) /\ Even(vm, g) /\ Numbered(vm, n)
  BY <1>1 DEF Filled, Even, OnWords
<1>3. CASE item \in SigModes /\ vm' = handle_mode(vm, item, AtEnd(call, pos + 1))
  <2>1. Remoded(vm, vm') /\ vm'.vt \in Vtables(build)
    BY <1>1, <1>2, <1>3, HandleKeeps
  <2>2. Even(vm', g)
    BY <1>2, <2>1, EvenRemoded
  <2>3. GrainOf(build, vm'.vt) \in {g, 0}
    BY <1>1, <1>2, <2>1, GrainModes DEF KeepsAlignment
  <2>4. Even(vm', GrainOf(build, vm'.vt))
    <3> HIDE DEF g
    <3> QED
      BY <2>2, <2>3, EvenLess
  <2> QED
    BY <1>1, <2>4 DEF OnWords
<1>4. CASE item \in TypesOf(build) /\ vm' = dcArg(vm, item, n + 1)
  <2>1. vm.size + 72 <= VecTotal
    BY <1>1, NextItem, RoomForNext
  <2>2. Grows(vm, vm', 72, g)
    <3> HIDE DEF item, n, g
    <3> QED
      BY <1>1, <1>2, <1>4, <2>1, ArgGrows DEF g
  <2>3. Even(vm', g) /\ vm'.vt = vm.vt
    BY <2>2 DEF Grows
  <2> QED
    BY <1>1, <2>3 DEF OnWords
<1> QED
  BY <1>3, <1>4, NextItem

\* The hidden pointer is in a register.
LEMMA OnWordsCall == ASSUME Course, Filled, OnWords, Call PROVE OnWords'
<1> DEFINE x == dc_callvm_call_x64(vm)
           g == GrainOf(build, vm.vt)
           off == 8 * vm.hid
           p == Val(HiddenArg, "i8")
<1>1. phase = "bind" /\ phase' = "run" /\ build' = build /\ vm' \in {vm, x}
  BY DEF Call, EnterCallee
<1>2. Even(vm, g) /\ Fitting("I", off, p, g)
  BY <1>1 DEF OnWords, Fitting
<1>3. x \in {vm, Put(vm, "I", off, p)}
  BY DEF dc_callvm_call_x64
<1> HIDE DEF off, p, g, x
<1>4. LET y == Put(vm, "I", off, p) IN Even(y, g) /\ y.vt = vm.vt
  BY <1>2, PutKeeps
<1>5. Even(vm', g) /\ vm'.vt = vm.vt
  BY <1>1, <1>2, <1>3, <1>4
<1> QED
  BY <1>1, <1>5 DEF OnWords, g

\* Every step.
LEMMA OnWordsStep == ASSUME Fits, Course, Filled, OnWords, [Next]_vars, KeepsAlignment PROVE OnWords'
<1>1. ASSUME NEW mode, SetMode(mode) PROVE OnWords'
  BY <1>1 DEF SetMode, OnWords
<1>2. ASSUME Take PROVE OnWords'
  BY <1>2 DEF Take, MoreArgs, OnWords
<1>3. ASSUME Return PROVE OnWords'
  BY <1>3 DEF Return, LeaveCallee, OnWords
<1>4. ASSUME UNCHANGED vars PROVE OnWords'
  BY <1>4 DEF vars, OnWords
<1> QED
  BY <1>1, <1>2, <1>3, <1>4, OnWordsReset, OnWordsBegin, OnWordsArgF, OnWordsCall DEF Next

\* Where the words are 8 bytes, or the places aligned, so is every 64 bit value.
LEMMA WordsAligned == ASSUME Course, Filled, OnWords PROVE WideAligned
<1> SUFFICES ASSUME phase # "idle", build \notin FourAligned, vm.vt \notin {"arm", "darwin"}
             PROVE  Wide(vm.mem)
  BY DEF WideAligned, Wide
<1>1. build \in Targets /\ vm.vt \in Vtables(build)
  BY CourseCalls DEF Filled
<1>2. GrainOf(build, vm.vt) # 0
  BY <1>1 DEF GrainOf, Grain, FourAligned, Vtables, Targets
<1> QED
  BY <1>2 DEF OnWords, Even

\* On every target that asks for it, for all calls that fit the vector: a 64 bit
\* argument on the stack lies at a multiple of 8, unless the signature itself
\* turns, between two arguments, from a convention of 4 byte words to another.
THEOREM Alignment ==
    ASSUME Fits
    PROVE  Spec /\ [][KeepsAlignment]_vars => []WideAligned
<1>1. Spec => Init /\ [][Next]_vars
  BY PTL DEF Spec
<1>2. Init => Filled /\ OnWords
  <2>1. Init => OnWords
    BY DEF Init, OnWords
  <2> QED
    BY <2>1, FilledInit
<1>3. Course /\ Filled /\ [Next]_vars => Filled'
  BY FilledStep
<1>4. Course /\ Filled /\ OnWords /\ [Next]_vars /\ [KeepsAlignment]_vars => OnWords'
  <2>1. ASSUME UNCHANGED vars, OnWords PROVE OnWords'
    BY <2>1 DEF vars, OnWords
  <2> QED
    BY <2>1, OnWordsStep
<1>5. Course /\ Filled /\ OnWords => WideAligned
  BY WordsAligned
<1> QED
  BY <1>1, <1>2, <1>3, <1>4, <1>5, CourseInvariant, PTL

---------------------------------------------------------------------------
\* Who pops the arguments: the loop of dcbInitCallback2 on x86 and the caller's vector.

\* The conventions whose callee pops its arguments.
CalleePops == {"std", "fast_ms", "fast_gnu"}

\* The registers that they may use, and what the loop of the callee counts.
Registers(vt) == IF vt = "std" THEN 0 ELSE 2
Counts == [regs : Nat, size : Nat]

\* A round of the loop counts.
LEMMA RoundCounts ==
    ASSUME NEW vt, NEW a \in Counts, NEW t \in Words, NEW r
    PROVE  CleanupRound(vt, a, t, r) \in Counts
<1>1. Bytes[FormOf[t]] \in Nat
  BY DEF Bytes, FormOf, Words
<1> QED
  BY <1>1 DEF CleanupRound, Counts

\* CleanupLoop is the function its recursion describes.
LEMMA LoopUnfolds ==
    ASSUME NEW vt, NEW sig \in Seq(Words), NEW r
    PROVE  LET a == CleanupLoop(vt, sig, r)
           IN  /\ a[0] = [regs |-> 0, size |-> 0]
               /\ \A k \in 0..Len(sig) : a[k] \in Counts
               /\ \A k \in 1..Len(sig) : a[k] = CleanupRound(vt, a[k - 1], sig[k], r)
<1> DEFINE N == Len(sig)
           zero == [regs |-> 0, size |-> 0]
           step == [x \in Counts \X (1..N) |-> CleanupRound(vt, x[1], sig[x[2]], r)]
           Body(g) == [k \in 0..N |-> IF k = 0 THEN zero ELSE CleanupRound(vt, g[k - 1], sig[k], r)]
           a == CHOOSE g : g = Body(g)
<1>1. N \in Nat /\ zero \in Counts /\ \A k \in 1..N : sig[k] \in Words
  BY DEF Counts
<1>2. CleanupLoop(vt, sig, r) = a
  BY Zenon DEF CleanupLoop
<1> HIDE DEF N, zero
<1>3. step \in [Counts \X (1..N) -> Counts]
  BY <1>1, RoundCounts
<1>4. \A v \in Counts, n \in 1..N : step[<<v, n>>] = CleanupRound(vt, v, sig[n], r)
  OBVIOUS
<1> HIDE DEF step
<1>5. PICK g : Follows(g, N, Counts, zero, step)
  BY <1>1, <1>3, RecursiveFunction
<1>6. /\ g \in [0..N -> Counts] /\ g[0] = zero
      /\ \A n \in 1..N : g[n] = CleanupRound(vt, g[n - 1], sig[n], r)
  <2>1. /\ g \in [0..N -> Counts] /\ g[0] = zero /\ \A n \in 1..N : g[n] = step[<<g[n - 1], n>>]
    BY <1>5 DEF Follows
  <2>2. ASSUME NEW n \in 1..N PROVE g[n] = CleanupRound(vt, g[n - 1], sig[n], r)
    <3>1. n - 1 \in 0..N
      BY <1>1
    <3>2. g[n - 1] \in Counts
      BY <2>1, <3>1
    <3> QED
      BY <1>4, <2>1, <3>2
  <2> QED
    BY <2>1, <2>2
<1>7. g = Body(g)
  <2>1. \A n \in 0..N : g[n] = Body(g)[n]
    BY <1>1, <1>6
  <2> QED
    BY <1>6, <2>1
<1>8. a = Body(a)
  BY <1>7
<1> HIDE DEF a
<1>9. a[0] = zero /\ \A n \in 1..N : a[n] = CleanupRound(vt, a[n - 1], sig[n], r)
  BY <1>1, <1>8
<1> DEFINE T == {n \in Nat : n \in 0..N => a[n] \in Counts}
<1>10. 0 \in T /\ T \in SUBSET Nat
  BY <1>1, <1>9
<1>11. \A n \in 0..(N - 1) : n \in T => n + 1 \in T
  <2> SUFFICES ASSUME NEW n \in 0..(N - 1), n \in T PROVE n + 1 \in T
    OBVIOUS
  <2>1. n \in Nat /\ n \in 0..N /\ n + 1 \in 1..N /\ (n + 1) - 1 = n /\ n + 1 \in Nat
    BY <1>1
  <2>2. a[n + 1] = CleanupRound(vt, a[n], sig[n + 1], r) /\ a[n] \in Counts
    BY <1>9, <2>1
  <2> QED
    BY <1>1, <2>1, <2>2, RoundCounts
<1> HIDE DEF T
<1>12. 0..N \subseteq T
  BY <1>1, <1>10, <1>11, SetInduction
<1>13. \A n \in 0..N : a[n] \in Counts
  BY <1>1, <1>12 DEF T
<1> QED
  BY <1>2, <1>9, <1>13 DEF N, zero

\* The caller's counts are those of the callee's loop, behind the words of the
\* registers.
Tallied(m, a) ==
    /\ m.size = gVT_x86[m.vt].registers + a.size
    /\ m.vt # "std" => m.i = a.regs

\* The vtables of x86.
LEMMA VtX86 ==
    /\ gVT_x86["std"].registers = 0 /\ gVT_x86["fast_ms"].registers = 8 /\ gVT_x86["fast_gnu"].registers = 8
    /\ ~gVT_x86["std"].fast /\ gVT_x86["fast_ms"].fast /\ gVT_x86["fast_gnu"].fast
    /\ ~gVT_x86["std"].gnu /\ ~gVT_x86["fast_ms"].gnu /\ gVT_x86["fast_gnu"].gnu
  BY DEF gVT_x86, gVT_x86_win32_std, gVT_x86_win32_fast_ms, gVT_x86_win32_fast_gnu

\* An append that fits, and its counts.
LEMMA AppendCounts ==
    ASSUME NEW m, NEW g, Even(m, g), NEW p, Fitting("V", m.size, p, g), NEW k \in Nat, m.size + k <= VecTotal
    PROVE  LET x == dcVecAppend(m, p, k)
           IN  x.size = m.size + k /\ x.i = m.i /\ x.vt = m.vt
<1> DEFINE y == Put(m, "V", m.size, p)
<1>1. /\ Even(y, g) /\ y.i = m.i /\ y.vt = m.vt /\ y.size = m.size
  BY PutKeeps
<1>2. dcVecAppend(m, p, k) = [y EXCEPT !.size = @ + k]
  BY DEF dcVecAppend
<1> HIDE DEF y
<1> QED
  BY <1>1, <1>2 DEF Even, Fields

\* An argument adds to the vector what it adds to the callee's count.
LEMMA TalliesNext ==
    ASSUME NEW m, Even(m, 0), m.vt \in CalleePops, m.size + 72 <= VecTotal,
           NEW a \in Counts, Tallied(m, a), NEW t \in Words, NEW n
    PROVE  Tallied(dcArg_x86(m, t, n), CleanupRound(m.vt, a, t, Registers(m.vt)))
<1> DEFINE x == dcArg_x86(m, t, n)
           r == gVT_x86[m.vt].registers
           p == Val(n, FormOf[t])
           l == Bytes[FormOf[t]]
<1>1. /\ m.size \in Nat /\ m.i \in Nat /\ a.regs \in Nat /\ a.size \in Nat /\ r \in Nat
      /\ DOMAIN m = Fields /\ VecTotal \in Nat
  BY VtX86, VecAssumption DEF Even, Counts, CalleePops
<1>2. p.len = l /\ l \in {4, 8} /\ l \in Nat /\ (t = "longlong" => l = 8) /\ m.size + l <= VecTotal
      /\ (t = "int" => l = 4)
  BY <1>1, ValLen DEF Words, Bytes, FormOf
<1>3. \A file, off, q : Fitting(file, off, q, 0)
  BY DEF Fitting
<1>4. m.size = r + a.size /\ (m.vt # "std" => m.i = a.regs)
  BY DEF Tallied
<1>5. CASE m.vt # "std" /\ t = "int" /\ m.i < 2
  <2> DEFINE y == Put(m, "V", 4 * m.i, Val(n, "i4"))
  <2>1. x = [y EXCEPT !.i = @ + 1]
    BY <1>5, VtX86 DEF dcArg_x86, dc_callvm_argInt_x86_win32_fast_ms, CalleePops
  <2>2. Even(y, 0) /\ y.i = m.i /\ y.vt = m.vt /\ y.size = m.size
    BY <1>3, PutKeeps
  <2> HIDE DEF y, x
  <2>3. x.i = m.i + 1 /\ x.vt = m.vt /\ x.size = m.size
    BY <2>1, <2>2 DEF Even, Fields
  <2>4. CleanupRound(m.vt, a, t, Registers(m.vt)) = [a EXCEPT !.regs = @ + 1]
    BY <1>4, <1>5 DEF CleanupRound, Registers, CalleePops
  <2>5. Tallied(x, [a EXCEPT !.regs = @ + 1])
    BY <1>1, <1>4, <2>3 DEF Tallied, Counts
  <2> QED
    BY <2>4, <2>5 DEF x
<1>6. CASE m.vt = "fast_gnu" /\ t = "longlong"
  <2> DEFINE c == 2
             y == [m EXCEPT !.i = c]
  <2>1. x = dcVecAppend(y, p, l)
    BY <1>2, <1>6, VtX86 DEF dcArg_x86, dc_callvm_argLongLong_x86_win32_fast_gnu, dc_callvm_arg_x86
  <2>2. Even(y, 0) /\ y.i = 2 /\ y.vt = m.vt /\ y.size = m.size
    <3>1. c \in Nat
      OBVIOUS
    <3> QED
      BY <1>1, <3>1 DEF Even, Fields
  <2> HIDE DEF y, x, l, p
  <2>3. x.size = m.size + l /\ x.i = 2 /\ x.vt = m.vt
    BY <1>2, <1>3, <2>1, <2>2, AppendCounts
  <2>4. CleanupRound(m.vt, a, t, Registers(m.vt)) = [regs |-> 2, size |-> a.size + 8]
    BY <1>6 DEF CleanupRound
  <2>5. Tallied(x, [regs |-> 2, size |-> a.size + 8])
    BY <1>1, <1>2, <1>4, <1>6, <2>3 DEF Tallied
  <2> QED
    BY <2>4, <2>5 DEF x
<1>7. CASE ~(m.vt # "std" /\ t = "int" /\ m.i < 2) /\ ~(m.vt = "fast_gnu" /\ t = "longlong")
  <2>1. x = dcVecAppend(m, p, l)
    <3>1. CASE m.vt # "std" /\ t = "int"
      BY <1>2, <1>7, <3>1, VtX86 DEF dcArg_x86, dc_callvm_argInt_x86_win32_fast_ms,
                                     dc_callvm_arg_x86, CalleePops
    <3>2. CASE ~(m.vt # "std" /\ t = "int")
      BY <1>2, <1>7, <3>2, VtX86 DEF dcArg_x86, dc_callvm_arg_x86, CalleePops
    <3> QED
      BY <3>1, <3>2
  <2> HIDE DEF x, p
  <2>2. x.size = m.size + l /\ x.i = m.i /\ x.vt = m.vt
    BY <1>2, <1>3, <2>1, AppendCounts
  <2>3. CleanupRound(m.vt, a, t, Registers(m.vt)) = [a EXCEPT !.size = @ + l]
    BY <1>4, <1>7 DEF CleanupRound, Registers, CalleePops
  <2> HIDE DEF l
  <2>4. Tallied(x, [a EXCEPT !.size = @ + l])
    BY <1>1, <1>2, <1>4, <2>2 DEF Tallied, Counts
  <2> QED
    BY <2>3, <2>4 DEF x
<1> QED
  BY <1>5, <1>6, <1>7

\* What the caller has bound so far is what the callee's loop counts up to there.
Popping ==
    build = "x86" /\ vm.vt \in CalleePops =>
        LET a == CleanupLoop(vm.vt, call.sig, Registers(vm.vt))
        IN  /\ phase = "ready" => Tallied(vm, [regs |-> 0, size |-> 0])
            /\ phase = "bind" => Tallied(vm, a[pos])
            /\ phase = "run" => Tallied(vm, a[Len(call.sig)])

\* The items of a signature on x86 are arguments.
LEMMA PlainWords ==
    ASSUME PlainOnX86, Course, build = "x86", NEW c \in Calls[build]
    PROVE  c.sig \in Seq(Words) /\ c.ret = "void" /\ c.prefix \notin SigModes
<1>1. /\ build \in Builds /\ c.sig \in Seq(SigModes \cup Words) /\ c.ret = "void"
      /\ c.prefix \notin SigModes /\ \A k \in DOMAIN c.sig : c.sig[k] \notin SigModes
  BY CallsAssumption DEF Course, PlainOnX86, TypesOf, ReturnsOf, Words
<1>2. /\ Len(c.sig) \in Nat /\ c.sig = [k \in 1..Len(c.sig) |-> c.sig[k]]
      /\ \A k \in 1..Len(c.sig) : c.sig[k] \in Words
  BY <1>1
<1> QED
  BY <1>1, <1>2

\* dcReset leaves the registers' words.
LEMMA PoppingReset == ASSUME Course, Filled, Reset PROVE Popping'
<1>1. phase' = "ready" /\ vm' = dcReset(vm) /\ build' = build
  BY DEF Reset
<1> SUFFICES ASSUME build = "x86", vm'.vt \in CalleePops
             PROVE  Tallied(vm', [regs |-> 0, size |-> 0])
  BY <1>1 DEF Popping
<1>2. DOMAIN vm = Fields
  BY DEF Filled, Even
<1>3. vm' = IF gVT_x86[vm.vt].fast THEN [vm EXCEPT !.i = 0, !.size = 8, !.mem = {}]
            ELSE [vm EXCEPT !.i = 0, !.size = 0, !.mem = {}]
  BY <1>1 DEF dcReset, dcReset_x86, dc_callvm_reset_x86_win32_fast, dc_callvm_reset_x86, dcVecResize
<1>4. vm'.vt = vm.vt /\ vm'.i = 0 /\ vm'.size = IF gVT_x86[vm.vt].fast THEN 8 ELSE 0
  BY <1>2, <1>3 DEF Fields
<1> QED
  BY <1>4, VtX86 DEF Tallied, CalleePops

\* A call that selects no mode begins with them.
LEMMA PoppingBegin == ASSUME PlainOnX86, Course, Popping, Begin PROVE Popping'
<1>1. phase = "ready" /\ phase' = "bind" /\ UNCHANGED <<build, pos, sent, rd, got, result>> /\ pos = 0
  BY DEF Begin, Course
<1>2. PICK c \in Calls[build] : /\ call' = c
                                /\ vm' = dcBeginCallAggr(Preselect(handle_mode(vm, c.prefix, AtEnd(c, 0)), c), c.ret)
  BY DEF Begin
<1> SUFFICES ASSUME build = "x86", vm'.vt \in CalleePops
             PROVE  Tallied(vm', CleanupLoop(vm'.vt, c.sig, Registers(vm'.vt))[0])
  BY <1>1, <1>2 DEF Popping
<1>3. c.sig \in Seq(Words) /\ c.ret = "void" /\ c.prefix \notin SigModes
  BY PlainWords
<1>4. vm' = vm
  BY <1>2, <1>3 DEF dcBeginCallAggr, Preselect, handle_mode, select_mode
<1>5. CleanupLoop(vm.vt, c.sig, Registers(vm.vt))[0] = [regs |-> 0, size |-> 0]
  BY <1>3, LoopUnfolds
<1> QED
  BY <1>1, <1>4, <1>5 DEF Popping

\* A round of both loops.
LEMMA PoppingArgF == ASSUME PlainOnX86, Fits, Course, Filled, Popping, ArgF PROVE Popping'
<1> DEFINE item == call.sig[pos + 1]
           n == Len(sent) + 1
           r == Registers(vm.vt)
           a == CleanupLoop(vm.vt, call.sig, r)
<1>1. phase = "bind" /\ phase' = "bind" /\ pos < Len(call.sig) /\ pos' = pos + 1 /\ build' = build
      /\ call' = call /\ pos \in Nat /\ Len(call.sig) \in Nat
  BY NextItem, CourseCalls DEF Course
<1> SUFFICES ASSUME build = "x86", vm'.vt \in CalleePops
             PROVE  Tallied(vm', CleanupLoop(vm'.vt, call.sig, Registers(vm'.vt))[pos + 1])
  BY <1>1 DEF Popping
<1>2. call.sig \in Seq(Words)
  BY <1>1, PlainWords DEF Course
<1>3. item \in Words /\ item \notin SigModes
  BY <1>1, <1>2 DEF Words, SigModes
<1>4. vm' = dcArg(vm, item, n)
  BY <1>3, NextItem
<1>5. vm.size + 72 <= VecTotal /\ Even(vm, 0) /\ vm.vt \in Vtables(build)
  BY <1>1, RoomForNext DEF Filled, Grain, FourAligned
<1>6. vm' = dcArg_x86(vm, item, n)
  BY <1>4, <1>5 DEF dcArg, Vtables
<1>7. vm'.vt = vm.vt
  <2> DEFINE g == 0
  <2>1. Even(vm, g) /\ g = 0
    BY <1>5
  <2> HIDE DEF g, item, n
  <2>2. Grows(vm, vm', 72, g)
    BY <1>3, <1>6, <2>1, X86Grows
  <2> QED
    BY <2>2 DEF Grows
<1>8. /\ pos \in 0..Len(call.sig) /\ pos + 1 \in 1..Len(call.sig) /\ (pos + 1) - 1 = pos
  BY <1>1
<1>9. /\ a[pos] \in Counts /\ a[pos + 1] = CleanupRound(vm.vt, a[pos], item, r)
  <2> HIDE DEF r
  <2>1. /\ \A k \in 0..Len(call.sig) : a[k] \in Counts
        /\ \A k \in 1..Len(call.sig) : a[k] = CleanupRound(vm.vt, a[k - 1], call.sig[k], r)
    BY <1>2, LoopUnfolds
  <2> HIDE DEF a
  <2>2. a[pos] \in Counts /\ a[pos + 1] = CleanupRound(vm.vt, a[(pos + 1) - 1], call.sig[pos + 1], r)
    BY <1>8, <2>1
  <2> QED
    BY <1>8, <2>2
<1>10. Tallied(vm, a[pos])
  BY <1>1, <1>7 DEF Popping
<1> HIDE DEF a, n, item
<1>11. Tallied(vm', CleanupRound(vm.vt, a[pos], item, r))
  BY <1>3, <1>5, <1>6, <1>7, <1>9, <1>10, TalliesNext
<1> QED
  BY <1>7, <1>9, <1>11 DEF a

\* The entry into the callee.
LEMMA PoppingCall == ASSUME Popping, Call PROVE Popping'
<1>1. /\ phase = "bind" /\ pos = Len(call.sig) /\ phase' = "run" /\ UNCHANGED <<build, call>>
      /\ build = "x86" => vm' = vm
  BY DEF Call, EnterCallee
<1> QED
  BY <1>1 DEF Popping

\* Every step.
LEMMA PoppingStep == ASSUME PlainOnX86, Fits, Course, Filled, Popping, [Next]_vars PROVE Popping'
<1>1. ASSUME NEW mode, SetMode(mode) PROVE Popping'
  BY <1>1 DEF SetMode, Popping
<1>2. ASSUME Take PROVE Popping'
  BY <1>2 DEF Take, MoreArgs, Popping
<1>3. ASSUME Return PROVE Popping'
  BY <1>3 DEF Return, LeaveCallee, Popping
<1>4. ASSUME UNCHANGED vars PROVE Popping'
  BY <1>4 DEF vars, Popping
<1> QED
  BY <1>1, <1>2, <1>3, <1>4, PoppingReset, PoppingBegin, PoppingArgF, PoppingCall DEF Next

\* On the other targets no vtable pops.
LEMMA PoppingExact == ASSUME PlainOnX86, Course, Filled, Popping PROVE CleanupExact
<1> SUFFICES ASSUME phase = "run", vm.vt \in CalleePops
             PROVE  dcbInitCallback2_x86(vm.vt, call.sig) = vm.size - gVT_x86[vm.vt].registers
  BY DEF CleanupExact, CalleePops
<1>1. build \in Targets /\ vm.vt \in Vtables(build)
  BY CourseCalls DEF Filled
<1>2. build = "x86"
  BY <1>1 DEF Vtables, CalleePops, Targets
<1> DEFINE a == CleanupLoop(vm.vt, call.sig, Registers(vm.vt))
           N == Len(call.sig)
<1>3. call.sig \in Seq(Words) /\ N \in 0..N
  BY <1>2, PlainWords DEF Course
<1>4. a[N] \in Counts
  BY <1>3, LoopUnfolds
<1>5. vm.size = gVT_x86[vm.vt].registers + a[N].size
  BY <1>2 DEF Popping, Tallied
<1>6. dcbInitCallback2_x86(vm.vt, call.sig) = a[N].size
  <2>1. CASE vm.vt = "std"
    BY <2>1 DEF dcbInitCallback2_x86, dcbCleanupSize_x86_std, Registers
  <2>2. CASE vm.vt = "fast_ms"
    BY <2>2 DEF dcbInitCallback2_x86, dcbCleanupSize_x86_fast_ms, Registers
  <2>3. CASE vm.vt = "fast_gnu"
    BY <2>3 DEF dcbInitCallback2_x86, dcbCleanupSize_x86_fast_gnu, Registers
  <2> QED
    BY <2>1, <2>2, <2>3 DEF CalleePops
<1> HIDE DEF a, N
<1>7. gVT_x86[vm.vt].registers \in Nat /\ a[N].size \in Nat
  BY <1>4, VtX86 DEF CalleePops, Counts
<1> QED
  BY <1>5, <1>6, <1>7

\* On x86, for all calls that fit the vector and select no mode in their signature:
\* stack_cleanup, which dcbInitCallback2 computes from the signature alone, is the
\* number of bytes that the dcArg functions pushed, for stdcall and both fastcalls.
THEOREM Cleanup ==
    ASSUME Fits, PlainOnX86
    PROVE  Spec => []CleanupExact
<1>1. Spec => Init /\ [][Next]_vars
  BY PTL DEF Spec
<1>2. Init => Filled /\ Popping
  <2>1. Init => Popping
    BY DEF Init, Popping
  <2> QED
    BY <2>1, FilledInit
<1>3. Course /\ Filled /\ [Next]_vars => Filled'
  BY FilledStep
<1>4. Course /\ Filled /\ Popping /\ [Next]_vars => Popping'
  BY PoppingStep
<1>5. Course /\ Filled /\ Popping => CleanupExact
  BY PoppingExact
<1> QED
  BY <1>1, <1>2, <1>3, <1>4, <1>5, CourseInvariant, PTL

---------------------------------------------------------------------------
\* Struct results: the vtable and the hidden register are kept by the arguments.

\* VM x has the vtable of m and its register for the hidden pointer.
Keeps(m, x) == DOMAIN x = Fields /\ x.vt = m.vt /\ x.hid = m.hid

\* One change after another.
LEMMA KeepsTwice ==
    ASSUME NEW m, NEW x, NEW y, Keeps(m, x), Keeps(x, y)
    PROVE  Keeps(m, y)
  BY DEF Keeps

\* A store.
LEMMA PutKept ==
    ASSUME NEW m, DOMAIN m = Fields, NEW file, NEW off, NEW p
    PROVE  Keeps(m, Put(m, file, off, p))
<1> DEFINE e == [file |-> file, off |-> off, len |-> p.len,
                 arg |-> p.arg, form |-> p.form, from |-> p.from]
           S == {g \in m.mem : ~Overlap(g, e)} \cup {e}
<1>1. Put(m, file, off, p) = [m EXCEPT !.mem = S]
  BY DEF Put
<1> HIDE DEF S
<1> QED
  BY <1>1 DEF Keeps, Fields

\* dcVecAppend.
LEMMA AppendKept ==
    ASSUME NEW m, DOMAIN m = Fields, NEW p, NEW size
    PROVE  Keeps(m, dcVecAppend(m, p, size))
<1> DEFINE y == Put(m, "V", m.size, p)
           x == [y EXCEPT !.size = @ + size]
<1>1. Keeps(m, y)
  BY PutKept
<1>2. dcVecAppend(m, p, size) \in {m, x}
  BY DEF dcVecAppend
<1> HIDE DEF y
<1>3. Keeps(m, x) /\ Keeps(m, m)
  BY <1>1 DEF Keeps, Fields
<1> QED
  BY <1>2, <1>3

\* The counts.
LEMMA CountKept ==
    ASSUME NEW m, DOMAIN m = Fields, NEW k
    PROVE  /\ Keeps(m, [m EXCEPT !.i = k]) /\ Keeps(m, CountFloat(m, k))
           /\ Keeps(m, [m EXCEPT !.copies = k]) /\ Keeps(m, dcVecSkip(m, k))
  BY DEF Keeps, Fields, CountFloat, dcVecSkip

\* dc_callvm_argLongLong_x64.
LEMMA LongLongKept ==
    ASSUME NEW m, DOMAIN m = Fields, NEW p
    PROVE  Keeps(m, dc_callvm_argLongLong_x64(m, p))
<1> DEFINE i == PastHidden(m, m.i)
           c == i + 1
           k == 8
           off == 8 * i
           y == Put(m, "I", off, p)
           z == [m EXCEPT !.i = i]
<1>1. dc_callvm_argLongLong_x64(m, p) \in {[y EXCEPT !.i = c], dcVecAppend(z, p, k)}
  BY DEF dc_callvm_argLongLong_x64
<1> HIDE DEF c, k, off, i
<1>2. Keeps(m, y) /\ Keeps(m, z)
  BY PutKept, CountKept
<1> HIDE DEF y, z
<1>3. Keeps(y, [y EXCEPT !.i = c]) /\ Keeps(z, dcVecAppend(z, p, k))
  BY <1>2, CountKept, AppendKept DEF Keeps
<1> QED
  BY <1>1, <1>2, <1>3, KeepsTwice

\* dc_callvm_argDouble_x64.
LEMMA DoubleKept ==
    ASSUME NEW m, DOMAIN m = Fields, NEW p
    PROVE  Keeps(m, dc_callvm_argDouble_x64(m, p))
<1> DEFINE f == IF Win(m.vt) THEN PastHidden(m, m.i) ELSE m.f
           c == f + 1
           k == 8
           off == 8 * f
           file == FloatFile(m.vt)
           y == Put(m, file, off, p)
           z == CountFloat(m, f)
<1>1. dc_callvm_argDouble_x64(m, p) \in {CountFloat(y, c), dcVecAppend(z, p, k)}
  BY DEF dc_callvm_argDouble_x64
<1> HIDE DEF c, k, off, f, file
<1>2. Keeps(m, y) /\ Keeps(m, z)
  BY PutKept, CountKept
<1> HIDE DEF y, z
<1>3. Keeps(y, CountFloat(y, c)) /\ Keeps(z, dcVecAppend(z, p, k))
  BY <1>2, CountKept, AppendKept DEF Keeps
<1> QED
  BY <1>1, <1>2, <1>3, KeepsTwice

\* An eightbyte of a struct.
LEMMA ClassKept ==
    ASSUME NEW m, DOMAIN m = Fields, NEW n, NEW t, NEW k
    PROVE  Keeps(m, ArgClass(m, n, t, k))
<1> DEFINE p == EightByte(n, t, k)
<1>1. ArgClass(m, n, t, k) \in {dc_callvm_argLongLong_x64(m, p), dc_callvm_argDouble_x64(m, p)}
  BY DEF ArgClass
<1> HIDE DEF p
<1> QED
  BY <1>1, LongLongKept, DoubleKept

\* Every argument of x64 is bound without a change of the vtable and of the
\* register for the hidden pointer.
LEMMA X64Kept ==
    ASSUME NEW m, DOMAIN m = Fields, NEW t, NEW n
    PROVE  Keeps(m, gVT_x64_arg(m, t, n))
<1> DEFINE whole == Val(n, t)
           ptr == Val(n, "i8")
           form == Val(n, FormOf[t])
           one == ArgClass(m, n, t, 1)
           copy == ((m.copies - Aggr[t].size) \div 16) * 16
           pad == (8 - (whole.len % 8)) % 8
           app == dcVecAppend(m, whole, whole.len)
           cm == [m EXCEPT !.copies = copy]
           put == Put(cm, "V", copy, whole)
<1>1. gVT_x64_arg(m, t, n) \in
        {dc_callvm_argLongLong_x64(m, ptr), dc_callvm_argDouble_x64(m, form), dcVecSkip(app, pad),
         one, ArgClass(one, n, t, 2), dc_callvm_argLongLong_x64(m, whole),
         dc_callvm_argLongLong_x64(put, ptr)}
  <2>1. CASE t \in {"int", "longlong"}
    BY <2>1 DEF gVT_x64_arg
  <2>2. CASE t \in {"float", "double"}
    BY <2>2 DEF gVT_x64_arg
  <2>3. CASE t \notin {"int", "longlong", "float", "double"}
    <3>1. gVT_x64_arg(m, t, n) = dc_callvm_argAggr_x64(m, t, n)
      BY <2>3 DEF gVT_x64_arg
    <3>2. CASE t = "cxx"
      BY <3>1, <3>2 DEF dc_callvm_argAggr_x64
    <3>3. CASE t # "cxx"
      <4>1. dc_callvm_argAggr_x64(m, t, n) =
              CASE ~Win(m.vt) /\ OnStack(m, t) -> dcVecSkip(app, pad)
                [] ~Win(m.vt) /\ ~OnStack(m, t) ->
                     IF Len(Aggr[t].classes) = 1 THEN one ELSE ArgClass(one, n, t, 2)
                [] Win(m.vt) /\ Aggr[t].size = 8 -> dc_callvm_argLongLong_x64(m, whole)
                [] OTHER -> dc_callvm_argLongLong_x64(put, ptr)
        BY <3>3 DEF dc_callvm_argAggr_x64
      <4> HIDE DEF whole, ptr, form, one, pad, app, put
      <4> QED
        BY <3>1, <4>1
    <3> QED
      BY <3>2, <3>3
  <2> QED
    BY <2>1, <2>2, <2>3
<1> DEFINE len == whole.len
           first == 1
           second == 2
<1> HIDE DEF len, first, second, whole, ptr, form, copy, pad
<1>2. Keeps(m, dc_callvm_argLongLong_x64(m, ptr)) /\ Keeps(m, dc_callvm_argDouble_x64(m, form))
      /\ Keeps(m, dc_callvm_argLongLong_x64(m, whole))
  BY LongLongKept, DoubleKept
<1>3. Keeps(m, dcVecSkip(app, pad))
  <2>1. Keeps(m, app)
    <3>1. app = dcVecAppend(m, whole, len)
      BY DEF len
    <3> QED
      BY <3>1, AppendKept
  <2> HIDE DEF app
  <2>2. Keeps(app, dcVecSkip(app, pad))
    BY <2>1, CountKept DEF Keeps
  <2> QED
    BY <2>1, <2>2, KeepsTwice
<1>4. Keeps(m, one) /\ Keeps(m, ArgClass(one, n, t, 2))
  <2>1. Keeps(m, ArgClass(m, n, t, first))
    BY ClassKept
  <2>2. one = ArgClass(m, n, t, first)
    BY DEF first
  <2>3. Keeps(m, one)
    BY <2>1, <2>2
  <2> HIDE DEF one
  <2>4. Keeps(one, ArgClass(one, n, t, second))
    BY <2>3, ClassKept DEF Keeps
  <2>5. Keeps(m, ArgClass(one, n, t, second))
    BY <2>3, <2>4, KeepsTwice
  <2> QED
    BY <2>3, <2>5 DEF second
<1>5. Keeps(m, dc_callvm_argLongLong_x64(put, ptr))
  <2>1. Keeps(m, cm)
    BY CountKept
  <2> HIDE DEF cm
  <2>2. Keeps(cm, put)
    BY <2>1, PutKept DEF Keeps
  <2> HIDE DEF put
  <2>3. Keeps(m, put)
    BY <2>1, <2>2, KeepsTwice
  <2>4. Keeps(put, dc_callvm_argLongLong_x64(put, ptr))
    BY <2>3, LongLongKept DEF Keeps
  <2> QED
    BY <2>3, <2>4, KeepsTwice
<1> HIDE DEF one, app, put
<1> QED
  BY <1>1, <1>2, <1>3, <1>4, <1>5

---------------------------------------------------------------------------
\* The hidden pointer and the result registers on both sides.

\* The register in which both sides expect the hidden pointer.
Hidden(vt, ret) ==
    IF vt = "win64_this" THEN 1 ELSE IF ByHidden(vt, ret) THEN 0 ELSE NoReg

\* The caller reserves it when the call begins.
LEMMA HiddenAtBegin ==
    ASSUME NEW m, DOMAIN m = Fields, m.hid = NoReg, NEW ret, ret # "void"
    PROVE  dcBeginCallAggr(m, ret).hid = Hidden(m.vt, ret)
  BY DEF dcBeginCallAggr, gVT_x64_begin, dc_callvm_begin_aggr_x64, dc_callvm_begin_aggr_x64_win64_this,
         Hidden, Fields

\* The callback looks for it there.
LEMMA HiddenAtCallback ==
    ASSUME NEW vt, NEW ret, ret # "void"
    PROVE  LET r == dcbInitCallback2_x64(vt, ret)
           IN  r.hid = Hidden(vt, ret) /\ r.vt = vt /\ DOMAIN r = CursorFields
  BY DEF dcbInitCallback2_x64, Cursor, Hidden, CursorFields

\* A store is found where it went, and what it does not overlap stays.
LEMMA PutHolds ==
    ASSUME NEW m, DOMAIN m = Fields, NEW file, NEW off \in Nat, NEW p, NEW len, len = p.len, len \in Nat,
           p.from \in Nat, NEW l, l = Loc(file, off, len), NEW n, n = p.arg, NEW form, form = p.form,
           NEW from, from = p.from
    PROVE  Holds(Put(m, file, off, p).mem, l, n, form, from)
<1> DEFINE e == [file |-> file, off |-> off, len |-> p.len,
                 arg |-> p.arg, form |-> p.form, from |-> p.from]
<1>1. e \in Put(m, file, off, p).mem
  BY DEF Put, Fields
<1>2. /\ e.file = l.file /\ e.off <= l.off /\ l.off + l.len <= e.off + e.len
      /\ e.arg = n /\ e.form = form /\ e.from + (l.off - e.off) = from
  BY DEF Loc
<1> HIDE DEF e
<1> QED
  BY <1>1, <1>2 DEF Holds

\* What a store does not overlap.
LEMMA PutLeaves ==
    ASSUME NEW m, DOMAIN m = Fields, NEW file, NEW off, NEW p, NEW l, NEW n, NEW form, NEW from,
           NEW e \in m.mem,
           e.file = l.file /\ e.off <= l.off /\ l.off + l.len <= e.off + e.len,
           e.arg = n /\ e.form = form /\ e.from + (l.off - e.off) = from,
           e.file # file \/ ~(off < e.off + e.len)
    PROVE  Holds(Put(m, file, off, p).mem, l, n, form, from)
<1>1. e \in Put(m, file, off, p).mem
  BY DEF Put, Fields, Overlap
<1> QED
  BY <1>1 DEF Holds

\* The register of an eightbyte: the first of its class, or the second.
LEMMA FirstRegister == ASSUME NEW c PROVE RetOff(c, 1) = 0
<1> DEFINE s == SubSeq(c, 1, 1 - 1)
           class == c[1]
<1>1. DOMAIN s = {}
  OBVIOUS
<1> HIDE DEF s, class
<1>2. {k \in DOMAIN s : s[k] = class} = {}
  BY <1>1
<1>3. Of(s, class) = 0
  BY <1>2, FS_EmptySet DEF Of
<1> QED
  BY <1>3 DEF RetOff, s, class

\* The second eightbyte goes into the second register if the first is of its class.
LEMMA SecondRegister ==
    ASSUME NEW c, DOMAIN c = 1..2
    PROVE  RetOff(c, 2) = IF c[1] = c[2] THEN 8 ELSE 0
<1> DEFINE s == SubSeq(c, 1, 2 - 1)
           class == c[2]
<1>1. DOMAIN s = {1} /\ s[1] = c[1]
  OBVIOUS
<1>2. RetOff(c, 2) = 8 * Of(s, class)
  BY DEF RetOff
<1> HIDE DEF s
<1>3. {k \in DOMAIN s : s[k] = class} = IF c[1] = c[2] THEN {1} ELSE {}
  BY <1>1
<1> HIDE DEF class
<1>4. Of(s, class) = IF c[1] = c[2] THEN 1 ELSE 0
  BY <1>3, FS_EmptySet, FS_Singleton DEF Of
<1> QED
  BY <1>2, <1>4

\* A struct of one eightbyte.
LEMMA OneReturned ==
    ASSUME NEW ret \in {"s8"}, NEW vt
    PROVE  ReturnedAggr(dcbReturnAggr_x64(NewVM, vt, ret).mem, vt, ret)
<1> DEFINE c == Aggr[ret].classes
           p == EightByte(RetArg, ret, 1)
           file == RetFile(c[1])
           off == RetOff(c, 1)
           len == EightByte(0, ret, 1).len
           l == Loc(file, off, len)
           m == NewVM
<1>1. /\ DOMAIN c = {1} /\ Len(c) = 1 /\ off = 0 /\ len = 8 /\ p.len = 8 /\ p.from = 0 /\ p.arg = RetArg
      /\ p.form = ret /\ DOMAIN m = Fields
  <2>1. off = 0
    BY FirstRegister
  <2> QED
    BY <2>1 DEF Aggr, EightByte, Part, NewVM, Fields
<1>2. dcbReturnAggr_x64(m, vt, ret) = Put(m, file, off, p)
  BY <1>1 DEF dcbReturnAggr_x64
<1>3. \A k \in {1} : 8 * (k - 1) = 0
  OBVIOUS
<1>4. ASSUME Holds(Put(m, file, off, p).mem, l, RetArg, ret, 0)
      PROVE  ReturnedAggr(dcbReturnAggr_x64(m, vt, ret).mem, vt, ret)
  BY <1>1, <1>2, <1>3, <1>4 DEF ReturnedAggr
<1> DEFINE from == 0
<1>5. from = 0 /\ off \in Nat /\ len \in Nat /\ len = p.len /\ p.from \in Nat /\ from = p.from
  BY <1>1
<1> HIDE DEF c, file, off, len, p, m, from
<1>6. Holds(Put(m, file, off, p).mem, l, RetArg, ret, from)
  BY <1>1, <1>5, PutHolds
<1> QED
  BY <1>4, <1>5, <1>6 DEF m

\* A struct of two eightbytes.
LEMMA TwoReturned ==
    ASSUME NEW ret \in {"s12", "s16"}, NEW vt, ~Win(vt)
    PROVE  ReturnedAggr(dcbReturnAggr_x64(NewVM, vt, ret).mem, vt, ret)
<1> DEFINE c == Aggr[ret].classes
           p == EightByte(RetArg, ret, 1)
           q == EightByte(RetArg, ret, 2)
           file == RetFile(c[1])
           other == RetFile(c[2])
           off == RetOff(c, 1)
           next == RetOff(c, 2)
           len == EightByte(0, ret, 1).len
           rest == EightByte(0, ret, 2).len
           l == Loc(file, off, len)
           r == Loc(other, next, rest)
           m == NewVM
           one == Put(m, file, off, p)
           two == Put(one, other, next, q)
<1>1. DOMAIN c = 1..2 /\ Len(c) = 2 /\ c[2] = "SSE" /\ c[1] \in {"SSE", "INTEGER"}
  BY DEF Aggr
<1>2. /\ off = 0 /\ next = IF c[1] = c[2] THEN 8 ELSE 0
  <2> HIDE DEF c
  <2> QED
    BY <1>1, FirstRegister, SecondRegister
<1>3. /\ len = 8 /\ p = [arg |-> RetArg, form |-> ret, from |-> 0, len |-> 8]
      /\ rest \in {4, 8} /\ q = [arg |-> RetArg, form |-> ret, from |-> 8, len |-> rest]
      /\ m.mem = {} /\ DOMAIN m = Fields
  BY DEF Aggr, EightByte, Part, NewVM, Fields
<1>4. file # other \/ next = 8
  BY <1>1, <1>2 DEF RetFile
<1>5. dcbReturnAggr_x64(m, vt, ret) = two
  BY <1>1 DEF dcbReturnAggr_x64
<1>6. DOMAIN c = {1, 2} /\ 8 * (1 - 1) = 0 /\ 8 * (2 - 1) = 8
  BY <1>1
<1>7. ASSUME Holds(two.mem, l, RetArg, ret, 0), Holds(two.mem, r, RetArg, ret, 8)
      PROVE  ReturnedAggr(dcbReturnAggr_x64(m, vt, ret).mem, vt, ret)
  <2> HIDE DEF two, m
  <2> QED
    BY <1>5, <1>6, <1>7 DEF ReturnedAggr
<1> HIDE DEF c, file, other, off, next, len, rest, p, q, m
<1> DEFINE e == [file |-> file, off |-> off, len |-> p.len,
                 arg |-> p.arg, form |-> p.form, from |-> p.from]
<1>8. Keeps(m, one) /\ e \in one.mem
  <2>1. Keeps(m, one)
    BY <1>3, PutKept
  <2> QED
    BY <1>3, <2>1 DEF Put, Fields
<1>9. /\ e.file = l.file /\ e.off <= l.off /\ l.off + l.len <= e.off + e.len
      /\ e.arg = RetArg /\ e.form = ret /\ e.from + (l.off - e.off) = 0
      /\ e.file # other \/ ~(next < e.off + e.len)
  BY <1>2, <1>3, <1>4 DEF Loc
<1>10. next \in Nat /\ rest \in Nat /\ rest = q.len /\ q.from = 8 /\ q.arg = RetArg /\ q.form = ret
  BY <1>2, <1>3
<1> DEFINE none == 0
           eight == 8
<1>11. none = 0 /\ eight = 8 /\ eight \in Nat
  OBVIOUS
<1> HIDE DEF one, e, l, none, eight
<1>12. Holds(two.mem, l, RetArg, ret, none)
  BY <1>8, <1>9, <1>11, PutLeaves DEF Keeps
<1>13. Holds(two.mem, r, RetArg, ret, eight)
  BY <1>8, <1>10, <1>11, PutHolds DEF Keeps
<1> QED
  BY <1>7, <1>11, <1>12, <1>13 DEF m

\* A struct that needs no hidden pointer goes through the same registers on both
\* sides.
LEMMA RegistersReturned ==
    ASSUME NEW vt, NEW ret \in DOMAIN Aggr, ~ByHidden(vt, ret)
    PROVE  ReturnedAggr(dcbReturnAggr_x64(NewVM, vt, ret).mem, vt, ret)
<1>1. ret \in {"s8", "s12", "s16", "s24"}
  BY DEF Aggr
<1>2. ret \in {"s8"} \/ (ret \in {"s12", "s16"} /\ ~Win(vt))
  BY <1>1 DEF ByHidden, Aggr
<1> QED
  BY <1>2, OneReturned, TwoReturned

---------------------------------------------------------------------------
\* A struct result in the course of a call.

\* The vtable while the items are bound: that of the whole signature until a mode
\* selects again, then the one that the modes up to here select.  The hidden
\* pointer's register was chosen for the first; the last is the same one.
Moded(vt, a, sig, k, v) == Moding(a, vt, sig) /\ v \in {a[k], a[Len(sig)]}

\* The modes of a target do not change.
LEMMA ModedStays ==
    ASSUME build' = build
    PROVE  \A vt, a, sig, k, v : Moded(vt, a, sig, k, v)' = Moded(vt, a, sig, k, v)
<1>1. \A m, mode : dcMode(m, mode)' = dcMode(m, mode)
  BY DEF dcMode
<1>2. \A vt, mode : VtAfter(vt, mode)' = VtAfter(vt, mode)
  BY <1>1 DEF VtAfter, handle_mode, select_mode
<1> QED
  BY <1>2 DEF Moded, Moding

\* What both sides know of a struct result, from the beginning of a call to its end.
Returning ==
    /\ result # "junk"
    /\ build \in {"x64", "win64"} =>
        /\ DOMAIN vm = Fields /\ vm.vt \in Vtables(build)
        /\ phase = "ready" => vm.hid = NoReg
        /\ phase = "bind" /\ call.ret # "void" =>
            \E vt, a : /\ Moded(vt, a, call.sig, pos, vm.vt)
                       /\ vm.hid = Hidden(a[Len(call.sig)], call.ret)
        /\ phase = "run" /\ call.ret # "void" =>
            /\ DOMAIN rd = CursorFields /\ rd.vt = vm.vt /\ rd.hid = Hidden(vm.vt, call.ret)
            /\ rd.hid # NoReg => Holds(vm.mem, Loc("I", 8 * rd.hid, 8), HiddenArg, "i8", 0)

\* A new call VM.
LEMMA ReturningInit == Init => Returning
<1> SUFFICES ASSUME Init PROVE Returning
  OBVIOUS
<1>1. build \in Targets /\ vm = dcNewCallVM /\ phase = "idle" /\ result = "none"
  BY CallsAssumption DEF Init
<1>2. vm.vt \in Vtables(build) /\ DOMAIN vm = Fields
  BY <1>1, NewFilled DEF Even
<1> QED
  BY <1>1, <1>2 DEF Returning

\* dcMode.
LEMMA ReturningMode == ASSUME Course, Returning, NEW mode, SetMode(mode) PROVE Returning'
<1>1. build \in Targets /\ phase = "idle" /\ vm' = dcMode(vm, mode)
      /\ UNCHANGED <<build, phase, result>>
  BY CourseCalls DEF SetMode
<1>2. build \in {"x64", "win64"} => DOMAIN vm' = Fields /\ vm'.vt \in Vtables(build)
  BY <1>1, ModeKeeps DEF Returning, Remoded
<1> QED
  BY <1>1, <1>2 DEF Returning

\* dcReset reserves no register.
LEMMA ReturningReset == ASSUME Returning, Reset PROVE Returning'
<1>1. phase' = "ready" /\ vm' = dcReset(vm) /\ result' = "none" /\ UNCHANGED build
  BY DEF Reset
<1>2. build \in {"x64", "win64"} => DOMAIN vm' = Fields /\ vm'.vt = vm.vt /\ vm'.hid = NoReg
  BY <1>1 DEF Returning, dcReset, dc_callvm_reset_x64, dcVecResize, Fields
<1> QED
  BY <1>1, <1>2 DEF Returning

\* The register is reserved for the last vtable that the signature selects.
LEMMA ReturningBegin == ASSUME Course, Returning, Begin PROVE Returning'
<1>1. phase = "ready" /\ phase' = "bind" /\ UNCHANGED <<build, pos, sent, rd, got, result>>
  BY DEF Begin
<1> DEFINE moded(c) == Preselect(handle_mode(vm, c.prefix, AtEnd(c, 0)), c)
<1>2. PICK c \in Calls[build] : vm' = dcBeginCallAggr(moded(c), c.ret) /\ call' = c
  BY DEF Begin
<1> DEFINE m == moded(c)
<1> SUFFICES ASSUME build \in {"x64", "win64"}
             PROVE  /\ DOMAIN vm' = Fields /\ vm'.vt \in Vtables(build)
                    /\ c.ret # "void" =>
                        \E vt, a : /\ Moded(vt, a, c.sig, pos, vm'.vt)
                                   /\ vm'.hid = Hidden(a[Len(c.sig)], c.ret)
  BY <1>1, <1>2, ModedStays DEF Returning
<1>3. DOMAIN vm = Fields /\ vm.vt \in Vtables(build) /\ vm.hid = NoReg
  BY <1>1 DEF Returning
<1>4. /\ Remoded(vm, m) /\ m.vt \in Vtables(build)
      /\ c.ret # "void" => \E vt, a : Moding(a, vt, c.sig) /\ m.vt = a[Len(c.sig)]
  BY <1>3, BeginMode
<1> HIDE DEF m, moded
<1>5. DOMAIN m = Fields /\ m.hid = NoReg /\ vm' = dcBeginCallAggr(m, c.ret)
  BY <1>2, <1>3, <1>4 DEF Remoded, m
<1>6. DOMAIN vm' = Fields /\ vm'.vt = m.vt
  BY <1>5, BeginAggr
<1>7. c.ret # "void" => vm'.hid = Hidden(m.vt, c.ret)
  BY <1>5, HiddenAtBegin
<1> QED
  BY <1>4, <1>6, <1>7 DEF Moded

\* A mode that is met again: it selects what it selected before, or nothing.
LEMMA ModedNext ==
    ASSUME build \in Targets, NEW vt, NEW a, NEW sig, Len(sig) \in Nat, NEW k \in Nat, k < Len(sig),
           NEW v, Moded(vt, a, sig, k, v), NEW w, w = VtAfter(v, sig[k + 1])
    PROVE  Moded(vt, a, sig, k + 1, w)
<1> DEFINE n == k + 1
           mode == sig[n]
<1>1. n \in 1..Len(sig) /\ n - 1 = k
  OBVIOUS
<1>2. a[n] = VtAfter(a[k], mode)
  BY <1>1 DEF Moded, Moding
<1> HIDE DEF mode
<1>3. \/ \A x : VtAfter(x, mode) = x
      \/ \A x, y : VtAfter(x, mode) = VtAfter(y, mode)
  BY HandleVt
<1>4. v \in {a[k], a[Len(sig)]} /\ w = VtAfter(v, mode)
  BY DEF Moded, mode
<1>5. w \in {a[n], a[Len(sig)]}
  BY <1>2, <1>3, <1>4
<1> QED
  BY <1>5 DEF Moded

\* An argument selects nothing.
LEMMA SkippedNext ==
    ASSUME NEW vt, NEW a, NEW sig, Len(sig) \in Nat, NEW k \in Nat, k < Len(sig),
           NEW v, Moded(vt, a, sig, k, v), sig[k + 1] \notin SigModes
    PROVE  Moded(vt, a, sig, k + 1, v)
<1> DEFINE n == k + 1
           m == [NewVM EXCEPT !.vt = a[k]]
<1>1. n \in 1..Len(sig) /\ n - 1 = k
  OBVIOUS
<1>2. a[n] = VtAfter(a[k], sig[n])
  BY <1>1 DEF Moded, Moding
<1>3. VtAfter(a[k], sig[n]) = a[k]
  BY DEF VtAfter, handle_mode, select_mode, NewVM
<1> QED
  BY <1>2, <1>3 DEF Moded

\* A round of the caller's loop.
LEMMA ReturningArgF == ASSUME Course, Returning, ArgF PROVE Returning'
<1> DEFINE item == call.sig[pos + 1]
           n == Len(sent) + 1
           N == Len(call.sig)
<1>1. /\ phase = "bind" /\ phase' = "bind" /\ pos < N /\ pos' = pos + 1
      /\ UNCHANGED <<build, call, result>> /\ build \in Targets /\ pos \in Nat /\ N \in Nat
  BY NextItem, CourseCalls DEF Course
<1> SUFFICES ASSUME build \in {"x64", "win64"}
             PROVE  /\ DOMAIN vm' = Fields /\ vm'.vt \in Vtables(build)
                    /\ call.ret # "void" =>
                        \E vt, a : /\ Moded(vt, a, call.sig, pos + 1, vm'.vt)
                                   /\ vm'.hid = Hidden(a[N], call.ret)
  BY <1>1, ModedStays DEF Returning
<1>2. /\ DOMAIN vm = Fields /\ vm.vt \in Vtables(build)
      /\ call.ret # "void" => \E vt, a : /\ Moded(vt, a, call.sig, pos, vm.vt)
                                         /\ vm.hid = Hidden(a[N], call.ret)
  BY <1>1 DEF Returning
<1>3. CASE item \in SigModes /\ vm' = handle_mode(vm, item, AtEnd(call, pos + 1))
  <2>1. Remoded(vm, vm') /\ vm'.vt \in Vtables(build)
    BY <1>1, <1>2, <1>3, HandleKeeps
  <2>2. DOMAIN vm' = Fields /\ vm'.hid = vm.hid
    BY <1>2, <2>1 DEF Remoded
  <2>3. ASSUME NEW vt, NEW a, Moded(vt, a, call.sig, pos, vm.vt), call.ret # "void"
        PROVE  Moded(vt, a, call.sig, pos + 1, vm'.vt)
    <3>1. vm' = handle_mode(vm, item, FALSE)
      BY <1>3, <2>3, CourseCalls DEF AtEnd
    <3>2. vm'.vt = VtAfter(vm.vt, item)
      BY <1>1, <1>2, <3>1, HandleVt
    <3> QED
      BY <1>1, <2>3, <3>2, ModedNext
  <2> HIDE DEF item, N
  <2> QED
    BY <1>2, <2>1, <2>2, <2>3
<1>4. CASE item \notin SigModes /\ vm' = dcArg(vm, item, n)
  <2>1. vm' = gVT_x64_arg(vm, item, n)
    BY <1>2, <1>4 DEF dcArg, Vtables
  <2> HIDE DEF n, item
  <2>2. Keeps(vm, vm')
    BY <1>2, <2>1, X64Kept
  <2>3. DOMAIN vm' = Fields /\ vm'.hid = vm.hid /\ vm'.vt = vm.vt
    BY <2>2 DEF Keeps
  <2>4. ASSUME NEW vt, NEW a, Moded(vt, a, call.sig, pos, vm.vt)
        PROVE  Moded(vt, a, call.sig, pos + 1, vm.vt)
    BY <1>1, <1>4, <2>4, SkippedNext DEF item
  <2> HIDE DEF N
  <2> QED
    BY <1>2, <2>3, <2>4
<1> QED
  BY <1>3, <1>4, NextItem

\* The hidden pointer is stored, and the callback expects it there.
LEMMA ReturningCall == ASSUME Course, Returning, Call PROVE Returning'
<1> DEFINE N == Len(call.sig)
           x == dc_callvm_call_x64(vm)
<1>1. /\ phase = "bind" /\ pos = N /\ phase' = "run" /\ rd' = dcbCursor(vm.vt, call.ret)
      /\ UNCHANGED <<build, call, result>> /\ (build \in {"x64", "win64"} => vm' = x)
  BY DEF Call, EnterCallee
<1> SUFFICES ASSUME build \in {"x64", "win64"}
             PROVE  /\ DOMAIN vm' = Fields /\ vm'.vt \in Vtables(build)
                    /\ call.ret # "void" =>
                        /\ DOMAIN rd' = CursorFields /\ rd'.vt = vm'.vt
                        /\ rd'.hid = Hidden(vm'.vt, call.ret)
                        /\ rd'.hid # NoReg => Holds(vm'.mem, Loc("I", 8 * rd'.hid, 8), HiddenArg, "i8", 0)
  BY <1>1 DEF Returning
<1>2. DOMAIN vm = Fields /\ vm.vt \in Vtables(build)
  BY DEF Returning
<1> DEFINE off == 8 * vm.hid
           p == Val(HiddenArg, "i8")
<1>3. x = IF vm.hid = NoReg THEN vm ELSE Put(vm, "I", off, p)
  BY DEF dc_callvm_call_x64
<1>4. vm' = x
  BY <1>1
<1>5. Keeps(vm, vm')
  <2> HIDE DEF off, p, x
  <2>1. Keeps(vm, vm) /\ Keeps(vm, Put(vm, "I", off, p))
    BY <1>2, PutKept DEF Keeps
  <2> QED
    BY <1>3, <1>4, <2>1
<1>6. DOMAIN vm' = Fields /\ vm'.vt = vm.vt
  BY <1>5 DEF Keeps
<1>7. ASSUME call.ret # "void"
      PROVE  /\ DOMAIN rd' = CursorFields /\ rd'.vt = vm.vt
             /\ rd'.hid = Hidden(vm.vt, call.ret)
             /\ rd'.hid # NoReg => Holds(vm'.mem, Loc("I", 8 * rd'.hid, 8), HiddenArg, "i8", 0)
  <2>1. rd' = dcbInitCallback2_x64(vm.vt, call.ret)
    BY <1>1 DEF dcbCursor
  <2>2. rd'.hid = Hidden(vm.vt, call.ret) /\ rd'.vt = vm.vt /\ DOMAIN rd' = CursorFields
    BY <1>7, <2>1, HiddenAtCallback
  <2>3. vm.hid = Hidden(vm.vt, call.ret)
    BY <1>1, <1>7 DEF Returning, Moded
  <2>4. ASSUME vm.hid # NoReg
        PROVE  Holds(vm'.mem, Loc("I", off, 8), HiddenArg, "i8", 0)
    <3> DEFINE len == 8
               from == 0
               form == "i8"
               l == Loc("I", off, len)
    <3>1. /\ len = 8 /\ len \in Nat /\ from = 0 /\ p.len = len /\ p.from = from /\ p.from \in Nat
          /\ p.arg = HiddenArg /\ p.form = form /\ form = "i8" /\ off \in Nat
      BY <2>3 DEF Val, Part, Bytes, Hidden, NoReg
    <3>2. vm' = Put(vm, "I", off, p) /\ l = Loc("I", off, len)
      BY <1>3, <1>4, <2>4
    <3> HIDE DEF p, off, len, from, form, l, x
    <3>3. Holds(Put(vm, "I", off, p).mem, l, HiddenArg, form, from)
      BY <1>2, <3>1, <3>2, PutHolds
    <3> QED
      BY <3>1, <3>2, <3>3
  <2> QED
    BY <2>2, <2>3, <2>4
<1> QED
  BY <1>2, <1>6, <1>7

\* The callee's accesses keep the register.
LEMMA ReturningTake == ASSUME Course, Returning, Take PROVE Returning'
<1>1. phase = "run" /\ phase' = phase /\ UNCHANGED <<build, vm, call, sent, result>>
  BY DEF Take, MoreArgs
<1>2. DOMAIN rd = CursorFields => DOMAIN rd' = CursorFields /\ rd'.vt = rd.vt /\ rd'.hid = rd.hid
  BY TakeOnward
<1> QED
  BY <1>1, <1>2 DEF Returning

\* The result is found where the callback left it.
LEMMA ReturningReturn == ASSUME Course, Returning, Return PROVE Returning'
<1>1. /\ phase = "run" /\ phase' = "idle" /\ UNCHANGED <<build, vm>>
      /\ result' = IF call.ret = "void" THEN "none"
                   ELSE IF Delivered(call.ret) THEN "value" ELSE "junk"
  BY DEF Return, LeaveCallee
<1>2. ASSUME call.ret # "void" PROVE Delivered(call.ret)
  <2>1. build \in {"x64", "win64"} /\ call.ret \in {"cxx"} \cup DOMAIN Aggr
    BY <1>2, CourseCalls DEF ReturnsOf
  <2>2. /\ rd.vt = vm.vt /\ rd.hid = Hidden(vm.vt, call.ret)
        /\ rd.hid # NoReg => Holds(vm.mem, Loc("I", 8 * rd.hid, 8), HiddenArg, "i8", 0)
    BY <1>1, <1>2, <2>1 DEF Returning
  <2>3. CASE rd.hid # NoReg
    BY <2>2, <2>3 DEF Delivered
  <2>4. CASE rd.hid = NoReg
    <3>1. ~ByHidden(vm.vt, call.ret)
      BY <2>2, <2>4 DEF Hidden, NoReg
    <3>2. call.ret \in DOMAIN Aggr
      BY <2>1, <3>1 DEF ByHidden
    <3> QED
      BY <2>2, <2>4, <3>1, <3>2, RegistersReturned DEF Delivered
  <2> QED
    BY <2>3, <2>4
<1> QED
  BY <1>1, <1>2 DEF Returning

\* Every step.
LEMMA ReturningStep == ASSUME Course, Returning, [Next]_vars PROVE Returning'
<1>1. ASSUME UNCHANGED vars PROVE Returning'
  BY <1>1, ModedStays DEF vars, Returning
<1> QED
  BY <1>1, ReturningMode, ReturningReset, ReturningBegin, ReturningArgF, ReturningCall, ReturningTake,
     ReturningReturn DEF Next

\* For all signatures, the modes in them included, and all sizes of the vector: a
\* struct that a callback returns reaches the caller.  The modes met twice, on the
\* way to the result and with the arguments, end at the vtable that the register of
\* the hidden pointer was chosen for.
THEOREM StructsReturned == Spec => []StructReturned
<1>1. Spec => Init /\ [][Next]_vars
  BY PTL DEF Spec
<1>2. Init => Returning
  BY ReturningInit
<1>3. Course /\ Returning /\ [Next]_vars => Returning'
  BY ReturningStep
<1>4. Returning => StructReturned
  BY DEF Returning, StructReturned
<1> QED
  BY <1>1, <1>2, <1>3, <1>4, CourseInvariant, PTL

---------------------------------------------------------------------------
\* The conventions together.

\* Families of targets.
Arms == {"arm", "arm_eabi", "thumb", "thumb_eabi"}
Arm64s == {"arm64", "arm64_win", "apple"}
Mips64s == {"mips_n32", "mips_n64"}
Ppc32s == {"ppc32_darwin", "ppc32_sysv"}

\* The targets on which caller and callback agree.  Hard float ARM and the MIPS EABI are
\* not among them: what does not fit into the registers is spilled in two ways.
Tracked == {"x86", "x64", "win64", "mips_o32", "sparc", "v9"} \cup Arms \cup Arm64s \cup Mips64s \cup Ppc32s \cup Plain64

\* The arguments bound so far lie apart, below the counts of call VM m.
Placed(b, m) ==
    /\ b # "win64" => m.copies = VecTotal
    /\ b = "x86" => X86Laid(m)
    /\ b \in {"x64", "win64"} => X64Laid(m)
    /\ b \in Arms => Laid(m, 0, 0, 0, 0) /\ m.size % 4 = 0
    /\ b \in Arm64s => Laid(m, 0, 0, 8 * m.i, 8 * m.f)
    /\ b = "mips_o32" => Laid(m, 0, 0, 0, 8 * m.i) /\ m.size % 4 = 0
    /\ b \in Mips64s => Laid(m, 0, 0, 8 * m.i, 8 * m.i)
    /\ b \in Ppc32s => PpcLaid(m)
    /\ b \in {"sparc", "v9"} => Laid(m, 0, 0, 0, 0)
    /\ b \in Plain64 => Laid(m, 0, 0, 8 * m.i, 8 * m.f) /\ m.i <= 8

\* A callback whose cursor is r takes next what is bound next to call VM m.
InStep(b, r, m) ==
    /\ b = "x86" => X86Sync(r, m)
    /\ b \in {"x64", "win64"} => X64Sync(r, m)
    /\ b \in Arms => ArmAt(r, m.size)
    /\ b \in Arm64s \cup {"ppc32_sysv"} => r.i = m.i /\ r.f = m.f /\ r.sp = m.size
    /\ b = "mips_o32" => O32Sync(r, m)
    /\ b \in Mips64s => r.i = m.i /\ r.sp = m.size
    /\ b = "ppc32_darwin" => DarwinSync(r, m)
    /\ b = "sparc" => r.sp = m.size
    /\ b = "v9" => 8 * r.i = m.size
    /\ b \in Plain64 => P64Sync(r, m)

\* What is bound to the other targets than x64 and Apple's.
LEMMA ScalarTypes ==
    ASSUME NEW b, b \notin {"x64", "win64", "apple"}
    PROVE  TypesOf(b) = Scalar
  BY DEF TypesOf, Scalar

\* Under thiscall the first argument is an object.
ThisFirst(b, m, t) == b = "x86" /\ m.vt = "this_ms" /\ m.size = 0 => t = "int"

\* VM x is m with argument n bound, of type t: it disturbs no other, a compiled
\* callee finds it, and so does a callback in step.
BindsWell(b, m, t, n, x) ==
    /\ Placed(b, x) /\ Grown(m, x) /\ Intact(x, n)
    /\ b = "win64" => Used(x) <= Used(m) + 72
    /\ b = "x86" /\ m.vt = "this_ms" => x.size > 0
    /\ m.vt \in CallbackConventions => \A r \in Cursors :
        r.vt = m.vt /\ InStep(b, r, m) /\ ThisFirst(b, m, t) =>
            LET a == dcbArg(r, t)
            IN  /\ Kept(r, a) /\ InStep(b, a.rd, x) /\ Found(x.mem, a, n)
                /\ b = "win64" => CopyIntact(x, r, t, n)

\* What the lemmas about single conventions are given.
Binding(m, t, n) ==
    build \in Tracked /\ m.vt \in Vtables(build) /\ Placed(build, m) /\ Room(m) /\ n \in Nat
    /\ t \in TypesOf(build) /\ (build \in Plain64 => \A e \in m.mem : e.arg < n)

\* x86.
LEMMA X86BindsWell ==
    ASSUME NEW m, NEW t, NEW n, Binding(m, t, n), build = "x86"
    PROVE  BindsWell(build, m, t, n, dcArg(m, t, n))
<1>1. m.vt \in Vtables("x86") /\ X86Laid(m) /\ m.copies = VecTotal /\ Room(m) /\ n \in Nat /\ t \in Scalar
  BY ScalarTypes DEF Binding, Placed
<1> DEFINE x == dcArg(m, t, n)
<1>2. x = dcArg_x86(m, t, n) /\ \A r : dcbArg(r, t) = dcbArg_x86(r, t)
  BY <1>1 DEF dcArg, dcbArg, Vtables
<1> HIDE DEF x
<1>3. /\ X86Laid(x) /\ More(m, x) /\ Intact(x, n) /\ (m.vt = "this_ms" => x.size > 0)
      /\ \A r \in Cursors :
            r.vt = m.vt /\ X86Sync(r, m) /\ (m.vt = "this_ms" /\ m.size = 0 => t = "int") =>
                    LET a == dcbArg_x86(r, t)
                    IN  Kept(r, a) /\ X86Sync(a.rd, x) /\ Found(x.mem, a, n)
  BY <1>1, <1>2, X86Binds
<1>4. x.copies = VecTotal
  BY <1>1, <1>3 DEF More
<1> QED
  BY <1>2, <1>3, <1>4 DEF BindsWell, Grown, More, Placed, InStep, ThisFirst, Arms, Arm64s, Mips64s, Ppc32s, Plain64, x

\* ARM and Thumb.
LEMMA ArmBindsWell ==
    ASSUME NEW m, NEW t, NEW n, Binding(m, t, n), build \in Arms
    PROVE  BindsWell(build, m, t, n, dcArg(m, t, n))
<1>1. /\ m.vt \in {"arm", "arm_eabi"} /\ Laid(m, 0, 0, 0, 0) /\ m.size % 4 = 0 /\ m.copies = VecTotal
      /\ Room(m) /\ n \in Nat /\ t \in Scalar
  BY ScalarTypes DEF Binding, Placed, Tracked, Arms, Arm64s, Vtables, Plain64
<1> DEFINE x == dcArg(m, t, n)
<1>2. x = gVT_arm32_arm_arg(m, t, n) /\ \A r : dcbArg(r, t) = dcbArg_arm32(r, t)
  BY <1>1 DEF dcArg, dcbArg, Arms, gVT_arm32_thumb_arg
<1> HIDE DEF x
<1>3. /\ Laid(x, 0, 0, 0, 0) /\ More(m, x) /\ x.size % 4 = 0 /\ Intact(x, n)
      /\ \A r \in Cursors : r.vt = m.vt /\ ArmAt(r, m.size) =>
                    LET a == dcbArg_arm32(r, t)
                    IN  Kept(r, a) /\ ArmAt(a.rd, x.size) /\ Found(x.mem, a, n)
  BY <1>1, <1>2, ArmBinds
<1>4. x.copies = VecTotal
  BY <1>1, <1>3 DEF More
<1> QED
  BY <1>2, <1>3, <1>4 DEF BindsWell, Grown, More, Placed, InStep, Arms, Arm64s, Mips64s, Ppc32s, Plain64, x

\* AArch64.
LEMMA Arm64BindsWell ==
    ASSUME NEW m, NEW t, NEW n, Binding(m, t, n), build \in {"arm64", "arm64_win"}
    PROVE  BindsWell(build, m, t, n, dcArg(m, t, n))
<1>1. /\ m.vt \in {"arm64", "arm64_win_varargs"} /\ Laid(m, 0, 0, 8 * m.i, 8 * m.f) /\ m.copies = VecTotal
      /\ Room(m) /\ n \in Nat /\ t \in Scalar
  BY ScalarTypes DEF Binding, Placed, Tracked, Arms, Arm64s, Vtables, Plain64
<1> DEFINE x == dcArg(m, t, n)
<1>2. /\ x = IF m.vt = "arm64" THEN vt_arm64_arg(m, t, n) ELSE vt_arm64_win_varargs_arg(m, t, n)
      /\ \A r : dcbArg(r, t) = dcbArg_arm64(r, t)
      /\ m.vt \in CallbackConventions => m.vt = "arm64"
  BY <1>1 DEF dcArg, dcbArg, CallbackConventions
<1> HIDE DEF x
<1>3. Laid(x, 0, 0, 8 * x.i, 8 * x.f) /\ More(m, x) /\ Intact(x, n)
  BY <1>1, <1>2, Arm64Binds, Arm64WinBinds
<1>4. m.vt \in CallbackConventions => \A r \in Cursors : r.i = m.i /\ r.f = m.f /\ r.sp = m.size =>
        LET a == dcbArg_arm64(r, t)
        IN  Kept(r, a) /\ a.rd.i = x.i /\ a.rd.f = x.f /\ a.rd.sp = x.size /\ Found(x.mem, a, n)
  BY <1>1, <1>2, Arm64Binds
<1>5. x.copies = VecTotal
  BY <1>1, <1>3 DEF More
<1> QED
  BY <1>2, <1>3, <1>4, <1>5 DEF BindsWell, Grown, More, Placed, InStep, Arms, Arm64s, Mips64s, Ppc32s, Plain64, x

\* Apple's ARM64.
LEMMA AppleBindsWell ==
    ASSUME NEW m, NEW t, NEW n, Binding(m, t, n), build = "apple"
    PROVE  BindsWell(build, m, t, n, dcArg(m, t, n))
<1>1. /\ m.vt \in {"apple", "apple_variadic"} /\ Laid(m, 0, 0, 8 * m.i, 8 * m.f) /\ m.copies = VecTotal
      /\ Room(m) /\ n \in Nat /\ t \in DOMAIN FormOf
  BY DEF Binding, Placed, TypesOf, Arms, Arm64s, Vtables, Plain64
<1> DEFINE x == dcArg(m, t, n)
<1>2. /\ x = IF m.vt = "apple_variadic" THEN apple_var(m, t, n) ELSE apple_a(m, t, n)
      /\ \A r : dcbArg(r, t) = dcbArg_apple(r, t)
      /\ m.vt \in CallbackConventions => m.vt = "apple"
  BY <1>1 DEF dcArg, dcbArg, CallbackConventions, vt_apple_arg
<1> HIDE DEF x
<1>3. CASE m.vt = "apple_variadic"
  <2> DEFINE ni == 8 * m.i
             nf == 8 * m.f
  <2>1. Laid(m, 0, 0, ni, nf)
    BY <1>1
  <2> HIDE DEF ni, nf
  <2>2. Laid(x, 0, 0, ni, nf) /\ More(m, x) /\ SameCounts(m, x) /\ Intact(x, n)
    BY <1>1, <1>2, <1>3, <2>1, AppleVarBinds
  <2> QED
    BY <1>1, <1>2, <1>3, <2>2 DEF SameCounts, Grown, More, BindsWell, Placed, Arms, Arm64s, Mips64s, Ppc32s, Plain64, x, ni, nf
<1>4. CASE m.vt = "apple"
  <2>1. /\ Laid(x, 0, 0, 8 * x.i, 8 * x.f) /\ More(m, x) /\ Intact(x, n)
        /\ \A r \in Cursors : r.i = m.i /\ r.f = m.f /\ r.sp = m.size =>
             LET a == dcbArg_apple(r, t)
             IN  Kept(r, a) /\ a.rd.i = x.i /\ a.rd.f = x.f /\ a.rd.sp = x.size /\ Found(x.mem, a, n)
    BY <1>1, <1>2, <1>4, AppleBinds
  <2>2. x.copies = VecTotal
    BY <1>1, <2>1 DEF More
  <2> QED
    BY <1>2, <2>1, <2>2 DEF BindsWell, Grown, More, Placed, InStep, Arms, Arm64s, Mips64s, Ppc32s, Plain64, x
<1> QED
  BY <1>1, <1>3, <1>4

\* MIPS o32.
LEMMA O32BindsWell ==
    ASSUME NEW m, NEW t, NEW n, Binding(m, t, n), build = "mips_o32"
    PROVE  BindsWell(build, m, t, n, dcArg(m, t, n))
<1>1. /\ Laid(m, 0, 0, 0, 8 * m.i) /\ m.size % 4 = 0 /\ m.copies = VecTotal
      /\ Room(m) /\ n \in Nat /\ t \in Scalar /\ m.vt = "mips_o32"
  BY ScalarTypes DEF Binding, Placed, Tracked, Arms, Arm64s, Vtables, Plain64
<1> DEFINE x == dcArg(m, t, n)
<1>2. x = gVT_mips_o32_arg(m, t, n) /\ \A r : dcbArg(r, t) = dcbArg_mips_o32(r, t)
  BY <1>1 DEF dcArg, dcbArg
<1> HIDE DEF x
<1>3. /\ Laid(x, 0, 0, 0, 8 * x.i) /\ More(m, x) /\ x.size % 4 = 0 /\ Intact(x, n)
      /\ \A r \in Cursors : O32Sync(r, m) =>
                    LET a == dcbArg_mips_o32(r, t)
                    IN  Kept(r, a) /\ O32Sync(a.rd, x) /\ Found(x.mem, a, n)
  BY <1>1, <1>2, O32Binds
<1>4. x.copies = VecTotal
  BY <1>1, <1>3 DEF More
<1> QED
  BY <1>2, <1>3, <1>4 DEF BindsWell, Grown, More, Placed, InStep, Arms, Arm64s, Mips64s, Ppc32s, Plain64, x

\* MIPS n32 and n64.
LEMMA N64BindsWell ==
    ASSUME NEW m, NEW t, NEW n, Binding(m, t, n), build \in Mips64s
    PROVE  BindsWell(build, m, t, n, dcArg(m, t, n))
<1>1. /\ Laid(m, 0, 0, 8 * m.i, 8 * m.i) /\ m.copies = VecTotal
      /\ Room(m) /\ n \in Nat /\ t \in Scalar /\ m.vt \in Vtables(build) /\ build \in {"mips_n32", "mips_n64"}
  BY ScalarTypes DEF Binding, Placed, Tracked, Arms, Arm64s, Mips64s
<1> DEFINE x == dcArg(m, t, n)
<1>2. /\ x = IF m.vt \in CallbackConventions THEN gVT_mips_n64_arg(m, t, n) ELSE gVT_mips_n64_ellipsis_arg(m, t, n)
      /\ \A r : dcbArg(r, t) = dcbArg_mips64(r, t)
  BY <1>1 DEF dcArg, dcbArg, CallbackConventions, Vtables, dc_callvm_arg_mips_n32, gVT_mips_n32_ellipsis_arg
<1> HIDE DEF x
<1>3. Laid(x, 0, 0, 8 * x.i, 8 * x.i) /\ More(m, x) /\ Intact(x, n)
  BY <1>1, <1>2, N64Binds, N64EllipsisBinds
<1>4. m.vt \in CallbackConventions => \A r \in Cursors : r.i = m.i /\ r.sp = m.size =>
        LET a == dcbArg_mips64(r, t)
        IN  Kept(r, a) /\ a.rd.i = x.i /\ a.rd.sp = x.size /\ Found(x.mem, a, n)
  BY <1>1, <1>2, N64Binds
<1>5. x.copies = VecTotal
  BY <1>1, <1>3 DEF More
<1> QED
  BY <1>1, <1>2, <1>3, <1>4, <1>5 DEF BindsWell, Grown, More, Placed, InStep, Arms, Arm64s, Mips64s, Ppc32s, Plain64, x

\* 32 bit PowerPC.
LEMMA Ppc32BindsWell ==
    ASSUME NEW m, NEW t, NEW n, Binding(m, t, n), build \in Ppc32s
    PROVE  BindsWell(build, m, t, n, dcArg(m, t, n))
<1>1. /\ PpcLaid(m) /\ Laid(m, 0, 0, 4 * m.i, 8 * m.f) /\ m.i <= 8 /\ m.copies = VecTotal
      /\ Room(m) /\ n \in Nat /\ t \in Scalar /\ m.vt \in {"darwin", "sysv", "ppc32_syscall"}
      /\ build \in {"ppc32_darwin", "ppc32_sysv"}
  BY ScalarTypes DEF Binding, Placed, Tracked, Arms, Arm64s, Mips64s, Ppc32s, Plain64, Vtables, PpcLaid
<1> DEFINE x == dcArg(m, t, n)
<1>2. x = IF m.vt = "darwin" THEN gVT_ppc32_darwin_arg(m, t, n) ELSE gVT_ppc32_sysv_arg(m, t, n)
  BY <1>1 DEF dcArg
<1>3. /\ build = "ppc32_darwin" => \A r : dcbArg(r, t) = dcbArg_ppc32_darwin(r, t)
      /\ build = "ppc32_sysv" => \A r : dcbArg(r, t) = dcbArg_ppc32_sysv(r, t)
  BY DEF dcbArg
<1>4. /\ build = "ppc32_darwin" => CallbackConventions = {"darwin"}
      /\ build = "ppc32_sysv" => CallbackConventions = {"sysv"}
  BY DEF CallbackConventions
<1> HIDE DEF x
<1>5. CASE m.vt = "darwin"
  <2>1. /\ PpcLaid(x) /\ More(m, x) /\ Intact(x, n)
        /\ \A r \in Cursors : DarwinSync(r, m) =>
                    LET a == dcbArg_ppc32_darwin(r, t)
                    IN  Kept(r, a) /\ DarwinSync(a.rd, x) /\ Found(x.mem, a, n)
    BY <1>1, <1>2, <1>5, DarwinBinds
  <2> QED
    BY <1>1, <1>3, <1>4, <1>5, <2>1 DEF BindsWell, Grown, More, Placed, InStep, Arms, Arm64s, Mips64s, Ppc32s, Plain64, PpcLaid, x
<1>6. CASE m.vt # "darwin"
  <2>1. /\ Laid(x, 0, 0, 4 * x.i, 8 * x.f) /\ More(m, x) /\ x.i <= 8 /\ Intact(x, n)
        /\ \A r \in Cursors : r.i = m.i /\ r.f = m.f /\ r.sp = m.size =>
             LET a == dcbArg_ppc32_sysv(r, t)
             IN  Kept(r, a) /\ a.rd.i = x.i /\ a.rd.f = x.f /\ a.rd.sp = x.size /\ Found(x.mem, a, n)
    BY <1>1, <1>2, <1>6, Sysv32Binds
  <2>2. x.copies = VecTotal
    BY <1>1, <2>1 DEF More
  <2>3. PpcLaid(x)
    BY <2>1, <2>2 DEF PpcLaid
  <2> QED
    BY <1>1, <1>3, <1>4, <1>6, <2>1, <2>2, <2>3 DEF BindsWell, Grown, More, Placed, InStep, Arms, Arm64s, Mips64s, Ppc32s, Plain64, x
<1> QED
  BY <1>5, <1>6

\* SPARC.
LEMMA SparcBindsWell ==
    ASSUME NEW m, NEW t, NEW n, Binding(m, t, n), build \in {"sparc", "v9"}
    PROVE  BindsWell(build, m, t, n, dcArg(m, t, n))
<1>1. /\ Laid(m, 0, 0, 0, 0) /\ m.copies = VecTotal /\ Room(m) /\ n \in Nat /\ t \in Scalar
      /\ m.vt \in Vtables(build)
  BY ScalarTypes DEF Binding, Placed, Tracked, Arms, Arm64s, Mips64s, Ppc32s, Plain64
<1> DEFINE x == dcArg(m, t, n)
<1>2. CASE build = "sparc"
  <2>1. x = gVT_sparc_arg(m, t, n) /\ \A r : dcbArg(r, t) = dcbArg_sparc32(r, t)
    BY <1>1, <1>2 DEF dcArg, dcbArg, Vtables
  <2> HIDE DEF x
  <2>2. /\ Laid(x, 0, 0, 0, 0) /\ More(m, x) /\ Intact(x, n)
        /\ \A r \in Cursors : r.sp = m.size =>
                    LET a == dcbArg_sparc32(r, t)
                    IN  Kept(r, a) /\ a.rd.sp = x.size /\ Found(x.mem, a, n)
    BY <1>1, <2>1, SparcBinds
  <2>3. x.copies = VecTotal
    BY <1>1, <2>2 DEF More
  <2> QED
    BY <1>2, <2>1, <2>2, <2>3 DEF BindsWell, Grown, More, Placed, InStep, Arms, Arm64s, Mips64s, Ppc32s, Plain64, x
<1>3. CASE build = "v9"
  <2>1. /\ x = IF m.vt \in CallbackConventions THEN gVT_v9_arg(m, t, n) ELSE gVT_v9_ellipsis_arg(m, t, n)
        /\ \A r : dcbArg(r, t) = dcbArg_sparc64(r, t)
    BY <1>1, <1>3 DEF dcArg, dcbArg, Vtables, CallbackConventions
  <2> HIDE DEF x
  <2>2. Laid(x, 0, 0, 0, 0) /\ More(m, x) /\ Intact(x, n)
    BY <1>1, <2>1, V9Binds, V9EllipsisBinds
  <2>3. m.vt \in CallbackConventions => \A r \in Cursors : 8 * r.i = m.size =>
                    LET a == dcbArg_sparc64(r, t)
                    IN  Kept(r, a) /\ 8 * a.rd.i = x.size /\ Found(x.mem, a, n)
    BY <1>1, <2>1, V9Binds
  <2>4. x.copies = VecTotal
    BY <1>1, <2>2 DEF More
  <2> QED
    BY <1>3, <2>1, <2>2, <2>3, <2>4 DEF BindsWell, Grown, More, Placed, InStep, Arms, Arm64s, Mips64s, Ppc32s, Plain64, x
<1> QED
  BY <1>2, <1>3

\* 64 bit PowerPC.
LEMMA P64BindsWell ==
    ASSUME NEW m, NEW t, NEW n, Binding(m, t, n), build \in Plain64
    PROVE  BindsWell(build, m, t, n, dcArg(m, t, n))
<1>1. /\ Laid(m, 0, 0, 8 * m.i, 8 * m.f) /\ m.i <= 8 /\ m.copies = VecTotal /\ Room(m) /\ n \in Nat
      /\ t \in Scalar /\ m.vt \in Vtables(build) /\ (\A e \in m.mem : e.arg < n)
      /\ build \in {"ppc64_v1", "ppc64_v2"}
  BY ScalarTypes DEF Binding, Placed, Plain64
<1>2. P64Laid(m, n)
  <2>1. \A e \in m.mem : e.arg \in Nat
    BY <1>1 DEF Laid, VM, Entry
  <2> QED
    BY <1>1, <2>1 DEF P64Laid
<1> DEFINE x == dcArg(m, t, n)
<1>3. /\ x = IF m.vt = "ppc64_v2_ellipsis" THEN gVT_ppc64_ellipsis_arg(m, t, n) ELSE gVT_ppc64_arg(m, t, n)
      /\ \A r : dcbArg(r, t) = dcbArg_ppc64(r, t)
      /\ m.vt \in CallbackConventions => m.vt # "ppc64_v2_ellipsis"
  BY <1>1 DEF dcArg, dcbArg, CallbackConventions, Vtables
<1> HIDE DEF x
<1>4. P64Laid(x, n) /\ More(m, x) /\ Intact(x, n)
  BY <1>1, <1>2, <1>3, P64Binds, P64EllipsisBinds
<1>5. m.vt \in CallbackConventions => \A r \in Cursors : r.vt = m.vt /\ P64Sync(r, m) =>
        LET a == dcbArg_ppc64(r, t)
        IN  Kept(r, a) /\ P64Sync(a.rd, x) /\ Found(x.mem, a, n)
  BY <1>1, <1>2, <1>3, P64Binds
<1>6. Laid(x, 0, 0, 8 * x.i, 8 * x.f) /\ x.i <= 8 /\ x.copies = VecTotal
  BY <1>4 DEF P64Laid
<1> QED
  BY <1>1, <1>3, <1>4, <1>5, <1>6 DEF BindsWell, Grown, More, Placed, InStep, Arms, Arm64s, Mips64s, Ppc32s, Plain64, x

\* x64.
LEMMA X64BindsWell ==
    ASSUME NEW m, NEW t, NEW n, Binding(m, t, n), build \in {"x64", "win64"}
    PROVE  BindsWell(build, m, t, n, dcArg(m, t, n))
<1>1. /\ X64Laid(m) /\ Room(m) /\ n \in Nat /\ t \in Scalar \cup {"cxx"} \cup DOMAIN Aggr
      /\ m.vt \in Vtables(build) /\ (build = "x64" => m.copies = VecTotal)
  BY DEF Binding, Placed, TypesOf, Scalar
<1>2. build = "x64" => ~Win(m.vt)
  BY <1>1 DEF Vtables, Win
<1> DEFINE x == dcArg(m, t, n)
<1>3. x = gVT_x64_arg(m, t, n) /\ \A r : dcbArg(r, t) = dcbArg_x64(r, t)
  BY <1>1 DEF dcArg, dcbArg, Vtables
<1> HIDE DEF x
<1>4. X64Bound(m, t, n, x)
  BY <1>1, <1>3, X64Binds
<1>5. /\ X64Laid(x) /\ Grown(m, x) /\ Used(x) <= Used(m) + 72 /\ Intact(x, n)
      /\ (~Win(m.vt) => x.copies = m.copies)
      /\ \A r \in Cursors : X64Sync(r, m) =>
            LET a == dcbArg_x64(r, t)
            IN  Kept(r, a) /\ X64Sync(a.rd, x) /\ Found(x.mem, a, n) /\ CopyIntact(x, r, t, n)
  BY <1>4 DEF X64Bound
<1>6. Placed(build, x)
  BY <1>1, <1>2, <1>5 DEF Placed, Arms, Arm64s, Mips64s, Ppc32s, Plain64
<1>7. \A r : X64Sync(r, x) => InStep(build, r, x)
  BY DEF InStep, Arms, Arm64s, Mips64s, Ppc32s, Plain64
<1>8. \A r : InStep(build, r, m) => X64Sync(r, m)
  BY DEF InStep
<1> QED
  BY <1>3, <1>5, <1>6, <1>7, <1>8 DEF BindsWell, x

\* Every target that is tracked.
LEMMA BoundWell ==
    ASSUME NEW m, NEW t, NEW n, Binding(m, t, n)
    PROVE  BindsWell(build, m, t, n, dcArg(m, t, n))
  BY X86BindsWell, ArmBindsWell, Arm64BindsWell, AppleBindsWell, O32BindsWell, N64BindsWell, Ppc32BindsWell,
     SparcBindsWell, P64BindsWell, X64BindsWell DEF Binding, Tracked, Arm64s

---------------------------------------------------------------------------
\* A call VM that was reset, and the callback's first cursor.

\* A call VM that was just reset.
Fresh(b, m) ==
    /\ m.mem = {} /\ m.copies = VecTotal /\ m.size = IF b = "x86" /\ Fast(m) THEN 8 ELSE 0
    /\ b \notin Arms \cup {"sparc", "v9"} => m.i = 0
    /\ b \in Arm64s \cup Ppc32s \cup Plain64 \cup {"x64", "win64"} => m.f = 0
    /\ b \in {"x64", "win64"} => m.hid \in {0, 1, NoReg}

\* The cursor with which a callback begins.
Start(b, m) ==
    [Cursor(m.vt, IF b = "x86" THEN gVT_x86[m.vt].registers ELSE IF b \in Arms THEN 16 ELSE 0)
        EXCEPT !.hid = IF b \in {"x64", "win64"} THEN m.hid ELSE NoReg]

\* The register for the hidden pointer is the one that the callback expects.
HiddenKnown(b, m, ret) ==
    b \in {"x64", "win64"} => m.hid = IF ret = "void" THEN NoReg ELSE Hidden(m.vt, ret)

\* That is the cursor of the thunk.
LEMMA StartCursor ==
    ASSUME build \in Tracked, NEW ret, HiddenKnown(build, vm, ret)
    PROVE  dcbCursor(vm.vt, ret) = Start(build, vm)
<1>1. CASE build \in {"x64", "win64"}
  BY <1>1 DEF HiddenKnown, Hidden, dcbCursor, dcbInitCallback2_x64, Start, Cursor, Arms
<1>2. CASE build \notin {"x64", "win64"}
  <2>1. ASSUME NEW vt, NEW sp PROVE [Cursor(vt, sp) EXCEPT !.hid = NoReg] = Cursor(vt, sp)
    BY DEF Cursor
  <2> QED
    BY <1>2, <2>1 DEF dcbCursor, Start, Tracked, Arms, Arm64s, Mips64s, Ppc32s, Plain64, dc_callvm_call_x86,
       dcbInitCallback2_arm32
<1> QED
  BY <1>1, <1>2

\* Nothing lies in the memory.
LEMMA LaidEmpty ==
    ASSUME NEW m \in VM, m.mem = {}, m.copies = VecTotal, NEW lo \in Nat, NEW base \in Nat,
           lo <= base, base <= m.size, NEW ni \in Nat, NEW nf \in Nat
    PROVE  Laid(m, lo, base, ni, nf)
<1>1. m.copies <= VecTotal
  BY VecAssumption
<1> QED
  BY <1>1 DEF Laid, Disjoint

\* A call VM that was just reset holds nothing.
LEMMA FreshPlaced ==
    ASSUME build \in Tracked, NEW m \in VM, m.vt \in Vtables(build), Fresh(build, m)
    PROVE  Placed(build, m)
<1>1. m.mem = {} /\ m.copies = VecTotal /\ m.i \in Nat /\ m.f \in Nat
  BY DEF Fresh, VM
<1>2. CASE build = "x86"
  <2>1. CASE Fast(m)
    <3> DEFINE eight == 8
               regs == 4 * m.i
    <3>1. eight \in Nat /\ regs \in Nat /\ regs <= eight /\ eight <= m.size /\ 0 \in Nat
      BY <1>1, <1>2, <2>1 DEF Fresh, Arms
    <3> HIDE DEF eight, regs
    <3>2. Laid(m, regs, eight, 0, 0)
      BY <1>1, <3>1, LaidEmpty
    <3> QED
      BY <1>1, <1>2, <2>1, <3>2 DEF Placed, X86Laid, Arms, Arm64s, Mips64s, Ppc32s, Plain64, eight, regs
  <2>2. CASE ~Fast(m)
    <3>1. Laid(m, 0, 0, 0, 0)
      BY <1>1, <1>2, <2>2, LaidEmpty DEF VM
    <3> QED
      BY <1>1, <1>2, <2>2, <3>1 DEF Placed, X86Laid, Arms, Arm64s, Mips64s, Ppc32s, Plain64
  <2> QED
    BY <2>1, <2>2
<1>3. CASE build # "x86"
  <2>1. m.size = 0 /\ m.size % 4 = 0
    BY <1>3 DEF Fresh
  <2>2. ASSUME NEW ni \in Nat, NEW nf \in Nat PROVE Laid(m, 0, 0, ni, nf)
    BY <1>1, <2>1, LaidEmpty DEF VM
  <2>3. 8 * m.i \in Nat /\ 8 * m.f \in Nat /\ 4 * m.i \in Nat /\ 0 \in Nat
    BY <1>1
  <2>4. build \in Ppc32s \cup Plain64 => m.i <= 8
    BY DEF Fresh, Arms, Ppc32s, Plain64
  <2>5. build \in {"x64", "win64"} => X64Laid(m)
    <3>1. build \in {"x64", "win64"} => m.i = 0 /\ m.hid \in {0, 1, NoReg}
      BY DEF Fresh, Arms
    <3> QED
      BY <1>1, <2>2, <2>3, <3>1 DEF X64Laid
  <2> QED
    BY <1>1, <1>3, <2>1, <2>2, <2>3, <2>4, <2>5 DEF Placed, PpcLaid
<1> QED
  BY <1>2, <1>3

\* A callback begins in step with it.
LEMMA StartInStep ==
    ASSUME build \in Tracked, NEW m \in VM, m.vt \in Vtables(build), Fresh(build, m)
    PROVE  /\ Start(build, m) \in Cursors /\ Start(build, m).vt = m.vt
           /\ m.vt \in CallbackConventions => InStep(build, Start(build, m), m)
<1> DEFINE r == Start(build, m)
           hid == IF build \in {"x64", "win64"} THEN m.hid ELSE NoReg
           sp == IF build = "x86" THEN gVT_x86[m.vt].registers ELSE IF build \in Arms THEN 16 ELSE 0
<1>1. build = "x86" => gVT_x86[m.vt].registers = IF m.vt \in {"fast_ms", "fast_gnu"} THEN 8
                                                 ELSE IF m.vt = "this_ms" THEN 4 ELSE 0
  BY X86Vtables
<1>2. sp \in Nat
  BY <1>1
<1>3. r = [vt |-> m.vt, i |-> 0, f |-> 0, d |-> 0, sp |-> sp, hid |-> hid]
  BY DEF Start, Cursor
<1>4. m.vt \in AnyVtable /\ hid \in Nat
  BY DEF VM, NoReg
<1> HIDE DEF r, sp, hid
<1>5. r \in Cursors /\ r.vt = m.vt /\ r.i = 0 /\ r.f = 0 /\ r.sp = sp /\ r.hid = hid
  BY <1>2, <1>3, <1>4 DEF Cursors
<1>6. CASE build = "x86"
  <2>1. X86Sync(r, m)
    BY <1>1, <1>5, <1>6 DEF Fresh, X86Sync, Fast, sp, Arms
  <2> QED
    BY <1>5, <1>6, <2>1 DEF InStep, Arms, Arm64s, Mips64s, Ppc32s, Plain64, r
<1>7. CASE build \in Arms
  <2>1. sp = 16 /\ m.size = 0
    BY <1>7 DEF sp, Fresh, Arms
  <2>2. ArmAt(r, m.size)
    BY <1>5, <2>1 DEF ArmAt
  <2> QED
    BY <1>5, <1>7, <2>2 DEF InStep, Arms, Arm64s, Mips64s, Ppc32s, Plain64, r
<1>8. CASE build \notin {"x86"} \cup Arms
  <2>1. sp = 0 /\ m.size = 0 /\ (build \notin {"sparc", "v9"} => m.i = 0) /\ (build \in Arm64s \cup Ppc32s \cup Plain64 \cup {"x64", "win64"} => m.f = 0)
    BY <1>8 DEF sp, Fresh
  <2>2. Aligned(0) = 0
    BY DEF Aligned
  <2>3. build \in {"x64", "win64"} => X64Sync(r, m)
    BY <1>5, <2>1 DEF X64Sync, hid
  <2> QED
    BY <1>5, <1>8, <2>1, <2>2, <2>3 DEF InStep, Arm64s, Mips64s, Ppc32s, Plain64, O32Sync, DarwinSync, P64Sync, r
<1> QED
  BY <1>6, <1>7, <1>8

\* dcReset.
LEMMA ResetFresh ==
    ASSUME build \in Tracked, NEW m \in VM, m.vt \in Vtables(build), build # "win64" => m.copies = VecTotal
    PROVE  LET x == dcReset(m)
           IN  x \in VM /\ x.vt = m.vt /\ Fresh(build, x) /\ (build \in {"x64", "win64"} => x.hid = NoReg)
<1>1. CASE build = "x86"
  BY <1>1, X86Vtables DEF dcReset, dcReset_x86, dc_callvm_reset_x86_win32_fast, dc_callvm_reset_x86, dcVecResize,
     VM, Fresh, Fast, Arms, Arm64s, Ppc32s, Plain64
<1>2. CASE build \in Arms
  BY <1>2 DEF dcReset, dc_callvm_reset_arm32_arm, dcVecResize, VM, Fresh, Arms, Arm64s, Ppc32s, Plain64
<1>3. CASE build \in Arm64s
  BY <1>3 DEF dcReset, arm64_reset, dcVecResize, VM, Fresh, Arms, Arm64s, Ppc32s, Plain64
<1>4. CASE build = "mips_o32"
  BY <1>4 DEF dcReset, dc_callvm_reset_mips_o32, dcVecResize, VM, Fresh, Arms, Arm64s, Ppc32s, Plain64
<1>5. CASE build \in Mips64s
  BY <1>5 DEF dcReset, dc_callvm_reset_mips_n64, dcVecResize, VM, Fresh, Arms, Arm64s, Mips64s, Ppc32s, Plain64
<1>6. CASE build \in Ppc32s
  BY <1>6 DEF dcReset, dc_callvm_reset_ppc32, dcVecResize, VM, Fresh, Arms, Arm64s, Mips64s, Ppc32s, Plain64
<1>7. CASE build \in {"sparc", "v9"}
  BY <1>7 DEF dcReset, dc_callvm_reset_sparc, dc_callvm_reset_v9, dcVecResize, VM, Fresh, Arms, Arm64s, Ppc32s, Plain64
<1>8. CASE build \in Plain64
  BY <1>8 DEF dcReset, dc_callvm_reset_ppc64, dcVecResize, VM, Fresh, Arms, Arm64s, Ppc32s, Plain64
<1>9. CASE build \in {"x64", "win64"}
  <2> DEFINE x == dcReset(m)
  <2>1. x = [m EXCEPT !.i = 0, !.f = 0, !.hid = NoReg, !.copies = VecTotal, !.size = 0, !.mem = {}]
    BY <1>9 DEF dcReset, dc_callvm_reset_x64, dcVecResize, VM
  <2>a. x = [vt |-> m.vt, err |-> m.err, i |-> 0, f |-> 0, d |-> m.d, hid |-> NoReg, copies |-> VecTotal,
             size |-> 0, mem |-> {}]
    BY <2>1 DEF VM
  <2>b. m.vt \in AnyVtable /\ m.err \in BOOLEAN /\ m.d \in Nat
    BY DEF VM
  <2>2. /\ x \in VM /\ x.vt = m.vt /\ x.i = 0 /\ x.f = 0 /\ x.hid = NoReg /\ x.copies = VecTotal /\ x.size = 0
        /\ x.mem = {}
    BY <2>a, <2>b, VecAssumption DEF VM, NoReg
  <2> HIDE DEF x
  <2>3. Fresh(build, x)
    BY <1>9, <2>2 DEF Fresh
  <2> QED
    BY <2>2, <2>3 DEF x
<1> QED
  BY <1>1, <1>2, <1>3, <1>4, <1>5, <1>6, <1>7, <1>8, <1>9 DEF Tracked

\* Another vtable moves nothing; on x86 only the same one does.
LEMMA RemodedPlaced ==
    ASSUME NEW b, NEW m, NEW x \in VM, Remoded(m, x), b = "x86" => x = m
    PROVE  /\ Placed(b, m) => Placed(b, x)
           /\ Fresh(b, m) => Fresh(b, x)
           /\ \A n : Intact(m, n) => Intact(x, n)
           /\ x.vt = m.vt => \A r : InStep(b, r, m) => InStep(b, r, x)
<1>1. /\ x.i = m.i /\ x.f = m.f /\ x.d = m.d /\ x.hid = m.hid /\ x.copies = m.copies /\ x.size = m.size
      /\ x.mem = m.mem
  BY DEF Remoded
<1>2. \A lo, base, ni, nf : Laid(m, lo, base, ni, nf) => Laid(x, lo, base, ni, nf)
  BY <1>1 DEF Laid
<1>3. Placed(b, m) => Placed(b, x)
  BY <1>1, <1>2 DEF Placed, PpcLaid, X64Laid
<1>4. Fresh(b, m) => Fresh(b, x)
  BY <1>1 DEF Fresh
<1>5. ASSUME NEW n, Intact(m, n) PROVE Intact(x, n)
  BY <1>1, <1>5 DEF Intact
<1>6. ASSUME x.vt = m.vt, NEW r, InStep(b, r, m) PROVE InStep(b, r, x)
  BY <1>1, <1>6 DEF InStep, O32Sync, DarwinSync, P64Sync, X64Sync
<1> QED
  BY <1>3, <1>4, <1>5, <1>6

\* The conventions of callbacks stay the same.
LEMMA ConventionsStay == ASSUME build' = build PROVE CallbackConventions' = CallbackConventions
  BY DEF CallbackConventions

\* From cursor r on a callback finds argument n, of type t, in call VM m.
Reads(m, r, t, n) ==
    /\ Found(m.mem, dcbArg(r, t), n)
    /\ build = "win64" => CopyIntact(m, r, t, n)

\* What a callback finds it finds in more memory.
LEMMA ReadsMore ==
    ASSUME NEW m, NEW x, m.mem \subseteq x.mem, NEW r, NEW t, NEW n, Reads(m, r, t, n)
    PROVE  Reads(x, r, t, n)
<1>1. CopyIntact(m, r, t, n) => CopyIntact(x, r, t, n)
  BY DEF CopyIntact
<1> DEFINE mem == m.mem
           more == x.mem
           a == dcbArg(r, t)
<1>2. Found(mem, a, n) => Found(more, a, n)
  <2> HIDE DEF mem, more, a
  <2>1. mem \subseteq more
    BY DEF mem, more
  <2> QED
    BY <2>1, FoundMore
<1> QED
  BY <1>1, <1>2 DEF Reads

\* The cursors that a callback goes through from c0 on while it takes arguments
\* of the types s, and finds each in call VM m.
Walks(cur, c0, m, s) ==
    /\ cur \in [0..Len(s) -> Cursors] /\ cur[0] = c0
    /\ \A k \in 1..Len(s) : cur[k] = dcbArg(cur[k - 1], s[k]).rd /\ Reads(m, cur[k - 1], s[k], k)

\* Without arguments there is nothing to take.
LEMMA WalksNone ==
    ASSUME NEW c0 \in Cursors, NEW m
    PROVE  Walks([k \in 0..0 |-> c0], c0, m, <<>>)
  BY DEF Walks

\* More in memory does not lead a callback astray.
LEMMA WalksGrown ==
    ASSUME NEW cur, NEW c0, NEW m, NEW x, m.mem \subseteq x.mem, NEW s, Walks(cur, c0, m, s)
    PROVE  Walks(cur, c0, x, s)
  BY ReadsMore DEF Walks

\* Argument Len(s) + 1, of type t, is found in a call VM whose memory holds at least as much.
FindsNext(cur, m, x, s, t) ==
    /\ s \in Seq(ArgTypes) /\ t \in ArgTypes /\ m.mem \subseteq x.mem
    /\ dcbArg(cur[Len(s)], t).rd \in Cursors /\ Reads(x, cur[Len(s)], t, Len(s) + 1)

\* A callback takes one more argument.
LEMMA WalksMore ==
    ASSUME NEW cur, NEW c0, NEW m, NEW x, NEW s, NEW t,
           Walks(cur, c0, m, s), FindsNext(cur, m, x, s, t)
    PROVE  \E q : Walks(q, c0, x, Append(s, t)) /\ q[Len(s) + 1] = dcbArg(cur[Len(s)], t).rd
<1> DEFINE l == Len(s)
           u == Append(s, t)
           c == dcbArg(cur[l], t).rd
           q == [k \in 0..(l + 1) |-> IF k = l + 1 THEN c ELSE cur[k]]
<1>0. m.mem \subseteq x.mem /\ c \in Cursors /\ Reads(x, cur[l], t, l + 1)
  BY DEF FindsNext
<1>1. l \in Nat /\ Len(u) = l + 1 /\ u[l + 1] = t /\ \A k \in 1..l : u[k] = s[k]
  BY DEF FindsNext
<1>2. cur \in [0..l -> Cursors] /\ cur[0] = c0
  BY DEF Walks
<1>3. \A k \in 1..l : cur[k] = dcbArg(cur[k - 1], s[k]).rd /\ Reads(m, cur[k - 1], s[k], k)
  BY DEF Walks
<1>a. c = dcbArg(cur[l], t).rd
  OBVIOUS
<1> HIDE DEF l, u, c
<1>4. q \in [0..(l + 1) -> Cursors] /\ q[0] = c0 /\ q[l + 1] = c /\ \A k \in 0..l : q[k] = cur[k]
  <2>1. ASSUME NEW k \in 0..(l + 1) PROVE (IF k = l + 1 THEN c ELSE cur[k]) \in Cursors
    BY <1>0, <1>1, <1>2
  <2> QED
    BY <1>1, <1>2, <2>1
<1> HIDE DEF q
<1>5. ASSUME NEW k \in 1..(l + 1)
      PROVE  q[k] = dcbArg(q[k - 1], u[k]).rd /\ Reads(x, q[k - 1], u[k], k)
  <2>1. CASE k = l + 1
    <3>1. k - 1 = l /\ q[k - 1] = cur[l] /\ u[k] = t
      BY <1>1, <1>4, <2>1
    <3> QED
      BY <1>0, <1>a, <1>4, <2>1, <3>1
  <2>2. CASE k # l + 1
    <3>1. k \in 1..l /\ k - 1 \in 0..l /\ k \in 0..l
      BY <1>1, <2>2
    <3>2. q[k - 1] = cur[k - 1] /\ q[k] = cur[k] /\ u[k] = s[k]
      BY <1>1, <1>4, <3>1
    <3>3. cur[k] = dcbArg(cur[k - 1], s[k]).rd /\ Reads(m, cur[k - 1], s[k], k)
      BY <1>3, <3>1
    <3> QED
      BY <1>0, <3>2, <3>3, ReadsMore
  <2> QED
    BY <2>1, <2>2
<1>6. Walks(q, c0, x, u) /\ q[l + 1] = c
  BY <1>1, <1>4, <1>5 DEF Walks
<1> QED
  BY <1>6 DEF l, u, c

---------------------------------------------------------------------------
\* The arguments bound so far, in the course of a call.

\* An item of the signature does not select another convention of callbacks while
\* arguments are being bound: the callback would look for those bound before under
\* the new one.
KeepsConvention ==
    phase = "bind" /\ phase' = "bind" /\ vm'.vt # vm.vt => vm'.vt \notin CallbackConventions

\* The call VM holds the arguments bound so far, each whole and apart from the others.
Stored ==
    build \in Tracked =>
        /\ vm \in VM /\ (build # "win64" => vm.copies = VecTotal)
        /\ phase = "ready" => Fresh(build, vm) /\ (build \in {"x64", "win64"} => vm.hid = NoReg)
        /\ phase = "bind" => Placed(build, vm) /\ (build = "win64" => Used(vm) <= 16 + 72 * Len(sent))
        /\ phase = "run" => Disjoint(vm.mem)
        /\ phase \in {"bind", "run"} => \A n \in 1..Len(sent) : Intact(vm, n)

\* No two arguments share a byte.
LEMMA PlacedDisjoint ==
    ASSUME NEW b \in Tracked, NEW m, Placed(b, m)
    PROVE  Disjoint(m.mem)
  BY DEF Placed, Tracked, X86Laid, X64Laid, PpcLaid, Laid, Arms, Arm64s, Mips64s, Ppc32s, Plain64

\* A new call VM.
LEMMA StoredInit == Init => Stored
<1> SUFFICES ASSUME Init, build \in Tracked PROVE vm \in VM /\ (build # "win64" => vm.copies = VecTotal)
  BY DEF Init, Stored
<1> DEFINE m == dcMode(NewVM, "default")
<1>1. build \in Targets /\ vm = dcReset(m)
  BY CallsAssumption DEF Init, dcNewCallVM
<1>2. NewVM \in VM
  BY VecAssumption DEF NewVM, VM, NoReg, AnyVtable
<1>3. m \in VM /\ Remoded(NewVM, m) /\ m.vt \in Vtables(build) /\ NewVM.copies = VecTotal
  BY <1>1, <1>2, ModeInVM, ModeKeeps, VMFields DEF NewVM
<1> HIDE DEF m
<1>4. m.copies = VecTotal
  BY <1>3 DEF Remoded
<1> QED
  BY <1>1, <1>3, <1>4, ResetFresh DEF Fresh

\* dcMode.
LEMMA StoredMode ==
    ASSUME Course, Filled, Stored, NEW mode, SetMode(mode)
    PROVE  Stored'
<1>1. build \in Targets /\ phase = "idle" /\ phase' = "idle" /\ vm' = dcMode(vm, mode) /\ build' = build
  BY CourseCalls DEF SetMode
<1> SUFFICES ASSUME build \in Tracked PROVE vm' \in VM /\ (build # "win64" => vm'.copies = VecTotal)
  BY <1>1 DEF Stored
<1>2. vm \in VM /\ (build # "win64" => vm.copies = VecTotal)
  BY DEF Stored
<1>3. vm' \in VM /\ Remoded(vm, vm')
  BY <1>1, <1>2, ModeInVM, ModeKeeps, VMFields
<1> QED
  BY <1>2, <1>3 DEF Remoded

\* dcReset.
LEMMA StoredReset == ASSUME Filled, Stored, Reset PROVE Stored'
<1>1. phase' = "ready" /\ vm' = dcReset(vm) /\ build' = build
  BY DEF Reset
<1> SUFFICES ASSUME build \in Tracked 
             PROVE  /\ vm' \in VM /\ vm'.copies = VecTotal /\ Fresh(build, vm')
                    /\ build \in {"x64", "win64"} => vm'.hid = NoReg
  BY <1>1 DEF Stored
<1>2. vm \in VM /\ (build # "win64" => vm.copies = VecTotal) /\ vm.vt \in Vtables(build)
  BY DEF Stored, Filled
<1> QED
  BY <1>1, <1>2, ResetFresh DEF Fresh

\* What the beginning of a call does with the VM.
LEMMA TrackedBegin ==
    ASSUME PlainOnX86, Course, Filled, Stored, Begin, build \in Tracked
    PROVE  /\ vm' \in VM /\ vm'.vt \in Vtables(build) /\ Fresh(build, vm')
           /\ HasThis(vm'.vt, call'.sig) /\ HiddenKnown(build, vm', call'.ret)
           /\ phase = "ready" /\ phase' = "bind" /\ UNCHANGED <<build, pos, sent, rd, got>>
           /\ sent = <<>> /\ pos = 0
<1>1. /\ phase = "ready" /\ phase' = "bind" /\ UNCHANGED <<build, pos, sent, rd, got, result>>
      /\ build \in Targets /\ build \in Builds /\ sent = <<>> /\ pos = 0
  BY CourseCalls DEF Begin, Course
<1> DEFINE moded(c) == Preselect(handle_mode(vm, c.prefix, AtEnd(c, 0)), c)
<1>2. PICK c \in Calls[build] :
        call' = c /\ vm' = dcBeginCallAggr(moded(c), c.ret) /\ HasThis(moded(c).vt, c.sig)
  BY DEF Begin
<1>3. /\ vm \in VM /\ vm.vt \in Vtables(build) /\ Fresh(build, vm)
      /\ build \in {"x64", "win64"} => vm.hid = NoReg
  BY <1>1 DEF Stored, Filled
<1> DEFINE m == moded(c)
<1>4. c.ret = "void" \/ build \in {"x64", "win64"}
  BY <1>1, <1>2, CallsAssumption DEF ReturnsOf
<1>5. m \in VM /\ Remoded(vm, m) /\ m.vt \in Vtables(build)
  BY <1>3, BeginMode, VMFields
<1>6. build = "x86" => m = vm
  <2> SUFFICES ASSUME build = "x86" PROVE m = vm
    OBVIOUS
  <2>1. c.prefix \notin SigModes /\ c.ret = "void"
    BY <1>2, <1>4, PlainWords
  <2> QED
    BY <2>1 DEF handle_mode, select_mode, Preselect
<1> HIDE DEF m
<1>7. Fresh(build, m) /\ (build \in {"x64", "win64"} => m.hid = NoReg) /\ DOMAIN m = Fields
  BY <1>3, <1>5, <1>6, RemodedPlaced, VMFields DEF Remoded
<1>8. vm' = dcBeginCallAggr(m, c.ret) /\ HasThis(m.vt, c.sig)
  BY <1>2 DEF m
<1> HIDE DEF moded
<1>9. CASE c.ret = "void"
  <2>1. vm' = m
    BY <1>8, <1>9 DEF dcBeginCallAggr
  <2>2. HiddenKnown(build, vm', c.ret)
    BY <1>7, <1>9, <2>1 DEF HiddenKnown
  <2> QED
    BY <1>1, <1>2, <1>5, <1>7, <1>8, <2>1, <2>2
<1>10. CASE c.ret # "void"
  <2>1. build \in {"x64", "win64"}
    BY <1>4, <1>10
  <2>2. /\ vm'.vt = m.vt /\ vm'.i = m.i /\ vm'.f = m.f /\ vm'.copies = m.copies /\ vm'.size = m.size
        /\ vm'.mem = m.mem
    BY <1>7, <1>8, BeginAggr
  <2>3. vm'.hid = Hidden(m.vt, c.ret) /\ vm'.hid \in {0, 1, NoReg}
    BY <1>7, <1>8, <1>10, <2>1, HiddenAtBegin DEF Hidden
  <2>4. vm' \in VM
    BY <1>5, <1>8 DEF VM, dcBeginCallAggr, gVT_x64_begin, dc_callvm_begin_aggr_x64, dc_callvm_begin_aggr_x64_win64_this
  <2>5. Fresh(build, vm')
    BY <1>7, <2>1, <2>2, <2>3 DEF Fresh
  <2>6. HiddenKnown(build, vm', c.ret)
    BY <1>10, <2>2, <2>3 DEF HiddenKnown
  <2> QED
    BY <1>1, <1>2, <1>5, <1>8, <2>2, <2>4, <2>5, <2>6
<1> QED
  BY <1>9, <1>10

\* The beginning of a call.
LEMMA StoredBegin == ASSUME PlainOnX86, Course, Filled, Stored, Begin PROVE Stored'
<1>1. phase' = "bind" /\ build' = build
  BY DEF Begin
<1> SUFFICES ASSUME build \in Tracked
             PROVE  /\ vm' \in VM /\ vm'.copies = VecTotal /\ Placed(build, vm')
                    /\ build = "win64" => Used(vm') <= 16 + 72 * Len(sent')
                    /\ Len(sent') = 0
  BY <1>1 DEF Stored
<1>2. vm' \in VM /\ vm'.vt \in Vtables(build) /\ Fresh(build, vm') /\ sent' = <<>>
  BY TrackedBegin
<1>3. vm'.copies = VecTotal /\ (build = "win64" => vm'.size = 0) /\ Len(sent') = 0
  BY <1>2 DEF Fresh
<1>4. build = "win64" => Used(vm') <= 16 + 72 * Len(sent')
  BY <1>3, VecAssumption DEF Used
<1> QED
  BY <1>2, <1>3, <1>4, FreshPlaced

\* The vector has room for one more argument and, on win64, for the copy of a struct.
LEMMA RoomForMore ==
    ASSUME Course, Filled, Fits, Stored, build \in Tracked, phase = "bind", pos < Len(call.sig)
    PROVE  Room(vm)
<1>1. CASE build # "win64"
  BY <1>1, RoomForNext DEF Room, Stored
<1>2. CASE build = "win64"
  <2>1. call \in Calls[build] /\ build \in Builds /\ Len(call.sig) \in Nat /\ pos \in Nat
        /\ Len(sent) \in Nat /\ Len(sent) <= pos /\ call.sig \in Seq(SigModes \cup TypesOf(build))
    BY CourseCalls DEF Course
  <2>2. 16 + 72 * Len(call.sig) <= VecTotal /\ Used(vm) <= 16 + 72 * Len(sent)
    BY <1>2, <2>1 DEF Fits, Stored
  <2>3. vm.size \in Nat /\ vm.copies \in Int
    BY DEF Stored, VM
  <2>4. Used(vm) + 72 <= VecTotal
    <3> DEFINE u == Used(vm)
    <3>1. u \in Int
      BY <2>3, VecAssumption DEF Used
    <3> HIDE DEF u
    <3>2. u <= 16 + 72 * Len(sent)
      BY <2>2 DEF u
    <3>3. u + 72 <= VecTotal
      BY <2>1, <2>2, <3>1, <3>2, VecAssumption
    <3> QED
      BY <3>3 DEF u
  <2> QED
    BY <2>3, <2>4, VecAssumption DEF Used, Room
<1> QED
  BY <1>1, <1>2

\* What a round of the caller's loop does with it.
LEMMA TrackedArgF ==
    ASSUME PlainOnX86, Fits, Course, Filled, Stored, ArgF, build \in Tracked
    PROVE  \/ /\ sent' = sent /\ vm' \in VM /\ Remoded(vm, vm') /\ build # "x86"
           \/ LET t == call.sig[pos + 1]
                  n == Len(sent) + 1
              IN  /\ t \in TypesOf(build) /\ sent' = Append(sent, t) /\ vm' = dcArg(vm, t, n) /\ n \in Nat
                  /\ BindsWell(build, vm, t, n, vm')
<1> DEFINE t == call.sig[pos + 1]
           n == Len(sent) + 1
<1>1. /\ phase = "bind" /\ pos < Len(call.sig) /\ build \in Targets /\ n \in Nat
      /\ \/ t \in SigModes /\ sent' = sent /\ vm' = handle_mode(vm, t, AtEnd(call, pos + 1))
         \/ t \in TypesOf(build) /\ sent' = Append(sent, t) /\ vm' = dcArg(vm, t, n)
  BY NextItem
<1>2. vm \in VM /\ vm.vt \in Vtables(build) /\ Placed(build, vm)
  BY <1>1 DEF Stored, Filled
<1>3. CASE t \in SigModes /\ sent' = sent /\ vm' = handle_mode(vm, t, AtEnd(call, pos + 1))
  <2>1. vm' \in VM /\ Remoded(vm, vm')
    BY <1>1, <1>2, <1>3, ModeInVM, HandleKeeps, VMFields
  <2>2. build # "x86"
    <3> SUFFICES ASSUME build = "x86" PROVE FALSE
      OBVIOUS
    <3>1. call \in Calls[build] /\ pos \in Nat
      BY <1>1 DEF Course
    <3>2. call.sig \in Seq(Words)
      BY <3>1, PlainWords
    <3>3. t \in Words
      BY <1>1, <3>1, <3>2
    <3> QED
      BY <1>3, <3>3 DEF Words, SigModes
  <2> QED
    BY <1>3, <2>1, <2>2
<1>4. CASE t \in TypesOf(build) /\ sent' = Append(sent, t) /\ vm' = dcArg(vm, t, n)
  <2>1. Room(vm)
    BY <1>1, RoomForMore
  <2> HIDE DEF t, n
  <2>a. build \in Plain64 => \A e \in vm.mem : e.arg < n
    BY <1>1 DEF Filled, Numbered, n, Course
  <2>2. Binding(vm, t, n)
    BY <1>1, <1>2, <1>4, <2>1, <2>a DEF Binding
  <2>3. BindsWell(build, vm, t, n, vm')
    BY <1>4, <2>2, BoundWell
  <2> QED
    BY <1>1, <1>4, <2>3 DEF t, n
<1> QED
  BY <1>1, <1>3, <1>4

\* A round of the caller's loop.
LEMMA StoredArgF == ASSUME PlainOnX86, Fits, Course, Filled, Stored, ArgF PROVE Stored'
<1>1. phase = "bind" /\ phase' = "bind" /\ build' = build /\ Len(sent) \in Nat /\ sent \in Seq(TypesOf(build))
  BY NextItem DEF Course
<1> SUFFICES ASSUME build \in Tracked
             PROVE  /\ vm' \in VM /\ (build # "win64" => vm'.copies = VecTotal) /\ Placed(build, vm')
                    /\ build = "win64" => Used(vm') <= 16 + 72 * Len(sent')
                    /\ \A n \in 1..Len(sent') : Intact(vm', n)
  BY <1>1 DEF Stored, Intact
<1>2. /\ vm \in VM /\ Placed(build, vm) /\ (\A n \in 1..Len(sent) : Intact(vm, n))
      /\ build = "win64" => Used(vm) <= 16 + 72 * Len(sent)
  BY <1>1 DEF Stored
<1>a. Placed(build, vm') => (build # "win64" => vm'.copies = VecTotal)
  BY DEF Placed
<1>3. CASE sent' = sent /\ vm' \in VM /\ Remoded(vm, vm') /\ build # "x86"
  <2>1. Used(vm') = Used(vm)
    BY <1>3 DEF Remoded, Used
  <2>2. Placed(build, vm') /\ \A n : Intact(vm, n) => Intact(vm', n)
    BY <1>2, <1>3, RemodedPlaced
  <2> QED
    BY <1>a, <1>2, <1>3, <2>1, <2>2
<1>4. CASE \E t : sent' = Append(sent, t) /\ t \in TypesOf(build) /\ BindsWell(build, vm, t, Len(sent) + 1, vm')
  <2>1. PICK t : sent' = Append(sent, t) /\ t \in TypesOf(build) /\ BindsWell(build, vm, t, Len(sent) + 1, vm')
    BY <1>4
  <2>2. /\ Placed(build, vm') /\ Grown(vm, vm') /\ Intact(vm', Len(sent) + 1)
        /\ build = "win64" => Used(vm') <= Used(vm) + 72
    BY <2>1 DEF BindsWell
  <2>a. Len(sent') = Len(sent) + 1
    BY <1>1, <2>1
  <2>3. vm' \in VM /\ vm.mem \subseteq vm'.mem
    BY <2>2 DEF Grown
  <2>4. ASSUME NEW n \in 1..Len(sent') PROVE Intact(vm', n)
    <3>1. CASE n = Len(sent) + 1
      BY <2>2, <3>1
    <3>2. CASE n \in 1..Len(sent)
      BY <1>2, <2>3, <3>2, IntactMore
    <3> QED
      BY <1>1, <2>a, <3>1, <3>2
  <2>5. build = "win64" => Used(vm') <= 16 + 72 * Len(sent')
    <3> DEFINE u == Used(vm)
               w == Used(vm')
    <3>1. u \in Int /\ w \in Int
      BY <1>2, <2>3, VecAssumption DEF Used, VM
    <3>2. build = "win64" => u <= 16 + 72 * Len(sent) /\ w <= u + 72
      BY <1>2, <2>2
    <3> HIDE DEF u, w
    <3>3. build = "win64" => w <= 16 + 72 * Len(sent')
      BY <1>1, <2>a, <3>1, <3>2
    <3> QED
      BY <3>3 DEF w
  <2> QED
    BY <1>a, <2>2, <2>3, <2>4, <2>5
<1> QED
  BY <1>3, <1>4, TrackedArgF

\* The hidden pointer disturbs no argument.
LEMMA HiddenApart ==
    ASSUME NEW m, X64Laid(m)
    PROVE  LET x == dc_callvm_call_x64(m) IN Grown(m, x) /\ x.copies = m.copies /\ Disjoint(x.mem)
<1>1. m \in VM /\ Disjoint(m.mem) /\ m.hid \in {0, 1, NoReg} /\ m.hid \in Nat
  BY DEF X64Laid, Laid, VM
<1> DEFINE x == dc_callvm_call_x64(m)
           off == 8 * m.hid
           p == Val(HiddenArg, "i8")
<1>2. CASE m.hid = NoReg
  BY <1>1, <1>2 DEF dc_callvm_call_x64, Grown
<1>3. CASE m.hid # NoReg
  <2>1. x = Put(m, "I", off, p)
    BY <1>3 DEF dc_callvm_call_x64
  <2>2. p \in PartOf /\ p.len = 8
    BY FormBytes DEF Val, Part, PartOf, Forms, HiddenArg
  <2>3. off \in Nat
    BY <1>1
  <2>4. Clear(m, "I", off, p)
    BY <1>1, <2>2, <2>3 DEF Clear, X64Laid, Files
  <2> HIDE DEF p, off
  <2> DEFINE y == Put(m, "I", off, p)
             g == At("I", off, p)
  <2>5. y = [m EXCEPT !.mem = @ \cup {g}] /\ y \in VM /\ Disjoint(y.mem)
    BY <2>4, PutClear
  <2> HIDE DEF y, g
  <2>6. Grown(m, y) /\ y.copies = m.copies
    BY <1>1, <2>5 DEF VM, Grown
  <2> QED
    BY <2>1, <2>5, <2>6 DEF y
<1> QED
  BY <1>2, <1>3

\* The entry into the callee.
LEMMA TrackedCall ==
    ASSUME Stored, Call, build \in Tracked
    PROVE  /\ phase = "bind" /\ phase' = "run" /\ pos' = 0 /\ rd' = dcbCursor(vm.vt, call.ret)
           /\ UNCHANGED <<build, call, sent, got>>
           /\ Grown(vm, vm') /\ vm'.copies = vm.copies /\ Disjoint(vm'.mem)
<1>1. /\ phase = "bind" /\ phase' = "run" /\ pos' = 0 /\ rd' = dcbCursor(vm.vt, call.ret)
      /\ UNCHANGED <<build, call, sent, got>>
      /\ vm' = IF build \in {"x64", "win64"} THEN dc_callvm_call_x64(vm) ELSE vm
  BY DEF Call, EnterCallee
<1>2. vm \in VM /\ Placed(build, vm)
  BY <1>1 DEF Stored
<1>3. CASE build \in {"x64", "win64"}
  <2>1. X64Laid(vm)
    BY <1>2, <1>3 DEF Placed
  <2> QED
    BY <1>1, <1>3, <2>1, HiddenApart
<1>4. CASE build \notin {"x64", "win64"}
  BY <1>1, <1>2, <1>4, PlacedDisjoint DEF Grown
<1> QED
  BY <1>1, <1>3, <1>4

\* The entry into the callee.
LEMMA StoredCall == ASSUME Stored, Call PROVE Stored'
<1>1. phase = "bind" /\ phase' = "run" /\ build' = build
  BY DEF Call, EnterCallee
<1> SUFFICES ASSUME build \in Tracked
             PROVE  /\ vm' \in VM /\ (build # "win64" => vm'.copies = VecTotal) /\ Disjoint(vm'.mem)
                    /\ \A n \in 1..Len(sent') : Intact(vm', n)
  BY <1>1 DEF Stored, Intact
<1>2. Grown(vm, vm') /\ vm'.copies = vm.copies /\ Disjoint(vm'.mem) /\ sent' = sent
  BY TrackedCall
<1>3. vm' \in VM /\ vm.mem \subseteq vm'.mem
  BY <1>2 DEF Grown
<1>4. (build # "win64" => vm.copies = VecTotal) /\ \A n \in 1..Len(sent) : Intact(vm, n)
  BY <1>1 DEF Stored
<1> QED
  BY <1>2, <1>3, <1>4, IntactMore

\* Every step.
LEMMA StoredStep == ASSUME PlainOnX86, Fits, Course, Filled, Stored, [Next]_vars PROVE Stored'
<1>1. ASSUME Take PROVE Stored'
  BY <1>1 DEF Take, MoreArgs, Stored, Intact
<1>2. ASSUME Return PROVE Stored'
  BY <1>2 DEF Return, LeaveCallee, Stored
<1>3. ASSUME UNCHANGED vars PROVE Stored'
  <2>1. build' = build /\ vm' = vm /\ phase' = phase /\ sent' = sent
    BY <1>3 DEF vars
  <2>2. \A n : Intact(vm, n)' = Intact(vm, n)
    BY <2>1 DEF Intact
  <2> QED
    BY <2>1, <2>2 DEF Stored
<1> QED
  BY <1>1, <1>2, <1>3, StoredMode, StoredReset, StoredBegin, StoredArgF, StoredCall DEF Next

\* What was bound before is still there after every step.
LEMMA StoredStays ==
    ASSUME PlainOnX86, Fits, Course, Filled, Stored, build \in Tracked, [Next]_vars,
           phase = "bind", phase' = "bind"
    PROVE  \A e \in vm.mem : e \in vm'.mem
<1>1. ArgF \/ UNCHANGED vars
  BY DEF Next, SetMode, Reset, Begin, Call, EnterCallee, Take, MoreArgs, Return, LeaveCallee
<1>2. CASE UNCHANGED vars
  BY <1>2 DEF vars
<1>3. CASE ArgF
  BY <1>3, TrackedArgF DEF Remoded, BindsWell, Grown
<1> QED
  BY <1>1, <1>2, <1>3

\* A target does not change.
LEMMA TrackedStays == build \in Tracked /\ [Next]_vars => (build \in Tracked)'
  BY DEF Next, SetMode, Reset, Begin, ArgF, Call, Take, Return, vars

\* For every signature that fits, on every target that is tracked: binding an argument (dcArg)
\* disturbs none that was bound before, neither in registers nor in the vector.  On x86 no
\* item of a signature selects a mode (PlainOnX86).
THEOREM Stays ==
    ASSUME Fits, PlainOnX86
    PROVE  Spec /\ build \in Tracked => BoundStays
<1>1. Spec => Init /\ [][Next]_vars
  BY PTL DEF Spec
<1>2. Init => Filled /\ Stored
  BY FilledInit, StoredInit
<1>3. Course /\ Filled /\ [Next]_vars => Filled'
  BY FilledStep
<1>4. Course /\ Filled /\ Stored /\ [Next]_vars => Stored'
  BY StoredStep
<1>5. Course /\ Filled /\ Stored /\ build \in Tracked /\ [Next]_vars
        => [phase = "bind" /\ phase' = "bind" => \A e \in vm.mem : e \in vm'.mem]_vars
  BY StoredStays
<1> QED
  BY <1>1, <1>2, <1>3, <1>4, <1>5, CourseInvariant, TrackedStays, PTL DEF BoundStays

---------------------------------------------------------------------------
\* The arguments taken so far.

\* A callback finds the arguments of types s in call VM m, one cursor after the
\* other: it takes next what is bound next, or its cursor r is the one before
\* argument p + 1.
Trail(b, m, s, ph, p, r) ==
    \E cur : /\ Walks(cur, Start(b, m), m, s) /\ cur[Len(s)].vt = m.vt
             /\ ph = "bind" => InStep(b, cur[Len(s)], m)
             /\ ph = "run" => r = cur[p]

\* Under Microsoft's thiscall, on x86, the object goes first.
ObjectFirst(b, m, c, p) ==
    b = "x86" /\ m.vt = "this_ms" => c.sig # <<>> /\ c.sig[1] = "int" /\ (p > 0 => m.size > 0)

\* What the callback has still to take lies where it will look for it.
Arriving ==
    build \in Tracked =>
        /\ phase = "bind" => ObjectFirst(build, vm, call, pos)
        /\ phase \in {"bind", "run"} /\ vm.vt \in CallbackConventions => Trail(build, vm, sent, phase, pos, rd)
        /\ phase = "bind" /\ vm.vt \in CallbackConventions => HiddenKnown(build, vm, call.ret)

\* This is the same before and after a step.
LEMMA TrailStays ==
    ASSUME build' = build
    PROVE  \A b, m, s, ph, p, r : Trail(b, m, s, ph, p, r)' = Trail(b, m, s, ph, p, r)
<1>1. \A r, t : dcbArg(r, t)' = dcbArg(r, t)
  BY DEF dcbArg
<1>2. \A m, r, t, n : Reads(m, r, t, n)' = Reads(m, r, t, n)
  BY <1>1 DEF Reads
<1>3. \A cur, c0, m, s : Walks(cur, c0, m, s)' = Walks(cur, c0, m, s)
  BY <1>1, <1>2 DEF Walks
<1> QED
  BY <1>3 DEF Trail

\* The beginning of a call.
LEMMA ArrivingBegin == ASSUME PlainOnX86, Course, Filled, Stored, Begin PROVE Arriving'
<1>1. phase' = "bind" /\ build' = build
  BY DEF Begin
<1> SUFFICES ASSUME build \in Tracked
             PROVE  /\ ObjectFirst(build, vm', call', pos')
                    /\ vm'.vt \in CallbackConventions
                        => Trail(build, vm', sent', "bind", pos', rd') /\ HiddenKnown(build, vm', call'.ret)
  BY <1>1, TrailStays, ConventionsStay DEF Arriving
<1>2. /\ vm' \in VM /\ vm'.vt \in Vtables(build) /\ Fresh(build, vm')
      /\ HasThis(vm'.vt, call'.sig) /\ sent' = <<>> /\ pos' = 0 /\ HiddenKnown(build, vm', call'.ret)
  BY TrackedBegin
<1>3. ObjectFirst(build, vm', call', pos')
  BY <1>2 DEF HasThis, ObjectFirst
<1>4. ASSUME vm'.vt \in CallbackConventions PROVE Trail(build, vm', <<>>, "bind", pos', rd')
  <2> DEFINE m == vm'
             c0 == Start(build, m)
             cur == [k \in 0..0 |-> c0]
  <2>1. c0 \in Cursors /\ c0.vt = m.vt /\ InStep(build, c0, m)
    BY <1>2, <1>4, StartInStep
  <2> HIDE DEF c0, m
  <2>2. Walks(cur, c0, m, <<>>)
    BY <2>1, WalksNone
  <2>3. cur[0] = c0 /\ Len(<<>>) = 0
    OBVIOUS
  <2> HIDE DEF cur
  <2> QED
    BY <2>1, <2>2, <2>3 DEF Trail, c0, m
<1> QED
  BY <1>2, <1>3, <1>4

\* One more argument.
LEMMA TrailNext ==
    ASSUME NEW b, b = build, NEW m, NEW x, NEW t, NEW s \in Seq(TypesOf(build)), t \in TypesOf(build),
           b \in Tracked, BindsWell(b, m, t, Len(s) + 1, x), m.vt \in CallbackConventions, ThisFirst(b, m, t),
           NEW p, NEW r, Trail(b, m, s, "bind", p, r), NEW q
    PROVE  Trail(b, x, Append(s, t), "bind", q, r)
<1>1. PICK cur : /\ Walks(cur, Start(b, m), m, s) /\ cur[Len(s)].vt = m.vt
                 /\ InStep(b, cur[Len(s)], m)
  BY DEF Trail
<1> DEFINE c == cur[Len(s)]
           n == Len(s) + 1
           a == dcbArg(c, t)
<1>2. c \in Cursors /\ Len(s) \in Nat
  BY <1>1 DEF Walks
<1>3. /\ Kept(c, a) /\ InStep(b, a.rd, x) /\ Found(x.mem, a, n) /\ (b = "win64" => CopyIntact(x, c, t, n))
      /\ m.mem \subseteq x.mem /\ x.vt = m.vt /\ x.hid = m.hid
  BY <1>1, <1>2 DEF BindsWell, Grown
<1>4. a.rd \in Cursors /\ a.rd.vt = m.vt
  BY <1>1, <1>3 DEF Kept
<1>5. Start(b, x) = Start(b, m)
  BY <1>3 DEF Start
<1>6. \E w : Walks(w, Start(b, m), x, Append(s, t)) /\ w[Len(s) + 1] = a.rd
  <2> DEFINE c0 == Start(b, m)
  <2>1. s \in Seq(ArgTypes) /\ t \in ArgTypes
    <3>1. TypesOf(build) \subseteq ArgTypes
      BY DEF TypesOf, ArgTypes, FormOf
    <3> QED
      BY <3>1, SeqWider
  <2>2. Reads(x, c, t, n)
    BY <1>3 DEF Reads
  <2>3. FindsNext(cur, m, x, s, t)
    BY <1>3, <1>4, <2>1, <2>2 DEF FindsNext
  <2>4. Walks(cur, c0, m, s)
    BY <1>1
  <2> HIDE DEF c0
  <2>5. \E w : Walks(w, c0, x, Append(s, t)) /\ w[Len(s) + 1] = dcbArg(cur[Len(s)], t).rd
    BY <2>3, <2>4, WalksMore
  <2> QED
    BY <2>5 DEF c0
<1>7. Len(Append(s, t)) = Len(s) + 1
  OBVIOUS
<1> HIDE DEF a, c, n
<1> QED
  BY <1>3, <1>4, <1>5, <1>6, <1>7 DEF Trail

\* A round of the caller's loop.
LEMMA ArrivingArgF ==
    ASSUME PlainOnX86, Fits, Course, Filled, Stored, Arriving, KeepsConvention, ArgF
    PROVE  Arriving'
<1>1. /\ phase = "bind" /\ phase' = "bind" /\ build' = build /\ call' = call /\ pos' = pos + 1
      /\ pos \in Nat /\ Len(sent) \in Nat /\ sent \in Seq(TypesOf(build)) /\ rd' = rd
      /\ vm.vt \in Vtables(build)
  BY NextItem DEF Course, Filled
<1> SUFFICES ASSUME build \in Tracked
             PROVE  /\ ObjectFirst(build, vm', call', pos')
                    /\ vm'.vt \in CallbackConventions
                        => Trail(build, vm', sent', "bind", pos', rd') /\ HiddenKnown(build, vm', call'.ret)
  BY <1>1, TrailStays, ConventionsStay DEF Arriving
<1>2. /\ ObjectFirst(build, vm, call, pos)
      /\ vm.vt \in CallbackConventions => Trail(build, vm, sent, "bind", pos, rd) /\ HiddenKnown(build, vm, call.ret)
  BY <1>1 DEF Arriving
<1>3. CASE sent' = sent /\ vm' \in VM /\ Remoded(vm, vm') /\ build # "x86"
  <2>1. ObjectFirst(build, vm', call', pos')
    BY <1>3 DEF ObjectFirst
  <2>2. ASSUME vm'.vt \in CallbackConventions
        PROVE  Trail(build, vm', sent', "bind", pos', rd') /\ HiddenKnown(build, vm', call'.ret)
    <3>1. vm'.vt = vm.vt
      BY <1>1, <2>2 DEF KeepsConvention
    <3>2. vm'.mem = vm.mem /\ vm'.hid = vm.hid /\ \A r : InStep(build, r, vm) => InStep(build, r, vm')
      BY <1>3, <3>1, RemodedPlaced DEF Remoded
    <3>3. HiddenKnown(build, vm', call'.ret)
      BY <1>1, <1>2, <2>2, <3>1, <3>2 DEF HiddenKnown
    <3>4. PICK cur : /\ Walks(cur, Start(build, vm), vm, sent) /\ cur[Len(sent)].vt = vm.vt
                     /\ InStep(build, cur[Len(sent)], vm)
      BY <1>2, <2>2, <3>1 DEF Trail
    <3>5. Start(build, vm') = Start(build, vm)
      BY <3>1, <3>2 DEF Start
    <3>6. Walks(cur, Start(build, vm'), vm', sent)
      <4> DEFINE c0 == Start(build, vm)
                 m == vm
                 x == vm'
                 s == sent
      <4>1. m.mem \subseteq x.mem /\ Walks(cur, c0, m, s)
        BY <3>2, <3>4
      <4> HIDE DEF c0, m, x, s
      <4>2. Walks(cur, c0, x, s)
        BY <4>1, WalksGrown
      <4> QED
        BY <3>5, <4>2 DEF c0, x, s
    <3> QED
      BY <1>3, <3>1, <3>2, <3>3, <3>4, <3>6 DEF Trail
  <2> QED
    BY <2>1, <2>2
<1>4. CASE \E t : /\ t = call.sig[pos + 1] /\ sent' = Append(sent, t) /\ t \in TypesOf(build)
                  /\ BindsWell(build, vm, t, Len(sent) + 1, vm')
  <2>1. PICK t : /\ t = call.sig[pos + 1] /\ sent' = Append(sent, t) /\ t \in TypesOf(build)
                 /\ BindsWell(build, vm, t, Len(sent) + 1, vm')
    BY <1>4
  <2>2. vm'.vt = vm.vt /\ vm'.hid = vm.hid /\ (build = "x86" /\ vm.vt = "this_ms" => vm'.size > 0)
    BY <2>1 DEF BindsWell, Grown
  <2>3. ObjectFirst(build, vm', call', pos')
    BY <1>1, <1>2, <2>2 DEF ObjectFirst
  <2>4. ThisFirst(build, vm, t)
    BY <1>1, <1>2, <2>1 DEF ThisFirst, ObjectFirst
  <2>5. ASSUME vm'.vt \in CallbackConventions PROVE Trail(build, vm', sent', "bind", pos', rd')
    <3> DEFINE m == vm
               x == vm'
               s == sent
               p == pos
               q == pos'
               r == rd
    <3>1. /\ BindsWell(build, m, t, Len(s) + 1, x) /\ m.vt \in CallbackConventions /\ ThisFirst(build, m, t)
          /\ Trail(build, m, s, "bind", p, r) /\ build \in Tracked /\ s \in Seq(TypesOf(build)) /\ t \in TypesOf(build)
      BY <1>1, <1>2, <2>1, <2>2, <2>4, <2>5
    <3> HIDE DEF m, x, s, p, q, r
    <3>2. Trail(build, x, Append(s, t), "bind", q, r)
      BY <3>1, TrailNext
    <3> QED
      BY <1>1, <2>1, <3>2 DEF x, s, q, r
  <2>6. vm'.vt \in CallbackConventions => HiddenKnown(build, vm', call'.ret)
    BY <1>1, <1>2, <2>2 DEF HiddenKnown
  <2> QED
    BY <2>3, <2>5, <2>6
<1> QED
  BY <1>3, <1>4, TrackedArgF

\* The entry into the callee.
LEMMA ArrivingCall == ASSUME Stored, Arriving, Call PROVE Arriving'
<1>1. phase = "bind" /\ phase' = "run" /\ build' = build
  BY DEF Call, EnterCallee
<1> SUFFICES ASSUME build \in Tracked, vm'.vt \in CallbackConventions
             PROVE  Trail(build, vm', sent', "run", pos', rd')
  BY <1>1, TrailStays, ConventionsStay DEF Arriving
<1>2. pos' = 0 /\ rd' = dcbCursor(vm.vt, call.ret) /\ Grown(vm, vm') /\ sent' = sent
  BY TrackedCall
<1>3. vm'.vt = vm.vt /\ vm'.hid = vm.hid /\ vm.mem \subseteq vm'.mem
  BY <1>2 DEF Grown
<1>4. Trail(build, vm, sent, "bind", pos, rd) /\ HiddenKnown(build, vm, call.ret)
  BY <1>1, <1>3 DEF Arriving
<1>5. PICK cur : Walks(cur, Start(build, vm), vm, sent) /\ cur[Len(sent)].vt = vm.vt
  BY <1>4 DEF Trail
<1>6. Start(build, vm') = Start(build, vm) /\ rd' = Start(build, vm)
  BY <1>2, <1>3, <1>4, StartCursor DEF Start
<1>7. Walks(cur, Start(build, vm'), vm', sent)
  <2> DEFINE c0 == Start(build, vm)
             m == vm
             x == vm'
             s == sent
  <2>1. m.mem \subseteq x.mem /\ Walks(cur, c0, m, s)
    BY <1>3, <1>5
  <2> HIDE DEF c0, m, x, s
  <2>2. Walks(cur, c0, x, s)
    BY <2>1, WalksGrown
  <2> QED
    BY <1>6, <2>2 DEF c0, x, s
<1>8. cur[0] = Start(build, vm)
  BY <1>5 DEF Walks
<1> QED
  BY <1>2, <1>3, <1>5, <1>6, <1>7, <1>8 DEF Trail

\* The callee takes the argument that is bound at its place.
LEMMA TakesNext ==
    ASSUME Course, Filled, Stored, Arriving, Take, build \in Tracked
    PROVE  /\ got' = Append(got, pos + 1)
           /\ vm.vt \in CallbackConventions => Trail(build, vm, sent, "run", pos + 1, rd')
<1> DEFINE n == pos + 1
<1>1. /\ phase = "run" /\ pos < Len(sent) /\ pos \in Nat /\ Len(sent) \in Nat /\ rd.vt = vm.vt
      /\ n \in 1..Len(sent) /\ n - 1 = pos /\ sent \in Seq(TypesOf(build))
  BY DEF Take, MoreArgs, Course, Filled
<1>2. CASE vm.vt \notin CallbackConventions
  <2>1. Intact(vm, n)
    BY <1>1 DEF Stored
  <2> QED
    BY <1>1, <1>2, <2>1 DEF Take
<1>3. CASE vm.vt \in CallbackConventions
  <2>1. PICK cur : /\ Walks(cur, Start(build, vm), vm, sent) /\ cur[Len(sent)].vt = vm.vt
                   /\ rd = cur[pos]
    BY <1>1, <1>3 DEF Arriving, Trail
  <2> DEFINE a == dcbArg(rd, sent[n])
  <2>2. cur[n] = a.rd /\ Found(vm.mem, a, n) /\ (build = "win64" => CopyIntact(vm, rd, sent[n], n))
    BY <1>1, <2>1 DEF Walks, Reads
  <2>3. rd' = a.rd /\ got' = Append(got, IF CopyIntact(vm, rd, sent[n], n) THEN Loaded(vm.mem, a, Len(sent)) ELSE 0)
    BY <1>1, <1>3 DEF Take
  <2>4. CopyIntact(vm, rd, sent[n], n)
    <3>1. vm.vt \in Vtables(build)
      BY DEF Filled
    <3>2. build # "win64" => ~Win(vm.vt)
      BY <3>1 DEF Win, Vtables, Tracked, Arms, Arm64s, Mips64s, Ppc32s, Plain64
    <3> QED
      BY <1>1, <2>2, <3>2 DEF CopyIntact
  <2>5. Disjoint(vm.mem) /\ \A e \in vm.mem : e \in Entry
    BY <1>1 DEF Stored, VM
  <2> HIDE DEF a
  <2>6. Loaded(vm.mem, a, Len(sent)) = n
    <3> DEFINE mem == vm.mem
               len == Len(sent)
    <3>1. Found(mem, a, n) /\ Disjoint(mem) /\ (\A e \in mem : e \in Entry) /\ len \in Nat /\ n \in 1..len
      BY <1>1, <2>2, <2>5
    <3> HIDE DEF mem, len, n
    <3>2. Loaded(mem, a, len) = n
      BY <3>1, LoadedFound
    <3> QED
      BY <3>2 DEF mem, len
  <2>7. got' = Append(got, n)
    BY <2>3, <2>4, <2>6
  <2>8. Trail(build, vm, sent, "run", n, rd')
    BY <2>1, <2>2, <2>3 DEF Trail
  <2> QED
    BY <1>3, <2>7, <2>8
<1> QED
  BY <1>2, <1>3

\* The callee takes an argument.
LEMMA ArrivingTake == ASSUME Course, Filled, Stored, Arriving, Take PROVE Arriving'
<1>1. phase = "run" /\ phase' = "run" /\ build' = build /\ vm' = vm /\ sent' = sent /\ pos' = pos + 1
  BY DEF Take, MoreArgs
<1> SUFFICES ASSUME build \in Tracked, vm.vt \in CallbackConventions
             PROVE  Trail(build, vm, sent, "run", pos + 1, rd')
  BY <1>1, TrailStays, ConventionsStay DEF Arriving
<1> QED
  BY TakesNext

\* Every step.
LEMMA ArrivingStep ==
    ASSUME PlainOnX86, Fits, Course, Filled, Stored, Arriving, [Next]_vars, KeepsConvention
    PROVE  Arriving'
<1>1. ASSUME NEW mode, SetMode(mode) PROVE Arriving'
  BY <1>1 DEF SetMode, Arriving
<1>2. ASSUME Reset PROVE Arriving'
  BY <1>2 DEF Reset, Arriving
<1>3. ASSUME Return PROVE Arriving'
  BY <1>3 DEF Return, LeaveCallee, Arriving
<1>4. ASSUME UNCHANGED vars PROVE Arriving'
  <2>1. build' = build
    BY <1>4 DEF vars
  <2> QED
    BY <1>4, <2>1, TrailStays, ConventionsStay DEF vars, Arriving, ObjectFirst
<1> QED
  BY <1>1, <1>2, <1>3, <1>4, ArrivingBegin, ArrivingArgF, ArrivingCall, ArrivingTake DEF Next

\* What was taken was taken by its owner.
Owns == build \in Tracked => TakesOwn

\* Every step.
LEMMA OwnsStep == ASSUME Course, Filled, Stored, Arriving, Owns, [Next]_vars PROVE Owns'
<1>1. CASE Take
  <2>1. build' = build /\ got \in Seq(Nat) /\ Len(got) = pos /\ pos \in Nat
    BY <1>1 DEF Take, MoreArgs, Course
  <2> SUFFICES ASSUME build \in Tracked, NEW k \in DOMAIN got' PROVE got'[k] = k
    BY <2>1 DEF Owns, TakesOwn
  <2>2. got' = Append(got, pos + 1) /\ \A j \in DOMAIN got : got[j] = j
    BY <1>1, TakesNext DEF Owns, TakesOwn
  <2> QED
    BY <2>1, <2>2
<1>2. CASE got' = got /\ build' = build
  BY <1>2 DEF Owns, TakesOwn
<1>3. CASE Return
  BY <1>3 DEF Return, Owns, TakesOwn
<1> QED
  BY <1>1, <1>2, <1>3 DEF Next, SetMode, Reset, Begin, ArgF, Call, vars

\* For every signature that fits, on every target that is tracked: every value that the callee
\* takes (dcbArg) is the one bound for that argument (dcArg), under every convention of
\* callbacks, as long as the signature keeps to one (KeepsConvention).
THEOREM OwnTaken ==
    ASSUME Fits, PlainOnX86
    PROVE  Spec /\ build \in Tracked /\ [][KeepsConvention]_vars => []TakesOwn
<1>1. Spec => Init /\ [][Next]_vars
  BY PTL DEF Spec
<1>2. Init => Filled /\ Stored /\ Arriving /\ Owns
  <2>1. Init => Arriving /\ Owns
    BY DEF Init, Arriving, Owns, TakesOwn
  <2> QED
    BY <2>1, FilledInit, StoredInit
<1>3. Course /\ Filled /\ [Next]_vars => Filled'
  BY FilledStep
<1>4. Course /\ Filled /\ Stored /\ [Next]_vars => Stored'
  BY StoredStep
<1>5. Course /\ Filled /\ Stored /\ Arriving /\ [Next]_vars /\ [KeepsConvention]_vars => Arriving'
  <2>1. UNCHANGED vars => KeepsConvention
    BY DEF vars, KeepsConvention
  <2> QED
    BY <2>1, ArrivingStep
<1>6. Course /\ Filled /\ Stored /\ Arriving /\ Owns /\ [Next]_vars => Owns'
  BY OwnsStep
<1>7. Owns /\ build \in Tracked => TakesOwn
  BY DEF Owns
<1> QED
  BY <1>1, <1>2, <1>3, <1>4, <1>5, <1>6, <1>7, CourseInvariant, TrackedStays, PTL

\* Under the same conditions dyncall implements the channel: arguments arrive, each once, in
\* order and unchanged, and the callee returns only when it has taken all of them.
THEOREM ArgumentsArrive ==
    ASSUME Fits, PlainOnX86
    PROVE  Spec /\ build \in Tracked /\ [][KeepsConvention]_vars => RoundTrip
  BY OwnTaken, ChannelImplemented, PTL
=============================================================================
