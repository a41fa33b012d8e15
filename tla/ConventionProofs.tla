-------------------------- MODULE ConventionProofs --------------------------
(***************************************************************************)
(* Lemmas about the dcArg and dcbArg functions of the calling conventions: *)
(* binding one more argument puts it where nothing lies, a compiled callee *)
(* finds it whole, and a callback whose cursor is in step with the call VM *)
(* takes it from there and stays in step.                                  *)
(*                                                                         *)
(* Laid says that the extents of a call VM lie apart and below its counts; *)
(* each convention has a form of it that its functions keep, and a         *)
(* relation between the counts of the VM and those of the callback's       *)
(* cursor.  CallBridgeProofs puts the conventions together.                *)
(***************************************************************************)
EXTENDS CallBridge, NumberTheorems, FiniteSetTheorems, TLAPS

\* The forms that values have, and the places where they lie: two files of registers, the
\* vector, and the registers of single precision.
Forms == {"i1", "i2", "i4", "i8", "f4", "f8", "w8", "s8", "s12", "s16", "s24"}
Files == {"I", "F", "V", "S"}

\* The vtables of each target.
Vtables(b) ==
    CASE b = "x86" -> {"cdecl", "std", "fast_ms", "fast_gnu", "this_ms", "int80h_linux", "int80h_bsd"}
      [] b = "x64" -> {"sysv", "syscall_sysv"}
      [] b = "win64" -> {"win64", "win64_this"}
      [] b \in {"arm", "arm_eabi", "thumb", "thumb_eabi"} -> {"arm", "arm_eabi"}
      [] b = "armhf" -> {"armhf", "armhf_ellipsis"}
      [] b = "arm64" -> {"arm64"}
      [] b = "arm64_win" -> {"arm64", "arm64_win_varargs"}
      [] b = "apple" -> {"apple", "apple_variadic"}
      [] b = "mips_eabi" -> {"mips_eabi"}
      [] b = "mips_o32" -> {"mips_o32"}
      [] b = "mips_n32" -> {"mips_n32", "mips_n32_ellipsis"}
      [] b = "mips_n64" -> {"mips_n64", "mips_n64_ellipsis"}
      [] b \in {"ppc32_darwin", "ppc32_sysv"} -> {"darwin", "sysv", "ppc32_syscall"}
      [] b = "ppc64_v1" -> {"ppc64_v1", "ppc64_syscall"}
      [] b = "ppc64_v2" -> {"ppc64_v2", "ppc64_v2_ellipsis", "ppc64_v2_syscall"}
      [] b = "sparc" -> {"sparc"}
      [] b = "v9" -> {"v9", "v9_ellipsis"}

\* Every vtable, and that of a VM without one.
AnyVtable == {"none"} \cup UNION {Vtables(b) : b \in Targets}

\* The extents of the memory, call VMs, and parts of values.
Entry == [file : Files, off : Nat, len : Nat \ {0}, arg : Nat, form : Forms, from : Nat]

VM == [vt : AnyVtable, err : BOOLEAN, i : Nat, f : Nat, d : Nat, hid : Nat,
       copies : Int, size : Nat, mem : SUBSET Entry]

PartOf == [arg : Nat, form : Forms, from : Nat, len : Nat \ {0}]

\* Part p stored at offset off of a file.
At(file, off, p) ==
    [file |-> file, off |-> off, len |-> p.len, arg |-> p.arg, form |-> p.form, from |-> p.from]

\* No byte of the memory belongs to two entries.
Disjoint(mem) == \A e, g \in mem : e # g => ~Overlap(e, g)

\* The entries of each file lie where the counts of the VM say.
Laid(m, lo, base, ni, nf) ==
    /\ m \in VM /\ lo \in Nat /\ base \in Nat /\ ni \in Nat /\ nf \in Nat
    /\ lo <= base /\ base <= m.size /\ m.copies <= VecTotal
    /\ Disjoint(m.mem)
    /\ \A e \in m.mem :
        /\ e.file = "I" => e.off + e.len <= ni
        /\ e.file = "F" => e.off + e.len <= nf
        /\ e.file = "V" => \/ e.off + e.len <= lo
                           \/ base <= e.off /\ (e.off + e.len <= m.size \/ m.copies <= e.off)

\* VM x is VM m with more in its memory and other counts.
More(m, x) ==
    /\ x \in VM /\ x.vt = m.vt /\ x.hid = m.hid /\ x.copies = m.copies /\ x.size >= m.size
    /\ m.mem \subseteq x.mem

\* The counts of registers are the same.
SameCounts(m, x) == x.i = m.i /\ x.f = m.f /\ x.d = m.d

\* The memory of x has entry g and nothing else that m has not.
Gains(m, x, g) == x.mem \subseteq m.mem \cup {g}

\* The sizes of the forms.
LEMMA FormBytes ==
    /\ DOMAIN Bytes = Forms
    /\ \A form \in Forms : Bytes[form] \in Nat \ {0} /\ Bytes[form] <= 24
    /\ Bytes["i1"] = 1 /\ Bytes["i2"] = 2 /\ Bytes["i4"] = 4 /\ Bytes["i8"] = 8
    /\ Bytes["f4"] = 4 /\ Bytes["f8"] = 8 /\ Bytes["w8"] = 8
    /\ Bytes["s8"] = 8 /\ Bytes["s12"] = 12 /\ Bytes["s16"] = 16 /\ Bytes["s24"] = 24
<1>1. /\ Bytes["i1"] = 1 /\ Bytes["i2"] = 2 /\ Bytes["i4"] = 4 /\ Bytes["i8"] = 8
      /\ Bytes["f4"] = 4 /\ Bytes["f8"] = 8 /\ Bytes["w8"] = 8
      /\ Bytes["s8"] = 8 /\ Bytes["s12"] = 12 /\ Bytes["s16"] = 16 /\ Bytes["s24"] = 24
  BY DEF Bytes
<1>2. DOMAIN Bytes = Forms
  BY DEF Bytes, Forms
<1>3. ASSUME NEW form \in Forms
      PROVE  Bytes[form] \in Nat \ {0} /\ Bytes[form] <= 24
  <2>1. Bytes[form] \in {1, 2, 4, 8, 12, 16, 24}
    BY <1>1 DEF Forms
  <2>2. \A b \in {1, 2, 4, 8, 12, 16, 24} : b \in Nat \ {0} /\ b <= 24
    OBVIOUS
  <2> QED
    BY <2>1, <2>2, Zenon
<1> QED
  BY <1>1, <1>2, <1>3

\* A whole value is a part.
LEMMA ValPart ==
    ASSUME NEW n \in Nat, NEW form \in Forms
    PROVE  Val(n, form) \in PartOf /\ Val(n, form).len = Bytes[form]
           /\ Val(n, form).arg = n /\ Val(n, form).form = form /\ Val(n, form).from = 0
  BY FormBytes DEF Val, Part, PartOf

\* Nothing lies where part p is to go.
Clear(m, file, off, p) ==
    /\ m \in VM /\ file \in Files /\ off \in Nat /\ p \in PartOf /\ Disjoint(m.mem)
    /\ \A e \in m.mem : e.file = file => e.off + e.len <= off \/ off + p.len <= e.off

\* A store where nothing lies forgets nothing.
LEMMA PutClear ==
    ASSUME NEW m, NEW file, NEW off, NEW p, Clear(m, file, off, p)
    PROVE  /\ Put(m, file, off, p) = [m EXCEPT !.mem = @ \cup {At(file, off, p)}]
           /\ Put(m, file, off, p) \in VM
           /\ At(file, off, p) \in Entry
           /\ Disjoint(Put(m, file, off, p).mem)
<1> DEFINE g == At(file, off, p)
<1>0. /\ m \in VM /\ file \in Files /\ off \in Nat /\ p \in PartOf /\ Disjoint(m.mem)
      /\ \A e \in m.mem : e.file = file => e.off + e.len <= off \/ off + p.len <= e.off
  BY DEF Clear
<1>1. g \in Entry /\ g.file = file /\ g.off = off /\ g.len = p.len
  BY <1>0 DEF At, Entry, PartOf
<1>2. \A e \in m.mem : e \in Entry
  BY <1>0 DEF VM
<1>3. \A e \in m.mem : ~Overlap(e, g) /\ ~Overlap(g, e)
  BY <1>0, <1>1, <1>2 DEF Overlap, Entry
<1>4. {e \in m.mem : ~Overlap(e, g)} = m.mem
  BY <1>3
<1>5. Put(m, file, off, p) = [m EXCEPT !.mem = @ \cup {g}]
  BY <1>4 DEF Put, At
<1>6. Put(m, file, off, p) \in VM
  BY <1>0, <1>1, <1>5 DEF VM
<1>7. Disjoint(m.mem \cup {g})
  BY <1>0, <1>3 DEF Disjoint
<1>8. Put(m, file, off, p).mem = m.mem \cup {g}
  BY <1>0, <1>5 DEF VM
<1> QED
  BY <1>1, <1>5, <1>6, <1>7, <1>8
---------------------------------------------------------------------------
\* VM y differs from x in its counts, and may have skipped part of the vector.
SameStore(x, y) == y \in VM /\ y.mem = x.mem /\ y.size >= x.size /\ y.copies = x.copies

\* What a change of the counts leaves alone.
LEMMA Recount ==
    ASSUME NEW lo, NEW base, NEW ni, NEW nf, NEW m, Laid(m, lo, base, ni, nf),
           NEW m2, SameStore(m, m2),
           NEW ti \in Nat, NEW tf \in Nat, ni <= ti, nf <= tf
    PROVE  Laid(m2, lo, base, ti, tf)
<1>0. m2 \in VM /\ m2.mem = m.mem /\ m2.size >= m.size /\ m2.copies = m.copies
  BY DEF SameStore
<1>1. /\ m \in VM /\ \A e \in m.mem : e \in Entry
      /\ lo \in Nat /\ base \in Nat /\ ni \in Nat /\ nf \in Nat
  BY DEF Laid, VM
<1>2. ASSUME NEW e \in m.mem
      PROVE  /\ e.file = "I" => e.off + e.len <= ti
             /\ e.file = "F" => e.off + e.len <= tf
             /\ e.file = "V" => \/ e.off + e.len <= lo
                                \/ base <= e.off /\ (e.off + e.len <= m2.size \/ m2.copies <= e.off)
  <2>1. e.off \in Nat /\ e.len \in Nat /\ m.size \in Nat /\ m2.size \in Nat
    BY <1>0, <1>1 DEF Entry, VM
  <2> QED
    BY <1>0, <1>1, <2>1 DEF Laid
<1>3. lo <= base /\ base <= m2.size /\ m2.copies <= VecTotal
  BY <1>0, <1>1 DEF Laid, VM
<1> QED
  BY <1>0, <1>1, <1>2, <1>3 DEF Laid

\* Part p can go to offset off of a register file, which is then used up to ti or tf.
RegFree(ni, nf, file, off, p, ti, tf) ==
    /\ off \in Nat /\ p \in PartOf /\ ti \in Nat /\ tf \in Nat /\ ni <= ti /\ nf <= tf
    /\ file \in {"I", "F"}
    /\ file = "I" => ni <= off /\ off + p.len <= ti
    /\ file = "F" => nf <= off /\ off + p.len <= tf

\* One more entry, where nothing lies yet: a register.
LEMMA StoreReg ==
    ASSUME NEW lo, NEW base, NEW ni, NEW nf, NEW m, NEW file, NEW off, NEW p, NEW ti, NEW tf,
           Laid(m, lo, base, ni, nf), RegFree(ni, nf, file, off, p, ti, tf)
    PROVE  LET x == Put(m, file, off, p)
           IN  /\ Laid(x, lo, base, ti, tf) /\ More(m, x) /\ SameCounts(m, x) /\ x.size = m.size
               /\ At(file, off, p) \in x.mem /\ Gains(m, x, At(file, off, p))
<1> DEFINE g == At(file, off, p)
<1>0. /\ lo \in Nat /\ base \in Nat /\ ni \in Nat /\ nf \in Nat
      /\ off \in Nat /\ p \in PartOf /\ ti \in Nat /\ tf \in Nat /\ ni <= ti /\ nf <= tf
      /\ file \in {"I", "F"}
      /\ file = "I" => ni <= off /\ off + p.len <= ti
      /\ file = "F" => nf <= off /\ off + p.len <= tf
  BY DEF Laid, RegFree
<1>1. m \in VM /\ p.len \in Nat /\ Disjoint(m.mem) /\ \A e \in m.mem : e \in Entry
  BY <1>0 DEF Laid, VM, PartOf
<1>2. \A e \in m.mem : e.file = file => e.off + e.len <= off \/ off + p.len <= e.off
  BY <1>0, <1>1 DEF Laid, Entry
<1>3. file \in Files
  BY <1>0 DEF Files
<1>4. /\ Put(m, file, off, p) = [m EXCEPT !.mem = @ \cup {g}]
      /\ Put(m, file, off, p) \in VM /\ g \in Entry /\ Disjoint(Put(m, file, off, p).mem)
  <2>1. Clear(m, file, off, p)
    BY <1>0, <1>1, <1>2, <1>3 DEF Clear
  <2> QED
    BY <2>1, PutClear
<1>5. g.file = file /\ g.off = off /\ g.len = p.len
  BY DEF At
<1> DEFINE m2 == Put(m, file, off, p)
<1> HIDE DEF g, m2
<1>6. m2.mem = m.mem \cup {g} /\ m2.size = m.size /\ m2.copies = m.copies
  BY <1>1, <1>4 DEF m2, VM
<1>7. ASSUME NEW e \in m2.mem
      PROVE  /\ e.file = "I" => e.off + e.len <= ti
             /\ e.file = "F" => e.off + e.len <= tf
             /\ e.file = "V" => \/ e.off + e.len <= lo
                                \/ base <= e.off /\ (e.off + e.len <= m.size \/ m.copies <= e.off)
  <2>1. CASE e = g
    BY <1>0, <1>5, <2>1
  <2>2. CASE e \in m.mem
    <3>1. e.off \in Nat /\ e.len \in Nat
      BY <1>1, <2>2 DEF Entry
    <3> QED
      BY <1>0, <2>2, <3>1 DEF Laid
  <2> QED
    BY <1>6, <2>1, <2>2
<1>8. m2 \in VM /\ lo <= base /\ base <= m2.size /\ m2.copies <= VecTotal
  BY <1>4, <1>6 DEF Laid, m2
<1>d. Disjoint(m2.mem)
  BY <1>4 DEF m2
<1>9. Laid(m2, lo, base, ti, tf)
  BY <1>d, <1>0, <1>6, <1>7, <1>8 DEF Laid
<1>10. /\ More(m, m2) /\ SameCounts(m, m2) /\ m2.size = m.size /\ Gains(m, m2, g) /\ g \in m2.mem
  BY <1>1, <1>4 DEF More, SameCounts, VM, Gains, m2
<1> QED
  BY <1>9, <1>10, Zenon DEF m2, g

\* A store into the vector that sets its size.
PutVec(m, off, p, size) == [Put(m, "V", off, p) EXCEPT !.size = size]

\* Part p can go to offset off of the vector: among the words of the registers,
\* which are then used up to top, or behind the end.
VecFree(m, lo, base, off, p, top, size) ==
    /\ off \in Nat /\ p \in PartOf /\ top \in Nat /\ size \in Nat
    /\ lo <= top /\ top <= base /\ m.size <= size
    /\ \/ lo <= off /\ off + p.len <= top
       \/ m.size <= off /\ off + p.len <= size /\ size <= m.copies

\* One more entry in the vector, where nothing lies yet.
LEMMA StoreVec ==
    ASSUME NEW lo, NEW base, NEW ni, NEW nf, NEW m, NEW off, NEW p, NEW top, NEW size,
           Laid(m, lo, base, ni, nf), VecFree(m, lo, base, off, p, top, size)
    PROVE  LET x == PutVec(m, off, p, size)
           IN  /\ Laid(x, top, base, ni, nf) /\ More(m, x) /\ SameCounts(m, x) /\ x.size = size
               /\ At("V", off, p) \in x.mem /\ Gains(m, x, At("V", off, p))
               /\ Put(m, "V", off, p) \in VM /\ Put(m, "V", off, p).size = m.size
<1> DEFINE g == At("V", off, p)
<1>0. /\ lo \in Nat /\ base \in Nat /\ ni \in Nat /\ nf \in Nat
      /\ off \in Nat /\ p \in PartOf /\ top \in Nat /\ size \in Nat
      /\ lo <= top /\ top <= base /\ m.size <= size
      /\ \/ lo <= off /\ off + p.len <= top
         \/ m.size <= off /\ off + p.len <= size /\ size <= m.copies
  BY DEF Laid, VecFree
<1>1. /\ m \in VM /\ p.len \in Nat /\ Disjoint(m.mem) /\ \A e \in m.mem : e \in Entry
      /\ m.size \in Nat /\ m.copies \in Int
  BY <1>0 DEF Laid, VM, PartOf
<1>2. ASSUME NEW e \in m.mem, e.file = "V" PROVE e.off + e.len <= off \/ off + p.len <= e.off
  <2>1. e.off \in Nat /\ e.len \in Nat
    BY <1>1 DEF Entry
  <2>2. \/ e.off + e.len <= lo
        \/ base <= e.off /\ (e.off + e.len <= m.size \/ m.copies <= e.off)
    BY <1>2 DEF Laid
  <2> QED
    BY <1>0, <1>1, <2>1, <2>2 DEF Laid
<1>3. "V" \in Files
  BY DEF Files
<1>4. /\ Put(m, "V", off, p) = [m EXCEPT !.mem = @ \cup {g}]
      /\ Put(m, "V", off, p) \in VM /\ g \in Entry /\ Disjoint(Put(m, "V", off, p).mem)
  <2>1. Clear(m, "V", off, p)
    BY <1>0, <1>1, <1>2, <1>3 DEF Clear
  <2> QED
    BY <2>1, PutClear
<1>5. g.file = "V" /\ g.off = off /\ g.len = p.len
  BY DEF At
<1> DEFINE m2 == PutVec(m, off, p, size)
<1> HIDE DEF g, m2
<1>6. m2.mem = m.mem \cup {g} /\ m2.size = size /\ m2.copies = m.copies /\ m2 \in VM
  BY <1>0, <1>1, <1>4 DEF m2, PutVec, VM
<1>7. ASSUME NEW e \in m2.mem
      PROVE  /\ e.file = "I" => e.off + e.len <= ni
             /\ e.file = "F" => e.off + e.len <= nf
             /\ e.file = "V" => \/ e.off + e.len <= top
                                \/ base <= e.off /\ (e.off + e.len <= size \/ m.copies <= e.off)
  <2>1. CASE e = g
    BY <1>0, <1>1, <1>5, <2>1 DEF Laid
  <2>2. CASE e \in m.mem
    <3>1. e.off \in Nat /\ e.len \in Nat
      BY <1>1, <2>2 DEF Entry
    <3> QED
      BY <1>0, <1>1, <2>2, <3>1 DEF Laid
  <2> QED
    BY <1>6, <2>1, <2>2
<1>8. top <= base /\ base <= m2.size /\ m2.copies <= VecTotal
  BY <1>0, <1>1, <1>6 DEF Laid
<1>d. Disjoint(m2.mem)
  BY <1>1, <1>4, <1>6 DEF VM
<1>9. Laid(m2, top, base, ni, nf)
  BY <1>d, <1>0, <1>6, <1>7, <1>8 DEF Laid
<1>10. /\ More(m, m2) /\ SameCounts(m, m2) /\ m2.size = size /\ Gains(m, m2, g) /\ g \in m2.mem
       /\ Put(m, "V", off, p).size = m.size
  BY <1>0, <1>1, <1>4 DEF More, SameCounts, VM, Gains, m2, PutVec
<1> QED
  BY <1>4, <1>9, <1>10, Zenon DEF m2, g

\* There is room for `size' bytes before the copies of structs, if there are any.
Appends(m, p, size) ==
    /\ p \in PartOf /\ size \in Nat /\ p.len <= size
    /\ m.copies = VecTotal \/ m.size + size <= m.copies

\* dcVecAppend stores all of what it is given, behind what is there, or nothing.
LEMMA Appended ==
    ASSUME NEW lo, NEW base, NEW ni, NEW nf, NEW m, Laid(m, lo, base, ni, nf),
           NEW p, NEW size, Appends(m, p, size)
    PROVE  LET x == dcVecAppend(m, p, size)
           IN  /\ Laid(x, lo, base, ni, nf) /\ More(m, x) /\ SameCounts(m, x)
               /\ Gains(m, x, At("V", m.size, p))
               /\ m.size + size <= VecTotal
                    => x.size = m.size + size /\ At("V", m.size, p) \in x.mem
<1> DEFINE x == dcVecAppend(m, p, size)
<1>1. /\ m \in VM /\ m.size \in Nat /\ p.len \in Nat /\ m.copies \in Int /\ VecTotal \in Nat
      /\ lo \in Nat /\ base \in Nat /\ lo <= base
      /\ p \in PartOf /\ size \in Nat /\ p.len <= size
      /\ m.copies = VecTotal \/ m.size + size <= m.copies
  BY VecAssumption DEF Laid, VM, PartOf, Appends
<1>2. CASE m.size + size <= VecTotal
  <2> DEFINE y == PutVec(m, m.size, p, m.size + size)
  <2>1. VecFree(m, lo, base, m.size, p, lo, m.size + size)
    BY <1>1, <1>2 DEF VecFree
  <2>2. /\ Laid(y, lo, base, ni, nf) /\ More(m, y) /\ SameCounts(m, y) /\ y.size = m.size + size
        /\ At("V", m.size, p) \in y.mem /\ Gains(m, y, At("V", m.size, p))
        /\ Put(m, "V", m.size, p).size = m.size
    BY <2>1, StoreVec
  <2>3. x = y
    BY <1>2, <2>2 DEF dcVecAppend, PutVec
  <2> HIDE DEF x, y
  <2> QED
    BY <2>2, <2>3 DEF x
<1>3. CASE ~(m.size + size <= VecTotal)
  <2>1. x = m
    BY <1>3 DEF dcVecAppend
  <2>2. More(m, m) /\ SameCounts(m, m) /\ Gains(m, m, At("V", m.size, p))
    BY <1>1 DEF More, SameCounts, Gains
  <2> HIDE DEF x
  <2> QED
    BY <1>1, <1>3, <2>1, <2>2 DEF x
<1> QED
  BY <1>2, <1>3

\* The cursors of callbacks.
Cursors == [vt : AnyVtable, i : Nat, f : Nat, d : Nat, sp : Nat, hid : Nat]

\* An access finds all of argument n.
Found(mem, a, n) ==
    /\ 1 \in DOMAIN a.at /\ a.at[1].off \in Nat /\ a.at[1].len \in Nat \ {0}
    /\ \A k \in DOMAIN a.at :
        Holds(mem, a.at[k], n, a.form, IF k = 1 THEN 0 ELSE a.at[1].len)

\* The cursor stays one of the same callback.
Kept(r, a) == a.rd \in Cursors /\ a.rd.vt = r.vt /\ a.rd.hid = r.hid

\* A value that lies in one place is found there, by a callback and by a compiled
\* function.
LEMMA FoundVal ==
    ASSUME NEW x, NEW r, NEW file, NEW off \in Nat, NEW n \in Nat, NEW form \in Forms,
           At(file, off, Val(n, form)) \in x.mem
    PROVE  /\ Found(x.mem, Access(r, <<Loc(file, off, Bytes[form])>>, form), n)
           /\ Intact(x, n)
<1>1. /\ Val(n, form) \in PartOf /\ Val(n, form).len = Bytes[form] /\ Bytes[form] \in Nat \ {0}
      /\ Val(n, form).arg = n /\ Val(n, form).form = form /\ Val(n, form).from = 0
      /\ form \in DOMAIN Bytes
  BY ValPart, FormBytes
<1> DEFINE e == At(file, off, Val(n, form))
<1>3. /\ e \in x.mem /\ e.arg = n /\ e.form = form /\ e.from = 0 /\ e.len = Bytes[form]
      /\ e.file = file /\ e.off = off
  BY <1>1 DEF At
<1>2. Found(x.mem, Access(r, <<Loc(file, off, Bytes[form])>>, form), n)
  <2>1. Holds(x.mem, Loc(file, off, Bytes[form]), n, form, 0)
    BY <1>1, <1>3 DEF Holds, Loc
  <2> QED
    BY <1>1, <2>1 DEF Found, Access, Loc
<1>4. \A b \in 0..(Bytes[form] - 1) : b \in e.from..(e.from + e.len - 1)
  BY <1>1, <1>3
<1> HIDE DEF e
<1>5. Intact(x, n)
  BY <1>1, <1>3, <1>4 DEF Intact
<1> QED
  BY <1>2, <1>5

\* A value whose two parts lie in two places is found there.
LEMMA FoundTwo ==
    ASSUME NEW mem, NEW r, NEW l1, NEW l2, NEW n, NEW form,
           l1.off \in Nat, l1.len \in Nat \ {0},
           Holds(mem, l1, n, form, 0), Holds(mem, l2, n, form, l1.len)
    PROVE  Found(mem, Access(r, <<l1>> \o <<l2>>, form), n)
  BY DEF Found, Access

\* VM y differs from m in its counts alone, and may have skipped part of the vector.
Shifted(m, y) == SameStore(m, y) /\ y.vt = m.vt /\ y.hid = m.hid

\* There is room for one more argument, whatever it is.
Room(m) == m.size + 72 <= m.copies

\* One more entry at the end of the vector, behind what was skipped.
LEMMA StackMore ==
    ASSUME NEW lo, NEW base, NEW ni, NEW nf, NEW m, NEW y, NEW p, NEW size,
           Laid(m, lo, base, ni, nf), Shifted(m, y), Appends(y, p, size)
    PROVE  LET x == dcVecAppend(y, p, size)
           IN  /\ Laid(x, lo, base, ni, nf) /\ More(m, x) /\ SameCounts(y, x)
               /\ Gains(m, x, At("V", y.size, p))
               /\ y.size + size <= VecTotal
                    => x.size = y.size + size /\ At("V", y.size, p) \in x.mem
<1> DEFINE x == dcVecAppend(y, p, size)
<1>1. /\ SameStore(m, y) /\ ni \in Nat /\ nf \in Nat /\ ni <= ni /\ nf <= nf
      /\ m \in VM /\ y \in VM /\ m.size \in Nat /\ y.size \in Nat
  BY DEF Laid, Shifted, SameStore, VM
<1>2. Laid(y, lo, base, ni, nf)
  BY <1>1, Recount
<1>3. /\ Laid(x, lo, base, ni, nf) /\ More(y, x) /\ SameCounts(y, x)
      /\ Gains(y, x, At("V", y.size, p))
      /\ y.size + size <= VecTotal
            => x.size = y.size + size /\ At("V", y.size, p) \in x.mem
  BY <1>2, Appended
<1>4. x \in VM /\ x.size \in Nat
  BY <1>3 DEF Laid, VM
<1>5. More(m, x)
  BY <1>1, <1>3, <1>4 DEF More, Shifted, SameStore
<1>6. y.mem = m.mem
  BY DEF Shifted, SameStore
<1> QED
  BY <1>3, <1>5, <1>6 DEF Gains

\* dcVecSkip moves nothing.
LEMMA Skipped ==
    ASSUME NEW m \in VM, NEW k \in Nat
    PROVE  LET y == dcVecSkip(m, k)
           IN  Shifted(m, y) /\ SameCounts(m, y) /\ y.size = m.size + k
  BY DEF dcVecSkip, Shifted, SameStore, SameCounts, VM

\* dcVecSkip(size & 4) moves nothing.
LEMMA SkippedOdd ==
    ASSUME NEW m \in VM
    PROVE  LET y == SkipOddWord(m)
           IN  /\ Shifted(m, y) /\ SameCounts(m, y)
               /\ y.size = m.size + (IF (m.size \div 4) % 2 = 1 THEN 4 ELSE 0)
<1>1. (IF (m.size \div 4) % 2 = 1 THEN 4 ELSE 0) \in Nat
  OBVIOUS
<1> QED
  BY <1>1, Skipped DEF SkipOddWord

\* Rounding up to a multiple.
LEMMA RoundsUp ==
    ASSUME NEW s \in Nat, NEW a \in {1, 2, 4, 8}
    PROVE  /\ ((s + a - 1) \div a) * a \in Nat
           /\ s <= ((s + a - 1) \div a) * a /\ ((s + a - 1) \div a) * a < s + a
<1>1. CASE a = 1
  BY <1>1
<1>2. CASE a = 2
  BY <1>2
<1>3. CASE a = 4
  BY <1>3
<1>4. CASE a = 8
  BY <1>4
<1> QED
  BY <1>1, <1>2, <1>3, <1>4

\* dcVecAlign moves nothing.
LEMMA VecAligned ==
    ASSUME NEW m \in VM, NEW a \in {1, 2, 4, 8}
    PROVE  LET y == dcVecAlign(m, a)
           IN  /\ Shifted(m, y) /\ SameCounts(m, y)
               /\ y.size = ((m.size + a - 1) \div a) * a /\ y.size < m.size + a
<1>1. m.size \in Nat
  BY DEF VM
<1>2. PICK s \in Nat : s = ((m.size + a - 1) \div a) * a /\ s >= m.size /\ s < m.size + a
  BY <1>1, RoundsUp
<1>3. dcVecAlign(m, a) = [m EXCEPT !.size = s]
  BY <1>2 DEF dcVecAlign
<1> QED
  BY <1>1, <1>2, <1>3 DEF Shifted, SameStore, SameCounts, VM

\* Two changes of counts are one.
LEMMA ShiftedTwice ==
    ASSUME NEW m, NEW x, NEW y, Shifted(m, x), Shifted(x, y), m \in VM
    PROVE  Shifted(m, y)
<1>1. m.size \in Nat /\ x.size \in Nat /\ y.size \in Nat
  BY DEF Shifted, SameStore, VM
<1> QED
  BY <1>1 DEF Shifted, SameStore

\* A skip behind a store.
LEMMA MoreShifted ==
    ASSUME NEW lo, NEW base, NEW ni, NEW nf, NEW m, NEW x, NEW y,
           Laid(x, lo, base, ni, nf), More(m, x), Shifted(x, y), m \in VM
    PROVE  Laid(y, lo, base, ni, nf) /\ More(m, y)
<1>1. /\ SameStore(x, y) /\ ni \in Nat /\ nf \in Nat /\ ni <= ni /\ nf <= nf
      /\ m.size \in Nat /\ x.size \in Nat /\ y.size \in Nat
  BY DEF Laid, Shifted, SameStore, VM
<1>2. Laid(y, lo, base, ni, nf)
  BY <1>1, Recount
<1>3. More(m, y)
  BY <1>1 DEF More, Shifted, SameStore
<1> QED
  BY <1>2, <1>3

\* What is kept twice is kept.
LEMMA MoreTwice ==
    ASSUME NEW m, NEW x, NEW y, m \in VM, More(m, x), More(x, y)
    PROVE  More(m, y)
<1>1. m.size \in Nat /\ x.size \in Nat /\ y.size \in Nat
  BY DEF More, VM
<1> QED
  BY <1>1 DEF More

\* A store into a register that sets a count.
PutI(m, file, off, p, k) == [Put(m, file, off, p) EXCEPT !.i = k]
PutF(m, file, off, p, k) == [Put(m, file, off, p) EXCEPT !.f = k]

\* A register is filled and counted.
LEMMA CountReg ==
    ASSUME NEW lo, NEW base, NEW ni, NEW nf, NEW m, NEW file, NEW off, NEW p, NEW ti, NEW tf,
           Laid(m, lo, base, ni, nf), RegFree(ni, nf, file, off, p, ti, tf), NEW k \in Nat
    PROVE  LET y == Put(m, file, off, p)
               x == PutI(m, file, off, p, k)
               z == PutF(m, file, off, p, k)
           IN  /\ y \in VM /\ y.i = m.i /\ y.f = m.f
               /\ Laid(x, lo, base, ti, tf) /\ More(m, x) /\ x.size = m.size
               /\ x.i = k /\ x.f = m.f /\ x.d = m.d /\ At(file, off, p) \in x.mem
               /\ Laid(z, lo, base, ti, tf) /\ More(m, z) /\ z.size = m.size
               /\ z.i = m.i /\ z.f = k /\ z.d = m.d /\ At(file, off, p) \in z.mem
<1> DEFINE y == Put(m, file, off, p)
           x == PutI(m, file, off, p, k)
           z == PutF(m, file, off, p, k)
<1>1. /\ Laid(y, lo, base, ti, tf) /\ More(m, y) /\ SameCounts(m, y) /\ y.size = m.size
      /\ At(file, off, p) \in y.mem
  BY StoreReg
<1>2. x = [y EXCEPT !.i = k] /\ z = [y EXCEPT !.f = k]
  BY DEF PutI, PutF
<1> HIDE DEF x, y, z
<1>3. y \in VM /\ ti \in Nat /\ tf \in Nat /\ y.size \in Nat /\ ti <= ti /\ tf <= tf
  BY <1>1 DEF Laid, VM
<1>4. /\ SameStore(y, x) /\ More(m, x) /\ x.f = m.f /\ x.i = k /\ x.d = m.d /\ x.size = m.size
      /\ At(file, off, p) \in x.mem
      /\ SameStore(y, z) /\ More(m, z) /\ z.i = m.i /\ z.f = k /\ z.d = m.d /\ z.size = m.size
      /\ At(file, off, p) \in z.mem
  BY <1>1, <1>2, <1>3 DEF SameStore, SameCounts, More, VM
<1>5. Laid(x, lo, base, ti, tf) /\ Laid(z, lo, base, ti, tf)
  BY <1>1, <1>3, <1>4, Recount
<1> QED
  BY <1>1, <1>3, <1>4, <1>5 DEF SameCounts, x, y, z

---------------------------------------------------------------------------
\* The conventions with registers, argument by argument: AArch64, MIPS n64, the
\* System V PowerPC, and Apple's ARM64.

\* The integer registers of AArch64, then the vector.
LEMMA Arm64Int ==
    ASSUME NEW m, Laid(m, 0, 0, 8 * m.i, 8 * m.f), m.copies = VecTotal,
           NEW p \in PartOf, p.len <= 8
    PROVE  LET x == arm64_a_i64(m, p)
           IN  /\ Laid(x, 0, 0, 8 * x.i, 8 * x.f) /\ More(m, x) /\ x.f = m.f
               /\ m.i < 8 => /\ x.i = m.i + 1 /\ x.size = m.size
                         /\ At("I", 8 * m.i, p) \in x.mem
               /\ ~(m.i < 8) => x.i = m.i
               /\ ~(m.i < 8) /\ Room(m)
                    => /\ x.size = m.size + 8
                       /\ At("V", m.size, p) \in x.mem
<1> DEFINE x == arm64_a_i64(m, p)
<1>1. /\ m \in VM /\ m.i \in Nat /\ m.f \in Nat /\ p.len \in Nat
      /\ m.size \in Nat /\ VecTotal \in Nat
  BY VecAssumption DEF Laid, VM, PartOf
<1>2. CASE m.i < 8
  <2>1. /\ RegFree(8 * m.i, 8 * m.f, "I", 8 * m.i, p, 8 * (m.i + 1), 8 * m.f)
        /\ m.i + 1 \in Nat
    BY <1>1, <1>2 DEF RegFree
  <2> DEFINE y == PutI(m, "I", 8 * m.i, p, m.i + 1)
  <2>2. /\ Put(m, "I", 8 * m.i, p).i = m.i
        /\ Laid(y, 0, 0, 8 * (m.i + 1), 8 * m.f) /\ More(m, y) /\ y.size = m.size
        /\ y.i = m.i + 1 /\ y.f = m.f /\ At("I", 8 * m.i, p) \in y.mem
    BY <2>1, CountReg
  <2>3. x = y
    BY <1>2, <2>2 DEF arm64_a_i64, PutI
  <2> HIDE DEF x, y
  <2>4. Laid(x, 0, 0, 8 * x.i, 8 * x.f)
    BY <1>1, <2>2, <2>3
  <2> QED
    BY <1>1, <1>2, <2>2, <2>3, <2>4 DEF x
<1>3. CASE ~(m.i < 8)
  <2> DEFINE y == m
  <2>1. Shifted(m, y) /\ y.size = m.size /\ y.i = m.i /\ y.f = m.f
    BY <1>1 DEF Shifted, SameStore
  <2> DEFINE z == dcVecAppend(y, p, 8)
  <2>2. x = z
    BY <1>3 DEF arm64_a_i64
  <2> HIDE DEF x, y
  <2>3. Appends(y, p, 8)
    BY <1>1, <2>1 DEF Appends, Shifted, SameStore
  <2>4. /\ Laid(z, 0, 0, 8 * m.i, 8 * m.f) /\ More(m, z) /\ SameCounts(y, z)
        /\ y.size + 8 <= VecTotal => z.size = y.size + 8 /\ At("V", y.size, p) \in z.mem
    <3>1. Shifted(m, y)
      BY <2>1
    <3> QED
      BY <2>3, <3>1, StackMore
  <2> HIDE DEF z
  <2>5. z \in VM /\ SameCounts(z, x) /\ x.size = z.size + 0 /\ x.mem = z.mem /\ z.size \in Nat
    BY <2>2, <2>4 DEF Laid, SameCounts, VM
  <2>6. Laid(x, 0, 0, 8 * m.i, 8 * m.f) /\ More(m, x)
    BY <2>2, <2>4
  <2>7. SameStore(x, x) /\ x.i = m.i /\ x.f = m.f /\ m.i <= x.i /\ x.i \in Nat
    BY <1>1, <1>3, <2>1, <2>4, <2>5, <2>6 DEF SameCounts, SameStore, Laid, VM
  <2>8. Laid(x, 0, 0, 8 * x.i, 8 * x.f)
    BY <1>1, <2>6, <2>7, Recount
  <2>9. Room(m) => y.size + 8 <= VecTotal
    BY <1>1, <2>1 DEF Room
  <2> QED
    BY <1>1, <1>3, <2>1, <2>4, <2>5, <2>6, <2>7, <2>8, <2>9 DEF x, y
<1> QED
  BY <1>2, <1>3

\* The floating point registers of AArch64, for a float.
LEMMA Arm64Float ==
    ASSUME NEW m, Laid(m, 0, 0, 8 * m.i, 8 * m.f), m.copies = VecTotal,
           NEW p \in PartOf, p.len <= 4
    PROVE  LET x == arm64_a_float(m, p)
           IN  /\ Laid(x, 0, 0, 8 * x.i, 8 * x.f) /\ More(m, x) /\ x.i = m.i
               /\ m.f < 8 => /\ x.f = m.f + 1 /\ x.size = m.size
                         /\ At("F", 8 * m.f, p) \in x.mem
               /\ ~(m.f < 8) => x.f = m.f
               /\ ~(m.f < 8) /\ Room(m)
                    => /\ x.size = m.size + 8
                       /\ At("V", m.size, p) \in x.mem
<1> DEFINE x == arm64_a_float(m, p)
<1>1. /\ m \in VM /\ m.i \in Nat /\ m.f \in Nat /\ p.len \in Nat
      /\ m.size \in Nat /\ VecTotal \in Nat
  BY VecAssumption DEF Laid, VM, PartOf
<1>2. CASE m.f < 8
  <2>1. /\ RegFree(8 * m.i, 8 * m.f, "F", 8 * m.f, p, 8 * m.i, 8 * (m.f + 1))
        /\ m.f + 1 \in Nat
    BY <1>1, <1>2 DEF RegFree
  <2> DEFINE y == PutF(m, "F", 8 * m.f, p, m.f + 1)
  <2>2. /\ Put(m, "F", 8 * m.f, p).f = m.f
        /\ Laid(y, 0, 0, 8 * m.i, 8 * (m.f + 1)) /\ More(m, y) /\ y.size = m.size
        /\ y.f = m.f + 1 /\ y.i = m.i /\ At("F", 8 * m.f, p) \in y.mem
    BY <2>1, CountReg
  <2>3. x = y
    BY <1>2, <2>2 DEF arm64_a_float, PutF
  <2> HIDE DEF x, y
  <2>4. Laid(x, 0, 0, 8 * x.i, 8 * x.f)
    BY <1>1, <2>2, <2>3
  <2> QED
    BY <1>1, <1>2, <2>2, <2>3, <2>4 DEF x
<1>3. CASE ~(m.f < 8)
  <2> DEFINE y == m
  <2>1. Shifted(m, y) /\ y.size = m.size /\ y.f = m.f /\ y.i = m.i
    BY <1>1 DEF Shifted, SameStore
  <2> DEFINE z == dcVecAppend(y, p, 4)
  <2>2. x = dcVecSkip(z, 4)
    BY <1>3 DEF arm64_a_float
  <2> HIDE DEF x, y
  <2>3. Appends(y, p, 4)
    BY <1>1, <2>1 DEF Appends, Shifted, SameStore
  <2>4. /\ Laid(z, 0, 0, 8 * m.i, 8 * m.f) /\ More(m, z) /\ SameCounts(y, z)
        /\ y.size + 4 <= VecTotal => z.size = y.size + 4 /\ At("V", y.size, p) \in z.mem
    <3>1. Shifted(m, y)
      BY <2>1
    <3> QED
      BY <2>3, <3>1, StackMore
  <2> HIDE DEF z
  <2>5. z \in VM /\ Shifted(z, x) /\ SameCounts(z, x) /\ x.size = z.size + 4 /\ x.mem = z.mem
    BY <2>2, <2>4, Skipped DEF Laid, Shifted, SameStore
  <2>6. Laid(x, 0, 0, 8 * m.i, 8 * m.f) /\ More(m, x)
    BY <1>1, <2>4, <2>5, MoreShifted
  <2>7. SameStore(x, x) /\ x.f = m.f /\ x.i = m.i /\ m.f <= x.f /\ x.f \in Nat
    BY <1>1, <1>3, <2>1, <2>4, <2>5, <2>6 DEF SameCounts, SameStore, Laid, VM
  <2>8. Laid(x, 0, 0, 8 * x.i, 8 * x.f)
    BY <1>1, <2>6, <2>7, Recount
  <2>9. Room(m) => y.size + 4 <= VecTotal
    BY <1>1, <2>1 DEF Room
  <2> QED
    BY <1>1, <1>3, <2>1, <2>4, <2>5, <2>6, <2>7, <2>8, <2>9 DEF x, y
<1> QED
  BY <1>2, <1>3

\* The same for a double.
LEMMA Arm64Double ==
    ASSUME NEW m, Laid(m, 0, 0, 8 * m.i, 8 * m.f), m.copies = VecTotal,
           NEW p \in PartOf, p.len <= 8
    PROVE  LET x == arm64_a_double(m, p)
           IN  /\ Laid(x, 0, 0, 8 * x.i, 8 * x.f) /\ More(m, x) /\ x.i = m.i
               /\ m.f < 8 => /\ x.f = m.f + 1 /\ x.size = m.size
                         /\ At("F", 8 * m.f, p) \in x.mem
               /\ ~(m.f < 8) => x.f = m.f
               /\ ~(m.f < 8) /\ Room(m)
                    => /\ x.size = m.size + 8
                       /\ At("V", m.size, p) \in x.mem
<1> DEFINE x == arm64_a_double(m, p)
<1>1. /\ m \in VM /\ m.i \in Nat /\ m.f \in Nat /\ p.len \in Nat
      /\ m.size \in Nat /\ VecTotal \in Nat
  BY VecAssumption DEF Laid, VM, PartOf
<1>2. CASE m.f < 8
  <2>1. /\ RegFree(8 * m.i, 8 * m.f, "F", 8 * m.f, p, 8 * m.i, 8 * (m.f + 1))
        /\ m.f + 1 \in Nat
    BY <1>1, <1>2 DEF RegFree
  <2> DEFINE y == PutF(m, "F", 8 * m.f, p, m.f + 1)
  <2>2. /\ Put(m, "F", 8 * m.f, p).f = m.f
        /\ Laid(y, 0, 0, 8 * m.i, 8 * (m.f + 1)) /\ More(m, y) /\ y.size = m.size
        /\ y.f = m.f + 1 /\ y.i = m.i /\ At("F", 8 * m.f, p) \in y.mem
    BY <2>1, CountReg
  <2>3. x = y
    BY <1>2, <2>2 DEF arm64_a_double, PutF
  <2> HIDE DEF x, y
  <2>4. Laid(x, 0, 0, 8 * x.i, 8 * x.f)
    BY <1>1, <2>2, <2>3
  <2> QED
    BY <1>1, <1>2, <2>2, <2>3, <2>4 DEF x
<1>3. CASE ~(m.f < 8)
  <2> DEFINE y == m
  <2>1. Shifted(m, y) /\ y.size = m.size /\ y.f = m.f /\ y.i = m.i
    BY <1>1 DEF Shifted, SameStore
  <2> DEFINE z == dcVecAppend(y, p, 8)
  <2>2. x = z
    BY <1>3 DEF arm64_a_double
  <2> HIDE DEF x, y
  <2>3. Appends(y, p, 8)
    BY <1>1, <2>1 DEF Appends, Shifted, SameStore
  <2>4. /\ Laid(z, 0, 0, 8 * m.i, 8 * m.f) /\ More(m, z) /\ SameCounts(y, z)
        /\ y.size + 8 <= VecTotal => z.size = y.size + 8 /\ At("V", y.size, p) \in z.mem
    <3>1. Shifted(m, y)
      BY <2>1
    <3> QED
      BY <2>3, <3>1, StackMore
  <2> HIDE DEF z
  <2>5. z \in VM /\ SameCounts(z, x) /\ x.size = z.size + 0 /\ x.mem = z.mem /\ z.size \in Nat
    BY <2>2, <2>4 DEF Laid, SameCounts, VM
  <2>6. Laid(x, 0, 0, 8 * m.i, 8 * m.f) /\ More(m, x)
    BY <2>2, <2>4
  <2>7. SameStore(x, x) /\ x.f = m.f /\ x.i = m.i /\ m.f <= x.f /\ x.f \in Nat
    BY <1>1, <1>3, <2>1, <2>4, <2>5, <2>6 DEF SameCounts, SameStore, Laid, VM
  <2>8. Laid(x, 0, 0, 8 * x.i, 8 * x.f)
    BY <1>1, <2>6, <2>7, Recount
  <2>9. Room(m) => y.size + 8 <= VecTotal
    BY <1>1, <2>1 DEF Room
  <2> QED
    BY <1>1, <1>3, <2>1, <2>4, <2>5, <2>6, <2>7, <2>8, <2>9 DEF x, y
<1> QED
  BY <1>2, <1>3

\* MIPS n32 and n64 count the registers of both kinds together: an integer.
LEMMA N64LongLong ==
    ASSUME NEW m, Laid(m, 0, 0, 8 * m.i, 8 * m.i), m.copies = VecTotal,
           NEW p \in PartOf, p.len <= 8
    PROVE  LET x == dc_callvm_argLongLong_mips_n64(m, p)
           IN  /\ Laid(x, 0, 0, 8 * x.i, 8 * x.i) /\ More(m, x) /\ x.f = m.f
               /\ m.i < 8 => /\ x.i = m.i + 1 /\ x.size = m.size
                         /\ At("I", 8 * m.i, p) \in x.mem
               /\ ~(m.i < 8) => x.i = m.i
               /\ ~(m.i < 8) /\ Room(m)
                    => /\ x.size = m.size + 8
                       /\ At("V", m.size, p) \in x.mem
<1> DEFINE x == dc_callvm_argLongLong_mips_n64(m, p)
<1>1. /\ m \in VM /\ m.i \in Nat /\ m.f \in Nat /\ p.len \in Nat
      /\ m.size \in Nat /\ VecTotal \in Nat
  BY VecAssumption DEF Laid, VM, PartOf
<1>2. CASE m.i < 8
  <2>1. /\ RegFree(8 * m.i, 8 * m.i, "I", 8 * m.i, p, 8 * (m.i + 1), 8 * (m.i + 1))
        /\ m.i + 1 \in Nat
    BY <1>1, <1>2 DEF RegFree
  <2> DEFINE y == PutI(m, "I", 8 * m.i, p, m.i + 1)
  <2>2. /\ Put(m, "I", 8 * m.i, p).i = m.i
        /\ Laid(y, 0, 0, 8 * (m.i + 1), 8 * (m.i + 1)) /\ More(m, y) /\ y.size = m.size
        /\ y.i = m.i + 1 /\ y.f = m.f /\ At("I", 8 * m.i, p) \in y.mem
    BY <2>1, CountReg
  <2>3. x = y
    BY <1>2, <2>2 DEF dc_callvm_argLongLong_mips_n64, Slot, PutI
  <2> HIDE DEF x, y
  <2>4. Laid(x, 0, 0, 8 * x.i, 8 * x.i)
    BY <1>1, <2>2, <2>3
  <2> QED
    BY <1>1, <1>2, <2>2, <2>3, <2>4 DEF x
<1>3. CASE ~(m.i < 8)
  <2> DEFINE y == m
  <2>1. Shifted(m, y) /\ y.size = m.size /\ y.i = m.i /\ y.f = m.f
    BY <1>1 DEF Shifted, SameStore
  <2> DEFINE z == dcVecAppend(y, p, 8)
  <2>2. x = z
    BY <1>3 DEF dc_callvm_argLongLong_mips_n64, Slot
  <2> HIDE DEF x, y
  <2>3. Appends(y, p, 8)
    BY <1>1, <2>1 DEF Appends, Shifted, SameStore
  <2>4. /\ Laid(z, 0, 0, 8 * m.i, 8 * m.i) /\ More(m, z) /\ SameCounts(y, z)
        /\ y.size + 8 <= VecTotal => z.size = y.size + 8 /\ At("V", y.size, p) \in z.mem
    <3>1. Shifted(m, y)
      BY <2>1
    <3> QED
      BY <2>3, <3>1, StackMore
  <2> HIDE DEF z
  <2>5. z \in VM /\ SameCounts(z, x) /\ x.size = z.size + 0 /\ x.mem = z.mem /\ z.size \in Nat
    BY <2>2, <2>4 DEF Laid, SameCounts, VM
  <2>6. Laid(x, 0, 0, 8 * m.i, 8 * m.i) /\ More(m, x)
    BY <2>2, <2>4
  <2>7. SameStore(x, x) /\ x.i = m.i /\ x.f = m.f /\ m.i <= x.i /\ x.i \in Nat
    BY <1>1, <1>3, <2>1, <2>4, <2>5, <2>6 DEF SameCounts, SameStore, Laid, VM
  <2>8. Laid(x, 0, 0, 8 * x.i, 8 * x.i)
    BY <1>1, <2>6, <2>7, Recount
  <2>9. Room(m) => y.size + 8 <= VecTotal
    BY <1>1, <2>1 DEF Room
  <2> QED
    BY <1>1, <1>3, <2>1, <2>4, <2>5, <2>6, <2>7, <2>8, <2>9 DEF x, y
<1> QED
  BY <1>2, <1>3

\* A double.
LEMMA N64Double ==
    ASSUME NEW m, Laid(m, 0, 0, 8 * m.i, 8 * m.i), m.copies = VecTotal,
           NEW p \in PartOf, p.len <= 8
    PROVE  LET x == dc_callvm_argDouble_mips_n64(m, p)
           IN  /\ Laid(x, 0, 0, 8 * x.i, 8 * x.i) /\ More(m, x) /\ x.f = m.f
               /\ m.i < 8 => /\ x.i = m.i + 1 /\ x.size = m.size
                         /\ At("F", 8 * m.i, p) \in x.mem
               /\ ~(m.i < 8) => x.i = m.i
               /\ ~(m.i < 8) /\ Room(m)
                    => /\ x.size = m.size + 8
                       /\ At("V", m.size, p) \in x.mem
<1> DEFINE x == dc_callvm_argDouble_mips_n64(m, p)
<1>1. /\ m \in VM /\ m.i \in Nat /\ m.f \in Nat /\ p.len \in Nat
      /\ m.size \in Nat /\ VecTotal \in Nat
  BY VecAssumption DEF Laid, VM, PartOf
<1>2. CASE m.i < 8
  <2>1. /\ RegFree(8 * m.i, 8 * m.i, "F", 8 * m.i, p, 8 * (m.i + 1), 8 * (m.i + 1))
        /\ m.i + 1 \in Nat
    BY <1>1, <1>2 DEF RegFree
  <2> DEFINE y == PutI(m, "F", 8 * m.i, p, m.i + 1)
  <2>2. /\ Put(m, "F", 8 * m.i, p).i = m.i
        /\ Laid(y, 0, 0, 8 * (m.i + 1), 8 * (m.i + 1)) /\ More(m, y) /\ y.size = m.size
        /\ y.i = m.i + 1 /\ y.f = m.f /\ At("F", 8 * m.i, p) \in y.mem
    BY <2>1, CountReg
  <2>3. x = y
    BY <1>2, <2>2 DEF dc_callvm_argDouble_mips_n64, Slot, PutI
  <2> HIDE DEF x, y
  <2>4. Laid(x, 0, 0, 8 * x.i, 8 * x.i)
    BY <1>1, <2>2, <2>3
  <2> QED
    BY <1>1, <1>2, <2>2, <2>3, <2>4 DEF x
<1>3. CASE ~(m.i < 8)
  <2> DEFINE y == m
  <2>1. Shifted(m, y) /\ y.size = m.size /\ y.i = m.i /\ y.f = m.f
    BY <1>1 DEF Shifted, SameStore
  <2> DEFINE z == dcVecAppend(y, p, 8)
  <2>2. x = z
    BY <1>3 DEF dc_callvm_argDouble_mips_n64, Slot
  <2> HIDE DEF x, y
  <2>3. Appends(y, p, 8)
    BY <1>1, <2>1 DEF Appends, Shifted, SameStore
  <2>4. /\ Laid(z, 0, 0, 8 * m.i, 8 * m.i) /\ More(m, z) /\ SameCounts(y, z)
        /\ y.size + 8 <= VecTotal => z.size = y.size + 8 /\ At("V", y.size, p) \in z.mem
    <3>1. Shifted(m, y)
      BY <2>1
    <3> QED
      BY <2>3, <3>1, StackMore
  <2> HIDE DEF z
  <2>5. z \in VM /\ SameCounts(z, x) /\ x.size = z.size + 0 /\ x.mem = z.mem /\ z.size \in Nat
    BY <2>2, <2>4 DEF Laid, SameCounts, VM
  <2>6. Laid(x, 0, 0, 8 * m.i, 8 * m.i) /\ More(m, x)
    BY <2>2, <2>4
  <2>7. SameStore(x, x) /\ x.i = m.i /\ x.f = m.f /\ m.i <= x.i /\ x.i \in Nat
    BY <1>1, <1>3, <2>1, <2>4, <2>5, <2>6 DEF SameCounts, SameStore, Laid, VM
  <2>8. Laid(x, 0, 0, 8 * x.i, 8 * x.i)
    BY <1>1, <2>6, <2>7, Recount
  <2>9. Room(m) => y.size + 8 <= VecTotal
    BY <1>1, <2>1 DEF Room
  <2> QED
    BY <1>1, <1>3, <2>1, <2>4, <2>5, <2>6, <2>7, <2>8, <2>9 DEF x, y
<1> QED
  BY <1>2, <1>3

\* A float.
LEMMA N64Float ==
    ASSUME NEW m, Laid(m, 0, 0, 8 * m.i, 8 * m.i), m.copies = VecTotal,
           NEW p \in PartOf, p.len <= 4
    PROVE  LET x == dc_callvm_argFloat_mips_n64(m, p)
           IN  /\ Laid(x, 0, 0, 8 * x.i, 8 * x.i) /\ More(m, x) /\ x.f = m.f
               /\ m.i < 8 => /\ x.i = m.i + 1 /\ x.size = m.size
                         /\ At("F", 8 * m.i, p) \in x.mem
               /\ ~(m.i < 8) => x.i = m.i
               /\ ~(m.i < 8) /\ Room(m)
                    => /\ x.size = m.size + 8
                       /\ At("V", m.size, p) \in x.mem
<1> DEFINE x == dc_callvm_argFloat_mips_n64(m, p)
<1>1. /\ m \in VM /\ m.i \in Nat /\ m.f \in Nat /\ p.len \in Nat
      /\ m.size \in Nat /\ VecTotal \in Nat
  BY VecAssumption DEF Laid, VM, PartOf
<1>2. CASE m.i < 8
  <2>1. /\ RegFree(8 * m.i, 8 * m.i, "F", 8 * m.i, p, 8 * (m.i + 1), 8 * (m.i + 1))
        /\ m.i + 1 \in Nat
    BY <1>1, <1>2 DEF RegFree
  <2> DEFINE y == PutI(m, "F", 8 * m.i, p, m.i + 1)
  <2>2. /\ Put(m, "F", 8 * m.i, p).i = m.i
        /\ Laid(y, 0, 0, 8 * (m.i + 1), 8 * (m.i + 1)) /\ More(m, y) /\ y.size = m.size
        /\ y.i = m.i + 1 /\ y.f = m.f /\ At("F", 8 * m.i, p) \in y.mem
    BY <2>1, CountReg
  <2>3. x = y
    BY <1>2, <2>2 DEF dc_callvm_argFloat_mips_n64, Slot, PutI
  <2> HIDE DEF x, y
  <2>4. Laid(x, 0, 0, 8 * x.i, 8 * x.i)
    BY <1>1, <2>2, <2>3
  <2> QED
    BY <1>1, <1>2, <2>2, <2>3, <2>4 DEF x
<1>3. CASE ~(m.i < 8)
  <2> DEFINE y == m
  <2>1. Shifted(m, y) /\ y.size = m.size /\ y.i = m.i /\ y.f = m.f
    BY <1>1 DEF Shifted, SameStore
  <2> DEFINE z == dcVecAppend(y, p, 4)
  <2>2. x = dcVecSkip(z, 4)
    BY <1>3 DEF dc_callvm_argFloat_mips_n64, Slot
  <2> HIDE DEF x, y
  <2>3. Appends(y, p, 4)
    BY <1>1, <2>1 DEF Appends, Shifted, SameStore
  <2>4. /\ Laid(z, 0, 0, 8 * m.i, 8 * m.i) /\ More(m, z) /\ SameCounts(y, z)
        /\ y.size + 4 <= VecTotal => z.size = y.size + 4 /\ At("V", y.size, p) \in z.mem
    <3>1. Shifted(m, y)
      BY <2>1
    <3> QED
      BY <2>3, <3>1, StackMore
  <2> HIDE DEF z
  <2>5. z \in VM /\ Shifted(z, x) /\ SameCounts(z, x) /\ x.size = z.size + 4 /\ x.mem = z.mem
    BY <2>2, <2>4, Skipped DEF Laid, Shifted, SameStore
  <2>6. Laid(x, 0, 0, 8 * m.i, 8 * m.i) /\ More(m, x)
    BY <1>1, <2>4, <2>5, MoreShifted
  <2>7. SameStore(x, x) /\ x.i = m.i /\ x.f = m.f /\ m.i <= x.i /\ x.i \in Nat
    BY <1>1, <1>3, <2>1, <2>4, <2>5, <2>6 DEF SameCounts, SameStore, Laid, VM
  <2>8. Laid(x, 0, 0, 8 * x.i, 8 * x.i)
    BY <1>1, <2>6, <2>7, Recount
  <2>9. Room(m) => y.size + 4 <= VecTotal
    BY <1>1, <2>1 DEF Room
  <2> QED
    BY <1>1, <1>3, <2>1, <2>4, <2>5, <2>6, <2>7, <2>8, <2>9 DEF x, y
<1> QED
  BY <1>2, <1>3

\* The System V PowerPC: a word in a register or at the end of the vector.
LEMMA Sysv32Int ==
    ASSUME NEW m, Laid(m, 0, 0, 4 * m.i, 8 * m.f), m.copies = VecTotal,
           NEW p \in PartOf, p.len <= 4, NEW n, p = Val(n, "i4")
    PROVE  LET x == dc_callvm_argInt_ppc32_sysv(m, n)
           IN  /\ Laid(x, 0, 0, 4 * x.i, 8 * x.f) /\ More(m, x) /\ x.f = m.f
               /\ m.i < 8 => /\ x.i = m.i + 1 /\ x.size = m.size
                         /\ At("I", 4 * m.i, p) \in x.mem
               /\ ~(m.i < 8) => x.i = m.i
               /\ ~(m.i < 8) /\ Room(m)
                    => /\ x.size = m.size + 4
                       /\ At("V", m.size, p) \in x.mem
<1> DEFINE x == dc_callvm_argInt_ppc32_sysv(m, n)
<1>1. /\ m \in VM /\ m.i \in Nat /\ m.f \in Nat /\ p.len \in Nat
      /\ m.size \in Nat /\ VecTotal \in Nat
  BY VecAssumption DEF Laid, VM, PartOf
<1>2. CASE m.i < 8
  <2>1. /\ RegFree(4 * m.i, 8 * m.f, "I", 4 * m.i, p, 4 * (m.i + 1), 8 * m.f)
        /\ m.i + 1 \in Nat
    BY <1>1, <1>2 DEF RegFree
  <2> DEFINE y == PutI(m, "I", 4 * m.i, p, m.i + 1)
  <2>2. /\ Put(m, "I", 4 * m.i, p).i = m.i
        /\ Laid(y, 0, 0, 4 * (m.i + 1), 8 * m.f) /\ More(m, y) /\ y.size = m.size
        /\ y.i = m.i + 1 /\ y.f = m.f /\ At("I", 4 * m.i, p) \in y.mem
    BY <2>1, CountReg
  <2>3. x = y
    BY <1>2, <2>2 DEF dc_callvm_argInt_ppc32_sysv, IntReg, PutI
  <2> HIDE DEF x, y
  <2>4. Laid(x, 0, 0, 4 * x.i, 8 * x.f)
    BY <1>1, <2>2, <2>3
  <2> QED
    BY <1>1, <1>2, <2>2, <2>3, <2>4 DEF x
<1>3. CASE ~(m.i < 8)
  <2> DEFINE y == m
  <2>1. Shifted(m, y) /\ y.size = m.size /\ y.i = m.i /\ y.f = m.f
    BY <1>1 DEF Shifted, SameStore
  <2> DEFINE z == dcVecAppend(y, p, 4)
  <2>2. x = z
    BY <1>3 DEF dc_callvm_argInt_ppc32_sysv, IntReg
  <2> HIDE DEF x, y
  <2>3. Appends(y, p, 4)
    BY <1>1, <2>1 DEF Appends, Shifted, SameStore
  <2>4. /\ Laid(z, 0, 0, 4 * m.i, 8 * m.f) /\ More(m, z) /\ SameCounts(y, z)
        /\ y.size + 4 <= VecTotal => z.size = y.size + 4 /\ At("V", y.size, p) \in z.mem
    <3>1. Shifted(m, y)
      BY <2>1
    <3> QED
      BY <2>3, <3>1, StackMore
  <2> HIDE DEF z
  <2>5. z \in VM /\ SameCounts(z, x) /\ x.size = z.size + 0 /\ x.mem = z.mem /\ z.size \in Nat
    BY <2>2, <2>4 DEF Laid, SameCounts, VM
  <2>6. Laid(x, 0, 0, 4 * m.i, 8 * m.f) /\ More(m, x)
    BY <2>2, <2>4
  <2>7. SameStore(x, x) /\ x.i = m.i /\ x.f = m.f /\ m.i <= x.i /\ x.i \in Nat
    BY <1>1, <1>3, <2>1, <2>4, <2>5, <2>6 DEF SameCounts, SameStore, Laid, VM
  <2>8. Laid(x, 0, 0, 4 * x.i, 8 * x.f)
    BY <1>1, <2>6, <2>7, Recount
  <2>9. Room(m) => y.size + 4 <= VecTotal
    BY <1>1, <2>1 DEF Room
  <2> QED
    BY <1>1, <1>3, <2>1, <2>4, <2>5, <2>6, <2>7, <2>8, <2>9 DEF x, y
<1> QED
  BY <1>2, <1>3

\* Two words, in an even register and the next, or aligned in the vector.
LEMMA Sysv32LongLong ==
    ASSUME NEW m, Laid(m, 0, 0, 4 * m.i, 8 * m.f), m.copies = VecTotal,
           NEW p \in PartOf, p.len <= 8, m.i <= 8, NEW n, p = Val(n, "i8")
    PROVE  LET x == dc_callvm_argLongLong_ppc32_sysv(m, n)
           IN  /\ Laid(x, 0, 0, 4 * x.i, 8 * x.f) /\ More(m, x) /\ x.f = m.f
               /\ m.i < 7 => /\ x.i = RoundEven(m.i) + 2 /\ x.size = m.size
                         /\ At("I", 4 * RoundEven(m.i), p) \in x.mem
               /\ ~(m.i < 7) => x.i = 8
               /\ ~(m.i < 7) /\ Room(m)
                    => /\ x.size = ((m.size + 8 - 1) \div 8) * 8 + 8
                       /\ At("V", ((m.size + 8 - 1) \div 8) * 8, p) \in x.mem
<1> DEFINE x == dc_callvm_argLongLong_ppc32_sysv(m, n)
<1>1. /\ m \in VM /\ m.i \in Nat /\ m.f \in Nat /\ p.len \in Nat
      /\ m.size \in Nat /\ VecTotal \in Nat
  BY VecAssumption DEF Laid, VM, PartOf
<1>2. CASE m.i < 7
  <2>1. /\ RegFree(4 * m.i, 8 * m.f, "I", 4 * RoundEven(m.i), p, 4 * (RoundEven(m.i) + 2), 8 * m.f)
        /\ RoundEven(m.i) + 2 \in Nat
    BY <1>1, <1>2 DEF RegFree, RoundEven
  <2> DEFINE y == PutI(m, "I", 4 * RoundEven(m.i), p, RoundEven(m.i) + 2)
  <2>2. /\ Put(m, "I", 4 * RoundEven(m.i), p).i = m.i
        /\ Laid(y, 0, 0, 4 * (RoundEven(m.i) + 2), 8 * m.f) /\ More(m, y) /\ y.size = m.size
        /\ y.i = RoundEven(m.i) + 2 /\ y.f = m.f /\ At("I", 4 * RoundEven(m.i), p) \in y.mem
    BY <2>1, CountReg
  <2>3. x = y
    BY <1>2, <2>2 DEF dc_callvm_argLongLong_ppc32_sysv, PutI
  <2> HIDE DEF x, y
  <2>4. Laid(x, 0, 0, 4 * x.i, 8 * x.f)
    BY <1>1, <2>2, <2>3 DEF RoundEven
  <2> QED
    BY <1>1, <1>2, <2>2, <2>3, <2>4 DEF x
<1>3. CASE ~(m.i < 7)
  <2> DEFINE y == dcVecAlign([m EXCEPT !.i = 8], 8)
  <2> DEFINE w == [m EXCEPT !.i = 8]
             v == dcVecAlign(w, 8)
  <2>0. /\ Shifted(m, w) /\ w.size = m.size /\ w.i = 8 /\ w.f = m.f /\ w \in VM
    BY <1>1 DEF Shifted, SameStore, VM
  <2> HIDE DEF w
  <2>1a. Shifted(w, v) /\ SameCounts(w, v) /\ v.size = ((w.size + 8 - 1) \div 8) * 8
    BY <2>0, VecAligned
  <2> HIDE DEF v
  <2>1b. Shifted(m, v) /\ v.size = ((m.size + 8 - 1) \div 8) * 8 /\ v.i = 8 /\ v.f = m.f
    BY <1>1, <2>0, <2>1a, ShiftedTwice DEF SameCounts
  <2>1. Shifted(m, y) /\ y.size = ((m.size + 8 - 1) \div 8) * 8 /\ y.i = 8 /\ y.f = m.f
    BY <2>1b DEF v, w
  <2> DEFINE z == dcVecAppend(y, p, 8)
  <2>2. x = z
    BY <1>3 DEF dc_callvm_argLongLong_ppc32_sysv
  <2> HIDE DEF x, y
  <2>3. Appends(y, p, 8)
    BY <1>1, <2>1 DEF Appends, Shifted, SameStore
  <2>4. /\ Laid(z, 0, 0, 4 * m.i, 8 * m.f) /\ More(m, z) /\ SameCounts(y, z)
        /\ y.size + 8 <= VecTotal => z.size = y.size + 8 /\ At("V", y.size, p) \in z.mem
    <3>1. Shifted(m, y)
      BY <2>1
    <3> QED
      BY <2>3, <3>1, StackMore
  <2> HIDE DEF z
  <2>5. z \in VM /\ SameCounts(z, x) /\ x.size = z.size + 0 /\ x.mem = z.mem /\ z.size \in Nat
    BY <2>2, <2>4 DEF Laid, SameCounts, VM
  <2>6. Laid(x, 0, 0, 4 * m.i, 8 * m.f) /\ More(m, x)
    BY <2>2, <2>4
  <2>7. SameStore(x, x) /\ x.i = 8 /\ x.f = m.f /\ m.i <= x.i /\ x.i \in Nat
    BY <1>1, <1>3, <2>1, <2>4, <2>5, <2>6 DEF SameCounts, SameStore, Laid, VM
  <2>8. Laid(x, 0, 0, 4 * x.i, 8 * x.f)
    BY <1>1, <2>6, <2>7, Recount
  <2>9. Room(m) => y.size + 8 <= VecTotal
    BY <1>1, <2>1 DEF Room
  <2> QED
    BY <1>1, <1>3, <2>1, <2>4, <2>5, <2>6, <2>7, <2>8, <2>9 DEF x, y
<1> QED
  BY <1>2, <1>3

\* A double.
LEMMA Sysv32Double ==
    ASSUME NEW m, Laid(m, 0, 0, 4 * m.i, 8 * m.f), m.copies = VecTotal,
           NEW p \in PartOf, p.len <= 8, NEW n, p = Val(n, "f8")
    PROVE  LET x == dc_callvm_argDouble_ppc32_sysv(m, n)
           IN  /\ Laid(x, 0, 0, 4 * x.i, 8 * x.f) /\ More(m, x) /\ x.i = m.i
               /\ m.f < 8 => /\ x.f = m.f + 1 /\ x.size = m.size
                         /\ At("F", 8 * m.f, p) \in x.mem
               /\ ~(m.f < 8) => x.f = m.f
               /\ ~(m.f < 8) /\ Room(m)
                    => /\ x.size = ((m.size + 8 - 1) \div 8) * 8 + 8
                       /\ At("V", ((m.size + 8 - 1) \div 8) * 8, p) \in x.mem
<1> DEFINE x == dc_callvm_argDouble_ppc32_sysv(m, n)
<1>1. /\ m \in VM /\ m.i \in Nat /\ m.f \in Nat /\ p.len \in Nat
      /\ m.size \in Nat /\ VecTotal \in Nat
  BY VecAssumption DEF Laid, VM, PartOf
<1>2. CASE m.f < 8
  <2>1. /\ RegFree(4 * m.i, 8 * m.f, "F", 8 * m.f, p, 4 * m.i, 8 * (m.f + 1))
        /\ m.f + 1 \in Nat
    BY <1>1, <1>2 DEF RegFree
  <2> DEFINE y == PutF(m, "F", 8 * m.f, p, m.f + 1)
  <2>2. /\ Put(m, "F", 8 * m.f, p).f = m.f
        /\ Laid(y, 0, 0, 4 * m.i, 8 * (m.f + 1)) /\ More(m, y) /\ y.size = m.size
        /\ y.f = m.f + 1 /\ y.i = m.i /\ At("F", 8 * m.f, p) \in y.mem
    BY <2>1, CountReg
  <2>3. x = y
    BY <1>2, <2>2 DEF dc_callvm_argDouble_ppc32_sysv, FloatReg, PutF
  <2> HIDE DEF x, y
  <2>4. Laid(x, 0, 0, 4 * x.i, 8 * x.f)
    BY <1>1, <2>2, <2>3
  <2> QED
    BY <1>1, <1>2, <2>2, <2>3, <2>4 DEF x
<1>3. CASE ~(m.f < 8)
  <2> DEFINE y == dcVecAlign(m, 8)
  <2>1. Shifted(m, y) /\ y.size = ((m.size + 8 - 1) \div 8) * 8 /\ y.f = m.f /\ y.i = m.i
    BY <1>1, VecAligned DEF SameCounts
  <2> DEFINE z == dcVecAppend(y, p, 8)
  <2>2. x = z
    BY <1>3 DEF dc_callvm_argDouble_ppc32_sysv, FloatReg
  <2> HIDE DEF x, y
  <2>3. Appends(y, p, 8)
    BY <1>1, <2>1 DEF Appends, Shifted, SameStore
  <2>4. /\ Laid(z, 0, 0, 4 * m.i, 8 * m.f) /\ More(m, z) /\ SameCounts(y, z)
        /\ y.size + 8 <= VecTotal => z.size = y.size + 8 /\ At("V", y.size, p) \in z.mem
    <3>1. Shifted(m, y)
      BY <2>1
    <3> QED
      BY <2>3, <3>1, StackMore
  <2> HIDE DEF z
  <2>5. z \in VM /\ SameCounts(z, x) /\ x.size = z.size + 0 /\ x.mem = z.mem /\ z.size \in Nat
    BY <2>2, <2>4 DEF Laid, SameCounts, VM
  <2>6. Laid(x, 0, 0, 4 * m.i, 8 * m.f) /\ More(m, x)
    BY <2>2, <2>4
  <2>7. SameStore(x, x) /\ x.f = m.f /\ x.i = m.i /\ m.f <= x.f /\ x.f \in Nat
    BY <1>1, <1>3, <2>1, <2>4, <2>5, <2>6 DEF SameCounts, SameStore, Laid, VM
  <2>8. Laid(x, 0, 0, 4 * x.i, 8 * x.f)
    BY <1>1, <2>6, <2>7, Recount
  <2>9. Room(m) => y.size + 8 <= VecTotal
    BY <1>1, <2>1 DEF Room
  <2> QED
    BY <1>1, <1>3, <2>1, <2>4, <2>5, <2>6, <2>7, <2>8, <2>9 DEF x, y
<1> QED
  BY <1>2, <1>3

\* A float, which a register holds as a double.
LEMMA Sysv32Float ==
    ASSUME NEW m, Laid(m, 0, 0, 4 * m.i, 8 * m.f), m.copies = VecTotal,
           NEW p \in PartOf, p.len <= 8, NEW n, p = Val(n, "w8"),
           NEW q \in PartOf, q = Val(n, "f4"), q.len <= 4
    PROVE  LET x == dc_callvm_argFloat_ppc32_sysv(m, n)
           IN  /\ Laid(x, 0, 0, 4 * x.i, 8 * x.f) /\ More(m, x) /\ x.i = m.i
               /\ m.f < 8 => /\ x.f = m.f + 1 /\ x.size = m.size
                         /\ At("F", 8 * m.f, p) \in x.mem
               /\ ~(m.f < 8) => x.f = m.f
               /\ ~(m.f < 8) /\ Room(m)
                    => /\ x.size = m.size + 4
                       /\ At("V", m.size, q) \in x.mem
<1> DEFINE x == dc_callvm_argFloat_ppc32_sysv(m, n)
<1>1. /\ m \in VM /\ m.i \in Nat /\ m.f \in Nat /\ p.len \in Nat /\ q.len \in Nat
      /\ m.size \in Nat /\ VecTotal \in Nat
  BY VecAssumption DEF Laid, VM, PartOf
<1>2. CASE m.f < 8
  <2>1. /\ RegFree(4 * m.i, 8 * m.f, "F", 8 * m.f, p, 4 * m.i, 8 * (m.f + 1))
        /\ m.f + 1 \in Nat
    BY <1>1, <1>2 DEF RegFree
  <2> DEFINE y == PutF(m, "F", 8 * m.f, p, m.f + 1)
  <2>2. /\ Put(m, "F", 8 * m.f, p).f = m.f
        /\ Laid(y, 0, 0, 4 * m.i, 8 * (m.f + 1)) /\ More(m, y) /\ y.size = m.size
        /\ y.f = m.f + 1 /\ y.i = m.i /\ At("F", 8 * m.f, p) \in y.mem
    BY <2>1, CountReg
  <2>3. x = y
    BY <1>2, <2>2 DEF dc_callvm_argFloat_ppc32_sysv, FloatReg, PutF
  <2> HIDE DEF x, y
  <2>4. Laid(x, 0, 0, 4 * x.i, 8 * x.f)
    BY <1>1, <2>2, <2>3
  <2> QED
    BY <1>1, <1>2, <2>2, <2>3, <2>4 DEF x
<1>3. CASE ~(m.f < 8)
  <2> DEFINE y == m
  <2>1. Shifted(m, y) /\ y.size = m.size /\ y.f = m.f /\ y.i = m.i
    BY <1>1 DEF Shifted, SameStore
  <2> DEFINE z == dcVecAppend(y, q, 4)
  <2>2. x = z
    BY <1>3 DEF dc_callvm_argFloat_ppc32_sysv, FloatReg
  <2> HIDE DEF x, y
  <2>3. Appends(y, q, 4)
    BY <1>1, <2>1 DEF Appends, Shifted, SameStore
  <2>4. /\ Laid(z, 0, 0, 4 * m.i, 8 * m.f) /\ More(m, z) /\ SameCounts(y, z)
        /\ y.size + 4 <= VecTotal => z.size = y.size + 4 /\ At("V", y.size, q) \in z.mem
    <3>1. Shifted(m, y)
      BY <2>1
    <3> QED
      BY <2>3, <3>1, StackMore
  <2> HIDE DEF z
  <2>5. z \in VM /\ SameCounts(z, x) /\ x.size = z.size + 0 /\ x.mem = z.mem /\ z.size \in Nat
    BY <2>2, <2>4 DEF Laid, SameCounts, VM
  <2>6. Laid(x, 0, 0, 4 * m.i, 8 * m.f) /\ More(m, x)
    BY <2>2, <2>4
  <2>7. SameStore(x, x) /\ x.f = m.f /\ x.i = m.i /\ m.f <= x.f /\ x.f \in Nat
    BY <1>1, <1>3, <2>1, <2>4, <2>5, <2>6 DEF SameCounts, SameStore, Laid, VM
  <2>8. Laid(x, 0, 0, 4 * x.i, 8 * x.f)
    BY <1>1, <2>6, <2>7, Recount
  <2>9. Room(m) => y.size + 4 <= VecTotal
    BY <1>1, <2>1 DEF Room
  <2> QED
    BY <1>1, <1>3, <2>1, <2>4, <2>5, <2>6, <2>7, <2>8, <2>9 DEF x, y
<1> QED
  BY <1>2, <1>3

\* Apple's integers, which take as many bytes of the stack as they have.
LEMMA AppleInt ==
    ASSUME NEW m, Laid(m, 0, 0, 8 * m.i, 8 * m.f), m.copies = VecTotal,
           NEW p \in PartOf, p.len <= 8, NEW n, NEW t, t \notin {"float", "double"}, p = Val(n, FormOf[t]),
           p.len \in {1, 2, 4, 8}
    PROVE  LET x == apple_a(m, t, n)
           IN  /\ Laid(x, 0, 0, 8 * x.i, 8 * x.f) /\ More(m, x) /\ x.f = m.f
               /\ m.i < 8 => /\ x.i = m.i + 1 /\ x.size = m.size
                         /\ At("I", 8 * m.i, p) \in x.mem
               /\ ~(m.i < 8) => x.i = m.i
               /\ ~(m.i < 8) /\ Room(m)
                    => /\ x.size = ((m.size + p.len - 1) \div p.len) * p.len + p.len
                       /\ At("V", ((m.size + p.len - 1) \div p.len) * p.len, p) \in x.mem
<1> DEFINE x == apple_a(m, t, n)
<1>1. /\ m \in VM /\ m.i \in Nat /\ m.f \in Nat /\ p.len \in Nat
      /\ m.size \in Nat /\ VecTotal \in Nat
  BY VecAssumption DEF Laid, VM, PartOf
<1>2. CASE m.i < 8
  <2>1. /\ RegFree(8 * m.i, 8 * m.f, "I", 8 * m.i, p, 8 * (m.i + 1), 8 * m.f)
        /\ m.i + 1 \in Nat
    BY <1>1, <1>2 DEF RegFree
  <2> DEFINE y == PutI(m, "I", 8 * m.i, p, m.i + 1)
  <2>2. /\ Put(m, "I", 8 * m.i, p).i = m.i
        /\ Laid(y, 0, 0, 8 * (m.i + 1), 8 * m.f) /\ More(m, y) /\ y.size = m.size
        /\ y.i = m.i + 1 /\ y.f = m.f /\ At("I", 8 * m.i, p) \in y.mem
    BY <2>1, CountReg
  <2>3. x = y
    BY <1>2, <2>2 DEF apple_a, PutI
  <2> HIDE DEF x, y
  <2>4. Laid(x, 0, 0, 8 * x.i, 8 * x.f)
    BY <1>1, <2>2, <2>3
  <2> QED
    BY <1>1, <1>2, <2>2, <2>3, <2>4 DEF x
<1>3. CASE ~(m.i < 8)
  <2> DEFINE y == dcVecAlign(m, p.len)
  <2>1. Shifted(m, y) /\ y.size = ((m.size + p.len - 1) \div p.len) * p.len /\ y.i = m.i /\ y.f = m.f
    BY <1>1, VecAligned DEF SameCounts
  <2> DEFINE z == dcVecAppend(y, p, p.len)
  <2>2. x = z
    BY <1>3 DEF apple_a
  <2> HIDE DEF x, y
  <2>3. Appends(y, p, p.len)
    BY <1>1, <2>1 DEF Appends, Shifted, SameStore
  <2>4. /\ Laid(z, 0, 0, 8 * m.i, 8 * m.f) /\ More(m, z) /\ SameCounts(y, z)
        /\ y.size + p.len <= VecTotal => z.size = y.size + p.len /\ At("V", y.size, p) \in z.mem
    <3>1. Shifted(m, y)
      BY <2>1
    <3> QED
      BY <2>3, <3>1, StackMore
  <2> HIDE DEF z
  <2>5. z \in VM /\ SameCounts(z, x) /\ x.size = z.size + 0 /\ x.mem = z.mem /\ z.size \in Nat
    BY <2>2, <2>4 DEF Laid, SameCounts, VM
  <2>6. Laid(x, 0, 0, 8 * m.i, 8 * m.f) /\ More(m, x)
    BY <2>2, <2>4
  <2>7. SameStore(x, x) /\ x.i = m.i /\ x.f = m.f /\ m.i <= x.i /\ x.i \in Nat
    BY <1>1, <1>3, <2>1, <2>4, <2>5, <2>6 DEF SameCounts, SameStore, Laid, VM
  <2>8. Laid(x, 0, 0, 8 * x.i, 8 * x.f)
    BY <1>1, <2>6, <2>7, Recount
  <2>9. Room(m) => y.size + p.len <= VecTotal
    BY <1>1, <2>1 DEF Room
  <2> QED
    BY <1>1, <1>3, <2>1, <2>4, <2>5, <2>6, <2>7, <2>8, <2>9 DEF x, y
<1> QED
  BY <1>2, <1>3

\* Apple's floats and doubles.
LEMMA AppleFloat ==
    ASSUME NEW m, Laid(m, 0, 0, 8 * m.i, 8 * m.f), m.copies = VecTotal,
           NEW p \in PartOf, p.len <= 8, NEW n, NEW t, t \in {"float", "double"}, p = Val(n, FormOf[t]),
           p.len \in {1, 2, 4, 8}
    PROVE  LET x == apple_a(m, t, n)
           IN  /\ Laid(x, 0, 0, 8 * x.i, 8 * x.f) /\ More(m, x) /\ x.i = m.i
               /\ m.f < 8 => /\ x.f = m.f + 1 /\ x.size = m.size
                         /\ At("F", 8 * m.f, p) \in x.mem
               /\ ~(m.f < 8) => x.f = m.f
               /\ ~(m.f < 8) /\ Room(m)
                    => /\ x.size = ((m.size + p.len - 1) \div p.len) * p.len + p.len
                       /\ At("V", ((m.size + p.len - 1) \div p.len) * p.len, p) \in x.mem
<1> DEFINE x == apple_a(m, t, n)
<1>1. /\ m \in VM /\ m.i \in Nat /\ m.f \in Nat /\ p.len \in Nat
      /\ m.size \in Nat /\ VecTotal \in Nat
  BY VecAssumption DEF Laid, VM, PartOf
<1>2. CASE m.f < 8
  <2>1. /\ RegFree(8 * m.i, 8 * m.f, "F", 8 * m.f, p, 8 * m.i, 8 * (m.f + 1))
        /\ m.f + 1 \in Nat
    BY <1>1, <1>2 DEF RegFree
  <2> DEFINE y == PutF(m, "F", 8 * m.f, p, m.f + 1)
  <2>2. /\ Put(m, "F", 8 * m.f, p).f = m.f
        /\ Laid(y, 0, 0, 8 * m.i, 8 * (m.f + 1)) /\ More(m, y) /\ y.size = m.size
        /\ y.f = m.f + 1 /\ y.i = m.i /\ At("F", 8 * m.f, p) \in y.mem
    BY <2>1, CountReg
  <2>3. x = y
    BY <1>2, <2>2 DEF apple_a, PutF
  <2> HIDE DEF x, y
  <2>4. Laid(x, 0, 0, 8 * x.i, 8 * x.f)
    BY <1>1, <2>2, <2>3
  <2> QED
    BY <1>1, <1>2, <2>2, <2>3, <2>4 DEF x
<1>3. CASE ~(m.f < 8)
  <2> DEFINE y == dcVecAlign(m, p.len)
  <2>1. Shifted(m, y) /\ y.size = ((m.size + p.len - 1) \div p.len) * p.len /\ y.f = m.f /\ y.i = m.i
    BY <1>1, VecAligned DEF SameCounts
  <2> DEFINE z == dcVecAppend(y, p, p.len)
  <2>2. x = z
    BY <1>3 DEF apple_a
  <2> HIDE DEF x, y
  <2>3. Appends(y, p, p.len)
    BY <1>1, <2>1 DEF Appends, Shifted, SameStore
  <2>4. /\ Laid(z, 0, 0, 8 * m.i, 8 * m.f) /\ More(m, z) /\ SameCounts(y, z)
        /\ y.size + p.len <= VecTotal => z.size = y.size + p.len /\ At("V", y.size, p) \in z.mem
    <3>1. Shifted(m, y)
      BY <2>1
    <3> QED
      BY <2>3, <3>1, StackMore
  <2> HIDE DEF z
  <2>5. z \in VM /\ SameCounts(z, x) /\ x.size = z.size + 0 /\ x.mem = z.mem /\ z.size \in Nat
    BY <2>2, <2>4 DEF Laid, SameCounts, VM
  <2>6. Laid(x, 0, 0, 8 * m.i, 8 * m.f) /\ More(m, x)
    BY <2>2, <2>4
  <2>7. SameStore(x, x) /\ x.f = m.f /\ x.i = m.i /\ m.f <= x.f /\ x.f \in Nat
    BY <1>1, <1>3, <2>1, <2>4, <2>5, <2>6 DEF SameCounts, SameStore, Laid, VM
  <2>8. Laid(x, 0, 0, 8 * x.i, 8 * x.f)
    BY <1>1, <2>6, <2>7, Recount
  <2>9. Room(m) => y.size + p.len <= VecTotal
    BY <1>1, <2>1 DEF Room
  <2> QED
    BY <1>1, <1>3, <2>1, <2>4, <2>5, <2>6, <2>7, <2>8, <2>9 DEF x, y
<1> QED
  BY <1>2, <1>3

\* The types that every target passes.
Scalar == {"int", "longlong", "float", "double"}

\* AArch64: an argument disturbs no other, a compiled callee finds it whole, and
\* so does a callback that is in step with the call VM, which then stays in step.
\* The lemmas named ...Binds say the same of the other conventions.
LEMMA Arm64Binds ==
    ASSUME NEW m, Laid(m, 0, 0, 8 * m.i, 8 * m.f), m.copies = VecTotal,
           NEW t \in Scalar, NEW n \in Nat
    PROVE  LET x == vt_arm64_arg(m, t, n)
           IN  /\ Laid(x, 0, 0, 8 * x.i, 8 * x.f) /\ More(m, x)
               /\ Room(m) => Intact(x, n)
               /\ \A r \in Cursors : Room(m) /\ r.i = m.i /\ r.f = m.f /\ r.sp = m.size =>
                    LET a == dcbArg_arm64(r, t)
                    IN  Kept(r, a) /\ a.rd.i = x.i /\ a.rd.f = x.f /\ a.rd.sp = x.size /\ Found(x.mem, a, n)
<1> DEFINE x == vt_arm64_arg(m, t, n)
<1>1. /\ m \in VM /\ m.i \in Nat /\ m.f \in Nat /\ m.size \in Nat /\ VecTotal \in Nat
  BY VecAssumption DEF Laid, VM
<1>2. CASE t \in {"int", "longlong"}
  <2> DEFINE p == Val(n, "i8")
  <2>1. /\ p \in PartOf /\ "i8" \in Forms /\ Bytes["i8"] = 8 /\ p.len = Bytes["i8"]
    BY <1>2, ValPart, FormBytes DEF Forms
  <2>2. x = arm64_a_i64(m, p)
    BY <1>2 DEF vt_arm64_arg
  <2>3. /\ Laid(x, 0, 0, 8 * x.i, 8 * x.f) /\ More(m, x) /\ x.f = m.f
        /\ m.i < 8 => x.i = m.i + 1 /\ x.size = m.size /\ At("I", 8 * m.i, p) \in x.mem
        /\ ~(m.i < 8) => x.i = m.i
        /\ ~(m.i < 8) /\ Room(m) => x.size = m.size + 8 /\ At("V", m.size, p) \in x.mem
    BY <1>1, <1>2, <2>1, <2>2, Arm64Int
  <2> HIDE DEF x
  <2>4. Laid(x, 0, 0, 8 * x.i, 8 * x.f) /\ More(m, x)
    BY <1>1, <2>3
  <2>5. ASSUME m.i < 8, Room(m)
       PROVE  /\ Intact(x, n)
              /\ \A r \in Cursors : r.i = m.i /\ r.f = m.f /\ r.sp = m.size =>
                    LET a == dcbArg_arm64(r, t)
                    IN  Kept(r, a) /\ a.rd.i = x.i /\ a.rd.f = x.f /\ a.rd.sp = x.size /\ Found(x.mem, a, n)
    <3>1. At("I", 8 * m.i, p) \in x.mem /\ 8 * m.i \in Nat
      BY <1>1, <1>2, <2>1, <2>3, <2>5
    <3>2. Intact(x, n)
      BY <2>1, <3>1, FoundVal
    <3>3. ASSUME NEW r \in Cursors, r.i = m.i /\ r.f = m.f /\ r.sp = m.size
          PROVE  LET a == dcbArg_arm64(r, t)
                 IN  Kept(r, a) /\ a.rd.i = x.i /\ a.rd.f = x.f /\ a.rd.sp = x.size /\ Found(x.mem, a, n)
      <4>0. PICK k \in Nat : k = 8 * m.i + 0
        BY <3>1
      <4> DEFINE a == dcbArg_arm64(r, t)
                 s == [r EXCEPT !.i = @ + 1]
      <4>1. a = Access(s, <<Loc("I", 8 * m.i, Bytes["i8"])>>, "i8")
        BY <1>2, <2>1, <2>5, <3>3, <4>0 DEF dcbArg_arm64, FormOf
      <4>2. Found(x.mem, a, n)
        BY <2>1, <3>1, <4>1, FoundVal
      <4>3. s \in Cursors /\ s.vt = r.vt /\ s.hid = r.hid
        BY <1>1, <3>3, <4>0 DEF Cursors
      <4>3a. a.rd = s
        BY <4>1 DEF Access
      <4>4. s.i = x.i /\ s.f = x.f /\ s.sp = x.size
        BY <1>1, <1>2, <2>1, <2>3, <2>5, <3>3, <4>0 DEF Cursors
      <4> HIDE DEF a, s
      <4>5. Kept(r, a) /\ a.rd.i = x.i /\ a.rd.f = x.f /\ a.rd.sp = x.size /\ Found(x.mem, a, n)
        BY <4>2, <4>3, <4>3a, <4>4 DEF Kept
      <4> QED
        BY <4>5 DEF a
    <3> QED
      BY <3>2, <3>3
  <2>6. ASSUME ~(m.i < 8), Room(m)
       PROVE  /\ Intact(x, n)
              /\ \A r \in Cursors : r.i = m.i /\ r.f = m.f /\ r.sp = m.size =>
                    LET a == dcbArg_arm64(r, t)
                    IN  Kept(r, a) /\ a.rd.i = x.i /\ a.rd.f = x.f /\ a.rd.sp = x.size /\ Found(x.mem, a, n)
    <3>1. At("V", m.size, p) \in x.mem /\ m.size \in Nat
      BY <1>1, <1>2, <2>1, <2>3, <2>6
    <3>2. Intact(x, n)
      BY <2>1, <3>1, FoundVal
    <3>3. ASSUME NEW r \in Cursors, r.i = m.i /\ r.f = m.f /\ r.sp = m.size
          PROVE  LET a == dcbArg_arm64(r, t)
                 IN  Kept(r, a) /\ a.rd.i = x.i /\ a.rd.f = x.f /\ a.rd.sp = x.size /\ Found(x.mem, a, n)
      <4>0. PICK k \in Nat : k = m.size + 0
        BY <3>1
      <4> DEFINE a == dcbArg_arm64(r, t)
                 s == [r EXCEPT !.sp = @ + 8]
      <4>1. a = Access(s, <<Loc("V", m.size, Bytes["i8"])>>, "i8")
        BY <1>2, <2>1, <2>6, <3>3, <4>0 DEF dcbArg_arm64, FormOf
      <4>2. Found(x.mem, a, n)
        BY <2>1, <3>1, <4>1, FoundVal
      <4>3. s \in Cursors /\ s.vt = r.vt /\ s.hid = r.hid
        BY <1>1, <3>3, <4>0 DEF Cursors
      <4>3a. a.rd = s
        BY <4>1 DEF Access
      <4>4. s.i = x.i /\ s.f = x.f /\ s.sp = x.size
        BY <1>1, <1>2, <2>1, <2>3, <2>6, <3>3, <4>0 DEF Cursors
      <4> HIDE DEF a, s
      <4>5. Kept(r, a) /\ a.rd.i = x.i /\ a.rd.f = x.f /\ a.rd.sp = x.size /\ Found(x.mem, a, n)
        BY <4>2, <4>3, <4>3a, <4>4 DEF Kept
      <4> QED
        BY <4>5 DEF a
    <3> QED
      BY <3>2, <3>3
  <2> QED
    BY <1>1, <2>4, <2>5, <2>6 DEF x
<1>3. CASE t = "float"
  <2> DEFINE p == Val(n, "f4")
  <2>1. /\ p \in PartOf /\ "f4" \in Forms /\ Bytes["f4"] = 4 /\ p.len = Bytes["f4"]
    BY <1>3, ValPart, FormBytes DEF Forms
  <2>2. x = arm64_a_float(m, p)
    BY <1>3 DEF vt_arm64_arg
  <2>3. /\ Laid(x, 0, 0, 8 * x.i, 8 * x.f) /\ More(m, x) /\ x.i = m.i
        /\ m.f < 8 => x.f = m.f + 1 /\ x.size = m.size /\ At("F", 8 * m.f, p) \in x.mem
        /\ ~(m.f < 8) => x.f = m.f
        /\ ~(m.f < 8) /\ Room(m) => x.size = m.size + 8 /\ At("V", m.size, p) \in x.mem
    BY <1>1, <1>3, <2>1, <2>2, Arm64Float
  <2> HIDE DEF x
  <2>4. Laid(x, 0, 0, 8 * x.i, 8 * x.f) /\ More(m, x)
    BY <1>1, <2>3
  <2>5. ASSUME m.f < 8, Room(m)
       PROVE  /\ Intact(x, n)
              /\ \A r \in Cursors : r.i = m.i /\ r.f = m.f /\ r.sp = m.size =>
                    LET a == dcbArg_arm64(r, t)
                    IN  Kept(r, a) /\ a.rd.i = x.i /\ a.rd.f = x.f /\ a.rd.sp = x.size /\ Found(x.mem, a, n)
    <3>1. At("F", 8 * m.f, p) \in x.mem /\ 8 * m.f \in Nat
      BY <1>1, <1>3, <2>1, <2>3, <2>5
    <3>2. Intact(x, n)
      BY <2>1, <3>1, FoundVal
    <3>3. ASSUME NEW r \in Cursors, r.i = m.i /\ r.f = m.f /\ r.sp = m.size
          PROVE  LET a == dcbArg_arm64(r, t)
                 IN  Kept(r, a) /\ a.rd.i = x.i /\ a.rd.f = x.f /\ a.rd.sp = x.size /\ Found(x.mem, a, n)
      <4>0. PICK k \in Nat : k = 8 * m.f + 0
        BY <3>1
      <4> DEFINE a == dcbArg_arm64(r, t)
                 s == [r EXCEPT !.f = @ + 1]
      <4>1. a = Access(s, <<Loc("F", 8 * m.f, Bytes["f4"])>>, "f4")
        BY <1>3, <2>1, <2>5, <3>3, <4>0 DEF dcbArg_arm64, FormOf
      <4>2. Found(x.mem, a, n)
        BY <2>1, <3>1, <4>1, FoundVal
      <4>3. s \in Cursors /\ s.vt = r.vt /\ s.hid = r.hid
        BY <1>1, <3>3, <4>0 DEF Cursors
      <4>3a. a.rd = s
        BY <4>1 DEF Access
      <4>4. s.i = x.i /\ s.f = x.f /\ s.sp = x.size
        BY <1>1, <1>3, <2>1, <2>3, <2>5, <3>3, <4>0 DEF Cursors
      <4> HIDE DEF a, s
      <4>5. Kept(r, a) /\ a.rd.i = x.i /\ a.rd.f = x.f /\ a.rd.sp = x.size /\ Found(x.mem, a, n)
        BY <4>2, <4>3, <4>3a, <4>4 DEF Kept
      <4> QED
        BY <4>5 DEF a
    <3> QED
      BY <3>2, <3>3
  <2>6. ASSUME ~(m.f < 8), Room(m)
       PROVE  /\ Intact(x, n)
              /\ \A r \in Cursors : r.i = m.i /\ r.f = m.f /\ r.sp = m.size =>
                    LET a == dcbArg_arm64(r, t)
                    IN  Kept(r, a) /\ a.rd.i = x.i /\ a.rd.f = x.f /\ a.rd.sp = x.size /\ Found(x.mem, a, n)
    <3>1. At("V", m.size, p) \in x.mem /\ m.size \in Nat
      BY <1>1, <1>3, <2>1, <2>3, <2>6
    <3>2. Intact(x, n)
      BY <2>1, <3>1, FoundVal
    <3>3. ASSUME NEW r \in Cursors, r.i = m.i /\ r.f = m.f /\ r.sp = m.size
          PROVE  LET a == dcbArg_arm64(r, t)
                 IN  Kept(r, a) /\ a.rd.i = x.i /\ a.rd.f = x.f /\ a.rd.sp = x.size /\ Found(x.mem, a, n)
      <4>0. PICK k \in Nat : k = m.size + 0
        BY <3>1
      <4> DEFINE a == dcbArg_arm64(r, t)
                 s == [r EXCEPT !.sp = @ + 8]
      <4>1. a = Access(s, <<Loc("V", m.size, Bytes["f4"])>>, "f4")
        BY <1>3, <2>1, <2>6, <3>3, <4>0 DEF dcbArg_arm64, FormOf
      <4>2. Found(x.mem, a, n)
        BY <2>1, <3>1, <4>1, FoundVal
      <4>3. s \in Cursors /\ s.vt = r.vt /\ s.hid = r.hid
        BY <1>1, <3>3, <4>0 DEF Cursors
      <4>3a. a.rd = s
        BY <4>1 DEF Access
      <4>4. s.i = x.i /\ s.f = x.f /\ s.sp = x.size
        BY <1>1, <1>3, <2>1, <2>3, <2>6, <3>3, <4>0 DEF Cursors
      <4> HIDE DEF a, s
      <4>5. Kept(r, a) /\ a.rd.i = x.i /\ a.rd.f = x.f /\ a.rd.sp = x.size /\ Found(x.mem, a, n)
        BY <4>2, <4>3, <4>3a, <4>4 DEF Kept
      <4> QED
        BY <4>5 DEF a
    <3> QED
      BY <3>2, <3>3
  <2> QED
    BY <1>1, <2>4, <2>5, <2>6 DEF x
<1>4. CASE t = "double"
  <2> DEFINE p == Val(n, "f8")
  <2>1. /\ p \in PartOf /\ "f8" \in Forms /\ Bytes["f8"] = 8 /\ p.len = Bytes["f8"]
    BY <1>4, ValPart, FormBytes DEF Forms
  <2>2. x = arm64_a_double(m, p)
    BY <1>4 DEF vt_arm64_arg
  <2>3. /\ Laid(x, 0, 0, 8 * x.i, 8 * x.f) /\ More(m, x) /\ x.i = m.i
        /\ m.f < 8 => x.f = m.f + 1 /\ x.size = m.size /\ At("F", 8 * m.f, p) \in x.mem
        /\ ~(m.f < 8) => x.f = m.f
        /\ ~(m.f < 8) /\ Room(m) => x.size = m.size + 8 /\ At("V", m.size, p) \in x.mem
    BY <1>1, <1>4, <2>1, <2>2, Arm64Double
  <2> HIDE DEF x
  <2>4. Laid(x, 0, 0, 8 * x.i, 8 * x.f) /\ More(m, x)
    BY <1>1, <2>3
  <2>5. ASSUME m.f < 8, Room(m)
       PROVE  /\ Intact(x, n)
              /\ \A r \in Cursors : r.i = m.i /\ r.f = m.f /\ r.sp = m.size =>
                    LET a == dcbArg_arm64(r, t)
                    IN  Kept(r, a) /\ a.rd.i = x.i /\ a.rd.f = x.f /\ a.rd.sp = x.size /\ Found(x.mem, a, n)
    <3>1. At("F", 8 * m.f, p) \in x.mem /\ 8 * m.f \in Nat
      BY <1>1, <1>4, <2>1, <2>3, <2>5
    <3>2. Intact(x, n)
      BY <2>1, <3>1, FoundVal
    <3>3. ASSUME NEW r \in Cursors, r.i = m.i /\ r.f = m.f /\ r.sp = m.size
          PROVE  LET a == dcbArg_arm64(r, t)
                 IN  Kept(r, a) /\ a.rd.i = x.i /\ a.rd.f = x.f /\ a.rd.sp = x.size /\ Found(x.mem, a, n)
      <4>0. PICK k \in Nat : k = 8 * m.f + 0
        BY <3>1
      <4> DEFINE a == dcbArg_arm64(r, t)
                 s == [r EXCEPT !.f = @ + 1]
      <4>1. a = Access(s, <<Loc("F", 8 * m.f, Bytes["f8"])>>, "f8")
        BY <1>4, <2>1, <2>5, <3>3, <4>0 DEF dcbArg_arm64, FormOf
      <4>2. Found(x.mem, a, n)
        BY <2>1, <3>1, <4>1, FoundVal
      <4>3. s \in Cursors /\ s.vt = r.vt /\ s.hid = r.hid
        BY <1>1, <3>3, <4>0 DEF Cursors
      <4>3a. a.rd = s
        BY <4>1 DEF Access
      <4>4. s.i = x.i /\ s.f = x.f /\ s.sp = x.size
        BY <1>1, <1>4, <2>1, <2>3, <2>5, <3>3, <4>0 DEF Cursors
      <4> HIDE DEF a, s
      <4>5. Kept(r, a) /\ a.rd.i = x.i /\ a.rd.f = x.f /\ a.rd.sp = x.size /\ Found(x.mem, a, n)
        BY <4>2, <4>3, <4>3a, <4>4 DEF Kept
      <4> QED
        BY <4>5 DEF a
    <3> QED
      BY <3>2, <3>3
  <2>6. ASSUME ~(m.f < 8), Room(m)
       PROVE  /\ Intact(x, n)
              /\ \A r \in Cursors : r.i = m.i /\ r.f = m.f /\ r.sp = m.size =>
                    LET a == dcbArg_arm64(r, t)
                    IN  Kept(r, a) /\ a.rd.i = x.i /\ a.rd.f = x.f /\ a.rd.sp = x.size /\ Found(x.mem, a, n)
    <3>1. At("V", m.size, p) \in x.mem /\ m.size \in Nat
      BY <1>1, <1>4, <2>1, <2>3, <2>6
    <3>2. Intact(x, n)
      BY <2>1, <3>1, FoundVal
    <3>3. ASSUME NEW r \in Cursors, r.i = m.i /\ r.f = m.f /\ r.sp = m.size
          PROVE  LET a == dcbArg_arm64(r, t)
                 IN  Kept(r, a) /\ a.rd.i = x.i /\ a.rd.f = x.f /\ a.rd.sp = x.size /\ Found(x.mem, a, n)
      <4>0. PICK k \in Nat : k = m.size + 0
        BY <3>1
      <4> DEFINE a == dcbArg_arm64(r, t)
                 s == [r EXCEPT !.sp = @ + 8]
      <4>1. a = Access(s, <<Loc("V", m.size, Bytes["f8"])>>, "f8")
        BY <1>4, <2>1, <2>6, <3>3, <4>0 DEF dcbArg_arm64, FormOf
      <4>2. Found(x.mem, a, n)
        BY <2>1, <3>1, <4>1, FoundVal
      <4>3. s \in Cursors /\ s.vt = r.vt /\ s.hid = r.hid
        BY <1>1, <3>3, <4>0 DEF Cursors
      <4>3a. a.rd = s
        BY <4>1 DEF Access
      <4>4. s.i = x.i /\ s.f = x.f /\ s.sp = x.size
        BY <1>1, <1>4, <2>1, <2>3, <2>6, <3>3, <4>0 DEF Cursors
      <4> HIDE DEF a, s
      <4>5. Kept(r, a) /\ a.rd.i = x.i /\ a.rd.f = x.f /\ a.rd.sp = x.size /\ Found(x.mem, a, n)
        BY <4>2, <4>3, <4>3a, <4>4 DEF Kept
      <4> QED
        BY <4>5 DEF a
    <3> QED
      BY <3>2, <3>3
  <2> QED
    BY <1>1, <2>4, <2>5, <2>6 DEF x
<1> QED
  BY <1>2, <1>3, <1>4 DEF Scalar

\* Variadic arguments on Windows for ARM64, for which there are no callbacks.
LEMMA Arm64WinBinds ==
    ASSUME NEW m, Laid(m, 0, 0, 8 * m.i, 8 * m.f), m.copies = VecTotal,
           NEW t \in Scalar, NEW n \in Nat
    PROVE  LET x == vt_arm64_win_varargs_arg(m, t, n)
           IN  /\ Laid(x, 0, 0, 8 * x.i, 8 * x.f) /\ More(m, x)
               /\ Room(m) => Intact(x, n)
<1> DEFINE x == vt_arm64_win_varargs_arg(m, t, n)
<1>1. /\ m \in VM /\ m.i \in Nat /\ m.f \in Nat /\ m.size \in Nat /\ VecTotal \in Nat
  BY VecAssumption DEF Laid, VM
<1>2. CASE t \in {"int", "longlong"}
  <2> DEFINE p == Val(n, "i8")
  <2>1. /\ p \in PartOf /\ "i8" \in Forms /\ Bytes["i8"] = 8 /\ p.len = Bytes["i8"]
    BY <1>2, ValPart, FormBytes DEF Forms
  <2>2. x = arm64_a_i64(m, p)
    BY <1>2 DEF vt_arm64_win_varargs_arg, arm64_var_float
  <2>3. /\ Laid(x, 0, 0, 8 * x.i, 8 * x.f) /\ More(m, x) /\ x.f = m.f
        /\ m.i < 8 => x.i = m.i + 1 /\ x.size = m.size /\ At("I", 8 * m.i, p) \in x.mem
        /\ ~(m.i < 8) => x.i = m.i
        /\ ~(m.i < 8) /\ Room(m) => x.size = m.size + 8 /\ At("V", m.size, p) \in x.mem
    BY <1>1, <1>2, <2>1, <2>2, Arm64Int
  <2> HIDE DEF x
  <2>4. Laid(x, 0, 0, 8 * x.i, 8 * x.f) /\ More(m, x)
    BY <1>1, <2>3
  <2>5. ASSUME m.i < 8, Room(m) PROVE Intact(x, n)
    <3>1. At("I", 8 * m.i, p) \in x.mem /\ 8 * m.i \in Nat
      BY <1>1, <1>2, <2>1, <2>3, <2>5
    <3> QED
      BY <2>1, <3>1, FoundVal
  <2>6. ASSUME ~(m.i < 8), Room(m) PROVE Intact(x, n)
    <3>1. At("V", m.size, p) \in x.mem /\ m.size \in Nat
      BY <1>1, <1>2, <2>1, <2>3, <2>6
    <3> QED
      BY <2>1, <3>1, FoundVal
  <2> QED
    BY <1>1, <2>4, <2>5, <2>6 DEF x
<1>3. CASE t = "float"
  <2> DEFINE p == Val(n, "f4")
  <2>1. /\ p \in PartOf /\ "f4" \in Forms /\ Bytes["f4"] = 4 /\ p.len = Bytes["f4"]
    BY <1>3, ValPart, FormBytes DEF Forms
  <2>2. x = arm64_a_i64(m, p)
    BY <1>3 DEF vt_arm64_win_varargs_arg, arm64_var_float, FormOf
  <2>3. /\ Laid(x, 0, 0, 8 * x.i, 8 * x.f) /\ More(m, x) /\ x.f = m.f
        /\ m.i < 8 => x.i = m.i + 1 /\ x.size = m.size /\ At("I", 8 * m.i, p) \in x.mem
        /\ ~(m.i < 8) => x.i = m.i
        /\ ~(m.i < 8) /\ Room(m) => x.size = m.size + 8 /\ At("V", m.size, p) \in x.mem
    BY <1>1, <1>3, <2>1, <2>2, Arm64Int
  <2> HIDE DEF x
  <2>4. Laid(x, 0, 0, 8 * x.i, 8 * x.f) /\ More(m, x)
    BY <1>1, <2>3
  <2>5. ASSUME m.i < 8, Room(m) PROVE Intact(x, n)
    <3>1. At("I", 8 * m.i, p) \in x.mem /\ 8 * m.i \in Nat
      BY <1>1, <1>3, <2>1, <2>3, <2>5
    <3> QED
      BY <2>1, <3>1, FoundVal
  <2>6. ASSUME ~(m.i < 8), Room(m) PROVE Intact(x, n)
    <3>1. At("V", m.size, p) \in x.mem /\ m.size \in Nat
      BY <1>1, <1>3, <2>1, <2>3, <2>6
    <3> QED
      BY <2>1, <3>1, FoundVal
  <2> QED
    BY <1>1, <2>4, <2>5, <2>6 DEF x
<1>4. CASE t = "double"
  <2> DEFINE p == Val(n, "f8")
  <2>1. /\ p \in PartOf /\ "f8" \in Forms /\ Bytes["f8"] = 8 /\ p.len = Bytes["f8"]
    BY <1>4, ValPart, FormBytes DEF Forms
  <2>2. x = arm64_a_i64(m, p)
    BY <1>4 DEF vt_arm64_win_varargs_arg, arm64_var_float, FormOf
  <2>3. /\ Laid(x, 0, 0, 8 * x.i, 8 * x.f) /\ More(m, x) /\ x.f = m.f
        /\ m.i < 8 => x.i = m.i + 1 /\ x.size = m.size /\ At("I", 8 * m.i, p) \in x.mem
        /\ ~(m.i < 8) => x.i = m.i
        /\ ~(m.i < 8) /\ Room(m) => x.size = m.size + 8 /\ At("V", m.size, p) \in x.mem
    BY <1>1, <1>4, <2>1, <2>2, Arm64Int
  <2> HIDE DEF x
  <2>4. Laid(x, 0, 0, 8 * x.i, 8 * x.f) /\ More(m, x)
    BY <1>1, <2>3
  <2>5. ASSUME m.i < 8, Room(m) PROVE Intact(x, n)
    <3>1. At("I", 8 * m.i, p) \in x.mem /\ 8 * m.i \in Nat
      BY <1>1, <1>4, <2>1, <2>3, <2>5
    <3> QED
      BY <2>1, <3>1, FoundVal
  <2>6. ASSUME ~(m.i < 8), Room(m) PROVE Intact(x, n)
    <3>1. At("V", m.size, p) \in x.mem /\ m.size \in Nat
      BY <1>1, <1>4, <2>1, <2>3, <2>6
    <3> QED
      BY <2>1, <3>1, FoundVal
  <2> QED
    BY <1>1, <2>4, <2>5, <2>6 DEF x
<1> QED
  BY <1>2, <1>3, <1>4 DEF Scalar

\* Apple's ARM64.
LEMMA AppleBinds ==
    ASSUME NEW m, Laid(m, 0, 0, 8 * m.i, 8 * m.f), m.copies = VecTotal,
           NEW t \in DOMAIN FormOf, NEW n \in Nat
    PROVE  LET x == apple_a(m, t, n)
           IN  /\ Laid(x, 0, 0, 8 * x.i, 8 * x.f) /\ More(m, x)
               /\ Room(m) => Intact(x, n)
               /\ \A r \in Cursors : Room(m) /\ r.i = m.i /\ r.f = m.f /\ r.sp = m.size =>
                    LET a == dcbArg_apple(r, t)
                    IN  Kept(r, a) /\ a.rd.i = x.i /\ a.rd.f = x.f /\ a.rd.sp = x.size /\ Found(x.mem, a, n)
<1> DEFINE x == apple_a(m, t, n)
<1>1. /\ m \in VM /\ m.i \in Nat /\ m.f \in Nat /\ m.size \in Nat /\ VecTotal \in Nat
  BY VecAssumption DEF Laid, VM
<1>2. CASE t = "char"
  <2> DEFINE p == Val(n, "i1")
  <2>1. /\ p \in PartOf /\ "i1" \in Forms /\ Bytes["i1"] = 1 /\ p.len = Bytes["i1"]
    BY <1>2, ValPart, FormBytes DEF Forms, FormOf
  <2>2. x = apple_a(m, t, n) /\ p = Val(n, FormOf[t]) /\ p.len \in {1, 2, 4, 8} /\ p.len = 1 /\ p.len <= 8
    BY <1>2, <2>1 DEF FormOf
  <2>3. /\ Laid(x, 0, 0, 8 * x.i, 8 * x.f) /\ More(m, x) /\ x.f = m.f
        /\ m.i < 8 => x.i = m.i + p.len /\ x.size = m.size /\ At("I", 8 * m.i, p) \in x.mem
        /\ ~(m.i < 8) => x.i = m.i
        /\ ~(m.i < 8) /\ Room(m) => x.size = ((m.size + p.len - 1) \div p.len) * p.len + p.len /\ At("V", ((m.size + p.len - 1) \div p.len) * p.len, p) \in x.mem
    BY <1>1, <1>2, <2>1, <2>2, AppleInt
  <2> HIDE DEF x
  <2>4. Laid(x, 0, 0, 8 * x.i, 8 * x.f) /\ More(m, x)
    BY <1>1, <2>3
  <2>5. ASSUME m.i < 8, Room(m)
       PROVE  /\ Intact(x, n)
              /\ \A r \in Cursors : r.i = m.i /\ r.f = m.f /\ r.sp = m.size =>
                    LET a == dcbArg_apple(r, t)
                    IN  Kept(r, a) /\ a.rd.i = x.i /\ a.rd.f = x.f /\ a.rd.sp = x.size /\ Found(x.mem, a, n)
    <3>1. At("I", 8 * m.i, p) \in x.mem /\ 8 * m.i \in Nat
      BY <1>1, <1>2, <2>1, <2>3, <2>5
    <3>2. Intact(x, n)
      BY <2>1, <3>1, FoundVal
    <3>3. ASSUME NEW r \in Cursors, r.i = m.i /\ r.f = m.f /\ r.sp = m.size
          PROVE  LET a == dcbArg_apple(r, t)
                 IN  Kept(r, a) /\ a.rd.i = x.i /\ a.rd.f = x.f /\ a.rd.sp = x.size /\ Found(x.mem, a, n)
      <4>0. PICK k \in Nat : k = 8 * m.i + 1
        BY <3>1
      <4> DEFINE a == dcbArg_apple(r, t)
                 s == [r EXCEPT !.i = @ + 1]
      <4>1. a = Access(s, <<Loc("I", 8 * m.i, Bytes["i1"])>>, "i1")
        BY <1>2, <2>1, <2>5, <3>3, <4>0 DEF dcbArg_apple, AlignUp, FormOf
      <4>2. Found(x.mem, a, n)
        BY <2>1, <3>1, <4>1, FoundVal
      <4>3. s \in Cursors /\ s.vt = r.vt /\ s.hid = r.hid
        BY <1>1, <3>3, <4>0 DEF Cursors
      <4>3a. a.rd = s
        BY <4>1 DEF Access
      <4>4. s.i = x.i /\ s.f = x.f /\ s.sp = x.size
        BY <1>1, <1>2, <2>1, <2>3, <2>5, <3>3, <4>0 DEF Cursors
      <4> HIDE DEF a, s
      <4>5. Kept(r, a) /\ a.rd.i = x.i /\ a.rd.f = x.f /\ a.rd.sp = x.size /\ Found(x.mem, a, n)
        BY <4>2, <4>3, <4>3a, <4>4 DEF Kept
      <4> QED
        BY <4>5 DEF a
    <3> QED
      BY <3>2, <3>3
  <2>6. ASSUME ~(m.i < 8), Room(m)
       PROVE  /\ Intact(x, n)
              /\ \A r \in Cursors : r.i = m.i /\ r.f = m.f /\ r.sp = m.size =>
                    LET a == dcbArg_apple(r, t)
                    IN  Kept(r, a) /\ a.rd.i = x.i /\ a.rd.f = x.f /\ a.rd.sp = x.size /\ Found(x.mem, a, n)
    <3>1. At("V", ((m.size + 1 - 1) \div 1) * 1, p) \in x.mem /\ ((m.size + 1 - 1) \div 1) * 1 \in Nat
      BY <1>1, <1>2, <2>1, <2>3, <2>6
    <3>2. Intact(x, n)
      BY <2>1, <3>1, FoundVal
    <3>3. ASSUME NEW r \in Cursors, r.i = m.i /\ r.f = m.f /\ r.sp = m.size
          PROVE  LET a == dcbArg_apple(r, t)
                 IN  Kept(r, a) /\ a.rd.i = x.i /\ a.rd.f = x.f /\ a.rd.sp = x.size /\ Found(x.mem, a, n)
      <4>0. PICK k \in Nat : k = ((m.size + 1 - 1) \div 1) * 1 + 1
        BY <3>1
      <4> DEFINE a == dcbArg_apple(r, t)
                 s == [r EXCEPT !.sp = k]
      <4>1. a = Access(s, <<Loc("V", ((m.size + 1 - 1) \div 1) * 1, Bytes["i1"])>>, "i1")
        BY <1>2, <2>1, <2>6, <3>3, <4>0 DEF dcbArg_apple, AlignUp, FormOf
      <4>2. Found(x.mem, a, n)
        BY <2>1, <3>1, <4>1, FoundVal
      <4>3. s \in Cursors /\ s.vt = r.vt /\ s.hid = r.hid
        BY <1>1, <3>3, <4>0 DEF Cursors
      <4>3a. a.rd = s
        BY <4>1 DEF Access
      <4>4. s.i = x.i /\ s.f = x.f /\ s.sp = x.size
        BY <1>1, <1>2, <2>1, <2>3, <2>6, <3>3, <4>0 DEF Cursors
      <4> HIDE DEF a, s
      <4>5. Kept(r, a) /\ a.rd.i = x.i /\ a.rd.f = x.f /\ a.rd.sp = x.size /\ Found(x.mem, a, n)
        BY <4>2, <4>3, <4>3a, <4>4 DEF Kept
      <4> QED
        BY <4>5 DEF a
    <3> QED
      BY <3>2, <3>3
  <2> QED
    BY <1>1, <2>4, <2>5, <2>6 DEF x
<1>3. CASE t = "short"
  <2> DEFINE p == Val(n, "i2")
  <2>1. /\ p \in PartOf /\ "i2" \in Forms /\ Bytes["i2"] = 2 /\ p.len = Bytes["i2"]
    BY <1>3, ValPart, FormBytes DEF Forms, FormOf
  <2>2. x = apple_a(m, t, n) /\ p = Val(n, FormOf[t]) /\ p.len \in {1, 2, 4, 8} /\ p.len = 2 /\ p.len <= 8
    BY <1>3, <2>1 DEF FormOf
  <2>3. /\ Laid(x, 0, 0, 8 * x.i, 8 * x.f) /\ More(m, x) /\ x.f = m.f
        /\ m.i < 8 => x.i = m.i + 1 /\ x.size = m.size /\ At("I", 8 * m.i, p) \in x.mem
        /\ ~(m.i < 8) => x.i = m.i
        /\ ~(m.i < 8) /\ Room(m) => x.size = ((m.size + p.len - 1) \div p.len) * p.len + p.len /\ At("V", ((m.size + p.len - 1) \div p.len) * p.len, p) \in x.mem
    BY <1>1, <1>3, <2>1, <2>2, AppleInt
  <2> HIDE DEF x
  <2>4. Laid(x, 0, 0, 8 * x.i, 8 * x.f) /\ More(m, x)
    BY <1>1, <2>3
  <2>5. ASSUME m.i < 8, Room(m)
       PROVE  /\ Intact(x, n)
              /\ \A r \in Cursors : r.i = m.i /\ r.f = m.f /\ r.sp = m.size =>
                    LET a == dcbArg_apple(r, t)
                    IN  Kept(r, a) /\ a.rd.i = x.i /\ a.rd.f = x.f /\ a.rd.sp = x.size /\ Found(x.mem, a, n)
    <3>1. At("I", 8 * m.i, p) \in x.mem /\ 8 * m.i \in Nat
      BY <1>1, <1>3, <2>1, <2>3, <2>5
    <3>2. Intact(x, n)
      BY <2>1, <3>1, FoundVal
    <3>3. ASSUME NEW r \in Cursors, r.i = m.i /\ r.f = m.f /\ r.sp = m.size
          PROVE  LET a == dcbArg_apple(r, t)
                 IN  Kept(r, a) /\ a.rd.i = x.i /\ a.rd.f = x.f /\ a.rd.sp = x.size /\ Found(x.mem, a, n)
      <4>0. PICK k \in Nat : k = 8 * m.i + 2
        BY <3>1
      <4> DEFINE a == dcbArg_apple(r, t)
                 s == [r EXCEPT !.i = @ + 1]
      <4>1. a = Access(s, <<Loc("I", 8 * m.i, Bytes["i2"])>>, "i2")
        BY <1>3, <2>1, <2>5, <3>3, <4>0 DEF dcbArg_apple, AlignUp, FormOf
      <4>2. Found(x.mem, a, n)
        BY <2>1, <3>1, <4>1, FoundVal
      <4>3. s \in Cursors /\ s.vt = r.vt /\ s.hid = r.hid
        BY <1>1, <3>3, <4>0 DEF Cursors
      <4>3a. a.rd = s
        BY <4>1 DEF Access
      <4>4. s.i = x.i /\ s.f = x.f /\ s.sp = x.size
        BY <1>1, <1>3, <2>1, <2>3, <2>5, <3>3, <4>0 DEF Cursors
      <4> HIDE DEF a, s
      <4>5. Kept(r, a) /\ a.rd.i = x.i /\ a.rd.f = x.f /\ a.rd.sp = x.size /\ Found(x.mem, a, n)
        BY <4>2, <4>3, <4>3a, <4>4 DEF Kept
      <4> QED
        BY <4>5 DEF a
    <3> QED
      BY <3>2, <3>3
  <2>6. ASSUME ~(m.i < 8), Room(m)
       PROVE  /\ Intact(x, n)
              /\ \A r \in Cursors : r.i = m.i /\ r.f = m.f /\ r.sp = m.size =>
                    LET a == dcbArg_apple(r, t)
                    IN  Kept(r, a) /\ a.rd.i = x.i /\ a.rd.f = x.f /\ a.rd.sp = x.size /\ Found(x.mem, a, n)
    <3>1. At("V", ((m.size + 2 - 1) \div 2) * 2, p) \in x.mem /\ ((m.size + 2 - 1) \div 2) * 2 \in Nat
      BY <1>1, <1>3, <2>1, <2>3, <2>6
    <3>2. Intact(x, n)
      BY <2>1, <3>1, FoundVal
    <3>3. ASSUME NEW r \in Cursors, r.i = m.i /\ r.f = m.f /\ r.sp = m.size
          PROVE  LET a == dcbArg_apple(r, t)
                 IN  Kept(r, a) /\ a.rd.i = x.i /\ a.rd.f = x.f /\ a.rd.sp = x.size /\ Found(x.mem, a, n)
      <4>0. PICK k \in Nat : k = ((m.size + 2 - 1) \div 2) * 2 + 2
        BY <3>1
      <4> DEFINE a == dcbArg_apple(r, t)
                 s == [r EXCEPT !.sp = k]
      <4>1. a = Access(s, <<Loc("V", ((m.size + 2 - 1) \div 2) * 2, Bytes["i2"])>>, "i2")
        BY <1>3, <2>1, <2>6, <3>3, <4>0 DEF dcbArg_apple, AlignUp, FormOf
      <4>2. Found(x.mem, a, n)
        BY <2>1, <3>1, <4>1, FoundVal
      <4>3. s \in Cursors /\ s.vt = r.vt /\ s.hid = r.hid
        BY <1>1, <3>3, <4>0 DEF Cursors
      <4>3a. a.rd = s
        BY <4>1 DEF Access
      <4>4. s.i = x.i /\ s.f = x.f /\ s.sp = x.size
        BY <1>1, <1>3, <2>1, <2>3, <2>6, <3>3, <4>0 DEF Cursors
      <4> HIDE DEF a, s
      <4>5. Kept(r, a) /\ a.rd.i = x.i /\ a.rd.f = x.f /\ a.rd.sp = x.size /\ Found(x.mem, a, n)
        BY <4>2, <4>3, <4>3a, <4>4 DEF Kept
      <4> QED
        BY <4>5 DEF a
    <3> QED
      BY <3>2, <3>3
  <2> QED
    BY <1>1, <2>4, <2>5, <2>6 DEF x
<1>4. CASE t = "int"
  <2> DEFINE p == Val(n, "i4")
  <2>1. /\ p \in PartOf /\ "i4" \in Forms /\ Bytes["i4"] = 4 /\ p.len = Bytes["i4"]
    BY <1>4, ValPart, FormBytes DEF Forms, FormOf
  <2>2. x = apple_a(m, t, n) /\ p = Val(n, FormOf[t]) /\ p.len \in {1, 2, 4, 8} /\ p.len = 4 /\ p.len <= 8
    BY <1>4, <2>1 DEF FormOf
  <2>3. /\ Laid(x, 0, 0, 8 * x.i, 8 * x.f) /\ More(m, x) /\ x.f = m.f
        /\ m.i < 8 => x.i = m.i + 1 /\ x.size = m.size /\ At("I", 8 * m.i, p) \in x.mem
        /\ ~(m.i < 8) => x.i = m.i
        /\ ~(m.i < 8) /\ Room(m) => x.size = ((m.size + p.len - 1) \div p.len) * p.len + p.len /\ At("V", ((m.size + p.len - 1) \div p.len) * p.len, p) \in x.mem
    BY <1>1, <1>4, <2>1, <2>2, AppleInt
  <2> HIDE DEF x
  <2>4. Laid(x, 0, 0, 8 * x.i, 8 * x.f) /\ More(m, x)
    BY <1>1, <2>3
  <2>5. ASSUME m.i < 8, Room(m)
       PROVE  /\ Intact(x, n)
              /\ \A r \in Cursors : r.i = m.i /\ r.f = m.f /\ r.sp = m.size =>
                    LET a == dcbArg_apple(r, t)
                    IN  Kept(r, a) /\ a.rd.i = x.i /\ a.rd.f = x.f /\ a.rd.sp = x.size /\ Found(x.mem, a, n)
    <3>1. At("I", 8 * m.i, p) \in x.mem /\ 8 * m.i \in Nat
      BY <1>1, <1>4, <2>1, <2>3, <2>5
    <3>2. Intact(x, n)
      BY <2>1, <3>1, FoundVal
    <3>3. ASSUME NEW r \in Cursors, r.i = m.i /\ r.f = m.f /\ r.sp = m.size
          PROVE  LET a == dcbArg_apple(r, t)
                 IN  Kept(r, a) /\ a.rd.i = x.i /\ a.rd.f = x.f /\ a.rd.sp = x.size /\ Found(x.mem, a, n)
      <4>0. PICK k \in Nat : k = 8 * m.i + 4
        BY <3>1
      <4> DEFINE a == dcbArg_apple(r, t)
                 s == [r EXCEPT !.i = @ + 1]
      <4>1. a = Access(s, <<Loc("I", 8 * m.i, Bytes["i4"])>>, "i4")
        BY <1>4, <2>1, <2>5, <3>3, <4>0 DEF dcbArg_apple, AlignUp, FormOf
      <4>2. Found(x.mem, a, n)
        BY <2>1, <3>1, <4>1, FoundVal
      <4>3. s \in Cursors /\ s.vt = r.vt /\ s.hid = r.hid
        BY <1>1, <3>3, <4>0 DEF Cursors
      <4>3a. a.rd = s
        BY <4>1 DEF Access
      <4>4. s.i = x.i /\ s.f = x.f /\ s.sp = x.size
        BY <1>1, <1>4, <2>1, <2>3, <2>5, <3>3, <4>0 DEF Cursors
      <4> HIDE DEF a, s
      <4>5. Kept(r, a) /\ a.rd.i = x.i /\ a.rd.f = x.f /\ a.rd.sp = x.size /\ Found(x.mem, a, n)
        BY <4>2, <4>3, <4>3a, <4>4 DEF Kept
      <4> QED
        BY <4>5 DEF a
    <3> QED
      BY <3>2, <3>3
  <2>6. ASSUME ~(m.i < 8), Room(m)
       PROVE  /\ Intact(x, n)
              /\ \A r \in Cursors : r.i = m.i /\ r.f = m.f /\ r.sp = m.size =>
                    LET a == dcbArg_apple(r, t)
                    IN  Kept(r, a) /\ a.rd.i = x.i /\ a.rd.f = x.f /\ a.rd.sp = x.size /\ Found(x.mem, a, n)
    <3>1. At("V", ((m.size + 4 - 1) \div 4) * 4, p) \in x.mem /\ ((m.size + 4 - 1) \div 4) * 4 \in Nat
      BY <1>1, <1>4, <2>1, <2>3, <2>6
    <3>2. Intact(x, n)
      BY <2>1, <3>1, FoundVal
    <3>3. ASSUME NEW r \in Cursors, r.i = m.i /\ r.f = m.f /\ r.sp = m.size
          PROVE  LET a == dcbArg_apple(r, t)
                 IN  Kept(r, a) /\ a.rd.i = x.i /\ a.rd.f = x.f /\ a.rd.sp = x.size /\ Found(x.mem, a, n)
      <4>0. PICK k \in Nat : k = ((m.size + 4 - 1) \div 4) * 4 + 4
        BY <3>1
      <4> DEFINE a == dcbArg_apple(r, t)
                 s == [r EXCEPT !.sp = k]
      <4>1. a = Access(s, <<Loc("V", ((m.size + 4 - 1) \div 4) * 4, Bytes["i4"])>>, "i4")
        BY <1>4, <2>1, <2>6, <3>3, <4>0 DEF dcbArg_apple, AlignUp, FormOf
      <4>2. Found(x.mem, a, n)
        BY <2>1, <3>1, <4>1, FoundVal
      <4>3. s \in Cursors /\ s.vt = r.vt /\ s.hid = r.hid
        BY <1>1, <3>3, <4>0 DEF Cursors
      <4>3a. a.rd = s
        BY <4>1 DEF Access
      <4>4. s.i = x.i /\ s.f = x.f /\ s.sp = x.size
        BY <1>1, <1>4, <2>1, <2>3, <2>6, <3>3, <4>0 DEF Cursors
      <4> HIDE DEF a, s
      <4>5. Kept(r, a) /\ a.rd.i = x.i /\ a.rd.f = x.f /\ a.rd.sp = x.size /\ Found(x.mem, a, n)
        BY <4>2, <4>3, <4>3a, <4>4 DEF Kept
      <4> QED
        BY <4>5 DEF a
    <3> QED
      BY <3>2, <3>3
  <2> QED
    BY <1>1, <2>4, <2>5, <2>6 DEF x
<1>5. CASE t = "longlong"
  <2> DEFINE p == Val(n, "i8")
  <2>1. /\ p \in PartOf /\ "i8" \in Forms /\ Bytes["i8"] = 8 /\ p.len = Bytes["i8"]
    BY <1>5, ValPart, FormBytes DEF Forms, FormOf
  <2>2. x = apple_a(m, t, n) /\ p = Val(n, FormOf[t]) /\ p.len \in {1, 2, 4, 8} /\ p.len = 8 /\ p.len <= 8
    BY <1>5, <2>1 DEF FormOf
  <2>3. /\ Laid(x, 0, 0, 8 * x.i, 8 * x.f) /\ More(m, x) /\ x.f = m.f
        /\ m.i < 8 => x.i = m.i + 1 /\ x.size = m.size /\ At("I", 8 * m.i, p) \in x.mem
        /\ ~(m.i < 8) => x.i = m.i
        /\ ~(m.i < 8) /\ Room(m) => x.size = ((m.size + p.len - 1) \div p.len) * p.len + p.len /\ At("V", ((m.size + p.len - 1) \div p.len) * p.len, p) \in x.mem
    BY <1>1, <1>5, <2>1, <2>2, AppleInt
  <2> HIDE DEF x
  <2>4. Laid(x, 0, 0, 8 * x.i, 8 * x.f) /\ More(m, x)
    BY <1>1, <2>3
  <2>5. ASSUME m.i < 8, Room(m)
       PROVE  /\ Intact(x, n)
              /\ \A r \in Cursors : r.i = m.i /\ r.f = m.f /\ r.sp = m.size =>
                    LET a == dcbArg_apple(r, t)
                    IN  Kept(r, a) /\ a.rd.i = x.i /\ a.rd.f = x.f /\ a.rd.sp = x.size /\ Found(x.mem, a, n)
    <3>1. At("I", 8 * m.i, p) \in x.mem /\ 8 * m.i \in Nat
      BY <1>1, <1>5, <2>1, <2>3, <2>5
    <3>2. Intact(x, n)
      BY <2>1, <3>1, FoundVal
    <3>3. ASSUME NEW r \in Cursors, r.i = m.i /\ r.f = m.f /\ r.sp = m.size
          PROVE  LET a == dcbArg_apple(r, t)
                 IN  Kept(r, a) /\ a.rd.i = x.i /\ a.rd.f = x.f /\ a.rd.sp = x.size /\ Found(x.mem, a, n)
      <4>0. PICK k \in Nat : k = 8 * m.i + 8
        BY <3>1
      <4> DEFINE a == dcbArg_apple(r, t)
                 s == [r EXCEPT !.i = @ + 1]
      <4>1. a = Access(s, <<Loc("I", 8 * m.i, Bytes["i8"])>>, "i8")
        BY <1>5, <2>1, <2>5, <3>3, <4>0 DEF dcbArg_apple, AlignUp, FormOf
      <4>2. Found(x.mem, a, n)
        BY <2>1, <3>1, <4>1, FoundVal
      <4>3. s \in Cursors /\ s.vt = r.vt /\ s.hid = r.hid
        BY <1>1, <3>3, <4>0 DEF Cursors
      <4>3a. a.rd = s
        BY <4>1 DEF Access
      <4>4. s.i = x.i /\ s.f = x.f /\ s.sp = x.size
        BY <1>1, <1>5, <2>1, <2>3, <2>5, <3>3, <4>0 DEF Cursors
      <4> HIDE DEF a, s
      <4>5. Kept(r, a) /\ a.rd.i = x.i /\ a.rd.f = x.f /\ a.rd.sp = x.size /\ Found(x.mem, a, n)
        BY <4>2, <4>3, <4>3a, <4>4 DEF Kept
      <4> QED
        BY <4>5 DEF a
    <3> QED
      BY <3>2, <3>3
  <2>6. ASSUME ~(m.i < 8), Room(m)
       PROVE  /\ Intact(x, n)
              /\ \A r \in Cursors : r.i = m.i /\ r.f = m.f /\ r.sp = m.size =>
                    LET a == dcbArg_apple(r, t)
                    IN  Kept(r, a) /\ a.rd.i = x.i /\ a.rd.f = x.f /\ a.rd.sp = x.size /\ Found(x.mem, a, n)
    <3>1. At("V", ((m.size + 8 - 1) \div 8) * 8, p) \in x.mem /\ ((m.size + 8 - 1) \div 8) * 8 \in Nat
      BY <1>1, <1>5, <2>1, <2>3, <2>6
    <3>2. Intact(x, n)
      BY <2>1, <3>1, FoundVal
    <3>3. ASSUME NEW r \in Cursors, r.i = m.i /\ r.f = m.f /\ r.sp = m.size
          PROVE  LET a == dcbArg_apple(r, t)
                 IN  Kept(r, a) /\ a.rd.i = x.i /\ a.rd.f = x.f /\ a.rd.sp = x.size /\ Found(x.mem, a, n)
      <4>0. PICK k \in Nat : k = ((m.size + 8 - 1) \div 8) * 8 + 8
        BY <3>1
      <4> DEFINE a == dcbArg_apple(r, t)
                 s == [r EXCEPT !.sp = k]
      <4>1. a = Access(s, <<Loc("V", ((m.size + 8 - 1) \div 8) * 8, Bytes["i8"])>>, "i8")
        BY <1>5, <2>1, <2>6, <3>3, <4>0 DEF dcbArg_apple, AlignUp, FormOf
      <4>2. Found(x.mem, a, n)
        BY <2>1, <3>1, <4>1, FoundVal
      <4>3. s \in Cursors /\ s.vt = r.vt /\ s.hid = r.hid
        BY <1>1, <3>3, <4>0 DEF Cursors
      <4>3a. a.rd = s
        BY <4>1 DEF Access
      <4>4. s.i = x.i /\ s.f = x.f /\ s.sp = x.size
        BY <1>1, <1>5, <2>1, <2>3, <2>6, <3>3, <4>0 DEF Cursors
      <4> HIDE DEF a, s
      <4>5. Kept(r, a) /\ a.rd.i = x.i /\ a.rd.f = x.f /\ a.rd.sp = x.size /\ Found(x.mem, a, n)
        BY <4>2, <4>3, <4>3a, <4>4 DEF Kept
      <4> QED
        BY <4>5 DEF a
    <3> QED
      BY <3>2, <3>3
  <2> QED
    BY <1>1, <2>4, <2>5, <2>6 DEF x
<1>6. CASE t = "float"
  <2> DEFINE p == Val(n, "f4")
  <2>1. /\ p \in PartOf /\ "f4" \in Forms /\ Bytes["f4"] = 4 /\ p.len = Bytes["f4"]
    BY <1>6, ValPart, FormBytes DEF Forms, FormOf
  <2>2. x = apple_a(m, t, n) /\ p = Val(n, FormOf[t]) /\ p.len \in {1, 2, 4, 8} /\ p.len = 4 /\ p.len <= 8
    BY <1>6, <2>1 DEF FormOf
  <2>3. /\ Laid(x, 0, 0, 8 * x.i, 8 * x.f) /\ More(m, x) /\ x.i = m.i
        /\ m.f < 8 => x.f = m.f + 1 /\ x.size = m.size /\ At("F", 8 * m.f, p) \in x.mem
        /\ ~(m.f < 8) => x.f = m.f
        /\ ~(m.f < 8) /\ Room(m) => x.size = ((m.size + p.len - 1) \div p.len) * p.len + p.len /\ At("V", ((m.size + p.len - 1) \div p.len) * p.len, p) \in x.mem
    BY <1>1, <1>6, <2>1, <2>2, AppleFloat
  <2> HIDE DEF x
  <2>4. Laid(x, 0, 0, 8 * x.i, 8 * x.f) /\ More(m, x)
    BY <1>1, <2>3
  <2>5. ASSUME m.f < 8, Room(m)
       PROVE  /\ Intact(x, n)
              /\ \A r \in Cursors : r.i = m.i /\ r.f = m.f /\ r.sp = m.size =>
                    LET a == dcbArg_apple(r, t)
                    IN  Kept(r, a) /\ a.rd.i = x.i /\ a.rd.f = x.f /\ a.rd.sp = x.size /\ Found(x.mem, a, n)
    <3>1. At("F", 8 * m.f, p) \in x.mem /\ 8 * m.f \in Nat
      BY <1>1, <1>6, <2>1, <2>3, <2>5
    <3>2. Intact(x, n)
      BY <2>1, <3>1, FoundVal
    <3>3. ASSUME NEW r \in Cursors, r.i = m.i /\ r.f = m.f /\ r.sp = m.size
          PROVE  LET a == dcbArg_apple(r, t)
                 IN  Kept(r, a) /\ a.rd.i = x.i /\ a.rd.f = x.f /\ a.rd.sp = x.size /\ Found(x.mem, a, n)
      <4>0. PICK k \in Nat : k = 8 * m.f + 4
        BY <3>1
      <4> DEFINE a == dcbArg_apple(r, t)
                 s == [r EXCEPT !.f = @ + 1]
      <4>1. a = Access(s, <<Loc("F", 8 * m.f, Bytes["f4"])>>, "f4")
        BY <1>6, <2>1, <2>5, <3>3, <4>0 DEF dcbArg_apple, AlignUp, FormOf
      <4>2. Found(x.mem, a, n)
        BY <2>1, <3>1, <4>1, FoundVal
      <4>3. s \in Cursors /\ s.vt = r.vt /\ s.hid = r.hid
        BY <1>1, <3>3, <4>0 DEF Cursors
      <4>3a. a.rd = s
        BY <4>1 DEF Access
      <4>4. s.i = x.i /\ s.f = x.f /\ s.sp = x.size
        BY <1>1, <1>6, <2>1, <2>3, <2>5, <3>3, <4>0 DEF Cursors
      <4> HIDE DEF a, s
      <4>5. Kept(r, a) /\ a.rd.i = x.i /\ a.rd.f = x.f /\ a.rd.sp = x.size /\ Found(x.mem, a, n)
        BY <4>2, <4>3, <4>3a, <4>4 DEF Kept
      <4> QED
        BY <4>5 DEF a
    <3> QED
      BY <3>2, <3>3
  <2>6. ASSUME ~(m.f < 8), Room(m)
       PROVE  /\ Intact(x, n)
              /\ \A r \in Cursors : r.i = m.i /\ r.f = m.f /\ r.sp = m.size =>
                    LET a == dcbArg_apple(r, t)
                    IN  Kept(r, a) /\ a.rd.i = x.i /\ a.rd.f = x.f /\ a.rd.sp = x.size /\ Found(x.mem, a, n)
    <3>1. At("V", ((m.size + 4 - 1) \div 4) * 4, p) \in x.mem /\ ((m.size + 4 - 1) \div 4) * 4 \in Nat
      BY <1>1, <1>6, <2>1, <2>3, <2>6
    <3>2. Intact(x, n)
      BY <2>1, <3>1, FoundVal
    <3>3. ASSUME NEW r \in Cursors, r.i = m.i /\ r.f = m.f /\ r.sp = m.size
          PROVE  LET a == dcbArg_apple(r, t)
                 IN  Kept(r, a) /\ a.rd.i = x.i /\ a.rd.f = x.f /\ a.rd.sp = x.size /\ Found(x.mem, a, n)
      <4>0. PICK k \in Nat : k = ((m.size + 4 - 1) \div 4) * 4 + 4
        BY <3>1
      <4> DEFINE a == dcbArg_apple(r, t)
                 s == [r EXCEPT !.sp = k]
      <4>1. a = Access(s, <<Loc("V", ((m.size + 4 - 1) \div 4) * 4, Bytes["f4"])>>, "f4")
        BY <1>6, <2>1, <2>6, <3>3, <4>0 DEF dcbArg_apple, AlignUp, FormOf
      <4>2. Found(x.mem, a, n)
        BY <2>1, <3>1, <4>1, FoundVal
      <4>3. s \in Cursors /\ s.vt = r.vt /\ s.hid = r.hid
        BY <1>1, <3>3, <4>0 DEF Cursors
      <4>3a. a.rd = s
        BY <4>1 DEF Access
      <4>4. s.i = x.i /\ s.f = x.f /\ s.sp = x.size
        BY <1>1, <1>6, <2>1, <2>3, <2>6, <3>3, <4>0 DEF Cursors
      <4> HIDE DEF a, s
      <4>5. Kept(r, a) /\ a.rd.i = x.i /\ a.rd.f = x.f /\ a.rd.sp = x.size /\ Found(x.mem, a, n)
        BY <4>2, <4>3, <4>3a, <4>4 DEF Kept
      <4> QED
        BY <4>5 DEF a
    <3> QED
      BY <3>2, <3>3
  <2> QED
    BY <1>1, <2>4, <2>5, <2>6 DEF x
<1>7. CASE t = "double"
  <2> DEFINE p == Val(n, "f8")
  <2>1. /\ p \in PartOf /\ "f8" \in Forms /\ Bytes["f8"] = 8 /\ p.len = Bytes["f8"]
    BY <1>7, ValPart, FormBytes DEF Forms, FormOf
  <2>2. x = apple_a(m, t, n) /\ p = Val(n, FormOf[t]) /\ p.len \in {1, 2, 4, 8} /\ p.len = 8 /\ p.len <= 8
    BY <1>7, <2>1 DEF FormOf
  <2>3. /\ Laid(x, 0, 0, 8 * x.i, 8 * x.f) /\ More(m, x) /\ x.i = m.i
        /\ m.f < 8 => x.f = m.f + 1 /\ x.size = m.size /\ At("F", 8 * m.f, p) \in x.mem
        /\ ~(m.f < 8) => x.f = m.f
        /\ ~(m.f < 8) /\ Room(m) => x.size = ((m.size + p.len - 1) \div p.len) * p.len + p.len /\ At("V", ((m.size + p.len - 1) \div p.len) * p.len, p) \in x.mem
    BY <1>1, <1>7, <2>1, <2>2, AppleFloat
  <2> HIDE DEF x
  <2>4. Laid(x, 0, 0, 8 * x.i, 8 * x.f) /\ More(m, x)
    BY <1>1, <2>3
  <2>5. ASSUME m.f < 8, Room(m)
       PROVE  /\ Intact(x, n)
              /\ \A r \in Cursors : r.i = m.i /\ r.f = m.f /\ r.sp = m.size =>
                    LET a == dcbArg_apple(r, t)
                    IN  Kept(r, a) /\ a.rd.i = x.i /\ a.rd.f = x.f /\ a.rd.sp = x.size /\ Found(x.mem, a, n)
    <3>1. At("F", 8 * m.f, p) \in x.mem /\ 8 * m.f \in Nat
      BY <1>1, <1>7, <2>1, <2>3, <2>5
    <3>2. Intact(x, n)
      BY <2>1, <3>1, FoundVal
    <3>3. ASSUME NEW r \in Cursors, r.i = m.i /\ r.f = m.f /\ r.sp = m.size
          PROVE  LET a == dcbArg_apple(r, t)
                 IN  Kept(r, a) /\ a.rd.i = x.i /\ a.rd.f = x.f /\ a.rd.sp = x.size /\ Found(x.mem, a, n)
      <4>0. PICK k \in Nat : k = 8 * m.f + 8
        BY <3>1
      <4> DEFINE a == dcbArg_apple(r, t)
                 s == [r EXCEPT !.f = @ + 1]
      <4>1. a = Access(s, <<Loc("F", 8 * m.f, Bytes["f8"])>>, "f8")
        BY <1>7, <2>1, <2>5, <3>3, <4>0 DEF dcbArg_apple, AlignUp, FormOf
      <4>2. Found(x.mem, a, n)
        BY <2>1, <3>1, <4>1, FoundVal
      <4>3. s \in Cursors /\ s.vt = r.vt /\ s.hid = r.hid
        BY <1>1, <3>3, <4>0 DEF Cursors
      <4>3a. a.rd = s
        BY <4>1 DEF Access
      <4>4. s.i = x.i /\ s.f = x.f /\ s.sp = x.size
        BY <1>1, <1>7, <2>1, <2>3, <2>5, <3>3, <4>0 DEF Cursors
      <4> HIDE DEF a, s
      <4>5. Kept(r, a) /\ a.rd.i = x.i /\ a.rd.f = x.f /\ a.rd.sp = x.size /\ Found(x.mem, a, n)
        BY <4>2, <4>3, <4>3a, <4>4 DEF Kept
      <4> QED
        BY <4>5 DEF a
    <3> QED
      BY <3>2, <3>3
  <2>6. ASSUME ~(m.f < 8), Room(m)
       PROVE  /\ Intact(x, n)
              /\ \A r \in Cursors : r.i = m.i /\ r.f = m.f /\ r.sp = m.size =>
                    LET a == dcbArg_apple(r, t)
                    IN  Kept(r, a) /\ a.rd.i = x.i /\ a.rd.f = x.f /\ a.rd.sp = x.size /\ Found(x.mem, a, n)
    <3>1. At("V", ((m.size + 8 - 1) \div 8) * 8, p) \in x.mem /\ ((m.size + 8 - 1) \div 8) * 8 \in Nat
      BY <1>1, <1>7, <2>1, <2>3, <2>6
    <3>2. Intact(x, n)
      BY <2>1, <3>1, FoundVal
    <3>3. ASSUME NEW r \in Cursors, r.i = m.i /\ r.f = m.f /\ r.sp = m.size
          PROVE  LET a == dcbArg_apple(r, t)
                 IN  Kept(r, a) /\ a.rd.i = x.i /\ a.rd.f = x.f /\ a.rd.sp = x.size /\ Found(x.mem, a, n)
      <4>0. PICK k \in Nat : k = ((m.size + 8 - 1) \div 8) * 8 + 8
        BY <3>1
      <4> DEFINE a == dcbArg_apple(r, t)
                 s == [r EXCEPT !.sp = k]
      <4>1. a = Access(s, <<Loc("V", ((m.size + 8 - 1) \div 8) * 8, Bytes["f8"])>>, "f8")
        BY <1>7, <2>1, <2>6, <3>3, <4>0 DEF dcbArg_apple, AlignUp, FormOf
      <4>2. Found(x.mem, a, n)
        BY <2>1, <3>1, <4>1, FoundVal
      <4>3. s \in Cursors /\ s.vt = r.vt /\ s.hid = r.hid
        BY <1>1, <3>3, <4>0 DEF Cursors
      <4>3a. a.rd = s
        BY <4>1 DEF Access
      <4>4. s.i = x.i /\ s.f = x.f /\ s.sp = x.size
        BY <1>1, <1>7, <2>1, <2>3, <2>6, <3>3, <4>0 DEF Cursors
      <4> HIDE DEF a, s
      <4>5. Kept(r, a) /\ a.rd.i = x.i /\ a.rd.f = x.f /\ a.rd.sp = x.size /\ Found(x.mem, a, n)
        BY <4>2, <4>3, <4>3a, <4>4 DEF Kept
      <4> QED
        BY <4>5 DEF a
    <3> QED
      BY <3>2, <3>3
  <2> QED
    BY <1>1, <2>4, <2>5, <2>6 DEF x
<1> QED
  BY <1>2, <1>3, <1>4, <1>5, <1>6, <1>7 DEF FormOf

\* The System V PowerPC.
LEMMA Sysv32Binds ==
    ASSUME NEW m, Laid(m, 0, 0, 4 * m.i, 8 * m.f), m.copies = VecTotal, m.i <= 8,
           NEW t \in Scalar, NEW n \in Nat
    PROVE  LET x == gVT_ppc32_sysv_arg(m, t, n)
           IN  /\ Laid(x, 0, 0, 4 * x.i, 8 * x.f) /\ More(m, x) /\ x.i <= 8
               /\ Room(m) => Intact(x, n)
               /\ \A r \in Cursors : Room(m) /\ r.i = m.i /\ r.f = m.f /\ r.sp = m.size =>
                    LET a == dcbArg_ppc32_sysv(r, t)
                    IN  Kept(r, a) /\ a.rd.i = x.i /\ a.rd.f = x.f /\ a.rd.sp = x.size /\ Found(x.mem, a, n)
<1> DEFINE x == gVT_ppc32_sysv_arg(m, t, n)
<1>1. /\ m \in VM /\ m.i \in Nat /\ m.f \in Nat /\ m.size \in Nat /\ VecTotal \in Nat
  BY VecAssumption DEF Laid, VM
<1>2. CASE t = "int"
  <2> DEFINE p == Val(n, "i4")
  <2>1. /\ p \in PartOf /\ "i4" \in Forms /\ Bytes["i4"] = 4 /\ p.len = Bytes["i4"]
    BY <1>2, ValPart, FormBytes DEF Forms
  <2>2. x = dc_callvm_argInt_ppc32_sysv(m, n)
    BY <1>2 DEF gVT_ppc32_sysv_arg
  <2>3. /\ Laid(x, 0, 0, 4 * x.i, 8 * x.f) /\ More(m, x) /\ x.f = m.f
        /\ m.i < 8 => x.i = m.i + 1 /\ x.size = m.size /\ At("I", 4 * m.i, p) \in x.mem
        /\ ~(m.i < 8) => x.i = m.i
        /\ ~(m.i < 8) /\ Room(m) => x.size = m.size + 4 /\ At("V", m.size, p) \in x.mem
    BY <1>1, <1>2, <2>1, <2>2, Sysv32Int
  <2> HIDE DEF x
  <2>4. Laid(x, 0, 0, 4 * x.i, 8 * x.f) /\ More(m, x) /\ x.i <= 8
    BY <1>1, <2>3
  <2>5. ASSUME m.i < 8, Room(m)
       PROVE  /\ Intact(x, n)
              /\ \A r \in Cursors : r.i = m.i /\ r.f = m.f /\ r.sp = m.size =>
                    LET a == dcbArg_ppc32_sysv(r, t)
                    IN  Kept(r, a) /\ a.rd.i = x.i /\ a.rd.f = x.f /\ a.rd.sp = x.size /\ Found(x.mem, a, n)
    <3>1. At("I", 4 * m.i, p) \in x.mem /\ 4 * m.i \in Nat
      BY <1>1, <1>2, <2>1, <2>3, <2>5
    <3>2. Intact(x, n)
      BY <2>1, <3>1, FoundVal
    <3>3. ASSUME NEW r \in Cursors, r.i = m.i /\ r.f = m.f /\ r.sp = m.size
          PROVE  LET a == dcbArg_ppc32_sysv(r, t)
                 IN  Kept(r, a) /\ a.rd.i = x.i /\ a.rd.f = x.f /\ a.rd.sp = x.size /\ Found(x.mem, a, n)
      <4>0. PICK k \in Nat : k = 4 * m.i + 4
        BY <3>1
      <4> DEFINE a == dcbArg_ppc32_sysv(r, t)
                 s == [r EXCEPT !.i = @ + 1]
      <4>1. a = Access(s, <<Loc("I", 4 * m.i, Bytes["i4"])>>, "i4")
        BY <1>2, <2>1, <2>5, <3>3, <4>0 DEF dcbArg_ppc32_sysv, sysv_dcbArgInt
      <4>2. Found(x.mem, a, n)
        BY <2>1, <3>1, <4>1, FoundVal
      <4>3. s \in Cursors /\ s.vt = r.vt /\ s.hid = r.hid
        BY <1>1, <3>3, <4>0 DEF Cursors
      <4>3a. a.rd = s
        BY <4>1 DEF Access
      <4>4. s.i = x.i /\ s.f = x.f /\ s.sp = x.size
        BY <1>1, <1>2, <2>1, <2>3, <2>5, <3>3, <4>0 DEF Cursors
      <4> HIDE DEF a, s
      <4>5. Kept(r, a) /\ a.rd.i = x.i /\ a.rd.f = x.f /\ a.rd.sp = x.size /\ Found(x.mem, a, n)
        BY <4>2, <4>3, <4>3a, <4>4 DEF Kept
      <4> QED
        BY <4>5 DEF a
    <3> QED
      BY <3>2, <3>3
  <2>6. ASSUME ~(m.i < 8), Room(m)
       PROVE  /\ Intact(x, n)
              /\ \A r \in Cursors : r.i = m.i /\ r.f = m.f /\ r.sp = m.size =>
                    LET a == dcbArg_ppc32_sysv(r, t)
                    IN  Kept(r, a) /\ a.rd.i = x.i /\ a.rd.f = x.f /\ a.rd.sp = x.size /\ Found(x.mem, a, n)
    <3>1. At("V", m.size, p) \in x.mem /\ m.size \in Nat
      BY <1>1, <1>2, <2>1, <2>3, <2>6
    <3>2. Intact(x, n)
      BY <2>1, <3>1, FoundVal
    <3>3. ASSUME NEW r \in Cursors, r.i = m.i /\ r.f = m.f /\ r.sp = m.size
          PROVE  LET a == dcbArg_ppc32_sysv(r, t)
                 IN  Kept(r, a) /\ a.rd.i = x.i /\ a.rd.f = x.f /\ a.rd.sp = x.size /\ Found(x.mem, a, n)
      <4>0. PICK k \in Nat : k = m.size + 4
        BY <3>1
      <4> DEFINE a == dcbArg_ppc32_sysv(r, t)
                 s == [r EXCEPT !.sp = @ + 4]
      <4>1. a = Access(s, <<Loc("V", m.size, Bytes["i4"])>>, "i4")
        BY <1>2, <2>1, <2>6, <3>3, <4>0 DEF dcbArg_ppc32_sysv, sysv_dcbArgInt
      <4>2. Found(x.mem, a, n)
        BY <2>1, <3>1, <4>1, FoundVal
      <4>3. s \in Cursors /\ s.vt = r.vt /\ s.hid = r.hid
        BY <1>1, <3>3, <4>0 DEF Cursors
      <4>3a. a.rd = s
        BY <4>1 DEF Access
      <4>4. s.i = x.i /\ s.f = x.f /\ s.sp = x.size
        BY <1>1, <1>2, <2>1, <2>3, <2>6, <3>3, <4>0 DEF Cursors
      <4> HIDE DEF a, s
      <4>5. Kept(r, a) /\ a.rd.i = x.i /\ a.rd.f = x.f /\ a.rd.sp = x.size /\ Found(x.mem, a, n)
        BY <4>2, <4>3, <4>3a, <4>4 DEF Kept
      <4> QED
        BY <4>5 DEF a
    <3> QED
      BY <3>2, <3>3
  <2> QED
    BY <1>1, <2>4, <2>5, <2>6 DEF x
<1>3. CASE t = "longlong"
  <2> DEFINE p == Val(n, "i8")
  <2>1. /\ p \in PartOf /\ "i8" \in Forms /\ Bytes["i8"] = 8 /\ p.len = Bytes["i8"]
    BY <1>3, ValPart, FormBytes DEF Forms
  <2>2. x = dc_callvm_argLongLong_ppc32_sysv(m, n)
    BY <1>3 DEF gVT_ppc32_sysv_arg
  <2>3. /\ Laid(x, 0, 0, 4 * x.i, 8 * x.f) /\ More(m, x) /\ x.f = m.f
        /\ m.i < 7 => x.i = RoundEven(m.i) + 2 /\ x.size = m.size /\ At("I", 4 * RoundEven(m.i), p) \in x.mem
        /\ ~(m.i < 7) => x.i = 8
        /\ ~(m.i < 7) /\ Room(m) => x.size = ((m.size + 8 - 1) \div 8) * 8 + 8 /\ At("V", ((m.size + 8 - 1) \div 8) * 8, p) \in x.mem
    BY <1>1, <1>3, <2>1, <2>2, Sysv32LongLong
  <2> HIDE DEF x
  <2>4. Laid(x, 0, 0, 4 * x.i, 8 * x.f) /\ More(m, x) /\ x.i <= 8
    BY <1>1, <2>3 DEF RoundEven
  <2>5. ASSUME m.i < 7, Room(m)
       PROVE  /\ Intact(x, n)
              /\ \A r \in Cursors : r.i = m.i /\ r.f = m.f /\ r.sp = m.size =>
                    LET a == dcbArg_ppc32_sysv(r, t)
                    IN  Kept(r, a) /\ a.rd.i = x.i /\ a.rd.f = x.f /\ a.rd.sp = x.size /\ Found(x.mem, a, n)
    <3>1. At("I", 4 * RoundEven(m.i), p) \in x.mem /\ 4 * RoundEven(m.i) \in Nat
      BY <1>1, <1>3, <2>1, <2>3, <2>5 DEF RoundEven
    <3>2. Intact(x, n)
      BY <2>1, <3>1, FoundVal
    <3>3. ASSUME NEW r \in Cursors, r.i = m.i /\ r.f = m.f /\ r.sp = m.size
          PROVE  LET a == dcbArg_ppc32_sysv(r, t)
                 IN  Kept(r, a) /\ a.rd.i = x.i /\ a.rd.f = x.f /\ a.rd.sp = x.size /\ Found(x.mem, a, n)
      <4>0. PICK k \in Nat : k = 4 * RoundEven(m.i) + 8
        BY <3>1
      <4> DEFINE a == dcbArg_ppc32_sysv(r, t)
                 s == [r EXCEPT !.i = RoundEven(@) + 2]
      <4>1. a = Access(s, <<Loc("I", 4 * RoundEven(m.i), Bytes["i8"])>>, "i8")
        BY <1>3, <2>1, <2>5, <3>3, <4>0 DEF dcbArg_ppc32_sysv, sysv_dcbArgULongLong, Aligned8
      <4>2. Found(x.mem, a, n)
        BY <2>1, <3>1, <4>1, FoundVal
      <4>3. s \in Cursors /\ s.vt = r.vt /\ s.hid = r.hid
        BY <1>1, <3>3, <4>0 DEF Cursors, RoundEven
      <4>3a. a.rd = s
        BY <4>1 DEF Access
      <4>4. s.i = x.i /\ s.f = x.f /\ s.sp = x.size
        BY <1>1, <1>3, <2>1, <2>3, <2>5, <3>3, <4>0 DEF Cursors, RoundEven
      <4> HIDE DEF a, s
      <4>5. Kept(r, a) /\ a.rd.i = x.i /\ a.rd.f = x.f /\ a.rd.sp = x.size /\ Found(x.mem, a, n)
        BY <4>2, <4>3, <4>3a, <4>4 DEF Kept
      <4> QED
        BY <4>5 DEF a
    <3> QED
      BY <3>2, <3>3
  <2>6. ASSUME ~(m.i < 7), Room(m)
       PROVE  /\ Intact(x, n)
              /\ \A r \in Cursors : r.i = m.i /\ r.f = m.f /\ r.sp = m.size =>
                    LET a == dcbArg_ppc32_sysv(r, t)
                    IN  Kept(r, a) /\ a.rd.i = x.i /\ a.rd.f = x.f /\ a.rd.sp = x.size /\ Found(x.mem, a, n)
    <3>1. At("V", ((m.size + 8 - 1) \div 8) * 8, p) \in x.mem /\ ((m.size + 8 - 1) \div 8) * 8 \in Nat
      BY <1>1, <1>3, <2>1, <2>3, <2>6 DEF RoundEven
    <3>2. Intact(x, n)
      BY <2>1, <3>1, FoundVal
    <3>3. ASSUME NEW r \in Cursors, r.i = m.i /\ r.f = m.f /\ r.sp = m.size
          PROVE  LET a == dcbArg_ppc32_sysv(r, t)
                 IN  Kept(r, a) /\ a.rd.i = x.i /\ a.rd.f = x.f /\ a.rd.sp = x.size /\ Found(x.mem, a, n)
      <4>0. PICK k \in Nat : k = ((m.size + 8 - 1) \div 8) * 8 + 8
        BY <3>1
      <4> DEFINE a == dcbArg_ppc32_sysv(r, t)
                 s == [r EXCEPT !.i = 8, !.sp = k]
      <4>1. a = Access(s, <<Loc("V", ((m.size + 8 - 1) \div 8) * 8, Bytes["i8"])>>, "i8")
        BY <1>3, <2>1, <2>6, <3>3, <4>0 DEF dcbArg_ppc32_sysv, sysv_dcbArgULongLong, Aligned8
      <4>2. Found(x.mem, a, n)
        BY <2>1, <3>1, <4>1, FoundVal
      <4>3. s \in Cursors /\ s.vt = r.vt /\ s.hid = r.hid
        BY <1>1, <3>3, <4>0 DEF Cursors
      <4>3a. a.rd = s
        BY <4>1 DEF Access
      <4>4. s.i = x.i /\ s.f = x.f /\ s.sp = x.size
        BY <1>1, <1>3, <2>1, <2>3, <2>6, <3>3, <4>0 DEF Cursors
      <4> HIDE DEF a, s
      <4>5. Kept(r, a) /\ a.rd.i = x.i /\ a.rd.f = x.f /\ a.rd.sp = x.size /\ Found(x.mem, a, n)
        BY <4>2, <4>3, <4>3a, <4>4 DEF Kept
      <4> QED
        BY <4>5 DEF a
    <3> QED
      BY <3>2, <3>3
  <2> QED
    BY <1>1, <2>4, <2>5, <2>6 DEF x
<1>4. CASE t = "float"
  <2> DEFINE p == Val(n, "w8")
             q == Val(n, "f4")
  <2>1. /\ p \in PartOf /\ "w8" \in Forms /\ Bytes["w8"] = 8 /\ p.len = Bytes["w8"]
        /\ q \in PartOf /\ "f4" \in Forms /\ Bytes["f4"] = 4 /\ q.len = Bytes["f4"]
    BY <1>4, ValPart, FormBytes DEF Forms
  <2>2. x = dc_callvm_argFloat_ppc32_sysv(m, n)
    BY <1>4 DEF gVT_ppc32_sysv_arg
  <2>3. /\ Laid(x, 0, 0, 4 * x.i, 8 * x.f) /\ More(m, x) /\ x.i = m.i
        /\ m.f < 8 => x.f = m.f + 1 /\ x.size = m.size /\ At("F", 8 * m.f, p) \in x.mem
        /\ ~(m.f < 8) => x.f = m.f
        /\ ~(m.f < 8) /\ Room(m) => x.size = m.size + 4 /\ At("V", m.size, q) \in x.mem
    BY <1>1, <1>4, <2>1, <2>2, Sysv32Float
  <2> HIDE DEF x
  <2>4. Laid(x, 0, 0, 4 * x.i, 8 * x.f) /\ More(m, x) /\ x.i <= 8
    BY <1>1, <2>3
  <2>5. ASSUME m.f < 8, Room(m)
       PROVE  /\ Intact(x, n)
              /\ \A r \in Cursors : r.i = m.i /\ r.f = m.f /\ r.sp = m.size =>
                    LET a == dcbArg_ppc32_sysv(r, t)
                    IN  Kept(r, a) /\ a.rd.i = x.i /\ a.rd.f = x.f /\ a.rd.sp = x.size /\ Found(x.mem, a, n)
    <3>1. At("F", 8 * m.f, p) \in x.mem /\ 8 * m.f \in Nat
      BY <1>1, <1>4, <2>1, <2>3, <2>5
    <3>2. Intact(x, n)
      BY <2>1, <3>1, FoundVal
    <3>3. ASSUME NEW r \in Cursors, r.i = m.i /\ r.f = m.f /\ r.sp = m.size
          PROVE  LET a == dcbArg_ppc32_sysv(r, t)
                 IN  Kept(r, a) /\ a.rd.i = x.i /\ a.rd.f = x.f /\ a.rd.sp = x.size /\ Found(x.mem, a, n)
      <4>0. PICK k \in Nat : k = 8 * m.f + 4
        BY <3>1
      <4> DEFINE a == dcbArg_ppc32_sysv(r, t)
                 s == [r EXCEPT !.f = @ + 1]
      <4>1. a = Access(s, <<Loc("F", 8 * m.f, Bytes["w8"])>>, "w8")
        BY <1>4, <2>1, <2>5, <3>3, <4>0 DEF dcbArg_ppc32_sysv, sysv_dcbArgFloat
      <4>2. Found(x.mem, a, n)
        BY <2>1, <3>1, <4>1, FoundVal
      <4>3. s \in Cursors /\ s.vt = r.vt /\ s.hid = r.hid
        BY <1>1, <3>3, <4>0 DEF Cursors
      <4>3a. a.rd = s
        BY <4>1 DEF Access
      <4>4. s.i = x.i /\ s.f = x.f /\ s.sp = x.size
        BY <1>1, <1>4, <2>1, <2>3, <2>5, <3>3, <4>0 DEF Cursors
      <4> HIDE DEF a, s
      <4>5. Kept(r, a) /\ a.rd.i = x.i /\ a.rd.f = x.f /\ a.rd.sp = x.size /\ Found(x.mem, a, n)
        BY <4>2, <4>3, <4>3a, <4>4 DEF Kept
      <4> QED
        BY <4>5 DEF a
    <3> QED
      BY <3>2, <3>3
  <2>6. ASSUME ~(m.f < 8), Room(m)
       PROVE  /\ Intact(x, n)
              /\ \A r \in Cursors : r.i = m.i /\ r.f = m.f /\ r.sp = m.size =>
                    LET a == dcbArg_ppc32_sysv(r, t)
                    IN  Kept(r, a) /\ a.rd.i = x.i /\ a.rd.f = x.f /\ a.rd.sp = x.size /\ Found(x.mem, a, n)
    <3>1. At("V", m.size, q) \in x.mem /\ m.size \in Nat
      BY <1>1, <1>4, <2>1, <2>3, <2>6
    <3>2. Intact(x, n)
      BY <2>1, <3>1, FoundVal
    <3>3. ASSUME NEW r \in Cursors, r.i = m.i /\ r.f = m.f /\ r.sp = m.size
          PROVE  LET a == dcbArg_ppc32_sysv(r, t)
                 IN  Kept(r, a) /\ a.rd.i = x.i /\ a.rd.f = x.f /\ a.rd.sp = x.size /\ Found(x.mem, a, n)
      <4>0. PICK k \in Nat : k = m.size + 4
        BY <3>1
      <4> DEFINE a == dcbArg_ppc32_sysv(r, t)
                 s == [r EXCEPT !.sp = @ + 4]
      <4>1. a = Access(s, <<Loc("V", m.size, Bytes["f4"])>>, "f4")
        BY <1>4, <2>1, <2>6, <3>3, <4>0 DEF dcbArg_ppc32_sysv, sysv_dcbArgFloat
      <4>2. Found(x.mem, a, n)
        BY <2>1, <3>1, <4>1, FoundVal
      <4>3. s \in Cursors /\ s.vt = r.vt /\ s.hid = r.hid
        BY <1>1, <3>3, <4>0 DEF Cursors
      <4>3a. a.rd = s
        BY <4>1 DEF Access
      <4>4. s.i = x.i /\ s.f = x.f /\ s.sp = x.size
        BY <1>1, <1>4, <2>1, <2>3, <2>6, <3>3, <4>0 DEF Cursors
      <4> HIDE DEF a, s
      <4>5. Kept(r, a) /\ a.rd.i = x.i /\ a.rd.f = x.f /\ a.rd.sp = x.size /\ Found(x.mem, a, n)
        BY <4>2, <4>3, <4>3a, <4>4 DEF Kept
      <4> QED
        BY <4>5 DEF a
    <3> QED
      BY <3>2, <3>3
  <2> QED
    BY <1>1, <2>4, <2>5, <2>6 DEF x
<1>5. CASE t = "double"
  <2> DEFINE p == Val(n, "f8")
  <2>1. /\ p \in PartOf /\ "f8" \in Forms /\ Bytes["f8"] = 8 /\ p.len = Bytes["f8"]
    BY <1>5, ValPart, FormBytes DEF Forms
  <2>2. x = dc_callvm_argDouble_ppc32_sysv(m, n)
    BY <1>5 DEF gVT_ppc32_sysv_arg
  <2>3. /\ Laid(x, 0, 0, 4 * x.i, 8 * x.f) /\ More(m, x) /\ x.i = m.i
        /\ m.f < 8 => x.f = m.f + 1 /\ x.size = m.size /\ At("F", 8 * m.f, p) \in x.mem
        /\ ~(m.f < 8) => x.f = m.f
        /\ ~(m.f < 8) /\ Room(m) => x.size = ((m.size + 8 - 1) \div 8) * 8 + 8 /\ At("V", ((m.size + 8 - 1) \div 8) * 8, p) \in x.mem
    BY <1>1, <1>5, <2>1, <2>2, Sysv32Double
  <2> HIDE DEF x
  <2>4. Laid(x, 0, 0, 4 * x.i, 8 * x.f) /\ More(m, x) /\ x.i <= 8
    BY <1>1, <2>3
  <2>5. ASSUME m.f < 8, Room(m)
       PROVE  /\ Intact(x, n)
              /\ \A r \in Cursors : r.i = m.i /\ r.f = m.f /\ r.sp = m.size =>
                    LET a == dcbArg_ppc32_sysv(r, t)
                    IN  Kept(r, a) /\ a.rd.i = x.i /\ a.rd.f = x.f /\ a.rd.sp = x.size /\ Found(x.mem, a, n)
    <3>1. At("F", 8 * m.f, p) \in x.mem /\ 8 * m.f \in Nat
      BY <1>1, <1>5, <2>1, <2>3, <2>5
    <3>2. Intact(x, n)
      BY <2>1, <3>1, FoundVal
    <3>3. ASSUME NEW r \in Cursors, r.i = m.i /\ r.f = m.f /\ r.sp = m.size
          PROVE  LET a == dcbArg_ppc32_sysv(r, t)
                 IN  Kept(r, a) /\ a.rd.i = x.i /\ a.rd.f = x.f /\ a.rd.sp = x.size /\ Found(x.mem, a, n)
      <4>0. PICK k \in Nat : k = 8 * m.f + 8
        BY <3>1
      <4> DEFINE a == dcbArg_ppc32_sysv(r, t)
                 s == [r EXCEPT !.f = @ + 1]
      <4>1. a = Access(s, <<Loc("F", 8 * m.f, Bytes["f8"])>>, "f8")
        BY <1>5, <2>1, <2>5, <3>3, <4>0 DEF dcbArg_ppc32_sysv, sysv_dcbArgDouble, Aligned8
      <4>2. Found(x.mem, a, n)
        BY <2>1, <3>1, <4>1, FoundVal
      <4>3. s \in Cursors /\ s.vt = r.vt /\ s.hid = r.hid
        BY <1>1, <3>3, <4>0 DEF Cursors
      <4>3a. a.rd = s
        BY <4>1 DEF Access
      <4>4. s.i = x.i /\ s.f = x.f /\ s.sp = x.size
        BY <1>1, <1>5, <2>1, <2>3, <2>5, <3>3, <4>0 DEF Cursors
      <4> HIDE DEF a, s
      <4>5. Kept(r, a) /\ a.rd.i = x.i /\ a.rd.f = x.f /\ a.rd.sp = x.size /\ Found(x.mem, a, n)
        BY <4>2, <4>3, <4>3a, <4>4 DEF Kept
      <4> QED
        BY <4>5 DEF a
    <3> QED
      BY <3>2, <3>3
  <2>6. ASSUME ~(m.f < 8), Room(m)
       PROVE  /\ Intact(x, n)
              /\ \A r \in Cursors : r.i = m.i /\ r.f = m.f /\ r.sp = m.size =>
                    LET a == dcbArg_ppc32_sysv(r, t)
                    IN  Kept(r, a) /\ a.rd.i = x.i /\ a.rd.f = x.f /\ a.rd.sp = x.size /\ Found(x.mem, a, n)
    <3>1. At("V", ((m.size + 8 - 1) \div 8) * 8, p) \in x.mem /\ ((m.size + 8 - 1) \div 8) * 8 \in Nat
      BY <1>1, <1>5, <2>1, <2>3, <2>6
    <3>2. Intact(x, n)
      BY <2>1, <3>1, FoundVal
    <3>3. ASSUME NEW r \in Cursors, r.i = m.i /\ r.f = m.f /\ r.sp = m.size
          PROVE  LET a == dcbArg_ppc32_sysv(r, t)
                 IN  Kept(r, a) /\ a.rd.i = x.i /\ a.rd.f = x.f /\ a.rd.sp = x.size /\ Found(x.mem, a, n)
      <4>0. PICK k \in Nat : k = ((m.size + 8 - 1) \div 8) * 8 + 8
        BY <3>1
      <4> DEFINE a == dcbArg_ppc32_sysv(r, t)
                 s == [r EXCEPT !.sp = k]
      <4>1. a = Access(s, <<Loc("V", ((m.size + 8 - 1) \div 8) * 8, Bytes["f8"])>>, "f8")
        BY <1>5, <2>1, <2>6, <3>3, <4>0 DEF dcbArg_ppc32_sysv, sysv_dcbArgDouble, Aligned8
      <4>2. Found(x.mem, a, n)
        BY <2>1, <3>1, <4>1, FoundVal
      <4>3. s \in Cursors /\ s.vt = r.vt /\ s.hid = r.hid
        BY <1>1, <3>3, <4>0 DEF Cursors
      <4>3a. a.rd = s
        BY <4>1 DEF Access
      <4>4. s.i = x.i /\ s.f = x.f /\ s.sp = x.size
        BY <1>1, <1>5, <2>1, <2>3, <2>6, <3>3, <4>0 DEF Cursors
      <4> HIDE DEF a, s
      <4>5. Kept(r, a) /\ a.rd.i = x.i /\ a.rd.f = x.f /\ a.rd.sp = x.size /\ Found(x.mem, a, n)
        BY <4>2, <4>3, <4>3a, <4>4 DEF Kept
      <4> QED
        BY <4>5 DEF a
    <3> QED
      BY <3>2, <3>3
  <2> QED
    BY <1>1, <2>4, <2>5, <2>6 DEF x
<1> QED
  BY <1>2, <1>3, <1>4, <1>5 DEF Scalar

\* MIPS n32 and n64.
LEMMA N64Binds ==
    ASSUME NEW m, Laid(m, 0, 0, 8 * m.i, 8 * m.i), m.copies = VecTotal,
           NEW t \in Scalar, NEW n \in Nat
    PROVE  LET x == gVT_mips_n64_arg(m, t, n)
           IN  /\ Laid(x, 0, 0, 8 * x.i, 8 * x.i) /\ More(m, x)
               /\ Room(m) => Intact(x, n)
               /\ \A r \in Cursors : Room(m) /\ r.i = m.i /\ r.sp = m.size =>
                    LET a == dcbArg_mips64(r, t)
                    IN  Kept(r, a) /\ a.rd.i = x.i /\ a.rd.sp = x.size /\ Found(x.mem, a, n)
<1> DEFINE x == gVT_mips_n64_arg(m, t, n)
<1>1. /\ m \in VM /\ m.i \in Nat /\ m.f \in Nat /\ m.size \in Nat /\ VecTotal \in Nat
  BY VecAssumption DEF Laid, VM
<1>2. CASE t \in {"int", "longlong"}
  <2> DEFINE p == Val(n, "i8")
  <2>1. /\ p \in PartOf /\ "i8" \in Forms /\ Bytes["i8"] = 8 /\ p.len = Bytes["i8"]
    BY <1>2, ValPart, FormBytes DEF Forms
  <2>2. x = dc_callvm_argLongLong_mips_n64(m, p)
    BY <1>2 DEF gVT_mips_n64_arg
  <2>3. /\ Laid(x, 0, 0, 8 * x.i, 8 * x.i) /\ More(m, x) /\ x.f = m.f
        /\ m.i < 8 => x.i = m.i + 1 /\ x.size = m.size /\ At("I", 8 * m.i, p) \in x.mem
        /\ ~(m.i < 8) => x.i = m.i
        /\ ~(m.i < 8) /\ Room(m) => x.size = m.size + 8 /\ At("V", m.size, p) \in x.mem
    BY <1>1, <1>2, <2>1, <2>2, N64LongLong
  <2> HIDE DEF x
  <2>4. Laid(x, 0, 0, 8 * x.i, 8 * x.i) /\ More(m, x)
    BY <1>1, <2>3
  <2>5. ASSUME m.i < 8, Room(m)
       PROVE  /\ Intact(x, n)
              /\ \A r \in Cursors : r.i = m.i /\ r.sp = m.size =>
                    LET a == dcbArg_mips64(r, t)
                    IN  Kept(r, a) /\ a.rd.i = x.i /\ a.rd.sp = x.size /\ Found(x.mem, a, n)
    <3>1. At("I", 8 * m.i, p) \in x.mem /\ 8 * m.i \in Nat
      BY <1>1, <1>2, <2>1, <2>3, <2>5
    <3>2. Intact(x, n)
      BY <2>1, <3>1, FoundVal
    <3>3. ASSUME NEW r \in Cursors, r.i = m.i /\ r.sp = m.size
          PROVE  LET a == dcbArg_mips64(r, t)
                 IN  Kept(r, a) /\ a.rd.i = x.i /\ a.rd.sp = x.size /\ Found(x.mem, a, n)
      <4>0. PICK k \in Nat : k = 8 * m.i + 8
        BY <3>1
      <4> DEFINE a == dcbArg_mips64(r, t)
                 s == [r EXCEPT !.i = @ + 1]
      <4>1. a = Access(s, <<Loc("I", 8 * m.i, Bytes["i8"])>>, "i8")
        BY <1>2, <2>1, <2>5, <3>3, <4>0 DEF dcbArg_mips64, FormOf
      <4>2. Found(x.mem, a, n)
        BY <2>1, <3>1, <4>1, FoundVal
      <4>3. s \in Cursors /\ s.vt = r.vt /\ s.hid = r.hid
        BY <1>1, <3>3, <4>0 DEF Cursors
      <4>3a. a.rd = s
        BY <4>1 DEF Access
      <4>4. s.i = x.i /\ s.sp = x.size
        BY <1>1, <1>2, <2>1, <2>3, <2>5, <3>3, <4>0 DEF Cursors
      <4> HIDE DEF a, s
      <4>5. Kept(r, a) /\ a.rd.i = x.i /\ a.rd.sp = x.size /\ Found(x.mem, a, n)
        BY <4>2, <4>3, <4>3a, <4>4 DEF Kept
      <4> QED
        BY <4>5 DEF a
    <3> QED
      BY <3>2, <3>3
  <2>6. ASSUME ~(m.i < 8), Room(m)
       PROVE  /\ Intact(x, n)
              /\ \A r \in Cursors : r.i = m.i /\ r.sp = m.size =>
                    LET a == dcbArg_mips64(r, t)
                    IN  Kept(r, a) /\ a.rd.i = x.i /\ a.rd.sp = x.size /\ Found(x.mem, a, n)
    <3>1. At("V", m.size, p) \in x.mem /\ m.size \in Nat
      BY <1>1, <1>2, <2>1, <2>3, <2>6
    <3>2. Intact(x, n)
      BY <2>1, <3>1, FoundVal
    <3>3. ASSUME NEW r \in Cursors, r.i = m.i /\ r.sp = m.size
          PROVE  LET a == dcbArg_mips64(r, t)
                 IN  Kept(r, a) /\ a.rd.i = x.i /\ a.rd.sp = x.size /\ Found(x.mem, a, n)
      <4>0. PICK k \in Nat : k = m.size + 8
        BY <3>1
      <4> DEFINE a == dcbArg_mips64(r, t)
                 s == [r EXCEPT !.sp = @ + 8]
      <4>1. a = Access(s, <<Loc("V", m.size, Bytes["i8"])>>, "i8")
        BY <1>2, <2>1, <2>6, <3>3, <4>0 DEF dcbArg_mips64, FormOf
      <4>2. Found(x.mem, a, n)
        BY <2>1, <3>1, <4>1, FoundVal
      <4>3. s \in Cursors /\ s.vt = r.vt /\ s.hid = r.hid
        BY <1>1, <3>3, <4>0 DEF Cursors
      <4>3a. a.rd = s
        BY <4>1 DEF Access
      <4>4. s.i = x.i /\ s.sp = x.size
        BY <1>1, <1>2, <2>1, <2>3, <2>6, <3>3, <4>0 DEF Cursors
      <4> HIDE DEF a, s
      <4>5. Kept(r, a) /\ a.rd.i = x.i /\ a.rd.sp = x.size /\ Found(x.mem, a, n)
        BY <4>2, <4>3, <4>3a, <4>4 DEF Kept
      <4> QED
        BY <4>5 DEF a
    <3> QED
      BY <3>2, <3>3
  <2> QED
    BY <1>1, <2>4, <2>5, <2>6 DEF x
<1>3. CASE t = "float"
  <2> DEFINE p == Val(n, "f4")
  <2>1. /\ p \in PartOf /\ "f4" \in Forms /\ Bytes["f4"] = 4 /\ p.len = Bytes["f4"]
    BY <1>3, ValPart, FormBytes DEF Forms
  <2>2. x = dc_callvm_argFloat_mips_n64(m, p)
    BY <1>3 DEF gVT_mips_n64_arg
  <2>3. /\ Laid(x, 0, 0, 8 * x.i, 8 * x.i) /\ More(m, x) /\ x.f = m.f
        /\ m.i < 8 => x.i = m.i + 1 /\ x.size = m.size /\ At("F", 8 * m.i, p) \in x.mem
        /\ ~(m.i < 8) => x.i = m.i
        /\ ~(m.i < 8) /\ Room(m) => x.size = m.size + 8 /\ At("V", m.size, p) \in x.mem
    BY <1>1, <1>3, <2>1, <2>2, N64Float
  <2> HIDE DEF x
  <2>4. Laid(x, 0, 0, 8 * x.i, 8 * x.i) /\ More(m, x)
    BY <1>1, <2>3
  <2>5. ASSUME m.i < 8, Room(m)
       PROVE  /\ Intact(x, n)
              /\ \A r \in Cursors : r.i = m.i /\ r.sp = m.size =>
                    LET a == dcbArg_mips64(r, t)
                    IN  Kept(r, a) /\ a.rd.i = x.i /\ a.rd.sp = x.size /\ Found(x.mem, a, n)
    <3>1. At("F", 8 * m.i, p) \in x.mem /\ 8 * m.i \in Nat
      BY <1>1, <1>3, <2>1, <2>3, <2>5
    <3>2. Intact(x, n)
      BY <2>1, <3>1, FoundVal
    <3>3. ASSUME NEW r \in Cursors, r.i = m.i /\ r.sp = m.size
          PROVE  LET a == dcbArg_mips64(r, t)
                 IN  Kept(r, a) /\ a.rd.i = x.i /\ a.rd.sp = x.size /\ Found(x.mem, a, n)
      <4>0. PICK k \in Nat : k = 8 * m.i + 8
        BY <3>1
      <4> DEFINE a == dcbArg_mips64(r, t)
                 s == [r EXCEPT !.i = @ + 1]
      <4>1. a = Access(s, <<Loc("F", 8 * m.i, Bytes["f4"])>>, "f4")
        BY <1>3, <2>1, <2>5, <3>3, <4>0 DEF dcbArg_mips64, FormOf
      <4>2. Found(x.mem, a, n)
        BY <2>1, <3>1, <4>1, FoundVal
      <4>3. s \in Cursors /\ s.vt = r.vt /\ s.hid = r.hid
        BY <1>1, <3>3, <4>0 DEF Cursors
      <4>3a. a.rd = s
        BY <4>1 DEF Access
      <4>4. s.i = x.i /\ s.sp = x.size
        BY <1>1, <1>3, <2>1, <2>3, <2>5, <3>3, <4>0 DEF Cursors
      <4> HIDE DEF a, s
      <4>5. Kept(r, a) /\ a.rd.i = x.i /\ a.rd.sp = x.size /\ Found(x.mem, a, n)
        BY <4>2, <4>3, <4>3a, <4>4 DEF Kept
      <4> QED
        BY <4>5 DEF a
    <3> QED
      BY <3>2, <3>3
  <2>6. ASSUME ~(m.i < 8), Room(m)
       PROVE  /\ Intact(x, n)
              /\ \A r \in Cursors : r.i = m.i /\ r.sp = m.size =>
                    LET a == dcbArg_mips64(r, t)
                    IN  Kept(r, a) /\ a.rd.i = x.i /\ a.rd.sp = x.size /\ Found(x.mem, a, n)
    <3>1. At("V", m.size, p) \in x.mem /\ m.size \in Nat
      BY <1>1, <1>3, <2>1, <2>3, <2>6
    <3>2. Intact(x, n)
      BY <2>1, <3>1, FoundVal
    <3>3. ASSUME NEW r \in Cursors, r.i = m.i /\ r.sp = m.size
          PROVE  LET a == dcbArg_mips64(r, t)
                 IN  Kept(r, a) /\ a.rd.i = x.i /\ a.rd.sp = x.size /\ Found(x.mem, a, n)
      <4>0. PICK k \in Nat : k = m.size + 8
        BY <3>1
      <4> DEFINE a == dcbArg_mips64(r, t)
                 s == [r EXCEPT !.sp = @ + 8]
      <4>1. a = Access(s, <<Loc("V", m.size, Bytes["f4"])>>, "f4")
        BY <1>3, <2>1, <2>6, <3>3, <4>0 DEF dcbArg_mips64, FormOf
      <4>2. Found(x.mem, a, n)
        BY <2>1, <3>1, <4>1, FoundVal
      <4>3. s \in Cursors /\ s.vt = r.vt /\ s.hid = r.hid
        BY <1>1, <3>3, <4>0 DEF Cursors
      <4>3a. a.rd = s
        BY <4>1 DEF Access
      <4>4. s.i = x.i /\ s.sp = x.size
        BY <1>1, <1>3, <2>1, <2>3, <2>6, <3>3, <4>0 DEF Cursors
      <4> HIDE DEF a, s
      <4>5. Kept(r, a) /\ a.rd.i = x.i /\ a.rd.sp = x.size /\ Found(x.mem, a, n)
        BY <4>2, <4>3, <4>3a, <4>4 DEF Kept
      <4> QED
        BY <4>5 DEF a
    <3> QED
      BY <3>2, <3>3
  <2> QED
    BY <1>1, <2>4, <2>5, <2>6 DEF x
<1>4. CASE t = "double"
  <2> DEFINE p == Val(n, "f8")
  <2>1. /\ p \in PartOf /\ "f8" \in Forms /\ Bytes["f8"] = 8 /\ p.len = Bytes["f8"]
    BY <1>4, ValPart, FormBytes DEF Forms
  <2>2. x = dc_callvm_argDouble_mips_n64(m, p)
    BY <1>4 DEF gVT_mips_n64_arg
  <2>3. /\ Laid(x, 0, 0, 8 * x.i, 8 * x.i) /\ More(m, x) /\ x.f = m.f
        /\ m.i < 8 => x.i = m.i + 1 /\ x.size = m.size /\ At("F", 8 * m.i, p) \in x.mem
        /\ ~(m.i < 8) => x.i = m.i
        /\ ~(m.i < 8) /\ Room(m) => x.size = m.size + 8 /\ At("V", m.size, p) \in x.mem
    BY <1>1, <1>4, <2>1, <2>2, N64Double
  <2> HIDE DEF x
  <2>4. Laid(x, 0, 0, 8 * x.i, 8 * x.i) /\ More(m, x)
    BY <1>1, <2>3
  <2>5. ASSUME m.i < 8, Room(m)
       PROVE  /\ Intact(x, n)
              /\ \A r \in Cursors : r.i = m.i /\ r.sp = m.size =>
                    LET a == dcbArg_mips64(r, t)
                    IN  Kept(r, a) /\ a.rd.i = x.i /\ a.rd.sp = x.size /\ Found(x.mem, a, n)
    <3>1. At("F", 8 * m.i, p) \in x.mem /\ 8 * m.i \in Nat
      BY <1>1, <1>4, <2>1, <2>3, <2>5
    <3>2. Intact(x, n)
      BY <2>1, <3>1, FoundVal
    <3>3. ASSUME NEW r \in Cursors, r.i = m.i /\ r.sp = m.size
          PROVE  LET a == dcbArg_mips64(r, t)
                 IN  Kept(r, a) /\ a.rd.i = x.i /\ a.rd.sp = x.size /\ Found(x.mem, a, n)
      <4>0. PICK k \in Nat : k = 8 * m.i + 8
        BY <3>1
      <4> DEFINE a == dcbArg_mips64(r, t)
                 s == [r EXCEPT !.i = @ + 1]
      <4>1. a = Access(s, <<Loc("F", 8 * m.i, Bytes["f8"])>>, "f8")
        BY <1>4, <2>1, <2>5, <3>3, <4>0 DEF dcbArg_mips64, FormOf
      <4>2. Found(x.mem, a, n)
        BY <2>1, <3>1, <4>1, FoundVal
      <4>3. s \in Cursors /\ s.vt = r.vt /\ s.hid = r.hid
        BY <1>1, <3>3, <4>0 DEF Cursors
      <4>3a. a.rd = s
        BY <4>1 DEF Access
      <4>4. s.i = x.i /\ s.sp = x.size
        BY <1>1, <1>4, <2>1, <2>3, <2>5, <3>3, <4>0 DEF Cursors
      <4> HIDE DEF a, s
      <4>5. Kept(r, a) /\ a.rd.i = x.i /\ a.rd.sp = x.size /\ Found(x.mem, a, n)
        BY <4>2, <4>3, <4>3a, <4>4 DEF Kept
      <4> QED
        BY <4>5 DEF a
    <3> QED
      BY <3>2, <3>3
  <2>6. ASSUME ~(m.i < 8), Room(m)
       PROVE  /\ Intact(x, n)
              /\ \A r \in Cursors : r.i = m.i /\ r.sp = m.size =>
                    LET a == dcbArg_mips64(r, t)
                    IN  Kept(r, a) /\ a.rd.i = x.i /\ a.rd.sp = x.size /\ Found(x.mem, a, n)
    <3>1. At("V", m.size, p) \in x.mem /\ m.size \in Nat
      BY <1>1, <1>4, <2>1, <2>3, <2>6
    <3>2. Intact(x, n)
      BY <2>1, <3>1, FoundVal
    <3>3. ASSUME NEW r \in Cursors, r.i = m.i /\ r.sp = m.size
          PROVE  LET a == dcbArg_mips64(r, t)
                 IN  Kept(r, a) /\ a.rd.i = x.i /\ a.rd.sp = x.size /\ Found(x.mem, a, n)
      <4>0. PICK k \in Nat : k = m.size + 8
        BY <3>1
      <4> DEFINE a == dcbArg_mips64(r, t)
                 s == [r EXCEPT !.sp = @ + 8]
      <4>1. a = Access(s, <<Loc("V", m.size, Bytes["f8"])>>, "f8")
        BY <1>4, <2>1, <2>6, <3>3, <4>0 DEF dcbArg_mips64, FormOf
      <4>2. Found(x.mem, a, n)
        BY <2>1, <3>1, <4>1, FoundVal
      <4>3. s \in Cursors /\ s.vt = r.vt /\ s.hid = r.hid
        BY <1>1, <3>3, <4>0 DEF Cursors
      <4>3a. a.rd = s
        BY <4>1 DEF Access
      <4>4. s.i = x.i /\ s.sp = x.size
        BY <1>1, <1>4, <2>1, <2>3, <2>6, <3>3, <4>0 DEF Cursors
      <4> HIDE DEF a, s
      <4>5. Kept(r, a) /\ a.rd.i = x.i /\ a.rd.sp = x.size /\ Found(x.mem, a, n)
        BY <4>2, <4>3, <4>3a, <4>4 DEF Kept
      <4> QED
        BY <4>5 DEF a
    <3> QED
      BY <3>2, <3>3
  <2> QED
    BY <1>1, <2>4, <2>5, <2>6 DEF x
<1> QED
  BY <1>2, <1>3, <1>4 DEF Scalar

\* Their variadic arguments, for which there are no callbacks.
LEMMA N64EllipsisBinds ==
    ASSUME NEW m, Laid(m, 0, 0, 8 * m.i, 8 * m.i), m.copies = VecTotal,
           NEW t \in Scalar, NEW n \in Nat
    PROVE  LET x == gVT_mips_n64_ellipsis_arg(m, t, n)
           IN  /\ Laid(x, 0, 0, 8 * x.i, 8 * x.i) /\ More(m, x)
               /\ Room(m) => Intact(x, n)
<1> DEFINE x == gVT_mips_n64_ellipsis_arg(m, t, n)
<1>1. /\ m \in VM /\ m.i \in Nat /\ m.f \in Nat /\ m.size \in Nat /\ VecTotal \in Nat
  BY VecAssumption DEF Laid, VM
<1>2. CASE t \in {"int", "longlong"}
  <2> DEFINE p == Val(n, "i8")
  <2>1. /\ p \in PartOf /\ "i8" \in Forms /\ Bytes["i8"] = 8 /\ p.len = Bytes["i8"]
    BY <1>2, ValPart, FormBytes DEF Forms
  <2>2. x = dc_callvm_argLongLong_mips_n64(m, p)
    BY <1>2 DEF gVT_mips_n64_ellipsis_arg, gVT_mips_n64_arg, dc_callvm_argFloat_mips_n64_ellipsis
  <2>3. /\ Laid(x, 0, 0, 8 * x.i, 8 * x.i) /\ More(m, x) /\ x.f = m.f
        /\ m.i < 8 => x.i = m.i + 1 /\ x.size = m.size /\ At("I", 8 * m.i, p) \in x.mem
        /\ ~(m.i < 8) => x.i = m.i
        /\ ~(m.i < 8) /\ Room(m) => x.size = m.size + 8 /\ At("V", m.size, p) \in x.mem
    BY <1>1, <1>2, <2>1, <2>2, N64LongLong
  <2> HIDE DEF x
  <2>4. Laid(x, 0, 0, 8 * x.i, 8 * x.i) /\ More(m, x)
    BY <1>1, <2>3
  <2>5. ASSUME m.i < 8, Room(m) PROVE Intact(x, n)
    <3>1. At("I", 8 * m.i, p) \in x.mem /\ 8 * m.i \in Nat
      BY <1>1, <1>2, <2>1, <2>3, <2>5
    <3> QED
      BY <2>1, <3>1, FoundVal
  <2>6. ASSUME ~(m.i < 8), Room(m) PROVE Intact(x, n)
    <3>1. At("V", m.size, p) \in x.mem /\ m.size \in Nat
      BY <1>1, <1>2, <2>1, <2>3, <2>6
    <3> QED
      BY <2>1, <3>1, FoundVal
  <2> QED
    BY <1>1, <2>4, <2>5, <2>6 DEF x
<1>3. CASE t = "float"
  <2> DEFINE p == Val(n, "w8")
  <2>1. /\ p \in PartOf /\ "w8" \in Forms /\ Bytes["w8"] = 8 /\ p.len = Bytes["w8"]
    BY <1>3, ValPart, FormBytes DEF Forms
  <2>2. x = dc_callvm_argLongLong_mips_n64(m, p)
    BY <1>3 DEF gVT_mips_n64_ellipsis_arg, gVT_mips_n64_arg, dc_callvm_argFloat_mips_n64_ellipsis
  <2>3. /\ Laid(x, 0, 0, 8 * x.i, 8 * x.i) /\ More(m, x) /\ x.f = m.f
        /\ m.i < 8 => x.i = m.i + 1 /\ x.size = m.size /\ At("I", 8 * m.i, p) \in x.mem
        /\ ~(m.i < 8) => x.i = m.i
        /\ ~(m.i < 8) /\ Room(m) => x.size = m.size + 8 /\ At("V", m.size, p) \in x.mem
    BY <1>1, <1>3, <2>1, <2>2, N64LongLong
  <2> HIDE DEF x
  <2>4. Laid(x, 0, 0, 8 * x.i, 8 * x.i) /\ More(m, x)
    BY <1>1, <2>3
  <2>5. ASSUME m.i < 8, Room(m) PROVE Intact(x, n)
    <3>1. At("I", 8 * m.i, p) \in x.mem /\ 8 * m.i \in Nat
      BY <1>1, <1>3, <2>1, <2>3, <2>5
    <3> QED
      BY <2>1, <3>1, FoundVal
  <2>6. ASSUME ~(m.i < 8), Room(m) PROVE Intact(x, n)
    <3>1. At("V", m.size, p) \in x.mem /\ m.size \in Nat
      BY <1>1, <1>3, <2>1, <2>3, <2>6
    <3> QED
      BY <2>1, <3>1, FoundVal
  <2> QED
    BY <1>1, <2>4, <2>5, <2>6 DEF x
<1>4. CASE t = "double"
  <2> DEFINE p == Val(n, "f8")
  <2>1. /\ p \in PartOf /\ "f8" \in Forms /\ Bytes["f8"] = 8 /\ p.len = Bytes["f8"]
    BY <1>4, ValPart, FormBytes DEF Forms
  <2>2. x = dc_callvm_argLongLong_mips_n64(m, p)
    BY <1>4 DEF gVT_mips_n64_ellipsis_arg, gVT_mips_n64_arg, dc_callvm_argFloat_mips_n64_ellipsis
  <2>3. /\ Laid(x, 0, 0, 8 * x.i, 8 * x.i) /\ More(m, x) /\ x.f = m.f
        /\ m.i < 8 => x.i = m.i + 1 /\ x.size = m.size /\ At("I", 8 * m.i, p) \in x.mem
        /\ ~(m.i < 8) => x.i = m.i
        /\ ~(m.i < 8) /\ Room(m) => x.size = m.size + 8 /\ At("V", m.size, p) \in x.mem
    BY <1>1, <1>4, <2>1, <2>2, N64LongLong
  <2> HIDE DEF x
  <2>4. Laid(x, 0, 0, 8 * x.i, 8 * x.i) /\ More(m, x)
    BY <1>1, <2>3
  <2>5. ASSUME m.i < 8, Room(m) PROVE Intact(x, n)
    <3>1. At("I", 8 * m.i, p) \in x.mem /\ 8 * m.i \in Nat
      BY <1>1, <1>4, <2>1, <2>3, <2>5
    <3> QED
      BY <2>1, <3>1, FoundVal
  <2>6. ASSUME ~(m.i < 8), Room(m) PROVE Intact(x, n)
    <3>1. At("V", m.size, p) \in x.mem /\ m.size \in Nat
      BY <1>1, <1>4, <2>1, <2>3, <2>6
    <3> QED
      BY <2>1, <3>1, FoundVal
  <2> QED
    BY <1>1, <2>4, <2>5, <2>6 DEF x
<1> QED
  BY <1>2, <1>3, <1>4 DEF Scalar

---------------------------------------------------------------------------
\* The conventions that append: x86, SPARC, ARM without hard float, MIPS o32.

\* The forms of the types.
LEMMA TypeForms ==
    /\ \A t \in Scalar : FormOf[t] \in Forms /\ Bytes[FormOf[t]] \in {4, 8}
    /\ FormOf["int"] = "i4" /\ FormOf["longlong"] = "i8" /\ FormOf["float"] = "f4"
    /\ FormOf["double"] = "f8"
<1>1. /\ FormOf["int"] = "i4" /\ FormOf["longlong"] = "i8" /\ FormOf["float"] = "f4"
      /\ FormOf["double"] = "f8"
  BY DEF FormOf
<1>2. ASSUME NEW t \in Scalar PROVE FormOf[t] \in Forms /\ Bytes[FormOf[t]] \in {4, 8}
  <2>1. FormOf[t] \in {"i4", "i8", "f4", "f8"}
    BY <1>1 DEF Scalar
  <2> QED
    BY <2>1, FormBytes DEF Forms
<1> QED
  BY <1>1, <1>2

\* A value at the end of the vector.
LEMMA ValAppended ==
    ASSUME NEW lo, NEW base, NEW ni, NEW nf, NEW m, NEW y, Laid(m, lo, base, ni, nf), Shifted(m, y),
           m.copies = VecTotal, NEW n \in Nat, NEW form \in Forms, NEW size \in Nat,
           Bytes[form] <= size, size <= 24, y.size <= m.size + 8
    PROVE  LET x == dcVecAppend(y, Val(n, form), size)
           IN  /\ Laid(x, lo, base, ni, nf) /\ More(m, x) /\ SameCounts(y, x)
               /\ Gains(m, x, At("V", y.size, Val(n, form)))
               /\ Room(m) => /\ x.size = y.size + size /\ At("V", y.size, Val(n, form)) \in x.mem
                             /\ Intact(x, n)
<1> DEFINE p == Val(n, form)
           x == dcVecAppend(y, p, size)
<1>1. p \in PartOf /\ p.len = Bytes[form] /\ Bytes[form] \in Nat
  BY ValPart, FormBytes
<1>2. /\ y \in VM /\ y.size \in Nat /\ m.size \in Nat /\ y.copies = VecTotal /\ VecTotal \in Nat
  BY VecAssumption DEF Laid, Shifted, SameStore, VM
<1>3. Appends(y, p, size)
  BY <1>1, <1>2 DEF Appends
<1> HIDE DEF p
<1>4. /\ Laid(x, lo, base, ni, nf) /\ More(m, x) /\ SameCounts(y, x)
      /\ Gains(m, x, At("V", y.size, p))
      /\ y.size + size <= VecTotal => x.size = y.size + size /\ At("V", y.size, p) \in x.mem
  BY <1>3, StackMore
<1> HIDE DEF x
<1>5. ASSUME Room(m)
      PROVE  x.size = y.size + size /\ At("V", y.size, p) \in x.mem /\ Intact(x, n)
  <2>1. y.size + size <= VecTotal
    BY <1>2, <1>5 DEF Room
  <2>2. x.size = y.size + size /\ At("V", y.size, p) \in x.mem
    BY <1>4, <2>1
  <2>3. Intact(x, n)
    BY <1>2, <2>2, FoundVal DEF p
  <2> QED
    BY <2>2, <2>3
<1> QED
  BY <1>4, <1>5 DEF x, p

\* The conventions that append everything: x86 without registers, and sparc.
LEMMA PlainBinds ==
    ASSUME NEW m, Laid(m, 0, 0, 0, 0), m.copies = VecTotal, NEW t \in Scalar, NEW n \in Nat
    PROVE  LET x == dcVecAppend(m, Val(n, FormOf[t]), Val(n, FormOf[t]).len)
           IN  /\ Laid(x, 0, 0, 0, 0) /\ More(m, x) /\ SameCounts(m, x)
               /\ Room(m) => /\ Intact(x, n) /\ x.size = m.size + Bytes[FormOf[t]]
                             /\ At("V", m.size, Val(n, FormOf[t])) \in x.mem
<1> DEFINE form == FormOf[t]
           size == Val(n, form).len
<1>1. form \in Forms /\ Bytes[form] \in Nat /\ size = Bytes[form] /\ Bytes[form] <= 24
  BY TypeForms, FormBytes, ValPart
<1>2. Shifted(m, m) /\ m.size \in Nat /\ m.size <= m.size + 8 /\ size \in Nat /\ Bytes[form] <= size
  BY <1>1 DEF Laid, VM, Shifted, SameStore
<1> HIDE DEF form, size
<1>3. LET x == dcVecAppend(m, Val(n, form), size)
      IN  /\ Laid(x, 0, 0, 0, 0) /\ More(m, x) /\ SameCounts(m, x)
          /\ Room(m) => /\ x.size = m.size + size /\ At("V", m.size, Val(n, form)) \in x.mem
                        /\ Intact(x, n)
  BY <1>1, <1>2, ValAppended
<1> QED
  BY <1>1, <1>3 DEF form, size

\* What a callback's access at the end of the vector finds.
LEMMA StackTaken ==
    ASSUME NEW x, NEW r \in Cursors, NEW s \in Nat, r.sp = s, NEW n \in Nat, NEW form \in Forms,
           At("V", s, Val(n, form)) \in x.mem, NEW k \in Nat
    PROVE  LET a == Access([r EXCEPT !.sp = @ + k], <<Loc("V", r.sp, Bytes[form])>>, form)
           IN  /\ Kept(r, a) /\ Found(x.mem, a, n)
               /\ a.rd.sp = s + k /\ a.rd.i = r.i /\ a.rd.f = r.f /\ a.rd.d = r.d
<1> DEFINE rr == [r EXCEPT !.sp = @ + k]
           a == Access(rr, <<Loc("V", r.sp, Bytes[form])>>, form)
<1>1. rr \in Cursors /\ rr.vt = r.vt /\ rr.hid = r.hid
      /\ rr.sp = s + k /\ rr.i = r.i /\ rr.f = r.f /\ rr.d = r.d
  BY DEF Cursors
<1>2. a.rd = rr
  BY DEF Access
<1>3. Found(x.mem, a, n)
  BY FoundVal
<1> HIDE DEF a, rr
<1>4. Kept(r, a)
  BY <1>1, <1>2 DEF Kept
<1> QED
  BY <1>1, <1>2, <1>3, <1>4 DEF a, rr

\* What the vtables of x86 are.
LEMMA X86Vtables ==
    ASSUME NEW v \in Vtables("x86")
    PROVE  /\ gVT_x86[v].fast <=> v \in {"fast_ms", "fast_gnu"}
           /\ gVT_x86[v].gnu <=> v = "fast_gnu"
           /\ gVT_x86[v].registers = IF v \in {"fast_ms", "fast_gnu"} THEN 8
                                     ELSE IF v = "this_ms" THEN 4 ELSE 0
<1>1. v \in {"cdecl", "std", "fast_ms", "fast_gnu", "this_ms", "int80h_linux", "int80h_bsd"}
  BY DEF Vtables
<1> QED
  BY <1>1 DEF gVT_x86, gVT_x86_cdecl, gVT_x86_win32_std, gVT_x86_win32_fast_ms, gVT_x86_win32_fast_gnu,
     gVT_x86_win32_this_ms, gVT_x86_syscall_int80h_linux, gVT_x86_syscall_int80h_bsd

\* fastcall, whose first two words are registers.
Fast(m) == m.vt \in {"fast_ms", "fast_gnu"}

\* Under fastcall the first two words are registers.
X86Laid(m) == IF Fast(m) THEN Laid(m, 4 * m.i, 8, 0, 0) ELSE Laid(m, 0, 0, 0, 0)

\* The callback's cursor points to where the next argument of the VM goes.
X86Sync(r, m) ==
    /\ Fast(m) => r.sp = m.size /\ (r.i = m.i \/ (m.i = 2 /\ r.i >= 2))
    /\ m.vt = "this_ms" => (r.i = 0 /\ r.sp = 4 /\ m.size = 0) \/ (r.i = 1 /\ r.sp = m.size /\ m.size > 0)
    /\ ~Fast(m) /\ m.vt # "this_ms" => r.sp = m.size

\* A value of n in that form can be appended, in size bytes.
Appendable(m, y, n, form, size) ==
    /\ Shifted(m, y) /\ m.copies = VecTotal /\ n \in Nat /\ form \in Forms /\ size \in Nat
    /\ Bytes[form] <= size /\ size <= 24 /\ y.size <= m.size + 8

\* It is then at the end of the vector.
LEMMA FormAppended ==
    ASSUME NEW lo, NEW base, NEW ni, NEW nf, NEW m, NEW y, NEW n, NEW form, NEW size,
           Laid(m, lo, base, ni, nf), Appendable(m, y, n, form, size)
    PROVE  LET x == dcVecAppend(y, Val(n, form), size)
           IN  /\ Laid(x, lo, base, ni, nf) /\ More(m, x) /\ SameCounts(y, x)
               /\ Room(m) => /\ x.size = y.size + size /\ At("V", y.size, Val(n, form)) \in x.mem
                             /\ Intact(x, n)
  BY ValAppended DEF Appendable

\* An argument that is appended.
LEMMA X86Append ==
    ASSUME NEW m, m.vt \in Vtables("x86"), NEW y, Shifted(m, y), y.size = m.size,
           NEW lo, NEW base, Laid(m, lo, base, 0, 0), m.copies = VecTotal,
           NEW t \in Scalar, NEW n \in Nat
    PROVE  LET x == dc_callvm_arg_x86(y, t, n)
           IN  /\ Laid(x, lo, base, 0, 0) /\ More(m, x) /\ SameCounts(y, x)
               /\ Room(m) => /\ x.size = m.size + Bytes[FormOf[t]]
                             /\ At("V", m.size, Val(n, FormOf[t])) \in x.mem /\ Intact(x, n)
<1> DEFINE form == FormOf[t]
           size == Val(n, form).len
           none == 0
<1>1. form \in Forms /\ Bytes[form] \in Nat /\ size = Bytes[form] /\ Bytes[form] <= 24
  BY TypeForms, FormBytes, ValPart
<1>2. m.size \in Nat /\ y.size <= m.size + 8 /\ size \in Nat /\ Bytes[form] <= size /\ size <= 24
  BY <1>1 DEF Laid, VM
<1>3. dc_callvm_arg_x86(y, t, n) = dcVecAppend(y, Val(n, form), size)
  BY DEF dc_callvm_arg_x86
<1>a. Laid(m, lo, base, none, none)
  OBVIOUS
<1>b. Appendable(m, y, n, form, size)
  BY <1>1, <1>2 DEF Appendable
<1> HIDE DEF form, size, none
<1>4. LET x == dcVecAppend(y, Val(n, form), size)
      IN  /\ Laid(x, lo, base, none, none) /\ More(m, x) /\ SameCounts(y, x)
          /\ Room(m) => /\ x.size = y.size + size /\ At("V", y.size, Val(n, form)) \in x.mem
                        /\ Intact(x, n)
  BY <1>a, <1>b, FormAppended
<1> QED
  BY <1>1, <1>3, <1>4 DEF form, size, none

\* A register word.
RegWord(m, n) == [Put(m, "V", 4 * m.i, Val(n, "i4")) EXCEPT !.i = @ + 1]

\* A word that goes into a register.
LEMMA X86Register ==
    ASSUME NEW m, Laid(m, 4 * m.i, 8, 0, 0), m.i < 2, NEW n \in Nat
    PROVE  LET x == RegWord(m, n)
           IN  /\ Laid(x, 4 * x.i, 8, 0, 0) /\ More(m, x)
               /\ x.i = m.i + 1 /\ x.size = m.size
               /\ At("V", 4 * m.i, Val(n, "i4")) \in x.mem /\ Intact(x, n)
<1> DEFINE p == Val(n, "i4")
           off == 4 * m.i
           top == 4 * m.i + 4
           y == PutVec(m, off, p, m.size)
           z == Put(m, "V", off, p)
           x == [z EXCEPT !.i = @ + 1]
<1>1. m \in VM /\ m.i \in Nat /\ m.size \in Nat
  BY DEF Laid, VM
<1>2. p \in PartOf /\ p.len = 4 /\ "i4" \in Forms
  BY ValPart, FormBytes DEF Forms
<1>3. VecFree(m, 4 * m.i, 8, off, p, top, m.size) /\ off \in Nat /\ top \in Nat
  BY <1>1, <1>2 DEF VecFree
<1> HIDE DEF p, off, top
<1>4. /\ Laid(y, top, 8, 0, 0) /\ More(m, y) /\ SameCounts(m, y) /\ y.size = m.size
      /\ At("V", off, p) \in y.mem /\ z \in VM /\ z.size = m.size
  BY <1>3, StoreVec
<1>5. y = z
  <2>1. y = [z EXCEPT !.size = m.size]
    BY DEF PutVec
  <2> HIDE DEF y, z
  <2> QED
    BY <1>4, <2>1 DEF VM
<1>6. x = [y EXCEPT !.i = m.i + 1] /\ y \in VM
  BY <1>4, <1>5 DEF SameCounts, Laid
<1> HIDE DEF x, y, z
<1>7. Shifted(y, x) /\ x.i = m.i + 1 /\ x.size = y.size
  BY <1>1, <1>6 DEF Shifted, SameStore, VM
<1>8. Laid(x, top, 8, 0, 0) /\ More(m, x)
  BY <1>1, <1>4, <1>7, MoreShifted
<1>9. At("V", off, p) \in x.mem
  BY <1>4, <1>7 DEF Shifted, SameStore
<1>10. Intact(x, n)
  BY <1>2, <1>3, <1>9, FoundVal DEF p
<1>11. 4 * x.i = top
  BY <1>1, <1>7 DEF top
<1> QED
  BY <1>4, <1>7, <1>8, <1>9, <1>10, <1>11 DEF x, y, z, p, off, RegWord
\* More of the register words may count as used.
LEMMA LaidTop ==
    ASSUME NEW m, NEW lo, NEW base, NEW ni, NEW nf, Laid(m, lo, base, ni, nf),
           NEW top \in Nat, lo <= top, top <= base
    PROVE  Laid(m, top, base, ni, nf)
<1>1. lo \in Nat /\ m \in VM /\ \A e \in m.mem : e \in Entry
  BY DEF Laid, VM
<1>2. ASSUME NEW e \in m.mem, e.file = "V"
      PROVE  \/ e.off + e.len <= top
             \/ base <= e.off /\ (e.off + e.len <= m.size \/ m.copies <= e.off)
  <2>1. e.off \in Nat /\ e.len \in Nat
    BY <1>1 DEF Entry
  <2> QED
    BY <1>1, <1>2, <2>1 DEF Laid
<1> QED
  BY <1>2 DEF Laid

\* x86, under every convention.
LEMMA X86Binds ==
    ASSUME NEW m, m.vt \in Vtables("x86"), X86Laid(m), m.copies = VecTotal,
           NEW t \in Scalar, NEW n \in Nat
    PROVE  LET x == dcArg_x86(m, t, n)
           IN  /\ X86Laid(x) /\ More(m, x)
               /\ Room(m) => Intact(x, n) /\ (m.vt = "this_ms" => x.size > 0)
               /\ \A r \in Cursors :
                    Room(m) /\ r.vt = m.vt /\ X86Sync(r, m) /\ (m.vt = "this_ms" /\ m.size = 0 => t = "int") =>
                    LET a == dcbArg_x86(r, t)
                    IN  Kept(r, a) /\ X86Sync(a.rd, x) /\ Found(x.mem, a, n)
<1> DEFINE x == dcArg_x86(m, t, n)
           v == m.vt
           form == FormOf[t]
<1>0. /\ m \in VM /\ m.i \in Nat /\ m.f \in Nat /\ m.size \in Nat /\ VecTotal \in Nat
      /\ Fast(m) => Laid(m, 4 * m.i, 8, 0, 0) /\ m.i <= 2 /\ m.size >= 8
      /\ ~Fast(m) => Laid(m, 0, 0, 0, 0)
  BY VecAssumption DEF X86Laid, Laid, VM
<1>1. /\ gVT_x86[v].fast <=> Fast(m)
      /\ gVT_x86[v].gnu <=> v = "fast_gnu"
  BY X86Vtables DEF Fast
<1>2. /\ FormOf["int"] = "i4" /\ FormOf["longlong"] = "i8" /\ Bytes["i4"] = 4 /\ Bytes["i8"] = 8
      /\ form \in Forms /\ Bytes[form] \in {4, 8}
  BY TypeForms, FormBytes
<1>s. Shifted(m, m)
  BY <1>0 DEF Shifted, SameStore
<1>3. CASE Fast(m) /\ t = "int" /\ m.i < 2
  <2>1. x = RegWord(m, n)
    BY <1>1, <1>3 DEF RegWord, dcArg_x86, dc_callvm_argInt_x86_win32_fast_ms
  <2>2. /\ Laid(x, 4 * x.i, 8, 0, 0) /\ More(m, x) /\ x.i = m.i + 1 /\ x.size = m.size
        /\ At("V", 4 * m.i, Val(n, "i4")) \in x.mem /\ Intact(x, n)
    BY <1>0, <1>3, <2>1, X86Register
  <2> HIDE DEF x
  <2>3. Fast(x) /\ X86Laid(x) /\ x.vt = m.vt
    BY <1>3, <2>2 DEF Fast, X86Laid, More
  <2>4. m.vt # "this_ms"
    BY <1>3 DEF Fast
  <2>5. ASSUME NEW r \in Cursors, r.vt = m.vt, X86Sync(r, m)
        PROVE  LET a == dcbArg_x86(r, t)
               IN  Kept(r, a) /\ X86Sync(a.rd, x) /\ Found(x.mem, a, n)
    <3>1. r.i = m.i /\ r.sp = m.size /\ r.i \in Nat
      BY <1>0, <1>3, <2>5 DEF X86Sync, Cursors
    <3> DEFINE rr == [r EXCEPT !.i = @ + 1]
               a == Access(rr, <<Loc("V", 4 * r.i, 4)>>, "i4")
    <3>2. dcbArg_x86(r, t) = a
      BY <1>3, <2>5, <3>1 DEF dcbArg_x86, Fast, fast_i32
    <3>3. rr \in Cursors /\ rr.vt = r.vt /\ rr.hid = r.hid /\ rr.i = m.i + 1 /\ rr.sp = m.size
      BY <3>1 DEF Cursors
    <3>4. "i4" \in Forms /\ 4 * r.i \in Nat /\ 4 * r.i = 4 * m.i
      BY <3>1 DEF Forms
    <3>5. Found(x.mem, a, n)
      BY <1>2, <2>2, <3>4, FoundVal
    <3>6. a.rd = rr
      BY DEF Access
    <3> HIDE DEF a, rr
    <3> QED
      BY <1>0, <2>2, <2>3, <3>2, <3>3, <3>5, <3>6 DEF Kept, X86Sync, Fast
  <2> QED
    BY <2>2, <2>3, <2>4, <2>5 DEF x
<1>4. CASE v = "fast_gnu" /\ t = "longlong"
  <2> DEFINE y == [m EXCEPT !.i = 2]
  <2>1. x = dc_callvm_arg_x86(y, "longlong", n)
    BY <1>1, <1>4 DEF dcArg_x86, dc_callvm_argLongLong_x86_win32_fast_gnu
  <2>2. Shifted(m, y) /\ y.size = m.size /\ y.i = 2
    BY <1>0 DEF Shifted, SameStore, VM
  <2> HIDE DEF y
  <2>f. Fast(m)
    BY <1>4 DEF Fast
  <2>3. /\ Laid(x, 4 * m.i, 8, 0, 0) /\ More(m, x) /\ SameCounts(y, x)
        /\ Room(m) => /\ x.size = m.size + 8
                      /\ At("V", m.size, Val(n, "i8")) \in x.mem /\ Intact(x, n)
    <3>1. Laid(m, 4 * m.i, 8, 0, 0) /\ "longlong" \in Scalar
      BY <1>0, <2>f DEF Scalar
    <3> HIDE DEF x
    <3> QED
      BY <1>2, <2>1, <2>2, <3>1, X86Append
  <2> HIDE DEF x
  <2>4. x.i = 2 /\ x.vt = m.vt
    BY <2>2, <2>3 DEF SameCounts, More
  <2>5. Laid(x, 4 * x.i, 8, 0, 0)
    <3>1. 4 * m.i <= 8 /\ 4 * x.i = 8
      BY <1>0, <2>4, <2>f
    <3> QED
      BY <2>3, <3>1, LaidTop
  <2>6. Fast(x) /\ X86Laid(x)
    BY <2>4, <2>5, <2>f DEF Fast, X86Laid
  <2>7. m.vt # "this_ms"
    BY <1>4
  <2>8. ASSUME NEW r \in Cursors, Room(m), r.vt = m.vt, X86Sync(r, m)
        PROVE  LET a == dcbArg_x86(r, t)
               IN  Kept(r, a) /\ X86Sync(a.rd, x) /\ Found(x.mem, a, n)
    <3> DEFINE rr == [r EXCEPT !.i = @ + 2]
               k == 8
               a == Access([rr EXCEPT !.sp = @ + k], <<Loc("V", rr.sp, Bytes["i8"])>>, "i8")
    <3>1. dcbArg_x86(r, t) = a
      BY <1>2, <1>4, <2>8 DEF dcbArg_x86, fast_gnu_i64, default_arg
    <3>2. rr \in Cursors /\ rr.vt = r.vt /\ rr.hid = r.hid /\ rr.i >= 2 /\ rr.sp = m.size
      BY <2>8, <2>f DEF Cursors, X86Sync
    <3>3. "i8" \in Forms
      BY DEF Forms
    <3> HIDE DEF rr, k
    <3>4. Kept(rr, a) /\ Found(x.mem, a, n) /\ a.rd.sp = m.size + k /\ a.rd.i = rr.i
      <4>1. k \in Nat /\ m.size \in Nat /\ At("V", m.size, Val(n, "i8")) \in x.mem
        BY <1>0, <2>3, <2>8 DEF k
      <4> QED
        BY <3>2, <3>3, <4>1, StackTaken
    <3> HIDE DEF a
    <3> QED
      BY <2>3, <2>4, <2>6, <2>8, <3>1, <3>2, <3>4 DEF Kept, X86Sync, Fast, k
  <2> QED
    BY <2>3, <2>6, <2>7, <2>8 DEF x
<1>5. CASE ~(Fast(m) /\ t = "int" /\ m.i < 2) /\ ~(v = "fast_gnu" /\ t = "longlong")
  <2>1. x = dc_callvm_arg_x86(m, t, n)
    BY <1>1, <1>5 DEF dcArg_x86, dc_callvm_argInt_x86_win32_fast_ms
  <2> HIDE DEF form
  <2>2. PICK lo, base : Laid(m, lo, base, 0, 0) /\ (Fast(m) => lo = 4 * m.i /\ base = 8)
                        /\ (~Fast(m) => lo = 0 /\ base = 0)
    BY <1>0
  <2>3. /\ Laid(x, lo, base, 0, 0) /\ More(m, x) /\ SameCounts(m, x)
        /\ Room(m) => /\ x.size = m.size + Bytes[form]
                      /\ At("V", m.size, Val(n, form)) \in x.mem /\ Intact(x, n)
    BY <1>s, <2>1, <2>2, X86Append DEF form
  <2> HIDE DEF x
  <2>4. x.i = m.i /\ x.vt = m.vt
    BY <2>3 DEF SameCounts, More
  <2>5. (Fast(x) <=> Fast(m)) /\ X86Laid(x)
    BY <2>2, <2>3, <2>4 DEF Fast, X86Laid
  <2>6. Room(m) => x.size > 0 /\ x.size = m.size + Bytes[form]
    BY <1>0, <1>2, <2>3
  <2>8. ASSUME NEW r \in Cursors, Room(m), r.vt = m.vt, X86Sync(r, m),
               m.vt = "this_ms" /\ m.size = 0 => t = "int"
        PROVE  LET a == dcbArg_x86(r, t)
               IN  Kept(r, a) /\ X86Sync(a.rd, x) /\ Found(x.mem, a, n)
    <3>1. CASE m.vt = "this_ms" /\ r.i = 0
      <4>1. ~Fast(m) /\ ~Fast(x) /\ m.size = 0 /\ r.sp = 4 /\ t = "int" /\ form = "i4"
        BY <1>2, <2>5, <2>8, <3>1 DEF Fast, X86Sync, form
      <4> DEFINE rr == [r EXCEPT !.i = 1]
                 a == Access(rr, <<Loc("V", 0, 4)>>, "i4")
      <4>2. dcbArg_x86(r, t) = a
        BY <2>8, <3>1, <4>1 DEF dcbArg_x86, this_i32
      <4>3. rr \in Cursors /\ rr.vt = r.vt /\ rr.hid = r.hid /\ rr.i = 1 /\ rr.sp = 4 /\ a.rd = rr
        BY <4>1 DEF Cursors, Access
      <4>4. x.size = 4
        BY <1>0, <1>2, <2>6, <2>8, <4>1
      <4>5. Found(x.mem, a, n)
        <5>1. At("V", 0, Val(n, "i4")) \in x.mem /\ "i4" \in Forms
          BY <2>3, <2>8, <4>1 DEF Forms
        <5> QED
          BY <1>2, <5>1, FoundVal
      <4> HIDE DEF rr, a
      <4> QED
        BY <2>4, <3>1, <4>1, <4>2, <4>3, <4>4, <4>5 DEF Kept, X86Sync
    <3>2. CASE ~(m.vt = "this_ms" /\ r.i = 0)
      <4> DEFINE len == Bytes[form]
                 a == Access([r EXCEPT !.sp = @ + len], <<Loc("V", r.sp, Bytes[form])>>, form)
      <4>1. r.sp = m.size /\ r.i \in Nat /\ len \in Nat
        BY <1>2, <2>8, <3>2 DEF X86Sync, Fast, Cursors
      <4>2. ~(r.vt \in {"fast_ms", "fast_gnu"} /\ t = "int" /\ r.i < 2)
        BY <1>0, <1>5, <2>8, <4>1 DEF X86Sync, Fast
      <4>3. dcbArg_x86(r, t) = default_arg(r, t)
        BY <1>5, <2>8, <3>2, <4>2 DEF dcbArg_x86, this_i32, fast_i32
      <4>4. default_arg(r, t) = a
        BY DEF default_arg, form
      <4>5. form \in Forms /\ At("V", m.size, Val(n, form)) \in x.mem
        BY <1>2, <2>3, <2>8 DEF form
      <4> HIDE DEF len
      <4>6. Kept(r, a) /\ Found(x.mem, a, n) /\ a.rd.sp = m.size + len /\ a.rd.i = r.i
        BY <1>0, <4>1, <4>5, StackTaken
      <4> HIDE DEF a
      <4>7. a.rd.sp = x.size
        BY <2>6, <2>8, <4>6 DEF len
      <4>8. X86Sync(a.rd, x)
        BY <2>4, <2>5, <2>6, <2>8, <3>2, <4>6, <4>7 DEF X86Sync
      <4> QED
        BY <4>3, <4>4, <4>6, <4>8
    <3> QED
      BY <3>1, <3>2
  <2> QED
    BY <2>3, <2>5, <2>6, <2>8 DEF x
<1> QED
  BY <1>3, <1>4, <1>5

\* The cursor after an access is one of the same callback.
Advances(r, s) == r \in Cursors /\ s \in Cursors /\ s.vt = r.vt /\ s.hid = r.hid

\* A value that lies in one place is found there.
LEMMA TakenAt ==
    ASSUME NEW x, NEW r, NEW s, Advances(r, s), NEW file, NEW off \in Nat, NEW n \in Nat,
           NEW form \in Forms, At(file, off, Val(n, form)) \in x.mem
    PROVE  LET a == Access(s, <<Loc(file, off, Bytes[form])>>, form)
           IN  Kept(r, a) /\ a.rd = s /\ Found(x.mem, a, n)
<1>1. LET a == Access(s, <<Loc(file, off, Bytes[form])>>, form) IN Found(x.mem, a, n)
  BY FoundVal
<1>2. Access(s, <<Loc(file, off, Bytes[form])>>, form).rd = s
  BY DEF Access
<1> QED
  BY <1>1, <1>2 DEF Kept, Advances

\* SPARC v7/v8: everything is appended.
LEMMA SparcBinds ==
    ASSUME NEW m, Laid(m, 0, 0, 0, 0), m.copies = VecTotal, NEW t \in Scalar, NEW n \in Nat
    PROVE  LET x == gVT_sparc_arg(m, t, n)
           IN  /\ Laid(x, 0, 0, 0, 0) /\ More(m, x)
               /\ Room(m) => Intact(x, n) /\ x.size <= m.size + 8
               /\ \A r \in Cursors : Room(m) /\ r.sp = m.size =>
                    LET a == dcbArg_sparc32(r, t)
                    IN  Kept(r, a) /\ a.rd.sp = x.size /\ Found(x.mem, a, n)
<1> DEFINE x == gVT_sparc_arg(m, t, n)
           form == FormOf[t]
           len == Bytes[form]
<1>1. form \in Forms /\ len \in Nat /\ len <= 8 /\ m.size \in Nat
  BY TypeForms DEF Laid, VM
<1>2. x = dcVecAppend(m, Val(n, form), Val(n, form).len)
  BY DEF gVT_sparc_arg, dc_callvm_arg_sparc
<1>3. /\ Laid(x, 0, 0, 0, 0) /\ More(m, x)
      /\ Room(m) => /\ Intact(x, n) /\ x.size = m.size + len
                    /\ At("V", m.size, Val(n, form)) \in x.mem
  BY <1>2, PlainBinds
<1> HIDE DEF x, form
<1>4. ASSUME NEW r \in Cursors, Room(m), r.sp = m.size
      PROVE  LET a == dcbArg_sparc32(r, t)
             IN  Kept(r, a) /\ a.rd.sp = x.size /\ Found(x.mem, a, n)
  <2> DEFINE a == Access([r EXCEPT !.sp = @ + len], <<Loc("V", r.sp, Bytes[form])>>, form)
  <2>1. dcbArg_sparc32(r, t) = a
    BY DEF dcbArg_sparc32, form
  <2> HIDE DEF len
  <2>2. Kept(r, a) /\ Found(x.mem, a, n) /\ a.rd.sp = m.size + len
    BY <1>1, <1>3, <1>4, StackTaken
  <2> HIDE DEF a
  <2> QED
    BY <1>3, <1>4, <2>1, <2>2 DEF len
<1>5. Room(m) => x.size <= m.size + 8
  BY <1>1, <1>3
<1> QED
  BY <1>3, <1>4, <1>5 DEF x

\* Apple's variadic arguments.
LEMMA AppleVarBinds ==
    ASSUME NEW m, NEW ni, NEW nf, Laid(m, 0, 0, ni, nf), m.copies = VecTotal, NEW t, NEW n \in Nat
    PROVE  LET x == apple_var(m, t, n)
           IN  /\ Laid(x, 0, 0, ni, nf) /\ More(m, x) /\ SameCounts(m, x)
               /\ Room(m) => Intact(x, n) /\ x.size <= m.size + 16
<1> DEFINE form == CASE t = "float" -> "w8" [] t = "double" -> "f8" [] OTHER -> "i8"
           y == dcVecAlign(m, 8)
           x == apple_var(m, t, n)
<1>1. form \in {"w8", "f8", "i8"}
  OBVIOUS
<1>2. x = dcVecAppend(y, Val(n, form), 8)
  BY DEF apple_var
<1> HIDE DEF form, x
<1>3. form \in Forms /\ Bytes[form] <= 8 /\ 8 \in Nat /\ 8 <= 24
  BY <1>1, FormBytes DEF Forms
<1>4. m \in VM /\ m.size \in Nat /\ 8 \in {1, 2, 4, 8}
  BY DEF Laid, VM
<1>5. Shifted(m, y) /\ SameCounts(m, y) /\ y.size < m.size + 8
  BY <1>4, VecAligned
<1>6. y.size \in Nat
  BY <1>5 DEF Shifted, SameStore, VM
<1> HIDE DEF y
<1>7. y.size <= m.size + 8
  BY <1>4, <1>5, <1>6
<1>8. /\ Laid(x, 0, 0, ni, nf) /\ More(m, x) /\ SameCounts(y, x)
      /\ Room(m) => x.size = y.size + 8 /\ Intact(x, n)
  BY <1>2, <1>3, <1>5, <1>7, ValAppended
<1>9. SameCounts(m, x)
  BY <1>5, <1>8 DEF SameCounts
<1>10. Room(m) => x.size <= m.size + 16
  BY <1>4, <1>6, <1>7, <1>8
<1> QED
  BY <1>8, <1>9, <1>10 DEF x

\* SPARC v9: eight bytes, all at the end of the vector.
LEMMA V9Eight ==
    ASSUME NEW m, Laid(m, 0, 0, 0, 0), m.copies = VecTotal, NEW n \in Nat, NEW form \in Forms,
           Bytes[form] = 8
    PROVE  LET x == dc_callvm_argLongLong_v9(m, Val(n, form))
           IN  /\ Laid(x, 0, 0, 0, 0) /\ More(m, x)
               /\ Room(m) => /\ Intact(x, n) /\ x.size = m.size + 8
                             /\ At("V", m.size, Val(n, form)) \in x.mem
<1>1. m.size \in Nat /\ m.size <= m.size + 8 /\ Shifted(m, m) /\ 8 \in Nat /\ 8 <= 24
      /\ Bytes[form] <= 8
  BY DEF Laid, VM, Shifted, SameStore
<1> DEFINE k == 8
<1>2. dc_callvm_argLongLong_v9(m, Val(n, form)) = dcVecAppend(m, Val(n, form), k)
  BY DEF dc_callvm_argLongLong_v9
<1>3. k \in Nat /\ k <= 24 /\ Bytes[form] <= k
  BY <1>1
<1> HIDE DEF k
<1>4. LET x == dcVecAppend(m, Val(n, form), k)
      IN  /\ Laid(x, 0, 0, 0, 0) /\ More(m, x)
          /\ Room(m) => x.size = m.size + k /\ At("V", m.size, Val(n, form)) \in x.mem /\ Intact(x, n)
  BY <1>1, <1>3, ValAppended
<1> QED
  BY <1>2, <1>4 DEF k

\* SPARC v9: a float, in the second half of its eight bytes.
LEMMA V9Float ==
    ASSUME NEW m, Laid(m, 0, 0, 0, 0), m.copies = VecTotal, NEW n \in Nat
    PROVE  LET x == dc_callvm_argFloat_v9(m, n)
           IN  /\ Laid(x, 0, 0, 0, 0) /\ More(m, x)
               /\ Room(m) => /\ Intact(x, n) /\ x.size = m.size + 8
                             /\ At("V", m.size + 4, Val(n, "f4")) \in x.mem
<1> DEFINE x == dc_callvm_argFloat_v9(m, n)
           p == Val(n, "f4")
           off == m.size + 4
           top == m.size + 8
           y == PutVec(m, off, p, top)
<1>1. m \in VM /\ m.size \in Nat /\ VecTotal \in Nat /\ off \in Nat /\ top \in Nat
  BY VecAssumption DEF Laid, VM
<1>2. p \in PartOf /\ p.len = 4 /\ "f4" \in Forms
  BY ValPart, FormBytes DEF Forms
<1>3. CASE top <= VecTotal
  <2>1. VecFree(m, 0, 0, off, p, 0, top)
    BY <1>1, <1>2, <1>3 DEF VecFree
  <2>2. /\ Laid(y, 0, 0, 0, 0) /\ More(m, y) /\ y.size = top
        /\ At("V", off, p) \in y.mem /\ Put(m, "V", off, p).size = m.size
    <3> HIDE DEF off, p, top
    <3> QED
      BY <2>1, StoreVec
  <2>3. x = y
    BY <1>1, <1>3, <2>2 DEF dc_callvm_argFloat_v9, PutVec
  <2>4. Intact(y, n)
    <3> HIDE DEF y, off
    <3> QED
      BY <1>1, <1>2, <2>2, FoundVal
  <2> HIDE DEF x, y
  <2> QED
    BY <2>2, <2>3, <2>4 DEF x
<1>4. CASE ~(top <= VecTotal)
  <2>1. x = m /\ More(m, m)
    BY <1>1, <1>4 DEF dc_callvm_argFloat_v9, More
  <2>2. ~Room(m)
    BY <1>1, <1>4 DEF Room
  <2> HIDE DEF x
  <2> QED
    BY <2>1, <2>2 DEF x
<1> QED
  BY <1>3, <1>4

\* SPARC v9.
LEMMA V9Binds ==
    ASSUME NEW m, Laid(m, 0, 0, 0, 0), m.copies = VecTotal, NEW t \in Scalar, NEW n \in Nat
    PROVE  LET x == gVT_v9_arg(m, t, n)
           IN  /\ Laid(x, 0, 0, 0, 0) /\ More(m, x)
               /\ Room(m) => Intact(x, n) /\ x.size = m.size + 8
               /\ \A r \in Cursors : Room(m) /\ 8 * r.i = m.size =>
                    LET a == dcbArg_sparc64(r, t)
                    IN  Kept(r, a) /\ 8 * a.rd.i = x.size /\ Found(x.mem, a, n)
<1> DEFINE x == gVT_v9_arg(m, t, n)
           form == IF t = "int" THEN "i8" ELSE FormOf[t]
           gap == IF t = "float" THEN 4 ELSE 0
<1>1. /\ form \in Forms /\ (t # "float" => Bytes[form] = 8) /\ (t = "float" => form = "f4")
      /\ t \in {"int", "longlong"} => form = "i8"
      /\ t = "double" => form = "f8"
  BY TypeForms, FormBytes DEF Scalar, Forms
<1>2. m.size \in Nat /\ m.size + gap \in Nat
  BY DEF Laid, VM
<1>3. /\ t # "float" => x = dc_callvm_argLongLong_v9(m, Val(n, form))
      /\ t = "float" => x = dc_callvm_argFloat_v9(m, n)
  BY <1>1 DEF gVT_v9_arg, Scalar
<1> HIDE DEF form
<1>4. /\ Laid(x, 0, 0, 0, 0) /\ More(m, x)
      /\ Room(m) => /\ Intact(x, n) /\ x.size = m.size + 8
                    /\ At("V", m.size + gap, Val(n, form)) \in x.mem
  <2> HIDE DEF x
  <2>1. CASE t = "float"
    BY <1>1, <1>3, <2>1, V9Float
  <2>2. CASE t # "float"
    BY <1>1, <1>2, <1>3, <2>2, V9Eight
  <2> QED
    BY <2>1, <2>2
<1> HIDE DEF x
<1>5. ASSUME NEW r \in Cursors, Room(m), 8 * r.i = m.size
      PROVE  LET a == dcbArg_sparc64(r, t)
             IN  Kept(r, a) /\ 8 * a.rd.i = x.size /\ Found(x.mem, a, n)
  <2> DEFINE s == [r EXCEPT !.i = @ + 1]
             off == m.size + gap
             a == Access(s, <<Loc("V", off, Bytes[form])>>, form)
  <2>1. r.i \in Nat /\ off = (IF t = "float" THEN 8 * r.i + 4 ELSE 8 * r.i)
    BY <1>5 DEF Cursors
  <2>2. dcbArg_sparc64(r, t) = a
    BY <2>1 DEF dcbArg_sparc64, form
  <2>3. Advances(r, s) /\ s.i = r.i + 1
    BY DEF Advances, Cursors
  <2>4. off \in Nat /\ At("V", off, Val(n, form)) \in x.mem
    BY <1>2, <1>4, <1>5
  <2> HIDE DEF s, off
  <2>5. Kept(r, a) /\ a.rd = s /\ Found(x.mem, a, n)
    BY <1>1, <2>3, <2>4, TakenAt
  <2> HIDE DEF a
  <2> QED
    BY <1>2, <1>4, <1>5, <2>1, <2>2, <2>3, <2>5
<1> QED
  BY <1>4, <1>5 DEF x

\* Its variadic arguments, for which there are no callbacks.
LEMMA V9EllipsisBinds ==
    ASSUME NEW m, Laid(m, 0, 0, 0, 0), m.copies = VecTotal, NEW t \in Scalar, NEW n \in Nat
    PROVE  LET x == gVT_v9_ellipsis_arg(m, t, n)
           IN  /\ Laid(x, 0, 0, 0, 0) /\ More(m, x)
               /\ Room(m) => Intact(x, n) /\ x.size = m.size + 8
<1> DEFINE x == gVT_v9_ellipsis_arg(m, t, n)
           form == IF t = "float" THEN "w8" ELSE "f8"
<1>1. form \in Forms /\ Bytes[form] = 8
  BY FormBytes DEF Forms
<1>2. CASE t \in {"int", "longlong"}
  <2>1. x = gVT_v9_arg(m, t, n)
    BY <1>2 DEF gVT_v9_ellipsis_arg
  <2> QED
    BY <2>1, V9Binds
<1>3. CASE t \notin {"int", "longlong"}
  <2>1. x = dc_callvm_argLongLong_v9(m, Val(n, form))
    BY <1>3 DEF gVT_v9_ellipsis_arg, dc_callvm_argFloat_v9_ellipsis
  <2> HIDE DEF form
  <2> QED
    BY <1>1, <2>1, V9Eight
<1> QED
  BY <1>2, <1>3

\* The cursor of a callback points to byte s of the vector, whose first 16 bytes
\* are registers.
ArmAt(r, s) ==
    /\ r \in Cursors /\ s \in Nat /\ s % 4 = 0
    /\ s <= 16 => 4 * r.i = s /\ r.sp = 16
    /\ s > 16 => r.i = 4 /\ r.sp = s

\* The start of the next 64 bit argument.
ArmPair(vt, s) == IF vt # "arm" /\ (s \div 4) % 2 = 1 THEN s + 4 ELSE s

\* A callback on ARM takes a word.
LEMMA ArmWord ==
    ASSUME NEW r, NEW s, ArmAt(r, s), NEW form
    PROVE  \E q : arm_word(r, form) = Access(q, <<Loc("V", s, 4)>>, form)
                  /\ Advances(r, q) /\ ArmAt(q, s + 4)
<1>1. r \in Cursors /\ s \in Nat /\ s % 4 = 0 /\ r.i \in Nat /\ r.sp \in Nat
  BY DEF ArmAt, Cursors
<1>2. CASE r.i < 4
  <2> DEFINE q == [r EXCEPT !.i = @ + 1]
  <2>1. s <= 16 /\ 4 * r.i = s /\ r.sp = 16
    BY <1>1, <1>2 DEF ArmAt
  <2>2. arm_word(r, form) = Access(q, <<Loc("V", s, 4)>>, form)
    BY <1>2, <2>1 DEF arm_word
  <2>3. Advances(r, q) /\ q \in Cursors /\ q.i = r.i + 1 /\ q.sp = 16
    BY <1>1, <2>1 DEF Advances, Cursors
  <2> HIDE DEF q
  <2>4. ArmAt(q, s + 4)
    BY <1>1, <1>2, <2>1, <2>3 DEF ArmAt
  <2> QED
    BY <2>2, <2>3, <2>4
<1>3. CASE ~(r.i < 4)
  <2> DEFINE q == [r EXCEPT !.sp = @ + 4]
  <2>1. s >= 16 /\ r.i = 4 /\ r.sp = s
    BY <1>1, <1>3 DEF ArmAt
  <2>2. arm_word(r, form) = Access(q, <<Loc("V", s, 4)>>, form)
    BY <1>3, <2>1 DEF arm_word
  <2>3. Advances(r, q) /\ q \in Cursors /\ q.i = 4 /\ q.sp = s + 4
    BY <1>1, <2>1 DEF Advances, Cursors
  <2> HIDE DEF q
  <2>4. ArmAt(q, s + 4)
    BY <1>1, <2>1, <2>3 DEF ArmAt
  <2> QED
    BY <2>2, <2>3, <2>4
<1> QED
  BY <1>2, <1>3

\* It steps to the next 64 bit argument as the caller does.
LEMMA ArmAligned ==
    ASSUME NEW r, NEW s, ArmAt(r, s)
    PROVE  Advances(r, arm_align_64(r)) /\ ArmAt(arm_align_64(r), ArmPair(r.vt, s))
<1>1. r \in Cursors /\ s \in Nat /\ s % 4 = 0 /\ r.i \in Nat /\ r.sp \in Nat /\ r.i <= 4
  BY DEF ArmAt, Cursors
<1>2. CASE r.vt = "arm"
  BY <1>1, <1>2 DEF arm_align_64, ArmPair, Advances
<1>3. CASE r.vt # "arm"
  <2> DEFINE i == IF r.i < 4 THEN RoundEven(r.i) ELSE r.i
             sp == IF i >= 4 /\ (r.sp \div 4) % 2 = 1 THEN r.sp + 4 ELSE r.sp
             q == [r EXCEPT !.i = i, !.sp = sp]
  <2>1. arm_align_64(r) = q
    BY <1>3 DEF arm_align_64
  <2>2. i \in Nat /\ sp \in Nat
    BY <1>1 DEF RoundEven
  <2>3. q \in Cursors /\ Advances(r, q) /\ q.i = i /\ q.sp = sp
    BY <1>1, <2>2 DEF Cursors, Advances
  <2>4. ArmAt(q, ArmPair(r.vt, s))
    <3>1. CASE s <= 16
      <4>1. 4 * r.i = s /\ r.sp = 16
        BY <3>1 DEF ArmAt
      <4>2. sp = 16
        BY <4>1
      <4>3. r.i \in {0, 1, 2, 3, 4}
        BY <1>1
      <4>4. 4 * i = ArmPair(r.vt, s) /\ ArmPair(r.vt, s) \in Nat /\ ArmPair(r.vt, s) % 4 = 0
            /\ ArmPair(r.vt, s) <= 16
        BY <1>3, <4>1, <4>3 DEF ArmPair, RoundEven
      <4> HIDE DEF q, i, sp
      <4> QED
        BY <2>3, <4>2, <4>4 DEF ArmAt
    <3>2. CASE s > 16
      <4>1. r.i = 4 /\ r.sp = s
        BY <3>2 DEF ArmAt
      <4>2. i = 4 /\ sp = ArmPair(r.vt, s)
        BY <1>3, <4>1 DEF ArmPair
      <4>3. ArmPair(r.vt, s) \in Nat /\ ArmPair(r.vt, s) % 4 = 0 /\ ArmPair(r.vt, s) > 16
        BY <1>1, <3>2 DEF ArmPair
      <4> HIDE DEF q, i, sp
      <4> QED
        BY <2>3, <4>2, <4>3 DEF ArmAt
    <3> QED
      BY <1>1, <3>1, <3>2
  <2> QED
    BY <2>1, <2>3, <2>4
<1> QED
  BY <1>2, <1>3

\* Eight bytes, taken as two words.
LEMMA HoldsHalves ==
    ASSUME NEW mem, NEW off \in Nat, NEW n \in Nat, NEW form \in Forms, Bytes[form] = 8,
           NEW file, At(file, off, Val(n, form)) \in mem
    PROVE  /\ Holds(mem, Loc(file, off, 4), n, form, 0)
           /\ Holds(mem, Loc(file, off + 4, 4), n, form, 4)
<1> DEFINE e == At(file, off, Val(n, form))
<1>1. /\ e \in mem /\ e.arg = n /\ e.form = form /\ e.from = 0 /\ e.len = 8
      /\ e.file = file /\ e.off = off
  BY ValPart DEF At
<1> HIDE DEF e
<1> QED
  BY <1>1 DEF Holds, Loc

\* It takes two words.
LEMMA ArmTwoWords ==
    ASSUME NEW r, NEW s, ArmAt(r, s), NEW n \in Nat, NEW form \in Forms, Bytes[form] = 8, NEW x,
           At("V", ArmPair(r.vt, s), Val(n, form)) \in x.mem
    PROVE  LET a == TwoWords(r, form)
           IN  Kept(r, a) /\ Found(x.mem, a, n) /\ ArmAt(a.rd, ArmPair(r.vt, s) + 8)
<1> DEFINE o == ArmPair(r.vt, s)
<1>1. Advances(r, arm_align_64(r)) /\ ArmAt(arm_align_64(r), o) /\ o \in Nat
  BY ArmAligned DEF ArmAt
<1> HIDE DEF o
<1>2. PICK q1 : /\ arm_word(arm_align_64(r), form) = Access(q1, <<Loc("V", o, 4)>>, form)
                /\ Advances(arm_align_64(r), q1) /\ ArmAt(q1, o + 4)
  BY <1>1, ArmWord
<1> DEFINE o4 == o + 4
           l1 == Loc("V", o, 4)
           l2 == Loc("V", o4, 4)
<1> HIDE DEF o4
<1>3. ArmAt(q1, o4)
  BY <1>2 DEF o4
<1>4. PICK q2 : /\ arm_word(q1, form) = Access(q2, <<l2>>, form)
                /\ Advances(q1, q2) /\ ArmAt(q2, o4 + 4)
  BY <1>3, ArmWord
<1>5. TwoWords(r, form) = Access(q2, <<l1>> \o <<l2>>, form)
  <2> DEFINE low == arm_word(arm_align_64(r), form)
             high == arm_word(low.rd, form)
  <2>1. TwoWords(r, form) = Access(high.rd, low.at \o high.at, form)
    BY Zenon DEF TwoWords
  <2>2. low.rd = q1 /\ low.at = <<l1>>
    BY <1>2 DEF Access
  <2> HIDE DEF low, l1, l2
  <2>3. high.rd = q2 /\ high.at = <<l2>>
    BY <1>4, <2>2 DEF Access
  <2> HIDE DEF high
  <2> QED
    BY <2>1, <2>2, <2>3
<1>6. Holds(x.mem, l1, n, form, 0) /\ Holds(x.mem, l2, n, form, l1.len)
  BY <1>1, HoldsHalves DEF o, o4, Loc
<1>7. l1.off \in Nat /\ l1.len \in Nat \ {0}
  BY <1>1 DEF Loc
<1> DEFINE a == Access(q2, <<l1>> \o <<l2>>, form)
<1>8. a.rd = q2
  BY DEF Access
<1> HIDE DEF l1, l2
<1>9. Found(x.mem, a, n)
  BY <1>6, <1>7, FoundTwo
<1>10. Advances(r, q2)
  BY <1>1, <1>2, <1>4 DEF Advances
<1>11. o4 + 4 = o + 8
  BY <1>1 DEF o4
<1> HIDE DEF a
<1> QED
  BY <1>4, <1>5, <1>8, <1>9, <1>10, <1>11 DEF Kept, Advances, o, a
\* An argument is appended or dropped.
LEMMA AppendSize ==
    ASSUME NEW y, y \in VM, NEW p, NEW size
    PROVE  LET x == dcVecAppend(y, p, size) IN x.size = y.size \/ x.size = y.size + size
<1> DEFINE z == Put(y, "V", y.size, p)
<1>1. z.size = y.size /\ "size" \in DOMAIN z
  BY DEF Put, VM
<1>2. y.size + size <= VecTotal => dcVecAppend(y, p, size) = [z EXCEPT !.size = @ + size]
  BY DEF dcVecAppend
<1> HIDE DEF z
<1>3. [z EXCEPT !.size = @ + size].size = y.size + size
  BY <1>1
<1>4. ~(y.size + size <= VecTotal) => dcVecAppend(y, p, size) = y
  BY DEF dcVecAppend
<1> QED
  BY <1>2, <1>3, <1>4

\* ARM and Thumb without hard float.
LEMMA ArmBinds ==
    ASSUME NEW m, Laid(m, 0, 0, 0, 0), m.copies = VecTotal, m.size % 4 = 0,
           m.vt \in {"arm", "arm_eabi"}, NEW t \in Scalar, NEW n \in Nat
    PROVE  LET x == gVT_arm32_arm_arg(m, t, n)
           IN  /\ Laid(x, 0, 0, 0, 0) /\ More(m, x) /\ x.size % 4 = 0
               /\ Room(m) => Intact(x, n) /\ x.size <= m.size + 16
               /\ \A r \in Cursors : Room(m) /\ r.vt = m.vt /\ ArmAt(r, m.size) =>
                    LET a == dcbArg_arm32(r, t)
                    IN  Kept(r, a) /\ ArmAt(a.rd, x.size) /\ Found(x.mem, a, n)
<1> DEFINE x == gVT_arm32_arm_arg(m, t, n)
           wide == t \in {"longlong", "double"}
           y == IF m.vt = "arm_eabi" /\ wide THEN SkipOddWord(m) ELSE m
           form == FormOf[t]
           size == Val(n, form).len
<1>1. m \in VM /\ m.size \in Nat
  BY DEF Laid, VM
<1>2. /\ form \in Forms /\ size = Bytes[form] /\ size \in Nat /\ size <= 24 /\ Bytes[form] <= size
      /\ size = IF wide THEN 8 ELSE 4
      /\ wide => form = (IF t = "longlong" THEN "i8" ELSE "f8")
      /\ ~wide => form = (IF t = "int" THEN "i4" ELSE "f4")
  BY TypeForms, FormBytes, ValPart DEF Scalar
<1>3. x = dcVecAppend(y, Val(n, form), size)
  BY DEF gVT_arm32_arm_arg, dc_callvm_arg_arm32_arm_eabi, dc_callvm_arg_arm32_arm
<1>4. Shifted(m, y) /\ y.size = (IF wide THEN ArmPair(m.vt, m.size) ELSE m.size)
  <2>1. CASE m.vt = "arm_eabi" /\ wide
    <3>1. /\ Shifted(m, SkipOddWord(m))
          /\ SkipOddWord(m).size = m.size + (IF (m.size \div 4) % 2 = 1 THEN 4 ELSE 0)
      BY <1>1, SkippedOdd
    <3> QED
      BY <1>1, <2>1, <3>1 DEF ArmPair
  <2>2. CASE ~(m.vt = "arm_eabi" /\ wide)
    <3>1. y = m /\ Shifted(m, m)
      BY <1>1, <2>2 DEF Shifted, SameStore
    <3> QED
      BY <2>2, <3>1 DEF ArmPair
  <2> QED
    BY <2>1, <2>2
<1>5. y.size \in Nat /\ y.size <= m.size + 4 /\ y.size % 4 = 0
  BY <1>1, <1>4 DEF ArmPair
<1> HIDE DEF y, size, form
<1>6. y.size <= m.size + 8
  BY <1>1, <1>5
<1>7. /\ Laid(x, 0, 0, 0, 0) /\ More(m, x)
      /\ Gains(m, x, At("V", y.size, Val(n, form)))
      /\ Room(m) => /\ x.size = y.size + size /\ At("V", y.size, Val(n, form)) \in x.mem
                    /\ Intact(x, n)
  <2> HIDE DEF x
  <2>1. form \in Forms /\ size \in Nat /\ size <= 24 /\ Bytes[form] <= size
    BY <1>2
  <2> QED
    BY <1>3, <1>4, <1>6, <2>1, ValAppended
<1> HIDE DEF x
<1>8. x.size = y.size \/ x.size = y.size + size
  BY <1>3, <1>4, AppendSize DEF Shifted, SameStore
<1>9. x.size % 4 = 0 /\ (Room(m) => x.size <= m.size + 16)
  BY <1>1, <1>2, <1>5, <1>7, <1>8
<1>10. ASSUME NEW r \in Cursors, Room(m), r.vt = m.vt, ArmAt(r, m.size)
       PROVE  LET a == dcbArg_arm32(r, t)
              IN  Kept(r, a) /\ ArmAt(a.rd, x.size) /\ Found(x.mem, a, n)
  <2>0. r.vt # "armhf"
    BY <1>10
  <2>1. CASE ~wide
    <3>1. dcbArg_arm32(r, t) = arm_word(r, form)
      BY <1>2, <2>0, <2>1 DEF dcbArg_arm32, arm_float, Scalar
    <3>2. PICK q : /\ arm_word(r, form) = Access(q, <<Loc("V", m.size, 4)>>, form)
                   /\ Advances(r, q) /\ ArmAt(q, m.size + 4)
      BY <1>10, ArmWord
    <3> DEFINE a == Access(q, <<Loc("V", m.size, Bytes[form])>>, form)
    <3>3. dcbArg_arm32(r, t) = a
      BY <1>2, <2>1, <3>1, <3>2
    <3>4. At("V", m.size, Val(n, form)) \in x.mem /\ x.size = m.size + 4
      BY <1>2, <1>4, <1>7, <1>10, <2>1
    <3>5. Kept(r, a) /\ a.rd = q /\ Found(x.mem, a, n)
      BY <1>1, <1>2, <3>2, <3>4, TakenAt
    <3> HIDE DEF a
    <3> QED
      BY <3>2, <3>3, <3>4, <3>5
  <2>2. CASE wide
    <3> DEFINE d == IF r.d < r.f THEN RoundEven(r.f) ELSE r.d
               q == IF t = "longlong" THEN r ELSE [r EXCEPT !.d = d, !.f = 16]
    <3>1. dcbArg_arm32(r, t) = TwoWords(q, form)
      BY <1>2, <2>0, <2>2 DEF dcbArg_arm32, arm_longlong, arm_double
    <3>2. Advances(r, q) /\ q.i = r.i /\ q.sp = r.sp
      <4>1. d \in Nat
        BY DEF RoundEven, Cursors
      <4> HIDE DEF d
      <4> QED
        BY <4>1 DEF Cursors, Advances
    <3> HIDE DEF q
    <3>3. ArmAt(q, m.size) /\ q.vt = m.vt
      BY <1>10, <3>2 DEF ArmAt, Advances
    <3>4. /\ At("V", ArmPair(q.vt, m.size), Val(n, form)) \in x.mem
          /\ x.size = ArmPair(q.vt, m.size) + 8 /\ Bytes[form] = 8
      BY <1>2, <1>4, <1>7, <1>10, <2>2, <3>3
    <3>5. LET a == TwoWords(q, form)
          IN  Kept(q, a) /\ Found(x.mem, a, n) /\ ArmAt(a.rd, ArmPair(q.vt, m.size) + 8)
      BY <1>2, <3>3, <3>4, ArmTwoWords
    <3> QED
      BY <3>1, <3>2, <3>4, <3>5 DEF Kept, Advances
  <2> QED
    BY <2>1, <2>2
<1> QED
  BY <1>7, <1>9, <1>10 DEF x

\* One more argument is counted.
LEMMA OneMore ==
    ASSUME NEW m, m \in VM
    PROVE  LET y == [m EXCEPT !.i = @ + 1] IN Shifted(m, y) /\ y.i = m.i + 1 /\ y.size = m.size
  BY DEF Shifted, SameStore, VM

\* MIPS o32: an argument p of k bytes, appended to y, and in a register too.
O32Put(y, p, k, reg) ==
    [(IF reg THEN o32_InRegister(dcVecAppend(y, p, k), p) ELSE dcVecAppend(y, p, k)) EXCEPT !.i = @ + 1]

\* MIPS o32 stores an argument into the vector and, if it is a floating point one,
\* into a register.
LEMMA O32Store ==
    ASSUME NEW m, Laid(m, 0, 0, 0, 8 * m.i), m.copies = VecTotal, NEW n \in Nat,
           NEW y, Shifted(m, y), SameCounts(m, y), y.size <= m.size + 4,
           NEW form \in {"i4", "i8", "f4", "f8"}, NEW reg \in BOOLEAN
    PROVE  LET x == O32Put(y, Val(n, form), Bytes[form], reg)
           IN  /\ Laid(x, 0, 0, 0, 8 * x.i) /\ More(m, x) /\ x.i = m.i + 1
               /\ reg /\ m.i < 2 => At("F", 8 * m.i, Val(n, form)) \in x.mem
               /\ Room(m) => /\ Intact(x, n) /\ x.size = y.size + Bytes[form]
                             /\ At("V", y.size, Val(n, form)) \in x.mem
<1> DEFINE p == Val(n, form)
           k == Bytes[form]
           z == dcVecAppend(y, p, k)
           w == IF reg THEN o32_InRegister(z, p) ELSE z
           x == O32Put(y, p, k, reg)
           nf == 8 * m.i
           tf == 8 * m.i + 8
<1>1. m \in VM /\ m.i \in Nat /\ m.size \in Nat /\ y.size \in Nat /\ nf \in Nat /\ tf \in Nat
      /\ nf <= tf /\ 0 <= 0 /\ 0 \in Nat
  BY DEF Laid, Shifted, SameStore, VM
<1>2. form \in Forms /\ k \in {4, 8}
  BY FormBytes DEF Forms
<1>3. k \in Nat /\ k <= 24 /\ Bytes[form] <= k /\ k <= 8
  BY <1>2
<1>4. y.size <= m.size + 8
  BY <1>1
<1>5. p \in PartOf /\ p.len = k
  BY <1>2, ValPart
<1> HIDE DEF k, nf, tf
<1>6. /\ Laid(z, 0, 0, 0, nf) /\ More(m, z) /\ SameCounts(y, z)
      /\ Room(m) => /\ z.size = y.size + k /\ At("V", y.size, p) \in z.mem
                    /\ Intact(z, n)
  BY <1>2, <1>3, <1>4, ValAppended DEF nf
<1>7. z.i = m.i /\ z \in VM
  BY <1>6 DEF SameCounts, Laid
<1> HIDE DEF p, z
<1>8. /\ Laid(w, 0, 0, 0, tf) /\ More(m, w) /\ w.i = m.i /\ w.size = z.size /\ w \in VM
      /\ z.mem \subseteq w.mem
      /\ reg /\ m.i < 2 => At("F", nf, p) \in w.mem
  <2>1. CASE reg /\ m.i < 2
    <3>1. w = Put(z, "F", nf, p)
      BY <1>7, <2>1 DEF o32_InRegister, nf
    <3>2. RegFree(0, nf, "F", nf, p, 0, tf)
      BY <1>1, <1>3, <1>5 DEF RegFree, nf, tf
    <3>3. /\ Laid(w, 0, 0, 0, tf) /\ More(z, w) /\ SameCounts(z, w) /\ w.size = z.size
          /\ At("F", nf, p) \in w.mem
      <4> HIDE DEF w
      <4> QED
        BY <1>6, <3>1, <3>2, StoreReg
    <3> HIDE DEF w
    <3>4. More(m, w)
      BY <1>1, <1>6, <3>3, MoreTwice
    <3> QED
      BY <1>7, <3>3, <3>4 DEF SameCounts, More
  <2>2. CASE ~(reg /\ m.i < 2)
    <3>1. w = z
      BY <1>7, <2>2 DEF o32_InRegister
    <3>2. SameStore(z, z)
      BY <1>7 DEF SameStore, VM
    <3>3. Laid(z, 0, 0, 0, tf)
      BY <1>1, <1>6, <3>2, Recount
    <3> HIDE DEF w
    <3> QED
      BY <1>6, <1>7, <2>2, <3>1, <3>3
  <2> QED
    BY <2>1, <2>2
<1>9. x = [w EXCEPT !.i = @ + 1]
  BY DEF O32Put, z
<1> HIDE DEF w, x
<1>10. Shifted(w, x) /\ x.i = m.i + 1 /\ x.size = w.size
  BY <1>8, <1>9, OneMore
<1>11. Laid(x, 0, 0, 0, tf) /\ More(m, x)
  BY <1>1, <1>8, <1>10, MoreShifted
<1>12. tf = 8 * x.i
  BY <1>1, <1>10 DEF tf
<1>13. x.mem = w.mem
  BY <1>10 DEF Shifted, SameStore
<1>14. Room(m) => Intact(x, n)
  <2>1. ASSUME Room(m) PROVE Intact(x, n)
    <3>1. At("V", y.size, Val(n, form)) \in x.mem
      BY <1>6, <1>8, <1>13, <2>1 DEF p
    <3> QED
      BY <1>1, <1>2, <3>1, FoundVal
  <2> QED
    BY <2>1
<1> QED
  BY <1>6, <1>8, <1>10, <1>11, <1>12, <1>13, <1>14 DEF x, p, k, nf

\* A callback that takes next what is bound next.
O32Sync(r, m) ==
    r.sp = m.size /\ (r.f < 2 => r.f = m.i /\ Aligned(m.size) = 8 * m.i)

\* MIPS o32.
LEMMA O32Binds ==
    ASSUME NEW m, Laid(m, 0, 0, 0, 8 * m.i), m.copies = VecTotal, m.size % 4 = 0,
           NEW t \in Scalar, NEW n \in Nat
    PROVE  LET x == gVT_mips_o32_arg(m, t, n)
           IN  /\ Laid(x, 0, 0, 0, 8 * x.i) /\ More(m, x) /\ x.size % 4 = 0
               /\ Room(m) => Intact(x, n) /\ x.size <= m.size + 16
               /\ \A r \in Cursors : Room(m) /\ O32Sync(r, m) =>
                    LET a == dcbArg_mips_o32(r, t)
                    IN  Kept(r, a) /\ O32Sync(a.rd, x) /\ Found(x.mem, a, n)
<1> DEFINE x == gVT_mips_o32_arg(m, t, n)
           wide == t \in {"longlong", "double"}
           reg == t \in {"float", "double"}
           y == IF wide THEN SkipOddWord(m) ELSE m
           form == FormOf[t]
           k == Bytes[form]
<1>1. m \in VM /\ m.size \in Nat /\ m.i \in Nat
  BY DEF Laid, VM
<1>2. /\ form \in {"i4", "i8", "f4", "f8"} /\ form \in Forms
      /\ t = "int" => form = "i4" /\ k = 4
      /\ t = "longlong" => form = "i8" /\ k = 8
      /\ t = "float" => form = "f4" /\ k = 4
      /\ t = "double" => form = "f8" /\ k = 8
      /\ Val(n, form).len = k
  BY TypeForms, FormBytes, ValPart DEF Scalar, Forms
<1>3. x = O32Put(y, Val(n, form), k, reg)
  BY <1>2 DEF gVT_mips_o32_arg, O32Put, dc_callvm_argInt_mips_o32, dc_callvm_argLongLong_mips_o32,
     dc_callvm_argFloat_mips_o32, dc_callvm_argDouble_mips_o32, Scalar
<1>4. Shifted(m, y) /\ SameCounts(m, y) /\ y.size = (IF wide THEN Aligned(m.size) ELSE m.size)
  <2>1. CASE wide
    BY <1>1, <2>1, SkippedOdd DEF Aligned
  <2>2. CASE ~wide
    BY <1>1, <2>2 DEF Shifted, SameStore, SameCounts
  <2> QED
    BY <2>1, <2>2
<1>5. y.size \in Nat /\ y.size <= m.size + 4 /\ y.size % 4 = 0 /\ reg \in BOOLEAN
  BY <1>1, <1>4 DEF Aligned
<1>8. x.size = y.size \/ x.size = y.size + k
  <2> DEFINE z == dcVecAppend(y, Val(n, form), k)
             w == IF reg THEN o32_InRegister(z, Val(n, form)) ELSE z
  <2>1. z.size = y.size \/ z.size = y.size + k
    BY <1>4, AppendSize DEF Shifted, SameStore
  <2>2. "size" \in DOMAIN z
    BY <1>4 DEF dcVecAppend, Put, Shifted, SameStore, VM
  <2>3. w.size = z.size /\ "size" \in DOMAIN w
    BY <2>2 DEF o32_InRegister, Put
  <2>4. x = [w EXCEPT !.i = @ + 1]
    BY <1>3 DEF O32Put
  <2> HIDE DEF w, z, x
  <2> QED
    BY <2>1, <2>3, <2>4
<1> HIDE DEF y, x
<1>6. /\ Laid(x, 0, 0, 0, 8 * x.i) /\ More(m, x) /\ x.i = m.i + 1
      /\ reg /\ m.i < 2 => At("F", 8 * m.i, Val(n, form)) \in x.mem
      /\ Room(m) => /\ Intact(x, n) /\ x.size = y.size + k
                    /\ At("V", y.size, Val(n, form)) \in x.mem
  <2> HIDE DEF form, reg
  <2> QED
    BY <1>2, <1>3, <1>4, <1>5, O32Store
<1>7. x.size % 4 = 0 /\ (Room(m) => x.size <= m.size + 16)
  <2>1. k \in {4, 8}
    BY <1>2 DEF Scalar
  <2> HIDE DEF k
  <2> QED
    BY <1>1, <1>5, <1>8, <2>1
<1>10. ASSUME NEW r \in Cursors, Room(m), O32Sync(r, m)
       PROVE  LET a == dcbArg_mips_o32(r, t)
              IN  Kept(r, a) /\ O32Sync(a.rd, x) /\ Found(x.mem, a, n)
  <2> DEFINE file == IF reg /\ r.f < 2 THEN "F" ELSE "V"
             off == IF reg /\ r.f < 2 THEN Aligned(m.size) ELSE y.size
             f == IF reg THEN (IF r.f < 2 THEN r.f + 1 ELSE r.f) ELSE 2
             s == [r EXCEPT !.f = f, !.sp = y.size + k]
             a == Access(s, <<Loc(file, off, Bytes[form])>>, form)
  <2>1. r.sp = m.size /\ r.f \in Nat /\ (r.f < 2 => r.f = m.i /\ Aligned(m.size) = 8 * m.i)
    BY <1>10 DEF O32Sync, Cursors
  <2>2. dcbArg_mips_o32(r, t) = a
    <3>1. CASE t = "int"
      BY <1>2, <1>4, <2>1, <3>1 DEF dcbArg_mips_o32, o32_dcbArgInt
    <3>2. CASE t = "longlong"
      BY <1>2, <1>4, <2>1, <3>2 DEF dcbArg_mips_o32, o32_dcbArgULongLong
    <3>3. CASE t = "float"
      BY <1>2, <1>4, <2>1, <3>3 DEF dcbArg_mips_o32, o32_dcbArgFloat
    <3>4. CASE t = "double"
      BY <1>2, <1>4, <2>1, <3>4 DEF dcbArg_mips_o32, o32_dcbArgDouble
    <3> QED
      BY <3>1, <3>2, <3>3, <3>4 DEF Scalar
  <2>3. Advances(r, s) /\ s.f = f /\ s.sp = y.size + k
    <3>1. f \in Nat /\ y.size + k \in Nat
      BY <1>2, <1>5, <2>1 DEF Scalar
    <3> HIDE DEF f, k
    <3> QED
      BY <3>1 DEF Advances, Cursors
  <2>4. off \in Nat /\ At(file, off, Val(n, form)) \in x.mem
    <3>1. Aligned(m.size) \in Nat
      BY <1>1 DEF Aligned
    <3> QED
      BY <1>5, <1>6, <1>10, <2>1, <3>1
  <2>5. O32Sync(s, x)
    <3>1. x.size = y.size + k /\ x.i = m.i + 1
      BY <1>6, <1>10
    <3>2. ASSUME f < 2 PROVE f = m.i + 1 /\ Aligned(x.size) = 8 * (m.i + 1)
      <4>1. reg /\ r.f = 0 /\ m.i = 0 /\ Aligned(m.size) = 0 /\ k \in {4, 8} /\ f = 1
        BY <1>2, <2>1, <3>2 DEF Scalar
      <4>2. m.size = 0 /\ y.size = 0
        BY <1>1, <1>4, <4>1 DEF Aligned
      <4> QED
        BY <3>1, <4>1, <4>2 DEF Aligned
    <3> QED
      BY <2>3, <3>1, <3>2 DEF O32Sync
  <2> HIDE DEF s, off, file
  <2>6. Kept(r, a) /\ a.rd = s /\ Found(x.mem, a, n)
    BY <1>2, <2>3, <2>4, TakenAt
  <2> QED
    BY <2>2, <2>5, <2>6
<1> QED
  BY <1>6, <1>7, <1>10 DEF x

\* A part is found where it lies.
LEMMA HoldsPart ==
    ASSUME NEW mem, NEW file, NEW off \in Nat, NEW n, NEW form, NEW from \in Nat, NEW len \in Nat,
           At(file, off, Part(n, form, from, len)) \in mem
    PROVE  Holds(mem, Loc(file, off, len), n, form, from)
<1> DEFINE e == At(file, off, Part(n, form, from, len))
<1>1. /\ e \in mem /\ e.arg = n /\ e.form = form /\ e.from = from /\ e.len = len
      /\ e.file = file /\ e.off = off
  BY DEF At, Part
<1> HIDE DEF e
<1> QED
  BY <1>1 DEF Holds, Loc

\* A compiled function finds a value that lies in two halves.
LEMMA IntactHalves ==
    ASSUME NEW x, NEW n, NEW file, NEW off, NEW file2, NEW off2,
           At(file, off, Part(n, "i8", 0, 4)) \in x.mem,
           At(file2, off2, Part(n, "i8", 4, 4)) \in x.mem
    PROVE  Intact(x, n)
<1> DEFINE e == At(file, off, Part(n, "i8", 0, 4))
           g == At(file2, off2, Part(n, "i8", 4, 4))
<1>1. /\ e \in x.mem /\ e.arg = n /\ e.form = "i8" /\ e.from = 0 /\ e.len = 4
      /\ g \in x.mem /\ g.arg = n /\ g.form = "i8" /\ g.from = 4 /\ g.len = 4
  BY DEF At, Part
<1> HIDE DEF e, g
<1>2. "i8" \in DOMAIN Bytes /\ Bytes["i8"] = 8
  BY FormBytes DEF Forms
<1>3. ASSUME NEW b \in 0..7
      PROVE  \E h \in x.mem : h.arg = n /\ h.form = "i8" /\ b \in h.from..(h.from + h.len - 1)
  <2>1. CASE b < 4
    <3>1. b \in e.from..(e.from + e.len - 1)
      BY <1>1, <2>1
    <3> QED
      BY <1>1, <3>1
  <2>2. CASE b >= 4
    <3>1. b \in g.from..(g.from + g.len - 1)
      BY <1>1, <2>2
    <3> QED
      BY <1>1, <3>1
  <2> QED
    BY <2>1, <2>2
<1>4. \A b \in 0..(Bytes["i8"] - 1) :
        \E h \in x.mem : h.arg = n /\ h.form = "i8" /\ b \in h.from..(h.from + h.len - 1)
  BY <1>2, <1>3
<1> QED
  BY <1>2, <1>4 DEF Intact

---------------------------------------------------------------------------
\* PowerPC.

\* 32 bit PowerPC: the registers used are those counted.
PpcLaid(m) == Laid(m, 0, 0, 4 * m.i, 8 * m.f) /\ m.i <= 8 /\ m.copies = VecTotal

\* The registers used after one more.
NextReg(i) == IF i < 8 THEN i + 1 ELSE i

\* A word goes into the next integer register, if there is one left.
LEMMA PpcIntReg ==
    ASSUME NEW m, PpcLaid(m), NEW p, p \in PartOf, p.len = 4
    PROVE  LET x == IntReg(m, 4, p)
           IN  /\ PpcLaid(x) /\ More(m, x) /\ x.i = NextReg(m.i) /\ x.f = m.f /\ x.size = m.size
               /\ m.i < 8 => At("I", 4 * m.i, p) \in x.mem
<1> DEFINE x == IntReg(m, 4, p)
           off == 4 * m.i
           nf == 8 * m.f
           k == m.i + 1
           top == 4 * m.i + 4
<1>1. Laid(m, 0, 0, off, nf) /\ m \in VM /\ m.i \in Nat /\ m.f \in Nat /\ m.i <= 8 /\ m.size \in Nat
      /\ m.copies = VecTotal
  BY DEF PpcLaid, Laid, VM
<1>2. CASE m.i < 8
  <2>1. RegFree(off, nf, "I", off, p, top, nf) /\ k \in Nat /\ off \in Nat /\ top \in Nat /\ nf \in Nat
    BY <1>1 DEF RegFree
  <2> HIDE DEF off, nf, k, top
  <2> DEFINE y == Put(m, "I", off, p)
             z == PutI(m, "I", off, p, k)
  <2>2. /\ y \in VM /\ y.i = m.i
        /\ Laid(z, 0, 0, top, nf) /\ More(m, z) /\ z.size = m.size
        /\ z.i = k /\ z.f = m.f /\ At("I", off, p) \in z.mem
    BY <1>1, <2>1, CountReg
  <2>3. x = z
    <3>1. x = [y EXCEPT !.i = @ + 1]
      BY <1>2 DEF IntReg, off
    <3>2. z = [y EXCEPT !.i = k]
      BY DEF PutI
    <3> QED
      BY <2>2, <3>1, <3>2 DEF k
  <2> HIDE DEF x, z
  <2>4. top = 4 * z.i /\ nf = 8 * z.f /\ z.i <= 8 /\ z.i = m.i + 1
    BY <1>1, <1>2, <2>2 DEF top, nf, k
  <2>5. PpcLaid(z)
    BY <1>1, <2>2, <2>4 DEF PpcLaid, More
  <2> QED
    BY <1>2, <2>2, <2>3, <2>4, <2>5 DEF x, off, NextReg
<1>3. CASE ~(m.i < 8)
  <2>1. x = m /\ More(m, m)
    BY <1>1, <1>3 DEF IntReg, More
  <2> QED
    BY <1>1, <1>3, <2>1 DEF NextReg
<1> QED
  BY <1>2, <1>3

\* A double goes into the next floating point register.
LEMMA PpcFloatReg ==
    ASSUME NEW m, PpcLaid(m), NEW p, p \in PartOf, p.len = 8
    PROVE  LET x == FloatReg(m, p)
           IN  /\ PpcLaid(x) /\ More(m, x) /\ x.i = m.i /\ x.f = m.f + 1 /\ x.size = m.size
               /\ At("F", 8 * m.f, p) \in x.mem
<1> DEFINE x == FloatReg(m, p)
           ni == 4 * m.i
           off == 8 * m.f
           k == m.f + 1
           top == 8 * m.f + 8
<1>1. Laid(m, 0, 0, ni, off) /\ m \in VM /\ m.i \in Nat /\ m.f \in Nat /\ m.i <= 8 /\ m.size \in Nat
      /\ m.copies = VecTotal
  BY DEF PpcLaid, Laid, VM
<1>2. RegFree(ni, off, "F", off, p, ni, top) /\ k \in Nat /\ off \in Nat /\ top \in Nat /\ ni \in Nat
  BY <1>1 DEF RegFree
<1> HIDE DEF off, ni, k, top
<1> DEFINE y == Put(m, "F", off, p)
           z == PutF(m, "F", off, p, k)
<1>3. /\ y \in VM /\ y.f = m.f
      /\ Laid(z, 0, 0, ni, top) /\ More(m, z) /\ z.size = m.size
      /\ z.i = m.i /\ z.f = k /\ At("F", off, p) \in z.mem
  BY <1>1, <1>2, CountReg
<1>4. x = z
  <2>1. x = [y EXCEPT !.f = @ + 1]
    BY DEF FloatReg, off
  <2>2. z = [y EXCEPT !.f = k]
    BY DEF PutF
  <2> QED
    BY <1>3, <2>1, <2>2 DEF k
<1> HIDE DEF x, z
<1>5. top = 8 * z.f /\ ni = 4 * z.i /\ z.i <= 8 /\ z.f = m.f + 1
  BY <1>1, <1>3 DEF top, ni, k
<1>6. PpcLaid(z)
  BY <1>1, <1>3, <1>5 DEF PpcLaid, More
<1> QED
  BY <1>3, <1>4, <1>5, <1>6 DEF x, off

\* Something is appended to the vector.
LEMMA PpcAppend ==
    ASSUME NEW m, PpcLaid(m), NEW p, p \in PartOf, NEW k \in Nat, p.len <= k
    PROVE  LET x == dcVecAppend(m, p, k)
           IN  /\ PpcLaid(x) /\ More(m, x) /\ x.i = m.i /\ x.f = m.f
               /\ m.size + k <= VecTotal => x.size = m.size + k /\ At("V", m.size, p) \in x.mem
<1> DEFINE x == dcVecAppend(m, p, k)
<1>1. Laid(m, 0, 0, 4 * m.i, 8 * m.f) /\ Appends(m, p, k) /\ m.copies = VecTotal
  BY DEF PpcLaid, Appends
<1>2. /\ Laid(x, 0, 0, 4 * m.i, 8 * m.f) /\ More(m, x) /\ SameCounts(m, x)
      /\ m.size + k <= VecTotal => x.size = m.size + k /\ At("V", m.size, p) \in x.mem
  BY <1>1, Appended
<1> HIDE DEF x
<1> QED
  BY <1>1, <1>2 DEF PpcLaid, SameCounts, More, x

\* Two steps of a bind are one.
LEMMA PpcMore ==
    ASSUME NEW m, NEW x, NEW y, PpcLaid(m), More(m, x), More(x, y)
    PROVE  More(m, y)
  BY MoreTwice DEF PpcLaid, Laid

\* Darwin's argInt, of four bytes.
LEMMA DarwinInt ==
    ASSUME NEW m, PpcLaid(m), NEW p, p \in PartOf, p.len = 4
    PROVE  LET x == dc_callvm_argInt_ppc32_darwin(m, p)
           IN  /\ PpcLaid(x) /\ More(m, x) /\ x.i = NextReg(m.i) /\ x.f = m.f
               /\ m.i < 8 => At("I", 4 * m.i, p) \in x.mem
               /\ m.size + 4 <= VecTotal => x.size = m.size + 4 /\ At("V", m.size, p) \in x.mem
<1> DEFINE y == IntReg(m, 4, p)
           k == 4
           x == dcVecAppend(y, p, k)
<1>1. /\ PpcLaid(y) /\ More(m, y) /\ y.i = NextReg(m.i) /\ y.f = m.f /\ y.size = m.size
      /\ m.i < 8 => At("I", 4 * m.i, p) \in y.mem
  BY PpcIntReg
<1>2. k \in Nat /\ p.len <= k
  OBVIOUS
<1>3. dc_callvm_argInt_ppc32_darwin(m, p) = x
  BY DEF dc_callvm_argInt_ppc32_darwin
<1> HIDE DEF y, k
<1>4. /\ PpcLaid(x) /\ More(y, x) /\ x.i = y.i /\ x.f = y.f
      /\ y.size + k <= VecTotal => x.size = y.size + k /\ At("V", y.size, p) \in x.mem
  BY <1>1, <1>2, PpcAppend
<1> HIDE DEF x
<1>5. More(m, x)
  BY <1>1, <1>4, PpcMore
<1> QED
  BY <1>1, <1>3, <1>4, <1>5 DEF k, More

\* A callback that takes next what is bound next.
DarwinSync(r, m) ==
    r.i = m.i /\ r.f = m.f /\ r.sp = m.size /\ (m.i = 8 \/ m.f <= m.i)

\* What dcbArgInt of Darwin does: word k of the call.
LEMMA DarwinWord ==
    ASSUME NEW r, r \in Cursors, r.i <= 8, NEW form
    PROVE  \E q : /\ darwin_dcbArgInt(r, form)
                       = Access(q, <<IF r.i < 8 THEN Loc("I", 4 * r.i, 4) ELSE Loc("V", r.sp, 4)>>, form)
                  /\ Advances(r, q) /\ q.i = NextReg(r.i) /\ q.f = r.f /\ q.sp = r.sp + 4
<1> DEFINE i == IF r.i < 8 THEN r.i + 1 ELSE r.i
           sp == r.sp + 4
           q == [r EXCEPT !.i = i, !.sp = sp]
<1>1. i \in Nat /\ i = NextReg(r.i) /\ sp \in Nat
  BY DEF Cursors, NextReg
<1>2. darwin_dcbArgInt(r, form)
        = Access(q, <<IF r.i < 8 THEN Loc("I", 4 * r.i, 4) ELSE Loc("V", r.sp, 4)>>, form)
  BY DEF darwin_dcbArgInt
<1> HIDE DEF i, sp
<1>3. Advances(r, q) /\ q.i = NextReg(r.i) /\ q.f = r.f /\ q.sp = sp
  BY <1>1 DEF Advances, Cursors
<1> HIDE DEF q
<1> QED
  BY <1>2, <1>3 DEF sp

\* An integer.
LEMMA DarwinBindsInt ==
    ASSUME NEW m, PpcLaid(m), NEW n \in Nat
    PROVE  LET x == gVT_ppc32_darwin_arg(m, "int", n)
           IN  /\ PpcLaid(x) /\ More(m, x)
               /\ Room(m) => Intact(x, n) /\ x.size <= m.size + 8
               /\ \A r \in Cursors : Room(m) /\ DarwinSync(r, m) =>
                    LET a == dcbArg_ppc32_darwin(r, "int")
                    IN  Kept(r, a) /\ DarwinSync(a.rd, x) /\ Found(x.mem, a, n)
<1> DEFINE p == Val(n, "i4")
           x == gVT_ppc32_darwin_arg(m, "int", n)
<1>1. p \in PartOf /\ p.len = 4 /\ "i4" \in Forms /\ Bytes["i4"] = 4
  BY ValPart, FormBytes DEF Forms
<1>2. x = dc_callvm_argInt_ppc32_darwin(m, p)
  BY DEF gVT_ppc32_darwin_arg
<1>3. m.i \in Nat /\ m.i <= 8 /\ m.f \in Nat /\ m.size \in Nat /\ m.copies = VecTotal /\ VecTotal \in Nat
  BY VecAssumption DEF PpcLaid, Laid, VM
<1> HIDE DEF x
<1>4. /\ PpcLaid(x) /\ More(m, x) /\ x.i = NextReg(m.i) /\ x.f = m.f
      /\ m.i < 8 => At("I", 4 * m.i, p) \in x.mem
      /\ m.size + 4 <= VecTotal => x.size = m.size + 4 /\ At("V", m.size, p) \in x.mem
  <2> HIDE DEF p
  <2> QED
    BY <1>1, <1>2, DarwinInt
<1>5. Room(m) => x.size = m.size + 4 /\ At("V", m.size, p) \in x.mem
  BY <1>3, <1>4 DEF Room
<1>6. Room(m) => Intact(x, n)
  BY <1>1, <1>3, <1>5, FoundVal
<1>7. ASSUME NEW r \in Cursors, Room(m), DarwinSync(r, m)
      PROVE  LET a == dcbArg_ppc32_darwin(r, "int")
             IN  Kept(r, a) /\ DarwinSync(a.rd, x) /\ Found(x.mem, a, n)
  <2> DEFINE file == IF m.i < 8 THEN "I" ELSE "V"
             off == IF m.i < 8 THEN 4 * m.i ELSE m.size
  <2>1. r.i = m.i /\ r.f = m.f /\ r.sp = m.size /\ (m.i = 8 \/ m.f <= m.i) /\ r.i <= 8
    BY <1>3, <1>7 DEF DarwinSync
  <2>2. PICK q : /\ darwin_dcbArgInt(r, "i4")
                       = Access(q, <<IF r.i < 8 THEN Loc("I", 4 * r.i, 4) ELSE Loc("V", r.sp, 4)>>, "i4")
                 /\ Advances(r, q) /\ q.i = NextReg(r.i) /\ q.f = r.f /\ q.sp = r.sp + 4
    BY <2>1, DarwinWord
  <2> DEFINE a == Access(q, <<Loc(file, off, Bytes["i4"])>>, "i4")
  <2>3. dcbArg_ppc32_darwin(r, "int") = a
    BY <1>1, <2>1, <2>2 DEF dcbArg_ppc32_darwin
  <2>4. off \in Nat /\ At(file, off, Val(n, "i4")) \in x.mem
    BY <1>3, <1>4, <1>5, <1>7
  <2> HIDE DEF file, off
  <2>5. Kept(r, a) /\ a.rd = q /\ Found(x.mem, a, n)
    BY <1>1, <2>2, <2>4, TakenAt
  <2> HIDE DEF a
  <2>6. DarwinSync(q, x)
    BY <1>3, <1>4, <1>5, <1>7, <2>1, <2>2 DEF DarwinSync, NextReg
  <2> QED
    BY <2>3, <2>5, <2>6
<1>8. Room(m) => x.size <= m.size + 8
  BY <1>3, <1>5
<1> QED
  BY <1>4, <1>6, <1>7, <1>8 DEF x

\* Two words.
LEMMA DarwinBindsLongLong ==
    ASSUME NEW m, PpcLaid(m), NEW n \in Nat
    PROVE  LET x == gVT_ppc32_darwin_arg(m, "longlong", n)
           IN  /\ PpcLaid(x) /\ More(m, x)
               /\ Room(m) => Intact(x, n) /\ x.size <= m.size + 8
               /\ \A r \in Cursors : Room(m) /\ DarwinSync(r, m) =>
                    LET a == dcbArg_ppc32_darwin(r, "longlong")
                    IN  Kept(r, a) /\ DarwinSync(a.rd, x) /\ Found(x.mem, a, n)
<1> DEFINE p1 == Part(n, "i8", 0, 4)
           p2 == Part(n, "i8", 4, 4)
           y == dc_callvm_argInt_ppc32_darwin(m, p1)
           x == gVT_ppc32_darwin_arg(m, "longlong", n)
<1>1. p1 \in PartOf /\ p1.len = 4 /\ p2 \in PartOf /\ p2.len = 4
  BY DEF Part, PartOf, Forms
<1>2. x = dc_callvm_argInt_ppc32_darwin(y, p2)
  BY DEF gVT_ppc32_darwin_arg, dc_callvm_argLongLong_ppc32_darwin
<1>3. m.i \in Nat /\ m.i <= 8 /\ m.f \in Nat /\ m.size \in Nat /\ m.copies = VecTotal /\ VecTotal \in Nat
  BY VecAssumption DEF PpcLaid, Laid, VM
<1> HIDE DEF x
<1>4. /\ PpcLaid(y) /\ More(m, y) /\ y.i = NextReg(m.i) /\ y.f = m.f
      /\ m.i < 8 => At("I", 4 * m.i, p1) \in y.mem
      /\ m.size + 4 <= VecTotal => y.size = m.size + 4 /\ At("V", m.size, p1) \in y.mem
  <2> HIDE DEF p1
  <2> QED
    BY <1>1, DarwinInt
<1> HIDE DEF y
<1>5. /\ PpcLaid(x) /\ More(y, x) /\ x.i = NextReg(y.i) /\ x.f = y.f
      /\ y.i < 8 => At("I", 4 * y.i, p2) \in x.mem
      /\ y.size + 4 <= VecTotal => x.size = y.size + 4 /\ At("V", y.size, p2) \in x.mem
  <2> HIDE DEF p2
  <2> QED
    BY <1>1, <1>2, <1>4, DarwinInt
<1>6. More(m, x)
  BY <1>4, <1>5, PpcMore
<1>7. /\ x.i = NextReg(NextReg(m.i)) /\ x.f = m.f /\ NextReg(m.i) \in Nat
      /\ m.i < 8 => At("I", 4 * m.i, p1) \in x.mem
      /\ NextReg(m.i) < 8 => At("I", 4 * NextReg(m.i), p2) \in x.mem
      /\ Room(m) => /\ x.size = m.size + 8 /\ At("V", m.size, p1) \in x.mem
                    /\ At("V", m.size + 4, p2) \in x.mem
  <2>1. y.mem \subseteq x.mem
    BY <1>5 DEF More
  <2>2. Room(m) => y.size = m.size + 4 /\ y.size + 4 <= VecTotal /\ m.size + 4 <= VecTotal /\ y.size + 4 = m.size + 8
    BY <1>3, <1>4 DEF Room
  <2>3. NextReg(m.i) \in Nat
    BY <1>3 DEF NextReg
  <2> HIDE DEF p1, p2
  <2> QED
    BY <1>4, <1>5, <2>1, <2>2, <2>3
<1>8. Room(m) => Intact(x, n)
  BY <1>7, IntactHalves
<1>9. ASSUME NEW r \in Cursors, Room(m), DarwinSync(r, m)
      PROVE  LET a == dcbArg_ppc32_darwin(r, "longlong")
             IN  Kept(r, a) /\ DarwinSync(a.rd, x) /\ Found(x.mem, a, n)
  <2>1. r.i = m.i /\ r.f = m.f /\ r.sp = m.size /\ (m.i = 8 \/ m.f <= m.i) /\ r.i <= 8
    BY <1>3, <1>9 DEF DarwinSync
  <2> DEFINE l1 == IF r.i < 8 THEN Loc("I", 4 * r.i, 4) ELSE Loc("V", r.sp, 4)
  <2>2. PICK q : /\ darwin_dcbArgInt(r, "i8") = Access(q, <<l1>>, "i8")
                 /\ Advances(r, q) /\ q.i = NextReg(r.i) /\ q.f = r.f /\ q.sp = r.sp + 4
    BY <2>1, DarwinWord
  <2>3. q \in Cursors /\ q.i <= 8 /\ q.i = NextReg(m.i) /\ q.sp = m.size + 4
    BY <1>3, <2>1, <2>2 DEF Advances, NextReg
  <2> DEFINE l2 == IF q.i < 8 THEN Loc("I", 4 * q.i, 4) ELSE Loc("V", q.sp, 4)
  <2>4. PICK s : /\ darwin_dcbArgInt(q, "i8") = Access(s, <<l2>>, "i8")
                 /\ Advances(q, s) /\ s.i = NextReg(q.i) /\ s.f = q.f /\ s.sp = q.sp + 4
    BY <2>3, DarwinWord
  <2> DEFINE a == Access(s, <<l1>> \o <<l2>>, "i8")
  <2>5. dcbArg_ppc32_darwin(r, "longlong") = a
    <3> HIDE DEF l1, l2
    <3>1. Access(q, <<l1>>, "i8").rd = q /\ Access(q, <<l1>>, "i8").at = <<l1>>
          /\ Access(s, <<l2>>, "i8").rd = s /\ Access(s, <<l2>>, "i8").at = <<l2>>
      BY DEF Access
    <3> QED
      BY <2>2, <2>4, <3>1 DEF dcbArg_ppc32_darwin, darwin_dcbArgULongLong
  <2>6. Holds(x.mem, l1, n, "i8", 0) /\ l1.off \in Nat /\ l1.len = 4
    <3>1. CASE m.i < 8
      <4>1. At("I", 4 * m.i, Part(n, "i8", 0, 4)) \in x.mem /\ 4 * m.i \in Nat
        BY <1>3, <1>7, <3>1
      <4>2. Holds(x.mem, Loc("I", 4 * m.i, 4), n, "i8", 0)
        BY <4>1, HoldsPart
      <4> QED
        BY <2>1, <3>1, <4>1, <4>2 DEF Loc
    <3>2. CASE ~(m.i < 8)
      <4>1. At("V", m.size, Part(n, "i8", 0, 4)) \in x.mem
        BY <1>7, <1>9
      <4>2. Holds(x.mem, Loc("V", m.size, 4), n, "i8", 0)
        BY <1>3, <4>1, HoldsPart
      <4> QED
        BY <1>3, <2>1, <3>2, <4>1, <4>2 DEF Loc
    <3> QED
      BY <3>1, <3>2
  <2>7. Holds(x.mem, l2, n, "i8", 4)
    <3>1. CASE q.i < 8
      <4> DEFINE o == 4 * q.i
      <4>1. At("I", o, Part(n, "i8", 4, 4)) \in x.mem /\ o \in Nat
        BY <1>7, <2>3, <3>1
      <4> HIDE DEF o
      <4>2. Holds(x.mem, Loc("I", o, 4), n, "i8", 4)
        BY <4>1, HoldsPart
      <4> QED
        BY <3>1, <4>2 DEF o
    <3>2. CASE ~(q.i < 8)
      <4>1. At("V", q.sp, Part(n, "i8", 4, 4)) \in x.mem /\ q.sp \in Nat
        BY <1>3, <1>7, <1>9, <2>3
      <4>2. Holds(x.mem, Loc("V", q.sp, 4), n, "i8", 4)
        BY <4>1, HoldsPart
      <4> QED
        BY <3>2, <4>2
    <3> QED
      BY <3>1, <3>2
  <2> HIDE DEF l1, l2
  <2>8. Found(x.mem, a, n)
    BY <2>6, <2>7, FoundTwo
  <2>9. Kept(r, a) /\ a.rd = s
    BY <2>2, <2>4 DEF Kept, Advances, Access
  <2> HIDE DEF a
  <2>10. DarwinSync(s, x)
    BY <1>3, <1>7, <1>9, <2>1, <2>2, <2>3, <2>4 DEF DarwinSync, NextReg
  <2> QED
    BY <2>5, <2>8, <2>9, <2>10
<1>10. Room(m) => x.size <= m.size + 8
  BY <1>3, <1>7
<1> QED
  BY <1>5, <1>6, <1>8, <1>9, <1>10 DEF x

\* A double, whose words use up integer registers too.
LEMMA DarwinBindsDouble ==
    ASSUME NEW m, PpcLaid(m), NEW n \in Nat
    PROVE  LET x == gVT_ppc32_darwin_arg(m, "double", n)
           IN  /\ PpcLaid(x) /\ More(m, x)
               /\ Room(m) => Intact(x, n) /\ x.size <= m.size + 8
               /\ \A r \in Cursors : Room(m) /\ DarwinSync(r, m) =>
                    LET a == dcbArg_ppc32_darwin(r, "double")
                    IN  Kept(r, a) /\ DarwinSync(a.rd, x) /\ Found(x.mem, a, n)
<1> DEFINE p == Val(n, "f8")
           p1 == Part(n, "f8", 0, 4)
           p2 == Part(n, "f8", 4, 4)
           y1 == FloatReg(m, p)
           y2 == IntReg(y1, 4, p1)
           y3 == IntReg(y2, 4, p2)
           z == IF m.f < 13 THEN y3 ELSE m
           k == 8
           x == gVT_ppc32_darwin_arg(m, "double", n)
<1>1. /\ p1 \in PartOf /\ p1.len = 4 /\ p2 \in PartOf /\ p2.len = 4
      /\ p \in PartOf /\ p.len = 8 /\ "f8" \in Forms /\ Bytes["f8"] = 8 /\ k \in Nat /\ p.len <= k
  BY ValPart, FormBytes DEF Part, PartOf, Forms
<1>2. x = dcVecAppend(z, p, k)
  BY DEF gVT_ppc32_darwin_arg, dc_callvm_argDouble_ppc32_darwin
<1>3. m.i \in Nat /\ m.i <= 8 /\ m.f \in Nat /\ m.size \in Nat /\ m.copies = VecTotal /\ VecTotal \in Nat
      /\ m \in VM /\ More(m, m)
  BY VecAssumption DEF PpcLaid, Laid, VM, More
<1> HIDE DEF x, p, p1, p2, k
<1>4. /\ PpcLaid(y1) /\ More(m, y1) /\ y1.i = m.i /\ y1.f = m.f + 1 /\ y1.size = m.size
      /\ At("F", 8 * m.f, p) \in y1.mem
  BY <1>1, PpcFloatReg
<1> HIDE DEF y1
<1>5. PpcLaid(y2) /\ More(y1, y2) /\ y2.i = NextReg(y1.i) /\ y2.f = y1.f /\ y2.size = y1.size
  BY <1>1, <1>4, PpcIntReg
<1> HIDE DEF y2
<1>6. PpcLaid(y3) /\ More(y2, y3) /\ y3.i = NextReg(y2.i) /\ y3.f = y2.f /\ y3.size = y2.size
  BY <1>1, <1>5, PpcIntReg
<1> HIDE DEF y3
<1>7. More(m, y3)
  BY <1>4, <1>5, <1>6, PpcMore
<1>8. /\ PpcLaid(z) /\ More(m, z) /\ z.size = m.size
      /\ m.f < 13 => z.i = NextReg(NextReg(m.i)) /\ z.f = m.f + 1 /\ At("F", 8 * m.f, p) \in z.mem
      /\ ~(m.f < 13) => z.i = m.i /\ z.f = m.f
  <2>1. At("F", 8 * m.f, p) \in y3.mem
    BY <1>4, <1>5, <1>6 DEF More
  <2> QED
    BY <1>3, <1>4, <1>5, <1>6, <1>7, <2>1
<1> HIDE DEF z
<1>9. /\ PpcLaid(x) /\ More(z, x) /\ x.i = z.i /\ x.f = z.f
      /\ z.size + k <= VecTotal => x.size = z.size + k /\ At("V", z.size, p) \in x.mem
  BY <1>1, <1>2, <1>8, PpcAppend
<1>10. More(m, x)
  BY <1>8, <1>9, PpcMore
<1>11. /\ Room(m) => x.size = m.size + 8 /\ At("V", m.size, p) \in x.mem
       /\ m.f < 13 => At("F", 8 * m.f, p) \in x.mem
  BY <1>3, <1>8, <1>9 DEF Room, k, More
<1>12. Room(m) => Intact(x, n)
  BY <1>1, <1>3, <1>11, FoundVal DEF p
<1>13. ASSUME NEW r \in Cursors, Room(m), DarwinSync(r, m)
       PROVE  LET a == dcbArg_ppc32_darwin(r, "double")
              IN  Kept(r, a) /\ DarwinSync(a.rd, x) /\ Found(x.mem, a, n)
  <2>1. r.i = m.i /\ r.f = m.f /\ r.sp = m.size /\ (m.i = 8 \/ m.f <= m.i)
    BY <1>13 DEF DarwinSync
  <2> DEFINE i == IF m.i < 7 THEN m.i + 2 ELSE 8
             sp == m.size + 8
             f == IF m.f < 13 THEN m.f + 1 ELSE m.f
             s == [r EXCEPT !.i = i, !.sp = sp, !.f = f]
             file == IF m.f < 13 THEN "F" ELSE "V"
             off == IF m.f < 13 THEN 8 * m.f ELSE m.size
             a == Access(s, <<Loc(file, off, Bytes["f8"])>>, "f8")
  <2>2. i \in Nat /\ sp \in Nat /\ f \in Nat /\ off \in Nat
    BY <1>3
  <2>3. dcbArg_ppc32_darwin(r, "double") = a
    <3>1. dcbArg_ppc32_darwin(r, "double") = darwin_dcbArgDouble(r)
      BY DEF dcbArg_ppc32_darwin
    <3>2. [r EXCEPT !.i = IF @ < 7 THEN @ + 2 ELSE 8, !.sp = @ + 8] = [r EXCEPT !.i = i, !.sp = sp]
      BY <2>1
    <3> DEFINE at == [r EXCEPT !.i = i, !.sp = sp]
    <3>3. CASE m.f < 13
      <4>1. [at EXCEPT !.f = @ + 1] = s
        BY <2>1, <3>3 DEF Cursors
      <4>2. darwin_dcbArgDouble(r) = Access([at EXCEPT !.f = @ + 1], <<Loc("F", 8 * r.f, 8)>>, "f8")
        BY <2>1, <3>2, <3>3 DEF darwin_dcbArgDouble
      <4> QED
        BY <1>1, <2>1, <3>1, <3>3, <4>1, <4>2
    <3>4. CASE ~(m.f < 13)
      <4>1. at = s
        BY <2>1, <3>4 DEF Cursors
      <4>2. darwin_dcbArgDouble(r) = Access(at, <<Loc("V", r.sp, 8)>>, "f8")
        BY <2>1, <3>2, <3>4 DEF darwin_dcbArgDouble
      <4> QED
        BY <1>1, <2>1, <3>1, <3>4, <4>1, <4>2
    <3> QED
      BY <3>3, <3>4
  <2>4. Advances(r, s) /\ s.i = i /\ s.f = f /\ s.sp = sp
    <3> HIDE DEF i, sp, f
    <3> QED
      BY <2>2 DEF Advances, Cursors
  <2>5. At(file, off, Val(n, "f8")) \in x.mem
    BY <1>11, <1>13 DEF p
  <2>6. DarwinSync(s, x)
    <3> HIDE DEF s
    <3>1. x.size = sp /\ x.f = f
      BY <1>8, <1>9, <1>11, <1>13
    <3>2. x.i = i
      BY <1>3, <1>8, <1>9, <2>1 DEF NextReg
    <3> QED
      BY <1>3, <2>1, <2>4, <3>1, <3>2 DEF DarwinSync
  <2> HIDE DEF s, file, off
  <2>7. Kept(r, a) /\ a.rd = s /\ Found(x.mem, a, n)
    BY <1>1, <2>2, <2>4, <2>5, TakenAt
  <2> QED
    BY <2>3, <2>6, <2>7
<1>14. Room(m) => x.size <= m.size + 8
  BY <1>3, <1>11
<1> QED
  BY <1>9, <1>10, <1>12, <1>13, <1>14 DEF x

\* A float.
LEMMA DarwinBindsFloat ==
    ASSUME NEW m, PpcLaid(m), NEW n \in Nat
    PROVE  LET x == gVT_ppc32_darwin_arg(m, "float", n)
           IN  /\ PpcLaid(x) /\ More(m, x)
               /\ Room(m) => Intact(x, n) /\ x.size <= m.size + 8
               /\ \A r \in Cursors : Room(m) /\ DarwinSync(r, m) =>
                    LET a == dcbArg_ppc32_darwin(r, "float")
                    IN  Kept(r, a) /\ DarwinSync(a.rd, x) /\ Found(x.mem, a, n)
<1> DEFINE p == Val(n, "f4")
           w == Val(n, "w8")
           y1 == FloatReg(m, w)
           y2 == IF m.f < 13 THEN y1 ELSE m
           z == IntReg(y2, 4, p)
           k == 4
           x == gVT_ppc32_darwin_arg(m, "float", n)
<1>1. /\ p \in PartOf /\ p.len = 4 /\ "f4" \in Forms /\ Bytes["f4"] = 4 /\ k \in Nat /\ p.len <= k
      /\ w \in PartOf /\ w.len = 8 /\ "w8" \in Forms /\ Bytes["w8"] = 8
  BY ValPart, FormBytes DEF Part, PartOf, Forms
<1>2. x = dcVecAppend(z, p, k)
  BY DEF gVT_ppc32_darwin_arg, dc_callvm_argFloat_ppc32_darwin
<1>3. m.i \in Nat /\ m.i <= 8 /\ m.f \in Nat /\ m.size \in Nat /\ m.copies = VecTotal /\ VecTotal \in Nat
      /\ m \in VM /\ More(m, m)
  BY VecAssumption DEF PpcLaid, Laid, VM, More
<1> HIDE DEF x, p, w, k
<1>4. /\ PpcLaid(y1) /\ More(m, y1) /\ y1.i = m.i /\ y1.f = m.f + 1 /\ y1.size = m.size
      /\ At("F", 8 * m.f, w) \in y1.mem
  BY <1>1, PpcFloatReg
<1> HIDE DEF y1
<1>5. /\ PpcLaid(y2) /\ More(m, y2) /\ y2.size = m.size /\ y2.i = m.i
      /\ m.f < 13 => y2.f = m.f + 1 /\ At("F", 8 * m.f, w) \in y2.mem
      /\ ~(m.f < 13) => y2.f = m.f
  BY <1>3, <1>4
<1> HIDE DEF y2
<1>6. PpcLaid(z) /\ More(y2, z) /\ z.i = NextReg(y2.i) /\ z.f = y2.f /\ z.size = y2.size
  BY <1>1, <1>5, PpcIntReg
<1> HIDE DEF z
<1>9. /\ PpcLaid(x) /\ More(z, x) /\ x.i = z.i /\ x.f = z.f
      /\ z.size + k <= VecTotal => x.size = z.size + k /\ At("V", z.size, p) \in x.mem
  BY <1>1, <1>2, <1>6, PpcAppend
<1>10. More(m, x)
  BY <1>5, <1>6, <1>9, PpcMore
<1>11. /\ Room(m) => x.size = m.size + 4 /\ At("V", m.size, p) \in x.mem
       /\ m.f < 13 => At("F", 8 * m.f, w) \in x.mem
  BY <1>3, <1>5, <1>6, <1>9 DEF Room, k, More
<1>12. Room(m) => Intact(x, n)
  BY <1>1, <1>3, <1>11, FoundVal DEF p
<1>13. ASSUME NEW r \in Cursors, Room(m), DarwinSync(r, m)
       PROVE  LET a == dcbArg_ppc32_darwin(r, "float")
              IN  Kept(r, a) /\ DarwinSync(a.rd, x) /\ Found(x.mem, a, n)
  <2>1. r.i = m.i /\ r.f = m.f /\ r.sp = m.size /\ (m.i = 8 \/ m.f <= m.i)
    BY <1>13 DEF DarwinSync
  <2> DEFINE i == IF m.i < 8 THEN m.i + 1 ELSE m.i
             sp == m.size + 4
             f == IF m.f < 13 THEN m.f + 1 ELSE m.f
             s == [r EXCEPT !.i = i, !.sp = sp, !.f = f]
             file == IF m.f < 13 THEN "F" ELSE "V"
             form == IF m.f < 13 THEN "w8" ELSE "f4"
             off == IF m.f < 13 THEN 8 * m.f ELSE m.size
             a == Access(s, <<Loc(file, off, Bytes[form])>>, form)
  <2>2. i \in Nat /\ sp \in Nat /\ f \in Nat /\ off \in Nat /\ form \in Forms
    BY <1>1, <1>3
  <2>3. dcbArg_ppc32_darwin(r, "float") = a
    <3>1. dcbArg_ppc32_darwin(r, "float") = darwin_dcbArgFloat(r)
      BY DEF dcbArg_ppc32_darwin
    <3>2. [r EXCEPT !.i = IF @ < 8 THEN @ + 1 ELSE @, !.sp = @ + 4] = [r EXCEPT !.i = i, !.sp = sp]
      BY <2>1
    <3> DEFINE at == [r EXCEPT !.i = i, !.sp = sp]
    <3>3. CASE m.f < 13
      <4>1. [at EXCEPT !.f = @ + 1] = s
        BY <2>1, <3>3 DEF Cursors
      <4>2. darwin_dcbArgFloat(r) = Access([at EXCEPT !.f = @ + 1], <<Loc("F", 8 * r.f, 8)>>, "w8")
        BY <2>1, <3>2, <3>3 DEF darwin_dcbArgFloat
      <4> QED
        BY <1>1, <2>1, <3>1, <3>3, <4>1, <4>2
    <3>4. CASE ~(m.f < 13)
      <4>1. at = s
        BY <2>1, <3>4 DEF Cursors
      <4>2. darwin_dcbArgFloat(r) = Access(at, <<Loc("V", r.sp, 4)>>, "f4")
        BY <2>1, <3>2, <3>4 DEF darwin_dcbArgFloat
      <4> QED
        BY <1>1, <2>1, <3>1, <3>4, <4>1, <4>2
    <3> QED
      BY <3>3, <3>4
  <2>4. Advances(r, s) /\ s.i = i /\ s.f = f /\ s.sp = sp
    <3> HIDE DEF i, sp, f
    <3> QED
      BY <2>2 DEF Advances, Cursors
  <2>5. At(file, off, Val(n, form)) \in x.mem
    BY <1>11, <1>13 DEF p, w
  <2>6. DarwinSync(s, x)
    <3> HIDE DEF s
    <3>1. x.size = sp /\ x.f = f
      BY <1>5, <1>6, <1>9, <1>11, <1>13
    <3>2. x.i = i
      BY <1>3, <1>5, <1>6, <1>9, <2>1 DEF NextReg
    <3> QED
      BY <1>3, <2>1, <2>4, <3>1, <3>2 DEF DarwinSync
  <2> HIDE DEF s, file, off, form
  <2>7. Kept(r, a) /\ a.rd = s /\ Found(x.mem, a, n)
    BY <1>1, <2>2, <2>4, <2>5, TakenAt
  <2> QED
    BY <2>3, <2>6, <2>7
<1>14. Room(m) => x.size <= m.size + 8
  BY <1>3, <1>11
<1> QED
  BY <1>9, <1>10, <1>12, <1>13, <1>14 DEF x

\* PowerPC as Darwin has it.
LEMMA DarwinBinds ==
    ASSUME NEW m, PpcLaid(m), NEW t \in Scalar, NEW n \in Nat
    PROVE  LET x == gVT_ppc32_darwin_arg(m, t, n)
           IN  /\ PpcLaid(x) /\ More(m, x)
               /\ Room(m) => Intact(x, n) /\ x.size <= m.size + 8
               /\ \A r \in Cursors : Room(m) /\ DarwinSync(r, m) =>
                    LET a == dcbArg_ppc32_darwin(r, t)
                    IN  Kept(r, a) /\ DarwinSync(a.rd, x) /\ Found(x.mem, a, n)
<1>1. CASE t = "int"
  BY <1>1, DarwinBindsInt
<1>2. CASE t = "longlong"
  BY <1>2, DarwinBindsLongLong
<1>3. CASE t = "float"
  BY <1>3, DarwinBindsFloat
<1>4. CASE t = "double"
  BY <1>4, DarwinBindsDouble
<1> QED
  BY <1>1, <1>2, <1>3, <1>4 DEF Scalar

\* 64 bit PowerPC: the registers used are those counted, and what was bound
\* belongs to the first n arguments.
P64Laid(m, n) ==
    /\ Laid(m, 0, 0, 8 * m.i, 8 * m.f) /\ m.i <= 8 /\ m.copies = VecTotal
    /\ \A e \in m.mem : e.arg <= n

\* A part of argument n, in a slot of eight bytes.
P64Part(p, n) == p \in PartOf /\ p.len <= 8 /\ p.arg = n

\* What is stored belongs to argument n.
LEMMA P64Gains ==
    ASSUME NEW m, NEW x, NEW n \in Nat, NEW file, NEW off, NEW p, P64Part(p, n),
           Gains(m, x, At(file, off, p)), \A e \in m.mem : e.arg <= n
    PROVE  \A e \in x.mem : e.arg <= n
<1>1. At(file, off, p).arg = n /\ n <= n
  BY DEF At, P64Part
<1> QED
  BY <1>1 DEF Gains

\* Eight bytes go into the next integer register, if there is one left.
LEMMA P64IntReg ==
    ASSUME NEW m, NEW n \in Nat, P64Laid(m, n), NEW p, P64Part(p, n)
    PROVE  LET x == IntReg(m, 8, p)
           IN  /\ P64Laid(x, n) /\ More(m, x) /\ x.i = NextReg(m.i) /\ x.f = m.f /\ x.size = m.size
               /\ m.i < 8 => At("I", 8 * m.i, p) \in x.mem
               /\ \A e \in x.mem : e.file = "V" => e \in m.mem
<1> DEFINE x == IntReg(m, 8, p)
           off == 8 * m.i
           nf == 8 * m.f
           top == 8 * m.i + 8
<1>1. Laid(m, 0, 0, off, nf) /\ m \in VM /\ m.i \in Nat /\ m.f \in Nat /\ m.i <= 8 /\ m.size \in Nat
      /\ m.copies = VecTotal /\ \A e \in m.mem : e.arg <= n
  BY DEF P64Laid, Laid, VM
<1>2. CASE m.i < 8
  <2>1. RegFree(off, nf, "I", off, p, top, nf) /\ off \in Nat /\ top \in Nat /\ nf \in Nat
    BY <1>1 DEF RegFree, P64Part, PartOf
  <2> HIDE DEF off, nf, top
  <2> DEFINE y == Put(m, "I", off, p)
  <2>2. /\ Laid(y, 0, 0, top, nf) /\ More(m, y) /\ SameCounts(m, y) /\ y.size = m.size
        /\ At("I", off, p) \in y.mem /\ Gains(m, y, At("I", off, p))
    BY <1>1, <2>1, StoreReg
  <2>3. x = [y EXCEPT !.i = @ + 1]
    BY <1>2 DEF IntReg, off
  <2>a. \A e \in y.mem : e.arg <= n
    BY <1>1, <2>2, P64Gains
  <2>b. \A e \in y.mem : e.file = "V" => e \in m.mem
    BY <2>2 DEF Gains, At
  <2> HIDE DEF x, y
  <2>4. Shifted(y, x) /\ x.i = y.i + 1 /\ x.size = y.size /\ x.f = y.f /\ y \in VM
    BY <2>2, <2>3 DEF Shifted, SameStore, VM, Laid
  <2>5. Laid(x, 0, 0, top, nf) /\ More(m, x)
    BY <1>1, <2>2, <2>4, MoreShifted
  <2>6. top = 8 * x.i /\ nf = 8 * x.f /\ x.i <= 8 /\ x.i = m.i + 1 /\ x.f = m.f
    BY <1>1, <1>2, <2>2, <2>4 DEF top, nf, SameCounts
  <2>7. x.mem = y.mem /\ x.copies = VecTotal
    BY <1>1, <2>4, <2>5 DEF Shifted, SameStore, More
  <2>8. P64Laid(x, n)
    BY <2>5, <2>6, <2>7, <2>a DEF P64Laid
  <2> QED
    BY <1>2, <2>2, <2>4, <2>5, <2>6, <2>7, <2>8, <2>b DEF x, off, NextReg
<1>3. CASE ~(m.i < 8)
  <2>1. x = m /\ More(m, m)
    BY <1>1, <1>3 DEF IntReg, More
  <2> QED
    BY <1>1, <1>3, <2>1 DEF NextReg
<1> QED
  BY <1>2, <1>3

\* And into the next floating point register.
LEMMA P64FloatReg ==
    ASSUME NEW m, NEW n \in Nat, P64Laid(m, n), NEW p, P64Part(p, n)
    PROVE  LET x == FloatReg(m, p)
           IN  /\ P64Laid(x, n) /\ More(m, x) /\ x.i = m.i /\ x.f = m.f + 1 /\ x.size = m.size
               /\ At("F", 8 * m.f, p) \in x.mem
               /\ \A e \in x.mem : e.file = "V" => e \in m.mem
<1> DEFINE x == FloatReg(m, p)
           ni == 8 * m.i
           off == 8 * m.f
           top == 8 * m.f + 8
           y == Put(m, "F", off, p)
<1>1. Laid(m, 0, 0, ni, off) /\ m \in VM /\ m.i \in Nat /\ m.f \in Nat /\ m.i <= 8 /\ m.size \in Nat
      /\ m.copies = VecTotal /\ \A e \in m.mem : e.arg <= n
  BY DEF P64Laid, Laid, VM
<1>2. RegFree(ni, off, "F", off, p, ni, top) /\ off \in Nat /\ top \in Nat /\ ni \in Nat
  BY <1>1 DEF RegFree, P64Part, PartOf
<1>3. x = [y EXCEPT !.f = @ + 1]
  BY DEF FloatReg
<1> HIDE DEF off, ni, top
<1>4. /\ Laid(y, 0, 0, ni, top) /\ More(m, y) /\ SameCounts(m, y) /\ y.size = m.size
      /\ At("F", off, p) \in y.mem /\ Gains(m, y, At("F", off, p))
  BY <1>1, <1>2, StoreReg
<1>a. \A e \in y.mem : e.arg <= n
  BY <1>1, <1>4, P64Gains
<1>b. \A e \in y.mem : e.file = "V" => e \in m.mem
  BY <1>4 DEF Gains, At
<1> HIDE DEF x, y
<1>5. Shifted(y, x) /\ x.f = y.f + 1 /\ x.size = y.size /\ x.i = y.i /\ y \in VM
  BY <1>3, <1>4 DEF Shifted, SameStore, VM, Laid
<1>6. Laid(x, 0, 0, ni, top) /\ More(m, x)
  BY <1>1, <1>4, <1>5, MoreShifted
<1>7. top = 8 * x.f /\ ni = 8 * x.i /\ x.i <= 8 /\ x.f = m.f + 1 /\ x.i = m.i
  BY <1>1, <1>4, <1>5 DEF top, ni, SameCounts
<1>8. x.mem = y.mem /\ x.copies = VecTotal
  BY <1>1, <1>5, <1>6 DEF Shifted, SameStore, More
<1>9. P64Laid(x, n)
  BY <1>6, <1>7, <1>8, <1>a DEF P64Laid
<1> QED
  BY <1>4, <1>5, <1>6, <1>7, <1>8, <1>9, <1>b DEF x, off

\* Eight bytes at the end of the vector, behind what is skipped.
LEMMA P64Append ==
    ASSUME NEW m, NEW n \in Nat, P64Laid(m, n), NEW p, P64Part(p, n),
           NEW y, Shifted(m, y), SameCounts(m, y)
    PROVE  LET x == dcVecAppend(y, p, 8)
           IN  /\ P64Laid(x, n) /\ More(m, x) /\ x.i = m.i /\ x.f = m.f
               /\ Gains(m, x, At("V", y.size, p))
               /\ y.size + 8 <= VecTotal => x.size = y.size + 8 /\ At("V", y.size, p) \in x.mem
<1> DEFINE k == 8
           ni == 8 * m.i
           nf == 8 * m.f
           x == dcVecAppend(y, p, k)
<1>1. Laid(m, 0, 0, ni, nf) /\ m.copies = VecTotal /\ m.i <= 8 /\ \A e \in m.mem : e.arg <= n
  BY DEF P64Laid
<1>2. Appends(y, p, k)
  BY <1>1 DEF Appends, P64Part, Shifted, SameStore
<1> HIDE DEF k, ni, nf
<1>3. /\ Laid(x, 0, 0, ni, nf) /\ More(m, x) /\ SameCounts(y, x)
      /\ Gains(m, x, At("V", y.size, p))
      /\ y.size + k <= VecTotal => x.size = y.size + k /\ At("V", y.size, p) \in x.mem
  BY <1>1, <1>2, StackMore
<1>a. \A e \in x.mem : e.arg <= n
  BY <1>1, <1>3, P64Gains
<1> HIDE DEF x
<1>4. P64Laid(x, n) /\ x.i = m.i /\ x.f = m.f
  BY <1>1, <1>3, <1>a DEF P64Laid, SameCounts, More, ni, nf
<1> QED
  BY <1>3, <1>4 DEF x, k

\* Where the next argument is pushed.
P64Top(m) == IF ElfV2(m.vt) /\ m.size = 0 THEN 64 ELSE m.size

\* Eight bytes go onto the stack.
LEMMA P64Push ==
    ASSUME NEW m, NEW n \in Nat, P64Laid(m, n), NEW p, P64Part(p, n)
    PROVE  LET x == Push(m, p)
           IN  /\ P64Laid(x, n) /\ More(m, x) /\ x.i = m.i /\ x.f = m.f
               /\ Gains(m, x, At("V", P64Top(m), p))
               /\ P64Top(m) + 8 <= VecTotal => x.size = P64Top(m) + 8 /\ At("V", P64Top(m), p) \in x.mem
               /\ ~(P64Top(m) + 8 <= VecTotal) => x.mem = m.mem
<1> DEFINE y == IF ElfV2(m.vt) /\ m.size = 0 THEN dcVecSkip(m, 64) ELSE m
<1>1. m \in VM /\ m.size \in Nat /\ 64 \in Nat
  BY DEF P64Laid, Laid, VM
<1>2. Shifted(m, y) /\ SameCounts(m, y) /\ y.size = P64Top(m)
  <2>1. CASE ElfV2(m.vt) /\ m.size = 0
    <3> DEFINE k == 64
    <3>1. k \in Nat /\ k = 64
      OBVIOUS
    <3> HIDE DEF k
    <3>2. Shifted(m, dcVecSkip(m, k)) /\ SameCounts(m, dcVecSkip(m, k)) /\ dcVecSkip(m, k).size = m.size + k
      BY <1>1, <3>1, Skipped
    <3> QED
      BY <2>1, <3>1, <3>2 DEF P64Top
  <2>2. CASE ~(ElfV2(m.vt) /\ m.size = 0)
    BY <1>1, <2>2 DEF P64Top, Shifted, SameStore, SameCounts
  <2> QED
    BY <2>1, <2>2
<1>3. Push(m, p) = dcVecAppend(y, p, 8)
  BY DEF Push
<1>5. ~(y.size + 8 <= VecTotal) => dcVecAppend(y, p, 8).mem = m.mem
  BY <1>2 DEF dcVecAppend, Shifted, SameStore
<1> HIDE DEF y
<1>4. LET x == dcVecAppend(y, p, 8)
      IN  /\ P64Laid(x, n) /\ More(m, x) /\ x.i = m.i /\ x.f = m.f
          /\ Gains(m, x, At("V", y.size, p))
          /\ y.size + 8 <= VecTotal => x.size = y.size + 8 /\ At("V", y.size, p) \in x.mem
  BY <1>2, P64Append
<1> QED
  BY <1>2, <1>3, <1>4, <1>5

\* The registers of a floating point argument.
P64Regs(m, reg) == IF m.f < 13 THEN IntReg(FloatReg(m, reg), 8, reg) ELSE m

\* A floating point argument in registers of both kinds.
LEMMA P64FloatRegs ==
    ASSUME NEW m, NEW n \in Nat, P64Laid(m, n), NEW p, P64Part(p, n)
    PROVE  LET x == P64Regs(m, p)
           IN  /\ P64Laid(x, n) /\ More(m, x) /\ x.size = m.size /\ x.vt = m.vt
               /\ x.i = (IF m.f < 13 THEN NextReg(m.i) ELSE m.i)
               /\ x.f = (IF m.f < 13 THEN m.f + 1 ELSE m.f)
               /\ m.f < 13 => At("F", 8 * m.f, p) \in x.mem
               /\ m.f < 13 /\ m.i < 8 => At("I", 8 * m.i, p) \in x.mem
               /\ \A e \in x.mem : e.file = "V" => e \in m.mem
<1> DEFINE y == FloatReg(m, p)
           z == IntReg(y, 8, p)
           x == P64Regs(m, p)
<1>0. m \in VM /\ More(m, m)
  BY DEF P64Laid, Laid, More, VM
<1>1. CASE m.f < 13
  <2>1. x = z
    BY <1>1 DEF P64Regs
  <2>2. /\ P64Laid(y, n) /\ More(m, y) /\ y.i = m.i /\ y.f = m.f + 1 /\ y.size = m.size
        /\ At("F", 8 * m.f, p) \in y.mem
        /\ \A e \in y.mem : e.file = "V" => e \in m.mem
    BY P64FloatReg
  <2> HIDE DEF x, y
  <2>3. /\ P64Laid(z, n) /\ More(y, z) /\ z.i = NextReg(y.i) /\ z.f = y.f /\ z.size = y.size
        /\ y.i < 8 => At("I", 8 * y.i, p) \in z.mem
        /\ \A e \in z.mem : e.file = "V" => e \in y.mem
    BY <2>2, P64IntReg
  <2> HIDE DEF z
  <2>4. More(m, z)
    BY <1>0, <2>2, <2>3, MoreTwice
  <2>5. z.vt = m.vt /\ At("F", 8 * m.f, p) \in z.mem
    BY <2>2, <2>3, <2>4 DEF More
  <2> QED
    BY <1>1, <2>1, <2>2, <2>3, <2>4, <2>5 DEF x
<1>2. CASE ~(m.f < 13)
  <2>1. x = m
    BY <1>2 DEF P64Regs
  <2> QED
    BY <1>0, <1>2, <2>1
<1> QED
  BY <1>1, <1>2

\* A floating point argument: in registers, on the stack or both.
LEMMA P64Double ==
    ASSUME NEW m, NEW n \in Nat, P64Laid(m, n), NEW reg, P64Part(reg, n), NEW p, P64Part(p, n)
    PROVE  LET x == dc_callvm_argDouble_ppc64(m, reg, p)
               apart == m.f < 13 /\ m.i < 8 /\ ElfV2(m.vt)
           IN  /\ P64Laid(x, n) /\ More(m, x)
               /\ x.i = (IF m.f < 13 THEN NextReg(m.i) ELSE m.i)
               /\ x.f = (IF m.f < 13 THEN m.f + 1 ELSE m.f)
               /\ m.f < 13 => At("F", 8 * m.f, reg) \in x.mem
               /\ apart => x.size = m.size
               /\ ~apart /\ Room(m) => x.size = P64Top(m) + 8 /\ At("V", P64Top(m), p) \in x.mem
<1> DEFINE x == dc_callvm_argDouble_ppc64(m, reg, p)
           z == P64Regs(m, reg)
           apart == m.f < 13 /\ m.i < 8 /\ ElfV2(m.vt)
<1>0. m \in VM /\ m.size \in Nat /\ m.copies = VecTotal /\ VecTotal \in Nat
  BY VecAssumption DEF P64Laid, Laid, VM
<1>1. x = IF apart THEN z ELSE Push(z, p)
  BY DEF dc_callvm_argDouble_ppc64, P64Regs
<1>2. /\ P64Laid(z, n) /\ More(m, z) /\ z.size = m.size /\ z.vt = m.vt
      /\ z.i = (IF m.f < 13 THEN NextReg(m.i) ELSE m.i)
      /\ z.f = (IF m.f < 13 THEN m.f + 1 ELSE m.f)
      /\ m.f < 13 => At("F", 8 * m.f, reg) \in z.mem
  BY P64FloatRegs
<1> HIDE DEF x, z, apart
<1>3. /\ P64Laid(Push(z, p), n) /\ More(z, Push(z, p)) /\ Push(z, p).i = z.i /\ Push(z, p).f = z.f
      /\ P64Top(z) + 8 <= VecTotal => /\ Push(z, p).size = P64Top(z) + 8
                                      /\ At("V", P64Top(z), p) \in Push(z, p).mem
  BY <1>2, P64Push
<1>4. P64Top(z) = P64Top(m)
  BY <1>2 DEF P64Top
<1>5. Room(m) => P64Top(m) + 8 <= VecTotal
  BY <1>0 DEF Room, P64Top
<1>6. CASE apart
  BY <1>1, <1>2, <1>6 DEF x, apart
<1>7. CASE ~apart
  <2>1. x = Push(z, p)
    BY <1>1, <1>7
  <2>2. More(m, x)
    BY <1>0, <1>2, <1>3, <2>1, MoreTwice
  <2>3. m.f < 13 => At("F", 8 * m.f, reg) \in x.mem
    BY <1>2, <1>3, <2>1 DEF More
  <2> QED
    BY <1>2, <1>3, <1>4, <1>5, <1>7, <2>1, <2>2, <2>3 DEF x, apart
<1> QED
  BY <1>6, <1>7

\* A float, which is right justified in the slot of a big endian stack.
LEMMA P64Float ==
    ASSUME NEW m, NEW n \in Nat, P64Laid(m, n), \A e \in m.mem : e.arg < n
    PROVE  LET x == dc_callvm_argFloat_ppc64(m, n)
               apart == m.f < 13 /\ m.i < 8 /\ ElfV2(m.vt)
               off == IF ElfV2(m.vt) THEN P64Top(m) ELSE m.size + 4
           IN  /\ P64Laid(x, n) /\ More(m, x)
               /\ x.i = (IF m.f < 13 THEN NextReg(m.i) ELSE m.i)
               /\ x.f = (IF m.f < 13 THEN m.f + 1 ELSE m.f)
               /\ m.f < 13 => At("F", 8 * m.f, Val(n, "w8")) \in x.mem
               /\ apart => x.size = m.size
               /\ ~apart /\ Room(m) => x.size = P64Top(m) + 8 /\ At("V", off, Val(n, "f4")) \in x.mem
<1> DEFINE x == dc_callvm_argFloat_ppc64(m, n)
           reg == Val(n, "w8")
           p == Val(n, "f4")
           pushed == dc_callvm_argDouble_ppc64(m, reg, p)
           z == P64Regs(m, reg)
           apart == m.f < 13 /\ m.i < 8 /\ ElfV2(m.vt)
           move(e) == IF e.file = "V" /\ e.arg = n /\ ~ElfV2(m.vt) THEN [e EXCEPT !.off = @ + 4] ELSE e
           mem == {move(e) : e \in pushed.mem}
<1>0. m \in VM /\ m.size \in Nat /\ m.i \in Nat /\ m.f \in Nat /\ m.copies = VecTotal /\ VecTotal \in Nat
      /\ \A e \in m.mem : e \in Entry
  BY VecAssumption DEF P64Laid, Laid, VM
<1>1. /\ reg \in PartOf /\ reg.len = 8 /\ p \in PartOf /\ p.len = 4 /\ P64Part(reg, n) /\ P64Part(p, n)
      /\ p.arg = n /\ "f4" \in Forms /\ "w8" \in Forms
  BY ValPart, FormBytes DEF Forms, P64Part
<1>2. x = [pushed EXCEPT !.mem = mem]
  <2> DEFINE moved == [e \in pushed.mem |-> move(e)]
  <2>1. x = [pushed EXCEPT !.mem = {moved[e] : e \in pushed.mem}]
    BY DEF dc_callvm_argFloat_ppc64
  <2>2. {moved[e] : e \in pushed.mem} = mem
    <3> HIDE DEF move, pushed
    <3> QED
      OBVIOUS
  <2> HIDE DEF moved, mem, pushed, x
  <2> QED
    BY <2>1, <2>2
<1> HIDE DEF reg, p
<1>3. /\ P64Laid(pushed, n) /\ More(m, pushed)
      /\ pushed.i = (IF m.f < 13 THEN NextReg(m.i) ELSE m.i)
      /\ pushed.f = (IF m.f < 13 THEN m.f + 1 ELSE m.f)
      /\ m.f < 13 => At("F", 8 * m.f, reg) \in pushed.mem
      /\ apart => pushed.size = m.size
      /\ ~apart /\ Room(m) => pushed.size = P64Top(m) + 8 /\ At("V", P64Top(m), p) \in pushed.mem
  BY <1>1, P64Double
<1>p. pushed = IF apart THEN z ELSE Push(z, p)
  BY DEF dc_callvm_argDouble_ppc64, P64Regs
<1>v. pushed \in VM
  BY <1>3 DEF More
<1> HIDE DEF pushed, x
<1>4. CASE ElfV2(m.vt)
  <2>1. mem = pushed.mem
    BY <1>4
  <2>2. x = pushed
    BY <1>2, <1>v, <2>1 DEF VM
  <2> HIDE DEF mem, apart
  <2> QED
    BY <1>3, <1>4, <2>2 DEF x, reg, p, apart
<1>5. CASE ~ElfV2(m.vt)
  <2>1. ~apart /\ pushed = Push(z, p) /\ P64Top(m) = m.size
    BY <1>5, <1>p DEF P64Top
  <2>2. /\ P64Laid(z, n) /\ More(m, z) /\ z.size = m.size /\ z.vt = m.vt
        /\ z.i = (IF m.f < 13 THEN NextReg(m.i) ELSE m.i)
        /\ z.f = (IF m.f < 13 THEN m.f + 1 ELSE m.f)
        /\ m.f < 13 => At("F", 8 * m.f, reg) \in z.mem
        /\ \A e \in z.mem : e.file = "V" => e \in m.mem
    BY <1>1, P64FloatRegs
  <2> HIDE DEF z
  <2>3. P64Top(z) = m.size
    BY <1>5, <2>2 DEF P64Top
  <2> DEFINE g == At("V", m.size, p)
             h == At("V", m.size + 4, p)
  <2>4. /\ More(z, pushed) /\ pushed.i = z.i /\ pushed.f = z.f
        /\ Gains(z, pushed, g)
        /\ m.size + 8 <= VecTotal => pushed.size = m.size + 8 /\ g \in pushed.mem
        /\ ~(m.size + 8 <= VecTotal) => pushed.mem = z.mem
    BY <1>1, <2>1, <2>2, <2>3, P64Push
  <2>5. \A e \in z.mem : move(e) = e
    <3> SUFFICES ASSUME NEW e \in z.mem, e.file = "V", e.arg = n PROVE FALSE
      OBVIOUS
    <3>1. e \in m.mem /\ e.arg < n
      BY <2>2
    <3> QED
      BY <3>1
  <2>6. move(g) = h
    BY <1>0, <1>1, <1>5 DEF At, Entry
  <2> HIDE DEF g, h, move
  <2>7. CASE m.size + 8 <= VecTotal
    <3>1. pushed.mem = z.mem \cup {g}
      BY <2>4, <2>7 DEF Gains, More
    <3>2. mem = z.mem \cup {h}
      BY <2>5, <2>6, <3>1
    <3> DEFINE off == m.size + 4
               top == m.size + 8
               ni == 8 * z.i
               nf == 8 * z.f
               y == PutVec(z, off, p, top)
    <3>3. VecFree(z, 0, 0, off, p, 0, top) /\ Laid(z, 0, 0, ni, nf)
      BY <1>0, <1>1, <2>2, <2>7 DEF VecFree, P64Laid
    <3> HIDE DEF off, top, ni, nf
    <3>4. /\ Laid(y, 0, 0, ni, nf) /\ More(z, y) /\ y.size = top
          /\ At("V", off, p) \in y.mem /\ Gains(z, y, At("V", off, p))
      BY <3>3, StoreVec
    <3>5. y.mem = z.mem \cup {h} /\ y \in VM /\ y.copies = VecTotal
      BY <2>2, <3>4 DEF Gains, More, P64Laid, off, h
    <3> HIDE DEF y, mem
    <3>6. x.mem = y.mem /\ x.size = top /\ x \in VM /\ x.i = z.i /\ x.f = z.f
          /\ x.copies = VecTotal /\ x.vt = z.vt /\ x.hid = z.hid
      BY <1>2, <1>3, <1>v, <2>4, <2>7, <3>2, <3>5 DEF VM, top, More, P64Laid
    <3>7. SameStore(y, x) /\ ni \in Nat /\ nf \in Nat /\ ni <= ni /\ nf <= nf
      BY <3>4, <3>5, <3>6 DEF SameStore, VM, Laid
    <3>8. Laid(x, 0, 0, ni, nf)
      BY <3>4, <3>7, Recount
    <3>9. \A e \in x.mem : e.arg <= n
      <4>1. h.arg = n /\ n <= n
        BY <1>1 DEF h, At
      <4> QED
        BY <2>2, <3>5, <3>6, <4>1 DEF P64Laid
    <3>10. P64Laid(x, n)
      BY <2>2, <3>6, <3>8, <3>9 DEF P64Laid, ni, nf
    <3>11. More(m, x)
      <4>1. m.mem \subseteq x.mem
        BY <2>2, <3>5, <3>6 DEF More
      <4>2. x.size >= m.size
        BY <1>0, <3>6 DEF top
      <4> QED
        BY <1>0, <2>2, <3>6, <4>1, <4>2 DEF More
    <3>12. m.f < 13 => At("F", 8 * m.f, reg) \in x.mem
      BY <2>2, <3>5, <3>6
    <3>13. At("V", m.size + 4, p) \in x.mem /\ x.size = m.size + 8
      BY <3>5, <3>6 DEF h, top
    <3> HIDE DEF apart
    <3> QED
      BY <1>5, <2>1, <2>2, <3>6, <3>10, <3>11, <3>12, <3>13 DEF x, reg, p, apart
  <2>8. CASE ~(m.size + 8 <= VecTotal)
    <3>1. mem = pushed.mem
      BY <2>4, <2>5, <2>8
    <3>2. x = pushed
      BY <1>2, <1>v, <3>1 DEF VM
    <3>3. ~Room(m)
      BY <1>0, <2>8 DEF Room
    <3> HIDE DEF mem, apart
    <3> QED
      BY <1>3, <3>2, <3>3 DEF x, reg, p, apart
  <2> QED
    BY <2>7, <2>8
<1> QED
  BY <1>4, <1>5

\* An access that finds argument n, in a memory where no two extents overlap,
\* yields n.
LEMMA LoadedFound ==
    ASSUME NEW mem, Disjoint(mem), NEW a, NEW n, NEW len \in Nat, n \in 1..len, Found(mem, a, n),
           \A e \in mem : e \in Entry
    PROVE  Loaded(mem, a, len) = n
<1> DEFINE from(k) == IF k = 1 THEN 0 ELSE a.at[1].len
           ok == {m \in 1..len : \A k \in DOMAIN a.at : Holds(mem, a.at[k], m, a.form, from(k))}
<1>1. n \in ok
  BY DEF Found
<1>2. ASSUME NEW m \in ok PROVE m = n
  <2>1. Holds(mem, a.at[1], m, a.form, 0) /\ Holds(mem, a.at[1], n, a.form, 0)
    BY <1>1, <1>2 DEF Found
  <2>2. PICK e \in mem : /\ e.file = a.at[1].file /\ e.off <= a.at[1].off
                         /\ a.at[1].off + a.at[1].len <= e.off + e.len /\ e.arg = m
    BY <2>1 DEF Holds
  <2>3. PICK g \in mem : /\ g.file = a.at[1].file /\ g.off <= a.at[1].off
                         /\ a.at[1].off + a.at[1].len <= g.off + g.len /\ g.arg = n
    BY <2>1 DEF Holds
  <2>4. a.at[1].off \in Nat /\ a.at[1].len \in Nat \ {0}
    BY DEF Found
  <2>5. e.off \in Nat /\ e.len \in Nat /\ g.off \in Nat /\ g.len \in Nat
    BY DEF Entry
  <2>6. Overlap(e, g)
    <3> DEFINE o == a.at[1].off
               l == a.at[1].len
    <3>1. o \in Nat /\ l \in Nat \ {0} /\ e.off <= o /\ o + l <= e.off + e.len
          /\ g.off <= o /\ o + l <= g.off + g.len
      BY <2>2, <2>3, <2>4
    <3> HIDE DEF o, l
    <3>2. e.off < g.off + g.len /\ g.off < e.off + e.len
      BY <2>5, <3>1
    <3> QED
      BY <2>2, <2>3, <3>2 DEF Overlap
  <2> QED
    BY <2>2, <2>3, <2>6 DEF Disjoint
<1>3. Loaded(mem, a, len) = IF ok = {} THEN 0 ELSE CHOOSE m \in ok : TRUE
  BY DEF Loaded
<1> HIDE DEF ok
<1> QED
  BY <1>1, <1>2, <1>3

\* What is found stays found.
LEMMA FoundMore ==
    ASSUME NEW mem, NEW more, mem \subseteq more, NEW a, NEW n, Found(mem, a, n)
    PROVE  Found(more, a, n)
<1>1. ASSUME NEW l, NEW form, NEW from, Holds(mem, l, n, form, from) PROVE Holds(more, l, n, form, from)
  BY <1>1 DEF Holds
<1> QED
  BY <1>1 DEF Found

\* What is whole stays whole.
LEMMA IntactMore ==
    ASSUME NEW m, NEW x, m.mem \subseteq x.mem, NEW n, Intact(m, n)
    PROVE  Intact(x, n)
  BY DEF Intact

\* A 64 bit PowerPC callback takes next what is bound next: its place on the stack
\* counts the general registers too, which version 2 of the ABI leaves out until
\* they are used up.
P64Sync(r, m) ==
    /\ r.i = m.i /\ r.f = m.f
    /\ ~ElfV2(m.vt) => r.sp = m.size
    /\ ElfV2(m.vt) => /\ m.size = 0 => r.sp = 8 * m.i
                      /\ m.size > 0 => r.sp = m.size /\ m.i = 8
                      /\ m.i < 8 => m.f <= m.i

\* An integer: in a register, on the stack or both.
LEMMA P64Int ==
    ASSUME NEW m, NEW n \in Nat, P64Laid(m, n), NEW p, P64Part(p, n)
    PROVE  LET x == dc_callvm_argLongLong_ppc64(m, p)
               apart == m.i < 8 /\ ElfV2(m.vt)
           IN  /\ P64Laid(x, n) /\ More(m, x) /\ x.i = NextReg(m.i) /\ x.f = m.f
               /\ m.i < 8 => At("I", 8 * m.i, p) \in x.mem
               /\ apart => x.size = m.size
               /\ ~apart /\ Room(m) => x.size = P64Top(m) + 8 /\ At("V", P64Top(m), p) \in x.mem
<1> DEFINE x == dc_callvm_argLongLong_ppc64(m, p)
           z == IntReg(m, 8, p)
           apart == m.i < 8 /\ ElfV2(m.vt)
<1>0. m \in VM /\ m.size \in Nat /\ m.copies = VecTotal /\ VecTotal \in Nat
  BY VecAssumption DEF P64Laid, Laid, VM
<1>1. x = IF apart THEN z ELSE Push(z, p)
  BY DEF dc_callvm_argLongLong_ppc64
<1>2. /\ P64Laid(z, n) /\ More(m, z) /\ z.size = m.size /\ z.i = NextReg(m.i) /\ z.f = m.f
      /\ m.i < 8 => At("I", 8 * m.i, p) \in z.mem
  BY P64IntReg
<1>3. z.vt = m.vt
  BY <1>2 DEF More
<1> HIDE DEF x, z, apart
<1>4. /\ P64Laid(Push(z, p), n) /\ More(z, Push(z, p)) /\ Push(z, p).i = z.i /\ Push(z, p).f = z.f
      /\ P64Top(z) + 8 <= VecTotal => /\ Push(z, p).size = P64Top(z) + 8
                                      /\ At("V", P64Top(z), p) \in Push(z, p).mem
  BY <1>2, P64Push
<1>5. P64Top(z) = P64Top(m)
  BY <1>2, <1>3 DEF P64Top
<1>6. Room(m) => P64Top(m) + 8 <= VecTotal
  BY <1>0 DEF Room, P64Top
<1>7. CASE apart
  BY <1>1, <1>2, <1>7 DEF x, apart
<1>8. CASE ~apart
  <2>1. x = Push(z, p)
    BY <1>1, <1>8
  <2>2. More(m, x)
    BY <1>0, <1>2, <1>4, <2>1, MoreTwice
  <2>3. m.i < 8 => At("I", 8 * m.i, p) \in x.mem
    BY <1>2, <1>4, <2>1 DEF More
  <2> QED
    BY <1>2, <1>4, <1>5, <1>6, <1>8, <2>1, <2>2, <2>3 DEF x, apart
<1> QED
  BY <1>7, <1>8

\* One step of both sides; in apart, the argument takes no slot on the stack.
P64Stepped(m, x, r, q, apart) ==
    /\ m \in VM /\ x \in VM /\ r \in Cursors /\ q \in Cursors /\ x.vt = m.vt /\ m.i <= 8
    /\ apart => m.i < 8 /\ ElfV2(m.vt) /\ x.size = m.size
    /\ ~apart => x.size = P64Top(m) + 8 /\ ~(ElfV2(m.vt) /\ m.i < 8)
    /\ x.i = NextReg(m.i) \/ (x.i = m.i /\ (ElfV2(m.vt) => m.i = 8))
    /\ x.f = m.f \/ x.f = m.f + 1
    /\ q.i = x.i /\ q.f = x.f /\ q.sp = r.sp + 8

\* A callback stays in step.
LEMMA P64Steps ==
    ASSUME NEW m, NEW x, NEW r, NEW q, NEW apart \in BOOLEAN, P64Stepped(m, x, r, q, apart), P64Sync(r, m)
    PROVE  P64Sync(q, x) /\ (m.i = 8 \/ ~ElfV2(m.vt) => r.sp = P64Top(m))
<1>1. /\ m.i \in Nat /\ m.f \in Nat /\ m.size \in Nat /\ x.size \in Nat /\ x.i \in Nat /\ x.f \in Nat
      /\ r.sp \in Nat /\ q.sp \in Nat
  BY DEF VM, Cursors, P64Stepped
<1>2. CASE ~ElfV2(m.vt)
  BY <1>1, <1>2 DEF P64Sync, P64Top, P64Stepped
<1>3. CASE ElfV2(m.vt) /\ m.i < 8
  BY <1>1, <1>3 DEF P64Sync, P64Top, NextReg, P64Stepped
<1>4. CASE ElfV2(m.vt) /\ m.i = 8
  BY <1>1, <1>4 DEF P64Sync, P64Top, NextReg, P64Stepped
<1> QED
  BY <1>1, <1>2, <1>3, <1>4 DEF P64Stepped

\* The callback takes an integer.
LEMMA P64WordTaken ==
    ASSUME NEW r, r \in Cursors, r.i <= 8
    PROVE  \E q : /\ ppc64_dcbArgLongLong(r)
                       = Access(q, <<IF r.i < 8 THEN Loc("I", 8 * r.i, 8) ELSE Loc("V", r.sp, 8)>>, "i8")
                  /\ Advances(r, q) /\ q.i = NextReg(r.i) /\ q.f = r.f /\ q.sp = r.sp + 8
<1> DEFINE i == IF r.i < 8 THEN r.i + 1 ELSE r.i
           sp == r.sp + 8
           q == [r EXCEPT !.i = i, !.sp = sp]
<1>1. i \in Nat /\ i = NextReg(r.i) /\ sp \in Nat
  BY DEF Cursors, NextReg
<1>2. ppc64_dcbArgLongLong(r)
        = Access(q, <<IF r.i < 8 THEN Loc("I", 8 * r.i, 8) ELSE Loc("V", r.sp, 8)>>, "i8")
  BY DEF ppc64_dcbArgLongLong
<1> HIDE DEF i, sp
<1>3. Advances(r, q) /\ q.i = NextReg(r.i) /\ q.f = r.f /\ q.sp = sp
  BY <1>1 DEF Advances, Cursors
<1> HIDE DEF q
<1> QED
  BY <1>2, <1>3 DEF sp

\* The callback takes a floating point argument.
LEMMA P64FloatTaken ==
    ASSUME NEW r, r \in Cursors, r.i <= 8, NEW reg, NEW at, NEW form
    PROVE  \E q : /\ ppc64_dcbArgDouble(r, reg, at, form)
                       = IF r.f < 13 THEN Access(q, <<Loc("F", 8 * r.f, 8)>>, reg)
                         ELSE Access(q, <<Loc("V", at, Bytes[form])>>, form)
                  /\ Advances(r, q) /\ q.sp = r.sp + 8
                  /\ q.i = (IF r.f < 13 THEN NextReg(r.i) ELSE r.i)
                  /\ q.f = (IF r.f < 13 THEN r.f + 1 ELSE r.f)
<1> DEFINE i == IF r.i < 8 THEN r.i + 1 ELSE r.i
           f == r.f + 1
           sp == r.sp + 8
<1>1. i \in Nat /\ i = NextReg(r.i) /\ sp \in Nat /\ f \in Nat
  BY DEF Cursors, NextReg
<1>2. CASE r.f < 13
  <2> DEFINE q == [r EXCEPT !.f = f, !.i = i, !.sp = sp]
  <2>1. ppc64_dcbArgDouble(r, reg, at, form) = Access(q, <<Loc("F", 8 * r.f, 8)>>, reg)
    BY <1>2 DEF ppc64_dcbArgDouble
  <2> HIDE DEF i, f, sp
  <2>2. Advances(r, q) /\ q.i = i /\ q.f = f /\ q.sp = sp
    BY <1>1 DEF Advances, Cursors
  <2> HIDE DEF q
  <2> QED
    BY <1>1, <1>2, <2>1, <2>2 DEF sp, f
<1>3. CASE ~(r.f < 13)
  <2> DEFINE q == [r EXCEPT !.sp = sp]
  <2>1. ppc64_dcbArgDouble(r, reg, at, form) = Access(q, <<Loc("V", at, Bytes[form])>>, form)
    BY <1>3 DEF ppc64_dcbArgDouble
  <2> HIDE DEF sp
  <2>2. Advances(r, q) /\ q.i = r.i /\ q.f = r.f /\ q.sp = sp
    BY <1>1 DEF Advances, Cursors
  <2> HIDE DEF q
  <2> QED
    BY <1>1, <1>3, <2>1, <2>2 DEF sp
<1> QED
  BY <1>2, <1>3

\* Binding an integer.
LEMMA P64BindsInt ==
    ASSUME NEW m, NEW n \in Nat, P64Laid(m, n), Room(m), NEW t \in {"int", "longlong"}
    PROVE  LET x == gVT_ppc64_arg(m, t, n)
           IN  /\ P64Laid(x, n) /\ More(m, x) /\ Intact(x, n)
               /\ \A r \in Cursors : P64Sync(r, m) =>
                    LET a == dcbArg_ppc64(r, t)
                    IN  Kept(r, a) /\ P64Sync(a.rd, x) /\ Found(x.mem, a, n)
<1> DEFINE p == Val(n, "i8")
           x == gVT_ppc64_arg(m, t, n)
           apart == m.i < 8 /\ ElfV2(m.vt)
<1>0. m \in VM /\ m.i \in Nat /\ m.i <= 8 /\ m.size \in Nat /\ "i8" \in Forms /\ Bytes["i8"] = 8
  BY FormBytes DEF P64Laid, Laid, VM, Forms
<1>1. P64Part(p, n) /\ x = dc_callvm_argLongLong_ppc64(m, p)
  BY <1>0, ValPart DEF P64Part, gVT_ppc64_arg
<1> HIDE DEF x, p
<1>2. /\ P64Laid(x, n) /\ More(m, x) /\ x.i = NextReg(m.i) /\ x.f = m.f
      /\ m.i < 8 => At("I", 8 * m.i, p) \in x.mem
      /\ apart => x.size = m.size
      /\ ~apart => x.size = P64Top(m) + 8 /\ At("V", P64Top(m), p) \in x.mem
  BY <1>1, P64Int
<1>3. P64Top(m) \in Nat /\ 8 * m.i \in Nat /\ x \in VM /\ x.vt = m.vt /\ apart \in BOOLEAN
  BY <1>0, <1>2 DEF P64Top, More
<1>4. Intact(x, n)
  <2>1. CASE m.i < 8
    <3> DEFINE off == 8 * m.i
    <3>1. off \in Nat /\ At("I", off, Val(n, "i8")) \in x.mem
      BY <1>2, <1>3, <2>1 DEF p
    <3> HIDE DEF off
    <3> QED
      BY <1>0, <3>1, FoundVal
  <2>2. CASE ~(m.i < 8)
    BY <1>0, <1>2, <1>3, <2>2, FoundVal DEF p
  <2> QED
    BY <2>1, <2>2
<1>5. ASSUME NEW r \in Cursors, P64Sync(r, m)
      PROVE  LET a == dcbArg_ppc64(r, t)
             IN  Kept(r, a) /\ P64Sync(a.rd, x) /\ Found(x.mem, a, n)
  <2>0. r.i = m.i /\ r.f = m.f /\ dcbArg_ppc64(r, t) = ppc64_dcbArgLongLong(r)
    BY <1>5 DEF P64Sync, dcbArg_ppc64
  <2>1. PICK q : /\ ppc64_dcbArgLongLong(r)
                      = Access(q, <<IF r.i < 8 THEN Loc("I", 8 * r.i, 8) ELSE Loc("V", r.sp, 8)>>, "i8")
                 /\ Advances(r, q) /\ q.i = NextReg(r.i) /\ q.f = r.f /\ q.sp = r.sp + 8
    BY <1>0, <2>0, P64WordTaken
  <2>2. P64Stepped(m, x, r, q, apart)
    BY <1>0, <1>2, <1>3, <2>0, <2>1 DEF P64Stepped, Advances
  <2> HIDE DEF apart
  <2>3. P64Sync(q, x) /\ (m.i = 8 \/ ~ElfV2(m.vt) => r.sp = P64Top(m))
    BY <1>3, <1>5, <2>2, P64Steps
  <2> DEFINE file == IF r.i < 8 THEN "I" ELSE "V"
             off == IF r.i < 8 THEN 8 * r.i ELSE r.sp
  <2>4. /\ ppc64_dcbArgLongLong(r) = Access(q, <<Loc(file, off, 8)>>, "i8")
        /\ off \in Nat
        /\ At(file, off, Val(n, "i8")) \in x.mem
    BY <1>0, <1>2, <1>3, <2>0, <2>1, <2>3 DEF apart, p
  <2> HIDE DEF file, off
  <2>5. LET a == Access(q, <<Loc(file, off, Bytes["i8"])>>, "i8")
        IN  Kept(r, a) /\ a.rd = q /\ Found(x.mem, a, n)
    BY <1>0, <2>1, <2>4, TakenAt
  <2> QED
    BY <1>0, <2>0, <2>3, <2>4, <2>5
<1> HIDE DEF apart
<1> QED
  BY <1>2, <1>4, <1>5 DEF x

\* A floating point argument, in the form reg in registers and form at offset at of
\* the stack.
P64Floats(m, x, n, reg, at, form) ==
    /\ P64Laid(x, n) /\ More(m, x)
    /\ x.i = (IF m.f < 13 THEN NextReg(m.i) ELSE m.i)
    /\ x.f = (IF m.f < 13 THEN m.f + 1 ELSE m.f)
    /\ m.f < 13 => At("F", 8 * m.f, Val(n, reg)) \in x.mem
    /\ m.f < 13 /\ m.i < 8 /\ ElfV2(m.vt) => x.size = m.size
    /\ ~(m.f < 13 /\ m.i < 8 /\ ElfV2(m.vt)) => x.size = P64Top(m) + 8 /\ At("V", at, Val(n, form)) \in x.mem
    /\ at \in Nat /\ reg \in {"f8", "w8"} /\ form \in {"f4", "f8"}

\* Binding a floating point argument.
LEMMA P64BindsFloat ==
    ASSUME NEW m, NEW n \in Nat, P64Laid(m, n), NEW x, NEW reg, NEW at, NEW form,
           P64Floats(m, x, n, reg, at, form)
    PROVE  /\ Intact(x, n)
           /\ \A r \in Cursors : P64Sync(r, m) =>
                LET a == ppc64_dcbArgDouble(r, reg, (at - P64Top(m)) + r.sp, form)
                IN  Kept(r, a) /\ P64Sync(a.rd, x) /\ Found(x.mem, a, n)
<1> DEFINE apart == m.f < 13 /\ m.i < 8 /\ ElfV2(m.vt)
<1>0. /\ m \in VM /\ m.i \in Nat /\ m.i <= 8 /\ m.size \in Nat /\ m.f \in Nat /\ reg \in Forms /\ form \in Forms
      /\ Bytes[reg] = 8
  BY FormBytes DEF P64Laid, Laid, VM, Forms, P64Floats
<1>1. P64Top(m) \in Nat /\ 8 * m.f \in Nat /\ x \in VM /\ x.vt = m.vt /\ apart \in BOOLEAN /\ at \in Nat
  BY <1>0 DEF P64Top, More, P64Floats
<1>2. Intact(x, n)
  <2>1. CASE m.f < 13
    <3> DEFINE off == 8 * m.f
    <3>1. off \in Nat /\ At("F", off, Val(n, reg)) \in x.mem
      BY <1>1, <2>1 DEF P64Floats
    <3> HIDE DEF off
    <3> QED
      BY <1>0, <3>1, FoundVal
  <2>2. CASE ~(m.f < 13)
    BY <1>0, <1>1, <2>2, FoundVal DEF P64Floats
  <2> QED
    BY <2>1, <2>2
<1>3. ASSUME NEW r \in Cursors, P64Sync(r, m)
      PROVE  LET a == ppc64_dcbArgDouble(r, reg, (at - P64Top(m)) + r.sp, form)
             IN  Kept(r, a) /\ P64Sync(a.rd, x) /\ Found(x.mem, a, n)
  <2> DEFINE there == (at - P64Top(m)) + r.sp
  <2>0. r.i = m.i /\ r.f = m.f /\ r.sp \in Nat /\ (ElfV2(m.vt) /\ m.i < 8 => m.f < 13)
    BY <1>0, <1>3 DEF P64Sync, Cursors
  <2> HIDE DEF there
  <2>1. PICK q : /\ ppc64_dcbArgDouble(r, reg, there, form)
                      = IF r.f < 13 THEN Access(q, <<Loc("F", 8 * r.f, 8)>>, reg)
                        ELSE Access(q, <<Loc("V", there, Bytes[form])>>, form)
                 /\ Advances(r, q) /\ q.sp = r.sp + 8
                 /\ q.i = (IF r.f < 13 THEN NextReg(r.i) ELSE r.i)
                 /\ q.f = (IF r.f < 13 THEN r.f + 1 ELSE r.f)
    BY <1>0, <2>0, P64FloatTaken
  <2>2. P64Stepped(m, x, r, q, apart)
    BY <1>0, <1>1, <2>0, <2>1 DEF P64Stepped, Advances, P64Floats
  <2>3. P64Sync(q, x) /\ (m.i = 8 \/ ~ElfV2(m.vt) => r.sp = P64Top(m))
    <3> HIDE DEF apart
    <3> QED
      BY <1>1, <1>3, <2>2, P64Steps
  <2>4. CASE m.f < 13
    <3> DEFINE off == 8 * m.f
    <3>1. off \in Nat /\ At("F", off, Val(n, reg)) \in x.mem
          /\ ppc64_dcbArgDouble(r, reg, there, form) = Access(q, <<Loc("F", off, Bytes[reg])>>, reg)
      BY <1>0, <1>1, <2>0, <2>1, <2>4 DEF P64Floats
    <3> HIDE DEF off, apart
    <3>2. LET a == Access(q, <<Loc("F", off, Bytes[reg])>>, reg)
          IN  Kept(r, a) /\ a.rd = q /\ Found(x.mem, a, n)
      BY <1>0, <2>1, <3>1, TakenAt
    <3> QED
      BY <2>3, <3>1, <3>2 DEF there
  <2>5. CASE ~(m.f < 13)
    <3>1. r.sp = P64Top(m)
      BY <1>0, <2>0, <2>3, <2>5
    <3>2. there = at /\ At("V", at, Val(n, form)) \in x.mem
          /\ ppc64_dcbArgDouble(r, reg, there, form) = Access(q, <<Loc("V", at, Bytes[form])>>, form)
      BY <1>1, <2>0, <2>1, <2>5, <3>1 DEF P64Floats, there
    <3> HIDE DEF apart
    <3>3. LET a == Access(q, <<Loc("V", at, Bytes[form])>>, form)
          IN  Kept(r, a) /\ a.rd = q /\ Found(x.mem, a, n)
      BY <1>0, <1>1, <2>1, <3>2, TakenAt
    <3> QED
      BY <2>3, <3>2, <3>3 DEF there
  <2> QED
    BY <2>4, <2>5
<1> QED
  BY <1>2, <1>3

\* 64 bit PowerPC, under both ABIs.
LEMMA P64Binds ==
    ASSUME NEW m, NEW n \in Nat, P64Laid(m, n), \A e \in m.mem : e.arg < n, Room(m), NEW t \in Scalar
    PROVE  LET x == gVT_ppc64_arg(m, t, n)
           IN  /\ P64Laid(x, n) /\ More(m, x) /\ Intact(x, n)
               /\ \A r \in Cursors : r.vt = m.vt /\ P64Sync(r, m) =>
                    LET a == dcbArg_ppc64(r, t)
                    IN  Kept(r, a) /\ P64Sync(a.rd, x) /\ Found(x.mem, a, n)
<1> DEFINE x == gVT_ppc64_arg(m, t, n)
           top == P64Top(m)
<1>0. top \in Nat /\ m.size \in Nat /\ (~ElfV2(m.vt) => top = m.size)
  BY DEF P64Top, P64Laid, Laid, VM
<1>1. CASE t \in {"int", "longlong"}
  BY <1>1, P64BindsInt
<1>2. CASE t = "double"
  <2> DEFINE p == Val(n, "f8")
  <2>1. P64Part(p, n) /\ x = dc_callvm_argDouble_ppc64(m, p, p)
    BY <1>2, ValPart, FormBytes DEF P64Part, gVT_ppc64_arg, Forms
  <2> HIDE DEF x, p
  <2>2. LET apart == m.f < 13 /\ m.i < 8 /\ ElfV2(m.vt)
        IN  /\ P64Laid(x, n) /\ More(m, x)
            /\ x.i = (IF m.f < 13 THEN NextReg(m.i) ELSE m.i)
            /\ x.f = (IF m.f < 13 THEN m.f + 1 ELSE m.f)
            /\ m.f < 13 => At("F", 8 * m.f, p) \in x.mem
            /\ apart => x.size = m.size
            /\ ~apart => x.size = P64Top(m) + 8 /\ At("V", P64Top(m), p) \in x.mem
    BY <2>1, P64Double
  <2>3. P64Floats(m, x, n, "f8", top, "f8")
    BY <1>0, <2>2 DEF P64Floats, p
  <2> HIDE DEF top
  <2>4. /\ Intact(x, n)
        /\ \A r \in Cursors : P64Sync(r, m) =>
             LET a == ppc64_dcbArgDouble(r, "f8", (top - P64Top(m)) + r.sp, "f8")
             IN  Kept(r, a) /\ P64Sync(a.rd, x) /\ Found(x.mem, a, n)
    BY <2>3, P64BindsFloat
  <2>5. ASSUME NEW r \in Cursors
        PROVE  dcbArg_ppc64(r, t) = ppc64_dcbArgDouble(r, "f8", (top - P64Top(m)) + r.sp, "f8")
    <3>1. (top - P64Top(m)) + r.sp = r.sp
      BY <1>0 DEF top, Cursors
    <3> QED
      BY <1>2, <3>1 DEF dcbArg_ppc64
  <2> QED
    BY <2>2, <2>4, <2>5 DEF x
<1>3. CASE t = "float"
  <2> DEFINE off == IF ElfV2(m.vt) THEN P64Top(m) ELSE m.size + 4
  <2>1. x = dc_callvm_argFloat_ppc64(m, n)
    BY <1>3 DEF gVT_ppc64_arg
  <2> HIDE DEF x
  <2>2. LET apart == m.f < 13 /\ m.i < 8 /\ ElfV2(m.vt)
        IN  /\ P64Laid(x, n) /\ More(m, x)
            /\ x.i = (IF m.f < 13 THEN NextReg(m.i) ELSE m.i)
            /\ x.f = (IF m.f < 13 THEN m.f + 1 ELSE m.f)
            /\ m.f < 13 => At("F", 8 * m.f, Val(n, "w8")) \in x.mem
            /\ apart => x.size = m.size
            /\ ~apart => x.size = P64Top(m) + 8 /\ At("V", off, Val(n, "f4")) \in x.mem
    BY <2>1, P64Float
  <2>3. P64Floats(m, x, n, "w8", off, "f4")
    BY <1>0, <2>2 DEF P64Floats
  <2>5. ASSUME NEW r \in Cursors, r.vt = m.vt
        PROVE  dcbArg_ppc64(r, t) = ppc64_dcbArgDouble(r, "w8", (off - P64Top(m)) + r.sp, "f4")
    <3>1. (off - P64Top(m)) + r.sp = IF ElfV2(m.vt) THEN r.sp ELSE r.sp + 4
      BY <1>0 DEF Cursors
    <3> QED
      BY <1>3, <2>5, <3>1 DEF dcbArg_ppc64
  <2> HIDE DEF off
  <2>4. /\ Intact(x, n)
        /\ \A r \in Cursors : P64Sync(r, m) =>
             LET a == ppc64_dcbArgDouble(r, "w8", (off - P64Top(m)) + r.sp, "f4")
             IN  Kept(r, a) /\ P64Sync(a.rd, x) /\ Found(x.mem, a, n)
    BY <2>3, P64BindsFloat
  <2> QED
    BY <2>2, <2>4, <2>5 DEF x
<1> QED
  BY <1>1, <1>2, <1>3 DEF Scalar

\* After the ellipsis of version 2.
LEMMA P64Variadic ==
    ASSUME NEW m, NEW n \in Nat, P64Laid(m, n), Room(m), NEW p, P64Part(p, n), NEW z, P64Laid(z, n), More(m, z),
           z.size = m.size
    PROVE  LET x == PushVariadic(z, m.i, p)
           IN  P64Laid(x, n) /\ More(m, x) /\ \E off \in Nat : At("V", off, p) \in x.mem
<1> DEFINE k == 8 * m.i
           y == IF z.size = 0 THEN dcVecSkip(z, k) ELSE z
           x == dcVecAppend(y, p, 8)
<1>0. m \in VM /\ z \in VM /\ m.i \in Nat /\ m.i <= 8 /\ m.size \in Nat /\ z.size \in Nat /\ k \in Nat /\ k <= 64
      /\ m.copies = VecTotal /\ VecTotal \in Nat
  BY VecAssumption DEF P64Laid, Laid, VM
<1>1. PushVariadic(z, m.i, p) = x
  BY DEF PushVariadic
<1> HIDE DEF k
<1>2. Shifted(z, y) /\ SameCounts(z, y) /\ y.size = IF z.size = 0 THEN k ELSE z.size
  <2>1. CASE z.size = 0
    <3>1. Shifted(z, dcVecSkip(z, k)) /\ SameCounts(z, dcVecSkip(z, k)) /\ dcVecSkip(z, k).size = z.size + k
      BY <1>0, Skipped
    <3> QED
      BY <1>0, <2>1, <3>1
  <2>2. CASE z.size # 0
    BY <1>0, <2>2 DEF Shifted, SameStore, SameCounts
  <2> QED
    BY <2>1, <2>2
<1> HIDE DEF y
<1>3. /\ P64Laid(x, n) /\ More(z, x)
      /\ y.size + 8 <= VecTotal => At("V", y.size, p) \in x.mem
  BY <1>2, P64Append
<1> HIDE DEF x
<1>4. More(m, x)
  BY <1>0, <1>3, MoreTwice
<1>5. y.size \in Nat /\ y.size + 8 <= VecTotal
  BY <1>0, <1>2 DEF Room
<1> QED
  BY <1>1, <1>3, <1>4, <1>5

\* Variadic arguments under the second ABI, for which there are no callbacks.
LEMMA P64EllipsisBinds ==
    ASSUME NEW m, NEW n \in Nat, P64Laid(m, n), Room(m), NEW t \in Scalar
    PROVE  LET x == gVT_ppc64_ellipsis_arg(m, t, n) IN P64Laid(x, n) /\ More(m, x) /\ Intact(x, n)
<1> DEFINE form == IF t = "double" THEN "f8" ELSE IF t = "float" THEN "w8" ELSE "i8"
           p == Val(n, form)
           z == IF t \in {"int", "longlong"} THEN IntReg(m, 8, p) ELSE P64Regs(m, p)
           x == gVT_ppc64_ellipsis_arg(m, t, n)
<1>1. x = PushVariadic(z, m.i, p)
  BY DEF gVT_ppc64_ellipsis_arg, dc_callvm_argLongLong_ppc64_ellipsis, dc_callvm_argDouble_ppc64_ellipsis,
     P64Regs, Scalar
<1>2. form \in Forms /\ Bytes[form] = 8
  BY FormBytes DEF Forms, Scalar
<1> HIDE DEF form
<1>3. P64Part(p, n)
  BY <1>2, ValPart DEF P64Part
<1> HIDE DEF p
<1>4. P64Laid(z, n) /\ More(m, z) /\ z.size = m.size
  BY <1>3, P64IntReg, P64FloatRegs
<1> HIDE DEF z, x
<1>5. P64Laid(x, n) /\ More(m, x) /\ \E off \in Nat : At("V", off, p) \in x.mem
  BY <1>1, <1>3, <1>4, P64Variadic
<1>6. Intact(x, n)
  BY <1>2, <1>5, FoundVal DEF p
<1> QED
  BY <1>5, <1>6 DEF x

---------------------------------------------------------------------------
\* x64, System V and Windows.

\* x64: the registers used are those counted, and the one kept for a hidden
\* pointer is not among them.
X64Laid(m) ==
    /\ Laid(m, 0, 0, 8 * m.i, 8 * m.f) /\ m.i <= 6 /\ m.hid \in {0, 1, NoReg}
    /\ \A e \in m.mem : e.file = "I" => e.off + e.len <= 8 * m.hid \/ 8 * m.hid + 8 <= e.off

\* A callback on x64 that takes next what is bound next to call VM m.
X64Sync(r, m) == r.vt = m.vt /\ r.hid = m.hid /\ r.i = m.i /\ r.f = m.f /\ r.sp = m.size

\* How an eightbyte of a class is bound and taken.
X64Bind(c, m, p) == IF c = "INTEGER" THEN dc_callvm_argLongLong_x64(m, p) ELSE dc_callvm_argDouble_x64(m, p)
X64Take(c, r, form, len) == IF c = "INTEGER" THEN arg_i64(r, form, len) ELSE arg_f64(r, form, len)

\* An eightbyte of class c goes into an integer register, if there is one left.
AsInteger(c, m) == c = "INTEGER" \/ Win(m.vt)

\* There is a register for it.
X64Free(c, m) == IF AsInteger(c, m) THEN PastHidden(m, m.i) < numIntRegs(m.vt) ELSE m.f < 8

\* There is room for eight bytes in the vector.
RoomFor8(m) == m.size + 8 <= m.copies

\* Part p, of class c, was bound to m, and a callback finds it.
X64Lies(c, m, x, p) ==
    \E file : \E off \in Nat :
        /\ At(file, off, p) \in x.mem
        /\ \A r \in Cursors : X64Sync(r, m) => \A form, len : \E q :
            /\ X64Take(c, r, form, len) = Access(q, <<Loc(file, off, len)>>, form)
            /\ Advances(r, q) /\ X64Sync(q, x)

\* The register after the one kept for a hidden pointer; c is a call VM or a cursor.
LEMMA X64Past ==
    ASSUME NEW c, c.i \in Nat, c.i <= 6, c.hid \in {0, 1, NoReg}
    PROVE  LET i == PastHidden(c, c.i)
           IN  /\ i \in Nat /\ c.i <= i /\ i <= 6 /\ i # c.hid
               /\ numIntRegs(c.vt) \in {4, 6}
               /\ ~(i < numIntRegs(c.vt)) => i = c.i
               /\ ~Win(c.vt) /\ c.i < 6 => i < 6
<1>1. numIntRegs(c.vt) \in {4, 6} /\ (~Win(c.vt) => numIntRegs(c.vt) = 6)
  BY DEF numIntRegs
<1> QED
  BY <1>1 DEF PastHidden, NoReg

\* The register kept for a hidden pointer stays clear.
LEMMA X64Clear ==
    ASSUME NEW m, NEW x, X64Laid(m), x.hid = m.hid, NEW g, Gains(m, x, g),
           g.file = "I" => g.off + g.len <= 8 * m.hid \/ 8 * m.hid + 8 <= g.off,
           Laid(x, 0, 0, 8 * x.i, 8 * x.f), x.i <= 6
    PROVE  X64Laid(x)
  BY DEF X64Laid, Gains

\* An eightbyte of class INTEGER is bound.
LEMMA X64Int ==
    ASSUME NEW m, X64Laid(m), NEW p, p \in PartOf, p.len <= 8,
           PastHidden(m, m.i) < numIntRegs(m.vt) \/ RoomFor8(m)
    PROVE  LET x == dc_callvm_argLongLong_x64(m, p)
               i == PastHidden(m, m.i)
               free == i < numIntRegs(m.vt)
           IN  /\ X64Laid(x) /\ More(m, x) /\ x.f = m.f
               /\ free => x.i = i + 1 /\ x.size = m.size /\ At("I", 8 * i, p) \in x.mem
               /\ ~free => x.i = i /\ x.size = m.size + 8 /\ At("V", m.size, p) \in x.mem
<1> DEFINE x == dc_callvm_argLongLong_x64(m, p)
           i == PastHidden(m, m.i)
           regs == numIntRegs(m.vt)
<1>1. /\ m \in VM /\ m.i \in Nat /\ m.f \in Nat /\ p.len \in Nat /\ m.i <= 6 /\ m.hid \in {0, 1, NoReg}
      /\ m.size \in Nat /\ VecTotal \in Nat /\ m.copies \in Int /\ m.copies <= VecTotal /\ m.hid \in Nat
  BY VecAssumption DEF X64Laid, Laid, VM, PartOf
<1>2. i \in Nat /\ m.i <= i /\ i <= 6 /\ i # m.hid /\ regs \in {4, 6} /\ (~(i < regs) => i = m.i)
  BY <1>1, X64Past
<1>3. x = IF i < regs THEN [Put(m, "I", 8 * i, p) EXCEPT !.i = i + 1] ELSE dcVecAppend([m EXCEPT !.i = i], p, 8)
  BY DEF dc_callvm_argLongLong_x64
<1>4. Laid(m, 0, 0, 8 * m.i, 8 * m.f)
  BY DEF X64Laid
<1>7. i < regs \/ RoomFor8(m)
  OBVIOUS
<1> HIDE DEF i, regs
<1>5. CASE i < regs
  <2> DEFINE k == i + 1
             off == 8 * i
             ni == 8 * m.i
             nf == 8 * m.f
             ti == 8 * k
             y == Put(m, "I", off, p)
             g == At("I", off, p)
             hid == 8 * m.hid
  <2>1. /\ RegFree(ni, nf, "I", off, p, ti, nf) /\ k \in Nat /\ Laid(m, 0, 0, ni, nf) /\ k <= 6
    BY <1>1, <1>2, <1>4, <1>5 DEF RegFree
  <2>a. off + p.len <= hid \/ hid + 8 <= off
    BY <1>1, <1>2
  <2>2. x = PutI(m, "I", off, p, k)
    BY <1>3, <1>5 DEF PutI
  <2> HIDE DEF x, k, off, ni, nf, ti
  <2>3. /\ Laid(x, 0, 0, ti, nf) /\ More(m, x) /\ x.size = m.size /\ x.i = k /\ x.f = m.f
        /\ g \in x.mem /\ y \in VM
    BY <2>1, <2>2, CountReg
  <2>4. Gains(m, y, g)
    BY <2>1, StoreReg
  <2>5. x.mem = y.mem
    BY <2>2, <2>3 DEF PutI, VM
  <2>6. g.off = off /\ g.len = p.len
    BY DEF At
  <2>7. x.hid = m.hid
    BY <2>3 DEF More
  <2> HIDE DEF g, y
  <2>8. Gains(m, x, g)
    BY <2>4, <2>5 DEF Gains
  <2>b. Laid(x, 0, 0, 8 * x.i, 8 * x.f)
    BY <2>3 DEF ti, nf
  <2>9. X64Laid(x)
    BY <2>1, <2>3, <2>7, <2>8, <2>a, <2>6, <2>b, X64Clear
  <2> QED
    BY <1>5, <2>3, <2>9 DEF x, k, g, off, i, regs
<1>6. CASE ~(i < regs)
  <2> DEFINE ni == 8 * m.i
             nf == 8 * m.f
             z == dcVecAppend(m, p, 8)
             g == At("V", m.size, p)
  <2>1. [m EXCEPT !.i = i] = m
    BY <1>1, <1>2, <1>6 DEF VM
  <2>2. x = z
    BY <1>3, <1>6, <2>1
  <2>3. Laid(m, 0, 0, ni, nf) /\ Appends(m, p, 8) /\ m.size + 8 <= VecTotal
    BY <1>1, <1>4, <1>6, <1>7 DEF Appends, RoomFor8
  <2> HIDE DEF x, ni, nf
  <2>4. /\ Laid(x, 0, 0, ni, nf) /\ More(m, x) /\ SameCounts(m, x) /\ Gains(m, x, g)
        /\ x.size = m.size + 8 /\ g \in x.mem
    BY <2>2, <2>3, Appended
  <2>5. x.hid = m.hid /\ x.i = m.i /\ x.f = m.f
    BY <2>4 DEF More, SameCounts
  <2>6. g.file = "V"
    BY DEF At
  <2> HIDE DEF g
  <2>b. Laid(x, 0, 0, 8 * x.i, 8 * x.f)
    BY <2>4, <2>5 DEF ni, nf
  <2>8. X64Laid(x)
    BY <1>1, <2>4, <2>5, <2>6, <2>b, X64Clear
  <2> QED
    BY <1>2, <1>6, <2>4, <2>5, <2>8 DEF x, g, i, regs
<1> QED
  BY <1>5, <1>6 DEF i, regs

\* An eightbyte of class SSE is bound, under System V.
LEMMA X64Float ==
    ASSUME NEW m, X64Laid(m), ~Win(m.vt), NEW p, p \in PartOf, p.len <= 8, m.f < 8 \/ RoomFor8(m)
    PROVE  LET x == dc_callvm_argDouble_x64(m, p)
           IN  /\ X64Laid(x) /\ More(m, x) /\ x.i = m.i
               /\ m.f < 8 => x.f = m.f + 1 /\ x.size = m.size /\ At("F", 8 * m.f, p) \in x.mem
               /\ ~(m.f < 8) => x.f = m.f /\ x.size = m.size + 8 /\ At("V", m.size, p) \in x.mem
<1> DEFINE x == dc_callvm_argDouble_x64(m, p)
<1>1. /\ m \in VM /\ m.i \in Nat /\ m.f \in Nat /\ p.len \in Nat /\ m.i <= 6
      /\ m.size \in Nat /\ VecTotal \in Nat /\ m.copies \in Int /\ m.copies <= VecTotal
  BY VecAssumption DEF X64Laid, Laid, VM, PartOf
<1>2. Laid(m, 0, 0, 8 * m.i, 8 * m.f)
  BY DEF X64Laid
<1>a. ASSUME NEW c, c.vt = m.vt, NEW k PROVE CountFloat(c, k) = [c EXCEPT !.f = k]
  BY <1>a DEF CountFloat
<1>5. CASE m.f < 8
  <2> DEFINE k == m.f + 1
             off == 8 * m.f
             ni == 8 * m.i
             tf == 8 * k
             y == Put(m, "F", off, p)
             g == At("F", off, p)
  <2>1. /\ RegFree(ni, off, "F", off, p, ni, tf) /\ k \in Nat /\ Laid(m, 0, 0, ni, off)
    BY <1>1, <1>2, <1>5 DEF RegFree
  <2>2. x = CountFloat(y, k)
    BY <1>5 DEF dc_callvm_argDouble_x64, numFloatRegs, FloatFile
  <2> HIDE DEF x, k, off, ni, tf, y
  <2> DEFINE z == PutF(m, "F", off, p, k)
  <2>3. /\ Laid(z, 0, 0, ni, tf) /\ More(m, z) /\ z.size = m.size /\ z.i = m.i /\ z.f = k
        /\ g \in z.mem /\ y \in VM
    BY <2>1, CountReg DEF y
  <2>c. Gains(m, y, g) /\ More(m, y)
    BY <2>1, StoreReg DEF y
  <2>4. Gains(m, y, g) /\ y.vt = m.vt
    BY <2>c DEF More
  <2>b. x = z
    BY <1>a, <2>2, <2>4 DEF PutF, y
  <2>5. x.mem = y.mem
    BY <2>b, <2>3 DEF PutF, VM, y
  <2> HIDE DEF z
  <2>6. g.file = "F"
    BY DEF At
  <2>7. x.hid = m.hid
    BY <2>3, <2>b DEF More
  <2> HIDE DEF g
  <2>8. Gains(m, x, g)
    BY <2>4, <2>5 DEF Gains
  <2>d. Laid(x, 0, 0, 8 * x.i, 8 * x.f)
    BY <2>3, <2>b DEF ni, tf
  <2>9. X64Laid(x)
    BY <1>1, <2>b, <2>3, <2>6, <2>7, <2>8, <2>d, X64Clear
  <2> QED
    BY <1>5, <2>b, <2>3, <2>9 DEF x, k, g, off
<1>6. CASE ~(m.f < 8)
  <2> DEFINE ni == 8 * m.i
             nf == 8 * m.f
             z == dcVecAppend(m, p, 8)
             g == At("V", m.size, p)
  <2>1. [m EXCEPT !.f = m.f] = m
    BY <1>1 DEF VM
  <2>2. x = z
    BY <1>6, <1>a, <2>1 DEF dc_callvm_argDouble_x64, numFloatRegs
  <2>3. Laid(m, 0, 0, ni, nf) /\ Appends(m, p, 8) /\ m.size + 8 <= VecTotal
    BY <1>1, <1>2, <1>6 DEF Appends, RoomFor8
  <2> HIDE DEF x, ni, nf
  <2>4. /\ Laid(x, 0, 0, ni, nf) /\ More(m, x) /\ SameCounts(m, x) /\ Gains(m, x, g)
        /\ x.size = m.size + 8 /\ g \in x.mem
    BY <2>2, <2>3, Appended
  <2>5. x.hid = m.hid /\ x.i = m.i /\ x.f = m.f
    BY <2>4 DEF More, SameCounts
  <2>6. g.file = "V"
    BY DEF At
  <2> HIDE DEF g
  <2>b. Laid(x, 0, 0, 8 * x.i, 8 * x.f)
    BY <2>4, <2>5 DEF ni, nf
  <2>8. X64Laid(x)
    BY <1>1, <2>4, <2>5, <2>6, <2>b, X64Clear
  <2> QED
    BY <1>6, <2>4, <2>5, <2>8 DEF x, g
<1> QED
  BY <1>5, <1>6

\* On Windows a floating point argument goes the way of an integer.
LEMMA X64WinFloat ==
    ASSUME NEW m \in VM, Win(m.vt), NEW p
    PROVE  dc_callvm_argDouble_x64(m, p) = dc_callvm_argLongLong_x64(m, p)
<1> DEFINE i == PastHidden(m, m.i)
           y == Put(m, "I", 8 * i, p)
<1>1. numIntRegs(m.vt) = 4 /\ numFloatRegs(m.vt) = 4 /\ FloatFile(m.vt) = "I"
  BY DEF numIntRegs, numFloatRegs, FloatFile
<1>2. y.vt = m.vt
  BY DEF Put, VM
<1>3. \A k : CountFloat(y, k) = [y EXCEPT !.i = k] /\ CountFloat(m, k) = [m EXCEPT !.i = k]
  BY <1>2 DEF CountFloat
<1> QED
  BY <1>1, <1>3 DEF dc_callvm_argDouble_x64, dc_callvm_argLongLong_x64

\* And taken, on Windows.
LEMMA X64WinFloatTaken ==
    ASSUME NEW r, Win(r.vt), NEW form, NEW len
    PROVE  arg_f64(r, form, len) = arg_i64(r, form, len)
  BY DEF arg_f64, arg_i64, numIntRegs, numFloatRegs, FloatFile, CountFloat

\* The callback takes an eightbyte of class INTEGER.
LEMMA X64IntTaken ==
    ASSUME NEW r, r \in Cursors, r.i <= 6, r.hid \in {0, 1, NoReg}, NEW form, NEW len
    PROVE  LET i == PastHidden(r, r.i)
               free == i < numIntRegs(r.vt)
           IN  \E q : /\ arg_i64(r, form, len)
                           = Access(q, <<IF free THEN Loc("I", 8 * i, len) ELSE Loc("V", r.sp, len)>>, form)
                      /\ Advances(r, q) /\ q.f = r.f
                      /\ free => q.i = i + 1 /\ q.sp = r.sp
                      /\ ~free => q.i = i /\ q.sp = r.sp + 8
<1> DEFINE i == PastHidden(r, r.i)
           free == i < numIntRegs(r.vt)
<1>1. r.i \in Nat /\ r.sp \in Nat
  BY DEF Cursors
<1>2. i \in Nat
  BY <1>1, X64Past
<1>3. arg_i64(r, form, len) = IF free THEN Access([r EXCEPT !.i = i + 1], <<Loc("I", 8 * i, len)>>, form)
                              ELSE Stacked([r EXCEPT !.i = i], form, len)
  BY DEF arg_i64
<1> HIDE DEF i, free
<1>4. CASE free
  <2> DEFINE k == i + 1
             q == [r EXCEPT !.i = k]
  <2>1. k \in Nat
    BY <1>2
  <2>2. arg_i64(r, form, len) = Access(q, <<Loc("I", 8 * i, len)>>, form)
    BY <1>3, <1>4
  <2> HIDE DEF k
  <2>3. Advances(r, q) /\ q.f = r.f /\ q.i = k /\ q.sp = r.sp
    BY <2>1 DEF Advances, Cursors
  <2> HIDE DEF q
  <2> QED
    BY <1>4, <2>2, <2>3 DEF k, i, free
<1>5. CASE ~free
  <2> DEFINE sp == r.sp + 8
             c == [r EXCEPT !.i = i]
             q == [c EXCEPT !.sp = sp]
  <2>1. sp \in Nat /\ c.sp = r.sp
    BY <1>1 DEF Cursors
  <2>2. arg_i64(r, form, len) = Access(q, <<Loc("V", r.sp, len)>>, form)
    BY <1>3, <1>5, <2>1 DEF Stacked
  <2> HIDE DEF sp
  <2>3. Advances(r, q) /\ q.f = r.f /\ q.i = i /\ q.sp = sp
    BY <1>2, <2>1 DEF Advances, Cursors
  <2> HIDE DEF q
  <2> QED
    BY <1>5, <2>2, <2>3 DEF sp, i, free
<1> QED
  BY <1>4, <1>5 DEF free

\* The callback takes an eightbyte of class SSE, under System V.
LEMMA X64FloatTaken ==
    ASSUME NEW r, r \in Cursors, ~Win(r.vt), NEW form, NEW len
    PROVE  \E q : /\ arg_f64(r, form, len)
                       = Access(q, <<IF r.f < 8 THEN Loc("F", 8 * r.f, len) ELSE Loc("V", r.sp, len)>>, form)
                  /\ Advances(r, q) /\ q.i = r.i
                  /\ r.f < 8 => q.f = r.f + 1 /\ q.sp = r.sp
                  /\ ~(r.f < 8) => q.f = r.f /\ q.sp = r.sp + 8
<1> DEFINE f == r.f
<1>1. f \in Nat /\ r.sp \in Nat
  BY DEF Cursors
<1>3. arg_f64(r, form, len) = IF f < 8 THEN Access([r EXCEPT !.f = f + 1], <<Loc("F", 8 * f, len)>>, form)
                              ELSE Stacked([r EXCEPT !.f = f], form, len)
  BY DEF arg_f64, numFloatRegs, CountFloat, FloatFile
<1>4. CASE f < 8
  <2> DEFINE k == f + 1
             q == [r EXCEPT !.f = k]
  <2>1. k \in Nat
    BY <1>1
  <2>2. arg_f64(r, form, len) = Access(q, <<Loc("F", 8 * f, len)>>, form)
    BY <1>3, <1>4
  <2> HIDE DEF k
  <2>3. Advances(r, q) /\ q.i = r.i /\ q.f = k /\ q.sp = r.sp
    BY <2>1 DEF Advances, Cursors
  <2> HIDE DEF q
  <2> QED
    BY <1>4, <2>2, <2>3 DEF k
<1>5. CASE ~(f < 8)
  <2> DEFINE sp == r.sp + 8
             c == [r EXCEPT !.f = f]
             q == [c EXCEPT !.sp = sp]
  <2>1. sp \in Nat /\ c.sp = r.sp
    BY <1>1 DEF Cursors
  <2>2. arg_f64(r, form, len) = Access(q, <<Loc("V", r.sp, len)>>, form)
    BY <1>3, <1>5, <2>1 DEF Stacked
  <2> HIDE DEF sp
  <2>3. Advances(r, q) /\ q.i = r.i /\ q.f = f /\ q.sp = sp
    BY <1>1, <2>1 DEF Advances, Cursors
  <2> HIDE DEF q
  <2> QED
    BY <1>5, <2>2, <2>3 DEF sp
<1> QED
  BY <1>4, <1>5

\* The counts after an eightbyte of class c that has a register.
X64Counts(c, m, x) ==
    /\ AsInteger(c, m) => x.f = m.f
    /\ ~AsInteger(c, m) => x.i = m.i /\ (X64Free(c, m) => x.f = m.f + 1)
    /\ x.size <= m.size + 8

\* An eightbyte is bound to where the callback takes it from.
LEMMA X64Passes ==
    ASSUME NEW c \in {"INTEGER", "SSE"}, NEW m, X64Laid(m), RoomFor8(m) \/ X64Free(c, m),
           NEW p, p \in PartOf, p.len <= 8
    PROVE  LET x == X64Bind(c, m, p)
           IN  X64Laid(x) /\ More(m, x) /\ X64Counts(c, m, x) /\ X64Lies(c, m, x, p)
<1> DEFINE x == X64Bind(c, m, p)
<1>1. m.i \in Nat /\ m.f \in Nat /\ m.size \in Nat /\ m.i <= 6 /\ m.hid \in {0, 1, NoReg} /\ m \in VM
  BY DEF X64Laid, Laid, VM
<1>2. CASE AsInteger(c, m)
  <2> DEFINE i == PastHidden(m, m.i)
             free == i < numIntRegs(m.vt)
             file == IF free THEN "I" ELSE "V"
             off == IF free THEN 8 * i ELSE m.size
  <2>1. x = dc_callvm_argLongLong_x64(m, p)
    BY <1>1, <1>2, X64WinFloat DEF X64Bind, AsInteger
  <2>2. i \in Nat
    BY <1>1, X64Past
  <2> HIDE DEF x
  <2>4. free \/ RoomFor8(m)
    BY <1>2 DEF X64Free
  <2>3. /\ X64Laid(x) /\ More(m, x) /\ x.f = m.f
        /\ free => x.i = i + 1 /\ x.size = m.size /\ At("I", 8 * i, p) \in x.mem
        /\ ~free => x.i = i /\ x.size = m.size + 8 /\ At("V", m.size, p) \in x.mem
    BY <2>1, <2>4, X64Int
  <2>5. off \in Nat /\ At(file, off, p) \in x.mem
    BY <1>1, <2>2, <2>3
  <2>6. ASSUME NEW r \in Cursors, X64Sync(r, m), NEW form, NEW len
        PROVE  \E q : /\ X64Take(c, r, form, len) = Access(q, <<Loc(file, off, len)>>, form)
                      /\ Advances(r, q) /\ X64Sync(q, x)
    <3>1. r.vt = m.vt /\ r.i <= 6 /\ r.hid \in {0, 1, NoReg} /\ PastHidden(r, r.i) = i /\ r.sp = m.size /\ r.f = m.f
      BY <1>1, <2>6 DEF X64Sync, PastHidden
    <3> HIDE DEF i, free
    <3>2. PICK q : /\ arg_i64(r, form, len)
                       = Access(q, <<IF free THEN Loc("I", 8 * i, len) ELSE Loc("V", r.sp, len)>>, form)
                   /\ Advances(r, q) /\ q.f = r.f
                   /\ free => q.i = i + 1 /\ q.sp = r.sp
                   /\ ~free => q.i = i /\ q.sp = r.sp + 8
      BY <3>1, X64IntTaken DEF i, free
    <3>3. q.vt = m.vt /\ q.hid = m.hid /\ x.vt = m.vt /\ x.hid = m.hid
      BY <2>3, <2>6, <3>2 DEF Advances, X64Sync, More
    <3>4. X64Sync(q, x)
      BY <2>3, <3>1, <3>2, <3>3 DEF X64Sync
    <3>5. X64Take(c, r, form, len) = Access(q, <<Loc(file, off, len)>>, form)
      BY <1>2, <3>1, <3>2, X64WinFloatTaken DEF X64Take, AsInteger
    <3> QED
      BY <3>2, <3>4, <3>5
  <2> HIDE DEF file, off
  <2>7. X64Lies(c, m, x, p)
    BY <2>5, <2>6 DEF X64Lies
  <2> QED
    BY <1>1, <1>2, <2>3, <2>7 DEF X64Counts, x
<1>3. CASE ~AsInteger(c, m)
  <2> DEFINE free == m.f < 8
             file == IF free THEN "F" ELSE "V"
             off == IF free THEN 8 * m.f ELSE m.size
  <2>1. x = dc_callvm_argDouble_x64(m, p)
    BY <1>3 DEF X64Bind, AsInteger
  <2> HIDE DEF x
  <2>4. free \/ RoomFor8(m)
    BY <1>3 DEF X64Free
  <2>3. /\ X64Laid(x) /\ More(m, x) /\ x.i = m.i
        /\ free => x.f = m.f + 1 /\ x.size = m.size /\ At("F", 8 * m.f, p) \in x.mem
        /\ ~free => x.f = m.f /\ x.size = m.size + 8 /\ At("V", m.size, p) \in x.mem
    BY <1>3, <2>1, <2>4, X64Float DEF AsInteger
  <2>5. off \in Nat /\ At(file, off, p) \in x.mem
    BY <1>1, <2>3
  <2>6. ASSUME NEW r \in Cursors, X64Sync(r, m), NEW form, NEW len
        PROVE  \E q : /\ X64Take(c, r, form, len) = Access(q, <<Loc(file, off, len)>>, form)
                      /\ Advances(r, q) /\ X64Sync(q, x)
    <3>1. r.vt = m.vt /\ ~Win(r.vt) /\ r.i = m.i /\ r.sp = m.size /\ r.f = m.f
      BY <1>3, <2>6 DEF X64Sync, AsInteger
    <3>2. PICK q : /\ arg_f64(r, form, len)
                       = Access(q, <<IF r.f < 8 THEN Loc("F", 8 * r.f, len) ELSE Loc("V", r.sp, len)>>, form)
                   /\ Advances(r, q) /\ q.i = r.i
                   /\ r.f < 8 => q.f = r.f + 1 /\ q.sp = r.sp
                   /\ ~(r.f < 8) => q.f = r.f /\ q.sp = r.sp + 8
      BY <3>1, X64FloatTaken
    <3>3. q.vt = m.vt /\ q.hid = m.hid /\ x.vt = m.vt /\ x.hid = m.hid
      BY <2>3, <2>6, <3>2 DEF Advances, X64Sync, More
    <3>4. X64Sync(q, x)
      BY <2>3, <3>1, <3>2, <3>3 DEF X64Sync
    <3>5. X64Take(c, r, form, len) = Access(q, <<Loc(file, off, len)>>, form)
      BY <1>3, <3>1, <3>2 DEF X64Take, AsInteger
    <3> QED
      BY <3>2, <3>4, <3>5
  <2> HIDE DEF file, off
  <2>7. X64Lies(c, m, x, p)
    BY <2>5, <2>6 DEF X64Lies
  <2> QED
    BY <1>1, <1>3, <2>3, <2>7 DEF X64Counts, X64Free, x
<1> QED
  BY <1>2, <1>3

\* An argument that is one part.
LEMMA X64Whole ==
    ASSUME NEW c, NEW m, NEW x, NEW n \in Nat, NEW form \in Forms, X64Lies(c, m, x, Val(n, form))
    PROVE  /\ Intact(x, n)
           /\ \A r \in Cursors : X64Sync(r, m) =>
                LET a == X64Take(c, r, form, Bytes[form])
                IN  Kept(r, a) /\ X64Sync(a.rd, x) /\ Found(x.mem, a, n)
<1> DEFINE p == Val(n, form)
           len == Bytes[form]
<1>1. PICK file : \E off \in Nat :
        /\ At(file, off, p) \in x.mem
        /\ \A r \in Cursors : X64Sync(r, m) => \A fm, l : \E q :
            /\ X64Take(c, r, fm, l) = Access(q, <<Loc(file, off, l)>>, fm)
            /\ Advances(r, q) /\ X64Sync(q, x)
  BY DEF X64Lies
<1>2. PICK off \in Nat :
        /\ At(file, off, p) \in x.mem
        /\ \A r \in Cursors : X64Sync(r, m) => \A fm, l : \E q :
            /\ X64Take(c, r, fm, l) = Access(q, <<Loc(file, off, l)>>, fm)
            /\ Advances(r, q) /\ X64Sync(q, x)
  BY <1>1
<1>3. Intact(x, n)
  BY <1>2, FoundVal
<1>4. ASSUME NEW r \in Cursors, X64Sync(r, m)
      PROVE  LET a == X64Take(c, r, form, len) IN Kept(r, a) /\ X64Sync(a.rd, x) /\ Found(x.mem, a, n)
  <2> DEFINE a == X64Take(c, r, form, len)
  <2>1. PICK q : a = Access(q, <<Loc(file, off, len)>>, form) /\ Advances(r, q) /\ X64Sync(q, x)
    BY <1>2, <1>4
  <2>2. Kept(r, a) /\ a.rd = q /\ Found(x.mem, a, n)
    BY <1>2, <2>1, TakenAt
  <2> HIDE DEF a
  <2> QED
    BY <2>1, <2>2 DEF a
<1> QED
  BY <1>3, <1>4

\* A compiled function finds a struct whose eightbytes lie apart.
LEMMA IntactEightBytes ==
    ASSUME NEW x, NEW n, NEW t \in {"s12", "s16"}, NEW file, NEW off, NEW file2, NEW off2,
           At(file, off, EightByte(n, t, 1)) \in x.mem, At(file2, off2, EightByte(n, t, 2)) \in x.mem
    PROVE  Intact(x, n)
<1> DEFINE e == At(file, off, EightByte(n, t, 1))
           g == At(file2, off2, EightByte(n, t, 2))
           size == Bytes[t]
<1>0. size \in Nat /\ size > 8 /\ Aggr[t].size = size /\ t \in DOMAIN Bytes /\ size <= 16
  BY FormBytes DEF Aggr, Forms
<1>1. /\ e \in x.mem /\ e.arg = n /\ e.form = t /\ e.from = 0 /\ e.len = 8
      /\ g \in x.mem /\ g.arg = n /\ g.form = t /\ g.from = 8 /\ g.len = size - 8
  BY <1>0 DEF At, EightByte, Part
<1> HIDE DEF e, g, size
<1>2. ASSUME NEW b \in 0..(size - 1)
      PROVE  \E h \in x.mem : h.arg = n /\ h.form = t /\ b \in h.from..(h.from + h.len - 1)
  <2>1. CASE b < 8
    <3>1. b \in e.from..(e.from + e.len - 1)
      BY <1>0, <1>1, <2>1
    <3> QED
      BY <1>1, <3>1
  <2>2. CASE b >= 8
    <3>1. b \in g.from..(g.from + g.len - 1)
      BY <1>0, <1>1, <2>2
    <3> QED
      BY <1>1, <3>1
  <2> QED
    BY <1>0, <2>1, <2>2
<1> QED
  BY <1>0, <1>2 DEF Intact, size

\* A struct of two eightbytes, the first of class c and the second of class d.
LEMMA X64Two ==
    ASSUME NEW c, NEW d, NEW m, NEW y, NEW x, More(y, x), NEW n \in Nat, NEW t \in {"s12", "s16"},
           X64Lies(c, m, y, EightByte(n, t, 1)), X64Lies(d, y, x, EightByte(n, t, 2))
    PROVE  /\ Intact(x, n)
           /\ \A r \in Cursors : X64Sync(r, m) =>
                LET one == X64Take(c, r, t, 8)
                    two == X64Take(d, one.rd, t, EightByte(n, t, 2).len)
                    a == Access(two.rd, one.at \o two.at, t)
                IN  Kept(r, a) /\ X64Sync(a.rd, x) /\ Found(x.mem, a, n)
<1> DEFINE p1 == EightByte(n, t, 1)
           p2 == EightByte(n, t, 2)
           len == p2.len
<1>0. /\ p1 = Part(n, t, 0, 8) /\ p2 = Part(n, t, 8, len) /\ len \in Nat
  BY DEF EightByte, Aggr, Part
<1> HIDE DEF p1, p2, len
<1>1. PICK f1 : \E off \in Nat :
        /\ At(f1, off, p1) \in y.mem
        /\ \A r \in Cursors : X64Sync(r, m) => \A fm, l : \E q :
            /\ X64Take(c, r, fm, l) = Access(q, <<Loc(f1, off, l)>>, fm)
            /\ Advances(r, q) /\ X64Sync(q, y)
  BY DEF X64Lies, p1
<1>2. PICK o1 \in Nat :
        /\ At(f1, o1, p1) \in y.mem
        /\ \A r \in Cursors : X64Sync(r, m) => \A fm, l : \E q :
            /\ X64Take(c, r, fm, l) = Access(q, <<Loc(f1, o1, l)>>, fm)
            /\ Advances(r, q) /\ X64Sync(q, y)
  BY <1>1
<1>3. PICK f2 : \E off \in Nat :
        /\ At(f2, off, p2) \in x.mem
        /\ \A r \in Cursors : X64Sync(r, y) => \A fm, l : \E q :
            /\ X64Take(d, r, fm, l) = Access(q, <<Loc(f2, off, l)>>, fm)
            /\ Advances(r, q) /\ X64Sync(q, x)
  BY DEF X64Lies, p2
<1>4. PICK o2 \in Nat :
        /\ At(f2, o2, p2) \in x.mem
        /\ \A r \in Cursors : X64Sync(r, y) => \A fm, l : \E q :
            /\ X64Take(d, r, fm, l) = Access(q, <<Loc(f2, o2, l)>>, fm)
            /\ Advances(r, q) /\ X64Sync(q, x)
  BY <1>3
<1>5. At(f1, o1, p1) \in x.mem
  BY <1>2 DEF More
<1>6. Intact(x, n)
  BY <1>4, <1>5, IntactEightBytes DEF p1, p2
<1>7. ASSUME NEW r \in Cursors, X64Sync(r, m)
      PROVE  LET one == X64Take(c, r, t, 8)
                 two == X64Take(d, one.rd, t, len)
                 a == Access(two.rd, one.at \o two.at, t)
             IN  Kept(r, a) /\ X64Sync(a.rd, x) /\ Found(x.mem, a, n)
  <2> DEFINE one == X64Take(c, r, t, 8)
             two == X64Take(d, one.rd, t, len)
             a == Access(two.rd, one.at \o two.at, t)
             l1 == Loc(f1, o1, 8)
             l2 == Loc(f2, o2, len)
             mem == x.mem
  <2>1. PICK q : one = Access(q, <<l1>>, t) /\ Advances(r, q) /\ X64Sync(q, y)
    BY <1>2, <1>7
  <2>2. one.rd = q /\ one.at = <<l1>> /\ q \in Cursors
    BY <2>1 DEF Access, Advances
  <2>3. PICK w : two = Access(w, <<l2>>, t) /\ Advances(q, w) /\ X64Sync(w, x)
    BY <1>4, <2>1, <2>2
  <2>4. two.rd = w /\ two.at = <<l2>>
    BY <2>3 DEF Access
  <2>5. a = Access(w, <<l1>> \o <<l2>>, t)
    BY <2>2, <2>4
  <2>6. Holds(mem, l1, n, t, 0)
    <3>1. 8 \in Nat /\ 0 \in Nat /\ At(f1, o1, Part(n, t, 0, 8)) \in mem
      BY <1>0, <1>5
    <3> HIDE DEF mem
    <3> QED
      BY <3>1, HoldsPart
  <2>7. Holds(mem, l2, n, t, 8)
    <3>1. 8 \in Nat /\ At(f2, o2, Part(n, t, 8, len)) \in mem
      BY <1>0, <1>4
    <3> HIDE DEF mem
    <3> QED
      BY <1>0, <3>1, HoldsPart
  <2>8. l1.off \in Nat /\ l1.len \in Nat \ {0} /\ l1.len = 8
    BY DEF Loc
  <2> HIDE DEF l1, l2, mem, one, two, a
  <2>9. Found(mem, a, n)
    BY <2>5, <2>6, <2>7, <2>8, FoundTwo
  <2>10. a.rd = w
    BY <2>5 DEF Access
  <2>11. Kept(r, a)
    BY <2>1, <2>3, <2>10 DEF Kept, Advances
  <2> QED
    BY <2>3, <2>9, <2>10, <2>11 DEF one, two, a, mem
<1> QED
  BY <1>6, <1>7 DEF len, p2

\* VM x is VM m with more in its memory.
Grown(m, x) == x \in VM /\ x.vt = m.vt /\ x.hid = m.hid /\ m.mem \subseteq x.mem

\* The bytes of the vector that are in use.
Used(m) == m.size + (VecTotal - m.copies)

\* The structs that are passed by value.
LEMMA AggrTypes ==
    /\ DOMAIN Aggr = {"s8", "s12", "s16", "s24"}
    /\ \A t \in DOMAIN Aggr : /\ t \in Forms /\ Aggr[t].size = Bytes[t] /\ Bytes[t] \in Nat \ {0} /\ Bytes[t] <= 24
                              /\ (8 - (Bytes[t] % 8)) % 8 \in Nat
                              /\ Bytes[t] + ((8 - (Bytes[t] % 8)) % 8) = 8 * ((Bytes[t] + 7) \div 8)
<1>1. DOMAIN Aggr = {"s8", "s12", "s16", "s24"}
  BY DEF Aggr
<1>2. \A t \in DOMAIN Aggr : t \in Forms /\ Aggr[t].size = Bytes[t] /\ Bytes[t] \in {8, 12, 16, 24}
  BY <1>1, FormBytes DEF Aggr, Forms
<1>3. ASSUME NEW b \in {8, 12, 16, 24}
      PROVE  /\ b \in Nat \ {0} /\ b <= 24 /\ (8 - (b % 8)) % 8 \in Nat
             /\ b + ((8 - (b % 8)) % 8) = 8 * ((b + 7) \div 8)
  OBVIOUS
<1> QED
  BY <1>1, <1>2, <1>3

\* A struct on the stack.
LEMMA X64Stack ==
    ASSUME NEW m, X64Laid(m), Room(m), NEW t \in DOMAIN Aggr, NEW n \in Nat
    PROVE  LET p == Val(n, t)
               x == dcVecSkip(dcVecAppend(m, p, p.len), (8 - (p.len % 8)) % 8)
           IN  /\ X64Laid(x) /\ More(m, x) /\ SameCounts(m, x)
               /\ x.size = m.size + 8 * ((Aggr[t].size + 7) \div 8) /\ At("V", m.size, p) \in x.mem
<1> DEFINE p == Val(n, t)
           len == p.len
           pad == (8 - (len % 8)) % 8
           y == dcVecAppend(m, p, len)
           x == dcVecSkip(y, pad)
           ni == 8 * m.i
           nf == 8 * m.f
           g == At("V", m.size, p)
           all == 8 * ((Aggr[t].size + 7) \div 8)
<1>1. /\ p \in PartOf /\ len \in Nat /\ len <= 24 /\ pad \in Nat /\ len + pad = all
  <2>1. t \in Forms /\ Aggr[t].size = Bytes[t]
    BY AggrTypes
  <2>2. p \in PartOf /\ len = Bytes[t]
    BY <2>1, ValPart
  <2> HIDE DEF p, len
  <2> QED
    BY <2>1, <2>2, AggrTypes
<1>2. /\ Laid(m, 0, 0, ni, nf) /\ m.i <= 6 /\ m.copies \in Int /\ m.copies <= VecTotal /\ m.size \in Nat /\ m \in VM
  BY DEF X64Laid, Laid, VM
<1>3. g.file = "V"
  BY DEF At
<1> HIDE DEF p, pad, ni, nf, all
<1>4. Appends(m, p, len) /\ m.size + len <= VecTotal
  BY <1>1, <1>2, VecAssumption DEF Appends, Room
<1> HIDE DEF len
<1>5. /\ Laid(y, 0, 0, ni, nf) /\ More(m, y) /\ SameCounts(m, y) /\ Gains(m, y, g)
      /\ y.size = m.size + len /\ g \in y.mem
  BY <1>2, <1>4, Appended
<1>6. y \in VM
  BY <1>5 DEF More
<1> HIDE DEF y, g
<1>7. Shifted(y, x) /\ SameCounts(y, x) /\ x.size = y.size + pad
  BY <1>1, <1>6, Skipped
<1> HIDE DEF x
<1>8. Laid(x, 0, 0, ni, nf) /\ More(m, x)
  BY <1>2, <1>5, <1>7, MoreShifted
<1>9. SameCounts(m, x) /\ x.mem = y.mem /\ x.hid = m.hid
  BY <1>5, <1>7, <1>8 DEF SameCounts, Shifted, SameStore, More
<1>10. Gains(m, x, g) /\ Laid(x, 0, 0, 8 * x.i, 8 * x.f) /\ x.i <= 6
  BY <1>2, <1>5, <1>8, <1>9 DEF Gains, SameCounts, ni, nf
<1>11. X64Laid(x)
  BY <1>3, <1>9, <1>10, X64Clear
<1>12. x.size = m.size + all
  BY <1>1, <1>2, <1>5, <1>7
<1> QED
  BY <1>5, <1>8, <1>9, <1>11, <1>12 DEF x, y, p, len, pad, all, g

\* What argument n of type t has to be like in VM x for a callback in step with m.
X64Bound(m, t, n, x) ==
    /\ X64Laid(x) /\ Grown(m, x) /\ Used(x) <= Used(m) + 72 /\ Intact(x, n)
    /\ ~Win(m.vt) => x.copies = m.copies
    /\ \A r \in Cursors : X64Sync(r, m) =>
        LET a == dcbArg_x64(r, t)
        IN  Kept(r, a) /\ X64Sync(a.rd, x) /\ Found(x.mem, a, n) /\ CopyIntact(x, r, t, n)

\* An argument that is not copied.
LEMMA X64NoCopy ==
    ASSUME NEW m, m \in VM, NEW x, X64Laid(x), More(m, x), x.size <= m.size + 72, NEW n, Intact(x, n), NEW t,
           Win(m.vt) => t \notin {"s12", "s16", "s24"},
           \A r \in Cursors : X64Sync(r, m) =>
                LET a == dcbArg_x64(r, t) IN Kept(r, a) /\ X64Sync(a.rd, x) /\ Found(x.mem, a, n)
    PROVE  X64Bound(m, t, n, x)
<1>1. Grown(m, x) /\ x.copies = m.copies /\ x \in VM
  BY DEF More, Grown
<1>2. m.size \in Nat /\ x.size \in Nat /\ m.copies \in Int /\ VecTotal \in Int
  BY <1>1, VecAssumption DEF VM
<1>3. Used(x) <= Used(m) + 72
  BY <1>1, <1>2 DEF Used
<1>4. \A r : X64Sync(r, m) => CopyIntact(x, r, t, n)
  BY DEF CopyIntact, X64Sync
<1> QED
  BY <1>1, <1>3, <1>4 DEF X64Bound

\* A part for which there is room.
LEMMA X64PassesRoom ==
    ASSUME NEW c \in {"INTEGER", "SSE"}, NEW m, X64Laid(m), Room(m), NEW p, p \in PartOf, p.len <= 8
    PROVE  LET x == X64Bind(c, m, p)
           IN  X64Laid(x) /\ More(m, x) /\ X64Lies(c, m, x, p) /\ x.size <= m.size + 72 /\ m \in VM
<1> DEFINE x == X64Bind(c, m, p)
<1>1. m \in VM /\ m.size \in Nat /\ m.copies \in Int
  BY DEF X64Laid, Laid, VM
<1>2. RoomFor8(m)
  BY <1>1 DEF Room, RoomFor8
<1> HIDE DEF x
<1>3. X64Laid(x) /\ More(m, x) /\ X64Counts(c, m, x) /\ X64Lies(c, m, x, p)
  BY <1>2, X64Passes DEF x
<1>4. x.size \in Nat /\ x.size <= m.size + 8
  BY <1>3 DEF X64Counts, X64Laid, Laid, VM
<1> QED
  BY <1>1, <1>3, <1>4 DEF x

\* An integer, a floating point value or the pointer to a C++ object.
LEMMA X64BindsScalar ==
    ASSUME NEW m, X64Laid(m), Room(m), NEW t \in Scalar \cup {"cxx"}, NEW n \in Nat
    PROVE  X64Bound(m, t, n, gVT_x64_arg(m, t, n))
<1> DEFINE form == IF t \in {"float", "double"} THEN FormOf[t] ELSE "i8"
           c == IF t \in {"float", "double"} THEN "SSE" ELSE "INTEGER"
           p == Val(n, form)
           x == gVT_x64_arg(m, t, n)
<1>1. form \in Forms /\ Bytes[form] <= 8 /\ c \in {"INTEGER", "SSE"}
  BY FormBytes DEF FormOf, Forms
<1>2. x = X64Bind(c, m, p) /\ \A r : dcbArg_x64(r, t) = X64Take(c, r, form, Bytes[form])
  BY FormBytes DEF gVT_x64_arg, dc_callvm_argAggr_x64, dcbArg_x64, dcbArgAggr_x64, X64Bind, X64Take, Scalar
<1>3. p \in PartOf /\ p.len <= 8
  BY <1>1, ValPart
<1> HIDE DEF form, c, p, x
<1>4. X64Laid(x) /\ More(m, x) /\ X64Lies(c, m, x, p) /\ x.size <= m.size + 72 /\ m \in VM
  BY <1>1, <1>2, <1>3, X64PassesRoom
<1>5. /\ Intact(x, n)
      /\ \A r \in Cursors : X64Sync(r, m) =>
            LET a == X64Take(c, r, form, Bytes[form])
            IN  Kept(r, a) /\ X64Sync(a.rd, x) /\ Found(x.mem, a, n)
  BY <1>1, <1>4, X64Whole DEF p
<1>6. X64Bound(m, t, n, x)
  <2>1. t \notin {"s12", "s16", "s24"}
    BY DEF Scalar
  <2> QED
    BY <1>2, <1>4, <1>5, <2>1, X64NoCopy
<1> QED
  BY <1>6 DEF x

\* The struct goes the same way on both sides.
LEMMA X64SameWay ==
    ASSUME NEW r, NEW m, X64Sync(r, m), NEW t
    PROVE  OnStack(r, t) = OnStack(m, t)
  BY DEF X64Sync, OnStack

\* A struct on the stack.
LEMMA X64BindsOnStack ==
    ASSUME NEW m, X64Laid(m), ~Win(m.vt), Room(m), NEW t \in DOMAIN Aggr, NEW n \in Nat, OnStack(m, t)
    PROVE  X64Bound(m, t, n, gVT_x64_arg(m, t, n))
<1> DEFINE p == Val(n, t)
           x == gVT_x64_arg(m, t, n)
           all == 8 * ((Aggr[t].size + 7) \div 8)
<1>1. t \notin {"int", "longlong", "float", "double", "cxx"} /\ t \in Forms /\ Aggr[t].size = Bytes[t]
  BY AggrTypes
<1>2. x = dcVecSkip(dcVecAppend(m, p, p.len), (8 - (p.len % 8)) % 8)
  BY <1>1 DEF gVT_x64_arg, dc_callvm_argAggr_x64
<1>3. /\ X64Laid(x) /\ More(m, x) /\ SameCounts(m, x) /\ x.size = m.size + all /\ At("V", m.size, p) \in x.mem
  BY <1>2, X64Stack
<1> HIDE DEF x
<1>4. m.size \in Nat /\ all \in Nat
  BY <1>1, FormBytes DEF X64Laid, Laid, VM
<1>8. all <= 72
  BY <1>1, AggrTypes
<1> HIDE DEF all
<1>5. Intact(x, n)
  BY <1>1, <1>3, <1>4, FoundVal
<1>6. ASSUME NEW r \in Cursors, X64Sync(r, m)
      PROVE  LET a == dcbArg_x64(r, t) IN Kept(r, a) /\ X64Sync(a.rd, x) /\ Found(x.mem, a, n)
  <2> DEFINE a == dcbArg_x64(r, t)
             sp == r.sp + all
             q == [r EXCEPT !.sp = sp]
             off == m.size
  <2>1. OnStack(r, t) /\ ~Win(r.vt) /\ r.sp = m.size
    BY <1>6, X64SameWay DEF X64Sync
  <2>2. a = Access(q, <<Loc("V", off, Bytes[t])>>, t)
    BY <1>1, <2>1 DEF dcbArg_x64, dcbArgAggr_x64, all
  <2>3. sp \in Nat /\ sp = x.size
    BY <1>3, <1>4, <2>1
  <2> HIDE DEF sp, off, a
  <2>4. Advances(r, q) /\ q.i = r.i /\ q.f = r.f /\ q.sp = sp
    BY <2>3 DEF Advances, Cursors
  <2> HIDE DEF q
  <2>5. X64Sync(q, x)
    BY <1>3, <1>6, <2>3, <2>4 DEF X64Sync, More, SameCounts, Advances
  <2>6. off \in Nat /\ At("V", off, Val(n, t)) \in x.mem
    BY <1>3, <1>4 DEF off
  <2>7. Kept(r, a) /\ a.rd = q /\ Found(x.mem, a, n)
    BY <1>1, <2>2, <2>4, <2>6, TakenAt
  <2> QED
    BY <2>5, <2>7 DEF a
<1>7. X64Bound(m, t, n, x)
  <2>1. m \in VM /\ x.size <= m.size + 72
    BY <1>3, <1>4, <1>8 DEF X64Laid, Laid
  <2> QED
    BY <1>3, <1>5, <1>6, <2>1, X64NoCopy
<1> QED
  BY <1>7 DEF x

\* The classes of the structs that fit into two registers.
LEMMA AggrClasses ==
    /\ Aggr["s8"].classes = <<"INTEGER">> /\ Aggr["s12"].classes = <<"SSE", "SSE">>
    /\ Aggr["s16"].classes = <<"INTEGER", "SSE">> /\ Aggr["s24"].classes = <<"MEMORY">>
    /\ Of(<<"INTEGER">>, "INTEGER") = 1 /\ Of(<<"SSE", "SSE">>, "SSE") = 2
    /\ Of(<<"INTEGER", "SSE">>, "INTEGER") = 1 /\ Of(<<"INTEGER", "SSE">>, "SSE") = 1
<1>1. /\ Aggr["s8"].classes = <<"INTEGER">> /\ Aggr["s12"].classes = <<"SSE", "SSE">>
      /\ Aggr["s16"].classes = <<"INTEGER", "SSE">> /\ Aggr["s24"].classes = <<"MEMORY">>
  BY DEF Aggr
<1>2. ASSUME NEW S, NEW a, S = {a} PROVE Cardinality(S) = 1
  BY <1>2, FS_Singleton
<1>3. {k \in DOMAIN <<"INTEGER">> : <<"INTEGER">>[k] = "INTEGER"} = {1}
  OBVIOUS
<1>4. {k \in DOMAIN <<"SSE", "SSE">> : <<"SSE", "SSE">>[k] = "SSE"} = 1..2
  OBVIOUS
<1>5. {k \in DOMAIN <<"INTEGER", "SSE">> : <<"INTEGER", "SSE">>[k] = "INTEGER"} = {1}
  OBVIOUS
<1>6. {k \in DOMAIN <<"INTEGER", "SSE">> : <<"INTEGER", "SSE">>[k] = "SSE"} = {2}
  OBVIOUS
<1>7. Cardinality(1..2) = 2
  <2> DEFINE a == 1
             b == 2
  <2>1. a \in Int /\ b \in Int
    OBVIOUS
  <2> HIDE DEF a, b
  <2>2. Cardinality(a..b) = IF a > b THEN 0 ELSE b - a + 1
    BY <2>1, FS_Interval
  <2> QED
    BY <2>2 DEF a, b
<1> QED
  BY <1>1, <1>2, <1>3, <1>4, <1>5, <1>6, <1>7 DEF Of

\* The eightbytes of a struct.
LEMMA EightByteParts ==
    ASSUME NEW n \in Nat
    PROVE  /\ EightByte(n, "s8", 1) = Val(n, "s8")
           /\ \A t \in {"s12", "s16"}, k \in {1, 2} : EightByte(n, t, k) \in PartOf /\ EightByte(n, t, k).len <= 8
           /\ \A j : \A t \in {"s12", "s16"}, k \in {1, 2} : EightByte(j, t, k).len = EightByte(n, t, k).len
           /\ \A t \in {"s12", "s16"} : EightByte(n, t, 1).len = 8
<1>1. Aggr["s8"].size = 8 /\ Aggr["s12"].size = 12 /\ Aggr["s16"].size = 16
  BY DEF Aggr
<1>2. EightByte(n, "s8", 1) = Val(n, "s8")
  BY <1>1, FormBytes DEF EightByte, Val
<1>3. ASSUME NEW t \in {"s12", "s16"}, NEW k \in {1, 2}
      PROVE  EightByte(n, t, k) \in PartOf /\ EightByte(n, t, k).len <= 8
  BY <1>1, <1>3 DEF EightByte, Part, PartOf, Forms
<1>4. ASSUME NEW t \in {"s12", "s16"}, NEW k \in {1, 2}, NEW j PROVE EightByte(j, t, k).len = EightByte(n, t, k).len
  BY <1>1, <1>4 DEF EightByte, Part
<1>5. ASSUME NEW t \in {"s12", "s16"} PROVE EightByte(n, t, 1).len = 8
  BY <1>1, <1>5 DEF EightByte, Part
<1> QED
  BY <1>2, <1>3, <1>4, <1>5

\* A struct in one register.
LEMMA X64BindsOne ==
    ASSUME NEW m, X64Laid(m), Room(m), NEW n \in Nat, Win(m.vt) \/ ~OnStack(m, "s8")
    PROVE  X64Bound(m, "s8", n, gVT_x64_arg(m, "s8", n))
<1> DEFINE p == Val(n, "s8")
           x == gVT_x64_arg(m, "s8", n)
           c == "INTEGER"
<1>0. "s8" \in Forms /\ Bytes["s8"] = 8 /\ c \in {"INTEGER", "SSE"}
  BY FormBytes DEF Forms
<1>a. Aggr["s8"].size = 8
  BY DEF Aggr
<1>1. x = X64Bind(c, m, p)
  BY <1>a, AggrClasses, EightByteParts DEF gVT_x64_arg, dc_callvm_argAggr_x64, ArgClass, X64Bind
<1>2. ASSUME NEW r, X64Sync(r, m) PROVE dcbArg_x64(r, "s8") = X64Take(c, r, "s8", Bytes["s8"])
  <2>1. Win(r.vt) \/ ~OnStack(r, "s8")
    BY <1>2, X64SameWay DEF X64Sync
  <2>2. EightByte(0, "s8", 1).len = 8
    BY DEF EightByte, Part, Aggr
  <2> QED
    BY <1>0, <1>a, <2>1, <2>2, AggrClasses DEF dcbArg_x64, dcbArgAggr_x64, TakeClass, X64Take
<1>3. p \in PartOf /\ p.len <= 8
  BY <1>0, ValPart
<1> HIDE DEF c, p, x
<1>4. X64Laid(x) /\ More(m, x) /\ X64Lies(c, m, x, p) /\ x.size <= m.size + 72 /\ m \in VM
  BY <1>0, <1>1, <1>3, X64PassesRoom
<1>5. /\ Intact(x, n)
      /\ \A r \in Cursors : X64Sync(r, m) =>
            LET a == X64Take(c, r, "s8", Bytes["s8"])
            IN  Kept(r, a) /\ X64Sync(a.rd, x) /\ Found(x.mem, a, n)
  BY <1>0, <1>4, X64Whole DEF p
<1>6. X64Bound(m, "s8", n, x)
  BY <1>2, <1>4, <1>5, X64NoCopy
<1> QED
  BY <1>6 DEF x

\* A struct in two registers.
LEMMA X64BindsTwo ==
    ASSUME NEW m, X64Laid(m), ~Win(m.vt), NEW t \in {"s12", "s16"}, NEW n \in Nat, ~OnStack(m, t)
    PROVE  X64Bound(m, t, n, gVT_x64_arg(m, t, n))
<1> DEFINE c == IF t = "s12" THEN "SSE" ELSE "INTEGER"
           d == "SSE"
           p1 == EightByte(n, t, 1)
           p2 == EightByte(n, t, 2)
           y == X64Bind(c, m, p1)
           x == X64Bind(d, y, p2)
           len == p2.len
<1>1. c \in {"INTEGER", "SSE"} /\ d \in {"INTEGER", "SSE"} /\ Aggr[t].classes = <<c, d>>
  BY AggrClasses
<1>2. gVT_x64_arg(m, t, n) = x
  BY <1>1 DEF gVT_x64_arg, dc_callvm_argAggr_x64, ArgClass, X64Bind
<1>3. p1 \in PartOf /\ p1.len <= 8 /\ p2 \in PartOf /\ p2.len <= 8 /\ p1.len = 8
  BY EightByteParts
<1>4. /\ m.i \in Nat /\ m.f \in Nat /\ m.i <= 6 /\ m.hid \in {0, 1, NoReg} /\ m \in VM /\ m.size \in Nat
  BY DEF X64Laid, Laid, VM
<1>5. X64Free(c, m) /\ (c = "SSE" => m.f + 1 < 8) /\ (c = "INTEGER" => m.f < 8)
  <2>1. CASE t = "s12"
    <3>1. ~(m.f + 2 > 8)
      BY <2>1, AggrClasses DEF OnStack, numFloatRegs
    <3> QED
      BY <1>4, <2>1, <3>1 DEF X64Free, AsInteger
  <2>2. CASE t = "s16"
    <3>1. ~(m.f + 1 > 8) /\ ~(m.i + 1 > 6)
      BY <2>2, AggrClasses DEF OnStack, numFloatRegs, numIntRegs
    <3>2. PastHidden(m, m.i) < numIntRegs(m.vt)
      BY <1>4, <3>1, X64Past DEF numIntRegs
    <3> QED
      BY <1>4, <2>2, <3>1, <3>2 DEF X64Free, AsInteger
  <2> QED
    BY <2>1, <2>2
<1>6. ASSUME NEW r, X64Sync(r, m)
      PROVE  dcbArg_x64(r, t) = LET one == X64Take(c, r, t, 8)
                                    two == X64Take(d, one.rd, t, len)
                                IN  Access(two.rd, one.at \o two.at, t)
  <2>1. ~OnStack(r, t) /\ ~Win(r.vt)
    BY <1>6, X64SameWay DEF X64Sync
  <2>2. \A q : TakeClass(q, t, 1) = X64Take(c, q, t, 8) /\ TakeClass(q, t, 2) = X64Take(d, q, t, len)
    <3>1. EightByte(0, t, 1).len = 8 /\ EightByte(0, t, 2).len = len
      BY <1>3, EightByteParts
    <3> QED
      BY <1>1, <3>1 DEF TakeClass, X64Take
  <2> QED
    BY <1>1, <2>1, <2>2 DEF dcbArg_x64, dcbArgAggr_x64
<1> HIDE DEF c, p1, p2, y, x, len
<1>7. X64Laid(y) /\ More(m, y) /\ X64Counts(c, m, y) /\ X64Lies(c, m, y, p1)
  BY <1>1, <1>3, <1>5, X64Passes DEF y
<1>8. X64Free(d, y) /\ ~Win(y.vt)
  BY <1>1, <1>4, <1>5, <1>7 DEF X64Counts, X64Free, AsInteger, More
<1> HIDE DEF d
<1>9. X64Laid(x) /\ More(y, x) /\ X64Lies(d, y, x, p2) /\ X64Counts(d, y, x)
  BY <1>1, <1>3, <1>7, <1>8, X64Passes DEF x
<1>10. More(m, x)
  BY <1>4, <1>7, <1>9, MoreTwice
<1>11. /\ Intact(x, n)
       /\ \A r \in Cursors : X64Sync(r, m) =>
            LET one == X64Take(c, r, t, 8)
                two == X64Take(d, one.rd, t, len)
                a == Access(two.rd, one.at \o two.at, t)
            IN  Kept(r, a) /\ X64Sync(a.rd, x) /\ Found(x.mem, a, n)
  BY <1>7, <1>9, X64Two DEF p1, p2, len
<1>13. x.size <= m.size + 72
  <2>1. x.size \in Nat /\ y.size \in Nat /\ y.size <= m.size + 8 /\ x.size <= y.size + 8
    BY <1>7, <1>9 DEF X64Counts, X64Laid, Laid, VM
  <2> QED
    BY <1>4, <2>1
<1>12. X64Bound(m, t, n, x)
  BY <1>4, <1>6, <1>9, <1>10, <1>11, <1>13, X64NoCopy
<1> QED
  BY <1>2, <1>12

\* On Windows a larger struct is copied to the end of the vector and its address
\* passed.
X64Copied(m, t, n) ==
    LET copy == ((m.copies - Aggr[t].size) \div 16) * 16
    IN  Put([m EXCEPT !.copies = copy], "V", copy, Val(n, t))

\* The copy of a struct lies behind everything else.
LEMMA X64Copies ==
    ASSUME NEW m, X64Laid(m), Room(m), NEW t \in {"s12", "s16", "s24"}, NEW n \in Nat
    PROVE  LET y == X64Copied(m, t, n)
           IN  /\ X64Laid(y) /\ Grown(m, y) /\ SameCounts(m, y) /\ y.size = m.size
               /\ y.size + 8 <= y.copies /\ Used(y) <= Used(m) + 40
               /\ \E off \in Nat : At("V", off, Val(n, t)) \in y.mem
<1> DEFINE copy == ((m.copies - Aggr[t].size) \div 16) * 16
           p == Val(n, t)
           z == [m EXCEPT !.copies = copy]
           y == Put(z, "V", copy, p)
           g == At("V", copy, p)
<1>1. /\ m \in VM /\ m.size \in Nat /\ m.copies \in Int /\ m.copies <= VecTotal /\ VecTotal \in Nat
      /\ m.size + 72 <= m.copies /\ m.i \in Nat /\ m.f \in Nat
  BY VecAssumption DEF X64Laid, Laid, VM, Room
<1>2. p \in PartOf /\ p.len = Aggr[t].size /\ p.len \in Nat /\ p.len <= 24
  <2>1. t \in Forms /\ Aggr[t].size = Bytes[t] /\ Bytes[t] \in Nat /\ Bytes[t] <= 24
    BY AggrTypes
  <2> QED
    BY <2>1, ValPart
<1>3. copy \in Int /\ copy + p.len <= m.copies /\ m.copies <= copy + p.len + 15
  <2> DEFINE d == m.copies - p.len
  <2>1. d \in Int
    BY <1>1, <1>2
  <2> HIDE DEF d
  <2>2. (d \div 16) * 16 \in Int /\ (d \div 16) * 16 <= d /\ d <= (d \div 16) * 16 + 15
    BY <2>1
  <2> QED
    BY <1>1, <1>2, <2>2 DEF d
<1> HIDE DEF copy, p
<1>4. copy \in Nat /\ m.size + 8 <= copy /\ copy <= VecTotal
  BY <1>1, <1>2, <1>3
<1>5. /\ z \in VM /\ z.mem = m.mem /\ z.vt = m.vt /\ z.hid = m.hid /\ z.i = m.i /\ z.f = m.f /\ z.d = m.d
      /\ z.size = m.size /\ z.copies = copy
  BY <1>1, <1>3 DEF VM
<1>6. Laid(m, 0, 0, 8 * m.i, 8 * m.f) /\ Disjoint(m.mem) /\ \A e \in m.mem : e \in Entry
  BY <1>1 DEF X64Laid, Laid, VM
<1> HIDE DEF z
<1>7. Clear(z, "V", copy, p)
  <2>1. ASSUME NEW e \in m.mem, e.file = "V" PROVE e.off + e.len <= copy \/ copy + p.len <= e.off
    <3>1. e.off \in Nat /\ e.len \in Nat
      BY <1>6 DEF Entry
    <3>2. e.off + e.len <= 0 \/ e.off + e.len <= m.size \/ m.copies <= e.off
      BY <1>6, <2>1 DEF Laid
    <3> QED
      BY <1>1, <1>2, <1>3, <1>4, <3>1, <3>2
  <2> QED
    BY <1>2, <1>4, <1>5, <1>6, <2>1 DEF Clear, Files
<1>8. y = [z EXCEPT !.mem = @ \cup {g}] /\ y \in VM /\ g \in Entry /\ Disjoint(y.mem)
  BY <1>7, PutClear
<1>9. g.file = "V" /\ g.off = copy /\ g.len = p.len
  BY DEF At
<1> HIDE DEF y, g
<1>10. /\ y.mem = m.mem \cup {g} /\ y.vt = m.vt /\ y.hid = m.hid /\ y.i = m.i /\ y.f = m.f /\ y.d = m.d
       /\ y.size = m.size /\ y.copies = copy
  BY <1>5, <1>8 DEF VM
<1>11. Laid(y, 0, 0, 8 * y.i, 8 * y.f)
  <2> DEFINE ni == 8 * m.i
             nf == 8 * m.f
  <2>1. ni \in Nat /\ nf \in Nat /\ Laid(m, 0, 0, ni, nf)
    BY <1>1, <1>6
  <2> HIDE DEF ni, nf
  <2>2. ASSUME NEW e \in y.mem
        PROVE  /\ e.file = "I" => e.off + e.len <= ni
               /\ e.file = "F" => e.off + e.len <= nf
               /\ e.file = "V" => \/ e.off + e.len <= 0
                                  \/ 0 <= e.off /\ (e.off + e.len <= y.size \/ y.copies <= e.off)
    <3>1. CASE e = g
      BY <1>4, <1>9, <1>10, <3>1
    <3>2. CASE e \in m.mem
      <4>1. e.off \in Nat /\ e.len \in Nat
        BY <1>6, <3>2 DEF Entry
      <4>2. copy <= m.copies
        BY <1>1, <1>2, <1>3
      <4> QED
        BY <1>1, <1>4, <1>10, <2>1, <3>2, <4>1, <4>2 DEF Laid
    <3> QED
      BY <1>10, <3>1, <3>2
  <2>3. Laid(y, 0, 0, ni, nf)
    BY <1>1, <1>4, <1>8, <1>10, <2>1, <2>2 DEF Laid
  <2> QED
    BY <1>10, <2>3 DEF ni, nf
<1>12. X64Laid(y)
  <2>1. Gains(m, y, g) /\ m.i <= 6
    BY <1>10 DEF Gains, X64Laid
  <2> QED
    BY <1>9, <1>10, <1>11, <2>1, X64Clear
<1>13. Used(y) <= Used(m) + 40 /\ y.size + 8 <= y.copies
  BY <1>1, <1>2, <1>3, <1>4, <1>10 DEF Used
<1>14. y = X64Copied(m, t, n)
  BY DEF X64Copied, y, z, copy, p
<1>15. Grown(m, y) /\ SameCounts(m, y) /\ g \in y.mem
  BY <1>8, <1>10 DEF Grown, SameCounts
<1> QED
  BY <1>4, <1>10, <1>12, <1>13, <1>14, <1>15 DEF g, p

\* A struct that is copied.
LEMMA X64BindsCopy ==
    ASSUME NEW m, X64Laid(m), Win(m.vt), Room(m), NEW t \in {"s12", "s16", "s24"}, NEW n \in Nat
    PROVE  X64Bound(m, t, n, gVT_x64_arg(m, t, n))
<1> DEFINE c == "INTEGER"
           p == Val(n, "i8")
           y == X64Copied(m, t, n)
           x == gVT_x64_arg(m, t, n)
<1>0. "i8" \in Forms /\ Bytes["i8"] = 8 /\ c \in {"INTEGER", "SSE"} /\ Aggr[t].size # 8 /\ m \in VM
      /\ Aggr[t].size = Bytes[t] /\ t \in Forms
  BY FormBytes DEF Forms, Aggr, X64Laid, Laid
<1>1. x = X64Bind(c, y, p)
  BY <1>0 DEF gVT_x64_arg, dc_callvm_argAggr_x64, X64Copied, X64Bind
<1>2. ASSUME NEW r, Win(r.vt) PROVE dcbArg_x64(r, t) = X64Take(c, r, "i8", Bytes["i8"])
  BY <1>0, <1>2 DEF dcbArg_x64, dcbArgAggr_x64, X64Take
<1>3. p \in PartOf /\ p.len <= 8
  BY <1>0, ValPart
<1> HIDE DEF x, y, p, c
<1>4. /\ X64Laid(y) /\ Grown(m, y) /\ SameCounts(m, y) /\ y.size = m.size
      /\ RoomFor8(y) /\ Used(y) <= Used(m) + 40
      /\ \E off \in Nat : At("V", off, Val(n, t)) \in y.mem
  BY X64Copies DEF y, RoomFor8
<1>5. X64Laid(x) /\ More(y, x) /\ X64Counts(c, y, x) /\ X64Lies(c, y, x, p)
  BY <1>0, <1>1, <1>3, <1>4, X64Passes
<1>6. /\ Intact(x, n)
      /\ \A r \in Cursors : X64Sync(r, y) =>
            LET a == X64Take(c, r, "i8", Bytes["i8"])
            IN  Kept(r, a) /\ X64Sync(a.rd, x) /\ Found(x.mem, a, n)
  BY <1>0, <1>5, X64Whole DEF p
<1>7. Grown(m, x)
  BY <1>4, <1>5 DEF Grown, More
<1>8. Used(x) <= Used(m) + 72
  <2>1. /\ x.size \in Nat /\ y.size \in Nat /\ x.copies \in Int /\ y.copies \in Int /\ m.size \in Nat /\ m.copies \in Int
        /\ VecTotal \in Int /\ x.copies = y.copies /\ x.size <= y.size + 8
    BY <1>0, <1>4, <1>5, VecAssumption DEF X64Counts, X64Laid, Laid, VM, More
  <2> QED
    BY <1>4, <2>1 DEF Used
<1>9. ASSUME NEW r \in Cursors, X64Sync(r, m)
      PROVE  LET a == dcbArg_x64(r, t)
             IN  Kept(r, a) /\ X64Sync(a.rd, x) /\ Found(x.mem, a, n) /\ CopyIntact(x, r, t, n)
  <2>1. X64Sync(r, y) /\ Win(r.vt)
    BY <1>4, <1>9 DEF X64Sync, Grown, SameCounts
  <2>2. PICK off \in Nat : At("V", off, Val(n, t)) \in y.mem
    BY <1>4
  <2> DEFINE e == At("V", off, Val(n, t))
  <2>3. e \in x.mem
    BY <1>5, <2>2 DEF More
  <2>4. e = [file |-> "V", off |-> e.off, len |-> Aggr[t].size, arg |-> n, form |-> t, from |-> 0]
    BY <1>0 DEF At, Val, Part
  <2> HIDE DEF e
  <2>5. CopyIntact(x, r, t, n)
    BY <2>3, <2>4 DEF CopyIntact
  <2> QED
    BY <1>2, <1>6, <2>1, <2>5
<1>10. X64Bound(m, t, n, x)
  BY <1>5, <1>6, <1>7, <1>8, <1>9 DEF X64Bound
<1> QED
  BY <1>10 DEF x

\* x64, System V and Windows.
LEMMA X64Binds ==
    ASSUME NEW m, X64Laid(m), Room(m), NEW t \in Scalar \cup {"cxx"} \cup DOMAIN Aggr, NEW n \in Nat
    PROVE  X64Bound(m, t, n, gVT_x64_arg(m, t, n))
<1>1. t = "s24" => OnStack(m, t)
  BY AggrClasses DEF OnStack
<1> QED
  BY <1>1, X64BindsScalar, X64BindsOnStack, X64BindsOne, X64BindsTwo, X64BindsCopy, AggrTypes
=============================================================================
