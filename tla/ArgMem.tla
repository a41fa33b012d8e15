------------------------------- MODULE ArgMem -------------------------------
(***************************************************************************)
(* The memory through which dyncall passes arguments: the register images  *)
(* and the argument vector of a call VM on the calling side, the DCArgs    *)
(* cursor of a callback on the called side.                                *)
(*                                                                         *)
(* The value of an argument is abstracted to its number in the signature   *)
(* and to its form, the representation it has in memory.  The memory is a  *)
(* set of extents, each of which says which bytes of which argument lie    *)
(* where; storing into a place forgets every extent it overlaps, so bytes  *)
(* that belong to no extent are junk.                                      *)
(***************************************************************************)
EXTENDS Naturals, Sequences, FiniteSets

CONSTANT VecTotal   \* mTotal: the bytes of the argument vector

ASSUME VecAssumption == VecTotal \in Nat

\* Sizes of the forms: integers, float, double, a float widened to double,
\* and the structs that ConvX64 passes by value.
Bytes == [i1 |-> 1, i2 |-> 2, i4 |-> 4, i8 |-> 8, f4 |-> 4, f8 |-> 8, w8 |-> 8,
          s8 |-> 8, s12 |-> 12, s16 |-> 16, s24 |-> 24]

\* The form of a value that is stored as its type says.
FormOf == [char |-> "i1", short |-> "i2", int |-> "i4", longlong |-> "i8",
           float |-> "f4", double |-> "f8"]

NoReg == 99

\* The state of a call VM: the vtable that dcMode chose and mError; the counts
\* of used registers (i, f, and d where the code keeps a third one); the
\* register kept for a hidden return pointer; where the copies of large structs
\* begin; mSize of the vector; and the memory.
NewVM == [vt |-> "none", err |-> FALSE, i |-> 0, f |-> 0, d |-> 0,
          hid |-> NoReg, copies |-> VecTotal, size |-> 0, mem |-> {}]

\* The end of every dcMode: dc_callvm_base_init with the vtable of the mode, or
\* mError when the build has none for it.
dc_callvm_base_init(vm, vt) ==
    IF vt = "unsupported" THEN [vm EXCEPT !.err = TRUE] ELSE [vm EXCEPT !.vt = vt, !.err = FALSE]

\* len bytes, from byte `from' on, of argument arg in the given form.
Part(n, form, from, len) == [arg |-> n, form |-> form, from |-> from, len |-> len]
Val(n, form) == Part(n, form, 0, Bytes[form])

Overlap(e, g) == e.file = g.file /\ e.off < g.off + g.len /\ g.off < e.off + e.len

\* A store of part p at offset off of a register file, or of the vector "V".
Put(vm, file, off, p) ==
    LET e == [file |-> file, off |-> off, len |-> p.len,
              arg |-> p.arg, form |-> p.form, from |-> p.from]
    IN  [vm EXCEPT !.mem = {g \in @ : ~Overlap(g, e)} \cup {e}]

\* dcVecAppend of `size' bytes that begin with part p: what does not fit is
\* dropped without any report.
dcVecAppend(vm, p, size) ==
    IF vm.size + size <= VecTotal
    THEN [Put(vm, "V", vm.size, p) EXCEPT !.size = @ + size]
    ELSE vm

dcVecResize(vm, size) == [vm EXCEPT !.size = size, !.mem = {}]
dcVecSkip(vm, size) == [vm EXCEPT !.size = @ + size]
dcVecAlign(vm, align) == [vm EXCEPT !.size = ((@ + align - 1) \div align) * align]

\* Mutant: no skip, so a 64 bit value may lie on any word.
SkipNoWord(vm) == dcVecSkip(vm, 0)

\* dcVecSkip(size & 4): to the next multiple of 8 in a vector of words.
SkipOddWord(vm) == dcVecSkip(vm, IF (vm.size \div 4) % 2 = 1 THEN 4 ELSE 0)

\* The next even register number.
RoundEven(i) == i + (i % 2)

---------------------------------------------------------------------------
\* The cursor of a callback: registers and stack bytes already consumed.
Cursor(vt, sp) == [vt |-> vt, i |-> 0, f |-> 0, d |-> 0, sp |-> sp, hid |-> NoReg]

Loc(file, off, len) == [file |-> file, off |-> off, len |-> len]

\* What a dcbArg function did: the cursor after it, the places it read one
\* after the other, and the form in which it took the bytes.
Access(rd, at, form) == [rd |-> rd, at |-> at, form |-> form]

\* Place l holds the bytes of argument n, in that form, from byte `from' on.
Holds(mem, l, n, form, from) ==
    \E e \in mem : /\ e.file = l.file /\ e.off <= l.off
                   /\ l.off + l.len <= e.off + e.len
                   /\ e.arg = n /\ e.form = form
                   /\ e.from + (l.off - e.off) = from

\* The argument of 1..n whose value an access yields; 0 when it yields junk.
Loaded(mem, a, n) ==
    LET from(k) == IF k = 1 THEN 0 ELSE a.at[1].len
        ok == {m \in 1..n : \A k \in DOMAIN a.at : Holds(mem, a.at[k], m, a.form, from(k))}
    IN  IF ok = {} THEN 0 ELSE CHOOSE m \in ok : TRUE
=============================================================================
