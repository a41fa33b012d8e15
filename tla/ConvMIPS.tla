------------------------------ MODULE ConvMIPS ------------------------------
(***************************************************************************)
(* The MIPS calling conventions of dyncall: EABI, o32, n32 and n64, for    *)
(* little endian builds with hard float, and how dyncall callbacks take    *)
(* their arguments.  "int" stands for every type promoted to int (to 64    *)
(* bits on n32 and n64).                                                   *)
(***************************************************************************)
EXTENDS ArgMem

\* The one vtable of a build, or one for what follows the ellipsis.
MipsMode(vm, mode, native, varargs) ==
    dc_callvm_base_init(vm,
        CASE mode \in {"default", "this", "ellipsis", native} -> native
          [] mode = "varargs" -> varargs
          [] OTHER -> "unsupported")

---------------------------------------------------------------------------
\* EABI: eight integer registers, which doubles also use in even pairs, and
\* eight registers for floats.

dc_callvm_reset_mips_eabi(vm) == dcVecResize([vm EXCEPT !.i = 0, !.f = 0], 0)

dc_callvm_argInt_mips_eabi(vm, p) ==
    IF vm.i < 8 THEN [Put(vm, "I", 4 * vm.i, p) EXCEPT !.i = @ + 1]
    ELSE dcVecAppend(vm, p, 4)

\* argLongLong, and argDouble by way of it.
dc_callvm_argLongLong_mips_eabi(vm, p) ==
    IF vm.i < 7
    THEN [Put(vm, "I", 4 * RoundEven(vm.i), p) EXCEPT !.i = RoundEven(@) + 2]
    ELSE dcVecAppend(SkipOddWord([vm EXCEPT !.i = 8]), p, 8)

dc_callvm_argFloat_mips_eabi(vm, p) ==
    IF vm.f < 8 THEN [Put(vm, "F", 4 * vm.f, p) EXCEPT !.f = @ + 1]
    ELSE dcVecAppend(vm, p, 4)

gVT_mips_eabi_arg(vm, t, n) ==
    LET p == Val(n, FormOf[t])
    IN  CASE t = "int" -> dc_callvm_argInt_mips_eabi(vm, p)
          [] t \in {"longlong", "double"} -> dc_callvm_argLongLong_mips_eabi(vm, p)
          [] t = "float" -> dc_callvm_argFloat_mips_eabi(vm, p)

dc_callvm_mode_mips_eabi(vm, mode) == MipsMode(vm, mode, "mips_eabi", "mips_eabi")

\* dcbArgInt.
mips_dcbArgInt(rd, form) ==
    IF rd.i < 8 THEN Access([rd EXCEPT !.i = @ + 1], <<Loc("I", 4 * rd.i, 4)>>, form)
    ELSE Access([rd EXCEPT !.sp = @ + 4], <<Loc("V", rd.sp, 4)>>, form)

\* dcbArgULongLong, and dcbArgDouble by way of it: it aligns the register count
\* and, in registers or not, the stack pointer.
mips_dcbArgULongLong(rd, form) ==
    LET at == [rd EXCEPT !.i = RoundEven(@), !.sp = IF (@ \div 4) % 2 = 1 THEN @ + 4 ELSE @]
        one == mips_dcbArgInt(at, form)
        two == mips_dcbArgInt(one.rd, form)
    IN  Access(two.rd, one.at \o two.at, form)

mips_dcbArgFloat(rd) ==
    IF rd.f < 8 THEN Access([rd EXCEPT !.f = @ + 1], <<Loc("F", 4 * rd.f, 4)>>, "f4")
    ELSE Access([rd EXCEPT !.sp = @ + 4], <<Loc("V", rd.sp, 4)>>, "f4")

dcbArg_mips_eabi(rd, t) ==
    CASE t = "int" -> mips_dcbArgInt(rd, "i4")
      [] t \in {"longlong", "double"} -> mips_dcbArgULongLong(rd, FormOf[t])
      [] t = "float" -> mips_dcbArgFloat(rd)

---------------------------------------------------------------------------
\* o32: everything is pushed, and the first two arguments, when they are
\* floating point, are in registers too.  i is mArgCount.

dc_callvm_reset_mips_o32(vm) == dcVecResize([vm EXCEPT !.i = 0], 0)

o32_InRegister(vm, p) ==
    IF vm.i < 2 THEN Put(vm, "F", 8 * vm.i, p) ELSE vm

dc_callvm_argInt_mips_o32(vm, p) == [dcVecAppend(vm, p, 4) EXCEPT !.i = @ + 1]
dc_callvm_argLongLong_mips_o32(vm, p) ==
    [dcVecAppend(SkipOddWord(vm), p, 8) EXCEPT !.i = @ + 1]
dc_callvm_argFloat_mips_o32(vm, p) ==
    [o32_InRegister(dcVecAppend(vm, p, 4), p) EXCEPT !.i = @ + 1]
dc_callvm_argDouble_mips_o32(vm, p) ==
    [o32_InRegister(dcVecAppend(SkipOddWord(vm), p, 8), p) EXCEPT !.i = @ + 1]

gVT_mips_o32_arg(vm, t, n) ==
    LET p == Val(n, FormOf[t])
    IN  CASE t = "int" -> dc_callvm_argInt_mips_o32(vm, p)
          [] t = "longlong" -> dc_callvm_argLongLong_mips_o32(vm, p)
          [] t = "float" -> dc_callvm_argFloat_mips_o32(vm, p)
          [] t = "double" -> dc_callvm_argDouble_mips_o32(vm, p)

dc_callvm_mode_mips_o32(vm, mode) == MipsMode(vm, mode, "mips_o32", "mips_o32")

\* dcbArgInt and dcbArgULongLong; the first integer ends the use of registers.
o32_dcbArgInt(rd) ==
    Access([rd EXCEPT !.f = 2, !.sp = @ + 4], <<Loc("V", rd.sp, 4)>>, "i4")
Aligned(sp) == IF (sp \div 4) % 2 = 1 THEN sp + 4 ELSE sp
o32_dcbArgULongLong(rd) ==
    LET sp == Aligned(rd.sp)
    IN  Access([rd EXCEPT !.f = 2, !.sp = sp + 8], <<Loc("V", sp, 8)>>, "i8")

\* dcbArgFloat, dcbArgDouble: the image of the registers lies 16 bytes before
\* the arguments, so the stack pointer leads to both.
o32_dcbArgFloat(rd) ==
    LET at == IF rd.f < 2 THEN Loc("F", Aligned(rd.sp), 4) ELSE Loc("V", rd.sp, 4)
    IN  Access([rd EXCEPT !.f = IF @ < 2 THEN @ + 1 ELSE @, !.sp = @ + 4], <<at>>, "f4")
o32_dcbArgDouble(rd) ==
    LET sp == Aligned(rd.sp)
        at == IF rd.f < 2 THEN Loc("F", sp, 8) ELSE Loc("V", sp, 8)
    IN  Access([rd EXCEPT !.f = IF @ < 2 THEN @ + 1 ELSE @, !.sp = sp + 8], <<at>>, "f8")

dcbArg_mips_o32(rd, t) ==
    CASE t = "int" -> o32_dcbArgInt(rd)
      [] t = "longlong" -> o32_dcbArgULongLong(rd)
      [] t = "float" -> o32_dcbArgFloat(rd)
      [] t = "double" -> o32_dcbArgDouble(rd)

---------------------------------------------------------------------------
\* n64: eight slots, each an integer or a floating point register.

dc_callvm_reset_mips_n64(vm) == dcVecResize([vm EXCEPT !.i = 0], 0)

Slot(vm, file, p) == [Put(vm, file, 8 * vm.i, p) EXCEPT !.i = @ + 1]

dc_callvm_argLongLong_mips_n64(vm, p) ==
    IF vm.i < 8 THEN Slot(vm, "I", p) ELSE dcVecAppend(vm, p, 8)
dc_callvm_argDouble_mips_n64(vm, p) ==
    IF vm.i < 8 THEN Slot(vm, "F", p) ELSE dcVecAppend(vm, p, 8)
dc_callvm_argFloat_mips_n64(vm, p) ==
    IF vm.i < 8 THEN Slot(vm, "F", p) ELSE dcVecSkip(dcVecAppend(vm, p, 4), 4)

\* argDouble and argFloat after the ellipsis: doubles in integer registers.
dc_callvm_argFloat_mips_n64_ellipsis(vm, t, n) ==
    dc_callvm_argLongLong_mips_n64(vm, Val(n, IF t = "float" THEN "w8" ELSE "f8"))

\* gVT_mips_n64.
gVT_mips_n64_arg(vm, t, n) ==
    CASE t \in {"int", "longlong"} -> dc_callvm_argLongLong_mips_n64(vm, Val(n, "i8"))
      [] t = "double" -> dc_callvm_argDouble_mips_n64(vm, Val(n, "f8"))
      [] t = "float" -> dc_callvm_argFloat_mips_n64(vm, Val(n, "f4"))

\* gVT_mips_n64_ellipsis.
gVT_mips_n64_ellipsis_arg(vm, t, n) ==
    IF t \in {"int", "longlong"} THEN gVT_mips_n64_arg(vm, t, n)
    ELSE dc_callvm_argFloat_mips_n64_ellipsis(vm, t, n)

dc_callvm_mode_mips_n64(vm, mode) == MipsMode(vm, mode, "mips_n64", "mips_n64_ellipsis")

\* n32 passes arguments with the code of n64.
dc_callvm_arg_mips_n32(vm, t, n) == gVT_mips_n64_arg(vm, t, n)
gVT_mips_n32_ellipsis_arg(vm, t, n) == gVT_mips_n64_ellipsis_arg(vm, t, n)
dc_callvm_mode_mips_n32(vm, mode) == MipsMode(vm, mode, "mips_n32", "mips_n32_ellipsis")

\* dcbArgLongLong, dcbArgDouble and dcbArgFloat of n64 (and n32).
dcbArg_mips64(rd, t) ==
    LET form == IF t = "int" THEN "i8" ELSE FormOf[t]
        file == IF t \in {"float", "double"} THEN "F" ELSE "I"
    IN  IF rd.i < 8
        THEN Access([rd EXCEPT !.i = @ + 1], <<Loc(file, 8 * rd.i, Bytes[form])>>, form)
        ELSE Access([rd EXCEPT !.sp = @ + 8], <<Loc("V", rd.sp, Bytes[form])>>, form)
=============================================================================
