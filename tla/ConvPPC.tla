------------------------------ MODULE ConvPPC ------------------------------
(***************************************************************************)
(* The PowerPC calling conventions of dyncall: 32 bit Darwin and System V, *)
(* 64 bit ELF version 1 (big endian) and version 2 (little endian), and    *)
(* how dyncall callbacks take their arguments.  Floating point registers   *)
(* hold doubles, so a float is widened in them.  "int" stands for every    *)
(* type promoted to int (to 64 bits on ppc64).                             *)
(***************************************************************************)
EXTENDS ArgMem

dc_callvm_reset_ppc32(vm) == dcVecResize([vm EXCEPT !.i = 0, !.f = 0], 0)

\* The next general register, if one is left, holds part p.
IntReg(vm, bytes, p) ==
    IF vm.i < 8 THEN [Put(vm, "I", bytes * vm.i, p) EXCEPT !.i = @ + 1] ELSE vm
FloatReg(vm, p) == [Put(vm, "F", 8 * vm.f, p) EXCEPT !.f = @ + 1]

---------------------------------------------------------------------------
\* Darwin: what is in registers is on the stack too, for variadic callees.

dc_callvm_argInt_ppc32_darwin(vm, p) == dcVecAppend(IntReg(vm, 4, p), p, 4)

dc_callvm_argLongLong_ppc32_darwin(vm, n) ==
    dc_callvm_argInt_ppc32_darwin(
        dc_callvm_argInt_ppc32_darwin(vm, Part(n, "i8", 0, 4)), Part(n, "i8", 4, 4))

dc_callvm_argDouble_ppc32_darwin(vm, n) ==
    LET p == Val(n, "f8")
        shadowed == IntReg(IntReg(FloatReg(vm, p), 4, Part(n, "f8", 0, 4)), 4, Part(n, "f8", 4, 4))
    IN  dcVecAppend(IF vm.f < 13 THEN shadowed ELSE vm, p, 8)

dc_callvm_argFloat_ppc32_darwin(vm, n) ==
    LET p == Val(n, "f4")
        at == IF vm.f < 13 THEN FloatReg(vm, Val(n, "w8")) ELSE vm
    IN  dcVecAppend(IntReg(at, 4, p), p, 4)

\* gVT_ppc32_darwin.
gVT_ppc32_darwin_arg(vm, t, n) ==
    CASE t = "int" -> dc_callvm_argInt_ppc32_darwin(vm, Val(n, "i4"))
      [] t = "longlong" -> dc_callvm_argLongLong_ppc32_darwin(vm, n)
      [] t = "float" -> dc_callvm_argFloat_ppc32_darwin(vm, n)
      [] t = "double" -> dc_callvm_argDouble_ppc32_darwin(vm, n)

\* dcbArgInt and dcbArgULongLong: the stack pointer advances with registers too.
darwin_dcbArgInt(rd, form) ==
    LET here == IF rd.i < 8 THEN Loc("I", 4 * rd.i, 4) ELSE Loc("V", rd.sp, 4)
    IN  Access([rd EXCEPT !.i = IF @ < 8 THEN @ + 1 ELSE @, !.sp = @ + 4], <<here>>, form)
darwin_dcbArgULongLong(rd) ==
    LET one == darwin_dcbArgInt(rd, "i8")
        two == darwin_dcbArgInt(one.rd, "i8")
    IN  Access(two.rd, one.at \o two.at, "i8")

\* dcbArgDouble and dcbArgFloat skip the general registers they shadow.
darwin_dcbArgDouble(rd) ==
    LET at == [rd EXCEPT !.i = IF @ < 7 THEN @ + 2 ELSE 8, !.sp = @ + 8]
    IN  IF rd.f < 13 THEN Access([at EXCEPT !.f = @ + 1], <<Loc("F", 8 * rd.f, 8)>>, "f8")
        ELSE Access(at, <<Loc("V", rd.sp, 8)>>, "f8")
darwin_dcbArgFloat(rd) ==
    LET at == [rd EXCEPT !.i = IF @ < 8 THEN @ + 1 ELSE @, !.sp = @ + 4]
    IN  IF rd.f < 13 THEN Access([at EXCEPT !.f = @ + 1], <<Loc("F", 8 * rd.f, 8)>>, "w8")
        ELSE Access(at, <<Loc("V", rd.sp, 4)>>, "f4")

dcbArg_ppc32_darwin(rd, t) ==
    CASE t = "int" -> darwin_dcbArgInt(rd, "i4")
      [] t = "longlong" -> darwin_dcbArgULongLong(rd)
      [] t = "float" -> darwin_dcbArgFloat(rd)
      [] t = "double" -> darwin_dcbArgDouble(rd)

---------------------------------------------------------------------------
\* System V: in registers or on the stack.

dc_callvm_argInt_ppc32_sysv(vm, n) ==
    LET p == Val(n, "i4") IN IF vm.i < 8 THEN IntReg(vm, 4, p) ELSE dcVecAppend(vm, p, 4)

dc_callvm_argLongLong_ppc32_sysv(vm, n) ==
    LET p == Val(n, "i8")
    IN  IF vm.i < 7
        THEN [Put(vm, "I", 4 * RoundEven(vm.i), p) EXCEPT !.i = RoundEven(@) + 2]
        ELSE dcVecAppend(dcVecAlign([vm EXCEPT !.i = 8], 8), p, 8)

dc_callvm_argDouble_ppc32_sysv(vm, n) ==
    LET p == Val(n, "f8")
    IN  IF vm.f < 8 THEN FloatReg(vm, p) ELSE dcVecAppend(dcVecAlign(vm, 8), p, 8)

dc_callvm_argFloat_ppc32_sysv(vm, n) ==
    IF vm.f < 8 THEN FloatReg(vm, Val(n, "w8")) ELSE dcVecAppend(vm, Val(n, "f4"), 4)

\* gVT_ppc32_sysv and gVT_ppc32_syscall.
gVT_ppc32_sysv_arg(vm, t, n) ==
    CASE t = "int" -> dc_callvm_argInt_ppc32_sysv(vm, n)
      [] t = "longlong" -> dc_callvm_argLongLong_ppc32_sysv(vm, n)
      [] t = "float" -> dc_callvm_argFloat_ppc32_sysv(vm, n)
      [] t = "double" -> dc_callvm_argDouble_ppc32_sysv(vm, n)

\* The modes; `native' is the ABI of the build, "darwin" or "sysv".
dc_callvm_mode_ppc32(vm, mode, native) ==
    dc_callvm_base_init(vm,
        CASE mode \in {"default", "this", "ellipsis", "varargs"} -> native
          [] mode \in {"darwin", "sysv"} -> mode
          [] mode = "sys" -> "ppc32_syscall"
          [] OTHER -> "unsupported")

sysv_dcbArgInt(rd) ==
    IF rd.i < 8 THEN Access([rd EXCEPT !.i = @ + 1], <<Loc("I", 4 * rd.i, 4)>>, "i4")
    ELSE Access([rd EXCEPT !.sp = @ + 4], <<Loc("V", rd.sp, 4)>>, "i4")

Aligned8(sp) == ((sp + 7) \div 8) * 8
sysv_dcbArgULongLong(rd) ==
    IF rd.i < 7
    THEN Access([rd EXCEPT !.i = RoundEven(@) + 2], <<Loc("I", 4 * RoundEven(rd.i), 8)>>, "i8")
    ELSE Access([rd EXCEPT !.i = 8, !.sp = Aligned8(@) + 8], <<Loc("V", Aligned8(rd.sp), 8)>>, "i8")

sysv_dcbArgDouble(rd) ==
    IF rd.f < 8 THEN Access([rd EXCEPT !.f = @ + 1], <<Loc("F", 8 * rd.f, 8)>>, "f8")
    ELSE Access([rd EXCEPT !.sp = Aligned8(@) + 8], <<Loc("V", Aligned8(rd.sp), 8)>>, "f8")
sysv_dcbArgFloat(rd) ==
    IF rd.f < 8 THEN Access([rd EXCEPT !.f = @ + 1], <<Loc("F", 8 * rd.f, 8)>>, "w8")
    ELSE Access([rd EXCEPT !.sp = @ + 4], <<Loc("V", rd.sp, 4)>>, "f4")

dcbArg_ppc32_sysv(rd, t) ==
    CASE t = "int" -> sysv_dcbArgInt(rd)
      [] t = "longlong" -> sysv_dcbArgULongLong(rd)
      [] t = "float" -> sysv_dcbArgFloat(rd)
      [] t = "double" -> sysv_dcbArgDouble(rd)

---------------------------------------------------------------------------
\* 64 bit: ELF version 1 pushes every argument, version 2 only what is not in a
\* general register, behind an area of 64 bytes for the registers.

dc_callvm_reset_ppc64(vm) == dcVecResize([vm EXCEPT !.i = 0, !.f = 0], 0)

ElfV2(vt) == vt \in {"ppc64_v2", "ppc64_v2_ellipsis", "ppc64_v2_syscall"}
Push(vm, p) ==
    dcVecAppend(IF ElfV2(vm.vt) /\ vm.size = 0 THEN dcVecSkip(vm, 64) ELSE vm, p, 8)

dc_callvm_argLongLong_ppc64(vm, p) ==
    IF vm.i < 8 /\ ElfV2(vm.vt) THEN IntReg(vm, 8, p) ELSE Push(IntReg(vm, 8, p), p)

\* argDouble and argFloat: reg is what the registers hold, p what is pushed.
dc_callvm_argDouble_ppc64(vm, reg, p) ==
    LET at == IF vm.f < 13 THEN IntReg(FloatReg(vm, reg), 8, reg) ELSE vm
    IN  IF vm.f < 13 /\ vm.i < 8 /\ ElfV2(vm.vt) THEN at ELSE Push(at, p)

\* In a big endian slot a float is right justified.
dc_callvm_argFloat_ppc64(vm, n) ==
    LET pushed == dc_callvm_argDouble_ppc64(vm, Val(n, "w8"), Val(n, "f4"))
        moved == [e \in pushed.mem |->
                    IF e.file = "V" /\ e.arg = n /\ ~ElfV2(vm.vt)
                    THEN [e EXCEPT !.off = @ + 4] ELSE e]
    IN  [pushed EXCEPT !.mem = {moved[e] : e \in pushed.mem}]

\* The same after the ellipsis of version 2: in registers and on the stack, which
\* begins with the slots of the registers already used.
PushVariadic(vm, regs, p) ==
    LET at == IF vm.size = 0 THEN dcVecSkip(vm, 8 * regs) ELSE vm IN dcVecAppend(at, p, 8)
dc_callvm_argLongLong_ppc64_ellipsis(vm, p) == PushVariadic(IntReg(vm, 8, p), vm.i, p)
dc_callvm_argDouble_ppc64_ellipsis(vm, p) ==
    PushVariadic(IF vm.f < 13 THEN IntReg(FloatReg(vm, p), 8, p) ELSE vm, vm.i, p)

\* gVT_ppc64 and gVT_ppc64_syscall.
gVT_ppc64_arg(vm, t, n) ==
    CASE t \in {"int", "longlong"} -> dc_callvm_argLongLong_ppc64(vm, Val(n, "i8"))
      [] t = "float" -> dc_callvm_argFloat_ppc64(vm, n)
      [] t = "double" -> dc_callvm_argDouble_ppc64(vm, Val(n, "f8"), Val(n, "f8"))

\* gVT_ppc64_ellipsis; argFloat promotes to double.
gVT_ppc64_ellipsis_arg(vm, t, n) ==
    CASE t \in {"int", "longlong"} -> dc_callvm_argLongLong_ppc64_ellipsis(vm, Val(n, "i8"))
      [] t = "float" -> dc_callvm_argDouble_ppc64_ellipsis(vm, Val(n, "w8"))
      [] t = "double" -> dc_callvm_argDouble_ppc64_ellipsis(vm, Val(n, "f8"))

dc_callvm_mode_ppc64(vm, mode, native) ==
    dc_callvm_base_init(vm,
        CASE mode \in {"default", "this", "ppc64", "ellipsis"} -> native
          [] mode = "varargs" -> IF native = "ppc64_v2" THEN "ppc64_v2_ellipsis" ELSE native
          [] mode = "sys" -> IF native = "ppc64_v2" THEN "ppc64_v2_syscall" ELSE "ppc64_syscall"
          [] OTHER -> "unsupported")

\* dcbArgLongLong.
ppc64_dcbArgLongLong(rd) ==
    LET here == IF rd.i < 8 THEN Loc("I", 8 * rd.i, 8) ELSE Loc("V", rd.sp, 8)
    IN  Access([rd EXCEPT !.i = IF @ < 8 THEN @ + 1 ELSE @, !.sp = @ + 8], <<here>>, "i8")

\* dcbArgDouble and dcbArgFloat; at and form are those of the stack slot.
ppc64_dcbArgDouble(rd, reg, at, form) ==
    IF rd.f < 13
    THEN Access([rd EXCEPT !.f = @ + 1, !.i = IF @ < 8 THEN @ + 1 ELSE @, !.sp = @ + 8],
                <<Loc("F", 8 * rd.f, 8)>>, reg)
    ELSE Access([rd EXCEPT !.sp = @ + 8], <<Loc("V", at, Bytes[form])>>, form)

dcbArg_ppc64(rd, t) ==
    CASE t \in {"int", "longlong"} -> ppc64_dcbArgLongLong(rd)
      [] t = "double" -> ppc64_dcbArgDouble(rd, "f8", rd.sp, "f8")
      [] t = "float" ->
            ppc64_dcbArgDouble(rd, "w8", IF ElfV2(rd.vt) THEN rd.sp ELSE rd.sp + 4, "f4")
=============================================================================
