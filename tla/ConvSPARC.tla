----------------------------- MODULE ConvSPARC -----------------------------
(***************************************************************************)
(* The SPARC calling conventions of dyncall, v7/v8 and v9, and how dyncall *)
(* callbacks take their arguments.  Everything goes through the vector;    *)
(* the call kernels load the registers from its beginning and the thunks   *)
(* store them back.  "int" stands for every type promoted to int (to 64    *)
(* bits on v9).                                                            *)
(***************************************************************************)
EXTENDS ArgMem

\* v7/v8.
dc_callvm_reset_sparc(vm) == dcVecResize(vm, 0)

\* argInt, argPointer, argLong, argLongLong, argFloat and argDouble.
dc_callvm_arg_sparc(vm, t, n) ==
    LET p == Val(n, FormOf[t]) IN dcVecAppend(vm, p, p.len)

gVT_sparc_arg(vm, t, n) == dc_callvm_arg_sparc(vm, t, n)

dc_callvm_mode_sparc(vm, mode) ==
    dc_callvm_base_init(vm, IF mode \in {"default", "this", "sparc32", "ellipsis", "varargs"}
                            THEN "sparc" ELSE "unsupported")

\* sparc_word, sparc_dword and the dcbArg functions on them.
dcbArg_sparc32(rd, t) ==
    LET len == Bytes[FormOf[t]]
    IN  Access([rd EXCEPT !.sp = @ + len], <<Loc("V", rd.sp, len)>>, FormOf[t])

---------------------------------------------------------------------------
\* v9: slots of eight bytes; a float is right justified in its slot.
dc_callvm_reset_v9(vm) == dcVecResize(vm, 0)

\* argLongLong, and the integers promoted to it, and argDouble.
dc_callvm_argLongLong_v9(vm, p) == dcVecAppend(vm, p, 8)

dc_callvm_argFloat_v9(vm, n) ==
    IF vm.size + 8 > VecTotal THEN vm
    ELSE [Put(vm, "V", vm.size + 4, Val(n, "f4")) EXCEPT !.size = @ + 8]

\* argFloat and argDouble after the ellipsis.
dc_callvm_argFloat_v9_ellipsis(vm, t, n) ==
    dc_callvm_argLongLong_v9(vm, Val(n, IF t = "float" THEN "w8" ELSE "f8"))

\* gVT_v9.
gVT_v9_arg(vm, t, n) ==
    CASE t \in {"int", "longlong"} -> dc_callvm_argLongLong_v9(vm, Val(n, "i8"))
      [] t = "double" -> dc_callvm_argLongLong_v9(vm, Val(n, "f8"))
      [] t = "float" -> dc_callvm_argFloat_v9(vm, n)

\* gVT_v9_ellipsis.
gVT_v9_ellipsis_arg(vm, t, n) ==
    IF t \in {"int", "longlong"} THEN gVT_v9_arg(vm, t, n)
    ELSE dc_callvm_argFloat_v9_ellipsis(vm, t, n)

dc_callvm_mode_v9(vm, mode) ==
    dc_callvm_base_init(vm,
        CASE mode \in {"default", "this", "sparc64", "ellipsis"} -> "v9"
          [] mode = "varargs" -> "v9_ellipsis"
          [] OTHER -> "unsupported")

\* dcbArgULongLong, dcbArgDouble and dcbArgFloat: slot i, of which the first 16
\* floating point ones are taken from registers that the kernel loaded from it.
dcbArg_sparc64(rd, t) ==
    LET form == IF t = "int" THEN "i8" ELSE FormOf[t]
        at == IF t = "float" THEN 8 * rd.i + 4 ELSE 8 * rd.i
    IN  Access([rd EXCEPT !.i = @ + 1], <<Loc("V", at, Bytes[form])>>, form)
=============================================================================
