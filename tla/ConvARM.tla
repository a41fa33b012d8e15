------------------------------ MODULE ConvARM ------------------------------
(***************************************************************************)
(* The ARM calling conventions of dyncall: 32 bit ARM and Thumb (ATPCS and *)
(* EABI), hard float, AArch64, and Apple's variant of it; and how dyncall  *)
(* callbacks take their arguments.  On 32 bit ARM the first 16 bytes of    *)
(* the vector become r0-r3.  "int" stands for the types promoted to int    *)
(* (to 64 bits on AArch64); Apple's variant also tells char, short and int *)
(* apart.                                                                  *)
(***************************************************************************)
EXTENDS ArgMem

---------------------------------------------------------------------------
\* ARM and Thumb without hard float.

dc_callvm_reset_arm32_arm(vm) == dcVecResize(vm, 0)

\* argInt, argLongLong, argFloat, argDouble and argPointer: all are appended,
\* and under EABI 64 bit values on an 8 byte boundary.
dc_callvm_arg_arm32_arm(vm, t, n) ==
    LET p == Val(n, FormOf[t]) IN dcVecAppend(vm, p, p.len)
dc_callvm_arg_arm32_arm_eabi(vm, t, n) ==
    dc_callvm_arg_arm32_arm(IF t \in {"longlong", "double"} THEN SkipOddWord(vm) ELSE vm, t, n)

\* gVT_arm32_arm and gVT_arm32_arm_eabi.
gVT_arm32_arm_arg(vm, t, n) ==
    IF vm.vt = "arm_eabi" THEN dc_callvm_arg_arm32_arm_eabi(vm, t, n)
    ELSE dc_callvm_arg_arm32_arm(vm, t, n)

\* The Thumb call VM is the same code with a kernel of its own.
gVT_arm32_thumb_arg(vm, t, n) == gVT_arm32_arm_arg(vm, t, n)

\* The modes; `native' is the ABI of the build, "arm" or "arm_eabi".
dc_callvm_mode_arm32_arm(vm, mode, native) ==
    dc_callvm_base_init(vm,
        CASE mode \in {"ellipsis", "varargs", "default", "this"} -> native
          [] mode = "arm_arm" -> "arm"
          [] mode = "arm_arm_eabi" -> "arm_eabi"
          [] OTHER -> "unsupported")
dc_callvm_mode_arm32_thumb(vm, mode, native) ==
    dc_callvm_base_init(vm,
        CASE mode \in {"ellipsis", "varargs", "default", "this"} -> native
          [] mode = "arm_thumb" -> "arm"
          [] mode = "arm_thumb_eabi" -> "arm_eabi"
          [] OTHER -> "unsupported")

---------------------------------------------------------------------------
\* Hard float: i counts bytes of r0-r3, f and d the single and double registers
\* (s and d of the code), which share the S registers.

armhf_reset(vm) == dcVecResize([vm EXCEPT !.i = 0, !.f = 0, !.d = 0], 16)

armhf_a_int(vm, p) ==
    IF vm.i < 16 THEN [Put(vm, "V", vm.i, p) EXCEPT !.i = @ + 4]
    ELSE dcVecAppend(vm, p, 4)

armhf_a_longlong(vm, p) ==
    LET i == ((vm.i + 4) \div 8) * 8
        at == [vm EXCEPT !.i = i]
    IN  IF i < 16 THEN [Put(at, "V", i, p) EXCEPT !.i = i + 8]
        ELSE dcVecAppend(SkipOddWord(at), p, 8)

\* A float fills the gap that an earlier double left, if there is one.
armhf_a_float(vm, p) ==
    LET s == vm.f + 1
    IN  IF vm.f < 16
        THEN [Put(vm, "S", 4 * vm.f, p) EXCEPT
                !.f = IF vm.d < s THEN s ELSE vm.d,
                !.d = IF vm.d < s THEN RoundEven(s) ELSE @]
        ELSE dcVecAppend(vm, p, 4)

armhf_a_double(vm, p) ==
    IF vm.d < 16
    THEN [Put(vm, "S", 4 * vm.d, p) EXCEPT !.d = @ + 2,
            !.f = IF vm.f % 2 = 0 THEN vm.d + 2 ELSE @]
    ELSE dcVecAppend(SkipOddWord([vm EXCEPT !.f = 16]), p, 8)

\* a_float_ellipsis, a_double_ellipsis: variadic calls use no float registers.
armhf_a_float_ellipsis(vm, p) == armhf_a_int(vm, p)
armhf_a_double_ellipsis(vm, p) == armhf_a_longlong(vm, p)

\* vt_armhf and vt_armhf_ellipsis.
vt_armhf_arg(vm, t, n) ==
    LET p == Val(n, FormOf[t])
        ellipsis == vm.vt = "armhf_ellipsis"
    IN  CASE t = "int" -> armhf_a_int(vm, p)
          [] t = "longlong" -> armhf_a_longlong(vm, p)
          [] t = "float" -> IF ellipsis THEN armhf_a_float_ellipsis(vm, p) ELSE armhf_a_float(vm, p)
          [] t = "double" -> IF ellipsis THEN armhf_a_double_ellipsis(vm, p) ELSE armhf_a_double(vm, p)

armhf_mode(vm, mode) ==
    dc_callvm_base_init(vm,
        CASE mode \in {"default", "this", "armhf"} -> "armhf"
          [] mode \in {"ellipsis", "varargs"} -> "armhf_ellipsis"
          [] OTHER -> "unsupported")

---------------------------------------------------------------------------
\* The callback of 32 bit ARM; its cursor counts words of r0-r3, and stack_ptr
\* begins behind them.

dcbInitCallback2_arm32(vt) == Cursor(vt, 16)

\* arm_align_64, which EABI and hard float need.
arm_align_64(rd) ==
    LET r == IF rd.i < 4 THEN RoundEven(rd.i) ELSE rd.i
        odd == (rd.sp \div 4) % 2 = 1
    IN  IF rd.vt = "arm" THEN rd
        ELSE [rd EXCEPT !.i = r, !.sp = IF r >= 4 /\ odd THEN @ + 4 ELSE @]

arm_word(rd, form) ==
    IF rd.i < 4 THEN Access([rd EXCEPT !.i = @ + 1], <<Loc("V", 4 * rd.i, 4)>>, form)
    ELSE Access([rd EXCEPT !.sp = @ + 4], <<Loc("V", rd.sp, 4)>>, form)

TwoWords(rd, form) ==
    LET one == arm_word(arm_align_64(rd), form)
        two == arm_word(one.rd, form)
    IN  Access(two.rd, one.at \o two.at, form)

\* arm_float: without a single register left it takes a word, like an integer.
arm_float(rd) ==
    LET s == rd.f + 1
    IN  IF rd.vt = "armhf" /\ rd.f < 16
        THEN Access([rd EXCEPT !.f = IF s % 2 = 0 /\ s < rd.d THEN rd.d ELSE s],
                    <<Loc("S", 4 * rd.f, 4)>>, "f4")
        ELSE arm_word(rd, "f4")

arm_double(rd) ==
    LET d == IF rd.d < rd.f THEN RoundEven(rd.f) ELSE rd.d
    IN  IF rd.vt = "armhf" /\ d < 16
        THEN Access([rd EXCEPT !.d = d + 2, !.f = IF @ % 2 = 0 THEN d + 2 ELSE @],
                    <<Loc("S", 4 * d, 8)>>, "f8")
        ELSE TwoWords([rd EXCEPT !.d = d, !.f = 16], "f8")

arm_longlong(rd) == TwoWords(rd, "i8")

dcbArg_arm32(rd, t) ==
    CASE t = "int" -> arm_word(rd, "i4")
      [] t = "longlong" -> arm_longlong(rd)
      [] t = "float" -> arm_float(rd)
      [] t = "double" -> arm_double(rd)

---------------------------------------------------------------------------
\* AArch64.

arm64_reset(vm) == dcVecResize([vm EXCEPT !.i = 0, !.f = 0], 0)

arm64_a_i64(vm, p) ==
    IF vm.i < 8 THEN [Put(vm, "I", 8 * vm.i, p) EXCEPT !.i = @ + 1]
    ELSE dcVecAppend(vm, p, 8)

arm64_a_float(vm, p) ==
    IF vm.f < 8 THEN [Put(vm, "F", 8 * vm.f, p) EXCEPT !.f = @ + 1]
    ELSE dcVecSkip(dcVecAppend(vm, p, 4), 4)

arm64_a_double(vm, p) ==
    IF vm.f < 8 THEN [Put(vm, "F", 8 * vm.f, p) EXCEPT !.f = @ + 1]
    ELSE dcVecAppend(vm, p, 8)

\* var_float, var_double: Windows passes variadic arguments like integers.
arm64_var_float(vm, p) == arm64_a_i64(vm, p)

\* vt_arm64.
vt_arm64_arg(vm, t, n) ==
    CASE t \in {"int", "longlong"} -> arm64_a_i64(vm, Val(n, "i8"))
      [] t = "float" -> arm64_a_float(vm, Val(n, "f4"))
      [] t = "double" -> arm64_a_double(vm, Val(n, "f8"))

\* vt_arm64_win_varargs.
vt_arm64_win_varargs_arg(vm, t, n) ==
    arm64_var_float(vm, Val(n, IF t \in {"float", "double"} THEN FormOf[t] ELSE "i8"))

arm64_mode(vm, mode, windows) ==
    dc_callvm_base_init(vm,
        CASE mode \in {"ellipsis", "varargs"} ->
                IF windows THEN "arm64_win_varargs" ELSE "arm64"
          [] mode \in {"default", "this", "arm64"} -> "arm64"
          [] OTHER -> "unsupported")

\* dcbArgLongLong, dcbArgDouble and dcbArgFloat of AArch64.
dcbArg_arm64(rd, t) ==
    LET form == IF t = "int" THEN "i8" ELSE FormOf[t]
        here(file, k) == <<Loc(file, 8 * k, Bytes[form])>>
    IN  CASE t \in {"int", "longlong"} /\ rd.i < 8 ->
                Access([rd EXCEPT !.i = @ + 1], here("I", rd.i), form)
          [] t \in {"float", "double"} /\ rd.f < 8 ->
                Access([rd EXCEPT !.f = @ + 1], here("F", rd.f), form)
          [] OTHER -> Access([rd EXCEPT !.sp = @ + 8], <<Loc("V", rd.sp, Bytes[form])>>, form)

---------------------------------------------------------------------------
\* AArch64 as Apple has it: a stacked argument takes its own size and alignment,
\* and variadic arguments, in eight bytes each, are always stacked.

\* a_bool, a_char, a_short, a_int, a_long, a_i64, a_float and a_double.
apple_a(vm, t, n) ==
    LET p == Val(n, FormOf[t])
        stacked == dcVecAppend(dcVecAlign(vm, p.len), p, p.len)
    IN  IF t \in {"float", "double"}
        THEN IF vm.f < 8 THEN [Put(vm, "F", 8 * vm.f, p) EXCEPT !.f = @ + 1] ELSE stacked
        ELSE IF vm.i < 8 THEN [Put(vm, "I", 8 * vm.i, p) EXCEPT !.i = @ + 1] ELSE stacked

\* var_i64 and var_double, to which the others promote.
apple_var(vm, t, n) ==
    dcVecAppend(dcVecAlign(vm, 8),
                Val(n, CASE t = "float" -> "w8" [] t = "double" -> "f8" [] OTHER -> "i8"), 8)

\* vt_arm64 and vt_arm64_variadic of Apple's variant.
vt_apple_arg(vm, t, n) ==
    IF vm.vt = "apple_variadic" THEN apple_var(vm, t, n) ELSE apple_a(vm, t, n)

apple_mode(vm, mode) ==
    dc_callvm_base_init(vm,
        CASE mode \in {"default", "this", "arm64", "ellipsis"} -> "apple"
          [] mode = "varargs" -> "apple_variadic"
          [] OTHER -> "unsupported")

\* The dcbArg functions of Apple's variant, and its align().
AlignUp(sp, v) == ((sp + v - 1) \div v) * v
dcbArg_apple(rd, t) ==
    LET len == Bytes[FormOf[t]]
        sp == AlignUp(rd.sp, len)
    IN  CASE t \in {"float", "double"} /\ rd.f < 8 ->
                Access([rd EXCEPT !.f = @ + 1], <<Loc("F", 8 * rd.f, len)>>, FormOf[t])
          [] t \notin {"float", "double"} /\ rd.i < 8 ->
                Access([rd EXCEPT !.i = @ + 1], <<Loc("I", 8 * rd.i, len)>>, FormOf[t])
          [] OTHER -> Access([rd EXCEPT !.sp = sp + len], <<Loc("V", sp, len)>>, FormOf[t])
=============================================================================
