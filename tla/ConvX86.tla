------------------------------ MODULE ConvX86 ------------------------------
(***************************************************************************)
(* The 32 bit x86 calling conventions of dyncall, and how a dyncall        *)
(* callback takes its arguments under each.  Everything goes through the   *)
(* argument vector; the conventions with registers take them from the      *)
(* first words of it.  "int" stands for every type promoted to int (bool,  *)
(* char, short, long, pointer).  The build is Linux with a GNU compiler.   *)
(***************************************************************************)
EXTENDS ArgMem

\* dc_callvm_reset_x86, and dc_callvm_reset_x86_win32_fast, which keeps the two
\* words that become ecx and edx.
dc_callvm_reset_x86(vm) == dcVecResize([vm EXCEPT !.i = 0], 0)
dc_callvm_reset_x86_win32_fast(vm) == dcVecResize([vm EXCEPT !.i = 0], 8)

\* argInt, argLongLong, argFloat, argDouble and argPointer of every convention
\* without registers.
dc_callvm_arg_x86(vm, t, n) ==
    LET p == Val(n, FormOf[t]) IN dcVecAppend(vm, p, p.len)

\* argInt of the fastcall conventions: the first two integers go into registers.
dc_callvm_argInt_x86_win32_fast_ms(vm, n) ==
    IF vm.i < 2
    THEN [Put(vm, "V", 4 * vm.i, Val(n, "i4")) EXCEPT !.i = @ + 1]
    ELSE dc_callvm_arg_x86(vm, "int", n)

\* Under GNU fastcall a long long also uses up the registers it does not take.
dc_callvm_argLongLong_x86_win32_fast_gnu(vm, n) ==
    dc_callvm_arg_x86([vm EXCEPT !.i = 2], "longlong", n)

\* The vtables: whether their reset and argInt use registers, whether their long
\* long uses registers up, and the bytes of the vector that their call kernel
\* moves into registers.
gVT_x86_cdecl                == [fast |-> FALSE, gnu |-> FALSE, registers |-> 0]
gVT_x86_win32_std            == [fast |-> FALSE, gnu |-> FALSE, registers |-> 0]
gVT_x86_win32_fast_ms        == [fast |-> TRUE,  gnu |-> FALSE, registers |-> 8]
gVT_x86_win32_fast_gnu       == [fast |-> TRUE,  gnu |-> TRUE,  registers |-> 8]
gVT_x86_win32_this_ms        == [fast |-> FALSE, gnu |-> FALSE, registers |-> 4]
gVT_x86_syscall_int80h_linux == [fast |-> FALSE, gnu |-> FALSE, registers |-> 0]
gVT_x86_syscall_int80h_bsd   == [fast |-> FALSE, gnu |-> FALSE, registers |-> 0]

gVT_x86 == [cdecl |-> gVT_x86_cdecl, std |-> gVT_x86_win32_std,
            fast_ms |-> gVT_x86_win32_fast_ms, fast_gnu |-> gVT_x86_win32_fast_gnu,
            this_ms |-> gVT_x86_win32_this_ms,
            int80h_linux |-> gVT_x86_syscall_int80h_linux, int80h_bsd |-> gVT_x86_syscall_int80h_bsd]

dc_callvm_mode_x86(vm, mode) ==
    dc_callvm_base_init(vm,
        CASE mode \in {"default", "this", "ellipsis", "varargs", "cdecl"} -> "cdecl"
          [] mode \in {"std", "fast_ms", "fast_gnu", "this_ms", "int80h_bsd"} -> mode
          [] mode \in {"sys", "int80h_linux"} -> "int80h_linux"
          [] OTHER -> "unsupported")

dcReset_x86(vm) ==
    IF gVT_x86[vm.vt].fast THEN dc_callvm_reset_x86_win32_fast(vm) ELSE dc_callvm_reset_x86(vm)

dcArg_x86(vm, t, n) ==
    CASE gVT_x86[vm.vt].fast /\ t = "int" -> dc_callvm_argInt_x86_win32_fast_ms(vm, n)
      [] gVT_x86[vm.vt].gnu /\ t = "longlong" -> dc_callvm_argLongLong_x86_win32_fast_gnu(vm, n)
      [] OTHER -> dc_callvm_arg_x86(vm, t, n)

---------------------------------------------------------------------------
\* dc_callvm_call_x86_*: the callback's thunk points stack_ptr behind the
\* register words.
dc_callvm_call_x86(vm) == Cursor(vm.vt, gVT_x86[vm.vt].registers)

\* default_i32, default_i64, default_f32, default_f64.
default_arg(rd, t) ==
    LET len == Bytes[FormOf[t]]
    IN  Access([rd EXCEPT !.sp = @ + len], <<Loc("V", rd.sp, len)>>, FormOf[t])

\* this_i32: ecx once, then the stack.  The code tells by the register being
\* nonzero, which a this pointer is.
this_i32(rd) ==
    IF rd.i = 0
    THEN Access([rd EXCEPT !.i = 1], <<Loc("V", 0, 4)>>, "i4")
    ELSE default_arg(rd, "int")

\* fast_i32.
fast_i32(rd) ==
    IF rd.i < 2
    THEN Access([rd EXCEPT !.i = @ + 1], <<Loc("V", 4 * rd.i, 4)>>, "i4")
    ELSE default_arg(rd, "int")

\* Mutant: a long long leaves the registers to the next integers.
GnuTakesNoRegisters(rd) == default_arg(rd, "longlong")

\* fast_gnu_i64.
fast_gnu_i64(rd) == default_arg([rd EXCEPT !.i = @ + 2], "longlong")

\* dcArgsVT_default, dcArgsVT_this_ms, dcArgsVT_fast_ms, dcArgsVT_fast_gnu.
dcbArg_x86(rd, t) ==
    CASE rd.vt = "this_ms" /\ t = "int" -> this_i32(rd)
      [] rd.vt \in {"fast_ms", "fast_gnu"} /\ t = "int" -> fast_i32(rd)
      [] rd.vt = "fast_gnu" /\ t = "longlong" -> fast_gnu_i64(rd)
      [] OTHER -> default_arg(rd, t)

\* One round of the loops of dcbCleanupSize: fastcall counts the first integers
\* as registers, and GNU's counts none behind a long long.
CleanupRound(vt, a, t, registers) ==
    CASE vt \in {"fast_ms", "fast_gnu"} /\ t = "int" /\ a.regs < registers ->
            [a EXCEPT !.regs = @ + 1]
      [] vt = "fast_gnu" /\ t = "longlong" -> [regs |-> 2, size |-> a.size + 8]
      [] OTHER -> [a EXCEPT !.size = @ + Bytes[FormOf[t]]]

CleanupLoop(vt, sig, registers) ==
    LET a[k \in 0..Len(sig)] ==
          IF k = 0 THEN [regs |-> 0, size |-> 0]
          ELSE CleanupRound(vt, a[k - 1], sig[k], registers)
    IN  a

\* dcbCleanupSize_x86_std and dcbCleanupSize_x86_this_ms count every argument.
dcbCleanupSize_x86_std(sig) == CleanupLoop("std", sig, 0)[Len(sig)].size
dcbCleanupSize_x86_this_ms(sig) == CleanupLoop("this_ms", sig, 0)[Len(sig)].size

\* Mutant: three integers in registers.
CleanupThreeRegisters(sig) == CleanupLoop("fast_ms", sig, 3)[Len(sig)].size

\* dcbCleanupSize_x86_fast_ms: all but the first two integers.
dcbCleanupSize_x86_fast_ms(sig) == CleanupLoop("fast_ms", sig, 2)[Len(sig)].size

\* dcbCleanupSize_x86_fast_gnu: a long long leaves no registers behind it.
dcbCleanupSize_x86_fast_gnu(sig) == CleanupLoop("fast_gnu", sig, 2)[Len(sig)].size

\* stack_cleanup as dcbInitCallback2 sets it.
dcbInitCallback2_x86(vt, sig) ==
    CASE vt = "std"      -> dcbCleanupSize_x86_std(sig)
      [] vt = "this_ms"  -> dcbCleanupSize_x86_this_ms(sig)
      [] vt = "fast_ms"  -> dcbCleanupSize_x86_fast_ms(sig)
      [] vt = "fast_gnu" -> dcbCleanupSize_x86_fast_gnu(sig)
      [] OTHER -> 0
=============================================================================
