------------------------------ MODULE ConvX64 ------------------------------
(***************************************************************************)
(* The two x64 calling conventions of dyncall, System V and Windows, with  *)
(* structs by value as arguments and results, and how a dyncall callback   *)
(* takes the same arguments.  "int" stands for bool, char, short, int and  *)
(* long, all of which are widened to 64 bits, and for pointers.            *)
(***************************************************************************)
EXTENDS ArgMem

\* The structs that are passed by value, with their size and their sysv_classes
\* (AggregateClass derives those); "cxx" is a C++ object that the program
\* copies itself and that dyncall knows no DCaggr of.
Aggr == [s8  |-> [size |->  8, classes |-> <<"INTEGER">>],
         s12 |-> [size |-> 12, classes |-> <<"SSE", "SSE">>],
         s16 |-> [size |-> 16, classes |-> <<"INTEGER", "SSE">>],
         s24 |-> [size |-> 24, classes |-> <<"MEMORY">>]]

\* The number of an aggregate's result and of the hidden pointer to it.
RetArg == 98
HiddenArg == 97

Win(vt) == vt \in {"win64", "win64_this"}
numIntRegs(vt) == IF Win(vt) THEN 4 ELSE 6
numFloatRegs(vt) == IF Win(vt) THEN 4 ELSE 8

\* On Windows DCRegCount_x64 and DCRegData_x64 are unions: one count and one
\* register image for both kinds.
FloatFile(vt) == IF Win(vt) THEN "I" ELSE "F"
\* Mutant: a floating point argument does not use up the integer register.
CountFloatApart(c, k) == [c EXCEPT !.f = k]
CountFloat(c, k) == IF Win(c.vt) THEN [c EXCEPT !.i = k] ELSE [c EXCEPT !.f = k]

\* The next register number, past the one kept for a hidden pointer.
PastHidden(c, k) == IF k = c.hid THEN k + 1 ELSE k

dc_callvm_reset_x64(vm) ==
    dcVecResize([vm EXCEPT !.i = 0, !.f = 0, !.hid = NoReg, !.copies = VecTotal], 0)

\* dc_callvm_argLongLong_x64, and argBool, argChar, argShort, argInt, argLong
\* and argPointer, on the eight bytes that begin with part p.
dc_callvm_argLongLong_x64(vm, p) ==
    LET i == PastHidden(vm, vm.i)
    IN  IF i < numIntRegs(vm.vt)
        THEN [Put(vm, "I", 8 * i, p) EXCEPT !.i = i + 1]
        ELSE dcVecAppend([vm EXCEPT !.i = i], p, 8)

\* dc_callvm_argDouble_x64, which argFloat also uses.
dc_callvm_argDouble_x64(vm, p) ==
    LET f == IF Win(vm.vt) THEN PastHidden(vm, vm.i) ELSE vm.f
    IN  IF f < numFloatRegs(vm.vt)
        THEN CountFloat(Put(vm, FloatFile(vm.vt), 8 * f, p), f + 1)
        ELSE dcVecAppend(CountFloat(vm, f), p, 8)

\* Eightbyte k of argument n, a struct of type t.
EightByte(n, t, k) ==
    LET rest == Aggr[t].size - 8 * (k - 1)
    IN  Part(n, t, 8 * (k - 1), IF rest < 8 THEN rest ELSE 8)

\* How many classes c of a struct are `class'.
Of(classes, class) == Cardinality({k \in DOMAIN classes : classes[k] = class})

\* A struct goes onto the stack as a whole when it is of class MEMORY or does
\* not fit into the registers that are left; c is a call VM or a cursor.
OnStack(c, t) ==
    \/ Aggr[t].classes[1] = "MEMORY"
    \/ c.i + Of(Aggr[t].classes, "INTEGER") > numIntRegs(c.vt)
    \/ c.f + Of(Aggr[t].classes, "SSE") > numFloatRegs(c.vt)

ArgClass(vm, n, t, k) ==
    IF Aggr[t].classes[k] = "INTEGER"
    THEN dc_callvm_argLongLong_x64(vm, EightByte(n, t, k))
    ELSE dc_callvm_argDouble_x64(vm, EightByte(n, t, k))

\* dc_callvm_argAggr_x64.
dc_callvm_argAggr_x64(vm, t, n) ==
    IF t = "cxx" THEN dc_callvm_argLongLong_x64(vm, Val(n, "i8"))
    ELSE LET whole == Val(n, t)
             one == ArgClass(vm, n, t, 1)
             copy == ((vm.copies - Aggr[t].size) \div 16) * 16
         IN  CASE ~Win(vm.vt) /\ OnStack(vm, t) ->
                    dcVecSkip(dcVecAppend(vm, whole, whole.len), (8 - (whole.len % 8)) % 8)
               [] ~Win(vm.vt) /\ ~OnStack(vm, t) ->
                    IF Len(Aggr[t].classes) = 1 THEN one ELSE ArgClass(one, n, t, 2)
               [] Win(vm.vt) /\ Aggr[t].size = 8 ->
                    dc_callvm_argLongLong_x64(vm, whole)
               [] OTHER ->
                    dc_callvm_argLongLong_x64(
                        Put([vm EXCEPT !.copies = copy], "V", copy, whole), Val(n, "i8"))

\* Is a struct returned through a hidden pointer?
ByHidden(vt, t) ==
    \/ t = "cxx"
    \/ IF Win(vt) THEN Aggr[t].size # 8 ELSE Aggr[t].classes[1] = "MEMORY"

\* dc_callvm_begin_aggr_x64.
dc_callvm_begin_aggr_x64(vm, ret) ==
    IF ByHidden(vm.vt, ret) THEN [vm EXCEPT !.hid = 0] ELSE vm

\* dc_callvm_begin_aggr_x64_win64_this: the hidden pointer follows `this'.
dc_callvm_begin_aggr_x64_win64_this(vm) == [vm EXCEPT !.hid = 1]

dc_callvm_mode_x64(vm, mode, windows) ==
    LET native == {"default", "ellipsis", "varargs"}
        vt == CASE ~windows /\ mode \in native \cup {"this", "sysv"} -> "sysv"
                [] ~windows /\ mode = "sys" -> "syscall_sysv"
                [] windows /\ mode \in native \cup {"win64"} -> "win64"
                [] windows /\ mode = "this" -> "win64_this"
                [] OTHER -> "unsupported"
    IN  dc_callvm_base_init(vm, vt)

\* gVT_x64 and gVT_x64_syscall_sysv: the arg functions.
gVT_x64_arg(vm, t, n) ==
    CASE t \in {"int", "longlong"} -> dc_callvm_argLongLong_x64(vm, Val(n, "i8"))
      [] t \in {"float", "double"} -> dc_callvm_argDouble_x64(vm, Val(n, FormOf[t]))
      [] OTHER -> dc_callvm_argAggr_x64(vm, t, n)

\* gVT_x64_win64_this differs from gVT_x64 in its beginAggr.
gVT_x64_begin(vm, ret) ==
    IF vm.vt = "win64_this" THEN dc_callvm_begin_aggr_x64_win64_this(vm)
    ELSE dc_callvm_begin_aggr_x64(vm, ret)

\* dc_callvm_call_x64 and dc_callvm_call_x64_aggr: the hidden pointer goes into
\* its register when all arguments are bound.
dc_callvm_call_x64(vm) ==
    IF vm.hid = NoReg THEN vm ELSE Put(vm, "I", 8 * vm.hid, Val(HiddenArg, "i8"))

---------------------------------------------------------------------------
\* Mutant: the callback forgets that its signature says "this".
InitWithoutThis(vt, ret) ==
    [Cursor(IF vt = "win64_this" THEN "win64" ELSE vt, 0) EXCEPT !.hid =
        IF ret = "void" THEN NoReg ELSE IF ByHidden(vt, ret) THEN 0 ELSE NoReg]

\* dcbInitCallback2: aggr_return_register, and the cursor of its thunk.
dcbInitCallback2_x64(vt, ret) ==
    [Cursor(vt, 0) EXCEPT !.hid =
        CASE ret = "void" -> NoReg
          [] vt = "win64_this" /\ ret # "void" -> 1
          [] vt # "win64_this" /\ ret # "void" -> IF ByHidden(vt, ret) THEN 0 ELSE NoReg]

Stacked(rd, form, len) == Access([rd EXCEPT !.sp = @ + 8], <<Loc("V", rd.sp, len)>>, form)

\* arg_i64, of which the caller uses len bytes.
arg_i64(rd, form, len) ==
    LET i == PastHidden(rd, rd.i)
    IN  IF i < numIntRegs(rd.vt)
        THEN Access([rd EXCEPT !.i = i + 1], <<Loc("I", 8 * i, len)>>, form)
        ELSE Stacked([rd EXCEPT !.i = i], form, len)

\* arg_f64.
arg_f64(rd, form, len) ==
    LET f == IF Win(rd.vt) THEN PastHidden(rd, rd.i) ELSE rd.f
    IN  IF f < numFloatRegs(rd.vt)
        THEN Access(CountFloat(rd, f + 1), <<Loc(FloatFile(rd.vt), 8 * f, len)>>, form)
        ELSE Stacked(CountFloat(rd, f), form, len)

TakeClass(rd, t, k) ==
    LET len == EightByte(0, t, k).len
    IN  IF Aggr[t].classes[k] = "INTEGER" THEN arg_i64(rd, t, len) ELSE arg_f64(rd, t, len)

\* dcbArgAggr; "copy" marks the struct that a Windows callback reads through
\* the pointer it got.
dcbArgAggr_x64(rd, t) ==
    IF t = "cxx" THEN arg_i64(rd, "i8", 8)
    ELSE LET size == Aggr[t].size
             one == TakeClass(rd, t, 1)
             two == TakeClass(one.rd, t, 2)
         IN  CASE ~Win(rd.vt) /\ OnStack(rd, t) ->
                    Access([rd EXCEPT !.sp = @ + 8 * ((size + 7) \div 8)],
                           <<Loc("V", rd.sp, size)>>, t)
               [] ~Win(rd.vt) /\ ~OnStack(rd, t) ->
                    IF Len(Aggr[t].classes) = 1 THEN one
                    ELSE Access(two.rd, one.at \o two.at, t)
               [] Win(rd.vt) /\ size = 8 -> arg_i64(rd, t, 8)
               [] OTHER -> arg_i64(rd, "i8", 8)

\* The struct that a Windows callback copies from behind the pointer is whole.
CopyIntact(vm, rd, t, n) ==
    Win(rd.vt) /\ t \in {"s12", "s16", "s24"}
        => \E e \in vm.mem : e = [file |-> "V", off |-> e.off, len |-> Aggr[t].size,
                                  arg |-> n, form |-> t, from |-> 0]

\* The dcbArg functions of x64.
dcbArg_x64(rd, t) ==
    CASE t \in {"int", "longlong"} -> arg_i64(rd, "i8", 8)
      [] t \in {"float", "double"} -> arg_f64(rd, FormOf[t], Bytes[FormOf[t]])
      [] OTHER -> dcbArgAggr_x64(rd, t)

\* dcbReturnAggr: a struct in registers, one eightbyte after the other, each
\* into the next rax/rdx or xmm0/xmm1 of its class.
RetFile(class) == IF class = "INTEGER" THEN "RAX" ELSE "XMM"
RetOff(classes, k) == 8 * Of(SubSeq(classes, 1, k - 1), classes[k])
\* Mutant: the second eightbyte goes into the register of the first.
ReturnInOne(vm, vt, ret) ==
    LET c == Aggr[ret].classes
        at(p) == Put(vm, RetFile(c[1]), 0, p)
    IN  IF Win(vt) \/ Len(c) = 1 THEN at(EightByte(RetArg, ret, 1))
        ELSE at(EightByte(RetArg, ret, 2))
dcbReturnAggr_x64(vm, vt, ret) ==
    LET c == Aggr[ret].classes
        one == Put(vm, RetFile(c[1]), RetOff(c, 1), EightByte(RetArg, ret, 1))
    IN  IF Win(vt) \/ Len(c) = 1 THEN one
        ELSE Put(one, RetFile(c[2]), RetOff(c, 2), EightByte(RetArg, ret, 2))

\* dc_callvm_call_x64_aggr after the call: the struct reassembled from them.
ReturnedAggr(mem, vt, ret) ==
    LET c == Aggr[ret].classes
        place(k) == Loc(RetFile(c[k]), RetOff(c, k), EightByte(0, ret, k).len)
    IN  \A k \in (IF Win(vt) THEN {1} ELSE DOMAIN c) :
            Holds(mem, place(k), RetArg, ret, 8 * (k - 1))
=============================================================================
