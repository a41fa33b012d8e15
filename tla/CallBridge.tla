----------------------------- MODULE CallBridge -----------------------------
(***************************************************************************)
(* A dyncall call VM calling a dyncallback callback, on every architecture *)
(* that dyncall is built for.  The client chooses a mode, resets the VM,   *)
(* binds the arguments one by one and calls; the callback takes them one   *)
(* by one.  The caller's half of a convention and the callee's half are    *)
(* two pieces of code that share nothing but the convention.               *)
(*                                                                         *)
(* Two things are not dyncall's: a callee whose convention dyncallback     *)
(* does not offer (a variadic one, a system call) is a compiled function   *)
(* that finds its arguments wherever the caller stored them; and the call  *)
(* kernels, in assembler, are taken to load the registers from their       *)
(* images and the stack from the vector.                                   *)
(***************************************************************************)
EXTENDS ConvX86, ConvX64, ConvARM, ConvMIPS, ConvPPC, ConvSPARC

CONSTANTS
    Builds,   \* the targets dyncall is compiled for
    Modes,    \* Modes[b]: the modes that clients of build b ask for
    Calls     \* Calls[b]: the calls they make, each a record of the mode prefix
              \* of its signature or "none", of its items, of its result, and of
              \* whether the string ends behind the items (open), as that of a
              \* dcArgF may: ")" and the type of the result are left out

\* The targets of dyncall that a module describes.
Targets == {"x86", "x64", "win64", "arm", "arm_eabi", "thumb", "thumb_eabi", "armhf",
            "arm64", "arm64_win", "apple", "mips_eabi", "mips_o32", "mips_n32", "mips_n64",
            "ppc32_darwin", "ppc32_sysv", "ppc64_v1", "ppc64_v2", "sparc", "v9"}

VARIABLES
    build,    \* the target
    vm,       \* the call VM
    phase,    \* "idle", "ready" after dcReset, "bind", "run" in the callee
    call,     \* the call in progress
    pos,      \* the items of its signature that were bound, or taken
    sent,     \* the types of the arguments bound so far
    rd,       \* the callback's cursor
    got,      \* the arguments the callee has taken, by number; 0 for junk
    result    \* what the last call returned: "none", "value" or "junk"

vars == <<build, vm, phase, call, pos, sent, rd, got, result>>

NoCall == [prefix |-> "none", sig |-> <<>>, ret |-> "void", open |-> FALSE]

---------------------------------------------------------------------------
\* dyncall_callvm.c: the call VM of each build.

dcMode(m, mode) ==
    CASE build = "x86" -> dc_callvm_mode_x86(m, mode)
      [] build \in {"x64", "win64"} -> dc_callvm_mode_x64(m, mode, build = "win64")
      [] build \in {"arm", "arm_eabi"} -> dc_callvm_mode_arm32_arm(m, mode, build)
      [] build = "thumb" -> dc_callvm_mode_arm32_thumb(m, mode, "arm")
      [] build = "thumb_eabi" -> dc_callvm_mode_arm32_thumb(m, mode, "arm_eabi")
      [] build = "armhf" -> armhf_mode(m, mode)
      [] build \in {"arm64", "arm64_win"} -> arm64_mode(m, mode, build = "arm64_win")
      [] build = "apple" -> apple_mode(m, mode)
      [] build = "mips_eabi" -> dc_callvm_mode_mips_eabi(m, mode)
      [] build = "mips_o32" -> dc_callvm_mode_mips_o32(m, mode)
      [] build = "mips_n32" -> dc_callvm_mode_mips_n32(m, mode)
      [] build = "mips_n64" -> dc_callvm_mode_mips_n64(m, mode)
      [] build = "ppc32_darwin" -> dc_callvm_mode_ppc32(m, mode, "darwin")
      [] build = "ppc32_sysv" -> dc_callvm_mode_ppc32(m, mode, "sysv")
      [] build \in {"ppc64_v1", "ppc64_v2"} -> dc_callvm_mode_ppc64(m, mode, build)
      [] build = "sparc" -> dc_callvm_mode_sparc(m, mode)
      [] build = "v9" -> dc_callvm_mode_v9(m, mode)

dcReset(m) ==
    CASE build = "x86" -> dcReset_x86(m)
      [] build \in {"x64", "win64"} -> dc_callvm_reset_x64(m)
      [] build \in {"arm", "arm_eabi", "thumb", "thumb_eabi"} -> dc_callvm_reset_arm32_arm(m)
      [] build = "armhf" -> armhf_reset(m)
      [] build \in {"arm64", "arm64_win", "apple"} -> arm64_reset(m)
      [] build = "mips_eabi" -> dc_callvm_reset_mips_eabi(m)
      [] build = "mips_o32" -> dc_callvm_reset_mips_o32(m)
      [] build \in {"mips_n32", "mips_n64"} -> dc_callvm_reset_mips_n64(m)
      [] build \in {"ppc32_darwin", "ppc32_sysv"} -> dc_callvm_reset_ppc32(m)
      [] build \in {"ppc64_v1", "ppc64_v2"} -> dc_callvm_reset_ppc64(m)
      [] build = "sparc" -> dc_callvm_reset_sparc(m)
      [] build = "v9" -> dc_callvm_reset_v9(m)

\* dcArgInt, dcArgLongLong, dcArgFloat, dcArgDouble, dcArgAggr...: argument n,
\* of type t, through the vtable of the mode.
dcArg(m, t, n) ==
    CASE build = "x86" -> dcArg_x86(m, t, n)
      [] build \in {"x64", "win64"} -> gVT_x64_arg(m, t, n)
      [] build \in {"arm", "arm_eabi"} -> gVT_arm32_arm_arg(m, t, n)
      [] build \in {"thumb", "thumb_eabi"} -> gVT_arm32_thumb_arg(m, t, n)
      [] build = "armhf" -> vt_armhf_arg(m, t, n)
      [] m.vt = "arm64" -> vt_arm64_arg(m, t, n)
      [] m.vt = "arm64_win_varargs" -> vt_arm64_win_varargs_arg(m, t, n)
      [] build = "apple" -> vt_apple_arg(m, t, n)
      [] build = "mips_eabi" -> gVT_mips_eabi_arg(m, t, n)
      [] build = "mips_o32" -> gVT_mips_o32_arg(m, t, n)
      [] m.vt = "mips_n32" -> dc_callvm_arg_mips_n32(m, t, n)
      [] m.vt = "mips_n32_ellipsis" -> gVT_mips_n32_ellipsis_arg(m, t, n)
      [] m.vt = "mips_n64" -> gVT_mips_n64_arg(m, t, n)
      [] m.vt = "mips_n64_ellipsis" -> gVT_mips_n64_ellipsis_arg(m, t, n)
      [] m.vt = "darwin" -> gVT_ppc32_darwin_arg(m, t, n)
      [] build \in {"ppc32_darwin", "ppc32_sysv"} /\ m.vt # "darwin" -> gVT_ppc32_sysv_arg(m, t, n)
      [] m.vt = "ppc64_v2_ellipsis" -> gVT_ppc64_ellipsis_arg(m, t, n)
      [] build \in {"ppc64_v1", "ppc64_v2"} /\ m.vt # "ppc64_v2_ellipsis" -> gVT_ppc64_arg(m, t, n)
      [] build = "sparc" -> gVT_sparc_arg(m, t, n)
      [] m.vt = "v9" -> gVT_v9_arg(m, t, n)
      [] m.vt = "v9_ellipsis" -> gVT_v9_ellipsis_arg(m, t, n)

---------------------------------------------------------------------------
\* The conventions in which a dyncall callback can be called: those of the
\* signature's prefix on x86, the native one elsewhere.
CallbackConventions ==
    CASE build = "x86" -> {"cdecl", "std", "fast_ms", "fast_gnu", "this_ms"}
      [] build = "x64" -> {"sysv"}
      [] build = "win64" -> {"win64", "win64_this"}
      [] build = "thumb" -> {"arm"}
      [] build = "thumb_eabi" -> {"arm_eabi"}
      [] build = "arm64_win" -> {"arm64"}
      [] build = "ppc32_darwin" -> {"darwin"}
      [] build = "ppc32_sysv" -> {"sysv"}
      [] OTHER -> {build}

\* The cursor with which the thunk of a callback enters its handler.
dcbCursor(vt, ret) ==
    CASE build = "x86" -> dc_callvm_call_x86(vm)
      [] build \in {"x64", "win64"} -> dcbInitCallback2_x64(vt, ret)
      [] build \in {"arm", "arm_eabi", "thumb", "thumb_eabi", "armhf"} -> dcbInitCallback2_arm32(vt)
      [] OTHER -> Cursor(vt, 0)

dcbArg(r, t) ==
    CASE build = "x86" -> dcbArg_x86(r, t)
      [] build \in {"x64", "win64"} -> dcbArg_x64(r, t)
      [] build \in {"arm", "arm_eabi", "thumb", "thumb_eabi", "armhf"} -> dcbArg_arm32(r, t)
      [] build \in {"arm64", "arm64_win"} -> dcbArg_arm64(r, t)
      [] build = "apple" -> dcbArg_apple(r, t)
      [] build = "mips_eabi" -> dcbArg_mips_eabi(r, t)
      [] build = "mips_o32" -> dcbArg_mips_o32(r, t)
      [] build \in {"mips_n32", "mips_n64"} -> dcbArg_mips64(r, t)
      [] build = "ppc32_darwin" -> dcbArg_ppc32_darwin(r, t)
      [] build = "ppc32_sysv" -> dcbArg_ppc32_sysv(r, t)
      [] build \in {"ppc64_v1", "ppc64_v2"} -> dcbArg_ppc64(r, t)
      [] build = "sparc" -> dcbArg_sparc32(r, t)
      [] build = "v9" -> dcbArg_sparc64(r, t)

\* dcNewCallVM, with VecTotal bytes for the vector.
dcNewCallVM == dcReset(dcMode(NewVM, "default"))

---------------------------------------------------------------------------
Init ==
    /\ build \in Builds
    /\ vm = dcNewCallVM
    /\ phase = "idle" /\ call = NoCall /\ pos = 0
    /\ sent = <<>> /\ rd = Cursor("none", 0) /\ got = <<>> /\ result = "none"

\* The client calls dcMode.
SetMode(mode) ==
    /\ phase = "idle"
    /\ vm' = dcMode(vm, mode)
    /\ UNCHANGED <<build, phase, call, pos, sent, rd, got, result>>

\* The client calls dcReset.
Reset ==
    /\ phase = "idle" /\ phase' = "ready"
    /\ vm' = dcReset(vm)
    /\ result' = "none"
    /\ UNCHANGED <<build, call, pos, sent, rd, got>>

\* dcGetModeFromCCSigChar: the modes that a signature can select (that of GNU's
\* thiscall is cdecl).
SigModes == {"default", "this", "ellipsis", "varargs", "cdecl", "std", "fast_ms",
             "fast_gnu", "this_ms", "arm_arm", "arm_thumb", "sys"}

\* The types of arguments that the functions of a build tell apart.
TypesOf(b) ==
    CASE b \in {"x64", "win64"} -> {"int", "longlong", "float", "double", "cxx"} \cup DOMAIN Aggr
      [] b = "apple" -> DOMAIN FormOf
      [] OTHER -> {"int", "longlong", "float", "double"}

\* The structs that a build can return.
ReturnsOf(b) == IF b \in {"x64", "win64"} THEN {"cxx"} \cup DOMAIN Aggr ELSE {}

\* The modes whose character is that of a type as well.
TypeLike == {"cdecl", "std", "fast_gnu", "arm_arm"}

\* A signature is made of modes and of types of arguments.  That of a call with a
\* struct as its result names the result, and has its modes among the items.  An
\* open one does not end in a mode that is also a type: it would ask for an
\* argument more than the client passes.
ASSUME CallsAssumption ==
    /\ Builds \subseteq Targets
    /\ \A b \in Builds : \A c \in Calls[b] :
        /\ c.sig \in Seq(SigModes \cup TypesOf(b)) /\ c.ret \in {"void"} \cup ReturnsOf(b)
        /\ c.open \in BOOLEAN
        /\ c.ret # "void" => ~c.open /\ c.prefix \notin SigModes
        /\ c.open => (IF c.sig = <<>> THEN c.prefix ELSE c.sig[Len(c.sig)]) \notin TypeLike

\* The vector is large enough for every call: an argument takes at most 72 bytes
\* of it (8 behind the save area of 64 on ppc64, 47 for a struct that win64
\* copies), behind at most 16 for the images of registers.
Fits ==
    /\ 16 <= VecTotal
    /\ \A b \in Builds : \A c \in Calls[b] : 16 + 72 * Len(c.sig) <= VecTotal

\* On x86 no signature selects a mode: between dcReset and the call, dcMode would
\* leave the vector with the registers' words of another convention.
PlainOnX86 ==
    "x86" \in Builds => \A c \in Calls["x86"] :
        c.prefix \notin SigModes /\ \A k \in DOMAIN c.sig : c.sig[k] \notin SigModes

\* The body of handle_mode: selects the mode of a character, without a reset, and
\* ignores one it does not know.
select_mode(m, mode) == IF mode \in SigModes THEN dcMode(m, mode) ELSE m

\* The character of item k, or that of the prefix for 0, is the string's last.
AtEnd(c, k) == c.open /\ k = Len(c.sig)

\* handle_mode: the last character of a string is left where it is.
handle_mode(m, mode, last) == IF last THEN m ELSE select_mode(m, mode)

\* dcVCallF looks at a struct result before anything else, and on its way there
\* selects every mode that the signature names.
Preselect(m, c) ==
    LET at[k \in 0..Len(c.sig)] ==
          IF k = 0 THEN m ELSE handle_mode(at[k - 1], c.sig[k], FALSE)
    IN  IF c.ret = "void" THEN m ELSE at[Len(c.sig)]

\* dcBeginCallAggr, for a call with a struct as its result.
dcBeginCallAggr(m, ret) == IF ret = "void" THEN m ELSE gVT_x64_begin(m, ret)

\* A thiscall has an object as its first argument.
HasThis(vt, sig) == vt \in {"this_ms", "win64_this"} => sig # <<>> /\ sig[1] = "int"

\* The client begins a call, by itself or with dcCallF.
Begin ==
    /\ phase = "ready" /\ phase' = "bind"
    /\ \E c \in Calls[build] :
        LET moded == Preselect(handle_mode(vm, c.prefix, AtEnd(c, 0)), c)
        IN  /\ HasThis(moded.vt, c.sig)
            /\ call' = c
            /\ vm' = dcBeginCallAggr(moded, c.ret)
    /\ UNCHANGED <<build, pos, sent, rd, got, result>>

\* The course of a call: the loop over the items, the entry into the callee, the
\* loop of its handler over the arguments, and the way back.
MoreItems == phase = "bind" /\ pos < Len(call.sig) /\ pos' = pos + 1 /\ UNCHANGED phase
EnterCallee == phase = "bind" /\ pos = Len(call.sig) /\ phase' = "run" /\ pos' = 0
MoreArgs == phase = "run" /\ pos < Len(sent) /\ pos' = pos + 1 /\ UNCHANGED phase
LeaveCallee == phase = "run" /\ pos = Len(sent) /\ phase' = "idle" /\ pos' = 0

\* The next item of the signature is a mode or an argument: a round of the loop in
\* dcArgF_impl, or a call of the client's.  The mode that ends an open string is
\* not selected; the loop meets its character again, which is of no type.
ArgF ==
    LET item == call.sig[pos + 1]
    IN  /\ MoreItems
        /\ IF item \in SigModes
           THEN vm' = handle_mode(vm, item, AtEnd(call, pos + 1)) /\ UNCHANGED sent
           ELSE vm' = dcArg(vm, item, Len(sent) + 1) /\ sent' = Append(sent, item)
        /\ UNCHANGED <<build, call, rd, got, result>>

\* dcCallVoid, dcCallInt, ..., dcCallAggr.
Call ==
    /\ EnterCallee
    /\ vm' = IF build \in {"x64", "win64"} THEN dc_callvm_call_x64(vm) ELSE vm
    /\ rd' = dcbCursor(vm.vt, call.ret)
    /\ UNCHANGED <<build, call, sent, got, result>>

\* A compiled callee finds argument n if all its bytes were stored and are still
\* there.
Intact(m, n) ==
    \E form \in DOMAIN Bytes : \A b \in 0..(Bytes[form] - 1) :
        \E e \in m.mem : e.arg = n /\ e.form = form /\ b \in e.from..(e.from + e.len - 1)

\* The callee takes its next argument.
Take ==
    LET n == pos + 1
        access == dcbArg(rd, sent[n])
    IN  /\ MoreArgs
        /\ IF rd.vt \in CallbackConventions
           THEN /\ rd' = access.rd
                /\ got' = Append(got, IF CopyIntact(vm, rd, sent[n], n)
                                      THEN Loaded(vm.mem, access, Len(sent)) ELSE 0)
           ELSE rd' = rd /\ got' = Append(got, IF Intact(vm, n) THEN n ELSE 0)
        /\ UNCHANGED <<build, vm, call, sent, result>>

\* A struct returned by the callback reaches the caller: behind the hidden pointer
\* if the callback finds that, or in the registers of its classes.
Delivered(ret) ==
    IF rd.hid # NoReg
    THEN Holds(vm.mem, Loc("I", 8 * rd.hid, 8), HiddenArg, "i8", 0)
    ELSE ReturnedAggr(dcbReturnAggr_x64(NewVM, rd.vt, ret).mem, vm.vt, ret)

\* The callee returns.
Return ==
    /\ LeaveCallee
    /\ result' = IF call.ret = "void" THEN "none"
                 ELSE IF Delivered(call.ret) THEN "value" ELSE "junk"
    /\ call' = NoCall /\ sent' = <<>> /\ rd' = Cursor("none", 0) /\ got' = <<>>
    /\ UNCHANGED <<build, vm>>

Next ==
    \/ \E mode \in Modes[build] : SetMode(mode)
    \/ Reset
    \/ Begin
    \/ ArgF \/ Call \/ Take \/ Return

Spec == Init /\ [][Next]_vars

---------------------------------------------------------------------------
\* The types, and that the callee's cursor keeps to the convention of the call
\* and to the number of arguments bound for it.
TypeOK ==
    /\ build \in Builds
    /\ phase \in {"idle", "ready", "bind", "run"}
    /\ call.ret \in {"void", "cxx"} \cup DOMAIN Aggr
    /\ pos \in 0..Len(call.sig)
    /\ phase = "run" => Len(got) = pos /\ rd.vt = vm.vt
    /\ vm.size \in 0..VecTotal
    /\ result \in {"none", "value", "junk"}

\* What the callee has taken: the type of an argument, or junk for a wrong value.
Taken == [n \in DOMAIN got |-> IF got[n] = n THEN sent[n] ELSE "junk"]
ArgTypes == DOMAIN FormOf \cup DOMAIN Aggr \cup {"cxx"}
Channel == INSTANCE ArgChannel WITH Types <- ArgTypes, busy <- (phase = "run"), got <- Taken

\* dyncall implements the channel: what the callback takes (dcbArgInt, ...) is
\* what the client bound (dcArgInt, ...), in the order of the signature, under
\* every convention, and the callee returns only when it has taken all of it.
RoundTrip == Channel!Spec

\* Every value that the callback has taken is the one bound for that argument.
TakesOwn == \A n \in DOMAIN got : got[n] = n

\* A struct that a callback returns (dcbReturnAggr) is what dcCallAggr gives to
\* its caller: both sides agree on the hidden pointer's register and on the
\* registers of the classes.
StructReturned == result # "junk"

\* Binding an argument does not disturb one that was bound before: no dcArg
\* function stores into a register or a part of the vector that another one of
\* this call filled.
BoundStays ==
    [][phase = "bind" /\ phase' = "bind" => \A e \in vm.mem : e \in vm'.mem]_vars

\* The targets whose stack words are 4 bytes and whose 64 bit values need no more.
FourAligned == {"x86", "arm", "thumb", "ppc32_darwin", "sparc"}

\* On the targets that ask for it, a 64 bit argument on the stack lies at a
\* multiple of 8: caller and callee agreeing on another place would still fail
\* with a compiled function on either side.
WideAligned ==
    phase # "idle" /\ build \notin FourAligned /\ vm.vt \notin {"arm", "darwin"}
        => \A e \in vm.mem : e.file = "V" /\ e.len = 8 => e.off % 8 = 0

\* Where the callee pops its arguments (stdcall, fastcall), what the callback's
\* thunk pops (stack_cleanup) is what the call kernel pushed: one byte more or
\* less and the kernel restores its caller's registers from the wrong words.
CleanupExact ==
    phase = "run" /\ vm.vt \in {"std", "fast_ms", "fast_gnu"}
        => dcbInitCallback2_x86(vm.vt, call.sig) = vm.size - gVT_x86[vm.vt].registers

\* The same for Microsoft's thiscall.
ThisCleanupExact ==
    phase = "run" /\ vm.vt = "this_ms"
        => dcbInitCallback2_x86(vm.vt, call.sig) = vm.size - gVT_x86[vm.vt].registers
=============================================================================
