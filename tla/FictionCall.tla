----------------------------- MODULE FictionCall -----------------------------
(***************************************************************************)
(* Calling native functions from Perl: Fiction_trigger (lib/Affix.cxx) on  *)
(* the one call VM of the interpreter, and the native functions' way back  *)
(* into Perl through cbHandlerXXXXX (lib/Affix/Callback.cxx).              *)
(*                                                                         *)
(* An activation of Fiction_trigger is a frame.  Perl code runs at depth 0 *)
(* (the program), inside a frame whose argument is being read (a tied or   *)
(* overloaded scalar, pc = "magic") and inside a frame whose native        *)
(* function called back (pc = "cb"); wherever Perl code runs it may call   *)
(* another fiction, or die.                                                *)
(***************************************************************************)
EXTENDS CallVM

CONSTANTS
    Fics,       \* the fictions: subs made by affix and wrap
    NoFic,      \* not a fiction
    Sig,        \* signature of each fiction: argument types, or NoSig
    NoSig,      \* signature == NULL: argument types were not given
    Ret,        \* return type of each fiction
    Cb,         \* what the CodeRef type of each fiction is like
    ArgLists,   \* the argument lists Perl code passes
    MaxDepth,   \* bound: nested activations
    MaxCalls    \* bound: activations in all

\* "void": VOID_FLAG and WSTRING_FLAG, which bind nothing; "int": the integer
\* and character types; "ptr": POINTER_FLAG and CODEREF_FLAG, marshalled by
\* sv2ptr; "pair", "mem": structs by value; "other": no case in the switch.
ArgTypes == {"void", "int", "float", "ptr", "pair", "mem", "other"}

\* Perl values: an integer, a number, a string, a tied scalar (whose flags still
\* show the integer that was last read from it) and one that sv2ptr refuses.
Actuals == {"int", "num", "str", "tied", "bad"}

\* "void": nothing comes back; "scalar": the value is copied into a->res;
\* "wchar", "pair", "mem": a->res is replaced by a new scalar; "other": no
\* case in the switch.
RetTypes == {"void", "scalar", "wchar", "pair", "mem", "other"}

\* "none": the signature has no CodeRef; "badarg", "badret": the CodeRef has
\* an argument or a return type that cbHandlerXXXXX does not handle.
CbKinds == {"none", "ok", "badarg", "badret"}

ASSUME FictionAssumption ==
    /\ NoFic \notin Fics
    /\ NoSig \notin Seq(ArgTypes)
    /\ Sig \in [Fics -> Seq(ArgTypes) \cup {NoSig}]
    /\ Ret \in [Fics -> RetTypes]
    /\ Cb \in [Fics -> CbKinds]
    /\ ArgLists \subseteq Seq(Actuals)
    /\ MaxDepth \in Nat /\ MaxCalls \in Nat

VARIABLES
    vm,      \* MY_CXT.cvm
    depth,   \* number of running activations
    frame,   \* frame[1..depth]: the activations, outermost first
    calls,   \* activations started so far; the last one's identity
    cbs,     \* fictions whose CodeRef argument was turned into a callback
    slot,    \* slot[f]: the activation whose result a->res of f holds
    temps    \* temps[d]: results not yet read by the Perl code at depth d

vars == <<vm, depth, frame, calls, cbs, slot, temps>>

Frame == [fic : Fics \cup {NoFic}, id : Nat, args : Seq(Actuals), pos : Nat,
          pc : {"idle", "bind", "magic", "native", "cb"},
          cb : Fics \cup {NoFic},   \* whose callback runs, when pc = "cb"
          disturbed : BOOLEAN]      \* history: a call began while it read an argument

Idle == [fic |-> NoFic, id |-> 0, args |-> <<>>, pos |-> 0,
         pc |-> "idle", cb |-> NoFic, disturbed |-> FALSE]

Temp == [fic : Fics, id : Nat, alias : BOOLEAN]
-----------------------------------------------------------------------------
\* The type that decides how argument i of a call is bound: the signature's,
\* or, without one, what the flags of the Perl value say.
TypeAt(f, args, i) ==
    IF Sig[f] # NoSig THEN Sig[f][i]
    ELSE CASE args[i] = "num" -> "float"
           [] args[i] \in {"int", "tied"} -> "int"
           [] OTHER -> "void"

Bind(m, e, ty) ==
    CASE ty \in {"int", "ptr"}  -> dcArgInt(m, e)
      [] ty = "float"           -> dcArgDouble(m, e)
      [] ty \in {"pair", "mem"} -> dcArgAggr(m, e, ty)
      [] OTHER                  -> m

\* sv2ptr croaks on a value it cannot convert; the switch on types it lacks.
Croaks(ty, a) == ty = "other" \/ (ty \in {"ptr", "pair", "mem"} /\ a = "bad")

\* Binding an argument first reads it, which runs Perl code when it is tied.
RunsPerl(ty, a) == ty # "void" /\ a = "tied"

Init ==
    /\ vm = dcReset
    /\ depth = 0
    /\ frame = [d \in 1..MaxDepth |-> Idle]
    /\ calls = 0
    /\ cbs = {}
    /\ slot = [f \in Fics |-> 0]
    /\ temps = [d \in 0..MaxDepth |-> <<>>]

\* Perl code runs at depth d: the program, or the code an activation entered.
PerlAt(d) == d > 0 => frame[d].pc \in {"magic", "cb"}

InPerl == PerlAt(depth)

\* Mutant: the code that caught the exception is unwound as well.
UnwindPast(d) ==
    /\ PerlAt(d)
    /\ depth' = d - 1
    /\ frame' = [k \in 1..MaxDepth |-> IF k >= d THEN Idle ELSE frame[k]]
    /\ temps' = [k \in 0..MaxDepth |-> IF k >= d THEN <<>> ELSE temps[k]]

\* croak and die: control goes to an eval, in the program or in some Perl code
\* that a running activation entered; everything above it is gone.
UnwindTo(d) ==
    /\ PerlAt(d)
    /\ depth' = d
    /\ frame' = [k \in 1..MaxDepth |-> IF k > d THEN Idle ELSE frame[k]]
    /\ temps' = [k \in 0..MaxDepth |-> IF k > d THEN <<>> ELSE temps[k]]

Top == frame[depth]

SetTop(fr) == frame' = [frame EXCEPT ![depth] = fr]

\* Mutants: the reset forgets the argument vector, the register that is kept for
\* a hidden pointer, the integer registers.
StartedOnOldStack(f) == [dcReset EXCEPT !.stack = vm.stack, !.size = vm.size]
StartedOnOldHidden(f) == [dcReset EXCEPT !.hidden = vm.hidden]
StartedOnOldInts(f) == [dcReset EXCEPT !.ints = vm.ints]

\* The VM after the start of Fiction_trigger: reset, and told of a struct result.
Started(f) ==
    IF Ret[f] \in {"pair", "mem"} THEN dcBeginCallAggr(dcReset, Ret[f]) ELSE dcReset

\* The check that only a signature makes possible.
ArityOK(f, args) == Sig[f] # NoSig => Len(args) = Len(Sig[f])

\* A fiction's reset comes before anything else, so another activation that was
\* reading one of its arguments loses what it had bound.
Disturb(fr) == IF fr.pc = "magic" THEN [fr EXCEPT !.disturbed = TRUE] ELSE fr

\* Perl code may call a fiction, also while it holds the results of earlier calls.
MayCall ==
    /\ InPerl
    /\ calls < MaxCalls

\* The number of arguments fits: an activation starts.
Call(f, args) ==
    /\ MayCall
    /\ depth < MaxDepth
    /\ ArityOK(f, args)
    /\ vm' = Started(f)
    /\ calls' = calls + 1
    /\ depth' = depth + 1
    /\ frame' = [k \in 1..MaxDepth |->
          IF k = depth + 1
          THEN [fic |-> f, id |-> calls + 1, args |-> args, pos |-> 1,
                pc |-> "bind", cb |-> NoFic, disturbed |-> FALSE]
          ELSE IF k = depth THEN Disturb(frame[k])
          ELSE frame[k]]
    /\ UNCHANGED <<cbs, slot, temps>>

\* "Too many arguments", "Not enough arguments": croak, with the VM reset.
CallArity(f, args, d) ==
    /\ MayCall
    /\ ~ArityOK(f, args)
    /\ d \in 0..depth
    /\ vm' = Started(f)
    /\ calls' = calls + 1
    /\ PerlAt(d)
    /\ depth' = d
    /\ frame' = [k \in 1..MaxDepth |->
          IF k > d THEN Idle
          ELSE IF k = d THEN Disturb(frame[k])
          ELSE frame[k]]
    /\ temps' = [k \in 0..MaxDepth |-> IF k > d THEN <<>> ELSE temps[k]]
    /\ UNCHANGED <<cbs, slot>>

Binding ==
    /\ depth > 0
    /\ Top.pc = "bind"
    /\ Top.pos <= Len(Top.args)

TopType == TypeAt(Top.fic, Top.args, Top.pos)

TopEntry == [call |-> Top.id, pos |-> Top.pos]

\* A CodeRef argument becomes a callback, which is never freed.
Registered ==
    IF TopType = "ptr" /\ Cb[Top.fic] # "none" THEN cbs \cup {Top.fic} ELSE cbs

\* One turn of the loop over the signature: the argument is bound.
BindArg ==
    /\ Binding
    /\ ~Croaks(TopType, Top.args[Top.pos])
    /\ ~RunsPerl(TopType, Top.args[Top.pos])
    /\ vm' = Bind(vm, TopEntry, TopType)
    /\ SetTop([Top EXCEPT !.pos = @ + 1])
    /\ cbs' = Registered
    /\ UNCHANGED <<depth, calls, slot, temps>>

\* The argument is tied or overloaded: reading it enters Perl code.
ReadMagic ==
    /\ Binding
    /\ ~Croaks(TopType, Top.args[Top.pos])
    /\ RunsPerl(TopType, Top.args[Top.pos])
    /\ SetTop([Top EXCEPT !.pc = "magic"])
    /\ UNCHANGED <<vm, depth, calls, cbs, slot, temps>>

\* That Perl code returns the value, which is then bound.
MagicDone ==
    /\ depth > 0
    /\ Top.pc = "magic"
    /\ vm' = Bind(vm, TopEntry, TopType)
    /\ SetTop([Top EXCEPT !.pc = "bind", !.pos = @ + 1])
    /\ temps' = [temps EXCEPT ![depth] = <<>>]
    /\ cbs' = Registered
    /\ UNCHANGED <<depth, calls, slot>>

\* The argument cannot be bound: croak out of the half-bound call.
BindCroak(d) ==
    /\ Binding
    /\ Croaks(TopType, Top.args[Top.pos])
    /\ d \in 0..(depth - 1)
    /\ UnwindTo(d)
    /\ UNCHANGED <<vm, calls, cbs, slot>>

\* All arguments are bound; dcCall has not started yet.
Ready ==
    /\ depth > 0
    /\ Top.pc = "bind"
    /\ Top.pos > Len(Top.args)

\* dcCall...: control is in the native function.
EnterNative ==
    /\ Ready
    /\ Ret[Top.fic] # "other"
    /\ SetTop([Top EXCEPT !.pc = "native"])
    /\ UNCHANGED <<vm, depth, calls, cbs, slot, temps>>

\* "Unknown or unhandled return type": the native function is never called.
RetCroak(d) ==
    /\ Ready
    /\ Ret[Top.fic] = "other"
    /\ d \in 0..(depth - 1)
    /\ UnwindTo(d)
    /\ UNCHANGED <<vm, calls, cbs, slot>>

InNative == depth > 0 /\ Top.pc = "native"

\* The native function calls a callback it was given, now or in an earlier call.
EnterCallback(f) ==
    /\ InNative
    /\ f \in cbs
    /\ Cb[f] # "badarg"
    /\ SetTop([Top EXCEPT !.pc = "cb", !.cb = f])
    /\ UNCHANGED <<vm, depth, calls, cbs, slot, temps>>

\* "Attempt to pass unknown or unhandled type to CodeRef".
CallbackArgCroak(f, d) ==
    /\ InNative
    /\ f \in cbs
    /\ Cb[f] = "badarg"
    /\ d \in 0..(depth - 1)
    /\ UnwindTo(d)
    /\ UNCHANGED <<vm, calls, cbs, slot>>

\* The Perl callback returns to the native function; FREETMPS drops its results.
CallbackReturn ==
    /\ depth > 0
    /\ Top.pc = "cb"
    /\ Cb[Top.cb] # "badret"
    /\ SetTop([Top EXCEPT !.pc = "native", !.cb = NoFic])
    /\ temps' = [temps EXCEPT ![depth] = <<>>]
    /\ UNCHANGED <<vm, depth, calls, cbs, slot>>

\* "Attempt to return unknown or unhandled type from CodeRef".
CallbackRetCroak(d) ==
    /\ depth > 0
    /\ Top.pc = "cb"
    /\ Cb[Top.cb] = "badret"
    /\ d \in 0..(depth - 1)
    /\ UnwindTo(d)
    /\ UNCHANGED <<vm, calls, cbs, slot>>

\* Perl code in a callback or behind a tied argument dies.
Die(d) ==
    /\ depth > 0
    /\ InPerl
    /\ d \in 0..(depth - 1)
    /\ UnwindTo(d)
    /\ UNCHANGED <<vm, calls, cbs, slot>>

\* Mutant: the result is handed out without being stored in a->res.
ReturnUnstored ==
    /\ InNative
    /\ temps' = [k \in 0..MaxDepth |->
          IF k = depth THEN <<>>
          ELSE IF k = depth - 1 /\ Ret[Top.fic] # "void"
          THEN Append(temps[k], [fic |-> Top.fic, id |-> Top.id, alias |-> Ret[Top.fic] = "scalar"])
          ELSE temps[k]]
    /\ depth' = depth - 1
    /\ frame' = [frame EXCEPT ![depth] = Idle]
    /\ UNCHANGED <<vm, calls, cbs, slot>>

\* The native function returns.  A scalar result is written into a->res, which
\* itself is handed to Perl; the other kinds replace a->res by a new scalar.
Return ==
    /\ InNative
    /\ LET f == Top.fic
           aliased == Ret[f] = "scalar"
       IN /\ slot' = IF Ret[f] = "void" THEN slot ELSE [slot EXCEPT ![f] = Top.id]
          /\ temps' = [k \in 0..MaxDepth |->
                IF k = depth THEN <<>>
                ELSE IF k = depth - 1 /\ Ret[f] # "void"
                THEN Append(temps[k], [fic |-> f, id |-> Top.id, alias |-> aliased])
                ELSE temps[k]]
    /\ depth' = depth - 1
    /\ frame' = [frame EXCEPT ![depth] = Idle]
    /\ UNCHANGED <<vm, calls, cbs>>

\* The Perl code at the current depth reads (copies) the results it holds.
UseResults ==
    /\ InPerl
    /\ temps[depth] # <<>>
    /\ temps' = [temps EXCEPT ![depth] = <<>>]
    /\ UNCHANGED <<vm, depth, frame, calls, cbs, slot>>

Next ==
    \/ \E f \in Fics, args \in ArgLists : Call(f, args)
    \/ \E f \in Fics, args \in ArgLists, d \in 0..MaxDepth : CallArity(f, args, d)
    \/ BindArg
    \/ ReadMagic
    \/ MagicDone
    \/ \E d \in 0..MaxDepth : BindCroak(d)
    \/ EnterNative
    \/ \E d \in 0..MaxDepth : RetCroak(d)
    \/ \E f \in Fics : EnterCallback(f)
    \/ \E f \in Fics, d \in 0..MaxDepth : CallbackArgCroak(f, d)
    \/ CallbackReturn
    \/ \E d \in 0..MaxDepth : CallbackRetCroak(d)
    \/ \E d \in 0..MaxDepth : Die(d)
    \/ Return
    \/ UseResults

Spec == Init /\ [][Next]_vars
-----------------------------------------------------------------------------
\* The types of the variables of the call machinery (my_cxt_t and the C frames).
TypeOK ==
    /\ vm \in VM
    /\ depth \in 0..MaxDepth
    /\ frame \in [1..MaxDepth -> Frame]
    /\ calls \in 0..MaxCalls
    /\ cbs \subseteq Fics
    /\ slot \in [Fics -> Nat]
    /\ temps \in [0..MaxDepth -> Seq(Temp)]

\* The three places of a VM that the callee reads its arguments from.
Places(m) == {m.ints, m.floats, m.stack}

OnlyOf(m, id) == \A q \in Places(m) : \A i \in 1..Len(q) : q[i].call = id

LeftToRight(m) ==
    \A q \in Places(m) : \A i, j \in 1..Len(q) : i < j => q[i].pos < q[j].pos

IsBound(m, p) == \E q \in Places(m) : \E i \in 1..Len(q) : q[i].pos = p

\* The arguments up to position n that their type does not skip are bound,
\* unless the vector overflowed, and nothing else is.
Complete(m, f, args, n) ==
    /\ \A q \in Places(m) : \A i \in 1..Len(q) :
          q[i].pos \in 1..n /\ TypeAt(f, args, q[i].pos) # "void"
    /\ \A p \in 1..n : TypeAt(f, args, p) # "void" /\ m.lost = 0 => IsBound(m, p)

\* When Fiction_trigger reaches dcCall, the call VM holds the arguments of this
\* very activation and nothing else, left to right, each that its type does not
\* skip: whatever was bound by calls that croaked half way, by calls made from
\* callbacks, or by calls that unwound, is gone.  The exception is an
\* activation during whose marshalling another fiction was called.
OwnArguments ==
    Ready /\ ~Top.disturbed =>
        /\ OnlyOf(vm, Top.id)
        /\ LeftToRight(vm)
        /\ Complete(vm, Top.fic, Top.args, Len(Top.args))

\* The same without the exception, which is what the dyncall manual promises
\* to a program that binds from one thread (Fiction_trigger's dcReset breaks it).
AllArguments == Ready => OnlyOf(vm, Top.id)

\* The shape of the C stack: below the top, every activation waits for Perl
\* code it entered; one that waits for a tied argument has been disturbed.
StackShape ==
    \A k \in 1..MaxDepth :
        /\ k <= depth =>
              /\ frame[k].fic \in Fics
              /\ frame[k].pc # "idle"
              /\ frame[k].pos \in 1..(Len(frame[k].args) + 1)
              /\ ArityOK(frame[k].fic, frame[k].args)
              /\ frame[k].pc = "cb" => frame[k].cb \in cbs
              /\ frame[k].pc = "magic" =>
                    /\ frame[k].pos <= Len(frame[k].args)
                    /\ TypeAt(frame[k].fic, frame[k].args, frame[k].pos) # "other"
        /\ k < depth =>
              /\ frame[k].pc \in {"magic", "cb"}
              /\ frame[k].pc = "magic" => frame[k].disturbed

\* What the VM holds all along the loop over the arguments.
BoundSoFar ==
    depth > 0 /\ Top.pc \in {"bind", "magic"} /\ ~Top.disturbed =>
        /\ OnlyOf(vm, Top.id)
        /\ LeftToRight(vm)
        /\ Complete(vm, Top.fic, Top.args, Top.pos - 1)

\* The inductive invariant behind OwnArguments: Fiction_trigger's loop, on a
\* stack of activations that share the VM.
CallInv == TypeOK /\ StackShape /\ BoundSoFar

\* A VM that was never used, told of the result of a fiction.
FreshVM(f) == [dcReset EXCEPT !.hidden = IF Ret[f] = "mem" THEN 1 ELSE 0]

\* BoundAlone(f, args, id)[n]: the VM that the first n arguments of one call
\* give when nothing else ever used it.
BoundAlone(f, args, id) ==
    LET m[n \in 0..Len(args)] ==
          IF n = 0 THEN FreshVM(f)
          ELSE Bind(m[n - 1], [call |-> id, pos |-> n], TypeAt(f, args, n))
    IN  m

\* At dcCall, registers and stack are exactly those of a VM that only this
\* activation ever used: nested calls and croaks leave no count, no hidden
\* return register and no stack word behind (dc_callvm_reset_x64).
AsIfAlone ==
    Ready /\ ~Top.disturbed =>
        vm = BoundAlone(Top.fic, Top.args, Top.id)[Len(Top.args)]

\* The same all along the loop, which with CallInv is inductive.
AloneSoFar ==
    depth > 0 /\ Top.pc \in {"bind", "magic"} /\ ~Top.disturbed =>
        vm = BoundAlone(Top.fic, Top.args, Top.id)[Top.pos - 1]

\* What Perl code reads when it uses a result it was handed.
ReadTemp(t) == IF t.alias THEN slot[t.fic] ELSE t.id

\* All calls of a fiction share one a->res, so a result that Perl code has not
\* read may turn into that of another call of the same fiction.  That call began
\* later and has come to its end: an activation that runs further out, and
\* returns after the calls made inside it, never replaces what they returned, and
\* a call that croaks or is unwound replaces nothing.
HeldResults ==
    \A d \in 0..MaxDepth : \A i \in 1..Len(temps[d]) :
        /\ ReadTemp(temps[d][i]) >= temps[d][i].id
        /\ \A k \in 1..depth : frame[k].id # ReadTemp(temps[d][i])
=============================================================================
