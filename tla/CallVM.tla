------------------------------- MODULE CallVM -------------------------------
(***************************************************************************)
(* The dyncall call VM for x64 System V, as Affix uses it.                 *)
(*                                                                         *)
(* Affix owns one call VM per interpreter (my_cxt_t.cvm).  Binding an      *)
(* argument puts it into the next integer or floating point register, or,  *)
(* when those are used up, at the end of a vector of fixed capacity that   *)
(* becomes the callee's stack.  An entry of the VM is abstracted to the    *)
(* activation of Fiction_trigger that bound it and the position of the     *)
(* argument in that activation's list; sizes are in eightbytes.            *)
(***************************************************************************)
EXTENDS Naturals, Sequences

CONSTANTS
    NIntRegs,    \* numIntRegs (6 on System V)
    NFloatRegs,  \* numFloatRegs (8 on System V)
    StackCap,    \* mTotal of the argument vector, in eightbytes
    MemWords     \* size of a struct of class MEMORY, in eightbytes

\* A hidden return pointer takes one integer register, and a struct of class
\* INTEGER+SSE must then still fit: dc_callvm_argAggr_x64 counts the registers
\* before the hidden one is skipped.
ASSUME VMAssumption ==
    /\ NIntRegs \in Nat /\ NIntRegs >= 2
    /\ NFloatRegs \in Nat /\ NFloatRegs >= 1
    /\ StackCap \in Nat
    /\ MemWords \in Nat /\ MemWords >= 1

\* An argument bound by activation `call' at position `pos'.
Entry == [call : Nat, pos : Nat]

\* ints/floats: mRegData with mRegCount; stack/size: mVecHead and its mSize;
\* hidden: 1 when mAggrReturnReg = 0, a register is kept for a hidden pointer;
\* lost: how often dcVecAppend took its empty else branch (no field of the code
\* records it: dyncall keeps no trace).
VM == [ints : Seq(Entry), floats : Seq(Entry), stack : Seq(Entry),
       size : Nat, hidden : 0..1, lost : Nat]

\* dc_callvm_reset_x64.
dcReset == [ints |-> <<>>, floats |-> <<>>, stack |-> <<>>,
            size |-> 0, hidden |-> 0, lost |-> 0]

\* dc_callvm_begin_aggr_x64: a struct of class MEMORY is returned through a
\* hidden first argument.
dcBeginCallAggr(vm, ty) == [vm EXCEPT !.hidden = IF ty = "mem" THEN 1 ELSE 0]

\* dcVecAppend: what does not fit is dropped without any report.
dcVecAppend(vm, e, words) ==
    IF vm.size + words <= StackCap
    THEN [vm EXCEPT !.stack = Append(@, e), !.size = @ + words]
    ELSE [vm EXCEPT !.lost = @ + 1]

\* Integer registers that arguments can use.
IntRoom(vm) == NIntRegs - vm.hidden

\* mRegCount.i: the hidden register is only counted once an argument skipped it.
RegCountInt(vm) ==
    Len(vm.ints) + (IF vm.ints # <<>> THEN vm.hidden ELSE 0)

\* dc_callvm_argLongLong_x64, and the narrower and pointer forms of it.
dcArgInt(vm, e) ==
    IF Len(vm.ints) < IntRoom(vm)
    THEN [vm EXCEPT !.ints = Append(@, e)]
    ELSE dcVecAppend(vm, e, 1)

\* dc_callvm_argDouble_x64 and dc_callvm_argFloat_x64.
dcArgDouble(vm, e) ==
    IF Len(vm.floats) < NFloatRegs
    THEN [vm EXCEPT !.floats = Append(@, e)]
    ELSE dcVecAppend(vm, e, 1)

\* dc_callvm_argAggr_x64: a struct goes into registers only as a whole.
dcArgAggr(vm, e, ty) ==
    IF ty = "mem"
    THEN dcVecAppend(vm, e, MemWords)
    ELSE IF RegCountInt(vm) + 1 > NIntRegs \/ Len(vm.floats) + 1 > NFloatRegs
    THEN dcVecAppend(vm, e, 2)
    ELSE dcArgDouble(dcArgInt(vm, e), e)
=============================================================================
