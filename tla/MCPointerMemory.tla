-------------------------- MODULE MCPointerMemory --------------------------
(***************************************************************************)
(* PointerMemory with four blocks and four scalars: enough for a block     *)
(* to be freed and handed out again while an old pointer to it remains.    *)
(***************************************************************************)
EXTENDS PointerMemory, TLC

Symmetry == Permutations(Blocks) \cup Permutations(PVars)
=============================================================================
