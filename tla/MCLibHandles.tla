---------------------------- MODULE MCLibHandles ----------------------------
(***************************************************************************)
(* LibHandles with two libraries, two objects, two subs and one pin.       *)
(***************************************************************************)
EXTENDS LibHandles, TLC

Symmetry == Permutations(Libs) \cup Permutations(Objs) \cup Permutations(Subs)
=============================================================================
