-------------------------- MODULE MCStructMarshal --------------------------
(***************************************************************************)
(* StructMarshal with a Char, an Int and a Str, in structs and unions of   *)
(* up to two members, nested once.  A value of several elements has four:  *)
(* four chars run over the padding behind a Char and four ints over any    *)
(* member behind an Int.                                                   *)
(***************************************************************************)
EXTENDS StructMarshal

Kinds == [n \in {1, 4, 8} |-> CASE n = 1 -> "char" [] n = 4 -> "num" [] OTHER -> "str"]
=============================================================================
