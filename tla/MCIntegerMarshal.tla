-------------------------- MODULE MCIntegerMarshal --------------------------
(***************************************************************************)
(* IntegerMarshal with the widths 2, 3, 4 and 6 for char, short, int and   *)
(* long: each narrower than the next, and long as wide as Perl's integers, *)
(* as on x64.                                                              *)
(***************************************************************************)
EXTENDS IntegerMarshal

Width ==
    [bool |-> 1, char |-> 2, uchar |-> 2, short |-> 3, ushort |-> 3, int |-> 4, uint |-> 4,
     long |-> 6, ulong |-> 6, longlong |-> 6, ulonglong |-> 6]

MCSize == [t \in DOMAIN Width |-> 2^Width[t]]
=============================================================================
