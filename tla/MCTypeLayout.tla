---------------------------- MODULE MCTypeLayout ----------------------------
(***************************************************************************)
(* TypeLayout and AggregateClass with the sizes 1, 4 and 8 of x64, and the *)
(* Affix types of these sizes that are described differently.  Three       *)
(* aggregates of two members nest, reuse each other and give paths of      *)
(* length three.                                                           *)
(***************************************************************************)
EXTENDS AggregateClass

MCNative ==
    [n \in Base |->
        CASE n = 1 -> {"Char", "SChar", "Bool"}
          [] n = 4 -> {"Int", "Float", "WChar"}
          [] n = 8 -> {"LongLong", "Double"}]
=============================================================================
