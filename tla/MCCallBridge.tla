---------------------------- MODULE MCCallBridge ----------------------------
(***************************************************************************)
(* Signatures for CallBridge: a run of one type that leaves few registers, *)
(* or none, and behind it every tail of at most two arguments, or three.    *)
(***************************************************************************)
EXTENDS CallBridge

MCBuilds == Targets

\* The modes that a build knows, and one that it does not.
Native == {"default", "varargs"}
MCModes == [b \in MCBuilds |->
    CASE b = "x86" -> {"cdecl", "std", "fast_ms", "fast_gnu", "this_ms", "sys", "int80h_bsd", "win64"}
      [] b = "x64" -> {"default", "sys", "win64"}
      [] b = "win64" -> {"default", "this", "sysv"}
      [] b \in {"arm", "arm_eabi"} -> {"arm_arm", "arm_arm_eabi", "arm_thumb"}
      [] b \in {"thumb", "thumb_eabi"} -> {"arm_thumb", "arm_thumb_eabi", "arm_arm"}
      [] b \in {"ppc32_darwin", "ppc32_sysv"} -> {"darwin", "sysv", "sys"}
      [] b \in {"ppc64_v1", "ppc64_v2"} -> Native \cup {"sys"}
      [] OTHER -> Native]

Run(k, t) == [j \in 1..k |-> t]
Runs(ints, floats, doubles) ==
    {<<>>} \cup {Run(k, "int") : k \in ints} \cup {Run(k, "float") : k \in floats}
           \cup {Run(k, "double") : k \in doubles}
Front(b) ==
    CASE b = "x86" -> Runs({1, 2}, {1}, {})
      [] b \in {"arm", "arm_eabi", "thumb", "thumb_eabi", "sparc"} -> Runs({1, 2, 3, 4}, {}, {})
      [] b = "x64" -> Runs({4, 5, 6}, {}, {6, 7, 8})
      [] b = "win64" -> Runs({2, 3, 4}, {}, {3, 4})
      [] b = "armhf" -> Runs({3, 4}, {1, 12}, {6}) \cup
                        {Run(4, "int") \o r : r \in Runs({}, {13, 16}, {7, 8})}
      [] b \in {"mips_eabi", "mips_o32"} -> Runs({1, 5, 6, 7, 8}, {1, 6, 8}, {1, 3, 4})
      [] b \in {"ppc32_darwin", "ppc64_v1", "ppc64_v2"} -> Runs({6, 7, 8}, {12, 13}, {3, 12, 13})
      [] b = "v9" -> Runs({5, 6}, {15, 16}, {})
      [] OTHER -> Runs({6, 7, 8}, {7, 8}, {7, 8})

Tails(T) == {<<>>} \cup {<<t>> : t \in T}
Pairs(T) == {<<t, u>> : t, u \in T}
Triples(T) == {<<t, u, v>> : t, u, v \in T}
Scalars == {"int", "longlong", "float", "double"}
Last(b) ==
    CASE b = "apple" -> Scalars \cup {"char", "short"}
      [] b \in {"x64", "win64"} -> {"int", "double", "s8", "s12", "s16", "s24", "cxx"}
      [] OTHER -> Scalars

\* The structs that a call returns.
Returns(b) == IF b \in {"x64", "win64"} THEN {"s8", "s12", "s16", "s24", "cxx"} ELSE {}

Plain(front, tails, rets) ==
    {[prefix |-> "none", sig |-> f \o t, ret |-> r, open |-> FALSE] : f \in front, t \in tails, r \in rets}

\* Calls whose signature selects a mode, the last two where the mode ends the
\* string of a dcArgF; not on x86 (see README).
Moded(prefix, sig, open) == [prefix |-> prefix, sig |-> sig, ret |-> "void", open |-> open]
Prefixed ==
    {Moded("ellipsis", <<"int", "double", "varargs", "float", "int">>, FALSE),
     Moded("std", <<"int", "double">>, FALSE),
     Moded("unknown", <<"int", "double">>, FALSE),
     Moded("ellipsis", <<"int", "double", "varargs">>, TRUE),
     Moded("ellipsis", <<>>, TRUE)}

\* The builds that align 64 bit values in registers or on the stack.
Paired == {"x86", "arm_eabi", "mips_o32", "ppc32_sysv"}

MCCalls == [b \in MCBuilds |->
    Plain(Front(b), Tails(Last(b)), {"void"} \cup Returns(b)) \cup
    Plain(Front(b), Pairs(Last(b)), {"void"} \cup (Returns(b) \cap {"s16", "s24"})) \cup
    Plain(IF b \in Paired THEN Front(b) ELSE {}, Triples(Last(b)), {"void"}) \cup
    (IF b = "x86" THEN {} ELSE Prefixed) \cup
    {[prefix |-> "none", ret |-> r, open |-> FALSE,
      sig |-> <<"int", "this", "double", "int">>] : r \in Returns(b)}]

\* More floating point arguments than registers for them, while registers for
\* integers are left.
MCSpilled == [b \in {"armhf", "mips_eabi"} |->
    Plain({Run(8, "double"), Run(9, "float") \o <<"longlong">>}, Tails({"float"}), {"void"})]

\* The calls of the runs meet the hypotheses of the theorems.
ASSUME CallsFit == Fits /\ PlainOnX86
=============================================================================
