--------------------------- MODULE AggregateClass ---------------------------
(***************************************************************************)
(* How a struct or union travels by value on x64 System V: _aggregate      *)
(* (lib/Affix/Aggregate.cxx) describes a type of TypeLayout to dyncall,    *)
(* which classifies its eightbytes (dyncall_aggregate_x64.c).  CallVM's    *)
(* dcArgAggr and dcBeginCallAggr go by these classes.                      *)
(***************************************************************************)
EXTENDS TypeLayout

CONSTANTS
    Native,         \* the Affix types of each size of TypeLayout's Base
    SizeofBool,     \* sizeof(DCbool), which is an int
    SizeofLongLong  \* sizeof(DClonglong)

\* The Affix types that differ here: the other integer and the pointer types are
\* described as Char, Int and LongLong are.
AffixTypes == {"Char", "SChar", "Bool", "Int", "Float", "WChar", "LongLong", "Double"}

ASSUME ClassAssumption ==
    /\ Native \in [Base -> SUBSET AffixTypes]
    /\ SizeofBool \in Nat \ {0} /\ SizeofLongLong \in Nat \ {0}

EightByte == 8

\* What dcAggrField takes the basic types for that _aggregate names: a Bool for
\* an int and a WChar, for which dyncall has no character, for a long long.
FieldSize(name, size) ==
    CASE name = "Bool"  -> SizeofBool
      [] name = "WChar" -> SizeofLongLong
      [] OTHER          -> size

NoAggr == [size |-> 0, alignment |-> 0, fields |-> <<>>, croaked |-> FALSE]

\* dcAggrField: a field takes its alignment from its size, or from the largest
\* field of its aggregate.
dcAggrField(ag, m, name, sub) ==
    LET size == IF m.kind = "base" THEN FieldSize(name, m.size) ELSE sub.size
        align == IF m.kind = "base" THEN size ELSE sub.alignment
    IN  [ag EXCEPT
            !.alignment = IF @ < align THEN align ELSE @,
            !.fields = Append(@, [kind |-> m.kind, float |-> name \in {"Float", "Double"},
                                  offset |-> m.off, size |-> size,
                                  alignment |-> align, sub_aggr |-> sub])]

\* _aggregate: the DCaggr of t, with those of the aggregates in it, where name
\* tells the Affix types of the basic members by their paths and p leads to t.
\* It croaks at an SChar.
RECURSIVE aggregate(_, _, _)
aggregate(t, p, name) ==
    FoldLeftDomain(
        LAMBDA ag, k :
            LET m == t.elems[k]
                q == Append(p, k)
                sub == IF m.kind = "base" THEN NoAggr ELSE aggregate(m, q, name)
                kind == IF m.kind = "base" THEN name[q] ELSE m.kind
            IN  IF ag.croaked \/ sub.croaked \/ kind = "SChar"
                THEN [NoAggr EXCEPT !.croaked = TRUE]
                ELSE dcAggrField(ag, m, kind, sub),
        [NoAggr EXCEPT !.size = t.size], t.elems)


\* dc_merge_sysv_classes, over all that is to be merged.
dc_merge_sysv_classes(classes) ==
    CASE "MEMORY" \in classes  -> "MEMORY"
      [] "INTEGER" \in classes -> "INTEGER"
      [] "SSE" \in classes     -> "SSE"
      [] OTHER                 -> "NONE"

\* dc_get_sysv_class_for_8byte.  An offset below 0 is a large DCsize and so
\* outside.  The loop over the elements of an aggregate field, which has one,
\* begins with element (qword_offset - offset) / size, an int: -1 for a field
\* that begins inside the eightbyte.
RECURSIVE ClassFor8byte(_, _, _)
ClassFor8byte(ag, index, base_offset) ==
    LET qword == index * EightByte
        At(f) == base_offset + f.offset
        inside == {f \in Range(ag.fields) :
                      At(f) >= 0 /\ At(f) < qword + EightByte /\ At(f) + f.size > qword}
        First(f) == (qword - At(f)) \div f.size
        Behind(f) == Min({EightByte \div f.size + First(f) + 1, 1})
        Class(f) ==
            CASE f.kind = "base" /\ f.float -> "SSE"
              [] f.kind = "base"            -> "INTEGER"
              [] OTHER -> dc_merge_sysv_classes(
                    {ClassFor8byte(f.sub_aggr, index, At(f) + f.size * j) :
                        j \in First(f)..(Behind(f) - 1)})
    IN  IF \E f \in inside : At(f) % f.alignment # 0
        THEN "MEMORY"
        ELSE dc_merge_sysv_classes({Class(f) : f \in inside})

\* dc_get_sysv_classes_for_aggr.
ClassesForAggr(ag) ==
    LET classes == <<ClassFor8byte(ag, 0, 0), ClassFor8byte(ag, 1, 0)>>
    IN  IF ag.size > 2 * EightByte \/ "MEMORY" \in Range(classes)
        THEN <<"MEMORY">> ELSE classes
-----------------------------------------------------------------------------
\* The offsets and the size of t are those of the C compiler.
SameLayout(t) ==
    t.size = t.csize /\ \A p \in Paths(t) : Beginning(t, p) = CBeginning(t, p)

\* The Affix types that the basic members of t can have.
Namings(t) ==
    FoldSet(LAMBDA p, names :
                {name @@ (p :> n) : name \in names, n \in Native[Follow(t, p).size]},
            {<<>>}, Leaves(t))

\* The basic members in each of the two eightbytes of the C layout.
EightBytes(t) ==
    LET In(i) == {p \in Leaves(t) : CBeginning(t, p) \div EightByte = i}
    IN  <<In(0), In(1)>>

\* The System V rules: an eightbyte is INTEGER if anything in it is, and
\* otherwise SSE.
ABIClasses(in, name) ==
    [i \in 1..2 |->
        CASE in[i] = {}                                       -> "NONE"
          [] \A p \in in[i] : name[p] \in {"Float", "Double"} -> "SSE"
          [] OTHER                                            -> "INTEGER"]

\* Each Bool and WChar is at a multiple of the size that dyncall takes it for,
\* and so is every aggregate in t that has one.
MistakenAligned(t, name) ==
    \A p \in DOMAIN name :
        name[p] \in {"Bool", "WChar"} =>
            \A n \in 1..Len(p) :
                Steps(t, p)[n].begin % FieldSize(name[p], Follow(t, p).size) = 0

=============================================================================
