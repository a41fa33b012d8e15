--------------------------- MODULE StructMarshal ---------------------------
(***************************************************************************)
(* Structs and unions in memory: sv2ptr writes a Perl hash into a block at *)
(* the offsets of TypeLayout, ptr2sv reads a block back                    *)
(* (lib/Affix/marshal.cxx), for arguments, results, pins and pointers.     *)
(*                                                                         *)
(* sv2ptr writes as many elements as the Perl value has, at the place of a *)
(* member that has room for one: a string into a Char, an array into a     *)
(* number.  Memory is abstracted to which member's value each byte belongs *)
(* to.                                                                     *)
(***************************************************************************)
EXTENDS TypeLayout

CONSTANTS
    LeafKind,  \* what a basic type of each size is: "char", "num" or "str"
    MaxMany    \* bound: elements of a value that has more than one

ASSUME MarshalAssumption ==
    /\ LeafKind \in [Base -> {"char", "num", "str"}]
    /\ MaxMany \in Nat /\ MaxMany > 1

VARIABLES
    cur,    \* the type that was marshalled: an index into types, or 0
    data,   \* data[p]: what the Perl hash has for the member at path p
    mem,    \* the block that sv2ptr returned: mem[a] is the path of the member
            \* whose value is in byte a
    status  \* "idle", "written", or "croaked"

mvars == <<types, cur, data, mem, status>>

\* For a basic member: no key in the hash, undef, one element, several, or
\* something sv2ptr refuses.  For an aggregate: "one" is a hash; undef and
\* "wrong" are not.
Values == {"absent", "undef", "one", "many", "wrong"}

Zero == <<>>
Junk == <<0>>

\* Mutant: safemalloc.
Malloc(size) == [a \in 0..(size + MaxMany * ByteAlign) |-> Junk]

\* The block that sv2ptr allocates with safecalloc, and what lies behind it.
Calloc(size) == [a \in 0..(size + MaxMany * ByteAlign) |-> Zero]

Parent(p) == SubSeq(p, 1, Len(p) - 1)

IsAggregate(t, p) == Follow(t, p).kind # "base"

\* sv2ptr comes to member p: each aggregate around it is a hash that has a key
\* for the next member.
Reached(t, d, p) ==
    \A n \in 1..(Len(p) - 1) : d[SubSeq(p, 1, n)] \in {"one", "many"}

\* "Malformed Struct", "Malformed Union", "Data type mismatch".
Refused(t, d, p) ==
    LET m == Follow(t, p) IN
    \/ d[p] = "absent" /\ Follow(t, Parent(p)).kind = "struct"
    \/ m.kind = "base" /\ d[p] = "wrong" /\ LeafKind[m.size] = "num"
    \/ /\ m.kind = "union" /\ d[p] \in {"one", "many"}
       /\ \A f \in DOMAIN m.elems : d[Append(p, f)] = "absent"

Croaks(t, d) ==
    \/ \E p \in Paths(t) : Reached(t, d, p) /\ Refused(t, d, p)
    \/ t.kind = "union" /\ \A f \in DOMAIN t.elems : d[<<f>>] = "absent"

\* How many elements sv2ptr copies into the member at p.  A string member gets a
\* pointer, which is NULL when there is no value.
Elements(t, d, p) ==
    IF d[p] = "absent" THEN 0
    ELSE IF LeafKind[Follow(t, p).size] = "str" THEN 1
    ELSE CASE d[p] = "undef" -> 0
           [] d[p] = "many"  -> MaxMany
           [] OTHER          -> 1

\* Mutant: every member is stored as SIZEOF_INTPTR_T bytes.
WordExtent(t, d, p) ==
    LET at == Beginning(t, p)
    IN  at..(at + Elements(t, d, p) * ByteAlign - 1)

\* The bytes that sv2ptr writes for the basic member at p.
Extent(t, d, p) ==
    LET at == Beginning(t, p)
    IN  at..(at + Elements(t, d, p) * Follow(t, p).size - 1)

Before(p, q) ==
    \E n \in 1..Len(p) :
        /\ n <= Len(q) /\ p[n] < q[n]
        /\ \A k \in 1..(n - 1) : p[k] = q[k]

\* Mutant: the members are written from the last to the first.
FirstOf(ps) == CHOOSE p \in ps : \A q \in ps \ {p} : Before(p, q)

\* sv2ptr's loops go through the fields in order: the one that writes last.
LastOf(ps) == CHOOSE p \in ps : \A q \in ps \ {p} : Before(q, p)

\* sv2ptr on a struct or union: what is in each byte at the end.
Written(t, d) ==
    LET extents == [p \in {q \in Leaves(t) : Reached(t, d, q)} |-> Extent(t, d, p)]
        block == Calloc(t.size)
    IN  [a \in DOMAIN block |->
            LET writers == {p \in DOMAIN extents : a \in extents[p]}
            IN  CASE writers = {}                   -> block[a]
                  [] d[LastOf(writers)] = "undef"   -> Zero
                  [] OTHER                          -> LastOf(writers)]
-----------------------------------------------------------------------------
MInit ==
    /\ Init
    /\ cur = 0
    /\ data = <<>>
    /\ mem = <<>>
    /\ status = "idle"

\* The program goes on making types, also of the type that it marshalled.
MakeType ==
    /\ Next
    /\ UNCHANGED <<cur, data, mem, status>>

\* The values that sv2ptr tells apart, by what is at the path.  Only a number can
\* be refused; a string member takes one pointer.
ValuesAt(t, p) ==
    CASE IsAggregate(t, p)                    -> {"absent", "one", "wrong"}
      [] LeafKind[Follow(t, p).size] = "char" -> {"absent", "undef", "one", "many"}
      [] LeafKind[Follow(t, p).size] = "num"  -> Values
      [] OTHER                                -> {"absent", "undef", "one"}

\* The Perl hashes for t: a hash has something below a key only where the key
\* holds a hash.
Hashes(t) ==
    {d \in [Paths(t) -> Values] :
        \A p \in DOMAIN d :
            /\ d[p] \in ValuesAt(t, p)
            /\ Reached(t, d, p) \/ d[p] = "absent"}

\* sv2ptr is given a Perl value for a type the program holds.
Marshal(i) ==
    /\ status = "idle"
    /\ \E d \in Hashes(types[i]) :
          /\ cur' = i
          /\ data' = d
          /\ IF Croaks(types[i], d)
             THEN status' = "croaked" /\ UNCHANGED mem
             ELSE status' = "written" /\ mem' = Written(types[i], d)
    /\ UNCHANGED types

MNext ==
    \/ MakeType
    \/ \E i \in DOMAIN types : Marshal(i)

MSpec == MInit /\ [][MNext]_mvars
-----------------------------------------------------------------------------
\* The inductive invariant: the block is what sv2ptr would write for the types as
\* they are now, whatever Struct and Union have written into them since.
MarshalInv ==
    /\ LayoutInv
    /\ status = "written" => cur \in DOMAIN types /\ mem = Written(types[cur], data)

\* ptr2sv, with the type as it is now: what Perl sees at member p.
Seen(p) ==
    LET cells == {mem[a] : a \in Beginning(types[cur], p)..(End(types[cur], p) - 1)}
    IN  CASE cells = {Zero} -> "nothing"
          [] cells = {p}    -> "value"
          [] OTHER          -> "mixture"

\* The members of the marshalled type that sv2ptr wrote, NULL pointers included.
Wrote ==
    {p \in Leaves(types[cur]) :
        Reached(types[cur], data, p) /\ Elements(types[cur], data, p) > 0}

\* p shares its storage with a member that sv2ptr wrote after it.
WrittenOver(p) ==
    \E q \in Wrote : Before(p, q) /\ ~PartInStruct(types[cur], p, q)

\* Every value in the hash can be read back at its member, unless a later member
\* of a union was given too: also when an earlier member was given a string or
\* an array that is longer than its place, because sv2ptr writes the members in
\* the order of their offsets and so repairs what the long one ran over.
GivenReadBack ==
    status = "written" =>
        \A p \in Wrote :
            data[p] # "undef" /\ ~WrittenOver(p) => Seen(p) = "value"

\* A member that was not given (undef, or in a hash that is none) reads as zero
\* unless it shares a union with one that was, or a member before it was given
\* more elements than it has room for: an overrun never reaches backwards.
OverrunOnlyForward ==
    status = "written" =>
        \A p \in Leaves(types[cur]) \ Wrote :
            \/ Seen(p) = "nothing"
            \/ \E q \in Wrote :
                  \/ ~PartInStruct(types[cur], p, q)
                  \/ Before(q, p) /\ data[q] = "many"

\* If no member was given more elements than it has room for, sv2ptr changes
\* only the bytes of the members it was given: no padding, nothing behind the
\* block of SIZEOF bytes that it allocated.
OnlyMembersWritten ==
    status = "written" /\ (\A p \in Wrote : data[p] # "many") =>
        \A a \in DOMAIN mem :
            mem[a] # Zero =>
                /\ a < types[cur].size
                /\ \E p \in Wrote :
                      Beginning(types[cur], p) <= a /\ a < End(types[cur], p)
=============================================================================
