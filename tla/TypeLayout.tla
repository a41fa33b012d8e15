----------------------------- MODULE TypeLayout -----------------------------
(***************************************************************************)
(* Aggregate types: Struct and Union (lib/Affix/Type/Struct.pm, Union.pm), *)
(* the sizes and offsets they compute, and offsetof.                       *)
(*                                                                         *)
(* A type is a mutable Perl object.  Struct and Union write the offset of  *)
(* a member into the member's type object and then keep a clone of it, so  *)
(* a type that the program still holds remembers where it was last used.   *)
(* Beside the offsets and sizes that the code computes, a type carries     *)
(* those of the C ABI (csize, calign, coff), computed by the C rules.      *)
(***************************************************************************)
EXTENDS Naturals, Sequences, SequencesExt

CONSTANTS
    Base,       \* the basic types: their size, which is also their alignment
    ByteAlign,  \* Affix::Platform::BYTE_ALIGN()
    MaxTypes,   \* bound: aggregates the program makes
    MaxFields   \* bound: members of one aggregate

\* Void and SV, of size and alignment 0, are no members of any aggregate: see
\* StructDies.
ASSUME LayoutAssumption ==
    /\ Base \subseteq Nat \ {0}
    /\ ByteAlign \in Nat \ {0}
    /\ \A n \in Base : n <= ByteAlign /\ ByteAlign % n = 0
    /\ \A m, n \in Base : m <= n => n % m = 0
    /\ MaxTypes \in Nat /\ MaxFields \in Nat

VARIABLE types  \* the aggregates that the program holds, in order of creation

\* off: SLOT_TYPE_OFFSET (0 also when undefined, which offsetof reads as 0);
\* elems: SLOT_TYPE_SUBTYPE, the clones; their names are their positions.
BaseType(n) == [kind |-> "base", size |-> n, align |-> n, off |-> 0, elems |-> <<>>,
                csize |-> n, calign |-> n, coff |-> 0]

\* A member is a new basic type or an aggregate made before.
Members == {<<"base", n>> : n \in Base} \cup {<<"held", i>> : i \in 1..Len(types)}

TypeOf(m) == IF m[1] = "base" THEN BaseType(m[2]) ELSE types[m[2]]

FieldLists == UNION {[1..n -> Members] : n \in 1..MaxFields}

RoundUp(n, a) == ((n + a - 1) \div a) * a

\* Mutant: the misalignment itself as the padding.
PaddingBackwards(offset, alignment) ==
    IF offset = 0 THEN alignment ELSE offset % alignment

\* Affix::Platform::padding_needed_for.
padding_needed_for(offset, alignment) ==
    CASE offset = 0             -> alignment
      [] offset % alignment # 0 -> alignment - (offset % alignment)
      [] OTHER                  -> 0

Padded(n) == n + padding_needed_for(n, ByteAlign)

\* Mutant: padding_needed_for, which pads an offset of 0, for the members too.
PadEachMember(acc, t) ==
    LET off == acc.size + padding_needed_for(acc.size, t.align)
        coff == RoundUp(acc.csize, t.calign)
    IN  [size |-> off + t.size, align |-> ByteAlign, csize |-> coff + t.csize,
         store |-> Append(acc.store, [t EXCEPT !.off = off, !.coff = coff])]

\* One turn of Struct's loop: the member's offset and the size up to its end.
AddField(acc, t) ==
    LET off == RoundUp(acc.size, t.align)
        coff == RoundUp(acc.csize, t.calign)
    IN  [size |-> off + t.size, align |-> ByteAlign, csize |-> coff + t.csize,
         store |-> Append(acc.store, [t EXCEPT !.off = off, !.coff = coff])]

\* Mutant: the last member decides the alignment.
AlignOfLast(acc, t) ==
    [size  |-> IF acc.size < t.size THEN t.size ELSE acc.size,
     align |-> t.align,
     csize |-> IF acc.csize < t.csize THEN t.csize ELSE acc.csize,
     store |-> Append(acc.store, [t EXCEPT !.off = 0, !.coff = 0])]

\* One turn of Union's loop: the first largest member decides the alignment.
AddMember(acc, t) ==
    [size  |-> IF acc.size < t.size THEN t.size ELSE acc.size,
     align |-> IF acc.size < t.size THEN t.align ELSE acc.align,
     csize |-> IF acc.csize < t.csize THEN t.csize ELSE acc.csize,
     store |-> Append(acc.store, [t EXCEPT !.off = 0, !.coff = 0])]

Turn(kind, acc, t) == IF kind = "struct" THEN AddField(acc, t) ELSE AddMember(acc, t)

\* Turns(kind, fs)[n]: what n turns of the loop over the members have computed.
Turns(kind, fs) ==
    LET acc[n \in 0..Len(fs)] ==
          IF n = 0 THEN [size |-> 0, align |-> 0, csize |-> 0, store |-> <<>>]
          ELSE Turn(kind, acc[n - 1], TypeOf(fs[n]))
    IN  acc

Loop(kind, fs) == Turns(kind, fs)[Len(fs)]

CAlign(fs) == Max({TypeOf(fs[i]).calign : i \in DOMAIN fs})

\* Mutant: members are not cloned, so each has the offset of its last use.
Uncloned(kind, acc, fs) ==
    LET last(k) == Max({j \in DOMAIN fs : j = k \/ (fs[j] = fs[k] /\ fs[k][1] = "held")})
    IN  [kind |-> kind, size |-> Padded(acc.size), align |-> acc.align, off |-> 0,
         elems |-> [k \in DOMAIN fs |-> acc.store[last(k)]],
         csize |-> RoundUp(acc.csize, CAlign(fs)), calign |-> CAlign(fs), coff |-> 0]

\* The object that Struct and Union bless after their loop.
Aggregate(kind, acc, fs) ==
    [kind |-> kind, size |-> Padded(acc.size), align |-> acc.align, off |-> 0,
     elems |-> acc.store, csize |-> RoundUp(acc.csize, CAlign(fs)),
     calign |-> CAlign(fs), coff |-> 0]

\* The types that the program holds: one that became a member got the offset of
\* its last use.
Located(fs, store) ==
    [i \in DOMAIN types |->
        LET uses == {k \in DOMAIN fs : fs[k] = <<"held", i>>}
        IN  IF uses = {} THEN types[i] ELSE [types[i] EXCEPT !.off = store[Max(uses)].off]]

Make(kind, acc, fs) ==
    /\ Len(types) < MaxTypes
    /\ types' = Append(Located(fs, acc.store), Aggregate(kind, acc, fs))

Struct(fs) == Make("struct", Loop("struct", fs), fs)

\* A member of alignment 0 (Void, SV) behind the members fs: computing its offset
\* divides by zero and Struct dies, with the offsets of fs already written into
\* the types that the program holds.
StructDies(fs) ==
    /\ Len(types) \in 1..(MaxTypes - 1)
    /\ types' = Located(fs, Loop("struct", fs).store)

Union(fs) == Make("union", Loop("union", fs), fs)

Hole == [kind |-> "none", elems |-> <<>>]

\* From a member into its member k; the rest of a path that leads nowhere is no
\* way either.
Enter(w, k) ==
    LET inner == w.type.elems
    IN  IF k \in DOMAIN inner
        THEN [type |-> inner[k], begin |-> w.begin + inner[k].off,
              cbegin |-> w.cbegin + inner[k].coff]
        ELSE [type |-> Hole, begin |-> w.begin, cbegin |-> w.cbegin]

\* Steps(t, p)[n]: where the first n positions of path p lead to, and where that
\* begins, counted from the beginning of t, by the offsets stored in the types
\* and by those of the C ABI.
Steps(t, p) ==
    LET w[n \in 0..Len(p)] ==
          IF n = 0 THEN [type |-> t, begin |-> 0, cbegin |-> 0]
          ELSE Enter(w[n - 1], p[n])
    IN  w

\* offsetof goes on to the rest of the path only into a member of its own class:
\* the position in the path at which it stops.
StopsAt(t, path) ==
    CHOOSE n \in 1..Len(path) :
        /\ n = Len(path) \/ Steps(t, path)[n].type.kind # t.kind
        /\ \A k \in 1..(n - 1) : Steps(t, path)[k].type.kind = t.kind

\* Mutant: the offset of the member alone.
OffsetOfMember(t, path) == Steps(t, path)[StopsAt(t, path)].type.off

\* The offset it returns is that of the last two types it looked at.
offsetof(t, path) ==
    LET n == StopsAt(t, path)
    IN  Steps(t, path)[n].type.off + Steps(t, path)[n - 1].type.off

Init == types = <<>>

Next == \E fs \in FieldLists : Struct(fs) \/ StructDies(fs) \/ Union(fs)

Spec == Init /\ [][Next]_types
-----------------------------------------------------------------------------
\* What sizes and alignments Struct and Union produce.
TypeOK ==
    /\ Len(types) <= MaxTypes
    /\ \A i \in DOMAIN types :
          LET t == types[i] IN
          /\ t.kind \in {"struct", "union"}
          /\ t.size % ByteAlign = 0 /\ t.size > 0
          /\ t.align \in Base \cup {ByteAlign}
          /\ t.off \in Nat
          /\ Len(t.elems) \in 1..MaxFields

Walk(t, p) == Steps(t, p)[Len(p)]

\* The member of t at path p.
Follow(t, p) == Walk(t, p).type

AllPaths == UNION {[1..n -> 1..MaxFields] : n \in 1..MaxTypes}

Paths(t) == {p \in AllPaths : Follow(t, p).kind # "none"}

Leaves(t) == {p \in AllPaths : Follow(t, p).kind = "base"}

Beginning(t, p) == Walk(t, p).begin

CBeginning(t, p) == Walk(t, p).cbegin

End(t, p) == Beginning(t, p) + Follow(t, p).size

\* p and q part at position n.
PartAt(p, q, n) == p[n] # q[n] /\ \A k \in 1..(n - 1) : p[k] = q[k]

\* Two members share storage by design when their paths part in a union.
PartInStruct(t, p, q) ==
    \E n \in 1..Len(p) :
        n <= Len(q) /\ PartAt(p, q, n) /\ Steps(t, p)[n - 1].type.kind = "struct"

Inside(t) == \A p \in Leaves(t) : End(t, p) <= t.size

Apart(t) ==
    LET leaves == Leaves(t)
    IN  \A p, q \in leaves :
            \/ p = q
            \/ End(t, p) <= Beginning(t, q)
            \/ End(t, q) <= Beginning(t, p)
            \/ ~PartInStruct(t, p, q)

\* At any depth of nesting the basic members lie inside the aggregate and do
\* not overlap unless they belong to different members of a union: sv2ptr and
\* ptr2sv write and read them at these offsets.
LeavesApart == \A i \in DOMAIN types : Inside(types[i]) /\ Apart(types[i])

\* Union takes the alignment of its first largest member, and a union's size is
\* padded beyond its alignment, so a union in a union can hide a stricter member.
UnionInUnion(t) ==
    \E p \in AllPaths :
        Follow(t, p).kind = "union" /\ Steps(t, p)[Len(p) - 1].type.kind = "union"

Aligned(t) ==
    ~UnionInUnion(t) =>
        \A p \in Leaves(t) : Beginning(t, p) % Follow(t, p).align = 0

\* Unless a union is a member of a union, every basic member is aligned, counted
\* from the beginning of the outermost aggregate.
LeavesAligned == \A i \in DOMAIN types : Aligned(types[i])

\* The object that Struct and Union make, and what they make of sizes.
Shape(t) ==
    /\ t \in [kind : {"struct", "union"}, size : Nat \ {0}, align : Base \cup {ByteAlign},
              off : Nat, elems : {t.elems}, csize : {t.csize}, calign : {t.calign},
              coff : {t.coff}]
    /\ t.size % ByteAlign = 0
    /\ t.kind = "struct" => t.align = ByteAlign
    /\ t.elems \in Seq({t.elems[k] : k \in DOMAIN t.elems})
    /\ Len(t.elems) \in 1..MaxFields

\* Every member on a path has an offset.
OffsetsAlong(t, p) ==
    \A n \in 1..Len(p) :
        p[n] \in DOMAIN Steps(t, p)[n - 1].type.elems => Steps(t, p)[n].type.off \in Nat

Numbered(t) == \A p \in AllPaths : OffsetsAlong(t, p)

\* No path leads deeper into an aggregate than the d aggregates made up to it.
Shallow(t, d) == \A p \in Paths(t) : Len(p) <= d

BasicLeaves(t) ==
    \A p \in Leaves(t) :
        Follow(t, p).align \in Base /\ Follow(t, p).size \in Base /\ Follow(t, p).elems = <<>>

\* The paths part in a struct, and p to the member that comes first.
PartsBefore(t, p, q) ==
    \E n \in 1..Len(p) :
        /\ n <= Len(q) /\ PartAt(p, q, n) /\ p[n] < q[n]
        /\ Steps(t, p)[n - 1].type.kind = "struct"

\* The basic members lie in the order of the fields.
Ordered(t) ==
    \A p, q \in Leaves(t) : PartsBefore(t, p, q) => End(t, p) <= Beginning(t, q)

\* The alignment that Struct and Union give to an aggregate is one for all of its
\* basic members.
Strict(t) ==
    ~UnionInUnion(t) => \A p \in Leaves(t) : t.align % Follow(t, p).align = 0

\* The members of a union begin where it begins; a basic type has no members.
AtZero(t) == t.kind # "struct" => \A k \in DOMAIN t.elems : t.elems[k].off = 0

\* Every aggregate in t has the strictest alignment by the C rules.
StrictThroughout(t) ==
    /\ t.calign = ByteAlign
    /\ \A p \in Paths(t) : Follow(t, p).kind # "base" => Follow(t, p).calign = ByteAlign

\* Every member on a path has the offset of the C ABI.
CompiledAlong(t, p) ==
    \A n \in 1..Len(p) :
        p[n] \in DOMAIN Steps(t, p)[n - 1].type.elems =>
            Steps(t, p)[n].type.coff = Steps(t, p)[n].type.off

Compiled(t) ==
    StrictThroughout(t) =>
        /\ t.size = t.csize /\ t.align = ByteAlign
        /\ \A p \in AllPaths : CompiledAlong(t, p)

\* The inductive invariant behind LeavesApart, LeavesAligned, AsCompiled and
\* OffsetofNear: Struct and Union build a layout out of layouts that they or each
\* other built.
WellLaid(t, d) ==
    /\ Shape(t) /\ Numbered(t) /\ Shallow(t, d) /\ BasicLeaves(t)
    /\ Inside(t) /\ Ordered(t) /\ Aligned(t) /\ Strict(t) /\ Compiled(t)
    /\ AtZero(t) /\ \A k \in DOMAIN t.elems : AtZero(t.elems[k])

LayoutInv ==
    /\ types \in Seq({types[i] : i \in DOMAIN types})
    /\ Len(types) <= MaxTypes
    /\ \A i \in DOMAIN types : WellLaid(types[i], i)

\* Where every aggregate has a member of the strictest alignment, Struct and
\* Union compute the size, and at every depth the offsets, of the C ABI: the
\* dcAggrField calls of _aggregate describe what the C compiler laid out.
AsCompiled ==
    \A i \in DOMAIN types :
        LET t == types[i] IN
        StrictThroughout(t) =>
            /\ t.size = t.csize
            /\ \A p \in Paths(t) : Beginning(t, p) = CBeginning(t, p)

\* offsetof is right on a struct that is no member of another one, for members
\* and members of members, however often the types in it were reused.
OffsetofNear ==
    \A i \in DOMAIN types :
        LET t == types[i] IN
        t.kind = "struct" /\ t.off = 0 =>
            \A p \in Paths(t) : Len(p) <= 2 => offsetof(t, p) = Beginning(t, p)

\* offsetof returns the offset from the beginning of the structure, of every
\* member at every depth (lib/Affix.pod): broken by what Struct writes into the
\* types it is given, and by what offsetof leaves out of longer paths.
OffsetofFromBeginning ==
    \A i \in DOMAIN types :
        types[i].kind = "struct" =>
            \A p \in Paths(types[i]) : offsetof(types[i], p) = Beginning(types[i], p)
=============================================================================
