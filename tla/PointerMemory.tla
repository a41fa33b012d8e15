--------------------------- MODULE PointerMemory ---------------------------
(***************************************************************************)
(* The memory functions of Affix (lib/Affix/Type/Pointer.cxx): malloc,     *)
(* calloc, realloc, strdup, free, the mem* functions, and the methods of   *)
(* pointer objects.                                                        *)
(*                                                                         *)
(* There are two representations of a pointer object.  malloc makes the    *)
(* array based one; calloc, realloc, strdup and the mem* functions make    *)
(* the older one, a reference to a number.  free and the methods take only *)
(* the first; the other functions take both but see address 0 in the       *)
(* first.                                                                  *)
(***************************************************************************)
EXTENDS Naturals

CONSTANTS
    Blocks,  \* the blocks the allocator can hand out
    Null,    \* address 0
    PVars,   \* Perl scalars
    Undef    \* an undefined scalar

\* What a pointer object is like, by the function that made it; "alias": the
\* object a mem* function or an addition returned; "misnamed": blessed into
\* "Affix::Pointer:Unmanaged", which no class derives from Affix::Pointer.
Kinds == {"malloc", "calloc", "realloc", "strdup", "alias", "misnamed"}

Object == [kind : Kinds, blk : Blocks \cup {Null}]

ASSUME MemAssumption == Null \notin Blocks /\ Undef \notin Object

ArrayBased(o) == o.kind = "malloc"

\* sv_derived_from(..., "Affix::Pointer")
Derived(o) == o.kind # "misnamed"

VARIABLES
    live,     \* the blocks that are allocated
    var,      \* var[v]: the pointer object that v refers to, or Undef
    fault,    \* undefined behaviour that ended the program: "none" so far
    shared,   \* history: the program made two scalars refer to one block
    leaky     \* history: the program dropped a pointer, or gave realloc one that
              \* malloc made

vars == <<live, var, fault, shared, leaky>>

Holds(v) == var[v] # Undef

\* The address that the older functions read: SvIV of the referent, which is 0
\* when the referent is an array.
OldAddr(o) == IF ArrayBased(o) THEN Null ELSE o.blk

Running == fault = "none"

Init ==
    /\ live = {}
    /\ var = [v \in PVars |-> Undef]
    /\ fault = "none"
    /\ shared = FALSE
    /\ leaky = FALSE

\* malloc, calloc and strdup into a scalar that holds no pointer.
Allocate(v, kind, b) ==
    /\ Running
    /\ ~Holds(v)
    /\ b \in Blocks \ live
    /\ live' = live \cup {b}
    /\ var' = [var EXCEPT ![v] = [kind |-> kind, blk |-> b]]
    /\ UNCHANGED <<fault, shared, leaky>>

\* Mutant: $v stays what it was when realloc returns.
ReallocKeeps(v, w, b) ==
    /\ Running
    /\ Holds(v) /\ Derived(var[v])
    /\ w = v \/ ~Holds(w)
    /\ LET p == OldAddr(var[v]) IN
       /\ p \in live \cup {Null}
       /\ b \in (Blocks \ live) \cup ({p} \ {Null})
       /\ live' = (live \ {p}) \cup {b}
    /\ var' = [var EXCEPT ![w] = [kind |-> "realloc", blk |-> b]]
    /\ leaky' = (leaky \/ ArrayBased(var[v]))
    /\ UNCHANGED <<fault, shared>>

\* Mutant: address 0 counts as a block that may stay in place.
ReallocInPlace(v, w, b) ==
    /\ Running
    /\ Holds(v) /\ Derived(var[v])
    /\ w = v \/ ~Holds(w)
    /\ LET p == OldAddr(var[v]) IN
       /\ p \in live \cup {Null}
       /\ live' = live \cup {p}
       /\ var' = [var EXCEPT ![v] = [kind |-> "misnamed", blk |-> p],
                             ![w] = [kind |-> "realloc", blk |-> p]]
    /\ leaky' = (leaky \/ ArrayBased(var[v]))
    /\ UNCHANGED <<fault, shared>>

\* Mutant: the block stays allocated when its contents move.
ReallocLeaks(v, w, b) ==
    /\ Running
    /\ Holds(v) /\ Derived(var[v])
    /\ w = v \/ ~Holds(w)
    /\ LET p == OldAddr(var[v]) IN
       /\ p \in live \cup {Null}
       /\ b \in (Blocks \ live) \cup ({p} \ {Null})
       /\ live' = live \cup {b}
    /\ var' = [var EXCEPT ![v] = [kind |-> "misnamed", blk |-> b],
                          ![w] = [kind |-> "realloc", blk |-> b]]
    /\ leaky' = (leaky \/ ArrayBased(var[v]))
    /\ UNCHANGED <<fault, shared>>

\* $w = realloc($v, n), n > 0: the block of $v moves to b, or stays in place;
\* given address 0 it is a new allocation.  $v is blessed into the misnamed
\* class before $w is assigned.
Realloc(v, w, b) ==
    /\ Running
    /\ Holds(v) /\ Derived(var[v])
    /\ w = v \/ ~Holds(w)
    /\ LET p == OldAddr(var[v]) IN
       /\ p \in live \cup {Null}
       /\ b \in (Blocks \ live) \cup ({p} \ {Null})
       /\ live' = (live \ {p}) \cup {b}
       /\ var' = [var EXCEPT ![v] = [kind |-> "misnamed", blk |-> b],
                             ![w] = [kind |-> "realloc", blk |-> b]]
    /\ leaky' = (leaky \/ ArrayBased(var[v]))
    /\ UNCHANGED <<fault, shared>>

\* realloc($v, 0): the block, if it is seen, is freed and $v becomes undefined.
ReallocZero(v) ==
    /\ Running
    /\ Holds(v) /\ Derived(var[v])
    /\ OldAddr(var[v]) \in live \cup {Null}
    /\ live' = live \ {OldAddr(var[v])}
    /\ var' = [var EXCEPT ![v] = Undef]
    /\ leaky' = (leaky \/ ArrayBased(var[v]))
    /\ UNCHANGED <<fault, shared>>

\* realloc of a block that is not allocated any more.
ReallocStale(v) ==
    /\ Running
    /\ Holds(v) /\ Derived(var[v])
    /\ OldAddr(var[v]) \notin live \cup {Null}
    /\ fault' = "double"
    /\ UNCHANGED <<live, var, shared, leaky>>

\* Mutant: the scalar keeps the pointer.
FreeKeeps(v) ==
    /\ Running
    /\ Holds(v) /\ ArrayBased(var[v])
    /\ fault' = IF var[v].blk \in live THEN "none" ELSE "double"
    /\ live' = live \ {var[v].blk}
    /\ UNCHANGED <<var, shared, leaky>>

\* free($v): only this scalar is set to undef.
Free(v) ==
    /\ Running
    /\ Holds(v) /\ ArrayBased(var[v])
    /\ fault' = IF var[v].blk \in live THEN "none" ELSE "double"
    /\ live' = live \ {var[v].blk}
    /\ var' = [var EXCEPT ![v] = Undef]
    /\ UNCHANGED <<shared, leaky>>

\* "ptr is not of type Affix::Pointer": free croaks on the older objects.
FreeCroak(v) ==
    /\ Running
    /\ Holds(v) /\ ~ArrayBased(var[v])
    /\ UNCHANGED vars

\* memset, memcpy, memmove, memchr and memcmp through $v.
Access(v) ==
    /\ Running
    /\ Holds(v) /\ Derived(var[v])
    /\ LET p == OldAddr(var[v]) IN
       fault' = CASE p = Null   -> "null"
                  [] p \in live -> "none"
                  [] OTHER      -> "stale"
    /\ UNCHANGED <<live, var, shared, leaky>>

\* raw, sv and dump read through the array based object.
ReadArray(v) ==
    /\ Running
    /\ Holds(v) /\ ArrayBased(var[v])
    /\ fault' = IF var[v].blk \in live THEN "none" ELSE "stale"
    /\ UNCHANGED <<live, var, shared, leaky>>

\* $w = $v + n, $w = memset($v, ...) and the like: a second object, at whatever
\* address the first one shows.
Returned(v, w) ==
    /\ Running
    /\ Holds(v) /\ Derived(var[v]) /\ ~Holds(w)
    /\ var' = [var EXCEPT ![w] = [kind |-> "alias", blk |-> OldAddr(var[v])]]
    /\ shared' = TRUE
    /\ UNCHANGED <<live, fault, leaky>>

\* $w = $v: both scalars refer to one object.
Copy(v, w) ==
    /\ Running
    /\ Holds(v) /\ ~Holds(w)
    /\ var' = [var EXCEPT ![w] = var[v]]
    /\ shared' = TRUE
    /\ UNCHANGED <<live, fault, leaky>>

\* $p = $v, where $p is pinned to a Void: set_pin frees the block that sv2ptr
\* returned, which is the one that $v (and now $p) refers to.
PinStore(v) ==
    /\ Running
    /\ Holds(v) /\ ArrayBased(var[v])
    /\ fault' = IF var[v].blk \in live THEN "none" ELSE "double"
    /\ live' = live \ {var[v].blk}
    /\ shared' = TRUE
    /\ UNCHANGED <<var, leaky>>

\* $v goes out of scope: Affix_Pointer_DESTROY frees nothing.
Drop(v) ==
    /\ Running
    /\ Holds(v)
    /\ var' = [var EXCEPT ![v] = Undef]
    /\ leaky' = TRUE
    /\ UNCHANGED <<live, fault, shared>>

Next ==
    \/ \E v \in PVars, k \in {"malloc", "calloc", "strdup"}, b \in Blocks : Allocate(v, k, b)
    \/ \E v, w \in PVars, b \in Blocks : Realloc(v, w, b)
    \/ \E v \in PVars : ReallocZero(v)
    \/ \E v \in PVars : ReallocStale(v)
    \/ \E v \in PVars : Free(v)
    \/ \E v \in PVars : FreeCroak(v)
    \/ \E v \in PVars : Access(v)
    \/ \E v \in PVars : ReadArray(v)
    \/ \E v, w \in PVars : Returned(v, w)
    \/ \E v, w \in PVars : Copy(v, w)
    \/ \E v \in PVars : PinStore(v)
    \/ \E v \in PVars : Drop(v)

Spec == Init /\ [][Next]_vars
-----------------------------------------------------------------------------
\* The types of the pointer objects and of the allocator's state.
TypeOK ==
    /\ live \subseteq Blocks
    /\ var \in [PVars -> Object \cup {Undef}]
    /\ fault \in {"none", "null", "stale", "double"}
    /\ shared \in BOOLEAN /\ leaky \in BOOLEAN

\* An object that some function can still be called with.
Usable(v) == Holds(v) /\ Derived(var[v])

\* In a program that never makes two scalars refer to one block, every pointer
\* object that the functions accept points to an allocated block, and no two to
\* the same: realloc leaves nothing usable behind, and free leaves nothing.
OneHolder ==
    ~shared =>
        /\ \A v \in PVars : Usable(v) => var[v].blk \in live
        /\ \A v, w \in PVars : Usable(v) /\ Usable(w) /\ v # w => var[v].blk # var[w].blk

\* So no sequence of malloc, calloc, realloc, strdup, free and accesses in such
\* a program frees a block twice or touches a freed one (address 0 apart).
NoStaleUse == ~shared => fault \notin {"stale", "double"}

\* Nothing is lost without the program's doing: unless it drops a pointer, or
\* gives realloc one that malloc made (realloc does not see that block, and
\* allocates another), every allocated block is held by some scalar.
NoOrphan == leaky \/ \A b \in live : \E v \in PVars : Holds(v) /\ var[v].blk = b
=============================================================================
