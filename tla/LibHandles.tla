----------------------------- MODULE LibHandles -----------------------------
(***************************************************************************)
(* Who keeps a shared library mapped: the handles that load_library, affix,*)
(* wrap, pin and find_symbol obtain (lib/Affix.cxx, lib/Affix/pin.cxx).    *)
(*                                                                         *)
(* Given a path, an operation opens the library itself (one reference).    *)
(* Given an Affix::Lib object it borrows the object's handle.  Affix_DESTROY*)
(* releases the handle of a fiction in both cases.  A reference is counted *)
(* by the dynamic linker, which unmaps the library with the last one.      *)
(***************************************************************************)
EXTENDS Naturals, FiniteSets

CONSTANTS
    Libs,     \* libraries
    Objs,     \* Affix::Lib objects that load_library makes
    Subs,     \* names (affix) and scalars (wrap) that hold a fiction
    Vars,     \* scalars that are pinned
    None,     \* nothing there
    MaxRefs,  \* bound: references to one library
    MaxGen    \* bound: how often one library is unmapped

VARIABLES
    refs,      \* refs[l]: the linker's count of references
    gen,       \* gen[l]: how often l was unmapped; tells its mappings apart
    obj,       \* obj[o]: the handle in an Affix::Lib object, or None
    sub,       \* sub[s]: the fiction (lib and entry point) behind s, or None
    pin,       \* pin[v]: the variables of libraries that v is pinned to
    released,  \* history: releases of the handle that o holds: 0, 1 or more (2)
    lost       \* history: references whose handle nobody holds any more

vars == <<refs, gen, obj, sub, pin, released, lost>>

Handle == [lib : Libs, gen : 0..MaxGen]

\* `from' is None when the user of the handle opened it, else the object that
\* lent it.
Use == [lib : Libs, gen : 0..MaxGen, from : Objs \cup {None}]

\* None is nothing else; a program has finitely many objects and fictions.
ASSUME LibAssumption ==
    /\ None \notin Objs /\ None \notin Handle /\ None \notin Use
    /\ IsFiniteSet(Objs) /\ IsFiniteSet(Subs)
    /\ MaxRefs \in Nat /\ MaxGen \in Nat

\* What an operation is given as a library: a path (and None), or an object.
Sources == (Libs \X {None}) \cup {<<obj[o].lib, o>> : o \in {x \in Objs : obj[x] # None}}
-----------------------------------------------------------------------------
Init ==
    /\ refs = [l \in Libs |-> 0]
    /\ gen = [l \in Libs |-> 0]
    /\ obj = [o \in Objs |-> None]
    /\ sub = [s \in Subs |-> None]
    /\ pin = [v \in Vars |-> {}]
    /\ released = [o \in Objs |-> 0]
    /\ lost = [l \in Libs |-> 0]

Mapped(h) == h.gen = gen[h.lib] /\ refs[h.lib] > 0

\* dlopen.
dlopen(r, l) == [r EXCEPT ![l] = @ + 1]

\* The handle that an operation works with.
HandleOf(src) ==
    IF src[2] = None THEN [lib |-> src[1], gen |-> gen[src[1]]] ELSE obj[src[2]]

\* Mutant: a path that is mapped already is not opened again.
ObtainOnce(src) ==
    IF src[2] = None /\ refs[src[1]] = 0 THEN dlopen(refs, src[1]) ELSE refs

\* The references after an operation obtained that handle.
Obtain(src) == IF src[2] = None THEN dlopen(refs, src[1]) ELSE refs

\* dlsym finds nothing through a handle whose library is no longer mapped.
Found(src) == src[2] # None => Mapped(HandleOf(src))

\* dlclose of handle h, when the references are r.  On a handle whose library
\* has been unmapped it does nothing, or hits the mapping that now has its
\* address.
dlclose(r, h) ==
    LET l == h.lib
        fewer == [r EXCEPT ![l] = @ - 1]
    IN  IF h.gen = gen[l] /\ r[l] > 0 THEN {fewer}
        ELSE IF r[l] > 0 THEN {r, fewer} ELSE {r}

\* The last reference unmaps the library.
SetRefs(r) ==
    /\ refs' = r
    /\ gen' = [l \in Libs |-> IF refs[l] > 0 /\ r[l] = 0 THEN gen[l] + 1 ELSE gen[l]]

Room == \A l \in Libs : refs[l] < MaxRefs /\ lost[l] < MaxRefs /\ gen[l] < MaxGen

OneMore(n) == IF n = 2 THEN 2 ELSE n + 1

\* A borrowed or freed handle is charged to its object.
Charge(u) ==
    released' = IF u.from = None THEN released
                ELSE [released EXCEPT ![u.from] = OneMore(@)]

\* load_library: the object has no destructor, its reference is for the program
\* to give back.
LoadLibrary(o, l) ==
    /\ Room
    /\ obj[o] = None
    /\ SetRefs(dlopen(refs, l))
    /\ obj' = [obj EXCEPT ![o] = [lib |-> l, gen |-> gen[l]]]
    /\ UNCHANGED <<sub, pin, released, lost>>

\* Mutant: a reference is taken off also where the handle holds none.
FreeUncounted(o) ==
    /\ obj[o] # None
    /\ SetRefs([refs EXCEPT ![obj[o].lib] = @ - 1])
    /\ released' = [released EXCEPT ![o] = OneMore(@)]
    /\ UNCHANGED <<obj, sub, pin, lost>>

\* free_library: the object keeps the handle it gave back.
FreeLibrary(o) ==
    /\ obj[o] # None
    /\ \E r \in dlclose(refs, obj[o]) : SetRefs(r)
    /\ released' = [released EXCEPT ![o] = OneMore(@)]
    /\ UNCHANGED <<obj, sub, pin, lost>>

\* A handle that was opened for a symbol and is then forgotten stays open.
Forget(src) ==
    lost' = IF src[2] = None THEN [lost EXCEPT ![src[1]] = @ + 1] ELSE lost

\* find_symbol, found or not; affix, wrap and pin of a symbol that is not there:
\* all croak or return without giving back a handle they opened.
LookUp(src) ==
    /\ Room
    /\ SetRefs(Obtain(src))
    /\ Forget(src)
    /\ UNCHANGED <<obj, sub, pin, released>>

\* Mutant: the sub that is redefined keeps its handle.
AffixOver(s, src) ==
    /\ Room
    /\ Found(src)
    /\ SetRefs(Obtain(src))
    /\ sub' = [sub EXCEPT ![s] = [lib |-> src[1], gen |-> HandleOf(src).gen, from |-> src[2]]]
    /\ UNCHANGED <<obj, pin, released, lost>>

\* affix and wrap: the new handle is obtained first; then, if the name already
\* had a fiction, the old sub goes away and Affix_DESTROY releases its handle.
Affix(s, src) ==
    /\ Room
    /\ Found(src)
    /\ IF sub[s] = None
       THEN SetRefs(Obtain(src)) /\ UNCHANGED released
       ELSE /\ \E r \in dlclose(Obtain(src), sub[s]) : SetRefs(r)
            /\ Charge(sub[s])
    /\ sub' = [sub EXCEPT ![s] = [lib |-> src[1], gen |-> HandleOf(src).gen, from |-> src[2]]]
    /\ UNCHANGED <<obj, pin, lost>>

\* Affix_DESTROY: the last reference to the sub is gone.
Destroy(s) ==
    /\ sub[s] # None
    /\ \E r \in dlclose(refs, sub[s]) : SetRefs(r)
    /\ Charge(sub[s])
    /\ sub' = [sub EXCEPT ![s] = None]
    /\ UNCHANGED <<obj, pin, lost>>

\* pin: the handle is kept nowhere; the address of the variable is.  A scalar
\* that is pinned again keeps its earlier magic as well.
Pin(v, src) ==
    /\ Room
    /\ Found(src)
    /\ SetRefs(Obtain(src))
    /\ Forget(src)
    /\ pin' = [pin EXCEPT ![v] =
                  @ \cup {[lib |-> src[1], gen |-> HandleOf(src).gen, from |-> src[2]]}]
    /\ UNCHANGED <<obj, sub, released>>

\* unpin, and free_pin when the scalar goes away: all its magic is freed, and
\* nothing else.
Unpin(v) ==
    /\ pin[v] # {}
    /\ pin' = [pin EXCEPT ![v] = {}]
    /\ UNCHANGED <<refs, gen, obj, sub, released, lost>>

Next ==
    \/ \E o \in Objs, l \in Libs : LoadLibrary(o, l)
    \/ \E o \in Objs : FreeLibrary(o)
    \/ \E src \in Sources : LookUp(src)
    \/ \E s \in Subs, src \in Sources : Affix(s, src)
    \/ \E s \in Subs : Destroy(s)
    \/ \E v \in Vars, src \in Sources : Pin(v, src)
    \/ \E v \in Vars : Unpin(v)

Spec == Init /\ [][Next]_vars
-----------------------------------------------------------------------------
\* The types of the handles and counts (fiction.lib, Affix::Lib, the linker's).
TypeOK ==
    /\ refs \in [Libs -> 0..MaxRefs]
    /\ gen \in [Libs -> 0..MaxGen]
    /\ obj \in [Objs -> Handle \cup {None}]
    /\ sub \in [Subs -> Use \cup {None}]
    /\ pin \in [Vars -> SUBSET Use]
    /\ released \in [Objs -> 0..2]
    /\ lost \in [Libs -> 0..MaxRefs]

\* The program gives back each reference that load_library gave it at most
\* once, counting the fictions made from the object, which give it back when
\* they are destroyed.
Disciplined(l) ==
    \A o \in Objs : obj[o] # None /\ obj[o].lib = l => released[o] <= 1

\* Someone still answers for a reference behind this use of a library.
Backed(u) == u.from = None \/ released[u.from] = 0

\* The fictions that opened l themselves, and the objects for l that were not
\* given back.
Own(l) == {s \in Subs : sub[s] # None /\ sub[s].lib = l /\ sub[s].from = None}
Kept(l) == {o \in Objs : obj[o] # None /\ obj[o].lib = l /\ released[o] = 0}

\* For a disciplined program the linker's count is exact: one reference for
\* each fiction made from a path, one for each object not given back, and the
\* ones that nobody can give back any more.  In particular nothing but those
\* keeps a library loaded, and redefining an affixed sub leaks nothing.
Accounting ==
    \A l \in Libs : Disciplined(l) =>
        refs[l] = Cardinality(Own(l)) + Cardinality(Kept(l)) + lost[l]

\* For a disciplined program, the code behind every backed fiction and the
\* variable behind every backed pin are in a library that is still mapped,
\* whatever else was destroyed, freed, redefined or unpinned: Fiction_trigger
\* and get_pin use an address that was looked up long before.
AddressesMapped ==
    \A l \in Libs : Disciplined(l) =>
        /\ \A s \in Subs : sub[s] # None /\ sub[s].lib = l /\ Backed(sub[s]) => Mapped(sub[s])
        /\ \A v \in Vars : \A u \in pin[v] : u.lib = l /\ Backed(u) => Mapped(u)
=============================================================================
