-------------------------- MODULE LibHandlesProofs --------------------------
(***************************************************************************)
(* Proofs about LibHandles, for every number of libraries, objects, subs   *)
(* and pinned scalars.                                                     *)
(***************************************************************************)
EXTENDS LibHandles, FiniteSetTheorems, TLAPS

\* A library at the bound of its unmappings is not mapped.
LastGen == \A l \in Libs : gen[l] = MaxGen => refs[l] = 0

\* A handle that was lent is the one its object still holds; a pin that opened
\* the library itself left a reference that nobody can give back.
Lent ==
    /\ \A o \in Objs : obj[o] = None => released[o] = 0
    /\ \A s \in Subs : sub[s] # None /\ sub[s].from # None =>
          obj[sub[s].from] = [lib |-> sub[s].lib, gen |-> sub[s].gen]
    /\ \A v \in Vars : \A u \in pin[v] :
          IF u.from = None THEN lost[u.lib] > 0
          ELSE obj[u.from] = [lib |-> u.lib, gen |-> u.gen]

\* The linker's count of l is the references that somebody holds or lost.
Counted(l) == refs[l] = Cardinality(Own(l)) + Cardinality(Kept(l)) + lost[l]

\* Whoever has a reference has it for the present mapping of l.
Current(l) ==
    /\ \A s \in Own(l) : sub[s].gen = gen[l]
    /\ \A o \in Kept(l) : obj[o].gen = gen[l]
    /\ \A v \in Vars : \A u \in pin[v] : u.lib = l /\ u.from = None => u.gen = gen[l]

\* The inductive invariant.
LibInv ==
    /\ TypeOK /\ LastGen /\ Lent
    /\ \A l \in Libs : Disciplined(l) => Counted(l) /\ Current(l)
-----------------------------------------------------------------------------
\* What is counted is finite.
LEMMA Finite ==
    ASSUME NEW l
    PROVE  /\ IsFiniteSet(Own(l)) /\ IsFiniteSet(Kept(l))
           /\ Cardinality(Own(l)) \in Nat /\ Cardinality(Kept(l)) \in Nat
<1>1. Own(l) \subseteq Subs /\ Kept(l) \subseteq Objs
  BY DEF Own, Kept
<1>2. IsFiniteSet(Own(l)) /\ IsFiniteSet(Kept(l))
  BY <1>1, LibAssumption, FS_Subset
<1> QED
  BY <1>2, FS_CardinalityType

\* The same after a step.
LEMMA FiniteNext ==
    ASSUME NEW l
    PROVE  /\ IsFiniteSet(Own(l)') /\ IsFiniteSet(Kept(l)')
           /\ Cardinality(Own(l)') \in Nat /\ Cardinality(Kept(l)') \in Nat
<1>1. Own(l)' \subseteq Subs /\ Kept(l)' \subseteq Objs
  BY DEF Own, Kept
<1>2. IsFiniteSet(Own(l)') /\ IsFiniteSet(Kept(l)')
  BY <1>1, LibAssumption, FS_Subset
<1> QED
  BY <1>2, FS_CardinalityType

\* A reference behind a member of Own or Kept: the count is positive.
LEMMA Holding ==
    ASSUME NEW l \in Libs, LibInv, Disciplined(l)
    PROVE  Own(l) # {} \/ Kept(l) # {} \/ lost[l] > 0 => refs[l] > 0
<1>1. Counted(l) /\ lost[l] \in Nat
  BY DEF LibInv, TypeOK
<1>2. \A S : IsFiniteSet(S) => (Cardinality(S) = 0 <=> S = {})
  BY FS_EmptySet
<1>3. Own(l) # {} => Cardinality(Own(l)) # 0
  BY <1>2, Finite
<1>4. Kept(l) # {} => Cardinality(Kept(l)) # 0
  BY <1>2, Finite
<1> QED
  BY <1>1, <1>3, <1>4, Finite DEF Counted

\* A new count of the references: what SetRefs makes of the mappings.
LEMMA Remapped ==
    ASSUME TypeOK, LastGen, NEW r \in [Libs -> Nat], SetRefs(r),
           \A l \in Libs : r[l] <= MaxRefs /\ (gen[l] = MaxGen => r[l] = 0)
    PROVE  /\ refs' \in [Libs -> 0..MaxRefs] /\ gen' \in [Libs -> 0..MaxGen]
           /\ LastGen'
           /\ \A l \in Libs : refs'[l] > 0 => gen'[l] = gen[l]
  BY LibAssumption DEF TypeOK, LastGen, SetRefs

\* dlclose takes at most one reference off one library, and exactly one when
\* the handle is for the present mapping.
LEMMA Closed ==
    ASSUME NEW r \in [Libs -> Nat], NEW h, h.lib \in Libs, NEW q \in dlclose(r, h)
    PROVE  /\ q \in [Libs -> Nat]
           /\ \A l \in Libs : q[l] <= r[l]
           /\ \A l \in Libs \ {h.lib} : q[l] = r[l]
           /\ h.gen = gen[h.lib] /\ r[h.lib] > 0 => q[h.lib] = r[h.lib] - 1
<1>1. q = r \/ (r[h.lib] > 0 /\ q = [r EXCEPT ![h.lib] = @ - 1])
  BY DEF dlclose
<1>2. h.gen = gen[h.lib] /\ r[h.lib] > 0 => q = [r EXCEPT ![h.lib] = @ - 1]
  BY DEF dlclose
<1> QED
  BY <1>1, <1>2

\* A step that sets the counts keeps the present mappings present: a library
\* that is unmapped has nobody left.
LEMMA StaysCurrent ==
    ASSUME NEW l \in Libs, lost'[l] \in Nat, Counted(l)', refs'[l] \in Nat,
           refs'[l] > 0 => gen'[l] = gen[l],
           \A s \in Own(l)' : sub'[s].gen = gen[l],
           \A o \in Kept(l)' : obj'[o].gen = gen[l],
           \A v \in Vars : \A u \in pin'[v] :
              u.lib = l /\ u.from = None => u.gen = gen[l] /\ lost'[l] > 0
    PROVE  Current(l)'
<1>1. CASE refs'[l] > 0
  BY <1>1 DEF Current
<1>2. CASE refs'[l] = 0
  <2>1. Cardinality(Own(l)') = 0 /\ Cardinality(Kept(l)') = 0 /\ lost'[l] = 0
    BY <1>2, FiniteNext DEF Counted
  <2>2. \A S : IsFiniteSet(S) /\ Cardinality(S) = 0 => S = {}
    BY FS_EmptySet
  <2>3. Own(l)' = {} /\ Kept(l)' = {}
    BY <2>1, <2>2, FiniteNext
  <2> QED
    BY <2>1, <2>3 DEF Current
<1> QED
  BY <1>1, <1>2

\* A use of a library whose reference is given back: u opened the library
\* (from None) and is current, or was lent the handle of u.from.
Returnable(u) ==
    /\ u \in Use
    /\ u.from = None => (Disciplined(u.lib) => u.gen = gen[u.lib] /\ refs[u.lib] > 0)
    /\ u.from # None => obj[u.from] = [lib |-> u.lib, gen |-> u.gen]

\* What the charge for a use does to the objects: it never undoes a release,
\* and in a program that stays disciplined it releases an object that was kept.
LEMMA Charged ==
    ASSUME LibInv, NEW u, Returnable(u), Charge(u), obj' = obj
    PROVE  /\ released' \in [Objs -> 0..2]
           /\ \A o \in Objs : obj'[o] = None => released'[o] = 0
           /\ \A l \in Libs : Disciplined(l)' => Disciplined(l)
           /\ \A l \in Libs : u.from = None \/ u.lib # l => Kept(l)' = Kept(l)
           /\ u.from # None /\ Disciplined(u.lib)' =>
                 /\ u.from \in Kept(u.lib)
                 /\ Kept(u.lib)' = Kept(u.lib) \ {u.from}
<1>1. TypeOK /\ Lent /\ u \in Use
  BY DEF LibInv, Returnable
<1>2. CASE u.from = None
  BY <1>1, <1>2 DEF Charge, TypeOK, Lent, Disciplined, Kept
<1>3. CASE u.from # None
  <2> DEFINE f == u.from
  <2>1. /\ f \in Objs /\ u.lib \in Libs
        /\ obj[f] \in Handle /\ obj[f] # None /\ obj[f].lib = u.lib
    <3>1. f \in Objs /\ u.lib \in Libs /\ u.gen \in 0..MaxGen
      BY <1>1, <1>3 DEF Use
    <3>2. obj[f] = [lib |-> u.lib, gen |-> u.gen]
      BY <1>3 DEF Returnable
    <3> QED
      BY <3>1, <3>2, LibAssumption DEF Handle
  <2>2. /\ released' \in [Objs -> 0..2]
        /\ released'[f] = OneMore(released[f]) /\ released[f] \in 0..2
        /\ \A o \in Objs \ {f} : released'[o] = released[o]
    BY <1>1, <1>3, <2>1 DEF Charge, TypeOK, OneMore
  <2> HIDE DEF f
  <2>3. \A o \in Objs : released[o] <= released'[o]
    BY <1>1, <2>2 DEF OneMore, TypeOK
  <2>4. \A o \in Objs : obj'[o] = None => released'[o] = 0
    BY <1>1, <2>1, <2>2 DEF Lent
  <2>5. \A l \in Libs : Disciplined(l)' => Disciplined(l)
    BY <1>1, <2>2, <2>3 DEF Disciplined, TypeOK
  <2>6. \A l \in Libs : u.lib # l => Kept(l)' = Kept(l)
    BY <2>1, <2>2 DEF Kept
  <2>7. ASSUME Disciplined(u.lib)'
        PROVE  f \in Kept(u.lib) /\ Kept(u.lib)' = Kept(u.lib) \ {f}
    <3>1. released'[f] <= 1
      BY <2>1, <2>7 DEF Disciplined
    <3>2. released[f] = 0 /\ released'[f] = 1
      BY <2>2, <3>1 DEF OneMore
    <3> QED
      BY <2>1, <2>2, <3>2 DEF Kept
  <2> QED
    BY <1>3, <2>2, <2>4, <2>5, <2>6, <2>7 DEF f
<1> QED
  BY <1>2, <1>3

\* Giving back a use takes exactly its own reference off, when the program
\* stays disciplined.
LEMMA GivenBack ==
    ASSUME LibInv, NEW u, Returnable(u), Charge(u), obj' = obj,
           NEW r \in [Libs -> Nat], \A l \in Libs : r[l] >= refs[l],
           NEW q \in dlclose(r, u),
           NEW l \in Libs, Disciplined(l)'
    PROVE  /\ q[l] = r[l] - (IF u.lib = l THEN 1 ELSE 0)
           /\ Cardinality(Kept(l)') = Cardinality(Kept(l))
                 - (IF u.lib = l /\ u.from # None THEN 1 ELSE 0)
           /\ Kept(l)' \subseteq Kept(l)
<1>1. u \in Use /\ u.lib \in Libs /\ TypeOK
  BY DEF Returnable, Use, LibInv
<1>2. CASE u.lib # l
  <2>1. q[l] = r[l]
    BY <1>1, <1>2, Closed
  <2>2. Kept(l)' = Kept(l)
    BY <1>2, Charged
  <2> QED
    BY <1>2, <2>1, <2>2, Finite
<1>3. CASE u.lib = l
  <2>1. Disciplined(l)
    BY Charged
  <2>2. CASE u.from = None
    <3>1. u.gen = gen[l] /\ r[l] > 0
      BY <1>1, <1>3, <2>1, <2>2 DEF Returnable, TypeOK
    <3>2. q[l] = r[l] - 1
      BY <1>1, <1>3, <3>1, Closed
    <3>3. Kept(l)' = Kept(l)
      BY <2>2, Charged
    <3> QED
      BY <1>3, <2>2, <3>2, <3>3, Finite
  <2>3. CASE u.from # None
    <3>1. u.from \in Kept(l) /\ Kept(l)' = Kept(l) \ {u.from}
      BY <1>3, <2>3, Charged
    <3>2. Cardinality(Kept(l)') = Cardinality(Kept(l)) - 1
      BY <3>1, Finite, FS_RemoveElement
    <3>3. obj[u.from] = [lib |-> u.lib, gen |-> u.gen]
      BY <2>3 DEF Returnable
    <3>4. Current(l)
      BY <2>1 DEF LibInv
    <3>5. u.gen = gen[l]
      BY <3>1, <3>3, <3>4 DEF Current
    <3>6. refs[l] > 0
      BY <2>1, <3>1, Holding
    <3>7. r[l] > 0
      BY <1>1, <3>6 DEF TypeOK
    <3>8. q[l] = r[l] - 1
      BY <1>1, <1>3, <3>5, <3>7, Closed
    <3> QED
      BY <1>3, <2>3, <3>1, <3>2, <3>8
  <2> QED
    BY <2>2, <2>3
<1> QED
  BY <1>2, <1>3

\* What a source is: the handle an operation works with, and the references
\* after it was obtained.
LEMMA Obtained ==
    ASSUME LibInv, Room, NEW src \in Sources
    PROVE  /\ src[1] \in Libs /\ src[2] \in Objs \cup {None}
           /\ src[2] = None => HandleOf(src) = [lib |-> src[1], gen |-> gen[src[1]]]
           /\ src[2] # None => /\ HandleOf(src) = obj[src[2]] /\ obj[src[2]] # None
                               /\ obj[src[2]] = [lib |-> src[1], gen |-> HandleOf(src).gen]
           /\ [lib |-> src[1], gen |-> HandleOf(src).gen, from |-> src[2]] \in Use
           /\ Obtain(src) \in [Libs -> Nat]
           /\ \A l \in Libs : Obtain(src)[l] = refs[l] +
                 (IF src[2] = None /\ src[1] = l THEN 1 ELSE 0)
           /\ \A l \in Libs : /\ Obtain(src)[l] <= MaxRefs /\ gen[l] # MaxGen
                              /\ refs[l] <= Obtain(src)[l]
<1>1. TypeOK
  BY DEF LibInv
<1>2. \A l \in Libs : refs[l] < MaxRefs /\ gen[l] # MaxGen /\ refs[l] \in Nat /\ gen[l] \in 0..MaxGen
  BY <1>1, LibAssumption DEF Room, TypeOK
<1>3. CASE src \in Libs \X {None}
  <2>1. src[1] \in Libs /\ src[2] = None
    BY <1>3
  <2>2. HandleOf(src) = [lib |-> src[1], gen |-> gen[src[1]]]
    BY <2>1 DEF HandleOf
  <2>3. Obtain(src) = [refs EXCEPT ![src[1]] = @ + 1]
    BY <2>1 DEF Obtain, dlopen
  <2> QED
    BY <1>1, <1>2, <2>1, <2>2, <2>3, LibAssumption DEF TypeOK, Use
<1>4. CASE src \in {<<obj[o].lib, o>> : o \in {x \in Objs : obj[x] # None}}
  <2>1. PICK o \in Objs : obj[o] # None /\ src = <<obj[o].lib, o>>
    BY <1>4
  <2>2. obj[o] \in Handle /\ src[1] = obj[o].lib /\ src[2] = o /\ o # None
    BY <1>1, <2>1, LibAssumption DEF TypeOK
  <2>3. HandleOf(src) = obj[o] /\ Obtain(src) = refs
    BY <2>2 DEF HandleOf, Obtain
  <2>4. obj[o] = [lib |-> src[1], gen |-> obj[o].gen] /\ obj[o].gen \in 0..MaxGen /\ obj[o].lib \in Libs
    BY <2>2 DEF Handle
  <2> QED
    BY <1>1, <1>2, <2>1, <2>2, <2>3, <2>4, LibAssumption DEF TypeOK, Use
<1> QED
  BY <1>3, <1>4 DEF Sources

\* LibInv from its parts after a step.
LEMMA Assemble ==
    ASSUME TypeOK', LastGen', Lent',
           \A l \in Libs : Disciplined(l)' => Counted(l)' /\ Current(l)'
    PROVE  LibInv'
  BY DEF LibInv

\* load_library keeps the invariant: its reference is the new object's.
LEMMA LoadLibraryInv ==
    ASSUME LibInv, NEW o \in Objs, NEW l \in Libs, LoadLibrary(o, l)
    PROVE  LibInv'
<1> USE LibAssumption
<1> DEFINE h == [lib |-> l, gen |-> gen[l]]
           r == dlopen(refs, l)
<1>1. TypeOK /\ LastGen /\ Lent /\ released[o] = 0
  BY DEF LibInv, Lent, LoadLibrary
<1>2. /\ Room /\ obj[o] = None /\ SetRefs(r) /\ obj' = [obj EXCEPT ![o] = h]
      /\ UNCHANGED <<sub, pin, released, lost>>
  BY DEF LoadLibrary
<1>3. /\ r \in [Libs -> Nat]
      /\ \A k \in Libs : r[k] = refs[k] + (IF k = l THEN 1 ELSE 0)
      /\ \A k \in Libs : r[k] <= MaxRefs /\ gen[k] # MaxGen
  BY <1>1, <1>2 DEF dlopen, TypeOK, Room
<1>4. h \in Handle /\ h # None /\ h.lib = l /\ h.gen = gen[l]
  BY <1>1 DEF Handle, TypeOK
<1> HIDE DEF h, r
<1>5. /\ refs' \in [Libs -> 0..MaxRefs] /\ gen' \in [Libs -> 0..MaxGen] /\ LastGen'
      /\ \A k \in Libs : refs'[k] > 0 => gen'[k] = gen[k]
      /\ refs' = r
  BY <1>1, <1>2, <1>3, Remapped DEF SetRefs
<1>6. /\ obj' \in [Objs -> Handle \cup {None}]
      /\ obj'[o] = h /\ \A x \in Objs \ {o} : obj'[x] = obj[x]
  BY <1>1, <1>2, <1>4 DEF TypeOK
<1>7. TypeOK'
  BY <1>1, <1>2, <1>5, <1>6 DEF TypeOK
<1>8. Lent'
  <2>1. \A x \in Objs : obj'[x] = None => released'[x] = 0
    BY <1>1, <1>2, <1>4, <1>6 DEF Lent
  <2>2. ASSUME NEW u \in Use, u.from # None, obj[u.from] = [lib |-> u.lib, gen |-> u.gen]
        PROVE  obj'[u.from] = [lib |-> u.lib, gen |-> u.gen]
    <3>1. u.from \in Objs /\ [lib |-> u.lib, gen |-> u.gen] \in Handle
      BY <2>2 DEF Use, Handle
    <3> QED
      BY <1>2, <1>6, <2>2, <3>1
  <2>3. \A s \in Subs : sub[s] # None => sub[s] \in Use
    BY <1>1 DEF TypeOK
  <2>4. \A v \in Vars : \A u \in pin[v] : u \in Use
    BY <1>1 DEF TypeOK
  <2> QED
    BY <1>1, <1>2, <2>1, <2>2, <2>3, <2>4 DEF Lent
<1>9. ASSUME NEW k \in Libs, Disciplined(k)'
      PROVE  Counted(k)' /\ Current(k)'
  <2>1. Disciplined(k)
    BY <1>2, <1>6, <1>9 DEF Disciplined
  <2>2. Counted(k) /\ Current(k) /\ lost[k] \in Nat
    BY <1>1, <2>1 DEF LibInv, TypeOK
  <2>3. Own(k)' = Own(k)
    BY <1>2 DEF Own
  <2>4. Kept(k)' = IF k = l THEN Kept(k) \cup {o} ELSE Kept(k)
    BY <1>1, <1>2, <1>4, <1>6 DEF Kept
  <2>5. o \notin Kept(k)
    BY <1>2 DEF Kept
  <2>6. Cardinality(Kept(k)') = Cardinality(Kept(k)) + (IF k = l THEN 1 ELSE 0)
    <3>1. CASE k = l
      BY <2>4, <2>5, <3>1, Finite, FS_AddElement
    <3>2. CASE k # l
      BY <2>4, <3>2, Finite
    <3> QED
      BY <3>1, <3>2
  <2>7. Counted(k)'
    BY <1>1, <1>2, <1>3, <1>5, <2>2, <2>3, <2>6, Finite DEF Counted, TypeOK
  <2>8. \A x \in Kept(k)' : obj'[x].gen = gen[k]
    <3>1. \A x \in Kept(k) : x \in Objs \ {o} /\ obj[x].gen = gen[k]
      BY <2>2, <2>5 DEF Current, Kept
    <3> QED
      BY <1>4, <1>6, <2>4, <3>1
  <2>9. \A v \in Vars : \A u \in pin'[v] :
           u.lib = k /\ u.from = None => u.gen = gen[k] /\ lost'[k] > 0
    BY <1>1, <1>2, <2>2 DEF Current, Lent
  <2>10. \A s \in Own(k)' : sub'[s].gen = gen[k]
    BY <1>2, <2>2, <2>3 DEF Current
  <2>11. lost'[k] \in Nat /\ refs'[k] \in Nat
    BY <1>7 DEF TypeOK
  <2> QED
    BY <1>5, <2>7, <2>8, <2>9, <2>10, <2>11, StaysCurrent
<1> QED
  BY <1>5, <1>7, <1>8, <1>9, Assemble

\* A step that makes no object keeps the invariant if the counts stay exact
\* and whoever has a reference has it for the mapping present before the step.
LEMMA StepInv ==
    ASSUME LibInv, obj' = obj, NEW r \in [Libs -> Nat], SetRefs(r),
           \A l \in Libs : r[l] <= MaxRefs /\ (gen[l] = MaxGen => r[l] = 0),
           sub' \in [Subs -> Use \cup {None}], pin' \in [Vars -> SUBSET Use],
           released' \in [Objs -> 0..2], lost' \in [Libs -> 0..MaxRefs],
           Lent',
           \A l \in Libs : Disciplined(l)' =>
              /\ Disciplined(l) /\ Counted(l)' /\ Kept(l)' \subseteq Kept(l)
              /\ \A s \in Own(l)' : sub'[s].gen = gen[l]
              /\ \A v \in Vars : \A u \in pin'[v] : u.lib = l /\ u.from = None => u.gen = gen[l]
    PROVE  LibInv'
<1>1. TypeOK /\ LastGen
  BY DEF LibInv
<1>2. /\ refs' \in [Libs -> 0..MaxRefs] /\ gen' \in [Libs -> 0..MaxGen] /\ LastGen'
      /\ \A l \in Libs : refs'[l] > 0 => gen'[l] = gen[l]
  BY <1>1, Remapped
<1>3. TypeOK'
  BY <1>1, <1>2 DEF TypeOK
<1>4. ASSUME NEW l \in Libs, Disciplined(l)'
      PROVE  Counted(l)' /\ Current(l)'
  <2>1. Counted(l)' /\ Current(l)
    BY <1>4 DEF LibInv
  <2>2. \A o \in Kept(l)' : obj'[o].gen = gen[l]
    BY <1>4, <2>1 DEF Current
  <2>3. \A v \in Vars : \A u \in pin'[v] :
           u.lib = l /\ u.from = None => u.gen = gen[l] /\ lost'[l] > 0
    BY <1>4 DEF Lent
  <2>4. lost'[l] \in Nat /\ refs'[l] \in Nat
    BY <1>2
  <2>5. \A s \in Own(l)' : sub'[s].gen = gen[l]
    BY <1>4
  <2> QED
    BY <1>2, <2>1, <2>2, <2>3, <2>4, <2>5, StaysCurrent
<1> QED
  BY <1>2, <1>3, <1>4, Assemble

\* free_library keeps the invariant: it gives back the object's reference.
LEMMA FreeLibraryInv ==
    ASSUME LibInv, NEW o \in Objs, FreeLibrary(o)
    PROVE  LibInv'
<1> USE LibAssumption
<1> DEFINE u == [lib |-> obj[o].lib, gen |-> obj[o].gen, from |-> o]
<1>1. TypeOK /\ Lent /\ LastGen
  BY DEF LibInv
<1>2. PICK r \in dlclose(refs, obj[o]) : SetRefs(r)
  BY DEF FreeLibrary
<1>3. /\ obj[o] # None /\ released' = [released EXCEPT ![o] = OneMore(@)]
      /\ UNCHANGED <<obj, sub, pin, lost>>
  BY DEF FreeLibrary
<1>4. obj[o] \in Handle /\ obj[o].lib \in Libs /\ obj[o].gen \in 0..MaxGen
      /\ obj[o] = [lib |-> obj[o].lib, gen |-> obj[o].gen]
  BY <1>1, <1>3 DEF TypeOK, Handle
<1>5. u \in Use /\ u.lib = obj[o].lib /\ u.gen = obj[o].gen /\ u.from = o /\ o # None
  BY <1>4 DEF Use
<1>6. r \in dlclose(refs, u)
  BY <1>2, <1>5 DEF dlclose
<1> HIDE DEF u
<1>7. Returnable(u) /\ Charge(u)
  BY <1>3, <1>4, <1>5 DEF Returnable, Charge
<1>8. refs \in [Libs -> Nat] /\ \A l \in Libs : refs[l] <= MaxRefs /\ refs[l] >= refs[l]
  BY <1>1 DEF TypeOK
<1>9. r \in [Libs -> Nat] /\ \A l \in Libs : r[l] <= refs[l]
  BY <1>4, <1>5, <1>6, <1>8, Closed
<1>10. \A l \in Libs : r[l] <= MaxRefs /\ (gen[l] = MaxGen => r[l] = 0)
  BY <1>1, <1>8, <1>9 DEF LastGen
<1>11. /\ released' \in [Objs -> 0..2]
       /\ \A x \in Objs : obj'[x] = None => released'[x] = 0
       /\ \A l \in Libs : Disciplined(l)' => Disciplined(l)
  BY <1>3, <1>7, Charged
<1>12. Lent'
  BY <1>1, <1>3, <1>11 DEF Lent
<1>13. ASSUME NEW l \in Libs, Disciplined(l)'
       PROVE  /\ Disciplined(l) /\ Counted(l)' /\ Kept(l)' \subseteq Kept(l)
              /\ \A s \in Own(l)' : sub'[s].gen = gen[l]
              /\ \A v \in Vars : \A w \in pin'[v] : w.lib = l /\ w.from = None => w.gen = gen[l]
  <2>1. Disciplined(l) /\ Counted(l) /\ Current(l) /\ lost[l] \in Nat /\ refs[l] \in Nat
    BY <1>1, <1>11, <1>13 DEF LibInv, TypeOK
  <2>2. Own(l)' = Own(l)
    BY <1>3 DEF Own
  <2>3. /\ r[l] = refs[l] - (IF u.lib = l THEN 1 ELSE 0)
        /\ Cardinality(Kept(l)') = Cardinality(Kept(l)) - (IF u.lib = l /\ u.from # None THEN 1 ELSE 0)
        /\ Kept(l)' \subseteq Kept(l)
    BY <1>3, <1>6, <1>7, <1>8, <1>13, GivenBack
  <2>4. refs' = r
    BY <1>2 DEF SetRefs
  <2>5. Counted(l)'
    BY <1>3, <1>5, <2>1, <2>2, <2>3, <2>4, Finite DEF Counted
  <2> QED
    BY <1>3, <2>1, <2>2, <2>3, <2>5 DEF Current
<1> QED
  BY <1>1, <1>2, <1>3, <1>9, <1>10, <1>11, <1>12, <1>13, StepInv DEF TypeOK

\* find_symbol, and a lookup that fails, keep the invariant: a handle that was
\* opened for it is counted as lost.
LEMMA LookUpInv ==
    ASSUME LibInv, NEW src \in Sources, LookUp(src)
    PROVE  LibInv'
<1> DEFINE r == Obtain(src)
<1>1. TypeOK /\ Lent /\ LastGen
  BY DEF LibInv
<1>2. Room /\ SetRefs(r) /\ Forget(src) /\ UNCHANGED <<obj, sub, pin, released>>
  BY DEF LookUp
<1>3. /\ src[1] \in Libs /\ r \in [Libs -> Nat]
      /\ \A l \in Libs : r[l] = refs[l] + (IF src[2] = None /\ src[1] = l THEN 1 ELSE 0)
      /\ \A l \in Libs : r[l] <= MaxRefs /\ gen[l] # MaxGen
  BY <1>2, Obtained
<1> HIDE DEF r
<1>4. /\ lost' \in [Libs -> 0..MaxRefs]
      /\ \A l \in Libs : lost'[l] = lost[l] + (IF src[2] = None /\ src[1] = l THEN 1 ELSE 0)
  BY <1>1, <1>2, <1>3, LibAssumption DEF Forget, Room, TypeOK
<1>5. Lent'
  <2>1. \A v \in Vars : \A u \in pin[v] : u.lib \in Libs
    BY <1>1 DEF TypeOK, Use
  <2>2. \A l \in Libs : lost[l] > 0 => lost'[l] > 0
    BY <1>1, <1>4 DEF TypeOK
  <2> QED
    BY <1>1, <1>2, <2>1, <2>2 DEF Lent
<1>6. ASSUME NEW l \in Libs, Disciplined(l)'
      PROVE  /\ Disciplined(l) /\ Counted(l)' /\ Kept(l)' \subseteq Kept(l)
             /\ \A s \in Own(l)' : sub'[s].gen = gen[l]
             /\ \A v \in Vars : \A u \in pin'[v] : u.lib = l /\ u.from = None => u.gen = gen[l]
  <2>1. Disciplined(l)
    BY <1>2, <1>6 DEF Disciplined
  <2>2. Counted(l) /\ Current(l) /\ lost[l] \in Nat /\ refs[l] \in Nat
    BY <1>1, <2>1 DEF LibInv, TypeOK
  <2>3. Own(l)' = Own(l) /\ Kept(l)' = Kept(l)
    BY <1>2 DEF Own, Kept
  <2>4. refs' = r
    BY <1>2 DEF SetRefs
  <2>5. Counted(l)'
    BY <1>3, <1>4, <2>2, <2>3, <2>4, Finite DEF Counted
  <2> QED
    BY <1>2, <2>1, <2>2, <2>3, <2>5 DEF Current
<1> QED
  BY <1>1, <1>2, <1>3, <1>4, <1>5, <1>6, StepInv DEF TypeOK

\* The fiction behind a sub can be given back.
LEMMA SubReturnable ==
    ASSUME LibInv, NEW s \in Subs, sub[s] # None
    PROVE  Returnable(sub[s]) /\ sub[s].lib \in Libs
<1>1. sub[s] \in Use /\ sub[s].lib \in Libs
  BY DEF LibInv, TypeOK, Use
<1>2. sub[s].from # None => obj[sub[s].from] = [lib |-> sub[s].lib, gen |-> sub[s].gen]
  BY DEF LibInv, Lent
<1>3. ASSUME sub[s].from = None, Disciplined(sub[s].lib)
      PROVE  sub[s].gen = gen[sub[s].lib] /\ refs[sub[s].lib] > 0
  <2>1. s \in Own(sub[s].lib)
    BY <1>3 DEF Own
  <2>2. Current(sub[s].lib)
    BY <1>1, <1>3 DEF LibInv
  <2>3. refs[sub[s].lib] > 0
    BY <1>1, <1>3, <2>1, Holding
  <2> QED
    BY <2>1, <2>2, <2>3 DEF Current
<1> QED
  BY <1>1, <1>2, <1>3 DEF Returnable

\* How the fictions that opened l change when s loses its fiction.
LEMMA OwnRemoved ==
    ASSUME NEW s \in Subs, sub[s] # None, NEW l
    PROVE  Cardinality(Own(l) \ {s}) =
              Cardinality(Own(l)) - (IF sub[s].lib = l /\ sub[s].from = None THEN 1 ELSE 0)
<1>1. CASE sub[s].lib = l /\ sub[s].from = None
  <2>1. s \in Own(l)
    BY <1>1 DEF Own
  <2> QED
    BY <1>1, <2>1, Finite, FS_RemoveElement
<1>2. CASE ~(sub[s].lib = l /\ sub[s].from = None)
  <2>1. Own(l) \ {s} = Own(l)
    BY <1>2 DEF Own
  <2> QED
    BY <1>2, <2>1, Finite
<1> QED
  BY <1>1, <1>2

\* Affix_DESTROY keeps the invariant: it gives back the fiction's reference,
\* its own or that of the object it was made from.
LEMMA DestroyInv ==
    ASSUME LibInv, NEW s \in Subs, Destroy(s)
    PROVE  LibInv'
<1> USE LibAssumption
<1> DEFINE u == sub[s]
<1>1. TypeOK /\ Lent /\ LastGen
  BY DEF LibInv
<1>2. PICK r \in dlclose(refs, u) : SetRefs(r)
  BY DEF Destroy
<1>3. /\ u # None /\ Charge(u) /\ sub' = [sub EXCEPT ![s] = None]
      /\ UNCHANGED <<obj, pin, lost>>
  BY DEF Destroy
<1>4. Returnable(u) /\ u.lib \in Libs
  BY <1>3, SubReturnable
<1>5. refs \in [Libs -> Nat] /\ \A l \in Libs : refs[l] <= MaxRefs /\ refs[l] >= refs[l]
  BY <1>1 DEF TypeOK
<1>6. r \in [Libs -> Nat] /\ \A l \in Libs : r[l] <= refs[l]
  BY <1>2, <1>4, <1>5, Closed
<1>7. \A l \in Libs : r[l] <= MaxRefs /\ (gen[l] = MaxGen => r[l] = 0)
  BY <1>1, <1>5, <1>6 DEF LastGen
<1>8. /\ released' \in [Objs -> 0..2]
      /\ \A x \in Objs : obj'[x] = None => released'[x] = 0
      /\ \A l \in Libs : Disciplined(l)' => Disciplined(l)
  BY <1>3, <1>4, Charged
<1>9. /\ sub' \in [Subs -> Use \cup {None}]
      /\ sub'[s] = None /\ \A t \in Subs \ {s} : sub'[t] = sub[t]
  BY <1>1, <1>3 DEF TypeOK
<1>10. Lent'
  BY <1>1, <1>3, <1>8, <1>9 DEF Lent
<1>11. ASSUME NEW l \in Libs, Disciplined(l)'
       PROVE  /\ Disciplined(l) /\ Counted(l)' /\ Kept(l)' \subseteq Kept(l)
              /\ \A t \in Own(l)' : sub'[t].gen = gen[l]
              /\ \A v \in Vars : \A w \in pin'[v] : w.lib = l /\ w.from = None => w.gen = gen[l]
  <2>1. Disciplined(l) /\ Counted(l) /\ Current(l) /\ lost[l] \in Nat /\ refs[l] \in Nat
    BY <1>1, <1>8, <1>11 DEF LibInv, TypeOK
  <2>2. Own(l)' = Own(l) \ {s}
    BY <1>9 DEF Own
  <2>3. Cardinality(Own(l)') =
           Cardinality(Own(l)) - (IF u.lib = l /\ u.from = None THEN 1 ELSE 0)
    BY <1>3, <2>2, OwnRemoved
  <2>4. /\ r[l] = refs[l] - (IF u.lib = l THEN 1 ELSE 0)
        /\ Cardinality(Kept(l)') = Cardinality(Kept(l)) - (IF u.lib = l /\ u.from # None THEN 1 ELSE 0)
        /\ Kept(l)' \subseteq Kept(l)
    BY <1>2, <1>3, <1>4, <1>5, <1>11, GivenBack
  <2>5. refs' = r
    BY <1>2 DEF SetRefs
  <2> HIDE DEF u
  <2>6. Counted(l)'
    BY <1>3, <2>1, <2>3, <2>4, <2>5, Finite DEF Counted
  <2>7. \A t \in Own(l)' : sub'[t].gen = gen[l]
    <3>1. \A t \in Own(l)' : t \in Subs \ {s} /\ t \in Own(l)
      BY <2>2 DEF Own
    <3> QED
      BY <1>9, <2>1, <3>1 DEF Current
  <2> QED
    BY <1>3, <2>1, <2>4, <2>6, <2>7 DEF Current
<1> QED
  BY <1>1, <1>2, <1>3, <1>6, <1>7, <1>8, <1>9, <1>10, <1>11, StepInv DEF TypeOK

\* pin keeps the invariant: the variable is in the present mapping, and the
\* handle that was opened for it is lost.
LEMMA PinInv ==
    ASSUME LibInv, NEW v \in Vars, NEW src \in Sources, Pin(v, src)
    PROVE  LibInv'
<1> DEFINE r == Obtain(src)
           u == [lib |-> src[1], gen |-> HandleOf(src).gen, from |-> src[2]]
<1>1. TypeOK /\ Lent /\ LastGen
  BY DEF LibInv
<1>2. /\ Room /\ SetRefs(r) /\ Forget(src) /\ UNCHANGED <<obj, sub, released>>
      /\ pin' = [pin EXCEPT ![v] = @ \cup {u}]
  BY DEF Pin
<1>3. /\ src[1] \in Libs /\ r \in [Libs -> Nat] /\ u \in Use
      /\ \A l \in Libs : r[l] = refs[l] + (IF src[2] = None /\ src[1] = l THEN 1 ELSE 0)
      /\ \A l \in Libs : r[l] <= MaxRefs /\ gen[l] # MaxGen
      /\ u.from # None => obj[u.from] = [lib |-> u.lib, gen |-> u.gen]
      /\ u.lib = src[1] /\ u.from = src[2]
  BY <1>2, Obtained
<1>4. u.from = None => u.gen = gen[u.lib]
  <2>1. src[2] = None => HandleOf(src).gen = gen[src[1]]
    BY DEF HandleOf
  <2> QED
    BY <2>1
<1> HIDE DEF r, u
<1>5. /\ lost' \in [Libs -> 0..MaxRefs]
      /\ \A l \in Libs : lost'[l] = lost[l] + (IF src[2] = None /\ src[1] = l THEN 1 ELSE 0)
  BY <1>1, <1>2, <1>3, LibAssumption DEF Forget, Room, TypeOK
<1>6. /\ pin' \in [Vars -> SUBSET Use]
      /\ \A w \in Vars : \A x \in pin'[w] : x = u \/ x \in pin[w]
  BY <1>1, <1>2, <1>3 DEF TypeOK
<1>7. Lent'
  <2>1. \A w \in Vars : \A x \in pin[w] : x.lib \in Libs
    BY <1>1 DEF TypeOK, Use
  <2>2. \A l \in Libs : lost[l] > 0 => lost'[l] > 0
    BY <1>1, <1>5 DEF TypeOK
  <2>3. u.from = None => lost'[u.lib] > 0
    BY <1>1, <1>3, <1>5 DEF TypeOK
  <2>4. ASSUME NEW w \in Vars, NEW x \in pin'[w]
        PROVE  IF x.from = None THEN lost'[x.lib] > 0
               ELSE obj'[x.from] = [lib |-> x.lib, gen |-> x.gen]
    <3>1. CASE x = u
      BY <1>2, <1>3, <2>3, <3>1
    <3>2. CASE x \in pin[w]
      <4>1. IF x.from = None THEN lost[x.lib] > 0
            ELSE obj[x.from] = [lib |-> x.lib, gen |-> x.gen]
        BY <1>1, <3>2 DEF Lent
      <4> QED
        BY <1>2, <2>1, <2>2, <3>2, <4>1
    <3> QED
      BY <1>6, <3>1, <3>2
  <2> QED
    BY <1>1, <1>2, <2>4 DEF Lent
<1>8. ASSUME NEW l \in Libs, Disciplined(l)'
      PROVE  /\ Disciplined(l) /\ Counted(l)' /\ Kept(l)' \subseteq Kept(l)
             /\ \A s \in Own(l)' : sub'[s].gen = gen[l]
             /\ \A w \in Vars : \A x \in pin'[w] : x.lib = l /\ x.from = None => x.gen = gen[l]
  <2>1. Disciplined(l)
    BY <1>2, <1>8 DEF Disciplined
  <2>2. Counted(l) /\ Current(l) /\ lost[l] \in Nat /\ refs[l] \in Nat
    BY <1>1, <2>1 DEF LibInv, TypeOK
  <2>3. Own(l)' = Own(l) /\ Kept(l)' = Kept(l)
    BY <1>2 DEF Own, Kept
  <2>4. refs' = r
    BY <1>2 DEF SetRefs
  <2>5. Counted(l)'
    BY <1>3, <1>5, <2>2, <2>3, <2>4, Finite DEF Counted
  <2>6. \A w \in Vars : \A x \in pin'[w] : x.lib = l /\ x.from = None => x.gen = gen[l]
    BY <1>4, <1>6, <2>2 DEF Current
  <2> QED
    BY <1>2, <2>1, <2>2, <2>3, <2>5, <2>6 DEF Current
<1> QED
  BY <1>1, <1>2, <1>3, <1>5, <1>6, <1>7, <1>8, StepInv DEF TypeOK

\* affix and wrap keep the invariant: the new fiction has the reference that
\* was opened for it, and the fiction it replaces gives its own back.
LEMMA AffixInv ==
    ASSUME LibInv, NEW s \in Subs, NEW src \in Sources, Affix(s, src)
    PROVE  LibInv'
<1> USE LibAssumption
<1> DEFINE r == Obtain(src)
           u == [lib |-> src[1], gen |-> HandleOf(src).gen, from |-> src[2]]
           old == sub[s]
           Opened(l) == IF u.from = None /\ u.lib = l THEN 1 ELSE 0
           Returned(l) == IF old # None /\ old.lib = l THEN 1 ELSE 0
<1>1. TypeOK /\ Lent /\ LastGen
  BY DEF LibInv
<1>2. /\ Room /\ sub' = [sub EXCEPT ![s] = u] /\ UNCHANGED <<obj, pin, lost>>
      /\ old = None => SetRefs(r) /\ UNCHANGED released
      /\ old # None => Charge(old) /\ \E q \in dlclose(r, old) : SetRefs(q)
  BY DEF Affix
<1>3. /\ r \in [Libs -> Nat] /\ u \in Use
      /\ u.from # None => obj[u.from] = [lib |-> u.lib, gen |-> u.gen]
      /\ u.lib = src[1] /\ u.from = src[2]
  BY <1>2, Obtained
<1>4. \A l \in Libs : /\ r[l] = refs[l] + Opened(l) /\ r[l] >= refs[l]
                      /\ r[l] <= MaxRefs /\ gen[l] # MaxGen
  BY <1>1, <1>2, Obtained DEF TypeOK
<1>5. u.from = None => u.gen = gen[u.lib]
  <2>1. src[2] = None => HandleOf(src).gen = gen[src[1]]
    BY DEF HandleOf
  <2> QED
    BY <2>1
<1>6. u # None
  BY <1>3
<1> HIDE DEF r, u
<1>7. old # None => Returnable(old) /\ old.lib \in Libs
  BY SubReturnable
<1>8. /\ sub' \in [Subs -> Use \cup {None}]
      /\ sub'[s] = u /\ \A t \in Subs \ {s} : sub'[t] = sub[t]
  BY <1>1, <1>2, <1>3 DEF TypeOK
<1> HIDE DEF old
<1>9. /\ released' \in [Objs -> 0..2]
      /\ \A x \in Objs : obj'[x] = None => released'[x] = 0
      /\ \A l \in Libs : Disciplined(l)' => Disciplined(l)
  <2>1. CASE old = None
    BY <1>1, <1>2, <2>1 DEF TypeOK, Lent, Disciplined
  <2>2. CASE old # None
    BY <1>2, <1>7, <2>2, Charged
  <2> QED
    BY <2>1, <2>2
<1>10. PICK q \in [Libs -> Nat] :
          /\ SetRefs(q)
          /\ \A l \in Libs : q[l] <= r[l]
          /\ \A l \in Libs : Disciplined(l)' =>
                /\ q[l] = r[l] - Returned(l)
                /\ Cardinality(Kept(l)') = Cardinality(Kept(l))
                      - (IF old # None /\ old.lib = l /\ old.from # None THEN 1 ELSE 0)
                /\ Kept(l)' \subseteq Kept(l)
  <2>1. CASE old = None
    <3>1. \A l \in Libs : Kept(l)' = Kept(l)
      BY <1>2, <2>1 DEF Kept
    <3>2. \A l \in Libs : r[l] <= r[l] /\ r[l] - Returned(l) = r[l]
      BY <1>3, <2>1
    <3> QED
      BY <1>2, <1>3, <2>1, <3>1, <3>2, Finite
  <2>2. CASE old # None
    <3>1. PICK q \in dlclose(r, old) : SetRefs(q)
      BY <1>2, <2>2
    <3>2. q \in [Libs -> Nat] /\ \A l \in Libs : q[l] <= r[l]
      BY <1>3, <1>7, <2>2, <3>1, Closed
    <3>3. ASSUME NEW l \in Libs, Disciplined(l)'
          PROVE  /\ q[l] = r[l] - Returned(l)
                 /\ Cardinality(Kept(l)') = Cardinality(Kept(l))
                       - (IF old # None /\ old.lib = l /\ old.from # None THEN 1 ELSE 0)
                 /\ Kept(l)' \subseteq Kept(l)
      <4>1. /\ q[l] = r[l] - (IF old.lib = l THEN 1 ELSE 0)
            /\ Cardinality(Kept(l)') = Cardinality(Kept(l))
                  - (IF old.lib = l /\ old.from # None THEN 1 ELSE 0)
            /\ Kept(l)' \subseteq Kept(l)
        BY <1>2, <1>3, <1>4, <1>7, <2>2, <3>1, <3>3, GivenBack
      <4> QED
        BY <2>2, <4>1
    <3> QED
      BY <3>1, <3>2, <3>3
  <2> QED
    BY <2>1, <2>2
<1>11. \A l \in Libs : q[l] <= MaxRefs /\ (gen[l] = MaxGen => q[l] = 0)
  BY <1>3, <1>4, <1>10
<1>12. Lent'
  <2>1. \A t \in Subs : sub'[t] # None /\ sub'[t].from # None =>
           obj'[sub'[t].from] = [lib |-> sub'[t].lib, gen |-> sub'[t].gen]
    BY <1>1, <1>2, <1>3, <1>8 DEF Lent
  <2> QED
    BY <1>1, <1>2, <1>9, <2>1 DEF Lent
<1>13. ASSUME NEW l \in Libs, Disciplined(l)'
       PROVE  /\ Disciplined(l) /\ Counted(l)' /\ Kept(l)' \subseteq Kept(l)
              /\ \A t \in Own(l)' : sub'[t].gen = gen[l]
              /\ \A v \in Vars : \A w \in pin'[v] : w.lib = l /\ w.from = None => w.gen = gen[l]
  <2>1. Disciplined(l) /\ Counted(l) /\ Current(l) /\ lost[l] \in Nat /\ refs[l] \in Nat
    BY <1>1, <1>9, <1>13 DEF LibInv, TypeOK
  <2>2. Own(l)' = IF u.from = None /\ u.lib = l THEN (Own(l) \ {s}) \cup {s} ELSE Own(l) \ {s}
    BY <1>6, <1>8 DEF Own
  <2>3. IsFiniteSet(Own(l) \ {s}) /\ Cardinality(Own(l) \ {s}) \in Nat
    BY Finite, FS_Subset, FS_CardinalityType
  <2>4. Cardinality(Own(l)') = Cardinality(Own(l) \ {s}) + Opened(l)
    <3>1. CASE u.from = None /\ u.lib = l
      <4>1. s \notin Own(l) \ {s}
        OBVIOUS
      <4> QED
        BY <2>2, <2>3, <3>1, <4>1, FS_AddElement
    <3>2. CASE ~(u.from = None /\ u.lib = l)
      BY <2>2, <2>3, <3>2
    <3> QED
      BY <3>1, <3>2
  <2>5. Cardinality(Own(l) \ {s}) = Cardinality(Own(l))
           - (IF old # None /\ old.lib = l /\ old.from = None THEN 1 ELSE 0)
    <3>1. CASE old = None
      <4>1. Own(l) \ {s} = Own(l)
        BY <3>1 DEF Own, old
      <4> QED
        BY <3>1, <4>1, Finite
    <3>2. CASE old # None
      BY <3>2, OwnRemoved DEF old
    <3> QED
      BY <3>1, <3>2
  <2>6. refs' = q
    BY <1>10 DEF SetRefs
  <2>7. /\ q[l] = r[l] - Returned(l) /\ r[l] = refs[l] + Opened(l)
        /\ Cardinality(Kept(l)') = Cardinality(Kept(l))
              - (IF old # None /\ old.lib = l /\ old.from # None THEN 1 ELSE 0)
        /\ Kept(l)' \subseteq Kept(l)
    BY <1>4, <1>10, <1>13
  <2>8. Counted(l)'
    <3>1. refs[l] = Cardinality(Own(l)) + Cardinality(Kept(l)) + lost[l]
      BY <2>1 DEF Counted
    <3>2. Cardinality(Own(l)) \in Nat /\ Cardinality(Kept(l)) \in Nat
      BY Finite
    <3>3. refs'[l] = Cardinality(Own(l)') + Cardinality(Kept(l)') + lost'[l]
      BY <1>2, <2>1, <2>4, <2>5, <2>6, <2>7, <3>1, <3>2
    <3> QED
      BY <3>3 DEF Counted
  <2>9. \A t \in Own(l)' : sub'[t].gen = gen[l]
    <3>1. \A t \in Own(l)' : t \in Subs /\ (t \in Own(l) \/ (t = s /\ u.from = None /\ u.lib = l))
      BY <2>2 DEF Own
    <3>2. \A t \in Own(l)' : t = s => u.from = None /\ u.lib = l
      BY <2>2
    <3> QED
      BY <1>5, <1>8, <2>1, <3>1, <3>2 DEF Current
  <2> QED
    BY <1>2, <2>1, <2>7, <2>8, <2>9 DEF Current
<1> QED
  BY <1>1, <1>2, <1>8, <1>9, <1>10, <1>11, <1>12, <1>13, StepInv DEF TypeOK

\* unpin keeps the invariant: it touches nothing but the magic.
LEMMA UnpinInv ==
    ASSUME LibInv, NEW v \in Vars, Unpin(v)
    PROVE  LibInv'
<1>1. TypeOK /\ LastGen /\ Lent
  BY DEF LibInv
<1>2. /\ UNCHANGED <<refs, gen, obj, sub, released, lost>>
      /\ pin' = [pin EXCEPT ![v] = {}]
  BY DEF Unpin
<1>3. pin' \in [Vars -> SUBSET Use] /\ \A w \in Vars : pin'[w] \subseteq pin[w]
  BY <1>1, <1>2 DEF TypeOK
<1>4. TypeOK' /\ LastGen' /\ Lent'
  BY <1>1, <1>2, <1>3 DEF TypeOK, LastGen, Lent
<1>5. ASSUME NEW l \in Libs, Disciplined(l)'
      PROVE  Counted(l)' /\ Current(l)'
  <2>1. Disciplined(l)
    BY <1>2, <1>5 DEF Disciplined
  <2>2. Counted(l) /\ Current(l)
    BY <2>1 DEF LibInv
  <2>3. Own(l)' = Own(l) /\ Kept(l)' = Kept(l)
    BY <1>2 DEF Own, Kept
  <2> QED
    BY <1>2, <1>3, <2>2, <2>3 DEF Counted, Current
<1> QED
  BY <1>4, <1>5, Assemble

\* Every step keeps the invariant.
LEMMA LibNext == LibInv /\ [Next]_vars => LibInv'
<1> SUFFICES ASSUME LibInv, [Next]_vars
             PROVE  LibInv'
  OBVIOUS
<1>1. CASE UNCHANGED vars
  BY <1>1 DEF vars, LibInv, TypeOK, LastGen, Lent, Disciplined, Counted, Current, Own, Kept
<1>2. CASE \E o \in Objs, l \in Libs : LoadLibrary(o, l)
  BY <1>2, LoadLibraryInv
<1>3. CASE \E o \in Objs : FreeLibrary(o)
  BY <1>3, FreeLibraryInv
<1>4. CASE \E src \in Sources : LookUp(src)
  BY <1>4, LookUpInv
<1>5. CASE \E s \in Subs, src \in Sources : Affix(s, src)
  BY <1>5, AffixInv
<1>6. CASE \E s \in Subs : Destroy(s)
  BY <1>6, DestroyInv
<1>7. CASE \E v \in Vars, src \in Sources : Pin(v, src)
  BY <1>7, PinInv
<1>8. CASE \E v \in Vars : Unpin(v)
  BY <1>8, UnpinInv
<1> QED
  BY <1>1, <1>2, <1>3, <1>4, <1>5, <1>6, <1>7, <1>8 DEF Next

\* The program starts with no library open.
LEMMA LibInit == Init => LibInv
<1> SUFFICES ASSUME Init
             PROVE  LibInv
  OBVIOUS
<1>1. TypeOK
  BY LibAssumption DEF Init, TypeOK
<1>2. LastGen /\ Lent
  BY DEF Init, LastGen, Lent
<1>3. ASSUME NEW l \in Libs
      PROVE  Counted(l) /\ Current(l)
  <2>1. Own(l) = {} /\ Kept(l) = {}
    BY DEF Init, Own, Kept
  <2>2. Cardinality({}) = 0
    BY FS_EmptySet
  <2> QED
    BY <2>1, <2>2 DEF Init, Counted, Current
<1> QED
  BY <1>1, <1>2, <1>3 DEF LibInv

\* The invariant makes the linker's count exact.
LEMMA InvCounts == LibInv => TypeOK /\ Accounting
  BY DEF LibInv, Accounting, Counted

\* The invariant keeps every address that somebody answers for mapped.
LEMMA InvMapped == LibInv => AddressesMapped
<1> SUFFICES ASSUME LibInv, NEW l \in Libs, Disciplined(l)
             PROVE  /\ \A s \in Subs : sub[s] # None /\ sub[s].lib = l /\ Backed(sub[s]) => Mapped(sub[s])
                    /\ \A v \in Vars : \A u \in pin[v] : u.lib = l /\ Backed(u) => Mapped(u)
  BY DEF AddressesMapped
<1>1. TypeOK /\ Lent /\ Current(l)
  BY DEF LibInv
<1>2. ASSUME NEW u \in Use, u.lib = l, u.from # None, Backed(u),
             obj[u.from] = [lib |-> u.lib, gen |-> u.gen]
      PROVE  Mapped(u)
  <2>1. u.from \in Objs /\ [lib |-> u.lib, gen |-> u.gen] \in Handle
    BY <1>2 DEF Use, Handle
  <2>2. u.from \in Kept(l)
    BY <1>2, <2>1, LibAssumption DEF Kept, Backed
  <2> QED
    BY <1>1, <1>2, <2>2, Holding DEF Current, Mapped
<1>3. ASSUME NEW s \in Subs, sub[s] # None, sub[s].lib = l, Backed(sub[s])
      PROVE  Mapped(sub[s])
  <2>1. sub[s] \in Use
    BY <1>1, <1>3 DEF TypeOK
  <2>2. CASE sub[s].from = None
    <3>1. s \in Own(l)
      BY <1>3, <2>2 DEF Own
    <3> QED
      BY <1>1, <1>3, <3>1, Holding DEF Current, Mapped
  <2>3. CASE sub[s].from # None
    BY <1>1, <1>2, <1>3, <2>1, <2>3 DEF Lent
  <2> QED
    BY <2>2, <2>3
<1>4. ASSUME NEW v \in Vars, NEW u \in pin[v], u.lib = l, Backed(u)
      PROVE  Mapped(u)
  <2>1. u \in Use
    BY <1>1 DEF TypeOK
  <2>2. CASE u.from = None
    <3>1. lost[l] > 0 /\ u.gen = gen[l]
      BY <1>1, <1>4, <2>2 DEF Lent, Current
    <3> QED
      BY <1>4, <3>1, Holding DEF Mapped
  <2>3. CASE u.from # None
    BY <1>1, <1>2, <1>4, <2>1, <2>3 DEF Lent
  <2> QED
    BY <2>2, <2>3
<1> QED
  BY <1>3, <1>4
-----------------------------------------------------------------------------
\* However libraries are loaded, freed, affixed, wrapped, pinned and destroyed,
\* the invariant above holds.
THEOREM LibInvariant == Spec => []LibInv
<1>1. Init => LibInv
  BY LibInit
<1>2. LibInv /\ [Next]_vars => LibInv'
  BY LibNext
<1> QED
  BY <1>1, <1>2, PTL DEF Spec

\* The handles and counts keep their types; in particular no count of
\* references goes below zero, whatever is freed twice.
THEOREM TypeCorrect == Spec => []TypeOK
<1>1. LibInv => TypeOK
  BY InvCounts
<1> QED
  BY <1>1, LibInvariant, PTL

\* For a disciplined program the linker's count of each library is exact:
\* redefining an affixed sub, destroying one and freeing an object give back
\* just the reference they hold.
THEOREM AccountingExact == Spec => []Accounting
<1>1. LibInv => Accounting
  BY InvCounts
<1> QED
  BY <1>1, LibInvariant, PTL

\* For a disciplined program the entry point behind each backed fiction and the
\* variable behind each backed pin stay mapped.
THEOREM AddressesStayMapped == Spec => []AddressesMapped
<1>1. LibInv => AddressesMapped
  BY InvMapped
<1> QED
  BY <1>1, LibInvariant, PTL
=============================================================================
