------------------------ MODULE PointerMemoryProofs ------------------------
(***************************************************************************)
(* Proofs about PointerMemory, for every number of blocks and scalars.     *)
(***************************************************************************)
EXTENDS PointerMemory, TLAPS

\* The inductive invariant: types, and one holder for each block.
HolderInv == TypeOK /\ OneHolder /\ NoStaleUse

\* A new object for a block that no usable object points to.
LEMMA NewHolder ==
    ASSUME TypeOK, OneHolder, ~shared, NEW w \in PVars, NEW b \in Blocks,
           NEW k \in Kinds,
           b \in live', live' \subseteq Blocks,
           var' \in [PVars -> Object \cup {Undef}],
           var'[w] = [kind |-> k, blk |-> b],
           \A u \in PVars \ {w} : Usable(u)' => Usable(u) /\ var'[u] = var[u]
                                                /\ var[u].blk \in live' /\ var[u].blk # b
    PROVE  /\ \A v \in PVars : Usable(v)' => var'[v].blk \in live'
           /\ \A v, u \in PVars : Usable(v)' /\ Usable(u)' /\ v # u => var'[v].blk # var'[u].blk
<1>1. var'[w].blk = b
  OBVIOUS
<1>2. \A v \in PVars : Usable(v)' => var'[v].blk \in live'
  BY <1>1
<1>3. ASSUME NEW v \in PVars, NEW u \in PVars, Usable(v)', Usable(u)', v # u
      PROVE  var'[v].blk # var'[u].blk
  <2>1. CASE v = w
    BY <1>1, <1>3, <2>1
  <2>2. CASE u = w
    BY <1>1, <1>3, <2>2
  <2>3. CASE v # w /\ u # w
    BY <1>3, <2>3 DEF OneHolder
  <2> QED
    BY <2>1, <2>2, <2>3
<1> QED
  BY <1>2, <1>3

\* Fewer usable objects, each as it was, on blocks that stay allocated.
LEMMA FewerHolders ==
    ASSUME OneHolder, ~shared,
           \A u \in PVars : Usable(u)' => Usable(u) /\ var'[u] = var[u] /\ var[u].blk \in live'
    PROVE  /\ \A v \in PVars : Usable(v)' => var'[v].blk \in live'
           /\ \A v, u \in PVars : Usable(v)' /\ Usable(u)' /\ v # u => var'[v].blk # var'[u].blk
  BY DEF OneHolder

\* The object that a usable scalar holds, seen by the older functions.
LEMMA UsableFacts ==
    ASSUME TypeOK, OneHolder, ~shared, NEW v \in PVars, Holds(v), Derived(var[v])
    PROVE  /\ var[v] \in Object /\ var[v].blk \in live /\ var[v].blk \in Blocks
           /\ Usable(v)
           /\ OldAddr(var[v]) = Null \/ OldAddr(var[v]) = var[v].blk
<1>1. Usable(v) /\ var[v] \in Object
  BY DEF Usable, Holds, TypeOK
<1>2. var[v].blk \in live
  BY <1>1 DEF OneHolder
<1> QED
  BY <1>1, <1>2 DEF TypeOK, OldAddr

\* Every action of a program that has not shared a pointer keeps one holder
\* for each block and causes no stale use.
LEMMA HolderNext == HolderInv /\ [Next]_vars => HolderInv'
<1> SUFFICES ASSUME HolderInv, [Next]_vars
             PROVE  HolderInv'
  OBVIOUS
<1> USE MemAssumption
<1>0. TypeOK /\ OneHolder /\ NoStaleUse
  BY DEF HolderInv
<1> DEFINE Holders == /\ \A v \in PVars : Usable(v)' => var'[v].blk \in live'
                      /\ \A v, u \in PVars : Usable(v)' /\ Usable(u)' /\ v # u
                                             => var'[v].blk # var'[u].blk
<1>a. ASSUME TypeOK', ~shared' => ~shared /\ Holders /\ fault' \notin {"stale", "double"}
      PROVE  HolderInv'
  BY <1>a DEF HolderInv, OneHolder, NoStaleUse
<1> HIDE DEF Holders
<1>1. CASE UNCHANGED vars
  <2>1. TypeOK'
    BY <1>0, <1>1 DEF TypeOK, vars
  <2> QED
    BY <1>0, <1>1, <2>1 DEF HolderInv, OneHolder, NoStaleUse, vars, Usable, Holds
<1>2. ASSUME NEW v \in PVars, NEW k \in {"malloc", "calloc", "strdup"}, NEW b \in Blocks,
             Allocate(v, k, b)
      PROVE  HolderInv'
  <2> DEFINE o == [kind |-> k, blk |-> b]
  <2>1. o \in Object /\ k \in Kinds
    BY DEF Object, Kinds
  <2>2. /\ ~Holds(v) /\ b \notin live /\ live' = live \cup {b}
        /\ var' = [var EXCEPT ![v] = o] /\ fault = "none"
        /\ UNCHANGED <<fault, shared, leaky>>
    BY <1>2 DEF Allocate, Running
  <2> HIDE DEF o
  <2>3. var' \in [PVars -> Object \cup {Undef}] /\ live' \subseteq Blocks
    BY <1>0, <2>1, <2>2 DEF TypeOK
  <2>4. TypeOK'
    BY <1>0, <2>2, <2>3 DEF TypeOK
  <2>5. ASSUME ~shared PROVE Holders
    <3>1. var'[v] = o /\ \A u \in PVars \ {v} : var'[u] = var[u]
      BY <1>0, <2>2 DEF TypeOK
    <3>2. \A u \in PVars \ {v} : Usable(u)' => Usable(u) /\ var'[u] = var[u]
                                               /\ var[u].blk \in live' /\ var[u].blk # b
      BY <1>0, <2>2, <2>5, <3>1 DEF Usable, Holds, OneHolder
    <3> QED
      BY <1>0, <2>1, <2>2, <2>3, <2>5, <3>1, <3>2, NewHolder DEF o, Holders
  <2> QED
    BY <1>a, <2>2, <2>4, <2>5
<1>3. ASSUME NEW v \in PVars, NEW w \in PVars, NEW b \in Blocks, Realloc(v, w, b)
      PROVE  HolderInv'
  <2> DEFINE p == OldAddr(var[v])
             o == [kind |-> "realloc", blk |-> b]
             x == [kind |-> "misnamed", blk |-> b]
  <2>1. o \in Object /\ x \in Object /\ "realloc" \in Kinds
    BY DEF Object, Kinds
  <2>2. /\ Holds(v) /\ Derived(var[v]) /\ (w = v \/ ~Holds(w))
        /\ b \in (Blocks \ live) \cup ({p} \ {Null}) /\ live' = (live \ {p}) \cup {b}
        /\ var' = [[var EXCEPT ![v] = x] EXCEPT ![w] = o] /\ fault = "none"
        /\ leaky' \in BOOLEAN /\ UNCHANGED <<fault, shared>>
    BY <1>0, <1>3 DEF Realloc, Running, TypeOK
  <2>3. x.kind = "misnamed"
    OBVIOUS
  <2> HIDE DEF o, x, p
  <2>4. /\ var' \in [PVars -> Object \cup {Undef}] /\ live' \subseteq Blocks
        /\ var'[w] = o /\ (w # v => var'[v] = x)
        /\ \A u \in PVars \ {v, w} : var'[u] = var[u]
    BY <1>0, <2>1, <2>2 DEF TypeOK
  <2>5. TypeOK'
    BY <1>0, <2>2, <2>4 DEF TypeOK
  <2>6. ASSUME ~shared PROVE Holders
    <3>1. var[v].blk \in live /\ Usable(v) /\ (p = Null \/ p = var[v].blk)
      BY <1>0, <2>2, <2>6, UsableFacts DEF p
    <3>2. ASSUME NEW u \in PVars \ {w}, Usable(u)'
          PROVE  Usable(u) /\ var'[u] = var[u] /\ var[u].blk \in live' /\ var[u].blk # b
      <4>1. u # v
        BY <2>3, <2>4, <3>2 DEF Usable, Derived
      <4>2. var'[u] = var[u] /\ Usable(u)
        BY <2>4, <3>2, <4>1 DEF Usable, Holds
      <4>3. var[u].blk \in live /\ var[u].blk # var[v].blk
        BY <1>0, <2>6, <3>1, <4>1, <4>2 DEF OneHolder
      <4>4. var[u].blk # p
        BY <1>0, <3>1, <4>3 DEF TypeOK
      <4> QED
        BY <2>2, <4>2, <4>3, <4>4
    <3> QED
      BY <1>0, <2>1, <2>2, <2>4, <2>6, <3>2, NewHolder DEF o, Holders
  <2> QED
    BY <1>a, <2>2, <2>5, <2>6
<1>4. ASSUME NEW v \in PVars, ReallocZero(v)
      PROVE  HolderInv'
  <2>1. /\ Holds(v) /\ Derived(var[v]) /\ live' = live \ {OldAddr(var[v])}
        /\ var' = [var EXCEPT ![v] = Undef] /\ fault = "none"
        /\ leaky' \in BOOLEAN /\ UNCHANGED <<fault, shared>>
    BY <1>0, <1>4 DEF ReallocZero, Running, TypeOK
  <2>2. TypeOK'
    BY <1>0, <2>1 DEF TypeOK
  <2>3. ASSUME ~shared PROVE Holders
    <3>1. Usable(v) /\ var[v].blk \in live
          /\ (OldAddr(var[v]) = Null \/ OldAddr(var[v]) = var[v].blk)
      BY <1>0, <2>1, <2>3, UsableFacts
    <3>2. var'[v] = Undef /\ \A u \in PVars \ {v} : var'[u] = var[u]
      BY <1>0, <2>1 DEF TypeOK
    <3>3. ASSUME NEW u \in PVars, Usable(u)'
          PROVE  Usable(u) /\ var'[u] = var[u] /\ var[u].blk \in live'
      <4>1. u # v /\ var'[u] = var[u] /\ Usable(u)
        BY <3>2, <3>3 DEF Usable, Holds
      <4>2. var[u].blk \in live /\ var[u].blk # var[v].blk /\ live \subseteq Blocks
        BY <1>0, <2>3, <3>1, <4>1 DEF OneHolder, TypeOK
      <4> QED
        BY <2>1, <3>1, <4>1, <4>2
    <3> QED
      BY <1>0, <2>3, <3>3, FewerHolders DEF Holders
  <2> QED
    BY <1>a, <2>1, <2>2, <2>3
<1>5. ASSUME NEW v \in PVars, ReallocStale(v)
      PROVE  HolderInv'
  <2>1. /\ Holds(v) /\ Derived(var[v]) /\ OldAddr(var[v]) \notin live \cup {Null}
        /\ fault' = "double" /\ UNCHANGED <<live, var, shared, leaky>>
    BY <1>5 DEF ReallocStale
  <2>2. TypeOK'
    BY <1>0, <2>1 DEF TypeOK
  <2>3. shared
    BY <1>0, <2>1, UsableFacts
  <2> QED
    BY <1>a, <2>1, <2>2, <2>3
<1>6. ASSUME NEW v \in PVars, Free(v)
      PROVE  HolderInv'
  <2>1. /\ Holds(v) /\ Derived(var[v]) /\ live' = live \ {var[v].blk}
        /\ var' = [var EXCEPT ![v] = Undef]
        /\ fault' = IF var[v].blk \in live THEN "none" ELSE "double"
        /\ UNCHANGED <<shared, leaky>>
    BY <1>6 DEF Free, ArrayBased, Derived
  <2>2. TypeOK'
    BY <1>0, <2>1 DEF TypeOK
  <2>3. ASSUME ~shared PROVE Holders /\ fault' = "none"
    <3>1. Usable(v) /\ var[v].blk \in live
      BY <1>0, <2>1, <2>3, UsableFacts
    <3>2. var'[v] = Undef /\ \A u \in PVars \ {v} : var'[u] = var[u]
      BY <1>0, <2>1 DEF TypeOK
    <3>3. ASSUME NEW u \in PVars, Usable(u)'
          PROVE  Usable(u) /\ var'[u] = var[u] /\ var[u].blk \in live'
      <4>1. u # v /\ var'[u] = var[u] /\ Usable(u)
        BY <3>2, <3>3 DEF Usable, Holds
      <4>2. var[u].blk \in live /\ var[u].blk # var[v].blk
        BY <1>0, <2>3, <3>1, <4>1 DEF OneHolder
      <4> QED
        BY <2>1, <4>1, <4>2
    <3> QED
      BY <1>0, <2>1, <2>3, <3>1, <3>3, FewerHolders DEF Holders
  <2> QED
    BY <1>a, <2>1, <2>2, <2>3
<1>7. ASSUME NEW v \in PVars, FreeCroak(v)
      PROVE  HolderInv'
  BY <1>1, <1>7 DEF FreeCroak
<1>8. ASSUME NEW v \in PVars, Access(v) \/ ReadArray(v)
      PROVE  HolderInv'
  <2>1. /\ Holds(v) /\ Derived(var[v]) /\ UNCHANGED <<live, var, shared, leaky>>
        /\ fault' \in {"none", "null", "stale"}
        /\ fault' = "stale" => /\ OldAddr(var[v]) # Null \/ ArrayBased(var[v])
                               /\ OldAddr(var[v]) \notin live
                               /\ ArrayBased(var[v]) => var[v].blk \notin live
    BY <1>0, <1>8 DEF Access, ReadArray, ArrayBased, Derived, OldAddr, TypeOK
  <2>2. TypeOK'
    BY <1>0, <2>1 DEF TypeOK
  <2>3. ASSUME ~shared PROVE Holders /\ fault' \notin {"stale", "double"}
    <3>1. var[v].blk \in live /\ var[v].blk \in Blocks
          /\ (OldAddr(var[v]) = Null \/ OldAddr(var[v]) = var[v].blk)
      BY <1>0, <2>1, <2>3, UsableFacts
    <3>2. fault' \notin {"stale", "double"}
      BY <2>1, <3>1
    <3> QED
      BY <1>0, <2>1, <2>3, <3>2 DEF Holders, OneHolder, Usable, Holds
  <2> QED
    BY <1>a, <2>1, <2>2, <2>3
<1>9. ASSUME NEW v \in PVars, NEW w \in PVars, Returned(v, w) \/ Copy(v, w)
      PROVE  HolderInv'
  <2>1. /\ shared' = TRUE /\ Holds(v) /\ UNCHANGED <<live, fault, leaky>>
        /\ \E o \in Object : var' = [var EXCEPT ![w] = o]
    <3>1. CASE Returned(v, w)
      <4>1. [kind |-> "alias", blk |-> OldAddr(var[v])] \in Object
        BY <1>0, <3>1 DEF Returned, TypeOK, Holds, OldAddr, Object, Kinds
      <4> QED
        BY <3>1, <4>1 DEF Returned
    <3>2. CASE Copy(v, w)
      BY <1>0, <3>2 DEF Copy, TypeOK, Holds
    <3> QED
      BY <1>9, <3>1, <3>2
  <2>2. TypeOK'
    BY <1>0, <2>1 DEF TypeOK
  <2> QED
    BY <1>a, <2>1, <2>2
<1>10. ASSUME NEW v \in PVars, Drop(v)
       PROVE  HolderInv'
  <2>1. /\ var' = [var EXCEPT ![v] = Undef] /\ fault = "none" /\ leaky' = TRUE
        /\ UNCHANGED <<live, fault, shared>>
    BY <1>10 DEF Drop, Running
  <2>2. TypeOK'
    BY <1>0, <2>1 DEF TypeOK
  <2>3. ASSUME ~shared PROVE Holders
    <3>1. var'[v] = Undef /\ \A u \in PVars \ {v} : var'[u] = var[u]
      BY <1>0, <2>1 DEF TypeOK
    <3>2. \A u \in PVars : Usable(u)' => Usable(u) /\ var'[u] = var[u] /\ var[u].blk \in live'
      BY <1>0, <2>1, <2>3, <3>1 DEF Usable, Holds, OneHolder
    <3> QED
      BY <1>0, <2>3, <3>2, FewerHolders DEF Holders
  <2> QED
    BY <1>a, <2>1, <2>2, <2>3
<1>11. ASSUME NEW v \in PVars, PinStore(v)
       PROVE  HolderInv'
  <2>1. TypeOK' /\ shared'
    BY <1>0, <1>11 DEF PinStore, TypeOK
  <2> QED
    BY <1>a, <2>1
<1> QED
  BY <1>1, <1>2, <1>3, <1>4, <1>5, <1>6, <1>7, <1>8, <1>9, <1>10, <1>11 DEF Next

\* The invariant holds throughout every program.
THEOREM HolderInvariant == Spec => []HolderInv
<1>1. Init => HolderInv
  BY DEF Init, HolderInv, TypeOK, OneHolder, NoStaleUse, Usable, Holds
<1> QED
  BY <1>1, HolderNext, PTL DEF Spec

\* The variables keep their types: malloc, realloc and free never hand a scalar
\* anything but undef or an object of the shape that ptr2sv and sv2ptr expect.
THEOREM TypeCorrect == Spec => []TypeOK
<1>1. HolderInv => TypeOK
  BY DEF HolderInv
<1> QED
  BY <1>1, HolderInvariant, PTL

\* A program that never makes two scalars refer to one block has one usable
\* pointer object for each block it points to, all of them to allocated blocks.
THEOREM OneHolderAlways == Spec => []OneHolder
<1>1. HolderInv => OneHolder
  BY DEF HolderInv
<1> QED
  BY <1>1, HolderInvariant, PTL

\* Such a program never frees a block twice and never touches a freed one.
THEOREM NoStaleUseEver == Spec => []NoStaleUse
<1>1. HolderInv => NoStaleUse
  BY DEF HolderInv
<1> QED
  BY <1>1, HolderInvariant, PTL

\* Every block that is allocated after a step is held, if the blocks that were
\* allocated before it are, apart from those whose only scalar the step changed.
LEMMA StillHeld ==
    ASSUME NoOrphan, ~leaky, NEW W \in SUBSET PVars,
           \A u \in PVars \ W : var'[u] = var[u],
           \A b \in live' : \/ \E u \in W : Holds(u)' /\ var'[u].blk = b
                            \/ b \in live /\ \A u \in W : Holds(u) => var[u].blk # b
    PROVE  NoOrphan'
  BY DEF NoOrphan, Holds

\* Every action leaves each allocated block with a scalar that holds it.
LEMMA OrphanNext == TypeOK /\ NoOrphan /\ [Next]_vars => NoOrphan'
<1> SUFFICES ASSUME TypeOK, NoOrphan, [Next]_vars, ~leaky'
             PROVE  NoOrphan'
  BY DEF NoOrphan
<1> USE MemAssumption
<1>1. CASE UNCHANGED <<live, var, leaky>>
  BY <1>1 DEF NoOrphan, Holds
<1>2. ASSUME NEW v \in PVars, NEW k \in {"malloc", "calloc", "strdup"}, NEW b \in Blocks,
             Allocate(v, k, b)
      PROVE  NoOrphan'
  <2> DEFINE o == [kind |-> k, blk |-> b]
  <2>1. o \in Object /\ o.blk = b
    BY DEF Object, Kinds
  <2>2. ~leaky /\ ~Holds(v) /\ live' = live \cup {b} /\ var' = [var EXCEPT ![v] = o]
    BY <1>2 DEF Allocate
  <2> HIDE DEF o
  <2>3. Holds(v)' /\ var'[v].blk = b /\ \A u \in PVars \ {v} : var'[u] = var[u]
    BY <2>1, <2>2 DEF TypeOK, Holds
  <2>4. \A c \in live' : \/ \E u \in {v} : Holds(u)' /\ var'[u].blk = c
                         \/ c \in live /\ \A u \in {v} : Holds(u) => var[u].blk # c
    BY <2>2, <2>3
  <2>5. {v} \in SUBSET PVars
    OBVIOUS
  <2> QED
    BY <2>2, <2>3, <2>4, <2>5, StillHeld
<1>3. ASSUME NEW v \in PVars, NEW w \in PVars, NEW b \in Blocks, Realloc(v, w, b)
      PROVE  NoOrphan'
  <2> DEFINE o == [kind |-> "realloc", blk |-> b]
             x == [kind |-> "misnamed", blk |-> b]
  <2>1. o \in Object /\ o.blk = b
    BY DEF Object, Kinds
  <2>2. /\ ~leaky /\ ~ArrayBased(var[v]) /\ Holds(v) /\ (w = v \/ ~Holds(w))
        /\ live' = (live \ {OldAddr(var[v])}) \cup {b}
        /\ var' = [[var EXCEPT ![v] = x] EXCEPT ![w] = o]
    BY <1>3 DEF Realloc, TypeOK
  <2>3. OldAddr(var[v]) = var[v].blk
    BY <2>2 DEF OldAddr
  <2> HIDE DEF o, x
  <2>4. Holds(w)' /\ var'[w].blk = b /\ \A u \in PVars \ {v, w} : var'[u] = var[u]
    BY <2>1, <2>2 DEF TypeOK, Holds
  <2>5. \A c \in live' : \/ \E u \in {v, w} : Holds(u)' /\ var'[u].blk = c
                         \/ c \in live /\ \A u \in {v, w} : Holds(u) => var[u].blk # c
    BY <2>2, <2>3, <2>4
  <2>6. {v, w} \in SUBSET PVars
    OBVIOUS
  <2> QED
    BY <2>2, <2>4, <2>5, <2>6, StillHeld
<1>4. ASSUME NEW v \in PVars, ReallocZero(v) \/ Free(v)
      PROVE  NoOrphan'
  <2>1. /\ ~leaky /\ Holds(v) /\ live' = live \ {var[v].blk}
        /\ var' = [var EXCEPT ![v] = Undef]
    <3>1. CASE ReallocZero(v)
      BY <3>1 DEF ReallocZero, OldAddr, TypeOK
    <3>2. CASE Free(v)
      BY <3>2 DEF Free
    <3> QED
      BY <1>4, <3>1, <3>2
  <2>2. \A u \in PVars \ {v} : var'[u] = var[u]
    BY <2>1 DEF TypeOK
  <2>3. \A c \in live' : c \in live /\ \A u \in {v} : Holds(u) => var[u].blk # c
    BY <2>1
  <2>4. {v} \in SUBSET PVars
    OBVIOUS
  <2> QED
    BY <2>1, <2>2, <2>3, <2>4, StillHeld
<1>5. ASSUME NEW v \in PVars, NEW w \in PVars, Returned(v, w) \/ Copy(v, w)
      PROVE  NoOrphan'
  <2>1. ~leaky /\ ~Holds(w) /\ live' = live /\ \A u \in PVars \ {w} : var'[u] = var[u]
    BY <1>5 DEF Returned, Copy, TypeOK
  <2>2. \A c \in live' : c \in live /\ \A u \in {w} : Holds(u) => var[u].blk # c
    BY <2>1
  <2>3. {w} \in SUBSET PVars
    OBVIOUS
  <2> QED
    BY <2>1, <2>2, <2>3, StillHeld
<1>6. ASSUME NEW v \in PVars, ReallocStale(v) \/ FreeCroak(v) \/ Access(v) \/ ReadArray(v)
      PROVE  UNCHANGED <<live, var, leaky>>
  BY <1>6 DEF ReallocStale, FreeCroak, Access, ReadArray, vars
<1>7. ASSUME NEW v \in PVars, Drop(v)
      PROVE  FALSE
  BY <1>7 DEF Drop
<1>8. ASSUME NEW v \in PVars, PinStore(v)
      PROVE  NoOrphan'
  BY <1>8 DEF PinStore, NoOrphan, Holds
<1>9. CASE UNCHANGED vars
  BY <1>1, <1>9 DEF vars
<1> QED
  BY <1>1, <1>2, <1>3, <1>4, <1>5, <1>6, <1>7, <1>8, <1>9 DEF Next

\* A program that neither drops a pointer nor gives realloc one that malloc made
\* can always reach every block it has allocated.
THEOREM NoOrphanEver == Spec => []NoOrphan
<1>1. Init => TypeOK /\ NoOrphan
  BY DEF Init, TypeOK, NoOrphan
<1>2. TypeOK /\ NoOrphan /\ TypeOK' /\ [Next]_vars => (TypeOK /\ NoOrphan)'
  BY OrphanNext
<1>3. HolderInv => TypeOK
  BY DEF HolderInv
<1> QED
  BY <1>1, <1>2, <1>3, HolderInvariant, PTL DEF Spec
=============================================================================
