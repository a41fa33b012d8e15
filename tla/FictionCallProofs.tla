------------------------- MODULE FictionCallProofs -------------------------
(***************************************************************************)
(* Proofs about FictionCall, for every set of fictions, every signature,   *)
(* every register and stack size and every nesting of calls.               *)
(***************************************************************************)
EXTENDS FictionCall, NumberTheorems, TLAPS

\* The part of the invariant that speaks of one VM only.
VMok(m, id, f, args, n) ==
    OnlyOf(m, id) /\ LeftToRight(m) /\ Complete(m, f, args, n)

\* The places of t are those of v, with e appended to some of them or to none.
Grown(v, t, e) ==
    /\ t \in VM
    /\ t.ints = v.ints \/ t.ints = Append(v.ints, e)
    /\ t.floats = v.floats \/ t.floats = Append(v.floats, e)
    /\ t.stack = v.stack \/ t.stack = Append(v.stack, e)
    /\ v.lost <= t.lost

\* e is in one of the places of t, or an argument was lost.
Arrived(v, t, e) ==
    \/ t.lost > 0
    \/ t.ints = Append(v.ints, e)
    \/ t.floats = Append(v.floats, e)
    \/ t.stack = Append(v.stack, e)

\* Appending the entry of position n + 1 to one of the places keeps them sorted
\* and owned by one activation (dcVecAppend, and the register arrays).
LEMMA AppendEntry ==
    ASSUME NEW q \in Seq(Entry), NEW id \in Nat, NEW n \in Nat,
           \A i \in 1..Len(q) : q[i].call = id /\ q[i].pos \in 1..n,
           \A i, j \in 1..Len(q) : i < j => q[i].pos < q[j].pos,
           NEW e \in Entry, e.call = id, e.pos = n + 1
    PROVE  LET r == Append(q, e) IN
           /\ r \in Seq(Entry)
           /\ \A i \in 1..Len(r) : r[i].call = id
           /\ \A i, j \in 1..Len(r) : i < j => r[i].pos < r[j].pos
           /\ \A i \in 1..Len(q) : r[i] = q[i]
           /\ Len(r) = Len(q) + 1
           /\ r[Len(r)] = e
           /\ \A i \in 1..Len(r) : i \in 1..Len(q) \/ i = Len(r)
<1> DEFINE r == Append(q, e)
<1>1. r \in Seq(Entry) /\ Len(r) = Len(q) + 1 /\ r[Len(r)] = e
  OBVIOUS
<1>2. \A i \in 1..Len(q) : r[i] = q[i]
  OBVIOUS
<1>3. \A i \in 1..Len(r) : i \in 1..Len(q) \/ i = Len(r)
  BY <1>1
<1>4. \A i \in 1..Len(r) : r[i].call = id
  BY <1>1, <1>2, <1>3
<1>5. \A i, j \in 1..Len(r) : i < j => r[i].pos < r[j].pos
  <2> SUFFICES ASSUME NEW i \in 1..Len(r), NEW j \in 1..Len(r), i < j
               PROVE  r[i].pos < r[j].pos
    OBVIOUS
  <2>1. i \in 1..Len(q) /\ r[i] = q[i]
    BY <1>1, <1>2
  <2>2. CASE j \in 1..Len(q)
    BY <2>1, <2>2, <1>2
  <2>3. CASE j = Len(r)
    BY <2>1, <2>3, <1>1
  <2> QED
    BY <2>2, <2>3, <1>3
<1> QED
  BY <1>1, <1>2, <1>3, <1>4, <1>5

\* The components of a VM have the types that SMT needs named.
LEMMA VMTypes ==
    ASSUME NEW v \in VM, NEW e \in Entry
    PROVE  /\ v.ints \in Seq(Entry) /\ Append(v.ints, e) \in Seq(Entry)
           /\ v.floats \in Seq(Entry) /\ Append(v.floats, e) \in Seq(Entry)
           /\ v.stack \in Seq(Entry) /\ Append(v.stack, e) \in Seq(Entry)
           /\ v.size \in Nat /\ v.lost \in Nat /\ v.hidden \in 0..1
  BY DEF VM

\* dcVecAppend appends to the stack or loses the argument.
LEMMA VecAppendPlaces ==
    ASSUME NEW v \in VM, NEW e \in Entry, NEW w \in Nat
    PROVE  Grown(v, dcVecAppend(v, e, w), e) /\ Arrived(v, dcVecAppend(v, e, w), e)
<1> DEFINE t == dcVecAppend(v, e, w)
           q == Append(v.stack, e)
           k == v.size + w
           l == v.lost + 1
<1>1. CASE k <= StackCap
  <2>1. t = [v EXCEPT !.stack = q, !.size = k]
    BY <1>1 DEF dcVecAppend
  <2>2. k \in Nat /\ q \in Seq(Entry) /\ v.lost \in Nat
    BY VMTypes
  <2> HIDE DEF t, q, k
  <2>3. t \in VM
    BY <2>1, <2>2 DEF VM
  <2>4. t.ints = v.ints /\ t.floats = v.floats /\ t.stack = q /\ t.lost = v.lost
    BY <2>1, <2>2 DEF VM
  <2> QED
    BY <2>2, <2>3, <2>4 DEF Grown, Arrived, q, t
<1>2. CASE ~(k <= StackCap)
  <2>1. t = [v EXCEPT !.lost = l]
    BY <1>2 DEF dcVecAppend
  <2>2. l \in Nat /\ l > 0 /\ l >= v.lost
    BY VMTypes
  <2> HIDE DEF t, q, k, l
  <2>3. t \in VM
    BY <2>1, <2>2 DEF VM
  <2>4. t.ints = v.ints /\ t.floats = v.floats /\ t.stack = v.stack /\ t.lost = l
    BY <2>1, <2>2 DEF VM
  <2> QED
    BY <2>2, <2>3, <2>4 DEF Grown, Arrived, t
<1> QED
  BY <1>1, <1>2

\* An integer argument goes to a register or to the stack.
LEMMA ArgIntPlaces ==
    ASSUME NEW v \in VM, NEW e \in Entry
    PROVE  Grown(v, dcArgInt(v, e), e) /\ Arrived(v, dcArgInt(v, e), e)
<1> DEFINE t == dcArgInt(v, e)
           q == Append(v.ints, e)
<1>1. CASE Len(v.ints) < IntRoom(v)
  <2>1. t = [v EXCEPT !.ints = q]
    BY <1>1 DEF dcArgInt
  <2>2. q \in Seq(Entry) /\ v.lost \in Nat
    BY VMTypes
  <2> HIDE DEF t, q
  <2>3. t \in VM
    BY <2>1, <2>2 DEF VM
  <2>4. t.ints = q /\ t.floats = v.floats /\ t.stack = v.stack /\ t.lost = v.lost
    BY <2>1, <2>2 DEF VM
  <2> QED
    BY <2>2, <2>3, <2>4 DEF Grown, Arrived, q, t
<1>2. CASE ~(Len(v.ints) < IntRoom(v))
  <2>1. t = dcVecAppend(v, e, 1)
    BY <1>2 DEF dcArgInt
  <2> QED
    BY <2>1, VecAppendPlaces
<1> QED
  BY <1>1, <1>2

\* So does a floating point argument.
LEMMA ArgDoublePlaces ==
    ASSUME NEW v \in VM, NEW e \in Entry
    PROVE  Grown(v, dcArgDouble(v, e), e) /\ Arrived(v, dcArgDouble(v, e), e)
<1> DEFINE t == dcArgDouble(v, e)
           q == Append(v.floats, e)
<1>1. CASE Len(v.floats) < NFloatRegs
  <2>1. t = [v EXCEPT !.floats = q]
    BY <1>1 DEF dcArgDouble
  <2>2. q \in Seq(Entry) /\ v.lost \in Nat
    BY VMTypes
  <2> HIDE DEF t, q
  <2>3. t \in VM
    BY <2>1, <2>2 DEF VM
  <2>4. t.floats = q /\ t.ints = v.ints /\ t.stack = v.stack /\ t.lost = v.lost
    BY <2>1, <2>2 DEF VM
  <2> QED
    BY <2>2, <2>3, <2>4 DEF Grown, Arrived, q, t
<1>2. CASE ~(Len(v.floats) < NFloatRegs)
  <2>1. t = dcVecAppend(v, e, 1)
    BY <1>2 DEF dcArgDouble
  <2> QED
    BY <2>1, VecAppendPlaces
<1> QED
  BY <1>1, <1>2

\* A struct goes to the stack, or into one register of each kind: with the
\* hidden return pointer counted or not, the integer half still finds one, so
\* that no place receives the struct twice (dc_callvm_argAggr_x64).
LEMMA ArgAggrPlaces ==
    ASSUME NEW v \in VM, NEW e \in Entry, NEW ty \in {"pair", "mem"}
    PROVE  Grown(v, dcArgAggr(v, e, ty), e) /\ Arrived(v, dcArgAggr(v, e, ty), e)
<1> USE VMAssumption
<1>1. CASE ty = "mem"
  BY <1>1, VecAppendPlaces DEF dcArgAggr
<1>2. CASE ty = "pair" /\ (RegCountInt(v) + 1 > NIntRegs \/ Len(v.floats) + 1 > NFloatRegs)
  BY <1>2, VecAppendPlaces DEF dcArgAggr
<1>3. CASE ty = "pair" /\ ~(RegCountInt(v) + 1 > NIntRegs \/ Len(v.floats) + 1 > NFloatRegs)
  <2> DEFINE q == Append(v.ints, e)
             p == Append(v.floats, e)
             t == dcArgAggr(v, e, ty)
             u == dcArgInt(v, e)
  <2>1. t = dcArgDouble(u, e)
    BY <1>3 DEF dcArgAggr
  <2>2. /\ Len(v.ints) \in Nat /\ Len(v.floats) \in Nat
        /\ Len(v.ints) = 0 => v.ints = <<>>
        /\ v.hidden \in 0..1 /\ v.lost \in Nat
        /\ q \in Seq(Entry) /\ p \in Seq(Entry)
    BY VMTypes
  <2>3. Len(v.ints) < IntRoom(v)
    BY <1>3, <2>2 DEF RegCountInt, IntRoom
  <2>4. u = [v EXCEPT !.ints = q]
    BY <2>3 DEF dcArgInt
  <2> HIDE DEF q, u
  <2>5. u \in VM
    BY <2>2, <2>4 DEF VM
  <2>6. u.ints = q /\ u.floats = v.floats /\ u.stack = v.stack /\ u.lost = v.lost
    BY <2>2, <2>4 DEF VM
  <2>7. Len(u.floats) < NFloatRegs
    BY <1>3, <2>2, <2>6
  <2>8. t = [u EXCEPT !.floats = p]
    BY <2>1, <2>6, <2>7 DEF dcArgDouble
  <2> HIDE DEF t, p
  <2>9. t \in VM
    BY <2>2, <2>5, <2>8 DEF VM
  <2>10. t.ints = u.ints /\ t.floats = p /\ t.stack = u.stack /\ t.lost = u.lost
    BY <2>2, <2>5, <2>8 DEF VM
  <2> QED
    BY <2>2, <2>6, <2>9, <2>10 DEF Grown, Arrived, q, p, t
<1> QED
  BY <1>1, <1>2, <1>3

\* Binding an argument of a type that is not skipped.
LEMMA BindPlaces ==
    ASSUME NEW m \in VM, NEW e \in Entry,
           NEW ty \in ArgTypes, ty # "void", ty # "other"
    PROVE  Grown(m, Bind(m, e, ty), e) /\ Arrived(m, Bind(m, e, ty), e)
<1>1. CASE ty \in {"int", "ptr"}
  BY <1>1, ArgIntPlaces DEF Bind
<1>2. CASE ty = "float"
  BY <1>2, ArgDoublePlaces DEF Bind
<1>3. CASE ty \in {"pair", "mem"}
  BY <1>3, ArgAggrPlaces DEF Bind
<1> QED
  BY <1>1, <1>2, <1>3 DEF ArgTypes

\* One turn of Fiction_trigger's loop extends what the VM holds from the first
\* n arguments to the first n + 1.
LEMMA BindKeeps ==
    ASSUME NEW m \in VM, NEW id \in Nat, NEW f, NEW args, NEW n \in Nat,
           VMok(m, id, f, args, n),
           TypeAt(f, args, n + 1) \in ArgTypes,
           TypeAt(f, args, n + 1) # "other"
    PROVE  /\ Bind(m, [call |-> id, pos |-> n + 1], TypeAt(f, args, n + 1)) \in VM
           /\ VMok(Bind(m, [call |-> id, pos |-> n + 1], TypeAt(f, args, n + 1)),
                   id, f, args, n + 1)
<1> DEFINE ty == TypeAt(f, args, n + 1)
           e == [call |-> id, pos |-> n + 1]
           r == Bind(m, e, ty)
<1>1. CASE ty = "void"
  <2>1. r = m
    BY <1>1 DEF Bind
  <2>2. Complete(m, f, args, n + 1)
    BY <1>1 DEF VMok, Complete
  <2> QED
    BY <2>1, <2>2 DEF VMok
<1>2. CASE ty # "void"
  <2>1. e \in Entry /\ e.call = id /\ e.pos = n + 1
    BY DEF Entry
  <2>2. Grown(m, r, e) /\ Arrived(m, r, e)
    BY <1>2, <2>1, BindPlaces
  <2>3. ASSUME NEW q \in Places(m)
        PROVE  /\ q \in Seq(Entry)
               /\ \A i \in 1..Len(q) : q[i].call = id /\ q[i].pos \in 1..n
               /\ \A i \in 1..Len(q) : TypeAt(f, args, q[i].pos) # "void"
               /\ \A i, j \in 1..Len(q) : i < j => q[i].pos < q[j].pos
    <3>1. q \in Seq(Entry)
      BY <2>3 DEF Places, VM
    <3> QED
      BY <3>1, <2>3 DEF VMok, OnlyOf, LeftToRight, Complete
  <2> DEFINE Ext(q, t) == t = q \/ t = Append(q, e)
  <2>4. ASSUME NEW q \in Places(m), NEW t, Ext(q, t)
        PROVE  /\ \A i \in 1..Len(t) : t[i].call = id
               /\ \A i, j \in 1..Len(t) : i < j => t[i].pos < t[j].pos
               /\ \A i \in 1..Len(t) : t[i].pos \in 1..(n+1) /\ TypeAt(f, args, t[i].pos) # "void"
               /\ \A i \in 1..Len(q) : i \in 1..Len(t) /\ t[i] = q[i]
               /\ t = Append(q, e) => \E i \in 1..Len(t) : t[i].pos = n + 1
    <3>1. CASE t = q /\ t # Append(q, e)
      <4>1. \A i \in 1..Len(q) : q[i].pos \in 1..(n + 1)
        BY <2>3, <2>4
      <4> QED
        BY <3>1, <2>3, <2>4, <4>1
    <3>2. CASE t = Append(q, e)
      <4>1. /\ t \in Seq(Entry)
            /\ \A i \in 1..Len(t) : t[i].call = id
            /\ \A i, j \in 1..Len(t) : i < j => t[i].pos < t[j].pos
            /\ \A i \in 1..Len(q) : t[i] = q[i]
            /\ Len(t) = Len(q) + 1
            /\ t[Len(t)] = e
            /\ \A i \in 1..Len(t) : i \in 1..Len(q) \/ i = Len(t)
        BY <3>2, <2>3, <2>4, <2>1, AppendEntry
      <4>2. Len(q) \in Nat /\ Len(t) \in 1..Len(t)
        BY <4>1, <2>3, <2>4
      <4>3. \A i \in 1..Len(t) : t[i].pos \in 1..(n+1) /\ TypeAt(f, args, t[i].pos) # "void"
        BY <4>1, <4>2, <2>1, <2>3, <2>4, <1>2
      <4> QED
        BY <4>1, <4>2, <4>3, <2>1
    <3> QED
      BY <3>1, <3>2, <2>4
  <2>5. Ext(m.ints, r.ints) /\ Ext(m.floats, r.floats) /\ Ext(m.stack, r.stack)
    BY <2>2 DEF Grown
  <2>6. \A t \in Places(r) : \E q \in Places(m) : Ext(q, t)
    BY <2>5 DEF Places
  <2>7. \A q \in Places(m) : \E t \in Places(r) : Ext(q, t)
    BY <2>5 DEF Places
  <2>8. OnlyOf(r, id) /\ LeftToRight(r)
    <3>1. ASSUME NEW t \in Places(r)
          PROVE  /\ \A i \in 1..Len(t) : t[i].call = id
                 /\ \A i, j \in 1..Len(t) : i < j => t[i].pos < t[j].pos
      <4>1. PICK q \in Places(m) : Ext(q, t)
        BY <2>6, <3>1
      <4> QED
        BY <4>1, <2>4
    <3> QED
      BY <3>1 DEF OnlyOf, LeftToRight
  <2>9. \A t \in Places(r) : \A i \in 1..Len(t) :
           t[i].pos \in 1..(n+1) /\ TypeAt(f, args, t[i].pos) # "void"
    BY <2>4, <2>6
  <2>10. ASSUME NEW p \in 1..(n+1), TypeAt(f, args, p) # "void", r.lost = 0
         PROVE  IsBound(r, p)
    <3>1. CASE p = n + 1
      <4>1. \E q \in Places(m) : \E t \in Places(r) : t = Append(q, e)
        <5>1. \/ r.ints = Append(m.ints, e)
              \/ r.floats = Append(m.floats, e)
              \/ r.stack = Append(m.stack, e)
          BY <2>2, <2>10 DEF Arrived
        <5> HIDE DEF r
        <5> QED
          BY <5>1 DEF Places
      <4> QED
        BY <4>1, <2>4, <3>1 DEF IsBound
    <3>2. CASE p \in 1..n
      <4>1. IsBound(m, p)
        <5>1. m.lost \in Nat /\ r.lost \in Nat /\ m.lost <= r.lost
          BY <2>2, <2>1, VMTypes DEF Grown
        <5> QED
          BY <3>2, <5>1, <2>10 DEF VMok, Complete
      <4>2. PICK q \in Places(m) : \E i \in 1..Len(q) : q[i].pos = p
        BY <4>1 DEF IsBound
      <4>3. PICK t \in Places(r) : Ext(q, t)
        BY <2>7
      <4> QED
        BY <4>2, <4>3, <2>4 DEF IsBound
    <3> QED
      BY <3>1, <3>2
  <2>11. r \in VM
    BY <2>2 DEF Grown
  <2> HIDE DEF r, e
  <2>12. Complete(r, f, args, n + 1)
    BY <2>9, <2>10 DEF Complete
  <2> QED
    BY <2>8, <2>11, <2>12 DEF VMok, r, e
<1> QED
  BY <1>1, <1>2

-----------------------------------------------------------------------------
\* The type that decides how an argument is bound is one of the argument types.
LEMMA TypeAtType ==
    ASSUME NEW f \in Fics, NEW args \in Seq(Actuals), NEW i \in 1..Len(args),
           ArityOK(f, args)
    PROVE  TypeAt(f, args, i) \in ArgTypes
<1>1. CASE Sig[f] = NoSig
  BY <1>1 DEF TypeAt, ArgTypes
<1>2. CASE Sig[f] # NoSig
  <2>1. Sig[f] \in Seq(ArgTypes) /\ Len(Sig[f]) = Len(args)
    BY <1>2, FictionAssumption DEF ArityOK
  <2> QED
    BY <1>2, <2>1 DEF TypeAt
<1> QED
  BY <1>1, <1>2

\* The facts about the running activation that its steps need.
LEMMA TopFacts ==
    ASSUME CallInv, depth > 0
    PROVE  /\ depth \in 1..MaxDepth /\ Top = frame[depth] /\ Top \in Frame
           /\ Top.fic \in Fics /\ Top.id \in Nat /\ Top.args \in Seq(Actuals)
           /\ Top.pos \in 1..(Len(Top.args) + 1)
           /\ ArityOK(Top.fic, Top.args)
           /\ Top.pc = "cb" => Top.cb \in cbs
           /\ Top.pc = "magic" =>
                 /\ Top.pos <= Len(Top.args)
                 /\ TypeAt(Top.fic, Top.args, Top.pos) # "other"
<1>1. depth \in 1..MaxDepth /\ Top = frame[depth] /\ Top \in Frame
  BY FictionAssumption DEF CallInv, TypeOK, Top
<1>2. Top.id \in Nat /\ Top.args \in Seq(Actuals)
  BY <1>1 DEF Frame
<1> QED
  BY <1>1, <1>2 DEF CallInv, StackShape

\* croak and die leave an activation that waits for Perl code on top.
LEMMA UnwindKeeps ==
    ASSUME CallInv, NEW d \in 0..MaxDepth, d < depth, UnwindTo(d),
           UNCHANGED <<vm, calls, cbs, slot>>
    PROVE  CallInv'
<1> USE FictionAssumption
<1>1. depth' = d /\ PerlAt(d)
      /\ \A k \in 1..MaxDepth : frame'[k] = IF k > d THEN Idle ELSE frame[k]
  BY DEF UnwindTo
<1>2. TypeOK'
  <2>1. Idle \in Frame
    BY DEF Idle, Frame, Actuals
  <2>2. frame' \in [1..MaxDepth -> Frame]
    BY <2>1 DEF CallInv, TypeOK, UnwindTo
  <2>3. temps' \in [0..MaxDepth -> Seq(Temp)]
    BY DEF CallInv, TypeOK, UnwindTo
  <2> QED
    BY <1>1, <2>2, <2>3 DEF CallInv, TypeOK
<1>3. depth \in 0..MaxDepth /\ cbs' = cbs
  BY DEF CallInv, TypeOK
<1>4. StackShape'
  <2> SUFFICES ASSUME NEW k \in 1..MaxDepth
               PROVE  StackShape!(k)'
    BY DEF StackShape
  <2>1. StackShape!(k)
    BY DEF CallInv, StackShape
  <2>2. CASE k > d
    BY <1>1, <2>2
  <2>3. CASE k <= d
    BY <1>1, <1>3, <2>1, <2>3
  <2> QED
    BY <2>2, <2>3
<1>5. BoundSoFar'
  <2>1. CASE d = 0
    BY <1>1, <2>1 DEF BoundSoFar
  <2>2. CASE d > 0
    <3>1. d \in 1..MaxDepth /\ Top' = frame[d]
      BY <1>1, <2>2 DEF Top
    <3>2. StackShape!(d)
      BY <3>1 DEF CallInv, StackShape
    <3>3. Top'.pc = "cb" \/ (Top'.pc = "magic" /\ Top'.disturbed)
      BY <1>1, <1>3, <2>2, <3>1, <3>2 DEF PerlAt
    <3> QED
      BY <3>3 DEF BoundSoFar
  <2> QED
    BY <2>1, <2>2
<1> QED
  BY <1>2, <1>4, <1>5 DEF CallInv

\* A step of the running activation that keeps its fiction and its arguments.
LEMMA TopStepShape ==
    ASSUME CallInv, depth > 0, NEW fr \in Frame, SetTop(fr), depth' = depth,
           cbs \subseteq cbs',
           fr.fic = Top.fic, fr.args = Top.args, fr.pc # "idle",
           fr.pos \in 1..(Len(fr.args) + 1),
           fr.pc = "cb" => fr.cb \in cbs',
           fr.pc = "magic" => /\ fr.pos <= Len(fr.args)
                              /\ TypeAt(fr.fic, fr.args, fr.pos) # "other"
    PROVE  /\ frame' \in [1..MaxDepth -> Frame]
           /\ StackShape'
           /\ Top' = fr
<1>1. depth \in 1..MaxDepth /\ frame \in [1..MaxDepth -> Frame]
  BY FictionAssumption DEF CallInv, TypeOK
<1>2. /\ frame' \in [1..MaxDepth -> Frame]
      /\ frame'[depth] = fr
      /\ \A k \in 1..MaxDepth : k # depth => frame'[k] = frame[k]
  BY <1>1 DEF SetTop
<1>3. StackShape'
  <2> SUFFICES ASSUME NEW k \in 1..MaxDepth
               PROVE  StackShape!(k)'
    BY DEF StackShape
  <2>1. StackShape!(k)
    BY DEF CallInv, StackShape
  <2>2. CASE k = depth
    BY <1>1, <1>2, <2>2, TopFacts
  <2>3. CASE k # depth
    BY <1>2, <2>1, <2>3
  <2> QED
    BY <2>2, <2>3
<1> QED
  BY <1>2, <1>3 DEF Top

\* One turn of the loop, whether the argument was tied or not: Bind and the
\* next position.
LEMMA BindStep ==
    ASSUME CallInv, depth > 0, Top.pc \in {"bind", "magic"},
           Top.pos <= Len(Top.args), TopType # "other",
           vm' = Bind(vm, TopEntry, TopType), cbs' = Registered,
           SetTop([Top EXCEPT !.pc = "bind", !.pos = @ + 1]),
           temps' \in [0..MaxDepth -> Seq(Temp)],
           UNCHANGED <<depth, calls, slot>>
    PROVE  CallInv'
<1> DEFINE fr == [Top EXCEPT !.pc = "bind", !.pos = @ + 1]
           n == Top.pos - 1
<1>1. /\ Top \in Frame /\ Top.fic \in Fics /\ Top.id \in Nat
      /\ Top.args \in Seq(Actuals) /\ Top.pos \in 1..(Len(Top.args) + 1)
      /\ ArityOK(Top.fic, Top.args) /\ depth \in 1..MaxDepth
  BY TopFacts
<1>2. fr \in Frame /\ fr.fic = Top.fic /\ fr.args = Top.args /\ fr.pc = "bind"
      /\ fr.pos = Top.pos + 1 /\ fr.id = Top.id /\ fr.disturbed = Top.disturbed
  <2>1. Top.pos + 1 \in Nat
    BY <1>1
  <2> QED
    BY <1>1, <2>1 DEF Frame
<1>3. cbs \subseteq cbs' /\ cbs' \subseteq Fics
  BY <1>1 DEF Registered, CallInv, TypeOK
<1> HIDE DEF fr
<1>4. /\ frame' \in [1..MaxDepth -> Frame]
      /\ StackShape'
      /\ Top' = fr
  <2>1. SetTop(fr) /\ depth' = depth
    BY DEF fr
  <2>2. fr.pos \in 1..(Len(fr.args) + 1)
    BY <1>1, <1>2
  <2> QED
    BY <1>2, <1>3, <2>1, <2>2, TopStepShape
<1>5. /\ n \in Nat /\ n + 1 = Top.pos /\ vm \in VM
      /\ TopType = TypeAt(Top.fic, Top.args, n + 1)
      /\ TopEntry = [call |-> Top.id, pos |-> n + 1]
      /\ TopType \in ArgTypes
  BY <1>1, TypeAtType DEF TopType, TopEntry, CallInv, TypeOK
<1>6. vm' \in VM
  <2>1. CASE TopType = "void"
    BY <2>1, <1>5 DEF Bind
  <2>2. CASE TopType # "void"
    <3>1. TopEntry \in Entry
      BY <1>1, <1>5 DEF Entry
    <3> QED
      BY <2>2, <3>1, <1>5, BindPlaces DEF Grown
  <2> QED
    BY <2>1, <2>2
<1>7. BoundSoFar'
  <2> SUFFICES ASSUME ~fr.disturbed
               PROVE  VMok(vm', fr.id, fr.fic, fr.args, fr.pos - 1)
    BY <1>4 DEF BoundSoFar, VMok
  <2>1. VMok(vm, Top.id, Top.fic, Top.args, n)
    BY <1>2 DEF CallInv, BoundSoFar, VMok
  <2> HIDE DEF n
  <2>2. VMok(vm', Top.id, Top.fic, Top.args, n + 1)
    BY <2>1, <1>1, <1>5, BindKeeps
  <2> QED
    BY <2>2, <1>1, <1>2, <1>5
<1> QED
  BY <1>1, <1>3, <1>4, <1>6, <1>7 DEF CallInv, TypeOK

\* A step of the running activation that leaves the loop over its arguments.
LEMMA LeaveStep ==
    ASSUME CallInv, depth > 0, NEW fr \in Frame, SetTop(fr),
           fr.fic = Top.fic, fr.args = Top.args, fr.pos = Top.pos,
           fr.pc \in {"native", "cb"}, fr.pc = "cb" => fr.cb \in cbs,
           temps' \in [0..MaxDepth -> Seq(Temp)],
           UNCHANGED <<vm, depth, calls, cbs, slot>>
    PROVE  CallInv'
<1>1. frame' \in [1..MaxDepth -> Frame] /\ StackShape' /\ Top' = fr
  <2>1. fr.pos \in 1..(Len(fr.args) + 1) /\ fr.pc # "idle" /\ fr.pc # "magic" /\ cbs \subseteq cbs'
    BY TopFacts
  <2> QED
    BY <2>1, TopStepShape
<1>2. BoundSoFar'
  BY <1>1 DEF BoundSoFar
<1> QED
  BY <1>1, <1>2 DEF CallInv, TypeOK

\* Marking an activation changes nothing else of it.
LEMMA DisturbFacts ==
    ASSUME NEW fr \in Frame
    PROVE  /\ Disturb(fr) \in Frame
           /\ Disturb(fr).fic = fr.fic /\ Disturb(fr).args = fr.args
           /\ Disturb(fr).pos = fr.pos /\ Disturb(fr).pc = fr.pc
           /\ Disturb(fr).cb = fr.cb
           /\ fr.pc = "magic" => Disturb(fr).disturbed
<1>1. CASE fr.pc = "magic"
  BY <1>1 DEF Disturb, Frame
<1>2. CASE fr.pc # "magic"
  BY <1>2 DEF Disturb
<1> QED
  BY <1>1, <1>2

\* dcReset and dcBeginCallAggr leave a VM that holds no argument.
LEMMA StartedEmpty ==
    ASSUME NEW f
    PROVE  /\ Started(f) \in VM
           /\ Started(f).ints = <<>> /\ Started(f).floats = <<>> /\ Started(f).stack = <<>>
<1>1. /\ dcReset \in VM /\ dcReset.ints = <<>> /\ dcReset.floats = <<>>
      /\ dcReset.stack = <<>>
  BY DEF dcReset, VM
<1> HIDE DEF dcReset
<1>2. CASE Ret[f] \in {"pair", "mem"}
  <2> DEFINE h == IF Ret[f] = "mem" THEN 1 ELSE 0
             t == [dcReset EXCEPT !.hidden = h]
  <2>1. Started(f) = t /\ h \in 0..1
    BY <1>2 DEF Started, dcBeginCallAggr
  <2> HIDE DEF h
  <2>2. t \in VM /\ t.ints = <<>> /\ t.floats = <<>> /\ t.stack = <<>>
    BY <1>1, <2>1 DEF VM
  <2> QED
    BY <2>1, <2>2
<1>3. CASE ~(Ret[f] \in {"pair", "mem"})
  BY <1>1, <1>3 DEF Started
<1> QED
  BY <1>2, <1>3

\* Perl code starts a fiction: the reset VM holds nothing, and the activation
\* below, if it was reading an argument, is marked.
LEMMA CallKeeps ==
    ASSUME CallInv, NEW f \in Fics, NEW args \in ArgLists, Call(f, args)
    PROVE  CallInv'
<1> USE FictionAssumption
<1>1. /\ depth \in 0..MaxDepth /\ depth + 1 \in 1..MaxDepth /\ depth' = depth + 1
      /\ calls \in Nat /\ calls' = calls + 1 /\ calls' \in 0..MaxCalls
      /\ args \in Seq(Actuals) /\ ArityOK(f, args) /\ PerlAt(depth)
      /\ frame \in [1..MaxDepth -> Frame]
  BY DEF Call, MayCall, InPerl, CallInv, TypeOK
<1> DEFINE new == [fic |-> f, id |-> calls + 1, args |-> args, pos |-> 1,
                   pc |-> "bind", cb |-> NoFic, disturbed |-> FALSE]
           old(k) == Disturb(frame[k])
<1>2. \A k \in 1..MaxDepth : frame'[k] = IF k = depth + 1 THEN new
                                         ELSE IF k = depth THEN old(k) ELSE frame[k]
  BY DEF Call
<1>3. new \in Frame
  BY <1>1 DEF Frame
<1>4. \A k \in 1..MaxDepth :
         /\ old(k) \in Frame /\ old(k).fic = frame[k].fic /\ old(k).args = frame[k].args
         /\ old(k).pos = frame[k].pos /\ old(k).pc = frame[k].pc
         /\ old(k).cb = frame[k].cb
         /\ frame[k].pc = "magic" => old(k).disturbed
  BY <1>1, DisturbFacts
<1>5. frame' \in [1..MaxDepth -> Frame]
  <2> HIDE DEF new, old
  <2>1. frame' = [k \in 1..MaxDepth |-> IF k = depth + 1 THEN new
                                        ELSE IF k = depth THEN old(k) ELSE frame[k]]
    BY DEF Call, new, old
  <2> QED
    BY <1>1, <1>3, <1>4, <2>1
<1>6. vm' \in VM /\ vm'.ints = <<>> /\ vm'.floats = <<>> /\ vm'.stack = <<>>
  BY StartedEmpty DEF Call
<1>7. TypeOK'
  <2>1. UNCHANGED <<cbs, slot, temps>>
    BY DEF Call
  <2> QED
    BY <1>1, <1>5, <1>6, <2>1 DEF CallInv, TypeOK
<1>8. StackShape'
  <2> SUFFICES ASSUME NEW k \in 1..MaxDepth
               PROVE  StackShape!(k)'
    BY DEF StackShape
  <2>1. StackShape!(k) /\ cbs' = cbs
    BY DEF CallInv, StackShape, Call
  <2> HIDE DEF old
  <2>2. CASE k = depth + 1
    BY <1>1, <1>2, <2>2
  <2>3. CASE k = depth
    <3>1. frame'[k] = old(k) /\ depth > 0 /\ frame[k].pc \in {"magic", "cb"}
      BY <1>1, <1>2, <2>3 DEF PerlAt
    <3> QED
      BY <1>1, <1>4, <2>1, <2>3, <3>1
  <2>4. CASE k # depth /\ k # depth + 1
    BY <1>1, <1>2, <2>1, <2>4
  <2> QED
    BY <2>2, <2>3, <2>4
<1>9. BoundSoFar'
  <2>1. Top' = new
    BY <1>1, <1>2 DEF Top
  <2>2. \A q \in Places(vm') : Len(q) = 0
    BY <1>6 DEF Places
  <2> QED
    BY <2>1, <2>2 DEF BoundSoFar, OnlyOf, LeftToRight, Complete
<1> QED
  BY <1>7, <1>8, <1>9 DEF CallInv

\* A call with the wrong number of arguments: the VM is reset all the same.
LEMMA CallArityKeeps ==
    ASSUME CallInv, NEW f \in Fics, NEW args \in ArgLists, NEW d \in 0..MaxDepth,
           CallArity(f, args, d)
    PROVE  CallInv'
<1> USE FictionAssumption
<1>1. /\ depth \in 0..MaxDepth /\ d <= depth /\ depth' = d
      /\ calls \in Nat /\ calls' = calls + 1 /\ calls' \in 0..MaxCalls
      /\ PerlAt(d) /\ frame \in [1..MaxDepth -> Frame] /\ cbs' = cbs
  BY DEF CallArity, MayCall, InPerl, CallInv, TypeOK
<1> DEFINE old(k) == Disturb(frame[k])
<1>2. \A k \in 1..MaxDepth : frame'[k] = IF k > d THEN Idle
                                         ELSE IF k = d THEN old(k) ELSE frame[k]
  BY DEF CallArity
<1>3. Idle \in Frame
  BY DEF Idle, Frame, Actuals
<1>4. \A k \in 1..MaxDepth :
         /\ old(k) \in Frame /\ old(k).fic = frame[k].fic /\ old(k).args = frame[k].args
         /\ old(k).pos = frame[k].pos /\ old(k).pc = frame[k].pc
         /\ old(k).cb = frame[k].cb
         /\ frame[k].pc = "magic" => old(k).disturbed
  BY <1>1, DisturbFacts
<1>5. frame' \in [1..MaxDepth -> Frame]
  BY <1>1, <1>3, <1>4 DEF CallArity
<1>6. vm' \in VM
  BY StartedEmpty DEF CallArity
<1>7. temps' \in [0..MaxDepth -> Seq(Temp)]
  BY DEF CallInv, TypeOK, CallArity
<1>8. TypeOK'
  <2>1. UNCHANGED <<cbs, slot>>
    BY DEF CallArity
  <2> QED
    BY <1>1, <1>5, <1>6, <1>7, <2>1 DEF CallInv, TypeOK
<1> HIDE DEF old
<1>9. StackShape'
  <2> SUFFICES ASSUME NEW k \in 1..MaxDepth
               PROVE  StackShape!(k)'
    BY DEF StackShape
  <2>1. StackShape!(k)
    BY DEF CallInv, StackShape
  <2>2. CASE k > d
    BY <1>1, <1>2, <2>2
  <2>3. CASE k = d
    BY <1>1, <1>2, <1>4, <2>1, <2>3
  <2>4. CASE k < d
    BY <1>1, <1>2, <2>1, <2>4
  <2> QED
    BY <2>2, <2>3, <2>4, <1>1
<1>10. BoundSoFar'
  <2>1. CASE d = 0
    BY <1>1, <2>1 DEF BoundSoFar
  <2>2. CASE d > 0
    <3>1. Top' = old(d) /\ old(d).pc \in {"magic", "cb"}
      BY <1>1, <1>2, <1>4, <2>2 DEF Top, PerlAt
    <3>2. Top'.pc = "magic" => Top'.disturbed
      BY <1>4, <1>1, <2>2, <3>1
    <3> QED
      BY <3>1, <3>2 DEF BoundSoFar
  <2> QED
    BY <2>1, <2>2
<1> QED
  BY <1>8, <1>9, <1>10 DEF CallInv

\* The native function returns to the Perl code that called the fiction.
LEMMA ReturnKeeps ==
    ASSUME CallInv, Return
    PROVE  CallInv'
<1> USE FictionAssumption
<1>1. /\ depth \in 1..MaxDepth /\ depth' = depth - 1 /\ Top.pc = "native"
      /\ cbs' = cbs /\ vm' = vm /\ calls' = calls
      /\ frame \in [1..MaxDepth -> Frame] /\ frame' = [frame EXCEPT ![depth] = Idle]
      /\ Top.fic \in Fics /\ Top.id \in Nat
  BY TopFacts DEF Return, InNative, CallInv, TypeOK
<1>2. Idle \in Frame
  BY DEF Idle, Frame, Actuals
<1>3. slot' \in [Fics -> Nat]
  BY <1>1 DEF Return, CallInv, TypeOK
<1>4. temps' \in [0..MaxDepth -> Seq(Temp)]
  <2> DEFINE new == [fic |-> Top.fic, id |-> Top.id, alias |-> (Ret[Top.fic] = "scalar")]
  <2>1. new \in Temp
    BY <1>1 DEF Temp
  <2>2. temps \in [0..MaxDepth -> Seq(Temp)]
    BY DEF CallInv, TypeOK
  <2> HIDE DEF new
  <2>3. \A k \in 0..MaxDepth : Append(temps[k], new) \in Seq(Temp)
    BY <2>1, <2>2
  <2>4. temps' = [k \in 0..MaxDepth |->
                IF k = depth THEN <<>>
                ELSE IF k = depth - 1 /\ Ret[Top.fic] # "void"
                THEN Append(temps[k], new)
                ELSE temps[k]]
    BY DEF Return, new
  <2> QED
    BY <2>2, <2>3, <2>4
<1>5. frame' \in [1..MaxDepth -> Frame]
  BY <1>1, <1>2
<1>6. TypeOK'
  BY <1>1, <1>3, <1>4, <1>5 DEF CallInv, TypeOK
<1>7. StackShape'
  BY <1>1 DEF CallInv, StackShape
<1>8. BoundSoFar'
  <2>1. CASE depth = 1
    BY <1>1, <2>1 DEF BoundSoFar
  <2>2. CASE depth > 1
    BY <1>1, <2>2 DEF CallInv, StackShape, BoundSoFar, Top
  <2> QED
    BY <1>1, <2>1, <2>2
<1> QED
  BY <1>6, <1>7, <1>8 DEF CallInv

\* Init: no activation, an empty VM.
LEMMA CallInvInit == Init => CallInv
<1> SUFFICES ASSUME Init
             PROVE  CallInv
  OBVIOUS
<1> USE FictionAssumption
<1>1. Idle \in Frame
  BY DEF Idle, Frame, Actuals
<1>2. dcReset \in VM
  BY DEF dcReset, VM
<1>3. frame \in [1..MaxDepth -> Frame]
  BY <1>1 DEF Init
<1>4. temps \in [0..MaxDepth -> Seq(Temp)]
  BY DEF Init
<1>5. depth = 0 /\ calls = 0 /\ cbs = {} /\ slot \in [Fics -> Nat] /\ vm \in VM
  BY <1>2 DEF Init
<1>6. TypeOK
  BY <1>3, <1>4, <1>5 DEF TypeOK
<1>7. StackShape
  BY <1>5 DEF StackShape
<1>8. BoundSoFar
  BY <1>5 DEF BoundSoFar
<1> QED
  BY <1>6, <1>7, <1>8 DEF CallInv

\* Every action keeps the invariant.
LEMMA CallInvNext == CallInv /\ [Next]_vars => CallInv'
<1> SUFFICES ASSUME CallInv, [Next]_vars
             PROVE  CallInv'
  OBVIOUS
<1> USE FictionAssumption
<1>0. depth \in 0..MaxDepth /\ temps \in [0..MaxDepth -> Seq(Temp)]
  BY DEF CallInv, TypeOK
<1>1. CASE UNCHANGED vars
  BY <1>1 DEF vars, CallInv, TypeOK, StackShape, BoundSoFar, Top, OnlyOf, LeftToRight,
              Complete, IsBound, Places
<1>2. ASSUME NEW f \in Fics, NEW args \in ArgLists, Call(f, args)
      PROVE  CallInv'
  BY <1>2, CallKeeps
<1>3. ASSUME NEW f \in Fics, NEW args \in ArgLists, NEW d \in 0..MaxDepth,
             CallArity(f, args, d)
      PROVE  CallInv'
  BY <1>3, CallArityKeeps
<1>4. CASE BindArg
  <2>1. /\ depth > 0 /\ Top.pc = "bind" /\ Top.pos <= Len(Top.args)
        /\ TopType # "other" /\ vm' = Bind(vm, TopEntry, TopType) /\ cbs' = Registered
        /\ SetTop([Top EXCEPT !.pos = @ + 1])
        /\ UNCHANGED <<depth, calls, slot, temps>>
    BY <1>4 DEF BindArg, Binding, Croaks
  <2>2. Top \in Frame
    BY <2>1, TopFacts
  <2>3. [Top EXCEPT !.pos = @ + 1] = [Top EXCEPT !.pc = "bind", !.pos = @ + 1]
    BY <2>1, <2>2 DEF Frame
  <2> QED
    BY <1>0, <2>1, <2>3, BindStep
<1>5. CASE ReadMagic
  <2> DEFINE fr == [Top EXCEPT !.pc = "magic"]
  <2>1. /\ depth > 0 /\ Top.pc = "bind" /\ Top.pos <= Len(Top.args)
        /\ TopType # "other" /\ SetTop(fr)
        /\ UNCHANGED <<vm, depth, calls, cbs, slot, temps>>
    BY <1>5 DEF ReadMagic, Binding, Croaks
  <2>2. fr \in Frame /\ fr.fic = Top.fic /\ fr.args = Top.args /\ fr.pc = "magic"
        /\ fr.pos = Top.pos /\ fr.id = Top.id /\ fr.disturbed = Top.disturbed
    BY <2>1, TopFacts DEF Frame
  <2> HIDE DEF fr
  <2>3. /\ frame' \in [1..MaxDepth -> Frame] /\ StackShape' /\ Top' = fr
    <3>1. /\ fr.pos \in 1..(Len(fr.args) + 1) /\ fr.pos <= Len(fr.args)
          /\ TypeAt(fr.fic, fr.args, fr.pos) # "other"
      BY <2>1, <2>2, TopFacts DEF TopType
    <3> QED
      BY <2>1, <2>2, <3>1, TopStepShape
  <2>4. BoundSoFar'
    BY <2>1, <2>2, <2>3 DEF CallInv, BoundSoFar
  <2> QED
    BY <2>1, <2>3, <2>4 DEF CallInv, TypeOK
<1>6. CASE MagicDone
  <2>1. /\ depth > 0 /\ Top.pc = "magic"
        /\ vm' = Bind(vm, TopEntry, TopType) /\ cbs' = Registered
        /\ SetTop([Top EXCEPT !.pc = "bind", !.pos = @ + 1])
        /\ temps' = [temps EXCEPT ![depth] = <<>>]
        /\ UNCHANGED <<depth, calls, slot>>
    BY <1>6 DEF MagicDone
  <2>2. Top.pos <= Len(Top.args) /\ TopType # "other"
    BY <2>1, TopFacts DEF TopType
  <2>3. temps' \in [0..MaxDepth -> Seq(Temp)]
    BY <1>0, <2>1
  <2> QED
    BY <2>1, <2>2, <2>3, BindStep
<1>7. ASSUME NEW d \in 0..MaxDepth, BindCroak(d)
      PROVE  CallInv'
  <2>1. d < depth /\ UnwindTo(d) /\ UNCHANGED <<vm, calls, cbs, slot>>
    BY <1>0, <1>7 DEF BindCroak
  <2> QED
    BY <2>1, UnwindKeeps
<1>8. CASE EnterNative
  <2> DEFINE fr == [Top EXCEPT !.pc = "native"]
  <2>1. depth > 0 /\ SetTop(fr) /\ UNCHANGED <<vm, depth, calls, cbs, slot, temps>>
    BY <1>8 DEF EnterNative, Ready
  <2>2. fr \in Frame /\ fr.fic = Top.fic /\ fr.args = Top.args /\ fr.pc = "native"
        /\ fr.pos = Top.pos
    BY <2>1, TopFacts DEF Frame
  <2> HIDE DEF fr
  <2> QED
    BY <1>0, <2>1, <2>2, LeaveStep
<1>9. ASSUME NEW d \in 0..MaxDepth, RetCroak(d)
      PROVE  CallInv'
  BY <1>0, <1>9, UnwindKeeps DEF RetCroak
<1>10. ASSUME NEW f \in Fics, EnterCallback(f)
       PROVE  CallInv'
  <2> DEFINE fr == [Top EXCEPT !.pc = "cb", !.cb = f]
  <2>1. depth > 0 /\ SetTop(fr) /\ f \in cbs
        /\ UNCHANGED <<vm, depth, calls, cbs, slot, temps>>
    BY <1>10 DEF EnterCallback, InNative
  <2>2. fr \in Frame /\ fr.fic = Top.fic /\ fr.args = Top.args /\ fr.pc = "cb"
        /\ fr.pos = Top.pos /\ fr.cb = f
    BY <2>1, TopFacts DEF Frame
  <2> HIDE DEF fr
  <2> QED
    BY <1>0, <2>1, <2>2, LeaveStep
<1>11. ASSUME NEW f \in Fics, NEW d \in 0..MaxDepth, CallbackArgCroak(f, d)
       PROVE  CallInv'
  BY <1>0, <1>11, UnwindKeeps DEF CallbackArgCroak
<1>12. CASE CallbackReturn
  <2> DEFINE fr == [Top EXCEPT !.pc = "native", !.cb = NoFic]
  <2>1. depth > 0 /\ SetTop(fr) /\ temps' = [temps EXCEPT ![depth] = <<>>]
        /\ UNCHANGED <<vm, depth, calls, cbs, slot>>
    BY <1>12 DEF CallbackReturn
  <2>2. fr \in Frame /\ fr.fic = Top.fic /\ fr.args = Top.args /\ fr.pc = "native"
        /\ fr.pos = Top.pos
    BY <2>1, TopFacts DEF Frame
  <2>3. temps' \in [0..MaxDepth -> Seq(Temp)]
    BY <1>0, <2>1
  <2> HIDE DEF fr
  <2> QED
    BY <2>1, <2>2, <2>3, LeaveStep
<1>13. ASSUME NEW d \in 0..MaxDepth, CallbackRetCroak(d)
       PROVE  CallInv'
  BY <1>0, <1>13, UnwindKeeps DEF CallbackRetCroak
<1>14. ASSUME NEW d \in 0..MaxDepth, Die(d)
       PROVE  CallInv'
  BY <1>0, <1>14, UnwindKeeps DEF Die
<1>15. CASE Return
  BY <1>15, ReturnKeeps
<1>16. CASE UseResults
  <2>1. temps' = [temps EXCEPT ![depth] = <<>>] /\ UNCHANGED <<vm, depth, frame, calls, cbs, slot>>
    BY <1>16 DEF UseResults
  <2>2. TypeOK'
    BY <1>0, <2>1 DEF CallInv, TypeOK
  <2>3. StackShape' /\ BoundSoFar'
    BY <2>1 DEF CallInv, StackShape, BoundSoFar, Top, OnlyOf, LeftToRight, Complete,
                IsBound, Places
  <2> QED
    BY <2>2, <2>3 DEF CallInv
<1> QED
  BY <1>1, <1>2, <1>3, <1>4, <1>5, <1>6, <1>7, <1>8, <1>9, <1>10, <1>11, <1>12, <1>13,
     <1>14, <1>15, <1>16 DEF Next

\* CallInv holds throughout every execution of the call machinery.
THEOREM CallInvariant == Spec => []CallInv
<1> QED
  BY CallInvInit, CallInvNext, PTL DEF Spec

\* The variables keep their types, however calls, callbacks and croaks nest.
THEOREM TypeCorrect == Spec => []TypeOK
<1>1. CallInv => TypeOK
  BY DEF CallInv
<1> QED
  BY <1>1, CallInvariant, PTL

\* Whenever Fiction_trigger reaches dcCall for an activation during whose
\* marshalling no other fiction was called, the call VM holds the arguments of
\* this activation, all of them that fit, left to right, and nothing else.
THEOREM OwnArgumentsOnly == Spec => []OwnArguments
<1>1. CallInv => OwnArguments
  <2> SUFFICES ASSUME CallInv, Ready, ~Top.disturbed
               PROVE  VMok(vm, Top.id, Top.fic, Top.args, Len(Top.args))
    BY DEF OwnArguments, VMok
  <2>1. depth > 0 /\ Top.pc = "bind" /\ Top.pos > Len(Top.args)
    BY DEF Ready
  <2>2. Top.pos \in 1..(Len(Top.args) + 1) /\ Len(Top.args) \in Nat
    BY <2>1, TopFacts
  <2>3. Top.pos - 1 = Len(Top.args)
    BY <2>1, <2>2
  <2> QED
    BY <2>1, <2>3 DEF CallInv, BoundSoFar, VMok
<1> QED
  BY <1>1, CallInvariant, PTL
-----------------------------------------------------------------------------
\* Binding an argument of any type gives a VM.
LEMMA BindTyped ==
    ASSUME NEW m \in VM, NEW e \in Entry, NEW ty \in ArgTypes
    PROVE  Bind(m, e, ty) \in VM
<1>1. CASE ty \in {"void", "other"}
  BY <1>1 DEF Bind
<1>2. CASE ty \notin {"void", "other"}
  BY <1>2, BindPlaces DEF Grown
<1> QED
  BY <1>1, <1>2

\* dcReset and dcBeginCallAggr leave a VM like one that was never used.
LEMMA StartedFresh ==
    ASSUME NEW f
    PROVE  Started(f) = FreshVM(f)
<1>1. CASE Ret[f] \in {"pair", "mem"}
  BY <1>1 DEF Started, FreshVM, dcBeginCallAggr
<1>2. CASE Ret[f] \notin {"pair", "mem"}
  <2>1. Started(f) = dcReset /\ FreshVM(f) = [dcReset EXCEPT !.hidden = 0]
    BY <1>2 DEF Started, FreshVM
  <2>2. [dcReset EXCEPT !.hidden = 0] = dcReset
    BY DEF dcReset
  <2> QED
    BY <2>1, <2>2
<1> QED
  BY <1>1, <1>2

\* BoundAlone is the function its recursion describes.
LEMMA AloneUnfolds ==
    ASSUME NEW f \in Fics, NEW args \in Seq(Actuals), ArityOK(f, args), NEW id \in Nat
    PROVE  /\ BoundAlone(f, args, id)[0] = FreshVM(f)
           /\ \A n \in 1..Len(args) :
                 BoundAlone(f, args, id)[n] =
                    Bind(BoundAlone(f, args, id)[n - 1], [call |-> id, pos |-> n],
                         TypeAt(f, args, n))
<1> DEFINE N == Len(args)
           Entr(n) == [call |-> id, pos |-> n]
           Ty(n) == TypeAt(f, args, n)
           step == [x \in VM \X (1..N) |-> Bind(x[1], Entr(x[2]), Ty(x[2]))]
           Body(g) == [n \in 0..N |-> IF n = 0 THEN FreshVM(f) ELSE Bind(g[n - 1], Entr(n), Ty(n))]
<1>1. N \in Nat /\ \A n \in 1..N : Entr(n) \in Entry /\ Ty(n) \in ArgTypes
  BY TypeAtType DEF Entry
<1>2. FreshVM(f) \in VM
  <2> DEFINE h == IF Ret[f] = "mem" THEN 1 ELSE 0
  <2>1. h \in 0..1 /\ dcReset \in VM /\ FreshVM(f) = [dcReset EXCEPT !.hidden = h]
    BY DEF FreshVM, dcReset, VM
  <2> HIDE DEF h
  <2> QED
    BY <2>1 DEF VM
<1>3. BoundAlone(f, args, id) = CHOOSE g : g = Body(g)
  BY Zenon DEF BoundAlone, FreshVM
<1> HIDE DEF N, Entr, Ty
<1>4. step \in [VM \X (1..N) -> VM]
  BY <1>1, BindTyped
<1>5. \A v \in VM, n \in 1..N : step[<<v, n>>] = Bind(v, Entr(n), Ty(n))
  OBVIOUS
<1> HIDE DEF step
<1>6. PICK g : Follows(g, N, VM, FreshVM(f), step)
  BY <1>1, <1>2, <1>4, RecursiveFunction
<1>7. /\ g \in [0..N -> VM] /\ g[0] = FreshVM(f)
      /\ \A n \in 1..N : g[n] = step[<<g[n - 1], n>>]
  BY <1>6 DEF Follows
<1>8. \A n \in 1..N : g[n] = Bind(g[n - 1], Entr(n), Ty(n))
  <2> SUFFICES ASSUME NEW n \in 1..N
               PROVE  g[n] = Bind(g[n - 1], Entr(n), Ty(n))
    OBVIOUS
  <2>1. n - 1 \in 0..N
    BY <1>1
  <2>2. g[n - 1] \in VM
    BY <1>7, <2>1
  <2> QED
    BY <1>5, <1>7, <2>2
<1>9. g = Body(g)
  BY <1>7, <1>8, <1>1
<1> DEFINE c == BoundAlone(f, args, id)
<1>10. c = Body(c)
  <2> HIDE DEF Body
  <2> QED BY <1>3, <1>9, Zenon
<1> HIDE DEF c
<1>11. c[0] = FreshVM(f) /\ \A n \in 1..N : c[n] = Bind(c[n - 1], Entr(n), Ty(n))
  BY <1>10, <1>1
<1> QED
  BY <1>11 DEF c, N, Entr, Ty

\* Outside the loop over the arguments, and below a call, nothing is claimed.
LEMMA NotBinding ==
    ASSUME depth' > 0 => Top'.pc \notin {"bind", "magic"} \/ Top'.disturbed
    PROVE  AloneSoFar'
  BY DEF AloneSoFar

\* croak, die and return leave an activation on top that does not go on binding
\* undisturbed.
LEMMA Uncovered ==
    ASSUME CallInv, NEW d \in 0..MaxDepth, d < depth, depth' = d,
           d > 0 => frame'[d] = frame[d]
    PROVE  AloneSoFar'
<1>1. CASE d = 0
  BY <1>1, NotBinding
<1>2. CASE d > 0
  <2>1. d \in 1..MaxDepth /\ Top' = frame[d]
    BY <1>2, FictionAssumption DEF Top
  <2>2. StackShape!(d)
    BY <2>1 DEF CallInv, StackShape
  <2>3. Top'.pc \in {"magic", "cb"} /\ (Top'.pc = "magic" => Top'.disturbed)
    BY <2>1, <2>2
  <2> QED
    BY <2>3, NotBinding
<1> QED
  BY <1>1, <1>2, FictionAssumption

\* One turn of the loop binds what a VM of its own would bind.
LEMMA BindAlone ==
    ASSUME CallInv, AloneSoFar, depth > 0, Top.pc \in {"bind", "magic"},
           Top.pos <= Len(Top.args),
           vm' = Bind(vm, TopEntry, TopType),
           SetTop([Top EXCEPT !.pc = "bind", !.pos = @ + 1]), depth' = depth
    PROVE  AloneSoFar'
<1> DEFINE fr == [Top EXCEPT !.pc = "bind", !.pos = @ + 1]
           m == BoundAlone(Top.fic, Top.args, Top.id)
<1>1. /\ Top \in Frame /\ Top.fic \in Fics /\ Top.id \in Nat
      /\ Top.args \in Seq(Actuals) /\ Top.pos \in 1..(Len(Top.args) + 1)
      /\ ArityOK(Top.fic, Top.args) /\ depth \in 1..MaxDepth
  BY TopFacts
<1>2. Top.pos \in 1..Len(Top.args) /\ Top.pos + 1 \in Nat /\ (Top.pos + 1) - 1 = Top.pos
  BY <1>1
<1>3. fr.fic = Top.fic /\ fr.args = Top.args /\ fr.pos = Top.pos + 1 /\ fr.id = Top.id
      /\ fr.disturbed = Top.disturbed
  BY <1>1, <1>2 DEF Frame
<1>4. Top' = fr
  BY <1>1 DEF SetTop, Top, CallInv, TypeOK
<1> HIDE DEF fr
<1> SUFFICES ASSUME ~Top.disturbed
             PROVE  vm' = m[Top.pos]
  BY <1>2, <1>3, <1>4 DEF AloneSoFar
<1>5. vm = m[Top.pos - 1]
  BY DEF AloneSoFar
<1>6. m[Top.pos] = Bind(m[Top.pos - 1], [call |-> Top.id, pos |-> Top.pos],
                        TypeAt(Top.fic, Top.args, Top.pos))
  BY <1>1, <1>2, AloneUnfolds
<1> QED
  BY <1>5, <1>6 DEF TopEntry, TopType

\* Every action keeps it.
LEMMA AloneNext == CallInv /\ AloneSoFar /\ [Next]_vars => AloneSoFar'
<1> SUFFICES ASSUME CallInv, AloneSoFar, [Next]_vars
             PROVE  AloneSoFar'
  OBVIOUS
<1> USE FictionAssumption
<1>0. depth \in 0..MaxDepth /\ frame \in [1..MaxDepth -> Frame]
  BY DEF CallInv, TypeOK
<1>1. CASE UNCHANGED vars
  BY <1>1 DEF vars, AloneSoFar, Top
<1>2. ASSUME NEW f \in Fics, NEW args \in ArgLists, Call(f, args)
      PROVE  AloneSoFar'
  <2>1. /\ depth + 1 \in 1..MaxDepth /\ depth' = depth + 1 /\ vm' = Started(f)
        /\ calls + 1 \in Nat /\ ArityOK(f, args) /\ args \in Seq(Actuals)
    BY <1>0, <1>2 DEF Call, CallInv, TypeOK
  <2>2. Top'.fic = f /\ Top'.args = args /\ Top'.id = calls + 1 /\ Top'.pos = 1
    BY <1>2, <2>1 DEF Call, Top
  <2>3. BoundAlone(f, args, calls + 1)[0] = vm'
    BY <2>1, AloneUnfolds, StartedFresh
  <2> QED
    BY <2>2, <2>3 DEF AloneSoFar
<1>3. ASSUME NEW f \in Fics, NEW args \in ArgLists, NEW d \in 0..MaxDepth,
             CallArity(f, args, d)
      PROVE  AloneSoFar'
  <2>1. depth' = d /\ PerlAt(d)
    BY <1>3 DEF CallArity
  <2>2. CASE d = 0
    BY <2>1, <2>2, NotBinding
  <2>3. CASE d > 0
    <3>1. d \in 1..MaxDepth /\ Top' = Disturb(frame[d])
      BY <1>3, <2>1, <2>3 DEF CallArity, Top
    <3>2. /\ frame[d].pc \in {"magic", "cb"} /\ Top'.pc = frame[d].pc
          /\ frame[d].pc = "magic" => Top'.disturbed
      BY <1>0, <2>1, <2>3, <3>1, DisturbFacts DEF PerlAt
    <3> QED
      BY <3>2, NotBinding
  <2> QED
    BY <2>2, <2>3
<1>4. CASE BindArg
  <2>1. /\ depth > 0 /\ Top.pc = "bind" /\ Top.pos <= Len(Top.args)
        /\ vm' = Bind(vm, TopEntry, TopType) /\ depth' = depth
        /\ SetTop([Top EXCEPT !.pos = @ + 1])
    BY <1>4 DEF BindArg, Binding
  <2>2. Top \in Frame
    BY <2>1, TopFacts
  <2>3. [Top EXCEPT !.pos = @ + 1] = [Top EXCEPT !.pc = "bind", !.pos = @ + 1]
    BY <2>1, <2>2 DEF Frame
  <2> QED
    BY <2>1, <2>3, BindAlone
<1>5. CASE MagicDone
  <2>1. /\ depth > 0 /\ Top.pc = "magic" /\ vm' = Bind(vm, TopEntry, TopType)
        /\ SetTop([Top EXCEPT !.pc = "bind", !.pos = @ + 1]) /\ depth' = depth
    BY <1>5 DEF MagicDone
  <2> QED
    BY <2>1, TopFacts, BindAlone
<1>6. CASE ReadMagic
  <2> DEFINE fr == [Top EXCEPT !.pc = "magic"]
  <2>1. depth > 0 /\ depth' = depth /\ vm' = vm /\ Top.pc = "bind" /\ SetTop(fr)
    BY <1>6 DEF ReadMagic, Binding
  <2>2. Top' = fr
    BY <1>0, <2>1 DEF SetTop, Top
  <2>3. /\ fr.fic = Top.fic /\ fr.args = Top.args /\ fr.pos = Top.pos /\ fr.id = Top.id
        /\ fr.disturbed = Top.disturbed
    BY <2>1, TopFacts DEF Frame
  <2> HIDE DEF fr
  <2> QED
    BY <2>1, <2>2, <2>3 DEF AloneSoFar
<1>7. ASSUME NEW fr, fr.pc \notin {"bind", "magic"}, depth > 0, SetTop(fr), depth' = depth
      PROVE  AloneSoFar'
  <2>1. Top' = fr
    BY <1>0, <1>7 DEF SetTop, Top
  <2> QED
    BY <1>7, <2>1, NotBinding
<1>8. ASSUME NEW pc \in {"native", "cb"}, NEW cb, depth > 0, depth' = depth,
             SetTop([Top EXCEPT !.pc = pc]) \/ SetTop([Top EXCEPT !.pc = pc, !.cb = cb])
      PROVE  AloneSoFar'
  <2>1. Top \in Frame
    BY <1>8, TopFacts
  <2>2. [Top EXCEPT !.pc = pc].pc = pc /\ [Top EXCEPT !.pc = pc, !.cb = cb].pc = pc
    BY <2>1 DEF Frame
  <2> QED
    BY <1>7, <1>8, <2>2
<1>9. CASE EnterNative
  BY <1>8, <1>9 DEF EnterNative, Ready
<1>10. ASSUME NEW f \in Fics, EnterCallback(f)
       PROVE  AloneSoFar'
  BY <1>8, <1>10 DEF EnterCallback, InNative
<1>11. CASE CallbackReturn
  BY <1>8, <1>11 DEF CallbackReturn
<1>12. ASSUME NEW d \in 0..MaxDepth, d < depth, UnwindTo(d)
       PROVE  AloneSoFar'
  <2>1. depth' = d /\ (d > 0 => frame'[d] = frame[d])
    BY <1>12 DEF UnwindTo
  <2> QED
    BY <1>12, <2>1, Uncovered
<1>13. ASSUME NEW d \in 0..MaxDepth, BindCroak(d) \/ RetCroak(d) \/ CallbackRetCroak(d) \/ Die(d)
       PROVE  AloneSoFar'
  BY <1>0, <1>12, <1>13 DEF BindCroak, RetCroak, CallbackRetCroak, Die
<1>14. ASSUME NEW d \in 0..MaxDepth, NEW f \in Fics, CallbackArgCroak(f, d)
       PROVE  AloneSoFar'
  BY <1>0, <1>12, <1>14 DEF CallbackArgCroak
<1>15. CASE Return
  <2>1. depth > 0 /\ depth' = depth - 1 /\ frame' = [frame EXCEPT ![depth] = Idle]
    BY <1>15 DEF Return, InNative
  <2>2. depth - 1 \in 0..MaxDepth /\ depth - 1 < depth
        /\ (depth - 1 > 0 => frame'[depth - 1] = frame[depth - 1])
    BY <1>0, <2>1
  <2> QED
    BY <2>1, <2>2, Uncovered
<1>16. CASE UseResults
  BY <1>16 DEF UseResults, AloneSoFar, Top
<1> QED
  BY <1>1, <1>2, <1>3, <1>4, <1>5, <1>6, <1>9, <1>10, <1>11, <1>13, <1>14, <1>15, <1>16
     DEF Next

\* Whenever Fiction_trigger reaches dcCall for an activation during whose
\* marshalling no other fiction was called, registers, stack, sizes and what
\* was dropped are exactly those of a VM that only this activation ever used.
THEOREM CallsDoNotMix == Spec => []AsIfAlone
<1>1. Init => AloneSoFar
  BY DEF Init, AloneSoFar
<1>2. CallInv /\ AloneSoFar => AsIfAlone
  <2> SUFFICES ASSUME CallInv, AloneSoFar, Ready, ~Top.disturbed
               PROVE  vm = BoundAlone(Top.fic, Top.args, Top.id)[Len(Top.args)]
    BY DEF AsIfAlone
  <2>1. depth > 0 /\ Top.pc = "bind" /\ Top.pos > Len(Top.args)
    BY DEF Ready
  <2>2. Top.pos \in 1..(Len(Top.args) + 1) /\ Len(Top.args) \in Nat
    BY <2>1, TopFacts
  <2>3. Top.pos - 1 = Len(Top.args)
    BY <2>1, <2>2
  <2> QED
    BY <2>1, <2>3 DEF AloneSoFar
<1> QED
  BY <1>1, <1>2, AloneNext, CallInvariant, PTL DEF Spec
-----------------------------------------------------------------------------
\* The results that the Perl code at depth d holds: their calls began after the
\* activation that entered this Perl code and before the one that it called.
HeldAt(d) ==
    \A i \in 1..Len(temps[d]) :
        /\ temps[d][i].id \in 1..calls
        /\ \A k \in 1..depth : k <= d => frame[k].id < temps[d][i].id
        /\ \A k \in 1..depth : k > d => temps[d][i].id < frame[k].id
        /\ temps[d][i].alias => slot[temps[d][i].fic] >= temps[d][i].id

\* Activations further in began later.
Nested ==
    /\ \A k \in 1..depth : frame[k].id \in 1..calls
    /\ \A j, k \in 1..depth : j < k => frame[j].id < frame[k].id

\* No a->res holds the result of an activation that still runs.
SlotsEnded ==
    \A f \in Fics :
        /\ slot[f] <= calls
        /\ \A k \in 1..depth : frame[k].id # slot[f]

\* The inductive invariant behind HeldResults.
HeldInv ==
    /\ Nested
    /\ SlotsEnded
    /\ \A d \in 0..MaxDepth : d > depth => temps[d] = <<>>
    /\ \A d \in 0..MaxDepth : HeldAt(d)

\* The type of a held result.
LEMMA HeldTyped ==
    ASSUME CallInv, NEW d \in 0..MaxDepth, NEW i \in 1..Len(temps[d])
    PROVE  temps[d][i].id \in Nat /\ temps[d][i].fic \in Fics
<1>1. temps[d] \in Seq(Temp)
  BY DEF CallInv, TypeOK
<1>2. temps[d][i] \in Temp
  BY <1>1
<1> QED
  BY <1>2 DEF Temp

\* A result read by Perl code is not that of an activation that still runs.
LEMMA HeldGivesResults ==
    ASSUME CallInv, HeldInv
    PROVE  HeldResults
<1> SUFFICES ASSUME NEW d \in 0..MaxDepth, NEW i \in 1..Len(temps[d])
             PROVE  /\ ReadTemp(temps[d][i]) >= temps[d][i].id
                    /\ \A k \in 1..depth : frame[k].id # ReadTemp(temps[d][i])
  BY DEF HeldResults
<1> DEFINE t == temps[d][i]
<1>1. t.id \in Nat /\ t.fic \in Fics
  BY HeldTyped
<1>2. depth \in Nat /\ \A k \in 1..depth : frame[k].id \in Nat
  BY FictionAssumption DEF CallInv, TypeOK, HeldInv, Nested
<1>3. HeldAt(d) /\ SlotsEnded
  BY DEF HeldInv
<1>4. CASE t.alias
  BY <1>1, <1>3, <1>4 DEF HeldAt, SlotsEnded, ReadTemp
<1>5. CASE ~t.alias
  <2>1. ReadTemp(t) = t.id
    BY <1>5 DEF ReadTemp
  <2>2. \A k \in 1..depth : frame[k].id < t.id \/ t.id < frame[k].id
    BY <1>2, <1>3 DEF HeldAt
  <2> QED
    BY <1>1, <1>2, <2>1, <2>2
<1> QED
  BY <1>4, <1>5

\* Steps that end activations or none and read, drop or keep what is held.
LEMMA HeldKept ==
    ASSUME CallInv, HeldInv,
           depth' \in 0..depth, calls' \in Nat, calls' >= calls, slot' = slot,
           \A k \in 1..depth' : frame'[k].id = frame[k].id,
           \A k \in 0..MaxDepth :
              temps'[k] = <<>> \/ (k <= depth' /\ temps'[k] = temps[k])
    PROVE  HeldInv'
<1> USE FictionAssumption
<1>1. /\ depth \in 0..MaxDepth /\ calls \in Nat
      /\ \A f \in Fics : slot[f] \in Nat
  BY DEF CallInv, TypeOK
<1>2. 1..depth' \subseteq 1..depth
  BY <1>1
<1>3. Nested'
  <2>1. \A k \in 1..depth' : frame'[k].id = frame[k].id /\ frame'[k].id \in 1..calls'
    BY <1>1, <1>2 DEF HeldInv, Nested
  <2>2. \A j, k \in 1..depth' : j < k => frame'[j].id < frame'[k].id
    BY <1>2, <2>1 DEF HeldInv, Nested
  <2> QED
    BY <2>1, <2>2 DEF Nested
<1>4. SlotsEnded'
  <2> SUFFICES ASSUME NEW f \in Fics
               PROVE  slot[f] <= calls' /\ \A k \in 1..depth' : frame[k].id # slot[f]
    BY DEF SlotsEnded
  <2> QED
    BY <1>1, <1>2 DEF HeldInv, SlotsEnded
<1>5. \A d \in 0..MaxDepth : d > depth' => temps'[d] = <<>>
  BY <1>1
<1>6. ASSUME NEW d \in 0..MaxDepth PROVE HeldAt(d)'
  <2>1. CASE temps'[d] = <<>>
    BY <2>1 DEF HeldAt
  <2>2. CASE temps'[d] = temps[d]
    <3> SUFFICES ASSUME NEW i \in 1..Len(temps[d])
                 PROVE  /\ temps[d][i].id \in 1..calls'
                        /\ \A k \in 1..depth' : k <= d => frame[k].id < temps[d][i].id
                        /\ \A k \in 1..depth' : k > d => temps[d][i].id < frame[k].id
                        /\ temps[d][i].alias => slot[temps[d][i].fic] >= temps[d][i].id
      BY <2>2 DEF HeldAt
    <3>1. HeldAt(d)
      BY DEF HeldInv
    <3> QED
      BY <1>1, <1>2, <3>1 DEF HeldAt
  <2> QED
    BY <2>1, <2>2
<1> QED
  BY <1>3, <1>4, <1>5, <1>6 DEF HeldInv

\* A step of the topmost activation that neither starts nor ends one.
LEMMA TopStepHeld ==
    ASSUME CallInv, HeldInv, depth' = depth, calls' = calls, slot' = slot,
           \A k \in 1..depth : frame'[k].id = frame[k].id,
           \/ temps' = temps
           \/ temps' = [temps EXCEPT ![depth] = <<>>]
    PROVE  HeldInv'
<1>1. depth \in 0..MaxDepth /\ calls \in Nat /\ temps \in [0..MaxDepth -> Seq(Temp)]
  BY FictionAssumption DEF CallInv, TypeOK
<1>2. \A k \in 0..MaxDepth :
         temps'[k] = <<>> \/ (k <= depth' /\ temps'[k] = temps[k])
  <2> SUFFICES ASSUME NEW k \in 0..MaxDepth
               PROVE  temps'[k] = <<>> \/ (k <= depth /\ temps'[k] = temps[k])
    OBVIOUS
  <2>1. k <= depth \/ temps[k] = <<>>
    BY <1>1, FictionAssumption DEF HeldInv
  <2>2. temps'[k] = temps[k] \/ temps'[k] = <<>>
    BY <1>1
  <2> QED
    BY <2>1, <2>2
<1>3. depth' \in 0..depth /\ calls' \in Nat /\ calls' >= calls
  BY <1>1
<1> QED
  BY <1>2, <1>3, HeldKept

\* croak and die drop what the depths above held.
LEMMA UnwindHeld ==
    ASSUME CallInv, HeldInv, NEW d \in 0..MaxDepth, d < depth, UnwindTo(d),
           calls' = calls, slot' = slot
    PROVE  HeldInv'
<1> USE FictionAssumption
<1>1. depth \in 0..MaxDepth /\ calls \in Nat
  BY DEF CallInv, TypeOK
<1>2. depth' = d /\ \A k \in 1..d : frame'[k].id = frame[k].id
  BY <1>1 DEF UnwindTo
<1>3. \A k \in 0..MaxDepth : temps'[k] = <<>> \/ (k <= depth' /\ temps'[k] = temps[k])
  BY <1>1 DEF UnwindTo
<1> QED
  BY <1>1, <1>2, <1>3, HeldKept

\* A new activation begins after everything that is held was returned.
LEMMA CallHeld ==
    ASSUME CallInv, HeldInv, NEW f \in Fics, NEW args \in ArgLists, Call(f, args)
    PROVE  HeldInv'
<1> USE FictionAssumption
<1>1. /\ depth \in 0..MaxDepth /\ depth < MaxDepth /\ calls \in Nat
      /\ depth' = depth + 1 /\ calls' = calls + 1 /\ slot' = slot /\ temps' = temps
      /\ \A g \in Fics : slot[g] \in Nat
  BY DEF CallInv, TypeOK, Call
<1>2. frame'[depth + 1].id = calls + 1
  BY <1>1 DEF Call
<1>3. \A k \in 1..depth : frame'[k].id = frame[k].id
  <2> SUFFICES ASSUME NEW k \in 1..depth
               PROVE  frame'[k].id = frame[k].id
    OBVIOUS
  <2>1. frame[k] \in Frame
    BY <1>1 DEF CallInv, TypeOK
  <2>2. frame'[k] = IF k = depth THEN Disturb(frame[k]) ELSE frame[k]
    BY <1>1 DEF Call
  <2>3. Disturb(frame[k]).id = frame[k].id
    BY <2>1 DEF Disturb, Frame
  <2> QED
    BY <2>2, <2>3
<1>4. \A k \in 1..depth' : k \in 1..depth \/ k = depth + 1
  BY <1>1
<1>5. \A k \in 1..depth : frame[k].id \in 1..calls
  BY DEF HeldInv, Nested
<1>6. Nested'
  <2>1. ASSUME NEW k \in 1..depth'
        PROVE  frame'[k].id \in 1..calls'
    <3>1. CASE k \in 1..depth
      <4>1. frame'[k].id = frame[k].id
        BY <1>3, <3>1
      <4>2. frame[k].id \in 1..calls
        BY <1>5, <3>1
      <4>3. 1..calls \subseteq 1..calls'
        BY <1>1
      <4> QED
        BY <4>1, <4>2, <4>3
    <3>2. CASE k = depth + 1
      BY <1>1, <1>2, <3>2
    <3> QED
      BY <1>4, <3>1, <3>2
  <2>2. ASSUME NEW j \in 1..depth', NEW k \in 1..depth', j < k
        PROVE  frame'[j].id < frame'[k].id
    <3>1. j \in 1..depth
      BY <2>2, <1>1
    <3>2. CASE k = depth + 1
      BY <1>1, <1>2, <1>3, <1>5, <3>1, <3>2
    <3>3. CASE k \in 1..depth
      BY <1>3, <2>2, <3>1, <3>3 DEF HeldInv, Nested
    <3> QED
      BY <1>4, <3>2, <3>3
  <2> QED
    BY <2>1, <2>2 DEF Nested
<1>7. SlotsEnded'
  <2> SUFFICES ASSUME NEW g \in Fics
               PROVE  slot[g] <= calls + 1 /\ \A k \in 1..depth' : frame'[k].id # slot[g]
    BY <1>1 DEF SlotsEnded
  <2>1. slot[g] <= calls /\ \A k \in 1..depth : frame[k].id # slot[g]
    BY DEF HeldInv, SlotsEnded
  <2>2. ASSUME NEW k \in 1..depth' PROVE frame'[k].id # slot[g]
    <3>1. CASE k \in 1..depth
      BY <1>3, <2>1, <3>1
    <3>2. CASE k = depth + 1
      BY <1>1, <1>2, <2>1, <3>2
    <3> QED
      BY <1>4, <3>1, <3>2
  <2> QED
    BY <1>1, <2>1, <2>2
<1>8. \A d \in 0..MaxDepth : d > depth' => temps'[d] = <<>>
  BY <1>1 DEF HeldInv
<1>9. ASSUME NEW d \in 0..MaxDepth PROVE HeldAt(d)'
  <2>0. CASE d > depth
    <3>1. temps'[d] = <<>>
      BY <1>1, <2>0 DEF HeldInv
    <3> QED
      BY <3>1 DEF HeldAt
  <2>1. CASE d <= depth
    <3> SUFFICES ASSUME NEW i \in 1..Len(temps[d])
                 PROVE  /\ temps[d][i].id \in 1..(calls + 1)
                        /\ \A k \in 1..depth' : k <= d => frame'[k].id < temps[d][i].id
                        /\ \A k \in 1..depth' : k > d => temps[d][i].id < frame'[k].id
                        /\ temps[d][i].alias => slot[temps[d][i].fic] >= temps[d][i].id
      BY <1>1 DEF HeldAt
    <3>1. HeldAt(d)
      BY DEF HeldInv
    <3>2. temps[d][i].id \in 1..calls
      BY <3>1 DEF HeldAt
    <3>3. ASSUME NEW k \in 1..depth', k <= d
          PROVE  frame'[k].id < temps[d][i].id
      BY <1>1, <1>3, <2>1, <3>1, <3>3 DEF HeldAt
    <3>4. ASSUME NEW k \in 1..depth', k > d
          PROVE  temps[d][i].id < frame'[k].id
      <4>1. CASE k \in 1..depth
        BY <1>3, <3>1, <3>4, <4>1 DEF HeldAt
      <4>2. CASE k = depth + 1
        BY <1>1, <1>2, <3>2, <4>2
      <4> QED
        BY <1>4, <4>1, <4>2
    <3>5. temps[d][i].id \in 1..(calls + 1)
      BY <1>1, <3>2
    <3>6. temps[d][i].alias => slot[temps[d][i].fic] >= temps[d][i].id
      BY <3>1 DEF HeldAt
    <3> QED
      BY <3>3, <3>4, <3>5, <3>6
  <2> QED
    BY <1>1, <2>0, <2>1
<1> QED
  BY <1>6, <1>7, <1>8, <1>9 DEF HeldInv

\* The native function returns: what it hands out is what it just stored, and
\* what this replaces in a->res is older.
LEMMA ReturnHeld ==
    ASSUME CallInv, HeldInv, Return
    PROVE  HeldInv'
<1> USE FictionAssumption
<1> DEFINE f == Top.fic
           new == [fic |-> f, id |-> Top.id, alias |-> (Ret[f] = "scalar")]
<1>0. depth > 0 /\ depth' = depth - 1 /\ calls' = calls
  BY DEF Return, InNative
<1>1. /\ depth \in 1..MaxDepth /\ depth' = depth - 1 /\ f \in Fics /\ calls' = calls
      /\ slot \in [Fics -> Nat] /\ calls \in Nat /\ Top = frame[depth]
  <2>1. slot \in [Fics -> Nat] /\ calls \in Nat
    BY DEF CallInv, TypeOK
  <2> QED
    BY <1>0, <2>1, TopFacts
<1>2. \A k \in 0..MaxDepth :
         temps'[k] = IF k = depth THEN <<>>
                     ELSE IF k = depth - 1 /\ Ret[f] # "void"
                     THEN Append(temps[k], new) ELSE temps[k]
  BY DEF Return
<1>3. \A k \in 1..depth' : k \in 1..depth /\ k # depth /\ frame'[k] = frame[k]
  <2>1. frame' = [frame EXCEPT ![depth] = Idle] /\ frame \in [1..MaxDepth -> Frame]
    BY DEF Return, CallInv, TypeOK
  <2>2. \A k \in 1..depth' : k \in 1..depth /\ k # depth
    BY <1>1
  <2>3. 1..depth \subseteq 1..MaxDepth
    BY <1>1
  <2> QED
    BY <2>1, <2>2, <2>3
<1>4. /\ Top.id \in 1..calls
      /\ \A k \in 1..depth' : frame[k].id < Top.id
  BY <1>1, <1>3 DEF HeldInv, Nested
<1>5. Nested'
  BY <1>1, <1>3 DEF HeldInv, Nested
<1>6. \A g \in Fics : slot'[g] = slot[g] \/ (g = f /\ slot'[g] = Top.id)
  BY <1>1 DEF Return
<1>7. SlotsEnded'
  <2> SUFFICES ASSUME NEW g \in Fics
               PROVE  slot'[g] <= calls /\ \A k \in 1..depth' : frame[k].id # slot'[g]
    BY <1>1, <1>3 DEF SlotsEnded
  <2>1. CASE slot'[g] = slot[g]
    BY <1>3, <2>1 DEF HeldInv, SlotsEnded
  <2>2. CASE slot'[g] = Top.id
    <3>1. \A k \in 1..depth' : frame[k].id \in 1..calls
      BY <1>3 DEF HeldInv, Nested
    <3> QED
      BY <1>1, <1>4, <2>2, <3>1
  <2> QED
    BY <1>6, <2>1, <2>2
<1>8. ASSUME NEW d \in 0..MaxDepth, d > depth' PROVE temps'[d] = <<>>
  BY <1>1, <1>2, <1>8 DEF HeldInv
\* A result that was held below the ending activation stays one.
<1>9. ASSUME NEW d \in 0..MaxDepth, d < depth, NEW i \in 1..Len(temps[d])
      PROVE  /\ temps[d][i].id \in 1..calls
             /\ \A k \in 1..depth' : k <= d => frame[k].id < temps[d][i].id
             /\ \A k \in 1..depth' : k > d => temps[d][i].id < frame[k].id
             /\ temps[d][i].alias => slot'[temps[d][i].fic] >= temps[d][i].id
  <2> DEFINE t == temps[d][i]
  <2>1. HeldAt(d) /\ t.fic \in Fics
    BY HeldTyped DEF HeldInv
  <2>2. t.id \in 1..calls /\ t.id < Top.id
    BY <1>1, <1>9, <2>1 DEF HeldAt
  <2>3. ASSUME t.alias PROVE slot'[t.fic] >= t.id
    <3>1. slot[t.fic] >= t.id
      BY <2>1, <2>3 DEF HeldAt
    <3> QED
      BY <1>4, <1>6, <2>1, <2>2, <3>1
  <2> QED
    BY <1>3, <2>1, <2>2, <2>3 DEF HeldAt
<1>10. ASSUME NEW d \in 0..MaxDepth PROVE HeldAt(d)'
  <2>1. CASE d >= depth
    <3>1. temps'[d] = <<>>
      BY <1>1, <1>8, <2>1
    <3> QED
      BY <3>1 DEF HeldAt
  <2>2. CASE d < depth /\ ~(d = depth - 1 /\ Ret[f] # "void")
    <3>1. temps'[d] = temps[d]
      BY <1>1, <1>2, <2>2
    <3> QED
      BY <1>1, <1>3, <1>9, <2>2, <3>1 DEF HeldAt
  <2>3. CASE d = depth - 1 /\ Ret[f] # "void"
    <3>1. slot'[f] = Top.id
      BY <1>1, <2>3 DEF Return
    <3>2. PICK x : x = new
      OBVIOUS
    <3>3. x.fic = f /\ x.id = Top.id
      BY <3>2
    <3> HIDE DEF new
    <3>4. temps'[d] = Append(temps[d], x)
      <4>1. d # depth
        BY <1>1, <2>3
      <4>2. temps'[d] = Append(temps[d], [fic |-> f, id |-> Top.id, alias |-> (Ret[f] = "scalar")])
        BY <1>2, <2>3, <4>1 DEF new
      <4> QED
        BY <3>2, <4>2 DEF new
    <3>6. temps[d] \in Seq(Temp) /\ Len(temps[d]) \in Nat
      BY DEF CallInv, TypeOK
    <3>7. /\ Len(temps'[d]) = Len(temps[d]) + 1
          /\ temps'[d][Len(temps[d]) + 1] = x
          /\ \A i \in 1..Len(temps[d]) : temps'[d][i] = temps[d][i]
      BY <3>4, <3>6
    <3>5. ASSUME NEW i \in 1..Len(temps'[d])
          PROVE  /\ temps'[d][i].id \in 1..calls
                 /\ \A k \in 1..depth' : k <= d => frame[k].id < temps'[d][i].id
                 /\ \A k \in 1..depth' : k > d => temps'[d][i].id < frame[k].id
                 /\ temps'[d][i].alias => slot'[temps'[d][i].fic] >= temps'[d][i].id
      <4>1. CASE i \in 1..Len(temps[d])
        <5>1. temps'[d][i] = temps[d][i]
          BY <3>7, <4>1
        <5>2. d < depth
          BY <1>1, <2>3
        <5> QED
          BY <1>9, <4>1, <5>1, <5>2
      <4>2. CASE i = Len(temps[d]) + 1
        <5>1. temps'[d][i] = x
          BY <3>7, <4>2
        <5>2. \A k \in 1..depth' : ~(k > d)
          BY <1>1, <2>3
        <5>3. slot'[x.fic] >= x.id
          BY <1>4, <3>1, <3>3
        <5> QED
          BY <1>4, <3>3, <5>1, <5>2, <5>3
      <4>3. i \in 1..Len(temps[d]) \/ i = Len(temps[d]) + 1
        BY <3>6, <3>7
      <4> QED
        BY <4>1, <4>2, <4>3
    <3> QED
      BY <1>1, <1>3, <3>5 DEF HeldAt
  <2> QED
    BY <1>1, <2>1, <2>2, <2>3
<1> QED
  BY <1>5, <1>7, <1>8, <1>10 DEF HeldInv

\* The step of the loop, and of entering and leaving Perl code, keep the call's
\* identity.
LEMMA SetTopKeepsId ==
    ASSUME CallInv, depth > 0, NEW fr, fr.id = Top.id, SetTop(fr)
    PROVE  \A k \in 1..depth : frame'[k].id = frame[k].id
BY TopFacts, FictionAssumption DEF SetTop, CallInv, TypeOK

\* Every action keeps the order of the calls that hold, held and run.
LEMMA HeldInvNext ==
    ASSUME CallInv, HeldInv, [Next]_vars
    PROVE  HeldInv'
<1> USE FictionAssumption
<1>0. depth \in 0..MaxDepth /\ calls \in Nat
  BY DEF CallInv, TypeOK
<1>1. CASE UNCHANGED vars
  BY <1>1, TopStepHeld DEF vars
<1>2. ASSUME NEW f \in Fics, NEW args \in ArgLists, Call(f, args)
      PROVE  HeldInv'
  BY <1>2, CallHeld
<1>3. ASSUME NEW f \in Fics, NEW args \in ArgLists, NEW d \in 0..MaxDepth,
             CallArity(f, args, d)
      PROVE  HeldInv'
  <2>1. d \in 0..depth /\ depth' = d /\ calls' = calls + 1 /\ slot' = slot
    BY <1>3 DEF CallArity
  <2>2. \A k \in 1..d : frame'[k].id = frame[k].id
    <3> SUFFICES ASSUME NEW k \in 1..d
                 PROVE  frame'[k].id = frame[k].id
      OBVIOUS
    <3>1. frame[k] \in Frame
      BY <1>0, <2>1 DEF CallInv, TypeOK
    <3>2. frame'[k] = IF k = d THEN Disturb(frame[k]) ELSE frame[k]
      BY <1>0, <1>3, <2>1 DEF CallArity
    <3>3. Disturb(frame[k]).id = frame[k].id
      BY <3>1 DEF Disturb, Frame
    <3> QED
      BY <3>2, <3>3
  <2>3. \A k \in 0..MaxDepth : temps'[k] = <<>> \/ (k <= depth' /\ temps'[k] = temps[k])
    BY <1>0, <1>3, <2>1 DEF CallArity
  <2> QED
    BY <1>0, <2>1, <2>2, <2>3, HeldKept
<1>4. CASE BindArg \/ ReadMagic \/ MagicDone
  <2>1. depth > 0 /\ Top \in Frame
    BY <1>4, TopFacts DEF BindArg, ReadMagic, MagicDone, Binding
  <2>2. \E fr : fr.id = Top.id /\ SetTop(fr)
    BY <1>4, <2>1 DEF BindArg, ReadMagic, MagicDone, Frame
  <2>3. \A k \in 1..depth : frame'[k].id = frame[k].id
    BY <2>1, <2>2, SetTopKeepsId
  <2> QED
    BY <1>4, <2>3, TopStepHeld DEF BindArg, ReadMagic, MagicDone
<1>5. CASE EnterNative \/ CallbackReturn \/ \E f \in Fics : EnterCallback(f)
  <2>1. depth > 0 /\ Top \in Frame
    BY <1>5, TopFacts DEF EnterNative, CallbackReturn, EnterCallback, Ready, InNative
  <2>2. \E fr : fr.id = Top.id /\ SetTop(fr)
    BY <1>5, <2>1 DEF EnterNative, CallbackReturn, EnterCallback, Frame
  <2>3. \A k \in 1..depth : frame'[k].id = frame[k].id
    BY <2>1, <2>2, SetTopKeepsId
  <2> QED
    BY <1>5, <2>3, TopStepHeld DEF EnterNative, CallbackReturn, EnterCallback
<1>6. CASE UseResults
  BY <1>6, TopStepHeld DEF UseResults
<1>7. ASSUME NEW d \in 0..MaxDepth, BindCroak(d) \/ RetCroak(d) \/ CallbackRetCroak(d) \/ Die(d)
      PROVE  HeldInv'
  BY <1>0, <1>7, UnwindHeld DEF BindCroak, RetCroak, CallbackRetCroak, Die
<1>8. ASSUME NEW d \in 0..MaxDepth, NEW f \in Fics, CallbackArgCroak(f, d)
      PROVE  HeldInv'
  BY <1>0, <1>8, UnwindHeld DEF CallbackArgCroak
<1>9. CASE Return
  BY <1>9, ReturnHeld
<1> QED
  BY <1>1, <1>2, <1>3, <1>4, <1>5, <1>6, <1>7, <1>8, <1>9 DEF Next

\* All calls of a fiction share one a->res.  At every nesting of calls, of tied
\* arguments, callbacks and croaks, a result that Perl code still holds reads as
\* its own call's or as that of a later call that has ended: the return of an
\* outer activation never replaces what a call made inside it returned.
THEOREM HeldResultsOnlyAge == Spec => []HeldResults
<1>1. Init => HeldInv
  <2> SUFFICES ASSUME Init
               PROVE  HeldInv
    OBVIOUS
  <2>1. /\ depth = 0 /\ calls = 0 /\ \A f \in Fics : slot[f] = 0
        /\ \A k \in 0..MaxDepth : temps[k] = <<>>
    BY DEF Init
  <2> QED
    BY <2>1 DEF HeldInv, Nested, SlotsEnded, HeldAt
<1>2. CallInv /\ HeldInv /\ [Next]_vars => HeldInv'
  BY HeldInvNext
<1>3. CallInv /\ HeldInv => HeldResults
  BY HeldGivesResults
<1> QED
  BY <1>1, <1>2, <1>3, CallInvariant, PTL DEF Spec
=============================================================================
