-------------------------- MODULE LinearScanProofs --------------------------
(***************************************************************************)
(* The register allocator is right for every function, every register file *)
(* and every bound: proofs about LinearScan.                               *)
(*                                                                         *)
(* TypeOK rests on the types of the IR.  RegistersAccounted and NoOverlap  *)
(* are parts of one inductive invariant, ScanInv: it adds that the scan    *)
(* has touched no vreg from vr on, that what is not active has expired     *)
(* before an interval that was met since, and that homes are registers.    *)
(***************************************************************************)
EXTENDS LinearScan, TLAPS, FiniteSetTheorems, SequenceTheorems

-----------------------------------------------------------------------------
(* The IR.                                                                 *)

Ops == {"alloca", "load", "store", "add", "call", "ret", "ret_void"} \cup BinaryOps \cup UnaryOps
Instrs == [op : Ops, dst : Int, args : Seq(Int), flt : BOOLEAN]
OperandsSet == [v : Int, flt : BOOLEAN]
Locals == [ptr : Int, flt : BOOLEAN]

(* Types of the variables the lowering changes. *)
LowerTypeOK ==
    /\ code \in Seq(Instrs)
    /\ next_vreg \in Nat
    /\ stk \in Seq(OperandsSet)
    /\ locals \in SUBSET Locals

LEMMA InitLowerTypes == InitLower => LowerTypeOK
<1> SUFFICES ASSUME InitLower PROVE LowerTypeOK
    OBVIOUS
<1>1. PICK n \in ParamCounts :
        /\ code = EntryCode(n)
        /\ next_vreg = 2 * n
        /\ locals = {[ptr |-> n + k, flt |-> FALSE] : k \in 0 .. n - 1}
        /\ stk = << >>
    BY DEF InitLower
<1>2. n \in Nat
    BY IRAssumption DEF IRAssumption
<1>3. EntryCode(n) \in Seq(Instrs)
  <2>1. ASSUME NEW i \in 1 .. 2 * n
        PROVE  (IF i % 2 = 1 THEN Instr("alloca", n + ((i - 1) \div 2), <<Imm>>, FALSE)
                ELSE Instr("store", n + ((i - 1) \div 2), <<Imm, (i - 1) \div 2>>, FALSE)) \in Instrs
    <3>1. (i - 1) \div 2 \in Int
        BY <1>2, <2>1
    <3>2. <<Imm>> \in Seq(Int) /\ <<Imm, (i - 1) \div 2>> \in Seq(Int)
        BY <3>1 DEF Imm
    <3>. QED
        BY <1>2, <3>1, <3>2 DEF Instr, Instrs, Ops
  <2>2. EntryCode(n) = [i \in 1 .. 2 * n |->
            IF i % 2 = 1 THEN Instr("alloca", n + ((i - 1) \div 2), <<Imm>>, FALSE)
                ELSE Instr("store", n + ((i - 1) \div 2), <<Imm, (i - 1) \div 2>>, FALSE)]
      BY Zenon DEF EntryCode
  <2>3. EntryCode(n) \in [1 .. 2 * n -> Instrs]
      BY <2>1, <2>2, Zenon
  <2>4. 2 * n \in Nat
      BY <1>2
  <2>. QED
      BY <2>3, <2>4
<1>4. {[ptr |-> n + k, flt |-> FALSE] : k \in 0 .. n - 1} \in SUBSET Locals
  <2>1. \A k \in 0 .. n - 1 : [ptr |-> n + k, flt |-> FALSE] \in Locals
      BY <1>2 DEF Locals
  <2>. QED
      BY <2>1
<1>5. << >> \in Seq(OperandsSet) /\ 2 * n \in Nat
    BY <1>2
<1>. QED
    BY <1>1, <1>3, <1>4, <1>5 DEF LowerTypeOK

(* The operands on the stack are operands, and so are those left by Pop. *)
LEMMA StackTypes ==
    ASSUME LowerTypeOK
    PROVE  /\ \A i \in 1 .. Len(stk) : stk[i] \in OperandsSet
           /\ \A k \in 0 .. Len(stk) : Pop(k) \in Seq(OperandsSet)
           /\ stk # << >> => Len(stk) >= 1 /\ Top \in OperandsSet
<1>1. stk \in Seq(OperandsSet)
    BY DEF LowerTypeOK
<1>2. \A i \in 1 .. Len(stk) : stk[i] \in OperandsSet
    BY <1>1, ElementOfSeq
<1>3. ASSUME NEW k \in 0 .. Len(stk) PROVE Pop(k) \in Seq(OperandsSet)
    BY <1>1, <1>3, SubSeqProperties DEF Pop
<1>4. stk # << >> => Len(stk) >= 1 /\ Len(stk) \in 1 .. Len(stk)
    BY <1>1, EmptySeq, LenProperties
<1>. QED
    BY <1>2, <1>3, <1>4 DEF Top

LEMMA OperandTypes ==
    /\ \A o \in OperandsSet : o.v \in Int /\ o.flt \in BOOLEAN
    /\ \A v \in Int, flt \in BOOLEAN : Operand(v, flt) \in OperandsSet
BY DEF OperandsSet, Operand

LEMMA EmitValueTypes ==
    ASSUME LowerTypeOK, NEW op \in Ops, NEW args \in Seq(Int), NEW flt \in BOOLEAN,
           EmitValue(op, args, flt)
    PROVE  code' \in Seq(Instrs) /\ next_vreg' \in Nat
BY DEF LowerTypeOK, EmitValue, Instr, Instrs

LEMMA EmitEffectTypes ==
    ASSUME LowerTypeOK, NEW op \in Ops, NEW dst \in Int, NEW args \in Seq(Int),
           EmitEffect(op, dst, args)
    PROVE  code' \in Seq(Instrs) /\ next_vreg' \in Nat
BY DEF LowerTypeOK, EmitEffect, Instr, Instrs

(* Every step of the lowering keeps these types: one step of the proof per *)
(* expression form.                                                        *)
LEMMA LowerTypes == LowerTypeOK /\ Lower => LowerTypeOK'
<1> SUFFICES ASSUME LowerTypeOK, Lower PROVE LowerTypeOK'
    OBVIOUS
<1>0. Classes \subseteq BOOLEAN
    BY IRAssumption DEF IRAssumption
<1>1. /\ Len(stk) \in Nat /\ Imm \in Int /\ Void \in Int /\ next_vreg \in Nat
      /\ code \in Seq(Instrs) /\ stk \in Seq(OperandsSet) /\ locals \in SUBSET Locals
    BY DEF LowerTypeOK, Imm, Void
<1>L. \A l \in locals : l.ptr \in Int /\ l.flt \in BOOLEAN
    BY <1>1 DEF Locals
<1>O. /\ \A v \in Int, flt \in BOOLEAN : Operand(v, flt) \in OperandsSet
      /\ \A o \in OperandsSet : o.v \in Int /\ o.flt \in BOOLEAN
    BY OperandTypes
<1>S. /\ \A i \in 1 .. Len(stk) : stk[i] \in OperandsSet
      /\ \A k \in 0 .. Len(stk) : Pop(k) \in Seq(OperandsSet)
      /\ stk # << >> => Len(stk) >= 1 /\ Top \in OperandsSet
    BY StackTypes
<1>2. ASSUME NEW flt \in Classes, Let(flt) PROVE LowerTypeOK'
  <2>1. code' \in Seq(Instrs) /\ next_vreg' \in Nat
      BY <1>0, <1>1, <1>2, EmitValueTypes, <<Imm>> \in Seq(Int) DEF Let, Ops
  <2>. QED
      BY <1>0, <1>1, <1>2, <2>1 DEF Let, LowerTypeOK, Locals
<1>3. ASSUME Literal PROVE LowerTypeOK'
  <2>1. PICK o \in OperandsSet : stk' = Append(stk, o)
      BY <1>1, <1>3 DEF Literal, Operand, OperandsSet
  <2>2. stk' \in Seq(OperandsSet)
      BY <1>1, <2>1
  <2>3. UNCHANGED <<code, next_vreg, locals>>
      BY <1>3 DEF Literal
  <2>. QED
      BY <1>1, <2>2, <2>3 DEF LowerTypeOK
<1>4. ASSUME NEW l \in locals, ReadLocal(l) PROVE LowerTypeOK'
  <2>1. l.ptr \in Int /\ l.flt \in BOOLEAN
      BY <1>L
  <2>2. code' \in Seq(Instrs) /\ next_vreg' \in Nat
      BY <1>1, <1>4, <2>1, EmitValueTypes, <<l.ptr, Imm>> \in Seq(Int) DEF ReadLocal, Ops
  <2>. QED
      BY <1>1, <1>4, <1>O, <2>1, <2>2 DEF ReadLocal, LowerTypeOK
<1>5. ASSUME NEW op \in BinaryOps, Binary(op) PROVE LowerTypeOK'
  <2> DEFINE lhs == stk[Len(stk) - 1]
  <2>1. Len(stk) >= 2 /\ Pop(2) \in Seq(OperandsSet)
      BY <1>1, <1>5, <1>S DEF Binary
  <2>2. lhs \in OperandsSet /\ Top \in OperandsSet
      BY <1>1, <1>S, <2>1
  <2>3. code' \in Seq(Instrs) /\ next_vreg' \in Nat
      BY <1>5, <1>O, <2>2, EmitValueTypes, <<lhs.v, Top.v>> \in Seq(Int) DEF Binary, Ops
  <2>. QED
      BY <1>1, <1>5, <1>O, <2>1, <2>2, <2>3 DEF Binary, LowerTypeOK
<1>6. ASSUME NEW op \in UnaryOps, Unary(op) PROVE LowerTypeOK'
  <2>1. stk # << >> /\ Len(stk) >= 1
      BY <1>6, <1>S DEF Unary
  <2>2. Pop(1) \in Seq(OperandsSet) /\ Top \in OperandsSet
      BY <1>1, <1>S, <2>1
  <2>3. code' \in Seq(Instrs) /\ next_vreg' \in Nat
      BY <1>6, <1>O, <2>2, EmitValueTypes, <<Top.v>> \in Seq(Int) DEF Unary, Ops
  <2>. QED
      BY <1>1, <1>6, <1>O, <2>2, <2>3 DEF Unary, LowerTypeOK
<1>7. ASSUME NEW l \in locals, Assign(l) PROVE LowerTypeOK'
  <2>1. stk # << >> /\ Len(stk) >= 1 /\ l.ptr \in Int
      BY <1>7, <1>L, <1>S DEF Assign
  <2>2. Top \in OperandsSet
      BY <1>1, <1>S, <2>1
  <2>3. code' \in Seq(Instrs) /\ next_vreg' \in Nat
      BY <1>1, <1>7, <1>O, <2>1, <2>2, EmitEffectTypes, <<Imm, Top.v>> \in Seq(Int) DEF Assign, Ops
  <2>. QED
      BY <1>1, <1>7, <2>3 DEF Assign, LowerTypeOK
<1>8. ASSUME NEW l \in locals, AddressOf(l) PROVE LowerTypeOK'
  <2>1. PICK o \in OperandsSet : stk' = Append(stk, o)
      BY <1>8, <1>L DEF AddressOf, Operand, OperandsSet
  <2>2. stk' \in Seq(OperandsSet)
      BY <1>1, <2>1
  <2>3. UNCHANGED <<code, next_vreg, locals>>
      BY <1>8 DEF AddressOf
  <2>. QED
      BY <1>1, <2>2, <2>3 DEF LowerTypeOK
<1>9. ASSUME NEW l \in locals, PostIncrement(l) PROVE LowerTypeOK'
  <2>1. l.ptr \in Int /\ l.flt \in BOOLEAN /\ next_vreg \in Nat
      BY <1>1, <1>L
  <2>2. /\ <<l.ptr, Imm>> \in Seq(Int) /\ <<next_vreg, Imm>> \in Seq(Int)
        /\ <<Imm, next_vreg + 1>> \in Seq(Int)
      BY <1>1, <2>1
  <2>3. /\ Instr("load", next_vreg, <<l.ptr, Imm>>, l.flt) \in Instrs
        /\ Instr("add", next_vreg + 1, <<next_vreg, Imm>>, l.flt) \in Instrs
        /\ Instr("store", l.ptr, <<Imm, next_vreg + 1>>, FALSE) \in Instrs
      BY <2>1, <2>2 DEF Instr, Instrs, Ops
  <2>5. PICK load \in Instrs, add \in Instrs, store \in Instrs :
            code' = code \o <<load, add, store>>
      BY <1>9, <2>3, Zenon DEF PostIncrement
  <2>4. <<load, add, store>> \in Seq(Instrs)
      OBVIOUS
  <2>6. code' \in Seq(Instrs)
      BY <1>1, <2>4, <2>5, ConcatProperties
  <2>7. PICK o \in OperandsSet : stk' = Append(stk, o)
      BY <1>9, <2>1 DEF PostIncrement, Operand, OperandsSet
  <2>8. stk' \in Seq(OperandsSet)
      BY <1>1, <2>7
  <2>9. next_vreg' \in Nat /\ UNCHANGED locals
      BY <1>9, <2>1 DEF PostIncrement
  <2>. QED
      BY <1>1, <2>6, <2>8, <2>9 DEF LowerTypeOK
<1>10. ASSUME NEW flt \in Classes, Deref(flt) PROVE LowerTypeOK'
  <2>1. stk # << >> /\ Len(stk) >= 1
      BY <1>10, <1>S DEF Deref
  <2>2. Pop(1) \in Seq(OperandsSet) /\ Top \in OperandsSet
      BY <1>1, <1>S, <2>1
  <2>3. code' \in Seq(Instrs) /\ next_vreg' \in Nat
      BY <1>0, <1>1, <1>10, <1>O, <2>2, EmitValueTypes, <<Top.v, Imm>> \in Seq(Int) DEF Deref, Ops
  <2>. QED
      BY <1>0, <1>1, <1>10, <1>O, <2>2, <2>3 DEF Deref, LowerTypeOK
<1>11. ASSUME AssignDeref PROVE LowerTypeOK'
  <2> DEFINE val == stk[Len(stk) - 1]
  <2>1. Len(stk) >= 2 /\ Pop(1) \in Seq(OperandsSet)
      BY <1>1, <1>11, <1>S DEF AssignDeref
  <2>2. val \in OperandsSet /\ Top \in OperandsSet
      BY <1>1, <1>S, <2>1
  <2>3. code' \in Seq(Instrs) /\ next_vreg' \in Nat
      BY <1>1, <1>11, <1>O, <2>2, EmitEffectTypes, <<Imm, val.v>> \in Seq(Int) DEF AssignDeref, Ops
  <2>. QED
      BY <1>1, <1>11, <2>1, <2>3 DEF AssignDeref, LowerTypeOK
<1>12. ASSUME NEW n \in 0 .. MaxArgs, NEW vd \in BOOLEAN, Call(n, vd) PROVE LowerTypeOK'
  <2> DEFINE args == [i \in 1 .. n |-> stk[Len(stk) - n + i].v]
  <2>1. n \in Nat /\ n <= Len(stk) /\ Pop(n) \in Seq(OperandsSet)
      BY <1>1, <1>12, <1>S, IRAssumption DEF Call, IRAssumption
  <2>2. args \in [1 .. n -> Int]
    <3>1. \A i \in 1 .. n : stk[Len(stk) - n + i] \in OperandsSet
        BY <1>1, <1>S, <2>1
    <3>. QED
        BY <1>O, <3>1
  <2> HIDE DEF args
  <2>5. args \in Seq(Int)
      BY <2>1, <2>2
  <2>3. CASE vd
    <3>1. EmitEffect("call", Void, args) /\ stk' = Pop(n) /\ UNCHANGED locals
        BY <1>12, <2>3 DEF Call, args
    <3>. QED
        BY <1>1, <2>1, <2>5, <3>1, EmitEffectTypes DEF Ops, LowerTypeOK
  <2>4. CASE ~vd
    <3>1. /\ EmitValue("call", args, FALSE) /\ UNCHANGED locals
          /\ stk' = Append(Pop(n), Operand(next_vreg, FALSE))
        BY <1>12, <2>4 DEF Call, args
    <3>2. code' \in Seq(Instrs) /\ next_vreg' \in Nat
        BY <2>5, <3>1, EmitValueTypes DEF Ops
    <3>3. \E o \in OperandsSet : stk' = Append(Pop(n), o)
      <4>1. [v |-> next_vreg, flt |-> FALSE] \in OperandsSet
          BY <1>1 DEF OperandsSet
      <4>2. stk' = Append(Pop(n), [v |-> next_vreg, flt |-> FALSE])
          BY <3>1 DEF Operand
      <4>. QED
          BY <4>1, <4>2, Zenon
    <3>4. PICK o \in OperandsSet : stk' = Append(Pop(n), o)
        BY <3>3
    <3>5. stk' \in Seq(OperandsSet)
        BY <2>1, <3>4
    <3>. QED
        BY <1>1, <3>1, <3>2, <3>5 DEF LowerTypeOK
  <2>. QED
      BY <2>3, <2>4
<1>13. ASSUME Discard PROVE LowerTypeOK'
    BY <1>1, <1>13 DEF Discard, LowerTypeOK
<1>14. ASSUME Return PROVE LowerTypeOK'
  <2>1. code' \in Seq(Instrs) /\ next_vreg' \in Nat
    <3>1. CASE stk = << >>
        BY <1>1, <1>14, <3>1, EmitEffectTypes, << >> \in Seq(Int) DEF Return, Ops
    <3>2. CASE stk # << >>
      <4>1. Top \in OperandsSet
          BY <1>S, <3>2
      <4>. QED
          BY <1>1, <1>14, <1>O, <3>2, <4>1, EmitEffectTypes, <<Top.v>> \in Seq(Int) DEF Return, Ops
    <3>. QED
        BY <3>1, <3>2
  <2>. QED
      BY <1>1, <1>14, <2>1 DEF Return, LowerTypeOK
<1>. QED
    BY <1>2, <1>3, <1>4, <1>5, <1>6, <1>7, <1>8, <1>9, <1>10, <1>11, <1>12, <1>13, <1>14 DEF Lower

-----------------------------------------------------------------------------
(* The invariant of the scan.                                              *)

IntHomes(A) == {home[a] : a \in {b \in A : ~is_float[b]}}
XmmHomes(A) == {home[a] : a \in {b \in A : is_float[b]}}

(* Nothing is treated before the scan begins. *)
NotBegun ==
    /\ phase = "lower" => seq = 0
    /\ phase \in {"lower", "live"} => vr = 0

(* A vreg in a register has been treated, and its home is of its class. *)
HomesAreRegisters ==
    \A v \in VregIds : InRegister(v) =>
        /\ v < vr
        /\ ~is_float[v] => home[v] \in IntRegs
        /\ is_float[v] => home[v] \in XmmRegs

(* The active vregs are in registers, one each, and the others are free. *)
ActiveHoldRegisters ==
    /\ \A a \in active : InRegister(a)
    /\ \A a, b \in active : SameRegister(a, b) => a = b
    /\ int_free = IntRegs \ IntHomes(active)
    /\ xmm_free = XmmRegs \ XmmHomes(active)

(* A vreg in a register that is not active any more was expired by one met *)
(* since.                                                                  *)
RestIsExpired ==
    \A u \in VregIds : InRegister(u) /\ u \notin active =>
        \E k \in u + 1 .. vr - 1 : last_use[u] < first_use[k]

ScanInv ==
    /\ NotBegun
    /\ HomesAreRegisters
    /\ ActiveHoldRegisters
    /\ RestIsExpired
    /\ NoOverlap

Inv == LowerTypeOK /\ TypeOK /\ ScanInv

-----------------------------------------------------------------------------
(* Facts about one step of the scan.                                       *)

Kept == active \ Expired(vr)

(* Expiring the intervals that end before vr begins leaves free exactly    *)
(* the registers that no remaining interval holds.                         *)
LEMMA ExpiringFrees ==
    ASSUME TypeOK, ScanInv
    PROVE  /\ int_free \cup Returned(vr, FALSE) = IntRegs \ IntHomes(Kept)
           /\ xmm_free \cup Returned(vr, TRUE) = XmmRegs \ XmmHomes(Kept)
<1> USE DEF ScanInv
<1>1. /\ Expired(vr) \subseteq active /\ active \subseteq VregIds
      /\ is_float \in [VregIds -> BOOLEAN]
    BY DEF TypeOK, Expired
<1>2. Returned(vr, FALSE) = IntHomes(Expired(vr)) /\ Returned(vr, TRUE) = XmmHomes(Expired(vr))
    BY <1>1 DEF Returned, IntHomes, XmmHomes
<1>3. \A a \in active : (~is_float[a] => home[a] \in IntRegs) /\ (is_float[a] => home[a] \in XmmRegs)
    BY <1>1 DEF ActiveHoldRegisters, HomesAreRegisters
<1>4. \A a, b \in active : is_float[a] = is_float[b] /\ home[a] = home[b] => a = b
    BY DEF ActiveHoldRegisters, SameRegister
<1>5. int_free \cup IntHomes(Expired(vr)) = IntRegs \ IntHomes(Kept)
  <2>1. int_free = IntRegs \ IntHomes(active)
      BY DEF ActiveHoldRegisters
  <2>2. IntHomes(active) = IntHomes(Expired(vr)) \cup IntHomes(Kept)
      BY <1>1 DEF IntHomes, Kept
  <2>3. IntHomes(Expired(vr)) \cap IntHomes(Kept) = {}
      BY <1>1, <1>4 DEF IntHomes, Kept
  <2>4. IntHomes(Expired(vr)) \subseteq IntRegs
      BY <1>1, <1>3 DEF IntHomes
  <2>. QED
      BY <2>1, <2>2, <2>3, <2>4
<1>6. xmm_free \cup XmmHomes(Expired(vr)) = XmmRegs \ XmmHomes(Kept)
  <2>1. xmm_free = XmmRegs \ XmmHomes(active)
      BY DEF ActiveHoldRegisters
  <2>2. XmmHomes(active) = XmmHomes(Expired(vr)) \cup XmmHomes(Kept)
      BY <1>1 DEF XmmHomes, Kept
  <2>3. XmmHomes(Expired(vr)) \cap XmmHomes(Kept) = {}
      BY <1>1, <1>4 DEF XmmHomes, Kept
  <2>4. XmmHomes(Expired(vr)) \subseteq XmmRegs
      BY <1>1, <1>3 DEF XmmHomes
  <2>. QED
      BY <2>1, <2>2, <2>3, <2>4
<1>. QED
    BY <1>2, <1>5, <1>6

(* A set of vregs whose homes are distinct members of R is no larger than  *)
(* R.                                                                      *)
LEMMA HomesBoundVregs ==
    ASSUME NEW A, NEW R, IsFiniteSet(R),
           \A a \in A : home[a] \in R,
           \A a, b \in A : home[a] = home[b] => a = b
    PROVE  IsFiniteSet(A) /\ Cardinality(A) <= Cardinality(R)
<1> DEFINE f == [a \in A |-> home[a]]
<1>1. f \in Injection(A, R)
    BY DEF Injection, IsInjective
<1>. QED
    BY <1>1, FS_Injection

(* When a register is free for vr, active has room for vr. *)
LEMMA KeptFits ==
    ASSUME TypeOK, ScanInv, FreeFor(vr) # {}
    PROVE  Cardinality(Kept) < ActiveMax
<1> DEFINE KI == {a \in Kept : ~is_float[a]}
           KX == {a \in Kept : is_float[a]}
<1>1. /\ Kept \subseteq active /\ active \subseteq VregIds
      /\ is_float \in [VregIds -> BOOLEAN]
    BY DEF TypeOK, Kept
<1>2. \A a, b \in Kept : is_float[a] = is_float[b] /\ home[a] = home[b] => a = b
    BY <1>1 DEF ScanInv, ActiveHoldRegisters, SameRegister
<1>3. \A a \in Kept : (~is_float[a] => home[a] \in IntRegs) /\ (is_float[a] => home[a] \in XmmRegs)
    BY <1>1 DEF ScanInv, ActiveHoldRegisters, HomesAreRegisters
<1>4. /\ IsFiniteSet(IntRegs) /\ IsFiniteSet(XmmRegs) /\ ActiveMax \in Nat
      /\ Cardinality(IntRegs) + Cardinality(XmmRegs) <= ActiveMax
      /\ Cardinality(IntRegs) \in Nat /\ Cardinality(XmmRegs) \in Nat
    BY ScanAssumption, FS_CardinalityType DEF ScanAssumption
<1>5. /\ IsFiniteSet(KI) /\ Cardinality(KI) <= Cardinality(IntRegs)
      /\ IsFiniteSet(KX) /\ Cardinality(KX) <= Cardinality(XmmRegs)
  <2>1. /\ \A a \in KI : home[a] \in IntRegs
        /\ \A a \in KX : home[a] \in XmmRegs
      BY <1>3
  <2>2. /\ \A a, b \in KI : home[a] = home[b] => a = b
        /\ \A a, b \in KX : home[a] = home[b] => a = b
      BY <1>1, <1>2
  <2>. QED
      BY <1>4, <2>1, <2>2, HomesBoundVregs
<1>6. Cardinality(Kept) = Cardinality(KI) + Cardinality(KX)
  <2>1. Kept = KI \cup KX /\ KI \cap KX = {}
      BY <1>1
  <2> HIDE DEF KI, KX
  <2>2. Cardinality(KI \cup KX) = Cardinality(KI) + Cardinality(KX) - Cardinality(KI \cap KX)
      BY <1>5, FS_Union
  <2>3. Cardinality(KI) \in Nat /\ Cardinality(KX) \in Nat
      BY <1>5, FS_CardinalityType
  <2>. QED
      BY <2>1, <2>2, <2>3, FS_EmptySet
<1>7. Cardinality(KI) < Cardinality(IntRegs) \/ Cardinality(KX) < Cardinality(XmmRegs)
  <2>1. CASE is_float[vr]
    <3>1. PICK r \in XmmRegs : r \notin XmmHomes(Kept)
        BY <2>1, ExpiringFrees DEF FreeFor
    <3>2. \A a \in KX : home[a] \in XmmRegs \ {r}
        BY <1>3, <3>1 DEF XmmHomes
    <3>3. /\ IsFiniteSet(XmmRegs \ {r})
          /\ Cardinality(XmmRegs \ {r}) = Cardinality(XmmRegs) - 1
        BY <1>4, <3>1, FS_RemoveElement
    <3>4. \A a, b \in KX : home[a] = home[b] => a = b
        BY <1>1, <1>2
    <3>5. Cardinality(KX) <= Cardinality(XmmRegs \ {r})
        BY <3>2, <3>3, <3>4, HomesBoundVregs
    <3>. QED
        BY <1>4, <1>5, <3>3, <3>5, FS_CardinalityType
  <2>2. CASE ~is_float[vr]
    <3>1. PICK r \in IntRegs : r \notin IntHomes(Kept)
        BY <2>2, ExpiringFrees DEF FreeFor
    <3>2. \A a \in KI : home[a] \in IntRegs \ {r}
        BY <1>3, <3>1 DEF IntHomes
    <3>3. /\ IsFiniteSet(IntRegs \ {r})
          /\ Cardinality(IntRegs \ {r}) = Cardinality(IntRegs) - 1
        BY <1>4, <3>1, FS_RemoveElement
    <3>4. \A a, b \in KI : home[a] = home[b] => a = b
        BY <1>1, <1>2
    <3>5. Cardinality(KI) <= Cardinality(IntRegs \ {r})
        BY <3>2, <3>3, <3>4, HomesBoundVregs
    <3>. QED
        BY <1>4, <1>5, <3>3, <3>5, FS_CardinalityType
  <2>. QED
      BY <2>1, <2>2
<1>. QED
    BY <1>4, <1>5, <1>6, <1>7, FS_CardinalityType

-----------------------------------------------------------------------------
(* Type correctness.                                                       *)

LEMMA InitType == Init => LowerTypeOK /\ TypeOK /\ ScanInv
<1> SUFFICES ASSUME Init PROVE LowerTypeOK /\ TypeOK /\ ScanInv
    OBVIOUS
<1>1. LowerTypeOK
    BY InitLowerTypes DEF Init
<1>2. Len(code) \in Nat /\ next_vreg \in Nat /\ MaxVregs \in Nat
    BY <1>1, ScanAssumption DEF LowerTypeOK, ScanAssumption
<1>3. TypeOK
    BY <1>2 DEF Init, InitAlloc, TypeOK
<1>4. ScanInv
    BY DEF Init, InitAlloc, ScanInv, NotBegun, HomesAreRegisters, ActiveHoldRegisters,
           RestIsExpired, NoOverlap, InRegister, SameRegister, IntHomes, XmmHomes
<1>. QED
    BY <1>1, <1>3, <1>4

(* Every step keeps the types: one step of the proof per action. *)
LEMMA NextType == LowerTypeOK /\ TypeOK /\ ScanInv /\ [Next]_vars => LowerTypeOK' /\ TypeOK'
<1> SUFFICES ASSUME LowerTypeOK, TypeOK, ScanInv, [Next]_vars
             PROVE  LowerTypeOK' /\ TypeOK'
    OBVIOUS
<1>1. /\ Len(code) \in Nat /\ next_vreg \in Nat /\ MaxVregs \in Nat
      /\ VregIds \subseteq Nat
    BY ScanAssumption DEF LowerTypeOK, ScanAssumption, VregIds
<1>2. CASE UNCHANGED vars
    BY <1>2 DEF vars, irVars, allocVars, liveVars, scanVars, LowerTypeOK, TypeOK
<1>3. CASE phase = "lower" /\ Lower /\ UNCHANGED allocVars
  <2>1. LowerTypeOK'
      BY <1>3, LowerTypes
  <2>2. seq = 0 /\ vr = 0
      BY <1>3 DEF ScanInv, NotBegun
  <2>3. Len(code)' \in Nat /\ next_vreg' \in Nat
      BY <2>1 DEF LowerTypeOK
  <2>. QED
      BY <1>1, <1>3, <2>1, <2>2, <2>3 DEF TypeOK, allocVars, liveVars, scanVars
<1>4. ASSUME Allocate PROVE UNCHANGED irVars
    BY <1>4 DEF Allocate, BeginLiveness, Mark, BeginScan, Skip, AssignRegister, SpillVreg, EndScan
<1>5. ASSUME Allocate PROVE LowerTypeOK'
    BY <1>4, <1>5 DEF LowerTypeOK, irVars
<1>6. ASSUME BeginLiveness PROVE TypeOK'
    BY <1>6 DEF BeginLiveness, TypeOK, irVars, liveVars, scanVars
<1>7. ASSUME Mark PROVE TypeOK'
  <2>1. code[seq + 1] \in Instrs /\ seq + 1 \in 0 .. Len(code)
      BY <1>1, <1>7, ElementOfSeq DEF Mark, LowerTypeOK, TypeOK
  <2>2. code[seq + 1].flt \in BOOLEAN
      BY <2>1 DEF Instrs
  <2>3. seq' \in 0 .. Len(code)
      BY <2>1, <1>7 DEF Mark
  <2>4. first_use' \in [VregIds -> Nat] /\ last_use' \in [VregIds -> Nat]
      BY <1>7 DEF Mark, TypeOK
  <2>5. is_float' \in [VregIds -> BOOLEAN]
      BY <1>7, <2>2 DEF Mark, TypeOK
  <2>. QED
      BY <1>7, <2>3, <2>4, <2>5 DEF Mark, TypeOK, irVars, scanVars
<1>8. ASSUME BeginScan PROVE TypeOK'
    BY <1>8 DEF BeginScan, TypeOK, irVars, liveVars, scanVars
<1>9. ASSUME Skip PROVE TypeOK'
    BY <1>1, <1>9 DEF Skip, Scanning, TypeOK, irVars, liveVars
<1>10. ASSUME AssignRegister PROVE TypeOK'
  <2>1. vr \in VregIds /\ vr' \in 0 .. MaxVregs /\ vr' <= next_vreg
      BY <1>1, <1>10 DEF AssignRegister, Scanning, TypeOK, VregIds
  <2>2. PICK r \in FreeFor(vr) :
          /\ home' = [home EXCEPT ![vr] = r]
          /\ state' = [state EXCEPT ![vr] = "in_register"]
          /\ IF is_float[vr]
             THEN /\ xmm_free' = FreeFor(vr) \ {r}
                  /\ int_free' = int_free \cup Returned(vr, FALSE)
             ELSE /\ int_free' = FreeFor(vr) \ {r}
                  /\ xmm_free' = xmm_free \cup Returned(vr, TRUE)
          /\ active' = AddActive(vr, active \ Expired(vr))
          /\ UNCHANGED next_slot
      BY <1>10 DEF AssignRegister, TakeLowest
  <2>3. /\ int_free \cup Returned(vr, FALSE) \subseteq IntRegs
        /\ xmm_free \cup Returned(vr, TRUE) \subseteq XmmRegs
      BY ExpiringFrees
  <2>4. r \in Int
    <3>1. r \in IntRegs \cup XmmRegs
        BY <2>3, Zenon DEF FreeFor
    <3>. QED
        BY <3>1, ScanAssumption DEF ScanAssumption
  <2>5. int_free' \subseteq IntRegs /\ xmm_free' \subseteq XmmRegs
      BY <2>2, <2>3 DEF FreeFor
  <2>6. active' \subseteq VregIds
      BY <2>1, <2>2 DEF AddActive, TypeOK
  <2>7. home' \in [VregIds -> Int]
      BY <2>2, <2>4 DEF TypeOK
  <2>8. state' \in [VregIds -> {"unallocated", "in_register", "spilled"}]
      BY <2>2 DEF TypeOK
  <2>. QED
      BY <1>10, <2>1, <2>2, <2>5, <2>6, <2>7, <2>8 DEF AssignRegister, TypeOK, irVars, liveVars
<1>11. ASSUME SpillVreg PROVE TypeOK'
  <2>1. vr \in VregIds /\ vr' \in 0 .. MaxVregs /\ vr' <= next_vreg
      BY <1>1, <1>11 DEF SpillVreg, Scanning, TypeOK, VregIds
  <2>2. int_free' \subseteq IntRegs /\ xmm_free' \subseteq XmmRegs
      BY <1>11, ExpiringFrees DEF SpillVreg, Spill
  <2>3. home' \in [VregIds -> Int] /\ next_slot' \in Int
      BY <1>11, <2>1 DEF SpillVreg, Spill, TypeOK
  <2>4. state' \in [VregIds -> {"unallocated", "in_register", "spilled"}]
      BY <1>11 DEF SpillVreg, Spill, TypeOK
  <2>5. active' \subseteq VregIds
      BY <1>11 DEF SpillVreg, Spill, TypeOK
  <2>. QED
      BY <1>11, <2>1, <2>2, <2>3, <2>4, <2>5 DEF SpillVreg, TypeOK, irVars, liveVars
<1>12. ASSUME EndScan PROVE TypeOK'
    BY <1>12 DEF EndScan, TypeOK, irVars, liveVars, scanVars
<1>. QED
    BY <1>2, <1>3, <1>5, <1>6, <1>7, <1>8, <1>9, <1>10, <1>11, <1>12 DEF Next, Allocate

(* Spilling: what is active changes only by expiring intervals, with vr as *)
(* the witness.                                                            *)
LEMMA ExpiringKeepsInv ==
    ASSUME Inv, Scanning,
           /\ UNCHANGED <<next_vreg, phase, liveVars>>
           /\ \A v \in VregIds : v # vr => state'[v] = state[v] /\ home'[v] = home[v]
           /\ state'[vr] # "in_register"
           /\ vr' = vr + 1
           /\ active' = Kept
           /\ int_free' = int_free \cup Returned(vr, FALSE)
           /\ xmm_free' = xmm_free \cup Returned(vr, TRUE)
    PROVE  ScanInv'
<1>0. TypeOK /\ NotBegun /\ HomesAreRegisters /\ ActiveHoldRegisters /\ RestIsExpired /\ NoOverlap
    BY DEF Inv, ScanInv
<1>1. /\ MaxVregs \in Nat /\ VregIds \subseteq Nat /\ vr \in VregIds
      /\ active \subseteq VregIds /\ Kept \subseteq active
      /\ is_float \in [VregIds -> BOOLEAN]
      /\ first_use \in [VregIds -> Nat] /\ last_use \in [VregIds -> Nat]
  <2>1. /\ active \subseteq VregIds /\ is_float \in [VregIds -> BOOLEAN]
        /\ first_use \in [VregIds -> Nat] /\ last_use \in [VregIds -> Nat]
        /\ vr \in 0 .. MaxVregs /\ vr <= next_vreg
      BY <1>0 DEF TypeOK
  <2>2. MaxVregs \in Nat /\ VregIds \subseteq Nat
      BY ScanAssumption DEF ScanAssumption, VregIds
  <2>3. vr \in VregIds
      BY <2>1, <2>2 DEF VregIds, Scanning
  <2>. QED
      BY <2>1, <2>2, <2>3 DEF Kept
<1>2. /\ is_float' = is_float /\ first_use' = first_use /\ last_use' = last_use /\ phase' = phase
      /\ phase = "scan"
    BY DEF liveVars, Scanning
<1>3. ~InRegister(vr)
    BY <1>0, <1>1 DEF HomesAreRegisters
<1>4. \A v \in VregIds : /\ InRegister(v)' <=> InRegister(v)
                         /\ InRegister(v) => home'[v] = home[v]
    BY <1>3 DEF InRegister
<1>5. \A u, v \in VregIds : SameRegister(u, v)' <=> SameRegister(u, v)
    BY <1>2, <1>4 DEF SameRegister
<1>6. NotBegun'
    BY <1>0, <1>2 DEF NotBegun
<1>7. HomesAreRegisters'
    BY <1>0, <1>1, <1>2, <1>4 DEF HomesAreRegisters
<1>8. ActiveHoldRegisters'
  <2>1. \A a \in Kept : InRegister(a) /\ home'[a] = home[a]
      BY <1>0, <1>1, <1>4 DEF ActiveHoldRegisters
  <2>2. IntHomes(active)' = IntHomes(Kept) /\ XmmHomes(active)' = XmmHomes(Kept)
      BY <1>1, <1>2, <2>1 DEF IntHomes, XmmHomes
  <2>3. /\ \A a \in active' : InRegister(a)'
        /\ \A a, b \in active' : SameRegister(a, b)' => a = b
      BY <1>0, <1>1, <1>4, <1>5 DEF ActiveHoldRegisters
  <2>4. int_free' = IntRegs \ IntHomes(active)' /\ xmm_free' = XmmRegs \ XmmHomes(active)'
    <3>1. /\ int_free \cup Returned(vr, FALSE) = IntRegs \ IntHomes(Kept)
          /\ xmm_free \cup Returned(vr, TRUE) = XmmRegs \ XmmHomes(Kept)
        BY ExpiringFrees DEF Inv
    <3>. QED
        BY <2>2, <3>1, Zenon
  <2>. QED
      BY <2>3, <2>4 DEF ActiveHoldRegisters
<1>9. RestIsExpired'
  <2>1. ASSUME NEW u \in VregIds, InRegister(u), u \notin Kept
        PROVE  \E k \in u + 1 .. vr : last_use[u] < first_use[k]
    <3>1. CASE u \in active
      <4>1. last_use[u] < first_use[vr] /\ u < vr
          BY <1>0, <1>1, <2>1, <3>1 DEF Kept, Expired, HomesAreRegisters, ActiveHoldRegisters
      <4>. QED
          BY <1>1, <4>1
    <3>2. CASE u \notin active
        BY <1>0, <1>1, <2>1, <3>2 DEF RestIsExpired
    <3>. QED
        BY <3>1, <3>2
  <2>2. vr' - 1 = vr /\ active' = Kept
      BY <1>1
  <2>3. ASSUME NEW u \in VregIds, InRegister(u)', u \notin active'
        PROVE  \E k \in u + 1 .. vr' - 1 : last_use'[u] < first_use'[k]
    <3>1. InRegister(u) /\ u \notin Kept
        BY <1>4, <2>2, <2>3, Zenon
    <3>. QED
        BY <1>2, <2>1, <2>2, <3>1
  <2>. QED
      BY <2>3 DEF RestIsExpired
<1>10. NoOverlap'
    BY <1>0, <1>1, <1>2, <1>5 DEF NoOverlap
<1>. QED
    BY <1>6, <1>7, <1>8, <1>9, <1>10 DEF ScanInv

(* Assigning a register: the chosen one is held by no active vreg, and     *)
(* whoever had it earlier was expired by an interval met since.            *)
LEMMA AssignKeepsInv == Inv /\ AssignRegister => ScanInv'
<1> SUFFICES ASSUME Inv, AssignRegister PROVE ScanInv'
    OBVIOUS
<1>0. TypeOK /\ NotBegun /\ HomesAreRegisters /\ ActiveHoldRegisters /\ RestIsExpired /\ NoOverlap
    BY DEF Inv, ScanInv
<1>1. /\ MaxVregs \in Nat /\ VregIds \subseteq Nat /\ vr \in VregIds
      /\ active \subseteq VregIds /\ Kept \subseteq active
      /\ is_float \in [VregIds -> BOOLEAN]
      /\ first_use \in [VregIds -> Nat] /\ last_use \in [VregIds -> Nat]
      /\ home \in [VregIds -> Int] /\ state \in [VregIds -> {"unallocated", "in_register", "spilled"}]
  <2>1. /\ active \subseteq VregIds /\ is_float \in [VregIds -> BOOLEAN]
        /\ first_use \in [VregIds -> Nat] /\ last_use \in [VregIds -> Nat]
        /\ home \in [VregIds -> Int] /\ state \in [VregIds -> {"unallocated", "in_register", "spilled"}]
        /\ vr \in 0 .. MaxVregs /\ vr <= next_vreg
      BY <1>0 DEF TypeOK
  <2>2. MaxVregs \in Nat /\ VregIds \subseteq Nat
      BY ScanAssumption DEF ScanAssumption, VregIds
  <2>3. vr \in VregIds
      BY <2>1, <2>2 DEF VregIds, AssignRegister, Scanning
  <2>. QED
      BY <2>1, <2>2, <2>3 DEF Kept
<1>2. /\ is_float' = is_float /\ first_use' = first_use /\ last_use' = last_use
      /\ phase' = phase /\ phase = "scan" /\ vr' = vr + 1
    BY DEF AssignRegister, Scanning, liveVars
<1>3. PICK r \in FreeFor(vr) :
        /\ home' = [home EXCEPT ![vr] = r]
        /\ state' = [state EXCEPT ![vr] = "in_register"]
        /\ IF is_float[vr]
           THEN /\ xmm_free' = FreeFor(vr) \ {r}
                /\ int_free' = int_free \cup Returned(vr, FALSE)
           ELSE /\ int_free' = FreeFor(vr) \ {r}
                /\ xmm_free' = xmm_free \cup Returned(vr, TRUE)
        /\ active' = AddActive(vr, active \ Expired(vr))
    BY DEF AssignRegister, TakeLowest
<1>4. /\ is_float[vr] => FreeFor(vr) = XmmRegs \ XmmHomes(Kept)
      /\ ~is_float[vr] => FreeFor(vr) = IntRegs \ IntHomes(Kept)
      /\ int_free \cup Returned(vr, FALSE) = IntRegs \ IntHomes(Kept)
      /\ xmm_free \cup Returned(vr, TRUE) = XmmRegs \ XmmHomes(Kept)
    BY <1>0, ExpiringFrees DEF FreeFor, Inv
<1>5. active' = Kept \cup {vr}
    BY <1>3, KeptFits DEF AddActive, Kept, Inv
<1>6. ~InRegister(vr) /\ vr \notin Kept
    BY <1>0, <1>1 DEF HomesAreRegisters, ActiveHoldRegisters
<1>7. /\ \A v \in VregIds \ {vr} : home'[v] = home[v] /\ (InRegister(v)' <=> InRegister(v))
      /\ home'[vr] = r /\ state'[vr] = "in_register"
  <2>1. home' = [home EXCEPT ![vr] = r] /\ state' = [state EXCEPT ![vr] = "in_register"]
      BY <1>3, Zenon
  <2>. QED
      BY <1>1, <2>1 DEF InRegister
<1>8. \A u, v \in VregIds \ {vr} : SameRegister(u, v)' <=> SameRegister(u, v)
    BY <1>2, <1>7 DEF SameRegister
(* The register was taken from nobody who is still active. *)
<1>9. \A a \in Kept : is_float[a] = is_float[vr] => home[a] # r
    BY <1>1, <1>3, <1>4 DEF IntHomes, XmmHomes
<1>10. NotBegun'
    BY <1>0, <1>2 DEF NotBegun
<1>11. HomesAreRegisters'
  <2>1. \A v \in VregIds \ {vr} : InRegister(v)' =>
            v < vr + 1 /\ (~is_float[v] => home'[v] \in IntRegs) /\ (is_float[v] => home'[v] \in XmmRegs)
      BY <1>0, <1>1, <1>7 DEF HomesAreRegisters
  <2>2. (~is_float[vr] => r \in IntRegs) /\ (is_float[vr] => r \in XmmRegs)
      BY <1>3, <1>4
  <2>. QED
      BY <1>1, <1>2, <1>7, <2>1, <2>2 DEF HomesAreRegisters
<1>12. ActiveHoldRegisters'
  <2>1. ASSUME NEW a \in active' PROVE InRegister(a)'
    <3>1. CASE a = vr
        BY <1>7, <3>1, Zenon DEF InRegister
    <3>2. CASE a \in Kept
      <4>1. a \in VregIds \ {vr} /\ InRegister(a)
          BY <1>0, <1>1, <1>6, <3>2 DEF ActiveHoldRegisters
      <4>. QED
          BY <1>7, <4>1, Zenon
    <3>. QED
        BY <1>5, <3>1, <3>2
  <2>2. ASSUME NEW a \in active', NEW b \in active', SameRegister(a, b)' PROVE a = b
    <3>1. CASE a \in Kept /\ b \in Kept
        BY <1>0, <1>1, <1>6, <1>8, <2>2, <3>1 DEF ActiveHoldRegisters
    <3>2. CASE a = vr /\ b \in Kept
        BY <1>1, <1>2, <1>6, <1>7, <1>9, <2>2, <3>2 DEF SameRegister
    <3>3. CASE a \in Kept /\ b = vr
        BY <1>1, <1>2, <1>6, <1>7, <1>9, <2>2, <3>3 DEF SameRegister
    <3>. QED
        BY <1>5, <3>1, <3>2, <3>3
  <2>3. /\ IntHomes(active)' = IF is_float[vr] THEN IntHomes(Kept) ELSE IntHomes(Kept) \cup {r}
        /\ XmmHomes(active)' = IF is_float[vr] THEN XmmHomes(Kept) \cup {r} ELSE XmmHomes(Kept)
    <3>1. \A a \in Kept : a # vr /\ home'[a] = home[a]
        BY <1>1, <1>6, <1>7
    <3>2. is_float' = is_float /\ active' = Kept \cup {vr} /\ home'[vr] = r /\ is_float[vr] \in BOOLEAN
        BY <1>1, <1>2, <1>5, <1>7
    <3>3. CASE is_float[vr]
      <4>1. IntHomes(active)' = IntHomes(Kept)
          BY <3>1, <3>2, <3>3 DEF IntHomes
      <4>2. XmmHomes(active)' = XmmHomes(Kept) \cup {r}
          BY <3>1, <3>2, <3>3 DEF XmmHomes
      <4>. QED
          BY <3>3, <4>1, <4>2
    <3>4. CASE ~is_float[vr]
      <4>1. IntHomes(active)' = IntHomes(Kept) \cup {r}
          BY <3>1, <3>2, <3>4 DEF IntHomes
      <4>2. XmmHomes(active)' = XmmHomes(Kept)
          BY <3>1, <3>2, <3>4 DEF XmmHomes
      <4>. QED
          BY <3>4, <4>1, <4>2
    <3>. QED
        BY <3>3, <3>4
  <2>4. int_free' = IntRegs \ IntHomes(active)' /\ xmm_free' = XmmRegs \ XmmHomes(active)'
    <3>1. CASE is_float[vr]
        BY <1>3, <1>4, <2>3, <3>1
    <3>2. CASE ~is_float[vr]
        BY <1>3, <1>4, <2>3, <3>2
    <3>. QED
        BY <3>1, <3>2
  <2>. QED
      BY <2>1, <2>2, <2>4 DEF ActiveHoldRegisters
(* Whoever is in a register and not active before or after has expired. *)
<1>13. \A u \in VregIds \ {vr} : InRegister(u) /\ u \notin Kept =>
           \E k \in u + 1 .. vr : last_use[u] < first_use[k]
  <2> SUFFICES ASSUME NEW u \in VregIds \ {vr}, InRegister(u), u \notin Kept
               PROVE  \E k \in u + 1 .. vr : last_use[u] < first_use[k]
      OBVIOUS
  <2>1. CASE u \in active
    <3>1. last_use[u] < first_use[vr] /\ u < vr
        BY <1>0, <1>1, <2>1 DEF Kept, Expired, HomesAreRegisters
    <3>. QED
        BY <1>1, <3>1
  <2>2. CASE u \notin active
      BY <1>0, <1>1, <2>2 DEF RestIsExpired
  <2>. QED
      BY <2>1, <2>2
<1>14. RestIsExpired'
    BY <1>1, <1>2, <1>5, <1>7, <1>13 DEF RestIsExpired
<1>15. NoOverlap'
  <2> SUFFICES ASSUME NEW u \in VregIds, NEW v \in VregIds, u < v, SameRegister(u, v)',
                      \A k \in u + 1 .. v : first_use[k] <= first_use[v]
               PROVE  last_use[u] < first_use[v]
      BY <1>2 DEF NoOverlap
  <2>1. CASE u # vr /\ v # vr
      BY <1>0, <1>8, <2>1 DEF NoOverlap
  <2>2. CASE u = vr
    <3>1. InRegister(v) /\ v > vr
        BY <1>1, <1>7, <2>2 DEF SameRegister
    <3>. QED
        BY <1>0, <1>1, <3>1 DEF HomesAreRegisters
  <2>3. CASE v = vr
    <3>1. InRegister(u) /\ is_float[u] = is_float[vr] /\ home[u] = r /\ u # vr
        BY <1>1, <1>2, <1>7, <2>3 DEF SameRegister
    <3>2. u \notin Kept
        BY <1>9, <3>1
    <3>3. PICK k \in u + 1 .. vr : last_use[u] < first_use[k]
        BY <1>13, <3>1, <3>2
    <3>4. k \in VregIds
        BY <1>1, <3>3 DEF VregIds
    <3>. QED
        BY <1>1, <2>3, <3>3, <3>4
  <2>. QED
      BY <2>1, <2>2, <2>3
<1>. QED
    BY <1>10, <1>11, <1>12, <1>14, <1>15 DEF ScanInv

(* Before the scan no vreg is in a register, so the steps of the lowering  *)
(* and of the liveness pass, which set intervals and classes, keep it.     *)
LEMMA BeforeScanKeepsInv ==
    ASSUME Inv, phase \in {"lower", "live"}, NotBegun',
           UNCHANGED <<state, home, vr, int_free, xmm_free, active>>
    PROVE  ScanInv'
<1>1. /\ VregIds \subseteq Nat /\ active \subseteq VregIds /\ vr = 0
      /\ HomesAreRegisters /\ ActiveHoldRegisters
    BY ScanAssumption DEF ScanAssumption, VregIds, Inv, ScanInv, NotBegun, TypeOK
<1>2. \A v \in VregIds : ~InRegister(v)
    BY <1>1 DEF HomesAreRegisters
<1>3. active = {}
    BY <1>1, <1>2 DEF ActiveHoldRegisters
<1>4. int_free = IntRegs /\ xmm_free = XmmRegs
    BY <1>1, <1>3 DEF ActiveHoldRegisters, IntHomes, XmmHomes
<1>5. \A v \in VregIds : ~InRegister(v)'
    BY <1>2 DEF InRegister
<1>6. HomesAreRegisters' /\ RestIsExpired'
    BY <1>5 DEF HomesAreRegisters, RestIsExpired
<1>7. NoOverlap'
    BY <1>5 DEF NoOverlap, SameRegister
<1>8. ActiveHoldRegisters'
    BY <1>3, <1>4 DEF ActiveHoldRegisters, IntHomes, XmmHomes
<1>. QED
    BY <1>6, <1>7, <1>8 DEF ScanInv

(* Passing over a vreg touches no register. *)
LEMMA SkipKeepsInv == Inv /\ Skip => ScanInv'
<1> SUFFICES ASSUME Inv, Skip PROVE ScanInv'
    OBVIOUS
<1>0. TypeOK /\ NotBegun /\ HomesAreRegisters /\ ActiveHoldRegisters /\ RestIsExpired /\ NoOverlap
    BY DEF Inv, ScanInv
<1>1. VregIds \subseteq Nat /\ vr \in Nat
    BY <1>0, ScanAssumption DEF ScanAssumption, VregIds, TypeOK
<1>2. /\ is_float' = is_float /\ first_use' = first_use /\ last_use' = last_use
      /\ state' = state /\ home' = home /\ active' = active
      /\ int_free' = int_free /\ xmm_free' = xmm_free
      /\ phase' = phase /\ phase = "scan" /\ vr' = vr + 1
    BY DEF Skip, Scanning, liveVars
<1>3. NotBegun'
    BY <1>2 DEF NotBegun
<1>4. HomesAreRegisters'
    BY <1>0, <1>1, <1>2 DEF HomesAreRegisters, InRegister
<1>5. ActiveHoldRegisters'
    BY <1>0, <1>2 DEF ActiveHoldRegisters, InRegister, SameRegister, IntHomes, XmmHomes
<1>6. RestIsExpired'
  <2>1. ASSUME NEW u \in VregIds, InRegister(u), u \notin active
        PROVE  \E k \in u + 1 .. vr' - 1 : last_use[u] < first_use[k]
      BY <1>0, <1>1, <1>2, <2>1 DEF RestIsExpired
  <2>. QED
      BY <1>2, <2>1 DEF RestIsExpired, InRegister
<1>7. NoOverlap'
    BY <1>0, <1>2 DEF NoOverlap, SameRegister, InRegister
<1>. QED
    BY <1>3, <1>4, <1>5, <1>6, <1>7 DEF ScanInv

LEMMA SpillKeepsInv == Inv /\ SpillVreg => ScanInv'
<1> SUFFICES ASSUME Inv, SpillVreg PROVE ScanInv'
    OBVIOUS
<1>1. /\ vr \in VregIds /\ Scanning
      /\ state \in [VregIds -> {"unallocated", "in_register", "spilled"}]
      /\ home \in [VregIds -> Int]
    BY ScanAssumption DEF ScanAssumption, Inv, TypeOK, VregIds, SpillVreg, Scanning
<1>2. /\ home' = [home EXCEPT ![vr] = next_slot - 8]
      /\ state' = [state EXCEPT ![vr] = "spilled"]
    BY DEF SpillVreg, Spill
<1>3. /\ \A v \in VregIds : v # vr => state'[v] = state[v] /\ home'[v] = home[v]
      /\ state'[vr] # "in_register"
    BY <1>1, <1>2
<1>4. /\ UNCHANGED <<next_vreg, phase, liveVars>> /\ vr' = vr + 1
      /\ active' = Kept
      /\ int_free' = int_free \cup Returned(vr, FALSE)
      /\ xmm_free' = xmm_free \cup Returned(vr, TRUE)
    BY Zenon DEF SpillVreg, Spill, Kept, irVars
<1>. QED
    BY <1>1, <1>3, <1>4, ExpiringKeepsInv

(* Ending the scan, and stuttering, change nothing the invariant is about. *)
LEMMA PhaseKeepsInv ==
    ASSUME Inv, UNCHANGED <<liveVars, scanVars>>,
           phase' = phase \/ (phase = "scan" /\ phase' \in {"done", "overrun"})
    PROVE  ScanInv'
<1>1. /\ UNCHANGED <<seq, first_use, last_use, is_float>>
      /\ UNCHANGED <<state, home, vr, int_free, xmm_free, active>>
    BY DEF liveVars, scanVars
<1>2. NotBegun'
    BY <1>1 DEF Inv, ScanInv, NotBegun
<1>3. HomesAreRegisters' /\ ActiveHoldRegisters' /\ RestIsExpired' /\ NoOverlap'
    BY <1>1 DEF Inv, ScanInv, HomesAreRegisters, ActiveHoldRegisters, RestIsExpired, NoOverlap,
                InRegister, SameRegister, IntHomes, XmmHomes
<1>. QED
    BY <1>2, <1>3 DEF ScanInv

LEMMA NextInv == Inv /\ [Next]_vars => Inv'
<1> SUFFICES ASSUME Inv, [Next]_vars PROVE Inv'
    OBVIOUS
<1>1. LowerTypeOK' /\ TypeOK'
    BY NextType DEF Inv
<1>2. NotBegun
    BY DEF Inv, ScanInv
<1>3. CASE UNCHANGED vars
  <2>1. UNCHANGED <<liveVars, scanVars>> /\ phase' = phase
      BY <1>3 DEF vars, allocVars
  <2>. QED
      BY <1>1, <2>1, PhaseKeepsInv DEF Inv
<1>4. CASE phase = "lower" /\ Lower /\ UNCHANGED allocVars
  <2>1. /\ phase' = phase /\ seq' = seq
        /\ UNCHANGED <<state, home, vr, int_free, xmm_free, active>>
      BY <1>4 DEF allocVars, liveVars, scanVars
  <2>2. NotBegun'
      BY <1>2, <2>1 DEF NotBegun
  <2>. QED
      BY <1>4, <2>1, <2>2, BeforeScanKeepsInv, <1>1 DEF Inv
<1>5. CASE BeginLiveness
  <2>1. /\ phase = "lower" /\ phase' = "live"
        /\ UNCHANGED <<state, home, vr, int_free, xmm_free, active>>
      BY <1>5 DEF BeginLiveness, scanVars
  <2>2. NotBegun'
      BY <1>2, <2>1 DEF NotBegun
  <2>. QED
      BY <2>1, <2>2, BeforeScanKeepsInv, <1>1 DEF Inv
<1>6. CASE Mark
  <2>1. /\ phase = "live" /\ phase' = "live"
        /\ UNCHANGED <<state, home, vr, int_free, xmm_free, active>>
      BY <1>6 DEF Mark, scanVars
  <2>2. NotBegun'
      BY <1>2, <2>1 DEF NotBegun
  <2>. QED
      BY <2>1, <2>2, BeforeScanKeepsInv, <1>1 DEF Inv
<1>7. CASE BeginScan
  <2>1. /\ phase = "live" /\ phase' = "scan"
        /\ UNCHANGED <<state, home, vr, int_free, xmm_free, active>>
      BY <1>7 DEF BeginScan, scanVars
  <2>2. NotBegun'
      BY <2>1 DEF NotBegun
  <2>. QED
      BY <2>1, <2>2, BeforeScanKeepsInv, <1>1 DEF Inv
<1>8. CASE Skip
    BY <1>1, <1>8, SkipKeepsInv DEF Inv
<1>9. CASE AssignRegister
    BY <1>1, <1>9, AssignKeepsInv DEF Inv
<1>10. CASE SpillVreg
    BY <1>1, <1>10, SpillKeepsInv DEF Inv
<1>11. CASE EndScan
    BY <1>1, <1>11, PhaseKeepsInv DEF EndScan, Inv
<1>. QED
    BY <1>1, <1>3, <1>4, <1>5, <1>6, <1>7, <1>8, <1>9, <1>10, <1>11, PhaseKeepsInv
    DEF Next, Allocate, Inv

-----------------------------------------------------------------------------
(* What the allocator guarantees for every lowering, any set of registers  *)
(* and any JIT_MAX_VREGS.                                                  *)

(* The invariant of the scan of jit_linear_scan_alloc.                     *)
THEOREM ScanInvariant == Spec => []Inv
<1>1. Init => Inv
    BY InitType DEF Inv
<1>2. Inv /\ [Next]_vars => Inv'
    BY NextInv
<1>. QED
    BY <1>1, <1>2, PTL DEF Spec

(* The intervals, the masks, `active` and the homes keep their types: in   *)
(* particular the scan never leaves the vregs of JITContext.               *)
THEOREM TypeCorrect == Spec => []TypeOK
<1>1. Inv => TypeOK
    BY DEF Inv
<1>. QED
    BY <1>1, ScanInvariant, PTL

(* Every register the scan can allocate is free or the home of exactly one *)
(* active interval, at every step: none is handed out twice, none is lost, *)
(* and an interval never fails to fit in `active`.                         *)
THEOREM RegistersAreAccounted == Spec => []RegistersAccounted
<1>1. Inv => RegistersAccounted
  <2> SUFFICES ASSUME Inv PROVE RegistersAccounted
      OBVIOUS
  <2>1. /\ \A a \in active : InRegister(a) /\ a \in VregIds
        /\ \A a, b \in active : SameRegister(a, b) => a = b
        /\ int_free = IntRegs \ IntHomes(active)
        /\ xmm_free = XmmRegs \ XmmHomes(active)
        /\ is_float \in [VregIds -> BOOLEAN]
      BY DEF Inv, ScanInv, ActiveHoldRegisters, TypeOK
  <2>2. /\ \A a \in active : ~is_float[a] => home[a] \in IntRegs
        /\ \A a \in active : is_float[a] => home[a] \in XmmRegs
      BY <2>1 DEF Inv, ScanInv, HomesAreRegisters
  <2>3. IntHomes(active) \subseteq IntRegs /\ XmmHomes(active) \subseteq XmmRegs
      BY <2>2 DEF IntHomes, XmmHomes
  <2>4. IntRegs \ int_free = IntHomes(active) /\ XmmRegs \ xmm_free = XmmHomes(active)
      BY <2>1, <2>3
  <2>. QED
      BY <2>1, <2>4, Zenon DEF RegistersAccounted, IntHomes, XmmHomes
<1>. QED
    BY <1>1, ScanInvariant, PTL

(* Two vregs the scan put in one register are never live at the same time, *)
(* if the intervals between them begin in the order of the vregs.          *)
THEOREM NoOverlapHolds == Spec => []NoOverlap
<1>1. Inv => NoOverlap
    BY DEF Inv, ScanInv
<1>. QED
    BY <1>1, ScanInvariant, PTL

-----------------------------------------------------------------------------
(* The intervals that jit_liveness_analysis computes cover the reads of    *)
(* temporaries, for every function the lowering emits.                     *)
(*                                                                         *)
(* The pass itself looks at one position at a time; that its first_use is  *)
(* never after a read rests on the shape of the IR: whatever is read was   *)
(* made by an earlier instruction, and by one only.                        *)

(* A value is there after the code c, or before its instruction s: a       *)
(* parameter, a constant or the result of an instruction.                  *)
Made(v, c, p) == v < p \/ \E t \in 1 .. Len(c) : c[t].dst = v
MadeBefore(v, s, c, p) == v < p \/ \E t \in 1 .. s - 1 : c[t].dst = v

CodeOK(c, nv, p) ==
    /\ \A s \in 1 .. Len(c) : c[s].dst < nv
    /\ \A s \in 1 .. Len(c) : \A i \in DOMAIN c[s].args : MadeBefore(c[s].args[i], s, c, p)
    /\ \A s, t \in 1 .. Len(c) :
          s < t /\ c[s].dst = c[t].dst /\ c[t].dst >= 0 => c[t].op = "store"

StackOK(k, c, p) == \A i \in 1 .. Len(k) : Made(k[i].v, c, p)

(* What the lowering holds and has emitted is made before it is used. *)
MadeInv ==
    /\ params \in Nat /\ params <= next_vreg
    /\ CodeOK(code, next_vreg, params)
    /\ StackOK(stk, code, params)
    /\ \A l \in locals : Made(l.ptr, code, params)

Temporary(v) == v >= params /\ \A t \in 1 .. Len(code) : code[t].op = "store" => code[t].dst # v

(* What the pass has found of the positions it has been to. *)
LiveInv ==
    /\ \A v \in VregIds : first_use[v] <= seq
    /\ \A s \in 1 .. seq : \A v \in Operands(code[s]) :
          /\ s - 1 <= last_use[v]
          /\ Temporary(v) => 1 <= first_use[v] /\ first_use[v] <= s - 1

IntervalsInv == Inv /\ MadeInv /\ LiveInv

-----------------------------------------------------------------------------
(* One instruction more.                                                   *)

LEMMA InstrTypes ==
    \A op \in Ops, dst \in Int, args \in Seq(Int), flt \in BOOLEAN : Instr(op, dst, args, flt) \in Instrs
BY DEF Instr, Instrs

(* What was made stays made, and so does the result of the instruction. *)
LEMMA MadeStays ==
    ASSUME NEW c \in Seq(Instrs), NEW ins \in Instrs, NEW p \in Nat
    PROVE  /\ Len(Append(c, ins)) = Len(c) + 1 /\ Len(c) \in Nat
           /\ \A s \in 1 .. Len(c) : Append(c, ins)[s] = c[s]
           /\ Append(c, ins)[Len(c) + 1] = ins
           /\ \A v : Made(v, c, p) => Made(v, Append(c, ins), p)
           /\ Made(ins.dst, Append(c, ins), p)
<1>1. /\ Len(Append(c, ins)) = Len(c) + 1 /\ Len(c) \in Nat
      /\ \A s \in 1 .. Len(c) : Append(c, ins)[s] = c[s]
      /\ Append(c, ins)[Len(c) + 1] = ins
    BY AppendProperties, LenProperties
<1>2. /\ 1 .. Len(c) \subseteq 1 .. Len(c) + 1
      /\ Len(c) + 1 \in 1 .. Len(c) + 1
    BY <1>1
<1>. QED
    BY <1>1, <1>2 DEF Made

(* An instruction that reads what was made keeps CodeOK, if its dst is     *)
(* the next vreg or if it is a store or has none.                          *)
LEMMA OneMore ==
    ASSUME NEW c \in Seq(Instrs), NEW nv \in Nat, NEW p \in Nat, NEW ins \in Instrs, NEW nvn \in Nat,
           CodeOK(c, nv, p),
           \A i \in DOMAIN ins.args : Made(ins.args[i], c, p),
           \/ ins.dst = nv /\ nvn = nv + 1
           \/ ins.dst < nv /\ nvn = nv /\ (ins.op = "store" \/ ins.dst < 0)
    PROVE  CodeOK(Append(c, ins), nvn, p)
<1> DEFINE d == Append(c, ins)
<1>1. /\ Len(d) = Len(c) + 1 /\ Len(c) \in Nat
      /\ \A s \in 1 .. Len(c) : d[s] = c[s]
      /\ d[Len(c) + 1] = ins
    BY MadeStays
<1>2. \A s \in 1 .. Len(c) : c[s] \in Instrs /\ c[s].dst \in Int /\ c[s].dst < nv
  <2>1. \A s \in 1 .. Len(c) : c[s] \in Instrs
      BY ElementOfSeq
  <2>2. \A ins2 \in Instrs : ins2.dst \in Int
      BY DEF Instrs
  <2>. QED
      BY <2>1, <2>2 DEF CodeOK
<1>3. ins.dst \in Int
    BY DEF Instrs
<1> HIDE DEF d
<1>4. \A s \in 1 .. Len(d) : d[s].dst < nvn
  <2> TAKE s \in 1 .. Len(d)
  <2>1. CASE s \in 1 .. Len(c)
      BY <1>1, <1>2, <2>1
  <2>2. CASE s = Len(c) + 1
      BY <1>1, <1>3, <2>2
  <2>. QED
      BY <1>1, <2>1, <2>2
<1>5. \A s \in 1 .. Len(d) : \A i \in DOMAIN d[s].args : MadeBefore(d[s].args[i], s, d, p)
  <2> TAKE s \in 1 .. Len(d)
  <2> TAKE i \in DOMAIN d[s].args
  <2>1. CASE s \in 1 .. Len(c)
    <3>1. d[s] = c[s]
        BY <1>1, <2>1
    <3>2. MadeBefore(c[s].args[i], s, c, p)
        BY <2>1, <3>1 DEF CodeOK
    <3>3. \A t \in 1 .. s - 1 : d[t] = c[t]
        BY <1>1, <2>1
    <3>. QED
        BY <3>1, <3>2, <3>3 DEF MadeBefore
  <2>2. CASE s = Len(c) + 1
    <3>1. Made(d[s].args[i], c, p) /\ s - 1 = Len(c)
        BY <1>1, <2>2
    <3>. QED
        BY <1>1, <3>1 DEF Made, MadeBefore
  <2>. QED
      BY <1>1, <2>1, <2>2
<1>6. \A s, t \in 1 .. Len(d) : s < t /\ d[s].dst = d[t].dst /\ d[t].dst >= 0 => d[t].op = "store"
  <2> TAKE s, t \in 1 .. Len(d)
  <2> HAVE s < t /\ d[s].dst = d[t].dst /\ d[t].dst >= 0
  <2>1. s \in 1 .. Len(c) /\ d[s] = c[s]
      BY <1>1
  <2>2. CASE t \in 1 .. Len(c)
      BY <1>1, <2>1, <2>2 DEF CodeOK
  <2>3. CASE t = Len(c) + 1
      BY <1>1, <1>2, <1>3, <2>1, <2>3
  <2>. QED
      BY <1>1, <2>2, <2>3
<1>. QED
    BY <1>4, <1>5, <1>6 DEF CodeOK, d

(* The values on the stack, after a push or pops. *)
LEMMA StackPushed ==
    ASSUME NEW k \in Seq(OperandsSet), NEW o \in OperandsSet, NEW c, NEW p,
           StackOK(k, c, p), Made(o.v, c, p)
    PROVE  StackOK(Append(k, o), c, p)
<1>1. /\ Len(Append(k, o)) = Len(k) + 1 /\ Len(k) \in Nat
      /\ \A i \in 1 .. Len(k) : Append(k, o)[i] = k[i]
      /\ Append(k, o)[Len(k) + 1] = o
    BY AppendProperties, LenProperties
<1>. QED
    BY <1>1 DEF StackOK

LEMMA StackPopped ==
    ASSUME NEW k \in Seq(OperandsSet), NEW n \in 0 .. Len(k), NEW c, NEW p, StackOK(k, c, p)
    PROVE  StackOK(SubSeq(k, 1, Len(k) - n), c, p)
<1>1. Len(k) \in Nat
    BY LenProperties
<1>2. /\ Len(SubSeq(k, 1, Len(k) - n)) = Len(k) - n
      /\ \A i \in 1 .. Len(k) - n : SubSeq(k, 1, Len(k) - n)[i] = k[i]
    BY <1>1, SubSeqProperties
<1>. QED
    BY <1>1, <1>2 DEF StackOK

LEMMA StackGrows ==
    ASSUME NEW k, NEW c, NEW d, NEW p, StackOK(k, c, p), \A v : Made(v, c, p) => Made(v, d, p)
    PROVE  StackOK(k, d, p)
BY DEF StackOK

-----------------------------------------------------------------------------
(* The lowering.                                                           *)

(* A value instruction, and one without a result. *)
LEMMA ValueEmitted ==
    ASSUME LowerTypeOK, MadeInv, NEW op \in Ops, NEW args \in Seq(Int), NEW flt \in BOOLEAN,
           EmitValue(op, args, flt), params' = params,
           \A i \in DOMAIN args : Made(args[i], code, params)
    PROVE  /\ CodeOK(code, next_vreg, params)'
           /\ (params \in Nat /\ params <= next_vreg)'
           /\ Made(next_vreg, code', params)
           /\ \A v : Made(v, code, params) => Made(v, code', params)
<1> DEFINE ins == Instr(op, next_vreg, args, flt)
<1>1. /\ code \in Seq(Instrs) /\ next_vreg \in Nat /\ next_vreg + 1 \in Nat
      /\ params \in Nat /\ params <= next_vreg /\ CodeOK(code, next_vreg, params)
    BY DEF LowerTypeOK, MadeInv
<1>2. /\ ins \in Instrs /\ ins.dst = next_vreg /\ ins.args = args
      /\ code' = Append(code, ins) /\ next_vreg' = next_vreg + 1
    BY <1>1, InstrTypes DEF EmitValue, Instr
<1> HIDE DEF ins
<1>3. CodeOK(Append(code, ins), next_vreg + 1, params)
    BY <1>1, <1>2, OneMore
<1>4. /\ \A v : Made(v, code, params) => Made(v, Append(code, ins), params)
      /\ Made(ins.dst, Append(code, ins), params)
    BY <1>1, <1>2, MadeStays
<1>. QED
    BY <1>1, <1>2, <1>3, <1>4

LEMMA EffectEmitted ==
    ASSUME LowerTypeOK, MadeInv, NEW op \in Ops, NEW dst \in Int, NEW args \in Seq(Int),
           EmitEffect(op, dst, args), params' = params,
           dst < next_vreg, op = "store" \/ dst < 0,
           \A i \in DOMAIN args : Made(args[i], code, params)
    PROVE  /\ CodeOK(code, next_vreg, params)'
           /\ (params \in Nat /\ params <= next_vreg)'
           /\ \A v : Made(v, code, params) => Made(v, code', params)
<1> DEFINE ins == Instr(op, dst, args, FALSE)
<1>1. /\ code \in Seq(Instrs) /\ next_vreg \in Nat
      /\ params \in Nat /\ params <= next_vreg /\ CodeOK(code, next_vreg, params)
    BY DEF LowerTypeOK, MadeInv
<1>2. /\ ins \in Instrs /\ ins.dst = dst /\ ins.args = args /\ ins.op = op
      /\ code' = Append(code, ins) /\ next_vreg' = next_vreg
    BY <1>1, InstrTypes DEF EmitEffect, Instr
<1> HIDE DEF ins
<1>3. CodeOK(Append(code, ins), next_vreg, params)
    BY <1>1, <1>2, OneMore
<1>4. \A v : Made(v, code, params) => Made(v, Append(code, ins), params)
    BY <1>1, <1>2, MadeStays
<1>. QED
    BY <1>1, <1>2, <1>3, <1>4

(* What was made is a vreg below the next one, or no vreg. *)
LEMMA MadeIsBelow ==
    ASSUME LowerTypeOK, MadeInv, NEW v \in Int, Made(v, code, params)
    PROVE  v < next_vreg
BY DEF LowerTypeOK, MadeInv, Made, CodeOK

(* The first 2n instructions of a function with n parameters. *)
LEMMA InitMade == InitLower => MadeInv
<1> SUFFICES ASSUME InitLower PROVE MadeInv
    OBVIOUS
<1>1. PICK n \in ParamCounts :
        /\ params = n
        /\ code = EntryCode(n)
        /\ next_vreg = 2 * n
        /\ locals = {[ptr |-> n + k, flt |-> FALSE] : k \in 0 .. n - 1}
        /\ stk = << >>
    BY DEF InitLower
<1>2. n \in Nat
    BY IRAssumption DEF IRAssumption
<1> DEFINE k(i) == (i - 1) \div 2
           odd(i) == Instr("alloca", n + k(i), <<Imm>>, FALSE)
           even(i) == Instr("store", n + k(i), <<Imm, k(i)>>, FALSE)
<1>3. code = [i \in 1 .. 2 * n |-> IF i % 2 = 1 THEN odd(i) ELSE even(i)]
    BY <1>1, Zenon DEF EntryCode
<1>4. code \in Seq(Instrs) /\ Len(code) = 2 * n
  <2>1. LowerTypeOK
      BY InitLowerTypes
  <2>2. DOMAIN code = 1 .. 2 * n
      BY <1>3
  <2>. QED
      BY <1>2, <2>1, <2>2, LenProperties DEF LowerTypeOK
<1>5. /\ \A i \in 1 .. 2 * n : k(i) \in 0 .. n - 1
      /\ \A j \in 0 .. n - 1 : 2 * j + 1 \in 1 .. 2 * n /\ (2 * j + 1) % 2 = 1 /\ k(2 * j + 1) = j
    BY <1>2
<1>6. \A i \in 1 .. 2 * n :
          /\ i % 2 = 1 => code[i] = odd(i)
          /\ i % 2 # 1 => code[i] = even(i)
    BY <1>3
<1>7. \A i \in 1 .. 2 * n :
          /\ code[i].dst = n + k(i)
          /\ \A a \in DOMAIN code[i].args : code[i].args[a] \in {Imm, k(i)}
          /\ i % 2 # 1 => code[i].op = "store"
  <2>1. \A x : /\ Instr("alloca", x, <<Imm>>, FALSE).dst = x
               /\ Instr("alloca", x, <<Imm>>, FALSE).args = <<Imm>>
      BY DEF Instr
  <2>2. \A x, y : /\ Instr("store", x, <<Imm, y>>, FALSE).dst = x
                  /\ Instr("store", x, <<Imm, y>>, FALSE).args = <<Imm, y>>
                  /\ Instr("store", x, <<Imm, y>>, FALSE).op = "store"
      BY DEF Instr
  <2>3. /\ \A a \in DOMAIN <<Imm>> : <<Imm>>[a] = Imm
        /\ \A y : \A a \in DOMAIN <<Imm, y>> : <<Imm, y>>[a] \in {Imm, y}
      OBVIOUS
  <2> TAKE i \in 1 .. 2 * n
  <2> HIDE DEF k
  <2>4. CASE i % 2 = 1
    <3>1. code[i].dst = n + k(i) /\ code[i].args = <<Imm>>
        BY <1>6, <2>1, <2>4 DEF odd
    <3>. QED
        BY <2>3, <2>4, <3>1
  <2>5. CASE i % 2 # 1
    <3>0. code[i] = Instr("store", n + k(i), <<Imm, k(i)>>, FALSE)
        BY <1>6, <2>5 DEF even
    <3>1. code[i].dst = n + k(i)
        BY <3>0 DEF Instr
    <3>2. code[i].args = <<Imm, k(i)>>
        BY <3>0 DEF Instr
    <3>3. code[i].op = "store"
        BY <3>0 DEF Instr
    <3>. QED
        BY <2>3, <3>1, <3>2, <3>3
  <2>. QED
      BY <2>4, <2>5
<1> HIDE DEF odd, even
<1>8. CodeOK(code, next_vreg, params)
  <2>1. \A s \in 1 .. Len(code) : code[s].dst < next_vreg
      BY <1>1, <1>2, <1>4, <1>5, <1>7
  <2>2. \A s \in 1 .. Len(code) : \A i \in DOMAIN code[s].args :
            MadeBefore(code[s].args[i], s, code, params)
    <3> TAKE s \in 1 .. Len(code)
    <3> TAKE i \in DOMAIN code[s].args
    <3>1. code[s].args[i] \in {Imm, k(s)} /\ k(s) \in 0 .. n - 1
        BY <1>4, <1>5, <1>7
    <3>2. code[s].args[i] < params
        BY <1>1, <1>2, <3>1 DEF Imm
    <3>. QED
        BY <3>2 DEF MadeBefore
  <2>3. \A s, t \in 1 .. Len(code) :
            s < t /\ code[s].dst = code[t].dst /\ code[t].dst >= 0 => code[t].op = "store"
    <3> TAKE s, t \in 1 .. Len(code)
    <3> HAVE s < t /\ code[s].dst = code[t].dst /\ code[t].dst >= 0
    <3>1. k(s) = k(t)
        BY <1>2, <1>4, <1>5, <1>7
    <3>2. t % 2 # 1
        BY <1>2, <1>4, <3>1
    <3>. QED
        BY <1>4, <1>7, <3>2
  <2>. QED
      BY <2>1, <2>2, <2>3 DEF CodeOK
<1>9. \A l \in locals : Made(l.ptr, code, params)
  <2>1. \A j \in 0 .. n - 1 : code[2 * j + 1].dst = n + j /\ 2 * j + 1 \in 1 .. Len(code)
      BY <1>2, <1>4, <1>5, <1>7
  <2>. QED
      BY <1>1, <2>1 DEF Made
<1>10. StackOK(stk, code, params)
    BY <1>1, EmptySeq DEF StackOK
<1>. QED
    BY <1>1, <1>2, <1>8, <1>9, <1>10 DEF MadeInv

(* Every step of the lowering uses what was made. *)
LEMMA LowerMade == LowerTypeOK /\ MadeInv /\ Lower => MadeInv'
<1> SUFFICES ASSUME LowerTypeOK, MadeInv, Lower PROVE MadeInv'
    OBVIOUS
<1>0. Classes \subseteq BOOLEAN
    BY IRAssumption DEF IRAssumption
<1>1. /\ Len(stk) \in Nat /\ Imm \in Int /\ Void \in Int /\ next_vreg \in Nat
      /\ code \in Seq(Instrs) /\ stk \in Seq(OperandsSet) /\ locals \in SUBSET Locals
      /\ params \in Nat /\ params <= next_vreg
      /\ StackOK(stk, code, params) /\ CodeOK(code, next_vreg, params)
      /\ \A l \in locals : Made(l.ptr, code, params)
    BY DEF LowerTypeOK, MadeInv, Imm, Void
<1>L. \A l \in locals : l.ptr \in Int /\ l.flt \in BOOLEAN /\ Made(l.ptr, code, params)
    BY <1>1 DEF Locals
<1>O. /\ \A v \in Int, flt \in BOOLEAN : Operand(v, flt) \in OperandsSet /\ Operand(v, flt).v = v
      /\ \A o \in OperandsSet : o.v \in Int /\ o.flt \in BOOLEAN
    BY OperandTypes DEF Operand
<1>S. /\ \A i \in 1 .. Len(stk) : stk[i] \in OperandsSet /\ Made(stk[i].v, code, params)
      /\ \A k \in 0 .. Len(stk) : Pop(k) \in Seq(OperandsSet) /\ StackOK(Pop(k), code, params)
      /\ stk # << >> => Len(stk) >= 1 /\ Top \in OperandsSet /\ Made(Top.v, code, params)
  <2>1. /\ \A i \in 1 .. Len(stk) : stk[i] \in OperandsSet
        /\ \A k \in 0 .. Len(stk) : Pop(k) \in Seq(OperandsSet)
        /\ stk # << >> => Len(stk) >= 1 /\ Top \in OperandsSet
      BY StackTypes
  <2>2. \A i \in 1 .. Len(stk) : Made(stk[i].v, code, params)
      BY <1>1 DEF StackOK
  <2>3. \A k \in 0 .. Len(stk) : StackOK(Pop(k), code, params)
      BY <1>1, StackPopped DEF Pop
  <2>4. stk # << >> => Made(Top.v, code, params)
      BY <1>1, <2>1, <2>2 DEF Top
  <2>. QED
      BY <2>1, <2>2, <2>3, <2>4
<1>I. Made(Imm, code, params)
    BY <1>1 DEF Made, Imm
(* A value pushed on what is left of the stack, and nothing pushed. *)
<1>V. ASSUME NEW op \in Ops, NEW args \in Seq(Int), NEW flt \in BOOLEAN,
             EmitValue(op, args, flt), UNCHANGED params,
             \A i \in DOMAIN args : Made(args[i], code, params),
             NEW n \in 0 .. Len(stk), NEW b \in BOOLEAN,
             stk' = Append(Pop(n), Operand(next_vreg, b)) \/ stk' = stk,
             locals' \subseteq locals \cup {[ptr |-> next_vreg, flt |-> b]}
      PROVE  MadeInv'
  <2>1. /\ CodeOK(code, next_vreg, params)'
        /\ (params \in Nat /\ params <= next_vreg)'
        /\ Made(next_vreg, code', params)
        /\ \A v : Made(v, code, params) => Made(v, code', params)
      BY <1>V, ValueEmitted
  <2>2. StackOK(stk', code', params)
    <3>1. StackOK(stk, code', params) /\ StackOK(Pop(n), code', params)
        BY <1>1, <1>S, <2>1, StackGrows
    <3>2. StackOK(Append(Pop(n), Operand(next_vreg, b)), code', params)
      <4>1. Pop(n) \in Seq(OperandsSet)
          BY <1>S
      <4>2. Operand(next_vreg, b) \in OperandsSet /\ Operand(next_vreg, b).v = next_vreg
          BY <1>1, <1>O
      <4>. QED
          BY <2>1, <3>1, <4>1, <4>2, StackPushed
    <3>. QED
        BY <1>V, <3>1, <3>2
  <2>3. \A l \in locals' : Made(l.ptr, code', params)
      BY <1>L, <1>V, <2>1
  <2>. QED
      BY <1>V, <2>1, <2>2, <2>3 DEF MadeInv
<1>E. ASSUME NEW op \in Ops, NEW dst \in Int, NEW args \in Seq(Int),
             EmitEffect(op, dst, args), UNCHANGED params,
             dst < next_vreg, op = "store" \/ dst < 0,
             \A i \in DOMAIN args : Made(args[i], code, params),
             NEW n \in 0 .. Len(stk), stk' = Pop(n) \/ stk' = stk \/ stk' = << >>,
             locals' \subseteq locals
      PROVE  MadeInv'
  <2>1. /\ CodeOK(code, next_vreg, params)'
        /\ (params \in Nat /\ params <= next_vreg)'
        /\ \A v : Made(v, code, params) => Made(v, code', params)
      BY <1>E, EffectEmitted
  <2>2. StackOK(stk', code', params)
    <3>1. StackOK(stk, code', params) /\ StackOK(Pop(n), code', params)
        BY <1>1, <1>S, <2>1, StackGrows
    <3>2. StackOK(<< >>, code', params)
        BY EmptySeq DEF StackOK
    <3>. QED
        BY <1>E, <3>1, <3>2
  <2>3. \A l \in locals' : Made(l.ptr, code', params)
      BY <1>L, <1>E, <2>1
  <2>. QED
      BY <1>E, <2>1, <2>2, <2>3 DEF MadeInv
<1>P. ASSUME NEW o \in OperandsSet, Made(o.v, code, params), stk' = Append(stk, o),
             UNCHANGED <<code, next_vreg, params, locals>>
      PROVE  MadeInv'
  <2>1. StackOK(Append(stk, o), code, params)
      BY <1>1, <1>P, StackPushed
  <2>. QED
      BY <1>1, <1>P, <2>1 DEF MadeInv
<1>2. ASSUME NEW flt \in Classes, Let(flt) PROVE MadeInv'
  <2>1. <<Imm>> \in Seq(Int) /\ \A i \in DOMAIN <<Imm>> : Made(<<Imm>>[i], code, params)
      BY <1>1, <1>I
  <2>2. /\ EmitValue("alloca", <<Imm>>, FALSE) /\ UNCHANGED params /\ stk' = stk
        /\ locals' \subseteq locals \cup {[ptr |-> next_vreg, flt |-> flt]}
      BY <1>2, Zenon DEF Let
  <2>3. "alloca" \in Ops /\ 0 \in 0 .. Len(stk) /\ flt \in BOOLEAN
      BY <1>0, <1>1 DEF Ops
  <2>. QED
      BY <1>V, <2>1, <2>2, <2>3
<1>3. ASSUME Literal PROVE MadeInv'
  <2>1. /\ Operand(Imm, FALSE) \in OperandsSet /\ Operand(Imm, FALSE).v = Imm
      BY <1>1, <1>O
  <2>. QED
      BY <1>3, <1>I, <1>P, <2>1 DEF Literal
<1>4. ASSUME NEW l \in locals, ReadLocal(l) PROVE MadeInv'
  <2>1. /\ <<l.ptr, Imm>> \in Seq(Int)
        /\ \A i \in DOMAIN <<l.ptr, Imm>> : Made(<<l.ptr, Imm>>[i], code, params)
      BY <1>1, <1>L, <1>I
  <2>2. /\ EmitValue("load", <<l.ptr, Imm>>, l.flt) /\ UNCHANGED params
        /\ stk' = Append(stk, Operand(next_vreg, l.flt))
        /\ locals' \subseteq locals \cup {[ptr |-> next_vreg, flt |-> l.flt]} /\ "load" \in Ops
        /\ l.flt \in BOOLEAN
      BY <1>4, <1>L DEF ReadLocal, Ops
  <2>3. Pop(0) = stk /\ 0 \in 0 .. Len(stk)
      BY <1>1 DEF Pop
  <2>. QED
      BY <1>V, <2>1, <2>2, <2>3
<1>5. ASSUME NEW op \in BinaryOps, Binary(op) PROVE MadeInv'
  <2> DEFINE lhs == stk[Len(stk) - 1]
  <2>1. Len(stk) >= 2 /\ 2 \in 0 .. Len(stk)
      BY <1>1, <1>5 DEF Binary
  <2>2. /\ lhs \in OperandsSet /\ Top \in OperandsSet
        /\ Made(lhs.v, code, params) /\ Made(Top.v, code, params)
      BY <1>1, <1>S, <2>1
  <2>3. /\ EmitValue(op, <<lhs.v, Top.v>>, lhs.flt) /\ UNCHANGED params
        /\ stk' = Append(Pop(2), Operand(next_vreg, lhs.flt))
        /\ locals' \subseteq locals \cup {[ptr |-> next_vreg, flt |-> lhs.flt]} /\ op \in Ops
      BY <1>5 DEF Binary, Ops
  <2> HIDE DEF lhs
  <2>4. /\ <<lhs.v, Top.v>> \in Seq(Int) /\ lhs.flt \in BOOLEAN
        /\ \A i \in DOMAIN <<lhs.v, Top.v>> : Made(<<lhs.v, Top.v>>[i], code, params)
      BY <1>O, <2>2
  <2>. QED
      BY <1>V, <2>1, <2>3, <2>4
<1>6. ASSUME NEW op \in UnaryOps, Unary(op) PROVE MadeInv'
  <2>1. stk # << >> /\ 1 \in 0 .. Len(stk) /\ Top \in OperandsSet /\ Made(Top.v, code, params)
      BY <1>1, <1>6, <1>S DEF Unary
  <2>2. /\ EmitValue(op, <<Top.v>>, Top.flt) /\ UNCHANGED params
        /\ stk' = Append(Pop(1), Operand(next_vreg, Top.flt))
        /\ locals' \subseteq locals \cup {[ptr |-> next_vreg, flt |-> Top.flt]} /\ op \in Ops
      BY <1>6 DEF Unary, Ops
  <2>3. /\ <<Top.v>> \in Seq(Int) /\ Top.flt \in BOOLEAN
        /\ \A i \in DOMAIN <<Top.v>> : Made(<<Top.v>>[i], code, params)
      BY <1>O, <2>1
  <2>. QED
      BY <1>V, <2>1, <2>2, <2>3
<1>7. ASSUME NEW l \in locals, Assign(l) PROVE MadeInv'
  <2>1. stk # << >> /\ 0 \in 0 .. Len(stk) /\ Top \in OperandsSet /\ Made(Top.v, code, params)
      BY <1>1, <1>7, <1>S DEF Assign
  <2>2. l.ptr \in Int /\ l.ptr < next_vreg
      BY <1>L, MadeIsBelow
  <2>3. /\ <<Imm, Top.v>> \in Seq(Int)
        /\ \A i \in DOMAIN <<Imm, Top.v>> : Made(<<Imm, Top.v>>[i], code, params)
      BY <1>1, <1>I, <1>O, <2>1
  <2>4. /\ EmitEffect("store", l.ptr, <<Imm, Top.v>>) /\ UNCHANGED <<params, stk, locals>>
        /\ "store" \in Ops
      BY <1>7 DEF Assign, Ops
  <2>. QED
      BY <1>E, <2>1, <2>2, <2>3, <2>4
<1>8. ASSUME NEW l \in locals, AddressOf(l) PROVE MadeInv'
  <2>1. /\ Operand(l.ptr, FALSE) \in OperandsSet /\ Operand(l.ptr, FALSE).v = l.ptr
      BY <1>L, <1>O
  <2>. QED
      BY <1>8, <1>L, <1>P, <2>1 DEF AddressOf
<1>9. ASSUME NEW l \in locals, PostIncrement(l) PROVE MadeInv'
  <2> DEFINE nv == next_vreg
             load == Instr("load", nv, <<l.ptr, Imm>>, l.flt)
             add == Instr("add", nv + 1, <<nv, Imm>>, l.flt)
             store == Instr("store", l.ptr, <<Imm, nv + 1>>, FALSE)
             c1 == Append(code, load)
             c2 == Append(c1, add)
             c3 == Append(c2, store)
  <2>0. /\ code' = code \o <<load, add, store>> /\ next_vreg' = nv + 2
        /\ stk' = Append(stk, Operand(nv, l.flt)) /\ UNCHANGED <<params, locals>>
      BY <1>9, Zenon DEF PostIncrement
  <2>1. l.ptr \in Int /\ l.flt \in BOOLEAN /\ nv \in Nat /\ Made(l.ptr, code, params) /\ l.ptr < nv
      BY <1>1, <1>L, MadeIsBelow
  <2>2. /\ <<l.ptr, Imm>> \in Seq(Int) /\ <<nv, Imm>> \in Seq(Int) /\ <<Imm, nv + 1>> \in Seq(Int)
        /\ {"load", "add", "store"} \subseteq Ops /\ nv + 1 \in Int /\ nv + 1 \in Nat /\ nv + 2 \in Nat
      BY <1>1, <2>1 DEF Ops
  <2>3. load \in Instrs /\ add \in Instrs /\ store \in Instrs
      BY <2>1, <2>2 DEF Instr, Instrs
  <2>4. /\ load.dst = nv /\ load.args = <<l.ptr, Imm>>
        /\ add.dst = nv + 1 /\ add.args = <<nv, Imm>>
        /\ store.dst = l.ptr /\ store.args = <<Imm, nv + 1>> /\ store.op = "store"
      BY DEF Instr
  <2> HIDE DEF nv, load, add, store
  <2>5. code' = c3
      BY <1>1, <2>0, <2>3
  <2>6. c1 \in Seq(Instrs) /\ c2 \in Seq(Instrs)
      BY <1>1, <2>3, AppendProperties
  <2>7. /\ \A v : Made(v, code, params) => Made(v, c1, params)
        /\ Made(nv, c1, params)
      BY <1>1, <2>3, <2>4, MadeStays
  <2>8. /\ \A v : Made(v, c1, params) => Made(v, c2, params)
        /\ Made(nv + 1, c2, params)
      BY <1>1, <2>3, <2>4, <2>6, MadeStays
  <2>9. \A v : Made(v, c2, params) => Made(v, c3, params)
      BY <1>1, <2>3, <2>6, MadeStays
  <2> HIDE DEF c1, c2, c3
  <2>10. CodeOK(c1, nv + 1, params)
    <3>1. \A i \in DOMAIN load.args : Made(load.args[i], code, params)
        BY <1>I, <2>1, <2>4
    <3>2. CodeOK(code, nv, params)
        BY <1>1 DEF nv
    <3>. QED
        BY <1>1, <2>1, <2>2, <2>3, <2>4, <3>1, <3>2, OneMore DEF c1
  <2>11. CodeOK(c2, nv + 2, params)
    <3>1. \A i \in DOMAIN add.args : Made(add.args[i], c1, params)
        BY <1>I, <2>4, <2>7
    <3>2. nv + 2 = (nv + 1) + 1
        BY <2>1
    <3>. QED
        BY <1>1, <2>2, <2>3, <2>4, <2>6, <2>10, <3>1, <3>2, OneMore DEF c2
  <2>12. CodeOK(c3, nv + 2, params)
    <3>1. \A i \in DOMAIN store.args : Made(store.args[i], c2, params)
        BY <1>I, <2>4, <2>7, <2>8
    <3>2. store.dst < nv + 2
        BY <2>1, <2>4
    <3>. QED
        BY <1>1, <2>2, <2>3, <2>4, <2>6, <2>11, <3>1, <3>2, OneMore DEF c3
  <2>13. \A v : Made(v, code, params) => Made(v, c3, params)
      BY <2>7, <2>8, <2>9
  <2>14. StackOK(stk', c3, params)
    <3>1. StackOK(stk, c3, params)
        BY <1>1, <2>13, StackGrows
    <3>2. Operand(nv, l.flt) \in OperandsSet /\ Made(Operand(nv, l.flt).v, c3, params)
        BY <1>O, <2>1, <2>7, <2>8, <2>9
    <3>. QED
        BY <1>1, <2>0, <3>1, <3>2, StackPushed
  <2>15. (params \in Nat /\ params <= next_vreg)'
      BY <1>1, <2>0 DEF nv
  <2>16. \A m \in locals' : Made(m.ptr, c3, params)
      BY <1>L, <2>0, <2>13
  <2>. QED
      BY <2>0, <2>5, <2>12, <2>14, <2>15, <2>16 DEF MadeInv
<1>10. ASSUME NEW flt \in Classes, Deref(flt) PROVE MadeInv'
  <2>1. stk # << >> /\ 1 \in 0 .. Len(stk) /\ Top \in OperandsSet /\ Made(Top.v, code, params)
      BY <1>1, <1>10, <1>S DEF Deref
  <2>2. /\ EmitValue("load", <<Top.v, Imm>>, flt) /\ UNCHANGED params
        /\ stk' = Append(Pop(1), Operand(next_vreg, flt))
        /\ locals' \subseteq locals \cup {[ptr |-> next_vreg, flt |-> flt]} /\ "load" \in Ops
        /\ flt \in BOOLEAN
      BY <1>0, <1>10 DEF Deref, Ops
  <2>3. /\ <<Top.v, Imm>> \in Seq(Int)
        /\ \A i \in DOMAIN <<Top.v, Imm>> : Made(<<Top.v, Imm>>[i], code, params)
      BY <1>1, <1>I, <1>O, <2>1
  <2>. QED
      BY <1>V, <2>1, <2>2, <2>3
<1>11. ASSUME AssignDeref PROVE MadeInv'
  <2> DEFINE val == stk[Len(stk) - 1]
  <2>1. Len(stk) >= 2 /\ 1 \in 0 .. Len(stk)
      BY <1>1, <1>11 DEF AssignDeref
  <2>2. /\ val \in OperandsSet /\ Top \in OperandsSet
        /\ Made(val.v, code, params) /\ Made(Top.v, code, params)
      BY <1>1, <1>S, <2>1
  <2>3. /\ EmitEffect("store", Top.v, <<Imm, val.v>>) /\ stk' = Pop(1)
        /\ UNCHANGED <<params, locals>> /\ "store" \in Ops
      BY <1>11 DEF AssignDeref, Ops
  <2> HIDE DEF val
  <2>4. /\ <<Imm, val.v>> \in Seq(Int) /\ Top.v \in Int /\ Top.v < next_vreg
        /\ \A i \in DOMAIN <<Imm, val.v>> : Made(<<Imm, val.v>>[i], code, params)
      BY <1>1, <1>I, <1>O, <2>2, MadeIsBelow
  <2>. QED
      BY <1>E, <2>1, <2>3, <2>4
<1>12. ASSUME NEW n \in 0 .. MaxArgs, NEW vd \in BOOLEAN, Call(n, vd) PROVE MadeInv'
  <2> DEFINE args == [i \in 1 .. n |-> stk[Len(stk) - n + i].v]
  <2>1. n \in Nat /\ n \in 0 .. Len(stk)
      BY <1>1, <1>12, IRAssumption DEF Call, IRAssumption
  <2>2. args \in [1 .. n -> Int] /\ \A i \in DOMAIN args : Made(args[i], code, params)
    <3>1. \A i \in 1 .. n : /\ stk[Len(stk) - n + i] \in OperandsSet
                            /\ Made(stk[Len(stk) - n + i].v, code, params)
        BY <1>1, <1>S, <2>1
    <3>. QED
        BY <1>O, <3>1
  <2> HIDE DEF args
  <2>3. args \in Seq(Int) /\ "call" \in Ops
      BY <2>1, <2>2 DEF Ops
  <2>4. CASE vd
    <3>1. EmitEffect("call", Void, args) /\ stk' = Pop(n) /\ UNCHANGED <<params, locals>>
        BY <1>12, <2>4 DEF Call, args
    <3>2. Void < 0 /\ Void < next_vreg
        BY <1>1 DEF Void
    <3>. QED
        BY <1>1, <1>E, <2>1, <2>2, <2>3, <3>1, <3>2
  <2>5. CASE ~vd
    <3>1. /\ EmitValue("call", args, FALSE) /\ UNCHANGED <<params, locals>>
          /\ stk' = Append(Pop(n), Operand(next_vreg, FALSE))
        BY <1>12, <2>5 DEF Call, args
    <3>2. locals' \subseteq locals \cup {[ptr |-> next_vreg, flt |-> FALSE]}
        BY <3>1
    <3>. QED
        BY <1>V, <2>1, <2>2, <2>3, <3>1, <3>2
  <2>. QED
      BY <2>4, <2>5
<1>13. ASSUME Discard PROVE MadeInv'
  <2>1. StackOK(<< >>, code, params)
      BY EmptySeq DEF StackOK
  <2>. QED
      BY <1>1, <1>13, <2>1 DEF Discard, MadeInv
<1>14. ASSUME Return PROVE MadeInv'
  <2>1. /\ stk' = << >> /\ locals' \subseteq locals /\ UNCHANGED params /\ 0 \in 0 .. Len(stk)
        /\ Void < 0 /\ Void < next_vreg /\ {"ret", "ret_void"} \subseteq Ops
      BY <1>1, <1>14 DEF Return, Ops, Void
  <2>2. CASE stk = << >>
    <3>1. EmitEffect("ret_void", Void, << >>) /\ << >> \in Seq(Int) /\ DOMAIN << >> = {}
        BY <1>14, <2>2 DEF Return
    <3>. QED
        BY <1>1, <1>E, <2>1, <3>1
  <2>3. CASE stk # << >>
    <3>1. /\ EmitEffect("ret", Void, <<Top.v>>)
          /\ Top \in OperandsSet /\ Made(Top.v, code, params)
        BY <1>14, <1>S, <2>3 DEF Return
    <3>2. /\ <<Top.v>> \in Seq(Int)
          /\ \A i \in DOMAIN <<Top.v>> : Made(<<Top.v>>[i], code, params)
        BY <1>O, <3>1
    <3>. QED
        BY <1>1, <1>E, <2>1, <3>1, <3>2
  <2>. QED
      BY <2>2, <2>3
<1>. QED
    BY <1>2, <1>3, <1>4, <1>5, <1>6, <1>7, <1>8, <1>9, <1>10, <1>11, <1>12, <1>13, <1>14 DEF Lower

-----------------------------------------------------------------------------
(* The pass.                                                               *)

(* The instruction that makes a temporary comes before every read of it,   *)
(* and none after it has the temporary as its dst.                         *)
LEMMA OneDefinition ==
    ASSUME LowerTypeOK, MadeInv, NEW s \in 1 .. Len(code), NEW v \in Operands(code[s]), Temporary(v)
    PROVE  s > 1 /\ \A t \in 1 .. Len(code) : t >= s => code[t].dst # v
<1>1. PICK i \in DOMAIN code[s].args : v = code[s].args[i] /\ v \in VregIds
    BY DEF Operands
<1>0. MadeBefore(v, s, code, params)
    BY <1>1 DEF MadeInv, CodeOK
<1>2. PICK d \in 1 .. s - 1 : code[d].dst = v
  <2>1. ~(v < params)
      BY <1>1 DEF Temporary, MadeInv, VregIds
  <2>. QED
      BY <1>0, <2>1 DEF MadeBefore
<1>3. Len(code) \in Nat /\ v >= 0
    BY <1>1, LenProperties DEF LowerTypeOK, VregIds
<1>4. ASSUME NEW t \in 1 .. Len(code), t >= s, code[t].dst = v PROVE FALSE
  <2>1. d < t /\ d \in 1 .. Len(code)
      BY <1>2, <1>3, <1>4
  <2>2. code[t].op = "store"
      BY <1>2, <1>3, <1>4, <2>1 DEF MadeInv, CodeOK
  <2>. QED
      BY <1>4, <2>2 DEF Temporary
<1>. QED
    BY <1>2, <1>3, <1>4

LEMMA MarkKeepsLive ==
    ASSUME Inv, MadeInv, LiveInv, Mark
    PROVE  LiveInv'
<1>1. /\ seq \in Nat /\ Len(code) \in Nat /\ seq + 1 \in 1 .. Len(code) /\ seq' = seq + 1
      /\ UNCHANGED <<code, params>>
      /\ first_use \in [VregIds -> Nat] /\ last_use \in [VregIds -> Nat]
    BY LenProperties DEF Inv, LowerTypeOK, TypeOK, Mark, irVars
<1> DEFINE ins == code[seq + 1]
<1>2. \A v \in VregIds :
          /\ last_use'[v] = IF v \in Operands(ins) /\ last_use[v] < seq THEN seq ELSE last_use[v]
          /\ first_use'[v] = IF v = ins.dst \/ (v \in Operands(ins) /\ first_use[v] = 0)
                             THEN seq ELSE first_use[v]
    BY DEF Mark
<1>3. \A v \in VregIds : first_use[v] <= seq /\ first_use[v] \in Nat /\ last_use[v] \in Nat
    BY <1>1 DEF LiveInv
<1>4. \A s \in 1 .. Len(code) : \A v \in Operands(code[s]) : v \in VregIds
    BY DEF Operands
<1> HIDE DEF ins
<1>5. \A v \in VregIds : first_use'[v] <= seq'
    BY <1>1, <1>2, <1>3
<1>6. ASSUME NEW s \in 1 .. seq + 1, NEW v \in Operands(code[s])
      PROVE  /\ s - 1 <= last_use'[v]
             /\ Temporary(v) => 1 <= first_use'[v] /\ first_use'[v] <= s - 1
  <2>1. s \in 1 .. Len(code) /\ v \in VregIds
      BY <1>1, <1>4, <1>6
  <2>2. CASE s \in 1 .. seq
    <3>1. s - 1 <= last_use[v] /\ (Temporary(v) => 1 <= first_use[v] /\ first_use[v] <= s - 1)
        BY <1>6, <2>2 DEF LiveInv
    <3>2. s - 1 <= last_use'[v]
        BY <1>1, <1>2, <1>3, <2>1, <2>2, <3>1
    <3>3. Temporary(v) => first_use'[v] = first_use[v]
      <4>1. Temporary(v) => ins.dst # v
          BY <1>1, <1>6, <2>1, <2>2, OneDefinition DEF Inv, ins
      <4>. QED
          BY <1>2, <1>3, <2>1, <3>1, <4>1
    <3>. QED
        BY <3>1, <3>2, <3>3
  <2>3. CASE s = seq + 1
    <3>1. v \in Operands(ins)
        BY <1>6, <2>3 DEF ins
    <3>2. s - 1 <= last_use'[v]
        BY <1>1, <1>2, <1>3, <2>1, <2>3, <3>1
    <3>3. Temporary(v) => ins.dst # v /\ seq > 0
        BY <1>1, <1>6, <2>1, <2>3, OneDefinition DEF Inv, ins
    <3>. QED
        BY <1>1, <1>2, <1>3, <2>1, <2>3, <3>1, <3>2, <3>3
  <2>. QED
      BY <1>1, <1>6, <2>2, <2>3
<1>7. \A v : Temporary(v)' <=> Temporary(v)
    BY <1>1 DEF Temporary
<1>8. \A s : Operands(code[s])' = Operands(code[s])
    BY <1>1
<1>. QED
    BY <1>1, <1>5, <1>6, <1>7, <1>8 DEF LiveInv

(* Before the pass there is nothing to cover. *)
LEMMA NothingRead ==
    ASSUME Inv, phase = "lower", LiveInv, UNCHANGED <<seq, first_use, last_use>>
    PROVE  LiveInv'
BY DEF LiveInv, Inv, ScanInv, NotBegun

LEMMA NextIntervals == IntervalsInv /\ [Next]_vars => IntervalsInv'
<1> SUFFICES ASSUME IntervalsInv, [Next]_vars PROVE IntervalsInv'
    OBVIOUS
<1>1. Inv' /\ Inv /\ LowerTypeOK /\ MadeInv /\ LiveInv
    BY NextInv DEF IntervalsInv, Inv
<1>2. CASE phase = "lower" /\ Lower /\ UNCHANGED allocVars
    BY <1>1, <1>2, LowerMade, NothingRead DEF IntervalsInv, allocVars, liveVars
<1>3. ASSUME Allocate \/ UNCHANGED vars PROVE UNCHANGED irVars
    BY <1>3 DEF Allocate, BeginLiveness, Mark, BeginScan, Skip, AssignRegister, SpillVreg, EndScan, vars
<1>4. ASSUME UNCHANGED irVars PROVE MadeInv'
    BY <1>1, <1>4 DEF MadeInv, irVars, CodeOK, StackOK, Made, MadeBefore
<1>5. CASE Mark
    BY <1>1, <1>3, <1>4, <1>5, MarkKeepsLive DEF Allocate, IntervalsInv
<1>6. ASSUME UNCHANGED <<irVars, liveVars>> PROVE LiveInv'
    BY <1>1, <1>6 DEF LiveInv, Temporary, Operands, irVars, liveVars
<1>7. CASE UNCHANGED vars
    BY <1>1, <1>3, <1>4, <1>6, <1>7 DEF IntervalsInv, vars, allocVars
<1>8. CASE BeginLiveness \/ BeginScan \/ Skip \/ AssignRegister \/ SpillVreg \/ EndScan
  <2>1. UNCHANGED liveVars
      BY <1>8 DEF BeginLiveness, BeginScan, Skip, AssignRegister, SpillVreg, EndScan
  <2>. QED
      BY <1>1, <1>3, <1>4, <1>6, <1>8, <2>1 DEF Allocate, IntervalsInv
<1>. QED
    BY <1>2, <1>5, <1>7, <1>8 DEF Next, Allocate

-----------------------------------------------------------------------------
(* The interval jit_liveness_analysis computes for a temporary begins no   *)
(* later than its first read and ends no earlier than its last, in every   *)
(* function the lowering emits: no register is given away under a value    *)
(* that is still to be read.                                               *)
THEOREM ReadsCovered == Spec => []IntervalsCoverReads
<1>1. Init => IntervalsInv
  <2>1. Init => LiveInv
      BY DEF Init, InitAlloc, LiveInv
  <2>. QED
      BY <2>1, InitType, InitMade DEF Init, IntervalsInv, Inv
<1>2. IntervalsInv => IntervalsCoverReads
    BY DEF IntervalsInv, LiveInv, IntervalsCoverReads, Temporary
<1>. QED
    BY <1>1, <1>2, NextIntervals, PTL DEF Spec
=============================================================================
