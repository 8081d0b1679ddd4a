------------------------------- MODULE IR -------------------------------
(***************************************************************************)
(* The three-address IR (src/ir/ir.c) as the expression lowering of        *)
(* src/ir/codegen.c drives it on a straight-line function.                 *)
(*                                                                         *)
(* Codegen only ever emits into the block it created last, so the blocks   *)
(* of a function laid end to end are one sequence, `code`.  An operand is  *)
(* a vreg number, or Imm for any constant.  Types are reduced to the       *)
(* register class: flt is TRUE for f32 and f64.                            *)
(***************************************************************************)
EXTENDS Integers, Sequences, FiniteSets

CONSTANTS
    MaxInstrs,    \* bound: instructions of the function
    ParamCounts,  \* bound: how many parameters the function may have
    MaxArgs,      \* bound: arguments of a call
    Classes,      \* the register classes of locals, a subset of BOOLEAN
    Forms,        \* bound: the expression forms the function is made of
    BinaryOps,    \* the two-operand operations lowered
    UnaryOps      \* the one-operand operations lowered

ASSUME IRAssumption ==
    /\ MaxInstrs \in Nat /\ MaxArgs \in Nat /\ ParamCounts \subseteq Nat
    /\ Classes \subseteq BOOLEAN

VARIABLES
    code,       \* the instructions, in emission order
    next_vreg,  \* IRFunc.next_vreg
    params,     \* IRFunc.param_count: vregs 0..params-1 are the parameters
    stk,        \* evaluated subexpressions not consumed yet, newest last
    locals,     \* the locals in scope: the vreg of the slot and the class
    lowered     \* TRUE once the function is complete

irVars == <<code, next_vreg, params, stk, locals, lowered>>

Void == -1      \* irval_void(): no destination, no value
Imm  == -2      \* irval_imm(), irval_global(), irval_func()

-----------------------------------------------------------------------------
(* Instructions.  A store holds its pointer in dst, as ir_emit_store does. *)

Instr(op, dst, args, flt) == [op |-> op, dst |-> dst, args |-> args, flt |-> flt]
Operand(v, flt) == [v |-> v, flt |-> flt]

(* ir_emit and its variants when they produce a value: a fresh vreg. *)
EmitValue(op, args, flt) ==
    /\ Len(code) < MaxInstrs
    /\ code' = Append(code, Instr(op, next_vreg, args, flt))
    /\ next_vreg' = next_vreg + 1

(* ir_emit and its variants when they produce none. *)
EmitEffect(op, dst, args) ==
    /\ Len(code) < MaxInstrs
    /\ code' = Append(code, Instr(op, dst, args, FALSE))
    /\ UNCHANGED next_vreg

-----------------------------------------------------------------------------
(* Lowering. *)

(* The entry block of cg_func: a slot for each parameter, and the store    *)
(* that moves the incoming value there.                                    *)
EntryCode(n) ==
    [i \in 1 .. 2 * n |->
        LET k == (i - 1) \div 2
        IN  IF i % 2 = 1 THEN Instr("alloca", n + k, <<Imm>>, FALSE)
                         ELSE Instr("store", n + k, <<Imm, k>>, FALSE)]

InitLower ==
    \E n \in ParamCounts :
        /\ params = n
        /\ code = EntryCode(n)
        /\ next_vreg = 2 * n
        /\ locals = {[ptr |-> n + k, flt |-> FALSE] : k \in 0 .. n - 1}
        /\ stk = << >>
        /\ lowered = FALSE

Top == stk[Len(stk)]
Pop(k) == SubSeq(stk, 1, Len(stk) - k)

(* let: the slot is allocated and the local registered before the          *)
(* initialiser is lowered; the initialising store is an Assign.            *)
Let(flt) ==
    /\ stk = << >>
    /\ EmitValue("alloca", <<Imm>>, FALSE)
    /\ locals' = locals \cup {[ptr |-> next_vreg, flt |-> flt]}
    /\ UNCHANGED <<params, stk, lowered>>

Literal ==
    /\ Len(stk) < MaxArgs
    /\ stk' = Append(stk, Operand(Imm, FALSE))
    /\ UNCHANGED <<code, next_vreg, params, locals, lowered>>

ReadLocal(l) ==
    /\ Len(stk) < MaxArgs
    /\ EmitValue("load", <<l.ptr, Imm>>, l.flt)
    /\ stk' = Append(stk, Operand(next_vreg, l.flt))
    /\ UNCHANGED <<params, locals, lowered>>

Binary(op) ==
    /\ Len(stk) >= 2
    /\ LET lhs == stk[Len(stk) - 1]
           rhs == Top
       IN  /\ lhs.flt = rhs.flt
           /\ EmitValue(op, <<lhs.v, rhs.v>>, lhs.flt)
           /\ stk' = Append(Pop(2), Operand(next_vreg, lhs.flt))
    /\ UNCHANGED <<params, locals, lowered>>

Unary(op) ==
    /\ stk # << >>
    /\ EmitValue(op, <<Top.v>>, Top.flt)
    /\ stk' = Append(Pop(1), Operand(next_vreg, Top.flt))
    /\ UNCHANGED <<params, locals, lowered>>

(* x = e: the value stored is also the value of the expression. *)
Assign(l) ==
    /\ stk # << >>
    /\ Top.flt = l.flt
    /\ EmitEffect("store", l.ptr, <<Imm, Top.v>>)
    /\ UNCHANGED <<params, stk, locals, lowered>>

(* &x: the slot's own vreg, no instruction. *)
AddressOf(l) ==
    /\ Len(stk) < MaxArgs
    /\ stk' = Append(stk, Operand(l.ptr, FALSE))
    /\ UNCHANGED <<code, next_vreg, params, locals, lowered>>

(* *e, and e.f, which is lowered the same way. *)
Deref(flt) ==
    /\ stk # << >> /\ ~Top.flt
    /\ EmitValue("load", <<Top.v, Imm>>, flt)
    /\ stk' = Append(Pop(1), Operand(next_vreg, flt))
    /\ UNCHANGED <<params, locals, lowered>>

(* *p = e: e is evaluated first, then p. *)
AssignDeref ==
    /\ Len(stk) >= 2 /\ ~Top.flt
    /\ EmitEffect("store", Top.v, <<Imm, stk[Len(stk) - 1].v>>)
    /\ stk' = Pop(1)
    /\ UNCHANGED <<params, locals, lowered>>

(* x++: the only expression whose value is used again after its consumer. *)
PostIncrement(l) ==
    /\ Len(stk) < MaxArgs /\ Len(code) + 3 <= MaxInstrs
    /\ code' = code \o <<Instr("load", next_vreg, <<l.ptr, Imm>>, l.flt),
                         Instr("add", next_vreg + 1, <<next_vreg, Imm>>, l.flt),
                         Instr("store", l.ptr, <<Imm, next_vreg + 1>>, FALSE)>>
    /\ next_vreg' = next_vreg + 2
    /\ stk' = Append(stk, Operand(next_vreg, l.flt))
    /\ UNCHANGED <<params, locals, lowered>>

(* Calls return an integer (vd = FALSE) or nothing. *)
Call(n, vd) ==
    /\ n <= Len(stk)
    /\ vd => n = Len(stk)
    /\ LET args == [i \in 1 .. n |-> stk[Len(stk) - n + i].v]
       IN  IF vd THEN /\ EmitEffect("call", Void, args)
                      /\ stk' = Pop(n)
                 ELSE /\ EmitValue("call", args, FALSE)
                      /\ stk' = Append(Pop(n), Operand(next_vreg, FALSE))
    /\ UNCHANGED <<params, locals, lowered>>

(* An expression statement drops its value. *)
Discard ==
    /\ Len(stk) = 1
    /\ stk' = << >>
    /\ UNCHANGED <<code, next_vreg, params, locals, lowered>>

(* return e; or the end of the body, which returns nothing. *)
Return ==
    /\ Len(stk) <= 1
    /\ IF stk = << >> THEN EmitEffect("ret_void", Void, << >>)
                      ELSE EmitEffect("ret", Void, <<Top.v>>)
    /\ stk' = << >> /\ locals' = {}
    /\ lowered' = TRUE
    /\ UNCHANGED params

(* One step of the lowering, among the expression forms of the bound. *)
Lower ==
    /\ ~lowered
    /\ \/ "let" \in Forms /\ \E flt \in Classes : Let(flt)
       \/ "literal" \in Forms /\ Literal
       \/ "read" \in Forms /\ \E l \in locals : ReadLocal(l)
       \/ "assign" \in Forms /\ \E l \in locals : Assign(l)
       \/ "address" \in Forms /\ \E l \in locals : AddressOf(l)
       \/ "postfix" \in Forms /\ \E l \in locals : PostIncrement(l)
       \/ "deref" \in Forms /\ \E flt \in Classes : Deref(flt)
       \/ "assign_deref" \in Forms /\ AssignDeref
       \/ \E op \in BinaryOps : Binary(op)
       \/ \E op \in UnaryOps : Unary(op)
       \/ "call" \in Forms /\ \E n \in 0 .. MaxArgs, vd \in BOOLEAN : Call(n, vd)
       \/ Discard
       \/ Return
=============================================================================
