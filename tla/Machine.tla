------------------------------ MODULE Machine ------------------------------
(***************************************************************************)
(* What the instructions emitted through src/backend/x64.c do, on symbolic *)
(* values.  A value is the term that computed it, in prefix form: two      *)
(* values are equal exactly when they were computed in the same way.       *)
(* Operand widths are abstracted: every move copies the whole value.       *)
(*                                                                         *)
(* A machine is a record: the registers, the stack words by their offset   *)
(* from rbp, rsp as such an offset, the flags, the stack offset of each    *)
(* local's cell, and what the outside world has observed.                  *)
(***************************************************************************)
EXTENDS Integers, Sequences
LOCAL INSTANCE SequencesExt

RAX == 0
RCX == 1
RDX == 2
RBP == 5
R10 == 10
R11 == 11
Regs == 0 .. 15

(* A calling convention: the registers of the first arguments, those a     *)
(* callee may leave changed, and the bytes above its return address that   *)
(* are its own; the other arguments lie above these.                       *)
SysV(args)  == [args |-> args, clobbers |-> {0, 1, 2, 6, 7, 8, 9, 10, 11}, shadow |-> 0]
Win64(args) == [args |-> args, clobbers |-> {0, 1, 2, 8, 9, 10, 11}, shadow |-> 32]

Leaf(t, n) == << <<t, n>> >>
Junk == Leaf("junk", 0)
Const == Leaf("imm", 0)
Term(op, x, y) == Leaf(op, 0) \o x \o y
IsLocal(t) == Len(t) = 1 /\ t[1][1] = "local"
LocalOf(t) == t[1][2]
Obs(kind, vals) == [kind |-> kind, vals |-> vals]

(* One operation: kind, destination and source register or number, and the *)
(* arithmetic operator of alu and set.                                     *)
Op(k, d, s) == [k |-> k, d |-> d, s |-> s, op |-> k]
Alu(op, d, s) == [k |-> "alu", d |-> d, s |-> s, op |-> op]
Unary(op, d) == [k |-> "unary", d |-> d, s |-> d, op |-> op]
SetCC(op, d) == [k |-> "set", d |-> d, s |-> d, op |-> op]

At(m, off) == IF off \in DOMAIN m.mem THEN m.mem[off] ELSE Junk
Write(m, off, x) == IF off \in DOMAIN m.mem THEN [m EXCEPT !.mem[off] = x] ELSE m
SetReg(m, r, x) == [m EXCEPT !.reg[r] = x]
Observe(m, kind, vals) == [m EXCEPT !.obs = Append(@, Obs(kind, vals))]

(* A load or store through a register: the cell of a local when it holds   *)
(* one's address, the rest of memory otherwise.                            *)
LoadVia(m, base) ==
    IF IsLocal(base) THEN At(m, m.cell[LocalOf(base)]) ELSE Term("deref", base, << >>)
StoreVia(m, base, x) ==
    IF IsLocal(base) THEN Write(m, m.cell[LocalOf(base)], x) ELSE Observe(m, "store", <<base, x>>)

Pop(m, r) == [m EXCEPT !.reg[r] = At(m, m.sp), !.sp = @ + 8]
PushReg(m, r) == [Write(m, m.sp - 8, m.reg[r]) EXCEPT !.sp = @ - 8]

(* A call with n arguments: it finds them where the convention puts them,  *)
(* leaves its result in rax and may use its shadow space.                  *)
CallWith(m, conv, n) ==
    LET args == [i \in 1 .. n |-> IF i <= Len(conv.args) THEN m.reg[conv.args[i]]
                                  ELSE At(m, m.sp + conv.shadow + 8 * (i - Len(conv.args) - 1))]
        regs == [r \in Regs |-> IF r = RAX THEN Leaf("ret", Len(m.obs))
                                ELSE IF r \in conv.clobbers THEN Junk ELSE m.reg[r]]
        mem == [off \in DOMAIN m.mem |->
                   IF m.sp <= off /\ off < m.sp + conv.shadow THEN Junk ELSE m.mem[off]]
    IN  [Observe(m, "call", args) EXCEPT !.reg = regs, !.mem = mem]

(* mov rsp, rbp; pop rbp; ret; of a function that returns n values *)
Leave(m, n) ==
    [Observe(m, "ret", IF n = 0 THEN << >> ELSE <<m.reg[RAX]>>) EXCEPT !.reg[RBP] = At(m, 0), !.sp = 8]

Run(m, o) ==
    CASE o.k = "mov"    -> SetReg(m, o.d, m.reg[o.s])
      [] o.k = "imm"    -> SetReg(m, o.d, Const)
      [] o.k = "ld"     -> SetReg(m, o.d, At(m, o.s))
      [] o.k = "st"     -> Write(m, o.d, m.reg[o.s])
      [] o.k = "lea"    -> SetReg(m, o.d, Leaf("local", o.s))
      [] o.k = "ldvia"  -> SetReg(m, o.d, LoadVia(m, m.reg[o.s]))
      [] o.k = "stvia"  -> StoreVia(m, m.reg[o.d], m.reg[o.s])
      [] o.k = "alu"    -> SetReg(m, o.d, Term(o.op, m.reg[o.d], m.reg[o.s]))
      [] o.k = "unary"  -> SetReg(m, o.d, Term(o.op, m.reg[o.d], << >>))
      [] o.k = "cqo"    -> SetReg(m, RDX, Junk)
      [] o.k = "idiv"   -> SetReg(SetReg(m, RAX, Term("div", m.reg[RAX], m.reg[o.s])),
                                  RDX, Term("mod", m.reg[RAX], m.reg[o.s]))
      [] o.k = "cmp"    -> [m EXCEPT !.flags = m.reg[o.d] \o m.reg[o.s]]
      [] o.k = "zero"   -> [SetReg(m, o.d, Leaf("zero", 0)) EXCEPT !.flags = Leaf("zero", 0)]
      [] o.k = "set"    -> SetReg(m, o.d, Leaf(o.op, 0) \o m.flags)
      [] o.k = "push"   -> PushReg(m, o.s)
      [] o.k = "pop"    -> Pop(m, o.d)
      [] o.k = "call"   -> CallWith(m, o.d, o.s)
      [] o.k = "addsp"  -> [m EXCEPT !.sp = @ + o.s]
      [] o.k = "leave"  -> Leave(m, o.s)

RunAll(m, ops) == FoldLeft(Run, m, ops)
=============================================================================
