------------------------------ MODULE JitExec ------------------------------
(***************************************************************************)
(* The machine code the JIT emits for an allocated function, executed next *)
(* to the IR it was emitted from (src/jit/jit.c, jit_compile_func and      *)
(* jit_emit_instr).                                                        *)
(*                                                                         *)
(* A step emits one IR instruction as a sequence of machine operations,    *)
(* runs them, and runs the IR instruction on its own values.  On straight- *)
(* line code the order of emission is the order of execution.              *)
(***************************************************************************)
EXTENDS LinearScan, SequencesExt

CONSTANTS
    ArgRegs,       \* sysv_int_arg_regs, in order
    CalleeSaved,   \* CALLEE_SAVED_REGS, in order
    MaxWords       \* bound: 8-byte words of stack below the saved rbp

VARIABLES
    pc,            \* instructions emitted and run
    machine,       \* the machine, see Machine
    callee_used,   \* callee_saved_used: how many registers the prologue pushed
    ival, imem,    \* IR side: value of each vreg, content of each local
    ir_obs         \* IR side: calls, stores to other memory, the return

execVars == <<pc, machine, callee_used, ival, imem, ir_obs>>
jitVars == <<vars, execVars>>

X == INSTANCE Machine

(* The word at 0 is the saved rbp, the ones below it the frame. *)
EntryMachine(argRegs) ==
    [reg   |-> [r \in X!Regs |->
                  IF r \in Range(argRegs)
                  THEN X!Leaf("param", (CHOOSE i \in DOMAIN argRegs : argRegs[i] = r) - 1)
                  ELSE X!Leaf("caller", r)],
     mem   |-> [off \in {-8 * k : k \in 0 .. MaxWords} |->
                  IF off = 0 THEN X!Leaf("caller", 5) ELSE X!Junk],
     sp    |-> 0,
     flags |-> X!Junk,
     cell  |-> [v \in VregIds |-> 0],
     obs   |-> << >>]

InitExec ==
    /\ pc = 0
    /\ machine = EntryMachine(ArgRegs)
    /\ callee_used = 0
    /\ ival = [v \in VregIds |-> X!Leaf("param", v)]
    /\ imem = [v \in VregIds |-> X!Leaf("fresh", v)]
    /\ ir_obs = << >>

-----------------------------------------------------------------------------
(* jit_val_to_reg: the register holding an operand and the code that puts  *)
(* it there.  A vreg the allocator skipped is read from its home too.      *)
Fetch(v, scratch) ==
    IF v = Imm THEN [r |-> scratch, ops |-> <<X!Op("imm", scratch, 0)>>]
    ELSE IF InRegister(v) THEN [r |-> home[v], ops |-> << >>]
    ELSE [r |-> scratch, ops |-> <<X!Op("ld", scratch, home[v])>>]

Move(d, s) == IF d = s THEN << >> ELSE <<X!Op("mov", d, s)>>

(* Fetch into exactly this register. *)
FetchInto(v, r) == LET f == Fetch(v, r) IN f.ops \o Move(r, f.r)

DstReg(v) == IF InRegister(v) THEN home[v] ELSE X!RAX

(* jit_store_vreg *)
WriteBack(v, r) == IF state[v] = "spilled" THEN <<X!Op("st", home[v], r)>> ELSE << >>

(* The result is in r; bring it home. *)
BringHome(v, r) == IF InRegister(v) THEN Move(home[v], r) ELSE WriteBack(v, r)

AluOps == {"add", "sub", "mul", "and", "or", "xor"}
CmpOps == {"eq", "ne", "lt", "le", "gt", "ge"}

(* Mutant: The operands are taken in the wrong order. *)
EmitAluSwapped(ins) ==
    LET rhs == Fetch(ins.args[1], X!R11)
        dst == DstReg(ins.dst)
    IN  FetchInto(ins.args[2], X!R10) \o rhs.ops \o Move(dst, X!R10)
          \o <<X!Alu(ins.op, dst, rhs.r)>> \o WriteBack(ins.dst, dst)

(* Mutant: Both operands are fetched through r10. *)
EmitAluOneScratch(ins) ==
    LET rhs == Fetch(ins.args[2], X!R10)
        dst == DstReg(ins.dst)
    IN  FetchInto(ins.args[1], X!R10) \o rhs.ops \o Move(dst, X!R10)
          \o <<X!Alu(ins.op, dst, rhs.r)>> \o WriteBack(ins.dst, dst)

EmitAlu(ins) ==
    LET rhs == Fetch(ins.args[2], X!R11)
        dst == DstReg(ins.dst)
    IN  FetchInto(ins.args[1], X!R10) \o rhs.ops \o Move(dst, X!R10)
          \o <<X!Alu(ins.op, dst, rhs.r)>> \o WriteBack(ins.dst, dst)

EmitUnary(ins, scratch) ==
    LET src == Fetch(ins.args[1], scratch)
        dst == DstReg(ins.dst)
    IN  src.ops \o Move(dst, src.r) \o <<X!Unary(ins.op, dst)>> \o WriteBack(ins.dst, dst)

EmitDivMod(ins) ==
    LET rhs == Fetch(ins.args[2], X!RCX)
        divide == rhs.ops \o FetchInto(ins.args[1], X!RAX)
                    \o <<X!Op("cqo", 0, 0), X!Op("idiv", 0, rhs.r)>>
    IN  IF ins.op = "div" THEN divide \o BringHome(ins.dst, X!RAX)
        ELSE IF InRegister(ins.dst) THEN divide \o <<X!Op("mov", home[ins.dst], X!RDX)>>
        ELSE divide \o <<X!Op("st", home[ins.dst], X!RDX)>>

EmitCmp(ins) ==
    LET rhs == Fetch(ins.args[2], X!R11)
    IN  FetchInto(ins.args[1], X!R10) \o rhs.ops
          \o <<X!Op("cmp", X!R10, rhs.r), X!Op("zero", X!RAX, 0), X!SetCC(ins.op, X!RAX)>>
          \o BringHome(ins.dst, X!RAX)

(* Mutant: The loop over the stack arguments stops before the first. *)
EmitCallShort(ins, conv) ==
    LET n == Len(ins.args)
        nregs == IF n < Len(conv.args) THEN n ELSE Len(conv.args)
        inRegs == [i \in 1 .. nregs |->
                     LET f == Fetch(ins.args[i], X!R10) IN f.ops \o Move(conv.args[i], f.r)]
        onStack == IF n = nregs THEN << >> ELSE [k \in 1 .. n - nregs - 1 |->
                     LET f == Fetch(ins.args[n + 1 - k], X!R10)
                     IN  f.ops \o Move(X!RAX, f.r) \o <<X!Op("push", 0, X!RAX)>>]
    IN  FlattenSeq(inRegs) \o FlattenSeq(onStack) \o <<X!Op("call", conv, n)>>
          \o (IF n > nregs THEN <<X!Op("addsp", 0, 8 * (n - nregs))>> ELSE << >>)
          \o (IF ins.dst = Void THEN << >> ELSE BringHome(ins.dst, X!RAX))

(* Register arguments first to last, stack arguments last to first. *)
EmitCall(ins, conv) ==
    LET n == Len(ins.args)
        nregs == IF n < Len(conv.args) THEN n ELSE Len(conv.args)
        inRegs == [i \in 1 .. nregs |->
                     LET f == Fetch(ins.args[i], X!R10) IN f.ops \o Move(conv.args[i], f.r)]
        onStack == [k \in 1 .. n - nregs |->
                     LET f == Fetch(ins.args[n + 1 - k], X!R10)
                     IN  f.ops \o Move(X!RAX, f.r) \o <<X!Op("push", 0, X!RAX)>>]
    IN  FlattenSeq(inRegs) \o FlattenSeq(onStack) \o <<X!Op("call", conv, n)>>
          \o (IF n > nregs THEN <<X!Op("addsp", 0, 8 * (n - nregs))>> ELSE << >>)
          \o (IF ins.dst = Void THEN << >> ELSE BringHome(ins.dst, X!RAX))

(* The pops come while rsp is still at the bottom of the frame.  They take *)
(* the first registers of CALLEE_SAVED_REGS, as many as were pushed.       *)
CalleeUsed == {i \in DOMAIN CalleeSaved :
                  \E v \in VregIds : InRegister(v) /\ home[v] = CalleeSaved[i]}

EmitReturn(values) ==
    [k \in 1 .. callee_used |-> X!Op("pop", CalleeSaved[callee_used + 1 - k], 0)]
        \o <<X!Op("leave", 0, values)>>

EmitLoad(ins) ==
    LET base == Fetch(ins.args[1], X!RCX)
    IN  base.ops \o <<X!Op("ldvia", DstReg(ins.dst), base.r)>> \o WriteBack(ins.dst, DstReg(ins.dst))

EmitStore(ins) ==
    LET base == Fetch(ins.dst, X!RCX)
        val  == Fetch(ins.args[2], X!RAX)
    IN  base.ops \o val.ops \o <<X!Op("stvia", base.r, val.r)>>

(* The operators that have no case of their own are a nop. *)
EmitInstr(ins) ==
    CASE ins.op \in AluOps         -> EmitAlu(ins)
      [] ins.op \in {"neg", "sext", "zext"} -> EmitUnary(ins, X!RAX)
      [] ins.op \in {"div", "mod"}  -> EmitDivMod(ins)
      [] ins.op \in CmpOps         -> EmitCmp(ins)
      [] ins.op = "call"           -> EmitCall(ins, X!SysV(ArgRegs))
      [] ins.op = "ret"            -> FetchInto(ins.args[1], X!RAX) \o EmitReturn(1)
      [] ins.op = "ret_void"       -> EmitReturn(0)
      [] ins.op = "load"           -> EmitLoad(ins)
      [] ins.op = "store"          -> EmitStore(ins)
      [] OTHER -> << >>

-----------------------------------------------------------------------------
(* jit_compile_func *)

Ascending(S) == SetToSortSeq(S, <)

(* Mutant: The frame is sized before the allocas are met. *)
FrameSizeUnpatched ==
    LET aligned == 16 * ((15 - next_slot) \div 16)
    IN  IF (aligned \div 8) % 2 = 0 THEN aligned + 8 ELSE aligned

(* Spill slots, and for each alloca a cell and a home for its address. *)
FrameSize ==
    LET slots == 16 * Cardinality({s \in DOMAIN code : code[s].op = "alloca"}) - next_slot
        aligned == 16 * ((slots + 15) \div 16)
    IN  IF (aligned \div 8) % 2 = 0 THEN aligned + 8 ELSE aligned

ParamMoves ==
    FlattenSeq([i \in 1 .. params |->
        IF i > Len(ArgRegs) THEN << >> ELSE
        IF InRegister(i - 1) THEN Move(home[i - 1], ArgRegs[i])
                             ELSE WriteBack(i - 1, ArgRegs[i])])

Prologue ==
    /\ phase = "done"
    /\ LET saved == Ascending(CalleeUsed)
           pushes == [k \in DOMAIN saved |-> X!Op("push", 0, CalleeSaved[saved[k]])]
       IN  machine' = X!RunAll(machine, pushes \o <<X!Op("addsp", 0, -FrameSize)>> \o ParamMoves)
    /\ callee_used' = Cardinality(CalleeUsed)
    /\ phase' = "emit"
    /\ UNCHANGED <<irVars, liveVars, scanVars, pc, ival, imem, ir_obs>>

Value(v) == IF v = Imm THEN X!Const ELSE ival[v]

(* What the IR instruction computes. *)
Result(ins) ==
    CASE ins.op = "alloca" -> X!Leaf("local", ins.dst)
      [] ins.op = "load"   -> LET p == Value(ins.args[1]) IN
                                IF X!IsLocal(p) THEN imem[X!LocalOf(p)] ELSE X!Term("deref", p, << >>)
      [] ins.op = "call"   -> X!Leaf("ret", Len(ir_obs))
      [] OTHER -> X!Leaf(ins.op, 0) \o FlattenSeq([i \in DOMAIN ins.args |-> Value(ins.args[i])])

RunIR(ins) ==
    /\ ival' = IF ins.op = "store" \/ ins.dst = Void THEN ival
               ELSE [ival EXCEPT ![ins.dst] = Result(ins)]
    /\ LET p == Value(ins.dst)
           local == ins.op = "store" /\ X!IsLocal(p)
       IN  /\ imem' = IF local THEN [imem EXCEPT ![X!LocalOf(p)] = Value(ins.args[2])] ELSE imem
           /\ ir_obs' = CASE ins.op = "store" /\ ~local ->
                                 Append(ir_obs, X!Obs("store", <<p, Value(ins.args[2])>>))
                          [] ins.op \in {"call", "ret", "ret_void"} ->
                                 Append(ir_obs, X!Obs(IF ins.op = "call" THEN "call" ELSE "ret",
                                     [i \in DOMAIN ins.args |-> Value(ins.args[i])]))
                          [] OTHER -> ir_obs

(* Mutant: The vreg keeps the home the allocator gave it. *)
EmitAllocaInPlace(ins) ==
    /\ ins.op = "alloca"
    /\ next_slot' = next_slot - 16
    /\ UNCHANGED <<state, home>>
    /\ LET m == X!Write([machine EXCEPT !.cell[ins.dst] = next_slot - 8],
                        next_slot - 8, X!Leaf("fresh", ins.dst))
       IN  machine' = X!RunAll(m, <<X!Op("lea", X!R11, ins.dst),
                                    X!Op("st", next_slot - 16, X!R11)>>)
    /\ UNCHANGED <<vr, int_free, xmm_free, active>>

(* An alloca reserves its cell and moves the vreg to a slot of its own,    *)
(* whatever the allocator had given it.  The cell's first content is the   *)
(* local's.                                                                *)
EmitAlloca(ins) ==
    /\ ins.op = "alloca"
    /\ next_slot' = next_slot - 16
    /\ state' = [state EXCEPT ![ins.dst] = "spilled"]
    /\ home'  = [home EXCEPT ![ins.dst] = next_slot - 16]
    /\ LET m == X!Write([machine EXCEPT !.cell[ins.dst] = next_slot - 8],
                        next_slot - 8, X!Leaf("fresh", ins.dst))
       IN  machine' = X!RunAll(m, <<X!Op("lea", X!R11, ins.dst),
                                    X!Op("st", next_slot - 16, X!R11)>>)
    /\ UNCHANGED <<vr, int_free, xmm_free, active>>

EmitOther(ins) ==
    /\ ins.op # "alloca"
    /\ machine' = X!RunAll(machine, EmitInstr(ins))
    /\ UNCHANGED scanVars

EmitNext ==
    /\ phase = "emit" /\ pc < Len(code)
    /\ EmitAlloca(code[pc + 1]) \/ EmitOther(code[pc + 1])
    /\ RunIR(code[pc + 1])
    /\ pc' = pc + 1
    /\ UNCHANGED <<irVars, phase, liveVars, callee_used>>

JitInit == Init /\ InitExec

JitNext == (Next /\ UNCHANGED execVars) \/ Prologue \/ EmitNext

JitSpec == JitInit /\ [][JitNext]_jitVars

-----------------------------------------------------------------------------
HomeValue(v) ==
    IF v = Imm THEN X!Const
    ELSE IF InRegister(v) THEN machine.reg[home[v]] ELSE X!At(machine, home[v])

Needed(v) == \E s \in pc + 1 .. Len(code) : v \in Operands(code[s]) \cup {code[s].dst}
Computed(v) == v < params \/ \E s \in 1 .. pc : code[s].dst = v /\ code[s].op # "store"

(* The code does what the IR says: the same calls with the same arguments, *)
(* the same stores outside the frame and the same value returned.          *)
JitMatchesIR == machine.obs = ir_obs

(* Between two instructions every value still needed is where the          *)
(* allocator says it is: in its register or in its slot.                   *)
HomesHoldValues ==
    phase = "emit" =>
        \A v \in VregIds : Needed(v) /\ Computed(v) => ival[v] = HomeValue(v)

-----------------------------------------------------------------------------
(* What a comment of jit.c says of the code, and the emitted code breaks.  *)

Finished == phase = "emit" /\ pc = Len(code)

(* "Restore callee-saved regs (in reverse order) before standard           *)
(* epilogue" (jit.c:478): on return every callee-saved register holds what *)
(* the caller left there.                                                  *)
CalleeSavedRestored ==
    Finished => \A r \in Range(CalleeSaved) : machine.reg[r] = X!Leaf("caller", r)
=============================================================================
