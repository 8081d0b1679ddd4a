------------------------------- MODULE PeExec -------------------------------
(***************************************************************************)
(* The machine code of a function compiled for Windows, executed next to   *)
(* the IR it was emitted from: pe_liveness, pe_regalloc, pe_emit_instr and *)
(* the prologue in pe_compile_module (src/output/windows/pe.c).            *)
(*                                                                         *)
(* Most instructions are emitted as the JIT emits them.  What differs is   *)
(* the allocation, in which a vreg keeps its home for good, the calling    *)
(* convention, the frame and the return.  A call is taken to reach its     *)
(* callee, although nothing ever fills in its operand.                     *)
(***************************************************************************)
EXTENDS JitExec

CONSTANTS
    PeRegs,       \* the registers of PE_ALLOC_ORDER
    PeArgRegs     \* WIN_INT_ARG_REGS, in order

ASSUME PeAssumption == PeRegs \subseteq X!Regs /\ Range(PeArgRegs) \subseteq X!Regs

Win64 == X!Win64(PeArgRegs)

-----------------------------------------------------------------------------
(* pe_liveness and pe_regalloc: one pass over the vregs.  The registers    *)
(* are given out lowest number first, and none is taken back.              *)

Definitions(v) == {s \in DOMAIN code : code[s].dst = v}
PeIsFloat(v) == Definitions(v) # {} /\ code[Max(Definitions(v))].flt

PeRank(v) == Cardinality({u \in 0 .. v : ~PeIsFloat(u)})
PeInRegister(v) == ~PeIsFloat(v) /\ PeRank(v) <= Cardinality(PeRegs)
PeSlot(v) == -8 * Cardinality({u \in 0 .. v : ~PeInRegister(u)})
PeHome(v) == IF PeInRegister(v) THEN Ascending(PeRegs)[PeRank(v)] ELSE PeSlot(v)

PeRegalloc ==
    /\ phase = "lower" /\ lowered
    /\ next_vreg <= MaxVregs   \* bound: PE_MAX_VREGS, compared with nothing
    /\ phase' = "pe_done"
    /\ state' = [v \in VregIds |-> IF v >= next_vreg THEN "unallocated"
                                   ELSE IF PeInRegister(v) THEN "in_register" ELSE "spilled"]
    /\ home' = [v \in VregIds |-> IF v >= next_vreg THEN 0 ELSE PeHome(v)]
    /\ next_slot' = PeSlot(next_vreg - 1)
    /\ UNCHANGED <<irVars, liveVars, vr, int_free, xmm_free, active, execVars>>

-----------------------------------------------------------------------------
(* pe_compile_module *)

(* Mutant: no shadow space for the callees. *)
PeFrameSizeNoShadow == 16 * ((15 - next_slot) \div 16) + 8

(* The frame is sized before the allocas are met, and has shadow space for *)
(* the calls.                                                              *)
PeFrameSize == 16 * ((47 - next_slot) \div 16) + 8

PeParamMoves ==
    FlattenSeq([i \in 1 .. params |->
        IF i > Len(PeArgRegs) THEN << >>
        ELSE IF InRegister(i - 1) THEN Move(home[i - 1], PeArgRegs[i])
        ELSE WriteBack(i - 1, PeArgRegs[i])])

PePrologue ==
    /\ phase = "pe_done"
    /\ LET saved == Ascending(CalleeUsed)
           pushes == [k \in DOMAIN saved |-> X!Op("push", 0, CalleeSaved[saved[k]])]
       IN  machine' = X!RunAll(EntryMachine(PeArgRegs),
                               pushes \o <<X!Op("addsp", 0, -PeFrameSize)>> \o PeParamMoves)
    /\ phase' = "pe_emit"
    /\ UNCHANGED <<irVars, liveVars, scanVars, pc, callee_used, ival, imem, ir_obs>>

-----------------------------------------------------------------------------
(* pe_emit_instr *)

(* The registers popped are those in use at the return, not those pushed:  *)
(* an alloca moves its vreg out of one.                                    *)
PeReturn(values) ==
    LET used == Ascending(CalleeUsed)
    IN  [k \in DOMAIN used |-> X!Op("pop", CalleeSaved[used[Len(used) + 1 - k]], 0)]
          \o <<X!Op("leave", 0, values)>>

(* The conversions have no case here either. *)
PeInstr(ins) ==
    CASE ins.op \in AluOps        -> EmitAlu(ins)
      [] ins.op = "neg"           -> EmitUnary(ins, X!R10)
      [] ins.op \in {"div", "mod"} -> EmitDivMod(ins)
      [] ins.op \in CmpOps        -> EmitCmp(ins)
      [] ins.op = "call"          -> EmitCall(ins, Win64)
      [] ins.op = "ret"           -> FetchInto(ins.args[1], X!RAX) \o PeReturn(1)
      [] ins.op = "ret_void"      -> PeReturn(0)
      [] ins.op = "load"          -> EmitLoad(ins)
      [] ins.op = "store"         -> EmitStore(ins)
      [] OTHER -> << >>

PeEmitOther(ins) ==
    /\ ins.op # "alloca"
    /\ machine' = X!RunAll(machine, PeInstr(ins))
    /\ UNCHANGED scanVars

PeEmitNext ==
    /\ phase = "pe_emit" /\ pc < Len(code)
    /\ EmitAlloca(code[pc + 1]) \/ PeEmitOther(code[pc + 1])
    /\ RunIR(code[pc + 1])
    /\ pc' = pc + 1
    /\ UNCHANGED <<irVars, phase, liveVars, callee_used>>

PeNext == PeRegalloc \/ PePrologue \/ PeEmitNext
=============================================================================
