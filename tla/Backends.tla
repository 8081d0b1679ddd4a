------------------------------ MODULE Backends ------------------------------
(***************************************************************************)
(* The two backends that select instructions, the JIT and the one for      *)
(* Windows, on the same functions: what each instruction they emit does to *)
(* the homes of the values.                                                *)
(***************************************************************************)
EXTENDS PeExec

BackendsNext == JitNext \/ PeNext

BackendsSpec == JitInit /\ [][BackendsNext]_jitVars

ForWindows == phase = "pe_emit"
Emitting == phase \in {"emit", "pe_emit"}

-----------------------------------------------------------------------------
(* The result is computed in the register the second operand lives in.  It *)
(* happens when the destination is spilled, and then computed in rax, or   *)
(* is the pointer of a later store, whose interval begins only there.      *)
CollidesWithRhs(ins) ==
    /\ ins.op \in AluOps
    /\ ins.args[2] # Imm /\ InRegister(ins.args[2])
    /\ DstReg(ins.dst) = home[ins.args[2]]

(* What the lowering emits and a backend leaves to its default case, a     *)
(* nop: shifts, negations of bits and truth values, narrowing; for Windows *)
(* widening too.                                                           *)
Ignored ==
    {"shl", "shr", "not", "bnot", "trunc"} \cup (IF ForWindows THEN {"sext", "zext"} ELSE {})

(* An arithmetic instruction leaves in its destination's home the result   *)
(* of the operation on what the homes of both operands held before it,     *)
(* however else the three homes and the scratch registers coincide         *)
(* ("safe scratch regs to avoid lhs/rhs/dst collisions", jit.c:274),       *)
(* exactly when its operator is not Ignored.                               *)
ComputesIntoHome ==
    [][ \A d \in VregIds :
          /\ pc' = pc + 1
          /\ code[pc + 1].op \in AluOps \cup UnaryOps \cup Ignored
          /\ code[pc + 1].dst = d /\ ~CollidesWithRhs(code[pc + 1])
          => LET ins == code[pc + 1]
                 operands == [i \in DOMAIN ins.args |-> HomeValue(ins.args[i])]
             IN  HomeValue(d)' = X!Leaf(ins.op, 0) \o FlattenSeq(operands) <=> ins.op \notin Ignored
      ]_jitVars

(* A value the allocator put in a callee-saved register ("survive calls",  *)
(* jit.c:55) or in a spill slot stays there until its last use, over every *)
(* instruction that does not define it: calls, with their stack arguments  *)
(* and shadow space, stores to locals and the allocation of later slots.   *)
(* For Windows this is not so of the slots of allocas, which lie below the *)
(* frame.                                                                  *)
Preserved == IF ForWindows THEN Range(CalleeSaved) \cup {6, 7} ELSE Range(CalleeSaved)
IsAlloca(v) == \E s \in DOMAIN code : code[s].dst = v /\ code[s].op = "alloca"
SafeHome(v) ==
    IF InRegister(v) THEN home[v] \in Preserved
                     ELSE state[v] = "spilled" /\ (ForWindows => ~IsAlloca(v))
SafeHomesSurvive ==
    [][ \A v \in VregIds :
          Emitting /\ SafeHome(v) /\ Computed(v) /\ Needed(v)' /\ code[pc + 1].dst # v
              => HomeValue(v)' = HomeValue(v)
      ]_jitVars

(* A later argument lives in the argument register an earlier one is moved *)
(* to ("This avoids clobbering an already-placed arg", jit.c:401), or a    *)
(* stack argument in the rax that carries an earlier one.                  *)
CallRegs == IF ForWindows THEN PeArgRegs ELSE ArgRegs
ArgumentOverwritten(ins) ==
    \E i, j \in DOMAIN ins.args :
        LET lives == home[ins.args[j]]
        IN  /\ ins.args[j] # Imm /\ InRegister(ins.args[j])
            /\ \/ i < j /\ i <= Len(CallRegs) /\ lives = CallRegs[i]
               \/ Len(CallRegs) < j /\ j < i /\ lives = X!RAX
            /\ ins.args[i] # ins.args[j]

(* A call gives its callee as many arguments as the IR has, and each of    *)
(* them, in a register or pushed, is the value its home held before the    *)
(* first was placed.  For Windows this is so of those in registers: the    *)
(* callee looks for the others above a shadow space nothing reserves.      *)
CallsPassTheirArguments ==
    [][ /\ pc' = pc + 1
        /\ code[pc + 1].op = "call" /\ ~ArgumentOverwritten(code[pc + 1])
        => LET args == code[pc + 1].args
               seen == machine'.obs[Len(machine'.obs)].vals
           IN  /\ Len(seen) = Len(args)
               /\ \A i \in DOMAIN args :
                     (ForWindows /\ i > Len(PeArgRegs)) \/ seen[i] = HomeValue(args[i])
      ]_jitVars
=============================================================================
