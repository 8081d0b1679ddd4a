--------------------------------- MODULE X64 ---------------------------------
(***************************************************************************)
(* The instruction encoder of src/backend/x64.c, byte by byte, against a   *)
(* decoder written from the instruction set's own rules.                   *)
(*                                                                         *)
(* A step asks for one instruction, with any operands of the bounds, and   *)
(* encodes it into an empty buffer.                                        *)
(***************************************************************************)
EXTENDS Integers, Sequences

CONSTANTS
    Regs,    \* bound: register numbers, of 0 .. 15
    Sizes,   \* bound: operand sizes in bytes, of {1, 2, 4, 8}
    Disps,   \* bound: displacements and immediates, of int32_t
    Wides    \* bound: 64-bit immediates, as eight bytes from the low end

ASSUME X64Assumption ==
    /\ Regs \subseteq 0 .. 15 /\ Sizes \subseteq {1, 2, 4, 8}
    /\ \A v \in Disps : v \in Int /\ -2147483647 - 1 <= v /\ v <= 2147483647
    /\ Wides \subseteq [1 .. 8 -> 0 .. 255]

VARIABLES
    asked,   \* the instruction asked for, or << >>
    by,      \* the function of x64.c it was asked from
    text     \* the bytes emitted

vars == <<asked, by, text>>

-----------------------------------------------------------------------------
(* Instructions: an operation, an operand size and operands.               *)

R(n) == [k |-> "reg", n |-> n]
F(n) == [k |-> "xmm", n |-> n]
M(base, disp) == [k |-> "mem", n |-> base, disp |-> disp]
V(v) == [k |-> "imm", v |-> v]
I(op, sz, args) == [op |-> op, sz |-> sz, args |-> args]

C(c) == [k |-> "cond", c |-> c]

(* The numbers the source passes: the byte opcode of an operation between  *)
(* two registers, the /n of one with an immediate, of one on a register    *)
(* alone (with the word opcode), and of a shift; condition codes; scalars. *)
AluOpcode == [add |-> 0, or |-> 8, and |-> \h20, sub |-> \h28, xor |-> \h30, cmp |-> \h38, test |-> \h84]
AluExt == [add |-> 0, or |-> 1, and |-> 4, sub |-> 5, xor |-> 6, cmp |-> 7, test |-> 0]
UnaryExt == [inc |-> <<\hFF, 0>>, dec |-> <<\hFF, 1>>, not |-> <<\hF7, 2>>,
             neg |-> <<\hF7, 3>>, div |-> <<\hF7, 6>>]
ShiftExt == [shl |-> 4, shr |-> 5, sar |-> 7]
Cond == [b |-> 2, ae |-> 3, e |-> 4, ne |-> 5, be |-> 6, a |-> 7,
         l |-> 12, ge |-> 13, le |-> 14, g |-> 15]
Scalar == [fmov |-> \h10, fadd |-> \h58, fmul |-> \h59, fsub |-> \h5C, fdiv |-> \h5E]

-----------------------------------------------------------------------------
(* Encoding helpers *)

Bit(b) == IF b THEN 1 ELSE 0
High(r) == r >= 8

(* codebuf_emit_u16 to _u32: n bytes of v in two's complement, low first. *)
Le(v, n) == [k \in 1 .. n |-> (v \div 256 ^ (k - 1)) % 256]
IsI8(v) == v \in -128 .. 127

Forced(w, r, b) == <<\h40 + 8 * Bit(w) + 4 * Bit(r) + Bit(b)>>
EmitRex(w, r, b) == IF w \/ r \/ b THEN Forced(w, r, b) ELSE << >>
Plus(op, r) == <<op + (r % 8)>>       \* an opcode that holds a register
ModRM(mod, reg, rm) == 64 * mod + 8 * (reg % 8) + (rm % 8)
Sib(base) == IF base % 8 = 4 THEN <<\h24>> ELSE << >>   \* no index

(* Mutant of EmitMem: rbp and r13 without a displacement like the others. *)
EmitMemNoBase5(reg, base, disp) ==
    IF disp = 0 THEN <<ModRM(0, reg, base)>> \o Sib(base)
    ELSE IF IsI8(disp) THEN <<ModRM(1, reg, base)>> \o Sib(base) \o Le(disp, 1)
    ELSE <<ModRM(2, reg, base)>> \o Sib(base) \o Le(disp, 4)

(* emit_mem_opnd *)
EmitMem(reg, base, disp) ==
    IF disp = 0 /\ base % 8 # 5 THEN <<ModRM(0, reg, base)>> \o Sib(base)
    ELSE IF IsI8(disp) THEN <<ModRM(1, reg, base)>> \o Sib(base) \o Le(disp, 1)
    ELSE <<ModRM(2, reg, base)>> \o Sib(base) \o Le(disp, 4)

Size16(sz) == IF sz = 2 THEN <<\h66>> ELSE << >>

(* The three ways the functions choose a REX prefix.  None is emitted for  *)
(* 16 bits, and the last two leave out more. *)
RexBySize(sz, r, b) ==
    CASE sz = 8 -> EmitRex(TRUE, r, b)
      [] sz = 4 -> EmitRex(FALSE, r, b)
      [] sz = 1 -> Forced(FALSE, r, b)
      [] OTHER  -> << >>
RexNotBytes(sz, r, b) == IF sz \in {4, 8} THEN EmitRex(sz = 8, r, b) ELSE << >>
RexWideOnly(sz, r, b) == IF sz = 8 THEN EmitRex(TRUE, r, b) ELSE << >>

(* The opcode of an operation on bytes is one below the one on words. *)
Opc(sz, word) == <<IF sz = 1 THEN word - 1 ELSE word>>

(* A value or an immediate of fewer bytes, sign-extended to n bytes. *)
Extend(bytes, n) ==
    [k \in 1 .. n |-> IF k <= Len(bytes) THEN bytes[k]
                      ELSE IF bytes[Len(bytes)] >= 128 THEN 255 ELSE 0]
Field(sz) == IF sz = 8 THEN 4 ELSE sz
Imm(v, sz) == V(Extend(Le(v, Field(sz)), sz))

Init == asked = << >> /\ by = "" /\ text = << >>

Ask(who, ins, bytes) == asked' = ins /\ by' = who /\ text' = bytes

-----------------------------------------------------------------------------
(* MOV and its relatives *)

MovRR(d, s, sz) ==
    Ask("mov_rr", I("mov", sz, <<R(d), R(s)>>),
        Size16(sz) \o RexBySize(sz, High(s), High(d)) \o Opc(sz, \h89) \o <<ModRM(3, s, d)>>)

Zeros == <<0, 0, 0, 0>>
SignOf(imm) == IF imm[4] >= 128 THEN <<\hFF, 255, 255, 255>> ELSE Zeros
Low(imm, n) == SubSeq(imm, 1, n)

(* At 64 bits, the shortest of three encodings.  Writing the low half of a *)
(* register clears the other: the meaning is a load of all eight bytes.    *)
MovRI(d, imm, sz) ==
    LET wide == SubSeq(imm, 5, 8)
    IN  CASE sz = 8 -> Ask("mov_ri", I("mov", 8, <<R(d), V(imm)>>),
                IF wide = Zeros THEN EmitRex(FALSE, FALSE, High(d)) \o Plus(\hB8, d) \o Low(imm, 4)
                ELSE IF wide = SignOf(imm)
                     THEN EmitRex(TRUE, FALSE, High(d)) \o <<\hC7>> \o <<ModRM(3, 0, d)>> \o Low(imm, 4)
                ELSE EmitRex(TRUE, FALSE, High(d)) \o Plus(\hB8, d) \o imm)
          [] sz = 4 -> Ask("mov_ri", I("mov", 8, <<R(d), V(Low(imm, 4) \o Zeros)>>),
                EmitRex(FALSE, FALSE, High(d)) \o Plus(\hB8, d) \o Low(imm, 4))
          [] sz = 2 -> Ask("mov_ri", I("mov", 2, <<R(d), V(Low(imm, 2))>>),
                Size16(2) \o Plus(\hB8, d) \o Low(imm, 2))
          [] OTHER  -> Ask("mov_ri", I("mov", 1, <<R(d), V(Low(imm, 1))>>),
                Forced(FALSE, FALSE, High(d)) \o Plus(\hB0, d) \o Low(imm, 1))

MovRM(d, base, disp, sz) ==
    Ask("mov_rm", I("mov", sz, <<R(d), M(base, disp)>>),
        Size16(sz) \o RexBySize(sz, High(d), High(base)) \o Opc(sz, \h8B) \o EmitMem(d, base, disp))

MovMR(base, disp, s, sz) ==
    Ask("mov_mr", I("mov", sz, <<M(base, disp), R(s)>>),
        Size16(sz) \o RexBySize(sz, High(s), High(base)) \o Opc(sz, \h89) \o EmitMem(s, base, disp))

MovMI(base, disp, imm, sz) ==
    Ask("mov_mi", I("mov", sz, <<M(base, disp), Imm(imm, sz)>>),
        Size16(sz) \o EmitRex(sz = 8, FALSE, High(base)) \o Opc(sz, \hC7)
            \o EmitMem(0, base, disp) \o Le(imm, Field(sz)))

Lea(d, base, disp) ==
    Ask("lea", I("lea", 8, <<R(d), M(base, disp)>>),
        EmitRex(TRUE, High(d), High(base)) \o <<\h8D>> \o EmitMem(d, base, disp))

(* x64_movsx and x64_movsx_mem, x64_movzx and x64_movzx_mem: `rm` is the   *)
(* source, a register or a memory operand, and `bytes` its encoding.       *)
MovSX(d, rm, bytes, from, to) ==
    Ask("movsx", I("movsx", to, <<R(d), rm, V(<<from>>)>>),
        EmitRex(to = 8, High(d), High(rm.n))
            \o (CASE from = 1 -> <<\h0F, \hBE>> [] from = 2 -> <<\h0F, \hBF>> [] OTHER -> <<\h63>>)
            \o bytes)

MovZX(d, rm, bytes, from, to) ==
    Ask("movzx", I("movzx", to, <<R(d), rm, V(<<from>>)>>),
        EmitRex(to = 8, High(d), High(rm.n)) \o <<\h0F, IF from = 1 THEN \hB6 ELSE \hB7>> \o bytes)

-----------------------------------------------------------------------------
(* The stack, arithmetic and logic *)

Push(r) == Ask("push", I("push", 8, <<R(r)>>), EmitRex(FALSE, FALSE, High(r)) \o Plus(\h50, r))
Pop(r) == Ask("pop", I("pop", 8, <<R(r)>>), EmitRex(FALSE, FALSE, High(r)) \o Plus(\h58, r))
PushImm(v) ==
    Ask("push_imm", I("push", 8, <<Imm(v, 8)>>),
        IF IsI8(v) THEN <<\h6A>> \o Le(v, 1) ELSE <<\h68>> \o Le(v, 4))

(* alu_rr, for add, sub, and, or, xor, cmp and test *)
AluRR(op, d, s, sz) ==
    Ask("alu_rr", I(op, sz, <<R(d), R(s)>>),
        Size16(sz) \o RexBySize(sz, High(s), High(d)) \o Opc(sz, AluOpcode[op] + 1)
            \o <<ModRM(3, s, d)>>)

(* alu_ri: x64_test_ri asks it for /0, as x64_add_ri does. *)
AluRI(op, d, v, sz) ==
    Ask("alu_ri", I(op, sz, <<R(d), Imm(v, sz)>>),
        Size16(sz) \o RexNotBytes(sz, FALSE, High(d))
            \o (IF sz = 1 THEN <<\h80>> ELSE IF IsI8(v) THEN <<\h83>> ELSE <<\h81>>)
            \o <<ModRM(3, AluExt[op], d)>>
            \o Le(v, IF IsI8(v) THEN 1 ELSE Field(sz)))

AddRM(d, base, disp, sz) ==
    Ask("add_rm", I("add", sz, <<R(d), M(base, disp)>>),
        Size16(sz) \o RexNotBytes(sz, High(d), High(base)) \o Opc(sz, \h03) \o EmitMem(d, base, disp))

ImulRR(d, s, sz) ==
    Ask("imul_rr", I("imul", sz, <<R(d), R(s)>>),
        Size16(sz) \o EmitRex(sz = 8, High(d), High(s)) \o <<\h0F, \hAF>> \o <<ModRM(3, d, s)>>)

ImulRRI(d, s, v, sz) ==
    Ask("imul_rri", I("imul", sz, <<R(d), R(s), Imm(v, sz)>>),
        Size16(sz) \o RexWideOnly(sz, High(d), High(s))
            \o <<IF IsI8(v) THEN \h6B ELSE \h69>> \o <<ModRM(3, d, s)>>
            \o Le(v, IF IsI8(v) THEN 1 ELSE 4))

Idiv(r, sz) ==
    Ask("idiv", I("idiv", sz, <<R(r)>>),
        EmitRex(sz = 8, FALSE, High(r)) \o Opc(sz, \hF7) \o <<ModRM(3, 7, r)>>)

(* div, neg, inc, dec and not *)
Unary(op, r, sz) ==
    Ask("unary", I(op, sz, <<R(r)>>),
        RexWideOnly(sz, FALSE, High(r)) \o Opc(sz, UnaryExt[op][1])
            \o <<ModRM(3, UnaryExt[op][2], r)>>)

ShiftRI(op, r, amt, sz) ==
    Ask("shift_ri", I(op, sz, <<R(r), V(<<amt>>)>>),
        RexNotBytes(sz, FALSE, High(r)) \o Opc(sz, IF amt = 1 THEN \hD1 ELSE \hC1)
            \o <<ModRM(3, ShiftExt[op], r)>> \o (IF amt = 1 THEN << >> ELSE <<amt % 64>>))

ShiftCL(op, r, sz) ==
    Ask("shift_cl", I(op, sz, <<R(r)>>),
        RexWideOnly(sz, FALSE, High(r)) \o Opc(sz, \hD3) \o <<ModRM(3, ShiftExt[op], r)>>)

-----------------------------------------------------------------------------
(* Control: the displacements of jumps are zero until the fixups are       *)
(* resolved (Asm).  Conversions and SSE scalars: `sz` is 8 for a double.   *)

SetCC(cc, r) ==
    Ask("setcc", I("set", 1, <<C(cc), R(r)>>),
        Forced(FALSE, FALSE, High(r)) \o <<\h0F, \h90 + Cond[cc]>> \o <<ModRM(3, 0, r)>>)

Jcc(cc) == Ask("jcc", I("jcc", 8, <<C(cc), V(Zeros)>>), <<\h0F, \h80 + Cond[cc]>> \o Zeros)
JmpLabel == Ask("jmp", I("jmp", 8, <<V(Zeros)>>), <<\hE9>> \o Zeros)
CallLabel == Ask("call_label", I("call", 8, <<V(Zeros)>>), <<\hE8>> \o Zeros)
CallReg(r) ==
    Ask("call_reg", I("call", 8, <<R(r)>>), EmitRex(FALSE, FALSE, High(r)) \o <<\hFF>> \o <<ModRM(3, 2, r)>>)

(* ret, nop, cdq and cqo *)
Plain ==
    \/ Ask("ret", I("ret", 8, << >>), <<\hC3>>)
    \/ Ask("nop", I("nop", 4, << >>), <<\h90>>)
    \/ Ask("cdq", I("cdq", 4, << >>), <<\h99>>)
    \/ Ask("cqo", I("cdq", 8, << >>), Forced(TRUE, FALSE, FALSE) \o <<\h99>>)

Prefix(sz) == <<IF sz = 8 THEN \hF2 ELSE \hF3>>

(* sse2_rr and sse2_mem: `rm` and `bytes` as for MovSX *)
SseLoad(op, d, rm, bytes, sz) ==
    Ask("sse2", I(op, sz, <<F(d), rm>>),
        Prefix(sz) \o EmitRex(FALSE, High(d), High(rm.n)) \o <<\h0F, Scalar[op]>> \o bytes)
SseStore(base, disp, s, sz) ==
    Ask("sse2_mem", I("fmov", sz, <<M(base, disp), F(s)>>),
        Prefix(sz) \o EmitRex(FALSE, High(s), High(base)) \o <<\h0F, \h11>> \o EmitMem(s, base, disp))
Ucomis(l, r, sz) ==
    Ask("ucomis", I("fcmp", sz, <<F(l), F(r)>>),
        Size16(IF sz = 8 THEN 2 ELSE 4) \o EmitRex(FALSE, High(l), High(r))
            \o <<\h0F, \h2E>> \o <<ModRM(3, l, r)>>)

(* `sz` is the size converted from, of cvtsd2ss and cvtss2sd *)
CvtScalar(d, s, sz) ==
    Ask("cvt_scalar", I("f2f", sz, <<F(d), F(s)>>),
        Prefix(sz) \o EmitRex(FALSE, High(d), High(s)) \o <<\h0F, \h5A>> \o <<ModRM(3, d, s)>>)
CvtFromInt(d, s, sz, int) ==
    Ask("cvtsi2", I("i2f", sz, <<F(d), R(s), V(<<int>>)>>),
        Prefix(sz) \o EmitRex(int = 8, High(d), High(s)) \o <<\h0F, \h2A>> \o <<ModRM(3, d, s)>>)
CvtToInt(d, s, sz, int) ==
    Ask("cvtts2si", I("f2i", sz, <<R(d), F(s), V(<<int>>)>>),
        Prefix(sz) \o EmitRex(int = 8, High(d), High(s)) \o <<\h0F, \h2C>> \o <<ModRM(3, d, s)>>)

-----------------------------------------------------------------------------
(* Any call of one function. *)

Moves ==
    \E d, s \in Regs, sz \in Sizes, disp \in Disps :
        \/ MovRR(d, s, sz) \/ MovRM(d, s, disp, sz) \/ MovMR(d, disp, s, sz)
        \/ MovMI(d, disp, 1000, sz) \/ MovMI(d, 0, disp, sz) \/ Lea(d, s, disp)
        \/ \E imm \in Wides : MovRI(d, imm, sz)

Extensions ==
    \E d, s \in Regs, from \in {1, 2, 4}, to \in Sizes, disp \in Disps :
        /\ from < to
        /\ \/ MovSX(d, R(s), <<ModRM(3, d, s)>>, from, to)
           \/ MovSX(d, M(s, disp), EmitMem(d, s, disp), from, to)
           \/ MovZX(d, R(s), <<ModRM(3, d, s)>>, from, to)
           \/ MovZX(d, M(s, disp), EmitMem(d, s, disp), from, to)

Stack == \E r \in Regs, v \in Disps : Push(r) \/ Pop(r) \/ PushImm(v)

Arithmetic ==
    \E d, s \in Regs, sz \in Sizes, v \in Disps :
        \/ \E op \in DOMAIN AluOpcode : AluRR(op, d, s, sz) \/ AluRI(op, d, v, sz)
        \/ AddRM(d, s, v, sz) \/ ImulRR(d, s, sz) \/ ImulRRI(d, s, v, sz) \/ Idiv(d, sz)
        \/ \E op \in DOMAIN UnaryExt : Unary(op, d, sz)
        \/ \E op \in DOMAIN ShiftExt, amt \in {1, 7, 63} : ShiftRI(op, d, amt, sz) \/ ShiftCL(op, d, sz)

Control ==
    \/ \E r \in Regs, cc \in DOMAIN Cond : SetCC(cc, r) \/ Jcc(cc) \/ CallReg(r)
    \/ JmpLabel \/ CallLabel \/ Plain

Floating ==
    \E d, s \in Regs, sz, int \in {4, 8}, disp \in Disps :
        \/ \E op \in DOMAIN Scalar : SseLoad(op, d, F(s), <<ModRM(3, d, s)>>, sz)
        \/ SseLoad("fmov", d, M(s, disp), EmitMem(d, s, disp), sz) \/ SseStore(d, disp, s, sz)
        \/ Ucomis(d, s, sz) \/ CvtScalar(d, s, sz)
        \/ CvtFromInt(d, s, sz, int) \/ CvtToInt(d, s, sz, int)

Next == asked = << >> /\ (Moves \/ Extensions \/ Stack \/ Arithmetic \/ Control \/ Floating)

Spec == Init /\ [][Next]_vars

-----------------------------------------------------------------------------
(* The decoder: the instruction set's rules, not this program's.           *)

ByteAt(i) == IF i <= Len(text) THEN text[i] ELSE 0

(* A field of n bytes at i, sign-extended to sz bytes. *)
FieldAt(i, n, sz) == V(Extend([k \in 1 .. n |-> ByteAt(i + k - 1)], sz))
SignedAt(i, n) ==    \* n is 1 or 4
    LET high == ByteAt(i + n - 1)
        low  == IF n = 1 THEN 0 ELSE ByteAt(i) + 256 * ByteAt(i + 1) + 65536 * ByteAt(i + 2)
    IN  low + (IF high >= 128 THEN high - 256 ELSE high) * 256 ^ (n - 1)

(* Prefixes: one of 0x66, 0xF2, 0xF3, then one REX. *)
Legacy == IF ByteAt(1) \in {\h66, \hF2, \hF3} THEN ByteAt(1) ELSE 0
RexAt == IF Legacy = 0 THEN 1 ELSE 2
HasRex == ByteAt(RexAt) \in \h40 .. \h4F
RexBit(b) == HasRex /\ (ByteAt(RexAt) \div b) % 2 = 1
OpAt == IF HasRex THEN RexAt + 1 ELSE RexAt
TwoByte == ByteAt(OpAt) = \h0F
OpByte == ByteAt(IF TwoByte THEN OpAt + 1 ELSE OpAt)
After == IF TwoByte THEN OpAt + 2 ELSE OpAt + 1    \* the ModRM byte, or an immediate
Wide == IF RexBit(8) THEN 8 ELSE IF Legacy = \h66 THEN 2 ELSE 4

Reg == (ByteAt(After) \div 8) % 8
Num(low, bit) == low + 8 * Bit(RexBit(bit))

(* Without a REX prefix, byte registers 4 to 7 are AH, CH, DH and BH: 16   *)
(* to 19 here, which no function of the encoder ever asks for.             *)
IntReg(n, sz) == R(IF sz = 1 /\ ~HasRex /\ n \in 4 .. 7 THEN n + 12 ELSE n)

Mod == ByteAt(After) \div 64
HasSib == Mod # 3 /\ ByteAt(After) % 8 = 4
DispAt == After + 1 + Bit(HasSib)
BaseLow == IF HasSib THEN ByteAt(After + 1) % 8 ELSE ByteAt(After) % 8
DispLen == CASE Mod = 1 -> 1 [] Mod = 2 \/ (Mod = 0 /\ BaseLow = 5) -> 4 [] OTHER -> 0

(* mod 0 with rm 5 is relative to the instruction pointer, and with a SIB  *)
(* base of 5 it has no base: 20 and 21 here.                               *)
Base == IF Mod = 0 /\ BaseLow = 5 THEN IF HasSib THEN 21 ELSE 20 ELSE Num(BaseLow, 1)
RmOf(direct(_)) ==
    IF Mod = 3 THEN direct(Num(ByteAt(After) % 8, 1))
    ELSE M(Base, IF DispLen = 0 THEN 0 ELSE SignedAt(DispAt, DispLen))
Rm(sz) == RmOf(LAMBDA n : IntReg(n, sz))
RmX == RmOf(F)
RegOf(sz) == IntReg(Num(Reg, 4), sz)
RegX == F(Num(Reg, 4))
PlusReg(sz) == IntReg(Num(OpByte % 8, 1), sz)
End == IF Mod = 3 THEN After + 1 ELSE DispAt + DispLen     \* after the operand

Is(op, sz, args, next) == [ins |-> I(op, sz, args), len |-> next - 1]

AluNames == <<"add", "or", "adc", "sbb", "and", "sub", "xor", "cmp">>
GroupThree == <<"test", "test", "not", "neg", "mul", "imul1", "div", "idiv">>
ShiftNames == <<"rol", "ror", "rcl", "rcr", "shl", "shr", "sal", "sar">>
CondNames == <<"o", "no", "b", "ae", "e", "ne", "be", "a", "s", "ns", "p", "np", "l", "ge", "le", "g">>

DecodeOneByte ==
    LET op == OpByte
        sz == IF op % 2 = 0 THEN 1 ELSE Wide
        n  == Field(sz)
    IN  CASE op < \h40 /\ op % 8 < 2 -> Is(AluNames[op \div 8 + 1], sz, <<Rm(sz), RegOf(sz)>>, End)
          [] op < \h40 /\ op % 8 \in {2, 3} -> Is(AluNames[op \div 8 + 1], sz, <<RegOf(sz), Rm(sz)>>, End)
          [] op \in \h50 .. \h57 -> Is("push", 8, <<PlusReg(8)>>, After)
          [] op \in \h58 .. \h5F -> Is("pop", 8, <<PlusReg(8)>>, After)
          [] op = \h63 -> Is("movsx", Wide, <<RegOf(Wide), Rm(4), V(<<4>>)>>, End)
          [] op = \h68 -> Is("push", 8, <<FieldAt(After, 4, 8)>>, After + 4)
          [] op = \h6A -> Is("push", 8, <<FieldAt(After, 1, 8)>>, After + 1)
          [] op = \h69 -> Is("imul", Wide, <<RegOf(Wide), Rm(Wide), FieldAt(End, Field(Wide), Wide)>>, End + Field(Wide))
          [] op = \h6B -> Is("imul", Wide, <<RegOf(Wide), Rm(Wide), FieldAt(End, 1, Wide)>>, End + 1)
          [] op \in {\h80, \h81} -> Is(AluNames[Reg + 1], sz, <<Rm(sz), FieldAt(End, n, sz)>>, End + n)
          [] op = \h83 -> Is(AluNames[Reg + 1], sz, <<Rm(sz), FieldAt(End, 1, sz)>>, End + 1)
          [] op \in {\h84, \h85} -> Is("test", sz, <<Rm(sz), RegOf(sz)>>, End)
          [] op \in {\h88, \h89} -> Is("mov", sz, <<Rm(sz), RegOf(sz)>>, End)
          [] op \in {\h8A, \h8B} -> Is("mov", sz, <<RegOf(sz), Rm(sz)>>, End)
          [] op = \h8D -> Is("lea", Wide, <<RegOf(Wide), Rm(Wide)>>, End)
          [] op = \h90 -> Is("nop", 4, << >>, After)
          [] op = \h99 -> Is("cdq", Wide, << >>, After)
          [] op \in \hB0 .. \hB7 -> Is("mov", 1, <<PlusReg(1), FieldAt(After, 1, 1)>>, After + 1)
          [] op \in \hB8 .. \hBF ->
                 IF Wide = 4     \* writing a 32-bit register clears the other half
                 THEN Is("mov", 8, <<PlusReg(8), V(FieldAt(After, 4, 4).v \o Zeros)>>, After + 4)
                 ELSE Is("mov", Wide, <<PlusReg(Wide), FieldAt(After, Wide, Wide)>>, After + Wide)
          [] op = \hC3 -> Is("ret", 8, << >>, After)
          [] op \in {\hC0, \hC1} -> Is(ShiftNames[Reg + 1], sz, <<Rm(sz), FieldAt(End, 1, 1)>>, End + 1)
          [] op \in {\hC6, \hC7} -> Is("mov", sz, <<Rm(sz), FieldAt(End, n, sz)>>, End + n)
          [] op \in {\hD0, \hD1} -> Is(ShiftNames[Reg + 1], sz, <<Rm(sz), V(<<1>>)>>, End)
          [] op \in {\hD2, \hD3} -> Is(ShiftNames[Reg + 1], sz, <<Rm(sz)>>, End)
          [] op = \hE8 -> Is("call", 8, <<FieldAt(After, 4, 4)>>, After + 4)
          [] op = \hE9 -> Is("jmp", 8, <<FieldAt(After, 4, 4)>>, After + 4)
          [] op \in {\hF6, \hF7} -> Is(GroupThree[Reg + 1], sz, <<Rm(sz)>>, End)
          [] op \in {\hFE, \hFF} /\ Reg < 2 -> Is(<<"inc", "dec">>[Reg + 1], sz, <<Rm(sz)>>, End)
          [] op = \hFF /\ Reg = 2 -> Is("call", 8, <<Rm(8)>>, End)
          [] OTHER -> Is("undefined", 8, << >>, After)

(* Operations on scalars: the prefix gives their size. *)
DecodeScalar ==
    LET op == OpByte
        sz == IF Legacy = \hF2 THEN 8 ELSE 4
        int == IF RexBit(8) THEN 8 ELSE 4
    IN  CASE op = \h10 -> Is("fmov", sz, <<RegX, RmX>>, End)
          [] op = \h11 -> Is("fmov", sz, <<RmX, RegX>>, End)
          [] op = \h2A -> Is("i2f", sz, <<RegX, Rm(int), V(<<int>>)>>, End)
          [] op = \h2C -> Is("f2i", sz, <<RegOf(int), RmX, V(<<int>>)>>, End)
          [] op = \h58 -> Is("fadd", sz, <<RegX, RmX>>, End)
          [] op = \h59 -> Is("fmul", sz, <<RegX, RmX>>, End)
          [] op = \h5A -> Is("f2f", sz, <<RegX, RmX>>, End)
          [] op = \h5C -> Is("fsub", sz, <<RegX, RmX>>, End)
          [] op = \h5E -> Is("fdiv", sz, <<RegX, RmX>>, End)
          [] OTHER -> Is("undefined", 8, << >>, After)

DecodeTwoByte ==
    LET op == OpByte
        from == IF op % 2 = 0 THEN 1 ELSE 2
    IN  CASE op \in \h80 .. \h8F -> Is("jcc", 8, <<C(CondNames[op - \h7F]), FieldAt(After, 4, 4)>>, After + 4)
          [] op \in \h90 .. \h9F -> Is("set", 1, <<C(CondNames[op - \h8F]), Rm(1)>>, End)
          [] op = \hAF -> Is("imul", Wide, <<RegOf(Wide), Rm(Wide)>>, End)
          [] op \in {\hB6, \hB7} -> Is("movzx", Wide, <<RegOf(Wide), Rm(from), V(<<from>>)>>, End)
          [] op \in {\hBE, \hBF} -> Is("movsx", Wide, <<RegOf(Wide), Rm(from), V(<<from>>)>>, End)
          [] op = \h2E -> Is("fcmp", IF Legacy = \h66 THEN 8 ELSE 4, <<RegX, RmX>>, End)
          [] OTHER -> IF Legacy \in {\hF2, \hF3} THEN DecodeScalar
                      ELSE Is("undefined", 8, << >>, After)

Decoded == IF TwoByte THEN DecodeTwoByte ELSE DecodeOneByte

-----------------------------------------------------------------------------
(* Where the encoder does not write what it was asked for. *)

HighOperand == \E k \in DOMAIN asked.args : asked.args[k].k \in {"reg", "mem", "xmm"} /\ asked.args[k].n >= 8
ByteRegister == \E k \in DOMAIN asked.args : asked.args[k].k = "reg" /\ asked.args[k].n \in 4 .. 7

Gap ==
    LET sz == asked.sz
        from == asked.args[3].v[1]
        source == asked.args[2]
    IN  \/ by = "alu_ri" /\ asked.op = "test"                \* writes an ADD
        \/ /\ sz = 2 /\ HighOperand                          \* no REX prefix
           /\ by \in {"mov_rr", "mov_ri", "mov_rm", "mov_mr", "alu_rr", "alu_ri", "add_rm", "imul_rri"}
        \/ /\ sz = 1 /\ (HighOperand \/ ByteRegister)        \* no REX prefix
           /\ by \in {"alu_ri", "add_rm", "unary", "shift_ri", "shift_cl"}
        \/ sz = 4 /\ HighOperand /\ by \in {"imul_rri", "unary", "shift_cl"}
        \/ sz = 2 /\ by \in {"unary", "shift_ri", "shift_cl", "idiv", "movsx", "movzx"}   \* no 0x66
        \/ by = "idiv" /\ sz = 1 /\ ByteRegister /\ ~HighOperand
        \/ by \in {"imul_rr", "imul_rri"} /\ sz = 1          \* there is none
        \/ by = "imul_rri" /\ sz = 2 /\ text[1] = \h66 /\ text[2] = \h69   \* four bytes of immediate
        \/ by = "movzx" /\ from = 4                          \* reads two bytes
        \/ /\ by \in {"movsx", "movzx"} /\ from = 1 /\ sz # 8         \* reads AH to BH
           /\ source.k = "reg" /\ source.n \in 4 .. 7 /\ asked.args[1].n < 8

-----------------------------------------------------------------------------

(* What a function of the encoder writes is one instruction, and the       *)
(* processor reads exactly the operation, size, registers, address and     *)
(* immediates that were asked for, except where Gap says otherwise; and    *)
(* there it reads something else.                                          *)
EncodingsDecode ==
    asked # << >> => (Decoded = [ins |-> asked, len |-> Len(text)] <=> ~Gap)

=============================================================================
