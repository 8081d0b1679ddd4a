-------------------------------- MODULE Asm --------------------------------
(***************************************************************************)
(* The assembler of src/backend/x64.c: the growing CodeBuf, the label and  *)
(* fixup tables, and the patching of what was emitted before its value was *)
(* known, driven by the two compilers of functions, jit_compile_func and   *)
(* aot_compile_func.                                                       *)
(*                                                                         *)
(* Instructions are reduced to their length.  A byte of a 32-bit field is  *)
(* the pair of its index and of the field's value.  The JIT compiles each  *)
(* function into a buffer and tables of its own, the AOT compiler all of   *)
(* them into one buffer with one pair of tables: FreshTables.              *)
(***************************************************************************)
EXTENDS Integers, Sequences

CONSTANTS
    FreshTables,  \* TRUE for the JIT, FALSE for the AOT compiler
    Align,        \* function alignment: 1 for the JIT, 16 for AOT
    InitCap,      \* initial capacity of the buffer
    Slack,        \* what codebuf_ensure adds beyond the need: 64
    LabelCap,     \* capacity of the label table: 64
    MaxLabels,    \* bound: labels of a function
    MaxItems,     \* bound: instructions and labels of a function
    MaxFuncs,     \* bound: functions
    FrameSizes    \* bound: frame sizes

ASSUME AsmAssumption ==
    /\ FreshTables \in BOOLEAN
    /\ {InitCap, Slack, LabelCap, MaxLabels, MaxItems, MaxFuncs} \subseteq Nat
    /\ Align \in Nat \ {0}
    /\ FrameSizes \subseteq Nat

VARIABLES
    phase,   \* "idle" between functions, "body" inside one, or "panic"
    func,    \* the number of the function
    items,   \* instructions and labels emitted for it
    nlabels, \* its IRFunc.next_label
    sub_at,  \* where the operand of its `sub rsp` is
    cb,      \* CodeBuf: buf[0 .. cap - 1] and len
    ft,      \* FixupTable: table[0 .. count - 1]
    lt,      \* LabelTable: offsets[0 .. count - 1]
    jumps,   \* the jumps in the buffer: operand, function and label
    places,  \* the labels in the buffer: function, label and offset
    frames   \* the frame operands in the buffer that are settled

tables == <<cb, ft, lt>>
ghosts == <<jumps, places, frames>>
vars == <<phase, func, items, nlabels, sub_at, tables, ghosts>>

-----------------------------------------------------------------------------
(* CodeBuf *)

Greater(a, b) == IF a < b THEN b ELSE a

(* Mutant of Ensure: the new buffer replaces the old one uncopied. *)
EnsureUncopied(c, extra) ==
    IF c.len + extra <= c.cap THEN c
    ELSE LET cap == Greater(2 * c.cap, c.len + extra + Slack)
         IN  [buf |-> [i \in 0 .. cap - 1 |-> "junk"], len |-> c.len, cap |-> cap]

(* codebuf_ensure *)
Ensure(c, extra) ==
    IF c.len + extra <= c.cap THEN c
    ELSE LET cap == Greater(2 * c.cap, c.len + extra + Slack)
         IN  [buf |-> [i \in 0 .. cap - 1 |-> IF i < c.len THEN c.buf[i] ELSE "junk"],
              len |-> c.len, cap |-> cap]

(* The codebuf_emit_ functions: one check of the room, then the bytes. *)
Emit(c, bytes) ==
    LET n == Len(bytes)
        e == Ensure(c, n)
    IN  [e EXCEPT !.buf = [i \in DOMAIN e.buf |->
                              IF i \in e.len .. e.len + n - 1 THEN bytes[i - e.len + 1] ELSE e.buf[i]],
                  !.len = @ + n]

EmitByte(c) == Emit(c, <<"op">>)

(* n bytes, each with a check of its own: run[i] is the buffer after i. *)
EmitBytes(c, n) ==
    LET run[i \in 0 .. n] == IF i = 0 THEN c ELSE EmitByte(run[i - 1])
    IN  run[n]

Field(v) == [k \in 1 .. 4 |-> <<k, v>>]
EmitI32(c, v) == Emit(c, Field(v))

(* codebuf_patch_i32 *)
Patch(c, off, v) ==
    [c EXCEPT !.buf = [i \in DOMAIN c.buf |->
                          IF i \in off .. off + 3 THEN Field(v)[i - off + 1] ELSE c.buf[i]]]

(* The 32-bit field at off holds v. *)
Holds(off, v) == \A k \in 1 .. 4 : cb.buf[off + k - 1] = Field(v)[k]

NewBuf == [buf |-> [i \in 0 .. InitCap - 1 |-> "junk"], len |-> 0, cap |-> InitCap]

(* x64_align: no-ops up to a multiple of Align. *)
Aligned(c) ==
    EmitBytes(c, (Align - (c.len % Align)) % Align)

-----------------------------------------------------------------------------
(* Fixups and labels *)

Undefined == -1     \* (usize)-1

TooMany(l) == l >= LabelCap

(* label_define, for a label the table has room for *)
Defined(l, off) ==
    [i \in 1 .. Greater(Len(lt), l + 1) |->
        IF i = l + 1 THEN off ELSE IF i <= Len(lt) THEN lt[i] ELSE Undefined]

(* Mutant of Displacement: counted from the operand, not from its end. *)
DisplacementShort(f) == lt[f.label + 1] - f.at

(* rel32: from the end of the operand to the label *)
Displacement(f) == lt[f.label + 1] - (f.at + 4)

(* The assertion of fixup_resolve_all. *)
Resolvable == \A i \in DOMAIN ft : ft[i].label < Len(lt)

(* fixup_resolve_all: every entry of the table, in order. *)
Resolved(c) ==
    LET run[i \in 0 .. Len(ft)] ==
            IF i = 0 THEN c ELSE Patch(run[i - 1], ft[i].at, Displacement(ft[i]))
    IN  run[Len(ft)]

-----------------------------------------------------------------------------
(* The compilation of a function *)

Init ==
    /\ phase = "idle" /\ func = 0 /\ items = 0 /\ nlabels = 0 /\ sub_at = 0
    /\ cb = NewBuf /\ ft = << >> /\ lt = << >>
    /\ jumps = {} /\ places = {} /\ frames = {}

(* The prologue: push rbp; mov rbp, rsp; sub rsp with an operand to come.  *)
Prologue(c) ==
    LET opcode == EmitBytes(Aligned(c), 7)
    IN  /\ cb' = EmitI32(opcode, 0)
        /\ sub_at' = opcode.len

BeginFunc(n) ==
    /\ phase = "idle" /\ func < MaxFuncs
    /\ phase' = "body" /\ func' = func + 1 /\ items' = 0 /\ nlabels' = n
    /\ IF FreshTables
       THEN /\ Prologue(NewBuf)
            /\ ft' = << >> /\ lt' = << >>
            /\ jumps' = {} /\ places' = {} /\ frames' = {}
       ELSE /\ Prologue(cb)
            /\ UNCHANGED <<ft, lt, ghosts>>

Item ==
    /\ phase = "body" /\ items < MaxItems
    /\ items' = items + 1
    /\ UNCHANGED <<func, nlabels, sub_at, frames>>

(* An instruction of k bytes that jumps nowhere. *)
Plain(k) ==
    /\ Item
    /\ cb' = EmitBytes(cb, k)
    /\ UNCHANGED <<phase, ft, lt, jumps, places>>

(* Mutant of Jump: the fixup is entered after the operand is emitted. *)
JumpFixupLate(l, k) ==
    /\ Item
    /\ LET opcode == EmitBytes(cb, k)
       IN  /\ cb' = EmitI32(opcode, 0)
           /\ ft' = Append(ft, [at |-> opcode.len + 4, label |-> l])
           /\ jumps' = jumps \cup {[at |-> opcode.len, func |-> func, label |-> l]}
    /\ UNCHANGED <<phase, lt, places>>

(* x64_jmp (an opcode of one byte) and jcc_rel32 (of two): the fixup is    *)
(* entered between the opcode and the operand.                             *)
Jump(l, k) ==
    /\ Item
    /\ LET opcode == EmitBytes(cb, k)
       IN  /\ cb' = EmitI32(opcode, 0)
           /\ ft' = Append(ft, [at |-> opcode.len, label |-> l])
           /\ jumps' = jumps \cup {[at |-> opcode.len, func |-> func, label |-> l]}
    /\ UNCHANGED <<phase, lt, places>>

PlacedHere == {p.label : p \in {q \in places : q.func = func}}

(* x64_def_label.  The code generator emits each label of a function once. *)
DefLabel(l) ==
    /\ Item
    /\ l \notin PlacedHere
    /\ IF TooMany(l)
       THEN phase' = "panic" /\ UNCHANGED <<lt, places>>
       ELSE /\ lt' = Defined(l, cb.len)
            /\ places' = places \cup {[func |-> func, label |-> l, at |-> cb.len]}
            /\ UNCHANGED phase
    /\ UNCHANGED <<cb, ft, jumps>>

(* Mutant of EndFunc: the jumps are patched before the frame size, at the  *)
(* address the operand of the last jump has.                               *)
EndFuncFrameAtLen(size) ==
    /\ phase = "body" /\ PlacedHere = 0 .. nlabels - 1
    /\ phase' = "idle"
    /\ cb' = Resolved(Patch(cb, cb.len - 4, size))
    /\ frames' = frames \cup {[at |-> sub_at, size |-> size]}
    /\ UNCHANGED <<func, items, nlabels, sub_at, ft, lt, jumps, places>>

(* The end of the function: the frame size is patched in, then the jumps.  *)
EndFunc(size) ==
    /\ phase = "body" /\ PlacedHere = 0 .. nlabels - 1
    /\ IF Resolvable
       THEN /\ phase' = "idle"
            /\ cb' = Resolved(Patch(cb, sub_at, size))
            /\ frames' = frames \cup {[at |-> sub_at, size |-> size]}
       ELSE phase' = "panic" /\ UNCHANGED <<cb, frames>>
    /\ UNCHANGED <<func, items, nlabels, sub_at, ft, lt, jumps, places>>

Next ==
    \/ \E n \in 0 .. MaxLabels : BeginFunc(n)
    \/ \E k \in 1 .. 3 : Plain(k)
    \/ \E l \in 0 .. nlabels - 1 : DefLabel(l) \/ \E k \in {1, 2} : Jump(l, k)
    \/ \E size \in FrameSizes : EndFunc(size)

Spec == Init /\ [][Next]_vars

-----------------------------------------------------------------------------
(* Properties.                                                             *)

(* The type invariant: the buffer is as long as its capacity says, and the *)
(* tables hold offsets of the buffer.                                      *)
TypeOK ==
    /\ phase \in {"idle", "body", "panic"}
    /\ func \in 0 .. MaxFuncs /\ items \in 0 .. MaxItems /\ nlabels \in 0 .. MaxLabels
    /\ cb.len \in 0 .. cb.cap /\ DOMAIN cb.buf = 0 .. cb.cap - 1
    /\ sub_at \in 0 .. cb.len
    /\ \A i \in DOMAIN ft : ft[i].at + 4 <= cb.len /\ ft[i].label \in 0 .. MaxLabels - 1
    /\ Len(lt) <= LabelCap /\ \A i \in DOMAIN lt : lt[i] \in -1 .. cb.len

(* Once a function is finished, every jump in the buffer leads to the      *)
(* place where its own function defined its label ("Resolve local label    *)
(* fixups", aot.c:385), and stays so when further functions are compiled.  *)
JumpsReachOwnLabels ==
    phase = "idle" =>
        \A j \in jumps : \A p \in places :
            p.func = j.func /\ p.label = j.label => Holds(j.at, p.at - (j.at + 4))

(* Once a function is finished, its `sub rsp` has the frame size computed  *)
(* at the end, although the buffer may have moved since it was emitted.    *)
FramesPatched ==
    phase = "idle" => \A f \in frames : Holds(f.at, f.size)

(* The operands emitted as placeholders. *)
Placeholders == (UNION {j.at .. j.at + 3 : j \in jumps}) \cup (sub_at .. sub_at + 3)

(* Nothing emitted into a buffer is lost or altered, except an operand     *)
(* emitted as a placeholder: not by growing, and not by patching.          *)
EmittedBytesStay ==
    [][ (phase = "idle" /\ FreshTables)
        \/ \A i \in 0 .. cb.len - 1 : i \in Placeholders \/ cb'.buf[i] = cb.buf[i] ]_vars
=============================================================================
