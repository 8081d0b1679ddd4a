-------------------------------- MODULE Aot --------------------------------
(***************************************************************************)
(* The ahead-of-time compiler of functions, aot_compile_module of          *)
(* src/output/obj/aot.c: the text, the symbol, string and relocation       *)
(* tables and the function and extern tables it fills.                     *)
(*                                                                         *)
(* Instructions are reduced to their length; labels and fixups are in Asm. *)
(* A string table holds names at offsets; only the length of a name        *)
(* matters.                                                                *)
(***************************************************************************)
EXTENDS Integers, Sequences, FiniteSets

CONSTANTS
    FuncNames,   \* names of functions of the module
    ExternNames, \* names the module declares `extern`
    NameLen,     \* the length of each name
    StrCap,      \* initial capacity of a string table: 256
    ExternCap,   \* entries of extern_names: 64
    FuncCap,     \* entries of func_names: 256
    MaxSyms,     \* AOT_MAX_SYMS, the null symbol included
    MaxRelocs,   \* AOT_MAX_RELOCS
    Lengths,     \* bound: lengths of an instruction
    ParamCounts, \* bound: numbers of parameters
    MaxItems     \* bound: instructions of a function

Names == FuncNames \cup ExternNames

ASSUME AotAssumption ==
    /\ NameLen \in [Names -> Nat]
    /\ {StrCap, ExternCap, FuncCap, MaxSyms, MaxRelocs, MaxItems} \subseteq Nat
    /\ Lengths \subseteq Nat /\ ParamCounts \subseteq Nat
    /\ StrCap > 0

VARIABLES
    stage,     \* "idle", "body" of a function, "done", "overrun" or "panic";
               \* "written" once the file is (module Writers)
    cur,       \* the function being compiled: its name and start
    items,     \* instructions emitted for it
    text_len,  \* text.len
    syms,      \* symbols 1 ..: name offset, section, value and size
    symstr,    \* symstrtab: the names at their offsets, length, capacity
    relocs,    \* relocations: offset, symbol and addend
    externs,   \* extern_names and extern_sym_idx
    funcs,     \* func_names, func_offsets and func_sizes
    arrived,   \* the parameter each parameter vreg holds after the prologue
    calls      \* ghost: the calls emitted, caller, operand and callee

aotTables == <<syms, symstr, relocs, externs, funcs>>
aotVars == <<stage, cur, items, text_len, aotTables, arrived, calls>>

AlignUp(n, a) == a * ((n + a - 1) \div a)

-----------------------------------------------------------------------------
(* String tables *)

EmptyStr == [at |-> {}, len |-> 1, cap |-> StrCap]

Longer(a, b) == IF a < b THEN b ELSE a

(* Mutant: the table only doubles. *)
StrAddDoubling(t, n) ==
    LET size == NameLen[n] + 1
    IN  [at  |-> t.at \cup {<<t.len, n>>},
         len |-> t.len + size,
         cap |-> IF t.len + size > t.cap THEN 2 * t.cap ELSE t.cap]

(* strtab_add: the string goes to the end, in a larger table if need be. *)
StrAdd(t, n) ==
    LET size == NameLen[n] + 1
    IN  [at  |-> t.at \cup {<<t.len, n>>},
         len |-> t.len + size,
         cap |-> IF t.len + size > t.cap THEN Longer(2 * t.cap, t.len + size + 64) ELSE t.cap]

-----------------------------------------------------------------------------
(* The prologue: every vreg has a home for good, the lowest register left  *)
(* of AOT_INT_ALLOC_ORDER, and parameters are moved there in order.        *)

ArgRegs == <<7, 6, 2, 1, 8, 9>>
InRegisters(p) == IF p < Len(ArgRegs) THEN p ELSE Len(ArgRegs)  \* the others are left
AotRegs == {0, 1, 2, 3, 6, 7, 8, 9, 10, 11, 12, 13}
HomeOf(regs, v) == CHOOSE r \in regs : Cardinality({q \in regs : q < r}) = v - 1

(* The parameter each register holds on entry. *)
Entry(args, n) ==
    [r \in 0 .. 15 |-> IF \E i \in 1 .. n : args[i] = r THEN CHOOSE i \in 1 .. n : args[i] = r ELSE 0]

(* Mutant: the parameters are moved last to first. *)
ParamsAfterMovesBack(regs, args, n) ==
    LET after[k \in 0 .. n] ==
            IF k = 0 THEN Entry(args, n)
            ELSE [after[k - 1] EXCEPT ![HomeOf(regs, n + 1 - k)] = after[k - 1][args[n + 1 - k]]]
    IN  [i \in 1 .. n |-> after[n][HomeOf(regs, i)]]

(* What is in the homes of n parameters after the moves, first to last,    *)
(* each of 3 bytes and left out when the home is the argument register.    *)
ParamsAfterMoves(regs, args, n) ==
    LET after[k \in 0 .. n] ==
            IF k = 0 THEN Entry(args, n)
            ELSE [after[k - 1] EXCEPT ![HomeOf(regs, k)] = after[k - 1][args[k]]]
    IN  [i \in 1 .. n |-> after[n][HomeOf(regs, i)]]

PrologueLen(regs, args, n) ==
    11 + 3 * Cardinality({i \in 1 .. n : HomeOf(regs, i) # args[i]})

-----------------------------------------------------------------------------
(* aot_compile_func *)

(* Mutant: the start is taken before the text is aligned. *)
BeginFuncUnaligned(n, p) ==
    /\ stage = "idle" /\ n \notin {funcs[i].name : i \in DOMAIN funcs}
    /\ cur' = [name |-> n, start |-> text_len]
    /\ text_len' = AlignUp(text_len, 16) + PrologueLen(AotRegs, ArgRegs, InRegisters(p))
    /\ arrived' = ParamsAfterMoves(AotRegs, ArgRegs, InRegisters(p))
    /\ stage' = "body" /\ items' = 0
    /\ UNCHANGED <<aotTables, calls>>

BeginFunc(n, p) ==
    /\ stage = "idle" /\ n \notin {funcs[i].name : i \in DOMAIN funcs}
    /\ cur' = [name |-> n, start |-> AlignUp(text_len, 16)]
    /\ text_len' = AlignUp(text_len, 16) + PrologueLen(AotRegs, ArgRegs, InRegisters(p))
    /\ arrived' = ParamsAfterMoves(AotRegs, ArgRegs, InRegisters(p))
    /\ stage' = "body" /\ items' = 0
    /\ UNCHANGED <<aotTables, calls>>

MoreItems == stage = "body" /\ items < MaxItems /\ items' = items + 1

(* An instruction other than a call. *)
Instruction(n) ==
    /\ MoreItems
    /\ text_len' = text_len + n
    /\ UNCHANGED <<stage, cur, aotTables, arrived, calls>>

(* A name is looked for among the names called so far, not among the       *)
(* functions of the module.                                                *)
KnownExtern(c) == \E i \in DOMAIN externs : externs[i].name = c

(* Mutant: The symbol's number is taken after it has been counted. *)
ExternSymLate(c) ==
    IF KnownExtern(c) THEN externs[CHOOSE i \in DOMAIN externs : externs[i].name = c].sym
                      ELSE Len(syms) + 2

(* The symbol of an extern already called, or the next one. *)
ExternSym(c) ==
    IF KnownExtern(c) THEN externs[CHOOSE i \in DOMAIN externs : externs[i].name = c].sym
                      ELSE Len(syms) + 1

Undefined(c) == [name |-> symstr.len, section |-> 0, value |-> 0, size |-> 0]

(* aot_declare_extern *)
DeclareExtern(c) ==
    IF KnownExtern(c) THEN UNCHANGED <<syms, symstr, externs>>
    ELSE /\ syms' = Append(syms, Undefined(c))
         /\ symstr' = StrAdd(symstr, c)
         /\ externs' = Append(externs, [name |-> c, sym |-> ExternSym(c)])

(* A call of a name sema knows by then: an extern, a function before this  *)
(* one or this one.  The operand is the last four bytes.                   *)
Callable(c) == c \in ExternNames \cup {cur.name} \cup {funcs[i].name : i \in DOMAIN funcs}

Call(c) ==
    /\ MoreItems /\ Callable(c)
    /\ KnownExtern(c) \/ (Len(syms) + 1 < MaxSyms /\ Len(externs) < ExternCap)
    /\ Len(relocs) < MaxRelocs
    /\ DeclareExtern(c)
    /\ text_len' = text_len + 5
    /\ relocs' = Append(relocs, [offset |-> text_len' - 4, sym |-> ExternSym(c), addend |-> -4])
    /\ calls' = Append(calls, [caller |-> cur.name, at |-> text_len + 1, callee |-> c])
    /\ UNCHANGED <<stage, cur, funcs, arrived>>

Stop(how) ==
    /\ stage' = how
    /\ UNCHANGED <<cur, items, text_len, aotTables, arrived, calls>>

(* The assertions of aot_declare_extern and aot_emit_call_reloc. *)
CallPanics(c) ==
    /\ stage = "body" /\ items < MaxItems /\ Callable(c)
    /\ \/ ~KnownExtern(c) /\ Len(syms) + 1 >= MaxSyms
       \/ (KnownExtern(c) \/ Len(externs) < ExternCap) /\ Len(relocs) >= MaxRelocs
    /\ Stop("panic")

(* extern_count is compared with nothing. *)
CallOverruns(c) ==
    /\ stage = "body" /\ items < MaxItems /\ Callable(c)
    /\ ~KnownExtern(c) /\ Len(syms) + 1 < MaxSyms /\ Len(externs) >= ExternCap
    /\ Stop("overrun")

(* Mutant: the end is subtracted from the start. *)
FuncSymbolSwapped == [name |-> symstr.len, section |-> 1, value |-> cur.start, size |-> cur.start - text_len]

FuncSymbol == [name |-> symstr.len, section |-> 1, value |-> cur.start, size |-> text_len - cur.start]

EndFunc ==
    /\ stage = "body"
    /\ Len(syms) + 1 < MaxSyms /\ Len(funcs) < FuncCap
    /\ syms' = Append(syms, FuncSymbol)
    /\ symstr' = StrAdd(symstr, cur.name)
    /\ funcs' = Append(funcs, [name |-> cur.name, offset |-> cur.start, size |-> text_len - cur.start])
    /\ stage' = "idle"
    /\ UNCHANGED <<cur, items, text_len, relocs, externs, arrived, calls>>

EndFuncPanics == stage = "body" /\ Len(syms) + 1 >= MaxSyms /\ Stop("panic")

(* func_count is compared with nothing. *)
EndFuncOverruns ==
    stage = "body" /\ Len(syms) + 1 < MaxSyms /\ Len(funcs) >= FuncCap /\ Stop("overrun")

EndModule == stage = "idle" /\ Stop("done")

AotInit ==
    /\ stage = "idle" /\ cur = [name |-> "none", start |-> 0] /\ items = 0
    /\ text_len = 0 /\ syms = << >> /\ symstr = EmptyStr
    /\ relocs = << >> /\ externs = << >> /\ funcs = << >>
    /\ arrived = << >> /\ calls = << >>

AotNext ==
    \/ \E n \in FuncNames, p \in ParamCounts : BeginFunc(n, p)
    \/ \E n \in Lengths : Instruction(n)
    \/ \E c \in Names : Call(c) \/ CallPanics(c) \/ CallOverruns(c)
    \/ EndFunc \/ EndFuncPanics \/ EndFuncOverruns \/ EndModule

AotSpec == AotInit /\ [][AotNext]_aotVars

-----------------------------------------------------------------------------
AotTypeOK ==
    /\ stage \in {"idle", "body", "done", "overrun", "panic", "written"}
    /\ text_len \in Nat /\ items \in 0 .. MaxItems
    /\ cur \in [name : FuncNames \cup {"none"}, start : Nat]
    /\ stage = "body" => cur.name \in FuncNames
    /\ syms \in Seq([name : Nat, section : {0, 1}, value : Nat, size : Nat])
    /\ symstr.at \subseteq Nat \X Names /\ symstr.len \in Nat /\ symstr.cap \in Nat
    /\ relocs \in Seq([offset : Nat, sym : Nat, addend : {-4}])
    /\ externs \in Seq([name : Names, sym : Nat])
    /\ funcs \in Seq([name : FuncNames, offset : Nat, size : Nat])
    /\ calls \in Seq([caller : FuncNames, at : Nat, callee : Names])

(* Every call has one relocation, at its operand, and the name of the      *)
(* relocation's symbol reads back as the callee's, however many names were *)
(* added since and however often the string table moved.                   *)
RelocationsNameTheirCallee ==
    /\ Len(relocs) = Len(calls)
    /\ \A i \in DOMAIN relocs :
          /\ relocs[i].offset = calls[i].at
          /\ relocs[i].sym \in DOMAIN syms
          /\ <<syms[relocs[i].sym].name, calls[i].callee>> \in symstr.at

(* Each function has a symbol of its name, offset and size and there are   *)
(* no symbols but these and the externs'; the functions lie in the text in *)
(* order, aligned and apart, and the operand of each call lies in its      *)
(* caller.                                                                 *)
SymbolsCoverFunctions ==
    /\ Len(syms) = Len(funcs) + Len(externs)
    /\ \A i \in DOMAIN funcs :
          /\ \E s \in DOMAIN syms :
                /\ syms[s].section = 1
                /\ syms[s].value = funcs[i].offset /\ syms[s].size = funcs[i].size
                /\ <<syms[s].name, funcs[i].name>> \in symstr.at
          /\ funcs[i].offset % 16 = 0
          /\ funcs[i].offset + funcs[i].size <= text_len
          /\ \A j \in 1 .. i - 1 : funcs[j].offset + funcs[j].size <= funcs[i].offset
    /\ \A k \in DOMAIN calls, i \in DOMAIN funcs :
          calls[k].caller = funcs[i].name =>
              funcs[i].offset <= calls[k].at /\ calls[k].at + 4 <= funcs[i].offset + funcs[i].size

(* The string table never outgrows its capacity, the fixed tables hold     *)
(* what they have room for, and a callee takes one entry however often it  *)
(* is called.                                                              *)
Callees == {calls[k].callee : k \in DOMAIN calls}
TablesInBounds ==
    /\ symstr.len <= symstr.cap
    /\ Len(syms) < MaxSyms \/ MaxSyms = 0
    /\ Len(externs) = Cardinality(Callees)
    /\ Len(externs) <= ExternCap /\ Len(funcs) <= FuncCap

(* After the prologue the home of each parameter that came in a register   *)
(* holds it, the fourth excepted: its argument register rcx is the home of *)
(* the second, which was moved there before.                               *)
ParamsArrive ==
    \A i \in DOMAIN arrived : arrived[i] = IF i = 4 THEN 2 ELSE i
=============================================================================
