------------------------------ MODULE Codegen ------------------------------
(***************************************************************************)
(* The lowering of statements (cg_stmt and cg_func of src/ir/codegen.c),   *)
(* next to the scoping of src/frontend/sema.c, and the execution of the    *)
(* code that results.                                                      *)
(*                                                                         *)
(* The body of a function is met statement by statement; `open` holds the  *)
(* constructs whose end is still to come, the recursion of cg_stmt.  The   *)
(* blocks of the function are created in the order they are filled, so     *)
(* `code` is one sequence.  Expressions are reduced to reads of a local.   *)
(***************************************************************************)
EXTENDS Integers, Sequences, FiniteSets

CONSTANTS
    Names,      \* names that `let` declares
    LoopNames,  \* names that the init of a `for` declares
    MaxStmts,   \* bound: statements of the function
    MaxLocals,  \* MAX_LOCALS
    MaxDefers,  \* MAX_DEFERS
    MaxLoops    \* length of break_labels and continue_labels

ASSUME CodegenAssumption ==
    /\ Names \cap LoopNames = {}
    /\ {MaxStmts, MaxLocals, MaxDefers, MaxLoops} \subseteq Nat

VARIABLES
    phase,       \* "lower", "run" or "halt"
    stmts,       \* statements lowered
    open,        \* constructs entered and not left, innermost last
    code,        \* the instructions of the function
    next_label,  \* IRFunc.next_label
    slots,       \* allocas emitted; a local's slot is its number
    locals,      \* CGCtx.locals[0 .. local_count - 1]
    defers,      \* CGCtx.defers[0 .. defer_count - 1]
    loops,       \* CGCtx.break_labels and continue_labels, to loop_depth
    scopes,      \* sema: the chain of scopes, innermost last
    excused,     \* a break or continue left a scope with defers behind it
    ip,          \* execution: the next instruction
    pending,     \* execution: defers registered and not run yet
    misrun       \* execution: a defer ran out of turn, or not at all

lowerVars == <<stmts, open, code, next_label, slots, locals, defers, loops, scopes, excused>>
runVars == <<ip, pending, misrun>>
vars == <<phase, lowerVars, runVars>>

-----------------------------------------------------------------------------
(* Instructions.  `want` is what the source means, where the operand is    *)
(* what the code generator chose: the label of the loop a jump leaves, the *)
(* slot sema resolves a name to.  `sure` marks a name that nothing in view *)
(* shadows.                                                                *)

I(op, arg) == [op |-> op, arg |-> arg, want |-> arg, sure |-> TRUE]

(* ir_emit_branch: taken to yes, falling through to a jump to no. *)
Branch(yes, no) == <<I("jnz", yes), I("jmp", no)>>

(* Mutant of RunBack: the defers run in the order they were met. *)
RunForward(ds) == [i \in 1 .. Len(ds) |-> I("run", ds[i])]

(* The deferred statements numbered in ds, the last one first. *)
RunBack(ds) == [i \in 1 .. Len(ds) |-> I("run", ds[Len(ds) + 1 - i])]

-----------------------------------------------------------------------------
(* Name resolution. *)

Unresolved == 0

FirstOf(S) == CHOOSE i \in S : \A j \in S : i <= j
LastOf(S) == CHOOSE i \in S : \A j \in S : j <= i

(* cg_find_local: the oldest local of that name. *)
Find(n) ==
    LET found == {i \in DOMAIN locals : locals[i].name = n}
    IN  IF found = {} THEN Unresolved ELSE locals[FirstOf(found)].slot

(* scope_lookup: the newest symbol of the innermost scope that has one. *)
Lookup(n) ==
    LET declares(k) == {i \in DOMAIN scopes[k] : scopes[k][i].name = n}
        having == {k \in DOMAIN scopes : declares(k) # {}}
    IN  IF having = {} THEN Unresolved
        ELSE scopes[LastOf(having)][LastOf(declares(LastOf(having)))].slot

(* n is declared once among the scopes of sema.  The variable of a `for`   *)
(* stays a local of the block around the loop, where a later loop over     *)
(* the same name finds it: that counts as a second declaration.            *)
Unshadowed(n) ==
    /\ Cardinality({ki \in (DOMAIN scopes) \X (1 .. slots) :
           ki[2] \in DOMAIN scopes[ki[1]] /\ scopes[ki[1]][ki[2]].name = n}) = 1
    /\ n \in LoopNames => Cardinality({i \in DOMAIN locals : locals[i].name = n}) <= 1

ReadOf(n) == [op |-> "use", arg |-> Find(n), want |-> Lookup(n), sure |-> Unshadowed(n)]

Define(sc, n) == [sc EXCEPT ![Len(sc)] = Append(@, [name |-> n, slot |-> slots + 1])]

(* Mutant of AddLocal: the local gets the number of the slot after its own. *)
AddLocalOffByOne(n) == Append(locals, [name |-> n, slot |-> slots + 2])

AddLocal(n) ==
    IF Len(locals) < MaxLocals THEN Append(locals, [name |-> n, slot |-> slots + 1]) ELSE locals

-----------------------------------------------------------------------------
(* Statements. *)

Init ==
    /\ phase = "lower" /\ stmts = 0
    /\ open = <<[k |-> "block", locals |-> 0, defers |-> 0]>>
    /\ code = << >> /\ next_label = 0 /\ slots = 0
    /\ locals = << >> /\ defers = << >> /\ loops = << >>
    /\ scopes = << << >>, << >> >>
    /\ excused = FALSE
    /\ ip = 1 /\ pending = << >> /\ misrun = FALSE

Statement ==
    /\ phase = "lower" /\ open # << >>
    /\ stmts < MaxStmts
    /\ stmts' = stmts + 1
    /\ UNCHANGED <<phase, runVars>>

Emit(instrs) == code' = code \o instrs

(* The block frame of a body that opens now. *)
Body(k) == [k |-> "block", locals |-> Len(locals), defers |-> k]

Let(n) ==
    /\ Statement
    /\ slots' = slots + 1
    /\ locals' = AddLocal(n)
    /\ scopes' = Define(scopes, n)
    /\ UNCHANGED <<open, code, next_label, defers, loops, excused>>

Read(n) ==
    /\ Statement
    /\ Lookup(n) # Unresolved
    /\ Emit(<<ReadOf(n)>>)
    /\ UNCHANGED <<open, next_label, slots, locals, defers, loops, scopes, excused>>

(* The instruction "reg" stands for reaching the statement. *)
Defer ==
    /\ Statement
    /\ defers' = IF Len(defers) < MaxDefers THEN Append(defers, Len(code) + 1) ELSE defers
    /\ Emit(<<I("reg", Len(code) + 1)>>)
    /\ UNCHANGED <<open, next_label, slots, locals, loops, scopes, excused>>

Return ==
    /\ Statement
    /\ Emit(RunBack(defers) \o <<I("ret", 0)>>)
    /\ UNCHANGED <<open, next_label, slots, locals, defers, loops, scopes, excused>>

OpenBlock ==
    /\ Statement
    /\ open' = Append(open, Body(Len(defers)))
    /\ scopes' = Append(scopes, << >>)
    /\ UNCHANGED <<code, next_label, slots, locals, defers, loops, excused>>

OpenIf ==
    /\ Statement
    /\ LET tl == next_label
           el == next_label + 1
           endl == next_label + 2
       IN  /\ Emit(Branch(tl, el) \o <<I("label", tl)>>)
           /\ open' = open \o <<[k |-> "then", el |-> el, endl |-> endl], Body(Len(defers))>>
    /\ next_label' = next_label + 3
    /\ scopes' = Append(scopes, << >>)
    /\ UNCHANGED <<slots, locals, defers, loops, excused>>

(* Mutant of PushLoop: the labels of the innermost loop are overwritten. *)
PushLoopInPlace(brk, cont) ==
    loops' = IF loops = << >> THEN <<[brk |-> brk, cont |-> cont]>>
             ELSE [loops EXCEPT ![Len(loops)] = [brk |-> brk, cont |-> cont]]

PushLoop(brk, cont) ==
    loops' = IF Len(loops) < MaxLoops THEN Append(loops, [brk |-> brk, cont |-> cont]) ELSE loops

OpenWhile ==
    /\ Statement
    /\ LET cl == next_label
           bl == next_label + 1
           el == next_label + 2
       IN  /\ PushLoop(el, cl)
           /\ Emit(<<I("jmp", cl), I("label", cl)>> \o Branch(bl, el) \o <<I("label", bl)>>)
           /\ open' = open \o <<[k |-> "while", brk |-> el, cont |-> cl], Body(Len(defers))>>
    /\ next_label' = next_label + 3
    /\ scopes' = Append(scopes, << >>)
    /\ UNCHANGED <<slots, locals, defers, excused>>

(* The init declares n.  Sema opens a scope for the loop, the code         *)
(* generator does not.                                                     *)
OpenFor(n) ==
    /\ Statement
    /\ LET cl == next_label
           bl == next_label + 1
           pl == next_label + 2
           el == next_label + 3
       IN  /\ PushLoop(el, pl)
           /\ Emit(<<I("jmp", cl), I("label", cl)>> \o Branch(bl, el) \o <<I("label", bl)>>)
           /\ open' = open \o <<[k |-> "for", brk |-> el, cont |-> pl, cl |-> cl],
                                [Body(Len(defers)) EXCEPT !.locals = Len(AddLocal(n))]>>
    /\ next_label' = next_label + 4
    /\ slots' = slots + 1
    /\ locals' = AddLocal(n)
    /\ scopes' = Append(Define(Append(scopes, << >>), n), << >>)
    /\ UNCHANGED <<defers, excused>>

(* sema rejects break and continue outside a loop. *)
Around == {i \in DOMAIN open : open[i].k \in {"while", "for"}}
Loop == open[LastOf(Around)]

(* The defers in force when the innermost loop was entered. *)
DefersOutside == open[LastOf(Around) + 1].defers

Break ==
    /\ Statement /\ Around # {}
    /\ IF loops # << >>
       THEN Emit(RunBack(defers) \o <<[I("jmp", loops[Len(loops)].brk) EXCEPT !.want = Loop.brk]>>)
       ELSE UNCHANGED code
    /\ excused' = (excused \/ DefersOutside > 0)
    /\ UNCHANGED <<open, next_label, slots, locals, defers, loops, scopes>>

Continue ==
    /\ Statement /\ Around # {}
    /\ IF loops # << >>
       THEN Emit(<<[I("jmp", loops[Len(loops)].cont) EXCEPT !.want = Loop.cont]>>)
       ELSE UNCHANGED code
    /\ excused' = (excused \/ Len(defers) > DefersOutside)
    /\ UNCHANGED <<open, next_label, slots, locals, defers, loops, scopes>>

-----------------------------------------------------------------------------
(* The end of a block, and of the construct whose body it is. *)

Top == open[Len(open)]
Parent == open[Len(open) - 1]

(* Mutant of Close: the locals of the block stay. *)
CloseKeepsLocals(instrs) ==
    /\ phase = "lower"
    /\ Emit(RunBack(SubSeq(defers, Top.defers + 1, Len(defers))) \o instrs)
    /\ defers' = SubSeq(defers, 1, Top.defers)
    /\ UNCHANGED <<phase, stmts, next_label, slots, locals, excused, runVars>>

(* The defers of the block, then what the construct adds. *)
Close(instrs) ==
    /\ phase = "lower"
    /\ Emit(RunBack(SubSeq(defers, Top.defers + 1, Len(defers))) \o instrs)
    /\ defers' = SubSeq(defers, 1, Top.defers)
    /\ locals' = SubSeq(locals, 1, Top.locals)
    /\ UNCHANGED <<phase, stmts, next_label, slots, excused, runVars>>

InBody(k) == Len(open) > 1 /\ Parent.k = k
DropScopes(n) == scopes' = SubSeq(scopes, 1, Len(scopes) - n)
DropOpen(n) == SubSeq(open, 1, Len(open) - n)
PopLoop == loops' = IF loops # << >> THEN SubSeq(loops, 1, Len(loops) - 1) ELSE loops

CloseBlock ==
    /\ InBody("block")
    /\ Close(<< >>)
    /\ open' = DropOpen(1)
    /\ DropScopes(1)
    /\ UNCHANGED loops

(* The then branch ends and the statement has no else. *)
CloseThen ==
    /\ InBody("then")
    /\ Close(<<I("jmp", Parent.endl), I("label", Parent.el), I("jmp", Parent.endl),
               I("label", Parent.endl)>>)
    /\ open' = DropOpen(2)
    /\ DropScopes(1)
    /\ UNCHANGED loops

(* The then branch ends and the else block begins. *)
OpenElse ==
    /\ InBody("then")
    /\ Close(<<I("jmp", Parent.endl), I("label", Parent.el)>>)
    /\ open' = DropOpen(2) \o <<[k |-> "else", endl |-> Parent.endl],
                               [k |-> "block", locals |-> Top.locals, defers |-> Top.defers]>>
    /\ scopes' = [scopes EXCEPT ![Len(scopes)] = << >>]
    /\ UNCHANGED loops

(* Mutant of CloseElse: the label behind the statement is forgotten. *)
CloseElseUnlabelled ==
    /\ InBody("else")
    /\ Close(<<I("jmp", Parent.endl)>>)
    /\ open' = DropOpen(2)
    /\ DropScopes(1)
    /\ UNCHANGED loops

CloseElse ==
    /\ InBody("else")
    /\ Close(<<I("jmp", Parent.endl), I("label", Parent.endl)>>)
    /\ open' = DropOpen(2)
    /\ DropScopes(1)
    /\ UNCHANGED loops

CloseWhile ==
    /\ InBody("while")
    /\ Close(<<I("jmp", Parent.cont), I("label", Parent.brk)>>)
    /\ open' = DropOpen(2)
    /\ DropScopes(1)
    /\ PopLoop

CloseFor ==
    /\ InBody("for")
    /\ Close(<<I("jmp", Parent.cont), I("label", Parent.cont), I("jmp", Parent.cl),
               I("label", Parent.brk)>>)
    /\ open' = DropOpen(2)
    /\ DropScopes(2)
    /\ PopLoop

(* The body of the function ends; cg_func adds a return. *)
CloseFunc ==
    /\ Len(open) = 1
    /\ Close(<<I("ret", 0)>>)
    /\ open' = << >>
    /\ DropScopes(1)
    /\ UNCHANGED loops

(* Only code that no break or continue spoilt is executed.                 *)
BeginRun ==
    /\ phase = "lower" /\ open = << >> /\ ~excused
    /\ phase' = "run"
    /\ UNCHANGED <<lowerVars, runVars>>

Lower ==
    \/ \E n \in Names : Let(n) \/ Read(n)
    \/ \E n \in LoopNames : OpenFor(n) \/ Read(n)
    \/ Defer \/ Return \/ Break \/ Continue
    \/ OpenBlock \/ OpenIf \/ OpenWhile
    \/ CloseBlock \/ CloseThen \/ OpenElse \/ CloseElse \/ CloseWhile \/ CloseFor \/ CloseFunc

-----------------------------------------------------------------------------
(* Execution.  A conditional jump goes either way. *)

LabelAt(l) == CHOOSE i \in DOMAIN code : code[i].op = "label" /\ code[i].arg = l

Execute ==
    /\ phase = "run" /\ ~misrun
    /\ LET ins == code[ip]
           last == pending # << >> /\ pending[Len(pending)] = ins.arg
       IN  /\ \/ ins.op = "jmp" /\ ip' = LabelAt(ins.arg)
              \/ ins.op = "jnz" /\ ip' = LabelAt(ins.arg)
              \/ ins.op \notin {"jmp", "ret"} /\ ip' = ip + 1
              \/ ins.op = "ret" /\ ip' = ip
           /\ phase' = IF ins.op = "ret" THEN "halt" ELSE "run"
           /\ pending' = CASE ins.op = "reg" -> Append(pending, ins.arg)
                           [] ins.op = "run" /\ last -> SubSeq(pending, 1, Len(pending) - 1)
                           [] OTHER -> pending
           /\ misrun' = \/ ins.op = "run" /\ ~last
                        \/ ins.op = "ret" /\ pending # << >>
    /\ UNCHANGED lowerVars

Next == Lower \/ BeginRun \/ Execute

Spec == Init /\ [][Next]_vars

-----------------------------------------------------------------------------
(* Properties.                                                             *)

Local == [name : Names \cup LoopNames, slot : 1 .. slots]

(* The type invariant: the tables of CGCtx stay within their arrays, and   *)
(* what a construct saved on entry lies within what is there now.          *)
TypeOK ==
    /\ phase \in {"lower", "run", "halt"}
    /\ stmts \in 0 .. MaxStmts
    /\ Len(locals) <= MaxLocals /\ \A i \in DOMAIN locals : locals[i] \in Local
    /\ \A k \in DOMAIN scopes : \A i \in DOMAIN scopes[k] : scopes[k][i] \in Local
    /\ Len(defers) <= MaxDefers /\ \A i \in DOMAIN defers : defers[i] \in 1 .. Len(code)
    /\ Len(loops) <= MaxLoops
    /\ \A i \in DOMAIN loops : {loops[i].brk, loops[i].cont} \subseteq 0 .. next_label - 1
    /\ \A i \in DOMAIN open : open[i].k = "block" =>
           open[i].locals \in 0 .. Len(locals) /\ open[i].defers \in 0 .. Len(defers)
    /\ excused \in BOOLEAN /\ misrun \in BOOLEAN
    /\ ip \in 1 .. Len(code) + 1

(* In the finished code of a function every label ir_new_label handed out  *)
(* marks exactly one place: the backends patch each jump from a table of   *)
(* label offsets and check neither a missing nor a repeated entry.         *)
LabelsDefinedOnce ==
    open = << >> =>
        \A l \in 0 .. next_label - 1 :
            Cardinality({i \in DOMAIN code : code[i].op = "label" /\ code[i].arg = l}) = 1

(* break and continue jump to the labels of the innermost loop around      *)
(* them, whatever blocks, branches and loops were opened and closed        *)
(* between, and none is dropped for want of a loop.                        *)
LoopJumpsReachInnermost ==
    /\ \A i \in DOMAIN code : code[i].op = "jmp" => code[i].arg = code[i].want
    /\ Around # {} => loops # << >>

(* A name nothing shadows is read from the slot of the declaration sema    *)
(* resolved it to.  The local table is searched oldest first, sema's       *)
(* scopes newest first: they agree only as long as locals that went out of *)
(* scope are gone from the table.                                          *)
NamesResolveAsSema ==
    \A i \in DOMAIN code :
        code[i].op = "use" /\ code[i].sure => code[i].arg = code[i].want

(* On every path through the function each defer statement that is reached *)
(* runs exactly once, the last reached first, by the time the function     *)
(* returns, however blocks and loops are left: by their end, by return, by *)
(* break out of a loop with no defer around it, or by continue in a loop   *)
(* with no defer before it.                                                *)
DefersRunOnce == ~misrun
=============================================================================
