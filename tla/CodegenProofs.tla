--------------------------- MODULE CodegenProofs ---------------------------
(***************************************************************************)
(* Theorems of the lowering of statements, for every body of a function.   *)
(*                                                                         *)
(* `open` is the recursion of cg_stmt, so the inductive invariants say     *)
(* what each construct entered and not yet left still has to emit.         *)
(***************************************************************************)
EXTENDS Codegen, FiniteSetTheorems, SequenceTheorems, WellFoundedInduction, TLAPS

-----------------------------------------------------------------------------
(* Sequences and numbers. *)

(* A set of numbers that is not empty has a first element. *)
LEMMA FirstExists ==
  ASSUME NEW T, T \subseteq Nat, T # {}
  PROVE  FirstOf(T) \in T /\ \A j \in T : FirstOf(T) <= j
<1>1. \E x \in T : \A y \in T : ~(<<y, x>> \in OpToRel(<, Nat))
  BY NatLessThanWellFounded, WFMin
<1>2. PICK x \in T : \A y \in T : <<y, x>> \notin OpToRel(<, Nat)
  BY <1>1
<1>3. ASSUME NEW y \in T, y < x
      PROVE  FALSE
  <2>1. <<y, x>> \in Nat \X Nat /\ <<y, x>>[1] < <<y, x>>[2]
    BY <1>3
  <2>2. <<y, x>> \in OpToRel(<, Nat)
    BY <2>1, Zenon DEF OpToRel
  <2> QED BY <1>2, <2>2
<1>4. \A y \in T : x <= y
  BY <1>3
<1> QED BY <1>4 DEF FirstOf

(* A bounded one has a last. *)
LEMMA LastExists ==
  ASSUME NEW T, NEW n \in Nat, T \subseteq 1 .. n, T # {}
  PROVE  LastOf(T) \in T /\ \A j \in T : j <= LastOf(T)
<1> DEFINE U == {n - i : i \in T}
<1>1. U \subseteq Nat /\ U # {}
  <2>1. \A i \in T : n - i \in Nat
    OBVIOUS
  <2> QED BY <2>1, Zenon
<1>2. FirstOf(U) \in U /\ \A j \in U : FirstOf(U) <= j
  BY <1>1, FirstExists
<1>3. PICK x \in T : FirstOf(U) = n - x
  BY <1>2
<1>4. \A j \in T : n - x <= n - j
  BY <1>2, <1>3, Zenon
<1>5. \A j \in T : j <= x
  BY <1>4
<1> QED BY <1>5 DEF LastOf

(* What is left of a sequence when its end is dropped. *)
LEMMA Prefix ==
  ASSUME NEW S, NEW s \in Seq(S), NEW n \in Int, n <= Len(s)
  PROVE  /\ SubSeq(s, 1, n) \in Seq(S)
         /\ n >= 0 => Len(SubSeq(s, 1, n)) = n
         /\ n < 0 => Len(SubSeq(s, 1, n)) = 0
         /\ \A i \in 1 .. n : SubSeq(s, 1, n)[i] = s[i]
<1>1. \A i \in 1 .. n : s[i] \in S
  BY ElementOfSeq, LenProperties
<1> QED BY <1>1, SubSeqProperties

(* A sequence with a construct and its body behind it. *)
LEMMA PushTwo ==
  ASSUME NEW S, NEW s \in Seq(S), NEW a \in S, NEW b \in S
  PROVE  /\ s \o <<a, b>> \in Seq(S)
         /\ Len(s \o <<a, b>>) = Len(s) + 2
         /\ \A i \in 1 .. Len(s) : (s \o <<a, b>>)[i] = s[i]
         /\ (s \o <<a, b>>)[Len(s) + 1] = a
         /\ (s \o <<a, b>>)[Len(s) + 2] = b
<1>1. <<a, b>> \in Seq(S) /\ Len(<<a, b>>) = 2
  OBVIOUS
<1> QED BY <1>1, ConcatProperties, LenProperties

-----------------------------------------------------------------------------
(* Types. *)

Ops == {"label", "jmp", "jnz", "use", "reg", "run", "ret"}
Instr == [op : Ops, arg : Nat, want : Nat, sure : BOOLEAN]
Symbol == [name : Names \cup LoopNames, slot : Nat]
LoopLabels == [brk : Nat, cont : Nat]

BlockFrame == [k : {"block"}, locals : Nat, defers : Nat]
ThenFrame == [k : {"then"}, el : Nat, endl : Nat]
ElseFrame == [k : {"else"}, endl : Nat]
WhileFrame == [k : {"while"}, brk : Nat, cont : Nat]
ForFrame == [k : {"for"}, brk : Nat, cont : Nat, cl : Nat]
Frame == BlockFrame \cup ThenFrame \cup ElseFrame \cup WhileFrame \cup ForFrame

Typing ==
    /\ code \in Seq(Instr) /\ open \in Seq(Frame) /\ loops \in Seq(LoopLabels)
    /\ locals \in Seq(Symbol) /\ scopes \in Seq(Seq(Symbol)) /\ defers \in Seq(Nat)
    /\ next_label \in Nat /\ slots \in Nat
    /\ phase \in {"lower", "run", "halt"} /\ excused \in BOOLEAN /\ misrun \in BOOLEAN

(* A construct stands between the block it is in and its body. *)
Nesting(o) ==
    \A i \in DOMAIN o : o[i].k # "block" =>
        /\ i > 1 /\ o[i - 1].k = "block"
        /\ i < Len(o) /\ o[i + 1].k = "block"

(* The sizes of the tables and the range of their entries. *)
Bounds ==
    /\ stmts \in 0 .. MaxStmts
    /\ Len(locals) <= MaxLocals /\ Len(defers) <= MaxDefers /\ Len(loops) <= MaxLoops
    /\ \A i \in DOMAIN locals : locals[i].slot \in 1 .. slots
    /\ \A k \in DOMAIN scopes : \A i \in DOMAIN scopes[k] : scopes[k][i].slot \in 1 .. slots
    /\ \A i \in DOMAIN defers : defers[i] \in 1 .. Len(code)
    /\ \A i \in DOMAIN loops : loops[i].brk < next_label /\ loops[i].cont < next_label

(* What a block saved lies within the tables, and within what the blocks   *)
(* inside it saved.                                                        *)
Saved(o, nl, nd) ==
    /\ \A i \in DOMAIN o : o[i].k = "block" => o[i].locals <= nl /\ o[i].defers <= nd
    /\ \A i, j \in DOMAIN o : o[i].k = "block" /\ o[j].k = "block" /\ i <= j =>
           o[i].locals <= o[j].locals /\ o[i].defers <= o[j].defers

Stack(o, nl, nd) == o \in Seq(Frame) /\ Nesting(o) /\ Saved(o, nl, nd)

StackInv == Typing /\ Bounds /\ Stack(open, Len(locals), Len(defers))

(* What is known of the instructions an action adds. *)
LEMMA Plain ==
  ASSUME NEW op \in Ops, NEW arg \in Nat
  PROVE  /\ I(op, arg) \in Instr
         /\ I(op, arg).op = op /\ I(op, arg).arg = arg /\ I(op, arg).want = arg
BY DEF I, Instr

LEMMA RunBackType ==
  ASSUME NEW ds \in Seq(Nat)
  PROVE  /\ RunBack(ds) \in Seq(Instr)
         /\ Len(RunBack(ds)) = Len(ds)
         /\ \A i \in 1 .. Len(ds) : RunBack(ds)[i].op = "run"
<1>1. \A i \in 1 .. Len(ds) : ds[Len(ds) + 1 - i] \in Nat
  BY ElementOfSeq, LenProperties
<1>2. \A i \in 1 .. Len(ds) : I("run", ds[Len(ds) + 1 - i]) \in Instr
                              /\ I("run", ds[Len(ds) + 1 - i]).op = "run"
  <2>1. "run" \in Ops
    BY DEF Ops
  <2> QED BY <1>1, <2>1, Plain, Zenon
<1>3. RunBack(ds) \in [1 .. Len(ds) -> Instr]
  BY <1>2, Zenon DEF RunBack
<1>4. Len(ds) \in Nat
  BY LenProperties
<1>5. RunBack(ds) \in Seq(Instr) /\ Len(RunBack(ds)) = Len(ds)
  BY <1>3, <1>4
<1>6. \A i \in 1 .. Len(ds) : RunBack(ds)[i] = I("run", ds[Len(ds) + 1 - i])
  BY Zenon DEF RunBack
<1> QED BY <1>2, <1>5, <1>6, Zenon

LEMMA FindType ==
  ASSUME Typing, NEW n
  PROVE  Find(n) \in Nat
<1> DEFINE found == {i \in DOMAIN locals : locals[i].name = n}
<1>1. CASE found = {}
  BY <1>1 DEF Find, Unresolved
<1>2. CASE found # {}
  <2>1. found \subseteq Nat
    BY LenProperties DEF Typing
  <2>2. FirstOf(found) \in found
    BY <1>2, <2>1, FirstExists
  <2>3. locals[FirstOf(found)] \in Symbol
    BY <2>2, ElementOfSeq, LenProperties DEF Typing
  <2> HIDE DEF found
  <2>4. Find(n) = locals[FirstOf(found)].slot
    BY <1>2 DEF Find, found
  <2> QED BY <2>3, <2>4 DEF Symbol
<1> QED BY <1>1, <1>2

(* The symbol that sema finds is one of its scopes. *)
LEMMA LookupFinds ==
  ASSUME Typing, NEW n
  PROVE  \/ Lookup(n) = Unresolved /\ \A k \in DOMAIN scopes : \A i \in DOMAIN scopes[k] : scopes[k][i].name # n
         \/ \E k \in DOMAIN scopes : \E i \in DOMAIN scopes[k] :
               scopes[k][i].name = n /\ Lookup(n) = scopes[k][i].slot
<1> DEFINE declares(k) == {i \in DOMAIN scopes[k] : scopes[k][i].name = n}
           having == {k \in DOMAIN scopes : declares(k) # {}}
           k0 == LastOf(having)
           i0 == LastOf(declares(k0))
<1>1. CASE having = {}
  BY <1>1, Zenon DEF Lookup
<1>2. CASE having # {}
  <2>1. having \subseteq 1 .. Len(scopes) /\ Len(scopes) \in Nat
    BY LenProperties DEF Typing
  <2>2. k0 \in having
    BY <1>2, <2>1, LastExists
  <2>3. k0 \in 1 .. Len(scopes) /\ declares(k0) # {}
    BY <2>1, <2>2
  <2>4. scopes[k0] \in Seq(Symbol)
    BY <2>3, ElementOfSeq DEF Typing
  <2>5. declares(k0) \subseteq 1 .. Len(scopes[k0]) /\ Len(scopes[k0]) \in Nat
    BY <2>4, LenProperties
  <2>6. i0 \in declares(k0)
    BY <2>3, <2>5, LastExists
  <2>7. Lookup(n) = scopes[k0][i0].slot
    BY <1>2, Zenon DEF Lookup
  <2> QED BY <2>2, <2>6, <2>7, Zenon
<1> QED BY <1>1, <1>2

LEMMA ReadType ==
  ASSUME Typing, NEW n
  PROVE  ReadOf(n) \in Instr
<1>1. Lookup(n) \in Nat
  <2>1. CASE Lookup(n) = Unresolved
    BY <2>1 DEF Unresolved
  <2>2. CASE \E k \in DOMAIN scopes : \E i \in DOMAIN scopes[k] : Lookup(n) = scopes[k][i].slot
    <3>1. PICK k \in DOMAIN scopes : \E i \in DOMAIN scopes[k] : Lookup(n) = scopes[k][i].slot
      BY <2>2
    <3>2. scopes[k] \in Seq(Symbol)
      BY <3>1, ElementOfSeq, LenProperties DEF Typing
    <3>3. PICK i \in DOMAIN scopes[k] : Lookup(n) = scopes[k][i].slot
      BY <3>1
    <3>4. scopes[k][i] \in Symbol
      BY <3>2, <3>3, ElementOfSeq, LenProperties
    <3> QED BY <3>3, <3>4 DEF Symbol
  <2> QED BY <2>1, <2>2, LookupFinds, Zenon
<1>2. Unshadowed(n) \in BOOLEAN
  BY DEF Unshadowed
<1>3. "use" \in Ops /\ Find(n) \in Nat
  BY FindType DEF Ops
<1> QED BY <1>1, <1>2, <1>3 DEF ReadOf, Instr

-----------------------------------------------------------------------------
(* What each action does to the tables. *)

(* The top of `open` is a block, and the fields of its parent are those of *)
(* the parent's kind.                                                      *)
LEMMA TopFacts ==
  ASSUME Stack(open, Len(locals), Len(defers)), open # << >>
  PROVE  /\ Len(open) \in Nat /\ Len(open) >= 1
         /\ Top \in BlockFrame /\ Top.locals <= Len(locals) /\ Top.defers <= Len(defers)
         /\ InBody("block") => Parent \in BlockFrame
         /\ InBody("then") => Parent \in ThenFrame
         /\ InBody("else") => Parent \in ElseFrame
         /\ InBody("while") => Parent \in WhileFrame
         /\ InBody("for") => Parent \in ForFrame
<1>1. Len(open) \in Nat /\ Len(open) >= 1 /\ DOMAIN open = 1 .. Len(open)
  BY EmptySeq, LenProperties DEF Stack
<1>2. Len(open) \in DOMAIN open /\ ~(Len(open) < Len(open))
  BY <1>1
<1>3. Top.k = "block"
  BY <1>2, Zenon DEF Stack, Nesting, Top
<1>4. Top \in Frame
  BY <1>1, ElementOfSeq DEF Top, Stack
<1>5. Len(open) > 1 => Parent \in Frame
  BY <1>1, ElementOfSeq DEF Parent, Stack
<1> USE DEF Frame, BlockFrame, ThenFrame, ElseFrame, WhileFrame, ForFrame
<1>6. Top \in BlockFrame
  BY <1>3, <1>4
<1>7. Top.locals <= Len(locals) /\ Top.defers <= Len(defers)
  BY <1>2, <1>3, Zenon DEF Stack, Saved, Top
<1> QED BY <1>1, <1>5, <1>6, <1>7 DEF InBody

(* The code grows by s, behind the runs of some deferred statements. *)
Adds(s) ==
    /\ code' \in Seq(Instr)
    /\ \E m \in Nat :
          /\ Len(code) <= m /\ Len(code') = m + Len(s)
          /\ \A i \in 1 .. Len(code) : code'[i] = code[i]
          /\ \A i \in Len(code) + 1 .. m : code'[i].op = "run"
          /\ \A i \in 1 .. Len(s) : code'[m + i] = s[i]

LEMMA EmitAdds ==
  ASSUME Typing, NEW s \in Seq(Instr), Emit(s)
  PROVE  Adds(s)
<1>1. Len(code) \in Nat /\ Len(s) \in Nat
  BY LenProperties DEF Typing
<1>2. /\ code' \in Seq(Instr) /\ Len(code') = Len(code) + Len(s)
      /\ \A i \in 1 .. Len(code) : code'[i] = code[i]
      /\ \A i \in 1 .. Len(s) : code'[Len(code) + i] = s[i]
  BY <1>1, ConcatProperties DEF Typing, Emit
<1> QED BY <1>1, <1>2 DEF Adds

LEMMA RunsAdd ==
  ASSUME Typing, NEW ds \in Seq(Nat), NEW s \in Seq(Instr), Emit(RunBack(ds) \o s)
  PROVE  Adds(s)
<1> DEFINE r == RunBack(ds)
           t == r \o s
           m == Len(code) + Len(r)
<1>1. r \in Seq(Instr) /\ \A i \in 1 .. Len(r) : r[i].op = "run"
  BY RunBackType
<1>2. code \in Seq(Instr) /\ code' = code \o t
  BY DEF Typing, Emit
<1> HIDE DEF r
<1>3. Len(code) \in Nat /\ Len(r) \in Nat /\ Len(s) \in Nat
  BY <1>1, <1>2, LenProperties
<1>4. /\ t \in Seq(Instr) /\ Len(t) = Len(r) + Len(s)
      /\ \A i \in 1 .. Len(r) + Len(s) : t[i] = IF i <= Len(r) THEN r[i] ELSE s[i - Len(r)]
  BY <1>1, ConcatProperties
<1> HIDE DEF t
<1>5. /\ code' \in Seq(Instr) /\ Len(code') = Len(code) + Len(t)
      /\ \A i \in 1 .. Len(code) + Len(t) : code'[i] = IF i <= Len(code) THEN code[i] ELSE t[i - Len(code)]
  BY <1>2, <1>4, ConcatProperties
<1>6. \A i \in 1 .. Len(code) : code'[i] = code[i]
  BY <1>3, <1>4, <1>5
<1>7. \A i \in Len(code) + 1 .. m : code'[i].op = "run"
  <2>1. \A i \in Len(code) + 1 .. m : i - Len(code) \in 1 .. Len(r) /\ code'[i] = r[i - Len(code)]
    <3> SUFFICES ASSUME NEW i \in Len(code) + 1 .. m
                 PROVE  i - Len(code) \in 1 .. Len(r) /\ code'[i] = r[i - Len(code)]
      OBVIOUS
    <3>1. i \in 1 .. Len(code) + Len(t) /\ ~(i <= Len(code)) /\ i - Len(code) \in 1 .. Len(r)
      BY <1>3, <1>4
    <3>2. code'[i] = t[i - Len(code)]
      BY <3>1, <1>5
    <3>3. t[i - Len(code)] = r[i - Len(code)]
      <4>1. i - Len(code) \in 1 .. Len(r) + Len(s) /\ i - Len(code) <= Len(r)
        BY <3>1, <1>3
      <4> QED BY <4>1, <1>4, Zenon
    <3> QED BY <3>1, <3>2, <3>3
  <2> QED BY <1>1, <2>1
<1>8. \A i \in 1 .. Len(s) : code'[m + i] = s[i]
  BY <1>3, <1>4, <1>5
<1>9. m \in Nat /\ Len(code) <= m /\ Len(code') = m + Len(s)
  BY <1>3, <1>4, <1>5
<1> HIDE DEF m
<1> QED BY <1>5, <1>6, <1>7, <1>8, <1>9, Zenon DEF Adds

(* The end of a block: its defers, then what its construct adds. *)
LEMMA Closed ==
  ASSUME StackInv, open # << >>, NEW instrs \in Seq(Instr), Close(instrs)
  PROVE  /\ Adds(instrs)
         /\ defers' \in Seq(Nat) /\ Len(defers') = Top.defers
         /\ \A i \in 1 .. Top.defers : defers'[i] = defers[i]
         /\ locals' \in Seq(Symbol) /\ Len(locals') = Top.locals
         /\ \A i \in 1 .. Top.locals : locals'[i] = locals[i]
<1>1. Top \in BlockFrame /\ Top.defers <= Len(defers) /\ Top.locals <= Len(locals)
  BY TopFacts DEF StackInv
<1>2. \A i \in Top.defers + 1 .. Len(defers) : defers[i] \in Nat
  BY <1>1, ElementOfSeq, LenProperties DEF StackInv, Typing, BlockFrame
<1>3. SubSeq(defers, Top.defers + 1, Len(defers)) \in Seq(Nat)
  BY <1>1, <1>2, SubSeqProperties, LenProperties DEF StackInv, Typing, BlockFrame
<1>4. Adds(instrs)
  BY <1>3, RunsAdd DEF Close, StackInv
<1>5. Top.defers \in Nat /\ Top.locals \in Nat
  BY <1>1 DEF BlockFrame
<1>6. /\ defers \in Seq(Nat) /\ defers' = SubSeq(defers, 1, Top.defers)
      /\ locals \in Seq(Symbol) /\ locals' = SubSeq(locals, 1, Top.locals)
  BY DEF Close, StackInv, Typing
<1>7. /\ defers' \in Seq(Nat) /\ Len(defers') = Top.defers
      /\ \A i \in 1 .. Top.defers : defers'[i] = defers[i]
  BY <1>1, <1>5, <1>6, Prefix
<1>8. /\ locals' \in Seq(Symbol) /\ Len(locals') = Top.locals
      /\ \A i \in 1 .. Top.locals : locals'[i] = locals[i]
  BY <1>1, <1>5, <1>6, Prefix
<1> QED BY <1>4, <1>7, <1>8

(* Short sequences written out. *)
LEMMA Tuple3 == \A a, b, c : <<a, b>> \o <<c>> = <<a, b, c>>
<1> SUFFICES ASSUME NEW a, NEW b, NEW c
             PROVE  <<a, b>> \o <<c>> = <<a, b, c>>
  OBVIOUS
<1> DEFINE S == {a, b, c}
           s == <<a, b>> \o <<c>>
<1>1. /\ <<a, b>> \in Seq(S) /\ <<c>> \in Seq(S) /\ <<a, b, c>> \in Seq(S)
      /\ Len(<<a, b>>) = 2 /\ Len(<<c>>) = 1 /\ Len(<<a, b, c>>) = 3
  OBVIOUS
<1>2. s \in Seq(S) /\ Len(s) = 3 /\ s[1] = a /\ s[2] = b /\ s[3] = c
  BY <1>1, ConcatProperties
<1> HIDE DEF s
<1>3. \A i \in 1 .. 3 : i = 1 \/ i = 2 \/ i = 3
  OBVIOUS
<1>4. s = <<a, b, c>>
  BY <1>1, <1>2, <1>3, SeqEqual
<1> QED BY <1>4 DEF s

LEMMA Tuple5 == \A a, b, c, d, e : <<a, b>> \o <<c, d>> \o <<e>> = <<a, b, c, d, e>>
<1> SUFFICES ASSUME NEW a, NEW b, NEW c, NEW d, NEW e
             PROVE  <<a, b>> \o <<c, d>> \o <<e>> = <<a, b, c, d, e>>
  OBVIOUS
<1> DEFINE S == {a, b, c, d, e}
           s == <<a, b>> \o <<c, d>>
           u == s \o <<e>>
<1>1. /\ <<a, b>> \in Seq(S) /\ <<c, d>> \in Seq(S) /\ <<e>> \in Seq(S) /\ <<a, b, c, d, e>> \in Seq(S)
      /\ Len(<<a, b>>) = 2 /\ Len(<<c, d>>) = 2 /\ Len(<<e>>) = 1 /\ Len(<<a, b, c, d, e>>) = 5
  OBVIOUS
<1> HIDE DEF S
<1>2. s \in Seq(S) /\ Len(s) = 4 /\ s[1] = a /\ s[2] = b /\ s[3] = c /\ s[4] = d
  BY <1>1, ConcatProperties
<1> HIDE DEF s
<1>3. u \in Seq(S) /\ Len(u) = 5 /\ u[1] = a /\ u[2] = b /\ u[3] = c /\ u[4] = d /\ u[5] = e
  <2>1. /\ u \in Seq(S) /\ Len(u) = Len(s) + Len(<<e>>)
        /\ \A i \in 1 .. Len(s) + Len(<<e>>) : u[i] = IF i <= Len(s) THEN s[i] ELSE <<e>>[i - Len(s)]
    <3>1. s \in Seq(S) /\ <<e>> \in Seq(S)
      BY <1>1, <1>2
    <3> HIDE DEF S
    <3> QED BY <3>1, ConcatProperties, Zenon
  <2> HIDE DEF u
  <2>2. Len(s) + Len(<<e>>) = 5
    BY <1>1, <1>2
  <2>3. \A i \in 1 .. 5 : u[i] = IF i <= 4 THEN s[i] ELSE <<e>>[i - 4]
    BY <2>1, <2>2, <1>2, Zenon
  <2>4. u[1] = s[1] /\ u[2] = s[2] /\ u[3] = s[3] /\ u[4] = s[4] /\ u[5] = e
    BY <2>3
  <2> QED BY <2>1, <2>2, <2>4, <1>2, Zenon
<1> HIDE DEF u
<1>4. \A i \in 1 .. 5 : i = 1 \/ i = 2 \/ i = 3 \/ i = 4 \/ i = 5
  OBVIOUS
<1>5. u = <<a, b, c, d, e>>
  BY <1>1, <1>3, <1>4, SeqEqual
<1> QED BY <1>5 DEF s, u

(* What the head of a construct emits, and the frame it leaves. *)
LEMMA OpenedIf ==
  ASSUME OpenIf
  PROVE  /\ Emit(<<I("jnz", next_label), I("jmp", next_label + 1), I("label", next_label)>>)
         /\ open' = open \o <<[k |-> "then", el |-> next_label + 1, endl |-> next_label + 2],
                              Body(Len(defers))>>
<1>1. <<I("jnz", next_label), I("jmp", next_label + 1)>> \o <<I("label", next_label)>>
        = <<I("jnz", next_label), I("jmp", next_label + 1), I("label", next_label)>>
  BY Tuple3, Zenon
<1> QED BY <1>1, Zenon DEF OpenIf, Branch

LEMMA OpenedWhile ==
  ASSUME OpenWhile
  PROVE  /\ Emit(<<I("jmp", next_label), I("label", next_label), I("jnz", next_label + 1),
                   I("jmp", next_label + 2), I("label", next_label + 1)>>)
         /\ open' = open \o <<[k |-> "while", brk |-> next_label + 2, cont |-> next_label],
                              Body(Len(defers))>>
         /\ PushLoop(next_label + 2, next_label)
<1> DEFINE a == I("jmp", next_label)
           b == I("label", next_label)
           c == I("jnz", next_label + 1)
           d == I("jmp", next_label + 2)
           e == I("label", next_label + 1)
<1>1. <<a, b>> \o <<c, d>> \o <<e>> = <<a, b, c, d, e>>
  <2> HIDE DEF a, b, c, d, e
  <2> QED BY Tuple5, Zenon
<1> QED BY <1>1, Zenon DEF OpenWhile, Branch

LEMMA OpenedFor ==
  ASSUME NEW n, OpenFor(n)
  PROVE  /\ Emit(<<I("jmp", next_label), I("label", next_label), I("jnz", next_label + 1),
                   I("jmp", next_label + 3), I("label", next_label + 1)>>)
         /\ open' = open \o <<[k |-> "for", brk |-> next_label + 3, cont |-> next_label + 2,
                               cl |-> next_label],
                              [Body(Len(defers)) EXCEPT !.locals = Len(AddLocal(n))]>>
         /\ PushLoop(next_label + 3, next_label + 2)
<1> DEFINE a == I("jmp", next_label)
           b == I("label", next_label)
           c == I("jnz", next_label + 1)
           d == I("jmp", next_label + 3)
           e == I("label", next_label + 1)
<1>1. <<a, b>> \o <<c, d>> \o <<e>> = <<a, b, c, d, e>>
  <2> HIDE DEF a, b, c, d, e
  <2> QED BY Tuple5, Zenon
<1> QED BY <1>1, Zenon DEF OpenFor, Branch

(* What the ends of the constructs add is code. *)
LEMMA EndTypes ==
  ASSUME StackInv, open # << >>
  PROVE  /\ << >> \in Seq(Instr) /\ <<I("ret", 0)>> \in Seq(Instr)
         /\ InBody("then") =>
              /\ <<I("jmp", Parent.endl), I("label", Parent.el)>> \in Seq(Instr)
              /\ <<I("jmp", Parent.endl), I("label", Parent.el), I("jmp", Parent.endl),
                   I("label", Parent.endl)>> \in Seq(Instr)
         /\ InBody("else") => <<I("jmp", Parent.endl), I("label", Parent.endl)>> \in Seq(Instr)
         /\ InBody("while") => <<I("jmp", Parent.cont), I("label", Parent.brk)>> \in Seq(Instr)
         /\ InBody("for") => <<I("jmp", Parent.cont), I("label", Parent.cont), I("jmp", Parent.cl),
                               I("label", Parent.brk)>> \in Seq(Instr)
<1>1. \A l \in Nat : I("jmp", l) \in Instr /\ I("label", l) \in Instr /\ I("ret", l) \in Instr
  BY Plain DEF Ops
<1>2. \A a, b, c, d \in Instr : <<a>> \in Seq(Instr) /\ <<a, b>> \in Seq(Instr) /\ <<a, b, c, d>> \in Seq(Instr)
  OBVIOUS
<1>3. /\ InBody("then") => Parent.endl \in Nat /\ Parent.el \in Nat
      /\ InBody("else") => Parent.endl \in Nat
      /\ InBody("while") => Parent.cont \in Nat /\ Parent.brk \in Nat
      /\ InBody("for") => Parent.cont \in Nat /\ Parent.brk \in Nat /\ Parent.cl \in Nat
  BY TopFacts DEF StackInv, ThenFrame, ElseFrame, WhileFrame, ForFrame
<1>4. << >> \in Seq(Instr) /\ 0 \in Nat
  OBVIOUS
<1> QED BY <1>1, <1>2, <1>3, <1>4, Zenon

(* The actions that end a construct. *)
Closing == CloseBlock \/ CloseThen \/ OpenElse \/ CloseElse \/ CloseWhile \/ CloseFor \/ CloseFunc

LEMMA ClosingEnds ==
  ASSUME StackInv, Closing
  PROVE  open # << >> /\ \E s \in Seq(Instr) : Close(s)
<1>1. open # << >>
  BY DEF Closing, CloseBlock, CloseThen, OpenElse, CloseElse, CloseWhile, CloseFor, CloseFunc, InBody
<1> QED BY <1>1, EndTypes
        DEF Closing, CloseBlock, CloseThen, OpenElse, CloseElse, CloseWhile, CloseFor, CloseFunc

LEMMA Limits == MaxStmts \in Nat /\ MaxLocals \in Nat /\ MaxDefers \in Nat /\ MaxLoops \in Nat
BY CodegenAssumption

(* The locals grow by one, shrink to those of the enclosing block, or stay. *)
LEMMA LocalsStep ==
  ASSUME StackInv, Lower
  PROVE  /\ locals' \in Seq(Symbol) /\ Len(locals') <= MaxLocals
         /\ slots' \in Nat /\ slots <= slots'
         /\ \A i \in DOMAIN locals' : locals'[i].slot \in 1 .. slots'
<1> USE DEF StackInv, Typing, Bounds
<1>1. DOMAIN locals = 1 .. Len(locals) /\ Len(locals) \in Nat
  BY LenProperties
<1>2. CASE UNCHANGED <<locals, slots>>
  BY <1>2
<1>3. ASSUME NEW n \in Names \cup LoopNames, locals' = AddLocal(n), slots' = slots + 1
      PROVE  /\ locals' \in Seq(Symbol) /\ Len(locals') <= MaxLocals
             /\ slots' \in Nat /\ slots <= slots'
             /\ \A i \in DOMAIN locals' : locals'[i].slot \in 1 .. slots'
  <2>1. CASE Len(locals) < MaxLocals
    <3> DEFINE x == [name |-> n, slot |-> slots + 1]
    <3>1. x \in Symbol /\ x.slot = slots + 1
      BY DEF Symbol
    <3>2. locals' = Append(locals, x)
      BY <1>3, <2>1 DEF AddLocal
    <3> HIDE DEF x
    <3>3. /\ locals' \in Seq(Symbol) /\ Len(locals') = Len(locals) + 1
          /\ \A i \in 1 .. Len(locals) : locals'[i] = locals[i]
          /\ locals'[Len(locals) + 1] = x
      BY <3>1, <3>2, AppendProperties
    <3>4. DOMAIN locals' = 1 .. Len(locals) + 1
      BY <3>3, LenProperties
    <3>5. ASSUME NEW i \in DOMAIN locals' PROVE locals'[i].slot \in 1 .. slots'
      <4>1. CASE i = Len(locals) + 1
        BY <1>3, <3>1, <3>3, <4>1
      <4>2. CASE i # Len(locals) + 1
        <5>1. i \in DOMAIN locals /\ locals'[i] = locals[i]
          BY <1>1, <3>3, <3>4, <4>2
        <5> QED BY <1>3, <5>1
      <4> QED BY <4>1, <4>2
    <3>6. Len(locals') <= MaxLocals /\ slots' \in Nat /\ slots <= slots'
      BY <1>1, <1>3, <2>1, <3>3, Limits
    <3> QED BY <3>3, <3>5, <3>6, Zenon
  <2>2. CASE ~(Len(locals) < MaxLocals)
    BY <1>1, <1>3, <2>2 DEF AddLocal
  <2> QED BY <2>1, <2>2
<1>4. CASE Closing
  <2>1. /\ UNCHANGED slots /\ Top \in BlockFrame /\ Top.locals <= Len(locals)
        /\ locals' \in Seq(Symbol) /\ Len(locals') = Top.locals
        /\ \A i \in 1 .. Top.locals : locals'[i] = locals[i]
    BY <1>4, ClosingEnds, Closed, TopFacts DEF Close
  <2>2. DOMAIN locals' = 1 .. Top.locals /\ Top.locals \in Nat
    BY <2>1, LenProperties DEF BlockFrame
  <2>3. \A i \in DOMAIN locals' : i \in DOMAIN locals /\ locals'[i] = locals[i]
    BY <1>1, <2>1, <2>2
  <2>4. Len(locals') <= MaxLocals
    BY <1>1, <2>1, <2>2, Limits
  <2> QED BY <2>1, <2>3, <2>4
<1> QED BY <1>2, <1>3, <1>4, Zenon
        DEF Lower, Let, Read, OpenFor, Defer, Return, Break, Continue, OpenBlock, OpenIf, OpenWhile, Closing

(* The loop around a statement is the innermost one. *)
LEMMA LoopFacts ==
  ASSUME StackInv, Around # {}
  PROVE  /\ LastOf(Around) \in Around /\ \A i \in Around : i <= LastOf(Around)
         /\ Loop \in WhileFrame \cup ForFrame /\ Loop.brk \in Nat /\ Loop.cont \in Nat
<1>1. Around \subseteq 1 .. Len(open) /\ Len(open) \in Nat
  BY LenProperties DEF Around, StackInv, Stack
<1>2. LastOf(Around) \in Around /\ \A i \in Around : i <= LastOf(Around)
  BY <1>1, LastExists
<1>3. \A i \in Around : open[i] \in WhileFrame \cup ForFrame
  BY <1>1, ElementOfSeq
     DEF Around, StackInv, Stack, Frame, BlockFrame, ThenFrame, ElseFrame, WhileFrame, ForFrame
<1> QED BY <1>2, <1>3 DEF Loop, WhileFrame, ForFrame

(* The code grows, by the runs of deferred statements and something more. *)
LEMMA CodeStep ==
  ASSUME StackInv, Lower
  PROVE  \E s \in Seq(Instr) : Adds(s)
<1> USE DEF StackInv
<1>1. \A op \in Ops, arg \in Nat : I(op, arg) \in Instr
  BY Plain
<1>2. \A a, b, c, d, e \in Instr :
         << >> \in Seq(Instr) /\ <<a>> \in Seq(Instr) /\ <<a, b, c>> \in Seq(Instr) /\ <<a, b, c, d, e>> \in Seq(Instr)
  OBVIOUS
<1>3. << >> \in Seq(Instr)
  OBVIOUS
<1>4. CASE UNCHANGED code
  <2>1. Emit(<< >>)
    BY <1>4, ConcatEmptySeq DEF Emit, Typing
  <2> QED BY <2>1, <1>3, EmitAdds
<1>5. ASSUME NEW n, Read(n) PROVE \E s \in Seq(Instr) : Adds(s)
  <2>1. <<ReadOf(n)>> \in Seq(Instr)
    BY ReadType, <1>2
  <2> QED BY <1>5, <2>1, EmitAdds DEF Read
<1>6. CASE Defer
  <2>1. Len(code) + 1 \in Nat /\ "reg" \in Ops
    BY LenProperties DEF Typing, Ops
  <2>2. <<I("reg", Len(code) + 1)>> \in Seq(Instr)
    BY <1>1, <1>2, <2>1, Zenon
  <2> QED BY <1>6, <2>2, EmitAdds DEF Defer
<1>7. CASE Return
  <2>1. <<I("ret", 0)>> \in Seq(Instr)
    BY <1>1, <1>2 DEF Ops
  <2> QED BY <1>7, <2>1, RunsAdd DEF Return, Typing
<1>8. /\ \A d \in {0, 1, 2, 3} : next_label + d \in Nat
      /\ next_label = next_label + 0
      /\ \A op \in {"jmp", "jnz", "label"} : op \in Ops
  BY DEF Typing, Ops
<1>9. \A op \in {"jmp", "jnz", "label"} :
         /\ I(op, next_label) \in Instr /\ I(op, next_label + 1) \in Instr
         /\ I(op, next_label + 2) \in Instr /\ I(op, next_label + 3) \in Instr
  BY <1>1, <1>8
<1>10. CASE OpenIf
  BY <1>9, <1>10, <1>2, OpenedIf, EmitAdds
<1>11. CASE OpenWhile
  BY <1>9, <1>11, <1>2, OpenedWhile, EmitAdds
<1>12. ASSUME NEW n, OpenFor(n) PROVE \E s \in Seq(Instr) : Adds(s)
  BY <1>9, <1>12, <1>2, OpenedFor, EmitAdds
<1>13. \A i \in DOMAIN loops : loops[i].brk \in Nat /\ loops[i].cont \in Nat
  <2>1. \A i \in DOMAIN loops : loops[i] \in LoopLabels
    BY ElementOfSeq, LenProperties DEF Typing
  <2> QED BY <2>1 DEF LoopLabels
<1>14. loops # << >> => Len(loops) \in DOMAIN loops
  BY LenProperties, EmptySeq DEF Typing
<1>15. Around # {} => Loop.brk \in Nat /\ Loop.cont \in Nat
  BY LoopFacts
<1>16. CASE Break /\ loops # << >>
  <2> DEFINE j == [I("jmp", loops[Len(loops)].brk) EXCEPT !.want = Loop.brk]
  <2>1. j \in Instr
    BY <1>16, <1>13, <1>14, <1>15 DEF Break, I, Instr, Ops
  <2>2. Emit(RunBack(defers) \o <<j>>)
    BY <1>16 DEF Break
  <2> HIDE DEF j
  <2> QED BY <2>1, <2>2, <1>2, RunsAdd DEF Typing
<1>17. CASE Continue /\ loops # << >>
  <2> DEFINE j == [I("jmp", loops[Len(loops)].cont) EXCEPT !.want = Loop.cont]
  <2>1. j \in Instr
    BY <1>17, <1>13, <1>14, <1>15 DEF Continue, I, Instr, Ops
  <2>2. Emit(<<j>>)
    BY <1>17 DEF Continue
  <2> HIDE DEF j
  <2> QED BY <2>1, <2>2, <1>2, EmitAdds
<1>18. CASE Closing
  BY <1>18, ClosingEnds, Closed
<1> QED BY <1>4, <1>5, <1>6, <1>7, <1>10, <1>11, <1>12, <1>16, <1>17, <1>18, Zenon
        DEF Lower, Let, OpenBlock, Break, Continue, Closing

LEMMA CodeGrows ==
  ASSUME StackInv, Lower
  PROVE  code' \in Seq(Instr) /\ Len(code') \in Nat /\ Len(code) <= Len(code')
<1>1. PICK s \in Seq(Instr) : Adds(s)
  BY CodeStep
<1>2. PICK m \in Nat : Len(code) <= m /\ Len(code') = m + Len(s)
  BY <1>1 DEF Adds
<1> QED BY <1>1, <1>2, LenProperties DEF Adds, StackInv, Typing

LEMMA DefersStep ==
  ASSUME StackInv, Lower
  PROVE  /\ defers' \in Seq(Nat) /\ Len(defers') <= MaxDefers
         /\ \A i \in DOMAIN defers' : defers'[i] \in 1 .. Len(code')
<1> USE DEF StackInv, Typing, Bounds
<1>1. DOMAIN defers = 1 .. Len(defers) /\ Len(defers) \in Nat /\ Len(code) \in Nat
  BY LenProperties
<1>2. Len(code) <= Len(code') /\ Len(code') \in Nat
  BY CodeGrows
<1>3. CASE UNCHANGED defers
  BY <1>1, <1>2, <1>3
<1>4. CASE Defer
  <2>1. CASE Len(defers) < MaxDefers
    <3>1. defers' = Append(defers, Len(code) + 1)
      BY <1>4, <2>1 DEF Defer
    <3>2. /\ defers' \in Seq(Nat) /\ Len(defers') = Len(defers) + 1
          /\ \A i \in 1 .. Len(defers) : defers'[i] = defers[i]
          /\ defers'[Len(defers) + 1] = Len(code) + 1
      BY <3>1, <1>1, AppendProperties
    <3>3. Len(code) + 1 <= Len(code')
      <4>1. <<I("reg", Len(code) + 1)>> \in Seq(Instr) /\ Len(<<I("reg", Len(code) + 1)>>) = 1
        BY <1>1, Plain DEF Ops
      <4>2. code' = code \o <<I("reg", Len(code) + 1)>>
        BY <1>4 DEF Defer, Emit
      <4> QED BY <4>1, <4>2, <1>1, ConcatProperties
    <3>4. ASSUME NEW i \in DOMAIN defers' PROVE defers'[i] \in 1 .. Len(code')
      <4>1. DOMAIN defers' = 1 .. Len(defers) + 1
        BY <3>2, LenProperties
      <4>2. CASE i = Len(defers) + 1
        BY <4>2, <3>2, <3>3, <1>1, <1>2
      <4>3. CASE i # Len(defers) + 1
        <5>1. i \in DOMAIN defers /\ defers'[i] = defers[i]
          BY <1>1, <3>2, <4>1, <4>3
        <5> QED BY <5>1, <1>1, <1>2
      <4> QED BY <4>2, <4>3
    <3>5. Len(defers') <= MaxDefers
      BY <1>1, <2>1, <3>2, Limits
    <3> QED BY <3>2, <3>4, <3>5
  <2>2. CASE ~(Len(defers) < MaxDefers)
    <3>1. UNCHANGED defers
      BY <1>4, <2>2 DEF Defer
    <3> QED BY <3>1, <1>3
  <2> QED BY <2>1, <2>2
<1>5. CASE Closing
  <2>1. /\ Top \in BlockFrame /\ Top.defers <= Len(defers)
        /\ defers' \in Seq(Nat) /\ Len(defers') = Top.defers
        /\ \A i \in 1 .. Top.defers : defers'[i] = defers[i]
    BY <1>5, ClosingEnds, Closed, TopFacts
  <2>2. DOMAIN defers' = 1 .. Top.defers /\ Top.defers \in Nat
    BY <2>1, LenProperties DEF BlockFrame
  <2>3. \A i \in DOMAIN defers' : i \in DOMAIN defers /\ defers'[i] = defers[i]
    BY <1>1, <2>1, <2>2
  <2>4. Len(defers') <= MaxDefers
    BY <1>1, <2>1, <2>2, Limits
  <2> QED BY <1>1, <1>2, <2>1, <2>3, <2>4
<1> QED BY <1>3, <1>4, <1>5, Zenon
        DEF Lower, Let, Read, OpenFor, Return, Break, Continue, OpenBlock, OpenIf, OpenWhile, Closing

LEMMA LoopsStep ==
  ASSUME StackInv, Lower
  PROVE  /\ loops' \in Seq(LoopLabels) /\ Len(loops') <= MaxLoops
         /\ next_label' \in Nat /\ next_label <= next_label'
         /\ \A i \in DOMAIN loops' : loops'[i].brk < next_label' /\ loops'[i].cont < next_label'
<1> DEFINE Good == /\ loops' \in Seq(LoopLabels) /\ Len(loops') <= MaxLoops
                   /\ next_label' \in Nat /\ next_label <= next_label'
                   /\ \A i \in DOMAIN loops' : loops'[i].brk < next_label' /\ loops'[i].cont < next_label'
<1> USE DEF StackInv, Typing, Bounds
<1>1. DOMAIN loops = 1 .. Len(loops) /\ Len(loops) \in Nat
  BY LenProperties
<1>2. \A i \in DOMAIN loops : loops[i].brk \in Nat /\ loops[i].cont \in Nat
  <2>1. \A i \in DOMAIN loops : loops[i] \in LoopLabels
    BY <1>1, ElementOfSeq
  <2> QED BY <2>1 DEF LoopLabels
<1>3. ASSUME UNCHANGED loops, next_label' \in Nat, next_label <= next_label'
      PROVE  Good
  <2>1. \A i \in DOMAIN loops : loops[i].brk < next_label' /\ loops[i].cont < next_label'
    BY <1>2, <1>3
  <2> QED BY <1>3, <2>1
<1>4. ASSUME NEW brk \in Nat, NEW cont \in Nat, PushLoop(brk, cont),
             next_label' \in Nat, next_label <= next_label', brk < next_label', cont < next_label'
      PROVE  Good
  <2>1. CASE Len(loops) < MaxLoops
    <3> DEFINE x == [brk |-> brk, cont |-> cont]
    <3>1. x \in LoopLabels /\ x.brk = brk /\ x.cont = cont
      BY DEF LoopLabels
    <3>2. loops' = Append(loops, x)
      BY <1>4, <2>1 DEF PushLoop
    <3> HIDE DEF x
    <3>3. /\ loops' \in Seq(LoopLabels) /\ Len(loops') = Len(loops) + 1
          /\ \A i \in 1 .. Len(loops) : loops'[i] = loops[i]
          /\ loops'[Len(loops) + 1] = x
      BY <3>1, <3>2, AppendProperties
    <3>4. ASSUME NEW i \in DOMAIN loops'
          PROVE  loops'[i].brk < next_label' /\ loops'[i].cont < next_label'
      <4>1. DOMAIN loops' = 1 .. Len(loops) + 1
        BY <3>3, LenProperties
      <4>2. CASE i = Len(loops) + 1
        BY <4>2, <3>1, <3>3, <1>4
      <4>3. CASE i # Len(loops) + 1
        <5>1. i \in DOMAIN loops /\ loops'[i] = loops[i]
          BY <1>1, <3>3, <4>1, <4>3
        <5> QED BY <5>1, <1>2, <1>4
      <4> QED BY <4>2, <4>3
    <3>5. Len(loops') <= MaxLoops
      BY <1>1, <2>1, <3>3, Limits
    <3> QED BY <1>4, <3>3, <3>4, <3>5
  <2>2. CASE ~(Len(loops) < MaxLoops)
    <3>1. UNCHANGED loops
      BY <1>4, <2>2 DEF PushLoop
    <3> QED BY <3>1, <1>3, <1>4
  <2> QED BY <2>1, <2>2
<1>5. ASSUME PopLoop, UNCHANGED next_label
      PROVE  Good
  <2>1. CASE loops = << >>
    BY <1>3, <1>5, <2>1 DEF PopLoop
  <2>2. CASE loops # << >>
    <3>1. Len(loops) - 1 \in Nat
      BY <2>2, <1>1, EmptySeq
    <3>2. /\ loops' \in Seq(LoopLabels) /\ Len(loops') = Len(loops) - 1
          /\ \A i \in 1 .. Len(loops) - 1 : loops'[i] = loops[i]
      BY <3>1, <1>1, <1>5, <2>2, Prefix DEF PopLoop
    <3>3. DOMAIN loops' = 1 .. Len(loops) - 1
      BY <3>2, LenProperties
    <3>4. \A i \in DOMAIN loops' : i \in DOMAIN loops /\ loops'[i] = loops[i]
      BY <3>1, <3>2, <3>3, <1>1
    <3> QED BY <1>1, <1>5, <3>1, <3>2, <3>4, Limits
  <2> QED BY <2>1, <2>2
<1>6. CASE UNCHANGED <<loops, next_label>>
  BY <1>3, <1>6
<1>7. CASE OpenIf
  BY <1>3, <1>7 DEF OpenIf
<1>8. CASE OpenWhile
  <2>1. next_label' = next_label + 3 /\ PushLoop(next_label + 2, next_label)
    BY <1>8, OpenedWhile DEF OpenWhile
  <2>2. /\ next_label + 2 \in Nat /\ next_label' \in Nat /\ next_label <= next_label'
        /\ next_label + 2 < next_label' /\ next_label < next_label'
    BY <2>1
  <2> QED BY <2>1, <2>2, <1>4, Zenon
<1>9. ASSUME NEW n, OpenFor(n) PROVE Good
  <2>1. next_label' = next_label + 4 /\ PushLoop(next_label + 3, next_label + 2)
    BY <1>9, OpenedFor DEF OpenFor
  <2>2. /\ next_label + 3 \in Nat /\ next_label + 2 \in Nat /\ next_label' \in Nat
        /\ next_label <= next_label' /\ next_label + 3 < next_label' /\ next_label + 2 < next_label'
    BY <2>1
  <2> QED BY <2>1, <2>2, <1>4, Zenon
<1>10. CASE CloseWhile \/ CloseFor
  BY <1>5, <1>10 DEF CloseWhile, CloseFor, Close
<1>11. CASE CloseBlock \/ CloseThen \/ OpenElse \/ CloseElse \/ CloseFunc
  BY <1>6, <1>11, Zenon DEF CloseBlock, CloseThen, OpenElse, CloseElse, CloseFunc, Close
<1>12. ASSUME NEW n, Let(n) \/ Read(n) \/ Defer \/ Return \/ Break \/ Continue \/ OpenBlock
       PROVE  Good
  BY <1>6, <1>12, Zenon DEF Let, Read, Defer, Return, Break, Continue, OpenBlock
<1> QED BY <1>7, <1>8, <1>9, <1>10, <1>11, <1>12, Zenon DEF Lower

LEMMA FunctionIsSeq ==
  ASSUME NEW S, NEW n \in Nat, NEW f \in [1 .. n -> S]
  PROVE  f \in Seq(S) /\ Len(f) = n
OBVIOUS

(* The scopes of sema. *)
Scoped(sc, m) ==
    /\ sc \in Seq(Seq(Symbol))
    /\ \A k \in DOMAIN sc : \A i \in DOMAIN sc[k] : sc[k][i].slot \in 1 .. m

LEMMA ScopedPush ==
  ASSUME NEW sc, NEW m, Scoped(sc, m)
  PROVE  /\ Scoped(Append(sc, << >>), m)
         /\ Len(Append(sc, << >>)) = Len(sc) + 1
         /\ \A k \in 1 .. Len(sc) : Append(sc, << >>)[k] = sc[k]
         /\ Append(sc, << >>)[Len(sc) + 1] = << >>
<1> DEFINE t == Append(sc, << >>)
<1>1. << >> \in Seq(Symbol) /\ Len(<< >>) = 0 /\ DOMAIN << >> = {}
  OBVIOUS
<1>2. sc \in Seq(Seq(Symbol)) /\ DOMAIN sc = 1 .. Len(sc) /\ Len(sc) \in Nat
  BY LenProperties DEF Scoped
<1>3. /\ t \in Seq(Seq(Symbol)) /\ Len(t) = Len(sc) + 1
      /\ \A k \in 1 .. Len(sc) : t[k] = sc[k]
      /\ t[Len(sc) + 1] = << >>
  BY <1>1, <1>2, AppendProperties
<1> HIDE DEF t
<1>4. DOMAIN t = 1 .. Len(sc) + 1
  BY <1>3, LenProperties
<1>5. ASSUME NEW k \in DOMAIN t, NEW i \in DOMAIN t[k]
      PROVE  t[k][i].slot \in 1 .. m
  <2>1. k # Len(sc) + 1
    BY <1>1, <1>3, <1>5
  <2>2. k \in 1 .. Len(sc)
    BY <1>2, <1>4, <2>1
  <2>3. k \in DOMAIN sc /\ t[k] = sc[k]
    BY <1>2, <1>3, <2>2
  <2> QED BY <1>5, <2>3 DEF Scoped
<1>6. Scoped(t, m)
  BY <1>3, <1>5 DEF Scoped
<1> QED BY <1>3, <1>6 DEF t

LEMMA ScopedDefine ==
  ASSUME slots \in Nat, NEW n \in Names \cup LoopNames, NEW sc, Scoped(sc, slots)
  PROVE  /\ Scoped(Define(sc, n), slots + 1)
         /\ Len(Define(sc, n)) = Len(sc)
         /\ \A k \in 1 .. Len(sc) : k # Len(sc) => Define(sc, n)[k] = sc[k]
         /\ sc # << >> => Define(sc, n)[Len(sc)] = Append(sc[Len(sc)], [name |-> n, slot |-> slots + 1])
<1> DEFINE t == Define(sc, n)
           x == [name |-> n, slot |-> slots + 1]
<1>1. sc \in Seq(Seq(Symbol)) /\ DOMAIN sc = 1 .. Len(sc) /\ Len(sc) \in Nat
  BY LenProperties DEF Scoped
<1>2. x \in Symbol /\ x.slot = slots + 1
  BY DEF Symbol
<1>3. t = [sc EXCEPT ![Len(sc)] = Append(@, x)]
  BY DEF Define
<1> HIDE DEF t, x
<1>4. \A k \in 1 .. Len(sc) : sc[k] \in Seq(Symbol) /\ Append(sc[k], x) \in Seq(Symbol)
  BY <1>1, <1>2, ElementOfSeq, AppendProperties
<1>5. /\ DOMAIN t = 1 .. Len(sc)
      /\ \A k \in 1 .. Len(sc) : t[k] = IF k = Len(sc) THEN Append(sc[k], x) ELSE sc[k]
  BY <1>1, <1>3
<1>6. t \in [1 .. Len(sc) -> Seq(Symbol)]
  BY <1>1, <1>3, <1>4
<1>7. t \in Seq(Seq(Symbol)) /\ Len(t) = Len(sc)
  BY <1>1, <1>6
<1>8. ASSUME NEW k \in DOMAIN t, NEW i \in DOMAIN t[k]
      PROVE  t[k][i].slot \in 1 .. slots + 1
  <2>1. k \in DOMAIN sc
    BY <1>1, <1>5
  <2>2. \A j \in DOMAIN sc[k] : sc[k][j].slot \in 1 .. slots
    BY <2>1 DEF Scoped
  <2>3. sc[k] \in Seq(Symbol) /\ Len(sc[k]) \in Nat /\ DOMAIN sc[k] = 1 .. Len(sc[k])
    BY <1>1, <1>4, <2>1, LenProperties
  <2>4. CASE k # Len(sc)
    <3>1. i \in DOMAIN sc[k] /\ t[k][i] = sc[k][i]
      BY <1>1, <1>5, <1>8, <2>1, <2>4
    <3>2. sc[k][i].slot \in 1 .. slots
      BY <2>2, <3>1
    <3> QED BY <3>1, <3>2
  <2>5. CASE k = Len(sc)
    <3>1. t[k] = Append(sc[k], x)
      BY <1>1, <1>5, <2>1, <2>5
    <3>2. /\ Append(sc[k], x) \in Seq(Symbol) /\ Len(Append(sc[k], x)) = Len(sc[k]) + 1
          /\ \A j \in 1 .. Len(sc[k]) : Append(sc[k], x)[j] = sc[k][j]
          /\ Append(sc[k], x)[Len(sc[k]) + 1] = x
      BY <1>2, <2>3, AppendProperties
    <3>3. i \in 1 .. Len(sc[k]) + 1
      BY <1>8, <3>1, <3>2, LenProperties
    <3>4. CASE i = Len(sc[k]) + 1
      BY <1>2, <3>1, <3>2, <3>4
    <3>5. CASE i # Len(sc[k]) + 1
      <4>1. i \in DOMAIN sc[k] /\ t[k][i] = sc[k][i]
        BY <2>3, <3>1, <3>2, <3>3, <3>5
      <4> QED BY <2>2, <4>1
    <3> QED BY <3>4, <3>5
  <2> QED BY <2>4, <2>5
<1>9. Scoped(t, slots + 1)
  BY <1>7, <1>8 DEF Scoped
<1>10. sc # << >> => Len(sc) \in 1 .. Len(sc)
  BY <1>1, EmptySeq
<1> QED BY <1>5, <1>7, <1>9, <1>10 DEF t, x

LEMMA ScopedDrop ==
  ASSUME NEW sc, NEW m, Scoped(sc, m), NEW d \in Nat
  PROVE  /\ Scoped(SubSeq(sc, 1, Len(sc) - d), m)
         /\ Len(sc) >= d => Len(SubSeq(sc, 1, Len(sc) - d)) = Len(sc) - d
         /\ \A k \in 1 .. Len(sc) - d : SubSeq(sc, 1, Len(sc) - d)[k] = sc[k]
<1> DEFINE n == Len(sc) - d
           t == SubSeq(sc, 1, n)
<1>1. sc \in Seq(Seq(Symbol)) /\ DOMAIN sc = 1 .. Len(sc) /\ Len(sc) \in Nat
  BY LenProperties DEF Scoped
<1>2. /\ t \in Seq(Seq(Symbol)) /\ (n >= 0 => Len(t) = n) /\ (n < 0 => Len(t) = 0)
      /\ \A k \in 1 .. n : t[k] = sc[k]
  <2>1. n \in Int /\ n <= Len(sc)
    BY <1>1
  <2> HIDE DEF n
  <2> QED BY <1>1, <2>1, Prefix
<1> HIDE DEF t
<1>3. \A k \in DOMAIN t : k \in DOMAIN sc /\ t[k] = sc[k]
  <2>1. DOMAIN t = 1 .. Len(t)
    BY <1>2, LenProperties
  <2>2. n \in Int /\ n <= Len(sc)
    BY <1>1
  <2> HIDE DEF n
  <2>3. CASE n >= 0
    BY <1>1, <1>2, <2>1, <2>2, <2>3
  <2>4. CASE n < 0
    BY <1>2, <2>1, <2>4
  <2> QED BY <2>2, <2>3, <2>4
<1>4. Scoped(t, m)
  BY <1>2, <1>3 DEF Scoped
<1>5. Len(sc) >= d => n >= 0
  BY <1>1
<1> QED BY <1>2, <1>4, <1>5, Zenon DEF t

LEMMA ScopesStep ==
  ASSUME StackInv, Lower
  PROVE  Scoped(scopes', slots')
<1>1. slots \in Nat /\ Scoped(scopes, slots)
  BY DEF StackInv, Typing, Bounds, Scoped
<1>2. CASE UNCHANGED <<scopes, slots>>
  BY <1>1, <1>2
<1>3. ASSUME NEW n \in Names, Let(n) PROVE Scoped(scopes', slots')
  BY <1>1, <1>3, ScopedDefine DEF Let
<1>4. CASE OpenBlock \/ OpenIf \/ OpenWhile
  BY <1>1, <1>4, ScopedPush DEF OpenBlock, OpenIf, OpenWhile
<1>5. ASSUME NEW n \in LoopNames, OpenFor(n) PROVE Scoped(scopes', slots')
  <2>1. Scoped(Append(scopes, << >>), slots)
    BY <1>1, ScopedPush
  <2>2. Scoped(Define(Append(scopes, << >>), n), slots + 1)
    BY <1>1, <2>1, ScopedDefine
  <2> QED BY <1>5, <2>2, ScopedPush DEF OpenFor
<1>6. CASE OpenElse
  <2>1. scopes' = [scopes EXCEPT ![Len(scopes)] = << >>] /\ UNCHANGED slots
    BY <1>6 DEF OpenElse, Close
  <2>2. scopes \in Seq(Seq(Symbol)) /\ Len(scopes) \in Nat /\ DOMAIN scopes = 1 .. Len(scopes)
    BY <1>1, LenProperties DEF Scoped
  <2>3. \A k \in 1 .. Len(scopes) : scopes[k] \in Seq(Symbol)
    BY <2>2, ElementOfSeq
  <2>4. << >> \in Seq(Symbol) /\ DOMAIN << >> = {}
    OBVIOUS
  <2>5. scopes' \in [1 .. Len(scopes) -> Seq(Symbol)]
    BY <2>1, <2>2, <2>3, <2>4
  <2>6. scopes' \in Seq(Seq(Symbol))
    BY <2>2, <2>5, FunctionIsSeq, Zenon
  <2>7. \A k \in DOMAIN scopes' : k \in DOMAIN scopes /\ (scopes'[k] = scopes[k] \/ scopes'[k] = << >>)
    BY <2>1, <2>2
  <2>8. \A k \in DOMAIN scopes' : \A i \in DOMAIN scopes'[k] : scopes'[k][i].slot \in 1 .. slots'
    BY <1>1, <2>1, <2>4, <2>7 DEF Scoped
  <2> QED BY <2>6, <2>8 DEF Scoped
<1>7. ASSUME NEW d \in Nat, DropScopes(d), UNCHANGED slots PROVE Scoped(scopes', slots')
  BY <1>1, <1>7, ScopedDrop DEF DropScopes
<1>8. CASE CloseBlock \/ CloseThen \/ CloseElse \/ CloseWhile \/ CloseFor \/ CloseFunc
  <2>1. 1 \in Nat /\ 2 \in Nat
    OBVIOUS
  <2> QED BY <2>1, <1>7, <1>8, Zenon DEF CloseBlock, CloseThen, CloseElse, CloseWhile, CloseFor, CloseFunc, Close
<1> QED BY <1>2, <1>3, <1>4, <1>5, <1>6, <1>8, Zenon DEF Lower, Read, Defer, Return, Break, Continue

-----------------------------------------------------------------------------
(* The constructs that are open. *)

Mark(nl, nd) == [k |-> "block", locals |-> nl, defers |-> nd]

LEMMA StackGrows ==
  ASSUME NEW o, NEW nl \in Nat, NEW nd \in Nat, Stack(o, nl, nd),
         NEW ml \in Nat, NEW md \in Nat, nl <= ml, nd <= md
  PROVE  Stack(o, ml, md)
<1>1. DOMAIN o = 1 .. Len(o) /\ \A i \in DOMAIN o : o[i] \in Frame
  BY ElementOfSeq, LenProperties DEF Stack
<1>2. ASSUME NEW i \in DOMAIN o, o[i].k = "block" PROVE o[i].locals <= ml /\ o[i].defers <= md
  <2>1. o[i].locals \in Nat /\ o[i].defers \in Nat
    BY <1>1, <1>2 DEF Frame, BlockFrame, ThenFrame, ElseFrame, WhileFrame, ForFrame
  <2>2. o[i].locals <= nl /\ o[i].defers <= nd
    BY <1>2, Zenon DEF Stack, Saved
  <2> QED BY <2>1, <2>2
<1> QED BY <1>2, Zenon DEF Stack, Saved

(* A block begins in a block, directly or as the body of a construct f. *)
LEMMA StackBlock ==
  ASSUME NEW o, NEW nl \in Nat, NEW nd \in Nat, Stack(o, nl, nd)
  PROVE  Stack(Append(o, Mark(nl, nd)), nl, nd)
<1> DEFINE b == Mark(nl, nd)
           t == Append(o, b)
<1>1. b \in Frame /\ b.k = "block" /\ b.locals = nl /\ b.defers = nd
  BY DEF Frame, BlockFrame, Mark
<1> HIDE DEF b
<1>2. o \in Seq(Frame) /\ DOMAIN o = 1 .. Len(o) /\ Len(o) \in Nat
  BY LenProperties DEF Stack
<1>3. /\ t \in Seq(Frame) /\ Len(t) = Len(o) + 1
      /\ \A i \in 1 .. Len(o) : t[i] = o[i]
      /\ t[Len(o) + 1] = b
  BY <1>1, <1>2, AppendProperties
<1> HIDE DEF t
<1>4. /\ DOMAIN t = 1 .. Len(o) + 1
      /\ \A i \in DOMAIN t : \/ i \in DOMAIN o /\ t[i] = o[i]
                             \/ i = Len(o) + 1 /\ t[i] = b
  BY <1>2, <1>3, LenProperties
<1>5. Nesting(t)
  <2> SUFFICES ASSUME NEW i \in DOMAIN t, t[i].k # "block"
               PROVE  i > 1 /\ t[i - 1].k = "block" /\ i < Len(t) /\ t[i + 1].k = "block"
    BY DEF Nesting
  <2>1. i \in DOMAIN o /\ o[i].k # "block"
    BY <1>1, <1>4
  <2>2. i > 1 /\ o[i - 1].k = "block" /\ i < Len(o) /\ o[i + 1].k = "block"
    BY <2>1 DEF Stack, Nesting
  <2> QED BY <1>2, <1>3, <2>1, <2>2
<1>6. Saved(t, nl, nd)
  BY <1>1, <1>2, <1>4 DEF Stack, Saved
<1> QED BY <1>3, <1>5, <1>6 DEF Stack, t, b

LEMMA StackPair ==
  ASSUME NEW o, NEW nl \in Nat, NEW nd \in Nat, Stack(o, nl, nd),
         o # << >>, o[Len(o)].k = "block", NEW f \in Frame, f.k # "block"
  PROVE  Stack(o \o <<f, Mark(nl, nd)>>, nl, nd)
<1> DEFINE b == Mark(nl, nd)
           t == o \o <<f, b>>
<1>1. b \in Frame /\ b.k = "block" /\ b.locals = nl /\ b.defers = nd
  BY DEF Frame, BlockFrame, Mark
<1> HIDE DEF b
<1>2. o \in Seq(Frame) /\ DOMAIN o = 1 .. Len(o) /\ Len(o) \in Nat /\ Len(o) >= 1
  BY LenProperties, EmptySeq DEF Stack
<1>3. /\ t \in Seq(Frame) /\ Len(t) = Len(o) + 2
      /\ \A i \in 1 .. Len(o) : t[i] = o[i]
      /\ t[Len(o) + 1] = f /\ t[Len(o) + 2] = b
  BY <1>1, <1>2, PushTwo
<1> HIDE DEF t
<1>4. /\ DOMAIN t = 1 .. Len(o) + 2
      /\ \A i \in DOMAIN t : \/ i \in DOMAIN o /\ t[i] = o[i]
                             \/ i = Len(o) + 1 /\ t[i] = f
                             \/ i = Len(o) + 2 /\ t[i] = b
  BY <1>2, <1>3, LenProperties
<1>5. Nesting(t)
  <2> SUFFICES ASSUME NEW i \in DOMAIN t, t[i].k # "block"
               PROVE  i > 1 /\ t[i - 1].k = "block" /\ i < Len(t) /\ t[i + 1].k = "block"
    BY DEF Nesting
  <2>1. CASE i \in DOMAIN o /\ t[i] = o[i]
    <3>1. i > 1 /\ o[i - 1].k = "block" /\ i < Len(o) /\ o[i + 1].k = "block"
      BY <2>1 DEF Stack, Nesting
    <3> QED BY <1>2, <1>3, <2>1, <3>1
  <2>2. CASE i = Len(o) + 1
    <3>1. i > 1 /\ i < Len(t) /\ i - 1 = Len(o) /\ i + 1 = Len(o) + 2 /\ Len(o) \in 1 .. Len(o)
      BY <1>2, <1>3, <2>2
    <3> QED BY <1>1, <1>3, <3>1
  <2> QED BY <1>1, <1>4, <2>1, <2>2
<1>6. Saved(t, nl, nd)
  <2>1. ASSUME NEW i \in DOMAIN t, t[i].k = "block"
        PROVE  (i \in DOMAIN o /\ t[i] = o[i]) \/ (i = Len(o) + 2 /\ t[i] = b)
    <3>1. t[i] # f
      BY <2>1
    <3> QED BY <1>3, <1>4, <3>1, Zenon
  <2>2. Saved(o, nl, nd)
    BY DEF Stack
  <2>3. \A i \in DOMAIN t : t[i].k = "block" => t[i].locals <= nl /\ t[i].defers <= nd
    BY <1>1, <2>1, <2>2 DEF Saved
  <2>4. ASSUME NEW i \in DOMAIN t, NEW j \in DOMAIN t, t[i].k = "block", t[j].k = "block", i <= j
        PROVE  t[i].locals <= t[j].locals /\ t[i].defers <= t[j].defers
    <3>1. CASE t[j] = b
      BY <1>1, <2>3, <2>4, <3>1
    <3>2. CASE j \in DOMAIN o /\ t[j] = o[j]
      <4>1. i \in DOMAIN o /\ t[i] = o[i]
        BY <1>2, <2>1, <2>4, <3>2
      <4> QED BY <2>2, <2>4, <3>2, <4>1, Zenon DEF Saved
    <3> QED BY <2>1, <2>4, <3>1, <3>2
  <2> QED BY <2>3, <2>4, Zenon DEF Saved
<1> QED BY <1>3, <1>5, <1>6 DEF Stack, t, b

(* The end of a block, and of the construct it is the body of. *)
LEMMA StackDrop ==
  ASSUME NEW o, NEW nl \in Nat, NEW nd \in Nat, Stack(o, nl, nd),
         o # << >>, o[Len(o)].k = "block", NEW d \in 1 .. Len(o),
         d < Len(o) => o[Len(o) - d].k = "block"
  PROVE  Stack(SubSeq(o, 1, Len(o) - d), o[Len(o)].locals, o[Len(o)].defers)
<1> DEFINE n == Len(o) - d
           t == SubSeq(o, 1, n)
<1>1. o \in Seq(Frame) /\ DOMAIN o = 1 .. Len(o) /\ Len(o) \in Nat /\ Len(o) >= 1
  BY LenProperties, EmptySeq DEF Stack
<1>2. n \in Nat /\ n < Len(o) /\ (n > 0 => o[n].k = "block")
  BY <1>1
<1> HIDE DEF n
<1>3. /\ t \in Seq(Frame) /\ Len(t) = n
      /\ \A i \in 1 .. n : t[i] = o[i]
  BY <1>1, <1>2, Prefix
<1> HIDE DEF t
<1>4. DOMAIN t = 1 .. n /\ \A i \in DOMAIN t : i \in DOMAIN o /\ i < Len(o) /\ t[i] = o[i]
  BY <1>1, <1>2, <1>3, LenProperties
<1>5. Nesting(t)
  <2> SUFFICES ASSUME NEW i \in DOMAIN t, t[i].k # "block"
               PROVE  i > 1 /\ t[i - 1].k = "block" /\ i < Len(t) /\ t[i + 1].k = "block"
    BY DEF Nesting
  <2>1. i \in DOMAIN o /\ o[i].k # "block" /\ i \in 1 .. n
    BY <1>4
  <2>2. i > 1 /\ o[i - 1].k = "block" /\ i < Len(o) /\ o[i + 1].k = "block"
    BY <2>1 DEF Stack, Nesting
  <2>3. i < n
    BY <1>2, <1>4, <2>1
  <2> QED BY <1>2, <1>3, <2>1, <2>2, <2>3
<1>6. Saved(t, o[Len(o)].locals, o[Len(o)].defers)
  BY <1>1, <1>4 DEF Stack, Saved
<1> QED BY <1>3, <1>5, <1>6 DEF Stack, t, n

(* Unless a construct ends, the tables of locals and defers only grow. *)
LEMMA TablesGrow ==
  ASSUME StackInv, Lower, ~Closing
  PROVE  Len(locals) <= Len(locals') /\ Len(defers) <= Len(defers')
<1> USE DEF StackInv, Typing
<1>1. Len(locals) \in Nat /\ Len(defers) \in Nat
  BY LenProperties
<1>2. ASSUME NEW n \in Names \cup LoopNames, locals' = AddLocal(n)
      PROVE  Len(locals) <= Len(locals')
  <2>1. [name |-> n, slot |-> slots + 1] \in Symbol
    BY DEF Symbol
  <2>2. Len(Append(locals, [name |-> n, slot |-> slots + 1])) = Len(locals) + 1
    BY <2>1, AppendProperties
  <2> QED BY <1>1, <1>2, <2>2 DEF AddLocal
<1>3. CASE Defer
  <2>1. Len(code) + 1 \in Nat
    BY LenProperties
  <2>2. Len(Append(defers, Len(code) + 1)) = Len(defers) + 1
    BY <2>1, AppendProperties
  <2> QED BY <1>1, <1>3, <2>2 DEF Defer
<1>4. ASSUME NEW n \in Names \cup LoopNames, Let(n) \/ OpenFor(n)
      PROVE  Len(locals) <= Len(locals') /\ Len(defers) <= Len(defers')
  <2>1. locals' = AddLocal(n) /\ UNCHANGED defers
    BY <1>4 DEF Let, OpenFor
  <2> QED BY <1>1, <1>2, <2>1
<1>5. ASSUME NEW n, Read(n) \/ Return \/ Break \/ Continue \/ OpenBlock \/ OpenIf \/ OpenWhile
      PROVE  UNCHANGED <<locals, defers>>
  BY <1>5, Zenon DEF Read, Return, Break, Continue, OpenBlock, OpenIf, OpenWhile
<1>6. UNCHANGED <<locals, defers>> => Len(locals) <= Len(locals') /\ Len(defers) <= Len(defers')
  BY <1>1
<1> QED BY <1>3, <1>4, <1>5, <1>6, Zenon DEF Lower, Closing

(* What each end of a construct leaves open. *)
LEMMA ClosingOpen ==
  ASSUME StackInv, Closing
  PROVE  \E d \in 1 .. Len(open) :
            /\ d < Len(open) => open[Len(open) - d].k = "block"
            /\ \/ open' = SubSeq(open, 1, Len(open) - d)
               \/ OpenElse /\ d = 2 /\ Len(open) > 2
<1>1. open # << >> /\ Stack(open, Len(locals), Len(defers))
  BY ClosingEnds DEF StackInv
<1>2. Len(open) \in Nat /\ Len(open) >= 1 /\ DOMAIN open = 1 .. Len(open)
  BY <1>1, LenProperties, EmptySeq DEF Stack
<1>3. CASE CloseFunc
  <2>1. Len(open) = 1 /\ open' = << >>
    BY <1>3 DEF CloseFunc
  <2>2. SubSeq(open, 1, 0) = << >>
    BY SubSeqEmpty
  <2> QED BY <2>1, <2>2
<1>4. CASE CloseBlock
  <2>1. Len(open) > 1 /\ open[Len(open) - 1].k = "block" /\ open' = SubSeq(open, 1, Len(open) - 1)
    BY <1>4 DEF CloseBlock, InBody, Parent, DropOpen
  <2> QED BY <1>2, <2>1
<1>5. ASSUME NEW k, InBody(k), k # "block"
      PROVE  2 \in 1 .. Len(open) /\ 2 < Len(open) /\ open[Len(open) - 2].k = "block"
  <2>1. Len(open) > 1 /\ Len(open) - 1 \in DOMAIN open /\ open[Len(open) - 1].k # "block"
    BY <1>2, <1>5 DEF InBody, Parent
  <2>2. Len(open) - 1 > 1 /\ open[Len(open) - 1 - 1].k = "block"
    BY <1>1, <2>1 DEF Stack, Nesting
  <2> QED BY <1>2, <2>2
<1>6. CASE CloseThen \/ CloseElse \/ CloseWhile \/ CloseFor
  <2>1. /\ InBody("then") \/ InBody("else") \/ InBody("while") \/ InBody("for")
        /\ open' = SubSeq(open, 1, Len(open) - 2)
    BY <1>6 DEF CloseThen, CloseElse, CloseWhile, CloseFor, DropOpen
  <2> QED BY <1>5, <2>1
<1>7. CASE OpenElse
  BY <1>5, <1>7 DEF OpenElse
<1> QED BY <1>3, <1>4, <1>6, <1>7 DEF Closing

LEMMA OpenStep ==
  ASSUME StackInv, Lower
  PROVE  Stack(open', Len(locals'), Len(defers'))
<1>1. Stack(open, Len(locals), Len(defers))
  BY DEF StackInv
<1>2. /\ Len(locals) \in Nat /\ Len(defers) \in Nat /\ Len(locals') \in Nat /\ Len(defers') \in Nat
      /\ next_label \in Nat
  BY LocalsStep, DefersStep, LenProperties DEF StackInv, Typing
<1>3. ~Closing => Stack(open, Len(locals'), Len(defers'))
  BY <1>1, <1>2, TablesGrow, StackGrows
<1>4. open # << >> => open[Len(open)].k = "block"
  BY <1>1, TopFacts DEF Top, BlockFrame
<1>5. ASSUME NEW n, Let(n) \/ Read(n) \/ Defer \/ Return \/ Break \/ Continue
      PROVE  UNCHANGED open
  BY <1>5, Zenon DEF Let, Read, Defer, Return, Break, Continue
<1>6. ASSUME OpenBlock, ~Closing PROVE Stack(open', Len(locals'), Len(defers'))
  <2>1. open' = Append(open, Mark(Len(locals'), Len(defers')))
    BY <1>6 DEF OpenBlock, Body, Mark
  <2> QED BY <1>2, <1>3, <1>6, <2>1, StackBlock
<1>7. ASSUME NEW f \in Frame, f.k # "block", ~Closing, open # << >>,
             open' = open \o <<f, Mark(Len(locals'), Len(defers'))>>
      PROVE  Stack(open', Len(locals'), Len(defers'))
  BY <1>2, <1>3, <1>4, <1>7, StackPair
<1>8. ASSUME OpenIf, ~Closing PROVE Stack(open', Len(locals'), Len(defers'))
  <2> DEFINE f == [k |-> "then", el |-> next_label + 1, endl |-> next_label + 2]
  <2>1. f \in Frame /\ f.k # "block"
    BY <1>2 DEF Frame, ThenFrame
  <2>2. open' = open \o <<f, Mark(Len(locals'), Len(defers'))>>
    BY <1>8, OpenedIf DEF OpenIf, Body, Mark
  <2>3. open # << >>
    BY <1>8 DEF OpenIf, Statement
  <2> QED BY <1>7, <1>8, <2>1, <2>2, <2>3
<1>9. ASSUME OpenWhile, ~Closing PROVE Stack(open', Len(locals'), Len(defers'))
  <2> DEFINE f == [k |-> "while", brk |-> next_label + 2, cont |-> next_label]
  <2>1. f \in Frame /\ f.k # "block"
    BY <1>2 DEF Frame, WhileFrame
  <2>2. open' = open \o <<f, Mark(Len(locals'), Len(defers'))>>
    BY <1>9, OpenedWhile DEF OpenWhile, Body, Mark
  <2>3. open # << >>
    BY <1>9 DEF OpenWhile, Statement
  <2> QED BY <1>7, <1>9, <2>1, <2>2, <2>3
<1>10. ASSUME NEW n, OpenFor(n), ~Closing PROVE Stack(open', Len(locals'), Len(defers'))
  <2> DEFINE f == [k |-> "for", brk |-> next_label + 3, cont |-> next_label + 2, cl |-> next_label]
  <2>1. f \in Frame /\ f.k # "block"
    BY <1>2 DEF Frame, ForFrame
  <2>2. locals' = AddLocal(n) /\ UNCHANGED defers /\ open # << >>
    BY <1>10 DEF OpenFor, Statement
  <2>3. [Body(Len(defers)) EXCEPT !.locals = Len(AddLocal(n))] = Mark(Len(locals'), Len(defers'))
    BY <2>2 DEF Body, Mark
  <2>4. open' = open \o <<f, Mark(Len(locals'), Len(defers'))>>
    BY <1>10, <2>3, OpenedFor
  <2> QED BY <1>7, <1>10, <2>1, <2>2, <2>4
<1>11. CASE Closing
  <2>1. PICK d \in 1 .. Len(open) :
            /\ d < Len(open) => open[Len(open) - d].k = "block"
            /\ \/ open' = SubSeq(open, 1, Len(open) - d)
               \/ OpenElse /\ d = 2 /\ Len(open) > 2
    BY <1>11, ClosingOpen
  <2>2. open # << >> /\ Len(locals') = Top.locals /\ Len(defers') = Top.defers
    BY <1>11, ClosingEnds, Closed
  <2>3. Stack(SubSeq(open, 1, Len(open) - d), Len(locals'), Len(defers'))
    BY <1>1, <1>2, <1>4, <2>1, <2>2, StackDrop DEF Top
  <2>4. ASSUME OpenElse, d = 2, Len(open) > 2
        PROVE  Stack(open', Len(locals'), Len(defers'))
    <3> DEFINE f == [k |-> "else", endl |-> Parent.endl]
               p == SubSeq(open, 1, Len(open) - 2)
    <3>1. Parent.endl \in Nat
      BY <1>1, <2>2, <2>4, TopFacts DEF OpenElse, ThenFrame
    <3>2. f \in Frame /\ f.k # "block"
      BY <3>1 DEF Frame, ElseFrame
    <3>3. open' = p \o <<f, Mark(Len(locals'), Len(defers'))>>
      BY <2>2, <2>4 DEF OpenElse, DropOpen, Mark
    <3>4. open \in Seq(Frame) /\ Len(open) \in Nat
      BY <1>1, LenProperties DEF Stack
    <3>5. Len(p) = Len(open) - 2 /\ p[Len(open) - 2] = open[Len(open) - 2]
      <4>1. Len(open) - 2 \in Int /\ Len(open) - 2 <= Len(open) /\ Len(open) - 2 >= 0
            /\ Len(open) - 2 \in 1 .. Len(open) - 2
        BY <2>4, <3>4
      <4> QED BY <3>4, <4>1, Prefix
    <3>6. p # << >> /\ p[Len(p)].k = "block"
      <4> HIDE DEF p
      <4>1. open[Len(open) - 2].k = "block"
        BY <2>1, <2>4, Zenon
      <4>2. Len(p) # 0 /\ Len(<< >>) = 0
        BY <2>4, <3>4, <3>5
      <4> QED BY <3>5, <4>1, <4>2
    <3>7. Stack(p, Len(locals'), Len(defers'))
      BY <2>3, <2>4
    <3> HIDE DEF p, f
    <3> QED BY <1>2, <3>2, <3>3, <3>6, <3>7, StackPair
  <2> QED BY <2>1, <2>3, <2>4
<1> QED BY <1>3, <1>5, <1>6, <1>8, <1>9, <1>10, <1>11, Zenon DEF Lower, Closing

(* Every step keeps the tables and the stack of constructs well formed. *)
LEMMA StackStep ==
  ASSUME StackInv, [Next]_vars
  PROVE  StackInv'
<1>1. CASE Lower
  <2>1. Stack(open, Len(locals), Len(defers))' /\ (open \in Seq(Frame))'
    BY <1>1, OpenStep DEF Stack
  <2>2. /\ (phase \in {"lower", "run", "halt"})' /\ (excused \in BOOLEAN)' /\ (misrun \in BOOLEAN)'
        /\ (stmts \in 0 .. MaxStmts)'
    <3> USE DEF StackInv, Typing, Bounds, Statement, Close, runVars
    <3>1. CASE Closing
      BY <1>1, <3>1, ClosingEnds
    <3>2. ASSUME NEW n, \/ Let(n) \/ Read(n) \/ OpenFor(n) \/ Defer \/ Return \/ OpenBlock \/ OpenIf
                        \/ OpenWhile \/ Break \/ Continue
          PROVE  Statement /\ excused' \in BOOLEAN
      BY <3>2 DEF Let, Read, OpenFor, Defer, Return, OpenBlock, OpenIf, OpenWhile, Break, Continue
    <3>3. CASE Statement /\ excused' \in BOOLEAN
      BY <3>3, Limits
    <3> QED BY <1>1, <3>1, <3>2, <3>3, Zenon DEF Lower, Closing
  <2> QED BY <1>1, <2>1, <2>2, CodeGrows, LocalsStep, DefersStep, LoopsStep, ScopesStep, Zenon
          DEF StackInv, Typing, Bounds, Scoped
<1>2. CASE BeginRun \/ Execute \/ UNCHANGED vars
  <2>1. UNCHANGED lowerVars /\ phase' \in {"lower", "run", "halt"} /\ misrun' \in BOOLEAN
    BY <1>2 DEF BeginRun, Execute, vars, runVars, StackInv, Typing
  <2> QED BY <2>1 DEF StackInv, Typing, Bounds, Stack, Saved, Nesting, lowerVars
<1> QED BY <1>1, <1>2 DEF Next

LEMMA StackInit ==
  ASSUME Init
  PROVE  StackInv
<1>1. /\ << >> \in Seq(Instr) /\ << >> \in Seq(LoopLabels) /\ << >> \in Seq(Symbol) /\ << >> \in Seq(Nat)
      /\ Len(<< >>) = 0 /\ DOMAIN << >> = {}
  OBVIOUS
<1>2. scopes \in Seq(Seq(Symbol)) /\ \A k \in DOMAIN scopes : scopes[k] = << >>
  BY <1>1 DEF Init
<1>3. Stack(open, 0, 0)
  <2>1. open[1] \in Frame /\ open[1].k = "block" /\ open[1].locals = 0 /\ open[1].defers = 0
    BY DEF Init, Frame, BlockFrame
  <2>2. open \in Seq(Frame) /\ DOMAIN open = {1}
    BY <2>1 DEF Init
  <2> QED BY <2>1, <2>2 DEF Stack, Nesting, Saved
<1>4. Typing
  BY <1>1, <1>2, <1>3 DEF Init, Typing, Stack
<1>5. Bounds
  BY <1>1, <1>2, Limits DEF Init, Bounds
<1> QED BY <1>1, <1>3, <1>4, <1>5 DEF Init, StackInv

-----------------------------------------------------------------------------
(* Labels: each one that ir_new_label handed out is marked in the code or  *)
(* owed by one construct that is open.                                     *)

Marks(s, l) == \E i \in DOMAIN s : s[i].op = "label" /\ s[i].arg = l

MarksOnce(s) ==
    \A i, j \in DOMAIN s : s[i].op = "label" /\ s[j].op = "label" /\ s[i].arg = s[j].arg => i = j

Targets(s, n) == \A i \in DOMAIN s : s[i].op \in {"jmp", "jnz"} => s[i].arg < n

Owes(f, l) ==
    \/ f.k = "then" /\ l \in {f.el, f.endl}
    \/ f.k = "else" /\ l = f.endl
    \/ f.k = "while" /\ l = f.brk
    \/ f.k = "for" /\ l \in {f.cont, f.brk}

Owed(o, l) == \E i \in DOMAIN o : Owes(o[i], l)

OwedOnce(o) == \A i, j \in DOMAIN o : \A l \in Nat : Owes(o[i], l) /\ Owes(o[j], l) => i = j

(* The labels of a construct differ, and those it will jump to exist. *)
Distinct(o, n) ==
    \A i \in DOMAIN o :
        /\ o[i].k = "then" => o[i].el # o[i].endl
        /\ o[i].k = "while" => o[i].cont < n
        /\ o[i].k = "for" => o[i].cont # o[i].brk /\ o[i].cl < n

LabelInv ==
    /\ \A l \in Nat : Marks(code, l) \/ Owed(open, l) <=> l < next_label
    /\ \A l \in Nat : ~(Marks(code, l) /\ Owed(open, l))
    /\ MarksOnce(code) /\ Targets(code, next_label)
    /\ OwedOnce(open) /\ Distinct(open, next_label)

LEMMA AddsMarks ==
  ASSUME Typing, NEW s \in Seq(Instr), Adds(s)
  PROVE  /\ \A l \in Nat : Marks(code', l) <=> Marks(code, l) \/ Marks(s, l)
         /\ MarksOnce(code) /\ MarksOnce(s) /\ (\A l \in Nat : ~(Marks(code, l) /\ Marks(s, l)))
               => MarksOnce(code')
         /\ \A n \in Nat : Targets(code, n) /\ Targets(s, n) => Targets(code', n)
<1>1. PICK m \in Nat :
          /\ Len(code) <= m /\ Len(code') = m + Len(s)
          /\ \A i \in 1 .. Len(code) : code'[i] = code[i]
          /\ \A i \in Len(code) + 1 .. m : code'[i].op = "run"
          /\ \A i \in 1 .. Len(s) : code'[m + i] = s[i]
  BY DEF Adds
<1>2. /\ DOMAIN code = 1 .. Len(code) /\ Len(code) \in Nat
      /\ DOMAIN s = 1 .. Len(s) /\ Len(s) \in Nat
      /\ DOMAIN code' = 1 .. m + Len(s)
  BY <1>1, LenProperties DEF Typing, Adds
<1>3. ASSUME NEW i \in DOMAIN code'
      PROVE  \/ i \in DOMAIN code /\ code'[i] = code[i]
             \/ code'[i].op = "run"
             \/ i - m \in DOMAIN s /\ code'[i] = s[i - m]
  <2>1. CASE i <= Len(code)
    BY <1>1, <1>2, <2>1
  <2>2. CASE Len(code) < i /\ i <= m
    BY <1>1, <1>2, <2>2
  <2>3. CASE m < i
    <3>1. i - m \in 1 .. Len(s) /\ m + (i - m) = i
      BY <1>2, <2>3
    <3> QED BY <1>1, <1>2, <3>1
  <2> QED BY <1>1, <1>2, <2>1, <2>2, <2>3
<1>4. /\ \A i \in DOMAIN code : i \in DOMAIN code' /\ code'[i] = code[i]
      /\ \A i \in DOMAIN s : m + i \in DOMAIN code' /\ code'[m + i] = s[i]
  BY <1>1, <1>2
<1>5. \A i \in DOMAIN code : code[i].arg \in Nat
  <2>1. \A i \in DOMAIN code : code[i] \in Instr
    BY <1>2, ElementOfSeq DEF Typing
  <2> QED BY <2>1 DEF Instr
<1>6. \A i \in DOMAIN s : s[i].arg \in Nat
  <2>1. \A i \in DOMAIN s : s[i] \in Instr
    BY <1>2, ElementOfSeq
  <2> QED BY <2>1 DEF Instr
<1>7. ASSUME NEW l \in Nat
      PROVE  Marks(code', l) <=> Marks(code, l) \/ Marks(s, l)
  <2>1. Marks(code', l) => Marks(code, l) \/ Marks(s, l)
    BY <1>3 DEF Marks
  <2>2. Marks(code, l) => Marks(code', l)
    BY <1>4, Zenon DEF Marks
  <2>3. Marks(s, l) => Marks(code', l)
    BY <1>4, Zenon DEF Marks
  <2> QED BY <2>1, <2>2, <2>3
<1>8. ASSUME MarksOnce(code), MarksOnce(s), \A l \in Nat : ~(Marks(code, l) /\ Marks(s, l)),
             NEW i \in DOMAIN code', NEW j \in DOMAIN code',
             code'[i].op = "label", code'[j].op = "label", code'[i].arg = code'[j].arg
      PROVE  i = j
  <2>1. \/ i \in DOMAIN code /\ code'[i] = code[i]
        \/ i - m \in DOMAIN s /\ code'[i] = s[i - m]
    BY <1>3, <1>8
  <2>2. \/ j \in DOMAIN code /\ code'[j] = code[j]
        \/ j - m \in DOMAIN s /\ code'[j] = s[j - m]
    BY <1>3, <1>8
  <2>3. CASE i \in DOMAIN code /\ code'[i] = code[i] /\ j \in DOMAIN code /\ code'[j] = code[j]
    BY <1>8, <2>3, Zenon DEF MarksOnce
  <2>4. CASE i - m \in DOMAIN s /\ code'[i] = s[i - m] /\ j - m \in DOMAIN s /\ code'[j] = s[j - m]
    <3>1. i - m = j - m
      BY <1>8, <2>4, Zenon DEF MarksOnce
    <3> QED BY <1>2, <3>1
  <2>5. CASE i \in DOMAIN code /\ code'[i] = code[i] /\ j - m \in DOMAIN s /\ code'[j] = s[j - m]
    BY <1>5, <1>8, <2>5, Zenon DEF Marks
  <2>6. CASE i - m \in DOMAIN s /\ code'[i] = s[i - m] /\ j \in DOMAIN code /\ code'[j] = code[j]
    BY <1>5, <1>8, <2>6, Zenon DEF Marks
  <2> QED BY <2>1, <2>2, <2>3, <2>4, <2>5, <2>6, Zenon
<1>9. ASSUME NEW n \in Nat, Targets(code, n), Targets(s, n)
      PROVE  Targets(code', n)
  BY <1>3, <1>9 DEF Targets
<1> QED BY <1>7, <1>8, <1>9, Zenon DEF MarksOnce

(* What is marked and what is owed stay in balance. *)
LEMMA Balance ==
  ASSUME StackInv, LabelInv, NEW s \in Seq(Instr), Adds(s),
         next_label' \in Nat, next_label <= next_label',
         MarksOnce(s), Targets(s, next_label'), OwedOnce(open'), Distinct(open', next_label'),
         \A l \in Nat : Marks(s, l) \/ Owed(open', l)
                           <=> Owed(open, l) \/ (next_label <= l /\ l < next_label'),
         \A l \in Nat : ~(Marks(s, l) /\ Owed(open', l))
  PROVE  LabelInv'
<1>1. \A l \in Nat : Marks(code', l) <=> Marks(code, l) \/ Marks(s, l)
  BY AddsMarks DEF StackInv
<1>2. next_label \in Nat
  BY DEF StackInv, Typing
<1>3. \A l \in Nat : next_label <= l => ~Marks(code, l) /\ ~Owed(open, l)
  BY <1>2 DEF LabelInv
<1>4. \A l \in Nat : ~(Marks(code, l) /\ Marks(s, l)) /\ ~(Marks(code, l) /\ Owed(open', l))
  BY <1>3 DEF LabelInv
<1>5. \A l \in Nat : Marks(code', l) \/ Owed(open', l) <=> l < next_label'
  BY <1>1, <1>2 DEF LabelInv
<1>6. \A l \in Nat : ~(Marks(code', l) /\ Owed(open', l))
  BY <1>1, <1>4
<1>7. MarksOnce(code')
  BY <1>4, AddsMarks DEF StackInv, LabelInv
<1>8. Targets(code', next_label')
  <2>1. \A i \in DOMAIN code : code[i].arg \in Nat
    <3>1. \A i \in DOMAIN code : code[i] \in Instr
      BY ElementOfSeq, LenProperties DEF StackInv, Typing
    <3> QED BY <3>1 DEF Instr
  <2>2. Targets(code, next_label')
    BY <1>2, <2>1 DEF LabelInv, Targets
  <2> QED BY <2>2, AddsMarks DEF StackInv
<1> QED BY <1>5, <1>6, <1>7, <1>8 DEF LabelInv

(* A construct that begins owes its labels; its body owes none. *)
LEMMA OwedPair ==
  ASSUME NEW o \in Seq(Frame), NEW f \in Frame, NEW b \in BlockFrame
  PROVE  /\ \A l \in Nat : Owed(o \o <<f, b>>, l) <=> Owed(o, l) \/ Owes(f, l)
         /\ OwedOnce(o) /\ (\A l \in Nat : ~(Owed(o, l) /\ Owes(f, l))) => OwedOnce(o \o <<f, b>>)
         /\ \A n \in Nat : Distinct(o, n) /\ Distinct(<<f>>, n) => Distinct(o \o <<f, b>>, n)
<1> DEFINE t == o \o <<f, b>>
<1>1. b \in Frame /\ b.k = "block"
  BY DEF Frame, BlockFrame
<1>2. DOMAIN o = 1 .. Len(o) /\ Len(o) \in Nat
  BY LenProperties
<1>3. /\ t \in Seq(Frame) /\ Len(t) = Len(o) + 2
      /\ \A i \in 1 .. Len(o) : t[i] = o[i]
      /\ t[Len(o) + 1] = f /\ t[Len(o) + 2] = b
  BY <1>1, PushTwo
<1> HIDE DEF t
<1>4. DOMAIN t = 1 .. Len(o) + 2
  BY <1>3, LenProperties
<1>5. \A i \in DOMAIN t : \/ i \in DOMAIN o /\ t[i] = o[i]
                          \/ i = Len(o) + 1 /\ t[i] = f
                          \/ i = Len(o) + 2 /\ t[i] = b
  BY <1>2, <1>3, <1>4
<1>6. /\ \A i \in DOMAIN o : i \in DOMAIN t /\ t[i] = o[i]
      /\ Len(o) + 1 \in DOMAIN t /\ t[Len(o) + 1] = f
  BY <1>2, <1>3, <1>4
<1>7. \A l : ~Owes(b, l)
  BY <1>1 DEF Owes
<1>8. ASSUME NEW l \in Nat PROVE Owed(t, l) <=> Owed(o, l) \/ Owes(f, l)
  <2>1. Owed(t, l) => Owed(o, l) \/ Owes(f, l)
    BY <1>5, <1>7, Zenon DEF Owed
  <2>2. Owed(o, l) \/ Owes(f, l) => Owed(t, l)
    BY <1>6, Zenon DEF Owed
  <2> QED BY <2>1, <2>2
<1>9. ASSUME OwedOnce(o), \A l \in Nat : ~(Owed(o, l) /\ Owes(f, l)),
             NEW i \in DOMAIN t, NEW j \in DOMAIN t, NEW l \in Nat, Owes(t[i], l), Owes(t[j], l)
      PROVE  i = j
  <2>1. \/ i \in DOMAIN o /\ t[i] = o[i]
        \/ i = Len(o) + 1 /\ t[i] = f
    BY <1>5, <1>7, <1>9, Zenon
  <2>2. \/ j \in DOMAIN o /\ t[j] = o[j]
        \/ j = Len(o) + 1 /\ t[j] = f
    BY <1>5, <1>7, <1>9, Zenon
  <2> QED BY <1>9, <2>1, <2>2, Zenon DEF OwedOnce, Owed
<1>10. ASSUME NEW n \in Nat, Distinct(o, n), Distinct(<<f>>, n)
       PROVE  Distinct(t, n)
  <2>1. /\ f.k = "then" => f.el # f.endl
        /\ f.k = "while" => f.cont < n
        /\ f.k = "for" => f.cont # f.brk /\ f.cl < n
    BY <1>10 DEF Distinct
  <2>2. ASSUME NEW i \in DOMAIN t
        PROVE  /\ t[i].k = "then" => t[i].el # t[i].endl
               /\ t[i].k = "while" => t[i].cont < n
               /\ t[i].k = "for" => t[i].cont # t[i].brk /\ t[i].cl < n
    <3>1. CASE i \in DOMAIN o /\ t[i] = o[i]
      BY <1>10, <3>1, Zenon DEF Distinct
    <3>2. CASE t[i] = f
      BY <2>1, <3>2, Zenon
    <3>3. CASE t[i] = b
      BY <1>1, <3>3
    <3> QED BY <1>5, <3>1, <3>2, <3>3, Zenon
  <2> QED BY <2>2, Zenon DEF Distinct
<1> QED BY <1>8, <1>9, <1>10, Zenon DEF t, OwedOnce

(* The end of a block drops no debt, the end of a construct drops its own. *)
LEMMA OwedDrop ==
  ASSUME NEW o \in Seq(Frame), o # << >>, o[Len(o)].k = "block", OwedOnce(o), NEW d \in {1, 2}, d <= Len(o),
         NEW n \in Nat, Distinct(o, n)
  PROVE  /\ OwedOnce(SubSeq(o, 1, Len(o) - d)) /\ Distinct(SubSeq(o, 1, Len(o) - d), n)
         /\ d = 1 => \A l \in Nat : Owed(SubSeq(o, 1, Len(o) - d), l) <=> Owed(o, l)
         /\ d = 2 => \A l \in Nat : Owed(SubSeq(o, 1, Len(o) - d), l)
                                       <=> Owed(o, l) /\ ~Owes(o[Len(o) - 1], l)
         /\ d = 2 => \A l \in Nat : Owes(o[Len(o) - 1], l) => Owed(o, l)
<1> DEFINE t == SubSeq(o, 1, Len(o) - d)
<1>1. DOMAIN o = 1 .. Len(o) /\ Len(o) \in Nat /\ Len(o) >= 1
  BY LenProperties, EmptySeq
<1>2. Len(o) - d \in Nat /\ Len(o) - d <= Len(o) /\ Len(o) - d \in Int
  BY <1>1
<1>3. /\ t \in Seq(Frame) /\ Len(t) = Len(o) - d
      /\ \A i \in 1 .. Len(o) - d : t[i] = o[i]
  BY <1>2, Prefix
<1> HIDE DEF t
<1>4. DOMAIN t = 1 .. Len(o) - d
  BY <1>3, LenProperties
<1>5. \A i \in DOMAIN t : i \in DOMAIN o /\ t[i] = o[i] /\ i < Len(o) /\ i <= Len(o) - d
  BY <1>1, <1>2, <1>3, <1>4
<1>6. \A i \in DOMAIN o : \/ i \in DOMAIN t
                          \/ d = 2 /\ i = Len(o) - 1
                          \/ i = Len(o)
  BY <1>1, <1>4
<1>7. \A l : ~Owes(o[Len(o)], l)
  BY DEF Owes
<1>8. OwedOnce(t) /\ Distinct(t, n)
  BY <1>5, Zenon DEF OwedOnce, Distinct
<1>9. ASSUME d = 1, NEW l \in Nat PROVE Owed(t, l) <=> Owed(o, l)
  <2>1. 1 # 2
    OBVIOUS
  <2>2. Owed(o, l) => Owed(t, l)
    BY <1>5, <1>6, <1>7, <1>9, <2>1, Zenon DEF Owed
  <2>3. Owed(t, l) => Owed(o, l)
    BY <1>5, Zenon DEF Owed
  <2> QED BY <2>2, <2>3
<1>10. ASSUME d = 2, NEW l \in Nat
       PROVE  /\ Owed(t, l) <=> Owed(o, l) /\ ~Owes(o[Len(o) - 1], l)
              /\ Owes(o[Len(o) - 1], l) => Owed(o, l)
  <2>1. Len(o) - 1 \in DOMAIN o /\ \A i \in DOMAIN t : i # Len(o) - 1
    BY <1>1, <1>5, <1>10
  <2>2. Owed(o, l) /\ ~Owes(o[Len(o) - 1], l) => Owed(t, l)
    BY <1>5, <1>6, <1>7, Zenon DEF Owed
  <2>3. Owed(t, l) => Owed(o, l)
    BY <1>5, Zenon DEF Owed
  <2>4. Owed(t, l) => ~Owes(o[Len(o) - 1], l)
    BY <1>5, <2>1, Zenon DEF Owed, OwedOnce
  <2>5. Owes(o[Len(o) - 1], l) => Owed(o, l)
    BY <2>1, Zenon DEF Owed
  <2> QED BY <2>2, <2>3, <2>4, <2>5, Zenon
<1> QED BY <1>8, <1>9, <1>10, Zenon DEF t

(* The instructions of the constructs: which labels they mark, and which   *)
(* they jump to.                                                           *)
LEMMA NoMarks ==
  /\ \A l \in Nat : ~Marks(<< >>, l)
  /\ MarksOnce(<< >>) /\ \A n \in Nat : Targets(<< >>, n)
  /\ \A a : a.op # "label" => (\A l \in Nat : ~Marks(<<a>>, l)) /\ MarksOnce(<<a>>)
  /\ \A a, n : (a.op \in {"jmp", "jnz"} => a.arg < n) => Targets(<<a>>, n)
BY DEF Marks, MarksOnce, Targets

LEMMA Marks2 ==
  ASSUME NEW p \in Nat, NEW x \in Nat, NEW s, s = <<I("jmp", p), I("label", x)>>
  PROVE  /\ \A l \in Nat : Marks(s, l) <=> l = x
         /\ MarksOnce(s)
         /\ \A n \in Nat : p < n => Targets(s, n)
<1>1. DOMAIN s = {1, 2}
  BY DEF I
<1>2. /\ s[1].op = "jmp" /\ s[1].arg = p
      /\ s[2].op = "label" /\ s[2].arg = x
  BY DEF I
<1> QED BY <1>1, <1>2 DEF Marks, MarksOnce, Targets

LEMMA Marks3 ==
  ASSUME NEW p \in Nat, NEW q \in Nat, NEW x \in Nat, NEW s,
         s = <<I("jnz", p), I("jmp", q), I("label", x)>>
  PROVE  /\ \A l \in Nat : Marks(s, l) <=> l = x
         /\ MarksOnce(s)
         /\ \A n \in Nat : p < n /\ q < n => Targets(s, n)
<1>1. DOMAIN s = {1, 2, 3}
  BY DEF I
<1>2. /\ s[1].op = "jnz" /\ s[1].arg = p
      /\ s[2].op = "jmp" /\ s[2].arg = q
      /\ s[3].op = "label" /\ s[3].arg = x
  BY DEF I
<1> QED BY <1>1, <1>2 DEF Marks, MarksOnce, Targets

TwoLabels(p, x, q, y) == <<I("jmp", p), I("label", x), I("jmp", q), I("label", y)>>

LEMMA Marks4 ==
  ASSUME NEW p \in Nat, NEW x \in Nat, NEW q \in Nat, NEW y \in Nat, x # y
  PROVE  /\ \A l \in Nat : Marks(TwoLabels(p, x, q, y), l) <=> l = x \/ l = y
         /\ MarksOnce(TwoLabels(p, x, q, y))
         /\ \A n \in Nat : p < n /\ q < n => Targets(TwoLabels(p, x, q, y), n)
<1> DEFINE s == TwoLabels(p, x, q, y)
<1>1. DOMAIN s = {1, 2, 3, 4}
  BY DEF TwoLabels
<1>2. /\ s[1].op = "jmp" /\ s[1].arg = p
      /\ s[2].op = "label" /\ s[2].arg = x
      /\ s[3].op = "jmp" /\ s[3].arg = q
      /\ s[4].op = "label" /\ s[4].arg = y
  BY DEF I, TwoLabels
<1> HIDE DEF s
<1>3. MarksOnce(s)
  BY <1>1, <1>2 DEF MarksOnce
<1>4. \A l \in Nat : Marks(s, l) <=> l = x \/ l = y
  BY <1>1, <1>2 DEF Marks
<1>5. \A n \in Nat : p < n /\ q < n => Targets(s, n)
  BY <1>1, <1>2 DEF Targets
<1> QED BY <1>3, <1>4, <1>5 DEF s

LEMMA Marks5 ==
  ASSUME NEW b \in Nat, NEW r \in Nat, NEW s,
         s = <<I("jmp", b), I("label", b), I("jnz", b + 1), I("jmp", r), I("label", b + 1)>>
  PROVE  /\ \A l \in Nat : Marks(s, l) <=> l = b \/ l = b + 1
         /\ MarksOnce(s)
         /\ \A n \in Nat : b + 1 < n /\ r < n => Targets(s, n)
<1>1. DOMAIN s = {1, 2, 3, 4, 5}
  BY DEF I
<1>2. /\ s[1].op = "jmp" /\ s[1].arg = b
      /\ s[2].op = "label" /\ s[2].arg = b
      /\ s[3].op = "jnz" /\ s[3].arg = b + 1
      /\ s[4].op = "jmp" /\ s[4].arg = r
      /\ s[5].op = "label" /\ s[5].arg = b + 1
  BY DEF I
<1> HIDE DEF I
<1>3. MarksOnce(s)
  BY <1>1, <1>2 DEF MarksOnce
<1>4. \A l \in Nat : Marks(s, l) <=> l = b \/ l = b + 1
  BY <1>1, <1>2 DEF Marks
<1>5. \A n \in Nat : b + 1 < n /\ r < n => Targets(s, n)
  BY <1>1, <1>2 DEF Targets
<1> QED BY <1>3, <1>4, <1>5

LEMMA NoCode ==
  ASSUME Typing, UNCHANGED code
  PROVE  Adds(<< >>) /\ << >> \in Seq(Instr)
<1>1. << >> \in Seq(Instr) /\ Emit(<< >>)
  BY ConcatEmptySeq DEF Emit, Typing
<1> QED BY <1>1, EmitAdds

(* A step that hands out no label, marks none and owes what was owed. *)
LEMMA Steady ==
  ASSUME StackInv, LabelInv, NEW s \in Seq(Instr), Adds(s), UNCHANGED next_label,
         \A l \in Nat : ~Marks(s, l), MarksOnce(s), Targets(s, next_label),
         OwedOnce(open'), Distinct(open', next_label),
         \A l \in Nat : Owed(open', l) <=> Owed(open, l)
  PROVE  LabelInv'
<1>1. next_label \in Nat /\ \A l \in Nat : ~(next_label <= l /\ l < next_label)
  BY DEF StackInv, Typing
<1>2. next_label' \in Nat /\ next_label <= next_label' /\ next_label' = next_label
  BY <1>1
<1> QED BY <1>1, <1>2, Balance

LEMMA StraightLabels ==
  ASSUME StackInv, LabelInv, NEW n, Let(n) \/ Read(n) \/ Defer \/ Return \/ Break \/ Continue
  PROVE  LabelInv'
<1> USE DEF StackInv
<1>0. \A a \in Instr : <<a>> \in Seq(Instr)
  OBVIOUS
<1>1. /\ UNCHANGED open /\ UNCHANGED next_label
      /\ \A l \in Nat : Owed(open', l) <=> Owed(open, l)
      /\ OwedOnce(open') /\ Distinct(open', next_label)
  <2>1. UNCHANGED open /\ UNCHANGED next_label
    BY Zenon DEF Let, Read, Defer, Return, Break, Continue
  <2> QED BY <2>1 DEF LabelInv
<1>2. ASSUME UNCHANGED code PROVE LabelInv'
  BY <1>1, <1>2, NoCode, NoMarks, Steady DEF Typing
<1>3. ASSUME NEW a \in Instr, a.op # "label", a.op = "jmp" => a.arg < next_label, a.op # "jnz",
             Adds(<<a>>)
      PROVE  LabelInv'
  <2>1. <<a>> \in Seq(Instr)
    OBVIOUS
  <2>2. (\A l \in Nat : ~Marks(<<a>>, l)) /\ MarksOnce(<<a>>) /\ Targets(<<a>>, next_label)
    BY <1>3, NoMarks
  <2> QED BY <1>1, <1>3, <2>1, <2>2, Steady
<1>4. CASE Read(n)
  <2>1. ReadOf(n) \in Instr /\ ReadOf(n).op = "use"
    BY ReadType DEF ReadOf
  <2>2. Adds(<<ReadOf(n)>>)
    BY <1>0, <1>4, <2>1, EmitAdds DEF Read
  <2> QED BY <1>3, <2>1, <2>2
<1>5. CASE Defer
  <2> DEFINE a == I("reg", Len(code) + 1)
  <2>1. a \in Instr /\ a.op = "reg"
    BY LenProperties, Plain DEF Typing, Ops
  <2>2. Emit(<<a>>)
    BY <1>5 DEF Defer
  <2> HIDE DEF a
  <2>3. Adds(<<a>>)
    BY <1>0, <2>1, <2>2, EmitAdds
  <2> QED BY <1>3, <2>1, <2>3
<1>6. CASE Return
  <2> DEFINE a == I("ret", 0)
  <2>1. a \in Instr /\ a.op = "ret"
    BY Plain DEF Ops
  <2>2. Emit(RunBack(defers) \o <<a>>)
    BY <1>6 DEF Return
  <2> HIDE DEF a
  <2>3. Adds(<<a>>)
    BY <1>0, <2>1, <2>2, RunsAdd DEF Typing
  <2> QED BY <1>3, <2>1, <2>3
<1>7. loops # << >> => /\ loops[Len(loops)].brk \in Nat /\ loops[Len(loops)].brk < next_label
                       /\ loops[Len(loops)].cont \in Nat /\ loops[Len(loops)].cont < next_label
  <2>1. loops # << >> => Len(loops) \in DOMAIN loops /\ loops[Len(loops)] \in LoopLabels
    BY LenProperties, EmptySeq, ElementOfSeq DEF Typing
  <2> QED BY <2>1 DEF Bounds, LoopLabels
<1>8. Around # {} => Loop.brk \in Nat /\ Loop.cont \in Nat
  BY LoopFacts
<1>9. CASE Break /\ loops # << >>
  <2> DEFINE a == [I("jmp", loops[Len(loops)].brk) EXCEPT !.want = Loop.brk]
  <2>1. a \in Instr /\ a.op = "jmp" /\ a.arg < next_label
    BY <1>9, <1>7, <1>8 DEF Break, I, Instr, Ops
  <2>2. Emit(RunBack(defers) \o <<a>>)
    BY <1>9 DEF Break
  <2> HIDE DEF a
  <2>3. Adds(<<a>>)
    BY <1>0, <2>1, <2>2, RunsAdd DEF Typing
  <2> QED BY <1>3, <2>1, <2>3
<1>10. CASE Continue /\ loops # << >>
  <2> DEFINE a == [I("jmp", loops[Len(loops)].cont) EXCEPT !.want = Loop.cont]
  <2>1. a \in Instr /\ a.op = "jmp" /\ a.arg < next_label
    BY <1>10, <1>7, <1>8 DEF Continue, I, Instr, Ops
  <2>2. Emit(<<a>>)
    BY <1>10 DEF Continue
  <2> HIDE DEF a
  <2>3. Adds(<<a>>)
    BY <1>0, <2>1, <2>2, EmitAdds DEF Typing
  <2> QED BY <1>3, <2>1, <2>3
<1> QED BY <1>2, <1>4, <1>5, <1>6, <1>9, <1>10, Zenon DEF Let, Break, Continue

LEMMA OpeningLabels ==
  ASSUME StackInv, LabelInv, NEW n, OpenIf \/ OpenWhile \/ OpenFor(n)
  PROVE  LabelInv'
<1> USE DEF StackInv
<1>1. /\ next_label \in Nat /\ Typing /\ open \in Seq(Frame)
      /\ \A d \in {1, 2, 3, 4} : next_label + d \in Nat
  BY DEF Typing, Stack
<1>2. \A l \in Nat : Owed(open, l) => l < next_label
  BY DEF LabelInv
<1>3. Len(locals) \in Nat /\ Len(defers) \in Nat
  BY LenProperties DEF Typing
<1>4. ASSUME NEW f \in Frame, NEW b \in BlockFrame, open' = open \o <<f, b>>,
             NEW s \in Seq(Instr), Adds(s), next_label' \in Nat, next_label <= next_label',
             MarksOnce(s), Targets(s, next_label'), Distinct(<<f>>, next_label'),
             \A l \in Nat : Marks(s, l) \/ Owes(f, l) <=> next_label <= l /\ l < next_label',
             \A l \in Nat : ~(Marks(s, l) /\ Owes(f, l))
      PROVE  LabelInv'
  <2>1. \A l \in Nat : ~(Owed(open, l) /\ Owes(f, l)) /\ ~(Owed(open, l) /\ Marks(s, l))
    BY <1>1, <1>2, <1>4
  <2>2. OwedOnce(open) /\ Distinct(open, next_label')
    <3>1. \A i \in DOMAIN open : /\ open[i].k = "while" => open[i].cont \in Nat
                                 /\ open[i].k = "for" => open[i].cl \in Nat
      <4>1. \A i \in DOMAIN open : open[i] \in Frame
        BY <1>1, ElementOfSeq, LenProperties
      <4> QED BY <4>1 DEF Frame, BlockFrame, ThenFrame, ElseFrame, WhileFrame, ForFrame
    <3> QED BY <1>1, <1>4, <3>1 DEF LabelInv, Distinct
  <2>3. /\ \A l \in Nat : Owed(open', l) <=> Owed(open, l) \/ Owes(f, l)
        /\ OwedOnce(open') /\ Distinct(open', next_label')
    BY <1>1, <1>4, <2>1, <2>2, OwedPair
  <2>4. \A l \in Nat : Marks(s, l) \/ Owed(open', l)
                          <=> Owed(open, l) \/ (next_label <= l /\ l < next_label')
    BY <1>4, <2>3, Zenon
  <2>5. \A l \in Nat : ~(Marks(s, l) /\ Owed(open', l))
    BY <1>4, <2>1, <2>3, Zenon
  <2> QED BY <1>4, <2>3, <2>4, <2>5, Balance
<1>5. Body(Len(defers)) \in BlockFrame /\ \A m \in Nat : [Body(Len(defers)) EXCEPT !.locals = m] \in BlockFrame
  BY <1>3 DEF Body, BlockFrame
<1>6. CASE OpenIf
  <2> DEFINE s == <<I("jnz", next_label), I("jmp", next_label + 1), I("label", next_label)>>
             f == [k |-> "then", el |-> next_label + 1, endl |-> next_label + 2]
  <2>1. Emit(s) /\ open' = open \o <<f, Body(Len(defers))>> /\ next_label' = next_label + 3
    BY <1>6, OpenedIf DEF OpenIf
  <2>2. f \in Frame /\ Distinct(<<f>>, next_label')
    BY <1>1, <2>1 DEF Frame, ThenFrame, Distinct
  <2>3. s \in Seq(Instr)
    BY <1>1, Plain DEF Ops
  <2>4. /\ \A l \in Nat : Marks(s, l) <=> l = next_label
        /\ MarksOnce(s) /\ Targets(s, next_label')
    BY <1>1, <2>1, Marks3
  <2>5. \A l \in Nat : Owes(f, l) <=> l = next_label + 1 \/ l = next_label + 2
    BY DEF Owes
  <2> HIDE DEF s, f
  <2>6. Adds(s)
    BY <1>1, <2>1, <2>3, EmitAdds
  <2>7. /\ next_label' \in Nat /\ next_label <= next_label'
        /\ \A l \in Nat : l = next_label \/ l = next_label + 1 \/ l = next_label + 2
                             <=> next_label <= l /\ l < next_label'
        /\ \A l \in Nat : ~(l = next_label /\ (l = next_label + 1 \/ l = next_label + 2))
    BY <1>1, <2>1
  <2> QED BY <1>4, <1>5, <2>1, <2>2, <2>3, <2>4, <2>5, <2>6, <2>7
<1>7. CASE OpenWhile
  <2> DEFINE s == <<I("jmp", next_label), I("label", next_label), I("jnz", next_label + 1),
                    I("jmp", next_label + 2), I("label", next_label + 1)>>
             f == [k |-> "while", brk |-> next_label + 2, cont |-> next_label]
  <2>1. Emit(s) /\ open' = open \o <<f, Body(Len(defers))>> /\ next_label' = next_label + 3
    BY <1>7, OpenedWhile DEF OpenWhile
  <2>2. f \in Frame /\ Distinct(<<f>>, next_label')
    BY <1>1, <2>1 DEF Frame, WhileFrame, Distinct
  <2>3. s \in Seq(Instr)
    BY <1>1, Plain DEF Ops
  <2>4. /\ \A l \in Nat : Marks(s, l) <=> l = next_label \/ l = next_label + 1
        /\ MarksOnce(s) /\ Targets(s, next_label')
    BY <1>1, <2>1, Marks5
  <2>5. \A l \in Nat : Owes(f, l) <=> l = next_label + 2
    BY DEF Owes
  <2> HIDE DEF s, f
  <2>6. Adds(s)
    BY <1>1, <2>1, <2>3, EmitAdds
  <2>7. /\ next_label' \in Nat /\ next_label <= next_label'
        /\ \A l \in Nat : (l = next_label \/ l = next_label + 1) \/ l = next_label + 2
                             <=> next_label <= l /\ l < next_label'
        /\ \A l \in Nat : ~((l = next_label \/ l = next_label + 1) /\ l = next_label + 2)
    BY <1>1, <2>1
  <2> QED BY <1>4, <1>5, <2>1, <2>2, <2>3, <2>4, <2>5, <2>6, <2>7
<1>8. CASE OpenFor(n)
  <2> DEFINE s == <<I("jmp", next_label), I("label", next_label), I("jnz", next_label + 1),
                    I("jmp", next_label + 3), I("label", next_label + 1)>>
             f == [k |-> "for", brk |-> next_label + 3, cont |-> next_label + 2, cl |-> next_label]
             b == [Body(Len(defers)) EXCEPT !.locals = Len(AddLocal(n))]
  <2>1. Emit(s) /\ open' = open \o <<f, b>> /\ next_label' = next_label + 4 /\ locals' = AddLocal(n)
    BY <1>8, OpenedFor DEF OpenFor
  <2>2. f \in Frame /\ Distinct(<<f>>, next_label')
    BY <1>1, <2>1 DEF Frame, ForFrame, Distinct
  <2>3. s \in Seq(Instr)
    BY <1>1, Plain DEF Ops
  <2>4. /\ \A l \in Nat : Marks(s, l) <=> l = next_label \/ l = next_label + 1
        /\ MarksOnce(s) /\ Targets(s, next_label')
    BY <1>1, <2>1, Marks5
  <2>5. \A l \in Nat : Owes(f, l) <=> l = next_label + 2 \/ l = next_label + 3
    BY DEF Owes
  <2>6. b \in BlockFrame
    <3>1. n \in LoopNames \/ n \notin LoopNames
      OBVIOUS
    <3>2. [name |-> n, slot |-> slots + 1] \in [name : {n} \cup Names \cup LoopNames, slot : Nat]
      BY DEF Typing
    <3>3. locals \in Seq([name : {n} \cup Names \cup LoopNames, slot : Nat])
      <4>1. Symbol \subseteq [name : {n} \cup Names \cup LoopNames, slot : Nat]
        BY DEF Symbol
      <4> QED BY <4>1, SeqMonotonic DEF Typing
    <3>4. Len(AddLocal(n)) \in Nat
      BY <1>3, <3>2, <3>3, AppendProperties DEF AddLocal
    <3> QED BY <1>5, <3>4
  <2> HIDE DEF s, f, b
  <2>7. Adds(s)
    BY <1>1, <2>1, <2>3, EmitAdds
  <2>8. /\ next_label' \in Nat /\ next_label <= next_label'
        /\ \A l \in Nat : (l = next_label \/ l = next_label + 1) \/ (l = next_label + 2 \/ l = next_label + 3)
                             <=> next_label <= l /\ l < next_label'
        /\ \A l \in Nat : ~((l = next_label \/ l = next_label + 1) /\ (l = next_label + 2 \/ l = next_label + 3))
    BY <1>1, <2>1
  <2> QED BY <1>4, <2>1, <2>2, <2>3, <2>4, <2>5, <2>6, <2>7, <2>8
<1> QED BY <1>6, <1>7, <1>8

LEMMA BlockLabels ==
  ASSUME StackInv, LabelInv, OpenBlock
  PROVE  LabelInv'
<1> DEFINE b == Body(Len(defers))
           t == Append(open, b)
<1>1. open \in Seq(Frame) /\ DOMAIN open = 1 .. Len(open) /\ Len(open) \in Nat
  BY LenProperties DEF StackInv, Stack
<1>2. b \in Frame /\ b.k = "block"
  BY LenProperties DEF StackInv, Typing, Body, Frame, BlockFrame
<1>3. UNCHANGED <<code, next_label>> /\ open' = t
  BY DEF OpenBlock
<1> HIDE DEF b
<1>4. /\ t \in Seq(Frame) /\ Len(t) = Len(open) + 1
      /\ \A i \in 1 .. Len(open) : t[i] = open[i]
      /\ t[Len(open) + 1] = b
  BY <1>1, <1>2, AppendProperties
<1> HIDE DEF t
<1>5. /\ DOMAIN t = 1 .. Len(open) + 1
      /\ \A i \in DOMAIN t : (i \in DOMAIN open /\ t[i] = open[i]) \/ t[i] = b
      /\ \A i \in DOMAIN open : i \in DOMAIN t /\ t[i] = open[i]
  BY <1>1, <1>4, LenProperties
<1>6. \A l \in Nat : ~Owes(b, l)
  BY <1>2 DEF Owes
<1>7. \A l \in Nat : Owed(t, l) <=> Owed(open, l)
  BY <1>5, <1>6, Zenon DEF Owed
<1>8. OwedOnce(t)
  BY <1>5, <1>6, Zenon DEF OwedOnce, LabelInv
<1>9. Distinct(t, next_label)
  <2>1. b.k # "then" /\ b.k # "while" /\ b.k # "for"
    BY <1>2
  <2> QED BY <1>5, <2>1, Zenon DEF Distinct, LabelInv
<1>10. next_label \in Nat /\ Typing
  BY DEF StackInv, Typing
<1> QED BY <1>3, <1>7, <1>8, <1>9, <1>10, NoCode, NoMarks, Steady

LEMMA ClosingLabels ==
  ASSUME StackInv, LabelInv, Closing
  PROVE  LabelInv'
<1>1. open # << >> /\ Stack(open, Len(locals), Len(defers)) /\ open \in Seq(Frame)
  BY ClosingEnds DEF StackInv, Stack
<1>2. /\ Len(open) \in Nat /\ Len(open) >= 1 /\ DOMAIN open = 1 .. Len(open)
      /\ open[Len(open)].k = "block" /\ next_label \in Nat /\ UNCHANGED next_label
  BY <1>1, TopFacts, ClosingEnds, LenProperties DEF Top, BlockFrame, StackInv, Typing, Close
<1>3. OwedOnce(open) /\ Distinct(open, next_label)
  BY DEF LabelInv
<1>4. \A l \in Nat : Owed(open, l) => l < next_label
  BY DEF LabelInv
<1>5. ASSUME NEW s \in Seq(Instr), Adds(s), open' = SubSeq(open, 1, Len(open) - 1),
             \A l \in Nat : ~Marks(s, l), MarksOnce(s), Targets(s, next_label)
      PROVE  LabelInv'
  <2>1. /\ OwedOnce(open') /\ Distinct(open', next_label)
        /\ \A l \in Nat : Owed(open', l) <=> Owed(open, l)
    BY <1>1, <1>2, <1>3, <1>5, OwedDrop
  <2> QED BY <1>2, <1>5, <2>1, Steady
<1>6. CASE CloseBlock
  <2>1. Adds(<< >>) /\ open' = SubSeq(open, 1, Len(open) - 1)
    BY <1>1, <1>6, EndTypes, Closed DEF CloseBlock, DropOpen
  <2> QED BY <1>1, <1>2, <1>5, <2>1, EndTypes, NoMarks
<1>7. CASE CloseFunc
  <2> DEFINE a == I("ret", 0)
  <2>1. Len(open) = 1 /\ open' = << >> /\ Close(<<a>>)
    BY <1>7 DEF CloseFunc
  <2>2. a.op = "ret" /\ <<a>> \in Seq(Instr)
    BY <1>1, EndTypes, Plain DEF Ops
  <2> HIDE DEF a
  <2>3. Adds(<<a>>)
    BY <1>1, <2>1, <2>2, Closed
  <2>4. open' = SubSeq(open, 1, Len(open) - 1)
    BY <2>1, SubSeqEmpty
  <2>5. (\A l \in Nat : ~Marks(<<a>>, l)) /\ MarksOnce(<<a>>) /\ Targets(<<a>>, next_label)
    BY <2>2, NoMarks
  <2> QED BY <1>5, <2>2, <2>3, <2>4, <2>5
<1>8. ASSUME NEW k, InBody(k)
      PROVE  /\ Len(open) > 1 /\ Parent = open[Len(open) - 1] /\ Len(open) - 1 \in DOMAIN open
             /\ \A l \in Nat : Owes(Parent, l) => l < next_label
             /\ k = "then" => Parent.el # Parent.endl
             /\ k = "while" => Parent.cont < next_label
             /\ k = "for" => Parent.cont # Parent.brk /\ Parent.cl < next_label
  <2>1. /\ Len(open) > 1 /\ Parent = open[Len(open) - 1] /\ Len(open) - 1 \in DOMAIN open
        /\ Parent.k = k
    BY <1>2, <1>8 DEF InBody, Parent
  <2>2. \A l \in Nat : Owes(Parent, l) => l < next_label
    BY <1>4, <2>1, Zenon DEF Owed
  <2> QED BY <1>3, <2>1, <2>2, Zenon DEF Distinct
<1>9. ASSUME NEW s \in Seq(Instr), Adds(s), open' = SubSeq(open, 1, Len(open) - 2),
             NEW k, InBody(k), \A l \in Nat : Marks(s, l) <=> Owes(Parent, l),
             MarksOnce(s), Targets(s, next_label)
      PROVE  LabelInv'
  <2>1. 2 \in {1, 2} /\ 2 <= Len(open) /\ Parent = open[Len(open) - 1]
    BY <1>2, <1>8, <1>9
  <2>2. /\ OwedOnce(open') /\ Distinct(open', next_label)
        /\ \A l \in Nat : Owed(open', l) <=> Owed(open, l) /\ ~Owes(Parent, l)
        /\ \A l \in Nat : Owes(Parent, l) => Owed(open, l)
    BY <1>1, <1>2, <1>3, <1>9, <2>1, OwedDrop
  <2>3. /\ \A l \in Nat : Marks(s, l) \/ Owed(open', l)
                             <=> Owed(open, l) \/ (next_label <= l /\ l < next_label')
        /\ \A l \in Nat : ~(Marks(s, l) /\ Owed(open', l))
        /\ next_label' \in Nat /\ next_label <= next_label' /\ next_label' = next_label
    BY <1>2, <1>9, <2>2
  <2> QED BY <1>9, <2>2, <2>3, Balance
<1>10. CASE CloseThen
  <2> DEFINE s == <<I("jmp", Parent.endl), I("label", Parent.el), I("jmp", Parent.endl),
                    I("label", Parent.endl)>>
  <2>1. InBody("then") /\ open' = SubSeq(open, 1, Len(open) - 2) /\ s \in Seq(Instr) /\ Close(s)
    BY <1>1, <1>10, EndTypes DEF CloseThen, DropOpen
  <2>2. Adds(s)
    BY <1>1, <2>1, Closed
  <2>3. Parent.k = "then" /\ Parent.el \in Nat /\ Parent.endl \in Nat
    BY <1>1, <2>1, TopFacts DEF ThenFrame
  <2>4. \A l \in Nat : Owes(Parent, l) <=> l = Parent.el \/ l = Parent.endl
    BY <2>3 DEF Owes
  <2>5. Parent.endl < next_label /\ Parent.el # Parent.endl
    BY <1>8, <2>1, <2>3, <2>4
  <2>6. (\A l \in Nat : Marks(s, l) <=> Owes(Parent, l)) /\ MarksOnce(s) /\ Targets(s, next_label)
    <3>1. /\ \A l \in Nat : Marks(s, l) <=> l = Parent.el \/ l = Parent.endl
          /\ MarksOnce(s)
          /\ \A n \in Nat : Parent.endl < n /\ Parent.endl < n => Targets(s, n)
      <4>1. s = TwoLabels(Parent.endl, Parent.el, Parent.endl, Parent.endl)
        BY DEF TwoLabels
      <4> HIDE DEF s
      <4> QED BY <2>3, <2>5, <4>1, Marks4
    <3> HIDE DEF s
    <3> QED BY <1>2, <2>4, <2>5, <3>1, Zenon
  <2> HIDE DEF s
  <2> QED BY <1>9, <2>1, <2>2, <2>6
<1>11. CASE CloseElse
  <2> DEFINE s == <<I("jmp", Parent.endl), I("label", Parent.endl)>>
  <2>1. InBody("else") /\ open' = SubSeq(open, 1, Len(open) - 2) /\ s \in Seq(Instr) /\ Close(s)
    BY <1>1, <1>11, EndTypes DEF CloseElse, DropOpen
  <2>2. Adds(s)
    BY <1>1, <2>1, Closed
  <2>3. Parent.k = "else" /\ Parent.endl \in Nat
    BY <1>1, <2>1, TopFacts DEF ElseFrame
  <2>4. \A l \in Nat : Owes(Parent, l) <=> l = Parent.endl
    BY <2>3 DEF Owes
  <2>5. Parent.endl < next_label
    BY <1>8, <2>1, <2>3, <2>4
  <2>6. (\A l \in Nat : Marks(s, l) <=> Owes(Parent, l)) /\ MarksOnce(s) /\ Targets(s, next_label)
    BY <1>2, <2>3, <2>4, <2>5, Marks2
  <2> HIDE DEF s
  <2> QED BY <1>9, <2>1, <2>2, <2>6
<1>12. CASE CloseWhile
  <2> DEFINE s == <<I("jmp", Parent.cont), I("label", Parent.brk)>>
  <2>1. InBody("while") /\ open' = SubSeq(open, 1, Len(open) - 2) /\ s \in Seq(Instr) /\ Close(s)
    BY <1>1, <1>12, EndTypes DEF CloseWhile, DropOpen
  <2>2. Adds(s)
    BY <1>1, <2>1, Closed
  <2>3. Parent.k = "while" /\ Parent.brk \in Nat /\ Parent.cont \in Nat
    BY <1>1, <2>1, TopFacts DEF WhileFrame
  <2>4. \A l \in Nat : Owes(Parent, l) <=> l = Parent.brk
    BY <2>3 DEF Owes
  <2>5. Parent.cont < next_label
    BY <1>8, <2>1
  <2>6. (\A l \in Nat : Marks(s, l) <=> Owes(Parent, l)) /\ MarksOnce(s) /\ Targets(s, next_label)
    BY <1>2, <2>3, <2>4, <2>5, Marks2
  <2> HIDE DEF s
  <2> QED BY <1>9, <2>1, <2>2, <2>6
<1>13. CASE CloseFor
  <2> DEFINE s == <<I("jmp", Parent.cont), I("label", Parent.cont), I("jmp", Parent.cl),
                    I("label", Parent.brk)>>
  <2>1. InBody("for") /\ open' = SubSeq(open, 1, Len(open) - 2) /\ s \in Seq(Instr) /\ Close(s)
    BY <1>1, <1>13, EndTypes DEF CloseFor, DropOpen
  <2>2. Adds(s)
    BY <1>1, <2>1, Closed
  <2>3. Parent.k = "for" /\ Parent.brk \in Nat /\ Parent.cont \in Nat /\ Parent.cl \in Nat
    BY <1>1, <2>1, TopFacts DEF ForFrame
  <2>4. \A l \in Nat : Owes(Parent, l) <=> l = Parent.cont \/ l = Parent.brk
    BY <2>3 DEF Owes
  <2>5. Parent.cont < next_label /\ Parent.cl < next_label /\ Parent.cont # Parent.brk
    BY <1>8, <2>1, <2>3, <2>4
  <2>6. (\A l \in Nat : Marks(s, l) <=> Owes(Parent, l)) /\ MarksOnce(s) /\ Targets(s, next_label)
    <3>1. /\ \A l \in Nat : Marks(s, l) <=> l = Parent.cont \/ l = Parent.brk
          /\ MarksOnce(s)
          /\ \A n \in Nat : Parent.cont < n /\ Parent.cl < n => Targets(s, n)
      <4>1. s = TwoLabels(Parent.cont, Parent.cont, Parent.cl, Parent.brk)
        BY DEF TwoLabels
      <4> HIDE DEF s
      <4> QED BY <2>3, <2>5, <4>1, Marks4
    <3> HIDE DEF s
    <3> QED BY <1>2, <2>4, <2>5, <3>1, Zenon
  <2> HIDE DEF s
  <2> QED BY <1>9, <2>1, <2>2, <2>6
<1>14. CASE OpenElse
  <2> DEFINE s == <<I("jmp", Parent.endl), I("label", Parent.el)>>
             f == [k |-> "else", endl |-> Parent.endl]
             b == [k |-> "block", locals |-> Top.locals, defers |-> Top.defers]
             p == SubSeq(open, 1, Len(open) - 2)
  <2>1. InBody("then") /\ open' = p \o <<f, b>> /\ s \in Seq(Instr) /\ Close(s)
    BY <1>1, <1>14, EndTypes DEF OpenElse, DropOpen
  <2>2. Adds(s)
    BY <1>1, <2>1, Closed
  <2>3. Parent.k = "then" /\ Parent.el \in Nat /\ Parent.endl \in Nat
    BY <1>1, <2>1, TopFacts DEF ThenFrame
  <2>4. \A l \in Nat : Owes(Parent, l) <=> l = Parent.el \/ l = Parent.endl
    BY <2>3 DEF Owes
  <2>5. Parent.endl < next_label /\ Parent.el # Parent.endl
    BY <1>8, <2>1, <2>3, <2>4
  <2>6. (\A l \in Nat : Marks(s, l) <=> l = Parent.el) /\ MarksOnce(s) /\ Targets(s, next_label)
    BY <1>2, <2>3, <2>5, Marks2
  <2>7. f \in Frame /\ Distinct(<<f>>, next_label) /\ \A l \in Nat : Owes(f, l) <=> l = Parent.endl
    BY <2>3 DEF Frame, ElseFrame, Distinct, Owes
  <2>8. b \in BlockFrame
    BY <1>1, TopFacts DEF BlockFrame
  <2>9. /\ 2 \in {1, 2} /\ 2 <= Len(open) /\ Parent = open[Len(open) - 1]
        /\ Len(open) - 2 \in Int /\ Len(open) - 2 <= Len(open)
    BY <1>2, <1>8, <2>1
  <2>10. p \in Seq(Frame)
    BY <1>1, <2>9, Prefix
  <2>11. /\ OwedOnce(p) /\ Distinct(p, next_label)
         /\ \A l \in Nat : Owed(p, l) <=> Owed(open, l) /\ ~Owes(Parent, l)
         /\ \A l \in Nat : Owes(Parent, l) => Owed(open, l)
    BY <1>1, <1>2, <1>3, <2>9, OwedDrop
  <2> HIDE DEF s, f, b, p
  <2>12. \A l \in Nat : ~(Owed(p, l) /\ Owes(f, l))
    BY <2>4, <2>7, <2>11, Zenon
  <2>13. /\ OwedOnce(open') /\ Distinct(open', next_label)
         /\ \A l \in Nat : Owed(open', l) <=> Owed(p, l) \/ Owes(f, l)
    BY <1>2, <2>1, <2>7, <2>8, <2>10, <2>11, <2>12, OwedPair
  <2>14. \A l \in Nat : Marks(s, l) \/ Owed(open', l) <=> Owed(open, l)
    BY <2>4, <2>6, <2>7, <2>11, <2>13, Zenon
  <2>15. \A l \in Nat : ~(Marks(s, l) /\ Owed(open', l))
    BY <2>4, <2>5, <2>6, <2>7, <2>11, <2>13, Zenon
  <2>16. /\ next_label' \in Nat /\ next_label <= next_label' /\ next_label' = next_label
         /\ \A l \in Nat : ~(next_label <= l /\ l < next_label')
    BY <1>2
  <2>17. \A l \in Nat : Marks(s, l) \/ Owed(open', l)
                           <=> Owed(open, l) \/ (next_label <= l /\ l < next_label')
    BY <2>14, <2>16, Zenon
  <2> QED BY <2>1, <2>2, <2>6, <2>13, <2>15, <2>16, <2>17, Balance
<1> QED BY <1>6, <1>7, <1>10, <1>11, <1>12, <1>13, <1>14 DEF Closing

LEMMA LabelStep ==
  ASSUME StackInv, LabelInv, [Next]_vars
  PROVE  LabelInv'
<1>1. CASE Lower
  BY <1>1, StraightLabels, OpeningLabels, BlockLabels, ClosingLabels, Zenon DEF Lower, Closing
<1>2. CASE BeginRun \/ Execute \/ UNCHANGED vars
  <2>1. UNCHANGED <<code, open, next_label>>
    BY <1>2 DEF BeginRun, Execute, vars, lowerVars
  <2> QED BY <2>1 DEF LabelInv
<1> QED BY <1>1, <1>2 DEF Next

LEMMA LabelInit ==
  ASSUME Init
  PROVE  LabelInv
<1>1. DOMAIN code = {} /\ DOMAIN open = {1} /\ open[1].k = "block" /\ next_label = 0
  BY DEF Init
<1> QED BY <1>1 DEF LabelInv, Marks, MarksOnce, Targets, Owed, OwedOnce, Owes, Distinct

-----------------------------------------------------------------------------
(* Execution: it stays within the code, whose last instruction returns.    *)

RunInv ==
    /\ phase = "lower" => ip = 1
    /\ phase # "lower" => open = << >> /\ ip \in 1 .. Len(code)
    /\ open = << >> => code # << >> /\ code[Len(code)].op = "ret"

(* Only the end of the function leaves nothing open. *)
LEMMA StaysOpen ==
  ASSUME StackInv, Lower, ~CloseFunc
  PROVE  open' # << >>
<1>1. open \in Seq(Frame) /\ Nesting(open) /\ Len(open) \in Nat /\ Len(<< >>) = 0
  BY LenProperties DEF StackInv, Stack
<1>2. open' \in Seq(Frame)
  BY OpenStep DEF Stack
<1>3. ASSUME NEW n, Let(n) \/ Read(n) \/ Defer \/ Return \/ Break \/ Continue
      PROVE  open' # << >>
  BY <1>3, Zenon DEF Let, Read, Defer, Return, Break, Continue, Statement
<1>4. CASE OpenBlock
  <2>1. Body(Len(defers)) \in Frame
    BY LenProperties DEF StackInv, Typing, Body, Frame, BlockFrame
  <2> QED BY <1>1, <1>4, <2>1, AppendProperties DEF OpenBlock
<1>5. ASSUME NEW p \in Seq(Frame), NEW a, NEW b, open' = p \o <<a, b>>
      PROVE  open' # << >>
  <2> DEFINE S == {a, b} \cup Frame
  <2>1. <<a, b>> \in Seq(S) /\ Len(<<a, b>>) = 2
    OBVIOUS
  <2>2. p \in Seq(S)
    BY SeqMonotonic
  <2> HIDE DEF S
  <2>3. Len(p) \in Nat /\ Len(open') = Len(p) + Len(<<a, b>>)
    BY <1>5, <2>1, <2>2, ConcatProperties, LenProperties
  <2> QED BY <1>1, <2>1, <2>3
<1>6. CASE OpenIf \/ OpenWhile \/ \E n : OpenFor(n)
  BY <1>1, <1>5, <1>6, OpenedIf, OpenedWhile, OpenedFor
<1>7. ASSUME NEW k, InBody(k)
      PROVE  /\ Len(open) - 1 \in Nat \ {0} /\ Len(open) - 1 <= Len(open)
             /\ k # "block" => Len(open) - 2 \in Nat \ {0} /\ Len(open) - 2 <= Len(open)
  <2>1. Len(open) > 1 /\ Len(open) - 1 \in DOMAIN open /\ open[Len(open) - 1].k = k
    BY <1>1, <1>7, LenProperties DEF InBody, Parent
  <2>2. k # "block" => Len(open) - 1 > 1
    BY <1>1, <2>1, Zenon DEF Nesting
  <2>3. Len(open) - 1 \in Nat \ {0} /\ Len(open) - 1 <= Len(open)
    BY <1>1, <2>1
  <2>4. \A m \in Nat : m - 1 > 1 => m - 2 \in Nat \ {0} /\ m - 2 <= m
    <3>1. \A m \in Nat : m - 1 > 1 => m - 2 \in Nat /\ m - 2 # 0 /\ m - 2 <= m
      OBVIOUS
    <3> QED BY <3>1, Zenon
  <2> QED BY <1>1, <2>2, <2>3, <2>4, Zenon
<1>8. CASE CloseBlock
  <2>1. InBody("block") /\ open' = SubSeq(open, 1, Len(open) - 1)
    BY <1>8 DEF CloseBlock, DropOpen
  <2>2. Len(open) - 1 \in Int /\ Len(open) - 1 # 0 /\ Len(open) - 1 >= 0 /\ Len(open) - 1 <= Len(open)
    BY <1>7, <2>1
  <2>3. Len(open') # 0
    BY <1>1, <2>1, <2>2, Prefix, Zenon
  <2> QED BY <1>1, <2>3
<1>9. CASE CloseThen \/ CloseElse \/ CloseWhile \/ CloseFor
  <2>1. /\ InBody("then") \/ InBody("else") \/ InBody("while") \/ InBody("for")
        /\ open' = SubSeq(open, 1, Len(open) - 2)
    BY <1>9 DEF CloseThen, CloseElse, CloseWhile, CloseFor, DropOpen
  <2>2. Len(open) - 2 \in Int /\ Len(open) - 2 # 0 /\ Len(open) - 2 >= 0 /\ Len(open) - 2 <= Len(open)
    BY <1>7, <2>1
  <2>3. Len(open') # 0
    BY <1>1, <2>1, <2>2, Prefix, Zenon
  <2> QED BY <1>1, <2>3
<1>10. CASE OpenElse
  <2>1. InBody("then") /\ SubSeq(open, 1, Len(open) - 2) \in Seq(Frame)
    BY <1>1, <1>7, <1>10, Prefix DEF OpenElse
  <2> QED BY <1>5, <1>10, <2>1 DEF OpenElse, DropOpen
<1> QED BY <1>3, <1>4, <1>6, <1>8, <1>9, <1>10, Zenon DEF Lower

LEMMA RunStep ==
  ASSUME StackInv, LabelInv, RunInv, [Next]_vars
  PROVE  RunInv'
<1>1. Len(code) \in Nat /\ DOMAIN code = 1 .. Len(code)
  BY LenProperties DEF StackInv, Typing
<1>2. CASE Lower
  <2>1. phase = "lower" /\ UNCHANGED <<phase, ip>>
    <3>1. ASSUME NEW n, Let(n) \/ Read(n) \/ OpenFor(n) \/ Defer \/ Return \/ OpenBlock \/ OpenIf
                        \/ OpenWhile \/ Break \/ Continue
          PROVE  Statement
      BY <3>1 DEF Let, Read, OpenFor, Defer, Return, OpenBlock, OpenIf, OpenWhile, Break, Continue
    <3>2. CASE Statement
      BY <3>2 DEF Statement, runVars
    <3>3. CASE Closing
      BY <3>3, ClosingEnds DEF Close, runVars
    <3> QED BY <1>2, <3>1, <3>2, <3>3, Zenon DEF Lower, Closing
  <2>2. CASE CloseFunc
    <3> DEFINE a == I("ret", 0)
    <3>1. a.op = "ret" /\ <<a>> \in Seq(Instr) /\ Len(<<a>>) = 1 /\ <<a>>[1] = a
      BY ClosingEnds, <2>2, EndTypes, Plain DEF Ops, Closing
    <3>2. Close(<<a>>) /\ open # << >>
      BY <2>2, ClosingEnds DEF CloseFunc, Closing
    <3> HIDE DEF a
    <3>3. Adds(<<a>>)
      BY <3>1, <3>2, Closed
    <3>4. PICK m \in Nat : Len(code') = m + Len(<<a>>) /\ \A i \in 1 .. Len(<<a>>) : code'[m + i] = <<a>>[i]
      BY <3>3, Zenon DEF Adds
    <3>5. Len(code') = m + 1 /\ code'[Len(code')].op = "ret" /\ code' # << >>
      BY <3>1, <3>4
    <3> QED BY <2>1, <3>5 DEF RunInv
  <2>3. CASE ~CloseFunc
    BY <1>2, <2>1, <2>3, StaysOpen DEF RunInv
  <2> QED BY <2>2, <2>3
<1>3. CASE BeginRun
  <2>1. open = << >> /\ ip = 1 /\ code # << >> /\ code[Len(code)].op = "ret" /\ UNCHANGED <<open, code, ip>>
    BY <1>3 DEF BeginRun, RunInv, lowerVars, runVars
  <2>2. Len(code) # 0
    BY <2>1, EmptySeq DEF StackInv, Typing
  <2> QED BY <1>1, <1>3, <2>1, <2>2 DEF RunInv, BeginRun
<1>4. CASE Execute
  <2>1. /\ open = << >> /\ ip \in 1 .. Len(code) /\ code[Len(code)].op = "ret"
        /\ UNCHANGED <<open, code>> /\ phase' # "lower"
    BY <1>4 DEF Execute, RunInv, lowerVars
  <2>2. ASSUME NEW i \in DOMAIN code, code[i].op \in {"jmp", "jnz"}
        PROVE  LabelAt(code[i].arg) \in DOMAIN code
    <3>1. code[i] \in Instr
      BY <1>1, ElementOfSeq DEF StackInv, Typing
    <3>2. code[i].arg \in Nat /\ code[i].arg < next_label
      BY <2>2, <3>1 DEF LabelInv, Targets, Instr
    <3>3. Marks(code, code[i].arg)
      <4>1. DOMAIN open = {}
        BY <2>1
      <4> QED BY <3>2, <4>1 DEF LabelInv, Owed
    <3> QED BY <3>3, Zenon DEF LabelAt, Marks
  <2>3. CASE code[ip].op \in {"jmp", "jnz"} /\ ip' = LabelAt(code[ip].arg)
    BY <1>1, <2>1, <2>2, <2>3 DEF RunInv
  <2>4. CASE code[ip].op \notin {"jmp", "ret"} /\ ip' = ip + 1
    <3>1. ip # Len(code)
      BY <2>1, <2>4
    <3>2. ip + 1 \in 1 .. Len(code)
      <4>1. \A m \in Nat : \A i \in 1 .. m : i # m => i + 1 \in 1 .. m
        OBVIOUS
      <4> QED BY <1>1, <2>1, <3>1, <4>1, Zenon
    <3>3. ip' \in 1 .. Len(code') /\ open' = << >> /\ code'[Len(code')].op = "ret" /\ code' # << >>
      BY <2>1, <2>4, <3>2, EmptySeq DEF StackInv, Typing, RunInv
    <3> QED BY <2>1, <3>3, Zenon DEF RunInv
  <2>5. CASE ip' = ip
    BY <2>1, <2>5 DEF RunInv
  <2>6. \/ code[ip].op \in {"jmp", "jnz"} /\ ip' = LabelAt(code[ip].arg)
        \/ code[ip].op \notin {"jmp", "ret"} /\ ip' = ip + 1
        \/ ip' = ip
    BY <1>4 DEF Execute
  <2> QED BY <2>3, <2>4, <2>5, <2>6
<1>5. CASE UNCHANGED vars
  BY <1>5 DEF vars, lowerVars, runVars, RunInv
<1> QED BY <1>2, <1>3, <1>4, <1>5 DEF Next

LEMMA Invariants == Spec => [](StackInv /\ LabelInv /\ RunInv)
<1>1. Init => StackInv /\ LabelInv /\ RunInv
  <2>1. ASSUME Init PROVE RunInv
    BY <2>1 DEF Init, RunInv
  <2> QED BY <2>1, StackInit, LabelInit
<1>2. StackInv /\ LabelInv /\ RunInv /\ [Next]_vars => (StackInv /\ LabelInv /\ RunInv)'
  BY StackStep, LabelStep, RunStep
<1> QED BY <1>1, <1>2, PTL DEF Spec

-----------------------------------------------------------------------------
(* The tables of CGCtx stay within their arrays, what a construct saved on *)
(* entry lies within what is there, and the execution stays in the code.   *)
THEOREM TypeInvariant == Spec => []TypeOK
<1>1. ASSUME StackInv, RunInv PROVE TypeOK
  <2> USE DEF StackInv, Typing, Bounds
  <2>1. \A s : s \in Symbol /\ s.slot \in 1 .. slots => s \in Local
    BY DEF Symbol, Local
  <2>2. \A i \in DOMAIN locals : locals[i] \in Local
    BY <1>1, <2>1, ElementOfSeq, LenProperties
  <2>3. \A k \in DOMAIN scopes : \A i \in DOMAIN scopes[k] : scopes[k][i] \in Local
    <3>1. \A k \in DOMAIN scopes : scopes[k] \in Seq(Symbol)
      BY <1>1, ElementOfSeq, LenProperties
    <3>2. \A k \in DOMAIN scopes : \A i \in DOMAIN scopes[k] : scopes[k][i] \in Symbol
      BY <3>1, ElementOfSeq, LenProperties
    <3> QED BY <1>1, <2>1, <3>2
  <2>4. \A i \in DOMAIN loops : {loops[i].brk, loops[i].cont} \subseteq 0 .. next_label - 1
    <3>1. \A i \in DOMAIN loops : loops[i] \in LoopLabels
      BY <1>1, ElementOfSeq, LenProperties
    <3> QED BY <1>1, <3>1 DEF LoopLabels
  <2>5. \A i \in DOMAIN open : open[i].k = "block" =>
           open[i].locals \in 0 .. Len(locals) /\ open[i].defers \in 0 .. Len(defers)
    <3>1. \A i \in DOMAIN open : open[i] \in Frame
      BY <1>1, ElementOfSeq, LenProperties
    <3>2. \A i \in DOMAIN open : open[i].k = "block" => open[i].locals \in Nat /\ open[i].defers \in Nat
      BY <3>1 DEF Frame, BlockFrame, ThenFrame, ElseFrame, WhileFrame, ForFrame
    <3>3. Len(locals) \in Nat /\ Len(defers) \in Nat
      BY <1>1, LenProperties
    <3> QED BY <1>1, <3>2, <3>3 DEF Stack, Saved
  <2>6. ip \in 1 .. Len(code) + 1
    <3>1. Len(code) \in Nat
      BY <1>1, LenProperties
    <3> QED BY <1>1, <3>1 DEF RunInv
  <2> QED BY <1>1, <2>2, <2>3, <2>4, <2>5, <2>6 DEF TypeOK
<1> QED BY <1>1, Invariants, PTL

(* In the code of a finished function every label that ir_new_label handed *)
(* out marks exactly one place: the tables of label offsets in the         *)
(* backends have neither a missing nor a repeated entry.                   *)
THEOREM LabelsAreDefinedOnce == Spec => []LabelsDefinedOnce
<1>1. ASSUME StackInv, LabelInv PROVE LabelsDefinedOnce
  <2> SUFFICES ASSUME open = << >>, NEW l \in 0 .. next_label - 1
               PROVE  Cardinality({i \in DOMAIN code : code[i].op = "label" /\ code[i].arg = l}) = 1
    BY DEF LabelsDefinedOnce
  <2>1. l \in Nat /\ l < next_label /\ DOMAIN open = {}
    BY <1>1 DEF StackInv, Typing
  <2>2. Marks(code, l)
    BY <1>1, <2>1 DEF LabelInv, Owed
  <2>3. PICK i \in DOMAIN code : code[i].op = "label" /\ code[i].arg = l
    BY <2>2 DEF Marks
  <2>4. {j \in DOMAIN code : code[j].op = "label" /\ code[j].arg = l} = {i}
    BY <1>1, <2>3 DEF LabelInv, MarksOnce
  <2> QED BY <2>4, FS_Singleton
<1> QED BY <1>1, Invariants, PTL

-----------------------------------------------------------------------------
(* Loops: the labels kept for break and continue are those of the loops    *)
(* that are open, in their order.                                          *)

LoopsOf(o) == {i \in DOMAIN o : o[i].k \in {"while", "for"}}

Paired(o, ls) ==
    \E f \in [1 .. Len(ls) -> LoopsOf(o)] :
        /\ \A i, j \in 1 .. Len(ls) : i < j => f[i] < f[j]
        /\ \A k \in LoopsOf(o) : \E j \in 1 .. Len(ls) : f[j] = k
        /\ \A j \in 1 .. Len(ls) : ls[j].brk = o[f[j]].brk /\ ls[j].cont = o[f[j]].cont

Aimed(s) == \A i \in DOMAIN s : s[i].op = "jmp" => s[i].arg = s[i].want

LoopInv == Paired(open, loops) /\ Aimed(code)

(* A loop begins only where break_labels and continue_labels have room. *)
LoopsFit == OpenWhile \/ (\E n \in LoopNames : OpenFor(n)) => Len(loops) < MaxLoops

(* The pairing goes on when no loop begins or ends, *)
LEMMA PairedSame ==
  ASSUME NEW o, NEW ls, Paired(o, ls), NEW t, LoopsOf(t) = LoopsOf(o), \A i \in LoopsOf(o) : t[i] = o[i]
  PROVE  Paired(t, ls)
<1>1. PICK f \in [1 .. Len(ls) -> LoopsOf(o)] :
        /\ \A i, j \in 1 .. Len(ls) : i < j => f[i] < f[j]
        /\ \A k \in LoopsOf(o) : \E j \in 1 .. Len(ls) : f[j] = k
        /\ \A j \in 1 .. Len(ls) : ls[j].brk = o[f[j]].brk /\ ls[j].cont = o[f[j]].cont
  BY DEF Paired
<1>2. \A j \in 1 .. Len(ls) : t[f[j]] = o[f[j]]
  BY <1>1
<1> QED BY <1>1, <1>2 DEF Paired

(* when one begins inside the others, *)
LEMMA PairedPush ==
  ASSUME NEW o, NEW ls \in Seq(LoopLabels), Paired(o, ls), LoopsOf(o) \subseteq Nat, NEW t, NEW m \in Nat,
         LoopsOf(t) = LoopsOf(o) \cup {m}, \A i \in LoopsOf(o) : i < m /\ t[i] = o[i],
         NEW x \in LoopLabels, x.brk = t[m].brk, x.cont = t[m].cont
  PROVE  Paired(t, Append(ls, x))
<1> DEFINE n == Len(ls)
           ms == Append(ls, x)
<1>1. PICK f \in [1 .. n -> LoopsOf(o)] :
        /\ \A i, j \in 1 .. n : i < j => f[i] < f[j]
        /\ \A k \in LoopsOf(o) : \E j \in 1 .. n : f[j] = k
        /\ \A j \in 1 .. n : ls[j].brk = o[f[j]].brk /\ ls[j].cont = o[f[j]].cont
  BY DEF Paired
<1> DEFINE g == [j \in 1 .. n + 1 |-> IF j = n + 1 THEN m ELSE f[j]]
<1>2. n \in Nat /\ Len(ms) = n + 1 /\ (\A i \in 1 .. n : ms[i] = ls[i]) /\ ms[n + 1] = x
  BY LenProperties, AppendProperties
<1> HIDE DEF ms, n
<1>3. /\ \A j \in 1 .. n : j \in 1 .. n + 1 /\ g[j] = f[j] /\ f[j] \in LoopsOf(o)
      /\ n + 1 \in 1 .. n + 1 /\ g[n + 1] = m
      /\ \A j \in 1 .. n + 1 : j \in 1 .. n \/ j = n + 1
  BY <1>1, <1>2
<1>4. g \in [1 .. n + 1 -> LoopsOf(t)]
  BY <1>3
<1> HIDE DEF g
<1>5. ASSUME NEW i \in 1 .. n + 1, NEW j \in 1 .. n + 1, i < j PROVE g[i] < g[j]
  <2>1. i \in 1 .. n
    BY <1>2, <1>5
  <2>2. CASE j = n + 1
    BY <1>3, <2>1, <2>2
  <2>3. CASE j # n + 1
    BY <1>1, <1>3, <1>5, <2>1, <2>3
  <2> QED BY <2>2, <2>3
<1>6. ASSUME NEW k \in LoopsOf(t) PROVE \E j \in 1 .. n + 1 : g[j] = k
  <2>1. CASE k = m
    BY <1>3, <2>1
  <2>2. CASE k \in LoopsOf(o)
    BY <1>1, <1>3, <2>2
  <2> QED BY <2>1, <2>2
<1>7. ASSUME NEW j \in 1 .. n + 1 PROVE ms[j].brk = t[g[j]].brk /\ ms[j].cont = t[g[j]].cont
  <2>1. CASE j = n + 1
    BY <1>2, <1>3, <2>1
  <2>2. CASE j \in 1 .. n
    <3>1. ms[j] = ls[j] /\ g[j] = f[j] /\ t[f[j]] = o[f[j]]
      BY <1>2, <1>3, <2>2
    <3> QED BY <1>1, <2>2, <3>1
  <2> QED BY <1>3, <2>1, <2>2
<1>8. Paired(t, ms)
  <2>1. Len(ms) = n + 1
    BY <1>2
  <2>2. g \in [1 .. Len(ms) -> LoopsOf(t)]
    BY <1>4, <2>1, Zenon
  <2>3. \A i, j \in 1 .. Len(ms) : i < j => g[i] < g[j]
    BY <1>5, <2>1, Zenon
  <2>4. \A k \in LoopsOf(t) : \E j \in 1 .. Len(ms) : g[j] = k
    BY <1>6, <2>1, Zenon
  <2>5. \A j \in 1 .. Len(ms) : ms[j].brk = t[g[j]].brk /\ ms[j].cont = t[g[j]].cont
    BY <1>7, <2>1, Zenon
  <2> QED BY <2>2, <2>3, <2>4, <2>5, Zenon DEF Paired
<1> QED BY <1>8 DEF ms

(* and when the innermost one ends. *)
LEMMA PairedPop ==
  ASSUME NEW o, NEW ls \in Seq(LoopLabels), Paired(o, ls), LoopsOf(o) \subseteq Nat, NEW t, NEW m \in LoopsOf(o),
         LoopsOf(t) = LoopsOf(o) \ {m}, \A i \in LoopsOf(o) : i <= m, \A i \in LoopsOf(t) : t[i] = o[i]
  PROVE  ls # << >> /\ Paired(t, SubSeq(ls, 1, Len(ls) - 1))
<1> DEFINE n == Len(ls)
           ms == SubSeq(ls, 1, n - 1)
<1>1. PICK f \in [1 .. n -> LoopsOf(o)] :
        /\ \A i, j \in 1 .. n : i < j => f[i] < f[j]
        /\ \A k \in LoopsOf(o) : \E j \in 1 .. n : f[j] = k
        /\ \A j \in 1 .. n : ls[j].brk = o[f[j]].brk /\ ls[j].cont = o[f[j]].cont
  BY DEF Paired
<1>2. n \in Nat
  BY LenProperties
<1>3. PICK q \in 1 .. n : f[q] = m
  BY <1>1
<1>4. n >= 1 /\ n - 1 \in Nat /\ n - 1 <= n /\ n - 1 \in Int /\ n - 1 >= 0
  BY <1>2, <1>3
<1>5. Len(ms) = n - 1 /\ \A i \in 1 .. n - 1 : ms[i] = ls[i]
  BY <1>4, Prefix
<1>6. ls # << >>
  BY <1>4
<1> HIDE DEF ms, n
<1>7. q = n
  <2>1. CASE q < n
    <3>1. n \in 1 .. n /\ f[n] \in LoopsOf(o) /\ f[q] < f[n]
      BY <1>1, <1>2, <1>4, <2>1
    <3>2. f[n] <= m /\ f[n] \in Nat /\ m \in Nat
      BY <3>1
    <3> QED BY <1>3, <3>1, <3>2
  <2> QED BY <1>2, <2>1
<1> DEFINE g == [j \in 1 .. n - 1 |-> f[j]]
<1>8. \A j \in 1 .. n - 1 : j \in 1 .. n /\ j < n /\ g[j] = f[j]
  <2>1. \A j \in 1 .. n - 1 : j \in 1 .. n /\ j < n
    BY <1>2
  <2> QED BY <2>1, Zenon
<1>9. ASSUME NEW j \in 1 .. n - 1 PROVE f[j] \in LoopsOf(t)
  <2>1. j \in 1 .. n /\ j < n /\ n \in 1 .. n
    BY <1>2, <1>8
  <2>2. f[j] < f[n] /\ f[j] \in LoopsOf(o) /\ f[n] = m
    BY <1>1, <1>3, <1>7, <2>1
  <2>3. f[j] # m
    BY <2>2
  <2> QED BY <2>2, <2>3
<1>10. g \in [1 .. n - 1 -> LoopsOf(t)]
  BY <1>9
<1> HIDE DEF g
<1>11. \A i, j \in 1 .. n - 1 : i < j => g[i] < g[j]
  BY <1>1, <1>8
<1>12. ASSUME NEW k \in LoopsOf(t) PROVE \E j \in 1 .. n - 1 : g[j] = k
  <2>1. PICK j \in 1 .. n : f[j] = k
    BY <1>1
  <2>2. j # n
    BY <1>3, <1>7, <2>1
  <2>3. j \in 1 .. n - 1
    <3>1. \A i \in 1 .. n : i # n => i \in 1 .. n - 1
      BY <1>2
    <3> QED BY <2>2, <3>1
  <2> QED BY <1>8, <2>1, <2>3
<1>13. \A j \in 1 .. n - 1 : ms[j].brk = t[g[j]].brk /\ ms[j].cont = t[g[j]].cont
  BY <1>1, <1>5, <1>8, <1>9
<1>14. Paired(t, ms)
  <2>1. Len(ms) = n - 1
    BY <1>5
  <2>2. g \in [1 .. Len(ms) -> LoopsOf(t)]
    BY <1>10, <2>1, Zenon
  <2>3. \A i, j \in 1 .. Len(ms) : i < j => g[i] < g[j]
    BY <1>11, <2>1, Zenon
  <2>4. \A k \in LoopsOf(t) : \E j \in 1 .. Len(ms) : g[j] = k
    BY <1>12, <2>1, Zenon
  <2>5. \A j \in 1 .. Len(ms) : ms[j].brk = t[g[j]].brk /\ ms[j].cont = t[g[j]].cont
    BY <1>13, <2>1, Zenon
  <2> QED BY <2>2, <2>3, <2>4, <2>5, Zenon DEF Paired
<1> QED BY <1>6, <1>14 DEF ms, n

(* The innermost pair. *)
LEMMA PairedLast ==
  ASSUME StackInv, Paired(open, loops), Around # {}
  PROVE  /\ loops # << >>
         /\ loops[Len(loops)].brk = Loop.brk /\ loops[Len(loops)].cont = Loop.cont
<1>1. Around = LoopsOf(open)
  BY DEF Around, LoopsOf
<1>2. PICK f \in [1 .. Len(loops) -> Around] :
        /\ \A i, j \in 1 .. Len(loops) : i < j => f[i] < f[j]
        /\ \A k \in Around : \E j \in 1 .. Len(loops) : f[j] = k
        /\ \A j \in 1 .. Len(loops) : loops[j].brk = open[f[j]].brk /\ loops[j].cont = open[f[j]].cont
  BY <1>1 DEF Paired
<1>3. Len(loops) \in Nat /\ Around \subseteq Nat
  BY LenProperties DEF StackInv, Typing, Stack, Around
<1>4. LastOf(Around) \in Around /\ \A i \in Around : i <= LastOf(Around)
  BY LoopFacts
<1>5. PICK q \in 1 .. Len(loops) : f[q] = LastOf(Around)
  BY <1>2, <1>4
<1>6. Len(loops) \in 1 .. Len(loops) /\ f[Len(loops)] \in Around
  BY <1>2, <1>3, <1>5
<1>7. q = Len(loops)
  <2>1. CASE q < Len(loops)
    <3>1. f[q] < f[Len(loops)] /\ f[Len(loops)] <= LastOf(Around)
      BY <1>2, <1>4, <1>6, <2>1
    <3>2. \A a, b \in Nat : ~(a < b /\ b <= a)
      OBVIOUS
    <3> QED BY <1>3, <1>4, <1>5, <1>6, <3>1, <3>2
  <2> QED BY <1>3, <2>1
<1>8. loops # << >>
  BY <1>6
<1> QED BY <1>2, <1>5, <1>6, <1>7, <1>8 DEF Loop

IsLoop(f) == f.k \in {"while", "for"}

(* The loops open when a construct begins, and when a block ends. *)
LEMMA LoopsPair ==
  ASSUME NEW o \in Seq(Frame), NEW f \in Frame, NEW b \in BlockFrame
  PROVE  /\ IsLoop(f) => LoopsOf(o \o <<f, b>>) = LoopsOf(o) \cup {Len(o) + 1}
         /\ ~IsLoop(f) => LoopsOf(o \o <<f, b>>) = LoopsOf(o)
         /\ \A i \in LoopsOf(o) : i < Len(o) + 1 /\ (o \o <<f, b>>)[i] = o[i]
         /\ (o \o <<f, b>>)[Len(o) + 1] = f
<1> DEFINE t == o \o <<f, b>>
<1>1. b \in Frame /\ b.k = "block"
  BY DEF Frame, BlockFrame
<1>2. DOMAIN o = 1 .. Len(o) /\ Len(o) \in Nat
  BY LenProperties
<1>3. /\ t \in Seq(Frame) /\ Len(t) = Len(o) + 2
      /\ \A i \in 1 .. Len(o) : t[i] = o[i]
      /\ t[Len(o) + 1] = f /\ t[Len(o) + 2] = b
  BY <1>1, PushTwo
<1> HIDE DEF t
<1>4. DOMAIN t = 1 .. Len(o) + 2
  BY <1>3, LenProperties
<1>5. \A i \in DOMAIN t : \/ i \in DOMAIN o /\ t[i] = o[i]
                          \/ i = Len(o) + 1 /\ t[i] = f
                          \/ i = Len(o) + 2 /\ t[i] = b
  BY <1>2, <1>3, <1>4
<1>6. /\ \A i \in DOMAIN o : i \in DOMAIN t /\ t[i] = o[i] /\ i < Len(o) + 1
      /\ Len(o) + 1 \in DOMAIN t /\ t[Len(o) + 1] = f
  BY <1>2, <1>3, <1>4
<1>7. b.k \notin {"while", "for"}
  BY <1>1
<1>8. IsLoop(f) => LoopsOf(t) = LoopsOf(o) \cup {Len(o) + 1}
  BY <1>5, <1>6, <1>7, Zenon DEF LoopsOf, IsLoop
<1>9. ~IsLoop(f) => LoopsOf(t) = LoopsOf(o)
  BY <1>5, <1>6, <1>7, Zenon DEF LoopsOf, IsLoop
<1> QED BY <1>6, <1>8, <1>9, Zenon DEF t, LoopsOf

LEMMA LoopsDrop ==
  ASSUME NEW o \in Seq(Frame), o # << >>, o[Len(o)].k = "block", NEW d \in {1, 2}, d <= Len(o)
  PROVE  /\ d = 1 \/ ~IsLoop(o[Len(o) - 1]) => LoopsOf(SubSeq(o, 1, Len(o) - d)) = LoopsOf(o)
         /\ d = 2 /\ IsLoop(o[Len(o) - 1])
               => /\ LoopsOf(SubSeq(o, 1, Len(o) - d)) = LoopsOf(o) \ {Len(o) - 1}
                  /\ Len(o) - 1 \in LoopsOf(o) /\ \A i \in LoopsOf(o) : i <= Len(o) - 1
         /\ \A i \in LoopsOf(SubSeq(o, 1, Len(o) - d)) : SubSeq(o, 1, Len(o) - d)[i] = o[i]
<1> DEFINE t == SubSeq(o, 1, Len(o) - d)
<1>1. DOMAIN o = 1 .. Len(o) /\ Len(o) \in Nat /\ Len(o) >= 1
  BY LenProperties, EmptySeq
<1>2. Len(o) - d \in Nat /\ Len(o) - d <= Len(o) /\ Len(o) - d \in Int
  BY <1>1
<1>3. /\ t \in Seq(Frame) /\ Len(t) = Len(o) - d
      /\ \A i \in 1 .. Len(o) - d : t[i] = o[i]
  BY <1>2, Prefix
<1> HIDE DEF t
<1>4. DOMAIN t = 1 .. Len(o) - d
  BY <1>3, LenProperties
<1>5. \A i \in DOMAIN t : i \in DOMAIN o /\ t[i] = o[i] /\ (d = 2 => i # Len(o) - 1)
  BY <1>1, <1>2, <1>3, <1>4
<1>6. \A i \in DOMAIN o : \/ i \in DOMAIN t
                          \/ d = 2 /\ i = Len(o) - 1
                          \/ i = Len(o)
  BY <1>1, <1>4
<1>7. o[Len(o)].k \notin {"while", "for"} /\ 1 # 2
  OBVIOUS
<1>8. d = 1 \/ ~IsLoop(o[Len(o) - 1]) => LoopsOf(t) = LoopsOf(o)
  BY <1>5, <1>6, <1>7, Zenon DEF LoopsOf, IsLoop
<1>9. ASSUME d = 2, IsLoop(o[Len(o) - 1])
      PROVE  /\ LoopsOf(t) = LoopsOf(o) \ {Len(o) - 1}
             /\ Len(o) - 1 \in LoopsOf(o) /\ \A i \in LoopsOf(o) : i <= Len(o) - 1
  <2>1. Len(o) - 1 \in DOMAIN o
    BY <1>1, <1>9
  <2>2. LoopsOf(t) = LoopsOf(o) \ {Len(o) - 1}
    BY <1>5, <1>6, <1>7, <1>9, Zenon DEF LoopsOf
  <2>3. \A i \in LoopsOf(o) : i \in 1 .. Len(o) /\ i # Len(o)
    BY <1>1, <1>7, Zenon DEF LoopsOf
  <2>4. \A n \in Nat : \A i \in 1 .. n : i # n => i <= n - 1
    OBVIOUS
  <2>5. \A i \in LoopsOf(o) : i <= Len(o) - 1
    BY <1>1, <2>3, <2>4, Zenon
  <2> QED BY <1>9, <2>1, <2>2, <2>5, Zenon DEF LoopsOf, IsLoop
<1>10. \A i \in LoopsOf(t) : t[i] = o[i]
  BY <1>5, Zenon DEF LoopsOf
<1> QED BY <1>8, <1>9, <1>10, Zenon DEF t

(* A jump emitted for a construct is to the label meant. *)
LEMMA AddsAimed ==
  ASSUME Typing, NEW s \in Seq(Instr), Adds(s), Aimed(code), Aimed(s)
  PROVE  Aimed(code')
<1>1. PICK m \in Nat :
          /\ Len(code) <= m /\ Len(code') = m + Len(s)
          /\ \A i \in 1 .. Len(code) : code'[i] = code[i]
          /\ \A i \in Len(code) + 1 .. m : code'[i].op = "run"
          /\ \A i \in 1 .. Len(s) : code'[m + i] = s[i]
  BY DEF Adds
<1>2. /\ DOMAIN code = 1 .. Len(code) /\ Len(code) \in Nat
      /\ DOMAIN s = 1 .. Len(s) /\ Len(s) \in Nat
      /\ DOMAIN code' = 1 .. m + Len(s)
  BY <1>1, LenProperties DEF Typing, Adds
<1> SUFFICES ASSUME NEW i \in DOMAIN code', code'[i].op = "jmp"
             PROVE  code'[i].arg = code'[i].want
  BY DEF Aimed
<1>3. CASE i <= Len(code)
  <2>1. i \in DOMAIN code /\ code'[i] = code[i]
    BY <1>1, <1>2, <1>3
  <2> QED BY <2>1 DEF Aimed
<1>4. CASE Len(code) < i /\ i <= m
  BY <1>1, <1>2, <1>4
<1>5. CASE m < i
  <2>1. i - m \in 1 .. Len(s) /\ m + (i - m) = i
    BY <1>2, <1>5
  <2>2. code'[i] = s[i - m]
    BY <1>1, <2>1
  <2> QED BY <1>2, <2>1, <2>2 DEF Aimed
<1> QED BY <1>1, <1>2, <1>3, <1>4, <1>5

Aims(x) == x.op = "jmp" => x.arg = x.want

LEMMA AimedTuples ==
  /\ \A op, arg : Aims(I(op, arg))
  /\ Aimed(<< >>)
  /\ \A a : Aims(a) => Aimed(<<a>>)
  /\ \A a, b : Aims(a) /\ Aims(b) => Aimed(<<a, b>>)
  /\ \A a, b, c : Aims(a) /\ Aims(b) /\ Aims(c) => Aimed(<<a, b, c>>)
  /\ \A a, b, c, d : Aims(a) /\ Aims(b) /\ Aims(c) /\ Aims(d) => Aimed(<<a, b, c, d>>)
  /\ \A a, b, c, d, e :
        Aims(a) /\ Aims(b) /\ Aims(c) /\ Aims(d) /\ Aims(e) => Aimed(<<a, b, c, d, e>>)
<1> USE DEF Aimed, Aims
<1>1. \A op, arg : Aims(I(op, arg))
  BY DEF I
<1>2. /\ Aimed(<< >>)
      /\ \A a : Aims(a) => Aimed(<<a>>)
      /\ \A a, b : Aims(a) /\ Aims(b) => Aimed(<<a, b>>)
  OBVIOUS
<1>3. \A a, b, c : Aims(a) /\ Aims(b) /\ Aims(c) => Aimed(<<a, b, c>>)
  OBVIOUS
<1>4. \A a, b, c, d : Aims(a) /\ Aims(b) /\ Aims(c) /\ Aims(d) => Aimed(<<a, b, c, d>>)
  OBVIOUS
<1>5. \A a, b, c, d, e :
         Aims(a) /\ Aims(b) /\ Aims(c) /\ Aims(d) /\ Aims(e) => Aimed(<<a, b, c, d, e>>)
  OBVIOUS
<1> QED BY <1>1, <1>2, <1>3, <1>4, <1>5, Zenon

(* Every jump an action adds is to the label meant. *)
LEMMA AimStep ==
  ASSUME StackInv, Paired(open, loops), Aimed(code), Lower
  PROVE  Aimed(code')
<1> USE DEF StackInv
<1>1. ASSUME NEW s \in Seq(Instr), Emit(s), Aimed(s)
      PROVE  Aimed(code')
  BY <1>1, EmitAdds, AddsAimed
<1>3. \A a, b, c, d, e \in Instr : <<a>> \in Seq(Instr) /\ <<a, b, c>> \in Seq(Instr) /\ <<a, b, c, d, e>> \in Seq(Instr)
  OBVIOUS
<1>4. ASSUME NEW a \in Instr, Adds(<<a>>), a.op = "jmp" => a.arg = a.want PROVE Aimed(code')
  <2>1. Aimed(<<a>>)
    BY <1>4, AimedTuples, Zenon DEF Aims
  <2> QED BY <1>3, <1>4, <2>1, AddsAimed
<1>5. ASSUME NEW n, Read(n) PROVE Aimed(code')
  <2>1. ReadOf(n) \in Instr /\ ReadOf(n).op = "use"
    BY ReadType DEF ReadOf
  <2>2. Adds(<<ReadOf(n)>>)
    BY <1>3, <1>5, <2>1, EmitAdds DEF Read
  <2> QED BY <1>4, <2>1, <2>2
<1>6. CASE Defer
  <2> DEFINE a == I("reg", Len(code) + 1)
  <2>1. a \in Instr /\ a.op = "reg"
    BY LenProperties, Plain DEF Typing, Ops
  <2>2. Emit(<<a>>)
    BY <1>6 DEF Defer
  <2> HIDE DEF a
  <2>3. Adds(<<a>>)
    BY <1>3, <2>1, <2>2, EmitAdds
  <2> QED BY <1>4, <2>1, <2>3
<1>7. CASE Return
  <2> DEFINE a == I("ret", 0)
  <2>1. a \in Instr /\ a.op = "ret"
    BY Plain DEF Ops
  <2>2. Emit(RunBack(defers) \o <<a>>)
    BY <1>7 DEF Return
  <2> HIDE DEF a
  <2>3. Adds(<<a>>)
    BY <1>3, <2>1, <2>2, RunsAdd DEF Typing
  <2> QED BY <1>4, <2>1, <2>3
<1>8. CASE OpenIf
  <2> DEFINE s == <<I("jnz", next_label), I("jmp", next_label + 1), I("label", next_label)>>
  <2>1. s \in Seq(Instr)
    BY Plain DEF Ops, Typing
  <2>2. Aimed(s)
    BY AimedTuples, Zenon
  <2> QED BY <1>1, <1>8, <2>1, <2>2, OpenedIf
<1>9. ASSUME NEW m \in {2, 3},
             Emit(<<I("jmp", next_label), I("label", next_label), I("jnz", next_label + 1),
                    I("jmp", next_label + m), I("label", next_label + 1)>>)
      PROVE  Aimed(code')
  <2> DEFINE s == <<I("jmp", next_label), I("label", next_label), I("jnz", next_label + 1),
                    I("jmp", next_label + m), I("label", next_label + 1)>>
  <2>1. s \in Seq(Instr)
    BY Plain DEF Ops, Typing
  <2>2. Aimed(s)
    BY AimedTuples, Zenon
  <2> QED BY <1>1, <1>9, <2>1, <2>2
<1>10. CASE OpenWhile
  BY <1>9, <1>10, OpenedWhile
<1>11. ASSUME NEW n, OpenFor(n) PROVE Aimed(code')
  BY <1>9, <1>11, OpenedFor
<1>12. Around # {} => /\ loops # << >>
                      /\ loops[Len(loops)].brk = Loop.brk /\ loops[Len(loops)].cont = Loop.cont
                      /\ Loop.brk \in Nat /\ Loop.cont \in Nat
  BY PairedLast, LoopFacts
<1>13. CASE Break
  <2> DEFINE a == [I("jmp", loops[Len(loops)].brk) EXCEPT !.want = Loop.brk]
  <2>1. a \in Instr /\ a.arg = a.want
    BY <1>12, <1>13 DEF Break, I, Instr, Ops
  <2>2. Emit(RunBack(defers) \o <<a>>)
    BY <1>12, <1>13 DEF Break
  <2> HIDE DEF a
  <2>3. Adds(<<a>>)
    BY <1>3, <2>1, <2>2, RunsAdd DEF Typing
  <2> QED BY <1>4, <2>1, <2>3
<1>14. CASE Continue
  <2> DEFINE a == [I("jmp", loops[Len(loops)].cont) EXCEPT !.want = Loop.cont]
  <2>1. a \in Instr /\ a.arg = a.want
    BY <1>12, <1>14 DEF Continue, I, Instr, Ops
  <2>2. Emit(<<a>>)
    BY <1>12, <1>14 DEF Continue
  <2> HIDE DEF a
  <2>3. Adds(<<a>>)
    BY <1>3, <2>1, <2>2, EmitAdds DEF Typing
  <2> QED BY <1>4, <2>1, <2>3
<1>15. CASE Closing
  <2>1. open # << >>
    BY <1>15, ClosingEnds
  <2>2. ASSUME NEW s \in Seq(Instr), Close(s), Aimed(s) PROVE Aimed(code')
    BY <2>1, <2>2, Closed, AddsAimed
  <2>3. Aimed(<< >>)
    BY AimedTuples
  <2>5. /\ Aimed(<<I("ret", 0)>>)
        /\ Aimed(<<I("jmp", Parent.endl), I("label", Parent.el)>>)
        /\ Aimed(<<I("jmp", Parent.endl), I("label", Parent.endl)>>)
        /\ Aimed(<<I("jmp", Parent.cont), I("label", Parent.brk)>>)
        /\ Aimed(<<I("jmp", Parent.endl), I("label", Parent.el), I("jmp", Parent.endl),
                   I("label", Parent.endl)>>)
        /\ Aimed(<<I("jmp", Parent.cont), I("label", Parent.cont), I("jmp", Parent.cl),
                   I("label", Parent.brk)>>)
    BY AimedTuples, Zenon
  <2> QED BY <1>15, <2>1, <2>2, <2>3, <2>5, EndTypes, Zenon
          DEF Closing, CloseBlock, CloseThen, OpenElse, CloseElse, CloseWhile, CloseFor, CloseFunc
<1> QED BY <1>5, <1>6, <1>7, <1>8, <1>10, <1>11, <1>13, <1>14, <1>15, Zenon
        DEF Lower, Let, OpenBlock, Closing

LEMMA PairKeeps ==
  ASSUME NEW o \in Seq(Frame), NEW f \in Frame, NEW b \in BlockFrame, NEW i \in LoopsOf(o)
  PROVE  i < Len(o) + 1 /\ (o \o <<f, b>>)[i] = o[i]
<1>1. b \in Frame /\ i \in DOMAIN o
  BY DEF Frame, LoopsOf
<1>2. i \in 1 .. Len(o) /\ Len(o) \in Nat
  BY <1>1, LenProperties
<1>3. (o \o <<f, b>>)[i] = o[i]
  BY <1>1, <1>2, PushTwo
<1> QED BY <1>2, <1>3

(* The pairing goes on. *)
LEMMA PairStep ==
  ASSUME LoopsFit, StackInv, Paired(open, loops), Lower
  PROVE  Paired(open', loops')
<1> USE DEF StackInv
<1>1. /\ open \in Seq(Frame) /\ loops \in Seq(LoopLabels) /\ next_label \in Nat
      /\ Len(open) \in Nat /\ DOMAIN open = 1 .. Len(open) /\ Len(loops) \in Nat
      /\ LoopsOf(open) \subseteq Nat
  BY LenProperties, Limits DEF Typing, Bounds, LoopsOf
<1>3. ASSUME NEW n, Let(n) \/ Read(n) \/ Defer \/ Return \/ Break \/ Continue
      PROVE  Paired(open', loops')
  <2>1. open' = open /\ loops' = loops
    BY <1>3, Zenon DEF Let, Read, Defer, Return, Break, Continue
  <2> QED BY <2>1
<1>4. ASSUME NEW ds \in Nat, NEW ls \in Nat
      PROVE  [k |-> "block", locals |-> ls, defers |-> ds] \in BlockFrame
  BY DEF BlockFrame
<1>5. Body(Len(defers)) \in BlockFrame /\ \A m \in Nat : [Body(Len(defers)) EXCEPT !.locals = m] \in BlockFrame
  BY <1>4, LenProperties DEF Body, Typing, BlockFrame
<1>6. CASE OpenBlock
  <2> DEFINE t == Append(open, Body(Len(defers)))
  <2>1. Body(Len(defers)) \in Frame /\ Body(Len(defers)).k = "block"
    BY <1>5 DEF Frame, BlockFrame
  <2>2. /\ Len(t) = Len(open) + 1 /\ t \in Seq(Frame)
        /\ \A i \in 1 .. Len(open) : t[i] = open[i]
        /\ t[Len(open) + 1] = Body(Len(defers))
    BY <1>1, <2>1, AppendProperties
  <2>3. open' = t /\ loops' = loops
    BY <1>6 DEF OpenBlock
  <2> HIDE DEF t
  <2>4. DOMAIN t = 1 .. Len(open) + 1
    BY <2>2, LenProperties
  <2>5. \A i \in DOMAIN t : \/ i \in DOMAIN open /\ t[i] = open[i]
                            \/ t[i] = Body(Len(defers))
    BY <1>1, <2>2, <2>4
  <2>6. \A i \in DOMAIN open : i \in DOMAIN t /\ t[i] = open[i]
    BY <1>1, <2>2, <2>4
  <2>7. Body(Len(defers)).k \notin {"while", "for"}
    BY <2>1
  <2>8. LoopsOf(t) = LoopsOf(open) /\ \A i \in LoopsOf(open) : t[i] = open[i]
    BY <2>5, <2>6, <2>7, Zenon DEF LoopsOf
  <2>9. Paired(t, loops)
    BY <2>8, PairedSame
  <2> QED BY <2>3, <2>9
<1>7. CASE OpenIf
  <2> DEFINE f == [k |-> "then", el |-> next_label + 1, endl |-> next_label + 2]
             t == open \o <<f, Body(Len(defers))>>
  <2>1. open' = t /\ loops' = loops
    BY <1>7, OpenedIf DEF OpenIf
  <2>2. f \in Frame /\ ~IsLoop(f)
    BY <1>1 DEF Frame, ThenFrame, IsLoop
  <2> HIDE DEF f
  <2>3. LoopsOf(t) = LoopsOf(open) /\ \A i \in LoopsOf(open) : t[i] = open[i]
    <3>1. LoopsOf(t) = LoopsOf(open)
      BY <1>1, <1>5, <2>2, LoopsPair, Zenon
    <3>2. \A i \in LoopsOf(open) : t[i] = open[i]
      BY <1>1, <1>5, <2>2, PairKeeps, Zenon
    <3> QED BY <3>1, <3>2
  <2>4. Paired(t, loops)
    BY <2>3, PairedSame
  <2> QED BY <2>1, <2>4
<1>8. ASSUME NEW f \in Frame, IsLoop(f), NEW b \in BlockFrame, open' = open \o <<f, b>>, Len(loops) < MaxLoops,
             f.brk \in Nat, f.cont \in Nat, PushLoop(f.brk, f.cont)
      PROVE  Paired(open', loops')
  <2> DEFINE x == [brk |-> f.brk, cont |-> f.cont]
             m == Len(open) + 1
  <2>2. loops' = Append(loops, x) /\ x \in LoopLabels /\ x.brk = f.brk /\ x.cont = f.cont
    BY <1>8 DEF PushLoop, LoopLabels
  <2> HIDE DEF x
  <2>3. /\ LoopsOf(open') = LoopsOf(open) \cup {m} /\ open'[m] = f
        /\ \A i \in LoopsOf(open) : i < m /\ open'[i] = open[i]
    <3>1. LoopsOf(open') = LoopsOf(open) \cup {m}
      BY <1>1, <1>8, LoopsPair, Zenon
    <3>2. open'[m] = f
      BY <1>1, <1>8, LoopsPair
    <3>3. \A i \in LoopsOf(open) : i < m /\ open'[i] = open[i]
      BY <1>1, <1>8, PairKeeps, Zenon
    <3> QED BY <3>1, <3>2, <3>3
  <2>4. m \in Nat
    BY <1>1
  <2> HIDE DEF m
  <2>5. Paired(open', Append(loops, x))
    BY <1>1, <2>2, <2>3, <2>4, PairedPush
  <2> QED BY <2>2, <2>5
<1>9. CASE OpenWhile
  <2> DEFINE f == [k |-> "while", brk |-> next_label + 2, cont |-> next_label]
  <2>1. /\ open' = open \o <<f, Body(Len(defers))>> /\ Len(loops) < MaxLoops
        /\ PushLoop(next_label + 2, next_label)
    BY <1>9, OpenedWhile DEF LoopsFit
  <2>2. /\ f \in Frame /\ IsLoop(f) /\ f.brk = next_label + 2 /\ f.cont = next_label
        /\ f.brk \in Nat /\ f.cont \in Nat
    BY <1>1 DEF Frame, WhileFrame, IsLoop
  <2> HIDE DEF f
  <2> QED BY <1>5, <1>8, <2>1, <2>2
<1>10. ASSUME NEW n \in LoopNames, OpenFor(n) PROVE Paired(open', loops')
  <2> DEFINE f == [k |-> "for", brk |-> next_label + 3, cont |-> next_label + 2, cl |-> next_label]
             b == [Body(Len(defers)) EXCEPT !.locals = Len(AddLocal(n))]
  <2>1. /\ open' = open \o <<f, b>> /\ locals' = AddLocal(n) /\ Len(loops) < MaxLoops
        /\ PushLoop(next_label + 3, next_label + 2)
    BY <1>10, OpenedFor DEF OpenFor, LoopsFit
  <2>2. /\ f \in Frame /\ IsLoop(f) /\ f.brk = next_label + 3 /\ f.cont = next_label + 2
        /\ f.brk \in Nat /\ f.cont \in Nat
    BY <1>1 DEF Frame, ForFrame, IsLoop
  <2>3. Len(AddLocal(n)) \in Nat
    BY <2>1, LocalsStep, LenProperties
  <2>4. b \in BlockFrame
    BY <1>5, <2>3
  <2> HIDE DEF f, b
  <2> QED BY <1>8, <2>1, <2>2, <2>4
<1>11. CASE Closing
  <2>1. open # << >> /\ Top \in BlockFrame /\ Len(open) >= 1
    BY <1>11, ClosingEnds, TopFacts
  <2>2. open[Len(open)].k = "block"
    BY <2>1 DEF Top, BlockFrame
  <2>3. ASSUME NEW k, InBody(k)
        PROVE  Len(open) - 1 \in Nat /\ Len(open) >= 2 /\ open[Len(open) - 1].k = k
    BY <1>1, <2>1, <2>3 DEF InBody, Parent
  <2>4. ASSUME NEW d \in {1, 2}, d <= Len(open), loops' = loops,
               d = 1 \/ ~IsLoop(open[Len(open) - 1])
        PROVE  /\ Paired(SubSeq(open, 1, Len(open) - d), loops')
               /\ LoopsOf(SubSeq(open, 1, Len(open) - d)) = LoopsOf(open)
               /\ \A i \in LoopsOf(open) : SubSeq(open, 1, Len(open) - d)[i] = open[i]
    <3> DEFINE t == SubSeq(open, 1, Len(open) - d)
    <3>1. LoopsOf(t) = LoopsOf(open) /\ \A i \in LoopsOf(open) : t[i] = open[i]
      BY <1>1, <2>1, <2>2, <2>4, LoopsDrop
    <3> HIDE DEF t
    <3>2. Paired(t, loops)
      BY <3>1, PairedSame
    <3> QED BY <2>1, <2>4, <3>1, <3>2 DEF t
  <2>5. CASE CloseFunc
    <3>1. Len(open) = 1 /\ open' = << >> /\ loops' = loops
      BY <2>5 DEF CloseFunc
    <3>2. SubSeq(open, 1, Len(open) - 1) = << >>
      BY <3>1, SubSeqEmpty
    <3>3. Paired(SubSeq(open, 1, Len(open) - 1), loops')
      BY <2>1, <2>4, <3>1
    <3> QED BY <3>1, <3>2, <3>3
  <2>6. CASE CloseBlock
    <3>1. InBody("block") /\ open' = SubSeq(open, 1, Len(open) - 1) /\ loops' = loops
      BY <2>6 DEF CloseBlock, DropOpen
    <3> QED BY <2>1, <2>4, <3>1
  <2>7. CASE CloseThen \/ CloseElse
    <3>1. /\ InBody("then") \/ InBody("else")
          /\ open' = SubSeq(open, 1, Len(open) - 2) /\ loops' = loops
      BY <2>7 DEF CloseThen, CloseElse, DropOpen
    <3>2. Len(open) >= 2 /\ ~IsLoop(open[Len(open) - 1])
      BY <2>3, <3>1 DEF IsLoop
    <3> QED BY <2>4, <3>1, <3>2
  <2>8. CASE OpenElse
    <3> DEFINE f == [k |-> "else", endl |-> Parent.endl]
               b == [k |-> "block", locals |-> Top.locals, defers |-> Top.defers]
               t == SubSeq(open, 1, Len(open) - 2)
    <3>1. InBody("then") /\ open' = t \o <<f, b>> /\ loops' = loops
      BY <2>8 DEF OpenElse, DropOpen
    <3>2. Len(open) >= 2 /\ ~IsLoop(open[Len(open) - 1])
      BY <2>3, <3>1 DEF IsLoop
    <3>3. Paired(t, loops')
      BY <2>4, <3>1, <3>2
    <3>4. f \in Frame /\ ~IsLoop(f) /\ b \in BlockFrame
      <4>1. Parent.endl \in Nat /\ Top.locals \in Nat /\ Top.defers \in Nat
        BY <2>1, <3>1, TopFacts DEF ThenFrame, BlockFrame
      <4> QED BY <1>4, <4>1 DEF Frame, ElseFrame, IsLoop
    <3>5. t \in Seq(Frame)
      <4>1. Len(open) - 2 \in Int /\ Len(open) - 2 >= 0 /\ Len(open) - 2 <= Len(open)
        BY <1>1, <3>2
      <4> QED BY <1>1, <4>1, Prefix
    <3> HIDE DEF t, f, b
    <3>6. LoopsOf(t \o <<f, b>>) = LoopsOf(t) /\ \A i \in LoopsOf(t) : (t \o <<f, b>>)[i] = t[i]
      <4>1. LoopsOf(t \o <<f, b>>) = LoopsOf(t)
        BY <3>4, <3>5, LoopsPair, Zenon
      <4>2. \A i \in LoopsOf(t) : (t \o <<f, b>>)[i] = t[i]
        BY <3>4, <3>5, PairKeeps, Zenon
      <4> QED BY <4>1, <4>2
    <3>7. Paired(open', loops')
      BY <3>1, <3>3, <3>6, PairedSame
    <3> QED BY <3>3, <3>7
  <2>9. CASE CloseWhile \/ CloseFor
    <3> DEFINE t == SubSeq(open, 1, Len(open) - 2)
               m == Len(open) - 1
    <3>1. (InBody("while") \/ InBody("for")) /\ open' = t /\ PopLoop
      BY <2>9 DEF CloseWhile, CloseFor, DropOpen
    <3>2. Len(open) >= 2 /\ IsLoop(open[m])
      BY <2>3, <3>1 DEF IsLoop
    <3>3. /\ LoopsOf(t) = LoopsOf(open) \ {m} /\ m \in LoopsOf(open)
          /\ \A i \in LoopsOf(open) : i <= m
          /\ \A i \in LoopsOf(t) : t[i] = open[i]
      BY <1>1, <2>1, <2>2, <3>2, LoopsDrop
    <3> HIDE DEF t, m
    <3>4. loops # << >> /\ Paired(t, SubSeq(loops, 1, Len(loops) - 1))
      BY <1>1, <3>3, PairedPop
    <3>5. loops' = SubSeq(loops, 1, Len(loops) - 1)
      BY <3>1, <3>4 DEF PopLoop
    <3> QED BY <3>1, <3>4, <3>5
  <2> QED BY <1>11, <2>5, <2>6, <2>7, <2>8, <2>9 DEF Closing
<1> QED BY <1>3, <1>6, <1>7, <1>9, <1>10, <1>11, Zenon DEF Lower, Closing

LEMMA LoopStep ==
  ASSUME StackInv, LoopInv, [Next]_vars, [LoopsFit]_vars
  PROVE  LoopInv'
<1>1. CASE Lower /\ LoopsFit
  BY <1>1, PairStep, AimStep DEF LoopInv
<1>2. CASE BeginRun \/ Execute \/ UNCHANGED vars
  <2>1. UNCHANGED <<open, loops, code>>
    BY <1>2 DEF BeginRun, Execute, vars, lowerVars
  <2> QED BY <2>1 DEF LoopInv
<1> QED BY <1>1, <1>2 DEF Next

LEMMA LoopInit ==
  ASSUME Init
  PROVE  LoopInv
<1>1. /\ open = <<[k |-> "block", locals |-> 0, defers |-> 0]>>
      /\ loops = << >> /\ Len(loops) = 0 /\ DOMAIN code = {}
  BY DEF Init
<1>2. DOMAIN open = {1} /\ open[1].k = "block"
  BY <1>1
<1>3. LoopsOf(open) = {} /\ 1 .. Len(loops) = {}
  BY <1>1, <1>2 DEF LoopsOf
<1>4. \E f \in [1 .. Len(loops) -> LoopsOf(open)] : TRUE
  <2>1. [i \in {} |-> i] \in [{} -> {}]
    OBVIOUS
  <2> QED BY <1>3, <2>1, Zenon
<1>5. Paired(open, loops)
  BY <1>3, <1>4 DEF Paired
<1> QED BY <1>1, <1>5 DEF LoopInv, Aimed

(* break and continue jump to the labels of the innermost loop around      *)
(* them, and none is dropped, whatever is nested in what: in every         *)
(* function whose loops nest no deeper than break_labels and               *)
(* continue_labels are long.                                               *)
THEOREM LoopJumps == Spec /\ [][LoopsFit]_vars => []LoopJumpsReachInnermost
<1>1. Init => StackInv /\ LoopInv
  BY StackInit, LoopInit
<1>2. StackInv /\ LoopInv /\ [Next]_vars /\ [LoopsFit]_vars => (StackInv /\ LoopInv)'
  BY StackStep, LoopStep
<1>3. StackInv /\ LoopInv => LoopJumpsReachInnermost
  BY PairedLast DEF LoopInv, LoopJumpsReachInnermost, Aimed
<1> QED BY <1>1, <1>2, <1>3, PTL DEF Spec

-----------------------------------------------------------------------------
(* Names: the locals of the code generator are the symbols that sema has   *)
(* in scope, and the variables of loops that have ended.                   *)

Agree(sc, ls, b, m) ==
    /\ \A k \in 1 .. b : \A i \in DOMAIN sc[k] : \E j \in 1 .. m : ls[j] = sc[k][i]
    /\ \A j \in 1 .. m : ls[j].name \in Names => \E k \in 1 .. b : \E i \in DOMAIN sc[k] : sc[k][i] = ls[j]

(* Sequence t begins as s does, up to n. *)
Begins(t, s, n) == \A k \in 1 .. n : t[k] = s[k]

(* The scopes of sema that a construct opens for what is in it. *)
ScopesOf(f) == IF f.k \in {"block", "for"} THEN 1 ELSE 0

(* Around the construct p there are d[p] of them. *)
Depths(o, d) ==
    /\ d \in [1 .. Len(o) -> Nat]
    /\ o # << >> => d[1] = 1
    /\ \A p \in 2 .. Len(o) : d[p] = d[p - 1] + ScopesOf(o[p - 1])
    /\ \A p, q \in 1 .. Len(o) : p <= q => d[p] <= d[q]

OfLoops(s) == \A i \in DOMAIN s : s[i].name \in LoopNames

(* What is going to be left when an open construct ends agrees, too. *)
Tied(o, d, sc, ls) ==
    /\ Depths(o, d)
    /\ o # << >> => Len(sc) = d[Len(o)] + 1
    /\ Agree(sc, ls, Len(sc), Len(ls))
    /\ \A p \in 1 .. Len(o) : o[p].k = "block" => Agree(sc, ls, d[p], o[p].locals)
    /\ \A p \in 1 .. Len(o) : o[p].k = "for" => OfLoops(sc[d[p] + 1])

(* A scope has no more symbols than there are slots. *)
Slotted == \A k \in DOMAIN scopes : Len(scopes[k]) <= slots

NameInv ==
    /\ \E d : Tied(open, d, scopes, locals)
    /\ Slotted
    /\ NamesResolveAsSema

(* There is room for each local: no declaration finds CGCtx.locals full. *)
LocalsFit ==
    (\E n \in Names : Let(n)) \/ (\E n \in LoopNames : OpenFor(n)) => Len(locals) < MaxLocals

LEMMA AgreeSame ==
  ASSUME NEW sc, NEW ls, NEW b, NEW m, Agree(sc, ls, b, m),
         NEW tc, \A k \in 1 .. b : tc[k] = sc[k],
         NEW ms, \A j \in 1 .. m : ms[j] = ls[j]
  PROVE  Agree(tc, ms, b, m)
<1>1. \A k \in 1 .. b : \A i \in DOMAIN tc[k] : \E j \in 1 .. m : ms[j] = tc[k][i]
  BY DEF Agree
<1>2. ASSUME NEW j \in 1 .. m, ms[j].name \in Names
      PROVE  \E k \in 1 .. b : \E i \in DOMAIN tc[k] : tc[k][i] = ms[j]
  <2>1. PICK k \in 1 .. b : \E i \in DOMAIN sc[k] : sc[k][i] = ls[j]
    BY <1>2 DEF Agree
  <2>2. tc[k] = sc[k] /\ ms[j] = ls[j]
    OBVIOUS
  <2> QED BY <2>1, <2>2
<1> QED BY <1>1, <1>2 DEF Agree

LEMMA BeginsLess ==
  ASSUME NEW t, NEW s, NEW n \in Int, NEW m \in Int, m <= n, Begins(t, s, n)
  PROVE  Begins(t, s, m)
<1>1. \A k \in 1 .. m : k \in 1 .. n
  OBVIOUS
<1> QED BY <1>1, Zenon DEF Begins

LEMMA AgreeBegins ==
  ASSUME NEW sc, NEW ls, NEW b, NEW m, Agree(sc, ls, b, m),
         NEW tc, Begins(tc, sc, b), NEW ms, Begins(ms, ls, m)
  PROVE  Agree(tc, ms, b, m)
<1>1. (\A k \in 1 .. b : tc[k] = sc[k]) /\ (\A j \in 1 .. m : ms[j] = ls[j])
  BY Zenon DEF Begins
<1> QED BY <1>1, AgreeSame, Zenon

(* A scope opens. *)
LEMMA AgreeEmpty ==
  ASSUME NEW sc, NEW ls, NEW b \in Nat, NEW m, Agree(sc, ls, b, m),
         NEW tc, \A k \in 1 .. b : tc[k] = sc[k], tc[b + 1] = << >>,
         NEW ms, \A j \in 1 .. m : ms[j] = ls[j]
  PROVE  Agree(tc, ms, b + 1, m)
<1>1. Agree(tc, ms, b, m)
  BY AgreeSame, Zenon
<1>2. \A k \in 1 .. b + 1 : k \in 1 .. b \/ k = b + 1
  OBVIOUS
<1>3. \A k \in 1 .. b : k \in 1 .. b + 1
  OBVIOUS
<1>4. DOMAIN tc[b + 1] = {}
  OBVIOUS
<1>5. \A k \in 1 .. b + 1 : \A i \in DOMAIN tc[k] : \E j \in 1 .. m : ms[j] = tc[k][i]
  <2>1. \A k \in 1 .. b : \A i \in DOMAIN tc[k] : \E j \in 1 .. m : ms[j] = tc[k][i]
    BY <1>1, Zenon DEF Agree
  <2> QED BY <1>2, <1>4, <2>1, Zenon
<1>6. \A j \in 1 .. m : ms[j].name \in Names =>
         \E k \in 1 .. b + 1 : \E i \in DOMAIN tc[k] : tc[k][i] = ms[j]
  <2>1. \A j \in 1 .. m : ms[j].name \in Names =>
           \E k \in 1 .. b : \E i \in DOMAIN tc[k] : tc[k][i] = ms[j]
    BY <1>1, Zenon DEF Agree
  <2> QED BY <1>3, <2>1, Zenon
<1> QED BY <1>5, <1>6, Zenon DEF Agree

(* A declaration in the innermost scope. *)
LEMMA AgreeDeclare ==
  ASSUME NEW sc, NEW ls, NEW b \in Nat, b >= 1, NEW m \in Nat, Agree(sc, ls, b, m), NEW x,
         NEW tc, \A k \in 1 .. b : k # b => tc[k] = sc[k],
         sc[b] \in Seq(Symbol), x \in Symbol, tc[b] = Append(sc[b], x),
         NEW ms, \A j \in 1 .. m : ms[j] = ls[j], ms[m + 1] = x
  PROVE  Agree(tc, ms, b, m + 1)
<1>1. /\ DOMAIN sc[b] = 1 .. Len(sc[b]) /\ Len(sc[b]) \in Nat
      /\ DOMAIN tc[b] = 1 .. Len(sc[b]) + 1
      /\ \A i \in 1 .. Len(sc[b]) : tc[b][i] = sc[b][i]
      /\ tc[b][Len(sc[b]) + 1] = x
  BY AppendProperties, LenProperties
<1>2. b \in 1 .. b /\ m + 1 \in 1 .. m + 1 /\ Len(sc[b]) + 1 \in DOMAIN tc[b]
  BY <1>1
<1>3. \A j \in 1 .. m + 1 : j \in 1 .. m \/ j = m + 1
  OBVIOUS
<1>4. \A j \in 1 .. m : j \in 1 .. m + 1
  OBVIOUS
<1>5. \A i \in DOMAIN tc[b] : i \in DOMAIN sc[b] \/ i = Len(sc[b]) + 1
  BY <1>1
<1>6. \A i \in DOMAIN sc[b] : i \in DOMAIN tc[b] /\ tc[b][i] = sc[b][i]
  BY <1>1
<1>7. ASSUME NEW k \in 1 .. b, NEW i \in DOMAIN tc[k]
      PROVE  \E j \in 1 .. m + 1 : ms[j] = tc[k][i]
  <2>1. CASE k = b /\ i = Len(sc[b]) + 1
    BY <1>1, <1>2, <2>1
  <2>2. CASE ~(k = b /\ i = Len(sc[b]) + 1)
    <3>1. i \in DOMAIN sc[k] /\ tc[k][i] = sc[k][i]
      BY <1>5, <1>6, <1>7, <2>2
    <3>2. PICK j \in 1 .. m : ls[j] = sc[k][i]
      BY <1>7, <3>1 DEF Agree
    <3>3. j \in 1 .. m + 1 /\ ms[j] = tc[k][i]
      BY <1>4, <3>1, <3>2
    <3> QED BY <3>3
  <2> QED BY <2>1, <2>2
<1>8. ASSUME NEW j \in 1 .. m + 1, ms[j].name \in Names
      PROVE  \E k \in 1 .. b : \E i \in DOMAIN tc[k] : tc[k][i] = ms[j]
  <2>1. CASE j = m + 1
    BY <1>1, <1>2, <2>1
  <2>2. CASE j # m + 1
    <3>1. j \in 1 .. m /\ ms[j] = ls[j]
      BY <1>3, <2>2
    <3>2. PICK k \in 1 .. b : \E i \in DOMAIN sc[k] : sc[k][i] = ls[j]
      BY <1>8, <3>1 DEF Agree
    <3>3. PICK i \in DOMAIN sc[k] : sc[k][i] = ls[j]
      BY <3>2
    <3>4. i \in DOMAIN tc[k] /\ tc[k][i] = sc[k][i]
      BY <1>6, <3>3
    <3> QED BY <3>1, <3>3, <3>4
  <2> QED BY <2>1, <2>2
<1> QED BY <1>7, <1>8 DEF Agree

(* The scope of a loop goes, its variable stays among the locals. *)
LEMMA AgreeLoop ==
  ASSUME NEW sc, NEW ls, NEW b \in Nat, NEW m, Agree(sc, ls, b + 1, m), OfLoops(sc[b + 1])
  PROVE  Agree(sc, ls, b, m)
<1>1. \A k \in 1 .. b : k \in 1 .. b + 1
  OBVIOUS
<1>2. \A k \in 1 .. b + 1 : k \in 1 .. b \/ k = b + 1
  OBVIOUS
<1>3. ASSUME NEW j \in 1 .. m, ls[j].name \in Names
      PROVE  \E k \in 1 .. b : \E i \in DOMAIN sc[k] : sc[k][i] = ls[j]
  <2>1. PICK k \in 1 .. b + 1 : \E i \in DOMAIN sc[k] : sc[k][i] = ls[j]
    BY <1>3 DEF Agree
  <2>2. PICK i \in DOMAIN sc[k] : sc[k][i] = ls[j]
    BY <2>1
  <2>3. k # b + 1
    <3> SUFFICES ASSUME k = b + 1 PROVE FALSE
      OBVIOUS
    <3>1. ls[j].name \in LoopNames
      BY <2>2 DEF OfLoops
    <3> QED BY <1>3, <3>1, CodegenAssumption DEF CodegenAssumption
  <2> QED BY <1>2, <2>2, <2>3
<1> QED BY <1>1, <1>3, Zenon DEF Agree

-----------------------------------------------------------------------------
(* The scopes a construct is in are there, and not the innermost. *)
LEMMA TiedDepth ==
  ASSUME NEW o, NEW d, NEW sc, NEW ls, Tied(o, d, sc, ls), o \in Seq(Frame), Nesting(o),
         NEW p \in 1 .. Len(o)
  PROVE  /\ Len(sc) \in Nat /\ d[p] \in Nat
         /\ d[p] <= Len(sc) - 1
         /\ o[p].k = "for" => d[p] + 1 <= Len(sc) - 1
<1>1. Len(o) \in Nat /\ DOMAIN o = 1 .. Len(o) /\ o # << >> /\ Len(o) \in 1 .. Len(o)
  BY LenProperties, EmptySeq
<1>2. /\ \A q \in 1 .. Len(o) : d[q] \in Nat
      /\ Len(sc) = d[Len(o)] + 1
      /\ \A q, r \in 1 .. Len(o) : q <= r => d[q] <= d[r]
      /\ \A q \in 2 .. Len(o) : d[q] = d[q - 1] + ScopesOf(o[q - 1])
  BY <1>1 DEF Tied, Depths
<1>3. d[p] <= d[Len(o)]
  BY <1>1, <1>2
<1>4. ASSUME o[p].k = "for" PROVE d[p] + 1 <= d[Len(o)]
  <2>1. p < Len(o)
    BY <1>1, <1>4 DEF Nesting
  <2>2. p + 1 \in 2 .. Len(o) /\ p + 1 \in 1 .. Len(o) /\ p + 1 - 1 = p /\ p + 1 <= Len(o)
    BY <1>1, <2>1
  <2>3. ScopesOf(o[p]) = 1
    BY <1>4 DEF ScopesOf
  <2>4. d[p + 1] = d[p] + 1
    BY <1>2, <2>2, <2>3
  <2> QED BY <1>1, <1>2, <2>2, <2>4
<1> QED BY <1>1, <1>2, <1>3, <1>4

(* What constructs that are open are tied to stays, whatever happens to    *)
(* the innermost scope and behind the locals.                              *)
LEMMA TiedKeeps ==
  ASSUME NEW o, NEW d, NEW sc, NEW ls, Tied(o, d, sc, ls), NEW nd, Stack(o, Len(ls), nd), Len(ls) \in Nat,
         NEW tc, Begins(tc, sc, Len(sc) - 1),
         NEW ms, Begins(ms, ls, Len(ls)),
         NEW p \in 1 .. Len(o)
  PROVE  /\ o[p].k = "block" => Agree(tc, ms, d[p], o[p].locals)
         /\ o[p].k = "for" => OfLoops(tc[d[p] + 1])
<1>1. /\ Len(sc) \in Nat /\ d[p] \in Nat /\ d[p] <= Len(sc) - 1
      /\ o[p].k = "for" => d[p] + 1 <= Len(sc) - 1
  BY TiedDepth DEF Stack
<1>2. ASSUME o[p].k = "block" PROVE Agree(tc, ms, d[p], o[p].locals)
  <2>1. Agree(sc, ls, d[p], o[p].locals)
    BY <1>2 DEF Tied
  <2>2. o[p].locals <= Len(ls) /\ o[p].locals \in Nat
    <3>1. p \in DOMAIN o /\ o[p] \in Frame
      BY LenProperties, ElementOfSeq DEF Stack
    <3>2. o[p].locals \in Nat
      BY <1>2, <3>1 DEF Frame, BlockFrame, ThenFrame, ElseFrame, WhileFrame, ForFrame
    <3> QED BY <1>2, <3>1, <3>2 DEF Stack, Saved
  <2>3. Begins(tc, sc, d[p])
    BY <1>1, BeginsLess
  <2>4. Begins(ms, ls, o[p].locals)
    BY <2>2, BeginsLess
  <2> QED BY <2>1, <2>3, <2>4, AgreeBegins
<1>3. ASSUME o[p].k = "for" PROVE OfLoops(tc[d[p] + 1])
  <2>1. d[p] + 1 \in 1 .. Len(sc) - 1
    BY <1>1, <1>3
  <2>2. tc[d[p] + 1] = sc[d[p] + 1]
    BY <2>1, Zenon DEF Begins
  <2> QED BY <1>3, <2>2 DEF Tied
<1> QED BY <1>2, <1>3

LEMMA TiedDeclare ==
  ASSUME NEW o, NEW d, NEW sc, NEW ls, Tied(o, d, sc, ls), NEW nd, Stack(o, Len(ls), nd), Len(ls) \in Nat,
         o # << >>, NEW tc, Len(tc) = Len(sc), NEW ms, Len(ms) = Len(ls) + 1,
         \A k \in 1 .. Len(sc) : k # Len(sc) => tc[k] = sc[k],
         NEW x \in Symbol, sc[Len(sc)] \in Seq(Symbol), tc[Len(sc)] = Append(sc[Len(sc)], x),
         \A j \in 1 .. Len(ls) : ms[j] = ls[j], ms[Len(ls) + 1] = x
  PROVE  Tied(o, d, tc, ms)
<1>1. Len(o) \in 1 .. Len(o) /\ Nesting(o) /\ o \in Seq(Frame)
  BY LenProperties, EmptySeq DEF Stack
<1>2. Len(sc) \in Nat /\ Len(sc) >= 1
  BY <1>1, TiedDepth
<1>3. Begins(tc, sc, Len(sc) - 1) /\ Begins(ms, ls, Len(ls))
  BY <1>2 DEF Begins
<1>4. Agree(tc, ms, Len(tc), Len(ms))
  <2>1. Agree(sc, ls, Len(sc), Len(ls))
    BY DEF Tied
  <2>2. Agree(tc, ms, Len(sc), Len(ls) + 1)
    BY <1>2, <2>1, AgreeDeclare
  <2> QED BY <2>2
<1>5. \A p \in 1 .. Len(o) : /\ o[p].k = "block" => Agree(tc, ms, d[p], o[p].locals)
                             /\ o[p].k = "for" => OfLoops(tc[d[p] + 1])
  BY <1>3, TiedKeeps
<1> QED BY <1>4, <1>5 DEF Tied

(* A block opens in a block. *)
LEMMA TiedBlock ==
  ASSUME NEW o, NEW d, NEW sc, NEW ls, Tied(o, d, sc, ls), NEW nd, Stack(o, Len(ls), nd), Len(ls) \in Nat,
         o # << >>, NEW b \in BlockFrame, b.locals = Len(ls),
         NEW tc, Len(tc) = Len(sc) + 1,
         \A k \in 1 .. Len(sc) : tc[k] = sc[k], tc[Len(sc) + 1] = << >>
  PROVE  \E e : Tied(Append(o, b), e, tc, ls)
<1> DEFINE n == Len(o)
           t == Append(o, b)
           e == [p \in 1 .. n + 1 |-> IF p <= n THEN d[p] ELSE Len(sc)]
<1>1. n \in Nat /\ n \in 1 .. n /\ n \in DOMAIN o /\ Nesting(o) /\ o \in Seq(Frame)
  BY LenProperties, EmptySeq DEF Stack
<1>2. /\ Len(sc) \in Nat /\ Len(sc) >= 1
      /\ \A p \in 1 .. n : d[p] \in Nat /\ d[p] <= Len(sc) - 1
  BY <1>1, TiedDepth
<1>3. /\ Len(t) = n + 1 /\ t[n + 1] = b
      /\ \A p \in 1 .. n : t[p] = o[p]
      /\ b.k = "block"
  <2>1. b \in Frame
    BY DEF Frame
  <2> QED BY <1>1, <2>1, AppendProperties DEF BlockFrame
<1>4. o[n].k = "block"
  <2>1. ~(n < n)
    BY <1>1
  <2> QED BY <1>1, <2>1 DEF Nesting
<1>5. /\ d[1] = 1 /\ Len(sc) = d[n] + 1
      /\ \A p \in 2 .. n : d[p] = d[p - 1] + ScopesOf(o[p - 1])
      /\ \A p, q \in 1 .. n : p <= q => d[p] <= d[q]
  BY DEF Tied, Depths
<1> HIDE DEF n, t
<1>6. /\ e \in [1 .. n + 1 -> Nat] /\ e[n + 1] = Len(sc)
      /\ \A p \in 1 .. n : e[p] = d[p]
  BY <1>1, <1>2
<1>7. n + 1 \in 1 .. n + 1 /\ \A p \in 1 .. n + 1 : p \in 1 .. n \/ p = n + 1
  BY <1>1
<1> HIDE DEF e
<1>8. Depths(t, e)
  <2>1. e[1] = 1
    BY <1>1, <1>5, <1>6
  <2>2. ASSUME NEW p \in 2 .. n + 1 PROVE e[p] = e[p - 1] + ScopesOf(t[p - 1])
    <3>1. CASE p = n + 1
      <4>1. ScopesOf(t[n]) = 1 /\ p - 1 = n
        BY <1>1, <1>3, <1>4, <3>1 DEF ScopesOf
      <4> QED BY <1>1, <1>5, <1>6, <3>1, <4>1
    <3>2. CASE p # n + 1
      <4>1. p \in 2 .. n /\ p \in 1 .. n /\ p - 1 \in 1 .. n
        BY <1>1, <2>2, <3>2
      <4> QED BY <1>3, <1>5, <1>6, <4>1
    <3> QED BY <3>1, <3>2
  <2>3. ASSUME NEW p \in 1 .. n + 1, NEW q \in 1 .. n + 1, p <= q PROVE e[p] <= e[q]
    <3>1. CASE p \in 1 .. n /\ q \in 1 .. n
      <4>1. d[p] <= d[q]
        BY <1>5, <2>3, <3>1, Zenon
      <4>2. e[p] = d[p] /\ e[q] = d[q]
        BY <1>6, <3>1, Zenon
      <4> QED BY <4>1, <4>2
    <3>2. CASE p \in 1 .. n /\ q = n + 1
      <4>1. e[p] = d[p] /\ e[q] = Len(sc)
        BY <1>6, <3>2, Zenon
      <4>2. d[p] \in Nat /\ d[p] <= Len(sc) - 1
        BY <1>2, <3>2, Zenon
      <4> QED BY <1>2, <4>1, <4>2
    <3>3. CASE p = n + 1
      <4>1. q = n + 1
        BY <1>1, <2>3, <3>3
      <4> QED BY <1>2, <1>6, <3>3, <4>1
    <3> QED BY <1>7, <3>1, <3>2, <3>3
  <2> QED BY <1>3, <1>6, <2>1, <2>2, <2>3 DEF Depths
<1>9. Agree(sc, ls, Len(sc), Len(ls))
  BY DEF Tied
<1>10. Agree(tc, ls, Len(sc), Len(ls)) /\ Agree(tc, ls, Len(sc) + 1, Len(ls))
  <2>1. Agree(tc, ls, Len(sc), Len(ls))
    BY <1>9, AgreeSame
  <2> QED BY <1>2, <1>9, <2>1, AgreeEmpty
<1>11. ASSUME NEW p \in 1 .. n
       PROVE  /\ t[p].k = "block" => Agree(tc, ls, e[p], t[p].locals)
              /\ t[p].k = "for" => OfLoops(tc[e[p] + 1])
  <2>1. Begins(tc, sc, Len(sc) - 1) /\ Begins(ls, ls, Len(ls))
    BY <1>2 DEF Begins
  <2>2. /\ o[p].k = "block" => Agree(tc, ls, d[p], o[p].locals)
        /\ o[p].k = "for" => OfLoops(tc[d[p] + 1])
    BY <2>1, TiedKeeps DEF n
  <2> QED BY <1>3, <1>6, <2>2
<1>12. \A p \in 1 .. Len(t) : /\ t[p].k = "block" => Agree(tc, ls, e[p], t[p].locals)
                              /\ t[p].k = "for" => OfLoops(tc[e[p] + 1])
  <2>1. /\ t[n + 1].k = "block" => Agree(tc, ls, e[n + 1], t[n + 1].locals)
        /\ t[n + 1].k = "for" => OfLoops(tc[e[n + 1] + 1])
    BY <1>3, <1>6, <1>10
  <2> QED BY <1>3, <1>7, <1>11, <2>1
<1>13. Len(tc) = e[Len(t)] + 1
  BY <1>3, <1>6
<1>14. Tied(t, e, tc, ls)
  BY <1>8, <1>10, <1>12, <1>13 DEF Tied
<1> QED BY <1>14 DEF t

(* A construct f opens in a block, and its body in it. *)
LEMMA TiedPair ==
  ASSUME NEW o, NEW d, NEW sc, NEW ls, Tied(o, d, sc, ls), NEW nd, Stack(o, Len(ls), nd), Len(ls) \in Nat,
         o # << >>, NEW f \in Frame, f.k # "block", NEW b \in BlockFrame,
         NEW c, c = ScopesOf(f),
         NEW tc, Len(tc) = Len(sc) + c + 1, Begins(tc, sc, Len(sc)),
         NEW ms, Begins(ms, ls, Len(ls)),
         Agree(tc, ms, Len(sc) + c, b.locals), Agree(tc, ms, Len(tc), Len(ms)),
         f.k = "for" => OfLoops(tc[Len(sc) + 1])
  PROVE  \E e : Tied(o \o <<f, b>>, e, tc, ms)
<1> DEFINE n == Len(o)
           t == o \o <<f, b>>
           e == [p \in 1 .. n + 2 |-> IF p <= n THEN d[p] ELSE IF p = n + 1 THEN Len(sc) ELSE Len(sc) + c]
<1>1. n \in Nat /\ n \in 1 .. n /\ n \in DOMAIN o /\ Nesting(o) /\ o \in Seq(Frame)
  BY LenProperties, EmptySeq DEF Stack
<1>2. /\ Len(sc) \in Nat /\ Len(sc) >= 1 /\ c \in {0, 1}
      /\ \A p \in 1 .. n : d[p] \in Nat /\ d[p] <= Len(sc) - 1
  BY <1>1, TiedDepth DEF ScopesOf
<1>3. /\ Len(t) = n + 2 /\ t[n + 1] = f /\ t[n + 2] = b
      /\ \A p \in 1 .. n : t[p] = o[p]
      /\ b.k = "block"
  <2>1. b \in Frame /\ b.k = "block"
    BY DEF Frame, BlockFrame
  <2> QED BY <1>1, <2>1, PushTwo
<1>4. o[n].k = "block"
  <2>1. ~(n < n)
    BY <1>1
  <2> QED BY <1>1, <2>1 DEF Nesting
<1>5. /\ d[1] = 1 /\ Len(sc) = d[n] + 1
      /\ \A p \in 2 .. n : d[p] = d[p - 1] + ScopesOf(o[p - 1])
      /\ \A p, q \in 1 .. n : p <= q => d[p] <= d[q]
  BY DEF Tied, Depths
<1> HIDE DEF n, t
<1>6. /\ e \in [1 .. n + 2 -> Nat] /\ e[n + 1] = Len(sc) /\ e[n + 2] = Len(sc) + c
      /\ \A p \in 1 .. n : e[p] = d[p]
  BY <1>1, <1>2
<1>7. /\ n + 1 \in 1 .. n + 2 /\ n + 2 \in 1 .. n + 2
      /\ \A p \in 1 .. n + 2 : p \in 1 .. n \/ p = n + 1 \/ p = n + 2
  BY <1>1
<1> HIDE DEF e
<1>8. Depths(t, e)
  <2>1. e[1] = 1
    BY <1>1, <1>5, <1>6
  <2>2. ASSUME NEW p \in 2 .. n + 2 PROVE e[p] = e[p - 1] + ScopesOf(t[p - 1])
    <3>1. CASE p = n + 1
      <4>1. ScopesOf(t[n]) = 1 /\ p - 1 = n
        BY <1>1, <1>3, <1>4, <3>1 DEF ScopesOf
      <4> QED BY <1>1, <1>5, <1>6, <3>1, <4>1
    <3>2. CASE p = n + 2
      <4>1. p - 1 = n + 1
        BY <1>1, <3>2
      <4> QED BY <1>3, <1>6, <3>2, <4>1
    <3>3. CASE p # n + 1 /\ p # n + 2
      <4>1. p \in 2 .. n /\ p \in 1 .. n /\ p - 1 \in 1 .. n
        BY <1>1, <2>2, <3>3
      <4> QED BY <1>3, <1>5, <1>6, <4>1
    <3> QED BY <3>1, <3>2, <3>3
  <2>3. ASSUME NEW p \in 1 .. n + 2, NEW q \in 1 .. n + 2, p <= q PROVE e[p] <= e[q]
    <3>1. CASE p \in 1 .. n /\ q \in 1 .. n
      <4>1. d[p] <= d[q]
        BY <1>5, <2>3, <3>1, Zenon
      <4>2. e[p] = d[p] /\ e[q] = d[q]
        BY <1>6, <3>1, Zenon
      <4> QED BY <4>1, <4>2
    <3>2. CASE p \in 1 .. n /\ (q = n + 1 \/ q = n + 2)
      <4>1. e[p] = d[p] /\ (e[q] = Len(sc) \/ e[q] = Len(sc) + c)
        BY <1>6, <3>2, Zenon
      <4>2. d[p] \in Nat /\ d[p] <= Len(sc) - 1
        BY <1>2, <3>2, Zenon
      <4> QED BY <1>2, <4>1, <4>2
    <3>3. CASE p = n + 1
      <4>1. q = n + 1 \/ q = n + 2
        BY <1>1, <2>3, <3>3
      <4> QED BY <1>2, <1>6, <3>3, <4>1
    <3>4. CASE p = n + 2
      <4>1. q = n + 2
        BY <1>1, <2>3, <3>4
      <4> QED BY <1>2, <1>6, <3>4, <4>1
    <3> QED BY <1>7, <3>1, <3>2, <3>3, <3>4
  <2> QED BY <1>3, <1>6, <2>1, <2>2, <2>3 DEF Depths
<1>11. ASSUME NEW p \in 1 .. n
       PROVE  /\ t[p].k = "block" => Agree(tc, ms, e[p], t[p].locals)
              /\ t[p].k = "for" => OfLoops(tc[e[p] + 1])
  <2>1. Begins(tc, sc, Len(sc) - 1) /\ Begins(ms, ls, Len(ls))
    BY <1>2 DEF Begins
  <2>2. /\ o[p].k = "block" => Agree(tc, ms, d[p], o[p].locals)
        /\ o[p].k = "for" => OfLoops(tc[d[p] + 1])
    BY <2>1, TiedKeeps DEF n
  <2> QED BY <1>3, <1>6, <2>2
<1>12. \A p \in 1 .. Len(t) : /\ t[p].k = "block" => Agree(tc, ms, e[p], t[p].locals)
                              /\ t[p].k = "for" => OfLoops(tc[e[p] + 1])
  <2>1. /\ t[n + 1].k # "block"
        /\ t[n + 1].k = "for" => OfLoops(tc[e[n + 1] + 1])
    BY <1>3, <1>6
  <2>2. /\ Agree(tc, ms, e[n + 2], t[n + 2].locals)
        /\ t[n + 2].k # "for"
    BY <1>3, <1>6
  <2> QED BY <1>3, <1>7, <1>11, <2>1, <2>2
<1>13. Len(tc) = e[Len(t)] + 1
  BY <1>3, <1>6
<1>14. Tied(t, e, tc, ms)
  BY <1>8, <1>12, <1>13 DEF Tied
<1> QED BY <1>14 DEF t

(* The constructs behind the first n end, and the tables are cut to what   *)
(* was there when they opened.                                             *)
LEMMA TiedDrop ==
  ASSUME NEW o, NEW d, NEW sc, NEW ls, Tied(o, d, sc, ls), NEW nl, NEW nd, Stack(o, nl, nd),
         NEW n \in Nat, n < Len(o), n > 0 => o[n].k = "block",
         NEW m \in Nat, m = o[Len(o)].locals,
         NEW b \in Nat, Agree(sc, ls, b, m), n > 0 => b = d[n] + 1,
         NEW tc, Len(tc) = b, Begins(tc, sc, b),
         NEW ms, Len(ms) = m, Begins(ms, ls, m)
  PROVE  \E e : Tied(SubSeq(o, 1, n), e, tc, ms)
<1> DEFINE t == SubSeq(o, 1, n)
           e == [p \in 1 .. n |-> d[p]]
<1>1. /\ o \in Seq(Frame) /\ Len(o) \in Nat /\ DOMAIN o = 1 .. Len(o) /\ Len(o) \in DOMAIN o
      /\ \A p \in 1 .. n : p \in 1 .. Len(o) /\ p < Len(o)
      /\ Nesting(o)
  BY LenProperties DEF Stack
<1>2. /\ Len(t) = n /\ t \in Seq(Frame) /\ \A p \in 1 .. n : t[p] = o[p]
  BY <1>1, Prefix
<1>3. /\ \A p \in 1 .. Len(o) : d[p] \in Nat
      /\ o # << >> => d[1] = 1
      /\ \A p \in 2 .. Len(o) : d[p] = d[p - 1] + ScopesOf(o[p - 1])
      /\ \A p, q \in 1 .. Len(o) : p <= q => d[p] <= d[q]
  BY DEF Tied, Depths
<1> HIDE DEF t
<1>4. e \in [1 .. n -> Nat] /\ \A p \in 1 .. n : e[p] = d[p]
  BY <1>1, <1>3
<1> HIDE DEF e
<1>5. Depths(t, e)
  <2>1. ASSUME t # << >> PROVE e[1] = 1
    <3>1. n # 0 /\ o # << >>
      BY <1>1, <1>2, <2>1, EmptySeq
    <3> QED BY <1>3, <1>4, <3>1
  <2>2. ASSUME NEW p \in 2 .. n PROVE e[p] = e[p - 1] + ScopesOf(t[p - 1])
    <3>1. p \in 1 .. n /\ p - 1 \in 1 .. n /\ p \in 2 .. Len(o)
      BY <1>1, <2>2
    <3> QED BY <1>2, <1>3, <1>4, <3>1
  <2>3. ASSUME NEW p \in 1 .. n, NEW q \in 1 .. n, p <= q PROVE e[p] <= e[q]
    <3>1. d[p] <= d[q]
      BY <1>1, <1>3, <2>3, Zenon
    <3>2. e[p] = d[p] /\ e[q] = d[q]
      BY <1>4, Zenon
    <3> QED BY <3>1, <3>2
  <2> QED BY <1>2, <1>4, <2>1, <2>2, <2>3 DEF Depths
<1>6. Agree(tc, ms, Len(tc), Len(ms))
  BY AgreeSame DEF Begins
<1>7. ASSUME NEW p \in 1 .. n, t[p].k = "block" PROVE Agree(tc, ms, e[p], t[p].locals)
  <2>1. p \in DOMAIN o /\ o[p] \in Frame /\ o[p].k = "block" /\ t[p] = o[p] /\ e[p] = d[p]
    BY <1>1, <1>2, <1>4, <1>7, ElementOfSeq
  <2>2. o[p].locals \in Nat
    BY <2>1 DEF Frame, BlockFrame, ThenFrame, ElseFrame, WhileFrame, ForFrame
  <2>3. o[p].locals <= m
    <3>1. o[Len(o)].k = "block" /\ p <= Len(o)
      BY <1>1 DEF Nesting
    <3> QED BY <1>1, <2>1, <3>1 DEF Stack, Saved
  <2>4. d[p] \in Nat /\ d[p] <= b
    <3>1. n > 0 /\ n \in 1 .. Len(o) /\ p <= n
      BY <1>1, <1>7
    <3>2. d[p] <= d[n] /\ d[n] \in Nat /\ d[p] \in Nat
      BY <1>1, <1>3, <3>1
    <3> QED BY <3>1, <3>2
  <2>5. Agree(sc, ls, d[p], o[p].locals)
    BY <1>1, <2>1 DEF Tied
  <2>6. Begins(tc, sc, d[p])
    BY <2>4, BeginsLess
  <2>7. Begins(ms, ls, o[p].locals)
    BY <2>2, <2>3, BeginsLess
  <2> QED BY <2>1, <2>5, <2>6, <2>7, AgreeBegins
<1>8. ASSUME NEW p \in 1 .. n, t[p].k = "for" PROVE OfLoops(tc[e[p] + 1])
  <2>1. o[p].k = "for" /\ e[p] = d[p] /\ p \in 1 .. Len(o)
    BY <1>1, <1>2, <1>4, <1>8
  <2>2. p # n /\ n > 0
    BY <1>8, <2>1
  <2>3. p + 1 \in 2 .. Len(o) /\ p + 1 <= n /\ p + 1 - 1 = p /\ n \in 1 .. Len(o) /\ p + 1 \in 1 .. Len(o)
    BY <1>1, <1>8, <2>2
  <2>4. d[p + 1] = d[p] + 1
    BY <1>3, <2>1, <2>3 DEF ScopesOf
  <2>5. d[p + 1] <= d[n] /\ d[n] \in Nat /\ d[p] \in Nat
    BY <1>3, <2>1, <2>3
  <2>6. d[p] + 1 \in 1 .. b
    BY <2>2, <2>4, <2>5
  <2>7. tc[d[p] + 1] = sc[d[p] + 1]
    BY <2>6 DEF Begins
  <2> QED BY <2>1, <2>7 DEF Tied
<1>9. n > 0 => Len(tc) = e[Len(t)] + 1
  BY <1>2, <1>4
<1>10. t # << >> => n > 0
  BY <1>2, EmptySeq
<1>11. Tied(t, e, tc, ms)
  BY <1>2, <1>5, <1>6, <1>7, <1>8, <1>9, <1>10 DEF Tied
<1> QED BY <1>11 DEF t

(* The body of an else takes the place of that of its then. *)
LEMMA TiedElse ==
  ASSUME NEW o, NEW d, NEW sc, NEW ls, Tied(o, d, sc, ls), NEW nd, Stack(o, Len(ls), nd), Len(ls) \in Nat,
         Len(o) > 2, o[Len(o) - 1].k = "then",
         NEW f \in ElseFrame, NEW b \in BlockFrame, b.locals = o[Len(o)].locals,
         NEW tc, Len(tc) = Len(sc), Begins(tc, sc, Len(sc) - 1), tc[Len(sc)] = << >>,
         NEW ms, Len(ms) = b.locals, Begins(ms, ls, b.locals)
  PROVE  Tied(SubSeq(o, 1, Len(o) - 2) \o <<f, b>>, d, tc, ms)
<1> DEFINE n == Len(o)
           s == SubSeq(o, 1, n - 2)
           t == s \o <<f, b>>
<1>1. /\ o \in Seq(Frame) /\ n \in Nat /\ DOMAIN o = 1 .. n /\ Nesting(o)
      /\ n \in 1 .. n /\ n - 1 \in 1 .. n /\ n - 2 \in Nat /\ o # << >>
  BY LenProperties DEF Stack
<1>2. /\ f \in Frame /\ b \in Frame /\ f.k = "else" /\ b.k = "block" /\ b.locals \in Nat
  BY DEF Frame, ElseFrame, BlockFrame
<1>3. /\ Len(t) = n /\ t[n - 1] = f /\ t[n] = b
      /\ \A p \in 1 .. n - 2 : t[p] = o[p]
  <2>1. s \in Seq(Frame) /\ Len(s) = n - 2 /\ \A p \in 1 .. n - 2 : s[p] = o[p]
    <3>1. n - 2 \in Int /\ n - 2 <= Len(o) /\ n - 2 >= 0
      BY <1>1
    <3> QED BY <1>1, <3>1, Prefix
  <2> HIDE DEF s
  <2>2. /\ Len(t) = n - 2 + 2 /\ t[n - 2 + 1] = f /\ t[n - 2 + 2] = b
        /\ \A p \in 1 .. n - 2 : t[p] = s[p]
    BY <1>2, <2>1, PushTwo
  <2>3. n - 2 + 2 = n /\ n - 2 + 1 = n - 1
    BY <1>1
  <2> QED BY <2>1, <2>2, <2>3
<1>4. o[n].k = "block"
  <2>1. ~(n < n)
    BY <1>1
  <2> QED BY <1>1, <2>1 DEF Nesting
<1>5. /\ d \in [1 .. n -> Nat] /\ d[1] = 1 /\ Len(sc) = d[n] + 1
      /\ \A p \in 2 .. n : d[p] = d[p - 1] + ScopesOf(o[p - 1])
      /\ \A p, q \in 1 .. n : p <= q => d[p] <= d[q]
  BY <1>1 DEF Tied, Depths
<1> HIDE DEF n, t
<1>6. \A p \in 1 .. n : p \in 1 .. n - 2 \/ p = n - 1 \/ p = n
  BY <1>1
<1>7. \A p \in 1 .. n : ScopesOf(t[p]) = ScopesOf(o[p])
  <2>1. ScopesOf(t[n - 1]) = ScopesOf(o[n - 1]) /\ ScopesOf(t[n]) = ScopesOf(o[n])
    BY <1>2, <1>3, <1>4 DEF ScopesOf, n
  <2> QED BY <1>3, <1>6, <2>1
<1>8. Depths(t, d)
  <2>1. \A p \in 2 .. n : p - 1 \in 1 .. n
    BY <1>1
  <2>2. \A p \in 2 .. n : d[p] = d[p - 1] + ScopesOf(t[p - 1])
    BY <1>5, <1>7, <2>1
  <2> QED BY <1>3, <1>5, <2>2 DEF Depths
<1>9. d[n] \in Nat /\ Len(sc) - 1 = d[n]
  BY <1>1, <1>5
<1>10. Agree(tc, ms, d[n], b.locals) /\ Agree(tc, ms, d[n] + 1, b.locals)
  <2>1. Agree(sc, ls, d[n], b.locals)
    BY <1>1, <1>4 DEF Tied, n
  <2>2. (\A k \in 1 .. d[n] : tc[k] = sc[k]) /\ tc[d[n] + 1] = << >>
    BY <1>5, <1>9 DEF Begins
  <2>3. \A j \in 1 .. b.locals : ms[j] = ls[j]
    BY DEF Begins
  <2>4. Agree(tc, ms, d[n], b.locals)
    BY <2>1, <2>2, <2>3, AgreeSame
  <2> QED BY <1>9, <2>1, <2>2, <2>3, <2>4, AgreeEmpty
<1>11. ASSUME NEW p \in 1 .. n - 2
       PROVE  /\ t[p].k = "block" => Agree(tc, ms, d[p], t[p].locals)
              /\ t[p].k = "for" => OfLoops(tc[d[p] + 1])
  <2>1. p \in 1 .. Len(o) /\ t[p] = o[p] /\ o[p] \in Frame /\ p \in DOMAIN o /\ p <= n
    BY <1>1, <1>3, ElementOfSeq DEF n
  <2>2. /\ Len(sc) \in Nat /\ d[p] \in Nat /\ d[p] <= Len(sc) - 1
        /\ o[p].k = "for" => d[p] + 1 <= Len(sc) - 1
    BY <1>1, <2>1, TiedDepth
  <2>3. ASSUME o[p].k = "block" PROVE Agree(tc, ms, d[p], o[p].locals)
    <3>1. o[p].locals \in Nat
      BY <2>1, <2>3 DEF Frame, BlockFrame, ThenFrame, ElseFrame, WhileFrame, ForFrame
    <3>2. o[p].locals <= b.locals
      BY <1>1, <1>4, <2>1, <2>3 DEF Stack, Saved, n
    <3>3. Agree(sc, ls, d[p], o[p].locals)
      BY <2>1, <2>3 DEF Tied
    <3>4. Begins(tc, sc, d[p])
      BY <2>2, BeginsLess
    <3>5. Begins(ms, ls, o[p].locals)
      BY <1>2, <3>1, <3>2, BeginsLess
    <3> QED BY <3>3, <3>4, <3>5, AgreeBegins
  <2>4. ASSUME o[p].k = "for" PROVE OfLoops(tc[d[p] + 1])
    <3>1. d[p] + 1 \in 1 .. Len(sc) - 1
      BY <2>2, <2>4
    <3>2. tc[d[p] + 1] = sc[d[p] + 1]
      BY <3>1 DEF Begins
    <3> QED BY <2>1, <2>4, <3>2 DEF Tied
  <2> QED BY <2>1, <2>3, <2>4
<1>12. \A p \in 1 .. Len(t) : /\ t[p].k = "block" => Agree(tc, ms, d[p], t[p].locals)
                              /\ t[p].k = "for" => OfLoops(tc[d[p] + 1])
  <2>1. t[n - 1].k # "block" /\ t[n - 1].k # "for"
    BY <1>2, <1>3
  <2>2. Agree(tc, ms, d[n], t[n].locals) /\ t[n].k # "for"
    BY <1>2, <1>3, <1>10
  <2> QED BY <1>3, <1>6, <1>11, <2>1, <2>2
<1>13. Len(tc) = d[Len(t)] + 1 /\ Agree(tc, ms, Len(tc), Len(ms))
  BY <1>3, <1>5, <1>10
<1>14. Tied(t, d, tc, ms)
  BY <1>8, <1>12, <1>13 DEF Tied
<1> QED BY <1>14 DEF t, n

-----------------------------------------------------------------------------
(* Each action keeps locals and scopes tied. *)
LEMMA TieStays ==
  ASSUME NEW d, Tied(open, d, scopes, locals), UNCHANGED <<open, scopes, locals>>
  PROVE  Tied(open', d, scopes', locals')
BY Zenon

LEMMA TieLet ==
  ASSUME StackInv, LocalsFit, NEW d, Tied(open, d, scopes, locals), NEW n \in Names, Let(n)
  PROVE  Tied(open', d, scopes', locals')
<1> DEFINE x == [name |-> n, slot |-> slots + 1]
<1>1. open # << >> /\ open' = open /\ scopes' = Define(scopes, n) /\ locals' = AddLocal(n)
  BY DEF Let, Statement
<1>2. Len(locals) < MaxLocals
  BY DEF LocalsFit
<1>3. x \in Symbol /\ locals' = Append(locals, x)
  BY <1>1, <1>2 DEF AddLocal, Symbol, StackInv, Typing
<1>4. /\ slots \in Nat /\ Scoped(scopes, slots) /\ scopes \in Seq(Seq(Symbol)) /\ locals \in Seq(Symbol)
      /\ Len(locals) \in Nat /\ Stack(open, Len(locals), Len(defers))
  BY LenProperties DEF StackInv, Typing, Bounds, Scoped
<1>5. open \in Seq(Frame) /\ Nesting(open) /\ Len(open) \in 1 .. Len(open)
  BY <1>1, <1>4, EmptySeq, LenProperties DEF Stack
<1>6. Len(scopes) \in Nat /\ Len(scopes) >= 1 /\ scopes # << >>
  <2>1. Len(scopes) \in Nat /\ d[Len(open)] \in Nat /\ d[Len(open)] <= Len(scopes) - 1
    BY <1>5, TiedDepth
  <2> QED BY <1>4, <2>1, EmptySeq
<1>7. scopes[Len(scopes)] \in Seq(Symbol)
  BY <1>4, <1>6, ElementOfSeq
<1>8. /\ Len(scopes') = Len(scopes)
      /\ \A k \in 1 .. Len(scopes) : k # Len(scopes) => scopes'[k] = scopes[k]
      /\ scopes'[Len(scopes)] = Append(scopes[Len(scopes)], x)
  BY <1>1, <1>4, <1>6, ScopedDefine
<1> HIDE DEF x
<1>9. /\ Len(locals') = Len(locals) + 1 /\ locals'[Len(locals) + 1] = x
      /\ \A j \in 1 .. Len(locals) : locals'[j] = locals[j]
  BY <1>3, <1>4, AppendProperties
<1> QED BY <1>1, <1>3, <1>4, <1>7, <1>8, <1>9, TiedDeclare

LEMMA TieOpens ==
  ASSUME StackInv, NEW d, Tied(open, d, scopes, locals), OpenBlock \/ OpenIf \/ OpenWhile
  PROVE  \E e : Tied(open', e, scopes', locals')
<1> DEFINE b == Body(Len(defers))
<1>1. open # << >> /\ scopes' = Append(scopes, << >>) /\ locals' = locals
  BY DEF OpenBlock, OpenIf, OpenWhile, Statement
<1>2. /\ slots \in Nat /\ Scoped(scopes, slots) /\ locals \in Seq(Symbol) /\ next_label \in Nat
      /\ Len(locals) \in Nat /\ Len(defers) \in Nat /\ Stack(open, Len(locals), Len(defers))
  BY LenProperties DEF StackInv, Typing, Bounds, Scoped
<1>3. b \in BlockFrame /\ b.locals = Len(locals)
  BY <1>2 DEF Body, BlockFrame
<1>4. /\ Len(scopes') = Len(scopes) + 1 /\ scopes'[Len(scopes) + 1] = << >>
      /\ \A k \in 1 .. Len(scopes) : scopes'[k] = scopes[k]
  BY <1>1, <1>2, ScopedPush
<1> HIDE DEF b
<1>5. CASE OpenBlock
  <2>1. open' = Append(open, b)
    BY <1>5 DEF OpenBlock, b
  <2> QED BY <1>1, <1>2, <1>3, <1>4, <2>1, TiedBlock
<1>6. ASSUME NEW f \in Frame, f.k \notin {"block", "for"}, open' = open \o <<f, b>>
      PROVE  \E e : Tied(open', e, scopes', locals')
  <2>1. ScopesOf(f) = 0
    BY <1>6 DEF ScopesOf
  <2>2. Len(scopes) \in Nat
    BY LenProperties DEF StackInv, Typing
  <2>3. Agree(scopes, locals, Len(scopes), Len(locals))
    BY DEF Tied
  <2>4. /\ Agree(scopes', locals, Len(scopes), Len(locals))
        /\ Agree(scopes', locals, Len(scopes) + 1, Len(locals))
    <3>1. Agree(scopes', locals, Len(scopes), Len(locals))
      BY <1>4, <2>3, AgreeSame
    <3> QED BY <1>4, <2>2, <2>3, <3>1, AgreeEmpty
  <2>5. Len(scopes) + 0 = Len(scopes) /\ Len(scopes') = Len(scopes) + 0 + 1
    BY <1>4, <2>2
  <2>6. Begins(scopes', scopes, Len(scopes)) /\ Begins(locals, locals, Len(locals))
    BY <1>4 DEF Begins
  <2>7. \E e : Tied(open \o <<f, b>>, e, scopes', locals)
    BY <1>1, <1>2, <1>3, <1>6, <2>1, <2>4, <2>5, <2>6, TiedPair
  <2> QED BY <1>1, <1>6, <2>7
<1>7. CASE OpenIf
  <2> DEFINE f == [k |-> "then", el |-> next_label + 1, endl |-> next_label + 2]
  <2>1. f \in Frame /\ f.k = "then"
    BY <1>2 DEF Frame, ThenFrame
  <2>2. open' = open \o <<f, b>>
    BY <1>7, OpenedIf DEF b
  <2> HIDE DEF f
  <2> QED BY <1>6, <2>1, <2>2
<1>8. CASE OpenWhile
  <2> DEFINE f == [k |-> "while", brk |-> next_label + 2, cont |-> next_label]
  <2>1. f \in Frame /\ f.k = "while"
    BY <1>2 DEF Frame, WhileFrame
  <2>2. open' = open \o <<f, b>>
    BY <1>8, OpenedWhile DEF b
  <2> HIDE DEF f
  <2> QED BY <1>6, <2>1, <2>2
<1> QED BY <1>5, <1>7, <1>8

(* The scope of a loop holds its variable, which is a local of the block   *)
(* around the loop.                                                        *)
LEMMA TieFor ==
  ASSUME StackInv, LocalsFit, NEW d, Tied(open, d, scopes, locals), NEW n \in LoopNames, OpenFor(n)
  PROVE  \E e : Tied(open', e, scopes', locals')
<1> DEFINE x == [name |-> n, slot |-> slots + 1]
           sc1 == Append(scopes, << >>)
           sc2 == Define(sc1, n)
           f == [k |-> "for", brk |-> next_label + 3, cont |-> next_label + 2, cl |-> next_label]
           b == [Body(Len(defers)) EXCEPT !.locals = Len(AddLocal(n))]
           s == Len(scopes)
           m == Len(locals)
<1>1. /\ open # << >> /\ scopes' = Append(sc2, << >>) /\ locals' = AddLocal(n)
      /\ open' = open \o <<f, b>>
  BY OpenedFor DEF OpenFor, Statement
<1>2. m < MaxLocals
  BY DEF LocalsFit
<1>3. x \in Symbol /\ x.name = n /\ AddLocal(n) = Append(locals, x)
  BY <1>2 DEF AddLocal, Symbol, StackInv, Typing
<1>4. /\ slots \in Nat /\ Scoped(scopes, slots) /\ locals \in Seq(Symbol) /\ next_label \in Nat
      /\ m \in Nat /\ Len(defers) \in Nat /\ Stack(open, m, Len(defers)) /\ s \in Nat
  BY LenProperties DEF StackInv, Typing, Bounds, Scoped
<1>5. f \in Frame /\ f.k = "for" /\ ScopesOf(f) = 1
  BY <1>4 DEF Frame, ForFrame, ScopesOf
<1>6. /\ Len(locals') = m + 1 /\ locals'[m + 1] = x /\ \A j \in 1 .. m : locals'[j] = locals[j]
  BY <1>1, <1>3, <1>4, AppendProperties
<1>7. b \in BlockFrame /\ b.locals = m + 1
  <2>1. Len(AddLocal(n)) = m + 1 /\ m + 1 \in Nat
    BY <1>1, <1>4, <1>6
  <2>2. \A a \in Nat : /\ [Body(Len(defers)) EXCEPT !.locals = a] \in BlockFrame
                       /\ [Body(Len(defers)) EXCEPT !.locals = a].locals = a
    BY <1>4 DEF Body, BlockFrame
  <2> QED BY <2>1, <2>2, Zenon
<1>8. /\ Scoped(sc1, slots) /\ Len(sc1) = s + 1 /\ sc1[s + 1] = << >>
      /\ \A k \in 1 .. s : sc1[k] = scopes[k]
  BY <1>4, ScopedPush
<1> HIDE DEF sc1
<1>9. /\ Scoped(sc2, slots + 1) /\ Len(sc2) = s + 1
      /\ \A k \in 1 .. s : sc2[k] = scopes[k]
      /\ sc2[s + 1] = Append(<< >>, x)
  <2>1. n \in Names \cup LoopNames /\ sc1 # << >>
    BY <1>4, <1>8
  <2>2. /\ Scoped(sc2, slots + 1) /\ Len(sc2) = s + 1
        /\ \A k \in 1 .. s + 1 : k # s + 1 => sc2[k] = sc1[k]
        /\ sc2[s + 1] = Append(sc1[s + 1], x)
    BY <1>4, <1>8, <2>1, ScopedDefine
  <2>3. \A k \in 1 .. s : k \in 1 .. s + 1 /\ k # s + 1
    BY <1>4
  <2> QED BY <1>8, <2>2, <2>3
<1> HIDE DEF sc2, x, f, b
<1>10. /\ Len(scopes') = s + 2 /\ scopes'[s + 2] = << >>
       /\ \A k \in 1 .. s + 1 : scopes'[k] = sc2[k]
  <2>1. /\ Len(Append(sc2, << >>)) = Len(sc2) + 1 /\ Append(sc2, << >>)[Len(sc2) + 1] = << >>
        /\ \A k \in 1 .. Len(sc2) : Append(sc2, << >>)[k] = sc2[k]
    BY <1>9, ScopedPush
  <2> QED BY <1>1, <1>4, <1>9, <2>1
<1>11. Agree(sc1, locals, s + 1, m)
  <2>1. Agree(scopes, locals, s, m)
    BY DEF Tied
  <2> QED BY <1>4, <1>8, <2>1, AgreeEmpty
<1>12. Agree(sc2, locals', s + 1, m + 1)
  <2>1. /\ \A k \in 1 .. s + 1 : k # s + 1 => sc2[k] = sc1[k]
        /\ s + 1 \in Nat /\ s + 1 >= 1
        /\ sc1[s + 1] \in Seq(Symbol) /\ sc2[s + 1] = Append(sc1[s + 1], x)
    BY <1>4, <1>8, <1>9
  <2> QED BY <1>3, <1>4, <1>6, <1>11, <2>1, AgreeDeclare
<1>13. Agree(scopes', locals', s + 1, m + 1) /\ Agree(scopes', locals', s + 2, m + 1)
  <2>1. Agree(scopes', locals', s + 1, m + 1)
    BY <1>10, <1>12, AgreeSame
  <2>2. s + 1 \in Nat /\ s + 1 + 1 = s + 2
    BY <1>4
  <2>3. Agree(scopes', locals', s + 1 + 1, m + 1)
    BY <1>10, <1>12, <2>2, AgreeEmpty
  <2> QED BY <2>1, <2>2, <2>3
<1>14. OfLoops(scopes'[s + 1])
  <2>1. scopes'[s + 1] = <<x>>
    BY <1>4, <1>9, <1>10
  <2> QED BY <1>3, <2>1 DEF OfLoops
<1>15. Begins(scopes', scopes, s) /\ Begins(locals', locals, m)
  BY <1>4, <1>6, <1>9, <1>10 DEF Begins
<1>16. Len(scopes') = s + 1 + 1
  BY <1>4, <1>10
<1>17. \E e : Tied(open \o <<f, b>>, e, scopes', locals')
  <2>1. f.k # "block" /\ Agree(scopes', locals', s + 1, b.locals) /\ Agree(scopes', locals', Len(scopes'), Len(locals'))
    BY <1>5, <1>6, <1>7, <1>10, <1>13
  <2> QED BY <1>1, <1>4, <1>5, <1>7, <1>14, <1>15, <1>16, <2>1, TiedPair
<1> QED BY <1>1, <1>17

(* The end of a construct leaves what was tied when it opened. *)
LEMMA TieCloses ==
  ASSUME StackInv, NEW d, Tied(open, d, scopes, locals), Closing
  PROVE  \E e : Tied(open', e, scopes', locals')
<1> DEFINE n == Len(open)
           s == Len(scopes)
           m == Top.locals
<1>1. open # << >> /\ Stack(open, Len(locals), Len(defers)) /\ Nesting(open) /\ open \in Seq(Frame)
  BY ClosingEnds DEF StackInv, Stack
<1>2. n \in Nat /\ n >= 1 /\ n \in 1 .. n /\ DOMAIN open = 1 .. n
  BY <1>1, LenProperties, EmptySeq
<1>3. /\ Top \in BlockFrame /\ m \in Nat /\ m = open[n].locals /\ open[n].k = "block"
  BY <1>1, TopFacts DEF Top, BlockFrame
<1>4. /\ Len(locals) \in Nat /\ Len(locals') = m /\ \A j \in 1 .. m : locals'[j] = locals[j]
  BY <1>1, ClosingEnds, Closed, LenProperties DEF StackInv, Typing
<1>5. /\ d[1] = 1 /\ s = d[n] + 1 /\ \A p \in 1 .. n : d[p] \in Nat
      /\ \A p \in 2 .. n : d[p] = d[p - 1] + ScopesOf(open[p - 1])
  BY <1>1 DEF Tied, Depths
<1>6. s \in Nat /\ d[n] \in Nat /\ s - 1 = d[n] /\ scopes \in Seq(Seq(Symbol)) /\ Scoped(scopes, slots)
  BY <1>2, <1>5 DEF StackInv, Typing, Bounds, Scoped
<1>7. Agree(scopes, locals, d[n], m)
  BY <1>2, <1>3 DEF Tied
<1> HIDE DEF n, s, m
<1>8. ASSUME NEW k \in Nat, k < n, k > 0 => open[k].k = "block",
             open' = SubSeq(open, 1, k),
             NEW c \in Nat, c <= s, DropScopes(c), Agree(scopes, locals, s - c, m),
             k > 0 => s - c = d[k] + 1
      PROVE  \E e : Tied(open', e, scopes', locals')
  <2>1. scopes' = SubSeq(scopes, 1, Len(scopes) - c) /\ s >= c /\ s - c \in Nat
    BY <1>6, <1>8 DEF DropScopes
  <2>2. /\ Len(scopes') = s - c
        /\ \A i \in 1 .. s - c : scopes'[i] = scopes[i]
    BY <1>6, <2>1, ScopedDrop DEF s
  <2>3. \E e : Tied(SubSeq(open, 1, k), e, scopes', locals')
    <3>1. Begins(scopes', scopes, s - c) /\ Begins(locals', locals, m)
      BY <1>4, <2>2 DEF Begins
    <3> QED BY <1>1, <1>3, <1>4, <1>8, <2>1, <2>2, <3>1, TiedDrop DEF n
  <2> QED BY <1>8, <2>3
<1>9. CASE CloseFunc
  <2>1. n = 1 /\ open' = SubSeq(open, 1, 0) /\ DropScopes(1)
    BY <1>9, SubSeqEmpty DEF CloseFunc, n
  <2>2. 0 \in Nat /\ 0 < n /\ 1 \in Nat /\ 1 <= s /\ ~(0 > 0)
    BY <1>6, <2>1
  <2>3. Agree(scopes, locals, s - 1, m)
    BY <1>6, <1>7
  <2> QED BY <1>8, <2>1, <2>2, <2>3
<1>10. CASE CloseBlock
  <2>1. n > 1 /\ open[n - 1].k = "block" /\ open' = SubSeq(open, 1, n - 1) /\ DropScopes(1)
    BY <1>10 DEF CloseBlock, InBody, Parent, DropOpen, n
  <2>2. n - 1 \in Nat /\ n \in 2 .. n /\ n - 1 \in 1 .. n
    BY <1>2, <2>1
  <2>3. d[n] = d[n - 1] + 1
    BY <1>5, <2>1, <2>2 DEF ScopesOf
  <2>4. n - 1 < n /\ 1 \in Nat /\ 1 <= s /\ s - 1 = d[n - 1] + 1
    BY <1>2, <1>6, <2>3
  <2>5. Agree(scopes, locals, s - 1, m)
    BY <1>6, <1>7
  <2> QED BY <1>8, <2>1, <2>2, <2>4, <2>5
<1>11. ASSUME NEW k, InBody(k), k # "block"
       PROVE  /\ n > 2 /\ open[n - 1].k = k /\ open[n - 2].k = "block"
              /\ n - 2 \in Nat /\ n - 2 < n
              /\ d[n - 1] = d[n - 2] + 1
              /\ d[n] = d[n - 1] + IF k = "for" THEN 1 ELSE 0
  <2>1. n > 1 /\ open[n - 1].k = k /\ n - 1 \in DOMAIN open
    BY <1>2, <1>11 DEF InBody, Parent, n
  <2>2. n - 1 > 1 /\ open[n - 1 - 1].k = "block"
    BY <1>1, <1>11, <2>1 DEF Nesting
  <2>3. n - 1 - 1 = n - 2 /\ n - 1 \in 2 .. n /\ n \in 2 .. n
    BY <1>2, <2>2
  <2>4. d[n - 1] = d[n - 2] + 1
    BY <1>5, <2>2, <2>3 DEF ScopesOf
  <2>5. d[n] = d[n - 1] + ScopesOf(open[n - 1])
    BY <1>5, <2>3
  <2>6. ScopesOf(open[n - 1]) = IF k = "for" THEN 1 ELSE 0
    BY <1>11, <2>1 DEF ScopesOf
  <2> QED BY <1>2, <2>1, <2>2, <2>3, <2>4, <2>5, <2>6
<1>12. CASE CloseThen \/ CloseElse \/ CloseWhile
  <2>1. PICK k \in {"then", "else", "while"} : InBody(k)
    BY <1>12 DEF CloseThen, CloseElse, CloseWhile
  <2>2. open' = SubSeq(open, 1, n - 2) /\ DropScopes(1)
    BY <1>12 DEF CloseThen, CloseElse, CloseWhile, DropOpen, n
  <2>3. /\ n > 2 /\ open[n - 2].k = "block" /\ n - 2 \in Nat /\ n - 2 < n
        /\ d[n - 1] = d[n - 2] + 1 /\ d[n] = d[n - 1] + 0
    BY <1>11, <2>1
  <2>4. n - 2 \in 1 .. n /\ n - 1 \in 1 .. n
    BY <1>2, <2>3
  <2>5. d[n - 2] \in Nat /\ d[n - 1] \in Nat
    BY <1>5, <2>4
  <2>6. s - 1 = d[n - 2] + 1 /\ 1 \in Nat /\ 1 <= s
    BY <1>6, <2>3, <2>5
  <2>7. Agree(scopes, locals, s - 1, m)
    BY <1>6, <1>7
  <2> QED BY <1>8, <2>2, <2>3, <2>6, <2>7
<1>13. CASE CloseFor
  <2>1. InBody("for") /\ open' = SubSeq(open, 1, n - 2) /\ DropScopes(2)
    BY <1>13 DEF CloseFor, DropOpen, n
  <2>2. /\ n > 2 /\ open[n - 1].k = "for" /\ open[n - 2].k = "block" /\ n - 2 \in Nat /\ n - 2 < n
        /\ d[n - 1] = d[n - 2] + 1 /\ d[n] = d[n - 1] + 1
    BY <1>11, <2>1
  <2>3. n - 2 \in 1 .. n /\ n - 1 \in 1 .. n
    BY <1>2, <2>2
  <2>4. d[n - 1] \in Nat
    BY <1>5, <2>3
  <2>5. s - 2 = d[n - 1] /\ 2 \in Nat /\ 2 <= s
    BY <1>6, <2>2, <2>4
  <2>6. OfLoops(scopes[d[n - 1] + 1])
    BY <2>2, <2>3 DEF Tied, n
  <2>7. Agree(scopes, locals, d[n - 1], m)
    BY <1>7, <2>2, <2>4, <2>6, AgreeLoop
  <2>8. Agree(scopes, locals, s - 2, m)
    BY <2>5, <2>7
  <2> QED BY <1>8, <2>1, <2>2, <2>5, <2>8
<1>14. CASE OpenElse
  <2> DEFINE f == [k |-> "else", endl |-> Parent.endl]
             b == [k |-> "block", locals |-> Top.locals, defers |-> Top.defers]
  <2>1. InBody("then") /\ open' = SubSeq(open, 1, n - 2) \o <<f, b>>
    BY <1>14 DEF OpenElse, DropOpen, n
  <2>2. n > 2 /\ open[n - 1].k = "then"
    BY <1>11, <2>1
  <2>3. f \in ElseFrame /\ b \in BlockFrame /\ b.locals = m
    <3>1. Parent \in ThenFrame
      BY <1>1, <2>1, TopFacts
    <3> QED BY <1>3, <3>1 DEF ThenFrame, ElseFrame, BlockFrame, m
  <2>4. scopes' = [scopes EXCEPT ![s] = << >>]
    BY <1>14 DEF OpenElse, s
  <2>5. DOMAIN scopes = 1 .. s /\ s \in 1 .. s
    <3>1. s >= 1
      BY <1>6
    <3> QED BY <1>6, <3>1, LenProperties DEF s
  <2>6. scopes'[s] = << >> /\ Begins(scopes', scopes, s - 1) /\ Begins(locals', locals, m)
    <3>1. \A k \in 1 .. s - 1 : k \in 1 .. s /\ k # s
      BY <1>6
    <3> QED BY <1>4, <2>4, <2>5, <3>1 DEF Begins
  <2>7. Len(scopes') = s
    <3>1. DOMAIN scopes' = 1 .. s
      BY <2>4, <2>5
    <3>2. scopes' \in Seq(Seq(Symbol))
      BY <1>14, ScopesStep DEF Scoped, Lower, Closing
    <3> QED BY <1>6, <3>1, <3>2, LenProperties
  <2> HIDE DEF f, b
  <2>8. Tied(SubSeq(open, 1, n - 2) \o <<f, b>>, d, scopes', locals')
    BY <1>1, <1>3, <1>4, <2>2, <2>3, <2>6, <2>7, TiedElse DEF n, s
  <2> QED BY <2>1, <2>8
<1> QED BY <1>9, <1>10, <1>12, <1>13, <1>14 DEF Closing

LEMMA TieStep ==
  ASSUME StackInv, LocalsFit, \E d : Tied(open, d, scopes, locals), Lower
  PROVE  \E d : Tied(open', d, scopes', locals')
<1>1. PICK d : Tied(open, d, scopes, locals)
  OBVIOUS
<1>2. ASSUME NEW n, Read(n) \/ Defer \/ Return \/ Break \/ Continue
      PROVE  \E e : Tied(open', e, scopes', locals')
  <2>1. UNCHANGED <<open, scopes, locals>>
    BY <1>2 DEF Read, Defer, Return, Break, Continue
  <2> QED BY <1>1, <2>1, TieStays
<1>3. ASSUME NEW n \in Names, Let(n)
      PROVE  \E e : Tied(open', e, scopes', locals')
  BY <1>1, <1>3, TieLet
<1>4. ASSUME NEW n \in LoopNames, OpenFor(n)
      PROVE  \E e : Tied(open', e, scopes', locals')
  BY <1>1, <1>4, TieFor
<1>5. CASE OpenBlock \/ OpenIf \/ OpenWhile
  BY <1>1, <1>5, TieOpens
<1>6. CASE Closing
  BY <1>1, <1>6, TieCloses
<1> QED BY <1>2, <1>3, <1>4, <1>5, <1>6, Zenon DEF Lower, Closing

-----------------------------------------------------------------------------
LEMMA SlottedStep ==
  ASSUME StackInv, Slotted, Lower
  PROVE  Slotted'
<1>1. /\ slots \in Nat /\ Scoped(scopes, slots) /\ scopes \in Seq(Seq(Symbol))
      /\ DOMAIN scopes = 1 .. Len(scopes) /\ Len(scopes) \in Nat
  BY LenProperties DEF StackInv, Typing, Bounds, Scoped
<1>2. \A k \in DOMAIN scopes : scopes[k] \in Seq(Symbol) /\ Len(scopes[k]) \in Nat
  BY <1>1, ElementOfSeq, LenProperties
<1>3. Len(<< >>) = 0 /\ << >> \in Seq(Symbol)
  OBVIOUS
<1>4. slots' \in Nat /\ slots <= slots' /\ scopes' \in Seq(Seq(Symbol))
  BY LocalsStep, ScopesStep DEF Scoped
<1>5. DOMAIN scopes' = 1 .. Len(scopes') /\ Len(scopes') \in Nat
  BY <1>4, LenProperties
<1>6. ASSUME \A k \in DOMAIN scopes' : scopes'[k] = << >> \/ (k \in DOMAIN scopes /\ scopes'[k] = scopes[k])
      PROVE  Slotted'
  <2>1. ASSUME NEW k \in DOMAIN scopes' PROVE Len(scopes'[k]) <= slots'
    <3>1. CASE scopes'[k] = << >>
      BY <1>3, <1>4, <3>1
    <3>2. CASE k \in DOMAIN scopes /\ scopes'[k] = scopes[k]
      <4>1. Len(scopes[k]) <= slots
        BY <3>2 DEF Slotted
      <4> QED BY <1>1, <1>2, <1>4, <3>2, <4>1
    <3> QED BY <1>6, <3>1, <3>2
  <2> QED BY <2>1 DEF Slotted
<1>7. CASE UNCHANGED scopes
  BY <1>6, <1>7
<1>8. ASSUME NEW n \in Names, Let(n) PROVE Slotted'
  <2> DEFINE x == [name |-> n, slot |-> slots + 1]
  <2>1. scopes' = Define(scopes, n) /\ slots' = slots + 1
    BY <1>8 DEF Let
  <2>2. /\ Len(scopes') = Len(scopes)
        /\ \A k \in 1 .. Len(scopes) : k # Len(scopes) => scopes'[k] = scopes[k]
        /\ scopes # << >> => scopes'[Len(scopes)] = Append(scopes[Len(scopes)], x)
    BY <1>1, <2>1, ScopedDefine
  <2>3. x \in Symbol
    BY <1>1 DEF Symbol
  <2> HIDE DEF x
  <2>4. ASSUME NEW k \in DOMAIN scopes' PROVE Len(scopes'[k]) <= slots'
    <3>1. k \in DOMAIN scopes /\ Len(scopes[k]) <= slots /\ scopes[k] \in Seq(Symbol) /\ Len(scopes[k]) \in Nat
      BY <1>1, <1>2, <1>5, <2>2 DEF Slotted
    <3>2. CASE k # Len(scopes)
      <4>1. scopes'[k] = scopes[k]
        BY <1>1, <2>2, <3>1, <3>2
      <4> QED BY <1>1, <2>1, <3>1, <4>1
    <3>3. CASE k = Len(scopes)
      <4>1. scopes # << >>
        BY <1>1, <3>1, <3>3, EmptySeq
      <4>2. scopes'[k] = Append(scopes[k], x)
        BY <2>2, <3>3, <4>1
      <4>3. Len(scopes'[k]) = Len(scopes[k]) + 1
        BY <2>3, <3>1, <4>2, AppendProperties
      <4> QED BY <1>1, <2>1, <3>1, <4>3
    <3> QED BY <3>2, <3>3
  <2> QED BY <2>4 DEF Slotted
<1>9. ASSUME NEW n \in LoopNames, OpenFor(n) PROVE Slotted'
  <2> DEFINE x == [name |-> n, slot |-> slots + 1]
             sc1 == Append(scopes, << >>)
             sc2 == Define(sc1, n)
             s == Len(scopes)
  <2>1. scopes' = Append(sc2, << >>) /\ slots' = slots + 1
    BY <1>9 DEF OpenFor
  <2>2. /\ Scoped(sc1, slots) /\ Len(sc1) = s + 1 /\ sc1[s + 1] = << >>
        /\ \A k \in 1 .. s : sc1[k] = scopes[k]
    BY <1>1, ScopedPush
  <2>3. x \in Symbol
    BY <1>1 DEF Symbol
  <2> HIDE DEF sc1
  <2>4. /\ Scoped(sc2, slots + 1) /\ Len(sc2) = s + 1
        /\ \A k \in 1 .. s + 1 : k # s + 1 => sc2[k] = sc1[k]
        /\ sc2[s + 1] = Append(sc1[s + 1], x)
    <3>1. sc1 # << >>
      BY <1>1, <2>2
    <3> QED BY <1>1, <2>2, <3>1, ScopedDefine
  <2> HIDE DEF sc2, x
  <2>5. /\ Len(scopes') = s + 2 /\ scopes'[s + 2] = << >>
        /\ \A k \in 1 .. s + 1 : scopes'[k] = sc2[k]
    <3>1. /\ Len(Append(sc2, << >>)) = Len(sc2) + 1 /\ Append(sc2, << >>)[Len(sc2) + 1] = << >>
          /\ \A k \in 1 .. Len(sc2) : Append(sc2, << >>)[k] = sc2[k]
      BY <2>4, ScopedPush
    <3>2. Len(sc2) + 1 = s + 2
      BY <1>1, <2>4
    <3> QED BY <2>1, <2>4, <3>1, <3>2
  <2>6. ASSUME NEW k \in DOMAIN scopes' PROVE Len(scopes'[k]) <= slots'
    <3>1. k \in 1 .. s \/ k = s + 1 \/ k = s + 2
      BY <1>1, <1>5, <2>5
    <3>2. CASE k = s + 2
      BY <1>1, <1>3, <2>1, <2>5, <3>2
    <3>3. CASE k = s + 1
      <4>1. k \in 1 .. s + 1
        BY <1>1, <3>3
      <4>2. scopes'[k] = Append(<< >>, x)
        BY <2>2, <2>4, <2>5, <3>3, <4>1
      <4>3. Len(scopes'[k]) = 1
        BY <1>3, <2>3, <4>2, AppendProperties
      <4>4. slots' \in Nat /\ 1 <= slots'
        BY <1>1, <2>1
      <4> QED BY <4>3, <4>4
    <3>4. CASE k \in 1 .. s
      <4>1. k \in 1 .. s + 1 /\ k # s + 1
        BY <1>1, <3>4
      <4>2. scopes'[k] = scopes[k]
        BY <2>2, <2>4, <2>5, <3>4, <4>1
      <4>3. Len(scopes[k]) <= slots /\ Len(scopes[k]) \in Nat
        BY <1>1, <1>2, <3>4 DEF Slotted
      <4> QED BY <1>1, <2>1, <4>2, <4>3
    <3> QED BY <3>1, <3>2, <3>3, <3>4
  <2> QED BY <2>6 DEF Slotted
<1>10. CASE OpenBlock \/ OpenIf \/ OpenWhile
  <2>1. scopes' = Append(scopes, << >>)
    BY <1>10 DEF OpenBlock, OpenIf, OpenWhile
  <2>2. /\ Len(scopes') = Len(scopes) + 1 /\ scopes'[Len(scopes) + 1] = << >>
        /\ \A k \in 1 .. Len(scopes) : scopes'[k] = scopes[k]
    BY <1>1, <2>1, ScopedPush
  <2> QED BY <1>1, <1>5, <1>6, <2>2
<1>11. CASE OpenElse
  <2>1. scopes' = [scopes EXCEPT ![Len(scopes)] = << >>]
    BY <1>11 DEF OpenElse
  <2> QED BY <1>1, <1>6, <2>1
<1>12. ASSUME NEW c \in {1, 2}, DropScopes(c) PROVE Slotted'
  <2>1. scopes' = SubSeq(scopes, 1, Len(scopes) - c)
    BY <1>12 DEF DropScopes
  <2>2. \A k \in DOMAIN scopes' : k \in DOMAIN scopes /\ scopes'[k] = scopes[k]
    BY <1>1, <1>2, <2>1
  <2> QED BY <1>6, <2>2
<1>13. CASE CloseBlock \/ CloseThen \/ CloseElse \/ CloseWhile \/ CloseFor \/ CloseFunc
  BY <1>12, <1>13 DEF CloseBlock, CloseThen, CloseElse, CloseWhile, CloseFor, CloseFunc
<1> QED BY <1>7, <1>8, <1>9, <1>10, <1>11, <1>13, Zenon DEF Lower, Read, Defer, Return, Break, Continue

(* A name that nothing shadows is one symbol and one local. *)
LEMMA ReadAgrees ==
  ASSUME StackInv, Slotted, Agree(scopes, locals, Len(scopes), Len(locals)),
         NEW n \in Names \cup LoopNames, Lookup(n) # Unresolved, Unshadowed(n)
  PROVE  Find(n) = Lookup(n)
<1> DEFINE K == {ki \in (DOMAIN scopes) \X (1 .. slots) :
                    ki[2] \in DOMAIN scopes[ki[1]] /\ scopes[ki[1]][ki[2]].name = n}
           found == {j \in DOMAIN locals : locals[j].name = n}
<1>1. /\ scopes \in Seq(Seq(Symbol)) /\ DOMAIN scopes = 1 .. Len(scopes) /\ Len(scopes) \in Nat
      /\ locals \in Seq(Symbol) /\ DOMAIN locals = 1 .. Len(locals) /\ Len(locals) \in Nat /\ slots \in Nat
  BY LenProperties DEF StackInv, Typing
<1>2. Cardinality(K) = 1 /\ (n \in LoopNames => Cardinality(found) <= 1)
  BY DEF Unshadowed
<1>3. ASSUME NEW k \in DOMAIN scopes, NEW i \in DOMAIN scopes[k], scopes[k][i].name = n
      PROVE  <<k, i>> \in K
  <2>1. scopes[k] \in Seq(Symbol) /\ Len(scopes[k]) <= slots
    BY <1>1, ElementOfSeq DEF Slotted
  <2>2. i \in 1 .. slots
    BY <1>1, <2>1, LenProperties
  <2> QED BY <1>3, <2>2
<1>4. \A x, y \in K : x = y
  <2>1. IsFiniteSet((DOMAIN scopes) \X (1 .. slots))
    <3>1. IsFiniteSet(1 .. Len(scopes)) /\ IsFiniteSet(1 .. slots)
      BY <1>1, FS_Interval
    <3> QED BY <1>1, <3>1, FS_Product
  <2>2. K \subseteq (DOMAIN scopes) \X (1 .. slots)
    OBVIOUS
  <2> HIDE DEF K
  <2>3. IsFiniteSet(K)
    BY <2>1, <2>2, FS_Subset
  <2>4. \E x : K = {x}
    BY <1>2, <2>3, FS_Singleton
  <2> QED BY <2>4
<1> HIDE DEF K
<1>5. PICK k \in DOMAIN scopes : \E i \in DOMAIN scopes[k] :
         scopes[k][i].name = n /\ Lookup(n) = scopes[k][i].slot
  BY LookupFinds DEF StackInv
<1>6. PICK i \in DOMAIN scopes[k] : scopes[k][i].name = n /\ Lookup(n) = scopes[k][i].slot
  BY <1>5
<1>7. PICK j \in 1 .. Len(locals) : locals[j] = scopes[k][i]
  BY <1>1, <1>6 DEF Agree
<1>8. j \in found
  BY <1>1, <1>6, <1>7
<1>9. /\ FirstOf(found) \in found /\ FirstOf(found) \in 1 .. Len(locals)
      /\ locals[FirstOf(found)].name = n
      /\ Find(n) = locals[FirstOf(found)].slot
  <2>1. found \subseteq Nat /\ found # {}
    BY <1>1, <1>8
  <2>2. FirstOf(found) \in found
    BY <2>1, FirstExists
  <2>3. Find(n) = locals[FirstOf(found)].slot
    BY <2>1 DEF Find
  <2>4. FirstOf(found) \in DOMAIN locals /\ locals[FirstOf(found)].name = n
    BY <2>2
  <2> QED BY <1>1, <2>2, <2>3, <2>4
<1>10. CASE n \in Names
  <2>1. PICK k2 \in 1 .. Len(scopes) : \E i2 \in DOMAIN scopes[k2] : scopes[k2][i2] = locals[FirstOf(found)]
    BY <1>9, <1>10 DEF Agree
  <2>2. PICK i2 \in DOMAIN scopes[k2] : scopes[k2][i2] = locals[FirstOf(found)]
    BY <2>1
  <2>3. <<k2, i2>> \in K /\ <<k, i>> \in K
    BY <1>1, <1>3, <1>6, <1>9, <2>2
  <2>4. <<k2, i2>> = <<k, i>>
    BY <1>4, <2>3
  <2>5. k2 = k /\ i2 = i
    BY <2>4
  <2> QED BY <1>6, <1>9, <2>2, <2>5
<1>11. CASE n \in LoopNames
  <2>1. found \subseteq 1 .. Len(locals)
    BY <1>1
  <2>2. Cardinality(found) <= 1
    BY <1>2, <1>11
  <2> HIDE DEF found
  <2>3. IsFiniteSet(found)
    <3>1. IsFiniteSet(1 .. Len(locals))
      BY <1>1, FS_Interval
    <3> QED BY <2>1, <3>1, FS_Subset
  <2>4. Cardinality(found) = 1
    BY <1>8, <2>2, <2>3, FS_EmptySet, FS_CardinalityType
  <2>5. \E x : found = {x}
    BY <2>3, <2>4, FS_Singleton
  <2>6. FirstOf(found) = j
    BY <1>8, <1>9, <2>5
  <2> QED BY <1>6, <1>7, <1>9, <2>6
<1> QED BY <1>10, <1>11

-----------------------------------------------------------------------------
(* Only a read of a name adds a "use". *)
Others == {x \in Instr : x.op # "use"}

LEMMA OthersAdd ==
  ASSUME StackInv, Lower
  PROVE  \/ \E s \in Seq(Others) : s \in Seq(Instr) /\ Adds(s)
         \/ \E n \in Names \cup LoopNames : Read(n)
<1> USE DEF StackInv
<1> DEFINE Good == \E s \in Seq(Others) : s \in Seq(Instr) /\ Adds(s)
<1>1. \A op \in Ops \ {"use"}, arg \in Nat : I(op, arg) \in Others
  BY Plain DEF Others
<1>2. Others \subseteq Instr
  BY DEF Others
<1>3. \A s \in Seq(Others) : s \in Seq(Instr)
  BY <1>2, SeqMonotonic
<1>4. \A a, b, c, d, e \in Others :
         /\ <<a>> \in Seq(Others) /\ <<a, b>> \in Seq(Others) /\ <<a, b, c>> \in Seq(Others)
         /\ <<a, b, c, d>> \in Seq(Others) /\ <<a, b, c, d, e>> \in Seq(Others)
  OBVIOUS
<1>5. << >> \in Seq(Others)
  OBVIOUS
<1>6. ASSUME NEW s \in Seq(Others), Emit(s) PROVE Good
  BY <1>3, <1>6, EmitAdds
<1>7. ASSUME NEW s \in Seq(Others), Emit(RunBack(defers) \o s) PROVE Good
  BY <1>3, <1>7, RunsAdd DEF Typing
<1>8. CASE UNCHANGED code
  <2>1. Emit(<< >>)
    BY <1>8, ConcatEmptySeq DEF Emit, Typing
  <2> QED BY <1>5, <1>6, <2>1
<1>9. /\ Len(code) + 1 \in Nat /\ 0 \in Nat
      /\ \A c \in {0, 1, 2, 3} : next_label + c \in Nat
      /\ next_label = next_label + 0
      /\ \A op \in {"jmp", "jnz", "label", "reg", "ret"} : op \in Ops \ {"use"}
  BY LenProperties DEF Typing, Ops
<1>10. \A op \in {"jmp", "jnz", "label"} :
         /\ I(op, next_label) \in Others /\ I(op, next_label + 1) \in Others
         /\ I(op, next_label + 2) \in Others /\ I(op, next_label + 3) \in Others
  BY <1>1, <1>9
<1>11. CASE Defer
  <2>1. <<I("reg", Len(code) + 1)>> \in Seq(Others)
    BY <1>1, <1>4, <1>9
  <2> QED BY <1>6, <1>11, <2>1 DEF Defer
<1>12. CASE Return
  <2>1. <<I("ret", 0)>> \in Seq(Others)
    BY <1>1, <1>4, <1>9
  <2> QED BY <1>7, <1>12, <2>1 DEF Return
<1>13. CASE OpenIf
  BY <1>4, <1>6, <1>10, <1>13, OpenedIf
<1>14. CASE OpenWhile
  BY <1>4, <1>6, <1>10, <1>14, OpenedWhile
<1>15. ASSUME NEW n, OpenFor(n) PROVE Good
  BY <1>4, <1>6, <1>10, <1>15, OpenedFor
<1>16. loops # << >> => loops[Len(loops)].brk \in Nat /\ loops[Len(loops)].cont \in Nat
  <2>1. loops # << >> => Len(loops) \in DOMAIN loops
    BY LenProperties, EmptySeq DEF Typing
  <2>2. \A i \in DOMAIN loops : loops[i] \in LoopLabels
    BY ElementOfSeq, LenProperties DEF Typing
  <2> QED BY <2>1, <2>2 DEF LoopLabels
<1>17. ASSUME NEW l \in Nat, NEW w \in Nat PROVE <<[I("jmp", l) EXCEPT !.want = w]>> \in Seq(Others)
  <2>1. [I("jmp", l) EXCEPT !.want = w] \in Others
    BY DEF I, Instr, Ops, Others
  <2> QED BY <1>4, <2>1
<1>18. Around # {} => Loop.brk \in Nat /\ Loop.cont \in Nat
  BY LoopFacts
<1>19. CASE Break /\ loops # << >>
  <2> DEFINE s == <<[I("jmp", loops[Len(loops)].brk) EXCEPT !.want = Loop.brk]>>
  <2>1. s \in Seq(Others) /\ Emit(RunBack(defers) \o s)
    BY <1>16, <1>17, <1>18, <1>19 DEF Break
  <2> HIDE DEF s
  <2> QED BY <1>7, <2>1
<1>20. CASE Continue /\ loops # << >>
  <2> DEFINE s == <<[I("jmp", loops[Len(loops)].cont) EXCEPT !.want = Loop.cont]>>
  <2>1. s \in Seq(Others) /\ Emit(s)
    BY <1>16, <1>17, <1>18, <1>20 DEF Continue
  <2> HIDE DEF s
  <2> QED BY <1>6, <2>1
<1>21. CASE Closing
  <2>1. open # << >>
    BY <1>21, ClosingEnds
  <2>2. ASSUME NEW s \in Seq(Others), Close(s) PROVE Good
    BY <1>3, <2>1, <2>2, Closed
  <2>3. /\ InBody("then") => Parent.endl \in Nat /\ Parent.el \in Nat
        /\ InBody("else") => Parent.endl \in Nat
        /\ InBody("while") => Parent.cont \in Nat /\ Parent.brk \in Nat
        /\ InBody("for") => Parent.cont \in Nat /\ Parent.brk \in Nat /\ Parent.cl \in Nat
    BY <2>1, TopFacts DEF ThenFrame, ElseFrame, WhileFrame, ForFrame
  <2>4. \A l \in Nat : I("jmp", l) \in Others /\ I("label", l) \in Others /\ I("ret", l) \in Others
    BY <1>1, <1>9
  <2>5. /\ <<I("ret", 0)>> \in Seq(Others)
        /\ InBody("then") =>
             /\ <<I("jmp", Parent.endl), I("label", Parent.el)>> \in Seq(Others)
             /\ <<I("jmp", Parent.endl), I("label", Parent.el), I("jmp", Parent.endl),
                  I("label", Parent.endl)>> \in Seq(Others)
        /\ InBody("else") => <<I("jmp", Parent.endl), I("label", Parent.endl)>> \in Seq(Others)
        /\ InBody("while") => <<I("jmp", Parent.cont), I("label", Parent.brk)>> \in Seq(Others)
        /\ InBody("for") => <<I("jmp", Parent.cont), I("label", Parent.cont), I("jmp", Parent.cl),
                              I("label", Parent.brk)>> \in Seq(Others)
    BY <1>4, <1>9, <2>3, <2>4, Zenon
  <2> QED BY <1>5, <1>21, <2>2, <2>5, Zenon
          DEF Closing, CloseBlock, CloseThen, OpenElse, CloseElse, CloseWhile, CloseFor, CloseFunc
<1> QED BY <1>8, <1>11, <1>12, <1>13, <1>14, <1>15, <1>19, <1>20, <1>21, Zenon
        DEF Lower, Let, OpenBlock, Break, Continue, Closing

LEMMA UseStep ==
  ASSUME StackInv, NameInv, Lower
  PROVE  NamesResolveAsSema'
<1> SUFFICES ASSUME NEW i \in DOMAIN code', code'[i].op = "use", code'[i].sure
             PROVE  code'[i].arg = code'[i].want
  BY DEF NamesResolveAsSema
<1>1. ASSUME NEW s \in Seq(Instr), Adds(s),
             \A j \in 1 .. Len(s) : s[j].op = "use" /\ s[j].sure => s[j].arg = s[j].want
      PROVE  code'[i].arg = code'[i].want
  <2>1. PICK m \in Nat :
          /\ Len(code) <= m /\ Len(code') = m + Len(s)
          /\ \A j \in 1 .. Len(code) : code'[j] = code[j]
          /\ \A j \in Len(code) + 1 .. m : code'[j].op = "run"
          /\ \A j \in 1 .. Len(s) : code'[m + j] = s[j]
    BY <1>1 DEF Adds
  <2>2. /\ DOMAIN code = 1 .. Len(code) /\ Len(code) \in Nat /\ Len(s) \in Nat
        /\ i \in 1 .. m + Len(s)
    BY <1>1, <2>1, LenProperties DEF StackInv, Typing, Adds
  <2>3. CASE i <= Len(code)
    <3>1. i \in DOMAIN code /\ code'[i] = code[i]
      BY <2>1, <2>2, <2>3
    <3> QED BY <3>1 DEF NameInv, NamesResolveAsSema
  <2>4. CASE Len(code) < i /\ i <= m
    BY <2>1, <2>2, <2>4
  <2>5. CASE m < i
    <3>1. i - m \in 1 .. Len(s) /\ m + (i - m) = i
      BY <2>2, <2>5
    <3>2. code'[i] = s[i - m]
      BY <2>1, <3>1
    <3> QED BY <1>1, <3>1, <3>2
  <2> QED BY <2>2, <2>3, <2>4, <2>5
<1>2. ASSUME NEW s \in Seq(Others), s \in Seq(Instr), Adds(s) PROVE code'[i].arg = code'[i].want
  <2>1. \A j \in 1 .. Len(s) : s[j].op # "use"
    <3>1. \A j \in 1 .. Len(s) : s[j] \in Others
      BY ElementOfSeq
    <3> QED BY <3>1 DEF Others
  <2> QED BY <1>1, <1>2, <2>1
<1>3. ASSUME NEW n \in Names \cup LoopNames, Read(n) PROVE code'[i].arg = code'[i].want
  <2> DEFINE s == <<ReadOf(n)>>
  <2>1. s \in Seq(Instr) /\ Len(s) = 1 /\ s[1] = ReadOf(n)
    BY ReadType DEF StackInv
  <2>2. Emit(s) /\ Lookup(n) # Unresolved
    BY <1>3 DEF Read
  <2>3. Agree(scopes, locals, Len(scopes), Len(locals)) /\ Slotted
    BY DEF NameInv, Tied
  <2>4. ReadOf(n).sure => ReadOf(n).arg = ReadOf(n).want
    BY <2>2, <2>3, ReadAgrees DEF ReadOf
  <2> HIDE DEF s
  <2>5. Adds(s)
    BY <2>1, <2>2, EmitAdds DEF StackInv
  <2> QED BY <1>1, <2>1, <2>4, <2>5
<1> QED BY <1>2, <1>3, OthersAdd

LEMMA NameStep ==
  ASSUME StackInv, NameInv, [Next]_vars, [LocalsFit]_vars
  PROVE  NameInv'
<1>1. CASE Lower /\ LocalsFit
  BY <1>1, TieStep, SlottedStep, UseStep DEF NameInv
<1>2. CASE BeginRun \/ Execute \/ UNCHANGED vars
  <2>1. UNCHANGED <<open, scopes, locals, slots, code>>
    BY <1>2 DEF BeginRun, Execute, vars, lowerVars
  <2> QED BY <2>1 DEF NameInv, Slotted, NamesResolveAsSema
<1> QED BY <1>1, <1>2 DEF Next

LEMMA NameInit ==
  ASSUME Init
  PROVE  NameInv
<1> DEFINE d == [p \in {1} |-> 1]
<1>1. /\ open = <<[k |-> "block", locals |-> 0, defers |-> 0]>> /\ Len(open) = 1
      /\ scopes = << << >>, << >> >> /\ Len(scopes) = 2 /\ locals = << >> /\ Len(locals) = 0
      /\ DOMAIN code = {} /\ slots = 0
  BY DEF Init
<1>2. /\ open[1].k = "block" /\ open[1].locals = 0
      /\ \A k \in 1 .. 2 : scopes[k] = << >>
      /\ Len(<< >>) = 0 /\ DOMAIN << >> = {}
  BY <1>1
<1>3. 1 .. 1 = {1} /\ 2 .. 1 = {} /\ 1 .. 0 = {} /\ d \in [{1} -> Nat] /\ d[1] = 1
  OBVIOUS
<1>4. Depths(open, d)
  BY <1>1, <1>3 DEF Depths
<1>5. \A b \in {1, 2} : Agree(scopes, locals, b, 0)
  <2>1. \A b \in {1, 2} : \A k \in 1 .. b : k \in 1 .. 2
    OBVIOUS
  <2> QED BY <1>2, <1>3, <2>1 DEF Agree
<1>6. Tied(open, d, scopes, locals)
  <2>1. Agree(scopes, locals, Len(scopes), Len(locals)) /\ Agree(scopes, locals, d[1], open[1].locals)
    BY <1>1, <1>2, <1>3, <1>5
  <2> HIDE DEF d
  <2> QED BY <1>1, <1>2, <1>3, <1>4, <2>1 DEF Tied
<1>7. Slotted
  BY <1>1, <1>2 DEF Slotted
<1>8. NamesResolveAsSema
  BY <1>1 DEF NamesResolveAsSema
<1> QED BY <1>6, <1>7, <1>8 DEF NameInv

(* A name that nothing shadows is read from the slot of the declaration    *)
(* that sema resolved it to (cg_find_local, codegen.c, and scope_lookup,   *)
(* sema.c), whatever blocks and loops were entered and left: in every      *)
(* function whose locals CGCtx.locals has room for.                        *)
THEOREM NamesResolve == Spec /\ [][LocalsFit]_vars => []NamesResolveAsSema
<1>1. Init => StackInv /\ NameInv
  BY StackInit, NameInit
<1>2. StackInv /\ NameInv /\ [Next]_vars /\ [LocalsFit]_vars => (StackInv /\ NameInv)'
  BY StackStep, NameStep
<1>3. NameInv => NamesResolveAsSema
  BY DEF NameInv
<1> QED BY <1>1, <1>2, <1>3, PTL DEF Spec

-----------------------------------------------------------------------------
(* Defers: to every place of the code belong the deferred statements that  *)
(* are pending whenever the execution gets there, the last one reached     *)
(* last.                                                                   *)

Stacks == [Nat -> Seq(Nat)]

(* x finds the defers s pending and leaves t; at[l] are those pending at   *)
(* the label l.  Nothing comes behind a jump or a return except by a       *)
(* label, so there t is free.                                              *)
Passes(x, s, t, at) ==
    /\ x.op = "reg" => t = Append(s, x.arg)
    /\ x.op = "run" => s # << >> /\ s[Len(s)] = x.arg /\ t = SubSeq(s, 1, Len(s) - 1)
    /\ x.op = "ret" => s = << >>
    /\ x.op \in {"jmp", "jnz", "label"} => s = at[x.arg]
    /\ x.op \in {"jnz", "label", "use"} => t = s

(* The stack a[i] is pending before the instruction c[i]. *)
Fits(c, a, at) == \A i \in 1 .. Len(c) : Passes(c[i], a[i], a[i + 1], at)

Leads(c, s, t, at) == \E a \in Stacks : a[1] = s /\ a[Len(c) + 1] = t /\ Fits(c, a, at)

(* What the labels of a construct find pending: the defers that were       *)
(* pending when it began.                                                  *)
Expects(f, s, at) ==
    /\ f.k = "then" => at[f.el] = s /\ at[f.endl] = s
    /\ f.k = "else" => at[f.endl] = s
    /\ f.k = "while" => at[f.brk] = s /\ at[f.cont] = s
    /\ f.k = "for" => at[f.brk] = s /\ at[f.cont] = s /\ at[f.cl] = s

Meets(o, ds, at) ==
    \A i \in DOMAIN o : o[i].k # "block" => Expects(o[i], SubSeq(ds, 1, o[i + 1].defers), at)

(* The prefixes of sequences that begin alike, and of a prefix. *)
LEMMA SamePrefix ==
  ASSUME NEW S, NEW u \in Seq(S), NEW v \in Seq(S), NEW n \in Nat, n <= Len(u), n <= Len(v),
         \A i \in 1 .. n : u[i] = v[i]
  PROVE  SubSeq(u, 1, n) = SubSeq(v, 1, n)
<1> DEFINE p == SubSeq(u, 1, n)
           q == SubSeq(v, 1, n)
<1>1. n \in Int /\ n >= 0
  OBVIOUS
<1>2. p \in Seq(S) /\ Len(p) = n /\ \A i \in 1 .. n : p[i] = u[i]
  BY <1>1, Prefix
<1>3. q \in Seq(S) /\ Len(q) = n /\ \A i \in 1 .. n : q[i] = v[i]
  BY <1>1, Prefix
<1> HIDE DEF p, q
<1>4. \A i \in 1 .. n : p[i] = q[i]
  BY <1>2, <1>3
<1>5. p = q
  BY <1>2, <1>3, <1>4, SeqEqual
<1> QED BY <1>5 DEF p, q

LEMMA WholePrefix ==
  ASSUME NEW S, NEW s \in Seq(S)
  PROVE  SubSeq(s, 1, Len(s)) = s
<1> DEFINE p == SubSeq(s, 1, Len(s))
<1>1. Len(s) \in Nat /\ Len(s) \in Int /\ Len(s) <= Len(s) /\ Len(s) >= 0
  BY LenProperties
<1>2. p \in Seq(S) /\ Len(p) = Len(s) /\ \A i \in 1 .. Len(s) : p[i] = s[i]
  BY <1>1, Prefix
<1> HIDE DEF p
<1>3. p = s
  BY <1>2, SeqEqual
<1> QED BY <1>3 DEF p

LEMMA PrefixTwice ==
  ASSUME NEW S, NEW s \in Seq(S), NEW n \in Nat, NEW m \in Nat, m <= n, n <= Len(s)
  PROVE  SubSeq(SubSeq(s, 1, n), 1, m) = SubSeq(s, 1, m)
<1> DEFINE p == SubSeq(s, 1, n)
<1>1. Len(s) \in Nat /\ n \in Int /\ n >= 0 /\ m <= Len(s)
  BY LenProperties
<1>2. p \in Seq(S) /\ Len(p) = n /\ \A i \in 1 .. n : p[i] = s[i]
  BY <1>1, Prefix
<1>3. \A i \in 1 .. m : p[i] = s[i]
  BY <1>2
<1> HIDE DEF p
<1>4. SubSeq(p, 1, m) = SubSeq(s, 1, m)
  BY <1>1, <1>2, <1>3, SamePrefix
<1> QED BY <1>4 DEF p

(* Code that keeps one stack pending throughout. *)
LEMMA LeadsLevel ==
  ASSUME NEW c \in Seq(Instr), NEW s \in Seq(Nat), NEW at,
         \A i \in 1 .. Len(c) : Passes(c[i], s, s, at)
  PROVE  Leads(c, s, s, at)
<1> DEFINE a == [i \in Nat |-> s]
<1>1. a \in Stacks
  BY DEF Stacks
<1>2. \A i \in Nat : a[i] = s
  OBVIOUS
<1> HIDE DEF a
<1>3. Len(c) + 1 \in Nat /\ 1 \in Nat /\ \A i \in 1 .. Len(c) : i \in Nat /\ i + 1 \in Nat
  BY LenProperties
<1>4. a[1] = s /\ a[Len(c) + 1] = s
  BY <1>2, <1>3
<1>5. Fits(c, a, at)
  BY <1>2, <1>3 DEF Fits
<1> QED BY <1>1, <1>4, <1>5 DEF Leads

(* A single instruction. *)
LEMMA LeadsOne ==
  ASSUME NEW x \in Instr, NEW s \in Seq(Nat), NEW t \in Seq(Nat), NEW at, Passes(x, s, t, at)
  PROVE  Leads(<<x>>, s, t, at)
<1> DEFINE a == [i \in Nat |-> IF i = 1 THEN s ELSE t]
           c == <<x>>
<1>1. a \in Stacks /\ a[1] = s /\ a[2] = t
  BY DEF Stacks
<1>2. Len(c) = 1 /\ c[1] = x
  OBVIOUS
<1> HIDE DEF a, c
<1>3. \A i \in 1 .. 1 : i = 1
  OBVIOUS
<1>4. Fits(c, a, at)
  <2>1. 1 + 1 = 2
    OBVIOUS
  <2>2. Passes(c[1], a[1], a[1 + 1], at)
    BY <1>1, <1>2, <2>1
  <2> QED BY <1>2, <1>3, <2>2, Zenon DEF Fits
<1>5. a[Len(c) + 1] = t
  BY <1>1, <1>2
<1> QED BY <1>1, <1>4, <1>5, Zenon DEF Leads, c

(* One piece of code after another. *)
LEMMA LeadsBoth ==
  ASSUME NEW c \in Seq(Instr), NEW e \in Seq(Instr), NEW s, NEW t, NEW u, NEW at,
         Leads(c, s, t, at), Leads(e, t, u, at)
  PROVE  Leads(c \o e, s, u, at)
<1>1. PICK a \in Stacks : a[1] = s /\ a[Len(c) + 1] = t /\ Fits(c, a, at)
  BY DEF Leads
<1>2. PICK b \in Stacks : b[1] = t /\ b[Len(e) + 1] = u /\ Fits(e, b, at)
  BY DEF Leads
<1>3. PICK n \in Nat : n = Len(c)
  BY LenProperties
<1>4. PICK m \in Nat : m = Len(e)
  BY LenProperties
<1> DEFINE h == [i \in Nat |-> IF i <= n THEN a[i] ELSE b[i - n]]
           k == c \o e
<1>5. h \in Stacks
  <2>1. \A i \in Nat : ~(i <= n) => i - n \in Nat
    OBVIOUS
  <2>2. \A i \in Nat : a[i] \in Seq(Nat) /\ b[i] \in Seq(Nat)
    BY Zenon DEF Stacks
  <2>3. \A i \in Nat : (IF i <= n THEN a[i] ELSE b[i - n]) \in Seq(Nat)
    BY <2>1, <2>2
  <2> QED BY <2>3, Zenon DEF Stacks
<1>6. /\ \A i \in 1 .. n : h[i] = a[i]
      /\ \A i \in Nat : i > n => h[i] = b[i - n]
  OBVIOUS
<1>7. /\ Len(k) = n + m
      /\ \A i \in 1 .. n : k[i] = c[i]
      /\ \A i \in n + 1 .. n + m : k[i] = e[i - n]
  <2>1. /\ Len(k) = n + m
        /\ \A i \in 1 .. n + m : k[i] = IF i <= n THEN c[i] ELSE e[i - n]
    BY <1>3, <1>4, ConcatProperties
  <2> HIDE DEF k
  <2> QED BY <2>1
<1> HIDE DEF h, k
<1>8. h[n + 1] = t /\ a[n + 1] = t
  <2>1. n + 1 \in Nat /\ n + 1 > n /\ (n + 1) - n = 1
    OBVIOUS
  <2> QED BY <1>1, <1>2, <1>3, <1>6, <2>1
<1>9. h[1] = s
  <2>1. CASE n = 0
    BY <1>1, <1>3, <1>8, <2>1
  <2>2. CASE n # 0
    <3>1. 1 \in 1 .. n
      BY <2>2
    <3> QED BY <1>1, <1>6, <3>1
  <2> QED BY <2>1, <2>2
<1>10. h[Len(k) + 1] = u
  <2>1. n + m + 1 \in Nat /\ n + m + 1 > n /\ (n + m + 1) - n = m + 1
    OBVIOUS
  <2> QED BY <1>2, <1>4, <1>6, <1>7, <2>1
<1>11. ASSUME NEW i \in 1 .. n + m
       PROVE  Passes(k[i], h[i], h[i + 1], at)
  <2>1. CASE i <= n
    <3>1. i \in 1 .. n
      BY <2>1
    <3>2. Passes(c[i], a[i], a[i + 1], at)
      BY <1>1, <1>3, <3>1 DEF Fits
    <3>3. h[i + 1] = a[i + 1]
      <4>1. CASE i = n
        BY <1>8, <4>1
      <4>2. CASE i # n
        <5>1. i + 1 \in 1 .. n
          BY <3>1, <4>2
        <5> QED BY <1>6, <5>1
      <4> QED BY <4>1, <4>2
    <3> QED BY <1>6, <1>7, <3>1, <3>2, <3>3
  <2>2. CASE ~(i <= n)
    <3>1. PICK j \in 1 .. m : i = n + j
      <4>1. i - n \in 1 .. m /\ i = n + (i - n)
        BY <2>2
      <4> QED BY <4>1
    <3>2. /\ i \in n + 1 .. n + m /\ i - n = j /\ i > n /\ i \in Nat
          /\ i + 1 \in Nat /\ i + 1 > n /\ (i + 1) - n = j + 1
      BY <3>1
    <3>3. Passes(e[j], b[j], b[j + 1], at)
      BY <1>2, <1>4, <3>1 DEF Fits
    <3>4. k[i] = e[j] /\ h[i] = b[j] /\ h[i + 1] = b[j + 1]
      BY <1>6, <1>7, <3>2
    <3> QED BY <3>3, <3>4
  <2> QED BY <2>1, <2>2
<1>12. Fits(k, h, at)
  BY <1>7, <1>11, Zenon DEF Fits
<1>13. Leads(k, s, u, at)
  BY <1>5, <1>9, <1>10, <1>12, Zenon DEF Leads
<1> QED BY <1>13 DEF k

(* Running the defers behind the first k leaves those k pending. *)
LEMMA LeadsRuns ==
  ASSUME NEW s \in Seq(Nat), NEW k \in Nat, k <= Len(s), NEW at
  PROVE  Leads(RunBack(SubSeq(s, k + 1, Len(s))), s, SubSeq(s, 1, k), at)
<1> DEFINE ds == SubSeq(s, k + 1, Len(s))
           c == RunBack(ds)
<1>1. PICK n \in Nat : n = Len(s)
  BY LenProperties
<1>2. PICK m \in Nat : n = k + m
  <2>1. n - k \in Nat /\ n = k + (n - k)
    BY <1>1
  <2> QED BY <2>1
<1>3. /\ ds \in Seq(Nat) /\ Len(ds) = m
      /\ \A j \in 1 .. m : ds[j] = s[k + j]
  <2>1. \A j \in k + 1 .. n : s[j] \in Nat
    BY <1>1, ElementOfSeq, LenProperties
  <2>2. /\ ds \in Seq(Nat)
        /\ Len(ds) = IF k + 1 <= n THEN n - (k + 1) + 1 ELSE 0
        /\ \A j \in 1 .. n - (k + 1) + 1 : ds[j] = s[k + 1 + j - 1]
    BY <1>1, <2>1, SubSeqProperties
  <2> HIDE DEF ds
  <2>3. Len(ds) = m
    BY <1>2, <2>2
  <2>4. \A j \in 1 .. m : j \in 1 .. n - (k + 1) + 1 /\ k + 1 + j - 1 = k + j
    BY <1>2
  <2> QED BY <2>2, <2>3, <2>4
<1> HIDE DEF ds
<1>4. c \in Seq(Instr) /\ Len(c) = m /\ \A i \in 1 .. m : c[i].op = "run"
  BY <1>3, RunBackType
<1>5. \A i \in 1 .. m : c[i].arg = s[n + 1 - i]
  <2> SUFFICES ASSUME NEW i \in 1 .. m PROVE c[i].arg = s[n + 1 - i]
    OBVIOUS
  <2>1. c[i] = I("run", ds[m + 1 - i])
    BY <1>3, Zenon DEF RunBack
  <2>2. m + 1 - i \in 1 .. m /\ k + (m + 1 - i) = n + 1 - i
    BY <1>2
  <2>3. ds[m + 1 - i] = s[n + 1 - i]
    BY <1>3, <2>2
  <2> QED BY <2>1, <2>3 DEF I
<1> DEFINE a == [i \in Nat |-> IF i = 0 THEN s ELSE SubSeq(s, 1, n + 1 - i)]
<1>6. \A i \in 1 .. m + 1 : a[i] = SubSeq(s, 1, n + 1 - i)
  <2>1. \A i \in 1 .. m + 1 : i \in Nat /\ i # 0
    OBVIOUS
  <2> QED BY <2>1
<1>7. a \in Stacks
  <2>1. ASSUME NEW i \in Nat, i # 0 PROVE SubSeq(s, 1, n + 1 - i) \in Seq(Nat)
    <3>1. n + 1 - i \in Int /\ n + 1 - i <= Len(s)
      BY <1>1, <2>1
    <3> QED BY <3>1, Prefix
  <2>2. \A i \in Nat : (IF i = 0 THEN s ELSE SubSeq(s, 1, n + 1 - i)) \in Seq(Nat)
    BY <2>1
  <2> QED BY <2>2, Zenon DEF Stacks
<1> HIDE DEF a, c
<1>8. ASSUME NEW i \in 1 .. m
      PROVE  Passes(c[i], a[i], a[i + 1], at)
  <2>1. PICK q \in Nat : n - i = q
    <3>1. n - i \in Nat
      BY <1>2
    <3> QED BY <3>1
  <2>2. /\ i \in 1 .. m + 1 /\ i + 1 \in 1 .. m + 1 /\ n + 1 - i = q + 1 /\ n + 1 - (i + 1) = q
        /\ q + 1 <= n /\ q + 1 \in Nat /\ q <= q + 1
    BY <1>2, <2>1
  <2> DEFINE p == SubSeq(s, 1, q + 1)
  <2>3. a[i] = p /\ a[i + 1] = SubSeq(s, 1, q)
    BY <1>6, <2>2
  <2>4. p \in Seq(Nat) /\ Len(p) = q + 1 /\ p[q + 1] = s[q + 1]
    <3>1. q + 1 \in Int /\ q + 1 <= Len(s) /\ q + 1 >= 0 /\ q + 1 \in 1 .. q + 1
      BY <1>1, <2>2
    <3> QED BY <3>1, Prefix
  <2>5. SubSeq(p, 1, q) = SubSeq(s, 1, q)
    BY <1>1, <2>2, PrefixTwice
  <2> HIDE DEF p
  <2>6. p # << >> /\ p[Len(p)] = s[q + 1] /\ SubSeq(p, 1, Len(p) - 1) = SubSeq(s, 1, q)
    <3>1. Len(p) # 0 /\ Len(p) - 1 = q
      BY <2>4
    <3> QED BY <2>4, <2>5, <3>1, EmptySeq
  <2>7. c[i].op = "run" /\ c[i].arg = s[q + 1]
    BY <1>4, <1>5, <2>2
  <2> QED BY <2>3, <2>6, <2>7 DEF Passes
<1>9. a[1] = s /\ a[m + 1] = SubSeq(s, 1, k)
  <2>1. 1 \in 1 .. m + 1 /\ m + 1 \in 1 .. m + 1 /\ n + 1 - 1 = n /\ n + 1 - (m + 1) = k
    BY <1>2
  <2> QED BY <1>1, <1>6, <2>1, WholePrefix
<1>10. Fits(c, a, at)
  BY <1>4, <1>8 DEF Fits
<1>11. Leads(c, s, SubSeq(s, 1, k), at)
  BY <1>4, <1>7, <1>9, <1>10 DEF Leads
<1> QED BY <1>11 DEF c, ds

(* All of them. *)
LEMMA LeadsOut ==
  ASSUME NEW s \in Seq(Nat), NEW at
  PROVE  Leads(RunBack(s), s, << >>, at)
<1>1. Len(s) \in Nat /\ 0 \in Nat /\ 0 <= Len(s) /\ 0 + 1 = 1
  BY LenProperties
<1>2. Leads(RunBack(SubSeq(s, 0 + 1, Len(s))), s, SubSeq(s, 1, 0), at)
  BY <1>1, LeadsRuns
<1>3. SubSeq(s, 1, 0) = << >>
  BY SubSeqEmpty
<1> QED BY <1>1, <1>2, <1>3, WholePrefix

(* The labels that a piece of code names are all below n. *)
Below(c, n) == \A i \in DOMAIN c : c[i].op \in {"jmp", "jnz", "label"} => c[i].arg < n

LEMMA LeadsFar ==
  ASSUME NEW c \in Seq(Instr), NEW s, NEW t, NEW at, NEW bt, NEW n \in Nat,
         Leads(c, s, t, at), Below(c, n), \A l \in Nat : l < n => bt[l] = at[l]
  PROVE  Leads(c, s, t, bt)
<1>1. PICK a \in Stacks : a[1] = s /\ a[Len(c) + 1] = t /\ Fits(c, a, at)
  BY DEF Leads
<1>2. \A i \in 1 .. Len(c) : c[i] \in Instr /\ i \in DOMAIN c
  BY ElementOfSeq, LenProperties
<1>3. ASSUME NEW i \in 1 .. Len(c)
      PROVE  Passes(c[i], a[i], a[i + 1], bt)
  <2>1. c[i].arg \in Nat
    BY <1>2 DEF Instr
  <2>2. c[i].op \in {"jmp", "jnz", "label"} => bt[c[i].arg] = at[c[i].arg]
    BY <1>2, <2>1 DEF Below
  <2>3. Passes(c[i], a[i], a[i + 1], at)
    BY <1>1 DEF Fits
  <2> QED BY <2>2, <2>3 DEF Passes
<1> QED BY <1>1, <1>3 DEF Fits, Leads

(* A label, or a jump to one, where the defers are those the label expects. *)
LEMMA Level ==
  ASSUME NEW op \in {"jmp", "jnz", "label"}, NEW l \in Nat, NEW at
  PROVE  Passes(I(op, l), at[l], at[l], at)
BY DEF Passes, I

(* The body of a construct, and the mark of defers it saved. *)
LEMMA BodyMark ==
  ASSUME NEW o, NEW nl \in Nat, NEW nd \in Nat, Stack(o, nl, nd), NEW i \in DOMAIN o, o[i].k # "block"
  PROVE  /\ i \in 1 .. Len(o) /\ i + 1 \in DOMAIN o /\ o[i] \in Frame
         /\ o[i + 1].k = "block" /\ o[i + 1].defers \in Nat /\ o[i + 1].defers <= nd
<1>1. o \in Seq(Frame) /\ DOMAIN o = 1 .. Len(o) /\ Len(o) \in Nat
  BY LenProperties DEF Stack
<1>2. i < Len(o) /\ o[i + 1].k = "block"
  BY DEF Stack, Nesting
<1>3. i + 1 \in DOMAIN o
  BY <1>1, <1>2
<1>4. o[i + 1] \in Frame /\ o[i] \in Frame
  BY <1>1, <1>3, ElementOfSeq
<1>5. o[i + 1].defers \in Nat
  BY <1>2, <1>4 DEF Frame, BlockFrame, ThenFrame, ElseFrame, WhileFrame, ForFrame
<1>6. o[i + 1].defers <= nd
  BY <1>2, <1>3, Zenon DEF Stack, Saved
<1> QED BY <1>1, <1>2, <1>3, <1>4, <1>5, <1>6

(* The constructs that are open keep their stacks when defers are met, *)
LEMMA MeetsMore ==
  ASSUME NEW o, NEW nl \in Nat, NEW ds \in Seq(Nat), Stack(o, nl, Len(ds)), NEW at, Meets(o, ds, at),
         NEW dt \in Seq(Nat), Len(ds) <= Len(dt), \A j \in 1 .. Len(ds) : dt[j] = ds[j]
  PROVE  Meets(o, dt, at)
<1> SUFFICES ASSUME NEW i \in DOMAIN o, o[i].k # "block"
             PROVE  Expects(o[i], SubSeq(dt, 1, o[i + 1].defers), at)
  BY DEF Meets
<1>1. Len(ds) \in Nat /\ Len(dt) \in Nat
  BY LenProperties
<1>2. PICK m \in Nat : m = o[i + 1].defers /\ m <= Len(ds)
  BY <1>1, BodyMark
<1>3. m <= Len(dt) /\ \A j \in 1 .. m : ds[j] = dt[j]
  BY <1>1, <1>2
<1>4. SubSeq(ds, 1, m) = SubSeq(dt, 1, m)
  BY <1>2, <1>3, SamePrefix
<1>5. Expects(o[i], SubSeq(ds, 1, m), at)
  BY <1>2 DEF Meets
<1> QED BY <1>2, <1>4, <1>5

(* when a block begins, *)
LEMMA MeetsBlock ==
  ASSUME NEW o, NEW nl \in Nat, NEW nd \in Nat, Stack(o, nl, nd), NEW ds, NEW at, Meets(o, ds, at),
         NEW b \in BlockFrame
  PROVE  Meets(Append(o, b), ds, at)
<1> DEFINE t == Append(o, b)
<1>1. o \in Seq(Frame) /\ DOMAIN o = 1 .. Len(o) /\ Len(o) \in Nat /\ b \in Frame /\ b.k = "block"
  BY LenProperties DEF Stack, Frame, BlockFrame
<1>2. /\ t \in Seq(Frame) /\ Len(t) = Len(o) + 1 /\ t[Len(o) + 1] = b
      /\ \A i \in 1 .. Len(o) : t[i] = o[i]
  BY <1>1, AppendProperties
<1> HIDE DEF t
<1>3. DOMAIN t = 1 .. Len(o) + 1
  BY <1>2, LenProperties
<1>4. ASSUME NEW i \in DOMAIN t, t[i].k # "block"
      PROVE  Expects(t[i], SubSeq(ds, 1, t[i + 1].defers), at)
  <2>1. i # Len(o) + 1
    BY <1>1, <1>2, <1>4
  <2>2. i \in DOMAIN o /\ i \in 1 .. Len(o)
    BY <1>1, <1>3, <2>1
  <2>3. t[i] = o[i] /\ o[i].k # "block"
    BY <1>2, <1>4, <2>2
  <2>4. i + 1 \in 1 .. Len(o)
    BY <1>1, <2>2, <2>3, BodyMark
  <2>5. t[i + 1] = o[i + 1]
    BY <1>2, <2>4
  <2> QED BY <2>2, <2>3, <2>5 DEF Meets
<1>5. Meets(t, ds, at)
  BY <1>4 DEF Meets
<1> QED BY <1>5 DEF t

(* when a construct begins that expects the defers of its body, *)
LEMMA MeetsPair ==
  ASSUME NEW o, NEW nl \in Nat, NEW nd \in Nat, Stack(o, nl, nd), NEW ds, NEW at, Meets(o, ds, at),
         NEW f \in Frame, NEW b \in BlockFrame, Expects(f, SubSeq(ds, 1, b.defers), at)
  PROVE  Meets(o \o <<f, b>>, ds, at)
<1> DEFINE t == o \o <<f, b>>
<1>1. o \in Seq(Frame) /\ DOMAIN o = 1 .. Len(o) /\ Len(o) \in Nat /\ b \in Frame /\ b.k = "block"
  BY LenProperties DEF Stack, Frame, BlockFrame
<1>2. /\ t \in Seq(Frame) /\ Len(t) = Len(o) + 2 /\ t[Len(o) + 1] = f /\ t[Len(o) + 2] = b
      /\ \A i \in 1 .. Len(o) : t[i] = o[i]
  BY <1>1, PushTwo
<1> HIDE DEF t
<1>3. DOMAIN t = 1 .. Len(o) + 2
  BY <1>2, LenProperties
<1>4. ASSUME NEW i \in DOMAIN t, t[i].k # "block"
      PROVE  Expects(t[i], SubSeq(ds, 1, t[i + 1].defers), at)
  <2>1. i # Len(o) + 2
    BY <1>1, <1>2, <1>4
  <2>2. CASE i = Len(o) + 1
    <3>1. i + 1 = Len(o) + 2
      BY <1>1, <2>2
    <3>2. t[i] = f /\ t[i + 1] = b
      BY <1>2, <2>2, <3>1
    <3> QED BY <3>2
  <2>3. CASE i # Len(o) + 1
    <3>1. i \in DOMAIN o /\ i \in 1 .. Len(o)
      BY <1>1, <1>3, <2>1, <2>3
    <3>2. t[i] = o[i] /\ o[i].k # "block"
      BY <1>2, <1>4, <3>1
    <3>3. i + 1 \in 1 .. Len(o)
      BY <1>1, <3>1, <3>2, BodyMark
    <3>4. t[i + 1] = o[i + 1]
      BY <1>2, <3>3
    <3> QED BY <3>1, <3>2, <3>4 DEF Meets
  <2> QED BY <2>2, <2>3
<1>5. Meets(t, ds, at)
  BY <1>4 DEF Meets
<1> QED BY <1>5 DEF t

(* when a block ends, with the construct it is the body of, *)
LEMMA MeetsDrop ==
  ASSUME NEW o, NEW nl \in Nat, NEW ds \in Seq(Nat), Stack(o, nl, Len(ds)), NEW at, Meets(o, ds, at),
         o # << >>, o[Len(o)].k = "block", NEW d \in 1 .. Len(o),
         d < Len(o) => o[Len(o) - d].k = "block"
  PROVE  Meets(SubSeq(o, 1, Len(o) - d), SubSeq(ds, 1, o[Len(o)].defers), at)
<1> DEFINE t == SubSeq(o, 1, Len(o) - d)
           m == o[Len(o)].defers
           dt == SubSeq(ds, 1, m)
<1>1. /\ o \in Seq(Frame) /\ DOMAIN o = 1 .. Len(o) /\ Len(o) \in Nat /\ Len(ds) \in Nat
      /\ Len(o) \in DOMAIN o
  BY LenProperties, EmptySeq DEF Stack
<1>2. Len(o) - d \in Int /\ Len(o) - d >= 0 /\ Len(o) - d <= Len(o) /\ Len(o) - d < Len(o)
  BY <1>1
<1>3. /\ t \in Seq(Frame) /\ Len(t) = Len(o) - d
      /\ \A i \in 1 .. Len(o) - d : t[i] = o[i]
  BY <1>1, <1>2, Prefix
<1>4. Stack(t, o[Len(o)].locals, m)
  BY <1>1, StackDrop
<1> HIDE DEF t
<1>5. m \in Nat /\ m <= Len(ds) /\ o[Len(o)].locals \in Nat
  <2>1. o[Len(o)] \in Frame
    BY <1>1, ElementOfSeq
  <2>2. m \in Nat /\ o[Len(o)].locals \in Nat
    BY <2>1 DEF Frame, BlockFrame, ThenFrame, ElseFrame, WhileFrame, ForFrame
  <2>3. m <= Len(ds)
    BY <1>1, Zenon DEF Stack, Saved
  <2> QED BY <2>2, <2>3
<1>6. DOMAIN t = 1 .. Len(o) - d
  BY <1>3, LenProperties
<1>7. ASSUME NEW i \in DOMAIN t, t[i].k # "block"
      PROVE  Expects(t[i], SubSeq(dt, 1, t[i + 1].defers), at)
  <2>1. i \in 1 .. Len(o) - d /\ i \in DOMAIN o
    BY <1>1, <1>2, <1>6
  <2>2. i + 1 \in DOMAIN t
    BY <1>4, <1>5, <1>7, BodyMark
  <2>3. i + 1 \in 1 .. Len(o) - d /\ i + 1 \in DOMAIN o /\ i + 1 <= Len(o)
    BY <1>1, <1>2, <1>6, <2>1, <2>2
  <2>4. t[i] = o[i] /\ t[i + 1] = o[i + 1] /\ o[i].k # "block"
    BY <1>3, <1>7, <2>1, <2>3
  <2>5. PICK q \in Nat : q = o[i + 1].defers /\ o[i + 1].k = "block"
    BY <1>1, <2>1, <2>4, BodyMark
  <2>6. q <= m
    BY <1>1, <2>3, <2>5 DEF Stack, Saved
  <2>7. SubSeq(dt, 1, q) = SubSeq(ds, 1, q)
    BY <1>5, <2>6, PrefixTwice
  <2>8. Expects(o[i], SubSeq(ds, 1, q), at)
    BY <2>1, <2>4, <2>5 DEF Meets
  <2> HIDE DEF dt
  <2> QED BY <2>4, <2>5, <2>7, <2>8
<1>8. Meets(t, dt, at)
  BY <1>7 DEF Meets
<1> QED BY <1>8 DEF t

(* and when labels are handed out that none of them has. *)
LabelsOf(f) ==
    CASE f.k = "then" -> {f.el, f.endl}
      [] f.k = "else" -> {f.endl}
      [] f.k = "while" -> {f.brk, f.cont}
      [] f.k = "for" -> {f.brk, f.cont, f.cl}
      [] OTHER -> {}

LEMMA MeetsFar ==
  ASSUME NEW o \in Seq(Frame), NEW ds, NEW at, NEW bt, Meets(o, ds, at),
         \A i \in DOMAIN o : \A l \in LabelsOf(o[i]) : bt[l] = at[l]
  PROVE  Meets(o, ds, bt)
<1> SUFFICES ASSUME NEW i \in DOMAIN o, o[i].k # "block"
             PROVE  Expects(o[i], SubSeq(ds, 1, o[i + 1].defers), bt)
  BY DEF Meets
<1>1. PICK f : f = o[i]
  OBVIOUS
<1>2. Expects(f, SubSeq(ds, 1, o[i + 1].defers), at)
  BY <1>1 DEF Meets
<1>3. \A l \in LabelsOf(f) : bt[l] = at[l]
  BY <1>1
<1>4. /\ f.k = "then" => bt[f.el] = at[f.el] /\ bt[f.endl] = at[f.endl]
      /\ f.k = "else" => bt[f.endl] = at[f.endl]
      /\ f.k = "while" => bt[f.brk] = at[f.brk] /\ bt[f.cont] = at[f.cont]
      /\ f.k = "for" => bt[f.brk] = at[f.brk] /\ bt[f.cont] = at[f.cont] /\ bt[f.cl] = at[f.cl]
  BY <1>3 DEF LabelsOf
<1>5. Expects(f, SubSeq(ds, 1, o[i + 1].defers), bt)
  BY <1>2, <1>4 DEF Expects
<1> QED BY <1>1, <1>5

(* The labels in the code, and those of the constructs, were handed out. *)
LEMMA LabelsBelow ==
  ASSUME StackInv, LabelInv
  PROVE  /\ Below(code, next_label)
         /\ \A i \in DOMAIN open : \A l \in LabelsOf(open[i]) : l \in Nat /\ l < next_label
<1>1. DOMAIN code = 1 .. Len(code) /\ \A i \in DOMAIN code : code[i] \in Instr
  BY ElementOfSeq, LenProperties DEF StackInv, Typing
<1>2. ASSUME NEW i \in DOMAIN code, code[i].op = "label" PROVE code[i].arg < next_label
  <2>1. code[i].arg \in Nat /\ Marks(code, code[i].arg)
    BY <1>1, <1>2 DEF Instr, Marks
  <2> QED BY <2>1, Zenon DEF LabelInv
<1>3. Below(code, next_label)
  BY <1>2, Zenon DEF LabelInv, Targets, Below
<1>4. ASSUME NEW i \in DOMAIN open, NEW l \in LabelsOf(open[i])
      PROVE  l \in Nat /\ l < next_label
  <2>1. open[i] \in Frame
    BY ElementOfSeq, LenProperties DEF StackInv, Typing
  <2>2. l \in Nat
    BY <2>1 DEF LabelsOf, Frame, BlockFrame, ThenFrame, ElseFrame, WhileFrame, ForFrame
  <2>3. \/ Owes(open[i], l)
        \/ open[i].k = "while" /\ l = open[i].cont
        \/ open[i].k = "for" /\ l = open[i].cl
    BY DEF LabelsOf, Owes
  <2>4. ASSUME Owes(open[i], l) PROVE l < next_label
    <3>1. Owed(open, l)
      BY <2>4, Zenon DEF Owed
    <3> QED BY <2>2, <3>1, Zenon DEF LabelInv
  <2>5. /\ open[i].k = "while" => open[i].cont < next_label
        /\ open[i].k = "for" => open[i].cl < next_label
    BY Zenon DEF LabelInv, Distinct
  <2> QED BY <2>2, <2>3, <2>4, <2>5, Zenon
<1> QED BY <1>3, <1>4

-----------------------------------------------------------------------------
(* Each action carries the stacks on. *)

Carries(c, o, ds) == \E at \in Stacks : Leads(c, << >>, ds, at) /\ Meets(o, ds, at)

(* The body of the function began with nothing deferred. *)
Outermost(o) == o # << >> => o[1].defers = 0

(* A deferred statement is met only where CGCtx.defers has room for it. *)
DefersFit == Defer => Len(defers) < MaxDefers

LEMMA CarryEmit ==
  ASSUME Typing, NEW at, Leads(code, << >>, defers, at),
         NEW e \in Seq(Instr), Emit(e), NEW t, Leads(e, defers, t, at)
  PROVE  Leads(code', << >>, t, at)
<1>1. code \in Seq(Instr) /\ code' = code \o e
  BY DEF Typing, Emit
<1> QED BY <1>1, LeadsBoth

LEMMA CarryPlain ==
  ASSUME StackInv, Carries(code, open, defers), DefersFit,
         NEW n, Let(n) \/ OpenBlock \/ Read(n) \/ Defer \/ Return
  PROVE  Carries(code', open', defers')
<1>1. PICK at \in Stacks : Leads(code, << >>, defers, at) /\ Meets(open, defers, at)
  BY DEF Carries
<1>2. /\ Typing /\ defers \in Seq(Nat) /\ Len(defers) \in Nat /\ Len(code) \in Nat /\ Len(locals) \in Nat
      /\ Stack(open, Len(locals), Len(defers))
  BY LenProperties DEF StackInv, Typing
<1>3. CASE Let(n)
  <2>1. code' = code /\ open' = open /\ defers' = defers
    BY <1>3 DEF Let
  <2> QED BY <1>1, <2>1, Zenon DEF Carries
<1>4. CASE OpenBlock
  <2>1. code' = code /\ open' = Append(open, Body(Len(defers))) /\ defers' = defers
    BY <1>4 DEF OpenBlock
  <2>2. Body(Len(defers)) \in BlockFrame
    BY <1>2 DEF Body, BlockFrame
  <2>3. Meets(open', defers', at)
    BY <1>1, <1>2, <2>1, <2>2, MeetsBlock
  <2> QED BY <1>1, <2>1, <2>3, Zenon DEF Carries
<1>5. CASE Read(n)
  <2>1. Emit(<<ReadOf(n)>>) /\ open' = open /\ defers' = defers
    BY <1>5 DEF Read
  <2>2. ReadOf(n) \in Instr /\ ReadOf(n).op = "use"
    BY <1>2, ReadType DEF ReadOf
  <2>3. Passes(ReadOf(n), defers, defers, at)
    BY <2>2 DEF Passes
  <2>4. Leads(<<ReadOf(n)>>, defers, defers, at)
    BY <1>2, <2>2, <2>3, LeadsOne
  <2>5. <<ReadOf(n)>> \in Seq(Instr)
    BY <2>2
  <2>6. Leads(code', << >>, defers, at)
    BY <1>1, <1>2, <2>1, <2>4, <2>5, CarryEmit
  <2> QED BY <1>1, <2>1, <2>6, Zenon DEF Carries
<1>6. CASE Defer
  <2> DEFINE x == I("reg", Len(code) + 1)
  <2>1. Emit(<<x>>) /\ open' = open
    BY <1>6 DEF Defer
  <2>2. defers' = Append(defers, Len(code) + 1)
    BY <1>6 DEF Defer, DefersFit
  <2>3. Len(code) + 1 \in Nat
    BY <1>2
  <2>4. x \in Instr /\ x.op = "reg" /\ x.arg = Len(code) + 1
    BY <2>3, Plain DEF Ops
  <2> HIDE DEF x
  <2>5. /\ defers' \in Seq(Nat) /\ Len(defers) <= Len(defers')
        /\ \A j \in 1 .. Len(defers) : defers'[j] = defers[j]
    <3>1. /\ defers' \in Seq(Nat) /\ Len(defers') = Len(defers) + 1
          /\ \A j \in 1 .. Len(defers) : defers'[j] = defers[j]
      BY <1>2, <2>2, <2>3, AppendProperties
    <3> QED BY <1>2, <3>1
  <2>6. Passes(x, defers, defers', at)
    BY <2>2, <2>4 DEF Passes
  <2>7. Leads(<<x>>, defers, defers', at) /\ <<x>> \in Seq(Instr)
    BY <1>2, <2>4, <2>5, <2>6, LeadsOne
  <2>8. Leads(code', << >>, defers', at)
    BY <1>1, <1>2, <2>1, <2>7, CarryEmit
  <2>9. Meets(open, defers', at)
    BY <1>1, <1>2, <2>5, MeetsMore
  <2> QED BY <2>1, <2>8, <2>9, Zenon DEF Carries
<1>7. CASE Return
  <2> DEFINE x == I("ret", 0)
             r == RunBack(defers)
  <2>1. Emit(r \o <<x>>) /\ open' = open /\ defers' = defers
    BY <1>7 DEF Return
  <2>2. x \in Instr /\ x.op = "ret" /\ << >> \in Seq(Nat)
    BY Plain DEF Ops
  <2>3. r \in Seq(Instr)
    BY <1>2, RunBackType
  <2>4. Leads(r, defers, << >>, at)
    BY <1>2, LeadsOut
  <2> HIDE DEF x, r
  <2>5. Passes(x, << >>, defers, at)
    BY <2>2 DEF Passes
  <2>6. Leads(<<x>>, << >>, defers, at) /\ <<x>> \in Seq(Instr)
    <3>1. PICK e \in Seq(Nat) : e = << >>
      BY <2>2
    <3>2. Leads(<<x>>, e, defers, at)
      BY <1>2, <2>2, <2>5, <3>1, LeadsOne
    <3>3. <<x>> \in Seq(Instr)
      BY <2>2
    <3> QED BY <3>1, <3>2, <3>3, Zenon
  <2>7. Leads(r \o <<x>>, defers, defers, at) /\ r \o <<x>> \in Seq(Instr)
    BY <2>3, <2>4, <2>6, LeadsBoth, ConcatProperties
  <2>8. Leads(code', << >>, defers, at)
    BY <1>1, <1>2, <2>1, <2>7, CarryEmit
  <2> QED BY <1>1, <2>1, <2>8, Zenon DEF Carries
<1> QED BY <1>3, <1>4, <1>5, <1>6, <1>7

(* What the innermost loop expects at its labels. *)
LEMMA LoopExpects ==
  ASSUME StackInv, LoopInv, Around # {}, NEW at, Meets(open, defers, at)
  PROVE  /\ DefersOutside \in Nat /\ DefersOutside <= Len(defers)
         /\ at[Loop.brk] = SubSeq(defers, 1, DefersOutside)
         /\ at[Loop.cont] = SubSeq(defers, 1, DefersOutside)
         /\ loops # << >>
         /\ loops[Len(loops)].brk = Loop.brk /\ loops[Len(loops)].cont = Loop.cont
         /\ Loop.brk \in Nat /\ Loop.cont \in Nat
<1>1. /\ Stack(open, Len(locals), Len(defers)) /\ Len(locals) \in Nat /\ Len(defers) \in Nat
  BY LenProperties DEF StackInv, Typing
<1>2. PICK q : q = LastOf(Around)
  OBVIOUS
<1>3. q \in DOMAIN open /\ open[q].k \in {"while", "for"}
  BY <1>2, LoopFacts DEF Around
<1>4. open[q].k # "block"
  BY <1>3
<1>5. open[q + 1].defers \in Nat /\ open[q + 1].defers <= Len(defers)
  BY <1>1, <1>3, <1>4, BodyMark
<1>6. Loop = open[q] /\ DefersOutside = open[q + 1].defers
  BY <1>2, Zenon DEF Loop, DefersOutside
<1>7. Expects(Loop, SubSeq(defers, 1, DefersOutside), at) /\ Loop.k \in {"while", "for"}
  BY <1>3, <1>4, <1>6, Zenon DEF Meets
<1>8. at[Loop.brk] = SubSeq(defers, 1, DefersOutside) /\ at[Loop.cont] = SubSeq(defers, 1, DefersOutside)
  BY <1>7 DEF Expects
<1> QED BY <1>5, <1>6, <1>8, PairedLast, LoopFacts DEF LoopInv

LEMMA CarryJump ==
  ASSUME StackInv, LoopInv, Carries(code, open, defers), Break \/ Continue, ~excused'
  PROVE  Carries(code', open', defers')
<1>1. PICK at \in Stacks : Leads(code, << >>, defers, at) /\ Meets(open, defers, at)
  BY DEF Carries
<1>2. Typing /\ defers \in Seq(Nat) /\ Len(defers) \in Nat
  BY LenProperties DEF StackInv, Typing
<1>3. Around # {} /\ open' = open /\ defers' = defers
  BY DEF Break, Continue
<1>4. /\ DefersOutside \in Nat /\ DefersOutside <= Len(defers)
      /\ at[Loop.brk] = SubSeq(defers, 1, DefersOutside)
      /\ at[Loop.cont] = SubSeq(defers, 1, DefersOutside)
      /\ loops # << >>
      /\ loops[Len(loops)].brk = Loop.brk /\ loops[Len(loops)].cont = Loop.cont
      /\ Loop.brk \in Nat /\ Loop.cont \in Nat
  BY <1>1, <1>3, LoopExpects
<1>5. ASSUME NEW l \in Nat, NEW s \in Seq(Nat), at[l] = s
      PROVE  LET x == [I("jmp", l) EXCEPT !.want = l]
             IN  <<x>> \in Seq(Instr) /\ Leads(<<x>>, s, defers, at)
  <2> DEFINE x == [I("jmp", l) EXCEPT !.want = l]
  <2>1. I("jmp", l) \in Instr
    BY Plain DEF Ops
  <2>2. x \in Instr /\ x.op = "jmp" /\ x.arg = l
    BY <2>1 DEF I, Instr
  <2> HIDE DEF x
  <2>3. Passes(x, s, defers, at)
    BY <1>5, <2>2 DEF Passes
  <2>4. <<x>> \in Seq(Instr) /\ Leads(<<x>>, s, defers, at)
    BY <1>2, <1>5, <2>2, <2>3, LeadsOne
  <2> QED BY <2>4 DEF x
<1>6. CASE Break
  <2> DEFINE x == [I("jmp", Loop.brk) EXCEPT !.want = Loop.brk]
             r == RunBack(defers)
  <2>1. Emit(r \o <<x>>)
    BY <1>4, <1>6 DEF Break
  <2>2. at[Loop.brk] = << >>
    <3>1. ~(DefersOutside > 0)
      BY <1>6 DEF Break
    <3>2. DefersOutside = 0
      BY <1>4, <3>1
    <3> QED BY <1>4, <3>2, SubSeqEmpty
  <2>3. << >> \in Seq(Nat)
    OBVIOUS
  <2>4. <<x>> \in Seq(Instr) /\ Leads(<<x>>, << >>, defers, at)
    BY <1>4, <1>5, <2>2, <2>3
  <2>5. r \in Seq(Instr) /\ Leads(r, defers, << >>, at)
    BY <1>2, RunBackType, LeadsOut
  <2> HIDE DEF x, r
  <2>6. Leads(r \o <<x>>, defers, defers, at) /\ r \o <<x>> \in Seq(Instr)
    BY <2>4, <2>5, LeadsBoth, ConcatProperties
  <2>7. Leads(code', << >>, defers, at)
    BY <1>1, <1>2, <2>1, <2>6, CarryEmit
  <2> QED BY <1>1, <1>3, <2>7, Zenon DEF Carries
<1>7. CASE Continue
  <2> DEFINE x == [I("jmp", Loop.cont) EXCEPT !.want = Loop.cont]
  <2>1. Emit(<<x>>)
    BY <1>4, <1>7 DEF Continue
  <2>2. at[Loop.cont] = defers
    <3>1. ~(Len(defers) > DefersOutside)
      BY <1>7 DEF Continue
    <3>2. DefersOutside = Len(defers)
      BY <1>2, <1>4, <3>1
    <3> QED BY <1>2, <1>4, <3>2, WholePrefix
  <2>3. <<x>> \in Seq(Instr) /\ Leads(<<x>>, defers, defers, at)
    BY <1>2, <1>4, <1>5, <2>2
  <2> HIDE DEF x
  <2>4. Leads(code', << >>, defers, at)
    BY <1>1, <1>2, <2>1, <2>3, CarryEmit
  <2> QED BY <1>1, <1>3, <2>4, Zenon DEF Carries
<1> QED BY <1>6, <1>7

(* A construct that begins hands out labels from next_label on. *)
LEMMA CarryOpens ==
  ASSUME StackInv, LabelInv, Carries(code, open, defers), OpenIf \/ OpenWhile \/ \E n \in LoopNames : OpenFor(n)
  PROVE  Carries(code', open', defers')
<1>1. PICK at \in Stacks : Leads(code, << >>, defers, at) /\ Meets(open, defers, at)
  BY DEF Carries
<1>2. /\ Typing /\ defers \in Seq(Nat) /\ Len(defers) \in Nat /\ Len(locals) \in Nat
      /\ Stack(open, Len(locals), Len(defers)) /\ next_label \in Nat /\ code \in Seq(Instr)
      /\ open \in Seq(Frame)
  BY LenProperties DEF StackInv, Typing
<1> DEFINE bt == [l \in Nat |-> IF l < next_label THEN at[l] ELSE defers]
<1>3. bt \in Stacks
  <2>1. \A l \in Nat : (IF l < next_label THEN at[l] ELSE defers) \in Seq(Nat)
    BY <1>2 DEF Stacks
  <2> QED BY <2>1, Zenon DEF Stacks
<1>4. /\ \A l \in Nat : l < next_label => bt[l] = at[l]
      /\ \A j \in Nat : next_label + j \in Nat /\ bt[next_label + j] = defers
  <2>1. \A j \in Nat : next_label + j \in Nat /\ ~(next_label + j < next_label)
    BY <1>2
  <2> QED BY <2>1
<1> HIDE DEF bt
<1>5. Leads(code, << >>, defers, bt)
  BY <1>1, <1>2, <1>4, LabelsBelow, LeadsFar
<1>6. Meets(open, defers, bt)
  <2>1. \A i \in DOMAIN open : \A l \in LabelsOf(open[i]) : bt[l] = at[l]
    BY <1>4, LabelsBelow
  <2> QED BY <1>1, <1>2, <2>1, MeetsFar
<1>7. \A x \in {next_label, next_label + 1, next_label + 2, next_label + 3} :
          /\ x \in Nat /\ bt[x] = defers
          /\ \A op \in {"jmp", "jnz", "label"} : I(op, x) \in Instr /\ Passes(I(op, x), defers, defers, bt)
  <2>1. /\ next_label + 0 = next_label
        /\ 0 \in Nat /\ 1 \in Nat /\ 2 \in Nat /\ 3 \in Nat
    BY <1>2
  <2>2. \A x \in {next_label, next_label + 1, next_label + 2, next_label + 3} : x \in Nat /\ bt[x] = defers
    BY <1>4, <2>1
  <2>3. {"jmp", "jnz", "label"} \subseteq Ops
    BY DEF Ops
  <2>4. ASSUME NEW x \in Nat, bt[x] = defers, NEW op \in {"jmp", "jnz", "label"}
        PROVE  I(op, x) \in Instr /\ Passes(I(op, x), defers, defers, bt)
    <3>1. I(op, x) \in Instr
      BY <2>3, Plain
    <3>2. Passes(I(op, x), bt[x], bt[x], bt)
      BY Level
    <3> QED BY <2>4, <3>1, <3>2
  <2> QED BY <2>2, <2>4
<1>8. ASSUME NEW f \in Frame, NEW b \in BlockFrame, Expects(f, defers, bt), b.defers = Len(defers),
             open' = open \o <<f, b>>, UNCHANGED defers,
             NEW e \in Seq(Instr), Emit(e), \A i \in 1 .. Len(e) : Passes(e[i], defers, defers, bt)
      PROVE  Carries(code', open', defers')
  <2>1. SubSeq(defers, 1, b.defers) = defers
    BY <1>2, <1>8, WholePrefix
  <2>2. Expects(f, SubSeq(defers, 1, b.defers), bt)
    BY <1>8, <2>1
  <2>3. Meets(open', defers, bt)
    BY <1>2, <1>6, <1>8, <2>2, MeetsPair
  <2>4. Leads(e, defers, defers, bt)
    BY <1>2, <1>8, LeadsLevel
  <2>5. Leads(code', << >>, defers, bt)
    BY <1>2, <1>5, <1>8, <2>4, CarryEmit
  <2> QED BY <1>3, <1>8, <2>3, <2>5, Zenon DEF Carries
<1>9. Body(Len(defers)) \in BlockFrame /\ Body(Len(defers)).defers = Len(defers)
  BY <1>2 DEF Body, BlockFrame
<1>10. ASSUME NEW a, NEW b, NEW c, NEW d, NEW e, {a, b, c, d, e} \subseteq Instr,
              \A x \in {a, b, c, d, e} : Passes(x, defers, defers, bt)
       PROVE  /\ <<a, b, c>> \in Seq(Instr) /\ <<a, b, c, d, e>> \in Seq(Instr)
              /\ \A i \in 1 .. Len(<<a, b, c>>) : Passes(<<a, b, c>>[i], defers, defers, bt)
              /\ \A i \in 1 .. Len(<<a, b, c, d, e>>) : Passes(<<a, b, c, d, e>>[i], defers, defers, bt)
  <2>1. <<a, b, c>> \in Seq(Instr) /\ <<a, b, c, d, e>> \in Seq(Instr)
    BY <1>10
  <2>2. \A i \in 1 .. Len(<<a, b, c>>) : <<a, b, c>>[i] \in {a, b, c}
    OBVIOUS
  <2>3. \A i \in 1 .. Len(<<a, b, c, d, e>>) : <<a, b, c, d, e>>[i] \in {a, b, c, d, e}
    OBVIOUS
  <2>4. \A x \in {a, b, c} : x \in {a, b, c, d, e}
    OBVIOUS
  <2> QED BY <1>10, <2>1, <2>2, <2>3, <2>4, Zenon
<1>11. CASE OpenIf
  <2> DEFINE f == [k |-> "then", el |-> next_label + 1, endl |-> next_label + 2]
             e == <<I("jnz", next_label), I("jmp", next_label + 1), I("label", next_label)>>
  <2>1. Emit(e) /\ open' = open \o <<f, Body(Len(defers))>> /\ UNCHANGED defers
    BY <1>11, OpenedIf DEF OpenIf
  <2>2. f \in Frame /\ Expects(f, defers, bt)
    BY <1>2, <1>7 DEF Frame, ThenFrame, Expects
  <2>3. e \in Seq(Instr) /\ \A i \in 1 .. Len(e) : Passes(e[i], defers, defers, bt)
    BY <1>7, <1>10
  <2> HIDE DEF e, f
  <2> QED BY <1>8, <1>9, <2>1, <2>2, <2>3
<1>12. CASE OpenWhile
  <2> DEFINE f == [k |-> "while", brk |-> next_label + 2, cont |-> next_label]
             e == <<I("jmp", next_label), I("label", next_label), I("jnz", next_label + 1),
                    I("jmp", next_label + 2), I("label", next_label + 1)>>
  <2>1. Emit(e) /\ open' = open \o <<f, Body(Len(defers))>> /\ UNCHANGED defers
    BY <1>12, OpenedWhile DEF OpenWhile
  <2>2. f \in Frame /\ Expects(f, defers, bt)
    BY <1>2, <1>7 DEF Frame, WhileFrame, Expects
  <2>3. e \in Seq(Instr) /\ \A i \in 1 .. Len(e) : Passes(e[i], defers, defers, bt)
    BY <1>7, <1>10
  <2> HIDE DEF e, f
  <2> QED BY <1>8, <1>9, <2>1, <2>2, <2>3
<1>13. ASSUME NEW n \in LoopNames, OpenFor(n) PROVE Carries(code', open', defers')
  <2> DEFINE f == [k |-> "for", brk |-> next_label + 3, cont |-> next_label + 2, cl |-> next_label]
             b == [Body(Len(defers)) EXCEPT !.locals = Len(AddLocal(n))]
             e == <<I("jmp", next_label), I("label", next_label), I("jnz", next_label + 1),
                    I("jmp", next_label + 3), I("label", next_label + 1)>>
  <2>1. Emit(e) /\ open' = open \o <<f, b>> /\ UNCHANGED defers
    BY <1>13, OpenedFor DEF OpenFor
  <2>2. f \in Frame /\ Expects(f, defers, bt)
    BY <1>2, <1>7 DEF Frame, ForFrame, Expects
  <2>3. e \in Seq(Instr) /\ \A i \in 1 .. Len(e) : Passes(e[i], defers, defers, bt)
    BY <1>7, <1>10
  <2>4. b \in BlockFrame /\ b.defers = Len(defers)
    <3>1. Lower /\ locals' = AddLocal(n)
      BY <1>13, Zenon DEF Lower, OpenFor
    <3>2. Len(AddLocal(n)) \in Nat
      BY <3>1, LocalsStep, LenProperties
    <3> QED BY <1>2, <3>2 DEF Body, BlockFrame
  <2> HIDE DEF e, f, b
  <2> QED BY <1>8, <1>9, <2>1, <2>2, <2>3, <2>4
<1> QED BY <1>11, <1>12, <1>13

(* The end of a block runs its defers; what follows keeps the stack that   *)
(* was pending when the construct began.                                   *)
LEMMA CarryEnds ==
  ASSUME StackInv, open # << >>, NEW at, Leads(code, << >>, defers, at),
         NEW e \in Seq(Instr), Close(e), \A i \in 1 .. Len(e) : Passes(e[i], defers', defers', at)
  PROVE  Leads(code', << >>, defers', at)
<1>1. /\ Typing /\ defers \in Seq(Nat) /\ Top.defers \in Nat /\ Top.defers <= Len(defers)
      /\ defers' \in Seq(Nat)
  BY TopFacts, Closed DEF StackInv, Typing, BlockFrame
<1> DEFINE ds == SubSeq(defers, Top.defers + 1, Len(defers))
           r == RunBack(ds)
<1>2. Emit(r \o e) /\ defers' = SubSeq(defers, 1, Top.defers)
  BY DEF Close
<1>3. Leads(r, defers, defers', at)
  BY <1>1, <1>2, LeadsRuns
<1>4. r \in Seq(Instr)
  <2>1. ds \in Seq(Nat)
    <3>1. \A i \in Top.defers + 1 .. Len(defers) : defers[i] \in Nat
      BY <1>1, ElementOfSeq, LenProperties
    <3> QED BY <1>1, <3>1, SubSeqProperties, LenProperties
  <2> HIDE DEF ds
  <2> QED BY <2>1, RunBackType
<1> HIDE DEF r, ds
<1>5. Leads(e, defers', defers', at)
  BY <1>1, LeadsLevel
<1>6. Leads(r \o e, defers, defers', at) /\ r \o e \in Seq(Instr)
  BY <1>3, <1>4, <1>5, LeadsBoth, ConcatProperties
<1> QED BY <1>1, <1>2, <1>6, CarryEmit

LEMMA CarryCloses ==
  ASSUME StackInv, Outermost(open), Carries(code, open, defers), Closing
  PROVE  Carries(code', open', defers')
<1>1. PICK at \in Stacks : Leads(code, << >>, defers, at) /\ Meets(open, defers, at)
  BY DEF Carries
<1>2. /\ open # << >> /\ open \in Seq(Frame) /\ Len(open) \in Nat /\ Len(open) >= 1
      /\ DOMAIN open = 1 .. Len(open) /\ defers \in Seq(Nat) /\ Len(locals) \in Nat
      /\ Stack(open, Len(locals), Len(defers)) /\ Len(defers) \in Nat
  BY ClosingEnds, LenProperties, EmptySeq DEF StackInv, Typing
<1>3. Top \in BlockFrame /\ Top.defers <= Len(defers) /\ Top.defers \in Nat
  BY <1>2, TopFacts DEF BlockFrame
<1>4. /\ defers' = SubSeq(defers, 1, Top.defers) /\ defers' \in Seq(Nat)
      /\ Len(defers') = Top.defers
  BY <1>2, ClosingEnds, Closed DEF Close
<1>5. ASSUME NEW d \in 1 .. Len(open), d < Len(open) => open[Len(open) - d].k = "block"
      PROVE  Meets(SubSeq(open, 1, Len(open) - d), defers', at)
  <2>1. open[Len(open)].k = "block" /\ Top = open[Len(open)]
    BY <1>3 DEF Top, BlockFrame
  <2> QED BY <1>1, <1>2, <1>4, <1>5, <2>1, MeetsDrop
<1>6. PICK d \in 1 .. Len(open) :
            /\ d < Len(open) => open[Len(open) - d].k = "block"
            /\ \/ open' = SubSeq(open, 1, Len(open) - d)
               \/ OpenElse /\ d = 2 /\ Len(open) > 2
  BY ClosingOpen
<1>7. ASSUME NEW k, InBody(k), k # "block"
      PROVE  Parent.k = k /\ Expects(Parent, defers', at)
  <2>1. Len(open) > 1 /\ open[Len(open) - 1].k = k /\ Parent = open[Len(open) - 1]
    BY <1>7 DEF InBody, Parent
  <2>2. Len(open) - 1 \in DOMAIN open /\ (Len(open) - 1) + 1 = Len(open)
    BY <1>2, <2>1
  <2>3. Expects(Parent, SubSeq(defers, 1, open[Len(open)].defers), at)
    BY <1>1, <1>7, <2>1, <2>2 DEF Meets
  <2> QED BY <1>4, <2>1, <2>3 DEF Top
<1>8. /\ InBody("then") => /\ Parent.endl \in Nat /\ Parent.el \in Nat
                           /\ at[Parent.endl] = defers' /\ at[Parent.el] = defers'
      /\ InBody("else") => Parent.endl \in Nat /\ at[Parent.endl] = defers'
      /\ InBody("while") => /\ Parent.cont \in Nat /\ Parent.brk \in Nat
                            /\ at[Parent.cont] = defers' /\ at[Parent.brk] = defers'
      /\ InBody("for") => /\ Parent.cont \in Nat /\ Parent.brk \in Nat /\ Parent.cl \in Nat
                          /\ at[Parent.cont] = defers' /\ at[Parent.brk] = defers'
                          /\ at[Parent.cl] = defers'
  <2>1. /\ InBody("then") => Parent.endl \in Nat /\ Parent.el \in Nat
        /\ InBody("else") => Parent.endl \in Nat
        /\ InBody("while") => Parent.cont \in Nat /\ Parent.brk \in Nat
        /\ InBody("for") => Parent.cont \in Nat /\ Parent.brk \in Nat /\ Parent.cl \in Nat
    BY <1>2, TopFacts DEF ThenFrame, ElseFrame, WhileFrame, ForFrame
  <2>2. /\ InBody("then") => at[Parent.endl] = defers' /\ at[Parent.el] = defers'
        /\ InBody("else") => at[Parent.endl] = defers'
        /\ InBody("while") => at[Parent.cont] = defers' /\ at[Parent.brk] = defers'
        /\ InBody("for") => at[Parent.cont] = defers' /\ at[Parent.brk] = defers' /\ at[Parent.cl] = defers'
    BY <1>7 DEF Expects
  <2> QED BY <2>1, <2>2
<1>9. ASSUME NEW l \in Nat, at[l] = defers', NEW op \in {"jmp", "label"}
      PROVE  Passes(I(op, l), defers', defers', at) /\ I(op, l) \in Instr
  <2>1. Passes(I(op, l), at[l], at[l], at)
    BY Level
  <2>2. I(op, l) \in Instr
    BY Plain DEF Ops
  <2> QED BY <1>9, <2>1, <2>2
<1>10. ASSUME NEW a, NEW b, NEW c, NEW d2, {a, b, c, d2} \subseteq Instr,
              \A x \in {a, b, c, d2} : Passes(x, defers', defers', at)
       PROVE  /\ <<a, b>> \in Seq(Instr) /\ <<a, b, c, d2>> \in Seq(Instr)
              /\ \A i \in 1 .. Len(<<a, b>>) : Passes(<<a, b>>[i], defers', defers', at)
              /\ \A i \in 1 .. Len(<<a, b, c, d2>>) : Passes(<<a, b, c, d2>>[i], defers', defers', at)
  <2>1. <<a, b>> \in Seq(Instr) /\ <<a, b, c, d2>> \in Seq(Instr)
    BY <1>10
  <2>2. \A i \in 1 .. Len(<<a, b>>) : <<a, b>>[i] \in {a, b, c, d2}
    OBVIOUS
  <2>3. \A i \in 1 .. Len(<<a, b, c, d2>>) : <<a, b, c, d2>>[i] \in {a, b, c, d2}
    OBVIOUS
  <2> QED BY <1>10, <2>1, <2>2, <2>3, Zenon
<1>11. \E e \in Seq(Instr) : Close(e) /\ \A i \in 1 .. Len(e) : Passes(e[i], defers', defers', at)
  <2>1. CASE CloseBlock
    <3>1. Close(<< >>)
      BY <2>1 DEF CloseBlock
    <3>2. << >> \in Seq(Instr) /\ \A i \in 1 .. Len(<< >>) : FALSE
      OBVIOUS
    <3> QED BY <3>1, <3>2, Zenon
  <2>2. CASE CloseFunc
    <3> DEFINE x == I("ret", 0)
    <3>1. Close(<<x>>) /\ Len(open) = 1
      BY <2>2 DEF CloseFunc
    <3>2. Top.defers = 0
      BY <1>2, <3>1 DEF Outermost, Top
    <3>3. defers' = << >>
      BY <1>4, <3>2, EmptySeq
    <3>4. x \in Instr /\ x.op = "ret"
      BY Plain DEF Ops
    <3> HIDE DEF x
    <3>5. Passes(x, defers', defers', at)
      BY <3>3, <3>4 DEF Passes
    <3>6. <<x>> \in Seq(Instr) /\ \A i \in 1 .. Len(<<x>>) : <<x>>[i] = x
      BY <3>4
    <3> QED BY <3>1, <3>5, <3>6
  <2>3. CASE CloseThen
    <3> DEFINE e == <<I("jmp", Parent.endl), I("label", Parent.el), I("jmp", Parent.endl),
                      I("label", Parent.endl)>>
    <3>1. Close(e) /\ InBody("then")
      BY <2>3 DEF CloseThen
    <3>2. e \in Seq(Instr) /\ \A i \in 1 .. Len(e) : Passes(e[i], defers', defers', at)
      BY <1>8, <1>9, <1>10, <3>1
    <3> QED BY <3>1, <3>2, Zenon
  <2>4. CASE OpenElse
    <3> DEFINE e == <<I("jmp", Parent.endl), I("label", Parent.el)>>
    <3>1. Close(e) /\ InBody("then")
      BY <2>4 DEF OpenElse
    <3>2. e \in Seq(Instr) /\ \A i \in 1 .. Len(e) : Passes(e[i], defers', defers', at)
      BY <1>8, <1>9, <1>10, <3>1
    <3> QED BY <3>1, <3>2, Zenon
  <2>5. CASE CloseElse
    <3> DEFINE e == <<I("jmp", Parent.endl), I("label", Parent.endl)>>
    <3>1. Close(e) /\ InBody("else")
      BY <2>5 DEF CloseElse
    <3>2. e \in Seq(Instr) /\ \A i \in 1 .. Len(e) : Passes(e[i], defers', defers', at)
      BY <1>8, <1>9, <1>10, <3>1
    <3> QED BY <3>1, <3>2, Zenon
  <2>6. CASE CloseWhile
    <3> DEFINE e == <<I("jmp", Parent.cont), I("label", Parent.brk)>>
    <3>1. Close(e) /\ InBody("while")
      BY <2>6 DEF CloseWhile
    <3>2. e \in Seq(Instr) /\ \A i \in 1 .. Len(e) : Passes(e[i], defers', defers', at)
      BY <1>8, <1>9, <1>10, <3>1
    <3> QED BY <3>1, <3>2, Zenon
  <2>7. CASE CloseFor
    <3> DEFINE e == <<I("jmp", Parent.cont), I("label", Parent.cont), I("jmp", Parent.cl),
                      I("label", Parent.brk)>>
    <3>1. Close(e) /\ InBody("for")
      BY <2>7 DEF CloseFor
    <3>2. e \in Seq(Instr) /\ \A i \in 1 .. Len(e) : Passes(e[i], defers', defers', at)
      BY <1>8, <1>9, <1>10, <3>1
    <3> QED BY <3>1, <3>2, Zenon
  <2> QED BY <2>1, <2>2, <2>3, <2>4, <2>5, <2>6, <2>7, Zenon DEF Closing
<1>12. Leads(code', << >>, defers', at)
  BY <1>1, <1>2, <1>11, CarryEnds
<1>13. ASSUME OpenElse, d = 2, Len(open) > 2
       PROVE  Meets(open', defers', at)
  <2> DEFINE f == [k |-> "else", endl |-> Parent.endl]
             b == Mark(Top.locals, Top.defers)
             p == SubSeq(open, 1, Len(open) - 2)
  <2>1. open' = p \o <<f, b>> /\ InBody("then")
    BY <1>13 DEF OpenElse, DropOpen, Mark
  <2>2. f \in Frame /\ Expects(f, defers', at)
    BY <1>8, <2>1 DEF Frame, ElseFrame, Expects
  <2>3. b \in BlockFrame /\ b.defers = Top.defers
    BY <1>3 DEF Mark, BlockFrame
  <2>4. Meets(p, defers', at)
    BY <1>5, <1>6, <1>13
  <2>5. Stack(p, Top.locals, Top.defers) /\ Top.locals \in Nat
    BY <1>2, <1>3, <1>6, <1>13, StackDrop DEF Top, BlockFrame
  <2>6. SubSeq(defers', 1, b.defers) = defers'
    BY <1>4, <2>3, WholePrefix
  <2> HIDE DEF f, b, p
  <2> QED BY <1>3, <2>1, <2>2, <2>3, <2>4, <2>5, <2>6, MeetsPair
<1>14. Meets(open', defers', at)
  BY <1>5, <1>6, <1>13
<1> QED BY <1>12, <1>14, Zenon DEF Carries

(* The outermost block stays until the function ends. *)
LEMMA OutermostStep ==
  ASSUME StackInv, Outermost(open), Lower
  PROVE  Outermost(open')
<1>1. open \in Seq(Frame) /\ Len(open) \in Nat /\ Len(defers) \in Nat /\ next_label \in Nat
  BY LenProperties DEF StackInv, Typing
<1>2. ASSUME NEW n, Let(n) \/ Read(n) \/ Defer \/ Return \/ Break \/ Continue
      PROVE  open' = open
  BY <1>2, Zenon DEF Let, Read, Defer, Return, Break, Continue
<1>3. ASSUME open # << >> PROVE open[1].defers = 0 /\ 1 \in 1 .. Len(open)
  BY <1>1, <1>3, EmptySeq DEF Outermost
<1>4. CASE OpenBlock
  <2>1. open # << >> /\ open' = Append(open, Body(Len(defers)))
    BY <1>4 DEF OpenBlock, Statement
  <2>2. Body(Len(defers)) \in Frame
    BY <1>1, LenProperties DEF Body, Frame, BlockFrame, StackInv, Typing
  <2>3. open'[1] = open[1]
    BY <1>1, <1>3, <2>1, <2>2, AppendProperties
  <2> QED BY <1>3, <2>1, <2>3 DEF Outermost
<1>5. ASSUME NEW p \in Seq(Frame), 1 \in 1 .. Len(p), p[1].defers = 0, NEW a, NEW b, open' = p \o <<a, b>>
      PROVE  Outermost(open')
  <2> DEFINE S == {a, b} \cup Frame
  <2>1. <<a, b>> \in Seq(S) /\ Len(<<a, b>>) = 2 /\ p \in Seq(S)
    BY SeqMonotonic
  <2> HIDE DEF S
  <2>2. \A i \in 1 .. Len(p) : open'[i] = p[i]
    BY <1>5, <2>1, ConcatProperties, LenProperties
  <2> QED BY <1>5, <2>2 DEF Outermost
<1>6. CASE OpenIf \/ OpenWhile \/ \E n \in LoopNames : OpenFor(n)
  <2>1. open # << >>
    BY <1>6 DEF OpenIf, OpenWhile, OpenFor, Statement
  <2>2. \E a, b : open' = open \o <<a, b>>
    BY <1>6, OpenedIf, OpenedWhile, OpenedFor
  <2> QED BY <1>1, <1>3, <1>5, <2>1, <2>2
<1>7. CASE Closing
  <2>1. PICK d \in 1 .. Len(open) :
            \/ open' = SubSeq(open, 1, Len(open) - d)
            \/ OpenElse /\ d = 2 /\ Len(open) > 2
    BY <1>7, ClosingOpen
  <2> DEFINE p == SubSeq(open, 1, Len(open) - d)
  <2>2. open # << >>
    BY <1>7, ClosingEnds
  <2>3. Len(open) - d \in Int /\ Len(open) - d >= 0 /\ Len(open) - d <= Len(open)
    BY <1>1
  <2>4. /\ p \in Seq(Frame) /\ Len(p) = Len(open) - d
        /\ \A i \in 1 .. Len(open) - d : p[i] = open[i]
    BY <1>1, <2>3, Prefix
  <2> HIDE DEF p
  <2>5. ASSUME p # << >> PROVE 1 \in 1 .. Len(p) /\ p[1].defers = 0
    <3>1. 1 \in 1 .. Len(open) - d
      BY <1>1, <2>3, <2>4, <2>5, EmptySeq
    <3> QED BY <1>3, <2>2, <2>4, <3>1
  <2>6. CASE open' = SubSeq(open, 1, Len(open) - d)
    BY <2>5, <2>6 DEF Outermost, p
  <2>7. CASE OpenElse /\ d = 2 /\ Len(open) > 2
    <3>1. p # << >>
      BY <1>1, <2>4, <2>7
    <3>2. \E a, b : open' = p \o <<a, b>>
      BY <2>7 DEF OpenElse, DropOpen, p
    <3> QED BY <1>5, <2>4, <2>5, <3>1, <3>2
  <2> QED BY <2>1, <2>6, <2>7
<1> QED BY <1>2, <1>4, <1>6, <1>7, Zenon DEF Lower, Closing

-----------------------------------------------------------------------------
(* The execution finds pending what belongs to the place it is at.         *)

DeferInv ==
    /\ Outermost(open)
    /\ ~excused => Carries(code, open, defers)
    /\ phase = "lower" => pending = << >>
    /\ phase = "run" => \E a, at \in Stacks : a[ip] = pending /\ Fits(code, a, at)
    /\ ~misrun

LEMMA LowerRuns ==
  ASSUME StackInv, Lower
  PROVE  phase = "lower" /\ UNCHANGED <<phase, ip, pending, misrun>>
<1>1. ASSUME NEW n, Let(n) \/ Read(n) \/ OpenFor(n) \/ Defer \/ Return \/ OpenBlock \/ OpenIf
                    \/ OpenWhile \/ Break \/ Continue
      PROVE  Statement
  BY <1>1 DEF Let, Read, OpenFor, Defer, Return, OpenBlock, OpenIf, OpenWhile, Break, Continue
<1>2. CASE Statement
  BY <1>2 DEF Statement, runVars
<1>3. CASE Closing
  BY <1>3, ClosingEnds DEF Close, runVars
<1> QED BY <1>1, <1>2, <1>3, Zenon DEF Lower, Closing

(* What spoilt the code stays. *)
LEMMA ExcusedStays ==
  ASSUME StackInv, Lower, ~excused'
  PROVE  ~excused
<1>1. CASE Closing
  BY <1>1, ClosingEnds DEF Close
<1>2. ASSUME NEW n, Let(n) \/ Read(n) \/ OpenFor(n) \/ Defer \/ Return \/ OpenBlock \/ OpenIf \/ OpenWhile
      PROVE  excused' = excused
  BY <1>2, Zenon DEF Let, Read, OpenFor, Defer, Return, OpenBlock, OpenIf, OpenWhile
<1>3. CASE Break \/ Continue
  BY <1>3, Zenon DEF Break, Continue
<1> QED BY <1>1, <1>2, <1>3, Zenon DEF Lower, Closing

LEMMA CarryStep ==
  ASSUME StackInv, LabelInv, LoopInv, Outermost(open), Carries(code, open, defers),
         Lower, DefersFit, ~excused'
  PROVE  Carries(code', open', defers')
<1>1. ASSUME NEW n, Let(n) \/ OpenBlock \/ Read(n) \/ Defer \/ Return
      PROVE  Carries(code', open', defers')
  BY <1>1, CarryPlain
<1>2. ASSUME NEW n \in LoopNames, OpenFor(n)
      PROVE  Carries(code', open', defers')
  BY <1>2, CarryOpens
<1>3. CASE OpenIf \/ OpenWhile
  BY <1>3, CarryOpens
<1>4. CASE Break \/ Continue
  BY <1>4, CarryJump
<1>5. CASE Closing
  BY <1>5, CarryCloses
<1> QED BY <1>1, <1>2, <1>3, <1>4, <1>5, Zenon DEF Lower, Closing

LEMMA ExecuteDefers ==
  ASSUME StackInv, LabelInv, RunInv, DeferInv, Execute
  PROVE  DeferInv'
<1>1. /\ phase = "run" /\ open = << >> /\ ip \in 1 .. Len(code) /\ UNCHANGED lowerVars
      /\ phase' \in {"run", "halt"}
  BY DEF Execute, RunInv
<1>2. PICK a \in Stacks, at \in Stacks : a[ip] = pending /\ Fits(code, a, at)
  BY <1>1, Zenon DEF DeferInv
<1>3. /\ code \in Seq(Instr) /\ DOMAIN code = 1 .. Len(code) /\ Len(code) \in Nat
      /\ code' = code /\ open' = open /\ defers' = defers /\ excused' = excused
  BY <1>1, LenProperties DEF StackInv, Typing, lowerVars
<1>4. PICK x : x = code[ip]
  OBVIOUS
<1>5. x \in Instr /\ x.op \in Ops /\ x.arg \in Nat
  <2>1. x \in Instr
    BY <1>1, <1>3, <1>4, ElementOfSeq
  <2> QED BY <2>1 DEF Instr
<1>6. Passes(x, pending, a[ip + 1], at)
  BY <1>1, <1>2, <1>4 DEF Fits
<1>7. ASSUME x.op \in {"jmp", "jnz"}
      PROVE  a[LabelAt(x.arg)] = at[x.arg]
  <2>1. x.arg < next_label
    BY <1>1, <1>3, <1>4, <1>7 DEF LabelInv, Targets
  <2>2. DOMAIN open = {}
    BY <1>1
  <2>3. Marks(code, x.arg)
    BY <1>5, <2>1, <2>2 DEF LabelInv, Owed
  <2>4. /\ LabelAt(x.arg) \in DOMAIN code /\ code[LabelAt(x.arg)].op = "label"
        /\ code[LabelAt(x.arg)].arg = x.arg
    BY <2>3, Zenon DEF LabelAt, Marks
  <2>5. PICK q \in 1 .. Len(code) : q = LabelAt(x.arg)
    BY <1>3, <2>4
  <2>6. Passes(code[q], a[q], a[q + 1], at)
    BY <1>2 DEF Fits
  <2> QED BY <2>4, <2>5, <2>6 DEF Passes
<1> DEFINE last == pending # << >> /\ pending[Len(pending)] = x.arg
<1>8. /\ \/ x.op = "jmp" /\ ip' = LabelAt(x.arg)
         \/ x.op = "jnz" /\ ip' = LabelAt(x.arg)
         \/ x.op \notin {"jmp", "ret"} /\ ip' = ip + 1
         \/ x.op = "ret" /\ ip' = ip
      /\ phase' = IF x.op = "ret" THEN "halt" ELSE "run"
      /\ pending' = CASE x.op = "reg" -> Append(pending, x.arg)
                      [] x.op = "run" /\ last -> SubSeq(pending, 1, Len(pending) - 1)
                      [] OTHER -> pending
      /\ misrun' = \/ x.op = "run" /\ ~last
                   \/ x.op = "ret" /\ pending # << >>
  BY <1>4, Zenon DEF Execute
<1>9. /\ x.op = "run" => last
      /\ x.op = "ret" => pending = << >>
  BY <1>6 DEF Passes
<1>10. ~misrun'
  BY <1>8, <1>9, Zenon
<1>11. /\ x.op = "reg" => pending' = Append(pending, x.arg)
       /\ x.op = "run" => pending' = SubSeq(pending, 1, Len(pending) - 1)
       /\ x.op \notin {"reg", "run"} => pending' = pending
  <2> HIDE DEF last
  <2> QED BY <1>8, <1>9
<1>12. phase' = "run" => a[ip'] = pending'
  <2>1. CASE x.op \in {"jmp", "jnz"} /\ ip' = LabelAt(x.arg)
    <3>1. pending' = pending /\ pending = at[x.arg]
      BY <1>6, <1>11, <2>1 DEF Passes
    <3> QED BY <1>7, <2>1, <3>1
  <2>2. CASE x.op \notin {"jmp", "ret"} /\ ip' = ip + 1
    <3>1. a[ip + 1] = pending'
      <4>1. x.op \in {"label", "jnz", "use", "reg", "run"}
        BY <1>5, <2>2 DEF Ops
      <4> QED BY <1>6, <1>11, <4>1 DEF Passes
    <3> QED BY <2>2, <3>1
  <2>3. CASE x.op = "ret"
    BY <1>8, <2>3
  <2>4. \/ x.op \in {"jmp", "jnz"} /\ ip' = LabelAt(x.arg)
        \/ x.op \notin {"jmp", "ret"} /\ ip' = ip + 1
        \/ x.op = "ret"
    BY <1>8
  <2> QED BY <2>1, <2>2, <2>3, <2>4, Zenon
<1>13. phase' # "lower"
  BY <1>1
<1>14. Outermost(open)' /\ (~excused' => Carries(code, open, defers)')
  BY <1>3, Zenon DEF DeferInv
<1>15. phase' = "run" => \E b, bt \in Stacks : b[ip'] = pending' /\ Fits(code', b, bt)
  BY <1>2, <1>3, <1>12, Zenon
<1> QED BY <1>10, <1>13, <1>14, <1>15, Zenon DEF DeferInv

LEMMA DeferStep ==
  ASSUME StackInv, LabelInv, RunInv, LoopInv, DeferInv, [Next]_vars, [DefersFit]_vars
  PROVE  DeferInv'
<1>1. CASE Lower /\ DefersFit
  <2>1. phase = "lower" /\ UNCHANGED <<phase, ip, pending, misrun>>
    BY <1>1, LowerRuns
  <2>2. Outermost(open')
    BY <1>1, OutermostStep DEF DeferInv
  <2>3. ~excused' => Carries(code', open', defers')
    BY <1>1, ExcusedStays, CarryStep DEF DeferInv
  <2> QED BY <2>1, <2>2, <2>3 DEF DeferInv
<1>2. CASE BeginRun
  <2>1. /\ phase = "lower" /\ ~excused /\ phase' = "run"
        /\ UNCHANGED <<code, open, defers, excused, ip, pending, misrun>>
    BY <1>2 DEF BeginRun, lowerVars, runVars
  <2>2. ip = 1 /\ pending = << >>
    BY <2>1 DEF RunInv, DeferInv
  <2>3. PICK at \in Stacks : Leads(code, << >>, defers, at)
    BY <2>1 DEF DeferInv, Carries
  <2>4. PICK a \in Stacks : a[1] = << >> /\ Fits(code, a, at)
    BY <2>3 DEF Leads
  <2>5. \E b, bt \in Stacks : b[ip'] = pending' /\ Fits(code', b, bt)
    BY <2>1, <2>2, <2>4, Zenon
  <2>6. phase' # "lower"
    BY <2>1
  <2> QED BY <2>1, <2>5, <2>6, Zenon DEF DeferInv
<1>3. CASE Execute
  BY <1>3, ExecuteDefers
<1>4. CASE UNCHANGED vars
  BY <1>4, Zenon DEF vars, lowerVars, runVars, DeferInv
<1> QED BY <1>1, <1>2, <1>3, <1>4 DEF Next

LEMMA DeferInit ==
  ASSUME Init
  PROVE  DeferInv
<1>1. /\ open = <<[k |-> "block", locals |-> 0, defers |-> 0]>> /\ code = << >> /\ defers = << >>
      /\ phase = "lower" /\ pending = << >> /\ misrun = FALSE
  BY DEF Init
<1>2. DOMAIN open = {1} /\ open[1].k = "block" /\ open[1].defers = 0
  BY <1>1
<1>3. << >> \in Seq(Nat) /\ << >> \in Seq(Instr) /\ \A i \in 1 .. Len(<< >>) : FALSE
  OBVIOUS
<1> DEFINE at == [l \in Nat |-> << >>]
<1>4. at \in Stacks
  BY <1>3, Zenon DEF Stacks
<1> HIDE DEF at
<1>5. Leads(<< >>, << >>, << >>, at)
  <2>1. \A i \in 1 .. Len(<< >>) : Passes(<< >>[i], << >>, << >>, at)
    BY <1>3, Zenon
  <2>2. PICK c \in Seq(Instr) : c = << >>
    BY <1>3
  <2>3. PICK s \in Seq(Nat) : s = << >>
    BY <1>3
  <2>4. Leads(c, s, s, at)
    BY <2>1, <2>2, <2>3, LeadsLevel
  <2> QED BY <2>2, <2>3, <2>4, Zenon
<1>6. Meets(open, defers, at)
  BY <1>2 DEF Meets
<1>7. Carries(code, open, defers)
  BY <1>1, <1>4, <1>5, <1>6, Zenon DEF Carries
<1>8. Outermost(open)
  BY <1>2 DEF Outermost
<1> QED BY <1>1, <1>7, <1>8 DEF DeferInv

(* On every path through a function each deferred statement that is        *)
(* reached runs exactly once, the last reached first, whether blocks and   *)
(* loops are left by their end (cg_stmt, codegen.c), by a return, or by a  *)
(* break or continue with no defer between it and its loop: in every       *)
(* function whose loops and defers the arrays of CGCtx have room for.      *)
THEOREM DefersRun == Spec /\ [][LoopsFit]_vars /\ [][DefersFit]_vars => []DefersRunOnce
<1> DEFINE Inv == StackInv /\ LabelInv /\ RunInv /\ LoopInv /\ DeferInv
<1>1. Init => Inv
  <2>1. ASSUME Init PROVE RunInv
    BY <2>1 DEF Init, RunInv
  <2> QED BY <2>1, StackInit, LabelInit, LoopInit, DeferInit
<1>2. Inv /\ [Next]_vars /\ [LoopsFit]_vars /\ [DefersFit]_vars => Inv'
  BY StackStep, LabelStep, RunStep, LoopStep, DeferStep
<1>3. Inv => DefersRunOnce
  BY DEF DeferInv, DefersRunOnce
<1> HIDE DEF Inv
<1> QED BY <1>1, <1>2, <1>3, PTL DEF Spec
=============================================================================
