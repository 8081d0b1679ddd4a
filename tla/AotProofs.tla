----------------------------- MODULE AotProofs -----------------------------
(***************************************************************************)
(* The tables of the ahead-of-time compiler are right for every module of  *)
(* functions and every capacity, and the files written from them are what  *)
(* their headers say: proofs about Aot and Writers.                        *)
(*                                                                         *)
(* For the tables, three invariants, each inductive on top of the types.   *)
(* RelocInv: what a relocation says stays so because symbols are only      *)
(* appended and names are only added to the string table, and an extern    *)
(* found again has the symbol it had.  TableInv: the externs are the       *)
(* callees.  CoverInv: the function being compiled starts after the others *)
(* end, and what was called so far was called from it or from one of them. *)
(*                                                                         *)
(* For the files, WrittenIs says what a sequence of operations writes and  *)
(* where, from the sizes of what was written before; one lemma for each    *)
(* format gives these sizes.  WritersInv carries what the writers rely on  *)
(* to the moment they run, for each of the three backends.                 *)
(***************************************************************************)
EXTENDS Writers, FiniteSetTheorems, SequenceTheorems, WellFoundedInduction, TLAPS

-----------------------------------------------------------------------------
(* Arithmetic and string tables.                                           *)

LEMMA AlignUp16 ==
    ASSUME NEW n \in Nat
    PROVE  AlignUp(n, 16) \in Nat /\ AlignUp(n, 16) >= n /\ AlignUp(n, 16) % 16 = 0
<1> DEFINE q == (n + 15) \div 16
<1>1. q \in Nat /\ 16 * q + 15 >= n + 15
    BY SMT
<1>2. AlignUp(n, 16) = 16 * q
    BY DEF AlignUp
<1>3. (16 * q) % 16 = 0
    BY <1>1, SMT
<1>. QED
    BY <1>1, <1>2, <1>3

LEMMA InRegistersBound ==
    ASSUME NEW p \in Nat
    PROVE  InRegisters(p) \in 0 .. 6
BY DEF InRegisters, ArgRegs

LEMMA PrologueLenNat ==
    ASSUME NEW p \in Nat
    PROVE  PrologueLen(AotRegs, ArgRegs, p) \in Nat
<1> DEFINE M == {i \in 1 .. p : HomeOf(AotRegs, i) # ArgRegs[i]}
<1>0. IsFiniteSet(1 .. p)
    BY FS_Interval
<1>1. IsFiniteSet(M)
  <2>1. M \subseteq 1 .. p
      OBVIOUS
  <2>. HIDE DEF M
  <2>. QED
      BY <1>0, <2>1, FS_Subset
<1>2. Cardinality(M) \in Nat
    BY <1>1, FS_CardinalityType
<1>. QED
    BY <1>2 DEF PrologueLen

LEMMA PrologueIs ==
    ASSUME NEW p \in ParamCounts
    PROVE  PrologueLen(AotRegs, ArgRegs, InRegisters(p)) \in Nat
<1>1. p \in Nat
    BY AotAssumption DEF AotAssumption
<1>2. PICK m \in 0 .. 6 : m = InRegisters(p)
    BY <1>1, InRegistersBound
<1>3. PrologueLen(AotRegs, ArgRegs, m) \in Nat
    BY PrologueLenNat
<1>. QED
    BY <1>2, <1>3

(* Adding a name to a string table keeps the names it has and gives the    *)
(* new one the old length as its offset, in a table that is large enough.  *)
LEMMA StrAddFacts ==
    ASSUME AotTypeOK, NEW c \in Names
    PROVE  LET t == StrAdd(symstr, c)
           IN  /\ t.at = symstr.at \cup {<<symstr.len, c>>}
               /\ t.at \subseteq Nat \X Names /\ t.len \in Nat /\ t.cap \in Nat
               /\ symstr.len <= symstr.cap => t.len <= t.cap
<1> DEFINE size == NameLen[c] + 1
<1>1. size \in Nat
    BY AotAssumption DEF AotAssumption
<1>2. /\ StrAdd(symstr, c).at = symstr.at \cup {<<symstr.len, c>>}
      /\ StrAdd(symstr, c).len = symstr.len + size
      /\ StrAdd(symstr, c).cap = IF symstr.len + size > symstr.cap
                                THEN Longer(2 * symstr.cap, symstr.len + size + 64) ELSE symstr.cap
    BY DEF StrAdd
<1>3. symstr.len \in Nat /\ symstr.cap \in Nat /\ symstr.at \subseteq Nat \X Names
    BY DEF AotTypeOK
<1> HIDE DEF size
<1>4. StrAdd(symstr, c).cap \in Nat
    BY <1>1, <1>2, <1>3 DEF Longer
<1>5. symstr.len <= symstr.cap => StrAdd(symstr, c).len <= StrAdd(symstr, c).cap
    BY <1>1, <1>2, <1>3 DEF Longer
<1>. QED
    BY <1>1, <1>2, <1>3, <1>4, <1>5

(* An element of a sequence, and of the sequence with one more element.    *)
LEMMA Elements ==
    ASSUME NEW S, NEW s \in Seq(S)
    PROVE  /\ DOMAIN s = 1 .. Len(s) /\ Len(s) \in Nat
           /\ \A i \in DOMAIN s : s[i] \in S
<1>. QED
    BY LenProperties, ElementOfSeq

LEMMA Appended ==
    ASSUME NEW S, NEW s \in Seq(S), NEW e \in S
    PROVE  /\ Append(s, e) \in Seq(S)
           /\ Len(Append(s, e)) = Len(s) + 1
           /\ DOMAIN Append(s, e) = 1 .. Len(s) + 1
           /\ \A i \in DOMAIN s : Append(s, e)[i] = s[i]
           /\ Append(s, e)[Len(s) + 1] = e
<1>. QED
    BY AppendProperties, LenProperties

-----------------------------------------------------------------------------
(* Types.                                                                  *)

LEMMA AotInitTypes == AotInit => AotTypeOK
<1>1. AotInit => symstr.at = {} /\ symstr.len = 1 /\ symstr.cap = StrCap
    BY DEF AotInit, EmptyStr
<1>. QED
    BY <1>1, AotAssumption DEF AotInit, AotTypeOK, AotAssumption

LEMMA ExternSymNat ==
    ASSUME AotTypeOK, NEW c
    PROVE  ExternSym(c) \in Nat
<1>1. CASE KnownExtern(c)
  <2>1. PICK i \in DOMAIN externs : i = (CHOOSE j \in DOMAIN externs : externs[j].name = c)
      BY <1>1 DEF KnownExtern
  <2>2. externs \in Seq([name : Names, sym : Nat])
      BY DEF AotTypeOK
  <2>3. externs[i] \in [name : Names, sym : Nat]
      BY <2>1, <2>2, Elements
  <2>. QED
      BY <1>1, <2>1, <2>3 DEF ExternSym
<1>2. CASE ~KnownExtern(c)
    BY <1>2 DEF ExternSym, AotTypeOK
<1>. QED
    BY <1>1, <1>2

LEMMA CallTypes ==
    ASSUME AotTypeOK, NEW c \in Names, Call(c)
    PROVE  AotTypeOK'
<1>1. ExternSym(c) \in Nat
    BY ExternSymNat
<1>2. /\ syms' \in Seq([name : Nat, section : {0, 1}, value : Nat, size : Nat])
      /\ externs' \in Seq([name : Names, sym : Nat])
      /\ symstr'.at \subseteq Nat \X Names /\ symstr'.len \in Nat /\ symstr'.cap \in Nat
  <2>1. CASE KnownExtern(c)
      BY <2>1 DEF Call, DeclareExtern, AotTypeOK
  <2>2. CASE ~KnownExtern(c)
    <3>1. Undefined(c) \in [name : Nat, section : {0, 1}, value : Nat, size : Nat]
        BY DEF Undefined, AotTypeOK
    <3>2. [name |-> c, sym |-> ExternSym(c)] \in [name : Names, sym : Nat]
        BY <1>1
    <3>3. syms' = Append(syms, Undefined(c)) /\ symstr' = StrAdd(symstr, c)
          /\ externs' = Append(externs, [name |-> c, sym |-> ExternSym(c)])
        BY <2>2 DEF Call, DeclareExtern
    <3>4. /\ syms \in Seq([name : Nat, section : {0, 1}, value : Nat, size : Nat])
          /\ externs \in Seq([name : Names, sym : Nat])
        BY DEF AotTypeOK
    <3>5. /\ StrAdd(symstr, c).at \subseteq Nat \X Names
          /\ StrAdd(symstr, c).len \in Nat /\ StrAdd(symstr, c).cap \in Nat
        BY StrAddFacts
    <3>. QED
        BY <3>1, <3>2, <3>3, <3>4, <3>5, Appended
  <2>. QED
      BY <2>1, <2>2
<1>3. text_len' \in Nat /\ text_len' - 4 \in Nat /\ text_len + 1 \in Nat
    BY DEF Call, AotTypeOK
<1>4. relocs' \in Seq([offset : Nat, sym : Nat, addend : {-4}])
  <2>1. [offset |-> text_len' - 4, sym |-> ExternSym(c), addend |-> -4]
            \in [offset : Nat, sym : Nat, addend : {-4}]
      BY <1>1, <1>3
  <2>2. relocs \in Seq([offset : Nat, sym : Nat, addend : {-4}])
      BY DEF AotTypeOK
  <2>. QED
      BY <2>1, <2>2, Appended DEF Call
<1>5. cur.name \in FuncNames
    BY DEF Call, MoreItems, AotTypeOK
<1>6. calls' \in Seq([caller : FuncNames, at : Nat, callee : Names])
  <2>. DEFINE call == [caller |-> cur.name, at |-> text_len + 1, callee |-> c]
              CallRec == [caller : FuncNames, at : Nat, callee : Names]
  <2>1. call \in CallRec
      BY <1>3, <1>5
  <2>2. calls \in Seq(CallRec)
      BY DEF AotTypeOK
  <2>3. calls' = Append(calls, call)
      BY DEF Call
  <2>4. Append(calls, call) \in Seq(CallRec)
    <3>. HIDE DEF call, CallRec
    <3>. QED
        BY <2>1, <2>2, Appended
  <2>. QED
      BY <2>3, <2>4
<1>7. items' \in 0 .. MaxItems /\ UNCHANGED <<stage, cur, funcs>>
    BY AotAssumption DEF Call, MoreItems, AotTypeOK, AotAssumption
<1>. QED
    BY <1>2, <1>3, <1>4, <1>6, <1>7 DEF AotTypeOK

LEMMA EndFuncTypes ==
    ASSUME AotTypeOK, EndFunc, cur.start <= text_len
    PROVE  AotTypeOK'
<1>1. cur.name \in FuncNames /\ cur.name \in Names /\ cur.start \in Nat
    BY DEF EndFunc, AotTypeOK, Names
<1>2. text_len - cur.start \in Nat
    BY <1>1 DEF AotTypeOK
<1>3. FuncSymbol \in [name : Nat, section : {0, 1}, value : Nat, size : Nat]
    BY <1>1, <1>2 DEF FuncSymbol, AotTypeOK
<1>4. [name |-> cur.name, offset |-> cur.start, size |-> text_len - cur.start]
          \in [name : FuncNames, offset : Nat, size : Nat]
    BY <1>1, <1>2
<1>5. /\ syms \in Seq([name : Nat, section : {0, 1}, value : Nat, size : Nat])
      /\ funcs \in Seq([name : FuncNames, offset : Nat, size : Nat])
    BY DEF AotTypeOK
<1>6. /\ syms' \in Seq([name : Nat, section : {0, 1}, value : Nat, size : Nat])
      /\ funcs' \in Seq([name : FuncNames, offset : Nat, size : Nat])
    BY <1>3, <1>4, <1>5, Appended DEF EndFunc
<1>7. symstr'.at \subseteq Nat \X Names /\ symstr'.len \in Nat /\ symstr'.cap \in Nat
    BY <1>1, StrAddFacts DEF EndFunc
<1>. QED
    BY <1>6, <1>7 DEF EndFunc, AotTypeOK

(* The types with what they need: a function does not end before it starts. *)
AotTypes == AotTypeOK /\ (stage = "body" => cur.start <= text_len)

LEMMA BeginFuncTypes ==
    ASSUME AotTypes, NEW n \in FuncNames, NEW p \in ParamCounts, BeginFunc(n, p)
    PROVE  AotTypes'
<1>1. /\ AlignUp(text_len, 16) \in Nat
      /\ PrologueLen(AotRegs, ArgRegs, InRegisters(p)) \in Nat
    BY AlignUp16, PrologueIs DEF AotTypes, AotTypeOK
<1>2. text_len' \in Nat /\ cur'.start \in Nat /\ cur'.start <= text_len'
      /\ cur' \in [name : FuncNames \cup {"none"}, start : Nat] /\ cur'.name \in FuncNames
    BY <1>1 DEF BeginFunc
<1>3. stage' = "body" /\ items' \in 0 .. MaxItems
    BY AotAssumption DEF BeginFunc, AotAssumption
<1>. QED
    BY <1>2, <1>3 DEF BeginFunc, aotTables, AotTypes, AotTypeOK

LEMMA NextTypes ==
    ASSUME AotTypes, [AotNext]_aotVars
    PROVE  AotTypes'
<1>1. ASSUME NEW n \in FuncNames, NEW p \in ParamCounts, BeginFunc(n, p)
      PROVE  AotTypes'
    BY <1>1, BeginFuncTypes
<1>2. ASSUME NEW n \in Lengths, Instruction(n)
      PROVE  AotTypes'
  <2>1. n \in Nat
      BY AotAssumption DEF AotAssumption
  <2>2. text_len' \in Nat /\ text_len' >= text_len /\ items' \in 0 .. MaxItems
      BY <1>2, <2>1, AotAssumption DEF Instruction, MoreItems, AotTypes, AotTypeOK, AotAssumption
  <2>. QED
      BY <1>2, <2>2 DEF Instruction, aotTables, AotTypes, AotTypeOK
<1>3. ASSUME NEW c \in Names, Call(c)
      PROVE  AotTypes'
  <2>1. AotTypeOK'
      BY <1>3, CallTypes DEF AotTypes
  <2>2. text_len \in Nat /\ cur.start \in Nat
      BY DEF AotTypes, AotTypeOK
  <2>3. stage = "body" /\ stage' = stage /\ cur' = cur /\ text_len' = text_len + 5
      BY <1>3 DEF Call, MoreItems
  <2>. QED
      BY <2>1, <2>2, <2>3 DEF AotTypes
<1>4. ASSUME NEW how \in {"done", "overrun", "panic"}, Stop(how)
      PROVE  AotTypes'
    BY <1>4 DEF Stop, aotTables, AotTypes, AotTypeOK
<1>5. CASE EndFunc
  <2>1. AotTypeOK'
      BY <1>5, EndFuncTypes DEF AotTypes, EndFunc
  <2>. QED
      BY <1>5, <2>1 DEF EndFunc, AotTypes
<1>6. CASE UNCHANGED aotVars
    BY <1>6 DEF aotVars, aotTables, AotTypes, AotTypeOK
<1>. QED
    BY <1>1, <1>2, <1>3, <1>4, <1>5, <1>6
    DEF AotNext, CallPanics, CallOverruns, EndFuncPanics, EndFuncOverruns, EndModule

(* The types of the tables hold in every state, for all capacities. *)
THEOREM AotTypeCorrect == AotSpec => []AotTypeOK
<1>1. AotInit => AotTypes
    BY AotInitTypes DEF AotTypes, AotInit
<1>2. AotTypes /\ [AotNext]_aotVars => AotTypes'
    BY NextTypes
<1>3. AotTypes => AotTypeOK
    BY DEF AotTypes
<1>. QED
    BY <1>1, <1>2, <1>3, PTL DEF AotSpec

-----------------------------------------------------------------------------
(* Relocations.                                                            *)

(* The symbol numbered k has the name c. *)
Named(k, c) == k \in DOMAIN syms /\ <<syms[k].name, c>> \in symstr.at

RelocInv ==
    /\ RelocationsNameTheirCallee
    /\ \A i \in DOMAIN externs : Named(externs[i].sym, externs[i].name)

(* Symbols and names that are there stay there. *)
Grows ==
    /\ DOMAIN syms \subseteq DOMAIN syms'
    /\ \A k \in DOMAIN syms : syms'[k] = syms[k]
    /\ symstr.at \subseteq symstr'.at

LEMMA NamedStays ==
    ASSUME Grows, NEW k, NEW c, Named(k, c)
    PROVE  Named(k, c)'
BY DEF Grows, Named

LEMMA NamedAfterCall ==
    ASSUME AotTypeOK, RelocInv, NEW c \in Names, DeclareExtern(c), NEW k, k = ExternSym(c)
    PROVE  /\ Grows
           /\ Named(k, c)'
           /\ \A i \in DOMAIN externs' : Named(externs[i].sym, externs[i].name)'
<1>1. CASE KnownExtern(c)
  <2>1. PICK i \in DOMAIN externs : externs[i].name = c /\ k = externs[i].sym
      BY <1>1 DEF KnownExtern, ExternSym
  <2>2. UNCHANGED <<syms, symstr, externs>>
      BY <1>1 DEF DeclareExtern
  <2>3. Grows
      BY <2>2 DEF Grows
  <2>. QED
      BY <2>1, <2>2, <2>3 DEF RelocInv, Named
<1>2. CASE ~KnownExtern(c)
  <2>1. /\ syms \in Seq([name : Nat, section : {0, 1}, value : Nat, size : Nat])
        /\ externs \in Seq([name : Names, sym : Nat])
      BY DEF AotTypeOK
  <2>2. /\ syms' = Append(syms, Undefined(c)) /\ symstr' = StrAdd(symstr, c)
        /\ externs' = Append(externs, [name |-> c, sym |-> k]) /\ k = Len(syms) + 1
      BY <1>2 DEF DeclareExtern, ExternSym
  <2>3. /\ DOMAIN syms = 1 .. Len(syms) /\ Len(syms) \in Nat
        /\ DOMAIN syms' = 1 .. Len(syms) + 1
        /\ \A j \in DOMAIN syms : syms'[j] = syms[j]
        /\ syms'[k] = Undefined(c)
    <3>1. Undefined(c) \in [name : Nat, section : {0, 1}, value : Nat, size : Nat]
        BY DEF Undefined, AotTypeOK
    <3>2. DOMAIN syms = 1 .. Len(syms) /\ Len(syms) \in Nat
        BY <2>1, Elements
    <3>. QED
        BY <2>1, <2>2, <3>1, <3>2, Appended
  <2>4. symstr'.at = symstr.at \cup {<<symstr.len, c>>}
      BY <2>2, StrAddFacts
  <2>5. Grows
      BY <2>3, <2>4 DEF Grows
  <2>6. Named(k, c)'
    <3>1. k \in DOMAIN syms'
        BY <2>2, <2>3
    <3>2. syms'[k].name = symstr.len
        BY <2>3 DEF Undefined
    <3>. QED
        BY <2>4, <3>1, <3>2 DEF Named
  <2>7. ASSUME NEW i \in DOMAIN externs'
        PROVE  Named(externs[i].sym, externs[i].name)'
    <3>1. /\ DOMAIN externs = 1 .. Len(externs) /\ Len(externs) \in Nat
          /\ DOMAIN externs' = 1 .. Len(externs) + 1
          /\ \A j \in DOMAIN externs : externs'[j] = externs[j]
          /\ externs'[Len(externs) + 1] = [name |-> c, sym |-> k]
      <4>1. [name |-> c, sym |-> k] \in [name : Names, sym : Nat]
          BY <2>2, <2>3
      <4>. QED
          BY <2>1, <2>2, <4>1, Appended, Elements
    <3>2. CASE i \in DOMAIN externs
      <4>1. Named(externs[i].sym, externs[i].name) /\ externs'[i] = externs[i]
          BY <3>1, <3>2 DEF RelocInv
      <4>. QED
          BY <2>5, <4>1 DEF Grows, Named
    <3>3. CASE i = Len(externs) + 1
        BY <2>6, <3>1, <3>3 DEF Named
    <3>. QED
        BY <3>1, <3>2, <3>3
  <2>. QED
      BY <2>5, <2>6, <2>7
<1>. QED
    BY <1>1, <1>2

(* A call adds one relocation and one call, which agree. *)
LEMMA CallRelocs ==
    ASSUME AotTypes, RelocInv, NEW c \in Names, Call(c)
    PROVE  RelocInv'
<1>1. PICK k : k = ExternSym(c)
    OBVIOUS
<1>2. k \in Nat /\ text_len \in Nat /\ cur.name \in FuncNames
    BY <1>1, ExternSymNat DEF AotTypes, AotTypeOK, Call, MoreItems
<1> DEFINE r == [offset |-> text_len' - 4, sym |-> k, addend |-> -4]
           call == [caller |-> cur.name, at |-> text_len + 1, callee |-> c]
<1>3. /\ r \in [offset : Nat, sym : Nat, addend : {-4}]
      /\ call \in [caller : FuncNames, at : Nat, callee : Names]
      /\ r.offset = call.at
    BY <1>2 DEF Call
<1>4. relocs' = Append(relocs, r) /\ calls' = Append(calls, call)
    BY <1>1 DEF Call
<1>5. /\ Grows /\ Named(k, c)'
      /\ \A i \in DOMAIN externs' : Named(externs[i].sym, externs[i].name)'
    BY <1>1, NamedAfterCall DEF AotTypes, Call
<1>6. /\ relocs \in Seq([offset : Nat, sym : Nat, addend : {-4}])
      /\ calls \in Seq([caller : FuncNames, at : Nat, callee : Names])
      /\ Len(relocs) = Len(calls)
    BY DEF AotTypes, AotTypeOK, RelocInv, RelocationsNameTheirCallee
<1>7. /\ DOMAIN relocs = 1 .. Len(relocs) /\ Len(relocs) \in Nat
      /\ Len(relocs') = Len(relocs) + 1 /\ Len(calls') = Len(relocs) + 1
      /\ DOMAIN relocs' = 1 .. Len(relocs) + 1 /\ DOMAIN calls = DOMAIN relocs
      /\ \A i \in DOMAIN relocs : relocs'[i] = relocs[i] /\ calls'[i] = calls[i]
      /\ relocs'[Len(relocs) + 1] = r /\ calls'[Len(relocs) + 1] = call
  <2>. HIDE DEF r, call
  <2>. QED
      BY <1>3, <1>4, <1>6, Appended, Elements
<1>8. ASSUME NEW i \in DOMAIN relocs'
      PROVE  relocs'[i].offset = calls'[i].at /\ Named(relocs[i].sym, calls[i].callee)'
  <2>1. CASE i \in DOMAIN relocs
    <3>1. relocs[i].offset = calls[i].at /\ Named(relocs[i].sym, calls[i].callee)
        BY <2>1 DEF RelocInv, RelocationsNameTheirCallee, Named
    <3>. QED
        BY <1>5, <1>7, <2>1, <3>1 DEF Grows, Named
  <2>2. CASE i = Len(relocs) + 1
      BY <1>3, <1>5, <1>7, <2>2 DEF Named
  <2>. QED
      BY <1>7, <2>1, <2>2
<1>. QED
    BY <1>5, <1>7, <1>8 DEF RelocInv, RelocationsNameTheirCallee, Named

(* The symbol of a function disturbs no other. *)
LEMMA EndFuncGrows ==
    ASSUME AotTypes, EndFunc
    PROVE  Grows
<1>1. cur.name \in FuncNames /\ cur.name \in Names /\ cur.start \in Nat /\ text_len - cur.start \in Nat
    BY DEF EndFunc, AotTypes, AotTypeOK, Names
<1>2. FuncSymbol \in [name : Nat, section : {0, 1}, value : Nat, size : Nat]
    BY <1>1 DEF FuncSymbol, AotTypes, AotTypeOK
<1>3. syms \in Seq([name : Nat, section : {0, 1}, value : Nat, size : Nat])
    BY DEF AotTypes, AotTypeOK
<1>4. /\ DOMAIN syms = 1 .. Len(syms) /\ Len(syms) \in Nat
      /\ DOMAIN syms' = 1 .. Len(syms) + 1
      /\ \A j \in DOMAIN syms : syms'[j] = syms[j]
    BY <1>2, <1>3, Appended, Elements DEF EndFunc
<1>5. symstr'.at = symstr.at \cup {<<symstr.len, cur.name>>}
    BY <1>1, StrAddFacts DEF EndFunc, AotTypes
<1>. QED
    BY <1>4, <1>5 DEF Grows

LEMMA NextRelocs ==
    ASSUME AotTypes, RelocInv, [AotNext]_aotVars
    PROVE  RelocInv'
<1>1. CASE UNCHANGED <<aotTables, calls>>
    BY <1>1 DEF aotTables, RelocInv, RelocationsNameTheirCallee, Named
<1>2. ASSUME NEW c \in Names, Call(c)
      PROVE  RelocInv'
    BY <1>2, CallRelocs
<1>3. CASE EndFunc
  <2>1. Grows
      BY <1>3, EndFuncGrows
  <2>2. UNCHANGED <<relocs, externs, calls>>
      BY <1>3 DEF EndFunc
  <2>. QED
      BY <2>1, <2>2 DEF Grows, RelocInv, RelocationsNameTheirCallee, Named
<1>. QED
    BY <1>1, <1>2, <1>3
    DEF AotNext, aotVars, aotTables, BeginFunc, Instruction, Stop, CallPanics, CallOverruns,
        EndFuncPanics, EndFuncOverruns, EndModule

(* Whatever is compiled and whatever the capacities, each call has one     *)
(* relocation, which names its callee.                                     *)
THEOREM RelocationsCorrect == AotSpec => []RelocationsNameTheirCallee
<1>1. AotInit => AotTypes /\ RelocInv
    BY AotInitTypes DEF AotTypes, AotInit, RelocInv, RelocationsNameTheirCallee
<1>2. AotTypes /\ RelocInv /\ [AotNext]_aotVars => AotTypes' /\ RelocInv'
    BY NextTypes, NextRelocs
<1>3. RelocInv => RelocationsNameTheirCallee
    BY DEF RelocInv
<1>. QED
    BY <1>1, <1>2, <1>3, PTL DEF AotSpec

-----------------------------------------------------------------------------
(* Tables.                                                                 *)

(* The externs are exactly the callees. *)
TableInv ==
    /\ TablesInBounds
    /\ IsFiniteSet(Callees)
    /\ \A c \in Names : KnownExtern(c) <=> c \in Callees

LEMMA CallCallees ==
    ASSUME AotTypes, NEW c \in Names, Call(c)
    PROVE  Callees' = Callees \cup {c}
<1> DEFINE call == [caller |-> cur.name, at |-> text_len + 1, callee |-> c]
<1>1. call \in [caller : FuncNames, at : Nat, callee : Names]
    BY DEF Call, MoreItems, AotTypes, AotTypeOK
<1>2. calls \in Seq([caller : FuncNames, at : Nat, callee : Names])
    BY DEF AotTypes, AotTypeOK
<1>3. calls' = Append(calls, call) /\ call.callee = c
    BY DEF Call
<1>4. /\ DOMAIN calls = 1 .. Len(calls) /\ Len(calls) \in Nat
      /\ DOMAIN calls' = 1 .. Len(calls) + 1
      /\ \A i \in DOMAIN calls : calls'[i] = calls[i]
      /\ calls'[Len(calls) + 1] = call
  <2>. HIDE DEF call
  <2>. QED
      BY <1>1, <1>2, <1>3, Appended, Elements
<1>5. DOMAIN calls' = DOMAIN calls \cup {Len(calls) + 1}
    BY <1>4
<1>. HIDE DEF call
<1>. QED
    BY <1>3, <1>4, <1>5 DEF Callees

LEMMA CallTables ==
    ASSUME AotTypes, TableInv, NEW c \in Names, Call(c)
    PROVE  TableInv'
<1>1. Callees' = Callees \cup {c} /\ IsFiniteSet(Callees)
    BY CallCallees DEF TableInv
<1>2. IsFiniteSet(Callees')
    BY <1>1, FS_AddElement
<1>3. UNCHANGED funcs
    BY DEF Call
<1>4. CASE KnownExtern(c)
  <2>1. c \in Callees
      BY <1>4 DEF TableInv
  <2>2. Callees' = Callees
      BY <1>1, <2>1
  <2>3. UNCHANGED <<syms, symstr, externs>>
      BY <1>4 DEF Call, DeclareExtern
  <2>. QED
      BY <1>2, <1>3, <2>2, <2>3 DEF TableInv, TablesInBounds, KnownExtern
<1>5. CASE ~KnownExtern(c)
  <2> DEFINE e == [name |-> c, sym |-> ExternSym(c)]
  <2>1. c \notin Callees
      BY <1>5 DEF TableInv
  <2>2. Cardinality(Callees') = Cardinality(Callees) + 1
      BY <1>1, <2>1, FS_AddElement
  <2>3. /\ syms' = Append(syms, Undefined(c)) /\ symstr' = StrAdd(symstr, c)
        /\ externs' = Append(externs, e) /\ e.name = c
        /\ Len(syms) + 1 < MaxSyms /\ Len(externs) < ExternCap
      BY <1>5 DEF Call, DeclareExtern
  <2>4. /\ e \in [name : Names, sym : Nat]
        /\ Undefined(c) \in [name : Nat, section : {0, 1}, value : Nat, size : Nat]
      BY ExternSymNat DEF AotTypes, AotTypeOK, Undefined
  <2>5. /\ syms \in Seq([name : Nat, section : {0, 1}, value : Nat, size : Nat])
        /\ externs \in Seq([name : Names, sym : Nat])
      BY DEF AotTypes, AotTypeOK
  <2>. HIDE DEF e
  <2>6. /\ DOMAIN externs = 1 .. Len(externs) /\ Len(externs) \in Nat /\ Len(syms) \in Nat
        /\ DOMAIN externs' = 1 .. Len(externs) + 1
        /\ Len(externs') = Len(externs) + 1 /\ Len(syms') = Len(syms) + 1
        /\ \A i \in DOMAIN externs : externs'[i] = externs[i]
        /\ externs'[Len(externs) + 1] = e
      BY <2>3, <2>4, <2>5, Appended, Elements
  <2>7. symstr'.len <= symstr'.cap
      BY <2>3, StrAddFacts DEF AotTypes, TableInv, TablesInBounds
  <2>8. \A d \in Names : KnownExtern(d)' <=> KnownExtern(d) \/ d = c
    <3>1. DOMAIN externs' = DOMAIN externs \cup {Len(externs) + 1}
        BY <2>6
    <3>. QED
        BY <2>3, <2>6, <3>1 DEF KnownExtern
  <2>9. Len(externs') <= ExternCap /\ Len(syms') < MaxSyms
      BY <2>3, <2>6, AotAssumption DEF AotAssumption
  <2>10. Len(externs') = Cardinality(Callees')
      BY <2>2, <2>6 DEF TableInv, TablesInBounds
  <2>. QED
      BY <1>1, <1>2, <1>3, <2>7, <2>8, <2>9, <2>10 DEF TableInv, TablesInBounds
<1>. QED
    BY <1>4, <1>5

LEMMA EndFuncTables ==
    ASSUME AotTypes, TableInv, EndFunc
    PROVE  TableInv'
<1>1. cur.name \in FuncNames /\ cur.name \in Names /\ cur.start \in Nat /\ text_len - cur.start \in Nat
    BY DEF EndFunc, AotTypes, AotTypeOK, Names
<1>2. /\ FuncSymbol \in [name : Nat, section : {0, 1}, value : Nat, size : Nat]
      /\ [name |-> cur.name, offset |-> cur.start, size |-> text_len - cur.start]
            \in [name : FuncNames, offset : Nat, size : Nat]
    BY <1>1 DEF FuncSymbol, AotTypes, AotTypeOK
<1>3. /\ syms \in Seq([name : Nat, section : {0, 1}, value : Nat, size : Nat])
      /\ funcs \in Seq([name : FuncNames, offset : Nat, size : Nat])
    BY DEF AotTypes, AotTypeOK
<1>4. /\ Len(syms') = Len(syms) + 1 /\ Len(funcs') = Len(funcs) + 1
      /\ Len(syms) \in Nat /\ Len(funcs) \in Nat
    BY <1>2, <1>3, Appended, Elements DEF EndFunc
<1>5. Len(syms') < MaxSyms /\ Len(funcs') <= FuncCap
    BY <1>4, AotAssumption DEF EndFunc, AotAssumption
<1>6. symstr'.len <= symstr'.cap
    BY <1>1, StrAddFacts DEF EndFunc, AotTypes, TableInv, TablesInBounds
<1>7. UNCHANGED <<externs, calls, Callees>>
    BY DEF EndFunc, Callees
<1>. QED
    BY <1>5, <1>6, <1>7 DEF TableInv, TablesInBounds, KnownExtern

LEMMA NextTables ==
    ASSUME AotTypes, TableInv, [AotNext]_aotVars
    PROVE  TableInv'
<1>1. CASE UNCHANGED <<aotTables, calls>>
    BY <1>1 DEF aotTables, TableInv, TablesInBounds, Callees, KnownExtern
<1>2. ASSUME NEW c \in Names, Call(c)
      PROVE  TableInv'
    BY <1>2, CallTables
<1>3. CASE EndFunc
    BY <1>3, EndFuncTables
<1>. QED
    BY <1>1, <1>2, <1>3
    DEF AotNext, aotVars, aotTables, BeginFunc, Instruction, Stop, CallPanics, CallOverruns,
        EndFuncPanics, EndFuncOverruns, EndModule

LEMMA InitTables == AotInit => TableInv
<1> SUFFICES ASSUME AotInit PROVE TableInv
    OBVIOUS
<1>1. calls = << >> /\ syms = << >> /\ externs = << >> /\ funcs = << >> /\ symstr = EmptyStr
    BY DEF AotInit
<1>2. Callees = {} /\ Cardinality(Callees) = 0 /\ IsFiniteSet(Callees)
    BY <1>1, FS_EmptySet DEF Callees
<1>3. symstr.len <= symstr.cap
    BY <1>1, AotAssumption DEF EmptyStr, AotAssumption
<1>4. \A c \in Names : ~KnownExtern(c)
    BY <1>1 DEF KnownExtern
<1>. QED
    BY <1>1, <1>2, <1>3, <1>4, AotAssumption DEF TableInv, TablesInBounds, AotAssumption

(* The names fit the string table each time it grows, the guarded tables   *)
(* hold what they have room for, and externs are not entered twice.        *)
THEOREM TablesCorrect == AotSpec => []TablesInBounds
<1>1. AotInit => AotTypes /\ TableInv
    BY AotInitTypes, InitTables DEF AotTypes, AotInit
<1>2. AotTypes /\ TableInv /\ [AotNext]_aotVars => AotTypes' /\ TableInv'
    BY NextTypes, NextTables
<1>3. TableInv => TablesInBounds
    BY DEF TableInv
<1>. QED
    BY <1>1, <1>2, <1>3, PTL DEF AotSpec

-----------------------------------------------------------------------------
(* Functions in the text.                                                  *)

EndOf(f) == f.offset + f.size

CoverInv ==
    /\ SymbolsCoverFunctions
    /\ stage = "body" =>
          /\ cur.start % 16 = 0
          /\ \A i \in DOMAIN funcs : EndOf(funcs[i]) <= cur.start /\ funcs[i].name # cur.name
          /\ \A k \in DOMAIN calls :
                calls[k].caller = cur.name => cur.start <= calls[k].at /\ calls[k].at + 4 <= text_len
    /\ stage \in {"idle", "body"} =>
          \A k \in DOMAIN calls :
              \/ \E i \in DOMAIN funcs : funcs[i].name = calls[k].caller
              \/ stage = "body" /\ calls[k].caller = cur.name

(* The elements of the tables, as numbers. *)
LEMMA TableElements ==
    ASSUME AotTypeOK
    PROVE  /\ \A i \in DOMAIN funcs :
                 /\ funcs[i].name \in FuncNames /\ funcs[i].offset \in Nat /\ funcs[i].size \in Nat
                 /\ EndOf(funcs[i]) \in Nat
           /\ \A k \in DOMAIN calls : calls[k].at \in Nat /\ calls[k].caller \in FuncNames
           /\ DOMAIN funcs = 1 .. Len(funcs) /\ Len(funcs) \in Nat
           /\ DOMAIN calls = 1 .. Len(calls) /\ Len(calls) \in Nat
           /\ Len(syms) \in Nat /\ Len(externs) \in Nat
           /\ text_len \in Nat /\ cur.start \in Nat
<1>1. /\ funcs \in Seq([name : FuncNames, offset : Nat, size : Nat])
      /\ calls \in Seq([caller : FuncNames, at : Nat, callee : Names])
      /\ syms \in Seq([name : Nat, section : {0, 1}, value : Nat, size : Nat])
      /\ externs \in Seq([name : Names, sym : Nat])
    BY DEF AotTypeOK
<1>2. /\ \A i \in DOMAIN funcs : funcs[i] \in [name : FuncNames, offset : Nat, size : Nat]
      /\ \A k \in DOMAIN calls : calls[k] \in [caller : FuncNames, at : Nat, callee : Names]
      /\ DOMAIN funcs = 1 .. Len(funcs) /\ Len(funcs) \in Nat
      /\ DOMAIN calls = 1 .. Len(calls) /\ Len(calls) \in Nat
      /\ Len(syms) \in Nat /\ Len(externs) \in Nat
    BY <1>1, Elements
<1>3. text_len \in Nat /\ cur.start \in Nat
    BY DEF AotTypeOK
<1>. QED
    BY <1>2, <1>3 DEF EndOf

LEMMA BeginFuncCovers ==
    ASSUME AotTypes, CoverInv, NEW n \in FuncNames, NEW p \in ParamCounts, BeginFunc(n, p)
    PROVE  CoverInv'
<1> DEFINE start == AlignUp(text_len, 16)
<1>1. /\ text_len \in Nat /\ start \in Nat /\ start >= text_len /\ start % 16 = 0
      /\ PrologueLen(AotRegs, ArgRegs, InRegisters(p)) \in Nat
    BY AlignUp16, PrologueIs DEF AotTypes, AotTypeOK
<1>2. /\ stage = "idle" /\ n \notin {funcs[i].name : i \in DOMAIN funcs}
      /\ cur' = [name |-> n, start |-> start] /\ stage' = "body"
      /\ text_len' = start + PrologueLen(AotRegs, ArgRegs, InRegisters(p))
      /\ UNCHANGED <<syms, symstr, externs, funcs, calls>>
    BY DEF BeginFunc, aotTables
<1>. HIDE DEF start
<1>3. text_len' \in Nat /\ text_len' >= text_len /\ cur'.start = start /\ cur'.name = n
    BY <1>1, <1>2
<1>4. SymbolsCoverFunctions'
  <2>1. \A i \in DOMAIN funcs : EndOf(funcs[i]) <= text_len'
      BY <1>1, <1>3, TableElements DEF CoverInv, SymbolsCoverFunctions, EndOf, AotTypes
  <2>. QED
      BY <1>2, <2>1 DEF CoverInv, SymbolsCoverFunctions, EndOf
<1>5. \A i \in DOMAIN funcs : EndOf(funcs[i]) <= start /\ funcs[i].name # n
  <2>1. \A i \in DOMAIN funcs : EndOf(funcs[i]) \in Nat /\ EndOf(funcs[i]) <= text_len
      BY TableElements DEF CoverInv, SymbolsCoverFunctions, EndOf, AotTypes
  <2>. QED
      BY <1>1, <1>2, <2>1
<1>6. \A k \in DOMAIN calls : \E i \in DOMAIN funcs : funcs[i].name = calls[k].caller
    BY <1>2 DEF CoverInv
<1>7. \A k \in DOMAIN calls : calls[k].caller # n
    BY <1>5, <1>6
<1>. QED
    BY <1>1, <1>2, <1>3, <1>4, <1>5, <1>6, <1>7 DEF CoverInv, EndOf

(* The text grows by n bytes while a function is compiled. *)
LEMMA TextGrows ==
    ASSUME AotTypes, CoverInv, stage = "body",
           NEW n \in Nat, text_len' = text_len + n,
           UNCHANGED <<stage, cur, syms, symstr, externs, funcs, calls>>
    PROVE  CoverInv'
<1>1. /\ \A i \in DOMAIN funcs : EndOf(funcs[i]) <= text_len'
      /\ \A k \in DOMAIN calls : calls[k].caller = cur.name => calls[k].at + 4 <= text_len'
  <2>1. /\ \A i \in DOMAIN funcs : EndOf(funcs[i]) \in Nat /\ EndOf(funcs[i]) <= text_len
        /\ \A k \in DOMAIN calls :
              calls[k].at \in Nat /\ (calls[k].caller = cur.name => calls[k].at + 4 <= text_len)
        /\ text_len \in Nat
      BY TableElements DEF CoverInv, SymbolsCoverFunctions, EndOf, AotTypes
  <2>. QED
      BY <2>1
<1>2. SymbolsCoverFunctions'
    BY <1>1 DEF CoverInv, SymbolsCoverFunctions, EndOf
<1>. QED
    BY <1>1, <1>2 DEF CoverInv, EndOf

LEMMA CallCovers ==
    ASSUME AotTypes, RelocInv, CoverInv, NEW c \in Names, Call(c)
    PROVE  CoverInv'
<1> DEFINE call == [caller |-> cur.name, at |-> text_len + 1, callee |-> c]
<1>1. /\ stage = "body" /\ stage' = stage /\ cur' = cur /\ funcs' = funcs
      /\ text_len' = text_len + 5 /\ calls' = Append(calls, call)
    BY DEF Call, MoreItems
<1>2. /\ call \in [caller : FuncNames, at : Nat, callee : Names]
      /\ calls \in Seq([caller : FuncNames, at : Nat, callee : Names])
      /\ call.at = text_len + 1 /\ call.caller = cur.name
    BY <1>1 DEF AotTypes, AotTypeOK
<1>. HIDE DEF call
<1>3. /\ DOMAIN calls = 1 .. Len(calls) /\ Len(calls) \in Nat
      /\ DOMAIN calls' = 1 .. Len(calls) + 1
      /\ \A i \in DOMAIN calls : calls'[i] = calls[i]
      /\ calls'[Len(calls) + 1] = call
    BY <1>1, <1>2, Appended, Elements
<1>4. ASSUME NEW k \in DOMAIN calls'
      PROVE  (k \in DOMAIN calls /\ calls'[k] = calls[k]) \/ calls'[k] = call
    BY <1>3
<1>5. Grows
  <2>1. PICK s : s = ExternSym(c)
      OBVIOUS
  <2>. QED
      BY <2>1, NamedAfterCall DEF AotTypes, Call
<1>6. Len(syms') = Len(funcs) + Len(externs')
  <2>1. CASE KnownExtern(c)
      BY <2>1 DEF Call, DeclareExtern, CoverInv, SymbolsCoverFunctions
  <2>2. CASE ~KnownExtern(c)
    <3>1. /\ syms' = Append(syms, Undefined(c))
          /\ externs' = Append(externs, [name |-> c, sym |-> ExternSym(c)])
        BY <2>2 DEF Call, DeclareExtern
    <3>2. /\ Undefined(c) \in [name : Nat, section : {0, 1}, value : Nat, size : Nat]
          /\ [name |-> c, sym |-> ExternSym(c)] \in [name : Names, sym : Nat]
          /\ syms \in Seq([name : Nat, section : {0, 1}, value : Nat, size : Nat])
          /\ externs \in Seq([name : Names, sym : Nat])
        BY ExternSymNat DEF Undefined, AotTypes, AotTypeOK
    <3>3. Len(syms') = Len(syms) + 1 /\ Len(externs') = Len(externs) + 1
        BY <3>1, <3>2, Appended
    <3>4. Len(syms) = Len(funcs) + Len(externs)
        BY DEF CoverInv, SymbolsCoverFunctions
    <3>. QED
        BY <3>3, <3>4, TableElements DEF AotTypes
  <2>. QED
      BY <2>1, <2>2
<1>7. \A i \in DOMAIN funcs :
        \E s \in DOMAIN syms' :
            /\ syms'[s].section = 1
            /\ syms'[s].value = funcs[i].offset /\ syms'[s].size = funcs[i].size
            /\ <<syms'[s].name, funcs[i].name>> \in symstr'.at
    BY <1>5 DEF Grows, CoverInv, SymbolsCoverFunctions
<1>8. \A i \in DOMAIN funcs :
        /\ funcs[i].offset % 16 = 0
        /\ EndOf(funcs[i]) <= text_len'
        /\ \A j \in 1 .. i - 1 : EndOf(funcs[j]) <= funcs[i].offset
  <2>1. \A i \in DOMAIN funcs :
          /\ funcs[i].offset % 16 = 0
          /\ EndOf(funcs[i]) <= text_len
          /\ \A j \in 1 .. i - 1 : EndOf(funcs[j]) <= funcs[i].offset
      BY DEF CoverInv, SymbolsCoverFunctions, EndOf
  <2>2. text_len \in Nat /\ \A i \in DOMAIN funcs : EndOf(funcs[i]) \in Nat
      BY TableElements DEF AotTypes
  <2>3. \A i \in DOMAIN funcs : EndOf(funcs[i]) <= text_len'
      BY <1>1, <2>1, <2>2
  <2>. QED
      BY <2>1, <2>3
<1>9. \A k \in DOMAIN calls', i \in DOMAIN funcs :
        calls'[k].caller = funcs[i].name =>
            funcs[i].offset <= calls'[k].at /\ calls'[k].at + 4 <= EndOf(funcs[i])
  <2>1. \A i \in DOMAIN funcs : funcs[i].name # cur.name
      BY <1>1 DEF CoverInv
  <2>2. \A k \in DOMAIN calls, i \in DOMAIN funcs :
          calls[k].caller = funcs[i].name =>
              funcs[i].offset <= calls[k].at /\ calls[k].at + 4 <= EndOf(funcs[i])
      BY DEF CoverInv, SymbolsCoverFunctions, EndOf
  <2>. QED
      BY <1>2, <1>4, <2>1, <2>2
<1>10. \A k \in DOMAIN calls' :
         calls'[k].caller = cur.name => cur.start <= calls'[k].at /\ calls'[k].at + 4 <= text_len'
  <2>1. cur.start <= call.at /\ call.at + 4 <= text_len'
      BY <1>1, <1>2, TableElements DEF AotTypes
  <2>2. \A k \in DOMAIN calls :
          calls[k].caller = cur.name => cur.start <= calls[k].at /\ calls[k].at + 4 <= text_len'
    <3>1. \A k \in DOMAIN calls :
            calls[k].caller = cur.name => cur.start <= calls[k].at /\ calls[k].at + 4 <= text_len
        BY <1>1 DEF CoverInv
    <3>2. text_len \in Nat /\ text_len' = text_len + 5 /\ \A k \in DOMAIN calls : calls[k].at \in Nat
        BY <1>1, TableElements DEF AotTypes
    <3>. QED
        BY <3>1, <3>2
  <2>. QED
      BY <1>4, <2>1, <2>2
<1>11. \A k \in DOMAIN calls' :
         (\E i \in DOMAIN funcs : funcs[i].name = calls'[k].caller) \/ calls'[k].caller = cur.name
    BY <1>1, <1>2, <1>4 DEF CoverInv
<1>12. SymbolsCoverFunctions'
    BY <1>1, <1>6, <1>7, <1>8, <1>9 DEF SymbolsCoverFunctions, EndOf
<1>. QED
    BY <1>1, <1>10, <1>11, <1>12 DEF CoverInv

LEMMA EndFuncCovers ==
    ASSUME AotTypes, CoverInv, EndFunc
    PROVE  CoverInv'
<1> DEFINE f == [name |-> cur.name, offset |-> cur.start, size |-> text_len - cur.start]
<1>1. /\ cur.name \in FuncNames /\ cur.name \in Names
      /\ cur.start \in Nat /\ text_len \in Nat /\ text_len - cur.start \in Nat
    BY DEF EndFunc, AotTypes, AotTypeOK, Names
<1>2. /\ FuncSymbol \in [name : Nat, section : {0, 1}, value : Nat, size : Nat]
      /\ f \in [name : FuncNames, offset : Nat, size : Nat]
      /\ f.name = cur.name /\ f.offset = cur.start /\ f.size = text_len - cur.start
      /\ EndOf(f) = text_len
    BY <1>1 DEF FuncSymbol, AotTypes, AotTypeOK, EndOf
<1>3. /\ syms \in Seq([name : Nat, section : {0, 1}, value : Nat, size : Nat])
      /\ funcs \in Seq([name : FuncNames, offset : Nat, size : Nat])
    BY DEF AotTypes, AotTypeOK
<1>4. /\ stage = "body" /\ stage' = "idle" /\ UNCHANGED <<cur, text_len, externs, calls>>
      /\ syms' = Append(syms, FuncSymbol) /\ funcs' = Append(funcs, f)
      /\ symstr' = StrAdd(symstr, cur.name)
    BY DEF EndFunc
<1>5. /\ symstr'.at = symstr.at \cup {<<symstr.len, cur.name>>}
      /\ Grows
    BY <1>1, <1>4, StrAddFacts, EndFuncGrows DEF AotTypes
<1>. HIDE DEF f
<1>6. /\ DOMAIN funcs = 1 .. Len(funcs) /\ Len(funcs) \in Nat /\ Len(syms) \in Nat
      /\ DOMAIN funcs' = 1 .. Len(funcs) + 1 /\ Len(funcs') = Len(funcs) + 1
      /\ \A i \in DOMAIN funcs : funcs'[i] = funcs[i]
      /\ funcs'[Len(funcs) + 1] = f
      /\ DOMAIN syms' = 1 .. Len(syms) + 1 /\ Len(syms') = Len(syms) + 1
      /\ syms'[Len(syms) + 1] = FuncSymbol
    BY <1>2, <1>3, <1>4, Appended, Elements
<1>7. ASSUME NEW i \in DOMAIN funcs'
      PROVE  \/ i \in DOMAIN funcs /\ funcs'[i] = funcs[i]
             \/ i = Len(funcs) + 1 /\ funcs'[i] = f
    BY <1>6
<1>8. Len(syms') = Len(funcs') + Len(externs')
    BY <1>4, <1>6, TableElements DEF CoverInv, SymbolsCoverFunctions, AotTypes
<1>9. ASSUME NEW i \in DOMAIN funcs'
      PROVE  \E s \in DOMAIN syms' :
                /\ syms'[s].section = 1
                /\ syms'[s].value = funcs'[i].offset /\ syms'[s].size = funcs'[i].size
                /\ <<syms'[s].name, funcs'[i].name>> \in symstr'.at
  <2>1. CASE i \in DOMAIN funcs /\ funcs'[i] = funcs[i]
      BY <1>5, <2>1 DEF Grows, CoverInv, SymbolsCoverFunctions
  <2>2. CASE funcs'[i] = f
    <3>1. Len(syms) + 1 \in DOMAIN syms'
        BY <1>6
    <3>2. /\ FuncSymbol.section = 1 /\ FuncSymbol.value = f.offset /\ FuncSymbol.size = f.size
          /\ <<FuncSymbol.name, f.name>> \in symstr'.at
        BY <1>2, <1>5 DEF FuncSymbol
    <3>. QED
        BY <1>6, <2>2, <3>1, <3>2
  <2>. QED
      BY <1>7, <2>1, <2>2
<1>10. ASSUME NEW i \in DOMAIN funcs'
       PROVE  /\ funcs'[i].offset % 16 = 0
              /\ EndOf(funcs'[i]) <= text_len
              /\ \A j \in 1 .. i - 1 : EndOf(funcs'[j]) <= funcs'[i].offset
  <2>1. CASE i \in DOMAIN funcs /\ funcs'[i] = funcs[i]
    <3>1. \A j \in 1 .. i - 1 : j \in DOMAIN funcs
        BY <1>6, <2>1
    <3>. QED
        BY <1>6, <2>1, <3>1 DEF CoverInv, SymbolsCoverFunctions, EndOf
  <2>2. CASE i = Len(funcs) + 1 /\ funcs'[i] = f
    <3>1. \A j \in 1 .. i - 1 : j \in DOMAIN funcs
        BY <1>6, <2>2
    <3>. QED
        BY <1>1, <1>2, <1>4, <1>6, <2>2, <3>1 DEF CoverInv
  <2>. QED
      BY <1>7, <2>1, <2>2
<1>11. ASSUME NEW k \in DOMAIN calls, NEW i \in DOMAIN funcs', calls[k].caller = funcs'[i].name
       PROVE  funcs'[i].offset <= calls[k].at /\ calls[k].at + 4 <= EndOf(funcs'[i])
  <2>1. CASE i \in DOMAIN funcs /\ funcs'[i] = funcs[i]
      BY <1>11, <2>1 DEF CoverInv, SymbolsCoverFunctions, EndOf
  <2>2. CASE funcs'[i] = f
      BY <1>2, <1>4, <1>11, <2>2 DEF CoverInv
  <2>. QED
      BY <1>7, <2>1, <2>2
<1>12. SymbolsCoverFunctions'
    BY <1>4, <1>8, <1>9, <1>10, <1>11 DEF SymbolsCoverFunctions, EndOf
<1>13. ASSUME NEW k \in DOMAIN calls
       PROVE  \E i \in DOMAIN funcs' : funcs'[i].name = calls[k].caller
  <2>1. CASE calls[k].caller = cur.name
    <3>1. Len(funcs) + 1 \in DOMAIN funcs'
        BY <1>6
    <3>. QED
        BY <1>2, <1>6, <2>1, <3>1
  <2>2. CASE \E i \in DOMAIN funcs : funcs[i].name = calls[k].caller
    <3>1. DOMAIN funcs \subseteq DOMAIN funcs'
        BY <1>6
    <3>. QED
        BY <1>6, <2>2, <3>1
  <2>. QED
      BY <1>4, <2>1, <2>2 DEF CoverInv
<1>. QED
    BY <1>4, <1>12, <1>13 DEF CoverInv

LEMMA NextCovers ==
    ASSUME AotTypes, RelocInv, CoverInv, [AotNext]_aotVars
    PROVE  CoverInv'
<1>1. ASSUME NEW n \in FuncNames, NEW p \in ParamCounts, BeginFunc(n, p)
      PROVE  CoverInv'
    BY <1>1, BeginFuncCovers
<1>2. ASSUME NEW n \in Lengths, Instruction(n)
      PROVE  CoverInv'
  <2>1. n \in Nat
      BY AotAssumption DEF AotAssumption
  <2>. QED
      BY <1>2, <2>1, TextGrows DEF Instruction, MoreItems, aotTables
<1>3. ASSUME NEW c \in Names, Call(c)
      PROVE  CoverInv'
    BY <1>3, CallCovers
<1>4. ASSUME NEW how \in {"done", "overrun", "panic"}, Stop(how)
      PROVE  CoverInv'
    BY <1>4 DEF Stop, aotTables, CoverInv, SymbolsCoverFunctions
<1>5. CASE EndFunc
    BY <1>5, EndFuncCovers
<1>6. CASE UNCHANGED aotVars
    BY <1>6 DEF aotVars, aotTables, CoverInv, SymbolsCoverFunctions
<1>. QED
    BY <1>1, <1>2, <1>3, <1>4, <1>5, <1>6
    DEF AotNext, CallPanics, CallOverruns, EndFuncPanics, EndFuncOverruns, EndModule

(* Functions are apart and aligned, each under a symbol of its own, and no *)
(* call's operand strays from its caller, for every module of functions.   *)
THEOREM FunctionsCovered == AotSpec => []SymbolsCoverFunctions
<1>1. AotInit => AotTypes /\ RelocInv /\ CoverInv
    BY AotInitTypes
    DEF AotTypes, AotInit, RelocInv, RelocationsNameTheirCallee, CoverInv, SymbolsCoverFunctions
<1>2. AotTypes /\ RelocInv /\ CoverInv /\ [AotNext]_aotVars => AotTypes' /\ RelocInv' /\ CoverInv'
    BY NextTypes, NextRelocs, NextCovers
<1>3. CoverInv => SymbolsCoverFunctions
    BY DEF CoverInv
<1>. QED
    BY <1>1, <1>2, <1>3, PTL DEF AotSpec

-----------------------------------------------------------------------------
(* A set of numbers with 0 and with the successor of each has them all. *)
LEMMA Induction ==
  ASSUME NEW T, 0 \in T, \A n \in Nat : n \in T => n + 1 \in T
  PROVE  Nat \subseteq T
<1> SUFFICES ASSUME Nat \ T # {} PROVE FALSE
  OBVIOUS
<1>1. PICK x \in Nat \ T : \A y \in Nat \ T : <<y, x>> \notin OpToRel(<, Nat)
  <2>1. Nat \ T \subseteq Nat
    OBVIOUS
  <2> QED BY <2>1, NatLessThanWellFounded, WFMin
<1>2. x # 0 /\ x - 1 \in Nat /\ x - 1 < x
  OBVIOUS
<1>3. x - 1 \in T
  <2>1. <<x - 1, x>> \in OpToRel(<, Nat)
    <3>1. <<x - 1, x>> \in Nat \X Nat /\ <<x - 1, x>>[1] < <<x - 1, x>>[2]
      BY <1>2
    <3> QED BY <3>1, Zenon DEF OpToRel
  <2> QED BY <1>1, <1>2, <2>1
<1> QED BY <1>2, <1>3

-----------------------------------------------------------------------------
(* Alignment.                                                              *)

Alignments == {8, 16, 512, 4096}

LEMMA AlignFacts ==
  ASSUME NEW n \in Nat, NEW a \in Alignments
  PROVE  /\ AlignUp(n, a) \in Nat /\ n <= AlignUp(n, a) /\ AlignUp(n, a) < n + a
         /\ AlignUp(n, a) % a = 0
         /\ \E k \in Nat : AlignUp(n, a) = a * k
<1> DEFINE q == (n + a - 1) \div a
<1>1. CASE a = 8
  <2>1. q \in Nat /\ 8 * q <= n + 7 /\ n + 7 < 8 * q + 8
    BY <1>1
  <2>2. AlignUp(n, 8) = 8 * q
    BY <1>1 DEF AlignUp
  <2> HIDE DEF q
  <2>3. (8 * q) % 8 = 0
    BY <2>1
  <2> QED BY <1>1, <2>1, <2>2, <2>3
<1>2. CASE a = 16
  <2>1. q \in Nat /\ 16 * q <= n + 15 /\ n + 15 < 16 * q + 16
    BY <1>2
  <2>2. AlignUp(n, 16) = 16 * q
    BY <1>2 DEF AlignUp
  <2> HIDE DEF q
  <2>3. (16 * q) % 16 = 0
    BY <2>1
  <2> QED BY <1>2, <2>1, <2>2, <2>3
<1>3. CASE a = 512
  <2>1. q \in Nat /\ 512 * q <= n + 511 /\ n + 511 < 512 * q + 512
    BY <1>3
  <2>2. AlignUp(n, 512) = 512 * q
    BY <1>3 DEF AlignUp
  <2> HIDE DEF q
  <2>3. (512 * q) % 512 = 0
    BY <2>1
  <2> QED BY <1>3, <2>1, <2>2, <2>3
<1>4. CASE a = 4096
  <2>1. q \in Nat /\ 4096 * q <= n + 4095 /\ n + 4095 < 4096 * q + 4096
    BY <1>4
  <2>2. AlignUp(n, 4096) = 4096 * q
    BY <1>4 DEF AlignUp
  <2> HIDE DEF q
  <2>3. (4096 * q) % 4096 = 0
    BY <2>1
  <2> QED BY <1>4, <2>1, <2>2, <2>3
<1> QED BY <1>1, <1>2, <1>3, <1>4 DEF Alignments

(* The multiple is the only one there. *)
LEMMA AlignIs ==
  ASSUME NEW n \in Nat, NEW a \in Alignments, NEW k \in Nat, n <= a * k, a * k < n + a
  PROVE  AlignUp(n, a) = a * k
<1>1. PICK j \in Nat : AlignUp(n, a) = a * j
  BY AlignFacts
<1>2. n <= a * j /\ a * j < n + a
  BY <1>1, AlignFacts
<1>3. j = k
  BY <1>2 DEF Alignments
<1> QED BY <1>1, <1>3

LEMMA AlignShift ==
  ASSUME NEW n \in Nat, NEW a \in Alignments, NEW k \in Nat
  PROVE  AlignUp(a * k + n, a) = a * k + AlignUp(n, a)
<1>1. PICK j \in Nat : AlignUp(n, a) = a * j /\ n <= a * j /\ a * j < n + a
  BY AlignFacts
<1>2. /\ a * k + n \in Nat /\ k + j \in Nat /\ a * (k + j) = a * k + a * j
      /\ a * k + n <= a * k + a * j /\ a * k + a * j < a * k + n + a
  BY <1>1 DEF Alignments
<1>3. AlignUp(a * k + n, a) = a * (k + j)
  BY <1>2, AlignIs
<1> QED BY <1>1, <1>2, <1>3

-----------------------------------------------------------------------------
(* What a sequence of operations writes: each buffer, where the sizes of   *)
(* what was written before it put it.                                      *)

SizeAfter(s, o) ==
  CASE o.op = "buf"   -> s + o.n
    [] o.op = "pad"   -> s + o.n
    [] o.op = "padto" -> Longer(s, o.n)
    [] o.op = "align" -> AlignUp(s, o.n)

Sizes(ops, at) == at[0] = 0 /\ \A i \in 1 .. Len(ops) : at[i] = SizeAfter(at[i - 1], ops[i])

Buffers(ops, at, n) ==
  {Piece(ops[i].what, at[i - 1], ops[i].n) : i \in {j \in 1 .. n : ops[j].op = "buf"}}

Ops == {"buf", "pad", "padto", "align"}

LEMMA WriteOne ==
  ASSUME NEW P, NEW s, NEW o, o.op \in Ops
  PROVE  Write([pieces |-> P, size |-> s], o) =
           [pieces |-> IF o.op = "buf" THEN P \cup {Piece(o.what, s, o.n)} ELSE P,
            size |-> SizeAfter(s, o)]
<1>1. CASE o.op = "buf"
  BY <1>1 DEF Write, SizeAfter, Piece
<1>2. CASE o.op = "pad"
  BY <1>2 DEF Write, SizeAfter
<1>3. CASE o.op = "padto"
  BY <1>3 DEF Write, SizeAfter
<1>4. CASE o.op = "align"
  BY <1>4 DEF Write, SizeAfter
<1> QED BY <1>1, <1>2, <1>3, <1>4 DEF Ops

LEMMA WrittenIs ==
  ASSUME NEW ops, Len(ops) \in Nat, \A i \in 1 .. Len(ops) : ops[i].op \in Ops
  PROVE  \E at : /\ Sizes(ops, at)
                 /\ Written(ops) = [pieces |-> Buffers(ops, at, Len(ops)), size |-> at[Len(ops)]]
<1> DEFINE N == Len(ops)
           Step(a, n) == [i \in 0 .. n |-> IF i = 0 THEN NoFile ELSE Write(a[i - 1], ops[i])]
           T == {n \in Nat : \E a : a = Step(a, n)}
<1>1. 0 \in T
  <2> DEFINE a == [i \in 0 .. 0 |-> NoFile]
  <2>1. a = Step(a, 0)
    OBVIOUS
  <2> QED BY <2>1
<1>2. ASSUME NEW n \in Nat, n \in T PROVE n + 1 \in T
  <2>1. PICK a : a = Step(a, n)
    BY <1>2
  <2> DEFINE b == [i \in 0 .. n + 1 |-> IF i <= n THEN a[i] ELSE Write(a[n], ops[n + 1])]
  <2>2. b = Step(b, n + 1)
    <3>1. DOMAIN b = 0 .. n + 1 /\ DOMAIN Step(b, n + 1) = 0 .. n + 1
      OBVIOUS
    <3>2. ASSUME NEW i \in 0 .. n + 1 PROVE b[i] = Step(b, n + 1)[i]
      <4>1. CASE i = 0
        <5>1. a[0] = NoFile
          BY <2>1
        <5> QED BY <4>1, <5>1
      <4>2. CASE i \in 1 .. n
        <5>1. a[i] = Write(a[i - 1], ops[i])
          BY <2>1, <4>2
        <5>2. b[i] = a[i] /\ b[i - 1] = a[i - 1]
          BY <4>2
        <5>3. Step(b, n + 1)[i] = Write(b[i - 1], ops[i])
          BY <4>2
        <5> QED BY <5>1, <5>2, <5>3
      <4>3. CASE i = n + 1
        <5>1. b[n + 1] = Write(a[n], ops[n + 1]) /\ b[n] = a[n]
          OBVIOUS
        <5>2. Step(b, n + 1)[n + 1] = Write(b[n], ops[n + 1])
          OBVIOUS
        <5> QED BY <4>3, <5>1, <5>2
      <4> QED BY <4>1, <4>2, <4>3
    <3>3. \A i \in 0 .. n + 1 : b[i] = IF i = 0 THEN NoFile ELSE Write(b[i - 1], ops[i])
      <4> HIDE DEF b
      <4> QED BY <3>2
    <3>4. b = [i \in 0 .. n + 1 |-> b[i]]
      OBVIOUS
    <3> HIDE DEF b
    <3> QED BY <3>3, <3>4
  <2>3. \E c : c = Step(c, n + 1)
    <3> HIDE DEF b
    <3> QED BY <2>2
  <2> QED BY <2>3
<1>3. PICK a : a = Step(a, N) /\ Written(ops) = a[N]
  <2>1. N \in T
    <3> HIDE DEF T
    <3> QED BY <1>1, <1>2, Induction
  <2>2. \E a : a = Step(a, N)
    BY <2>1
  <2>3. Written(ops) = (CHOOSE a : a = Step(a, N))[N]
    BY DEF Written
  <2> QED BY <2>2, <2>3
<1>4. a[0] = NoFile /\ \A i \in 1 .. N : a[i] = Write(a[i - 1], ops[i])
  BY <1>3
<1> DEFINE at == [i \in 0 .. N |-> a[i].size]
           U == {n \in Nat : n <= N => a[n] = [pieces |-> Buffers(ops, at, n), size |-> at[n]]}
<1> HIDE DEF Step
<1>5. 0 \in U
  <2>1. Buffers(ops, at, 0) = {}
    <3> HIDE DEF at
    <3> QED BY DEF Buffers
  <2>2. a[0] = [pieces |-> {}, size |-> 0] /\ at[0] = 0
    BY <1>4 DEF NoFile
  <2> HIDE DEF at
  <2> QED BY <2>1, <2>2
<1>6. ASSUME NEW n \in Nat, n \in U, n + 1 <= N
      PROVE  /\ a[n + 1] = [pieces |-> Buffers(ops, at, n + 1), size |-> at[n + 1]]
             /\ at[n + 1] = SizeAfter(at[n], ops[n + 1])
  <2>1. /\ a[n] = [pieces |-> Buffers(ops, at, n), size |-> at[n]]
        /\ a[n + 1] = Write(a[n], ops[n + 1]) /\ ops[n + 1].op \in Ops
    BY <1>4, <1>6
  <2> DEFINE o == ops[n + 1]
  <2>2. a[n + 1] = [pieces |-> IF o.op = "buf" THEN Buffers(ops, at, n) \cup {Piece(o.what, at[n], o.n)}
                               ELSE Buffers(ops, at, n),
                    size |-> SizeAfter(at[n], o)]
    <3> HIDE DEF at, o
    <3> QED BY <2>1, WriteOne DEF o
  <2>3. at[n + 1] = SizeAfter(at[n], o)
    <3>1. at[n + 1] = a[n + 1].size
      BY <1>6
    <3> QED BY <2>2, <3>1
  <2>4. Buffers(ops, at, n + 1) =
          IF o.op = "buf" THEN Buffers(ops, at, n) \cup {Piece(o.what, at[n], o.n)}
          ELSE Buffers(ops, at, n)
    <3> HIDE DEF at
    <3>1. \A j : j \in 1 .. n + 1 <=> j \in 1 .. n \/ j = n + 1
      OBVIOUS
    <3>2. (n + 1) - 1 = n
      OBVIOUS
    <3> QED BY <3>1, <3>2 DEF Buffers
  <2> HIDE DEF at, o
  <2> QED BY <2>2, <2>3, <2>4 DEF o
<1>7. \A n \in Nat : n \in U => n + 1 \in U
  <2> HIDE DEF at
  <2> QED BY <1>6
<1>8. Nat \subseteq U
  <2> HIDE DEF U
  <2> QED BY <1>5, <1>7, Induction
<1>9. Written(ops) = [pieces |-> Buffers(ops, at, N), size |-> at[N]]
  <2> HIDE DEF at
  <2> QED BY <1>3, <1>8
<1>10. Sizes(ops, at)
  <2>1. at[0] = 0
    BY <1>4 DEF NoFile
  <2>2. ASSUME NEW i \in 1 .. N PROVE at[i] = SizeAfter(at[i - 1], ops[i])
    <3> HIDE DEF at, U
    <3>1. i - 1 \in Nat /\ (i - 1) + 1 = i /\ (i - 1) + 1 <= N
      OBVIOUS
    <3>2. i - 1 \in U
      BY <1>8, <3>1
    <3>3. at[(i - 1) + 1] = SizeAfter(at[i - 1], ops[(i - 1) + 1])
      BY <1>6, <3>1, <3>2
    <3> QED BY <3>1, <3>3
  <2> HIDE DEF at
  <2> QED BY <2>1, <2>2 DEF Sizes
<1> QED BY <1>9, <1>10

Aligned(n, a) ==
  /\ AlignUp(n, a) \in Nat /\ n <= AlignUp(n, a) /\ AlignUp(n, a) < n + a
  /\ \E k \in Nat : AlignUp(n, a) = a * k

LEMMA AlignedTo ==
  ASSUME NEW n \in Nat
  PROVE  Aligned(n, 8) /\ Aligned(n, 512) /\ Aligned(n, 4096)
<1>1. \A a \in Alignments : Aligned(n, a)
  BY AlignFacts DEF Aligned
<1>2. 8 \in Alignments /\ 512 \in Alignments /\ 4096 \in Alignments
  BY DEF Alignments
<1>3. Aligned(n, 8)
  BY <1>1, <1>2
<1>4. Aligned(n, 512)
  BY <1>1, <1>2
<1>5. Aligned(n, 4096)
  BY <1>1, <1>2
<1> QED BY <1>3, <1>4, <1>5


LEMMA BufFacts ==
  ASSUME NEW s, NEW w, NEW n
  PROVE  /\ Buf(w, n).op = "buf" /\ Buf(w, n).what = w /\ Buf(w, n).n = n
         /\ Buf(w, n).op \in Ops /\ SizeAfter(s, Buf(w, n)) = s + n
BY DEF Buf, Ops, SizeAfter

LEMMA PadFacts ==
  ASSUME NEW s, NEW n
  PROVE  /\ Pad(n).op \in Ops \ {"buf"} /\ SizeAfter(s, Pad(n)) = s + n
         /\ PadTo(n).op \in Ops \ {"buf"} /\ SizeAfter(s, PadTo(n)) = Longer(s, n)
         /\ Align(n).op \in Ops \ {"buf"} /\ SizeAfter(s, Align(n)) = AlignUp(s, n)
BY DEF Pad, PadTo, Align, Ops, SizeAfter


(* Each buffer among the operations, and nothing else, is a piece. *)
LEMMA Put ==
  ASSUME NEW ops, NEW at, NEW N \in Nat, NEW i \in 1 .. N, NEW w, NEW n, ops[i] = Buf(w, n),
         Written(ops) = [pieces |-> Buffers(ops, at, N), size |-> at[N]]
  PROVE  Piece(w, at[i - 1], n) \in Written(ops).pieces
BY DEF Buffers, Buf

LEMMA PutBy ==
  ASSUME NEW ops, NEW at, NEW N \in Nat,
         Written(ops) = [pieces |-> Buffers(ops, at, N), size |-> at[N]],
         NEW p \in Written(ops).pieces
  PROVE  \E i \in 1 .. N : ops[i].op = "buf" /\ p = Piece(ops[i].what, at[i - 1], ops[i].n)
BY DEF Buffers


-----------------------------------------------------------------------------
(* Where the writers of executables put what they write.                   *)

TextPages == AlignUp(text_len, 4096)
DynAt == 8192 + TextPages
DynNames == DynAt + 112 + AlignUp(SymBytes, 8)
DynHeaders == AlignUp(DynNames + 17, 8)
StaticNames == DynAt + 8 + AlignUp(SymBytes, 8)
StaticHeaders == AlignUp(StaticNames + 17, 8)
TextSectors == AlignUp(text_len, 512)


-----------------------------------------------------------------------------
(* The object file. *)
LEMMA ObjFile ==
  ASSUME text_len \in Nat, Len(syms) \in Nat, symstr.len \in Nat, Len(relocs) \in Nat
  PROVE  \A p \in LayoutObj.pieces : p \in Written(LayoutObj.ops).pieces
<1> DEFINE data == AlignUp(64 + text_len, 8)
           strtab == data + 24 * (Len(syms) + 1)
           rela == AlignUp(strtab + symstr.len, 8)
           shstr == rela + RelaSize
           shdrs == AlignUp(shstr + ShstrLen, 8)
           ops == LayoutObj.ops
<1>1. /\ data \in Nat /\ strtab \in Nat /\ rela \in Nat /\ shstr \in Nat /\ shdrs \in Nat
      /\ RelaSize \in Nat
  <2>1. data \in Nat
    <3>1. 64 + text_len \in Nat /\ 8 \in Alignments
      BY DEF Alignments
    <3> QED BY <3>1, AlignFacts
  <2>2. strtab \in Nat /\ RelaSize \in Nat
    <3> HIDE DEF data
    <3> QED BY <2>1 DEF RelaSize
  <2>3. rela \in Nat
    <3> HIDE DEF strtab
    <3>1. strtab + symstr.len \in Nat /\ 8 \in Alignments
      BY <2>2 DEF Alignments
    <3> QED BY <3>1, AlignFacts
  <2>4. shstr \in Nat
    <3> HIDE DEF rela
    <3> QED BY <2>2, <2>3
  <2>5. shdrs \in Nat
    <3> HIDE DEF shstr
    <3>1. shstr + ShstrLen \in Nat /\ 8 \in Alignments
      BY <2>4 DEF Alignments, ShstrLen
    <3> QED BY <3>1, AlignFacts
  <2> QED BY <2>1, <2>2, <2>3, <2>4, <2>5
<1>2. ops = <<Buf("magic", 4), Buf("ehdr", 60), Buf("text", text_len),
              Pad(data - (64 + text_len)), Buf("symtab", strtab - data), Buf("strtab", symstr.len),
              Pad(rela - (strtab + symstr.len)), Buf("rela", RelaSize),
              Buf("shstrtab", ShstrLen), Pad(shdrs - (shstr + ShstrLen)), Buf("shdrs", 8 * 64)>>
  BY DEF LayoutObj
<1>3. LayoutObj.pieces = {Piece("magic", 0, 4), Piece("text", 64, text_len),
                          Piece("symtab", data, strtab - data), Piece("strtab", strtab, symstr.len),
                          Piece("rela", rela, RelaSize), Piece("shstrtab", shstr, ShstrLen),
                          Piece("shdrs", shdrs, 8 * 64)}
  BY DEF LayoutObj
<1>4. shstr = rela + RelaSize
  OBVIOUS
<1> HIDE DEF data, strtab, rela, shstr, shdrs, ops
<1>5. /\ Len(ops) = 11
      /\ ops[1] = Buf("magic", 4) /\ ops[2] = Buf("ehdr", 60) /\ ops[3] = Buf("text", text_len)
      /\ ops[4] = Pad(data - (64 + text_len)) /\ ops[5] = Buf("symtab", strtab - data)
      /\ ops[6] = Buf("strtab", symstr.len) /\ ops[7] = Pad(rela - (strtab + symstr.len))
      /\ ops[8] = Buf("rela", RelaSize) /\ ops[9] = Buf("shstrtab", ShstrLen)
      /\ ops[10] = Pad(shdrs - (shstr + ShstrLen)) /\ ops[11] = Buf("shdrs", 8 * 64)
  BY <1>2
<1>6. /\ strtab - data \in Int /\ data - (64 + text_len) \in Int /\ rela - (strtab + symstr.len) \in Int
      /\ shdrs - (shstr + ShstrLen) \in Int /\ ShstrLen \in Int /\ 8 * 64 \in Int
  BY <1>1 DEF ShstrLen
<1>7. \A i \in 1 .. 11 : ops[i].op \in Ops
  <2>1. /\ ops[1].op \in Ops /\ ops[2].op \in Ops /\ ops[3].op \in Ops /\ ops[4].op \in Ops
        /\ ops[5].op \in Ops /\ ops[6].op \in Ops /\ ops[7].op \in Ops /\ ops[8].op \in Ops
        /\ ops[9].op \in Ops /\ ops[10].op \in Ops /\ ops[11].op \in Ops
    BY <1>5 DEF Buf, Pad, Ops
  <2> QED BY <2>1
<1>8. PICK at : /\ Sizes(ops, at)
                /\ Written(ops) = [pieces |-> Buffers(ops, at, 11), size |-> at[11]]
  <2>1. Len(ops) \in Nat /\ \A i \in 1 .. Len(ops) : ops[i].op \in Ops
    BY <1>5, <1>7
  <2> QED BY <1>5, <2>1, WrittenIs
<1>9. /\ at[0] = 0 /\ at[1] = at[0] + 4 /\ at[2] = at[1] + 60 /\ at[3] = at[2] + text_len
      /\ at[4] = at[3] + (data - (64 + text_len)) /\ at[5] = at[4] + (strtab - data)
      /\ at[6] = at[5] + symstr.len /\ at[7] = at[6] + (rela - (strtab + symstr.len))
      /\ at[8] = at[7] + RelaSize /\ at[9] = at[8] + ShstrLen
      /\ at[10] = at[9] + (shdrs - (shstr + ShstrLen))
  <2>1. /\ at[0] = 0
        /\ at[1] = SizeAfter(at[0], ops[1]) /\ at[2] = SizeAfter(at[1], ops[2])
        /\ at[3] = SizeAfter(at[2], ops[3]) /\ at[4] = SizeAfter(at[3], ops[4])
        /\ at[5] = SizeAfter(at[4], ops[5]) /\ at[6] = SizeAfter(at[5], ops[6])
        /\ at[7] = SizeAfter(at[6], ops[7]) /\ at[8] = SizeAfter(at[7], ops[8])
        /\ at[9] = SizeAfter(at[8], ops[9]) /\ at[10] = SizeAfter(at[9], ops[10])
    BY <1>5, <1>8 DEF Sizes
  <2> QED BY <1>5, <2>1, BufFacts, PadFacts
<1>10. /\ at[0] = 0 /\ at[2] = 64 /\ at[4] = data /\ at[5] = strtab
       /\ at[7] = rela /\ at[8] = shstr /\ at[10] = shdrs
  <2>1. at[0] = 0 /\ at[2] = 64 /\ at[3] = 64 + text_len
    BY <1>9
  <2>2. at[4] = data /\ at[5] = strtab
    BY <1>1, <1>9, <2>1
  <2>3. at[7] = rela
    <3>1. PICK end \in Nat : end = strtab + symstr.len
      BY <1>1
    <3>2. at[6] = end /\ at[7] = at[6] + (rela - end)
      BY <1>9, <2>2, <3>1
    <3> QED BY <1>1, <3>1, <3>2
  <2>4. at[8] = shstr
    BY <1>4, <1>9, <2>3
  <2>5. at[10] = shdrs
    BY <1>1, <1>9, <2>4 DEF ShstrLen
  <2> QED BY <2>1, <2>2, <2>3, <2>4, <2>5
<1>11. ASSUME NEW i \in 1 .. 11, ops[i].op = "buf"
       PROVE  Piece(ops[i].what, at[i - 1], ops[i].n) \in Written(ops).pieces
  BY <1>8, <1>11 DEF Buffers
<1>12. /\ Piece("magic", at[0], 4) \in Written(ops).pieces
       /\ Piece("text", at[2], text_len) \in Written(ops).pieces
       /\ Piece("symtab", at[4], strtab - data) \in Written(ops).pieces
       /\ Piece("strtab", at[5], symstr.len) \in Written(ops).pieces
       /\ Piece("rela", at[7], RelaSize) \in Written(ops).pieces
       /\ Piece("shstrtab", at[8], ShstrLen) \in Written(ops).pieces
       /\ Piece("shdrs", at[10], 8 * 64) \in Written(ops).pieces
  <2>1. Piece("magic", at[0], 4) \in Written(ops).pieces
    <3>1. ops[1] = Buf("magic", 4) /\ 1 \in 1 .. 11 /\ 1 - 1 = 0
      BY <1>5
    <3> QED BY <1>11, <3>1 DEF Buf
  <2>2. Piece("text", at[2], text_len) \in Written(ops).pieces
    <3>1. ops[3] = Buf("text", text_len) /\ 3 \in 1 .. 11 /\ 3 - 1 = 2
      BY <1>5
    <3> QED BY <1>11, <3>1 DEF Buf
  <2>3. Piece("symtab", at[4], strtab - data) \in Written(ops).pieces
    <3>1. ops[5] = Buf("symtab", strtab - data) /\ 5 \in 1 .. 11 /\ 5 - 1 = 4
      BY <1>5
    <3> QED BY <1>11, <3>1 DEF Buf
  <2>4. Piece("strtab", at[5], symstr.len) \in Written(ops).pieces
    <3>1. ops[6] = Buf("strtab", symstr.len) /\ 6 \in 1 .. 11 /\ 6 - 1 = 5
      BY <1>5
    <3> QED BY <1>11, <3>1 DEF Buf
  <2>5. Piece("rela", at[7], RelaSize) \in Written(ops).pieces
    <3>1. ops[8] = Buf("rela", RelaSize) /\ 8 \in 1 .. 11 /\ 8 - 1 = 7
      BY <1>5
    <3> QED BY <1>11, <3>1 DEF Buf
  <2>6. Piece("shstrtab", at[8], ShstrLen) \in Written(ops).pieces
    <3>1. ops[9] = Buf("shstrtab", ShstrLen) /\ 9 \in 1 .. 11 /\ 9 - 1 = 8
      BY <1>5
    <3> QED BY <1>11, <3>1 DEF Buf
  <2>7. Piece("shdrs", at[10], 8 * 64) \in Written(ops).pieces
    <3>1. ops[11] = Buf("shdrs", 8 * 64) /\ 11 \in 1 .. 11 /\ 11 - 1 = 10
      BY <1>5
    <3> QED BY <1>11, <3>1 DEF Buf
  <2> QED BY <2>1, <2>2, <2>3, <2>4, <2>5, <2>6, <2>7
<1> QED BY <1>3, <1>10, <1>12 DEF ops


-----------------------------------------------------------------------------
(* An executable with dynamic linking, and a shared library. *)
LEMMA DynamicFile ==
  ASSUME NEW mode \in {"dyn", "so"}, text_len \in Nat, SymBytes \in Nat
  PROVE  LET L == LayoutExec(mode)
         IN  /\ TextPages \in Nat /\ text_len <= TextPages /\ DynNames \in Nat /\ DynHeaders \in Nat /\ DynNames <= DynHeaders
             /\ L.pieces = {Piece("magic", 0, 4), Piece("phdrs", 64, 280), Piece("text", 4096, text_len),
                            Piece("shstrtab", DynNames, 17), Piece("shdrs", DynHeaders, 192),
                            Piece("interp", 344, 28), Piece("dynamic", DynAt, 96)}
             /\ L.loads = {Load(0, 0, 4096), Load(4096, 8192, TextPages)} /\ L.image = 8192 + TextPages
             /\ L.addresses = {Address("entry", 8192, "text", 0),
                               Address("dynamic", 8192 + TextPages + 4096, "dynamic", 0),
                               Address("dynamic", 8192 + TextPages + 4096 + 4096, "dynstr", 0)}
             /\ Written(L.ops).pieces =
                  {Piece(ExecMagic, 0, 4), Piece("ehdr", 4, 60), Piece("phdrs", 64, 280),
                   Piece("interp", 344, 28), Piece("text", 4096, text_len),
                   Piece("dynamic", DynAt, 96), Piece("dynstr", DynAt + 96, 11),
                   Piece("dynsym", DynAt + 112, SymBytes), Piece("shstrtab", DynNames, 17),
                   Piece("shdrs", DynHeaders, 240)}
             /\ Written(L.ops).size = DynHeaders + 240
<1> DEFINE ops == LayoutExec(mode).ops
<1>1. /\ mode # "static" /\ Base(mode) = 0 /\ VaText(mode) = 8192 /\ PAGE = 4096
      /\ TextOffset(64 + 280 + 28) = 4096 /\ AlignUp(96, 8) = 96 /\ AlignUp(11, 8) = 16
  <2>1. AlignUp(372, 4096) = 4096 * 1 /\ AlignUp(96, 8) = 8 * 12 /\ AlignUp(11, 8) = 8 * 2
    BY AlignIs DEF Alignments
  <2> QED BY <2>1 DEF Base, VaText, PAGE, TextOffset
<1>2. /\ TextPages \in Nat /\ text_len <= TextPages
      /\ DynNames \in Nat /\ DynHeaders \in Nat /\ DynNames + 17 <= DynHeaders
  <2>2. TextPages \in Nat /\ text_len <= TextPages /\ AlignUp(SymBytes, 8) \in Nat
    BY AlignedTo DEF Aligned, TextPages
  <2>3. DynNames + 17 \in Nat /\ DynNames \in Nat
    BY <2>2 DEF DynAt, DynNames
  <2>4. DynHeaders \in Nat /\ DynNames + 17 <= DynHeaders
    <3>1. Aligned(DynNames + 17, 8)
      BY <2>3, AlignedTo
    <3> QED BY <2>3, <3>1 DEF Aligned, DynHeaders
  <2> QED BY <2>2, <2>3, <2>4
<1>3. /\ LayoutExec(mode).ops =
              <<Buf(ExecMagic, 4), Buf("ehdr", 60), Buf("phdrs", 280), PadTo(344),
                Buf("interp", 28), PadTo(4096), Buf("text", text_len), Align(4096), Pad(4096)>>
              \o <<Buf("dynamic", 96), Align(8), Buf("dynstr", 11), Align(8),
                   Buf("dynsym", SymBytes), Align(8)>>
              \o <<Buf("shstrtab", 17), Align(8), PadTo(DynHeaders), Buf("shdrs", 240)>>
      /\ LayoutExec(mode).pieces =
              {Piece("magic", 0, 4), Piece("phdrs", 64, 280), Piece("text", 4096, text_len),
               Piece("shstrtab", DynNames, 17), Piece("shdrs", DynHeaders, 192)}
              \cup {Piece("interp", 344, 28), Piece("dynamic", DynAt, 96)}
      /\ LayoutExec(mode).loads = {Load(0, 0, 4096), Load(4096, 8192, TextPages)}
      /\ LayoutExec(mode).image = 8192 + TextPages
      /\ LayoutExec(mode).addresses =
              {Address("entry", 8192, "text", 0)}
              \cup {Address("dynamic", 8192 + TextPages + 4096, "dynamic", 0),
                    Address("dynamic", 8192 + TextPages + 4096 + 4096, "dynstr", 0)}
  <2>1. /\ 56 * (IF mode # "static" THEN 5 ELSE 2) = 280 /\ (IF mode # "static" THEN 28 ELSE 0) = 28
        /\ (IF mode # "static" THEN 16 * 6 ELSE 0) = 96 /\ (IF mode # "static" THEN 11 ELSE 1) = 11
    BY <1>1
  <2>2. DynOffset(4096, TextPages) = DynAt /\ DynAt + 96 + 16 + AlignUp(SymBytes, 8) = DynNames
    <3>1. AlignUp(SymBytes, 8) \in Nat
      BY AlignedTo DEF Aligned
    <3> QED BY <1>1, <1>2, <3>1 DEF DynOffset, DynAt, DynNames
  <2>3. LayoutExec(mode).loads = {Load(0, 0, 4096), Load(4096, 8192, TextPages)}
    BY <1>1, <2>1 DEF LayoutExec, TextPages
  <2>4. LayoutExec(mode).image = 8192 + TextPages
    BY <1>1, <2>1 DEF LayoutExec, TextPages
  <2>5. LayoutExec(mode).addresses =
              {Address("entry", 8192, "text", 0)}
              \cup {Address("dynamic", 8192 + TextPages + 4096, "dynamic", 0),
                    Address("dynamic", 8192 + TextPages + 4096 + 4096, "dynstr", 0)}
    BY <1>1, <2>1 DEF LayoutExec, ExecEntry, TextPages
  <2>6. LayoutExec(mode).pieces =
              {Piece("magic", 0, 4), Piece("phdrs", 64, 280), Piece("text", 4096, text_len),
               Piece("shstrtab", DynNames, 17), Piece("shdrs", DynHeaders, 192)}
              \cup {Piece("interp", 344, 28), Piece("dynamic", DynAt, 96)}
    BY <1>1, <2>1, <2>2 DEF LayoutExec, TextPages, DynHeaders
  <2>7. LayoutExec(mode).ops =
              <<Buf(ExecMagic, 4), Buf("ehdr", 60), Buf("phdrs", 280), PadTo(344),
                Buf("interp", 28), PadTo(4096), Buf("text", text_len), Align(4096), Pad(4096)>>
              \o <<Buf("dynamic", 96), Align(8), Buf("dynstr", 11), Align(8),
                   Buf("dynsym", SymBytes), Align(8)>>
              \o <<Buf("shstrtab", 17), Align(8), PadTo(DynHeaders), Buf("shdrs", 240)>>
    BY <1>1, <2>1, <2>2 DEF LayoutExec, TextPages, DynHeaders
  <2> QED BY <2>3, <2>4, <2>5, <2>6, <2>7
<1>4. ops = <<Buf(ExecMagic, 4), Buf("ehdr", 60), Buf("phdrs", 280), PadTo(344),
              Buf("interp", 28), PadTo(4096), Buf("text", text_len), Align(4096), Pad(4096)>>
            \o <<Buf("dynamic", 96), Align(8), Buf("dynstr", 11), Align(8),
                 Buf("dynsym", SymBytes), Align(8)>>
            \o <<Buf("shstrtab", 17), Align(8), PadTo(DynHeaders), Buf("shdrs", 240)>>
  BY <1>3
<1>5. DynAt = 8192 + TextPages /\ DynNames = DynAt + 112 + AlignUp(SymBytes, 8) /\ DynHeaders = AlignUp(DynNames + 17, 8)
  BY DEF DynAt, DynNames, DynHeaders
<1> HIDE DEF ops
<1>6. /\ Len(ops) = 19 /\ ops[1] = Buf(ExecMagic, 4) /\ ops[2] = Buf("ehdr", 60)
      /\ ops[3] = Buf("phdrs", 280) /\ ops[4] = PadTo(344) /\ ops[5] = Buf("interp", 28)
      /\ ops[6] = PadTo(4096) /\ ops[7] = Buf("text", text_len) /\ ops[8] = Align(4096)
      /\ ops[9] = Pad(4096) /\ ops[10] = Buf("dynamic", 96) /\ ops[11] = Align(8)
      /\ ops[12] = Buf("dynstr", 11) /\ ops[13] = Align(8) /\ ops[14] = Buf("dynsym", SymBytes)
      /\ ops[15] = Align(8) /\ ops[16] = Buf("shstrtab", 17) /\ ops[17] = Align(8)
      /\ ops[18] = PadTo(DynHeaders) /\ ops[19] = Buf("shdrs", 240)
  <2>1. /\ Len(ops) = 19 /\ ops[1] = Buf(ExecMagic, 4) /\ ops[2] = Buf("ehdr", 60)
        /\ ops[3] = Buf("phdrs", 280)
    BY <1>4
  <2>2. /\ ops[4] = PadTo(344) /\ ops[5] = Buf("interp", 28) /\ ops[6] = PadTo(4096)
        /\ ops[7] = Buf("text", text_len)
    BY <1>4
  <2>3. /\ ops[8] = Align(4096) /\ ops[9] = Pad(4096) /\ ops[10] = Buf("dynamic", 96)
        /\ ops[11] = Align(8)
    BY <1>4
  <2>4. /\ ops[12] = Buf("dynstr", 11) /\ ops[13] = Align(8) /\ ops[14] = Buf("dynsym", SymBytes)
        /\ ops[15] = Align(8)
    BY <1>4
  <2>5. /\ ops[16] = Buf("shstrtab", 17) /\ ops[17] = Align(8) /\ ops[18] = PadTo(DynHeaders)
        /\ ops[19] = Buf("shdrs", 240)
    BY <1>4
  <2> QED BY <2>1, <2>2, <2>3, <2>4, <2>5
<1>7. \A i \in 1 .. 19 : ops[i].op \in Ops
  <2>1. /\ ops[1].op \in Ops /\ ops[2].op \in Ops /\ ops[3].op \in Ops /\ ops[4].op \in Ops
        /\ ops[5].op \in Ops /\ ops[6].op \in Ops /\ ops[7].op \in Ops /\ ops[8].op \in Ops
        /\ ops[9].op \in Ops /\ ops[10].op \in Ops /\ ops[11].op \in Ops /\ ops[12].op \in Ops
        /\ ops[13].op \in Ops /\ ops[14].op \in Ops /\ ops[15].op \in Ops /\ ops[16].op \in Ops
        /\ ops[17].op \in Ops /\ ops[18].op \in Ops /\ ops[19].op \in Ops
    BY <1>6 DEF Buf, Pad, PadTo, Align, Ops
  <2> QED BY <2>1
<1>8. PICK at : /\ Sizes(ops, at)
                 /\ Written(ops) = [pieces |-> Buffers(ops, at, 19), size |-> at[19]]
  <2>1. Len(ops) = 19
    BY <1>6
  <2>2. Len(ops) \in Nat /\ \A i \in 1 .. Len(ops) : ops[i].op \in Ops
    BY <1>7, <2>1
  <2> QED BY <2>1, <2>2, WrittenIs
<1>9. /\ at[0] = 0 /\ at[1] = at[0] + 4 /\ at[2] = at[1] + 60 /\ at[3] = at[2] + 280
      /\ at[4] = Longer(at[3], 344) /\ at[5] = at[4] + 28 /\ at[6] = Longer(at[5], 4096)
      /\ at[7] = at[6] + text_len /\ at[8] = AlignUp(at[7], 4096) /\ at[9] = at[8] + 4096
      /\ at[10] = at[9] + 96 /\ at[11] = AlignUp(at[10], 8) /\ at[12] = at[11] + 11
      /\ at[13] = AlignUp(at[12], 8) /\ at[14] = at[13] + SymBytes /\ at[15] = AlignUp(at[14], 8)
      /\ at[16] = at[15] + 17 /\ at[17] = AlignUp(at[16], 8) /\ at[18] = Longer(at[17], DynHeaders)
      /\ at[19] = at[18] + 240
  <2>1. /\ at[0] = 0 /\ at[1] = SizeAfter(at[0], ops[1]) /\ at[2] = SizeAfter(at[1], ops[2])
        /\ at[3] = SizeAfter(at[2], ops[3]) /\ at[4] = SizeAfter(at[3], ops[4])
        /\ at[5] = SizeAfter(at[4], ops[5]) /\ at[6] = SizeAfter(at[5], ops[6])
        /\ at[7] = SizeAfter(at[6], ops[7]) /\ at[8] = SizeAfter(at[7], ops[8])
        /\ at[9] = SizeAfter(at[8], ops[9]) /\ at[10] = SizeAfter(at[9], ops[10])
        /\ at[11] = SizeAfter(at[10], ops[11]) /\ at[12] = SizeAfter(at[11], ops[12])
        /\ at[13] = SizeAfter(at[12], ops[13]) /\ at[14] = SizeAfter(at[13], ops[14])
        /\ at[15] = SizeAfter(at[14], ops[15]) /\ at[16] = SizeAfter(at[15], ops[16])
        /\ at[17] = SizeAfter(at[16], ops[17]) /\ at[18] = SizeAfter(at[17], ops[18])
        /\ at[19] = SizeAfter(at[18], ops[19])
    BY <1>6, <1>8 DEF Sizes
  <2> QED BY <1>6, <2>1, BufFacts, PadFacts
<1>10. /\ at[0] = 0 /\ at[1] = 4 /\ at[2] = 64 /\ at[3] = 344 /\ at[4] = 344 /\ at[5] = 372
      /\ at[6] = 4096 /\ at[7] = 4096 + text_len /\ at[8] = 4096 + TextPages /\ at[9] = DynAt
      /\ at[10] = DynAt + 96 /\ at[11] = DynAt + 96 /\ at[12] = DynAt + 107 /\ at[13] = DynAt + 112
      /\ at[14] = DynAt + 112 + SymBytes /\ at[15] = DynNames /\ at[16] = DynNames + 17 /\ at[17] = DynHeaders
      /\ at[18] = DynHeaders /\ at[19] = DynHeaders + 240
  <2>1. at[0] = 0 /\ at[1] = 4 /\ at[2] = 64 /\ at[3] = 344 /\ at[4] = 344 /\ at[5] = 372 /\ at[6] = 4096
    BY <1>9 DEF Longer
  <2>2. at[7] = 4096 + text_len /\ at[8] = AlignUp(4096 + text_len, 4096)
    BY <1>9, <2>1
  <2>3. AlignUp(4096 + text_len, 4096) = 4096 + TextPages
    <3>1. AlignUp(4096 * 1 + text_len, 4096) = 4096 * 1 + AlignUp(text_len, 4096)
      BY AlignShift DEF Alignments
    <3> QED BY <3>1 DEF TextPages
  <2>4. at[8] = 4096 + TextPages /\ at[9] = DynAt /\ at[10] = DynAt + 96
    BY <1>2, <1>5, <1>9, <2>2, <2>3
  <2>5. PICK m \in Nat : TextPages = 4096 * m
    BY AlignedTo DEF Aligned, TextPages
  <2>6. AlignUp(DynAt + 96, 8) = DynAt + 96 /\ AlignUp(DynAt + 107, 8) = DynAt + 112
    <3> DEFINE j == 512 * m + 1036
               l == 512 * m + 1038
    <3>1. /\ j \in Nat /\ l \in Nat /\ DynAt + 96 \in Nat /\ DynAt + 107 \in Nat
          /\ DynAt + 96 = 8 * j /\ DynAt + 112 = 8 * l
      BY <1>2, <1>5, <2>5
    <3> HIDE DEF j, l
    <3>2. DynAt + 96 <= 8 * j /\ 8 * j < DynAt + 96 + 8
      BY <3>1
    <3>6. DynAt + 107 <= 8 * l /\ 8 * l < DynAt + 107 + 8
      <4>1. DynAt \in Nat
        BY <1>2, <1>5
      <4> QED BY <3>1, <4>1
    <3>3. PICK a \in Alignments : a = 8
      BY DEF Alignments
    <3>4. AlignUp(DynAt + 96, 8) = 8 * j
      <4>1. PICK x \in Nat : x = DynAt + 96
        BY <3>1
      <4>2. x <= a * j /\ a * j < x + a
        BY <3>2, <3>3, <4>1
      <4>3. AlignUp(x, a) = a * j
        BY <3>1, <4>2, AlignIs
      <4> QED BY <3>3, <4>1, <4>3
    <3>5. AlignUp(DynAt + 107, 8) = 8 * l
      <4>1. PICK x \in Nat : x = DynAt + 107
        BY <3>1
      <4>2. x <= a * l /\ a * l < x + a
        BY <3>3, <3>6, <4>1
      <4>3. AlignUp(x, a) = a * l
        BY <3>1, <4>2, AlignIs
      <4> QED BY <3>3, <4>1, <4>3
    <3> QED BY <3>1, <3>4, <3>5
  <2>7. at[11] = DynAt + 96 /\ at[12] = DynAt + 107 /\ at[13] = DynAt + 112 /\ at[14] = DynAt + 112 + SymBytes
    BY <1>2, <1>5, <1>9, <2>4, <2>6
  <2>8. AlignUp(DynAt + 112 + SymBytes, 8) = DynNames
    <3> DEFINE l == 512 * m + 1038
    <3>1. l \in Nat /\ DynAt + 112 = 8 * l
      BY <1>2, <1>5, <2>5
    <3> HIDE DEF l
    <3>2. AlignUp(8 * l + SymBytes, 8) = 8 * l + AlignUp(SymBytes, 8)
      BY <3>1, AlignShift DEF Alignments
    <3> QED BY <1>5, <3>1, <3>2
  <2>9. at[15] = DynNames /\ at[16] = DynNames + 17 /\ at[17] = DynHeaders
    BY <1>5, <1>9, <2>7, <2>8
  <2>10. at[18] = DynHeaders /\ at[19] = DynHeaders + 240
    BY <1>2, <1>9, <2>9 DEF Longer
  <2> QED BY <2>1, <2>2, <2>4, <2>7, <2>9, <2>10
<1>11. Written(ops).pieces =
          {Piece(ExecMagic, 0, 4), Piece("ehdr", 4, 60), Piece("phdrs", 64, 280),
           Piece("interp", 344, 28), Piece("text", 4096, text_len), Piece("dynamic", DynAt, 96),
           Piece("dynstr", DynAt + 96, 11), Piece("dynsym", DynAt + 112, SymBytes),
           Piece("shstrtab", DynNames, 17), Piece("shdrs", DynHeaders, 240)}
  <2> DEFINE S == {Piece(ExecMagic, 0, 4), Piece("ehdr", 4, 60), Piece("phdrs", 64, 280),
                  Piece("interp", 344, 28), Piece("text", 4096, text_len),
                  Piece("dynamic", DynAt, 96), Piece("dynstr", DynAt + 96, 11),
                  Piece("dynsym", DynAt + 112, SymBytes), Piece("shstrtab", DynNames, 17),
                  Piece("shdrs", DynHeaders, 240)}
  <2>1. Piece(ExecMagic, 0, 4) \in Written(ops).pieces
    BY <1>6, <1>8, <1>10, Put
  <2>2. Piece("ehdr", 4, 60) \in Written(ops).pieces
    BY <1>6, <1>8, <1>10, Put
  <2>3. Piece("phdrs", 64, 280) \in Written(ops).pieces
    BY <1>6, <1>8, <1>10, Put
  <2>4. Piece("interp", 344, 28) \in Written(ops).pieces
    BY <1>6, <1>8, <1>10, Put
  <2>5. Piece("text", 4096, text_len) \in Written(ops).pieces
    BY <1>6, <1>8, <1>10, Put
  <2>6. Piece("dynamic", DynAt, 96) \in Written(ops).pieces
    BY <1>6, <1>8, <1>10, Put
  <2>7. Piece("dynstr", DynAt + 96, 11) \in Written(ops).pieces
    BY <1>6, <1>8, <1>10, Put
  <2>8. Piece("dynsym", DynAt + 112, SymBytes) \in Written(ops).pieces
    BY <1>6, <1>8, <1>10, Put
  <2>9. Piece("shstrtab", DynNames, 17) \in Written(ops).pieces
    BY <1>6, <1>8, <1>10, Put
  <2>10. Piece("shdrs", DynHeaders, 240) \in Written(ops).pieces
    BY <1>6, <1>8, <1>10, Put
  <2>11. ASSUME NEW p \in Written(ops).pieces PROVE p \in S
    <3>1. PICK i \in 1 .. 19 : ops[i].op = "buf" /\ p = Piece(ops[i].what, at[i - 1], ops[i].n)
      BY <1>8, PutBy
    <3>2. i \notin {4, 6, 8, 9, 11, 13, 15, 17, 18}
      BY <1>6, <3>1 DEF Pad, PadTo, Align
    <3>3. CASE i = 1
      <4>1. p = Piece(ExecMagic, 0, 4)
        BY <1>6, <1>10, <3>1, <3>3 DEF Buf
      <4> QED BY <4>1
    <3>4. CASE i = 2
      <4>1. p = Piece("ehdr", 4, 60)
        BY <1>6, <1>10, <3>1, <3>4 DEF Buf
      <4> QED BY <4>1
    <3>5. CASE i = 3
      <4>1. p = Piece("phdrs", 64, 280)
        BY <1>6, <1>10, <3>1, <3>5 DEF Buf
      <4> QED BY <4>1
    <3>6. CASE i = 5
      <4>1. p = Piece("interp", 344, 28)
        BY <1>6, <1>10, <3>1, <3>6 DEF Buf
      <4> QED BY <4>1
    <3>7. CASE i = 7
      <4>1. p = Piece("text", 4096, text_len)
        BY <1>6, <1>10, <3>1, <3>7 DEF Buf
      <4> QED BY <4>1
    <3>8. CASE i = 10
      <4>1. p = Piece("dynamic", DynAt, 96)
        BY <1>6, <1>10, <3>1, <3>8 DEF Buf
      <4> QED BY <4>1
    <3>9. CASE i = 12
      <4>1. p = Piece("dynstr", DynAt + 96, 11)
        BY <1>6, <1>10, <3>1, <3>9 DEF Buf
      <4> QED BY <4>1
    <3>10. CASE i = 14
      <4>1. p = Piece("dynsym", DynAt + 112, SymBytes)
        BY <1>6, <1>10, <3>1, <3>10 DEF Buf
      <4> QED BY <4>1
    <3>11. CASE i = 16
      <4>1. p = Piece("shstrtab", DynNames, 17)
        BY <1>6, <1>10, <3>1, <3>11 DEF Buf
      <4> QED BY <4>1
    <3>12. CASE i = 19
      <4>1. p = Piece("shdrs", DynHeaders, 240)
        BY <1>6, <1>10, <3>1, <3>12 DEF Buf
      <4> QED BY <4>1
    <3> QED BY <3>2, <3>3, <3>4, <3>5, <3>6, <3>7, <3>8, <3>9, <3>10, <3>11, <3>12
  <2> QED BY <2>1, <2>2, <2>3, <2>4, <2>5, <2>6, <2>7, <2>8, <2>9, <2>10, <2>11
<1>12. Written(ops).size = DynHeaders + 240
  BY <1>8, <1>10
<1> QED BY <1>2, <1>3, <1>11, <1>12 DEF ops


-----------------------------------------------------------------------------
(* A static executable. *)
LEMMA StaticFile ==
  ASSUME text_len \in Nat, SymBytes \in Nat
  PROVE  LET L == LayoutExec("static")
         IN  /\ TextPages \in Nat /\ text_len <= TextPages /\ StaticNames \in Nat /\ StaticHeaders \in Nat
             /\ DynAt \in Nat /\ DynAt < StaticNames /\ DynAt + 24 <= StaticHeaders
             /\ L.pieces = {Piece("magic", 0, 4), Piece("phdrs", 64, 112), Piece("text", 4096, text_len),
                            Piece("shstrtab", StaticNames, 17), Piece("shdrs", StaticHeaders, 192)}
             /\ L.loads = {Load(0, Base("static"), 4096), Load(4096, VaText("static"), TextPages)}
             /\ L.image = VaText("static") + TextPages
             /\ L.addresses = {Address("entry", VaText("static"), "text", 0)}
             /\ Written(L.ops).pieces =
                  {Piece(ExecMagic, 0, 4), Piece("ehdr", 4, 60), Piece("phdrs", 64, 112),
                   Piece("interp", 176, 0), Piece("text", 4096, text_len),
                   Piece("shstrtab", DynAt, 17), Piece("shdrs", StaticHeaders, 240)}
             /\ Written(L.ops).size = StaticHeaders + 240
<1> DEFINE ops == LayoutExec("static").ops
<1>1. /\ PAGE = 4096
      /\ TextOffset(64 + 112 + 0) = 4096 /\ AlignUp(0, 8) = 0 /\ AlignUp(1, 8) = 8
  <2>1. AlignUp(176, 4096) = 4096 * 1 /\ AlignUp(0, 8) = 8 * 0 /\ AlignUp(1, 8) = 8 * 1
    BY AlignIs DEF Alignments
  <2> QED BY <2>1 DEF PAGE, TextOffset
<1>2. /\ TextPages \in Nat /\ text_len <= TextPages /\ DynAt \in Nat
      /\ StaticNames \in Nat /\ StaticHeaders \in Nat /\ StaticNames + 17 <= StaticHeaders /\ DynAt + 8 <= StaticNames
  <2>1. TextPages \in Nat /\ text_len <= TextPages /\ AlignUp(SymBytes, 8) \in Nat
    BY AlignedTo DEF Aligned, TextPages
  <2>2. StaticNames + 17 \in Nat /\ StaticNames \in Nat /\ DynAt \in Nat /\ DynAt + 8 <= StaticNames
    BY <2>1 DEF DynAt, StaticNames
  <2>3. StaticHeaders \in Nat /\ StaticNames + 17 <= StaticHeaders
    <3>1. Aligned(StaticNames + 17, 8)
      BY <2>2, AlignedTo
    <3> QED BY <2>2, <3>1 DEF Aligned, StaticHeaders
  <2> QED BY <2>1, <2>2, <2>3
<1>3. /\ LayoutExec("static").ops =
              <<Buf(ExecMagic, 4), Buf("ehdr", 60), Buf("phdrs", 112), PadTo(176),
                Buf("interp", 0), PadTo(4096), Buf("text", text_len), Align(4096), Pad(4096)>>
              \o << >> \o <<Buf("shstrtab", 17), Align(8), PadTo(StaticHeaders), Buf("shdrs", 240)>>
      /\ LayoutExec("static").pieces =
              {Piece("magic", 0, 4), Piece("phdrs", 64, 112), Piece("text", 4096, text_len),
               Piece("shstrtab", StaticNames, 17), Piece("shdrs", StaticHeaders, 192)}
      /\ LayoutExec("static").loads = {Load(0, Base("static"), 4096), Load(4096, VaText("static"), TextPages)}
      /\ LayoutExec("static").image = VaText("static") + TextPages
      /\ LayoutExec("static").addresses = {Address("entry", VaText("static"), "text", 0)}
  <2>2. DynOffset(4096, TextPages) = DynAt /\ DynAt + 0 + 8 + AlignUp(SymBytes, 8) = StaticNames
    <3>1. AlignUp(SymBytes, 8) \in Nat
      BY AlignedTo DEF Aligned
    <3> QED BY <1>1, <1>2, <3>1 DEF DynOffset, DynAt, StaticNames
  <2>3. LayoutExec("static").loads = {Load(0, Base("static"), 4096), Load(4096, VaText("static"), TextPages)}
    BY <1>1 DEF LayoutExec, TextPages
  <2>4. LayoutExec("static").image = VaText("static") + TextPages
    BY <1>1 DEF LayoutExec, TextPages
  <2>5. LayoutExec("static").addresses = {Address("entry", VaText("static"), "text", 0)}
    BY <1>1 DEF LayoutExec, ExecEntry, TextPages
  <2>6. LayoutExec("static").pieces =
              {Piece("magic", 0, 4), Piece("phdrs", 64, 112), Piece("text", 4096, text_len),
               Piece("shstrtab", StaticNames, 17), Piece("shdrs", StaticHeaders, 192)}
    BY <1>1, <2>2 DEF LayoutExec, TextPages, StaticHeaders
  <2>7. LayoutExec("static").ops =
              <<Buf(ExecMagic, 4), Buf("ehdr", 60), Buf("phdrs", 112), PadTo(176),
                Buf("interp", 0), PadTo(4096), Buf("text", text_len), Align(4096), Pad(4096)>>
              \o << >> \o <<Buf("shstrtab", 17), Align(8), PadTo(StaticHeaders), Buf("shdrs", 240)>>
    BY <1>1, <2>2 DEF LayoutExec, TextPages, StaticHeaders
  <2> QED BY <2>3, <2>4, <2>5, <2>6, <2>7
<1>4. /\ ops = <<Buf(ExecMagic, 4), Buf("ehdr", 60), Buf("phdrs", 112), PadTo(176),
                Buf("interp", 0), PadTo(4096), Buf("text", text_len), Align(4096), Pad(4096)>>
              \o << >> \o <<Buf("shstrtab", 17), Align(8), PadTo(StaticHeaders), Buf("shdrs", 240)>>
      /\ DynAt = 8192 + TextPages
  BY <1>3 DEF DynAt
<1> HIDE DEF ops
<1>5. /\ Len(ops) = 13 /\ ops[1] = Buf(ExecMagic, 4) /\ ops[2] = Buf("ehdr", 60)
      /\ ops[3] = Buf("phdrs", 112) /\ ops[4] = PadTo(176) /\ ops[5] = Buf("interp", 0)
      /\ ops[6] = PadTo(4096) /\ ops[7] = Buf("text", text_len) /\ ops[8] = Align(4096)
      /\ ops[9] = Pad(4096) /\ ops[10] = Buf("shstrtab", 17) /\ ops[11] = Align(8)
      /\ ops[12] = PadTo(StaticHeaders) /\ ops[13] = Buf("shdrs", 240)
  <2>1. /\ Len(ops) = 13 /\ ops[1] = Buf(ExecMagic, 4) /\ ops[2] = Buf("ehdr", 60)
        /\ ops[3] = Buf("phdrs", 112)
    BY <1>4
  <2>2. /\ ops[4] = PadTo(176) /\ ops[5] = Buf("interp", 0) /\ ops[6] = PadTo(4096)
        /\ ops[7] = Buf("text", text_len)
    BY <1>4
  <2>3. /\ ops[8] = Align(4096) /\ ops[9] = Pad(4096) /\ ops[10] = Buf("shstrtab", 17)
        /\ ops[11] = Align(8)
    BY <1>4
  <2>4. /\ ops[12] = PadTo(StaticHeaders) /\ ops[13] = Buf("shdrs", 240)
    BY <1>4
  <2> QED BY <2>1, <2>2, <2>3, <2>4
<1>6. \A i \in 1 .. 13 : ops[i].op \in Ops
  <2>1. /\ ops[1].op \in Ops /\ ops[2].op \in Ops /\ ops[3].op \in Ops /\ ops[4].op \in Ops
        /\ ops[5].op \in Ops /\ ops[6].op \in Ops /\ ops[7].op \in Ops /\ ops[8].op \in Ops
        /\ ops[9].op \in Ops /\ ops[10].op \in Ops /\ ops[11].op \in Ops /\ ops[12].op \in Ops
        /\ ops[13].op \in Ops
    BY <1>5 DEF Buf, Pad, PadTo, Align, Ops
  <2> QED BY <2>1
<1>7. PICK at : /\ Sizes(ops, at)
                 /\ Written(ops) = [pieces |-> Buffers(ops, at, 13), size |-> at[13]]
  <2>1. Len(ops) = 13
    BY <1>5
  <2>2. Len(ops) \in Nat /\ \A i \in 1 .. Len(ops) : ops[i].op \in Ops
    BY <1>6, <2>1
  <2> QED BY <2>1, <2>2, WrittenIs
<1>8. /\ at[0] = 0 /\ at[1] = at[0] + 4 /\ at[2] = at[1] + 60 /\ at[3] = at[2] + 112
      /\ at[4] = Longer(at[3], 176) /\ at[5] = at[4] + 0 /\ at[6] = Longer(at[5], 4096)
      /\ at[7] = at[6] + text_len /\ at[8] = AlignUp(at[7], 4096) /\ at[9] = at[8] + 4096
      /\ at[10] = at[9] + 17 /\ at[11] = AlignUp(at[10], 8) /\ at[12] = Longer(at[11], StaticHeaders)
      /\ at[13] = at[12] + 240
  <2>1. /\ at[0] = 0 /\ at[1] = SizeAfter(at[0], ops[1]) /\ at[2] = SizeAfter(at[1], ops[2])
        /\ at[3] = SizeAfter(at[2], ops[3]) /\ at[4] = SizeAfter(at[3], ops[4])
        /\ at[5] = SizeAfter(at[4], ops[5]) /\ at[6] = SizeAfter(at[5], ops[6])
        /\ at[7] = SizeAfter(at[6], ops[7]) /\ at[8] = SizeAfter(at[7], ops[8])
        /\ at[9] = SizeAfter(at[8], ops[9]) /\ at[10] = SizeAfter(at[9], ops[10])
        /\ at[11] = SizeAfter(at[10], ops[11]) /\ at[12] = SizeAfter(at[11], ops[12])
        /\ at[13] = SizeAfter(at[12], ops[13])
    BY <1>5, <1>7 DEF Sizes
  <2> QED BY <1>5, <2>1, BufFacts, PadFacts
<1>9. /\ at[0] = 0 /\ at[1] = 4 /\ at[2] = 64 /\ at[3] = 176 /\ at[4] = 176 /\ at[5] = 176
      /\ at[6] = 4096 /\ at[7] = 4096 + text_len /\ at[8] = 4096 + TextPages /\ at[9] = DynAt
      /\ at[10] = DynAt + 17 /\ at[11] = DynAt + 24 /\ at[12] = StaticHeaders /\ at[13] = StaticHeaders + 240
  <2>1. at[0] = 0 /\ at[1] = 4 /\ at[2] = 64 /\ at[3] = 176 /\ at[4] = 176 /\ at[5] = 176 /\ at[6] = 4096
    BY <1>8 DEF Longer
  <2>2. at[7] = 4096 + text_len /\ at[8] = AlignUp(4096 + text_len, 4096)
    BY <1>8, <2>1
  <2>3. AlignUp(4096 + text_len, 4096) = 4096 + TextPages
    <3>1. AlignUp(4096 * 1 + text_len, 4096) = 4096 * 1 + AlignUp(text_len, 4096)
      BY AlignShift DEF Alignments
    <3> QED BY <3>1 DEF TextPages
  <2>4. at[8] = 4096 + TextPages /\ at[9] = DynAt /\ at[10] = DynAt + 17
    BY <1>2, <1>4, <1>8, <2>2, <2>3
  <2>5. PICK m \in Nat : TextPages = 4096 * m
    BY AlignedTo DEF Aligned, TextPages
  <2>6. AlignUp(DynAt + 17, 8) = DynAt + 24
    <3> DEFINE l == 512 * m + 1027
    <3>1. l \in Nat /\ DynAt + 17 \in Nat /\ DynAt + 24 = 8 * l
      BY <1>2, <1>4, <2>5
    <3> HIDE DEF l
    <3>2. DynAt + 17 <= 8 * l /\ 8 * l < DynAt + 17 + 8
      <4>1. DynAt \in Nat
        BY <1>2
      <4> QED BY <3>1, <4>1
    <3>3. 8 \in Alignments
      BY DEF Alignments
    <3>4. AlignUp(DynAt + 17, 8) = 8 * l
      BY <3>1, <3>2, <3>3, AlignIs
    <3> QED BY <3>1, <3>4
  <2>7. at[11] = DynAt + 24 /\ at[12] = Longer(DynAt + 24, StaticHeaders)
    BY <1>2, <1>8, <2>4, <2>6
  <2>8. at[12] = StaticHeaders /\ at[13] = StaticHeaders + 240
    BY <1>2, <1>8, <2>7 DEF Longer
  <2> QED BY <2>1, <2>2, <2>4, <2>7, <2>8
<1>10. Written(ops).pieces =
          {Piece(ExecMagic, 0, 4), Piece("ehdr", 4, 60), Piece("phdrs", 64, 112),
           Piece("interp", 176, 0), Piece("text", 4096, text_len), Piece("shstrtab", DynAt, 17),
           Piece("shdrs", StaticHeaders, 240)}
  <2> DEFINE S == {Piece(ExecMagic, 0, 4), Piece("ehdr", 4, 60), Piece("phdrs", 64, 112),
                  Piece("interp", 176, 0), Piece("text", 4096, text_len),
                  Piece("shstrtab", DynAt, 17), Piece("shdrs", StaticHeaders, 240)}
  <2>1. Piece(ExecMagic, 0, 4) \in Written(ops).pieces
    BY <1>5, <1>7, <1>9, Put
  <2>2. Piece("ehdr", 4, 60) \in Written(ops).pieces
    BY <1>5, <1>7, <1>9, Put
  <2>3. Piece("phdrs", 64, 112) \in Written(ops).pieces
    BY <1>5, <1>7, <1>9, Put
  <2>4. Piece("interp", 176, 0) \in Written(ops).pieces
    BY <1>5, <1>7, <1>9, Put
  <2>5. Piece("text", 4096, text_len) \in Written(ops).pieces
    BY <1>5, <1>7, <1>9, Put
  <2>6. Piece("shstrtab", DynAt, 17) \in Written(ops).pieces
    BY <1>5, <1>7, <1>9, Put
  <2>7. Piece("shdrs", StaticHeaders, 240) \in Written(ops).pieces
    BY <1>5, <1>7, <1>9, Put
  <2>8. ASSUME NEW p \in Written(ops).pieces PROVE p \in S
    <3>1. PICK i \in 1 .. 13 : ops[i].op = "buf" /\ p = Piece(ops[i].what, at[i - 1], ops[i].n)
      BY <1>7, PutBy
    <3>2. i \notin {4, 6, 8, 9, 11, 12}
      BY <1>5, <3>1 DEF Pad, PadTo, Align
    <3>3. CASE i = 1
      <4>1. p = Piece(ExecMagic, 0, 4)
        BY <1>5, <1>9, <3>1, <3>3 DEF Buf
      <4> QED BY <4>1
    <3>4. CASE i = 2
      <4>1. p = Piece("ehdr", 4, 60)
        BY <1>5, <1>9, <3>1, <3>4 DEF Buf
      <4> QED BY <4>1
    <3>5. CASE i = 3
      <4>1. p = Piece("phdrs", 64, 112)
        BY <1>5, <1>9, <3>1, <3>5 DEF Buf
      <4> QED BY <4>1
    <3>6. CASE i = 5
      <4>1. p = Piece("interp", 176, 0)
        BY <1>5, <1>9, <3>1, <3>6 DEF Buf
      <4> QED BY <4>1
    <3>7. CASE i = 7
      <4>1. p = Piece("text", 4096, text_len)
        BY <1>5, <1>9, <3>1, <3>7 DEF Buf
      <4> QED BY <4>1
    <3>8. CASE i = 10
      <4>1. p = Piece("shstrtab", DynAt, 17)
        BY <1>5, <1>9, <3>1, <3>8 DEF Buf
      <4> QED BY <4>1
    <3>9. CASE i = 13
      <4>1. p = Piece("shdrs", StaticHeaders, 240)
        BY <1>5, <1>9, <3>1, <3>9 DEF Buf
      <4> QED BY <4>1
    <3> QED BY <3>2, <3>3, <3>4, <3>5, <3>6, <3>7, <3>8, <3>9
  <2> QED BY <2>1, <2>2, <2>3, <2>4, <2>5, <2>6, <2>7, <2>8
<1>11. Written(ops).size = StaticHeaders + 240
  BY <1>7, <1>9
<1>12. DynAt < StaticNames /\ DynAt + 24 <= StaticHeaders
  BY <1>2
<1> QED BY <1>2, <1>3, <1>10, <1>11, <1>12 DEF ops


-----------------------------------------------------------------------------
(* The kernel of a boot image. *)
LEMMA KernelFile ==
  ASSUME text_len \in Nat
  PROVE  LET L == LayoutKernel
         IN  /\ L.pieces = {Piece("magic", 0, 4), Piece("phdrs", 64, 56)}
             /\ L.loads = {Load(0, KernelBase, 144 + text_len)} /\ L.image = KernelBase + 144 + text_len
             /\ L.addresses = {Address("entry", KernelBase + 120, "text", 0)}
             /\ Written(L.ops).pieces =
                  {Piece("magic", 0, 4), Piece("ehdr", 4, 60), Piece("phdrs", 64, 56),
                   Piece("mb2", 120, 24), Piece("text", 144, text_len)}
             /\ Written(L.ops).size = 144 + text_len
<1> DEFINE ops == LayoutKernel.ops
<1>1. /\ LayoutKernel.ops = <<Buf("magic", 4), Buf("ehdr", 60), Buf("phdrs", 56), Buf("mb2", 24), Buf("text", text_len)>>
      /\ LayoutKernel.pieces = {Piece("magic", 0, 4), Piece("phdrs", 64, 56)}
      /\ LayoutKernel.loads = {Load(0, KernelBase, 144 + text_len)}
      /\ LayoutKernel.image = KernelBase + 144 + text_len
      /\ LayoutKernel.addresses = {Address("entry", KernelBase + 120, "text", 0)}
  <2>1. KernelBase \in Nat
    BY DEF KernelBase
  <2>2. 64 + 56 + 24 + text_len = 144 + text_len /\ KernelBase + 64 + 56 = KernelBase + 120
        /\ KernelBase + (144 + text_len) = KernelBase + 144 + text_len
    BY <2>1
  <2>3. LayoutKernel.loads = {Load(0, KernelBase, 144 + text_len)}
    BY <2>2 DEF LayoutKernel
  <2>4. LayoutKernel.image = KernelBase + 144 + text_len
    BY <2>2 DEF LayoutKernel
  <2>5. LayoutKernel.addresses = {Address("entry", KernelBase + 120, "text", 0)}
    BY <2>2 DEF LayoutKernel
  <2>6. /\ LayoutKernel.ops = <<Buf("magic", 4), Buf("ehdr", 60), Buf("phdrs", 56), Buf("mb2", 24), Buf("text", text_len)>>
        /\ LayoutKernel.pieces = {Piece("magic", 0, 4), Piece("phdrs", 64, 56)}
    BY DEF LayoutKernel
  <2> QED BY <2>3, <2>4, <2>5, <2>6
<1>2. ops = <<Buf("magic", 4), Buf("ehdr", 60), Buf("phdrs", 56), Buf("mb2", 24), Buf("text", text_len)>>
  BY <1>1
<1> HIDE DEF ops
<1>3. /\ Len(ops) = 5 /\ ops[1] = Buf("magic", 4) /\ ops[2] = Buf("ehdr", 60)
      /\ ops[3] = Buf("phdrs", 56) /\ ops[4] = Buf("mb2", 24) /\ ops[5] = Buf("text", text_len)
  BY <1>2
<1>4. \A i \in 1 .. 5 : ops[i].op \in Ops
  <2>1. /\ ops[1].op \in Ops /\ ops[2].op \in Ops /\ ops[3].op \in Ops /\ ops[4].op \in Ops
        /\ ops[5].op \in Ops
    BY <1>3 DEF Buf, Pad, PadTo, Align, Ops
  <2> QED BY <2>1
<1>5. PICK at : /\ Sizes(ops, at)
                 /\ Written(ops) = [pieces |-> Buffers(ops, at, 5), size |-> at[5]]
  <2>1. Len(ops) = 5
    BY <1>3
  <2>2. Len(ops) \in Nat /\ \A i \in 1 .. Len(ops) : ops[i].op \in Ops
    BY <1>4, <2>1
  <2> QED BY <2>1, <2>2, WrittenIs
<1>6. /\ at[0] = 0 /\ at[1] = at[0] + 4 /\ at[2] = at[1] + 60 /\ at[3] = at[2] + 56
      /\ at[4] = at[3] + 24 /\ at[5] = at[4] + text_len
  <2>1. /\ at[0] = 0 /\ at[1] = SizeAfter(at[0], ops[1]) /\ at[2] = SizeAfter(at[1], ops[2])
        /\ at[3] = SizeAfter(at[2], ops[3]) /\ at[4] = SizeAfter(at[3], ops[4])
        /\ at[5] = SizeAfter(at[4], ops[5])
    BY <1>3, <1>5 DEF Sizes
  <2> QED BY <1>3, <2>1, BufFacts, PadFacts
<1>7. /\ at[0] = 0 /\ at[1] = 4 /\ at[2] = 64 /\ at[3] = 120 /\ at[4] = 144
      /\ at[5] = 144 + text_len
  BY <1>6
<1>8. Written(ops).pieces =
          {Piece("magic", 0, 4), Piece("ehdr", 4, 60), Piece("phdrs", 64, 56),
           Piece("mb2", 120, 24), Piece("text", 144, text_len)}
  <2> DEFINE S == {Piece("magic", 0, 4), Piece("ehdr", 4, 60), Piece("phdrs", 64, 56),
                  Piece("mb2", 120, 24), Piece("text", 144, text_len)}
  <2>1. Piece("magic", 0, 4) \in Written(ops).pieces
    BY <1>3, <1>5, <1>7, Put
  <2>2. Piece("ehdr", 4, 60) \in Written(ops).pieces
    BY <1>3, <1>5, <1>7, Put
  <2>3. Piece("phdrs", 64, 56) \in Written(ops).pieces
    BY <1>3, <1>5, <1>7, Put
  <2>4. Piece("mb2", 120, 24) \in Written(ops).pieces
    BY <1>3, <1>5, <1>7, Put
  <2>5. Piece("text", 144, text_len) \in Written(ops).pieces
    BY <1>3, <1>5, <1>7, Put
  <2>6. ASSUME NEW p \in Written(ops).pieces PROVE p \in S
    <3>1. PICK i \in 1 .. 5 : ops[i].op = "buf" /\ p = Piece(ops[i].what, at[i - 1], ops[i].n)
      BY <1>5, PutBy
    <3>2. CASE i = 1
      <4>1. p = Piece("magic", 0, 4)
        BY <1>3, <1>7, <3>1, <3>2 DEF Buf
      <4> QED BY <4>1
    <3>3. CASE i = 2
      <4>1. p = Piece("ehdr", 4, 60)
        BY <1>3, <1>7, <3>1, <3>3 DEF Buf
      <4> QED BY <4>1
    <3>4. CASE i = 3
      <4>1. p = Piece("phdrs", 64, 56)
        BY <1>3, <1>7, <3>1, <3>4 DEF Buf
      <4> QED BY <4>1
    <3>5. CASE i = 4
      <4>1. p = Piece("mb2", 120, 24)
        BY <1>3, <1>7, <3>1, <3>5 DEF Buf
      <4> QED BY <4>1
    <3>6. CASE i = 5
      <4>1. p = Piece("text", 144, text_len)
        BY <1>3, <1>7, <3>1, <3>6 DEF Buf
      <4> QED BY <4>1
    <3> QED BY <3>2, <3>3, <3>4, <3>5, <3>6
  <2> QED BY <2>1, <2>2, <2>3, <2>4, <2>5, <2>6
<1>9. Written(ops).size = 144 + text_len
  BY <1>5, <1>7
<1> QED BY <1>1, <1>8, <1>9 DEF ops


-----------------------------------------------------------------------------
(* A Windows executable and a DLL. *)
LEMMA PEFile ==
  ASSUME NEW f \in {"exe", "dll"}, text_len \in Nat
  PROVE  LET L == LayoutPE(f)
         IN  /\ TextSectors \in Nat /\ text_len <= TextSectors /\ ImportBytes(f) \in {72, 32}
             /\ L.pieces = {Piece("magic", 0, 4), Piece("sig", 124, 4), Piece("sections", 388, 120),
                            Piece("text", 1024, text_len), Piece("rdata", 1024 + TextSectors, ImportBytes(f)),
                            Piece("data", 1024 + TextSectors + 4608, 512)}
             /\ L.loads = {Load(1024, 4096, TextSectors), Load(1024 + TextSectors, 4096 + TextPages, 4608),
                           Load(1024 + TextSectors + 4608, 4096 + TextPages + 8192, 512)}
             /\ L.image = 4096 + TextPages + 8192 + 4096
             /\ L.addresses = {Address("entry", 4096, "text", 0), Address("iat", 4096 + TextPages, "rdata", 0)}
             /\ Written(L.ops).pieces =
                  {Piece("magic", 0, 4), Piece("dos", 4, 60), Piece("stub", 64, 60),
                   Piece("sig", 124, 4), Piece("coff", 128, 20), Piece("optional", 148, 240),
                   Piece("sections", 388, 120), Piece("text", 512, text_len),
                   Piece("rdata", 512 + TextSectors, ImportBytes(f)), Piece("data", 1024 + TextSectors, 512)}
             /\ Written(L.ops).size = 1536 + TextSectors
<1> DEFINE ops == LayoutPE(f).ops
<1>1. ImportBytes(f) \in {72, 32}
  BY DEF ImportBytes
<1>2. TextSectors \in Nat /\ text_len <= TextSectors
  BY AlignedTo DEF Aligned, TextSectors
<1>3. /\ LayoutPE(f).ops =
             <<Buf("magic", 4), Buf("dos", 60), Buf("stub", 60), Buf("sig", 4), Buf("coff", 20),
                Buf("optional", 240), Buf("sections", 120), Align(512), Buf("text", text_len),
                Align(512), Buf("rdata", ImportBytes(f)), Align(512), Buf("data", 512)>>
      /\ LayoutPE(f).pieces = {Piece("magic", 0, 4), Piece("sig", 124, 4), Piece("sections", 388, 120),
                            Piece("text", 1024, text_len), Piece("rdata", 1024 + TextSectors, ImportBytes(f)),
                            Piece("data", 1024 + TextSectors + 4608, 512)}
      /\ LayoutPE(f).loads = {Load(1024, 4096, TextSectors), Load(1024 + TextSectors, 4096 + TextPages, 4608),
                           Load(1024 + TextSectors + 4608, 4096 + TextPages + 8192, 512)}
      /\ LayoutPE(f).image = 4096 + TextPages + 8192 + 4096
      /\ LayoutPE(f).addresses = {Address("entry", 4096, "text", 0), Address("iat", 4096 + TextPages, "rdata", 0)}
  <2>1. AlignUp(628, 512) = 1024
    <3>1. AlignUp(628, 512) = 512 * 2
      BY AlignIs DEF Alignments
    <3> QED BY <3>1
  <2>2. AlignUp(ImportBytes(f) + 4096, 512) = 4608
    <3>1. AlignUp(ImportBytes(f) + 4096, 512) = 512 * 9
      BY <1>1, AlignIs DEF Alignments
    <3> QED BY <3>1
  <2>3. AlignUp(ImportBytes(f) + 4096, 4096) = 8192
    <3>1. AlignUp(ImportBytes(f) + 4096, 4096) = 4096 * 2
      BY <1>1, AlignIs DEF Alignments
    <3> QED BY <3>1
  <2>4. FA = 512 /\ SA = 4096 /\ AlignUp(64 + 60 + 4 + 20 + 240 + 6 * 40, FA) = 1024
    BY <2>1 DEF FA, SA
  <2>5. /\ AlignUp(ImportBytes(f) + 4096, FA) = 4608 /\ AlignUp(ImportBytes(f) + 4096, SA) = 8192
        /\ AlignUp(text_len, FA) = TextSectors /\ AlignUp(text_len, SA) = TextPages
    BY <2>2, <2>3, <2>4 DEF TextSectors, TextPages
  <2>6. LayoutPE(f).ops =
             <<Buf("magic", 4), Buf("dos", 60), Buf("stub", 60), Buf("sig", 4), Buf("coff", 20),
                Buf("optional", 240), Buf("sections", 120), Align(512), Buf("text", text_len),
                Align(512), Buf("rdata", ImportBytes(f)), Align(512), Buf("data", 512)>>
    BY <2>4, <2>5 DEF LayoutPE
  <2>7. LayoutPE(f).pieces = {Piece("magic", 0, 4), Piece("sig", 124, 4), Piece("sections", 388, 120),
                            Piece("text", 1024, text_len), Piece("rdata", 1024 + TextSectors, ImportBytes(f)),
                            Piece("data", 1024 + TextSectors + 4608, 512)}
    BY <2>4, <2>5 DEF LayoutPE
  <2>8. LayoutPE(f).loads = {Load(1024, 4096, TextSectors), Load(1024 + TextSectors, 4096 + TextPages, 4608),
                           Load(1024 + TextSectors + 4608, 4096 + TextPages + 8192, 512)}
    BY <2>4, <2>5 DEF LayoutPE
  <2>9. LayoutPE(f).image = 4096 + TextPages + 8192 + 4096
    BY <2>4, <2>5 DEF LayoutPE
  <2>10. LayoutPE(f).addresses = {Address("entry", 4096, "text", 0), Address("iat", 4096 + TextPages, "rdata", 0)}
    BY <2>4, <2>5 DEF LayoutPE
  <2> QED BY <2>6, <2>7, <2>8, <2>9, <2>10
<1>4. ops =
        <<Buf("magic", 4), Buf("dos", 60), Buf("stub", 60), Buf("sig", 4), Buf("coff", 20),
                Buf("optional", 240), Buf("sections", 120), Align(512), Buf("text", text_len),
                Align(512), Buf("rdata", ImportBytes(f)), Align(512), Buf("data", 512)>>
  BY <1>3
<1> HIDE DEF ops
<1>5. /\ Len(ops) = 13 /\ ops[1] = Buf("magic", 4) /\ ops[2] = Buf("dos", 60)
      /\ ops[3] = Buf("stub", 60) /\ ops[4] = Buf("sig", 4) /\ ops[5] = Buf("coff", 20)
      /\ ops[6] = Buf("optional", 240) /\ ops[7] = Buf("sections", 120) /\ ops[8] = Align(512)
      /\ ops[9] = Buf("text", text_len) /\ ops[10] = Align(512) /\ ops[11] = Buf("rdata", ImportBytes(f))
      /\ ops[12] = Align(512) /\ ops[13] = Buf("data", 512)
  <2>1. /\ Len(ops) = 13 /\ ops[1] = Buf("magic", 4) /\ ops[2] = Buf("dos", 60)
        /\ ops[3] = Buf("stub", 60)
    BY <1>4
  <2>2. /\ ops[4] = Buf("sig", 4) /\ ops[5] = Buf("coff", 20) /\ ops[6] = Buf("optional", 240)
        /\ ops[7] = Buf("sections", 120)
    BY <1>4
  <2>3. /\ ops[8] = Align(512) /\ ops[9] = Buf("text", text_len) /\ ops[10] = Align(512)
        /\ ops[11] = Buf("rdata", ImportBytes(f))
    BY <1>4
  <2>4. /\ ops[12] = Align(512) /\ ops[13] = Buf("data", 512)
    BY <1>4
  <2> QED BY <2>1, <2>2, <2>3, <2>4
<1>6. \A i \in 1 .. 13 : ops[i].op \in Ops
  <2>1. /\ ops[1].op \in Ops /\ ops[2].op \in Ops /\ ops[3].op \in Ops /\ ops[4].op \in Ops
        /\ ops[5].op \in Ops /\ ops[6].op \in Ops /\ ops[7].op \in Ops /\ ops[8].op \in Ops
        /\ ops[9].op \in Ops /\ ops[10].op \in Ops /\ ops[11].op \in Ops /\ ops[12].op \in Ops
        /\ ops[13].op \in Ops
    BY <1>5 DEF Buf, Pad, PadTo, Align, Ops
  <2> QED BY <2>1
<1>7. PICK at : /\ Sizes(ops, at)
                 /\ Written(ops) = [pieces |-> Buffers(ops, at, 13), size |-> at[13]]
  <2>1. Len(ops) = 13
    BY <1>5
  <2>2. Len(ops) \in Nat /\ \A i \in 1 .. Len(ops) : ops[i].op \in Ops
    BY <1>6, <2>1
  <2> QED BY <2>1, <2>2, WrittenIs
<1>8. /\ at[0] = 0 /\ at[1] = at[0] + 4 /\ at[2] = at[1] + 60 /\ at[3] = at[2] + 60
      /\ at[4] = at[3] + 4 /\ at[5] = at[4] + 20 /\ at[6] = at[5] + 240 /\ at[7] = at[6] + 120
      /\ at[8] = AlignUp(at[7], 512) /\ at[9] = at[8] + text_len /\ at[10] = AlignUp(at[9], 512)
      /\ at[11] = at[10] + ImportBytes(f) /\ at[12] = AlignUp(at[11], 512) /\ at[13] = at[12] + 512
  <2>1. /\ at[0] = 0 /\ at[1] = SizeAfter(at[0], ops[1]) /\ at[2] = SizeAfter(at[1], ops[2])
        /\ at[3] = SizeAfter(at[2], ops[3]) /\ at[4] = SizeAfter(at[3], ops[4])
        /\ at[5] = SizeAfter(at[4], ops[5]) /\ at[6] = SizeAfter(at[5], ops[6])
        /\ at[7] = SizeAfter(at[6], ops[7]) /\ at[8] = SizeAfter(at[7], ops[8])
        /\ at[9] = SizeAfter(at[8], ops[9]) /\ at[10] = SizeAfter(at[9], ops[10])
        /\ at[11] = SizeAfter(at[10], ops[11]) /\ at[12] = SizeAfter(at[11], ops[12])
        /\ at[13] = SizeAfter(at[12], ops[13])
    BY <1>5, <1>7 DEF Sizes
  <2> QED BY <1>5, <2>1, BufFacts, PadFacts
<1>9. /\ at[0] = 0 /\ at[1] = 4 /\ at[2] = 64 /\ at[3] = 124 /\ at[4] = 128 /\ at[5] = 148
      /\ at[6] = 388 /\ at[7] = 508 /\ at[8] = 512 /\ at[9] = 512 + text_len /\ at[10] = 512 + TextSectors
      /\ at[11] = 512 + TextSectors + ImportBytes(f) /\ at[12] = 1024 + TextSectors /\ at[13] = 1536 + TextSectors
  <2>1. at[0] = 0 /\ at[1] = 4 /\ at[2] = 64 /\ at[3] = 124 /\ at[4] = 128 /\ at[5] = 148 /\ at[6] = 388
    BY <1>8
  <2>2. at[7] = 508 /\ at[8] = 512
    <3>1. AlignUp(508, 512) = 512 * 1
      BY AlignIs DEF Alignments
    <3>2. at[7] = 508
      BY <1>8, <2>1
    <3> QED BY <1>8, <3>1, <3>2
  <2>3. at[9] = 512 + text_len /\ at[10] = AlignUp(512 + text_len, 512)
    BY <1>8, <2>2
  <2>4. AlignUp(512 + text_len, 512) = 512 + TextSectors
    <3>1. PICK a \in Alignments : a = 512
      BY DEF Alignments
    <3>2. AlignUp(a * 1 + text_len, a) = a * 1 + AlignUp(text_len, a)
      BY AlignShift
    <3>3. AlignUp(512 + text_len, 512) = 512 + AlignUp(text_len, 512)
      BY <3>1, <3>2
    <3> QED BY <3>3 DEF TextSectors
  <2>5. at[10] = 512 + TextSectors /\ at[11] = 512 + TextSectors + ImportBytes(f)
    BY <1>8, <2>3, <2>4
  <2>6. PICK m \in Nat : TextSectors = 512 * m
    BY AlignedTo DEF Aligned, TextSectors
  <2>7. AlignUp(512 + TextSectors + ImportBytes(f), 512) = 1024 + TextSectors
    <3> DEFINE l == m + 2
               n == 512 + TextSectors + ImportBytes(f)
    <3>1. l \in Nat /\ 512 * l = 1024 + TextSectors /\ n \in Nat
      BY <1>1, <2>6
    <3>2. n <= 512 * l /\ 512 * l < n + 512
      <4> HIDE DEF l
      <4> QED BY <1>1, <1>2, <3>1
    <3> HIDE DEF l, n
    <3>3. PICK a \in Alignments : a = 512
      BY DEF Alignments
    <3>4. n <= a * l /\ a * l < n + a
      BY <3>2, <3>3
    <3>5. AlignUp(n, a) = a * l
      BY <3>1, <3>4, AlignIs
    <3> QED BY <3>1, <3>3, <3>5 DEF n
  <2>8. at[12] = 1024 + TextSectors /\ at[13] = 1536 + TextSectors
    BY <1>1, <1>2, <1>8, <2>5, <2>7
  <2> QED BY <2>1, <2>2, <2>3, <2>5, <2>8
<1>10. Written(ops).pieces =
          {Piece("magic", 0, 4), Piece("dos", 4, 60), Piece("stub", 64, 60), Piece("sig", 124, 4),
           Piece("coff", 128, 20), Piece("optional", 148, 240), Piece("sections", 388, 120),
           Piece("text", 512, text_len), Piece("rdata", 512 + TextSectors, ImportBytes(f)),
           Piece("data", 1024 + TextSectors, 512)}
  <2> DEFINE S == {Piece("magic", 0, 4), Piece("dos", 4, 60), Piece("stub", 64, 60),
                  Piece("sig", 124, 4), Piece("coff", 128, 20), Piece("optional", 148, 240),
                  Piece("sections", 388, 120), Piece("text", 512, text_len),
                  Piece("rdata", 512 + TextSectors, ImportBytes(f)), Piece("data", 1024 + TextSectors, 512)}
  <2>1. Piece("magic", 0, 4) \in Written(ops).pieces
    BY <1>5, <1>7, <1>9, Put
  <2>2. Piece("dos", 4, 60) \in Written(ops).pieces
    BY <1>5, <1>7, <1>9, Put
  <2>3. Piece("stub", 64, 60) \in Written(ops).pieces
    BY <1>5, <1>7, <1>9, Put
  <2>4. Piece("sig", 124, 4) \in Written(ops).pieces
    BY <1>5, <1>7, <1>9, Put
  <2>5. Piece("coff", 128, 20) \in Written(ops).pieces
    BY <1>5, <1>7, <1>9, Put
  <2>6. Piece("optional", 148, 240) \in Written(ops).pieces
    BY <1>5, <1>7, <1>9, Put
  <2>7. Piece("sections", 388, 120) \in Written(ops).pieces
    BY <1>5, <1>7, <1>9, Put
  <2>8. Piece("text", 512, text_len) \in Written(ops).pieces
    BY <1>5, <1>7, <1>9, Put
  <2>9. Piece("rdata", 512 + TextSectors, ImportBytes(f)) \in Written(ops).pieces
    BY <1>5, <1>7, <1>9, Put
  <2>10. Piece("data", 1024 + TextSectors, 512) \in Written(ops).pieces
    BY <1>5, <1>7, <1>9, Put
  <2>11. ASSUME NEW p \in Written(ops).pieces PROVE p \in S
    <3>1. PICK i \in 1 .. 13 : ops[i].op = "buf" /\ p = Piece(ops[i].what, at[i - 1], ops[i].n)
      BY <1>7, PutBy
    <3>2. i \notin {8, 10, 12}
      BY <1>5, <3>1 DEF Pad, PadTo, Align
    <3>3. CASE i = 1
      <4>1. p = Piece("magic", 0, 4)
        BY <1>5, <1>9, <3>1, <3>3 DEF Buf
      <4> QED BY <4>1
    <3>4. CASE i = 2
      <4>1. p = Piece("dos", 4, 60)
        BY <1>5, <1>9, <3>1, <3>4 DEF Buf
      <4> QED BY <4>1
    <3>5. CASE i = 3
      <4>1. p = Piece("stub", 64, 60)
        BY <1>5, <1>9, <3>1, <3>5 DEF Buf
      <4> QED BY <4>1
    <3>6. CASE i = 4
      <4>1. p = Piece("sig", 124, 4)
        BY <1>5, <1>9, <3>1, <3>6 DEF Buf
      <4> QED BY <4>1
    <3>7. CASE i = 5
      <4>1. p = Piece("coff", 128, 20)
        BY <1>5, <1>9, <3>1, <3>7 DEF Buf
      <4> QED BY <4>1
    <3>8. CASE i = 6
      <4>1. p = Piece("optional", 148, 240)
        BY <1>5, <1>9, <3>1, <3>8 DEF Buf
      <4> QED BY <4>1
    <3>9. CASE i = 7
      <4>1. p = Piece("sections", 388, 120)
        BY <1>5, <1>9, <3>1, <3>9 DEF Buf
      <4> QED BY <4>1
    <3>10. CASE i = 9
      <4>1. p = Piece("text", 512, text_len)
        BY <1>5, <1>9, <3>1, <3>10 DEF Buf
      <4> QED BY <4>1
    <3>11. CASE i = 11
      <4>1. p = Piece("rdata", 512 + TextSectors, ImportBytes(f))
        BY <1>5, <1>9, <3>1, <3>11 DEF Buf
      <4> QED BY <4>1
    <3>12. CASE i = 13
      <4>1. p = Piece("data", 1024 + TextSectors, 512)
        BY <1>5, <1>9, <3>1, <3>12 DEF Buf
      <4> QED BY <4>1
    <3> QED BY <3>2, <3>3, <3>4, <3>5, <3>6, <3>7, <3>8, <3>9, <3>10, <3>11, <3>12
  <2> QED BY <2>1, <2>2, <2>3, <2>4, <2>5, <2>6, <2>7, <2>8, <2>9, <2>10, <2>11
<1>11. Written(ops).size = 1536 + TextSectors
  BY <1>7, <1>9
<1> QED BY <1>1, <1>2, <1>3, <1>10, <1>11 DEF ops

-----------------------------------------------------------------------------
(* The compiler together with the writers: whatever a writer or the        *)
(* compiler for Windows does, the tables stay as they are.                 *)

TablesInv == AotTypes /\ RelocInv /\ TableInv /\ CoverInv

LEMMA TablesInvInit == AotInit => TablesInv
BY AotInitTypes, InitTables
DEF TablesInv, AotTypes, AotInit, RelocInv, RelocationsNameTheirCallee, CoverInv, SymbolsCoverFunctions

LEMMA TablesInvNext ==
    ASSUME TablesInv, [AotNext]_aotVars
    PROVE  TablesInv'
BY NextTypes, NextRelocs, NextTables, NextCovers DEF TablesInv

(* The text grows between functions, and the stage may change. *)
LEMMA TextOnly ==
    ASSUME TablesInv, text_len' \in Nat, text_len <= text_len',
           stage' \in {"idle", "done", "overrun", "panic", "written"}, stage' = "idle" => stage = "idle",
           UNCHANGED <<cur, items, aotTables, arrived, calls>>
    PROVE  TablesInv'
<1>1. AotTypes'
    BY DEF TablesInv, AotTypes, AotTypeOK, aotTables
<1>2. RelocInv'
    BY DEF TablesInv, RelocInv, RelocationsNameTheirCallee, Named, aotTables
<1>3. TableInv'
    BY DEF TablesInv, TableInv, TablesInBounds, Callees, KnownExtern, aotTables
<1>4. CoverInv'
  <2>1. UNCHANGED <<syms, symstr, externs, funcs, calls>>
      BY DEF aotTables
  <2>2. \A i \in DOMAIN funcs : EndOf(funcs[i]) <= text_len'
    <3>1. \A i \in DOMAIN funcs : EndOf(funcs[i]) \in Nat /\ EndOf(funcs[i]) <= text_len
        BY TableElements DEF TablesInv, AotTypes, CoverInv, SymbolsCoverFunctions, EndOf
    <3>2. text_len \in Nat
        BY DEF TablesInv, AotTypes, AotTypeOK
    <3>. QED
        BY <3>1, <3>2
  <2>3. SymbolsCoverFunctions'
      BY <2>1, <2>2 DEF TablesInv, CoverInv, SymbolsCoverFunctions, EndOf
  <2>4. stage' # "body" /\ (stage' \in {"idle", "body"} => stage = "idle")
      OBVIOUS
  <2>5. ASSUME stage' = "idle", NEW k \in DOMAIN calls'
        PROVE  \E i \in DOMAIN funcs' : funcs'[i].name = calls'[k].caller
    <3>1. stage = "idle" /\ k \in DOMAIN calls
        BY <2>1, <2>5
    <3>. QED
        BY <2>1, <3>1 DEF TablesInv, CoverInv
  <2>. QED
      BY <2>3, <2>4, <2>5 DEF CoverInv
<1>. QED
    BY <1>1, <1>2, <1>3, <1>4 DEF TablesInv

LEMMA TextKept ==
    ASSUME TablesInv, stage' \in {"done", "overrun", "panic", "written"},
           UNCHANGED <<cur, items, text_len, aotTables, arrived, calls>>
    PROVE  TablesInv'
<1>1. text_len' \in Nat /\ text_len <= text_len'
    BY DEF TablesInv, AotTypes, AotTypeOK
<1>. QED
    BY <1>1, TextOnly

LEMMA TablesInvKept ==
    ASSUME TablesInv, [WritersNext]_writerVars
    PROVE  TablesInv'
<1>1. CASE Compile
    BY <1>1, TablesInvNext DEF Compile
<1>2. ASSUME NEW name \in FuncNames, NEW n \in PeLengths, PeFunction(name, n)
      PROVE  TablesInv'
  <2>1. n \in Nat /\ text_len \in Nat
      BY WritersAssumption DEF WritersAssumption, TablesInv, AotTypes, AotTypeOK
  <2>2. text_len' \in Nat /\ text_len <= text_len'
      BY <1>2, <2>1 DEF PeFunction
  <2>3. stage = "idle" /\ stage' = "idle" /\ UNCHANGED <<cur, items, aotTables, arrived, calls>>
      BY <1>2 DEF PeFunction
  <2>. QED
      BY <2>2, <2>3, TextOnly
<1>3. ASSUME NEW how \in {"done", "overrun"}, Stop(how)
      PROVE  TablesInv'
    BY <1>3, TextKept DEF Stop
<1>4. ASSUME NEW f \in Formats, WriteFile(f)
      PROVE  TablesInv'
  <2>1. stage' = "written" /\ UNCHANGED <<cur, items, text_len, aotTables, arrived, calls>>
      BY <1>4 DEF WriteFile
  <2>. QED
      BY <2>1, TextKept
<1>5. CASE UNCHANGED writerVars
  <2>1. UNCHANGED aotVars
      BY <1>5 DEF writerVars
  <2>. QED
      BY <2>1, TablesInvNext
<1>. QED
    BY <1>1, <1>2, <1>3, <1>4, <1>5 DEF WritersNext, PeOverruns, PeEnd, WriteOverruns

-----------------------------------------------------------------------------
(* Names: no two functions share one, and each lies in the string table.   *)

NamesInv ==
    /\ \A i, j \in DOMAIN funcs : funcs[i].name = funcs[j].name => i = j
    /\ \A e \in symstr.at : e[1] + NameLen[e[2]] + 1 <= symstr.len

LEMMA StringAdded ==
    ASSUME TablesInv, NamesInv, NEW c \in Names, symstr' = StrAdd(symstr, c)
    PROVE  \A e \in symstr'.at : e[1] + NameLen[e[2]] + 1 <= symstr'.len
<1>1. /\ symstr'.at = symstr.at \cup {<<symstr.len, c>>}
      /\ symstr'.len = symstr.len + NameLen[c] + 1
      /\ NameLen[c] \in Nat /\ symstr.len \in Nat
  <2>1. NameLen[c] \in Nat
      BY AotAssumption DEF AotAssumption
  <2>2. symstr.len \in Nat
      BY DEF TablesInv, AotTypes, AotTypeOK
  <2>3. /\ symstr'.at = symstr.at \cup {<<symstr.len, c>>}
        /\ symstr'.len = symstr.len + (NameLen[c] + 1)
      BY DEF StrAdd
  <2>. QED
      BY <2>1, <2>2, <2>3
<1>2. ASSUME NEW e \in symstr.at
      PROVE  e[1] + NameLen[e[2]] + 1 <= symstr'.len
  <2>1. e[1] \in Nat /\ e[2] \in Names
      BY DEF TablesInv, AotTypes, AotTypeOK
  <2>2. NameLen[e[2]] \in Nat
      BY <2>1, AotAssumption DEF AotAssumption
  <2>3. e[1] + NameLen[e[2]] + 1 <= symstr.len
      BY DEF NamesInv
  <2>. QED
      BY <1>1, <2>1, <2>2, <2>3
<1>3. <<symstr.len, c>>[1] + NameLen[<<symstr.len, c>>[2]] + 1 <= symstr'.len
    BY <1>1
<1>. QED
    BY <1>1, <1>2, <1>3

LEMMA NamesInvNext ==
    ASSUME TablesInv, NamesInv, AotNext
    PROVE  NamesInv'
<1>1. CASE UNCHANGED <<funcs, symstr>>
    BY <1>1 DEF NamesInv
<1>2. ASSUME NEW c \in Names, Call(c)
      PROVE  NamesInv'
  <2>1. UNCHANGED funcs /\ (UNCHANGED symstr \/ symstr' = StrAdd(symstr, c))
      BY <1>2 DEF Call, DeclareExtern
  <2>2. \A e \in symstr'.at : e[1] + NameLen[e[2]] + 1 <= symstr'.len
      BY <2>1, StringAdded DEF NamesInv
  <2>. QED
      BY <2>1, <2>2 DEF NamesInv
<1>3. CASE EndFunc
  <2> DEFINE g == [name |-> cur.name, offset |-> cur.start, size |-> text_len - cur.start]
  <2>1. cur.name \in FuncNames /\ cur.name \in Names /\ cur.start \in Nat /\ text_len - cur.start \in Nat
      BY <1>3 DEF EndFunc, TablesInv, AotTypes, AotTypeOK, Names
  <2>2. /\ g \in [name : FuncNames, offset : Nat, size : Nat] /\ g.name = cur.name
        /\ funcs \in Seq([name : FuncNames, offset : Nat, size : Nat])
        /\ funcs' = Append(funcs, g) /\ symstr' = StrAdd(symstr, cur.name)
      BY <1>3, <2>1 DEF EndFunc, TablesInv, AotTypes, AotTypeOK
  <2>. HIDE DEF g
  <2>3. /\ DOMAIN funcs = 1 .. Len(funcs) /\ Len(funcs) \in Nat
        /\ DOMAIN funcs' = 1 .. Len(funcs) + 1
        /\ \A i \in DOMAIN funcs : funcs'[i] = funcs[i]
        /\ funcs'[Len(funcs) + 1] = g
      BY <2>2, Appended, Elements
  <2>4. \A i \in DOMAIN funcs : funcs[i].name # cur.name
      BY <1>3 DEF EndFunc, TablesInv, CoverInv
  <2>5. \A i \in DOMAIN funcs' : i \in DOMAIN funcs \/ i = Len(funcs) + 1
      BY <2>3
  <2>6. \A i, j \in DOMAIN funcs' : funcs'[i].name = funcs'[j].name => i = j
      BY <2>2, <2>3, <2>4, <2>5 DEF NamesInv
  <2>7. \A e \in symstr'.at : e[1] + NameLen[e[2]] + 1 <= symstr'.len
      BY <2>1, <2>2, StringAdded
  <2>. QED
      BY <2>6, <2>7 DEF NamesInv
<1>. QED
    BY <1>1, <1>2, <1>3
    DEF AotNext, BeginFunc, Instruction, CallPanics, CallOverruns, EndFuncPanics, EndFuncOverruns,
        EndModule, Stop, aotTables

-----------------------------------------------------------------------------
(* The functions and the exports of a PE context.                          *)

PeInv ==
    /\ backend \in {"aot", "exe", "dll"}
    /\ pe_funcs \in Seq([name : FuncNames, offset : Nat])
    /\ \A i, j \in DOMAIN pe_funcs : pe_funcs[i].name = pe_funcs[j].name => i = j
    /\ backend = "dll" =>
          /\ exports \in Seq([name : FuncNames, addr : Nat])
          /\ Len(exports) = Fewer(Len(pe_funcs), ExportCap)
          /\ \A i \in DOMAIN exports :
                exports[i] = [name |-> pe_funcs[i].name, addr |-> SA + pe_funcs[i].offset]

LEMMA PeInvFunction ==
    ASSUME TablesInv, PeInv, NEW name \in FuncNames, NEW n \in PeLengths, PeFunction(name, n)
    PROVE  PeInv'
<1> DEFINE g == [name |-> name, offset |-> text_len]
           e == [name |-> name, addr |-> SA + text_len]
<1>1. text_len \in Nat /\ SA \in Nat /\ ExportCap \in Nat
    BY WritersAssumption DEF WritersAssumption, TablesInv, AotTypes, AotTypeOK, SA
<1>2. /\ g \in [name : FuncNames, offset : Nat] /\ g.name = name /\ g.offset = text_len
      /\ e \in [name : FuncNames, addr : Nat] /\ e = [name |-> g.name, addr |-> SA + g.offset]
      /\ pe_funcs' = Append(pe_funcs, g) /\ backend' = backend
      /\ exports' = IF backend = "dll" /\ Len(exports) < ExportCap THEN Append(exports, e) ELSE exports
      /\ \A i \in DOMAIN pe_funcs : pe_funcs[i].name # name
    BY <1>1 DEF PeFunction
<1>. HIDE DEF g, e
<1>3. /\ DOMAIN pe_funcs = 1 .. Len(pe_funcs) /\ Len(pe_funcs) \in Nat
      /\ pe_funcs' \in Seq([name : FuncNames, offset : Nat])
      /\ Len(pe_funcs') = Len(pe_funcs) + 1
      /\ DOMAIN pe_funcs' = 1 .. Len(pe_funcs) + 1
      /\ \A i \in DOMAIN pe_funcs : pe_funcs'[i] = pe_funcs[i]
      /\ pe_funcs'[Len(pe_funcs) + 1] = g
    BY <1>2, Appended, Elements DEF PeInv
<1>4. \A i \in DOMAIN pe_funcs' : i \in DOMAIN pe_funcs \/ i = Len(pe_funcs) + 1
    BY <1>3
<1>5. \A i, j \in DOMAIN pe_funcs' : pe_funcs'[i].name = pe_funcs'[j].name => i = j
    BY <1>2, <1>3, <1>4 DEF PeInv
<1>6. ASSUME backend = "dll"
      PROVE  /\ exports' \in Seq([name : FuncNames, addr : Nat])
             /\ Len(exports') = Fewer(Len(pe_funcs'), ExportCap)
             /\ \A i \in DOMAIN exports' :
                   exports'[i] = [name |-> pe_funcs'[i].name, addr |-> SA + pe_funcs'[i].offset]
  <2>1. /\ exports \in Seq([name : FuncNames, addr : Nat])
        /\ Len(exports) = Fewer(Len(pe_funcs), ExportCap)
        /\ \A i \in DOMAIN exports :
              exports[i] = [name |-> pe_funcs[i].name, addr |-> SA + pe_funcs[i].offset]
      BY <1>6 DEF PeInv
  <2>2. DOMAIN exports = 1 .. Len(exports) /\ Len(exports) \in Nat
      BY <2>1, Elements
  <2>3. CASE Len(exports) < ExportCap
    <3>5. exports' = Append(exports, e) /\ e \in [name : FuncNames, addr : Nat]
        BY <1>2, <1>6, <2>3
    <3>1. Len(exports) = Len(pe_funcs)
      <4>1. Len(exports) = IF Len(pe_funcs) < ExportCap THEN Len(pe_funcs) ELSE ExportCap
          BY <2>1 DEF Fewer
      <4>2. Len(pe_funcs) \in Nat /\ Len(exports) \in Nat
          BY <1>3, <2>2
      <4>. QED
          BY <1>1, <2>3, <4>1, <4>2
    <3>2. /\ exports' \in Seq([name : FuncNames, addr : Nat])
          /\ Len(exports') = Len(exports) + 1
          /\ DOMAIN exports' = 1 .. Len(exports) + 1
          /\ \A i \in DOMAIN exports : exports'[i] = exports[i]
          /\ exports'[Len(exports) + 1] = e
        BY <2>1, <3>5, Appended
    <3>3. Len(exports') = Fewer(Len(pe_funcs'), ExportCap)
        BY <1>1, <1>3, <2>2, <2>3, <3>1, <3>2 DEF Fewer
    <3>4. ASSUME NEW i \in DOMAIN exports'
          PROVE  exports'[i] = [name |-> pe_funcs'[i].name, addr |-> SA + pe_funcs'[i].offset]
      <4>1. CASE i \in DOMAIN exports
        <5>1. i \in DOMAIN pe_funcs
            BY <1>3, <2>2, <3>1, <4>1
        <5>. QED
            BY <1>3, <2>1, <3>2, <4>1, <5>1
      <4>2. CASE i = Len(exports) + 1
          BY <1>2, <1>3, <3>1, <3>2, <4>2
      <4>. QED
          BY <2>2, <3>2, <4>1, <4>2
    <3>. QED
        BY <3>2, <3>3, <3>4
  <2>4. CASE ~(Len(exports) < ExportCap)
    <3>1. exports' = exports
        BY <1>2, <2>4
    <3>2. Len(exports) = ExportCap /\ Len(pe_funcs) >= ExportCap
        BY <1>1, <1>3, <2>1, <2>2, <2>4 DEF Fewer
    <3>3. Len(exports') = Fewer(Len(pe_funcs'), ExportCap)
        BY <1>1, <1>3, <3>1, <3>2 DEF Fewer
    <3>4. \A i \in DOMAIN exports : i \in DOMAIN pe_funcs
        BY <1>1, <1>3, <2>2, <3>2
    <3>. QED
        BY <1>3, <2>1, <3>1, <3>3, <3>4
  <2>. QED
      BY <2>3, <2>4
<1>. QED
    BY <1>2, <1>3, <1>5, <1>6 DEF PeInv


-----------------------------------------------------------------------------
(* The invariant of the writers, and the step in which a file is written.  *)

WritersInv == TablesInv /\ NamesInv /\ PeInv

LEMMA WritersInvInit == WritersInit => WritersInv
<1> SUFFICES ASSUME WritersInit PROVE WritersInv
    OBVIOUS
<1>1. TablesInv
    BY TablesInvInit DEF WritersInit
<1>2. NamesInv
  <2>1. funcs = << >> /\ symstr.at = {}
      BY DEF WritersInit, AotInit, EmptyStr
  <2>. QED
      BY <2>1 DEF NamesInv
<1>3. PeInv
  <2>1. /\ pe_funcs = << >> /\ exports = << >> /\ Len(pe_funcs) = 0 /\ Len(exports) = 0
        /\ backend \in {"aot", "exe", "dll"}
      BY DEF WritersInit
  <2>2. Fewer(0, ExportCap) = 0
      BY WritersAssumption DEF WritersAssumption, Fewer
  <2>. QED
      BY <2>1, <2>2 DEF PeInv
<1>. QED
    BY <1>1, <1>2, <1>3 DEF WritersInv

LEMMA WritersInvNext ==
    ASSUME WritersInv, [WritersNext]_writerVars
    PROVE  WritersInv'
<1>1. TablesInv /\ NamesInv /\ PeInv /\ TablesInv'
    BY TablesInvKept DEF WritersInv
<1>2. CASE Compile
  <2>1. NamesInv'
      BY <1>1, <1>2, NamesInvNext DEF Compile
  <2>2. PeInv'
      BY <1>1, <1>2 DEF Compile, PeInv
  <2>. QED
      BY <1>1, <2>1, <2>2 DEF WritersInv
<1>3. ASSUME NEW name \in FuncNames, NEW n \in PeLengths, PeFunction(name, n)
      PROVE  WritersInv'
  <2>1. NamesInv'
      BY <1>1, <1>3 DEF PeFunction, aotTables, NamesInv
  <2>. QED
      BY <1>1, <1>3, <2>1, PeInvFunction DEF WritersInv
<1>4. ASSUME UNCHANGED <<aotTables, backend, pe_funcs, exports>>
      PROVE  WritersInv'
    BY <1>1, <1>4 DEF aotTables, NamesInv, PeInv, WritersInv
<1>5. ASSUME NEW f \in Formats, WriteFile(f)
      PROVE  WritersInv'
  <2>1. UNCHANGED <<aotTables, backend, pe_funcs>>
      BY <1>5 DEF WriteFile
  <2>2. NamesInv'
      BY <1>1, <2>1 DEF aotTables, NamesInv
  <2>3. PeInv'
    <3>1. backend = "dll" => exports' = exports
        BY <1>5 DEF WriteFile, Target, IsExec
    <3>. QED
        BY <1>1, <2>1, <3>1 DEF PeInv
  <2>. QED
      BY <1>1, <2>2, <2>3 DEF WritersInv
<1>. QED
    BY <1>2, <1>3, <1>4, <1>5
    DEF WritersNext, PeOverruns, PeEnd, WriteOverruns, Stop, writerVars, aotVars, outVars

LEMMA WhenWritten ==
    ASSUME [WritersNext]_writerVars, stage' = "written"
    PROVE  UNCHANGED writerVars \/ \E f \in Formats : WriteFile(f)
<1>1. CASE Compile
    BY <1>1
    DEF Compile, AotNext, BeginFunc, Instruction, MoreItems, Call, CallPanics, CallOverruns, Stop,
        EndFunc, EndFuncPanics, EndFuncOverruns, EndModule
<1>2. ASSUME NEW name \in FuncNames, NEW n \in PeLengths, PeFunction(name, n)
      PROVE  FALSE
    BY <1>2 DEF PeFunction
<1>. QED
    BY <1>1, <1>2 DEF WritersNext, PeOverruns, PeEnd, WriteOverruns, Stop

(* The layouts of the formats, one by one. *)
LEMMA LayoutOf ==
    /\ Layout("obj") = LayoutObj /\ Layout("kernel") = LayoutKernel
    /\ \A f \in {"dyn", "so", "static"} : Layout(f) = LayoutExec(f)
    /\ \A f \in {"exe", "dll"} : Layout(f) = LayoutPE(f)
BY DEF Layout, IsExec, IsPE

LEMMA Numbers ==
    ASSUME WritersInv
    PROVE  /\ text_len \in Nat /\ Len(syms) \in Nat /\ symstr.len \in Nat /\ Len(relocs) \in Nat
           /\ Len(funcs) \in Nat /\ ExportCap \in Nat /\ SymBytes \in Nat
<1>1. /\ text_len \in Nat /\ Len(syms) \in Nat /\ symstr.len \in Nat /\ Len(relocs) \in Nat
      /\ Len(funcs) \in Nat
    BY LenProperties DEF WritersInv, TablesInv, AotTypes, AotTypeOK
<1>2. ExportCap \in Nat
    BY WritersAssumption DEF WritersAssumption
<1>. QED
    BY <1>1, <1>2 DEF SymBytes, Fewer

-----------------------------------------------------------------------------
(* Headers.                                                                *)

LEMMA PieceFields ==
    \A w, n, k : Piece(w, n, k).what = w /\ Piece(w, n, k).at = n /\ Piece(w, n, k).size = k
BY DEF Piece

LEMMA MagicWrong == ExecMagic # "magic"
BY DEF ExecMagic

LEMMA HeadersOf ==
    ASSUME WritersInv, NEW f \in Formats, NEW p \in Layout(f).pieces
    PROVE  p \in Written(Layout(f).ops).pieces <=> ~Misplaced(f, p.what)
<1>1. CASE f = "obj"
  <2>1. ~Misplaced(f, p.what)
      BY <1>1 DEF Misplaced, IsPE, IsExec
  <2>. QED
      BY <1>1, <2>1, LayoutOf, Numbers, ObjFile
<1>2. CASE f = "kernel"
  <2>1. ~Misplaced(f, p.what)
      BY <1>2 DEF Misplaced, IsPE, IsExec
  <2>2. /\ Layout(f).pieces = {Piece("magic", 0, 4), Piece("phdrs", 64, 56)}
        /\ {Piece("magic", 0, 4), Piece("phdrs", 64, 56)} \subseteq Written(Layout(f).ops).pieces
      BY <1>2, LayoutOf, Numbers, KernelFile
  <2>. QED
      BY <2>1, <2>2
<1>3. CASE f \in {"dyn", "so"}
  <2>1. Misplaced(f, p.what) <=> p.what \in {"magic", "shdrs"}
      BY <1>3 DEF Misplaced, IsPE, IsExec
  <2> DEFINE W == Written(LayoutExec(f).ops).pieces
  <2>9. Layout(f) = LayoutExec(f) /\ text_len \in Nat /\ SymBytes \in Nat
      BY <1>3, LayoutOf, Numbers
  <2>2. /\ LayoutExec(f).pieces = {Piece("magic", 0, 4), Piece("phdrs", 64, 280), Piece("text", 4096, text_len),
                               Piece("shstrtab", DynNames, 17), Piece("shdrs", DynHeaders, 192),
                               Piece("interp", 344, 28), Piece("dynamic", DynAt, 96)}
        /\ W = {Piece(ExecMagic, 0, 4), Piece("ehdr", 4, 60), Piece("phdrs", 64, 280),
                Piece("interp", 344, 28), Piece("text", 4096, text_len), Piece("dynamic", DynAt, 96),
                Piece("dynstr", DynAt + 96, 11), Piece("dynsym", DynAt + 112, SymBytes),
                Piece("shstrtab", DynNames, 17), Piece("shdrs", DynHeaders, 240)}
      BY <1>3, <2>9, DynamicFile
  <2>. HIDE DEF W
  <2>3. /\ Piece("phdrs", 64, 280) \in W /\ Piece("text", 4096, text_len) \in W
        /\ Piece("shstrtab", DynNames, 17) \in W /\ Piece("interp", 344, 28) \in W
        /\ Piece("dynamic", DynAt, 96) \in W
      BY <2>2
  <2>4. Piece("magic", 0, 4) \notin W
      BY <2>2, PieceFields, MagicWrong
  <2>5. Piece("shdrs", DynHeaders, 192) \notin W
      BY <2>2, PieceFields, MagicWrong
  <2>6. p \in W <=> ~Misplaced(f, p.what)
      BY <2>1, <2>2, <2>3, <2>4, <2>5, <2>9, PieceFields
  <2>. QED
      BY <2>6, <2>9 DEF W
<1>4. CASE f = "static"
  <2>1. Misplaced(f, p.what) <=> p.what \in {"magic", "shdrs", "shstrtab"}
      BY <1>4 DEF Misplaced, IsPE, IsExec
  <2> DEFINE W == Written(LayoutExec("static").ops).pieces
  <2>9. Layout(f) = LayoutExec("static") /\ text_len \in Nat /\ SymBytes \in Nat
      BY <1>4, LayoutOf, Numbers
  <2>2. /\ LayoutExec("static").pieces = {Piece("magic", 0, 4), Piece("phdrs", 64, 112), Piece("text", 4096, text_len),
                               Piece("shstrtab", StaticNames, 17), Piece("shdrs", StaticHeaders, 192)}
        /\ W = {Piece(ExecMagic, 0, 4), Piece("ehdr", 4, 60), Piece("phdrs", 64, 112),
                Piece("interp", 176, 0), Piece("text", 4096, text_len),
                Piece("shstrtab", DynAt, 17), Piece("shdrs", StaticHeaders, 240)}
        /\ DynAt \in Nat /\ DynAt < StaticNames
      BY <1>4, <2>9, StaticFile
  <2>. HIDE DEF W
  <2>3. Piece("phdrs", 64, 112) \in W /\ Piece("text", 4096, text_len) \in W
      BY <2>2
  <2>4. Piece("magic", 0, 4) \notin W
      BY <2>2, PieceFields, MagicWrong
  <2>5. Piece("shdrs", StaticHeaders, 192) \notin W
      BY <2>2, PieceFields, MagicWrong
  <2>6. Piece("shstrtab", StaticNames, 17) \notin W
      BY <2>2, PieceFields, MagicWrong
  <2>7. p \in W <=> ~Misplaced(f, p.what)
      BY <2>1, <2>2, <2>3, <2>4, <2>5, <2>6, <2>9, PieceFields
  <2>. QED
      BY <2>7, <2>9 DEF W
<1>5. CASE f \in {"exe", "dll"}
  <2>1. Misplaced(f, p.what) <=> p.what \in {"text", "rdata", "data"}
      BY <1>5 DEF Misplaced, IsPE, IsExec
  <2> DEFINE W == Written(LayoutPE(f).ops).pieces
  <2>9. Layout(f) = LayoutPE(f) /\ text_len \in Nat /\ SymBytes \in Nat
      BY <1>5, LayoutOf, Numbers
  <2>2. /\ LayoutPE(f).pieces = {Piece("magic", 0, 4), Piece("sig", 124, 4), Piece("sections", 388, 120),
                               Piece("text", 1024, text_len), Piece("rdata", 1024 + TextSectors, ImportBytes(f)),
                               Piece("data", 1024 + TextSectors + 4608, 512)}
        /\ W = {Piece("magic", 0, 4), Piece("dos", 4, 60), Piece("stub", 64, 60), Piece("sig", 124, 4),
                Piece("coff", 128, 20), Piece("optional", 148, 240), Piece("sections", 388, 120),
                Piece("text", 512, text_len), Piece("rdata", 512 + TextSectors, ImportBytes(f)),
                Piece("data", 1024 + TextSectors, 512)}
        /\ TextSectors \in Nat
      BY <1>5, <2>9, PEFile
  <2>. HIDE DEF W
  <2>3. Piece("magic", 0, 4) \in W /\ Piece("sig", 124, 4) \in W /\ Piece("sections", 388, 120) \in W
      BY <2>2
  <2>4. Piece("text", 1024, text_len) \notin W
      BY <2>2, PieceFields
  <2>5. Piece("rdata", 1024 + TextSectors, ImportBytes(f)) \notin W
      BY <2>2, PieceFields
  <2>6. Piece("data", 1024 + TextSectors + 4608, 512) \notin W
      BY <2>2, PieceFields
  <2>7. p \in W <=> ~Misplaced(f, p.what)
      BY <2>1, <2>2, <2>3, <2>4, <2>5, <2>6, <2>9, PieceFields
  <2>. QED
      BY <2>7, <2>9 DEF W
<1>. QED
    BY <1>1, <1>2, <1>3, <1>4, <1>5 DEF Formats

(* Whatever was compiled, each writer puts what its headers describe where *)
(* they say, except the pieces that Misplaced lists, and those never.      *)
THEOREM HeadersAreRight == WritersSpec => []HeadersDescribeFile
<1>1. WritersInit => WritersInv /\ HeadersDescribeFile
    BY WritersInvInit DEF WritersInit, AotInit, HeadersDescribeFile
<1>2. ASSUME WritersInv, HeadersDescribeFile, [WritersNext]_writerVars
      PROVE  HeadersDescribeFile'
  <2>1. CASE stage' # "written"
      BY <2>1 DEF HeadersDescribeFile
  <2>2. CASE UNCHANGED writerVars
      BY <1>2, <2>2 DEF HeadersDescribeFile, writerVars, outVars, aotVars
  <2>3. ASSUME NEW f \in Formats, WriteFile(f)
        PROVE  HeadersDescribeFile'
    <3>1. layout' = Layout(f) /\ file' = Written(Layout(f).ops) /\ fmt' = f
        BY <2>3 DEF WriteFile
    <3>2. \A p \in layout'.pieces : p \in file'.pieces <=> ~Misplaced(fmt', p.what)
        BY <1>2, <3>1, HeadersOf
    <3>. QED
        BY <3>2 DEF HeadersDescribeFile, Misplaced, IsPE, IsExec
  <2>. QED
      BY <1>2, <2>1, <2>2, <2>3, WhenWritten
<1>3. WritersInv /\ HeadersDescribeFile /\ [WritersNext]_writerVars
          => WritersInv' /\ HeadersDescribeFile'
    BY <1>2, WritersInvNext
<1>. QED
    BY <1>1, <1>3, PTL DEF WritersSpec


-----------------------------------------------------------------------------
(* What is loaded.                                                         *)

LEMMA LoadFields ==
    \A a, m, n : Load(a, m, n).at = a /\ Load(a, m, n).mem = m /\ Load(a, m, n).size = n
BY DEF Load

LEMMA ExecNumbers ==
    ASSUME WritersInv
    PROVE  /\ TextPages \in Nat /\ text_len <= TextPages /\ DynAt \in Nat /\ DynAt = 8192 + TextPages
           /\ DynNames \in Nat /\ DynHeaders \in Nat /\ DynAt + 112 <= DynNames
           /\ DynNames + 17 <= DynHeaders
           /\ StaticNames \in Nat /\ StaticHeaders \in Nat /\ DynAt + 8 <= StaticNames
           /\ StaticNames + 17 <= StaticHeaders
<1>1. text_len \in Nat /\ SymBytes \in Nat
    BY Numbers
<1>2. TextPages \in Nat /\ text_len <= TextPages /\ AlignUp(SymBytes, 8) \in Nat
    BY <1>1, AlignedTo DEF Aligned, TextPages
<1>3. DynAt \in Nat /\ DynAt = 8192 + TextPages
    BY <1>2 DEF DynAt
<1>4. DynNames \in Nat /\ DynAt + 112 <= DynNames /\ StaticNames \in Nat /\ DynAt + 8 <= StaticNames
    BY <1>2, <1>3 DEF DynNames, StaticNames
<1>5. Aligned(DynNames + 17, 8) /\ Aligned(StaticNames + 17, 8)
    BY <1>4, AlignedTo
<1>. QED
    BY <1>2, <1>3, <1>4, <1>5 DEF Aligned, DynHeaders, StaticHeaders

LEMMA PeNumbers ==
    ASSUME WritersInv
    PROVE  \E m, k \in Nat :
              TextSectors = 512 * m /\ TextPages = 4096 * k /\ TextSectors <= TextPages
              /\ text_len <= TextSectors
<1>1. text_len \in Nat
    BY Numbers
<1>2. Aligned(text_len, 512) /\ Aligned(text_len, 4096)
    BY <1>1, AlignedTo
<1>3. PICK m \in Nat : TextSectors = 512 * m /\ text_len <= 512 * m /\ 512 * m < text_len + 512
    BY <1>2 DEF Aligned, TextSectors
<1>4. PICK k \in Nat : TextPages = 4096 * k /\ text_len <= 4096 * k
    BY <1>2 DEF Aligned, TextPages
<1>5. 512 * m <= 4096 * k
    BY <1>1, <1>3, <1>4
<1>. QED
    BY <1>3, <1>4, <1>5

(* The loads of a format: as SegmentsLoadable says of what is written.     *)
Loadable(f, loads, image, size) ==
    /\ \A l \in loads :
          /\ IF IsPE(f) THEN l.at % FA = 0 /\ l.mem % SA = 0 ELSE l.at % PAGE = l.mem % PAGE
          /\ l.mem + l.size <= image
    /\ \A k, l \in loads :
          k.mem < l.mem => (k.mem + k.size - 1) \div PAGE < l.mem \div PAGE
    /\ f # "obj" => \E l \in loads : l.size >= text_len
    /\ (\A l \in loads : l.at + l.size <= size) <=> ~IsPE(f)

(* The two loads of an executable. *)
LEMMA ExecLoadable ==
    ASSUME WritersInv, NEW f, ~IsPE(f), NEW b \in Nat, NEW size \in Nat, DynAt <= size
    PROVE  Loadable(f, {Load(0, 4096 * b, 4096), Load(4096, 4096 * b + 8192, TextPages)},
                    4096 * b + 8192 + TextPages, size)
<1> DEFINE one == Load(0, 4096 * b, 4096)
           two == Load(4096, 4096 * b + 8192, TextPages)
<1>1. /\ one.at = 0 /\ one.mem = 4096 * b /\ one.size = 4096
      /\ two.at = 4096 /\ two.mem = 4096 * b + 8192 /\ two.size = TextPages
    BY LoadFields
<1>2. TextPages \in Nat /\ text_len <= TextPages /\ DynAt = 8192 + TextPages /\ text_len \in Nat
    BY ExecNumbers, Numbers
<1>. HIDE DEF one, two
<1>3. /\ one.at % 4096 = one.mem % 4096 /\ two.at % 4096 = two.mem % 4096
      /\ one.mem + one.size <= 4096 * b + 8192 + TextPages
      /\ two.mem + two.size <= 4096 * b + 8192 + TextPages
  <2>1. (4096 * b) % 4096 = 0 /\ (4096 * b + 8192) % 4096 = 0
      OBVIOUS
  <2>. QED
      BY <1>1, <1>2, <2>1
<1>4. ~(two.mem < one.mem) /\ ~(one.mem < one.mem) /\ ~(two.mem < two.mem)
    BY <1>1
<1>5. (one.mem + one.size - 1) \div 4096 < two.mem \div 4096
  <2>1. (4096 * b + 4096 - 1) \div 4096 = b /\ (4096 * b + 8192) \div 4096 = b + 2
      OBVIOUS
  <2>. QED
      BY <1>1, <2>1
<1>6. two.size >= text_len /\ one.at + one.size <= size /\ two.at + two.size <= size
    BY <1>1, <1>2
<1>7. \A k, l \in {one, two} : k.mem < l.mem => k = one /\ l = two
    BY <1>4
<1>. QED
    BY <1>3, <1>5, <1>6, <1>7 DEF Loadable, PAGE, one, two

(* The three loads of a PE file, the last beyond its end. *)
LEMMA PeLoadable ==
    ASSUME WritersInv, NEW f, IsPE(f)
    PROVE  Loadable(f, {Load(1024, 4096, TextSectors), Load(1024 + TextSectors, 4096 + TextPages, 4608),
                        Load(1024 + TextSectors + 4608, 4096 + TextPages + 8192, 512)},
                    4096 + TextPages + 8192 + 4096, 1536 + TextSectors)
<1> DEFINE one == Load(1024, 4096, TextSectors)
           two == Load(1024 + TextSectors, 4096 + TextPages, 4608)
           three == Load(1024 + TextSectors + 4608, 4096 + TextPages + 8192, 512)
<1>1. /\ one.at = 1024 /\ one.mem = 4096 /\ one.size = TextSectors
      /\ two.at = 1024 + TextSectors /\ two.mem = 4096 + TextPages /\ two.size = 4608
      /\ three.at = 1024 + TextSectors + 4608 /\ three.mem = 4096 + TextPages + 8192 /\ three.size = 512
    BY LoadFields
<1>2. PICK m, k \in Nat :
          TextSectors = 512 * m /\ TextPages = 4096 * k /\ 512 * m <= 4096 * k /\ text_len <= 512 * m
    BY PeNumbers
<1>3. text_len \in Nat
    BY Numbers
<1>. HIDE DEF one, two, three
<1>4. /\ one.at = 512 * 2 /\ two.at = 512 * (m + 2) /\ three.at = 512 * (m + 11)
      /\ one.mem = 4096 * 1 /\ two.mem = 4096 * (k + 1) /\ three.mem = 4096 * (k + 3)
      /\ one.size = 512 * m /\ two.size = 4608 /\ three.size = 512
    BY <1>1, <1>2
<1>5. /\ one.at % 512 = 0 /\ two.at % 512 = 0 /\ three.at % 512 = 0
      /\ one.mem % 4096 = 0 /\ two.mem % 4096 = 0 /\ three.mem % 4096 = 0
  <2>1. \A x \in Nat : (512 * x) % 512 = 0 /\ (4096 * x) % 4096 = 0
      OBVIOUS
  <2>2. m + 2 \in Nat /\ m + 11 \in Nat /\ k + 1 \in Nat /\ k + 3 \in Nat /\ 1 \in Nat /\ 2 \in Nat
      OBVIOUS
  <2>. QED
      BY <1>4, <2>1, <2>2
<1>6. /\ one.mem + one.size <= 4096 + TextPages + 8192 + 4096
      /\ two.mem + two.size <= 4096 + TextPages + 8192 + 4096
      /\ three.mem + three.size <= 4096 + TextPages + 8192 + 4096
    BY <1>2, <1>4
<1>7. /\ (one.mem + one.size - 1) \div 4096 <= k
      /\ (two.mem + two.size - 1) \div 4096 <= k + 2
      /\ one.mem \div 4096 = 1 /\ two.mem \div 4096 = k + 1 /\ three.mem \div 4096 = k + 3
  <2>1. (4096 + 512 * m - 1) \div 4096 <= k
      BY <1>2
  <2>2. (4096 * (k + 1) + 4608 - 1) \div 4096 <= k + 2
      OBVIOUS
  <2>3. (4096 * 1) \div 4096 = 1 /\ (4096 * (k + 1)) \div 4096 = k + 1
        /\ (4096 * (k + 3)) \div 4096 = k + 3
      OBVIOUS
  <2>. QED
      BY <1>4, <2>1, <2>2, <2>3
<1>8. /\ one.mem < two.mem => (one.mem + one.size - 1) \div 4096 < two.mem \div 4096
      /\ (one.mem + one.size - 1) \div 4096 < three.mem \div 4096
      /\ (two.mem + two.size - 1) \div 4096 < three.mem \div 4096
  <2> DEFINE i == (one.mem + one.size - 1) \div 4096
             j == (two.mem + two.size - 1) \div 4096
  <2>1. i \in Int /\ j \in Int
      BY <1>4
  <2>2. i <= k /\ j <= k + 2
      BY <1>7
  <2>. HIDE DEF i, j
  <2>3. i < k + 1 /\ i < k + 3 /\ j < k + 3
      BY <2>1, <2>2
  <2>. QED
      BY <1>7, <2>3 DEF i, j
<1>9. ~(two.mem < one.mem) /\ ~(three.mem < one.mem) /\ ~(three.mem < two.mem)
      /\ ~(one.mem < one.mem) /\ ~(two.mem < two.mem) /\ ~(three.mem < three.mem)
    BY <1>4
<1>10. \A p, q \in {one, two, three} :
          p.mem < q.mem => (p.mem + p.size - 1) \div 4096 < q.mem \div 4096
    BY <1>8, <1>9
<1>11. one.size >= text_len /\ ~(three.at + three.size <= 1536 + TextSectors)
    BY <1>2, <1>3, <1>4
<1>. QED
    BY <1>5, <1>6, <1>10, <1>11 DEF Loadable, PAGE, FA, SA, one, two, three

LEMMA SegmentsOf ==
    ASSUME WritersInv, NEW f \in Formats
    PROVE  Loadable(f, Layout(f).loads, Layout(f).image, Written(Layout(f).ops).size)
<1>0. text_len \in Nat /\ SymBytes \in Nat
    BY Numbers
<1>1. CASE f = "obj"
  <2>1. Layout(f).loads = {} /\ ~IsPE(f)
      BY <1>1, LayoutOf DEF LayoutObj, IsPE
  <2>. QED
      BY <1>1, <2>1 DEF Loadable
<1>2. CASE f = "kernel"
  <2>1. /\ Layout(f).loads = {Load(0, KernelBase, 144 + text_len)}
        /\ Layout(f).image = KernelBase + 144 + text_len /\ Written(Layout(f).ops).size = 144 + text_len
    <3>1. Layout(f) = LayoutKernel
        BY <1>2, LayoutOf
    <3>. QED
        BY <1>0, <3>1, KernelFile
  <2>2. KernelBase \in Nat /\ KernelBase % 4096 = 0
      BY DEF KernelBase
  <2> DEFINE l == Load(0, KernelBase, 144 + text_len)
  <2>3. l.at = 0 /\ l.mem = KernelBase /\ l.size = 144 + text_len
      BY LoadFields
  <2>4. ~IsPE(f)
      BY <1>2 DEF IsPE
  <2>. HIDE DEF l
  <2>5. /\ l.at % 4096 = l.mem % 4096 /\ l.mem + l.size <= KernelBase + 144 + text_len
        /\ ~(l.mem < l.mem) /\ l.size >= text_len /\ l.at + l.size <= 144 + text_len
      BY <1>0, <2>2, <2>3
  <2>6. Loadable(f, {l}, KernelBase + 144 + text_len, 144 + text_len)
      BY <2>4, <2>5 DEF Loadable, PAGE
  <2>. QED
      BY <2>1, <2>6 DEF l
<1>3. CASE f \in {"dyn", "so"}
  <2>1. /\ LayoutExec(f).loads = {Load(0, 0, 4096), Load(4096, 8192, TextPages)}
        /\ LayoutExec(f).image = 8192 + TextPages /\ Written(LayoutExec(f).ops).size = DynHeaders + 240
      BY <1>0, <1>3, DynamicFile
  <2>2. DynHeaders + 240 \in Nat /\ DynAt <= DynHeaders + 240
      BY ExecNumbers
  <2>3. ~IsPE(f) /\ Layout(f) = LayoutExec(f)
      BY <1>3, LayoutOf DEF IsPE
  <2>4. Loadable(f, {Load(0, 4096 * 0, 4096), Load(4096, 4096 * 0 + 8192, TextPages)},
                 4096 * 0 + 8192 + TextPages, DynHeaders + 240)
      BY <2>2, <2>3, ExecLoadable
  <2>5. 4096 * 0 = 0 /\ 0 + 8192 = 8192
      OBVIOUS
  <2>. QED
      BY <2>1, <2>3, <2>4, <2>5
<1>4. CASE f = "static"
  <2>1. /\ LayoutExec("static").loads =
              {Load(0, Base("static"), 4096), Load(4096, VaText("static"), TextPages)}
        /\ LayoutExec("static").image = VaText("static") + TextPages
        /\ Written(LayoutExec("static").ops).size = StaticHeaders + 240
      BY <1>0, StaticFile
  <2>2. StaticHeaders + 240 \in Nat /\ DynAt <= StaticHeaders + 240
      BY ExecNumbers
  <2>3. ~IsPE(f) /\ Layout(f) = LayoutExec("static")
      BY <1>4, LayoutOf DEF IsPE
  <2>4. PICK b \in Nat : b = 1024
      OBVIOUS
  <2>5. Base("static") = 4096 * b /\ VaText("static") = 4096 * b + 8192
      BY <2>4 DEF Base, VaText, PAGE
  <2>6. Loadable(f, {Load(0, 4096 * b, 4096), Load(4096, 4096 * b + 8192, TextPages)},
                 4096 * b + 8192 + TextPages, StaticHeaders + 240)
      BY <2>2, <2>3, ExecLoadable
  <2>. QED
      BY <2>1, <2>3, <2>5, <2>6
<1>5. CASE f \in {"exe", "dll"}
  <2>1. /\ LayoutPE(f).loads = {Load(1024, 4096, TextSectors),
                                Load(1024 + TextSectors, 4096 + TextPages, 4608),
                                Load(1024 + TextSectors + 4608, 4096 + TextPages + 8192, 512)}
        /\ LayoutPE(f).image = 4096 + TextPages + 8192 + 4096
        /\ Written(LayoutPE(f).ops).size = 1536 + TextSectors
      BY <1>0, <1>5, PEFile
  <2>2. IsPE(f) /\ Layout(f) = LayoutPE(f)
      BY <1>5, LayoutOf DEF IsPE
  <2>. QED
      BY <2>1, <2>2, PeLoadable
<1>. QED
    BY <1>1, <1>2, <1>3, <1>4, <1>5 DEF Formats

(* Whatever was compiled, a loader finds each range aligned, apart and in  *)
(* the image, the text whole, and in the file all but the last sections of *)
(* a PE file.                                                              *)
THEOREM SegmentsAreRight == WritersSpec => []SegmentsLoadable
<1>1. WritersInit => WritersInv /\ SegmentsLoadable
    BY WritersInvInit DEF WritersInit, AotInit, SegmentsLoadable
<1>2. ASSUME WritersInv, SegmentsLoadable, [WritersNext]_writerVars
      PROVE  SegmentsLoadable'
  <2>1. CASE stage' # "written"
      BY <2>1 DEF SegmentsLoadable
  <2>2. CASE UNCHANGED writerVars
      BY <1>2, <2>2 DEF SegmentsLoadable, writerVars, outVars, aotVars
  <2>3. ASSUME NEW f \in Formats, WriteFile(f)
        PROVE  SegmentsLoadable'
    <3>1. /\ layout' = Layout(f) /\ file' = Written(Layout(f).ops) /\ fmt' = f
          /\ text_len' = text_len
        BY <2>3 DEF WriteFile
    <3>2. Loadable(fmt', layout'.loads, layout'.image, file'.size)
        BY <1>2, <3>1, SegmentsOf
    <3>. QED
        BY <3>1, <3>2 DEF SegmentsLoadable, Loadable
  <2>. QED
      BY <1>2, <2>1, <2>2, <2>3, WhenWritten
<1>3. WritersInv /\ SegmentsLoadable /\ [WritersNext]_writerVars
          => WritersInv' /\ SegmentsLoadable'
    BY <1>2, WritersInvNext
<1>. QED
    BY <1>1, <1>3, PTL DEF WritersSpec


-----------------------------------------------------------------------------
(* Addresses.                                                              *)

Holds(l, addr) == l.mem <= addr /\ addr < l.mem + l.size
LoadedAt(loads, addr) ==
    IF \E l \in loads : Holds(l, addr)
    THEN LET l == CHOOSE l \in loads : Holds(l, addr) IN l.at + (addr - l.mem)
    ELSE -1
PlaceOf(pieces, what) == (CHOOSE p \in pieces : p.what = what).at

LEMMA LoadedIn ==
    ASSUME NEW loads, NEW addr, NEW l \in loads, Holds(l, addr), \A k \in loads : Holds(k, addr) => k = l
    PROVE  LoadedAt(loads, addr) = l.at + (addr - l.mem)
BY DEF LoadedAt

LEMMA LoadedNowhere ==
    ASSUME NEW loads, NEW addr, \A l \in loads : ~Holds(l, addr)
    PROVE  LoadedAt(loads, addr) = -1
BY DEF LoadedAt

LEMMA PlaceIs ==
    ASSUME NEW pieces, NEW p \in pieces, \A q \in pieces : q.what = p.what => q = p
    PROVE  PlaceOf(pieces, p.what) = p.at
BY DEF PlaceOf

LEMMA AddressFields ==
    \A k, a, w, o : /\ Address(k, a, w, o).kind = k /\ Address(k, a, w, o).addr = a
                    /\ Address(k, a, w, o).what = w /\ Address(k, a, w, o).off = o
BY DEF Address

Leads(a, L) == LoadedAt(L.loads, a.addr) = PlaceOf(Written(L.ops).pieces, a.what) + a.off

LEMMA DynamicLeads ==
    ASSUME WritersInv, text_len > 0, NEW f \in {"dyn", "so"}, NEW a \in LayoutExec(f).addresses
    PROVE  Leads(a, LayoutExec(f)) <=> ~Astray(f, a.kind)
<1> DEFINE W == Written(LayoutExec(f).ops).pieces
           loads == LayoutExec(f).loads
           one == Load(0, 0, 4096)
           two == Load(4096, 8192, TextPages)
<1>1. text_len \in Nat /\ SymBytes \in Nat
    BY Numbers
<1>2. /\ loads = {one, two}
      /\ LayoutExec(f).addresses = {Address("entry", 8192, "text", 0),
                                    Address("dynamic", 8192 + TextPages + 4096, "dynamic", 0),
                                    Address("dynamic", 8192 + TextPages + 4096 + 4096, "dynstr", 0)}
      /\ W = {Piece(ExecMagic, 0, 4), Piece("ehdr", 4, 60), Piece("phdrs", 64, 280),
              Piece("interp", 344, 28), Piece("text", 4096, text_len), Piece("dynamic", DynAt, 96),
              Piece("dynstr", DynAt + 96, 11), Piece("dynsym", DynAt + 112, SymBytes),
              Piece("shstrtab", DynNames, 17), Piece("shdrs", DynHeaders, 240)}
    BY <1>1, DynamicFile
<1>3. /\ one.at = 0 /\ one.mem = 0 /\ one.size = 4096
      /\ two.at = 4096 /\ two.mem = 8192 /\ two.size = TextPages
    BY LoadFields
<1>4. TextPages \in Nat /\ 0 < TextPages /\ DynAt \in Nat
    BY <1>1, ExecNumbers
<1>5. ExecMagic \notin {"text", "dynamic", "dynstr"}
    BY DEF ExecMagic
<1>. HIDE DEF W, loads, one, two
<1>6. PlaceOf(W, "text") = 4096 /\ PlaceOf(W, "dynamic") = DynAt /\ PlaceOf(W, "dynstr") = DynAt + 96
  <2>1. /\ \A q \in W : q.what = "text" => q = Piece("text", 4096, text_len)
        /\ \A q \in W : q.what = "dynamic" => q = Piece("dynamic", DynAt, 96)
        /\ \A q \in W : q.what = "dynstr" => q = Piece("dynstr", DynAt + 96, 11)
      BY <1>2, <1>5, PieceFields
  <2>2. Piece("text", 4096, text_len) \in W /\ Piece("dynamic", DynAt, 96) \in W
        /\ Piece("dynstr", DynAt + 96, 11) \in W
      BY <1>2
  <2>3. PlaceOf(W, Piece("text", 4096, text_len).what) = Piece("text", 4096, text_len).at
      BY <2>1, <2>2, PieceFields, PlaceIs
  <2>4. PlaceOf(W, Piece("dynamic", DynAt, 96).what) = Piece("dynamic", DynAt, 96).at
      BY <2>1, <2>2, PieceFields, PlaceIs
  <2>5. PlaceOf(W, Piece("dynstr", DynAt + 96, 11).what) = Piece("dynstr", DynAt + 96, 11).at
      BY <2>1, <2>2, PieceFields, PlaceIs
  <2>. QED
      BY <2>3, <2>4, <2>5, PieceFields
<1>7. LoadedAt(loads, 8192) = 4096
  <2>1. Holds(two, 8192) /\ ~Holds(one, 8192) /\ two \in loads
      BY <1>2, <1>3, <1>4 DEF Holds
  <2>2. LoadedAt(loads, 8192) = two.at + (8192 - two.mem)
      BY <1>2, <2>1, LoadedIn
  <2>. QED
      BY <1>3, <2>2
<1>8. /\ LoadedAt(loads, 8192 + TextPages + 4096) = -1
      /\ LoadedAt(loads, 8192 + TextPages + 4096 + 4096) = -1
  <2>1. /\ ~Holds(one, 8192 + TextPages + 4096) /\ ~Holds(two, 8192 + TextPages + 4096)
        /\ ~Holds(one, 8192 + TextPages + 4096 + 4096) /\ ~Holds(two, 8192 + TextPages + 4096 + 4096)
      BY <1>3, <1>4 DEF Holds
  <2>. QED
      BY <1>2, <2>1, LoadedNowhere
<1>9. \A k : Astray(f, k) <=> k = "dynamic"
    BY DEF Astray, IsPE
<1>10. LoadedAt(loads, a.addr) = PlaceOf(W, a.what) + a.off <=> a.kind # "dynamic"
  <2>1. CASE a = Address("entry", 8192, "text", 0)
      BY <1>6, <1>7, <2>1, AddressFields
  <2>2. CASE a = Address("dynamic", 8192 + TextPages + 4096, "dynamic", 0)
    <3>1. DynAt + 0 # -1
        BY <1>4
    <3>. QED
        BY <1>6, <1>8, <2>2, <3>1, AddressFields
  <2>3. CASE a = Address("dynamic", 8192 + TextPages + 4096 + 4096, "dynstr", 0)
    <3>1. DynAt + 96 + 0 # -1
        BY <1>4
    <3>. QED
        BY <1>6, <1>8, <2>3, <3>1, AddressFields
  <2>. QED
      BY <1>2, <2>1, <2>2, <2>3
<1>. QED
    BY <1>9, <1>10 DEF Leads, W, loads

LEMMA StaticLeads ==
    ASSUME WritersInv, text_len > 0, NEW a \in LayoutExec("static").addresses
    PROVE  Leads(a, LayoutExec("static")) <=> ~Astray("static", a.kind)
<1> DEFINE W == Written(LayoutExec("static").ops).pieces
           loads == LayoutExec("static").loads
           text == Piece("text", 4096, text_len)
           one == Load(0, Base("static"), 4096)
           two == Load(4096, VaText("static"), TextPages)
<1>1. text_len \in Nat /\ SymBytes \in Nat
    BY Numbers
<1>2. /\ loads = {one, two}
      /\ LayoutExec("static").addresses = {Address("entry", VaText("static"), "text", 0)}
      /\ W = {Piece(ExecMagic, 0, 4), Piece("ehdr", 4, 60), Piece("phdrs", 64, 112),
              Piece("interp", 176, 0), text, Piece("shstrtab", DynAt, 17),
              Piece("shdrs", StaticHeaders, 240)}
    BY <1>1, StaticFile
<1>3. /\ one.at = 0 /\ one.mem = Base("static") /\ one.size = 4096
      /\ two.at = 4096 /\ two.mem = VaText("static") /\ two.size = TextPages
    BY LoadFields
<1>4. /\ TextPages \in Nat /\ 0 < TextPages
      /\ Base("static") \in Nat /\ VaText("static") = Base("static") + 8192
  <2>1. Base("static") \in Nat
      BY DEF Base
  <2>. QED
      BY <1>1, <2>1, ExecNumbers DEF VaText, PAGE
<1>5. ExecMagic # "text"
    BY DEF ExecMagic
<1>. HIDE DEF W, loads, one, two, text
<1>6. PlaceOf(W, "text") = 4096
  <2>1. text.what = "text" /\ text.at = 4096 /\ text \in W
      BY <1>2, PieceFields DEF text
  <2>2. \A q \in W : q.what = "text" => q = text
      BY <1>2, <1>5, PieceFields
  <2>. QED
      BY <2>1, <2>2, PlaceIs
<1>7. LoadedAt(loads, VaText("static")) = 4096
  <2>1. Holds(two, VaText("static")) /\ ~Holds(one, VaText("static")) /\ two \in loads
      BY <1>2, <1>3, <1>4 DEF Holds
  <2>2. LoadedAt(loads, VaText("static")) = two.at + (VaText("static") - two.mem)
      BY <1>2, <2>1, LoadedIn
  <2>. QED
      BY <1>3, <1>4, <2>2
<1>8. LoadedAt(loads, a.addr) = PlaceOf(W, a.what) + a.off
    BY <1>2, <1>6, <1>7, AddressFields
<1>. QED
    BY <1>8 DEF Leads, Astray, IsPE, W, loads

LEMMA KernelLeads ==
    ASSUME WritersInv, NEW a \in LayoutKernel.addresses
    PROVE  Leads(a, LayoutKernel) <=> ~Astray("kernel", a.kind)
<1> DEFINE W == Written(LayoutKernel.ops).pieces
           loads == LayoutKernel.loads
           text == Piece("text", 144, text_len)
           one == Load(0, KernelBase, 144 + text_len)
<1>1. text_len \in Nat /\ KernelBase \in Nat
  <2>1. KernelBase \in Nat
      BY DEF KernelBase
  <2>. QED
      BY <2>1, Numbers
<1>2. /\ loads = {one}
      /\ LayoutKernel.addresses = {Address("entry", KernelBase + 120, "text", 0)}
      /\ W = {Piece("magic", 0, 4), Piece("ehdr", 4, 60), Piece("phdrs", 64, 56), Piece("mb2", 120, 24),
              text}
    BY <1>1, KernelFile
<1>3. one.at = 0 /\ one.mem = KernelBase /\ one.size = 144 + text_len
    BY LoadFields
<1>. HIDE DEF W, loads, one, text
<1>4. PlaceOf(W, "text") = 144
  <2>1. text.what = "text" /\ text.at = 144 /\ text \in W
      BY <1>2, PieceFields DEF text
  <2>2. \A q \in W : q.what = "text" => q = text
      BY <1>2, PieceFields
  <2>. QED
      BY <2>1, <2>2, PlaceIs
<1>5. LoadedAt(loads, KernelBase + 120) = 120
  <2>1. PICK addr : addr = KernelBase + 120
      OBVIOUS
  <2>2. Holds(one, addr) /\ one \in loads
      BY <1>1, <1>2, <1>3, <2>1 DEF Holds
  <2>3. LoadedAt(loads, addr) = one.at + (addr - one.mem)
      BY <1>2, <2>2, LoadedIn
  <2>. QED
      BY <1>1, <1>3, <2>1, <2>3
<1>6. ~(LoadedAt(loads, a.addr) = PlaceOf(W, a.what) + a.off) /\ a.kind = "entry"
    BY <1>2, <1>4, <1>5, AddressFields
<1>. QED
    BY <1>6 DEF Leads, Astray, W, loads

LEMMA PeLeads ==
    ASSUME WritersInv, text_len > 0, NEW f \in {"exe", "dll"}, NEW a \in LayoutPE(f).addresses
    PROVE  Leads(a, LayoutPE(f)) <=> ~Astray(f, a.kind)
<1> DEFINE W == Written(LayoutPE(f).ops).pieces
           loads == LayoutPE(f).loads
           text == Piece("text", 512, text_len)
           rdata == Piece("rdata", 512 + TextSectors, ImportBytes(f))
           one == Load(1024, 4096, TextSectors)
           two == Load(1024 + TextSectors, 4096 + TextPages, 4608)
           three == Load(1024 + TextSectors + 4608, 4096 + TextPages + 8192, 512)
<1>1. text_len \in Nat
    BY Numbers
<1>2. /\ loads = {one, two, three}
      /\ LayoutPE(f).addresses = {Address("entry", 4096, "text", 0),
                                  Address("iat", 4096 + TextPages, "rdata", 0)}
      /\ W = {Piece("magic", 0, 4), Piece("dos", 4, 60), Piece("stub", 64, 60), Piece("sig", 124, 4),
              Piece("coff", 128, 20), Piece("optional", 148, 240), Piece("sections", 388, 120),
              text, rdata, Piece("data", 1024 + TextSectors, 512)}
    BY <1>1, PEFile
<1>3. /\ one.at = 1024 /\ one.mem = 4096 /\ one.size = TextSectors
      /\ two.at = 1024 + TextSectors /\ two.mem = 4096 + TextPages /\ two.size = 4608
      /\ three.at = 1024 + TextSectors + 4608 /\ three.mem = 4096 + TextPages + 8192 /\ three.size = 512
    BY LoadFields
<1>4. TextSectors \in Nat /\ TextPages \in Nat /\ 0 < TextSectors /\ TextSectors <= TextPages
  <2>1. PICK m, k \in Nat :
            TextSectors = 512 * m /\ TextPages = 4096 * k /\ TextSectors <= TextPages
            /\ text_len <= TextSectors
      BY PeNumbers
  <2>2. TextSectors \in Nat /\ TextPages \in Nat
      BY <2>1
  <2>. QED
      BY <1>1, <2>1, <2>2
<1>. HIDE DEF W, loads, text, rdata, one, two, three
<1>5. PlaceOf(W, "text") = 512 /\ PlaceOf(W, "rdata") = 512 + TextSectors
  <2>1. /\ text.what = "text" /\ text.at = 512 /\ text \in W
        /\ rdata.what = "rdata" /\ rdata.at = 512 + TextSectors /\ rdata \in W
      BY <1>2, PieceFields DEF text, rdata
  <2>2. \A q \in W : q.what = "text" => q = text
      BY <1>2, <2>1, PieceFields
  <2>3. \A q \in W : q.what = "rdata" => q = rdata
      BY <1>2, <2>1, PieceFields
  <2>4. PlaceOf(W, text.what) = text.at
      BY <2>1, <2>2, PlaceIs
  <2>5. PlaceOf(W, rdata.what) = rdata.at
      BY <2>1, <2>3, PlaceIs
  <2>. QED
      BY <2>1, <2>4, <2>5
<1>6. LoadedAt(loads, 4096) = 1024
  <2>1. Holds(one, 4096) /\ ~Holds(two, 4096) /\ ~Holds(three, 4096) /\ one \in loads
      BY <1>2, <1>3, <1>4 DEF Holds
  <2>2. LoadedAt(loads, 4096) = one.at + (4096 - one.mem)
      BY <1>2, <2>1, LoadedIn
  <2>. QED
      BY <1>3, <2>2
<1>7. LoadedAt(loads, 4096 + TextPages) = 1024 + TextSectors
  <2>1. PICK addr : addr = 4096 + TextPages
      OBVIOUS
  <2>2. Holds(two, addr) /\ ~Holds(one, addr) /\ ~Holds(three, addr) /\ two \in loads
      BY <1>2, <1>3, <1>4, <2>1 DEF Holds
  <2>3. LoadedAt(loads, addr) = two.at + (addr - two.mem)
      BY <1>2, <2>2, LoadedIn
  <2>. QED
      BY <1>3, <1>4, <2>1, <2>3
<1>8. ~(LoadedAt(loads, a.addr) = PlaceOf(W, a.what) + a.off) /\ a.kind \in {"entry", "iat"}
  <2>1. CASE a = Address("entry", 4096, "text", 0)
      BY <1>5, <1>6, <2>1, AddressFields
  <2>2. CASE a = Address("iat", 4096 + TextPages, "rdata", 0)
    <3>1. ~(1024 + TextSectors = 512 + TextSectors + 0)
        BY <1>4
    <3>. QED
        BY <1>5, <1>7, <2>2, <3>1, AddressFields
  <2>. QED
      BY <1>2, <2>1, <2>2
<1>. QED
    BY <1>8 DEF Leads, Astray, IsPE, W, loads

LEMMA AddressesOf ==
    ASSUME WritersInv, text_len > 0, NEW f \in Formats, NEW a \in Layout(f).addresses
    PROVE  Leads(a, Layout(f)) <=> ~Astray(f, a.kind)
<1>1. CASE f = "obj"
    BY <1>1, LayoutOf DEF LayoutObj
<1>2. CASE f = "kernel"
    BY <1>2, LayoutOf, KernelLeads
<1>3. CASE f \in {"dyn", "so"}
    BY <1>3, LayoutOf, DynamicLeads
<1>4. CASE f = "static"
    BY <1>4, LayoutOf, StaticLeads
<1>5. CASE f \in {"exe", "dll"}
    BY <1>5, LayoutOf, PeLeads
<1>. QED
    BY <1>1, <1>2, <1>3, <1>4, <1>5 DEF Formats

(* With something to load, each address in a file leads to what it is the  *)
(* address of, except those that Astray lists, and those never.            *)
THEOREM AddressesAreRight == WritersSpec => []AddressesReachContents
<1>1. WritersInit => WritersInv /\ AddressesReachContents
    BY WritersInvInit DEF WritersInit, AotInit, AddressesReachContents
<1>2. ASSUME WritersInv, AddressesReachContents, [WritersNext]_writerVars
      PROVE  AddressesReachContents'
  <2>1. CASE stage' # "written"
      BY <2>1 DEF AddressesReachContents
  <2>2. CASE UNCHANGED writerVars
      BY <1>2, <2>2 DEF AddressesReachContents, FileAt, At, writerVars, outVars, aotVars
  <2>3. ASSUME NEW f \in Formats, WriteFile(f)
        PROVE  AddressesReachContents'
    <3>1. /\ layout' = Layout(f) /\ file' = Written(Layout(f).ops) /\ fmt' = f
          /\ text_len' = text_len
        BY <2>3 DEF WriteFile
    <3>2. ASSUME text_len > 0, NEW a \in layout'.addresses
          PROVE  LoadedAt(layout'.loads, a.addr) = PlaceOf(file'.pieces, a.what) + a.off
                     <=> ~Astray(fmt', a.kind)
        BY <1>2, <3>1, <3>2, AddressesOf DEF Leads
    <3>3. /\ \A addr : FileAt(addr)' = LoadedAt(layout'.loads, addr)
          /\ \A what : At(what)' = PlaceOf(file'.pieces, what)
        BY DEF FileAt, At, LoadedAt, PlaceOf, Holds
    <3>. QED
        BY <3>1, <3>2, <3>3 DEF AddressesReachContents, Astray, IsPE
  <2>. QED
      BY <1>2, <2>1, <2>2, <2>3, WhenWritten
<1>3. WritersInv /\ AddressesReachContents /\ [WritersNext]_writerVars
          => WritersInv' /\ AddressesReachContents'
    BY <1>2, WritersInvNext
<1>. QED
    BY <1>1, <1>3, PTL DEF WritersSpec

-----------------------------------------------------------------------------
(* Exports.                                                                *)

(* A table of the first functions, up to its capacity, has each of these   *)
(* and no other: the names tell them apart.                                *)
TableEntry(fn, va) == [name |-> fn.name, addr |-> va + fn.offset]
IsTable(E, F, va) == \A j \in DOMAIN E : E[j] = TableEntry(F[j], va)
InTable(E, e) == e \in {E[j] : j \in DOMAIN E}
NamesDiffer(F) == \A i, j \in DOMAIN F : F[i].name = F[j].name => i = j

LEMMA ExportTable ==
    ASSUME NEW F, NEW n \in Nat, DOMAIN F = 1 .. n, NamesDiffer(F),
           NEW va, NEW cap \in Nat, NEW E, DOMAIN E = 1 .. Fewer(n, cap), IsTable(E, F, va),
           NEW i \in DOMAIN F
    PROVE  InTable(E, TableEntry(F[i], va)) <=> i <= cap
<1> DEFINE m == Fewer(n, cap)
           e(j) == TableEntry(F[j], va)
<1>1. m \in Nat /\ m <= n /\ m <= cap /\ (m = n \/ m = cap)
    BY DEF Fewer
<1>2. i \in 1 .. n
    OBVIOUS
<1>. HIDE DEF m
<1>3. ASSUME i <= cap
      PROVE  e(i) \in {E[j] : j \in DOMAIN E}
  <2>1. i \in 1 .. m
      BY <1>1, <1>2, <1>3
  <2>2. i \in DOMAIN E
      BY <2>1 DEF m
  <2>. QED
      BY <2>2 DEF IsTable
<1>4. ASSUME e(i) \in {E[j] : j \in DOMAIN E}
      PROVE  i <= cap
  <2>1. PICK j \in DOMAIN E : e(i) = e(j)
      BY <1>4 DEF IsTable
  <2>2. j \in 1 .. m
      BY <2>1 DEF m
  <2>3. j \in 1 .. n /\ j <= cap
      BY <1>1, <2>2
  <2>4. F[i].name = F[j].name
    <3>1. e(i).name = F[i].name /\ e(j).name = F[j].name
        BY DEF TableEntry
    <3>. QED
        BY <2>1, <3>1
  <2>5. i = j
      BY <2>3, <2>4 DEF NamesDiffer
  <2>. QED
      BY <2>3, <2>5
<1>. QED
    BY <1>3, <1>4 DEF InTable

LEMMA ExportsOf ==
    ASSUME WritersInv, NEW f \in {"dyn", "so", "static"}, NEW i \in DOMAIN funcs
    PROVE  InTable(ExecExports(f), TableEntry(funcs[i], VaText(f))) <=> i <= ExportCap
<1> DEFINE E == ExecExports(f)
<1>1. /\ DOMAIN funcs = 1 .. Len(funcs) /\ Len(funcs) \in Nat /\ ExportCap \in Nat
    BY TableElements, Numbers DEF WritersInv, TablesInv, AotTypes
<1>2. NamesDiffer(funcs)
    BY DEF WritersInv, NamesInv, NamesDiffer
<1>3. DOMAIN E = 1 .. Fewer(Len(funcs), ExportCap) /\ IsTable(E, funcs, VaText(f))
    BY DEF ExecExports, IsTable, TableEntry
<1>. HIDE DEF E
<1>4. InTable(E, TableEntry(funcs[i], VaText(f))) <=> i <= ExportCap
    BY <1>1, <1>2, <1>3, ExportTable
<1>. QED
    BY <1>4 DEF E

LEMMA PeExportsOf ==
    ASSUME WritersInv, backend = "dll", NEW i \in DOMAIN pe_funcs
    PROVE  InTable(exports, TableEntry(pe_funcs[i], SA)) <=> i <= ExportCap
<1>1. /\ pe_funcs \in Seq([name : FuncNames, offset : Nat])
      /\ exports \in Seq([name : FuncNames, addr : Nat])
      /\ Len(exports) = Fewer(Len(pe_funcs), ExportCap)
      /\ IsTable(exports, pe_funcs, SA) /\ NamesDiffer(pe_funcs)
    BY DEF WritersInv, PeInv, IsTable, TableEntry, NamesDiffer
<1>2. /\ DOMAIN pe_funcs = 1 .. Len(pe_funcs) /\ Len(pe_funcs) \in Nat
      /\ DOMAIN exports = 1 .. Fewer(Len(pe_funcs), ExportCap) /\ ExportCap \in Nat
    BY <1>1, Elements, Numbers
<1>. QED
    BY <1>1, <1>2, ExportTable

(* However many functions there are, a file exports the first ExportCap of *)
(* them, each at the address its first byte is loaded at, and no other.    *)
THEOREM ExportsAreRight == WritersSpec => []ExportsAreTheFunctions
<1>1. WritersInit => WritersInv /\ ExportsAreTheFunctions
    BY WritersInvInit DEF WritersInit, AotInit, ExportsAreTheFunctions
<1>2. ASSUME WritersInv, ExportsAreTheFunctions, [WritersNext]_writerVars
      PROVE  ExportsAreTheFunctions'
  <2>1. CASE stage' # "written"
      BY <2>1 DEF ExportsAreTheFunctions
  <2>2. CASE UNCHANGED writerVars
      BY <1>2, <2>2
      DEF ExportsAreTheFunctions, Functions, VaOfText, writerVars, outVars, aotVars, aotTables
  <2>3. ASSUME NEW f \in Formats, WriteFile(f)
        PROVE  ExportsAreTheFunctions'
    <3>1. /\ fmt' = f /\ funcs' = funcs /\ pe_funcs' = pe_funcs /\ Target(f)
          /\ exports' = IF IsExec(f) THEN ExecExports(f) ELSE exports
        BY <2>3 DEF WriteFile, aotTables
    <3>2. CASE IsExec(f)
      <4>1. /\ f \in {"dyn", "so", "static"} /\ exports' = ExecExports(f)
            /\ Functions' = funcs /\ VaOfText' = VaText(f)
          BY <3>1, <3>2 DEF IsExec, IsPE, Functions, VaOfText, VaText, Base
      <4>2. \A i \in DOMAIN funcs : InTable(exports', TableEntry(funcs[i], VaText(f))) <=> i <= ExportCap
          BY <1>2, <4>1, ExportsOf
      <4>. QED
          BY <4>1, <4>2 DEF ExportsAreTheFunctions, InTable, TableEntry
    <3>3. CASE f = "dll"
      <4>1. /\ backend = "dll" /\ exports' = exports /\ Functions' = pe_funcs /\ VaOfText' = SA
          BY <3>1, <3>3 DEF Target, IsExec, IsPE, Functions, VaOfText
      <4>2. \A i \in DOMAIN pe_funcs : InTable(exports', TableEntry(pe_funcs[i], SA)) <=> i <= ExportCap
          BY <1>2, <4>1, PeExportsOf
      <4>. QED
          BY <4>1, <4>2 DEF ExportsAreTheFunctions, InTable, TableEntry
    <3>4. CASE ~IsExec(f) /\ f # "dll"
        BY <3>1, <3>4 DEF ExportsAreTheFunctions, IsExec
    <3>. QED
        BY <3>2, <3>3, <3>4
  <2>. QED
      BY <1>2, <2>1, <2>2, <2>3, WhenWritten
<1>3. WritersInv /\ ExportsAreTheFunctions /\ [WritersNext]_writerVars
          => WritersInv' /\ ExportsAreTheFunctions'
    BY <1>2, WritersInvNext
<1>. QED
    BY <1>1, <1>3, PTL DEF WritersSpec

-----------------------------------------------------------------------------
(* Calls.                                                                  *)

LinkableIn(pieces, c) ==
    \E i \in DOMAIN relocs :
        /\ relocs[i].offset = c.at
        /\ \E rela \in pieces : rela.what = "rela" /\ 24 * i <= rela.size
        /\ \E symtab \in pieces : symtab.what = "symtab" /\ 24 * (relocs[i].sym + 1) <= symtab.size
        /\ \E strtab \in pieces :
              strtab.what = "strtab" /\ syms[relocs[i].sym].name + NameLen[c.callee] + 1 <= strtab.size

LEMMA ObjectLinks ==
    ASSUME WritersInv, NEW k \in DOMAIN calls
    PROVE  LinkableIn(Written(LayoutObj.ops).pieces, calls[k])
<1> DEFINE W == Written(LayoutObj.ops).pieces
<1>1. /\ text_len \in Nat /\ Len(syms) \in Nat /\ symstr.len \in Nat /\ Len(relocs) \in Nat
    BY Numbers
<1>2. \A p \in LayoutObj.pieces : p \in W
    BY <1>1, ObjFile
<1>. HIDE DEF W
<1>3. \E rela \in W : rela.what = "rela" /\ rela.size = RelaSize
  <2>1. \E p \in LayoutObj.pieces : p.what = "rela" /\ p.size = RelaSize
      BY PieceFields DEF LayoutObj
  <2>. QED
      BY <1>2, <2>1
<1>4. \E symtab \in W : symtab.what = "symtab" /\ symtab.size = 24 * (Len(syms) + 1)
  <2> DEFINE data == AlignUp(64 + text_len, 8)
             size == (data + 24 * (Len(syms) + 1)) - data
  <2>1. data \in Nat
    <3>1. Aligned(64 + text_len, 8)
        BY <1>1, AlignedTo
    <3>. QED
        BY <3>1 DEF Aligned
  <2>2. Piece("symtab", data, size) \in LayoutObj.pieces
      BY DEF LayoutObj
  <2>. HIDE DEF data
  <2>3. size = 24 * (Len(syms) + 1)
      BY <1>1, <2>1
  <2>. QED
      BY <1>2, <2>2, <2>3, PieceFields
<1>5. \E strtab \in W : strtab.what = "strtab" /\ strtab.size = symstr.len
  <2>1. \E p \in LayoutObj.pieces : p.what = "strtab" /\ p.size = symstr.len
      BY PieceFields DEF LayoutObj
  <2>. QED
      BY <1>2, <2>1
<1>6. /\ relocs \in Seq([offset : Nat, sym : Nat, addend : {-4}])
      /\ syms \in Seq([name : Nat, section : {0, 1}, value : Nat, size : Nat])
      /\ calls \in Seq([caller : FuncNames, at : Nat, callee : Names])
    BY DEF WritersInv, TablesInv, AotTypes, AotTypeOK
<1>7. /\ DOMAIN relocs = 1 .. Len(relocs) /\ DOMAIN syms = 1 .. Len(syms)
      /\ DOMAIN calls = 1 .. Len(calls) /\ Len(calls) = Len(relocs)
      /\ relocs[k].offset = calls[k].at /\ relocs[k].sym \in DOMAIN syms
      /\ <<syms[relocs[k].sym].name, calls[k].callee>> \in symstr.at
  <2>1. /\ DOMAIN relocs = 1 .. Len(relocs) /\ DOMAIN syms = 1 .. Len(syms)
        /\ DOMAIN calls = 1 .. Len(calls)
      BY <1>6, Elements
  <2>2. Len(calls) = Len(relocs)
      BY DEF WritersInv, TablesInv, RelocInv, RelocationsNameTheirCallee
  <2>3. k \in DOMAIN relocs
      BY <2>1, <2>2
  <2>. QED
      BY <2>1, <2>2, <2>3 DEF WritersInv, TablesInv, RelocInv, RelocationsNameTheirCallee
<1>8. k \in DOMAIN relocs /\ k \in 1 .. Len(relocs) /\ relocs[k].sym \in 1 .. Len(syms)
    BY <1>7
<1>9. syms[relocs[k].sym].name + NameLen[calls[k].callee] + 1 <= symstr.len
  <2>1. \A e \in symstr.at : e[1] + NameLen[e[2]] + 1 <= symstr.len
      BY DEF WritersInv, NamesInv
  <2> DEFINE e == <<syms[relocs[k].sym].name, calls[k].callee>>
  <2>2. e[1] = syms[relocs[k].sym].name /\ e[2] = calls[k].callee
      OBVIOUS
  <2>3. e \in symstr.at
      BY <1>7
  <2>. HIDE DEF e
  <2>. QED
      BY <2>1, <2>2, <2>3
<1>10. 24 * k <= RelaSize /\ 24 * (relocs[k].sym + 1) <= 24 * (Len(syms) + 1)
    BY <1>1, <1>8 DEF RelaSize
<1>11. /\ \E rela \in W : rela.what = "rela" /\ 24 * k <= rela.size
       /\ \E symtab \in W : symtab.what = "symtab" /\ 24 * (relocs[k].sym + 1) <= symtab.size
       /\ \E strtab \in W :
            strtab.what = "strtab" /\ syms[relocs[k].sym].name + NameLen[calls[k].callee] + 1 <= strtab.size
    BY <1>3, <1>4, <1>5, <1>9, <1>10
<1>12. LinkableIn(W, calls[k])
    BY <1>7, <1>8, <1>11 DEF LinkableIn
<1>. QED
    BY <1>12 DEF W

LEMMA NoRelocations ==
    ASSUME WritersInv, NEW f \in Formats, f # "obj", NEW p \in Written(Layout(f).ops).pieces
    PROVE  p.what # "rela"
<1>0. text_len \in Nat /\ SymBytes \in Nat /\ ExecMagic # "rela"
    BY Numbers DEF ExecMagic
<1>2. CASE f = "kernel"
  <2>1. Layout(f) = LayoutKernel
      BY <1>2, LayoutOf
  <2>2. Written(LayoutKernel.ops).pieces =
            {Piece("magic", 0, 4), Piece("ehdr", 4, 60), Piece("phdrs", 64, 56), Piece("mb2", 120, 24),
             Piece("text", 144, text_len)}
      BY <1>0, KernelFile
  <2>. QED
      BY <2>1, <2>2, PieceFields
<1>3. CASE f \in {"dyn", "so"}
  <2>1. Layout(f) = LayoutExec(f)
      BY <1>3, LayoutOf
  <2>2. Written(LayoutExec(f).ops).pieces =
           {Piece(ExecMagic, 0, 4), Piece("ehdr", 4, 60), Piece("phdrs", 64, 280),
            Piece("interp", 344, 28), Piece("text", 4096, text_len), Piece("dynamic", DynAt, 96),
            Piece("dynstr", DynAt + 96, 11), Piece("dynsym", DynAt + 112, SymBytes),
            Piece("shstrtab", DynNames, 17), Piece("shdrs", DynHeaders, 240)}
      BY <1>0, <1>3, DynamicFile
  <2>. QED
      BY <1>0, <2>1, <2>2, PieceFields
<1>4. CASE f = "static"
  <2>1. Layout(f) = LayoutExec("static")
      BY <1>4, LayoutOf
  <2>2. Written(LayoutExec("static").ops).pieces =
           {Piece(ExecMagic, 0, 4), Piece("ehdr", 4, 60), Piece("phdrs", 64, 112),
            Piece("interp", 176, 0), Piece("text", 4096, text_len),
            Piece("shstrtab", DynAt, 17), Piece("shdrs", StaticHeaders, 240)}
      BY <1>0, StaticFile
  <2>. QED
      BY <1>0, <2>1, <2>2, PieceFields
<1>5. CASE f \in {"exe", "dll"}
  <2>1. Layout(f) = LayoutPE(f)
      BY <1>5, LayoutOf
  <2>2. Written(LayoutPE(f).ops).pieces =
           {Piece("magic", 0, 4), Piece("dos", 4, 60), Piece("stub", 64, 60), Piece("sig", 124, 4),
            Piece("coff", 128, 20), Piece("optional", 148, 240), Piece("sections", 388, 120),
            Piece("text", 512, text_len), Piece("rdata", 512 + TextSectors, ImportBytes(f)),
            Piece("data", 1024 + TextSectors, 512)}
      BY <1>0, <1>5, PEFile
  <2>. QED
      BY <2>1, <2>2, PieceFields
<1>. QED
    BY <1>2, <1>3, <1>4, <1>5 DEF Formats

(* Every call compiled into an object file can be linked, whatever else    *)
(* was compiled, and no call in a file of another format can.              *)
THEOREM CallsAreLinked == WritersSpec => []CallsCanBeLinked
<1>1. WritersInit => WritersInv /\ CallsCanBeLinked
    BY WritersInvInit DEF WritersInit, AotInit, CallsCanBeLinked
<1>2. ASSUME WritersInv, CallsCanBeLinked, [WritersNext]_writerVars
      PROVE  CallsCanBeLinked'
  <2>1. CASE stage' # "written"
      BY <2>1 DEF CallsCanBeLinked
  <2>2. CASE UNCHANGED writerVars
      BY <1>2, <2>2 DEF CallsCanBeLinked, Linkable, writerVars, outVars, aotVars, aotTables
  <2>3. ASSUME NEW f \in Formats, WriteFile(f)
        PROVE  CallsCanBeLinked'
    <3>1. /\ file' = Written(Layout(f).ops) /\ fmt' = f
          /\ relocs' = relocs /\ syms' = syms /\ calls' = calls
        BY <2>3 DEF WriteFile, aotTables
    <3>2. ASSUME NEW k \in DOMAIN calls
          PROVE  LinkableIn(file'.pieces, calls[k]) <=> f = "obj"
      <4>1. CASE f = "obj"
        <5>1. Layout(f) = LayoutObj
            BY <4>1, LayoutOf
        <5>. QED
            BY <1>2, <3>1, <4>1, <5>1, ObjectLinks
      <4>2. CASE f # "obj"
        <5>1. \A p \in file'.pieces : p.what # "rela"
            BY <1>2, <3>1, <4>2, NoRelocations
        <5>. QED
            BY <4>2, <5>1 DEF LinkableIn
      <4>. QED
          BY <4>1, <4>2
    <3>3. \A k \in DOMAIN calls : Linkable(calls[k])' <=> LinkableIn(file'.pieces, calls[k])
        BY <3>1 DEF Linkable, LinkableIn
    <3>. QED
        BY <3>1, <3>2, <3>3 DEF CallsCanBeLinked
  <2>. QED
      BY <1>2, <2>1, <2>2, <2>3, WhenWritten
<1>3. WritersInv /\ CallsCanBeLinked /\ [WritersNext]_writerVars
          => WritersInv' /\ CallsCanBeLinked'
    BY <1>2, WritersInvNext
<1>. QED
    BY <1>1, <1>3, PTL DEF WritersSpec

(* What the compiler promises of its tables holds while files are written  *)
(* from them, and in the compiler for Windows, which leaves them empty.    *)
THEOREM TablesStayRight ==
    WritersSpec => [](/\ AotTypeOK /\ RelocationsNameTheirCallee
                      /\ SymbolsCoverFunctions /\ TablesInBounds)
<1>1. WritersInit => WritersInv
    BY WritersInvInit
<1>2. WritersInv /\ [WritersNext]_writerVars => WritersInv'
    BY WritersInvNext
<1>3. WritersInv => /\ AotTypeOK /\ RelocationsNameTheirCallee
                    /\ SymbolsCoverFunctions /\ TablesInBounds
    BY DEF WritersInv, TablesInv, AotTypes, RelocInv, TableInv, CoverInv
<1>. QED
    BY <1>1, <1>2, <1>3, PTL DEF WritersSpec

-----------------------------------------------------------------------------
(* Parameters.                                                             *)

Below(r) == {q \in AotRegs : q < r}

(* The numbers of smaller registers, up to that of r8, which has six. *)
LEMMA BelowCounts ==
    /\ Cardinality(Below(0)) = 0 /\ Cardinality(Below(1)) = 1 /\ Cardinality(Below(2)) = 2
    /\ Cardinality(Below(3)) = 3 /\ Cardinality(Below(6)) = 4 /\ Cardinality(Below(7)) = 5
    /\ \A r \in AotRegs : r > 7 => Cardinality(Below(r)) \in Nat /\ Cardinality(Below(r)) >= 6
<1>1. ASSUME NEW a, NEW b, NEW k, Below(b) = Below(a) \cup {a}, a \notin Below(a),
             IsFiniteSet(Below(a)), Cardinality(Below(a)) = k
      PROVE  IsFiniteSet(Below(b)) /\ Cardinality(Below(b)) = k + 1
    BY <1>1, FS_AddElement
<1>2. \A r \in 0 .. 15 : r \notin Below(r)
    BY DEF Below
<1>3. IsFiniteSet(Below(0)) /\ Cardinality(Below(0)) = 0
  <2>1. Below(0) = {}
      BY DEF Below, AotRegs
  <2>. QED
      BY <2>1, FS_EmptySet
<1>4. IsFiniteSet(Below(1)) /\ Cardinality(Below(1)) = 1
  <2>1. Below(1) = Below(0) \cup {0}
      BY DEF Below, AotRegs
  <2>2. 0 \notin Below(0)
      BY <1>2
  <2>3. IsFiniteSet(Below(1)) /\ Cardinality(Below(1)) = 0 + 1
      BY <1>1, <1>3, <2>1, <2>2
  <2>. QED
      BY <2>3
<1>5. IsFiniteSet(Below(2)) /\ Cardinality(Below(2)) = 2
  <2>1. Below(2) = Below(1) \cup {1}
      BY DEF Below, AotRegs
  <2>2. 1 \notin Below(1)
      BY <1>2
  <2>3. IsFiniteSet(Below(2)) /\ Cardinality(Below(2)) = 1 + 1
      BY <1>1, <1>4, <2>1, <2>2
  <2>. QED
      BY <2>3
<1>6. IsFiniteSet(Below(3)) /\ Cardinality(Below(3)) = 3
  <2>1. Below(3) = Below(2) \cup {2}
      BY DEF Below, AotRegs
  <2>2. 2 \notin Below(2)
      BY <1>2
  <2>3. IsFiniteSet(Below(3)) /\ Cardinality(Below(3)) = 2 + 1
      BY <1>1, <1>5, <2>1, <2>2
  <2>. QED
      BY <2>3
<1>7. IsFiniteSet(Below(6)) /\ Cardinality(Below(6)) = 4
  <2>1. Below(6) = Below(3) \cup {3}
      BY DEF Below, AotRegs
  <2>2. 3 \notin Below(3)
      BY <1>2
  <2>3. IsFiniteSet(Below(6)) /\ Cardinality(Below(6)) = 3 + 1
      BY <1>1, <1>6, <2>1, <2>2
  <2>. QED
      BY <2>3
<1>8. IsFiniteSet(Below(7)) /\ Cardinality(Below(7)) = 5
  <2>1. Below(7) = Below(6) \cup {6}
      BY DEF Below, AotRegs
  <2>2. 6 \notin Below(6)
      BY <1>2
  <2>3. IsFiniteSet(Below(7)) /\ Cardinality(Below(7)) = 4 + 1
      BY <1>1, <1>7, <2>1, <2>2
  <2>. QED
      BY <2>3
<1>9. IsFiniteSet(Below(8)) /\ Cardinality(Below(8)) = 6
  <2>1. Below(8) = Below(7) \cup {7}
      BY DEF Below, AotRegs
  <2>2. 7 \notin Below(7)
      BY <1>2
  <2>3. IsFiniteSet(Below(8)) /\ Cardinality(Below(8)) = 5 + 1
      BY <1>1, <1>8, <2>1, <2>2
  <2>. QED
      BY <2>3
<1>10. ASSUME NEW r \in AotRegs, r > 7
       PROVE  Cardinality(Below(r)) \in Nat /\ Cardinality(Below(r)) >= 6
  <2>1. AotRegs = Below(14)
      BY DEF Below, AotRegs
  <2>2. AotRegs \subseteq 0 .. 13
      BY DEF AotRegs
  <2>3. IsFiniteSet(AotRegs)
    <3>1. \A b \in Nat : IsFiniteSet(0 .. b)
        BY FS_Interval
    <3>. QED
        BY <2>2, <3>1, FS_Subset
  <2>4. Below(r) \subseteq AotRegs /\ Below(8) \subseteq Below(r)
      BY <1>10 DEF Below, AotRegs
  <2>5. IsFiniteSet(Below(r))
      BY <2>3, <2>4, FS_Subset
  <2>6. Cardinality(Below(8)) <= Cardinality(Below(r)) /\ Cardinality(Below(r)) \in Nat
      BY <2>4, <2>5, FS_Subset, FS_CardinalityType
  <2>. QED
      BY <1>9, <2>6
<1>. QED
    BY <1>3, <1>4, <1>5, <1>6, <1>7, <1>8, <1>10

(* The homes of the first six parameters. *)
LEMMA Homes ==
    /\ HomeOf(AotRegs, 1) = 0 /\ HomeOf(AotRegs, 2) = 1 /\ HomeOf(AotRegs, 3) = 2
    /\ HomeOf(AotRegs, 4) = 3 /\ HomeOf(AotRegs, 5) = 6 /\ HomeOf(AotRegs, 6) = 7
<1>1. \A v : HomeOf(AotRegs, v) = CHOOSE r \in AotRegs : Cardinality(Below(r)) = v - 1
    BY DEF HomeOf, Below
<1>2. \A r \in AotRegs : r > 7 \/ r \in {0, 1, 2, 3, 6, 7}
    BY DEF AotRegs
<1>3. {0, 1, 2, 3, 6, 7} \subseteq AotRegs
    BY DEF AotRegs
<1>4. ASSUME NEW v \in 1 .. 6, NEW h \in {0, 1, 2, 3, 6, 7}, Cardinality(Below(h)) = v - 1
      PROVE  HomeOf(AotRegs, v) = h
  <2>1. h \in AotRegs
      BY <1>3
  <2>2. \A r \in AotRegs : Cardinality(Below(r)) = v - 1 => r = h
      BY <1>2, <1>4, BelowCounts
  <2>. QED
      BY <1>1, <1>4, <2>1, <2>2
<1>. QED
    BY <1>4, BelowCounts

(* What the moves, first to last, leave in the homes. *)
LEMMA MovesAre ==
    ASSUME NEW n \in 0 .. 6
    PROVE  ParamsAfterMoves(AotRegs, ArgRegs, n) = [i \in 1 .. n |-> IF i = 4 THEN 2 ELSE i]
<1>. DEFINE move(r, k) == [r EXCEPT ![HomeOf(AotRegs, k)] = r[ArgRegs[k]]]
           steps(f) == [k \in 0 .. n |-> IF k = 0 THEN Entry(ArgRegs, n) ELSE move(f[k - 1], k)]
           after == CHOOSE f : f = steps(f)
           r0 == Entry(ArgRegs, n)
           r1 == move(r0, 1)
           r2 == move(r1, 2)
           r3 == move(r2, 3)
           r4 == move(r3, 4)
           r5 == move(r4, 5)
           r6 == move(r5, 6)
           g == [k \in 0 .. n |-> IF k = 0 THEN r0 ELSE IF k = 1 THEN r1 ELSE IF k = 2 THEN r2
                                  ELSE IF k = 3 THEN r3 ELSE IF k = 4 THEN r4
                                  ELSE IF k = 5 THEN r5 ELSE r6]
<1>1. ParamsAfterMoves(AotRegs, ArgRegs, n) = [i \in 1 .. n |-> after[n][HomeOf(AotRegs, i)]]
    BY DEF ParamsAfterMoves
<1>. HIDE DEF move
<1>2. g = steps(g)
  <2>1. ASSUME NEW k \in 1 .. n
        PROVE  g[k] = move(g[k - 1], k)
    <3>1. k - 1 \in 0 .. n /\ k \in 0 .. n /\ k \in {1, 2, 3, 4, 5, 6}
        OBVIOUS
    <3>. QED
        BY <3>1
  <2>. QED
      BY <2>1
<1>3. after = steps(after)
    BY <1>2
<1>. HIDE DEF after, g
<1>4. after[0] = r0
    BY <1>3
<1>5. \A k \in 1 .. n : after[k] = move(after[k - 1], k)
  <2>1. \A k \in 1 .. n : k \in 0 .. n /\ k # 0
      OBVIOUS
  <2>. QED
      BY <1>3, <2>1
<1>6. \A k \in 0 .. 15 : r0[k] = IF \E i \in 1 .. n : ArgRegs[i] = k
                                 THEN CHOOSE i \in 1 .. n : ArgRegs[i] = k ELSE 0
    BY DEF Entry
<1>7. DOMAIN r0 = 0 .. 15
    BY DEF Entry
<1>8. ASSUME NEW i \in 1 .. n
      PROVE  r0[ArgRegs[i]] = i
  <2>1. ArgRegs[i] \in 0 .. 15
      BY DEF ArgRegs
  <2>2. \A j \in 1 .. n : ArgRegs[j] = ArgRegs[i] <=> j = i
      BY DEF ArgRegs
  <2>3. r0[ArgRegs[i]] = CHOOSE j \in 1 .. n : ArgRegs[j] = ArgRegs[i]
      BY <1>6, <2>1
  <2>. HIDE DEF r0
  <2>. QED
      BY <2>2, <2>3
<1>9. /\ ArgRegs[1] = 7 /\ ArgRegs[2] = 6 /\ ArgRegs[3] = 2
      /\ ArgRegs[4] = 1 /\ ArgRegs[5] = 8 /\ ArgRegs[6] = 9
    BY DEF ArgRegs
<1>. HIDE DEF r0
<1>10. /\ (n >= 1 => r0[7] = 1) /\ (n >= 2 => r0[6] = 2) /\ (n >= 3 => r0[2] = 3)
       /\ (n >= 5 => r0[8] = 5) /\ (n >= 6 => r0[9] = 6)
  <2>1. \A i \in {1, 2, 3, 5, 6} : n >= i => i \in 1 .. n
      OBVIOUS
  <2>. QED
      BY <1>8, <1>9, <2>1
<1>11. /\ \A r : move(r, 1) = [r EXCEPT ![0] = r[7]] /\ move(r, 2) = [r EXCEPT ![1] = r[6]]
       /\ \A r : move(r, 3) = [r EXCEPT ![2] = r[2]] /\ move(r, 4) = [r EXCEPT ![3] = r[1]]
       /\ \A r : move(r, 5) = [r EXCEPT ![6] = r[8]] /\ move(r, 6) = [r EXCEPT ![7] = r[9]]
    BY <1>9, Homes DEF move
<1>. HIDE DEF move
<1>12. ASSUME NEW k \in 1 .. n
       PROVE  after[k] = move(after[k - 1], k)
    BY <1>5
<1>13. /\ (n >= 1 => after[1] = move(after[0], 1)) /\ (n >= 2 => after[2] = move(after[1], 2))
       /\ (n >= 3 => after[3] = move(after[2], 3)) /\ (n >= 4 => after[4] = move(after[3], 4))
       /\ (n >= 5 => after[5] = move(after[4], 5)) /\ (n >= 6 => after[6] = move(after[5], 6))
  <2>1. \A i \in {1, 2, 3, 4, 5, 6} : n >= i => i \in 1 .. n
      OBVIOUS
  <2>2. \A k \in {1, 2, 3, 4, 5, 6} : n >= k => after[k] = move(after[k - 1], k)
      BY <1>12, <2>1
  <2>. QED
      BY <2>2
<1>14. ASSUME n >= 1
       PROVE  /\ DOMAIN after[1] = 0 .. 15 /\ after[1][0] = 1
              /\ \A r \in 1 .. 15 : after[1][r] = r0[r]
  <2>1. r0[7] = 1 /\ after[1] = [r0 EXCEPT ![0] = r0[7]]
      BY <1>4, <1>11, <1>14, <1>10, <1>13
  <2>. QED
      BY <1>7, <2>1
<1>15. ASSUME n >= 2
       PROVE  /\ DOMAIN after[2] = 0 .. 15 /\ after[2][0] = 1 /\ after[2][1] = 2
              /\ \A r \in 2 .. 15 : after[2][r] = r0[r]
  <2>1. r0[6] = 2 /\ after[2] = [after[1] EXCEPT ![1] = after[1][6]]
      BY <1>11, <1>15, <1>10, <1>13
  <2>. QED
      BY <1>14, <1>15, <2>1
<1>16. ASSUME n >= 3
       PROVE  /\ DOMAIN after[3] = 0 .. 15 /\ after[3][0] = 1 /\ after[3][1] = 2 /\ after[3][2] = 3
              /\ \A r \in 3 .. 15 : after[3][r] = r0[r]
  <2>1. r0[2] = 3 /\ after[3] = [after[2] EXCEPT ![2] = after[2][2]]
      BY <1>11, <1>16, <1>10, <1>13
  <2>. QED
      BY <1>15, <1>16, <2>1
<1>17. ASSUME n >= 4
       PROVE  /\ DOMAIN after[4] = 0 .. 15 /\ after[4][0] = 1 /\ after[4][1] = 2 /\ after[4][2] = 3
              /\ after[4][3] = 2 /\ \A r \in 4 .. 15 : after[4][r] = r0[r]
  <2>1. after[4] = [after[3] EXCEPT ![3] = after[3][1]]
      BY <1>11, <1>17, <1>13
  <2>. QED
      BY <1>16, <1>17, <2>1
<1>18. ASSUME n >= 5
       PROVE  /\ DOMAIN after[5] = 0 .. 15 /\ after[5][0] = 1 /\ after[5][1] = 2 /\ after[5][2] = 3
              /\ after[5][3] = 2 /\ after[5][6] = 5 /\ after[5][9] = r0[9]
  <2>1. r0[8] = 5 /\ after[5] = [after[4] EXCEPT ![6] = after[4][8]]
      BY <1>11, <1>18, <1>10, <1>13
  <2>. QED
      BY <1>17, <1>18, <2>1
<1>19. ASSUME n >= 6
       PROVE  /\ after[6][0] = 1 /\ after[6][1] = 2 /\ after[6][2] = 3
              /\ after[6][3] = 2 /\ after[6][6] = 5 /\ after[6][7] = 6
  <2>1. r0[9] = 6 /\ after[6] = [after[5] EXCEPT ![7] = after[5][9]]
      BY <1>11, <1>19, <1>10, <1>13
  <2>. QED
      BY <1>18, <1>19, <2>1
<1>20. ASSUME NEW i \in 1 .. n
       PROVE  after[n][HomeOf(AotRegs, i)] = IF i = 4 THEN 2 ELSE i
  <2>1. n \in {1, 2, 3, 4, 5, 6} /\ i \in {1, 2, 3, 4, 5, 6} /\ i <= n
      OBVIOUS
  <2>. QED
      BY <1>14, <1>15, <1>16, <1>17, <1>18, <1>19, <2>1, Homes
<1>. QED
    BY <1>1, <1>20

(* Functions of any number of parameters find those that come in registers *)
(* in their homes, except the fourth.                                      *)
THEOREM ParamsAreHome == WritersSpec => []ParamsArrive
<1>1. WritersInit => ParamsArrive
    BY DEF WritersInit, AotInit, ParamsArrive
<1>2. ASSUME ParamsArrive, [WritersNext]_writerVars
      PROVE  ParamsArrive'
  <2>1. CASE arrived' = arrived
      BY <1>2, <2>1 DEF ParamsArrive
  <2>2. ASSUME NEW n \in FuncNames, NEW p \in ParamCounts, BeginFunc(n, p)
        PROVE  ParamsArrive'
    <3>1. p \in Nat
        BY AotAssumption DEF AotAssumption
    <3>2. PICK m \in 0 .. 6 : m = InRegisters(p)
        BY <3>1, InRegistersBound
    <3>3. arrived' = [i \in 1 .. m |-> IF i = 4 THEN 2 ELSE i]
        BY <2>2, <3>2, MovesAre DEF BeginFunc
    <3>. QED
        BY <3>3 DEF ParamsArrive
  <2>3. ASSUME Compile, ~\E n \in FuncNames, p \in ParamCounts : BeginFunc(n, p)
        PROVE  arrived' = arrived
      BY <2>3
      DEF Compile, AotNext, Instruction, Call, CallPanics, CallOverruns, EndFunc, EndFuncPanics,
          EndFuncOverruns, EndModule, Stop
  <2>4. ASSUME ~Compile
        PROVE  arrived' = arrived
      BY <1>2, <2>4
      DEF WritersNext, PeFunction, PeOverruns, PeEnd, WriteFile, WriteOverruns, Stop, writerVars, aotVars
  <2>. QED
      BY <2>1, <2>2, <2>3, <2>4
<1>. QED
    BY <1>1, <1>2, PTL DEF WritersSpec
=============================================================================
