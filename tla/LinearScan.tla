---------------------------- MODULE LinearScan ----------------------------
(***************************************************************************)
(* The JIT's register allocator (src/jit/jit.c): jit_liveness_analysis     *)
(* followed by jit_linear_scan_alloc, on every function IR can lower.      *)
(*                                                                         *)
(* One step of the liveness pass marks one instruction, one step of the    *)
(* scan treats one vreg.  The union { phys_reg; xmm_reg; stack_off } of    *)
(* VRegInfo is `home`, read according to `state` and `is_float`.           *)
(***************************************************************************)
EXTENDS IR

CONSTANTS
    IntRegs,      \* numbers of the allocatable general registers
    XmmRegs,      \* numbers of the allocatable xmm registers
    ActiveMax,    \* ACTIVE_MAX
    MaxVregs      \* JIT_MAX_VREGS, the length of JITContext.vregs

(* The registers of INT_ALLOC_ORDER and xmm0..7 fit in `active` together. *)
ASSUME ScanAssumption ==
    /\ IntRegs \subseteq Nat /\ XmmRegs \subseteq Nat
    /\ IsFiniteSet(IntRegs) /\ IsFiniteSet(XmmRegs)
    /\ Cardinality(IntRegs) + Cardinality(XmmRegs) <= ActiveMax
    /\ MaxVregs \in Nat /\ ActiveMax \in Nat

VARIABLES
    phase,        \* "lower", "live", "scan", "done", or "overrun"
    seq,          \* instr_seq of the liveness pass
    first_use, last_use, is_float, state, home,   \* VRegInfo
    vr,           \* loop index of the scan
    int_free, xmm_free,                           \* the free masks
    active,       \* the vregs in active[0 .. active_count - 1]
    next_slot     \* next_stack_slot

liveVars == <<seq, first_use, last_use, is_float>>
scanVars == <<state, home, vr, int_free, xmm_free, active, next_slot>>
allocVars == <<phase, liveVars, scanVars>>
vars == <<irVars, allocVars>>

VregIds == 0 .. MaxVregs - 1

InitAlloc ==
    /\ phase = "lower"
    /\ seq = 0 /\ vr = 0 /\ next_slot = 0
    /\ first_use = [v \in VregIds |-> 0]
    /\ last_use  = [v \in VregIds |-> 0]
    /\ is_float  = [v \in VregIds |-> FALSE]
    /\ state     = [v \in VregIds |-> "unallocated"]
    /\ home      = [v \in VregIds |-> 0]
    /\ int_free = IntRegs /\ xmm_free = XmmRegs
    /\ active = {}

Init == InitLower /\ InitAlloc

-----------------------------------------------------------------------------
(* jit_liveness_analysis *)

Operands(ins) == {ins.args[i] : i \in DOMAIN ins.args} \cap VregIds

(* Mutant: The first use of an operand is kept as its last. *)
MarkKeepsFirst ==
    /\ phase = "live" /\ seq < Len(code)
    /\ LET ins  == code[seq + 1]
           used == Operands(ins)
           def  == {ins.dst} \cap VregIds
       IN  /\ last_use' = [v \in VregIds |->
                 IF v \in used /\ last_use[v] = 0 THEN seq ELSE last_use[v]]
           /\ first_use' = [v \in VregIds |->
                 IF v \in def \/ (v \in used /\ first_use[v] = 0) THEN seq ELSE first_use[v]]
           /\ is_float' = [v \in VregIds |-> IF v \in def THEN ins.flt ELSE is_float[v]]
    /\ seq' = seq + 1
    /\ UNCHANGED <<irVars, phase, scanVars>>

(* One instruction: mark_vreg_use on every operand, then the definition.   *)
(* A first_use of 0 doubles as "not seen yet", and the dst of a store is a *)
(* definition like any other.                                              *)
Mark ==
    /\ phase = "live" /\ seq < Len(code)
    /\ LET ins  == code[seq + 1]
           used == Operands(ins)
           def  == {ins.dst} \cap VregIds
       IN  /\ last_use' = [v \in VregIds |->
                 IF v \in used /\ last_use[v] < seq THEN seq ELSE last_use[v]]
           /\ first_use' = [v \in VregIds |->
                 IF v \in def \/ (v \in used /\ first_use[v] = 0) THEN seq ELSE first_use[v]]
           /\ is_float' = [v \in VregIds |-> IF v \in def THEN ins.flt ELSE is_float[v]]
    /\ seq' = seq + 1
    /\ UNCHANGED <<irVars, phase, scanVars>>

BeginLiveness ==
    /\ phase = "lower" /\ lowered
    /\ phase' = "live"
    /\ UNCHANGED <<irVars, liveVars, scanVars>>

BeginScan ==
    /\ phase = "live" /\ seq = Len(code)
    /\ phase' = "scan"
    /\ UNCHANGED <<irVars, liveVars, scanVars>>

-----------------------------------------------------------------------------
(* jit_linear_scan_alloc *)

NeverSeen(v) == state[v] = "unallocated" /\ first_use[v] = 0

Scanning == phase = "scan" /\ vr < next_vreg /\ vr < MaxVregs

Skip ==
    /\ Scanning /\ NeverSeen(vr)
    /\ vr' = vr + 1
    /\ UNCHANGED <<irVars, phase, liveVars, state, home, int_free, xmm_free, active, next_slot>>

(* Mutant: An interval expires when the next one begins where it ends. *)
ExpiredEarly(v) == {a \in active : last_use[a] <= first_use[v]}

(* The active intervals that end before vreg v begins, and the registers   *)
(* that expiring them returns.                                             *)
Expired(v) == {a \in active : last_use[a] < first_use[v]}
ReturnedToBoth(v, flt) == {home[a] : a \in Expired(v)}  \* mutant
Returned(v, flt) == {home[a] : a \in {b \in Expired(v) : is_float[b] = flt}}

(* Mutant: One interval fewer than fits. *)
AddActiveShort(v, kept) ==
    IF Cardinality(kept) < ActiveMax - 1 THEN kept \cup {v} ELSE kept

(* active has ACTIVE_MAX entries; an interval that does not fit is dropped. *)
AddActive(v, kept) == IF Cardinality(kept) < ActiveMax THEN kept \cup {v} ELSE kept

(* __builtin_ctz of the mask: the free register with the lowest number. *)
TakeLowest(v, free) ==
    \E r \in free :
        /\ \A q \in free : r <= q
        /\ home' = [home EXCEPT ![v] = r]
        /\ state' = [state EXCEPT ![v] = "in_register"]
        /\ IF is_float[v]
           THEN xmm_free' = free \ {r} /\ int_free' = int_free \cup Returned(v, FALSE)
           ELSE int_free' = free \ {r} /\ xmm_free' = xmm_free \cup Returned(v, TRUE)
        /\ active' = AddActive(v, active \ Expired(v))
        /\ UNCHANGED next_slot

Spill(v) ==
    /\ next_slot' = next_slot - 8
    /\ home' = [home EXCEPT ![v] = next_slot - 8]
    /\ state' = [state EXCEPT ![v] = "spilled"]
    /\ int_free' = int_free \cup Returned(v, FALSE)
    /\ xmm_free' = xmm_free \cup Returned(v, TRUE)
    /\ active' = active \ Expired(v)

FreeFor(v) == IF is_float[v] THEN xmm_free \cup Returned(v, TRUE)
                             ELSE int_free \cup Returned(v, FALSE)

AssignRegister ==
    /\ Scanning /\ ~NeverSeen(vr)
    /\ FreeFor(vr) # {}
    /\ TakeLowest(vr, FreeFor(vr))
    /\ vr' = vr + 1
    /\ UNCHANGED <<irVars, phase, liveVars>>

SpillVreg ==
    /\ Scanning /\ ~NeverSeen(vr)
    /\ FreeFor(vr) = {}
    /\ Spill(vr)
    /\ vr' = vr + 1
    /\ UNCHANGED <<irVars, phase, liveVars>>

EndScan ==
    /\ phase = "scan"
    /\ \/ vr = next_vreg /\ phase' = "done"
       \/ vr < next_vreg /\ vr = MaxVregs /\ phase' = "overrun"
    /\ UNCHANGED <<irVars, liveVars, scanVars>>

Allocate == BeginLiveness \/ Mark \/ BeginScan \/ Skip \/ AssignRegister \/ SpillVreg \/ EndScan

Next == (phase = "lower" /\ Lower /\ UNCHANGED allocVars) \/ Allocate

Spec == Init /\ [][Next]_vars

-----------------------------------------------------------------------------
TypeOK ==
    /\ phase \in {"lower", "live", "scan", "done", "overrun"}
    /\ seq \in 0 .. Len(code)
    /\ first_use \in [VregIds -> Nat] /\ last_use \in [VregIds -> Nat]
    /\ is_float \in [VregIds -> BOOLEAN]
    /\ state \in [VregIds -> {"unallocated", "in_register", "spilled"}]
    /\ home \in [VregIds -> Int]
    /\ vr \in 0 .. MaxVregs /\ vr <= next_vreg
    /\ int_free \subseteq IntRegs /\ xmm_free \subseteq XmmRegs
    /\ active \subseteq VregIds
    /\ next_slot \in Int

InRegister(v) == state[v] = "in_register"
SameRegister(u, v) ==
    InRegister(u) /\ InRegister(v) /\ is_float[u] = is_float[v] /\ home[u] = home[v]

(* Every allocatable register is either free or the home of exactly one    *)
(* active interval: none is handed out twice and none is lost, which also  *)
(* means that the "active_count < ACTIVE_MAX" test of the scan never fails.*)
RegistersAccounted ==
    /\ \A u, v \in active : SameRegister(u, v) => u = v
    /\ IntRegs \ int_free = {home[a] : a \in {b \in active : ~is_float[b]}}
    /\ XmmRegs \ xmm_free = {home[a] : a \in {b \in active : is_float[b]}}

(* Two vregs in one register never live at the same time: if the intervals *)
(* the scan meets from u to v do not start after v's, then u's interval is *)
(* over before v's begins.                                                 *)
NoOverlap ==
    \A u, v \in VregIds :
        u < v /\ SameRegister(u, v) /\ (\A k \in u + 1 .. v : first_use[k] <= first_use[v])
            => last_use[u] < first_use[v]

(* The interval computed for a temporary (a vreg that is neither a         *)
(* parameter nor ever the pointer of a store) covers its definition and    *)
(* every instruction that reads it, so that a register is not reclaimed    *)
(* before the last read.                                                   *)
IntervalsCoverReads ==
    seq = Len(code) =>
        \A s \in 1 .. Len(code) : \A v \in Operands(code[s]) :
            (v >= params /\ \A t \in 1 .. Len(code) : code[t].op = "store" => code[t].dst # v)
                => first_use[v] <= s - 1 /\ s - 1 <= last_use[v]
=============================================================================
