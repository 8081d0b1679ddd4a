---------------------------- MODULE AsmProofs ----------------------------
(***************************************************************************)
(* Theorems of the assembler, for every buffer, table and alignment.       *)
(*                                                                         *)
(* A loop of the code is a recursive function over a range of numbers.     *)
(* That it is defined, and what it computes, goes by induction over a set  *)
(* of numbers (Induction).  The inductive invariant says which operands of *)
(* four bytes are in the buffer, and that no two of them share a byte.     *)
(***************************************************************************)
EXTENDS Asm, SequenceTheorems, WellFoundedInduction, TLAPS

(* A buffer as long as its capacity says. *)
IsBuf(c) ==
  /\ c = [buf |-> c.buf, len |-> c.len, cap |-> c.cap]
  /\ c.len \in Nat /\ c.cap \in Nat /\ c.len <= c.cap
  /\ DOMAIN c.buf = 0 .. c.cap - 1

(* Two operands of four bytes that share none. *)
Apart(a, b) == a + 4 <= b \/ b + 4 <= a

TypeInv ==
  /\ phase \in {"idle", "body", "panic"}
  /\ func \in 0 .. MaxFuncs /\ items \in 0 .. MaxItems /\ nlabels \in 0 .. MaxLabels
  /\ IsBuf(cb) /\ sub_at \in 0 .. cb.len
  /\ ft \in Seq([at : Nat, label : 0 .. MaxLabels - 1])
  /\ \A i \in DOMAIN ft : ft[i].at + 4 <= cb.len
  /\ lt \in Seq(Int) /\ Len(lt) <= LabelCap /\ \A i \in DOMAIN lt : lt[i] \in -1 .. cb.len

(* The operands the fixups and the frames are at: inside the buffer, apart, *)
(* and those of the fixups are jumps.  A settled frame is never overwritten. *)
FieldInv ==
  /\ \A i, j \in DOMAIN ft : i < j => Apart(ft[i].at, ft[j].at)
  /\ \A i \in DOMAIN ft : \E j \in jumps : j.at = ft[i].at
  /\ \A f \in frames : f.at \in Nat /\ f.at + 4 <= cb.len /\ Holds(f.at, f.size)
  /\ \A f \in frames, i \in DOMAIN ft : Apart(f.at, ft[i].at)
  /\ phase = "body" =>
        /\ sub_at + 4 <= cb.len
        /\ \A i \in DOMAIN ft : Apart(sub_at, ft[i].at)
        /\ \A f \in frames : Apart(sub_at, f.at)

(* With fresh tables, the fixups and the labels are those of the function, *)
(* and once it is finished each operand holds its displacement.            *)
JumpInv ==
  /\ \A j \in jumps : j.func = func /\ \E i \in DOMAIN ft : ft[i].at = j.at /\ ft[i].label = j.label
  /\ \A p \in places :
        p.func = func /\ p.label \in Nat /\ p.label + 1 \in DOMAIN lt /\ lt[p.label + 1] = p.at
  /\ phase = "idle" => \A i \in DOMAIN ft : Holds(ft[i].at, Displacement(ft[i]))
-----------------------------------------------------------------------------
(* A set of numbers with 0 and with the successor of each has them all. *)
LEMMA Induction ==
  ASSUME NEW T, 0 \in T, \A n \in Nat : n \in T => n + 1 \in T
  PROVE  Nat \subseteq T
<1> SUFFICES ASSUME Nat \ T # {} PROVE FALSE
  OBVIOUS
<1>1. PICK x \in Nat \ T : \A y \in Nat \ T : <<y, x>> \notin OpToRel(<, Nat)
  <2>1. Nat \ T \subseteq Nat
    OBVIOUS
  <2> QED BY <2>1, NatLessThanWellFounded, WFMin
<1>2. x # 0 /\ x - 1 \in Nat /\ x - 1 < x
  OBVIOUS
<1>3. x - 1 \in T
  <2>1. <<x - 1, x>> \in OpToRel(<, Nat)
    <3>1. <<x - 1, x>> \in Nat \X Nat /\ <<x - 1, x>>[1] < <<x - 1, x>>[2]
      BY <1>2
    <3> QED BY <3>1, Zenon DEF OpToRel
  <2> QED BY <1>1, <1>2, <2>1
<1> QED BY <1>2, <1>3

-----------------------------------------------------------------------------
(* The buffer. *)

(* The operand at off of a buffer is v. *)
Has(c, off, v) == \A k \in 1 .. 4 : c.buf[off + k - 1] = Field(v)[k]

(* Buffer d begins with the first n bytes of c. *)
Same(c, d, n) == \A i \in 0 .. n - 1 : d.buf[i] = c.buf[i]

LEMMA Constants ==
  /\ FreshTables \in BOOLEAN
  /\ InitCap \in Nat /\ Slack \in Nat /\ LabelCap \in Nat
  /\ MaxLabels \in Nat /\ MaxItems \in Nat /\ MaxFuncs \in Nat
  /\ Align \in Nat \ {0} /\ FrameSizes \subseteq Nat
BY AsmAssumption DEF AsmAssumption

LEMMA EnsureFacts ==
  ASSUME NEW c, IsBuf(c), NEW n \in Nat
  PROVE  /\ IsBuf(Ensure(c, n))
         /\ Ensure(c, n).len = c.len /\ c.len + n <= Ensure(c, n).cap
         /\ Same(c, Ensure(c, n), c.len)
<1>1. CASE c.len + n <= c.cap
  BY <1>1 DEF Ensure, IsBuf, Same
<1>2. CASE ~(c.len + n <= c.cap)
  <2> DEFINE cap == Greater(2 * c.cap, c.len + n + Slack)
             d == [buf |-> [i \in 0 .. cap - 1 |-> IF i < c.len THEN c.buf[i] ELSE "junk"],
                   len |-> c.len, cap |-> cap]
  <2>1. Ensure(c, n) = d
    BY <1>2 DEF Ensure
  <2>2. cap \in Nat /\ c.len + n <= cap
    BY Constants DEF IsBuf, Greater
  <2> HIDE DEF cap
  <2>3. /\ d.len = c.len /\ d.cap = cap /\ DOMAIN d.buf = 0 .. cap - 1
        /\ d = [buf |-> d.buf, len |-> d.len, cap |-> d.cap]
        /\ \A i \in 0 .. cap - 1 : i < c.len => d.buf[i] = c.buf[i]
    OBVIOUS
  <2> HIDE DEF d
  <2>4. IsBuf(d)
    BY <2>2, <2>3 DEF IsBuf
  <2>5. Same(c, d, c.len)
    BY <2>2, <2>3 DEF Same, IsBuf
  <2> QED BY <2>1, <2>2, <2>3, <2>4, <2>5
<1> QED BY <1>1, <1>2

LEMMA EmitFacts ==
  ASSUME NEW c, IsBuf(c), NEW S, NEW bytes \in Seq(S)
  PROVE  /\ IsBuf(Emit(c, bytes))
         /\ Emit(c, bytes).len = c.len + Len(bytes)
         /\ Same(c, Emit(c, bytes), c.len)
         /\ \A k \in 1 .. Len(bytes) : Emit(c, bytes).buf[c.len + k - 1] = bytes[k]
<1> DEFINE n == Len(bytes)
           e == Ensure(c, n)
           buf == [i \in DOMAIN e.buf |-> IF i \in e.len .. e.len + n - 1 THEN bytes[i - e.len + 1] ELSE e.buf[i]]
           d == [buf |-> buf, len |-> e.len + n, cap |-> e.cap]
<1>1. n \in Nat
  BY LenProperties
<1>2. /\ IsBuf(e) /\ e.len = c.len /\ c.len + n <= e.cap
      /\ Same(c, e, c.len)
  BY <1>1, EnsureFacts
<1>3. Emit(c, bytes) = d
  <2>1. Emit(c, bytes) = [e EXCEPT !.buf = buf, !.len = @ + n]
    BY DEF Emit
  <2>2. e = [buf |-> e.buf, len |-> e.len, cap |-> e.cap]
    BY <1>2 DEF IsBuf
  <2> HIDE DEF e, n, buf
  <2> QED BY <2>1, <2>2
<1> HIDE DEF e, n
<1>4. /\ d.len = c.len + n /\ d.cap = e.cap /\ d = [buf |-> d.buf, len |-> d.len, cap |-> d.cap]
      /\ DOMAIN d.buf = 0 .. e.cap - 1
      /\ \A i \in 0 .. e.cap - 1 :
            d.buf[i] = IF i \in c.len .. c.len + n - 1 THEN bytes[i - c.len + 1] ELSE e.buf[i]
  BY <1>2 DEF IsBuf
<1> HIDE DEF d
<1>5. c.len \in Nat /\ e.cap \in Nat
  BY <1>2 DEF IsBuf
<1>6. IsBuf(d)
  BY <1>1, <1>2, <1>4, <1>5 DEF IsBuf
<1>7. Same(c, d, c.len)
  <2>1. ASSUME NEW i \in 0 .. c.len - 1
        PROVE  d.buf[i] = c.buf[i]
    <3>1. i \in 0 .. e.cap - 1 /\ i \notin c.len .. c.len + n - 1
      BY <1>1, <1>2, <1>5
    <3> QED BY <1>2, <1>4, <3>1 DEF Same
  <2> QED BY <2>1 DEF Same
<1>8. ASSUME NEW k \in 1 .. n
      PROVE  d.buf[c.len + k - 1] = bytes[k]
  <2>1. c.len + k - 1 \in c.len .. c.len + n - 1 /\ c.len + k - 1 \in 0 .. e.cap - 1
    BY <1>1, <1>2, <1>5
  <2>2. (c.len + k - 1) - c.len + 1 = k
    BY <1>5
  <2> QED BY <1>4, <2>1, <2>2
<1> QED BY <1>3, <1>4, <1>6, <1>7, <1>8 DEF n

LEMMA EmitByteFacts ==
  ASSUME NEW c, IsBuf(c)
  PROVE  /\ IsBuf(EmitByte(c)) /\ EmitByte(c).len = c.len + 1
         /\ Same(c, EmitByte(c), c.len)
<1>1. <<"op">> \in Seq({"op"}) /\ Len(<<"op">>) = 1
  OBVIOUS
<1> QED BY <1>1, EmitFacts DEF EmitByte

LEMMA EmitI32Facts ==
  ASSUME NEW c, IsBuf(c), NEW v
  PROVE  /\ IsBuf(EmitI32(c, v)) /\ EmitI32(c, v).len = c.len + 4
         /\ Same(c, EmitI32(c, v), c.len)
         /\ Has(EmitI32(c, v), c.len, v)
<1>1. Field(v) \in [1 .. 4 -> (1 .. 4) \X {v}]
  BY DEF Field
<1>2. Field(v) \in Seq((1 .. 4) \X {v}) /\ Len(Field(v)) = 4
  <2> DEFINE f == Field(v)
             S == (1 .. 4) \X {v}
  <2>1. f \in [1 .. 4 -> S]
    BY <1>1
  <2> HIDE DEF f, S
  <2>2. f \in Seq(S)
    <3>1. f = [i \in 1 .. 4 |-> f[i]] /\ \A i \in 1 .. 4 : f[i] \in S
      BY <2>1
    <3>2. [i \in 1 .. 4 |-> f[i]] \in Seq(S)
      BY <3>1
    <3> QED BY <3>1, <3>2, Zenon
  <2>3. Len(f) \in Nat /\ 1 .. Len(f) = 1 .. 4
    BY <2>1, <2>2, LenProperties
  <2>4. Len(f) = 4
    <3>1. 4 \in 1 .. Len(f) /\ 5 \notin 1 .. Len(f)
      BY <2>3
    <3>2. Len(f) \in Nat
      BY <2>3
    <3>3. \A n \in Nat : 4 \in 1 .. n /\ 5 \notin 1 .. n => n = 4
      OBVIOUS
    <3> HIDE DEF f
    <3> QED BY <3>1, <3>2, <3>3, Zenon
  <2> QED BY <2>2, <2>4 DEF f, S
<1>3. /\ IsBuf(Emit(c, Field(v))) /\ Emit(c, Field(v)).len = c.len + 4
      /\ Same(c, Emit(c, Field(v)), c.len)
      /\ \A k \in 1 .. 4 : Emit(c, Field(v)).buf[c.len + k - 1] = Field(v)[k]
  <2> DEFINE f == Field(v)
             S == (1 .. 4) \X {v}
  <2>1. f \in Seq(S) /\ Len(f) = 4
    BY <1>2
  <2> HIDE DEF f, S
  <2> QED BY <2>1, EmitFacts DEF f
<1> QED BY <1>3 DEF EmitI32, Has

(* What EmitBytes runs through. *)
RunOf(c, n, g) == g = [i \in 0 .. n |-> IF i = 0 THEN c ELSE EmitByte(g[i - 1])]

(* There is such a function, whatever the number of bytes. *)
LEMMA RunExists ==
  ASSUME NEW c, NEW n \in Nat
  PROVE  \E g : RunOf(c, n, g)
<1> DEFINE T == {m \in Nat : \E g : RunOf(c, m, g)}
<1>1. 0 \in T
  <2>1. RunOf(c, 0, [i \in 0 .. 0 |-> c])
    BY DEF RunOf
  <2> QED BY <2>1
<1>2. ASSUME NEW m \in Nat, m \in T PROVE m + 1 \in T
  <2>1. PICK g : RunOf(c, m, g)
    BY <1>2
  <2> DEFINE h == [i \in 0 .. m + 1 |-> IF i = m + 1 THEN EmitByte(g[m]) ELSE g[i]]
  <2>2. \A i \in 0 .. m : g[i] = IF i = 0 THEN c ELSE EmitByte(g[i - 1])
    BY <2>1 DEF RunOf
  <2>3. ASSUME NEW i \in 0 .. m + 1
        PROVE h[i] = IF i = 0 THEN c ELSE EmitByte(h[i - 1])
    BY <2>2
  <2> HIDE DEF h
  <2>4. RunOf(c, m + 1, h)
    <3>1. h = [i \in 0 .. m + 1 |-> h[i]]
      BY DEF h
    <3> QED BY <2>3, <3>1 DEF RunOf
  <2> QED BY <2>4
<1> HIDE DEF T
<1>3. n \in T
  BY <1>1, <1>2, Induction
<1> QED BY <1>3 DEF T

LEMMA RunFacts ==
  ASSUME NEW c, NEW n \in Nat
  PROVE  \E g : RunOf(c, n, g) /\ EmitBytes(c, n) = g[n]
<1> DEFINE run[i \in 0 .. n] == IF i = 0 THEN c ELSE EmitByte(run[i - 1])
<1>1. run = [i \in 0 .. n |-> IF i = 0 THEN c ELSE EmitByte(run[i - 1])]
  <2>1. \E g : g = [i \in 0 .. n |-> IF i = 0 THEN c ELSE EmitByte(g[i - 1])]
    BY RunExists DEF RunOf
  <2> QED BY <2>1, Zenon
<1>2. EmitBytes(c, n) = run[n]
  BY DEF EmitBytes
<1> QED BY <1>1, <1>2 DEF RunOf

LEMMA EmitBytesFacts ==
  ASSUME NEW c, IsBuf(c), NEW n \in Nat
  PROVE  /\ IsBuf(EmitBytes(c, n)) /\ EmitBytes(c, n).len = c.len + n
         /\ Same(c, EmitBytes(c, n), c.len)
<1>1. PICK g : RunOf(c, n, g) /\ EmitBytes(c, n) = g[n]
  BY RunFacts
<1>2. \A i \in 0 .. n : g[i] = IF i = 0 THEN c ELSE EmitByte(g[i - 1])
  BY <1>1 DEF RunOf
<1> DEFINE Fine(i) == IsBuf(g[i]) /\ g[i].len = c.len + i /\ Same(c, g[i], c.len)
           T == {i \in Nat : i <= n => Fine(i)}
<1>3. 0 \in T
  BY <1>2 DEF IsBuf, Same
<1>4. ASSUME NEW i \in Nat, i \in T PROVE i + 1 \in T
  <2> SUFFICES ASSUME i + 1 <= n PROVE Fine(i + 1)
    OBVIOUS
  <2>1. IsBuf(g[i]) /\ g[i].len = c.len + i /\ Same(c, g[i], c.len)
    BY <1>4
  <2>2. g[i + 1] = EmitByte(g[i])
    BY <1>2
  <2>3. IsBuf(g[i + 1]) /\ g[i + 1].len = g[i].len + 1 /\ Same(g[i], g[i + 1], g[i].len)
    BY <2>1, <2>2, EmitByteFacts
  <2>4. c.len \in Nat
    BY DEF IsBuf
  <2>5. Same(c, g[i + 1], c.len)
    BY <2>1, <2>3, <2>4 DEF Same
  <2> QED BY <2>1, <2>3, <2>4, <2>5
<1> HIDE DEF T
<1>5. n \in T
  BY <1>3, <1>4, Induction
<1> QED BY <1>1, <1>5 DEF T

LEMMA AlignedFacts ==
  ASSUME NEW c, IsBuf(c)
  PROVE  /\ IsBuf(Aligned(c)) /\ Aligned(c).len \in Nat /\ c.len <= Aligned(c).len
         /\ Same(c, Aligned(c), c.len)
<1> DEFINE pad == (Align - (c.len % Align)) % Align
<1>1. c.len \in Nat
  BY DEF IsBuf
<1>2. pad \in Nat
  BY <1>1, Constants
<1> HIDE DEF pad
<1>3. Aligned(c) = EmitBytes(c, pad)
  BY DEF Aligned, pad
<1>4. /\ IsBuf(EmitBytes(c, pad)) /\ EmitBytes(c, pad).len = c.len + pad
      /\ Same(c, EmitBytes(c, pad), c.len)
  BY <1>2, EmitBytesFacts
<1> QED BY <1>1, <1>2, <1>3, <1>4

(* An operand stays as long as its four bytes do. *)
LEMMA HasStays ==
  ASSUME NEW c, NEW d, NEW at \in Nat, NEW v, Has(c, at, v),
         \A i \in at .. at + 3 : d.buf[i] = c.buf[i]
  PROVE  Has(d, at, v)
<1> SUFFICES ASSUME NEW k \in 1 .. 4 PROVE d.buf[at + k - 1] = Field(v)[k]
  BY DEF Has
<1>1. at + k - 1 \in at .. at + 3
  OBVIOUS
<1> QED BY <1>1 DEF Has

LEMMA PatchFacts ==
  ASSUME NEW c, IsBuf(c), NEW off \in Nat, off + 4 <= c.len, NEW v
  PROVE  /\ IsBuf(Patch(c, off, v)) /\ Patch(c, off, v).len = c.len
         /\ \A i \in 0 .. c.len - 1 : i \notin off .. off + 3 => Patch(c, off, v).buf[i] = c.buf[i]
         /\ Has(Patch(c, off, v), off, v)
<1> DEFINE buf == [i \in DOMAIN c.buf |-> IF i \in off .. off + 3 THEN Field(v)[i - off + 1] ELSE c.buf[i]]
           d == [buf |-> buf, len |-> c.len, cap |-> c.cap]
<1>1. /\ c.len \in Nat /\ c.cap \in Nat /\ c.len <= c.cap /\ DOMAIN c.buf = 0 .. c.cap - 1
      /\ c = [buf |-> c.buf, len |-> c.len, cap |-> c.cap]
  BY DEF IsBuf
<1>2. Patch(c, off, v) = d
  <2>1. Patch(c, off, v) = [c EXCEPT !.buf = buf]
    BY DEF Patch
  <2> HIDE DEF buf
  <2> QED BY <1>1, <2>1
<1>3. /\ d.len = c.len /\ d.cap = c.cap /\ d = [buf |-> d.buf, len |-> d.len, cap |-> d.cap]
      /\ DOMAIN d.buf = 0 .. c.cap - 1
      /\ \A i \in 0 .. c.cap - 1 :
            d.buf[i] = IF i \in off .. off + 3 THEN Field(v)[i - off + 1] ELSE c.buf[i]
  BY <1>1
<1> HIDE DEF d
<1>4. IsBuf(d)
  BY <1>1, <1>3 DEF IsBuf
<1>5. ASSUME NEW i \in 0 .. c.len - 1, i \notin off .. off + 3
      PROVE  d.buf[i] = c.buf[i]
  <2>1. i \in 0 .. c.cap - 1
    BY <1>1
  <2> QED BY <1>3, <1>5, <2>1
<1>6. ASSUME NEW k \in 1 .. 4
      PROVE  d.buf[off + k - 1] = Field(v)[k]
  <2>1. off + k - 1 \in off .. off + 3 /\ off + k - 1 \in 0 .. c.cap - 1 /\ (off + k - 1) - off + 1 = k
    BY <1>1
  <2> QED BY <1>3, <2>1
<1> QED BY <1>2, <1>3, <1>4, <1>5, <1>6 DEF Has

(* What Resolved runs through. *)
PatchesOf(c, n, g) ==
  g = [i \in 0 .. n |-> IF i = 0 THEN c ELSE Patch(g[i - 1], ft[i].at, Displacement(ft[i]))]

LEMMA PatchesExist ==
  ASSUME NEW c, NEW n \in Nat
  PROVE  \E g : PatchesOf(c, n, g)
<1> DEFINE T == {m \in Nat : \E g : PatchesOf(c, m, g)}
<1>1. 0 \in T
  <2>1. PatchesOf(c, 0, [i \in 0 .. 0 |-> c])
    BY DEF PatchesOf
  <2> QED BY <2>1
<1>2. ASSUME NEW m \in Nat, m \in T PROVE m + 1 \in T
  <2>1. PICK g : PatchesOf(c, m, g)
    BY <1>2
  <2> DEFINE next(i, b) == Patch(b, ft[i].at, Displacement(ft[i]))
             h == [i \in 0 .. m + 1 |-> IF i = m + 1 THEN next(m + 1, g[m]) ELSE g[i]]
  <2>2. \A i \in 0 .. m : g[i] = IF i = 0 THEN c ELSE next(i, g[i - 1])
    BY <2>1 DEF PatchesOf
  <2> HIDE DEF next
  <2>3. ASSUME NEW i \in 0 .. m + 1
        PROVE  h[i] = IF i = 0 THEN c ELSE next(i, h[i - 1])
    BY <2>2
  <2>4. h = [i \in 0 .. m + 1 |-> h[i]]
    OBVIOUS
  <2> HIDE DEF h
  <2>5. PatchesOf(c, m + 1, h)
    BY <2>3, <2>4 DEF PatchesOf, next
  <2> QED BY <2>5
<1> HIDE DEF T
<1>3. n \in T
  BY <1>1, <1>2, Induction
<1> QED BY <1>3 DEF T

LEMMA PatchesFacts ==
  ASSUME NEW c, Len(ft) \in Nat
  PROVE  \E g : PatchesOf(c, Len(ft), g) /\ Resolved(c) = g[Len(ft)]
<1> DEFINE next(i, b) == Patch(b, ft[i].at, Displacement(ft[i]))
           n == Len(ft)
           run[i \in 0 .. n] == IF i = 0 THEN c ELSE next(i, run[i - 1])
<1>1. \E g : g = [i \in 0 .. n |-> IF i = 0 THEN c ELSE next(i, g[i - 1])]
  <2>1. PICK g : PatchesOf(c, n, g)
    BY PatchesExist
  <2>2. g = [i \in 0 .. n |-> IF i = 0 THEN c ELSE next(i, g[i - 1])]
    BY <2>1, Zenon DEF PatchesOf
  <2> QED BY <2>2, Zenon
<1>2. Resolved(c) = run[n]
  BY DEF Resolved
<1> HIDE DEF next, n
<1>3. run = [i \in 0 .. n |-> IF i = 0 THEN c ELSE next(i, run[i - 1])]
  BY <1>1, Zenon
<1>4. run = [i \in 0 .. Len(ft) |-> IF i = 0 THEN c ELSE Patch(run[i - 1], ft[i].at, Displacement(ft[i]))]
  <2> HIDE DEF run
  <2> QED BY <1>3 DEF n, next
<1> HIDE DEF run
<1> QED BY <1>2, <1>4 DEF PatchesOf, n

(* The operands of the fixups lie in the first n bytes, apart. *)
Fields(n) ==
  /\ ft \in Seq([at : Nat, label : Nat])
  /\ \A i \in DOMAIN ft : ft[i].at + 4 <= n
  /\ \A i, j \in DOMAIN ft : i < j => Apart(ft[i].at, ft[j].at)

(* fixup_resolve_all writes every operand and nothing else, and no         *)
(* operand over another.                                                   *)
LEMMA ResolvedFacts ==
  ASSUME NEW c, IsBuf(c), Fields(c.len)
  PROVE  /\ IsBuf(Resolved(c)) /\ Resolved(c).len = c.len
         /\ \A i \in 0 .. c.len - 1 :
               (\A k \in DOMAIN ft : i \notin ft[k].at .. ft[k].at + 3) => Resolved(c).buf[i] = c.buf[i]
         /\ \A k \in DOMAIN ft : Has(Resolved(c), ft[k].at, Displacement(ft[k]))
<1> DEFINE n == Len(ft)
<1>1. /\ n \in Nat /\ DOMAIN ft = 1 .. n
      /\ \A i \in 1 .. n : ft[i].at \in Nat /\ ft[i].at + 4 <= c.len
  <2>1. n \in Nat /\ DOMAIN ft = 1 .. n
    BY LenProperties DEF Fields
  <2>2. ASSUME NEW i \in 1 .. n PROVE ft[i] \in [at : Nat, label : Nat]
    BY <2>1, ElementOfSeq DEF Fields
  <2> QED BY <2>1, <2>2 DEF Fields
<1>2. PICK g : PatchesOf(c, n, g) /\ Resolved(c) = g[n]
  BY <1>1, PatchesFacts
<1>3. \A i \in 0 .. n : g[i] = IF i = 0 THEN c ELSE Patch(g[i - 1], ft[i].at, Displacement(ft[i]))
  BY <1>2 DEF PatchesOf
<1> HIDE DEF n
<1> DEFINE Kept(b) == \A i \in 0 .. c.len - 1 :
                        (\A k \in DOMAIN ft : i \notin ft[k].at .. ft[k].at + 3) => b.buf[i] = c.buf[i]
           Done(i, b) == \A k \in 1 .. i : Has(b, ft[k].at, Displacement(ft[k]))
           Fine(i) == IsBuf(g[i]) /\ g[i].len = c.len /\ Kept(g[i]) /\ Done(i, g[i])
           T == {i \in Nat : i <= n => Fine(i)}
<1>4. 0 \in T
  <2>1. g[0] = c
    BY <1>1, <1>3
  <2> QED BY <2>1
<1>5. ASSUME NEW i \in Nat, i \in T PROVE i + 1 \in T
  <2> SUFFICES ASSUME i + 1 <= n PROVE Fine(i + 1)
    OBVIOUS
  <2> DEFINE at == ft[i + 1].at
             v == Displacement(ft[i + 1])
  <2>1. Fine(i)
    BY <1>1, <1>5
  <2>2. g[i + 1] = Patch(g[i], at, v) /\ i + 1 \in 1 .. n /\ at \in Nat /\ at + 4 <= c.len
    BY <1>1, <1>3
  <2> HIDE DEF at, v
  <2>3. /\ IsBuf(g[i + 1]) /\ g[i + 1].len = c.len
        /\ \A k \in 0 .. c.len - 1 : k \notin at .. at + 3 => g[i + 1].buf[k] = g[i].buf[k]
        /\ Has(g[i + 1], at, v)
    BY <2>1, <2>2, PatchFacts
  <2>4. Kept(g[i + 1])
    BY <1>1, <2>1, <2>2, <2>3 DEF at
  <2>5. ASSUME NEW k \in 1 .. i + 1
        PROVE  Has(g[i + 1], ft[k].at, Displacement(ft[k]))
    <3>1. CASE k = i + 1
      BY <2>3, <3>1 DEF at, v
    <3>2. CASE k # i + 1
      <4>1. k \in 1 .. i /\ k < i + 1 /\ k \in DOMAIN ft /\ i + 1 \in DOMAIN ft
        BY <1>1, <2>2, <3>2
      <4>2. Has(g[i], ft[k].at, Displacement(ft[k]))
        BY <2>1, <4>1
      <4>3. ft[k].at \in Nat /\ ft[k].at + 4 <= c.len /\ Apart(ft[k].at, at)
        BY <1>1, <4>1 DEF Fields, at
      <4>4. ASSUME NEW j \in ft[k].at .. ft[k].at + 3
            PROVE  g[i + 1].buf[j] = g[i].buf[j]
        <5>1. j \in 0 .. c.len - 1 /\ j \notin at .. at + 3
          <6> DEFINE here == ft[k].at
          <6>1. here \in Nat /\ here + 4 <= c.len /\ Apart(here, at) /\ j \in here .. here + 3
            BY <4>3
          <6>2. c.len \in Nat
            BY DEF IsBuf
          <6> HIDE DEF here
          <6> QED BY <2>2, <6>1, <6>2 DEF Apart
        <5> QED BY <2>3, <5>1
      <4> QED BY <4>2, <4>3, <4>4, HasStays
    <3> QED BY <3>1, <3>2
  <2> QED BY <2>3, <2>4, <2>5
<1> HIDE DEF T
<1>6. n \in T
  BY <1>1, <1>4, <1>5, Induction
<1>7. Fine(n)
  BY <1>1, <1>6 DEF T
<1> QED BY <1>1, <1>2, <1>7

-----------------------------------------------------------------------------
(* What each step does to the buffer and the tables. *)

AsmInv == TypeInv /\ FieldInv

(* The code emitted stays when more is emitted, operands included. *)
Grows == IsBuf(cb') /\ cb.len <= cb'.len /\ Same(cb, cb', cb.len)

LEMMA GrowsKeeps ==
  ASSUME IsBuf(cb), Grows, NEW at \in Nat, at + 4 <= cb.len, NEW v, Has(cb, at, v)
  PROVE  Has(cb', at, v)
<1>1. \A i \in at .. at + 3 : i \in 0 .. cb.len - 1
  BY DEF IsBuf
<1>2. \A i \in at .. at + 3 : cb'.buf[i] = cb.buf[i]
  BY <1>1 DEF Grows, Same
<1> QED BY <1>2, HasStays

LEMMA NewBufFacts == IsBuf(NewBuf) /\ NewBuf.len = 0
BY Constants DEF NewBuf, IsBuf

LEMMA PrologueFacts ==
  ASSUME NEW c, IsBuf(c), Prologue(c)
  PROVE  /\ IsBuf(cb') /\ sub_at' \in Nat /\ c.len <= sub_at' /\ sub_at' + 4 <= cb'.len
         /\ Same(c, cb', c.len)
<1> DEFINE a == Aligned(c)
           b == EmitBytes(a, 7)
           d == EmitI32(b, 0)
<1>1. cb' = d /\ sub_at' = b.len
  BY DEF Prologue
<1>2. IsBuf(a) /\ a.len \in Nat /\ c.len <= a.len /\ Same(c, a, c.len)
  BY AlignedFacts
<1> HIDE DEF a
<1>3. IsBuf(b) /\ b.len = a.len + 7 /\ Same(a, b, a.len)
  BY <1>2, EmitBytesFacts
<1> HIDE DEF b
<1>4. IsBuf(d) /\ d.len = b.len + 4 /\ Same(b, d, b.len)
  BY <1>3, EmitI32Facts
<1> HIDE DEF d
<1>5. c.len \in Nat
  BY DEF IsBuf
<1>6. Same(c, d, c.len)
  BY <1>2, <1>3, <1>4, <1>5 DEF Same
<1>7. b.len \in Nat /\ c.len <= b.len /\ b.len + 4 <= d.len
  BY <1>2, <1>3, <1>4, <1>5
<1> QED BY <1>1, <1>4, <1>6, <1>7

LEMMA BeginFacts ==
  ASSUME TypeInv, NEW n \in 0 .. MaxLabels, BeginFunc(n)
  PROVE  /\ IsBuf(cb') /\ sub_at' \in Nat /\ sub_at' + 4 <= cb'.len
         /\ FreshTables => ft' = << >> /\ lt' = << >> /\ jumps' = {} /\ places' = {} /\ frames' = {}
         /\ ~FreshTables => Grows /\ cb.len <= sub_at' /\ UNCHANGED <<ft, lt, jumps, places, frames>>
<1>1. IsBuf(cb) /\ cb.len \in Nat
  BY DEF TypeInv, IsBuf
<1>2. CASE FreshTables
  <2>1. Prologue(NewBuf) /\ ft' = << >> /\ lt' = << >> /\ jumps' = {} /\ places' = {} /\ frames' = {}
    BY <1>2 DEF BeginFunc
  <2>2. IsBuf(cb') /\ sub_at' \in Nat /\ sub_at' + 4 <= cb'.len
    BY <2>1, NewBufFacts, PrologueFacts, Zenon
  <2> QED BY <1>2, <2>1, <2>2, Zenon
<1>3. CASE ~FreshTables
  <2>1. Prologue(cb) /\ UNCHANGED <<ft, lt, jumps, places, frames>>
    BY <1>3 DEF BeginFunc, ghosts
  <2>2. /\ IsBuf(cb') /\ sub_at' \in Nat /\ cb.len <= sub_at' /\ sub_at' + 4 <= cb'.len
        /\ Same(cb, cb', cb.len)
    BY <1>1, <2>1, PrologueFacts
  <2>3. cb.len <= cb'.len
    BY <1>1, <2>2 DEF IsBuf
  <2>4. Grows
    BY <2>2, <2>3 DEF Grows
  <2> QED BY <1>3, <2>1, <2>2, <2>4, Zenon
<1> QED BY <1>2, <1>3

LEMMA PlainFacts ==
  ASSUME TypeInv, NEW k \in 1 .. 3, Plain(k)
  PROVE  Grows
<1>1. IsBuf(cb) /\ cb.len \in Nat /\ k \in Nat
  BY DEF TypeInv, IsBuf
<1>2. cb' = EmitBytes(cb, k)
  BY DEF Plain
<1>3. IsBuf(cb') /\ cb'.len = cb.len + k /\ Same(cb, cb', cb.len)
  BY <1>1, <1>2, EmitBytesFacts
<1> QED BY <1>1, <1>3 DEF Grows

(* A jump's operand is the last four bytes emitted. *)
LEMMA JumpFacts ==
  ASSUME TypeInv, NEW l \in 0 .. nlabels - 1, NEW k \in {1, 2}, Jump(l, k)
  PROVE  \E at \in Nat :
           /\ Grows /\ cb.len <= at /\ cb'.len = at + 4
           /\ ft' = Append(ft, [at |-> at, label |-> l])
           /\ jumps' = jumps \cup {[at |-> at, func |-> func, label |-> l]}
<1> DEFINE b == EmitBytes(cb, k)
<1>1. IsBuf(cb) /\ cb.len \in Nat /\ k \in Nat
  BY DEF TypeInv, IsBuf
<1>2. /\ cb' = EmitI32(b, 0) /\ ft' = Append(ft, [at |-> b.len, label |-> l])
      /\ jumps' = jumps \cup {[at |-> b.len, func |-> func, label |-> l]}
  BY DEF Jump
<1>3. IsBuf(b) /\ b.len = cb.len + k /\ Same(cb, b, cb.len)
  BY <1>1, EmitBytesFacts
<1> HIDE DEF b
<1>4. IsBuf(cb') /\ cb'.len = b.len + 4 /\ Same(b, cb', b.len)
  BY <1>2, <1>3, EmitI32Facts
<1>5. Same(cb, cb', cb.len)
  BY <1>1, <1>3, <1>4 DEF Same
<1>6. b.len \in Nat /\ cb.len <= b.len /\ cb.len <= cb'.len
  BY <1>1, <1>3, <1>4
<1> QED BY <1>2, <1>4, <1>5, <1>6 DEF Grows

(* The table of fixups with one more, apart from the others. *)
LEMMA FixupAdded ==
  ASSUME TypeInv, NEW at \in Nat, cb.len <= at, NEW l \in 0 .. nlabels - 1,
         ft' = Append(ft, [at |-> at, label |-> l])
  PROVE  /\ ft' \in Seq([at : Nat, label : 0 .. MaxLabels - 1])
         /\ Len(ft) \in Nat /\ DOMAIN ft = 1 .. Len(ft) /\ DOMAIN ft' = 1 .. Len(ft) + 1
         /\ \A i \in 1 .. Len(ft) : ft'[i] = ft[i] /\ ft[i].at \in Nat /\ ft[i].at + 4 <= cb.len
         /\ ft'[Len(ft) + 1] = [at |-> at, label |-> l]
<1> DEFINE F == [at : Nat, label : 0 .. MaxLabels - 1]
           f == [at |-> at, label |-> l]
<1>1. f \in F
  BY Constants DEF TypeInv
<1>2. ft \in Seq(F) /\ \A i \in DOMAIN ft : ft[i].at + 4 <= cb.len
  BY DEF TypeInv
<1>3. \A g \in F : g.at \in Nat
  OBVIOUS
<1> HIDE DEF F, f
<1>4. /\ ft' \in Seq(F) /\ Len(ft) \in Nat /\ DOMAIN ft = 1 .. Len(ft) /\ Len(ft') = Len(ft) + 1
      /\ \A i \in 1 .. Len(ft) : ft'[i] = ft[i]
      /\ ft'[Len(ft) + 1] = f
  BY <1>1, <1>2, AppendProperties, LenProperties DEF f
<1>5. DOMAIN ft' = 1 .. Len(ft) + 1
  BY <1>4, LenProperties
<1>6. \A i \in 1 .. Len(ft) : ft[i] \in F
  BY <1>2, <1>4, ElementOfSeq
<1> QED BY <1>2, <1>3, <1>4, <1>5, <1>6 DEF F, f

(* The table of labels with one more. *)
LEMMA LabelAdded ==
  ASSUME TypeInv, NEW l \in 0 .. nlabels - 1, ~TooMany(l), lt' = Defined(l, cb.len)
  PROVE  /\ lt' \in Seq(Int) /\ Len(lt') <= LabelCap /\ \A i \in DOMAIN lt' : lt'[i] \in -1 .. cb.len
         /\ l + 1 \in DOMAIN lt' /\ lt'[l + 1] = cb.len
         /\ \A i \in DOMAIN lt : i # l + 1 => i \in DOMAIN lt' /\ lt'[i] = lt[i]
<1> DEFINE m == Greater(Len(lt), l + 1)
           row(i) == IF i = l + 1 THEN cb.len ELSE IF i <= Len(lt) THEN lt[i] ELSE Undefined
<1>1. /\ Len(lt) \in Nat /\ DOMAIN lt = 1 .. Len(lt) /\ Len(lt) <= LabelCap
      /\ \A i \in 1 .. Len(lt) : lt[i] \in -1 .. cb.len
      /\ cb.len \in Nat /\ LabelCap \in Nat /\ l \in Nat
  <2>1. /\ lt \in Seq(Int) /\ Len(lt) <= LabelCap
        /\ \A i \in DOMAIN lt : lt[i] \in -1 .. cb.len
    BY DEF TypeInv
  <2>2. cb.len \in Nat /\ LabelCap \in Nat /\ l \in Nat
    BY Constants DEF TypeInv, IsBuf
  <2> QED BY <2>1, <2>2, LenProperties
<1>2. m \in Nat /\ Len(lt) <= m /\ l + 1 <= m /\ m <= LabelCap
  BY <1>1 DEF Greater, TooMany
<1> HIDE DEF m
<1>3. lt' = [i \in 1 .. m |-> row(i)]
  BY DEF Defined, m
<1>4. \A i \in 1 .. m : row(i) \in -1 .. cb.len /\ row(i) \in Int
  BY <1>1 DEF Undefined
<1>5. lt' \in Seq(Int)
  <2> HIDE DEF row
  <2> QED BY <1>2, <1>3, <1>4
<1>6. DOMAIN lt' = 1 .. m /\ \A i \in 1 .. m : lt'[i] = row(i)
  BY <1>3
<1>7. Len(lt') = m
  BY <1>2, <1>3
<1>8. l + 1 \in 1 .. m /\ \A i \in DOMAIN lt : i \in 1 .. m
  BY <1>1, <1>2
<1>9. \A i \in DOMAIN lt : i # l + 1 => row(i) = lt[i]
  BY <1>1
<1>10. row(l + 1) = cb.len
  OBVIOUS
<1> HIDE DEF row
<1> QED BY <1>2, <1>4, <1>5, <1>6, <1>7, <1>8, <1>9, <1>10

(* At the end of a function its frame size and every displacement are     *)
(* written, and no other byte.                                             *)
LEMMA EndFacts ==
  ASSUME AsmInv, NEW size \in FrameSizes, EndFunc(size), Resolvable
  PROVE  /\ IsBuf(cb') /\ cb'.len = cb.len
         /\ \A i \in 0 .. cb.len - 1 :
               (i \notin sub_at .. sub_at + 3 /\ \A k \in DOMAIN ft : i \notin ft[k].at .. ft[k].at + 3)
                 => cb'.buf[i] = cb.buf[i]
         /\ Has(cb', sub_at, size)
         /\ \A k \in DOMAIN ft : Has(cb', ft[k].at, Displacement(ft[k]))
<1> DEFINE c == Patch(cb, sub_at, size)
<1>1. /\ IsBuf(cb) /\ cb.len \in Nat /\ sub_at \in Nat /\ sub_at + 4 <= cb.len
      /\ \A i \in DOMAIN ft : Apart(sub_at, ft[i].at)
  BY DEF AsmInv, TypeInv, FieldInv, EndFunc, IsBuf
<1>2. /\ IsBuf(c) /\ c.len = cb.len
      /\ \A i \in 0 .. cb.len - 1 : i \notin sub_at .. sub_at + 3 => c.buf[i] = cb.buf[i]
      /\ Has(c, sub_at, size)
  BY <1>1, PatchFacts
<1>3. cb' = Resolved(c)
  BY DEF EndFunc
<1> HIDE DEF c
<1>4. Fields(c.len) /\ \A i \in DOMAIN ft : ft[i].at \in Nat
  <2>1. \A g \in [at : Nat, label : 0 .. MaxLabels - 1] : g \in [at : Nat, label : Nat]
    BY Constants
  <2>2. ft \in Seq([at : Nat, label : 0 .. MaxLabels - 1])
    BY DEF AsmInv, TypeInv
  <2>3. Len(ft) \in Nat /\ \A i \in 1 .. Len(ft) : ft[i] \in [at : Nat, label : Nat]
    BY <2>1, <2>2, ElementOfSeq, LenProperties
  <2>4. ft = [i \in 1 .. Len(ft) |-> ft[i]]
    BY <2>2, LenProperties
  <2>5. ft \in Seq([at : Nat, label : Nat])
    <3>1. [i \in 1 .. Len(ft) |-> ft[i]] \in Seq([at : Nat, label : Nat])
      BY <2>3
    <3> QED BY <2>4, <3>1, Zenon
  <2>6. \A i \in DOMAIN ft : ft[i].at \in Nat
    BY <2>3, <2>4
  <2> QED BY <1>2, <2>5, <2>6 DEF AsmInv, TypeInv, FieldInv, Fields
<1>5. /\ IsBuf(cb') /\ cb'.len = c.len
      /\ \A i \in 0 .. c.len - 1 :
               (\A k \in DOMAIN ft : i \notin ft[k].at .. ft[k].at + 3) => cb'.buf[i] = c.buf[i]
      /\ \A k \in DOMAIN ft : Has(cb', ft[k].at, Displacement(ft[k]))
  BY <1>2, <1>3, <1>4, ResolvedFacts
<1>6. Has(cb', sub_at, size)
  <2>1. ASSUME NEW i \in sub_at .. sub_at + 3
        PROVE  cb'.buf[i] = c.buf[i]
    <3>1. i \in 0 .. c.len - 1
      BY <1>1, <1>2
    <3>2. \A k \in DOMAIN ft : i \notin ft[k].at .. ft[k].at + 3
      BY <1>1, <1>4 DEF Apart
    <3> QED BY <1>5, <3>1, <3>2
  <2> QED BY <1>1, <1>2, <2>1, HasStays
<1> QED BY <1>2, <1>5, <1>6

-----------------------------------------------------------------------------
LEMMA FixupNumbers ==
  ASSUME TypeInv
  PROVE  /\ Len(ft) \in Nat /\ DOMAIN ft = 1 .. Len(ft)
         /\ \A i \in DOMAIN ft : ft[i].at \in Nat /\ ft[i].at + 4 <= cb.len
                               /\ ft[i].label \in 0 .. MaxLabels - 1
<1> DEFINE F == [at : Nat, label : 0 .. MaxLabels - 1]
<1>1. ft \in Seq(F) /\ \A i \in DOMAIN ft : ft[i].at + 4 <= cb.len
  BY DEF TypeInv
<1>2. \A f \in F : f.at \in Nat /\ f.label \in 0 .. MaxLabels - 1
  OBVIOUS
<1> HIDE DEF F
<1>3. Len(ft) \in Nat /\ DOMAIN ft = 1 .. Len(ft) /\ \A i \in DOMAIN ft : ft[i] \in F
  BY <1>1, LenProperties, ElementOfSeq
<1> QED BY <1>1, <1>2, <1>3

(* Each step keeps the types. *)
LEMMA TypeStep ==
  ASSUME AsmInv, [Next]_vars
  PROVE  TypeInv'
<1>1. IsBuf(cb) /\ cb.len \in Nat /\ sub_at \in 0 .. cb.len
  BY DEF AsmInv, TypeInv, IsBuf
<1>2. ASSUME NEW n \in 0 .. MaxLabels, BeginFunc(n)
      PROVE  TypeInv'
  <2>1. /\ IsBuf(cb') /\ sub_at' \in Nat /\ sub_at' + 4 <= cb'.len
        /\ FreshTables => ft' = << >> /\ lt' = << >>
        /\ ~FreshTables => cb.len <= cb'.len /\ UNCHANGED <<ft, lt>>
    BY <1>2, BeginFacts DEF AsmInv, Grows
  <2>2. phase' = "body" /\ func' \in 0 .. MaxFuncs /\ items' \in 0 .. MaxItems /\ nlabels' \in 0 .. MaxLabels
    BY <1>2, Constants DEF BeginFunc, AsmInv, TypeInv
  <2>3. sub_at' \in 0 .. cb'.len /\ cb'.len \in Nat
    <3>1. sub_at' \in Nat /\ sub_at' + 4 <= cb'.len /\ cb'.len \in Nat
      BY <2>1 DEF IsBuf
    <3> QED BY <3>1
  <2>4. CASE FreshTables
    <3>1. ft' = << >> /\ lt' = << >> /\ 0 <= LabelCap
      BY <2>1, <2>4, Constants
    <3>2. ft' \in Seq([at : Nat, label : 0 .. MaxLabels - 1]) /\ DOMAIN ft' = {}
          /\ lt' \in Seq(Int) /\ Len(lt') <= LabelCap /\ DOMAIN lt' = {}
      BY <3>1
    <3> QED BY <2>1, <2>2, <2>3, <3>2 DEF TypeInv
  <2>5. CASE ~FreshTables
    <3>1. \A i \in DOMAIN ft : ft[i].at + 4 <= cb'.len
      <4>1. \A i \in DOMAIN ft : ft[i].at \in Nat /\ ft[i].at + 4 <= cb.len
        BY FixupNumbers DEF AsmInv
      <4> QED BY <1>1, <2>1, <2>3, <2>5, <4>1
    <3>2. \A i \in DOMAIN lt : lt[i] \in -1 .. cb'.len
      <4>1. cb.len <= cb'.len
        BY <2>1, <2>5
      <4>2. \A i \in DOMAIN lt : lt[i] \in -1 .. cb.len
        BY DEF AsmInv, TypeInv
      <4> QED BY <1>1, <2>3, <4>1, <4>2
    <3> QED BY <2>1, <2>2, <2>3, <2>5, <3>1, <3>2 DEF AsmInv, TypeInv
  <2> QED BY <2>4, <2>5
<1>3. ASSUME Grows, UNCHANGED <<ft, lt>>
      PROVE  /\ \A i \in DOMAIN ft' : ft'[i].at + 4 <= cb'.len
             /\ \A i \in DOMAIN lt' : lt'[i] \in -1 .. cb'.len
             /\ sub_at \in 0 .. cb'.len
  <2>1. cb'.len \in Nat /\ cb.len <= cb'.len
    BY <1>3 DEF Grows, IsBuf
  <2>2. \A i \in DOMAIN ft : ft[i].at \in Nat /\ ft[i].at + 4 <= cb.len
    BY FixupNumbers DEF AsmInv
  <2>3. \A i \in DOMAIN lt : lt[i] \in -1 .. cb.len
    BY DEF AsmInv, TypeInv
  <2> QED BY <1>1, <1>3, <2>1, <2>2, <2>3
<1>4. ASSUME Item
      PROVE  /\ func' \in 0 .. MaxFuncs /\ items' \in 0 .. MaxItems /\ nlabels' \in 0 .. MaxLabels
             /\ sub_at' = sub_at
  BY <1>4, Constants DEF Item, AsmInv, TypeInv
<1>5. ASSUME NEW k \in 1 .. 3, Plain(k)
      PROVE  TypeInv'
  <2>1. Grows /\ UNCHANGED <<phase, ft, lt>> /\ Item
    BY <1>5, PlainFacts DEF AsmInv, Plain
  <2> QED BY <1>3, <1>4, <2>1 DEF AsmInv, TypeInv, Grows
<1>6. ASSUME NEW l \in 0 .. nlabels - 1, DefLabel(l)
      PROVE  TypeInv'
  <2>1. Item /\ UNCHANGED <<cb, ft>>
    BY <1>6 DEF DefLabel
  <2>2. CASE TooMany(l)
    <3>1. phase' = "panic" /\ UNCHANGED lt
      BY <1>6, <2>2 DEF DefLabel
    <3> QED BY <1>4, <2>1, <3>1 DEF AsmInv, TypeInv
  <2>3. CASE ~TooMany(l)
    <3>1. lt' = Defined(l, cb.len) /\ UNCHANGED phase
      BY <1>6, <2>3 DEF DefLabel
    <3>2. lt' \in Seq(Int) /\ Len(lt') <= LabelCap /\ \A i \in DOMAIN lt' : lt'[i] \in -1 .. cb.len
      BY <2>3, <3>1, LabelAdded DEF AsmInv
    <3> QED BY <1>4, <2>1, <3>1, <3>2 DEF AsmInv, TypeInv
  <2> QED BY <2>2, <2>3
<1>7. ASSUME NEW l \in 0 .. nlabels - 1, NEW k \in {1, 2}, Jump(l, k)
      PROVE  TypeInv'
  <2>1. PICK at \in Nat :
           /\ Grows /\ cb.len <= at /\ cb'.len = at + 4
           /\ ft' = Append(ft, [at |-> at, label |-> l])
    BY <1>7, JumpFacts DEF AsmInv
  <2>2. Item /\ UNCHANGED <<phase, lt>>
    BY <1>7 DEF Jump
  <2>3. /\ ft' \in Seq([at : Nat, label : 0 .. MaxLabels - 1])
        /\ Len(ft) \in Nat /\ DOMAIN ft' = 1 .. Len(ft) + 1
        /\ \A i \in 1 .. Len(ft) : ft'[i] = ft[i] /\ ft[i].at \in Nat /\ ft[i].at + 4 <= cb.len
        /\ ft'[Len(ft) + 1] = [at |-> at, label |-> l]
    BY <2>1, FixupAdded DEF AsmInv
  <2>4. ASSUME NEW i \in DOMAIN ft' PROVE ft'[i].at + 4 <= cb'.len
    <3>1. i \in 1 .. Len(ft) \/ i = Len(ft) + 1
      BY <2>3
    <3>2. CASE i \in 1 .. Len(ft)
      <4>1. ft'[i].at \in Nat /\ ft'[i].at + 4 <= cb.len
        BY <2>3, <3>2
      <4>2. cb.len <= at /\ cb'.len = at + 4
        BY <2>1
      <4> QED BY <1>1, <4>1, <4>2
    <3>3. CASE i = Len(ft) + 1
      BY <2>1, <2>3, <3>3
    <3> QED BY <3>1, <3>2, <3>3
  <2>5. \A i \in DOMAIN lt : lt[i] \in -1 .. cb'.len
    BY <1>1, <2>1 DEF AsmInv, TypeInv
  <2>6. sub_at \in 0 .. cb'.len
    BY <1>1, <2>1
  <2> QED BY <1>4, <2>1, <2>2, <2>3, <2>4, <2>5, <2>6 DEF AsmInv, TypeInv, Grows
<1>8. ASSUME NEW size \in FrameSizes, EndFunc(size)
      PROVE  TypeInv'
  <2>1. IsBuf(cb') /\ cb'.len = cb.len /\ phase' \in {"idle", "panic"}
    <3>1. CASE Resolvable
      BY <1>8, <3>1, EndFacts DEF EndFunc
    <3>2. CASE ~Resolvable
      BY <1>1, <1>8, <3>2 DEF EndFunc
    <3> QED BY <3>1, <3>2
  <2>2. UNCHANGED <<func, items, nlabels, sub_at, ft, lt>>
    BY <1>8 DEF EndFunc
  <2> QED BY <2>1, <2>2 DEF AsmInv, TypeInv
<1>9. CASE UNCHANGED vars
  BY <1>9 DEF vars, tables, AsmInv, TypeInv
<1> QED BY <1>2, <1>5, <1>6, <1>7, <1>8, <1>9 DEF Next

-----------------------------------------------------------------------------
(* Each step keeps the operands apart, and the frames written. *)
LEMMA FieldStep ==
  ASSUME AsmInv, [Next]_vars
  PROVE  FieldInv'
<1>1. /\ IsBuf(cb) /\ cb.len \in Nat /\ sub_at \in Nat /\ sub_at <= cb.len
      /\ Len(ft) \in Nat /\ DOMAIN ft = 1 .. Len(ft)
      /\ \A i \in DOMAIN ft : ft[i].at \in Nat /\ ft[i].at + 4 <= cb.len
  BY FixupNumbers DEF AsmInv, TypeInv, IsBuf
<1>2. /\ \A i, j \in DOMAIN ft : i < j => Apart(ft[i].at, ft[j].at)
      /\ \A i \in DOMAIN ft : \E j \in jumps : j.at = ft[i].at
      /\ \A f \in frames : f.at \in Nat /\ f.at + 4 <= cb.len /\ Has(cb, f.at, f.size)
      /\ \A f \in frames, i \in DOMAIN ft : Apart(f.at, ft[i].at)
      /\ phase = "body" => /\ sub_at + 4 <= cb.len
                           /\ \A i \in DOMAIN ft : Apart(sub_at, ft[i].at)
                           /\ \A f \in frames : Apart(sub_at, f.at)
  BY DEF AsmInv, FieldInv, Holds, Has
<1>3. ASSUME /\ \A i, j \in DOMAIN ft' : i < j => Apart(ft'[i].at, ft'[j].at)
             /\ \A i \in DOMAIN ft' : \E j \in jumps' : j.at = ft'[i].at
             /\ \A f \in frames' : f.at \in Nat /\ f.at + 4 <= cb'.len /\ Has(cb', f.at, f.size)
             /\ \A f \in frames', i \in DOMAIN ft' : Apart(f.at, ft'[i].at)
             /\ phase' = "body" => /\ sub_at' + 4 <= cb'.len
                                   /\ \A i \in DOMAIN ft' : Apart(sub_at', ft'[i].at)
                                   /\ \A f \in frames' : Apart(sub_at', f.at)
      PROVE  FieldInv'
  BY <1>3 DEF FieldInv, Holds, Has
<1>4. ASSUME Grows, NEW f \in frames
      PROVE  f.at + 4 <= cb'.len /\ Has(cb', f.at, f.size)
  <2>1. cb'.len \in Nat /\ cb.len <= cb'.len
    BY <1>4 DEF Grows, IsBuf
  <2>2. f.at \in Nat /\ f.at + 4 <= cb.len /\ Has(cb, f.at, f.size)
    BY <1>2
  <2> QED BY <1>1, <1>4, <2>1, <2>2, GrowsKeeps
<1>5. ASSUME NEW n \in 0 .. MaxLabels, BeginFunc(n)
      PROVE  FieldInv'
  <2>1. /\ sub_at' \in Nat /\ sub_at' + 4 <= cb'.len
        /\ FreshTables => ft' = << >> /\ frames' = {}
        /\ ~FreshTables => Grows /\ cb.len <= sub_at' /\ UNCHANGED <<ft, jumps, frames>>
    BY <1>5, BeginFacts DEF AsmInv
  <2>2. CASE FreshTables
    <3>1. DOMAIN ft' = {} /\ frames' = {} /\ sub_at' + 4 <= cb'.len
      BY <2>1, <2>2
    <3> QED BY <1>3, <3>1
  <2>3. CASE ~FreshTables
    <3>1. sub_at' + 4 <= cb'.len
      BY <2>1, Zenon
    <3>2. ASSUME NEW f \in frames PROVE Apart(sub_at', f.at)
      BY <1>1, <1>2, <2>1, <2>3 DEF Apart
    <3>3. ASSUME NEW i \in DOMAIN ft PROVE Apart(sub_at', ft[i].at)
      BY <1>1, <2>1, <2>3 DEF Apart
    <3>4. \A f \in frames : f.at \in Nat /\ f.at + 4 <= cb'.len /\ Has(cb', f.at, f.size)
      BY <1>2, <1>4, <2>1, <2>3
    <3>5. ft' = ft /\ jumps' = jumps /\ frames' = frames
      BY <2>1, <2>3
    <3> QED BY <1>2, <1>3, <3>1, <3>2, <3>3, <3>4, <3>5
  <2> QED BY <2>2, <2>3
<1>6. ASSUME NEW k \in 1 .. 3, Plain(k)
      PROVE  FieldInv'
  <2>1. Grows /\ UNCHANGED <<phase, sub_at, ft, jumps, frames>>
    BY <1>6, PlainFacts DEF AsmInv, Plain, Item
  <2>2. \A f \in frames : f.at \in Nat /\ f.at + 4 <= cb'.len /\ Has(cb', f.at, f.size)
    BY <1>2, <1>4, <2>1
  <2>3. sub_at + 4 <= cb.len => sub_at + 4 <= cb'.len
    BY <1>1, <2>1 DEF Grows, IsBuf
  <2> QED BY <1>2, <1>3, <2>1, <2>2, <2>3
<1>7. ASSUME NEW l \in 0 .. nlabels - 1, DefLabel(l)
      PROVE  FieldInv'
  <2>1. UNCHANGED <<cb, sub_at, ft, jumps, frames>> /\ (phase' = phase \/ phase' = "panic")
    BY <1>7 DEF DefLabel, Item
  <2> QED BY <1>2, <1>3, <2>1
<1>8. ASSUME NEW l \in 0 .. nlabels - 1, NEW k \in {1, 2}, Jump(l, k)
      PROVE  FieldInv'
  <2>1. PICK at \in Nat :
           /\ Grows /\ cb.len <= at /\ cb'.len = at + 4
           /\ ft' = Append(ft, [at |-> at, label |-> l])
           /\ jumps' = jumps \cup {[at |-> at, func |-> func, label |-> l]}
    BY <1>8, JumpFacts DEF AsmInv
  <2>2. UNCHANGED <<phase, sub_at, frames>> /\ phase = "body"
    BY <1>8 DEF Jump, Item
  <2>3. /\ DOMAIN ft' = 1 .. Len(ft) + 1
        /\ \A i \in 1 .. Len(ft) : ft'[i] = ft[i]
        /\ ft'[Len(ft) + 1].at = at
    <3>1. /\ DOMAIN ft' = 1 .. Len(ft) + 1
          /\ \A i \in 1 .. Len(ft) : ft'[i] = ft[i]
          /\ ft'[Len(ft) + 1] = [at |-> at, label |-> l]
      BY <2>1, FixupAdded DEF AsmInv
    <3> QED BY <3>1
  <2>4. \A i \in DOMAIN ft' : i \in DOMAIN ft \/ i = Len(ft) + 1
    BY <1>1, <2>3
  <2>5. ASSUME NEW b \in Nat, b + 4 <= cb.len PROVE Apart(b, at)
    BY <1>1, <2>1, <2>5 DEF Apart
  <2>6. ASSUME NEW i \in DOMAIN ft', NEW j \in DOMAIN ft', i < j
        PROVE  Apart(ft'[i].at, ft'[j].at)
    <3>1. i \in DOMAIN ft
      BY <1>1, <2>3, <2>6
    <3>2. CASE j \in DOMAIN ft
      BY <1>1, <1>2, <2>3, <2>6, <3>1, <3>2
    <3>3. CASE j = Len(ft) + 1
      BY <1>1, <2>3, <2>5, <3>1, <3>3
    <3> QED BY <2>4, <3>2, <3>3
  <2>7. ASSUME NEW i \in DOMAIN ft' PROVE \E j \in jumps' : j.at = ft'[i].at
    <3>1. CASE i \in DOMAIN ft
      BY <1>1, <1>2, <2>1, <2>3, <3>1
    <3>2. CASE i = Len(ft) + 1
      <4> DEFINE j == [at |-> at, func |-> func, label |-> l]
      <4>1. j \in jumps' /\ j.at = ft'[i].at
        BY <2>1, <2>3, <3>2
      <4> QED BY <4>1
    <3> QED BY <2>4, <3>1, <3>2
  <2>8. ASSUME NEW b \in Nat, b + 4 <= cb.len, \A i \in DOMAIN ft : Apart(b, ft[i].at)
        PROVE  \A i \in DOMAIN ft' : Apart(b, ft'[i].at)
    BY <1>1, <2>3, <2>4, <2>5, <2>8
  <2>9. \A f \in frames : f.at \in Nat /\ f.at + 4 <= cb'.len /\ Has(cb', f.at, f.size)
    BY <1>2, <1>4, <2>1
  <2>10. \A f \in frames : \A i \in DOMAIN ft' : Apart(f.at, ft'[i].at)
    BY <1>2, <2>8
  <2>11. sub_at + 4 <= cb'.len /\ \A i \in DOMAIN ft' : Apart(sub_at, ft'[i].at)
    <3>1. \A i \in DOMAIN ft' : Apart(sub_at, ft'[i].at)
      BY <1>1, <1>2, <2>2, <2>8
    <3>2. sub_at + 4 <= cb'.len
      BY <1>1, <1>2, <2>1, <2>2 DEF Grows, IsBuf
    <3> QED BY <3>1, <3>2
  <2> QED BY <1>2, <1>3, <2>2, <2>6, <2>7, <2>9, <2>10, <2>11
<1>9. ASSUME NEW size \in FrameSizes, EndFunc(size)
      PROVE  FieldInv'
  <2>1. UNCHANGED <<sub_at, ft, jumps>> /\ phase = "body" /\ phase' # "body"
    BY <1>9 DEF EndFunc
  <2>2. CASE ~Resolvable
    <3>1. UNCHANGED <<cb, frames>>
      BY <1>9, <2>2 DEF EndFunc
    <3> QED BY <1>2, <1>3, <2>1, <3>1
  <2>3. CASE Resolvable
    <3>1. /\ cb'.len = cb.len
          /\ \A i \in 0 .. cb.len - 1 :
               (i \notin sub_at .. sub_at + 3 /\ \A k \in DOMAIN ft : i \notin ft[k].at .. ft[k].at + 3)
                 => cb'.buf[i] = cb.buf[i]
          /\ Has(cb', sub_at, size)
      BY <1>9, <2>3, EndFacts
    <3>2. frames' = frames \cup {[at |-> sub_at, size |-> size]}
      BY <1>9, <2>3 DEF EndFunc
    <3>3. ASSUME NEW f \in frames PROVE Has(cb', f.at, f.size)
      <4>1. f.at \in Nat /\ f.at + 4 <= cb.len /\ Has(cb, f.at, f.size)
        BY <1>2
      <4>2. Apart(sub_at, f.at) /\ \A k \in DOMAIN ft : Apart(f.at, ft[k].at)
        BY <1>2, <2>1
      <4>3. ASSUME NEW i \in f.at .. f.at + 3 PROVE cb'.buf[i] = cb.buf[i]
        <5> DEFINE at == f.at
        <5>1. at \in Nat /\ at + 4 <= cb.len /\ Apart(sub_at, at)
              /\ (\A k \in DOMAIN ft : Apart(at, ft[k].at)) /\ i \in at .. at + 3
          BY <4>1, <4>2
        <5> HIDE DEF at
        <5>2. i \in 0 .. cb.len - 1 /\ i \notin sub_at .. sub_at + 3
          BY <1>1, <5>1 DEF Apart
        <5>3. \A k \in DOMAIN ft : i \notin ft[k].at .. ft[k].at + 3
          BY <1>1, <5>1 DEF Apart
        <5> QED BY <3>1, <5>2, <5>3
      <4> QED BY <4>1, <4>3, HasStays
    <3>4. \A f \in frames' : f \in frames \/ (f.at = sub_at /\ f.size = size)
      BY <3>2
    <3>5. ASSUME NEW f \in frames'
          PROVE  /\ f.at \in Nat /\ f.at + 4 <= cb'.len /\ Has(cb', f.at, f.size)
                 /\ \A i \in DOMAIN ft : Apart(f.at, ft[i].at)
      <4>1. CASE f \in frames
        BY <1>2, <3>1, <3>3, <4>1
      <4>2. CASE f.at = sub_at /\ f.size = size
        BY <1>1, <1>2, <2>1, <3>1, <4>2
      <4> QED BY <3>4, <4>1, <4>2
    <3> QED BY <1>2, <1>3, <2>1, <3>5
  <2> QED BY <2>2, <2>3
<1>10. CASE UNCHANGED vars
  BY <1>2, <1>3, <1>10 DEF vars, tables, ghosts
<1> QED BY <1>5, <1>6, <1>7, <1>8, <1>9, <1>10 DEF Next

LEMMA AsmInit == Init => AsmInv
<1> SUFFICES ASSUME Init PROVE AsmInv
  OBVIOUS
<1>1. IsBuf(cb) /\ cb.len = 0
  BY NewBufFacts DEF Init
<1>2. ft = << >> /\ lt = << >> /\ DOMAIN ft = {} /\ DOMAIN lt = {} /\ frames = {} /\ phase = "idle"
  BY DEF Init
<1>3. /\ func \in 0 .. MaxFuncs /\ items \in 0 .. MaxItems /\ nlabels \in 0 .. MaxLabels
      /\ sub_at = 0 /\ 0 <= LabelCap
  BY Constants DEF Init
<1>4. ft \in Seq([at : Nat, label : 0 .. MaxLabels - 1]) /\ lt \in Seq(Int) /\ Len(lt) = 0
  BY <1>2
<1>5. TypeInv
  BY <1>1, <1>2, <1>3, <1>4 DEF TypeInv
<1> QED BY <1>2, <1>5 DEF AsmInv, FieldInv

LEMMA AsmInvariant == Spec => []AsmInv
<1>1. AsmInv /\ [Next]_vars => AsmInv'
  BY TypeStep, FieldStep DEF AsmInv
<1> QED BY <1>1, AsmInit, PTL DEF Spec

(* The state of the assembler keeps its types: the buffer is as long as    *)
(* its capacity says, the fixups' operands lie inside it and the table of  *)
(* labels holds offsets of it.                                             *)
THEOREM AsmTypes == Spec => []TypeOK
<1>1. AsmInv => TypeOK
  <2> SUFFICES ASSUME AsmInv PROVE TypeOK
    OBVIOUS
  <2>1. \A i \in DOMAIN ft : ft[i].at + 4 <= cb.len /\ ft[i].label \in 0 .. MaxLabels - 1
    BY FixupNumbers DEF AsmInv
  <2>2. cb.len \in 0 .. cb.cap /\ DOMAIN cb.buf = 0 .. cb.cap - 1
    BY DEF AsmInv, TypeInv, IsBuf
  <2> QED BY <2>1, <2>2 DEF AsmInv, TypeInv, TypeOK
<1> QED BY <1>1, AsmInvariant, PTL

(* Once a function is finished its `sub rsp` has the frame size computed   *)
(* at the end, and keeps it while further functions are compiled into the  *)
(* same buffer, although the buffer moves.                                 *)
THEOREM FrameSizesPatched == Spec => []FramesPatched
<1>1. AsmInv => FramesPatched
  BY DEF AsmInv, FieldInv, FramesPatched
<1> QED BY <1>1, AsmInvariant, PTL

-----------------------------------------------------------------------------
(* Whatever is emitted into a buffer and is no placeholder stays as it is, *)
(* through every growth of the buffer and every patch, of its own function *)
(* or, in the buffer that the AOT compiler shares, of a later one.         *)
THEOREM BytesStay == Spec => EmittedBytesStay
<1> DEFINE Stays == \/ phase = "idle" /\ FreshTables
                    \/ \A i \in 0 .. cb.len - 1 : i \in Placeholders \/ cb'.buf[i] = cb.buf[i]
<1>1. ASSUME AsmInv, Next PROVE Stays
  <2>1. ASSUME Grows PROVE Stays
    BY <2>1 DEF Grows, Same
  <2>2. ASSUME NEW n \in 0 .. MaxLabels, BeginFunc(n) PROVE Stays
    <3>1. phase = "idle" /\ (~FreshTables => Grows)
      BY <1>1, <2>2, BeginFacts DEF AsmInv, BeginFunc
    <3> QED BY <2>1, <3>1
  <2>3. ASSUME NEW k \in 1 .. 3, Plain(k) PROVE Stays
    BY <1>1, <2>1, <2>3, PlainFacts DEF AsmInv
  <2>4. ASSUME NEW l \in 0 .. nlabels - 1, DefLabel(l) PROVE Stays
    BY <2>4 DEF DefLabel
  <2>5. ASSUME NEW l \in 0 .. nlabels - 1, NEW k \in {1, 2}, Jump(l, k) PROVE Stays
    <3>1. Grows
      BY <1>1, <2>5, JumpFacts DEF AsmInv
    <3> QED BY <2>1, <3>1
  <2>6. ASSUME NEW size \in FrameSizes, EndFunc(size) PROVE Stays
    <3>1. CASE ~Resolvable
      BY <2>6, <3>1 DEF EndFunc
    <3>2. CASE Resolvable
      <4>1. ASSUME NEW i \in 0 .. cb.len - 1, i \notin Placeholders
            PROVE  cb'.buf[i] = cb.buf[i]
        <5>1. i \notin sub_at .. sub_at + 3 /\ \A j \in jumps : i \notin j.at .. j.at + 3
          <6>1. i \notin sub_at .. sub_at + 3 /\ i \notin UNION {j.at .. j.at + 3 : j \in jumps}
            <7> DEFINE Here == sub_at .. sub_at + 3
                       There == UNION {j.at .. j.at + 3 : j \in jumps}
            <7>1. Placeholders = There \cup Here
              BY DEF Placeholders
            <7>2. i \notin Placeholders
              BY <4>1
            <7> HIDE DEF Here, There
            <7>3. i \notin Here /\ i \notin There
              BY <7>1, <7>2
            <7> QED BY <7>3 DEF Here, There
          <6>2. ASSUME NEW j \in jumps, i \in j.at .. j.at + 3 PROVE FALSE
            <7>1. j.at .. j.at + 3 \in {k.at .. k.at + 3 : k \in jumps}
              BY <6>2, Zenon
            <7> QED BY <6>1, <6>2, <7>1, Zenon
          <6> QED BY <6>1, <6>2
        <5>2. \A k \in DOMAIN ft : i \notin ft[k].at .. ft[k].at + 3
          BY <1>1, <5>1 DEF AsmInv, FieldInv
        <5> QED BY <1>1, <2>6, <3>2, <5>1, <5>2, EndFacts
      <4> QED BY <4>1
    <3> QED BY <3>1, <3>2
  <2> QED BY <1>1, <2>2, <2>3, <2>4, <2>5, <2>6 DEF Next
<1>2. AsmInv /\ [Next]_vars => [Stays]_vars
  BY <1>1
<1> QED BY <1>2, AsmInvariant, PTL DEF Spec, EmittedBytesStay

-----------------------------------------------------------------------------
(* With tables of its own for each function, every operand is resolved     *)
(* with the labels of its function.                                        *)
LEMMA JumpStep ==
  ASSUME FreshTables, AsmInv, JumpInv, [Next]_vars
  PROVE  JumpInv'
<1>1. /\ \A j \in jumps : j.func = func /\ \E i \in DOMAIN ft : ft[i].at = j.at /\ ft[i].label = j.label
      /\ \A p \in places :
            p.func = func /\ p.label \in Nat /\ p.label + 1 \in DOMAIN lt /\ lt[p.label + 1] = p.at
  BY DEF JumpInv
<1>2. ASSUME NEW n \in 0 .. MaxLabels, BeginFunc(n)
      PROVE  JumpInv'
  <2>1. jumps' = {} /\ places' = {} /\ phase' = "body"
    BY <1>2, BeginFacts DEF AsmInv, BeginFunc
  <2> QED BY <2>1 DEF JumpInv
<1>3. ASSUME NEW k \in 1 .. 3, Plain(k)
      PROVE  JumpInv'
  <2>1. UNCHANGED <<phase, func, ft, lt, jumps, places>> /\ phase = "body"
    BY <1>3 DEF Plain, Item
  <2> QED BY <1>1, <2>1 DEF JumpInv
<1>4. ASSUME NEW l \in 0 .. nlabels - 1, DefLabel(l)
      PROVE  JumpInv'
  <2>1. UNCHANGED <<func, ft, jumps>> /\ phase = "body" /\ phase' \in {"body", "panic"}
        /\ l \in Nat /\ l \notin PlacedHere
    BY <1>4 DEF DefLabel, Item, AsmInv, TypeInv
  <2>2. CASE TooMany(l)
    <3>1. UNCHANGED <<lt, places>>
      BY <1>4, <2>2 DEF DefLabel
    <3> QED BY <1>1, <2>1, <3>1 DEF JumpInv
  <2>3. CASE ~TooMany(l)
    <3> DEFINE q == [func |-> func, label |-> l, at |-> cb.len]
    <3>1. lt' = Defined(l, cb.len) /\ places' = places \cup {q}
      BY <1>4, <2>3 DEF DefLabel
    <3>2. /\ l + 1 \in DOMAIN lt' /\ lt'[l + 1] = cb.len
          /\ \A i \in DOMAIN lt : i # l + 1 => i \in DOMAIN lt' /\ lt'[i] = lt[i]
      BY <2>3, <3>1, LabelAdded DEF AsmInv
    <3>3. ASSUME NEW p \in places'
          PROVE  p.func = func /\ p.label \in Nat /\ p.label + 1 \in DOMAIN lt' /\ lt'[p.label + 1] = p.at
      <4>1. CASE p \in places
        <5>1. p.label \in PlacedHere
          BY <1>1, <4>1 DEF PlacedHere
        <5>2. p.label \in Nat /\ p.label + 1 # l + 1
          BY <1>1, <2>1, <4>1, <5>1
        <5> QED BY <1>1, <3>2, <4>1, <5>2
      <4>2. CASE p = q
        BY <2>1, <3>2, <4>2
      <4> QED BY <3>1, <4>1, <4>2
    <3> QED BY <1>1, <2>1, <3>3 DEF JumpInv
  <2> QED BY <2>2, <2>3
<1>5. ASSUME NEW l \in 0 .. nlabels - 1, NEW k \in {1, 2}, Jump(l, k)
      PROVE  JumpInv'
  <2>1. PICK at \in Nat :
           /\ cb.len <= at
           /\ ft' = Append(ft, [at |-> at, label |-> l])
           /\ jumps' = jumps \cup {[at |-> at, func |-> func, label |-> l]}
    BY <1>5, JumpFacts DEF AsmInv
  <2>2. UNCHANGED <<phase, func, lt, places>> /\ phase = "body"
    BY <1>5 DEF Jump, Item
  <2>3. /\ Len(ft) \in Nat /\ DOMAIN ft = 1 .. Len(ft) /\ DOMAIN ft' = 1 .. Len(ft) + 1
        /\ \A i \in 1 .. Len(ft) : ft'[i] = ft[i]
        /\ ft'[Len(ft) + 1] = [at |-> at, label |-> l]
    BY <2>1, FixupAdded DEF AsmInv
  <2>4. ASSUME NEW j \in jumps'
        PROVE  j.func = func /\ \E i \in DOMAIN ft' : ft'[i].at = j.at /\ ft'[i].label = j.label
    <3>1. CASE j \in jumps
      <4>1. PICK i \in DOMAIN ft : ft[i].at = j.at /\ ft[i].label = j.label
        BY <1>1, <3>1
      <4>2. i \in DOMAIN ft' /\ ft'[i] = ft[i]
        BY <2>3
      <4> QED BY <1>1, <3>1, <4>1, <4>2
    <3>2. CASE j = [at |-> at, func |-> func, label |-> l]
      <4>1. Len(ft) + 1 \in DOMAIN ft'
        BY <2>3
      <4>2. ft'[Len(ft) + 1].at = j.at /\ ft'[Len(ft) + 1].label = j.label /\ j.func = func
        BY <2>3, <3>2
      <4> QED BY <4>1, <4>2
    <3> QED BY <2>1, <3>1, <3>2
  <2> QED BY <1>1, <2>2, <2>4 DEF JumpInv
<1>6. ASSUME NEW size \in FrameSizes, EndFunc(size)
      PROVE  JumpInv'
  <2>1. UNCHANGED <<func, ft, lt, jumps, places>>
    BY <1>6 DEF EndFunc
  <2>2. phase' = "idle" => \A i \in DOMAIN ft : Has(cb', ft[i].at, Displacement(ft[i]))
    <3>1. phase' = "idle" => Resolvable
      BY <1>6 DEF EndFunc
    <3> QED BY <1>6, <3>1, EndFacts
  <2>3. (phase = "idle" => \A i \in DOMAIN ft : Holds(ft[i].at, Displacement(ft[i])))'
    BY <2>1, <2>2 DEF Has, Holds, Displacement
  <2> QED BY <1>1, <2>1, <2>3 DEF JumpInv
<1>7. CASE UNCHANGED vars
  BY <1>7 DEF JumpInv, vars, tables, ghosts, Holds, Displacement
<1> QED BY <1>2, <1>3, <1>4, <1>5, <1>6, <1>7 DEF Next

(* Once a function is finished, every jump in it leads to the place where  *)
(* its own function defined its label.  The JIT compiles each function     *)
(* into tables of its own; in the AOT compiler's shared tables it is false *)
(* (run AsmShared).                                                        *)
THEOREM JumpsAreResolved == FreshTables /\ Spec => []JumpsReachOwnLabels
<1> DEFINE JInv == FreshTables /\ JumpInv
<1>1. FreshTables /\ Init => JInv
  BY DEF Init, JumpInv
<1>2. AsmInv /\ JInv /\ [Next]_vars => JInv'
  BY JumpStep
<1>3. JInv => JumpsReachOwnLabels
  <2> SUFFICES ASSUME JumpInv, phase = "idle", NEW j \in jumps, NEW p \in places,
                      p.func = j.func, p.label = j.label
               PROVE  Holds(j.at, p.at - (j.at + 4))
    BY DEF JumpsReachOwnLabels
  <2>1. PICK i \in DOMAIN ft : ft[i].at = j.at /\ ft[i].label = j.label
    BY DEF JumpInv
  <2>2. Holds(ft[i].at, Displacement(ft[i])) /\ lt[p.label + 1] = p.at
    BY DEF JumpInv
  <2>3. Displacement(ft[i]) = p.at - (j.at + 4)
    BY <2>1, <2>2 DEF Displacement
  <2> QED BY <2>1, <2>2, <2>3
<1> HIDE DEF JInv
<1> QED BY <1>1, <1>2, <1>3, AsmInvariant, PTL DEF Spec
=============================================================================
