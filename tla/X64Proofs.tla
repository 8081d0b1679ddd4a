------------------------------ MODULE X64Proofs ------------------------------
(***************************************************************************)
(* The encoder is right for every register, displacement and immediate:    *)
(* proofs about X64.                                                       *)
(*                                                                         *)
(* What is proved is EncodingsDecode, of the text one call has written; it *)
(* speaks of that text alone, so it needs no strengthening.  The text is   *)
(* taken apart in the order the decoder reads it: From(n, s) says that the *)
(* bytes from n on are s, and each of the lemmas Read* says what the       *)
(* decoder makes of the first part of s and what is left.  Written holds   *)
(* the parts of an instruction; BySize, NotBytes, WideOnly, RexShort and   *)
(* RexLong are what is read for each way the code chooses a REX prefix.    *)
(* Then there is one lemma for each function, named for its action, which  *)
(* compares what is read with what was asked, and with Gap.                *)
(***************************************************************************)
EXTENDS X64, SequenceTheorems, TLAPS

Byte == 0 .. 255
Int32 == {v \in Int : -2147483647 - 1 <= v /\ v <= 2147483647}

(* The byte of a number that counts for 256 ^ k. *)
Digit(v, k) == (v \div 256 ^ k) % 256

LEMMA Powers == 256 ^ 0 = 1 /\ 256 ^ 1 = 256 /\ 256 ^ 2 = 65536 /\ 256 ^ 3 = 16777216
  BY SMT

LEMMA DigitType ==
  ASSUME NEW v \in Int
  PROVE  \A k \in 0 .. 3 : Digit(v, k) \in Byte
  BY Powers, SMT DEF Digit, Byte

LEMMA LeBytes ==
  ASSUME NEW v \in Int
  PROVE  /\ Le(v, 1) = <<Digit(v, 0)>>
         /\ Le(v, 2) = <<Digit(v, 0), Digit(v, 1)>>
         /\ Le(v, 4) = <<Digit(v, 0), Digit(v, 1), Digit(v, 2), Digit(v, 3)>>
  BY SMT DEF Le, Digit

LEMMA Tuples ==
  ASSUME NEW S, NEW a \in S, NEW b \in S, NEW c \in S, NEW d \in S
  PROVE  /\ <<a>> \in Seq(S) /\ Len(<<a>>) = 1
         /\ <<a, b>> \in Seq(S) /\ Len(<<a, b>>) = 2
         /\ <<a, b, c, d>> \in Seq(S) /\ Len(<<a, b, c, d>>) = 4
  OBVIOUS

LEMMA LeType ==
  ASSUME NEW v \in Int, NEW n \in {1, 2, 4}
  PROVE  Le(v, n) \in Seq(Byte) /\ Len(Le(v, n)) = n
<1>1. Digit(v, 0) \in Byte /\ Digit(v, 1) \in Byte /\ Digit(v, 2) \in Byte /\ Digit(v, 3) \in Byte
  BY DigitType
<1>2. CASE n = 1
  <2>1. <<Digit(v, 0)>> \in Seq(Byte) /\ Len(<<Digit(v, 0)>>) = 1  BY <1>1, Tuples
  <2>2. Le(v, 1) = <<Digit(v, 0)>>  BY LeBytes
  <2>3. Le(v, 1) \in Seq(Byte) /\ Len(Le(v, 1)) = 1  BY <2>1, <2>2, Zenon
  <2> QED  BY <1>2, <2>3
<1>3. CASE n = 2  BY <1>1, <1>3, LeBytes, Tuples, ZenonT(60)
<1>4. CASE n = 4
  <2> DEFINE s == <<Digit(v, 0), Digit(v, 1), Digit(v, 2), Digit(v, 3)>>
  <2>1. s \in Seq(Byte) /\ Len(s) = 4  BY <1>1, Tuples
  <2>2. Le(v, 4) = s  BY LeBytes
  <2>3. Le(v, 4) \in Seq(Byte) /\ Len(Le(v, 4)) = 4  BY <2>1, <2>2, Zenon
  <2> QED  BY <1>4, <2>3
<1> QED  BY <1>2, <1>3, <1>4

LEMMA Div256 ==
  ASSUME NEW v \in Int
  PROVE  v \div 256 \in Int /\ v % 256 \in 0 .. 255 /\ v = 256 * (v \div 256) + (v % 256)
  BY SMT

LEMMA DivTwice ==
  ASSUME NEW v \in Int
  PROVE  /\ v \div 65536 = (v \div 256) \div 256
         /\ v \div 16777216 = ((v \div 256) \div 256) \div 256
  BY SMT

(* The number a field of four bytes holds. *)
LEMMA Four ==
  ASSUME NEW v \in Int32
  PROVE  v = Digit(v, 0) + 256 * Digit(v, 1) + 65536 * Digit(v, 2)
                 + (IF Digit(v, 3) >= 128 THEN Digit(v, 3) - 256 ELSE Digit(v, 3)) * 256 ^ 3
<1> DEFINE a == v \div 256  b == a \div 256  c == b \div 256
<1>0. v \in Int  BY SMT DEF Int32
<1>1. /\ v = 256 * a + (v % 256) /\ v % 256 \in 0 .. 255 /\ a \in Int
  BY <1>0, Div256
<1>2. /\ a = 256 * b + (a % 256) /\ a % 256 \in 0 .. 255 /\ b \in Int
  BY <1>1, Div256
<1>3. /\ b = 256 * c + (b % 256) /\ b % 256 \in 0 .. 255 /\ c \in Int
  BY <1>2, Div256
<1>4. /\ Digit(v, 0) = v % 256 /\ Digit(v, 1) = a % 256
      /\ Digit(v, 2) = b % 256 /\ Digit(v, 3) = c % 256
  BY <1>0, Powers, DivTwice, SMT DEF Digit
<1> HIDE DEF a, b, c
<1>5. c \in -128 .. 127
  BY <1>1, <1>2, <1>3, SMT DEF Int32
<1>6. c = IF c % 256 >= 128 THEN (c % 256) - 256 ELSE c % 256
  BY <1>5, SMT
<1>7. c = IF Digit(v, 3) >= 128 THEN Digit(v, 3) - 256 ELSE Digit(v, 3)
  BY <1>4, <1>6
<1>8. v = Digit(v, 0) + 256 * Digit(v, 1) + 65536 * Digit(v, 2) + c * 16777216
  BY <1>0, <1>1, <1>2, <1>3, <1>4, SMT
<1> QED  BY <1>7, <1>8, Powers, SMT

-----------------------------------------------------------------------------
(* Reading a text by its parts: `text'` ends in the bytes s from n on. *)

From(n, s) ==
    /\ n \in Nat \ {0} /\ s \in Seq(Byte) /\ Len(text') = n - 1 + Len(s)
    /\ \A k \in 1 .. Len(s) : text'[n - 1 + k] = s[k]

(* The byte there: ByteAt in the text written. *)
At(i) == IF i <= Len(text') THEN text'[i] ELSE 0

LEMMA FromAll ==
  ASSUME text' \in Seq(Byte)
  PROVE  From(1, text')
  BY DEF From

LEMMA FromAt ==
  ASSUME NEW n, NEW s, From(n, s), NEW k \in 1 .. Len(s)
  PROVE  At(n - 1 + k) = s[k]
<1>1. Len(s) \in Nat  BY DEF From
<1> QED  BY <1>1 DEF From, At

LEMMA FromFirst ==
  ASSUME NEW n, NEW s, From(n, s), s # << >>
  PROVE  At(n) = s[1]
<1>1. Len(s) \in Nat \ {0} /\ n \in Nat  BY DEF From
<1>2. At(n - 1 + 1) = s[1]  BY <1>1, FromAt
<1> QED  BY <1>1, <1>2

LEMMA FromTail ==
  ASSUME NEW n, NEW s \in Seq(Byte), NEW t \in Seq(Byte), From(n, s \o t)
  PROVE  From(n + Len(s), t)
<1>1. Len(s) \in Nat /\ Len(t) \in Nat /\ n \in Nat \ {0}  BY DEF From
<1>2. Len(s \o t) = Len(s) + Len(t)  OBVIOUS
<1>3. ASSUME NEW k \in 1 .. Len(t)
      PROVE  text'[n + Len(s) - 1 + k] = t[k]
  <2>1. Len(s) + k \in 1 .. Len(s \o t)  BY <1>1, <1>2
  <2>2. (s \o t)[Len(s) + k] = t[k]  BY <1>1
  <2>3. text'[n - 1 + (Len(s) + k)] = t[k]  BY <2>1, <2>2 DEF From
  <2> QED  BY <1>1, <2>3
<1> QED  BY <1>1, <1>2, <1>3 DEF From

LEMMA FromHead ==
  ASSUME NEW n, NEW s \in Seq(Byte), NEW t \in Seq(Byte), From(n, s \o t), NEW k \in 1 .. Len(s)
  PROVE  At(n - 1 + k) = s[k]
<1>1. Len(s) \in Nat /\ Len(t) \in Nat /\ Len(s \o t) = Len(s) + Len(t)  OBVIOUS
<1>2. k \in 1 .. Len(s \o t) /\ (s \o t)[k] = s[k]  BY <1>1
<1> QED  BY <1>2, FromAt

-----------------------------------------------------------------------------
(* The prefixes and the opcode. *)

Mandatory == {\h66, \hF2, \hF3}

(* A REX prefix with the bits w, r and b, or none if they are all clear. *)
Rex(x, w, r, b) == x = Forced(w, r, b) \/ (x = << >> /\ ~w /\ ~r /\ ~b)

LEMMA RexType ==
  ASSUME NEW w \in BOOLEAN, NEW r \in BOOLEAN, NEW b \in BOOLEAN
  PROVE  /\ Forced(w, r, b) \in Seq(Byte) /\ Len(Forced(w, r, b)) = 1
         /\ Forced(w, r, b)[1] \in \h40 .. \h4F
         /\ (Forced(w, r, b)[1] \div 8) % 2 = 1 <=> w
         /\ (Forced(w, r, b)[1] \div 4) % 2 = 1 <=> r
         /\ (Forced(w, r, b)[1] \div 1) % 2 = 1 <=> b
  BY DEF Forced, Bit, Byte

LEMMA ReadPrefix ==
  ASSUME NEW p, p = << >> \/ (\E c \in Mandatory : p = <<c>>),
         NEW s \in Seq(Byte), s # << >>, s[1] \notin Mandatory, From(1, p \o s)
  PROVE  /\ Legacy' = IF p = << >> THEN 0 ELSE p[1]
         /\ From(RexAt', s)
<1>1. CASE p = << >>
  <2>1. From(1, s)  BY <1>1
  <2>2. At(1) = s[1]  BY <2>1, FromFirst
  <2> QED  BY <1>1, <2>1, <2>2 DEF Legacy, RexAt, Mandatory, ByteAt, At
<1>2. ASSUME NEW c \in Mandatory, p = <<c>>
      PROVE  Legacy' = c /\ From(RexAt', s)
  <2>1. p \in Seq(Byte) /\ Len(p) = 1 /\ p[1] = c /\ c # 0  BY <1>2 DEF Byte, Mandatory
  <2>2. From(1 + 1, s)  BY <2>1, FromTail
  <2>3. At(1) = p[1]
    <3>1. \A n : From(n, p \o s) => At(n - 1 + 1) = p[1]  BY <2>1, FromHead
    <3> QED  BY <3>1
  <2>4. Legacy' = c /\ RexAt' = 2  BY <2>1, <2>3 DEF Legacy, RexAt, Mandatory, ByteAt, At
  <2> QED  BY <2>2, <2>4
<1> QED  BY <1>1, <1>2

LEMMA ReadRex ==
  ASSUME NEW w \in BOOLEAN, NEW r \in BOOLEAN, NEW b \in BOOLEAN, NEW x, Rex(x, w, r, b),
         NEW s \in Seq(Byte), s # << >>, s[1] \notin \h40 .. \h4F, From(RexAt', x \o s)
  PROVE  /\ HasRex' <=> x # << >>
         /\ (RexBit(8)' <=> w) /\ (RexBit(4)' <=> r) /\ (RexBit(1)' <=> b)
         /\ From(OpAt', s)
<1> DEFINE n == RexAt'
<1>0. n \in Nat \ {0}  BY DEF From
<1>1. CASE x = << >> /\ ~w /\ ~r /\ ~b
  <2>1. From(n, s)  BY <1>1
  <2>2. At(n) = s[1]  BY <2>1, FromFirst
  <2>3. ByteAt(RexAt)' = s[1]  BY <2>2 DEF ByteAt, At
  <2>4. ~HasRex'  BY <2>3 DEF HasRex
  <2> QED  BY <1>1, <2>1, <2>4 DEF RexBit, OpAt
<1>2. CASE x = Forced(w, r, b)
  <2> DEFINE c == Forced(w, r, b)[1]
  <2>1. x \in Seq(Byte) /\ Len(x) = 1 /\ x[1] = c /\ c \in \h40 .. \h4F /\ x # << >>
    BY <1>2, RexType
  <2>2. From(n + 1, s)  BY <2>1, FromTail
  <2>3. At(n - 1 + 1) = c  BY <2>1, FromHead
  <2>4. ByteAt(RexAt)' = c  BY <1>0, <2>3 DEF ByteAt, At
  <2>5. HasRex' /\ OpAt' = n + 1  BY <2>1, <2>4 DEF HasRex, OpAt
  <2>6. (RexBit(8)' <=> w) /\ (RexBit(4)' <=> r) /\ (RexBit(1)' <=> b)
    BY <2>4, <2>5, RexType DEF RexBit
  <2> QED  BY <2>1, <2>2, <2>5, <2>6
<1> QED  BY <1>1, <1>2 DEF Rex

LEMMA ReadOpcode ==
  ASSUME NEW op \in Byte, op # \h0F, NEW s \in Seq(Byte), From(OpAt', <<op>> \o s)
  PROVE  ~TwoByte' /\ OpByte' = op /\ From(After', s)
<1> DEFINE n == OpAt'  h == <<op>>
<1>0. n \in Nat \ {0} /\ From(n, h \o s)  BY DEF From
<1>1. h \in Seq(Byte) /\ Len(h) = 1 /\ h[1] = op  OBVIOUS
<1> HIDE DEF h
<1>2. At(n - 1 + 1) = op  BY <1>0, <1>1, FromHead, SMTT(40)
<1>3. ByteAt(OpAt)' = op  BY <1>0, <1>2 DEF ByteAt, At
<1>4. From(n + 1, s)  BY <1>0, <1>1, FromTail
<1> QED  BY <1>3, <1>4 DEF TwoByte, OpByte, After

LEMMA ReadOpcodes ==
  ASSUME NEW op \in Byte, NEW s \in Seq(Byte), From(OpAt', <<\h0F, op>> \o s)
  PROVE  TwoByte' /\ OpByte' = op /\ From(After', s)
<1> DEFINE n == OpAt'  h == <<\h0F, op>>
<1>0. n \in Nat \ {0} /\ From(n, h \o s)  BY DEF From
<1>1. h \in Seq(Byte) /\ Len(h) = 2 /\ h[1] = \h0F /\ h[2] = op  BY DEF Byte
<1> HIDE DEF h
<1>2. At(n - 1 + 1) = \h0F /\ At(n - 1 + 2) = op
  <2> HIDE DEF n
  <2>1. 1 \in 1 .. Len(h) /\ 2 \in 1 .. Len(h)  BY <1>1
  <2>2. \A k \in 1 .. Len(h) : At(n - 1 + k) = h[k]  BY <1>0, <1>1, FromHead
  <2> QED  BY <1>1, <2>1, <2>2
<1>3. ByteAt(OpAt)' = \h0F /\ ByteAt(OpAt + 1)' = op  BY <1>0, <1>2 DEF ByteAt, At
<1>4. From(n + 2, s)  BY <1>0, <1>1, FromTail
<1> QED  BY <1>3, <1>4 DEF TwoByte, OpByte, After

-----------------------------------------------------------------------------
(* The operands. *)

(* The number a field of three bits and a bit of the prefix make. *)
Joined(n, h) == (n % 8) + 8 * Bit(h)

LEMMA ModRMFields ==
  ASSUME NEW mod \in 0 .. 3, NEW reg \in 0 .. 15, NEW rm \in 0 .. 15
  PROVE  /\ ModRM(mod, reg, rm) \in Byte
         /\ ModRM(mod, reg, rm) \div 64 = mod
         /\ (ModRM(mod, reg, rm) \div 8) % 8 = reg % 8
         /\ ModRM(mod, reg, rm) % 8 = rm % 8
<1> DEFINE a == reg % 8  c == rm % 8
<1>1. a \in 0 .. 7 /\ c \in 0 .. 7  OBVIOUS
<1>2. ModRM(mod, reg, rm) = 64 * mod + 8 * a + c  BY DEF ModRM
<1> HIDE DEF a, c
<1>3. (64 * mod + 8 * a + c) \div 8 = 8 * mod + a  BY <1>1
<1>4. (8 * mod + a) % 8 = a  BY <1>1
<1> QED  BY <1>1, <1>2, <1>3, <1>4 DEF Byte, a, c

(* A register operand. *)
LEMMA ReadDirect ==
  ASSUME NEW reg \in 0 .. 15, NEW rm \in 0 .. 15, NEW s \in Seq(Byte),
         From(After', <<ModRM(3, reg, rm)>> \o s)
  PROVE  /\ Reg' = reg % 8
         /\ \A sz : Rm(sz)' = IntReg(Joined(rm, RexBit(1)), sz)'
         /\ RmX' = F(Joined(rm, RexBit(1)'))
         /\ From(End', s)
<1> DEFINE n == After'  c == ModRM(3, reg, rm)  h == <<c>>
<1>0. n \in Nat \ {0} /\ From(n, h \o s)  BY DEF From
<1>1. c \div 64 = 3 /\ (c \div 8) % 8 = reg % 8 /\ c % 8 = rm % 8 /\ c \in Byte
  <2>1. 3 \in 0 .. 3  OBVIOUS
  <2> QED  BY <2>1, ModRMFields, ZenonT(60)
<1>2. h \in Seq(Byte) /\ Len(h) = 1 /\ h[1] = c /\ 1 \in 1 .. Len(h)  BY <1>1
<1> HIDE DEF h, c
<1>3. At(n - 1 + 1) = c  BY <1>0, <1>2, FromHead
<1>4. ByteAt(After)' = c  BY <1>0, <1>3 DEF ByteAt, At
<1>5. Mod' = 3 /\ Reg' = reg % 8 /\ ByteAt(After)' % 8 = rm % 8  BY <1>1, <1>4 DEF Mod, Reg
<1>6. From(n + 1, s)  BY <1>0, <1>2, FromTail
<1>7. End' = n + 1  BY <1>5 DEF End
<1>8. Num(ByteAt(After) % 8, 1)' = Joined(rm, RexBit(1)')
  BY <1>5 DEF Num, Joined
<1> QED  BY <1>5, <1>6, <1>7, <1>8 DEF Rm, RmX, RmOf

LEMMA SibType ==
  ASSUME NEW base \in 0 .. 15
  PROVE  /\ Sib(base) \in Seq(Byte)
         /\ base % 8 = 4 => Sib(base) = <<\h24>> /\ Len(Sib(base)) = 1 /\ Sib(base)[1] = \h24
         /\ base % 8 # 4 => Sib(base) = << >> /\ Len(Sib(base)) = 0
<1>1. <<\h24>> \in Seq(Byte)  BY DEF Byte
<1> QED  BY <1>1 DEF Sib

LEMMA ConcatType ==
  ASSUME NEW S, NEW s \in Seq(S), NEW t \in Seq(S)
  PROVE  s \o t \in Seq(S) /\ Len(s \o t) = Len(s) + Len(t)
  OBVIOUS

LEMMA ConcatFirst ==
  ASSUME NEW S, NEW s \in Seq(S), NEW t \in Seq(S), Len(s) = 1
  PROVE  s \o t # << >> /\ (s \o t)[1] = s[1]
  OBVIOUS

LEMMA ConcatAssoc ==
  ASSUME NEW S, NEW s \in Seq(S), NEW t \in Seq(S), NEW u \in Seq(S)
  PROVE  (s \o t) \o u = s \o (t \o u)
  OBVIOUS

(* The three forms of a memory operand: the byte ModRM, a SIB byte for two *)
(* of the bases, and a displacement of none, one or four bytes.            *)
Mem(m, reg, base, d) == <<ModRM(m, reg, base)>> \o Sib(base) \o d

LEMMA MemForms ==
  ASSUME NEW reg \in 0 .. 15, NEW base \in 0 .. 15, NEW disp \in Int32
  PROVE  \/ disp = 0 /\ base % 8 # 5 /\ EmitMem(reg, base, disp) = Mem(0, reg, base, << >>)
         \/ IsI8(disp) /\ EmitMem(reg, base, disp) = Mem(1, reg, base, Le(disp, 1))
         \/ EmitMem(reg, base, disp) = Mem(2, reg, base, Le(disp, 4))
<1>1. <<ModRM(0, reg, base)>> \o Sib(base) = <<ModRM(0, reg, base)>> \o Sib(base) \o << >>
  <2>1. <<ModRM(0, reg, base)>> \in Seq(Byte) /\ Sib(base) \in Seq(Byte)
    <3>1. 0 \in 0 .. 3  OBVIOUS
    <3>2. ModRM(0, reg, base) \in Byte  BY <3>1, ModRMFields, Zenon
    <3> QED  BY <3>2, SibType, SMTT(40)
  <2> QED  BY <2>1, ConcatType
<1> QED  BY <1>1 DEF EmitMem, Mem

(* The parts of such an operand, in the text. *)
LEMMA ReadMemParts ==
  ASSUME NEW m \in 0 .. 2, NEW reg \in 0 .. 15, NEW base \in 0 .. 15,
         NEW d \in Seq(Byte), NEW s \in Seq(Byte), From(After', Mem(m, reg, base, d) \o s),
         m = 0 => base % 8 # 5,
         Len(d) = IF m = 0 THEN 0 ELSE IF m = 1 THEN 1 ELSE 4
  PROVE  /\ Mod' = m /\ Reg' = reg % 8 /\ DispLen' = Len(d)
         /\ Base' = Joined(base, RexBit(1)')
         /\ End' = DispAt' + Len(d) /\ DispAt' \in Nat
         /\ From(DispAt', d \o s) /\ From(End', s)
<1> DEFINE n == After'  c == ModRM(m, reg, base)  h == <<c>>  g == Sib(base)
<1>0. n \in Nat \ {0} /\ From(n, (h \o g \o d) \o s)  BY DEF From, Mem
<1>1. c \div 64 = m /\ (c \div 8) % 8 = reg % 8 /\ c % 8 = base % 8 /\ c \in Byte
  <2>1. m \in 0 .. 3  OBVIOUS
  <2> QED  BY <2>1, ModRMFields, ZenonT(60)
<1>2. h \in Seq(Byte) /\ Len(h) = 1 /\ h[1] = c /\ 1 \in 1 .. Len(h)  BY <1>1
<1>3. /\ g \in Seq(Byte)
      /\ base % 8 = 4 => Len(g) = 1 /\ g[1] = \h24
      /\ base % 8 # 4 => Len(g) = 0
  BY SibType
<1> HIDE DEF h, c, g
<1>4. (h \o g \o d) \o s = h \o (g \o (d \o s))
  <2>1. h \o g \in Seq(Byte) /\ g \o d \in Seq(Byte)  BY <1>2, <1>3
  <2>2. (h \o g) \o d = h \o (g \o d)  BY <1>2, <1>3, ConcatAssoc, SMTT(40)
  <2>3. (h \o (g \o d)) \o s = h \o ((g \o d) \o s)
    <3> DEFINE e == g \o d
    <3>1. h \in Seq(Byte) /\ e \in Seq(Byte)  BY <1>2, <2>1
    <3> HIDE DEF e
    <3>2. (h \o e) \o s = h \o (e \o s)  BY <3>1, ConcatAssoc, SMTT(40)
    <3> QED  BY <3>2 DEF e
  <2>4. (g \o d) \o s = g \o (d \o s)  BY <1>3, ConcatAssoc, SMTT(40)
  <2> QED  BY <2>2, <2>3, <2>4, Zenon
<1>5. From(n, h \o (g \o (d \o s)))  BY <1>0, <1>4
<1>6. d \o s \in Seq(Byte) /\ g \o (d \o s) \in Seq(Byte)  BY <1>3
<1>7. At(n - 1 + 1) = c  BY <1>2, <1>5, <1>6, FromHead
<1>8. From(n + 1, g \o (d \o s))  BY <1>2, <1>5, <1>6, FromTail
<1>9. From(n + 1 + Len(g), d \o s)  BY <1>3, <1>6, <1>8, FromTail
<1>10. ByteAt(After)' = c  BY <1>0, <1>7 DEF ByteAt, At
<1>11. Mod' = m /\ Reg' = reg % 8 /\ ByteAt(After)' % 8 = base % 8  BY <1>1, <1>10 DEF Mod, Reg
<1>12. HasSib' <=> base % 8 = 4  BY <1>11 DEF HasSib
<1>13. DispAt' = n + 1 + Len(g)
  BY <1>0, <1>3, <1>12 DEF DispAt, Bit
<1>14. BaseLow' = base % 8
  <2>1. CASE base % 8 = 4
    <3>1. Len(g) = 1 /\ g[1] = \h24  BY <2>1, <1>3, Zenon
    <3>2. g \o (d \o s) # << >> /\ (g \o (d \o s))[1] = g[1]
      <4> DEFINE u == d \o s
      <4>1. u \in Seq(Byte)  BY <1>6
      <4> HIDE DEF u
      <4>2. g \o u # << >> /\ (g \o u)[1] = g[1]  BY <3>1, <4>1, <1>3, ConcatFirst
      <4> QED  BY <4>2 DEF u
    <3>3. At(n + 1) = \h24  BY <3>1, <3>2, <1>8, FromFirst, Zenon
    <3>4. ByteAt(After + 1)' = \h24  BY <1>0, <3>3 DEF ByteAt, At
    <3> QED  BY <2>1, <3>4, <1>12 DEF BaseLow
  <2>2. CASE base % 8 # 4  BY <2>2, <1>11, <1>12 DEF BaseLow
  <2> QED  BY <2>1, <2>2
<1>15. DispLen' = Len(d)  BY <1>11, <1>14 DEF DispLen
<1>16. Base' = Joined(base, RexBit(1)')
  <2>1. (base % 8) % 8 = base % 8  OBVIOUS
  <2> QED  BY <1>11, <1>14, <2>1 DEF Base, Num, Joined
<1>17. End' = DispAt' + Len(d)  BY <1>11, <1>15 DEF End
<1>18. From(DispAt' + Len(d), s)  BY <1>9, <1>13, FromTail
<1> QED  BY <1>0, <1>9, <1>11, <1>13, <1>15, <1>16, <1>17, <1>18, <1>3, SMTT(40)

LEMMA One ==
  ASSUME NEW v \in Int, IsI8(v)
  PROVE  v = (IF Digit(v, 0) >= 128 THEN Digit(v, 0) - 256 ELSE Digit(v, 0)) * 256 ^ 0
<1>1. Digit(v, 0) = v % 256  BY Powers DEF Digit
<1>2. v = IF v % 256 >= 128 THEN (v % 256) - 256 ELSE v % 256  BY DEF IsI8
<1> QED  BY <1>1, <1>2, Powers

LEMMA ReadShort ==
  ASSUME NEW v \in Int, IsI8(v), NEW s \in Seq(Byte), From(DispAt', Le(v, 1) \o s), DispLen' = 1
  PROVE  SignedAt(DispAt, DispLen)' = v
<1> DEFINE n == DispAt'  d == Le(v, 1)
<1>1. d \in Seq(Byte) /\ Len(d) = 1 /\ d[1] = Digit(v, 0) /\ n \in Nat /\ 1 \in 1 .. Len(d)
  <2>1. d \in Seq(Byte) /\ Len(d) = 1  BY LeType
  <2>2. d[1] = Digit(v, 0)  BY LeBytes
  <2> QED  BY <2>1, <2>2 DEF From
<1>2. From(n, d \o s)  OBVIOUS
<1> HIDE DEF d
<1>3. At(n - 1 + 1) = Digit(v, 0)  BY <1>1, <1>2, FromHead
<1>4. ByteAt(DispAt + 1 - 1)' = Digit(v, 0)  BY <1>1, <1>3 DEF ByteAt, At
<1>5. Digit(v, 0) \in Byte  BY DigitType
<1> QED  BY <1>4, <1>5, One, Powers DEF SignedAt, Byte

LEMMA ReadLong ==
  ASSUME NEW v \in Int32, NEW s \in Seq(Byte), From(DispAt', Le(v, 4) \o s), DispLen' = 4
  PROVE  SignedAt(DispAt, DispLen)' = v
<1> DEFINE n == DispAt'  d == Le(v, 4)
<1>0. v \in Int  BY DEF Int32
<1>1. d \in Seq(Byte) /\ Len(d) = 4 /\ n \in Nat  BY <1>0, LeType DEF From
<1>2. d[1] = Digit(v, 0) /\ d[2] = Digit(v, 1) /\ d[3] = Digit(v, 2) /\ d[4] = Digit(v, 3)
  BY <1>0, LeBytes
<1>3. From(n, d \o s)  OBVIOUS
<1> HIDE DEF d
<1>4. \A k \in 1 .. 4 : At(n - 1 + k) = d[k]  BY <1>1, <1>3, FromHead
<1>5. /\ ByteAt(DispAt)' = Digit(v, 0) /\ ByteAt(DispAt + 1)' = Digit(v, 1)
      /\ ByteAt(DispAt + 2)' = Digit(v, 2) /\ ByteAt(DispAt + 4 - 1)' = Digit(v, 3)
  <2>1. At(n) = d[1] /\ At(n + 1) = d[2] /\ At(n + 2) = d[3] /\ At(n + 3) = d[4]
    BY <1>1, <1>4
  <2> QED  BY <1>1, <1>2, <2>1 DEF ByteAt, At
<1> QED  BY <1>5, Four, SMT DEF SignedAt

(* A memory operand. *)
LEMMA ReadMem ==
  ASSUME NEW reg \in 0 .. 15, NEW base \in 0 .. 15, NEW disp \in Int32, NEW s \in Seq(Byte),
         From(After', EmitMem(reg, base, disp) \o s)
  PROVE  /\ Reg' = reg % 8
         /\ \A sz : Rm(sz)' = M(Joined(base, RexBit(1)'), disp)
         /\ RmX' = M(Joined(base, RexBit(1)'), disp)
         /\ From(End', s)
<1>0. disp \in Int  BY DEF Int32
<1>1. SUFFICES ASSUME NEW m \in 0 .. 2, NEW d \in Seq(Byte),
                      EmitMem(reg, base, disp) = Mem(m, reg, base, d),
                      \/ m = 0 /\ disp = 0 /\ base % 8 # 5 /\ d = << >>
                      \/ m = 1 /\ IsI8(disp) /\ d = Le(disp, 1)
                      \/ m = 2 /\ d = Le(disp, 4)
               PROVE  /\ Reg' = reg % 8
                      /\ Mod' # 3 /\ Base' = Joined(base, RexBit(1)')
                      /\ (IF DispLen' = 0 THEN 0 ELSE SignedAt(DispAt, DispLen)') = disp
                      /\ From(End', s)
  <2>1. \E m \in 0 .. 2, d \in Seq(Byte) :
           /\ EmitMem(reg, base, disp) = Mem(m, reg, base, d)
           /\ \/ m = 0 /\ disp = 0 /\ base % 8 # 5 /\ d = << >>
              \/ m = 1 /\ IsI8(disp) /\ d = Le(disp, 1)
              \/ m = 2 /\ d = Le(disp, 4)
    <3>1. << >> \in Seq(Byte) /\ Le(disp, 1) \in Seq(Byte) /\ Le(disp, 4) \in Seq(Byte)
      BY <1>0, LeType
    <3>2. 0 \in 0 .. 2 /\ 1 \in 0 .. 2 /\ 2 \in 0 .. 2  OBVIOUS
    <3> QED  BY <3>1, <3>2, MemForms, Zenon
  <2> QED  BY <2>1 DEF Rm, RmX, RmOf
<1>2. Len(d) = IF m = 0 THEN 0 ELSE IF m = 1 THEN 1 ELSE 4
  BY <1>0, <1>1, LeType
<1>3. From(After', Mem(m, reg, base, d) \o s)  BY <1>1
<1>4. /\ Mod' = m /\ Reg' = reg % 8 /\ DispLen' = Len(d) /\ Base' = Joined(base, RexBit(1)')
      /\ From(DispAt', d \o s) /\ From(End', s)
  <2>1. m = 0 => base % 8 # 5  BY <1>1
  <2> QED  BY <1>2, <1>3, <2>1, ReadMemParts
<1>5. CASE m = 0 /\ disp = 0  BY <1>2, <1>4, <1>5
<1>6. CASE m = 1 /\ IsI8(disp) /\ d = Le(disp, 1)  BY <1>0, <1>2, <1>4, <1>6, ReadShort
<1>7. CASE m = 2 /\ d = Le(disp, 4)  BY <1>2, <1>4, <1>7, ReadLong
<1> QED  BY <1>1, <1>5, <1>6, <1>7

(* What a register or memory operand a is encoded to, next to a register.  *)
Operand == [k : {"reg", "xmm"}, n : 0 .. 15] \cup [k : {"mem"}, n : 0 .. 15, disp : Int32]
Enc(reg, a) == IF a.k = "mem" THEN EmitMem(reg, a.n, a.disp) ELSE <<ModRM(3, reg, a.n)>>

(* A byte register that is not the one of its number without a prefix. *)
Aliased(n, sz) == sz = 1 /\ ~HasRex' /\ n \in 4 .. 7

LEMMA Joins ==
  ASSUME NEW n \in 0 .. 15, NEW h \in BOOLEAN
  PROVE  /\ Joined(n, h) = n <=> (h <=> High(n))
         /\ Joined(n, h) \in 0 .. 15
  BY DEF Joined, High, Bit

LEMMA Named ==
  ASSUME NEW n \in 0 .. 15, NEW h \in BOOLEAN, NEW sz
  PROVE  (IF sz = 1 /\ ~HasRex' /\ Joined(n, h) \in 4 .. 7 THEN Joined(n, h) + 12 ELSE Joined(n, h)) = n
            <=> (h <=> High(n)) /\ ~Aliased(n, sz)
<1> DEFINE j == Joined(n, h)
<1>1. j \in 0 .. 15 /\ (j = n <=> (h <=> High(n))) /\ (~h => j = n % 8)
  BY Joins DEF Joined, Bit
<1>2. ~High(n) => n % 8 = n  BY DEF High
<1>3. High(n) => n % 8 = n - 8  BY DEF High
<1>4. h => j >= 8  BY DEF Joined, Bit
<1> HIDE DEF j
<1>5. CASE j \in 4 .. 7
  <2>1. ~h  BY <1>4, <1>5
  <2>2. j = n % 8  BY <1>1, <2>1
  <2>3. CASE High(n)
    <3>1. j = n - 8  BY <1>3, <2>2, <2>3
    <3> QED  BY <3>1, <2>1, <2>3, <1>5 DEF j
  <2>4. CASE ~High(n)
    <3>1. j = n  BY <1>2, <2>2, <2>4
    <3> QED  BY <3>1, <2>1, <2>4, <1>5 DEF j, Aliased
  <2> QED  BY <2>3, <2>4
<1>6. CASE j \notin 4 .. 7
  <2>1. j = n => ~Aliased(n, sz)  BY <1>6 DEF Aliased
  <2> QED  BY <1>1, <1>6, <2>1 DEF j
<1> QED  BY <1>5, <1>6

LEMMA SameR == \A m, n : R(m) = R(n) <=> m = n  BY DEF R
LEMMA SameF == \A m, n : F(m) = F(n) <=> m = n  BY DEF F
LEMMA SameM == \A m, n, v : M(m, v) = M(n, v) <=> m = n  BY DEF M

(* The operand that ModRM, or ModRM, SIB and displacement, give. *)
LEMMA ReadOperand ==
  ASSUME NEW reg \in 0 .. 15, NEW a \in Operand, NEW s \in Seq(Byte),
         From(After', Enc(reg, a) \o s), RexBit(1)' \in BOOLEAN
  PROVE  /\ Reg' = reg % 8 /\ From(End', s)
         /\ a.k # "xmm" => \A sz : Rm(sz)' = a <=>
                /\ RexBit(1)' <=> High(a.n)
                /\ a.k = "reg" => ~Aliased(a.n, sz)
         /\ a.k # "reg" => (RmX' = a <=> (RexBit(1)' <=> High(a.n)))
<1>1. CASE a.k = "mem"
  <2>1. a \in [k : {"mem"}, n : 0 .. 15, disp : Int32]  BY <1>1 DEF Operand
  <2>2. a = M(a.n, a.disp) /\ a.n \in 0 .. 15 /\ a.disp \in Int32  BY <2>1 DEF M
  <2>3. /\ Reg' = reg % 8 /\ From(End', s)
        /\ \A sz : Rm(sz)' = M(Joined(a.n, RexBit(1)'), a.disp)
        /\ RmX' = M(Joined(a.n, RexBit(1)'), a.disp)
    BY <1>1, <2>2, ReadMem DEF Enc
  <2>4. M(Joined(a.n, RexBit(1)'), a.disp) = a <=> (RexBit(1)' <=> High(a.n))
    <3> DEFINE j == Joined(a.n, RexBit(1)')
    <3>1. j = a.n <=> (RexBit(1)' <=> High(a.n))  BY <2>2, Joins
    <3> HIDE DEF j
    <3>2. M(j, a.disp) = M(a.n, a.disp) <=> j = a.n  BY SameM
    <3> QED  BY <2>2, <3>1, <3>2, Zenon DEF j
  <2> QED  BY <1>1, <2>3, <2>4
<1>2. CASE a.k # "mem"
  <2>1. a \in [k : {"reg", "xmm"}, n : 0 .. 15]  BY <1>2 DEF Operand
  <2>2. a.n \in 0 .. 15 /\ (a.k = "reg" => a = R(a.n)) /\ (a.k # "reg" => a = F(a.n))
    BY <2>1 DEF R, F
  <2>3. /\ Reg' = reg % 8 /\ From(End', s)
        /\ \A sz : Rm(sz)' = IntReg(Joined(a.n, RexBit(1)), sz)'
        /\ RmX' = F(Joined(a.n, RexBit(1)'))
    BY <1>2, <2>2, ReadDirect DEF Enc
  <2>4. ASSUME NEW sz, a.k = "reg"
        PROVE  Rm(sz)' = a <=> (RexBit(1)' <=> High(a.n)) /\ ~Aliased(a.n, sz)
    <3> DEFINE j == Joined(a.n, RexBit(1)')
    <3>1. Rm(sz)' = R(IF sz = 1 /\ ~HasRex' /\ j \in 4 .. 7 THEN j + 12 ELSE j)
      BY <2>3 DEF IntReg
    <3>2. (IF sz = 1 /\ ~HasRex' /\ j \in 4 .. 7 THEN j + 12 ELSE j) = a.n
             <=> (RexBit(1)' <=> High(a.n)) /\ ~Aliased(a.n, sz)
      BY <2>2, Named
    <3> HIDE DEF j
    <3> QED  BY <2>2, <2>4, <3>1, <3>2, SameR
  <2>5. a.k # "reg" => (RmX' = a <=> (RexBit(1)' <=> High(a.n)))
    BY <2>2, <2>3, SameF, Joins
  <2> QED  BY <1>2, <2>1, <2>3, <2>4, <2>5
<1> QED  BY <1>1, <1>2

(* The register operand of ModRM, and the one in an opcode. *)
LEMMA ReadReg ==
  ASSUME NEW reg \in 0 .. 15, Reg' = reg % 8, RexBit(4)' \in BOOLEAN
  PROVE  /\ \A sz : RegOf(sz)' = R(reg) <=> (RexBit(4)' <=> High(reg)) /\ ~Aliased(reg, sz)
         /\ RegX' = F(reg) <=> (RexBit(4)' <=> High(reg))
<1> DEFINE j == Joined(reg, RexBit(4)')
<1>1. Num(Reg, 4)' = j  BY DEF Num, Joined
<1>2. ASSUME NEW sz
      PROVE  RegOf(sz)' = R(IF sz = 1 /\ ~HasRex' /\ j \in 4 .. 7 THEN j + 12 ELSE j)
  BY <1>1 DEF RegOf, IntReg
<1>3. ASSUME NEW sz
      PROVE  (IF sz = 1 /\ ~HasRex' /\ j \in 4 .. 7 THEN j + 12 ELSE j) = reg
                <=> (RexBit(4)' <=> High(reg)) /\ ~Aliased(reg, sz)
  BY Named
<1>4. RegX' = F(j)  BY <1>1 DEF RegX
<1>5. j = reg <=> (RexBit(4)' <=> High(reg))  BY Joins
<1> HIDE DEF j
<1> QED  BY <1>2, <1>3, <1>4, <1>5, SameR, SameF

LEMMA ReadPlus ==
  ASSUME NEW n \in 0 .. 15, OpByte' % 8 = n % 8, RexBit(1)' \in BOOLEAN
  PROVE  \A sz : PlusReg(sz)' = R(n) <=> (RexBit(1)' <=> High(n)) /\ ~Aliased(n, sz)
<1> DEFINE j == Joined(n, RexBit(1)')
<1>1. Num(OpByte % 8, 1)' = j  BY DEF Num, Joined
<1>2. ASSUME NEW sz
      PROVE  PlusReg(sz)' = R(IF sz = 1 /\ ~HasRex' /\ j \in 4 .. 7 THEN j + 12 ELSE j)
  BY <1>1 DEF PlusReg, IntReg
<1>3. ASSUME NEW sz
      PROVE  (IF sz = 1 /\ ~HasRex' /\ j \in 4 .. 7 THEN j + 12 ELSE j) = n
                <=> (RexBit(1)' <=> High(n)) /\ ~Aliased(n, sz)
  BY Named
<1> HIDE DEF j
<1> QED  BY <1>2, <1>3, SameR

(* A field at the end of the text. *)
LEMMA FieldBytes ==
  ASSUME NEW n, NEW f, From(n, f)
  PROVE  [k \in 1 .. Len(f) |-> At(n + k - 1)] = f
<1>1. f \in Seq(Byte) /\ n \in Nat  BY DEF From
<1>2. \A k \in 1 .. Len(f) : At(n - 1 + k) = f[k]  BY FromAt
<1>3. \A k \in 1 .. Len(f) : n + k - 1 = n - 1 + k  BY <1>1
<1>4. [k \in 1 .. Len(f) |-> At(n + k - 1)] = [k \in 1 .. Len(f) |-> f[k]]  BY <1>2, <1>3
<1>5. f = [k \in 1 .. Len(f) |-> f[k]]  BY <1>1
<1> QED  BY <1>4, <1>5

LEMMA ReadField ==
  ASSUME NEW f, NEW n, n = Len(f)
  PROVE  /\ From(After', f) => \A sz : FieldAt(After, n, sz)' = V(Extend(f, sz))
         /\ From(End', f) => \A sz : FieldAt(End, n, sz)' = V(Extend(f, sz))
<1>1. ASSUME From(After', f)
      PROVE  [k \in 1 .. n |-> ByteAt(After + k - 1)]' = f
  BY <1>1, FieldBytes DEF ByteAt, At
<1>2. ASSUME From(End', f)
      PROVE  [k \in 1 .. n |-> ByteAt(End + k - 1)]' = f
  BY <1>2, FieldBytes DEF ByteAt, At
<1> QED  BY <1>1, <1>2 DEF FieldAt

-----------------------------------------------------------------------------
(* Whole instructions. *)

AnyPrefix(p) == p = << >> \/ \E c \in Mandatory : p = <<c>>

Header(p, x, w, r, b) ==
    /\ Legacy' = IF p = << >> THEN 0 ELSE p[1]
    /\ HasRex' <=> x # << >>
    /\ (RexBit(8)' <=> w) /\ (RexBit(4)' <=> r) /\ (RexBit(1)' <=> b)

Opcodes == Byte \ (Mandatory \cup \h40 .. \h4F \cup {\h0F})

LEMMA PartTypes ==
  ASSUME NEW p, AnyPrefix(p), NEW w \in BOOLEAN, NEW r \in BOOLEAN, NEW b \in BOOLEAN,
         NEW x, Rex(x, w, r, b)
  PROVE  p \in Seq(Byte) /\ x \in Seq(Byte)
<1>1. p \in Seq(Byte)
  <2>1. Mandatory \subseteq Byte  BY DEF Mandatory, Byte
  <2>2. ASSUME NEW c \in Mandatory, p = <<c>> PROVE p \in Seq(Byte)  BY <2>1, <2>2
  <2>3. p = << >> => p \in Seq(Byte)  OBVIOUS
  <2> QED  BY <2>2, <2>3 DEF AnyPrefix
<1>2. x \in Seq(Byte)
  <2>1. << >> \in Seq(Byte)  OBVIOUS
  <2>2. Forced(w, r, b) \in Seq(Byte)  BY RexType
  <2> QED  BY <2>1, <2>2, Zenon DEF Rex
<1> QED  BY <1>1, <1>2

(* The text written: a mandatory prefix p, a REX prefix x, an opcode h, an *)
(* operand e and an immediate s, of which an instruction may have only     *)
(* some.                                                                   *)
Written(p, x, h, e, s) ==
    \/ text' = p \o x \o h \o e \o s
    \/ s = << >> /\ text' = p \o x \o h \o e
    \/ p = << >> /\ text' = x \o h \o e \o s
    \/ p = << >> /\ s = << >> /\ text' = x \o h \o e
    \/ x = << >> /\ s = << >> /\ text' = p \o h \o e
    \/ p = << >> /\ x = << >> /\ s = << >> /\ text' = h \o e
    \/ p = << >> /\ e = << >> /\ s = << >> /\ text' = x \o h
    \/ p = << >> /\ x = << >> /\ e = << >> /\ s = << >> /\ text' = h

LEMMA Empty ==
  ASSUME NEW S, NEW s \in Seq(S)
  PROVE  s \o << >> = s /\ << >> \o s = s
  OBVIOUS

LEMMA Regroup ==
  ASSUME NEW p \in Seq(Byte), NEW x \in Seq(Byte), NEW h \in Seq(Byte), NEW e \in Seq(Byte),
         NEW s \in Seq(Byte), Written(p, x, h, e, s)
  PROVE  From(1, p \o (x \o (h \o (e \o s))))
<1> DEFINE t == p \o (x \o (h \o (e \o s)))
<1>0. t \in Seq(Byte)  OBVIOUS
<1> SUFFICES text' = t
  <2> HIDE DEF t
  <2>1. From(1, text')  BY <1>0, FromAll
  <2> QED  BY <2>1 DEF t
<1>1. p \o x \o h \o e \o s = t
  <2> DEFINE u == e \o s  v == h \o u  a == p \o x  b == a \o h
  <2>1. u \in Seq(Byte) /\ v \in Seq(Byte) /\ a \in Seq(Byte) /\ b \in Seq(Byte)  OBVIOUS
  <2>2. (b \o e) \o s = b \o u
    <3> HIDE DEF b
    <3> QED  BY <2>1
  <2>3. b \o u = a \o v
    <3> HIDE DEF a, u
    <3> QED  BY <2>1, SMTT(40)
  <2>4. a \o v = p \o (x \o v)
    <3> HIDE DEF v
    <3> QED  BY <2>1
  <2> QED  BY <2>2, <2>3, <2>4, Zenon
<1>2. s = << >> => p \o x \o h \o e = t
  <2>1. p \o x \o h \o e \in Seq(Byte)  OBVIOUS
  <2>2. (p \o x \o h \o e) \o << >> = p \o x \o h \o e  BY <2>1, Empty
  <2> QED  BY <1>1, <2>2, Zenon
<1>3. p = << >> => x \o h \o e \o s = t
  <2>1. << >> \o x = x  BY Empty
  <2> QED  BY <1>1, <2>1, Zenon
<1>4. p = << >> /\ s = << >> => x \o h \o e = t
  <2>1. << >> \o x = x  BY Empty
  <2> QED  BY <1>2, <2>1, Zenon
<1>5. x = << >> /\ s = << >> => p \o h \o e = t
  <2>1. p \o << >> = p  BY Empty
  <2> QED  BY <1>2, <2>1, Zenon
<1>6. p = << >> /\ x = << >> /\ s = << >> => h \o e = t
  <2>1. << >> \o h = h  BY Empty
  <2> QED  BY <1>4, <2>1, Zenon
<1>7. p = << >> /\ e = << >> /\ s = << >> => x \o h = t
  <2>1. x \o h \in Seq(Byte)  OBVIOUS
  <2>2. (x \o h) \o << >> = x \o h  BY <2>1, Empty
  <2> QED  BY <1>4, <2>2, Zenon
<1>8. p = << >> /\ x = << >> /\ e = << >> /\ s = << >> => h = t
  <2>1. h \o << >> = h  BY Empty
  <2> QED  BY <1>6, <2>1, Zenon
<1> HIDE DEF t
<1>9. CASE text' = p \o x \o h \o e \o s  BY <1>1, <1>9, Zenon
<1>10. CASE s = << >> /\ text' = p \o x \o h \o e  BY <1>2, <1>10, Zenon
<1>11. CASE p = << >> /\ text' = x \o h \o e \o s  BY <1>3, <1>11, Zenon
<1>12. CASE p = << >> /\ s = << >> /\ text' = x \o h \o e  BY <1>4, <1>12, Zenon
<1>13. CASE x = << >> /\ s = << >> /\ text' = p \o h \o e  BY <1>5, <1>13, Zenon
<1>14. CASE p = << >> /\ x = << >> /\ s = << >> /\ text' = h \o e  BY <1>6, <1>14, Zenon
<1>15. CASE p = << >> /\ e = << >> /\ s = << >> /\ text' = x \o h  BY <1>7, <1>15, Zenon
<1>16. CASE p = << >> /\ x = << >> /\ e = << >> /\ s = << >> /\ text' = h
  BY <1>8, <1>16, Zenon
<1> QED  BY <1>9, <1>10, <1>11, <1>12, <1>13, <1>14, <1>15, <1>16, Zenon DEF Written

Opens(h) == h \in Seq(Byte) /\ h # << >> /\ h[1] \notin Mandatory \cup \h40 .. \h4F

(* What the prefixes and an opcode h, of one byte or two, leave to read. *)
LEMMA ReadHeader ==
  ASSUME NEW p, AnyPrefix(p), NEW w \in BOOLEAN, NEW r \in BOOLEAN, NEW b \in BOOLEAN,
         NEW x, Rex(x, w, r, b), NEW h, Opens(h), NEW e \in Seq(Byte), NEW s \in Seq(Byte),
         Written(p, x, h, e, s)
  PROVE  Header(p, x, w, r, b) /\ From(OpAt', h \o (e \o s))
<1>1. p \in Seq(Byte) /\ x \in Seq(Byte) /\ h \in Seq(Byte)  BY PartTypes DEF Opens
<1> DEFINE u == h \o (e \o s)
<1>2. u \in Seq(Byte) /\ u # << >> /\ u[1] = h[1]  BY DEF Opens
<1>3. From(1, p \o (x \o u))  BY <1>1, Regroup
<1> HIDE DEF u
<1>4. x \o u \in Seq(Byte) /\ x \o u # << >>  BY <1>1, <1>2
<1>5. (x \o u)[1] \notin Mandatory
  <2>0. u[1] \notin Mandatory  BY <1>2 DEF Opens
  <2>1. CASE x = << >>
    <3>1. << >> \o u = u  BY <1>2
    <3>2. x \o u = u  BY <2>1, <3>1
    <3>3. (x \o u)[1] = u[1]  BY <3>2
    <3> QED  BY <2>0, <3>3, Zenon
  <2>2. CASE x # << >>
    <3>1. x = Forced(w, r, b)  BY <2>2 DEF Rex
    <3>2. Len(x) = 1 /\ x[1] \in \h40 .. \h4F  BY <3>1, RexType
    <3>3. (x \o u)[1] = x[1]  BY <1>1, <1>2, <3>2, ConcatFirst
    <3>4. x[1] \notin Mandatory  BY <3>2, SMTT(40) DEF Mandatory
    <3> QED  BY <3>3, <3>4, Zenon
  <2> QED  BY <2>1, <2>2
<1>6. Legacy' = (IF p = << >> THEN 0 ELSE p[1]) /\ From(RexAt', x \o u)
  BY <1>3, <1>4, <1>5, ReadPrefix DEF AnyPrefix
<1>7. u[1] \notin \h40 .. \h4F  BY <1>2 DEF Opens
<1>8. /\ HasRex' <=> x # << >>
      /\ (RexBit(8)' <=> w) /\ (RexBit(4)' <=> r) /\ (RexBit(1)' <=> b)
      /\ From(OpAt', u)
  BY <1>2, <1>6, <1>7, ReadRex
<1> QED  BY <1>6, <1>8 DEF Header, u

LEMMA ReadShortOp ==
  ASSUME NEW p, AnyPrefix(p), NEW w \in BOOLEAN, NEW r \in BOOLEAN, NEW b \in BOOLEAN,
         NEW x, Rex(x, w, r, b), NEW op \in Opcodes, NEW e \in Seq(Byte),
         NEW s \in Seq(Byte), Written(p, x, <<op>>, e, s)
  PROVE  Header(p, x, w, r, b) /\ ~TwoByte' /\ OpByte' = op /\ From(After', e \o s)
<1> DEFINE h == <<op>>
<1>1. Opens(h)  BY DEF Opcodes, Opens
<1>2. op \in Byte /\ op # \h0F  BY DEF Opcodes
<1>3. Header(p, x, w, r, b) /\ From(OpAt', h \o (e \o s))
  <2> HIDE DEF h
  <2>1. Written(p, x, h, e, s)  BY DEF h
  <2> QED  BY <1>1, <2>1, ReadHeader
<1>4. e \o s \in Seq(Byte)  OBVIOUS
<1> QED  BY <1>2, <1>3, <1>4, ReadOpcode

LEMMA ReadLongOp ==
  ASSUME NEW p, AnyPrefix(p), NEW w \in BOOLEAN, NEW r \in BOOLEAN, NEW b \in BOOLEAN,
         NEW x, Rex(x, w, r, b), NEW op \in Byte, NEW e \in Seq(Byte),
         NEW s \in Seq(Byte), Written(p, x, <<\h0F, op>>, e, s)
  PROVE  Header(p, x, w, r, b) /\ TwoByte' /\ OpByte' = op /\ From(After', e \o s)
<1> DEFINE h == <<\h0F, op>>
<1>1. Opens(h)  BY DEF Byte, Mandatory, Opens
<1>2. Header(p, x, w, r, b) /\ From(OpAt', h \o (e \o s))
  <2> HIDE DEF h
  <2>1. Written(p, x, h, e, s)  BY DEF h
  <2> QED  BY <1>1, <2>1, ReadHeader
<1>3. e \o s \in Seq(Byte)  OBVIOUS
<1> QED  BY <1>2, <1>3, ReadOpcodes

LEMMA EncType ==
  ASSUME NEW reg \in 0 .. 15, NEW a \in Operand
  PROVE  Enc(reg, a) \in Seq(Byte)
<1>1. CASE a.k = "mem"
  <2>1. a.n \in 0 .. 15 /\ a.disp \in Int32 /\ a.disp \in Int  BY <1>1 DEF Operand, Int32
  <2>2. ASSUME NEW m \in 0 .. 3, NEW d \in Seq(Byte)
        PROVE  Mem(m, reg, a.n, d) \in Seq(Byte)
    <3>1. ModRM(m, reg, a.n) \in Byte  BY <2>1, ModRMFields, Zenon
    <3>2. Sib(a.n) \in Seq(Byte)  BY <2>1, SibType
    <3> QED  BY <3>1, <3>2 DEF Mem
  <2>3. /\ << >> \in Seq(Byte) /\ Le(a.disp, 1) \in Seq(Byte) /\ Le(a.disp, 4) \in Seq(Byte)
        /\ 0 \in 0 .. 3 /\ 1 \in 0 .. 3 /\ 2 \in 0 .. 3
    BY <2>1, LeType
  <2>4. EmitMem(reg, a.n, a.disp) \in Seq(Byte)  BY <2>1, <2>2, <2>3, MemForms, Zenon
  <2> QED  BY <1>1, <2>4 DEF Enc
<1>2. CASE a.k # "mem"
  <2>1. a.n \in 0 .. 15 /\ 3 \in 0 .. 3  BY <1>2 DEF Operand
  <2>2. ModRM(3, reg, a.n) \in Byte  BY <2>1, ModRMFields, Zenon
  <2> QED  BY <1>2, <2>2 DEF Enc
<1> QED  BY <1>1, <1>2

(* What the decoder reads of the operands reg and a, and that the bytes of *)
(* s are all that is left.                                                 *)
Reads(reg, a, r, b, s) ==
    /\ Reg' = reg % 8 /\ From(End', s)
    /\ a.k # "xmm" => \A sz : Rm(sz)' = a <=>
           (b <=> High(a.n)) /\ (a.k = "reg" => ~Aliased(a.n, sz))
    /\ a.k # "reg" => (RmX' = a <=> (b <=> High(a.n)))
    /\ \A sz : RegOf(sz)' = R(reg) <=> (r <=> High(reg)) /\ ~Aliased(reg, sz)
    /\ RegX' = F(reg) <=> (r <=> High(reg))

LEMMA ReadsOperands ==
  ASSUME NEW p, NEW x, NEW w \in BOOLEAN, NEW r \in BOOLEAN, NEW b \in BOOLEAN, Header(p, x, w, r, b),
         NEW reg \in 0 .. 15, NEW a \in Operand, NEW s \in Seq(Byte), From(After', Enc(reg, a) \o s)
  PROVE  Reads(reg, a, r, b, s)
<1>1. (RexBit(4)' <=> r) /\ (RexBit(1)' <=> b)  BY DEF Header
<1>2. RexBit(4)' \in BOOLEAN /\ RexBit(1)' \in BOOLEAN  BY DEF RexBit
<1>3. /\ Reg' = reg % 8 /\ From(End', s)
      /\ a.k # "xmm" => \A sz : Rm(sz)' = a <=>
             /\ RexBit(1)' <=> High(a.n)
             /\ a.k = "reg" => ~Aliased(a.n, sz)
      /\ a.k # "reg" => (RmX' = a <=> (RexBit(1)' <=> High(a.n)))
  BY <1>2, ReadOperand
<1>4. /\ \A sz : RegOf(sz)' = R(reg) <=> (RexBit(4)' <=> High(reg)) /\ ~Aliased(reg, sz)
      /\ RegX' = F(reg) <=> (RexBit(4)' <=> High(reg))
  BY <1>2, <1>3, ReadReg
<1> QED  BY <1>1, <1>3, <1>4, Zenon DEF Reads

(* The text of an instruction with a ModRM byte, in its parts. *)
Form(p, x, w, r, b, h, reg, a, s) ==
    /\ AnyPrefix(p) /\ w \in BOOLEAN /\ r \in BOOLEAN /\ b \in BOOLEAN /\ Rex(x, w, r, b)
    /\ reg \in 0 .. 15 /\ a \in Operand /\ s \in Seq(Byte) /\ Written(p, x, h, Enc(reg, a), s)

LEMMA ShortForm ==
  ASSUME NEW p, NEW x, NEW w, NEW r, NEW b, NEW op \in Opcodes, NEW reg, NEW a, NEW s,
         Form(p, x, w, r, b, <<op>>, reg, a, s)
  PROVE  Header(p, x, w, r, b) /\ ~TwoByte' /\ OpByte' = op /\ Reads(reg, a, r, b, s)
<1>1. /\ AnyPrefix(p) /\ w \in BOOLEAN /\ r \in BOOLEAN /\ b \in BOOLEAN /\ Rex(x, w, r, b)
      /\ reg \in 0 .. 15 /\ a \in Operand /\ s \in Seq(Byte)
      /\ Written(p, x, <<op>>, Enc(reg, a), s)
  BY DEF Form
<1>2. Enc(reg, a) \in Seq(Byte)  BY <1>1, EncType
<1>3. Header(p, x, w, r, b) /\ ~TwoByte' /\ OpByte' = op /\ From(After', Enc(reg, a) \o s)
  BY <1>1, <1>2, ReadShortOp
<1> QED  BY <1>1, <1>3, ReadsOperands

LEMMA LongForm ==
  ASSUME NEW p, NEW x, NEW w, NEW r, NEW b, NEW op \in Byte, NEW reg, NEW a, NEW s,
         Form(p, x, w, r, b, <<\h0F, op>>, reg, a, s)
  PROVE  Header(p, x, w, r, b) /\ TwoByte' /\ OpByte' = op /\ Reads(reg, a, r, b, s)
<1>1. /\ AnyPrefix(p) /\ w \in BOOLEAN /\ r \in BOOLEAN /\ b \in BOOLEAN /\ Rex(x, w, r, b)
      /\ reg \in 0 .. 15 /\ a \in Operand /\ s \in Seq(Byte)
      /\ Written(p, x, <<\h0F, op>>, Enc(reg, a), s)
  BY DEF Form
<1>2. Enc(reg, a) \in Seq(Byte)  BY <1>1, EncType
<1>3. Header(p, x, w, r, b) /\ TwoByte' /\ OpByte' = op /\ From(After', Enc(reg, a) \o s)
  BY <1>1, <1>2, ReadLongOp
<1> QED  BY <1>1, <1>3, ReadsOperands

(* The width of an operation, and the end of the text. *)
LEMMA ReadWide ==
  ASSUME NEW p, AnyPrefix(p), NEW x, NEW w, NEW r, NEW b, Header(p, x, w, r, b)
  PROVE  Wide' = IF w THEN 8 ELSE IF p = <<\h66>> THEN 2 ELSE 4
<1>1. CASE p = << >>
  <2>1. p # <<\h66>> /\ Legacy' = 0  BY <1>1 DEF Header
  <2> QED  BY <2>1 DEF Header, Wide
<1>2. ASSUME NEW c \in Mandatory, p = <<c>>
      PROVE  Wide' = IF w THEN 8 ELSE IF p = <<\h66>> THEN 2 ELSE 4
  <2>1. p # << >> /\ p[1] = c /\ (p = <<\h66>> <=> c = \h66)  BY <1>2
  <2>2. Legacy' = c  BY <2>1 DEF Header
  <2> QED  BY <2>1, <2>2 DEF Header, Wide
<1> QED  BY <1>1, <1>2 DEF AnyPrefix

LEMMA Ends ==
  ASSUME NEW n, NEW s, From(n, s)
  PROVE  (n + Len(s)) - 1 = Len(text')
<1>1. Len(s) \in Nat /\ n \in Nat  BY DEF From
<1> QED  BY <1>1 DEF From

LEMMA PlusZero == \A n \in Nat : n + 0 = n  OBVIOUS

LEMMA EndsHere ==
  ASSUME NEW n, From(n, << >>)
  PROVE  n - 1 = Len(text')
  BY DEF From

(* The prefixes, by the size of the operands. *)
SizesOf == {1, 2, 4, 8}

LEMMA Prefixes ==
  ASSUME NEW sz \in SizesOf, NEW r \in BOOLEAN, NEW b \in BOOLEAN
  PROVE  /\ AnyPrefix(Size16(sz)) /\ (Size16(sz) = <<\h66>> <=> sz = 2)
         /\ Rex(RexBySize(sz, r, b), sz = 8, sz \in {1, 4, 8} /\ r, sz \in {1, 4, 8} /\ b)
         /\ sz \in {1, 8} => RexBySize(sz, r, b) # << >>
         /\ Rex(RexNotBytes(sz, r, b), sz = 8, sz \in {4, 8} /\ r, sz \in {4, 8} /\ b)
         /\ sz \in {1, 2} => RexNotBytes(sz, r, b) = << >>
         /\ Rex(RexWideOnly(sz, r, b), sz = 8, sz \in {8} /\ r, sz \in {8} /\ b)
         /\ sz # 8 => RexWideOnly(sz, r, b) = << >>
         /\ Rex(EmitRex(sz = 8, r, b), sz = 8, sz \in SizesOf /\ r, sz \in SizesOf /\ b)
<1>1. AnyPrefix(Size16(sz)) /\ (Size16(sz) = <<\h66>> <=> sz = 2)
  BY DEF AnyPrefix, Size16, Mandatory, SizesOf
<1>2. /\ Rex(RexBySize(sz, r, b), sz = 8, sz \in {1, 4, 8} /\ r, sz \in {1, 4, 8} /\ b)
      /\ sz \in {1, 8} => RexBySize(sz, r, b) # << >>
  BY DEF SizesOf, RexBySize, Rex, EmitRex, Forced, Bit
<1>3. /\ Rex(RexNotBytes(sz, r, b), sz = 8, sz \in {4, 8} /\ r, sz \in {4, 8} /\ b)
      /\ sz \in {1, 2} => RexNotBytes(sz, r, b) = << >>
  BY DEF SizesOf, RexNotBytes, Rex, EmitRex, Forced, Bit
<1>4. /\ Rex(RexWideOnly(sz, r, b), sz = 8, sz \in {8} /\ r, sz \in {8} /\ b)
      /\ sz # 8 => RexWideOnly(sz, r, b) = << >>
  BY DEF SizesOf, RexWideOnly, Rex, EmitRex, Forced, Bit
<1>5. Rex(EmitRex(sz = 8, r, b), sz = 8, sz \in SizesOf /\ r, sz \in SizesOf /\ b)
  BY DEF SizesOf, Rex, EmitRex, Forced, Bit
<1> QED  BY <1>1, <1>2, <1>3, <1>4, <1>5

(* What was decoded is what was asked if its operands are. *)
LEMMA Verdict1 ==
  ASSUME NEW op, NEW sz, NEW a, NEW x, NEW n,
         asked' = I(op, sz, <<a>>), Decoded' = Is(op, sz, <<x>>, n), n - 1 = Len(text'),
         Gap' <=> x # a
  PROVE  EncodingsDecode'
  BY DEF Is, I, EncodingsDecode

LEMMA Verdict2 ==
  ASSUME NEW op, NEW sz, NEW a, NEW b, NEW x, NEW y, NEW n,
         asked' = I(op, sz, <<a, b>>), Decoded' = Is(op, sz, <<x, y>>, n), n - 1 = Len(text'),
         Gap' <=> ~(x = a /\ y = b)
  PROVE  EncodingsDecode'
  BY DEF Is, I, EncodingsDecode

LEMMA Verdict3 ==
  ASSUME NEW op, NEW sz, NEW a, NEW b, NEW c, NEW x, NEW y, NEW z, NEW n,
         asked' = I(op, sz, <<a, b, c>>), Decoded' = Is(op, sz, <<x, y, z>>, n),
         n - 1 = Len(text'), Gap' <=> ~(x = a /\ y = b /\ z = c)
  PROVE  EncodingsDecode'
  BY DEF Is, I, EncodingsDecode

(* Operands that need a prefix, and those that a byte instruction needs    *)
(* one for.                                                                *)
HighArg(a) == a.k \in {"reg", "mem", "xmm"} /\ a.n >= 8
ByteArg(a) == a.k = "reg" /\ a.n \in 4 .. 7

LEMMA Args ==
  /\ \A a : asked'.args = <<a>> =>
        (HighOperand' <=> HighArg(a)) /\ (ByteRegister' <=> ByteArg(a))
  /\ \A a, b : asked'.args = <<a, b>> =>
        (HighOperand' <=> HighArg(a) \/ HighArg(b)) /\ (ByteRegister' <=> ByteArg(a) \/ ByteArg(b))
  /\ \A a, b, c : asked'.args = <<a, b, c>> =>
        /\ HighOperand' <=> HighArg(a) \/ HighArg(b) \/ HighArg(c)
        /\ ByteRegister' <=> ByteArg(a) \/ ByteArg(b) \/ ByteArg(c)
  BY DEF HighOperand, ByteRegister, HighArg, ByteArg

(* The bits of the REX prefix are those of the operands for the sizes of E *)
(* alone, and then the operands of an operation of sz bytes are read so:   *)
Sized(sz, E, p, x, reg, a, s) ==
    /\ Wide' = IF sz = 8 THEN 8 ELSE IF p = <<\h66>> THEN 2 ELSE 4
    /\ Reg' = reg % 8 /\ From(End', s)
    /\ a.k # "xmm" => \A z : Rm(z)' = a <=>
           /\ High(a.n) => sz \in E
           /\ a.k = "reg" /\ z = 1 /\ x = << >> => a.n \notin 4 .. 7
    /\ a.k # "reg" => (RmX' = a <=> (High(a.n) => sz \in E))
    /\ \A z : RegOf(z)' = R(reg) <=>
           (High(reg) => sz \in E) /\ (z = 1 /\ x = << >> => reg \notin 4 .. 7)
    /\ RegX' = F(reg) <=> (High(reg) => sz \in E)

Parts(sz, E, p, x, h, reg, a, s) ==
    /\ reg \in 0 .. 15 /\ a \in Operand /\ s \in Seq(Byte) /\ AnyPrefix(p)
    /\ Rex(x, sz = 8, sz \in E /\ High(reg), sz \in E /\ High(a.n))
    /\ Written(p, x, h, Enc(reg, a), s)

LEMMA ReadSized ==
  ASSUME NEW sz, NEW E, NEW p, AnyPrefix(p), NEW x, NEW reg, NEW a, NEW s,
         Header(p, x, sz = 8, sz \in E /\ High(reg), sz \in E /\ High(a.n)),
         Reads(reg, a, sz \in E /\ High(reg), sz \in E /\ High(a.n), s)
  PROVE  Sized(sz, E, p, x, reg, a, s)
<1>1. Wide' = IF sz = 8 THEN 8 ELSE IF p = <<\h66>> THEN 2 ELSE 4  BY ReadWide
<1>2. HasRex' <=> x # << >>  BY DEF Header
<1> QED  BY <1>1, <1>2 DEF Reads, Sized, Aliased

LEMMA ShortSized ==
  ASSUME NEW sz, NEW E, NEW p, NEW x, NEW op \in Opcodes, NEW reg, NEW a, NEW s,
         Parts(sz, E, p, x, <<op>>, reg, a, s)
  PROVE  ~TwoByte' /\ OpByte' = op /\ Sized(sz, E, p, x, reg, a, s)
<1> DEFINE w == sz = 8  r == sz \in E /\ High(reg)  b == sz \in E /\ High(a.n)
<1>1. w \in BOOLEAN /\ r \in BOOLEAN /\ b \in BOOLEAN  OBVIOUS
<1>2. Rex(x, w, r, b) /\ AnyPrefix(p)  BY DEF Parts
<1> HIDE DEF w, r, b
<1>3. Form(p, x, w, r, b, <<op>>, reg, a, s)  BY <1>1, <1>2 DEF Form, Parts
<1>4. Header(p, x, w, r, b) /\ ~TwoByte' /\ OpByte' = op /\ Reads(reg, a, r, b, s)
  BY <1>3, ShortForm
<1> QED  BY <1>2, <1>4, ReadSized DEF w, r, b

LEMMA LongSized ==
  ASSUME NEW sz, NEW E, NEW p, NEW x, NEW op \in Byte, NEW reg, NEW a, NEW s,
         Parts(sz, E, p, x, <<\h0F, op>>, reg, a, s)
  PROVE  TwoByte' /\ OpByte' = op /\ Sized(sz, E, p, x, reg, a, s) /\ Legacy' = IF p = << >> THEN 0 ELSE p[1]
<1> DEFINE w == sz = 8  r == sz \in E /\ High(reg)  b == sz \in E /\ High(a.n)
<1>1. w \in BOOLEAN /\ r \in BOOLEAN /\ b \in BOOLEAN  OBVIOUS
<1>2. Rex(x, w, r, b) /\ AnyPrefix(p)  BY DEF Parts
<1> HIDE DEF w, r, b
<1>3. Form(p, x, w, r, b, <<\h0F, op>>, reg, a, s)  BY <1>1, <1>2 DEF Form, Parts
<1>4. Header(p, x, w, r, b) /\ TwoByte' /\ OpByte' = op /\ Reads(reg, a, r, b, s)
  BY <1>3, LongForm
<1>5. Legacy' = IF p = << >> THEN 0 ELSE p[1]  BY <1>4 DEF Header
<1> QED  BY <1>2, <1>4, <1>5, ReadSized DEF w, r, b

-----------------------------------------------------------------------------
(* One function of the encoder after another. *)

(* The functions that choose the prefix by RexBySize. *)
LEMMA BySize ==
  ASSUME NEW sz \in SizesOf, NEW op \in Opcodes, NEW reg \in 0 .. 15, NEW a \in Operand,
         NEW s \in Seq(Byte),
         Written(Size16(sz), RexBySize(sz, High(reg), High(a.n)), <<op>>, Enc(reg, a), s)
  PROVE  /\ ~TwoByte' /\ OpByte' = op /\ Reg' = reg % 8 /\ From(End', s)
         /\ sz # 1 => Wide' = sz
         /\ a.k # "xmm" => (Rm(sz)' = a <=> (High(a.n) => sz # 2))
         /\ RegOf(sz)' = R(reg) <=> (High(reg) => sz # 2)
<1> DEFINE p == Size16(sz)  x == RexBySize(sz, High(reg), High(a.n))  E == {1, 4, 8}
<1>1. High(reg) \in BOOLEAN /\ High(a.n) \in BOOLEAN  BY DEF High
<1>2. /\ AnyPrefix(p) /\ (p = <<\h66>> <=> sz = 2)
      /\ Rex(x, sz = 8, sz \in E /\ High(reg), sz \in E /\ High(a.n))
      /\ sz \in {1, 8} => x # << >>
  BY <1>1, Prefixes, Zenon
<1>3. Parts(sz, E, p, x, <<op>>, reg, a, s)  BY <1>2 DEF Parts
<1> HIDE DEF p, x, E
<1>4. ~TwoByte' /\ OpByte' = op /\ Sized(sz, E, p, x, reg, a, s)  BY <1>3, ShortSized
<1> QED  BY <1>2, <1>4 DEF Sized, SizesOf, E

(* The functions that leave the prefix out for 8 and 16 bits. *)
LEMMA NotBytes ==
  ASSUME NEW sz \in SizesOf, NEW op \in Opcodes, NEW reg \in 0 .. 15, NEW a \in Operand,
         NEW s \in Seq(Byte),
         Written(Size16(sz), RexNotBytes(sz, High(reg), High(a.n)), <<op>>, Enc(reg, a), s)
  PROVE  /\ ~TwoByte' /\ OpByte' = op /\ Reg' = reg % 8 /\ From(End', s)
         /\ sz # 1 => Wide' = sz
         /\ a.k # "xmm" => (Rm(sz)' = a <=> /\ High(a.n) => sz \in {4, 8}
                                            /\ a.k = "reg" /\ sz = 1 => a.n \notin 4 .. 7)
         /\ RegOf(sz)' = R(reg) <=> (High(reg) => sz \in {4, 8}) /\ (sz = 1 => reg \notin 4 .. 7)
<1> DEFINE p == Size16(sz)  x == RexNotBytes(sz, High(reg), High(a.n))  E == {4, 8}
<1>1. High(reg) \in BOOLEAN /\ High(a.n) \in BOOLEAN  BY DEF High
<1>2. /\ AnyPrefix(p) /\ (p = <<\h66>> <=> sz = 2)
      /\ Rex(x, sz = 8, sz \in E /\ High(reg), sz \in E /\ High(a.n))
      /\ sz \in {1, 2} => x = << >>
  BY <1>1, Prefixes, ZenonT(60)
<1>3. Parts(sz, E, p, x, <<op>>, reg, a, s)  BY <1>2 DEF Parts
<1> HIDE DEF p, x, E
<1>4. ~TwoByte' /\ OpByte' = op /\ Sized(sz, E, p, x, reg, a, s)  BY <1>3, ShortSized
<1> QED  BY <1>2, <1>4 DEF Sized, SizesOf, E

(* Those that have one for 64 bits alone. *)
LEMMA WideOnly ==
  ASSUME NEW sz \in SizesOf, NEW op \in Opcodes, NEW reg \in 0 .. 15, NEW a \in Operand,
         NEW s \in Seq(Byte), NEW p, AnyPrefix(p),
         Written(p, RexWideOnly(sz, High(reg), High(a.n)), <<op>>, Enc(reg, a), s)
  PROVE  /\ ~TwoByte' /\ OpByte' = op /\ Reg' = reg % 8 /\ From(End', s)
         /\ Wide' = IF sz = 8 THEN 8 ELSE IF p = <<\h66>> THEN 2 ELSE 4
         /\ a.k # "xmm" => (Rm(sz)' = a <=> /\ High(a.n) => sz = 8
                                            /\ a.k = "reg" /\ sz = 1 => a.n \notin 4 .. 7)
         /\ RegOf(sz)' = R(reg) <=> (High(reg) => sz = 8) /\ (sz = 1 => reg \notin 4 .. 7)
<1> DEFINE x == RexWideOnly(sz, High(reg), High(a.n))  E == {8}
<1>1. High(reg) \in BOOLEAN /\ High(a.n) \in BOOLEAN  BY DEF High
<1>2. /\ Rex(x, sz = 8, sz \in E /\ High(reg), sz \in E /\ High(a.n))
      /\ sz # 8 => x = << >>
  BY <1>1, Prefixes, ZenonT(60)
<1>3. Parts(sz, E, p, x, <<op>>, reg, a, s)  BY <1>2 DEF Parts
<1> HIDE DEF x, E
<1>4. ~TwoByte' /\ OpByte' = op /\ Sized(sz, E, p, x, reg, a, s)  BY <1>3, ShortSized
<1> QED  BY <1>2, <1>4 DEF Sized, SizesOf, E

(* And those that have it whenever an operand needs it, with opcodes of    *)
(* one byte and of two.                                                    *)
Always(sz, p, reg, a, s) ==
    LET bare == sz # 8 /\ ~High(reg) /\ ~High(a.n)
    IN  /\ Reg' = reg % 8 /\ From(End', s)
        /\ Wide' = IF sz = 8 THEN 8 ELSE IF p = <<\h66>> THEN 2 ELSE 4
        /\ a.k # "xmm" => \A z : Rm(z)' = a <=> (a.k = "reg" /\ z = 1 /\ bare => a.n \notin 4 .. 7)
        /\ a.k # "reg" => RmX' = a
        /\ \A z : RegOf(z)' = R(reg) <=> (z = 1 /\ bare => reg \notin 4 .. 7)
        /\ RegX' = F(reg)

LEMMA EmitRexIs ==
  ASSUME NEW sz \in SizesOf, NEW r \in BOOLEAN, NEW b \in BOOLEAN
  PROVE  EmitRex(sz = 8, r, b) = << >> <=> sz # 8 /\ ~r /\ ~b
<1>1. Forced(sz = 8, r, b) # << >>  BY DEF Forced
<1> QED  BY <1>1 DEF EmitRex

LEMMA ReadAlways ==
  ASSUME NEW sz \in SizesOf, NEW p, NEW reg, NEW a, NEW s,
         Sized(sz, SizesOf, p, EmitRex(sz = 8, High(reg), High(a.n)), reg, a, s)
  PROVE  Always(sz, p, reg, a, s)
<1>1. High(reg) \in BOOLEAN /\ High(a.n) \in BOOLEAN  BY DEF High
<1>2. EmitRex(sz = 8, High(reg), High(a.n)) = << >> <=> sz # 8 /\ ~High(reg) /\ ~High(a.n)
  BY <1>1, EmitRexIs, Zenon
<1> QED  BY <1>2 DEF Sized, Always

ShortText(sz, p, op, reg, a, s) ==
    /\ sz \in SizesOf /\ AnyPrefix(p) /\ op \in Opcodes /\ reg \in 0 .. 15 /\ a \in Operand
    /\ s \in Seq(Byte)
    /\ Written(p, EmitRex(sz = 8, High(reg), High(a.n)), <<op>>, Enc(reg, a), s)

ShortRead(sz, p, op, reg, a, s) == ~TwoByte' /\ OpByte' = op /\ Always(sz, p, reg, a, s)

LEMMA RexShort ==
  ASSUME NEW sz, NEW p, NEW op, NEW reg, NEW a, NEW s, ShortText(sz, p, op, reg, a, s)
  PROVE  ShortRead(sz, p, op, reg, a, s)
<1> DEFINE x == EmitRex(sz = 8, High(reg), High(a.n))
<1>1. /\ sz \in SizesOf /\ AnyPrefix(p) /\ op \in Opcodes /\ reg \in 0 .. 15 /\ a \in Operand
      /\ s \in Seq(Byte) /\ Written(p, x, <<op>>, Enc(reg, a), s)
  BY DEF ShortText
<1>2. High(reg) \in BOOLEAN /\ High(a.n) \in BOOLEAN  BY DEF High
<1>3. Rex(x, sz = 8, sz \in SizesOf /\ High(reg), sz \in SizesOf /\ High(a.n))
  BY <1>1, <1>2, Prefixes, Zenon
<1>4. Parts(sz, SizesOf, p, x, <<op>>, reg, a, s)  BY <1>1, <1>3 DEF Parts
<1>5. ~TwoByte' /\ OpByte' = op /\ Sized(sz, SizesOf, p, x, reg, a, s)
  <2> HIDE DEF x
  <2> QED  BY <1>1, <1>4, ShortSized
<1>6. Always(sz, p, reg, a, s)  BY <1>1, <1>5, ReadAlways
<1> QED  BY <1>5, <1>6 DEF ShortRead

LongText(sz, p, op, reg, a, s) ==
    /\ sz \in SizesOf /\ AnyPrefix(p) /\ op \in Byte /\ reg \in 0 .. 15 /\ a \in Operand
    /\ s \in Seq(Byte)
    /\ Written(p, EmitRex(sz = 8, High(reg), High(a.n)), <<\h0F, op>>, Enc(reg, a), s)

LongRead(sz, p, op, reg, a, s) ==
    /\ TwoByte' /\ OpByte' = op /\ Always(sz, p, reg, a, s)
    /\ Legacy' = IF p = << >> THEN 0 ELSE p[1]

LEMMA RexLong ==
  ASSUME NEW sz, NEW p, NEW op, NEW reg, NEW a, NEW s, LongText(sz, p, op, reg, a, s)
  PROVE  LongRead(sz, p, op, reg, a, s)
<1> DEFINE x == EmitRex(sz = 8, High(reg), High(a.n))
<1>1. /\ sz \in SizesOf /\ AnyPrefix(p) /\ op \in Byte /\ reg \in 0 .. 15 /\ a \in Operand
      /\ s \in Seq(Byte) /\ Written(p, x, <<\h0F, op>>, Enc(reg, a), s)
  BY DEF LongText
<1>2. High(reg) \in BOOLEAN /\ High(a.n) \in BOOLEAN  BY DEF High
<1>3. Rex(x, sz = 8, sz \in SizesOf /\ High(reg), sz \in SizesOf /\ High(a.n))
  BY <1>1, <1>2, Prefixes, Zenon
<1>4. Parts(sz, SizesOf, p, x, <<\h0F, op>>, reg, a, s)  BY <1>1, <1>3 DEF Parts
<1>5. /\ TwoByte' /\ OpByte' = op /\ Sized(sz, SizesOf, p, x, reg, a, s)
      /\ Legacy' = IF p = << >> THEN 0 ELSE p[1]
  <2> HIDE DEF x
  <2> QED  BY <1>1, <1>4, LongSized
<1>6. Always(sz, p, reg, a, s)  BY <1>1, <1>5, ReadAlways
<1> QED  BY <1>5, <1>6 DEF LongRead

LEMMA MovRRDecodes ==
  ASSUME NEW d \in 0 .. 15, NEW s \in 0 .. 15, NEW sz \in SizesOf, MovRR(d, s, sz)
  PROVE  EncodingsDecode'
<1> DEFINE op == IF sz = 1 THEN \h88 ELSE \h89
<1>1. asked' = I("mov", sz, <<R(d), R(s)>>) /\ by' = "mov_rr"  BY DEF MovRR, Ask
<1>2. Written(Size16(sz), RexBySize(sz, High(s), High(R(d).n)), <<op>>, Enc(s, R(d)), << >>)
  BY SMTT(40) DEF MovRR, Ask, Written, Enc, R, Opc
<1>3. op \in Opcodes /\ R(d) \in Operand /\ R(d).k = "reg" /\ R(d).n = d /\ << >> \in Seq(Byte)
  BY DEF Opcodes, Byte, Mandatory, Operand, R
<1> HIDE DEF op
<1>4. /\ ~TwoByte' /\ OpByte' = op /\ From(End', << >>) /\ (sz # 1 => Wide' = sz)
      /\ Rm(sz)' = R(d) <=> (High(d) => sz # 2)
      /\ RegOf(sz)' = R(s) <=> (High(s) => sz # 2)
  BY <1>2, <1>3, BySize, ZenonT(60)
<1>5. Decoded' = Is("mov", sz, <<Rm(sz)', RegOf(sz)'>>, End')
  BY <1>4 DEF Decoded, DecodeOneByte, SizesOf, op
<1>6. End' - 1 = Len(text')  BY <1>4, EndsHere
<1>7. Gap' <=> sz = 2 /\ (High(d) \/ High(s))
  <2>1. asked'.op = "mov" /\ asked'.sz = sz /\ asked'.args = <<R(d), R(s)>>  BY <1>1 DEF I
  <2>2. HighOperand' <=> High(d) \/ High(s)  BY <2>1, Args DEF HighArg, High, R
  <2> QED  BY <1>1, <2>1, <2>2 DEF Gap
<1> QED  BY <1>1, <1>4, <1>5, <1>6, <1>7, Verdict2

LEMMA MovRMDecodes ==
  ASSUME NEW d \in 0 .. 15, NEW base \in 0 .. 15, NEW disp \in Int32, NEW sz \in SizesOf,
         MovRM(d, base, disp, sz)
  PROVE  EncodingsDecode'
<1> DEFINE op == IF sz = 1 THEN \h8A ELSE \h8B  a == M(base, disp)
<1>1. asked' = I("mov", sz, <<R(d), a>>) /\ by' = "mov_rm"  BY DEF MovRM, Ask
<1>2. Written(Size16(sz), RexBySize(sz, High(d), High(a.n)), <<op>>, Enc(d, a), << >>)
  BY DEF MovRM, Ask, Written, Enc, M, Opc
<1>3. op \in Opcodes /\ a \in Operand /\ a.k = "mem" /\ a.n = base /\ << >> \in Seq(Byte)
  BY DEF Opcodes, Byte, Mandatory, Operand, M
<1> HIDE DEF op, a
<1>4. /\ ~TwoByte' /\ OpByte' = op /\ From(End', << >>) /\ (sz # 1 => Wide' = sz)
      /\ Rm(sz)' = a <=> (High(base) => sz # 2)
      /\ RegOf(sz)' = R(d) <=> (High(d) => sz # 2)
  BY <1>2, <1>3, BySize
<1>5. Decoded' = Is("mov", sz, <<RegOf(sz)', Rm(sz)'>>, End')
  BY <1>4 DEF Decoded, DecodeOneByte, SizesOf, op
<1>6. End' - 1 = Len(text')  BY <1>4, EndsHere
<1>7. Gap' <=> sz = 2 /\ (High(d) \/ High(base))
  <2>1. asked'.op = "mov" /\ asked'.sz = sz /\ asked'.args = <<R(d), a>>  BY <1>1 DEF I
  <2>2. HighOperand' <=> High(d) \/ High(base)  BY <1>3, <2>1, Args DEF HighArg, High, R
  <2> QED  BY <1>1, <2>1, <2>2 DEF Gap
<1> QED  BY <1>1, <1>4, <1>5, <1>6, <1>7, Verdict2

LEMMA MovMRDecodes ==
  ASSUME NEW s \in 0 .. 15, NEW base \in 0 .. 15, NEW disp \in Int32, NEW sz \in SizesOf,
         MovMR(base, disp, s, sz)
  PROVE  EncodingsDecode'
<1> DEFINE op == IF sz = 1 THEN \h88 ELSE \h89  a == M(base, disp)
<1>1. asked' = I("mov", sz, <<a, R(s)>>) /\ by' = "mov_mr"  BY DEF MovMR, Ask
<1>2. Written(Size16(sz), RexBySize(sz, High(s), High(a.n)), <<op>>, Enc(s, a), << >>)
  BY SMTT(40) DEF MovMR, Ask, Written, Enc, M, Opc
<1>3. op \in Opcodes /\ a \in Operand /\ a.k = "mem" /\ a.n = base /\ << >> \in Seq(Byte)
  BY DEF Opcodes, Byte, Mandatory, Operand, M
<1> HIDE DEF op, a
<1>4. /\ ~TwoByte' /\ OpByte' = op /\ From(End', << >>) /\ (sz # 1 => Wide' = sz)
      /\ Rm(sz)' = a <=> (High(base) => sz # 2)
      /\ RegOf(sz)' = R(s) <=> (High(s) => sz # 2)
  BY <1>2, <1>3, BySize
<1>5. Decoded' = Is("mov", sz, <<Rm(sz)', RegOf(sz)'>>, End')
  BY <1>4 DEF Decoded, DecodeOneByte, SizesOf, op
<1>6. End' - 1 = Len(text')  BY <1>4, EndsHere
<1>7. Gap' <=> sz = 2 /\ (High(s) \/ High(base))
  <2>1. asked'.op = "mov" /\ asked'.sz = sz /\ asked'.args = <<a, R(s)>>  BY <1>1 DEF I
  <2>2. HighOperand' <=> High(s) \/ High(base)  BY <1>3, <2>1, Args DEF HighArg, High, R
  <2> QED  BY <1>1, <2>1, <2>2 DEF Gap
<1> QED  BY <1>1, <1>4, <1>5, <1>6, <1>7, Verdict2

AluOps == {"add", "or", "and", "sub", "xor", "cmp", "test"}

LEMMA AluNumbers ==
  ASSUME NEW op \in AluOps
  PROVE  /\ AluOpcode[op] \in {0, 8, \h20, \h28, \h30, \h38, \h84}
         /\ AluOpcode[op] = \h84 <=> op = "test"
         /\ op # "test" => AluNames[AluOpcode[op] \div 8 + 1] = op
         /\ AluExt[op] \in 0 .. 7
         /\ AluNames[AluExt[op] + 1] = op <=> op # "test"
<1>1. CASE op = "add"  BY <1>1 DEF AluOpcode, AluExt, AluNames
<1>2. CASE op = "or"  BY <1>2 DEF AluOpcode, AluExt, AluNames
<1>3. CASE op = "and"  BY <1>3 DEF AluOpcode, AluExt, AluNames
<1>4. CASE op = "sub"  BY <1>4 DEF AluOpcode, AluExt, AluNames
<1>5. CASE op = "xor"  BY <1>5 DEF AluOpcode, AluExt, AluNames
<1>6. CASE op = "cmp"  BY <1>6 DEF AluOpcode, AluExt, AluNames
<1>7. CASE op = "test"  BY <1>7 DEF AluOpcode, AluExt, AluNames
<1> QED  BY <1>1, <1>2, <1>3, <1>4, <1>5, <1>6, <1>7 DEF AluOps

LEMMA AluRRDecodes ==
  ASSUME NEW op \in AluOps, NEW d \in 0 .. 15, NEW s \in 0 .. 15, NEW sz \in SizesOf,
         AluRR(op, d, s, sz)
  PROVE  EncodingsDecode'
<1> DEFINE n == AluOpcode[op]  c == IF sz = 1 THEN n ELSE n + 1
<1>0. /\ n \in {0, 8, \h20, \h28, \h30, \h38, \h84} /\ (n = \h84 <=> op = "test")
      /\ op # "test" => AluNames[n \div 8 + 1] = op
  BY AluNumbers
<1>1. asked' = I(op, sz, <<R(d), R(s)>>) /\ by' = "alu_rr"  BY DEF AluRR, Ask
<1>2. Written(Size16(sz), RexBySize(sz, High(s), High(R(d).n)), <<c>>, Enc(s, R(d)), << >>)
  <2>1. Opc(sz, n + 1) = <<c>>  BY <1>0 DEF Opc
  <2>2. text' = Size16(sz) \o RexBySize(sz, High(s), High(d)) \o Opc(sz, n + 1) \o <<ModRM(3, s, d)>>
    BY DEF AluRR, Ask
  <2> HIDE DEF c, n
  <2> QED  BY <2>1, <2>2 DEF Written, Enc, R
<1> HIDE DEF n
<1>3. c \in Opcodes /\ R(d) \in Operand /\ R(d).k = "reg" /\ R(d).n = d /\ << >> \in Seq(Byte)
  BY <1>0 DEF Opcodes, Byte, Mandatory, Operand, R
<1> HIDE DEF c
<1>4. /\ ~TwoByte' /\ OpByte' = c /\ From(End', << >>) /\ (sz # 1 => Wide' = sz)
      /\ Rm(sz)' = R(d) <=> (High(d) => sz # 2)
      /\ RegOf(sz)' = R(s) <=> (High(s) => sz # 2)
  BY <1>2, <1>3, BySize, ZenonT(60)
<1>5. Decoded' = Is(op, sz, <<Rm(sz)', RegOf(sz)'>>, End')
  <2>1. CASE n = 0  BY <1>0, <1>4, <2>1 DEF Decoded, DecodeOneByte, SizesOf, c
  <2>2. CASE n = 8  BY <1>0, <1>4, <2>2 DEF Decoded, DecodeOneByte, SizesOf, c
  <2>3. CASE n = \h20  BY <1>0, <1>4, <2>3 DEF Decoded, DecodeOneByte, SizesOf, c
  <2>4. CASE n = \h28  BY <1>0, <1>4, <2>4 DEF Decoded, DecodeOneByte, SizesOf, c
  <2>5. CASE n = \h30  BY <1>0, <1>4, <2>5 DEF Decoded, DecodeOneByte, SizesOf, c
  <2>6. CASE n = \h38  BY <1>0, <1>4, <2>6 DEF Decoded, DecodeOneByte, SizesOf, c
  <2>7. CASE n = \h84  BY <1>0, <1>4, <2>7 DEF Decoded, DecodeOneByte, SizesOf, c
  <2> QED  BY <1>0, <2>1, <2>2, <2>3, <2>4, <2>5, <2>6, <2>7
<1>6. End' - 1 = Len(text')  BY <1>4, EndsHere
<1>7. Gap' <=> sz = 2 /\ (High(d) \/ High(s))
  <2>1. asked'.op = op /\ asked'.sz = sz /\ asked'.args = <<R(d), R(s)>>  BY <1>1 DEF I
  <2>2. HighOperand' <=> High(d) \/ High(s)  BY <2>1, Args DEF HighArg, High, R
  <2> QED  BY <1>1, <2>1, <2>2 DEF Gap
<1> QED  BY <1>1, <1>4, <1>5, <1>6, <1>7, Verdict2

(* An immediate of one byte says what it says in two or four. *)
LEMMA SmallDigits ==
  ASSUME NEW v \in Int, IsI8(v)
  PROVE  /\ v >= 0 => Digit(v, 0) < 128 /\ Digit(v, 1) = 0 /\ Digit(v, 2) = 0 /\ Digit(v, 3) = 0
         /\ v < 0 => Digit(v, 0) >= 128 /\ Digit(v, 1) = 255 /\ Digit(v, 2) = 255 /\ Digit(v, 3) = 255
<1>1. v \div 65536 = (v \div 256) \div 256 /\ v \div 16777216 = ((v \div 256) \div 256) \div 256
  BY DivTwice
<1>2. v >= 0 => v \div 256 = 0 /\ v % 256 < 128  BY SMT DEF IsI8
<1>3. v < 0 => v \div 256 = -1 /\ v % 256 >= 128  BY SMT DEF IsI8
<1>4. v \div 1 = v  BY SMT
<1>5. \A m \in Int : (m = 0 => m \div 256 = 0 /\ m % 256 = 0)
                      /\ (m = -1 => m \div 256 = -1 /\ m % 256 = 255)
  BY SMT
<1> QED  BY <1>1, <1>2, <1>3, <1>4, <1>5, Powers, SMT DEF Digit

LEMMA SmallField ==
  ASSUME NEW v \in Int, IsI8(v), NEW n \in {1, 2, 4}, NEW sz \in SizesOf, n <= sz
  PROVE  Extend(Le(v, 1), sz) = Extend(Le(v, n), sz)
<1> DEFINE a == Digit(v, 0)  b == Digit(v, 1)  c == Digit(v, 2)  d == Digit(v, 3)
           t == IF a >= 128 THEN 255 ELSE 0
<1>1. a \in Byte /\ b = t /\ c = t /\ d = t
  <2>1. a \in Byte  BY DigitType
  <2>2. CASE v >= 0  BY <2>1, <2>2, SmallDigits, SMT DEF Byte
  <2>3. CASE v < 0  BY <2>1, <2>3, SmallDigits, SMT DEF Byte
  <2> QED  BY <2>2, <2>3, SMT
<1>2. /\ Le(v, 1) = <<a>> /\ Le(v, 2) = <<a, b>> /\ Le(v, 4) = <<a, b, c, d>>
  BY LeBytes
<1>3. t = (IF a >= 128 THEN 255 ELSE 0) /\ t \in {0, 255}  OBVIOUS
<1> HIDE DEF a, b, c, d, t
<1>4. Extend(<<a>>, sz) = [k \in 1 .. sz |-> IF k = 1 THEN a ELSE t]
  BY <1>3, SMT DEF Extend, SizesOf
<1>5. Extend(<<a, t>>, sz) = [k \in 1 .. sz |-> IF k = 1 THEN a ELSE t]
  <2> DEFINE s == <<a, t>>
  <2>1. Len(s) = 2 /\ s[1] = a /\ s[2] = t  OBVIOUS
  <2>2. t = IF t >= 128 THEN 255 ELSE 0  BY <1>3
  <2> HIDE DEF s
  <2>3. ASSUME NEW k \in 1 .. sz
        PROVE  (IF k <= Len(s) THEN s[k] ELSE IF s[Len(s)] >= 128 THEN 255 ELSE 0)
                 = IF k = 1 THEN a ELSE t
    BY <2>1, <2>2 DEF SizesOf
  <2> QED  BY <2>3 DEF Extend, s
<1>6. Extend(<<a, t, t, t>>, sz) = [k \in 1 .. sz |-> IF k = 1 THEN a ELSE t]
  <2> DEFINE s == <<a, t, t, t>>
  <2>1. Len(s) = 4 /\ s[1] = a /\ s[2] = t /\ s[3] = t /\ s[4] = t  OBVIOUS
  <2>2. t = IF t >= 128 THEN 255 ELSE 0  BY <1>3
  <2> HIDE DEF s
  <2>3. ASSUME NEW k \in 1 .. sz
        PROVE  (IF k <= Len(s) THEN s[k] ELSE IF s[Len(s)] >= 128 THEN 255 ELSE 0)
                 = IF k = 1 THEN a ELSE t
    BY <2>1, <2>2 DEF SizesOf
  <2> QED  BY <2>3 DEF Extend, s
<1> QED  BY <1>1, <1>2, <1>4, <1>5, <1>6

LEMMA Verdict0 ==
  ASSUME NEW op, NEW sz, NEW args, NEW o, NEW z, NEW l, NEW n,
         asked' = I(op, sz, args), Decoded' = Is(o, z, l, n),
         o # op \/ z # sz \/ n - 1 # Len(text'), Gap'
  PROVE  EncodingsDecode'
  BY DEF Is, I, EncodingsDecode

LEMMA AluRIDecodes ==
  ASSUME NEW op \in AluOps, NEW d \in 0 .. 15, NEW v \in Int32, NEW sz \in SizesOf,
         AluRI(op, d, v, sz)
  PROVE  EncodingsDecode'
<1> SUFFICES ASSUME NEW n, n = IF IsI8(v) THEN 1 ELSE Field(sz)
             PROVE  EncodingsDecode'
  OBVIOUS
<1> DEFINE g == AluExt[op]
           c == IF sz = 1 THEN \h80 ELSE IF IsI8(v) THEN \h83 ELSE \h81
           s == Le(v, n)
           f == FieldAt(End, n, sz)'
           e == End' + n
<1>0. /\ g \in 0 .. 7 /\ (AluNames[g + 1] = op <=> op # "test")
      /\ v \in Int /\ Field(sz) \in {1, 2, 4} /\ n \in {1, 2, 4} /\ Field(sz) <= sz
  BY AluNumbers, SMT DEF Int32, SizesOf, Field
<1>1. asked' = I(op, sz, <<R(d), Imm(v, sz)>>) /\ by' = "alu_ri"  BY DEF AluRI, Ask
<1>2. Written(Size16(sz), RexNotBytes(sz, High(g), High(R(d).n)), <<c>>, Enc(g, R(d)), s)
  <2>1. High(g) = FALSE  BY <1>0 DEF High
  <2>2. text' = Size16(sz) \o RexNotBytes(sz, FALSE, High(d)) \o <<c>> \o <<ModRM(3, g, d)>> \o s
    <3>1. <<c>> = IF sz = 1 THEN <<\h80>> ELSE IF IsI8(v) THEN <<\h83>> ELSE <<\h81>>  OBVIOUS
    <3> HIDE DEF c
    <3> QED  BY <3>1 DEF AluRI, Ask
  <2> HIDE DEF c, g, s
  <2> QED  BY <2>1, <2>2 DEF Written, Enc, R
<1>3. /\ c \in Opcodes /\ g \in 0 .. 15 /\ R(d) \in Operand /\ R(d).k = "reg" /\ R(d).n = d
      /\ s \in Seq(Byte) /\ Len(s) = n
  <2>1. s \in Seq(Byte) /\ Len(s) = n  BY <1>0, LeType
  <2> QED  BY <1>0, <2>1 DEF Opcodes, Byte, Mandatory, Operand, R
<1> HIDE DEF c, g, s
<1>4. /\ ~TwoByte' /\ OpByte' = c /\ Reg' = g % 8 /\ From(End', s) /\ (sz # 1 => Wide' = sz)
      /\ Rm(sz)' = R(d) <=> (High(d) => sz \in {4, 8}) /\ (sz = 1 => d \notin 4 .. 7)
  <2>1. /\ ~TwoByte' /\ OpByte' = c /\ Reg' = g % 8 /\ From(End', s) /\ (sz # 1 => Wide' = sz)
        /\ R(d).k # "xmm" => (Rm(sz)' = R(d) <=> /\ High(R(d).n) => sz \in {4, 8}
                                                 /\ R(d).k = "reg" /\ sz = 1 => R(d).n \notin 4 .. 7)
    BY <1>2, <1>3, NotBytes, Zenon
  <2> QED  BY <1>3, <2>1
<1>5. f = Imm(v, sz)
  <2>1. FieldAt(End, n, sz)' = V(Extend(s, sz))  BY <1>3, <1>4, ReadField
  <2>2. Extend(s, sz) = Extend(Le(v, Field(sz)), sz)  BY <1>0, SmallField DEF s
  <2> QED  BY <2>1, <2>2 DEF Imm
<1>6. Decoded' = Is(AluNames[g + 1], sz, <<Rm(sz)', f>>, e)
  <2>1. g % 8 = g  BY <1>0
  <2>2. sz = 1 => n = 1  BY DEF Field
  <2>3. CASE sz = 1
    <3>1. OpByte' = \h80 /\ n = 1  BY <1>4, <2>2, <2>3 DEF c
    <3>2. Reg' = g /\ Field(1) = 1  BY <1>4, <2>1 DEF Field
    <3> QED  BY <1>4, <2>3, <3>1, <3>2 DEF Decoded, DecodeOneByte
  <2>4. CASE sz # 1 /\ IsI8(v)
    <3>1. OpByte' = \h83 /\ n = 1 /\ Wide' = sz  BY <1>4, <2>4 DEF c
    <3> QED  BY <1>4, <2>1, <3>1 DEF Decoded, DecodeOneByte
  <2>5. CASE sz # 1 /\ ~IsI8(v)
    <3>1. OpByte' = \h81 /\ n = Field(sz) /\ Wide' = sz  BY <1>4, <2>5 DEF c
    <3> QED  BY <1>4, <2>1, <3>1 DEF Decoded, DecodeOneByte
  <2> QED  BY <2>3, <2>4, <2>5
<1>7. e - 1 = Len(text')  BY <1>3, <1>4, Ends
<1> HIDE DEF f, e
<1>8. Gap' <=> \/ op = "test"
               \/ sz \in {1, 2} /\ High(d)
               \/ sz = 1 /\ d \in 4 .. 7
  <2>1. asked'.op = op /\ asked'.sz = sz /\ asked'.args = <<R(d), Imm(v, sz)>>  BY <1>1 DEF I
  <2>2. (HighOperand' <=> High(d)) /\ (ByteRegister' <=> d \in 4 .. 7)
    BY <2>1, Args DEF HighArg, ByteArg, High, R, Imm, V
  <2> QED  BY <1>1, <2>1, <2>2 DEF Gap
<1>9. CASE op = "test"  BY <1>0, <1>1, <1>6, <1>8, <1>9, Verdict0
<1>10. CASE op # "test"
  <2>1. AluNames[g + 1] = op  BY <1>0, <1>10
  <2>2. Gap' <=> ~(Rm(sz)' = R(d) /\ f = Imm(v, sz))
    BY <1>4, <1>5, <1>8, <1>10 DEF SizesOf
  <2>3. Decoded' = Is(op, sz, <<Rm(sz)', f>>, e)
    BY <1>6, <2>1
  <2> QED  BY <1>1, <1>7, <2>2, <2>3, Verdict2
<1> QED  BY <1>9, <1>10

LEMMA MovMIDecodes ==
  ASSUME NEW base \in 0 .. 15, NEW disp \in Int32, NEW imm \in Int32, NEW sz \in SizesOf,
         MovMI(base, disp, imm, sz)
  PROVE  EncodingsDecode'
<1> DEFINE c == IF sz = 1 THEN \hC6 ELSE \hC7
           a == M(base, disp)
           n == Field(sz)
           s == Le(imm, n)
           f == FieldAt(End, n, sz)'
           e == End' + n
<1>0. n \in {1, 2, 4} /\ imm \in Int  BY SMT DEF Int32, SizesOf, Field
<1>1. asked' = I("mov", sz, <<a, Imm(imm, sz)>>) /\ by' = "mov_mi"  BY DEF MovMI, Ask
<1>2. Written(Size16(sz), EmitRex(sz = 8, High(0), High(a.n)), <<c>>, Enc(0, a), s)
  <2>1. High(0) = FALSE /\ Opc(sz, \hC7) = <<c>>  BY DEF High, Opc
  <2>2. Enc(0, a) = EmitMem(0, base, disp) /\ a.n = base  BY DEF Enc, M
  <2>3. text' = Size16(sz) \o EmitRex(sz = 8, FALSE, High(base)) \o Opc(sz, \hC7)
                    \o EmitMem(0, base, disp) \o s
    BY DEF MovMI, Ask
  <2> HIDE DEF c, a, s
  <2> QED  BY <2>1, <2>2, <2>3, ZenonT(60) DEF Written
<1>3. /\ c \in Opcodes /\ 0 \in 0 .. 15 /\ a \in Operand /\ a.k = "mem"
      /\ AnyPrefix(Size16(sz)) /\ (Size16(sz) = <<\h66>> <=> sz = 2)
      /\ s \in Seq(Byte) /\ Len(s) = n
  <2>1. s \in Seq(Byte) /\ Len(s) = n  BY <1>0, LeType
  <2>2. AnyPrefix(Size16(sz)) /\ (Size16(sz) = <<\h66>> <=> sz = 2)
    BY Prefixes
  <2>3. c \in Opcodes /\ a \in Operand /\ a.k = "mem"
    BY DEF Opcodes, Byte, Mandatory, Operand, M
  <2> HIDE DEF c, a, s, n
  <2> QED  BY <2>1, <2>2, <2>3
<1> HIDE DEF c, a, s
<1>4. ~TwoByte' /\ OpByte' = c /\ Always(sz, Size16(sz), 0, a, s)
  <2>1. ShortText(sz, Size16(sz), c, 0, a, s)  BY <1>2, <1>3 DEF ShortText
  <2> QED  BY <2>1, RexShort DEF ShortRead
<1>5. From(End', s) /\ Rm(sz)' = a /\ (sz # 1 => Wide' = sz)
  BY <1>3, <1>4 DEF Always, SizesOf
<1>6. f = Imm(imm, sz)  BY <1>3, <1>5, ReadField DEF Imm, s
<1>7. Decoded' = Is("mov", sz, <<Rm(sz)', f>>, e)
  BY <1>4, <1>5 DEF Decoded, DecodeOneByte, SizesOf, c
<1>8. e - 1 = Len(text')  BY <1>3, <1>5, Ends
<1> HIDE DEF f, e
<1>9. ~Gap'
  <2>1. asked'.op = "mov" /\ asked'.sz = sz  BY <1>1 DEF I
  <2> QED  BY <1>1, <2>1 DEF Gap
<1> QED  BY <1>1, <1>5, <1>6, <1>7, <1>8, <1>9, Verdict2

LEMMA LeaDecodes ==
  ASSUME NEW d \in 0 .. 15, NEW base \in 0 .. 15, NEW disp \in Int32, Lea(d, base, disp)
  PROVE  EncodingsDecode'
<1> DEFINE a == M(base, disp)
<1>1. asked' = I("lea", 8, <<R(d), a>>) /\ by' = "lea"  BY DEF Lea, Ask
<1>2. Written(<< >>, EmitRex(8 = 8, High(d), High(a.n)), <<\h8D>>, Enc(d, a), << >>)
  BY DEF Lea, Ask, Written, Enc, M
<1>3. /\ \h8D \in Opcodes /\ 8 \in SizesOf /\ a \in Operand /\ a.k = "mem"
      /\ AnyPrefix(<< >>) /\ << >> \in Seq(Byte)
  BY DEF Opcodes, Byte, Mandatory, Operand, M, SizesOf, AnyPrefix
<1> HIDE DEF a
<1>4. ~TwoByte' /\ OpByte' = \h8D /\ Always(8, << >>, d, a, << >>)
  <2>1. ShortText(8, << >>, \h8D, d, a, << >>)  BY <1>2, <1>3 DEF ShortText
  <2> QED  BY <2>1, RexShort DEF ShortRead
<1>5. From(End', << >>) /\ Rm(8)' = a /\ RegOf(8)' = R(d) /\ Wide' = 8
  BY <1>3, <1>4 DEF Always
<1>6. Decoded' = Is("lea", 8, <<RegOf(8)', Rm(8)'>>, End')
  BY <1>4, <1>5 DEF Decoded, DecodeOneByte
<1>7. End' - 1 = Len(text')  BY <1>5, EndsHere
<1>8. ~Gap'
  <2>1. asked'.op = "lea" /\ asked'.sz = 8  BY <1>1 DEF I
  <2> QED  BY <1>1, <2>1 DEF Gap
<1> QED  BY <1>1, <1>5, <1>6, <1>7, <1>8, Verdict2

(* Sign and zero extensions, of a register and of a memory operand. *)
LEMMA ExtensionGap ==
  ASSUME NEW op, NEW d \in 0 .. 15, NEW a, NEW from \in {1, 2, 4}, NEW to \in SizesOf,
         asked' = I(op, to, <<R(d), a, V(<<from>>)>>), by' \in {"movsx", "movzx"}
  PROVE  Gap' <=> \/ to = 2
                  \/ by' = "movzx" /\ from = 4
                  \/ from = 1 /\ to # 8 /\ a.k = "reg" /\ a.n \in 4 .. 7 /\ d < 8
<1>1. /\ asked'.sz = to /\ asked'.args[1] = R(d) /\ asked'.args[2] = a
      /\ asked'.args[3] = V(<<from>>)
  BY DEF I
<1>2. asked'.args[3].v[1] = from /\ asked'.args[1].n = d  BY <1>1 DEF V, R
<1> QED  BY <1>1, <1>2 DEF Gap

LEMMA MovSXDecodes ==
  ASSUME NEW d \in 0 .. 15, NEW a \in Operand, a.k # "xmm", NEW from \in {1, 2, 4},
         NEW to \in SizesOf, from < to, MovSX(d, a, Enc(d, a), from, to)
  PROVE  EncodingsDecode'
<1> DEFINE bare == to # 8 /\ ~High(d) /\ ~High(a.n)
           w == IF to = 8 THEN 8 ELSE 4
<1>1. asked' = I("movsx", to, <<R(d), a, V(<<from>>)>>) /\ by' = "movsx"  BY DEF MovSX, Ask
<1>2. /\ \h63 \in Opcodes /\ \hBE \in Byte /\ \hBF \in Byte /\ AnyPrefix(<< >>)
      /\ << >> \in Seq(Byte)
  BY DEF Opcodes, Byte, Mandatory, AnyPrefix
<1>3. CASE from = 4
  <2>1. Written(<< >>, EmitRex(to = 8, High(d), High(a.n)), <<\h63>>, Enc(d, a), << >>)
    BY <1>3, SMTT(40) DEF MovSX, Ask, Written
  <2>2. ~TwoByte' /\ OpByte' = \h63 /\ Always(to, << >>, d, a, << >>)
    <3>1. ShortText(to, << >>, \h63, d, a, << >>)  BY <1>2, <2>1 DEF ShortText
    <3> QED  BY <3>1, RexShort DEF ShortRead
  <2>3. From(End', << >>) /\ Rm(4)' = a /\ RegOf(8)' = R(d) /\ Wide' = 8
    BY <1>3, <2>2 DEF Always, SizesOf
  <2>4. Decoded' = Is("movsx", 8, <<RegOf(8)', Rm(4)', V(<<4>>)>>, End')
    BY <2>2, <2>3 DEF Decoded, DecodeOneByte
  <2>5. End' - 1 = Len(text')  BY <2>3, EndsHere
  <2>6. to = 8  BY <1>3 DEF SizesOf
  <2>7. ~Gap'
    <3>1. asked'.op = "movsx" /\ asked'.sz = 8 /\ asked'.args[3] = V(<<4>>)
      BY <1>1, <1>3, <2>6 DEF I
    <3>2. asked'.args[3].v[1] = 4  BY <3>1 DEF V
    <3> QED  BY <1>1, <3>1, <3>2 DEF Gap
  <2> QED  BY <1>1, <1>3, <2>3, <2>4, <2>5, <2>6, <2>7, Verdict3
<1>4. CASE from # 4
  <2> DEFINE c == IF from = 1 THEN \hBE ELSE \hBF
  <2>1. Written(<< >>, EmitRex(to = 8, High(d), High(a.n)), <<\h0F, c>>, Enc(d, a), << >>)
    <3>1. (CASE from = 1 -> <<\h0F, \hBE>> [] from = 2 -> <<\h0F, \hBF>> [] OTHER -> <<\h63>>)
            = <<\h0F, c>>
      <4>1. CASE from = 1  BY <4>1
      <4>2. CASE from = 2  BY <4>2
      <4> QED  BY <1>4, <4>1, <4>2
    <3> HIDE DEF c
    <3> QED  BY <3>1 DEF MovSX, Ask, Written
  <2> HIDE DEF c
  <2>2. c \in Byte  BY <1>2 DEF c
  <2>3. TwoByte' /\ OpByte' = c /\ Always(to, << >>, d, a, << >>)
    <3>1. LongText(to, << >>, c, d, a, << >>)  BY <1>2, <2>1, <2>2 DEF LongText
    <3> QED  BY <3>1, RexLong DEF LongRead
  <2>4. /\ From(End', << >>)
        /\ Rm(from)' = a <=> (a.k = "reg" /\ from = 1 /\ bare => a.n \notin 4 .. 7)
        /\ RegOf(w)' = R(d) /\ Wide' = w
    BY <1>4, <2>3 DEF Always, SizesOf
  <2>5. Decoded' = Is("movsx", w, <<RegOf(w)', Rm(from)', V(<<from>>)>>, End')
    <3>0. Decoded' = DecodeTwoByte' /\ Wide' = w  BY <2>3, <2>4 DEF Decoded
    <3> HIDE DEF w
    <3>1. CASE from = 1
      <4>1. OpByte' = \hBE  BY <2>3, <3>1 DEF c
      <4>2. DecodeTwoByte' = Is("movsx", Wide', <<RegOf(Wide)', Rm(1)', V(<<1>>)>>, End')
        BY <4>1 DEF DecodeTwoByte
      <4> QED  BY <3>0, <3>1, <4>2
    <3>2. CASE from = 2
      <4>1. OpByte' = \hBF  BY <2>3, <3>2 DEF c
      <4>2. DecodeTwoByte' = Is("movsx", Wide', <<RegOf(Wide)', Rm(2)', V(<<2>>)>>, End')
        BY <4>1 DEF DecodeTwoByte
      <4> QED  BY <3>0, <3>2, <4>2
    <3> QED  BY <1>4, <3>1, <3>2
  <2>6. End' - 1 = Len(text')  BY <2>4, EndsHere
  <2>7. Gap' <=> \/ to = 2
                 \/ from = 1 /\ to # 8 /\ a.k = "reg" /\ a.n \in 4 .. 7 /\ d < 8
    BY <1>1, <1>4, ExtensionGap
  <2>8. CASE to = 2  BY <1>1, <2>5, <2>7, <2>8, Verdict0
  <2>9. CASE to # 2
    <3>1. w = to  BY <2>9 DEF SizesOf
    <3>2. Gap' <=> Rm(from)' # a
      BY <2>4, <2>7, <2>9 DEF High
    <3> HIDE DEF w
    <3> QED  BY <1>1, <2>4, <2>5, <2>6, <3>1, <3>2, Verdict3
  <2> QED  BY <2>8, <2>9
<1> QED  BY <1>3, <1>4

LEMMA MovZXDecodes ==
  ASSUME NEW d \in 0 .. 15, NEW a \in Operand, a.k # "xmm", NEW from \in {1, 2, 4},
         NEW to \in SizesOf, from < to, MovZX(d, a, Enc(d, a), from, to)
  PROVE  EncodingsDecode'
<1> DEFINE bare == to # 8 /\ ~High(d) /\ ~High(a.n)
           w == IF to = 8 THEN 8 ELSE 4
           c == IF from = 1 THEN \hB6 ELSE \hB7
           z == IF from = 1 THEN 1 ELSE 2
<1>1. asked' = I("movzx", to, <<R(d), a, V(<<from>>)>>) /\ by' = "movzx"  BY DEF MovZX, Ask
<1>2. c \in Byte /\ AnyPrefix(<< >>) /\ << >> \in Seq(Byte)
  BY DEF Byte, AnyPrefix
<1>3. Written(<< >>, EmitRex(to = 8, High(d), High(a.n)), <<\h0F, c>>, Enc(d, a), << >>)
  BY DEF MovZX, Ask, Written
<1> HIDE DEF c
<1>4. TwoByte' /\ OpByte' = c /\ Always(to, << >>, d, a, << >>)
  <2>1. LongText(to, << >>, c, d, a, << >>)  BY <1>2, <1>3 DEF LongText
  <2> QED  BY <2>1, RexLong DEF LongRead
<1>5. /\ From(End', << >>)
      /\ Rm(z)' = a <=> (a.k = "reg" /\ from = 1 /\ bare => a.n \notin 4 .. 7)
      /\ RegOf(w)' = R(d) /\ Wide' = w
  BY <1>4 DEF Always, SizesOf
<1>6. Decoded' = Is("movzx", w, <<RegOf(w)', Rm(z)', V(<<z>>)>>, End')
  <2>1. CASE from = 1  BY <1>4, <1>5, <2>1 DEF Decoded, DecodeTwoByte, c
  <2>2. CASE from # 1  BY <1>4, <1>5, <2>2 DEF Decoded, DecodeTwoByte, c
  <2> QED  BY <2>1, <2>2
<1>7. End' - 1 = Len(text')  BY <1>5, EndsHere
<1>8. Gap' <=> \/ to = 2
               \/ from = 4
               \/ from = 1 /\ to # 8 /\ a.k = "reg" /\ a.n \in 4 .. 7 /\ d < 8
  BY <1>1, ExtensionGap
<1>9. CASE to = 2  BY <1>1, <1>6, <1>8, <1>9, Verdict0
<1>10. CASE to # 2
  <2>1. w = to  BY <1>10 DEF SizesOf
  <2>2. V(<<z>>) = V(<<from>>) <=> from # 4
    <3>1. z = from <=> from # 4  OBVIOUS
    <3>2. <<z>> = <<from>> <=> z = from  OBVIOUS
    <3> HIDE DEF z
    <3> QED  BY <3>1, <3>2 DEF V
  <2>3. Gap' <=> ~(Rm(z)' = a /\ V(<<z>>) = V(<<from>>))
    BY <1>5, <1>8, <1>10, <2>2 DEF High
  <2> HIDE DEF w, z
  <2> QED  BY <1>1, <1>5, <1>6, <1>7, <2>1, <2>3, Verdict3
<1> QED  BY <1>9, <1>10

(* The registers that an opcode of one byte holds. *)
LEMMA EmitsRex ==
  ASSUME NEW w \in BOOLEAN, NEW r \in BOOLEAN, NEW b \in BOOLEAN
  PROVE  Rex(EmitRex(w, r, b), w, r, b) /\ Rex(Forced(w, r, b), w, r, b)
  BY DEF Rex, EmitRex

PlusOps == {\h50, \h58, \hB0, \hB8}
PlusByte(op, n) == op + (n % 8)

PlusForm(p, x, w, b, op, n, s) ==
    /\ AnyPrefix(p) /\ w \in BOOLEAN /\ b \in BOOLEAN /\ Rex(x, w, FALSE, b)
    /\ op \in PlusOps /\ n \in 0 .. 15 /\ s \in Seq(Byte)
    /\ Written(p, x, <<PlusByte(op, n)>>, s, << >>)

PlusRead(p, x, w, b, op, n, s) ==
    /\ Header(p, x, w, FALSE, b) /\ ~TwoByte' /\ OpByte' = PlusByte(op, n) /\ From(After', s)
    /\ \A sz : PlusReg(sz)' = R(n) <=>
           (b <=> High(n)) /\ (sz = 1 /\ x = << >> => n \notin 4 .. 7)

LEMMA PlusOp ==
  ASSUME NEW p, NEW x, NEW w, NEW b, NEW op, NEW n, NEW s, PlusForm(p, x, w, b, op, n, s)
  PROVE  PlusRead(p, x, w, b, op, n, s)
<1> DEFINE c == PlusByte(op, n)
<1>0. << >> \in Seq(Byte)  OBVIOUS
<1>1. /\ AnyPrefix(p) /\ w \in BOOLEAN /\ FALSE \in BOOLEAN /\ b \in BOOLEAN
      /\ Rex(x, w, FALSE, b) /\ op \in PlusOps /\ n \in 0 .. 15 /\ s \in Seq(Byte)
      /\ Written(p, x, <<c>>, s, << >>)
  BY DEF PlusForm
<1>2. c \in Opcodes /\ c % 8 = n % 8
  <2> DEFINE m == n % 8
  <2>1. m \in 0 .. 7  BY <1>1
  <2>2. m % 8 = m  BY <2>1
  <2> HIDE DEF m
  <2>3. op + m \in Opcodes /\ (op + m) % 8 = m
    BY <1>1, <2>1 DEF Opcodes, Byte, Mandatory, PlusOps
  <2> QED  BY <2>3 DEF m, PlusByte
<1> HIDE DEF c
<1>3. Header(p, x, w, FALSE, b) /\ ~TwoByte' /\ OpByte' = c /\ From(After', s \o << >>)
  BY <1>0, <1>1, <1>2, ReadShortOp, Zenon
<1>4. s \o << >> = s  BY <1>1, Empty
<1>5. (RexBit(1)' <=> b) /\ (HasRex' <=> x # << >>) /\ RexBit(1)' \in BOOLEAN
  BY <1>3 DEF Header, RexBit
<1>6. \A sz : PlusReg(sz)' = R(n) <=> (RexBit(1)' <=> High(n)) /\ ~Aliased(n, sz)
  BY <1>1, <1>2, <1>3, <1>5, ReadPlus
<1>7. \A sz : PlusReg(sz)' = R(n) <=>
          (b <=> High(n)) /\ (sz = 1 /\ x = << >> => n \notin 4 .. 7)
  BY <1>5, <1>6 DEF Aliased
<1> QED  BY <1>3, <1>4, <1>7, Zenon DEF c, PlusRead

LEMMA PlusRange ==
  ASSUME NEW n \in 0 .. 15
  PROVE  /\ PlusByte(\h50, n) \in \h50 .. \h57 /\ PlusByte(\h58, n) \in \h58 .. \h5F
         /\ PlusByte(\hB0, n) \in \hB0 .. \hB7 /\ PlusByte(\hB8, n) \in \hB8 .. \hBF
<1>1. n % 8 \in 0 .. 7  OBVIOUS
<1> QED  BY <1>1 DEF PlusByte

LEMMA DecodePushAt ==
  ASSUME ~TwoByte', OpByte' \in \h50 .. \h57
  PROVE  Decoded' = Is("push", 8, <<PlusReg(8)'>>, After')
<1>1. CASE OpByte' = \h50  BY <1>1 DEF Decoded, DecodeOneByte
<1>2. CASE OpByte' = \h51  BY <1>2 DEF Decoded, DecodeOneByte
<1>3. CASE OpByte' = \h52  BY <1>3 DEF Decoded, DecodeOneByte
<1>4. CASE OpByte' = \h53  BY <1>4 DEF Decoded, DecodeOneByte
<1>5. CASE OpByte' = \h54  BY <1>5 DEF Decoded, DecodeOneByte
<1>6. CASE OpByte' = \h55  BY <1>6 DEF Decoded, DecodeOneByte
<1>7. CASE OpByte' = \h56  BY <1>7 DEF Decoded, DecodeOneByte
<1>8. CASE OpByte' = \h57  BY <1>8 DEF Decoded, DecodeOneByte
<1> QED  BY <1>1, <1>2, <1>3, <1>4, <1>5, <1>6, <1>7, <1>8

LEMMA DecodePush ==
  ASSUME NEW n \in 0 .. 15, ~TwoByte', OpByte' = PlusByte(\h50, n)
  PROVE  Decoded' = Is("push", 8, <<PlusReg(8)'>>, After')
<1>1. OpByte' \in \h50 .. \h57  BY PlusRange
<1> QED  BY <1>1, DecodePushAt

LEMMA DecodePopAt ==
  ASSUME ~TwoByte', OpByte' \in \h58 .. \h5F
  PROVE  Decoded' = Is("pop", 8, <<PlusReg(8)'>>, After')
<1>1. CASE OpByte' = \h58  BY <1>1 DEF Decoded, DecodeOneByte
<1>2. CASE OpByte' = \h59  BY <1>2 DEF Decoded, DecodeOneByte
<1>3. CASE OpByte' = \h5A  BY <1>3 DEF Decoded, DecodeOneByte
<1>4. CASE OpByte' = \h5B  BY <1>4 DEF Decoded, DecodeOneByte
<1>5. CASE OpByte' = \h5C  BY <1>5 DEF Decoded, DecodeOneByte
<1>6. CASE OpByte' = \h5D  BY <1>6 DEF Decoded, DecodeOneByte
<1>7. CASE OpByte' = \h5E  BY <1>7 DEF Decoded, DecodeOneByte
<1>8. CASE OpByte' = \h5F  BY <1>8 DEF Decoded, DecodeOneByte
<1> QED  BY <1>1, <1>2, <1>3, <1>4, <1>5, <1>6, <1>7, <1>8

LEMMA DecodePop ==
  ASSUME NEW n \in 0 .. 15, ~TwoByte', OpByte' = PlusByte(\h58, n)
  PROVE  Decoded' = Is("pop", 8, <<PlusReg(8)'>>, After')
<1>1. OpByte' \in \h58 .. \h5F  BY PlusRange
<1> QED  BY <1>1, DecodePopAt

LEMMA DecodeMovByteAt ==
  ASSUME ~TwoByte', OpByte' \in \hB0 .. \hB7
  PROVE  Decoded' = Is("mov", 1, <<PlusReg(1)', FieldAt(After, 1, 1)'>>, After' + 1)
<1>1. CASE OpByte' = \hB0  BY <1>1 DEF Decoded, DecodeOneByte
<1>2. CASE OpByte' = \hB1  BY <1>2 DEF Decoded, DecodeOneByte
<1>3. CASE OpByte' = \hB2  BY <1>3 DEF Decoded, DecodeOneByte
<1>4. CASE OpByte' = \hB3  BY <1>4 DEF Decoded, DecodeOneByte
<1>5. CASE OpByte' = \hB4  BY <1>5 DEF Decoded, DecodeOneByte
<1>6. CASE OpByte' = \hB5  BY <1>6 DEF Decoded, DecodeOneByte
<1>7. CASE OpByte' = \hB6  BY <1>7 DEF Decoded, DecodeOneByte
<1>8. CASE OpByte' = \hB7  BY <1>8 DEF Decoded, DecodeOneByte
<1> QED  BY <1>1, <1>2, <1>3, <1>4, <1>5, <1>6, <1>7, <1>8

LEMMA DecodeMovByte ==
  ASSUME NEW n \in 0 .. 15, ~TwoByte', OpByte' = PlusByte(\hB0, n)
  PROVE  Decoded' = Is("mov", 1, <<PlusReg(1)', FieldAt(After, 1, 1)'>>, After' + 1)
<1>1. OpByte' \in \hB0 .. \hB7  BY PlusRange
<1> QED  BY <1>1, DecodeMovByteAt

LEMMA DecodeMovPlusAt ==
  ASSUME ~TwoByte', OpByte' \in \hB8 .. \hBF
  PROVE  Decoded' =
             IF Wide' = 4
             THEN Is("mov", 8, <<PlusReg(8)', V(FieldAt(After, 4, 4)'.v \o Zeros)>>, After' + 4)
             ELSE Is("mov", Wide', <<PlusReg(Wide)', FieldAt(After, Wide, Wide)'>>, After' + Wide')
<1>1. CASE OpByte' = \hB8  BY <1>1 DEF Decoded, DecodeOneByte
<1>2. CASE OpByte' = \hB9  BY <1>2 DEF Decoded, DecodeOneByte
<1>3. CASE OpByte' = \hBA  BY <1>3 DEF Decoded, DecodeOneByte
<1>4. CASE OpByte' = \hBB  BY <1>4 DEF Decoded, DecodeOneByte
<1>5. CASE OpByte' = \hBC  BY <1>5 DEF Decoded, DecodeOneByte
<1>6. CASE OpByte' = \hBD  BY <1>6 DEF Decoded, DecodeOneByte
<1>7. CASE OpByte' = \hBE  BY <1>7 DEF Decoded, DecodeOneByte
<1>8. CASE OpByte' = \hBF  BY <1>8 DEF Decoded, DecodeOneByte
<1> QED  BY <1>1, <1>2, <1>3, <1>4, <1>5, <1>6, <1>7, <1>8

LEMMA DecodeMovPlus ==
  ASSUME NEW n \in 0 .. 15, ~TwoByte', OpByte' = PlusByte(\hB8, n)
  PROVE  Decoded' =
             IF Wide' = 4
             THEN Is("mov", 8, <<PlusReg(8)', V(FieldAt(After, 4, 4)'.v \o Zeros)>>, After' + 4)
             ELSE Is("mov", Wide', <<PlusReg(Wide)', FieldAt(After, Wide, Wide)'>>, After' + Wide')
<1>1. OpByte' \in \hB8 .. \hBF  BY PlusRange
<1> QED  BY <1>1, DecodeMovPlusAt

LEMMA PlusText ==
  ASSUME NEW op \in PlusOps, NEW r \in 0 .. 15,
         text' = EmitRex(FALSE, FALSE, High(r)) \o <<PlusByte(op, r)>>
  PROVE  /\ ~TwoByte' /\ OpByte' = PlusByte(op, r) /\ PlusReg(8)' = R(r)
         /\ After' - 1 = Len(text')
<1> DEFINE w == FALSE  b == High(r)  x == EmitRex(w, w, b)
<1>1. Written(<< >>, x, <<PlusByte(op, r)>>, << >>, << >>)  BY DEF Written
<1>2. w \in BOOLEAN /\ b \in BOOLEAN  BY DEF High
<1>3. Rex(x, w, FALSE, b)
  <2> HIDE DEF w, b
  <2>1. Rex(x, w, w, b)  BY <1>2, EmitsRex, Zenon
  <2> QED  BY <2>1 DEF w
<1>4. AnyPrefix(<< >>) /\ << >> \in Seq(Byte)  BY DEF AnyPrefix
<1> HIDE DEF w, b, x
<1>5. PlusForm(<< >>, x, w, b, op, r, << >>)  BY <1>1, <1>2, <1>3, <1>4 DEF PlusForm
<1>6. PlusRead(<< >>, x, w, b, op, r, << >>)  BY <1>5, PlusOp
<1>7. /\ ~TwoByte' /\ OpByte' = PlusByte(op, r) /\ From(After', << >>)
      /\ PlusReg(8)' = R(r)
  BY <1>6 DEF PlusRead, b
<1>8. After' - 1 = Len(text')  BY <1>7, EndsHere
<1> QED  BY <1>7, <1>8

LEMMA PushDecodes ==
  ASSUME NEW r \in 0 .. 15, Push(r)
  PROVE  EncodingsDecode'
<1>1. asked' = I("push", 8, <<R(r)>>) /\ by' = "push"  BY DEF Push, Ask
<1>2. text' = EmitRex(FALSE, FALSE, High(r)) \o <<PlusByte(\h50, r)>> /\ \h50 \in PlusOps
  BY DEF Push, Ask, Plus, PlusByte, PlusOps
<1>3. /\ ~TwoByte' /\ OpByte' = PlusByte(\h50, r) /\ PlusReg(8)' = R(r)
      /\ After' - 1 = Len(text')
  BY <1>2, PlusText
<1>4. Decoded' = Is("push", 8, <<PlusReg(8)'>>, After')
  BY <1>3, DecodePush
<1>5. ~Gap'
  <2>1. asked'.op = "push" /\ asked'.sz = 8  BY <1>1 DEF I
  <2> QED  BY <1>1, <2>1 DEF Gap
<1> QED  BY <1>1, <1>3, <1>4, <1>5, Verdict1

LEMMA PopDecodes ==
  ASSUME NEW r \in 0 .. 15, Pop(r)
  PROVE  EncodingsDecode'
<1>1. asked' = I("pop", 8, <<R(r)>>) /\ by' = "pop"  BY DEF Pop, Ask
<1>2. text' = EmitRex(FALSE, FALSE, High(r)) \o <<PlusByte(\h58, r)>> /\ \h58 \in PlusOps
  BY DEF Pop, Ask, Plus, PlusByte, PlusOps
<1>3. /\ ~TwoByte' /\ OpByte' = PlusByte(\h58, r) /\ PlusReg(8)' = R(r)
      /\ After' - 1 = Len(text')
  BY <1>2, PlusText
<1>4. Decoded' = Is("pop", 8, <<PlusReg(8)'>>, After')
  BY <1>3, DecodePop
<1>5. ~Gap'
  <2>1. asked'.op = "pop" /\ asked'.sz = 8  BY <1>1 DEF I
  <2> QED  BY <1>1, <2>1 DEF Gap
<1> QED  BY <1>1, <1>3, <1>4, <1>5, Verdict1

(* Instructions with no prefix and no ModRM byte. *)
LEMMA NoPrefix ==
  /\ AnyPrefix(<< >>) /\ << >> \in Seq(Byte) /\ Rex(<< >>, FALSE, FALSE, FALSE)
  /\ \A w, r, b \in BOOLEAN : \A x : Header(<< >>, x, w, r, b) => Wide' = IF w THEN 8 ELSE 4
<1>1. AnyPrefix(<< >>) /\ << >> \in Seq(Byte) /\ Rex(<< >>, FALSE, FALSE, FALSE)
  BY DEF AnyPrefix, Rex
<1>2. ASSUME NEW w \in BOOLEAN, NEW r \in BOOLEAN, NEW b \in BOOLEAN, NEW x,
             Header(<< >>, x, w, r, b)
      PROVE  Wide' = IF w THEN 8 ELSE 4
  <2>1. Legacy' = 0 /\ (RexBit(8)' <=> w)  BY <1>2 DEF Header
  <2> QED  BY <2>1 DEF Wide
<1> QED  BY <1>1, <1>2

LEMMA ShortPlain ==
  ASSUME NEW op \in Opcodes, NEW s \in Seq(Byte), Written(<< >>, << >>, <<op>>, s, << >>)
  PROVE  ~TwoByte' /\ OpByte' = op /\ Wide' = 4 /\ From(After', s)
<1> DEFINE w == FALSE
<1>1. AnyPrefix(<< >>) /\ << >> \in Seq(Byte) /\ w \in BOOLEAN /\ Rex(<< >>, w, w, w)
  BY NoPrefix
<1> HIDE DEF w
<1>2. Header(<< >>, << >>, w, w, w) /\ ~TwoByte' /\ OpByte' = op /\ From(After', s \o << >>)
  BY <1>1, ReadShortOp
<1>3. s \o << >> = s  BY Empty
<1>4. Wide' = IF w THEN 8 ELSE 4  BY <1>1, <1>2, NoPrefix, Zenon
<1> QED  BY <1>2, <1>3, <1>4 DEF w

LoneForm(x, w, r, b, op, s) ==
    /\ w \in BOOLEAN /\ r \in BOOLEAN /\ b \in BOOLEAN /\ Rex(x, w, r, b)
    /\ op \in Opcodes /\ s \in Seq(Byte) /\ s = << >> /\ Written(s, x, <<op>>, s, s)

LoneRead(w, op, s) ==
    ~TwoByte' /\ OpByte' = op /\ Wide' = (IF w THEN 8 ELSE 4) /\ From(After', s)

LEMMA LoneByte ==
  ASSUME NEW x, NEW w, NEW r, NEW b, NEW op, NEW s, LoneForm(x, w, r, b, op, s)
  PROVE  LoneRead(w, op, s)
<1>0. /\ w \in BOOLEAN /\ r \in BOOLEAN /\ b \in BOOLEAN /\ Rex(x, w, r, b)
      /\ op \in Opcodes /\ s \in Seq(Byte) /\ s = << >> /\ Written(s, x, <<op>>, s, s)
  BY DEF LoneForm
<1>1. AnyPrefix(s) /\ s # <<\h66>>  BY <1>0 DEF AnyPrefix
<1>2. Header(s, x, w, r, b) /\ ~TwoByte' /\ OpByte' = op /\ From(After', s \o s)
  BY <1>0, <1>1, ReadShortOp, ZenonT(60)
<1>3. s \o s = s  BY <1>0, Empty
<1>4. Wide' = IF w THEN 8 ELSE IF s = <<\h66>> THEN 2 ELSE 4  BY <1>0, <1>1, <1>2, ReadWide
<1> QED  BY <1>1, <1>2, <1>3, <1>4 DEF LoneRead

LEMMA LongPlain ==
  ASSUME NEW op \in Byte, NEW s \in Seq(Byte), Written(<< >>, << >>, <<\h0F, op>>, s, << >>)
  PROVE  TwoByte' /\ OpByte' = op /\ From(After', s)
<1> DEFINE w == FALSE
<1>1. AnyPrefix(<< >>) /\ << >> \in Seq(Byte) /\ w \in BOOLEAN /\ Rex(<< >>, w, w, w)
  BY NoPrefix
<1> HIDE DEF w
<1>2. Header(<< >>, << >>, w, w, w) /\ TwoByte' /\ OpByte' = op /\ From(After', s \o << >>)
  BY <1>1, ReadLongOp
<1>3. s \o << >> = s  BY Empty
<1> QED  BY <1>2, <1>3

LEMMA PushImmDecodes ==
  ASSUME NEW v \in Int32, PushImm(v)
  PROVE  EncodingsDecode'
<1> SUFFICES ASSUME NEW n, n = IF IsI8(v) THEN 1 ELSE 4
             PROVE  EncodingsDecode'
  OBVIOUS
<1> DEFINE c == IF IsI8(v) THEN \h6A ELSE \h68
           s == Le(v, n)
           f == FieldAt(After, n, 8)'
           e == After' + n
<1>1. asked' = I("push", 8, <<Imm(v, 8)>>) /\ by' = "push_imm"  BY DEF PushImm, Ask
<1>2. Written(<< >>, << >>, <<c>>, s, << >>)  BY DEF PushImm, Ask, Written
<1>3. c \in Opcodes /\ s \in Seq(Byte) /\ Len(s) = n /\ v \in Int
  <2>1. v \in Int /\ n \in {1, 2, 4}  BY SMT DEF Int32
  <2>2. s \in Seq(Byte) /\ Len(s) = n  BY <2>1, LeType
  <2>3. c \in Opcodes  BY DEF Opcodes, Byte, Mandatory
  <2> HIDE DEF s, c
  <2> QED  BY <2>1, <2>2, <2>3
<1> HIDE DEF c, s
<1>4. ~TwoByte' /\ OpByte' = c /\ From(After', s)  BY <1>2, <1>3, ShortPlain
<1>5. f = Imm(v, 8)
  <2>1. f = V(Extend(s, 8))  BY <1>3, <1>4, ReadField
  <2>2. Extend(s, 8) = Extend(Le(v, 4), 8)
    <3>1. 8 \in SizesOf /\ 4 \in {1, 2, 4} /\ 4 <= 8  BY DEF SizesOf
    <3>2. IsI8(v) => Extend(Le(v, 1), 8) = Extend(Le(v, 4), 8)
      BY <1>3, <3>1, SmallField, Zenon
    <3> QED  BY <3>2 DEF s
  <2> QED  BY <2>1, <2>2 DEF Imm, Field
<1>6. Decoded' = Is("push", 8, <<f>>, e)
  <2>1. CASE IsI8(v)  BY <1>4, <2>1 DEF Decoded, DecodeOneByte, c
  <2>2. CASE ~IsI8(v)  BY <1>4, <2>2 DEF Decoded, DecodeOneByte, c
  <2> QED  BY <2>1, <2>2
<1>7. e - 1 = Len(text')  BY <1>3, <1>4, Ends
<1> HIDE DEF f, e
<1>8. ~Gap'
  <2>1. asked'.op = "push" /\ asked'.sz = 8  BY <1>1 DEF I
  <2> QED  BY <1>1, <2>1 DEF Gap
<1> QED  BY <1>1, <1>5, <1>6, <1>7, <1>8, Verdict1

(* The eight bytes of a 64-bit immediate, and the low ones of them. *)
LEMMA WideIsSeq ==
  ASSUME NEW imm \in [1 .. 8 -> Byte]
  PROVE  imm \in Seq(Byte) /\ Len(imm) = 8
<1> DEFINE s == [k \in 1 .. 8 |-> imm[k]]
<1>1. s \in Seq(Byte) /\ Len(s) = 8
  <2>1. \A k \in 1 .. 8 : imm[k] \in Byte  OBVIOUS
  <2> QED  BY <2>1
<1>2. imm = s  OBVIOUS
<1> HIDE DEF s
<1> QED  BY <1>1, <1>2

LEMMA LowBytes ==
  ASSUME NEW imm \in [1 .. 8 -> Byte], NEW n \in {1, 2, 4}
  PROVE  /\ Low(imm, n) \in Seq(Byte) /\ Len(Low(imm, n)) = n
         /\ \A k \in 1 .. n : Low(imm, n)[k] = imm[k]
         /\ Extend(Low(imm, n), n) = Low(imm, n)
<1>1. imm \in Seq(Byte) /\ Len(imm) = 8  BY WideIsSeq
<1> DEFINE s == Low(imm, n)
<1>2. /\ s \in Seq(Byte) /\ Len(s) = n /\ \A k \in 1 .. n : s[k] = imm[k]
  BY <1>1 DEF Low
<1> HIDE DEF s
<1>3. Extend(s, n) = [k \in 1 .. n |-> s[k]]  BY <1>2 DEF Extend
<1>4. s = [k \in 1 .. n |-> s[k]]  BY <1>2
<1>5. Extend(s, n) = s  BY <1>3, <1>4, Zenon
<1> QED  BY <1>2, <1>5 DEF s

LEMMA WideBytes ==
  ASSUME NEW imm \in [1 .. 8 -> Byte]
  PROVE  /\ imm \in Seq(Byte) /\ Len(imm) = 8 /\ Extend(imm, 8) = imm
         /\ SubSeq(imm, 5, 8) = Zeros => Low(imm, 4) \o Zeros = imm
         /\ SubSeq(imm, 5, 8) = SignOf(imm) => Extend(Low(imm, 4), 8) = imm
<1>1. imm \in Seq(Byte) /\ Len(imm) = 8  BY WideIsSeq
<1>2. Extend(imm, 8) = imm
  <2>1. Extend(imm, 8) = [k \in 1 .. 8 |-> imm[k]]  BY <1>1 DEF Extend
  <2>2. imm = [k \in 1 .. 8 |-> imm[k]]  OBVIOUS
  <2> QED  BY <2>1, <2>2, Zenon
<1> DEFINE low == Low(imm, 4)  high == SubSeq(imm, 5, 8)
<1>3. low \in Seq(Byte) /\ Len(low) = 4 /\ \A k \in 1 .. 4 : low[k] = imm[k]  BY LowBytes
<1>4. high[1] = imm[5] /\ high[2] = imm[6] /\ high[3] = imm[7] /\ high[4] = imm[8]  BY <1>1
<1> HIDE DEF low, high
<1>5. ASSUME high = Zeros
      PROVE  low \o Zeros = imm
  <2>1. Zeros \in Seq(Byte) /\ Len(Zeros) = 4  BY DEF Zeros, Byte
  <2>2. \A k \in 1 .. 4 : high[k] = imm[4 + k]  BY <1>4
  <2>3. /\ low \o Zeros \in Seq(Byte) /\ Len(low \o Zeros) = 4 + 4
        /\ \A k \in 1 .. 4 + 4 : (low \o Zeros)[k] = IF k <= 4 THEN low[k] ELSE Zeros[k - 4]
    <3>1. /\ low \o Zeros \in Seq(Byte) /\ Len(low \o Zeros) = Len(low) + Len(Zeros)
          /\ \A k \in 1 .. Len(low) + Len(Zeros) : (low \o Zeros)[k] =
                 IF k <= Len(low) THEN low[k] ELSE Zeros[k - Len(low)]
      BY <1>3, <2>1, ConcatProperties, Zenon
    <3> QED  BY <1>3, <2>1, <3>1, Zenon
  <2> DEFINE z == low \o Zeros
  <2> HIDE DEF z
  <2>4. ASSUME NEW k \in 1 .. 8
        PROVE  z[k] = imm[k]
    <3>1. CASE k <= 4  BY <1>3, <2>3, <3>1, SMTT(40) DEF z
    <3>2. CASE k > 4
      <4>1. k - 4 \in 1 .. 4 /\ 4 + (k - 4) = k  BY <3>2
      <4>2. Zeros[k - 4] = imm[k]  BY <1>5, <2>2, <4>1
      <4>3. z[k] = Zeros[k - 4]
        <5>1. k \in 1 .. 4 + 4 /\ ~(k <= 4)  BY <3>2
        <5> QED  BY <2>3, <5>1, Zenon DEF z
      <4> QED  BY <4>2, <4>3
    <3> QED  BY <3>1, <3>2
  <2>5. z \in Seq(Byte) /\ Len(z) = 8  BY <2>3 DEF z
  <2>6. z = imm  BY <1>1, <2>4, <2>5, SeqEqual
  <2> QED  BY <2>6 DEF z
<1>6. ASSUME high = SignOf(imm)
      PROVE  Extend(low, 8) = imm
  <2> DEFINE t == IF imm[4] >= 128 THEN 255 ELSE 0
  <2>1. SignOf(imm) = <<t, t, t, t>>  BY DEF SignOf, Zeros
  <2>2. imm[5] = t /\ imm[6] = t /\ imm[7] = t /\ imm[8] = t  BY <1>4, <1>6, <2>1
  <2>3. low[4] = imm[4]  BY <1>3
  <2>4. Extend(low, 8) = [k \in 1 .. 8 |-> IF k <= 4 THEN low[k] ELSE t]
    BY <1>3, <2>3 DEF Extend
  <2> HIDE DEF t
  <2>5. \A k \in 1 .. 8 : (IF k <= 4 THEN low[k] ELSE t) = imm[k]  BY <1>3, <2>2
  <2>6. Extend(low, 8) = [k \in 1 .. 8 |-> imm[k]]  BY <2>4, <2>5
  <2> QED  BY <2>6
<1> QED  BY <1>1, <1>2, <1>5, <1>6 DEF low, high

(* The forms of x64_mov_ri: the number in the opcode, of 32 and 64 bits,   *)
(* or after a ModRM byte and sign-extended; then the two small sizes.      *)
LEMMA MovGap ==
  ASSUME NEW sz, NEW a, NEW b, asked' = I("mov", sz, <<a, b>>), by' = "mov_ri"
  PROVE  Gap' <=> sz = 2 /\ HighOperand'
<1>1. asked'.op = "mov" /\ asked'.sz = sz  BY DEF I
<1> QED  BY <1>1 DEF Gap

LEMMA MovPlus32 ==
  ASSUME NEW d \in 0 .. 15, NEW imm \in [1 .. 8 -> Byte], NEW s, s = Low(imm, 4),
         text' = EmitRex(FALSE, FALSE, High(d)) \o Plus(\hB8, d) \o s,
         asked' = I("mov", 8, <<R(d), V(s \o Zeros)>>), by' = "mov_ri"
  PROVE  EncodingsDecode'
<1> DEFINE w == FALSE  b == High(d)  x == EmitRex(w, w, b)
<1>1. Written(<< >>, x, <<PlusByte(\hB8, d)>>, s, << >>)  BY DEF Written, Plus, PlusByte
<1>2. w \in BOOLEAN /\ b \in BOOLEAN  BY DEF High
<1>3. Rex(x, w, FALSE, b)
  <2> HIDE DEF w, b
  <2>1. Rex(x, w, w, b)  BY <1>2, EmitsRex, Zenon
  <2> QED  BY <2>1 DEF w
<1>4. AnyPrefix(<< >>) /\ s \in Seq(Byte) /\ Len(s) = 4 /\ Extend(s, 4) = s
  BY LowBytes DEF AnyPrefix
<1> HIDE DEF w, b, x
<1>5. PlusForm(<< >>, x, w, b, \hB8, d, s)
  <2>1. \hB8 \in PlusOps  BY DEF PlusOps
  <2> QED  BY <1>1, <1>2, <1>3, <1>4, <2>1 DEF PlusForm
<1>6. PlusRead(<< >>, x, w, b, \hB8, d, s)  BY <1>5, PlusOp
<1>7. /\ ~TwoByte' /\ OpByte' = PlusByte(\hB8, d) /\ From(After', s)
      /\ PlusReg(8)' = R(d)
  BY <1>6 DEF PlusRead, b
<1>8. Wide' = 4
  <2>1. Legacy' = 0 /\ ~RexBit(8)'  BY <1>6 DEF PlusRead, Header, w
  <2> QED  BY <2>1 DEF Wide
<1>9. FieldAt(After, 4, 4)'.v = s
  <2>1. FieldAt(After, 4, 4)' = V(Extend(s, 4))  BY <1>4, <1>7, ReadField, ZenonT(60)
  <2> QED  BY <1>4, <2>1 DEF V
<1>10. Decoded' = Is("mov", 8, <<PlusReg(8)', V(s \o Zeros)>>, After' + 4)
  BY <1>7, <1>8, <1>9, DecodeMovPlus
<1>11. (After' + 4) - 1 = Len(text')  BY <1>4, <1>7, Ends, ZenonT(60)
<1>12. ~Gap'  BY MovGap
<1> QED  BY <1>7, <1>10, <1>11, <1>12, Verdict2

LEMMA MovPlus64 ==
  ASSUME NEW d \in 0 .. 15, NEW imm \in [1 .. 8 -> Byte],
         text' = EmitRex(TRUE, FALSE, High(d)) \o Plus(\hB8, d) \o imm,
         asked' = I("mov", 8, <<R(d), V(imm)>>), by' = "mov_ri"
  PROVE  EncodingsDecode'
<1> DEFINE w == TRUE  r == FALSE  b == High(d)  x == EmitRex(w, r, b)
<1>1. Written(<< >>, x, <<PlusByte(\hB8, d)>>, imm, << >>)  BY DEF Written, Plus, PlusByte
<1>2. w \in BOOLEAN /\ r \in BOOLEAN /\ b \in BOOLEAN  BY DEF High
<1>3. Rex(x, w, FALSE, b)
  <2> HIDE DEF w, r, b
  <2>1. Rex(x, w, r, b)  BY <1>2, EmitsRex, Zenon
  <2> QED  BY <2>1 DEF r
<1>4. AnyPrefix(<< >>) /\ imm \in Seq(Byte) /\ Len(imm) = 8 /\ Extend(imm, 8) = imm
  BY WideBytes DEF AnyPrefix
<1> HIDE DEF w, r, b, x
<1>5. PlusForm(<< >>, x, w, b, \hB8, d, imm)
  <2>1. \hB8 \in PlusOps  BY DEF PlusOps
  <2> QED  BY <1>1, <1>2, <1>3, <1>4, <2>1 DEF PlusForm
<1>6. PlusRead(<< >>, x, w, b, \hB8, d, imm)  BY <1>5, PlusOp
<1>7. /\ ~TwoByte' /\ OpByte' = PlusByte(\hB8, d) /\ From(After', imm)
      /\ PlusReg(8)' = R(d)
  BY <1>6 DEF PlusRead, b
<1>8. Wide' = 8
  <2>1. Header(<< >>, x, w, FALSE, b)  BY <1>6 DEF PlusRead
  <2> QED  BY <1>4, <2>1, ReadWide DEF w
<1>9. FieldAt(After, 8, 8)' = V(imm)  BY <1>4, <1>7, ReadField, ZenonT(60)
<1>10. Decoded' = Is("mov", 8, <<PlusReg(8)', V(imm)>>, After' + 8)
  BY <1>7, <1>8, <1>9, DecodeMovPlus, SMTT(40)
<1>11. (After' + 8) - 1 = Len(text')  BY <1>4, <1>7, Ends
<1>12. ~Gap'  BY MovGap
<1> QED  BY <1>7, <1>10, <1>11, <1>12, Verdict2

LEMMA MovExtended ==
  ASSUME NEW d \in 0 .. 15, NEW imm \in [1 .. 8 -> Byte], SubSeq(imm, 5, 8) = SignOf(imm),
         NEW s, s = Low(imm, 4),
         text' = EmitRex(TRUE, FALSE, High(d)) \o <<\hC7>> \o <<ModRM(3, 0, d)>> \o s,
         asked' = I("mov", 8, <<R(d), V(imm)>>), by' = "mov_ri"
  PROVE  EncodingsDecode'
<1> DEFINE a == R(d)
<1>1. Written(<< >>, EmitRex(8 = 8, High(0), High(a.n)), <<\hC7>>, Enc(0, a), s)
  <2>1. High(0) = FALSE  BY DEF High
  <2> QED  BY <2>1, ZenonT(60) DEF Written, Enc, R
<1>2. /\ \hC7 \in Opcodes /\ 8 \in SizesOf /\ 0 \in 0 .. 15 /\ a \in Operand /\ a.k = "reg"
      /\ AnyPrefix(<< >>) /\ s \in Seq(Byte) /\ Len(s) = 4 /\ Extend(s, 8) = imm
  <2>1. s \in Seq(Byte) /\ Len(s) = 4  BY LowBytes
  <2>2. Extend(s, 8) = imm  BY WideBytes
  <2> QED  BY <2>1, <2>2 DEF Opcodes, Byte, Mandatory, Operand, R, SizesOf, AnyPrefix
<1> HIDE DEF a
<1>3. ~TwoByte' /\ OpByte' = \hC7 /\ Always(8, << >>, 0, a, s)
  <2>1. ShortText(8, << >>, \hC7, 0, a, s)  BY <1>1, <1>2 DEF ShortText
  <2> QED  BY <2>1, RexShort DEF ShortRead
<1>4. From(End', s) /\ Rm(8)' = a /\ Wide' = 8
  BY <1>2, <1>3 DEF Always
<1>5. FieldAt(End, 4, 8)' = V(imm)
  <2>1. FieldAt(End, 4, 8)' = V(Extend(s, 8))  BY <1>2, <1>4, ReadField
  <2> QED  BY <1>2, <2>1
<1>6. Decoded' = Is("mov", 8, <<Rm(8)', FieldAt(End, 4, 8)'>>, End' + 4)
  <2>1. Field(8) = 4  BY DEF Field
  <2> QED  BY <1>3, <1>4, <2>1 DEF Decoded, DecodeOneByte
<1>7. (End' + 4) - 1 = Len(text')  BY <1>2, <1>4, Ends, ZenonT(60)
<1>8. ~Gap'  BY MovGap
<1> QED  BY <1>4, <1>5, <1>6, <1>7, <1>8, Verdict2 DEF a

LEMMA MovPlus16 ==
  ASSUME NEW d \in 0 .. 15, NEW imm \in [1 .. 8 -> Byte], NEW s, s = Low(imm, 2),
         text' = Size16(2) \o Plus(\hB8, d) \o s,
         asked' = I("mov", 2, <<R(d), V(s)>>), by' = "mov_ri"
  PROVE  EncodingsDecode'
<1> DEFINE w == FALSE  p == <<\h66>>
<1>1. Written(p, << >>, <<PlusByte(\hB8, d)>>, s, << >>)  BY DEF Written, Plus, PlusByte, Size16
<1>2. w \in BOOLEAN /\ Rex(<< >>, w, FALSE, w) /\ AnyPrefix(p)
  BY DEF Rex, AnyPrefix, Mandatory
<1>3. s \in Seq(Byte) /\ Len(s) = 2 /\ Extend(s, 2) = s  BY LowBytes
<1> HIDE DEF w, p
<1>4. PlusForm(p, << >>, w, w, \hB8, d, s)
  <2>1. \hB8 \in PlusOps  BY DEF PlusOps
  <2> QED  BY <1>1, <1>2, <1>3, <2>1 DEF PlusForm
<1>5. PlusRead(p, << >>, w, w, \hB8, d, s)  BY <1>4, PlusOp
<1>6. /\ ~TwoByte' /\ OpByte' = PlusByte(\hB8, d) /\ From(After', s)
      /\ PlusReg(2)' = R(d) <=> ~High(d)
  BY <1>5 DEF PlusRead, w
<1>7. Wide' = 2
  <2>1. p # << >> /\ p[1] = \h66  BY DEF p
  <2>2. Legacy' = \h66 /\ ~RexBit(8)'  BY <1>5, <2>1 DEF PlusRead, Header, w
  <2> QED  BY <2>2 DEF Wide
<1>8. FieldAt(After, 2, 2)' = V(s)
  <2>1. FieldAt(After, 2, 2)' = V(Extend(s, 2))  BY <1>3, <1>6, ReadField, ZenonT(60)
  <2> QED  BY <1>3, <2>1
<1>9. Decoded' = Is("mov", 2, <<PlusReg(2)', V(s)>>, After' + 2)
  BY <1>6, <1>7, <1>8, DecodeMovPlus, SMTT(40)
<1>10. (After' + 2) - 1 = Len(text')  BY <1>3, <1>6, Ends, ZenonT(60)
<1>11. Gap' <=> High(d)
  <2>1. asked'.args = <<R(d), V(s)>>  BY DEF I
  <2>2. HighArg(R(d)) <=> High(d)  BY DEF HighArg, High, R
  <2>3. ~HighArg(V(s))  BY DEF HighArg, V
  <2>4. HighOperand' <=> HighArg(R(d)) \/ HighArg(V(s))  BY <2>1, Args, Zenon
  <2>5. Gap' <=> HighOperand'  BY MovGap
  <2> QED  BY <2>2, <2>3, <2>4, <2>5
<1> QED  BY <1>6, <1>9, <1>10, <1>11, Verdict2

LEMMA MovPlus8 ==
  ASSUME NEW d \in 0 .. 15, NEW imm \in [1 .. 8 -> Byte], NEW s, s = Low(imm, 1),
         text' = Forced(FALSE, FALSE, High(d)) \o Plus(\hB0, d) \o s,
         asked' = I("mov", 1, <<R(d), V(s)>>), by' = "mov_ri"
  PROVE  EncodingsDecode'
<1> DEFINE w == FALSE  b == High(d)  x == Forced(w, w, b)
<1>1. Written(<< >>, x, <<PlusByte(\hB0, d)>>, s, << >>)  BY DEF Written, Plus, PlusByte
<1>2. w \in BOOLEAN /\ b \in BOOLEAN /\ x # << >>  BY DEF High, Forced
<1>3. Rex(x, w, FALSE, b)
  <2> HIDE DEF w, b
  <2>1. Rex(x, w, w, b)  BY <1>2, EmitsRex, Zenon
  <2> QED  BY <2>1 DEF w
<1>4. AnyPrefix(<< >>) /\ s \in Seq(Byte) /\ Len(s) = 1 /\ Extend(s, 1) = s
  BY LowBytes DEF AnyPrefix
<1> HIDE DEF w, b, x
<1>5. PlusForm(<< >>, x, w, b, \hB0, d, s)
  <2>1. \hB0 \in PlusOps  BY DEF PlusOps
  <2> QED  BY <1>1, <1>2, <1>3, <1>4, <2>1 DEF PlusForm
<1>6. PlusRead(<< >>, x, w, b, \hB0, d, s)  BY <1>5, PlusOp
<1>7. /\ ~TwoByte' /\ OpByte' = PlusByte(\hB0, d) /\ From(After', s)
      /\ PlusReg(1)' = R(d)
  BY <1>2, <1>6 DEF PlusRead, b
<1>8. FieldAt(After, 1, 1)' = V(s)
  <2>1. FieldAt(After, 1, 1)' = V(Extend(s, 1))  BY <1>4, <1>7, ReadField, ZenonT(60)
  <2> QED  BY <1>4, <2>1
<1>9. Decoded' = Is("mov", 1, <<PlusReg(1)', V(s)>>, After' + 1)
  BY <1>7, <1>8, DecodeMovByte
<1>10. (After' + 1) - 1 = Len(text')  BY <1>4, <1>7, Ends, ZenonT(60)
<1>11. ~Gap'  BY MovGap
<1> QED  BY <1>7, <1>9, <1>10, <1>11, Verdict2

LEMMA MovRIDecodes ==
  ASSUME NEW d \in 0 .. 15, NEW imm \in [1 .. 8 -> Byte], NEW sz \in SizesOf, MovRI(d, imm, sz)
  PROVE  EncodingsDecode'
<1>1. by' = "mov_ri"  BY DEF MovRI, Ask, SizesOf
<1>2. CASE sz = 8
  <2>0. sz # 4 /\ sz # 2  BY <1>2
  <2>1. asked' = I("mov", 8, <<R(d), V(imm)>>)  BY <1>2 DEF MovRI, Ask
  <2>2. CASE SubSeq(imm, 5, 8) = Zeros
    <3>1. text' = EmitRex(FALSE, FALSE, High(d)) \o Plus(\hB8, d) \o Low(imm, 4)
      BY <1>2, <2>0, <2>2, Zenon DEF MovRI, Ask
    <3>2. asked' = I("mov", 8, <<R(d), V(Low(imm, 4) \o Zeros)>>)
      BY <2>1, <2>2, WideBytes
    <3> QED  BY <1>1, <3>1, <3>2, MovPlus32
  <2>3. CASE SubSeq(imm, 5, 8) # Zeros /\ SubSeq(imm, 5, 8) = SignOf(imm)
    <3>1. text' = EmitRex(TRUE, FALSE, High(d)) \o <<\hC7>> \o <<ModRM(3, 0, d)>> \o Low(imm, 4)
      BY <1>2, <2>0, <2>3, Zenon DEF MovRI, Ask
    <3> QED  BY <1>1, <2>1, <2>3, <3>1, MovExtended
  <2>4. CASE SubSeq(imm, 5, 8) # Zeros /\ SubSeq(imm, 5, 8) # SignOf(imm)
    <3>1. text' = EmitRex(TRUE, FALSE, High(d)) \o Plus(\hB8, d) \o imm
      BY <1>2, <2>0, <2>4, Zenon DEF MovRI, Ask
    <3> QED  BY <1>1, <2>1, <3>1, MovPlus64
  <2> QED  BY <2>2, <2>3, <2>4
<1>3. CASE sz = 4
  <2>0. sz # 8 /\ sz # 2  BY <1>3
  <2>1. /\ text' = EmitRex(FALSE, FALSE, High(d)) \o Plus(\hB8, d) \o Low(imm, 4)
        /\ asked' = I("mov", 8, <<R(d), V(Low(imm, 4) \o Zeros)>>)
    BY <1>3, <2>0, Zenon DEF MovRI, Ask
  <2> QED  BY <1>1, <2>1, MovPlus32
<1>4. CASE sz = 2
  <2>1. /\ text' = Size16(2) \o Plus(\hB8, d) \o Low(imm, 2)
        /\ asked' = I("mov", 2, <<R(d), V(Low(imm, 2))>>)
    BY <1>4 DEF MovRI, Ask
  <2> QED  BY <1>1, <2>1, MovPlus16
<1>5. CASE sz = 1
  <2>0. sz # 8 /\ sz # 4 /\ sz # 2  BY <1>5
  <2>1. /\ text' = Forced(FALSE, FALSE, High(d)) \o Plus(\hB0, d) \o Low(imm, 1)
        /\ asked' = I("mov", 1, <<R(d), V(Low(imm, 1))>>)
    BY <1>5, <2>0, Zenon DEF MovRI, Ask
  <2> QED  BY <1>1, <2>1, MovPlus8
<1> QED  BY <1>2, <1>3, <1>4, <1>5 DEF SizesOf

LEMMA AddRMDecodes ==
  ASSUME NEW d \in 0 .. 15, NEW base \in 0 .. 15, NEW disp \in Int32, NEW sz \in SizesOf,
         AddRM(d, base, disp, sz)
  PROVE  EncodingsDecode'
<1> DEFINE op == IF sz = 1 THEN \h02 ELSE \h03  a == M(base, disp)
<1>1. asked' = I("add", sz, <<R(d), a>>) /\ by' = "add_rm"  BY DEF AddRM, Ask
<1>2. Written(Size16(sz), RexNotBytes(sz, High(d), High(a.n)), <<op>>, Enc(d, a), << >>)
  BY SMTT(40) DEF AddRM, Ask, Written, Enc, M, Opc
<1>3. op \in Opcodes /\ a \in Operand /\ a.k = "mem" /\ a.n = base /\ << >> \in Seq(Byte)
  BY DEF Opcodes, Byte, Mandatory, Operand, M
<1> HIDE DEF op, a
<1>4. /\ ~TwoByte' /\ OpByte' = op /\ From(End', << >>) /\ (sz # 1 => Wide' = sz)
      /\ Rm(sz)' = a <=> (High(base) => sz \in {4, 8})
      /\ RegOf(sz)' = R(d) <=> (High(d) => sz \in {4, 8}) /\ (sz = 1 => d \notin 4 .. 7)
  BY <1>2, <1>3, NotBytes
<1>5. Decoded' = Is("add", sz, <<RegOf(sz)', Rm(sz)'>>, End')
  BY <1>4 DEF Decoded, DecodeOneByte, SizesOf, op, AluNames
<1>6. End' - 1 = Len(text')  BY <1>4, EndsHere
<1>7. Gap' <=> \/ sz \in {1, 2} /\ (High(d) \/ High(base))
               \/ sz = 1 /\ d \in 4 .. 7
  <2>1. asked'.op = "add" /\ asked'.sz = sz /\ asked'.args = <<R(d), a>>  BY <1>1 DEF I
  <2>2. (HighOperand' <=> High(d) \/ High(base)) /\ (ByteRegister' <=> d \in 4 .. 7)
    BY <1>3, <2>1, Args DEF HighArg, ByteArg, High, R
  <2> QED  BY <1>1, <2>1, <2>2 DEF Gap
<1>8. Gap' <=> ~(RegOf(sz)' = R(d) /\ Rm(sz)' = a)  BY <1>4, <1>7 DEF SizesOf
<1> QED  BY <1>1, <1>5, <1>6, <1>8, Verdict2

LEMMA ImulRRDecodes ==
  ASSUME NEW d \in 0 .. 15, NEW s \in 0 .. 15, NEW sz \in SizesOf, ImulRR(d, s, sz)
  PROVE  EncodingsDecode'
<1> DEFINE a == R(s)  w == IF sz = 1 THEN 4 ELSE sz
<1>1. asked' = I("imul", sz, <<R(d), a>>) /\ by' = "imul_rr"  BY DEF ImulRR, Ask
<1>2. Written(Size16(sz), EmitRex(sz = 8, High(d), High(a.n)), <<\h0F, \hAF>>, Enc(d, a), << >>)
  BY ZenonT(60) DEF ImulRR, Ask, Written, Enc, R
<1>3. /\ \hAF \in Byte /\ a \in Operand /\ a.k = "reg" /\ << >> \in Seq(Byte)
      /\ AnyPrefix(Size16(sz)) /\ (Size16(sz) = <<\h66>> <=> sz = 2)
  <2>1. AnyPrefix(Size16(sz)) /\ (Size16(sz) = <<\h66>> <=> sz = 2)  BY Prefixes
  <2> QED  BY <2>1 DEF Byte, Operand, R
<1> HIDE DEF a
<1>4. TwoByte' /\ OpByte' = \hAF /\ Always(sz, Size16(sz), d, a, << >>)
  <2>1. LongText(sz, Size16(sz), \hAF, d, a, << >>)  BY <1>2, <1>3 DEF LongText
  <2> QED  BY <2>1, RexLong DEF LongRead
<1>5. From(End', << >>) /\ Rm(w)' = a /\ RegOf(w)' = R(d) /\ Wide' = w
  BY <1>3, <1>4 DEF Always, SizesOf
<1>6. Decoded' = Is("imul", w, <<RegOf(w)', Rm(w)'>>, End')
  BY <1>4, <1>5 DEF Decoded, DecodeTwoByte
<1>7. End' - 1 = Len(text')  BY <1>5, EndsHere
<1>8. Gap' <=> sz = 1
  <2>1. asked'.op = "imul" /\ asked'.sz = sz  BY <1>1 DEF I
  <2> QED  BY <1>1, <2>1 DEF Gap
<1>9. CASE sz = 1  BY <1>1, <1>6, <1>8, <1>9, Verdict0
<1>10. CASE sz # 1
  <2>1. w = sz  BY <1>10
  <2> HIDE DEF w
  <2> QED  BY <1>1, <1>5, <1>6, <1>7, <1>8, <1>10, <2>1, Verdict2
<1> QED  BY <1>9, <1>10

LEMMA IdivDecodes ==
  ASSUME NEW r \in 0 .. 15, NEW sz \in SizesOf, Idiv(r, sz)
  PROVE  EncodingsDecode'
<1> DEFINE c == IF sz = 1 THEN \hF6 ELSE \hF7  a == R(r)  w == IF sz = 2 THEN 4 ELSE sz
<1>1. asked' = I("idiv", sz, <<a>>) /\ by' = "idiv"  BY DEF Idiv, Ask
<1>2. Written(<< >>, EmitRex(sz = 8, High(7), High(a.n)), <<c>>, Enc(7, a), << >>)
  <2>1. High(7) = FALSE /\ Opc(sz, \hF7) = <<c>> /\ a.n = r  BY DEF High, Opc, R
  <2>2. Enc(7, a) = <<ModRM(3, 7, r)>>  BY DEF Enc, R
  <2>3. text' = EmitRex(sz = 8, FALSE, High(r)) \o Opc(sz, \hF7) \o <<ModRM(3, 7, r)>>
    BY DEF Idiv, Ask
  <2> HIDE DEF c, a
  <2> QED  BY <2>1, <2>2, <2>3, ZenonT(60) DEF Written
<1>3. /\ c \in Opcodes /\ 7 \in 0 .. 15 /\ a \in Operand /\ a.k = "reg" /\ a.n = r
      /\ AnyPrefix(<< >>) /\ << >> \in Seq(Byte)
  BY DEF Opcodes, Byte, Mandatory, Operand, R, AnyPrefix
<1> HIDE DEF c, a
<1>4. ~TwoByte' /\ OpByte' = c /\ Always(sz, << >>, 7, a, << >>)
  <2>1. ShortText(sz, << >>, c, 7, a, << >>)  BY <1>2, <1>3 DEF ShortText
  <2> QED  BY <2>1, RexShort DEF ShortRead
<1>5. /\ From(End', << >>) /\ (sz # 1 => Wide' = w) /\ Reg' = 7
      /\ Rm(w)' = a <=> (sz = 1 => r \notin 4 .. 7)
  <2>1. r \in 4 .. 7 => ~High(r)  BY DEF High
  <2>2. ~High(7) /\ 7 % 8 = 7  BY DEF High
  <2> QED  BY <1>3, <1>4, <2>1, <2>2 DEF Always, SizesOf
<1>6. Decoded' = Is("idiv", w, <<Rm(w)'>>, End')
  <2>1. GroupThree[7 + 1] = "idiv"  BY DEF GroupThree
  <2>2. CASE sz = 1  BY <1>4, <1>5, <2>1, <2>2 DEF Decoded, DecodeOneByte, c
  <2>3. CASE sz # 1  BY <1>4, <1>5, <2>1, <2>3 DEF Decoded, DecodeOneByte, c
  <2> QED  BY <2>2, <2>3
<1>7. End' - 1 = Len(text')  BY <1>5, EndsHere
<1>8. Gap' <=> sz = 2 \/ (sz = 1 /\ r \in 4 .. 7)
  <2>1. asked'.op = "idiv" /\ asked'.sz = sz /\ asked'.args = <<a>>  BY <1>1 DEF I
  <2>2. (HighOperand' <=> High(r)) /\ (ByteRegister' <=> r \in 4 .. 7)
    BY <1>3, <2>1, Args DEF HighArg, ByteArg, High
  <2>3. r \in 4 .. 7 => ~High(r)  BY DEF High
  <2> QED  BY <1>1, <2>1, <2>2, <2>3 DEF Gap
<1>9. CASE sz = 2  BY <1>1, <1>6, <1>8, <1>9, Verdict0
<1>10. CASE sz # 2
  <2>1. w = sz  BY <1>10
  <2>2. Gap' <=> Rm(w)' # a  BY <1>5, <1>8, <1>10
  <2> HIDE DEF w
  <2> QED  BY <1>1, <1>6, <1>7, <2>1, <2>2, Verdict1
<1> QED  BY <1>9, <1>10

LEMMA ImulRRIDecodes ==
  ASSUME NEW d \in 0 .. 15, NEW r \in 0 .. 15, NEW v \in Int32, NEW sz \in SizesOf,
         ImulRRI(d, r, v, sz)
  PROVE  EncodingsDecode'
<1> SUFFICES ASSUME NEW n, n = (IF IsI8(v) THEN 1 ELSE 4),
                    NEW w, w = (IF sz = 1 THEN 4 ELSE sz),
                    NEW m, m = (IF IsI8(v) THEN 1 ELSE Field(w))
             PROVE  EncodingsDecode'
  OBVIOUS
<1> DEFINE c == IF IsI8(v) THEN \h6B ELSE \h69
           a == R(r)
           s == Le(v, n)
           f == FieldAt(End, m, w)'
           e == End' + m
<1>0. v \in Int /\ n \in {1, 2, 4} /\ m \in {1, 2, 4}  BY SMT DEF Int32, SizesOf, Field
<1>1. asked' = I("imul", sz, <<R(d), a, Imm(v, sz)>>) /\ by' = "imul_rri"  BY DEF ImulRRI, Ask
<1>2. /\ Written(Size16(sz), RexWideOnly(sz, High(d), High(a.n)), <<c>>, Enc(d, a), s)
      /\ text' = Size16(sz) \o RexWideOnly(sz, High(d), High(r)) \o <<c>> \o <<ModRM(3, d, r)>> \o s
  <2>1. text' = Size16(sz) \o RexWideOnly(sz, High(d), High(r)) \o <<c>> \o <<ModRM(3, d, r)>> \o s
    BY DEF ImulRRI, Ask
  <2> HIDE DEF c, s
  <2> QED  BY <2>1 DEF Written, Enc, R
<1>3. /\ c \in Opcodes /\ a \in Operand /\ a.k = "reg" /\ a.n = r
      /\ s \in Seq(Byte) /\ Len(s) = n
      /\ AnyPrefix(Size16(sz)) /\ (Size16(sz) = <<\h66>> <=> sz = 2)
  <2>1. s \in Seq(Byte) /\ Len(s) = n  BY <1>0, LeType
  <2>2. AnyPrefix(Size16(sz)) /\ (Size16(sz) = <<\h66>> <=> sz = 2)  BY Prefixes
  <2> HIDE DEF s
  <2> QED  BY <2>1, <2>2 DEF Opcodes, Byte, Mandatory, Operand, R
<1>9. ModRM(3, d, r) \in Byte
  <2>1. 3 \in 0 .. 3  OBVIOUS
  <2> QED  BY <2>1, ModRMFields, Zenon
<1> HIDE DEF c, a, s
<1>4. /\ ~TwoByte' /\ OpByte' = c /\ From(End', s)
      /\ Wide' = w
      /\ Rm(sz)' = a <=> /\ High(r) => sz = 8
                         /\ sz = 1 => r \notin 4 .. 7
      /\ RegOf(sz)' = R(d) <=> (High(d) => sz = 8) /\ (sz = 1 => d \notin 4 .. 7)
  <2>1. /\ ~TwoByte' /\ OpByte' = c /\ From(End', s)
        /\ Wide' = IF sz = 8 THEN 8 ELSE IF Size16(sz) = <<\h66>> THEN 2 ELSE 4
        /\ a.k # "xmm" => (Rm(sz)' = a <=> /\ High(a.n) => sz = 8
                                           /\ a.k = "reg" /\ sz = 1 => a.n \notin 4 .. 7)
        /\ RegOf(sz)' = R(d) <=> (High(d) => sz = 8) /\ (sz = 1 => d \notin 4 .. 7)
    BY <1>2, <1>3, WideOnly, ZenonT(60)
  <2>2. Wide' = w  BY <1>3, <2>1 DEF SizesOf
  <2> QED  BY <1>3, <2>1, <2>2
<1>5. Decoded' = Is("imul", w, <<RegOf(w)', Rm(w)', f>>, e)
  <2>1. CASE IsI8(v)
    <3>1. OpByte' = \h6B /\ m = 1  BY <1>4, <2>1 DEF c
    <3> QED  BY <1>4, <3>1 DEF Decoded, DecodeOneByte
  <2>2. CASE ~IsI8(v)
    <3>1. OpByte' = \h69 /\ m = Field(w)  BY <1>4, <2>2 DEF c
    <3> QED  BY <1>4, <3>1 DEF Decoded, DecodeOneByte
  <2> QED  BY <2>1, <2>2
<1>6. CASE sz = 1
  <2>1. asked'.op = "imul" /\ asked'.sz = sz  BY <1>1 DEF I
  <2>2. Gap'  BY <1>1, <1>6, <2>1 DEF Gap
  <2> HIDE DEF f, e
  <2> QED  BY <1>1, <1>5, <1>6, <2>2, Verdict0
<1>7. CASE sz = 2 /\ ~IsI8(v)
  <2>1. e - 1 # Len(text')
    <3>1. m = 2 /\ n = 4  BY <1>7 DEF Field
    <3>2. (End' + n) - 1 = Len(text')  BY <1>3, <1>4, Ends
    <3>3. End' \in Nat  BY <1>4 DEF From
    <3>4. (End' + 2) - 1 # (End' + 4) - 1  BY <3>3
    <3> HIDE DEF f
    <3> QED  BY <3>1, <3>2, <3>4, Zenon
  <2>2. text'[1] = \h66 /\ text'[2] = \h69
    <3> DEFINE t == <<ModRM(3, d, r)>> \o s
    <3>1. text' = (<<\h66>> \o <<\h69>>) \o t
      <4>1. Size16(sz) = <<\h66>> /\ RexWideOnly(sz, High(d), High(r)) = << >> /\ c = \h69
        BY <1>7 DEF Size16, RexWideOnly, c
      <4>2. ModRM(3, d, r) \in Byte /\ s \in Seq(Byte)  BY <1>3, <1>9
      <4> QED  BY <1>2, <4>1, <4>2
    <3>2. t \in Seq(Byte)
      <4>1. ModRM(3, d, r) \in Byte /\ s \in Seq(Byte)  BY <1>3, <1>9
      <4> QED  BY <4>1
    <3> HIDE DEF t
    <3> QED  BY <3>1, <3>2
  <2>3. asked'.op = "imul" /\ asked'.sz = 2  BY <1>1, <1>7 DEF I
  <2>4. Gap'  BY <1>1, <2>2, <2>3 DEF Gap
  <2> HIDE DEF f, e
  <2> QED  BY <1>1, <1>5, <2>1, <2>4, Verdict0
<1>8. CASE sz # 1 /\ ~(sz = 2 /\ ~IsI8(v))
  <2>1. w = sz /\ m = n /\ n <= sz /\ Field(sz) \in {1, 2, 4} /\ Field(sz) <= sz
    BY <1>8 DEF SizesOf, Field
  <2>2. f = Imm(v, sz)
    <3>1. FieldAt(End, n, sz)' = V(Extend(s, sz))  BY <1>3, <1>4, ReadField
    <3>2. n = 1 => Extend(Le(v, 1), sz) = Extend(Le(v, Field(sz)), sz)
      BY <1>0, <2>1, SmallField
    <3>3. n # 1 => n = Field(sz)  BY <1>8, <2>1 DEF SizesOf, Field
    <3>4. Extend(s, sz) = Extend(Le(v, Field(sz)), sz)
      <4>1. CASE n = 1  BY <3>2, <4>1 DEF s
      <4>2. CASE n # 1  BY <3>3, <4>2 DEF s
      <4> QED  BY <4>1, <4>2
    <3> QED  BY <2>1, <3>1, <3>4 DEF Imm
  <2>3. e - 1 = Len(text')  BY <1>3, <1>4, <2>1, Ends
  <2>4. Gap' <=> sz # 8 /\ (High(d) \/ High(r))
    <3>1. asked'.op = "imul" /\ asked'.sz = sz /\ asked'.args = <<R(d), a, Imm(v, sz)>>
      BY <1>1 DEF I
    <3>2. HighOperand' <=> High(d) \/ High(r)
      <4>1. HighArg(R(d)) <=> High(d)  BY DEF HighArg, High, R
      <4>2. HighArg(a) <=> High(r)  BY <1>3 DEF HighArg, High
      <4>3. ~HighArg(Imm(v, sz))  BY DEF HighArg, Imm, V
      <4>4. HighOperand' <=> HighArg(R(d)) \/ HighArg(a) \/ HighArg(Imm(v, sz))
        BY <3>1, Args, Zenon
      <4> QED  BY <4>1, <4>2, <4>3, <4>4
    <3>3. sz = 2 => text'[2] # \h69
      <4>1. ASSUME sz = 2
            PROVE  text'[2] = \h6B
        <5> DEFINE t == <<ModRM(3, d, r)>> \o s
        <5>1. text' = (<<\h66>> \o <<\h6B>>) \o t
          <6>1. Size16(sz) = <<\h66>> /\ RexWideOnly(sz, High(d), High(r)) = << >> /\ c = \h6B
            BY <1>8, <4>1 DEF Size16, RexWideOnly, c
          <6>2. ModRM(3, d, r) \in Byte /\ s \in Seq(Byte)  BY <1>3, <1>9
          <6> QED  BY <1>2, <6>1, <6>2
        <5>2. t \in Seq(Byte)
          <6>1. ModRM(3, d, r) \in Byte /\ s \in Seq(Byte)  BY <1>3, <1>9
          <6> QED  BY <6>1
        <5> HIDE DEF t
        <5> QED  BY <5>1, <5>2
      <4> QED  BY <4>1
    <3> QED  BY <1>1, <1>8, <3>1, <3>2, <3>3 DEF Gap, SizesOf
  <2>5. Gap' <=> ~(RegOf(w)' = R(d) /\ Rm(w)' = a /\ f = Imm(v, sz))
    BY <1>4, <1>8, <2>1, <2>2, <2>4
  <2> HIDE DEF f, e
  <2> QED  BY <1>1, <1>5, <2>1, <2>3, <2>5, Verdict3
<1> QED  BY <1>6, <1>7, <1>8

(* Operations on one register, their numbers and the shifts. *)
UnaryOps == {"inc", "dec", "not", "neg", "div"}
ShiftOps == {"shl", "shr", "sar"}

LEMMA UnaryDecodes ==
  ASSUME NEW op \in UnaryOps, NEW r \in 0 .. 15, NEW sz \in SizesOf, Unary(op, r, sz)
  PROVE  EncodingsDecode'
<1> DEFINE k == UnaryExt[op][1]  g == UnaryExt[op][2]
           c == IF sz = 1 THEN k - 1 ELSE k  a == R(r)  w == IF sz = 2 THEN 4 ELSE sz
<1>0. /\ k \in {\hFF, \hF7} /\ g \in 0 .. 7
      /\ k = \hFF => g < 2 /\ <<"inc", "dec">>[g + 1] = op
      /\ k = \hF7 => GroupThree[g + 1] = op
  <2>1. CASE op = "inc"  BY <2>1 DEF UnaryExt, GroupThree
  <2>2. CASE op = "dec"  BY <2>2 DEF UnaryExt, GroupThree
  <2>3. CASE op = "not"  BY <2>3 DEF UnaryExt, GroupThree
  <2>4. CASE op = "neg"  BY <2>4 DEF UnaryExt, GroupThree
  <2>5. CASE op = "div"  BY <2>5 DEF UnaryExt, GroupThree
  <2> QED  BY <2>1, <2>2, <2>3, <2>4, <2>5 DEF UnaryOps
<1>1. asked' = I(op, sz, <<a>>) /\ by' = "unary"  BY DEF Unary, Ask
<1>2. Written(<< >>, RexWideOnly(sz, High(g), High(a.n)), <<c>>, Enc(g, a), << >>)
  <2>1. High(g) = FALSE /\ Opc(sz, k) = <<c>> /\ a.n = r  BY <1>0 DEF High, Opc, R
  <2>2. Enc(g, a) = <<ModRM(3, g, r)>>  BY DEF Enc, R
  <2>3. text' = RexWideOnly(sz, FALSE, High(r)) \o Opc(sz, k) \o <<ModRM(3, g, r)>>
    BY DEF Unary, Ask
  <2> HIDE DEF c, a, g, k
  <2> QED  BY <2>1, <2>2, <2>3 DEF Written
<1> HIDE DEF k, g
<1>3. /\ c \in Opcodes /\ g \in 0 .. 15 /\ a \in Operand /\ a.k = "reg" /\ a.n = r
      /\ AnyPrefix(<< >>) /\ << >> \in Seq(Byte) /\ << >> # <<\h66>>
  BY <1>0 DEF Opcodes, Byte, Mandatory, Operand, R, AnyPrefix
<1> HIDE DEF c, a
<1>4. /\ ~TwoByte' /\ OpByte' = c /\ Reg' = g /\ From(End', << >>)
      /\ sz # 1 => Wide' = w
      /\ Rm(sz)' = a <=> (High(r) => sz = 8) /\ (sz = 1 => r \notin 4 .. 7)
  <2>1. /\ ~TwoByte' /\ OpByte' = c /\ Reg' = g % 8 /\ From(End', << >>)
        /\ Wide' = IF sz = 8 THEN 8 ELSE IF << >> = <<\h66>> THEN 2 ELSE 4
        /\ a.k # "xmm" => (Rm(sz)' = a <=> /\ High(a.n) => sz = 8
                                           /\ a.k = "reg" /\ sz = 1 => a.n \notin 4 .. 7)
    BY <1>2, <1>3, WideOnly, ZenonT(60)
  <2>2. sz # 1 => Wide' = w  BY <1>3, <2>1 DEF SizesOf
  <2>3. g % 8 = g  BY <1>0
  <2> QED  BY <1>3, <2>1, <2>2, <2>3
<1>5. Decoded' = Is(op, w, <<Rm(w)'>>, End')
  <2>1. CASE k = \hFF /\ sz = 1
    <3>1. OpByte' = \hFE  BY <1>4, <2>1 DEF c
    <3> QED  BY <1>0, <1>4, <2>1, <3>1 DEF Decoded, DecodeOneByte
  <2>2. CASE k = \hFF /\ sz # 1
    <3>1. OpByte' = \hFF  BY <1>4, <2>2 DEF c
    <3> QED  BY <1>0, <1>4, <2>2, <3>1 DEF Decoded, DecodeOneByte
  <2>3. CASE k = \hF7 /\ sz = 1
    <3>1. OpByte' = \hF6  BY <1>4, <2>3 DEF c
    <3> QED  BY <1>0, <1>4, <2>3, <3>1 DEF Decoded, DecodeOneByte
  <2>4. CASE k = \hF7 /\ sz # 1
    <3>1. OpByte' = \hF7  BY <1>4, <2>4 DEF c
    <3> QED  BY <1>0, <1>4, <2>4, <3>1 DEF Decoded, DecodeOneByte
  <2> QED  BY <1>0, <2>1, <2>2, <2>3, <2>4
<1>6. End' - 1 = Len(text')  BY <1>4, EndsHere
<1>7. Gap' <=> sz = 2 \/ (sz \in {1, 4} /\ High(r)) \/ (sz = 1 /\ r \in 4 .. 7)
  <2>1. asked'.op = op /\ asked'.sz = sz /\ asked'.args = <<a>>  BY <1>1 DEF I
  <2>2. (HighOperand' <=> High(r)) /\ (ByteRegister' <=> r \in 4 .. 7)
    BY <1>3, <2>1, Args DEF HighArg, ByteArg, High
  <2> QED  BY <1>1, <2>1, <2>2 DEF Gap
<1>8. CASE sz = 2  BY <1>1, <1>5, <1>7, <1>8, Verdict0
<1>9. CASE sz # 2
  <2>1. w = sz  BY <1>9
  <2>2. Gap' <=> Rm(sz)' # a  BY <1>4, <1>7, <1>9 DEF SizesOf
  <2> HIDE DEF w
  <2> QED  BY <1>1, <1>5, <1>6, <2>1, <2>2, Verdict1
<1> QED  BY <1>8, <1>9

LEMMA ShiftNumbers ==
  ASSUME NEW op \in ShiftOps
  PROVE  ShiftExt[op] \in 0 .. 7 /\ ShiftNames[ShiftExt[op] + 1] = op
<1>1. CASE op = "shl"  BY <1>1 DEF ShiftExt, ShiftNames
<1>2. CASE op = "shr"  BY <1>2 DEF ShiftExt, ShiftNames
<1>3. CASE op = "sar"  BY <1>3 DEF ShiftExt, ShiftNames
<1> QED  BY <1>1, <1>2, <1>3 DEF ShiftOps

(* The shifts have no operand size prefix.                                 *)
LEMMA NotBytesBare ==
  ASSUME NEW sz \in SizesOf, NEW op \in Opcodes, NEW reg \in 0 .. 15, NEW a \in Operand,
         NEW s \in Seq(Byte),
         Written(<< >>, RexNotBytes(sz, High(reg), High(a.n)), <<op>>, Enc(reg, a), s)
  PROVE  /\ ~TwoByte' /\ OpByte' = op /\ Reg' = reg % 8 /\ From(End', s)
         /\ Wide' = IF sz = 8 THEN 8 ELSE 4
         /\ a.k # "xmm" => (Rm(sz)' = a <=> /\ High(a.n) => sz \in {4, 8}
                                            /\ a.k = "reg" /\ sz = 1 => a.n \notin 4 .. 7)
<1> DEFINE p == << >>  x == RexNotBytes(sz, High(reg), High(a.n))  E == {4, 8}
<1>1. High(reg) \in BOOLEAN /\ High(a.n) \in BOOLEAN  BY DEF High
<1>2. /\ Rex(x, sz = 8, sz \in E /\ High(reg), sz \in E /\ High(a.n))
      /\ sz \in {1, 2} => x = << >>
  BY <1>1, Prefixes, ZenonT(60)
<1>3. AnyPrefix(p) /\ p # <<\h66>>  BY DEF AnyPrefix
<1>4. Parts(sz, E, p, x, <<op>>, reg, a, s)  BY <1>2, <1>3 DEF Parts
<1> HIDE DEF p, x, E
<1>5. ~TwoByte' /\ OpByte' = op /\ Sized(sz, E, p, x, reg, a, s)  BY <1>4, ShortSized
<1> QED  BY <1>2, <1>3, <1>5 DEF Sized, SizesOf, E

Shifts == {1, 7, 63}

LEMMA ShiftRIDecodes ==
  ASSUME NEW op \in ShiftOps, NEW r \in 0 .. 15, NEW amt \in Shifts, NEW sz \in SizesOf,
         ShiftRI(op, r, amt, sz)
  PROVE  EncodingsDecode'
<1> DEFINE g == ShiftExt[op]
           k == IF amt = 1 THEN \hD1 ELSE \hC1
           c == IF sz = 1 THEN k - 1 ELSE k
           a == R(r)
           w == IF sz = 2 THEN 4 ELSE sz
           s == IF amt = 1 THEN << >> ELSE <<amt>>
           e == End' + Len(s)
<1>0. g \in 0 .. 7 /\ ShiftNames[g + 1] = op  BY ShiftNumbers
<1>1. asked' = I(op, sz, <<a, V(<<amt>>)>>) /\ by' = "shift_ri"  BY DEF ShiftRI, Ask
<1>2. Written(<< >>, RexNotBytes(sz, High(g), High(a.n)), <<c>>, Enc(g, a), s)
  <2>1. High(g) = FALSE /\ Opc(sz, k) = <<c>> /\ a.n = r  BY <1>0 DEF High, Opc, R
  <2>2. Enc(g, a) = <<ModRM(3, g, r)>>  BY DEF Enc, R
  <2>3. s = IF amt = 1 THEN << >> ELSE <<amt % 64>>  BY DEF Shifts
  <2>4. text' = RexNotBytes(sz, FALSE, High(r)) \o Opc(sz, k) \o <<ModRM(3, g, r)>> \o s
    <3> HIDE DEF s
    <3> QED  BY <2>3 DEF ShiftRI, Ask
  <2> HIDE DEF c, a, g, k, s
  <2> QED  BY <2>1, <2>2, <2>4 DEF Written
<1> HIDE DEF g
<1>3. /\ c \in Opcodes /\ g \in 0 .. 15 /\ a \in Operand /\ a.k = "reg" /\ a.n = r
      /\ s \in Seq(Byte)
  <2>1. s \in Seq(Byte)
    <3>1. amt \in Byte  BY DEF Shifts, Byte
    <3> QED  BY <3>1
  <2> HIDE DEF s
  <2> QED  BY <1>0, <2>1 DEF Opcodes, Byte, Mandatory, Operand, R
<1>4. Len(s) = (IF amt = 1 THEN 0 ELSE 1) /\ (amt # 1 => Extend(s, 1) = <<amt>>)
  BY DEF Extend
<1> HIDE DEF c, a, s
<1>5. /\ ~TwoByte' /\ OpByte' = c /\ Reg' = g /\ From(End', s)
      /\ sz # 1 => Wide' = w
      /\ Rm(sz)' = a <=> (High(r) => sz \in {4, 8}) /\ (sz = 1 => r \notin 4 .. 7)
  <2>1. /\ ~TwoByte' /\ OpByte' = c /\ Reg' = g % 8 /\ From(End', s)
        /\ Wide' = IF sz = 8 THEN 8 ELSE 4
        /\ a.k # "xmm" => (Rm(sz)' = a <=> /\ High(a.n) => sz \in {4, 8}
                                           /\ a.k = "reg" /\ sz = 1 => a.n \notin 4 .. 7)
    BY <1>2, <1>3, NotBytesBare, Zenon
  <2>2. sz # 1 => Wide' = w  BY <2>1 DEF SizesOf
  <2>3. g % 8 = g  BY <1>0
  <2> QED  BY <1>3, <2>1, <2>2, <2>3
<1>6. amt # 1 => FieldAt(End, 1, 1)' = V(<<amt>>)
  <2>1. amt # 1 => FieldAt(End, 1, 1)' = V(Extend(s, 1))  BY <1>3, <1>4, <1>5, ReadField
  <2> QED  BY <1>4, <2>1
<1>7. Decoded' = Is(op, w, <<Rm(w)', V(<<amt>>)>>, e)
  <2>1. CASE amt = 1 /\ sz = 1
    <3>1. OpByte' = \hD0  BY <1>5, <2>1 DEF c
    <3>2. e = End'
      <4>1. End' \in Nat  BY <1>5 DEF From
      <4>2. Len(s) = 0  BY <1>4, <2>1
      <4>3. End' + 0 = End'  BY <4>1, PlusZero
      <4> QED  BY <4>2, <4>3
    <3> HIDE DEF e
    <3> QED  BY <1>0, <1>5, <2>1, <3>1, <3>2 DEF Decoded, DecodeOneByte
  <2>2. CASE amt = 1 /\ sz # 1
    <3>1. OpByte' = \hD1  BY <1>5, <2>2 DEF c
    <3>2. e = End'
      <4>1. End' \in Nat  BY <1>5 DEF From
      <4>2. Len(s) = 0  BY <1>4, <2>2
      <4>3. End' + 0 = End'  BY <4>1, PlusZero
      <4> QED  BY <4>2, <4>3
    <3> HIDE DEF e
    <3> QED  BY <1>0, <1>5, <2>2, <3>1, <3>2 DEF Decoded, DecodeOneByte
  <2>3. CASE amt # 1 /\ sz = 1
    <3>1. OpByte' = \hC0  BY <1>5, <2>3 DEF c
    <3>2. e = End' + 1  BY <1>4, <2>3
    <3> HIDE DEF e
    <3> QED  BY <1>0, <1>5, <1>6, <2>3, <3>1, <3>2 DEF Decoded, DecodeOneByte
  <2>4. CASE amt # 1 /\ sz # 1
    <3>1. OpByte' = \hC1  BY <1>5, <2>4 DEF c
    <3>2. e = End' + 1  BY <1>4, <2>4
    <3> HIDE DEF e
    <3> QED  BY <1>0, <1>5, <1>6, <2>4, <3>1, <3>2 DEF Decoded, DecodeOneByte
  <2> QED  BY <2>1, <2>2, <2>3, <2>4
<1>8. e - 1 = Len(text')  BY <1>5, Ends
<1> HIDE DEF e
<1>9. Gap' <=> sz = 2 \/ (sz = 1 /\ (High(r) \/ r \in 4 .. 7))
  <2>1. asked'.op = op /\ asked'.sz = sz /\ asked'.args = <<a, V(<<amt>>)>>  BY <1>1 DEF I
  <2>2. (HighArg(a) <=> High(r)) /\ (ByteArg(a) <=> r \in 4 .. 7)
    BY <1>3 DEF HighArg, ByteArg, High
  <2>3. ~HighArg(V(<<amt>>)) /\ ~ByteArg(V(<<amt>>))  BY DEF HighArg, ByteArg, V
  <2>4. /\ HighOperand' <=> HighArg(a) \/ HighArg(V(<<amt>>))
        /\ ByteRegister' <=> ByteArg(a) \/ ByteArg(V(<<amt>>))
    BY <2>1, Args, Zenon
  <2> QED  BY <1>1, <2>1, <2>2, <2>3, <2>4 DEF Gap
<1>10. CASE sz = 2  BY <1>1, <1>7, <1>9, <1>10, Verdict0
<1>11. CASE sz # 2
  <2>1. w = sz  BY <1>11
  <2>2. Gap' <=> Rm(sz)' # a  BY <1>5, <1>9, <1>11 DEF SizesOf
  <2> HIDE DEF w
  <2> QED  BY <1>1, <1>7, <1>8, <2>1, <2>2, Verdict2
<1> QED  BY <1>10, <1>11

LEMMA ShiftCLDecodes ==
  ASSUME NEW op \in ShiftOps, NEW r \in 0 .. 15, NEW sz \in SizesOf, ShiftCL(op, r, sz)
  PROVE  EncodingsDecode'
<1> DEFINE g == ShiftExt[op]
           c == IF sz = 1 THEN \hD2 ELSE \hD3  a == R(r)  w == IF sz = 2 THEN 4 ELSE sz
<1>0. g \in 0 .. 7 /\ ShiftNames[g + 1] = op  BY ShiftNumbers
<1>1. asked' = I(op, sz, <<a>>) /\ by' = "shift_cl"  BY DEF ShiftCL, Ask
<1>2. Written(<< >>, RexWideOnly(sz, High(g), High(a.n)), <<c>>, Enc(g, a), << >>)
  <2>1. High(g) = FALSE /\ Opc(sz, \hD3) = <<c>> /\ a.n = r  BY <1>0 DEF High, Opc, R
  <2>2. Enc(g, a) = <<ModRM(3, g, r)>>  BY DEF Enc, R
  <2>3. text' = RexWideOnly(sz, FALSE, High(r)) \o Opc(sz, \hD3) \o <<ModRM(3, g, r)>>
    BY DEF ShiftCL, Ask
  <2> HIDE DEF c, a, g
  <2> QED  BY <2>1, <2>2, <2>3 DEF Written
<1> HIDE DEF g
<1>3. /\ c \in Opcodes /\ g \in 0 .. 15 /\ a \in Operand /\ a.k = "reg" /\ a.n = r
      /\ AnyPrefix(<< >>) /\ << >> \in Seq(Byte) /\ << >> # <<\h66>>
  BY <1>0 DEF Opcodes, Byte, Mandatory, Operand, R, AnyPrefix
<1> HIDE DEF c, a
<1>4. /\ ~TwoByte' /\ OpByte' = c /\ Reg' = g /\ From(End', << >>)
      /\ sz # 1 => Wide' = w
      /\ Rm(sz)' = a <=> (High(r) => sz = 8) /\ (sz = 1 => r \notin 4 .. 7)
  <2>1. /\ ~TwoByte' /\ OpByte' = c /\ Reg' = g % 8 /\ From(End', << >>)
        /\ Wide' = IF sz = 8 THEN 8 ELSE IF << >> = <<\h66>> THEN 2 ELSE 4
        /\ a.k # "xmm" => (Rm(sz)' = a <=> /\ High(a.n) => sz = 8
                                           /\ a.k = "reg" /\ sz = 1 => a.n \notin 4 .. 7)
    BY <1>2, <1>3, WideOnly, ZenonT(60)
  <2>2. sz # 1 => Wide' = w  BY <1>3, <2>1 DEF SizesOf
  <2>3. g % 8 = g  BY <1>0
  <2> QED  BY <1>3, <2>1, <2>2, <2>3
<1>5. Decoded' = Is(op, w, <<Rm(w)'>>, End')
  <2>1. CASE sz = 1
    <3>1. OpByte' = \hD2  BY <1>4, <2>1 DEF c
    <3> QED  BY <1>0, <1>4, <2>1, <3>1 DEF Decoded, DecodeOneByte
  <2>2. CASE sz # 1
    <3>1. OpByte' = \hD3  BY <1>4, <2>2 DEF c
    <3> QED  BY <1>0, <1>4, <2>2, <3>1 DEF Decoded, DecodeOneByte
  <2> QED  BY <2>1, <2>2
<1>6. End' - 1 = Len(text')  BY <1>4, EndsHere
<1>7. Gap' <=> sz = 2 \/ (sz \in {1, 4} /\ High(r)) \/ (sz = 1 /\ r \in 4 .. 7)
  <2>1. asked'.op = op /\ asked'.sz = sz /\ asked'.args = <<a>>  BY <1>1 DEF I
  <2>2. (HighOperand' <=> High(r)) /\ (ByteRegister' <=> r \in 4 .. 7)
    BY <1>3, <2>1, Args DEF HighArg, ByteArg, High
  <2> QED  BY <1>1, <2>1, <2>2 DEF Gap
<1>8. CASE sz = 2  BY <1>1, <1>5, <1>7, <1>8, Verdict0
<1>9. CASE sz # 2
  <2>1. w = sz  BY <1>9
  <2>2. Gap' <=> Rm(sz)' # a  BY <1>4, <1>7, <1>9 DEF SizesOf
  <2> HIDE DEF w
  <2> QED  BY <1>1, <1>5, <1>6, <2>1, <2>2, Verdict1
<1> QED  BY <1>8, <1>9

(* Conditions, and the instructions of control. *)
Conds == {"b", "ae", "e", "ne", "be", "a", "l", "ge", "le", "g"}
CondNumberSet == {2, 3, 4, 5, 6, 7, 12, 13, 14, 15}

LEMMA CondNumbers ==
  ASSUME NEW cc \in Conds
  PROVE  Cond[cc] \in CondNumberSet /\ CondNames[Cond[cc] + 1] = cc
<1>1. CASE cc = "b"  BY <1>1 DEF Cond, CondNames, CondNumberSet
<1>2. CASE cc = "ae"  BY <1>2 DEF Cond, CondNames, CondNumberSet
<1>3. CASE cc = "e"  BY <1>3 DEF Cond, CondNames, CondNumberSet
<1>4. CASE cc = "ne"  BY <1>4 DEF Cond, CondNames, CondNumberSet
<1>5. CASE cc = "be"  BY <1>5 DEF Cond, CondNames, CondNumberSet
<1>6. CASE cc = "a"  BY <1>6 DEF Cond, CondNames, CondNumberSet
<1>7. CASE cc = "l"  BY <1>7 DEF Cond, CondNames, CondNumberSet
<1>8. CASE cc = "ge"  BY <1>8 DEF Cond, CondNames, CondNumberSet
<1>9. CASE cc = "le"  BY <1>9 DEF Cond, CondNames, CondNumberSet
<1>10. CASE cc = "g"  BY <1>10 DEF Cond, CondNames, CondNumberSet
<1> QED  BY <1>1, <1>2, <1>3, <1>4, <1>5, <1>6, <1>7, <1>8, <1>9, <1>10 DEF Conds

LEMMA DecodeJcc ==
  ASSUME NEW n \in CondNumberSet, TwoByte', OpByte' = \h80 + n
  PROVE  Decoded' = Is("jcc", 8, <<C(CondNames[n + 1]), FieldAt(After, 4, 4)'>>, After' + 4)
<1>1. CASE n = 2
  <2>1. OpByte' = \h82  BY <1>1
  <2> QED  BY <1>1, <2>1 DEF Decoded, DecodeTwoByte
<1>2. CASE n = 3
  <2>1. OpByte' = \h83  BY <1>2
  <2> QED  BY <1>2, <2>1 DEF Decoded, DecodeTwoByte
<1>3. CASE n = 4
  <2>1. OpByte' = \h84  BY <1>3
  <2> QED  BY <1>3, <2>1 DEF Decoded, DecodeTwoByte
<1>4. CASE n = 5
  <2>1. OpByte' = \h85  BY <1>4
  <2> QED  BY <1>4, <2>1 DEF Decoded, DecodeTwoByte
<1>5. CASE n = 6
  <2>1. OpByte' = \h86  BY <1>5
  <2> QED  BY <1>5, <2>1 DEF Decoded, DecodeTwoByte
<1>6. CASE n = 7
  <2>1. OpByte' = \h87  BY <1>6
  <2> QED  BY <1>6, <2>1 DEF Decoded, DecodeTwoByte
<1>7. CASE n = 12
  <2>1. OpByte' = \h8C  BY <1>7
  <2> QED  BY <1>7, <2>1 DEF Decoded, DecodeTwoByte
<1>8. CASE n = 13
  <2>1. OpByte' = \h8D  BY <1>8
  <2> QED  BY <1>8, <2>1 DEF Decoded, DecodeTwoByte
<1>9. CASE n = 14
  <2>1. OpByte' = \h8E  BY <1>9
  <2> QED  BY <1>9, <2>1 DEF Decoded, DecodeTwoByte
<1>10. CASE n = 15
  <2>1. OpByte' = \h8F  BY <1>10
  <2> QED  BY <1>10, <2>1 DEF Decoded, DecodeTwoByte
<1> QED  BY <1>1, <1>2, <1>3, <1>4, <1>5, <1>6, <1>7, <1>8, <1>9, <1>10 DEF CondNumberSet

LEMMA DecodeSet ==
  ASSUME NEW n \in CondNumberSet, TwoByte', OpByte' = \h90 + n
  PROVE  Decoded' = Is("set", 1, <<C(CondNames[n + 1]), Rm(1)'>>, End')
<1>1. CASE n = 2
  <2>1. OpByte' = \h92  BY <1>1
  <2> QED  BY <1>1, <2>1 DEF Decoded, DecodeTwoByte
<1>2. CASE n = 3
  <2>1. OpByte' = \h93  BY <1>2
  <2> QED  BY <1>2, <2>1 DEF Decoded, DecodeTwoByte
<1>3. CASE n = 4
  <2>1. OpByte' = \h94  BY <1>3
  <2> QED  BY <1>3, <2>1 DEF Decoded, DecodeTwoByte
<1>4. CASE n = 5
  <2>1. OpByte' = \h95  BY <1>4
  <2> QED  BY <1>4, <2>1 DEF Decoded, DecodeTwoByte
<1>5. CASE n = 6
  <2>1. OpByte' = \h96  BY <1>5
  <2> QED  BY <1>5, <2>1 DEF Decoded, DecodeTwoByte
<1>6. CASE n = 7
  <2>1. OpByte' = \h97  BY <1>6
  <2> QED  BY <1>6, <2>1 DEF Decoded, DecodeTwoByte
<1>7. CASE n = 12
  <2>1. OpByte' = \h9C  BY <1>7
  <2> QED  BY <1>7, <2>1 DEF Decoded, DecodeTwoByte
<1>8. CASE n = 13
  <2>1. OpByte' = \h9D  BY <1>8
  <2> QED  BY <1>8, <2>1 DEF Decoded, DecodeTwoByte
<1>9. CASE n = 14
  <2>1. OpByte' = \h9E  BY <1>9
  <2> QED  BY <1>9, <2>1 DEF Decoded, DecodeTwoByte
<1>10. CASE n = 15
  <2>1. OpByte' = \h9F  BY <1>10
  <2> QED  BY <1>10, <2>1 DEF Decoded, DecodeTwoByte
<1> QED  BY <1>1, <1>2, <1>3, <1>4, <1>5, <1>6, <1>7, <1>8, <1>9, <1>10 DEF CondNumberSet

LEMMA SetCCDecodes ==
  ASSUME NEW cc \in Conds, NEW r \in 0 .. 15, SetCC(cc, r)
  PROVE  EncodingsDecode'
<1> DEFINE n == Cond[cc]  w == FALSE  b == High(r)  x == Forced(w, w, b)  op == \h90 + n  a == R(r)
<1>0. n \in CondNumberSet /\ CondNames[n + 1] = cc  BY CondNumbers
<1>1. asked' = I("set", 1, <<C(cc), a>>) /\ by' = "setcc"  BY DEF SetCC, Ask
<1>2. Written(<< >>, x, <<\h0F, op>>, Enc(0, a), << >>)  BY DEF SetCC, Ask, Written, Enc, R
<1> HIDE DEF n
<1>3. /\ w \in BOOLEAN /\ b \in BOOLEAN /\ x # << >> /\ (w <=> FALSE) /\ (b <=> High(r))
      /\ op \in Byte /\ a \in Operand /\ a.k = "reg" /\ a.n = r
      /\ AnyPrefix(<< >>) /\ << >> \in Seq(Byte) /\ 0 \in 0 .. 15
  <2>1. op \in Byte  BY <1>0 DEF Byte, CondNumberSet
  <2> HIDE DEF op
  <2> QED  BY <2>1 DEF High, Forced, Operand, R, AnyPrefix
<1>4. Rex(x, w, w, b)
  <2> HIDE DEF w, b
  <2> QED  BY <1>3, EmitsRex, Zenon
<1> HIDE DEF w, b, x, op, a
<1>5. Form(<< >>, x, w, w, b, <<\h0F, op>>, 0, a, << >>)
  BY <1>2, <1>3, <1>4 DEF Form
<1>6. /\ Header(<< >>, x, w, w, b) /\ TwoByte' /\ OpByte' = op
      /\ Reads(0, a, w, b, << >>)
  BY <1>3, <1>5, LongForm
<1>7. From(End', << >>) /\ Rm(1)' = a
  <2>1. HasRex'  BY <1>3, <1>6 DEF Header
  <2> QED  BY <1>3, <1>6, <2>1 DEF Reads, Aliased
<1>8. Decoded' = Is("set", 1, <<C(cc), Rm(1)'>>, End')
  BY <1>0, <1>6, DecodeSet DEF op
<1>9. End' - 1 = Len(text')  BY <1>7, EndsHere
<1>10. ~Gap'
  <2>1. asked'.op = "set" /\ asked'.sz = 1  BY <1>1 DEF I
  <2> QED  BY <1>1, <2>1 DEF Gap
<1> QED  BY <1>1, <1>7, <1>8, <1>9, <1>10, Verdict2

LEMMA ZerosIs ==
  Zeros \in Seq(Byte) /\ Len(Zeros) = 4 /\ Extend(Zeros, 4) = Zeros
<1>1. Zeros \in Seq(Byte) /\ Len(Zeros) = 4  BY DEF Zeros, Byte
<1>2. Extend(Zeros, 4) = [k \in 1 .. 4 |-> Zeros[k]]  BY <1>1 DEF Extend
<1>3. Zeros = [k \in 1 .. 4 |-> Zeros[k]]  BY <1>1
<1> QED  BY <1>1, <1>2, <1>3, Zenon

LEMMA ReadZeros ==
  ASSUME From(After', Zeros)
  PROVE  FieldAt(After, 4, 4)' = V(Zeros) /\ (After' + 4) - 1 = Len(text')
<1>1. FieldAt(After, 4, 4)' = V(Extend(Zeros, 4))  BY ZerosIs, ReadField
<1>2. (After' + 4) - 1 = Len(text')  BY ZerosIs, Ends
<1> QED  BY <1>1, <1>2, ZerosIs

LEMMA JccDecodes ==
  ASSUME NEW cc \in Conds, Jcc(cc)
  PROVE  EncodingsDecode'
<1> DEFINE n == Cond[cc]  op == \h80 + n
<1>0. n \in CondNumberSet /\ CondNames[n + 1] = cc  BY CondNumbers
<1>1. asked' = I("jcc", 8, <<C(cc), V(Zeros)>>) /\ by' = "jcc"  BY DEF Jcc, Ask
<1>2. Written(<< >>, << >>, <<\h0F, op>>, Zeros, << >>)  BY DEF Jcc, Ask, Written
<1> HIDE DEF n
<1>3. op \in Byte  BY <1>0 DEF Byte, CondNumberSet
<1> HIDE DEF op
<1>4. TwoByte' /\ OpByte' = op /\ From(After', Zeros)  BY <1>2, <1>3, ZerosIs, LongPlain
<1>5. FieldAt(After, 4, 4)' = V(Zeros) /\ (After' + 4) - 1 = Len(text')  BY <1>4, ReadZeros
<1>6. Decoded' = Is("jcc", 8, <<C(cc), V(Zeros)>>, After' + 4)
  <2>1. Decoded' = Is("jcc", 8, <<C(CondNames[n + 1]), FieldAt(After, 4, 4)'>>, After' + 4)
    BY <1>0, <1>4, DecodeJcc DEF op
  <2> QED  BY <1>0, <1>5, <2>1
<1>7. ~Gap'
  <2>1. asked'.op = "jcc" /\ asked'.sz = 8  BY <1>1 DEF I
  <2> QED  BY <1>1, <2>1 DEF Gap
<1> QED  BY <1>1, <1>5, <1>6, <1>7, Verdict2

LEMMA LabelDecodes ==
  ASSUME JmpLabel \/ CallLabel
  PROVE  EncodingsDecode'
<1>1. ASSUME NEW op \in {\hE8, \hE9}, NEW name, name = IF op = \hE8 THEN "call" ELSE "jmp",
             asked' = I(name, 8, <<V(Zeros)>>), by' \in {"jmp", "call_label"},
             text' = <<op>> \o Zeros
      PROVE  EncodingsDecode'
  <2>1. Written(<< >>, << >>, <<op>>, Zeros, << >>)  BY <1>1 DEF Written
  <2>2. op \in Opcodes  BY DEF Opcodes, Byte, Mandatory
  <2>3. ~TwoByte' /\ OpByte' = op /\ From(After', Zeros)  BY <2>1, <2>2, ZerosIs, ShortPlain
  <2>4. FieldAt(After, 4, 4)' = V(Zeros) /\ (After' + 4) - 1 = Len(text')  BY <2>3, ReadZeros, Zenon
  <2>5. Decoded' = Is(name, 8, <<FieldAt(After, 4, 4)'>>, After' + 4)
    <3>1. CASE op = \hE8
      <4>1. OpByte' = \hE8  BY <2>3, <3>1
      <4> QED  BY <1>1, <2>3, <3>1, <4>1 DEF Decoded, DecodeOneByte
    <3>2. CASE op = \hE9
      <4>1. OpByte' = \hE9  BY <2>3, <3>2
      <4> QED  BY <1>1, <2>3, <3>2, <4>1 DEF Decoded, DecodeOneByte
    <3> QED  BY <3>1, <3>2
  <2>6. ~Gap'
    <3>1. asked'.op \in {"jmp", "call"} /\ asked'.sz = 8  BY <1>1 DEF I
    <3> QED  BY <1>1, <3>1 DEF Gap
  <2> QED  BY <1>1, <2>4, <2>5, <2>6, Verdict1
<1>2. CASE JmpLabel  BY <1>1, <1>2 DEF JmpLabel, Ask
<1>3. CASE CallLabel  BY <1>1, <1>3 DEF CallLabel, Ask
<1> QED  BY <1>2, <1>3

LEMMA CallRegDecodes ==
  ASSUME NEW r \in 0 .. 15, CallReg(r)
  PROVE  EncodingsDecode'
<1> DEFINE a == R(r)
<1>1. asked' = I("call", 8, <<a>>) /\ by' = "call_reg"  BY DEF CallReg, Ask
<1>2. Written(<< >>, EmitRex(4 = 8, High(2), High(a.n)), <<\hFF>>, Enc(2, a), << >>)
  <2>1. High(2) = FALSE /\ (4 = 8) = FALSE  BY DEF High
  <2> QED  BY <2>1, ZenonT(60) DEF CallReg, Ask, Written, Enc, R
<1>3. /\ \hFF \in Opcodes /\ 4 \in SizesOf /\ 2 \in 0 .. 15 /\ a \in Operand /\ a.k = "reg"
      /\ AnyPrefix(<< >>) /\ << >> \in Seq(Byte)
  BY DEF Opcodes, Byte, Mandatory, Operand, R, SizesOf, AnyPrefix
<1> HIDE DEF a
<1>4. ~TwoByte' /\ OpByte' = \hFF /\ Always(4, << >>, 2, a, << >>)
  <2>1. ShortText(4, << >>, \hFF, 2, a, << >>)  BY <1>2, <1>3 DEF ShortText
  <2> QED  BY <2>1, RexShort DEF ShortRead
<1>5. From(End', << >>) /\ Rm(8)' = a /\ Reg' = 2
  BY <1>3, <1>4 DEF Always
<1>6. Decoded' = Is("call", 8, <<Rm(8)'>>, End')
  BY <1>4, <1>5 DEF Decoded, DecodeOneByte
<1>7. End' - 1 = Len(text')  BY <1>5, EndsHere
<1>8. ~Gap'
  <2>1. asked'.op = "call" /\ asked'.sz = 8  BY <1>1 DEF I
  <2> QED  BY <1>1, <2>1 DEF Gap
<1> QED  BY <1>1, <1>5, <1>6, <1>7, <1>8, Verdict1

LEMMA PlainDecodes ==
  ASSUME Plain
  PROVE  EncodingsDecode'
<1>1. ASSUME NEW op \in {\hC3, \h90, \h99}, NEW name, NEW sz, NEW who, who \in {"ret", "nop", "cdq"},
             Ask(who, I(name, sz, << >>), <<op>>),
             ASSUME ~TwoByte', OpByte' = op, Wide' = 4
             PROVE  Decoded' = Is(name, sz, << >>, After')
      PROVE  EncodingsDecode'
  <2>1. Written(<< >>, << >>, <<op>>, << >>, << >>)  BY <1>1 DEF Ask, Written
  <2>2. op \in Opcodes /\ << >> \in Seq(Byte)  BY DEF Opcodes, Byte, Mandatory
  <2>3. ~TwoByte' /\ OpByte' = op /\ Wide' = 4 /\ From(After', << >>)
    BY <2>1, <2>2, ShortPlain, ZenonT(60)
  <2>4. Decoded' = Is(name, sz, << >>, After')  BY <1>1, <2>3
  <2>5. After' - 1 = Len(text')  BY <2>3, EndsHere
  <2>6. ~Gap'  BY <1>1 DEF Ask, Gap
  <2>7. asked' = I(name, sz, << >>)  BY <1>1 DEF Ask
  <2> QED  BY <2>4, <2>5, <2>6, <2>7 DEF EncodingsDecode, Is
<1>2. CASE Ask("ret", I("ret", 8, << >>), <<\hC3>>)
  <2>1. ASSUME ~TwoByte', OpByte' = \hC3, Wide' = 4
        PROVE  Decoded' = Is("ret", 8, << >>, After')
    BY <2>1 DEF Decoded, DecodeOneByte
  <2> QED  BY <1>1, <1>2, <2>1, ZenonT(60)
<1>3. CASE Ask("nop", I("nop", 4, << >>), <<\h90>>)
  <2>1. ASSUME ~TwoByte', OpByte' = \h90, Wide' = 4
        PROVE  Decoded' = Is("nop", 4, << >>, After')
    BY <2>1 DEF Decoded, DecodeOneByte
  <2> QED  BY <1>1, <1>3, <2>1, ZenonT(60)
<1>4. CASE Ask("cdq", I("cdq", 4, << >>), <<\h99>>)
  <2>1. ASSUME ~TwoByte', OpByte' = \h99, Wide' = 4
        PROVE  Decoded' = Is("cdq", 4, << >>, After')
    BY <2>1 DEF Decoded, DecodeOneByte
  <2> QED  BY <1>1, <1>4, <2>1, ZenonT(60)
<1>5. CASE Ask("cqo", I("cdq", 8, << >>), Forced(TRUE, FALSE, FALSE) \o <<\h99>>)
  <2> DEFINE w == TRUE  r == FALSE  x == Forced(w, r, r)
  <2>1. Written(<< >>, x, <<\h99>>, << >>, << >>)  BY <1>5 DEF Ask, Written
  <2>2. /\ w \in BOOLEAN /\ r \in BOOLEAN /\ AnyPrefix(<< >>) /\ << >> \in Seq(Byte)
        /\ \h99 \in Opcodes
    BY DEF AnyPrefix, Opcodes, Byte, Mandatory
  <2>3. Rex(x, w, r, r)
    <3> HIDE DEF w, r
    <3> QED  BY <2>2, EmitsRex, Zenon
  <2>4. w  OBVIOUS
  <2> HIDE DEF w, r, x
  <2>5. ~TwoByte' /\ OpByte' = \h99 /\ Wide' = (IF w THEN 8 ELSE 4) /\ From(After', << >>)
    <3>1. LoneForm(x, w, r, r, \h99, << >>)  BY <2>1, <2>2, <2>3 DEF LoneForm
    <3>2. LoneRead(w, \h99, << >>)  BY <3>1, LoneByte
    <3> QED  BY <3>2 DEF LoneRead
  <2>6. Wide' = 8  BY <2>4, <2>5
  <2>7. Decoded' = Is("cdq", 8, << >>, After')  BY <2>5, <2>6 DEF Decoded, DecodeOneByte
  <2>8. After' - 1 = Len(text')  BY <2>5, EndsHere
  <2>9. ~Gap'  BY <1>5 DEF Ask, Gap
  <2>10. asked' = I("cdq", 8, << >>)  BY <1>5 DEF Ask
  <2> QED  BY <2>7, <2>8, <2>9, <2>10 DEF EncodingsDecode, Is
<1> QED  BY <1>2, <1>3, <1>4, <1>5 DEF Plain

(* Operations on floating-point numbers: the prefix is the size, and the   *)
(* opcodes of scalars are read under it.                                   *)
Floats == {4, 8}
ScalarOps == {"fmov", "fadd", "fmul", "fsub", "fdiv"}

LEMMA PrefixIs ==
  ASSUME NEW sz \in Floats
  PROVE  /\ AnyPrefix(Prefix(sz)) /\ Prefix(sz) # << >> /\ Prefix(sz)[1] \in {\hF2, \hF3}
         /\ Prefix(sz) # <<\h66>> /\ sz = IF Prefix(sz)[1] = \hF2 THEN 8 ELSE 4
  BY DEF Floats, Prefix, AnyPrefix, Mandatory

(* The operands of an instruction that a scalar prefix begins. *)
LEMMA ScalarForm ==
  ASSUME NEW sz \in Floats, NEW int \in Floats, NEW op \in Byte, NEW reg \in 0 .. 15,
         NEW a \in Operand,
         Written(Prefix(sz), EmitRex(int = 8, High(reg), High(a.n)), <<\h0F, op>>, Enc(reg, a), << >>)
  PROVE  /\ TwoByte' /\ OpByte' = op /\ End' - 1 = Len(text')
         /\ Legacy' \in {\hF2, \hF3} /\ sz = (IF Legacy' = \hF2 THEN 8 ELSE 4)
         /\ int = (IF RexBit(8)' THEN 8 ELSE 4)
         /\ a.k # "xmm" => Rm(int)' = a
         /\ a.k # "reg" => RmX' = a
         /\ RegOf(int)' = R(reg) /\ RegX' = F(reg)
<1> DEFINE p == Prefix(sz)
<1>1. /\ AnyPrefix(p) /\ p # << >> /\ p[1] \in {\hF2, \hF3}
      /\ p # <<\h66>> /\ sz = IF p[1] = \hF2 THEN 8 ELSE 4
  BY PrefixIs
<1>2. int \in SizesOf /\ int # 1 /\ << >> \in Seq(Byte)  BY DEF Floats, SizesOf
<1> HIDE DEF p
<1>3. Written(p, EmitRex(int = 8, High(reg), High(a.n)), <<\h0F, op>>, Enc(reg, a), << >>)
  BY DEF p
<1>4. /\ TwoByte' /\ OpByte' = op /\ Always(int, p, reg, a, << >>)
      /\ Legacy' = IF p = << >> THEN 0 ELSE p[1]
  <2>1. LongText(int, p, op, reg, a, << >>)  BY <1>1, <1>2, <1>3 DEF LongText
  <2> QED  BY <2>1, RexLong DEF LongRead
<1>5. /\ From(End', << >>) /\ Wide' = (IF int = 8 THEN 8 ELSE 4)
      /\ a.k # "xmm" => Rm(int)' = a
      /\ a.k # "reg" => RmX' = a
      /\ RegOf(int)' = R(reg) /\ RegX' = F(reg)
  BY <1>1, <1>2, <1>4 DEF Always
<1>6. Legacy' = p[1]  BY <1>1, <1>4
<1>7. int = IF RexBit(8)' THEN 8 ELSE 4
  <2>1. RexBit(8)' <=> Wide' = 8  BY DEF Wide
  <2> QED  BY <1>5, <2>1 DEF Floats
<1>8. End' - 1 = Len(text')  BY <1>5, EndsHere
<1> QED  BY <1>1, <1>4, <1>5, <1>6, <1>7, <1>8

LEMMA SseLoadDecodes ==
  ASSUME NEW op \in ScalarOps, NEW d \in 0 .. 15, NEW a \in Operand, a.k # "reg",
         NEW sz \in Floats, SseLoad(op, d, a, Enc(d, a), sz)
  PROVE  EncodingsDecode'
<1> DEFINE c == Scalar[op]
<1>0. /\ c \in {\h10, \h58, \h59, \h5C, \h5E}
      /\ (c = \h10 <=> op = "fmov") /\ (c = \h58 <=> op = "fadd") /\ (c = \h59 <=> op = "fmul")
      /\ (c = \h5C <=> op = "fsub") /\ (c = \h5E <=> op = "fdiv")
  BY DEF Scalar, ScalarOps
<1>1. asked' = I(op, sz, <<F(d), a>>) /\ by' = "sse2"  BY DEF SseLoad, Ask
<1>2. Written(Prefix(sz), EmitRex(4 = 8, High(d), High(a.n)), <<\h0F, c>>, Enc(d, a), << >>)
  <2>1. (4 = 8) = FALSE  OBVIOUS
  <2>2. text' = Prefix(sz) \o EmitRex(FALSE, High(d), High(a.n)) \o <<\h0F, c>> \o Enc(d, a)
    BY DEF SseLoad, Ask
  <2> HIDE DEF c
  <2> QED  BY <2>1, <2>2 DEF Written
<1> HIDE DEF c
<1>3. c \in Byte /\ 4 \in Floats  BY <1>0 DEF Byte, Floats
<1>4. /\ TwoByte' /\ OpByte' = c /\ End' - 1 = Len(text')
      /\ Legacy' \in {\hF2, \hF3} /\ sz = (IF Legacy' = \hF2 THEN 8 ELSE 4)
      /\ RmX' = a /\ RegX' = F(d)
  BY <1>2, <1>3, ScalarForm
<1>5. Decoded' = Is(op, sz, <<RegX', RmX'>>, End')
  <2>1. CASE c = \h10
    <3>1. OpByte' = \h10 /\ op = "fmov"  BY <1>0, <1>4, <2>1
    <3> QED  BY <1>4, <3>1 DEF Decoded, DecodeTwoByte, DecodeScalar
  <2>2. CASE c = \h58
    <3>1. OpByte' = \h58 /\ op = "fadd"  BY <1>0, <1>4, <2>2
    <3> QED  BY <1>4, <3>1 DEF Decoded, DecodeTwoByte, DecodeScalar
  <2>3. CASE c = \h59
    <3>1. OpByte' = \h59 /\ op = "fmul"  BY <1>0, <1>4, <2>3
    <3> QED  BY <1>4, <3>1 DEF Decoded, DecodeTwoByte, DecodeScalar
  <2>4. CASE c = \h5C
    <3>1. OpByte' = \h5C /\ op = "fsub"  BY <1>0, <1>4, <2>4
    <3> QED  BY <1>4, <3>1 DEF Decoded, DecodeTwoByte, DecodeScalar
  <2>5. CASE c = \h5E
    <3>1. OpByte' = \h5E /\ op = "fdiv"  BY <1>0, <1>4, <2>5
    <3> QED  BY <1>4, <3>1 DEF Decoded, DecodeTwoByte, DecodeScalar
  <2> QED  BY <1>0, <2>1, <2>2, <2>3, <2>4, <2>5
<1>6. ~Gap'  BY <1>1 DEF Gap
<1> QED  BY <1>1, <1>4, <1>5, <1>6, Verdict2

LEMMA SseStoreDecodes ==
  ASSUME NEW base \in 0 .. 15, NEW disp \in Int32, NEW s \in 0 .. 15, NEW sz \in Floats,
         SseStore(base, disp, s, sz)
  PROVE  EncodingsDecode'
<1> DEFINE a == M(base, disp)
<1>1. asked' = I("fmov", sz, <<a, F(s)>>) /\ by' = "sse2_mem"  BY DEF SseStore, Ask
<1>2. Written(Prefix(sz), EmitRex(4 = 8, High(s), High(a.n)), <<\h0F, \h11>>, Enc(s, a), << >>)
  <2>1. (4 = 8) = FALSE  OBVIOUS
  <2>2. text' = Prefix(sz) \o EmitRex(FALSE, High(s), High(a.n)) \o <<\h0F, \h11>> \o Enc(s, a)
    BY DEF SseStore, Ask, Enc, M
  <2> HIDE DEF a
  <2> QED  BY <2>1, <2>2 DEF Written
<1>3. \h11 \in Byte /\ 4 \in Floats /\ a \in Operand /\ a.k = "mem"
  BY DEF Byte, Floats, Operand, M
<1> HIDE DEF a
<1>4. /\ TwoByte' /\ OpByte' = \h11 /\ End' - 1 = Len(text')
      /\ Legacy' \in {\hF2, \hF3} /\ sz = (IF Legacy' = \hF2 THEN 8 ELSE 4)
      /\ RmX' = a /\ RegX' = F(s)
  <2>1. a.k # "reg"  BY <1>3
  <2>2. \h11 \in Byte /\ 4 \in Floats /\ a \in Operand  BY <1>3
  <2>3. TwoByte' /\ OpByte' = \h11 /\ End' - 1 = Len(text') /\ RegX' = F(s)
    BY <1>2, <2>2, ScalarForm
  <2>4. Legacy' \in {\hF2, \hF3} /\ sz = (IF Legacy' = \hF2 THEN 8 ELSE 4)
    BY <1>2, <2>2, ScalarForm, SMTT(40)
  <2>5. RmX' = a  BY <1>2, <2>1, <2>2, ScalarForm
  <2> QED  BY <2>3, <2>4, <2>5
<1>5. Decoded' = Is("fmov", sz, <<RmX', RegX'>>, End')
  BY <1>4 DEF Decoded, DecodeTwoByte, DecodeScalar
<1>6. ~Gap'  BY <1>1 DEF Gap
<1> QED  BY <1>1, <1>4, <1>5, <1>6, Verdict2

LEMMA CvtScalarDecodes ==
  ASSUME NEW d \in 0 .. 15, NEW s \in 0 .. 15, NEW sz \in Floats, CvtScalar(d, s, sz)
  PROVE  EncodingsDecode'
<1> DEFINE a == F(s)
<1>1. asked' = I("f2f", sz, <<F(d), a>>) /\ by' = "cvt_scalar"  BY DEF CvtScalar, Ask
<1>2. Written(Prefix(sz), EmitRex(4 = 8, High(d), High(a.n)), <<\h0F, \h5A>>, Enc(d, a), << >>)
  <2>1. (4 = 8) = FALSE  OBVIOUS
  <2>2. text' = Prefix(sz) \o EmitRex(FALSE, High(d), High(a.n)) \o <<\h0F, \h5A>> \o Enc(d, a)
    BY DEF CvtScalar, Ask, Enc, F
  <2> HIDE DEF a
  <2> QED  BY <2>1, <2>2 DEF Written
<1>3. \h5A \in Byte /\ 4 \in Floats /\ a \in Operand /\ a.k = "xmm"
  BY DEF Byte, Floats, Operand, F
<1> HIDE DEF a
<1>4. /\ TwoByte' /\ OpByte' = \h5A /\ End' - 1 = Len(text')
      /\ Legacy' \in {\hF2, \hF3} /\ sz = (IF Legacy' = \hF2 THEN 8 ELSE 4)
      /\ RmX' = a /\ RegX' = F(d)
  BY <1>2, <1>3, ScalarForm
<1>5. Decoded' = Is("f2f", sz, <<RegX', RmX'>>, End')
  BY <1>4 DEF Decoded, DecodeTwoByte, DecodeScalar
<1>6. ~Gap'  BY <1>1 DEF Gap
<1> QED  BY <1>1, <1>4, <1>5, <1>6, Verdict2

LEMMA CvtFromIntDecodes ==
  ASSUME NEW d \in 0 .. 15, NEW s \in 0 .. 15, NEW sz \in Floats, NEW int \in Floats,
         CvtFromInt(d, s, sz, int)
  PROVE  EncodingsDecode'
<1> DEFINE a == R(s)
<1>1. asked' = I("i2f", sz, <<F(d), a, V(<<int>>)>>) /\ by' = "cvtsi2"  BY DEF CvtFromInt, Ask
<1>2. Written(Prefix(sz), EmitRex(int = 8, High(d), High(a.n)), <<\h0F, \h2A>>, Enc(d, a), << >>)
  BY DEF CvtFromInt, Ask, Written, Enc, R
<1>3. \h2A \in Byte /\ a \in Operand /\ a.k = "reg"  BY DEF Byte, Operand, R
<1> HIDE DEF a
<1>4. /\ TwoByte' /\ OpByte' = \h2A /\ End' - 1 = Len(text')
      /\ Legacy' \in {\hF2, \hF3} /\ sz = (IF Legacy' = \hF2 THEN 8 ELSE 4)
      /\ int = (IF RexBit(8)' THEN 8 ELSE 4)
      /\ Rm(int)' = a /\ RegX' = F(d)
  BY <1>2, <1>3, ScalarForm, SMTT(40)
<1>5. Decoded' = Is("i2f", sz, <<RegX', Rm(int)', V(<<int>>)>>, End')
  BY <1>4 DEF Decoded, DecodeTwoByte, DecodeScalar
<1>6. ~Gap'  BY <1>1 DEF Gap
<1> QED  BY <1>1, <1>4, <1>5, <1>6, Verdict3

LEMMA CvtToIntDecodes ==
  ASSUME NEW d \in 0 .. 15, NEW s \in 0 .. 15, NEW sz \in Floats, NEW int \in Floats,
         CvtToInt(d, s, sz, int)
  PROVE  EncodingsDecode'
<1> DEFINE a == F(s)
<1>1. asked' = I("f2i", sz, <<R(d), a, V(<<int>>)>>) /\ by' = "cvtts2si"  BY DEF CvtToInt, Ask
<1>2. Written(Prefix(sz), EmitRex(int = 8, High(d), High(a.n)), <<\h0F, \h2C>>, Enc(d, a), << >>)
  BY DEF CvtToInt, Ask, Written, Enc, F
<1>3. \h2C \in Byte /\ a \in Operand /\ a.k = "xmm"  BY DEF Byte, Operand, F
<1> HIDE DEF a
<1>4. /\ TwoByte' /\ OpByte' = \h2C /\ End' - 1 = Len(text')
      /\ Legacy' \in {\hF2, \hF3} /\ sz = (IF Legacy' = \hF2 THEN 8 ELSE 4)
      /\ int = (IF RexBit(8)' THEN 8 ELSE 4)
      /\ RmX' = a /\ RegOf(int)' = R(d)
  BY <1>2, <1>3, ScalarForm, SMTT(40)
<1>5. Decoded' = Is("f2i", sz, <<RegOf(int)', RmX', V(<<int>>)>>, End')
  BY <1>4 DEF Decoded, DecodeTwoByte, DecodeScalar
<1>6. ~Gap'  BY <1>1 DEF Gap
<1> QED  BY <1>1, <1>4, <1>5, <1>6, Verdict3

LEMMA UcomisDecodes ==
  ASSUME NEW l \in 0 .. 15, NEW r \in 0 .. 15, NEW sz \in Floats, Ucomis(l, r, sz)
  PROVE  EncodingsDecode'
<1> DEFINE a == F(r)  p == Size16(IF sz = 8 THEN 2 ELSE 4)
<1>1. asked' = I("fcmp", sz, <<F(l), a>>) /\ by' = "ucomis"  BY DEF Ucomis, Ask
<1>2. Written(p, EmitRex(4 = 8, High(l), High(a.n)), <<\h0F, \h2E>>, Enc(l, a), << >>)
  <2>1. (4 = 8) = FALSE  OBVIOUS
  <2>2. text' = p \o EmitRex(FALSE, High(l), High(a.n)) \o <<\h0F, \h2E>> \o Enc(l, a)
    BY DEF Ucomis, Ask, Enc, F
  <2> HIDE DEF a, p
  <2> QED  BY <2>1, <2>2 DEF Written
<1>3. /\ \h2E \in Byte /\ 4 \in SizesOf /\ a \in Operand /\ a.k = "xmm"
      /\ AnyPrefix(p) /\ << >> \in Seq(Byte)
      /\ p = (IF sz = 8 THEN <<\h66>> ELSE << >>)
  <2>1. p = (IF sz = 8 THEN <<\h66>> ELSE << >>)  BY DEF Floats, Size16
  <2> HIDE DEF p
  <2> QED  BY <2>1 DEF Byte, SizesOf, Operand, F, AnyPrefix, Mandatory
<1> HIDE DEF a, p
<1>4. /\ TwoByte' /\ OpByte' = \h2E /\ Always(4, p, l, a, << >>)
      /\ Legacy' = IF p = << >> THEN 0 ELSE p[1]
  <2>1. LongText(4, p, \h2E, l, a, << >>)  BY <1>2, <1>3 DEF LongText
  <2> QED  BY <2>1, RexLong DEF LongRead
<1>5. From(End', << >>) /\ RmX' = a /\ RegX' = F(l)  BY <1>3, <1>4 DEF Always
<1>6. sz = IF Legacy' = \h66 THEN 8 ELSE 4
  <2>1. <<\h66>> # << >> /\ <<\h66>>[1] = \h66  OBVIOUS
  <2>2. CASE sz = 8  BY <1>3, <1>4, <2>1, <2>2
  <2>3. CASE sz = 4  BY <1>3, <1>4, <2>3
  <2> QED  BY <2>2, <2>3 DEF Floats
<1>7. Decoded' = Is("fcmp", sz, <<RegX', RmX'>>, End')
  BY <1>4, <1>6 DEF Decoded, DecodeTwoByte
<1>8. End' - 1 = Len(text')  BY <1>5, EndsHere
<1>9. ~Gap'  BY <1>1 DEF Gap
<1> QED  BY <1>1, <1>5, <1>7, <1>8, <1>9, Verdict2

-----------------------------------------------------------------------------
(* A step that changes nothing changes nothing that is read of the text.   *)
LEMMA SameReading ==
  ASSUME UNCHANGED vars
  PROVE  EncodingsDecode' <=> EncodingsDecode
<1>1. asked' = asked /\ by' = by /\ text' = text  BY DEF vars
<1>2. \A i : ByteAt(i)' = ByteAt(i)  BY <1>1 DEF ByteAt
<1>3. Legacy' = Legacy  BY <1>2 DEF Legacy
<1>4. RexAt' = RexAt  BY <1>3 DEF RexAt
<1>5. HasRex' = HasRex  BY <1>2, <1>4 DEF HasRex
<1>6. \A b : RexBit(b)' = RexBit(b)  BY <1>2, <1>4, <1>5 DEF RexBit
<1>7. OpAt' = OpAt  BY <1>4, <1>5 DEF OpAt
<1>8. TwoByte' = TwoByte  BY <1>2, <1>7 DEF TwoByte
<1>9. OpByte' = OpByte /\ After' = After  BY <1>2, <1>7, <1>8 DEF OpByte, After
<1>10. Wide' = Wide  BY <1>3, <1>6 DEF Wide
<1>11. Reg' = Reg /\ Mod' = Mod /\ HasSib' = HasSib
  BY <1>2, <1>9 DEF Reg, Mod, HasSib
<1>12. \A i, n, sz : FieldAt(i, n, sz)' = FieldAt(i, n, sz)  BY <1>2 DEF FieldAt
<1>13. \A i, n : SignedAt(i, n)' = SignedAt(i, n)  BY <1>2 DEF SignedAt
<1>14. \A n, b : Num(n, b)' = Num(n, b)  BY <1>6 DEF Num
<1>15. \A n, sz : IntReg(n, sz)' = IntReg(n, sz)  BY <1>5 DEF IntReg
<1>16. DispAt' = DispAt /\ BaseLow' = BaseLow  BY <1>2, <1>9, <1>11 DEF DispAt, BaseLow
<1>17. DispLen' = DispLen /\ Base' = Base  BY <1>11, <1>14, <1>16 DEF DispLen, Base
<1>18. End' = End  BY <1>9, <1>11, <1>16, <1>17 DEF End
<1>19. \A sz : Rm(sz)' = Rm(sz)
  BY <1>2, <1>9, <1>11, <1>13, <1>14, <1>15, <1>16, <1>17 DEF Rm, RmOf
<1>20. RmX' = RmX
  BY <1>2, <1>9, <1>11, <1>13, <1>14, <1>16, <1>17 DEF RmX, RmOf
<1>21. \A sz : RegOf(sz)' = RegOf(sz) /\ PlusReg(sz)' = PlusReg(sz)
  BY <1>9, <1>11, <1>14, <1>15 DEF RegOf, PlusReg
<1>22. RegX' = RegX  BY <1>11, <1>14 DEF RegX
<1>23. DecodeOneByte' = DecodeOneByte
  BY <1>9, <1>10, <1>11, <1>12, <1>18, <1>19, <1>21 DEF DecodeOneByte
<1>24. DecodeScalar' = DecodeScalar
  BY <1>3, <1>6, <1>9, <1>18, <1>19, <1>20, <1>21, <1>22 DEF DecodeScalar
<1>25. DecodeTwoByte' = DecodeTwoByte
  BY <1>3, <1>9, <1>10, <1>12, <1>18, <1>19, <1>20, <1>21, <1>22, <1>24 DEF DecodeTwoByte
<1>26. Decoded' = Decoded  BY <1>8, <1>23, <1>25 DEF Decoded
<1>27. Gap' <=> Gap  BY <1>1 DEF Gap, HighOperand, ByteRegister
<1> QED  BY <1>1, <1>26, <1>27 DEF EncodingsDecode

(* The numbers that the functions are called with. *)
LEMMA Callers ==
  /\ Regs \subseteq 0 .. 15 /\ Sizes \subseteq SizesOf /\ Disps \subseteq Int32
  /\ Wides \subseteq [1 .. 8 -> Byte] /\ 0 \in Int32 /\ 1000 \in Int32
<1>1. Regs \subseteq 0 .. 15 /\ Sizes \subseteq SizesOf /\ Wides \subseteq [1 .. 8 -> Byte]
  BY X64Assumption DEF SizesOf, Byte
<1>2. Disps \subseteq Int32  BY X64Assumption DEF Int32
<1>3. 0 \in Int32 /\ 1000 \in Int32  BY SMT DEF Int32
<1> QED  BY <1>1, <1>2, <1>3

(* An address that is 0 or a displacement, a register, or a vector one. *)
LEMMA Operands ==
  ASSUME NEW n \in 0 .. 15, NEW v \in Int32
  PROVE  /\ R(n) \in Operand /\ F(n) \in Operand /\ M(n, v) \in Operand
         /\ R(n).k = "reg" /\ F(n).k = "xmm" /\ M(n, v).k = "mem"
         /\ \A d : /\ Enc(d, R(n)) = <<ModRM(3, d, n)>> /\ Enc(d, F(n)) = <<ModRM(3, d, n)>>
                   /\ Enc(d, M(n, v)) = EmitMem(d, n, v)
<1>1. R(n).k = "reg" /\ R(n).n = n /\ F(n).k = "xmm" /\ F(n).n = n  BY DEF R, F
<1>2. M(n, v).k = "mem" /\ M(n, v).n = n /\ M(n, v).disp = v  BY DEF M
<1>3. R(n) \in Operand /\ F(n) \in Operand /\ M(n, v) \in Operand
  BY DEF Operand, R, F, M
<1> QED  BY <1>1, <1>2, <1>3 DEF Enc

LEMMA MovesDecode ==
  ASSUME Moves
  PROVE  EncodingsDecode'
<1>1. PICK d \in Regs, s \in Regs, sz \in Sizes, disp \in Disps :
          \/ MovRR(d, s, sz) \/ MovRM(d, s, disp, sz) \/ MovMR(d, disp, s, sz)
          \/ MovMI(d, disp, 1000, sz) \/ MovMI(d, 0, disp, sz) \/ Lea(d, s, disp)
          \/ \E imm \in Wides : MovRI(d, imm, sz)
  BY DEF Moves
<1>2. d \in 0 .. 15 /\ s \in 0 .. 15 /\ sz \in SizesOf /\ disp \in Int32  BY Callers
<1>3. CASE MovRR(d, s, sz)  BY <1>2, <1>3, MovRRDecodes
<1>4. CASE MovRM(d, s, disp, sz)  BY <1>2, <1>4, MovRMDecodes
<1>5. CASE MovMR(d, disp, s, sz)  BY <1>2, <1>5, MovMRDecodes
<1>6. CASE MovMI(d, disp, 1000, sz)
  <2>1. ASSUME NEW imm \in Int32, MovMI(d, disp, imm, sz)
        PROVE  EncodingsDecode'
    BY <1>2, <2>1, MovMIDecodes
  <2> QED  BY <1>6, <2>1, Callers
<1>7. CASE MovMI(d, 0, disp, sz)
  <2>1. ASSUME NEW v \in Int32, MovMI(d, v, disp, sz)
        PROVE  EncodingsDecode'
    BY <1>2, <2>1, MovMIDecodes
  <2> QED  BY <1>7, <2>1, Callers
<1>8. CASE Lea(d, s, disp)  BY <1>2, <1>8, LeaDecodes
<1>9. CASE \E imm \in Wides : MovRI(d, imm, sz)
  <2>1. PICK imm \in Wides : MovRI(d, imm, sz)  BY <1>9
  <2>2. imm \in [1 .. 8 -> Byte]  BY Callers
  <2> QED  BY <1>2, <2>1, <2>2, MovRIDecodes
<1> QED  BY <1>1, <1>3, <1>4, <1>5, <1>6, <1>7, <1>8, <1>9

LEMMA ExtensionsDecode ==
  ASSUME Extensions
  PROVE  EncodingsDecode'
<1>1. PICK d \in Regs, s \in Regs, from \in {1, 2, 4}, to \in Sizes, disp \in Disps :
          /\ from < to
          /\ \/ MovSX(d, R(s), <<ModRM(3, d, s)>>, from, to)
             \/ MovSX(d, M(s, disp), EmitMem(d, s, disp), from, to)
             \/ MovZX(d, R(s), <<ModRM(3, d, s)>>, from, to)
             \/ MovZX(d, M(s, disp), EmitMem(d, s, disp), from, to)
  BY DEF Extensions
<1>2. d \in 0 .. 15 /\ s \in 0 .. 15 /\ to \in SizesOf /\ disp \in Int32  BY Callers
<1>3. ASSUME NEW a \in Operand, a.k # "xmm",
             MovSX(d, a, Enc(d, a), from, to) \/ MovZX(d, a, Enc(d, a), from, to)
      PROVE  EncodingsDecode'
  BY <1>1, <1>2, <1>3, MovSXDecodes, MovZXDecodes
<1>4. /\ R(s) \in Operand /\ R(s).k # "xmm" /\ Enc(d, R(s)) = <<ModRM(3, d, s)>>
      /\ M(s, disp) \in Operand /\ M(s, disp).k # "xmm"
      /\ Enc(d, M(s, disp)) = EmitMem(d, s, disp)
  BY <1>2, Operands
<1>5. \/ MovSX(d, R(s), Enc(d, R(s)), from, to) \/ MovZX(d, R(s), Enc(d, R(s)), from, to)
      \/ MovSX(d, M(s, disp), Enc(d, M(s, disp)), from, to)
      \/ MovZX(d, M(s, disp), Enc(d, M(s, disp)), from, to)
  BY <1>1, <1>4
<1>6. CASE MovSX(d, R(s), Enc(d, R(s)), from, to) \/ MovZX(d, R(s), Enc(d, R(s)), from, to)
  BY <1>3, <1>4, <1>6
<1>7. CASE MovSX(d, M(s, disp), Enc(d, M(s, disp)), from, to)
           \/ MovZX(d, M(s, disp), Enc(d, M(s, disp)), from, to)
  BY <1>3, <1>4, <1>7
<1> QED  BY <1>5, <1>6, <1>7

LEMMA StackDecode ==
  ASSUME Stack
  PROVE  EncodingsDecode'
<1>1. PICK r \in Regs, v \in Disps : Push(r) \/ Pop(r) \/ PushImm(v)  BY DEF Stack
<1>2. r \in 0 .. 15 /\ v \in Int32  BY Callers
<1> QED  BY <1>1, <1>2, PushDecodes, PopDecodes, PushImmDecodes

LEMMA ArithmeticDecode ==
  ASSUME Arithmetic
  PROVE  EncodingsDecode'
<1>1. PICK d \in Regs, s \in Regs, sz \in Sizes, v \in Disps :
          \/ \E op \in DOMAIN AluOpcode : AluRR(op, d, s, sz) \/ AluRI(op, d, v, sz)
          \/ AddRM(d, s, v, sz) \/ ImulRR(d, s, sz) \/ ImulRRI(d, s, v, sz) \/ Idiv(d, sz)
          \/ \E op \in DOMAIN UnaryExt : Unary(op, d, sz)
          \/ \E op \in DOMAIN ShiftExt, amt \in {1, 7, 63} :
                 ShiftRI(op, d, amt, sz) \/ ShiftCL(op, d, sz)
  BY DEF Arithmetic
<1>2. d \in 0 .. 15 /\ s \in 0 .. 15 /\ sz \in SizesOf /\ v \in Int32  BY Callers
<1>3. CASE \E op \in DOMAIN AluOpcode : AluRR(op, d, s, sz) \/ AluRI(op, d, v, sz)
  <2>1. DOMAIN AluOpcode = AluOps  BY DEF AluOpcode, AluOps
  <2>2. PICK op \in AluOps : AluRR(op, d, s, sz) \/ AluRI(op, d, v, sz)  BY <1>3, <2>1
  <2>3. CASE AluRR(op, d, s, sz)  BY <1>2, <2>3, AluRRDecodes
  <2>4. CASE AluRI(op, d, v, sz)  BY <1>2, <2>4, AluRIDecodes
  <2> QED  BY <2>2, <2>3, <2>4
<1>4. CASE AddRM(d, s, v, sz)  BY <1>2, <1>4, AddRMDecodes
<1>5. CASE ImulRR(d, s, sz)  BY <1>2, <1>5, ImulRRDecodes
<1>6. CASE ImulRRI(d, s, v, sz)  BY <1>2, <1>6, ImulRRIDecodes
<1>7. CASE Idiv(d, sz)  BY <1>2, <1>7, IdivDecodes
<1>8. CASE \E op \in DOMAIN UnaryExt : Unary(op, d, sz)
  <2>1. DOMAIN UnaryExt = UnaryOps  BY DEF UnaryExt, UnaryOps
  <2>2. PICK op \in UnaryOps : Unary(op, d, sz)  BY <1>8, <2>1
  <2> QED  BY <1>2, <2>2, UnaryDecodes
<1>9. CASE \E op \in DOMAIN ShiftExt, amt \in {1, 7, 63} :
               ShiftRI(op, d, amt, sz) \/ ShiftCL(op, d, sz)
  <2>1. DOMAIN ShiftExt = ShiftOps /\ {1, 7, 63} = Shifts  BY DEF ShiftExt, ShiftOps, Shifts
  <2>2. PICK op \in ShiftOps, amt \in Shifts : ShiftRI(op, d, amt, sz) \/ ShiftCL(op, d, sz)
    BY <1>9, <2>1
  <2>3. CASE ShiftRI(op, d, amt, sz)  BY <1>2, <2>3, ShiftRIDecodes
  <2>4. CASE ShiftCL(op, d, sz)  BY <1>2, <2>4, ShiftCLDecodes
  <2> QED  BY <2>2, <2>3, <2>4
<1> QED  BY <1>1, <1>3, <1>4, <1>5, <1>6, <1>7, <1>8, <1>9

LEMMA ControlDecode ==
  ASSUME Control
  PROVE  EncodingsDecode'
<1>1. CASE \E r \in Regs, cc \in DOMAIN Cond : SetCC(cc, r) \/ Jcc(cc) \/ CallReg(r)
  <2>1. DOMAIN Cond = Conds  BY DEF Cond, Conds
  <2>2. PICK r \in Regs, cc \in Conds : SetCC(cc, r) \/ Jcc(cc) \/ CallReg(r)  BY <1>1, <2>1
  <2>3. r \in 0 .. 15  BY Callers
  <2> QED  BY <2>2, <2>3, SetCCDecodes, JccDecodes, CallRegDecodes
<1>2. CASE JmpLabel \/ CallLabel  BY <1>2, LabelDecodes
<1>3. CASE Plain  BY <1>3, PlainDecodes
<1> QED  BY <1>1, <1>2, <1>3 DEF Control

LEMMA FloatingDecode ==
  ASSUME Floating
  PROVE  EncodingsDecode'
<1>1. PICK d \in Regs, s \in Regs, sz \in {4, 8}, int \in {4, 8}, disp \in Disps :
          \/ \E op \in DOMAIN Scalar : SseLoad(op, d, F(s), <<ModRM(3, d, s)>>, sz)
          \/ SseLoad("fmov", d, M(s, disp), EmitMem(d, s, disp), sz) \/ SseStore(d, disp, s, sz)
          \/ Ucomis(d, s, sz) \/ CvtScalar(d, s, sz)
          \/ CvtFromInt(d, s, sz, int) \/ CvtToInt(d, s, sz, int)
  BY DEF Floating
<1>2. d \in 0 .. 15 /\ s \in 0 .. 15 /\ sz \in Floats /\ int \in Floats /\ disp \in Int32
  BY Callers DEF Floats
<1>3. /\ F(s) \in Operand /\ F(s).k # "reg" /\ Enc(d, F(s)) = <<ModRM(3, d, s)>>
      /\ M(s, disp) \in Operand /\ M(s, disp).k # "reg"
      /\ Enc(d, M(s, disp)) = EmitMem(d, s, disp)
  BY <1>2, Operands
<1>4. CASE \E op \in DOMAIN Scalar : SseLoad(op, d, F(s), <<ModRM(3, d, s)>>, sz)
  <2>1. DOMAIN Scalar = ScalarOps  BY DEF Scalar, ScalarOps
  <2>2. PICK op \in ScalarOps : SseLoad(op, d, F(s), Enc(d, F(s)), sz)  BY <1>3, <1>4, <2>1
  <2> QED  BY <1>2, <1>3, <2>2, SseLoadDecodes
<1>5. CASE SseLoad("fmov", d, M(s, disp), EmitMem(d, s, disp), sz)
  <2>1. "fmov" \in ScalarOps /\ SseLoad("fmov", d, M(s, disp), Enc(d, M(s, disp)), sz)
    BY <1>3, <1>5 DEF ScalarOps
  <2> QED  BY <1>2, <1>3, <2>1, SseLoadDecodes
<1>6. CASE SseStore(d, disp, s, sz)  BY <1>2, <1>6, SseStoreDecodes
<1>7. CASE Ucomis(d, s, sz)  BY <1>2, <1>7, UcomisDecodes
<1>8. CASE CvtScalar(d, s, sz)  BY <1>2, <1>8, CvtScalarDecodes
<1>9. CASE CvtFromInt(d, s, sz, int)  BY <1>2, <1>9, CvtFromIntDecodes
<1>10. CASE CvtToInt(d, s, sz, int)  BY <1>2, <1>10, CvtToIntDecodes
<1> QED  BY <1>1, <1>4, <1>5, <1>6, <1>7, <1>8, <1>9, <1>10

(* Whatever a function of the encoder is asked for, with any of the        *)
(* sixteen registers, any displacement and any immediate, the processor    *)
(* reads what was asked except where Gap says otherwise, and there it      *)
(* reads something else.                                                   *)
THEOREM EncodingsDecoded == Spec => []EncodingsDecode
<1>1. Init => EncodingsDecode  BY DEF Init, EncodingsDecode
<1>2. ASSUME EncodingsDecode, [Next]_vars
      PROVE  EncodingsDecode'
  <2>1. CASE Next
    <3>1. Moves \/ Extensions \/ Stack \/ Arithmetic \/ Control \/ Floating  BY <2>1 DEF Next
    <3> QED  BY <3>1, MovesDecode, ExtensionsDecode, StackDecode, ArithmeticDecode,
                ControlDecode, FloatingDecode
  <2>2. CASE UNCHANGED vars  BY <1>2, <2>2, SameReading
  <2> QED  BY <1>2, <2>1, <2>2
<1> QED  BY <1>1, <1>2, PTL DEF Spec

=============================================================================
