---------------------------- MODULE ArenaProofs ----------------------------
(***************************************************************************)
(* The arena is right for every size, alignment and place of its chunks,   *)
(* and for any number of blocks and marks: proofs about Arena.             *)
(*                                                                         *)
(* The inductive invariant says where blocks are: each in a chunk, below   *)
(* what is used of it, and those a mark keeps below the mark.  Marks go up *)
(* the list of chunks, so that restoring one leaves the earlier ones what  *)
(* they point to.                                                          *)
(***************************************************************************)
EXTENDS Arena, TLAPS, SequenceTheorems

-----------------------------------------------------------------------------
(* Alignment.                                                              *)

LEMMA Remainder ==
    ASSUME NEW n \in Nat, NEW a \in Nat \ {0}
    PROVE  /\ n % a \in 0 .. a - 1 /\ n \div a \in Nat
           /\ n = a * (n \div a) + (n % a)
<1>1. n % a \in 0 .. a - 1
    BY SMT
<1>2. n \div a \in Nat
    BY SMT
<1>3. n = a * (n \div a) + (n % a)
    BY SMT
<1>. QED
    BY <1>1, <1>2, <1>3

LEMMA MultipleRemainder ==
    ASSUME NEW q \in Nat, NEW a \in Nat \ {0}
    PROVE  (a * q) % a = 0
BY SMT

LEMMA SmallRemainder ==
    ASSUME NEW a \in Nat \ {0}, NEW r \in 0 .. a - 1
    PROVE  r % a = r
BY SMT

LEMMA PadAligns ==
    ASSUME NEW base \in Nat, NEW align \in Nat \ {0}
    PROVE  /\ Pad(base, align) \in 0 .. align - 1
           /\ (base + Pad(base, align)) % align = 0
<1> DEFINE q == base \div align
           r == base % align
<1>1. r \in 0 .. align - 1 /\ q \in Nat /\ base = align * q + r
    BY Remainder
<1>2. Pad(base, align) = (align - r) % align
    BY DEF Pad
<1>. HIDE DEF q, r
<1>3. CASE r = 0
  <2>1. Pad(base, align) = 0
      BY <1>2, <1>3, SMT
  <2>. QED
      BY <1>1, <1>3, <2>1, MultipleRemainder
<1>4. CASE r # 0
  <2>1. align - r \in 0 .. align - 1
      BY <1>1, <1>4
  <2>2. Pad(base, align) = align - r
      BY <1>2, <2>1, SmallRemainder
  <2>3. base + Pad(base, align) = align * (q + 1)
      BY <1>1, <2>2, SMT
  <2>4. q + 1 \in Nat
      BY <1>1
  <2>. QED
      BY <2>1, <2>2, <2>3, <2>4, MultipleRemainder
<1>. QED
    BY <1>3, <1>4

-----------------------------------------------------------------------------
(* The invariant.                                                          *)

MarkType == [chunk : Nat, used : Nat, kept : SUBSET Block]

(* Block b lies in one of the first k chunks, and below offset u if in the *)
(* last of these.                                                          *)
Below(b, k, u) ==
    \E i \in 1 .. k :
        /\ DataOf(chunks[i]) <= b.at
        /\ b.at + b.size <= DataOf(chunks[i]) + (IF i = k THEN u ELSE chunks[i].used)

Disjoint(c, d) == EndOf(c) <= d.at \/ EndOf(d) <= c.at

(* Parts of the invariant: the chunks, the blocks, and the marks. *)
ChunksInv ==
    /\ chunks \in Seq(Chunk)
    /\ \A i \in DOMAIN chunks : chunks[i].used <= chunks[i].cap
    /\ \A i, j \in DOMAIN chunks : i # j => Disjoint(chunks[i], chunks[j])

BlocksInv ==
    /\ blocks \subseteq Block
    /\ \A b \in blocks : \E i \in DOMAIN chunks : Inside(b, chunks[i])
    /\ \A a, b \in blocks : a # b => Promise!Apart(a, b)

MarksInv ==
    /\ marks \in Seq(MarkType)
    /\ \A i \in DOMAIN marks :
          /\ marks[i].chunk \in DOMAIN chunks
          /\ marks[i].used <= chunks[marks[i].chunk].used
          /\ \A b \in marks[i].kept : Below(b, marks[i].chunk, marks[i].used)
          /\ \A a, b \in marks[i].kept : a # b => Promise!Apart(a, b)
    /\ \A i, j \in DOMAIN marks : i < j =>
          \/ marks[i].chunk < marks[j].chunk
          \/ marks[i].chunk = marks[j].chunk /\ marks[i].used <= marks[j].used

ArenaInv == ChunksInv /\ BlocksInv /\ MarksInv

LEMMA Elements ==
    ASSUME NEW S, NEW s \in Seq(S)
    PROVE  /\ DOMAIN s = 1 .. Len(s) /\ Len(s) \in Nat
           /\ \A i \in DOMAIN s : s[i] \in S
<1>. QED
    BY LenProperties, ElementOfSeq

LEMMA Appended ==
    ASSUME NEW S, NEW s \in Seq(S), NEW e \in S
    PROVE  /\ Append(s, e) \in Seq(S)
           /\ Len(Append(s, e)) = Len(s) + 1
           /\ DOMAIN Append(s, e) = 1 .. Len(s) + 1
           /\ \A i \in DOMAIN s : Append(s, e)[i] = s[i]
           /\ Append(s, e)[Len(s) + 1] = e
<1>. QED
    BY AppendProperties, LenProperties

LEMMA Constants ==
    /\ Header \in Nat /\ DefaultCap \in Nat /\ ChunkSize \in Nat
    /\ \A p \in Places : p \in Nat
    /\ \A size \in Sizes : size \in Nat \ {0}
    /\ \A align \in Aligns : align \in Nat \ {0}
BY ArenaAssumption DEF ArenaAssumption

(* Chunks are at places, with the numbers their type says. *)
LEMMA ChunkNumbers ==
    ASSUME ChunksInv
    PROVE  /\ DOMAIN chunks = 1 .. Len(chunks) /\ Len(chunks) \in Nat
           /\ \A i \in DOMAIN chunks :
                 /\ chunks[i] \in Chunk
                 /\ chunks[i].at \in Nat /\ chunks[i].cap \in Nat /\ chunks[i].used \in Nat
                 /\ DataOf(chunks[i]) \in Nat /\ DataOf(chunks[i]) >= chunks[i].at
                 /\ EndOf(chunks[i]) = DataOf(chunks[i]) + chunks[i].cap
<1>1. /\ DOMAIN chunks = 1 .. Len(chunks) /\ Len(chunks) \in Nat
      /\ \A i \in DOMAIN chunks : chunks[i] \in Chunk
    BY Elements DEF ChunksInv
<1>2. ASSUME NEW i \in DOMAIN chunks
      PROVE  /\ chunks[i].at \in Nat /\ chunks[i].cap \in Nat /\ chunks[i].used \in Nat
             /\ DataOf(chunks[i]) \in Nat /\ DataOf(chunks[i]) >= chunks[i].at
             /\ EndOf(chunks[i]) = DataOf(chunks[i]) + chunks[i].cap
  <2>1. chunks[i].at \in Nat /\ chunks[i].cap \in Nat /\ chunks[i].used \in Nat
      BY <1>1, Constants DEF Chunk
  <2>. QED
      BY <2>1, Constants DEF DataOf, EndOf
<1>. QED
    BY <1>1, <1>2

(* What is cut from chunk c with u bytes used: where the block lies. *)
LEMMA CutFacts ==
    ASSUME NEW c, c.at \in Places, c.used \in Nat, NEW size \in Sizes, NEW align \in Aligns
    PROVE  LET b == Cut(c, size, align)
           IN  /\ b \in Block /\ b.size = size
               /\ b.at % b.align = 0
               /\ DataOf(c) + c.used <= b.at
               /\ Used(c, b) \in Nat /\ DataOf(c) + Used(c, b) = b.at + b.size
               /\ c.used < Used(c, b) /\ Used(c, b) < c.used + size + align
<1> DEFINE base == DataOf(c) + c.used
           pad == Pad(base, align)
<1>1. size \in Nat \ {0} /\ align \in Nat \ {0} /\ DataOf(c) \in Nat /\ base \in Nat
  <2>1. size \in Nat \ {0} /\ align \in Nat \ {0} /\ c.at \in Nat /\ Header \in Nat
      BY Constants
  <2>. QED
      BY <2>1 DEF DataOf
<1>2. pad \in 0 .. align - 1 /\ (base + pad) % align = 0
    BY <1>1, PadAligns
<1>3. Cut(c, size, align) = [at |-> base + pad, size |-> size, align |-> align]
    BY DEF Cut
<1>. HIDE DEF pad
<1>. QED
    BY <1>1, <1>2, <1>3 DEF Block, Used

-----------------------------------------------------------------------------
(* A block more in the chunk numbered n.                                   *)

(* The chunks are those there were, perhaps with a new one, and only the   *)
(* last is used more. *)
Extends(n) ==
    /\ DOMAIN chunks \subseteq DOMAIN chunks' /\ n \in DOMAIN chunks'
    /\ DOMAIN chunks' = 1 .. n /\ n \in Nat
    /\ \A i \in DOMAIN chunks :
          /\ chunks'[i].at = chunks[i].at /\ chunks'[i].cap = chunks[i].cap
          /\ chunks[i].used <= chunks'[i].used

LEMMA BelowStays ==
    ASSUME ChunksInv, ChunksInv', NEW n, Extends(n),
           NEW b \in Block, NEW k \in DOMAIN chunks, NEW u \in Nat, Below(b, k, u)
    PROVE  Below(b, k, u)'
<1>1. PICK i \in 1 .. k :
        /\ DataOf(chunks[i]) <= b.at
        /\ b.at + b.size <= DataOf(chunks[i]) + (IF i = k THEN u ELSE chunks[i].used)
    BY DEF Below
<1>2. i \in DOMAIN chunks /\ i \in DOMAIN chunks'
    BY ChunkNumbers DEF Extends
<1>3. /\ chunks[i].used \in Nat /\ DataOf(chunks[i]) \in Nat /\ chunks'[i].used \in Nat
      /\ b.at \in Nat /\ b.size \in Nat
  <2>1. chunks[i].used \in Nat /\ DataOf(chunks[i]) \in Nat
      BY <1>2, ChunkNumbers
  <2>2. chunks'[i] \in Chunk
      BY <1>2, Elements DEF ChunksInv
  <2>. QED
      BY <2>1, <2>2, Constants DEF Chunk, Block
<1>4. DataOf(chunks'[i]) = DataOf(chunks[i]) /\ chunks[i].used <= chunks'[i].used
    BY <1>2 DEF Extends, DataOf
<1>5. /\ DataOf(chunks'[i]) <= b.at
      /\ b.at + b.size <= DataOf(chunks'[i]) + (IF i = k THEN u ELSE chunks'[i].used)
    BY <1>1, <1>3, <1>4
<1>. QED
    BY <1>5 DEF Below

LEMMA InsideStays ==
    ASSUME ChunksInv, ChunksInv', NEW n, Extends(n),
           NEW b \in Block, NEW i \in DOMAIN chunks, Inside(b, chunks[i])
    PROVE  Inside(b, chunks'[i])
<1>1. i \in DOMAIN chunks'
    BY DEF Extends
<1>2. /\ chunks[i].used \in Nat /\ DataOf(chunks[i]) \in Nat /\ chunks'[i].used \in Nat
      /\ b.at \in Nat /\ b.size \in Nat
  <2>1. chunks[i].used \in Nat /\ DataOf(chunks[i]) \in Nat
      BY ChunkNumbers
  <2>2. chunks'[i] \in Chunk
      BY <1>1, Elements DEF ChunksInv
  <2>. QED
      BY <2>1, <2>2, Constants DEF Chunk, Block
<1>3. DataOf(chunks'[i]) = DataOf(chunks[i]) /\ chunks[i].used <= chunks'[i].used
    BY DEF Extends, DataOf
<1>. QED
    BY <1>2, <1>3 DEF Inside

(* The marks do not notice. *)
LEMMA MarksStay ==
    ASSUME ArenaInv, ChunksInv', NEW n, Extends(n), UNCHANGED marks
    PROVE  MarksInv'
<1>1. ASSUME NEW i \in DOMAIN marks
      PROVE  /\ marks[i] \in MarkType /\ marks[i].used \in Nat
             /\ marks[i].chunk \in DOMAIN chunks
             /\ marks[i].used <= chunks[marks[i].chunk].used
             /\ marks[i].kept \subseteq Block
  <2>1. marks \in Seq(MarkType)
      BY DEF ArenaInv, MarksInv
  <2>2. marks[i] \in MarkType
      BY <2>1, Elements
  <2>. QED
      BY <2>2 DEF ArenaInv, MarksInv, MarkType
<1>2. ASSUME NEW i \in DOMAIN marks
      PROVE  /\ marks[i].chunk \in DOMAIN chunks'
             /\ marks[i].used <= chunks'[marks[i].chunk].used
             /\ \A b \in marks[i].kept : Below(b, marks[i].chunk, marks[i].used)'
  <2> DEFINE k == marks[i].chunk
  <2>1. k \in DOMAIN chunks /\ k \in DOMAIN chunks' /\ marks[i].used \in Nat
      BY <1>1 DEF Extends
  <2>2. chunks[k].used \in Nat /\ chunks'[k].used \in Nat /\ chunks[k].used <= chunks'[k].used
    <3>1. chunks'[k] \in Chunk
        BY <2>1, Elements DEF ChunksInv
    <3>. QED
        BY <2>1, <3>1, ChunkNumbers DEF ArenaInv, Chunk, Extends
  <2>3. \A b \in marks[i].kept : b \in Block /\ Below(b, k, marks[i].used)
      BY <1>1 DEF ArenaInv, MarksInv
  <2>4. \A b \in marks[i].kept : Below(b, k, marks[i].used)'
    <3>1. TAKE b \in marks[i].kept
    <3>2. PICK u : u = marks[i].used
        OBVIOUS
    <3>3. PICK kk : kk = k
        OBVIOUS
    <3>4. Below(b, kk, u)'
        BY <2>1, <2>3, <3>2, <3>3, BelowStays DEF ArenaInv
    <3>. QED
        BY <3>2, <3>3, <3>4 DEF Below
  <2>. QED
      BY <1>1, <2>1, <2>2, <2>4
<1>. QED
    BY <1>2 DEF ArenaInv, MarksInv

LEMMA NewBlock ==
    ASSUME ArenaInv, ChunksInv', NEW n, Extends(n), UNCHANGED marks,
           NEW b \in Block, blocks' = blocks \cup {b}, Inside(b, chunks'[n]),
           n \in DOMAIN chunks => DataOf(chunks[n]) + chunks[n].used <= b.at
    PROVE  /\ ArenaInv'
           /\ \A a \in blocks : Promise!Apart(a, b)
           /\ b \notin blocks
<1>1. b.at \in Nat /\ b.size \in Nat \ {0}
    BY Constants DEF Block
<1>2. /\ n \in DOMAIN chunks'
      /\ chunks' \in Seq(Chunk)
      /\ DataOf(chunks'[n]) \in Nat /\ DataOf(chunks'[n]) >= chunks'[n].at /\ chunks'[n].at \in Nat
      /\ EndOf(chunks'[n]) \in Nat /\ chunks'[n].used \in Nat
      /\ DataOf(chunks'[n]) + chunks'[n].used <= EndOf(chunks'[n])
  <2>1. n \in DOMAIN chunks' /\ chunks' \in Seq(Chunk) /\ chunks'[n].used <= chunks'[n].cap
      BY DEF Extends, ChunksInv
  <2>2. chunks'[n] \in Chunk
      BY <2>1, Elements
  <2>3. chunks'[n].at \in Nat /\ chunks'[n].cap \in Nat /\ chunks'[n].used \in Nat
      BY <2>2, Constants DEF Chunk
  <2>. QED
      BY <2>1, <2>3, Constants DEF DataOf, EndOf
<1>3. ASSUME NEW a \in blocks
      PROVE  Promise!Apart(a, b) /\ a # b
  <2>1. PICK i \in DOMAIN chunks : Inside(a, chunks[i])
      BY DEF ArenaInv, BlocksInv
  <2>2. a.at \in Nat /\ a.size \in Nat \ {0}
      BY Constants DEF ArenaInv, BlocksInv, Block
  <2>3. /\ DataOf(chunks[i]) \in Nat /\ chunks[i].used \in Nat /\ EndOf(chunks[i]) \in Nat
        /\ chunks[i].at \in Nat /\ chunks[i].at <= DataOf(chunks[i])
        /\ DataOf(chunks[i]) + chunks[i].used <= EndOf(chunks[i])
    <3>1. /\ DataOf(chunks[i]) \in Nat /\ chunks[i].used \in Nat /\ chunks[i].cap \in Nat
          /\ chunks[i].at \in Nat /\ chunks[i].at <= DataOf(chunks[i])
          /\ EndOf(chunks[i]) = DataOf(chunks[i]) + chunks[i].cap
        BY <2>1, ChunkNumbers DEF ArenaInv
    <3>2. chunks[i].used <= chunks[i].cap
        BY <2>1 DEF ArenaInv, ChunksInv
    <3>. QED
        BY <3>1, <3>2
  <2>4. DataOf(chunks[i]) <= a.at /\ a.at + a.size <= DataOf(chunks[i]) + chunks[i].used
      BY <2>1 DEF Inside
  <2>5. DataOf(chunks'[n]) <= b.at /\ b.at + b.size <= DataOf(chunks'[n]) + chunks'[n].used
      BY DEF Inside
  <2>6. CASE i = n
    <3>1. a.at + a.size <= b.at
        BY <1>1, <2>1, <2>2, <2>3, <2>4, <2>6
    <3>. QED
        BY <1>1, <2>2, <3>1 DEF Promise!Apart
  <2>7. CASE i # n
    <3>1. Disjoint(chunks'[i], chunks'[n])
        BY <1>2, <2>1, <2>7 DEF ChunksInv, Extends
    <3>2. chunks'[i].at = chunks[i].at /\ EndOf(chunks'[i]) = EndOf(chunks[i])
        BY <2>1 DEF Extends, EndOf, DataOf
    <3>3. EndOf(chunks[i]) <= chunks'[n].at \/ EndOf(chunks'[n]) <= chunks[i].at
        BY <3>1, <3>2 DEF Disjoint
    <3>4. a.at + a.size <= b.at \/ b.at + b.size <= a.at
      <4>1. a.at + a.size \in Nat /\ b.at + b.size \in Nat
          BY <1>1, <2>2
      <4>2. a.at + a.size <= EndOf(chunks[i]) /\ chunks[i].at <= a.at
          BY <2>2, <2>3, <2>4, <4>1
      <4>3. b.at + b.size <= EndOf(chunks'[n]) /\ chunks'[n].at <= b.at
          BY <1>1, <1>2, <2>5, <4>1
      <4>4. CASE EndOf(chunks[i]) <= chunks'[n].at
        <5>1. EndOf(chunks[i]) <= b.at
            BY <1>1, <1>2, <2>3, <4>3, <4>4
        <5>. QED
            BY <1>1, <2>3, <4>1, <4>2, <5>1
      <4>5. CASE EndOf(chunks'[n]) <= chunks[i].at
        <5>1. EndOf(chunks'[n]) <= a.at
            BY <1>2, <2>2, <2>3, <4>2, <4>5
        <5>. QED
            BY <1>2, <2>2, <4>1, <4>3, <5>1
      <4>. QED
          BY <3>3, <4>4, <4>5
    <3>. QED
        BY <1>1, <2>2, <3>4 DEF Promise!Apart
  <2>. QED
      BY <2>6, <2>7
<1>4. \A a \in blocks : Promise!Apart(a, b) /\ Promise!Apart(b, a)
    BY <1>3 DEF Promise!Apart
<1>5. BlocksInv'
  <2>1. \A a \in blocks : \E i \in DOMAIN chunks' : Inside(a, chunks'[i])
    <3>1. TAKE a \in blocks
    <3>2. PICK i \in DOMAIN chunks : Inside(a, chunks[i]) /\ a \in Block
        BY DEF ArenaInv, BlocksInv
    <3>. QED
        BY <3>2, InsideStays DEF ArenaInv, Extends
  <2>2. \A a, d \in blocks' : a # d => Promise!Apart(a, d)
      BY <1>4 DEF ArenaInv, BlocksInv
  <2>3. blocks' \subseteq Block
      BY DEF ArenaInv, BlocksInv
  <2>. QED
      BY <1>2, <2>1, <2>2, <2>3 DEF BlocksInv
<1>6. MarksInv'
    BY MarksStay
<1>. QED
    BY <1>3, <1>5, <1>6 DEF ArenaInv

-----------------------------------------------------------------------------
(* The operations.                                                         *)

(* One chunk's used set to u. *)
LEMMA UsedSet ==
    ASSUME NEW s \in Seq(Chunk), NEW k \in DOMAIN s, NEW u \in Nat
    PROVE  LET t == [s EXCEPT ![k].used = u]
           IN  /\ t \in Seq(Chunk) /\ DOMAIN t = DOMAIN s
               /\ \A i \in DOMAIN s :
                     /\ t[i].at = s[i].at /\ t[i].cap = s[i].cap
                     /\ t[i].used = IF i = k THEN u ELSE s[i].used
<1> DEFINE e == [s[k] EXCEPT !.used = u]
           t == [s EXCEPT ![k] = e]
<1>1. /\ DOMAIN s = 1 .. Len(s) /\ \A i \in DOMAIN s : s[i] \in Chunk
    BY Elements
<1>2. e \in Chunk /\ e.at = s[k].at /\ e.cap = s[k].cap /\ e.used = u
    BY <1>1 DEF Chunk
<1>3. [s EXCEPT ![k].used = u] = t
    OBVIOUS
<1>4. /\ t \in Seq(Chunk) /\ Len(t) = Len(s)
      /\ \A i \in DOMAIN s : t[i] = IF i = k THEN e ELSE s[i]
  <2>. HIDE DEF e
  <2>. QED
      BY <1>1, <1>2, ExceptSeq
<1>5. DOMAIN t = DOMAIN s
    OBVIOUS
<1>. HIDE DEF e, t
<1>. QED
    BY <1>1, <1>2, <1>3, <1>4, <1>5

LEMMA AllocHereStep ==
    ASSUME ArenaInv, NEW size \in Sizes, NEW align \in Aligns, AllocHere(size, align)
    PROVE  /\ ArenaInv'
           /\ \E b \in blocks' : b \notin blocks /\ Promise!Grant(b)
<1> DEFINE n == Len(chunks)
           b == Cut(Curr, size, align)
           u == Used(Curr, b)
<1>1. /\ u <= Curr.cap /\ chunks' = [chunks EXCEPT ![n].used = u]
      /\ blocks' = blocks \cup {b} /\ UNCHANGED marks
      /\ chunks # << >> /\ chunks \in Seq(Chunk)
    BY DEF AllocHere, Handed, CanAlloc, ArenaInv, ChunksInv
<1>2. n \in DOMAIN chunks /\ DOMAIN chunks = 1 .. n /\ n \in Nat /\ Curr = chunks[n]
    BY <1>1, ChunkNumbers DEF ArenaInv, Curr
<1>3. Curr.at \in Places /\ Curr.used \in Nat
    BY <1>2, ChunkNumbers DEF ArenaInv, Chunk
<1>4. /\ b \in Block /\ b.at % b.align = 0
      /\ DataOf(Curr) + Curr.used <= b.at
      /\ u \in Nat /\ DataOf(Curr) + u = b.at + b.size /\ Curr.used < u
    BY <1>3, CutFacts
<1>. HIDE DEF n, b, u
<1>5. /\ chunks' \in Seq(Chunk) /\ DOMAIN chunks' = DOMAIN chunks
      /\ \A i \in DOMAIN chunks :
            /\ chunks'[i].at = chunks[i].at /\ chunks'[i].cap = chunks[i].cap
            /\ chunks'[i].used = IF i = n THEN u ELSE chunks[i].used
    BY <1>1, <1>2, <1>4, UsedSet
<1>6. ChunksInv'
  <2>1. \A i \in DOMAIN chunks : chunks'[i].used <= chunks'[i].cap
      BY <1>1, <1>2, <1>5 DEF ArenaInv, ChunksInv
  <2>2. \A i \in DOMAIN chunks : EndOf(chunks'[i]) = EndOf(chunks[i])
      BY <1>5 DEF EndOf, DataOf
  <2>. QED
      BY <1>5, <2>1, <2>2 DEF ArenaInv, ChunksInv, Disjoint
<1>7. Extends(n)
  <2>1. \A i \in DOMAIN chunks : chunks[i].used \in Nat
      BY ChunkNumbers DEF ArenaInv
  <2>. QED
      BY <1>2, <1>3, <1>4, <1>5, <2>1 DEF Extends
<1>8. Inside(b, chunks'[n]) /\ DataOf(chunks[n]) + chunks[n].used <= b.at
  <2>1. DataOf(chunks'[n]) = DataOf(Curr) /\ chunks'[n].used = u
      BY <1>2, <1>5 DEF DataOf
  <2>2. DataOf(Curr) \in Nat /\ b.at \in Nat /\ b.size \in Nat
      BY <1>2, <1>4, ChunkNumbers, Constants DEF ArenaInv, Block
  <2>. QED
      BY <1>2, <1>3, <1>4, <2>1, <2>2 DEF Inside
<1>9. ArenaInv' /\ (\A a \in blocks : Promise!Apart(a, b)) /\ b \notin blocks
    BY <1>1, <1>4, <1>6, <1>7, <1>8, NewBlock
<1>. QED
    BY <1>1, <1>4, <1>9 DEF Promise!Grant

LEMMA AllocInNewChunkStep ==
    ASSUME ArenaInv, NEW size \in Sizes, NEW align \in Aligns, AllocInNewChunk(size, align)
    PROVE  /\ ArenaInv'
           /\ \E b \in blocks' : b \notin blocks /\ Promise!Grant(b)
<1>1. PICK at \in Places :
        LET c == [at |-> at, cap |-> NewCap(size, align), used |-> 0]
            b == Cut(c, size, align)
        IN  /\ Mapped(c)
            /\ chunks' = Append(chunks, [c EXCEPT !.used = Used(c, b)])
            /\ Handed(b)
    BY DEF AllocInNewChunk
<1> DEFINE n == Len(chunks) + 1
           c == [at |-> at, cap |-> NewCap(size, align), used |-> 0]
           b == Cut(c, size, align)
           d == [at |-> at, cap |-> NewCap(size, align), used |-> Used(c, b)]
<1>2. /\ Mapped(c) /\ chunks' = Append(chunks, d)
      /\ blocks' = blocks \cup {b} /\ UNCHANGED marks
    BY <1>1 DEF Handed
<1>3. size \in Nat /\ align \in Nat /\ at \in Nat
    BY Constants
<1>4. NewCap(size, align) \in Nat /\ size + align <= NewCap(size, align)
    BY <1>3, Constants DEF NewCap, Greater
<1>5. c.at \in Places /\ c.used \in Nat /\ c.used = 0 /\ c.cap = NewCap(size, align)
    OBVIOUS
<1>6. /\ b \in Block /\ b.at % b.align = 0
      /\ DataOf(c) + c.used <= b.at
      /\ Used(c, b) \in Nat /\ DataOf(c) + Used(c, b) = b.at + b.size
      /\ Used(c, b) < c.used + size + align
    BY <1>5, CutFacts
<1>7. d \in Chunk /\ d.used <= d.cap /\ d.used = Used(c, b) /\ d.at = c.at /\ d.cap = c.cap
    BY <1>3, <1>4, <1>5, <1>6 DEF Chunk
<1>8. DataOf(d) = DataOf(c) /\ EndOf(d) = EndOf(c)
    BY DEF DataOf, EndOf
<1>. HIDE DEF b, c, d
<1>9. chunks \in Seq(Chunk) /\ DOMAIN chunks = 1 .. Len(chunks) /\ Len(chunks) \in Nat
    BY ChunkNumbers DEF ArenaInv, ChunksInv
<1>10. /\ chunks' \in Seq(Chunk) /\ DOMAIN chunks' = 1 .. n /\ n \in Nat
       /\ \A i \in DOMAIN chunks : chunks'[i] = chunks[i]
       /\ chunks'[n] = d
    BY <1>2, <1>7, <1>9, Appended
<1>11. ChunksInv'
  <2>1. \A i \in DOMAIN chunks : Disjoint(chunks[i], d) /\ Disjoint(d, chunks[i])
      BY <1>2, <1>7, <1>8 DEF Mapped, Disjoint
  <2>2. \A i \in DOMAIN chunks' : i \in DOMAIN chunks \/ i = n
      BY <1>9, <1>10
  <2>3. \A i, j \in DOMAIN chunks' : i # j => Disjoint(chunks'[i], chunks'[j])
      BY <1>10, <2>1, <2>2 DEF ArenaInv, ChunksInv
  <2>4. \A i \in DOMAIN chunks' : chunks'[i].used <= chunks'[i].cap
      BY <1>7, <1>10, <2>2 DEF ArenaInv, ChunksInv
  <2>. QED
      BY <1>10, <2>3, <2>4 DEF ChunksInv
<1>12. Extends(n)
  <2>1. \A i \in DOMAIN chunks : chunks[i].used \in Nat
      BY ChunkNumbers DEF ArenaInv
  <2>. QED
      BY <1>9, <1>10, <2>1 DEF Extends
<1>13. Inside(b, chunks'[n]) /\ n \notin DOMAIN chunks
  <2>1. DataOf(c) \in Nat /\ b.at \in Nat /\ b.size \in Nat
      BY <1>5, <1>6, Constants DEF DataOf, Block
  <2>. QED
      BY <1>5, <1>6, <1>7, <1>8, <1>9, <1>10, <2>1 DEF Inside
<1>14. ArenaInv' /\ (\A a \in blocks : Promise!Apart(a, b)) /\ b \notin blocks
    BY <1>2, <1>6, <1>11, <1>12, <1>13, NewBlock
<1>. QED
    BY <1>2, <1>6, <1>14 DEF Promise!Grant

(* The marks before the one numbered i. *)
LEMMA EarlierMarks ==
    ASSUME MarksInv, NEW i \in DOMAIN marks
    PROVE  LET ms == SubSeq(marks, 1, i - 1)
           IN  /\ ms \in Seq(MarkType) /\ DOMAIN ms = 1 .. i - 1 /\ Len(ms) = i - 1
               /\ \A j \in 1 .. i - 1 : j \in DOMAIN marks /\ ms[j] = marks[j]
<1>1. marks \in Seq(MarkType)
    BY DEF MarksInv
<1>2. DOMAIN marks = 1 .. Len(marks) /\ Len(marks) \in Nat /\ \A j \in DOMAIN marks : marks[j] \in MarkType
    BY <1>1, Elements
<1>3. \A j \in 1 .. i - 1 : j \in DOMAIN marks /\ marks[j] \in MarkType
    BY <1>2
<1>4. i - 1 \in Int /\ i \in Nat /\ i >= 1
    BY <1>2
<1>5. /\ SubSeq(marks, 1, i - 1) \in Seq(MarkType)
      /\ Len(SubSeq(marks, 1, i - 1)) = i - 1
      /\ \A j \in 1 .. i - 1 : SubSeq(marks, 1, i - 1)[j] = marks[j]
  <2>1. /\ SubSeq(marks, 1, i - 1) \in Seq(MarkType)
        /\ Len(SubSeq(marks, 1, i - 1)) = IF 1 <= i - 1 THEN (i - 1) - 1 + 1 ELSE 0
        /\ \A j \in 1 .. (i - 1) - 1 + 1 : SubSeq(marks, 1, i - 1)[j] = marks[1 + j - 1]
      BY <1>3, <1>4, SubSeqProperties
  <2>2. (i - 1) - 1 + 1 = i - 1 /\ \A j \in 1 .. i - 1 : 1 + j - 1 = j
      BY <1>4
  <2>. QED
      BY <1>4, <2>1, <2>2
<1>6. DOMAIN SubSeq(marks, 1, i - 1) = 1 .. i - 1
    BY <1>5, Elements
<1>. QED
    BY <1>3, <1>5, <1>6

(* What the chunks are after mark i is restored. *)
LEMMA RestoredChunks ==
    ASSUME ArenaInv, NEW i \in DOMAIN marks, Restore(i)
    PROVE  /\ chunks' \in Seq(Chunk) /\ DOMAIN chunks' = 1 .. marks[i].chunk
           /\ marks[i].chunk \in DOMAIN chunks
           /\ \A j \in DOMAIN chunks' :
                 /\ j \in DOMAIN chunks
                 /\ chunks'[j].at = chunks[j].at /\ chunks'[j].cap = chunks[j].cap
                 /\ chunks'[j].used = IF j = marks[i].chunk THEN marks[i].used ELSE chunks[j].used
<1> DEFINE k == marks[i].chunk
           s == SubSeq(chunks, 1, k)
<1>1. marks[i] \in MarkType
    BY Elements DEF ArenaInv, MarksInv
<1>2. /\ k \in DOMAIN chunks /\ DOMAIN chunks = 1 .. Len(chunks) /\ Len(chunks) \in Nat
      /\ \A j \in DOMAIN chunks : chunks[j] \in Chunk
    BY ChunkNumbers DEF ArenaInv, MarksInv
<1>3. k \in Nat /\ k >= 1 /\ \A j \in 1 .. k : j \in DOMAIN chunks /\ chunks[j] \in Chunk
    BY <1>2
<1>4. s \in Seq(Chunk) /\ Len(s) = k /\ \A j \in 1 .. k : s[j] = chunks[j]
  <2>1. /\ s \in Seq(Chunk) /\ Len(s) = IF 1 <= k THEN k - 1 + 1 ELSE 0
        /\ \A j \in 1 .. k - 1 + 1 : s[j] = chunks[1 + j - 1]
      BY <1>3, SubSeqProperties
  <2>2. k - 1 + 1 = k /\ \A j \in 1 .. k : 1 + j - 1 = j
      BY <1>3
  <2>. QED
      BY <1>3, <2>1, <2>2
<1>5. chunks' = [s EXCEPT ![k].used = marks[i].used]
    BY DEF Restore
<1>6. DOMAIN s = 1 .. k /\ k \in DOMAIN s /\ marks[i].used \in Nat
    BY <1>1, <1>3, <1>4, Elements DEF MarkType
<1>. HIDE DEF k, s
<1>7. /\ chunks' \in Seq(Chunk) /\ DOMAIN chunks' = DOMAIN s
      /\ \A j \in DOMAIN s :
            /\ chunks'[j].at = s[j].at /\ chunks'[j].cap = s[j].cap
            /\ chunks'[j].used = IF j = k THEN marks[i].used ELSE s[j].used
    BY <1>4, <1>5, <1>6, UsedSet
<1>. QED
    BY <1>2, <1>3, <1>4, <1>6, <1>7 DEF k

LEMMA MarkFacts ==
    ASSUME ArenaInv
    PROVE  /\ DOMAIN marks = 1 .. Len(marks) /\ Len(marks) \in Nat
           /\ \A i \in DOMAIN marks :
                 /\ marks[i] \in MarkType
                 /\ marks[i].chunk \in Nat /\ marks[i].used \in Nat /\ marks[i].kept \subseteq Block
                 /\ marks[i].chunk \in DOMAIN chunks
<1>1. marks \in Seq(MarkType)
    BY DEF ArenaInv, MarksInv
<1>2. /\ DOMAIN marks = 1 .. Len(marks) /\ Len(marks) \in Nat
      /\ \A i \in DOMAIN marks : marks[i] \in MarkType
    BY <1>1, Elements
<1>. QED
    BY <1>2 DEF MarkType, ArenaInv, MarksInv

LEMMA RestoreKeepsInv ==
    ASSUME ArenaInv, NEW i \in DOMAIN marks, Restore(i)
    PROVE  ArenaInv'
<1> DEFINE k == marks[i].chunk
<1>1. /\ chunks' \in Seq(Chunk) /\ DOMAIN chunks' = 1 .. k /\ k \in DOMAIN chunks /\ k \in Nat
      /\ \A j \in DOMAIN chunks' :
            /\ j \in DOMAIN chunks
            /\ chunks'[j].at = chunks[j].at /\ chunks'[j].cap = chunks[j].cap
            /\ chunks'[j].used = IF j = k THEN marks[i].used ELSE chunks[j].used
    BY RestoredChunks, MarkFacts
<1>2. blocks' = marks[i].kept /\ marks' = SubSeq(marks, 1, i - 1)
    BY DEF Restore
<1>3. marks[i].used \in Nat /\ marks[i].used <= chunks[k].used /\ marks[i].kept \subseteq Block
    BY MarkFacts DEF ArenaInv, MarksInv
<1>4. \A j \in DOMAIN chunks' : DataOf(chunks'[j]) = DataOf(chunks[j]) /\ EndOf(chunks'[j]) = EndOf(chunks[j])
    BY <1>1 DEF DataOf, EndOf
<1>. HIDE DEF k
<1>5. ChunksInv'
  <2>1. ASSUME NEW j \in DOMAIN chunks'
        PROVE  chunks'[j].used <= chunks'[j].cap
    <3>1. /\ j \in DOMAIN chunks /\ chunks[j].used \in Nat /\ chunks[j].cap \in Nat
          /\ chunks[j].used <= chunks[j].cap
        BY <1>1, ChunkNumbers DEF ArenaInv, ChunksInv
    <3>. QED
        BY <1>1, <1>3, <3>1
  <2>2. \A j, q \in DOMAIN chunks' : j # q => Disjoint(chunks'[j], chunks'[q])
      BY <1>1, <1>4 DEF ArenaInv, ChunksInv, Disjoint
  <2>. QED
      BY <1>1, <2>1, <2>2 DEF ChunksInv
<1>6. BlocksInv'
  <2>1. ASSUME NEW b \in blocks'
        PROVE  \E q \in DOMAIN chunks' : Inside(b, chunks'[q])
    <3>1. PICK q \in 1 .. k :
            /\ DataOf(chunks[q]) <= b.at
            /\ b.at + b.size <= DataOf(chunks[q]) + (IF q = k THEN marks[i].used ELSE chunks[q].used)
        BY <1>2 DEF ArenaInv, MarksInv, Below, k
    <3>2. q \in DOMAIN chunks'
        BY <1>1
    <3>. QED
        BY <1>1, <1>4, <3>1, <3>2 DEF Inside
  <2>. QED
      BY <1>2, <1>3, <2>1 DEF ArenaInv, MarksInv, BlocksInv
<1>7. /\ marks' \in Seq(MarkType) /\ DOMAIN marks' = 1 .. i - 1
      /\ \A j \in DOMAIN marks' : j \in DOMAIN marks /\ marks'[j] = marks[j] /\ j < i
  <2>1. i \in Nat
      BY MarkFacts
  <2>. QED
      BY <1>2, <2>1, EarlierMarks DEF ArenaInv
<1>8. ASSUME NEW j \in DOMAIN marks'
      PROVE  /\ marks[j].chunk \in DOMAIN chunks'
             /\ marks[j].used <= chunks'[marks[j].chunk].used
             /\ \A b \in marks[j].kept : Below(b, marks[j].chunk, marks[j].used)'
  <2> DEFINE kj == marks[j].chunk
             uj == marks[j].used
  <2>1. /\ j \in DOMAIN marks /\ j < i /\ marks'[j] = marks[j]
        /\ kj \in DOMAIN chunks /\ kj \in Nat /\ uj \in Nat
        /\ kj < k \/ (kj = k /\ uj <= marks[i].used)
      BY <1>7, MarkFacts DEF ArenaInv, MarksInv, k
  <2>2. kj \in DOMAIN chunks'
    <3>1. kj >= 1
        BY <2>1, ChunkNumbers DEF ArenaInv
    <3>. QED
        BY <1>1, <2>1, <3>1
  <2>3. uj <= chunks[kj].used
      BY <2>1 DEF ArenaInv, MarksInv
  <2>4. \A b \in marks[j].kept : Below(b, kj, uj)
      BY <2>1 DEF ArenaInv, MarksInv
  <2>. HIDE DEF kj, uj
  <2>5. uj <= chunks'[kj].used
      BY <1>1, <1>3, <2>1, <2>2, <2>3
  <2>6. ASSUME NEW b \in marks[j].kept
        PROVE  \E q \in 1 .. kj :
                  /\ DataOf(chunks'[q]) <= b.at
                  /\ b.at + b.size <= DataOf(chunks'[q]) + (IF q = kj THEN uj ELSE chunks'[q].used)
    <3>1. PICK q \in 1 .. kj :
            /\ DataOf(chunks[q]) <= b.at
            /\ b.at + b.size <= DataOf(chunks[q]) + (IF q = kj THEN uj ELSE chunks[q].used)
        BY <2>4 DEF Below
    <3>2. q \in DOMAIN chunks' /\ (q # kj => q # k)
        BY <1>1, <2>1
    <3>. QED
        BY <1>1, <1>4, <3>1, <3>2
  <2>7. \A b \in marks[j].kept : Below(b, kj, uj)'
      BY <2>1, <2>6 DEF Below, kj, uj
  <2>. QED
      BY <2>1, <2>2, <2>5, <2>7 DEF kj, uj
<1>9. MarksInv'
  <2>1. \A j, q \in DOMAIN marks' : j < q =>
          \/ marks'[j].chunk < marks'[q].chunk
          \/ marks'[j].chunk = marks'[q].chunk /\ marks'[j].used <= marks'[q].used
      BY <1>7 DEF ArenaInv, MarksInv
  <2>2. \A j \in DOMAIN marks' : \A a, b \in marks'[j].kept : a # b => Promise!Apart(a, b)
      BY <1>7 DEF ArenaInv, MarksInv
  <2>. QED
      BY <1>7, <1>8, <2>1, <2>2 DEF MarksInv
<1>. QED
    BY <1>5, <1>6, <1>9 DEF ArenaInv

LEMMA MarkKeepsInv ==
    ASSUME ArenaInv, Mark
    PROVE  ArenaInv'
<1> DEFINE n == Len(chunks)
           m == [chunk |-> n, used |-> Curr.used, kept |-> blocks]
<1>1. chunks # << >> /\ marks' = Append(marks, m) /\ UNCHANGED <<chunks, blocks>>
    BY DEF Mark
<1>2. n \in DOMAIN chunks /\ DOMAIN chunks = 1 .. n /\ n \in Nat /\ Curr = chunks[n] /\ Curr.used \in Nat
  <2>1. chunks \in Seq(Chunk)
      BY DEF ArenaInv, ChunksInv
  <2>. QED
      BY <1>1, <2>1, ChunkNumbers DEF ArenaInv, Curr
<1>3. m \in MarkType /\ m.chunk = n /\ m.used = Curr.used /\ m.kept = blocks
    BY <1>2 DEF MarkType, ArenaInv, BlocksInv
<1>4. marks \in Seq(MarkType)
    BY DEF ArenaInv, MarksInv
<1>. HIDE DEF m
<1>5. /\ marks' \in Seq(MarkType) /\ DOMAIN marks' = 1 .. Len(marks) + 1
      /\ DOMAIN marks = 1 .. Len(marks) /\ Len(marks) \in Nat
      /\ \A i \in DOMAIN marks : marks'[i] = marks[i]
      /\ marks'[Len(marks) + 1] = m
    BY <1>1, <1>3, <1>4, Appended, Elements
<1>6. \A i \in DOMAIN marks' : i \in DOMAIN marks \/ i = Len(marks) + 1
    BY <1>5
<1>7. ASSUME NEW b \in blocks
      PROVE  Below(b, n, Curr.used)
  <2>1. PICK q \in DOMAIN chunks : Inside(b, chunks[q])
      BY DEF ArenaInv, BlocksInv
  <2>. QED
      BY <1>2, <2>1 DEF Inside, Below
<1>8. ASSUME NEW i \in DOMAIN marks'
      PROVE  /\ marks'[i].chunk \in DOMAIN chunks
             /\ marks'[i].used <= chunks[marks'[i].chunk].used
             /\ \A b \in marks'[i].kept : Below(b, marks'[i].chunk, marks'[i].used)
             /\ \A a, b \in marks'[i].kept : a # b => Promise!Apart(a, b)
  <2>1. CASE i \in DOMAIN marks
      BY <1>5, <2>1 DEF ArenaInv, MarksInv
  <2>2. CASE i = Len(marks) + 1
      BY <1>2, <1>3, <1>5, <1>7, <2>2 DEF ArenaInv, BlocksInv
  <2>. QED
      BY <1>6, <2>1, <2>2
<1>9. ASSUME NEW i \in DOMAIN marks', NEW j \in DOMAIN marks', i < j
      PROVE  \/ marks'[i].chunk < marks'[j].chunk
             \/ marks'[i].chunk = marks'[j].chunk /\ marks'[i].used <= marks'[j].used
  <2>1. i \in DOMAIN marks
      BY <1>5, <1>9
  <2>2. CASE j \in DOMAIN marks
      BY <1>5, <1>9, <2>1, <2>2 DEF ArenaInv, MarksInv
  <2>3. CASE j = Len(marks) + 1
    <3>1. marks[i].chunk \in DOMAIN chunks /\ marks[i].used <= chunks[marks[i].chunk].used
        BY <2>1 DEF ArenaInv, MarksInv
    <3>. QED
        BY <1>2, <1>3, <1>5, <2>1, <2>3, <3>1
  <2>. QED
      BY <1>6, <2>2, <2>3
<1>10. MarksInv'
    BY <1>1, <1>5, <1>8, <1>9 DEF MarksInv, Below
<1>11. ChunksInv' /\ BlocksInv'
    BY <1>1 DEF ArenaInv, ChunksInv, BlocksInv
<1>. QED
    BY <1>10, <1>11 DEF ArenaInv

LEMMA InitArena == Init => ArenaInv
<1> SUFFICES ASSUME Init PROVE ArenaInv
    OBVIOUS
<1>1. PICK at \in Places : chunks = <<[at |-> at, cap |-> Greater(ChunkSize, DefaultCap), used |-> 0]>>
    BY DEF Init
<1>2. Greater(ChunkSize, DefaultCap) \in Nat
    BY Constants DEF Greater
<1>3. chunks \in Seq(Chunk) /\ DOMAIN chunks = {1} /\ chunks[1].used = 0 /\ chunks[1].cap \in Nat
    BY <1>1, <1>2 DEF Chunk
<1>4. blocks = {} /\ marks = << >>
    BY DEF Init
<1>5. ChunksInv
    BY <1>3 DEF ChunksInv
<1>. QED
    BY <1>4, <1>5 DEF ArenaInv, BlocksInv, MarksInv

LEMMA DestroyKeepsInv ==
    ASSUME Destroy
    PROVE  ArenaInv'
BY DEF Destroy, ArenaInv, ChunksInv, BlocksInv, MarksInv

LEMMA NextArena ==
    ASSUME ArenaInv, [Next]_vars
    PROVE  ArenaInv'
<1>1. CASE UNCHANGED vars
    BY <1>1 DEF vars, ArenaInv, ChunksInv, BlocksInv, MarksInv, Below
<1>2. ASSUME NEW size \in Sizes, NEW align \in Aligns,
             AllocHere(size, align) \/ AllocInNewChunk(size, align)
      PROVE  ArenaInv'
    BY <1>2, AllocHereStep, AllocInNewChunkStep
<1>3. ASSUME NEW i \in DOMAIN marks, Restore(i)
      PROVE  ArenaInv'
    BY <1>3, RestoreKeepsInv
<1>. QED
    BY <1>1, <1>2, <1>3, MarkKeepsInv, DestroyKeepsInv DEF Next

(* No block a client holds is outside the chunks that are mapped, whatever *)
(* it asks for, marks and restores.                                        *)
THEOREM BlocksCorrect == Spec => []BlocksInChunks
<1>1. Init => ArenaInv
    BY InitArena
<1>2. ArenaInv /\ [Next]_vars => ArenaInv'
    BY NextArena
<1>3. ArenaInv => BlocksInChunks
    BY DEF ArenaInv, ChunksInv, BlocksInv, BlocksInChunks
<1>. QED
    BY <1>1, <1>2, <1>3, PTL DEF Spec

(* The state of the arena keeps its types: a mark points into the used     *)
(* part of a chunk that is still mapped.                                   *)
THEOREM ArenaTypes == Spec => []TypeOK
<1>1. Init => ArenaInv
    BY InitArena
<1>2. ArenaInv /\ [Next]_vars => ArenaInv'
    BY NextArena
<1>3. ArenaInv => TypeOK
  <2> SUFFICES ASSUME ArenaInv PROVE TypeOK
      OBVIOUS
  <2>1. \A i \in DOMAIN marks : marks[i].used \in Nat
      BY MarkFacts
  <2>. QED
      BY <2>1 DEF TypeOK, ArenaInv, ChunksInv, BlocksInv, MarksInv
<1>. QED
    BY <1>1, <1>2, <1>3, PTL DEF Spec

-----------------------------------------------------------------------------
(* The arena implements Allocator.                                         *)

Kept(ms) == [i \in DOMAIN ms |-> ms[i].kept]

LEMMA KeptSeq ==
    ASSUME NEW ms \in Seq(MarkType)
    PROVE  Kept(ms) \in Seq(SUBSET Block) /\ Len(Kept(ms)) = Len(ms) /\ DOMAIN Kept(ms) = DOMAIN ms
<1>1. DOMAIN ms = 1 .. Len(ms) /\ Len(ms) \in Nat /\ \A i \in DOMAIN ms : ms[i].kept \in SUBSET Block
  <2>1. DOMAIN ms = 1 .. Len(ms) /\ Len(ms) \in Nat
      OBVIOUS
  <2>2. \A i \in DOMAIN ms : ms[i] \in MarkType
      OBVIOUS
  <2>. QED
      BY <2>1, <2>2 DEF MarkType
<1>2. Kept(ms) \in [1 .. Len(ms) -> SUBSET Block]
    BY <1>1 DEF Kept
<1>. QED
    BY <1>1, <1>2

LEMMA MarkImplements ==
    ASSUME ArenaInv, Mark
    PROVE  Promise!Mark
<1> DEFINE m == [chunk |-> Len(chunks), used |-> Curr.used, kept |-> blocks]
<1>1. marks' = Append(marks, m) /\ UNCHANGED blocks
    BY DEF Mark
<1>2. m \in MarkType /\ m.kept = blocks
  <2>1. chunks \in Seq(Chunk) /\ chunks # << >>
      BY DEF ArenaInv, ChunksInv, Mark
  <2>2. Len(chunks) \in DOMAIN chunks /\ Len(chunks) \in Nat
      BY <2>1
  <2>. QED
      BY <2>2, ChunkNumbers DEF MarkType, ArenaInv, BlocksInv, Curr
<1>3. marks \in Seq(MarkType) /\ marks' \in Seq(MarkType)
    BY <1>1, <1>2 DEF ArenaInv, MarksInv
<1>. HIDE DEF m
<1>4. Kept(marks') = Append(Kept(marks), blocks)
  <2>1. /\ Kept(marks) \in Seq(SUBSET Block) /\ Len(Kept(marks)) = Len(marks) /\ DOMAIN Kept(marks) = DOMAIN marks
        /\ Kept(marks') \in Seq(SUBSET Block) /\ Len(Kept(marks')) = Len(marks')
        /\ DOMAIN Kept(marks') = DOMAIN marks'
      BY <1>3, KeptSeq
  <2>2. blocks \in SUBSET Block
      BY DEF ArenaInv, BlocksInv
  <2>3. /\ Append(Kept(marks), blocks) \in Seq(SUBSET Block)
        /\ Len(Append(Kept(marks), blocks)) = Len(marks) + 1
        /\ \A i \in DOMAIN marks : Append(Kept(marks), blocks)[i] = Kept(marks)[i]
        /\ Append(Kept(marks), blocks)[Len(marks) + 1] = blocks
      BY <2>1, <2>2, Appended
  <2>4. /\ Len(marks') = Len(marks) + 1 /\ DOMAIN marks = 1 .. Len(marks) /\ Len(marks) \in Nat
        /\ DOMAIN marks' = 1 .. Len(marks) + 1
        /\ \A i \in DOMAIN marks : marks'[i] = marks[i]
        /\ marks'[Len(marks) + 1] = m
      BY <1>1, <1>2, <1>3, Appended, Elements
  <2>5. ASSUME NEW i \in 1 .. Len(marks')
        PROVE  Kept(marks')[i] = Append(Kept(marks), blocks)[i]
    <3>. i \in DOMAIN marks' /\ Kept(marks')[i] = marks'[i].kept
        BY <2>4 DEF Kept
    <3>1. CASE i \in DOMAIN marks
      <4>1. Kept(marks)[i] = marks[i].kept
          BY <3>1 DEF Kept
      <4>. QED
          BY <2>3, <2>4, <3>1, <4>1
    <3>2. CASE i = Len(marks) + 1
        BY <1>2, <2>3, <2>4, <3>2
    <3>3. i \in DOMAIN marks \/ i = Len(marks) + 1
      <4>1. i \in 1 .. Len(marks) + 1 /\ Len(marks) \in Nat /\ DOMAIN marks = 1 .. Len(marks)
          BY <2>4
      <4>. QED
          BY <4>1
    <3>. QED
        BY <3>1, <3>2, <3>3
  <2>. QED
      BY <2>1, <2>3, <2>4, <2>5, SeqEqual
<1>. QED
    BY <1>1, <1>4 DEF Promise!Mark, Kept

LEMMA RestoreImplements ==
    ASSUME ArenaInv, NEW i \in DOMAIN marks, Restore(i)
    PROVE  Promise!Restore(i)
<1>1. marks' = SubSeq(marks, 1, i - 1) /\ blocks' = marks[i].kept
    BY DEF Restore
<1>2. /\ marks' \in Seq(MarkType) /\ DOMAIN marks' = 1 .. i - 1 /\ Len(marks') = i - 1
      /\ \A j \in 1 .. i - 1 : j \in DOMAIN marks /\ marks'[j] = marks[j]
    BY <1>1, EarlierMarks DEF ArenaInv
<1>3. marks \in Seq(MarkType) /\ i \in Nat /\ i >= 1
    BY MarkFacts DEF ArenaInv, MarksInv
<1>4. Kept(marks') = SubSeq(Kept(marks), 1, i - 1)
  <2>1. /\ Kept(marks) \in Seq(SUBSET Block) /\ DOMAIN Kept(marks) = DOMAIN marks
        /\ Kept(marks') \in Seq(SUBSET Block) /\ Len(Kept(marks')) = i - 1
        /\ \A j \in 1 .. i - 1 : Kept(marks)[j] \in SUBSET Block
    <3>1. /\ Kept(marks) \in Seq(SUBSET Block) /\ DOMAIN Kept(marks) = DOMAIN marks
          /\ Kept(marks') \in Seq(SUBSET Block) /\ Len(Kept(marks')) = Len(marks')
        BY <1>2, <1>3, KeptSeq
    <3>. QED
        BY <1>2, <3>1, Elements
  <2>2. /\ SubSeq(Kept(marks), 1, i - 1) \in Seq(SUBSET Block)
        /\ Len(SubSeq(Kept(marks), 1, i - 1)) = i - 1
        /\ \A j \in 1 .. i - 1 : SubSeq(Kept(marks), 1, i - 1)[j] = Kept(marks)[j]
    <3>1. /\ SubSeq(Kept(marks), 1, i - 1) \in Seq(SUBSET Block)
          /\ Len(SubSeq(Kept(marks), 1, i - 1)) = IF 1 <= i - 1 THEN (i - 1) - 1 + 1 ELSE 0
          /\ \A j \in 1 .. (i - 1) - 1 + 1 : SubSeq(Kept(marks), 1, i - 1)[j] = Kept(marks)[1 + j - 1]
        BY <1>3, <2>1, SubSeqProperties
    <3>2. (i - 1) - 1 + 1 = i - 1 /\ \A j \in 1 .. i - 1 : 1 + j - 1 = j
        BY <1>3
    <3>. QED
        BY <1>3, <3>1, <3>2
  <2>3. \A j \in 1 .. i - 1 : Kept(marks')[j] = Kept(marks)[j]
      BY <1>2 DEF Kept
  <2>. QED
      BY <2>1, <2>2, <2>3, SeqEqual
<1>5. blocks' = Kept(marks)[i]
    BY <1>1 DEF Kept
<1>. QED
    BY <1>4, <1>5 DEF Promise!Restore, Kept

LEMMA StepImplements ==
    ASSUME ArenaInv, [Next]_vars
    PROVE  [Promise!Next]_Promise!vars
<1>1. CASE UNCHANGED vars
    BY <1>1 DEF vars, Promise!vars
<1>2. ASSUME NEW size \in Sizes, NEW align \in Aligns,
             AllocHere(size, align) \/ AllocInNewChunk(size, align)
      PROVE  Promise!Next
  <2>1. \E b \in blocks' : b \notin blocks /\ Promise!Grant(b)
      BY <1>2, AllocHereStep, AllocInNewChunkStep
  <2>. QED
      BY <2>1 DEF Promise!Next
<1>3. CASE Mark
    BY <1>3, MarkImplements DEF Promise!Next
<1>4. ASSUME NEW i \in DOMAIN marks, Restore(i)
      PROVE  Promise!Next
  <2>1. Promise!Restore(i)
      BY <1>4, RestoreImplements
  <2>. QED
      BY <2>1 DEF Promise!Next
<1>5. CASE Destroy
    BY <1>5 DEF Destroy, Promise!Next, Promise!Destroy
<1>. QED
    BY <1>1, <1>2, <1>3, <1>4, <1>5 DEF Next

(* Every behaviour of the arena is one Allocator allows: blocks aligned as *)
(* asked and never overlapping, and a restored mark giving up exactly the  *)
(* blocks handed out after it.                                             *)
THEOREM ArenaKeepsPromise == Spec => KeepsPromise
<1>1. Init => ArenaInv /\ Promise!Init
    BY InitArena DEF Init, Promise!Init
<1>2. ArenaInv /\ [Next]_vars => ArenaInv' /\ [Promise!Next]_Promise!vars
    BY NextArena, StepImplements
<1>. QED
    BY <1>1, <1>2, PTL DEF Spec, KeepsPromise, Promise!Spec
=============================================================================
