------------------------------- MODULE Arena -------------------------------
(***************************************************************************)
(* The arena allocator of include/core/arena.h: a list of mapped chunks,   *)
(* blocks cut from the newest one.                                         *)
(*                                                                         *)
(* A chunk is mapped wherever the system finds room, which is external and *)
(* any free range of addresses here, or not at all.  Addresses are byte    *)
(* numbers.  total_allocated, which nothing reads, is left out.            *)
(***************************************************************************)
EXTENDS Integers, Sequences, FiniteSets

CONSTANTS
    Places,      \* the addresses a mapping may get
    Header,      \* sizeof(ArenaChunk)
    DefaultCap,  \* ARENA_DEFAULT_CHUNK
    ChunkSize,   \* Arena.chunk_size, the argument of arena_init
    Sizes,       \* bound: sizes asked for
    Aligns,      \* bound: alignments asked for
    MaxChunks,   \* bound: chunks mapped at once
    MaxBlocks,   \* bound: blocks live at once
    MaxMarks     \* bound: marks outstanding

ASSUME ArenaAssumption ==
    /\ Places \subseteq Nat
    /\ {Header, DefaultCap, ChunkSize, MaxChunks, MaxBlocks, MaxMarks} \subseteq Nat
    /\ Sizes \subseteq Nat \ {0} /\ Aligns \subseteq Nat \ {0}

VARIABLES
    chunks,  \* the chunks from the oldest to Arena.curr
    blocks,  \* the blocks handed out and not given up
    marks    \* ArenaMarks of the client, oldest first

vars == <<chunks, blocks, marks>>

Greater(a, b) == IF a < b THEN b ELSE a
Curr == chunks[Len(chunks)]

(* Where the data of a chunk begins, and where its mapping ends. *)
DataOf(c) == c.at + Header
EndOf(c) == DataOf(c) + c.cap

(* Mutant of NewCap: no room for the padding. *)
NewCapTight(size, align) == Greater(Greater(size, ChunkSize), DefaultCap)

(* arena_alloc_aligned's request, and arena_chunk_new's minimum. *)
NewCap(size, align) == Greater(Greater(size + align, ChunkSize), DefaultCap)

(* mmap: external. *)
Mapped(c) ==
    /\ c.at \in Places
    /\ \A i \in DOMAIN chunks : EndOf(chunks[i]) <= c.at \/ EndOf(c) <= chunks[i].at

(* -base & (align - 1), for an align that is a power of two *)
Pad(base, align) == (align - (base % align)) % align

(* The block cut from chunk c. *)
Cut(c, size, align) ==
    LET base == DataOf(c) + c.used
    IN  [at |-> base + Pad(base, align), size |-> size, align |-> align]

(* Mutant of Used: the padding in front of the block is not counted. *)
UsedUnpadded(c, b) == c.used + b.size

(* ArenaChunk.used once block b is cut from c. *)
Used(c, b) == b.at + b.size - DataOf(c)

-----------------------------------------------------------------------------
(* arena_init *)
Init ==
    /\ \E at \in Places :
           chunks = <<[at |-> at, cap |-> Greater(ChunkSize, DefaultCap), used |-> 0]>>
    /\ blocks = {} /\ marks = << >>

Handed(b) == blocks' = blocks \cup {b} /\ UNCHANGED marks

CanAlloc == chunks # << >> /\ Cardinality(blocks) < MaxBlocks

(* arena_alloc_aligned, when the block fits in the current chunk *)
AllocHere(size, align) ==
    /\ CanAlloc
    /\ LET b == Cut(Curr, size, align)
       IN  /\ Used(Curr, b) <= Curr.cap
           /\ chunks' = [chunks EXCEPT ![Len(chunks)].used = Used(Curr, b)]
           /\ Handed(b)

(* arena_alloc_aligned, when it does not: the rest of the chunk is given   *)
(* up and the block is cut from a new chunk, with no second test.  When    *)
(* the system has no room the client gets NULL and nothing changes.        *)
AllocInNewChunk(size, align) ==
    /\ CanAlloc /\ Len(chunks) < MaxChunks
    /\ Used(Curr, Cut(Curr, size, align)) > Curr.cap
    /\ \E at \in Places :
           LET c == [at |-> at, cap |-> NewCap(size, align), used |-> 0]
               b == Cut(c, size, align)
           IN  /\ Mapped(c)
               /\ chunks' = Append(chunks, [c EXCEPT !.used = Used(c, b)])
               /\ Handed(b)

(* arena_mark.  `kept` is the client's side of the mark. *)
Mark ==
    /\ chunks # << >> /\ Len(marks) < MaxMarks
    /\ marks' = Append(marks, [chunk |-> Len(chunks), used |-> Curr.used, kept |-> blocks])
    /\ UNCHANGED <<chunks, blocks>>

(* Mutant of Restore: the chunk of the mark is unmapped with the later ones. *)
RestoreUnmapsMarked(i) ==
    /\ chunks' = SubSeq(chunks, 1, marks[i].chunk - 1)
    /\ blocks' = marks[i].kept
    /\ marks' = SubSeq(marks, 1, i - 1)

(* arena_restore.  A client that restores a mark gives up the later ones,  *)
(* which may lie in chunks that are unmapped now.                          *)
Restore(i) ==
    /\ LET m == marks[i]
       IN  /\ chunks' = [SubSeq(chunks, 1, m.chunk) EXCEPT ![m.chunk].used = m.used]
           /\ blocks' = m.kept
    /\ marks' = SubSeq(marks, 1, i - 1)

(* arena_destroy *)
Destroy ==
    /\ chunks # << >>
    /\ chunks' = << >> /\ blocks' = {} /\ marks' = << >>

Next ==
    \/ \E size \in Sizes, align \in Aligns : AllocHere(size, align) \/ AllocInNewChunk(size, align)
    \/ Mark
    \/ \E i \in DOMAIN marks : Restore(i)
    \/ Destroy

Spec == Init /\ [][Next]_vars

-----------------------------------------------------------------------------
(* Properties.                                                             *)

Chunk == [at : Places, cap : Nat, used : Nat]
Block == [at : Nat, size : Sizes, align : Aligns]

(* The type invariant. *)
TypeOK ==
    /\ chunks \in Seq(Chunk)
    /\ \A b \in blocks : b \in Block
    /\ \A i \in DOMAIN marks :
           /\ marks[i].chunk \in DOMAIN chunks
           /\ marks[i].used \in Nat /\ marks[i].used <= chunks[marks[i].chunk].used

Inside(b, c) == DataOf(c) <= b.at /\ b.at + b.size <= DataOf(c) + c.used

(* Every block the client holds lies in a chunk that is still mapped, in   *)
(* the part of it that is in use, and no chunk is used beyond its          *)
(* capacity: the new chunk is always large enough for the block and its    *)
(* padding, and restoring a mark unmaps no chunk a kept block lies in.     *)
BlocksInChunks ==
    /\ \A i \in DOMAIN chunks : chunks[i].used <= chunks[i].cap
    /\ \A b \in blocks : \E i \in DOMAIN chunks : Inside(b, chunks[i])

(* The arena keeps the promise of Allocator: blocks are aligned and never  *)
(* overlap, and a mark gives up just the blocks handed out after it.       *)
Promise == INSTANCE Allocator WITH marks <- [i \in DOMAIN marks |-> marks[i].kept]
KeepsPromise == Promise!Spec
=============================================================================
