----------------------------- MODULE Allocator -----------------------------
(***************************************************************************)
(* What an arena (include/core/arena.h) promises its clients: a block it   *)
(* hands out is aligned as asked, overlaps no block handed out before and  *)
(* stays the client's own, until a mark taken earlier is restored, which   *)
(* gives up exactly the blocks handed out since, or the arena is           *)
(* destroyed, which gives up all of them.                                  *)
(***************************************************************************)
EXTENDS Integers, Sequences

VARIABLES
    blocks,  \* the blocks of the client: address, size and alignment
    marks    \* for each mark, oldest first, the blocks there were

vars == <<blocks, marks>>

Apart(a, b) == a.at + a.size <= b.at \/ b.at + b.size <= a.at

Init == blocks = {} /\ marks = << >>

Grant(b) ==
    /\ b.at % b.align = 0
    /\ \A a \in blocks : Apart(a, b)
    /\ blocks' = blocks \cup {b}
    /\ UNCHANGED marks

Mark ==
    /\ marks' = Append(marks, blocks)
    /\ UNCHANGED blocks

Restore(i) ==
    /\ blocks' = marks[i]
    /\ marks' = SubSeq(marks, 1, i - 1)

Destroy == blocks' = {} /\ marks' = << >>

Next ==
    \/ \E b \in blocks' : b \notin blocks /\ Grant(b)
    \/ Mark
    \/ \E i \in DOMAIN marks : Restore(i)
    \/ Destroy

Spec == Init /\ [][Next]_vars
=============================================================================
