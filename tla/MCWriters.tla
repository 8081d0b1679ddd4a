----------------------------- MODULE MCWriters -----------------------------
(* The lengths of the names for TLC. *)
EXTENDS Writers
Lens == [n \in Names |-> CASE n = "f" -> 1 [] n = "main" -> 4 [] n = "fibonacci_iterative" -> 19
                           [] n = "puts" -> 4 [] OTHER -> 6]
=============================================================================
