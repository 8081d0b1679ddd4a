------------------------------- MODULE MCX64 -------------------------------
(* X64 with immediates at the boundaries of the three forms of MOV. *)
EXTENDS X64

MCDisps == {-32769, -129, -128, -1, 0, 1, 127, 128, 100000}

MCWides == {Extend(Le(v, 4), 8) : v \in {-2147483647, -129, 0, 200, 2147483647}}
           \cup {<<0, 0, 0, 128, 0, 0, 0, 0>>, <<0, 0, 0, 0, 1, 0, 0, 0>>,
                 <<255, 255, 255, 127, 255, 255, 255, 255>>}

=============================================================================
