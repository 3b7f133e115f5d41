------------------------------ MODULE Buffers ------------------------------
(***************************************************************************)
(* The messages of the acceptance tests (wire-storm-reloaded, buffers.py): *)
(* what getb() yields for each of the encoded constants, byte for byte.    *)
(***************************************************************************)
EXTENDS Ctmp

\* n times the letter "a"
As(n) == [i \in 1 .. n |-> 97]

\* "example data to be transmitted"
t_small ==
    [header |-> <<204, 64, 0, 30, 183, 25, 0, 0>>,
     data |-> <<101, 120, 97, 109, 112, 108, 101, 32, 100, 97, 116, 97, 32,
                116, 111, 32, 98, 101, 32,
                116, 114, 97, 110, 115, 109, 105, 116, 116, 101, 100>>]

t_basic ==
    [header |-> <<204, 64, 0, 50, 228, 61, 0, 0>>, data |-> As(50)]

t_basic_no_checksum ==
    [header |-> <<204, 0, 0, 50, 0, 0, 0, 0>>, data |-> As(50)]

t_invalid_checksum ==
    [header |-> <<204, 64, 0, 50, 0, 0, 0, 0>>, data |-> As(50)]

t_invalid_header ==
    [header |-> <<255, 64, 0, 50, 228, 61, 0, 0>>, data |-> As(50)]

t_large ==
    [header |-> <<204, 64, 253, 232, 170, 74, 0, 0>>, data |-> As(65000)]
=============================================================================
