---------------------------- MODULE MCWireStorm ----------------------------
(* Instances of WireStorm for TLC. *)
EXTENDS WireStorm, TLC

\* Connections are told apart only by equality.
Symmetry == Permutations(Clients)
=============================================================================
