---------------------------- MODULE MCWorkerPool ----------------------------
(* Instances of WorkerPool for TLC. *)
EXTENDS WorkerPool, TLC

\* Connections and clock values are told apart only by equality.
Symmetry == Permutations(Clients) \cup Permutations(Stamps)
=============================================================================
