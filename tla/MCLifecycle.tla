----------------------------- MODULE MCLifecycle -----------------------------
(* Lifecycle on small instances.                                           *)
EXTENDS Lifecycle, TLC

Symmetry == Permutations(Requests) \cup Permutations(Backoffs) \cup Permutations(Procs)
              \cup Permutations(Ids) \cup Permutations(Ports)
=============================================================================
