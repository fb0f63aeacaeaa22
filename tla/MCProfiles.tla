------------------------------ MODULE MCProfiles -----------------------------
(* Profiles on small instances.                                            *)
EXTENDS Profiles, TLC

Symmetry == Permutations(Writers) \cup Permutations(URLs)
              \cup Permutations(Contents) \cup Permutations(Settings)
=============================================================================
