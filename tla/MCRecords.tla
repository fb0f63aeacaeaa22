------------------------------ MODULE MCRecords ------------------------------
(* Records on small instances.                                             *)
EXTENDS Records

(* Two instances that share a profile; and one that refers to no profile.  *)
OneProfile ==
  {[profiles |-> 1, uses |-> <<1, 1>>], [profiles |-> 1, uses |-> <<2>>]}

(* At most one record at a time keeps what a save refused.                 *)
MaxUnsaved == 1
FewUnsaved == Cardinality(unsaved) <= MaxUnsaved

Symmetry == Permutations(Ids) \cup Permutations(Profiles) \cup Permutations(Ports)
=============================================================================
