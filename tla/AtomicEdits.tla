---------------------------- MODULE AtomicEdits ------------------------------
(***************************************************************************)
(* What the Store promises whoever edits a profile or an instance: an edit *)
(* happens at once and completely, or not at all.  When it happens, every  *)
(* instance whose runtime configuration it changes, and no other, gets a   *)
(* ConfigUpdatedAt later than all there were.                              *)
(***************************************************************************)
EXTENDS Naturals

CONSTANTS Instances

VARIABLES
  text,       \* the shared config.yaml
  url,        \* the URL the profile is subscribed to
  setting,    \* the fields of each instance that its configuration depends on
  updatedAt   \* ConfigUpdatedAt of each instance

Init == updatedAt = [i \in Instances |-> 0]

Later(t) == \A i \in Instances : updatedAt[i] < t

Affected(i) == text' # text \/ setting'[i] # setting[i]

Edit ==
  \A i \in Instances :
    IF Affected(i) THEN Later(updatedAt'[i]) ELSE updatedAt'[i] = updatedAt[i]

Spec == Init /\ [][Edit]_<<text, url, setting, updatedAt>>
=============================================================================
