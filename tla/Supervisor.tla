----------------------------- MODULE Supervisor ------------------------------
(***************************************************************************)
(* What Manager promises its callers, with none of the locks, attempts and *)
(* backoffs it uses to keep the promise: an instance has at most one mihomo*)
(* process, a process is launched only while no core binary is being       *)
(* swapped, and a swap begins only when nothing runs.                      *)
(***************************************************************************)
CONSTANTS Ids, Procs

VARIABLES
  running,   \* the pairs <<process, instance>> of the processes that exist
  swapping   \* is the mihomo core binary being replaced?

Init == running = {} /\ swapping = FALSE

Launch(p, i) ==
  /\ ~swapping
  /\ \A r \in running : r[1] # p /\ r[2] # i
  /\ running' = running \cup {<<p, i>>}
  /\ UNCHANGED swapping

Exit(r) ==
  /\ running' = running \ {r}
  /\ UNCHANGED swapping

BeginSwap ==
  /\ running = {} /\ ~swapping
  /\ swapping' = TRUE
  /\ UNCHANGED running

EndSwap ==
  /\ swapping' = FALSE
  /\ UNCHANGED running

Next ==
  \/ \E p \in Procs, i \in Ids : Launch(p, i)
  \/ \E r \in running : Exit(r)
  \/ BeginSwap
  \/ EndSwap

Spec == Init /\ [][Next]_<<running, swapping>>
=============================================================================
