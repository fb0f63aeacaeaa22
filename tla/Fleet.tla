-------------------------------- MODULE Fleet ---------------------------------
(***************************************************************************)
(* What the Store promises about its records: they change by one whole     *)
(* operation at a time, no instance loses its profile, and no port is      *)
(* given twice.  Records implements it, with files, failures and crashes.  *)
(***************************************************************************)
CONSTANTS Ids, Profiles, Ports, None

VARIABLES
  items,     \* the instances: what each is made of, or None
  profiles   \* the ids of the profiles

fleet == <<items, profiles>>

Items == [profile : Profiles, mixed : Ports, controller : Ports]

Init ==
  /\ items = [i \in Ids |-> None]
  /\ profiles = {}

(* No port of x is one of another instance's, nor twice its own.           *)
Fits(i, x) ==
  /\ x.mixed # x.controller
  /\ \A j \in Ids \ {i} : items[j] # None =>
       {x.mixed, x.controller} \cap {items[j].mixed, items[j].controller} = {}

(* An instance is created, perhaps with its profile, or changed.           *)
Put(i) ==
  \E x \in Items :
    /\ Fits(i, x)
    /\ items' = [items EXCEPT ![i] = x]
    /\ profiles' \in {profiles, profiles \cup {x.profile}}
    /\ x.profile \in profiles'

Remove(i) ==
  /\ items' = [items EXCEPT ![i] = None]
  /\ UNCHANGED profiles

AddProfile(p) ==
  /\ profiles' = profiles \cup {p}
  /\ UNCHANGED items

RemoveProfile(p) ==
  /\ \A i \in Ids : items[i] # None => items[i].profile # p
  /\ profiles' = profiles \ {p}
  /\ UNCHANGED items

Next ==
  \/ \E i \in Ids : Put(i) \/ Remove(i)
  \/ \E p \in Profiles : AddProfile(p) \/ RemoveProfile(p)

Spec == Init /\ [][Next]_fleet
=============================================================================
