---------------------------- MODULE RecordsProofs -----------------------------
(***************************************************************************)
(* Proofs about Records, for any ids, profiles, ports and bundles.         *)
(***************************************************************************)
EXTENDS Records, TLAPS

-----------------------------------------------------------------------------
(* The inductive invariant: the records, then the import.                  *)

(* What an operation that has not been saved yet changed so far.           *)
Creating ==
  /\ op.do = "create"
  /\ op.profile \in Profiles
  /\ op.fresh => op.profile \notin op.before.profiles
  /\ op.id # None => /\ op.id \in Ids
                     /\ op.before.instances[op.id] = None
                     /\ op.item \in Items
                     /\ op.item.profile = op.profile

Filled(m) == op.id # None => /\ m.instances = [op.before.instances EXCEPT ![op.id] = op.item]
                             /\ op.id \in dirs

AtConfig ==
  /\ Creating /\ op.fresh
  /\ Memory = op.before

AtMkdir ==
  /\ Creating /\ op.id # None
  /\ instances = op.before.instances
  /\ profiles = op.before.profiles \cup OwnProfile
  /\ OwnProfile \subseteq configs
  /\ op.profile \in profiles

(* The ports an operation chose are free for as long as it runs.           *)
Roomy ==
  op.id # None /\ op.do = "create" =>
    /\ op.item.mixed # op.item.controller
    /\ \A j \in Owners(op.before) \ {op.id} :
         PortsOf(op.item) \cap PortsOf(op.before.instances[j]) = {}

SavesNew ==
  /\ Creating
  /\ IF op.id = None THEN op.fresh /\ instances = op.before.instances ELSE Filled(Memory)
  /\ profiles = op.before.profiles \cup OwnProfile
  /\ OwnProfile \subseteq configs

SavesChanged ==
  /\ op.id \in Owners(op.before) /\ op.id \in Owners(Memory)
  /\ profiles = op.before.profiles
  /\ \A j \in Ids \ {op.id} : instances[j] = op.before.instances[j]

SavesSelected ==
  /\ op.id \in Owners(op.before)
  /\ profiles = op.before.profiles
  /\ instances = [op.before.instances EXCEPT ![op.id].selection = Chosen]

SavesDeleted ==
  \/ /\ op.id \in Ids /\ op.profile = None
     /\ profiles = op.before.profiles
     /\ instances = [op.before.instances EXCEPT ![op.id] = None]
  \/ /\ op.id = None /\ op.profile \in Profiles
     /\ instances = op.before.instances
     /\ profiles = op.before.profiles \ {op.profile}

AtSave ==
  /\ op.do = "create" => SavesNew
  /\ op.do = "change" => SavesChanged
  /\ op.do = "select" => SavesSelected
  /\ op.do \in {"patch", "note"} => Memory = op.before
  /\ op.do = "note" => Target(op) \in Ids \cup Profiles
  /\ op.do = "delete" => SavesDeleted
  /\ op.do # "create" => ~op.fresh

AtRemove ==
  /\ op.do = "delete"
  /\ \/ op.id \in Ids /\ instances[op.id] = None /\ op.profile = None
     \/ op.id = None /\ op.profile \in Profiles \ profiles

OpOK ==
  op # None =>
    /\ op.at = "config" => AtConfig /\ Roomy
    /\ op.at = "mkdir" => AtMkdir /\ Roomy
    /\ op.at = "save" => AtSave
    /\ op.at = "remove" => AtRemove
    /\ op.at # "remove" => op.before \in Memories /\ Grounded(op.before) /\ Apart(op.before)

RecTypes ==
  /\ Memory \in Memories
  /\ saved \in Memories
  /\ dirs \subseteq Ids
  /\ configs \subseteq Profiles
  /\ op \in Ops \cup {None}
  /\ unsaved \subseteq Ids \cup Profiles

RecInv ==
  /\ RecTypes
  /\ OpOK
  /\ References
  /\ PortsDiffer
  /\ Matches(Visible)

-----------------------------------------------------------------------------
(* Operations begin: the records.                                          *)

LEMMA InitRec == Init => RecInv
<1> SUFFICES ASSUME Init PROVE RecInv
  OBVIOUS
<1>1. RecTypes
  BY DEF Init, RecTypes, Memory, Memories
<1>2. Owners(Memory) = {} /\ Owners(saved) = {} /\ saved.profiles = {}
  BY DEF Init, Memory, Owners
<1>3. References /\ PortsDiffer
  BY <1>2 DEF Init, References, PortsDiffer, Grounded, Apart
<1>4. OpOK
  BY DEF Init, OpOK
<1>5. Matches(Visible)
  BY DEF Init, Matches, Visible
<1> QED
  BY <1>1, <1>3, <1>4, <1>5 DEF RecInv

(* What an operation finds.                                                *)
LEMMA Found ==
  ASSUME RecInv, op = None
  PROVE  /\ Memory \in Memories /\ Grounded(Memory) /\ Apart(Memory) /\ Matches(Memory)
         /\ instances \in [Ids -> Items \cup {None}] /\ profiles \subseteq Profiles
BY DEF RecInv, RecTypes, References, PortsDiffer, Visible, Memory, Memories

(* The request as the operations fill it in.                               *)
Requests == [do : {"create", "change", "select", "note", "patch", "delete"},
             at : {"config", "mkdir", "save"}, by : {"client", "import"},
             id : Ids \cup {None}, profile : Profiles \cup {None}, fresh : BOOLEAN,
             item : Items \cup {None}, before : {None}]

(* An operation that has changed nothing yet keeps the records' invariant  *)
(* if what it remembers is right.                                          *)
LEMMA BeginRec ==
  ASSUME RecInv, NEW o \in Requests,
         Begin(o), UNCHANGED unsaved,
         Memory' \in Memories, Grounded(Memory'), Apart(Memory')
  PROVE  /\ RecTypes' /\ References' /\ PortsDiffer' /\ Matches(Visible)'
         /\ op' = [o EXCEPT !.before = Memory] /\ op' # None
         /\ op'.do = o.do /\ op'.at = o.at /\ op'.id = o.id /\ op'.profile = o.profile
         /\ op'.fresh = o.fresh /\ op'.item = o.item /\ op'.before = Memory
         /\ op'.before \in Memories /\ Grounded(op'.before) /\ Apart(op'.before)
<1>1. op = None /\ op' = [o EXCEPT !.before = Memory] /\ UNCHANGED disk
  BY DEF Begin
<1>2. Memory \in Memories /\ Grounded(Memory) /\ Apart(Memory) /\ Matches(Memory)
  BY <1>1, Found
<1>3. /\ op' \in Ops
      /\ op'.do = o.do /\ op'.at = o.at /\ op'.id = o.id /\ op'.profile = o.profile
      /\ op'.fresh = o.fresh /\ op'.item = o.item /\ op'.before = Memory
  BY <1>1, <1>2 DEF Ops, Requests
<1>4. op' # None
  BY <1>3, NoneAssumption
<1>5. UNCHANGED <<saved, dirs, configs>>
  BY <1>1 DEF disk
<1>6. RecTypes'
  BY <1>3, <1>5 DEF RecInv, RecTypes
<1>7. References' /\ PortsDiffer'
  BY <1>5 DEF RecInv, References, PortsDiffer, Grounded, Apart, Owners
<1>8. Matches(Visible)'
  <2>1. op'.at # "remove"
    BY <1>3 DEF Requests
  <2>2. Visible' = Memory
    BY <1>3, <1>4, <2>1 DEF Visible
  <2> QED
    BY <1>2, <1>5, <2>2 DEF Matches, Owners
<1> QED
  BY <1>1, <1>2, <1>3, <1>4, <1>6, <1>7, <1>8

LEMMA CreateProfileRec ==
  ASSUME RecInv, NEW by \in {"client", "import"}, NEW p \in Profiles,
         CreateProfile(by, p), UNCHANGED unsaved
  PROVE  RecInv'
<1> DEFINE o == [Request("create", "config", by) EXCEPT !.profile = p, !.fresh = TRUE]
<1>1. /\ o \in Requests /\ o.do = "create" /\ o.at = "config" /\ o.id = None
      /\ o.profile = p /\ o.fresh = TRUE /\ o.item = None
  BY DEF Requests, Request
<1>2. Begin(o) /\ UNCHANGED memory /\ p \notin profiles /\ op = None
  BY DEF CreateProfile, Begin
<1>3. UNCHANGED <<instances, profiles>> /\ Memory' = Memory
  BY <1>2 DEF memory, Memory
<1>4. Memory \in Memories /\ Grounded(Memory) /\ Apart(Memory)
  BY <1>2, Found
<1> HIDE DEF o
<1>5. /\ RecTypes' /\ References' /\ PortsDiffer' /\ Matches(Visible)'
      /\ op' # None /\ op'.do = "create" /\ op'.at = "config" /\ op'.id = None
      /\ op'.profile = p /\ op'.fresh = TRUE /\ op'.before = Memory
      /\ op'.before \in Memories /\ Grounded(op'.before) /\ Apart(op'.before)
  BY <1>1, <1>2, <1>3, <1>4, BeginRec DEF Requests, Grounded, Apart, Owners
<1>6. op'.before.profiles = profiles
  BY <1>5 DEF Memory
<1>7. AtConfig' /\ Roomy'
  BY <1>2, <1>3, <1>5, <1>6 DEF AtConfig, Creating, Roomy
<1>8. OpOK'
  BY <1>5, <1>7 DEF OpOK, Grounded, Apart, Owners
<1> QED
  BY <1>5, <1>8 DEF RecInv

LEMMA CreateInstanceRec ==
  ASSUME RecInv, NEW by \in {"client", "import"}, NEW i \in Ids, NEW p \in Profiles, NEW s \in {None, Chosen},
         CreateInstance(by, i, p, s), UNCHANGED unsaved
  PROVE  RecInv'
<1>1. PICK fresh \in {p \notin profiles}, c \in FreePairs(i) :
        Begin([Request("create", IF fresh THEN "config" ELSE "mkdir", by) EXCEPT
                !.id = i, !.profile = p, !.fresh = fresh,
                !.item = [profile |-> p, mixed |-> c[1], controller |-> c[2], selection |-> s]])
  BY DEF CreateInstance
<1> DEFINE x == [profile |-> p, mixed |-> c[1], controller |-> c[2], selection |-> s]
           at == IF fresh THEN "config" ELSE "mkdir"
           o == [Request("create", at, by) EXCEPT
                  !.id = i, !.profile = p, !.fresh = fresh, !.item = x]
<1>2. /\ x \in Items /\ x.profile = p /\ x.mixed = c[1] /\ x.controller = c[2]
      /\ c[1] \notin Used(i) /\ c[2] \notin Used(i) /\ c[1] # c[2]
      /\ c[1] \in Ports /\ c[2] \in Ports
  BY DEF FreePairs, Items
<1>3. fresh = (p \notin profiles) /\ fresh \in BOOLEAN
  OBVIOUS
<1> HIDE DEF x
<1>4. /\ o \in Requests /\ o.do = "create" /\ o.at = at /\ o.id = i
      /\ o.profile = p /\ o.fresh = fresh /\ o.item = x
  BY <1>2, <1>3 DEF Requests, Request
<1>5. Begin(o)
  BY <1>1 DEF x
<1>6. UNCHANGED <<instances, profiles>> /\ Memory' = Memory /\ op = None /\ instances[i] = None
  BY <1>5 DEF CreateInstance, memory, Memory, Begin, Present
<1>7. Memory \in Memories /\ Grounded(Memory) /\ Apart(Memory)
  BY <1>6, Found
<1> HIDE DEF o
<1>8. /\ RecTypes' /\ References' /\ PortsDiffer' /\ Matches(Visible)'
      /\ op' # None /\ op'.do = "create" /\ op'.at = at /\ op'.id = i
      /\ op'.profile = p /\ op'.fresh = fresh /\ op'.before = Memory /\ op'.item = x
      /\ op'.before \in Memories /\ Grounded(op'.before) /\ Apart(op'.before)
  BY <1>4, <1>5, <1>6, <1>7, BeginRec DEF Requests, Grounded, Apart, Owners
<1>9. op'.before.profiles = profiles /\ op'.before.instances = instances
  BY <1>8 DEF Memory
<1>10. Creating'
  BY <1>2, <1>3, <1>6, <1>8, <1>9 DEF Creating
<1>11. Roomy'
  <2>1. \A j \in Owners(Memory) \ {i} : PortsOf(x) \cap PortsOf(instances[j]) = {}
    BY <1>2 DEF Used, PortsOf, Owners, Memory, Present
  <2> QED
    BY <1>2, <1>8, <1>9, <2>1 DEF Roomy, Owners, PortsOf
<1>12. op'.at = "config" => AtConfig'
  BY <1>3, <1>6, <1>8, <1>10 DEF AtConfig
<1>13. op'.at = "mkdir" => AtMkdir'
  BY <1>3, <1>6, <1>8, <1>9, <1>10, NoneAssumption DEF AtMkdir, OwnProfile
<1>14. OpOK'
  BY <1>8, <1>11, <1>12, <1>13 DEF OpOK, Grounded, Apart, Owners
<1> QED
  BY <1>8, <1>14 DEF RecInv

(* An operation that is saved as it begins.                                *)
LEMMA BeginSave ==
  ASSUME RecInv, NEW o \in Requests, Begin(o), UNCHANGED unsaved, o.at = "save", ~o.fresh,
         o.do \in {"change", "select", "note", "patch", "delete"},
         instances' \in [Ids -> Items \cup {None}], profiles' \subseteq Profiles,
         Grounded(Memory'), Apart(Memory'),
         \/ /\ o.do = "change" /\ o.id \in Owners(Memory) /\ o.id \in Owners(Memory')
            /\ profiles' = profiles
            /\ \A j \in Ids \ {o.id} : instances'[j] = instances[j]
         \/ /\ o.do = "select" /\ o.id \in Owners(Memory)
            /\ profiles' = profiles
            /\ instances' = [instances EXCEPT ![o.id].selection = Chosen]
         \/ /\ o.do \in {"patch", "note"}
            /\ o.do = "note" => Target(o) \in Ids \cup Profiles
            /\ instances' = instances /\ profiles' = profiles
         \/ /\ o.do = "delete" /\ o.id \in Ids /\ o.profile = None
            /\ profiles' = profiles
            /\ instances' = [instances EXCEPT ![o.id] = None]
         \/ /\ o.do = "delete" /\ o.id = None /\ o.profile \in Profiles
            /\ instances' = instances
            /\ profiles' = profiles \ {o.profile}
  PROVE  RecInv'
<1>1. Memory' \in Memories
  BY DEF Memory, Memories
<1>2. /\ RecTypes' /\ References' /\ PortsDiffer' /\ Matches(Visible)'
      /\ op' # None /\ op'.do = o.do /\ op'.at = "save" /\ op'.id = o.id
      /\ op'.profile = o.profile /\ op'.before = Memory /\ op'.fresh = o.fresh
      /\ op'.before \in Memories /\ Grounded(op'.before) /\ Apart(op'.before)
  BY <1>1, BeginRec
<1>3. op'.before.instances = instances /\ op'.before.profiles = profiles
  BY <1>2 DEF Memory
<1>4. Owners(op'.before) = Owners(Memory)
  BY <1>2
<1>5. AtSave'
  <2>1. CASE o.do = "change"
    BY <1>2, <1>3, <2>1 DEF AtSave, SavesChanged, Owners, Memory
  <2>2. CASE o.do = "select"
    BY <1>2, <1>3, <2>2 DEF AtSave, SavesSelected, Owners, Memory
  <2>3. CASE o.do \in {"patch", "note"}
    BY <1>2, <1>3, <2>3 DEF AtSave, Memory, Target
  <2>4. CASE o.do = "delete"
    BY <1>2, <1>3, <2>4 DEF AtSave, SavesDeleted
  <2> QED
    BY <2>1, <2>2, <2>3, <2>4
<1>6. OpOK'
  BY <1>2, <1>5 DEF OpOK, Grounded, Apart, Owners
<1> QED
  BY <1>2, <1>6 DEF RecInv

LEMMA ChangeRec ==
  ASSUME RecInv, NEW i \in Ids, Change(i), UNCHANGED unsaved
  PROVE  RecInv'
<1> DEFINE o == [Request("change", "save", "client") EXCEPT !.id = i]
<1>1. o \in Requests /\ o.do = "change" /\ o.at = "save" /\ ~o.fresh /\ o.id = i
  BY DEF Requests, Request
<1>2. Begin(o) /\ UNCHANGED profiles /\ op = None /\ Present(i)
  BY DEF Change, Begin
<1>3. /\ Memory \in Memories /\ Grounded(Memory) /\ Apart(Memory)
      /\ instances \in [Ids -> Items \cup {None}] /\ profiles \subseteq Profiles
  BY <1>2, Found
<1>4. PICK p \in profiles, m \in Ports, c \in Ports :
        /\ m # c
        /\ m # instances[i].mixed => m \notin Used(i)
        /\ c # instances[i].controller => c \notin Used(i)
        /\ instances' = [instances EXCEPT ![i] =
             [profile |-> p, mixed |-> m, controller |-> c,
              selection |-> IF p = instances[i].profile THEN instances[i].selection ELSE None]]
  BY DEF Change
<1> DEFINE x == [profile |-> p, mixed |-> m, controller |-> c,
                 selection |-> IF p = instances[i].profile THEN instances[i].selection ELSE None]
<1>5. x \in Items /\ x.profile = p /\ x.mixed = m /\ x.controller = c
  BY <1>2, <1>3 DEF Items, Present
<1>6. instances' = [instances EXCEPT ![i] = x]
  BY <1>4
<1> HIDE DEF x
<1>7. instances' \in [Ids -> Items \cup {None}] /\ instances'[i] = x /\ x # None
  BY <1>3, <1>5, <1>6, NoneAssumption
<1>8. \A j \in Ids \ {i} : instances'[j] = instances[j]
  BY <1>3, <1>6
<1>9. Owners(Memory') = Owners(Memory) /\ i \in Owners(Memory)
  BY <1>2, <1>7, <1>8 DEF Owners, Memory, Present
<1>10. Grounded(Memory')
  BY <1>2, <1>3, <1>5, <1>7, <1>8, <1>9 DEF Grounded, Memory, Owners
<1>11. Apart(Memory')
  <2>1. \A j \in Owners(Memory) \ {i} : PortsOf(x) \cap PortsOf(instances[j]) = {}
    <3> SUFFICES ASSUME NEW j \in Owners(Memory) \ {i}
                 PROVE  m \notin PortsOf(instances[j]) /\ c \notin PortsOf(instances[j])
      BY <1>5 DEF PortsOf
    <3>1. Present(j) /\ j \in Ids
      BY DEF Owners, Memory, Present
    <3>2. PortsOf(instances[i]) \cap PortsOf(instances[j]) = {}
      BY <1>3, <1>9 DEF Apart, Memory
    <3>3. m = instances[i].mixed \/ m \notin Used(i)
      BY <1>4
    <3>4. c = instances[i].controller \/ c \notin Used(i)
      BY <1>4
    <3> QED
      BY <3>1, <3>2, <3>3, <3>4 DEF Used, PortsOf
  <2>2. SUFFICES ASSUME NEW j \in Owners(Memory')
                 PROVE  /\ instances'[j].mixed # instances'[j].controller
                        /\ \A k \in Owners(Memory') \ {j} : PortsOf(instances'[j]) \cap PortsOf(instances'[k]) = {}
    BY DEF Apart, Memory, Owners, PortsOf
  <2>3. CASE j = i
    BY <1>4, <1>5, <1>7, <1>8, <1>9, <2>1, <2>3 DEF Owners, PortsOf
  <2>4. CASE j # i
    <3>1. instances'[j] = instances[j] /\ j \in Ids
      BY <1>8, <2>4 DEF Owners
    <3>2. instances[j].mixed # instances[j].controller
      BY <1>3, <1>9, <2>2 DEF Apart, Memory
    <3>3. ASSUME NEW k \in Owners(Memory') \ {j} PROVE PortsOf(instances[j]) \cap PortsOf(instances'[k]) = {}
      <4>1. CASE k = i
        <5>1. PortsOf(instances'[k]) = PortsOf(x)
          BY <1>7, <4>1
        <5>2. PortsOf(x) \cap PortsOf(instances[j]) = {}
          BY <1>9, <2>1, <2>2, <2>4
        <5> QED
          BY <5>1, <5>2
      <4>2. CASE k # i
        <5>1. instances'[k] = instances[k]
          BY <1>8, <4>2 DEF Owners
        <5> QED
          BY <1>3, <1>9, <2>2, <5>1 DEF Apart, Memory
      <4> QED
        BY <4>1, <4>2
    <3> QED
      BY <3>1, <3>2, <3>3 DEF PortsOf
  <2> QED
    BY <2>3, <2>4
<1> HIDE DEF o
<1> QED
  BY <1>1, <1>2, <1>3, <1>7, <1>8, <1>9, <1>10, <1>11, BeginSave

LEMMA SetSelectionRec ==
  ASSUME RecInv, NEW i \in Ids, SetSelection(i), UNCHANGED unsaved
  PROVE  RecInv'
<1> DEFINE o == [Request("select", "save", "client") EXCEPT !.id = i]
<1>1. o \in Requests /\ o.do = "select" /\ o.at = "save" /\ ~o.fresh /\ o.id = i
  BY DEF Requests, Request
<1>2. /\ Begin(o) /\ UNCHANGED profiles /\ op = None /\ Present(i)
      /\ instances' = [instances EXCEPT ![i].selection = Chosen]
  BY DEF SetSelection, Begin
<1>3. /\ Memory \in Memories /\ Grounded(Memory) /\ Apart(Memory)
      /\ instances \in [Ids -> Items \cup {None}] /\ profiles \subseteq Profiles
  BY <1>2, Found
<1> DEFINE x == [instances[i] EXCEPT !.selection = Chosen]
<1>4. /\ x \in Items /\ x.profile = instances[i].profile /\ x.mixed = instances[i].mixed
      /\ x.controller = instances[i].controller
  BY <1>2, <1>3 DEF Items, Present
<1>5. instances' = [instances EXCEPT ![i] = x]
  BY <1>2
<1> HIDE DEF x
<1>6. instances' \in [Ids -> Items \cup {None}] /\ instances'[i] = x /\ x # None
  BY <1>3, <1>4, <1>5, NoneAssumption
<1>7. \A j \in Ids : /\ (instances'[j] = None) = (instances[j] = None)
                     /\ instances'[j].profile = instances[j].profile
                     /\ instances'[j].mixed = instances[j].mixed
                     /\ instances'[j].controller = instances[j].controller
  BY <1>2, <1>3, <1>4, <1>5, <1>6 DEF Present
<1>8. Owners(Memory') = Owners(Memory) /\ i \in Owners(Memory)
  BY <1>2, <1>7 DEF Owners, Memory, Present
<1>9. Grounded(Memory')
  BY <1>2, <1>3, <1>7, <1>8 DEF Grounded, Memory, Owners
<1>10. Apart(Memory')
  <2>1. \A j \in Ids : PortsOf(instances'[j]) = PortsOf(instances[j])
    BY <1>7 DEF PortsOf
  <2> QED
    BY <1>3, <1>7, <1>8, <2>1 DEF Apart, Memory, Owners
<1> HIDE DEF o
<1> QED
  BY <1>1, <1>2, <1>3, <1>6, <1>8, <1>9, <1>10, BeginSave

LEMMA NoteRec ==
  ASSUME RecInv, Note, UNCHANGED unsaved
  PROVE  RecInv'
<1>1. PICK x \in {i \in Ids : Present(i)} \cup profiles :
        Begin([Request("note", "save", "client") EXCEPT
                 !.id = IF x \in Ids THEN x ELSE None,
                 !.profile = IF x \in Ids THEN None ELSE x])
  BY DEF Note
<1> DEFINE o == [Request("note", "save", "client") EXCEPT
                   !.id = IF x \in Ids THEN x ELSE None,
                   !.profile = IF x \in Ids THEN None ELSE x]
<1>2. Begin(o) /\ UNCHANGED <<instances, profiles>> /\ op = None
  BY <1>1 DEF Note, Begin, memory
<1>3. /\ Memory \in Memories /\ Grounded(Memory) /\ Apart(Memory)
      /\ instances \in [Ids -> Items \cup {None}] /\ profiles \subseteq Profiles
  BY <1>2, Found
<1>4. /\ o \in Requests /\ o.do = "note" /\ o.at = "save" /\ ~o.fresh
      /\ Target(o) \in Ids \cup Profiles
  BY <1>1, <1>3 DEF Requests, Request, Target
<1>5. Grounded(Memory') /\ Apart(Memory')
  BY <1>2, <1>3 DEF Grounded, Apart, Memory, Owners
<1> HIDE DEF o
<1> QED
  BY <1>2, <1>3, <1>4, <1>5, BeginSave

LEMMA DeleteRec ==
  ASSUME RecInv, NEW by \in {"client", "import"}, NEW i \in Ids, Delete(by, i), UNCHANGED unsaved
  PROVE  RecInv'
<1> DEFINE o == [Request("delete", "save", by) EXCEPT !.id = i]
<1>1. o \in Requests /\ o.do = "delete" /\ o.at = "save" /\ ~o.fresh /\ o.id = i /\ o.profile = None
  BY DEF Requests, Request
<1>2. /\ Begin(o) /\ UNCHANGED profiles /\ op = None
      /\ instances' = [instances EXCEPT ![i] = None]
  BY DEF Delete, Begin
<1>3. /\ Memory \in Memories /\ Grounded(Memory) /\ Apart(Memory)
      /\ instances \in [Ids -> Items \cup {None}] /\ profiles \subseteq Profiles
  BY <1>2, Found
<1>4. /\ instances' \in [Ids -> Items \cup {None}]
      /\ \A j \in Owners(Memory') : j \in Owners(Memory) /\ instances'[j] = instances[j]
  BY <1>2, <1>3 DEF Owners, Memory
<1>5. Grounded(Memory')
  BY <1>2, <1>3, <1>4 DEF Grounded, Memory
<1>6. Apart(Memory')
  BY <1>3, <1>4 DEF Apart, Memory
<1> HIDE DEF o
<1> QED
  BY <1>1, <1>2, <1>3, <1>4, <1>5, <1>6, BeginSave

LEMMA DeleteProfileRec ==
  ASSUME RecInv, NEW by \in {"client", "import"}, NEW p \in Profiles, DeleteProfile(by, p), UNCHANGED unsaved
  PROVE  RecInv'
<1> DEFINE o == [Request("delete", "save", by) EXCEPT !.profile = p]
<1>1. o \in Requests /\ o.do = "delete" /\ o.at = "save" /\ ~o.fresh /\ o.id = None /\ o.profile = p
  BY DEF Requests, Request
<1>2. /\ Begin(o) /\ UNCHANGED instances /\ op = None /\ ~InUse(p)
      /\ profiles' = profiles \ {p}
  BY DEF DeleteProfile, Begin
<1>3. /\ Memory \in Memories /\ Grounded(Memory) /\ Apart(Memory)
      /\ instances \in [Ids -> Items \cup {None}] /\ profiles \subseteq Profiles
  BY <1>2, Found
<1>4. Grounded(Memory')
  BY <1>2, <1>3 DEF Grounded, Memory, Owners, InUse, Present
<1>5. Apart(Memory')
  BY <1>2, <1>3 DEF Apart, Memory, Owners
<1> HIDE DEF o
<1> QED
  BY <1>1, <1>2, <1>3, <1>4, <1>5, BeginSave

LEMMA PatchRec ==
  ASSUME RecInv, ImportPatch, UNCHANGED unsaved
  PROVE  RecInv'
<1>1. PICK p : p = Last(import.profiles)
  OBVIOUS
<1> DEFINE o == [Request("patch", "save", "import") EXCEPT !.profile = p]
<1>2. Begin(o) /\ UNCHANGED <<instances, profiles>> /\ op = None /\ p \in profiles
  BY <1>1 DEF ImportPatch, Begin, memory
<1>3. /\ Memory \in Memories /\ Grounded(Memory) /\ Apart(Memory)
      /\ instances \in [Ids -> Items \cup {None}] /\ profiles \subseteq Profiles
  BY <1>2, Found
<1>4. o \in Requests /\ o.do = "patch" /\ o.at = "save" /\ ~o.fresh /\ o.id = None
  BY <1>2, <1>3 DEF Requests, Request
<1>5. Grounded(Memory') /\ Apart(Memory')
  BY <1>2, <1>3 DEF Grounded, Apart, Memory, Owners
<1> HIDE DEF o
<1> QED
  BY <1>2, <1>3, <1>4, <1>5, BeginSave

-----------------------------------------------------------------------------
(* Operations go on and end: the records.                                  *)

(* An operation at work.                                                   *)
LEMMA Working ==
  ASSUME RecInv, op # None, op.at # "remove"
  PROVE  /\ op \in Ops
         /\ op.before \in Memories /\ Grounded(op.before) /\ Apart(op.before)
         /\ Matches(op.before)
         /\ Owners(op.before) = Owners(saved) /\ op.before.profiles = saved.profiles
         /\ instances \in [Ids -> Items \cup {None}] /\ profiles \subseteq Profiles
         /\ op.before.instances \in [Ids -> Items \cup {None}]
         /\ op.before.profiles \subseteq Profiles
<1>1. /\ op \in Ops
      /\ op.before \in Memories /\ Grounded(op.before) /\ Apart(op.before)
      /\ Matches(op.before)
      /\ saved \in Memories
  BY DEF RecInv, RecTypes, OpOK, Visible
<1>2. \A i \in Ids : (op.before.instances[i] = None) = (saved.instances[i] = None)
  <2> TAKE i \in Ids
  <2>1. saved.instances[i] # None => [saved.instances[i] EXCEPT !.selection = Chosen] \in Items
    BY <1>1 DEF Memories, Items
  <2> QED
    BY <1>1, <2>1, NoneAssumption DEF Matches, Owners
<1> QED
  BY <1>1, <1>2 DEF Owners, Matches, RecInv, RecTypes, Memory, Memories

(* An operation goes on to its next step.                                  *)
LEMMA ProceedRec ==
  ASSUME RecInv, op # None, op.at # "remove", NEW at \in {"config", "mkdir", "save"},
         op' = [op EXCEPT !.at = at],
         UNCHANGED <<saved, unsaved>>,
         Memory' \in Memories, Grounded(Memory'), Apart(Memory'),
         dirs \subseteq dirs', dirs' \subseteq Ids, configs \subseteq configs', configs' \subseteq Profiles
  PROVE  /\ RecTypes' /\ References' /\ PortsDiffer' /\ Matches(Visible)'
         /\ op' # None /\ op'.do = op.do /\ op'.at = at /\ op'.id = op.id /\ op'.profile = op.profile
         /\ op'.fresh = op.fresh /\ op'.item = op.item /\ op'.before = op.before
         /\ op'.before \in Memories /\ Grounded(op'.before) /\ Apart(op'.before)
<1>1. /\ op \in Ops /\ Matches(op.before)
      /\ op.before \in Memories /\ Grounded(op.before) /\ Apart(op.before)
  BY Working
<1>2. /\ op' \in Ops
      /\ op'.do = op.do /\ op'.at = at /\ op'.id = op.id /\ op'.profile = op.profile
      /\ op'.fresh = op.fresh /\ op'.item = op.item /\ op'.before = op.before
  BY <1>1 DEF Ops
<1>3. op' # None
  BY <1>2, NoneAssumption
<1>4. RecTypes'
  BY <1>2 DEF RecInv, RecTypes
<1>5. References' /\ PortsDiffer'
  BY DEF RecInv, References, PortsDiffer, Grounded, Apart, Owners
<1>6. Matches(Visible)'
  <2>1. Visible' = op.before
    BY <1>2, <1>3 DEF Visible
  <2> QED
    BY <1>1, <2>1 DEF Matches, Owners
<1> QED
  BY <1>1, <1>2, <1>3, <1>4, <1>5, <1>6

(* An operation ends where it began, whatever it cleaned up.               *)
LEMMA EndRec ==
  ASSUME RecInv, op' = None, UNCHANGED saved, unsaved \subseteq unsaved',
         unsaved' \subseteq Ids \cup Profiles,
         Memory' \in Memories, Grounded(Memory'), Apart(Memory'), Matches(Memory)',
         Owners(saved) \subseteq dirs', dirs' \subseteq dirs,
         saved.profiles \subseteq configs', configs' \subseteq configs
  PROVE  RecInv'
<1>1. RecTypes'
  BY DEF RecInv, RecTypes
<1>2. References' /\ PortsDiffer'
  BY DEF RecInv, References, PortsDiffer, Grounded, Apart, Owners
<1>3. OpOK' /\ Matches(Visible)'
  BY DEF OpOK, Visible
<1> QED
  BY <1>1, <1>2, <1>3 DEF RecInv

LEMMA WriteConfigRec == ASSUME RecInv, WriteConfig PROVE RecInv'
<1>1. /\ op # None /\ op.at = "config"
      /\ configs' = configs \cup {op.profile}
      /\ profiles' = profiles \cup {op.profile}
      /\ UNCHANGED <<instances, saved, dirs, unsaved>>
  BY DEF WriteConfig, history
<1>2. PICK at \in {"mkdir", "save"} : op' = [op EXCEPT !.at = at] /\ (at = "mkdir" <=> op.id # None)
  BY DEF WriteConfig
<1>3. AtConfig /\ Roomy
  BY <1>1 DEF RecInv, OpOK
<1>4. /\ op \in Ops /\ instances \in [Ids -> Items \cup {None}] /\ profiles \subseteq Profiles
      /\ Grounded(Memory) /\ Apart(Memory)
  BY <1>1, Working DEF RecInv, References, PortsDiffer
<1>5. /\ op.profile \in Profiles /\ op.fresh /\ op.do = "create"
      /\ op.before.instances = instances /\ op.before.profiles = profiles
  BY <1>3 DEF AtConfig, Creating, Memory
<1>6. Memory' \in Memories
  BY <1>1, <1>4, <1>5 DEF Memory, Memories
<1>7. Grounded(Memory') /\ Apart(Memory')
  BY <1>1, <1>4 DEF Grounded, Apart, Memory, Owners
<1>8. /\ RecTypes' /\ References' /\ PortsDiffer' /\ Matches(Visible)'
      /\ op' # None /\ op'.do = op.do /\ op'.at = at /\ op'.id = op.id /\ op'.profile = op.profile
      /\ op'.fresh = op.fresh /\ op'.item = op.item /\ op'.before = op.before
      /\ op'.before \in Memories /\ Grounded(op'.before) /\ Apart(op'.before)
  BY <1>1, <1>2, <1>5, <1>6, <1>7, ProceedRec DEF RecInv, RecTypes
<1>9. Creating'
  BY <1>3, <1>8 DEF AtConfig, Creating
<1>10. Roomy'
  BY <1>3, <1>8 DEF Roomy, Owners, PortsOf
<1>11. at = "mkdir" => AtMkdir'
  BY <1>1, <1>2, <1>5, <1>8, <1>9 DEF AtMkdir, OwnProfile
<1>12. at = "save" => AtSave'
  BY <1>1, <1>2, <1>5, <1>8, <1>9 DEF AtSave, SavesNew, OwnProfile
<1>13. OpOK'
  BY <1>2, <1>8, <1>10, <1>11, <1>12 DEF OpOK, Grounded, Apart, Owners
<1> QED
  BY <1>8, <1>13 DEF RecInv

LEMMA MakeDirRec == ASSUME RecInv, MakeDir PROVE RecInv'
<1>1. /\ op # None /\ op.at = "mkdir"
      /\ dirs' = dirs \cup {op.id}
      /\ instances' = [instances EXCEPT ![op.id] = op.item]
      /\ op' = [op EXCEPT !.at = "save"]
      /\ UNCHANGED <<profiles, saved, configs, unsaved>>
  BY DEF MakeDir, history
<1>2. AtMkdir /\ Roomy /\ Creating
  BY <1>1 DEF RecInv, OpOK, AtMkdir
<1>3. /\ op \in Ops /\ instances \in [Ids -> Items \cup {None}] /\ profiles \subseteq Profiles
      /\ Grounded(Memory) /\ Apart(Memory)
  BY <1>1, Working DEF RecInv, References, PortsDiffer
<1>4. /\ op.id \in Ids /\ op.item \in Items /\ op.item.profile = op.profile /\ op.do = "create"
      /\ op.before.instances = instances /\ op.profile \in profiles
      /\ profiles = op.before.profiles \cup OwnProfile /\ OwnProfile \subseteq configs
      /\ instances[op.id] = None
  BY <1>2 DEF AtMkdir, Creating
<1>5. /\ instances' \in [Ids -> Items \cup {None}] /\ instances'[op.id] = op.item
      /\ op.item # None
      /\ \A j \in Ids \ {op.id} : instances'[j] = instances[j]
  BY <1>1, <1>3, <1>4, NoneAssumption
<1>6. Owners(Memory') = Owners(Memory) \cup {op.id} /\ op.id \notin Owners(Memory)
  BY <1>4, <1>5 DEF Owners, Memory
<1>7. Memory' \in Memories
  BY <1>1, <1>3, <1>5 DEF Memory, Memories
<1>8. Grounded(Memory')
  BY <1>1, <1>3, <1>4, <1>5, <1>6 DEF Grounded, Memory, Owners
<1>9. Apart(Memory')
  <2>1. \A j \in Owners(Memory) : PortsOf(op.item) \cap PortsOf(instances[j]) = {}
    BY <1>2, <1>4, <1>6, NoneAssumption DEF Roomy, Owners, Memory
  <2>2. op.item.mixed # op.item.controller
    BY <1>2, <1>4, NoneAssumption DEF Roomy
  <2>3. SUFFICES ASSUME NEW j \in Owners(Memory')
                 PROVE  /\ instances'[j].mixed # instances'[j].controller
                        /\ \A k \in Owners(Memory') \ {j} : PortsOf(instances'[j]) \cap PortsOf(instances'[k]) = {}
    BY DEF Apart, Memory, Owners, PortsOf
  <2>4. CASE j = op.id
    <3>1. PortsOf(instances'[j]) = PortsOf(op.item) /\ instances'[j].mixed # instances'[j].controller
      BY <1>5, <2>2, <2>4
    <3>2. ASSUME NEW k \in Owners(Memory') \ {j} PROVE PortsOf(instances'[j]) \cap PortsOf(instances'[k]) = {}
      <4>1. k \in Owners(Memory) /\ k \in Ids \ {op.id}
        BY <1>6, <2>4, <3>2 DEF Owners
      <4>2. instances'[k] = instances[k]
        BY <1>5, <4>1
      <4> QED
        BY <2>1, <3>1, <4>1, <4>2
    <3> QED
      BY <3>1, <3>2
  <2>5. CASE j # op.id
    <3>1. j \in Owners(Memory) /\ j \in Ids
      BY <1>6, <2>3, <2>5 DEF Owners
    <3>2. instances'[j] = instances[j]
      BY <1>5, <2>5, <3>1
    <3>3. instances[j].mixed # instances[j].controller
      BY <1>3, <3>1 DEF Apart, Memory
    <3>4. ASSUME NEW k \in Owners(Memory') \ {j} PROVE PortsOf(instances'[j]) \cap PortsOf(instances'[k]) = {}
      <4>1. CASE k = op.id
        <5>1. PortsOf(instances'[k]) = PortsOf(op.item)
          BY <1>5, <4>1
        <5>2. PortsOf(instances'[j]) = PortsOf(instances[j])
          BY <3>2
        <5> QED
          BY <2>1, <3>1, <5>1, <5>2
      <4>2. CASE k # op.id
        <5>1. k \in Owners(Memory) /\ k \in Ids \ {op.id}
          BY <1>6, <3>4, <4>2 DEF Owners
        <5>2. instances'[k] = instances[k]
          BY <1>5, <5>1
        <5>3. PortsOf(instances[j]) \cap PortsOf(instances[k]) = {}
          BY <1>3, <3>1, <3>4, <5>1 DEF Apart, Memory
        <5> QED
          BY <3>2, <5>2, <5>3
      <4> QED
        BY <4>1, <4>2
    <3> QED
      BY <3>2, <3>3, <3>4
  <2> QED
    BY <2>4, <2>5
<1>10. /\ RecTypes' /\ References' /\ PortsDiffer' /\ Matches(Visible)'
      /\ op' # None /\ op'.do = op.do /\ op'.at = "save" /\ op'.id = op.id /\ op'.profile = op.profile
      /\ op'.fresh = op.fresh /\ op'.item = op.item /\ op'.before = op.before
      /\ op'.before \in Memories /\ Grounded(op'.before) /\ Apart(op'.before)
  BY <1>1, <1>4, <1>7, <1>8, <1>9, ProceedRec DEF RecInv, RecTypes
<1>11. Creating'
  BY <1>2, <1>10 DEF Creating
<1>12. AtSave'
  <2>1. Filled(Memory)'
    <3>1. op'.before.instances = instances /\ Memory'.instances = instances'
      BY <1>4, <1>10 DEF Memory
    <3>2. [op'.before.instances EXCEPT ![op'.id] = op'.item] = instances'
      BY <1>1, <1>10, <3>1
    <3>3. op'.id \in dirs'
      BY <1>1, <1>10
    <3> QED
      BY <3>1, <3>2, <3>3 DEF Filled
  <2>2. OwnProfile' = OwnProfile
    BY <1>10 DEF OwnProfile
  <2>3. op'.id # None
    BY <1>4, <1>10, NoneAssumption
  <2> QED
    BY <1>1, <1>4, <1>10, <1>11, <2>1, <2>2, <2>3 DEF AtSave, SavesNew
<1>13. OpOK'
  BY <1>10, <1>12 DEF OpOK, Grounded, Apart, Owners
<1> QED
  BY <1>10, <1>13 DEF RecInv

LEMMA WriteConfigFailsRec == ASSUME RecInv, WriteConfigFails PROVE RecInv'
<1>1. op # None /\ op.at = "config" /\ op' = None /\ UNCHANGED <<instances, profiles, saved, dirs, configs, unsaved>>
  BY DEF WriteConfigFails, Fail, memory, disk
<1>2. Memory' = Memory /\ Memory = op.before
  BY <1>1 DEF Memory, RecInv, OpOK, AtConfig
<1>3. /\ op.before \in Memories /\ Grounded(op.before) /\ Apart(op.before) /\ Matches(op.before)
  BY <1>1, Working
<1>4. Matches(Memory)'
  BY <1>1, <1>2, <1>3 DEF Matches, Owners
<1> QED
  BY <1>1, <1>2, <1>3, <1>4, EndRec DEF RecInv, RecTypes, References, Grounded, Apart, Owners

LEMMA MakeDirFailsRec == ASSUME RecInv, MakeDirFails PROVE RecInv'
<1>1. /\ op # None /\ op.at = "mkdir" /\ op' = None
      /\ profiles' = profiles \ OwnProfile
      /\ configs' \in {configs, configs \ OwnProfile}
      /\ UNCHANGED <<instances, saved, dirs, unsaved>>
  BY DEF MakeDirFails, Fail, Cleaned
<1>2. AtMkdir /\ Creating
  BY <1>1 DEF RecInv, OpOK, AtMkdir
<1>3. /\ op.before \in Memories /\ Grounded(op.before) /\ Apart(op.before) /\ Matches(op.before)
      /\ op.before.profiles = saved.profiles
  BY <1>1, Working
<1>4. OwnProfile \cap op.before.profiles = {}
  BY <1>2 DEF Creating, OwnProfile
<1>5. instances' = op.before.instances /\ profiles' = op.before.profiles
  BY <1>1, <1>2, <1>4 DEF AtMkdir
<1>6. Memory' = op.before
  BY <1>3, <1>5 DEF Memory, Memories
<1>7. Matches(Memory)'
  BY <1>1, <1>3, <1>6 DEF Matches, Owners
<1>8. saved.profiles \subseteq configs' /\ configs' \subseteq configs
  BY <1>1, <1>3, <1>4 DEF RecInv, References
<1>9. Grounded(Memory') /\ Apart(Memory')
  BY <1>3, <1>6
<1> QED
  BY <1>1, <1>3, <1>6, <1>7, <1>8, <1>9, EndRec DEF RecInv, RecTypes, References

(* What an operation is about to save.                                     *)
LEMMA Saving ==
  ASSUME RecInv, op # None, op.at = "save"
  PROVE  /\ AtSave
         /\ Owners(Memory) \subseteq dirs /\ profiles \subseteq configs
         /\ op.do = "create" => op.id \notin Owners(saved)
         /\ OwnProfile \cap saved.profiles = {} \/ op.do # "create"
<1>1. AtSave
  BY DEF RecInv, OpOK
<1>2. /\ op \in Ops /\ Owners(op.before) = Owners(saved) /\ op.before.profiles = saved.profiles
      /\ op.before.instances \in [Ids -> Items \cup {None}]
  BY Working
<1>3. Owners(saved) \subseteq dirs /\ saved.profiles \subseteq configs
  BY DEF RecInv, References
<1>4. CASE op.do = "create"
  <2>1. /\ Creating
        /\ IF op.id = None THEN op.fresh /\ instances = op.before.instances ELSE Filled(Memory)
        /\ profiles = op.before.profiles \cup OwnProfile
        /\ OwnProfile \subseteq configs
    BY <1>1, <1>4 DEF AtSave, SavesNew
  <2>2. profiles \subseteq configs
    BY <1>2, <1>3, <2>1
  <2>3. OwnProfile \cap saved.profiles = {}
    BY <1>2, <2>1 DEF Creating, OwnProfile
  <2>4. op.id \notin Owners(saved)
    <3>1. op.id # None => op.id \in Ids /\ op.before.instances[op.id] = None
      BY <2>1 DEF Creating
    <3>2. op.id \in Owners(saved) => op.id \in Ids /\ op.before.instances[op.id] # None
      BY <1>2 DEF Owners
    <3> QED
      BY <3>1, <3>2, NoneAssumption
  <2>5. CASE op.id = None
    BY <1>1, <1>2, <1>3, <2>1, <2>2, <2>3, <2>4, <2>5 DEF Owners, Memory
  <2>6. CASE op.id # None
    <3>1. instances = [op.before.instances EXCEPT ![op.id] = op.item] /\ op.id \in dirs
      BY <2>1, <2>6 DEF Filled, Memory
    <3>2. Owners(Memory) \subseteq Owners(op.before) \cup {op.id}
      BY <1>2, <3>1 DEF Owners, Memory
    <3> QED
      BY <1>1, <1>2, <1>3, <2>2, <2>3, <2>4, <3>1, <3>2
  <2> QED
    BY <2>5, <2>6
<1>5. CASE op.do = "change"
  <2>1. /\ op.id \in Owners(op.before)
        /\ profiles = op.before.profiles
        /\ \A j \in Ids \ {op.id} : instances[j] = op.before.instances[j]
    BY <1>1, <1>5 DEF AtSave, SavesChanged
  <2>2. Owners(Memory) \subseteq Owners(op.before)
    BY <2>1 DEF Owners, Memory
  <2> QED
    BY <1>1, <1>2, <1>3, <1>5, <2>1, <2>2
<1>6. CASE op.do = "select"
  <2>1. /\ op.id \in Owners(op.before)
        /\ profiles = op.before.profiles
        /\ instances = [op.before.instances EXCEPT ![op.id].selection = Chosen]
    BY <1>1, <1>6 DEF AtSave, SavesSelected
  <2>2. Owners(Memory) \subseteq Owners(op.before)
    BY <1>2, <2>1 DEF Owners, Memory
  <2> QED
    BY <1>1, <1>2, <1>3, <1>6, <2>1, <2>2
<1>7. CASE op.do \in {"patch", "note"}
  <2>1. Memory = op.before
    BY <1>1, <1>7 DEF AtSave
  <2> QED
    BY <1>1, <1>2, <1>3, <1>7, <2>1 DEF Memory
<1>8. CASE op.do = "delete"
  <2>1. Owners(Memory) \subseteq Owners(op.before) /\ profiles \subseteq op.before.profiles
    BY <1>1, <1>2, <1>8, NoneAssumption DEF AtSave, SavesDeleted, Owners, Memory
  <2> QED
    BY <1>1, <1>2, <1>3, <1>8, <2>1
<1> QED
  BY <1>2, <1>4, <1>5, <1>6, <1>7, <1>8 DEF Ops

LEMMA SaveRec == ASSUME RecInv, Save PROVE RecInv'
<1>1. /\ op # None /\ op.at = "save" /\ saved' = Memory /\ unsaved' = {}
      /\ UNCHANGED <<instances, profiles, dirs, configs>>
      /\ IF op.do = "delete" THEN op' = [op EXCEPT !.at = "remove"] ELSE op' = None
  BY DEF Save, memory, Succeed
<1>2. /\ AtSave /\ Owners(Memory) \subseteq dirs /\ profiles \subseteq configs
  BY <1>1, Saving
<1>3. /\ op \in Ops /\ instances \in [Ids -> Items \cup {None}] /\ profiles \subseteq Profiles
      /\ op.before.instances \in [Ids -> Items \cup {None}]
  BY <1>1, Working
<1>4. Memory' = Memory /\ Memory \in Memories /\ Memory.profiles = profiles
  BY <1>1, <1>3 DEF Memory, Memories
<1>5. References' /\ PortsDiffer'
  BY <1>1, <1>2, <1>4 DEF RecInv, References, PortsDiffer, Grounded, Apart, Owners
<1>6. Matches(Memory)'
  BY <1>1, <1>4 DEF Matches, Owners
<1>7. CASE op.do = "delete"
  <2>1. /\ op' \in Ops /\ op'.at = "remove" /\ op'.do = "delete"
        /\ op'.id = op.id /\ op'.profile = op.profile
    BY <1>1, <1>3, <1>7 DEF Ops
  <2>2. op' # None
    BY <2>1, NoneAssumption
  <2>3. AtRemove'
    <3>1. CASE op.id \in Ids /\ op.profile = None
      <4>1. instances = [op.before.instances EXCEPT ![op.id] = None]
        BY <1>2, <1>7, <3>1, NoneAssumption DEF AtSave, SavesDeleted
      <4>2. instances[op.id] = None
        BY <1>3, <3>1, <4>1
      <4> QED
        BY <1>1, <2>1, <3>1, <4>2 DEF AtRemove
    <3>2. CASE op.id = None /\ op.profile \in Profiles
      <4>1. profiles = op.before.profiles \ {op.profile}
        BY <1>2, <1>7, <3>2, NoneAssumption DEF AtSave, SavesDeleted
      <4> QED
        BY <1>1, <2>1, <3>2, <4>1 DEF AtRemove
    <3> QED
      BY <1>2, <1>7, <3>1, <3>2 DEF AtSave, SavesDeleted
  <2>4. OpOK' /\ RecTypes'
    BY <1>1, <1>4, <2>1, <2>3 DEF OpOK, RecInv, RecTypes
  <2>5. Matches(Visible)'
    BY <1>6, <2>1 DEF Visible
  <2> QED
    BY <1>5, <2>4, <2>5 DEF RecInv
<1>8. CASE op.do # "delete"
  <2>1. op' = None
    BY <1>1, <1>8
  <2>2. OpOK' /\ RecTypes'
    BY <1>1, <1>4, <2>1 DEF OpOK, RecInv, RecTypes
  <2>3. Matches(Visible)'
    BY <1>6, <2>1 DEF Visible
  <2> QED
    BY <1>5, <2>2, <2>3 DEF RecInv
<1> QED
  BY <1>7, <1>8

LEMMA SaveFailsRec == ASSUME RecInv, SaveFails PROVE RecInv'
<1>1. /\ op # None /\ op.at = "save" /\ op' = None /\ saved' = saved
      /\ dirs' \in {dirs, dirs \ (IF op.do = "create" THEN {op.id} ELSE {})}
      /\ configs' \in {configs, configs \ OwnProfile}
  BY DEF SaveFails, Fail, Cleaned
<1>2. /\ op \in Ops /\ op.before \in Memories /\ Grounded(op.before) /\ Apart(op.before)
      /\ Matches(op.before)
      /\ instances \in [Ids -> Items \cup {None}] /\ profiles \subseteq Profiles
  BY <1>1, Working
<1>3. Owners(saved) \subseteq dirs' /\ dirs' \subseteq dirs
  BY <1>1, Saving DEF RecInv, References
<1>4. CASE op.do \notin {"select", "note"}
  <2>1. instances' = op.before.instances /\ profiles' = op.before.profiles /\ unsaved' = unsaved
    BY <1>4 DEF SaveFails
  <2>2. Memory' = op.before
    BY <1>2, <2>1 DEF Memory, Memories
  <2>3. Matches(Memory)'
    BY <1>1, <1>2, <2>1, <2>2 DEF Matches, Owners
  <2>4. saved.profiles \subseteq configs' /\ configs' \subseteq configs
    <3>1. op.do # "create" => ~op.fresh
      BY <1>1, Saving DEF AtSave
    <3> QED
      BY <1>1, <3>1, Saving DEF RecInv, References, OwnProfile
  <2> QED
    BY <1>1, <1>2, <1>3, <2>1, <2>2, <2>3, <2>4, EndRec DEF RecInv, RecTypes
<1>5. CASE op.do = "select"
  <2>1. instances' = instances /\ profiles' = profiles /\ unsaved' = unsaved \cup {Target(op)}
    BY <1>5 DEF SaveFails, memory
  <2>2. /\ op.id \in Owners(op.before) /\ profiles = op.before.profiles /\ ~op.fresh
        /\ instances = [op.before.instances EXCEPT ![op.id].selection = Chosen]
    BY <1>1, <1>5, Saving DEF AtSave, SavesSelected
  <2>3. /\ op.id \in Ids /\ op.id \in Owners(saved) /\ op.before.instances[op.id] \in Items
        /\ Target(op) = op.id
    BY <1>1, <1>2, <2>2, Working, NoneAssumption DEF Owners, Memories, Target
  <2>4. saved.instances[op.id] \in Items
    BY <2>3 DEF Owners, RecInv, RecTypes, Memories
  <2>5. instances[op.id] = [op.before.instances[op.id] EXCEPT !.selection = Chosen]
    BY <1>2, <2>2, <2>3 DEF Memories
  <2>6. instances[op.id] = [saved.instances[op.id] EXCEPT !.selection = Chosen]
    <3>1. \/ op.before.instances[op.id] = saved.instances[op.id]
          \/ op.before.instances[op.id] = [saved.instances[op.id] EXCEPT !.selection = Chosen]
      BY <1>2, <2>3 DEF Matches
    <3> QED
      BY <2>4, <2>5, <3>1 DEF Items
  <2>7. \A j \in Ids \ {op.id} : instances[j] = op.before.instances[j]
    BY <1>2, <2>2 DEF Memories
  <2>8. Memory' = Memory /\ Memory.instances = instances /\ Memory.profiles = profiles
    BY <2>1 DEF Memory
  <2>9. Matches(Memory)'
    BY <1>1, <1>2, <2>1, <2>2, <2>3, <2>6, <2>7, <2>8 DEF Matches, Owners
  <2>10. saved.profiles \subseteq configs' /\ configs' \subseteq configs
    BY <1>1, <2>2 DEF RecInv, References, OwnProfile
  <2>11. Grounded(Memory') /\ Apart(Memory') /\ Memory' \in Memories
    BY <2>8 DEF RecInv, RecTypes, References, PortsDiffer
  <2>12. unsaved \subseteq unsaved' /\ unsaved' \subseteq Ids \cup Profiles
    BY <2>1, <2>3 DEF RecInv, RecTypes
  <2> QED
    BY <1>1, <1>3, <2>9, <2>10, <2>11, <2>12, EndRec
<1>6. CASE op.do = "note"
  <2>1. instances' = instances /\ profiles' = profiles /\ unsaved' = unsaved \cup {Target(op)}
    BY <1>6 DEF SaveFails, memory
  <2>2. Memory = op.before /\ ~op.fresh /\ Target(op) \in Ids \cup Profiles
    BY <1>1, <1>6, Saving DEF AtSave
  <2>3. Memory' = op.before
    BY <2>1, <2>2 DEF Memory
  <2>4. Matches(Memory)'
    BY <1>1, <1>2, <2>1, <2>3 DEF Matches, Owners
  <2>5. saved.profiles \subseteq configs' /\ configs' \subseteq configs
    BY <1>1, <2>2 DEF RecInv, References, OwnProfile
  <2>6. unsaved \subseteq unsaved' /\ unsaved' \subseteq Ids \cup Profiles
    BY <2>1, <2>2 DEF RecInv, RecTypes
  <2> QED
    BY <1>1, <1>2, <1>3, <2>3, <2>4, <2>5, <2>6, EndRec
<1> QED
  BY <1>4, <1>5, <1>6

LEMMA RemoveFilesRec == ASSUME RecInv, RemoveFiles \/ RemoveFilesFails PROVE RecInv'
<1>1. /\ op # None /\ op.at = "remove" /\ op' = None
      /\ UNCHANGED <<instances, profiles, saved, unsaved>>
      /\ dirs' \in {dirs, dirs \ {op.id}} /\ configs' \in {configs, configs \ {op.profile}}
  BY DEF RemoveFiles, RemoveFilesFails, Succeed, Fail, memory, disk, history
<1>2. AtRemove /\ Matches(Memory) /\ Memory' = Memory
  BY <1>1 DEF RecInv, OpOK, Visible, Memory
<1>3. op.id \notin Owners(saved) /\ op.profile \notin saved.profiles
  <2>1. saved \in Memories /\ Memory.instances = instances /\ Memory.profiles = profiles
    BY DEF RecInv, RecTypes, Memory
  <2>2. op.id \in Ids => (instances[op.id] = None => op.id \notin Owners(saved))
    <3> SUFFICES ASSUME op.id \in Owners(saved) PROVE instances[op.id] # None
      OBVIOUS
    <3>1. op.id \in Ids /\ saved.instances[op.id] \in Items
      BY <2>1 DEF Owners, Memories
    <3>2. [saved.instances[op.id] EXCEPT !.selection = Chosen] \in Items
      BY <3>1 DEF Items
    <3> QED
      BY <1>2, <2>1, <3>1, <3>2, NoneAssumption DEF Matches
  <2> QED
    BY <1>2, <2>1, <2>2, NoneAssumption DEF AtRemove, Matches, Owners, Memories
<1>4. Matches(Memory)'
  BY <1>1, <1>2 DEF Matches, Owners
<1>5. Grounded(Memory') /\ Apart(Memory') /\ Memory' \in Memories
  BY <1>2 DEF RecInv, RecTypes, References, PortsDiffer
<1>6. Owners(saved) \subseteq dirs' /\ saved.profiles \subseteq configs'
      /\ unsaved \subseteq Ids \cup Profiles
  BY <1>1, <1>3 DEF RecInv, RecTypes, References
<1> QED
  BY <1>1, <1>4, <1>5, <1>6, EndRec

LEMMA RestartRec == ASSUME RecInv, Restart PROVE RecInv'
<1>1. /\ op' = None /\ UNCHANGED <<saved, dirs, configs>> /\ unsaved' = {}
      /\ instances' = saved.instances /\ profiles' = saved.profiles
  BY DEF Restart, disk
<1>2. Memory' = saved
  BY <1>1 DEF Memory, RecInv, RecTypes, Memories
<1>3. RecTypes' /\ OpOK'
  BY <1>1, <1>2 DEF RecInv, RecTypes, OpOK
<1>4. References' /\ PortsDiffer'
  BY <1>1, <1>2 DEF RecInv, References, PortsDiffer, Grounded, Apart, Owners
<1>5. Matches(Visible)'
  BY <1>1, <1>2 DEF Matches, Visible
<1> QED
  BY <1>3, <1>4, <1>5 DEF RecInv

LEMMA SameRec == ASSUME RecInv, UNCHANGED <<memory, disk, op, unsaved>> PROVE RecInv'
<1>1. UNCHANGED <<instances, profiles, saved, dirs, configs, op, unsaved>> /\ Memory' = Memory /\ Visible' = Visible
  BY DEF memory, disk, Memory, Visible
<1>2. RecTypes' /\ References' /\ PortsDiffer' /\ Matches(Visible)'
  BY <1>1 DEF RecInv, RecTypes, References, PortsDiffer, Grounded, Apart, Matches, Owners
<1>3. OpOK'
  BY <1>1 DEF RecInv, OpOK, AtConfig, AtMkdir, AtSave, AtRemove, Roomy, Creating, SavesNew, SavesChanged,
              SavesSelected, SavesDeleted, Target, Filled, OwnProfile, Owners, Grounded, Apart, PortsOf
<1> QED
  BY <1>2, <1>3 DEF RecInv

-----------------------------------------------------------------------------
(* The import.                                                             *)

Elements(s) == {s[n] : n \in DOMAIN s}

(* What the import remembers to undo.                                      *)
Listed == Elements(import.profiles) \cup Elements(import.instances)

(* The operation that the import waits for.                                *)
Awaited ==
  op # None /\ op.by = "import" =>
    \/ import.at = "create" /\ op.do \in {"create", "patch"}
    \/ /\ import.at = "undo" /\ op.do = "delete"
       /\ \/ /\ op.id # None /\ import.instances # <<>>
             /\ op.id = Last(import.instances)
          \/ /\ op.id = None /\ import.profiles # <<>> /\ import.instances = <<>>
             /\ op.profile = Last(import.profiles)

ImpInv ==
  /\ import \in Imports
  /\ mine \subseteq Ids \cup Profiles
  /\ reported \subseteq Ids \cup Profiles
  /\ import.at = "idle" => import.profiles = <<>> /\ import.instances = <<>>
  /\ import.at # "idle" => import.bundle \in Bundles /\ Valid(import.bundle)
  /\ mine \subseteq Owners(saved) \cup saved.profiles
  /\ mine \ reported \subseteq Listed
  /\ Awaited

IInv == RecInv /\ ImpInv

LEMMA FrontLemma ==
  ASSUME NEW S, NEW s \in Seq(S), s # <<>>
  PROVE  Front(s) \in Seq(S) /\ Last(s) \in S /\ Elements(s) = Elements(Front(s)) \cup {Last(s)}
<1>1. Len(s) \in Nat \ {0} /\ DOMAIN s = 1..Len(s)
  OBVIOUS
<1>2. Front(s) \in Seq(S) /\ Len(Front(s)) = Len(s) - 1 /\ \A n \in 1..(Len(s) - 1) : Front(s)[n] = s[n]
  BY <1>1 DEF Front
<1>3. DOMAIN Front(s) = 1..(Len(s) - 1)
  BY <1>2
<1>4. Last(s) = s[Len(s)]
  BY DEF Last
<1> QED
  BY <1>1, <1>2, <1>3, <1>4 DEF Elements

LEMMA AppendLemma ==
  ASSUME NEW S, NEW s \in Seq(S), NEW x \in S
  PROVE  Append(s, x) \in Seq(S) /\ Elements(Append(s, x)) = Elements(s) \cup {x}
<1>1. Len(s) \in Nat /\ DOMAIN s = 1..Len(s)
  OBVIOUS
<1>2. /\ Append(s, x) \in Seq(S) /\ DOMAIN Append(s, x) = 1..(Len(s) + 1)
      /\ \A n \in 1..Len(s) : Append(s, x)[n] = s[n]
      /\ Append(s, x)[Len(s) + 1] = x
  OBVIOUS
<1> QED
  BY <1>1, <1>2 DEF Elements

LEMMA InitImp == Init => ImpInv
<1> SUFFICES ASSUME Init PROVE ImpInv
  OBVIOUS
<1>1. import = NoImport /\ mine = {} /\ reported = {} /\ op = None
  BY DEF Init
<1>2. NoImport \in Imports /\ NoImport.at = "idle" /\ NoImport.profiles = <<>> /\ NoImport.instances = <<>>
  BY DEF NoImport, Imports
<1> QED
  BY <1>1, <1>2 DEF ImpInv, Awaited

(* The import remembers one operation less.                                *)
LEMMA UndoneImp ==
  ASSUME RecInv, ImpInv, op # None, op.by = "import", import.at = "undo", import' = Undone(op),
         op' = None, UNCHANGED <<mine, saved>>, reported \subseteq reported', reported' \subseteq Ids \cup Profiles,
         Target(op) \in reported' \/ Target(op) \notin mine
  PROVE  ImpInv'
<1>1. /\ import \in Imports
      /\ \/ /\ op.id # None /\ import.instances # <<>>
            /\ op.id = Last(import.instances)
         \/ /\ op.id = None /\ import.profiles # <<>> /\ import.instances = <<>>
            /\ op.profile = Last(import.profiles)
  BY DEF ImpInv, Awaited
<1>2. import.profiles \in Seq(Profiles) /\ import.instances \in Seq(Ids)
  BY <1>1 DEF Imports
<1>3. CASE op.id # None
  <2>1. import' = [import EXCEPT !.instances = Front(@)] /\ Target(op) = Last(import.instances)
        /\ import.instances # <<>>
    BY <1>1, <1>3 DEF Undone, Target
  <2>2. /\ Front(import.instances) \in Seq(Ids)
        /\ Elements(import.instances) = Elements(Front(import.instances)) \cup {Target(op)}
    BY <1>2, <2>1, FrontLemma
  <2>3. /\ import' \in Imports /\ import'.at = "undo" /\ import'.bundle = import.bundle
        /\ import'.profiles = import.profiles /\ import'.instances = Front(import.instances)
    BY <1>1, <2>1, <2>2 DEF Imports
  <2>4. mine' \ reported' \subseteq Listed'
    BY <2>2, <2>3 DEF ImpInv, Listed
  <2> QED
    BY <2>3, <2>4 DEF ImpInv, Awaited, Owners, Valid
<1>4. CASE op.id = None
  <2>1. import' = [import EXCEPT !.profiles = Front(@)] /\ Target(op) = Last(import.profiles)
        /\ import.profiles # <<>>
    BY <1>1, <1>4 DEF Undone, Target
  <2>2. /\ Front(import.profiles) \in Seq(Profiles)
        /\ Elements(import.profiles) = Elements(Front(import.profiles)) \cup {Target(op)}
    BY <1>2, <2>1, FrontLemma
  <2>3. /\ import' \in Imports /\ import'.at = "undo" /\ import'.bundle = import.bundle
        /\ import'.instances = import.instances /\ import'.profiles = Front(import.profiles)
    BY <1>1, <2>1, <2>2 DEF Imports
  <2>4. mine' \ reported' \subseteq Listed'
    BY <2>2, <2>3 DEF ImpInv, Listed
  <2> QED
    BY <2>3, <2>4 DEF ImpInv, Awaited, Owners, Valid
<1> QED
  BY <1>3, <1>4

LEMMA FailImp ==
  ASSUME RecInv, ImpInv, op # None, Fail, UNCHANGED <<mine, saved>>
  PROVE  ImpInv'
<1>1. op \in Ops /\ op' = None
  BY DEF RecInv, RecTypes, Fail
<1>2. CASE op.by = "client"
  <2>1. UNCHANGED <<import, reported>>
    BY <1>2 DEF Fail
  <2> QED
    BY <1>1, <2>1 DEF ImpInv, Awaited, Listed, Owners, Valid, Elements
<1>3. CASE op.by = "import" /\ import.at = "create"
  <2>1. import' = [import EXCEPT !.at = "undo"] /\ reported' = reported
    BY <1>3 DEF Fail, Failed
  <2>2. /\ import' \in Imports /\ import'.at = "undo" /\ import'.bundle = import.bundle
        /\ import'.instances = import.instances /\ import'.profiles = import.profiles
    BY <2>1 DEF ImpInv, Imports
  <2> QED
    BY <1>1, <1>3, <2>1, <2>2 DEF ImpInv, Awaited, Listed, Owners, Valid, Elements
<1>4. CASE op.by = "import" /\ import.at = "undo"
  <2>1. import' = Undone(op) /\ reported' = reported \cup {Target(op)}
    BY <1>4 DEF Fail, Failed
  <2>2. Target(op) \in Ids \cup Profiles
    <3>1. import.profiles \in Seq(Profiles) /\ import.instances \in Seq(Ids)
      BY DEF ImpInv, Imports
    <3>2. import.instances # <<>> => Last(import.instances) \in Ids
      BY <3>1, FrontLemma
    <3>3. import.profiles # <<>> => Last(import.profiles) \in Profiles
      BY <3>1, FrontLemma
    <3> QED
      BY <1>4, <3>2, <3>3 DEF ImpInv, Awaited, Target
  <2>3. reported \subseteq reported' /\ reported' \subseteq Ids \cup Profiles
    BY <2>1, <2>2 DEF ImpInv
  <2> QED
    BY <1>1, <1>4, <2>1, <2>3, UndoneImp
<1> QED
  BY <1>1, <1>2, <1>3, <1>4 DEF Ops, ImpInv, Awaited

(* What a deletion removed is nowhere recorded.                            *)
LEMMA Gone ==
  ASSUME RecInv, op # None, op.at = "remove"
  PROVE  Target(op) \notin Owners(saved) \cup saved.profiles
<1>1. AtRemove /\ Matches(Memory) /\ saved \in Memories
  BY DEF RecInv, RecTypes, OpOK, Visible
<1>2. Memory.instances = instances /\ Memory.profiles = profiles
  BY DEF Memory
<1>3. CASE op.id \in Ids /\ instances[op.id] = None
  <2>1. Target(op) = op.id /\ op.id \notin saved.profiles
    BY <1>1, <1>3, NoneAssumption, IdsAssumption DEF Target, Memories
  <2>2. SUFFICES ASSUME op.id \in Owners(saved) PROVE FALSE
    BY <2>1
  <2>3. saved.instances[op.id] \in Items
    BY <1>1, <2>2 DEF Owners, Memories
  <2>4. [saved.instances[op.id] EXCEPT !.selection = Chosen] \in Items
    BY <2>3 DEF Items
  <2> QED
    BY <1>1, <1>2, <1>3, <2>3, <2>4, NoneAssumption DEF Matches
<1>4. CASE op.id = None /\ op.profile \in Profiles \ profiles
  BY <1>1, <1>2, <1>4, IdsAssumption DEF Target, Matches, Owners
<1> QED
  BY <1>1, <1>3, <1>4 DEF AtRemove

LEMMA RemoveFilesImp == ASSUME RecInv, ImpInv, RemoveFiles PROVE ImpInv'
<1>1. /\ op # None /\ op.at = "remove" /\ op' = None /\ UNCHANGED <<saved, mine, reported>>
      /\ import' \in IF op.by = "client" THEN {import}
                     ELSE IF import.at = "create" THEN Created(op) ELSE {Undone(op)}
  BY DEF RemoveFiles, Succeed, history
<1>2. op \in Ops /\ op.do = "delete"
  BY <1>1 DEF RecInv, RecTypes, OpOK, AtRemove
<1>3. CASE op.by = "client"
  BY <1>1, <1>3 DEF ImpInv, Awaited, Listed, Owners, Valid, Elements
<1>4. CASE op.by = "import"
  <2>1. import.at = "undo"
    BY <1>1, <1>2, <1>4 DEF ImpInv, Awaited
  <2>2. Target(op) \notin mine
    BY <1>1, Gone DEF ImpInv
  <2> QED
    BY <1>1, <1>4, <2>1, <2>2, UndoneImp DEF ImpInv
<1> QED
  BY <1>2, <1>3, <1>4 DEF Ops

(* What is recorded once an operation is saved.                            *)
LEMMA SavedNext ==
  ASSUME RecInv, Save
  PROVE  /\ op.do = "delete" => Owners(saved) \cup saved.profiles \subseteq Owners(saved') \cup saved'.profiles \cup {Target(op)}
         /\ op.do # "delete" => Owners(saved) \cup saved.profiles \subseteq Owners(saved') \cup saved'.profiles
         /\ op.do = "create" => Target(op) \in Owners(saved') \cup saved'.profiles
         /\ op.do = "create" => (op.id # None => op.id \in Ids) /\ op.profile \in Profiles
<1>1. op # None /\ op.at = "save" /\ saved' = Memory
  BY DEF Save
<1>2. /\ AtSave /\ Memory.instances = instances /\ Memory.profiles = profiles
  BY <1>1, Saving DEF Memory
<1>3. /\ op \in Ops /\ Owners(op.before) = Owners(saved) /\ op.before.profiles = saved.profiles
      /\ op.before.instances \in [Ids -> Items \cup {None}]
      /\ instances \in [Ids -> Items \cup {None}]
  BY <1>1, Working
<1>4. CASE op.do = "create"
  <2>1. SavesNew /\ Creating
    BY <1>2, <1>4 DEF AtSave, SavesNew
  <2>2. CASE op.id = None
    BY <1>1, <1>2, <1>3, <1>4, <2>1, <2>2 DEF SavesNew, Creating, OwnProfile, Target, Owners
  <2>3. CASE op.id # None
    <3>1. op.id \in Ids /\ op.item \in Items /\ op.item # None
      BY <2>1, <2>3, NoneAssumption DEF Creating
    <3>2. instances = [op.before.instances EXCEPT ![op.id] = op.item]
      BY <2>1, <2>3, <1>2 DEF SavesNew, Filled
    <3>3. Owners(Memory) = Owners(op.before) \cup {op.id}
      BY <1>2, <1>3, <3>1, <3>2 DEF Owners
    <3> QED
      BY <1>1, <1>2, <1>3, <1>4, <2>1, <2>3, <3>1, <3>3 DEF SavesNew, Creating, Target
  <2> QED
    BY <2>2, <2>3
<1>5. CASE op.do = "change"
  <2>1. SavesChanged
    BY <1>2, <1>5 DEF AtSave
  <2>2. Owners(op.before) \subseteq Owners(Memory)
    BY <1>2, <2>1 DEF SavesChanged, Owners
  <2> QED
    BY <1>1, <1>2, <1>3, <1>5, <2>1, <2>2 DEF SavesChanged
<1>6. CASE op.do = "select"
  <2>1. SavesSelected
    BY <1>2, <1>6 DEF AtSave
  <2>2. \A j \in Owners(op.before) : instances[j] # None
    <3> TAKE j \in Owners(op.before)
    <3>1. op.before.instances[j] \in Items /\ op.id \in Ids /\ j \in Ids
      BY <1>3, <2>1 DEF Owners, SavesSelected
    <3>2. CASE j = op.id
      <4>1. [op.before.instances[j] EXCEPT !.selection = Chosen] \in Items
        BY <3>1 DEF Items
      <4>2. instances[j] = [op.before.instances[j] EXCEPT !.selection = Chosen]
        BY <1>3, <2>1, <3>1, <3>2 DEF SavesSelected
      <4> QED
        BY <4>1, <4>2, NoneAssumption
    <3>3. CASE j # op.id
      BY <1>3, <2>1, <3>1, <3>3, NoneAssumption DEF SavesSelected
    <3> QED
      BY <3>2, <3>3
  <2> QED
    BY <1>1, <1>2, <1>3, <1>6, <2>1, <2>2 DEF SavesSelected, Owners
<1>7. CASE op.do \in {"patch", "note"}
  BY <1>1, <1>2, <1>3, <1>7 DEF AtSave
<1>8. CASE op.do = "delete"
  <2>1. SavesDeleted
    BY <1>2, <1>8 DEF AtSave
  <2>2. CASE op.id = None
    BY <1>1, <1>2, <1>3, <1>8, <2>1, <2>2, NoneAssumption DEF SavesDeleted, Target, Owners
  <2>3. CASE op.id # None
    <3>1. /\ op.id \in Ids /\ profiles = op.before.profiles
          /\ instances = [op.before.instances EXCEPT ![op.id] = None]
      BY <2>1, <2>3 DEF SavesDeleted
    <3>2. Owners(op.before) \subseteq Owners(Memory) \cup {op.id}
      BY <1>2, <1>3, <3>1 DEF Owners
    <3> QED
      BY <1>1, <1>2, <1>3, <1>8, <2>3, <3>1, <3>2 DEF Target
  <2> QED
    BY <2>2, <2>3
<1> QED
  BY <1>3, <1>4, <1>5, <1>6, <1>7, <1>8 DEF Ops

LEMMA SaveImp == ASSUME RecInv, ImpInv, Save PROVE ImpInv'
<1>1. /\ op # None /\ op.at = "save" /\ UNCHANGED reported /\ op \in Ops
      /\ mine' = IF op.do = "delete" THEN mine \ {Target(op)}
                 ELSE IF op.do = "create" /\ op.by = "import" THEN mine \cup {Target(op)}
                 ELSE mine
  BY DEF Save, RecInv, RecTypes
<1>2. /\ op.do = "create" => Target(op) \in Ids \cup Profiles
      /\ mine' \subseteq Owners(saved)' \cup saved'.profiles
  BY <1>1, SavedNext DEF ImpInv, Target, Owners
<1>3. mine' \subseteq Ids \cup Profiles
  BY <1>1, <1>2 DEF ImpInv
<1>4. CASE op.do = "delete"
  <2>1. import' = import /\ op' = [op EXCEPT !.at = "remove"]
    BY <1>4 DEF Save
  <2>2. op'.do = op.do /\ op'.by = op.by /\ op'.id = op.id /\ op'.profile = op.profile
    BY <1>1, <2>1 DEF Ops
  <2>3. mine' \ reported' \subseteq Listed'
    BY <1>1, <1>4, <2>1 DEF ImpInv, Listed, Elements
  <2>4. Awaited'
    BY <1>1, <2>1, <2>2 DEF ImpInv, Awaited
  <2> QED
    BY <1>1, <1>2, <1>3, <2>1, <2>3, <2>4 DEF ImpInv, Valid
<1>5. CASE op.do # "delete" /\ op.by = "client"
  <2>1. import' = import /\ op' = None /\ mine' = mine
    BY <1>1, <1>5 DEF Save, Succeed
  <2> QED
    BY <1>1, <1>2, <1>3, <2>1 DEF ImpInv, Valid, Awaited, Listed, Elements
<1>6. CASE op.do # "delete" /\ op.by = "import"
  <2>1. import.at = "create" /\ op.do \in {"create", "patch"} /\ import \in Imports
    BY <1>1, <1>6 DEF ImpInv, Awaited
  <2>2. import' \in Created(op) /\ op' = None
    BY <1>6, <2>1 DEF Save, Succeed
  <2>3. import.profiles \in Seq(Profiles) /\ import.instances \in Seq(Ids)
    BY <2>1 DEF Imports
  <2>4. CASE op.do = "patch"
    <3>1. import' = [import EXCEPT !.patched = TRUE] /\ mine' = mine
      BY <1>1, <2>2, <2>4 DEF Created
    <3>2. /\ import' \in Imports /\ import'.at = import.at /\ import'.bundle = import.bundle
          /\ import'.profiles = import.profiles /\ import'.instances = import.instances
      BY <2>1, <3>1 DEF Imports
    <3> QED
      BY <1>1, <1>2, <1>3, <2>2, <3>1, <3>2 DEF ImpInv, Valid, Awaited, Listed, Elements
  <2>5. CASE op.do = "create" /\ op.id = None
    <3>1. PICK b \in BOOLEAN : import' = [import EXCEPT !.profiles = Append(@, op.profile), !.patched = b]
      BY <2>2, <2>5 DEF Created
    <3>2. /\ Append(import.profiles, op.profile) \in Seq(Profiles)
          /\ Elements(Append(import.profiles, op.profile)) = Elements(import.profiles) \cup {op.profile}
      BY <2>3, <2>5, SavedNext, AppendLemma
    <3>3. /\ import' \in Imports /\ import'.at = import.at /\ import'.bundle = import.bundle
          /\ import'.profiles = Append(import.profiles, op.profile) /\ import'.instances = import.instances
      BY <2>1, <3>1, <3>2 DEF Imports
    <3>4. mine' \ reported' \subseteq Listed'
      BY <1>1, <2>5, <3>2, <3>3 DEF ImpInv, Listed, Target
    <3> QED
      BY <1>1, <1>2, <1>3, <2>1, <2>2, <3>3, <3>4 DEF ImpInv, Valid, Awaited
  <2>6. CASE op.do = "create" /\ op.id # None
    <3>1. import' = [import EXCEPT !.instances = Append(@, op.id)]
      BY <2>2, <2>6 DEF Created
    <3>2. /\ Append(import.instances, op.id) \in Seq(Ids)
          /\ Elements(Append(import.instances, op.id)) = Elements(import.instances) \cup {op.id}
      BY <2>3, <2>6, SavedNext, AppendLemma
    <3>3. /\ import' \in Imports /\ import'.at = import.at /\ import'.bundle = import.bundle
          /\ import'.instances = Append(import.instances, op.id) /\ import'.profiles = import.profiles
      BY <2>1, <3>1, <3>2 DEF Imports
    <3>4. mine' \ reported' \subseteq Listed'
      BY <1>1, <2>6, <3>2, <3>3 DEF ImpInv, Listed, Target
    <3> QED
      BY <1>1, <1>2, <1>3, <2>1, <2>2, <3>3, <3>4 DEF ImpInv, Valid, Awaited
  <2> QED
    BY <2>1, <2>4, <2>5, <2>6
<1> QED
  BY <1>1, <1>4, <1>5, <1>6 DEF Ops

(* Whose operation begins, and what it is.                                 *)
LEMMA CreateBegins ==
  ASSUME NEW by \in {"client", "import"}, NEW p \in Profiles, NEW i, NEW s,
         CreateProfile(by, p) \/ CreateInstance(by, i, p, s)
  PROVE  op = None /\ saved' = saved /\ op'.by = by /\ op'.do = "create"
<1>1. CASE CreateProfile(by, p)
  BY <1>1 DEF CreateProfile, Begin, Request, disk
<1>2. CASE CreateInstance(by, i, p, s)
  <2>1. PICK fresh \in {p \notin profiles}, c \in FreePairs(i) :
          Begin([Request("create", IF fresh THEN "config" ELSE "mkdir", by) EXCEPT
                  !.id = i, !.profile = p, !.fresh = fresh,
                  !.item = [profile |-> p, mixed |-> c[1], controller |-> c[2], selection |-> s]])
    BY <1>2 DEF CreateInstance
  <2> QED
    BY <2>1 DEF Begin, Request, disk
<1> QED
  BY <1>1, <1>2

LEMMA DeleteBegins ==
  ASSUME NEW by \in {"client", "import"}, NEW i, Delete(by, i)
  PROVE  op = None /\ saved' = saved /\ op'.by = by /\ op'.do = "delete" /\ op'.id = i
BY DEF Delete, Begin, Request, disk

LEMMA DeleteProfileBegins ==
  ASSUME NEW by \in {"client", "import"}, NEW p, DeleteProfile(by, p)
  PROVE  op = None /\ saved' = saved /\ op'.by = by /\ op'.do = "delete" /\ op'.id = None /\ op'.profile = p
BY DEF DeleteProfile, Begin, Request, disk

LEMMA ClientStep ==
  ASSUME RecInv, ImpInv, Client
  PROVE  /\ RecInv' /\ ImpInv'
         /\ op = None /\ (op' # None => op'.at # "remove") /\ UNCHANGED <<import, reported>>
<1>1. UNCHANGED <<import, mine, reported, unsaved>>
  BY DEF Client, Quiet, history
<1>2. SUFFICES RecInv' /\ op = None /\ saved' = saved /\ op'.by = "client" /\ op'.at # "remove"
  <2>1. Awaited'
    BY <1>2 DEF Awaited
  <2> QED
    BY <1>1, <1>2, <2>1 DEF ImpInv, Listed, Elements, Owners, Valid
<1>3. ASSUME NEW p \in Profiles, CreateProfile("client", p) \/ DeleteProfile("client", p)
      PROVE  RecInv' /\ op = None /\ saved' = saved /\ op'.by = "client" /\ op'.at # "remove"
  <2>1. CASE CreateProfile("client", p)
    BY <1>1, <2>1, CreateProfileRec, CreateBegins DEF CreateProfile, Begin, Request
  <2>2. CASE DeleteProfile("client", p)
    BY <1>1, <2>2, DeleteProfileRec, DeleteProfileBegins DEF DeleteProfile, Begin, Request
  <2> QED
    BY <1>3, <2>1, <2>2
<1>4. ASSUME NEW i \in Ids, NEW p \in Profiles, NEW s \in {None, Chosen}, CreateInstance("client", i, p, s)
      PROVE  RecInv' /\ op = None /\ saved' = saved /\ op'.by = "client" /\ op'.at # "remove"
  <2>1. op'.at # "remove"
    <3>1. PICK fresh \in {p \notin profiles}, c \in FreePairs(i) :
            Begin([Request("create", IF fresh THEN "config" ELSE "mkdir", "client") EXCEPT
                    !.id = i, !.profile = p, !.fresh = fresh,
                    !.item = [profile |-> p, mixed |-> c[1], controller |-> c[2], selection |-> s]])
      BY <1>4 DEF CreateInstance
    <3> QED
      BY <3>1 DEF Begin, Request
  <2> QED
    BY <1>1, <1>4, <2>1, CreateInstanceRec, CreateBegins
<1>5. ASSUME NEW i \in Ids, NEW j \in Ids, Clone(i, j)
      PROVE  RecInv' /\ op = None /\ saved' = saved /\ op'.by = "client" /\ op'.at # "remove"
  <2>1. CreateInstance("client", i, instances[j].profile, instances[j].selection) /\ Present(j)
        /\ instances[j].profile \in profiles
    BY <1>5 DEF Clone
  <2>2. instances[j] \in Items /\ profiles \subseteq Profiles
    BY <2>1 DEF RecInv, RecTypes, Memory, Memories, Present
  <2>3. instances[j].profile \in Profiles /\ instances[j].selection \in {None, Chosen}
    BY <2>2 DEF Items
  <2> QED
    BY <1>4, <2>1, <2>3
<1>6. ASSUME NEW i \in Ids, Change(i) \/ SetSelection(i) \/ Delete("client", i)
      PROVE  RecInv' /\ op = None /\ saved' = saved /\ op'.by = "client" /\ op'.at # "remove"
  <2>1. CASE Change(i)
    BY <1>1, <2>1, ChangeRec DEF Change, Begin, Request, disk
  <2>2. CASE SetSelection(i)
    BY <1>1, <2>2, SetSelectionRec DEF SetSelection, Begin, Request, disk
  <2>3. CASE Delete("client", i)
    BY <1>1, <2>3, DeleteRec DEF Delete, Begin, Request, disk
  <2> QED
    BY <1>6, <2>1, <2>2, <2>3
<1>7. CASE Note
  <2>1. op = None /\ saved' = saved /\ op'.by = "client" /\ op'.at # "remove"
    BY <1>7 DEF Note, Begin, Request, disk
  <2> QED
    BY <1>1, <1>7, <2>1, NoteRec
<1> QED
  BY <1>3, <1>4, <1>5, <1>6, <1>7 DEF Client

LEMMA OpStep ==
  ASSUME RecInv, ImpInv, Step
  PROVE  RecInv' /\ ImpInv'
<1>1. CASE WriteConfig
  <2>1. /\ op \in Ops /\ UNCHANGED <<saved, import, mine, reported>>
        /\ op' = [op EXCEPT !.at = IF op.id = None THEN "save" ELSE "mkdir"]
    BY <1>1 DEF WriteConfig, history, RecInv, RecTypes
  <2>2. op # None /\ op'.do = op.do /\ op'.by = op.by /\ op'.id = op.id /\ op'.profile = op.profile
    BY <1>1, <2>1 DEF Ops, WriteConfig
  <2>3. Awaited'
    BY <2>1, <2>2 DEF ImpInv, Awaited
  <2> QED
    BY <1>1, <2>1, <2>3, WriteConfigRec DEF ImpInv, Listed, Elements, Owners, Valid
<1>2. CASE MakeDir
  <2>1. /\ op \in Ops /\ UNCHANGED <<saved, import, mine, reported>>
        /\ op' = [op EXCEPT !.at = "save"]
    BY <1>2 DEF MakeDir, history, RecInv, RecTypes
  <2>2. op # None /\ op'.do = op.do /\ op'.by = op.by /\ op'.id = op.id /\ op'.profile = op.profile
    BY <1>2, <2>1 DEF Ops, MakeDir
  <2>3. Awaited'
    BY <2>1, <2>2 DEF ImpInv, Awaited
  <2> QED
    BY <1>2, <2>1, <2>3, MakeDirRec DEF ImpInv, Listed, Elements, Owners, Valid
<1>3. CASE WriteConfigFails
  BY <1>3, WriteConfigFailsRec, FailImp DEF WriteConfigFails, disk
<1>4. CASE MakeDirFails
  BY <1>4, MakeDirFailsRec, FailImp DEF MakeDirFails
<1>5. CASE Save
  BY <1>5, SaveRec, SaveImp
<1>6. CASE SaveFails
  BY <1>6, SaveFailsRec, FailImp DEF SaveFails
<1>7. CASE RemoveFiles
  BY <1>7, RemoveFilesRec, RemoveFilesImp
<1>8. CASE RemoveFilesFails
  BY <1>8, RemoveFilesRec, FailImp DEF RemoveFilesFails, disk
<1> QED
  BY <1>1, <1>2, <1>3, <1>4, <1>5, <1>6, <1>7, <1>8 DEF Step

(* The steps of an import that start an operation of the Store.            *)
ImportCalls == ImportProfile \/ ImportPatch \/ ImportInstance \/ UndoInstance \/ UndoProfile

LEMMA ImportCallStep ==
  ASSUME RecInv, ImpInv, ImportCalls
  PROVE  /\ RecInv' /\ ImpInv'
         /\ op = None /\ op'.at # "remove" /\ UNCHANGED <<import, reported>>
<1>1. UNCHANGED <<import, mine, reported, unsaved>>
  BY DEF ImportCalls, ImportProfile, ImportPatch, ImportInstance, UndoInstance, UndoProfile, Quiet, history
<1>2. SUFFICES RecInv' /\ op = None /\ saved' = saved /\ Awaited' /\ op'.at # "remove"
  BY <1>1 DEF ImpInv, Listed, Elements, Owners, Valid
<1>3. import.profiles \in Seq(Profiles) /\ import.instances \in Seq(Ids) /\ import \in Imports
  BY DEF ImpInv, Imports
<1>4. CASE ImportProfile
  <2>1. PICK p \in Profiles : CreateProfile("import", p)
    BY <1>4 DEF ImportProfile
  <2>2. op'.at # "remove"
    BY <2>1 DEF CreateProfile, Begin, Request
  <2>3. op'.do = "create" /\ op = None /\ saved' = saved /\ RecInv'
    BY <1>1, <2>1, CreateBegins, CreateProfileRec
  <2>4. Awaited'
    BY <1>1, <1>4, <2>3 DEF Awaited, ImportProfile, Create
  <2> QED
    BY <2>2, <2>3, <2>4
<1>5. CASE ImportPatch
  <2>1. op = None /\ saved' = saved /\ op'.do = "patch" /\ op'.at # "remove"
    BY <1>5 DEF ImportPatch, Begin, Request, disk
  <2>2. Awaited'
    BY <1>1, <1>5, <2>1 DEF Awaited, ImportPatch, Create
  <2> QED
    BY <1>1, <1>5, <2>1, <2>2, PatchRec
<1>6. CASE ImportInstance
  <2>1. PICK i \in Ids, s \in {None, Chosen} : CreateInstance("import", i, NextProfile, s)
    BY <1>6 DEF ImportInstance
  <2>2. NextProfile \in Profiles
    BY <1>6 DEF ImportInstance, RecInv, RecTypes, Memory, Memories
  <2>3. op'.do = "create" /\ op = None /\ saved' = saved /\ RecInv'
    BY <1>1, <2>1, <2>2, CreateBegins, CreateInstanceRec
  <2>4. Awaited'
    BY <1>1, <1>6, <2>3 DEF Awaited, ImportInstance, ProfilesDone, Create
  <2>5. op'.at # "remove"
    <3>1. PICK fresh \in {NextProfile \notin profiles}, c \in FreePairs(i) :
            Begin([Request("create", IF fresh THEN "config" ELSE "mkdir", "import") EXCEPT
                    !.id = i, !.profile = NextProfile, !.fresh = fresh,
                    !.item = [profile |-> NextProfile, mixed |-> c[1], controller |-> c[2], selection |-> s]])
      BY <2>1 DEF CreateInstance
    <3> QED
      BY <3>1 DEF Begin, Request
  <2> QED
    BY <2>3, <2>4, <2>5
<1>7. CASE UndoInstance
  <2>1. /\ import.at = "undo" /\ import.instances # <<>>
        /\ Delete("import", Last(import.instances))
    BY <1>7 DEF UndoInstance, UndoingInstances, Undo
  <2>2. Last(import.instances) \in Ids
    BY <1>3, <2>1, FrontLemma
  <2>3. /\ op = None /\ saved' = saved /\ op'.do = "delete" /\ op'.id = Last(import.instances)
        /\ RecInv'
    BY <1>1, <2>1, <2>2, DeleteBegins, DeleteRec
  <2>4. op'.at # "remove"
    BY <2>1 DEF Delete, Begin, Request
  <2>5. Awaited'
    BY <1>1, <2>1, <2>2, <2>3, NoneAssumption DEF Awaited
  <2> QED
    BY <2>3, <2>4, <2>5
<1>8. CASE UndoProfile
  <2>1. /\ import.at = "undo" /\ import.instances = <<>> /\ import.profiles # <<>>
        /\ DeleteProfile("import", Last(import.profiles))
    BY <1>8 DEF UndoProfile, UndoingProfiles, Undo
  <2>2. Last(import.profiles) \in Profiles
    BY <1>3, <2>1, FrontLemma
  <2>3. /\ op = None /\ saved' = saved /\ op'.do = "delete" /\ op'.id = None
        /\ op'.profile = Last(import.profiles) /\ RecInv'
    BY <1>1, <2>1, <2>2, DeleteProfileBegins, DeleteProfileRec
  <2>4. op'.at # "remove"
    BY <2>1 DEF DeleteProfile, Begin, Request
  <2>5. Awaited'
    BY <1>1, <2>1, <2>3 DEF Awaited
  <2> QED
    BY <2>3, <2>4, <2>5
<1> QED
  BY <1>4, <1>5, <1>6, <1>7, <1>8 DEF ImportCalls

(* The steps of an import between the operations.                          *)
ImportTurns == ImportBegin \/ ImportRefused \/ ImportDone \/ UndoNothing \/ UndoRefused \/ UndoDone

LEMMA ImportTurnStep ==
  ASSUME RecInv, ImpInv, ImportTurns
  PROVE  RecInv' /\ ImpInv' /\ UNCHANGED <<memory, disk, op, unsaved>>
<1>1. UNCHANGED <<memory, disk, op, unsaved>>
  BY DEF ImportTurns, ImportBegin, ImportRefused, ImportDone, UndoNothing, UndoRefused, UndoDone, history
<1>2. UNCHANGED <<instances, profiles, saved, op>> /\ RecInv'
  BY <1>1, SameRec DEF memory, disk
<1> SUFFICES ImpInv'
  BY <1>1, <1>2
<1>3. import.profiles \in Seq(Profiles) /\ import.instances \in Seq(Ids) /\ import \in Imports
  BY DEF ImpInv, Imports
<1>4. NoImport \in Imports /\ NoImport.at = "idle" /\ NoImport.profiles = <<>> /\ NoImport.instances = <<>>
  BY DEF NoImport, Imports
<1>5. CASE ImportBegin
  <2>1. PICK b \in Bundles : Valid(b) /\ import' = [NoImport EXCEPT !.at = "create", !.bundle = b]
    BY <1>5 DEF ImportBegin
  <2>2. /\ import' \in Imports /\ import'.at = "create" /\ import'.bundle = b
        /\ import'.profiles = <<>> /\ import'.instances = <<>>
    <3>1. import' = [at |-> "create", bundle |-> b, profiles |-> <<>>, instances |-> <<>>, patched |-> TRUE]
      BY <2>1 DEF NoImport
    <3>2. <<>> \in Seq(Profiles) /\ <<>> \in Seq(Ids)
      OBVIOUS
    <3>3. import' \in Imports
      BY <3>1, <3>2 DEF Imports
    <3> QED
      BY <3>1, <3>3
  <2>3. mine' = {} /\ reported' = {} /\ import = NoImport
    BY <1>5 DEF ImportBegin
  <2>4. op = None \/ op.by # "import"
    BY <1>4, <2>3 DEF ImpInv, Awaited
  <2> QED
    BY <1>1, <1>2, <2>1, <2>2, <2>3, <2>4 DEF ImpInv, Awaited, Valid
<1>6. CASE ImportRefused
  <2>1. import' = [import EXCEPT !.at = "undo"] /\ op = None /\ UNCHANGED <<mine, reported>>
        /\ import.at = "create"
    BY <1>6 DEF ImportRefused, history, Create, ProfilesDone
  <2>2. /\ import' \in Imports /\ import'.at = "undo" /\ import'.bundle = import.bundle
        /\ import'.profiles = import.profiles /\ import'.instances = import.instances
    BY <1>3, <2>1 DEF Imports
  <2> QED
    BY <1>2, <2>1, <2>2 DEF ImpInv, Awaited, Listed, Elements, Owners, Valid
<1>7. CASE ImportDone
  BY <1>2, <1>4, <1>7 DEF ImportDone, ImpInv, Awaited
<1>8. CASE UndoNothing
  <2>1. /\ import.at = "undo" /\ import.instances # <<>> /\ op = None
        /\ ~Present(Last(import.instances))
        /\ import' = [import EXCEPT !.instances = Front(@)]
        /\ UNCHANGED <<mine, reported>>
    BY <1>8 DEF UndoNothing, UndoingInstances, Undo, history
  <2>2. /\ Front(import.instances) \in Seq(Ids) /\ Last(import.instances) \in Ids
        /\ Elements(import.instances) = Elements(Front(import.instances)) \cup {Last(import.instances)}
    BY <1>3, <2>1, FrontLemma
  <2>3. /\ import' \in Imports /\ import'.at = "undo" /\ import'.bundle = import.bundle
        /\ import'.profiles = import.profiles /\ import'.instances = Front(import.instances)
    BY <1>3, <2>1, <2>2 DEF Imports
  <2>4. Last(import.instances) \notin Owners(saved) \cup saved.profiles
    <3>1. Matches(Memory) /\ saved \in Memories
      BY <2>1 DEF RecInv, RecTypes, Visible
    <3>2. Last(import.instances) \notin saved.profiles
      BY <2>2, <3>1, IdsAssumption DEF Memories
    <3>3. SUFFICES ASSUME Last(import.instances) \in Owners(saved) PROVE FALSE
      BY <3>2
    <3>4. saved.instances[Last(import.instances)] \in Items
      BY <2>2, <3>1, <3>3 DEF Owners, Memories
    <3>5. [saved.instances[Last(import.instances)] EXCEPT !.selection = Chosen] \in Items
      BY <3>4 DEF Items
    <3> QED
      BY <2>1, <2>2, <3>1, <3>4, <3>5, NoneAssumption DEF Matches, Memory, Present
  <2>5. mine' \ reported' \subseteq Listed'
    BY <2>1, <2>2, <2>3, <2>4 DEF ImpInv, Listed
  <2> QED
    BY <1>2, <2>1, <2>3, <2>5 DEF ImpInv, Awaited, Owners, Valid
<1>9. CASE UndoRefused
  <2>1. /\ import.at = "undo" /\ import.profiles # <<>> /\ import.instances = <<>> /\ op = None
        /\ import' = [import EXCEPT !.profiles = Front(@)]
        /\ reported' = reported \cup {Last(import.profiles)} /\ mine' = mine
    BY <1>9 DEF UndoRefused, UndoingProfiles, Undo
  <2>2. /\ Front(import.profiles) \in Seq(Profiles) /\ Last(import.profiles) \in Profiles
        /\ Elements(import.profiles) = Elements(Front(import.profiles)) \cup {Last(import.profiles)}
    BY <1>3, <2>1, FrontLemma
  <2>3. /\ import' \in Imports /\ import'.at = "undo" /\ import'.bundle = import.bundle
        /\ import'.instances = import.instances /\ import'.profiles = Front(import.profiles)
    BY <1>3, <2>1, <2>2 DEF Imports
  <2>4. mine' \ reported' \subseteq Listed'
    BY <2>1, <2>2, <2>3 DEF ImpInv, Listed
  <2> QED
    BY <1>2, <2>1, <2>2, <2>3, <2>4 DEF ImpInv, Awaited, Owners, Valid
<1>10. CASE UndoDone
  <2>1. /\ import' = NoImport /\ op = None /\ UNCHANGED <<mine, reported>>
        /\ import.instances = <<>> /\ import.profiles = <<>>
    BY <1>10 DEF UndoDone, Undo, history
  <2>2. Listed' = Listed
    BY <1>4, <2>1 DEF Listed
  <2> QED
    BY <1>2, <1>4, <2>1, <2>2 DEF ImpInv, Awaited, Owners
<1> QED
  BY <1>1, <1>2, <1>5, <1>6, <1>7, <1>8, <1>9, <1>10 DEF ImportTurns

LEMMA RestartImp == ASSUME RecInv, ImpInv, Restart PROVE ImpInv'
<1>1. NoImport \in Imports /\ NoImport.at = "idle" /\ NoImport.profiles = <<>> /\ NoImport.instances = <<>>
  BY DEF NoImport, Imports
<1> QED
  BY <1>1 DEF Restart, ImpInv, Awaited

-----------------------------------------------------------------------------
(* The theorems.                                                           *)

(* The invariant is inductive and holds: what an operation under way can   *)
(* undo, and what the import still has to.                                 *)
THEOREM InvariantHolds == Spec => []IInv
<1>1. Init => IInv
  BY InitRec, InitImp DEF IInv
<1>2. IInv /\ [Next]_vars => IInv'
  <2> SUFFICES ASSUME IInv, [Next]_vars PROVE IInv'
    OBVIOUS
  <2> USE DEF IInv
  <2>1. CASE Client
    BY <2>1, ClientStep
  <2>2. CASE Step
    BY <2>2, OpStep
  <2>3. CASE Import
    BY <2>3, ImportCallStep, ImportTurnStep DEF Import, ImportCalls, ImportTurns
  <2>4. CASE Restart
    BY <2>4, RestartRec, RestartImp
  <2>5. CASE UNCHANGED vars
    <3>1. UNCHANGED <<memory, disk, op, unsaved>>
      BY <2>5 DEF vars, memory, disk
    <3>2. RecInv'
      BY <3>1, SameRec
    <3>3. ImpInv'
      BY <2>5 DEF vars, ImpInv, Awaited, Listed, Elements, Owners, Valid
    <3> QED
      BY <3>2, <3>3
  <2> QED
    BY <2>1, <2>2, <2>3, <2>4, <2>5 DEF Next
<1> QED
  BY <1>1, <1>2, PTL DEF Spec

(* Every state of Records is type-correct.                                 *)
THEOREM TypeCorrect == Spec => []TypeOK
<1>1. IInv => TypeOK
  BY DEF IInv, RecInv, RecTypes, ImpInv, TypeOK
<1> QED
  BY <1>1, InvariantHolds, PTL

(* Whatever fails and whenever the controller dies, no instance is without *)
(* its profile and nothing in instances.json without its files.            *)
THEOREM NothingDangles == Spec => []References
<1>1. IInv => References
  BY DEF IInv, RecInv
<1> QED
  BY <1>1, InvariantHolds, PTL

(* No two instances are ever given one port.                               *)
THEOREM NoPortTwice == Spec => []PortsDiffer
<1>1. IInv => PortsDiffer
  BY DEF IInv, RecInv
<1> QED
  BY <1>1, InvariantHolds, PTL

(* Between operations, memory and instances.json agree except on           *)
(* selections and error messages that a save refused.                      *)
THEOREM MemorySaved == Spec => []MemoryIsSaved
<1>1. IInv => MemoryIsSaved
  BY DEF IInv, RecInv, MemoryIsSaved, Visible
<1> QED
  BY <1>1, InvariantHolds, PTL

(* An export finds every file, and its bundle names no unknown profile.    *)
THEOREM ExportsWhole == Spec => []ExportIsWhole
<1>1. IInv => ExportIsWhole
  BY DEF IInv, RecInv, References, ExportIsWhole, Exported, Grounded, Matches, Visible, Memory
<1> QED
  BY <1>1, InvariantHolds, PTL

(* A failed import leaves nothing behind that it does not report, for any  *)
(* bundles and whatever other clients do meanwhile.                        *)
THEOREM ImportsUndone == Spec => []FailedImportUndone
<1>1. IInv => FailedImportUndone
  BY DEF IInv, ImpInv, FailedImportUndone, Listed, Elements
<1> QED
  BY <1>1, InvariantHolds, PTL

(* A rollback passes over a profile only if someone else uses it: the      *)
(* instances that this import created, and did not report, are gone.       *)
THEOREM OthersOnly == Spec => BlockedByOthersOnly
<1>1. ASSUME IInv, [Next]_vars, NEW p \in Profiles,
             p \in reported', p \notin reported, op = None, p \in profiles
      PROVE  \E i \in Ids : Present(i) /\ instances[i].profile = p /\ i \notin mine \ reported
  <2>1. ~Client /\ ~ImportCalls /\ ~Step /\ ~Restart /\ ~UNCHANGED vars
    BY <1>1, ClientStep, ImportCallStep
       DEF IInv, Step, WriteConfig, WriteConfigFails, MakeDir, MakeDirFails, Save, SaveFails, RemoveFiles,
           RemoveFilesFails, Restart, vars
  <2>2. UndoRefused
    BY <1>1, <2>1 DEF Next, Import, ImportCalls, ImportBegin, ImportRefused, ImportDone, UndoNothing, UndoDone, history
  <2>3. /\ import.instances = <<>> /\ p = Last(import.profiles)
        /\ Last(import.profiles) \in profiles => InUse(Last(import.profiles))
    BY <1>1, <2>2 DEF UndoRefused, UndoingProfiles
  <2>4. PICK i \in Ids : Present(i) /\ instances[i].profile = p
    BY <1>1, <2>3 DEF InUse
  <2>5. mine \ reported \subseteq Profiles
    BY <1>1, <2>3 DEF IInv, ImpInv, Imports, Listed, Elements
  <2> QED
    BY <2>4, <2>5, IdsAssumption
<1>2. IInv /\ [Next]_vars =>
        [\A p \in Profiles :
           p \in reported' \ reported /\ op = None /\ p \in profiles =>
             \E i \in Ids : Present(i) /\ instances[i].profile = p /\ i \notin mine \ reported]_vars
  BY <1>1
<1> QED
  BY <1>2, InvariantHolds, PTL DEF Spec, BlockedByOthersOnly

-----------------------------------------------------------------------------
(* Records implements Fleet: what Fleet sees is what instances.json says.  *)

Cell(x) == IF x = None THEN None ELSE Plain(x)

Cells(m) == [i \in Ids |-> Cell(m.instances[i])]

LEMMA SameCells ==
  ASSUME NEW m, NEW s \in Memories,
         \A i \in Ids : \/ m.instances[i] = s.instances[i]
                        \/ /\ s.instances[i] # None
                           /\ m.instances[i] = [s.instances[i] EXCEPT !.selection = Chosen]
  PROVE  Cells(m) = Cells(s)
<1> SUFFICES ASSUME NEW i \in Ids PROVE Cell(m.instances[i]) = Cell(s.instances[i])
  BY DEF Cells
<1>1. CASE s.instances[i] # None /\ m.instances[i] = [s.instances[i] EXCEPT !.selection = Chosen]
  <2>1. s.instances[i] \in Items
    BY <1>1 DEF Memories
  <2>2. [s.instances[i] EXCEPT !.selection = Chosen] \in Items
    BY <2>1 DEF Items
  <2>3. m.instances[i] # None
    BY <1>1, <2>2, NoneAssumption
  <2> QED
    BY <1>1, <2>1, <2>3 DEF Cell, Plain, Items
<1> QED
  BY <1>1

LEMMA ViewIsSaved == ASSUME RecInv PROVE Cells(Visible) = Cells(saved) /\ Visible.profiles = saved.profiles
<1>1. saved \in Memories /\ Matches(Visible)
  BY DEF RecInv, RecTypes
<1>2. \A i \in Ids : \/ Visible.instances[i] = saved.instances[i]
                     \/ /\ saved.instances[i] # None
                        /\ Visible.instances[i] = [saved.instances[i] EXCEPT !.selection = Chosen]
  BY <1>1 DEF Matches, Owners
<1> QED
  BY <1>1, <1>2, SameCells DEF Matches

LEMMA FleetStutters ==
  ASSUME RecInv, RecInv', saved' = saved
  PROVE  UNCHANGED FleetView!fleet
<1>1. saved' \in Memories /\ Matches(Visible)'
  BY DEF RecInv, RecTypes
<1>2. \A i \in Ids : \/ Visible'.instances[i] = saved'.instances[i]
                     \/ /\ saved'.instances[i] # None
                        /\ Visible'.instances[i] = [saved'.instances[i] EXCEPT !.selection = Chosen]
  BY <1>1 DEF Matches, Owners
<1>3. Cells(Visible') = Cells(saved') /\ Visible'.profiles = saved'.profiles
  BY <1>1, <1>2, SameCells DEF Matches
<1>4. Cells(Visible') = Cells(Visible) /\ Visible'.profiles = Visible.profiles
  BY <1>3, ViewIsSaved
<1> QED
  BY <1>4 DEF FleetView!fleet, Cells, Cell

(* One instance is recorded, anew or changed, perhaps with its profile.    *)
LEMMA PutsOne ==
  ASSUME RecInv, op # None, op.at = "save", Visible' = Memory, NEW n \in Ids, op.id = n,
         op.id \in Owners(Memory),
         \A j \in Ids \ {op.id} : instances[j] = op.before.instances[j],
         profiles = op.before.profiles \cup {instances[op.id].profile} \/ profiles = op.before.profiles
  PROVE  FleetView!Put(n)
<1> DEFINE x == Plain(instances[op.id])
<1>1. /\ Visible = op.before /\ op.id \in Ids
      /\ instances \in [Ids -> Items \cup {None}] /\ op.before.instances \in [Ids -> Items \cup {None}]
      /\ Memory.instances = instances /\ Memory.profiles = profiles
  BY Working DEF Visible, Owners, Memory
<1>2. instances[op.id] \in Items /\ instances[op.id] # None
  BY <1>1 DEF Owners
<1>3. x \in FleetView!Items
  BY <1>2 DEF Items, FleetView!Items, Plain
<1>4. /\ x.profile = instances[op.id].profile /\ x.mixed = instances[op.id].mixed
      /\ x.controller = instances[op.id].controller
  BY DEF Plain
<1>5. FleetView!Fits(n, x)
  <2>1. x.mixed # x.controller
    BY <1>1, <1>4 DEF RecInv, PortsDiffer, Apart
  <2>2. ASSUME NEW j \in Ids \ {op.id}, op.before.instances[j] # None
        PROVE  {x.mixed, x.controller} \cap
                 {Plain(op.before.instances[j]).mixed, Plain(op.before.instances[j]).controller} = {}
    <3>1. j \in Owners(Memory) \ {op.id} /\ instances[j] = op.before.instances[j]
      BY <1>1, <2>2 DEF Owners
    <3>2. PortsOf(instances[op.id]) \cap PortsOf(instances[j]) = {}
      BY <1>1, <3>1 DEF RecInv, PortsDiffer, Apart
    <3> QED
      BY <1>4, <3>1, <3>2 DEF PortsOf, Plain
  <2> HIDE DEF x
  <2> QED
    BY <1>1, <2>1, <2>2 DEF FleetView!Fits
<1>6. Cells(Visible') = [Cells(Visible) EXCEPT ![op.id] = x]
  BY <1>1, <1>2 DEF Cells, Cell
<1>7. x.profile \in profiles
  BY <1>1, <1>4 DEF RecInv, References, Grounded
<1>8. Visible'.profiles = profiles /\ Visible.profiles = op.before.profiles
  BY <1>1
<1> HIDE DEF x
<1> QED
  BY <1>3, <1>4, <1>5, <1>6, <1>7, <1>8 DEF FleetView!Put, Cells, Cell

LEMMA FleetSave == ASSUME RecInv, Save PROVE FleetView!Next \/ UNCHANGED FleetView!fleet
<1>1. /\ op # None /\ op.at = "save"
      /\ UNCHANGED <<instances, profiles>>
      /\ IF op.do = "delete" THEN op' = [op EXCEPT !.at = "remove"] ELSE op' = None
  BY DEF Save, memory, Succeed
<1>2. /\ AtSave /\ op \in Ops /\ Visible = op.before
      /\ instances \in [Ids -> Items \cup {None}] /\ op.before.instances \in [Ids -> Items \cup {None}]
      /\ op.before \in Memories /\ profiles \subseteq Profiles
  BY <1>1, Saving, Working DEF Visible
<1>3. Visible' = Memory
  <2>1. op' = None \/ op'.at = "remove"
    BY <1>1, <1>2 DEF Ops
  <2> QED
    BY <1>1, <2>1 DEF Visible, Memory
<1>4. Memory.instances = instances /\ Memory.profiles = profiles
  BY DEF Memory
<1>5. CASE op.do = "create" /\ op.id = None
  <2>1. /\ op.profile \in Profiles /\ instances = op.before.instances
        /\ profiles = op.before.profiles \cup {op.profile}
    BY <1>2, <1>5 DEF AtSave, SavesNew, Creating, OwnProfile
  <2>2. Cells(Visible') = Cells(Visible) /\ Visible'.profiles = Visible.profiles \cup {op.profile}
    BY <1>2, <1>3, <1>4, <2>1 DEF Cells
  <2>3. FleetView!AddProfile(op.profile)
    BY <2>2 DEF FleetView!AddProfile, Cells, Cell
  <2> QED
    BY <2>1, <2>3 DEF FleetView!Next
<1>6. CASE op.do = "create" /\ op.id # None
  <2>1. /\ op.id \in Ids /\ op.item \in Items /\ op.item.profile = op.profile
        /\ instances = [op.before.instances EXCEPT ![op.id] = op.item]
        /\ profiles = op.before.profiles \cup OwnProfile
    BY <1>2, <1>4, <1>6 DEF AtSave, SavesNew, Creating, Filled
  <2>2. instances[op.id] = op.item /\ op.item # None
    BY <1>2, <2>1, NoneAssumption
  <2>3. op.id \in Owners(Memory)
    BY <1>4, <2>1, <2>2 DEF Owners
  <2>4. profiles = op.before.profiles \cup {instances[op.id].profile} \/ profiles = op.before.profiles
    BY <2>1, <2>2 DEF OwnProfile
  <2>5. PICK n \in Ids : n = op.id
    BY <2>1
  <2>6. FleetView!Put(n)
    BY <1>1, <1>2, <1>3, <2>1, <2>3, <2>4, <2>5, PutsOne
  <2> QED
    BY <2>6 DEF FleetView!Next
<1>7. CASE op.do = "change"
  <2>1. /\ op.id \in Owners(Memory) /\ profiles = op.before.profiles
        /\ \A j \in Ids \ {op.id} : instances[j] = op.before.instances[j]
    BY <1>2, <1>7 DEF AtSave, SavesChanged
  <2>2. PICK n \in Ids : n = op.id
    BY <2>1 DEF Owners
  <2>3. FleetView!Put(n)
    BY <1>1, <1>3, <2>1, <2>2, PutsOne
  <2> QED
    BY <2>3 DEF FleetView!Next
<1>8. CASE op.do = "select"
  <2>1. /\ op.id \in Ids /\ op.before.instances[op.id] # None /\ profiles = op.before.profiles
        /\ instances = [op.before.instances EXCEPT ![op.id].selection = Chosen]
    BY <1>2, <1>8 DEF AtSave, SavesSelected, Owners
  <2>2. \A i \in Ids : \/ instances[i] = op.before.instances[i]
                       \/ /\ op.before.instances[i] # None
                          /\ instances[i] = [op.before.instances[i] EXCEPT !.selection = Chosen]
    BY <1>2, <2>1
  <2>3. Cells(Visible') = Cells(Visible) /\ Visible'.profiles = Visible.profiles
    BY <1>2, <1>3, <1>4, <2>1, <2>2, SameCells
  <2> QED
    BY <2>3 DEF FleetView!fleet, Cells, Cell
<1>9. CASE op.do \in {"patch", "note"}
  <2>1. Visible' = Visible
    BY <1>2, <1>3, <1>9 DEF AtSave
  <2> QED
    BY <2>1 DEF FleetView!fleet
<1>10. CASE op.do = "delete"
  <2>1. CASE /\ op.id \in Ids /\ profiles = op.before.profiles
             /\ instances = [op.before.instances EXCEPT ![op.id] = None]
    <3>1. PICK n \in Ids : n = op.id
      BY <2>1
    <3>2. instances[n] = None /\ \A i \in Ids \ {n} : instances[i] = op.before.instances[i]
      BY <1>2, <2>1, <3>1
    <3>3. Cells(Visible') = [Cells(Visible) EXCEPT ![n] = None]
      BY <1>2, <1>3, <1>4, <3>2 DEF Cells, Cell
    <3>4. Visible'.profiles = Visible.profiles
      BY <1>2, <1>3, <1>4, <2>1
    <3>5. FleetView!Remove(n)
      BY <3>3, <3>4 DEF FleetView!Remove, Cells, Cell
    <3> QED
      BY <3>5 DEF FleetView!Next
  <2>2. CASE /\ op.profile \in Profiles /\ instances = op.before.instances
             /\ profiles = op.before.profiles \ {op.profile}
    <3>1. Cells(Visible') = Cells(Visible) /\ Visible'.profiles = Visible.profiles \ {op.profile}
      BY <1>2, <1>3, <1>4, <2>2 DEF Cells
    <3>2. \A i \in Ids : op.before.instances[i] # None => op.before.instances[i].profile # op.profile
      BY <1>4, <2>2 DEF RecInv, References, Grounded, Owners
    <3>3. \A i \in Ids : Cells(Visible)[i] # None => Cells(Visible)[i].profile # op.profile
      BY <1>2, <3>2 DEF Cells, Cell, Plain
    <3>4. FleetView!RemoveProfile(op.profile)
      BY <3>1, <3>3 DEF FleetView!RemoveProfile, Cells, Cell
    <3> QED
      BY <2>2, <3>4 DEF FleetView!Next
  <2> QED
    BY <1>2, <1>10, <2>1, <2>2 DEF AtSave, SavesDeleted
<1> QED
  BY <1>2, <1>5, <1>6, <1>7, <1>8, <1>9, <1>10 DEF Ops

(* Nothing but Save replaces instances.json.                               *)
LEMMA ClientSaved == ASSUME Client PROVE saved' = saved
<1>1. ASSUME NEW i, NEW p, NEW s, CreateInstance("client", i, p, s) PROVE saved' = saved
  BY <1>1 DEF CreateInstance, Begin, disk
<1>2. ASSUME NEW i, NEW j, Clone(i, j) PROVE saved' = saved
  BY <1>1, <1>2 DEF Clone
<1> QED
  BY <1>1, <1>2 DEF Client, CreateProfile, DeleteProfile, Change, SetSelection, Note, Delete, Begin, disk

LEMMA ImportSaved == ASSUME Import PROVE saved' = saved
<1>1. CASE ImportInstance
  BY <1>1 DEF ImportInstance, CreateInstance, Begin, disk
<1>2. CASE ~ImportInstance
  BY <1>2 DEF Import, ImportBegin, ImportProfile, ImportPatch, ImportRefused, ImportDone, UndoInstance, UndoNothing,
              UndoProfile, UndoRefused, UndoDone, CreateProfile, Delete, DeleteProfile, Begin, disk
<1> QED
  BY <1>1, <1>2

FleetStep == [FleetView!Next]_(FleetView!fleet)

LEMMA StepsMap == ASSUME IInv, IInv', [Next]_vars PROVE FleetStep
<1>1. CASE Save
  BY <1>1, FleetSave DEF IInv, FleetStep
<1>2. CASE ~Save
  <2>1. CASE Client
    <3>1. saved' = saved
      BY <2>1, ClientSaved
    <3> QED
      BY <3>1, FleetStutters DEF IInv, FleetStep
  <2>2. CASE Step
    <3>1. saved' = saved
      BY <1>2, <2>2 DEF Step, WriteConfig, WriteConfigFails, MakeDir, MakeDirFails, SaveFails, RemoveFiles,
           RemoveFilesFails, disk
    <3> QED
      BY <3>1, FleetStutters DEF IInv, FleetStep
  <2>3. CASE Import
    <3>1. saved' = saved
      BY <2>3, ImportSaved
    <3> QED
      BY <3>1, FleetStutters DEF IInv, FleetStep
  <2>4. CASE Restart \/ UNCHANGED vars
    BY <2>4, FleetStutters DEF Restart, disk, vars, IInv, FleetStep
  <2> QED
    BY <2>1, <2>2, <2>3, <2>4 DEF Next
<1> QED
  BY <1>1, <1>2

(* The records change by whole operations: memory, the files and the       *)
(* failures of Records come down to the steps of Fleet.                    *)
THEOREM ImplementsFleet == Spec => RecordsAreAtomic
<1>1. Init => FleetView!Init
  BY DEF Init, FleetView!Init, Visible, Memory
<1>2. IInv /\ IInv' /\ [Next]_vars => FleetStep
  BY StepsMap
<1> QED
  BY <1>1, <1>2, InvariantHolds, PTL DEF Spec, RecordsAreAtomic, FleetView!Spec, FleetStep
=============================================================================
