------------------------------- MODULE Records --------------------------------
(***************************************************************************)
(* The records of the Store (store.go), their files, and the import of a   *)
(* bundle (export.go) next to other clients.                               *)
(*                                                                         *)
(* Store.mu is held through every operation, so there is one at a time     *)
(* (`op'); but it goes through files: directories and config.yaml first,   *)
(* then instances.json, then the removal of what is no longer wanted.  Any *)
(* of these may fail and is then undone, and the controller may die before *)
(* any of them.  An import is many operations, and others' lie between.    *)
(*                                                                         *)
(* Ids come from names (util.go: uniqueSlug), names are free, and the id   *)
(* of a deleted record is given again: a new record has any unused id.     *)
(***************************************************************************)
EXTENDS Naturals, SequencesExt

CONSTANTS
  Ids,       \* instance ids
  Profiles,  \* profile ids
  Ports,
  Chosen,    \* a saved selection
  Bundles,   \* the bundles that clients send
  None

ASSUME IdsAssumption == Ids \cap Profiles = {}
ASSUME BundlesAssumption == Bundles \subseteq [profiles : Nat, uses : Seq(Nat)]

VARIABLES
  instances,  \* Store.items: each instance's record, or None
  profiles,   \* Store.profiles: the ids that have a record
  saved,      \* instances.json
  dirs,       \* the directories instances/<id>
  configs,    \* the files profiles/<id>/config.yaml
  op,         \* the operation that holds Store.mu, or None
  import,     \* the import under way
  mine,       \* history: what this import created, as long as it is there
  reported,   \* history: what its rollback could not remove, and says so
  unsaved     \* history: the records that kept what a save refused, a selection or
              \* an error message

vars == <<instances, profiles, saved, dirs, configs, op, import, mine, reported, unsaved>>

memory == <<instances, profiles>>
disk == <<saved, dirs, configs>>
history == <<mine, reported, unsaved>>

Items == [profile : Profiles, mixed : Ports, controller : Ports, selection : {None, Chosen}]

Present(i) == instances[i] # None

Memory == [instances |-> instances, profiles |-> profiles]

Memories == [instances : [Ids -> Items \cup {None}], profiles : SUBSET Profiles]

(* An operation's locals: whose it is, its instance and its profile, which *)
(* is `fresh' if it is to be created, the record to create, and the state  *)
(* it found.                                                               *)
Ops == [do : {"create", "change", "select", "note", "patch", "delete"},
        at : {"config", "mkdir", "save", "remove"},
        by : {"client", "import"},
        id : Ids \cup {None}, profile : Profiles \cup {None}, fresh : BOOLEAN,
        item : Items \cup {None}, before : Memories]

ASSUME NoneAssumption == None \notin Ids \cup Profiles \cup Ports \cup {Chosen} \cup Items \cup Ops

(* validateBundle.  A bundle says how many profiles it has, and which of   *)
(* them each instance uses.                                                *)
Valid(b) == \A n \in DOMAIN b.uses : b.uses[n] \in 1..b.profiles

(* createBundle's locals: the ids of what it created so far, in order.     *)
NoImport == [at |-> "idle", bundle |-> None, profiles |-> <<>>, instances |-> <<>>, patched |-> TRUE]

Imports == [at : {"idle", "create", "undo"}, bundle : Bundles \cup {None},
            profiles : Seq(Profiles), instances : Seq(Ids), patched : BOOLEAN]

Init ==
  /\ instances = [i \in Ids |-> None]
  /\ profiles = {}
  /\ saved = Memory
  /\ dirs = {}
  /\ configs = {}
  /\ op = None
  /\ import = NoImport
  /\ mine = {}
  /\ reported = {}
  /\ unsaved = {}

-----------------------------------------------------------------------------
(* Ports.                                                                  *)

(* usedPortsLocked, for an operation on i.                                 *)
Used(i) == {c \in Ports : \E j \in Ids \ {i} : Present(j) /\ c \in {instances[j].mixed, instances[j].controller}}

(* Mutant: takes the 0 with which allocatePort says that no port is left.  *)
FreePairsOrNone(i) == {c \in (Ports \cup {None}) \X Ports : c[1] \notin Used(i) /\ c[2] \notin Used(i) \cup {c[1]}}

(* Mutant: chooses the controller port as if there were no mixed port.     *)
FreePairsApart(i) == {c \in Ports \X Ports : c[1] \notin Used(i) /\ c[2] \notin Used(i)}

(* The ports that a request may get, its own wishes or allocatePort's.     *)
(* Which ports other programs hold is anyone's guess.                      *)
FreePairs(i) == {c \in Ports \X Ports : c[1] \notin Used(i) /\ c[2] \notin Used(i) \cup {c[1]}}

-----------------------------------------------------------------------------
(* The Store's operations: how they begin.                                 *)

Begin(o) ==
  /\ op = None
  /\ op' = [o EXCEPT !.before = Memory]
  /\ UNCHANGED disk

Request(do, at, by) ==
  [do |-> do, at |-> at, by |-> by, id |-> None, profile |-> None, fresh |-> FALSE,
   item |-> None, before |-> None]

(* CreateProfile.                                                          *)
CreateProfile(by, p) ==
  /\ p \notin profiles
  /\ Begin([Request("create", "config", by) EXCEPT !.profile = p, !.fresh = TRUE])
  /\ UNCHANGED memory

(* createInstanceLocked, with a profile that exists or one of its own.     *)
CreateInstance(by, i, p, selection) ==
  /\ ~Present(i)
  /\ \E fresh \in {p \notin profiles}, c \in FreePairs(i) :
       Begin([Request("create", IF fresh THEN "config" ELSE "mkdir", by) EXCEPT
                !.id = i, !.profile = p, !.fresh = fresh,
                !.item = [profile |-> p, mixed |-> c[1], controller |-> c[2], selection |-> selection]])
  /\ UNCHANGED memory

(* Clone: everything but the ports.                                        *)
Clone(i, source) ==
  /\ Present(source)
  /\ instances[source].profile \in profiles
  /\ CreateInstance("client", i, instances[source].profile, instances[source].selection)

(* Mutant: moves an instance and looks neither for the profile nor for     *)
(* other instances' ports.                                                 *)
ChangeBlindly(i) ==
  /\ Present(i)
  /\ \E p \in Profiles, m, c \in Ports :
       /\ m # c
       /\ instances' = [instances EXCEPT ![i] = [profile |-> p, mixed |-> m, controller |-> c, selection |-> None]]
  /\ Begin([Request("change", "save", "client") EXCEPT !.id = i])
  /\ UNCHANGED profiles

(* UpdateWithOptions: other ports, or another profile, whose nodes are not *)
(* those of the selection.  A port is looked up only if it changes.        *)
Change(i) ==
  /\ Present(i)
  /\ \E p \in profiles, m, c \in Ports :
       /\ m # c
       /\ m # instances[i].mixed => m \notin Used(i)
       /\ c # instances[i].controller => c \notin Used(i)
       /\ instances' = [instances EXCEPT ![i] =
            [profile |-> p, mixed |-> m, controller |-> c,
             selection |-> IF p = instances[i].profile THEN instances[i].selection ELSE None]]
  /\ Begin([Request("change", "save", "client") EXCEPT !.id = i])
  /\ UNCHANGED profiles

SetSelection(i) ==
  /\ Present(i)
  /\ instances' = [instances EXCEPT ![i].selection = Chosen]
  /\ Begin([Request("select", "save", "client") EXCEPT !.id = i])
  /\ UNCHANGED profiles

(* SetError and SetProfileUpdateError, of whoever starts, watches or        *)
(* refreshes.  The messages are left out; that one is to be saved is not.  *)
Note ==
  /\ \E x \in {i \in Ids : Present(i)} \cup profiles :
       Begin([Request("note", "save", "client") EXCEPT
                !.id = IF x \in Ids THEN x ELSE None,
                !.profile = IF x \in Ids THEN None ELSE x])
  /\ UNCHANGED memory

Delete(by, i) ==
  /\ Present(i)
  /\ instances' = [instances EXCEPT ![i] = None]
  /\ Begin([Request("delete", "save", by) EXCEPT !.id = i])
  /\ UNCHANGED profiles

InUse(p) == \E i \in Ids : Present(i) /\ instances[i].profile = p

(* Mutant: deletes a profile that is in use.                               *)
DeleteProfileUsed(by, p) ==
  /\ p \in profiles
  /\ profiles' = profiles \ {p}
  /\ Begin([Request("delete", "save", by) EXCEPT !.profile = p])
  /\ UNCHANGED instances

(* Mutant: removes the files before the record.                            *)
DeleteProfileEager(by, p) ==
  /\ op = None
  /\ p \in profiles /\ ~InUse(p)
  /\ profiles' = profiles \ {p}
  /\ configs' = configs \ {p}
  /\ op' = [Request("delete", "save", by) EXCEPT !.profile = p, !.before = Memory]
  /\ UNCHANGED <<instances, saved, dirs>>

DeleteProfile(by, p) ==
  /\ p \in profiles /\ ~InUse(p)
  /\ profiles' = profiles \ {p}
  /\ Begin([Request("delete", "save", by) EXCEPT !.profile = p])
  /\ UNCHANGED instances

Quiet == UNCHANGED <<import, history>>

Client ==
  /\ Quiet
  /\ \/ \E p \in Profiles : CreateProfile("client", p) \/ DeleteProfile("client", p)
     \/ \E i \in Ids :
          \/ \E p \in Profiles : CreateInstance("client", i, p, None)
          \/ \E j \in Ids : Clone(i, j)
          \/ Change(i)
          \/ SetSelection(i)
          \/ Delete("client", i)
     \/ Note

-----------------------------------------------------------------------------
(* The Store's operations: how they go on and end.                         *)

(* What o creates or deletes.                                              *)
Target(o) == IF o.id = None THEN o.profile ELSE o.id

(* What the import does next, once its operation o returned.               *)
Created(o) ==
  IF o.do = "patch" THEN {[import EXCEPT !.patched = TRUE]}
  ELSE IF o.id = None
       THEN {[import EXCEPT !.profiles = Append(@, o.profile), !.patched = b] : b \in BOOLEAN}
       ELSE {[import EXCEPT !.instances = Append(@, o.id)]}

Undone(o) ==
  IF o.id # None THEN [import EXCEPT !.instances = Front(@)] ELSE [import EXCEPT !.profiles = Front(@)]

(* Mutant: an error ends the rollback.                                     *)
FailedForGood(o) ==
  IF import.at = "create" THEN [import EXCEPT !.at = "undo"] ELSE NoImport

Failed(o) ==
  IF import.at = "create" THEN [import EXCEPT !.at = "undo"] ELSE Undone(o)

Succeed ==
  /\ op' = None
  /\ import' \in IF op.by = "client" THEN {import}
                 ELSE IF import.at = "create" THEN Created(op) ELSE {Undone(op)}

Fail ==
  /\ op' = None
  /\ import' = IF op.by = "client" THEN import ELSE Failed(op)
  /\ reported' = IF op.by = "import" /\ import.at = "undo" THEN reported \cup {Target(op)} ELSE reported

(* createProfileRecordLocked.                                              *)
WriteConfig ==
  /\ op # None /\ op.at = "config"
  /\ configs' = configs \cup {op.profile}
  /\ profiles' = profiles \cup {op.profile}
  /\ op' = [op EXCEPT !.at = IF op.id = None THEN "save" ELSE "mkdir"]
  /\ UNCHANGED <<instances, saved, dirs, import, history>>

WriteConfigFails ==
  /\ op # None /\ op.at = "config"
  /\ Fail
  /\ UNCHANGED <<memory, disk, mine, unsaved>>

MakeDir ==
  /\ op # None /\ op.at = "mkdir"
  /\ dirs' = dirs \cup {op.id}
  /\ instances' = [instances EXCEPT ![op.id] = op.item]
  /\ op' = [op EXCEPT !.at = "save"]
  /\ UNCHANGED <<profiles, saved, configs, import, history>>

(* os.RemoveAll, whose error nobody reads.                                 *)
Cleaned(files, new) == {files, files \ new}

OwnProfile == IF op.fresh THEN {op.profile} ELSE {}

(* cleanupCreatedProfile.                                                  *)
MakeDirFails ==
  /\ op # None /\ op.at = "mkdir"
  /\ profiles' = profiles \ OwnProfile
  /\ configs' \in Cleaned(configs, OwnProfile)
  /\ Fail
  /\ UNCHANGED <<instances, saved, dirs, mine, unsaved>>

(* saveLocked succeeds: instances.json is replaced.                        *)
Save ==
  /\ op # None /\ op.at = "save"
  /\ saved' = Memory
  /\ unsaved' = {}
  /\ mine' = IF op.do = "delete" THEN mine \ {Target(op)}
             ELSE IF op.do = "create" /\ op.by = "import" THEN mine \cup {Target(op)}
             ELSE mine
  /\ IF op.do = "delete" THEN op' = [op EXCEPT !.at = "remove"] /\ UNCHANGED import
                         ELSE Succeed
  /\ UNCHANGED <<memory, dirs, configs, reported>>

(* Mutant: only what creates something is undone.                          *)
SaveFailsCreate ==
  /\ op # None /\ op.at = "save"
  /\ IF op.do # "create"
     THEN UNCHANGED <<memory, unsaved>>
     ELSE /\ instances' = op.before.instances
          /\ profiles' = op.before.profiles
          /\ UNCHANGED unsaved
  /\ dirs' \in Cleaned(dirs, IF op.do = "create" THEN {op.id} ELSE {})
  /\ configs' \in Cleaned(configs, OwnProfile)
  /\ Fail
  /\ UNCHANGED <<saved, mine>>

(* saveLocked fails: the operation undoes what it did, except that         *)
(* SetSelection, SetError and SetProfileUpdateError leave the record as    *)
(* they made it.                                                           *)
SaveFails ==
  /\ op # None /\ op.at = "save"
  /\ IF op.do \in {"select", "note"}
     THEN unsaved' = unsaved \cup {Target(op)} /\ UNCHANGED memory
     ELSE /\ instances' = op.before.instances
          /\ profiles' = op.before.profiles
          /\ UNCHANGED unsaved
  /\ dirs' \in Cleaned(dirs, IF op.do = "create" THEN {op.id} ELSE {})
  /\ configs' \in Cleaned(configs, OwnProfile)
  /\ Fail
  /\ UNCHANGED <<saved, mine>>

(* The record is gone; so are its files.                                   *)
RemoveFiles ==
  /\ op # None /\ op.at = "remove"
  /\ dirs' = dirs \ {op.id}
  /\ configs' = configs \ {op.profile}
  /\ Succeed
  /\ UNCHANGED <<memory, saved, history>>

(* The record is gone, and yet the caller gets an error.                   *)
RemoveFilesFails ==
  /\ op # None /\ op.at = "remove"
  /\ Fail
  /\ UNCHANGED <<memory, disk, mine, unsaved>>

Step ==
  \/ WriteConfig \/ WriteConfigFails
  \/ MakeDir \/ MakeDirFails
  \/ Save \/ SaveFails
  \/ RemoveFiles \/ RemoveFilesFails

-----------------------------------------------------------------------------
(* The import of a bundle: one at a time (importMu), next to all clients.  *)

ImportBegin ==
  /\ import = NoImport
  /\ \E b \in Bundles :
       /\ Valid(b)
       /\ import' = [NoImport EXCEPT !.at = "create", !.bundle = b]
  /\ mine' = {}
  /\ reported' = {}
  /\ UNCHANGED <<memory, disk, op, unsaved>>

Create == import.at = "create"

ProfilesDone == Create /\ import.patched /\ Len(import.profiles) = import.bundle.profiles

ImportProfile ==
  /\ Create /\ import.patched /\ ~ProfilesDone
  /\ \E p \in Profiles : CreateProfile("import", p)
  /\ Quiet

(* PatchProfile, for a profile with a subscription.                        *)
ImportPatch ==
  /\ Create /\ ~import.patched
  /\ Last(import.profiles) \in profiles
  /\ Begin([Request("patch", "save", "import") EXCEPT !.profile = Last(import.profiles)])
  /\ UNCHANGED memory
  /\ Quiet

(* The profile of the bundle's next instance.                              *)
NextProfile == import.profiles[import.bundle.uses[Len(import.instances) + 1]]

InstancesDone == ProfilesDone /\ Len(import.instances) = Len(import.bundle.uses)

ImportInstance ==
  /\ ProfilesDone /\ ~InstancesDone
  /\ NextProfile \in profiles
  /\ \E i \in Ids, s \in {None, Chosen} : CreateInstance("import", i, NextProfile, s)
  /\ Quiet

(* The Store refuses before it does anything: a client deleted the         *)
(* profile, or there are no ports left.                                    *)
ImportRefused ==
  /\ op = None
  /\ \/ Create /\ ~import.patched /\ Last(import.profiles) \notin profiles
     \/ ProfilesDone /\ ~InstancesDone
  /\ import' = [import EXCEPT !.at = "undo"]
  /\ UNCHANGED <<memory, disk, op, history>>

ImportDone ==
  /\ op = None
  /\ InstancesDone
  /\ import' = NoImport
  /\ mine' = {}
  /\ UNCHANGED <<memory, disk, op, reported, unsaved>>

(* rollbackImport: the instances first, then the profiles, each from the   *)
(* last to the first.                                                      *)
Undo == import.at = "undo" /\ op = None

UndoingInstances == Undo /\ import.instances # <<>>

(* Mutant: does not wait for the instances to be gone.                     *)
UndoingProfilesToo == Undo /\ import.profiles # <<>>

UndoingProfiles == Undo /\ import.instances = <<>> /\ import.profiles # <<>>

UndoInstance ==
  /\ UndoingInstances
  /\ Delete("import", Last(import.instances))
  /\ Quiet

(* An instance that a client deleted: Delete finds nothing to do.          *)
UndoNothing ==
  /\ UndoingInstances
  /\ ~Present(Last(import.instances))
  /\ import' = [import EXCEPT !.instances = Front(@)]
  /\ UNCHANGED <<memory, disk, op, history>>

UndoProfile ==
  /\ UndoingProfiles
  /\ DeleteProfile("import", Last(import.profiles))
  /\ Quiet

(* A profile that a client deleted, or that a client's instance uses.      *)
UndoRefused ==
  /\ UndoingProfiles
  /\ Last(import.profiles) \in profiles => InUse(Last(import.profiles))
  /\ import' = [import EXCEPT !.profiles = Front(@)]
  /\ reported' = reported \cup {Last(import.profiles)}
  /\ UNCHANGED <<memory, disk, op, mine, unsaved>>

UndoDone ==
  /\ Undo /\ import.instances = <<>> /\ import.profiles = <<>>
  /\ import' = NoImport
  /\ UNCHANGED <<memory, disk, op, history>>

Import ==
  \/ ImportBegin \/ ImportProfile \/ ImportPatch \/ ImportInstance \/ ImportRefused \/ ImportDone
  \/ UndoInstance \/ UndoNothing \/ UndoProfile \/ UndoRefused \/ UndoDone

-----------------------------------------------------------------------------
(* The controller dies and starts again (NewStore, load).                  *)
Restart ==
  /\ instances' = saved.instances
  /\ profiles' = saved.profiles
  /\ op' = None
  /\ import' = NoImport
  /\ mine' = {}
  /\ reported' = {}
  /\ unsaved' = {}
  /\ UNCHANGED disk

Next == Client \/ Step \/ Import \/ Restart

Spec == Init /\ [][Next]_vars

-----------------------------------------------------------------------------
(* Properties.                                                             *)

(* Every variable has its type.                                            *)
TypeOK ==
  /\ Memory \in Memories
  /\ saved \in Memories
  /\ dirs \subseteq Ids
  /\ configs \subseteq Profiles
  /\ op \in Ops \cup {None}
  /\ import \in Imports
  /\ mine \subseteq Ids \cup Profiles
  /\ reported \subseteq Ids \cup Profiles
  /\ unsaved \subseteq Ids \cup Profiles

Owners(m) == {i \in Ids : m.instances[i] # None}

Grounded(m) == \A i \in Owners(m) : m.instances[i].profile \in m.profiles

PortsOf(x) == {x.mixed, x.controller}

Apart(m) ==
  \A i \in Owners(m) :
    /\ m.instances[i].mixed # m.instances[i].controller
    /\ \A j \in Owners(m) \ {i} : PortsOf(m.instances[i]) \cap PortsOf(m.instances[j]) = {}

(* m is what instances.json says, up to the selections (and messages) of   *)
(* records that kept what a save refused.                                  *)
Matches(m) ==
  /\ m.profiles = saved.profiles
  /\ \A i \in Ids :
       \/ m.instances[i] = saved.instances[i]
       \/ /\ i \in unsaved /\ i \in Owners(saved)
          /\ m.instances[i] = [saved.instances[i] EXCEPT !.selection = Chosen]

(* Whatever fails, and whenever the controller dies, every instance that   *)
(* is in memory or in instances.json has its profile, and what             *)
(* instances.json names has its files: the directory, the config.yaml.     *)
References ==
  /\ Grounded(Memory) /\ Grounded(saved)
  /\ Owners(saved) \subseteq dirs
  /\ saved.profiles \subseteq configs

(* No port is recorded twice, in memory or in instances.json, whatever     *)
(* creations, edits, clones, imports and rollbacks went before.            *)
PortsDiffer == Apart(Memory) /\ Apart(saved)

(* When no operation is under way, what the API answers is what a restart  *)
(* would find: a failed operation leaves no trace in memory.  The          *)
(* exceptions are the three writers that do not undo: a refused selection  *)
(* (SetSelection) and a refused error message (SetError,                   *)
(* SetProfileUpdateError) stay in memory until something else is saved, or *)
(* a restart forgets them.                                                 *)
MemoryIsSaved == op = None => Matches(Memory)

(* ExportBundle: the profiles whose config.yaml it reads, and the profiles *)
(* of the instances.                                                       *)
Exported == [profiles |-> profiles \cap configs,
             used |-> {instances[i].profile : i \in Owners(Memory)}]

(* An export never fails on a missing file, and what it writes is a bundle *)
(* whose instances an import will find profiles for.                       *)
ExportIsWhole ==
  op = None => Exported.profiles = profiles /\ Exported.used \subseteq Exported.profiles

(* When an import is over, all it created is there and it succeeded, or    *)
(* none of it is, save what it reports.                                    *)
FailedImportUndone == import.at = "idle" => mine \subseteq reported

(* A rollback cannot remove a profile only if another client deleted it or *)
(* uses it, or if the rollback has reported the instance that uses it.     *)
(* rollbackImport's comment rules the other client's instance out; the     *)
(* code does not (see the README).                                         *)
BlockedByOthersOnly ==
  [][\A p \in Profiles :
       p \in reported' \ reported /\ op = None /\ p \in profiles =>
         \E i \in Ids : Present(i) /\ instances[i].profile = p /\ i \notin mine \ reported]_vars

(* The records seen from outside: an operation happens when it is saved.   *)
Visible == IF op = None \/ op.at = "remove" THEN Memory ELSE op.before

Plain(x) == [profile |-> x.profile, mixed |-> x.mixed, controller |-> x.controller]

FleetView == INSTANCE Fleet WITH
  items <- [i \in Ids |-> IF Visible.instances[i] = None THEN None ELSE Plain(Visible.instances[i])],
  profiles <- Visible.profiles

(* The records change by whole operations that give no port twice and take *)
(* no instance its profile, although each goes through several files, any  *)
(* of which may fail, and the controller may die in between.               *)
RecordsAreAtomic == FleetView!Spec

(* A rollback removes what its import created (export.go: "rolls back      *)
(* every profile/instance this call itself created"), and nothing else.    *)
RollbackTakesItsOwn ==
  [][op = None /\ op' # None /\ op'.by = "import" /\ op'.do = "delete" => Target(op') \in mine]_vars
=============================================================================
