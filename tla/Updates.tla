------------------------------- MODULE Updates -------------------------------
(***************************************************************************)
(* The update of one file that the fleet downloads: the mihomo binary      *)
(* (core_update.go) or a geodata file (geo_update.go), with the download,  *)
(* verification and swap they share (download_swap.go).                    *)
(*                                                                         *)
(* The file may lie in several directories, which are searched in order;   *)
(* the first is the one that can always be written.  Next to it, the file  *)
(* that it replaced is kept as `.bak'.  Any step may fail, the controller  *)
(* may die between any two, and so may the machine.  What then is on disk  *)
(* of a directory is any state it had since it was last synced, and of a   *)
(* file that was not synced anything at all.                               *)
(***************************************************************************)
EXTENDS Naturals

CONSTANTS
  Last,      \* the number of directories; the binary is in the first
  Releases,  \* what upstream may publish
  Settles,   \* bound: does a geodata update only begin when the disk is up to date?
  None

ASSUME PlacesAssumption == Last \in Nat \ {0}

Places == 1..Last

(* A file is what was downloaded of a release, complete and unaltered or   *)
(* not, with its contents on disk or still in memory.                      *)
Files == [of : Releases, whole : BOOLEAN, flushed : BOOLEAN]

Directories == [target : Files \cup {None}, bak : Files \cup {None}]

ASSUME SettlesAssumption == Settles \in BOOLEAN
ASSUME NoneAssumption == None \notin Files \cup Releases

VARIABLES
  archived,   \* is the file the binary, and its download an archive?
  disk,       \* what each directory holds
  persisted,  \* what of it a power loss may leave
  job,        \* the update under way
  found       \* Controller.mihomoFound

vars == <<archived, disk, persisted, job, found>>

(* An update's locals: the release it installs, the path it installs it    *)
(* at, its temporary file (`new'), and whether there was a file before     *)
(* (hadPrevious).  A temporary file that a crash leaves behind has a name  *)
(* that nothing looks for.                                                 *)
Idle == [at |-> "idle", release |-> None, place |-> 1, new |-> None, previous |-> FALSE]

Jobs == [at : {"idle", "download", "verify", "unpack", "flush", "clear", "aside",
               "install", "rollback", "sync", "down"},
         release : Releases \cup {None}, place : Places,
         new : Files \cup {None}, previous : BOOLEAN]

Target(p) == disk[p].target

Init ==
  /\ archived \in BOOLEAN
  /\ disk \in [Places -> [target : [of : Releases, whole : {TRUE}, flushed : {TRUE}] \cup {None},
                          bak : {None}]]
  /\ \A p \in Places \ {1} : archived => Target(p) = None
  /\ persisted = [p \in Places |-> {disk[p]}]
  /\ job = Idle
  /\ found = (archived => Target(1) # None)

-----------------------------------------------------------------------------
(* The way to the swap.                                                    *)

Present == {p \in Places : Target(p) # None}

(* findGeodataSource: the first of the directories that has the file.      *)
First == CHOOSE p \in Present : \A q \in Present : p <= q

(* resolveLocalGeoFile: where it is, or where it should be.                *)
Resolved == IF Present = {} THEN 1 ELSE First

Matches(f, r) == f # None /\ f.whole /\ f.of = r

Step(next) == job' = next /\ UNCHANGED <<disk, persisted, found>>

(* Mutant: looks for the file from the other end.                          *)
BeginInTheLast ==
  /\ job.at = "idle" /\ found
  /\ \E r \in Releases, p \in IF Present = {} THEN {1} ELSE Present :
       /\ \A q \in Present : q <= p
       /\ archived \/ ~Matches(Target(p), r)
       /\ Step([Idle EXCEPT !.at = "download", !.release = r, !.place = p])

(* A release whose checksum is known.  Geodata that has it already is      *)
(* skipped; a core update needs a binary that was found at startup.        *)
Begin ==
  /\ job.at = "idle" /\ found
  /\ Settles /\ ~archived => \A p \in Places : persisted[p] = {disk[p]}
  /\ \E r \in Releases :
       /\ archived \/ ~Matches(Target(Resolved), r)
       /\ Step([Idle EXCEPT !.at = "download", !.release = r, !.place = Resolved])

(* What arrives may be damaged, or already be of the next release.         *)
Download ==
  /\ job.at = "download"
  /\ \E f \in Files :
       /\ f.flushed
       /\ Step([job EXCEPT !.at = "verify", !.new = f])

(* Mutant: takes what arrived.                                             *)
VerifyNothing ==
  /\ job.at = "verify"
  /\ Step([job EXCEPT !.at = IF archived THEN "unpack" ELSE "flush"])

Verify ==
  /\ job.at = "verify"
  /\ Matches(job.new, job.release)
  /\ Step([job EXCEPT !.at = IF archived THEN "unpack" ELSE "flush"])

(* The contents of the archive, in a second temporary file.                *)
Unpack ==
  /\ job.at = "unpack"
  /\ Step([job EXCEPT !.at = "flush", !.new.flushed = FALSE])

(* Mutant: forgets to remove the temporary file.                           *)
FailedKeeping == IF archived \/ job.place = 1 THEN [job EXCEPT !.at = "idle"]
                 ELSE [job EXCEPT !.at = "download", !.place = 1]

(* An update of geodata that fails in one directory is tried again in the  *)
(* first one.                                                              *)
Failed == IF archived \/ job.place = 1 THEN Idle
          ELSE [Idle EXCEPT !.at = "download", !.release = job.release]

(* Errors before anything was moved: of the download, the verification,    *)
(* the archive, the check for running instances, the flush, or the rename  *)
(* that moves the present file aside.                                      *)
Fail ==
  /\ job.at \in {"download", "verify", "unpack", "flush", "aside"}
  /\ Step(Failed)

-----------------------------------------------------------------------------
(* atomicSwap.                                                             *)

(* The directory changes; the machine may lose power before or after.      *)
Becomes(p, d) ==
  /\ disk' = [disk EXCEPT ![p] = d]
  /\ persisted' = [persisted EXCEPT ![p] = @ \cup {d}]

Here == disk[job.place]

(* Mutant: trusts that the download was synced.                            *)
FlushNothing == job.at = "flush" /\ Step([job EXCEPT !.at = "clear"])

Flush == job.at = "flush" /\ Step([job EXCEPT !.at = "clear", !.new.flushed = TRUE])

(* The old .bak is removed, if that succeeds.                              *)
Clear ==
  /\ job.at = "clear"
  /\ \/ Becomes(job.place, [Here EXCEPT !.bak = None])
     \/ UNCHANGED <<disk, persisted>>
  /\ job' = [job EXCEPT !.at = IF Here.target = None THEN "install" ELSE "aside"]
  /\ UNCHANGED found

(* Mutant: makes room by removing the file.                                *)
AsideRemoving ==
  /\ job.at = "aside"
  /\ Becomes(job.place, [Here EXCEPT !.target = None])
  /\ job' = [job EXCEPT !.at = "install", !.previous = TRUE]
  /\ UNCHANGED found

Aside ==
  /\ job.at = "aside"
  /\ Becomes(job.place, [target |-> None, bak |-> Here.target])
  /\ job' = [job EXCEPT !.at = "install", !.previous = TRUE]
  /\ UNCHANGED found

Install ==
  /\ job.at = "install"
  /\ Becomes(job.place, [Here EXCEPT !.target = job.new])
  /\ job' = [job EXCEPT !.at = "sync", !.new = None]
  /\ UNCHANGED found

InstallFails ==
  /\ job.at = "install"
  /\ Step(IF job.previous THEN [job EXCEPT !.at = "rollback"] ELSE Failed)

(* The previous file is moved back, or stays in .bak.                      *)
Rollback ==
  /\ job.at = "rollback"
  /\ \/ Becomes(job.place, [target |-> Here.bak, bak |-> None])
     \/ UNCHANGED <<disk, persisted>>
  /\ job' = Failed
  /\ UNCHANGED found

(* The directory is synced where the system can, and the update is done.   *)
SyncDir ==
  /\ job.at = "sync"
  /\ \/ persisted' = [persisted EXCEPT ![job.place] = {Here}]
     \/ UNCHANGED persisted
  /\ job' = Idle
  /\ UNCHANGED <<disk, found>>

-----------------------------------------------------------------------------
(* The controller and its surroundings.                                    *)

Down == [Idle EXCEPT !.at = "down"]

Crash == job.at # "down" /\ Step(Down)

(* What a power loss may make of a file and of a directory.                *)
Remains(f) == IF f = None \/ f.flushed THEN {f} ELSE {f, [f EXCEPT !.whole = FALSE]}

Survivors(p) == UNION {[target : Remains(d.target), bak : Remains(d.bak)] : d \in persisted[p]}

PowerLoss ==
  /\ disk' \in {d \in [Places -> UNION {Survivors(p) : p \in Places}] :
                  \A p \in Places : d[p] \in Survivors(p)}
  /\ persisted' = [p \in Places |-> {disk'[p]}]
  /\ job' = Down
  /\ UNCHANGED found

(* The system writes a directory by itself.                                *)
Writeback(p) ==
  /\ persisted[p] # {disk[p]}
  /\ persisted' = [persisted EXCEPT ![p] = {disk[p]}]
  /\ UNCHANGED <<disk, job, found>>

(* resolveMihomoPath finds the binary at its path, or nothing.             *)
Restart ==
  /\ job.at = "down"
  /\ job' = Idle
  /\ found' = (archived => Target(1) # None)
  /\ UNCHANGED <<disk, persisted>>

(* The user moves .bak back, as the error of a failed rollback says.       *)
Restore(p) ==
  /\ job.at \in {"idle", "down"}
  /\ Target(p) = None /\ disk[p].bak # None
  /\ Becomes(p, [target |-> disk[p].bak, bak |-> None])
  /\ UNCHANGED <<job, found>>

-----------------------------------------------------------------------------
Update ==
  \/ Download \/ Verify \/ Unpack \/ Fail
  \/ Flush \/ Clear \/ Aside \/ Install \/ InstallFails \/ Rollback \/ SyncDir

Next ==
  /\ UNCHANGED archived
  /\ \/ Begin \/ Update
     \/ Crash \/ PowerLoss \/ Restart
     \/ \E p \in Places : Restore(p) \/ Writeback(p)

Spec == Init /\ [][Next]_vars

-----------------------------------------------------------------------------
(* Properties.                                                             *)

(* Types; and no temporary file outlives its update.                       *)
TypeOK ==
  /\ archived \in BOOLEAN
  /\ disk \in [Places -> Directories]
  /\ persisted \in [Places -> SUBSET Directories]
  /\ job \in Jobs
  /\ job.new = None <=> job.at \in {"idle", "download", "sync", "down"}
  /\ found \in BOOLEAN

(* atomicSwap's comment: whatever fails or crashes, and when, a file is    *)
(* absent, fully the old one or fully a verified new one.                  *)
InstalledIsWhole ==
  \A p \in Places : \A f \in {disk[p].target, disk[p].bak} : f # None => f.whole

Usable(d) == \E f \in {d.target, d.bak} : f # None /\ f.whole

(* Whatever happens, directory p has the file or its .bak.                 *)
Recoverable(p) == \A d \in persisted[p] : Usable(d)

(* A copy that would survive a crash and a power loss stays available:     *)
(* only the removal of .bak by an update that has no target can take it.   *)
LastCopyKept ==
  [][\A p \in Places : Recoverable(p) /\ ~Recoverable(p)'
       => job.at = "clear" /\ p = job.place /\ Target(p) = None]_vars

(* The comment of atomicSwap on a failed rollback: nothing is lost.        *)
NothingLost == [][\A p \in Places : Recoverable(p) => Recoverable(p)']_vars

(* An update that ends well has put its release where a search finds it,   *)
(* the update of another directory included.                               *)
UpdatedIsFound == job.at = "sync" => Matches(Target(Resolved), job.release)
=============================================================================
