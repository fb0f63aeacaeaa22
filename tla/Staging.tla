------------------------------- MODULE Staging -------------------------------
(***************************************************************************)
(* Starts give every instance's directory the geodata files that the       *)
(* search finds (geodata.go: ensureGeodataFiles), as a symbolic link, else *)
(* a hard link, else a copy, while an update may swap those files.  The    *)
(* module adds the starts to Updates, for one file and its one name.       *)
(***************************************************************************)
EXTENDS Updates

CONSTANTS
  Instances,
  Kinds  \* what the systems at hand can do: "symlink", "hardlink", "copy"

ASSUME KindsAssumption == Kinds \subseteq {"symlink", "hardlink", "copy"} /\ Kinds # {}

VARIABLES
  staged,  \* the file in each instance's directory
  start    \* what the start of each instance is doing

allVars == <<archived, disk, persisted, job, found, staged, start>>

(* A symbolic link to a path, or a file of its own; a hard link keeps the  *)
(* file it was made for when another takes that file's path.               *)
Links == [kind : {"symlink"}, to : Places]
Copies == [kind : {"hardlink", "copy"}, file : Files]

ASSUME StagedAssumption == None \notin Links \cup Copies

(* The source found and, as history, whether neither an update nor a crash *)
(* nor the user has touched the directories since this start began.        *)
Starts == [at : {"idle", "check", "link", "done"}, from : Places, undisturbed : BOOLEAN]

NoStart == [at |-> "idle", from |-> 1, undisturbed |-> FALSE]

StagingInit ==
  /\ Init
  /\ staged = [i \in Instances |-> None]
  /\ start = [i \in Instances |-> NoStart]

(* The file that a process of i reads; None if it is absent or the link    *)
(* leads nowhere.                                                          *)
Reads(i) ==
  IF staged[i] \in Links THEN Target(staged[i].to)
  ELSE IF staged[i] \in Copies THEN staged[i].file ELSE None

-----------------------------------------------------------------------------
Starting(i, s) ==
  /\ job.at # "down"
  /\ start' = [start EXCEPT ![i] = s]
  /\ UNCHANGED vars

(* A start looks for the file.  If no directory has it, it makes do with   *)
(* what the instance has.                                                  *)
Find(i) ==
  /\ start[i].at \in {"idle", "done"}
  /\ ~archived
  /\ Starting(i, IF Present = {} THEN NoStart
                 ELSE [at |-> "check", from |-> First, undisturbed |-> job.at = "idle"])
  /\ UNCHANGED staged

(* existingRegularGeodataOK: the same file, or its size and time, which a  *)
(* damaged copy has too.                                                   *)
Alike(f, g) == f # None /\ g # None /\ f.of = g.of

(* Mutant: any link that leads somewhere will do.                          *)
UpToDateLinked(i) ==
  \/ staged[i] \in Links /\ Reads(i) # None
  \/ staged[i] \in Copies /\ Alike(Target(start[i].from), staged[i].file)

(* existingGeodataTargetOK: what is there leads to the source, or is it.   *)
UpToDate(i) ==
  \/ staged[i] \in Links /\ staged[i].to = start[i].from /\ Reads(i) # None
  \/ staged[i] \in Copies /\ Alike(Target(start[i].from), staged[i].file)

Accept(i) ==
  /\ start[i].at = "check"
  /\ UpToDate(i)
  /\ Starting(i, [start[i] EXCEPT !.at = "done"])
  /\ UNCHANGED staged

(* Something else there is removed; a file of its own is compared first.   *)
Discard(i) ==
  /\ start[i].at = "check"
  /\ ~UpToDate(i)
  /\ staged[i] \in Copies => Target(start[i].from) # None
  /\ Starting(i, [start[i] EXCEPT !.at = "link"])
  /\ staged' = [staged EXCEPT ![i] = None]

(* linkOrCopyGeodata: a symbolic link needs no source, the others need it. *)
(* A copy is not synced.                                                   *)
Link(i) ==
  /\ start[i].at = "link"
  /\ \E k \in Kinds :
       \/ /\ k = "symlink"
          /\ staged' = [staged EXCEPT ![i] = [kind |-> k, to |-> start[i].from]]
       \/ /\ k # "symlink" /\ Target(start[i].from) # None
          /\ staged' = [staged EXCEPT ![i] =
               [kind |-> k, file |-> IF k = "copy" THEN [Target(start[i].from) EXCEPT !.flushed = FALSE]
                                     ELSE Target(start[i].from)]]
  /\ Starting(i, [start[i] EXCEPT !.at = "done"])

(* The start fails.                                                        *)
Refuse(i) ==
  /\ start[i].at \in {"check", "link"}
  /\ Starting(i, NoStart)
  /\ UNCHANGED staged

-----------------------------------------------------------------------------
(* The steps of Updates, and what they mean for the starts.                *)

Disturb == start' = [i \in Instances |-> [start[i] EXCEPT !.undisturbed = FALSE]]

Forget == start' = [i \in Instances |-> NoStart]

(* A copy may be lost with the power, but not its size and time.           *)
Ruins(s) == IF s \in Copies /\ ~s.file.flushed
            THEN {s, [s EXCEPT !.file.whole = FALSE]} ELSE {s}

StagingNext ==
  /\ UNCHANGED archived
  /\ \/ /\ Begin \/ Update \/ \E p \in Places : Restore(p)
        /\ Disturb /\ UNCHANGED staged
     \/ (Restart \/ \E p \in Places : Writeback(p)) /\ UNCHANGED <<staged, start>>
     \/ Crash /\ Forget /\ UNCHANGED staged
     \/ /\ PowerLoss /\ Forget
        /\ staged' \in {s \in [Instances -> Links \cup Copies \cup {None}] :
                          \A i \in Instances : s[i] \in Ruins(staged[i])}
     \/ \E i \in Instances : Find(i) \/ Accept(i) \/ Discard(i) \/ Link(i) \/ Refuse(i)

StagingSpec == StagingInit /\ [][StagingNext]_allVars

-----------------------------------------------------------------------------
(* Properties.                                                             *)

(* Types.                                                                  *)
StagingTypeOK ==
  /\ TypeOK
  /\ staged \in [Instances -> Links \cup Copies \cup {None}]
  /\ start \in [Instances -> Starts]

(* A process reads what was verified, whatever updates and crashes did to  *)
(* the path its link leads to; or a copy that was never synced.            *)
StagedIsWhole ==
  \A i \in Instances : LET f == Reads(i) IN f = None \/ f.whole \/ ~f.flushed

(* A start that nothing disturbs leaves its instance with the file that    *)
(* the search finds, whatever earlier updates, crashes and fallbacks to    *)
(* another directory left there.                                           *)
StartsUseTheFoundFile ==
  \A i \in Instances : start[i].at = "done" /\ start[i].undisturbed
    => Present # {} /\ Alike(Reads(i), Target(First))
=============================================================================
