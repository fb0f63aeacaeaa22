---------------------------- MODULE UpdatesProofs ----------------------------
(***************************************************************************)
(* What Updates guarantees for any directories and releases, Staging for   *)
(* any instances, and GeoCache between them.  The key to Updates is what   *)
(* is known of a file at each step: what is about to be installed is       *)
(* verified and synced, and so is all that a power loss may uncover.       *)
(***************************************************************************)
EXTENDS GeoCache, TLAPS, WellFoundedInduction

(* A file that no power loss can harm.                                     *)
Sound(f) == f = None \/ (f.whole /\ f.flushed)

SoundHere(d) == Sound(d.target) /\ Sound(d.bak)

(* What is on disk is one of the states a power loss may leave, and all of *)
(* them are sound.                                                         *)
DiskInv ==
  \A p \in Places : disk[p] \in persisted[p] /\ \A d \in persisted[p] : SoundHere(d)

(* What an update has achieved when it is at a step.                       *)
JobInv ==
  /\ job.at \in {"unpack", "flush", "clear", "aside", "install", "rollback"} => job.new.whole
  /\ job.at \in {"clear", "aside", "install", "rollback"} => job.new.flushed
  /\ job.at = "aside" => Here.target # None
  /\ job.at \in {"install", "rollback"} /\ job.previous => Here.target = None /\ Here.bak # None
  /\ job.at = "rollback" => job.previous
  /\ job.at \notin {"install", "rollback", "sync"} => ~job.previous

IInv == TypeOK /\ DiskInv /\ JobInv

-----------------------------------------------------------------------------
(* The initial states.                                                     *)
LEMMA InitIInv == Init => IInv
<1> SUFFICES ASSUME Init PROVE IInv
    OBVIOUS
<1> USE PlacesAssumption, NoneAssumption
<1>1. 1 \in Places
    BY DEF Places
<1>2. disk \in [Places -> Directories]
    BY DEF Init, Directories, Files
<1>3. persisted \in [Places -> SUBSET Directories]
    BY <1>2 DEF Init
<1>4. job \in Jobs /\ job.new = None /\ job.at = "idle" /\ ~job.previous
    BY <1>1 DEF Init, Idle, Jobs
<1>5. TypeOK
    BY <1>2, <1>3, <1>4 DEF Init, TypeOK
<1>6. DiskInv
  <2>1. ASSUME NEW p \in Places PROVE SoundHere(disk[p])
      BY DEF Init, SoundHere, Sound
  <2> QED
      BY <2>1 DEF Init, DiskInv
<1>7. JobInv
    BY <1>4 DEF JobInv
<1> QED
    BY <1>5, <1>6, <1>7 DEF IInv

-----------------------------------------------------------------------------
(* A step of an update that leaves the disk alone.                         *)
LEMMA StepKeeps ==
  ASSUME IInv, UNCHANGED archived, NEW j \in Jobs, Step(j),
         j.new = None <=> j.at \in {"idle", "download", "sync", "down"},
         JobInv'
  PROVE  IInv'
<1> USE DEF Step, IInv
<1>1. TypeOK'
    BY DEF TypeOK
<1>2. DiskInv'
    BY DEF DiskInv
<1> QED
    BY <1>1, <1>2

(* Where an update goes when it fails is a state without anything to keep. *)
LEMMA FailedIsFresh ==
  ASSUME IInv
  PROVE  /\ Failed \in Jobs /\ Failed.new = None /\ ~Failed.previous
         /\ Failed.at \in {"idle", "download"}
<1>1. 1 \in Places
    BY PlacesAssumption DEF Places
<1> QED
    BY <1>1 DEF Failed, Idle, Jobs, IInv, TypeOK

(* A directory becomes d, which is sound, and the update goes on at j.     *)
LEMMA BecomesKeeps ==
  ASSUME IInv, UNCHANGED archived, NEW p \in Places, NEW d \in Directories, SoundHere(d),
         Becomes(p, d), NEW j \in Jobs, job' = j, found' = found,
         j.new = None <=> j.at \in {"idle", "download", "sync", "down"},
         JobInv'
  PROVE  IInv'
<1> USE DEF Becomes, IInv
<1>1. TypeOK'
    BY DEF TypeOK
<1>2. DiskInv'
    BY DEF DiskInv, TypeOK
<1> QED
    BY <1>1, <1>2

-----------------------------------------------------------------------------
(* The search for the file ends at the first directory that has it.        *)
LEMMA FirstIsFirst ==
  ASSUME Present # {}
  PROVE  First \in Present /\ \A q \in Present : First <= q
<1>1. Present \subseteq Nat
    BY PlacesAssumption DEF Present, Places
<1> DEFINE R == {s \in Nat \X Nat : s[1] < s[2]}
<1>2. IsWellFoundedOn(R, Nat)
    BY NatLessThanWellFounded, Zenon DEF OpToRel
<1>3. PICK p \in Present : \A q \in Present : ~(<<q, p>> \in R)
  <2> HIDE DEF R
  <2> QED
      BY <1>1, <1>2, WFMin, Zenon
<1>4. \A q \in Present : p <= q
  <2>1. ASSUME NEW q \in Present, q < p PROVE FALSE
    <3>1. <<q, p>> \in Nat \X Nat /\ <<q, p>>[1] = q /\ <<q, p>>[2] = p
        BY <1>1
    <3>2. <<q, p>> \in R
        BY <2>1, <3>1
    <3> QED
        BY <1>3, <3>2
  <2> QED
      BY <1>1, <2>1
<1> QED
    BY <1>4 DEF First

LEMMA ResolvedIsPlace == Resolved \in Places
<1>1. 1 \in Places
    BY PlacesAssumption DEF Places
<1>2. Present # {} => First \in Places
    BY FirstIsFirst DEF Present
<1> QED
    BY <1>1, <1>2 DEF Resolved

-----------------------------------------------------------------------------
(* The steps up to the swap.                                               *)
LEMMA BeginKeeps == ASSUME IInv, UNCHANGED archived, Begin PROVE IInv'
<1>1. PICK r \in Releases :
        Step([Idle EXCEPT !.at = "download", !.release = r, !.place = Resolved])
    BY DEF Begin
<1> DEFINE j == [Idle EXCEPT !.at = "download", !.release = r, !.place = Resolved]
<1>2. Idle \in Jobs /\ Idle.new = None /\ ~Idle.previous
    BY PlacesAssumption DEF Idle, Jobs, Places
<1>3. j \in Jobs /\ j.at = "download" /\ j.new = None /\ ~j.previous
    BY <1>2, ResolvedIsPlace DEF Jobs
<1>4. JobInv'
    BY <1>1, <1>3 DEF Step, JobInv
<1> QED
    BY <1>1, <1>3, <1>4, StepKeeps

LEMMA PrepareKeeps ==
  ASSUME IInv, UNCHANGED archived, Download \/ Verify \/ Unpack \/ Flush \/ Fail \/ InstallFails
  PROVE  IInv'
<1>1. job \in Jobs /\ (job.new = None <=> job.at \in {"idle", "download", "sync", "down"})
    BY DEF IInv, TypeOK
<1>2. None \notin Files
    BY NoneAssumption
<1>3. CASE Download
  <2>1. PICK f \in Files : Step([job EXCEPT !.at = "verify", !.new = f])
      BY <1>3 DEF Download
  <2> DEFINE j == [job EXCEPT !.at = "verify", !.new = f]
  <2>2. j \in Jobs /\ j.at = "verify" /\ j.new # None /\ ~j.previous
      BY <1>1, <1>2, <1>3 DEF Jobs, Download, IInv, JobInv
  <2>3. JobInv'
      BY <2>1, <2>2 DEF Step, JobInv
  <2> QED
      BY <2>1, <2>2, <2>3, StepKeeps
<1>4. CASE Verify
  <2> DEFINE j == [job EXCEPT !.at = IF archived THEN "unpack" ELSE "flush"]
  <2>1. j \in Jobs /\ j.at \in {"unpack", "flush"} /\ j.new = job.new /\ j.new.whole /\ ~j.previous
      BY <1>1, <1>4 DEF Jobs, Verify, Matches, IInv, JobInv
  <2>2. JobInv'
      BY <1>4, <2>1 DEF Verify, Step, JobInv
  <2> QED
      BY <1>1, <1>4, <2>1, <2>2, StepKeeps DEF Verify
<1>5. CASE Unpack
  <2> DEFINE j == [job EXCEPT !.at = "flush", !.new.flushed = FALSE]
  <2>1. job.new \in Files /\ job.new.whole /\ ~job.previous
      BY <1>1, <1>5 DEF Unpack, Jobs, IInv, JobInv
  <2>2. j \in Jobs /\ j.at = "flush" /\ j.new # None /\ j.new.whole /\ ~j.previous
      BY <1>1, <1>2, <2>1 DEF Jobs, Files
  <2>3. JobInv'
      BY <1>5, <2>2 DEF Unpack, Step, JobInv
  <2> QED
      BY <1>5, <2>2, <2>3, StepKeeps DEF Unpack
<1>6. CASE Flush
  <2> DEFINE j == [job EXCEPT !.at = "clear", !.new.flushed = TRUE]
  <2>1. job.new \in Files /\ job.new.whole /\ ~job.previous
      BY <1>1, <1>6 DEF Flush, Jobs, IInv, JobInv
  <2>2. /\ j \in Jobs /\ j.at = "clear" /\ j.new # None
        /\ j.new.whole /\ j.new.flushed /\ ~j.previous
      BY <1>1, <1>2, <2>1 DEF Jobs, Files
  <2>3. JobInv'
      BY <1>6, <2>2 DEF Flush, Step, JobInv
  <2> QED
      BY <1>6, <2>2, <2>3, StepKeeps DEF Flush
<1>7. ASSUME Step(Failed) PROVE IInv'
  <2>1. JobInv'
      BY <1>7, FailedIsFresh DEF Step, JobInv
  <2> QED
      BY <1>7, <2>1, FailedIsFresh, StepKeeps
<1>8. CASE InstallFails
  <2>1. CASE job.previous
    <3> DEFINE j == [job EXCEPT !.at = "rollback"]
    <3>1. j \in Jobs /\ j.at = "rollback" /\ j.new = job.new /\ j.previous /\ j.place = job.place
        BY <1>1, <2>1 DEF Jobs
    <3>2. Step(j) /\ job.at = "install"
        BY <1>8, <2>1 DEF InstallFails
    <3>3. JobInv'
        BY <2>1, <3>1, <3>2 DEF Step, IInv, JobInv, Here
    <3> QED
        BY <1>1, <3>1, <3>2, <3>3, StepKeeps
  <2> QED
      BY <1>7, <1>8, <2>1 DEF InstallFails
<1> QED
    BY <1>3, <1>4, <1>5, <1>6, <1>7, <1>8 DEF Fail

(* The steps of atomicSwap that change the directory.                      *)
LEMMA SwapKeeps ==
  ASSUME IInv, UNCHANGED archived, Clear \/ Aside \/ Install \/ Rollback \/ SyncDir
  PROVE  IInv'
<1>1. /\ job \in Jobs /\ job.place \in Places
      /\ (job.new = None <=> job.at \in {"idle", "download", "sync", "down"})
    BY DEF IInv, TypeOK, Jobs
<1>2. None \notin Files
    BY NoneAssumption
<1>3. Here \in Directories /\ SoundHere(Here)
    BY <1>1 DEF Here, IInv, TypeOK, DiskInv
<1>4. CASE Clear
  <2> DEFINE j == [job EXCEPT !.at = IF Here.target = None THEN "install" ELSE "aside"]
             d == [Here EXCEPT !.bak = None]
  <2>1. /\ j \in Jobs /\ j.place = job.place /\ j.new = job.new /\ ~j.previous
        /\ j.at = IF Here.target = None THEN "install" ELSE "aside"
        /\ job.new.whole /\ job.new.flushed /\ job.at = "clear" /\ job' = j /\ found' = found
      BY <1>1, <1>4 DEF Jobs, Clear, IInv, JobInv
  <2>a. j.new = None <=> j.at \in {"idle", "download", "sync", "down"}
      BY <1>1, <2>1
  <2> HIDE DEF j
  <2>2. CASE UNCHANGED <<disk, persisted>>
    <3>1. JobInv'
        BY <2>1, <2>2 DEF JobInv, Here
    <3> QED
        BY <2>1, <2>a, <2>2, <3>1, StepKeeps DEF Step
  <2>3. CASE Becomes(job.place, d)
    <3>1. d \in Directories /\ SoundHere(d) /\ d.target = Here.target
        BY <1>3 DEF Directories, SoundHere, Sound
    <3>2. Here' = d
        BY <1>1, <2>1, <2>3 DEF Becomes, Here, IInv, TypeOK
    <3>3. JobInv'
        BY <2>1, <3>1, <3>2 DEF JobInv
    <3> QED
        BY <1>1, <2>1, <2>a, <2>3, <3>1, <3>3, BecomesKeeps
  <2> QED
      BY <1>4, <2>2, <2>3 DEF Clear
<1>5. CASE Aside
  <2> DEFINE j == [job EXCEPT !.at = "install", !.previous = TRUE]
             d == [target |-> None, bak |-> Here.target]
  <2>1. /\ j \in Jobs /\ j.place = job.place /\ j.new = job.new /\ j.previous
        /\ j.at = "install" /\ job.at = "aside" /\ job' = j /\ found' = found
        /\ job.new.whole /\ job.new.flushed /\ Here.target # None
      BY <1>1, <1>5 DEF Jobs, Aside, IInv, JobInv
  <2>2. d \in Directories /\ SoundHere(d)
      BY <1>3 DEF Directories, SoundHere, Sound
  <2>3. Becomes(job.place, d) /\ Here' = d
      BY <1>1, <1>5, <2>1 DEF Aside, Becomes, Here, IInv, TypeOK
  <2>4. JobInv'
      BY <2>1, <2>3 DEF JobInv
  <2> QED
      BY <1>1, <2>1, <2>2, <2>3, <2>4, BecomesKeeps
<1>6. CASE Install
  <2> DEFINE j == [job EXCEPT !.at = "sync", !.new = None]
             d == [Here EXCEPT !.target = job.new]
  <2>1. /\ j \in Jobs /\ j.at = "sync" /\ j.new = None /\ job' = j /\ found' = found
        /\ job.new \in Files /\ job.new.whole /\ job.new.flushed
      BY <1>1, <1>6 DEF Jobs, Install, IInv, JobInv
  <2>2. d \in Directories /\ SoundHere(d)
      BY <1>3, <2>1 DEF Directories, SoundHere, Sound
  <2>3. JobInv'
      BY <2>1 DEF JobInv
  <2> QED
      BY <1>1, <1>6, <2>1, <2>2, <2>3, BecomesKeeps DEF Install
<1>7. CASE Rollback
  <2> DEFINE d == [target |-> Here.bak, bak |-> None]
  <2>1. d \in Directories /\ SoundHere(d)
      BY <1>3 DEF Directories, SoundHere, Sound
  <2>2. JobInv'
      BY <1>7, FailedIsFresh DEF Rollback, JobInv
  <2>3. CASE Becomes(job.place, d)
      BY <1>1, <1>7, <2>1, <2>2, <2>3, FailedIsFresh, BecomesKeeps DEF Rollback
  <2>4. CASE UNCHANGED <<disk, persisted>>
      BY <1>7, <2>2, <2>4, FailedIsFresh, StepKeeps DEF Rollback, Step
  <2> QED
      BY <1>7, <2>3, <2>4 DEF Rollback
<1>8. CASE SyncDir
  <2>1. Idle \in Jobs
      BY PlacesAssumption DEF Idle, Jobs, Places
  <2>2. TypeOK'
      BY <1>1, <1>3, <1>8, <2>1 DEF SyncDir, IInv, TypeOK, Idle
  <2>3. DiskInv'
      BY <1>1, <1>8 DEF SyncDir, IInv, TypeOK, DiskInv, Here
  <2>4. JobInv'
      BY <1>8 DEF SyncDir, JobInv, Idle
  <2> QED
      BY <2>2, <2>3, <2>4 DEF IInv
<1> QED
    BY <1>4, <1>5, <1>6, <1>7, <1>8

(* Crashes, power losses and what happens outside.                         *)
LEMMA OutsideKeeps ==
  ASSUME IInv, UNCHANGED archived,
         Crash \/ PowerLoss \/ Restart \/ \E p \in Places : Restore(p) \/ Writeback(p)
  PROVE  IInv'
<1>1. Idle \in Jobs /\ Down \in Jobs /\ Down.at = "down" /\ Down.new = None /\ ~Down.previous
  <2>1. Idle \in Jobs
      BY PlacesAssumption DEF Idle, Jobs, Places
  <2> QED
      BY <2>1 DEF Idle, Down, Jobs
<1>2. CASE Crash
  <2>1. JobInv'
      BY <1>1, <1>2 DEF Crash, Step, JobInv
  <2> QED
      BY <1>1, <1>2, <2>1, StepKeeps DEF Crash
<1>3. CASE PowerLoss
  <2>1. \A p \in Places : disk'[p] \in Directories /\ SoundHere(disk'[p])
    <3> TAKE p \in Places
    <3>1. disk'[p] \in Survivors(p)
        BY <1>3 DEF PowerLoss
    <3>2. PICK d \in persisted[p] : disk'[p] \in [target : Remains(d.target), bak : Remains(d.bak)]
        BY <3>1 DEF Survivors
    <3>3. d \in Directories /\ SoundHere(d)
        BY DEF IInv, TypeOK, DiskInv
    <3>4. Remains(d.target) = {d.target} /\ Remains(d.bak) = {d.bak}
        BY <3>3 DEF Remains, SoundHere, Sound
    <3>5. disk'[p] = d
        BY <3>2, <3>3, <3>4 DEF Directories
    <3> QED
        BY <3>3, <3>5
  <2>2. disk' \in [Places -> Directories]
      BY <1>3, <2>1 DEF PowerLoss
  <2>3. /\ persisted' \in [Places -> SUBSET Directories]
        /\ \A p \in Places : persisted'[p] = {disk'[p]}
      BY <1>3, <2>1 DEF PowerLoss
  <2>4. TypeOK'
      BY <1>1, <1>3, <2>2, <2>3 DEF PowerLoss, IInv, TypeOK
  <2>5. DiskInv'
      BY <2>1, <2>3 DEF DiskInv
  <2>6. JobInv'
      BY <1>1, <1>3 DEF PowerLoss, JobInv
  <2> QED
      BY <2>4, <2>5, <2>6 DEF IInv
<1>4. CASE Restart
  <2>1. TypeOK'
      BY <1>1, <1>4 DEF Restart, IInv, TypeOK, Idle
  <2>2. DiskInv' /\ JobInv'
      BY <1>4 DEF Restart, IInv, DiskInv, JobInv, Idle
  <2> QED
      BY <2>1, <2>2 DEF IInv
<1>5. ASSUME NEW p \in Places, Restore(p) PROVE IInv'
  <2> DEFINE d == [target |-> disk[p].bak, bak |-> None]
  <2>1. d \in Directories /\ SoundHere(d)
      BY <1>5 DEF IInv, TypeOK, DiskInv, Directories, SoundHere, Sound
  <2>2. JobInv'
      BY <1>5 DEF Restore, IInv, JobInv
  <2> QED
      BY <1>5, <2>1, <2>2, BecomesKeeps DEF Restore, IInv, TypeOK
<1>6. ASSUME NEW p \in Places, Writeback(p) PROVE IInv'
  <2>1. TypeOK'
      BY <1>6 DEF Writeback, IInv, TypeOK
  <2>2. DiskInv'
      BY <1>6 DEF Writeback, IInv, TypeOK, DiskInv
  <2>3. JobInv'
      BY <1>6 DEF Writeback, IInv, JobInv, Here
  <2> QED
      BY <2>1, <2>2, <2>3 DEF IInv
<1> QED
    BY <1>2, <1>3, <1>4, <1>5, <1>6
(* The invariant is inductive, so it holds.                                *)
LEMMA NextIInv == ASSUME IInv, [Next]_vars PROVE IInv'
<1>1. CASE UNCHANGED vars
    BY <1>1 DEF vars, IInv, TypeOK, DiskInv, JobInv, Here
<1>2. CASE Next
    BY <1>2, BeginKeeps, PrepareKeeps, SwapKeeps, OutsideKeeps DEF Next, Update
<1> QED
    BY <1>1, <1>2

(* Every reachable state has the types, the sound disk and the progress of *)
(* its update.                                                             *)
THEOREM InvariantHolds == Spec => []IInv
    BY InitIInv, NextIInv, PTL DEF Spec

(* Types, and no temporary file outlives its update.                       *)
THEOREM TypeCorrect == Spec => []TypeOK
<1>1. IInv => TypeOK
    BY DEF IInv
<1> QED
    BY <1>1, InvariantHolds, PTL

(* At every moment, crashes and power losses included, what lies at the    *)
(* path and in .bak is whole and verified.                                 *)
THEOREM OnlyWholeFiles == Spec => []InstalledIsWhole
<1>1. IInv => InstalledIsWhole
    BY DEF IInv, DiskInv, SoundHere, Sound, InstalledIsWhole
<1> QED
    BY <1>1, InvariantHolds, PTL

-----------------------------------------------------------------------------
(* A sound directory is usable when it is not empty.                       *)
LEMMA SoundIsUsable ==
  ASSUME NEW d \in Directories, SoundHere(d), d.target # None \/ d.bak # None
  PROVE  Usable(d)
    BY DEF Usable, SoundHere, Sound

(* Only the removal of .bak makes a directory that kept a copy lose it.    *)
LEMMA StepKeepsCopies ==
  ASSUME IInv, IInv', Next, NEW p \in Places, Recoverable(p), ~Recoverable(p)'
  PROVE  job.at = "clear" /\ p = job.place /\ Target(p) = None
<1>1. PICK d \in persisted'[p] : ~Usable(d)
    BY DEF Recoverable
<1>2. d \notin persisted[p]
    BY <1>1 DEF Recoverable
<1>3. d \in Directories /\ SoundHere(d)
    BY DEF IInv, TypeOK, DiskInv
<1>4. d.target = None /\ d.bak = None
    BY <1>1, <1>3, SoundIsUsable
<1>5. disk[p] \in persisted[p]
    BY DEF IInv, DiskInv
<1>6. SUFFICES ASSUME ~(job.at = "clear" /\ p = job.place /\ Target(p) = None) PROVE FALSE
    OBVIOUS
<1>7. ASSUME NEW q \in Places, NEW e \in Directories, Becomes(q, e),
             e.target # None \/ e.bak # None
      PROVE  FALSE
    BY <1>2, <1>4, <1>7 DEF Becomes, IInv, TypeOK
<1>8. /\ job \in Jobs /\ job.place \in Places /\ Here \in Directories
      /\ \A q \in Places : disk[q] \in Directories
    BY DEF IInv, TypeOK, Jobs, Here
<1>9. ~UNCHANGED <<disk, persisted>> /\ persisted' # persisted
    BY <1>2
<1>10. CASE Begin \/ Download \/ Verify \/ Unpack \/ Fail \/ Flush \/ InstallFails
            \/ Crash \/ Restart
    BY <1>9, <1>10 DEF Begin, Download, Verify, Unpack, Fail, Flush, InstallFails, Crash,
                       Restart, Step
<1>11. CASE Clear
  <2>1. Becomes(job.place, [Here EXCEPT !.bak = None])
      BY <1>9, <1>11 DEF Clear
  <2>2. [Here EXCEPT !.bak = None] \in Directories
      BY <1>8 DEF Directories
  <2>3. Here.target # None
    <3>1. job.place = p
        BY <1>2, <2>1, <1>8 DEF Becomes, IInv, TypeOK
    <3> QED
        BY <1>6, <1>11, <3>1 DEF Clear, Target, Here
  <2> QED
      BY <1>7, <1>8, <2>1, <2>2, <2>3 DEF Directories
<1>12. CASE Aside
  <2>1. Here.target # None
      BY <1>12 DEF Aside, IInv, JobInv
  <2> QED
      BY <1>7, <1>8, <1>12, <2>1 DEF Aside, Directories
<1>13. CASE Install
  <2>1. job.new \in Files /\ job.new # None
      BY <1>8, <1>13, NoneAssumption DEF Install, IInv, TypeOK, Jobs
  <2> QED
      BY <1>7, <1>8, <1>13, <2>1 DEF Install, Directories
<1>14. CASE Rollback
  <2>1. Here.bak # None
      BY <1>14 DEF Rollback, IInv, JobInv
  <2>2. Becomes(job.place, [target |-> Here.bak, bak |-> None])
      BY <1>9, <1>14 DEF Rollback
  <2> QED
      BY <1>7, <1>8, <2>1, <2>2 DEF Directories
<1>15. CASE SyncDir
    BY <1>2, <1>5, <1>8, <1>15 DEF SyncDir, Here, IInv, TypeOK
<1>16. CASE PowerLoss
  <2>1. disk'[p] \in Survivors(p) /\ persisted'[p] = {disk'[p]}
      BY <1>16 DEF PowerLoss
  <2>2. PICK e \in persisted[p] : d \in [target : Remains(e.target), bak : Remains(e.bak)]
      BY <1>1, <2>1 DEF Survivors
  <2>3. e \in Directories /\ SoundHere(e)
      BY DEF IInv, TypeOK, DiskInv
  <2>4. Remains(e.target) = {e.target} /\ Remains(e.bak) = {e.bak}
      BY <2>3 DEF Remains, SoundHere, Sound
  <2>5. d = e
      BY <2>2, <2>3, <2>4 DEF Directories
  <2> QED
      BY <1>2, <2>5
<1>17. ASSUME NEW q \in Places, Restore(q) PROVE FALSE
    BY <1>7, <1>8, <1>17 DEF Restore, Directories
<1>18. ASSUME NEW q \in Places, Writeback(q) PROVE FALSE
    BY <1>2, <1>5, <1>18 DEF Writeback, IInv, TypeOK
<1> QED
    BY <1>10, <1>11, <1>12, <1>13, <1>14, <1>15, <1>16, <1>17, <1>18 DEF Next, Update

(* A copy that would survive any crash stays available until an update     *)
(* that finds no target removes .bak.                                      *)
THEOREM KeepsTheLastCopy == Spec => LastCopyKept
<1>1. ASSUME IInv, IInv', [Next]_vars
      PROVE  [\A p \in Places : Recoverable(p) /\ ~Recoverable(p)'
                => job.at = "clear" /\ p = job.place /\ Target(p) = None]_vars
    BY <1>1, StepKeepsCopies
<1> QED
    BY <1>1, InvariantHolds, PTL DEF Spec, LastCopyKept
-----------------------------------------------------------------------------
(* While an update runs, no directory before its own has the file, its     *)
(* temporary file is what it was to download, and in the end so is the     *)
(* file at its path.                                                       *)
WayClear == job.at \notin {"idle", "down"} => \A q \in Places : q < job.place => Target(q) = None

Progress ==
  /\ job.at \in {"unpack", "flush", "clear", "aside", "install", "rollback"}
       => job.new.of = job.release
  /\ job.at = "sync" => Matches(Target(job.place), job.release)

FoundInv == WayClear /\ Progress

LEMMA FoundStep ==
  ASSUME IInv, IInv', FoundInv, Next
  PROVE  FoundInv'
<1> USE DEF FoundInv
<1>1. /\ job \in Jobs /\ job.place \in Places /\ Places \subseteq Nat
      /\ \A q \in Places : q >= 1 /\ disk[q] \in Directories
    BY PlacesAssumption DEF IInv, TypeOK, Jobs, Places
<1>2. ASSUME job'.at \in {"idle", "down"} PROVE FoundInv'
    BY <1>2 DEF WayClear, Progress
<1>3. ASSUME job' = Failed PROVE FoundInv'
  <2>1. Failed.at = "idle" \/ (Failed.at = "download" /\ Failed.place = 1)
      BY DEF Failed, Idle
  <2>2. ~(\E q \in Places : q < 1)
      BY <1>1
  <2> QED
      BY <1>3, <2>1, <2>2 DEF WayClear, Progress
<1>4. CASE Begin
  <2>1. PICK r \in Releases :
          Step([Idle EXCEPT !.at = "download", !.release = r, !.place = Resolved])
      BY <1>4 DEF Begin
  <2>2. job'.at = "download" /\ job'.place = Resolved /\ disk' = disk
      BY <2>1 DEF Step, Idle
  <2>3. \A q \in Places : q < Resolved => Target(q) = None
    <3> SUFFICES ASSUME NEW q \in Places, q < Resolved, q \in Present PROVE FALSE
        BY DEF Present
    <3>1. Resolved = First /\ First <= q
        BY FirstIsFirst DEF Resolved
    <3>2. q \in Nat /\ First \in Nat
        BY <1>1, <3>1, ResolvedIsPlace
    <3> QED
        BY <3>1, <3>2
  <2> QED
      BY <2>2, <2>3 DEF WayClear, Progress, Target
<1>5. CASE Download \/ Verify \/ Unpack \/ Flush
  <2>1. disk' = disk /\ job'.place = job.place /\ job.at \notin {"idle", "down"}
      BY <1>1, <1>5 DEF Download, Verify, Unpack, Flush, Step, Jobs
  <2>2. WayClear'
      BY <2>1 DEF WayClear, Target
  <2>3. Progress'
    <3>1. CASE Download
        BY <1>1, <3>1 DEF Download, Step, Progress, Jobs
    <3>2. CASE Verify
        BY <1>1, <3>2 DEF Verify, Matches, Step, Progress, Jobs
    <3>3. CASE Unpack \/ Flush
      <4>1. job.new \in Files /\ job.new.of = job.release
          BY <1>1, <3>3 DEF Unpack, Flush, IInv, TypeOK, Jobs, Progress
      <4>2. job'.new.of = job.new.of /\ job'.release = job.release /\ job'.at # "sync"
        <5>1. CASE Unpack
            BY <1>1, <4>1, <5>1 DEF Unpack, Step, Jobs, Files
        <5>2. CASE Flush
            BY <1>1, <4>1, <5>2 DEF Flush, Step, Jobs, Files
        <5> QED
            BY <3>3, <5>1, <5>2
      <4> QED
          BY <4>1, <4>2 DEF Progress
    <3> QED
        BY <1>5, <3>1, <3>2, <3>3
  <2> QED
      BY <2>2, <2>3
<1>6. CASE Clear \/ Aside \/ Install
  <2>1. /\ \A q \in Places : q # job.place => disk'[q] = disk[q]
        /\ job'.place = job.place /\ job'.release = job.release
        /\ job.at \in {"clear", "aside", "install"}
      BY <1>1, <1>6 DEF Clear, Aside, Install, Becomes, IInv, TypeOK, Jobs
  <2>2. WayClear'
      BY <1>1, <2>1 DEF WayClear, Target
  <2>3. CASE Clear \/ Aside
    <3>1. job'.new = job.new /\ job'.at # "sync"
        BY <1>1, <2>3 DEF Clear, Aside, Jobs
    <3> QED
        BY <2>1, <2>2, <3>1 DEF Progress
  <2>4. CASE Install
    <3>1. job.new \in Files /\ job.new.whole /\ job.new.of = job.release
        BY <1>1, <2>4 DEF Install, IInv, TypeOK, Jobs, JobInv, Progress
    <3>2. disk'[job.place].target = job.new /\ job'.at = "sync"
        BY <1>1, <2>4 DEF Install, Becomes, Here, IInv, TypeOK, Directories, Jobs
    <3> QED
        BY <2>1, <2>2, <3>1, <3>2, NoneAssumption DEF Progress, Matches, Target
  <2> QED
      BY <1>6, <2>2, <2>3, <2>4
<1>7. CASE InstallFails
  <2>1. CASE job.previous
      BY <1>1, <1>7, <2>1 DEF InstallFails, Step, WayClear, Progress, Target, Jobs
  <2> QED
      BY <1>3, <1>7, <2>1 DEF InstallFails, Step
<1>8. CASE \E p \in Places : Restore(p)
    BY <1>2, <1>8 DEF Restore
<1>9. CASE \E p \in Places : Writeback(p)
    BY <1>9 DEF Writeback, WayClear, Progress, Target
<1> QED
    BY <1>2, <1>3, <1>4, <1>5, <1>6, <1>7, <1>8, <1>9
    DEF Next, Update, Fail, Rollback, SyncDir, Crash, PowerLoss, Restart, Step, Idle, Down

(* An update that ends well has put its release where a search finds it.   *)
THEOREM UpdatesAreFound == Spec => []UpdatedIsFound
<1>1. Init => FoundInv
    BY DEF Init, Idle, FoundInv, WayClear, Progress
<1>2. ASSUME IInv, IInv', FoundInv, [Next]_vars PROVE FoundInv'
  <2>1. CASE UNCHANGED vars
      BY <1>2, <2>1 DEF vars, FoundInv, WayClear, Progress, Target
  <2> QED
      BY <1>2, <2>1, FoundStep
<1>3. ASSUME IInv, FoundInv PROVE UpdatedIsFound
  <2> SUFFICES ASSUME job.at = "sync" PROVE Matches(Target(Resolved), job.release)
      BY DEF UpdatedIsFound
  <2>1. job.place \in Places /\ Places \subseteq Nat
      BY <1>3, PlacesAssumption DEF IInv, TypeOK, Jobs, Places
  <2>2. Matches(Target(job.place), job.release)
      BY <1>3 DEF FoundInv, Progress
  <2>3. job.place \in Present
      BY <2>1, <2>2 DEF Present, Matches
  <2>4. Resolved \in Present /\ Resolved <= job.place
      BY <2>3, FirstIsFirst DEF Resolved
  <2>5. ~(Resolved < job.place)
      BY <1>3, <2>4 DEF FoundInv, WayClear, Present
  <2>6. Resolved \in Nat /\ job.place \in Nat
      BY <2>1, ResolvedIsPlace
  <2>7. Resolved = job.place
      BY <2>4, <2>5, <2>6
  <2> QED
      BY <2>2, <2>7
<1> QED
    BY <1>1, <1>2, <1>3, InvariantHolds, PTL DEF Spec

-----------------------------------------------------------------------------
(* The starts leave the updates as they are.                               *)
THEOREM StartsOnlyRead == StagingSpec => Spec
<1>1. StagingInit => Init
    BY DEF StagingInit
<1>2. [StagingNext]_allVars => [Next]_vars
    BY DEF StagingNext, allVars, vars, Next, Find, Accept, Discard, Link, Refuse, Starting
<1> QED
    BY <1>1, <1>2, PTL DEF StagingSpec, Spec

StagingTypes ==
  /\ staged \in [Instances -> Links \cup Copies \cup {None}]
  /\ start \in [Instances -> Starts]

(* A copy is whole, or was never synced.                                   *)
CopiesInv == \A i \in Instances :
  staged[i] \in Copies => staged[i].file.whole \/ ~staged[i].file.flushed

(* What a start that nothing disturbed knows at each of its steps.         *)
Fresh(i) == start[i].undisturbed =>
  /\ job.at = "idle"
  /\ start[i].at # "idle" => Present # {} /\ start[i].from = First
  /\ start[i].at = "done" => Alike(Reads(i), Target(First))

StagingInv == StagingTypes /\ CopiesInv /\ \A i \in Instances : Fresh(i)

-----------------------------------------------------------------------------
(* A symbolic link is no file of its own.                                  *)
LEMMA LinksAreNoCopies == \A f \in Links : f \notin Copies
    BY DEF Links, Copies

(* A start that goes on concerns its instance only.                        *)
LEMMA StartKeeps ==
  ASSUME IInv, StagingInv, NEW i \in Instances, NEW s \in Starts, Starting(i, s),
         NEW f \in Links \cup Copies \cup {None}, staged' = [staged EXCEPT ![i] = f],
         f \in Copies => f.file.whole \/ ~f.file.flushed,
         Fresh(i)'
  PROVE  StagingInv'
<1>1. /\ \A k \in Instances \ {i} : start'[k] = start[k] /\ staged'[k] = staged[k]
      /\ start'[i] = s /\ staged'[i] = f
    BY DEF Starting, StagingInv, StagingTypes
<1>2. StagingTypes'
    BY DEF Starting, StagingInv, StagingTypes
<1>3. CopiesInv'
    BY <1>1 DEF StagingInv, CopiesInv
<1>4. ASSUME NEW k \in Instances \ {i} PROVE Fresh(k)'
    BY <1>1, <1>4 DEF Starting, vars, StagingInv, Fresh, Reads, Target, Present, First
<1> QED
    BY <1>2, <1>3, <1>4 DEF StagingInv

(* What a process reads, through a link or from a file of its own.         *)
LEMMA ReadsLink ==
  ASSUME NEW i \in Instances, staged[i] \in Links
  PROVE  Reads(i) = Target(staged[i].to)
    BY DEF Reads

(* The file of its own.                                                    *)
LEMMA ReadsCopy ==
  ASSUME NEW i \in Instances, staged[i] \in Copies
  PROVE  Reads(i) = staged[i].file
    BY LinksAreNoCopies DEF Reads

(* A start leaves the directories alone.                                   *)
LEMMA StartingLeaves ==
  ASSUME NEW i \in Instances, NEW s, Starting(i, s)
  PROVE  /\ job' = job /\ disk' = disk /\ Present' = Present /\ First' = First
         /\ \A p \in Places : Target(p)' = Target(p)
    BY DEF Starting, vars, Present, First, Target

LEMMA FindKeeps == ASSUME IInv, StagingInv, NEW i \in Instances, Find(i) PROVE StagingInv'
<1> DEFINE s == IF Present = {} THEN NoStart
                ELSE [at |-> "check", from |-> First, undisturbed |-> job.at = "idle"]
<1>1. Starting(i, s) /\ staged' = staged
    BY DEF Find
<1>2. s \in Starts
  <2>1. 1 \in Places
      BY PlacesAssumption DEF Places
  <2>2. Present # {} => First \in Places
      BY FirstIsFirst DEF Present
  <2>3. (job.at = "idle") \in BOOLEAN
      OBVIOUS
  <2> QED
      BY <2>1, <2>2, <2>3 DEF Starts, NoStart
<1>3. start'[i] = s
    BY <1>1 DEF Starting, StagingInv, StagingTypes
<1>4. Fresh(i)'
  <2>1. CASE Present = {}
      BY <1>3, <2>1 DEF Fresh, NoStart
  <2>2. CASE Present # {}
    <3>1. /\ start'[i].at = "check" /\ start'[i].from = First
          /\ start'[i].undisturbed = (job.at = "idle")
        BY <1>3, <2>2
    <3> QED
        BY <1>1, <2>2, <3>1, StartingLeaves DEF Fresh
  <2> QED
      BY <2>1, <2>2
<1>5. staged' = [staged EXCEPT ![i] = staged[i]] /\ staged[i] \in Links \cup Copies \cup {None}
    BY <1>1 DEF StagingInv, StagingTypes
<1> QED
    BY <1>1, <1>2, <1>4, <1>5, StartKeeps DEF StagingInv, CopiesInv

LEMMA AcceptKeeps == ASSUME IInv, StagingInv, NEW i \in Instances, Accept(i) PROVE StagingInv'
<1> DEFINE s == [start[i] EXCEPT !.at = "done"]
<1>1. Starting(i, s) /\ staged' = staged /\ UpToDate(i) /\ start[i].at = "check"
    BY DEF Accept
<1>2. /\ start[i] \in Starts /\ s \in Starts /\ s.at = "done"
      /\ s.from = start[i].from /\ s.undisturbed = start[i].undisturbed
    BY DEF StagingInv, StagingTypes, Starts
<1>3. start'[i] = s
    BY <1>1 DEF Starting, StagingInv, StagingTypes
<1>4. Fresh(i)'
  <2> SUFFICES ASSUME start[i].undisturbed
               PROVE  /\ job'.at = "idle" /\ Present' # {} /\ start'[i].from = First'
                      /\ Alike(Reads(i), Target(First))'
      BY <1>2, <1>3 DEF Fresh
  <2>1. job.at = "idle" /\ Present # {} /\ start[i].from = First /\ First \in Places
      BY <1>1, FirstIsFirst DEF StagingInv, Fresh, Present
  <2>2. Alike(Reads(i), Target(First))
      BY <1>1, <2>1, ReadsLink, ReadsCopy DEF UpToDate, Alike
  <2>3. Reads(i)' = Reads(i) /\ Target(First)' = Target(First)
      BY <1>1 DEF Starting, vars, Reads, Target, First, Present
  <2> QED
      BY <1>1, <1>2, <1>3, <2>1, <2>2, <2>3, StartingLeaves DEF Alike
<1>5. staged' = [staged EXCEPT ![i] = staged[i]] /\ staged[i] \in Links \cup Copies \cup {None}
    BY <1>1 DEF StagingInv, StagingTypes
<1> QED
    BY <1>1, <1>2, <1>4, <1>5, StartKeeps DEF StagingInv, CopiesInv

LEMMA DiscardKeeps == ASSUME IInv, StagingInv, NEW i \in Instances, Discard(i) PROVE StagingInv'
<1> DEFINE s == [start[i] EXCEPT !.at = "link"]
<1>1. Starting(i, s) /\ staged' = [staged EXCEPT ![i] = None] /\ start[i].at = "check"
    BY DEF Discard
<1>2. /\ s \in Starts /\ s.at = "link"
      /\ s.from = start[i].from /\ s.undisturbed = start[i].undisturbed
    BY DEF StagingInv, StagingTypes, Starts
<1>3. start'[i] = s
    BY <1>1 DEF Starting, StagingInv, StagingTypes
<1>4. Fresh(i)'
    BY <1>1, <1>2, <1>3, StartingLeaves DEF StagingInv, Fresh
<1> QED
    BY <1>1, <1>2, <1>4, StartKeeps, StagedAssumption

LEMMA RefuseKeeps == ASSUME IInv, StagingInv, NEW i \in Instances, Refuse(i) PROVE StagingInv'
<1>1. Starting(i, NoStart) /\ staged' = staged
    BY DEF Refuse
<1>2. NoStart \in Starts /\ ~NoStart.undisturbed
    BY PlacesAssumption DEF NoStart, Starts, Places
<1>3. Fresh(i)'
    BY <1>1, <1>2 DEF Starting, StagingInv, StagingTypes, Fresh
<1>4. staged' = [staged EXCEPT ![i] = staged[i]] /\ staged[i] \in Links \cup Copies \cup {None}
    BY <1>1 DEF StagingInv, StagingTypes
<1> QED
    BY <1>1, <1>2, <1>3, <1>4, StartKeeps DEF StagingInv, CopiesInv

LEMMA LinkKeeps == ASSUME IInv, StagingInv, NEW i \in Instances, Link(i) PROVE StagingInv'
<1> DEFINE s == [start[i] EXCEPT !.at = "done"]
           src == Target(start[i].from)
<1>1. Starting(i, s) /\ start[i].at = "link"
    BY DEF Link
<1>2. /\ start[i] \in Starts /\ start[i].from \in Places
      /\ s \in Starts /\ s.at = "done"
      /\ s.from = start[i].from /\ s.undisturbed = start[i].undisturbed
    BY DEF StagingInv, StagingTypes, Starts
<1>3. src \in Files \cup {None} /\ (src # None => src.whole)
    BY <1>2 DEF IInv, TypeOK, DiskInv, SoundHere, Sound, Target, Directories
<1>4. PICK f \in Links \cup Copies :
        /\ staged' = [staged EXCEPT ![i] = f]
        /\ f \in Links => f.to = start[i].from
        /\ f \in Copies => src # None /\ f.file.of = src.of /\ f.file.whole
  <2>1. PICK k \in Kinds :
          \/ /\ k = "symlink"
             /\ staged' = [staged EXCEPT ![i] = [kind |-> k, to |-> start[i].from]]
          \/ /\ k # "symlink" /\ src # None
             /\ staged' = [staged EXCEPT ![i] =
                  [kind |-> k, file |-> IF k = "copy" THEN [src EXCEPT !.flushed = FALSE] ELSE src]]
      BY DEF Link
  <2>2. CASE k = "symlink"
    <3> DEFINE f == [kind |-> "symlink", to |-> start[i].from]
    <3>1. f \in Links /\ f.to = start[i].from
        BY <1>2 DEF Links
    <3> QED
        BY <2>1, <2>2, <3>1, LinksAreNoCopies
  <2>3. CASE k # "symlink"
    <3> DEFINE g == IF k = "copy" THEN [src EXCEPT !.flushed = FALSE] ELSE src
               f == [kind |-> k, file |-> g]
    <3>1. src \in Files /\ src.whole
        BY <1>3, <2>1, <2>3
    <3>2. g \in Files /\ g.of = src.of /\ g.whole
        BY <3>1 DEF Files
    <3>3. f \in Copies /\ f.file = g
        BY <2>3, <3>2, KindsAssumption DEF Copies
    <3>4. staged' = [staged EXCEPT ![i] = f] /\ f \notin Links
        BY <2>1, <2>3, <3>3, LinksAreNoCopies
    <3> HIDE DEF f, g
    <3> QED
        BY <3>1, <3>2, <3>3, <3>4, NoneAssumption
  <2> QED
      BY <2>2, <2>3
<1>5. start'[i] = s /\ staged'[i] = f
    BY <1>1, <1>4 DEF Starting, StagingInv, StagingTypes
<1>6. Fresh(i)'
  <2> SUFFICES ASSUME start[i].undisturbed
               PROVE  /\ job'.at = "idle" /\ Present' # {} /\ start'[i].from = First'
                      /\ Alike(Reads(i), Target(First))'
      BY <1>2, <1>5 DEF Fresh
  <2>1. job.at = "idle" /\ Present # {} /\ start[i].from = First /\ First \in Places
      BY <1>1, FirstIsFirst DEF StagingInv, Fresh, Present
  <2>2. src # None /\ src = Target(First)
      BY <2>1, FirstIsFirst DEF Present
  <2>3. Reads(i)' = IF f \in Links THEN src ELSE f.file
      BY <1>1, <1>2, <1>4, <1>5, StartingLeaves, LinksAreNoCopies DEF Reads, Target, Links, Copies, Starting, vars
  <2>4. Reads(i)' # None /\ Reads(i)'.of = src.of
    <3>1. f \in Copies => f.file \in Files
        BY DEF Copies
    <3> QED
        BY <1>4, <2>2, <2>3, <3>1, NoneAssumption
  <2>5. Target(First)' = src
      BY <1>1, <2>2 DEF Starting, vars, Target, First, Present
  <2> QED
      BY <1>1, <1>2, <1>5, <2>1, <2>2, <2>4, <2>5, StartingLeaves DEF Alike
<1> QED
    BY <1>1, <1>2, <1>4, <1>6, StartKeeps

-----------------------------------------------------------------------------
(* What happens to the directories disturbs the starts, or ends them.      *)
LEMMA DisturbKeeps ==
  ASSUME StagingInv, Disturb, UNCHANGED staged
  PROVE  StagingInv'
<1>1. start' \in [Instances -> Starts] /\ \A i \in Instances : ~start'[i].undisturbed
    BY DEF Disturb, StagingInv, StagingTypes, Starts
<1> QED
    BY <1>1 DEF StagingInv, StagingTypes, CopiesInv, Fresh

LEMMA ForgetKeeps ==
  ASSUME StagingInv, Forget, staged' \in [Instances -> Links \cup Copies \cup {None}],
         \A i \in Instances : staged'[i] \in Ruins(staged[i])
  PROVE  StagingInv'
<1>1. start' \in [Instances -> Starts] /\ \A i \in Instances : ~start'[i].undisturbed
    BY PlacesAssumption DEF Forget, NoStart, Starts, Places
<1>2. CopiesInv'
  <2> SUFFICES ASSUME NEW i \in Instances, staged'[i] \in Copies
               PROVE  staged'[i].file.whole \/ ~staged'[i].file.flushed
      BY DEF CopiesInv
  <2>1. CASE staged'[i] = staged[i]
      BY <2>1 DEF StagingInv, CopiesInv
  <2>2. CASE /\ staged[i] \in Copies /\ ~staged[i].file.flushed
             /\ staged'[i] = [staged[i] EXCEPT !.file.whole = FALSE]
      BY <2>2 DEF Copies, Files
  <2> QED
      BY <2>1, <2>2 DEF Ruins
<1> QED
    BY <1>1, <1>2 DEF StagingInv, StagingTypes, Fresh

LEMMA StagingNextInv ==
  ASSUME IInv, StagingInv, [StagingNext]_allVars
  PROVE  StagingInv'
<1>1. CASE UNCHANGED allVars
    BY <1>1 DEF allVars, StagingInv, StagingTypes, CopiesInv, Fresh, Reads, Present, First, Target
<1>2. CASE (Begin \/ Update \/ \E p \in Places : Restore(p)) /\ Disturb /\ UNCHANGED staged
    BY <1>2, DisturbKeeps
<1>3. CASE (Restart \/ \E p \in Places : Writeback(p)) /\ UNCHANGED <<staged, start>>
  <2>1. disk' = disk /\ (job.at = "idle" => job'.at = "idle")
      BY <1>3 DEF Restart, Writeback
  <2> QED
      BY <1>3, <2>1 DEF StagingInv, StagingTypes, CopiesInv, Fresh, Reads, Present, First, Target
<1>4. CASE Crash /\ Forget /\ UNCHANGED staged
    BY <1>4, ForgetKeeps DEF StagingInv, StagingTypes, Ruins
<1>5. CASE /\ PowerLoss /\ Forget
           /\ staged' \in {s \in [Instances -> Links \cup Copies \cup {None}] :
                             \A i \in Instances : s[i] \in Ruins(staged[i])}
    BY <1>5, ForgetKeeps
<1>6. CASE \E i \in Instances : Find(i) \/ Accept(i) \/ Discard(i) \/ Link(i) \/ Refuse(i)
    BY <1>6, FindKeeps, AcceptKeeps, DiscardKeeps, LinkKeeps, RefuseKeeps
<1> QED
    BY <1>1, <1>2, <1>3, <1>4, <1>5, <1>6 DEF StagingNext

(* Every reachable state satisfies StagingInv.                             *)
THEOREM StagingInvariant == StagingSpec => [](IInv /\ StagingInv)
<1>1. StagingInit => StagingInv
  <2> SUFFICES ASSUME StagingInit PROVE StagingInv
      OBVIOUS
  <2>1. NoStart \in Starts /\ ~NoStart.undisturbed
      BY PlacesAssumption DEF NoStart, Starts, Places
  <2> QED
      BY <2>1, StagedAssumption DEF StagingInit, StagingInv, StagingTypes, CopiesInv, Fresh
<1> QED
    BY <1>1, StagingNextInv, StartsOnlyRead, InvariantHolds, PTL DEF StagingSpec

(* A process reads what was verified, or a copy that was never synced.     *)
THEOREM ReadsWhole == StagingSpec => []StagedIsWhole
<1>1. ASSUME IInv, StagingInv PROVE StagedIsWhole
  <2> SUFFICES ASSUME NEW i \in Instances
               PROVE  Reads(i) = None \/ Reads(i).whole \/ ~Reads(i).flushed
      BY DEF StagedIsWhole
  <2>1. CASE staged[i] \in Links
    <3>1. staged[i].to \in Places
        BY <2>1 DEF Links
    <3> QED
        BY <1>1, <2>1, <3>1, ReadsLink DEF IInv, DiskInv, SoundHere, Sound, Target
  <2>2. CASE staged[i] \in Copies
      BY <1>1, <2>2, ReadsCopy DEF StagingInv, CopiesInv
  <2> QED
      BY <2>1, <2>2 DEF Reads
<1> QED
    BY <1>1, StagingInvariant, PTL

(* A start that nothing disturbs uses the file that the search finds.      *)
THEOREM UsesTheFoundFile == StagingSpec => []StartsUseTheFoundFile
<1>1. StagingInv => StartsUseTheFoundFile
    BY DEF StagingInv, Fresh, StartsUseTheFoundFile
<1> QED
    BY <1>1, StagingInvariant, PTL

-----------------------------------------------------------------------------
(* The lookups leave the starts and the updates as they are.               *)
THEOREM LooksOnlyRead == GeoSpec => StagingSpec
<1>1. [GeoNext]_geoVars => [StagingNext]_allVars
    BY DEF GeoNext, geoVars, allVars, Look, Open, OpenFails, Looking, Elsewhere
<1> QED
    BY <1>1, PTL DEF GeoSpec, StagingSpec, GeoInit

(* Nothing is moved over a file: an update installs where it made room.    *)
Gap == job.at = "install" => Here.target = None

(* No step of an update or of the user closes the gap before Install does. *)
LEMMA GapStep ==
  ASSUME IInv, Gap, [Next]_vars
  PROVE  Gap'
<1>1. disk \in [Places -> Directories] /\ job \in Jobs /\ job.place \in Places
    BY DEF IInv, TypeOK, Jobs
<1>2. ASSUME job'.at # "install" PROVE Gap'
    BY <1>2 DEF Gap
<1>3. CASE UNCHANGED vars
    BY <1>3 DEF vars, Gap, Here
<1>4. CASE Clear
    BY <1>1, <1>4 DEF Clear, Becomes, Gap, Here, Directories, Jobs
<1>5. CASE Aside
    BY <1>1, <1>5 DEF Aside, Becomes, Gap, Here, Jobs
<1>6. CASE \E p \in Places : Writeback(p)
    BY <1>6 DEF Writeback, Gap, Here
<1>7. Idle.at # "install" /\ Down.at # "install" /\ Failed.at # "install"
    BY DEF Idle, Down, Failed
<1>8. CASE Begin
    BY <1>2, <1>8 DEF Begin, Step, Idle
<1>9. CASE Download \/ Verify \/ Unpack \/ Flush \/ Install
  <2>1. job'.at \in {"verify", "unpack", "flush", "clear", "sync"}
      BY <1>1, <1>9 DEF Download, Verify, Unpack, Flush, Install, Step, Jobs
  <2> QED
      BY <1>2, <2>1
<1>10. CASE Fail \/ Rollback \/ SyncDir \/ Crash \/ PowerLoss \/ Restart
  <2>1. job' \in {Failed, Idle, Down}
      BY <1>10 DEF Fail, Rollback, SyncDir, Crash, PowerLoss, Restart, Step
  <2> QED
      BY <1>2, <1>7, <2>1
<1>11. CASE InstallFails
  <2>1. job' = [job EXCEPT !.at = "rollback"] \/ job' = Failed
      BY <1>11 DEF InstallFails, Step
  <2>2. job'.at # "install"
      BY <1>1, <1>7, <2>1 DEF Jobs
  <2> QED
      BY <1>2, <2>2
<1>12. CASE \E p \in Places : Restore(p)
  <2>1. job'.at \in {"idle", "down"}
      BY <1>12 DEF Restore
  <2> QED
      BY <1>2, <2>1
<1> QED
    BY <1>3, <1>4, <1>5, <1>6, <1>8, <1>9, <1>10, <1>11, <1>12 DEF Next, Update

-----------------------------------------------------------------------------
(* The ways in which the files of a directory move.                        *)
Cleared(d, e) == e = [d EXCEPT !.bak = None]

SetAside(d, e) == d.target # None /\ e = [target |-> None, bak |-> d.target]

Installed(d, e) == d.target = None /\ e.target # None /\ e.bak = d.bak

BroughtBack(d, e) == d.target = None /\ d.bak # None /\ e = [target |-> d.bak, bak |-> None]

Moves(d, e) == d = e \/ Cleared(d, e) \/ SetAside(d, e) \/ Installed(d, e) \/ BroughtBack(d, e)

(* Unless the machine loses power, that is all that files do.              *)
LEMMA FilesMove ==
  ASSUME IInv, Gap, [Next]_vars, job'.at # "down", NEW p \in Places
  PROVE  Moves(disk[p], disk'[p])
<1>1. disk \in [Places -> Directories] /\ job \in Jobs /\ job.place \in Places
    BY DEF IInv, TypeOK, Jobs
<1>2. ASSUME NEW q \in Places, NEW e, disk' = [disk EXCEPT ![q] = e], Moves(disk[q], e)
      PROVE  Moves(disk[p], disk'[p])
    BY <1>1, <1>2 DEF Moves
<1>3. ASSUME disk' = disk PROVE Moves(disk[p], disk'[p])
    BY <1>3 DEF Moves
<1>4. CASE Clear
  <2>1. Moves(Here, [Here EXCEPT !.bak = None])
      BY DEF Moves, Cleared
  <2> QED
      BY <1>1, <1>2, <1>3, <1>4, <2>1 DEF Clear, Becomes, Here
<1>5. CASE Aside
  <2>1. Moves(Here, [target |-> None, bak |-> Here.target])
      BY <1>5 DEF IInv, JobInv, Aside, Moves, SetAside
  <2> QED
      BY <1>1, <1>2, <1>5, <2>1 DEF Aside, Becomes, Here
<1>6. CASE Install
  <2>1. job.new # None
      BY <1>6 DEF IInv, TypeOK, Install
  <2>2. Moves(Here, [Here EXCEPT !.target = job.new])
    <3>1. Here \in Directories /\ Here.target = None
        BY <1>1, <1>6 DEF Here, Gap, Install
    <3> QED
        BY <2>1, <3>1 DEF Moves, Installed, Directories
  <2> QED
      BY <1>1, <1>2, <1>6, <2>2 DEF Install, Becomes, Here
<1>7. CASE Rollback
  <2>1. Here.target = None /\ Here.bak # None
      BY <1>7 DEF IInv, JobInv, Rollback
  <2>2. Moves(Here, [target |-> Here.bak, bak |-> None])
      BY <2>1 DEF Moves, BroughtBack
  <2> QED
      BY <1>1, <1>2, <1>3, <1>7, <2>2 DEF Rollback, Becomes, Here
<1>8. ASSUME NEW q \in Places, Restore(q) PROVE Moves(disk[p], disk'[p])
  <2>1. Moves(disk[q], [target |-> disk[q].bak, bak |-> None])
      BY <1>8 DEF Restore, Target, Moves, BroughtBack
  <2> QED
      BY <1>2, <1>8, <2>1 DEF Restore, Becomes
<1>9. ASSUME PowerLoss PROVE FALSE
    BY <1>9 DEF PowerLoss, Down
<1>10. ASSUME Begin \/ Download \/ Verify \/ Unpack \/ Fail \/ Flush \/ InstallFails \/ SyncDir
              \/ Crash \/ Restart \/ (\E q \in Places : Writeback(q)) \/ UNCHANGED vars
       PROVE  disk' = disk
    BY <1>10
    DEF Begin, Download, Verify, Unpack, Fail, Flush, InstallFails, SyncDir, Crash, Restart,
        Writeback, Step, vars
<1> QED
    BY <1>3, <1>4, <1>5, <1>6, <1>7, <1>8, <1>9, <1>10 DEF Next, Update

-----------------------------------------------------------------------------
(* What the controller knows of the file whose time it took, while the     *)
(* file moves.                                                             *)

(* The file has not left the directory unnoticed.                          *)
TimeIsThere(g) ==
  /\ g.seen = "target" => Target(g.path) # None
  /\ g.seen = "bak" => disk[g.path].bak # None

(* It is the one in memory, unless another has taken its path since.       *)
TimeIsOfDb(g) ==
  /\ g.seen = "target" => Target(g.path).of = g.db
  /\ g.seen = "bak" /\ Target(g.path) = None => disk[g.path].bak.of = g.db

Followed ==
  /\ geo.at = "open" => TimeIsThere(geo)
  /\ geo.at = "idle" /\ geo.db # None => TimeIsThere(geo) /\ TimeIsOfDb(geo)

(* What a look that nothing disturbed has found.                           *)
Looked ==
  /\ geo.undisturbed /\ geo.at = "open" => Present # {} /\ geo.path = First
  /\ geo.undisturbed /\ geo.at = "idle" /\ geo.db # None =>
       Present # {} /\ geo.path = First /\ Target(First).of = geo.db

GeoInv == geo \in Geo /\ Followed /\ Looked

(* Without a database there is nothing to follow.                          *)
LEMMA UnopenedIsFine == ASSUME geo' = Unopened PROVE GeoInv'
    BY PlacesAssumption DEF Unopened, GeoInv, Geo, Places, Followed, Looked

(* A look changes neither files nor updates.                               *)
LEMMA LookingLeaves ==
  ASSUME NEW g, Looking(g)
  PROVE  /\ geo' = g /\ disk' = disk /\ Present' = Present /\ First' = First
         /\ \A p \in Places : Target(p)' = Target(p)
    BY DEF Looking, allVars, Present, First, Target

(* The search's file, of which the time was taken, is there.               *)
LEMMA LookKeeps == ASSUME IInv, GeoInv, Look PROVE GeoInv'
<1>1. CASE Present = {}
    BY <1>1, UnopenedIsFine DEF Look, Looking
<1>2. CASE Present # {} /\ geo.db # None /\ geo.path = First /\ geo.seen = "target"
  <2>1. Looking([geo EXCEPT !.undisturbed = TRUE]) /\ geo.at = "idle"
      BY <1>2 DEF Look
  <2>2. geo \in Geo
      BY DEF GeoInv
  <2>3. /\ geo' \in Geo
        /\ geo'.at = "idle" /\ geo'.db = geo.db /\ geo'.path = geo.path /\ geo'.seen = geo.seen
    <3>1. geo' = [geo EXCEPT !.undisturbed = TRUE]
        BY <2>1 DEF Looking
    <3> QED
        BY <2>1, <2>2, <3>1 DEF Geo
  <2>4. Followed'
      BY <2>1, <2>2, <2>3, LookingLeaves DEF GeoInv, Followed, TimeIsThere, TimeIsOfDb, Geo
  <2>5. Target(First).of = geo.db
      BY <1>2, <2>1 DEF GeoInv, Followed, TimeIsOfDb
  <2>6. First \in Places
      BY <1>2, <2>2 DEF Geo
  <2>7. Looked'
      BY <1>2, <2>1, <2>3, <2>5, <2>6, LookingLeaves DEF Looked
  <2> QED
      BY <2>3, <2>4, <2>7 DEF GeoInv
<1>3. CASE Present # {} /\ ~(geo.db # None /\ geo.path = First /\ geo.seen = "target")
  <2> DEFINE g == [at |-> "open", db |-> None, path |-> First, seen |-> "target", undisturbed |-> TRUE]
  <2>1. Looking(g)
      BY <1>3 DEF Look
  <2>2. First \in Present /\ First \in Places /\ Target(First) # None
      BY <1>3, FirstIsFirst DEF Present
  <2>3. g \in Geo
      BY <2>2 DEF Geo
  <2> QED
      BY <1>3, <2>1, <2>2, <2>3, LookingLeaves DEF GeoInv, Followed, Looked, TimeIsThere
<1> QED
    BY <1>1, <1>2, <1>3

(* What is read is the file whose time was taken, if it has not moved.     *)
LEMMA OpenKeeps == ASSUME IInv, GeoInv, Open PROVE GeoInv'
<1>1. /\ geo.at = "open" /\ Target(geo.path) # None
      /\ Looking([geo EXCEPT !.at = "idle", !.db = Target(geo.path).of])
    BY DEF Open
<1>2. geo \in Geo /\ geo.path \in Places
    BY DEF GeoInv, Geo
<1>3. Target(geo.path) \in Files
  <2>1. disk[geo.path] \in Directories
      BY <1>2 DEF IInv, TypeOK
  <2> QED
      BY <1>1, <2>1 DEF Directories, Target
<1>4. /\ geo' \in Geo /\ geo'.at = "idle" /\ geo'.db = Target(geo.path).of
      /\ geo'.path = geo.path /\ geo'.seen = geo.seen /\ geo'.undisturbed = geo.undisturbed
  <2>1. geo' = [geo EXCEPT !.at = "idle", !.db = Target(geo.path).of]
      BY <1>1 DEF Looking
  <2>2. Target(geo.path).of \in Releases
      BY <1>3 DEF Files
  <2> QED
      BY <1>2, <2>1, <2>2 DEF Geo
<1>5. Followed'
    BY <1>1, <1>2, <1>4, LookingLeaves DEF GeoInv, Followed, TimeIsThere, TimeIsOfDb
<1>6. Looked'
    BY <1>1, <1>2, <1>4, LookingLeaves DEF GeoInv, Looked
<1> QED
    BY <1>4, <1>5, <1>6 DEF GeoInv

(* The times go where the files go.                                        *)
LEMMA MovedFollows ==
  ASSUME NEW seen \in {"target", "bak", "gone"}, NEW d \in Directories, NEW e \in Directories,
         Moves(d, e),
         seen = "target" => d.target # None, seen = "bak" => d.bak # None
  PROVE  /\ Moved(seen, d, e) = "target" => e.target # None
         /\ Moved(seen, d, e) = "bak" => e.bak # None
<1>1. CASE d = e
    BY <1>1 DEF Moved
<1>2. CASE Cleared(d, e)
    BY <1>2 DEF Moved, Cleared, Directories
<1>3. CASE SetAside(d, e)
    BY <1>3 DEF Moved, SetAside
<1>4. CASE Installed(d, e)
    BY <1>4 DEF Moved, Installed
<1>5. CASE BroughtBack(d, e)
    BY <1>5 DEF Moved, BroughtBack
<1> QED
    BY <1>1, <1>2, <1>3, <1>4, <1>5 DEF Moves

(* Nor does the time of a file become that of another.                     *)
LEMMA MovedIsOfDb ==
  ASSUME NEW seen \in {"target", "bak", "gone"}, NEW d \in Directories, NEW e \in Directories,
         Moves(d, e), NEW db,
         seen = "target" => d.target # None /\ d.target.of = db,
         seen = "bak" => d.bak # None,
         seen = "bak" /\ d.target = None => d.bak.of = db
  PROVE  /\ Moved(seen, d, e) = "target" => e.target.of = db
         /\ Moved(seen, d, e) = "bak" /\ e.target = None => e.bak.of = db
<1>1. CASE d = e
    BY <1>1 DEF Moved
<1>2. CASE Cleared(d, e)
    BY <1>2 DEF Moved, Cleared, Directories
<1>3. CASE SetAside(d, e)
    BY <1>3 DEF Moved, SetAside
<1>4. CASE Installed(d, e)
    BY <1>4 DEF Moved, Installed
<1>5. CASE BroughtBack(d, e)
    BY <1>5 DEF Moved, BroughtBack
<1> QED
    BY <1>1, <1>2, <1>3, <1>4, <1>5 DEF Moves

(* Where files move, the time that was taken is followed.                  *)
LEMMA ElsewhereKeeps ==
  ASSUME IInv, IInv', Gap, GeoInv, Elsewhere
  PROVE  GeoInv'
<1>1. [Next]_vars
    BY DEF Elsewhere, StagingNext, vars, Next, Find, Accept, Discard, Link, Refuse, Starting
<1>2. geo \in Geo /\ geo.path \in Places
    BY DEF GeoInv, Geo
<1>3. CASE geo.at = "off"
    BY <1>2, <1>3 DEF Elsewhere, GeoInv, Followed, Looked
<1>4. CASE geo.at # "off" /\ job'.at = "down"
    BY <1>4, UnopenedIsFine DEF Elsewhere
<1>5. CASE geo.at # "off" /\ job'.at # "down"
  <2> DEFINE p == geo.path
             now == Moved(geo.seen, disk[p], disk'[p])
  <2>1. geo' = [geo EXCEPT !.seen = now, !.undisturbed = @ /\ disk' = disk]
      BY <1>5 DEF Elsewhere
  <2>2. disk[p] \in Directories /\ disk'[p] \in Directories /\ Moves(disk[p], disk'[p])
      BY <1>1, <1>2, <1>5, FilesMove DEF IInv, TypeOK
  <2>3. /\ geo'.at = geo.at /\ geo'.db = geo.db /\ geo'.path = p /\ geo'.seen = now
        /\ geo'.undisturbed = (geo.undisturbed /\ disk' = disk)
      BY <1>2, <2>1 DEF Geo
  <2>4. now \in {"target", "bak", "gone"} /\ geo' \in Geo
    <3>1. now \in {"target", "bak", "gone"}
        BY <2>2 DEF Moved
    <3> QED
        BY <1>2, <2>1, <3>1 DEF Geo
  <2>5. Followed'
    <3>1. CASE geo.at = "open"
      <4>1. geo.seen = "target" => disk[p].target # None
          BY <1>2, <3>1 DEF GeoInv, Followed, TimeIsThere, Target
      <4>2. geo.seen = "bak" => disk[p].bak # None
          BY <1>2, <3>1 DEF GeoInv, Followed, TimeIsThere
      <4>3. /\ now = "target" => disk'[p].target # None
            /\ now = "bak" => disk'[p].bak # None
          BY <1>2, <2>2, <4>1, <4>2, MovedFollows DEF Geo
      <4> QED
          BY <2>3, <3>1, <4>3 DEF Followed, TimeIsThere, Target
    <3>2. CASE geo.at = "idle" /\ geo.db # None
      <4>1. TimeIsThere(geo) /\ TimeIsOfDb(geo)
          BY <3>2 DEF GeoInv, Followed
      <4>2. /\ geo.seen = "target" => disk[p].target # None /\ disk[p].target.of = geo.db
            /\ geo.seen = "bak" => disk[p].bak # None
            /\ geo.seen = "bak" /\ disk[p].target = None => disk[p].bak.of = geo.db
          BY <4>1 DEF TimeIsThere, TimeIsOfDb, Target
      <4>3. /\ now = "target" => disk'[p].target # None /\ disk'[p].target.of = geo.db
            /\ now = "bak" => disk'[p].bak # None
            /\ now = "bak" /\ disk'[p].target = None => disk'[p].bak.of = geo.db
        <5>1. geo.seen \in {"target", "bak", "gone"}
            BY <1>2 DEF Geo
        <5>2. /\ now = "target" => disk'[p].target # None
              /\ now = "bak" => disk'[p].bak # None
            BY <2>2, <4>2, <5>1, MovedFollows
        <5>3. /\ now = "target" => disk'[p].target.of = geo.db
              /\ now = "bak" /\ disk'[p].target = None => disk'[p].bak.of = geo.db
            BY <2>2, <4>2, <5>1, MovedIsOfDb
        <5> QED
            BY <5>2, <5>3
      <4> QED
          BY <2>3, <3>2, <4>3 DEF Followed, TimeIsThere, TimeIsOfDb, Target
    <3>3. CASE geo.at # "open" /\ ~(geo.at = "idle" /\ geo.db # None)
        BY <2>3, <3>3 DEF Followed
    <3> QED
        BY <3>1, <3>2, <3>3
  <2>6. Looked'
    <3>1. CASE ~geo'.undisturbed
        BY <3>1 DEF Looked
    <3>2. CASE geo'.undisturbed
      <4>1. geo.undisturbed /\ disk' = disk
          BY <2>3, <3>2
      <4>2. Present' = Present /\ First' = First /\ Target(First)' = Target(First)
          BY <4>1 DEF Present, First, Target
      <4> QED
          BY <2>3, <4>1, <4>2 DEF GeoInv, Looked
    <3> QED
        BY <3>1, <3>2
  <2> QED
      BY <2>4, <2>5, <2>6 DEF GeoInv
<1> QED
    BY <1>3, <1>4, <1>5

(* The inductive step.                                                     *)
LEMMA GeoNextInv ==
  ASSUME IInv, IInv', Gap, GeoInv, [GeoNext]_geoVars
  PROVE  Gap' /\ GeoInv'
<1>1. [Next]_vars
    BY DEF GeoNext, geoVars, vars, allVars, Look, Open, OpenFails, Looking, Elsewhere, StagingNext,
           Next, Find, Accept, Discard, Link, Refuse, Starting
<1>2. Gap'
    BY <1>1, GapStep
<1>3. CASE UNCHANGED geoVars
  <2>1. geo' = geo /\ disk' = disk
      BY <1>3 DEF geoVars
  <2>2. Present' = Present /\ First' = First /\ Target(First)' = Target(First)
      BY <2>1 DEF Present, First, Target
  <2>3. geo' \in Geo /\ Followed'
      BY <2>1 DEF GeoInv, Followed, TimeIsThere, TimeIsOfDb, Target
  <2>4. Looked'
      BY <2>1, <2>2 DEF GeoInv, Looked
  <2> QED
      BY <1>2, <2>3, <2>4 DEF GeoInv
<1> QED
    BY <1>2, <1>3, LookKeeps, OpenKeeps, UnopenedIsFine, ElsewhereKeeps DEF GeoNext, OpenFails, Looking

(* Every reachable state satisfies Gap and GeoInv: the file whose time the *)
(* controller remembers is followed wherever updates and users move it.    *)
THEOREM GeoInvariant == GeoSpec => [](IInv /\ Gap /\ GeoInv)
<1>1. GeoInit => Gap /\ GeoInv
  <2> SUFFICES ASSUME GeoInit PROVE Gap /\ GeoInv
      OBVIOUS
  <2>1. Gap
      BY DEF GeoInit, StagingInit, Init, Idle, Gap
  <2>2. Unopened \in Geo
      BY PlacesAssumption DEF Unopened, Geo, Places
  <2>3. geo \in Geo /\ ~geo.undisturbed /\ geo.db = None /\ geo.at # "open"
    <3>1. CASE geo = Unopened
        BY <2>2, <3>1 DEF Unopened
    <3>2. CASE geo = [Unopened EXCEPT !.at = "off"]
        BY <2>2, <3>2 DEF Unopened, Geo
    <3> QED
        BY <3>1, <3>2 DEF GeoInit
  <2>4. Followed
      BY <2>3 DEF Followed
  <2>5. Looked
      BY <2>3 DEF Looked
  <2> QED
      BY <2>1, <2>3, <2>4, <2>5 DEF GeoInv
<1>2. GeoSpec => []IInv
    BY LooksOnlyRead, StartsOnlyRead, InvariantHolds
<1> QED
    BY <1>1, <1>2, GeoNextInv, PTL DEF GeoSpec

(* After a look that nothing disturbed, the answers come from the file     *)
(* that a search finds (openStagedDatabase).                               *)
THEOREM LooksAreRight == GeoSpec => []LooksFindTheFile
<1>1. GeoInv => LooksFindTheFile
    BY DEF GeoInv, Looked, LooksFindTheFile
<1> QED
    BY <1>1, GeoInvariant, PTL
=============================================================================
