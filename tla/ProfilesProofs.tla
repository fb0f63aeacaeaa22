---------------------------- MODULE ProfilesProofs ---------------------------
(***************************************************************************)
(* Proofs about Profiles, for any instances, writers, contents, URLs and   *)
(* settings.                                                               *)
(***************************************************************************)
EXTENDS Profiles, TLAPS

-----------------------------------------------------------------------------
(* What a writer's locals hold at each of its steps.                       *)
Fetching(j) == j.method \in {"replace", "apply"}

JobOK(w) ==
  /\ job[w] \in Jobs
  /\ (mutex = w) <=> job[w].at \in {"write", "commit", "save"}
  /\ mutex = w => job[w].before \in Snapshots
  /\ job[w].at \in {"write", "commit"} => clock < MaxClock
  /\ job[w].setting # Keep => job[w].target \in Instances
  /\ Fetching(job[w]) => /\ job[w].from \in URLs
                         /\ job[w].url = Keep
                         /\ job[w].setting = Keep
                         /\ job[w].at # "fetch" => job[w].text \in Contents
  /\ job[w].at = "fetch" => Fetching(job[w])
  /\ job[w].at = "write" => job[w].text \in Contents
  /\ job[w].at = "idle" => ~Fetching(job[w])
  /\ job[w].method = "none" => job[w].at = "idle"

(* What a reader has read at each of its steps.                            *)
ReaderOK(i) ==
  /\ reader[i] \in Readers
  /\ reader[i].at \in {"read", "loaded", "pushed"} => reader[i].setting \in Settings
  /\ reader[i].at \in {"loaded", "pushed"} => reader[i].text \in Contents

(* The types, with what the locals hold.                                   *)
TypeInv ==
  /\ clock \in Stamps
  /\ mutex \in Writers \cup {None}
  /\ file \in Files
  /\ url \in URLs \cup {None}
  /\ setting \in [Instances -> Settings]
  /\ updatedAt \in [Instances -> Stamps]
  /\ refreshing \in BOOLEAN
  /\ job \in [Writers -> Jobs]
  /\ \A w \in Writers : JobOK(w)
  /\ reader \in [Instances -> Readers]
  /\ \A i \in Instances : ReaderOK(i)
  /\ process \in [Instances -> Processes \cup {None}]

(* The sets of values that do not depend on the state.                     *)
USE DEF Stamps, Jobs, Readers, Processes, Peeks

(* The initial states are type-correct.                                    *)
LEMMA InitTypes == Init => TypeInv
<1> SUFFICES ASSUME Init PROVE TypeInv
  OBVIOUS
<1>1. Idle \in Jobs /\ Idle.setting = Keep /\ Idle.at = "idle" /\ ~Fetching(Idle)
  BY DEF Idle, Fetching
<1>2. NoReader \in Readers /\ NoReader.at = "idle"
  BY ClockAssumption DEF NoReader
<1>3. \A w \in Writers : JobOK(w)
  BY <1>1, AbsentAssumption DEF Init, JobOK
<1>4. \A i \in Instances : ReaderOK(i)
  BY <1>2 DEF Init, ReaderOK
<1> QED
  <2>1. setting \in [Instances -> Settings] /\ refreshing \in BOOLEAN
    BY DEF Init
  <2>2. clock \in Stamps /\ mutex \in Writers \cup {None} /\ url \in URLs \cup {None}
    BY ClockAssumption DEF Init
  <2>3. file \in Files /\ updatedAt \in [Instances -> Stamps]
    BY ClockAssumption DEF Init, Files
  <2>4. job \in [Writers -> Jobs] /\ reader \in [Instances -> Readers]
    BY <1>1, <1>2 DEF Init
  <2>5. process \in [Instances -> Processes \cup {None}]
    BY DEF Init
  <2> QED
    BY <1>3, <1>4, <2>1, <2>2, <2>3, <2>4, <2>5 DEF TypeInv

(* A request is taken on with the locals its first step needs.             *)
LEMMA AcceptTypes ==
  ASSUME TypeInv, NEW w \in Writers, NEW request \in Jobs, Accept(w, request),
         refreshing' \in BOOLEAN,
         request.at \in {"fetch", "lock"}, request.method # "none",
         request.setting # Keep => request.target \in Instances,
         Fetching(request) => /\ request.from \in URLs
                              /\ request.url = Keep
                              /\ request.setting = Keep
                              /\ request.at = "fetch",
         request.at = "fetch" => Fetching(request)
  PROVE  TypeInv'
  BY AbsentAssumption DEF Accept, TypeInv, JobOK, ReaderOK, Fetching, records

(* The requests that edits start with are type-correct.                    *)
LEMMA RequestTypes ==
  ASSUME TypeInv, NEW w \in Writers,
         Patch(w) \/ Replace(w) \/ Refresh(w) \/ Update(w)
  PROVE  TypeInv'
<1>1. CASE Patch(w)
  BY <1>1, AcceptTypes, AbsentAssumption DEF Patch, TypeInv, Idle, Fetching
<1>2. CASE Replace(w)
  BY <1>2, AcceptTypes, AbsentAssumption DEF Replace, TypeInv, Idle, Fetching
<1>3. CASE Refresh(w)
  BY <1>3, AcceptTypes, AbsentAssumption DEF Refresh, TypeInv, Idle, Fetching
<1>4. CASE Update(w)
  BY <1>4, AcceptTypes, AbsentAssumption DEF Update, TypeInv, Idle, Fetching
<1> QED
  BY <1>1, <1>2, <1>3, <1>4

(* The locals of w change; those of other writers stay good if the mutex   *)
(* is neither taken from them nor given to them.                           *)
LEMMA OthersKept ==
  ASSUME TypeInv, NEW w \in Writers, NEW v \in Writers \ {w},
         job'[v] = job[v],
         \/ mutex' = mutex
         \/ mutex' = w /\ mutex = None
         \/ mutex' = None /\ mutex = w,
         clock' = clock \/ mutex = w
  PROVE  JobOK(v)'
  BY AbsentAssumption DEF TypeInv, JobOK, Fetching

(* A request that is over leaves its slot idle and the others as they are. *)
LEMMA FinishTypes ==
  ASSUME TypeInv, NEW w \in Writers, Finish(w), mutex' \in {mutex, None},
         mutex' = IF mutex = w THEN None ELSE mutex, clock' = clock
  PROVE  /\ job' \in [Writers -> Jobs]
         /\ \A v \in Writers : JobOK(v)'
         /\ refreshing' \in BOOLEAN
  BY OthersKept, AbsentAssumption DEF Finish, TypeInv, JobOK, Idle, Fetching

(* The history fields of readers and processes change in type-correct ways.*)
LEMMA DecideTypes ==
  ASSUME TypeInv, NEW outcome \in Peeks, Decide(outcome)
  PROVE  /\ reader' \in [Instances -> Readers]
         /\ \A i \in Instances : ReaderOK(i)'
         /\ process' \in [Instances -> Processes \cup {None}]
<1>1. \A i \in Instances : /\ reader'[i].at = reader[i].at
                             /\ reader'[i].setting = reader[i].setting
                             /\ reader'[i].text = reader[i].text
  BY DEF Decide, TypeInv
<1>2. reader' \in [Instances -> Readers]
  <2>1. ASSUME NEW r \in Readers
        PROVE  [r EXCEPT !.peeked = Decided(r.peeked, outcome)] \in Readers
    BY DEF Decided
  <2> QED
    BY <2>1 DEF Decide, TypeInv
<1>3. \A i \in Instances : ReaderOK(i)'
  BY <1>1, <1>2 DEF TypeInv, ReaderOK
<1>4. process' \in [Instances -> Processes \cup {None}]
  <2>1. ASSUME NEW p \in Processes
        PROVE  [p EXCEPT !.peeked = Decided(p.peeked, outcome)] \in Processes
    BY DEF Decided
  <2> QED
    BY <2>1 DEF Decide, TypeInv
<1> QED
  BY <1>2, <1>3, <1>4

(* Every step of an edit is type-correct.                                  *)
LEMMA EditTypes ==
  ASSUME TypeInv, NEW w \in Writers, Edit(w)
  PROVE  TypeInv'
<1> USE DEF records
<1>1. CASE Patch(w) \/ Replace(w) \/ Refresh(w) \/ Update(w)
  BY <1>1, RequestTypes
<1>2. CASE Fetch(w)
  <2>1. PICK text \in Contents : job' = [job EXCEPT ![w].at = "lock", ![w].text = text]
    BY <1>2 DEF Fetch
  <2>2. ASSUME NEW j \in Jobs
        PROVE  [j EXCEPT !.at = "lock", !.text = text] \in Jobs
    OBVIOUS
  <2>3. /\ job' \in [Writers -> Jobs]
        /\ job'[w] = [job[w] EXCEPT !.at = "lock", !.text = text]
        /\ \A v \in Writers \ {w} : job'[v] = job[v]
    <3> HIDE DEF Jobs
    <3>1. job[w] \in Jobs /\ job \in [Writers -> Jobs]
      BY DEF TypeInv
    <3>2. job' = [job EXCEPT ![w] = [job[w] EXCEPT !.at = "lock", !.text = text]]
      BY <2>1
    <3> QED
      BY <2>2, <3>1, <3>2
  <2>4. JobOK(w)'
    BY <1>2, <2>3 DEF Fetch, TypeInv, JobOK, Fetching
  <2>5. \A v \in Writers : JobOK(v)'
    BY <1>2, <2>3, <2>4, OthersKept DEF Fetch
  <2> QED
    BY <1>2, <2>3, <2>5 DEF Fetch, TypeInv, ReaderOK
<1>3. CASE FetchFails(w)
  BY <1>3, FinishTypes DEF FetchFails, TypeInv, JobOK, ReaderOK
<1>4. CASE Refuse(w)
  BY <1>4, FinishTypes DEF Refuse, TypeInv, JobOK, ReaderOK
<1>5. CASE Lock(w)
  <2>1. Snapshot \in Snapshots
    BY DEF Snapshot, Snapshots, TypeInv
  <2>2. /\ job' \in [Writers -> Jobs]
        /\ job'[w] = [job[w] EXCEPT !.at = IF job[w].text = None THEN "commit" ELSE "write",
                                    !.before = Snapshot]
        /\ \A v \in Writers \ {w} : job'[v] = job[v]
    <3> DEFINE next == [job[w] EXCEPT !.at = IF job[w].text = None THEN "commit" ELSE "write",
                                    !.before = Snapshot]
    <3>1. next \in Jobs
      <4>1. ASSUME NEW j \in Jobs, NEW at \in {"write", "commit"}, NEW b \in Snapshots
            PROVE  [j EXCEPT !.at = at, !.before = b] \in Jobs
        OBVIOUS
      <4> HIDE DEF Jobs
      <4> QED
        BY <2>1, <4>1 DEF TypeInv
    <3>2. job' = [job EXCEPT ![w] = next]
      BY <1>5 DEF Lock
    <3> HIDE DEF next
    <3>3. /\ job' \in [Writers -> Jobs]
          /\ job'[w] = next
          /\ \A v \in Writers \ {w} : job'[v] = job[v]
      BY <3>1, <3>2 DEF TypeInv
    <3> QED
      BY <3>3 DEF next
  <2>3. JobOK(w)'
    BY <1>5, <2>1, <2>2 DEF Lock, TypeInv, JobOK, Fetching
  <2>4. \A v \in Writers : JobOK(v)'
    BY <1>5, <2>2, <2>3, OthersKept DEF Lock, Unlocked
  <2> QED
    BY <1>5, <2>2, <2>4 DEF Lock, TypeInv, ReaderOK
<1>6. CASE Write(w)
  <2>1. file' \in Files
    BY <1>6 DEF Write, TypeInv, JobOK, Files
  <2>2. /\ job' \in [Writers -> Jobs]
        /\ job'[w] = [job[w] EXCEPT !.at = "commit"]
        /\ \A v \in Writers \ {w} : job'[v] = job[v]
    <3> DEFINE next == [job[w] EXCEPT !.at = "commit"]
    <3>1. next \in Jobs
      BY DEF TypeInv
    <3>2. job' = [job EXCEPT ![w] = next]
      BY <1>6 DEF Write
    <3> HIDE DEF next
    <3>3. /\ job' \in [Writers -> Jobs]
          /\ job'[w] = next
          /\ \A v \in Writers \ {w} : job'[v] = job[v]
      BY <3>1, <3>2 DEF TypeInv
    <3> QED
      BY <3>3 DEF next
  <2>3. JobOK(w)'
    BY <1>6, <2>2 DEF Write, TypeInv, JobOK, Fetching
  <2>4. \A v \in Writers : JobOK(v)'
    BY <1>6, <2>2, <2>3, OthersKept DEF Write
  <2> QED
    BY <1>6, <2>1, <2>2, <2>4 DEF Write, TypeInv, ReaderOK
<1>7. CASE WriteFails(w)
  BY <1>7, FinishTypes DEF WriteFails, TypeInv, JobOK, ReaderOK
<1>8. CASE Commit(w)
  <2>1. clock' \in Stamps /\ updatedAt' \in [Instances -> Stamps]
    BY <1>8, ClockAssumption DEF Commit, TypeInv, JobOK
  <2>2. url' \in URLs \cup {None}
    BY <1>8 DEF Commit, NextURL, TypeInv, JobOK, Fetching
  <2>3. setting' \in [Instances -> Settings]
    BY <1>8 DEF Commit, TypeInv, JobOK
  <2>4. /\ job' \in [Writers -> Jobs]
        /\ job'[w] = [job[w] EXCEPT !.at = "save"]
        /\ \A v \in Writers \ {w} : job'[v] = job[v]
    <3> DEFINE next == [job[w] EXCEPT !.at = "save"]
    <3>1. next \in Jobs
      BY DEF TypeInv
    <3>2. job' = [job EXCEPT ![w] = next]
      BY <1>8 DEF Commit
    <3> HIDE DEF next
    <3>3. /\ job' \in [Writers -> Jobs]
          /\ job'[w] = next
          /\ \A v \in Writers \ {w} : job'[v] = job[v]
      BY <3>1, <3>2 DEF TypeInv
    <3> QED
      BY <3>3 DEF next
  <2>5. mutex = w
    BY <1>8 DEF Commit, TypeInv, JobOK
  <2>6. JobOK(w)'
    BY <1>8, <2>4, <2>5 DEF Commit, TypeInv, JobOK, Fetching
  <2>7. \A v \in Writers : JobOK(v)'
    BY <1>8, <2>4, <2>5, <2>6, OthersKept DEF Commit
  <2> QED
    BY <1>8, <2>1, <2>2, <2>3, <2>4, <2>7 DEF Commit, TypeInv, ReaderOK
<1>9. CASE Save(w)
  BY <1>9, FinishTypes, DecideTypes DEF Save, TypeInv, JobOK
<1>10. CASE SaveFails(w)
  BY <1>10, FinishTypes, DecideTypes DEF SaveFails, TypeInv, JobOK, Snapshots
<1> QED
  BY <1>1, <1>2, <1>3, <1>4, <1>5, <1>6, <1>7, <1>8, <1>9, <1>10 DEF Edit

(* Every step of a start, a reload or a process is type-correct.           *)
LEMMA RunTypes ==
  ASSUME TypeInv, NEW i \in Instances, Run(i)
  PROVE  TypeInv'
<1> USE DEF records
<1>1. ASSUME NEW r \in Readers, Proceed(i, r),
             r.at \in {"read", "loaded", "pushed"} => r.setting \in Settings,
             r.at \in {"loaded", "pushed"} => r.text \in Contents,
             process' \in [Instances -> Processes \cup {None}]
      PROVE  TypeInv'
  BY <1>1 DEF Proceed, TypeInv, JobOK, ReaderOK
<1>2. NoReader \in Readers /\ NoReader.at = "idle"
  BY ClockAssumption DEF NoReader
<1>3. ASSUME NEW kind \in {"start", "reload"}, Stamp(i, kind)
      PROVE  TypeInv'
  BY <1>1, <1>3 DEF Stamp, NoReader, TypeInv
<1>4. CASE ReadRecords(i)
  <2>1. ASSUME NEW r \in Readers, NEW s \in Settings
        PROVE  [r EXCEPT !.at = "read", !.setting = s] \in Readers
    OBVIOUS
  <2>2. reader[i] \in Readers /\ setting[i] \in Settings
    BY DEF TypeInv
  <2>3. [reader[i] EXCEPT !.at = "read", !.setting = setting[i]] \in Readers
    <3> HIDE DEF Readers
    <3> QED
      BY <2>1, <2>2
  <2>4. process' \in [Instances -> Processes \cup {None}]
    BY <1>4 DEF ReadRecords, TypeInv
  <2>5. Proceed(i, [reader[i] EXCEPT !.at = "read", !.setting = setting[i]])
    BY <1>4 DEF ReadRecords
  <2> QED
    BY <1>1, <2>2, <2>3, <2>4, <2>5
<1>5. CASE ReadFile(i)
  BY <1>1, <1>5 DEF ReadFile, TypeInv, ReaderOK, Files
<1>6. CASE Publish(i)
  BY <1>1, <1>2, <1>6 DEF Publish, Running, TypeInv, ReaderOK
<1>7. CASE Push(i)
  BY <1>1, <1>7 DEF Push, Running, TypeInv, ReaderOK
<1>8. CASE MarkReloaded(i)
  BY <1>1, <1>2, <1>8 DEF MarkReloaded, TypeInv
<1>9. CASE Abandon(i)
  BY <1>1, <1>2, <1>9 DEF Abandon, TypeInv
<1>10. CASE Exit(i)
  BY <1>10 DEF Exit, TypeInv, JobOK, ReaderOK
<1> QED
  BY <1>3, <1>4, <1>5, <1>6, <1>7, <1>8, <1>9, <1>10 DEF Run

(* TypeInv is inductive.                                                   *)
LEMMA NextTypes == TypeInv /\ [Next]_vars => TypeInv'
<1>1. ASSUME TypeInv, UNCHANGED vars
      PROVE  TypeInv'
  BY <1>1 DEF vars, records, TypeInv, JobOK, ReaderOK
<1> QED
  BY <1>1, EditTypes, RunTypes, ActiveAssumption DEF Next

-----------------------------------------------------------------------------
(* What an edit under way has done, and what it can still undo.            *)
Written(w) ==
  IF job[w].text = None THEN job[w].before.file
  ELSE [text |-> job[w].text, from |-> job[w].from]

(* The snapshot of w is the Store without what w has done: at each step w  *)
(* has changed exactly what it is known to have changed.                   *)
Undoable(w) ==
  LET before == job[w].before IN
  /\ job[w].at = "write" => Snapshot = before
  /\ job[w].at = "commit" => /\ url = before.url
                             /\ setting = before.setting
                             /\ updatedAt = before.updatedAt
  /\ job[w].at \in {"commit", "save"} => file = Written(w)
  /\ job[w].at = "save" =>
       /\ job[w].method = "replace" => url = job[w].from
       /\ job[w].method = "apply" => url = before.url
       /\ \A i \in Instances :
            /\ before.updatedAt[i] < clock
            /\ updatedAt[i] = IF \/ file.text # before.file.text
                                 \/ setting[i] # before.setting[i]
                              THEN clock ELSE before.updatedAt[i]
  /\ job[w].method = "apply" => before.url = job[w].from

(* No instance has a stamp to come, and who holds Store.mu can undo.       *)
EditInv ==
  /\ \A i \in Instances : updatedAt[i] <= clock
  /\ \A w \in Writers : mutex = w => Undoable(w)

(* What an edit can undo depends on the Store and on its own locals only.  *)
LEMMA UndoableKept ==
  ASSUME NEW w \in Writers, Undoable(w), job'[w] = job[w],
         UNCHANGED <<clock, file, url, setting, updatedAt>>
  PROVE  Undoable(w)'
  BY DEF Undoable, Written, Snapshot

(* At first no edit is under way and no stamp was taken.                   *)
LEMMA InitEdits == Init => EditInv
  BY AbsentAssumption DEF Init, EditInv

(* EditInv holds of the Store again when the mutex is free.                *)
LEMMA UnlockedEdits ==
  ASSUME mutex' = None, \A i \in Instances : updatedAt'[i] <= clock'
  PROVE  EditInv'
  BY AbsentAssumption DEF EditInv

(* Every step of an edit keeps what the edit under way can undo.           *)
LEMMA EditEdits ==
  ASSUME TypeInv, EditInv, NEW w \in Writers, Edit(w)
  PROVE  EditInv'
<1> USE DEF records
<1>1. CASE Patch(w) \/ Replace(w) \/ Refresh(w) \/ Update(w)
  BY <1>1, UnlockedEdits DEF Patch, Replace, Refresh, Update, Accept, Unlocked, EditInv
<1>2. CASE Fetch(w) \/ FetchFails(w) \/ Refuse(w)
  <2>1. mutex # w
    BY <1>2 DEF Fetch, FetchFails, Refuse, TypeInv, JobOK
  <2>2. UNCHANGED <<clock, mutex, file, url, setting, updatedAt>>
    BY <1>2 DEF Fetch, FetchFails, Refuse
  <2>3. \A v \in Writers \ {w} : job'[v] = job[v]
    BY <1>2 DEF Fetch, FetchFails, Refuse, Finish, TypeInv
  <2> QED
    BY <2>1, <2>2, <2>3, UndoableKept DEF EditInv
<1>3. CASE Lock(w)
  <2>1. /\ job'[w].at \in {"write", "commit"}
        /\ job'[w].at = "commit" => job'[w].text = None
        /\ job'[w].before = Snapshot
        /\ job'[w].method = "apply" => job'[w].from = url
    BY <1>3 DEF Lock, Outdated, TypeInv
  <2>2. Undoable(w)'
    BY <1>3, <2>1 DEF Lock, Undoable, Written, Snapshot
  <2> QED
    BY <1>3, <2>2 DEF Lock, EditInv
<1>4. CASE Write(w)
  <2>1. /\ mutex = w
        /\ job[w].text # None
    BY <1>4, AbsentAssumption DEF Write, TypeInv, JobOK
  <2>2. job'[w] = [job[w] EXCEPT !.at = "commit"]
    BY <1>4 DEF Write, TypeInv
  <2>3. Undoable(w)'
    BY <1>4, <2>1, <2>2 DEF Write, EditInv, Undoable, Written, Snapshot, TypeInv
  <2> QED
    BY <1>4, <2>1, <2>3 DEF Write, EditInv
<1>5. CASE WriteFails(w)
  BY <1>5, UnlockedEdits DEF WriteFails, EditInv
<1>6. CASE Commit(w)
  <2>1. mutex = w
    BY <1>6 DEF Commit, TypeInv, JobOK
  <2>2. job'[w] = [job[w] EXCEPT !.at = "save"]
    BY <1>6 DEF Commit, TypeInv
  <2>3. \A i \in Instances : updatedAt'[i] <= clock' /\ updatedAt[i] < clock'
    BY <1>6 DEF Commit, TypeInv, EditInv
  <2>4. \A i \in Instances : Changes(w, i) <=> \/ file.text # job[w].before.file.text
                                               \/ setting'[i] # setting[i]
    BY <1>6, <2>1 DEF Commit, Changes, TypeInv, JobOK
  <2>5. Undoable(w)'
    BY <1>6, <2>1, <2>2, <2>3, <2>4
    DEF Commit, NextURL, EditInv, Undoable, Written, TypeInv, JobOK, Fetching
  <2> QED
    BY <1>6, <2>1, <2>3, <2>5 DEF Commit, EditInv
<1>7. CASE Save(w)
  BY <1>7, UnlockedEdits DEF Save, EditInv
<1>8. CASE SaveFails(w)
  <2>1. Undoable(w) /\ job[w].before \in Snapshots
    BY <1>8 DEF SaveFails, TypeInv, JobOK, EditInv
  <2>2. \A i \in Instances : updatedAt'[i] <= clock'
    BY <1>8, <2>1 DEF SaveFails, Undoable, Snapshots, TypeInv
  <2> QED
    BY <1>8, <2>2, UnlockedEdits DEF SaveFails
<1> QED
  BY <1>1, <1>2, <1>3, <1>4, <1>5, <1>6, <1>7, <1>8 DEF Edit

(* Starts and reloads change nothing that edits read.                      *)
LEMMA RunLeavesStore ==
  ASSUME NEW i \in Instances, Run(i)
  PROVE  UNCHANGED <<clock, mutex, file, url, setting, updatedAt, refreshing, job>>
  BY DEF Run, Stamp, ReadRecords, ReadFile, Publish, Push, MarkReloaded, Abandon, Exit,
         Proceed, records

(* EditInv is inductive, given the types.                                  *)
LEMMA NextEdits == TypeInv /\ EditInv /\ [Next]_vars => EditInv'
<1>1. ASSUME EditInv, UNCHANGED <<clock, mutex, file, url, setting, updatedAt, job>>
      PROVE  EditInv'
  BY <1>1, UndoableKept DEF EditInv
<1>2. UNCHANGED vars => UNCHANGED <<clock, mutex, file, url, setting, updatedAt, job>>
  BY DEF vars, records
<1> QED
  BY <1>1, <1>2, EditEdits, RunLeavesStore, ActiveAssumption DEF Next

-----------------------------------------------------------------------------
(* Who holds the mutex sees a change; everybody else sees the Store change *)
(* in Save only.                                                           *)
LEMMA VisibleKept ==
  ASSUME TypeInv, EditInv, NEW w \in Writers, Edit(w), ~Save(w) \/ SaveFails(w)
  PROVE  Visible' = Visible
<1> USE DEF records
<1>1. ASSUME mutex = None, mutex' = None, UNCHANGED <<file, url, setting, updatedAt>>
      PROVE  Visible' = Visible
  BY <1>1 DEF Visible, Unlocked, Snapshot
<1>2. ASSUME mutex # None, mutex' = mutex, job'[mutex].before = job[mutex].before
      PROVE  Visible' = Visible
  BY <1>2 DEF Visible, Unlocked
<1>3. CASE Patch(w) \/ Replace(w) \/ Refresh(w) \/ Update(w)
  BY <1>1, <1>3 DEF Patch, Replace, Refresh, Update, Accept, Unlocked
<1>4. CASE Fetch(w) \/ FetchFails(w) \/ Refuse(w)
  <2>1. mutex # w
    BY <1>4 DEF Fetch, FetchFails, Refuse, TypeInv, JobOK
  <2>2. mutex \in Writers => job'[mutex] = job[mutex]
    BY <1>4, <2>1 DEF Fetch, FetchFails, Refuse, Finish, TypeInv
  <2> QED
    BY <1>1, <1>2, <1>4, <2>2 DEF Fetch, FetchFails, Refuse, TypeInv
<1>5. CASE Lock(w)
  <2>1. job'[w].before = Snapshot /\ mutex = None /\ mutex' = w /\ w # None
    BY <1>5, AbsentAssumption DEF Lock, Unlocked, TypeInv
  <2> QED
    BY <2>1 DEF Visible, Unlocked
<1>6. CASE Write(w) \/ Commit(w)
  <2>1. mutex = w /\ w # None
    BY <1>6, AbsentAssumption DEF Write, Commit, TypeInv, JobOK
  <2> QED
    BY <1>2, <1>6, <2>1 DEF Write, Commit, TypeInv
<1>7. CASE WriteFails(w)
  <2>1. mutex = w /\ w # None /\ mutex' = None /\ Snapshot = job[w].before
    BY <1>7, AbsentAssumption DEF WriteFails, TypeInv, JobOK, EditInv, Undoable
  <2>2. Snapshot' = Snapshot
    BY <1>7 DEF WriteFails, Snapshot
  <2> QED
    BY <2>1, <2>2 DEF Visible, Unlocked
<1>8. CASE SaveFails(w)
  <2>1. mutex = w /\ w # None /\ mutex' = None /\ job[w].before \in Snapshots
    BY <1>8, AbsentAssumption DEF SaveFails, TypeInv, JobOK
  <2>2. Snapshot' = job[w].before
    BY <1>8, <2>1 DEF SaveFails, Snapshot, Snapshots
  <2> QED
    BY <2>1, <2>2 DEF Visible, Unlocked
<1>9. CASE Save(w) /\ SaveFails(w)
  BY <1>8, <1>9
<1> QED
  BY <1>3, <1>4, <1>5, <1>6, <1>7, <1>8, <1>9 DEF Edit

(* The one step in which the visible Store changes.                        *)
LEMMA VisibleSaved ==
  ASSUME TypeInv, NEW w \in Writers, Save(w)
  PROVE  /\ mutex = w /\ w # None /\ mutex' = None
         /\ Visible = job[w].before
         /\ Visible' = Snapshot
<1>1. mutex = w /\ w # None /\ mutex' = None
  BY AbsentAssumption DEF Save, TypeInv, JobOK
<1>2. Snapshot' = Snapshot
  BY DEF Save, Snapshot, records
<1> QED
  BY <1>1, <1>2 DEF Visible, Unlocked

(* No start, reload or process changes the visible Store.                  *)
LEMMA VisibleRun ==
  ASSUME NEW i \in Instances, Run(i)
  PROVE  Visible' = Visible
  BY RunLeavesStore DEF Visible, Unlocked, Snapshot

(* Neither does a stuttering step.                                         *)
LEMMA VisibleIdle == UNCHANGED vars => Visible' = Visible
  BY DEF vars, records, Visible, Unlocked, Snapshot

(* Every step of Profiles changes the visible Store as an atomic edit may, *)
(* or not at all.                                                          *)
LEMMA StepIsEdit ==
  ASSUME TypeInv, EditInv, [Next]_vars
  PROVE  [Promise!Edit]_<<Visible.file.text, Visible.url, Visible.setting, Visible.updatedAt>>
<1>1. ASSUME NEW w \in Writers, Save(w)
      PROVE  Promise!Edit
  <2>1. Visible = job[w].before /\ Visible' = Snapshot /\ mutex = w
    BY <1>1, VisibleSaved
  <2>2. Undoable(w) /\ job[w].at = "save"
    BY <1>1, <2>1 DEF EditInv, Save
  <2> QED
    BY <2>1, <2>2 DEF Undoable, Snapshot, Promise!Edit, Promise!Affected, Promise!Later
<1>2. ASSUME Visible' = Visible
      PROVE  UNCHANGED <<Visible.file.text, Visible.url, Visible.setting, Visible.updatedAt>>
  BY <1>2
<1> QED
  BY <1>1, <1>2, VisibleKept, VisibleRun, VisibleIdle, ActiveAssumption DEF Next

(* A fetched content comes with its URL.                                   *)
LEMMA StepKeepsContentAndURL ==
  ASSUME TypeInv, EditInv, [Next]_vars, ContentFollowsURL, ~ContentFollowsURL'
  PROVE  \E w \in Writers : job[w].at = "save" /\ job[w].method \in {"patch", "update"}
<1>1. PICK w \in Writers : Save(w)
  BY VisibleKept, VisibleRun, VisibleIdle, ActiveAssumption DEF Next, ContentFollowsURL
<1>2. /\ Visible = job[w].before /\ Visible' = Snapshot /\ mutex = w
      /\ Undoable(w) /\ job[w].at = "save"
  BY <1>1, VisibleSaved DEF EditInv, Save
<1>3. Fetching(job[w]) => url = job[w].from /\ file.from = job[w].from
  BY <1>2, AbsentAssumption DEF Undoable, Written, Fetching, TypeInv, JobOK
<1>4. ~Fetching(job[w])
  BY <1>2, <1>3 DEF ContentFollowsURL, Snapshot
<1>5. job[w].method # "none"
  BY <1>2 DEF TypeInv, JobOK
<1> QED
  BY <1>2, <1>4, <1>5 DEF Fetching, TypeInv

-----------------------------------------------------------------------------
(* A setting or a text read by the instance i since `stamp' is the visible *)
(* one, or an edit has stamped i later.                                    *)
SettingSeen(i, r, stamp) ==
  r.setting = Visible.setting[i] \/ stamp < Visible.updatedAt[i]

TextSeen(i, r, stamp) ==
  /\ r.peeked = "no" => r.text = Visible.file.text \/ stamp < Visible.updatedAt[i]
  /\ r.peeked = "open" => /\ mutex # None
                          /\ job[mutex].at \in {"commit", "save"}
                          /\ r.text = file.text

(* An edit is in memory and not yet in instances.json: its stamp is taken, *)
(* and later than all that readers had.                                    *)
Saving == mutex # None /\ job[mutex].at = "save"

(* What a start or reload has read is what is stored, or it is announced.  *)
ReaderSeen(i) ==
  /\ reader[i].at # "idle" => reader[i].stamp <= clock
  /\ reader[i].at \in {"read", "loaded", "pushed"} =>
       /\ SettingSeen(i, reader[i], reader[i].stamp)
       /\ Saving => reader[i].stamp < clock
  /\ reader[i].at \in {"loaded", "pushed"} => TextSeen(i, reader[i], reader[i].stamp)

(* So is what a process runs.                                              *)
ProcessSeen(i) ==
  process[i] # None =>
    /\ process[i].started <= clock
    /\ Saving => process[i].started < clock
    /\ SettingSeen(i, process[i], process[i].started)
    /\ TextSeen(i, process[i], process[i].started)

(* A reload is older than nothing its process has taken, and has given it  *)
(* what it read.                                                           *)
ReloadSeen(i) ==
  process[i] # None =>
    /\ reader[i].at # "idle" /\ reader[i].kind = "reload" =>
         process[i].started <= reader[i].stamp
    /\ reader[i].at = "pushed" =>
         /\ reader[i].kind = "reload"
         /\ process[i].setting = reader[i].setting
         /\ process[i].text = reader[i].text
         /\ process[i].peeked = reader[i].peeked

(* All of it, for every instance.                                          *)
SeenInv == \A i \in Instances : ReaderSeen(i) /\ ProcessSeen(i) /\ ReloadSeen(i)

(* At first nothing has been read and no process exists.                   *)
LEMMA InitSeen == Init => SeenInv
<1> SUFFICES ASSUME Init, NEW i \in Instances
             PROVE  ReaderSeen(i) /\ ProcessSeen(i) /\ ReloadSeen(i)
  BY DEF SeenInv
<1>1. reader[i].at = "idle" /\ process[i] = None
  BY DEF Init, NoReader
<1> QED
  BY <1>1 DEF ReaderSeen, ProcessSeen, ReloadSeen

(* No text that may be undone has been read while none can be.             *)
LEMMA SeenKept ==
  ASSUME SeenInv, Visible' = Visible, clock' = clock, UNCHANGED <<reader, process>>,
         Saving' => Saving,
         \/ mutex' = mutex /\ file' = file /\ (mutex # None => job'[mutex] = job[mutex])
         \/ mutex = None
         \/ job[mutex].at = "write"
  PROVE  SeenInv'
  BY DEF SeenInv, ReaderSeen, ProcessSeen, ReloadSeen, SettingSeen, TextSeen

(* What readers and processes have seen stays announced through edits.     *)
LEMMA EditSeen ==
  ASSUME TypeInv, EditInv, SeenInv, NEW w \in Writers, Edit(w)
  PROVE  SeenInv'
<1> USE DEF records
<1>1. CASE Patch(w) \/ Replace(w) \/ Refresh(w) \/ Update(w)
  <2>1. mutex = None /\ mutex' = None /\ UNCHANGED <<clock, reader, process>> /\ ~Save(w)
    BY <1>1 DEF Patch, Replace, Refresh, Update, Accept, Unlocked, Save
  <2> QED
    BY <2>1, VisibleKept, SeenKept DEF Saving
<1>2. CASE Fetch(w) \/ FetchFails(w) \/ Refuse(w)
  <2>1. mutex # w /\ ~Save(w)
    BY <1>2 DEF Fetch, FetchFails, Refuse, TypeInv, JobOK, Save
  <2>2. mutex # None => job'[mutex] = job[mutex]
    BY <1>2, <2>1 DEF Fetch, FetchFails, Refuse, Finish, TypeInv
  <2>3. UNCHANGED <<clock, mutex, file, reader, process>>
    BY <1>2 DEF Fetch, FetchFails, Refuse
  <2> QED
    BY <2>1, <2>2, <2>3, VisibleKept, SeenKept DEF Saving
<1>3. CASE Lock(w)
  <2>1. ~Saving' /\ mutex = None /\ ~Save(w) /\ UNCHANGED <<clock, reader, process>>
    BY <1>3 DEF Lock, Unlocked, Saving, Save, TypeInv
  <2> QED
    BY <2>1, VisibleKept, SeenKept
<1>4. CASE Write(w) \/ WriteFails(w)
  <2>1. mutex = w /\ job[mutex].at = "write" /\ ~Save(w)
    BY <1>4 DEF Write, WriteFails, TypeInv, JobOK, Save
  <2>2. ~Saving' /\ UNCHANGED <<clock, reader, process>>
    BY <1>4, <2>1 DEF Write, WriteFails, Saving, TypeInv
  <2> QED
    BY <2>1, <2>2, VisibleKept, SeenKept
<1>5. CASE Commit(w)
  <2>1. mutex = w /\ mutex' = w /\ job'[w].at = "save" /\ ~Save(w)
    BY <1>5 DEF Commit, TypeInv, JobOK, Save
  <2>2. clock' = clock + 1 /\ UNCHANGED <<file, reader, process>>
    BY <1>5 DEF Commit
  <2>3. \A i \in Instances : process[i] # None => process[i].started \in Stamps
    BY DEF TypeInv
  <2>4. \A i \in Instances : reader[i].stamp \in Stamps
    BY DEF TypeInv
  <2>5. Visible' = Visible
    BY <1>5, <2>1, VisibleKept
  <2>6. \A i \in Instances : ReaderSeen(i)'
    BY <2>1, <2>2, <2>4, <2>5 DEF SeenInv, ReaderSeen, SettingSeen, TextSeen, TypeInv
  <2>7. \A i \in Instances : ProcessSeen(i)'
    BY <2>1, <2>2, <2>3, <2>5 DEF SeenInv, ProcessSeen, SettingSeen, TextSeen, TypeInv
  <2>8. \A i \in Instances : ReloadSeen(i)'
    BY <2>2 DEF SeenInv, ReloadSeen
  <2> QED
    BY <2>6, <2>7, <2>8 DEF SeenInv
<1>6. CASE Save(w)
  <2>1. /\ Visible = job[w].before /\ Visible' = Snapshot
        /\ mutex = w /\ w # None /\ mutex' = None
    BY <1>6, VisibleSaved
  <2>2. /\ Saving /\ ~Saving'
        /\ clock' = clock /\ clock \in Nat
        /\ job[w].before \in Snapshots
    BY <1>6, <2>1 DEF Save, Saving, TypeInv, JobOK
  <2>3. \A i \in Instances : /\ Visible.updatedAt[i] \in Nat
                             /\ Visible'.updatedAt[i] = updatedAt[i]
                             /\ Visible'.updatedAt[i] \in Nat
                             /\ Visible'.setting[i] = setting[i]
                             /\ Visible'.file.text = file.text
    BY <2>1, <2>2 DEF Snapshot, Snapshots, TypeInv
  <2>4. \A i \in Instances :
          /\ Visible'.setting[i] # Visible.setting[i] => Visible'.updatedAt[i] = clock
          /\ Visible'.file.text # Visible.file.text => Visible'.updatedAt[i] = clock
          /\ Visible.updatedAt[i] <= Visible'.updatedAt[i]
    BY <1>6, <2>1, <2>2, <2>3 DEF Save, EditInv, Undoable
  <2>5. ASSUME NEW i \in Instances
        PROVE  ReaderSeen(i)' /\ ProcessSeen(i)' /\ ReloadSeen(i)'
    <3>1. ReaderSeen(i) /\ ProcessSeen(i) /\ ReloadSeen(i)
      BY DEF SeenInv
    <3>2. /\ reader[i] \in Readers
          /\ process[i] # None => process[i] \in Processes
      BY DEF TypeInv
    <3>3. /\ reader'[i].at = reader[i].at
          /\ reader'[i].kind = reader[i].kind
          /\ reader'[i].stamp = reader[i].stamp
          /\ reader'[i].setting = reader[i].setting
          /\ reader'[i].text = reader[i].text
          /\ reader'[i].peeked = Decided(reader[i].peeked, "no")
      BY <1>6, <3>2 DEF Save, Decide
    <3>4. process[i] = None => process'[i] = None
      BY <1>6 DEF Save, Decide
    <3>5. process[i] # None =>
            /\ process'[i].started = process[i].started
            /\ process'[i].setting = process[i].setting
            /\ process'[i].text = process[i].text
            /\ process'[i].peeked = Decided(process[i].peeked, "no")
      BY <1>6, <3>2 DEF Save, Decide
    <3>6. ReaderSeen(i)'
      <4>1. reader[i].stamp \in Nat
        BY <3>2
      <4>2. reader[i].at \in {"read", "loaded", "pushed"}
              => SettingSeen(i, reader[i], reader[i].stamp)'
        BY <2>2, <2>3, <2>4, <3>1, <3>3, <4>1 DEF ReaderSeen, SettingSeen
      <4>3. reader[i].at \in {"loaded", "pushed"} => TextSeen(i, reader[i], reader[i].stamp)'
        BY <2>1, <2>2, <2>3, <2>4, <3>1, <3>2, <3>3, <4>1 DEF ReaderSeen, TextSeen, Decided
      <4> QED
        BY <2>2, <3>1, <3>3, <4>2, <4>3 DEF ReaderSeen
    <3>7. ProcessSeen(i)'
      <4>1. process[i] # None => process[i].started \in Nat
        BY <3>2
      <4>2. process[i] # None => SettingSeen(i, process[i], process[i].started)'
        BY <2>2, <2>3, <2>4, <3>1, <3>5, <4>1 DEF ProcessSeen, SettingSeen
      <4>3. process[i] # None => TextSeen(i, process[i], process[i].started)'
        BY <2>1, <2>2, <2>3, <2>4, <3>1, <3>2, <3>5, <4>1 DEF ProcessSeen, TextSeen, Decided
      <4> QED
        BY <2>2, <3>1, <3>4, <3>5, <4>2, <4>3 DEF ProcessSeen
    <3>8. ReloadSeen(i)'
      BY <3>1, <3>2, <3>3, <3>4, <3>5 DEF ReloadSeen, Decided
    <3> QED
      BY <3>6, <3>7, <3>8
  <2> QED
    BY <2>5 DEF SeenInv
<1>7. CASE SaveFails(w)
  <2>1. /\ Visible' = Visible /\ ~Saving' /\ clock' = clock
    BY <1>7, VisibleKept DEF SaveFails, Saving
  <2>2. ASSUME NEW i \in Instances
        PROVE  ReaderSeen(i)' /\ ProcessSeen(i)' /\ ReloadSeen(i)'
    <3>1. ReaderSeen(i) /\ ProcessSeen(i) /\ ReloadSeen(i)
      BY DEF SeenInv
    <3>2. /\ reader[i] \in Readers
          /\ process[i] # None => process[i] \in Processes
      BY DEF TypeInv
    <3>3. /\ reader'[i].at = reader[i].at
          /\ reader'[i].kind = reader[i].kind
          /\ reader'[i].stamp = reader[i].stamp
          /\ reader'[i].setting = reader[i].setting
          /\ reader'[i].text = reader[i].text
          /\ reader'[i].peeked = Decided(reader[i].peeked, "undone")
      BY <1>7, <3>2 DEF SaveFails, Decide
    <3>4. process[i] = None => process'[i] = None
      BY <1>7 DEF SaveFails, Decide
    <3>5. process[i] # None =>
            /\ process'[i].started = process[i].started
            /\ process'[i].setting = process[i].setting
            /\ process'[i].text = process[i].text
            /\ process'[i].peeked = Decided(process[i].peeked, "undone")
      BY <1>7, <3>2 DEF SaveFails, Decide
    <3>6. ReaderSeen(i)'
      BY <2>1, <3>1, <3>2, <3>3 DEF ReaderSeen, SettingSeen, TextSeen, Decided
    <3>7. ProcessSeen(i)'
      BY <2>1, <3>1, <3>2, <3>4, <3>5 DEF ProcessSeen, SettingSeen, TextSeen, Decided
    <3>8. ReloadSeen(i)'
      BY <3>1, <3>2, <3>3, <3>4, <3>5 DEF ReloadSeen, Decided
    <3> QED
      BY <3>6, <3>7, <3>8
  <2> QED
    BY <2>2 DEF SeenInv
<1> QED
  BY <1>1, <1>2, <1>3, <1>4, <1>5, <1>6, <1>7 DEF Edit

(* What other instances have read is as good as it was.                    *)
LEMMA OthersSeen ==
  ASSUME SeenInv, NEW i \in Instances, NEW k \in Instances \ {i},
         UNCHANGED <<clock, mutex, file, url, setting, updatedAt, job>>,
         reader'[k] = reader[k], process'[k] = process[k]
  PROVE  ReaderSeen(k)' /\ ProcessSeen(k)' /\ ReloadSeen(k)'
BY DEF SeenInv, ReaderSeen, ProcessSeen, ReloadSeen, SettingSeen, TextSeen, Saving,
       Visible, Unlocked, Snapshot

(* A start or reload is right about the Store when it reads, and later.    *)
LEMMA RunSeen ==
  ASSUME TypeInv, EditInv, SeenInv, NEW i \in Instances, Run(i)
  PROVE  SeenInv'
<1>1. UNCHANGED <<clock, mutex, file, url, setting, updatedAt, refreshing, job>>
  BY RunLeavesStore
<1>2. Visible' = Visible
  BY VisibleRun
<1>3. \A k \in Instances \ {i} : reader'[k] = reader[k] /\ process'[k] = process[k]
  BY DEF Run, Stamp, ReadRecords, ReadFile, Publish, Push, MarkReloaded, Abandon, Exit,
         Proceed, TypeInv
<1>4. SUFFICES ReaderSeen(i)' /\ ProcessSeen(i)' /\ ReloadSeen(i)'
  BY <1>1, <1>3, <1>4, OthersSeen DEF SeenInv
<1>5. ReaderSeen(i) /\ ProcessSeen(i) /\ ReloadSeen(i)
  BY DEF SeenInv
<1>6. /\ reader[i] \in Readers
      /\ process[i] # None => process[i] \in Processes
      /\ clock \in Nat
  BY DEF TypeInv
<1> DEFINE same == process'[i] = process[i]
<1>7. ASSUME reader'[i].at = "idle"
      PROVE  ReaderSeen(i)' /\ (same => ProcessSeen(i)' /\ ReloadSeen(i)')
  BY <1>1, <1>2, <1>5, <1>7
  DEF ReaderSeen, ProcessSeen, ReloadSeen, SettingSeen, TextSeen, Saving
<1>8. ASSUME NEW kind \in {"start", "reload"}, Stamp(i, kind)
      PROVE  ReaderSeen(i)' /\ ProcessSeen(i)' /\ ReloadSeen(i)'
  <2>1. /\ reader'[i].at = "stamped" /\ reader'[i].stamp = clock
        /\ process' = process
    BY <1>8 DEF Stamp, Proceed, NoReader, TypeInv
  <2> QED
    BY <1>1, <1>2, <1>5, <1>6, <2>1
    DEF ReaderSeen, ProcessSeen, ReloadSeen, SettingSeen, TextSeen, Saving
<1>9. CASE ReadRecords(i)
  <2>1. /\ reader'[i].at = "read"
        /\ reader'[i].kind = reader[i].kind /\ reader'[i].stamp = reader[i].stamp
        /\ reader'[i].setting = setting[i]
        /\ process' = process /\ reader[i].at = "stamped"
        /\ mutex = None
    BY <1>9 DEF ReadRecords, Proceed, Unlocked, TypeInv
  <2>2. Visible.setting[i] = setting[i] /\ ~Saving'
    BY <1>1, <2>1 DEF Visible, Unlocked, Snapshot, Saving
  <2>3. ReaderSeen(i)'
    BY <1>1, <1>2, <1>5, <2>1, <2>2 DEF ReaderSeen, SettingSeen
  <2> QED
    BY <1>1, <1>2, <1>5, <2>1, <2>3
    DEF ProcessSeen, ReloadSeen, SettingSeen, TextSeen, Saving
<1>10. CASE ReadFile(i)
  <2>1. /\ reader'[i].at = "loaded"
        /\ reader'[i].kind = reader[i].kind /\ reader'[i].stamp = reader[i].stamp
        /\ reader'[i].setting = reader[i].setting
        /\ reader'[i].text = file.text
        /\ reader'[i].peeked = IF Unsettled THEN "open" ELSE "no"
        /\ process' = process /\ reader[i].at = "read"
    BY <1>10 DEF ReadFile, Proceed, TypeInv
  <2>2. Unsettled => mutex # None /\ job[mutex].at \in {"commit", "save"}
    BY DEF Unsettled, Unlocked, TypeInv, EditInv, Undoable, Snapshot, JobOK
  <2>3. ~Unsettled => file.text = Visible.file.text
    BY DEF Unsettled, Visible, Snapshot, Unlocked
  <2>4. TextSeen(i, reader[i], reader[i].stamp)'
    BY <1>1, <1>2, <2>1, <2>2, <2>3 DEF TextSeen
  <2>5. ReaderSeen(i)'
    BY <1>1, <1>2, <1>5, <2>1, <2>4 DEF ReaderSeen, SettingSeen, Saving
  <2> QED
    BY <1>1, <1>2, <1>5, <2>1, <2>5
    DEF ProcessSeen, ReloadSeen, SettingSeen, TextSeen, Saving
<1>11. CASE Publish(i)
  <2>1. /\ reader[i].at = "loaded" /\ reader'[i].at = "idle"
        /\ process'[i] = Running(reader[i], reader[i].stamp)
    BY <1>11 DEF Publish, Proceed, NoReader, TypeInv
  <2>2. ProcessSeen(i)'
    BY <1>1, <1>2, <1>5, <2>1
    DEF Running, ReaderSeen, ProcessSeen, SettingSeen, TextSeen, Saving
  <2> QED
    BY <1>7, <2>1, <2>2 DEF ReloadSeen
<1>12. CASE Push(i)
  <2>1. /\ reader[i].at = "loaded" /\ reader[i].kind = "reload" /\ process[i] # None
        /\ reader'[i] = [reader[i] EXCEPT !.at = "pushed"]
        /\ process'[i] = Running(reader[i], process[i].started)
    BY <1>12 DEF Push, Proceed, TypeInv
  <2>2. process[i].started <= reader[i].stamp
    BY <1>5, <2>1 DEF ReloadSeen
  <2>3. ReaderSeen(i)'
    BY <1>1, <1>2, <1>5, <1>6, <2>1 DEF ReaderSeen, SettingSeen, TextSeen, Saving
  <2>4. ProcessSeen(i)'
    <3>1. Visible.updatedAt[i] \in Nat /\ process[i].started \in Nat /\ reader[i].stamp \in Nat
      BY <1>6, <2>1 DEF Visible, Snapshot, Snapshots, TypeInv, JobOK, Unlocked
    <3> QED
      BY <1>1, <1>2, <1>5, <2>1, <2>2, <3>1
      DEF Running, ReaderSeen, ProcessSeen, SettingSeen, TextSeen, Saving
  <2>5. ReloadSeen(i)'
    BY <1>6, <2>1, <2>2 DEF ReloadSeen, Running
  <2> QED
    BY <2>3, <2>4, <2>5
<1>13. CASE MarkReloaded(i)
  <2>1. /\ reader[i].at = "pushed" /\ reader'[i].at = "idle" /\ process[i] # None
        /\ process'[i] = [process[i] EXCEPT !.started = IF @ < reader[i].stamp
                                                        THEN reader[i].stamp ELSE @]
    BY <1>13 DEF MarkReloaded, Proceed, NoReader, TypeInv
  <2>2. ProcessSeen(i)'
    BY <1>1, <1>2, <1>5, <1>6, <2>1
    DEF ReaderSeen, ProcessSeen, ReloadSeen, SettingSeen, TextSeen, Saving
  <2> QED
    BY <1>7, <2>1, <2>2 DEF ReloadSeen
<1>14. CASE Abandon(i)
  BY <1>7, <1>14 DEF Abandon, Proceed, NoReader, TypeInv
<1>15. CASE Exit(i)
  <2>1. process'[i] = None /\ reader' = reader
    BY <1>15 DEF Exit, TypeInv
  <2> QED
    BY <1>1, <1>2, <1>5, <2>1
    DEF ReaderSeen, ProcessSeen, ReloadSeen, SettingSeen, TextSeen, Saving
<1> QED
  BY <1>8, <1>9, <1>10, <1>11, <1>12, <1>13, <1>14, <1>15 DEF Run

-----------------------------------------------------------------------------
(* The inductive invariant.                                                *)
IInv == TypeInv /\ EditInv /\ SeenInv

(* IInv is inductive.                                                      *)
LEMMA NextInv == IInv /\ [Next]_vars => IInv'
<1>1. ASSUME SeenInv, UNCHANGED vars
      PROVE  SeenInv'
  BY <1>1 DEF vars, records, SeenInv, ReaderSeen, ProcessSeen, ReloadSeen, SettingSeen,
              TextSeen, Saving, Visible, Unlocked, Snapshot
<1>2. ASSUME IInv, Next
      PROVE  SeenInv'
  BY <1>2, EditSeen, RunSeen, ActiveAssumption DEF IInv, Next
<1> QED
  BY <1>1, <1>2, NextTypes, NextEdits DEF IInv

(* The inductive invariant holds.                                          *)
THEOREM InvariantHolds == Spec => []IInv
<1>1. Init => IInv
  BY InitTypes, InitEdits, InitSeen DEF IInv
<1> QED
  BY <1>1, NextInv, PTL DEF Spec

(* Every state of Profiles is type-correct.                                *)
THEOREM TypeCorrect == Spec => []TypeOK
<1>1. IInv => TypeOK
  BY DEF IInv, TypeInv, TypeOK
<1> QED
  BY <1>1, InvariantHolds, PTL

(* A process that does not run the stored configuration is always shown as *)
(* waiting for a restart, unless it read an edit that could still fail.    *)
THEOREM DriftShown == Spec => []DriftIsShown
<1>1. IInv => DriftIsShown
  BY DEF IInv, SeenInv, ProcessSeen, SettingSeen, TextSeen, DriftIsShown, PendingRestart
<1> QED
  BY <1>1, InvariantHolds, PTL

(* Neither a late refresh nor a change of the URL separates a profile's    *)
(* content from its URL.                                                   *)
THEOREM FetchesStayTogether == Spec => FetchesKeepContentAndURL
<1>1. IInv /\ [Next]_vars
        => [ContentFollowsURL /\ ~ContentFollowsURL'
              => \E w \in Writers : job[w].at = "save"
                                    /\ job[w].method \in {"patch", "update"}]_vars
  BY StepKeepsContentAndURL DEF IInv
<1> QED
  BY <1>1, InvariantHolds, PTL DEF Spec, FetchesKeepContentAndURL

(* Profiles implements AtomicEdits: every edit, with its file, its records *)
(* and its stamps, happens at once or not at all.                          *)
THEOREM Atomic == Spec => EditsAreAtomic
<1>1. Init => Promise!Init
  BY DEF Init, Promise!Init, Visible, Unlocked, Snapshot
<1>2. IInv /\ [Next]_vars
        => [Promise!Edit]_<<Visible.file.text, Visible.url, Visible.setting, Visible.updatedAt>>
  BY StepIsEdit DEF IInv
<1> QED
  BY <1>1, <1>2, InvariantHolds, PTL DEF Spec, EditsAreAtomic, Promise!Spec
=============================================================================
