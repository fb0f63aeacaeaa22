------------------------------ MODULE Profiles -------------------------------
(***************************************************************************)
(* A profile (a config.yaml, perhaps refreshed from a subscription URL)    *)
(* that several instances share: the Store methods that edit it or an      *)
(* instance, the handlers around them, and the starts and reloads that     *)
(* turn it into the configuration of a process.                            *)
(* (internal/app/store.go, profile_handler.go, subscription_handler.go,    *)
(* instance_handler.go, and the part of manager.go that reads the Store.)  *)
(*                                                                         *)
(* Store.mu protects the records but not the file: an edit writes the file *)
(* first, then its records, then instances.json, and puts the file back    *)
(* when the last of these fails; a start or a reload reads the records     *)
(* under Store.mu and the file without it.  What tells a user that a       *)
(* process runs on an old configuration is a comparison of two stamps, the *)
(* instance's ConfigUpdatedAt and the process's `started'.                 *)
(*                                                                         *)
(* Only edits give stamps whose order matters, so the clock is the number  *)
(* of stamps they took; a reader's stamp is the clock as it is.            *)
(***************************************************************************)
EXTENDS Naturals

CONSTANTS
  Instances,  \* the instances that use the profile
  Active,     \* bound: those among them that are started and reloaded
  Writers,    \* slots for requests and scheduler runs that edit
  Contents,   \* what a config.yaml may say
  URLs,       \* subscription URLs
  Settings,   \* mode, chain, override and so on of an instance, as one value
  MaxClock,   \* bound: stamps that edits may take
  None,       \* "": no URL, nothing to write
  Keep        \* a field the request does not give

Stamps == 0..MaxClock

(* The configuration of a process, and the stamp processState.started.     *)
(* `peeked' is history: its text was read while an edit that changes it    *)
(* could still be undone ("open"), and was ("undone").                     *)
Peeks == {"no", "open", "undone"}

Processes == [started : Stamps, setting : Settings, text : Contents, peeked : Peeks]

ASSUME ActiveAssumption == Active \subseteq Instances
ASSUME ClockAssumption == MaxClock \in Nat
ASSUME AbsentAssumption ==
  /\ None \notin Contents \cup URLs \cup Writers \cup Instances \cup Processes
  /\ Keep \notin Settings \cup URLs \cup {None}

VARIABLES
  clock,
  mutex,       \* the writer that holds Store.mu, or None
  file,        \* config.yaml, and (history) the URL it was fetched from
  url,         \* profile.SubscriptionURL
  setting,     \* the settings in each instance's record
  updatedAt,   \* ConfigUpdatedAt of each instance
  refreshing,  \* subscriptionRunning: is a refresh under way?
  job,         \* what each writer is doing
  reader,      \* the start or reload that holds each instance's lifecycle mutex
  process      \* what each instance's process runs, or None

vars == <<clock, mutex, file, url, setting, updatedAt, refreshing, job, reader, process>>

records == <<url, setting, updatedAt>>

Files == [text : Contents, from : URLs \cup {None}]

(* The state a reader of the Store sees, which is also what an edit saves  *)
(* to be able to undo itself.                                              *)
Snapshot == [file |-> file, url |-> url, setting |-> setting, updatedAt |-> updatedAt]

Snapshots == [file : Files, url : URLs \cup {None},
              setting : [Instances -> Settings], updatedAt : [Instances -> Stamps]]

(* A writer's locals.  `text' is what it is to write, fetched `from' a URL *)
(* or given by the client; `url' and `setting' (of `target') are the other *)
(* fields of its request.                                                  *)
Idle == [at |-> "idle", method |-> "none", text |-> None, from |-> None, url |-> Keep,
         target |-> None, setting |-> Keep, before |-> None]

Jobs == [at : {"idle", "fetch", "lock", "write", "commit", "save"},
         method : {"none", "patch", "replace", "apply", "update"},
         text : Contents \cup {None}, from : URLs \cup {None},
         url : URLs \cup {None, Keep},
         target : Instances \cup {None}, setting : Settings \cup {Keep},
         before : Snapshots \cup {None}]

(* What a start or reload has read so far.                                 *)
NoReader == [at |-> "idle", kind |-> "none", stamp |-> 0, setting |-> Keep,
             text |-> None, peeked |-> "no"]

Readers == [at : {"idle", "stamped", "read", "loaded", "pushed"},
            kind : {"none", "start", "reload"}, stamp : Stamps,
            setting : Settings \cup {Keep}, text : Contents \cup {None}, peeked : Peeks]

Init ==
  /\ clock = 0
  /\ mutex = None
  /\ url \in URLs \cup {None}
  /\ file \in [text : Contents, from : {url}]
  /\ setting \in [Instances -> Settings]
  /\ updatedAt = [i \in Instances |-> 0]
  /\ refreshing = FALSE
  /\ job = [w \in Writers |-> Idle]
  /\ reader = [i \in Instances |-> NoReader]
  /\ process = [i \in Instances |-> None]

-----------------------------------------------------------------------------
(* Requests.  A handler reads the profile, decides which Store method to   *)
(* call, and calls it later; a fetch of up to 25 seconds may lie between.  *)

Unlocked == mutex = None

Accept(w, request) ==
  /\ job[w].at = "idle" /\ Unlocked
  /\ job' = [job EXCEPT ![w] = request]
  /\ UNCHANGED <<clock, mutex, file, records, reader, process>>

(* PUT /api/profiles/{id} whose URL is absent, empty or the present one.   *)
(* A config is refused for a profile that has a URL; a request that gives  *)
(* both a config and a first URL is a Replace and its config is ignored.   *)
Patch(w) ==
  \E text \in Contents \cup {None}, u \in {url, None, Keep} :
    /\ text # None => url = None
    /\ Accept(w, [Idle EXCEPT !.at = "lock", !.method = "patch", !.text = text, !.url = u])
    /\ UNCHANGED refreshing

(* PUT /api/profiles/{id} with another URL.                                *)
Replace(w) ==
  \E u \in URLs \ {url} :
    /\ Accept(w, [Idle EXCEPT !.at = "fetch", !.method = "replace", !.from = u])
    /\ UNCHANGED refreshing

(* POST /api/profiles/{id}/refresh, or the scheduler.                      *)
Refresh(w) ==
  /\ url # None /\ ~refreshing
  /\ refreshing' = TRUE
  /\ Accept(w, [Idle EXCEPT !.at = "fetch", !.method = "apply", !.from = url])

(* PUT /api/instances/{id} with a config for its profile, or fields of its *)
(* own, or both.                                                           *)
Update(w) ==
  \E i \in Instances, text \in Contents \cup {None}, s \in Settings \cup {Keep} :
    /\ text # None => url = None
    /\ Accept(w, [Idle EXCEPT !.at = "lock", !.method = "update", !.text = text,
                              !.target = i, !.setting = s])
    /\ UNCHANGED refreshing

(* The request of w is over, and with it its refresh.                      *)
Finish(w) ==
  /\ job' = [job EXCEPT ![w] = Idle]
  /\ refreshing' = (refreshing /\ job[w].method # "apply")

Fetch(w) ==
  /\ job[w].at = "fetch"
  /\ \E text \in Contents :
       job' = [job EXCEPT ![w].at = "lock", ![w].text = text]
  /\ UNCHANGED <<clock, mutex, file, records, refreshing, reader, process>>

(* The fetch fails; a refresh records the error (SetProfileUpdateError).   *)
FetchFails(w) ==
  /\ job[w].at = "fetch"
  /\ job[w].method = "apply" => Unlocked
  /\ Finish(w)
  /\ UNCHANGED <<clock, mutex, file, records, reader, process>>

-----------------------------------------------------------------------------
(* Edits, under Store.mu.                                                  *)

(* Mutant: only checks that the profile still has a URL, as                *)
(* ApplySubscriptionFetch does.                                            *)
OutdatedUnlessSubscribed(w) == job[w].method = "apply" /\ url = None

(* ApplySubscriptionFetchForURL refuses content of a URL the profile no    *)
(* longer has.                                                             *)
Outdated(w) == job[w].method = "apply" /\ url # job[w].from

Refuse(w) ==
  /\ job[w].at = "lock" /\ Unlocked
  /\ Outdated(w)
  /\ Finish(w)
  /\ UNCHANGED <<clock, mutex, file, records, reader, process>>

Lock(w) ==
  /\ job[w].at = "lock" /\ Unlocked
  /\ ~Outdated(w)
  /\ clock < MaxClock
  /\ mutex' = w
  /\ job' = [job EXCEPT ![w].at = IF job[w].text = None THEN "commit" ELSE "write",
                        ![w].before = Snapshot]
  /\ UNCHANGED <<clock, file, records, refreshing, reader, process>>

Write(w) ==
  /\ job[w].at = "write"
  /\ file' = [text |-> job[w].text, from |-> job[w].from]
  /\ job' = [job EXCEPT ![w].at = "commit"]
  /\ UNCHANGED <<clock, mutex, records, refreshing, reader, process>>

WriteFails(w) ==
  /\ job[w].at = "write"
  /\ mutex' = None
  /\ Finish(w)
  /\ UNCHANGED <<clock, file, records, reader, process>>

(* Mutant: takes the URL of a request that gives none.                     *)
NextURLAlways(w) == IF job[w].method = "replace" THEN job[w].from ELSE job[w].url

(* The URL the profile has after the edit of w.                            *)
NextURL(w) ==
  IF job[w].method = "replace" THEN job[w].from
  ELSE IF job[w].url = Keep THEN url ELSE job[w].url

Changes(w, i) ==
  \/ file.text # job[w].before.file.text
  \/ i = job[w].target /\ job[w].setting \notin {Keep, setting[i]}

(* The records change in memory, and the instances are stamped whose       *)
(* configuration the edit changes.                                         *)
Commit(w) ==
  /\ job[w].at = "commit"
  /\ clock' = clock + 1
  /\ url' = NextURL(w)
  /\ updatedAt' = [i \in Instances |-> IF Changes(w, i) THEN clock + 1 ELSE updatedAt[i]]
  /\ setting' = IF job[w].setting = Keep THEN setting
                ELSE [setting EXCEPT ![job[w].target] = job[w].setting]
  /\ job' = [job EXCEPT ![w].at = "save"]
  /\ UNCHANGED <<mutex, file, refreshing, reader, process>>

(* History: the edit under way is now known to stand or to be undone.      *)
Decided(peeked, outcome) == IF peeked = "open" THEN outcome ELSE peeked

Decide(outcome) ==
  /\ reader' = [i \in Instances |->
                 [reader[i] EXCEPT !.peeked = Decided(reader[i].peeked, outcome)]]
  /\ process' = [i \in Instances |->
                  IF process[i] = None THEN None
                  ELSE [process[i] EXCEPT !.peeked = Decided(process[i].peeked, outcome)]]

(* saveLocked writes instances.json.                                       *)
Save(w) ==
  /\ job[w].at = "save"
  /\ mutex' = None
  /\ Finish(w)
  /\ Decide("no")
  /\ UNCHANGED <<clock, file, records>>

(* Mutant: undoes the request's own instance only.                         *)
SaveFailsOwn(w) ==
  /\ job[w].at = "save"
  /\ file' = job[w].before.file
  /\ url' = job[w].before.url
  /\ setting' = job[w].before.setting
  /\ updatedAt' = [i \in Instances |-> IF job[w].target \in {None, i}
                                        THEN job[w].before.updatedAt[i] ELSE updatedAt[i]]
  /\ mutex' = None
  /\ Finish(w)
  /\ Decide("undone")
  /\ UNCHANGED clock

(* It fails: the records are restored from the snapshot, and the file from *)
(* the text read before it was written.                                    *)
SaveFails(w) ==
  /\ job[w].at = "save"
  /\ file' = job[w].before.file
  /\ url' = job[w].before.url
  /\ setting' = job[w].before.setting
  /\ updatedAt' = job[w].before.updatedAt
  /\ mutex' = None
  /\ Finish(w)
  /\ Decide("undone")
  /\ UNCHANGED clock

-----------------------------------------------------------------------------
(* Starts and reloads.  Both hold the instance's lifecycle mutex, stamp    *)
(* first, read the records, read the file, and then launch or tell the     *)
(* process.                                                                *)

Proceed(i, next) ==
  /\ reader' = [reader EXCEPT ![i] = next]
  /\ UNCHANGED <<clock, mutex, file, records, refreshing, job>>

Stamp(i, kind) ==
  /\ reader[i].at = "idle"
  /\ (process[i] = None) <=> (kind = "start")
  /\ Proceed(i, [NoReader EXCEPT !.at = "stamped", !.kind = kind, !.stamp = clock])
  /\ UNCHANGED process

ReadRecords(i) ==
  /\ reader[i].at = "stamped" /\ Unlocked
  /\ Proceed(i, [reader[i] EXCEPT !.at = "read", !.setting = setting[i]])
  /\ UNCHANGED process

(* writeRuntimeConfig reads the file whoever holds Store.mu.               *)
Unsettled == ~Unlocked /\ file.text # job[mutex].before.file.text

ReadFile(i) ==
  /\ reader[i].at = "read"
  /\ Proceed(i, [reader[i] EXCEPT !.at = "loaded", !.text = file.text,
                                  !.peeked = IF Unsettled THEN "open" ELSE "no"])
  /\ UNCHANGED process

Running(r, started) ==
  [started |-> started, setting |-> r.setting, text |-> r.text, peeked |-> r.peeked]

(* Mutant: stamps when the process exists.                                 *)
PublishNow(i) ==
  /\ reader[i].at = "loaded" /\ reader[i].kind = "start"
  /\ process' = [process EXCEPT ![i] = Running(reader[i], clock)]
  /\ Proceed(i, NoReader)

(* cmd.Start, and procs[id] = ps with the stamp taken first.               *)
Publish(i) ==
  /\ reader[i].at = "loaded" /\ reader[i].kind = "start"
  /\ process' = [process EXCEPT ![i] = Running(reader[i], reader[i].stamp)]
  /\ Proceed(i, NoReader)

(* The process takes the new configuration; its answer may yet be lost.    *)
Push(i) ==
  /\ reader[i].at = "loaded" /\ reader[i].kind = "reload"
  /\ process[i] # None
  /\ process' = [process EXCEPT ![i] = Running(reader[i], process[i].started)]
  /\ Proceed(i, [reader[i] EXCEPT !.at = "pushed"])

MarkReloaded(i) ==
  /\ reader[i].at = "pushed"
  /\ process[i] # None
  /\ process' = [process EXCEPT ![i].started =
                   IF @ < reader[i].stamp THEN reader[i].stamp ELSE @]
  /\ Proceed(i, NoReader)

(* Anything that makes a start or reload return an error.                  *)
Abandon(i) ==
  /\ reader[i].at # "idle"
  /\ Proceed(i, NoReader)
  /\ UNCHANGED process

(* The process ends, stopped or not.                                       *)
Exit(i) ==
  /\ process[i] # None
  /\ process' = [process EXCEPT ![i] = None]
  /\ UNCHANGED <<clock, mutex, file, records, refreshing, job, reader>>

-----------------------------------------------------------------------------
Edit(w) ==
  \/ Patch(w) \/ Replace(w) \/ Refresh(w) \/ Update(w)
  \/ Fetch(w) \/ FetchFails(w)
  \/ Refuse(w) \/ Lock(w) \/ Write(w) \/ WriteFails(w)
  \/ Commit(w) \/ Save(w) \/ SaveFails(w)

Run(i) ==
  \/ Stamp(i, "start") \/ Stamp(i, "reload")
  \/ ReadRecords(i) \/ ReadFile(i)
  \/ Publish(i) \/ Push(i) \/ MarkReloaded(i)
  \/ Abandon(i) \/ Exit(i)

Next ==
  \/ \E w \in Writers : Edit(w)
  \/ \E i \in Active : Run(i)

Spec == Init /\ [][Next]_vars

-----------------------------------------------------------------------------
(* Properties.                                                             *)

(* Types.                                                                  *)
TypeOK ==
  /\ clock \in Stamps
  /\ mutex \in Writers \cup {None}
  /\ file \in Files
  /\ url \in URLs \cup {None}
  /\ setting \in [Instances -> Settings]
  /\ updatedAt \in [Instances -> Stamps]
  /\ refreshing \in BOOLEAN
  /\ job \in [Writers -> Jobs]
  /\ reader \in [Instances -> Readers]
  /\ process \in [Instances -> Processes \cup {None}]

(* What the Store shows to those who take its mutex.                       *)
Visible == IF Unlocked THEN Snapshot ELSE job[mutex].before

(* An edit, its file, its records and its stamps included, happens at once *)
(* or not at all, and stamps exactly the instances it changes.             *)
Promise == INSTANCE AtomicEdits
             WITH text <- Visible.file.text, url <- Visible.url,
                  setting <- Visible.setting, updatedAt <- Visible.updatedAt
EditsAreAtomic == Promise!Spec

(* decorateStatus: the view of i says that a restart is pending.           *)
PendingRestart(i) == process[i].started < Visible.updatedAt[i]

(* A process whose configuration is not the stored one is shown to wait    *)
(* for a restart, whatever edits landed between the stamp, the two reads   *)
(* and the launch or reload; unless it read the text of an edit under way, *)
(* and for good if that edit then failed.                                  *)
DriftIsShown ==
  \A i \in Instances : process[i] # None =>
    \/ PendingRestart(i)
    \/ /\ process[i].setting = Visible.setting[i]
       /\ process[i].text = Visible.file.text \/ process[i].peeked # "no"

(* A subscription profile holds what was fetched from its own URL.         *)
ContentFollowsURL == Visible.url # None => Visible.file.from = Visible.url

(* Neither a refresh, however late its answer, nor a change of the URL     *)
(* leaves a profile with a URL and the content of another.                 *)
FetchesKeepContentAndURL ==
  [][ContentFollowsURL /\ ~ContentFollowsURL'
       => \E w \in Writers : job[w].at = "save" /\ job[w].method \in {"patch", "update"}]_vars
=============================================================================
