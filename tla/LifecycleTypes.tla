--------------------------- MODULE LifecycleTypes ---------------------------
(*****************************************************************************)
(* Types of Lifecycle.  Beside the type of every variable, a step relies on  *)
(* the locals of its goroutine: an attempt has a port, a Stop that waits     *)
(* has a process.  Each step is shown to keep this by what all steps have    *)
(* in common (Moves): it changes one goroutine, which goes on with the work  *)
(* of its last step.                                                         *)
(*****************************************************************************)
EXTENDS Lifecycle, TLAPS

USE DEF At, Goto, Finish, Fail, Threads

(* The steps only a backoff goroutine takes, those that work with a        *)
(* reserved port, and those that work with a captured process.             *)
WatchdogOnly == {"sleeping", "eligible", "rearm", "relaunched", "healthy"}
HasPort == {"start_register"} \cup Attempting
HasProc == {"start_publish", "stop_wait", "stop_killed", "healthy"}

(* A goroutine t may be at step s with locals r.                             *)
Fits(t, s, r) ==
  /\ s \in Steps /\ r \in LocalRecord
  /\ s # "idle" => r.id \in Ids
  /\ s \in HasPort => r.reserved \in Ports
  /\ s \in HasProc => r.ps \in Procs
  /\ t \in Backoffs => s \in {"idle"} \cup PreRegister \cup Attempting \cup WatchdogOnly
  /\ t \in Requests => s \notin WatchdogOnly

(* A process in use belongs to an instance and has a port.                 *)
ProcessOf(p) == proc[p].st # "free" => proc[p].id \in Ids /\ proc[p].port \in Ports

(* TypeOK, and what a step needs of its goroutine's locals.                *)
TypeInv == /\ TypeOK
           /\ \A t \in Threads : Fits(t, pc[t], g[t])
           /\ \A p \in Procs : ProcessOf(p)

(* A step of goroutine t leaves the others where they are, and what they    *)
(* work on with them.                                                       *)
Frame(t) == \A u \in Threads \ {t} :
  /\ pc'[u] = pc[u]
  /\ g'[u].id = g[u].id /\ g'[u].reserved = g[u].reserved /\ g'[u].ps = g[u].ps
  /\ g'[u].cancelled \in {g[u].cancelled, TRUE}

(* Going on to step s with locals r, t works on for the same instance, an   *)
(* attempt keeps its port, a reload its process.                            *)
Carries(t, s, r) ==
  /\ pc[t] # "idle" /\ s # "idle" => r.id = g[t].id
  /\ s \in Attempting => r.reserved = g[t].reserved /\ r.cancelled \in {g[t].cancelled, TRUE}
  /\ s \in {"reload_write", "reload_push"} => r.ps = g[t].ps

(* What every step of a goroutine t has in common.                         *)
Moves(t) == /\ g' \in [Threads -> LocalRecord]
            /\ pc' \in [Threads -> Steps]
            /\ Frame(t)
            /\ Fits(t, pc'[t], g'[t])
            /\ Carries(t, pc'[t], g'[t])

(* Changing a field of a goroutine's locals to a value of its type.        *)
LEMMA FieldTyped ==
  ASSUME NEW r \in LocalRecord
  PROVE  /\ \A op \in AllOperations \cup {"relaunch"} : [r EXCEPT !.op = op] \in LocalRecord
         /\ \A i \in Ids : [r EXCEPT !.id = i] \in LocalRecord
         /\ \A p \in Procs \cup {None} : [r EXCEPT !.ps = p] \in LocalRecord
         /\ \A u \in Threads \cup {None} : [r EXCEPT !.awaits = u] \in LocalRecord
         /\ \A b \in BOOLEAN : [r EXCEPT !.cancelled = b] \in LocalRecord
         /\ \A b \in BOOLEAN : [r EXCEPT !.expired = b] \in LocalRecord
         /\ \A n \in Ports \cup {None} : [r EXCEPT !.reserved = n] \in LocalRecord
         /\ \A b \in BOOLEAN : [r EXCEPT !.failed = b] \in LocalRecord
         /\ \A k \in Nat : [r EXCEPT !.attempt = k] \in LocalRecord
         /\ \A b \in BOOLEAN : [r EXCEPT !.attached = b] \in LocalRecord
  BY DEF LocalRecord

(* The locals of a goroutine that has ended.                               *)
LEMMA IdleTyped == IdleLocals \in LocalRecord
  BY DEF IdleLocals, LocalRecord

(* The locals Restart and DELETE go on with after their Stop.              *)
LEMMA FreshTyped ==
  ASSUME NEW i \in Ids, NEW op \in {"restart", "delete"}
  PROVE  [IdleLocals EXCEPT !.op = op, !.id = i] \in LocalRecord
<1>1. [IdleLocals EXCEPT !.op = op] \in LocalRecord
  BY IdleTyped, FieldTyped DEF AllOperations
<1> QED BY <1>1, FieldTyped

(* The locals of a backoff that was just armed.                            *)
LEMMA ArmedTyped ==
  ASSUME NEW i \in Ids, NEW k \in Nat
  PROVE  [IdleLocals EXCEPT !.op = "relaunch", !.id = i, !.attempt = k, !.attached = TRUE]
           \in LocalRecord
<1>1. [IdleLocals EXCEPT !.op = "relaunch"] \in LocalRecord
  BY IdleTyped, FieldTyped
<1>2. [IdleLocals EXCEPT !.op = "relaunch", !.id = i] \in LocalRecord
  BY <1>1, FieldTyped
<1>3. [IdleLocals EXCEPT !.op = "relaunch", !.id = i, !.attempt = k] \in LocalRecord
  BY <1>2, FieldTyped
<1> QED BY <1>3, FieldTyped

(* A step that sets t's program counter and locals.                        *)
LEMMA Move ==
  ASSUME TypeInv, NEW t \in Threads, NEW r, NEW s, Fits(t, s, r), Carries(t, s, r),
         g' = [g EXCEPT ![t] = r], pc' = [pc EXCEPT ![t] = s]
  PROVE  Moves(t)
<1>1. g \in [Threads -> LocalRecord] /\ pc \in [Threads -> Steps]
  BY DEF TypeInv, TypeOK
<1>2. s \in Steps /\ r \in LocalRecord
  BY DEF Fits
<1> QED BY <1>1, <1>2 DEF Moves, Frame

(* A step that only moves t, or records its error.                         *)
LEMMA Going ==
  ASSUME TypeInv, NEW t \in Threads, NEW s, Fits(t, s, g[t])
  PROVE  /\ Goto(t, s) /\ g' = g => Moves(t)
         /\ Fail(t, s) => Moves(t)
<1>1. g \in [Threads -> LocalRecord] /\ pc \in [Threads -> Steps] /\ s \in Steps
  BY DEF TypeInv, TypeOK, Fits
<1>2. ASSUME Goto(t, s), g' = g PROVE Moves(t)
  BY <1>1, <1>2 DEF Moves, Frame, Carries
<1>3. ASSUME Fail(t, s) PROVE Moves(t)
  <2> DEFINE r == [g[t] EXCEPT !.failed = TRUE]
  <2>1. r \in LocalRecord
    BY <1>1, FieldTyped
  <2>2. r.id = g[t].id /\ r.reserved = g[t].reserved /\ r.ps = g[t].ps /\ r.cancelled = g[t].cancelled
    BY <1>1 DEF LocalRecord
  <2>3. Fits(t, s, r) /\ Carries(t, s, r)
    BY <2>1, <2>2 DEF Fits, Carries
  <2>4. g' = [g EXCEPT ![t] = r] /\ pc' = [pc EXCEPT ![t] = s]
    BY <1>3
  <2> HIDE DEF r
  <2> QED BY <2>3, <2>4, Move
<1> QED BY <1>2, <1>3

(* A step that reads procs into t's locals.                                *)
LEMMA Points ==
  ASSUME TypeInv, NEW t \in Requests, pc[t] # "idle", NEW i \in Ids,
         NEW s \in {"stop_find", "stop_gate", "reload_verify"},
         g' = [g EXCEPT ![t].ps = procs[i]], Goto(t, s)
  PROVE  Moves(t)
<1>1. g[t] \in LocalRecord /\ procs[i] \in Procs \cup {None} /\ g[t].id \in Ids
  BY DEF TypeInv, TypeOK, Fits
<1> DEFINE r == [g[t] EXCEPT !.ps = procs[i]]
<1>2. r \in LocalRecord
  BY <1>1, FieldTyped
<1>3. r.id = g[t].id
  BY <1>1 DEF LocalRecord
<1>4. Fits(t, s, r) /\ Carries(t, s, r)
  BY <1>1, <1>2, <1>3, NoneAssumption
     DEF Fits, Carries, Steps, Stopping, Reloading, HasPort, HasProc, Attempting, Holding,
         WatchdogOnly
<1>5. g' = [g EXCEPT ![t] = r] /\ pc' = [pc EXCEPT ![t] = s]
  OBVIOUS
<1> HIDE DEF r
<1> QED BY <1>4, <1>5, Move

(* The locals of others may change too, but not what Frame speaks of.       *)
SameWork(f) ==
  /\ f \in [Threads -> LocalRecord]
  /\ \A u \in Threads : /\ f[u].id = g[u].id /\ f[u].reserved = g[u].reserved /\ f[u].ps = g[u].ps
                         /\ f[u].cancelled \in {g[u].cancelled, TRUE}

(* Like Move, in a step that also touches the locals of others.            *)
LEMMA MoveAmong ==
  ASSUME TypeInv, NEW t \in Threads, NEW r, NEW s, Fits(t, s, r), Carries(t, s, r), NEW f, SameWork(f),
         g' = [f EXCEPT ![t] = r], pc' = [pc EXCEPT ![t] = s]
  PROVE  Moves(t)
<1>1. pc \in [Threads -> Steps]
  BY DEF TypeInv, TypeOK
<1>2. s \in Steps /\ r \in LocalRecord
  BY DEF Fits
<1> QED BY <1>1, <1>2 DEF Moves, Frame, SameWork

(* Like Going, in a step that also touches the locals of others.           *)
LEMMA GoingAmong ==
  ASSUME TypeInv, NEW t \in Threads, NEW s, Fits(t, s, g[t]), NEW f, SameWork(f),
         g' = f, pc' = [pc EXCEPT ![t] = s]
  PROVE  Moves(t)
<1>1. pc \in [Threads -> Steps]
  BY DEF TypeInv, TypeOK
<1> QED BY <1>1 DEF Moves, Frame, SameWork, Fits, Carries

(* Cancelling a pending backoff changes no goroutine's work.               *)
LEMMA CancelSameWork ==
  ASSUME TypeInv, NEW i \in Ids
  PROVE  SameWork(PendingCancelled(g, i))
<1>1. g \in [Threads -> LocalRecord] /\ cancelPending[i] \in Backoffs \cup {None}
  BY DEF TypeInv, TypeOK
<1>2. CASE cancelPending[i] = None
  BY <1>1, <1>2 DEF PendingCancelled, SameWork
<1>3. CASE cancelPending[i] # None
  <2> DEFINE b == cancelPending[i]
             r == [g[b] EXCEPT !.expired = TRUE]
  <2>1. b \in Threads
    BY <1>1, <1>3
  <2>2. g[b] \in LocalRecord
    BY <1>1, <2>1
  <2> HIDE DEF b
  <2>3. r \in LocalRecord
    BY <2>2, FieldTyped
  <2>4. r.id = g[b].id /\ r.reserved = g[b].reserved /\ r.ps = g[b].ps /\ r.cancelled = g[b].cancelled
    BY <2>2 DEF LocalRecord
  <2>5. PendingCancelled(g, i) = [g EXCEPT ![b] = r]
    BY <1>3 DEF PendingCancelled, b
  <2> HIDE DEF r
  <2> QED BY <1>1, <2>1, <2>3, <2>4, <2>5 DEF SameWork
<1> QED BY <1>2, <1>3

(* Arming a backoff on an idle slot, or again on the slot of its           *)
(* predecessor.                                                            *)
LEMMA ArmedFits ==
  ASSUME TypeInv, NEW b \in Backoffs, NEW i \in Ids, Arm(i, b),
         pc[b] # "idle" => i = g[b].id
  PROVE  Moves(b)
<1> DEFINE r == [IdleLocals EXCEPT !.op = "relaunch", !.id = i,
                              !.attempt = consecutive[i] + 1, !.attached = TRUE]
<1>1. consecutive[i] + 1 \in Nat
  BY DEF TypeInv, TypeOK
<1>2. r \in LocalRecord
  BY <1>1, ArmedTyped
<1>3. r.id = i
  BY DEF IdleLocals
<1>4. Fits(b, "sleeping", r) /\ Carries(b, "sleeping", r)
  BY <1>2, <1>3, NoneAssumption
     DEF Fits, Carries, Steps, OtherSteps, HasPort, HasProc, Attempting, Holding,
         WatchdogOnly
<1>5. g' = [g EXCEPT ![b] = r] /\ pc' = [pc EXCEPT ![b] = "sleeping"]
  BY DEF Arm
<1> HIDE DEF r
<1> QED BY <1>4, <1>5, Move

(* A goroutine that ends.                                                  *)
LEMMA Ends ==
  ASSUME TypeInv, NEW t \in Threads, Finish(t)
  PROVE  Moves(t)
<1>1. Fits(t, "idle", IdleLocals) /\ Carries(t, "idle", IdleLocals)
  BY IdleTyped
     DEF Fits, Carries, Steps, OtherSteps, HasPort, HasProc, Attempting, Holding,
         WatchdogOnly
<1> QED BY <1>1, Move

(* startContext returning an error before it registered or after it        *)
(* cleaned up.                                                             *)
LEMMA Failing ==
  ASSUME TypeInv, NEW t \in Threads, pc[t] # "idle", StartFailed(t)
  PROVE  Moves(t)
<1>1. CASE t \in Requests /\ Finish(t)
  BY <1>1, Ends
<1>2. CASE t \in Backoffs /\ pc' = [pc EXCEPT ![t] = "rearm"] /\ g' = [g EXCEPT ![t].reserved = None]
  <2> DEFINE r == [g[t] EXCEPT !.reserved = None]
  <2>1. g[t] \in LocalRecord /\ g[t].id \in Ids
    BY DEF TypeInv, Fits
  <2>2. r \in LocalRecord /\ r.id = g[t].id
    BY <2>1 DEF LocalRecord
  <2>3. Fits(t, "rearm", r) /\ Carries(t, "rearm", r)
    BY <1>2, <2>1, <2>2, NoneAssumption
       DEF Fits, Carries, Steps, OtherSteps, HasPort, HasProc, Attempting, Holding,
           WatchdogOnly
  <2>4. g' = [g EXCEPT ![t] = r] /\ pc' = [pc EXCEPT ![t] = "rearm"]
    BY <1>2
  <2> HIDE DEF r
  <2> QED BY <2>3, <2>4, Move
<1> QED BY <1>1, <1>2 DEF StartFailed

(* A Stop that returns to its caller.                                      *)
LEMMA Continues ==
  ASSUME TypeInv, NEW t \in Requests, pc[t] # "idle", NEW ok, AfterStop(t, ok)
  PROVE  Moves(t)
<1>1. g[t].id \in Ids
  BY DEF TypeInv, Fits
<1>2. ASSUME NEW op \in {"restart", "delete"}, NEW s \in {"start", "delete_remove", "delete_end"}
      PROVE  /\ Fits(t, s, [IdleLocals EXCEPT !.op = op, !.id = g[t].id])
             /\ Carries(t, s, [IdleLocals EXCEPT !.op = op, !.id = g[t].id])
  <2> DEFINE r == [IdleLocals EXCEPT !.op = op, !.id = g[t].id]
  <2>1. r \in LocalRecord
    BY <1>1, FreshTyped
  <2>2. r.id = g[t].id
    BY DEF IdleLocals
  <2> HIDE DEF r
  <2>3. Fits(t, s, r) /\ Carries(t, s, r)
    BY <1>1, <2>1, <2>2, NoneAssumption
       DEF Fits, Carries, Steps, PreRegister, OtherSteps, HasPort, HasProc, Attempting,
           Holding, WatchdogOnly
  <2> QED BY <2>3 DEF r
<1>3. CASE Goto(t, "start") /\ g' = [g EXCEPT ![t] = [IdleLocals EXCEPT !.op = "restart", !.id = g[t].id]]
  BY <1>2, <1>3, Move
<1>4. CASE /\ Goto(t, IF ok THEN "delete_remove" ELSE "delete_end")
           /\ g' = [g EXCEPT ![t] = [IdleLocals EXCEPT !.op = "delete", !.id = g[t].id]]
  BY <1>2, <1>4, Move
<1>5. CASE Finish(t)
  BY <1>5, Ends
<1> QED BY <1>3, <1>4, <1>5 DEF AfterStop

(* A step that only changes p's record.                                     *)
LEMMA ProcTyped ==
  ASSUME TypeInv, NEW p \in Procs, NEW r \in ProcRecord,
         r.st # "free" => r.id \in Ids /\ r.port \in Ports,
         proc' = [proc EXCEPT ![p] = r]
  PROVE  proc' \in [Procs -> ProcRecord] /\ \A q \in Procs : ProcessOf(q)'
  BY DEF TypeInv, TypeOK, ProcessOf

(* The record of a slot not in use.                                        *)
LEMMA NoProcTyped == NoProc \in ProcRecord /\ NoProc.st = "free"
  BY DEF NoProc, ProcRecord, ProcStates

(* A step that only moves a process to another state of its exit.          *)
LEMMA StateTyped ==
  ASSUME TypeInv, NEW p \in Procs, NEW s \in ProcStates \ {"free"}, proc[p].st # "free",
         proc' = [proc EXCEPT ![p].st = s]
  PROVE  proc' \in [Procs -> ProcRecord] /\ \A q \in Procs : ProcessOf(q)'
<1> DEFINE r == [proc[p] EXCEPT !.st = s]
<1>1. proc[p] \in ProcRecord /\ proc[p].id \in Ids /\ proc[p].port \in Ports
  BY DEF TypeInv, TypeOK, ProcessOf
<1>2. r \in ProcRecord /\ r.id = proc[p].id /\ r.port = proc[p].port
  BY <1>1 DEF ProcRecord
<1> HIDE DEF r
<1>3. proc' = [proc EXCEPT ![p] = r]
  BY DEF r
<1> QED BY <1>1, <1>2, <1>3, ProcTyped

(* Every step of startContext leaves its goroutine fit for the next one.   *)
LEMMA StartMoves ==
  ASSUME TypeInv, NEW t \in Threads, StartStep(t)
  PROVE  Moves(t)
<1>1. CASE StartEnter(t)
  <2> DEFINE r == [g[t] EXCEPT !.reserved = port[g[t].id]]
  <2>1. g[t] \in LocalRecord /\ g[t].id \in Ids /\ port[g[t].id] \in Ports
    BY <1>1 DEF StartEnter, TypeInv, TypeOK, Fits
  <2>2. r \in LocalRecord /\ r.id = g[t].id /\ r.reserved = port[g[t].id]
    BY <2>1 DEF LocalRecord
  <2>3. Fits(t, "start_register", r) /\ Carries(t, "start_register", r)
    BY <2>1, <2>2
       DEF Fits, Carries, Steps, PreRegister, HasProc, Attempting, Holding, WatchdogOnly
  <2>4. \/ StartFailed(t)
        \/ g' = [g EXCEPT ![t] = r] /\ pc' = [pc EXCEPT ![t] = "start_register"]
    BY <1>1 DEF StartEnter
  <2> HIDE DEF r
  <2> QED BY <1>1, <2>3, <2>4, Move, Failing DEF StartEnter
<1>2. CASE StartBlocked(t)
  BY <1>2, Failing DEF StartBlocked
<1>3. CASE StartNothing(t)
  BY <1>3, Ends DEF StartNothing
<1>4. CASE StartRegister(t)
  <2> DEFINE f == IF t \in Requests THEN PendingCancelled(g, g[t].id) ELSE g
             r == [f[t] EXCEPT !.reserved = None]
  <2>1. g \in [Threads -> LocalRecord] /\ g[t].id \in Ids /\ g[t].reserved \in Ports
    BY <1>4 DEF StartRegister, TypeInv, TypeOK, Fits, HasPort
  <2>2. SameWork(f)
    BY <2>1, CancelSameWork DEF SameWork
  <2>3. \/ pc' = [pc EXCEPT ![t] = "idle"] /\ g' = [f EXCEPT ![t] = IdleLocals]
        \/ t \in Backoffs /\ pc' = [pc EXCEPT ![t] = "rearm"] /\ g' = [f EXCEPT ![t] = r]
        \/ pc' = [pc EXCEPT ![t] = "start_lock"] /\ g' = f
    BY <1>4 DEF StartRegister
  <2> HIDE DEF f
  <2>4. f[t] \in LocalRecord /\ f[t].id = g[t].id
    BY <2>2 DEF SameWork
  <2>5. r \in LocalRecord /\ r.id = g[t].id
    BY <2>4 DEF LocalRecord
  <2> HIDE DEF r
  <2>6. /\ Fits(t, "idle", IdleLocals) /\ Carries(t, "idle", IdleLocals)
        /\ t \in Backoffs => Fits(t, "rearm", r) /\ Carries(t, "rearm", r)
        /\ Fits(t, "start_lock", g[t])
    BY <1>4, <2>1, <2>5, IdleTyped, NoneAssumption
       DEF StartRegister, Fits, Carries, Steps, Attempting, Holding, OtherSteps, HasPort,
           HasProc, WatchdogOnly
  <2> QED BY <2>2, <2>3, <2>6, MoveAmong, GoingAmong
<1>5. CASE StartLock(t)
  <2>1. Fits(t, "start_check", g[t])
    BY <1>5
       DEF StartLock, Acquire, TypeInv, Fits, Steps, Attempting, Holding, HasPort, HasProc,
           WatchdogOnly
  <2> QED BY <1>5, <2>1, Going DEF StartLock, Acquire
<1>6. CASE StartCheck(t)
  <2>1. /\ Fits(t, "start_unlock", g[t])
        /\ Fits(t, "start_read", g[t])
    BY <1>6
       DEF StartCheck, TypeInv, Fits, Steps, Attempting, Holding, HasPort, HasProc,
           WatchdogOnly
  <2> QED BY <1>6, <2>1, Going DEF StartCheck
<1>7. CASE StartRead(t)
  <2>1. /\ Fits(t, "start_write", g[t])
        /\ Fits(t, "start_unlock", g[t])
    BY <1>7
       DEF StartRead, TypeInv, Fits, Steps, Attempting, Holding, HasPort, HasProc,
           WatchdogOnly
  <2> QED BY <1>7, <2>1, Going DEF StartRead
<1>8. CASE StartWrite(t)
  <2>1. /\ Fits(t, "start_test", g[t])
        /\ Fits(t, "start_unlock", g[t])
    BY <1>8
       DEF StartWrite, TypeInv, Fits, Steps, Attempting, Holding, HasPort, HasProc,
           WatchdogOnly
  <2> QED BY <1>8, <2>1, Going DEF StartWrite
<1>9. CASE StartTest(t)
  <2>1. /\ Fits(t, "start_spawn", g[t])
        /\ Fits(t, "start_unlock", g[t])
    BY <1>9
       DEF StartTest, TypeInv, Fits, Steps, Attempting, Holding, HasPort, HasProc,
           WatchdogOnly
  <2> QED BY <1>9, <2>1, Going DEF StartTest
<1>10. CASE StartSpawn(t)
  <2>1. CASE Fail(t, "start_unlock")
    <3>1. Fits(t, "start_unlock", g[t])
      BY <1>10
         DEF StartSpawn, TypeInv, Fits, Steps, Attempting, Holding, HasPort, HasProc,
             WatchdogOnly
    <3> QED BY <2>1, <3>1, Going
  <2>2. ASSUME NEW p \in Procs, g' = [g EXCEPT ![t].ps = p], Goto(t, "start_publish")
        PROVE  Moves(t)
    <3> DEFINE r == [g[t] EXCEPT !.ps = p]
    <3>1. g[t] \in LocalRecord /\ g[t].id \in Ids /\ g[t].reserved \in Ports
      BY <1>10 DEF StartSpawn, TypeInv, Fits, HasPort, Attempting, Holding
    <3>2. r \in LocalRecord /\ r.id = g[t].id /\ r.reserved = g[t].reserved /\ r.ps = p /\ r.cancelled = g[t].cancelled
      BY <3>1 DEF LocalRecord
    <3>3. g' = [g EXCEPT ![t] = r] /\ pc' = [pc EXCEPT ![t] = "start_publish"]
      BY <2>2
    <3> HIDE DEF r
    <3>4. Fits(t, "start_publish", r) /\ Carries(t, "start_publish", r)
      BY <1>10, <3>1, <3>2
         DEF StartSpawn, Fits, Carries, Steps, Attempting, Holding, WatchdogOnly
    <3> QED BY <3>3, <3>4, Move
  <2> QED BY <1>10, <2>1, <2>2 DEF StartSpawn
<1>11. CASE StartPublish(t)
  <2>1. Fits(t, "start_unlock", g[t])
    BY <1>11
       DEF StartPublish, TypeInv, Fits, Steps, Attempting, Holding, HasPort, HasProc,
           WatchdogOnly
  <2> QED BY <1>11, <2>1, Going DEF StartPublish
<1>12. CASE StartUnlock(t)
  <2>1. Fits(t, "start_cleanup", g[t])
    BY <1>12
       DEF StartUnlock, TypeInv, Fits, Steps, PreRegister, Attempting, Stopping, StopWaiting,
           Reloading, OtherSteps, HasPort, HasProc, WatchdogOnly
  <2> QED BY <1>12, <2>1, Going DEF StartUnlock
<1>13. CASE StartCleanup(t)
  <2> DEFINE r == IF t \in Requests THEN IdleLocals
                  ELSE [g[t] EXCEPT !.failed = FALSE, !.cancelled = FALSE,
                                    !.reserved = None, !.ps = None]
             s == IF t \in Requests THEN "idle"
                  ELSE IF g[t].failed THEN "rearm" ELSE "relaunched"
             f == [x \in Threads |-> [g[x] EXCEPT !.awaits = IF @ = t THEN None ELSE @]]
  <2>1. g \in [Threads -> LocalRecord] /\ g[t].id \in Ids
    BY <1>13 DEF StartCleanup, TypeInv, TypeOK, Fits
  <2>2. r \in LocalRecord /\ (t \notin Requests => r.id = g[t].id)
    <3>1. [g[t] EXCEPT !.failed = FALSE] \in LocalRecord
      BY <2>1, FieldTyped
    <3>2. [g[t] EXCEPT !.failed = FALSE, !.cancelled = FALSE] \in LocalRecord
      BY <3>1, FieldTyped
    <3>3. [g[t] EXCEPT !.failed = FALSE, !.cancelled = FALSE, !.reserved = None] \in LocalRecord
      BY <3>2, FieldTyped
    <3>4. [g[t] EXCEPT !.failed = FALSE, !.cancelled = FALSE, !.reserved = None, !.ps = None] \in LocalRecord
      BY <3>3, FieldTyped
    <3>5. [g[t] EXCEPT !.failed = FALSE, !.cancelled = FALSE, !.reserved = None, !.ps = None].id = g[t].id
      BY <2>1 DEF LocalRecord
    <3> QED BY <3>4, <3>5, IdleTyped
  <2>3. SameWork(f)
    <3>1. ASSUME NEW x \in Threads, NEW w \in Threads \cup {None}
          PROVE  LET q == [g[x] EXCEPT !.awaits = w]
                 IN q \in LocalRecord /\ q.id = g[x].id /\ q.reserved = g[x].reserved /\ q.ps = g[x].ps /\ q.cancelled = g[x].cancelled
      BY <2>1 DEF LocalRecord
    <3>2. \A x \in Threads : (IF g[x].awaits = t THEN None ELSE g[x].awaits) \in Threads \cup {None}
      BY <2>1 DEF LocalRecord
    <3>3. ASSUME NEW x \in Threads
          PROVE  /\ f[x] \in LocalRecord
                 /\ f[x].id = g[x].id /\ f[x].reserved = g[x].reserved /\ f[x].ps = g[x].ps
                 /\ f[x].cancelled = g[x].cancelled
      <4> DEFINE w == IF g[x].awaits = t THEN None ELSE g[x].awaits
      <4>1. w \in Threads \cup {None} /\ f[x] = [g[x] EXCEPT !.awaits = w]
        BY <3>2
      <4> HIDE DEF w, f
      <4> QED BY <3>1, <4>1
    <3>4. f \in [Threads -> LocalRecord]
      BY <3>3
    <3> HIDE DEF f
    <3> QED BY <3>3, <3>4 DEF SameWork
  <2>4. g' = [f EXCEPT ![t] = r] /\ pc' = [pc EXCEPT ![t] = s]
    BY <1>13 DEF StartCleanup, DoneClosedFor
  <2> HIDE DEF r, f
  <2>5. Fits(t, s, r) /\ Carries(t, s, r)
    BY <1>13, <2>1, <2>2
       DEF StartCleanup, Fits, Carries, Steps, Attempting, Holding, OtherSteps, HasPort,
           HasProc, WatchdogOnly
  <2> QED BY <2>3, <2>4, <2>5, MoveAmong
<1> QED BY <1>1, <1>2, <1>3, <1>4, <1>5, <1>6, <1>7, <1>8, <1>9, <1>10, <1>11, <1>12, <1>13
           DEF StartStep

(* The same of StopContext.                                                *)
LEMMA StopMoves ==
  ASSUME TypeInv, NEW t \in Requests, StopStep(t)
  PROVE  Moves(t)
<1>1. CASE StopMark(t)
  <2>1. g[t].id \in Ids /\ g \in [Threads -> LocalRecord]
    BY <1>1 DEF StopMark, TypeInv, TypeOK, Fits
  <2>2. Fits(t, "stop_resolve", g[t])
    BY <1>1
       DEF StopMark, TypeInv, Fits, Steps, PreRegister, Attempting, Holding, Stopping,
           HasPort, HasProc, WatchdogOnly
  <2>3. SameWork(g) /\ SameWork(PendingCancelled(g, g[t].id))
    BY <2>1, CancelSameWork DEF SameWork
  <2> QED BY <1>1, <2>2, <2>3, GoingAmong DEF StopMark
<1>2. CASE StopResolve(t)
  <2>2. g[t].id \in Ids
    BY <1>2 DEF StopResolve, TypeInv, Fits
  <2> QED BY <1>2, <2>2, Points DEF StopResolve
<1>3. CASE StopFind(t)
  <2>1. /\ Fits(t, "stop_gate", g[t])
        /\ Fits(t, "stop_await", g[t])
    BY <1>3
       DEF StopFind, TypeInv, Fits, Steps, PreRegister, Attempting, Holding, Stopping,
           HasPort, HasProc, WatchdogOnly
  <2>2. CASE starts[g[t].id] = None
    BY <1>3, <2>1, <2>2, Going DEF StopFind
  <2>3. CASE starts[g[t].id] # None
    <3> DEFINE owner == starts[g[t].id]
               f == [g EXCEPT ![owner].cancelled = TRUE]
               h == [f EXCEPT ![t].awaits = owner]
    <3>1. g \in [Threads -> LocalRecord] /\ owner \in Threads
      BY <1>3, <2>3 DEF StopFind, TypeInv, TypeOK, Fits
    <3> HIDE DEF owner
    <3>2. SameWork(f)
      <4> DEFINE q == [g[owner] EXCEPT !.cancelled = TRUE]
      <4>0. g[owner] \in LocalRecord /\ TRUE \in BOOLEAN
        BY <3>1
      <4>1. q \in LocalRecord /\ q.id = g[owner].id /\ q.reserved = g[owner].reserved /\ q.ps = g[owner].ps /\ q.cancelled
        <5>1. q \in LocalRecord
          BY <4>0, FieldTyped
        <5>2. q.id = g[owner].id /\ q.reserved = g[owner].reserved /\ q.ps = g[owner].ps /\ q.cancelled
          BY <4>0 DEF LocalRecord
        <5> QED BY <5>1, <5>2
      <4> HIDE DEF q
      <4>2. f = [g EXCEPT ![owner] = q]
        BY DEF q
      <4> HIDE DEF f
      <4> QED BY <3>1, <4>1, <4>2 DEF SameWork
    <3> HIDE DEF f
    <3>3. SameWork(h)
      <4> DEFINE q == [f[t] EXCEPT !.awaits = owner]
      <4>1. q \in LocalRecord /\ q.id = f[t].id /\ q.reserved = f[t].reserved /\ q.ps = f[t].ps /\ q.cancelled = f[t].cancelled
        BY <3>1, <3>2 DEF LocalRecord, SameWork
      <4> HIDE DEF q
      <4>2. h = [f EXCEPT ![t] = q]
        BY DEF q
      <4> HIDE DEF h
      <4> QED BY <3>2, <4>1, <4>2 DEF SameWork
    <3>4. g' = h /\ pc' = [pc EXCEPT ![t] = "stop_await"]
      BY <1>3, <2>3 DEF StopFind, owner, f
    <3> HIDE DEF h
    <3> QED BY <2>1, <3>3, <3>4, GoingAmong
  <2> QED BY <2>2, <2>3
<1>4. CASE StopAwait(t)
  <2>1. Fits(t, "stop_settle", g[t])
    BY <1>4
       DEF StopAwait, TypeInv, Fits, Steps, PreRegister, Attempting, Holding, Stopping,
           HasPort, HasProc, WatchdogOnly
  <2> QED BY <1>4, <2>1, Going, Continues DEF StopAwait
<1>5. CASE StopSettle(t)
  <2>2. g[t].id \in Ids
    BY <1>5 DEF StopSettle, TypeInv, Fits
  <2> QED BY <1>5, <2>2, Points DEF StopSettle
<1>6. CASE StopGate(t)
  <2>1. Fits(t, "stop_lock", g[t])
    BY <1>6
       DEF StopGate, TypeInv, Fits, Steps, PreRegister, Attempting, Holding, Stopping,
           HasPort, HasProc, WatchdogOnly
  <2> QED BY <1>6, <2>1, Going, Continues DEF StopGate
<1>7. CASE StopLock(t)
  <2>1. Fits(t, "stop_signal", g[t])
    BY <1>7
       DEF StopLock, Acquire, TypeInv, Fits, Steps, PreRegister, Attempting, Holding,
           Stopping, StopWaiting, HasPort, HasProc, WatchdogOnly
  <2> QED BY <1>7, <2>1, Going DEF StopLock, Acquire
<1>8. CASE StopSignal(t)
  <2>1. Fits(t, "stop_unlock", g[t])
    BY <1>8
       DEF StopSignal, TypeInv, Fits, Steps, PreRegister, Attempting, Holding, Stopping,
           StopWaiting, HasPort, HasProc, WatchdogOnly
  <2>2. g[t].ps # None => Fits(t, "stop_wait", g[t])
    BY <1>8
       DEF StopSignal, TypeInv, LocalRecord, Fits, Steps, PreRegister, Attempting, Holding,
           Stopping, StopWaiting, HasPort, WatchdogOnly
  <2>3. \/ Goto(t, "stop_unlock") /\ g' = g
        \/ Fail(t, "stop_unlock")
        \/ g[t].ps # None /\ Goto(t, "stop_wait") /\ g' = g
    BY <1>8 DEF StopSignal
  <2> QED BY <2>1, <2>2, <2>3, Going
<1>9. CASE StopWait(t)
  <2>1. /\ Fits(t, "stop_unlock", g[t])
        /\ Fits(t, "stop_killed", g[t])
    BY <1>9
       DEF StopWait, TypeInv, Fits, Steps, PreRegister, Attempting, Holding, Stopping,
           StopWaiting, HasPort, HasProc, WatchdogOnly
  <2> QED BY <1>9, <2>1, Going DEF StopWait
<1>10. CASE StopKilled(t)
  <2>1. Fits(t, "stop_unlock", g[t])
    BY <1>10
       DEF StopKilled, TypeInv, Fits, Steps, PreRegister, Attempting, Holding, Stopping,
           StopWaiting, HasPort, HasProc, WatchdogOnly
  <2> QED BY <1>10, <2>1, Going DEF StopKilled
<1>11. CASE StopUnlock(t)
  BY <1>11, Continues DEF StopUnlock
<1> QED BY <1>1, <1>2, <1>3, <1>4, <1>5, <1>6, <1>7, <1>8, <1>9, <1>10, <1>11 DEF StopStep

(* The same of the DELETE handler, ReloadContext, the core update and PUT. *)
LEMMA RequestMoves ==
  ASSUME TypeInv, NEW t \in Requests, RequestStep(t)
  PROVE  Moves(t)
<1>1. CASE DeleteBegin(t)
  <2>1. Fits(t, "stop", g[t])
    BY <1>1
       DEF DeleteBegin, TypeInv, Fits, Steps, PreRegister, Attempting, Holding, Stopping,
           HasPort, HasProc, WatchdogOnly
  <2> QED BY <1>1, <2>1, Going DEF DeleteBegin
<1>2. CASE DeleteRemove(t)
  <2>1. /\ Fits(t, "delete_drop", g[t])
        /\ Fits(t, "delete_end", g[t])
    BY <1>2
       DEF DeleteRemove, TypeInv, Fits, Steps, PreRegister, Attempting, Holding, OtherSteps,
           HasPort, HasProc, WatchdogOnly
  <2> QED BY <1>2, <2>1, Going DEF DeleteRemove
<1>3. CASE DeleteDrop(t)
  <2> DEFINE f == PendingCancelled(g, g[t].id)
             h == [x \in Threads |-> [f[x] EXCEPT !.attached = @ /\ g[x].id # g[t].id]]
  <2>1. g[t].id \in Ids
    BY <1>3 DEF DeleteDrop, DropWatchdog, TypeInv, Fits
  <2>2. SameWork(f)
    BY <2>1, CancelSameWork
  <2>3. g' = h /\ pc' = [pc EXCEPT ![t] = "delete_end"]
    BY <1>3 DEF DeleteDrop, DropWatchdog
  <2> HIDE DEF f
  <2>4. SameWork(h)
    <3>1. ASSUME NEW x \in Threads, NEW b \in BOOLEAN
          PROVE  LET q == [f[x] EXCEPT !.attached = b]
                 IN q \in LocalRecord /\ q.id = f[x].id /\ q.reserved = f[x].reserved /\ q.ps = f[x].ps /\ q.cancelled = f[x].cancelled
      BY <2>2 DEF LocalRecord, SameWork
    <3>2. \A x \in Threads : (f[x].attached /\ g[x].id # g[t].id) \in BOOLEAN
      OBVIOUS
    <3> QED BY <2>2, <3>1, <3>2 DEF SameWork
  <2> HIDE DEF h
  <2>5. Fits(t, "delete_end", g[t])
    BY <1>3
       DEF DeleteDrop, DropWatchdog, TypeInv, Fits, Steps, PreRegister, Attempting, Holding,
           OtherSteps, HasPort, HasProc, WatchdogOnly
  <2> QED BY <2>3, <2>4, <2>5, GoingAmong
<1>4. CASE DeleteEnd(t)
  BY <1>4, Ends DEF DeleteEnd
<1>5. CASE ReloadLock(t)
  <2>1. Fits(t, "reload_check", g[t])
    BY <1>5
       DEF ReloadLock, Acquire, TypeInv, Fits, Steps, PreRegister, Attempting, Holding,
           Reloading, HasPort, HasProc, WatchdogOnly
  <2> QED BY <1>5, <2>1, Going, Ends DEF ReloadLock, Acquire
<1>6. CASE ReloadCheck(t)
  <2>2. g[t].id \in Ids
    BY <1>6 DEF ReloadCheck, TypeInv, Fits
  <2>1. Fits(t, "reload_unlock", g[t])
    BY <1>6
       DEF ReloadCheck, TypeInv, Fits, Steps, PreRegister, Attempting, Holding, Reloading,
           HasPort, HasProc, WatchdogOnly
  <2> QED BY <1>6, <2>1, <2>2, Going, Points DEF ReloadCheck
<1>7. CASE ReloadVerify(t)
  <2>1. /\ Fits(t, "reload_write", g[t])
        /\ Fits(t, "reload_unlock", g[t])
    BY <1>7
       DEF ReloadVerify, TypeInv, Fits, Steps, PreRegister, Attempting, Holding, Reloading,
           HasPort, HasProc, WatchdogOnly
  <2> QED BY <1>7, <2>1, Going DEF ReloadVerify
<1>8. CASE ReloadWrite(t)
  <2>1. /\ Fits(t, "reload_push", g[t])
        /\ Fits(t, "reload_unlock", g[t])
    BY <1>8
       DEF ReloadWrite, TypeInv, Fits, Steps, PreRegister, Attempting, Holding, Reloading,
           HasPort, HasProc, WatchdogOnly
  <2> QED BY <1>8, <2>1, Going DEF ReloadWrite
<1>9. CASE ReloadPush(t)
  <2>1. Fits(t, "reload_unlock", g[t])
    BY <1>9
       DEF ReloadPush, TypeInv, Fits, Steps, PreRegister, Attempting, Holding, Reloading,
           HasPort, HasProc, WatchdogOnly
  <2> QED BY <1>9, <2>1, Going DEF ReloadPush
<1>10. CASE ReloadUnlock(t)
  BY <1>10, Ends DEF ReloadUnlock
<1>11. CASE CoreBegin(t)
  <2>1. Fits(t, "core_work", g[t])
    BY <1>11
       DEF CoreBegin, TypeInv, Fits, Steps, PreRegister, Attempting, Holding, OtherSteps,
           HasPort, HasProc, WatchdogOnly
  <2> QED BY <1>11, <2>1, Going, Ends DEF CoreBegin
<1>12. CASE CoreEnd(t)
  BY <1>12, Ends DEF CoreEnd
<1>13. CASE EditGuard(t)
  <2>1. Fits(t, "edit_store", g[t])
    BY <1>13
       DEF EditGuard, TypeInv, Fits, Steps, PreRegister, Attempting, Holding, OtherSteps,
           HasPort, HasProc, WatchdogOnly
  <2> QED BY <1>13, <2>1, Going, Ends DEF EditGuard
<1>14. CASE EditStore(t)
  BY <1>14, Ends DEF EditStore
<1> QED BY <1>1, <1>2, <1>3, <1>4, <1>5, <1>6, <1>7, <1>8, <1>9, <1>10, <1>11, <1>12, <1>13,
           <1>14 DEF RequestStep

(* The same of runScheduledRestart and watchHealthyRun.                    *)
LEMMA WatchdogMoves ==
  ASSUME TypeInv, NEW b \in Backoffs, WatchdogStep(b)
  PROVE  Moves(b)
<1>1. CASE Wake(b)
  <2>1. Fits(b, "eligible", g[b])
    BY <1>1
       DEF Wake, TypeInv, Fits, Steps, Attempting, Holding, OtherSteps, HasPort, HasProc,
           WatchdogOnly
  <2> QED BY <1>1, <2>1, Going, Ends DEF Wake
<1>2. CASE CheckEligible(b)
  <2>1. Fits(b, "start", g[b])
    BY <1>2
       DEF CheckEligible, TypeInv, Fits, Steps, PreRegister, Attempting, Holding, HasPort,
           HasProc
  <2> QED BY <1>2, <2>1, Going, Ends DEF CheckEligible
<1>3. CASE Rearm(b)
  <2>1. g[b].id \in Ids
    BY <1>3 DEF Rearm, TypeInv, Fits
  <2> QED BY <1>3, <2>1, ArmedFits, Ends DEF Rearm
<1>4. CASE Relaunched(b)
  <2>1. CASE Finish(b)
    BY <2>1, Ends
  <2>2. CASE /\ procs[g[b].id] # None
             /\ g' = [g EXCEPT ![b].ps = procs[g[b].id]]
             /\ Goto(b, "healthy")
    <3> DEFINE r == [g[b] EXCEPT !.ps = procs[g[b].id]]
    <3>1. g[b] \in LocalRecord /\ g[b].id \in Ids /\ procs[g[b].id] \in Procs
      BY <1>4, <2>2 DEF Relaunched, TypeInv, TypeOK, Fits
    <3>2. r \in LocalRecord /\ r.id = g[b].id /\ r.ps = procs[g[b].id]
      BY <3>1 DEF LocalRecord
    <3>3. g' = [g EXCEPT ![b] = r] /\ pc' = [pc EXCEPT ![b] = "healthy"]
      BY <2>2
    <3> HIDE DEF r
    <3>4. Fits(b, "healthy", r) /\ Carries(b, "healthy", r)
      BY <3>1, <3>2, NoneAssumption
         DEF Fits, Carries, Steps, Attempting, Holding, OtherSteps, HasPort, WatchdogOnly
    <3> QED BY <3>3, <3>4, Move
  <2> QED BY <1>4, <2>1, <2>2 DEF Relaunched
<1>5. CASE WatchHealthy(b)
  BY <1>5, Ends DEF WatchHealthy
<1> QED BY <1>1, <1>2, <1>3, <1>4, <1>5 DEF WatchdogStep

(* The steps of startContext keep the manager's variables well typed.      *)
LEMMA StartTyped ==
  ASSUME TypeInv, NEW t \in Threads, StartStep(t), Moves(t)
  PROVE  TypeOK' /\ \A p \in Procs : ProcessOf(p)'
<1> USE DEF Moves
<1>1. CASE StartEnter(t)
  BY <1>1 DEF StartEnter, TypeInv, TypeOK, ProcessOf, storeVars, attemptVars, watchdogVars
<1>2. CASE StartBlocked(t)
  BY <1>2
     DEF StartBlocked, TypeInv, TypeOK, ProcessOf, storeVars, attemptVars, watchdogVars
<1>3. CASE StartNothing(t)
  BY <1>3
     DEF StartNothing, TypeInv, TypeOK, ProcessOf, storeVars, attemptVars, watchdogVars
<1>4. CASE StartRegister(t)
  <2>1. g[t].id \in Ids /\ overtaken \subseteq Ids
    BY <1>4 DEF StartRegister, TypeInv, TypeOK, Fits
  <2>2. overtaken' \subseteq Ids
    BY <1>4, <2>1 DEF StartRegister, Overtake
  <2> QED BY <1>4, <2>2
             DEF StartRegister, ResetWatchdog, TypeInv, TypeOK, Fits, ProcessOf, attemptVars,
                 watchdogVars
<1>5. CASE StartLock(t)
  BY <1>5
     DEF StartLock, Acquire, TypeInv, TypeOK, ProcessOf, storeVars, attemptVars, watchdogVars
<1>6. CASE StartCheck(t)
  BY <1>6 DEF StartCheck, TypeInv, TypeOK, ProcessOf, storeVars, attemptVars, watchdogVars
<1>7. CASE StartRead(t)
  BY <1>7 DEF StartRead, TypeInv, TypeOK, ProcessOf, storeVars, attemptVars, watchdogVars
<1>8. CASE StartWrite(t)
  BY <1>8 DEF StartWrite, TypeInv, TypeOK, ProcessOf, storeVars, attemptVars, watchdogVars
<1>9. CASE StartTest(t)
  BY <1>9 DEF StartTest, TypeInv, TypeOK, ProcessOf, storeVars, attemptVars, watchdogVars
<1>10. CASE StartSpawn(t)
  <2>1. ASSUME NEW p \in Procs, proc' = [proc EXCEPT ![p] = [NoProc EXCEPT !.st = "alive",
                                              !.id = g[t].id, !.port = g[t].reserved]]
        PROVE  proc' \in [Procs -> ProcRecord] /\ \A q \in Procs : ProcessOf(q)'
    <3> DEFINE r == [NoProc EXCEPT !.st = "alive", !.id = g[t].id, !.port = g[t].reserved]
    <3>1. g[t].id \in Ids /\ g[t].reserved \in Ports
      BY <1>10 DEF StartSpawn, TypeInv, Fits, HasPort, Attempting, Holding
    <3>2. r \in ProcRecord /\ r.id = g[t].id /\ r.port = g[t].reserved
      BY <3>1 DEF NoProc, ProcRecord, ProcStates
    <3>3. proc' = [proc EXCEPT ![p] = r]
      BY <2>1
    <3> HIDE DEF r
    <3> QED BY <3>1, <3>2, <3>3, ProcTyped
  <2>2. proc' \in [Procs -> ProcRecord] /\ \A q \in Procs : ProcessOf(q)'
    <3>1. CASE proc' = proc
      BY <3>1 DEF TypeInv, TypeOK, ProcessOf
    <3> QED BY <1>10, <2>1, <3>1 DEF StartSpawn
  <2> QED BY <1>10, <2>2
             DEF StartSpawn, TypeInv, TypeOK, storeVars, attemptVars, watchdogVars
<1>11. CASE StartPublish(t)
  <2>1. g[t].id \in Ids /\ g[t].ps \in Procs
    BY <1>11 DEF StartPublish, TypeInv, Fits, HasProc
  <2>2. procs' \in [Ids -> Procs \cup {None}]
    BY <1>11, <2>1 DEF StartPublish, TypeInv, TypeOK
  <2> QED BY <1>11, <2>2
             DEF StartPublish, TypeInv, TypeOK, ProcessOf, storeVars, attemptVars,
                 watchdogVars
<1>12. CASE StartUnlock(t)
  BY <1>12
     DEF StartUnlock, Release, TypeInv, TypeOK, ProcessOf, storeVars, attemptVars,
         watchdogVars
<1>13. CASE StartCleanup(t)
  BY <1>13 DEF StartCleanup, TypeInv, TypeOK, ProcessOf, storeVars, watchdogVars
<1> QED BY <1>1, <1>2, <1>3, <1>4, <1>5, <1>6, <1>7, <1>8, <1>9, <1>10, <1>11, <1>12, <1>13
           DEF StartStep

(* The same of StopContext.                                                *)
LEMMA StopTyped ==
  ASSUME TypeInv, NEW t \in Requests, StopStep(t), Moves(t)
  PROVE  TypeOK' /\ \A p \in Procs : ProcessOf(p)'
<1> USE DEF Moves
<1>1. CASE StopMark(t)
  BY <1>1 DEF StopMark, TypeInv, TypeOK, ProcessOf, storeVars, attemptVars, watchdogVars
<1>2. CASE StopResolve(t)
  BY <1>2 DEF StopResolve, TypeInv, TypeOK, ProcessOf, storeVars, attemptVars, watchdogVars
<1>3. CASE StopFind(t)
  BY <1>3 DEF StopFind, TypeInv, TypeOK, ProcessOf, storeVars, attemptVars, watchdogVars
<1>4. CASE StopAwait(t)
  BY <1>4 DEF StopAwait, TypeInv, TypeOK, ProcessOf, storeVars, attemptVars, watchdogVars
<1>5. CASE StopSettle(t)
  BY <1>5 DEF StopSettle, TypeInv, TypeOK, ProcessOf, storeVars, attemptVars, watchdogVars
<1>6. CASE StopGate(t)
  BY <1>6 DEF StopGate, TypeInv, TypeOK, ProcessOf, storeVars, attemptVars, watchdogVars
<1>7. CASE StopLock(t)
  BY <1>7
     DEF StopLock, Acquire, TypeInv, TypeOK, ProcessOf, storeVars, attemptVars, watchdogVars
<1>8. CASE StopSignal(t)
  <2>1. proc' \in [Procs -> ProcRecord] /\ \A q \in Procs : ProcessOf(q)'
    <3>1. CASE proc' = proc
      BY <3>1 DEF TypeInv, TypeOK, ProcessOf
    <3>2. CASE g[t].ps # None /\ proc' = [proc EXCEPT ![g[t].ps].stopRequested =
                                            @ \/ proc[g[t].ps].st # "free"]
      <4> DEFINE p == g[t].ps
                 r == [proc[p] EXCEPT !.stopRequested = @ \/ proc[p].st # "free"]
      <4>1. p \in Procs
        BY <3>2 DEF TypeInv, TypeOK, LocalRecord
      <4> HIDE DEF p
      <4>2. proc[p] \in ProcRecord /\ (proc[p].st # "free" => proc[p].id \in Ids /\ proc[p].port \in Ports)
        BY <4>1 DEF TypeInv, TypeOK, ProcessOf
      <4>3. (proc[p].stopRequested \/ proc[p].st # "free") \in BOOLEAN
        OBVIOUS
      <4>4. r \in ProcRecord /\ r.st = proc[p].st /\ r.id = proc[p].id /\ r.port = proc[p].port
        BY <4>2, <4>3 DEF ProcRecord
      <4>5. proc' = [proc EXCEPT ![p] = r]
        BY <3>2 DEF p
      <4> HIDE DEF r
      <4> QED BY <4>1, <4>2, <4>4, <4>5, ProcTyped
    <3> QED BY <1>8, <3>1, <3>2 DEF StopSignal
  <2> QED BY <1>8, <2>1
             DEF StopSignal, TypeInv, TypeOK, storeVars, attemptVars, watchdogVars
<1>9. CASE StopWait(t)
  <2>1. proc' \in [Procs -> ProcRecord] /\ \A q \in Procs : ProcessOf(q)'
    <3> DEFINE p == g[t].ps
    <3>1. p \in Procs
      BY <1>9 DEF StopWait, TypeInv, Fits, HasProc
    <3>2. CASE proc' = proc
      BY <3>2 DEF TypeInv, TypeOK, ProcessOf
    <3>3. CASE ~DoneClosed(p) /\ proc' = [proc EXCEPT ![p].st = IF @ = "alive" THEN "dead" ELSE @]
      <4> DEFINE s == IF proc[p].st = "alive" THEN "dead" ELSE proc[p].st
      <4>1. s \in ProcStates \ {"free"} /\ proc[p].st # "free"
        BY <3>1, <3>3 DEF TypeInv, TypeOK, ProcRecord, ProcStates, DoneClosed
      <4>2. proc' = [proc EXCEPT ![p].st = s]
        BY <3>3
      <4> HIDE DEF s, p
      <4> QED BY <3>1, <4>1, <4>2, StateTyped
    <3> QED BY <1>9, <3>2, <3>3 DEF StopWait
  <2> QED BY <1>9, <2>1 DEF StopWait, TypeInv, TypeOK, storeVars, attemptVars, watchdogVars
<1>10. CASE StopKilled(t)
  BY <1>10 DEF StopKilled, TypeInv, TypeOK, ProcessOf, storeVars, attemptVars, watchdogVars
<1>11. CASE StopUnlock(t)
  BY <1>11
     DEF StopUnlock, Release, TypeInv, TypeOK, ProcessOf, storeVars, attemptVars,
         watchdogVars
<1> QED BY <1>1, <1>2, <1>3, <1>4, <1>5, <1>6, <1>7, <1>8, <1>9, <1>10, <1>11 DEF StopStep

(* The same of the DELETE handler, ReloadContext, the core update and PUT. *)
LEMMA RequestTyped ==
  ASSUME TypeInv, NEW t \in Requests, RequestStep(t), Moves(t)
  PROVE  TypeOK' /\ \A p \in Procs : ProcessOf(p)'
<1> USE DEF Moves
<1>1. CASE DeleteBegin(t)
  BY <1>1
     DEF DeleteBegin, TypeInv, TypeOK, Fits, ProcessOf, storeVars, attemptVars, watchdogVars
<1>2. CASE DeleteRemove(t)
  BY <1>2 DEF DeleteRemove, TypeInv, TypeOK, Fits, ProcessOf, attemptVars, watchdogVars
<1>3. CASE DeleteDrop(t)
  BY <1>3 DEF DeleteDrop, DropWatchdog, TypeInv, TypeOK, ProcessOf, storeVars, attemptVars
<1>4. CASE DeleteEnd(t)
  BY <1>4 DEF DeleteEnd, TypeInv, TypeOK, ProcessOf, storeVars, attemptVars, watchdogVars
<1>5. CASE ReloadLock(t)
  BY <1>5
     DEF ReloadLock, Acquire, TypeInv, TypeOK, ProcessOf, storeVars, attemptVars,
         watchdogVars
<1>6. CASE ReloadCheck(t)
  BY <1>6 DEF ReloadCheck, TypeInv, TypeOK, ProcessOf, storeVars, attemptVars, watchdogVars
<1>7. CASE ReloadVerify(t)
  BY <1>7
     DEF ReloadVerify, TypeInv, TypeOK, ProcessOf, storeVars, attemptVars, watchdogVars
<1>8. CASE ReloadWrite(t)
  BY <1>8 DEF ReloadWrite, TypeInv, TypeOK, ProcessOf, storeVars, attemptVars, watchdogVars
<1>9. CASE ReloadPush(t)
  BY <1>9 DEF ReloadPush, TypeInv, TypeOK, ProcessOf, storeVars, attemptVars, watchdogVars
<1>10. CASE ReloadUnlock(t)
  BY <1>10
     DEF ReloadUnlock, Release, TypeInv, TypeOK, ProcessOf, storeVars, attemptVars,
         watchdogVars
<1>11. CASE CoreBegin(t)
  BY <1>11 DEF CoreBegin, TypeInv, TypeOK, ProcessOf, storeVars, attemptVars, watchdogVars
<1>12. CASE CoreEnd(t)
  BY <1>12 DEF CoreEnd, TypeInv, TypeOK, ProcessOf, storeVars, attemptVars, watchdogVars
<1>13. CASE EditGuard(t)
  BY <1>13 DEF EditGuard, TypeInv, TypeOK, ProcessOf, storeVars, attemptVars, watchdogVars
<1>14. CASE EditStore(t)
  BY <1>14 DEF EditStore, TypeInv, TypeOK, ProcessOf, attemptVars, watchdogVars
<1> QED BY <1>1, <1>2, <1>3, <1>4, <1>5, <1>6, <1>7, <1>8, <1>9, <1>10, <1>11, <1>12, <1>13,
           <1>14 DEF RequestStep

(* The same of runScheduledRestart and watchHealthyRun.                    *)
LEMMA WatchdogTyped ==
  ASSUME TypeInv, NEW b \in Backoffs, WatchdogStep(b), Moves(b)
  PROVE  TypeOK' /\ \A p \in Procs : ProcessOf(p)'
<1> USE DEF Moves
<1>1. CASE Wake(b)
  BY <1>1 DEF Wake, TypeInv, TypeOK, ProcessOf, storeVars, attemptVars
<1>2. CASE CheckEligible(b)
  BY <1>2
     DEF CheckEligible, TypeInv, TypeOK, ProcessOf, storeVars, attemptVars, watchdogVars
<1>3. CASE Rearm(b)
  BY <1>3
     DEF Rearm, Arm, NotArmed, TypeInv, TypeOK, Fits, ProcessOf, storeVars, attemptVars
<1>4. CASE Relaunched(b)
  BY <1>4 DEF Relaunched, TypeInv, TypeOK, ProcessOf, storeVars, attemptVars, watchdogVars
<1>5. CASE WatchHealthy(b)
  BY <1>5 DEF WatchHealthy, TypeInv, TypeOK, ProcessOf, storeVars, attemptVars
<1> QED BY <1>1, <1>2, <1>3, <1>4, <1>5 DEF WatchdogStep

(* Types of variables and of the moving goroutine are the types of all.    *)
LEMMA MovesType ==
  ASSUME TypeInv, NEW t \in Threads, Moves(t), TypeOK', \A p \in Procs : ProcessOf(p)'
  PROVE  TypeInv'
<1>1. ASSUME NEW u \in Threads \ {t} PROVE Fits(u, pc'[u], g'[u])
  <2>1. Fits(u, pc[u], g[u]) /\ g'[u] \in LocalRecord
    BY DEF TypeInv, Moves
  <2> QED BY <2>1 DEF Moves, Frame, Fits
<1> QED BY <1>1 DEF Moves, TypeInv

(* The steps of an exit goroutine keep the types.                          *)
LEMMA ExitTyped ==
  ASSUME TypeInv, NEW p \in Procs, ExitStep(p)
  PROVE  TypeInv'
<1>1. CASE Reap(p)
  <2>1. procs' \in [Ids -> Procs \cup {None}]
    BY <1>1 DEF Reap, TypeInv, TypeOK
  <2> DEFINE s == IF proc[p].stopRequested THEN "exited" ELSE "crashed"
  <2>2. proc' \in [Procs -> ProcRecord] /\ \A q \in Procs : ProcessOf(q)'
    <3> DEFINE r == [proc[p] EXCEPT !.st = s, !.listens = FALSE]
    <3>1. s \in ProcStates /\ proc[p] \in ProcRecord /\ ProcessOf(p) /\ proc[p].st # "free"
      BY <1>1 DEF Reap, ProcStates, TypeInv, TypeOK
    <3>2. proc' = [proc EXCEPT ![p] = r]
      BY <1>1 DEF Reap
    <3> HIDE DEF s
    <3>3. r \in ProcRecord /\ r.id = proc[p].id /\ r.port = proc[p].port
      BY <3>1 DEF ProcRecord
    <3> HIDE DEF r
    <3> QED BY <3>1, <3>2, <3>3, ProcTyped DEF ProcessOf
  <2> QED BY <1>1, <2>1, <2>2
             DEF Reap, TypeInv, TypeOK, storeVars, attemptVars, watchdogVars
<1>2. CASE CloseDone(p)
  <2>1. CASE proc' = [proc EXCEPT ![p] = NoProc]
    BY <1>2, <2>1, NoProcTyped, ProcTyped
       DEF CloseDone, TypeInv, TypeOK, storeVars, attemptVars, watchdogVars
  <2>2. CASE proc[p].st = "crashed" /\ proc' = [proc EXCEPT ![p].st = "closed"]
    <3>1. "closed" \in ProcStates \ {"free"} /\ proc[p].st # "free"
      BY <2>2 DEF ProcStates
    <3>2. proc' \in [Procs -> ProcRecord] /\ \A q \in Procs : ProcessOf(q)'
      BY <2>2, <3>1, StateTyped
    <3> QED BY <1>2, <3>2
           DEF CloseDone, TypeInv, TypeOK, storeVars, attemptVars, watchdogVars
  <2> QED BY <1>2, <2>1, <2>2 DEF CloseDone
<1>3. CASE MaybeAutoRestart(p)
  <2>1. proc' \in [Procs -> ProcRecord] /\ \A q \in Procs : ProcessOf(q)'
    <3>1. CASE proc' = [proc EXCEPT ![p].st = "arming"]
      <4>1. "arming" \in ProcStates \ {"free"} /\ proc[p].st # "free"
        BY <1>3 DEF MaybeAutoRestart, ProcStates
      <4> QED BY <3>1, <4>1, StateTyped
    <3>2. CASE proc' = [proc EXCEPT ![p] = NoProc]
      BY <3>2, NoProcTyped, ProcTyped
    <3> QED BY <1>3, <3>1, <3>2 DEF MaybeAutoRestart
  <2> QED BY <1>3, <2>1
             DEF MaybeAutoRestart, TypeInv, TypeOK, storeVars, attemptVars, watchdogVars
<1>4. CASE ScheduleRestart(p)
  <2>1. proc' \in [Procs -> ProcRecord] /\ \A q \in Procs : ProcessOf(q)'
    BY <1>4, NoProcTyped, ProcTyped DEF ScheduleRestart
  <2>2. proc[p].id \in Ids
    BY <1>4 DEF ScheduleRestart, TypeInv, ProcessOf
  <2>3. CASE NotArmed(proc[p].id) /\ UNCHANGED <<pc, g>>
    BY <1>4, <2>1, <2>2, <2>3
       DEF ScheduleRestart, NotArmed, TypeInv, TypeOK, storeVars, attemptVars
  <2>4. ASSUME NEW b \in Backoffs, pc[b] = "idle", Arm(proc[p].id, b) PROVE TypeInv'
    <3>1. Moves(b)
      BY <2>2, <2>4, ArmedFits
    <3>2. UNCHANGED <<storeVars, procs, attemptVars, deleting, coreUpdating, lifecycle, runtimeConfig>>
      BY <1>4 DEF ScheduleRestart
    <3>3. /\ watchdogs' \subseteq Ids /\ userStopped' \subseteq watchdogs' /\ stopAcked' \subseteq Ids
          /\ consecutive' \in [Ids -> Nat]
          /\ generation' \in [Ids -> Backoffs \cup {None}]
          /\ cancelPending' \in [Ids -> Backoffs \cup {None}]
      BY <2>2, <2>4 DEF Arm, TypeInv, TypeOK
    <3>4. TypeOK'
      BY <2>1, <3>1, <3>2, <3>3 DEF Moves, TypeInv, TypeOK, storeVars, attemptVars
    <3> QED BY <2>1, <3>1, <3>4, MovesType
  <2> QED BY <1>4, <2>3, <2>4 DEF ScheduleRestart
<1> QED BY <1>1, <1>2, <1>3, <1>4 DEF ExitStep

(* The steps of the environment keep the types.                            *)
LEMMA EnvironmentTyped ==
  ASSUME TypeInv, Environment
  PROVE  TypeInv'
<1>1. ASSUME NEW t \in Requests, NEW op \in Operations, NEW i \in Ids, Request(t, op, i)
      PROVE  TypeInv'
  <2> DEFINE r == [IdleLocals EXCEPT !.op = op, !.id = i]
  <2>1. r \in LocalRecord /\ r.id = i
    <3>1. [IdleLocals EXCEPT !.op = op] \in LocalRecord
      BY IdleTyped, FieldTyped, OperationsAssumption
    <3>2. r \in LocalRecord
      BY <3>1, FieldTyped
    <3> QED BY <3>2 DEF IdleLocals
  <2>2. op \in AllOperations
    BY OperationsAssumption
  <2>3. g' = [g EXCEPT ![t] = r] /\ pc' = [pc EXCEPT ![t] = FirstStep(op)]
    BY <1>1 DEF Request
  <2> HIDE DEF r
  <2>4. Fits(t, FirstStep(op), r) /\ Carries(t, FirstStep(op), r)
    BY <1>1, <2>1, <2>2, NoneAssumption
       DEF Request, Carries, FirstStep, AllOperations, Fits, Steps, PreRegister, Stopping,
           OtherSteps, HasPort, HasProc, Attempting, Holding, WatchdogOnly
  <2>5. Moves(t)
    BY <2>3, <2>4, Move
  <2>6. TypeOK' /\ \A p \in Procs : ProcessOf(p)'
    BY <1>1, <2>5
       DEF Request, Moves, TypeInv, TypeOK, ProcessOf, storeVars, attemptVars, watchdogVars
  <2> QED BY <2>5, <2>6, MovesType
<1>2. ASSUME NEW t \in Requests, Expire(t)
      PROVE  TypeInv'
  <2> DEFINE r == [g[t] EXCEPT !.expired = TRUE]
  <2>1. g[t] \in LocalRecord /\ Fits(t, pc[t], g[t]) /\ pc \in [Threads -> Steps]
    BY DEF TypeInv, TypeOK
  <2>2. r \in LocalRecord /\ r.id = g[t].id /\ r.reserved = g[t].reserved /\ r.ps = g[t].ps /\ r.cancelled = g[t].cancelled
    <3>1. r \in LocalRecord
      BY <2>1, FieldTyped
    <3>2. r.id = g[t].id /\ r.reserved = g[t].reserved /\ r.ps = g[t].ps /\ r.cancelled = g[t].cancelled
      BY <2>1 DEF LocalRecord
    <3> QED BY <3>1, <3>2
  <2>3. g' = [g EXCEPT ![t] = r] /\ pc' = [pc EXCEPT ![t] = pc[t]]
    BY <1>2, <2>1 DEF Expire
  <2> HIDE DEF r
  <2>4. Fits(t, pc[t], r) /\ Carries(t, pc[t], r)
    BY <2>1, <2>2 DEF Fits, Carries
  <2>5. Moves(t)
    BY <2>3, <2>4, Move
  <2>6. TypeOK' /\ \A p \in Procs : ProcessOf(p)'
    BY <1>2, <2>5
       DEF Expire, Moves, TypeInv, TypeOK, ProcessOf, storeVars, attemptVars, watchdogVars
  <2> QED BY <2>5, <2>6, MovesType
<1>3. ASSUME NEW i \in Ids, Create(i) \/ EditAutoRestart(i)
      PROVE  TypeInv'
  BY <1>3
     DEF Create, EditAutoRestart, TypeInv, TypeOK, ProcessOf, attemptVars, watchdogVars
<1>4. ASSUME NEW p \in Procs, Die(p)
      PROVE  TypeInv'
  <2>1. proc' \in [Procs -> ProcRecord] /\ \A q \in Procs : ProcessOf(q)'
    <3>1. "dead" \in ProcStates \ {"free"} /\ proc[p].st # "free" /\ proc' = [proc EXCEPT ![p].st = "dead"]
      BY <1>4 DEF Die, ProcStates
    <3> QED BY <3>1, StateTyped
  <2> QED BY <1>4, <2>1 DEF Die, TypeInv, TypeOK, storeVars, attemptVars, watchdogVars
<1>5. ASSUME NEW p \in Procs, Listen(p)
      PROVE  TypeInv'
  <2>1. proc' \in [Procs -> ProcRecord] /\ \A q \in Procs : ProcessOf(q)'
    <3> DEFINE r == [proc[p] EXCEPT !.listens = TRUE]
    <3>1. proc[p] \in ProcRecord /\ ProcessOf(p) /\ proc[p].st # "free"
      BY <1>5 DEF Listen, TypeInv, TypeOK
    <3>2. proc' = [proc EXCEPT ![p] = r]
      BY <1>5 DEF Listen
    <3>3. r \in ProcRecord /\ r.id = proc[p].id /\ r.port = proc[p].port
      BY <3>1 DEF ProcRecord
    <3> HIDE DEF r
    <3> QED BY <3>1, <3>2, <3>3, ProcTyped DEF ProcessOf
  <2> QED BY <1>5, <2>1 DEF Listen, TypeInv, TypeOK, storeVars, attemptVars, watchdogVars
<1> QED BY <1>1, <1>2, <1>3, <1>4, <1>5 DEF Environment

(* A new manager is well typed.                                            *)
LEMMA InitTyped == Init => TypeInv
<1> SUFFICES ASSUME Init PROVE TypeInv
  OBVIOUS
<1>1. \A t \in Threads : pc[t] = "idle" /\ g[t] = IdleLocals
  BY DEF Init
<1>2. \A t \in Threads : Fits(t, pc[t], g[t])
  BY <1>1, IdleTyped
     DEF Fits, Steps, OtherSteps, HasPort, HasProc, Attempting, Holding, WatchdogOnly
<1>3. g \in [Threads -> LocalRecord] /\ pc \in [Threads -> Steps]
  BY IdleTyped DEF Init, Steps, OtherSteps
<1>4. proc \in [Procs -> ProcRecord] /\ \A p \in Procs : ProcessOf(p)
  BY NoProcTyped DEF Init, ProcessOf
<1> QED BY <1>2, <1>3, <1>4 DEF Init, TypeInv, TypeOK

(* Every step keeps the types.                                             *)
LEMMA NextTyped == TypeInv /\ [Next]_vars => TypeInv'
<1> SUFFICES ASSUME TypeInv, [Next]_vars PROVE TypeInv'
  OBVIOUS
<1>1. ASSUME NEW t \in Threads, StartStep(t) PROVE TypeInv'
  BY <1>1, StartMoves, StartTyped, MovesType
<1>2. ASSUME NEW t \in Requests, StopStep(t) PROVE TypeInv'
  BY <1>2, StopMoves, StopTyped, MovesType
<1>3. ASSUME NEW t \in Requests, RequestStep(t) PROVE TypeInv'
  BY <1>3, RequestMoves, RequestTyped, MovesType
<1>4. ASSUME NEW b \in Backoffs, WatchdogStep(b) PROVE TypeInv'
  BY <1>4, WatchdogMoves, WatchdogTyped, MovesType
<1>5. ASSUME NEW p \in Procs, ExitStep(p) PROVE TypeInv'
  BY <1>5, ExitTyped
<1>6. CASE Environment
  BY <1>6, EnvironmentTyped
<1>7. CASE UNCHANGED vars
  BY <1>7 DEF vars, storeVars, attemptVars, watchdogVars, TypeInv, TypeOK, ProcessOf
<1> QED BY <1>1, <1>2, <1>3, <1>4, <1>5, <1>6, <1>7 DEF Next

(* Every reachable state is well typed, and a goroutine always has the      *)
(* instance, the port and the process that its step works on.               *)
THEOREM TypesHold == Spec => []TypeInv
  BY InitTyped, NextTyped, PTL DEF Spec
=============================================================================
