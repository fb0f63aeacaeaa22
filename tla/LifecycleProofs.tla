-------------------------- MODULE LifecycleProofs --------------------------
(*****************************************************************************)
(* The inductive invariant of Lifecycle, the safety properties that follow   *)
(* from it, the one of the backoffs, which is inductive by itself, what no   *)
(* step does to a crash that is not answered yet, and the proof that         *)
(* Lifecycle implements Supervisor.                                          *)
(*****************************************************************************)
EXTENDS LifecycleSteps

USE DEF At, Goto, Finish, Fail, Threads

(* The inductive invariant.  OneProcess and CoreGate follow from it; the   *)
(* other properties are parts of it.                                       *)
IInv ==
  /\ TypeInv
  /\ AttemptsAccounted
  /\ MutexHeld
  /\ Registered
  /\ NothingRegistered
  /\ Written
  /\ Reloaded
  /\ WatchdogYieldsToStop

(* Steps that move no goroutine and start no process.                       *)
Quiet ==
  /\ UNCHANGED <<pc, lifecycle, starting, starts, reservedPorts, coreUpdating, runtimeConfig, userStopped>>
  /\ \A t \in Threads : /\ g'[t].id = g[t].id /\ g'[t].ps = g[t].ps
                        /\ g'[t].reserved = g[t].reserved /\ g'[t].cancelled = g[t].cancelled
  /\ \A i \in Ids : procs'[i] \in {procs[i], None}
  /\ \A p \in Procs : proc'[p].st = "alive" =>
       proc[p].st = "alive" /\ proc'[p].id = proc[p].id /\ proc'[p].port = proc[p].port

(* What Quiet keeps of the invariant, beside Registered.                   *)
LEMMA QuietKeeps ==
  ASSUME IInv, Quiet, TypeInv', Registered'
  PROVE  IInv'
<1>1. AttemptsAccounted'
  <2>1. /\ \A i \in Ids : starts[i] # None => starts[i] \in Threads
        /\ \A n \in Ports : reservedPorts[n] # None => reservedPorts[n] \in Ids
    BY DEF IInv, TypeInv, TypeOK
  <2> QED BY <2>1 DEF IInv, Quiet, AttemptsAccounted
<1>2. MutexHeld'
  <2>1. \A i \in Ids : lifecycle[i] # None => lifecycle[i] \in Threads
    BY DEF IInv, TypeInv, TypeOK
  <2> QED BY <2>1 DEF IInv, Quiet, MutexHeld, MutexInUse
<1>3. NothingRegistered'
  BY DEF IInv, Quiet, NothingRegistered
<1>4. Written'
  BY DEF IInv, Quiet, Written
<1>5. Reloaded'
  BY DEF IInv, Quiet, Reloaded, Reaches
<1>6. WatchdogYieldsToStop'
  BY DEF IInv, Quiet, WatchdogYieldsToStop
<1> QED BY <1>1, <1>2, <1>3, <1>4, <1>5, <1>6 DEF IInv

(* A quiet step that reaps nothing keeps Registered.                       *)
LEMMA QuietRegistered ==
  ASSUME TypeInv, Registered, Quiet, Alike, UNCHANGED procs
  PROVE  Registered'
<1>1. \A t \in Threads : pc[t] = "start_publish" => g[t].ps \in Procs
  BY DEF TypeInv, Fits, HasProc
<1>2. \A i \in Ids : procs[i] # None => procs[i] \in Procs
  BY DEF TypeInv, TypeOK
<1>3. (\A p \in Procs : Unreaped(p) => \/ procs[proc[p].id] = p
                                       \/ \E t \in Threads : Publishing(t, p))'
  BY DEF Registered, Quiet, Alike, Publishing
<1>4. (\A t \in Threads : pc[t] \in Preparing => procs[g[t].id] = None)'
  BY DEF Registered, Quiet
<1>5. (\A t \in Threads : pc[t] = "start_publish" => Unreaped(g[t].ps) /\ proc[g[t].ps].id = g[t].id)'
  BY <1>1 DEF Registered, Quiet, Alike
<1>6. (\A i \in Ids : procs[i] # None => Unreaped(procs[i]) /\ proc[procs[i]].id = i)'
  BY <1>2 DEF Registered, Quiet, Alike
<1> QED BY <1>3, <1>4, <1>5, <1>6 DEF Registered

(* A crash, or a mihomo that comes to listen.                              *)
LEMMA DyingQuiet ==
  ASSUME TypeInv, NEW p \in Procs, Die(p) \/ Listen(p)
  PROVE  Quiet /\ Alike /\ UNCHANGED procs
<1>1. UNCHANGED <<pc, g, lifecycle, starting, starts, reservedPorts, coreUpdating, runtimeConfig, userStopped, procs>>
  BY DEF Die, Listen, attemptVars, watchdogVars
<1>2. ASSUME Die(p) PROVE Alike
  BY <1>2, AlikeDying DEF Die, ProcStates
<1>3. ASSUME Listen(p) PROVE Alike
  <2>1. proc'[p].st = proc[p].st /\ proc'[p].id = proc[p].id /\ proc'[p].port = proc[p].port
    BY <1>3 DEF Listen, TypeInv, TypeOK, ProcRecord
  <2>2. \A q \in Procs \ {p} : proc'[q] = proc[q]
    BY <1>3 DEF Listen, TypeInv, TypeOK
  <2> QED BY <2>1, <2>2 DEF Alike, Unreaped
<1> QED BY <1>1, <1>2, <1>3 DEF Quiet, Alike, Unreaped

(* The exit goroutine after it reaped the process.                         *)
LEMMA ClosingQuiet ==
  ASSUME TypeInv, NEW p \in Procs, CloseDone(p) \/ MaybeAutoRestart(p)
  PROVE  Quiet /\ Alike /\ UNCHANGED procs
<1>1. UNCHANGED <<pc, g, lifecycle, starting, starts, reservedPorts, coreUpdating, runtimeConfig, userStopped, procs>>
  BY DEF CloseDone, MaybeAutoRestart, attemptVars, watchdogVars
<1>2. proc \in [Procs -> ProcRecord] /\ proc[p].st \notin {"alive", "dead"}
  BY DEF CloseDone, MaybeAutoRestart, TypeInv, TypeOK
<1>3. proc'[p].st \notin {"alive", "dead"} /\ \A q \in Procs \ {p} : proc'[q] = proc[q]
  BY <1>2 DEF CloseDone, MaybeAutoRestart, NoProc, ProcRecord
<1>4. Alike
  BY <1>2, <1>3 DEF Alike, Unreaped
<1> QED BY <1>1, <1>4 DEF Quiet, Alike, Unreaped

(* The exit goroutine removes the process it reaped from procs, which held *)
(* it.                                                                     *)
LEMMA ReapQuiet ==
  ASSUME TypeInv, AttemptsAccounted, Registered, NEW p \in Procs, Reap(p)
  PROVE  Quiet /\ Registered'
<1> DEFINE i == proc[p].id
<1>1. UNCHANGED <<pc, g, lifecycle, starting, starts, reservedPorts, coreUpdating, runtimeConfig, userStopped>>
  BY DEF Reap, attemptVars, watchdogVars
<1>2. /\ proc \in [Procs -> ProcRecord] /\ proc[p].st = "dead" /\ i \in Ids
      /\ procs \in [Ids -> Procs \cup {None}]
  BY DEF Reap, TypeInv, TypeOK, ProcessOf
<1>3. proc'[p].st \notin {"alive", "dead"} /\ \A q \in Procs \ {p} : proc'[q] = proc[q]
  BY <1>2 DEF Reap, ProcRecord
<1>4. procs[i] = p
  BY <1>2 DEF Reap, Registered, Unreaped, Publishing
<1>5. procs' = [procs EXCEPT ![i] = None]
  BY <1>4 DEF Reap
<1> HIDE DEF i
<1>6. Quiet
  BY <1>1, <1>2, <1>3, <1>5 DEF Quiet
<1>7. \A t \in Threads : pc[t] = "start_publish" => g[t].ps \in Procs /\ g[t].ps # p
  BY DEF TypeInv, Fits, HasProc, Reap
<1>8. (\A q \in Procs : Unreaped(q) => \/ procs[proc[q].id] = q
                                       \/ \E t \in Threads : Publishing(t, q))'
  <2> SUFFICES ASSUME NEW q \in Procs \ {p}, Unreaped(q), procs'[proc[q].id] # q
               PROVE  \E t \in Threads : Publishing(t, q)'
    BY <1>3 DEF Unreaped
  <2>1. procs[proc[q].id] # q
    <3>1. CASE proc[q].id = i
      BY <1>4, <3>1
    <3>2. CASE proc[q].id # i
      BY <1>2, <1>5, <3>2 DEF ProcRecord
    <3> QED BY <3>1, <3>2
  <2>2. PICK t \in Threads : Publishing(t, q)
    BY <2>1 DEF Registered
  <2> QED BY <1>1, <1>3, <2>2 DEF Publishing
<1>9. (\A t \in Threads : pc[t] \in Preparing => procs[g[t].id] = None)'
  BY <1>1, <1>2, <1>5 DEF Registered
<1>10. (\A t \in Threads : pc[t] = "start_publish" => Unreaped(g[t].ps) /\ proc[g[t].ps].id = g[t].id)'
  BY <1>1, <1>3, <1>7 DEF Registered, Unreaped
<1>11. (\A j \in Ids : procs[j] # None => Unreaped(procs[j]) /\ proc[procs[j]].id = j)'
  <2> SUFFICES ASSUME NEW j \in Ids \ {i}, procs[j] # None
               PROVE  Unreaped(procs[j])' /\ proc'[procs[j]].id = j
    BY <1>2, <1>5
  <2>1. procs[j] \in Procs /\ Unreaped(procs[j]) /\ proc[procs[j]].id = j
    BY <1>2 DEF Registered
  <2>2. procs[j] # p
    BY <2>1 DEF i
  <2> QED BY <1>2, <1>3, <1>5, <2>1, <2>2 DEF Unreaped
<1> QED BY <1>6, <1>8, <1>9, <1>10, <1>11 DEF Registered

(* The first steps of a request and of a backoff goroutine.                *)
Entering == {"start", "stop", "delete", "reload", "core", "edit", "sleeping"}

(* A goroutine that begins its work.                                       *)
LEMMA EntersKeeps ==
  ASSUME IInv, TypeInv', NEW t \in Threads, Moves(t), pc[t] = "idle", pc'[t] \in Entering,
         UNCHANGED <<lifecycle, starting, starts, reservedPorts, coreUpdating, runtimeConfig,
                     userStopped, procs>>, Alike
  PROVE  IInv'
<1>0. TypeInv /\ MutexHeld /\ Written /\ Registered
  BY DEF IInv
<1>1. AttemptsAccounted'
  BY AttemptsKept DEF IInv, Entering, Attempting, Holding, attemptVars
<1>2. MutexHeld'
  BY MutexKept DEF IInv, Entering, HoldsLock, Holding, StopWaiting, Reloading
<1>3. NothingRegistered'
  BY NothingRegisteredKept DEF IInv
<1>4. Written'
  BY <1>0, WrittenKept DEF Entering, Trusting
<1>5. Reloaded'
  BY ReloadedKept DEF IInv, Entering
<1>6. WatchdogYieldsToStop'
  BY YieldsKept DEF IInv, Entering, Launching
<1>7. Registered'
  BY RegisteredKept DEF IInv, Entering, Preparing
<1> QED BY <1>1, <1>2, <1>3, <1>4, <1>5, <1>6, <1>7 DEF IInv

(* The exit goroutine keeps the invariant.                                 *)
LEMMA ExitKeeps ==
  ASSUME IInv, TypeInv', NEW p \in Procs, ExitStep(p)
  PROVE  IInv'
<1>1. CASE Reap(p)
  BY <1>1, ReapQuiet, QuietKeeps DEF IInv
<1>2. CASE CloseDone(p) \/ MaybeAutoRestart(p)
  BY <1>2, ClosingQuiet, QuietRegistered, QuietKeeps DEF IInv
<1>3. CASE ScheduleRestart(p)
  <2>1. /\ UNCHANGED <<lifecycle, starting, starts, reservedPorts, coreUpdating, runtimeConfig, procs>>
        /\ proc[p].st = "arming" /\ proc' = [proc EXCEPT ![p] = NoProc] /\ proc \in [Procs -> ProcRecord]
        /\ proc[p].id \in Ids
    BY <1>3 DEF ScheduleRestart, attemptVars, IInv, TypeInv, TypeOK, ProcessOf
  <2>2. Alike
    <3>1. proc'[p].st = "free" /\ \A q \in Procs \ {p} : proc'[q] = proc[q]
      BY <2>1 DEF NoProc
    <3> QED BY <2>1, <3>1 DEF Alike, Unreaped
  <2>3. CASE NotArmed(proc[p].id) /\ UNCHANGED <<pc, g>>
    <3>1. Quiet
      BY <2>1, <2>2, <2>3 DEF Quiet, Alike, NotArmed
    <3> QED BY <2>1, <2>2, <3>1, QuietRegistered, QuietKeeps DEF IInv
  <2>4. CASE \E b \in Backoffs : At(b, "idle") /\ Arm(proc[p].id, b)
    <3>1. PICK b \in Backoffs : At(b, "idle") /\ Arm(proc[p].id, b)
      BY <2>4
    <3>2. pc \in [Threads -> Steps] /\ userStopped' = userStopped /\ pc[b] = "idle" /\ pc'[b] = "sleeping"
      BY <3>1 DEF Arm, IInv, TypeInv, TypeOK
    <3>3. Moves(b)
      BY <2>1, <3>1, <3>2, ArmedFits DEF IInv
    <3> QED BY <2>1, <2>2, <3>2, <3>3, EntersKeeps DEF Entering
  <2> QED BY <1>3, <2>3, <2>4 DEF ScheduleRestart
<1> QED BY <1>1, <1>2, <1>3 DEF ExitStep

(* The environment keeps the invariant.                                    *)
LEMMA EnvironmentKeeps ==
  ASSUME IInv, TypeInv', Environment
  PROVE  IInv'
<1>1. ASSUME NEW t \in Requests, NEW op \in Operations, NEW i \in Ids, Request(t, op, i)
      PROVE  IInv'
  <2>1. /\ pc[t] = "idle" /\ pc'[t] \in Entering
        /\ UNCHANGED <<lifecycle, starting, starts, reservedPorts, coreUpdating, runtimeConfig,
                       userStopped, procs, proc>>
    BY <1>1, OperationsAssumption
       DEF Request, FirstStep, AllOperations, Entering, attemptVars, watchdogVars, TypeInv,
           TypeOK
  <2>2. Moves(t)
    <3> DEFINE r == [IdleLocals EXCEPT !.op = op, !.id = i]
    <3>1. r \in LocalRecord /\ r.id = i
      <4>1. [IdleLocals EXCEPT !.op = op] \in LocalRecord
        BY IdleTyped, FieldTyped, OperationsAssumption
      <4>2. r \in LocalRecord
        BY <4>1, FieldTyped
      <4> QED BY <4>2 DEF IdleLocals
    <3>2. g' = [g EXCEPT ![t] = r] /\ pc' = [pc EXCEPT ![t] = FirstStep(op)]
      BY <1>1 DEF Request
    <3>3. op \in AllOperations
      BY OperationsAssumption
    <3> HIDE DEF r
    <3>4. Fits(t, FirstStep(op), r) /\ Carries(t, FirstStep(op), r)
      BY <2>1, <3>1, <3>3, NoneAssumption
         DEF Carries, FirstStep, AllOperations, Fits, Steps, PreRegister, Stopping,
             OtherSteps, HasPort, HasProc, Attempting, Holding, WatchdogOnly
    <3> QED BY <3>2, <3>4, Move DEF IInv
  <2> QED BY <2>1, <2>2, AlikeSame, EntersKeeps
<1>2. ASSUME NEW t \in Requests, Expire(t)
      PROVE  IInv'
  <2>1. g \in [Threads -> LocalRecord]
    BY DEF IInv, TypeInv, TypeOK
  <2>2. \A u \in Threads : /\ g'[u].id = g[u].id /\ g'[u].ps = g[u].ps
                           /\ g'[u].reserved = g[u].reserved /\ g'[u].cancelled = g[u].cancelled
    BY <1>2, <2>1 DEF Expire, LocalRecord
  <2>3. Quiet /\ UNCHANGED <<procs, proc>>
    BY <1>2, <2>2 DEF Expire, Quiet, attemptVars, watchdogVars
  <2> QED BY <2>3, AlikeSame, QuietRegistered, QuietKeeps DEF IInv
<1>3. ASSUME NEW i \in Ids, Create(i) \/ EditAutoRestart(i)
      PROVE  IInv'
  <2>1. Quiet /\ UNCHANGED <<procs, proc>>
    BY <1>3 DEF Create, EditAutoRestart, Quiet, attemptVars, watchdogVars
  <2> QED BY <2>1, AlikeSame, QuietRegistered, QuietKeeps DEF IInv
<1>4. ASSUME NEW p \in Procs, Die(p) \/ Listen(p)
      PROVE  IInv'
  BY <1>4, DyingQuiet, QuietRegistered, QuietKeeps DEF IInv
<1> QED BY <1>1, <1>2, <1>3, <1>4 DEF Environment

(* A new manager satisfies the invariant.                                  *)
LEMMA InitHolds == Init => IInv
<1> SUFFICES ASSUME Init PROVE IInv
  OBVIOUS
<1>1. /\ \A t \in Threads : pc[t] = "idle"
      /\ \A i \in Ids : procs[i] = None /\ starts[i] = None
      /\ \A n \in Ports : reservedPorts[n] = None
      /\ \A p \in Procs : proc[p].st = "free"
      /\ starting = {}
  BY DEF Init, NoProc
<1>2. AttemptsAccounted
  BY <1>1 DEF AttemptsAccounted, Attempting, Holding
<1>3. MutexHeld /\ Written /\ Reloaded
  BY <1>1 DEF Init, MutexHeld, MutexInUse, HoldsLock, Holding, StopWaiting, Reloading, Written, Trusting,
             Reloaded
<1>4. Registered
  BY <1>1 DEF Registered, Unreaped, Preparing
<1>5. NothingRegistered /\ WatchdogYieldsToStop
  BY <1>1 DEF NothingRegistered, WatchdogYieldsToStop
<1> QED BY <1>2, <1>3, <1>4, <1>5, InitTyped DEF IInv

(* Every step keeps the invariant.                                         *)
LEMMA NextHolds == IInv /\ [Next]_vars => IInv'
<1> SUFFICES ASSUME IInv, [Next]_vars PROVE IInv'
  OBVIOUS
<1>0. TypeInv'
  BY NextTyped DEF IInv
<1>1. ASSUME NEW t \in Threads, StartStep(t) PROVE IInv'
  BY <1>0, <1>1, StartAttempts, StartMutex, StartRegistered, StartCore, StartWritten,
     StartReloaded, StartYields DEF IInv
<1>2. ASSUME NEW t \in Requests, StopStep(t) PROVE IInv'
  BY <1>0, <1>2, StopAttempts, StopMutex, StopRegistered, StopCore, StopWritten,
     StopReloaded, StopYields DEF IInv
<1>3. ASSUME NEW t \in Requests, RequestStep(t) PROVE IInv'
  BY <1>0, <1>3, RequestAttempts, RequestMutex, RequestRegistered, RequestCore,
     RequestWritten, RequestReloaded, RequestYields DEF IInv
<1>4. ASSUME NEW b \in Backoffs, WatchdogStep(b) PROVE IInv'
  BY <1>0, <1>4, WatchdogAttempts, WatchdogMutex, WatchdogRegistered, WatchdogCore,
     WatchdogWritten, WatchdogReloaded, WatchdogYields DEF IInv
<1>5. ASSUME NEW p \in Procs, ExitStep(p) PROVE IInv'
  BY <1>0, <1>5, ExitKeeps
<1>6. CASE Environment
  BY <1>0, <1>6, EnvironmentKeeps
<1>7. CASE UNCHANGED vars
  <2>1. Quiet /\ UNCHANGED <<procs, proc>>
    BY <1>7 DEF vars, Quiet, attemptVars, watchdogVars
  <2> QED BY <1>0, <2>1, AlikeSame, QuietRegistered, QuietKeeps DEF IInv
<1> QED BY <1>1, <1>2, <1>3, <1>4, <1>5, <1>6, <1>7 DEF Next

(* In every reachable state of the manager, whatever the number of         *)
(* instances, requests, backoffs and processes, the invariant holds.       *)
THEOREM InvariantHolds == Spec => []IInv
  BY InitHolds, NextHolds, PTL DEF Spec

(* The start that publishes a process is its instance's attempt.           *)
LEMMA PublisherIsStarting ==
  ASSUME IInv, NEW t \in Threads, NEW p \in Procs, Publishing(t, p)
  PROVE  starts[g[t].id] = t /\ g[t].id \in starting /\ g[t].id \in Ids
  BY NoneAssumption
     DEF IInv, Publishing, AttemptsAccounted, Attempting, Holding, TypeInv, Fits

(* The invariant leaves no room for a second process.                      *)
LEMMA OneUnreaped == IInv => OneProcess
<1> SUFFICES ASSUME IInv, NEW p \in Procs, NEW q \in Procs, Unreaped(p), Unreaped(q), p # q,
                    proc[p].id = proc[q].id
             PROVE  FALSE
  BY DEF OneProcess
<1>1. CASE \E t \in Threads : Publishing(t, p)
  <2>1. PICK t \in Threads : Publishing(t, p)
    BY <1>1
  <2>2. procs[proc[q].id] = None
    BY <2>1 DEF IInv, Registered, Publishing, Preparing
  <2>3. PICK u \in Threads : Publishing(u, q)
    BY <2>2, NoneAssumption DEF IInv, Registered
  <2> QED BY <2>1, <2>3, PublisherIsStarting DEF Publishing
<1>2. CASE procs[proc[p].id] = p
  <2>1. PICK u \in Threads : Publishing(u, q)
    BY <1>2 DEF IInv, Registered
  <2> QED BY <1>2, <2>1, NoneAssumption DEF IInv, Registered, Publishing, Preparing
<1> QED BY <1>1, <1>2 DEF IInv, Registered

(* The invariant leaves no process beside a core update.                   *)
LEMMA NothingUnreaped == IInv => CoreGate
<1> SUFFICES ASSUME IInv, coreUpdating, NEW p \in Procs, Unreaped(p)
             PROVE  FALSE
  BY DEF CoreGate, IInv, NothingRegistered
<1>1. starting = {} /\ \A i \in Ids : procs[i] = None
  BY DEF IInv, NothingRegistered
<1>2. proc[p].id \in Ids
  BY DEF IInv, TypeInv, ProcessOf, Unreaped
<1>3. PICK t \in Threads : Publishing(t, p)
  BY <1>1, <1>2, NoneAssumption DEF IInv, Registered
<1> QED BY <1>1, <1>3, PublisherIsStarting

(* Whoever starts an instance, and whenever, it never has two processes:   *)
(* startContext's registration and the exit goroutine's cleanup exclude    *)
(* it.                                                                     *)
THEOREM AtMostOneProcess == Spec => []OneProcess
  BY OneUnreaped, InvariantHolds, PTL

(* The core binary is replaced only while no process executes it and no    *)
(* start is on its way (BeginCoreUpdate, startContext).                    *)
THEOREM CoreUpdatesAlone == Spec => []CoreGate
  BY NothingUnreaped, InvariantHolds, PTL

(* A start launches mihomo on the configuration it wrote and tested: no    *)
(* reload replaced the file in between.                                    *)
THEOREM LaunchesWhatItTested == Spec => []LaunchedConfigTested
<1>1. IInv => LaunchedConfigTested
  BY DEF IInv, Written, Trusting, LaunchedConfigTested
<1> QED BY <1>1, InvariantHolds, PTL

(* A reload's PUT /configs reaches no other process of its instance than   *)
(* the one ReloadContext checked.                                          *)
THEOREM ReloadsWhatItChecked == Spec => []ReloadReachesItsProcess
<1>1. IInv => ReloadReachesItsProcess
  BY DEF IInv, Reloaded, Reaches, ReloadReachesItsProcess
<1> QED BY <1>1, InvariantHolds, PTL

(* An exit goroutine and the environment launch nothing.  The environment  *)
(* may create an instance, on a port that no record has.                   *)
LEMMA ExitPorts ==
  ASSUME TypeInv, PortsInv, NEW p \in Procs, ExitStep(p)
  PROVE  PortsInv'
<1>0. proc \in [Procs -> ProcRecord] /\ pc \in [Threads -> Steps] /\ g \in [Threads -> LocalRecord]
  BY DEF TypeInv, TypeOK
<1>1. UNCHANGED <<stored, port, overtaken, starting>>
  BY DEF ExitStep, Reap, CloseDone, MaybeAutoRestart, ScheduleRestart, storeVars, attemptVars
<1>2. \A i \in Ids : procs'[i] \in {procs[i], None}
  BY DEF ExitStep, Reap, CloseDone, MaybeAutoRestart, ScheduleRestart, TypeInv, TypeOK
<1>3. \A q \in Procs : proc'[q].st = "alive" => proc'[q] = proc[q]
  BY <1>0 DEF ExitStep, Reap, CloseDone, MaybeAutoRestart, ScheduleRestart, NoProc, ProcRecord
<1>4. \A u \in Threads : pc'[u] \in Prepared \cup {"edit_store"} => pc'[u] = pc[u] /\ g'[u] = g[u]
  BY <1>0
     DEF ExitStep, Reap, CloseDone, MaybeAutoRestart, ScheduleRestart, NotArmed, Arm, Prepared
<1>5. \A i \in Ids : Busy(i)' => Busy(i)
  BY <1>1, <1>2 DEF Busy
<1> QED BY <1>1, <1>3, <1>4, <1>5, StillPorts DEF PortsStill

LEMMA EnvironmentPorts ==
  ASSUME TypeInv, PortsInv, Environment
  PROVE  PortsInv'
<1>0. proc \in [Procs -> ProcRecord] /\ pc \in [Threads -> Steps] /\ g \in [Threads -> LocalRecord]
  BY DEF TypeInv, TypeOK
<1>1. UNCHANGED <<procs, starting>> /\ \A i \in Ids : Busy(i)' => Busy(i)
  BY DEF Environment, Request, Expire, Create, EditAutoRestart, Die, Listen, attemptVars, Busy
<1>2. \A q \in Procs : proc'[q].st = "alive" =>
        proc[q].st = "alive" /\ proc'[q].id = proc[q].id /\ proc'[q].port = proc[q].port
  <2>1. CASE UNCHANGED proc
    BY <2>1
  <2>2. ASSUME NEW p \in Procs, Die(p) \/ Listen(p)
        PROVE  \A q \in Procs : proc'[q].st = "alive" =>
                 proc[q].st = "alive" /\ proc'[q].id = proc[q].id /\ proc'[q].port = proc[q].port
    BY <2>2, DyingQuiet DEF Quiet
  <2> QED BY <2>1, <2>2 DEF Environment, Request, Expire, Create, EditAutoRestart
<1>3. \A u \in Threads : pc'[u] \in Prepared \cup {"edit_store"} =>
        pc'[u] = pc[u] /\ g'[u].id = g[u].id /\ g'[u].reserved = g[u].reserved
  <2>1. ASSUME NEW t \in Requests, NEW op \in Operations, NEW i \in Ids, Request(t, op, i)
        PROVE  pc'[t] \notin Prepared \cup {"edit_store"}
    <3>1. op \in AllOperations
      BY OperationsAssumption
    <3> QED BY <1>0, <2>1, <3>1 DEF Request, FirstStep, AllOperations, Prepared
  <2>2. ASSUME NEW t \in Requests, NEW op \in Operations, NEW i \in Ids, Request(t, op, i)
        PROVE  \A u \in Threads \ {t} : pc'[u] = pc[u] /\ g'[u] = g[u]
    BY <1>0, <2>2 DEF Request
  <2>3. ASSUME NEW t \in Requests, Expire(t)
        PROVE  \A u \in Threads : pc'[u] = pc[u] /\ g'[u].id = g[u].id /\ g'[u].reserved = g[u].reserved
    BY <1>0, <2>3 DEF Expire, LocalRecord
  <2>4. CASE UNCHANGED <<pc, g>>
    BY <2>4
  <2> QED BY <2>1, <2>2, <2>3, <2>4 DEF Environment, Create, EditAutoRestart, Die, Listen
<1>4. CASE UNCHANGED <<stored, port, overtaken>>
  BY <1>1, <1>2, <1>3, <1>4, StillPorts DEF PortsStill
<1>5. ASSUME NEW i \in Ids, Create(i)
      PROVE  PortsInv'
  <2>1. PICK n \in Ports : UnusedPort(n) /\ port' = [port EXCEPT ![i] = n]
    BY <1>5 DEF Create
  <2>2. /\ i \notin stored /\ stored' = stored \cup {i}
        /\ UNCHANGED <<overtaken, procs, starting, pc, g, proc>>
    BY <1>5 DEF Create, attemptVars
  <2>3. port \in [Ids -> Ports] /\ stored \subseteq Ids
    BY DEF TypeInv, TypeOK
  <2>4. StoredApart'
    BY <2>1, <2>2, <2>3 DEF PortsInv, StoredApart, UnusedPort
  <2>5. EditsOvertake'
    BY <2>2 DEF PortsInv, EditsOvertake, Busy
  <2>6. PreparedOnRecord' /\ RunningOnRecord'
    BY <2>1, <2>2, <2>3 DEF PortsInv, PreparedOnRecord, RunningOnRecord, OnRecord
  <2> QED BY <2>4, <2>5, <2>6 DEF PortsInv
<1>6. UNCHANGED <<stored, port, overtaken>> \/ \E i \in Ids : Create(i)
  BY DEF Environment, Request, Expire, EditAutoRestart, Die, Listen, storeVars
<1> QED BY <1>4, <1>5, <1>6

LEMMA NextPorts == IInv /\ PortsInv /\ [Next]_vars => PortsInv'
<1> SUFFICES ASSUME IInv, PortsInv, [Next]_vars PROVE PortsInv'
  OBVIOUS
<1>0. TypeInv /\ AttemptsAccounted /\ Registered
  BY DEF IInv
<1>1. CASE UNCHANGED vars
  <2>1. PortsStill
    BY <1>1 DEF vars, storeVars, attemptVars, PortsStill, Busy
  <2> QED BY <1>0, <2>1, StillPorts
<1> QED BY <1>0, <1>1, StartPorts, StopPorts, RequestPorts, WatchdogPorts, ExitPorts,
           EnvironmentPorts DEF Next

(* Two live processes have one port only if the start of one of them was   *)
(* overtaken, by an edit of the ports or by a DELETE that asked before it: *)
(* the others live on the ports of their records, which differ.  Nothing is*)
(* assumed about when a mihomo comes to listen.                            *)
THEOREM NoPortTwice == Spec => []PortsExclusive
<1>1. Init => PortsInv
  BY DEF Init, PortsInv, StoredApart, EditsOvertake, PreparedOnRecord, RunningOnRecord,
         Prepared, NoProc
<1>2. ASSUME IInv, PortsInv PROVE PortsExclusive
  <2> SUFFICES ASSUME NEW p \in Procs, NEW q \in Procs, proc[p].st = "alive", proc[q].st = "alive",
                      p # q, proc[p].id \notin overtaken, proc[q].id \notin overtaken
               PROVE  proc[p].port # proc[q].port
    BY DEF PortsExclusive
  <2>1. proc[p].id # proc[q].id
    BY <1>2, OneUnreaped DEF OneProcess, Unreaped
  <2>2. OnRecord(proc[p].id, proc[p].port) /\ OnRecord(proc[q].id, proc[q].port)
    BY <1>2 DEF PortsInv, RunningOnRecord
  <2> QED BY <1>2, <2>1, <2>2 DEF PortsInv, StoredApart, OnRecord
<1> QED BY <1>1, <1>2, InvariantHolds, NextPorts, PTL DEF Spec

(* starting, starts and reservedPorts tell exactly the attempts in flight; *)
(* a cleanup frees only what its own attempt reserved.                     *)
THEOREM AttemptsTrue == Spec => []AttemptsAccounted
<1>1. IInv => AttemptsAccounted
  BY DEF IInv
<1> QED BY <1>1, InvariantHolds, PTL

(* After a Stop stamped an instance, the watchdog launches it only if a    *)
(* Stop is at the step that will cancel it.                                *)
THEOREM StopIsObeyed == Spec => []WatchdogYieldsToStop
<1>1. IInv => WatchdogYieldsToStop
  BY DEF IInv
<1> QED BY <1>1, InvariantHolds, PTL

(* Every variable keeps its type.                                          *)
THEOREM TypeCorrect == Spec => []TypeOK
<1>1. IInv => TypeOK
  BY DEF IInv, TypeInv
<1> QED BY <1>1, InvariantHolds, PTL

(* A step that touches no backoff that sleeps.                             *)
LEMMA CancellableKept ==
  ASSUME BackoffIsCancellable, UNCHANGED <<generation, cancelPending>>,
         \A b \in Backoffs :
           /\ pc'[b] = "sleeping" <=> pc[b] = "sleeping"
           /\ pc[b] = "sleeping" =>
                /\ g'[b].id = g[b].id
                /\ g'[b].attached <=> g[b].attached
                /\ g'[b].expired <=> g[b].expired
  PROVE  BackoffIsCancellable'
<1>1. ASSUME NEW i \in Ids, NEW b \in Backoffs PROVE SleepsFor(b, i)' <=> SleepsFor(b, i)
  BY DEF SleepsFor
<1> QED BY <1>1 DEF BackoffIsCancellable

(* A step of a goroutine that does not sleep and cancels nobody.           *)
LEMMA AwakeKeeps ==
  ASSUME TypeInv, BackoffIsCancellable, NEW t \in Threads, Moves(t),
         UNCHANGED <<generation, cancelPending>>, pc[t] # "sleeping", pc'[t] # "sleeping",
         \A b \in Threads \ {t} :
           (g'[b].attached <=> g[b].attached) /\ (g'[b].expired <=> g[b].expired)
  PROVE  BackoffIsCancellable'
<1>1. \A b \in Backoffs \ {t} : pc'[b] = pc[b] /\ g'[b].id = g[b].id
  BY DEF Moves, Frame
<1> QED BY <1>1, CancellableKept

(* cancelPendingRestartLocked cancels exactly the pending backoff.         *)
LEMMA CancelsPending ==
  ASSUME TypeInv, NEW i \in Ids, NEW b \in Threads
  PROVE  /\ PendingCancelled(g, i)[b].expired <=> g[b].expired \/ cancelPending[i] = b
         /\ PendingCancelled(g, i)[b].attached <=> g[b].attached
<1>1. g \in [Threads -> LocalRecord] /\ cancelPending[i] \in Backoffs \cup {None}
  BY DEF TypeInv, TypeOK
<1>2. CASE cancelPending[i] = None
  BY <1>2, NoneAssumption DEF PendingCancelled
<1>3. CASE cancelPending[i] # None
  <2>1. PendingCancelled(g, i) = [g EXCEPT ![cancelPending[i]].expired = TRUE]
    BY <1>3 DEF PendingCancelled
  <2>2. CASE cancelPending[i] = b
    BY <1>1, <2>1, <2>2 DEF LocalRecord
  <2>3. CASE cancelPending[i] # b
    BY <1>1, <2>1, <2>3
  <2> QED BY <2>2, <2>3
<1> QED BY <1>2, <1>3

(* A step that cancels i's pending backoff leaves i none that could wake   *)
(* up, and every other instance its own.                                   *)
LEMMA CancelKeeps ==
  ASSUME TypeInv, BackoffIsCancellable, NEW t \in Requests, Moves(t), NEW i \in Ids,
         cancelPending' = [cancelPending EXCEPT ![i] = None],
         generation' \in {generation, [generation EXCEPT ![i] = None]},
         pc[t] # "sleeping",
         \A b \in Backoffs :
           /\ g'[b].expired = PendingCancelled(g, i)[b].expired
           /\ \/ g'[b].attached = PendingCancelled(g, i)[b].attached
              \/ g[b].id = i /\ ~g'[b].attached
  PROVE  BackoffIsCancellable'
<1> SUFFICES ASSUME NEW j \in Ids, NEW b \in Backoffs
             PROVE  cancelPending'[j] = b <=> SleepsFor(b, j)'
  BY DEF BackoffIsCancellable
<1>1. /\ cancelPending \in [Ids -> Backoffs \cup {None}]
      /\ generation \in [Ids -> Backoffs \cup {None}]
  BY DEF TypeInv, TypeOK
<1>2. pc'[b] = pc[b] /\ g'[b].id = g[b].id /\ b # None
  BY NoneAssumption DEF Moves, Frame
<1>3. cancelPending[j] = b <=> SleepsFor(b, j)
  BY DEF BackoffIsCancellable
<1>4. cancelPending[i] = b <=> SleepsFor(b, i)
  BY DEF BackoffIsCancellable
<1>a. /\ g'[b].expired <=> g[b].expired \/ cancelPending[i] = b
      /\ (g'[b].attached <=> g[b].attached) \/ (g[b].id = i /\ ~g'[b].attached)
  BY CancelsPending
<1>5. CASE j = i
  <2>1. cancelPending'[j] = None
    BY <1>1, <1>5
  <2>2. generation'[j] = b => generation[j] = b
    BY <1>1, <1>2, <1>5
  <2>3. ~SleepsFor(b, j)'
    BY <1>2, <1>4, <1>5, <1>a, <2>2 DEF SleepsFor
  <2> QED BY <1>2, <2>1, <2>3
<1>6. CASE j # i
  <2>1. cancelPending'[j] = cancelPending[j] /\ generation'[j] = generation[j]
    BY <1>1, <1>6
  <2>2. SleepsFor(b, j)' <=> SleepsFor(b, j)
    BY <1>2, <1>4, <1>6, <1>a, <2>1 DEF SleepsFor
  <2> QED BY <1>3, <2>1, <2>2
<1> QED BY <1>5, <1>6

(* scheduleRestart arms a goroutine that does not sleep yet, and makes it  *)
(* the one that can be cancelled.                                          *)
LEMMA ArmKeeps ==
  ASSUME TypeInv, BackoffIsCancellable, NEW a \in Backoffs, NEW i \in Ids, Arm(i, a), pc[a] # "sleeping"
  PROVE  BackoffIsCancellable'
<1> SUFFICES ASSUME NEW j \in Ids, NEW b \in Backoffs
             PROVE  cancelPending'[j] = b <=> SleepsFor(b, j)'
  BY DEF BackoffIsCancellable
<1>1. /\ cancelPending \in [Ids -> Backoffs \cup {None}]
      /\ generation \in [Ids -> Backoffs \cup {None}]
      /\ pc \in [Threads -> Steps] /\ g \in [Threads -> LocalRecord]
  BY DEF TypeInv, TypeOK
<1>2. /\ cancelPending' = [cancelPending EXCEPT ![i] = a]
      /\ generation' = [generation EXCEPT ![i] = a]
      /\ pc' = [pc EXCEPT ![a] = "sleeping"]
  BY DEF Arm
<1>3. g'[a].id = i /\ g'[a].attached /\ ~g'[a].expired
  BY <1>1 DEF Arm, IdleLocals
<1>4. b # a => g'[b] = g[b]
  BY <1>1 DEF Arm
<1>5. cancelPending[j] = b <=> SleepsFor(b, j)
  BY DEF BackoffIsCancellable
<1>6. CASE b = a
  BY <1>1, <1>2, <1>3, <1>5, <1>6 DEF SleepsFor
<1>7. CASE b # a
  BY <1>1, <1>2, <1>4, <1>5, <1>7 DEF SleepsFor
<1> QED BY <1>6, <1>7

(* A goroutine that wakes up gives its own handle back, and no other.      *)
LEMMA WakeKeeps ==
  ASSUME TypeInv, BackoffIsCancellable, NEW a \in Backoffs, Wake(a)
  PROVE  BackoffIsCancellable'
<1> SUFFICES ASSUME NEW j \in Ids, NEW b \in Backoffs
             PROVE  cancelPending'[j] = b <=> SleepsFor(b, j)'
  BY DEF BackoffIsCancellable
<1> DEFINE i == g[a].id
           current == g[a].attached /\ generation[i] = a
<1>1. /\ cancelPending \in [Ids -> Backoffs \cup {None}]
      /\ pc \in [Threads -> Steps] /\ g \in [Threads -> LocalRecord]
      /\ i \in Ids /\ pc[a] = "sleeping"
  BY DEF Wake, TypeInv, TypeOK, Fits
<1>2. /\ cancelPending' = [cancelPending EXCEPT ![i] = IF current THEN None ELSE @]
      /\ generation' = generation
      /\ pc'[a] # "sleeping"
      /\ b # a => pc'[b] = pc[b] /\ g'[b] = g[b]
  BY <1>1 DEF Wake
<1>3. cancelPending[j] = b <=> SleepsFor(b, j)
  BY DEF BackoffIsCancellable
<1> HIDE DEF i, current
<1>4. CASE b = a
  <2>1. cancelPending[j] = b => j = i /\ current
    BY <1>3, <1>4 DEF SleepsFor, i, current
  <2> QED BY <1>1, <1>2, <1>4, <2>1, NoneAssumption DEF SleepsFor
<1>5. CASE b # a
  <2>1. SleepsFor(b, j)' <=> SleepsFor(b, j)
    BY <1>2, <1>5 DEF SleepsFor
  <2>2. cancelPending'[j] = b <=> cancelPending[j] = b
    <3>1. CASE j = i /\ current
      <4>1. ~SleepsFor(b, j)
        BY <1>5, <3>1 DEF SleepsFor, i, current
      <4> QED BY <1>1, <1>2, <1>3, <3>1, <4>1, NoneAssumption
    <3>2. CASE j # i \/ ~current
      BY <1>1, <1>2, <3>2
    <3> QED BY <3>1, <3>2
  <2> QED BY <1>3, <2>1, <2>2
<1> QED BY <1>4, <1>5

(* Of startContext, only a manual registration cancels a backoff.          *)
LEMMA StartCancellable ==
  ASSUME TypeInv, BackoffIsCancellable, NEW t \in Threads, StartStep(t)
  PROVE  BackoffIsCancellable'
<1>0. Moves(t)
  BY StartMoves
<1>a. pc \in [Threads -> Steps] /\ g \in [Threads -> LocalRecord]
  BY DEF TypeInv, TypeOK
<1>1. CASE StartEnter(t)
  BY <1>0, <1>a, <1>1, AwakeKeeps DEF StartEnter, StartFailed, watchdogVars
<1>2. CASE StartBlocked(t)
  BY <1>0, <1>a, <1>2, AwakeKeeps DEF StartBlocked, StartFailed, watchdogVars
<1>3. CASE StartNothing(t)
  BY <1>0, <1>a, <1>3, AwakeKeeps DEF StartNothing, watchdogVars
<1>4. CASE StartRegister(t)
  <2>1. pc[t] = "start_register" /\ pc'[t] # "sleeping" /\ g[t].id \in Ids
    BY <1>a, <1>4 DEF StartRegister, TypeInv, Fits
  <2>2. CASE t \in Requests
    <3>1. cancelPending' = [cancelPending EXCEPT ![g[t].id] = None] /\ generation' = generation
      BY <1>4, <2>2, NoneAssumption DEF StartRegister, ResetWatchdog
    <3>2. ASSUME NEW b \in Backoffs PROVE g'[b] = PendingCancelled(g, g[t].id)[b]
      <4>1. b # t
        BY <2>2, NoneAssumption
      <4>2. PendingCancelled(g, g[t].id) \in [Threads -> LocalRecord]
        BY <2>1, CancelSameWork DEF SameWork
      <4> QED BY <1>4, <2>2, <4>1, <4>2 DEF StartRegister
    <3>3. pc[t] # "sleeping"
      BY <2>1
    <3> QED BY <1>0, <2>1, <2>2, <3>1, <3>2, <3>3, CancelKeeps
  <2>3. CASE t \in Backoffs
    <3>1. t \notin Requests
      BY <2>3, NoneAssumption
    <3>2. UNCHANGED <<generation, cancelPending>>
      BY <1>4, <3>1 DEF StartRegister, watchdogVars
    <3>3. \A b \in Threads \ {t} : g'[b] = g[b]
      BY <1>a, <1>4, <3>1 DEF StartRegister
    <3> QED BY <1>0, <2>1, <3>2, <3>3, AwakeKeeps
  <2> QED BY <2>2, <2>3
<1>5. CASE StartLock(t)
  BY <1>0, <1>a, <1>5, AwakeKeeps DEF StartLock, Acquire, watchdogVars
<1>6. CASE StartCheck(t)
  BY <1>0, <1>a, <1>6, AwakeKeeps DEF StartCheck, watchdogVars
<1>7. CASE StartRead(t)
  BY <1>0, <1>a, <1>7, AwakeKeeps DEF StartRead, watchdogVars
<1>8. CASE StartWrite(t)
  BY <1>0, <1>a, <1>8, AwakeKeeps DEF StartWrite, watchdogVars
<1>9. CASE StartTest(t)
  BY <1>0, <1>a, <1>9, AwakeKeeps DEF StartTest, watchdogVars
<1>10. CASE StartSpawn(t)
  BY <1>0, <1>a, <1>10, AwakeKeeps DEF StartSpawn, watchdogVars
<1>11. CASE StartPublish(t)
  BY <1>0, <1>a, <1>11, AwakeKeeps DEF StartPublish, watchdogVars
<1>12. CASE StartUnlock(t)
  BY <1>0, <1>a, <1>12, AwakeKeeps DEF StartUnlock, watchdogVars
<1>13. CASE StartCleanup(t)
  <2>1. pc[t] = "start_cleanup" /\ pc'[t] # "sleeping" /\ UNCHANGED <<generation, cancelPending>>
    BY <1>a, <1>13 DEF StartCleanup, watchdogVars
  <2>2. ASSUME NEW b \in Threads \ {t}
        PROVE  (g'[b].attached <=> g[b].attached) /\ (g'[b].expired <=> g[b].expired)
    BY <1>a, <1>13 DEF StartCleanup, DoneClosedFor, LocalRecord
  <2> QED BY <1>0, <2>1, <2>2, AwakeKeeps
<1> QED BY <1>1, <1>2, <1>3, <1>4, <1>5, <1>6, <1>7, <1>8, <1>9, <1>10, <1>11, <1>12, <1>13
           DEF StartStep

(* Of a Stop, only its mark cancels a backoff.                             *)
LEMMA StopCancellable ==
  ASSUME TypeInv, BackoffIsCancellable, NEW t \in Requests, StopStep(t)
  PROVE  BackoffIsCancellable'
<1>0. Moves(t)
  BY StopMoves
<1>a. pc \in [Threads -> Steps] /\ g \in [Threads -> LocalRecord]
  BY DEF TypeInv, TypeOK
<1>1. CASE StopMark(t)
  <2>1. pc[t] = "stop" /\ pc'[t] = "stop_resolve" /\ g[t].id \in Ids
    BY <1>a, <1>1 DEF StopMark, TypeInv, Fits
  <2>2. CASE UNCHANGED <<generation, cancelPending, g>>
    BY <1>0, <2>1, <2>2, AwakeKeeps
  <2>3. CASE /\ cancelPending' = [cancelPending EXCEPT ![g[t].id] = None]
             /\ generation' = generation
             /\ g' = PendingCancelled(g, g[t].id)
    <3>1. pc[t] # "sleeping"
      BY <2>1
    <3> QED BY <1>0, <2>1, <2>3, <3>1, CancelKeeps
  <2> QED BY <1>1, <2>2, <2>3 DEF StopMark, watchdogVars
<1>2. CASE StopResolve(t)
  BY <1>0, <1>a, <1>2, AwakeKeeps DEF StopResolve, watchdogVars
<1>3. CASE StopFind(t)
  <2>1. pc[t] = "stop_find" /\ pc'[t] # "sleeping" /\ UNCHANGED <<generation, cancelPending>>
    BY <1>a, <1>3 DEF StopFind, watchdogVars
  <2>2. ASSUME NEW b \in Threads \ {t}
        PROVE  (g'[b].attached <=> g[b].attached) /\ (g'[b].expired <=> g[b].expired)
    BY <1>a, <1>3 DEF StopFind, LocalRecord
  <2> QED BY <1>0, <2>1, <2>2, AwakeKeeps
<1>4. CASE StopAwait(t)
  BY <1>0, <1>a, <1>4, AwakeKeeps DEF StopAwait, AfterStop, watchdogVars
<1>5. CASE StopSettle(t)
  BY <1>0, <1>a, <1>5, AwakeKeeps DEF StopSettle, watchdogVars
<1>6. CASE StopGate(t)
  BY <1>0, <1>a, <1>6, AwakeKeeps DEF StopGate, AfterStop, watchdogVars
<1>7. CASE StopLock(t)
  BY <1>0, <1>a, <1>7, AwakeKeeps DEF StopLock, Acquire, watchdogVars
<1>8. CASE StopSignal(t)
  BY <1>0, <1>a, <1>8, AwakeKeeps DEF StopSignal, watchdogVars
<1>9. CASE StopWait(t)
  BY <1>0, <1>a, <1>9, AwakeKeeps DEF StopWait, watchdogVars
<1>10. CASE StopKilled(t)
  BY <1>0, <1>a, <1>10, AwakeKeeps DEF StopKilled, watchdogVars
<1>11. CASE StopUnlock(t)
  BY <1>0, <1>a, <1>11, AwakeKeeps DEF StopUnlock, AfterStop, watchdogVars
<1> QED BY <1>1, <1>2, <1>3, <1>4, <1>5, <1>6, <1>7, <1>8, <1>9, <1>10, <1>11 DEF StopStep

(* Of the other requests, only a DELETE's drop of the entry cancels a      *)
(* backoff; it detaches those that hold the entry.                         *)
LEMMA RequestCancellable ==
  ASSUME TypeInv, BackoffIsCancellable, NEW t \in Requests, RequestStep(t)
  PROVE  BackoffIsCancellable'
<1>0. Moves(t)
  BY RequestMoves
<1>a. pc \in [Threads -> Steps] /\ g \in [Threads -> LocalRecord]
  BY DEF TypeInv, TypeOK
<1>1. CASE DeleteBegin(t)
  BY <1>0, <1>a, <1>1, AwakeKeeps DEF DeleteBegin, watchdogVars
<1>2. CASE DeleteRemove(t)
  BY <1>0, <1>a, <1>2, AwakeKeeps DEF DeleteRemove, watchdogVars
<1>3. CASE DeleteDrop(t)
  <2> DEFINE i == g[t].id
  <2>1. /\ pc[t] = "delete_drop" /\ i \in Ids
        /\ cancelPending' = [cancelPending EXCEPT ![i] = None]
        /\ generation' = [generation EXCEPT ![i] = None]
    BY <1>3 DEF DeleteDrop, DropWatchdog, TypeInv, Fits
  <2>2. ASSUME NEW b \in Backoffs
        PROVE  /\ g'[b].expired = PendingCancelled(g, i)[b].expired
               /\ \/ g'[b].attached = PendingCancelled(g, i)[b].attached
                  \/ g[b].id = i /\ ~g'[b].attached
    <3> DEFINE f == PendingCancelled(g, i)
    <3>1. f[b] \in LocalRecord
      BY <2>1, CancelSameWork DEF SameWork
    <3>2. g'[b] = [f[b] EXCEPT !.attached = @ /\ g[b].id # i]
      BY <1>3 DEF DeleteDrop
    <3> HIDE DEF f
    <3>3. g'[b].expired = f[b].expired /\ g'[b].attached = (f[b].attached /\ g[b].id # i)
      BY <3>1, <3>2 DEF LocalRecord
    <3>4. f[b].attached \in BOOLEAN
      BY <3>1 DEF LocalRecord
    <3> QED BY <3>3, <3>4 DEF f
  <2> QED BY <1>0, <2>1, <2>2, CancelKeeps
<1>4. CASE DeleteEnd(t)
  BY <1>0, <1>a, <1>4, AwakeKeeps DEF DeleteEnd, watchdogVars
<1>5. CASE ReloadLock(t)
  BY <1>0, <1>a, <1>5, AwakeKeeps DEF ReloadLock, Acquire, watchdogVars
<1>6. CASE ReloadCheck(t)
  BY <1>0, <1>a, <1>6, AwakeKeeps DEF ReloadCheck, watchdogVars
<1>7. CASE ReloadVerify(t)
  BY <1>0, <1>a, <1>7, AwakeKeeps DEF ReloadVerify, watchdogVars
<1>8. CASE ReloadWrite(t)
  BY <1>0, <1>a, <1>8, AwakeKeeps DEF ReloadWrite, watchdogVars
<1>9. CASE ReloadPush(t)
  BY <1>0, <1>a, <1>9, AwakeKeeps DEF ReloadPush, watchdogVars
<1>10. CASE ReloadUnlock(t)
  BY <1>0, <1>a, <1>10, AwakeKeeps DEF ReloadUnlock, watchdogVars
<1>11. CASE CoreBegin(t)
  BY <1>0, <1>a, <1>11, AwakeKeeps DEF CoreBegin, watchdogVars
<1>12. CASE CoreEnd(t)
  BY <1>0, <1>a, <1>12, AwakeKeeps DEF CoreEnd, watchdogVars
<1>13. CASE EditGuard(t)
  BY <1>0, <1>a, <1>13, AwakeKeeps DEF EditGuard, watchdogVars
<1>14. CASE EditStore(t)
  BY <1>0, <1>a, <1>14, AwakeKeeps DEF EditStore, watchdogVars
<1> QED BY <1>1, <1>2, <1>3, <1>4, <1>5, <1>6, <1>7, <1>8, <1>9, <1>10, <1>11, <1>12, <1>13,
           <1>14 DEF RequestStep

(* A backoff wakes up, or is armed again after a failed relaunch.          *)
LEMMA WatchdogCancellable ==
  ASSUME TypeInv, BackoffIsCancellable, NEW b \in Backoffs, WatchdogStep(b)
  PROVE  BackoffIsCancellable'
<1>0. Moves(b)
  BY WatchdogMoves
<1>a. pc \in [Threads -> Steps] /\ g \in [Threads -> LocalRecord]
  BY DEF TypeInv, TypeOK
<1>1. CASE Wake(b)
  BY <1>1, WakeKeeps
<1>2. CASE CheckEligible(b)
  BY <1>0, <1>a, <1>2, AwakeKeeps DEF CheckEligible, watchdogVars
<1>3. CASE Rearm(b)
  <2>1. pc[b] = "rearm" /\ g[b].id \in Ids
    BY <1>3 DEF Rearm, TypeInv, Fits
  <2>2. CASE Arm(g[b].id, b)
    BY <2>1, <2>2, ArmKeeps
  <2>3. CASE NotArmed(g[b].id) /\ Finish(b)
    BY <1>0, <1>a, <2>1, <2>3, AwakeKeeps DEF NotArmed
  <2> QED BY <1>3, <2>2, <2>3 DEF Rearm
<1>4. CASE Relaunched(b)
  BY <1>0, <1>a, <1>4, AwakeKeeps DEF Relaunched, watchdogVars
<1>5. CASE WatchHealthy(b)
  BY <1>0, <1>a, <1>5, AwakeKeeps DEF WatchHealthy
<1> QED BY <1>1, <1>2, <1>3, <1>4, <1>5 DEF WatchdogStep

(* An exit goroutine arms a backoff in a goroutine of its own.             *)
LEMMA ExitCancellable ==
  ASSUME TypeInv, BackoffIsCancellable, NEW p \in Procs, ExitStep(p)
  PROVE  BackoffIsCancellable'
<1>1. CASE UNCHANGED <<pc, g, generation, cancelPending>>
  BY <1>1, CancellableKept
<1>2. ASSUME proc[p].st = "arming", NEW b \in Backoffs, At(b, "idle"), Arm(proc[p].id, b)
      PROVE  BackoffIsCancellable'
  <2>1. proc[p].id \in Ids
    BY <1>2 DEF TypeInv, ProcessOf
  <2> QED BY <1>2, <2>1, ArmKeeps
<1> QED BY <1>1, <1>2
           DEF ExitStep, Reap, CloseDone, MaybeAutoRestart, ScheduleRestart, NotArmed, watchdogVars

(* The environment reaches requests, never a backoff.                      *)
LEMMA EnvironmentCancellable ==
  ASSUME TypeInv, BackoffIsCancellable, Environment
  PROVE  BackoffIsCancellable'
<1>1. UNCHANGED <<generation, cancelPending>>
  BY DEF Environment, Request, Expire, Create, EditAutoRestart, Die, Listen, watchdogVars
<1>2. ASSUME NEW b \in Backoffs PROVE pc'[b] = pc[b] /\ g'[b] = g[b]
  <2>1. b \notin Requests /\ pc \in [Threads -> Steps] /\ g \in [Threads -> LocalRecord]
    BY NoneAssumption DEF TypeInv, TypeOK
  <2> QED BY <2>1 DEF Environment, Request, Expire, Create, EditAutoRestart, Die, Listen
<1> QED BY <1>1, <1>2, CancellableKept

(* Every step keeps what can be cancelled what could relaunch.             *)
LEMMA NextCancellable == TypeInv /\ BackoffIsCancellable /\ [Next]_vars => BackoffIsCancellable'
<1> SUFFICES ASSUME TypeInv, BackoffIsCancellable, [Next]_vars PROVE BackoffIsCancellable'
  OBVIOUS
<1>1. CASE UNCHANGED vars
  BY <1>1, CancellableKept DEF vars, watchdogVars
<1> QED BY <1>1, StartCancellable, StopCancellable, RequestCancellable, WatchdogCancellable,
           ExitCancellable, EnvironmentCancellable DEF Next

(* The backoff that could still wake up and relaunch an instance is the    *)
(* one that cancelPending names: a Stop, a manual Start and a DELETE find  *)
(* it, and a goroutine whose entry was dropped or armed again takes no     *)
(* handle that is not its own.                                             *)
THEOREM BackoffsCancellable == Spec => []BackoffIsCancellable
<1>1. Init => BackoffIsCancellable
  BY NoneAssumption DEF Init, BackoffIsCancellable, SleepsFor
<1> QED BY <1>1, NextCancellable, TypesHold, PTL DEF Spec

(* An exit goroutine ends no attempt and revives no process.               *)
LEMMA ExitWaits ==
  ASSUME TypeInv, AwaitedIsCancelled, AskedToEnd, NEW p \in Procs, ExitStep(p)
  PROVE  AwaitedIsCancelled' /\ AskedToEnd'
<1>1. \A q \in Procs : KeepsEnding(q)
  <2>1. CASE Reap(p)
    <3>1. proc[p].st = "dead" /\ proc \in [Procs -> ProcRecord]
      BY <2>1 DEF Reap, TypeInv, TypeOK
    <3>2. /\ proc'[p].st \notin {"alive", "dead"} /\ proc'[p].stopRequested = proc[p].stopRequested
          /\ \A q \in Procs \ {p} : proc'[q] = proc[q]
      BY <2>1, <3>1 DEF Reap, ProcRecord
    <3> QED BY <3>1, <3>2 DEF KeepsEnding
  <2>2. CASE CloseDone(p)
    BY <2>2, FreedEnds, MovedEnds DEF CloseDone
  <2>3. CASE MaybeAutoRestart(p)
    BY <2>3, FreedEnds, MovedEnds DEF MaybeAutoRestart
  <2>4. CASE ScheduleRestart(p)
    BY <2>4, FreedEnds DEF ScheduleRestart
  <2> QED BY <2>1, <2>2, <2>3, <2>4 DEF ExitStep
<1>2. CASE UNCHANGED <<pc, g>>
  BY <1>1, <1>2, WaitsStill
<1>3. ASSUME NEW b \in Backoffs, pc[b] = "idle", Arm(proc[p].id, b), proc[p].st = "arming"
      PROVE  AwaitedIsCancelled' /\ AskedToEnd'
  <2>1. g \in [Threads -> LocalRecord] /\ pc \in [Threads -> Steps] /\ proc[p].id \in Ids
    BY <1>3 DEF TypeInv, TypeOK, ProcessOf
  <2>2. Moves(b)
    BY <1>3, <2>1, ArmedFits
  <2>3. pc'[b] = "sleeping" /\ g'[b].awaits = None /\ \A u \in Threads \ {b} : g'[u] = g[u]
    BY <1>3, <2>1 DEF Arm, IdleLocals
  <2>4. AwaitedIsCancelled'
    BY <1>3, <2>2, <2>3, AwaitedKept DEF Attempting, Holding
  <2>5. AskedToEnd'
    BY <1>1, <2>2, <2>3, AskedKept
  <2> QED BY <2>4, <2>5
<1> QED BY <1>2, <1>3 DEF ExitStep, Reap, CloseDone, MaybeAutoRestart, ScheduleRestart

(* The environment makes nobody wait.                                      *)
LEMMA EnvironmentWaits ==
  ASSUME TypeInv, AwaitedIsCancelled, AskedToEnd, Environment
  PROVE  AwaitedIsCancelled' /\ AskedToEnd'
<1>0. g \in [Threads -> LocalRecord] /\ pc \in [Threads -> Steps]
  BY DEF TypeInv, TypeOK
<1>1. \A q \in Procs : KeepsEnding(q)
  <2>1. CASE UNCHANGED proc
    BY <2>1 DEF KeepsEnding
  <2>2. ASSUME NEW p \in Procs, Die(p) PROVE \A q \in Procs : KeepsEnding(q)
    BY <2>2, MovedEnds DEF Die
  <2>3. ASSUME NEW p \in Procs, Listen(p) PROVE \A q \in Procs : KeepsEnding(q)
    BY <2>3 DEF Listen, KeepsEnding, TypeInv, TypeOK, ProcRecord
  <2> QED BY <2>1, <2>2, <2>3 DEF Environment, Request, Expire, Create, EditAutoRestart
<1>2. ASSUME NEW t \in Requests, NEW op \in Operations, NEW i \in Ids, Request(t, op, i)
      PROVE  AwaitedIsCancelled' /\ AskedToEnd'
  <2>1. \A u \in Threads : g[u].awaits # None => g[u].awaits \in Threads /\ g[u].awaits # t /\ u # t
    BY <1>0, <1>2 DEF Request, AwaitedIsCancelled, LocalRecord, Attempting, Holding
  <2>2. g'[t].awaits = None /\ pc'[t] \notin {"stop_wait", "stop_killed"}
    <3>1. op \in AllOperations
      BY OperationsAssumption
    <3> QED BY <1>0, <1>2, <3>1 DEF Request, IdleLocals, FirstStep, AllOperations
  <2>3. \A u \in Threads \ {t} : g'[u] = g[u] /\ pc'[u] = pc[u]
    BY <1>0, <1>2 DEF Request
  <2>4. AwaitedIsCancelled'
    BY <2>1, <2>2, <2>3 DEF AwaitedIsCancelled
  <2>5. AskedToEnd'
    BY <1>2, <2>2, <2>3 DEF AskedToEnd, Request
  <2> QED BY <2>4, <2>5
<1>3. ASSUME NEW t \in Requests, Expire(t)
      PROVE  AwaitedIsCancelled' /\ AskedToEnd'
  <2>1. pc' = pc /\ \A u \in Threads : /\ g'[u].awaits = g[u].awaits /\ g'[u].id = g[u].id
                                       /\ g'[u].ps = g[u].ps /\ g'[u].cancelled = g[u].cancelled
    BY <1>0, <1>3 DEF Expire, LocalRecord
  <2> QED BY <1>1, <2>1, WaitsStill
<1>4. CASE UNCHANGED <<pc, g>>
  BY <1>1, <1>4, WaitsStill
<1> QED BY <1>2, <1>3, <1>4 DEF Environment, Create, EditAutoRestart, Die, Listen

(* Every step leaves those who wait something to wait for.                 *)
LEMMA NextWaits ==
  IInv /\ AwaitedIsCancelled /\ AskedToEnd /\ [Next]_vars => AwaitedIsCancelled' /\ AskedToEnd'
<1> SUFFICES ASSUME IInv, AwaitedIsCancelled, AskedToEnd, [Next]_vars
             PROVE  AwaitedIsCancelled' /\ AskedToEnd'
  OBVIOUS
<1>0. TypeInv /\ AttemptsAccounted
  BY DEF IInv
<1>1. CASE UNCHANGED vars
  <2>1. UNCHANGED <<pc, g, proc>>
    BY <1>1 DEF vars
  <2> QED BY <1>0, <2>1, WaitsStill DEF KeepsEnding
<1>2. ASSUME NEW t \in Threads, StartStep(t) PROVE AwaitedIsCancelled' /\ AskedToEnd'
  BY <1>0, <1>2, StartAwaited, StartAsked
<1>3. ASSUME NEW t \in Requests, StopStep(t) PROVE AwaitedIsCancelled' /\ AskedToEnd'
  BY <1>0, <1>3, StopAwaited, StopAsked
<1>4. ASSUME NEW t \in Requests, RequestStep(t) PROVE AwaitedIsCancelled' /\ AskedToEnd'
  BY <1>0, <1>4, RequestAwaited, RequestAsked
<1>5. ASSUME NEW b \in Backoffs, WatchdogStep(b) PROVE AwaitedIsCancelled' /\ AskedToEnd'
  BY <1>0, <1>5, WatchdogAwaited, WatchdogAsked
<1>6. ASSUME NEW p \in Procs, ExitStep(p) PROVE AwaitedIsCancelled' /\ AskedToEnd'
  BY <1>0, <1>6, ExitWaits
<1>7. CASE Environment
  BY <1>0, <1>7, EnvironmentWaits
<1> QED BY <1>1, <1>2, <1>3, <1>4, <1>5, <1>6, <1>7 DEF Next

(* Nobody waits for what will not come: no early return keeps a lifecycle  *)
(* mutex, no Stop waits for an attempt that has ended or does not know of  *)
(* it, none for a process that nobody asked to end.                        *)
THEOREM NobodyWaitsInVain == Spec => []WaitsEnd
<1>1. Init => AwaitedIsCancelled /\ AskedToEnd
  BY DEF Init, IdleLocals, AwaitedIsCancelled, AskedToEnd
<1>2. IInv => MutexInUse
  BY DEF IInv, MutexHeld
<1>3. MutexInUse /\ AwaitedIsCancelled /\ AskedToEnd => WaitsEnd
  BY DEF WaitsEnd
<1> QED BY <1>1, <1>2, <1>3, InvariantHolds, NextWaits, PTL DEF Spec

(* The states of a process whose exit goroutine has its crash in hand.     *)
Ended == {"crashed", "closed", "arming"}

(* A goroutine of the watchdog has the crash of i in hand.                 *)
Handles(b, i) == SleepsFor(b, i) \/ Relaunching(b, i)

(* What CrashIsFollowed asks of a step for an instance that recovers.      *)
Followed(i) ==
  \/ Recovering(i)' \/ Answered(i)' \/ starts'[i] # None
  \/ \E t \in Requests : g[t].id = i /\ GivesUp(t)

(* It is enough to follow those that could have a crash of i in hand and   *)
(* that the step touches.                                                  *)
LEMMA FollowedIf ==
  ASSUME NEW i \in Ids, generation'[i] = generation[i],
         \A p \in Procs : proc[p].st \in Ended /\ proc[p].id = i =>
           Followed(i) \/ (proc'[p].st \in Ended /\ proc'[p].id = i),
         \A b \in Backoffs : g[b].id = i =>
           \/ /\ pc'[b] = pc[b] /\ g'[b].id = i
              /\ g'[b].attached <=> g[b].attached
              /\ g'[b].expired <=> g[b].expired
              /\ g'[b].failed <=> g[b].failed
           \/ Handles(b, i) => Followed(i)
  PROVE  Recovering(i) => Followed(i)
<1>1. ASSUME NEW p \in Procs, proc[p].st \in Ended, proc[p].id = i PROVE Followed(i)
  BY <1>1 DEF Followed, Recovering, Ended
<1>2. ASSUME NEW b \in Backoffs, Handles(b, i) PROVE Followed(i)
  <2>1. g[b].id = i
    BY <1>2 DEF Handles, SleepsFor, Relaunching
  <2>2. Handles(b, i)' \/ Followed(i)
    BY <1>2, <2>1 DEF Handles, SleepsFor, Relaunching
  <2> QED BY <2>2 DEF Handles, Followed, Recovering
<1> QED BY <1>1, <1>2 DEF Recovering, Handles, Ended

(* The step of a goroutine t that leaves those of i where they are.        *)
LEMMA OthersFollow ==
  ASSUME NEW t \in Threads, Moves(t), NEW i \in Ids, generation'[i] = generation[i],
         \A p \in Procs : proc[p].st \in Ended =>
           proc'[p].st \in Ended /\ proc'[p].id = proc[p].id,
         \A b \in Backoffs \ {t} : g[b].id = i =>
           /\ g'[b].attached <=> g[b].attached
           /\ g'[b].expired <=> g[b].expired
           /\ g'[b].failed <=> g[b].failed,
         t \in Backoffs /\ Handles(t, i) => Followed(i)
  PROVE  Recovering(i) => Followed(i)
<1>1. \A b \in Backoffs \ {t} : pc'[b] = pc[b] /\ g'[b].id = g[b].id
  BY DEF Moves, Frame, Threads
<1> QED BY <1>1, FollowedIf

(* A relaunch that goes on has the crash in hand as before.                *)
LEMMA RelaunchesStill ==
  ASSUME NEW t \in Backoffs, Moves(t), NEW i \in Ids, Relaunching(t, i),
         \/ pc'[t] \in {"start", "start_register", "start_lock", "start_check", "start_read",
                        "start_write", "start_test", "start_spawn", "start_publish", "rearm"}
         \/ pc'[t] \in {"start_unlock", "start_cleanup"} /\ g'[t].failed
  PROVE  Followed(i)
<1>1. g'[t].id = g[t].id
  BY DEF Moves, Carries, Relaunching
<1>2. Relaunching(t, i)'
  BY <1>1 DEF Relaunching
<1> QED BY <1>2 DEF Followed, Recovering

(* scheduleRestart arms a backoff for i, or i is given up.                 *)
LEMMA ArmFollows ==
  ASSUME TypeInv, NEW b \in Backoffs, NEW i \in Ids, Arm(i, b)
  PROVE  /\ Followed(i)
         /\ \A j \in Ids \ {i} : generation'[j] = generation[j]
<1>1. /\ generation \in [Ids -> Backoffs \cup {None}]
      /\ pc \in [Threads -> Steps] /\ g \in [Threads -> LocalRecord] /\ b \in Threads
  BY DEF TypeInv, TypeOK, Threads
<1>2. g'[b].id = i /\ g'[b].attached /\ ~g'[b].expired /\ pc'[b] = "sleeping" /\ generation'[i] = b
  BY <1>1 DEF Arm, IdleLocals, Goto
<1>3. SleepsFor(b, i)'
  BY <1>2 DEF SleepsFor, At
<1>4. \A j \in Ids \ {i} : generation'[j] = generation[j]
  BY <1>1 DEF Arm
<1> QED BY <1>3, <1>4 DEF Followed, Recovering

(* The attempts are used up, or the user stopped i.                        *)
LEMMA NotArmedFollows ==
  ASSUME TypeInv, NEW i \in Ids, NotArmed(i)
  PROVE  Followed(i)
<1>1. consecutive \in [Ids -> Nat] /\ MaxRestarts \in Nat
  BY MaxRestartsAssumption DEF TypeInv, TypeOK
<1>2. i \in userStopped' \/ consecutive'[i] > MaxRestarts
  BY <1>1 DEF NotArmed
<1> QED BY <1>2 DEF Followed, Answered

(* Cancelling the backoff of j touches no goroutine of another instance.   *)
LEMMA CancelsItsOwn ==
  ASSUME TypeInv, BackoffIsCancellable, NEW j \in Ids, NEW b \in Backoffs, g[b].id # j
  PROVE  PendingCancelled(g, j)[b] = g[b]
<1>1. g \in [Threads -> LocalRecord] /\ cancelPending[j] \in Backoffs \cup {None}
  BY DEF TypeInv, TypeOK
<1>2. cancelPending[j] # b
  BY DEF BackoffIsCancellable, SleepsFor
<1> QED BY <1>1, <1>2 DEF PendingCancelled

(* A relaunch goes on, fails and arms the next backoff, or ends because    *)
(* the instance runs, starts, or is the user's.                            *)
LEMMA RelaunchFollowed ==
  ASSUME TypeInv, AttemptsAccounted, NEW t \in Backoffs, StartStep(t), NEW i \in Ids,
         Relaunching(t, i)
  PROVE  Followed(i)
<1>0. Moves(t) /\ t \in Threads /\ t \notin Requests /\ g[t].id = i
  BY StartMoves, NoneAssumption DEF Relaunching
<1>a. pc \in [Threads -> Steps] /\ g \in [Threads -> LocalRecord]
  BY DEF TypeInv, TypeOK
<1>1. CASE StartEnter(t)
  BY <1>0, <1>a, <1>1, RelaunchesStill DEF StartEnter, StartFailed
<1>2. CASE StartBlocked(t)
  BY <1>0, <1>a, <1>2, RelaunchesStill DEF StartBlocked, StartFailed
<1>3. CASE StartNothing(t)
  <2>1. procs[i] # None \/ starts[i] # None \/ i \in userStopped
    BY <1>0, <1>3 DEF StartNothing, Busy, AttemptsAccounted
  <2>2. UNCHANGED <<procs, starts, userStopped>>
    BY <1>3 DEF StartNothing, attemptVars, watchdogVars
  <2> QED BY <2>1, <2>2 DEF Followed, Answered
<1>4. CASE StartRegister(t)
  BY <1>0, <1>a, <1>4, RelaunchesStill DEF StartRegister
<1>5. CASE StartLock(t)
  BY <1>0, <1>a, <1>5, RelaunchesStill DEF StartLock, Acquire
<1>6. CASE StartCheck(t)
  BY <1>0, <1>a, <1>6, RelaunchesStill DEF StartCheck, LocalRecord
<1>7. CASE StartRead(t)
  BY <1>0, <1>a, <1>7, RelaunchesStill DEF StartRead, LocalRecord
<1>8. CASE StartWrite(t)
  BY <1>0, <1>a, <1>8, RelaunchesStill DEF StartWrite, LocalRecord
<1>9. CASE StartTest(t)
  BY <1>0, <1>a, <1>9, RelaunchesStill DEF StartTest, LocalRecord
<1>10. CASE StartSpawn(t)
  BY <1>0, <1>a, <1>10, RelaunchesStill DEF StartSpawn, LocalRecord
<1>11. CASE StartPublish(t)
  <2>1. procs \in [Ids -> Procs \cup {None}] /\ g[t].ps \in Procs
    BY <1>11 DEF StartPublish, TypeInv, TypeOK, Fits, HasProc
  <2>2. procs'[i] # None
    BY <1>0, <1>11, <2>1, NoneAssumption DEF StartPublish
  <2> QED BY <2>2 DEF Followed, Answered
<1>12. CASE StartUnlock(t)
  BY <1>0, <1>a, <1>12, RelaunchesStill DEF StartUnlock, Relaunching
<1>13. CASE StartCleanup(t)
  <2>1. g[t].failed
    BY <1>13 DEF StartCleanup, Relaunching
  <2>2. pc'[t] = "rearm"
    BY <1>0, <1>a, <1>13, <2>1 DEF StartCleanup
  <2> QED BY <1>0, <2>2, RelaunchesStill
<1> QED BY <1>1, <1>2, <1>3, <1>4, <1>5, <1>6, <1>7, <1>8, <1>9, <1>10, <1>11, <1>12, <1>13
           DEF StartStep

(* A start that a client asked for takes the recovery over, or ends it     *)
(* where the ports are taken.                                              *)
LEMMA StartFollowed ==
  ASSUME TypeInv, BackoffIsCancellable, AttemptsAccounted, NEW t \in Threads, StartStep(t),
         NEW i \in Ids
  PROVE  Recovering(i) => Followed(i)
<1>0. Moves(t)
  BY StartMoves
<1>a. /\ pc \in [Threads -> Steps] /\ g \in [Threads -> LocalRecord]
      /\ proc \in [Procs -> ProcRecord]
  BY DEF TypeInv, TypeOK
<1>1. generation' = generation
  BY DEF StartStep, StartEnter, StartBlocked, StartNothing, StartRegister, ResetWatchdog,
         StartLock, Acquire, StartCheck, StartRead, StartWrite, StartTest, StartSpawn,
         StartPublish, StartUnlock, StartCleanup, watchdogVars
<1>2. ASSUME NEW p \in Procs, proc[p].st \in Ended
      PROVE  proc'[p].st \in Ended /\ proc'[p].id = proc[p].id
  <2>1. CASE UNCHANGED proc
    BY <1>2, <2>1
  <2>2. CASE StartSpawn(t)
    BY <1>a, <1>2, <2>2 DEF StartSpawn, FreeProc, Ended
  <2> QED BY <2>1, <2>2
          DEF StartStep, StartEnter, StartBlocked, StartNothing, StartRegister,
              StartLock, Acquire, StartCheck, StartRead, StartWrite, StartTest,
              StartPublish, StartUnlock, StartCleanup
<1>3. t \in Backoffs /\ Handles(t, i) => Followed(i)
  <2>1. pc[t] # "sleeping"
    BY DEF StartStep, StartEnter, StartBlocked, StartNothing, StartRegister,
           StartLock, Acquire, StartCheck, StartRead, StartWrite, StartTest, StartSpawn,
           StartPublish, StartUnlock, StartCleanup
  <2> QED BY <2>1, RelaunchFollowed DEF Handles, SleepsFor
<1>4. CASE \A b \in Backoffs \ {t} : g[b].id = i =>
             /\ g'[b].attached <=> g[b].attached
             /\ g'[b].expired <=> g[b].expired
             /\ g'[b].failed <=> g[b].failed
  BY <1>0, <1>1, <1>2, <1>3, <1>4, OthersFollow
<1>5. CASE StartRegister(t) /\ t \in Requests
  <2> DEFINE j == g[t].id
  <2>1. j \in Ids /\ starts \in [Ids -> Threads \cup {None}] /\ t # None
    BY <1>5, NoneAssumption DEF StartRegister, TypeInv, TypeOK, Fits
  <2>2. CASE i = j
    <3>1. CASE PortTaken(t)
      <4>1. pc'[t] = "idle"
        BY <1>a, <1>5, <3>1 DEF StartRegister
      <4>2. GivesUp(t)
        BY <1>5, <3>1, <4>1 DEF GivesUp, StartRegister
      <4> QED BY <1>5, <2>2, <4>2 DEF Followed
    <3>2. CASE ~PortTaken(t)
      <4>1. starts'[i] = t
        BY <1>5, <2>1, <2>2, <3>2 DEF StartRegister
      <4> QED BY <2>1, <4>1 DEF Followed
    <3> QED BY <3>1, <3>2
  <2>3. CASE i # j
    <3>1. ASSUME NEW b \in Backoffs \ {t}, g[b].id = i PROVE g'[b] = g[b]
      <4>1. PendingCancelled(g, j)[b] = g[b]
        BY <2>1, <2>3, <3>1, CancelsItsOwn
      <4>2. PendingCancelled(g, j) \in [Threads -> LocalRecord]
        BY <1>a, <2>1, CancelSameWork DEF SameWork
      <4> QED BY <1>5, <3>1, <4>1, <4>2 DEF StartRegister
    <3> QED BY <1>4, <3>1
  <2> QED BY <2>2, <2>3
<1>6. CASE ~(StartRegister(t) /\ t \in Requests)
  <2>1. ASSUME NEW b \in Backoffs \ {t}
        PROVE  /\ g'[b].attached <=> g[b].attached
               /\ g'[b].expired <=> g[b].expired
               /\ g'[b].failed <=> g[b].failed
    <3>1. CASE StartCleanup(t)
      BY <1>a, <3>1 DEF StartCleanup, DoneClosedFor, LocalRecord
    <3>2. CASE g'[b] = g[b]
      BY <3>2
    <3> QED BY <1>a, <1>6, <3>1, <3>2
            DEF StartStep, StartEnter, StartFailed, StartBlocked, StartNothing, StartRegister,
                StartLock, Acquire, StartCheck, StartRead, StartWrite, StartTest, StartSpawn,
                StartPublish, StartUnlock
  <2> QED BY <1>4, <2>1
<1> QED BY <1>5, <1>6

(* A Stop stamps the instance as the user's.                               *)
LEMMA StopFollowed ==
  ASSUME TypeInv, BackoffIsCancellable, NEW t \in Requests, StopStep(t), NEW i \in Ids
  PROVE  Recovering(i) => Followed(i)
<1>0. Moves(t) /\ t \in Threads /\ t \notin Backoffs
  BY StopMoves, NoneAssumption
<1>a. /\ pc \in [Threads -> Steps] /\ g \in [Threads -> LocalRecord]
      /\ proc \in [Procs -> ProcRecord]
  BY DEF TypeInv, TypeOK
<1>1. generation' = generation
  BY DEF StopStep, StopMark, StopResolve, StopFind, StopAwait, StopSettle, StopGate,
         StopLock, Acquire, StopSignal, StopWait, StopKilled, StopUnlock, watchdogVars
<1>2. ASSUME NEW p \in Procs, proc[p].st \in Ended
      PROVE  proc'[p].st \in Ended /\ proc'[p].id = proc[p].id
  <2>1. CASE UNCHANGED proc
    BY <1>2, <2>1
  <2>2. CASE StopSignal(t)
    BY <1>a, <1>2, <2>2 DEF StopSignal, ProcRecord
  <2>3. CASE StopWait(t)
    BY <1>a, <1>2, <2>3 DEF StopWait, ProcRecord, Ended
  <2> QED BY <2>1, <2>2, <2>3
          DEF StopStep, StopMark, StopResolve, StopFind, StopAwait, StopSettle, StopGate,
              StopLock, Acquire, StopKilled, StopUnlock
<1>3. CASE \A b \in Backoffs : g[b].id = i =>
             /\ g'[b].attached <=> g[b].attached
             /\ g'[b].expired <=> g[b].expired
             /\ g'[b].failed <=> g[b].failed
  BY <1>0, <1>1, <1>2, <1>3, OthersFollow
<1>4. CASE StopMark(t)
  <2>1. g[t].id \in Ids
    BY <1>4 DEF StopMark, TypeInv, Fits
  <2>2. CASE UNCHANGED g
    BY <1>3, <2>2
  <2>3. CASE userStopped' = userStopped \cup {g[t].id} /\ g' = PendingCancelled(g, g[t].id)
    <3>1. CASE i = g[t].id
      BY <2>3, <3>1 DEF Followed, Answered
    <3>2. CASE i # g[t].id
      BY <1>3, <2>1, <2>3, <3>2, CancelsItsOwn
    <3> QED BY <3>1, <3>2
  <2> QED BY <1>4, <2>2, <2>3 DEF StopMark
<1>5. CASE ~StopMark(t)
  <2>1. ASSUME NEW b \in Backoffs
        PROVE  /\ g'[b].attached <=> g[b].attached
               /\ g'[b].expired <=> g[b].expired
               /\ g'[b].failed <=> g[b].failed
    <3>1. CASE StopFind(t)
      BY <1>0, <1>a, <3>1 DEF StopFind, LocalRecord
    <3>2. CASE g'[b] = g[b]
      BY <3>2
    <3> QED BY <1>0, <1>a, <1>5, <3>1, <3>2
            DEF StopStep, StopResolve, StopAwait, AfterStop, StopSettle, StopGate,
                StopLock, Acquire, StopSignal, StopWait, StopKilled, StopUnlock
  <2> QED BY <1>3, <2>1
<1> QED BY <1>4, <1>5

(* Of the other requests, a DELETE's drop of the entry ends a recovery.    *)
LEMMA RequestFollowed ==
  ASSUME TypeInv, BackoffIsCancellable, NEW t \in Requests, RequestStep(t), NEW i \in Ids
  PROVE  Recovering(i) => Followed(i)
<1>0. Moves(t) /\ t \in Threads /\ t \notin Backoffs
  BY RequestMoves, NoneAssumption
<1>a. /\ pc \in [Threads -> Steps] /\ g \in [Threads -> LocalRecord]
      /\ generation \in [Ids -> Backoffs \cup {None}]
  BY DEF TypeInv, TypeOK
<1>1. UNCHANGED proc
  BY DEF RequestStep, DeleteBegin, DeleteRemove, DeleteDrop, DeleteEnd, ReloadLock, Acquire,
         ReloadCheck, ReloadVerify, ReloadWrite, ReloadPush, ReloadUnlock, CoreBegin,
         CoreEnd, EditGuard, EditStore
<1>2. CASE DeleteDrop(t)
  <2> DEFINE j == g[t].id
             f == PendingCancelled(g, j)
  <2>1. j \in Ids /\ generation' = [generation EXCEPT ![j] = None]
    BY <1>2 DEF DeleteDrop, DropWatchdog, TypeInv, Fits
  <2>2. CASE i = j
    <3>1. GivesUp(t)
      BY <1>a, <1>2 DEF DeleteDrop, GivesUp
    <3> QED BY <2>2, <3>1 DEF Followed
  <2>3. CASE i # j
    <3>1. ASSUME NEW b \in Backoffs, g[b].id = i
          PROVE  /\ g'[b].attached <=> g[b].attached
                 /\ g'[b].expired <=> g[b].expired
                 /\ g'[b].failed <=> g[b].failed
      <4>1. f[b] = g[b] /\ g[b] \in LocalRecord
        BY <1>a, <2>1, <2>3, <3>1, CancelsItsOwn
      <4>2. g'[b] = [f[b] EXCEPT !.attached = @ /\ g[b].id # j]
        BY <1>2 DEF DeleteDrop
      <4> HIDE DEF f, j
      <4> QED BY <2>3, <3>1, <4>1, <4>2 DEF LocalRecord
    <3>2. generation'[i] = generation[i]
      BY <1>a, <2>1, <2>3
    <3> QED BY <1>0, <1>1, <3>1, <3>2, OthersFollow
  <2> QED BY <2>2, <2>3
<1>3. CASE ~DeleteDrop(t)
  <2>1. UNCHANGED generation /\ \A b \in Backoffs : g'[b] = g[b]
    BY <1>0, <1>a, <1>3
       DEF RequestStep, DeleteBegin, DeleteRemove, DeleteEnd, ReloadLock, Acquire,
           ReloadCheck, ReloadVerify, ReloadWrite, ReloadPush, ReloadUnlock, CoreBegin,
           CoreEnd, EditGuard, EditStore, watchdogVars
  <2> QED BY <1>0, <1>1, <2>1, OthersFollow
<1> QED BY <1>2, <1>3

(* A backoff that ends hands the crash on to the relaunch, and a relaunch  *)
(* that failed to the next backoff.                                        *)
LEMMA WatchdogFollowed ==
  ASSUME TypeInv, NEW b \in Backoffs, WatchdogStep(b), NEW i \in Ids
  PROVE  Recovering(i) => Followed(i)
<1>0. Moves(b) /\ b \in Threads
  BY WatchdogMoves
<1>a. /\ pc \in [Threads -> Steps] /\ g \in [Threads -> LocalRecord]
      /\ b \in Threads
  BY DEF TypeInv, TypeOK
<1>1. UNCHANGED proc /\ \A c \in Backoffs \ {b} : g'[c] = g[c]
  BY <1>a DEF WatchdogStep, Wake, CheckEligible, Rearm, Arm, NotArmed, Relaunched, WatchHealthy
<1>2. CASE Wake(b)
  <2>1. ASSUME Handles(b, i) PROVE Followed(i)
    <3>1. SleepsFor(b, i)
      BY <1>2, <2>1 DEF Wake, Handles, Relaunching
    <3>2. CASE i \in userStopped
      BY <1>2, <3>2 DEF Wake, Followed, Answered
    <3>3. CASE i \notin userStopped
      <4>1. pc'[b] = "eligible" /\ g' = g
        BY <1>a, <1>2, <3>1, <3>3 DEF Wake, SleepsFor
      <4>2. Relaunching(b, i)'
        BY <3>1, <4>1 DEF Relaunching, SleepsFor
      <4> QED BY <4>2 DEF Followed, Recovering
    <3> QED BY <3>2, <3>3
  <2>2. UNCHANGED generation
    BY <1>2 DEF Wake
  <2> QED BY <1>0, <1>1, <2>1, <2>2, OthersFollow
<1>3. CASE CheckEligible(b)
  <2>1. ASSUME Handles(b, i) PROVE Followed(i)
    <3>1. Relaunching(b, i)
      BY <1>3, <2>1 DEF CheckEligible, Handles, SleepsFor
    <3>2. CASE Relaunchable(i)
      BY <1>0, <1>a, <1>3, <3>1, <3>2, RelaunchesStill DEF CheckEligible, Relaunching
    <3>3. CASE ~Relaunchable(i)
      BY <1>3, <3>3 DEF CheckEligible, Relaunchable, storeVars, Followed, Answered
    <3> QED BY <3>2, <3>3
  <2>2. UNCHANGED generation
    BY <1>3 DEF CheckEligible, watchdogVars
  <2> QED BY <1>0, <1>1, <2>1, <2>2, OthersFollow
<1>4. CASE Rearm(b)
  <2>1. g[b].id \in Ids
    BY <1>4 DEF Rearm, TypeInv, Fits
  <2>2. CASE i = g[b].id
    BY <1>4, <2>1, <2>2, ArmFollows, NotArmedFollows DEF Rearm
  <2>3. CASE i # g[b].id
    <3>1. generation'[i] = generation[i]
      BY <1>4, <2>1, <2>3, ArmFollows DEF Rearm, NotArmed
    <3>2. ~Handles(b, i)
      BY <2>3 DEF Handles, SleepsFor, Relaunching
    <3> QED BY <1>0, <1>1, <3>1, <3>2, OthersFollow
  <2> QED BY <2>2, <2>3
<1>5. CASE Relaunched(b) \/ WatchHealthy(b)
  <2>1. ~Handles(b, i) /\ UNCHANGED generation
    BY <1>5 DEF Relaunched, WatchHealthy, Handles, SleepsFor, Relaunching, watchdogVars
  <2> QED BY <1>0, <1>1, <2>1, OthersFollow
<1> QED BY <1>2, <1>3, <1>4, <1>5 DEF WatchdogStep

(* An exit goroutine keeps the crash in hand until it armed a backoff.     *)
LEMMA ExitFollowed ==
  ASSUME TypeInv, NEW p \in Procs, ExitStep(p), NEW i \in Ids
  PROVE  Recovering(i) => Followed(i)
<1>a. /\ proc \in [Procs -> ProcRecord]
      /\ pc \in [Threads -> Steps] /\ g \in [Threads -> LocalRecord]
  BY DEF TypeInv, TypeOK
<1>1. CASE Reap(p)
  <2>1. ASSUME NEW q \in Procs, proc[q].st \in Ended
        PROVE  proc'[q].st \in Ended /\ proc'[q].id = proc[q].id
    BY <1>a, <1>1, <2>1 DEF Reap, Ended
  <2>2. UNCHANGED <<pc, g, generation>>
    BY <1>1 DEF Reap, watchdogVars
  <2> QED BY <2>1, <2>2, FollowedIf
<1>2. CASE CloseDone(p)
  <2>1. ASSUME NEW q \in Procs, proc[q].st \in Ended
        PROVE  proc'[q].st \in Ended /\ proc'[q].id = proc[q].id
    BY <1>a, <1>2, <2>1 DEF CloseDone, Ended, ProcRecord
  <2>2. UNCHANGED <<pc, g, generation>>
    BY <1>2 DEF CloseDone, watchdogVars
  <2> QED BY <2>1, <2>2, FollowedIf
<1>3. CASE MaybeAutoRestart(p)
  <2>1. ASSUME NEW q \in Procs, proc[q].st \in Ended, proc[q].id = i
        PROVE  Followed(i) \/ (proc'[q].st \in Ended /\ proc'[q].id = i)
    <3>1. CASE q # p \/ Relaunchable(i)
      BY <1>a, <1>3, <2>1, <3>1 DEF MaybeAutoRestart, Ended, ProcRecord
    <3>2. CASE ~Relaunchable(i)
      BY <1>3, <3>2 DEF MaybeAutoRestart, Relaunchable, storeVars, Followed, Answered
    <3> QED BY <3>1, <3>2
  <2>2. UNCHANGED <<pc, g, generation>>
    BY <1>3 DEF MaybeAutoRestart, watchdogVars
  <2> QED BY <2>1, <2>2, FollowedIf
<1>4. CASE ScheduleRestart(p)
  <2> DEFINE j == proc[p].id
  <2>1. j \in Ids
    BY <1>4 DEF ScheduleRestart, TypeInv, ProcessOf
  <2>2. CASE i = j
    BY <1>4, <2>1, <2>2, ArmFollows, NotArmedFollows DEF ScheduleRestart
  <2>3. CASE i # j
    <3>1. generation'[i] = generation[i]
      BY <1>4, <2>1, <2>3, ArmFollows DEF ScheduleRestart, NotArmed
    <3>2. ASSUME NEW q \in Procs, proc[q].st \in Ended, proc[q].id = i
          PROVE  proc'[q].st \in Ended /\ proc'[q].id = i
      BY <1>a, <1>4, <2>3, <3>2 DEF ScheduleRestart
    <3>3. ASSUME NEW b \in Backoffs
          PROVE  (pc'[b] = pc[b] /\ g'[b] = g[b]) \/ ~Handles(b, i)
      BY <1>a, <1>4 DEF ScheduleRestart, Arm, Handles, SleepsFor, Relaunching
    <3> QED BY <3>1, <3>2, <3>3, FollowedIf
  <2> QED BY <2>2, <2>3
<1> QED BY <1>1, <1>2, <1>3, <1>4 DEF ExitStep

(* The environment reaches neither the watchdog nor an exit goroutine.     *)
LEMMA EnvironmentFollowed ==
  ASSUME TypeInv, Environment, NEW i \in Ids
  PROVE  Recovering(i) => Followed(i)
<1>1. UNCHANGED generation
  BY DEF Environment, Request, Expire, Create, EditAutoRestart, Die, Listen, watchdogVars
<1>2. ASSUME NEW b \in Backoffs PROVE pc'[b] = pc[b] /\ g'[b] = g[b]
  <2>1. b \notin Requests /\ pc \in [Threads -> Steps] /\ g \in [Threads -> LocalRecord]
    BY NoneAssumption DEF TypeInv, TypeOK
  <2> QED BY <2>1 DEF Environment, Request, Expire, Create, EditAutoRestart, Die, Listen
<1>3. ASSUME NEW p \in Procs, proc[p].st \in Ended
      PROVE  proc'[p].st \in Ended /\ proc'[p].id = proc[p].id
  <2>1. proc \in [Procs -> ProcRecord]
    BY DEF TypeInv, TypeOK
  <2> QED BY <1>3, <2>1
         DEF Environment, Request, Expire, Create, EditAutoRestart, Die, Listen, Ended, ProcRecord
<1> QED BY <1>1, <1>2, <1>3, FollowedIf

(* A crash that a goroutine has in hand stays in somebody's hands until it *)
(* is answered, a start is in flight, or a request gave it up: whatever    *)
(* backoff, relaunch, core update, Stop, Start and DELETE interleave.      *)
THEOREM CrashesFollowed == Spec => CrashIsFollowed
<1>1. ASSUME TypeInv, AttemptsAccounted, BackoffIsCancellable, Next, NEW i \in Ids
      PROVE  Recovering(i) => Followed(i)
  BY <1>1, StartFollowed, StopFollowed, RequestFollowed, WatchdogFollowed, ExitFollowed,
     EnvironmentFollowed DEF Next
<1>2. IInv => TypeInv /\ AttemptsAccounted
  BY DEF IInv
<1>3. IInv /\ BackoffIsCancellable /\ [Next]_vars => [\A i \in Ids : Recovering(i) =>
        \/ Recovering(i)' \/ Answered(i)' \/ starts'[i] # None
        \/ \E t \in Requests : g[t].id = i /\ GivesUp(t)]_vars
  BY <1>1, <1>2 DEF Followed
<1> QED BY <1>3, InvariantHolds, BackoffsCancellable, PTL DEF Spec, CrashIsFollowed

(* A step of Supervisor, or one that changes nothing it sees.              *)
SupervisorStep == [Promise!Next]_<<Running, coreUpdating>>

(* Supervisor sees neither goroutines nor locks.                           *)
LEMMA AlikeStutters ==
  ASSUME Alike, UNCHANGED coreUpdating
  PROVE  SupervisorStep
<1>1. Running' = Running
  BY DEF Running, Alike
<1> QED BY <1>1 DEF SupervisorStep

(* cmd.Start is Supervisor's Launch.                                       *)
LEMMA StartSimulates ==
  ASSUME IInv, NEW t \in Threads, StartStep(t)
  PROVE  SupervisorStep
<1>1. CASE UNCHANGED proc
  <2>1. UNCHANGED coreUpdating
    BY
       DEF StartStep, StartEnter, StartBlocked, StartNothing, StartRegister, StartLock,
           Acquire, StartCheck,
           StartRead, StartWrite, StartTest, StartSpawn, StartPublish, StartUnlock, StartCleanup
  <2> QED BY <1>1, <2>1, AlikeSame, AlikeStutters
<1>2. ASSUME NEW p \in Procs, FreeProc(p), At(t, "start_spawn"), UNCHANGED coreUpdating,
             proc' = [proc EXCEPT ![p] = [NoProc EXCEPT !.st = "alive",
                                            !.id = g[t].id, !.port = g[t].reserved]]
      PROVE  SupervisorStep
  <2> DEFINE i == g[t].id
  <2>1. proc \in [Procs -> ProcRecord] /\ i \in Ids /\ starts[i] = t /\ i \in starting /\ procs[i] = None
    BY <1>2, NoneAssumption
       DEF IInv, TypeInv, TypeOK, Fits, AttemptsAccounted, Attempting, Holding, Registered,
           Preparing
  <2>2. /\ proc'[p].st = "alive" /\ proc'[p].id = i
        /\ \A q \in Procs \ {p} : proc'[q] = proc[q]
    BY <1>2, <2>1 DEF NoProc
  <2>3. proc[p].st = "free"
    BY <1>2 DEF FreeProc
  <2>4. ~coreUpdating
    BY <2>1 DEF IInv, NothingRegistered
  <2>5. ASSUME NEW q \in Procs, Unreaped(q) PROVE q # p /\ proc[q].id # i
    <3>1. q # p
      BY <2>3, <2>5 DEF Unreaped
    <3>2. CASE procs[proc[q].id] = q
      BY <2>1, <3>1, <3>2, NoneAssumption
    <3>3. CASE \E u \in Threads : Publishing(u, q)
      <4>1. PICK u \in Threads : Publishing(u, q)
        BY <3>3
      <4>2. u # t
        BY <1>2, <4>1 DEF Publishing
      <4> QED BY <2>1, <3>1, <4>1, <4>2, PublisherIsStarting DEF Publishing
    <3> QED BY <2>5, <3>1, <3>2, <3>3 DEF IInv, Registered
  <2>6. Running' = Running \cup {<<p, i>>}
    BY <2>2, <2>3 DEF Running, Unreaped
  <2>7. \A r \in Running : r[1] # p /\ r[2] # i
    BY <2>5 DEF Running
  <2>8. Promise!Launch(p, i)
    BY <1>2, <2>4, <2>6, <2>7 DEF Promise!Launch
  <2> QED BY <2>1, <2>8 DEF SupervisorStep, Promise!Next
<1>3. StartSpawn(t) \/ UNCHANGED proc
  BY
     DEF StartStep, StartEnter, StartBlocked, StartNothing, StartRegister, StartLock,
         Acquire, StartCheck,
         StartRead, StartWrite, StartTest, StartPublish, StartUnlock, StartCleanup
<1> QED BY <1>1, <1>2, <1>3 DEF StartSpawn

(* BeginCoreUpdate and EndCoreUpdate are Supervisor's BeginSwap and        *)
(* EndSwap.                                                                *)
LEMMA RequestSimulates ==
  ASSUME IInv, NEW t \in Requests, RequestStep(t)
  PROVE  SupervisorStep
<1>1. UNCHANGED proc
  BY
     DEF RequestStep, DeleteBegin, DeleteRemove, DeleteDrop, DropWatchdog, DeleteEnd, ReloadLock,
         Acquire, ReloadCheck,
         ReloadVerify, ReloadWrite, ReloadPush, ReloadUnlock, CoreBegin, CoreEnd, EditGuard, EditStore
<1>2. Running' = Running
  BY <1>1 DEF Running, Unreaped
<1>3. CASE UNCHANGED coreUpdating
  BY <1>1, <1>3, AlikeSame, AlikeStutters
<1>4. CASE CoreBegin(t) /\ ~UNCHANGED coreUpdating
  <2>1. starting = {} /\ (\A i \in Ids : procs[i] = None) /\ ~coreUpdating /\ coreUpdating' = TRUE
    BY <1>4 DEF CoreBegin
  <2>2. \A p \in Procs : ~Unreaped(p)
    <3> SUFFICES ASSUME NEW p \in Procs, Unreaped(p) PROVE FALSE
      OBVIOUS
    <3>1. proc[p].id \in Ids
      BY DEF IInv, TypeInv, ProcessOf, Unreaped
    <3>2. PICK u \in Threads : Publishing(u, p)
      BY <2>1, <3>1, NoneAssumption DEF IInv, Registered
    <3> QED BY <2>1, <3>2, PublisherIsStarting
  <2>3. Running = {}
    BY <2>2 DEF Running
  <2> QED BY <1>2, <2>1, <2>3 DEF SupervisorStep, Promise!Next, Promise!BeginSwap
<1>5. CASE CoreEnd(t)
  BY <1>2, <1>5 DEF CoreEnd, SupervisorStep, Promise!Next, Promise!EndSwap
<1>6. CoreBegin(t) \/ CoreEnd(t) \/ UNCHANGED coreUpdating
  BY
     DEF RequestStep, DeleteBegin, DeleteRemove, DeleteDrop, DropWatchdog, DeleteEnd, ReloadLock,
         Acquire, ReloadCheck,
         ReloadVerify, ReloadWrite, ReloadPush, ReloadUnlock, EditGuard, EditStore
<1> QED BY <1>3, <1>4, <1>5, <1>6

(* Reaping a process is Supervisor's Exit.                                 *)
LEMMA ExitSimulates ==
  ASSUME IInv, NEW p \in Procs, ExitStep(p)
  PROVE  SupervisorStep
<1>1. UNCHANGED coreUpdating
  BY DEF ExitStep, Reap, CloseDone, MaybeAutoRestart, ScheduleRestart
<1>2. CASE Reap(p)
  <2>1. proc[p].st = "dead" /\ proc \in [Procs -> ProcRecord]
    BY <1>2 DEF Reap, IInv, TypeInv, TypeOK
  <2>2. proc'[p].st \notin {"alive", "dead"} /\ \A q \in Procs \ {p} : proc'[q] = proc[q]
    BY <1>2, <2>1 DEF Reap, ProcRecord
  <2>3. Running' = Running \ {<<p, proc[p].id>>}
    BY <2>1, <2>2 DEF Running, Unreaped
  <2>4. <<p, proc[p].id>> \in Running
    BY <2>1 DEF Running, Unreaped
  <2>5. Promise!Exit(<<p, proc[p].id>>)
    BY <1>1, <2>3 DEF Promise!Exit
  <2> QED BY <2>4, <2>5 DEF SupervisorStep, Promise!Next
<1>3. CASE CloseDone(p) \/ MaybeAutoRestart(p)
  BY <1>1, <1>3, ClosingQuiet, AlikeStutters DEF IInv
<1>4. CASE ScheduleRestart(p)
  <2>1. proc[p].st = "arming" /\ proc' = [proc EXCEPT ![p] = NoProc] /\ proc \in [Procs -> ProcRecord]
    BY <1>4 DEF ScheduleRestart, IInv, TypeInv, TypeOK
  <2>2. proc'[p].st = "free" /\ \A q \in Procs \ {p} : proc'[q] = proc[q]
    BY <2>1 DEF NoProc
  <2>3. Alike
    BY <2>1, <2>2 DEF Alike, Unreaped
  <2> QED BY <1>1, <2>3, AlikeStutters
<1> QED BY <1>2, <1>3, <1>4 DEF ExitStep

(* Every step is one of Supervisor's, or a stutter.                        *)
LEMMA NextSimulates == IInv /\ [Next]_vars => SupervisorStep
<1> SUFFICES ASSUME IInv, [Next]_vars PROVE SupervisorStep
  OBVIOUS
<1>1. ASSUME NEW t \in Threads, StartStep(t) PROVE SupervisorStep
  BY <1>1, StartSimulates
<1>2. ASSUME NEW t \in Requests, StopStep(t) PROVE SupervisorStep
  <2>1. UNCHANGED coreUpdating
    BY <1>2
       DEF StopStep, StopMark, StopResolve, StopFind, StopAwait, StopSettle, StopGate,
           StopLock, Acquire, StopSignal, StopWait, StopKilled, StopUnlock
  <2> QED BY <1>2, <2>1, AlikeStopping, AlikeStutters DEF IInv
<1>3. ASSUME NEW t \in Requests, RequestStep(t) PROVE SupervisorStep
  BY <1>3, RequestSimulates
<1>4. ASSUME NEW b \in Backoffs, WatchdogStep(b) PROVE SupervisorStep
  <2>1. UNCHANGED <<proc, coreUpdating>>
    BY <1>4 DEF WatchdogStep, Wake, CheckEligible, Rearm, Relaunched, WatchHealthy
  <2> QED BY <2>1, AlikeSame, AlikeStutters
<1>5. ASSUME NEW p \in Procs, ExitStep(p) PROVE SupervisorStep
  BY <1>5, ExitSimulates
<1>6. CASE Environment
  <2>1. UNCHANGED coreUpdating
    BY <1>6 DEF Environment, Request, Expire, Create, EditAutoRestart, Die, Listen
  <2>2. (\E p \in Procs : Die(p) \/ Listen(p)) \/ UNCHANGED proc
    BY <1>6 DEF Environment, Request, Expire, Create, EditAutoRestart
  <2> QED BY <2>1, <2>2, AlikeSame, DyingQuiet, AlikeStutters DEF IInv
<1>7. CASE UNCHANGED vars
  BY <1>7, AlikeSame, AlikeStutters DEF vars
<1> QED BY <1>1, <1>2, <1>3, <1>4, <1>5, <1>6, <1>7 DEF Next

(* Manager, with all its locks, attempts and backoffs, keeps the promise   *)
(* of Supervisor.                                                          *)
THEOREM Implements == Spec => ImplementsSupervisor
<1>1. Init => Promise!Init
  BY DEF Init, Promise!Init, Running, Unreaped, NoProc
<1> QED BY <1>1, NextSimulates, InvariantHolds, PTL
           DEF Spec, ImplementsSupervisor, Promise!Spec, SupervisorStep
=============================================================================
