--------------------------- MODULE LifecycleSteps ---------------------------
(*****************************************************************************)
(* The parts of Lifecycle's inductive invariant, and for each of them one    *)
(* lemma per group of steps that says that the group keeps it.  First comes  *)
(* who excludes whom: the accounts of the attempts in flight, the lifecycle  *)
(* mutex, procs and the processes that exist, the core-update gate.  Then    *)
(* what the goroutines rely on while they hold the mutex or an attempt: the  *)
(* tested configuration, the process to reload, the port on record, a watchdog  *)
(* that yields to a Stop, and waits that end.                                *)
(*****************************************************************************)
EXTENDS LifecycleTypes

USE DEF At, Goto, Finish, Fail, Threads

(* Manager.lifecycle excludes: its holder is the one whose program counter *)
(* is between Lock and Unlock.                                             *)
MutexHeld == /\ \A t \in Threads : pc[t] \in HoldsLock => lifecycle[g[t].id] = t
             /\ MutexInUse

(* The steps of a start before procs names its process.                    *)
Preparing == {"start_lock", "start_check", "start_read", "start_write", "start_test",
              "start_spawn", "start_publish"}

(* t has spawned p and has not stored it in procs yet.                     *)
Publishing(t, p) == pc[t] = "start_publish" /\ g[t].ps = p /\ g[t].id = proc[p].id

(* procs and the processes that exist agree, up to the start that is about *)
(* to publish one; a start prepares only for an instance that has none.    *)
Registered ==
  /\ \A p \in Procs : Unreaped(p) => \/ procs[proc[p].id] = p
                                     \/ \E t \in Threads : Publishing(t, p)
  /\ \A t \in Threads : pc[t] \in Preparing => procs[g[t].id] = None
  /\ \A t \in Threads : pc[t] = "start_publish" =>
       Unreaped(g[t].ps) /\ proc[g[t].ps].id = g[t].id
  /\ \A i \in Ids : procs[i] # None => Unreaped(procs[i]) /\ proc[procs[i]].id = i

(* The range of the program counters, for the leaves below.                *)
LEMMA ControlTyped ==
  ASSUME TypeInv
  PROVE  pc \in [Threads -> Steps]
  BY DEF TypeInv, TypeOK

(* A step that neither begins nor ends an attempt keeps the accounts.      *)
LEMMA AttemptsKept ==
  ASSUME TypeInv, AttemptsAccounted, NEW t \in Threads, Moves(t), UNCHANGED attemptVars,
         pc[t] \in Attempting <=> pc'[t] \in Attempting
  PROVE  AttemptsAccounted'
<1>1. ASSUME NEW u \in Threads
      PROVE  /\ pc'[u] \in Attempting <=> pc[u] \in Attempting
             /\ pc[u] \in Attempting => g'[u].id = g[u].id /\ g'[u].reserved = g[u].reserved
  BY DEF Moves, Frame, Carries, Attempting, Holding
<1>2. /\ \A u \in Threads : pc[u] \in Attempting => g[u].id \in Ids /\ g[u].reserved \in Ports
      /\ \A i \in Ids : starts[i] # None => starts[i] \in Threads
      /\ \A n \in Ports : reservedPorts[n] # None => reservedPorts[n] \in Ids
  BY DEF TypeInv, TypeOK, Fits, HasPort, Attempting, Holding
<1>3. UNCHANGED <<starting, starts, reservedPorts>>
  BY DEF attemptVars
<1>4. (\A u \in Threads : pc[u] \in Attempting =>
         starts[g[u].id] = u /\ reservedPorts[g[u].reserved] = g[u].id)'
  BY <1>1, <1>3 DEF AttemptsAccounted
<1>5. (\A i \in Ids : i \in starting <=> starts[i] # None)'
  BY <1>3 DEF AttemptsAccounted
<1>6. (\A i \in Ids : starts[i] # None => pc[starts[i]] \in Attempting /\ g[starts[i]].id = i)'
  BY <1>1, <1>2, <1>3 DEF AttemptsAccounted
<1>7. (\A n \in Ports : reservedPorts[n] # None =>
       LET u == starts[reservedPorts[n]] IN u # None /\ g[u].reserved = n)'
  <2> SUFFICES ASSUME NEW n \in Ports, reservedPorts[n] # None
               PROVE  starts[reservedPorts[n]] # None /\ g'[starts[reservedPorts[n]]].reserved = n
    BY <1>3
  <2>1. reservedPorts[n] \in Ids /\ starts[reservedPorts[n]] # None /\ g[starts[reservedPorts[n]]].reserved = n
    BY <1>2 DEF AttemptsAccounted
  <2>2. starts[reservedPorts[n]] \in Threads /\ pc[starts[reservedPorts[n]]] \in Attempting
    BY <1>2, <2>1 DEF AttemptsAccounted
  <2> QED BY <1>1, <2>1, <2>2
<1> QED BY <1>4, <1>5, <1>6, <1>7 DEF AttemptsAccounted

(* startContext registers an attempt and, in its deferred cleanup, removes *)
(* it.                                                                     *)
LEMMA StartAttempts ==
  ASSUME TypeInv, AttemptsAccounted, NEW t \in Threads, StartStep(t)
  PROVE  AttemptsAccounted'
<1>0. Moves(t) /\ pc \in [Threads -> Steps]
  BY StartMoves, ControlTyped
<1>1. CASE StartEnter(t)
  BY <1>0, <1>1, AttemptsKept DEF StartEnter, StartFailed, Attempting, Holding
<1>2. CASE StartBlocked(t)
  BY <1>0, <1>2, AttemptsKept DEF StartBlocked, StartFailed, Attempting, Holding
<1>3. CASE StartNothing(t)
  BY <1>0, <1>3, AttemptsKept DEF StartNothing, Attempting, Holding
<1>4. CASE StartRegister(t)
  <2> DEFINE i == g[t].id
             n == g[t].reserved
  <2>1. CASE UNCHANGED attemptVars
    <3>1. pc'[t] \in {"idle", "rearm", "start_lock"} /\ pc[t] = "start_register"
      BY <1>0, <1>4 DEF StartRegister
    <3>2. pc'[t] = "start_lock" => i \in starting'
      BY <1>0, <1>4, <2>1 DEF StartRegister
    <3>3. i \notin starting
      BY <1>4 DEF StartRegister, Busy
    <3> QED BY <1>0, <2>1, <3>1, <3>2, <3>3, AttemptsKept
           DEF attemptVars, Attempting, Holding
  <2>2. CASE ~UNCHANGED attemptVars
    <3>1. /\ starting' = starting \cup {i}
          /\ starts' = [starts EXCEPT ![i] = t]
          /\ reservedPorts' = [reservedPorts EXCEPT ![n] = i]
          /\ pc' = [pc EXCEPT ![t] = "start_lock"]
          /\ pc[t] = "start_register" /\ i \notin starting
          /\ reservedPorts[n] \in {None, i}
      BY <1>4, <2>2 DEF StartRegister, Busy, PortTaken
    <3>2. /\ i \in Ids /\ n \in Ports
          /\ starts \in [Ids -> Threads \cup {None}]
          /\ reservedPorts \in [Ports -> Ids \cup {None}]
          /\ \A u \in Threads : pc[u] \in Attempting => g[u].id \in Ids /\ g[u].reserved \in Ports
      BY <3>1 DEF TypeInv, TypeOK, Fits, HasPort, Attempting, Holding
    <3>3. starts[i] = None /\ reservedPorts[n] = None
      BY <3>1, <3>2 DEF AttemptsAccounted
    <3>4. /\ pc'[t] = "start_lock" /\ g'[t].id = i /\ g'[t].reserved = n
          /\ \A u \in Threads \ {t} : pc'[u] = pc[u] /\ g'[u].id = g[u].id /\ g'[u].reserved = g[u].reserved
      BY <1>0, <3>1 DEF Moves, Frame, Carries, Attempting
    <3> HIDE DEF i, n
    <3>5. (\A u \in Threads : pc[u] \in Attempting =>
             starts[g[u].id] = u /\ reservedPorts[g[u].reserved] = g[u].id)'
      BY <3>1, <3>2, <3>3, <3>4, NoneAssumption DEF AttemptsAccounted
    <3>6. (\A j \in Ids : j \in starting <=> starts[j] # None)'
      BY <3>1, <3>2, NoneAssumption DEF AttemptsAccounted
    <3>7. (\A j \in Ids : starts[j] # None => pc[starts[j]] \in Attempting /\ g[starts[j]].id = j)'
      BY <3>1, <3>2, <3>4 DEF AttemptsAccounted, Attempting, Holding
    <3>8. (\A m \in Ports : reservedPorts[m] # None =>
             LET u == starts[reservedPorts[m]] IN u # None /\ g[u].reserved = m)'
      <4> SUFFICES ASSUME NEW m \in Ports, m # n, reservedPorts[m] # None
                   PROVE  starts'[reservedPorts[m]] # None /\ g'[starts'[reservedPorts[m]]].reserved = m
        BY <3>1, <3>2, <3>4, NoneAssumption
      <4> DEFINE u == starts[reservedPorts[m]]
      <4>1. reservedPorts[m] \in Ids /\ u # None /\ g[u].reserved = m
        BY <3>2 DEF AttemptsAccounted
      <4>2. reservedPorts[m] # i /\ u \in Threads /\ pc[u] \in Attempting
        BY <3>2, <3>3, <4>1 DEF AttemptsAccounted
      <4>3. u # t
        BY <3>1, <4>2 DEF Attempting, Holding
      <4> QED BY <3>1, <3>4, <4>1, <4>2, <4>3
    <3> QED BY <3>5, <3>6, <3>7, <3>8 DEF AttemptsAccounted
  <2> QED BY <2>1, <2>2
<1>5. CASE StartLock(t)
  BY <1>0, <1>5, AttemptsKept DEF StartLock, Acquire, Attempting, Holding
<1>6. CASE StartCheck(t)
  BY <1>0, <1>6, AttemptsKept DEF StartCheck, Attempting, Holding
<1>7. CASE StartRead(t)
  BY <1>0, <1>7, AttemptsKept DEF StartRead, Attempting, Holding
<1>8. CASE StartWrite(t)
  BY <1>0, <1>8, AttemptsKept DEF StartWrite, Attempting, Holding
<1>9. CASE StartTest(t)
  BY <1>0, <1>9, AttemptsKept DEF StartTest, Attempting, Holding
<1>10. CASE StartSpawn(t)
  BY <1>0, <1>10, AttemptsKept DEF StartSpawn, Attempting, Holding
<1>11. CASE StartPublish(t)
  BY <1>0, <1>11, AttemptsKept DEF StartPublish, Attempting, Holding
<1>12. CASE StartUnlock(t)
  BY <1>0, <1>12, AttemptsKept DEF StartUnlock, Attempting, Holding
<1>13. CASE StartCleanup(t)
  <2> DEFINE i == g[t].id
             n == g[t].reserved
  <2>1. /\ starting' = starting \ {i}
        /\ starts' = [starts EXCEPT ![i] = IF @ = t THEN None ELSE @]
        /\ reservedPorts' = [reservedPorts EXCEPT ![n] = IF @ = i THEN None ELSE @]
        /\ pc[t] = "start_cleanup" /\ pc'[t] \in {"idle", "rearm", "relaunched"}
    BY <1>0, <1>13 DEF StartCleanup
  <2>2. /\ i \in Ids /\ n \in Ports
        /\ starts \in [Ids -> Threads \cup {None}]
        /\ reservedPorts \in [Ports -> Ids \cup {None}]
        /\ \A u \in Threads : pc[u] \in Attempting => g[u].id \in Ids /\ g[u].reserved \in Ports
    BY <2>1 DEF TypeInv, TypeOK, Fits, HasPort, Attempting, Holding
  <2>3. starts[i] = t /\ reservedPorts[n] = i
    BY <2>1 DEF AttemptsAccounted, Attempting
  <2>4. \A u \in Threads \ {t} : pc'[u] = pc[u] /\ g'[u].id = g[u].id /\ g'[u].reserved = g[u].reserved
    BY <1>0 DEF Moves, Frame
  <2>5. pc'[t] \notin Attempting
    BY <2>1 DEF Attempting, Holding
  <2> HIDE DEF i, n
  <2>6. (\A u \in Threads : pc[u] \in Attempting =>
           starts[g[u].id] = u /\ reservedPorts[g[u].reserved] = g[u].id)'
    BY <2>1, <2>2, <2>3, <2>4, <2>5 DEF AttemptsAccounted
  <2>7. (\A j \in Ids : j \in starting <=> starts[j] # None)'
    BY <2>1, <2>2, <2>3 DEF AttemptsAccounted
  <2>8. (\A j \in Ids : starts[j] # None => pc[starts[j]] \in Attempting /\ g[starts[j]].id = j)'
    BY <2>1, <2>2, <2>3, <2>4 DEF AttemptsAccounted, i
  <2>9. (\A m \in Ports : reservedPorts[m] # None =>
           LET u == starts[reservedPorts[m]] IN u # None /\ g[u].reserved = m)'
    <3> SUFFICES ASSUME NEW m \in Ports, m # n, reservedPorts[m] # None
                 PROVE  starts'[reservedPorts[m]] # None /\ g'[starts'[reservedPorts[m]]].reserved = m
      BY <2>1, <2>2, <2>3
    <3> DEFINE u == starts[reservedPorts[m]]
    <3>1. reservedPorts[m] \in Ids /\ u # None /\ g[u].reserved = m /\ u \in Threads
      BY <2>2 DEF AttemptsAccounted
    <3>2. reservedPorts[m] # i /\ u # t
      BY <2>3, <3>1 DEF n
    <3> QED BY <2>1, <2>2, <2>4, <3>1, <3>2
  <2> QED BY <2>6, <2>7, <2>8, <2>9 DEF AttemptsAccounted
<1> QED BY <1>1, <1>2, <1>3, <1>4, <1>5, <1>6, <1>7, <1>8, <1>9, <1>10, <1>11, <1>12, <1>13
           DEF StartStep

(* StopContext cancels attempts but leaves the accounts to their owners.   *)
LEMMA StopAttempts ==
  ASSUME TypeInv, AttemptsAccounted, NEW t \in Requests, StopStep(t)
  PROVE  AttemptsAccounted'
<1>0. Moves(t) /\ pc \in [Threads -> Steps]
  BY StopMoves, ControlTyped
<1>1. CASE StopMark(t)
  BY <1>0, <1>1, AttemptsKept DEF StopMark, Attempting, Holding
<1>2. CASE StopResolve(t)
  BY <1>0, <1>2, AttemptsKept DEF StopResolve, Attempting, Holding
<1>3. CASE StopFind(t)
  BY <1>0, <1>3, AttemptsKept DEF StopFind, Attempting, Holding
<1>4. CASE StopAwait(t)
  BY <1>0, <1>4, AttemptsKept DEF StopAwait, AfterStop, Attempting, Holding
<1>5. CASE StopSettle(t)
  BY <1>0, <1>5, AttemptsKept DEF StopSettle, Attempting, Holding
<1>6. CASE StopGate(t)
  BY <1>0, <1>6, AttemptsKept DEF StopGate, AfterStop, Attempting, Holding
<1>7. CASE StopLock(t)
  BY <1>0, <1>7, AttemptsKept DEF StopLock, Acquire, Attempting, Holding
<1>8. CASE StopSignal(t)
  BY <1>0, <1>8, AttemptsKept DEF StopSignal, Attempting, Holding
<1>9. CASE StopWait(t)
  BY <1>0, <1>9, AttemptsKept DEF StopWait, Attempting, Holding
<1>10. CASE StopKilled(t)
  BY <1>0, <1>10, AttemptsKept DEF StopKilled, Attempting, Holding
<1>11. CASE StopUnlock(t)
  BY <1>0, <1>11, AttemptsKept DEF StopUnlock, AfterStop, Attempting, Holding
<1> QED BY <1>1, <1>2, <1>3, <1>4, <1>5, <1>6, <1>7, <1>8, <1>9, <1>10, <1>11 DEF StopStep

(* The other requests have no attempt.                                     *)
LEMMA RequestAttempts ==
  ASSUME TypeInv, AttemptsAccounted, NEW t \in Requests, RequestStep(t)
  PROVE  AttemptsAccounted'
<1>0. Moves(t) /\ pc \in [Threads -> Steps]
  BY RequestMoves, ControlTyped
<1>1. CASE DeleteBegin(t)
  BY <1>0, <1>1, AttemptsKept DEF DeleteBegin, Attempting, Holding
<1>2. CASE DeleteRemove(t)
  BY <1>0, <1>2, AttemptsKept DEF DeleteRemove, Attempting, Holding
<1>3. CASE DeleteDrop(t)
  BY <1>0, <1>3, AttemptsKept DEF DeleteDrop, DropWatchdog, Attempting, Holding
<1>4. CASE DeleteEnd(t)
  BY <1>0, <1>4, AttemptsKept DEF DeleteEnd, Attempting, Holding
<1>5. CASE ReloadLock(t)
  BY <1>0, <1>5, AttemptsKept DEF ReloadLock, Acquire, Attempting, Holding
<1>6. CASE ReloadCheck(t)
  BY <1>0, <1>6, AttemptsKept DEF ReloadCheck, Attempting, Holding
<1>7. CASE ReloadVerify(t)
  BY <1>0, <1>7, AttemptsKept DEF ReloadVerify, Attempting, Holding
<1>8. CASE ReloadWrite(t)
  BY <1>0, <1>8, AttemptsKept DEF ReloadWrite, Attempting, Holding
<1>9. CASE ReloadPush(t)
  BY <1>0, <1>9, AttemptsKept DEF ReloadPush, Attempting, Holding
<1>10. CASE ReloadUnlock(t)
  BY <1>0, <1>10, AttemptsKept DEF ReloadUnlock, Attempting, Holding
<1>11. CASE CoreBegin(t)
  BY <1>0, <1>11, AttemptsKept DEF CoreBegin, Attempting, Holding
<1>12. CASE CoreEnd(t)
  BY <1>0, <1>12, AttemptsKept DEF CoreEnd, Attempting, Holding
<1>13. CASE EditGuard(t)
  BY <1>0, <1>13, AttemptsKept DEF EditGuard, Attempting, Holding
<1>14. CASE EditStore(t)
  BY <1>0, <1>14, AttemptsKept DEF EditStore, Attempting, Holding
<1> QED BY <1>1, <1>2, <1>3, <1>4, <1>5, <1>6, <1>7, <1>8, <1>9, <1>10, <1>11, <1>12, <1>13,
           <1>14 DEF RequestStep

(* The watchdog has none outside startContext.                             *)
LEMMA WatchdogAttempts ==
  ASSUME TypeInv, AttemptsAccounted, NEW b \in Backoffs, WatchdogStep(b)
  PROVE  AttemptsAccounted'
<1>0. Moves(b) /\ pc \in [Threads -> Steps]
  BY WatchdogMoves, ControlTyped
<1>1. CASE Wake(b)
  BY <1>0, <1>1, AttemptsKept DEF Wake, Attempting, Holding
<1>2. CASE CheckEligible(b)
  BY <1>0, <1>2, AttemptsKept DEF CheckEligible, Attempting, Holding
<1>3. CASE Rearm(b)
  BY <1>0, <1>3, AttemptsKept DEF Rearm, Arm, Attempting, Holding
<1>4. CASE Relaunched(b)
  BY <1>0, <1>4, AttemptsKept DEF Relaunched, Attempting, Holding
<1>5. CASE WatchHealthy(b)
  BY <1>0, <1>5, AttemptsKept DEF WatchHealthy, Attempting, Holding
<1> QED BY <1>1, <1>2, <1>3, <1>4, <1>5 DEF WatchdogStep

(* A step that neither locks nor unlocks.                                  *)
LEMMA MutexKept ==
  ASSUME TypeInv, MutexHeld, NEW t \in Threads, Moves(t), UNCHANGED lifecycle,
         pc'[t] \in HoldsLock <=> pc[t] \in HoldsLock
  PROVE  MutexHeld'
<1>1. ASSUME NEW u \in Threads
      PROVE  /\ pc'[u] \in HoldsLock <=> pc[u] \in HoldsLock
             /\ pc[u] \in HoldsLock => g'[u].id = g[u].id
  BY DEF Moves, Frame, Carries, HoldsLock, Holding, StopWaiting, Reloading
<1>2. \A i \in Ids : lifecycle[i] # None => lifecycle[i] \in Threads
  BY DEF TypeInv, TypeOK
<1> QED BY <1>1, <1>2 DEF MutexHeld, MutexInUse

(* A step that locks.                                                      *)
LEMMA MutexAcquired ==
  ASSUME TypeInv, MutexHeld, NEW t \in Threads, Moves(t), NEW from \in Steps \ HoldsLock,
         NEW to \in HoldsLock, Acquire(t, from, to), from # "idle"
  PROVE  MutexHeld'
<1>1. /\ lifecycle[g[t].id] = None /\ lifecycle' = [lifecycle EXCEPT ![g[t].id] = t]
      /\ lifecycle \in [Ids -> Threads \cup {None}] /\ g[t].id \in Ids
      /\ g' = g /\ pc[t] = from /\ pc'[t] = to
  BY DEF Acquire, TypeInv, TypeOK, Fits
<1>2. \A u \in Threads \ {t} : pc'[u] = pc[u]
  BY DEF Moves, Frame
<1>3. \A u \in Threads : pc'[u] \in HoldsLock => lifecycle'[g'[u].id] = u
  <2> SUFFICES ASSUME NEW u \in Threads \ {t}, pc[u] \in HoldsLock
               PROVE  lifecycle'[g[u].id] = u
    BY <1>1, <1>2
  <2>1. g[u].id \in Ids /\ lifecycle[g[u].id] = u /\ u # None
    BY NoneAssumption DEF MutexHeld, TypeInv, Fits, HoldsLock, Holding, StopWaiting, Reloading
  <2> QED BY <1>1, <2>1
<1>4. MutexInUse'
  <2> SUFFICES ASSUME NEW i \in Ids, lifecycle'[i] # None
               PROVE  pc'[lifecycle'[i]] \in HoldsLock /\ g'[lifecycle'[i]].id = i
    BY DEF MutexInUse
  <2>1. CASE i = g[t].id
    BY <1>1, <2>1
  <2>2. CASE i # g[t].id
    BY <1>1, <1>2, <2>2 DEF MutexHeld, MutexInUse
  <2> QED BY <2>1, <2>2
<1> QED BY <1>3, <1>4 DEF MutexHeld

(* A step that unlocks excludes nobody else.                               *)
LEMMA MutexReleased ==
  ASSUME TypeInv, MutexHeld, NEW t \in Threads, Moves(t), Release(t, g[t].id),
         pc[t] \in HoldsLock, pc'[t] \notin HoldsLock
  PROVE  MutexHeld'
<1>1. \A u \in Threads : pc[u] \in HoldsLock => g[u].id \in Ids /\ lifecycle[g[u].id] = u
  BY DEF MutexHeld, TypeInv, Fits, HoldsLock, Holding, StopWaiting, Reloading
<1>2. \A u \in Threads \ {t} : pc'[u] = pc[u] /\ g'[u].id = g[u].id
  BY DEF Moves, Frame
<1>3. lifecycle' = [lifecycle EXCEPT ![g[t].id] = None] /\ lifecycle \in [Ids -> Threads \cup {None}]
  BY DEF Release, TypeInv, TypeOK
<1>4. \A u \in Threads : pc'[u] \in HoldsLock => lifecycle'[g'[u].id] = u
  BY <1>1, <1>2, <1>3
<1>5. MutexInUse'
  BY <1>1, <1>2, <1>3 DEF MutexHeld, MutexInUse
<1> QED BY <1>4, <1>5 DEF MutexHeld

(* startContext locks once and unlocks in its defer.                       *)
LEMMA StartMutex ==
  ASSUME TypeInv, MutexHeld, NEW t \in Threads, StartStep(t)
  PROVE  MutexHeld'
<1>0. Moves(t) /\ pc \in [Threads -> Steps]
  BY StartMoves, ControlTyped
<1>1. CASE StartEnter(t)
  BY <1>0, <1>1, MutexKept, MutexReleased, MutexAcquired
     DEF StartEnter, StartFailed, HoldsLock, Holding, StopWaiting, Reloading
<1>2. CASE StartBlocked(t)
  BY <1>0, <1>2, MutexKept, MutexReleased, MutexAcquired
     DEF StartBlocked, StartFailed, HoldsLock, Holding, StopWaiting, Reloading
<1>3. CASE StartNothing(t)
  BY <1>0, <1>3, MutexKept, MutexReleased, MutexAcquired
     DEF StartNothing, HoldsLock, Holding, StopWaiting, Reloading
<1>4. CASE StartRegister(t)
  BY <1>0, <1>4, MutexKept, MutexReleased, MutexAcquired
     DEF StartRegister, HoldsLock, Holding, StopWaiting, Reloading
<1>5. CASE StartLock(t)
  <2>1. "start_lock" \in Steps \ HoldsLock /\ "start_check" \in HoldsLock
    BY DEF Steps, Attempting, HoldsLock, Holding, StopWaiting, Reloading
  <2> QED BY <1>0, <1>5, <2>1, MutexAcquired DEF StartLock
<1>6. CASE StartCheck(t)
  BY <1>0, <1>6, MutexKept, MutexReleased, MutexAcquired DEF StartCheck, HoldsLock, Holding
<1>7. CASE StartRead(t)
  BY <1>0, <1>7, MutexKept, MutexReleased, MutexAcquired DEF StartRead, HoldsLock, Holding
<1>8. CASE StartWrite(t)
  BY <1>0, <1>8, MutexKept, MutexReleased, MutexAcquired DEF StartWrite, HoldsLock, Holding
<1>9. CASE StartTest(t)
  BY <1>0, <1>9, MutexKept, MutexReleased, MutexAcquired DEF StartTest, HoldsLock, Holding
<1>10. CASE StartSpawn(t)
  BY <1>0, <1>10, MutexKept, MutexReleased, MutexAcquired
     DEF StartSpawn, HoldsLock, Holding
<1>11. CASE StartPublish(t)
  BY <1>0, <1>11, MutexKept, MutexReleased, MutexAcquired
     DEF StartPublish, HoldsLock, Holding
<1>12. CASE StartUnlock(t)
  BY <1>0, <1>12, MutexKept, MutexReleased, MutexAcquired
     DEF StartUnlock, HoldsLock, Holding, StopWaiting, Reloading
<1>13. CASE StartCleanup(t)
  BY <1>0, <1>13, MutexKept, MutexReleased, MutexAcquired
     DEF StartCleanup, HoldsLock, Holding, StopWaiting, Reloading
<1> QED BY <1>1, <1>2, <1>3, <1>4, <1>5, <1>6, <1>7, <1>8, <1>9, <1>10, <1>11, <1>12, <1>13
           DEF StartStep

(* StopContext locks before it signals and unlocks when it returns.        *)
LEMMA StopMutex ==
  ASSUME TypeInv, MutexHeld, NEW t \in Requests, StopStep(t)
  PROVE  MutexHeld'
<1>0. Moves(t) /\ pc \in [Threads -> Steps]
  BY StopMoves, ControlTyped
<1>1. CASE StopMark(t)
  BY <1>0, <1>1, MutexKept, MutexReleased, MutexAcquired
     DEF StopMark, HoldsLock, Holding, StopWaiting, Reloading
<1>2. CASE StopResolve(t)
  BY <1>0, <1>2, MutexKept, MutexReleased, MutexAcquired
     DEF StopResolve, HoldsLock, Holding, StopWaiting, Reloading
<1>3. CASE StopFind(t)
  BY <1>0, <1>3, MutexKept, MutexReleased, MutexAcquired
     DEF StopFind, HoldsLock, Holding, StopWaiting, Reloading
<1>4. CASE StopAwait(t)
  BY <1>0, <1>4, MutexKept, MutexReleased, MutexAcquired
     DEF StopAwait, AfterStop, HoldsLock, Holding, StopWaiting, Reloading
<1>5. CASE StopSettle(t)
  BY <1>0, <1>5, MutexKept, MutexReleased, MutexAcquired
     DEF StopSettle, HoldsLock, Holding, StopWaiting, Reloading
<1>6. CASE StopGate(t)
  BY <1>0, <1>6, MutexKept, MutexReleased, MutexAcquired
     DEF StopGate, AfterStop, HoldsLock, Holding, StopWaiting, Reloading
<1>7. CASE StopLock(t)
  <2>1. "stop_lock" \in Steps \ HoldsLock /\ "stop_signal" \in HoldsLock
    BY DEF Steps, Stopping, HoldsLock, Holding, StopWaiting, Reloading
  <2> QED BY <1>0, <1>7, <2>1, MutexAcquired DEF StopLock
<1>8. CASE StopSignal(t)
  BY <1>0, <1>8, MutexKept, MutexReleased, MutexAcquired
     DEF StopSignal, HoldsLock, StopWaiting
<1>9. CASE StopWait(t)
  BY <1>0, <1>9, MutexKept, MutexReleased, MutexAcquired
     DEF StopWait, HoldsLock, StopWaiting
<1>10. CASE StopKilled(t)
  BY <1>0, <1>10, MutexKept, MutexReleased, MutexAcquired
     DEF StopKilled, HoldsLock, StopWaiting
<1>11. CASE StopUnlock(t)
  <2>1. Release(t, g[t].id) /\ pc[t] = "stop_unlock"
        /\ pc'[t] \in {"start", "delete_remove", "delete_end", "idle"}
    BY <1>0, <1>11 DEF StopUnlock, AfterStop
  <2> QED BY <1>0, <2>1, MutexReleased DEF HoldsLock, Holding, StopWaiting, Reloading
<1> QED BY <1>1, <1>2, <1>3, <1>4, <1>5, <1>6, <1>7, <1>8, <1>9, <1>10, <1>11 DEF StopStep

(* ReloadContext locks and unlocks; the other requests take no lock.       *)
LEMMA RequestMutex ==
  ASSUME TypeInv, MutexHeld, NEW t \in Requests, RequestStep(t)
  PROVE  MutexHeld'
<1>0. Moves(t) /\ pc \in [Threads -> Steps]
  BY RequestMoves, ControlTyped
<1>1. CASE DeleteBegin(t)
  BY <1>0, <1>1, MutexKept, MutexReleased, MutexAcquired
     DEF DeleteBegin, HoldsLock, Holding, StopWaiting, Reloading
<1>2. CASE DeleteRemove(t)
  BY <1>0, <1>2, MutexKept, MutexReleased, MutexAcquired
     DEF DeleteRemove, HoldsLock, Holding, StopWaiting, Reloading
<1>3. CASE DeleteDrop(t)
  BY <1>0, <1>3, MutexKept, MutexReleased, MutexAcquired
     DEF DeleteDrop, DropWatchdog, HoldsLock, Holding, StopWaiting, Reloading
<1>4. CASE DeleteEnd(t)
  BY <1>0, <1>4, MutexKept, MutexReleased, MutexAcquired
     DEF DeleteEnd, HoldsLock, Holding, StopWaiting, Reloading
<1>5. CASE ReloadLock(t)
  <2>1. "reload" \in Steps \ HoldsLock /\ "reload_check" \in HoldsLock
    BY DEF Steps, OtherSteps, HoldsLock, Holding, StopWaiting, Reloading
  <2>2. CASE Acquire(t, "reload", "reload_check")
    BY <1>0, <2>1, <2>2, MutexAcquired
  <2>3. CASE At(t, "reload") /\ Finish(t) /\ UNCHANGED lifecycle
    BY <1>0, <2>3, MutexKept DEF HoldsLock, Holding, StopWaiting, Reloading
  <2> QED BY <1>5, <2>2, <2>3 DEF ReloadLock
<1>6. CASE ReloadCheck(t)
  BY <1>0, <1>6, MutexKept, MutexReleased, MutexAcquired
     DEF ReloadCheck, HoldsLock, Reloading
<1>7. CASE ReloadVerify(t)
  BY <1>0, <1>7, MutexKept, MutexReleased, MutexAcquired
     DEF ReloadVerify, HoldsLock, Reloading
<1>8. CASE ReloadWrite(t)
  BY <1>0, <1>8, MutexKept, MutexReleased, MutexAcquired
     DEF ReloadWrite, HoldsLock, Reloading
<1>9. CASE ReloadPush(t)
  BY <1>0, <1>9, MutexKept, MutexReleased, MutexAcquired
     DEF ReloadPush, HoldsLock, Reloading
<1>10. CASE ReloadUnlock(t)
  BY <1>0, <1>10, MutexKept, MutexReleased, MutexAcquired
     DEF ReloadUnlock, HoldsLock, Holding, StopWaiting, Reloading
<1>11. CASE CoreBegin(t)
  BY <1>0, <1>11, MutexKept, MutexReleased, MutexAcquired
     DEF CoreBegin, HoldsLock, Holding, StopWaiting, Reloading
<1>12. CASE CoreEnd(t)
  BY <1>0, <1>12, MutexKept, MutexReleased, MutexAcquired
     DEF CoreEnd, HoldsLock, Holding, StopWaiting, Reloading
<1>13. CASE EditGuard(t)
  BY <1>0, <1>13, MutexKept, MutexReleased, MutexAcquired
     DEF EditGuard, HoldsLock, Holding, StopWaiting, Reloading
<1>14. CASE EditStore(t)
  BY <1>0, <1>14, MutexKept, MutexReleased, MutexAcquired
     DEF EditStore, HoldsLock, Holding, StopWaiting, Reloading
<1> QED BY <1>1, <1>2, <1>3, <1>4, <1>5, <1>6, <1>7, <1>8, <1>9, <1>10, <1>11, <1>12, <1>13,
           <1>14 DEF RequestStep

(* The watchdog takes none outside startContext.                           *)
LEMMA WatchdogMutex ==
  ASSUME TypeInv, MutexHeld, NEW b \in Backoffs, WatchdogStep(b)
  PROVE  MutexHeld'
<1>0. Moves(b) /\ pc \in [Threads -> Steps]
  BY WatchdogMoves, ControlTyped
<1>1. CASE Wake(b)
  BY <1>0, <1>1, MutexKept, MutexReleased, MutexAcquired
     DEF Wake, HoldsLock, Holding, StopWaiting, Reloading
<1>2. CASE CheckEligible(b)
  BY <1>0, <1>2, MutexKept, MutexReleased, MutexAcquired
     DEF CheckEligible, HoldsLock, Holding, StopWaiting, Reloading
<1>3. CASE Rearm(b)
  BY <1>0, <1>3, MutexKept, MutexReleased, MutexAcquired
     DEF Rearm, Arm, HoldsLock, Holding, StopWaiting, Reloading
<1>4. CASE Relaunched(b)
  BY <1>0, <1>4, MutexKept, MutexReleased, MutexAcquired
     DEF Relaunched, HoldsLock, Holding, StopWaiting, Reloading
<1>5. CASE WatchHealthy(b)
  BY <1>0, <1>5, MutexKept, MutexReleased, MutexAcquired
     DEF WatchHealthy, HoldsLock, Holding, StopWaiting, Reloading
<1> QED BY <1>1, <1>2, <1>3, <1>4, <1>5 DEF WatchdogStep

(* The processes there are stay, except that one may have died.             *)
Alike == \A p \in Procs : /\ Unreaped(p)' <=> Unreaped(p)
                          /\ Unreaped(p) => proc'[p].id = proc[p].id /\ proc'[p].port = proc[p].port
                          /\ proc'[p].st = "alive" => proc[p].st = "alive"

(* No process changed.                                                     *)
LEMMA AlikeSame == ASSUME UNCHANGED proc PROVE Alike
  BY DEF Alike, Unreaped

(* One process died, or a step left its state alone.                       *)
LEMMA AlikeDying ==
  ASSUME TypeInv, NEW p \in Procs, NEW s \in ProcStates,
         s = proc[p].st \/ (proc[p].st = "alive" /\ s = "dead"),
         proc' = [proc EXCEPT ![p].st = s]
  PROVE  Alike
<1> DEFINE r == [proc[p] EXCEPT !.st = s]
<1>1. proc \in [Procs -> ProcRecord] /\ proc[p] \in ProcRecord
  BY DEF TypeInv, TypeOK
<1>2. r.st = s /\ r.id = proc[p].id /\ r.port = proc[p].port
  BY <1>1 DEF ProcRecord
<1> HIDE DEF r
<1>3. proc' = [proc EXCEPT ![p] = r]
  BY DEF r
<1> QED BY <1>1, <1>2, <1>3 DEF Alike, Unreaped

(* A Stop asks a process to end or kills it, and reaps none.               *)
LEMMA AlikeStopping ==
  ASSUME TypeInv, NEW t \in Requests, StopStep(t)
  PROVE  Alike
<1>1. CASE UNCHANGED proc
  BY <1>1, AlikeSame
<1>2. CASE StopSignal(t) /\ ~UNCHANGED proc
  <2> DEFINE p == g[t].ps
             r == [proc[p] EXCEPT !.stopRequested = @ \/ proc[p].st # "free"]
  <2>1. p \in Procs /\ proc' = [proc EXCEPT ![p] = r]
    BY <1>2 DEF StopSignal, TypeInv, TypeOK, LocalRecord
  <2> HIDE DEF p
  <2>2. proc \in [Procs -> ProcRecord] /\ proc[p] \in ProcRecord
    BY <2>1 DEF TypeInv, TypeOK
  <2>3. r.st = proc[p].st /\ r.id = proc[p].id /\ r.port = proc[p].port
    BY <2>2 DEF ProcRecord
  <2> HIDE DEF r
  <2> QED BY <2>1, <2>2, <2>3 DEF Alike, Unreaped
<1>3. CASE StopWait(t) /\ ~UNCHANGED proc
  <2>1. g[t].ps \in Procs /\ proc[g[t].ps].st \in ProcStates
    BY <1>3 DEF StopWait, TypeInv, TypeOK, ProcRecord
  <2>2. proc' = [proc EXCEPT ![g[t].ps].st = IF @ = "alive" THEN "dead" ELSE @]
    BY <1>3 DEF StopWait
  <2>3. CASE proc[g[t].ps].st = "alive"
    <3>1. proc' = [proc EXCEPT ![g[t].ps].st = "dead"] /\ "dead" \in ProcStates
      BY <2>2, <2>3 DEF ProcStates
    <3> QED BY <2>1, <2>3, <3>1, AlikeDying
  <2>4. CASE proc[g[t].ps].st # "alive"
    <3>1. proc' = [proc EXCEPT ![g[t].ps].st = proc[g[t].ps].st]
      BY <2>2, <2>4
    <3> DEFINE r == [proc[g[t].ps] EXCEPT !.st = proc[g[t].ps].st]
    <3>2. proc \in [Procs -> ProcRecord] /\ proc[g[t].ps] \in ProcRecord
      BY <2>1 DEF TypeInv, TypeOK
    <3>3. r.st = proc[g[t].ps].st /\ r.id = proc[g[t].ps].id /\ r.port = proc[g[t].ps].port
      BY <3>2 DEF ProcRecord
    <3>4. proc' = [proc EXCEPT ![g[t].ps] = r]
      BY <3>1
    <3> HIDE DEF r
    <3> QED BY <2>1, <3>2, <3>3, <3>4 DEF Alike, Unreaped
  <2> QED BY <2>3, <2>4
<1>4. StopSignal(t) \/ StopWait(t) \/ UNCHANGED proc
  BY
     DEF StopStep, StopMark, StopResolve, StopFind, StopAwait, StopSettle, StopGate,
         StopLock,
         Acquire, StopKilled, StopUnlock
<1> QED BY <1>1, <1>2, <1>3, <1>4

(* A step that neither spawns, publishes nor reaps.                        *)
LEMMA RegisteredKept ==
  ASSUME TypeInv, Registered, NEW t \in Threads, Moves(t), UNCHANGED procs, Alike,
         pc'[t] \in Preparing => pc[t] \in Preparing,
         pc[t] # "start_publish", pc'[t] # "start_publish"
  PROVE  Registered'
<1>1. \A u \in Threads : pc[u] = "start_publish" <=> pc'[u] = "start_publish"
  BY DEF Moves, Frame
<1>2. \A u \in Threads : pc[u] = "start_publish" => g'[u].id = g[u].id /\ g'[u].ps = g[u].ps /\ g[u].ps \in Procs
  BY DEF Moves, Frame, TypeInv, Fits, HasProc
<1>3. \A u \in Threads : pc'[u] \in Preparing => pc[u] \in Preparing /\ g'[u].id = g[u].id
  BY DEF Moves, Frame, Carries, Preparing
<1>4. \A i \in Ids : procs[i] # None => procs[i] \in Procs
  BY DEF TypeInv, TypeOK
<1>5. (\A p \in Procs : Unreaped(p) => \/ procs[proc[p].id] = p
                                       \/ \E u \in Threads : Publishing(u, p))'
  <2> SUFFICES ASSUME NEW p \in Procs, Unreaped(p)', procs'[proc'[p].id] # p
               PROVE  \E u \in Threads : Publishing(u, p)'
    OBVIOUS
  <2>1. PICK u \in Threads : Publishing(u, p)
    BY DEF Registered, Alike
  <2> QED BY <1>1, <1>2, <2>1 DEF Publishing, Alike
<1>6. (\A u \in Threads : pc[u] \in Preparing => procs[g[u].id] = None)'
  BY <1>3 DEF Registered
<1>7. (\A u \in Threads : pc[u] = "start_publish" => Unreaped(g[u].ps) /\ proc[g[u].ps].id = g[u].id)'
  BY <1>1, <1>2 DEF Registered, Alike
<1>8. (\A i \in Ids : procs[i] # None => Unreaped(procs[i]) /\ proc[procs[i]].id = i)'
  BY <1>4 DEF Registered, Alike
<1> QED BY <1>5, <1>6, <1>7, <1>8 DEF Registered

(* startContext registers where no process is, spawns it, then publishes   *)
(* it.                                                                     *)
LEMMA StartRegistered ==
  ASSUME TypeInv, AttemptsAccounted, Registered, NEW t \in Threads, StartStep(t)
  PROVE  Registered'
<1>0. Moves(t) /\ pc \in [Threads -> Steps]
  BY StartMoves, ControlTyped
<1>1. CASE StartEnter(t)
  BY <1>0, <1>1, AlikeSame, RegisteredKept DEF StartEnter, StartFailed, Preparing
<1>2. CASE StartBlocked(t)
  BY <1>0, <1>2, AlikeSame, RegisteredKept DEF StartBlocked, StartFailed, Preparing
<1>3. CASE StartNothing(t)
  BY <1>0, <1>3, AlikeSame, RegisteredKept DEF StartNothing, Preparing
<1>4. CASE StartRegister(t)
  <2>1. /\ procs' = procs /\ Alike /\ procs[g[t].id] = None
        /\ pc[t] = "start_register" /\ pc'[t] \in {"idle", "rearm", "start_lock"}
        /\ g[t].id \in Ids
    BY <1>0, <1>4, AlikeSame DEF StartRegister, Busy, TypeInv, Fits
  <2>2. CASE pc'[t] # "start_lock"
    BY <1>0, <2>1, <2>2, RegisteredKept DEF Preparing
  <2>3. CASE pc'[t] = "start_lock"
    <3>1. g'[t].id = g[t].id
      BY <1>0, <2>1, <2>3 DEF Moves, Carries
    <3>2. \A u \in Threads \ {t} : pc'[u] = pc[u] /\ g'[u].id = g[u].id /\ g'[u].ps = g[u].ps
      BY <1>0 DEF Moves, Frame
    <3>3. proc' = proc
      BY <1>4 DEF StartRegister
    <3>4. (\A p \in Procs : Unreaped(p) => \/ procs[proc[p].id] = p
                                           \/ \E u \in Threads : Publishing(u, p))'
      <4> SUFFICES ASSUME NEW p \in Procs, Unreaped(p), procs[proc[p].id] # p
                   PROVE  \E u \in Threads : Publishing(u, p)'
        BY <2>1, <3>3 DEF Unreaped
      <4>1. PICK u \in Threads : Publishing(u, p)
        BY DEF Registered
      <4> QED BY <2>1, <3>2, <3>3, <4>1 DEF Publishing
    <3>5. (\A u \in Threads : pc[u] \in Preparing => procs[g[u].id] = None)'
      BY <2>1, <3>1, <3>2 DEF Registered
    <3>6. (\A u \in Threads : pc[u] = "start_publish" => Unreaped(g[u].ps) /\ proc[g[u].ps].id = g[u].id)'
      BY <2>1, <3>2, <3>3 DEF Registered, Unreaped
    <3>7. (\A i \in Ids : procs[i] # None => Unreaped(procs[i]) /\ proc[procs[i]].id = i)'
      BY <2>1, <3>3 DEF Registered, Unreaped
    <3> QED BY <3>4, <3>5, <3>6, <3>7 DEF Registered
  <2> QED BY <2>2, <2>3
<1>5. CASE StartLock(t)
  BY <1>0, <1>5, AlikeSame, RegisteredKept DEF StartLock, Acquire, Preparing
<1>6. CASE StartCheck(t)
  BY <1>0, <1>6, AlikeSame, RegisteredKept DEF StartCheck, Preparing
<1>7. CASE StartRead(t)
  BY <1>0, <1>7, AlikeSame, RegisteredKept DEF StartRead, Preparing
<1>8. CASE StartWrite(t)
  BY <1>0, <1>8, AlikeSame, RegisteredKept DEF StartWrite, Preparing
<1>9. CASE StartTest(t)
  BY <1>0, <1>9, AlikeSame, RegisteredKept DEF StartTest, Preparing
<1>10. CASE StartSpawn(t)
  <2>1. CASE Fail(t, "start_unlock") /\ UNCHANGED proc
    BY <1>0, <1>10, <2>1, AlikeSame, RegisteredKept DEF StartSpawn, Preparing
  <2>2. ASSUME NEW p \in Procs, FreeProc(p), g' = [g EXCEPT ![t].ps = p], Goto(t, "start_publish"),
               proc' = [proc EXCEPT ![p] = [NoProc EXCEPT !.st = "alive",
                                              !.id = g[t].id, !.port = g[t].reserved]]
        PROVE  Registered'
    <3>1. /\ pc[t] = "start_spawn" /\ pc'[t] = "start_publish" /\ procs' = procs
          /\ procs[g[t].id] = None /\ g[t].id \in Ids
      BY <1>0, <1>10, <2>2 DEF StartSpawn, Registered, Preparing, TypeInv, Fits
    <3>2. proc \in [Procs -> ProcRecord] /\ g \in [Threads -> LocalRecord]
      BY DEF TypeInv, TypeOK
    <3>3. proc'[p].st = "alive" /\ proc'[p].id = g[t].id /\ \A q \in Procs \ {p} : proc'[q] = proc[q]
      BY <2>2, <3>2 DEF NoProc
    <3>4. g'[t].id = g[t].id /\ g'[t].ps = p
      BY <2>2, <3>2 DEF LocalRecord
    <3>5. \A u \in Threads \ {t} : pc'[u] = pc[u] /\ g'[u].id = g[u].id /\ g'[u].ps = g[u].ps
      BY <1>0 DEF Moves, Frame
    <3>6. ~Unreaped(p)
      BY <2>2 DEF FreeProc, Unreaped
    <3>7. (\A q \in Procs : Unreaped(q) => \/ procs[proc[q].id] = q
                                           \/ \E u \in Threads : Publishing(u, q))'
      <4>1. Publishing(t, p)'
        BY <3>1, <3>3, <3>4 DEF Publishing
      <4>2. ASSUME NEW q \in Procs \ {p}, Unreaped(q), procs[proc[q].id] # q
            PROVE  \E u \in Threads : Publishing(u, q)'
        <5>1. PICK u \in Threads : Publishing(u, q)
          BY <4>2 DEF Registered
        <5> QED BY <3>1, <3>3, <3>5, <5>1 DEF Publishing
      <4> QED BY <3>1, <3>3, <4>1, <4>2 DEF Unreaped
    <3>8. (\A u \in Threads : pc[u] \in Preparing => procs[g[u].id] = None)'
      BY <3>1, <3>4, <3>5 DEF Registered
    <3>9. (\A u \in Threads : pc[u] = "start_publish" => Unreaped(g[u].ps) /\ proc[g[u].ps].id = g[u].id)'
      <4>1. \A u \in Threads : pc[u] = "start_publish" => g[u].ps \in Procs \ {p}
        BY <3>6 DEF Registered, TypeInv, Fits, HasProc
      <4> QED BY <3>1, <3>3, <3>4, <3>5, <4>1 DEF Registered, Unreaped
    <3>10. (\A i \in Ids : procs[i] # None => Unreaped(procs[i]) /\ proc[procs[i]].id = i)'
      <4>1. \A i \in Ids : procs[i] # None => procs[i] \in Procs \ {p}
        BY <3>6 DEF Registered, TypeInv, TypeOK
      <4> QED BY <3>1, <3>3, <4>1 DEF Registered, Unreaped
    <3> QED BY <3>7, <3>8, <3>9, <3>10 DEF Registered
  <2> QED BY <1>10, <2>1, <2>2 DEF StartSpawn
<1>11. CASE StartPublish(t)
  <2> DEFINE i == g[t].id
             p == g[t].ps
  <2>1. /\ pc[t] = "start_publish" /\ pc'[t] = "start_unlock"
        /\ procs' = [procs EXCEPT ![i] = p] /\ proc' = proc
        /\ i \in Ids /\ p \in Procs /\ procs[i] = None
        /\ procs \in [Ids -> Procs \cup {None}]
    BY <1>0, <1>11 DEF StartPublish, TypeInv, TypeOK, Fits, HasProc, Registered, Preparing
  <2>2. \A u \in Threads \ {t} : pc'[u] = pc[u] /\ g'[u].id = g[u].id /\ g'[u].ps = g[u].ps
    BY <1>0 DEF Moves, Frame
  <2>3. \A u \in Threads : pc[u] \in Preparing => starts[g[u].id] = u
    BY DEF AttemptsAccounted, Preparing, Attempting, Holding
  <2>4. Unreaped(p) /\ proc[p].id = i
    BY <2>1 DEF Registered
  <2>5. (\A q \in Procs : Unreaped(q) => \/ procs[proc[q].id] = q
                                         \/ \E u \in Threads : Publishing(u, q))'
    <3> SUFFICES ASSUME NEW q \in Procs, Unreaped(q), procs'[proc[q].id] # q
                 PROVE  \E u \in Threads : Publishing(u, q)'
      BY <2>1 DEF Unreaped
    <3>1. procs[proc[q].id] # q
      BY <2>1, NoneAssumption
    <3>2. PICK u \in Threads : Publishing(u, q)
      BY <3>1 DEF Registered
    <3>3. u # t
      BY <2>1, <2>4, <3>2 DEF Publishing
    <3> QED BY <2>1, <2>2, <3>2, <3>3 DEF Publishing
  <2>6. (\A u \in Threads : pc[u] \in Preparing => procs[g[u].id] = None)'
    <3> SUFFICES ASSUME NEW u \in Threads \ {t}, pc[u] \in Preparing
                 PROVE  procs'[g[u].id] = None
      BY <2>1, <2>2 DEF Preparing
    <3>1. starts[g[u].id] = u /\ starts[i] = t
      BY <2>1, <2>3 DEF Preparing
    <3> QED BY <2>1, <3>1 DEF Registered
  <2>7. (\A u \in Threads : pc[u] = "start_publish" => Unreaped(g[u].ps) /\ proc[g[u].ps].id = g[u].id)'
    BY <2>1, <2>2 DEF Registered, Unreaped
  <2>8. (\A j \in Ids : procs[j] # None => Unreaped(procs[j]) /\ proc[procs[j]].id = j)'
    BY <2>1, <2>4 DEF Registered, Unreaped
  <2> QED BY <2>5, <2>6, <2>7, <2>8 DEF Registered
<1>12. CASE StartUnlock(t)
  BY <1>0, <1>12, AlikeSame, RegisteredKept DEF StartUnlock, Preparing
<1>13. CASE StartCleanup(t)
  BY <1>0, <1>13, AlikeSame, RegisteredKept DEF StartCleanup, Preparing
<1> QED BY <1>1, <1>2, <1>3, <1>4, <1>5, <1>6, <1>7, <1>8, <1>9, <1>10, <1>11, <1>12, <1>13
           DEF StartStep

(* StopContext only reads procs.                                           *)
LEMMA StopRegistered ==
  ASSUME TypeInv, AttemptsAccounted, Registered, NEW t \in Requests, StopStep(t)
  PROVE  Registered'
<1>0. Moves(t) /\ pc \in [Threads -> Steps]
  BY StopMoves, ControlTyped
<1>a. Alike
  BY AlikeStopping
<1>1. CASE StopMark(t)
  BY <1>0, <1>a, <1>1, RegisteredKept DEF StopMark, Preparing
<1>2. CASE StopResolve(t)
  BY <1>0, <1>a, <1>2, RegisteredKept DEF StopResolve, Preparing
<1>3. CASE StopFind(t)
  BY <1>0, <1>a, <1>3, RegisteredKept DEF StopFind, Preparing
<1>4. CASE StopAwait(t)
  BY <1>0, <1>a, <1>4, RegisteredKept DEF StopAwait, AfterStop, Preparing
<1>5. CASE StopSettle(t)
  BY <1>0, <1>a, <1>5, RegisteredKept DEF StopSettle, Preparing
<1>6. CASE StopGate(t)
  BY <1>0, <1>a, <1>6, RegisteredKept DEF StopGate, AfterStop, Preparing
<1>7. CASE StopLock(t)
  BY <1>0, <1>a, <1>7, RegisteredKept DEF StopLock, Acquire, Preparing
<1>8. CASE StopSignal(t)
  BY <1>0, <1>a, <1>8, RegisteredKept DEF StopSignal, Preparing
<1>9. CASE StopWait(t)
  BY <1>0, <1>a, <1>9, RegisteredKept DEF StopWait, Preparing
<1>10. CASE StopKilled(t)
  BY <1>0, <1>a, <1>10, RegisteredKept DEF StopKilled, Preparing
<1>11. CASE StopUnlock(t)
  BY <1>0, <1>a, <1>11, RegisteredKept DEF StopUnlock, AfterStop, Preparing
<1> QED BY <1>1, <1>2, <1>3, <1>4, <1>5, <1>6, <1>7, <1>8, <1>9, <1>10, <1>11 DEF StopStep

(* The other requests only read procs.                                     *)
LEMMA RequestRegistered ==
  ASSUME TypeInv, AttemptsAccounted, Registered, NEW t \in Requests, RequestStep(t)
  PROVE  Registered'
<1>0. Moves(t) /\ pc \in [Threads -> Steps]
  BY RequestMoves, ControlTyped
<1>1. CASE DeleteBegin(t)
  BY <1>0, <1>1, AlikeSame, RegisteredKept DEF DeleteBegin, Preparing
<1>2. CASE DeleteRemove(t)
  BY <1>0, <1>2, AlikeSame, RegisteredKept DEF DeleteRemove, Preparing
<1>3. CASE DeleteDrop(t)
  BY <1>0, <1>3, AlikeSame, RegisteredKept DEF DeleteDrop, DropWatchdog, Preparing
<1>4. CASE DeleteEnd(t)
  BY <1>0, <1>4, AlikeSame, RegisteredKept DEF DeleteEnd, Preparing
<1>5. CASE ReloadLock(t)
  BY <1>0, <1>5, AlikeSame, RegisteredKept DEF ReloadLock, Acquire, Preparing
<1>6. CASE ReloadCheck(t)
  BY <1>0, <1>6, AlikeSame, RegisteredKept DEF ReloadCheck, Preparing
<1>7. CASE ReloadVerify(t)
  BY <1>0, <1>7, AlikeSame, RegisteredKept DEF ReloadVerify, Preparing
<1>8. CASE ReloadWrite(t)
  BY <1>0, <1>8, AlikeSame, RegisteredKept DEF ReloadWrite, Preparing
<1>9. CASE ReloadPush(t)
  BY <1>0, <1>9, AlikeSame, RegisteredKept DEF ReloadPush, Preparing
<1>10. CASE ReloadUnlock(t)
  BY <1>0, <1>10, AlikeSame, RegisteredKept DEF ReloadUnlock, Preparing
<1>11. CASE CoreBegin(t)
  BY <1>0, <1>11, AlikeSame, RegisteredKept DEF CoreBegin, Preparing
<1>12. CASE CoreEnd(t)
  BY <1>0, <1>12, AlikeSame, RegisteredKept DEF CoreEnd, Preparing
<1>13. CASE EditGuard(t)
  BY <1>0, <1>13, AlikeSame, RegisteredKept DEF EditGuard, Preparing
<1>14. CASE EditStore(t)
  BY <1>0, <1>14, AlikeSame, RegisteredKept DEF EditStore, Preparing
<1> QED BY <1>1, <1>2, <1>3, <1>4, <1>5, <1>6, <1>7, <1>8, <1>9, <1>10, <1>11, <1>12, <1>13,
           <1>14 DEF RequestStep

(* The watchdog only reads procs.                                          *)
LEMMA WatchdogRegistered ==
  ASSUME TypeInv, AttemptsAccounted, Registered, NEW b \in Backoffs, WatchdogStep(b)
  PROVE  Registered'
<1>0. Moves(b) /\ pc \in [Threads -> Steps]
  BY WatchdogMoves, ControlTyped
<1>1. CASE Wake(b)
  BY <1>0, <1>1, AlikeSame, RegisteredKept DEF Wake, Preparing
<1>2. CASE CheckEligible(b)
  BY <1>0, <1>2, AlikeSame, RegisteredKept DEF CheckEligible, Preparing
<1>3. CASE Rearm(b)
  BY <1>0, <1>3, AlikeSame, RegisteredKept DEF Rearm, Arm, Preparing
<1>4. CASE Relaunched(b)
  BY <1>0, <1>4, AlikeSame, RegisteredKept DEF Relaunched, Preparing
<1>5. CASE WatchHealthy(b)
  BY <1>0, <1>5, AlikeSame, RegisteredKept DEF WatchHealthy, Preparing
<1> QED BY <1>1, <1>2, <1>3, <1>4, <1>5 DEF WatchdogStep

(* The core-update gate, as Manager sees it.                               *)
NothingRegistered == coreUpdating => starting = {} /\ \A i \in Ids : procs[i] = None

(* A step that registers no start and publishes no process.                *)
LEMMA NothingRegisteredKept ==
  ASSUME TypeInv, NothingRegistered, UNCHANGED <<procs, coreUpdating>>, starting' \subseteq starting
  PROVE  NothingRegistered'
  BY DEF NothingRegistered

(* startContext registers nothing while the gate is closed, and what it    *)
(* registered before keeps the gate open.                                  *)
LEMMA StartCore ==
  ASSUME TypeInv, AttemptsAccounted, NothingRegistered, NEW t \in Threads, StartStep(t)
  PROVE  NothingRegistered'
<1>0. Moves(t) /\ pc \in [Threads -> Steps]
  BY StartMoves, ControlTyped
<1>1. CASE StartEnter(t)
  BY <1>0, <1>1, NothingRegisteredKept DEF StartEnter, StartFailed, attemptVars
<1>2. CASE StartBlocked(t)
  BY <1>0, <1>2, NothingRegisteredKept DEF StartBlocked, StartFailed, attemptVars
<1>3. CASE StartNothing(t)
  BY <1>0, <1>3, NothingRegisteredKept DEF StartNothing, attemptVars
<1>4. CASE StartRegister(t)
  BY <1>4, NothingRegisteredKept DEF StartRegister, MayStart, NothingRegistered
<1>5. CASE StartLock(t)
  BY <1>0, <1>5, NothingRegisteredKept DEF StartLock, Acquire, attemptVars
<1>6. CASE StartCheck(t)
  BY <1>0, <1>6, NothingRegisteredKept DEF StartCheck, attemptVars
<1>7. CASE StartRead(t)
  BY <1>0, <1>7, NothingRegisteredKept DEF StartRead, attemptVars
<1>8. CASE StartWrite(t)
  BY <1>0, <1>8, NothingRegisteredKept DEF StartWrite, attemptVars
<1>9. CASE StartTest(t)
  BY <1>0, <1>9, NothingRegisteredKept DEF StartTest, attemptVars
<1>10. CASE StartSpawn(t)
  BY <1>0, <1>10, NothingRegisteredKept DEF StartSpawn, attemptVars
<1>11. CASE StartPublish(t)
  <2>1. g[t].id \in Ids /\ starts[g[t].id] = t
    BY <1>11 DEF StartPublish, AttemptsAccounted, Attempting, Holding, TypeInv, Fits
  <2>2. ~coreUpdating
    BY <2>1, NoneAssumption DEF AttemptsAccounted, NothingRegistered
  <2> QED BY <1>11, <2>2 DEF StartPublish, NothingRegistered
<1>12. CASE StartUnlock(t)
  BY <1>0, <1>12, NothingRegisteredKept DEF StartUnlock, attemptVars
<1>13. CASE StartCleanup(t)
  BY <1>13, NothingRegisteredKept DEF StartCleanup
<1> QED BY <1>1, <1>2, <1>3, <1>4, <1>5, <1>6, <1>7, <1>8, <1>9, <1>10, <1>11, <1>12, <1>13
           DEF StartStep

(* StopContext registers nothing.                                          *)
LEMMA StopCore ==
  ASSUME TypeInv, AttemptsAccounted, NothingRegistered, NEW t \in Requests, StopStep(t)
  PROVE  NothingRegistered'
<1>0. Moves(t) /\ pc \in [Threads -> Steps]
  BY StopMoves, ControlTyped
<1>1. CASE StopMark(t)
  BY <1>0, <1>1, NothingRegisteredKept DEF StopMark, attemptVars
<1>2. CASE StopResolve(t)
  BY <1>0, <1>2, NothingRegisteredKept DEF StopResolve, attemptVars
<1>3. CASE StopFind(t)
  BY <1>0, <1>3, NothingRegisteredKept DEF StopFind, attemptVars
<1>4. CASE StopAwait(t)
  BY <1>0, <1>4, NothingRegisteredKept DEF StopAwait, AfterStop, attemptVars
<1>5. CASE StopSettle(t)
  BY <1>0, <1>5, NothingRegisteredKept DEF StopSettle, attemptVars
<1>6. CASE StopGate(t)
  BY <1>0, <1>6, NothingRegisteredKept DEF StopGate, AfterStop, attemptVars
<1>7. CASE StopLock(t)
  BY <1>0, <1>7, NothingRegisteredKept DEF StopLock, Acquire, attemptVars
<1>8. CASE StopSignal(t)
  BY <1>0, <1>8, NothingRegisteredKept DEF StopSignal, attemptVars
<1>9. CASE StopWait(t)
  BY <1>0, <1>9, NothingRegisteredKept DEF StopWait, attemptVars
<1>10. CASE StopKilled(t)
  BY <1>0, <1>10, NothingRegisteredKept DEF StopKilled, attemptVars
<1>11. CASE StopUnlock(t)
  BY <1>0, <1>11, NothingRegisteredKept DEF StopUnlock, AfterStop, attemptVars
<1> QED BY <1>1, <1>2, <1>3, <1>4, <1>5, <1>6, <1>7, <1>8, <1>9, <1>10, <1>11 DEF StopStep

(* BeginCoreUpdate closes the gate only when nothing runs or starts.       *)
LEMMA RequestCore ==
  ASSUME TypeInv, AttemptsAccounted, NothingRegistered, NEW t \in Requests, RequestStep(t)
  PROVE  NothingRegistered'
<1>0. Moves(t) /\ pc \in [Threads -> Steps]
  BY RequestMoves, ControlTyped
<1>1. CASE DeleteBegin(t)
  BY <1>0, <1>1, NothingRegisteredKept DEF DeleteBegin, attemptVars
<1>2. CASE DeleteRemove(t)
  BY <1>0, <1>2, NothingRegisteredKept DEF DeleteRemove, attemptVars
<1>3. CASE DeleteDrop(t)
  BY <1>0, <1>3, NothingRegisteredKept DEF DeleteDrop, DropWatchdog, attemptVars
<1>4. CASE DeleteEnd(t)
  BY <1>0, <1>4, NothingRegisteredKept DEF DeleteEnd, attemptVars
<1>5. CASE ReloadLock(t)
  BY <1>0, <1>5, NothingRegisteredKept DEF ReloadLock, Acquire, attemptVars
<1>6. CASE ReloadCheck(t)
  BY <1>0, <1>6, NothingRegisteredKept DEF ReloadCheck, attemptVars
<1>7. CASE ReloadVerify(t)
  BY <1>0, <1>7, NothingRegisteredKept DEF ReloadVerify, attemptVars
<1>8. CASE ReloadWrite(t)
  BY <1>0, <1>8, NothingRegisteredKept DEF ReloadWrite, attemptVars
<1>9. CASE ReloadPush(t)
  BY <1>0, <1>9, NothingRegisteredKept DEF ReloadPush, attemptVars
<1>10. CASE ReloadUnlock(t)
  BY <1>0, <1>10, NothingRegisteredKept DEF ReloadUnlock, attemptVars
<1>11. CASE CoreBegin(t)
  BY <1>11 DEF CoreBegin, NothingRegistered, attemptVars
<1>12. CASE CoreEnd(t)
  BY <1>12 DEF CoreEnd, NothingRegistered
<1>13. CASE EditGuard(t)
  BY <1>0, <1>13, NothingRegisteredKept DEF EditGuard, attemptVars
<1>14. CASE EditStore(t)
  BY <1>0, <1>14, NothingRegisteredKept DEF EditStore, attemptVars
<1> QED BY <1>1, <1>2, <1>3, <1>4, <1>5, <1>6, <1>7, <1>8, <1>9, <1>10, <1>11, <1>12, <1>13,
           <1>14 DEF RequestStep

(* The watchdog registers only in startContext.                            *)
LEMMA WatchdogCore ==
  ASSUME TypeInv, AttemptsAccounted, NothingRegistered, NEW b \in Backoffs, WatchdogStep(b)
  PROVE  NothingRegistered'
<1>0. Moves(b) /\ pc \in [Threads -> Steps]
  BY WatchdogMoves, ControlTyped
<1>1. CASE Wake(b)
  BY <1>0, <1>1, NothingRegisteredKept DEF Wake, attemptVars
<1>2. CASE CheckEligible(b)
  BY <1>0, <1>2, NothingRegisteredKept DEF CheckEligible, attemptVars
<1>3. CASE Rearm(b)
  BY <1>0, <1>3, NothingRegisteredKept DEF Rearm, Arm, attemptVars
<1>4. CASE Relaunched(b)
  BY <1>0, <1>4, NothingRegisteredKept DEF Relaunched, attemptVars
<1>5. CASE WatchHealthy(b)
  BY <1>0, <1>5, NothingRegisteredKept DEF WatchHealthy, attemptVars
<1> QED BY <1>1, <1>2, <1>3, <1>4, <1>5 DEF WatchdogStep

-----------------------------------------------------------------------------
(* What they rely on.                                                      *)

(* The steps at which a goroutine relies on the file it wrote.             *)
Trusting == {"start_test", "start_spawn", "reload_push"}

(* From its write on, the start or the reload that holds the mutex is the  *)
(* file's last writer.                                                     *)
Written == \A t \in Threads : pc[t] \in Trusting => runtimeConfig[g[t].id] = t

(* A step after which t no longer relies on what it wrote.                 *)
LEMMA WrittenKept ==
  ASSUME TypeInv, MutexHeld, Written, NEW t \in Threads, Moves(t),
         pc'[t] \in Trusting => pc[t] \in Trusting,
         \/ UNCHANGED runtimeConfig
         \/ /\ pc[t] \in HoldsLock /\ pc'[t] \notin Trusting
            /\ \E w \in Threads \cup {None} : runtimeConfig' = [runtimeConfig EXCEPT ![g[t].id] = w]
  PROVE  Written'
<1> SUFFICES ASSUME NEW u \in Threads, pc'[u] \in Trusting
             PROVE  runtimeConfig'[g'[u].id] = u
  BY DEF Written
<1>1. pc[u] \in Trusting /\ g'[u].id = g[u].id /\ g[u].id \in Ids
  BY DEF Moves, Frame, Carries, TypeInv, Fits, Trusting
<1>2. CASE UNCHANGED runtimeConfig
  BY <1>1, <1>2 DEF Written
<1>3. CASE /\ pc[t] \in HoldsLock /\ pc'[t] \notin Trusting
           /\ \E w \in Threads \cup {None} : runtimeConfig' = [runtimeConfig EXCEPT ![g[t].id] = w]
  <2>1. lifecycle[g[u].id] = u /\ lifecycle[g[t].id] = t /\ u # t
    BY <1>1, <1>3 DEF MutexHeld, HoldsLock, Holding, Reloading, Trusting
  <2> QED BY <1>1, <1>3, <2>1 DEF Written
<1> QED BY <1>2, <1>3

(* A holder of the mutex that writes the file is its last writer.          *)
LEMMA WriterWritten ==
  ASSUME TypeInv, MutexHeld, Written, NEW t \in Threads, Moves(t),
         pc[t] \in HoldsLock, pc[t] # "idle", pc'[t] \in Trusting,
         runtimeConfig' = [runtimeConfig EXCEPT ![g[t].id] = t]
  PROVE  Written'
<1> SUFFICES ASSUME NEW u \in Threads, pc'[u] \in Trusting
             PROVE  runtimeConfig'[g'[u].id] = u
  BY DEF Written
<1>1. g[t].id \in Ids /\ runtimeConfig \in [Ids -> Threads \cup {None}]
  BY DEF TypeInv, TypeOK, Fits
<1>2. CASE u = t
  BY <1>1, <1>2 DEF Moves, Carries, Trusting
<1>3. CASE u # t
  <2>1. pc[u] \in Trusting /\ g'[u].id = g[u].id
    BY <1>3 DEF Moves, Frame
  <2>2. lifecycle[g[u].id] = u /\ lifecycle[g[t].id] = t
    BY <2>1 DEF MutexHeld, HoldsLock, Holding, Reloading, Trusting
  <2>3. g[u].id # g[t].id
    BY <1>3, <2>2
  <2> QED BY <1>1, <2>1, <2>3 DEF Written
<1> QED BY <1>2, <1>3

(* Unlocking forgets who wrote the file, if it was the holder.             *)
LEMMA ReleasedConfig ==
  ASSUME TypeInv, NEW t \in Threads, pc[t] # "idle", Release(t, g[t].id)
  PROVE  \E w \in Threads \cup {None} : runtimeConfig' = [runtimeConfig EXCEPT ![g[t].id] = w]
<1>1. g[t].id \in Ids /\ runtimeConfig \in [Ids -> Threads \cup {None}]
  BY DEF TypeInv, TypeOK, Fits
<1> DEFINE w == IF runtimeConfig[g[t].id] = t THEN None ELSE runtimeConfig[g[t].id]
<1>2. w \in Threads \cup {None} /\ runtimeConfig' = [runtimeConfig EXCEPT ![g[t].id] = w]
  BY <1>1 DEF Release
<1> QED BY <1>2

(* startContext tests and launches on what it wrote.                       *)
LEMMA StartWritten ==
  ASSUME TypeInv, MutexHeld, Written, NEW t \in Threads, StartStep(t)
  PROVE  Written'
<1>0. Moves(t) /\ pc \in [Threads -> Steps]
  BY StartMoves, ControlTyped
<1>1. CASE StartEnter(t)
  BY <1>0, <1>1, WrittenKept DEF StartEnter, StartFailed, Trusting
<1>2. CASE StartBlocked(t)
  BY <1>0, <1>2, WrittenKept DEF StartBlocked, StartFailed, Trusting
<1>3. CASE StartNothing(t)
  BY <1>0, <1>3, WrittenKept DEF StartNothing, Trusting
<1>4. CASE StartRegister(t)
  BY <1>0, <1>4, WrittenKept DEF StartRegister, Trusting
<1>5. CASE StartLock(t)
  BY <1>0, <1>5, WrittenKept DEF StartLock, Acquire, Trusting
<1>6. CASE StartCheck(t)
  BY <1>0, <1>6, WrittenKept DEF StartCheck, Trusting
<1>7. CASE StartRead(t)
  BY <1>0, <1>7, WrittenKept DEF StartRead, Trusting
<1>8. CASE StartWrite(t)
  <2>1. CASE Fail(t, "start_unlock") /\ UNCHANGED runtimeConfig
    BY <1>0, <1>8, <2>1, WrittenKept DEF Trusting
  <2>2. CASE Goto(t, "start_test") /\ runtimeConfig' = [runtimeConfig EXCEPT ![g[t].id] = t]
    <3>1. pc[t] = "start_write" /\ pc'[t] = "start_test"
      BY <1>0, <1>8, <2>2 DEF StartWrite
    <3> QED BY <1>0, <2>2, <3>1, WriterWritten DEF HoldsLock, Holding, Trusting
  <2> QED BY <1>8, <2>1, <2>2 DEF StartWrite
<1>9. CASE StartTest(t)
  BY <1>0, <1>9, WrittenKept DEF StartTest, Trusting
<1>10. CASE StartSpawn(t)
  BY <1>0, <1>10, WrittenKept DEF StartSpawn, Trusting
<1>11. CASE StartPublish(t)
  BY <1>0, <1>11, WrittenKept DEF StartPublish, Trusting
<1>12. CASE StartUnlock(t)
  <2>1. /\ pc[t] \in HoldsLock /\ pc[t] # "idle" /\ Release(t, g[t].id)
        /\ pc'[t] \notin Trusting
    BY <1>0, <1>12 DEF StartUnlock, HoldsLock, Holding, Trusting
  <2> QED BY <1>0, <2>1, ReleasedConfig, WrittenKept
<1>13. CASE StartCleanup(t)
  BY <1>0, <1>13, WrittenKept DEF StartCleanup, Trusting
<1> QED BY <1>1, <1>2, <1>3, <1>4, <1>5, <1>6, <1>7, <1>8, <1>9, <1>10, <1>11, <1>12, <1>13
           DEF StartStep

(* StopContext writes no configuration.                                    *)
LEMMA StopWritten ==
  ASSUME TypeInv, MutexHeld, Written, NEW t \in Requests, StopStep(t)
  PROVE  Written'
<1>0. Moves(t) /\ pc \in [Threads -> Steps]
  BY StopMoves, ControlTyped
<1>1. CASE StopMark(t)
  BY <1>0, <1>1, WrittenKept DEF StopMark, Trusting
<1>2. CASE StopResolve(t)
  BY <1>0, <1>2, WrittenKept DEF StopResolve, Trusting
<1>3. CASE StopFind(t)
  BY <1>0, <1>3, WrittenKept DEF StopFind, Trusting
<1>4. CASE StopAwait(t)
  BY <1>0, <1>4, WrittenKept DEF StopAwait, AfterStop, Trusting
<1>5. CASE StopSettle(t)
  BY <1>0, <1>5, WrittenKept DEF StopSettle, Trusting
<1>6. CASE StopGate(t)
  BY <1>0, <1>6, WrittenKept DEF StopGate, AfterStop, Trusting
<1>7. CASE StopLock(t)
  BY <1>0, <1>7, WrittenKept DEF StopLock, Acquire, Trusting
<1>8. CASE StopSignal(t)
  BY <1>0, <1>8, WrittenKept DEF StopSignal, Trusting
<1>9. CASE StopWait(t)
  BY <1>0, <1>9, WrittenKept DEF StopWait, Trusting
<1>10. CASE StopKilled(t)
  BY <1>0, <1>10, WrittenKept DEF StopKilled, Trusting
<1>11. CASE StopUnlock(t)
  <2>1. /\ pc[t] \in HoldsLock /\ pc[t] # "idle" /\ Release(t, g[t].id)
        /\ pc'[t] \notin Trusting
    BY <1>0, <1>11 DEF StopUnlock, AfterStop, HoldsLock, StopWaiting, Trusting
  <2> QED BY <1>0, <2>1, ReleasedConfig, WrittenKept
<1> QED BY <1>1, <1>2, <1>3, <1>4, <1>5, <1>6, <1>7, <1>8, <1>9, <1>10, <1>11 DEF StopStep

(* ReloadContext writes one, under the mutex.                              *)
LEMMA RequestWritten ==
  ASSUME TypeInv, MutexHeld, Written, NEW t \in Requests, RequestStep(t)
  PROVE  Written'
<1>0. Moves(t) /\ pc \in [Threads -> Steps]
  BY RequestMoves, ControlTyped
<1>1. CASE DeleteBegin(t)
  BY <1>0, <1>1, WrittenKept DEF DeleteBegin, Trusting
<1>2. CASE DeleteRemove(t)
  BY <1>0, <1>2, WrittenKept DEF DeleteRemove, Trusting
<1>3. CASE DeleteDrop(t)
  BY <1>0, <1>3, WrittenKept DEF DeleteDrop, DropWatchdog, Trusting
<1>4. CASE DeleteEnd(t)
  BY <1>0, <1>4, WrittenKept DEF DeleteEnd, Trusting
<1>5. CASE ReloadLock(t)
  BY <1>0, <1>5, WrittenKept DEF ReloadLock, Acquire, Trusting
<1>6. CASE ReloadCheck(t)
  BY <1>0, <1>6, WrittenKept DEF ReloadCheck, Trusting
<1>7. CASE ReloadVerify(t)
  BY <1>0, <1>7, WrittenKept DEF ReloadVerify, Trusting
<1>8. CASE ReloadWrite(t)
  <2>1. pc[t] = "reload_write"
    BY <1>8 DEF ReloadWrite
  <2>2. CASE pc'[t] = "reload_push" /\ runtimeConfig' = [runtimeConfig EXCEPT ![g[t].id] = t]
    BY <1>0, <2>1, <2>2, WriterWritten DEF HoldsLock, Reloading, Trusting
  <2>3. CASE pc'[t] = "reload_unlock" /\ UNCHANGED runtimeConfig
    BY <1>0, <2>3, WrittenKept DEF Trusting
  <2> QED BY <1>0, <1>8, <2>2, <2>3 DEF ReloadWrite
<1>9. CASE ReloadPush(t)
  BY <1>0, <1>9, WrittenKept DEF ReloadPush, Trusting
<1>10. CASE ReloadUnlock(t)
  <2>1. /\ pc[t] \in HoldsLock /\ pc[t] # "idle" /\ Release(t, g[t].id)
        /\ pc'[t] \notin Trusting
    BY <1>0, <1>10 DEF ReloadUnlock, HoldsLock, Reloading, Trusting
  <2> QED BY <1>0, <2>1, ReleasedConfig, WrittenKept
<1>11. CASE CoreBegin(t)
  BY <1>0, <1>11, WrittenKept DEF CoreBegin, Trusting
<1>12. CASE CoreEnd(t)
  BY <1>0, <1>12, WrittenKept DEF CoreEnd, Trusting
<1>13. CASE EditGuard(t)
  BY <1>0, <1>13, WrittenKept DEF EditGuard, Trusting
<1>14. CASE EditStore(t)
  BY <1>0, <1>14, WrittenKept DEF EditStore, Trusting
<1> QED BY <1>1, <1>2, <1>3, <1>4, <1>5, <1>6, <1>7, <1>8, <1>9, <1>10, <1>11, <1>12, <1>13,
           <1>14 DEF RequestStep

(* The watchdog writes none outside startContext.                          *)
LEMMA WatchdogWritten ==
  ASSUME TypeInv, MutexHeld, Written, NEW b \in Backoffs, WatchdogStep(b)
  PROVE  Written'
<1>0. Moves(b) /\ pc \in [Threads -> Steps]
  BY WatchdogMoves, ControlTyped
<1>1. CASE Wake(b)
  BY <1>0, <1>1, WrittenKept DEF Wake, Trusting
<1>2. CASE CheckEligible(b)
  BY <1>0, <1>2, WrittenKept DEF CheckEligible, Trusting
<1>3. CASE Rearm(b)
  BY <1>0, <1>3, WrittenKept DEF Rearm, Arm, Trusting
<1>4. CASE Relaunched(b)
  BY <1>0, <1>4, WrittenKept DEF Relaunched, Trusting
<1>5. CASE WatchHealthy(b)
  BY <1>0, <1>5, WrittenKept DEF WatchHealthy, Trusting
<1> QED BY <1>1, <1>2, <1>3, <1>4, <1>5 DEF WatchdogStep

(* A push of t would not reach p, unless p is the process t checked.       *)
Reaches(t, p) == proc[p].st = "alive" /\ proc[p].id = g[t].id => p = g[t].ps

(* From its second look at procs on, a reload's process is the instance's  *)
(* only one.                                                               *)
Reloaded == \A t \in Requests : pc[t] \in {"reload_write", "reload_push"} =>
              \A p \in Procs : Reaches(t, p)

(* A step that begins no reload and spawns no process.                     *)
LEMMA ReloadedKept ==
  ASSUME TypeInv, Reloaded, NEW t \in Threads, Moves(t), Alike,
         pc'[t] \in {"reload_write", "reload_push"} => pc[t] \in {"reload_write", "reload_push"}
  PROVE  Reloaded'
<1> SUFFICES ASSUME NEW u \in Requests, pc'[u] \in {"reload_write", "reload_push"}, NEW p \in Procs
             PROVE  Reaches(u, p)'
  BY DEF Reloaded
<1>1. pc[u] \in {"reload_write", "reload_push"} /\ g'[u].id = g[u].id /\ g'[u].ps = g[u].ps
  BY DEF Moves, Frame, Carries
<1>2. Reaches(u, p)
  BY <1>1 DEF Reloaded
<1> QED BY <1>1, <1>2 DEF Reaches, Alike, Unreaped

(* A start that spawns holds the mutex, so no reload of its instance is    *)
(* under way.                                                              *)
LEMMA StartReloaded ==
  ASSUME TypeInv, MutexHeld, Registered, Reloaded, NEW t \in Threads, StartStep(t)
  PROVE  Reloaded'
<1>0. Moves(t) /\ pc \in [Threads -> Steps]
  BY StartMoves, ControlTyped
<1>1. CASE StartEnter(t)
  BY <1>0, <1>1, AlikeSame, ReloadedKept DEF StartEnter, StartFailed
<1>2. CASE StartBlocked(t)
  BY <1>0, <1>2, AlikeSame, ReloadedKept DEF StartBlocked, StartFailed
<1>3. CASE StartNothing(t)
  BY <1>0, <1>3, AlikeSame, ReloadedKept DEF StartNothing
<1>4. CASE StartRegister(t)
  BY <1>0, <1>4, AlikeSame, ReloadedKept DEF StartRegister
<1>5. CASE StartLock(t)
  BY <1>0, <1>5, AlikeSame, ReloadedKept DEF StartLock, Acquire
<1>6. CASE StartCheck(t)
  BY <1>0, <1>6, AlikeSame, ReloadedKept DEF StartCheck
<1>7. CASE StartRead(t)
  BY <1>0, <1>7, AlikeSame, ReloadedKept DEF StartRead
<1>8. CASE StartWrite(t)
  BY <1>0, <1>8, AlikeSame, ReloadedKept DEF StartWrite
<1>9. CASE StartTest(t)
  BY <1>0, <1>9, AlikeSame, ReloadedKept DEF StartTest
<1>10. CASE StartSpawn(t)
  <2>1. CASE UNCHANGED proc
    BY <1>0, <1>10, <2>1, AlikeSame, ReloadedKept DEF StartSpawn
  <2>2. ASSUME NEW p \in Procs,
               proc' = [proc EXCEPT ![p] = [NoProc EXCEPT !.st = "alive",
                                              !.id = g[t].id, !.port = g[t].reserved]]
        PROVE  Reloaded'
    <3> SUFFICES ASSUME NEW u \in Requests, pc'[u] \in {"reload_write", "reload_push"}, NEW q \in Procs
                 PROVE  Reaches(u, q)'
      BY DEF Reloaded
    <3>1. pc[t] = "start_spawn" /\ pc'[t] \in {"start_publish", "start_unlock"}
      BY <1>0, <1>10 DEF StartSpawn
    <3>2. u # t /\ pc[u] = pc'[u] /\ g'[u].id = g[u].id /\ g'[u].ps = g[u].ps
      BY <1>0, <3>1 DEF Moves, Frame
    <3>3. lifecycle[g[u].id] = u /\ lifecycle[g[t].id] = t
      BY <3>1, <3>2 DEF MutexHeld, HoldsLock, Holding, Reloading
    <3>4. g[u].id # g[t].id
      BY <3>2, <3>3
    <3>5. proc'[p].id = g[t].id /\ \A r \in Procs \ {p} : proc'[r] = proc[r]
      BY <2>2 DEF NoProc, TypeInv, TypeOK
    <3>6. Reaches(u, q)
      BY <3>2 DEF Reloaded
    <3> QED BY <3>2, <3>4, <3>5, <3>6 DEF Reaches
  <2> QED BY <1>10, <2>1, <2>2 DEF StartSpawn
<1>11. CASE StartPublish(t)
  BY <1>0, <1>11, AlikeSame, ReloadedKept DEF StartPublish
<1>12. CASE StartUnlock(t)
  BY <1>0, <1>12, AlikeSame, ReloadedKept DEF StartUnlock
<1>13. CASE StartCleanup(t)
  BY <1>0, <1>13, AlikeSame, ReloadedKept DEF StartCleanup
<1> QED BY <1>1, <1>2, <1>3, <1>4, <1>5, <1>6, <1>7, <1>8, <1>9, <1>10, <1>11, <1>12, <1>13
           DEF StartStep

(* A Stop spawns nothing.                                                  *)
LEMMA StopReloaded ==
  ASSUME TypeInv, MutexHeld, Registered, Reloaded, NEW t \in Requests, StopStep(t)
  PROVE  Reloaded'
<1>0. Moves(t) /\ pc \in [Threads -> Steps]
  BY StopMoves, ControlTyped
<1>a. Alike
  BY AlikeStopping
<1>1. CASE StopMark(t)
  BY <1>0, <1>a, <1>1, ReloadedKept DEF StopMark
<1>2. CASE StopResolve(t)
  BY <1>0, <1>a, <1>2, ReloadedKept DEF StopResolve
<1>3. CASE StopFind(t)
  BY <1>0, <1>a, <1>3, ReloadedKept DEF StopFind
<1>4. CASE StopAwait(t)
  BY <1>0, <1>a, <1>4, ReloadedKept DEF StopAwait, AfterStop
<1>5. CASE StopSettle(t)
  BY <1>0, <1>a, <1>5, ReloadedKept DEF StopSettle
<1>6. CASE StopGate(t)
  BY <1>0, <1>a, <1>6, ReloadedKept DEF StopGate, AfterStop
<1>7. CASE StopLock(t)
  BY <1>0, <1>a, <1>7, ReloadedKept DEF StopLock, Acquire
<1>8. CASE StopSignal(t)
  BY <1>0, <1>a, <1>8, ReloadedKept DEF StopSignal
<1>9. CASE StopWait(t)
  BY <1>0, <1>a, <1>9, ReloadedKept DEF StopWait
<1>10. CASE StopKilled(t)
  BY <1>0, <1>a, <1>10, ReloadedKept DEF StopKilled
<1>11. CASE StopUnlock(t)
  BY <1>0, <1>a, <1>11, ReloadedKept DEF StopUnlock, AfterStop
<1> QED BY <1>1, <1>2, <1>3, <1>4, <1>5, <1>6, <1>7, <1>8, <1>9, <1>10, <1>11 DEF StopStep

(* ReloadContext pushes only to the process it verified.                   *)
LEMMA RequestReloaded ==
  ASSUME TypeInv, MutexHeld, Registered, Reloaded, NEW t \in Requests, RequestStep(t)
  PROVE  Reloaded'
<1>0. Moves(t) /\ pc \in [Threads -> Steps]
  BY RequestMoves, ControlTyped
<1>1. CASE DeleteBegin(t)
  BY <1>0, <1>1, AlikeSame, ReloadedKept DEF DeleteBegin
<1>2. CASE DeleteRemove(t)
  BY <1>0, <1>2, AlikeSame, ReloadedKept DEF DeleteRemove
<1>3. CASE DeleteDrop(t)
  BY <1>0, <1>3, AlikeSame, ReloadedKept DEF DeleteDrop, DropWatchdog
<1>4. CASE DeleteEnd(t)
  BY <1>0, <1>4, AlikeSame, ReloadedKept DEF DeleteEnd
<1>5. CASE ReloadLock(t)
  BY <1>0, <1>5, AlikeSame, ReloadedKept DEF ReloadLock, Acquire
<1>6. CASE ReloadCheck(t)
  BY <1>0, <1>6, AlikeSame, ReloadedKept DEF ReloadCheck
<1>7. CASE ReloadVerify(t)
  <2>1. CASE pc'[t] = "reload_unlock"
    BY <1>0, <1>7, <2>1, AlikeSame, ReloadedKept DEF ReloadVerify
  <2>2. CASE pc'[t] = "reload_write"
    <3>1. pc[t] = "reload_verify" /\ procs[g[t].id] = g[t].ps /\ UNCHANGED <<proc, g>>
      BY <1>0, <1>7, <2>2 DEF ReloadVerify
    <3>2. ASSUME NEW p \in Procs, proc[p].st = "alive", proc[p].id = g[t].id
          PROVE  p = g[t].ps
      <4>1. CASE procs[proc[p].id] = p
        BY <3>1, <3>2, <4>1
      <4>2. CASE \E u \in Threads : Publishing(u, p)
        <5>1. PICK u \in Threads : Publishing(u, p)
          BY <4>2
        <5>2. lifecycle[g[u].id] = u /\ lifecycle[g[t].id] = t /\ g[u].id = g[t].id
          BY <3>1, <3>2, <5>1 DEF Publishing, MutexHeld, HoldsLock, Holding, Reloading
        <5> QED BY <3>1, <5>1, <5>2 DEF Publishing
      <4> QED BY <3>2, <4>1, <4>2 DEF Registered, Unreaped
    <3> SUFFICES ASSUME NEW u \in Requests, pc'[u] \in {"reload_write", "reload_push"}, NEW p \in Procs
                 PROVE  Reaches(u, p)'
      BY DEF Reloaded
    <3>3. CASE u = t
      BY <3>1, <3>2, <3>3 DEF Reaches
    <3>4. CASE u # t
      BY <1>0, <3>1, <3>4 DEF Moves, Frame, Reloaded, Reaches
    <3> QED BY <3>3, <3>4
  <2> QED BY <1>0, <1>7, <2>1, <2>2 DEF ReloadVerify
<1>8. CASE ReloadWrite(t)
  BY <1>0, <1>8, AlikeSame, ReloadedKept DEF ReloadWrite
<1>9. CASE ReloadPush(t)
  BY <1>0, <1>9, AlikeSame, ReloadedKept DEF ReloadPush
<1>10. CASE ReloadUnlock(t)
  BY <1>0, <1>10, AlikeSame, ReloadedKept DEF ReloadUnlock
<1>11. CASE CoreBegin(t)
  BY <1>0, <1>11, AlikeSame, ReloadedKept DEF CoreBegin
<1>12. CASE CoreEnd(t)
  BY <1>0, <1>12, AlikeSame, ReloadedKept DEF CoreEnd
<1>13. CASE EditGuard(t)
  BY <1>0, <1>13, AlikeSame, ReloadedKept DEF EditGuard
<1>14. CASE EditStore(t)
  BY <1>0, <1>14, AlikeSame, ReloadedKept DEF EditStore
<1> QED BY <1>1, <1>2, <1>3, <1>4, <1>5, <1>6, <1>7, <1>8, <1>9, <1>10, <1>11, <1>12, <1>13,
           <1>14 DEF RequestStep

(* The watchdog spawns nothing outside startContext.                       *)
LEMMA WatchdogReloaded ==
  ASSUME TypeInv, MutexHeld, Registered, Reloaded, NEW b \in Backoffs, WatchdogStep(b)
  PROVE  Reloaded'
<1>0. Moves(b) /\ pc \in [Threads -> Steps]
  BY WatchdogMoves, ControlTyped
<1>1. CASE Wake(b)
  BY <1>0, <1>1, AlikeSame, ReloadedKept DEF Wake
<1>2. CASE CheckEligible(b)
  BY <1>0, <1>2, AlikeSame, ReloadedKept DEF CheckEligible
<1>3. CASE Rearm(b)
  BY <1>0, <1>3, AlikeSame, ReloadedKept DEF Rearm, Arm
<1>4. CASE Relaunched(b)
  BY <1>0, <1>4, AlikeSame, ReloadedKept DEF Relaunched
<1>5. CASE WatchHealthy(b)
  BY <1>0, <1>5, AlikeSame, ReloadedKept DEF WatchHealthy
<1> QED BY <1>1, <1>2, <1>3, <1>4, <1>5 DEF WatchdogStep

(* The steps between the second look at the store and the launch.          *)
Prepared == {"start_write", "start_test", "start_spawn"}

(* i has a record, and n is its port.                                      *)
OnRecord(i, n) == i \in stored /\ port[i] = n

(* No two records have one port.                                           *)
StoredApart == \A i, j \in stored : i # j => port[i] # port[j]

(* An edit of the ports of an instance that started since overtook it.     *)
EditsOvertake == \A r \in Requests :
  pc[r] = "edit_store" /\ Busy(g[r].id) => g[r].id \in overtaken

(* Unless it is overtaken, an instance is launched on the port that its    *)
(* record has, and the record keeps it as long as the process lives.       *)
PreparedOnRecord == \A t \in Threads :
  pc[t] \in Prepared => g[t].id \in overtaken \/ OnRecord(g[t].id, g[t].reserved)
RunningOnRecord == \A p \in Procs :
  proc[p].st = "alive" => proc[p].id \in overtaken \/ OnRecord(proc[p].id, proc[p].port)

PortsInv == StoredApart /\ EditsOvertake /\ PreparedOnRecord /\ RunningOnRecord

(* A step that registers no start, prepares none, launches nothing, lets no*)
(* edit pass its check and leaves the records' ports alone.                *)
PortsStill ==
  /\ UNCHANGED <<stored, port, overtaken>>
  /\ \A i \in Ids : Busy(i)' => Busy(i)
  /\ \A u \in Threads : pc'[u] \in Prepared =>
       pc[u] \in Prepared /\ g'[u].id = g[u].id /\ g'[u].reserved = g[u].reserved
  /\ \A r \in Requests : pc'[r] = "edit_store" =>
       pc[r] = "edit_store" /\ g'[r].id = g[r].id
  /\ \A p \in Procs : proc'[p].st = "alive" =>
       proc[p].st = "alive" /\ proc'[p].id = proc[p].id /\ proc'[p].port = proc[p].port

LEMMA StillPorts ==
  ASSUME TypeInv, PortsInv, PortsStill
  PROVE  PortsInv'
<1>1. StoredApart'
  BY DEF PortsInv, PortsStill, StoredApart
<1>2. EditsOvertake'
  <2>1. \A r \in Requests : pc[r] = "edit_store" => g[r].id \in Ids
    BY DEF TypeInv, Fits
  <2> QED BY <2>1 DEF PortsInv, PortsStill, EditsOvertake
<1>3. PreparedOnRecord' /\ RunningOnRecord'
  BY DEF PortsInv, PortsStill, PreparedOnRecord, RunningOnRecord, OnRecord
<1> QED BY <1>1, <1>2, <1>3 DEF PortsInv

(* Such a step of a goroutine.                                             *)
LEMMA PortsKept ==
  ASSUME TypeInv, PortsInv, NEW t \in Threads, Moves(t), Alike,
         UNCHANGED <<stored, port, overtaken>>, \A i \in Ids : Busy(i)' => Busy(i),
         pc'[t] \in Prepared => pc[t] \in Prepared, pc'[t] # "edit_store"
  PROVE  PortsInv'
<1>1. \A u \in Threads : pc'[u] \in Prepared =>
        pc[u] \in Prepared /\ g'[u].id = g[u].id /\ g'[u].reserved = g[u].reserved
  BY DEF Moves, Frame, Carries, Prepared, Attempting, Holding
<1>2. \A r \in Requests : pc'[r] = "edit_store" =>
        pc[r] = "edit_store" /\ g'[r].id = g[r].id
  BY DEF Moves, Frame
<1>3. \A p \in Procs : proc'[p].st = "alive" =>
        proc[p].st = "alive" /\ proc'[p].id = proc[p].id /\ proc'[p].port = proc[p].port
  BY DEF Alike, Unreaped
<1> QED BY <1>1, <1>2, <1>3, StillPorts DEF PortsStill

(* An instance with a live process or an attempt in flight is busy.        *)
LEMMA AttemptsBusy ==
  ASSUME TypeInv, AttemptsAccounted, NEW t \in Threads, pc[t] \in Attempting
  PROVE  g[t].id \in Ids /\ g[t].id \in starting /\ Busy(g[t].id)
<1>1. g[t].id \in Ids /\ t # None
  BY NoneAssumption DEF TypeInv, Fits, Attempting, Holding
<1>2. starts[g[t].id] = t
  BY DEF AttemptsAccounted
<1> QED BY <1>1, <1>2 DEF AttemptsAccounted, Busy

LEMMA ProcessesBusy ==
  ASSUME TypeInv, AttemptsAccounted, Registered, NEW p \in Procs, proc[p].st = "alive"
  PROVE  proc[p].id \in Ids /\ Busy(proc[p].id)
<1>1. proc[p].id \in Ids /\ p # None
  BY NoneAssumption DEF TypeInv, ProcessOf
<1>2. CASE procs[proc[p].id] = p
  BY <1>1, <1>2 DEF Busy
<1>3. CASE \E t \in Threads : Publishing(t, p)
  BY <1>1, <1>3, AttemptsBusy DEF Publishing, Attempting, Holding
<1> QED BY <1>2, <1>3 DEF Registered, Unreaped

(* A start registers where nothing runs, rechecks the port under the       *)
(* mutex, and launches on it.                                              *)
LEMMA StartPorts ==
  ASSUME TypeInv, AttemptsAccounted, Registered, PortsInv, NEW t \in Threads, StartStep(t)
  PROVE  PortsInv'
<1>0. Moves(t) /\ pc \in [Threads -> Steps]
  BY StartMoves, ControlTyped
<1> USE DEF Prepared
<1>1. CASE StartEnter(t)
  BY <1>0, <1>1, AlikeSame, PortsKept DEF StartEnter, StartFailed, storeVars, attemptVars, Busy
<1>2. CASE StartBlocked(t)
  BY <1>0, <1>2, AlikeSame, PortsKept DEF StartBlocked, StartFailed, storeVars, attemptVars, Busy
<1>3. CASE StartNothing(t)
  BY <1>0, <1>3, AlikeSame, PortsKept DEF StartNothing, storeVars, attemptVars, Busy
<1>4. CASE StartRegister(t)
  <2> DEFINE i == g[t].id
  <2>1. i \in Ids /\ ~Busy(i) /\ UNCHANGED <<stored, port, procs, proc>>
    BY <1>4 DEF StartRegister, TypeInv, Fits
  <2>2. CASE UNCHANGED <<attemptVars, overtaken>> /\ pc'[t] \in {"idle", "rearm"}
    BY <1>0, <2>1, <2>2, AlikeSame, PortsKept DEF attemptVars, Busy
  <2>3. CASE pc'[t] = "start_lock" /\ starting' = starting \cup {i} /\ Overtake(i)
    <3>1. \A j \in Ids \ {i} : Busy(j)' => Busy(j)
      BY <2>1, <2>3 DEF Busy
    <3>2. /\ \A j : j # i /\ j \in overtaken => j \in overtaken'
          /\ \A r \in Requests : pc[r] = "edit_store" /\ g[r].id = i => i \in overtaken'
      BY <2>3 DEF Overtake, Editing
    <3> HIDE DEF i
    <3>3. EditsOvertake'
      <4> SUFFICES ASSUME NEW r \in Requests, pc'[r] = "edit_store", Busy(g[r].id)'
                   PROVE  g'[r].id \in overtaken'
        BY DEF EditsOvertake
      <4>1. pc[r] = "edit_store" /\ g'[r].id = g[r].id /\ g[r].id \in Ids
        BY <1>0, <2>3 DEF Moves, Frame, TypeInv, Fits
      <4> QED BY <3>1, <3>2, <4>1 DEF PortsInv, EditsOvertake
    <3>4. PreparedOnRecord'
      <4> SUFFICES ASSUME NEW u \in Threads, pc'[u] \in Prepared
                   PROVE  (g[u].id \in overtaken \/ OnRecord(g[u].id, g[u].reserved))'
        BY DEF PreparedOnRecord
      <4>1. u # t /\ pc[u] \in Prepared /\ g'[u].id = g[u].id /\ g'[u].reserved = g[u].reserved
        BY <1>0, <2>3 DEF Moves, Frame
      <4>2. g[u].id # i
        BY <2>1, <4>1, AttemptsBusy DEF Attempting, Holding
      <4> QED BY <2>1, <3>2, <4>1, <4>2 DEF PortsInv, PreparedOnRecord, OnRecord
    <3>5. RunningOnRecord'
      <4> SUFFICES ASSUME NEW p \in Procs, proc[p].st = "alive"
                   PROVE  proc[p].id \in overtaken' \/ OnRecord(proc[p].id, proc[p].port)'
        BY <2>1 DEF RunningOnRecord
      <4>1. proc[p].id # i
        BY <2>1, ProcessesBusy
      <4> QED BY <2>1, <3>2, <4>1 DEF PortsInv, RunningOnRecord, OnRecord
    <3> QED BY <2>1, <3>3, <3>4, <3>5 DEF PortsInv, StoredApart
  <2> QED BY <1>0, <1>4, <2>2, <2>3 DEF StartRegister
<1>5. CASE StartLock(t)
  BY <1>0, <1>5, AlikeSame, PortsKept DEF StartLock, Acquire, storeVars, attemptVars, Busy
<1>6. CASE StartCheck(t)
  BY <1>0, <1>6, AlikeSame, PortsKept DEF StartCheck, storeVars, attemptVars, Busy
<1>7. CASE StartRead(t)
  <2>1. UNCHANGED <<stored, port, overtaken, procs, starting, proc>>
    BY <1>7 DEF StartRead, storeVars, attemptVars
  <2>2. CASE pc'[t] = "start_unlock"
    BY <1>0, <2>1, <2>2, AlikeSame, PortsKept DEF Busy
  <2>3. CASE pc'[t] = "start_write" /\ UNCHANGED g /\ OnRecord(g[t].id, g[t].reserved)
    <3>1. PreparedOnRecord'
      BY <1>0, <2>1, <2>3 DEF Moves, Frame, PortsInv, PreparedOnRecord, OnRecord
    <3>2. EditsOvertake' /\ RunningOnRecord' /\ StoredApart'
      BY <1>0, <2>1, <2>3
         DEF Moves, Frame, PortsInv, EditsOvertake, Busy, RunningOnRecord, StoredApart, OnRecord
    <3> QED BY <3>1, <3>2 DEF PortsInv
  <2> QED BY <1>0, <1>7, <2>2, <2>3 DEF StartRead, OnRecord
<1>8. CASE StartWrite(t)
  BY <1>0, <1>8, AlikeSame, PortsKept DEF StartWrite, storeVars, attemptVars, Busy
<1>9. CASE StartTest(t)
  BY <1>0, <1>9, AlikeSame, PortsKept DEF StartTest, storeVars, attemptVars, Busy
<1>10. CASE StartSpawn(t)
  <2>1. CASE UNCHANGED proc
    BY <1>0, <1>10, <2>1, AlikeSame, PortsKept DEF StartSpawn, storeVars, attemptVars, Busy
  <2>2. ASSUME NEW p \in Procs,
               proc' = [proc EXCEPT ![p] = [NoProc EXCEPT !.st = "alive",
                                              !.id = g[t].id, !.port = g[t].reserved]]
        PROVE  PortsInv'
    <3>1. /\ pc[t] = "start_spawn" /\ pc'[t] \in {"start_publish", "start_unlock"}
          /\ UNCHANGED <<stored, port, overtaken, procs, starting>>
      BY <1>0, <1>10 DEF StartSpawn, storeVars, attemptVars
    <3>2. /\ proc'[p].id = g[t].id /\ proc'[p].port = g[t].reserved
          /\ \A r \in Procs \ {p} : proc'[r] = proc[r]
      BY <2>2 DEF NoProc, TypeInv, TypeOK
    <3>3. RunningOnRecord'
      BY <3>1, <3>2 DEF PortsInv, PreparedOnRecord, RunningOnRecord, OnRecord
    <3>4. PreparedOnRecord'
      BY <1>0, <3>1 DEF Moves, Frame, PortsInv, PreparedOnRecord, OnRecord
    <3>5. EditsOvertake' /\ StoredApart'
      BY <1>0, <3>1 DEF Moves, Frame, PortsInv, EditsOvertake, Busy, StoredApart
    <3> QED BY <3>3, <3>4, <3>5 DEF PortsInv
  <2> QED BY <1>10, <2>1, <2>2 DEF StartSpawn
<1>11. CASE StartPublish(t)
  <2>1. /\ pc[t] = "start_publish" /\ pc'[t] = "start_unlock"
        /\ UNCHANGED <<stored, port, overtaken, starting, proc>>
        /\ procs' = [procs EXCEPT ![g[t].id] = g[t].ps] /\ procs \in [Ids -> Procs \cup {None}]
    BY <1>0, <1>11 DEF StartPublish, storeVars, attemptVars, TypeInv, TypeOK
  <2>2. g[t].id \in starting
    BY <2>1, AttemptsBusy DEF Attempting, Holding
  <2>3. \A i \in Ids : Busy(i)' => Busy(i)
    BY <2>1, <2>2 DEF Busy
  <2> QED BY <1>0, <2>1, <2>3, AlikeSame, PortsKept
<1>12. CASE StartUnlock(t)
  BY <1>0, <1>12, AlikeSame, PortsKept DEF StartUnlock, storeVars, attemptVars, Busy
<1>13. CASE StartCleanup(t)
  BY <1>0, <1>13, AlikeSame, PortsKept DEF StartCleanup, storeVars, Busy
<1> QED BY <1>1, <1>2, <1>3, <1>4, <1>5, <1>6, <1>7, <1>8, <1>9, <1>10, <1>11, <1>12, <1>13
           DEF StartStep

(* A Stop launches nothing and leaves the records alone.                   *)
LEMMA StopPorts ==
  ASSUME TypeInv, PortsInv, NEW t \in Requests, StopStep(t)
  PROVE  PortsInv'
<1>0. Moves(t) /\ pc \in [Threads -> Steps]
  BY StopMoves, ControlTyped
<1>a. Alike
  BY AlikeStopping
<1> USE DEF Prepared
<1>1. CASE StopMark(t)
  BY <1>0, <1>a, <1>1, PortsKept DEF StopMark, storeVars, attemptVars, Busy
<1>2. CASE StopResolve(t)
  BY <1>0, <1>a, <1>2, PortsKept DEF StopResolve, storeVars, attemptVars, Busy
<1>3. CASE StopFind(t)
  BY <1>0, <1>a, <1>3, PortsKept DEF StopFind, storeVars, attemptVars, Busy
<1>4. CASE StopAwait(t)
  BY <1>0, <1>a, <1>4, PortsKept DEF StopAwait, AfterStop, storeVars, attemptVars, Busy
<1>5. CASE StopSettle(t)
  BY <1>0, <1>a, <1>5, PortsKept DEF StopSettle, storeVars, attemptVars, Busy
<1>6. CASE StopGate(t)
  BY <1>0, <1>a, <1>6, PortsKept DEF StopGate, AfterStop, storeVars, attemptVars, Busy
<1>7. CASE StopLock(t)
  BY <1>0, <1>a, <1>7, PortsKept DEF StopLock, Acquire, storeVars, attemptVars, Busy
<1>8. CASE StopSignal(t)
  BY <1>0, <1>a, <1>8, PortsKept DEF StopSignal, storeVars, attemptVars, Busy
<1>9. CASE StopWait(t)
  BY <1>0, <1>a, <1>9, PortsKept DEF StopWait, storeVars, attemptVars, Busy
<1>10. CASE StopKilled(t)
  BY <1>0, <1>a, <1>10, PortsKept DEF StopKilled, storeVars, attemptVars, Busy
<1>11. CASE StopUnlock(t)
  BY <1>0, <1>a, <1>11, PortsKept DEF StopUnlock, AfterStop, storeVars, attemptVars, Busy
<1> QED BY <1>1, <1>2, <1>3, <1>4, <1>5, <1>6, <1>7, <1>8, <1>9, <1>10, <1>11 DEF StopStep

(* An edit that passed its check, or a DELETE that stopped nothing, changes*)
(* the record of a busy instance only if that is overtaken.                *)
LEMMA RequestPorts ==
  ASSUME TypeInv, AttemptsAccounted, Registered, PortsInv, NEW t \in Requests, RequestStep(t)
  PROVE  PortsInv'
<1>0. Moves(t) /\ pc \in [Threads -> Steps] /\ t \in Threads
  BY RequestMoves, ControlTyped
<1> USE DEF Prepared
<1>1. CASE DeleteBegin(t)
  BY <1>0, <1>1, AlikeSame, PortsKept DEF DeleteBegin, storeVars, attemptVars, Busy
<1>2. CASE DeleteRemove(t)
  <2> DEFINE i == g[t].id
  <2>1. /\ UNCHANGED <<port, procs, starting, proc, g>> /\ i \in Ids
        /\ pc'[t] \in {"delete_drop", "delete_end"}
    BY <1>0, <1>2 DEF DeleteRemove, attemptVars, TypeInv, Fits
  <2>2. CASE UNCHANGED <<stored, overtaken>>
    BY <1>0, <2>1, <2>2, AlikeSame, PortsKept DEF Busy
  <2>3. CASE /\ stored' = stored \ {i}
             /\ overtaken' = IF Busy(i) THEN overtaken \cup {i} ELSE overtaken
    <3>1. \A u \in Threads : pc'[u] \in Prepared => pc[u] \in Prepared /\ Busy(g[u].id)
      BY <1>0, <2>1, AttemptsBusy DEF Moves, Frame, Attempting, Holding
    <3>2. \A p \in Procs : proc[p].st = "alive" => Busy(proc[p].id)
      BY ProcessesBusy
    <3> HIDE DEF i
    <3>3. PreparedOnRecord' /\ RunningOnRecord'
      BY <2>1, <2>3, <3>1, <3>2 DEF PortsInv, PreparedOnRecord, RunningOnRecord, OnRecord
    <3>4. EditsOvertake' /\ StoredApart'
      BY <1>0, <2>1, <2>3 DEF Moves, Frame, PortsInv, EditsOvertake, Busy, StoredApart
    <3> QED BY <3>3, <3>4 DEF PortsInv
  <2> QED BY <1>2, <2>2, <2>3 DEF DeleteRemove
<1>3. CASE DeleteDrop(t)
  BY <1>0, <1>3, AlikeSame, PortsKept DEF DeleteDrop, DropWatchdog, storeVars, attemptVars, Busy
<1>4. CASE DeleteEnd(t)
  BY <1>0, <1>4, AlikeSame, PortsKept DEF DeleteEnd, storeVars, attemptVars, Busy
<1>5. CASE ReloadLock(t)
  BY <1>0, <1>5, AlikeSame, PortsKept DEF ReloadLock, Acquire, storeVars, attemptVars, Busy
<1>6. CASE ReloadCheck(t)
  BY <1>0, <1>6, AlikeSame, PortsKept DEF ReloadCheck, storeVars, attemptVars, Busy
<1>7. CASE ReloadVerify(t)
  BY <1>0, <1>7, AlikeSame, PortsKept DEF ReloadVerify, storeVars, attemptVars, Busy
<1>8. CASE ReloadWrite(t)
  BY <1>0, <1>8, AlikeSame, PortsKept DEF ReloadWrite, storeVars, attemptVars, Busy
<1>9. CASE ReloadPush(t)
  BY <1>0, <1>9, AlikeSame, PortsKept DEF ReloadPush, storeVars, attemptVars, Busy
<1>10. CASE ReloadUnlock(t)
  BY <1>0, <1>10, AlikeSame, PortsKept DEF ReloadUnlock, storeVars, attemptVars, Busy
<1>11. CASE CoreBegin(t)
  BY <1>0, <1>11, AlikeSame, PortsKept DEF CoreBegin, storeVars, attemptVars, Busy
<1>12. CASE CoreEnd(t)
  BY <1>0, <1>12, AlikeSame, PortsKept DEF CoreEnd, storeVars, attemptVars, Busy
<1>13. CASE EditGuard(t)
  <2>1. UNCHANGED <<stored, port, overtaken, procs, starting, proc>>
    BY <1>13 DEF EditGuard, storeVars, attemptVars
  <2>2. CASE pc'[t] = "idle"
    BY <1>0, <2>1, <2>2, AlikeSame, PortsKept DEF Busy
  <2>3. CASE ~Busy(g[t].id) /\ pc'[t] = "edit_store" /\ UNCHANGED g
    BY <1>0, <2>1, <2>3
       DEF Moves, Frame, PortsInv, EditsOvertake, Busy, PreparedOnRecord, RunningOnRecord,
           StoredApart, OnRecord
  <2> QED BY <1>0, <1>13, <2>2, <2>3 DEF EditGuard
<1>14. CASE EditStore(t)
  <2> DEFINE i == g[t].id
  <2>1. /\ UNCHANGED <<stored, overtaken, procs, starting, proc>> /\ i \in Ids
        /\ pc[t] = "edit_store" /\ pc'[t] = "idle"
    BY <1>0, <1>14 DEF EditStore, attemptVars, TypeInv, Fits
  <2>2. CASE UNCHANGED port
    BY <1>0, <2>1, <2>2, AlikeSame, PortsKept DEF Busy
  <2>3. ASSUME NEW n \in Ports, UnusedPort(n), port' = [port EXCEPT ![i] = n]
        PROVE  PortsInv'
    <3>1. Busy(i) => i \in overtaken
      BY <2>1 DEF PortsInv, EditsOvertake
    <3>2. port \in [Ids -> Ports] /\ stored \subseteq Ids
      BY DEF TypeInv, TypeOK
    <3>3. \A u \in Threads : pc'[u] \in Prepared =>
            /\ pc[u] \in Prepared /\ g'[u].id = g[u].id /\ g'[u].reserved = g[u].reserved
            /\ Busy(g[u].id)
      BY <1>0, <2>1, AttemptsBusy DEF Moves, Frame, Attempting, Holding
    <3>4. \A p \in Procs : proc[p].st = "alive" => Busy(proc[p].id)
      BY ProcessesBusy
    <3> HIDE DEF i
    <3>5. StoredApart'
      BY <2>1, <2>3, <3>2 DEF PortsInv, StoredApart, UnusedPort
    <3>6. PreparedOnRecord' /\ RunningOnRecord'
      BY <2>1, <2>3, <3>1, <3>2, <3>3, <3>4
         DEF PortsInv, PreparedOnRecord, RunningOnRecord, OnRecord
    <3>7. EditsOvertake'
      BY <1>0, <2>1 DEF Moves, Frame, PortsInv, EditsOvertake, Busy
    <3> QED BY <3>5, <3>6, <3>7 DEF PortsInv
  <2> QED BY <1>14, <2>2, <2>3 DEF EditStore
<1> QED BY <1>1, <1>2, <1>3, <1>4, <1>5, <1>6, <1>7, <1>8, <1>9, <1>10, <1>11, <1>12, <1>13,
           <1>14 DEF RequestStep

(* The watchdog launches nothing outside startContext.                     *)
LEMMA WatchdogPorts ==
  ASSUME TypeInv, PortsInv, NEW b \in Backoffs, WatchdogStep(b)
  PROVE  PortsInv'
<1>0. Moves(b) /\ pc \in [Threads -> Steps]
  BY WatchdogMoves, ControlTyped
<1> USE DEF Prepared
<1>1. CASE Wake(b)
  BY <1>0, <1>1, AlikeSame, PortsKept DEF Wake, storeVars, attemptVars, Busy
<1>2. CASE CheckEligible(b)
  BY <1>0, <1>2, AlikeSame, PortsKept DEF CheckEligible, storeVars, attemptVars, Busy
<1>3. CASE Rearm(b)
  BY <1>0, <1>3, AlikeSame, PortsKept DEF Rearm, Arm, storeVars, attemptVars, Busy
<1>4. CASE Relaunched(b)
  BY <1>0, <1>4, AlikeSame, PortsKept DEF Relaunched, storeVars, attemptVars, Busy
<1>5. CASE WatchHealthy(b)
  BY <1>0, <1>5, AlikeSame, PortsKept DEF WatchHealthy, storeVars, attemptVars, Busy
<1> QED BY <1>1, <1>2, <1>3, <1>4, <1>5 DEF WatchdogStep

(* The steps at which a relaunch may still launch.                         *)
Launching == {"start_lock", "start_check", "start_read", "start_write", "start_test"}

(* A step that stops nobody and moves no relaunch towards its launch.      *)
LEMMA YieldsKept ==
  ASSUME TypeInv, WatchdogYieldsToStop, NEW t \in Threads, Moves(t), userStopped' \subseteq userStopped,
         t \in Backoffs /\ pc'[t] \in Launching => pc[t] \in Launching,
         pc[t] \notin {"stop_resolve", "stop_find"}
  PROVE  WatchdogYieldsToStop'
<1> SUFFICES ASSUME NEW b \in Backoffs, pc'[b] \in Launching, g'[b].id \in userStopped',
                    ~g'[b].cancelled
             PROVE  \E r \in Requests : g'[r].id = g'[b].id /\ pc'[r] \in {"stop_resolve", "stop_find"}
  BY DEF WatchdogYieldsToStop, Launching
<1>1. pc[b] \in Launching /\ g'[b].id = g[b].id /\ g'[b].cancelled \in {g[b].cancelled, TRUE}
  BY DEF Moves, Frame, Carries, Launching, Attempting, Holding
<1>2. PICK r \in Requests : g[r].id = g[b].id /\ pc[r] \in {"stop_resolve", "stop_find"}
  BY <1>1 DEF WatchdogYieldsToStop, Launching
<1>3. r # t
  BY <1>2
<1> QED BY <1>1, <1>2, <1>3 DEF Moves, Frame

(* A relaunch registers only for an instance nobody stopped.               *)
LEMMA StartYields ==
  ASSUME TypeInv, AttemptsAccounted, Registered, WatchdogYieldsToStop, NEW t \in Threads, StartStep(t)
  PROVE  WatchdogYieldsToStop'
<1>0. Moves(t) /\ pc \in [Threads -> Steps]
  BY StartMoves, ControlTyped
<1>1. CASE StartEnter(t)
  BY <1>0, <1>1, YieldsKept DEF StartEnter, StartFailed, Launching, watchdogVars
<1>2. CASE StartBlocked(t)
  BY <1>0, <1>2, YieldsKept DEF StartBlocked, StartFailed, Launching, watchdogVars
<1>3. CASE StartNothing(t)
  BY <1>0, <1>3, YieldsKept DEF StartNothing, Launching, watchdogVars
<1>4. CASE StartRegister(t)
  <2>1. CASE t \in Requests \/ pc'[t] \notin Launching
    <3>1. userStopped' \subseteq userStopped /\ pc[t] = "start_register"
      BY <1>4 DEF StartRegister, ResetWatchdog, watchdogVars
    <3> QED BY <1>0, <2>1, <3>1, NoneAssumption, YieldsKept
  <2>2. CASE t \in Backoffs /\ pc'[t] \in Launching
    <3>1. g[t].id \notin userStopped /\ userStopped' = userStopped /\ pc[t] = "start_register"
      BY <1>4, <2>2, NoneAssumption DEF StartRegister, watchdogVars
    <3>2. g'[t].id = g[t].id
      BY <1>0, <2>2, <3>1 DEF Moves, Carries, Launching
    <3> SUFFICES ASSUME NEW b \in Backoffs \ {t}, pc'[b] \in Launching, g'[b].id \in userStopped,
                        ~g'[b].cancelled
                 PROVE  \E r \in Requests : g'[r].id = g'[b].id /\ pc'[r] \in {"stop_resolve", "stop_find"}
      BY <3>1, <3>2 DEF WatchdogYieldsToStop, Launching
    <3>3. pc[b] \in Launching /\ g'[b].id = g[b].id /\ g'[b].cancelled \in {g[b].cancelled, TRUE}
      BY <1>0 DEF Moves, Frame
    <3>4. PICK r \in Requests : g[r].id = g[b].id /\ pc[r] \in {"stop_resolve", "stop_find"}
      BY <3>3 DEF WatchdogYieldsToStop, Launching
    <3> QED BY <1>0, <3>1, <3>3, <3>4 DEF Moves, Frame
  <2> QED BY <2>1, <2>2
<1>5. CASE StartLock(t)
  BY <1>0, <1>5, YieldsKept DEF StartLock, Acquire, Launching, watchdogVars
<1>6. CASE StartCheck(t)
  BY <1>0, <1>6, YieldsKept DEF StartCheck, Launching, watchdogVars
<1>7. CASE StartRead(t)
  BY <1>0, <1>7, YieldsKept DEF StartRead, Launching, watchdogVars
<1>8. CASE StartWrite(t)
  BY <1>0, <1>8, YieldsKept DEF StartWrite, Launching, watchdogVars
<1>9. CASE StartTest(t)
  BY <1>0, <1>9, YieldsKept DEF StartTest, Launching, watchdogVars
<1>10. CASE StartSpawn(t)
  BY <1>0, <1>10, YieldsKept DEF StartSpawn, Launching, watchdogVars
<1>11. CASE StartPublish(t)
  BY <1>0, <1>11, YieldsKept DEF StartPublish, Launching, watchdogVars
<1>12. CASE StartUnlock(t)
  BY <1>0, <1>12, YieldsKept DEF StartUnlock, Launching, watchdogVars
<1>13. CASE StartCleanup(t)
  BY <1>0, <1>13, YieldsKept DEF StartCleanup, Launching, watchdogVars
<1> QED BY <1>1, <1>2, <1>3, <1>4, <1>5, <1>6, <1>7, <1>8, <1>9, <1>10, <1>11, <1>12, <1>13
           DEF StartStep

(* A Stop that found no process looks for the attempt and cancels it; one  *)
(* that found a process found no relaunch.                                 *)
LEMMA StopYields ==
  ASSUME TypeInv, AttemptsAccounted, Registered, WatchdogYieldsToStop, NEW t \in Requests, StopStep(t)
  PROVE  WatchdogYieldsToStop'
<1>0. Moves(t) /\ pc \in [Threads -> Steps]
  BY StopMoves, ControlTyped
<1>1. CASE StopMark(t)
  <2>1. pc[t] = "stop" /\ pc'[t] = "stop_resolve" /\ g'[t].id = g[t].id
        /\ userStopped' \subseteq userStopped \cup {g[t].id}
    BY <1>0, <1>1 DEF StopMark, Moves, Carries, watchdogVars
  <2> SUFFICES ASSUME NEW b \in Backoffs, pc'[b] \in Launching, g'[b].id \in userStopped',
                      ~g'[b].cancelled
               PROVE  \E r \in Requests : g'[r].id = g'[b].id /\ pc'[r] \in {"stop_resolve", "stop_find"}
    BY DEF WatchdogYieldsToStop, Launching
  <2>2. b # t /\ pc[b] \in Launching /\ g'[b].id = g[b].id /\ g'[b].cancelled \in {g[b].cancelled, TRUE}
    BY <1>0, <2>1, NoneAssumption DEF Moves, Frame
  <2>3. CASE g[b].id = g[t].id
    BY <2>1, <2>2, <2>3
  <2>4. CASE g[b].id # g[t].id
    <3>1. PICK r \in Requests : g[r].id = g[b].id /\ pc[r] \in {"stop_resolve", "stop_find"}
      BY <2>1, <2>2, <2>4 DEF WatchdogYieldsToStop, Launching
    <3> QED BY <1>0, <2>1, <2>2, <3>1 DEF Moves, Frame
  <2> QED BY <2>3, <2>4
<1>2. CASE StopResolve(t)
  <2>1. pc[t] = "stop_resolve" /\ userStopped' = userStopped
    BY <1>2 DEF StopResolve, watchdogVars
  <2> SUFFICES ASSUME NEW b \in Backoffs, pc'[b] \in Launching, g'[b].id \in userStopped,
                      ~g'[b].cancelled
               PROVE  \E r \in Requests : g'[r].id = g'[b].id /\ pc'[r] \in {"stop_resolve", "stop_find"}
    BY <2>1 DEF WatchdogYieldsToStop, Launching
  <2>2. b # t
    BY NoneAssumption
  <2>3. pc[b] \in Launching /\ g'[b].id = g[b].id /\ g'[b].cancelled \in {g[b].cancelled, TRUE}
    BY <1>0, <2>2 DEF Moves, Frame
  <2>4. PICK r \in Requests : g[r].id = g[b].id /\ pc[r] \in {"stop_resolve", "stop_find"}
    BY <2>3 DEF WatchdogYieldsToStop, Launching
  <2>5. CASE r = t
    <3>1. procs[g[t].id] = None
      BY <2>3, <2>4, <2>5 DEF Registered, Launching, Preparing
    <3>2. pc'[t] = "stop_find" /\ g'[t].id = g[t].id
      BY <1>0, <1>2, <3>1 DEF StopResolve, Carries
    <3> QED BY <2>3, <2>4, <2>5, <3>2
  <2>6. CASE r # t
    BY <1>0, <2>3, <2>4, <2>6 DEF Moves, Frame
  <2> QED BY <2>5, <2>6
<1>3. CASE StopFind(t)
  <2>1. pc[t] = "stop_find" /\ userStopped' = userStopped
    BY <1>3 DEF StopFind, watchdogVars
  <2> SUFFICES ASSUME NEW b \in Backoffs, pc'[b] \in Launching, g'[b].id \in userStopped,
                      ~g'[b].cancelled
               PROVE  \E r \in Requests : g'[r].id = g'[b].id /\ pc'[r] \in {"stop_resolve", "stop_find"}
    BY <2>1 DEF WatchdogYieldsToStop, Launching
  <2>2. b # t
    BY NoneAssumption
  <2>3. pc[b] \in Launching /\ g'[b].id = g[b].id /\ g'[b].cancelled \in {g[b].cancelled, TRUE}
    BY <1>0, <2>2 DEF Moves, Frame
  <2>4. PICK r \in Requests : g[r].id = g[b].id /\ pc[r] \in {"stop_resolve", "stop_find"}
    BY <2>3 DEF WatchdogYieldsToStop, Launching
  <2>5. CASE r = t
    <3>1. starts[g[t].id] = b
      BY <2>3, <2>4, <2>5 DEF AttemptsAccounted, Launching, Attempting, Holding
    <3>2. g' = [g EXCEPT ![b].cancelled = TRUE, ![t].awaits = b]
      BY <1>3, <3>1, NoneAssumption DEF StopFind
    <3>3. g'[b].cancelled
      BY <2>2, <3>2 DEF TypeInv, TypeOK, LocalRecord
    <3> QED BY <3>3
  <2>6. CASE r # t
    BY <1>0, <2>3, <2>4, <2>6 DEF Moves, Frame
  <2> QED BY <2>5, <2>6
<1>4. CASE StopAwait(t)
  BY <1>0, <1>4, YieldsKept DEF StopAwait, AfterStop, Launching, watchdogVars
<1>5. CASE StopSettle(t)
  BY <1>0, <1>5, YieldsKept DEF StopSettle, Launching, watchdogVars
<1>6. CASE StopGate(t)
  BY <1>0, <1>6, YieldsKept DEF StopGate, AfterStop, Launching, watchdogVars
<1>7. CASE StopLock(t)
  BY <1>0, <1>7, YieldsKept DEF StopLock, Acquire, Launching, watchdogVars
<1>8. CASE StopSignal(t)
  BY <1>0, <1>8, YieldsKept DEF StopSignal, Launching, watchdogVars
<1>9. CASE StopWait(t)
  BY <1>0, <1>9, YieldsKept DEF StopWait, Launching, watchdogVars
<1>10. CASE StopKilled(t)
  BY <1>0, <1>10, YieldsKept DEF StopKilled, Launching, watchdogVars
<1>11. CASE StopUnlock(t)
  BY <1>0, <1>11, YieldsKept DEF StopUnlock, AfterStop, Launching, watchdogVars
<1> QED BY <1>1, <1>2, <1>3, <1>4, <1>5, <1>6, <1>7, <1>8, <1>9, <1>10, <1>11 DEF StopStep

(* The other requests cancel no Stop.                                      *)
LEMMA RequestYields ==
  ASSUME TypeInv, AttemptsAccounted, Registered, WatchdogYieldsToStop, NEW t \in Requests, RequestStep(t)
  PROVE  WatchdogYieldsToStop'
<1>0. Moves(t) /\ pc \in [Threads -> Steps]
  BY RequestMoves, ControlTyped
<1>1. CASE DeleteBegin(t)
  BY <1>0, <1>1, YieldsKept DEF DeleteBegin, Launching, watchdogVars
<1>2. CASE DeleteRemove(t)
  BY <1>0, <1>2, YieldsKept DEF DeleteRemove, Launching, watchdogVars
<1>3. CASE DeleteDrop(t)
  BY <1>0, <1>3, YieldsKept DEF DeleteDrop, DropWatchdog, Launching
<1>4. CASE DeleteEnd(t)
  BY <1>0, <1>4, YieldsKept DEF DeleteEnd, Launching, watchdogVars
<1>5. CASE ReloadLock(t)
  BY <1>0, <1>5, YieldsKept DEF ReloadLock, Acquire, Launching, watchdogVars
<1>6. CASE ReloadCheck(t)
  BY <1>0, <1>6, YieldsKept DEF ReloadCheck, Launching, watchdogVars
<1>7. CASE ReloadVerify(t)
  BY <1>0, <1>7, YieldsKept DEF ReloadVerify, Launching, watchdogVars
<1>8. CASE ReloadWrite(t)
  BY <1>0, <1>8, YieldsKept DEF ReloadWrite, Launching, watchdogVars
<1>9. CASE ReloadPush(t)
  BY <1>0, <1>9, YieldsKept DEF ReloadPush, Launching, watchdogVars
<1>10. CASE ReloadUnlock(t)
  BY <1>0, <1>10, YieldsKept DEF ReloadUnlock, Launching, watchdogVars
<1>11. CASE CoreBegin(t)
  BY <1>0, <1>11, YieldsKept DEF CoreBegin, Launching, watchdogVars
<1>12. CASE CoreEnd(t)
  BY <1>0, <1>12, YieldsKept DEF CoreEnd, Launching, watchdogVars
<1>13. CASE EditGuard(t)
  BY <1>0, <1>13, YieldsKept DEF EditGuard, Launching, watchdogVars
<1>14. CASE EditStore(t)
  BY <1>0, <1>14, YieldsKept DEF EditStore, Launching, watchdogVars
<1> QED BY <1>1, <1>2, <1>3, <1>4, <1>5, <1>6, <1>7, <1>8, <1>9, <1>10, <1>11, <1>12, <1>13,
           <1>14 DEF RequestStep

(* Before startContext the watchdog launches nothing.                      *)
LEMMA WatchdogYields ==
  ASSUME TypeInv, AttemptsAccounted, Registered, WatchdogYieldsToStop, NEW b \in Backoffs, WatchdogStep(b)
  PROVE  WatchdogYieldsToStop'
<1>0. Moves(b) /\ pc \in [Threads -> Steps]
  BY WatchdogMoves, ControlTyped
<1>1. CASE Wake(b)
  BY <1>0, <1>1, YieldsKept DEF Wake, Launching
<1>2. CASE CheckEligible(b)
  BY <1>0, <1>2, YieldsKept DEF CheckEligible, Launching, watchdogVars
<1>3. CASE Rearm(b)
  <2>1. pc[b] = "rearm" /\ userStopped' = userStopped /\ pc'[b] \in {"idle", "sleeping"}
    BY <1>0, <1>3 DEF Rearm, NotArmed, Arm
  <2> QED BY <1>0, <2>1, YieldsKept DEF Launching
<1>4. CASE Relaunched(b)
  BY <1>0, <1>4, YieldsKept DEF Relaunched, Launching, watchdogVars
<1>5. CASE WatchHealthy(b)
  BY <1>0, <1>5, YieldsKept DEF WatchHealthy, Launching
<1> QED BY <1>1, <1>2, <1>3, <1>4, <1>5 DEF WatchdogStep

-----------------------------------------------------------------------------
(* Who waits for an attempt, and who waits for a process.                   *)

(* A step that ends no attempt and begins no wait for one.                 *)
LEMMA AwaitedKept ==
  ASSUME TypeInv, AwaitedIsCancelled, NEW t \in Threads, Moves(t),
         \A u \in Threads \ {t} : g'[u].awaits = g[u].awaits,
         pc[t] \in Attempting => pc'[t] \in Attempting,
         g'[t].awaits = None \/ (g'[t].awaits = g[t].awaits /\ pc[t] # "stop_await")
  PROVE  AwaitedIsCancelled'
<1> SUFFICES ASSUME NEW u \in Threads, g'[u].awaits # None
             PROVE  /\ pc'[u] = "stop_await"
                    /\ pc'[g'[u].awaits] \in Attempting /\ g'[g'[u].awaits].id = g'[u].id
                    /\ g'[g'[u].awaits].cancelled
  BY DEF AwaitedIsCancelled
<1> DEFINE o == g[u].awaits
<1>1. g'[u].awaits = o /\ o # None
  OBVIOUS
<1>2. /\ pc[u] = "stop_await" /\ o \in Threads
      /\ pc[o] \in Attempting /\ g[o].id = g[u].id /\ g[o].cancelled
  BY <1>1 DEF AwaitedIsCancelled, TypeInv, Fits, LocalRecord
<1>3. u # t
  BY <1>1, <1>2
<1>4. pc'[u] = pc[u] /\ g'[u].id = g[u].id
  BY <1>3 DEF Moves, Frame
<1>5. pc'[o] \in Attempting /\ g'[o].id = g[o].id /\ g'[o].cancelled
  BY <1>2 DEF Moves, Frame, Carries, Attempting, Holding
<1> QED BY <1>1, <1>2, <1>4, <1>5

(* Cancelling a pending backoff ends no wait.                              *)
LEMMA CancelAwaits ==
  ASSUME TypeInv, NEW i \in Ids, NEW u \in Threads
  PROVE  PendingCancelled(g, i)[u].awaits = g[u].awaits
<1>1. g \in [Threads -> LocalRecord] /\ cancelPending[i] \in Backoffs \cup {None}
  BY DEF TypeInv, TypeOK
<1> QED BY <1>1 DEF PendingCancelled, LocalRecord

(* A Stop that returns waits for nothing any more.                         *)
LEMMA ReturnAwaits ==
  ASSUME TypeInv, NEW t \in Requests, NEW ok, AfterStop(t, ok)
  PROVE  /\ \A u \in Threads \ {t} : g'[u].awaits = g[u].awaits
         /\ g'[t].awaits = None
<1>1. g \in [Threads -> LocalRecord]
  BY DEF TypeInv, TypeOK
<1>2. ASSUME NEW op \in {"restart", "delete"},
             g' = [g EXCEPT ![t] = [IdleLocals EXCEPT !.op = op, !.id = g[t].id]]
      PROVE  /\ \A u \in Threads \ {t} : g'[u].awaits = g[u].awaits
             /\ g'[t].awaits = None
  BY <1>1, <1>2 DEF IdleLocals
<1>3. CASE g' = [g EXCEPT ![t] = IdleLocals]
  BY <1>1, <1>3 DEF IdleLocals
<1> QED BY <1>2, <1>3 DEF AfterStop

(* A start that ends wakes up everybody who waits for it.                  *)
LEMMA StartAwaited ==
  ASSUME TypeInv, AwaitedIsCancelled, NEW t \in Threads, StartStep(t)
  PROVE  AwaitedIsCancelled'
<1>0. Moves(t) /\ pc \in [Threads -> Steps] /\ g \in [Threads -> LocalRecord]
  BY StartMoves, ControlTyped DEF TypeInv, TypeOK
<1>1. CASE StartEnter(t)
  BY <1>0, <1>1, AwaitedKept
     DEF StartEnter, StartFailed, IdleLocals, LocalRecord, Attempting, Holding
<1>2. CASE StartBlocked(t)
  BY <1>0, <1>2, AwaitedKept
     DEF StartBlocked, StartFailed, IdleLocals, LocalRecord, Attempting, Holding
<1>3. CASE StartNothing(t)
  BY <1>0, <1>3, AwaitedKept DEF StartNothing, IdleLocals, Attempting, Holding
<1>4. CASE StartRegister(t)
  <2> DEFINE f == IF t \in Requests THEN PendingCancelled(g, g[t].id) ELSE g
  <2>1. pc[t] = "start_register" /\ g[t].id \in Ids
    BY <1>4 DEF StartRegister, TypeInv, Fits
  <2>2. f \in [Threads -> LocalRecord] /\ \A u \in Threads : f[u].awaits = g[u].awaits
    BY <1>0, <2>1, CancelSameWork, CancelAwaits DEF SameWork
  <2>3. \/ g' = f
        \/ g' = [f EXCEPT ![t] = IdleLocals]
        \/ g' = [f EXCEPT ![t] = [f[t] EXCEPT !.reserved = None]]
    BY <1>4 DEF StartRegister
  <2> HIDE DEF f
  <2>4. \A u \in Threads \ {t} : g'[u].awaits = g[u].awaits
    BY <2>2, <2>3
  <2>5. g'[t].awaits \in {None, g[t].awaits}
    BY <2>2, <2>3 DEF IdleLocals, LocalRecord
  <2> QED BY <1>0, <2>1, <2>4, <2>5, AwaitedKept DEF Attempting, Holding
<1>5. CASE StartLock(t)
  BY <1>0, <1>5, AwaitedKept DEF StartLock, Acquire, Attempting, Holding
<1>6. CASE StartCheck(t)
  BY <1>0, <1>6, AwaitedKept DEF StartCheck, LocalRecord, Attempting, Holding
<1>7. CASE StartRead(t)
  BY <1>0, <1>7, AwaitedKept DEF StartRead, LocalRecord, Attempting, Holding
<1>8. CASE StartWrite(t)
  BY <1>0, <1>8, AwaitedKept DEF StartWrite, LocalRecord, Attempting, Holding
<1>9. CASE StartTest(t)
  BY <1>0, <1>9, AwaitedKept DEF StartTest, LocalRecord, Attempting, Holding
<1>10. CASE StartSpawn(t)
  BY <1>0, <1>10, AwaitedKept DEF StartSpawn, LocalRecord, Attempting, Holding
<1>11. CASE StartPublish(t)
  BY <1>0, <1>11, AwaitedKept DEF StartPublish, Attempting, Holding
<1>12. CASE StartUnlock(t)
  BY <1>0, <1>12, AwaitedKept DEF StartUnlock, Attempting, Holding
<1>13. CASE StartCleanup(t)
  <2> SUFFICES ASSUME NEW u \in Threads, g'[u].awaits # None
               PROVE  /\ pc'[u] = "stop_await"
                      /\ pc'[g'[u].awaits] \in Attempting /\ g'[g'[u].awaits].id = g'[u].id
                      /\ g'[g'[u].awaits].cancelled
    BY DEF AwaitedIsCancelled
  <2> DEFINE o == g[u].awaits
  <2>1. pc[t] = "start_cleanup"
    BY <1>13 DEF StartCleanup
  <2>2. g[t].awaits = None
    BY <2>1 DEF AwaitedIsCancelled
  <2>3. g'[t].awaits = None
    BY <1>0, <1>13, <2>2 DEF StartCleanup, DoneClosedFor, IdleLocals, LocalRecord
  <2>4. u # t
    BY <2>3
  <2>5. g'[u].awaits = IF o = t THEN None ELSE o
    BY <1>0, <1>13, <2>4 DEF StartCleanup, DoneClosedFor, LocalRecord
  <2>6. g'[u].awaits = o /\ o # t /\ o # None
    BY <2>5
  <2>7. /\ pc[u] = "stop_await" /\ o \in Threads
        /\ pc[o] \in Attempting /\ g[o].id = g[u].id /\ g[o].cancelled
    BY <1>0, <2>6 DEF AwaitedIsCancelled, LocalRecord
  <2> QED BY <1>0, <2>4, <2>6, <2>7 DEF Moves, Frame
<1> QED BY <1>1, <1>2, <1>3, <1>4, <1>5, <1>6, <1>7, <1>8, <1>9, <1>10, <1>11, <1>12, <1>13
           DEF StartStep

(* A Stop waits for the attempt it finds and cancels.                      *)
LEMMA StopAwaited ==
  ASSUME TypeInv, AttemptsAccounted, AwaitedIsCancelled, NEW t \in Requests, StopStep(t)
  PROVE  AwaitedIsCancelled'
<1>0. Moves(t) /\ pc \in [Threads -> Steps] /\ g \in [Threads -> LocalRecord]
  BY StopMoves, ControlTyped DEF TypeInv, TypeOK
<1>1. CASE StopMark(t)
  <2>1. pc[t] = "stop" /\ g[t].id \in Ids
    BY <1>1 DEF StopMark, TypeInv, Fits
  <2>2. \A u \in Threads : g'[u].awaits = g[u].awaits
    BY <1>1, <2>1, CancelAwaits DEF StopMark
  <2> QED BY <1>0, <2>1, <2>2, AwaitedKept DEF Attempting, Holding
<1>2. CASE StopResolve(t)
  BY <1>0, <1>2, AwaitedKept DEF StopResolve, LocalRecord, Attempting, Holding
<1>3. CASE StopFind(t)
  <2> DEFINE o == starts[g[t].id]
  <2>1. pc[t] = "stop_find" /\ g[t].id \in Ids
    BY <1>3 DEF StopFind, TypeInv, Fits
  <2>2. CASE o = None
    BY <1>0, <1>3, <2>1, <2>2, AwaitedKept DEF StopFind, Attempting, Holding
  <2>3. CASE o # None
    <3>1. o \in Threads /\ pc[o] \in Attempting /\ g[o].id = g[t].id
      BY <2>1, <2>3 DEF AttemptsAccounted, TypeInv, TypeOK
    <3>2. o # t
      BY <2>1, <3>1 DEF Attempting, Holding
    <3>3. g' = [g EXCEPT ![o].cancelled = TRUE, ![t].awaits = o] /\ pc' = [pc EXCEPT ![t] = "stop_await"]
      BY <1>3, <2>3 DEF StopFind
    <3> HIDE DEF o
    <3>4. /\ g'[o].cancelled /\ g'[o].id = g[o].id /\ g'[o].awaits = g[o].awaits
          /\ g'[t].awaits = o /\ g'[t].id = g[t].id
          /\ \A u \in Threads \ {o, t} : g'[u] = g[u]
      BY <1>0, <3>1, <3>2, <3>3 DEF LocalRecord
    <3> SUFFICES ASSUME NEW u \in Threads, g'[u].awaits # None
                 PROVE  /\ pc'[u] = "stop_await"
                        /\ pc'[g'[u].awaits] \in Attempting /\ g'[g'[u].awaits].id = g'[u].id
                        /\ g'[g'[u].awaits].cancelled
      BY DEF AwaitedIsCancelled
    <3>5. CASE u = t
      BY <1>0, <3>1, <3>2, <3>3, <3>4, <3>5
    <3>6. CASE u # t
      <4>1. g'[u].awaits = g[u].awaits /\ pc'[u] = pc[u] /\ g'[u].id = g[u].id
        BY <1>0, <3>3, <3>4, <3>6
      <4> DEFINE w == g[u].awaits
      <4>2. /\ pc[u] = "stop_await" /\ w \in Threads
            /\ pc[w] \in Attempting /\ g[w].id = g[u].id /\ g[w].cancelled
        BY <1>0, <4>1 DEF AwaitedIsCancelled, LocalRecord
      <4>3. w # t
        BY <2>1, <4>2 DEF Attempting, Holding
      <4>4. pc'[w] = pc[w] /\ g'[w].id = g[w].id /\ g'[w].cancelled
        BY <1>0, <3>3, <3>4, <4>2, <4>3
      <4> QED BY <4>1, <4>2, <4>4
    <3> QED BY <3>5, <3>6
  <2> QED BY <2>2, <2>3
<1>4. CASE StopAwait(t)
  <2>1. pc[t] = "stop_await"
    BY <1>4 DEF StopAwait
  <2>2. g'[t].awaits = None /\ \A u \in Threads \ {t} : g'[u].awaits = g[u].awaits
    BY <1>0, <1>4, ReturnAwaits DEF StopAwait
  <2> QED BY <1>0, <2>1, <2>2, AwaitedKept DEF Attempting, Holding
<1>5. CASE StopSettle(t)
  BY <1>0, <1>5, AwaitedKept DEF StopSettle, LocalRecord, Attempting, Holding
<1>6. CASE StopGate(t)
  <2>1. pc[t] = "stop_gate"
    BY <1>6 DEF StopGate
  <2>2. g'[t].awaits \in {None, g[t].awaits} /\ \A u \in Threads \ {t} : g'[u].awaits = g[u].awaits
    BY <1>0, <1>6, ReturnAwaits DEF StopGate
  <2> QED BY <1>0, <2>1, <2>2, AwaitedKept DEF Attempting, Holding
<1>7. CASE StopLock(t)
  BY <1>0, <1>7, AwaitedKept DEF StopLock, Acquire, Attempting, Holding
<1>8. CASE StopSignal(t)
  BY <1>0, <1>8, AwaitedKept DEF StopSignal, LocalRecord, Attempting, Holding
<1>9. CASE StopWait(t)
  BY <1>0, <1>9, AwaitedKept DEF StopWait, LocalRecord, Attempting, Holding
<1>10. CASE StopKilled(t)
  BY <1>0, <1>10, AwaitedKept DEF StopKilled, LocalRecord, Attempting, Holding
<1>11. CASE StopUnlock(t)
  <2>1. pc[t] = "stop_unlock"
    BY <1>11 DEF StopUnlock
  <2>2. g'[t].awaits = None /\ \A u \in Threads \ {t} : g'[u].awaits = g[u].awaits
    BY <1>11, ReturnAwaits DEF StopUnlock
  <2> QED BY <1>0, <2>1, <2>2, AwaitedKept DEF Attempting, Holding
<1> QED BY <1>1, <1>2, <1>3, <1>4, <1>5, <1>6, <1>7, <1>8, <1>9, <1>10, <1>11 DEF StopStep

(* The other requests wait for no attempt.                                 *)
LEMMA RequestAwaited ==
  ASSUME TypeInv, AwaitedIsCancelled, NEW t \in Requests, RequestStep(t)
  PROVE  AwaitedIsCancelled'
<1>0. Moves(t) /\ pc \in [Threads -> Steps] /\ g \in [Threads -> LocalRecord]
  BY RequestMoves, ControlTyped DEF TypeInv, TypeOK
<1>1. ASSUME NEW s \in Steps \ ({"stop_await"} \cup Attempting), pc[t] = s,
             \/ g' = g
             \/ g' = [g EXCEPT ![t] = IdleLocals]
             \/ \E p \in Procs \cup {None} : g' = [g EXCEPT ![t].ps = p]
      PROVE  AwaitedIsCancelled'
  BY <1>0, <1>1, AwaitedKept DEF IdleLocals, LocalRecord
<1>2. CASE DeleteDrop(t)
  <2>1. pc[t] = "delete_drop" /\ g[t].id \in Ids
    BY <1>2 DEF DeleteDrop, TypeInv, Fits
  <2>2. PendingCancelled(g, g[t].id) \in [Threads -> LocalRecord]
    BY <2>1, CancelSameWork DEF SameWork
  <2>3. \A u \in Threads : g'[u].awaits = g[u].awaits
    BY <1>2, <2>1, <2>2, CancelAwaits DEF DeleteDrop, LocalRecord
  <2> QED BY <1>0, <2>1, <2>3, AwaitedKept DEF Attempting, Holding
<1>3. CASE ReloadCheck(t)
  <2>1. pc[t] = "reload_check" /\ g[t].id \in Ids /\ procs[g[t].id] \in Procs \cup {None}
    BY <1>3 DEF ReloadCheck, TypeInv, TypeOK, Fits
  <2> QED BY <1>1, <1>3, <2>1 DEF ReloadCheck, Steps, Reloading, Attempting, Holding
<1>4. CASE DeleteBegin(t) \/ DeleteRemove(t) \/ DeleteEnd(t)
  BY <1>1, <1>4 DEF DeleteBegin, DeleteRemove, DeleteEnd, Steps, OtherSteps, Attempting, Holding
<1>5. CASE ReloadLock(t)
  BY <1>1, <1>5 DEF ReloadLock, Acquire, Steps, OtherSteps, Attempting, Holding
<1>6. CASE ReloadVerify(t) \/ ReloadWrite(t) \/ ReloadPush(t) \/ ReloadUnlock(t)
  BY <1>1, <1>6
     DEF ReloadVerify, ReloadWrite, ReloadPush, ReloadUnlock, Steps, Reloading, Attempting, Holding
<1>7. CASE CoreBegin(t) \/ CoreEnd(t) \/ EditGuard(t) \/ EditStore(t)
  BY <1>1, <1>7 DEF CoreBegin, CoreEnd, EditGuard, EditStore, Steps, OtherSteps, Attempting, Holding
<1> QED BY <1>2, <1>3, <1>4, <1>5, <1>6, <1>7 DEF RequestStep

(* Nor does the watchdog.                                                  *)
LEMMA WatchdogAwaited ==
  ASSUME TypeInv, AwaitedIsCancelled, NEW b \in Backoffs, WatchdogStep(b)
  PROVE  AwaitedIsCancelled'
<1>0. Moves(b) /\ pc \in [Threads -> Steps] /\ g \in [Threads -> LocalRecord]
  BY WatchdogMoves, ControlTyped DEF TypeInv, TypeOK
<1>a. ASSUME pc[b] \in WatchdogOnly, g'[b].awaits \in {None, g[b].awaits},
             \A u \in Threads \ {b} : g'[u] = g[u]
      PROVE  AwaitedIsCancelled'
  BY <1>0, <1>a, AwaitedKept DEF WatchdogOnly, Attempting, Holding
<1>1. ASSUME pc[b] \in WatchdogOnly, g' = g \/ g' = [g EXCEPT ![b] = IdleLocals]
      PROVE  AwaitedIsCancelled'
  BY <1>0, <1>1, <1>a DEF IdleLocals
<1>2. CASE Wake(b) \/ CheckEligible(b) \/ WatchHealthy(b)
  BY <1>1, <1>2 DEF Wake, CheckEligible, WatchHealthy, WatchdogOnly
<1>3. CASE Rearm(b)
  <2>1. CASE Finish(b)
    BY <1>1, <1>3, <2>1 DEF Rearm, WatchdogOnly
  <2>2. CASE Arm(g[b].id, b)
    <3>1. g'[b].awaits = None /\ \A u \in Threads \ {b} : g'[u] = g[u]
      BY <1>0, <2>2 DEF Arm, IdleLocals
    <3> QED BY <1>3, <1>a, <3>1 DEF Rearm, WatchdogOnly
  <2> QED BY <1>3, <2>1, <2>2 DEF Rearm
<1>4. CASE Relaunched(b)
  <2>1. CASE Finish(b)
    BY <1>1, <1>4, <2>1 DEF Relaunched, WatchdogOnly
  <2>2. CASE g' = [g EXCEPT ![b].ps = procs[g[b].id]]
    <3>1. g'[b].awaits = g[b].awaits /\ \A u \in Threads \ {b} : g'[u] = g[u]
      BY <1>0, <2>2 DEF LocalRecord
    <3> QED BY <1>4, <1>a, <3>1 DEF Relaunched, WatchdogOnly
  <2> QED BY <1>4, <2>1, <2>2 DEF Relaunched
<1> QED BY <1>2, <1>3, <1>4 DEF WatchdogStep

-----------------------------------------------------------------------------
(* A process that was asked to end stays so until its slot is free, and    *)
(* none comes back to life.                                                *)
KeepsEnding(p) ==
  /\ proc[p].st = "free" \/ proc[p].stopRequested
       => proc'[p].st = "free" \/ proc'[p].stopRequested
  /\ proc'[p].st = "alive" => proc[p].st = "alive"

(* A step before which nobody points to what it launches, and that does not*)
(* wait for what was not asked.                                            *)
LEMMA AskedKept ==
  ASSUME TypeInv, AskedToEnd, NEW t \in Threads, Moves(t),
         \A p \in Procs : KeepsEnding(p) \/ \A u \in Threads : g[u].ps # p,
         pc'[t] \in {"stop_wait", "stop_killed"} =>
           /\ proc'[g'[t].ps].st = "free" \/ proc'[g'[t].ps].stopRequested
           /\ pc'[t] = "stop_killed" => proc'[g'[t].ps].st # "alive"
  PROVE  AskedToEnd'
<1> SUFFICES ASSUME NEW u \in Threads \ {t}, pc'[u] \in {"stop_wait", "stop_killed"}
             PROVE  /\ proc'[g'[u].ps].st = "free" \/ proc'[g'[u].ps].stopRequested
                    /\ pc'[u] = "stop_killed" => proc'[g'[u].ps].st # "alive"
  BY DEF AskedToEnd
<1>1. pc'[u] = pc[u] /\ g'[u].ps = g[u].ps
  BY DEF Moves, Frame
<1>2. g[u].ps \in Procs
  BY <1>1 DEF TypeInv, Fits, HasProc
<1>3. KeepsEnding(g[u].ps)
  BY <1>2
<1> QED BY <1>1, <1>3 DEF AskedToEnd, KeepsEnding

(* A step that moves no goroutine.                                         *)
LEMMA WaitsStill ==
  ASSUME TypeInv, AwaitedIsCancelled, AskedToEnd, pc' = pc, \A p \in Procs : KeepsEnding(p),
         \A u \in Threads : /\ g'[u].awaits = g[u].awaits /\ g'[u].id = g[u].id
                            /\ g'[u].ps = g[u].ps /\ g'[u].cancelled = g[u].cancelled
  PROVE  AwaitedIsCancelled' /\ AskedToEnd'
<1>1. \A u \in Threads : g[u].awaits # None => g[u].awaits \in Threads
  BY DEF TypeInv, Fits, LocalRecord
<1>2. \A u \in Threads : pc[u] \in {"stop_wait", "stop_killed"} => g[u].ps \in Procs
  BY DEF TypeInv, Fits, HasProc
<1>3. AwaitedIsCancelled'
  BY <1>1 DEF AwaitedIsCancelled
<1>4. AskedToEnd'
  BY <1>2 DEF AskedToEnd, KeepsEnding
<1> QED BY <1>3, <1>4

(* The steps that change no process and wait for none.                     *)
LEMMA AskedSame ==
  ASSUME TypeInv, AskedToEnd, NEW t \in Threads, Moves(t), UNCHANGED proc,
         pc'[t] \notin {"stop_wait", "stop_killed"}
  PROVE  AskedToEnd'
  BY AskedKept DEF KeepsEnding

(* A slot that becomes free.                                               *)
LEMMA FreedEnds ==
  ASSUME TypeInv, NEW p \in Procs, proc' = [proc EXCEPT ![p] = NoProc]
  PROVE  \A q \in Procs : KeepsEnding(q)
  BY DEF KeepsEnding, NoProc, TypeInv, TypeOK

(* A process that goes on to another state, not to life.                   *)
LEMMA MovedEnds ==
  ASSUME TypeInv, NEW p \in Procs, NEW s, s # "alive", proc[p].st # "free",
         proc' = [proc EXCEPT ![p].st = s]
  PROVE  \A q \in Procs : KeepsEnding(q)
<1>1. proc \in [Procs -> ProcRecord] /\ proc[p] \in ProcRecord
  BY DEF TypeInv, TypeOK
<1>2. proc'[p].st = s /\ proc'[p].stopRequested = proc[p].stopRequested
  BY <1>1 DEF ProcRecord
<1>3. \A q \in Procs \ {p} : proc'[q] = proc[q]
  BY <1>1
<1> QED BY <1>2, <1>3 DEF KeepsEnding

(* startContext launches on a slot that nobody refers to.                  *)
LEMMA StartAsked ==
  ASSUME TypeInv, AskedToEnd, NEW t \in Threads, StartStep(t)
  PROVE  AskedToEnd'
<1>0. Moves(t) /\ pc \in [Threads -> Steps] /\ proc \in [Procs -> ProcRecord]
  BY StartMoves, ControlTyped DEF TypeInv, TypeOK
<1>1. CASE StartSpawn(t)
  <2>1. pc'[t] \notin {"stop_wait", "stop_killed"}
    BY <1>0, <1>1 DEF StartSpawn
  <2>2. \A p \in Procs : KeepsEnding(p) \/ \A u \in Threads : g[u].ps # p
    BY <1>0, <1>1 DEF StartSpawn, FreeProc, KeepsEnding
  <2> QED BY <1>0, <2>1, <2>2, AskedKept
<1>2. CASE StartEnter(t) \/ StartBlocked(t) \/ StartNothing(t) \/ StartRegister(t)
  BY <1>0, <1>2, AskedSame
     DEF StartEnter, StartBlocked, StartNothing, StartRegister, StartFailed
<1>3. CASE StartLock(t) \/ StartCheck(t) \/ StartRead(t) \/ StartWrite(t) \/ StartTest(t)
  BY <1>0, <1>3, AskedSame DEF StartLock, Acquire, StartCheck, StartRead, StartWrite, StartTest
<1>4. CASE StartPublish(t) \/ StartUnlock(t) \/ StartCleanup(t)
  BY <1>0, <1>4, AskedSame DEF StartPublish, StartUnlock, StartCleanup
<1> QED BY <1>1, <1>2, <1>3, <1>4 DEF StartStep

(* A Stop asks before it waits, and kills before it waits again.           *)
LEMMA StopAsked ==
  ASSUME TypeInv, AskedToEnd, NEW t \in Requests, StopStep(t)
  PROVE  AskedToEnd'
<1>0. Moves(t) /\ pc \in [Threads -> Steps] /\ proc \in [Procs -> ProcRecord]
  BY StopMoves, ControlTyped DEF TypeInv, TypeOK
<1> DEFINE p == g[t].ps
<1>1. CASE StopSignal(t)
  <2>1. CASE UNCHANGED proc /\ pc'[t] = "stop_unlock"
    BY <1>0, <2>1, AskedSame
  <2>2. CASE /\ p # None /\ proc' = [proc EXCEPT ![p].stopRequested = @ \/ proc[p].st # "free"]
             /\ pc' = [pc EXCEPT ![t] = "stop_wait"] /\ g' = g
    <3>1. p \in Procs
      BY <2>2 DEF TypeInv, Fits, LocalRecord
    <3>2. proc[p] \in ProcRecord
      BY <1>0, <3>1
    <3> HIDE DEF p
    <3>3. /\ proc'[p].st = proc[p].st
          /\ proc'[p].stopRequested <=> proc[p].stopRequested \/ proc[p].st # "free"
          /\ \A q \in Procs \ {p} : proc'[q] = proc[q]
      BY <1>0, <2>2, <3>1, <3>2 DEF ProcRecord
    <3>4. \A q \in Procs : KeepsEnding(q)
      BY <3>3 DEF KeepsEnding
    <3>5. pc'[t] = "stop_wait" /\ g'[t].ps = p
      BY <1>0, <2>2 DEF p
    <3> QED BY <1>0, <3>3, <3>4, <3>5, AskedKept
  <2> QED BY <1>0, <1>1, <2>1, <2>2 DEF StopSignal
<1>2. CASE StopWait(t)
  <2>1. CASE UNCHANGED proc /\ pc'[t] = "stop_unlock"
    BY <1>0, <2>1, AskedSame
  <2>2. CASE /\ proc' = [proc EXCEPT ![p].st = IF @ = "alive" THEN "dead" ELSE @]
             /\ pc' = [pc EXCEPT ![t] = "stop_killed"] /\ g' = g /\ pc[t] = "stop_wait"
    <3>1. p \in Procs
      BY <2>2 DEF TypeInv, Fits, HasProc
    <3>2. proc[p] \in ProcRecord
      BY <1>0, <3>1
    <3>3. proc[p].st = "free" \/ proc[p].stopRequested
      BY <2>2 DEF AskedToEnd
    <3> HIDE DEF p
    <3>4. /\ proc'[p].st = IF proc[p].st = "alive" THEN "dead" ELSE proc[p].st
          /\ proc'[p].stopRequested = proc[p].stopRequested
          /\ \A q \in Procs \ {p} : proc'[q] = proc[q]
      BY <1>0, <2>2, <3>1, <3>2 DEF ProcRecord
    <3>5. \A q \in Procs : KeepsEnding(q)
      BY <3>4 DEF KeepsEnding
    <3>6. pc'[t] = "stop_killed" /\ g'[t].ps = p
      BY <1>0, <2>2 DEF p
    <3> QED BY <1>0, <3>3, <3>4, <3>5, <3>6, AskedKept
  <2> QED BY <1>0, <1>2, <2>1, <2>2 DEF StopWait
<1>3. CASE StopMark(t) \/ StopResolve(t) \/ StopFind(t) \/ StopSettle(t)
  BY <1>0, <1>3, AskedSame DEF StopMark, StopResolve, StopFind, StopSettle
<1>4. CASE StopLock(t) \/ StopKilled(t)
  BY <1>0, <1>4, AskedSame DEF StopLock, Acquire, StopKilled
<1>5. CASE StopAwait(t) \/ StopGate(t) \/ StopUnlock(t)
  BY <1>0, <1>5, AskedSame DEF StopAwait, StopGate, StopUnlock, AfterStop
<1> QED BY <1>1, <1>2, <1>3, <1>4, <1>5 DEF StopStep

(* The other requests launch and wait for none.                            *)
LEMMA RequestAsked ==
  ASSUME TypeInv, AskedToEnd, NEW t \in Requests, RequestStep(t)
  PROVE  AskedToEnd'
<1>0. Moves(t) /\ pc \in [Threads -> Steps]
  BY RequestMoves, ControlTyped
<1>1. CASE DeleteBegin(t) \/ DeleteRemove(t) \/ DeleteDrop(t) \/ DeleteEnd(t)
  BY <1>0, <1>1, AskedSame DEF DeleteBegin, DeleteRemove, DeleteDrop, DeleteEnd
<1>2. CASE ReloadLock(t) \/ ReloadCheck(t) \/ ReloadVerify(t)
  BY <1>0, <1>2, AskedSame DEF ReloadLock, Acquire, ReloadCheck, ReloadVerify
<1>3. CASE ReloadWrite(t) \/ ReloadPush(t) \/ ReloadUnlock(t)
  BY <1>0, <1>3, AskedSame DEF ReloadWrite, ReloadPush, ReloadUnlock
<1>4. CASE CoreBegin(t) \/ CoreEnd(t) \/ EditGuard(t) \/ EditStore(t)
  BY <1>0, <1>4, AskedSame DEF CoreBegin, CoreEnd, EditGuard, EditStore
<1> QED BY <1>1, <1>2, <1>3, <1>4 DEF RequestStep

(* Nor does the watchdog outside startContext.                             *)
LEMMA WatchdogAsked ==
  ASSUME TypeInv, AskedToEnd, NEW b \in Backoffs, WatchdogStep(b)
  PROVE  AskedToEnd'
<1>0. Moves(b) /\ pc \in [Threads -> Steps]
  BY WatchdogMoves, ControlTyped
<1> QED BY <1>0, AskedSame
        DEF WatchdogStep, Wake, CheckEligible, Rearm, Arm, Relaunched, WatchHealthy

=============================================================================
