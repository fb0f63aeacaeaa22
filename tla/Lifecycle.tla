------------------------------ MODULE Lifecycle ------------------------------
(***************************************************************************)
(* The lifecycle of the managed mihomo processes: Manager's start, stop,   *)
(* restart, reload, the DELETE handler, the core-update gate and the crash *)
(* watchdog (internal/app/manager.go, internal/app/instance_handler.go).   *)
(*                                                                         *)
(* Every goroutine that runs this code has its own program counter, and    *)
(* one action is one critical section (of Manager.mu, of Store.mu, or of   *)
(* the wait between two of them), so the model has the interleavings the   *)
(* Go scheduler has.  Three kinds of goroutine exist:                      *)
(*                                                                         *)
(*   - Requests: an HTTP handler or a batch worker running one operation;  *)
(*   - Backoffs: runScheduledRestart and the watchHealthyRun it turns into;*)
(*   - one exit goroutine per launched process, whose progress is the      *)
(*     state of that process after its death.                              *)
(*                                                                         *)
(* A goroutine or process slot is used again once nothing refers to it, so *)
(* the number of operations in a behaviour is not bounded; the number that *)
(* are in flight at the same time is.                                      *)
(***************************************************************************)
EXTENDS Naturals

CONSTANTS
  Ids,          \* instance ids (slugs) the store may hold
  Requests,     \* slots for API requests in flight
  Backoffs,     \* slots for watchdog goroutines in flight
  Procs,        \* slots for processState values referenced at one time
  Ports,        \* local ports; one stands for an instance's two
  MaxRestarts,  \* watchdogMaxRestarts
  Operations,   \* the operations requests may ask for
  Events,       \* the other events of the environment that may happen
  None          \* nil

Threads == Requests \cup Backoffs

AllOperations == {"start", "stop", "restart", "delete", "reload", "core", "edit"}

AllEvents == {"expire", "create", "autoRestart", "listen"}

ASSUME OperationsAssumption == Operations \subseteq AllOperations
                               /\ Events \subseteq AllEvents
ASSUME NoneAssumption ==
  /\ None \notin Ids \cup Threads \cup Procs \cup Ports
  /\ Requests \cap Backoffs = {}
ASSUME MaxRestartsAssumption == MaxRestarts \in Nat

VARIABLES
  \* Store: ids with a record, those whose AutoRestart is set, their port
  stored, autoRestart, port,
  \* Manager, guarded by Manager.mu
  procs, starting, starts, reservedPorts, deleting, coreUpdating,
  \* Manager.watchdogs: ids with an entry, and the fields of that entry
  watchdogs, userStopped, consecutive, generation, cancelPending,
  \* Manager.lifecycle: who holds the mutex of each id
  lifecycle,
  \* who wrote the runtime config file of each id last, while it has the mutex
  \* (a DELETE removes the file, which is no write)
  runtimeConfig,
  \* processState and the operating system's process behind it
  proc,
  \* goroutines: program counter and locals
  pc, g,
  \* history: ids whose latest Stop returned nil
  stopAcked,
  \* history: ids whose latest start an edit or a DELETE overtook, one that
  \* had asked or stopped before the start was registered or published
  overtaken

storeVars    == <<stored, autoRestart, port, overtaken>>
attemptVars  == <<starting, starts, reservedPorts>>
watchdogVars == <<watchdogs, userStopped, consecutive, generation, cancelPending>>
vars == <<storeVars, procs, attemptVars, deleting, coreUpdating, watchdogVars,
          lifecycle, runtimeConfig, proc, pc, g, stopAcked>>

-----------------------------------------------------------------------------
(* Processes.  A process is alive, then dead (the kernel has it), then     *)
(* reaped: "crashed" or "exited" once cmd.Wait returned and procs was       *)
(* cleared, "closed" after close(ps.done), "arming" once maybeAutoRestart   *)
(* decided to relaunch.  mihomo binds its ports some time after cmd.Start,  *)
(* or never, if somebody else has them.                                     *)

ProcStates == {"free", "alive", "dead", "crashed", "exited", "closed", "arming"}

NoProc == [st |-> "free", id |-> None, port |-> None,
           listens |-> FALSE, stopRequested |-> FALSE]

Unreaped(p) == proc[p].st \in {"alive", "dead"}
DoneClosed(p) == proc[p].st \in {"free", "closed", "arming"}

(* A slot is allocated only when no goroutine holds a pointer to it.       *)
FreeProc(p) == proc[p].st = "free" /\ \A t \in Threads : g[t].ps # p

-----------------------------------------------------------------------------
(* Goroutines.                                                             *)

PreRegister == {"start", "start_register"}
Holding     == {"start_check", "start_read", "start_write", "start_test",
                "start_spawn", "start_publish", "start_unlock"}
Attempting  == {"start_lock", "start_cleanup"} \cup Holding
StopWaiting == {"stop_signal", "stop_wait", "stop_killed", "stop_unlock"}
Stopping    == {"stop", "stop_resolve", "stop_find", "stop_await", "stop_settle",
                "stop_gate", "stop_lock"} \cup StopWaiting
Reloading   == {"reload_check", "reload_verify", "reload_write", "reload_push",
                "reload_unlock"}
OtherSteps  == {"idle", "delete", "delete_remove", "delete_drop", "delete_end",
                "reload", "core", "core_work", "edit", "edit_store",
                "sleeping", "eligible", "rearm", "relaunched", "healthy"}
Steps == PreRegister \cup Attempting \cup Stopping \cup Reloading \cup OtherSteps

(* Locals: the instance, the captured *processState, the attempt a Stop     *)
(* waits for, whether this goroutine's startCtx was cancelled by a Stop,    *)
(* whether its request (or backoff) context is done, the ports its attempt  *)
(* reserved, whether it has an error to return, the attempt number and      *)
(* whether its *watchdogState is still the one in Manager.watchdogs.        *)
IdleLocals == [op |-> "none", id |-> None, ps |-> None, awaits |-> None,
               cancelled |-> FALSE, expired |-> FALSE, reserved |-> None,
               failed |-> FALSE, attempt |-> 0, attached |-> FALSE]

At(t, step) == pc[t] = step
Goto(t, step) == pc' = [pc EXCEPT ![t] = step]
Finish(t) == /\ Goto(t, "idle")
             /\ g' = [g EXCEPT ![t] = IdleLocals]
Fail(t, step) == /\ Goto(t, step)
                 /\ g' = [g EXCEPT ![t].failed = TRUE]

(* Context errors a start sees: its own cancellation or its caller's.      *)
CtxDone(t) == g[t].cancelled \/ g[t].expired

ProcRecord == [st : ProcStates, id : Ids \cup {None}, port : Ports \cup {None},
               listens : BOOLEAN, stopRequested : BOOLEAN]
LocalRecord == [op : AllOperations \cup {"none", "relaunch"},
                id : Ids \cup {None}, ps : Procs \cup {None},
                awaits : Threads \cup {None}, cancelled : BOOLEAN,
                expired : BOOLEAN, reserved : Ports \cup {None},
                failed : BOOLEAN, attempt : Nat, attached : BOOLEAN]

TypeOK ==
  /\ stored \subseteq Ids
  /\ autoRestart \subseteq Ids
  /\ port \in [Ids -> Ports]
  /\ procs \in [Ids -> Procs \cup {None}]
  /\ starting \subseteq Ids
  /\ starts \in [Ids -> Threads \cup {None}]
  /\ reservedPorts \in [Ports -> Ids \cup {None}]
  /\ deleting \subseteq Ids
  /\ coreUpdating \in BOOLEAN
  /\ watchdogs \subseteq Ids
  /\ userStopped \subseteq watchdogs
  /\ consecutive \in [Ids -> Nat]
  /\ generation \in [Ids -> Backoffs \cup {None}]
  /\ cancelPending \in [Ids -> Backoffs \cup {None}]
  /\ lifecycle \in [Ids -> Threads \cup {None}]
  /\ runtimeConfig \in [Ids -> Threads \cup {None}]
  /\ proc \in [Procs -> ProcRecord]
  /\ pc \in [Threads -> Steps]
  /\ g \in [Threads -> LocalRecord]
  /\ stopAcked \subseteq Ids
  /\ overtaken \subseteq Ids

(* A manager that has just been created (NewManager) over a store that     *)
(* already holds some instances, none of them running.                     *)
Init ==
  /\ stored \in SUBSET Ids
  /\ autoRestart = stored
  /\ port \in [Ids -> Ports]
  /\ \A i, j \in stored : i # j => port[i] # port[j]
  /\ procs = [i \in Ids |-> None]
  /\ starting = {}
  /\ starts = [i \in Ids |-> None]
  /\ reservedPorts = [n \in Ports |-> None]
  /\ deleting = {}
  /\ coreUpdating = FALSE
  /\ watchdogs = {}
  /\ userStopped = {}
  /\ consecutive = [i \in Ids |-> 0]
  /\ generation = [i \in Ids |-> None]
  /\ cancelPending = [i \in Ids |-> None]
  /\ lifecycle = [i \in Ids |-> None]
  /\ runtimeConfig = [i \in Ids |-> None]
  /\ proc = [p \in Procs |-> NoProc]
  /\ pc = [t \in Threads |-> "idle"]
  /\ g = [t \in Threads |-> IdleLocals]
  /\ stopAcked = {}
  /\ overtaken = {}

-----------------------------------------------------------------------------
(* The crash watchdog's bookkeeping, as it is done under Manager.mu.        *)

(* cancelPendingRestartLocked: the locals f with id i's pending backoff     *)
(* context cancelled.                                                       *)
PendingCancelled(f, i) ==
  IF cancelPending[i] = None THEN f
  ELSE [f EXCEPT ![cancelPending[i]].expired = TRUE]

(* The entry i has after resetWatchdogLocked; f is the locals it changes.   *)
ResetWatchdog(i) ==
  /\ cancelPending' = [cancelPending EXCEPT ![i] = None]
  /\ consecutive' = [consecutive EXCEPT ![i] = 0]
  /\ userStopped' = userStopped \ {i}
  /\ stopAcked' = stopAcked \ {i}
  /\ UNCHANGED <<watchdogs, generation>>

(* scheduleRestart, arming a backoff that goroutine b sleeps out.  The      *)
(* generation counter identifies the attempt armed last, so it is the       *)
(* goroutine that runs it.                                                  *)
Arm(i, b) ==
  /\ i \notin userStopped
  /\ consecutive[i] < MaxRestarts
  /\ watchdogs' = watchdogs \cup {i}
  /\ consecutive' = [consecutive EXCEPT ![i] = @ + 1]
  /\ generation' = [generation EXCEPT ![i] = b]
  /\ cancelPending' = [cancelPending EXCEPT ![i] = b]
  /\ Goto(b, "sleeping")
  /\ g' = [g EXCEPT ![b] = [IdleLocals EXCEPT !.op = "relaunch", !.id = i,
                              !.attempt = consecutive[i] + 1, !.attached = TRUE]]
  /\ UNCHANGED <<userStopped, stopAcked>>

(* scheduleRestart refusing to arm: the user stopped the instance, or the   *)
(* attempts are used up.                                                    *)
NotArmed(i) ==
  /\ \/ i \in userStopped /\ UNCHANGED <<watchdogs, consecutive>>
     \/ /\ i \notin userStopped
        /\ consecutive[i] >= MaxRestarts
        /\ watchdogs' = watchdogs \cup {i}
        /\ consecutive' = [consecutive EXCEPT ![i] = @ + 1]
  /\ UNCHANGED <<userStopped, generation, cancelPending, stopAcked>>

-----------------------------------------------------------------------------
(* startContext.                                                            *)

(* An error before the attempt is registered, or after it was cleaned up:   *)
(* the request answers, runScheduledRestart feeds it to scheduleRestart.    *)
StartFailed(t) ==
  \/ t \in Requests /\ Finish(t)
  \/ /\ t \in Backoffs
     /\ Goto(t, "rearm")
     /\ g' = [g EXCEPT ![t].reserved = None]

StartEnter(t) ==
  /\ At(t, "start")
  /\ LET known == g[t].id \in stored /\ ~g[t].expired
     IN \/ /\ known
           /\ Goto(t, "start_register")
           /\ g' = [g EXCEPT ![t].reserved = port[g[t].id]]
        \/ ~known /\ StartFailed(t)
  /\ UNCHANGED <<storeVars, procs, attemptVars, deleting, coreUpdating,
                 watchdogVars, lifecycle, runtimeConfig, proc, stopAcked>>

(* Mutants of the registration: it asks procs alone, no gate, no port owner. *)
BusyRunning(i) == procs[i] # None
MayStartUngated(i) == i \notin deleting
PortNeverTaken(t) == FALSE

(* The registration under Manager.mu, by its outcomes.                      *)
Busy(i) == procs[i] # None \/ i \in starting
MayStart(i) == ~coreUpdating /\ i \notin deleting
PortTaken(t) == reservedPorts[g[t].reserved] \notin {None, g[t].id}

(* Mutant: a relaunch that a core update blocks is done.                    *)
StartBlockedQuietly(t) ==
  /\ At(t, "start_register")
  /\ ~MayStart(g[t].id)
  /\ Finish(t)
  /\ UNCHANGED <<storeVars, procs, attemptVars, deleting, coreUpdating,
                 watchdogVars, lifecycle, runtimeConfig, proc, stopAcked>>

(* A core update or a DELETE is in progress.                                *)
StartBlocked(t) ==
  /\ At(t, "start_register")
  /\ ~MayStart(g[t].id)
  /\ StartFailed(t)
  /\ UNCHANGED <<storeVars, procs, attemptVars, deleting, coreUpdating,
                 watchdogVars, lifecycle, runtimeConfig, proc, stopAcked>>

(* errAlreadyRunning, and errWatchdogUserStopped for the watchdog: a no-op. *)
StartNothing(t) ==
  /\ At(t, "start_register")
  /\ MayStart(g[t].id)
  /\ Busy(g[t].id) \/ (t \in Backoffs /\ g[t].id \in userStopped)
  /\ Finish(t)
  /\ UNCHANGED <<storeVars, procs, attemptVars, deleting, coreUpdating,
                 watchdogVars, lifecycle, runtimeConfig, proc, stopAcked>>

(* The history of a start that registers: it is overtaken by an edit of the *)
(* ports that asked Busy before.                                            *)
Editing(t, i) == At(t, "edit_store") /\ g[t].id = i
Overtake(i) ==
  overtaken' = IF \E r \in Requests : Editing(r, i) THEN overtaken \cup {i}
                                                    ELSE overtaken \ {i}

(* A manual start resets the watchdog, whether or not its ports are free.   *)
StartRegister(t) ==
  LET i == g[t].id
      locals == IF t \in Requests THEN PendingCancelled(g, i) ELSE g
  IN /\ At(t, "start_register")
     /\ MayStart(i) /\ ~Busy(i)
     /\ \/ t \in Requests /\ ResetWatchdog(i)
        \/ t \in Backoffs /\ i \notin userStopped /\ UNCHANGED <<watchdogVars, stopAcked>>
     /\ \/ /\ PortTaken(t)
           /\ Goto(t, IF t \in Requests THEN "idle" ELSE "rearm")
           /\ g' = [locals EXCEPT ![t] = IF t \in Requests THEN IdleLocals
                                         ELSE [@ EXCEPT !.reserved = None]]
           /\ UNCHANGED <<attemptVars, overtaken>>
        \/ /\ ~PortTaken(t)
           /\ starting' = starting \cup {i}
           /\ starts' = [starts EXCEPT ![i] = t]
           /\ reservedPorts' = [reservedPorts EXCEPT ![g[t].reserved] = i]
           /\ Overtake(i)
           /\ Goto(t, "start_lock")
           /\ g' = locals
     /\ UNCHANGED <<stored, autoRestart, port, procs, deleting, coreUpdating, lifecycle,
                    runtimeConfig, proc>>

Acquire(t, from, to) ==
  /\ At(t, from)
  /\ lifecycle[g[t].id] = None
  /\ lifecycle' = [lifecycle EXCEPT ![g[t].id] = t]
  /\ Goto(t, to)
  /\ UNCHANGED <<storeVars, procs, attemptVars, deleting, coreUpdating,
                 watchdogVars, runtimeConfig, proc, g, stopAcked>>

(* Mutant: the start prepares and launches without the lifecycle mutex.     *)
StartLockless(t) ==
  /\ At(t, "start_lock")
  /\ Goto(t, "start_check")
  /\ UNCHANGED <<storeVars, procs, attemptVars, deleting, coreUpdating,
                 watchdogVars, lifecycle, runtimeConfig, proc, g, stopAcked>>

StartLock(t) == Acquire(t, "start_lock", "start_check")

StartCheck(t) ==
  /\ At(t, "start_check")
  /\ IF CtxDone(t) \/ g[t].id \in deleting
     THEN Fail(t, "start_unlock")
     ELSE Goto(t, "start_read") /\ UNCHANGED g
  /\ UNCHANGED <<storeVars, procs, attemptVars, deleting, coreUpdating,
                 watchdogVars, lifecycle, runtimeConfig, proc, stopAcked>>

(* isPortFree and checkProxyBindAvailable ask the operating system: no live *)
(* mihomo has bound n (another program may have, at any time).              *)
PortFree(n) == \A p \in Procs : proc[p].st = "alive" /\ proc[p].listens => proc[p].port # n

(* The second read of the store under the lock, the recheck of the ports    *)
(* and the probes of the ports and of the proxy bind address.               *)
StartRead(t) ==
  LET i == g[t].id
  IN /\ At(t, "start_read")
     /\ \/ /\ i \in stored /\ port[i] = g[t].reserved /\ PortFree(port[i])
           /\ Goto(t, "start_write")
           /\ UNCHANGED g
        \/ Fail(t, "start_unlock")
     /\ UNCHANGED <<storeVars, procs, attemptVars, deleting, coreUpdating,
                    watchdogVars, lifecycle, runtimeConfig, proc, stopAcked>>

(* writeRuntimeConfig and prepareGeodata.                                   *)
StartWrite(t) ==
  /\ At(t, "start_write")
  /\ \/ /\ runtimeConfig' = [runtimeConfig EXCEPT ![g[t].id] = t]
        /\ Goto(t, "start_test")
        /\ UNCHANGED g
     \/ /\ Fail(t, "start_unlock")
        /\ UNCHANGED runtimeConfig
  /\ UNCHANGED <<storeVars, procs, attemptVars, deleting, coreUpdating,
                 watchdogVars, lifecycle, proc, stopAcked>>

(* testConfig, and the recheck of startCtx that follows it.                 *)
StartTest(t) ==
  /\ At(t, "start_test")
  /\ \/ ~CtxDone(t) /\ Goto(t, "start_spawn") /\ UNCHANGED g
     \/ Fail(t, "start_unlock")
  /\ UNCHANGED <<storeVars, procs, attemptVars, deleting, coreUpdating,
                 watchdogVars, lifecycle, runtimeConfig, proc, stopAcked>>

(* cmd.Start: the process exists before the manager knows it.               *)
StartSpawn(t) ==
  /\ At(t, "start_spawn")
  /\ \/ \E p \in Procs :
          /\ FreeProc(p)
          /\ proc' = [proc EXCEPT ![p] = [NoProc EXCEPT !.st = "alive",
                                            !.id = g[t].id, !.port = g[t].reserved]]
          /\ g' = [g EXCEPT ![t].ps = p]
          /\ Goto(t, "start_publish")
     \/ Fail(t, "start_unlock") /\ UNCHANGED proc
  /\ UNCHANGED <<storeVars, procs, attemptVars, deleting, coreUpdating,
                 watchdogVars, lifecycle, runtimeConfig, stopAcked>>

StartPublish(t) ==
  /\ At(t, "start_publish")
  /\ procs' = [procs EXCEPT ![g[t].id] = g[t].ps]
  /\ Goto(t, "start_unlock")
  /\ UNCHANGED <<storeVars, attemptVars, deleting, coreUpdating, watchdogVars,
                 lifecycle, runtimeConfig, proc, g, stopAcked>>

(* Unlocking id i's mutex.  Who wrote the config file matters no longer.    *)
Release(t, i) ==
  /\ lifecycle' = [lifecycle EXCEPT ![i] = None]
  /\ runtimeConfig' = [runtimeConfig EXCEPT ![i] = IF @ = t THEN None ELSE @]

(* The deferred functions run last-in first-out: the lock is released       *)
(* before the attempt is removed.                                           *)
StartUnlock(t) ==
  /\ At(t, "start_unlock")
  /\ Release(t, g[t].id)
  /\ Goto(t, "start_cleanup")
  /\ UNCHANGED <<storeVars, procs, attemptVars, deleting, coreUpdating,
                 watchdogVars, proc, g, stopAcked>>

(* Mutant: attempt.done is not closed.                                      *)
DoneNeverClosed(t, locals) == [g EXCEPT ![t] = locals]

(* Closing attempt.done lets every Stop that waits for t go on.             *)
DoneClosedFor(t, locals) ==
  [x \in Threads |-> IF x = t THEN locals
                     ELSE [g[x] EXCEPT !.awaits = IF @ = t THEN None ELSE @]]

StartCleanup(t) ==
  LET i == g[t].id
      reserved == g[t].reserved
      next == IF t \in Requests THEN "idle"
              ELSE IF g[t].failed THEN "rearm" ELSE "relaunched"
      locals == IF t \in Requests THEN IdleLocals
                ELSE [g[t] EXCEPT !.failed = FALSE, !.cancelled = FALSE,
                                  !.reserved = None, !.ps = None]
  IN /\ At(t, "start_cleanup")
     /\ starting' = starting \ {i}
     /\ starts' = [starts EXCEPT ![i] = IF @ = t THEN None ELSE @]
     /\ reservedPorts' = [reservedPorts EXCEPT ![reserved] = IF @ = i THEN None ELSE @]
     /\ Goto(t, next)
     /\ g' = DoneClosedFor(t, locals)
     /\ UNCHANGED <<storeVars, procs, deleting, coreUpdating, watchdogVars,
                    lifecycle, runtimeConfig, proc, stopAcked>>

-----------------------------------------------------------------------------
(* StopContext, and what its callers Restart and the DELETE handler do next.*)

(* markUserStopped: skipped for an unknown id and while a DELETE runs.      *)
StopMark(t) ==
  LET i == g[t].id
  IN /\ At(t, "stop")
     /\ IF i \in stored /\ i \notin deleting
        THEN /\ watchdogs' = watchdogs \cup {i}
             /\ userStopped' = userStopped \cup {i}
             /\ cancelPending' = [cancelPending EXCEPT ![i] = None]
             /\ g' = PendingCancelled(g, i)
             /\ UNCHANGED <<consecutive, generation>>
        ELSE UNCHANGED <<watchdogVars, g>>
     /\ Goto(t, "stop_resolve")
     /\ UNCHANGED <<storeVars, procs, attemptVars, deleting, coreUpdating,
                    lifecycle, runtimeConfig, proc, stopAcked>>

StopResolve(t) ==
  /\ At(t, "stop_resolve")
  /\ g' = [g EXCEPT ![t].ps = procs[g[t].id]]
  /\ Goto(t, IF procs[g[t].id] = None THEN "stop_find" ELSE "stop_gate")
  /\ UNCHANGED <<storeVars, procs, attemptVars, deleting, coreUpdating,
                 watchdogVars, lifecycle, runtimeConfig, proc, stopAcked>>

(* Mutant: the Stop waits for the attempt without cancelling it.            *)
StopFindPolite(t) ==
  LET owner == starts[g[t].id]
  IN /\ At(t, "stop_find")
     /\ g' = [g EXCEPT ![t].awaits = owner]
     /\ Goto(t, IF owner = None THEN "stop_gate" ELSE "stop_await")
     /\ UNCHANGED <<storeVars, procs, attemptVars, deleting, coreUpdating,
                    watchdogVars, lifecycle, runtimeConfig, proc, stopAcked>>

(* cancelAndAwaitStart: cancel the attempt in flight, if there is one.      *)
StopFind(t) ==
  LET owner == starts[g[t].id]
  IN /\ At(t, "stop_find")
     /\ IF owner = None
        THEN Goto(t, "stop_gate") /\ UNCHANGED g
        ELSE /\ g' = [g EXCEPT ![owner].cancelled = TRUE, ![t].awaits = owner]
             /\ Goto(t, "stop_await")
     /\ UNCHANGED <<storeVars, procs, attemptVars, deleting, coreUpdating,
                    watchdogVars, lifecycle, runtimeConfig, proc, stopAcked>>

(* How a Stop ends for its caller: Stop answers, Restart goes on to Start   *)
(* and DELETE to the removal, unless it failed.                             *)
AfterStop(t, ok) ==
  CASE g[t].op = "restart" /\ ok ->
         /\ Goto(t, "start")
         /\ g' = [g EXCEPT ![t] = [IdleLocals EXCEPT !.op = "restart", !.id = g[t].id]]
    [] g[t].op = "delete" ->
         /\ Goto(t, IF ok THEN "delete_remove" ELSE "delete_end")
         /\ g' = [g EXCEPT ![t] = [IdleLocals EXCEPT !.op = "delete", !.id = g[t].id]]
    [] OTHER -> Finish(t)

(* Waiting for the attempt, at most 15s and as long as the caller's context.*)
StopAwait(t) ==
  /\ At(t, "stop_await")
  /\ \/ /\ g[t].awaits = None
        /\ Goto(t, "stop_settle")
        /\ UNCHANGED g
     \/ /\ g[t].awaits # None \/ g[t].expired
        /\ AfterStop(t, FALSE)
  /\ UNCHANGED <<storeVars, procs, attemptVars, deleting, coreUpdating,
                 watchdogVars, lifecycle, runtimeConfig, proc, stopAcked>>

StopSettle(t) ==
  /\ At(t, "stop_settle")
  /\ g' = [g EXCEPT ![t].ps = procs[g[t].id]]
  /\ Goto(t, "stop_gate")
  /\ UNCHANGED <<storeVars, procs, attemptVars, deleting, coreUpdating,
                 watchdogVars, lifecycle, runtimeConfig, proc, stopAcked>>

(* The two returns before the lock is taken.                                *)
StopGate(t) ==
  /\ At(t, "stop_gate")
  /\ \/ g[t].expired /\ AfterStop(t, FALSE)
     \/ /\ ~g[t].expired /\ g[t].ps = None /\ g[t].id \notin stored
        /\ AfterStop(t, TRUE)
     \/ /\ ~g[t].expired /\ (g[t].ps # None \/ g[t].id \in stored)
        /\ Goto(t, "stop_lock") /\ UNCHANGED g
  /\ UNCHANGED <<storeVars, procs, attemptVars, deleting, coreUpdating,
                 watchdogVars, lifecycle, runtimeConfig, proc, stopAcked>>

StopLock(t) == Acquire(t, "stop_lock", "stop_signal")

(* SIGTERM after stopRequested is set, so that the exit is no crash.        *)
StopSignal(t) ==
  /\ At(t, "stop_signal")
  /\ \/ /\ g[t].ps = None
        /\ Goto(t, "stop_unlock")
        /\ UNCHANGED <<g, proc>>
     \/ /\ g[t].ps # None /\ g[t].expired
        /\ Fail(t, "stop_unlock")
        /\ UNCHANGED proc
     \/ /\ g[t].ps # None /\ ~g[t].expired
        /\ proc' = [proc EXCEPT ![g[t].ps].stopRequested =
                                  @ \/ proc[g[t].ps].st # "free"]
        /\ Goto(t, "stop_wait")
        /\ UNCHANGED g
  /\ UNCHANGED <<storeVars, procs, attemptVars, deleting, coreUpdating,
                 watchdogVars, lifecycle, runtimeConfig, stopAcked>>

(* Mutant: no kill after the three seconds.                                 *)
StopWaitForever(t) ==
  /\ At(t, "stop_wait")
  /\ DoneClosed(g[t].ps)
  /\ Goto(t, "stop_unlock")
  /\ UNCHANGED <<storeVars, procs, attemptVars, deleting, coreUpdating,
                 watchdogVars, lifecycle, runtimeConfig, proc, g, stopAcked>>

(* Waiting for ps.done: it closes, the context ends, or 3s pass and the     *)
(* process is killed.                                                       *)
StopWait(t) ==
  LET p == g[t].ps
  IN /\ At(t, "stop_wait")
     /\ \/ /\ DoneClosed(p)
           /\ Goto(t, "stop_unlock")
           /\ UNCHANGED <<g, proc>>
        \/ /\ g[t].expired
           /\ Fail(t, "stop_unlock")
           /\ UNCHANGED proc
        \/ /\ ~DoneClosed(p)
           /\ proc' = [proc EXCEPT ![p].st = IF @ = "alive" THEN "dead" ELSE @]
           /\ Goto(t, "stop_killed")
           /\ UNCHANGED g
     /\ UNCHANGED <<storeVars, procs, attemptVars, deleting, coreUpdating,
                    watchdogVars, lifecycle, runtimeConfig, stopAcked>>

StopKilled(t) ==
  /\ At(t, "stop_killed")
  /\ \/ /\ DoneClosed(g[t].ps)
        /\ Goto(t, "stop_unlock")
        /\ UNCHANGED g
     \/ /\ g[t].expired \/ ~DoneClosed(g[t].ps)
        /\ Fail(t, "stop_unlock")
  /\ UNCHANGED <<storeVars, procs, attemptVars, deleting, coreUpdating,
                 watchdogVars, lifecycle, runtimeConfig, proc, stopAcked>>

StopUnlock(t) ==
  LET i == g[t].id
  IN /\ At(t, "stop_unlock")
     /\ Release(t, i)
     /\ AfterStop(t, ~g[t].failed)
     /\ stopAcked' = stopAcked \cup {j \in {i} \cap userStopped : ~g[t].failed}
     /\ UNCHANGED <<storeVars, procs, attemptVars, deleting, coreUpdating,
                    watchdogVars, proc>>

-----------------------------------------------------------------------------
(* The DELETE handler around its Stop.                                      *)

DeleteBegin(t) ==
  /\ At(t, "delete")
  /\ deleting' = deleting \cup {g[t].id}
  /\ Goto(t, "stop")
  /\ UNCHANGED <<storeVars, procs, attemptVars, coreUpdating, watchdogVars,
                 lifecycle, runtimeConfig, proc, g, stopAcked>>

(* store.Delete: the record goes and its directory with it; the save fails  *)
(* and the record is put back; or the record is gone but RemoveAll failed.  *)
DeleteRemove(t) ==
  LET i == g[t].id
  IN /\ At(t, "delete_remove")
     /\ \/ /\ stored' = stored \ {i}
           /\ autoRestart' = autoRestart \ {i}
           /\ overtaken' = IF Busy(i) THEN overtaken \cup {i} ELSE overtaken
           /\ \/ Goto(t, "delete_drop")
              \/ i \in stored /\ Goto(t, "delete_end")
        \/ /\ i \in stored
           /\ Goto(t, "delete_end")
           /\ UNCHANGED <<stored, autoRestart, overtaken>>
     /\ UNCHANGED <<port, procs, attemptVars, deleting, coreUpdating, watchdogVars,
                    lifecycle, runtimeConfig, proc, g, stopAcked>>

(* Mutant: whether the user stopped i outlives its entry.                   *)
DropWatchdogPartly(i) ==
  /\ watchdogs' = watchdogs \ {i}
  /\ stopAcked' = stopAcked \ {i}
  /\ consecutive' = [consecutive EXCEPT ![i] = 0]
  /\ generation' = [generation EXCEPT ![i] = None]
  /\ cancelPending' = [cancelPending EXCEPT ![i] = None]
  /\ UNCHANGED userStopped

DropWatchdog(i) ==
  /\ watchdogs' = watchdogs \ {i}
  /\ userStopped' = userStopped \ {i}
  /\ stopAcked' = stopAcked \ {i}
  /\ consecutive' = [consecutive EXCEPT ![i] = 0]
  /\ generation' = [generation EXCEPT ![i] = None]
  /\ cancelPending' = [cancelPending EXCEPT ![i] = None]

(* Goroutines that hold the dropped entry keep a detached one.              *)
DeleteDrop(t) ==
  LET i == g[t].id
  IN /\ At(t, "delete_drop")
     /\ DropWatchdog(i)
     /\ g' = [x \in Threads |->
                [PendingCancelled(g, i)[x] EXCEPT !.attached = @ /\ g[x].id # i]]
     /\ Goto(t, "delete_end")
     /\ UNCHANGED <<storeVars, procs, attemptVars, deleting, coreUpdating,
                    lifecycle, runtimeConfig, proc>>

DeleteEnd(t) ==
  /\ At(t, "delete_end")
  /\ deleting' = deleting \ {g[t].id}
  /\ Finish(t)
  /\ UNCHANGED <<storeVars, procs, attemptVars, coreUpdating, watchdogVars,
                 lifecycle, runtimeConfig, proc, stopAcked>>

-----------------------------------------------------------------------------
(* ReloadContext.                                                           *)

(* Mutant: the reload does not take the lifecycle mutex.                    *)
ReloadLockless(t) ==
  /\ At(t, "reload")
  /\ Goto(t, "reload_check")
  /\ UNCHANGED <<storeVars, procs, attemptVars, deleting, coreUpdating,
                 watchdogVars, lifecycle, runtimeConfig, proc, g, stopAcked>>

ReloadLock(t) ==
  \/ Acquire(t, "reload", "reload_check")
  \/ /\ At(t, "reload") /\ g[t].expired
     /\ Finish(t)
     /\ UNCHANGED <<storeVars, procs, attemptVars, deleting, coreUpdating,
                    watchdogVars, lifecycle, runtimeConfig, proc, stopAcked>>

(* The process and the record, whose ports must be the process's own.       *)
ReloadCheck(t) ==
  LET i == g[t].id
      p == procs[i]
  IN /\ At(t, "reload_check")
     /\ IF /\ ~g[t].expired /\ i \notin deleting /\ p # None
           /\ i \in stored /\ port[i] = proc[p].port
        THEN /\ g' = [g EXCEPT ![t].ps = p]
             /\ Goto(t, "reload_verify")
        ELSE Goto(t, "reload_unlock") /\ UNCHANGED g
     /\ UNCHANGED <<storeVars, procs, attemptVars, deleting, coreUpdating,
                    watchdogVars, lifecycle, runtimeConfig, proc, stopAcked>>

ReloadVerify(t) ==
  /\ At(t, "reload_verify")
  /\ Goto(t, IF procs[g[t].id] = g[t].ps THEN "reload_write" ELSE "reload_unlock")
  /\ UNCHANGED <<storeVars, procs, attemptVars, deleting, coreUpdating,
                 watchdogVars, lifecycle, runtimeConfig, proc, g, stopAcked>>

ReloadWrite(t) ==
  /\ At(t, "reload_write")
  /\ \/ /\ runtimeConfig' = [runtimeConfig EXCEPT ![g[t].id] = t]
        /\ Goto(t, "reload_push")
     \/ /\ UNCHANGED runtimeConfig
        /\ Goto(t, "reload_unlock")
  /\ UNCHANGED <<storeVars, procs, attemptVars, deleting, coreUpdating,
                 watchdogVars, lifecycle, proc, g, stopAcked>>

(* reloadMihomoConfig, accepted or not; markReloaded only moves timestamps. *)
ReloadPush(t) ==
  /\ At(t, "reload_push")
  /\ Goto(t, "reload_unlock")
  /\ UNCHANGED <<storeVars, procs, attemptVars, deleting, coreUpdating,
                 watchdogVars, lifecycle, runtimeConfig, proc, g, stopAcked>>

ReloadUnlock(t) ==
  /\ At(t, "reload_unlock")
  /\ Release(t, g[t].id)
  /\ Finish(t)
  /\ UNCHANGED <<storeVars, procs, attemptVars, deleting, coreUpdating,
                 watchdogVars, proc, stopAcked>>

-----------------------------------------------------------------------------
(* The core update's gate; CoreWork is everything ApplyCoreUpdate does      *)
(* between BeginCoreUpdate and EndCoreUpdate.                               *)

(* Mutant: the gate looks at what runs, not at what is starting.            *)
CoreBeginBlind(t) ==
  /\ At(t, "core")
  /\ IF (\A i \in Ids : procs[i] = None) /\ ~coreUpdating
     THEN coreUpdating' = TRUE /\ Goto(t, "core_work") /\ UNCHANGED g
     ELSE Finish(t) /\ UNCHANGED coreUpdating
  /\ UNCHANGED <<storeVars, procs, attemptVars, deleting, watchdogVars,
                 lifecycle, runtimeConfig, proc, stopAcked>>

CoreBegin(t) ==
  /\ At(t, "core")
  /\ IF starting = {} /\ (\A i \in Ids : procs[i] = None) /\ ~coreUpdating
     THEN /\ coreUpdating' = TRUE
          /\ Goto(t, "core_work")
          /\ UNCHANGED g
     ELSE Finish(t) /\ UNCHANGED coreUpdating
  /\ UNCHANGED <<storeVars, procs, attemptVars, deleting, watchdogVars,
                 lifecycle, runtimeConfig, proc, stopAcked>>

CoreEnd(t) ==
  /\ At(t, "core_work")
  /\ coreUpdating' = FALSE
  /\ Finish(t)
  /\ UNCHANGED <<storeVars, procs, attemptVars, deleting, watchdogVars,
                 lifecycle, runtimeConfig, proc, stopAcked>>

-----------------------------------------------------------------------------
(* The PUT handler changing a port: Busy is asked first, the store is       *)
(* updated later and asks nobody.                                           *)

UnusedPort(n) == (\A j \in stored : port[j] # n) /\ PortFree(n)

(* Mutant: the handler does not ask Busy.                                   *)
EditGuardUnasked(t) ==
  /\ At(t, "edit")
  /\ IF g[t].id \notin stored
     THEN Finish(t)
     ELSE Goto(t, "edit_store") /\ UNCHANGED g
  /\ UNCHANGED <<storeVars, procs, attemptVars, deleting, coreUpdating,
                 watchdogVars, lifecycle, runtimeConfig, proc, stopAcked>>

EditGuard(t) ==
  /\ At(t, "edit")
  /\ IF Busy(g[t].id) \/ g[t].id \notin stored
     THEN Finish(t)
     ELSE Goto(t, "edit_store") /\ UNCHANGED g
  /\ UNCHANGED <<storeVars, procs, attemptVars, deleting, coreUpdating,
                 watchdogVars, lifecycle, runtimeConfig, proc, stopAcked>>

EditStore(t) ==
  LET i == g[t].id
  IN /\ At(t, "edit_store")
     /\ Finish(t)
     /\ \/ /\ i \in stored
           /\ \E n \in Ports : /\ UnusedPort(n)
                               /\ port' = [port EXCEPT ![i] = n]
        \/ UNCHANGED port
     /\ UNCHANGED <<stored, autoRestart, overtaken, procs, attemptVars, deleting,
                    coreUpdating, watchdogVars, lifecycle, runtimeConfig, proc, stopAcked>>

-----------------------------------------------------------------------------
(* The exit goroutine of a process.                                         *)

(* The process ends: it crashed, or a signal reached it.                    *)
Die(p) ==
  /\ proc[p].st = "alive"
  /\ proc' = [proc EXCEPT ![p].st = "dead"]
  /\ UNCHANGED <<storeVars, procs, attemptVars, deleting, coreUpdating,
                 watchdogVars, lifecycle, runtimeConfig, pc, g, stopAcked>>

(* mihomo binds its port, if nobody else has; if somebody has, it runs      *)
(* without, and the manager is not told.                                    *)
Listen(p) ==
  /\ "listen" \in Events
  /\ proc[p].st = "alive" /\ ~proc[p].listens /\ PortFree(proc[p].port)
  /\ proc' = [proc EXCEPT ![p].listens = TRUE]
  /\ UNCHANGED <<storeVars, procs, attemptVars, deleting, coreUpdating,
                 watchdogVars, lifecycle, runtimeConfig, pc, g, stopAcked>>

(* cmd.Wait returned, so that nobody listens any more; the goroutine exists *)
(* only once procs was published.                                           *)
Reap(p) ==
  LET i == proc[p].id
  IN /\ proc[p].st = "dead"
     /\ \A t \in Threads : ~(At(t, "start_publish") /\ g[t].ps = p)
     /\ procs' = [procs EXCEPT ![i] = IF @ = p THEN None ELSE @]
     /\ proc' = [proc EXCEPT ![p].st = IF proc[p].stopRequested THEN "exited"
                                       ELSE "crashed",
                             ![p].listens = FALSE]
     /\ UNCHANGED <<storeVars, attemptVars, deleting, coreUpdating, watchdogVars,
                    lifecycle, runtimeConfig, pc, g, stopAcked>>

CloseDone(p) ==
  /\ \/ proc[p].st = "exited" /\ proc' = [proc EXCEPT ![p] = NoProc]
     \/ proc[p].st = "crashed" /\ proc' = [proc EXCEPT ![p].st = "closed"]
  /\ UNCHANGED <<storeVars, procs, attemptVars, deleting, coreUpdating,
                 watchdogVars, lifecycle, runtimeConfig, pc, g, stopAcked>>

(* May the watchdog relaunch i?  Asked before arming and after the backoff. *)
Relaunchable(i) == i \notin deleting /\ i \in autoRestart

MaybeAutoRestart(p) ==
  /\ proc[p].st = "closed"
  /\ proc' = [proc EXCEPT ![p] = IF Relaunchable(@.id) THEN [@ EXCEPT !.st = "arming"]
                                 ELSE NoProc]
  /\ UNCHANGED <<storeVars, procs, attemptVars, deleting, coreUpdating,
                 watchdogVars, lifecycle, runtimeConfig, pc, g, stopAcked>>

ScheduleRestart(p) ==
  LET i == proc[p].id
  IN /\ proc[p].st = "arming"
     /\ \/ NotArmed(i) /\ UNCHANGED <<pc, g>>
        \/ \E b \in Backoffs : At(b, "idle") /\ Arm(i, b)
     /\ proc' = [proc EXCEPT ![p] = NoProc]
     /\ UNCHANGED <<storeVars, procs, attemptVars, deleting, coreUpdating,
                    lifecycle, runtimeConfig>>

-----------------------------------------------------------------------------
(* runScheduledRestart and watchHealthyRun.                                 *)

(* Mutant: a goroutine that wakes up clears the handle of the backoff,      *)
(* although it may be its successor's.                                      *)
WakeClobbering(b) ==
  LET i == g[b].id
      current == g[b].attached /\ generation[i] = b
  IN /\ At(b, "sleeping")
     /\ cancelPending' = [cancelPending EXCEPT ![i] = None]
     /\ IF current /\ i \notin userStopped /\ ~g[b].expired
        THEN Goto(b, "eligible") /\ UNCHANGED g
        ELSE Finish(b)
     /\ UNCHANGED <<storeVars, procs, attemptVars, deleting, coreUpdating,
                    watchdogs, userStopped, consecutive, generation,
                    lifecycle, runtimeConfig, proc, stopAcked>>

(* The section after the sleep.  A goroutine whose entry was dropped or     *)
(* armed again finds another generation, or its own context cancelled.      *)
Wake(b) ==
  LET i == g[b].id
      current == g[b].attached /\ generation[i] = b
  IN /\ At(b, "sleeping")
     /\ cancelPending' = [cancelPending EXCEPT ![i] = IF current THEN None ELSE @]
     /\ IF current /\ i \notin userStopped /\ ~g[b].expired
        THEN Goto(b, "eligible") /\ UNCHANGED g
        ELSE Finish(b)
     /\ UNCHANGED <<storeVars, procs, attemptVars, deleting, coreUpdating,
                    watchdogs, userStopped, consecutive, generation,
                    lifecycle, runtimeConfig, proc, stopAcked>>

CheckEligible(b) ==
  /\ At(b, "eligible")
  /\ IF Relaunchable(g[b].id) THEN Goto(b, "start") /\ UNCHANGED g ELSE Finish(b)
  /\ UNCHANGED <<storeVars, procs, attemptVars, deleting, coreUpdating,
                 watchdogVars, lifecycle, runtimeConfig, proc, stopAcked>>

(* Mutant: a failed relaunch is the last one.                               *)
RearmNever(b) ==
  /\ At(b, "rearm")
  /\ Finish(b)
  /\ UNCHANGED <<storeVars, procs, attemptVars, deleting, coreUpdating,
                 watchdogVars, lifecycle, runtimeConfig, proc, stopAcked>>

(* A failed relaunch uses an attempt up; the next one gets a goroutine of   *)
(* its own and this one ends, so the slot is the same.                      *)
Rearm(b) ==
  /\ At(b, "rearm")
  /\ \/ NotArmed(g[b].id) /\ Finish(b)
     \/ Arm(g[b].id, b)
  /\ UNCHANGED <<storeVars, procs, attemptVars, deleting, coreUpdating,
                 lifecycle, runtimeConfig, proc>>

Relaunched(b) ==
  /\ At(b, "relaunched")
  /\ IF procs[g[b].id] = None
     THEN Finish(b)
     ELSE /\ g' = [g EXCEPT ![b].ps = procs[g[b].id]]
          /\ Goto(b, "healthy")
  /\ UNCHANGED <<storeVars, procs, attemptVars, deleting, coreUpdating,
                 watchdogVars, lifecycle, runtimeConfig, proc, stopAcked>>

(* The process ended (the first disjunct) or healthyAfter passed.           *)
WatchHealthy(b) ==
  LET i == g[b].id
      healthy == procs[i] = g[b].ps /\ g[b].attached /\ consecutive[i] = g[b].attempt
  IN /\ At(b, "healthy")
     /\ Finish(b)
     /\ \/ DoneClosed(g[b].ps) /\ UNCHANGED consecutive
        \/ /\ ~DoneClosed(g[b].ps)
           /\ consecutive' = [consecutive EXCEPT ![i] = IF healthy THEN 0 ELSE @]
     /\ UNCHANGED <<storeVars, procs, attemptVars, deleting, coreUpdating,
                    watchdogs, userStopped, generation, cancelPending,
                    lifecycle, runtimeConfig, proc, stopAcked>>

-----------------------------------------------------------------------------
(* What the environment does: a request arrives, a request's context ends,  *)
(* an instance is created, its AutoRestart is edited, a mihomo ends or      *)
(* comes to listen on its port.                                             *)

FirstStep(op) == CASE op \in {"stop", "restart"} -> "stop"
                   [] OTHER -> op

Request(t, op, i) ==
  /\ At(t, "idle")
  /\ op = "reload" => i \in stored /\ procs[i] # None
  /\ op = "edit" => i \in stored
  /\ Goto(t, FirstStep(op))
  /\ g' = [g EXCEPT ![t] = [IdleLocals EXCEPT !.op = op, !.id = i]]
  /\ UNCHANGED <<storeVars, procs, attemptVars, deleting, coreUpdating,
                 watchdogVars, lifecycle, runtimeConfig, proc, stopAcked>>

(* Only the batch handlers and reload pass on a context that can end.       *)
Expire(t) ==
  /\ "expire" \in Events
  /\ g[t].op \in {"start", "stop", "reload"}
  /\ g' = [g EXCEPT ![t].expired = TRUE]
  /\ UNCHANGED <<storeVars, procs, attemptVars, deleting, coreUpdating,
                 watchdogVars, lifecycle, runtimeConfig, proc, pc, stopAcked>>

Create(i) ==
  /\ "create" \in Events
  /\ i \notin stored
  /\ stored' = stored \cup {i}
  /\ autoRestart' \in {autoRestart, autoRestart \cup {i}}
  /\ \E n \in Ports : UnusedPort(n) /\ port' = [port EXCEPT ![i] = n]
  /\ UNCHANGED <<overtaken, procs, attemptVars, deleting, coreUpdating, watchdogVars,
                 lifecycle, runtimeConfig, proc, pc, g, stopAcked>>

EditAutoRestart(i) ==
  /\ "autoRestart" \in Events
  /\ i \in stored
  /\ autoRestart' = IF i \in autoRestart THEN autoRestart \ {i} ELSE autoRestart \cup {i}
  /\ UNCHANGED <<stored, port, overtaken, procs, attemptVars, deleting, coreUpdating,
                 watchdogVars, lifecycle, runtimeConfig, proc, pc, g, stopAcked>>

StartStep(t) ==
  \/ StartEnter(t) \/ StartBlocked(t) \/ StartNothing(t) \/ StartRegister(t)
  \/ StartLock(t) \/ StartCheck(t) \/ StartRead(t) \/ StartWrite(t) \/ StartTest(t)
  \/ StartSpawn(t) \/ StartPublish(t) \/ StartUnlock(t) \/ StartCleanup(t)

StopStep(t) ==
  \/ StopMark(t) \/ StopResolve(t) \/ StopFind(t) \/ StopAwait(t) \/ StopSettle(t)
  \/ StopGate(t) \/ StopLock(t) \/ StopSignal(t) \/ StopWait(t) \/ StopKilled(t)
  \/ StopUnlock(t)

RequestStep(t) ==
  \/ DeleteBegin(t) \/ DeleteRemove(t) \/ DeleteDrop(t) \/ DeleteEnd(t)
  \/ ReloadLock(t) \/ ReloadCheck(t) \/ ReloadVerify(t) \/ ReloadWrite(t)
  \/ ReloadPush(t) \/ ReloadUnlock(t)
  \/ CoreBegin(t) \/ CoreEnd(t) \/ EditGuard(t) \/ EditStore(t)

WatchdogStep(b) ==
  \/ Wake(b) \/ CheckEligible(b) \/ Rearm(b) \/ Relaunched(b) \/ WatchHealthy(b)

ExitStep(p) == Reap(p) \/ CloseDone(p) \/ MaybeAutoRestart(p) \/ ScheduleRestart(p)

Environment ==
  \/ \E t \in Requests, op \in Operations, i \in Ids : Request(t, op, i)
  \/ \E t \in Requests : Expire(t)
  \/ \E i \in Ids : Create(i) \/ EditAutoRestart(i)
  \/ \E p \in Procs : Die(p) \/ Listen(p)

Next ==
  \/ \E t \in Threads : StartStep(t)
  \/ \E t \in Requests : StopStep(t) \/ RequestStep(t)
  \/ \E b \in Backoffs : WatchdogStep(b)
  \/ \E p \in Procs : ExitStep(p)
  \/ Environment

Spec == Init /\ [][Next]_vars

-----------------------------------------------------------------------------
(* Safety properties.                                                       *)

(* An instance never has two mihomo processes: startContext's registration  *)
(* and the exit goroutine's cleanup together let no second one be spawned   *)
(* while the first exists, whoever starts (a client, Restart, the watchdog).*)
OneProcess ==
  \A p, q \in Procs : Unreaped(p) /\ Unreaped(q) /\ p # q => proc[p].id # proc[q].id

(* While ApplyCoreUpdate replaces the binary no process executes it and no  *)
(* start is on its way to, not even one that was registered before.         *)
CoreGate == coreUpdating => starting = {} /\ \A p \in Procs : ~Unreaped(p)

(* mihomo is launched on the configuration its own start wrote and tested,  *)
(* and a reload pushes the one it wrote: no start, relaunch of the watchdog *)
(* or reload of the instance replaces the file in between.  A comment of    *)
(* ReloadContext says that a relaunch's write can (see the README).         *)
LaunchedConfigTested ==
  \A t \in Threads : pc[t] \in {"start_spawn", "reload_push"} => runtimeConfig[g[t].id] = t

(* A reload's PUT /configs never reaches another process of its instance    *)
(* than the one it was checked against: the lifecycle mutex keeps a Restart *)
(* and a relaunch of the watchdog out of the window between ReloadContext's *)
(* check and its push.  A comment there says a relaunch may replace the     *)
(* process at any moment, lock or no lock (see the README).                 *)
ReloadReachesItsProcess ==
  \A t \in Requests : At(t, "reload_push") =>
    \A p \in Procs : proc[p].st = "alive" /\ proc[p].id = g[t].id => p = g[t].ps

(* The goroutine that sleeps out the backoff of the live watchdog entry, if *)
(* it has not been cancelled.                                               *)
SleepsFor(b, i) ==
  At(b, "sleeping") /\ g[b].id = i /\ g[b].attached /\ generation[i] = b /\ ~g[b].expired

(* Exactly the goroutine that could still wake up and relaunch the instance *)
(* can be cancelled through cancelPending: a stale goroutine never clobbers *)
(* the handle of its successor, and no backoff runs that a Stop cannot find.*)
BackoffIsCancellable ==
  \A i \in Ids, b \in Backoffs : cancelPending[i] = b <=> SleepsFor(b, i)

(* After a user Stop stamped the instance, no relaunch of the watchdog goes *)
(* on to launch it: it was never registered, or it is cancelled, or the Stop*)
(* that will cancel it is at its next step.                                 *)
WatchdogYieldsToStop ==
  \A b \in Backoffs :
    /\ pc[b] \in {"start_lock", "start_check", "start_read", "start_write", "start_test"}
    /\ g[b].id \in userStopped
    => \/ g[b].cancelled
       \/ \E r \in Requests : g[r].id = g[b].id /\ pc[r] \in {"stop_resolve", "stop_find"}

(* The attempts in flight and what Manager says of them agree: a start that *)
(* failed, was cancelled or finished leaves no instance "starting" and no   *)
(* port reserved, and never frees what another start has reserved.          *)
AttemptsAccounted ==
  /\ \A t \in Threads : pc[t] \in Attempting =>
       starts[g[t].id] = t /\ reservedPorts[g[t].reserved] = g[t].id
  /\ \A i \in Ids : i \in starting <=> starts[i] # None
  /\ \A i \in Ids : starts[i] # None => pc[starts[i]] \in Attempting /\ g[starts[i]].id = i
  /\ \A n \in Ports : reservedPorts[n] # None =>
       LET t == starts[reservedPorts[n]] IN t # None /\ g[t].reserved = n

(* The steps at which a goroutine holds its instance's lifecycle mutex.    *)
HoldsLock == Holding \cup StopWaiting \cup Reloading

(* A mutex that is taken is in use by the goroutine that took it.          *)
MutexInUse == \A i \in Ids : lifecycle[i] # None =>
  pc[lifecycle[i]] \in HoldsLock /\ g[lifecycle[i]].id = i

(* An attempt that a Stop waits for is in flight, for the same instance,   *)
(* and cancelled.                                                          *)
AwaitedIsCancelled == \A t \in Threads : g[t].awaits # None =>
  LET owner == g[t].awaits
  IN /\ At(t, "stop_await")
     /\ pc[owner] \in Attempting /\ g[owner].id = g[t].id /\ g[owner].cancelled

(* A process that a Stop waits for was asked to end, and then killed.      *)
AskedToEnd == \A t \in Threads : pc[t] \in {"stop_wait", "stop_killed"} =>
  /\ proc[g[t].ps].st = "free" \/ proc[g[t].ps].stopRequested
  /\ At(t, "stop_killed") => proc[g[t].ps].st # "alive"

(* Nobody waits for what will not come: no early return keeps a mutex, no  *)
(* Stop waits for an attempt that has ended or does not know of it, none   *)
(* for a process that nobody asked to end.                                 *)
WaitsEnd == MutexInUse /\ AwaitedIsCancelled /\ AskedToEnd

(* Two live mihomo processes never have one port, whether they listen on it *)
(* already or are about to, unless the start of one of them was overtaken:  *)
(* by an edit of the ports that asked Busy before the start was registered, *)
(* or by a DELETE whose Stop missed it.  startContext's comment, where it   *)
(* takes the reservation, knows of no exception (see the README).           *)
PortsExclusive ==
  \A p, q \in Procs : proc[p].st = "alive" /\ proc[q].st = "alive" /\ p # q =>
    \/ proc[p].port # proc[q].port
    \/ {proc[p].id, proc[q].id} \cap overtaken # {}

(* The pairs of processes and instances that exist, as Supervisor sees them.*)
Running == {<<p, proc[p].id>> : p \in {q \in Procs : Unreaped(q)}}

Promise == INSTANCE Supervisor WITH running <- Running, swapping <- coreUpdating

(* Manager implements Supervisor: every launch, exit and core update is one *)
(* the abstract specification allows, every other step changes nothing.     *)
ImplementsSupervisor == Promise!Spec

-----------------------------------------------------------------------------
(* What the source says of a Stop, which an interleaving it does not        *)
(* account for refutes (see the README's findings).                         *)

(* A Stop that returned nil, and was not followed by a manual Start, leaves *)
(* no process of the instance alive.                                        *)
StopSticks ==
  \A i \in stopAcked, p \in Procs : proc[p].st = "alive" => proc[p].id # i

-----------------------------------------------------------------------------
(* Progress.  The scheduler runs every goroutine, sync.Mutex serves every   *)
(* waiter, the preparation of a start and the wait of a Stop are bounded by *)
(* timeouts.  Nothing makes clients send requests or processes crash.       *)

Fairness ==
  /\ \A t \in Threads : WF_vars(StartStep(t)) /\ SF_vars(StartLock(t))
  /\ \A t \in Requests : /\ WF_vars(StopStep(t)) /\ SF_vars(StopLock(t))
                         /\ WF_vars(RequestStep(t)) /\ SF_vars(ReloadLock(t))
  /\ \A b \in Backoffs : WF_vars(WatchdogStep(b))
  /\ \A p \in Procs : WF_vars(ExitStep(p))

FairSpec == Spec /\ Fairness

(* Every request is answered: no chain of mutex, attempt and process waits  *)
(* holds up a Stop, Start, Restart, Reload or DELETE for ever.              *)
RequestsReturn == \A t \in Requests : pc[t] # "idle" ~> pc[t] = "idle"

(* Nobody but the watchdog is needed after a crash: the instance runs again,*)
(* however often a relaunch fails, or the attempts are used up, unless a    *)
(* client started it itself, stopped or deleted it, or turned AutoRestart   *)
(* off.                                                                     *)
Crashed(i) == \E p \in Procs : proc[p].st = "crashed" /\ proc[p].id = i
Answered(i) ==
  \/ procs[i] # None
  \/ starts[i] \in Requests
  \/ consecutive[i] > MaxRestarts
  \/ i \in userStopped \/ ~Relaunchable(i)
CrashIsAnswered == \A i \in Ids : Crashed(i) ~> Answered(i)

(* The steps of a relaunch up to its launch, and those of one that failed. *)
Relaunching(b, i) ==
  /\ g[b].id = i
  /\ \/ pc[b] \in {"eligible", "start", "start_register", "start_lock", "start_check",
                   "start_read", "start_write", "start_test", "start_spawn",
                   "start_publish", "rearm"}
     \/ pc[b] \in {"start_unlock", "start_cleanup"} /\ g[b].failed

(* A goroutine has the crash of i in hand: the exit goroutine before it     *)
(* armed a backoff, one that sleeps it out, or one that relaunches.         *)
Recovering(i) ==
  \/ \E p \in Procs : proc[p].st \in {"crashed", "closed", "arming"} /\ proc[p].id = i
  \/ \E b \in Backoffs : SleepsFor(b, i) \/ Relaunching(b, i)

(* Two requests end a recovery without an answer: a manual start whose ports*)
(* are taken has reset the watchdog, and a DELETE drops its entry.          *)
GivesUp(t) ==
  \/ At(t, "start_register") /\ PortTaken(t) /\ pc'[t] = "idle"
  \/ At(t, "delete_drop") /\ pc'[t] = "delete_end"

(* A crash is never lost between the goroutines that hand it on: the exit   *)
(* goroutine, the backoff, the relaunch, and the next backoff if it fails.  *)
(* It stays with one of them until it is answered, a start is in flight, or *)
(* a request gave the recovery up.                                          *)
CrashIsFollowed ==
  [][\A i \in Ids : Recovering(i) =>
       \/ Recovering(i)' \/ Answered(i)' \/ starts'[i] # None
       \/ \E t \in Requests : g[t].id = i /\ GivesUp(t)]_vars

=============================================================================
