--------------------------- MODULE BrickSupervisor --------------------------
(***************************************************************************)
(* The crash supervisor of a brick                                         *)
(* (src/veridian/kernel/lifecycle.py, class BrickSupervisor): it spawns    *)
(* and initialises the brick's process, restarts it within a budget when   *)
(* it crashes, and stops it.                                               *)
(*                                                                         *)
(* A supervisor runs up to three kinds of task at once: the "start" its    *)
(* owner awaits, the "crash" handlers that exits schedule (one at a time,  *)
(* under _restart_lock, the rest queued on it), and stop().                *)
(***************************************************************************)
EXTENDS BrickProcess

CONSTANTS
  Sup,           \* supervisor objects
  None,          \* Python's None, for a handle or a process
  MaxRestarts,   \* RestartPolicy.max_restarts
  MaxExpiries    \* bound: restarts that may fall out of the window

ASSUME NoneAssumption == None \notin Proc \cup Sup
ASSUME BudgetAssumption == MaxRestarts \in Nat /\ MaxExpiries \in Nat

VARIABLES
  stopped,   \* BrickSupervisor._stopped
  handle,    \* the process behind BrickSupervisor.handle
  process,   \* BrickSupervisor._process
  recent,    \* restarts recorded in _restart_times that are inside the window
  expired,   \* how many have left it (bound)
  pc,        \* where the start task and the crash handler are
  cur,       \* the process each of them is bringing up: _spawn_and_init's proc
  crashQ,    \* crash handlers waiting for _restart_lock
  stopPc,    \* where stop() is
  stopProc,  \* the process stop() captured: its local proc
  owner      \* whose process a process is

supVars == <<stopped, handle, process, recent, expired, pc, cur, crashQ,
             stopPc, stopProc, owner>>
vars == <<procVars, supVars>>

Task   == {"start", "crash"}
TaskPc == {"idle", "backoff", "spawn", "init", "abort", "up", "failed"}

SupTypeOK ==
  /\ stopped \in [Sup -> BOOLEAN]
  /\ handle \in [Sup -> Proc \cup {None}]
  /\ process \in [Sup -> Proc \cup {None}]
  /\ recent \in [Sup -> Nat]
  /\ expired \in [Sup -> Nat]
  /\ pc \in [Sup -> [Task -> TaskPc]]
  /\ cur \in [Sup -> [Task -> Proc \cup {None}]]
  /\ crashQ \in [Sup -> Nat]
  /\ stopPc \in [Sup -> {"idle", "shutdown", "stopping", "done"}]
  /\ stopProc \in [Sup -> Proc \cup {None}]
  /\ owner \in [Proc -> Sup \cup {None}]

\* Every variable holds a value of its type.
TypeOK == ProcTypeOK /\ SupTypeOK

SupInit ==
  /\ stopped = [s \in Sup |-> FALSE]
  /\ handle = [s \in Sup |-> None]
  /\ process = [s \in Sup |-> None]
  /\ recent = [s \in Sup |-> 0]
  /\ expired = [s \in Sup |-> 0]
  /\ pc = [s \in Sup |-> [t \in Task |-> "idle"]]
  /\ cur = [s \in Sup |-> [t \in Task |-> None]]
  /\ crashQ = [s \in Sup |-> 0]
  /\ stopPc = [s \in Sup |-> "idle"]
  /\ stopProc = [s \in Sup |-> None]
  /\ owner = [p \in Proc |-> None]

Init == ProcInit /\ SupInit

-----------------------------------------------------------------------------
(* _spawn_and_init, run by the start task or by a crash handler *)

BeginSpawn(s, t) ==
  \E p \in Proc :
    /\ Prepare(p)
    /\ owner' = [owner EXCEPT ![p] = s]
    /\ cur' = [cur EXCEPT ![s][t] = p]
    /\ pc' = [pc EXCEPT ![s][t] = "spawn"]

\* The exception leaves start(); a crash handler reports it and gives up.
Fail(s, t) ==
  /\ pc' = [pc EXCEPT ![s][t] = IF t = "start" THEN "failed" ELSE "idle"]
  /\ cur' = [cur EXCEPT ![s][t] = None]

Spawned(s, t) ==
  /\ pc[s][t] = "spawn"
  /\ Exec(cur[s][t])
  /\ pc' = [pc EXCEPT ![s][t] = "init"]
  /\ UNCHANGED <<stopped, handle, process, recent, expired, cur, crashQ,
                 stopPc, stopProc, owner>>

SpawnFails(s, t) ==
  /\ pc[s][t] = "spawn"
  /\ PreRunFails(cur[s][t]) \/ ExecFails(cur[s][t])
  /\ Fail(s, t)
  /\ UNCHANGED <<stopped, handle, process, recent, expired, crashQ,
                 stopPc, stopProc, owner>>

\* Plausible bug: the restarted process is not remembered.
InitOk_Forgets(s, t) ==
  /\ pc[s][t] = "init"
  /\ link[cur[s][t]] = "up"
  /\ process' = IF t = "start" THEN [process EXCEPT ![s] = cur[s][t]] ELSE process
  /\ handle' = [handle EXCEPT ![s] = cur[s][t]]
  /\ pc' = [pc EXCEPT ![s][t] = IF t = "start" THEN "up" ELSE "idle"]
  /\ cur' = [cur EXCEPT ![s][t] = None]
  /\ UNCHANGED <<procVars, stopped, recent, expired, crashQ,
                 stopPc, stopProc, owner>>

\* plugin.initialize and plugin.capabilities were answered and accepted.  The
\* answers may have been in the pipe of a process that has exited since.
InitOk(s, t) ==
  /\ pc[s][t] = "init"
  /\ link[cur[s][t]] = "up"
  /\ process' = [process EXCEPT ![s] = cur[s][t]]
  /\ handle' = [handle EXCEPT ![s] = cur[s][t]]
  /\ pc' = [pc EXCEPT ![s][t] = IF t = "start" THEN "up" ELSE "idle"]
  /\ cur' = [cur EXCEPT ![s][t] = None]
  /\ UNCHANGED <<procVars, stopped, recent, expired, crashQ,
                 stopPc, stopProc, owner>>

\* Plausible bug: no init_timeout.
InitFails_NoTimeout(s, t) ==
  /\ pc[s][t] = "init"
  /\ link[cur[s][t]] = "down"
  /\ BeginStop(cur[s][t])
  /\ pc' = [pc EXCEPT ![s][t] = "abort"]
  /\ UNCHANGED <<stopped, handle, process, recent, expired, cur, crashQ,
                 stopPc, stopProc, owner>>

\* An error answer, not ready, a protocol or capability mismatch, a closed
\* endpoint, or init_timeout: the process is stopped before the error leaves.
InitFails(s, t) ==
  /\ pc[s][t] = "init"
  /\ BeginStop(cur[s][t])
  /\ pc' = [pc EXCEPT ![s][t] = "abort"]
  /\ UNCHANGED <<stopped, handle, process, recent, expired, cur, crashQ,
                 stopPc, stopProc, owner>>

InitAborted(s, t) ==
  /\ pc[s][t] = "abort"
  /\ pstop[cur[s][t]] = "done"
  /\ Fail(s, t)
  /\ UNCHANGED <<procVars, stopped, handle, process, recent, expired, crashQ,
                 stopPc, stopProc, owner>>

-----------------------------------------------------------------------------
(* start() *)

Start(s) ==
  /\ pc[s]["start"] = "idle"
  /\ stopped' = [stopped EXCEPT ![s] = FALSE]
  /\ BeginSpawn(s, "start")
  /\ UNCHANGED <<handle, process, recent, expired, crashQ, stopPc, stopProc>>

\* Cancelled while the brick initialises: CancelledError is neither
\* ProtocolError nor BrickStartError, so nothing stops the process.
StartCancelled(s) ==
  /\ pc[s]["start"] = "init"
  /\ Fail(s, "start")
  /\ UNCHANGED <<procVars, stopped, handle, process, recent, expired, crashQ,
                 stopPc, stopProc, owner>>

-----------------------------------------------------------------------------
(* The exit callback and _handle_crash *)

\* _watch_exit ends in _on_process_exit, unless the process is being stopped.
ExitNoticed(p) ==
  /\ WatchReturns(p)
  /\ LET s == owner[p]
     IN  crashQ' = IF ReportsExit(p) /\ ~stopped[s]
                     THEN [crashQ EXCEPT ![s] = @ + 1]
                     ELSE crashQ
  /\ UNCHANGED <<stopped, handle, process, recent, expired, pc, cur,
                 stopPc, stopProc, owner>>

\* A queued handler takes the lock.
TakeLock(s) ==
  /\ crashQ[s] > 0
  /\ pc[s]["crash"] = "idle"
  /\ crashQ' = [crashQ EXCEPT ![s] = @ - 1]

CrashAfterStop(s) ==
  /\ TakeLock(s)
  /\ stopped[s]
  /\ UNCHANGED <<procVars, stopped, handle, process, recent, expired, pc, cur,
                 stopPc, stopProc, owner>>

\* BRICK_RESTART_EXHAUSTED: the brick stays down.
CrashExhausted(s) ==
  /\ TakeLock(s)
  /\ ~stopped[s]
  /\ recent[s] >= MaxRestarts
  /\ handle' = [handle EXCEPT ![s] = None]
  /\ UNCHANGED <<procVars, stopped, process, recent, expired, pc, cur,
                 stopPc, stopProc, owner>>

CrashBacksOff(s) ==
  /\ TakeLock(s)
  /\ ~stopped[s]
  /\ recent[s] < MaxRestarts
  /\ handle' = [handle EXCEPT ![s] = None]
  /\ recent' = [recent EXCEPT ![s] = @ + 1]
  /\ pc' = [pc EXCEPT ![s]["crash"] = "backoff"]
  /\ UNCHANGED <<procVars, stopped, process, expired, cur,
                 stopPc, stopProc, owner>>

BackoffStopped(s) ==
  /\ pc[s]["crash"] = "backoff"
  /\ stopped[s]
  /\ pc' = [pc EXCEPT ![s]["crash"] = "idle"]
  /\ UNCHANGED <<procVars, stopped, handle, process, recent, expired, cur,
                 crashQ, stopPc, stopProc, owner>>

\* Plausible bug: _stopped is not read again after the sleep.
Respawn_Unchecked(s) ==
  /\ pc[s]["crash"] = "backoff"
  /\ \A p \in Proc : owner[p] = s => link[p] = "down"
  /\ pc[s]["start"] # "init"
  /\ BeginSpawn(s, "crash")
  /\ UNCHANGED <<stopped, handle, process, recent, expired, crashQ,
                 stopPc, stopProc>>

\* The backoff (half a second and more) outlasts the end of file of a process
\* that has been reaped, which also fails the calls a start still awaits on it.
Respawn(s) ==
  /\ pc[s]["crash"] = "backoff"
  /\ ~stopped[s]
  /\ \A p \in Proc : owner[p] = s => link[p] = "down"
  /\ pc[s]["start"] # "init"
  /\ BeginSpawn(s, "crash")
  /\ UNCHANGED <<stopped, handle, process, recent, expired, crashQ,
                 stopPc, stopProc>>

\* window_seconds pass: a restart no longer counts.
RestartExpires(s) ==
  /\ recent[s] > 0
  /\ expired[s] < MaxExpiries
  /\ recent' = [recent EXCEPT ![s] = @ - 1]
  /\ expired' = [expired EXCEPT ![s] = @ + 1]
  /\ UNCHANGED <<procVars, stopped, handle, process, pc, cur, crashQ,
                 stopPc, stopProc, owner>>

-----------------------------------------------------------------------------
(* stop() *)

\* plugin.shutdown is tried only on a process that looks alive.
StopCalled(s) ==
  /\ stopPc[s] = "idle"
  /\ stopped' = [stopped EXCEPT ![s] = TRUE]
  /\ stopProc' = [stopProc EXCEPT ![s] = process[s]]
  /\ \/ /\ process[s] = None
        /\ stopPc' = [stopPc EXCEPT ![s] = "done"]
        /\ UNCHANGED procVars
     \/ /\ process[s] # None
        /\ Alive(process[s])
        /\ stopPc' = [stopPc EXCEPT ![s] = "shutdown"]
        /\ UNCHANGED procVars
     \/ /\ process[s] # None
        /\ ~Alive(process[s])
        /\ stopPc' = [stopPc EXCEPT ![s] = "stopping"]
        /\ BeginStop(process[s])
  /\ UNCHANGED <<handle, process, recent, expired, pc, cur, crashQ, owner>>

\* Plausible bug: wait for the brick to obey plugin.shutdown.
ShutdownOver_NoTimeout(s) ==
  /\ stopPc[s] = "shutdown"
  /\ ~Alive(stopProc[s])
  /\ BeginStop(stopProc[s])
  /\ stopPc' = [stopPc EXCEPT ![s] = "stopping"]
  /\ UNCHANGED <<stopped, handle, process, recent, expired, pc, cur, crashQ,
                 stopProc, owner>>

\* plugin.shutdown was answered, refused, or timed out after three seconds.
ShutdownOver(s) ==
  /\ stopPc[s] = "shutdown"
  /\ BeginStop(stopProc[s])
  /\ stopPc' = [stopPc EXCEPT ![s] = "stopping"]
  /\ UNCHANGED <<stopped, handle, process, recent, expired, pc, cur, crashQ,
                 stopProc, owner>>

StopOver(s) ==
  /\ stopPc[s] = "stopping"
  /\ pstop[stopProc[s]] = "done"
  /\ stopPc' = [stopPc EXCEPT ![s] = "done"]
  /\ UNCHANGED <<procVars, stopped, handle, process, recent, expired, pc, cur,
                 crashQ, stopProc, owner>>

-----------------------------------------------------------------------------
\* The steps of a supervisor that leave the registry alone.
SupRuns(s) ==
  \/ \E t \in Task : Spawned(s, t) \/ SpawnFails(s, t) \/ InitFails(s, t)
                     \/ InitAborted(s, t)
  \/ CrashAfterStop(s) \/ CrashExhausted(s) \/ CrashBacksOff(s)
  \/ BackoffStopped(s) \/ Respawn(s) \/ RestartExpires(s)
  \/ ShutdownOver(s) \/ StopOver(s)

ProcStep(p) == ProcRuns(p) /\ UNCHANGED supVars

\* A start that succeeds, and a restart that ends in on_rebind.
StartOk(s)   == InitOk(s, "start")
RestartOk(s) == InitOk(s, "crash")

\* Quiet(s): start failed or stop returned, and no task of s is left.
Quiet(s) ==
  /\ pc[s]["start"] = "failed" \/ stopPc[s] = "done"
  /\ pc[s]["crash"] = "idle" /\ crashQ[s] = 0
  /\ \A p \in Proc : owner[p] = s => os[p] \in {"failed", "reaped"}

Finished == (\A s \in Sup : Quiet(s)) /\ UNCHANGED vars

\* The owner calls start() once, and stop() on a supervisor that came up.
Next ==
  \/ \E s \in Sup : \/ Start(s) \/ StartOk(s) \/ StartCancelled(s)
                    \/ pc[s]["start"] = "up" /\ StopCalled(s)
                    \/ SupRuns(s) \/ RestartOk(s)
  \/ \E p \in Proc : ProcStep(p) \/ ExitNoticed(p)
  \/ Finished

Spec == Init /\ [][Next]_vars

\* Tasks that can run do run, calls to a brick are answered or time out, and
\* nothing obliges a brick to exit, or its owner to stop it.
TaskFair(s, t) ==
  /\ WF_vars(Spawned(s, t) \/ SpawnFails(s, t))
  /\ WF_vars(InitFails(s, t))
  /\ WF_vars(InitAborted(s, t))
SupFair(s) ==
  /\ \A t \in Task : TaskFair(s, t)
  /\ WF_vars(CrashAfterStop(s) \/ CrashExhausted(s) \/ CrashBacksOff(s))
  /\ WF_vars(BackoffStopped(s) \/ Respawn(s))
  /\ WF_vars(ShutdownOver(s)) /\ WF_vars(StopOver(s))
ProcStepFair(p) ==
  /\ WF_vars(Reap(p) /\ UNCHANGED supVars)
  /\ WF_vars(PipeEof(p) /\ UNCHANGED supVars)
  /\ WF_vars(WatchWakes(p) /\ UNCHANGED supVars)
  /\ WF_vars((WatchTeardown(p) \/ WatchTeardownEnds(p)) /\ UNCHANGED supVars)
  /\ WF_vars(ExitNoticed(p))
  /\ WF_vars((KillAfterTimeout(p) \/ StopSeesExit(p)) /\ UNCHANGED supVars)
  /\ WF_vars((StopTeardown(p) \/ StopTeardownEnds(p)) /\ UNCHANGED supVars)
  /\ WF_vars(StopReturns(p) /\ UNCHANGED supVars)

FairSpec ==
  /\ Spec
  /\ \A s \in Sup : SupFair(s)
  /\ \A p \in Proc : ProcStepFair(p)

-----------------------------------------------------------------------------
Running(s) == {p \in Proc : owner[p] = s /\ os[p] = "running"}

\* A supervisor never has two brick processes running at once, although its
\* start task and its crash handlers spawn independently of each other.
OneBrickPerSupervisor ==
  \A p, q \in Proc :
    (os[p] = "running" /\ os[q] = "running" /\ owner[p] = owner[q]) => p = q

\* The lock and the exit watcher never let two crash handlers stand in line:
\* an exit is reported only after the handler of the previous one is past its
\* spawn, so the budget is spent once per process.
OneCrashPending ==
  \A s \in Sup :
    /\ crashQ[s] <= 1
    /\ (crashQ[s] = 1 \/ pc[s]["crash"] \in {"backoff", "spawn"}) => Running(s) = {}

\* Once stop() was called no bring-up begins: only one already past the sleep
\* of the backoff can still produce a process.
StoppedNeverSpawns ==
  [][\A p \in Proc : owner'[p] # owner[p] => ~stopped'[owner'[p]]]_vars

\* When stop() has returned and no restart slipped past it, none of the
\* supervisor's processes is running, and none ever will be.
StopLeavesNothing ==
  \A s \in Sup :
    (/\ stopPc[s] = "done"
     /\ process[s] = stopProc[s]
     /\ pc[s]["crash"] \notin {"spawn", "init", "abort"}) => Running(s) = {}

\* stop() returns, whatever the brick does.
StopTerminates == \A s \in Sup : (stopPc[s] # "idle") ~> (stopPc[s] = "done")

\* A brick that hangs, dies or lies while it is brought up holds neither its
\* start nor the restart lock for ever.
BringUpEnds ==
  \A s \in Sup, t \in Task :
    (pc[s][t] \in {"spawn", "init", "abort"})
      ~> (pc[s][t] \notin {"spawn", "init", "abort"})

\* The exit of a brick in service does not go unnoticed: its handle is dropped
\* or replaced, unless the supervisor is stopped.
CrashHandled ==
  \A s \in Sup, p \in Proc :
    (handle[s] = p /\ os[p] = "dead") ~> (handle[s] # p \/ stopped[s])
-----------------------------------------------------------------------------
(* What the repository says and the code does not do.                      *)

\* docs/specifications/protocol.md 1.2: a brick that emits a threshold of
\* malformed lines in a row is treated as crashed and handed to the restart
\* policy.
QuarantineIsACrash ==
  \A s \in Sup, p \in Proc :
    (handle[s] = p /\ link[p] = "down") ~> (handle[s] # p \/ stopped[s])

\* tests/kernel/test_resilience.py: stopped, every brick process must exit on
\* the stop path, with no restart.
StopIsFinal ==
  \A s \in Sup : stopPc[s] = "done" /\ pc[s]["crash"] = "idle" => Running(s) = {}
=============================================================================
