---------------------------- MODULE KernelProofs ----------------------------
(***************************************************************************)
(* Safety of Kernel for any stacks, supervisors, processes and budgets.    *)
(*                                                                         *)
(* Every step of the kernel is a step of its supervisors or leaves them    *)
(* alone, so what is proved of supervisors holds under the kernel.  On top *)
(* of it the invariant says who speaks for a contract: which supervisors   *)
(* are listed, in which order, what rebind() holds across its awaits, and  *)
(* what became of every supervisor that is not listed.                     *)
(***************************************************************************)
EXTENDS Kernel, BrickSupervisorProofs

\* start() of s was called and has not returned its handle.
Coming(s) == pc[s]["start"] \in {"spawn", "init", "abort", "failed"}

-----------------------------------------------------------------------------
(* What a supervisor that never restarted looks like *)

Unrestarted(s) ==
  /\ pc[s]["crash"] # "idle" => HasRestarted(s)
  /\ ~HasRestarted(s) /\ BringingUp(s, "start") =>
       \A p \in Proc : owner[p] = s => p = cur[s]["start"]

\* A start that failed left nothing running.
FailedClean(s) ==
  pc[s]["start"] = "failed" /\ ~HasRestarted(s) =>
    \A p \in Proc : owner[p] = s => os[p] \notin {"starting", "running"}

-----------------------------------------------------------------------------
(* The parts of the kernel's invariant *)

KTypeOK ==
  /\ order \in Stacks
  /\ contract \in [Sup -> Contract \cup {None}]
  /\ sups \in Seq(Sup)
  /\ bound \in [Contract -> Proc \cup {None}]
  /\ started \in BOOLEAN
  /\ kpc \in {"down", "starting", "failed", "up", "stopping", "draining", "stopped"}
  /\ kidx \in Nat
  /\ kcur \in Sup \cup {None}
  /\ rpc \in {"idle", "starting", "swap", "stopOld", "raised", "refused"}
  /\ rold \in Sup \cup {None}
  /\ rnew \in Sup \cup {None}
  /\ rhandle \in Proc \cup {None}
  /\ nstarts \in Nat /\ nrebinds \in Nat
  /\ overlap \in BOOLEAN /\ refused \subseteq Sup

RebindUnderWay == rpc \notin RebindOver

\* A supervisor exists from the call of its start() on, and stays listed only
\* if it came up.
Supervisors ==
  /\ \A s \in Sup : contract[s] = None <=> pc[s]["start"] = "idle"
  /\ \A r, s \in Sup : r < s /\ contract[s] # None => contract[r] # None
  /\ \A i \in 1..Len(sups) : pc[sups[i]]["start"] = "up"
  /\ \A i, j \in 1..Len(sups) : sups[i] = sups[j] => i = j

\* What start() has done at each point.
Starts ==
  /\ kpc = "down" => nstarts = 0 /\ sups = <<>> /\ \A s \in Sup : contract[s] = None
  /\ kpc # "down" => nstarts > 0
  /\ kpc \in {"down", "starting", "failed"} => ~started
  /\ kpc \in {"down", "failed", "up", "draining"} => kcur = None
  /\ kpc = "starting" => kidx <= Len(order)
  /\ kpc = "starting" /\ kcur # None =>
       kidx < Len(order) /\ Coming(kcur) /\ contract[kcur] = order[kidx + 1]
  /\ nstarts = 1 /\ kpc = "starting" => Len(sups) = kidx
  /\ nstarts = 1 /\ kpc \in {"up", "stopping", "draining"} => Len(sups) = Len(order)
  /\ nstarts = 1 /\ kpc = "failed" => Len(sups) < Len(order)
  /\ nstarts = 1 => /\ Len(sups) <= Len(order)
                    /\ \A i \in 1..Len(sups) : contract[sups[i]] = order[i]

\* What rebind() relies on after each of its awaits.
Rebinds ==
  /\ kpc \in {"down", "starting", "failed"} => rpc = "idle"
  /\ rpc \in {"starting", "swap", "stopOld", "raised"} => rold \in Sup /\ rnew \in Sup /\ Listed(rold)
  /\ RebindUnderWay =>
       rold < rnew /\ contract[rnew] = contract[rold] /\ ~Listed(rnew) /\ stopPc[rnew] = "idle"
  /\ rpc = "starting" => Coming(rnew)
  /\ rpc = "raised" => pc[rnew]["start"] = "failed"
  /\ rpc \in {"swap", "stopOld"} =>
       /\ pc[rnew]["start"] = "up"
       /\ ~HasRestarted(rnew) => rhandle = process[rnew]

\* Who has been stopped at each point.
Stops ==
  /\ kpc \in {"down", "starting", "failed", "up"} =>
       \A i \in 1..Len(sups) : stopPc[sups[i]] # "idle" => rpc = "stopOld" /\ sups[i] = rold
  /\ kpc \in {"stopping", "draining", "stopped"} /\ ~overlap => ~RebindUnderWay
  /\ kpc = "stopping" => kidx <= Len(sups) /\ (kcur # None => kidx > 0)
  /\ kpc = "stopping" /\ ~overlap =>
       /\ \A i \in 1..Len(sups) : i < kidx => stopPc[sups[i]] = "idle"
       /\ \A i \in 1..Len(sups) : i > kidx => stopPc[sups[i]] = "done"
       /\ kcur = None => (kidx > 0 => stopPc[sups[kidx]] = "idle")
       /\ kcur # None => kcur = sups[kidx]
  /\ kpc = "draining" /\ ~overlap => \A i \in 1..Len(sups) : stopPc[sups[i]] = "done"
  /\ kpc = "stopped" /\ ~overlap /\ nstarts = 1 /\ Len(sups) = Len(order) =>
       \A i \in 1..Len(sups) : stopPc[sups[i]] = "done"

\* One start() was called, and nothing went wrong in it.
Healthy ==
  /\ nstarts = 1 /\ kpc # "failed"
  /\ kpc = "stopped" => Len(sups) = Len(order)

\* What became of a supervisor.
Accounted(s) ==
  \/ Listed(s)
  \/ kpc = "starting" /\ s = kcur
  \/ RebindUnderWay /\ s = rnew
  \/ pc[s]["start"] = "failed"
  \/ stopPc[s] = "done"

Accounts == Healthy => \A s \in Sup : contract[s] # None => Accounted(s) /\ FailedClean(s)

\* Bindings, while bricks are in service.
Binds ==
  nstarts = 1 /\ kpc \in {"starting", "up"} =>
    \A i \in 1..Len(sups) :
      Speaks(sups[i]) => bound[contract[sups[i]]] = process[sups[i]]

\* Restarted behind the back of its owner: it will never be settled.
SlippedPast(s) ==
  \/ pc[s]["start"] = "failed" /\ HasRestarted(s)
  \/ stopPc[s] = "done" /\ process[s] # stopProc[s]

\* What is bound after stop() was bound by a restart that slipped past it.
Unbinds ==
  Healthy /\ kpc \in {"draining", "stopped"} /\ ~overlap =>
    \A c \in Contract :
      bound[c] # None => \E s \in Sup : contract[s] # None /\ SlippedPast(s)

KInv ==
  /\ IInv /\ \A s \in Sup : Unrestarted(s)
  /\ KTypeOK /\ Supervisors /\ Starts /\ Rebinds /\ Stops /\ Accounts /\ Binds /\ Unbinds

-----------------------------------------------------------------------------
(* What each kind of step changes in a supervisor that the kernel can see  *)

\* Left to itself a start() may fail, and a stop() end, and no more.
StartGoesOn(s) ==
  /\ pc[s]["start"] = "idle" <=> pc'[s]["start"] = "idle"
  /\ Coming(s) <=> Coming(s)'
  /\ pc[s]["start"] = "up" <=> pc'[s]["start"] = "up"
  /\ pc[s]["start"] = "failed" => pc'[s]["start"] = "failed"
StopGoesOn(s) ==
  /\ stopPc[s] = "idle" <=> stopPc'[s] = "idle"
  /\ stopPc[s] = "done" => stopPc'[s] = "done"
GoesOn(s) ==
  /\ StartGoesOn(s) /\ StopGoesOn(s)
  /\ HasRestarted(s) => HasRestarted(s)'
  /\ process'[s] = process[s] /\ stopProc'[s] = stopProc[s]

\* A step that leaves the supervisors alone.
LEMMA StandsStill ==
  ASSUME UNCHANGED vars, NEW r \in Sup
  PROVE  GoesOn(r)
BY DEF vars, supVars, GoesOn, StartGoesOn, StopGoesOn, Coming, HasRestarted

\* What the supervisors and processes do on their own.
LEMMA RunsOn ==
  ASSUME IInv, Background, NEW r \in Sup
  PROVE  GoesOn(r)
<1>1. SupTypeOK
  BY DEF IInv
<1> USE <1>1 DEF SupTypeOK, Task, TaskPc, GoesOn, StartGoesOn, StopGoesOn, Coming, HasRestarted
<1>2. ASSUME NEW s \in Sup, NEW t \in Task,
             Spawned(s, t) \/ SpawnFails(s, t) \/ InitFails(s, t) \/ InitAborted(s, t)
      PROVE  GoesOn(r)
  BY <1>2 DEF Spawned, SpawnFails, InitFails, InitAborted, Fail
<1>3. ASSUME NEW s \in Sup,
             CrashAfterStop(s) \/ CrashExhausted(s) \/ CrashBacksOff(s) \/ BackoffStopped(s)
      PROVE  GoesOn(r)
  <2>1. pc'[r]["start"] = pc[r]["start"] /\ (HasRestarted(r) => HasRestarted(r)')
    BY <1>3 DEF CrashAfterStop, CrashExhausted, CrashBacksOff, BackoffStopped, TakeLock
  <2>2. UNCHANGED <<process, stopPc, stopProc>>
    BY <1>3 DEF CrashAfterStop, CrashExhausted, CrashBacksOff, BackoffStopped
  <2>3. QED
    BY <2>1, <2>2
<1>4. ASSUME NEW s \in Sup, Respawn(s) \/ RestartExpires(s) PROVE GoesOn(r)
  <2>1. pc'[r]["start"] = pc[r]["start"] /\ (HasRestarted(r) => HasRestarted(r)')
    BY <1>4 DEF Respawn, BeginSpawn, RestartExpires
  <2>2. UNCHANGED <<process, stopPc, stopProc>>
    BY <1>4 DEF Respawn, RestartExpires
  <2>3. QED
    BY <2>1, <2>2
<1>5. ASSUME NEW s \in Sup, ShutdownOver(s) \/ StopOver(s) PROVE GoesOn(r)
  BY <1>5 DEF ShutdownOver, StopOver
<1>6. ASSUME NEW p \in Proc, ProcStep(p) \/ ExitNoticed(p) PROVE GoesOn(r)
  BY <1>6 DEF ProcStep, supVars, ExitNoticed
<1>7. QED
  BY <1>2, <1>3, <1>4, <1>5, <1>6 DEF Background, SupRuns

\* start() is called.
LEMMA StartIs ==
  ASSUME IInv, NEW s \in Sup, Start(s)
  PROVE  /\ \A r \in Sup \ {s} : GoesOn(r)
         /\ pc[s]["start"] = "idle" /\ Coming(s)' /\ pc'[s]["start"] = "spawn"
         /\ stopPc[s] = "idle" /\ stopPc'[s] = "idle"
         /\ HasRestarted(s)' <=> HasRestarted(s)
         /\ process'[s] = process[s]
<1>1. SupTypeOK /\ Stopping(s)
  BY DEF IInv, SInv
<1>2. QED
  BY <1>1 DEF SupTypeOK, Task, TaskPc, GoesOn, StartGoesOn, StopGoesOn, Coming, HasRestarted, Start, BeginSpawn, Stopping

\* start() returns its handle.
LEMMA StartOkIs ==
  ASSUME IInv, NEW s \in Sup, StartOk(s)
  PROVE  /\ \A r \in Sup \ {s} : GoesOn(r)
         /\ pc[s]["start"] = "init" /\ Coming(s) /\ pc'[s]["start"] = "up" /\ ~Coming(s)'
         /\ stopPc[s] = "idle" /\ stopPc'[s] = "idle"
         /\ HasRestarted(s)' <=> HasRestarted(s)
         /\ cur[s]["start"] \in Proc /\ process'[s] = cur[s]["start"]
<1>1. SupTypeOK /\ Stopping(s) /\ Holds(s)
  BY DEF IInv, SInv
<1>2. QED
  BY <1>1 DEF SupTypeOK, Task, TaskPc, GoesOn, StartGoesOn, StopGoesOn, Coming, HasRestarted, StartOk, InitOk, Stopping,
              Holds, BringingUp

\* The cancelled start() counts as failed.
LEMMA StartCancelledIs ==
  ASSUME IInv, NEW s \in Sup, StartCancelled(s)
  PROVE  \A r \in Sup : GoesOn(r)
<1>1. SupTypeOK
  BY DEF IInv
<1>2. QED
  BY <1>1 DEF SupTypeOK, Task, TaskPc, GoesOn, StartGoesOn, StopGoesOn, Coming, HasRestarted, StartCancelled, Fail

\* stop() is called.
LEMMA StopCalledIs ==
  ASSUME IInv, NEW s \in Sup, StopCalled(s)
  PROVE  /\ \A r \in Sup \ {s} : GoesOn(r)
         /\ StartGoesOn(s) /\ process' = process
         /\ stopPc[s] = "idle" /\ stopPc'[s] # "idle"
         /\ HasRestarted(s)' <=> HasRestarted(s)
<1>1. SupTypeOK
  BY DEF IInv
<1>2. QED
  BY <1>1 DEF SupTypeOK, GoesOn, StartGoesOn, StopGoesOn, Coming, HasRestarted, StopCalled

\* A restart ends: the process it leaves is not the one that stop() waited for,
\* whose endpoint is closed.
LEMMA RestartOkIs ==
  ASSUME IInv, NEW s \in Sup, Unrestarted(s), RestartOk(s)
  PROVE  /\ \A r \in Sup \ {s} : GoesOn(r)
         /\ pc[s]["start"] # "idle" /\ StartGoesOn(s)
         /\ stopPc' = stopPc /\ stopProc' = stopProc
         /\ HasRestarted(s) /\ HasRestarted(s)'
         /\ cur[s]["crash"] \in Proc /\ process'[s] = cur[s]["crash"]
         /\ stopPc[s] = "done" => process'[s] # stopProc[s]
<1>1. SupTypeOK /\ Stopping(s) /\ Holds(s) /\ StartsAlone(s) /\ ProcInv
  BY DEF IInv, SInv
<1>2. /\ pc[s]["crash"] = "init" /\ link[cur[s]["crash"]] = "up"
      /\ cur[s]["crash"] \in Proc
  BY <1>1 DEF RestartOk, InitOk, Holds, BringingUp, Task
<1>3. stopPc[s] = "done" => cur[s]["crash"] # stopProc[s]
  BY <1>1, <1>2, NoneAssumption DEF Stopping, ProcInv, PInv, Stopped, SupTypeOK
<1>4. QED
  BY <1>1, <1>2, <1>3
  DEF SupTypeOK, Task, TaskPc, GoesOn, StartGoesOn, StopGoesOn, Coming, HasRestarted, RestartOk, InitOk, StartsAlone,
      Unrestarted

-----------------------------------------------------------------------------
(* The two facts about supervisors that never restarted *)

\* A crash handler at work has spent a restart; until one does, a supervisor has
\* the process that its start() is bringing up and no other.
LEMMA UnrestartedKept ==
  ASSUME IInv, NEW r \in Sup, Unrestarted(r), [Next]_vars
  PROVE  Unrestarted(r)'
<1>1. SupTypeOK /\ StartsAlone(r) /\ Holds(r)
  BY DEF IInv, SInv
<1> USE <1>1 DEF SupTypeOK, Task, TaskPc, Unrestarted, HasRestarted, BringingUp
<1>2. ASSUME NEW s \in Sup, Start(s) PROVE Unrestarted(r)'
  BY <1>2, NoneAssumption DEF Start, BeginSpawn, StartsAlone
<1>3. ASSUME NEW s \in Sup, Respawn(s) PROVE Unrestarted(r)'
  BY <1>3 DEF Respawn, BeginSpawn
<1>4. ASSUME NEW s \in Sup, NEW t \in Task,
             Spawned(s, t) \/ SpawnFails(s, t) \/ InitFails(s, t) \/ InitAborted(s, t)
      PROVE  Unrestarted(r)'
  <2>1. /\ pc'[r]["crash"] # "idle" => pc[r]["crash"] # "idle"
        /\ BringingUp(r, "start")' => BringingUp(r, "start") /\ cur'[r]["start"] = cur[r]["start"]
        /\ recent' = recent /\ expired' = expired /\ owner' = owner
    <3>1. CASE pc[s][t] \in {"spawn", "init"} /\ (\E x \in {"init", "abort"} : pc' = [pc EXCEPT ![s][t] = x])
               /\ UNCHANGED <<cur, recent, expired, owner>>
      <4>1. PICK x \in {"init", "abort"} : pc' = [pc EXCEPT ![s][t] = x]
        BY <3>1
      <4>2. pc'[s][t] = x /\ \A q \in Sup, u \in Task : (q # s \/ u # t) => pc'[q][u] = pc[q][u]
        BY <4>1
      <4>3. QED
        BY <3>1, <4>2
    <3>2. CASE Fail(s, t) /\ UNCHANGED <<recent, expired, owner>>
      BY <3>2 DEF Fail
    <3>3. QED
      BY <1>4, <3>1, <3>2 DEF SpawnFails, InitAborted, Spawned, InitFails
  <2>2. QED
    BY <2>1
<1>5. ASSUME NEW s \in Sup, NEW t \in Task, InitOk(s, t) PROVE Unrestarted(r)'
  BY <1>5 DEF InitOk
<1>6. ASSUME NEW s \in Sup, StartCancelled(s) PROVE Unrestarted(r)'
  BY <1>6 DEF StartCancelled, Fail
<1>7. ASSUME NEW s \in Sup,
             CrashAfterStop(s) \/ CrashExhausted(s) \/ CrashBacksOff(s) \/ BackoffStopped(s)
             \/ RestartExpires(s)
      PROVE  Unrestarted(r)'
  BY <1>7 DEF CrashAfterStop, CrashExhausted, CrashBacksOff, BackoffStopped, TakeLock,
              RestartExpires
<1>8. ASSUME NEW s \in Sup, StopCalled(s) \/ ShutdownOver(s) \/ StopOver(s)
      PROVE  Unrestarted(r)'
  BY <1>8 DEF StopCalled, ShutdownOver, StopOver
<1>9. ASSUME NEW p \in Proc, ProcStep(p) \/ ExitNoticed(p) PROVE Unrestarted(r)'
  BY <1>9 DEF ProcStep, supVars, ExitNoticed
<1>10. CASE Finished \/ UNCHANGED vars
  BY <1>10 DEF Finished, vars, supVars
<1>11. QED
  BY <1>2, <1>3, <1>4, <1>5, <1>6, <1>7, <1>8, <1>9, <1>10 DEF Next, SupRuns, StartOk, RestartOk

\* A step that cancels no start().
Uncancelled ==
  \/ \E s \in Sup : Start(s) \/ StartOk(s) \/ RestartOk(s) \/ StopCalled(s)
  \/ Background \/ UNCHANGED vars

\* Only a cancelled start() leaves its process behind.
LEMMA FailedCleanKept ==
  ASSUME IInv, NEW r \in Sup, Unrestarted(r), FailedClean(r), Uncancelled
  PROVE  FailedClean(r)'
<1>1. /\ SupTypeOK /\ ProcTypeOK /\ Born /\ \A s \in Sup : StartsAlone(s) /\ Holds(s)
      /\ \A p \in Proc : PInv(p)
  BY DEF IInv, SInv, ProcInv
<1> USE <1>1 DEF SupTypeOK, ProcTypeOK, Task, TaskPc, FailedClean, HasRestarted
<1>2. ASSUME NEW s \in Sup, Start(s) PROVE FailedClean(r)'
  BY <1>2 DEF Start, BeginSpawn, Prepare
<1>14. ASSUME NEW s \in Sup, Respawn(s) PROVE FailedClean(r)'
  BY <1>14 DEF Respawn, BeginSpawn, Prepare, Unrestarted
<1>3. ASSUME NEW s \in Sup, NEW t \in Task, Spawned(s, t) PROVE FailedClean(r)'
  BY <1>3 DEF Spawned, Exec, Unrestarted, Holds, BringingUp
<1>4. ASSUME NEW s \in Sup, NEW t \in Task, SpawnFails(s, t) PROVE FailedClean(r)'
  BY <1>4 DEF SpawnFails, PreRunFails, ExecFails, Fail, Unrestarted, Holds, BringingUp
<1>5. ASSUME NEW s \in Sup, NEW t \in Task, InitFails(s, t) PROVE FailedClean(r)'
  BY <1>5 DEF InitFails, BeginStop
<1>6. ASSUME NEW s \in Sup, NEW t \in Task, InitAborted(s, t) PROVE FailedClean(r)'
  BY <1>6 DEF InitAborted, Fail, procVars, Unrestarted, Holds, BringingUp, PInv, Stopped
<1>7. ASSUME NEW s \in Sup, NEW t \in Task, InitOk(s, t) PROVE FailedClean(r)'
  BY <1>7 DEF InitOk, procVars
<1>9. ASSUME NEW s \in Sup,
             CrashAfterStop(s) \/ CrashExhausted(s) \/ CrashBacksOff(s) \/ BackoffStopped(s)
             \/ RestartExpires(s)
      PROVE  FailedClean(r)'
  <2>1. /\ pc'[r]["start"] = pc[r]["start"] /\ os' = os /\ owner' = owner
        /\ HasRestarted(r) => HasRestarted(r)'
    BY <1>9 DEF CrashAfterStop, CrashExhausted, CrashBacksOff, BackoffStopped, TakeLock,
                RestartExpires, procVars
  <2>2. QED
    BY <2>1
<1>10. ASSUME NEW s \in Sup, StopCalled(s) \/ ShutdownOver(s) \/ StopOver(s)
      PROVE  FailedClean(r)'
  BY <1>10 DEF StopCalled, ShutdownOver, StopOver, BeginStop, procVars
<1>11. ASSUME NEW p \in Proc, ProcStep(p) \/ ExitNoticed(p) PROVE FailedClean(r)'
  BY <1>11 DEF ProcStep, ProcRuns, Exit, Reap, PipeEof, Quarantine, KillAfterTimeout, WatchWakes,
              WatchTeardown, WatchTeardownEnds, StopSeesExit, StopTeardown, StopTeardownEnds,
              StopReturns, supVars, ExitNoticed, WatchReturns
<1>12. CASE UNCHANGED vars
  BY <1>12 DEF vars, supVars, procVars
<1>13. QED
  BY <1>2, <1>14, <1>3, <1>4, <1>5, <1>6, <1>7, <1>9, <1>10, <1>11, <1>12
  DEF Uncancelled, Background, SupRuns, StartOk, RestartOk

-----------------------------------------------------------------------------
(* The steps of the kernel are steps of its supervisors *)

\* stop() is called on supervisors that came up, as BrickSupervisor assumes.
LEMMA KernelStepsRefine ==
  ASSUME KInv, [KernelNext]_kvars
  PROVE  [Next]_vars
<1>1. ASSUME UNCHANGED vars PROVE [Next]_vars
  BY <1>1
<1>2. ASSUME NEW s \in Sup, Start(s) \/ StartOk(s) \/ StartCancelled(s) \/ RestartOk(s)
      PROVE  Next
  BY <1>2 DEF Next
<1>3. ASSUME NEW i \in 1..Len(sups), StopCalled(sups[i]) PROVE Next
  <2>1. sups[i] \in Sup /\ pc[sups[i]]["start"] = "up"
    BY <1>3 DEF KInv, KTypeOK, Supervisors
  <2>2. QED
    BY <1>3, <2>1 DEF Next
<1>4. ASSUME Background PROVE Next
  BY <1>4 DEF Background, Next
<1>5. ASSUME RebindStopsOld PROVE [Next]_vars
  BY <1>1, <1>3, <1>5 DEF RebindStopsOld, KInv, Rebinds, Listed
<1>6. ASSUME StopsNext PROVE [Next]_vars
  BY <1>1, <1>3, <1>6 DEF StopsNext, KInv, Stops, KTypeOK
<1>7. ASSUME StartsNext \/ \E c \in Contract : Rebind(c) PROVE [Next]_vars
  BY <1>2, <1>7 DEF StartsNext, Rebind, NewSupervisor
<1>8. ASSUME StartBinds \/ StartBindRefused \/ StartInterrupted \/ RebindStarted
      PROVE  [Next]_vars
  BY <1>2, <1>8, NoneAssumption
  DEF StartBinds, StartBindRefused, StartInterrupted, RebindStarted, KInv, KTypeOK, Rebinds
<1>9. ASSUME \E s \in Sup : RestartBinds(s) \/ RestartBindRefused(s) PROVE [Next]_vars
  BY <1>2, <1>9 DEF RestartBinds, RestartBindRefused
<1>10. QED
  BY <1>1, <1>4, <1>5, <1>6, <1>7, <1>8, <1>9
  DEF KernelNext, KernelTask, KernelStart, StartRaises, KernelReady, RebindSwaps,
      RebindSwapRefused, RebindRaises, StopIgnored, KernelStop, StopsOne, StopUnbinds,
      KernelStopped, KernelFinished, kvars

-----------------------------------------------------------------------------
(* The list of supervisors *)

\* start() appends.
LEMMA Appended ==
  ASSUME sups \in Seq(Sup), NEW s \in Sup, sups' = Append(sups, s)
  PROVE  /\ sups' \in Seq(Sup)
         /\ Len(sups') = Len(sups) + 1
         /\ sups'[Len(sups) + 1] = s
         /\ \A i \in 1..Len(sups) : sups'[i] = sups[i]
OBVIOUS

\* rebind() puts the twin where the old supervisor was.
LEMMA TwinListedIs ==
  ASSUME sups \in Seq(Sup), rnew \in Sup, TwinListed
  PROVE  /\ sups' \in Seq(Sup)
         /\ Len(sups') = Len(sups)
         /\ \A i \in 1..Len(sups) : sups[i] = rold => sups'[i] = rnew
         /\ \A i \in 1..Len(sups) : sups[i] # rold => sups'[i] = sups[i]
<1>1. \A i \in 1..Len(sups) : sups[i] \in Sup
  OBVIOUS
<1>2. sups' \in [1..Len(sups) -> Sup]
  BY <1>1 DEF TwinListed
<1>3. sups' \in Seq(Sup) /\ Len(sups') = Len(sups)
  BY <1>2
<1>4. QED
  BY <1>3 DEF TwinListed

\* A new supervisor comes after all others.
LEMMA NewSupervisorIs ==
  ASSUME KInv, NEW s \in Sup, NEW c \in Contract, NewSupervisor(s, c)
  PROVE  /\ Start(s)
         /\ contract' \in [Sup -> Contract \cup {None}]
         /\ contract[s] = None /\ contract'[s] = c /\ c # None
         /\ \A r \in Sup \ {s} : contract'[r] = contract[r]
         /\ \A r \in Sup : contract[r] # None => r < s
         /\ \A r \in Sup : r < s => contract[r] # None
         /\ ~Listed(s)
<1>1. /\ contract \in [Sup -> Contract \cup {None}] /\ sups \in Seq(Sup)
      /\ Supervisors
  BY DEF KInv, KTypeOK
<1>2. /\ Start(s) /\ contract' = [contract EXCEPT ![s] = c]
      /\ contract[s] = None
      /\ \A r \in Sup : r < s => contract[r] # None
  BY DEF NewSupervisor
<1>3. c # None
  BY StacksAssumption
<1>4. \A r \in Sup : contract[r] # None => r < s
  BY <1>1, <1>2, SupAssumption DEF Supervisors
<1>5. ~Listed(s)
  BY <1>1, <1>2 DEF Supervisors, Listed
<1>6. QED
  BY <1>1, <1>2, <1>3, <1>4, <1>5

-----------------------------------------------------------------------------
(* What each action of the kernel changes in the supervisors *)

\* Actions of the kernel alone, and those of the supervisors alone.
Onlooker ==
  \/ KernelStart \/ StartRaises \/ StartInterrupted \/ KernelReady
  \/ RebindSwaps \/ RebindSwapRefused \/ RebindRaises
  \/ StopIgnored \/ KernelStop \/ StopsOne \/ StopUnbinds \/ KernelStopped
  \/ Background \/ KernelFinished \/ UNCHANGED kvars

Restarter == \E s \in Sup : RestartBinds(s) \/ RestartBindRefused(s)
Stopper   == RebindStopsOld \/ StopsNext

LEMMA OnlookersGoOn ==
  ASSUME KInv, Onlooker
  PROVE  \A r \in Sup : GoesOn(r)
<1>1. IInv /\ kcur \in Sup \cup {None}
  BY DEF KInv, KTypeOK
<1>2. CASE UNCHANGED vars
  BY <1>2, StandsStill
<1>3. CASE Background
  BY <1>1, <1>3, RunsOn
<1>4. CASE StartInterrupted
  <2>1. kcur \in Sup /\ StartCancelled(kcur)
    BY <1>1, <1>4 DEF StartInterrupted
  <2>2. QED
    BY <1>1, <2>1, StartCancelledIs
<1>5. QED
  BY <1>2, <1>3, <1>4
  DEF Onlooker, KernelStart, StartRaises, KernelReady, RebindSwaps, RebindSwapRefused,
      RebindRaises, StopIgnored, KernelStop, StopsOne, StopUnbinds, KernelStopped,
      KernelFinished, kvars

\* The supervisor that stop() is called on came up and is listed.
LEMMA StoppersStop ==
  ASSUME KInv, Stopper
  PROVE  \/ \A r \in Sup : GoesOn(r)
         \/ \E s \in Sup : /\ Listed(s) /\ StopCalled(s)
                           /\ RebindStopsOld => s = rold
                           /\ StopsNext => s = sups[kidx]
<1>1. CASE RebindStopsOld
  <2>1. ~StopsNext
    BY <1>1 DEF RebindStopsOld, StopsNext, rebindVars
  <2>2. rold \in Sup /\ Listed(rold)
    BY <1>1 DEF RebindStopsOld, KInv, Rebinds
  <2>3. StopCalled(rold) \/ UNCHANGED vars
    BY <1>1 DEF RebindStopsOld
  <2>4. QED
    BY <2>1, <2>2, <2>3, StandsStill
<1>2. CASE StopsNext
  <2>1. kidx \in 1..Len(sups) /\ sups[kidx] \in Sup
    BY <1>2 DEF StopsNext, KInv, Stops, KTypeOK
  <2>2. ~RebindStopsOld
    BY <1>2 DEF RebindStopsOld, StopsNext, rebindVars
  <2>3. StopCalled(sups[kidx]) \/ UNCHANGED vars
    BY <1>2 DEF StopsNext
  <2>4. QED
    BY <2>1, <2>2, <2>3, StandsStill DEF Listed
<1>3. QED
  BY <1>1, <1>2 DEF Stopper

LEMMA RestartersRestart ==
  ASSUME KInv, Restarter
  PROVE  \E s \in Sup : RestartOk(s) /\ Unrestarted(s) /\ (RestartBinds(s) \/ RestartBindRefused(s))
BY DEF Restarter, RestartBinds, RestartBindRefused, KInv

\* Only its owner moves a supervisor out of its start().
LEMMA StartsStay ==
  ASSUME KInv, Onlooker \/ Restarter \/ Stopper
  PROVE  \A r \in Sup : StartGoesOn(r)
<1>1. IInv
  BY DEF KInv
<1>2. CASE Onlooker
  BY <1>2, OnlookersGoOn DEF GoesOn
<1>3. CASE Restarter
  BY <1>1, <1>3, RestartersRestart, RestartOkIs DEF GoesOn
<1>4. CASE Stopper
  <2>1. ASSUME NEW s \in Sup, StopCalled(s) PROVE \A r \in Sup : StartGoesOn(r)
    BY <1>1, <2>1, StopCalledIs DEF GoesOn
  <2>2. (\A r \in Sup : GoesOn(r)) \/ \E s \in Sup : StopCalled(s)
    BY <1>4, StoppersStop
  <2>3. QED
    BY <2>1, <2>2 DEF GoesOn
<1>5. QED
  BY <1>2, <1>3, <1>4

\* Every step is one of these.
LEMMA KernelActions ==
  ASSUME [KernelNext]_kvars
  PROVE  \/ Onlooker \/ Restarter \/ Stopper
         \/ StartsNext \/ \E c \in Contract : Rebind(c)
         \/ StartBinds \/ StartBindRefused \/ RebindStarted
BY DEF KernelNext, KernelTask, Onlooker, Restarter, Stopper

-----------------------------------------------------------------------------
(* The parts of the invariant, one by one *)

LEMMA KInvInit == KernelInit => KInv
<1> SUFFICES ASSUME KernelInit PROVE KInv
  OBVIOUS
<1>1. IInv /\ SupInit
  BY IInvInit DEF KernelInit, Init
<1>2. \A s \in Sup : Unrestarted(s)
  BY <1>1, NoneAssumption DEF SupInit, Unrestarted, Task, BringingUp
<1>3. KTypeOK
  <2>1. sups \in Seq(Sup)
    BY DEF KernelInit
  <2>2. contract \in [Sup -> Contract \cup {None}] /\ bound \in [Contract -> Proc \cup {None}]
    BY DEF KernelInit
  <2>3. QED
    BY <2>1, <2>2 DEF KernelInit, KTypeOK
<1>4. Supervisors
  BY <1>1 DEF KernelInit, SupInit, Supervisors, Task
<1>5. Starts /\ Rebinds /\ Stops
  BY DEF KernelInit, Starts, Rebinds, Stops, RebindUnderWay, RebindOver
<1>6. Accounts /\ Binds /\ Unbinds
  BY DEF KernelInit, Accounts, Healthy, Binds, Unbinds
<1>7. QED
  BY <1>1, <1>2, <1>3, <1>4, <1>5, <1>6 DEF KInv

\* The contract at a place of the stack.
LEMMA OrderedContract ==
  ASSUME KTypeOK, NEW i \in 1..Len(order)
  PROVE  order[i] \in Contract
BY StacksAssumption DEF KTypeOK

\* Contracts are given once.
LEMMA ContractsStay ==
  ASSUME KInv, [KernelNext]_kvars
  PROVE  \A r \in Sup : contract[r] # None => contract'[r] = contract[r]
<1>1. CASE StartsNext
  <2>1. kidx + 1 \in 1..Len(order)
    BY <1>1, StacksAssumption DEF StartsNext, KInv, KTypeOK
  <2>2. QED
    BY <1>1, <2>1, OrderedContract, NewSupervisorIs DEF StartsNext, KInv
<1>2. ASSUME NEW c \in Contract, Rebind(c)
      PROVE  \A r \in Sup : contract[r] # None => contract'[r] = contract[r]
  BY <1>2, NewSupervisorIs DEF Rebind
<1>3. CASE UNCHANGED contract
  BY <1>3
<1>4. QED
  BY <1>1, <1>2, <1>3, KernelActions
  DEF Onlooker, KernelStart, StartRaises, StartInterrupted, KernelReady, RebindSwaps,
      RebindSwapRefused, RebindRaises, StopIgnored, KernelStop, StopsOne, StopUnbinds,
      KernelStopped, KernelFinished, kvars, Background, kernelVars, Restarter, RestartBinds,
      RestartBindRefused, Stopper, RebindStopsOld, StopsNext, StartBinds, StartBindRefused,
      RebindStarted

LEMMA KernelTypesKept ==
  ASSUME KInv, [KernelNext]_kvars
  PROVE  KTypeOK'
<1>1. KTypeOK /\ IInv /\ Stacks \subseteq Seq(Contract)
  BY StacksAssumption DEF KInv
<1> USE <1>1 DEF KTypeOK, startVars, rebindVars
<1>2. CASE KernelStart
  BY <1>2 DEF KernelStart
<1>15. CASE KernelReady
  BY <1>15 DEF KernelReady
<1>14. CASE StartRaises \/ StartInterrupted
  BY <1>14 DEF StartRaises, StartInterrupted
<1>3. CASE StopIgnored \/ KernelStop \/ StopsOne \/ StopUnbinds \/ KernelStopped
  <2>1. kidx' \in Nat
    BY <1>3 DEF StopIgnored, KernelStop, StopsOne, StopUnbinds, KernelStopped, KInv, Stops
  <2>2. overlap' \in BOOLEAN
    BY <1>3 DEF StopIgnored, KernelStop, StopsOne, StopUnbinds, KernelStopped
  <2>3. bound' \in [Contract -> Proc \cup {None}]
    BY <1>3 DEF StopIgnored, KernelStop, StopsOne, StopUnbinds, KernelStopped
  <2>4. QED
    BY <1>3, <2>1, <2>2, <2>3 DEF StopIgnored, KernelStop, StopsOne, StopUnbinds, KernelStopped
<1>4. CASE StartsNext
  <2>1. kidx + 1 \in 1..Len(order)
    BY <1>4 DEF StartsNext
  <2>2. PICK s \in Sup : NewSupervisor(s, order[kidx + 1]) /\ kcur' = s
    BY <1>4 DEF StartsNext
  <2>3. contract' \in [Sup -> Contract \cup {None}]
    BY <2>1, <2>2, OrderedContract, NewSupervisorIs
  <2>4. QED
    BY <1>4, <2>2, <2>3 DEF StartsNext
<1>5. ASSUME NEW c \in Contract, Rebind(c) PROVE KTypeOK'
  <2>1. PICK s \in Sup : NewSupervisor(s, c) /\ rnew' = s
    BY <1>5 DEF Rebind
  <2>2. contract' \in [Sup -> Contract \cup {None}]
    BY <2>1, NewSupervisorIs
  <2>3. rold' \in Sup /\ rnew' \in Sup
    BY <1>5, <2>1 DEF Rebind
  <2>4. QED
    BY <1>5, <2>2, <2>3 DEF Rebind
<1>6. CASE StartBinds \/ StartBindRefused
  <2>1. kcur \in Sup /\ StartOk(kcur)
    BY <1>6 DEF StartBinds, StartBindRefused
  <2>2. cur[kcur]["start"] \in Proc
    BY <2>1, StartOkIs
  <2>3. sups' \in Seq(Sup)
    BY <1>6, <2>1 DEF StartBinds, StartBindRefused
  <2>4. bound' \in [Contract -> Proc \cup {None}]
    BY <1>6, <2>2 DEF StartBinds, StartBindRefused, Bind
  <2>5. QED
    BY <1>6, <2>1, <2>3, <2>4 DEF StartBinds, StartBindRefused
<1>7. CASE RebindStarted
  <2>1. rnew \in Sup /\ StartOk(rnew)
    BY <1>7 DEF RebindStarted, KInv, Rebinds
  <2>2. cur[rnew]["start"] \in Proc
    BY <2>1, StartOkIs
  <2>3. QED
    BY <1>7, <2>2 DEF RebindStarted
<1>8. CASE RebindSwaps \/ RebindSwapRefused
  <2>1. rnew \in Sup /\ TwinListed
    BY <1>8 DEF RebindSwaps, RebindSwapRefused, KInv, Rebinds
  <2>2. sups' \in Seq(Sup)
    BY <2>1, TwinListedIs
  <2>3. bound' \in [Contract -> Proc \cup {None}]
    BY <1>8 DEF RebindSwaps, RebindSwapRefused, Bind
  <2>4. QED
    BY <1>8, <2>1, <2>2, <2>3 DEF RebindSwaps, RebindSwapRefused
<1>9. CASE RebindRaises \/ RebindStopsOld
  BY <1>9 DEF RebindRaises, RebindStopsOld
<1>10. CASE StopsNext
  <2>1. sups[kidx] \in Sup
    BY <1>10 DEF StopsNext, KInv, Stops
  <2>2. QED
    BY <1>10, <2>1 DEF StopsNext
<1>11. ASSUME NEW s \in Sup, RestartBinds(s) \/ RestartBindRefused(s) PROVE KTypeOK'
  <2>1. cur[s]["crash"] \in Proc
    BY <1>11, RestartOkIs DEF RestartBinds, RestartBindRefused, KInv
  <2>2. bound' \in [Contract -> Proc \cup {None}]
    BY <1>11, <2>1 DEF RestartBinds, RestartBindRefused, Bind
  <2>3. QED
    BY <1>11, <2>2 DEF RestartBinds, RestartBindRefused
<1>12. CASE Background \/ KernelFinished \/ UNCHANGED kvars
  BY <1>12 DEF Background, KernelFinished, kvars, kernelVars
<1>13. QED
  BY <1>2, <1>15, <1>14, <1>3, <1>4, <1>5, <1>6, <1>7, <1>8, <1>9, <1>10, <1>11, <1>12, KernelActions
  DEF Onlooker, Restarter, Stopper

\* One step after another of the kernel leaves contracts and list alone.
LEMMA ListStays ==
  ASSUME [KernelNext]_kvars,
         Onlooker \/ Restarter \/ Stopper, ~RebindSwaps, ~RebindSwapRefused
  PROVE  sups' = sups /\ contract' = contract
BY DEF Onlooker, KernelStart, StartRaises, StartInterrupted, KernelReady, RebindRaises,
      StopIgnored, KernelStop, StopsOne, StopUnbinds, KernelStopped, KernelFinished, kvars,
      Background, kernelVars, Restarter, RestartBinds, RestartBindRefused, Stopper,
      RebindStopsOld, StopsNext

LEMMA SupervisorsKept ==
  ASSUME KInv, [KernelNext]_kvars, KTypeOK'
  PROVE  Supervisors'
<1>1. KTypeOK /\ IInv /\ Supervisors
  BY DEF KInv
<1>2. CASE (Onlooker \/ Restarter \/ Stopper) /\ ~RebindSwaps /\ ~RebindSwapRefused
  <2>1. \A r \in Sup : StartGoesOn(r)
    BY <1>2, StartsStay
  <2>2. sups' = sups /\ contract' = contract
    BY <1>2, ListStays
  <2>3. QED
    BY <1>1, <2>1, <2>2 DEF Supervisors, StartGoesOn, KTypeOK
<1>3. CASE RebindSwaps \/ RebindSwapRefused
  <2>1. /\ TwinListed /\ contract' = contract
        /\ pc' = pc
        /\ rold \in Sup /\ rnew \in Sup /\ ~Listed(rnew) /\ pc[rnew]["start"] = "up"
    BY <1>3 DEF RebindSwaps, RebindSwapRefused, KInv, Rebinds, RebindUnderWay, RebindOver, vars, supVars
  <2>2. /\ sups' \in Seq(Sup) /\ Len(sups') = Len(sups)
        /\ \A i \in 1..Len(sups) : sups[i] = rold => sups'[i] = rnew
        /\ \A i \in 1..Len(sups) : sups[i] # rold => sups'[i] = sups[i]
    BY <1>1, <2>1, TwinListedIs DEF KTypeOK
  <2>3. \A i \in 1..Len(sups') : pc[sups'[i]]["start"] = "up"
    BY <1>1, <2>1, <2>2 DEF Supervisors
  <2>4. ASSUME NEW i \in 1..Len(sups'), NEW j \in 1..Len(sups'), sups'[i] = sups'[j]
        PROVE  i = j
    <3>1. sups[i] # rnew /\ sups[j] # rnew
      BY <2>1, <2>2 DEF Listed
    <3>2. sups[i] = sups[j]
      BY <2>2, <2>4, <3>1
    <3>3. QED
      BY <1>1, <2>2, <3>2 DEF Supervisors
  <2>5. QED
    BY <1>1, <2>1, <2>3, <2>4 DEF Supervisors
<1>4. ASSUME NEW s \in Sup, NEW c \in Contract, NewSupervisor(s, c), sups' = sups
      PROVE  Supervisors'
  <2>1. /\ Start(s) /\ contract[s] = None /\ contract'[s] # None
        /\ \A r \in Sup \ {s} : contract'[r] = contract[r]
        /\ \A r \in Sup : r < s => contract[r] # None
        /\ \A r \in Sup : contract[r] # None => r < s
    BY <1>4, NewSupervisorIs
  <2>2. /\ \A r \in Sup \ {s} : StartGoesOn(r)
        /\ pc[s]["start"] = "idle" /\ pc'[s]["start"] = "spawn"
    BY <1>1, <2>1, StartIs DEF GoesOn
  <2>3. \A r \in Sup : contract'[r] = None <=> pc'[r]["start"] = "idle"
    BY <1>1, <2>1, <2>2 DEF Supervisors, StartGoesOn
  <2>4. \A q, r \in Sup : q < r /\ contract'[r] # None => contract'[q] # None
    BY <1>1, <2>1, SupAssumption DEF Supervisors
  <2>5. \A i \in 1..Len(sups) : sups[i] \in Sup \ {s}
    BY <1>1, <2>2 DEF Supervisors, KTypeOK
  <2>6. \A i \in 1..Len(sups) : pc'[sups[i]]["start"] = "up"
    BY <1>1, <2>2, <2>5 DEF Supervisors, StartGoesOn
  <2>7. QED
    BY <1>1, <1>4, <2>3, <2>4, <2>6 DEF Supervisors
<1>5. CASE StartsNext
  <2>1. kidx + 1 \in 1..Len(order)
    BY <1>1, <1>5, StacksAssumption DEF StartsNext, KTypeOK
  <2>2. QED
    BY <1>1, <1>4, <1>5, <2>1, OrderedContract DEF StartsNext
<1>6. ASSUME NEW c \in Contract, Rebind(c) PROVE Supervisors'
  BY <1>4, <1>6 DEF Rebind
<1>7. CASE StartBinds
  <2>1. kcur \in Sup /\ StartOk(kcur) /\ sups' = Append(sups, kcur) /\ contract' = contract
    BY <1>1, <1>7 DEF StartBinds, KTypeOK
  <2>2. /\ \A r \in Sup \ {kcur} : StartGoesOn(r)
        /\ pc[kcur]["start"] = "init" /\ pc'[kcur]["start"] = "up"
    BY <1>1, <2>1, StartOkIs DEF GoesOn
  <2>3. /\ sups' \in Seq(Sup) /\ Len(sups') = Len(sups) + 1
        /\ sups'[Len(sups) + 1] = kcur
        /\ \A i \in 1..Len(sups) : sups'[i] = sups[i]
    BY <1>1, <2>1, Appended DEF KTypeOK
  <2>4. \A i \in 1..Len(sups) : sups[i] \in Sup \ {kcur}
    BY <1>1, <2>2 DEF Supervisors, KTypeOK
  <2>5. \A r \in Sup : contract'[r] = None <=> pc'[r]["start"] = "idle"
    BY <1>1, <2>1, <2>2 DEF Supervisors, StartGoesOn
  <2>6. \A i \in 1..Len(sups') : i \in 1..Len(sups) \/ i = Len(sups) + 1
    BY <1>1, <2>3 DEF KTypeOK
  <2>7. \A i \in 1..Len(sups') : pc'[sups'[i]]["start"] = "up"
    BY <1>1, <2>2, <2>3, <2>4, <2>6 DEF Supervisors, StartGoesOn
  <2>8. \A i, j \in 1..Len(sups') : sups'[i] = sups'[j] => i = j
    BY <1>1, <2>3, <2>4, <2>6 DEF Supervisors
  <2>9. QED
    BY <1>1, <2>1, <2>5, <2>7, <2>8 DEF Supervisors
<1>8. ASSUME NEW s \in Sup, StartOk(s), sups' = sups, contract' = contract PROVE Supervisors'
  <2>1. /\ \A r \in Sup \ {s} : StartGoesOn(r)
        /\ pc[s]["start"] = "init" /\ pc'[s]["start"] = "up"
    BY <1>1, <1>8, StartOkIs DEF GoesOn
  <2>2. QED
    BY <1>1, <1>8, <2>1 DEF Supervisors, StartGoesOn, KTypeOK
<1>9. CASE StartBindRefused
  BY <1>1, <1>8, <1>9 DEF StartBindRefused, KTypeOK
<1>10. CASE RebindStarted
  BY <1>1, <1>8, <1>10 DEF RebindStarted, KInv, Rebinds
<1>11. QED
  BY <1>2, <1>3, <1>5, <1>6, <1>7, <1>9, <1>10, KernelActions

\* What is known of a supervisor in the list.
LEMMA ListedAre ==
  ASSUME KInv, [KernelNext]_kvars, NEW i \in 1..Len(sups)
  PROVE  /\ sups[i] \in Sup
         /\ pc[sups[i]]["start"] = "up"
         /\ contract[sups[i]] \in Contract /\ contract[sups[i]] # None
         /\ contract'[sups[i]] = contract[sups[i]]
<1>1. sups[i] \in Sup /\ pc[sups[i]]["start"] = "up" /\ contract[sups[i]] # None
  BY DEF KInv, KTypeOK, Supervisors
<1>2. QED
  BY <1>1, ContractsStay DEF KInv, KTypeOK

\* The part of start() is kept by whatever does not move start() or stop().
LEMMA StartsFrame ==
  ASSUME KInv, [KernelNext]_kvars,
         UNCHANGED <<order, sups, kpc, kidx, kcur, started, nstarts>>,
         kpc = "starting" => \A r \in Sup : StartGoesOn(r),
         kpc = "down" => contract' = contract
  PROVE  Starts'
<1>1. Starts /\ KTypeOK /\ Supervisors
  BY DEF KInv
<1>2. nstarts = 1 => \A i \in 1..Len(sups) : contract'[sups[i]] = order[i]
  BY <1>1, ListedAre DEF Starts
<1>3. kpc = "starting" /\ kcur # None => Coming(kcur)' /\ contract'[kcur] = order[kidx + 1]
  <2>1. SUFFICES ASSUME kpc = "starting", kcur # None
                 PROVE  Coming(kcur)' /\ contract'[kcur] = order[kidx + 1]
    OBVIOUS
  <2>2. kcur \in Sup /\ Coming(kcur) /\ contract[kcur] = order[kidx + 1]
    BY <1>1, <2>1 DEF Starts, KTypeOK
  <2>3. contract[kcur] # None
    BY <1>1, <2>2 DEF Supervisors, Coming
  <2>4. QED
    BY <2>1, <2>2, <2>3, ContractsStay DEF StartGoesOn
<1>4. QED
  BY <1>1, <1>2, <1>3 DEF Starts

LEMMA StartsKept ==
  ASSUME KInv, [KernelNext]_kvars, KTypeOK', Supervisors'
  PROVE  Starts'
<1>1. KTypeOK /\ IInv /\ Starts /\ Supervisors
  BY DEF KInv
<1>2. \A i \in 1..Len(sups) : contract'[sups[i]] = contract[sups[i]]
  BY ListedAre
<1>3. CASE Restarter \/ Background \/ KernelFinished \/ UNCHANGED kvars \/ RebindRaises
           \/ RebindStopsOld
  <2>1. UNCHANGED <<order, contract, sups, kpc, kidx, kcur, started, nstarts>>
    BY <1>3 DEF Restarter, RestartBinds, RestartBindRefused, Background, KernelFinished, kvars,
                kernelVars, RebindRaises, RebindStopsOld, startVars
  <2>2. \A r \in Sup : StartGoesOn(r)
    BY <1>3, StartsStay DEF Onlooker, Stopper
  <2>3. QED
    BY <2>1, <2>2, StartsFrame
<1>4. CASE RebindStarted \/ \E c \in Contract : Rebind(c)
  <2>1. UNCHANGED <<order, sups, kpc, kidx, kcur, started, nstarts>>
    BY <1>4 DEF RebindStarted, Rebind, startVars
  <2>2. kpc \notin {"down", "starting"}
    BY <1>4 DEF RebindStarted, Rebind, KInv, Rebinds
  <2>3. QED
    BY <2>1, <2>2, StartsFrame
<1>5. CASE KernelStart
  BY <1>1, <1>5 DEF KernelStart, Starts, KTypeOK
<1>6. CASE KernelReady
  BY <1>1, <1>6 DEF KernelReady, Starts, KTypeOK
<1>7. CASE StartRaises \/ StartInterrupted
  <2>1. /\ kpc = "starting" /\ kcur # None /\ kpc' = "failed" /\ kcur' = None
        /\ UNCHANGED <<order, sups, kidx, started, nstarts, contract>>
    BY <1>7 DEF StartRaises, StartInterrupted
  <2>2. QED
    BY <1>1, <2>1 DEF Starts, KTypeOK
<1>8. CASE StartBindRefused
  <2>1. /\ kpc = "starting" /\ kcur # None /\ kpc' = "failed" /\ kcur' = None
        /\ UNCHANGED <<order, sups, kidx, started, nstarts, contract>>
    BY <1>8 DEF StartBindRefused
  <2>2. QED
    BY <1>1, <2>1 DEF Starts, KTypeOK
<1>9. CASE StartsNext
  <2>1. kidx + 1 \in 1..Len(order) /\ kidx < Len(order)
    BY <1>1, <1>9, StacksAssumption DEF StartsNext, KTypeOK
  <2>2. PICK s \in Sup : NewSupervisor(s, order[kidx + 1]) /\ kcur' = s
    BY <1>9 DEF StartsNext
  <2>3. Start(s) /\ contract'[s] = order[kidx + 1]
    BY <2>1, <2>2, <1>1, OrderedContract, NewSupervisorIs
  <2>4. Coming(s)'
    BY <1>1, <2>3, StartIs
  <2>5. Coming(kcur)' /\ contract'[kcur'] = order[kidx + 1]
    BY <2>2, <2>3, <2>4 DEF Coming
  <2>6. /\ kpc = "starting" /\ kpc' = kpc
        /\ UNCHANGED <<order, sups, kidx, started, nstarts>>
    BY <1>9 DEF StartsNext
  <2>7. QED
    BY <1>1, <1>2, <2>1, <2>5, <2>6 DEF Starts, KTypeOK
<1>10. CASE StartBinds
  <2>1. /\ kcur \in Sup /\ kpc = "starting" /\ kpc' = kpc /\ sups' = Append(sups, kcur)
        /\ kidx' = kidx + 1 /\ kcur' = None
        /\ contract[kcur] = order[kidx + 1] /\ kidx < Len(order)
        /\ UNCHANGED <<order, contract, started, nstarts>>
    BY <1>1, <1>10 DEF StartBinds, KTypeOK, Starts
  <2>2. /\ Len(sups') = Len(sups) + 1
        /\ sups'[Len(sups) + 1] = kcur
        /\ \A i \in 1..Len(sups) : sups'[i] = sups[i]
    BY <1>1, <2>1, Appended DEF KTypeOK
  <2>3. \A i \in 1..Len(sups') : i \in 1..Len(sups) \/ i = Len(sups) + 1
    BY <1>1, <2>2 DEF KTypeOK
  <2>4. Len(order) \in Nat /\ Len(sups) \in Nat /\ kidx \in Nat
    BY <1>1, StacksAssumption DEF KTypeOK
  <2>5. nstarts = 1 => \A i \in 1..Len(sups') : contract[sups'[i]] = order[i]
    BY <1>1, <2>1, <2>2, <2>3 DEF Starts
  <2>6. QED
    BY <1>1, <2>1, <2>2, <2>4, <2>5 DEF Starts
<1>11. CASE RebindSwaps \/ RebindSwapRefused
  <2>1. /\ TwinListed /\ contract' = contract
        /\ UNCHANGED <<order, kpc, kidx, kcur, started, nstarts>>
        /\ rnew \in Sup /\ contract[rnew] = contract[rold] /\ kpc \notin {"down", "starting", "failed"}
    BY <1>11 DEF RebindSwaps, RebindSwapRefused, startVars, KInv, Rebinds, RebindUnderWay, RebindOver
  <2>2. /\ Len(sups') = Len(sups)
        /\ \A i \in 1..Len(sups) : sups[i] = rold => sups'[i] = rnew
        /\ \A i \in 1..Len(sups) : sups[i] # rold => sups'[i] = sups[i]
    BY <1>1, <2>1, TwinListedIs DEF KTypeOK
  <2>3. \A i \in 1..Len(sups) : contract[sups'[i]] = contract[sups[i]]
    BY <2>1, <2>2
  <2>4. QED
    BY <1>1, <2>1, <2>2, <2>3 DEF Starts
<1>12. CASE StopIgnored \/ KernelStop \/ StopUnbinds \/ KernelStopped
  <2>1. /\ UNCHANGED <<order, sups, contract, kcur, nstarts>>
        /\ kpc \in {"failed", "up", "stopping", "draining"}
        /\ kpc' \in {"stopping", "draining", "stopped"}
        /\ kpc' = "draining" => kpc = "stopping" /\ kcur = None
        /\ kpc' = "stopping" => kpc = "up"
    BY <1>12 DEF StopIgnored, KernelStop, StopUnbinds, KernelStopped
  <2>2. QED
    BY <1>1, <2>1 DEF Starts, KTypeOK
<1>13. CASE StopsNext \/ StopsOne
  <2>1. /\ UNCHANGED <<order, sups, contract, nstarts, started, kpc>>
        /\ kpc = "stopping"
    BY <1>13 DEF StopsNext, StopsOne
  <2>2. QED
    BY <1>1, <2>1 DEF Starts, KTypeOK
<1>14. QED
  BY <1>3, <1>4, <1>5, <1>6, <1>7, <1>8, <1>9, <1>10, <1>11, <1>12, <1>13, KernelActions
  DEF Onlooker, Stopper

\* What rebind() knows of its twin is not disturbed from outside: nobody stops a
\* supervisor that is not listed, and a restart shows.
LEMMA RebindsFrame ==
  ASSUME KInv, [KernelNext]_kvars,
         UNCHANGED <<sups, rpc, rold, rnew, rhandle>>,
         kpc' \in {"down", "starting", "failed"} => kpc \in {"down", "starting", "failed"},
         Onlooker \/ Restarter \/ Stopper
  PROVE  Rebinds'
<1>1. Rebinds /\ KTypeOK /\ Supervisors /\ IInv
  BY DEF KInv
<1>2. \A r \in Sup : StartGoesOn(r)
  BY StartsStay
<1>3. ASSUME RebindUnderWay
      PROVE  /\ rold \in Sup /\ rnew \in Sup /\ ~Listed(rnew)
             /\ contract'[rold] = contract[rold] /\ contract'[rnew] = contract[rnew]
             /\ stopPc'[rnew] = "idle"
             /\ ~HasRestarted(rnew)' => ~HasRestarted(rnew) /\ process'[rnew] = process[rnew]
  <2>1. /\ rold \in Sup /\ rnew \in Sup /\ Listed(rold) /\ ~Listed(rnew) /\ stopPc[rnew] = "idle"
        /\ contract[rnew] = contract[rold]
    BY <1>1, <1>3 DEF Rebinds, RebindUnderWay, RebindOver, KTypeOK
  <2>2. contract[rold] # None /\ contract[rnew] # None
    BY <1>1, <2>1 DEF Supervisors, Listed
  <2>3. contract'[rold] = contract[rold] /\ contract'[rnew] = contract[rnew]
    BY <2>1, <2>2, ContractsStay
  <2>4. CASE Onlooker
    BY <2>1, <2>3, <2>4, OnlookersGoOn DEF GoesOn, StopGoesOn
  <2>5. CASE Stopper
    <3>1. CASE \A r \in Sup : GoesOn(r)
      BY <2>1, <2>3, <3>1 DEF GoesOn, StopGoesOn
    <3>2. CASE \E s \in Sup : Listed(s) /\ StopCalled(s)
      <4>1. PICK s \in Sup : Listed(s) /\ StopCalled(s)
        BY <3>2
      <4>2. rnew \in Sup \ {s}
        BY <2>1, <4>1
      <4>3. GoesOn(rnew)
        BY <1>1, <4>1, <4>2, StopCalledIs
      <4>4. QED
        BY <2>1, <2>3, <4>3 DEF GoesOn, StopGoesOn
    <3>3. QED
      BY <2>5, <3>1, <3>2, StoppersStop
  <2>6. CASE Restarter
    <3>1. PICK s \in Sup : RestartOk(s) /\ Unrestarted(s)
      BY <2>6, RestartersRestart
    <3>2. stopPc' = stopPc /\ HasRestarted(s)' /\ \A r \in Sup \ {s} : GoesOn(r)
      BY <1>1, <3>1, RestartOkIs
    <3>3. QED
      BY <2>1, <2>3, <3>2 DEF GoesOn, StopGoesOn
  <2>7. QED
    BY <2>4, <2>5, <2>6
<1>4. \A s \in Sup : Listed(s)' <=> Listed(s)
  BY DEF Listed
<1>5. RebindUnderWay' <=> RebindUnderWay
  BY DEF RebindUnderWay, RebindOver
<1>6. kpc' \in {"down", "starting", "failed"} => rpc' = "idle"
  BY <1>1 DEF Rebinds
<1>7. rpc' \in {"starting", "swap", "stopOld", "raised"} => rold' \in Sup /\ rnew' \in Sup /\ Listed(rold)'
  BY <1>1 DEF Rebinds, Listed
<1>8. rpc' = "starting" => Coming(rnew)'
  BY <1>1, <1>2 DEF Rebinds, StartGoesOn, Coming
<1>9. rpc' = "raised" => pc'[rnew']["start"] = "failed"
  BY <1>1, <1>2 DEF Rebinds, StartGoesOn
<1>10. rpc' \in {"swap", "stopOld"} =>
         pc'[rnew']["start"] = "up" /\ (~HasRestarted(rnew)' => rhandle' = process'[rnew'])
  <2>1. SUFFICES ASSUME rpc \in {"swap", "stopOld"}
                 PROVE  pc'[rnew]["start"] = "up" /\ (~HasRestarted(rnew)' => rhandle = process'[rnew])
    BY DEF HasRestarted
  <2>2. /\ RebindUnderWay /\ rnew \in Sup /\ pc[rnew]["start"] = "up"
        /\ ~HasRestarted(rnew) => rhandle = process[rnew]
    BY <1>1, <2>1 DEF Rebinds, RebindUnderWay, RebindOver
  <2>3. QED
    BY <1>2, <1>3, <2>2 DEF StartGoesOn
<1>11. RebindUnderWay' =>
         /\ rold' < rnew' /\ contract'[rnew'] = contract'[rold'] /\ ~Listed(rnew)'
         /\ stopPc'[rnew'] = "idle"
  <2>1. SUFFICES ASSUME RebindUnderWay
                 PROVE  /\ rold < rnew /\ contract'[rnew] = contract'[rold] /\ ~Listed(rnew)'
                        /\ stopPc'[rnew] = "idle"
    BY <1>5
  <2>2. rold < rnew /\ contract[rnew] = contract[rold]
    BY <1>1, <2>1 DEF Rebinds
  <2>3. ~Listed(rnew)'
    BY <1>3, <2>1 DEF Listed
  <2>4. QED
    BY <1>3, <2>1, <2>2, <2>3
<1>12. QED
  BY <1>6, <1>7, <1>8, <1>9, <1>10, <1>11 DEF Rebinds

LEMMA RebindsKept ==
  ASSUME KInv, [KernelNext]_kvars, KTypeOK', Supervisors'
  PROVE  Rebinds'
<1>1. Rebinds /\ KTypeOK /\ Supervisors /\ Stops /\ IInv
  BY DEF KInv
<1>2. CASE /\ Onlooker \/ Restarter \/ StopsNext
           /\ ~RebindSwaps /\ ~RebindSwapRefused /\ ~RebindRaises
  <2>1. UNCHANGED <<sups, rpc, rold, rnew, rhandle>>
    BY <1>2 DEF Onlooker, KernelStart, StartRaises, StartInterrupted, KernelReady, StopIgnored,
      KernelStop, StopsOne, StopUnbinds, KernelStopped, KernelFinished, kvars, Background,
      kernelVars, Restarter, RestartBinds, RestartBindRefused, StopsNext, rebindVars
  <2>2. kpc' \in {"down", "starting", "failed"} => kpc \in {"down", "starting", "failed"}
    BY <1>2 DEF Onlooker, KernelStart, StartRaises, StartInterrupted, KernelReady, StopIgnored,
      KernelStop, StopsOne, StopUnbinds, KernelStopped, KernelFinished, kvars, Background,
      kernelVars, Restarter, RestartBinds, RestartBindRefused, StopsNext, startVars
  <2>3. QED
    BY <1>2, <2>1, <2>2, RebindsFrame DEF Stopper
<1>3. CASE RebindStopsOld
  <2>1. /\ rpc = "swap" /\ rpc' = "stopOld"
        /\ UNCHANGED <<sups, rold, rnew, rhandle, contract, kpc>>
    BY <1>3 DEF RebindStopsOld, startVars
  <2>2. /\ rold \in Sup /\ rnew \in Sup /\ Listed(rold) /\ ~Listed(rnew) /\ stopPc[rnew] = "idle"
        /\ rold < rnew /\ contract[rnew] = contract[rold] /\ pc[rnew]["start"] = "up"
        /\ ~HasRestarted(rnew) => rhandle = process[rnew]
        /\ kpc \notin {"down", "starting", "failed"}
    BY <1>1, <2>1 DEF Rebinds, RebindUnderWay, RebindOver
  <2>3. rnew # rold
    BY <2>2
  <2>4. GoesOn(rnew)
    <3>1. CASE StopCalled(rold)
      BY <1>1, <2>2, <2>3, <3>1, StopCalledIs
    <3>2. CASE UNCHANGED vars
      BY <2>2, <3>2, StandsStill
    <3>3. QED
      BY <1>3, <3>1, <3>2 DEF RebindStopsOld
  <2>5. /\ pc'[rnew]["start"] = "up" /\ stopPc'[rnew] = "idle"
        /\ ~HasRestarted(rnew)' => rhandle = process'[rnew]
    BY <2>2, <2>4 DEF GoesOn, StartGoesOn, StopGoesOn
  <2>6. Listed(rold)' /\ ~Listed(rnew)'
    BY <2>1, <2>2 DEF Listed
  <2>7. HasRestarted(rnew)' <=> (recent'[rnew] > 0 \/ expired'[rnew] > 0)
    BY <2>1 DEF HasRestarted
  <2>8. QED
    BY <2>1, <2>2, <2>5, <2>6, <2>7 DEF Rebinds, HasRestarted
<1>4. CASE RebindSwaps
  BY <1>1, <1>4 DEF RebindSwaps, Rebinds, RebindUnderWay, RebindOver
<1>5. CASE RebindSwapRefused
  <2>1. rpc' = "refused" /\ kpc' = kpc /\ rpc = "stopOld"
    BY <1>5 DEF RebindSwapRefused, startVars
  <2>2. QED
    BY <1>1, <2>1 DEF Rebinds, RebindUnderWay, RebindOver
<1>6. CASE RebindRaises
  <2>1. /\ rpc = "starting" /\ rpc' = "raised" /\ pc' = pc /\ pc[rnew]["start"] = "failed"
        /\ UNCHANGED <<sups, kpc, rold, rnew>>
    BY <1>6 DEF RebindRaises, startVars, vars, supVars
  <2>2. QED
    BY <1>1, <2>1 DEF Rebinds, RebindUnderWay, RebindOver, Listed
<1>7. CASE StartsNext \/ StartBinds \/ StartBindRefused
  <2>1. kpc = "starting" /\ rpc' = rpc
    BY <1>7 DEF StartsNext, StartBinds, StartBindRefused, rebindVars
  <2>2. rpc' = "idle"
    BY <1>1, <2>1 DEF Rebinds
  <2>3. QED
    BY <2>2 DEF Rebinds, RebindUnderWay, RebindOver
<1>8. ASSUME NEW c \in Contract, Rebind(c) PROVE Rebinds'
  <2>1. PICK s \in Sup : NewSupervisor(s, c) /\ rnew' = s
    BY <1>8 DEF Rebind
  <2>2. PICK i \in 1..Len(sups) : contract[sups[i]] = c /\ rold' = sups[i]
    BY <1>8 DEF Rebind
  <2>3. /\ kpc = "up" /\ kpc' = kpc /\ rpc' = "starting" /\ sups' = sups
    BY <1>8 DEF Rebind, startVars
  <2>4. sups[i] \in Sup /\ contract[sups[i]] # None /\ contract'[sups[i]] = c
    BY <2>2, ListedAre
  <2>5. contract'[s] = c /\ sups[i] < s /\ ~Listed(s) /\ Start(s)
    BY <2>1, <2>4, NewSupervisorIs
  <2>6. Coming(s)' /\ stopPc'[s] = "idle"
    BY <1>1, <2>5, StartIs
  <2>7. Coming(rnew)' /\ stopPc'[rnew'] = "idle" /\ Listed(rold)' /\ ~Listed(rnew)'
    BY <2>1, <2>2, <2>3, <2>5, <2>6 DEF Coming, Listed
  <2>8. QED
    BY <2>1, <2>2, <2>3, <2>4, <2>5, <2>7 DEF Rebinds
<1>9. CASE RebindStarted
  <2>1. /\ rpc = "starting" /\ rpc' = "swap" /\ StartOk(rnew) /\ rhandle' = cur[rnew]["start"]
        /\ UNCHANGED <<sups, kpc, rold, rnew, contract>>
    BY <1>9 DEF RebindStarted, startVars
  <2>2. /\ rold \in Sup /\ rnew \in Sup /\ Listed(rold) /\ ~Listed(rnew)
        /\ rold < rnew /\ contract[rnew] = contract[rold]
        /\ kpc \notin {"down", "starting", "failed"}
    BY <1>1, <2>1 DEF Rebinds, RebindUnderWay, RebindOver
  <2>3. pc'[rnew]["start"] = "up" /\ stopPc'[rnew] = "idle" /\ process'[rnew] = rhandle'
    BY <1>1, <2>1, <2>2, StartOkIs
  <2>4. Listed(rold)' /\ ~Listed(rnew)'
    BY <2>1, <2>2 DEF Listed
  <2>5. QED
    BY <2>1, <2>2, <2>3, <2>4 DEF Rebinds
<1>10. QED
  BY <1>2, <1>3, <1>4, <1>5, <1>6, <1>7, <1>8, <1>9, KernelActions DEF Stopper

\* Until stop() is called, a listed supervisor is being stopped only by rebind().
LEMMA StopsWhileUp ==
  ASSUME kpc' \in {"down", "starting", "failed", "up"},
         \A i \in 1..Len(sups') : stopPc'[sups'[i]] # "idle" => rpc' = "stopOld" /\ sups'[i] = rold'
  PROVE  Stops'
BY DEF Stops

\* Nothing is asked of the order in which a kernel stops that a rebind disturbs.
LEMMA StopsOverlapped ==
  ASSUME kpc' \in {"stopping", "draining", "stopped"}, overlap',
         kpc' = "stopping" => kidx' <= Len(sups') /\ (kcur' # None => kidx' > 0)
  PROVE  Stops'
BY DEF Stops

\* No step of the supervisors on their own disturbs the order.
LEMMA StopsFrame ==
  ASSUME KInv, UNCHANGED kernelVars, \A r \in Sup : StopGoesOn(r)
  PROVE  Stops'
<1>1. /\ Stops /\ sups \in Seq(Sup) /\ kidx \in Nat
      /\ UNCHANGED <<order, sups, kpc, kidx, kcur, nstarts, overlap, rpc, rold>>
  BY DEF KInv, KTypeOK, kernelVars, startVars, rebindVars
<1>2. \A i \in 1..Len(sups) : sups[i] \in Sup /\ StopGoesOn(sups[i])
  BY <1>1
<1>3. \A i \in 1..Len(sups) : /\ stopPc[sups[i]] = "idle" <=> stopPc'[sups[i]] = "idle"
                              /\ stopPc[sups[i]] = "done" => stopPc'[sups[i]] = "done"
  BY <1>2 DEF StopGoesOn
<1>4. kpc \in {"down", "starting", "failed", "up"} =>
        \A i \in 1..Len(sups) : stopPc'[sups[i]] # "idle" => rpc = "stopOld" /\ sups[i] = rold
  BY <1>1, <1>3 DEF Stops
<1>5. kpc = "stopping" /\ ~overlap =>
        /\ \A i \in 1..Len(sups) : i < kidx => stopPc'[sups[i]] = "idle"
        /\ \A i \in 1..Len(sups) : i > kidx => stopPc'[sups[i]] = "done"
        /\ kcur = None => (kidx > 0 => stopPc'[sups[kidx]] = "idle")
        /\ kcur # None => kcur = sups[kidx]
  BY <1>1, <1>3 DEF Stops
<1>6. kpc = "draining" /\ ~overlap => \A i \in 1..Len(sups) : stopPc'[sups[i]] = "done"
  BY <1>1, <1>3 DEF Stops
<1>7. kpc = "stopped" /\ ~overlap /\ nstarts = 1 /\ Len(sups) = Len(order) =>
        \A i \in 1..Len(sups) : stopPc'[sups[i]] = "done"
  BY <1>1, <1>3 DEF Stops
<1>8. QED
  BY <1>1, <1>4, <1>5, <1>6, <1>7 DEF Stops, RebindUnderWay

LEMMA StopsKept ==
  ASSUME KInv, [KernelNext]_kvars, KTypeOK', Supervisors'
  PROVE  Stops'
<1>1. Rebinds /\ KTypeOK /\ Supervisors /\ Stops /\ Starts /\ IInv
  BY DEF KInv
<1>2. \A i \in 1..Len(sups) : sups[i] \in Sup /\ pc[sups[i]]["start"] = "up"
  BY ListedAre
<1>3. kpc \in {"down", "starting", "failed", "up"} /\ rpc # "stopOld" =>
        \A i \in 1..Len(sups) : stopPc[sups[i]] = "idle"
  BY <1>1 DEF Stops
<1>4. CASE Background \/ KernelFinished \/ UNCHANGED kvars
  BY <1>4, OnlookersGoOn, StopsFrame
  DEF Onlooker, GoesOn, Background, KernelFinished, kvars
<1>5. CASE Restarter
  <2>1. PICK s \in Sup : RestartOk(s) /\ Unrestarted(s)
    BY <1>5, RestartersRestart
  <2>2. stopPc' = stopPc
    BY <1>1, <2>1, RestartOkIs
  <2>3. UNCHANGED <<order, sups, kpc, kidx, kcur, nstarts, overlap, rpc, rold>>
    BY <1>5 DEF Restarter, RestartBinds, RestartBindRefused, startVars, rebindVars
  <2>4. QED
    BY <1>1, <2>2, <2>3 DEF Stops, RebindUnderWay
<1>6. CASE KernelStart \/ StartRaises \/ StartInterrupted \/ KernelReady
  <2>1. /\ kpc \in {"down", "starting", "failed"}
        /\ kpc' \in {"starting", "failed", "up"} /\ sups' = sups
    BY <1>6 DEF KernelStart, StartRaises, StartInterrupted, KernelReady
  <2>2. rpc # "stopOld"
    BY <1>1, <2>1 DEF Rebinds
  <2>3. \A r \in Sup : StopGoesOn(r)
    BY <1>6, OnlookersGoOn DEF Onlooker, GoesOn
  <2>4. \A i \in 1..Len(sups) : stopPc'[sups[i]] = "idle"
    BY <1>2, <1>3, <2>1, <2>2, <2>3 DEF StopGoesOn
  <2>5. QED
    BY <2>1, <2>4, StopsWhileUp
<1>7. ASSUME NEW s \in Sup, Start(s), sups' = sups, kpc \in {"starting", "up"}, kpc' = kpc,
             rpc # "stopOld"
      PROVE  Stops'
  <2>1. \A r \in Sup \ {s} : StopGoesOn(r)
    BY <1>1, <1>7, StartIs DEF GoesOn
  <2>2. stopPc'[s] = "idle"
    BY <1>1, <1>7, StartIs
  <2>3. \A i \in 1..Len(sups) : stopPc'[sups[i]] = "idle"
    BY <1>2, <1>3, <1>7, <2>1, <2>2 DEF StopGoesOn
  <2>4. QED
    BY <1>7, <2>3, StopsWhileUp
<1>8. CASE StartsNext
  <2>1. rpc # "stopOld"
    BY <1>1, <1>8 DEF StartsNext, Rebinds
  <2>2. QED
    BY <1>7, <1>8, <2>1 DEF StartsNext, NewSupervisor
<1>9. ASSUME NEW c \in Contract, Rebind(c) PROVE Stops'
  <2>1. rpc # "stopOld"
    BY <1>9 DEF Rebind, RebindOver
  <2>2. QED
    BY <1>7, <1>9, <2>1 DEF Rebind, NewSupervisor, startVars
<1>10. CASE StartBinds \/ StartBindRefused
  <2>1. /\ kcur \in Sup /\ StartOk(kcur) /\ kpc = "starting" /\ kpc' \in {"starting", "failed"}
        /\ sups' = sups \/ sups' = Append(sups, kcur)
    BY <1>1, <1>10 DEF StartBinds, StartBindRefused, KTypeOK
  <2>2. rpc # "stopOld"
    BY <1>1, <2>1 DEF Rebinds
  <2>3. stopPc'[kcur] = "idle" /\ \A r \in Sup \ {kcur} : StopGoesOn(r)
    BY <1>1, <2>1, StartOkIs DEF GoesOn
  <2>4. \A i \in 1..Len(sups) : stopPc'[sups[i]] = "idle"
    BY <1>2, <1>3, <2>1, <2>2, <2>3 DEF StopGoesOn
  <2>5. \A i \in 1..Len(sups') : sups'[i] = kcur \/ (i \in 1..Len(sups) /\ sups'[i] = sups[i])
    <3>1. CASE sups' = sups
      BY <3>1
    <3>2. CASE sups' = Append(sups, kcur)
      BY <1>1, <2>1, <3>2, Appended DEF KTypeOK
    <3>3. QED
      BY <2>1, <3>1, <3>2
  <2>6. \A i \in 1..Len(sups') : stopPc'[sups'[i]] = "idle"
    BY <2>3, <2>4, <2>5
  <2>7. QED
    BY <2>1, <2>6, StopsWhileUp
<1>11. ASSUME RebindUnderWay, kpc' = kpc, kidx' = kidx, kcur' = kcur, overlap' = overlap,
              Len(sups') = Len(sups),
              kpc \in {"down", "starting", "failed", "up"} =>
                \A i \in 1..Len(sups') : stopPc'[sups'[i]] # "idle" => rpc' = "stopOld" /\ sups'[i] = rold'
       PROVE  Stops'
  <2>1. CASE kpc \in {"down", "starting", "failed", "up"}
    BY <1>11, <2>1, StopsWhileUp
  <2>2. CASE kpc \in {"stopping", "draining", "stopped"}
    <3>1. overlap
      BY <1>1, <1>11, <2>2 DEF Stops, KTypeOK
    <3>2. kpc' = "stopping" => kidx' <= Len(sups') /\ (kcur' # None => kidx' > 0)
      BY <1>1, <1>11 DEF Stops
    <3>3. QED
      BY <1>11, <2>2, <3>1, <3>2, StopsOverlapped
  <2>3. QED
    BY <1>1, <2>1, <2>2 DEF KTypeOK
<1>12. CASE RebindStarted \/ RebindRaises
  <2>1. /\ rpc = "starting" /\ sups' = sups
        /\ kpc' = kpc /\ kidx' = kidx /\ kcur' = kcur /\ overlap' = overlap
        /\ StartOk(rnew) \/ stopPc' = stopPc
    BY <1>12 DEF RebindStarted, RebindRaises, startVars, vars, supVars
  <2>2. RebindUnderWay /\ rnew \in Sup
    BY <1>1, <2>1 DEF Rebinds, RebindUnderWay, RebindOver
  <2>3. kpc \in {"down", "starting", "failed", "up"} =>
          \A i \in 1..Len(sups) : stopPc'[sups[i]] = "idle"
    <3>1. CASE StartOk(rnew)
      <4>1. stopPc'[rnew] = "idle" /\ \A r \in Sup \ {rnew} : StopGoesOn(r)
        BY <1>1, <2>2, <3>1, StartOkIs DEF GoesOn
      <4>2. QED
        BY <1>2, <1>3, <2>1, <4>1 DEF StopGoesOn
    <3>2. CASE stopPc' = stopPc
      BY <1>3, <2>1, <3>2
    <3>3. QED
      BY <2>1, <3>1, <3>2
  <2>4. QED
    BY <1>11, <2>1, <2>2, <2>3
<1>13. CASE RebindStopsOld
  <2>1. /\ rpc = "swap" /\ sups' = sups /\ rpc' = "stopOld" /\ rold' = rold
        /\ kpc' = kpc /\ kidx' = kidx /\ kcur' = kcur /\ overlap' = overlap
        /\ StopCalled(rold) \/ stopPc' = stopPc
    BY <1>13 DEF RebindStopsOld, startVars, vars, supVars
  <2>2. RebindUnderWay /\ rold \in Sup
    BY <1>1, <2>1 DEF Rebinds, RebindUnderWay, RebindOver
  <2>3. \A r \in Sup \ {rold} : StopGoesOn(r)
    BY <1>1, <2>1, <2>2, StopCalledIs DEF GoesOn, StopGoesOn
  <2>4. kpc \in {"down", "starting", "failed", "up"} =>
          \A i \in 1..Len(sups) : stopPc'[sups[i]] # "idle" => sups[i] = rold
    BY <1>2, <1>3, <2>1, <2>3 DEF StopGoesOn
  <2>5. QED
    BY <1>11, <2>1, <2>2, <2>4
<1>14. CASE RebindSwaps \/ RebindSwapRefused
  <2>1. /\ rpc = "stopOld" /\ TwinListed /\ stopPc' = stopPc
        /\ kpc' = kpc /\ kidx' = kidx /\ kcur' = kcur /\ overlap' = overlap
    BY <1>14 DEF RebindSwaps, RebindSwapRefused, startVars, vars, supVars
  <2>2. RebindUnderWay /\ rnew \in Sup /\ stopPc[rnew] = "idle"
    BY <1>1, <2>1 DEF Rebinds, RebindUnderWay, RebindOver
  <2>3. /\ Len(sups') = Len(sups)
        /\ \A i \in 1..Len(sups) : sups[i] = rold => sups'[i] = rnew
        /\ \A i \in 1..Len(sups) : sups[i] # rold => sups'[i] = sups[i]
    BY <1>1, <2>1, <2>2, TwinListedIs DEF KTypeOK
  <2>4. kpc \in {"down", "starting", "failed", "up"} =>
          \A i \in 1..Len(sups) : stopPc[sups'[i]] = "idle"
    BY <1>1, <2>2, <2>3 DEF Stops
  <2>5. QED
    BY <1>11, <2>1, <2>2, <2>3, <2>4
<1>15. CASE StopIgnored
  <2>1. /\ kpc = "failed" /\ kpc' = "stopped"
        /\ UNCHANGED <<rpc, nstarts, sups, order>>
    BY <1>15 DEF StopIgnored, rebindVars
  <2>2. ~RebindUnderWay' /\ ~(nstarts = 1 /\ Len(sups) = Len(order))
    BY <1>1, <2>1, StacksAssumption DEF Starts, Rebinds, RebindUnderWay, RebindOver, KTypeOK
  <2>3. QED
    BY <2>1, <2>2 DEF Stops
<1>16. CASE KernelStop
  <2>1. /\ kpc = "up" /\ kpc' = "stopping" /\ kidx' = Len(sups) /\ overlap' = (rpc \notin RebindOver)
        /\ UNCHANGED <<rpc, sups, stopPc, kcur>>
    BY <1>16 DEF KernelStop, rebindVars, vars, supVars
  <2>2. kcur = None
    BY <1>1, <2>1 DEF Starts
  <2>3. CASE overlap'
    BY <1>1, <2>1, <2>2, <2>3, StopsOverlapped DEF KTypeOK
  <2>4. CASE ~overlap'
    <3>1. rpc \in RebindOver /\ rpc # "stopOld"
      BY <2>1, <2>4 DEF RebindOver
    <3>2. \A i \in 1..Len(sups) : stopPc[sups[i]] = "idle"
      BY <1>3, <2>1, <3>1
    <3>3. Len(sups) \in Nat
      BY <1>1 DEF KTypeOK
    <3>4. QED
      BY <2>1, <2>2, <2>4, <3>1, <3>2, <3>3 DEF Stops, RebindUnderWay
  <2>5. QED
    BY <2>3, <2>4
<1>17. CASE StopsNext
  <2>1. /\ kpc = "stopping" /\ kpc' = kpc /\ kcur = None /\ kidx > 0 /\ kcur' = sups[kidx]
        /\ UNCHANGED <<rpc, sups, kidx, overlap>>
        /\ StopCalled(sups[kidx]) \/ stopPc' = stopPc
    BY <1>17 DEF StopsNext, rebindVars, vars, supVars
  <2>2. kidx \in 1..Len(sups) /\ sups[kidx] \in Sup
    BY <1>1, <2>1 DEF Stops, KTypeOK
  <2>3. \A r \in Sup \ {sups[kidx]} : StopGoesOn(r)
    BY <1>1, <2>1, <2>2, StopCalledIs DEF GoesOn, StopGoesOn
  <2>4. \A i \in 1..Len(sups) : i # kidx => StopGoesOn(sups[i])
    BY <1>1, <1>2, <2>2, <2>3 DEF Supervisors
  <2>5. CASE overlap
    BY <1>1, <2>1, <2>5, StopsOverlapped DEF Stops
  <2>6. CASE ~overlap
    <3>1. /\ \A i \in 1..Len(sups) : i < kidx => stopPc'[sups[i]] = "idle"
          /\ \A i \in 1..Len(sups) : i > kidx => stopPc'[sups[i]] = "done"
      BY <1>1, <2>1, <2>2, <2>4, <2>6 DEF Stops, StopGoesOn, KTypeOK
    <3>2. sups[kidx] # None /\ ~RebindUnderWay
      BY <1>1, <2>1, <2>2, <2>6, NoneAssumption DEF Stops
    <3>3. QED
      BY <1>1, <2>1, <2>2, <2>6, <3>1, <3>2 DEF Stops, RebindUnderWay
  <2>7. QED
    BY <1>1, <2>5, <2>6 DEF KTypeOK
<1>18. CASE StopsOne
  <2>1. /\ kpc = "stopping" /\ kpc' = kpc /\ kcur # None /\ stopPc[kcur] = "done" /\ kcur' = None
        /\ kidx' = kidx - 1
        /\ UNCHANGED <<rpc, sups, overlap, stopPc>>
    BY <1>18 DEF StopsOne, rebindVars, vars, supVars
  <2>2. kidx \in 1..Len(sups) /\ kidx - 1 \in Nat
    BY <1>1, <2>1 DEF Stops, KTypeOK
  <2>3. CASE overlap
    BY <1>1, <2>1, <2>2, <2>3, StopsOverlapped
  <2>4. CASE ~overlap
    <3>1. /\ kcur = sups[kidx] /\ ~RebindUnderWay
          /\ \A i \in 1..Len(sups) : i < kidx => stopPc[sups[i]] = "idle"
          /\ \A i \in 1..Len(sups) : i > kidx => stopPc[sups[i]] = "done"
      BY <1>1, <2>1, <2>4 DEF Stops
    <3>2. \A i \in 1..Len(sups) : i > kidx - 1 => stopPc[sups[i]] = "done"
      BY <2>1, <2>2, <3>1
    <3>3. /\ \A i \in 1..Len(sups) : i < kidx - 1 => stopPc[sups[i]] = "idle"
          /\ kidx - 1 > 0 => stopPc[sups[kidx - 1]] = "idle"
      BY <1>1, <2>2, <3>1 DEF KTypeOK
    <3>4. QED
      BY <2>1, <2>2, <2>4, <3>1, <3>2, <3>3 DEF Stops, RebindUnderWay
  <2>5. QED
    BY <1>1, <2>3, <2>4 DEF KTypeOK
<1>19. CASE StopUnbinds \/ KernelStopped
  <2>1. /\ \/ kpc = "stopping" /\ kpc' = "draining" /\ kcur = None /\ kidx = 0
           \/ kpc = "draining" /\ kpc' = "stopped"
        /\ UNCHANGED <<rpc, sups, overlap, stopPc>>
    BY <1>19 DEF StopUnbinds, KernelStopped, rebindVars, vars, supVars
  <2>2. ~overlap => ~RebindUnderWay /\ \A i \in 1..Len(sups) : stopPc[sups[i]] = "done"
    BY <1>1, <2>1 DEF Stops
  <2>3. QED
    BY <2>1, <2>2 DEF Stops, RebindUnderWay
<1>20. QED
  BY <1>4, <1>5, <1>6, <1>8, <1>9, <1>10, <1>12, <1>13, <1>14, <1>15, <1>16, <1>17, <1>18, <1>19,
     KernelActions
  DEF Onlooker, Stopper

-----------------------------------------------------------------------------
(* What became of the supervisors, and what is bound *)

\* Failed, stopped and restarted are for ever.
LEMMA EndsStay ==
  ASSUME KInv, [KernelNext]_kvars, NEW r \in Sup
  PROVE  /\ pc[r]["start"] = "failed" => pc'[r]["start"] = "failed"
         /\ stopPc[r] = "done" => stopPc'[r] = "done"
         /\ HasRestarted(r) => HasRestarted(r)'
<1>1. IInv /\ KTypeOK /\ Rebinds
  BY DEF KInv
<1> DEFINE Ends == /\ pc[r]["start"] = "failed" => pc'[r]["start"] = "failed"
                   /\ stopPc[r] = "done" => stopPc'[r] = "done"
                   /\ HasRestarted(r) => HasRestarted(r)'
<1>2. ASSUME GoesOn(r) PROVE Ends
  BY <1>2 DEF GoesOn, StartGoesOn, StopGoesOn
<1>3. ASSUME NEW s \in Sup, Start(s) PROVE Ends
  BY <1>1, <1>2, <1>3, StartIs
<1>4. ASSUME NEW s \in Sup, StartOk(s) PROVE Ends
  BY <1>1, <1>2, <1>4, StartOkIs
<1>5. ASSUME NEW s \in Sup, StopCalled(s) PROVE Ends
  BY <1>1, <1>2, <1>5, StopCalledIs DEF StartGoesOn
<1>6. ASSUME NEW s \in Sup, Unrestarted(s), RestartOk(s) PROVE Ends
  BY <1>1, <1>2, <1>6, RestartOkIs DEF StartGoesOn
<1>7. CASE Onlooker
  BY <1>2, <1>7, OnlookersGoOn
<1>8. CASE Restarter
  <2>1. PICK s \in Sup : RestartOk(s) /\ Unrestarted(s)
    BY <1>8, RestartersRestart
  <2>2. QED
    BY <1>6, <2>1
<1>9. CASE Stopper
  <2>1. GoesOn(r) \/ \E s \in Sup : StopCalled(s)
    BY <1>9, StoppersStop
  <2>2. QED
    BY <1>2, <1>5, <2>1
<1>10. CASE StartsNext \/ \E c \in Contract : Rebind(c)
  BY <1>3, <1>10 DEF StartsNext, Rebind, NewSupervisor
<1>11. CASE StartBinds \/ StartBindRefused \/ RebindStarted
  <2>1. (kcur \in Sup /\ StartOk(kcur)) \/ (rnew \in Sup /\ StartOk(rnew))
    BY <1>1, <1>11 DEF StartBinds, StartBindRefused, RebindStarted, KTypeOK, Rebinds
  <2>2. QED
    BY <1>4, <2>1
<1>12. QED
  BY <1>7, <1>8, <1>9, <1>10, <1>11, KernelActions

\* Health is not regained.
LEMMA HealthyBefore ==
  ASSUME KInv, [KernelNext]_kvars, Healthy'
  PROVE  \/ Healthy /\ ~KernelStart /\ ~StartRaises /\ ~StartInterrupted /\ ~StartBindRefused
         \/ kpc = "down" /\ KernelStart
<1>1. Starts /\ KTypeOK /\ Rebinds
  BY DEF KInv
<1>2. nstarts' = 1 /\ kpc' # "failed" /\ (kpc' = "stopped" => Len(sups') = Len(order'))
  BY DEF Healthy
<1>3. CASE KernelStart
  BY <1>1, <1>2, <1>3 DEF KernelStart, Starts, KTypeOK
<1>4. CASE StartRaises \/ StartInterrupted \/ StartBindRefused
  BY <1>2, <1>4 DEF StartRaises, StartInterrupted, StartBindRefused
<1>5. CASE ~KernelStart /\ ~StartRaises /\ ~StartInterrupted /\ ~StartBindRefused
  <2>1. nstarts' = nstarts
    BY <1>5, KernelActions
    DEF Onlooker, Restarter, Stopper, KernelReady, RebindSwaps, RebindSwapRefused, RebindRaises,
        StopIgnored, KernelStop, StopsOne, StopUnbinds, KernelStopped, Background, KernelFinished,
        kvars, kernelVars, startVars, RestartBinds, RestartBindRefused, RebindStopsOld, StopsNext,
        StartsNext, Rebind, StartBinds, RebindStarted
  <2>2. CASE StopIgnored
    <3>1. kpc = "failed" /\ kpc' = "stopped" /\ sups' = sups /\ order' = order
      BY <2>2 DEF StopIgnored
    <3>2. Len(sups) \in Nat /\ Len(order) \in Nat
      BY <1>1, StacksAssumption DEF KTypeOK
    <3>3. QED
      BY <1>1, <1>2, <2>1, <3>1, <3>2 DEF Starts
  <2>3. CASE ~StopIgnored
    <3>1. /\ kpc = "failed" => kpc' = "failed"
          /\ kpc = "stopped" => kpc' = "stopped"
      BY <1>5, <2>3, KernelActions
      DEF Onlooker, Restarter, Stopper, KernelReady, RebindSwaps, RebindSwapRefused, RebindRaises,
          KernelStop, StopsOne, StopUnbinds, KernelStopped, Background, KernelFinished,
          kvars, kernelVars, startVars, RestartBinds, RestartBindRefused, RebindStopsOld, StopsNext,
          StartsNext, Rebind, StartBinds, RebindStarted
    <3>2. kpc = "stopped" => Len(sups') = Len(sups) /\ order' = order
      <4>1. CASE RebindSwaps \/ RebindSwapRefused
        <5>1. rnew \in Sup /\ TwinListed /\ order' = order
          BY <1>1, <4>1 DEF RebindSwaps, RebindSwapRefused, Rebinds
        <5>2. QED
          BY <1>1, <5>1, TwinListedIs DEF KTypeOK
      <4>2. CASE ~RebindSwaps /\ ~RebindSwapRefused
        BY <1>5, <2>3, <4>2, KernelActions
        DEF Onlooker, Restarter, Stopper, KernelReady, RebindRaises,
            KernelStop, StopsOne, StopUnbinds, KernelStopped, Background, KernelFinished,
            kvars, kernelVars, RestartBinds, RestartBindRefused, RebindStopsOld, StopsNext,
            StartsNext, Rebind, StartBinds, RebindStarted
      <4>3. QED
        BY <4>1, <4>2
    <3>3. QED
      BY <1>2, <1>5, <2>1, <3>1, <3>2 DEF Healthy
  <2>4. QED
    BY <2>2, <2>3
<1>6. QED
  BY <1>3, <1>4, <1>5

\* Every supervisor that drops out of start(), rebind() or the list has failed
\* or been stopped.
LEMMA AccountsKept ==
  ASSUME KInv, [KernelNext]_kvars, KTypeOK', Supervisors'
  PROVE  Accounts'
<1>1. Accounts /\ Starts /\ Rebinds /\ KTypeOK /\ Supervisors /\ IInv /\ \A s \in Sup : Unrestarted(s)
  BY DEF KInv
<1> SUFFICES ASSUME Healthy', NEW s \in Sup, contract'[s] # None
             PROVE  Accounted(s)' /\ FailedClean(s)'
  BY DEF Accounts
<1>2. CASE kpc = "down" /\ KernelStart
  BY <1>1, <1>2 DEF KernelStart, Starts
<1>3. CASE Healthy /\ ~KernelStart /\ ~StartRaises /\ ~StartInterrupted /\ ~StartBindRefused
  <2>1. FailedClean(s)'
    <3>1. FailedClean(s)
      BY <1>1, <1>3 DEF Accounts, Supervisors, FailedClean
    <3>2. Uncancelled
      <4>1. CASE StartsNext \/ StartBinds \/ RebindStarted \/ \E c \in Contract : Rebind(c)
        BY <1>1, <4>1
        DEF StartsNext, StartBinds, RebindStarted, Rebind, NewSupervisor, Uncancelled, KTypeOK,
            Rebinds
      <4>2. CASE Restarter
        BY <1>1, <4>2, RestartersRestart DEF Uncancelled
      <4>3. CASE Stopper
        <5>1. (\E r \in Sup : StopCalled(r)) \/ UNCHANGED vars
          <6>1. CASE RebindStopsOld
            BY <1>1, <6>1 DEF RebindStopsOld, Rebinds
          <6>2. CASE StopsNext
            <7>1. sups[kidx] \in Sup
              BY <6>2 DEF StopsNext, KInv, Stops, KTypeOK
            <7>2. QED
              BY <6>2, <7>1 DEF StopsNext
          <6>3. QED
            BY <4>3, <6>1, <6>2 DEF Stopper
        <5>2. QED
          BY <5>1 DEF Uncancelled
      <4>4. CASE Onlooker
        BY <1>3, <4>4
        DEF Onlooker, KernelReady, RebindSwaps, RebindSwapRefused, RebindRaises, StopIgnored,
            KernelStop, StopsOne, StopUnbinds, KernelStopped, KernelFinished, kvars, Uncancelled
      <4>5. QED
        BY <1>3, <4>1, <4>2, <4>3, <4>4, KernelActions
    <3>3. QED
      BY <1>1, <3>1, <3>2, FailedCleanKept
  <2>3. ASSUME contract[s] = None PROVE Accounted(s)'
    <3>1. CASE StartsNext
      <4>1. kpc' = "starting" /\ \E r \in Sup : NewSupervisor(r, order[kidx + 1]) /\ kcur' = r
        BY <3>1 DEF StartsNext
      <4>2. kcur' = s
        BY <1>1, <2>3, <4>1 DEF NewSupervisor, KTypeOK
      <4>3. QED
        BY <4>1, <4>2 DEF Accounted
    <3>2. ASSUME NEW c \in Contract, Rebind(c) PROVE Accounted(s)'
      <4>1. rpc' = "starting" /\ \E r \in Sup : NewSupervisor(r, c) /\ rnew' = r
        BY <3>2 DEF Rebind
      <4>2. rnew' = s
        BY <1>1, <2>3, <4>1 DEF NewSupervisor, KTypeOK
      <4>3. QED
        BY <4>1, <4>2 DEF Accounted, RebindUnderWay, RebindOver
    <3>3. CASE contract' = contract
      BY <2>3, <3>3
    <3>4. QED
      BY <3>1, <3>2, <3>3, KernelActions
      DEF Onlooker, KernelStart, StartRaises, StartInterrupted, KernelReady, RebindSwaps,
          RebindSwapRefused, RebindRaises, StopIgnored, KernelStop, StopsOne, StopUnbinds,
          KernelStopped, KernelFinished, kvars, Background, kernelVars, Restarter, RestartBinds,
          RestartBindRefused, Stopper, RebindStopsOld, StopsNext, StartBinds, StartBindRefused,
          RebindStarted
  <2>4. ASSUME Accounted(s) PROVE Accounted(s)'
    <3>1. CASE pc[s]["start"] = "failed" \/ stopPc[s] = "done"
      BY <3>1, EndsStay DEF Accounted
    <3>2. CASE Listed(s)
      <4>1. CASE RebindSwaps \/ RebindSwapRefused
        <5>1. TwinListed /\ rnew \in Sup /\ stopPc[rold] = "done"
          BY <1>1, <4>1 DEF RebindSwaps, RebindSwapRefused, Rebinds
        <5>2. PICK i \in 1..Len(sups) : sups[i] = s
          BY <3>2 DEF Listed
        <5>3. /\ Len(sups') = Len(sups)
              /\ \A j \in 1..Len(sups) : sups[j] # rold => sups'[j] = sups[j]
          BY <1>1, <5>1, TwinListedIs DEF KTypeOK
        <5>4. CASE s = rold
          BY <5>1, <5>4, EndsStay DEF Accounted
        <5>5. CASE s # rold
          BY <5>2, <5>3, <5>5 DEF Accounted, Listed
        <5>6. QED
          BY <5>4, <5>5
      <4>2. CASE StartBinds
        <5>1. kcur \in Sup /\ sups' = Append(sups, kcur)
          BY <1>1, <4>2 DEF StartBinds, KTypeOK
        <5>2. /\ Len(sups') = Len(sups) + 1
              /\ \A i \in 1..Len(sups) : sups'[i] = sups[i]
          BY <1>1, <5>1, Appended DEF KTypeOK
        <5>3. \A i \in 1..Len(sups) : i \in 1..Len(sups')
          BY <1>1, <5>2 DEF KTypeOK
        <5>4. QED
          BY <3>2, <5>2, <5>3 DEF Accounted, Listed
      <4>3. CASE sups' = sups
        BY <3>2, <4>3 DEF Accounted, Listed
      <4>4. QED
        BY <1>3, <4>1, <4>2, <4>3, KernelActions
        DEF Onlooker, KernelReady, RebindRaises, StopIgnored, KernelStop, StopsOne, StopUnbinds,
            KernelStopped, KernelFinished, kvars, Background, kernelVars, Restarter, RestartBinds,
            RestartBindRefused, Stopper, RebindStopsOld, StopsNext, RebindStarted, StartsNext, Rebind
    <3>3. CASE kpc = "starting" /\ s = kcur
      <4>1. s # None
        BY NoneAssumption
      <4>2. CASE StartBinds
        <5>1. sups' = Append(sups, s)
          BY <3>3, <4>2 DEF StartBinds
        <5>2. Len(sups') = Len(sups) + 1 /\ sups'[Len(sups) + 1] = s
          BY <1>1, <5>1, Appended DEF KTypeOK
        <5>3. Len(sups) + 1 \in 1..Len(sups')
          BY <1>1, <5>2 DEF KTypeOK
        <5>4. QED
          BY <5>2, <5>3 DEF Accounted, Listed
      <4>3. CASE kpc' = kpc /\ kcur' = kcur
        BY <3>3, <4>3 DEF Accounted
      <4>4. rpc = "idle"
        BY <1>1, <3>3 DEF Rebinds
      <4>5. QED
        BY <1>3, <3>3, <4>1, <4>2, <4>3, <4>4, KernelActions
        DEF Onlooker, KernelReady, RebindSwaps, RebindSwapRefused, RebindRaises, StopIgnored,
            KernelStop, StopsOne, StopUnbinds, KernelStopped, KernelFinished, kvars, Background,
            kernelVars, startVars, Restarter, RestartBinds, RestartBindRefused, Stopper,
            RebindStopsOld, StopsNext, RebindStarted, StartsNext, Rebind
    <3>4. CASE RebindUnderWay /\ s = rnew
      <4>1. CASE RebindSwaps \/ RebindSwapRefused
        <5>1. TwinListed /\ rnew \in Sup /\ Listed(rold)
          BY <1>1, <4>1 DEF RebindSwaps, RebindSwapRefused, Rebinds
        <5>2. PICK i \in 1..Len(sups) : sups[i] = rold
          BY <5>1 DEF Listed
        <5>3. Len(sups') = Len(sups) /\ sups'[i] = rnew
          BY <1>1, <5>1, <5>2, TwinListedIs DEF KTypeOK
        <5>4. QED
          BY <3>4, <5>2, <5>3 DEF Accounted, Listed
      <4>2. CASE RebindRaises
        <5>1. pc'[s]["start"] = "failed"
          BY <3>4, <4>2 DEF RebindRaises, vars, supVars
        <5>2. QED
          BY <5>1 DEF Accounted
      <4>3. CASE rnew' = rnew /\ (rpc' = rpc \/ rpc' \in {"swap", "stopOld"})
        BY <3>4, <4>3 DEF Accounted, RebindUnderWay, RebindOver
      <4>4. QED
        BY <1>3, <3>4, <4>1, <4>2, <4>3, KernelActions
        DEF Onlooker, KernelReady, StopIgnored, KernelStop, StopsOne, StopUnbinds, KernelStopped,
            KernelFinished, kvars, Background, kernelVars, rebindVars, Restarter, RestartBinds,
            RestartBindRefused, Stopper, RebindStopsOld, StopsNext, RebindStarted, StartsNext,
            StartBinds, Rebind, RebindUnderWay
    <3>5. QED
      BY <2>4, <3>1, <3>2, <3>3, <3>4 DEF Accounted
  <2>5. QED
    BY <1>1, <1>3, <2>1, <2>3, <2>4 DEF Accounts
<1>4. QED
  BY <1>2, <1>3, HealthyBefore

\* Whoever speaks for its contract now did so before.
LEMMA SpeaksBefore ==
  ASSUME KInv, [KernelNext]_kvars, NEW s \in Sup, contract[s] # None, Speaks(s)'
  PROVE  Speaks(s)
<1>1. KTypeOK
  BY DEF KInv
<1>2. refused \subseteq refused'
  BY KernelActions
  DEF Onlooker, Restarter, Stopper, KernelStart, KernelReady, StartRaises, StartInterrupted,
      RebindSwaps, RebindSwapRefused, RebindRaises, StopIgnored, KernelStop, StopsOne,
      StopUnbinds, KernelStopped, Background, KernelFinished, kvars, kernelVars, rebindVars,
      RestartBinds, RestartBindRefused, RebindStopsOld, StopsNext, StartsNext, Rebind,
      StartBinds, StartBindRefused, RebindStarted
<1>3. ASSUME NEW r \in Sup, contract[r] = contract[s]
      PROVE  contract'[r] = contract'[s]
  BY <1>3, ContractsStay
<1>4. \A r \in Sup : HasRestarted(r) => HasRestarted(r)'
  BY EndsStay
<1>5. ASSUME NEW r \in Sup, contract[r] = contract[s]
      PROVE  /\ r \notin refused
             /\ r # s => ~HasRestarted(r)
             /\ r < s => ~HasRestarted(s)
  <2>1. contract'[r] = contract'[s]
    BY <1>3, <1>5
  <2>2. /\ r \notin refused'
        /\ r # s => ~HasRestarted(r)'
        /\ r < s => ~HasRestarted(s)'
    BY <2>1 DEF Speaks
  <2>3. QED
    BY <1>2, <1>4, <2>2
<1>6. QED
  BY <1>5 DEF Speaks

\* A listed supervisor whose bindings a step does not touch.
LEMMA BindsFrame ==
  ASSUME KInv, [KernelNext]_kvars, kpc \in {"starting", "up"}, nstarts = 1,
         NEW i \in 1..Len(sups), NEW s \in Sup, s = sups[i], Speaks(s)',
         bound'[contract[s]] = bound[contract[s]],
         process'[s] = process[s]
  PROVE  bound'[contract'[s]] = process'[s]
<1>1. contract[s] # None /\ contract'[s] = contract[s]
  BY ListedAre
<1>2. Speaks(s)
  BY <1>1, SpeaksBefore
<1>3. bound[contract[s]] = process[s]
  BY <1>2 DEF KInv, Binds
<1>4. QED
  BY <1>1, <1>3

\* A stack has one brick to a contract.
LEMMA OneToAContract ==
  ASSUME KInv, nstarts = 1, NEW i \in 1..Len(sups), NEW j \in 1..Len(sups),
         contract[sups[i]] = contract[sups[j]]
  PROVE  i = j
<1>1. /\ order \in Stacks /\ Len(sups) <= Len(order) /\ contract[sups[i]] = order[i]
      /\ contract[sups[j]] = order[j]
  BY DEF KInv, KTypeOK, Starts
<1>2. Len(order) \in Nat /\ Len(sups) \in Nat
  BY <1>1, StacksAssumption DEF KInv, KTypeOK
<1>3. i \in 1..Len(order) /\ j \in 1..Len(order)
  BY <1>1, <1>2
<1>4. QED
  BY <1>1, <1>3, StacksAssumption

LEMMA BindsKept ==
  ASSUME KInv, [KernelNext]_kvars, KTypeOK', Supervisors', Starts'
  PROVE  Binds'
<1>1. Binds /\ Starts /\ Rebinds /\ KTypeOK /\ Supervisors /\ IInv /\ \A s \in Sup : Unrestarted(s)
  BY DEF KInv
<1>2. \A i \in 1..Len(sups) : /\ sups[i] \in Sup /\ pc[sups[i]]["start"] = "up"
                              /\ contract[sups[i]] \in Contract
                              /\ contract'[sups[i]] = contract[sups[i]]
  BY ListedAre
<1>3. CASE KernelStart
  <2>1. nstarts' = 1 => sups' = <<>>
    BY <1>1, <1>3 DEF KernelStart, Starts, KTypeOK
  <2>2. QED
    BY <2>1 DEF Binds
<1>4. CASE StopUnbinds \/ StartBindRefused \/ StartRaises \/ StartInterrupted \/ StopIgnored
  <2>1. kpc' \notin {"starting", "up"}
    BY <1>4 DEF StopUnbinds, StartBindRefused, StartRaises, StartInterrupted, StopIgnored
  <2>2. QED
    BY <2>1 DEF Binds
<1>5. CASE /\ ~KernelStart /\ ~StopUnbinds /\ ~StartBindRefused /\ ~StartRaises
           /\ ~StartInterrupted /\ ~StopIgnored
  <2> SUFFICES ASSUME nstarts' = 1, kpc' \in {"starting", "up"}, NEW i \in 1..Len(sups'),
                      NEW s \in Sup, s = sups'[i], Speaks(s)'
               PROVE  bound'[contract'[s]] = process'[s]
    <3>1. \A i \in 1..Len(sups') : sups'[i] \in Sup
      BY DEF KTypeOK
    <3>2. QED
      BY <3>1 DEF Binds, Speaks, HasRestarted
  <2>1. nstarts = 1 /\ kpc \in {"starting", "up"}
    BY <1>5, KernelActions
    DEF Onlooker, Restarter, Stopper, KernelReady, RebindSwaps, RebindSwapRefused, RebindRaises,
        KernelStop, StopsOne, KernelStopped, Background, KernelFinished,
        kvars, kernelVars, startVars, RestartBinds, RestartBindRefused, RebindStopsOld, StopsNext,
        StartsNext, Rebind, StartBinds, RebindStarted
  <2>2. CASE StartBinds
    <3>1. /\ kcur \in Sup /\ StartOk(kcur) /\ sups' = Append(sups, kcur) /\ contract' = contract
          /\ bound' = [bound EXCEPT ![contract[kcur]] = cur[kcur]["start"]]
          /\ contract[kcur] = order[kidx + 1] /\ kidx < Len(order) /\ Len(sups) = kidx
      BY <1>1, <2>1, <2>2 DEF StartBinds, Bind, Starts, KTypeOK
    <3>2. process'[kcur] = cur[kcur]["start"] /\ \A r \in Sup \ {kcur} : process'[r] = process[r]
      BY <1>1, <3>1, StartOkIs DEF GoesOn
    <3>3. /\ Len(sups') = Len(sups) + 1 /\ sups'[Len(sups) + 1] = kcur
          /\ \A j \in 1..Len(sups) : sups'[j] = sups[j]
      BY <1>1, <3>1, Appended DEF KTypeOK
    <3>4. Len(sups) \in Nat /\ Len(order) \in Nat
      BY <1>1, StacksAssumption DEF KTypeOK
    <3>5. CASE i = Len(sups) + 1
      <4>1. contract[kcur] \in Contract
        BY <1>1, <3>1, <3>4, OrderedContract DEF KTypeOK
      <4>2. bound'[contract[kcur]] = cur[kcur]["start"]
        BY <1>1, <3>1, <4>1 DEF KTypeOK
      <4>3. s = kcur
        BY <3>3, <3>5
      <4>4. QED
        BY <3>1, <3>2, <4>2, <4>3
    <3>6. CASE i \in 1..Len(sups)
      <4>1. contract[sups[i]] # contract[kcur]
        <5>1. contract[sups[i]] = order[i]
          BY <1>1, <2>1, <3>6 DEF Starts
        <5>2. i \in 1..Len(order) /\ kidx + 1 \in 1..Len(order) /\ i # kidx + 1
          BY <1>1, <3>1, <3>4, <3>6 DEF KTypeOK
        <5>3. order \in Stacks
          BY <1>1 DEF KTypeOK
        <5>4. QED
          BY <3>1, <5>1, <5>2, <5>3, StacksAssumption
      <4>2. bound'[contract[sups[i]]] = bound[contract[sups[i]]]
        BY <1>1, <1>2, <3>1, <3>6, <4>1 DEF KTypeOK
      <4>3. s # kcur /\ s = sups[i]
        BY <3>3, <3>6, <4>1
      <4>4. process'[s] = process[s]
        BY <3>2, <4>3
      <4>5. QED
        BY <2>1, <3>6, <4>2, <4>3, <4>4, BindsFrame
    <3>7. QED
      BY <3>3, <3>4, <3>5, <3>6
  <2>3. CASE RebindSwaps \/ RebindSwapRefused
    <3>1. /\ rold \in Sup /\ rnew \in Sup /\ rold < rnew /\ contract[rnew] = contract[rold]
          /\ ~HasRestarted(rnew) => rhandle = process[rnew]
          /\ Listed(rold)
      BY <1>1, <2>3 DEF RebindSwaps, RebindSwapRefused, Rebinds, RebindUnderWay, RebindOver
    <3>2. TwinListed /\ UNCHANGED vars /\ contract' = contract
      BY <2>3 DEF RebindSwaps, RebindSwapRefused
    <3>3. process' = process /\ recent' = recent /\ expired' = expired
      BY <3>2 DEF vars, supVars
    <3>4. /\ Len(sups') = Len(sups)
          /\ \A j \in 1..Len(sups) : sups[j] = rold => sups'[j] = rnew
          /\ \A j \in 1..Len(sups) : sups[j] # rold => sups'[j] = sups[j]
      BY <1>1, <3>1, <3>2, TwinListedIs DEF KTypeOK
    <3>5. CASE sups[i] = rold
      <4>1. s = rnew
        BY <3>4, <3>5
      <4>2. contract'[rnew] = contract'[rold]
        BY <3>1, <3>2
      <4>3. s \notin refused' /\ ~HasRestarted(s)'
        <5>1. s \notin refused'
          BY DEF Speaks
        <5>2. PICK r \in Sup : r < s /\ contract'[r] = contract'[s]
          BY <3>1, <4>1, <4>2
        <5>3. QED
          BY <5>1, <5>2 DEF Speaks
      <4>4. ~HasRestarted(s)
        BY <3>3, <4>3 DEF HasRestarted
      <4>5. ~RebindSwapRefused
        BY <4>1, <4>3 DEF RebindSwapRefused
      <4>6. bound' = [bound EXCEPT ![contract[rnew]] = rhandle]
        BY <2>3, <4>5 DEF RebindSwaps, Bind
      <4>7. contract[rnew] \in Contract
        BY <1>2, <3>1, <3>4, <3>5
      <4>8. bound'[contract[rnew]] = rhandle
        BY <1>1, <4>6, <4>7 DEF KTypeOK
      <4>9. QED
        BY <3>1, <3>2, <3>3, <4>1, <4>4, <4>8
    <3>6. CASE sups[i] # rold
      <4>1. i \in 1..Len(sups) /\ s = sups[i]
        BY <3>4, <3>6
      <4>2. PICK j \in 1..Len(sups) : sups[j] = rold
        BY <3>1 DEF Listed
      <4>3. contract[sups[i]] # contract[rnew]
        BY <2>1, <3>1, <3>6, <4>1, <4>2, OneToAContract
      <4>4. bound'[contract[sups[i]]] = bound[contract[sups[i]]]
        <5>1. bound' = bound \/ bound' = [bound EXCEPT ![contract[rnew]] = rhandle]
          BY <2>3 DEF RebindSwaps, RebindSwapRefused, Bind
        <5>2. contract[sups[i]] \in Contract
          BY <1>2, <4>1
        <5>3. QED
          BY <1>1, <4>3, <5>1, <5>2 DEF KTypeOK
      <4>5. process'[s] = process[s]
        BY <3>3
      <4>6. QED
        BY <2>1, <4>1, <4>4, <4>5, BindsFrame
    <3>7. QED
      BY <3>5, <3>6
  <2>4. CASE Restarter
    <3>1. PICK r \in Sup : RestartOk(r) /\ Unrestarted(r) /\ (RestartBinds(r) \/ RestartBindRefused(r))
      BY <2>4, RestartersRestart
    <3>2. /\ HasRestarted(r) /\ HasRestarted(r)'
          /\ process'[r] = cur[r]["crash"] /\ \A q \in Sup \ {r} : process'[q] = process[q]
      BY <1>1, <3>1, RestartOkIs DEF GoesOn
    <3>3. sups' = sups /\ contract' = contract
      BY <3>1 DEF RestartBinds, RestartBindRefused
    <3>4. i \in 1..Len(sups) /\ s = sups[i]
      BY <3>3
    <3>5. CASE s = r
      <4>1. s \notin refused'
        BY DEF Speaks
      <4>2. bound' = [bound EXCEPT ![contract[s]] = cur[s]["crash"]]
        BY <3>1, <3>5, <4>1 DEF RestartBinds, RestartBindRefused, Bind
      <4>3. bound'[contract[s]] = cur[s]["crash"]
        BY <1>1, <1>2, <3>4, <4>2 DEF KTypeOK
      <4>4. QED
        BY <3>2, <3>3, <3>5, <4>3
    <3>6. CASE s # r
      <4>1. contract'[r] # contract'[s]
        BY <3>2, <3>6 DEF Speaks
      <4>2. bound' = bound \/ bound' = [bound EXCEPT ![contract[r]] = cur[r]["crash"]]
        BY <3>1 DEF RestartBinds, RestartBindRefused, Bind
      <4>3. bound'[contract[s]] = bound[contract[s]]
        BY <1>1, <1>2, <3>3, <3>4, <4>1, <4>2 DEF KTypeOK
      <4>4. process'[s] = process[s]
        BY <3>2, <3>6
      <4>5. QED
        BY <2>1, <3>4, <4>3, <4>4, BindsFrame
    <3>7. QED
      BY <3>5, <3>6
  <2>5. CASE ~StartBinds /\ ~RebindSwaps /\ ~RebindSwapRefused /\ ~Restarter
    <3>1. sups' = sups /\ bound' = bound
      BY <1>5, <2>5, KernelActions
      DEF Onlooker, Stopper, KernelReady, RebindRaises, KernelStop, StopsOne, KernelStopped,
          Background, KernelFinished, kvars, kernelVars, RebindStopsOld, StopsNext,
          StartsNext, Rebind, RebindStarted
    <3>2. i \in 1..Len(sups) /\ s = sups[i]
      BY <3>1
    <3>3. process'[s] = process[s]
      <4>1. pc[s]["start"] = "up"
        BY <1>2, <3>2
      <4>2. CASE Onlooker
        BY <4>1, <4>2, OnlookersGoOn DEF GoesOn
      <4>3. CASE Stopper
        <5>1. (\A r \in Sup : GoesOn(r)) \/ \E r \in Sup : StopCalled(r)
          BY <4>3, StoppersStop
        <5>2. QED
          BY <1>1, <4>1, <5>1, StopCalledIs DEF GoesOn
      <4>4. CASE StartsNext \/ \E c \in Contract : Rebind(c)
        <5>1. PICK r \in Sup : Start(r)
          BY <4>4 DEF StartsNext, Rebind, NewSupervisor
        <5>2. QED
          BY <1>1, <4>1, <5>1, StartIs DEF GoesOn
      <4>5. CASE RebindStarted
        <5>1. rnew \in Sup /\ StartOk(rnew)
          BY <1>1, <4>5 DEF RebindStarted, Rebinds
        <5>2. QED
          BY <1>1, <4>1, <5>1, StartOkIs DEF GoesOn
      <4>6. QED
        BY <1>5, <2>5, <4>2, <4>3, <4>4, <4>5, KernelActions
    <3>4. QED
      BY <2>1, <3>1, <3>2, <3>3, BindsFrame
  <2>6. QED
    BY <2>2, <2>3, <2>4, <2>5
<1>6. QED
  BY <1>3, <1>4, <1>5

-----------------------------------------------------------------------------
(* After stop(): who can still bind *)

\* A supervisor that slipped past its owner is never settled again.
LEMMA SlippedStays ==
  ASSUME KInv, Onlooker \/ Restarter, NEW s \in Sup, SlippedPast(s)
  PROVE  SlippedPast(s)'
<1>1. CASE Onlooker
  <2>1. GoesOn(s)
    BY <1>1, OnlookersGoOn
  <2>2. QED
    BY <2>1 DEF SlippedPast, GoesOn, StartGoesOn, StopGoesOn
<1>2. CASE Restarter
  <2>1. PICK r \in Sup : RestartOk(r) /\ Unrestarted(r)
    BY <1>2, RestartersRestart
  <2>2. CASE r = s
    <3>1. /\ StartGoesOn(s) /\ stopPc' = stopPc /\ stopProc' = stopProc /\ HasRestarted(s)'
          /\ stopPc[s] = "done" => process'[s] # stopProc[s]
      BY <2>1, <2>2, RestartOkIs DEF KInv
    <3>2. QED
      BY <3>1 DEF SlippedPast, StartGoesOn
  <2>3. CASE r # s
    <3>1. GoesOn(s)
      BY <2>1, <2>3, RestartOkIs DEF KInv
    <3>2. QED
      BY <3>1 DEF SlippedPast, GoesOn, StartGoesOn, StopGoesOn
  <2>4. QED
    BY <2>2, <2>3
<1>3. QED
  BY <1>1, <1>2

\* A restart that ends after stop() has slipped past it, whoever it was of: a
\* listed supervisor was stopped, a failed one has restarted.
LEMMA LateRestartSlips ==
  ASSUME KInv, Restarter, Healthy, kpc \in {"draining", "stopped"}, ~overlap
  PROVE  \E s \in Sup : /\ RestartBinds(s) \/ RestartBindRefused(s)
                        /\ contract[s] # None /\ SlippedPast(s)'
<1>1. /\ IInv /\ Stops /\ Accounts /\ Supervisors /\ KTypeOK
  BY DEF KInv
<1>2. PICK s \in Sup : RestartOk(s) /\ Unrestarted(s) /\ (RestartBinds(s) \/ RestartBindRefused(s))
  BY RestartersRestart
<1>3. /\ pc[s]["start"] # "idle" /\ StartGoesOn(s)
      /\ stopPc' = stopPc /\ stopProc' = stopProc
      /\ HasRestarted(s)'
      /\ stopPc[s] = "done" => process'[s] # stopProc[s]
  BY <1>1, <1>2, RestartOkIs
<1>4. contract[s] # None
  BY <1>1, <1>3 DEF Supervisors
<1>5. Accounted(s)
  BY <1>1, <1>4 DEF Accounts
<1>6. Listed(s) => stopPc[s] = "done"
  BY <1>1 DEF Stops, Healthy, Listed
<1>7. ~RebindUnderWay
  BY <1>1 DEF Stops
<1>8. pc[s]["start"] = "failed" \/ stopPc[s] = "done"
  BY <1>5, <1>6, <1>7 DEF Accounted
<1>9. SlippedPast(s)'
  BY <1>3, <1>8 DEF SlippedPast, StartGoesOn
<1>10. QED
  BY <1>2, <1>4, <1>9

LEMMA UnbindsKept ==
  ASSUME KInv, [KernelNext]_kvars, KTypeOK'
  PROVE  Unbinds'
<1>1. Unbinds /\ Stops /\ KTypeOK /\ Rebinds
  BY DEF KInv
<1> SUFFICES ASSUME Healthy', kpc' \in {"draining", "stopped"}, ~overlap',
                    NEW c \in Contract, bound'[c] # None
             PROVE  \E s \in Sup : contract'[s] # None /\ SlippedPast(s)'
  BY DEF Unbinds
<1>2. Healthy /\ ~KernelStart /\ ~StartRaises /\ ~StartInterrupted /\ ~StartBindRefused
  <2>1. ~(kpc = "down" /\ KernelStart)
    BY DEF KernelStart
  <2>2. QED
    BY <2>1, HealthyBefore
<1>3. ~StopUnbinds
  BY DEF StopUnbinds
<1>4. kpc \in {"draining", "stopped"} /\ ~overlap
  <2>1. kpc # "failed"
    BY <1>2 DEF Healthy
  <2>2. CASE UNCHANGED <<kpc, overlap>>
    BY <2>2
  <2>3. CASE Onlooker
    BY <1>2, <1>3, <2>1, <2>3
    DEF Onlooker, KernelReady, RebindSwaps, RebindSwapRefused, RebindRaises, StopIgnored,
        KernelStop, StopsOne, KernelStopped, Background, KernelFinished, kvars, kernelVars,
        startVars
  <2>4. CASE ~Onlooker
    <3>1. UNCHANGED <<kpc, overlap>>
      BY <1>2, <2>4, KernelActions
      DEF Restarter, Stopper, startVars, RestartBinds, RestartBindRefused, RebindStopsOld,
          StopsNext, StartsNext, Rebind, StartBinds, RebindStarted
    <3>2. QED
      BY <2>2, <3>1
  <2>5. QED
    BY <2>3, <2>4
<1>5. rpc \notin {"starting", "swap", "stopOld"}
  BY <1>1, <1>4 DEF Stops, RebindUnderWay, RebindOver
<1>6. /\ ~RebindSwaps /\ ~RebindSwapRefused /\ ~RebindRaises /\ ~RebindStopsOld /\ ~StopsNext
      /\ ~StartsNext /\ ~StartBinds /\ ~RebindStarted /\ ~\E x \in Contract : Rebind(x)
  BY <1>4, <1>5
  DEF RebindSwaps, RebindSwapRefused, RebindRaises, RebindStopsOld, StopsNext, StartsNext,
      StartBinds, RebindStarted, Rebind
<1>7. Onlooker \/ Restarter
  BY <1>2, <1>6, KernelActions DEF Stopper
<1>8. \A r \in Sup : contract[r] # None => contract'[r] # None
  BY ContractsStay
<1>9. CASE Restarter
  <2>1. \E s \in Sup : contract[s] # None /\ SlippedPast(s)'
    BY <1>2, <1>4, <1>9, LateRestartSlips
  <2>2. QED
    BY <1>8, <2>1
<1>10. CASE Onlooker
  <2>1. bound' = bound
    BY <1>3, <1>6, <1>10
    DEF Onlooker, KernelStart, StartRaises, StartInterrupted, KernelReady, StopIgnored,
        KernelStop, StopsOne, KernelStopped, Background, KernelFinished, kvars, kernelVars
  <2>2. PICK s \in Sup : contract[s] # None /\ SlippedPast(s)
    BY <1>1, <1>2, <1>4, <2>1 DEF Unbinds
  <2>3. SlippedPast(s)'
    BY <1>10, <2>2, SlippedStays
  <2>4. QED
    BY <1>8, <2>2, <2>3
<1>11. QED
  BY <1>7, <1>9, <1>10

-----------------------------------------------------------------------------
(* The invariant, and what it says *)

LEMMA KInvKept == KInv /\ [KernelNext]_kvars => KInv'
<1> SUFFICES ASSUME KInv, [KernelNext]_kvars PROVE KInv'
  OBVIOUS
<1>1. [Next]_vars /\ IInv
  BY KernelStepsRefine DEF KInv
<1>2. IInv'
  BY <1>1, NextKeepsIInv
<1>3. \A s \in Sup : Unrestarted(s)'
  BY <1>1, UnrestartedKept DEF KInv
<1>4. KTypeOK'
  BY KernelTypesKept
<1>5. Supervisors'
  BY <1>4, SupervisorsKept
<1>6. Starts'
  BY <1>4, <1>5, StartsKept
<1>7. Rebinds' /\ Stops' /\ Accounts'
  BY <1>4, <1>5, RebindsKept, StopsKept, AccountsKept
<1>8. Binds' /\ Unbinds'
  BY <1>4, <1>5, <1>6, BindsKept, UnbindsKept
<1>9. QED
  BY <1>2, <1>3, <1>4, <1>5, <1>6, <1>7, <1>8 DEF KInv

\* The invariant of the kernel (src/veridian/kernel/runtime.py) holds in every
\* state its start(), rebind() and stop() and its bricks can reach.
THEOREM KernelInvariant == KernelSpec => []KInv
<1>1. QED
  BY KInvInit, KInvKept, PTL DEF KernelSpec

\* The kernel drives its supervisors only as a supervisor may be driven: what is
\* proved of supervisors and their processes holds of those of a kernel, whatever
\* start(), rebind() and stop() do with them.
THEOREM KernelImplementsSupervisors == KernelSpec => Spec
<1>1. KernelInit => Init
  BY DEF KernelInit
<1>2. KInv /\ [KernelNext]_kvars => [Next]_vars
  BY KernelStepsRefine
<1>3. QED
  BY <1>1, <1>2, KernelInvariant, PTL DEF KernelSpec, Spec

-----------------------------------------------------------------------------
(* The properties of the kernel *)

\* While a kernel that was started once is up, every listed supervisor that alone
\* speaks for its contract is the one that calls are routed to: registry.bind of
\* start() and rebind() and the restarts' on_rebind never leave a stale handle.
THEOREM BindingsCurrent == KernelSpec => []BoundIsCurrent
<1>1. KInv => BoundIsCurrent
  BY DEF KInv, Binds, BoundIsCurrent
<1>2. QED
  BY <1>1, KernelInvariant, PTL

\* stop() works backwards through the list, and awaits each stop before the next.
THEOREM StopsBackwards == KernelSpec => []StopsInReverse
<1>1. KInv => StopsInReverse
  <2> SUFFICES ASSUME KInv, kpc = "stopping", ~overlap,
                      NEW i \in 1..Len(sups), NEW j \in 1..Len(sups),
                      i < j, stopPc[sups[i]] # "idle"
               PROVE  stopPc[sups[j]] = "done"
    BY DEF StopsInReverse
  <2>1. kidx \in Nat /\ Len(sups) \in Nat
    BY DEF KInv, KTypeOK
  <2>2. j > kidx
    BY <2>1 DEF KInv, Stops
  <2>3. QED
    BY <2>2 DEF KInv, Stops
<1>2. QED
  BY <1>1, KernelInvariant, PTL

\* Nothing of a settled supervisor runs: stop() found all of it, or its start()
\* failed and left nothing.
LEMMA SettledIsQuiet ==
  ASSUME KInv, Healthy, NEW s \in Sup, contract[s] # None, Settled(s)
  PROVE  Running(s) = {}
<1>1. IInv /\ FailedClean(s)
  BY DEF KInv, Accounts
<1>2. CASE pc[s]["start"] = "failed"
  BY <1>1, <1>2 DEF Settled, FailedClean, Running
<1>3. CASE pc[s]["start"] # "failed"
  BY <1>1, <1>3, StoppedIsAll DEF Settled, StopLeavesNothing
<1>4. QED
  BY <1>2, <1>3

\* No restart slipped past the owner of a settled supervisor.
LEMMA SettledIsInTime ==
  ASSUME KInv, NEW s \in Sup, Settled(s)
  PROVE  ~SlippedPast(s)
BY DEF KInv, IInv, SInv, Stopping, Settled, SlippedPast

\* stop() of a kernel that came up at once and that no rebind overlaps reaches
\* every listed brick, and, restarts past their backoff aside, nothing any of its
\* supervisors ever started is running and nothing is bound when it has returned.
THEOREM StopComplete == KernelSpec => []StopReachesAll
<1>1. KInv => StopReachesAll
  <2> SUFFICES ASSUME KInv, kpc = "stopped", nstarts = 1, Len(sups) = Len(order), ~overlap
               PROVE  /\ \A i \in 1..Len(sups) : stopPc[sups[i]] = "done"
                      /\ (\A s \in Sup : contract[s] # None => Settled(s)) =>
                           /\ \A c \in Contract : bound[c] = None
                           /\ \A p \in Proc : os[p] # "running"
    BY DEF StopReachesAll
  <2>1. Healthy
    BY DEF Healthy
  <2>2. \A i \in 1..Len(sups) : stopPc[sups[i]] = "done"
    BY DEF KInv, Stops
  <2>3. ASSUME \A s \in Sup : contract[s] # None => Settled(s),
               NEW c \in Contract
        PROVE  bound[c] = None
    BY <2>1, <2>3, SettledIsInTime DEF KInv, Unbinds
  <2>4. ASSUME \A s \in Sup : contract[s] # None => Settled(s),
               NEW p \in Proc, os[p] = "running"
        PROVE  FALSE
    <3>1. owner[p] \in Sup
      BY <2>4 DEF KInv, IInv, Born, SupTypeOK
    <3>2. contract[owner[p]] # None
      BY <3>1 DEF KInv, Supervisors, IInv, SInv, StartsAlone
    <3>3. Running(owner[p]) = {}
      BY <2>1, <2>4, <3>1, <3>2, SettledIsQuiet
    <3>4. QED
      BY <2>4, <3>3 DEF Running
  <2>5. QED
    BY <2>2, <2>3, <2>4
<1>2. QED
  BY <1>1, KernelInvariant, PTL

\* While its twin comes up, and when the twin does not, rebind() leaves the old
\* brick listed, not stopped and bound.
THEOREM RebindIsSafe == KernelSpec => []RebindKeepsOld
<1>1. KInv => RebindKeepsOld
  <2> SUFFICES ASSUME KInv, kpc = "up", rpc \in {"starting", "raised"}
               PROVE  /\ Listed(rold) /\ stopPc[rold] = "idle"
                      /\ nstarts = 1 /\ Speaks(rold) => bound[contract[rold]] = process[rold]
    BY DEF RebindKeepsOld
  <2>1. Listed(rold)
    BY DEF KInv, Rebinds
  <2>2. PICK i \in 1..Len(sups) : sups[i] = rold
    BY <2>1 DEF Listed
  <2>3. stopPc[rold] = "idle"
    BY <2>2 DEF KInv, Stops
  <2>4. nstarts = 1 /\ Speaks(rold) => bound[contract[rold]] = process[rold]
    BY <2>2 DEF KInv, Binds
  <2>5. QED
    BY <2>1, <2>3, <2>4
<1>2. QED
  BY <1>1, KernelInvariant, PTL

\* Whatever rebind() replaced, or brought up in vain, is stopped or gone: between
\* rebinds the bricks that run are the listed ones, restarts past their backoff
\* aside.
THEOREM RebindIsTidy == KernelSpec => []RebindLeavesOne
<1>1. KInv => RebindLeavesOne
  <2> SUFFICES ASSUME KInv, kpc = "up", nstarts = 1,
                      NEW s \in Sup, contract[s] # None, ~Listed(s),
                      s = rnew => rpc \in RebindOver
               PROVE  /\ pc[s]["start"] = "failed" \/ stopPc[s] = "done"
                      /\ Settled(s) => Running(s) = {}
    BY DEF RebindLeavesOne
  <2>1. Healthy
    BY DEF Healthy
  <2>2. Accounted(s)
    BY <2>1 DEF KInv, Accounts
  <2>3. pc[s]["start"] = "failed" \/ stopPc[s] = "done"
    BY <2>2 DEF Accounted, RebindUnderWay
  <2>4. QED
    BY <2>1, <2>3, SettledIsQuiet
<1>2. QED
  BY <1>1, KernelInvariant, PTL

=============================================================================
