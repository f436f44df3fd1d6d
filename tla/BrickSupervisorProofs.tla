------------------------ MODULE BrickSupervisorProofs ------------------------
(***************************************************************************)
(* Safety of BrickProcess for any number of processes, whose exit watcher  *)
(* and stop() share one teardown without a race, and of BrickSupervisor    *)
(* for any supervisors, processes and budget.                              *)
(*                                                                         *)
(* The argument for the supervisors is that of a token.  A supervisor that *)
(* was started has one token: a process that is starting or whose exit     *)
(* nobody has been told of, or a crash handler that is queued or in its    *)
(* backoff.  It moves from the process to the handler when the exit        *)
(* watcher returns and back when the handler spawns, and it may be lost;   *)
(* it is never doubled.                                                    *)
(***************************************************************************)
EXTENDS BrickSupervisor, TLAPS

(* BrickProcess ***********************************************************)

\* A process is watched from its birth on, and its watcher moves only once the
\* process has been reaped.
Watched(p) ==
  /\ (watch[p] = "none") <=> (os[p] \in {"unborn", "starting", "failed"})
  /\ watch[p] \notin {"none", "waiting"} => os[p] = "reaped"

\* stop() moves past the exit only once the process has been reaped and the
\* endpoint closed.
Stopped(p) ==
  /\ (pstop[p] # "idle") => os[p] \in {"running", "dead", "reaped"}
  /\ pstop[p] \in {"teardown", "removing", "joining", "done"} =>
       os[p] = "reaped" /\ link[p] = "down"

\* Networks appear with pre_run and go after the exit; whoever is past the
\* teardown has seen them gone.
Torn(p) ==
  /\ os[p] = "unborn" => net[p] = "none"
  /\ net[p] \in {"removing", "gone"} => os[p] \in {"reaped", "failed"}
  /\ (watch[p] \in {"notify", "done"} \/ pstop[p] \in {"joining", "done"}) =>
       net[p] \in {"none", "gone"}

Locked(p) ==
  /\ (watch[p] = "removing") <=> (lock[p] = "watcher")
  /\ (pstop[p] = "removing") <=> (lock[p] = "stopper")
  /\ (net[p] = "removing") <=> (lock[p] # "free")

Joined(p) == pstop[p] = "done" => watch[p] = "done"

PInv(p) == Watched(p) /\ Stopped(p) /\ Torn(p) /\ Locked(p) /\ Joined(p)

\* The inductive invariant.
ProcInv == ProcTypeOK /\ \A p \in Proc : PInv(p)

\* A step that touches process p alone.
OnlyAt(p) ==
  \A q \in Proc \ {p} :
    /\ os'[q] = os[q] /\ link'[q] = link[q] /\ net'[q] = net[q]
    /\ watch'[q] = watch[q] /\ pstop'[q] = pstop[q] /\ lock'[q] = lock[q]

-----------------------------------------------------------------------------
\* The invariant holds at first.
LEMMA ProcInvInit == ProcInit => ProcInv
BY NetworksAssumption
DEF ProcInit, ProcInv, ProcTypeOK, PInv, Watched, Stopped, Torn, Locked, Joined,
    OsState, NetState, WatchState, StopState

\* The invariant survives a step that touches p alone and is good at p.
LEMMA AtOneProcess ==
  ASSUME ProcInv, ProcTypeOK', NEW p \in Proc, OnlyAt(p), PInv(p)'
  PROVE  ProcInv'
<1>1. ASSUME NEW q \in Proc, q # p PROVE PInv(q)'
  BY <1>1 DEF ProcInv, OnlyAt, PInv, Watched, Stopped, Torn, Locked, Joined
<1>2. QED
  BY <1>1 DEF ProcInv

\* start(): every way it can go.
LEMMA StartsKeepInv ==
  ASSUME ProcInv, NEW p \in Proc, ProcStarts(p)
  PROVE  ProcInv'
<1> USE DEF ProcInv, PInv, Watched, Stopped, Torn, Locked, Joined, ProcTypeOK,
            OsState, NetState, WatchState, StopState, OnlyAt
<1>1. ProcTypeOK' /\ OnlyAt(p) /\ PInv(p)'
  <2>1. CASE Prepare(p)
    BY <2>1, NetworksAssumption DEF Prepare
  <2>2. CASE Exec(p)
    BY <2>2 DEF Exec
  <2>3. CASE PreRunFails(p)
    BY <2>3 DEF PreRunFails
  <2>4. CASE ExecFails(p)
    BY <2>4 DEF ExecFails
  <2> QED
    BY <2>1, <2>2, <2>3, <2>4 DEF ProcStarts
<1>2. QED
  BY <1>1, AtOneProcess

\* The process, its pipe, its watcher's teardown and the rest of stop().
LEMMA RunsKeepInv ==
  ASSUME ProcInv, NEW p \in Proc, ProcRuns(p)
  PROVE  ProcInv'
<1> USE DEF ProcInv, PInv, Watched, Stopped, Torn, Locked, Joined, ProcTypeOK,
            OsState, NetState, WatchState, StopState, OnlyAt
<1>1. ProcTypeOK' /\ OnlyAt(p) /\ PInv(p)'
  <2>1. CASE Exit(p)
    BY <2>1 DEF Exit
  <2>2. CASE Reap(p)
    BY <2>2 DEF Reap
  <2>3. CASE PipeEof(p)
    BY <2>3 DEF PipeEof
  <2>4. CASE Quarantine(p)
    BY <2>4 DEF Quarantine
  <2>5. CASE WatchWakes(p)
    BY <2>5 DEF WatchWakes
  <2>6. CASE WatchTeardown(p)
    BY <2>6 DEF WatchTeardown
  <2>7. CASE WatchTeardownEnds(p)
    BY <2>7 DEF WatchTeardownEnds
  <2>8. CASE KillAfterTimeout(p)
    BY <2>8 DEF KillAfterTimeout
  <2>9. CASE StopSeesExit(p)
    BY <2>9 DEF StopSeesExit
  <2>10. CASE StopTeardown(p)
    BY <2>10 DEF StopTeardown
  <2>11. CASE StopTeardownEnds(p)
    BY <2>11 DEF StopTeardownEnds
  <2>12. CASE StopReturns(p)
    BY <2>12 DEF StopReturns
  <2> QED
    BY <2>1, <2>2, <2>3, <2>4, <2>5, <2>6, <2>7, <2>8, <2>9, <2>10, <2>11, <2>12 DEF ProcRuns
<1>2. QED
  BY <1>1, AtOneProcess

\* The end of the watcher and the beginning of stop().
LEMMA CallsKeepInv ==
  ASSUME ProcInv, NEW p \in Proc, WatchReturns(p) \/ BeginStop(p)
  PROVE  ProcInv'
<1> USE DEF ProcInv, PInv, Watched, Stopped, Torn, Locked, Joined, ProcTypeOK,
            OsState, NetState, WatchState, StopState, OnlyAt
<1>1. ProcTypeOK' /\ OnlyAt(p) /\ PInv(p)'
  <2>1. CASE WatchReturns(p)
    BY <2>1 DEF WatchReturns
  <2>2. CASE BeginStop(p)
    BY <2>2 DEF BeginStop
  <2> QED
    BY <2>1, <2>2
<1>2. QED
  BY <1>1, AtOneProcess

\* A step of somebody else.
LEMMA StutterKeepsInv ==
  ASSUME ProcInv, UNCHANGED procVars
  PROVE  ProcInv'
BY DEF ProcInv, PInv, Watched, Stopped, Torn, Locked, Joined, ProcTypeOK, procVars

\* The invariant is inductive.
LEMMA ProcNextKeepsInv == ProcInv /\ [ProcNext]_procVars => ProcInv'
<1> SUFFICES ASSUME ProcInv, [ProcNext]_procVars PROVE ProcInv'
  OBVIOUS
<1>1. CASE \E p \in Proc : ProcStarts(p)
  BY <1>1, StartsKeepInv
<1>2. CASE \E p \in Proc : ProcRuns(p)
  BY <1>2, RunsKeepInv
<1>3. CASE \E p \in Proc : WatchReturns(p) \/ BeginStop(p)
  BY <1>3, CallsKeepInv
<1>4. CASE AllStopped \/ UNCHANGED procVars
  BY <1>4, StutterKeepsInv DEF AllStopped
<1>5. QED
  BY <1>1, <1>2, <1>3, <1>4 DEF ProcNext

-----------------------------------------------------------------------------
\* The inductive invariant holds of every behaviour of BrickProcess.
THEOREM ProcInvariant == ProcSpec => []ProcInv
BY ProcInvInit, ProcNextKeepsInv, PTL DEF ProcSpec

\* Type correctness of BrickProcess, for any number of processes.
THEOREM ProcTypeCorrect == ProcSpec => []ProcTypeOK
<1>1. ProcInv => ProcTypeOK
  BY DEF ProcInv
<1>2. QED
  BY <1>1, ProcInvariant, PTL

\* Nothing is torn down under a process that may still run: post_run is reached
\* only by way of the exit, in _watch_exit as in stop().
THEOREM TeardownIsAfterExit == ProcSpec => []TeardownAfterExit
<1>1. ProcInv => TeardownAfterExit
  BY DEF ProcInv, PInv, Torn, TeardownAfterExit
<1>2. QED
  BY <1>1, ProcInvariant, PTL

\* _post_run_lock does its work: one teardown at a time, by its holder.
THEOREM TeardownIsExclusive == ProcSpec => []TeardownExclusive
<1>1. ProcInv => TeardownExclusive
  BY DEF ProcInv, PInv, Locked, TeardownExclusive
<1>2. QED
  BY <1>1, ProcInvariant, PTL

\* When stop() returns nothing of the process is left: neither the child nor
\* its endpoint, its networks or its watcher.
THEOREM StopIsClean == ProcSpec => []StopReturnsClean
<1>1. ProcInv => StopReturnsClean
  BY DEF ProcInv, PInv, Stopped, Torn, Joined, StopReturnsClean
<1>2. QED
  BY <1>1, ProcInvariant, PTL

(* BrickSupervisor ********************************************************)

Unnoticed(p) == watch[p] \in {"waiting", "teardown", "removing", "notify"}
Token(p) == os[p] = "starting" \/ Unnoticed(p)
CrashToken(s) == crashQ[s] > 0 \/ pc[s]["crash"] = "backoff"
BringingUp(s, t) == pc[s][t] \in {"spawn", "init", "abort"}

\* A process has an owner from its birth on.
Born == \A p \in Proc : owner[p] = None <=> os[p] = "unborn"

\* The processes that a supervisor holds are its own.
Holds(s) ==
  /\ \A t \in Task :
       /\ BringingUp(s, t) => cur[s][t] \in Proc /\ owner[cur[s][t]] = s
       /\ pc[s][t] = "spawn" => os[cur[s][t]] = "starting"
  /\ process[s] # None => owner[process[s]] = s
  /\ stopProc[s] # None => owner[stopProc[s]] = s

\* At most one token, wherever it is.
OneToken(s) ==
  /\ \A p, q \in Proc : Token(p) /\ Token(q) /\ owner[p] = s /\ owner[q] = s => p = q
  /\ crashQ[s] \in {0, 1}
  /\ crashQ[s] = 1 => pc[s]["crash"] # "backoff"
  /\ CrashToken(s) => \A p \in Proc : owner[p] = s => ~Token(p)

\* While start() has not got past its first spawn there is nothing to restart,
\* and until it is past its initialisation nothing but its own process.
StartsAlone(s) ==
  /\ pc[s]["start"] = "idle" => \A p \in Proc : owner[p] # s
  /\ pc[s]["start"] \in {"idle", "spawn"} => crashQ[s] = 0 /\ pc[s]["crash"] = "idle"
  /\ pc[s]["start"] \in {"spawn", "init"} =>
       /\ pc[s]["crash"] \in {"idle", "backoff"}
       /\ \A p \in Proc : owner[p] = s => p = cur[s]["start"]

\* A crash handler past its backoff brings up the one process that matters.
RestartsAlone(s) ==
  BringingUp(s, "crash") =>
    \A p \in Proc : owner[p] = s /\ Token(p) => p = cur[s]["crash"]

\* A running brick of a supervisor that came up is the one stop() would find,
\* or is being brought up.
Findable(s) ==
  pc[s]["start"] = "up" =>
    /\ process[s] \in Proc
    /\ \A p \in Proc : owner[p] = s /\ os[p] = "running" =>
         p = process[s] \/ (pc[s]["crash"] \in {"init", "abort"} /\ p = cur[s]["crash"])

\* stop() is called on a supervisor that came up, and waits for its process.
Stopping(s) ==
  /\ stopPc[s] # "idle" => pc[s]["start"] = "up"
  /\ stopPc[s] \in {"shutdown", "stopping"} => stopProc[s] \in Proc
  /\ stopPc[s] = "done" /\ stopProc[s] # None => pstop[stopProc[s]] = "done"

SInv(s) ==
  /\ Holds(s) /\ OneToken(s) /\ StartsAlone(s) /\ RestartsAlone(s)
  /\ Findable(s) /\ Stopping(s)

\* The inductive invariant.
IInv == ProcInv /\ SupTypeOK /\ Born /\ \A s \in Sup : SInv(s)

\* A step that touches supervisor s and its processes alone.
OnlySup(s) ==
  /\ \A r \in Sup \ {s} :
       /\ pc'[r] = pc[r] /\ cur'[r] = cur[r] /\ crashQ'[r] = crashQ[r]
       /\ process'[r] = process[r] /\ stopPc'[r] = stopPc[r] /\ stopProc'[r] = stopProc[r]
  /\ \A p \in Proc :
       \/ owner[p] \in {s, None} /\ owner'[p] \in {s, None}
       \/ /\ owner'[p] = owner[p] /\ os'[p] = os[p]
          /\ watch'[p] = watch[p] /\ pstop'[p] = pstop[p]

-----------------------------------------------------------------------------
\* The invariant survives a step that touches s alone and is good at s.
LEMMA AtOneSupervisor ==
  ASSUME IInv, NEW s \in Sup, OnlySup(s), ProcInv', SupTypeOK', Born', SInv(s)'
  PROVE  IInv'
<1>1. ASSUME NEW r \in Sup, r # s PROVE SInv(r)'
  <2>1. /\ pc'[r] = pc[r] /\ cur'[r] = cur[r] /\ crashQ'[r] = crashQ[r]
        /\ process'[r] = process[r] /\ stopPc'[r] = stopPc[r] /\ stopProc'[r] = stopProc[r]
    BY <1>1 DEF OnlySup
  <2>2. \A p \in Proc :
          /\ owner'[p] = r <=> owner[p] = r
          /\ owner[p] = r => os'[p] = os[p] /\ watch'[p] = watch[p] /\ pstop'[p] = pstop[p]
    BY <1>1, NoneAssumption DEF OnlySup
  <2>3. SInv(r) /\ process[r] \in Proc \cup {None} /\ stopProc[r] \in Proc \cup {None}
    BY <1>1 DEF IInv, SupTypeOK
  <2>4. Holds(r)'
    BY <2>1, <2>2, <2>3 DEF SInv, Holds, BringingUp
  <2>5. OneToken(r)'
    BY <2>1, <2>2, <2>3 DEF SInv, OneToken, CrashToken, Token, Unnoticed
  <2>6. StartsAlone(r)'
    BY <2>1, <2>2, <2>3 DEF SInv, StartsAlone
  <2>7. RestartsAlone(r)'
    BY <2>1, <2>2, <2>3 DEF SInv, RestartsAlone, BringingUp, Token, Unnoticed
  <2>8. Findable(r)'
    BY <2>1, <2>2, <2>3 DEF SInv, Findable
  <2>9. Stopping(r)'
    BY <2>1, <2>2, <2>3 DEF SInv, Stopping, Holds
  <2>10. QED
    BY <2>4, <2>5, <2>6, <2>7, <2>8, <2>9 DEF SInv
<1>2. QED
  BY <1>1 DEF IInv

\* A running process has its token.
LEMMA RunningHasToken ==
  ASSUME ProcInv, NEW p \in Proc, os[p] = "running"
  PROVE  Token(p)
BY DEF ProcInv, ProcTypeOK, WatchState, PInv, Watched, Token, Unnoticed

\* The first token of s: a process that is starting.
LEMMA StartKeeps ==
  ASSUME IInv, NEW s \in Sup, Start(s), ProcInv', SupTypeOK'
  PROVE  IInv'
<1>0. PICK b \in Proc : Prepare(b) /\ owner' = [owner EXCEPT ![b] = s]
         /\ cur' = [cur EXCEPT ![s]["start"] = b] /\ pc' = [pc EXCEPT ![s]["start"] = "spawn"]
  BY DEF Start, BeginSpawn
<1>1. /\ ProcInv /\ SInv(s) /\ Born
      /\ process[s] \in Proc \cup {None} /\ stopProc[s] \in Proc \cup {None}
  BY DEF IInv, SupTypeOK
<1>2. /\ pc[s]["start"] = "idle"
      /\ os[b] = "unborn"
  BY <1>0, <1>1 DEF Start, BeginSpawn, Prepare
<1>3. /\ pc'[s]["start"] = "spawn"
      /\ \A u \in Task \ {"start"} : pc'[s][u] = pc[s][u]
      /\ cur'[s]["start"] = b
      /\ \A u \in Task \ {"start"} : cur'[s][u] = cur[s][u]
      /\ os'[b] = "starting"
      /\ \A p \in Proc \ {b} : os'[p] = os[p]
      /\ owner'[b] = s
      /\ \A p \in Proc \ {b} : owner'[p] = owner[p]
      /\ crashQ'[s] = crashQ[s] /\ process'[s] = process[s] /\ stopPc'[s] = stopPc[s]
      /\ stopProc'[s] = stopProc[s]
      /\ watch' = watch /\ pstop' = pstop
  BY <1>0, <1>2, NoneAssumption
  DEF IInv, SupTypeOK, ProcInv, ProcTypeOK, Task, Start, BeginSpawn, Prepare
<1>4. OnlySup(s) /\ Born'
  BY <1>0, <1>1, <1>2, <1>3, NoneAssumption
  DEF OnlySup, Born, IInv, SupTypeOK, SInv, Holds, BringingUp, Start, BeginSpawn,
      Prepare
<1>5. Holds(s)'
  BY <1>1, <1>2, <1>3, NoneAssumption
  DEF SInv, Task, Holds, BringingUp, Born, StartsAlone
<1>6. OneToken(s)'
  BY <1>1, <1>2, <1>3, NoneAssumption
  DEF SInv, Task, OneToken, CrashToken, Token, Unnoticed, Born, StartsAlone
<1>7. StartsAlone(s)'
  BY <1>1, <1>2, <1>3, NoneAssumption DEF SInv, Task, StartsAlone
<1>8. RestartsAlone(s)'
  BY <1>1, <1>2, <1>3, NoneAssumption
  DEF SInv, Task, RestartsAlone, BringingUp, Token, Unnoticed, StartsAlone
<1>9. Findable(s)'
  BY <1>1, <1>2, <1>3, NoneAssumption DEF SInv, Task, Findable
<1>10. Stopping(s)'
  BY <1>1, <1>2, <1>3, NoneAssumption DEF SInv, Task, Stopping, Holds
<1>11. QED
  BY <1>4, <1>5, <1>6, <1>7, <1>8, <1>9, <1>10, AtOneSupervisor DEF SInv

\* The token passes from the handler in its backoff to a new process.
LEMMA RespawnKeeps ==
  ASSUME IInv, NEW s \in Sup, Respawn(s), ProcInv', SupTypeOK'
  PROVE  IInv'
<1>0. PICK b \in Proc : Prepare(b) /\ owner' = [owner EXCEPT ![b] = s]
         /\ cur' = [cur EXCEPT ![s]["crash"] = b] /\ pc' = [pc EXCEPT ![s]["crash"] = "spawn"]
  BY DEF Respawn, BeginSpawn
<1>1. /\ ProcInv /\ SInv(s) /\ Born
      /\ process[s] \in Proc \cup {None} /\ stopProc[s] \in Proc \cup {None}
  BY DEF IInv, SupTypeOK
<1>2. /\ pc[s]["crash"] = "backoff"
      /\ pc[s]["start"] # "init"
      /\ os[b] = "unborn"
  BY <1>0, <1>1 DEF Respawn, BeginSpawn, Prepare
<1>3. /\ pc'[s]["crash"] = "spawn"
      /\ \A u \in Task \ {"crash"} : pc'[s][u] = pc[s][u]
      /\ cur'[s]["crash"] = b
      /\ \A u \in Task \ {"crash"} : cur'[s][u] = cur[s][u]
      /\ os'[b] = "starting"
      /\ \A p \in Proc \ {b} : os'[p] = os[p]
      /\ owner'[b] = s
      /\ \A p \in Proc \ {b} : owner'[p] = owner[p]
      /\ crashQ'[s] = crashQ[s] /\ process'[s] = process[s] /\ stopPc'[s] = stopPc[s]
      /\ stopProc'[s] = stopProc[s]
      /\ watch' = watch /\ pstop' = pstop
  BY <1>0, <1>2, NoneAssumption
  DEF IInv, SupTypeOK, ProcInv, ProcTypeOK, Task, Respawn, BeginSpawn, Prepare
<1>4. OnlySup(s) /\ Born'
  BY <1>0, <1>1, <1>2, <1>3, NoneAssumption
  DEF OnlySup, Born, IInv, SupTypeOK, SInv, Holds, BringingUp, Respawn, BeginSpawn,
      Prepare
<1>5. Holds(s)'
  BY <1>1, <1>2, <1>3, NoneAssumption DEF SInv, Task, Holds, BringingUp, Born
<1>6. OneToken(s)'
  BY <1>1, <1>2, <1>3, NoneAssumption
  DEF SInv, Task, OneToken, CrashToken, Token, Unnoticed, Born
<1>7. StartsAlone(s)'
  BY <1>1, <1>2, <1>3, NoneAssumption DEF SInv, Task, StartsAlone
<1>8. RestartsAlone(s)'
  BY <1>1, <1>2, <1>3, NoneAssumption
  DEF SInv, Task, RestartsAlone, BringingUp, Token, Unnoticed, OneToken, CrashToken
<1>9. Findable(s)'
  BY <1>1, <1>2, <1>3, NoneAssumption DEF SInv, Task, Findable
<1>10. Stopping(s)'
  BY <1>1, <1>2, <1>3, NoneAssumption DEF SInv, Task, Stopping, Holds
<1>11. QED
  BY <1>4, <1>5, <1>6, <1>7, <1>8, <1>9, <1>10, AtOneSupervisor DEF SInv

\* The child exists; the token stays with it.
LEMMA SpawnedKeeps ==
  ASSUME IInv, NEW s \in Sup, NEW t \in Task, Spawned(s, t), ProcInv', SupTypeOK'
  PROVE  IInv'
<1>1. /\ ProcInv /\ SInv(s) /\ Born
      /\ process[s] \in Proc \cup {None} /\ stopProc[s] \in Proc \cup {None}
  BY DEF IInv, SupTypeOK
<1>2. /\ pc[s][t] = "spawn"
      /\ os[cur[s][t]] = "starting"
      /\ cur[s][t] \in Proc
  BY <1>1 DEF SInv, Holds, BringingUp, Spawned, Exec
<1>3. /\ pc'[s][t] = "init"
      /\ \A u \in Task \ {t} : pc'[s][u] = pc[s][u]
      /\ os'[cur[s][t]] = "running"
      /\ \A p \in Proc \ {cur[s][t]} : os'[p] = os[p]
      /\ watch'[cur[s][t]] = "waiting"
      /\ \A p \in Proc \ {cur[s][t]} : watch'[p] = watch[p]
      /\ cur'[s] = cur[s] /\ crashQ'[s] = crashQ[s] /\ process'[s] = process[s]
      /\ stopPc'[s] = stopPc[s] /\ stopProc'[s] = stopProc[s]
      /\ pstop' = pstop /\ owner' = owner
  BY <1>2, NoneAssumption DEF IInv, SupTypeOK, ProcInv, ProcTypeOK, Task, Spawned, Exec
<1>4. OnlySup(s) /\ Born'
  BY <1>1, <1>2, <1>3, NoneAssumption
  DEF OnlySup, Born, IInv, SupTypeOK, SInv, Holds, BringingUp, Spawned, Exec
<1>5. Holds(s)'
  BY <1>1, <1>2, <1>3, NoneAssumption DEF SInv, Task, Holds, BringingUp, StartsAlone
<1>6. OneToken(s)'
  BY <1>1, <1>2, <1>3, NoneAssumption
  DEF SInv, Task, OneToken, CrashToken, Token, Unnoticed
<1>7. StartsAlone(s)'
  BY <1>1, <1>2, <1>3, NoneAssumption DEF SInv, Task, StartsAlone
<1>8. RestartsAlone(s)'
  BY <1>1, <1>2, <1>3, NoneAssumption
  DEF SInv, Task, RestartsAlone, BringingUp, Token, Unnoticed
<1>9. Findable(s)'
  BY <1>1, <1>2, <1>3, NoneAssumption DEF SInv, Task, Findable, Holds, BringingUp
<1>10. Stopping(s)'
  BY <1>1, <1>2, <1>3, NoneAssumption DEF SInv, Task, Stopping, Holds
<1>11. QED
  BY <1>4, <1>5, <1>6, <1>7, <1>8, <1>9, <1>10, AtOneSupervisor DEF SInv

\* The token is lost with the process that could not be started.
LEMMA SpawnFailsKeeps ==
  ASSUME IInv, NEW s \in Sup, NEW t \in Task, SpawnFails(s, t), ProcInv', SupTypeOK'
  PROVE  IInv'
<1>1. /\ ProcInv /\ SInv(s) /\ Born
      /\ process[s] \in Proc \cup {None} /\ stopProc[s] \in Proc \cup {None}
  BY DEF IInv, SupTypeOK
<1>2. /\ pc[s][t] = "spawn"
      /\ os[cur[s][t]] = "starting"
      /\ cur[s][t] \in Proc
  BY <1>1 DEF SInv, Holds, BringingUp, SpawnFails, PreRunFails, ExecFails, Fail
<1>3. /\ pc'[s][t] = (IF t = "start" THEN "failed" ELSE "idle")
      /\ \A u \in Task \ {t} : pc'[s][u] = pc[s][u]
      /\ cur'[s][t] = None
      /\ \A u \in Task \ {t} : cur'[s][u] = cur[s][u]
      /\ os'[cur[s][t]] = "failed"
      /\ \A p \in Proc \ {cur[s][t]} : os'[p] = os[p]
      /\ crashQ'[s] = crashQ[s] /\ process'[s] = process[s] /\ stopPc'[s] = stopPc[s]
      /\ stopProc'[s] = stopProc[s]
      /\ watch' = watch /\ pstop' = pstop /\ owner' = owner
  BY <1>2, NoneAssumption
  DEF IInv, SupTypeOK, ProcInv, ProcTypeOK, Task, SpawnFails, PreRunFails, ExecFails,
      Fail
<1>4. OnlySup(s) /\ Born'
  <2>1. OnlySup(s)
    BY <1>1, <1>2, <1>3
    DEF OnlySup, SInv, Holds, BringingUp, SpawnFails, Fail, IInv, SupTypeOK
  <2>2. Born'
    BY <1>1, <1>2, <1>3 DEF Born, SInv, Holds, BringingUp
  <2>3. QED
    BY <2>1, <2>2
<1>5. Holds(s)'
  BY <1>1, <1>2, <1>3, NoneAssumption DEF SInv, Task, Holds, BringingUp, StartsAlone
<1>6. OneToken(s)'
  BY <1>1, <1>2, <1>3, NoneAssumption
  DEF SInv, Task, OneToken, CrashToken, Token, Unnoticed
<1>7. StartsAlone(s)'
  BY <1>1, <1>2, <1>3, NoneAssumption DEF SInv, Task, StartsAlone
<1>8. RestartsAlone(s)'
  BY <1>1, <1>2, <1>3, NoneAssumption
  DEF SInv, Task, RestartsAlone, BringingUp, Token, Unnoticed
<1>9. Findable(s)'
  BY <1>1, <1>2, <1>3, NoneAssumption DEF SInv, Task, Findable
<1>10. Stopping(s)'
  BY <1>1, <1>2, <1>3, NoneAssumption DEF SInv, Task, Stopping, Holds
<1>11. QED
  BY <1>4, <1>5, <1>6, <1>7, <1>8, <1>9, <1>10, AtOneSupervisor DEF SInv

\* stop() will find the process that was brought up, and there is no other.
LEMMA InitOkKeeps ==
  ASSUME IInv, NEW s \in Sup, NEW t \in Task, InitOk(s, t), ProcInv', SupTypeOK'
  PROVE  IInv'
<1>1. /\ ProcInv /\ SInv(s) /\ Born
      /\ process[s] \in Proc \cup {None} /\ stopProc[s] \in Proc \cup {None}
  BY DEF IInv, SupTypeOK
<1>2. /\ pc[s][t] = "init"
      /\ cur[s][t] \in Proc
  BY <1>1 DEF SInv, Holds, BringingUp, InitOk, procVars
<1>3. /\ pc'[s][t] = (IF t = "start" THEN "up" ELSE "idle")
      /\ \A u \in Task \ {t} : pc'[s][u] = pc[s][u]
      /\ cur'[s][t] = None
      /\ \A u \in Task \ {t} : cur'[s][u] = cur[s][u]
      /\ process'[s] = cur[s][t]
      /\ crashQ'[s] = crashQ[s] /\ stopPc'[s] = stopPc[s] /\ stopProc'[s] = stopProc[s]
      /\ os' = os /\ watch' = watch /\ pstop' = pstop /\ owner' = owner
  BY <1>2, NoneAssumption
  DEF IInv, SupTypeOK, ProcInv, ProcTypeOK, Task, InitOk, procVars
<1>4. OnlySup(s) /\ Born'
  BY <1>1, <1>2, <1>3, NoneAssumption
  DEF OnlySup, Born, IInv, SupTypeOK, SInv, Holds, BringingUp, InitOk, procVars
<1>5. Holds(s)'
  BY <1>1, <1>2, <1>3, NoneAssumption DEF SInv, Task, Holds, BringingUp
<1>6. OneToken(s)'
  BY <1>1, <1>2, <1>3, NoneAssumption
  DEF SInv, Task, OneToken, CrashToken, Token, Unnoticed
<1>7. StartsAlone(s)'
  BY <1>1, <1>2, <1>3, NoneAssumption DEF SInv, Task, StartsAlone
<1>8. RestartsAlone(s)'
  BY <1>1, <1>2, <1>3, NoneAssumption
  DEF SInv, Task, RestartsAlone, BringingUp, Token, Unnoticed
<1>9. Findable(s)'
  BY <1>1, <1>2, <1>3, NoneAssumption, RunningHasToken
  DEF SInv, Task, Findable, StartsAlone, RestartsAlone, BringingUp
<1>10. Stopping(s)'
  BY <1>1, <1>2, <1>3, NoneAssumption DEF SInv, Task, Stopping, Holds
<1>11. QED
  BY <1>4, <1>5, <1>6, <1>7, <1>8, <1>9, <1>10, AtOneSupervisor DEF SInv

\* stop() of a process being brought up.
LEMMA InitFailsKeeps ==
  ASSUME IInv, NEW s \in Sup, NEW t \in Task, InitFails(s, t), ProcInv', SupTypeOK'
  PROVE  IInv'
<1>1. /\ ProcInv /\ SInv(s) /\ Born
      /\ process[s] \in Proc \cup {None} /\ stopProc[s] \in Proc \cup {None}
  BY DEF IInv, SupTypeOK
<1>2. /\ pc[s][t] = "init"
      /\ cur[s][t] \in Proc
  BY <1>1 DEF SInv, Holds, BringingUp, InitFails, BeginStop
<1>3. /\ pc'[s][t] = "abort"
      /\ \A u \in Task \ {t} : pc'[s][u] = pc[s][u]
      /\ pstop[cur[s][t]] # "done"
      /\ \A p \in Proc \ {cur[s][t]} : pstop'[p] = pstop[p]
      /\ cur'[s] = cur[s] /\ crashQ'[s] = crashQ[s] /\ process'[s] = process[s]
      /\ stopPc'[s] = stopPc[s] /\ stopProc'[s] = stopProc[s]
      /\ os' = os /\ watch' = watch /\ owner' = owner
  BY <1>2, NoneAssumption
  DEF IInv, SupTypeOK, ProcInv, ProcTypeOK, Task, InitFails, BeginStop
<1>4. OnlySup(s) /\ Born'
  BY <1>1, <1>2, <1>3, NoneAssumption
  DEF OnlySup, Born, IInv, SupTypeOK, SInv, Holds, BringingUp, InitFails, BeginStop
<1>5. Holds(s)'
  BY <1>1, <1>2, <1>3, NoneAssumption DEF SInv, Task, Holds, BringingUp
<1>6. OneToken(s)'
  BY <1>1, <1>2, <1>3, NoneAssumption
  DEF SInv, Task, OneToken, CrashToken, Token, Unnoticed
<1>7. StartsAlone(s)'
  BY <1>1, <1>2, <1>3, NoneAssumption DEF SInv, Task, StartsAlone
<1>8. RestartsAlone(s)'
  BY <1>1, <1>2, <1>3, NoneAssumption
  DEF SInv, Task, RestartsAlone, BringingUp, Token, Unnoticed
<1>9. Findable(s)'
  BY <1>1, <1>2, <1>3, NoneAssumption DEF SInv, Task, Findable
<1>10. Stopping(s)'
  BY <1>1, <1>2, <1>3, NoneAssumption DEF SInv, Task, Stopping, Holds
<1>11. QED
  BY <1>4, <1>5, <1>6, <1>7, <1>8, <1>9, <1>10, AtOneSupervisor DEF SInv

\* The process given up has been reaped: nobody needs to find it.
LEMMA InitAbortedKeeps ==
  ASSUME IInv, NEW s \in Sup, NEW t \in Task, InitAborted(s, t), ProcInv', SupTypeOK'
  PROVE  IInv'
<1>1. /\ ProcInv /\ SInv(s) /\ Born
      /\ process[s] \in Proc \cup {None} /\ stopProc[s] \in Proc \cup {None}
  BY DEF IInv, SupTypeOK
<1>2. /\ pc[s][t] = "abort"
      /\ os[cur[s][t]] = "reaped"
  BY <1>1
  DEF SInv, Holds, BringingUp, InitAborted, ProcInv, PInv, Stopped, Fail, procVars,
      IInv, ProcTypeOK
<1>3. /\ pc'[s][t] = (IF t = "start" THEN "failed" ELSE "idle")
      /\ \A u \in Task \ {t} : pc'[s][u] = pc[s][u]
      /\ cur'[s][t] = None
      /\ \A u \in Task \ {t} : cur'[s][u] = cur[s][u]
      /\ crashQ'[s] = crashQ[s] /\ process'[s] = process[s] /\ stopPc'[s] = stopPc[s]
      /\ stopProc'[s] = stopProc[s]
      /\ os' = os /\ watch' = watch /\ pstop' = pstop /\ owner' = owner
  BY <1>2, NoneAssumption
  DEF IInv, SupTypeOK, ProcInv, ProcTypeOK, Task, InitAborted, Fail, procVars
<1>4. OnlySup(s) /\ Born'
  BY <1>1, <1>2, <1>3, NoneAssumption
  DEF OnlySup, Born, IInv, SupTypeOK, SInv, Holds, BringingUp, InitAborted, Fail,
      procVars
<1>5. Holds(s)'
  BY <1>1, <1>2, <1>3, NoneAssumption DEF SInv, Task, Holds, BringingUp
<1>6. OneToken(s)'
  BY <1>1, <1>2, <1>3, NoneAssumption
  DEF SInv, Task, OneToken, CrashToken, Token, Unnoticed
<1>7. StartsAlone(s)'
  BY <1>1, <1>2, <1>3, NoneAssumption DEF SInv, Task, StartsAlone
<1>8. RestartsAlone(s)'
  BY <1>1, <1>2, <1>3, NoneAssumption
  DEF SInv, Task, RestartsAlone, BringingUp, Token, Unnoticed
<1>9. Findable(s)'
  BY <1>1, <1>2, <1>3, NoneAssumption DEF SInv, Task, Findable
<1>10. Stopping(s)'
  BY <1>1, <1>2, <1>3, NoneAssumption DEF SInv, Task, Stopping, Holds
<1>11. QED
  BY <1>4, <1>5, <1>6, <1>7, <1>8, <1>9, <1>10, AtOneSupervisor DEF SInv

\* A supervisor whose start was cancelled is never stopped.
LEMMA StartCancelledKeeps ==
  ASSUME IInv, NEW s \in Sup, StartCancelled(s), ProcInv', SupTypeOK'
  PROVE  IInv'
<1>1. /\ ProcInv /\ SInv(s) /\ Born
      /\ process[s] \in Proc \cup {None} /\ stopProc[s] \in Proc \cup {None}
  BY DEF IInv, SupTypeOK
<1>2. /\ pc[s]["start"] = "init"
  BY <1>1 DEF StartCancelled, Fail, procVars
<1>3. /\ pc'[s]["start"] = "failed"
      /\ \A u \in Task \ {"start"} : pc'[s][u] = pc[s][u]
      /\ cur'[s]["start"] = None
      /\ \A u \in Task \ {"start"} : cur'[s][u] = cur[s][u]
      /\ crashQ'[s] = crashQ[s] /\ process'[s] = process[s] /\ stopPc'[s] = stopPc[s]
      /\ stopProc'[s] = stopProc[s]
      /\ os' = os /\ watch' = watch /\ pstop' = pstop /\ owner' = owner
  BY <1>2, NoneAssumption
  DEF IInv, SupTypeOK, ProcInv, ProcTypeOK, Task, StartCancelled, Fail, procVars
<1>4. OnlySup(s) /\ Born'
  BY <1>1, <1>2, <1>3, NoneAssumption
  DEF OnlySup, Born, IInv, SupTypeOK, SInv, Holds, BringingUp, StartCancelled, Fail,
      procVars
<1>5. Holds(s)'
  BY <1>1, <1>2, <1>3, NoneAssumption DEF SInv, Task, Holds, BringingUp
<1>6. OneToken(s)'
  BY <1>1, <1>2, <1>3, NoneAssumption
  DEF SInv, Task, OneToken, CrashToken, Token, Unnoticed
<1>7. StartsAlone(s)'
  BY <1>1, <1>2, <1>3, NoneAssumption DEF SInv, Task, StartsAlone
<1>8. RestartsAlone(s)'
  BY <1>1, <1>2, <1>3, NoneAssumption
  DEF SInv, Task, RestartsAlone, BringingUp, Token, Unnoticed
<1>9. Findable(s)'
  BY <1>1, <1>2, <1>3, NoneAssumption DEF SInv, Task, Findable
<1>10. Stopping(s)'
  BY <1>1, <1>2, <1>3, NoneAssumption DEF SInv, Task, Stopping, Holds
<1>11. QED
  BY <1>4, <1>5, <1>6, <1>7, <1>8, <1>9, <1>10, AtOneSupervisor DEF SInv

\* The token is lost with a handler that gives up.
LEMMA CrashAfterStopKeeps ==
  ASSUME IInv, NEW s \in Sup, CrashAfterStop(s) \/ CrashExhausted(s), ProcInv', SupTypeOK'
  PROVE  IInv'
<1>1. /\ ProcInv /\ SInv(s) /\ Born
      /\ process[s] \in Proc \cup {None} /\ stopProc[s] \in Proc \cup {None}
  BY DEF IInv, SupTypeOK
<1>2. /\ crashQ[s] > 0
      /\ pc[s]["crash"] = "idle"
  BY <1>1 DEF CrashAfterStop, CrashExhausted, TakeLock, procVars
<1>3. /\ crashQ'[s] = crashQ[s] - 1
      /\ pc'[s] = pc[s] /\ cur'[s] = cur[s] /\ process'[s] = process[s]
      /\ stopPc'[s] = stopPc[s] /\ stopProc'[s] = stopProc[s]
      /\ os' = os /\ watch' = watch /\ pstop' = pstop /\ owner' = owner
  BY <1>2, NoneAssumption
  DEF IInv, SupTypeOK, ProcInv, ProcTypeOK, Task, CrashAfterStop, CrashExhausted,
      TakeLock, procVars
<1>4. OnlySup(s) /\ Born'
  BY <1>1, <1>2, <1>3, NoneAssumption
  DEF OnlySup, Born, IInv, SupTypeOK, SInv, Holds, BringingUp, CrashAfterStop,
      CrashExhausted, TakeLock, procVars
<1>5. Holds(s)'
  BY <1>1, <1>2, <1>3, NoneAssumption DEF SInv, Task, Holds, BringingUp
<1>6. OneToken(s)'
  BY <1>1, <1>2, <1>3, NoneAssumption
  DEF SInv, Task, OneToken, CrashToken, Token, Unnoticed
<1>7. StartsAlone(s)'
  BY <1>1, <1>2, <1>3, NoneAssumption DEF SInv, Task, StartsAlone
<1>8. RestartsAlone(s)'
  BY <1>1, <1>2, <1>3, NoneAssumption
  DEF SInv, Task, RestartsAlone, BringingUp, Token, Unnoticed
<1>9. Findable(s)'
  BY <1>1, <1>2, <1>3, NoneAssumption DEF SInv, Task, Findable
<1>10. Stopping(s)'
  BY <1>1, <1>2, <1>3, NoneAssumption DEF SInv, Task, Stopping, Holds
<1>11. QED
  BY <1>4, <1>5, <1>6, <1>7, <1>8, <1>9, <1>10, AtOneSupervisor DEF SInv

\* The token passes from the queue to the lock.
LEMMA CrashBacksOffKeeps ==
  ASSUME IInv, NEW s \in Sup, CrashBacksOff(s), ProcInv', SupTypeOK'
  PROVE  IInv'
<1>1. /\ ProcInv /\ SInv(s) /\ Born
      /\ process[s] \in Proc \cup {None} /\ stopProc[s] \in Proc \cup {None}
  BY DEF IInv, SupTypeOK
<1>2. /\ crashQ[s] > 0
      /\ pc[s]["crash"] = "idle"
  BY <1>1 DEF CrashBacksOff, TakeLock, procVars
<1>3. /\ pc'[s]["crash"] = "backoff"
      /\ \A u \in Task \ {"crash"} : pc'[s][u] = pc[s][u]
      /\ crashQ'[s] = crashQ[s] - 1
      /\ cur'[s] = cur[s] /\ process'[s] = process[s] /\ stopPc'[s] = stopPc[s]
      /\ stopProc'[s] = stopProc[s]
      /\ os' = os /\ watch' = watch /\ pstop' = pstop /\ owner' = owner
  BY <1>2, NoneAssumption
  DEF IInv, SupTypeOK, ProcInv, ProcTypeOK, Task, CrashBacksOff, TakeLock, procVars
<1>4. OnlySup(s) /\ Born'
  BY <1>1, <1>2, <1>3, NoneAssumption
  DEF OnlySup, Born, IInv, SupTypeOK, SInv, Holds, BringingUp, CrashBacksOff, TakeLock,
      procVars
<1>5. Holds(s)'
  BY <1>1, <1>2, <1>3, NoneAssumption DEF SInv, Task, Holds, BringingUp
<1>6. OneToken(s)'
  BY <1>1, <1>2, <1>3, NoneAssumption
  DEF SInv, Task, OneToken, CrashToken, Token, Unnoticed
<1>7. StartsAlone(s)'
  BY <1>1, <1>2, <1>3, NoneAssumption DEF SInv, Task, StartsAlone, OneToken
<1>8. RestartsAlone(s)'
  BY <1>1, <1>2, <1>3, NoneAssumption
  DEF SInv, Task, RestartsAlone, BringingUp, Token, Unnoticed
<1>9. Findable(s)'
  BY <1>1, <1>2, <1>3, NoneAssumption DEF SInv, Task, Findable
<1>10. Stopping(s)'
  BY <1>1, <1>2, <1>3, NoneAssumption DEF SInv, Task, Stopping, Holds
<1>11. QED
  BY <1>4, <1>5, <1>6, <1>7, <1>8, <1>9, <1>10, AtOneSupervisor DEF SInv

\* The token is lost with a handler that finds _stopped set.
LEMMA BackoffStoppedKeeps ==
  ASSUME IInv, NEW s \in Sup, BackoffStopped(s), ProcInv', SupTypeOK'
  PROVE  IInv'
<1>1. /\ ProcInv /\ SInv(s) /\ Born
      /\ process[s] \in Proc \cup {None} /\ stopProc[s] \in Proc \cup {None}
  BY DEF IInv, SupTypeOK
<1>2. /\ pc[s]["crash"] = "backoff"
  BY <1>1 DEF BackoffStopped, procVars
<1>3. /\ pc'[s]["crash"] = "idle"
      /\ \A u \in Task \ {"crash"} : pc'[s][u] = pc[s][u]
      /\ cur'[s] = cur[s] /\ crashQ'[s] = crashQ[s] /\ process'[s] = process[s]
      /\ stopPc'[s] = stopPc[s] /\ stopProc'[s] = stopProc[s]
      /\ os' = os /\ watch' = watch /\ pstop' = pstop /\ owner' = owner
  BY <1>2, NoneAssumption
  DEF IInv, SupTypeOK, ProcInv, ProcTypeOK, Task, BackoffStopped, procVars
<1>4. OnlySup(s) /\ Born'
  BY <1>1, <1>2, <1>3, NoneAssumption
  DEF OnlySup, Born, IInv, SupTypeOK, SInv, Holds, BringingUp, BackoffStopped, procVars
<1>5. Holds(s)'
  BY <1>1, <1>2, <1>3, NoneAssumption DEF SInv, Task, Holds, BringingUp
<1>6. OneToken(s)'
  BY <1>1, <1>2, <1>3, NoneAssumption
  DEF SInv, Task, OneToken, CrashToken, Token, Unnoticed
<1>7. StartsAlone(s)'
  BY <1>1, <1>2, <1>3, NoneAssumption DEF SInv, Task, StartsAlone
<1>8. RestartsAlone(s)'
  BY <1>1, <1>2, <1>3, NoneAssumption
  DEF SInv, Task, RestartsAlone, BringingUp, Token, Unnoticed
<1>9. Findable(s)'
  BY <1>1, <1>2, <1>3, NoneAssumption DEF SInv, Task, Findable
<1>10. Stopping(s)'
  BY <1>1, <1>2, <1>3, NoneAssumption DEF SInv, Task, Stopping, Holds
<1>11. QED
  BY <1>4, <1>5, <1>6, <1>7, <1>8, <1>9, <1>10, AtOneSupervisor DEF SInv

\* The budget has no part in the invariant.
LEMMA RestartExpiresKeeps ==
  ASSUME IInv, NEW s \in Sup, RestartExpires(s), ProcInv', SupTypeOK'
  PROVE  IInv'
<1>1. /\ ProcInv /\ SInv(s) /\ Born
      /\ process[s] \in Proc \cup {None} /\ stopProc[s] \in Proc \cup {None}
  BY DEF IInv, SupTypeOK
<1>3. /\ pc'[s] = pc[s] /\ cur'[s] = cur[s] /\ crashQ'[s] = crashQ[s]
      /\ process'[s] = process[s] /\ stopPc'[s] = stopPc[s] /\ stopProc'[s] = stopProc[s]
      /\ os' = os /\ watch' = watch /\ pstop' = pstop /\ owner' = owner
  BY NoneAssumption
  DEF IInv, SupTypeOK, ProcInv, ProcTypeOK, Task, RestartExpires, procVars
<1>4. OnlySup(s) /\ Born'
  BY <1>1, <1>3, NoneAssumption
  DEF OnlySup, Born, IInv, SupTypeOK, SInv, Holds, BringingUp, RestartExpires, procVars
<1>5. Holds(s)'
  BY <1>1, <1>3, NoneAssumption DEF SInv, Task, Holds, BringingUp
<1>6. OneToken(s)'
  BY <1>1, <1>3, NoneAssumption DEF SInv, Task, OneToken, CrashToken, Token, Unnoticed
<1>7. StartsAlone(s)'
  BY <1>1, <1>3, NoneAssumption DEF SInv, Task, StartsAlone
<1>8. RestartsAlone(s)'
  BY <1>1, <1>3, NoneAssumption
  DEF SInv, Task, RestartsAlone, BringingUp, Token, Unnoticed
<1>9. Findable(s)'
  BY <1>1, <1>3, NoneAssumption DEF SInv, Task, Findable
<1>10. Stopping(s)'
  BY <1>1, <1>3, NoneAssumption DEF SInv, Task, Stopping, Holds
<1>11. QED
  BY <1>4, <1>5, <1>6, <1>7, <1>8, <1>9, <1>10, AtOneSupervisor DEF SInv

\* stop() captures the one process there can be.
LEMMA StopCalledKeeps ==
  ASSUME IInv, NEW s \in Sup, pc[s]["start"] = "up", StopCalled(s), ProcInv', SupTypeOK'
  PROVE  IInv'
<1>1. SInv(s) /\ Born /\ process[s] \in Proc \cup {None}
  BY DEF IInv, SupTypeOK
<1>2. \A p \in Proc : /\ p # process[s] => pstop'[p] = pstop[p]
                      /\ pstop[p] = "done" => pstop'[p] = "done"
  BY <1>1 DEF StopCalled, BeginStop, procVars, IInv, ProcInv, ProcTypeOK
<1>3. /\ stopProc'[s] = process[s]
      /\ stopPc'[s] \in {"shutdown", "stopping", "done"}
      /\ stopPc'[s] = "done" <=> process[s] = None
      /\ pc'[s] = pc[s] /\ cur'[s] = cur[s] /\ crashQ'[s] = crashQ[s]
      /\ process'[s] = process[s]
      /\ os' = os /\ watch' = watch /\ owner' = owner
  BY DEF StopCalled, BeginStop, procVars, IInv, SupTypeOK
<1>4. OnlySup(s) /\ Born'
  <2>1. OnlySup(s)
    <3>1. \A r \in Sup \ {s} : stopPc'[r] = stopPc[r] /\ stopProc'[r] = stopProc[r]
      BY DEF StopCalled, IInv, SupTypeOK
    <3>2. UNCHANGED <<pc, cur, crashQ, process>>
      BY DEF StopCalled
    <3>3. process[s] \in Proc => owner[process[s]] = s
      BY <1>1, NoneAssumption DEF SInv, Holds
    <3>4. QED
      BY <1>1, <1>2, <1>3, <3>1, <3>2, <3>3 DEF OnlySup
  <2>2. Born'
    BY <1>1, <1>3 DEF Born
  <2>3. QED
    BY <2>1, <2>2
<1>5. Holds(s)'
  BY <1>1, <1>3 DEF SInv, Task, Holds, BringingUp
<1>6. OneToken(s)'
  BY <1>1, <1>3 DEF SInv, OneToken, CrashToken, Token, Unnoticed
<1>7. StartsAlone(s)' /\ RestartsAlone(s)' /\ Findable(s)'
  BY <1>1, <1>3
  DEF SInv, StartsAlone, RestartsAlone, BringingUp, Token, Unnoticed, Findable
<1>8. Stopping(s)'
  BY <1>1, <1>2, <1>3 DEF SInv, Stopping
<1>9. QED
  BY <1>4, <1>5, <1>6, <1>7, <1>8, AtOneSupervisor DEF SInv

\* stop() returns when BrickProcess.stop has.
LEMMA StopGoesOnKeeps ==
  ASSUME IInv, NEW s \in Sup, ShutdownOver(s) \/ StopOver(s), ProcInv', SupTypeOK'
  PROVE  IInv'
<1>1. SInv(s) /\ Born /\ stopProc[s] \in Proc
  BY DEF IInv, SInv, Stopping, ShutdownOver, StopOver
<1>2. /\ \A p \in Proc : p # stopProc[s] => pstop'[p] = pstop[p]
      /\ stopPc'[s] = "stopping" \/ (stopPc'[s] = "done" /\ pstop'[stopProc[s]] = "done")
  BY <1>1 DEF ShutdownOver, StopOver, BeginStop, procVars, IInv, ProcInv, ProcTypeOK,
              SupTypeOK
<1>3. /\ stopPc[s] # "idle" /\ stopProc'[s] = stopProc[s]
      /\ pc'[s] = pc[s] /\ cur'[s] = cur[s] /\ crashQ'[s] = crashQ[s]
      /\ process'[s] = process[s]
      /\ os' = os /\ watch' = watch /\ owner' = owner
  BY DEF ShutdownOver, StopOver, BeginStop, procVars
<1>4. OnlySup(s) /\ Born'
  <2>1. OnlySup(s)
    BY <1>1, <1>2, <1>3, NoneAssumption
    DEF OnlySup, SInv, Holds, ShutdownOver, StopOver, IInv, SupTypeOK
  <2>2. Born'
    BY <1>1, <1>3 DEF Born
  <2>3. QED
    BY <2>1, <2>2
<1>5. Holds(s)'
  BY <1>1, <1>3 DEF SInv, Task, Holds, BringingUp
<1>6. OneToken(s)'
  BY <1>1, <1>3 DEF SInv, OneToken, CrashToken, Token, Unnoticed
<1>7. StartsAlone(s)' /\ RestartsAlone(s)' /\ Findable(s)'
  BY <1>1, <1>3
  DEF SInv, StartsAlone, RestartsAlone, BringingUp, Token, Unnoticed, Findable
<1>8. Stopping(s)'
  BY <1>1, <1>2, <1>3 DEF SInv, Stopping
<1>9. QED
  BY <1>4, <1>5, <1>6, <1>7, <1>8, AtOneSupervisor DEF SInv

\* The process, its watcher and the rest of stop() leave the token where it is.
LEMMA ProcStepKeeps ==
  ASSUME IInv, NEW p \in Proc, ProcStep(p), ProcInv', SupTypeOK'
  PROVE  IInv'
<1>1. /\ os[p] \notin {"unborn", "starting"} /\ os'[p] \notin {"unborn", "starting"}
      /\ os'[p] = "running" => os[p] = "running"
      /\ Unnoticed(p)' => Unnoticed(p)
      /\ pstop[p] = "done" => pstop'[p] = "done"
  <2>1. PInv(p) /\ ProcTypeOK
    BY DEF IInv, ProcInv
  <2>2. CASE Exit(p) \/ Reap(p) \/ PipeEof(p) \/ Quarantine(p) \/ KillAfterTimeout(p)
    BY <2>1, <2>2 DEF Exit, Reap, PipeEof, Quarantine, KillAfterTimeout, PInv, Watched,
                      ProcTypeOK, Unnoticed
  <2>3. CASE WatchWakes(p) \/ WatchTeardown(p) \/ WatchTeardownEnds(p)
    BY <2>1, <2>3 DEF WatchWakes, WatchTeardown, WatchTeardownEnds, PInv, Watched,
                      ProcTypeOK, Unnoticed
  <2>4. CASE StopSeesExit(p) \/ StopTeardown(p) \/ StopTeardownEnds(p) \/ StopReturns(p)
    BY <2>1, <2>4 DEF StopSeesExit, StopTeardown, StopTeardownEnds, StopReturns, PInv,
                      Stopped, ProcTypeOK, Unnoticed
  <2>5. QED
    BY <2>2, <2>3, <2>4 DEF ProcStep, ProcRuns
<1>2. \A q \in Proc \ {p} : os'[q] = os[q] /\ watch'[q] = watch[q] /\ pstop'[q] = pstop[q]
  BY DEF ProcStep, ProcRuns, Exit, Reap, PipeEof, Quarantine, KillAfterTimeout,
         WatchWakes, WatchTeardown, WatchTeardownEnds, StopSeesExit, StopTeardown, StopTeardownEnds,
         StopReturns, IInv, ProcInv, ProcTypeOK
<1>3. UNCHANGED supVars
  BY DEF ProcStep
<1>4. PICK s \in Sup : owner[p] = s
  BY <1>1 DEF IInv, Born, SupTypeOK
<1>5. SInv(s) /\ Born
  BY DEF IInv
<1>6. OnlySup(s) /\ Born'
  BY <1>1, <1>2, <1>3, <1>4, <1>5, NoneAssumption DEF OnlySup, Born, supVars
<1>7. Holds(s)'
  BY <1>1, <1>2, <1>3, <1>5 DEF supVars, SInv, Holds, BringingUp
<1>8. OneToken(s)'
  BY <1>1, <1>2, <1>3, <1>5 DEF supVars, SInv, OneToken, CrashToken, Token, Unnoticed
<1>9. StartsAlone(s)' /\ Findable(s)'
  BY <1>1, <1>2, <1>3, <1>5 DEF supVars, SInv, StartsAlone, Findable
<1>10. RestartsAlone(s)'
  BY <1>1, <1>2, <1>3, <1>5
  DEF supVars, SInv, RestartsAlone, BringingUp, Token, Unnoticed
<1>11. Stopping(s)'
  <2>1. stopProc[s] \in Proc \cup {None}
    BY DEF IInv, SupTypeOK
  <2>2. QED
    BY <1>1, <1>2, <1>3, <1>5, <2>1 DEF supVars, SInv, Stopping
<1>12. QED
  BY <1>6, <1>7, <1>8, <1>9, <1>10, <1>11, AtOneSupervisor DEF SInv

\* The token passes from the process to a handler, or is lost.
LEMMA ExitNoticedKeeps ==
  ASSUME IInv, NEW p \in Proc, ExitNoticed(p), ProcInv', SupTypeOK'
  PROVE  IInv'
<1>1. /\ watch[p] = "notify" /\ os[p] = "reaped" /\ watch'[p] = "done"
      /\ \A q \in Proc \ {p} : watch'[q] = watch[q]
  BY DEF ExitNoticed, WatchReturns, IInv, ProcInv, ProcTypeOK, PInv, Watched
<1>2. PICK s \in Sup : owner[p] = s
  BY <1>1 DEF IInv, Born, SupTypeOK
<1>3. SInv(s) /\ Born /\ stopProc[s] \in Proc \cup {None} /\ crashQ[s] \in Nat
  BY DEF IInv, SupTypeOK
<1>4. /\ crashQ'[s] \in {crashQ[s], crashQ[s] + 1}
      /\ \A r \in Sup \ {s} : crashQ'[r] = crashQ[r]
      /\ os' = os /\ pstop' = pstop /\ owner' = owner /\ pc' = pc /\ cur' = cur
      /\ process' = process /\ stopPc' = stopPc /\ stopProc' = stopProc
  BY <1>2 DEF ExitNoticed, WatchReturns, IInv, SupTypeOK
<1>5. OnlySup(s) /\ Born'
  BY <1>1, <1>2, <1>3, <1>4 DEF OnlySup, Born
<1>6. Holds(s)'
  BY <1>3, <1>4 DEF SInv, Holds, BringingUp
<1>7. OneToken(s)'
  BY <1>1, <1>2, <1>3, <1>4 DEF SInv, OneToken, CrashToken, Token, Unnoticed
<1>8. StartsAlone(s)'
  <2>1. pc[s]["start"] \notin {"idle", "spawn"}
    BY <1>1, <1>2, <1>3 DEF SInv, StartsAlone, Holds, BringingUp, Task
  <2>2. QED
    BY <2>1, <1>3, <1>4 DEF SInv, StartsAlone
<1>9. RestartsAlone(s)'
  BY <1>1, <1>3, <1>4 DEF SInv, RestartsAlone, BringingUp, Token, Unnoticed
<1>10. Findable(s)' /\ Stopping(s)'
  BY <1>3, <1>4 DEF SInv, Findable, Stopping
<1>11. QED
  BY <1>5, <1>6, <1>7, <1>8, <1>9, <1>10, AtOneSupervisor DEF SInv

-----------------------------------------------------------------------------
(* A supervisor drives its processes as BrickProcess allows.               *)

\* Every step of a supervisor is a step of a process or leaves them alone.
LEMMA StepOfProcess ==
  ASSUME IInv, [Next]_vars
  PROVE  [ProcNext]_procVars
<1>1. CASE \E s \in Sup : Start(s) \/ Respawn(s)
  BY <1>1 DEF Start, Respawn, BeginSpawn, ProcNext, ProcStarts
<1>2. CASE \E s \in Sup, t \in Task : Spawned(s, t) \/ SpawnFails(s, t) \/ InitFails(s, t)
  BY <1>2 DEF Spawned, SpawnFails, InitFails, ProcNext, ProcStarts, IInv, SInv,
              Holds, BringingUp
<1>3. CASE \E s \in Sup : StopCalled(s) \/ ShutdownOver(s)
  BY <1>3 DEF StopCalled, ShutdownOver, ProcNext, IInv, SupTypeOK, SInv, Stopping
<1>4. CASE \E p \in Proc : ProcStep(p) \/ ExitNoticed(p)
  BY <1>4 DEF ProcStep, ExitNoticed, ProcNext
<1>5. CASE Finished \/ UNCHANGED vars
  BY <1>5 DEF Finished, vars
<1>6. CASE \E s \in Sup : \/ StartOk(s) \/ RestartOk(s) \/ StartCancelled(s)
                          \/ \E t \in Task : InitAborted(s, t)
                          \/ CrashAfterStop(s) \/ CrashExhausted(s) \/ CrashBacksOff(s)
                          \/ BackoffStopped(s) \/ RestartExpires(s) \/ StopOver(s)
  BY <1>6 DEF StartOk, RestartOk, InitOk, StartCancelled, InitAborted, CrashAfterStop,
              CrashExhausted, CrashBacksOff, BackoffStopped, RestartExpires, StopOver
<1>7. QED
  BY <1>1, <1>2, <1>3, <1>4, <1>5, <1>6 DEF Next, SupRuns

\* Types, action by action.
LEMMA TypePreserved ==
  ASSUME IInv, [Next]_vars
  PROVE  SupTypeOK'
<1>1. SupTypeOK
  BY DEF IInv
<1> USE <1>1 DEF SupTypeOK, Task, TaskPc
<1>2. ASSUME NEW s \in Sup, Start(s) PROVE SupTypeOK'
  BY <1>2 DEF Start, BeginSpawn
<1>3. ASSUME NEW s \in Sup, Respawn(s) PROVE SupTypeOK'
  BY <1>3 DEF Respawn, BeginSpawn
<1>4. ASSUME NEW s \in Sup, NEW t \in Task, Spawned(s, t) PROVE SupTypeOK'
  BY <1>4 DEF Spawned
<1>5. ASSUME NEW s \in Sup, NEW t \in Task, SpawnFails(s, t) PROVE SupTypeOK'
  BY <1>5 DEF SpawnFails, Fail
<1>6. ASSUME NEW s \in Sup, NEW t \in Task, InitOk(s, t) PROVE SupTypeOK'
  BY <1>6 DEF InitOk, SInv, Holds, BringingUp, IInv
<1>7. ASSUME NEW s \in Sup, NEW t \in Task, InitFails(s, t) PROVE SupTypeOK'
  BY <1>7 DEF InitFails
<1>8. ASSUME NEW s \in Sup, NEW t \in Task, InitAborted(s, t) PROVE SupTypeOK'
  BY <1>8 DEF InitAborted, Fail
<1>9. ASSUME NEW s \in Sup, StartCancelled(s) PROVE SupTypeOK'
  BY <1>9 DEF StartCancelled, Fail
<1>10. ASSUME NEW s \in Sup, CrashAfterStop(s) PROVE SupTypeOK'
  BY <1>10 DEF CrashAfterStop, TakeLock
<1>11. ASSUME NEW s \in Sup, CrashExhausted(s) PROVE SupTypeOK'
  BY <1>11 DEF CrashExhausted, TakeLock
<1>12. ASSUME NEW s \in Sup, CrashBacksOff(s) PROVE SupTypeOK'
  BY <1>12 DEF CrashBacksOff, TakeLock
<1>13. ASSUME NEW s \in Sup, BackoffStopped(s) PROVE SupTypeOK'
  BY <1>13 DEF BackoffStopped
<1>14. ASSUME NEW s \in Sup, RestartExpires(s) PROVE SupTypeOK'
  BY <1>14 DEF RestartExpires
<1>15. ASSUME NEW s \in Sup, StopCalled(s) PROVE SupTypeOK'
  BY <1>15 DEF StopCalled
<1>16. ASSUME NEW s \in Sup, ShutdownOver(s) PROVE SupTypeOK'
  BY <1>16 DEF ShutdownOver
<1>17. ASSUME NEW s \in Sup, StopOver(s) PROVE SupTypeOK'
  BY <1>17 DEF StopOver
<1>18. ASSUME NEW p \in Proc, ExitNoticed(p) PROVE SupTypeOK'
  <2>1. watch[p] = "notify" /\ os[p] = "reaped"
    BY <1>18 DEF ExitNoticed, WatchReturns, IInv, ProcInv, PInv, Watched
  <2>2. PICK s \in Sup : owner[p] = s
    BY <2>1 DEF IInv, Born
  <2>3. crashQ' = crashQ \/ crashQ' = [crashQ EXCEPT ![s] = @ + 1]
    BY <1>18, <2>2 DEF ExitNoticed
  <2>4. crashQ' \in [Sup -> Nat]
    BY <2>3
  <2>5. UNCHANGED <<stopped, handle, process, recent, expired, pc, cur, stopPc, stopProc, owner>>
    BY <1>18 DEF ExitNoticed
  <2>6. QED
    BY <2>4, <2>5
<1>19. CASE UNCHANGED supVars
  BY <1>19 DEF supVars
<1>20. QED
  BY <1>2, <1>3, <1>4, <1>5, <1>6, <1>7, <1>8, <1>9, <1>10, <1>11, <1>12, <1>13, <1>14,
     <1>15, <1>16, <1>17, <1>18, <1>19
  DEF Next, SupRuns, StartOk, RestartOk, ProcStep, Finished, vars

\* The invariant holds at first.
LEMMA IInvInit == Init => IInv
<1> SUFFICES ASSUME Init PROVE IInv
  OBVIOUS
<1>1. ProcInv
  BY ProcInvInit DEF Init
<1>2. SupTypeOK
  BY DEF Init, SupInit, SupTypeOK, Task, TaskPc
<1>3. Born
  BY DEF Init, SupInit, ProcInit, Born
<1>4. ASSUME NEW s \in Sup PROVE SInv(s)
  BY NoneAssumption
  DEF Init, SupInit, ProcInit, SInv, Holds, OneToken, StartsAlone, RestartsAlone, Findable,
      Stopping, BringingUp, Token, Unnoticed, CrashToken, Task
<1>5. QED
  BY <1>1, <1>2, <1>3, <1>4 DEF IInv

\* The invariant is inductive.
LEMMA NextKeepsIInv == IInv /\ [Next]_vars => IInv'
<1> SUFFICES ASSUME IInv, [Next]_vars PROVE IInv'
  OBVIOUS
<1>1. ProcInv' /\ SupTypeOK'
  BY StepOfProcess, TypePreserved, ProcNextKeepsInv DEF IInv
<1>2. CASE \E s \in Sup : Start(s) \/ Respawn(s)
  BY <1>1, <1>2, StartKeeps, RespawnKeeps
<1>3. CASE \E s \in Sup, t \in Task : Spawned(s, t) \/ SpawnFails(s, t) \/ InitFails(s, t)
                                      \/ InitAborted(s, t)
  BY <1>1, <1>3, SpawnedKeeps, SpawnFailsKeeps, InitFailsKeeps, InitAbortedKeeps
<1>4. CASE \E s \in Sup : StartOk(s) \/ RestartOk(s) \/ StartCancelled(s)
  BY <1>1, <1>4, InitOkKeeps, StartCancelledKeeps DEF StartOk, RestartOk, Task
<1>5. CASE \E s \in Sup : pc[s]["start"] = "up" /\ StopCalled(s)
  BY <1>1, <1>5, StopCalledKeeps
<1>6. CASE \E s \in Sup : ShutdownOver(s) \/ StopOver(s)
  BY <1>1, <1>6, StopGoesOnKeeps
<1>7. CASE \E s \in Sup : CrashAfterStop(s) \/ CrashExhausted(s) \/ CrashBacksOff(s)
                          \/ BackoffStopped(s) \/ RestartExpires(s)
  BY <1>1, <1>7, CrashAfterStopKeeps, CrashBacksOffKeeps, BackoffStoppedKeeps,
     RestartExpiresKeeps
<1>8. CASE \E p \in Proc : ProcStep(p) \/ ExitNoticed(p)
  BY <1>1, <1>8, ProcStepKeeps, ExitNoticedKeeps
<1>9. CASE Finished \/ UNCHANGED vars
  <2>1. UNCHANGED vars
    BY <1>9 DEF Finished
  <2>2. QED
    BY <1>1, <2>1
    DEF IInv, vars, procVars, supVars, Born, SInv, Holds, OneToken, StartsAlone,
       RestartsAlone, Findable, Stopping, BringingUp, Token, Unnoticed, CrashToken
<1>10. QED
  BY <1>2, <1>3, <1>4, <1>5, <1>6, <1>7, <1>8, <1>9 DEF Next, SupRuns

-----------------------------------------------------------------------------
\* The inductive invariant holds of every behaviour of the supervisors.
THEOREM Invariant == Spec => []IInv
BY IInvInit, NextKeepsIInv, PTL DEF Spec

\* Type correctness, for any supervisors, processes and restart budget.
THEOREM TypeCorrect == Spec => []TypeOK
<1>1. IInv => TypeOK
  BY DEF IInv, ProcInv, TypeOK
<1>2. QED
  BY <1>1, Invariant, PTL

\* The supervisors drive their processes only as BrickProcess allows: all that
\* is proved of BrickProcess is true of supervised processes.
THEOREM ImplementsProcess == Spec => ProcSpec
<1>1. Init => ProcInit
  BY DEF Init
<1>2. IInv /\ [Next]_vars => [ProcNext]_procVars
  BY StepOfProcess
<1>3. QED
  BY <1>1, <1>2, Invariant, PTL DEF Spec, ProcSpec

\* start() and the crash handlers spawn on their own, and yet a supervisor never
\* has two bricks running.
THEOREM OneBrick == Spec => []OneBrickPerSupervisor
<1>1. IInv => OneBrickPerSupervisor
  <2> SUFFICES ASSUME IInv, NEW p \in Proc, NEW q \in Proc, os[p] = "running",
                      os[q] = "running", owner[p] = owner[q]
               PROVE  p = q
    BY DEF OneBrickPerSupervisor
  <2>1. Token(p) /\ Token(q)
    BY RunningHasToken DEF IInv
  <2>2. PICK s \in Sup : owner[p] = s
    BY DEF IInv, Born, SupTypeOK
  <2>3. QED
    BY <2>1, <2>2 DEF IInv, SInv, OneToken
<1>2. QED
  BY <1>1, Invariant, PTL

\* No two crash handlers ever stand in line, and while one is pending nothing of
\* its supervisor runs: a crash is restarted once.
THEOREM OneCrash == Spec => []OneCrashPending
<1>1. IInv => OneCrashPending
  <2> SUFFICES ASSUME IInv, NEW s \in Sup
               PROVE  /\ crashQ[s] <= 1
                      /\ (crashQ[s] = 1 \/ pc[s]["crash"] \in {"backoff", "spawn"}) => Running(s) = {}
    BY DEF OneCrashPending
  <2>1. SInv(s)
    BY DEF IInv
  <2>2. crashQ[s] <= 1
    BY <2>1 DEF SInv, OneToken
  <2>3. ASSUME crashQ[s] = 1 \/ pc[s]["crash"] \in {"backoff", "spawn"},
               NEW p \in Proc, owner[p] = s, os[p] = "running"
        PROVE  FALSE
    <3>1. Token(p)
      BY <2>3, RunningHasToken DEF IInv
    <3>2. CASE crashQ[s] = 1 \/ pc[s]["crash"] = "backoff"
      BY <2>1, <2>3, <3>1, <3>2 DEF SInv, OneToken, CrashToken
    <3>3. CASE pc[s]["crash"] = "spawn"
      BY <2>1, <2>3, <3>1, <3>3 DEF SInv, RestartsAlone, Holds, BringingUp, Task
    <3>4. QED
      BY <2>3, <3>2, <3>3
  <2>4. QED
    BY <2>2, <2>3 DEF Running
<1>2. QED
  BY <1>1, Invariant, PTL

\* What stop() captured is all there was: a process that runs on would be the
\* one it waited for.
LEMMA StoppedIsAll == IInv => StopLeavesNothing
<1> SUFFICES ASSUME IInv, NEW s \in Sup, stopPc[s] = "done", process[s] = stopProc[s],
                    pc[s]["crash"] \notin {"spawn", "init", "abort"},
                    NEW p \in Proc, owner[p] = s, os[p] = "running"
             PROVE  FALSE
  BY DEF StopLeavesNothing, Running
<1>1. p = process[s] /\ process[s] \in Proc
  BY DEF IInv, SInv, Stopping, Findable
<1>2. pstop[p] = "done"
  BY <1>1, NoneAssumption DEF IInv, SInv, Stopping
<1>3. QED
  BY <1>2 DEF IInv, ProcInv, PInv, Stopped

\* No brick of a stopped supervisor runs on, unless a restart was past its
\* backoff.
THEOREM StopLeaves == Spec => []StopLeavesNothing
BY StoppedIsAll, Invariant, PTL

\* Nothing is spawned for a supervisor that was told to stop.
THEOREM NeverSpawnsStopped == Spec => StoppedNeverSpawns
<1> DEFINE Ok == \A p \in Proc : owner'[p] # owner[p] => ~stopped'[owner'[p]]
<1>1. IInv /\ [Next]_vars => [Ok]_vars
  <2> SUFFICES ASSUME IInv, [Next]_vars PROVE Ok
    OBVIOUS
  <2>1. CASE \E s \in Sup : Start(s) \/ Respawn(s)
    BY <2>1 DEF Start, Respawn, BeginSpawn, IInv, SupTypeOK
  <2>2. CASE UNCHANGED owner
    BY <2>2
  <2>3. QED
    BY <2>1, <2>2
    DEF Next, SupRuns, StartOk, RestartOk, InitOk, StartCancelled, StopCalled, Spawned,
        SpawnFails, InitFails, InitAborted, CrashAfterStop, CrashExhausted, CrashBacksOff,
        BackoffStopped, RestartExpires, ShutdownOver, StopOver, ProcStep, ExitNoticed,
        Finished, vars, supVars
<1>2. QED
  BY <1>1, Invariant, PTL DEF Spec, StoppedNeverSpawns
=============================================================================
