---------------------------- MODULE BrickProcess ----------------------------
(***************************************************************************)
(* One brick subprocess as the kernel drives it                            *)
(* (src/veridian/plugin_runtime/process.py, class BrickProcess): the       *)
(* operating-system process, the kernel's end of its stdout, the container *)
(* networks created before it and removed after it, the task that watches  *)
(* for its exit, and stop().                                               *)
(*                                                                         *)
(* Everything here runs on one asyncio loop, so a step is the code between *)
(* two awaits.  The exit watcher and stop() are two tasks that meet at the *)
(* teardown lock and at the exit itself.                                   *)
(***************************************************************************)
EXTENDS Integers

CONSTANTS
  MaxProcs,  \* bound: processes that may ever be created
  Networks   \* {"up"} if the bricks are containers, {"none"} if plain children

ASSUME MaxProcsAssumption == MaxProcs \in Nat
ASSUME NetworksAssumption == Networks \subseteq {"none", "up"}

Proc == 1..MaxProcs     \* in the order of their creation

VARIABLES
  os,        \* the process: what the operating system and returncode say of it
  link,      \* "up" while the endpoint's read loop is running
  net,       \* what pre_run created: egress proxy and networks
  watch,     \* where _watch_exit is
  stopping,  \* BrickProcess._stopping
  pstop,     \* where BrickProcess.stop is
  lock       \* holder of _post_run_lock

procVars == <<os, link, net, watch, stopping, pstop, lock>>

\* "dead" is a process that has exited while returncode is still None;
\* "failed" is a BrickProcess whose start() raised before a child existed.
OsState    == {"unborn", "starting", "running", "dead", "reaped", "failed"}
NetState   == {"none", "up", "removing", "gone"}
WatchState == {"none", "waiting", "teardown", "removing", "notify", "done"}
StopState  == {"idle", "terminating", "teardown", "removing", "joining", "done"}

\* Every variable holds a value of its type.
ProcTypeOK ==
  /\ os \in [Proc -> OsState]
  /\ link \in [Proc -> {"up", "down"}]
  /\ net \in [Proc -> NetState]
  /\ watch \in [Proc -> WatchState]
  /\ stopping \in [Proc -> BOOLEAN]
  /\ pstop \in [Proc -> StopState]
  /\ lock \in [Proc -> {"free", "watcher", "stopper"}]

ProcInit ==
  /\ os = [p \in Proc |-> "unborn"]
  /\ link = [p \in Proc |-> "down"]
  /\ net = [p \in Proc |-> "none"]
  /\ watch = [p \in Proc |-> "none"]
  /\ stopping = [p \in Proc |-> FALSE]
  /\ pstop = [p \in Proc |-> "idle"]
  /\ lock = [p \in Proc |-> "free"]

\* returncode is None: the kernel still believes in the process.
Alive(p) == os[p] \in {"running", "dead"}

-----------------------------------------------------------------------------
(* start() *)

\* The pre_run commands of a container brick create its networks; a plain
\* subprocess has no such commands and nothing to tear down.
Prepare(p) ==
  /\ os[p] = "unborn"
  /\ \A q \in 1..(p - 1) : os[q] # "unborn"
  /\ os' = [os EXCEPT ![p] = "starting"]
  /\ \E n \in Networks : net' = [net EXCEPT ![p] = n]
  /\ UNCHANGED <<link, watch, stopping, pstop, lock>>

\* The child exists; read loop and exit watcher are scheduled.
Exec(p) ==
  /\ os[p] = "starting"
  /\ os' = [os EXCEPT ![p] = "running"]
  /\ link' = [link EXCEPT ![p] = "up"]
  /\ watch' = [watch EXCEPT ![p] = "waiting"]
  /\ UNCHANGED <<net, stopping, pstop, lock>>

\* A pre_run command failed: what the earlier ones created is rolled back.
PreRunFails(p) ==
  /\ os[p] = "starting"
  /\ net[p] = "up"
  /\ os' = [os EXCEPT ![p] = "failed"]
  /\ net' = [net EXCEPT ![p] = "gone"]
  /\ UNCHANGED <<link, watch, stopping, pstop, lock>>

\* create_subprocess_exec raised, or the start was cancelled inside pre_run:
\* neither path runs post_run.
ExecFails(p) ==
  /\ os[p] = "starting"
  /\ os' = [os EXCEPT ![p] = "failed"]
  /\ UNCHANGED <<link, net, watch, stopping, pstop, lock>>

-----------------------------------------------------------------------------
(* The process and its pipe *)

\* The brick exits: a crash, or obedience to terminate or plugin.shutdown.
Exit(p) ==
  /\ os[p] = "running"
  /\ os' = [os EXCEPT ![p] = "dead"]
  /\ UNCHANGED <<link, net, watch, stopping, pstop, lock>>

\* The child watcher sets returncode.
Reap(p) ==
  /\ os[p] = "dead"
  /\ os' = [os EXCEPT ![p] = "reaped"]
  /\ UNCHANGED <<link, net, watch, stopping, pstop, lock>>

\* The read loop meets end of file; this and Reap come in either order.
PipeEof(p) ==
  /\ link[p] = "up"
  /\ os[p] \in {"dead", "reaped"}
  /\ link' = [link EXCEPT ![p] = "down"]
  /\ UNCHANGED <<os, net, watch, stopping, pstop, lock>>

\* The read loop breaks at malformed_threshold, or the brick closes its stdout:
\* the process keeps running, and only the endpoint knows.
Quarantine(p) ==
  /\ link[p] = "up"
  /\ os[p] = "running"
  /\ link' = [link EXCEPT ![p] = "down"]
  /\ UNCHANGED <<os, net, watch, stopping, pstop, lock>>

-----------------------------------------------------------------------------
(* _watch_exit, with _run_post_run inlined *)

\* Plausible bug: wake on end of file, not on the exit.
WatchWakes_OnEof(p) ==
  /\ watch[p] = "waiting"
  /\ link[p] = "down"
  /\ watch' = [watch EXCEPT ![p] = "teardown"]
  /\ UNCHANGED <<os, link, net, stopping, pstop, lock>>

\* Plausible bug: report the exit without tearing down.
WatchWakes_NoTeardown(p) ==
  /\ watch[p] = "waiting"
  /\ os[p] = "reaped"
  /\ watch' = [watch EXCEPT ![p] = "notify"]
  /\ UNCHANGED <<os, link, net, stopping, pstop, lock>>

WatchWakes(p) ==
  /\ watch[p] = "waiting"
  /\ os[p] = "reaped"
  /\ watch' = [watch EXCEPT ![p] = "teardown"]
  /\ UNCHANGED <<os, link, net, stopping, pstop, lock>>

\* Plausible bug: no lock, and _post_run not swapped for ().
WatchTeardown_NoLock(p) ==
  /\ watch[p] = "teardown"
  /\ IF net[p] \in {"up", "removing"}
       THEN /\ net' = [net EXCEPT ![p] = "removing"]
            /\ lock' = [lock EXCEPT ![p] = "watcher"]
            /\ watch' = [watch EXCEPT ![p] = "removing"]
       ELSE /\ watch' = [watch EXCEPT ![p] = "notify"]
            /\ UNCHANGED <<net, lock>>
  /\ UNCHANGED <<os, link, stopping, pstop>>

\* Under the lock: the first caller takes the commands, a later one finds none.
WatchTeardown(p) ==
  /\ watch[p] = "teardown"
  /\ lock[p] = "free"
  /\ IF net[p] = "up"
       THEN /\ net' = [net EXCEPT ![p] = "removing"]
            /\ lock' = [lock EXCEPT ![p] = "watcher"]
            /\ watch' = [watch EXCEPT ![p] = "removing"]
       ELSE /\ watch' = [watch EXCEPT ![p] = "notify"]
            /\ UNCHANGED <<net, lock>>
  /\ UNCHANGED <<os, link, stopping, pstop>>

WatchTeardownEnds(p) ==
  /\ watch[p] = "removing"
  /\ net' = [net EXCEPT ![p] = "gone"]
  /\ lock' = [lock EXCEPT ![p] = "free"]
  /\ watch' = [watch EXCEPT ![p] = "notify"]
  /\ UNCHANGED <<os, link, stopping, pstop>>

\* The watcher returns; on_exit is called only if ReportsExit(p).
WatchReturns(p) ==
  /\ watch[p] = "notify"
  /\ watch' = [watch EXCEPT ![p] = "done"]
  /\ UNCHANGED <<os, link, net, stopping, pstop, lock>>

\* Plausible bug: trust the endpoint to have told of the exit already.
ReportsExit_IfOpen(p) == ~stopping[p] /\ link[p] = "up"

ReportsExit(p) == ~stopping[p]

-----------------------------------------------------------------------------
(* stop(), with _cleanup and _run_post_run inlined *)

\* Plausible bug: clean up without waiting for the exit.
BeginStop_NoWait(p) ==
  /\ os[p] \in {"running", "dead", "reaped"}
  /\ pstop[p] = "idle"
  /\ stopping' = [stopping EXCEPT ![p] = TRUE]
  /\ pstop' = [pstop EXCEPT ![p] = "teardown"]
  /\ link' = [link EXCEPT ![p] = "down"]
  /\ UNCHANGED <<os, net, watch, lock>>

BeginStop(p) ==
  /\ os[p] \in {"running", "dead", "reaped"}
  /\ pstop[p] = "idle"
  /\ stopping' = [stopping EXCEPT ![p] = TRUE]
  /\ IF os[p] = "reaped"
       THEN /\ pstop' = [pstop EXCEPT ![p] = "teardown"]
            /\ link' = [link EXCEPT ![p] = "down"]
       ELSE /\ pstop' = [pstop EXCEPT ![p] = "terminating"]
            /\ UNCHANGED link
  /\ UNCHANGED <<os, net, watch, lock>>

\* kill_timeout elapsed and the process ignored terminate.
KillAfterTimeout(p) ==
  /\ pstop[p] = "terminating"
  /\ os[p] = "running"
  /\ os' = [os EXCEPT ![p] = "dead"]
  /\ UNCHANGED <<link, net, watch, stopping, pstop, lock>>

\* Process.wait returned: _cleanup closes the endpoint.
StopSeesExit(p) ==
  /\ pstop[p] = "terminating"
  /\ os[p] = "reaped"
  /\ pstop' = [pstop EXCEPT ![p] = "teardown"]
  /\ link' = [link EXCEPT ![p] = "down"]
  /\ UNCHANGED <<os, net, watch, stopping, lock>>

StopTeardown(p) ==
  /\ pstop[p] = "teardown"
  /\ lock[p] = "free"
  /\ IF net[p] = "up"
       THEN /\ net' = [net EXCEPT ![p] = "removing"]
            /\ lock' = [lock EXCEPT ![p] = "stopper"]
            /\ pstop' = [pstop EXCEPT ![p] = "removing"]
       ELSE /\ pstop' = [pstop EXCEPT ![p] = "joining"]
            /\ UNCHANGED <<net, lock>>
  /\ UNCHANGED <<os, link, watch, stopping>>

StopTeardownEnds(p) ==
  /\ pstop[p] = "removing"
  /\ net' = [net EXCEPT ![p] = "gone"]
  /\ lock' = [lock EXCEPT ![p] = "free"]
  /\ pstop' = [pstop EXCEPT ![p] = "joining"]
  /\ UNCHANGED <<os, link, watch, stopping>>

\* Plausible bug: do not await the exit watcher.
StopReturns_NoJoin(p) ==
  /\ pstop[p] = "joining"
  /\ pstop' = [pstop EXCEPT ![p] = "done"]
  /\ UNCHANGED <<os, link, net, watch, stopping, lock>>

\* _cleanup awaits the exit watcher.  Its wait has already resolved and the
\* teardown is over, so it is runnable and the 15 s bound never cuts it short.
StopReturns(p) ==
  /\ pstop[p] = "joining"
  /\ watch[p] = "done"
  /\ pstop' = [pstop EXCEPT ![p] = "done"]
  /\ UNCHANGED <<os, link, net, watch, stopping, lock>>

-----------------------------------------------------------------------------
\* What happens to a process without its owner doing anything.
ProcRuns(p) ==
  \/ Exit(p) \/ Reap(p) \/ PipeEof(p) \/ Quarantine(p)
  \/ WatchWakes(p) \/ WatchTeardown(p) \/ WatchTeardownEnds(p)
  \/ KillAfterTimeout(p) \/ StopSeesExit(p)
  \/ StopTeardown(p) \/ StopTeardownEnds(p) \/ StopReturns(p)

ProcStarts(p) == Prepare(p) \/ Exec(p) \/ PreRunFails(p) \/ ExecFails(p)

\* Every process has been stopped or was never born: nothing is left to do.
AllStopped ==
  /\ \A p \in Proc : os[p] = "failed" \/ pstop[p] = "done"
  /\ UNCHANGED procVars

ProcNext ==
  \/ \E p \in Proc : ProcStarts(p) \/ ProcRuns(p) \/ WatchReturns(p) \/ BeginStop(p)
  \/ AllStopped

ProcSpec == ProcInit /\ [][ProcNext]_procVars
-----------------------------------------------------------------------------
\* stop() returns only when the process is reaped, its endpoint closed, its
\* networks gone and its exit watcher finished, however the watcher and stop()
\* interleave (the promise made for _post_run_lock and by _cleanup).
StopReturnsClean ==
  \A p \in Proc : pstop[p] = "done" =>
    /\ os[p] = "reaped" /\ link[p] = "down"
    /\ net[p] \in {"none", "gone"} /\ watch[p] = "done"

\* The proxy and networks are never removed from under a process that may still
\* be running on them.
TeardownAfterExit ==
  \A p \in Proc : net[p] \in {"removing", "gone"} => os[p] \in {"reaped", "failed"}

\* Watcher and stop() never run the teardown commands at the same time, and
\* whoever runs them holds the lock.
TeardownExclusive ==
  \A p \in Proc :
    /\ (watch[p] = "removing") <=> (lock[p] = "watcher")
    /\ (pstop[p] = "removing") <=> (lock[p] = "stopper")
    /\ (net[p] = "removing") <=> (lock[p] # "free")

\* A process that exits leaves no network behind, stopped or not.
ExitTearsDown ==
  \A p \in Proc : (os[p] = "dead") ~> (net[p] \in {"none", "gone"})
=============================================================================
