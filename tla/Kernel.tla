------------------------------- MODULE Kernel -------------------------------
(***************************************************************************)
(* The kernel's lifecycle (src/veridian/kernel/runtime.py, class Kernel)   *)
(* over the supervisors of BrickSupervisor and the binding table of        *)
(* src/veridian/plugin_runtime/registry.py: start() brings the bricks up   *)
(* one by one, rebind() replaces one by a reconfigured twin, stop() takes  *)
(* them down in reverse, and a crash handler that restarts a brick rebinds *)
(* it on its own.                                                          *)
(***************************************************************************)
EXTENDS BrickSupervisor, Sequences

CONSTANTS
  Stacks,      \* resolved stacks: contracts in the order start() takes them
  MaxRebinds,  \* bound: calls of rebind()
  MaxStarts    \* bound: calls of start() (a failed start may be repeated)

ASSUME SupAssumption == Sup \subseteq Nat
ASSUME CallsAssumption == MaxRebinds \in Nat /\ MaxStarts \in Nat

Contract == UNION {{o[i] : i \in 1..Len(o)} : o \in Stacks}
\* The bindings of a stack are the keys of a table.
ASSUME StacksAssumption ==
  /\ Stacks \subseteq Seq(Contract) /\ None \notin Contract
  /\ \A o \in Stacks : \A i, j \in 1..Len(o) : o[i] = o[j] => i = j

VARIABLES
  order,      \* the stack this kernel runs
  contract,   \* the contract a supervisor was created for
  sups,       \* Kernel._supervisors
  bound,      \* PluginRegistry._by_contract
  started,    \* Kernel._started
  kpc,        \* where start() and stop() are
  kidx,       \* start(): bindings brought up; stop(): supervisors left to stop
  kcur,       \* the supervisor start() or stop() awaits
  rpc,        \* where rebind() is
  rold, rnew, \* its locals old and new_sup
  rhandle,    \* its local handle
  nstarts, nrebinds, \* calls made (bounds)
  overlap,    \* a rebind was under way when stop() was called (history)
  refused     \* supervisors whose handle registry.bind refused (history)

startVars  == <<kpc, kidx, kcur, started, nstarts, overlap>>
rebindVars == <<rpc, rold, rnew, rhandle, nrebinds, refused>>
kernelVars == <<order, contract, sups, bound, startVars, rebindVars>>
kvars      == <<vars, kernelVars>>

KernelInit ==
  /\ Init
  /\ order \in Stacks
  /\ contract = [s \in Sup |-> None]
  /\ sups = <<>>
  /\ bound = [c \in Contract |-> None]
  /\ started = FALSE
  /\ kpc = "down" /\ kidx = 0 /\ kcur = None
  /\ rpc = "idle" /\ rold = None /\ rnew = None /\ rhandle = None
  /\ nstarts = 0 /\ nrebinds = 0
  /\ overlap = FALSE /\ refused = {}

\* BrickSupervisor(binding, ...): objects are taken in the order of creation.
NewSupervisor(s, c) ==
  /\ contract[s] = None
  /\ \A r \in Sup : r < s => contract[r] # None
  /\ contract' = [contract EXCEPT ![s] = c]
  /\ Start(s)

\* registry.bind of a contract; it replaces whatever was bound before.
Bind(c, p) == bound' = [bound EXCEPT ![c] = p]

-----------------------------------------------------------------------------
(* start() *)

KernelStart ==
  /\ kpc \in {"down", "failed"}
  /\ ~started
  /\ nstarts < MaxStarts
  /\ nstarts' = nstarts + 1
  /\ kpc' = "starting" /\ kidx' = 0
  /\ UNCHANGED <<vars, order, contract, sups, bound, started, kcur, overlap, rebindVars>>

StartsNext ==
  /\ kpc = "starting" /\ kcur = None
  /\ kidx < Len(order)
  /\ \E s \in Sup : NewSupervisor(s, order[kidx + 1]) /\ kcur' = s
  /\ UNCHANGED <<order, sups, bound, kpc, kidx, started, nstarts, overlap, rebindVars>>

\* supervisor.start() returned: bind, then append.
StartBinds ==
  /\ kpc = "starting" /\ kcur # None
  /\ StartOk(kcur)
  /\ Bind(contract[kcur], cur[kcur]["start"])
  /\ sups' = Append(sups, kcur)
  /\ kidx' = kidx + 1 /\ kcur' = None
  /\ UNCHANGED <<order, contract, kpc, started, nstarts, overlap, rebindVars>>

\* supervisor.start() returned, but registry.bind refuses the handle (stale
\* environment, egress): start() raises with the brick running and unlisted.
StartBindRefused ==
  /\ kpc = "starting" /\ kcur # None
  /\ StartOk(kcur)
  /\ kpc' = "failed" /\ kcur' = None
  /\ refused' = refused \cup {kcur}
  /\ UNCHANGED <<order, contract, sups, bound, kidx, started, nstarts, overlap,
                 rpc, rold, rnew, rhandle, nrebinds>>

StartRaises ==
  /\ kpc = "starting" /\ kcur # None
  /\ pc[kcur]["start"] = "failed"
  /\ kpc' = "failed" /\ kcur' = None
  /\ UNCHANGED <<vars, order, contract, sups, bound, kidx, started, nstarts, overlap, rebindVars>>

\* Ctrl-C cancels the task that runs start().
StartInterrupted ==
  /\ kpc = "starting" /\ kcur # None
  /\ StartCancelled(kcur)
  /\ kpc' = "failed" /\ kcur' = None
  /\ UNCHANGED <<order, contract, sups, bound, kidx, started, nstarts, overlap, rebindVars>>

KernelReady ==
  /\ kpc = "starting" /\ kcur = None
  /\ kidx = Len(order)
  /\ started' = TRUE
  /\ kpc' = "up"
  /\ UNCHANGED <<vars, order, contract, sups, bound, kidx, kcur, nstarts, overlap, rebindVars>>

-----------------------------------------------------------------------------
(* rebind() *)

RebindOver == {"idle", "raised", "refused"}

\* Plausible bug: make room for the twin before it is ready.
Rebind_UnbindsFirst(c) ==
  /\ started /\ kpc = "up"
  /\ rpc \in RebindOver
  /\ nrebinds < MaxRebinds
  /\ nrebinds' = nrebinds + 1
  /\ \E i \in 1..Len(sups) : contract[sups[i]] = c /\ rold' = sups[i]
  /\ \E s \in Sup : NewSupervisor(s, c) /\ rnew' = s
  /\ rpc' = "starting"
  /\ bound' = [bound EXCEPT ![c] = None]
  /\ UNCHANGED <<order, sups, startVars, rhandle, refused>>

\* The session calls rebind() only between turns, never inside stop().
Rebind(c) ==
  /\ started /\ kpc = "up"
  /\ rpc \in RebindOver
  /\ nrebinds < MaxRebinds
  /\ nrebinds' = nrebinds + 1
  /\ \E i \in 1..Len(sups) :
       /\ contract[sups[i]] = c
       /\ \A j \in 1..(i - 1) : contract[sups[j]] # c
       /\ rold' = sups[i]
  /\ \E s \in Sup : NewSupervisor(s, c) /\ rnew' = s
  /\ rpc' = "starting"
  /\ UNCHANGED <<order, sups, bound, startVars, rhandle, refused>>

\* The twin is up.  Its handle is kept in a local across the stop of the old
\* brick, which begins without another await (see KernelNext).
RebindStarted ==
  /\ rpc = "starting"
  /\ StartOk(rnew)
  /\ rhandle' = cur[rnew]["start"]
  /\ rpc' = "swap"
  /\ UNCHANGED <<order, contract, sups, bound, startVars, rold, rnew, nrebinds, refused>>

RebindStopsOld ==
  /\ rpc = "swap"
  /\ IF stopPc[rold] = "idle" THEN StopCalled(rold) ELSE UNCHANGED vars
  /\ rpc' = "stopOld"
  /\ UNCHANGED <<order, contract, sups, bound, startVars, rold, rnew, rhandle, nrebinds, refused>>

\* Plausible bug: do not await the stop of the old brick.
RebindSwaps_NoWait ==
  /\ rpc = "stopOld"
  /\ sups' = [i \in 1..Len(sups) |-> IF sups[i] = rold THEN rnew ELSE sups[i]]
  /\ Bind(contract[rnew], rhandle)
  /\ rpc' = "idle" /\ rold' = None /\ rnew' = None /\ rhandle' = None
  /\ UNCHANGED <<vars, order, contract, startVars, nrebinds, refused>>

TwinListed == sups' = [i \in 1..Len(sups) |-> IF sups[i] = rold THEN rnew ELSE sups[i]]

RebindSwaps ==
  /\ rpc = "stopOld"
  /\ stopPc[rold] = "done"
  /\ TwinListed
  /\ Bind(contract[rnew], rhandle)
  /\ rpc' = "idle" /\ rold' = None /\ rnew' = None /\ rhandle' = None
  /\ UNCHANGED <<vars, order, contract, startVars, nrebinds, refused>>

\* registry.bind refuses the twin when the old brick is gone already.
RebindSwapRefused ==
  /\ rpc = "stopOld"
  /\ stopPc[rold] = "done"
  /\ TwinListed
  /\ rpc' = "refused"
  /\ refused' = refused \cup {rnew}
  /\ UNCHANGED <<vars, order, contract, bound, startVars, rold, rnew, rhandle, nrebinds>>

RebindRaises ==
  /\ rpc = "starting"
  /\ pc[rnew]["start"] = "failed"
  /\ rpc' = "raised"
  /\ UNCHANGED <<vars, order, contract, sups, bound, startVars, rold, rnew, rhandle, nrebinds, refused>>

-----------------------------------------------------------------------------
(* stop() *)

\* Not started: stop() returns at once.
StopIgnored ==
  /\ kpc = "failed" /\ ~started
  /\ kpc' = "stopped"
  /\ UNCHANGED <<vars, order, contract, sups, bound, kidx, kcur, started, nstarts, overlap, rebindVars>>

KernelStop ==
  /\ kpc = "up" /\ started
  /\ kpc' = "stopping" /\ kidx' = Len(sups)
  /\ overlap' = (rpc \notin RebindOver)
  /\ UNCHANGED <<vars, order, contract, sups, bound, kcur, started, nstarts, rebindVars>>

\* Plausible bug: iterate in the order of start.
StopsNext_Forward ==
  /\ kpc = "stopping" /\ kcur = None /\ kidx > 0
  /\ LET s == sups[Len(sups) - kidx + 1]
     IN  /\ kcur' = s
         /\ IF stopPc[s] = "idle" THEN StopCalled(s) ELSE UNCHANGED vars
  /\ UNCHANGED <<order, contract, sups, bound, kpc, kidx, started, nstarts, overlap, rebindVars>>

\* The next supervisor of reversed(_supervisors).  If a rebind is already
\* stopping it, the two calls end together.
StopsNext ==
  /\ kpc = "stopping" /\ kcur = None /\ kidx > 0
  /\ kcur' = sups[kidx]
  /\ IF stopPc[sups[kidx]] = "idle" THEN StopCalled(sups[kidx]) ELSE UNCHANGED vars
  /\ UNCHANGED <<order, contract, sups, bound, kpc, kidx, started, nstarts, overlap, rebindVars>>

\* Plausible bug: the list shrinks while it is iterated.
StopsOne_Skips ==
  /\ kpc = "stopping" /\ kcur # None
  /\ stopPc[kcur] = "done"
  /\ kcur' = None /\ kidx' = IF kidx > 1 THEN kidx - 2 ELSE 0
  /\ UNCHANGED <<vars, order, contract, sups, bound, kpc, started, nstarts, overlap, rebindVars>>

StopsOne ==
  /\ kpc = "stopping" /\ kcur # None
  /\ stopPc[kcur] = "done"
  /\ kcur' = None /\ kidx' = kidx - 1
  /\ UNCHANGED <<vars, order, contract, sups, bound, kpc, started, nstarts, overlap, rebindVars>>

StopUnbinds ==
  /\ kpc = "stopping" /\ kcur = None /\ kidx = 0
  /\ bound' = [c \in Contract |-> None]
  /\ kpc' = "draining"
  /\ UNCHANGED <<vars, order, contract, sups, kidx, kcur, started, nstarts, overlap, rebindVars>>

\* The event handlers have been drained.
KernelStopped ==
  /\ kpc = "draining"
  /\ started' = FALSE
  /\ kpc' = "stopped"
  /\ UNCHANGED <<vars, order, contract, sups, bound, kidx, kcur, nstarts, overlap, rebindVars>>

-----------------------------------------------------------------------------
\* Plausible bug: on_rebind is not wired.
RestartBinds_Unwired(s) ==
  /\ RestartOk(s)
  /\ UNCHANGED <<order, contract, sups, bound, startVars, rebindVars>>

\* on_rebind: a restarted brick is bound in the step that brought it up.
RestartBinds(s) ==
  /\ RestartOk(s)
  /\ Bind(contract[s], cur[s]["crash"])
  /\ UNCHANGED <<order, contract, sups, startVars, rebindVars>>

\* registry.bind refuses the new handle, and nobody hears of it.
RestartBindRefused(s) ==
  /\ RestartOk(s)
  /\ refused' = refused \cup {s}
  /\ UNCHANGED <<order, contract, sups, bound, startVars, rpc, rold, rnew, rhandle, nrebinds>>

Background ==
  /\ \/ \E s \in Sup : SupRuns(s)
     \/ \E p \in Proc : ProcStep(p) \/ ExitNoticed(p)
  /\ UNCHANGED kernelVars

KernelTask ==
  \/ KernelStart \/ StartsNext \/ StartBinds \/ StartBindRefused \/ StartRaises
  \/ StartInterrupted \/ KernelReady
  \/ \E c \in Contract : Rebind(c)
  \/ RebindStarted \/ RebindSwaps \/ RebindSwapRefused \/ RebindRaises
  \/ StopIgnored \/ KernelStop \/ StopsNext \/ StopsOne \/ StopUnbinds
  \/ KernelStopped

\* Nothing is left to run.
KernelFinished ==
  /\ kpc = "stopped"
  /\ \A s \in Sup : pc[s]["crash"] = "idle" /\ crashQ[s] = 0
  /\ \A p \in Proc : os[p] \in {"unborn", "failed", "reaped"}
  /\ UNCHANGED kvars

KernelNext ==
  \/ RebindStopsOld
  \/ /\ rpc # "swap"
     /\ \/ KernelTask \/ Background
        \/ \E s \in Sup : RestartBinds(s) \/ RestartBindRefused(s)
        \/ KernelFinished

KernelSpec == KernelInit /\ [][KernelNext]_kvars

-----------------------------------------------------------------------------
HasRestarted(s) == recent[s] > 0 \/ expired[s] > 0
Listed(s) == \E i \in 1..Len(sups) : sups[i] = s

\* stop() reached s, and no restart of s was past its backoff meanwhile; or s
\* never came up, and no crash handler brought it back.
Settled(s) ==
  IF pc[s]["start"] = "failed" THEN ~HasRestarted(s)
  ELSE /\ stopPc[s] = "done"
       /\ process[s] = stopProc[s]
       /\ pc[s]["crash"] \notin {"spawn", "init", "abort"}

\* Nothing but s speaks for its contract: no handle was refused, no other
\* supervisor restarts a brick for it, and s restarts only if start() bound it.
Speaks(s) ==
  \A r \in Sup : contract[r] = contract[s] =>
    /\ r \notin refused
    /\ r # s => ~HasRestarted(r)
    /\ r < s => ~HasRestarted(s)

\* While the kernel is up every contract resolves to the process its supervisor
\* brought up last, through crashes, restarts and rebinds, failed ones included
\* (unless a twin, or a supervisor that was swapped out, restarts: on_rebind
\* binds whatever comes up).
BoundIsCurrent ==
  (kpc = "up" /\ nstarts = 1) =>
    \A i \in 1..Len(sups) :
      Speaks(sups[i]) => bound[contract[sups[i]]] = process[sups[i]]

\* stop() takes bricks down in the reverse of the order they came up, one at a
\* time: a brick that drives others is stopped before the ones it calls.
StopsInReverse ==
  (kpc = "stopping" /\ ~overlap) =>
    \A i, j \in 1..Len(sups) :
      (i < j /\ stopPc[sups[i]] # "idle") => stopPc[sups[j]] = "done"

\* When stop() of a started kernel has returned, and no rebind overlapped it, it
\* has reached every brick that serves; if no restart slipped past it, nothing
\* that was ever started is running and nothing is bound.
StopReachesAll ==
  (kpc = "stopped" /\ nstarts = 1 /\ Len(sups) = Len(order) /\ ~overlap) =>
    /\ \A i \in 1..Len(sups) : stopPc[sups[i]] = "done"
    /\ (\A s \in Sup : contract[s] # None => Settled(s)) =>
         /\ \A c \in Contract : bound[c] = None
         /\ \A p \in Proc : os[p] # "running"

\* Until its twin is ready, and when the twin does not come up, rebind() leaves
\* the old brick in service: listed, not stopped, bound.
RebindKeepsOld ==
  (kpc = "up" /\ rpc \in {"starting", "raised"}) =>
    /\ Listed(rold) /\ stopPc[rold] = "idle"
    /\ nstarts = 1 /\ Speaks(rold) => bound[contract[rold]] = process[rold]

\* Rebinds leave one brick behind a contract: every one that was replaced has
\* been stopped, every twin that failed is gone.
RebindLeavesOne ==
  (kpc = "up" /\ nstarts = 1) =>
    \A s \in Sup :
      (/\ contract[s] # None /\ ~Listed(s)
       /\ s = rnew => rpc \in RebindOver) =>
        /\ pc[s]["start"] = "failed" \/ stopPc[s] = "done"
        /\ Settled(s) => Running(s) = {}
=============================================================================
