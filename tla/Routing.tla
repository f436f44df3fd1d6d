------------------------------ MODULE Routing ------------------------------
(***************************************************************************)
(* The routing side of the kernel (kernel/runtime.py with                  *)
(* security/capabilities.py, policy.py and permissions.py): who may call   *)
(* whom, how a call travels from a brick through the kernel to another     *)
(* brick, and how its cancellation follows it.                             *)
(*                                                                         *)
(* A capability is a sequence of segments ("contract:memory:search" is     *)
(* <<"contract", "memory", "search">>).  A brick is named by the contract  *)
(* it is bound to.  A call has three legs, each with its own state: the    *)
(* coroutine that waits in the caller (up), the handler in the kernel      *)
(* (mid) and the handler in the target (down); cu and cd are the $/cancel  *)
(* messages on their way to the kernel and to the target.  Starting,       *)
(* rebinding and stopping processes is Kernel's subject: here each is the  *)
(* few steps that change capabilities, bindings and calls.                 *)
(***************************************************************************)
EXTENDS Naturals, Sequences

CONSTANTS
    Bricks,     \* the bricks of the stack, by contract
    Order,      \* the sequence in which start() brings them up
    Host,       \* the program that embeds the kernel
    NoBrick,    \* no newcomer
    Caps,       \* the capabilities of the instance
    Contract,   \* Contract[b]: the capability that calling b takes
    Requires,   \* Requires[b]: what the manifest of b asks for
    Grant,      \* Grant[b], Deny[b]: what the operator's policy grants and
    Deny,       \*   denies b, its own entries and the global ones together
    Modes,      \* the withheld sets restrict_capabilities() is called with
    Rebindable, \* the contracts the session rebinds
    HostCalls,  \* the contracts the host itself calls
    Calls       \* bound: identities of calls, each used once, in order

ASSUME RoutingAssumption ==
    /\ Caps \subseteq Seq(STRING)
    /\ Host \notin Bricks /\ NoBrick \notin Bricks
    /\ Contract \in [Bricks -> Caps]
    /\ Requires \in [Bricks -> SUBSET Caps]
    /\ Grant \in [Bricks -> SUBSET Seq(STRING)]
    /\ Deny \in [Bricks -> SUBSET Seq(STRING)]
    /\ Modes \subseteq SUBSET Caps
    /\ Calls \subseteq Nat
    /\ Rebindable \subseteq Bricks /\ HostCalls \subseteq Bricks
    /\ Order \in Seq(Bricks)
    /\ \A m, n \in 1 .. Len(Order) : Order[m] = Order[n] => m = n

(* Capabilities ***********************************************************)

Covers(g, r) ==
    /\ Len(g) <= Len(r)
    /\ \A n \in 1 .. Len(g) : g[n] = "*" \/ g[n] = r[n]

GrantedByAny(grants, r) == \E g \in grants : Covers(g, r)

\* What policy lets b hold, whatever its manifest asks for.
PolicyAllows(b, c) == GrantedByAny(Grant[b], c) /\ ~ GrantedByAny(Deny[b], c)

ComputeEffective(b, withheld) ==
    {c \in Requires[b] : PolicyAllows(b, c) /\ ~ GrantedByAny(withheld, c)}

(* State ******************************************************************)

VARIABLES
    phase,      \* what the owner of the kernel is doing
    listed,     \* the bricks with a supervisor in Kernel._supervisors
    bound,      \* PluginRegistry._by_contract
    up,         \* the bricks whose process serves
    restricted, \* Kernel._restricted
    effective,  \* Kernel._effective
    held,       \* effective_capabilities of each listed supervisor
    newcomer,   \* the brick being brought up by start() or rebind()
    newHeld,    \* effective_capabilities of the newcomer's supervisor
    calls       \* the calls, by identity

vars == <<phase, listed, bound, up, restricted, effective, held, newcomer, newHeld, calls>>
ownerVars == <<phase, listed, bound, up, restricted, effective, held, newcomer, newHeld>>

Unused == [caller |-> Host, target |-> Host, parent |-> Host,
           up |-> "none", mid |-> "none", down |-> "none", cu |-> FALSE, cd |-> FALSE]

RoutingInit ==
    /\ phase = "down" /\ listed = {} /\ bound = {} /\ up = {} /\ restricted = {}
    /\ effective = [b \in Bricks |-> {}] /\ held = [b \in Bricks |-> {}]
    /\ newcomer = NoBrick /\ newHeld = {}
    /\ calls = [i \in Calls |-> Unused]

Fresh(i) == calls[i].up = "none" /\ \A j \in Calls : j < i => calls[j].up # "none"
Running(i) == calls[i].down = "running"
Children(i) == {j \in Calls : calls[j].parent = i}

\* The process of b ends: what it was serving fails in the kernel, what it
\* was waiting for has nobody left to wait.  The kernel's own handlers for
\* requests of b run on: end of file cancels none of them.
AfterDeath(b) ==
    [i \in Calls |->
        LET c == calls[i]
            served == IF c.target = b /\ c.down # "none"
                      THEN [c EXCEPT !.down = "ended", !.cd = FALSE,
                                     !.mid = IF @ = "forwarded" THEN "done" ELSE @]
                      ELSE c
        IN IF c.caller = b /\ c.up = "waiting"
           THEN [served EXCEPT !.up = "gone"] ELSE served]

(* The owner: one task starts, restricts, rebinds and stops the kernel ****)

\* restrict_capabilities(): before start only the set is kept; after it every
\* brick's capabilities are computed anew from its manifest.
\* Plausible bug: the supervisors keep the lists they were started with.
Restrict_KernelOnly(withheld) ==
    /\ phase \in {"down", "up"} /\ withheld # restricted
    /\ restricted' = withheld
    /\ effective' = [b \in Bricks |-> IF phase = "up" THEN ComputeEffective(b, withheld) ELSE effective[b]]
    /\ UNCHANGED <<phase, listed, bound, up, held, newcomer, newHeld, calls>>

Restrict(withheld) ==
    /\ phase \in {"down", "up"} /\ withheld # restricted
    /\ restricted' = withheld
    /\ IF phase = "up"
       THEN /\ effective' = [b \in Bricks |-> ComputeEffective(b, withheld)]
            /\ held' = effective'
       ELSE UNCHANGED <<effective, held>>
    /\ UNCHANGED <<phase, listed, bound, up, newcomer, newHeld, calls>>

StartNext(b) ==
    /\ phase \in {"down", "starting"} /\ newcomer = NoBrick
    /\ \E n \in 1 .. Len(Order) : Order[n] = b /\ listed = {Order[m] : m \in 1 .. n - 1}
    /\ phase' = "starting" /\ newcomer' = b
    /\ effective' = [effective EXCEPT ![b] = ComputeEffective(b, restricted)]
    /\ newHeld' = effective'[b]
    /\ UNCHANGED <<listed, bound, up, restricted, held, calls>>

StartBinds ==
    /\ phase = "starting" /\ newcomer # NoBrick
    /\ bound' = bound \cup {newcomer} /\ listed' = listed \cup {newcomer} /\ up' = up \cup {newcomer}
    /\ held' = [held EXCEPT ![newcomer] = newHeld]
    /\ phase' = IF listed' = Bricks THEN "up" ELSE "starting"
    /\ newcomer' = NoBrick /\ newHeld' = {}
    /\ UNCHANGED <<restricted, effective, calls>>

StartFails ==
    /\ phase = "starting" /\ newcomer # NoBrick
    /\ phase' = "failed" /\ newcomer' = NoBrick /\ newHeld' = {}
    /\ UNCHANGED <<listed, bound, up, restricted, effective, held, calls>>

\* rebind() computes the twin's capabilities before it starts the twin.
Rebind(b) ==
    /\ phase = "up" /\ phase' = "rebinding" /\ newcomer' = b
    /\ newHeld' = ComputeEffective(b, restricted)
    /\ UNCHANGED <<listed, bound, up, restricted, effective, held, calls>>

RebindFails ==
    /\ phase = "rebinding"
    /\ phase' = "up" /\ newcomer' = NoBrick /\ newHeld' = {}
    /\ UNCHANGED <<listed, bound, up, restricted, effective, held, calls>>

\* The old brick has been stopped; the twin takes its place in the list, in
\* the registry and in _effective.
\* Plausible bug: _effective keeps the old brick's list.
RebindSwaps_KeepsOldList ==
    /\ phase = "rebinding"
    /\ phase' = "up" /\ newcomer' = NoBrick /\ newHeld' = {}
    /\ held' = [held EXCEPT ![newcomer] = newHeld]
    /\ bound' = bound \cup {newcomer} /\ up' = up \cup {newcomer}
    /\ calls' = AfterDeath(newcomer)
    /\ UNCHANGED <<listed, restricted, effective>>

RebindSwaps ==
    /\ phase = "rebinding"
    /\ phase' = "up" /\ newcomer' = NoBrick /\ newHeld' = {}
    /\ held' = [held EXCEPT ![newcomer] = newHeld]
    /\ effective' = [effective EXCEPT ![newcomer] = newHeld]
    /\ bound' = bound \cup {newcomer} /\ up' = up \cup {newcomer}
    /\ calls' = AfterDeath(newcomer)
    /\ UNCHANGED <<listed, restricted>>

\* stop(): every process is stopped, their endpoints are closed, which
\* cancels the kernel's handlers, and the registry is emptied.
KernelStops ==
    /\ phase = "up" /\ phase' = "stopped"
    /\ bound' = {} /\ up' = {}
    /\ calls' = [i \in Calls |->
                   IF calls[i].up = "none" THEN calls[i]
                   ELSE [calls[i] EXCEPT !.up = IF @ = "waiting" THEN "gone" ELSE @, !.mid = "done",
                                         !.down = IF @ = "none" THEN "none" ELSE "ended",
                                         !.cu = FALSE, !.cd = FALSE]]
    /\ UNCHANGED <<listed, restricted, effective, held, newcomer, newHeld>>

(* Bricks come and go by themselves ***************************************)

BrickDies(b) ==
    /\ b \in up /\ up' = up \ {b} /\ calls' = AfterDeath(b)
    /\ UNCHANGED <<phase, listed, bound, restricted, effective, held, newcomer, newHeld>>

\* The supervisor's restart: the same supervisor, with the list it holds.
BrickReturns(b) ==
    /\ b \in bound \ up /\ up' = up \cup {b}
    /\ UNCHANGED <<phase, listed, bound, restricted, effective, held, newcomer, newHeld, calls>>

(* Host services **********************************************************)

\* host.permission.request, by a listed brick or by the newcomer in its
\* on_initialize.  During start() the newcomer's list is the one _effective
\* holds; during rebind() it is not.
\* Plausible bug: what the session withholds is not looked at.
GrantDynamic_Restricted(b, c) ==
    /\ b \in up \/ b = newcomer
    /\ PolicyAllows(b, c) /\ c \notin effective[b]
    /\ effective' = [effective EXCEPT ![b] = @ \cup {c}]
    /\ held' = IF b \in listed THEN [held EXCEPT ![b] = effective'[b]] ELSE held
    /\ newHeld' = IF phase = "starting" /\ b = newcomer THEN effective'[b] ELSE newHeld
    /\ UNCHANGED <<phase, listed, bound, up, restricted, newcomer, calls>>

GrantDynamic(b, c) ==
    /\ b \in up \/ b = newcomer
    /\ ~ GrantedByAny(restricted, c)
    /\ PolicyAllows(b, c) /\ c \notin effective[b]
    /\ effective' = [effective EXCEPT ![b] = @ \cup {c}]
    /\ held' = IF b \in listed THEN [held EXCEPT ![b] = effective'[b]] ELSE held
    /\ newHeld' = IF phase = "starting" /\ b = newcomer THEN effective'[b] ELSE newHeld
    /\ UNCHANGED <<phase, listed, bound, up, restricted, newcomer, calls>>

\* Kernel.call, call_stream: the host is not asked for a capability.
HostCall(i, b) ==
    /\ Fresh(i) /\ b \in bound \cap up /\ phase # "stopped"
    /\ calls' = [calls EXCEPT ![i] = [Unused EXCEPT !.target = b, !.up = "waiting",
                                                    !.mid = "forwarded", !.down = "unread"]]
    /\ UNCHANGED ownerVars

\* Ctrl-C: StreamCall.cancel() or the cancelled await of Endpoint.call.
HostCancels(i) ==
    /\ calls[i].up = "waiting" /\ calls[i].caller = Host
    /\ calls' = [calls EXCEPT ![i].up = "cancelled", ![i].mid = "done",
                              ![i].cd = calls[i].down \in {"unread", "running", "answered"}]
    /\ UNCHANGED ownerVars

\* The handler of call p, in brick b, asks the kernel for another brick.
Ask(i, p, t) ==
    /\ Fresh(i) /\ Running(p)
    /\ \A j \in Children(p) : calls[j].up # "waiting"
    /\ calls' = [calls EXCEPT ![i] = [Unused EXCEPT !.caller = calls[p].target, !.target = t,
                                                    !.parent = p, !.up = "waiting", !.mid = "unread"]]
    /\ UNCHANGED ownerVars

MayCall(b, t) == GrantedByAny(held[b], Contract[t])

\* _forward_contract_call up to the await: the check, the lookup and the
\* write to the target.
Forward(i) ==
    LET c == calls[i] IN
    /\ c.mid = "unread"
    /\ calls' = IF MayCall(c.caller, c.target) /\ c.target \in bound \cap up
                THEN [calls EXCEPT ![i].mid = "forwarded", ![i].down = "unread"]
                ELSE [calls EXCEPT ![i].mid = "done"]
    /\ UNCHANGED ownerVars

\* $/cancel reaches the kernel after the request it is about.  The handler's
\* CancelledError makes Endpoint.call send $/cancel on to the target.
\* Plausible bug: the handler is cancelled and nothing is sent on.
KernelCancels_OneHop(i) ==
    /\ calls[i].cu /\ calls[i].mid # "unread"
    /\ calls' = [calls EXCEPT ![i].cu = FALSE, ![i].mid = "done"]
    /\ UNCHANGED ownerVars

KernelCancels(i) ==
    /\ calls[i].cu /\ calls[i].mid # "unread"
    /\ calls' = [calls EXCEPT ![i].cu = FALSE, ![i].mid = "done",
                              ![i].cd = @ \/ (calls[i].mid = "forwarded" /\ calls[i].down # "ended")]
    /\ UNCHANGED ownerVars

\* The call_timeout of the target's binding.
ForwardTimesOut(i) ==
    /\ calls[i].mid = "forwarded" /\ calls[i].caller # Host
    /\ calls' = [calls EXCEPT ![i].mid = "done", ![i].cd = calls[i].down # "ended"]
    /\ UNCHANGED ownerVars

\* The target's answer, or its failed validation, ends the kernel's handler.
KernelAnswers(i) ==
    /\ calls[i].down = "answered"
    /\ calls' = [calls EXCEPT ![i].down = "ended", ![i].mid = "done"]
    /\ UNCHANGED ownerVars

CallReturns(i) ==
    /\ calls[i].up = "waiting" /\ calls[i].mid = "done"
    /\ calls' = [calls EXCEPT ![i].up = "done"]
    /\ UNCHANGED ownerVars

(* The target *************************************************************)

Accept(i) ==
    /\ calls[i].down = "unread" /\ calls' = [calls EXCEPT ![i].down = "running"]
    /\ UNCHANGED ownerVars

Finish(i) ==
    /\ Running(i) /\ \A j \in Children(i) : calls[j].up # "waiting"
    /\ calls' = [calls EXCEPT ![i].down = "answered"]
    /\ UNCHANGED ownerVars

\* $/cancel cancels the handler; what it awaits is cancelled in its turn.
TargetCancels(i) ==
    /\ calls[i].cd /\ calls[i].down # "unread"
    /\ calls' = [j \in Calls |->
                   IF j = i THEN [calls[i] EXCEPT !.cd = FALSE, !.down = IF @ = "running" THEN "ended" ELSE @]
                   ELSE IF Running(i) /\ j \in Children(i) /\ calls[j].up = "waiting"
                   THEN [calls[j] EXCEPT !.up = "cancelled", !.cu = TRUE]
                   ELSE calls[j]]
    /\ UNCHANGED ownerVars

OwnerNext ==
    \/ \E withheld \in Modes : Restrict(withheld)
    \/ \E b \in Bricks : StartNext(b)
    \/ StartBinds \/ StartFails
    \/ \E b \in Rebindable : Rebind(b)
    \/ RebindFails \/ RebindSwaps \/ KernelStops

CallStep(i) ==
    \/ Forward(i) \/ KernelCancels(i) \/ KernelAnswers(i) \/ CallReturns(i)
    \/ Accept(i) \/ TargetCancels(i)

RoutingNext ==
    \/ OwnerNext
    \/ \E b \in Bricks : BrickDies(b) \/ BrickReturns(b) \/ (\E c \in Caps : GrantDynamic(b, c))
    \/ \E i \in Calls : \/ CallStep(i) \/ Finish(i) \/ HostCancels(i) \/ ForwardTimesOut(i)
                        \/ \E b \in HostCalls : HostCall(i, b)
                        \/ \E p \in Calls, t \in Bricks : Ask(i, p, t)

\* Event loops run what is ready and pipes deliver: every step of a call that
\* is enabled is taken.  Nothing is assumed of handlers (they need not
\* finish), of the host or of the owner.
RoutingSpec == RoutingInit /\ [][RoutingNext]_vars /\ \A i \in Calls : WF_vars(CallStep(i))

(* Properties *************************************************************)

RoutingTypeOK ==
    /\ phase \in {"down", "starting", "up", "rebinding", "failed", "stopped"}
    /\ listed \in SUBSET Bricks /\ bound \in SUBSET Bricks /\ up \in SUBSET Bricks
    /\ restricted \in SUBSET Caps
    /\ effective \in [Bricks -> SUBSET Caps] /\ held \in [Bricks -> SUBSET Caps]
    /\ newcomer \in Bricks \cup {NoBrick} /\ newHeld \in SUBSET Caps

Allowed(b, c) == PolicyAllows(b, c) /\ ~ GrantedByAny(restricted, c)

\* What a supervisor checks calls against is exactly between what the
\* manifest asks for and what policy and the session allow, through starts,
\* mode changes, dynamic grants and rebinds in any order: nothing denied or
\* withheld is ever held, and nothing asked for and allowed is ever lost
\* (_compute_effective, restrict_capabilities, _grant_dynamic, rebind).
HeldIsAllowed ==
    /\ \A b \in listed : /\ ComputeEffective(b, restricted) \subseteq held[b]
                         /\ \A c \in held[b] : Allowed(b, c)
    /\ newcomer # NoBrick => \A c \in newHeld : Allowed(newcomer, c)

\* What the kernel reports of a brick (effective_capabilities) is what its
\* supervisor enforces, although the two lists are kept apart.
ReportedIsHeld == \A b \in listed : effective[b] = held[b]

\* A call is sent on to a brick only when the session does not withhold its
\* contract at that moment, whatever the caller was started with.
WithheldNotForwarded ==
    [][\A i \in Calls : calls[i].mid = "unread" /\ calls'[i].mid = "forwarded"
           => ~ GrantedByAny(restricted, Contract[calls[i].target])]_vars

\* A call that is given up, by the host or by a cancelled handler, ends in the
\* target and so do the calls its handler had made: no hop of the chain keeps
\* working for nobody.  Calls of a brick that died before it was told are the
\* exception ("gone"): the end of a connection cancels nothing.
CancelCascades ==
    \A i \in Calls : calls[i].up = "cancelled" ~>
        /\ calls[i].down \in {"none", "ended"}
        /\ \A j \in Children(i) : calls[j].up = "gone" \/ calls[j].down \in {"none", "ended"}
=============================================================================
