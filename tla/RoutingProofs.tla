--------------------------- MODULE RoutingProofs ---------------------------
(***************************************************************************)
(* What a brick holds is what it asked for and may have: HeldIsAllowed and *)
(* ReportedIsHeld, for any stack, policy, sequence of modes and number of  *)
(* calls.  Nothing is used of Covers but that it is a relation.            *)
(***************************************************************************)
EXTENDS Routing, TLAPS

\* Where the owner is tells whether a newcomer exists and what it holds.
NewcomerInv ==
    /\ phase = "down" => listed = {}
    /\ newcomer # NoBrick => phase \in {"starting", "rebinding"}
    /\ phase = "rebinding" => newcomer # NoBrick
    /\ phase = "starting" /\ newcomer # NoBrick
           => newcomer \notin listed /\ newHeld = effective[newcomer]
    /\ newcomer # NoBrick => ComputeEffective(newcomer, restricted) \subseteq newHeld

RoutingInv == RoutingTypeOK /\ NewcomerInv /\ HeldIsAllowed /\ ReportedIsHeld

\* A mode change computes exactly what a fresh start would.
LEMMA ComputedIsAllowed ==
    ASSUME NEW b \in Bricks, NEW withheld
    PROVE  \A c \in ComputeEffective(b, withheld) :
               PolicyAllows(b, c) /\ ~ GrantedByAny(withheld, c)
  BY DEF ComputeEffective

LEMMA ComputedIsTyped ==
    ASSUME NEW b \in Bricks, NEW withheld
    PROVE  ComputeEffective(b, withheld) \in SUBSET Caps
  BY RoutingAssumption DEF ComputeEffective

LEMMA RoutingInitially == RoutingInit => RoutingInv
  BY RoutingAssumption DEF RoutingInit, RoutingInv, RoutingTypeOK, NewcomerInv, HeldIsAllowed, ReportedIsHeld

\* What may be held and what is computed depend on the withheld set alone.
LEMMA SameWithheld ==
    ASSUME restricted' = restricted
    PROVE  /\ \A b \in Bricks : ComputeEffective(b, restricted)' = ComputeEffective(b, restricted)
           /\ \A b \in Bricks, c \in Caps : Allowed(b, c)' = Allowed(b, c)
  BY DEF Allowed, ComputeEffective, PolicyAllows, GrantedByAny, Covers

\* The newcomer takes over its place in the list with what it holds.
LEMMA NewcomerListed ==
    ASSUME RoutingInv, newcomer \in Bricks, newcomer # NoBrick, newcomer' = NoBrick,
           held' = [held EXCEPT ![newcomer] = newHeld],
           listed' \subseteq listed \cup {newcomer}, restricted' = restricted
    PROVE  HeldIsAllowed'
<1>1. ASSUME NEW e \in listed'
      PROVE  ComputeEffective(e, restricted)' \subseteq held'[e] /\ \A d \in held'[e] : Allowed(e, d)'
  <2>1. e \in Bricks /\ held'[e] = IF e = newcomer THEN newHeld ELSE held[e]
    BY DEF RoutingInv, RoutingTypeOK
  <2>2. held'[e] \subseteq Caps
    BY <2>1 DEF RoutingInv, RoutingTypeOK
  <2>3. ComputeEffective(e, restricted) \subseteq held'[e] /\ \A d \in held'[e] : Allowed(e, d)
    BY <2>1 DEF RoutingInv, HeldIsAllowed, NewcomerInv
  <2> QED BY <2>1, <2>2, <2>3, SameWithheld
<1> QED BY <1>1 DEF HeldIsAllowed

\* The steps that only move calls, or the set of live processes.
LEMMA CallStepsKeepInv ==
    ASSUME RoutingInv, UNCHANGED <<phase, listed, restricted, effective, held, newcomer, newHeld>>,
           bound' \in SUBSET Bricks, up' \in SUBSET Bricks
    PROVE  RoutingInv'
  BY DEF RoutingInv, RoutingTypeOK, NewcomerInv, HeldIsAllowed, ReportedIsHeld, Allowed,
         PolicyAllows, GrantedByAny, Covers, ComputeEffective

LEMMA RestrictKeepsInv ==
    ASSUME RoutingInv, NEW withheld \in Modes, Restrict(withheld)
    PROVE  RoutingInv'
<1>1. withheld \in SUBSET Caps
  BY RoutingAssumption
<1>2. newcomer = NoBrick /\ newcomer' = NoBrick /\ phase' = phase
  BY DEF Restrict, RoutingInv, NewcomerInv
<1>3. CASE phase = "up"
  <2>1. effective' = [b \in Bricks |-> ComputeEffective(b, withheld)] /\ held' = effective'
    BY <1>3 DEF Restrict
  <2>2. RoutingTypeOK'
    BY <2>1, <1>1, <1>2, ComputedIsTyped DEF Restrict, RoutingInv, RoutingTypeOK
  <2>3. HeldIsAllowed' /\ ReportedIsHeld'
    BY <2>1, <1>2, ComputedIsAllowed, <2>2
    DEF HeldIsAllowed, ReportedIsHeld, Allowed, RoutingTypeOK, Restrict, PolicyAllows, GrantedByAny, Covers, ComputeEffective
  <2>4. NewcomerInv'
    BY <1>2, <1>3 DEF NewcomerInv
  <2> QED BY <2>2, <2>3, <2>4 DEF RoutingInv
<1>4. CASE phase = "down"
  <2>1. listed = {} /\ listed' = {} /\ UNCHANGED <<effective, held>>
    BY <1>4 DEF Restrict, RoutingInv, NewcomerInv
  <2> QED
    BY <1>1, <1>2, <1>4, <2>1
    DEF Restrict, RoutingInv, RoutingTypeOK, NewcomerInv, HeldIsAllowed, ReportedIsHeld
<1> QED BY <1>3, <1>4 DEF Restrict

LEMMA StartNextKeepsInv ==
    ASSUME RoutingInv, NEW b \in Bricks, StartNext(b)
    PROVE  RoutingInv'
<1>1. b \notin listed
  BY RoutingAssumption DEF StartNext
<1>2. /\ effective' = [effective EXCEPT ![b] = ComputeEffective(b, restricted)]
      /\ newHeld' = ComputeEffective(b, restricted) /\ newcomer' = b /\ newcomer' # NoBrick
      /\ UNCHANGED <<listed, bound, up, restricted, held>> /\ phase' = "starting"
  BY RoutingAssumption DEF StartNext, RoutingInv, RoutingTypeOK
<1>3. RoutingTypeOK'
  BY <1>2, ComputedIsTyped DEF RoutingInv, RoutingTypeOK
<1>4. NewcomerInv'
  BY <1>1, <1>2 DEF NewcomerInv, RoutingInv, RoutingTypeOK, ComputeEffective, PolicyAllows, GrantedByAny, Covers
<1>5. HeldIsAllowed' /\ ReportedIsHeld'
  BY <1>1, <1>2, ComputedIsAllowed
  DEF HeldIsAllowed, ReportedIsHeld, Allowed, RoutingInv, RoutingTypeOK, ComputeEffective, PolicyAllows, GrantedByAny, Covers
<1> QED BY <1>3, <1>4, <1>5 DEF RoutingInv

LEMMA StartBindsKeepsInv ==
    ASSUME RoutingInv, StartBinds
    PROVE  RoutingInv'
<1>1. newcomer \in Bricks /\ newHeld = effective[newcomer] /\ newHeld \in SUBSET Caps
  BY DEF StartBinds, RoutingInv, RoutingTypeOK, NewcomerInv
<1>2. RoutingTypeOK'
  BY <1>1 DEF StartBinds, RoutingInv, RoutingTypeOK
<1>3. NewcomerInv'
  BY DEF StartBinds, NewcomerInv, RoutingInv
<1>4. HeldIsAllowed'
  BY <1>1, NewcomerListed DEF StartBinds
<1>5. ReportedIsHeld'
  BY <1>1 DEF StartBinds, ReportedIsHeld, RoutingInv, RoutingTypeOK
<1> QED BY <1>2, <1>3, <1>4, <1>5 DEF RoutingInv

LEMMA RebindKeepsInv ==
    ASSUME RoutingInv, \/ \E b \in Rebindable : Rebind(b)
                       \/ RebindFails \/ RebindSwaps
    PROVE  RoutingInv'
<1>1. ASSUME NEW b \in Rebindable, Rebind(b) PROVE RoutingInv'
  <2>1. b \in Bricks /\ b # NoBrick
    BY RoutingAssumption
  <2>2. /\ newHeld' = ComputeEffective(b, restricted) /\ newcomer' = b /\ phase' = "rebinding"
        /\ UNCHANGED <<listed, bound, up, restricted, effective, held>>
    BY <1>1 DEF Rebind
  <2>3. RoutingTypeOK'
    BY <2>1, <2>2, ComputedIsTyped DEF RoutingInv, RoutingTypeOK
  <2>4. NewcomerInv'
    BY <2>1, <2>2 DEF NewcomerInv, ComputeEffective, PolicyAllows, GrantedByAny, Covers
  <2>5. HeldIsAllowed' /\ ReportedIsHeld'
    BY <2>1, <2>2, ComputedIsAllowed
    DEF HeldIsAllowed, ReportedIsHeld, Allowed, RoutingInv, ComputeEffective, PolicyAllows, GrantedByAny, Covers
  <2> QED BY <2>3, <2>4, <2>5 DEF RoutingInv
<1>2. CASE RebindFails
  BY <1>2, RoutingAssumption
  DEF RebindFails, RoutingInv, RoutingTypeOK, NewcomerInv, HeldIsAllowed, ReportedIsHeld, Allowed,
      ComputeEffective, PolicyAllows, GrantedByAny, Covers
<1>3. CASE RebindSwaps
  <2>1. newcomer \in Bricks /\ newHeld \in SUBSET Caps /\ newcomer # NoBrick
    BY <1>3 DEF RebindSwaps, RoutingInv, RoutingTypeOK, NewcomerInv
  <2>2. RoutingTypeOK'
    BY <1>3, <2>1 DEF RebindSwaps, RoutingInv, RoutingTypeOK
  <2>3. NewcomerInv'
    BY <1>3 DEF RebindSwaps, NewcomerInv
  <2>4. HeldIsAllowed'
    BY <1>3, <2>1, NewcomerListed DEF RebindSwaps
  <2>5. ReportedIsHeld'
    BY <1>3, <2>1 DEF RebindSwaps, ReportedIsHeld, RoutingInv, RoutingTypeOK
  <2> QED BY <2>2, <2>3, <2>4, <2>5 DEF RoutingInv
<1> QED BY <1>1, <1>2, <1>3

LEMMA GrantDynamicKeepsInv ==
    ASSUME RoutingInv, NEW b \in Bricks, NEW c \in Caps, GrantDynamic(b, c)
    PROVE  RoutingInv'
<1>1. Allowed(b, c) /\ Allowed(b, c)'
  BY DEF GrantDynamic, Allowed, PolicyAllows, GrantedByAny, Covers
<1>2. /\ effective' = [effective EXCEPT ![b] = @ \cup {c}]
      /\ held' = IF b \in listed THEN [held EXCEPT ![b] = effective'[b]] ELSE held
      /\ newHeld' = IF phase = "starting" /\ b = newcomer THEN effective'[b] ELSE newHeld
      /\ UNCHANGED <<phase, listed, bound, up, restricted, newcomer>>
  BY DEF GrantDynamic
<1>3. RoutingTypeOK'
  BY <1>2 DEF RoutingInv, RoutingTypeOK
<1>4. NewcomerInv'
  BY <1>2 DEF NewcomerInv, RoutingInv, RoutingTypeOK, ComputeEffective, PolicyAllows, GrantedByAny, Covers
<1>5. ReportedIsHeld'
  BY <1>2 DEF ReportedIsHeld, RoutingInv, RoutingTypeOK
<1>6. \A d \in Caps, e \in Bricks : Allowed(e, d)' = Allowed(e, d)
  BY <1>2 DEF Allowed, PolicyAllows, GrantedByAny, Covers
<1>7. \A e \in Bricks : ComputeEffective(e, restricted)' = ComputeEffective(e, restricted)
  BY <1>2 DEF ComputeEffective, PolicyAllows, GrantedByAny, Covers
<1>8. ASSUME NEW e \in listed
      PROVE  ComputeEffective(e, restricted)' \subseteq held'[e] /\ \A d \in held'[e] : Allowed(e, d)'
  <2>1. e \in Bricks /\ held[e] = effective[e] /\ held[e] \subseteq Caps
    BY <1>8 DEF RoutingInv, RoutingTypeOK, ReportedIsHeld
  <2>2. held'[e] = IF e = b THEN held[e] \cup {c} ELSE held[e]
    BY <1>2, <1>8, <2>1 DEF RoutingInv, RoutingTypeOK
  <2> QED BY <1>1, <1>6, <1>7, <1>8, <2>1, <2>2 DEF RoutingInv, HeldIsAllowed
<1>9. ASSUME newcomer' # NoBrick, NEW d \in newHeld' PROVE Allowed(newcomer, d)'
  <2>1. newcomer \in Bricks /\ newcomer = newcomer'
    BY <1>2, <1>9 DEF RoutingInv, RoutingTypeOK
  <2>2. d \in newHeld \/ (d = c /\ newcomer = b)
    BY <1>2, <1>9, <2>1 DEF RoutingInv, RoutingTypeOK, NewcomerInv
  <2>3. newHeld \subseteq Caps
    BY DEF RoutingInv, RoutingTypeOK
  <2> QED BY <1>1, <1>6, <1>9, <2>1, <2>2, <2>3 DEF RoutingInv, HeldIsAllowed
<1>10. HeldIsAllowed'
  BY <1>2, <1>8, <1>9 DEF HeldIsAllowed
<1> QED BY <1>3, <1>4, <1>5, <1>10 DEF RoutingInv

LEMMA RoutingStep == RoutingInv /\ [RoutingNext]_vars => RoutingInv'
<1> SUFFICES ASSUME RoutingInv, [RoutingNext]_vars PROVE RoutingInv'
  OBVIOUS
<1>1. CASE UNCHANGED vars
  BY <1>1, CallStepsKeepInv DEF vars, RoutingInv, RoutingTypeOK
<1>2. CASE \E withheld \in Modes : Restrict(withheld)
  BY <1>2, RestrictKeepsInv
<1>3. CASE \E b \in Bricks : StartNext(b)
  BY <1>3, StartNextKeepsInv
<1>4. CASE StartBinds
  BY <1>4, StartBindsKeepsInv
<1>5. CASE StartFails
  BY <1>5, RoutingAssumption
  DEF StartFails, RoutingInv, RoutingTypeOK, NewcomerInv, HeldIsAllowed, ReportedIsHeld, Allowed,
      ComputeEffective, PolicyAllows, GrantedByAny, Covers
<1>6. CASE (\E b \in Rebindable : Rebind(b)) \/ RebindFails \/ RebindSwaps
  BY <1>6, RebindKeepsInv
<1>7. CASE KernelStops
  BY <1>7, RoutingAssumption
  DEF KernelStops, RoutingInv, RoutingTypeOK, NewcomerInv, HeldIsAllowed, ReportedIsHeld, Allowed,
      ComputeEffective, PolicyAllows, GrantedByAny, Covers
<1>8. CASE \E b \in Bricks : BrickDies(b) \/ BrickReturns(b)
  BY <1>8, CallStepsKeepInv DEF BrickDies, BrickReturns, RoutingInv, RoutingTypeOK
<1>9. CASE \E b \in Bricks, c \in Caps : GrantDynamic(b, c)
  BY <1>9, GrantDynamicKeepsInv
<1>10. ASSUME NEW i \in Calls,
              \/ CallStep(i) \/ Finish(i) \/ HostCancels(i) \/ ForwardTimesOut(i)
              \/ \E b \in HostCalls : HostCall(i, b)
              \/ \E p \in Calls, t \in Bricks : Ask(i, p, t)
       PROVE  RoutingInv'
  <2>1. UNCHANGED ownerVars
    BY <1>10 DEF CallStep, Forward, KernelCancels, KernelAnswers, CallReturns, Accept, TargetCancels,
                 Finish, HostCancels, ForwardTimesOut, HostCall, Ask
  <2> QED BY <2>1, CallStepsKeepInv DEF ownerVars, RoutingInv, RoutingTypeOK
<1> QED
  BY <1>1, <1>2, <1>3, <1>4, <1>5, <1>6, <1>7, <1>8, <1>9, <1>10 DEF RoutingNext, OwnerNext

\* At every moment a supervisor checks calls against all that its brick asked
\* for and may have, and nothing that policy denies or the session withholds
\* (restrict_capabilities, _grant_dynamic, start and rebind, in any order).
THEOREM HeldAlwaysAllowed == RoutingSpec => []HeldIsAllowed
<1>1. RoutingInv => HeldIsAllowed
  BY DEF RoutingInv
<1> QED BY <1>1, RoutingInitially, RoutingStep, PTL DEF RoutingSpec

\* What the kernel reports of a listed brick is what its supervisor enforces.
THEOREM ReportedAlwaysHeld == RoutingSpec => []ReportedIsHeld
<1>1. RoutingInv => ReportedIsHeld
  BY DEF RoutingInv
<1> QED BY <1>1, RoutingInitially, RoutingStep, PTL DEF RoutingSpec

(* What is forwarded *******************************************************)

\* No brick names, and none asks for, a capability wider than a contract: true
\* of every manifest of the repository, although "contract:*" would be legal.
NoWiderCapability == \A b \in Bricks, c \in Caps : Covers(c, Contract[b]) => c = Contract[b]

\* Even the list of a brick that is not in the stack yet holds nothing that is
\* withheld: it is empty until the brick is listed.
NothingWithheldHeld ==
    /\ phase = "down" => held = [b \in Bricks |-> {}]
    /\ \A b \in Bricks : \A c \in held[b] : Allowed(b, c)

\* A call the kernel has yet to look at came from a brick, not from the host.
FromBrick(c) ==
    /\ DOMAIN c = {"caller", "target", "parent", "up", "mid", "down", "cu", "cd"}
    /\ c.up = "none" => c.mid = "none" /\ c.down = "none" /\ c.cu = FALSE
    /\ c.mid = "unread" => c.caller \in Bricks
    /\ c.up # "none" => c.target \in Bricks

CallsFromBricks == calls = [i \in Calls |-> calls[i]] /\ \A i \in Calls : FromBrick(calls[i])

ForwardInv == RoutingInv /\ NothingWithheldHeld /\ CallsFromBricks

LEMMA ForwardInitially == RoutingInit => ForwardInv
<1> SUFFICES ASSUME RoutingInit PROVE NothingWithheldHeld /\ CallsFromBricks
  BY RoutingInitially DEF ForwardInv
<1> QED BY DEF RoutingInit, NothingWithheldHeld, CallsFromBricks, FromBrick, Unused

LEMMA HeldStaysAllowed ==
    ASSUME RoutingInv, NothingWithheldHeld, [RoutingNext]_vars
    PROVE  NothingWithheldHeld'
<1>1. ASSUME NEW withheld \in Modes, Restrict(withheld) PROVE NothingWithheldHeld'
  <2>1. CASE phase = "up"
    BY <1>1, <2>1, RoutingAssumption
    DEF Restrict, NothingWithheldHeld, ComputeEffective, Allowed, PolicyAllows, GrantedByAny, Covers
  <2>2. CASE phase = "down"
    BY <1>1, <2>2 DEF Restrict, NothingWithheldHeld
  <2> QED BY <1>1, <2>1, <2>2 DEF Restrict
<1>2. ASSUME restricted' = restricted, held' = held, phase' = "down" => phase = "down"
      PROVE  NothingWithheldHeld'
  BY <1>2 DEF NothingWithheldHeld, Allowed, PolicyAllows, GrantedByAny, Covers
<1>3. CASE StartBinds \/ RebindSwaps
  <2>1. newcomer \in Bricks /\ restricted' = restricted /\ phase' # "down"
        /\ held' = [held EXCEPT ![newcomer] = newHeld]
    BY <1>3 DEF StartBinds, RebindSwaps, RoutingInv, RoutingTypeOK, NewcomerInv
  <2>2. \A c \in newHeld : Allowed(newcomer, c)
    BY <1>3 DEF StartBinds, RebindSwaps, RoutingInv, NewcomerInv, HeldIsAllowed
  <2>3. \A b \in Bricks : held'[b] = IF b = newcomer THEN newHeld ELSE held[b]
    BY <2>1 DEF RoutingInv, RoutingTypeOK
  <2>4. ASSUME NEW b \in Bricks, NEW c \in held'[b] PROVE Allowed(b, c)'
    <3>1. Allowed(b, c)
      BY <2>1, <2>2, <2>3, <2>4 DEF NothingWithheldHeld
    <3> QED BY <2>1, <3>1 DEF Allowed, PolicyAllows, GrantedByAny, Covers
  <2> QED BY <2>1, <2>4 DEF NothingWithheldHeld
<1>4. ASSUME NEW b \in Bricks, NEW c \in Caps, GrantDynamic(b, c) PROVE NothingWithheldHeld'
  <2>1. Allowed(b, c) /\ restricted' = restricted /\ phase' = phase
    BY <1>4 DEF GrantDynamic, Allowed
  <2>2. CASE b \notin listed
    BY <1>2, <1>4, <2>2 DEF GrantDynamic
  <2>3. CASE b \in listed
    <3>1. held' = [held EXCEPT ![b] = effective[b] \cup {c}] /\ effective[b] = held[b] /\ phase # "down"
      BY <1>4, <2>3 DEF GrantDynamic, RoutingInv, RoutingTypeOK, ReportedIsHeld, NewcomerInv
    <3>2. ASSUME NEW e \in Bricks, NEW d \in held'[e] PROVE Allowed(e, d)'
      <4>1. Allowed(e, d)
        BY <2>1, <3>1, <3>2 DEF NothingWithheldHeld, RoutingInv, RoutingTypeOK
      <4> QED BY <2>1, <4>1 DEF Allowed, PolicyAllows, GrantedByAny, Covers
    <3> QED BY <2>1, <3>1, <3>2 DEF NothingWithheldHeld
  <2> QED BY <2>2, <2>3
<1>5. CASE OwnerNext
  BY <1>1, <1>2, <1>3, <1>5
  DEF OwnerNext, StartNext, StartFails, Rebind, RebindFails, KernelStops
<1>6. CASE UNCHANGED vars
  BY <1>2, <1>6 DEF vars
<1>7. ASSUME NEW b \in Bricks, BrickDies(b) \/ BrickReturns(b) PROVE NothingWithheldHeld'
  BY <1>2, <1>7 DEF BrickDies, BrickReturns
<1>8. ASSUME UNCHANGED ownerVars PROVE NothingWithheldHeld'
  BY <1>2, <1>8 DEF ownerVars
<1>9. CASE \E i \in Calls : \/ CallStep(i) \/ Finish(i) \/ HostCancels(i) \/ ForwardTimesOut(i)
                            \/ \E b \in HostCalls : HostCall(i, b)
                            \/ \E p \in Calls, t \in Bricks : Ask(i, p, t)
  BY <1>8, <1>9 DEF CallStep, Forward, KernelCancels, KernelAnswers, CallReturns, Accept, TargetCancels,
                    Finish, HostCancels, ForwardTimesOut, HostCall, Ask
<1> QED BY <1>4, <1>5, <1>6, <1>7, <1>9 DEF RoutingNext

\* The end of a process, and stop(), only end calls.
LEMMA DeathEnds ==
    ASSUME CallsFromBricks, NEW b, calls' = AfterDeath(b) \/ KernelStops
    PROVE  CallsFromBricks' /\ \A i \in Calls : calls[i].mid = "unread" => calls'[i].mid # "forwarded"
<1> SUFFICES ASSUME NEW i \in Calls
             PROVE  FromBrick(calls'[i]) /\ (calls[i].mid = "unread" => calls'[i].mid # "forwarded")
  BY DEF CallsFromBricks, FromBrick, AfterDeath, KernelStops
<1> DEFINE c == calls[i]
           served == IF c.target = b /\ c.down # "none"
                     THEN [c EXCEPT !.down = "ended", !.cd = FALSE,
                                    !.mid = IF @ = "forwarded" THEN "done" ELSE @]
                     ELSE c
<1>1. FromBrick(c)
  BY DEF CallsFromBricks
<1>2. CASE calls' = AfterDeath(b)
  <2>1. calls'[i] = IF c.caller = b /\ c.up = "waiting" THEN [served EXCEPT !.up = "gone"] ELSE served
    BY <1>2 DEF AfterDeath
  <2>2. FromBrick(served) /\ served.up = c.up /\ (c.mid = "unread" => served.mid # "forwarded")
    BY <1>1 DEF FromBrick
  <2> HIDE DEF served
  <2> QED BY <1>1, <2>1, <2>2 DEF FromBrick
<1>3. CASE KernelStops
  <2>1. c.up = "none" => calls'[i] = c
    BY <1>3 DEF KernelStops
  <2>2. c.up # "none" => calls'[i].mid = "done" /\ FromBrick(calls'[i])
    BY <1>1, <1>3 DEF KernelStops, FromBrick
  <2> QED BY <1>1, <2>1, <2>2 DEF FromBrick
<1> QED BY <1>2, <1>3

\* A call is forwarded only after the check.
Checked(i) == calls[i].mid = "unread" /\ calls'[i].mid = "forwarded" => MayCall(calls[i].caller, calls[i].target)

LEMMA CallStepsCheck ==
    ASSUME CallsFromBricks, NEW i \in Calls,
           \/ CallStep(i) \/ Finish(i) \/ HostCancels(i) \/ ForwardTimesOut(i)
           \/ \E b \in HostCalls : HostCall(i, b)
           \/ \E p \in Calls, t \in Bricks : Ask(i, p, t)
    PROVE  CallsFromBricks' /\ \A j \in Calls : Checked(j)
<1>1. calls' = [j \in Calls |-> calls'[j]]
  BY DEF CallsFromBricks, CallStep, Forward, KernelCancels, KernelAnswers, CallReturns, Accept, TargetCancels,
         Finish, HostCancels, ForwardTimesOut, HostCall, Ask
<1> SUFFICES ASSUME NEW j \in Calls PROVE FromBrick(calls'[j]) /\ Checked(j)
  BY <1>1 DEF CallsFromBricks
<1>2. FromBrick(calls[i]) /\ FromBrick(calls[j])
  BY DEF CallsFromBricks
<1>3. CASE calls'[j] = calls[j]
  BY <1>2, <1>3 DEF FromBrick, Checked
<1>4. CASE TargetCancels(i)
  BY <1>2, <1>4 DEF TargetCancels, FromBrick, CallsFromBricks, Checked
<1>5. CASE ~ TargetCancels(i) /\ j # i
  BY <1>3, <1>5 DEF CallsFromBricks, CallStep, Forward, KernelCancels, KernelAnswers, CallReturns, Accept,
         Finish, HostCancels, ForwardTimesOut, HostCall, Ask
<1>6. CASE j = i
  <2>1. CASE Forward(i)
    BY <1>2, <1>6, <2>1 DEF Forward, FromBrick, CallsFromBricks, Checked
  <2>2. CASE KernelCancels(i)
    BY <1>2, <1>6, <2>2 DEF KernelCancels, FromBrick, CallsFromBricks, Checked
  <2>3. CASE KernelAnswers(i) \/ CallReturns(i) \/ Accept(i)
    BY <1>2, <1>6, <2>3 DEF KernelAnswers, CallReturns, Accept, FromBrick, CallsFromBricks, Checked
  <2>4. CASE Finish(i) \/ ForwardTimesOut(i)
    BY <1>2, <1>6, <2>4 DEF Finish, Running, ForwardTimesOut, FromBrick, CallsFromBricks, Checked
  <2>5. CASE HostCancels(i)
    BY <1>2, <1>6, <2>5 DEF HostCancels, FromBrick, CallsFromBricks, Checked
  <2>6. ASSUME NEW b \in HostCalls, HostCall(i, b) PROVE FromBrick(calls'[j]) /\ Checked(j)
    BY <1>2, <1>6, <2>6, RoutingAssumption DEF HostCall, Fresh, Unused, FromBrick, CallsFromBricks, Checked
  <2>7. ASSUME NEW p \in Calls, NEW t \in Bricks, Ask(i, p, t) PROVE FromBrick(calls'[j]) /\ Checked(j)
    <3>1. calls[p].target \in Bricks
      BY <2>7 DEF Ask, Running, FromBrick, CallsFromBricks
    <3> QED BY <1>2, <1>6, <2>7, <3>1 DEF Ask, Fresh, Unused, FromBrick, CallsFromBricks, Checked
  <2> QED BY <1>4, <1>6, <2>1, <2>2, <2>3, <2>4, <2>5, <2>6, <2>7 DEF CallStep
<1> QED BY <1>4, <1>5, <1>6

LEMMA ForwardStep ==
    ASSUME CallsFromBricks, [RoutingNext]_vars
    PROVE  CallsFromBricks' /\ \A i \in Calls : Checked(i)
<1>1. ASSUME UNCHANGED calls PROVE CallsFromBricks' /\ \A i \in Calls : Checked(i)
  BY <1>1 DEF CallsFromBricks, FromBrick, Checked
<1>2. ASSUME NEW b, calls' = AfterDeath(b) \/ KernelStops PROVE CallsFromBricks' /\ \A i \in Calls : Checked(i)
  BY <1>2, DeathEnds DEF Checked
<1>3. CASE OwnerNext
  BY <1>1, <1>2, <1>3 DEF OwnerNext, Restrict, StartNext, StartBinds, StartFails, Rebind, RebindFails, RebindSwaps
<1>4. ASSUME NEW b \in Bricks, BrickDies(b) \/ BrickReturns(b) \/ \E c \in Caps : GrantDynamic(b, c)
      PROVE  CallsFromBricks' /\ \A i \in Calls : Checked(i)
  BY <1>1, <1>2, <1>4 DEF BrickDies, BrickReturns, GrantDynamic
<1>5. CASE UNCHANGED vars
  BY <1>1, <1>5 DEF vars
<1> QED BY <1>3, <1>4, <1>5, CallStepsCheck DEF RoutingNext

\* A call goes on to a brick only if the session does not withhold its contract
\* at that moment, through every change of mode, restart, rebind and dynamic
\* grant (runtime.py:245-291), as long as no capability is wider than a contract.
THEOREM WithheldNeverForwarded == NoWiderCapability => (RoutingSpec => WithheldNotForwarded)
<1> SUFFICES ASSUME NoWiderCapability PROVE RoutingSpec => WithheldNotForwarded
  OBVIOUS
<1>1. ForwardInv /\ [RoutingNext]_vars => ForwardInv'
  BY RoutingStep, HeldStaysAllowed, ForwardStep DEF ForwardInv
<1>2. ASSUME ForwardInv, [RoutingNext]_vars, NEW i \in Calls, calls[i].mid = "unread", calls'[i].mid = "forwarded"
      PROVE  ~ GrantedByAny(restricted, Contract[calls[i].target])
  <2>1. MayCall(calls[i].caller, calls[i].target)
    BY <1>2, ForwardStep DEF ForwardInv, Checked
  <2>2. calls[i].caller \in Bricks /\ calls[i].target \in Bricks
    BY <1>2 DEF ForwardInv, CallsFromBricks, FromBrick
  <2>3. PICK g \in held[calls[i].caller] : Covers(g, Contract[calls[i].target])
    BY <2>1 DEF MayCall, GrantedByAny
  <2>4. g \in Caps
    BY <1>2, <2>2 DEF ForwardInv, RoutingInv, RoutingTypeOK
  <2>5. g = Contract[calls[i].target]
    BY <2>2, <2>3, <2>4 DEF NoWiderCapability
  <2> QED BY <1>2, <2>2, <2>5 DEF ForwardInv, NothingWithheldHeld, Allowed
<1>3. ForwardInv /\ [RoutingNext]_vars =>
        [\A i \in Calls : calls[i].mid = "unread" /\ calls'[i].mid = "forwarded"
             => ~ GrantedByAny(restricted, Contract[calls[i].target])]_vars
  BY <1>2
<1> QED BY ForwardInitially, <1>1, <1>3, PTL DEF RoutingSpec, WithheldNotForwarded
=============================================================================
