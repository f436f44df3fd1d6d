--------------------------- MODULE SessionProofs ---------------------------
(***************************************************************************)
(* What holds of the interactive session for any stacks, models, modes and  *)
(* number of kernels.  The invariant says which kernel the session drives   *)
(* and what it withholds at each point of a switch; "exit" and "retire" are *)
(* left out of the restriction, as the kernel that is live is then on its   *)
(* way out.                                                                 *)
(***************************************************************************)
EXTENDS Session, TLAPS

Withholdings == {Withheld[m] : m \in Modes} \cup {Unrestricted}
\* What a stack file names, nothing for one that is not there.
Model == Models \cup {Absent}
KernelState == [stack : Stacks, model : Model, started : BOOLEAN, bricks : BOOLEAN,
                withheld : Withholdings]
Names == {StackName[s] : s \in Stacks}
Context == [kernel : Nat, stack : Stacks, model : Model, mode : Modes, applied : BOOLEAN, store : BOOLEAN]
SessionRecord == [name : Names, model : Model, mode : Modes]

SessionTypeOK ==
    /\ kern \in Seq(KernelState) /\ ctx \in Context
    /\ record \in SessionRecord \cup {Absent}
    /\ files \in [Stacks -> Model]
    /\ chosen \in BOOLEAN
    /\ Doing("rebind") => at.model \in Models
    /\ at.op \in {"ask", "env", "config"} => at.boot \in BOOLEAN
    /\ Doing("start") => at.then \in {"goal", "model", "compact", "once"}

\* A session is open: its kernel has been made.
InSession ==
    \/ at.op \in {"prompt", "goal", "running", "model", "compact", "rebind", "switch", "retire"}
    \/ Doing("start") /\ at.then # "once"
    \/ at.op \in {"ask", "env", "config"} /\ ~ at.boot

Kernels ==
    /\ InSession \/ Doing("start") \/ Doing("once") => ctx.kernel \in DOMAIN kern
    /\ Doing("exit") => at.live \in DOMAIN kern
    /\ at.op \in {"switch", "retire"} => at.target \in DOMAIN kern /\ at.target # ctx.kernel

Restrictions ==
    /\ Doing("goal") \/ Doing("switch") => Live.started
    /\ Doing("running") => ctx.applied
    /\ InSession /\ ~ Doing("retire") /\ ctx.applied => Live.started /\ Live.withheld = Withheld[ctx.mode]
    /\ Doing("retire") => kern[at.target].started /\ kern[at.target].withheld = Withheld[ctx.mode]

SetUp == chosen \/ Doing("env") \/ Doing("config") => files[UserStack] # Absent

SessionInv == SessionTypeOK /\ Kernels /\ Restrictions /\ SetUp

\* start() brings a kernel up, a failed start and stop() do not; none of them
\* changes what it withholds (runtime.py:79-108, 156-164).
LEMMA StartAndStop ==
    ASSUME NEW k \in KernelState, NEW some \in BOOLEAN
    PROVE  /\ Up(k) \in KernelState /\ Up(k).started /\ Up(k).withheld = k.withheld
           /\ HalfUp(k, some) \in KernelState
           /\ HalfUp(k, some).started = k.started /\ HalfUp(k, some).withheld = k.withheld
           /\ Stopped(k) \in KernelState
  BY DEF KernelState, Withholdings, Up, HalfUp, Stopped

\* A restriction, and a new model, leave a kernel as much up as it was
\* (runtime.py:245-263, 116-154).
LEMMA RestrictAndRebind ==
    ASSUME NEW k \in KernelState, NEW mode \in Modes, NEW m \in Model
    PROVE  /\ Restricted(k, mode) \in KernelState
           /\ Restricted(k, mode).started = k.started /\ Restricted(k, mode).withheld = Withheld[mode]
           /\ [k EXCEPT !.model = m] \in KernelState
           /\ [k EXCEPT !.model = m].started = k.started
           /\ [k EXCEPT !.model = m].withheld = k.withheld
  BY DEF KernelState, Withholdings, Restricted

\* A new kernel is not up and withholds nothing (runtime.py __init__).
LEMMA NewKernel ==
    ASSUME NEW s \in Stacks, NEW m \in Model
    PROVE  Made(s, m) \in KernelState
  BY DEF Made, KernelState, Withholdings

\* Replacing one kernel of the list leaves the others as they are.
LEMMA ReplaceKernel ==
    ASSUME NEW q \in Seq(KernelState), NEW i \in DOMAIN q, NEW k \in KernelState
    PROVE  /\ [q EXCEPT ![i] = k] \in Seq(KernelState)
           /\ DOMAIN [q EXCEPT ![i] = k] = DOMAIN q
           /\ [q EXCEPT ![i] = k][i] = k
           /\ \A j \in DOMAIN q : j # i => [q EXCEPT ![i] = k][j] = q[j]
  OBVIOUS

\* A kernel that is added gets a place of its own.
LEMMA AddKernel ==
    ASSUME NEW q \in Seq(KernelState), NEW k \in KernelState
    PROVE  /\ Append(q, k) \in Seq(KernelState)
           /\ Len(Append(q, k)) \in DOMAIN Append(q, k)
           /\ Len(Append(q, k)) \notin DOMAIN q
           /\ Append(q, k)[Len(Append(q, k))] = k
           /\ \A j \in DOMAIN q : j \in DOMAIN Append(q, k) /\ Append(q, k)[j] = q[j]
  OBVIOUS

LEMMA FirstKernel ==
    ASSUME NEW q \in Seq(KernelState), NEW i \in DOMAIN q
    PROVE  1 \in DOMAIN q
  OBVIOUS

LEMMA InitInv == SessionInit => SessionInv
  <1> SUFFICES ASSUME SessionInit PROVE SessionInv
    OBVIOUS
  <1>1. ctx \in Context
    BY SessionAssumption DEF SessionInit, Opened, Context, Model
  <1>2. kern \in Seq(KernelState) /\ at.op = "closed" /\ chosen = FALSE
        /\ record = Absent /\ files \in [Stacks -> Model]
    BY SessionAssumption DEF SessionInit, Closed, Model
  <1> QED
    BY <1>1, <1>2
    DEF SessionInv, SessionTypeOK, Kernels, Restrictions, SetUp, InSession, Doing

\* What a save leaves is a record, whoever writes it.
LEMMA SaveTyped ==
    ASSUME SessionInv, NEW c \in Context, NEW ok \in BOOLEAN, Save(c, ok)
    PROVE  record' \in SessionRecord \cup {Absent}
  BY DEF Save, Recorded, SessionRecord, Names, Context, SessionInv, SessionTypeOK

\* The start of a session, fresh or resumed.
LEMMA OpenInv ==
    ASSUME SessionInv, NEW s \in Stacks, NEW m \in Model, NEW mode \in Modes,
           NEW fresh \in BOOLEAN, NEW ok \in BOOLEAN, OpenSession(s, m, mode, fresh, ok)
    PROVE  SessionInv'
  <1>1. Made(s, m) \in KernelState
    BY NewKernel
  <1>2. kern' \in Seq(KernelState) /\ DOMAIN kern' = {1}
    BY <1>1 DEF OpenSession
  <1>3. ctx' \in Context /\ ctx'.kernel = 1 /\ ~ ctx'.applied
    BY DEF OpenSession, Opened, Context
  <1>4. record' \in SessionRecord \cup {Absent}
    BY <1>3 DEF OpenSession, Recorded, SessionRecord, Names, Context, SessionInv, SessionTypeOK
  <1>5. at'.op = "prompt"
    BY DEF OpenSession, Prompt
  <1> QED
    BY <1>2, <1>3, <1>4, <1>5
    DEF OpenSession, SessionInv, SessionTypeOK, Kernels, Restrictions, SetUp, InSession, Doing

\* A step that touches neither a kernel nor the session.
LEMMA StillInv ==
    ASSUME SessionInv, UNCHANGED <<kern, ctx, record, files, chosen>>,
           \/ Exit \/ AskGoal \/ CmdModel \/ CmdCompact \/ NoSwitch
           \/ SwitchModelFails \/ CmdSetup \/ SetupCancelled \/ WriteEnv
           \/ \E m \in Models : ChooseModel(m)
    PROVE  SessionInv'
  <1> USE DEF SessionInv, SessionTypeOK, Kernels, Restrictions, SetUp, InSession, Doing, Live, Prompt
  <1>1. CASE Exit
    BY <1>1 DEF Exit
  <1>2. CASE AskGoal \/ CmdModel \/ CmdCompact
    BY <1>2 DEF AskGoal, CmdModel, CmdCompact, Needs
  <1>3. CASE NoSwitch \/ SwitchModelFails
    BY <1>3 DEF NoSwitch, SwitchModelFails
  <1>4. CASE CmdSetup
    BY <1>4 DEF CmdSetup
  <1>7. CASE SetupCancelled
    <2>1. CASE at.boot
      BY <1>7, <2>1 DEF SetupCancelled, Return
    <2>2. CASE ~ at.boot
      BY <1>7, <2>2 DEF SetupCancelled, Return
    <2> QED
      BY <2>1, <2>2
  <1>5. CASE WriteEnv
    <2>1. CASE at' = [op |-> "config", boot |-> at.boot]
      BY <1>5, <2>1 DEF WriteEnv
    <2>2. CASE at' = Fails
      BY <1>5, <2>2, FirstKernel DEF WriteEnv, Fails, Closed, Escape
    <2> QED
      BY <1>5, <2>1, <2>2 DEF WriteEnv
  <1>6. CASE \E m \in Models : ChooseModel(m)
    BY <1>6 DEF ChooseModel
  <1> QED
    BY <1>1, <1>2, <1>3, <1>4, <1>5, <1>6, <1>7

\* One kernel is replaced by another that is as much up and withholds the same:
\* what the session knows of its kernels stays true.
LEMMA Replaced ==
    ASSUME SessionInv, NEW i \in DOMAIN kern, NEW k \in KernelState,
           k.started = kern[i].started, k.withheld = kern[i].withheld,
           kern' = [kern EXCEPT ![i] = k]
    PROVE  /\ kern' \in Seq(KernelState) /\ DOMAIN kern' = DOMAIN kern
           /\ \A j \in DOMAIN kern : /\ kern'[j].started = kern[j].started
                                     /\ kern'[j].withheld = kern[j].withheld
  <1>1. kern \in Seq(KernelState)
    BY DEF SessionInv, SessionTypeOK
  <1> QED
    BY <1>1, ReplaceKernel

\* A bring-up that succeeds or fails half way, and the Ctrl-C that ends it.
LEMMA StartInv ==
    ASSUME SessionInv,
           \/ KernelStarts
           \/ \E some, other \in BOOLEAN : KernelStartFails(some, other)
           \/ \E some \in BOOLEAN : GoalInterrupted(some)
    PROVE  SessionInv'
  <1> USE DEF SessionInv, SessionTypeOK, Kernels, Restrictions, SetUp, InSession, Doing, Live
  <1>1. CASE KernelStarts
    <2> DEFINE k == Up(kern[ctx.kernel])
    <2>1. Live \in KernelState /\ ctx.kernel \in DOMAIN kern
      BY <1>1 DEF KernelStarts
    <2>2. k \in KernelState /\ k.started /\ k.withheld = Live.withheld
      BY <2>1, StartAndStop
    <2>3. kern' = [kern EXCEPT ![ctx.kernel] = k]
      BY <1>1 DEF KernelStarts
    <2>4. /\ kern' \in Seq(KernelState) /\ DOMAIN kern' = DOMAIN kern
          /\ kern'[ctx.kernel] = k
      BY <2>1, <2>2, <2>3, ReplaceKernel
    <2> HIDE DEF k
    <2> QED
      BY <1>1, <2>1, <2>2, <2>4 DEF KernelStarts
  <1>2. ASSUME NEW some \in BOOLEAN, NEW other \in BOOLEAN, KernelStartFails(some, other)
        PROVE  SessionInv'
    <2> DEFINE k == HalfUp(kern[ctx.kernel], some)
    <2>1. Live \in KernelState /\ ctx.kernel \in DOMAIN kern
      BY <1>2 DEF KernelStartFails
    <2>2. k \in KernelState /\ k.started = Live.started /\ k.withheld = Live.withheld
      BY <2>1, StartAndStop
    <2>3. kern' = [kern EXCEPT ![ctx.kernel] = k]
      BY <1>2 DEF KernelStartFails
    <2>4. /\ kern' \in Seq(KernelState) /\ DOMAIN kern' = DOMAIN kern
          /\ \A j \in DOMAIN kern : /\ kern'[j].started = kern[j].started
                                    /\ kern'[j].withheld = kern[j].withheld
      BY <2>1, <2>2, <2>3, Replaced
    <2>5. 1 \in DOMAIN kern
      BY <2>1, FirstKernel
    <2> HIDE DEF k
    <2>6. \/ at'.op = "closed"
          \/ at' = Escape
          \/ at'.op = "prompt" /\ InSession
      BY <1>2 DEF KernelStartFails, Closed, Prompt
    <2> QED
      BY <1>2, <2>1, <2>4, <2>5, <2>6 DEF KernelStartFails, Escape
  <1>3. ASSUME NEW some \in BOOLEAN, GoalInterrupted(some)
        PROVE  SessionInv'
    <2> DEFINE k == HalfUp(kern[ctx.kernel], some)
    <2>1. Live \in KernelState /\ ctx.kernel \in DOMAIN kern
      BY <1>3 DEF GoalInterrupted
    <2>2. k \in KernelState /\ k.started = Live.started /\ k.withheld = Live.withheld
      BY <2>1, StartAndStop
    <2>3. CASE kern' = [kern EXCEPT ![ctx.kernel] = k]
      <3>1. /\ kern' \in Seq(KernelState) /\ DOMAIN kern' = DOMAIN kern
            /\ \A j \in DOMAIN kern : /\ kern'[j].started = kern[j].started
                                      /\ kern'[j].withheld = kern[j].withheld
        BY <2>1, <2>2, <2>3, Replaced
      <3> HIDE DEF k
      <3> QED
        BY <1>3, <2>1, <3>1 DEF GoalInterrupted, Prompt
    <2>4. CASE kern' = kern
      BY <1>3, <2>1, <2>4 DEF GoalInterrupted, Prompt
    <2> QED
      BY <1>3, <2>3, <2>4 DEF GoalInterrupted
  <1> QED
    BY <1>1, <1>2, <1>3

\* Ctrl-C in a slash command, at each place it waits.
LEMMA InterruptInv ==
    ASSUME SessionInv, NEW some \in BOOLEAN, CommandInterrupted(some)
    PROVE  SessionInv'
  <1> USE DEF SessionInv, SessionTypeOK, Kernels, Restrictions, SetUp, InSession, Doing
  <1>1. \/ kern' = kern
        \/ \E i \in DOMAIN kern : kern' = [kern EXCEPT ![i] = HalfUp(kern[i], some)]
    BY DEF CommandInterrupted
  <1>2. kern' \in Seq(KernelState) /\ DOMAIN kern' = DOMAIN kern
    <2>1. ASSUME NEW i \in DOMAIN kern, kern' = [kern EXCEPT ![i] = HalfUp(kern[i], some)]
          PROVE  kern' \in Seq(KernelState) /\ DOMAIN kern' = DOMAIN kern
      <3>1. kern[i] \in KernelState
        OBVIOUS
      <3>2. HalfUp(kern[i], some) \in KernelState
        BY <3>1, StartAndStop
      <3> QED
        BY <2>1, <3>2, ReplaceKernel
    <2> QED
      BY <1>1, <2>1
  <1>3. CASE kern = <<>>
    BY <1>2, <1>3 DEF CommandInterrupted, Closed
  <1>4. CASE kern # <<>>
    <2>1. 1 \in DOMAIN kern
      BY <1>4
    <2> QED
      BY <1>2, <1>4, <2>1 DEF CommandInterrupted, Escape
  <1> QED
    BY <1>3, <1>4

\* The end of a session, a kill, and `veridian run` from its start to its end.
LEMMA EndInv ==
    ASSUME SessionInv,
           \/ \E ok \in BOOLEAN : EndSession(ok)
           \/ Kill \/ RunOnceEnds
           \/ \E s \in Stacks : RunOnce(s)
    PROVE  SessionInv'
  <1> USE DEF SessionInv, SessionTypeOK, Kernels, Restrictions, SetUp, InSession, Doing, Closed
  <1>1. ASSUME NEW ok \in BOOLEAN, EndSession(ok)
        PROVE  SessionInv'
    <2>1. kern[at.live] \in KernelState /\ at.live \in DOMAIN kern
      BY <1>1 DEF EndSession
    <2>2. Stopped(kern[at.live]) \in KernelState
      BY <2>1, StartAndStop
    <2>3. kern' \in Seq(KernelState)
      BY <1>1, <2>1, <2>2, ReplaceKernel DEF EndSession
    <2>4. record' \in SessionRecord \cup {Absent}
      BY <1>1, SaveTyped DEF EndSession
    <2> QED
      BY <1>1, <2>3, <2>4 DEF EndSession
  <1>2. CASE Kill
    BY <1>2 DEF Kill
  <1>3. CASE RunOnceEnds
    <2>1. 1 \in DOMAIN kern
      BY <1>3, FirstKernel DEF RunOnceEnds
    <2>2. kern[1] \in KernelState
      BY <2>1
    <2>3. Stopped(kern[1]) \in KernelState
      BY <2>2, StartAndStop
    <2>4. kern' \in Seq(KernelState)
      BY <1>3, <2>1, <2>3, ReplaceKernel DEF RunOnceEnds
    <2> QED
      BY <1>3, <2>4 DEF RunOnceEnds
  <1>4. ASSUME NEW s \in Stacks, RunOnce(s)
        PROVE  SessionInv'
    <2>1. files[s] \in Model
      OBVIOUS
    <2>2. kern' \in Seq(KernelState) /\ DOMAIN kern' = {1}
      BY <1>4, <2>1, NewKernel DEF RunOnce
    <2>3. ctx' \in Context /\ ctx'.kernel = 1
      BY <1>4 DEF RunOnce, Context
    <2> QED
      BY <1>4, <2>2, <2>3 DEF RunOnce
  <1> QED
    BY <1>1, <1>2, <1>3, <1>4

\* What it takes to be back at the prompt, or to leave the loop for the end of
\* the session.
LEMMA BackAtPrompt ==
    ASSUME SessionInv, at' = Prompt \/ at' = Escape,
           kern' \in Seq(KernelState), ctx' \in Context, record' \in SessionRecord \cup {Absent},
           UNCHANGED files, chosen' \in BOOLEAN, chosen' => files[UserStack] # Absent,
           ctx'.kernel \in DOMAIN kern',
           ctx'.applied => /\ kern'[ctx'.kernel].started
                           /\ kern'[ctx'.kernel].withheld = Withheld[ctx'.mode]
    PROVE  SessionInv'
  <1>1. 1 \in DOMAIN kern'
    BY FirstKernel
  <1>2. at'.op \in {"prompt", "exit"} /\ (at'.op = "exit" => at'.live = 1)
    BY DEF Prompt, Escape
  <1> QED
    BY <1>1, <1>2
    DEF SessionInv, SessionTypeOK, Kernels, Restrictions, SetUp, InSession, Doing, Live

\* A goal begins and ends; /mode and /model change the live kernel in place.
LEMMA InPlaceInv ==
    ASSUME SessionInv, NEW ok \in BOOLEAN,
           GoalBegins \/ GoalEnds(ok) \/ CmdMode(ok) \/ ModelSwitched(ok)
    PROVE  SessionInv'
  <1> USE DEF SessionInv, SessionTypeOK, Kernels, Restrictions, SetUp, InSession, Doing, Live
  <1>1. Live \in KernelState /\ ctx.kernel \in DOMAIN kern /\ 1 \in DOMAIN kern
    BY FirstKernel DEF GoalBegins, GoalEnds, CmdMode, ModelSwitched
  <1>2. CASE GoalBegins
    <2>0. ctx.mode \in Modes
      BY DEF Context
    <2> DEFINE k == Restricted(kern[ctx.kernel], ctx.mode)
    <2>1. k \in KernelState /\ k.started = Live.started /\ k.withheld = Withheld[ctx.mode]
      BY <1>1, <2>0, RestrictAndRebind, SessionAssumption
    <2>2. ctx' \in Context /\ ctx'.applied /\ ctx'.kernel = ctx.kernel /\ ctx'.mode = ctx.mode
      BY <1>2 DEF GoalBegins, Context
    <2>3. /\ kern' \in Seq(KernelState) /\ DOMAIN kern' = DOMAIN kern
          /\ kern'[ctx.kernel].started = Live.started
          /\ kern'[ctx.kernel].withheld = Withheld[ctx.mode]
      <3>1. CASE ctx.applied
        BY <1>1, <1>2, <3>1 DEF GoalBegins
      <3>2. CASE ~ ctx.applied
        <4>1. kern' = [kern EXCEPT ![ctx.kernel] = k]
          BY <1>2, <3>2 DEF GoalBegins
        <4> HIDE DEF k
        <4> QED
          BY <1>1, <2>1, <4>1, ReplaceKernel
      <3> QED
        BY <3>1, <3>2
    <2> HIDE DEF k
    <2> QED
      BY <1>1, <1>2, <2>2, <2>3 DEF GoalBegins
  <1>3. CASE GoalEnds(ok)
    <2>1. record' \in SessionRecord \cup {Absent}
      BY <1>3, SaveTyped DEF GoalEnds
    <2> QED
      BY <1>1, <1>3, <2>1 DEF GoalEnds, Prompt
  <1>4. CASE CmdMode(ok)
    <2>1. ctx' \in Context /\ ctx' = [ctx EXCEPT !.mode = ctx'.mode] /\ ctx'.mode \in Modes
      BY <1>4, SessionAssumption DEF CmdMode, Context
    <2>2. ctx'.kernel = ctx.kernel /\ ctx'.applied = ctx.applied
      BY <2>1 DEF Context
    <2>3. record' \in SessionRecord \cup {Absent}
      BY <1>4, <2>1, SaveTyped DEF CmdMode
    <2> DEFINE k == Restricted(kern[ctx.kernel], ctx'.mode)
    <2>4. k \in KernelState /\ k.started = Live.started /\ k.withheld = Withheld[ctx'.mode]
      BY <1>1, <2>1, RestrictAndRebind, SessionAssumption
    <2>5. at' = Prompt \/ at' = Escape
      BY <1>4 DEF CmdMode, AfterSave
    <2>6. CASE Live.started
      <3>1. kern' = [kern EXCEPT ![ctx.kernel] = k]
        BY <1>4, <2>6 DEF CmdMode
      <3> HIDE DEF k
      <3>2. kern' \in Seq(KernelState) /\ DOMAIN kern' = DOMAIN kern /\ kern'[ctx.kernel] = k
        BY <1>1, <2>4, <3>1, ReplaceKernel
      <3> QED
        BY <1>1, <1>4, <2>1, <2>2, <2>3, <2>4, <2>5, <2>6, <3>2, BackAtPrompt DEF CmdMode
    <2>7. CASE ~ Live.started
      <3>1. kern' = kern
        BY <1>4, <2>7 DEF CmdMode
      <3> QED
        BY <1>1, <1>4, <2>1, <2>2, <2>3, <2>5, <2>7, <3>1, BackAtPrompt DEF CmdMode
    <2> QED
      BY <2>6, <2>7
  <1>5. CASE ModelSwitched(ok)
    <2>1. at.model \in Model
      BY <1>5 DEF ModelSwitched, Model
    <2>2. ctx' \in Context /\ ctx'.kernel = ctx.kernel /\ ctx'.applied = ctx.applied /\ ctx'.mode = ctx.mode
      BY <1>5, <2>1 DEF ModelSwitched, Context
    <2>3. record' \in SessionRecord \cup {Absent}
      BY <1>5, <2>2, SaveTyped DEF ModelSwitched
    <2> DEFINE k == [kern[ctx.kernel] EXCEPT !.model = at.model]
    <2>4. k \in KernelState /\ k.started = Live.started /\ k.withheld = Live.withheld
      BY <1>1, <2>1, RestrictAndRebind, SessionAssumption
    <2>5. kern' = [kern EXCEPT ![ctx.kernel] = k]
      BY <1>1, <1>5 DEF ModelSwitched
    <2> HIDE DEF k
    <2>6. /\ kern' \in Seq(KernelState) /\ DOMAIN kern' = DOMAIN kern
          /\ \A j \in DOMAIN kern : /\ kern'[j].started = kern[j].started
                                    /\ kern'[j].withheld = kern[j].withheld
      BY <1>1, <2>4, <2>5, Replaced
    <2>7. at' = Prompt \/ at' = Escape
      BY <1>5 DEF ModelSwitched, AfterSave
    <2> QED
      BY <1>1, <1>5, <2>2, <2>3, <2>6, <2>7, BackAtPrompt DEF ModelSwitched
  <1> QED
    BY <1>2, <1>3, <1>4, <1>5

\* What a switch that goes through makes of the session.
LEMMA Committed ==
    ASSUME SessionInv, NEW k \in Nat, NEW s \in Stacks, files[s] \in Model,
           NEW applied \in BOOLEAN, NEW ok \in BOOLEAN, Commit(k, s, applied, ok)
    PROVE  /\ ctx' \in Context /\ at' = Prompt
           /\ ctx'.kernel = k /\ ctx'.applied = applied /\ ctx'.mode = ctx.mode
           /\ record' \in SessionRecord \cup {Absent}
  <1>1. ctx' \in Context /\ ctx'.kernel = k /\ ctx'.applied = applied /\ ctx'.mode = ctx.mode
    BY DEF Commit, Context, SessionInv, SessionTypeOK
  <1> QED
    BY <1>1, SaveTyped DEF Commit

\* The first half of a switch: the new kernel is added, and is to be started if
\* the old one was.
LEMMA SwitchInv ==
    ASSUME SessionInv, NEW s \in Stacks, NEW ok \in BOOLEAN, files[s] \in Model,
           InSession, ~ Doing("retire"), SwitchStack(s, ok),
           UNCHANGED files, chosen' \in BOOLEAN, chosen' => files[UserStack] # Absent
    PROVE  SessionInv'
  <1>1. kern \in Seq(KernelState) /\ ctx \in Context /\ ctx.kernel \in DOMAIN kern
    BY DEF SessionInv, SessionTypeOK, Kernels
  <1> DEFINE new == Made(s, files[s])
             to == Len(kern')
  <1>2. kern' = Append(kern, new) /\ new \in KernelState
    BY NewKernel DEF SwitchStack
  <1> HIDE DEF new
  <1>3. /\ kern' \in Seq(KernelState) /\ to \in DOMAIN kern' /\ to \notin DOMAIN kern
        /\ \A j \in DOMAIN kern : j \in DOMAIN kern' /\ kern'[j] = kern[j]
    BY <1>1, <1>2, AddKernel
  <1>4. to \in Nat
    BY <1>3
  <1> HIDE DEF to
  <1>5. CASE Live.started
    <2>1. at' = [op |-> "switch", target |-> to] /\ UNCHANGED <<ctx, record>>
      BY <1>5 DEF SwitchStack, to
    <2>2. at'.op = "switch" /\ at'.target = to
      BY <2>1
    <2> QED
      BY <1>1, <1>3, <1>5, <2>1, <2>2
      DEF SessionInv, SessionTypeOK, Kernels, Restrictions, SetUp, InSession, Doing, Live
  <1>6. CASE ~ Live.started
    <2>1. Commit(to, s, FALSE, ok)
      BY <1>6 DEF SwitchStack, to
    <2>2. /\ ctx' \in Context /\ at' = Prompt /\ ctx'.kernel = to /\ ~ ctx'.applied
          /\ record' \in SessionRecord \cup {Absent}
      BY <1>4, <2>1, Committed
    <2> QED
      BY <1>3, <2>2, BackAtPrompt
  <1> QED
    BY <1>5, <1>6

\* The second half: the new kernel comes up and is restricted, the old one is
\* retired; or it fails and the session stays where it was.
LEMMA SwitchEndsInv ==
    ASSUME SessionInv,
           \/ SwitchStarts
           \/ \E some \in BOOLEAN : SwitchFails(some)
           \/ \E whole, ok \in BOOLEAN : Retire(whole, ok)
    PROVE  SessionInv'
  <1>0. kern \in Seq(KernelState) /\ ctx \in Context
    BY DEF SessionInv, SessionTypeOK
  <1>1. CASE SwitchStarts
    <2>1. at.target \in DOMAIN kern /\ at.target # ctx.kernel /\ ctx.kernel \in DOMAIN kern
      BY <1>1 DEF SwitchStarts, SessionInv, Kernels, InSession, Doing
    <2>2. kern[at.target] \in KernelState /\ ctx.mode \in Modes
      BY <1>0, <2>1 DEF Context
    <2>3. Up(kern[at.target]) \in KernelState /\ Up(kern[at.target]).started
      BY <2>2, StartAndStop
    <2> DEFINE k == Restricted(Up(kern[at.target]), ctx.mode)
    <2>4. k \in KernelState /\ k.started /\ k.withheld = Withheld[ctx.mode]
      BY <2>2, <2>3, RestrictAndRebind DEF Model
    <2>5. kern' = [kern EXCEPT ![at.target] = k]
      BY <1>1 DEF SwitchStarts
    <2> HIDE DEF k
    <2>6. kern' \in Seq(KernelState) /\ DOMAIN kern' = DOMAIN kern /\ kern'[at.target] = k
      BY <1>0, <2>1, <2>4, <2>5, ReplaceKernel
    <2>7. ctx' \in Context /\ ctx'.kernel = ctx.kernel /\ ctx'.mode = ctx.mode
      BY <1>0, <1>1 DEF SwitchStarts, Context
    <2>8. at'.op = "retire" /\ at'.target = at.target /\ UNCHANGED <<record, files, chosen>>
      BY <1>1 DEF SwitchStarts
    <2> QED
      BY <2>1, <2>4, <2>6, <2>7, <2>8
      DEF SessionInv, SessionTypeOK, Kernels, Restrictions, SetUp, InSession, Doing
  <1>2. ASSUME NEW some \in BOOLEAN, SwitchFails(some)
        PROVE  SessionInv'
    <2>1. at.target \in DOMAIN kern /\ at.target # ctx.kernel /\ ctx.kernel \in DOMAIN kern
      BY <1>2 DEF SwitchFails, SessionInv, Kernels, InSession, Doing
    <2> DEFINE k == Stopped(HalfUp(kern[at.target], some))
    <2>2. kern[at.target] \in KernelState
      BY <1>0, <2>1
    <2>3. k \in KernelState
      BY <2>2, StartAndStop
    <2>4. kern' = [kern EXCEPT ![at.target] = k] /\ at' = Prompt /\ UNCHANGED <<ctx, record, files, chosen>>
      BY <1>2 DEF SwitchFails
    <2> HIDE DEF k
    <2>5. /\ kern' \in Seq(KernelState) /\ DOMAIN kern' = DOMAIN kern
          /\ kern'[ctx.kernel] = kern[ctx.kernel]
      BY <1>0, <2>1, <2>3, <2>4, ReplaceKernel
    <2>6. ctx.applied => Live.started /\ Live.withheld = Withheld[ctx.mode]
      BY <1>2 DEF SwitchFails, SessionInv, Restrictions, InSession, Doing
    <2>7. record \in SessionRecord \cup {Absent} /\ chosen \in BOOLEAN /\ (chosen => files[UserStack] # Absent)
      BY DEF SessionInv, SessionTypeOK, SetUp
    <2> QED
      BY <1>0, <2>1, <2>4, <2>5, <2>6, <2>7, BackAtPrompt DEF Live
  <1>3. ASSUME NEW whole \in BOOLEAN, NEW ok \in BOOLEAN, Retire(whole, ok)
        PROVE  SessionInv'
    <2>1. /\ at.target \in DOMAIN kern /\ at.target # ctx.kernel /\ ctx.kernel \in DOMAIN kern
          /\ kern[at.target].started /\ kern[at.target].withheld = Withheld[ctx.mode]
      BY <1>3 DEF Retire, SessionInv, Kernels, Restrictions, InSession, Doing
    <2>2. kern[at.target] \in KernelState /\ kern[ctx.kernel] \in KernelState /\ at.target \in Nat
      BY <1>0, <2>1
    <2>3. kern[at.target].stack \in Stacks
      BY <2>2 DEF KernelState
    <2>4. /\ kern' \in Seq(KernelState) /\ DOMAIN kern' = DOMAIN kern
          /\ kern'[at.target] = kern[at.target]
      <3>1. CASE whole
        <4>1. Stopped(kern[ctx.kernel]) \in KernelState
          BY <2>2, StartAndStop
        <4> QED
          BY <1>0, <1>3, <2>1, <3>1, <4>1, ReplaceKernel DEF Retire
      <3>2. CASE ~ whole
        BY <1>0, <1>3, <3>2 DEF Retire
      <3> QED
        BY <3>1, <3>2
    <2>5. files[kern[at.target].stack] \in Model
      BY <2>3 DEF SessionInv, SessionTypeOK
    <2>6. /\ ctx' \in Context /\ at' = Prompt /\ ctx'.kernel = at.target /\ ctx'.mode = ctx.mode
          /\ record' \in SessionRecord \cup {Absent}
      BY <1>3, <2>2, <2>3, <2>5, Committed DEF Retire
    <2>7. UNCHANGED <<files, chosen>> /\ chosen \in BOOLEAN /\ (chosen => files[UserStack] # Absent)
      BY <1>3 DEF Retire, SessionInv, SessionTypeOK, SetUp
    <2> QED
      BY <2>1, <2>4, <2>6, <2>7, BackAtPrompt
  <1> QED
    BY <1>1, <1>2, <1>3

\* The writes of the first run and of /setup, each of which may fail.
LEMMA SetupInv ==
    ASSUME SessionInv,
           \/ \E m \in Models : WriteStack(m)
           \/ \E ok \in BOOLEAN : WriteConfig(ok)
    PROVE  SessionInv'
  <1> USE DEF Doing
  <1>1. ASSUME at' = Fails, UNCHANGED <<kern, ctx, record, files, chosen>>,
               at.op \in {"ask", "env", "config"}
        PROVE  SessionInv'
    <2>1. CASE at.boot
      BY <1>1, <2>1
      DEF Fails, Closed, SessionInv, SessionTypeOK, Kernels, Restrictions, SetUp, InSession
    <2>2. CASE ~ at.boot
      BY <1>1, <2>2, BackAtPrompt
      DEF Fails, SessionInv, SessionTypeOK, Kernels, Restrictions, SetUp, InSession, Live
    <2> QED
      BY <2>1, <2>2
  <1>2. ASSUME NEW m \in Models, WriteStack(m)
        PROVE  SessionInv'
    <2>1. CASE files' = [files EXCEPT ![UserStack] = m] /\ at' = [op |-> "env", boot |-> at.boot]
      <3>1. at'.op = "env" /\ at'.boot = at.boot
        BY <2>1
      <3>2. files' \in [Stacks -> Model] /\ files'[UserStack] = m /\ m # Absent
        BY <2>1, SessionAssumption DEF SessionInv, SessionTypeOK, Model
      <3> QED
        BY <1>2, <3>1, <3>2
        DEF WriteStack, SessionInv, SessionTypeOK, Kernels, Restrictions, SetUp, InSession, Live
    <2>2. CASE UNCHANGED files /\ at' = Fails
      BY <1>1, <1>2, <2>2 DEF WriteStack
    <2> QED
      BY <1>2, <2>1, <2>2 DEF WriteStack
  <1>3. ASSUME NEW ok \in BOOLEAN, WriteConfig(ok)
        PROVE  SessionInv'
    <2>1. CASE at' = Fails /\ UNCHANGED <<kern, ctx, record, clean, chosen>>
      BY <1>1, <1>3, <2>1 DEF WriteConfig
    <2>2. CASE chosen' = TRUE /\ ~ at.boot /\ CanSwitch(UserStack, TRUE) /\ SwitchStack(UserStack, ok)
      BY <1>3, <2>2, SwitchInv, SessionAssumption
      DEF WriteConfig, SessionInv, SessionTypeOK, SetUp, InSession
    <2>3. CASE chosen' = TRUE /\ at' = Return /\ UNCHANGED <<kern, ctx, record, clean>>
      <3>1. CASE at.boot
        BY <1>3, <2>3, <3>1
        DEF WriteConfig, Return, SessionInv, SessionTypeOK, Kernels, Restrictions, SetUp, InSession
      <3>2. CASE ~ at.boot
        BY <1>3, <2>3, <3>2, BackAtPrompt
        DEF WriteConfig, Return, SessionInv, SessionTypeOK, Kernels, Restrictions, SetUp, InSession, Live
      <3> QED
        BY <3>1, <3>2
    <2> QED
      BY <1>3, <2>1, <2>2, <2>3 DEF WriteConfig
  <1> QED
    BY <1>2, <1>3

LEMMA NextInv == SessionInv /\ [SessionNext]_vars => SessionInv'
  <1> SUFFICES ASSUME SessionInv, [SessionNext]_vars PROVE SessionInv'
    OBVIOUS
  <1>1. ASSUME NEW s \in Stacks, NEW ok \in BOOLEAN, StartFresh(s, ok) PROVE SessionInv'
    <2>1. files[s] \in Model /\ DefaultMode \in Modes
      BY SessionAssumption DEF SessionInv, SessionTypeOK
    <2>2. OpenSession(s, files[s], DefaultMode, TRUE, ok)
      BY <1>1 DEF StartFresh
    <2> QED
      BY <2>1, <2>2, OpenInv
  <1>2. ASSUME NEW s \in Stacks, NEW ok \in BOOLEAN, Resume(s, ok) PROVE SessionInv'
    <2>1. record.model \in Model /\ record.mode \in Modes
      BY <1>2 DEF Resume, SessionInv, SessionTypeOK, SessionRecord
    <2> QED
      BY <1>2, <2>1, OpenInv DEF Resume
  <1>3. ASSUME NEW s \in Stacks, NEW ok \in BOOLEAN, CmdStack(s, ok) PROVE SessionInv'
    BY <1>3, SwitchInv DEF CmdStack, SessionInv, SessionTypeOK, SetUp, InSession, Doing
  <1>4. CASE \/ FirstRun \/ Exit \/ AskGoal \/ CmdModel \/ CmdCompact \/ NoSwitch
             \/ SwitchModelFails \/ CmdSetup \/ SetupCancelled \/ WriteEnv
             \/ \E m \in Models : ChooseModel(m)
    <2>1. CASE FirstRun
      BY <2>1 DEF FirstRun, SessionInv, SessionTypeOK, Kernels, Restrictions, SetUp, InSession, Doing
    <2>2. CASE ~ FirstRun
      <3>1. UNCHANGED <<kern, ctx, record, files, chosen>>
        BY <1>4, <2>2
        DEF Exit, AskGoal, CmdModel, CmdCompact, Needs, NoSwitch, SwitchModelFails, CmdSetup,
            SetupCancelled, WriteEnv, ChooseModel
      <3> QED
        BY <1>4, <2>2, <3>1, StillInv
    <2> QED
      BY <2>1, <2>2
  <1>5. CASE UNCHANGED vars
    BY <1>5 DEF vars, SessionInv, SessionTypeOK, Kernels, Restrictions, SetUp, InSession, Doing, Live
  <1> QED
    BY <1>1, <1>2, <1>3, <1>4, <1>5, EndInv, InPlaceInv, StartInv, InterruptInv, SwitchEndsInv, SetupInv
    DEF SessionNext

THEOREM SessionInvariant == SessionSpec => []SessionInv
  BY InitInv, NextInv, PTL DEF SessionSpec

\* A goal runs in a kernel that is up and withholds what the mode says, however
\* /mode, /model, /stack, /setup, failures and interrupts follow one another
\* (interactive.py:328, repl_commands.py:252, 318).
THEOREM GoalsRunRestricted == SessionSpec => []GoalRunsRestricted
  <1>1. SessionInv => GoalRunsRestricted
    BY DEF SessionInv, Restrictions, GoalRunsRestricted, InSession, Doing
  <1> QED
    BY <1>1, SessionInvariant, PTL

\* Whoever is recorded as set up has a stack (onboarding.py:330-342).
THEOREM FirstRunsComplete == SessionSpec => []FirstRunIsComplete
  <1>1. SessionInv => FirstRunIsComplete
    BY DEF SessionInv, SetUp, FirstRunIsComplete
  <1> QED
    BY <1>1, SessionInvariant, PTL

\* From a switch only three steps lead back to the prompt or on: the rest end
\* the session.
LEMMA SwitchStep ==
    ASSUME SessionInv, SessionNext, at.op \in {"switch", "retire"}, at'.op = "prompt"
    PROVE  \/ \E some \in BOOLEAN : SwitchFails(some)
           \/ \E whole, ok \in BOOLEAN : Retire(whole, ok)
  <1>1. ~ (Doing("prompt") \/ Doing("closed") \/ Doing("boot") \/ Doing("exit") \/ Doing("start")
           \/ Doing("goal") \/ Doing("running") \/ Doing("model") \/ Doing("compact")
           \/ Doing("rebind") \/ Doing("once") \/ Doing("ask") \/ Doing("env") \/ Doing("config"))
    BY DEF Doing
  <1>2. ASSUME NEW some \in BOOLEAN, CommandInterrupted(some) PROVE FALSE
    BY <1>2 DEF CommandInterrupted, Closed, Escape
  <1>3. ~ Kill /\ ~ SwitchStarts
    BY DEF Kill, Closed, SwitchStarts
  <1> QED
    BY <1>1, <1>2, <1>3
    DEF SessionNext, StartFresh, Resume, CmdStack, EndSession, GoalEnds, CmdMode, ModelSwitched,
        WriteConfig, FirstRun, Exit, AskGoal, CmdModel, CmdCompact, CmdSetup, RunOnce,
        KernelStartFails, GoalInterrupted, KernelStarts, RunOnceEnds, GoalBegins,
        NoSwitch, SwitchModelFails, ChooseModel, WriteStack, SetupCancelled, WriteEnv

\* A switch that does not come to its end leaves the session on its kernel,
\* which is as it was (repl_commands.py:200-202).
THEOREM FailedSwitchesKeepSession == SessionSpec => FailedSwitchKeepsSession
  <1> DEFINE Keeps == at.op \in {"switch", "retire"} /\ at'.op = "prompt" =>
                        \/ ctx'.kernel = at.target
                        \/ ctx' = ctx /\ kern'[ctx.kernel] = Live /\ Live.started
  <1>1. ASSUME SessionInv, [SessionNext]_vars PROVE [Keeps]_vars
    <2> SUFFICES ASSUME SessionNext, at.op \in {"switch", "retire"}, at'.op = "prompt"
                 PROVE  ctx'.kernel = at.target \/ (ctx' = ctx /\ kern'[ctx.kernel] = Live /\ Live.started)
      BY <1>1
    <2>1. ASSUME NEW some \in BOOLEAN, SwitchFails(some)
          PROVE  ctx' = ctx /\ kern'[ctx.kernel] = Live /\ Live.started
      <3>1. at.target # ctx.kernel /\ ctx.kernel \in DOMAIN kern /\ Live.started /\ kern \in Seq(KernelState)
        BY <1>1, <2>1
        DEF SwitchFails, SessionInv, SessionTypeOK, Kernels, Restrictions, InSession, Doing
      <3> QED
        BY <2>1, <3>1 DEF SwitchFails, Live
    <2>2. ASSUME NEW whole \in BOOLEAN, NEW ok \in BOOLEAN, Retire(whole, ok)
          PROVE  ctx'.kernel = at.target
      <3>1. ctx \in Context
        BY <1>1 DEF SessionInv, SessionTypeOK
      <3> QED
        BY <2>2, <3>1 DEF Retire, Commit, Context
    <2> QED
      BY <1>1, <2>1, <2>2, SwitchStep
  <1> HIDE DEF Keeps
  <1>2. SessionSpec => [][Keeps]_vars
    BY <1>1, SessionInvariant, PTL DEF SessionSpec
  <1> QED
    BY <1>2 DEF Keeps, FailedSwitchKeepsSession

-----------------------------------------------------------------------------
(* The record *)

\* A record whose last write went through is what the session is.
RecordKept == clean => record = Recorded(ctx)

\* Every step that changes what is recorded writes it, or opens a session.
LEMMA Written ==
    ASSUME SessionInv, SessionNext
    PROVE  \/ UNCHANGED <<record, clean>> /\ Recorded(ctx') = Recorded(ctx)
           \/ \E ok \in BOOLEAN : Save(ctx', ok)
           \/ clean' => record' = Recorded(ctx')
  <1>1. ctx \in Context
    BY DEF SessionInv, SessionTypeOK
  <1>2. ASSUME NEW s \in Stacks, NEW ok \in BOOLEAN, StartFresh(s, ok) \/ Resume(s, ok)
        PROVE  clean' => record' = Recorded(ctx')
    BY <1>2 DEF StartFresh, Resume, OpenSession
  <1>3. ASSUME NEW s \in Stacks, NEW ok \in BOOLEAN, SwitchStack(s, ok)
        PROVE  \/ UNCHANGED <<ctx, record, clean>>
               \/ Save(ctx', ok)
    BY <1>3 DEF SwitchStack, Commit
  <1>4. ASSUME NEW ok \in BOOLEAN, EndSession(ok) \/ GoalEnds(ok)
        PROVE  Save(ctx', ok)
    BY <1>4 DEF EndSession, GoalEnds, Save
  <1>5. ASSUME NEW ok \in BOOLEAN, CmdMode(ok) \/ ModelSwitched(ok)
        PROVE  Save(ctx', ok)
    BY <1>5 DEF CmdMode, ModelSwitched
  <1>6. ASSUME NEW whole \in BOOLEAN, NEW ok \in BOOLEAN, Retire(whole, ok)
        PROVE  Save(ctx', ok)
    BY <1>6 DEF Retire, Commit
  <1>7. ASSUME GoalBegins \/ SwitchStarts \/ \E s \in Stacks : RunOnce(s)
        PROVE  UNCHANGED <<record, clean>> /\ Recorded(ctx') = Recorded(ctx)
    BY <1>1, <1>7 DEF GoalBegins, SwitchStarts, RunOnce, Recorded, Context
  <1>8. ASSUME NEW ok \in BOOLEAN, WriteConfig(ok)
        PROVE  UNCHANGED <<ctx, record, clean>> \/ SwitchStack(UserStack, ok)
    BY <1>8 DEF WriteConfig
  <1>9. ASSUME \/ FirstRun \/ Exit \/ Kill \/ AskGoal \/ CmdModel \/ CmdCompact \/ CmdSetup
               \/ KernelStarts \/ RunOnceEnds \/ NoSwitch \/ SwitchModelFails \/ SetupCancelled \/ WriteEnv
               \/ \E some, other \in BOOLEAN : KernelStartFails(some, other)
               \/ \E some \in BOOLEAN : GoalInterrupted(some) \/ CommandInterrupted(some) \/ SwitchFails(some)
               \/ \E m \in Models : ChooseModel(m) \/ WriteStack(m)
        PROVE  UNCHANGED <<ctx, record, clean>>
    BY <1>9 DEF FirstRun, Exit, Kill, AskGoal, CmdModel, CmdCompact, CmdSetup, Needs, KernelStarts,
                RunOnceEnds, NoSwitch, SwitchModelFails, SetupCancelled, WriteEnv, KernelStartFails,
                GoalInterrupted, CommandInterrupted, SwitchFails, ChooseModel, WriteStack
  <1>10. ASSUME UNCHANGED <<ctx, record, clean>>
         PROVE  UNCHANGED <<record, clean>> /\ Recorded(ctx') = Recorded(ctx)
    BY <1>10
  <1> QED
    BY <1>2, <1>3, <1>4, <1>5, <1>6, <1>7, <1>8, <1>9, <1>10, SessionAssumption DEF SessionNext, CmdStack

LEMMA RecordStep == SessionInv /\ RecordKept /\ [SessionNext]_vars => RecordKept'
  <1> SUFFICES ASSUME SessionInv, RecordKept, [SessionNext]_vars PROVE RecordKept'
    OBVIOUS
  <1>1. CASE SessionNext
    <2>1. ASSUME NEW ok \in BOOLEAN, Save(ctx', ok)
          PROVE  RecordKept'
      BY <2>1 DEF Save, RecordKept
    <2>2. ASSUME UNCHANGED <<record, clean>>, Recorded(ctx') = Recorded(ctx)
          PROVE  RecordKept'
      BY <2>2 DEF RecordKept
    <2> QED
      BY <1>1, <2>1, <2>2, Written DEF RecordKept
  <1>2. CASE UNCHANGED vars
    BY <1>2 DEF vars, RecordKept
  <1> QED
    BY <1>1, <1>2

\* A path that is spelled like the name of a stack is that of a stack of this
\* name: without it a session would be resumed on the file the name happens to
\* be the path of (kernel/config.py:31-59).
NamesAreTheirs == \A s, t \in Stacks : s = StackName[t] => StackName[s] = s

\* A session resumed is the one that was left, whatever was done in between, if
\* the last write of its record went through (session_store.py:8-9).
THEOREM ResumedAsLeft ==
    ASSUME NamesAreTheirs
    PROVE  SessionSpec => ResumeRestores
  <1> DEFINE Restores == clean /\ (\E s \in Stacks, ok \in BOOLEAN : Resume(s, ok)) =>
                            Recorded(ctx') = Recorded(ctx) /\ kern'[1].model = ctx.model
  <1>1. SessionInit => RecordKept
    BY DEF SessionInit, RecordKept
  <1>2. SessionSpec => []RecordKept
    BY <1>1, SessionInvariant, RecordStep, PTL DEF SessionSpec
  <1>3. ASSUME SessionInv, RecordKept PROVE Restores
    <2> SUFFICES ASSUME clean, NEW s \in Stacks, NEW ok \in BOOLEAN, Resume(s, ok)
                 PROVE  Recorded(ctx') = Recorded(ctx) /\ kern'[1].model = ctx.model
      OBVIOUS
    <2>1. record = Recorded(ctx) /\ ctx.stack \in Stacks
      BY <1>3 DEF RecordKept, SessionInv, SessionTypeOK, Context
    <2>2. record.name = StackName[ctx.stack] /\ record.model = ctx.model /\ record.mode = ctx.mode
      BY <2>1 DEF Recorded
    <2>3. StackName[s] = StackName[ctx.stack]
      BY <2>1, <2>2, NamesAreTheirs DEF Resume, Resolves, NamesAreTheirs
    <2>4. kern' = <<Made(s, ctx.model)>> /\ ctx' = Opened(s, ctx.model, ctx.mode, ok)
      BY <2>2 DEF Resume, OpenSession
    <2>5. kern'[1].model = ctx.model
      BY <2>4 DEF Made
    <2>6. Recorded(ctx') = Recorded(ctx)
      BY <2>3, <2>4 DEF Recorded, Opened
    <2> QED
      BY <2>5, <2>6
  <1>4. SessionInv /\ RecordKept => [Restores]_vars
    BY <1>3
  <1> HIDE DEF Restores
  <1>5. SessionSpec => [][Restores]_vars
    BY <1>2, <1>4, SessionInvariant, PTL
  <1> QED
    BY <1>5 DEF Restores, ResumeRestores
=============================================================================
