------------------------------ MODULE Session ------------------------------
(***************************************************************************)
(* The interactive session (cli/interactive.py, repl_commands.py,          *)
(* mode.py), its resumable record (session_store.py), the first run and    *)
(* /setup (onboarding.py, userconfig.py) and the one-shot `veridian run`   *)
(* (run_cmds.py), over the kernels they start and stop.                    *)
(*                                                                         *)
(* A stack is the path of its file; two files may bear the same name, and  *)
(* the record keeps the name.  The loop is driven one call at a time: a    *)
(* Ctrl-C cancels a goal, and ends the session when it interrupts a slash  *)
(* command.  The process may be killed at any time.                        *)
(***************************************************************************)
EXTENDS Naturals, Sequences

CONSTANTS
    Stacks,         \* stack files
    StackName,      \* StackName[s]: the name the file states
    Shipped,        \* Shipped[s]: the model its inference binding asks for, Absent when there is no file
    Runnable,       \* the stacks that bind an orchestrator
    Switchable,     \* those that bind inference too
    Builtin,        \* stacks/default.toml
    UserStack,      \* the stack the first run writes
    Models,
    Modes, DefaultMode, NextMode,
    Withheld,       \* Withheld[m]: the capabilities mode m withholds
    Unrestricted,   \* what a kernel withholds before it is told
    MaxKernels,     \* bound: kernels made in one session
    Absent

ASSUME SessionAssumption ==
    /\ DefaultMode \in Modes /\ NextMode \in [Modes -> Modes]
    /\ UserStack \in Stacks /\ Builtin \in Stacks
    /\ Shipped \in [Stacks -> Models \cup {Absent}] /\ Absent \notin Models
    /\ Runnable \subseteq Stacks /\ Switchable \subseteq Runnable
    /\ MaxKernels \in Nat \ {0}

VARIABLES
    at,         \* what the process is doing
    kern,       \* the kernels made by this process, the boot kernel first
    ctx,        \* the session: its kernel, stack, model, mode, ...
    record,     \* the session's record on disk
    clean,      \* whether the last write of the record succeeded
    files,      \* the stack files
    chosen      \* whether config.toml names UserStack as the default
vars == <<at, kern, ctx, record, clean, files, chosen>>

Doing(what) == at.op = what
Prompt == [op |-> "prompt"]
Closed == [op |-> "closed"]

(* Kernels ****************************************************************)

Made(s, m) == [stack |-> s, model |-> m, started |-> FALSE, bricks |-> FALSE, withheld |-> Unrestricted]
Up(k) == [k EXCEPT !.started = TRUE, !.bricks = TRUE]
\* start() that raises leaves the bricks it had brought up, some or none.
HalfUp(k, some) == [k EXCEPT !.bricks = @ \/ some]
\* stop() does nothing for a kernel that did not finish its start.
Stopped(k) == IF k.started THEN [k EXCEPT !.started = FALSE, !.bricks = FALSE] ELSE k
Restricted(k, mode) == [k EXCEPT !.withheld = Withheld[mode]]

Live == kern[ctx.kernel]

(* The record *************************************************************)

Recorded(c) == [name |-> StackName[c.stack], model |-> c.model, mode |-> c.mode]

\* Each write replaces the file whole; one that fails leaves the old one.
Save(c, ok) ==
    /\ clean' = (c.store /\ ok)
    /\ record' = IF c.store /\ ok THEN Recorded(c) ELSE record

\* An exception out of a handler ends _repl before it can return the kernel
\* that is live: start_interactive is left with the one it booted.
Escape == [op |-> "exit", live |-> 1]

\* Where the write of a handler that does not catch OSError leaves the session.
AfterSave(ok) == IF ctx.store /\ ~ ok THEN Escape ELSE Prompt

(* Start and end of a session *********************************************)

\* A path that is a file, or the name of a stack, whose first file wins; two of
\* the search roots are the user's and the one of the repository.
Resolves(ref) == {s \in Stacks : files[s] # Absent /\ (s = ref \/ StackName[s] = ref)}
DefaultStack == IF chosen /\ files[UserStack] # Absent THEN UserStack ELSE Builtin

Opened(s, model, mode, ok) ==
    [kernel |-> 1, stack |-> s, model |-> model, mode |-> mode, applied |-> FALSE, store |-> ok]

\* A record that cannot be written is not fatal.  A fresh session has an id of its own.
OpenSession(s, model, mode, fresh, ok) ==
    /\ files[s] # Absent /\ s \in Runnable
    /\ kern' = <<Made(s, model)>>
    /\ ctx' = Opened(s, model, mode, ok)
    /\ clean' = ok
    /\ record' = IF ok THEN Recorded(ctx') ELSE IF fresh THEN Absent ELSE record
    /\ at' = Prompt
    /\ UNCHANGED <<files, chosen>>

StartFresh(s, ok) ==
    /\ Doing("closed") \/ Doing("boot")
    /\ Doing("closed") => chosen \/ s # DefaultStack       \* --stack, or not the first run
    /\ Doing("boot") => s = DefaultStack
    /\ OpenSession(s, files[s], DefaultMode, TRUE, ok)

FirstRun ==
    /\ Doing("closed") /\ ~ chosen
    /\ at' = [op |-> "ask", boot |-> TRUE]
    /\ kern' = <<>>
    /\ UNCHANGED <<ctx, record, clean, files, chosen>>

\* Plausible bug: the stack's own model is used.
Resume_StackModel(s, ok) ==
    /\ Doing("closed") /\ record # Absent
    /\ s \in Resolves(record.name)
    /\ OpenSession(s, files[s], record.mode, FALSE, ok)

\* The recorded model is pushed into the binding, whichever stack it is.
Resume(s, ok) ==
    /\ Doing("closed") /\ record # Absent
    /\ s \in Resolves(record.name)
    /\ OpenSession(s, record.model, record.mode, FALSE, ok)

Exit ==
    /\ Doing("prompt")
    /\ at' = [op |-> "exit", live |-> ctx.kernel]
    /\ UNCHANGED <<kern, ctx, record, clean, files, chosen>>

EndSession(ok) ==
    /\ Doing("exit")
    /\ Save(ctx, ok)
    /\ kern' = [kern EXCEPT ![at.live] = Stopped(@)]
    /\ at' = Closed
    /\ UNCHANGED <<ctx, files, chosen>>

Kill ==
    /\ ~ Doing("closed")
    /\ at' = Closed /\ kern' = <<>>      \* the bricks read end of file and exit
    /\ UNCHANGED <<ctx, record, clean, files, chosen>>

(* Starting the live kernel: for a goal, /model, /compact or `run` ********)

\* Nothing is started twice.
Needs(then) ==
    /\ at' = IF Live.started THEN [op |-> then] ELSE [op |-> "start", then |-> then]
    /\ UNCHANGED <<kern, ctx, record, clean, files, chosen>>

AskGoal == Doing("prompt") /\ Needs("goal")
CmdModel == Doing("prompt") /\ Needs("model")
CmdCompact == Doing("prompt") /\ Needs("compact")

RunOnce(s) ==
    /\ Doing("closed")
    /\ files[s] # Absent /\ s \in Runnable
    /\ kern' = <<Made(s, files[s])>>
    /\ at' = [op |-> "start", then |-> "once"]
    /\ ctx' = [ctx EXCEPT !.kernel = 1]
    /\ UNCHANGED <<record, clean, files, chosen>>

KernelStarts ==
    /\ Doing("start")
    /\ kern' = [kern EXCEPT ![ctx.kernel] = Up(@)]
    /\ at' = [op |-> at.then]
    /\ UNCHANGED <<ctx, record, clean, files, chosen>>

\* A goal catches what a brick answers and a missing environment, and nothing
\* else; the commands catch everything.
KernelStartFails(some, other) ==
    /\ Doing("start")
    /\ kern' = [kern EXCEPT ![ctx.kernel] = HalfUp(@, some)]
    /\ at' = CASE at.then = "once" -> Closed
               [] at.then = "goal" /\ other -> Escape
               [] OTHER -> Prompt
    /\ UNCHANGED <<ctx, record, clean, files, chosen>>

RunOnceEnds ==
    /\ Doing("once")
    /\ kern' = [kern EXCEPT ![1] = Stopped(@)]
    /\ at' = Closed
    /\ UNCHANGED <<ctx, record, clean, files, chosen>>

(* Goals ******************************************************************)

GoalBegins ==
    /\ Doing("goal")
    /\ kern' = IF ctx.applied THEN kern ELSE [kern EXCEPT ![ctx.kernel] = Restricted(@, ctx.mode)]
    /\ ctx' = [ctx EXCEPT !.applied = TRUE]
    /\ at' = [op |-> "running"]
    /\ UNCHANGED <<record, clean, files, chosen>>

\* The summary is recorded when there is a result; a failed write is dropped.
GoalEnds(ok) ==
    /\ Doing("running")
    /\ Save(ctx, ok)
    /\ at' = Prompt
    /\ UNCHANGED <<kern, ctx, files, chosen>>

\* Ctrl-C cancels the turn, wherever it is, and returns to the prompt.
GoalInterrupted(some) ==
    /\ Doing("running") \/ (Doing("start") /\ at.then = "goal")
    /\ kern' = IF Doing("start") THEN [kern EXCEPT ![ctx.kernel] = HalfUp(@, some)] ELSE kern
    /\ at' = Prompt
    /\ UNCHANGED <<ctx, record, clean, files, chosen>>

\* Ctrl-C in a slash command leaves the loop.
CommandInterrupted(some) ==
    /\ at.op \in {"model", "compact", "rebind", "switch", "retire", "ask", "env", "config"} \/ (Doing("start") /\ at.then \in {"model", "compact"})
    /\ at' = IF kern = <<>> THEN Closed ELSE Escape
    /\ kern' = CASE Doing("start") -> [kern EXCEPT ![ctx.kernel] = HalfUp(@, some)]
                 [] Doing("switch") -> [kern EXCEPT ![at.target] = HalfUp(@, some)]
                 [] OTHER -> kern
    /\ UNCHANGED <<ctx, record, clean, files, chosen>>

(* /mode, /model, /compact ************************************************)

\* Plausible bug: only the next kernel hears of the mode.
CmdMode_NextKernel(ok) ==
    /\ Doing("prompt")
    /\ ctx' = [ctx EXCEPT !.mode = NextMode[@]]
    /\ Save(ctx', ok)
    /\ at' = AfterSave(ok)
    /\ UNCHANGED <<kern, files, chosen>>

CmdMode(ok) ==
    /\ Doing("prompt")
    /\ ctx' = [ctx EXCEPT !.mode = NextMode[@]]
    /\ kern' = IF Live.started THEN [kern EXCEPT ![ctx.kernel] = Restricted(@, ctx'.mode)] ELSE kern
    /\ Save(ctx', ok)
    /\ at' = AfterSave(ok)
    /\ UNCHANGED <<files, chosen>>

\* models() fails, lists nothing, or the choice is none, unknown or the same.
NoSwitch ==
    /\ Doing("model") \/ Doing("compact")
    /\ at' = Prompt
    /\ UNCHANGED <<kern, ctx, record, clean, files, chosen>>

ChooseModel(m) ==
    /\ Doing("model") /\ m # ctx.model
    /\ at' = [op |-> "rebind", model |-> m]
    /\ UNCHANGED <<kern, ctx, record, clean, files, chosen>>

ModelSwitched(ok) ==
    /\ Doing("rebind")
    /\ kern' = [kern EXCEPT ![ctx.kernel].model = at.model]
    /\ ctx' = [ctx EXCEPT !.model = at.model]
    /\ Save(ctx', ok)
    /\ at' = AfterSave(ok)
    /\ UNCHANGED <<files, chosen>>

SwitchModelFails ==
    /\ Doing("rebind")
    /\ at' = Prompt
    /\ UNCHANGED <<kern, ctx, record, clean, files, chosen>>

(* /stack and the end of /setup *******************************************)

\* A target that is not there, lacks a binding or is the stack already bound
\* changes nothing.
CanSwitch(s, force) ==
    /\ files[s] # Absent /\ s \in Switchable
    /\ force \/ s # ctx.stack
    /\ Len(kern) < MaxKernels

\* A write of the record that fails is dropped.
Commit(k, s, applied, ok) ==
    /\ ctx' = [ctx EXCEPT !.kernel = k, !.stack = s, !.model = files[s], !.applied = applied]
    /\ Save(ctx', ok)
    /\ at' = Prompt

\* Plausible bug: the old kernel is stopped before the new one has come up.
SwitchStack_StopsFirst(s, ok) ==
    /\ kern' = Append([kern EXCEPT ![ctx.kernel] = Stopped(@)], Made(s, files[s]))
    /\ IF Live.started
         THEN at' = [op |-> "switch", target |-> Len(kern')] /\ UNCHANGED <<ctx, record, clean>>
         ELSE Commit(Len(kern'), s, FALSE, ok)

SwitchStack(s, ok) ==
    /\ kern' = Append(kern, Made(s, files[s]))
    /\ IF Live.started
         THEN at' = [op |-> "switch", target |-> Len(kern')] /\ UNCHANGED <<ctx, record, clean>>
         ELSE Commit(Len(kern'), s, FALSE, ok)

CmdStack(s, ok) ==
    /\ Doing("prompt") /\ CanSwitch(s, FALSE)
    /\ SwitchStack(s, ok)
    /\ UNCHANGED <<files, chosen>>

SwitchStarts ==
    /\ Doing("switch")
    /\ kern' = [kern EXCEPT ![at.target] = Restricted(Up(@), ctx.mode)]
    /\ at' = [op |-> "retire", target |-> at.target]
    /\ ctx' = [ctx EXCEPT !.applied = TRUE]
    /\ UNCHANGED <<record, clean, files, chosen>>

SwitchFails(some) ==
    /\ Doing("switch")
    /\ kern' = [kern EXCEPT ![at.target] = Stopped(HalfUp(@, some))]
    /\ at' = Prompt
    /\ UNCHANGED <<ctx, record, clean, files, chosen>>

\* An old kernel that does not stop cleanly is left behind.
Retire(whole, ok) ==
    /\ Doing("retire")
    /\ kern' = IF whole THEN [kern EXCEPT ![ctx.kernel] = Stopped(@)] ELSE kern
    /\ Commit(at.target, kern[at.target].stack, TRUE, ok)
    /\ UNCHANGED <<files, chosen>>

(* The first run and /setup ***********************************************)

CmdSetup ==
    /\ Doing("prompt")
    /\ at' = [op |-> "ask", boot |-> FALSE]
    /\ UNCHANGED <<kern, ctx, record, clean, files, chosen>>

\* Where a session that asked goes on: it boots, or it is at the prompt.
Return == IF at.boot THEN [op |-> "boot"] ELSE Prompt
\* An OSError of one of the writes.
Fails == IF at.boot THEN Closed ELSE Escape

SetupCancelled ==
    /\ Doing("ask")
    /\ at' = Return
    /\ UNCHANGED <<kern, ctx, record, clean, files, chosen>>

\* Plausible bug: the choice is recorded first.
WriteStack_ChoiceFirst(m) ==
    /\ Doing("ask")
    /\ chosen' = TRUE
    /\ \/ files' = [files EXCEPT ![UserStack] = m] /\ at' = [op |-> "env", boot |-> at.boot]
       \/ UNCHANGED files /\ at' = Fails
    /\ UNCHANGED <<kern, ctx, record, clean>>

WriteStack(m) ==
    /\ Doing("ask")
    /\ \/ files' = [files EXCEPT ![UserStack] = m] /\ at' = [op |-> "env", boot |-> at.boot]
       \/ UNCHANGED files /\ at' = Fails
    /\ UNCHANGED <<kern, ctx, record, clean, chosen>>

\* The key, when one was typed.
WriteEnv ==
    /\ Doing("env")
    /\ at' \in {[op |-> "config", boot |-> at.boot], Fails}
    /\ UNCHANGED <<kern, ctx, record, clean, files, chosen>>

\* The choice of stack; then the first run boots and /setup switches, by force.
WriteConfig(ok) ==
    /\ Doing("config")
    /\ \/ /\ chosen' = TRUE
          /\ IF ~ at.boot /\ CanSwitch(UserStack, TRUE)
               THEN SwitchStack(UserStack, ok)
               ELSE at' = Return /\ UNCHANGED <<kern, ctx, record, clean>>
       \/ at' = Fails /\ UNCHANGED <<kern, ctx, record, clean, chosen>>
    /\ UNCHANGED files

(* The specification ******************************************************)

SessionInit ==
    /\ at = Closed /\ kern = <<>>
    /\ ctx = Opened(Builtin, Shipped[Builtin], DefaultMode, FALSE)
    /\ record = Absent /\ clean = FALSE
    /\ files = Shipped /\ chosen = FALSE

SessionNext ==
    \/ \E s \in Stacks, ok \in BOOLEAN : StartFresh(s, ok) \/ Resume(s, ok) \/ CmdStack(s, ok)
    \/ \E ok \in BOOLEAN : EndSession(ok) \/ GoalEnds(ok) \/ CmdMode(ok) \/ ModelSwitched(ok) \/ WriteConfig(ok)
    \/ FirstRun \/ Exit \/ Kill \/ AskGoal \/ CmdModel \/ CmdCompact \/ CmdSetup
    \/ \E s \in Stacks : RunOnce(s)
    \/ \E some, other \in BOOLEAN : KernelStartFails(some, other) \/ Retire(some, other)
    \/ \E some \in BOOLEAN : GoalInterrupted(some) \/ CommandInterrupted(some) \/ SwitchFails(some)
    \/ KernelStarts \/ RunOnceEnds \/ GoalBegins \/ NoSwitch \/ SwitchModelFails \/ SwitchStarts
    \/ \E m \in Models : ChooseModel(m) \/ WriteStack(m)
    \/ SetupCancelled \/ WriteEnv

SessionSpec == SessionInit /\ [][SessionNext]_vars

(* Properties *************************************************************)

\* A goal runs in a kernel that is up and withholds what the mode on the screen
\* says, whatever /mode, /model, /stack and interrupts came before
\* (interactive.py:328, repl_commands.py:252, 318).
GoalRunsRestricted ==
    Doing("running") => Live.started /\ Live.withheld = Withheld[ctx.mode]

\* A switch that does not come to its end leaves the session as it was: on the
\* same kernel, up and restricted as before (repl_commands.py:200-202).
FailedSwitchKeepsSession ==
    [][at.op \in {"switch", "retire"} /\ at'.op = "prompt" =>
          \/ ctx'.kernel = at.target
          \/ ctx' = ctx /\ kern'[ctx.kernel] = Live /\ Live.started]_vars

\* A session resumed after an exit or a kill at any point is the one that was
\* left, provided the last write of its record went through: same stack by name,
\* same mode, and the bricks run the model shown (session_store.py:8-9).
ResumeRestores ==
    [][clean /\ (\E s \in Stacks, ok \in BOOLEAN : Resume(s, ok)) =>
          Recorded(ctx') = Recorded(ctx) /\ kern'[1].model = ctx.model]_vars

\* Whoever is recorded as set up has a stack to be set up with, through failed
\* writes and interrupts: otherwise the first run never asks again
\* (onboarding.py:330-342).
FirstRunIsComplete == chosen => files[UserStack] # Absent
=============================================================================
