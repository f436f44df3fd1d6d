------------------------------- MODULE Agent -------------------------------
(***************************************************************************)
(* A goal inside the orchestrator brick: the autonomous loop               *)
(* (pre-installed/bricks/orchestrator) with its objectives and the         *)
(* evidence that closes them, the default loop (bricks/orchestrator) with  *)
(* its planner, the tools they call (toolkit, sandbox) and the             *)
(* conversation log that outlives the run, with /compact.                  *)
(*                                                                         *)
(* A message of the transcript is the set of what the evidence rules would *)
(* find in its tool results, {} for most: "command" for one that succeeded *)
(* and shows a command line or exit status, "written" for one that says so.*)
(***************************************************************************)
EXTENDS Planners, FiniteSets

CONSTANTS
    Goals,
    Objectives,     \* Objectives[g]: the rule of each objective: "command", "file" or "none"; <<>> for small talk
    PlannerKinds,   \* the planners a stack may bind
    Paths,          \* files of the workspace
    Limits,         \* Limits[n]: limits.max_iterations of the n-th goal (bound: as many goals)
    MaxFailures,
    HistoryLimit,   \* turns of the log a run asks for
    MaxCalls,       \* bound: tool calls in one turn of the model
    MaxLog,         \* bound: turns in the log
    NoPlan, NoGit

ASSUME AgentAssumption ==
    /\ Limits \in Seq(Nat) /\ MaxFailures \in Nat \ {0} /\ HistoryLimit \in Nat \ {0}
    /\ Goals \subseteq DOMAIN Clauses
    /\ \A g \in Goals : Objectives[g] \in Seq({"command", "file", "none"})
    /\ PlannerKinds \subseteq {"default", "recursive", "tree-search"} /\ NoPlan \notin PlannerKinds
    /\ \A d \in SUBSET Paths : d # NoGit

VARIABLES
    loop,       \* the orchestrator the stack binds
    planner,    \* its planner
    run,        \* the run under way
    dirty,      \* the paths git status lists
    log,        \* the conversation brick's turns
    runs,       \* goals given so far
    done        \* history: what was really done for the current objective
vars == <<loop, planner, run, dirty, log, runs, done>>

Idle == [at |-> "idle"]
At(where) == run.at = where

(* The conversation log ***************************************************)

Turn(kind, covers) == [kind |-> kind, covers |-> covers]

\* Plausible bug: what follows the marker, without it.
AfterLastCompaction_Exclusive(from) ==
    LET marks == {i \in from .. Len(log) : log[i].kind = "compaction"}
    IN IF marks = {} THEN from .. Len(log) ELSE Greatest(marks) + 1 .. Len(log)

AfterLastCompaction(from) ==
    LET marks == {i \in from .. Len(log) : log[i].kind = "compaction"}
    IN IF marks = {} THEN from .. Len(log) ELSE Greatest(marks) .. Len(log)

\* The last HistoryLimit turns, then those from the last marker on.
Loaded == AfterLastCompaction(IF Len(log) > HistoryLimit THEN Len(log) - HistoryLimit + 1 ELSE 1)

Append1(kind, covers) == log' = Append(log, Turn(kind, covers))

\* /compact: the turns since the last marker, which is not among them, become
\* one turn; fewer than three stay as they are.
Compact ==
    LET live == AfterLastCompaction(1)
        body == {i \in live : log[i].kind # "compaction"}
    IN /\ At("idle") /\ Cardinality(body) > 2 /\ Len(log) < MaxLog
       /\ Append1("compaction", body)
       /\ UNCHANGED <<loop, planner, run, dirty, runs, done>>

(* The start of a run *****************************************************)

\* git status through the tools: none when it fails or there is no repository.
GitFiles(works) == IF works THEN dirty ELSE NoGit

\* System prompt, history, goal; the goal is in the log before the model is asked.
Begin(g, base, plan) ==
  LET seen == Loaded IN
    /\ At("idle") /\ runs < Len(Limits) /\ Len(log) + 2 <= MaxLog
    /\ run' = [at |-> "top", goal |-> g, idx |-> 1, iter |-> 0, fails |-> 0, base |-> base,
               msgs |-> [i \in 1 .. Cardinality(seen) + 2 |-> {}], calls |-> 0, results |-> {}, error |-> FALSE,
               plan |-> plan, seen |-> seen, status |-> "failed"]
    /\ Append1("user", {})
    /\ runs' = runs + 1 /\ done' = {}
    /\ UNCHANGED <<loop, planner, dirty>>

\* The autonomous loop notes the working tree when there is an objective to prove.
RunGoal(g, git) ==
    /\ loop = "autonomous"
    /\ Begin(g, IF Objectives[g] = <<>> THEN NoGit ELSE GitFiles(git), NoPlan)

DefaultRunGoal(g) ==
    /\ loop = "default"
    /\ Begin(g, NoGit, IF planner = NoPlan THEN NoPlan ELSE Plan(planner, g))

Say(n) == [i \in 1 .. n |-> {}]

\* An exception of a contract call, a refused tool call, a timeout or a cancel:
\* nothing more is written.
RunFails ==
    /\ ~ At("idle")
    /\ run' = Idle /\ done' = {}
    /\ UNCHANGED <<loop, planner, dirty, log, runs>>

\* The working transcript, compacted in its middle when it has grown long.
Compacted(msgs) == SubSeq(msgs, 1, 2) \o Say(1) \o SubSeq(msgs, Len(msgs) - 3, Len(msgs))

Finish(status) == run' = [run EXCEPT !.at = "close", !.status = status]

LoopTop(long) ==
    /\ At("top") /\ loop = "autonomous"
    /\ run.iter < Limits[runs] /\ (long => Len(run.msgs) > 8)
    /\ run' = [run EXCEPT !.at = "generate", !.iter = @ + 1,
                          !.msgs = IF long THEN Compacted(@) ELSE @]
    /\ UNCHANGED <<loop, planner, dirty, log, runs, done>>

OutOfIterations ==
    /\ At("top") /\ run.iter >= Limits[runs]
    /\ Finish("max_iterations")
    /\ UNCHANGED <<loop, planner, dirty, log, runs, done>>

NextTurn == [run EXCEPT !.calls = 0, !.results = {}, !.error = FALSE]

\* A turn that does not advance: the loop gives up at the cap, else it says why.
Recover(said) ==
    LET r == [NextTurn EXCEPT !.fails = @ + 1, !.msgs = @ \o said]
    IN run' = IF r.fails >= MaxFailures THEN [r EXCEPT !.at = "close"]
              ELSE [r EXCEPT !.at = "top", !.msgs = @ \o Say(1)]

(* The turn of the model **************************************************)

GenerateNothing ==
    /\ At("generate") /\ loop = "autonomous"
    /\ Recover(Say(1))
    /\ UNCHANGED <<loop, planner, dirty, log, runs, done>>

GenerateCalls ==
    /\ At("generate")
    /\ run' = [run EXCEPT !.at = "act", !.msgs = @ \o Say(1)]
    /\ UNCHANGED <<loop, planner, dirty, log, runs, done>>

GenerateText ==
    /\ At("generate") /\ loop = "autonomous"
    /\ run' = [run EXCEPT !.at = IF Objectives[run.goal] = <<>> THEN "close" ELSE "verify",
                          !.status = IF Objectives[run.goal] = <<>> THEN "completed" ELSE @,
                          !.fails = IF Objectives[run.goal] = <<>> THEN 0 ELSE @,
                          !.msgs = @ \o Say(1)]
    /\ UNCHANGED <<loop, planner, dirty, log, runs, done>>

(* Tools ******************************************************************)

\* What a call shows, whether it is an error, what git status lists after it.
Observe(shows, error, files) ==
    /\ At("act") /\ run.calls < MaxCalls
    /\ run' = [run EXCEPT !.calls = @ + 1, !.results = @ \cup shows, !.error = @ \/ error]
    /\ done' = done \cup (IF files \subseteq dirty THEN {} ELSE {"touched"})
    /\ dirty' = files
    /\ UNCHANGED <<loop, planner, log, runs>>

\* run_command, by the toolkit or by the loop itself.  A command may change any
\* file, or commit what has changed, whatever its exit status.
RunCommand(exit0, files) ==
    IF exit0 THEN Observe({"command"}, FALSE, files) ELSE Observe({}, TRUE, files)

ToolFails == Observe({}, TRUE, dirty)

\* write_file, and edit_file of a text that occurs once.
WriteFile(p) == Observe({"written"}, FALSE, dirty \cup {p})

\* read_file, search_files, git_log, a skill...: its output is text from
\* the workspace and may read like that of the others.
ReadTool(reads) == Observe(reads, FALSE, dirty)

GitCommit == Observe({}, FALSE, {})

TurnEnds ==
    LET told == <<run.results>>
    IN /\ At("act") /\ loop = "autonomous" /\ run.calls > 0
       /\ IF run.error THEN Recover(told)
          ELSE run' = [NextTurn EXCEPT !.at = "top", !.fails = 0, !.msgs = @ \o told]
       /\ UNCHANGED <<loop, planner, dirty, log, runs, done>>

(* Evidence ***************************************************************)

Shown == UNION {run.msgs[i] : i \in DOMAIN run.msgs}

Changed(now) == (now \ (IF run.base = NoGit THEN {} ELSE run.base)) # {}

\* Whether the transcript and the working tree prove the current objective.
Verified(now) ==
    CASE Objectives[run.goal][run.idx] = "command" -> "command" \in Shown
      [] Objectives[run.goal][run.idx] = "file" ->
             IF now = NoGit THEN "written" \in Shown ELSE Changed(now)
      [] OTHER -> TRUE

NotVerified(git) ==
    /\ At("verify") /\ ~ Verified(GitFiles(git))
    /\ Recover(<<>>)
    /\ UNCHANGED <<loop, planner, dirty, log, runs, done>>

\* Plausible bug: the tree is compared with the one before the run.
ObjectiveVerified_OldBase(git, again) ==
    /\ At("verify") /\ Verified(GitFiles(git))
    /\ run' = [run EXCEPT !.fails = 0, !.idx = @ + 1,
                          !.at = IF run.idx = Len(Objectives[run.goal]) THEN "close" ELSE "top",
                          !.status = IF run.idx = Len(Objectives[run.goal]) THEN "completed" ELSE @,
                          !.msgs = IF run.idx = Len(Objectives[run.goal]) THEN @ ELSE @ \o Say(1)]
    /\ done' = {}
    /\ UNCHANGED <<loop, planner, dirty, log, runs>>

ObjectiveVerified(git, again) ==
    /\ At("verify") /\ Verified(GitFiles(git))
    /\ run' = [run EXCEPT !.fails = 0, !.idx = @ + 1, !.base = GitFiles(again),
                          !.at = IF run.idx = Len(Objectives[run.goal]) THEN "close" ELSE "top",
                          !.status = IF run.idx = Len(Objectives[run.goal]) THEN "completed" ELSE @,
                          !.msgs = IF run.idx = Len(Objectives[run.goal]) THEN @ ELSE @ \o Say(1)]
    /\ done' = {}
    /\ UNCHANGED <<loop, planner, dirty, log, runs>>

(* The default loop *******************************************************)

Planned == run.plan # NoPlan

Turned(plan, step, iter) ==
    [run EXCEPT !.iter = iter, !.plan = plan,
                !.at = IF Planned /\ step = NoStep THEN "close" ELSE "generate",
                !.status = IF Planned /\ step = NoStep THEN "completed" ELSE @]

\* Plausible bug: only turns without a plan are counted.
DefaultTop_PlanUncounted ==
    LET n == IF Planned THEN Next(run.plan, FALSE) ELSE [plan |-> NoPlan, step |-> NoStep]
    IN /\ At("top") /\ loop = "default" /\ run.iter < Limits[runs]
       /\ run' = Turned(run.plan, n.step, IF Planned THEN run.iter ELSE run.iter + 1)
       /\ UNCHANGED <<loop, planner, dirty, log, runs, done>>

\* Each turn begins with the next step of the plan; the loop reports no failure
\* of the one before.
DefaultTop ==
    LET n == IF Planned THEN Next(run.plan, FALSE) ELSE [plan |-> NoPlan, step |-> NoStep]
    IN /\ At("top") /\ loop = "default" /\ run.iter < Limits[runs]
       /\ run' = Turned(n.plan, n.step, run.iter + 1)
       /\ UNCHANGED <<loop, planner, dirty, log, runs, done>>

\* A reply without tool calls ends the run, or the step when there is a plan.
DefaultText ==
    /\ At("generate") /\ loop = "default"
    /\ run' = IF Planned THEN [run EXCEPT !.at = "top"] ELSE [run EXCEPT !.at = "close", !.status = "completed"]
    /\ UNCHANGED <<loop, planner, dirty, log, runs, done>>

\* Plausible bug: without a failed step the plan counts as complete.
DefaultTurnEnds_AnyStep ==
    /\ At("act") /\ loop = "default" /\ run.calls > 0
    /\ run' = [NextTurn EXCEPT !.at = IF Planned THEN "close" ELSE "top",
                          !.status = IF Planned THEN "completed" ELSE @]
    /\ UNCHANGED <<loop, planner, dirty, log, runs, done>>

DefaultTurnEnds ==
    /\ At("act") /\ loop = "default" /\ run.calls > 0
    /\ run' = [NextTurn EXCEPT !.at = IF Planned /\ IsComplete(run.plan) THEN "close" ELSE "top",
                          !.status = IF Planned /\ IsComplete(run.plan) THEN "completed" ELSE @]
    /\ UNCHANGED <<loop, planner, dirty, log, runs, done>>

(* The end of a run *******************************************************)

\* Memory, then the turn of the assistant in the log.
Close ==
    /\ At("close")
    /\ Append1("assistant", {})
    /\ run' = Idle /\ done' = {}
    /\ UNCHANGED <<loop, planner, dirty, runs>>

(* The specification ******************************************************)

AgentInit ==
    /\ loop \in {"autonomous", "default"}
    /\ planner \in IF loop = "default" THEN PlannerKinds \cup {NoPlan} ELSE {NoPlan}
    /\ run = Idle /\ dirty \in SUBSET Paths /\ log = <<>> /\ runs = 0 /\ done = {}

LoopStep ==
    \/ \E long \in BOOLEAN : LoopTop(long)
    \/ OutOfIterations \/ GenerateNothing \/ GenerateCalls \/ GenerateText
    \/ \E exit0 \in BOOLEAN, files \in {dirty, Paths, {}} : RunCommand(exit0, files)
    \/ ToolFails \/ GitCommit
    \/ \E p \in Paths : WriteFile(p)
    \/ \E reads \in SUBSET {"command", "written"} : ReadTool(reads)
    \/ TurnEnds
    \/ \E git, again \in BOOLEAN : NotVerified(git) \/ ObjectiveVerified(git, again)
    \/ DefaultTop \/ DefaultText \/ DefaultTurnEnds
    \/ Close

AgentNext ==
    \/ \E g \in Goals, git \in BOOLEAN : RunGoal(g, git) \/ DefaultRunGoal(g)
    \/ LoopStep \/ RunFails \/ Compact

\* Every contract call returns or times out (Endpoint), so a run goes on.
AgentSpec == AgentInit /\ [][AgentNext]_vars /\ WF_vars(LoopStep)

(* Properties *************************************************************)

\* What earlier runs of the session said reaches the next one, as itself or in
\* the summary it loads, back to the last /compact but one and to the limit of
\* what is asked for (brick.py:112-117, 366-369, 600-604).
HistoryIsKept ==
    LET told == run.seen \cup UNION {log[i].covers : i \in run.seen}
        before == {i \in DOMAIN log : log[i].kind = "compaction"}
        old == IF Cardinality(before) < 2 THEN 0 ELSE Greatest(before \ {Greatest(before)})
    IN At("top") /\ run.iter = 0 =>
          \A i \in 1 .. Len(log) - 1 : i \in told \/ i <= old \/ i < Len(log) - HistoryLimit

\* With a git baseline, a file objective is closed on the word of git only by a
\* path that something done for this very objective has made dirty, not by what
\* an earlier objective left (brick.py:265-284, 524).
FileEvidenceIsFresh ==
    [][(\E again \in BOOLEAN : ObjectiveVerified(TRUE, again))
         /\ Objectives[run.goal][run.idx] = "file" /\ run.base # NoGit => "touched" \in done]_vars

\* A plan that is bound is walked to its end before the default loop calls the
\* goal completed (default/brick.py:166-171, 241-245).
PlanIsWalked ==
    At("close") /\ run.status = "completed" /\ Planned =>
        \E k \in DOMAIN run.plan.branches :
            \A i \in DOMAIN run.plan.branches[k].steps : run.plan.branches[k].steps[i].status = "done"

\* A goal is answered, given up or fails, whatever the model returns: neither
\* loop goes round for ever (brick.py:11-21, 395-402).
RunEnds == ~ At("idle") ~> At("idle")

\* VIOLATED.  brick.py:600-604, 631-635: after /compact later runs load the
\* summary, which "keeps decisions, file paths, commands run, and open threads".
CompactionKeepsHistory ==
    At("top") /\ run.iter = 0 /\ (\E i \in DOMAIN log : log[i].kind = "compaction") =>
        1 \in run.seen \cup UNION {log[i].covers : i \in run.seen}
=============================================================================
