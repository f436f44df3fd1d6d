------------------------------ MODULE Planners ------------------------------
(***************************************************************************)
(* The three planner bricks (bricks/planning/default, recursive and        *)
(* tree-search) as functions of a plan: what `plan` makes of a goal, what  *)
(* `next` hands out for an observation, and what `is_complete` answers.    *)
(* A plan has branches of steps; the first two bricks keep one branch.     *)
(***************************************************************************)
EXTENDS Integers, Sequences, FiniteSets, Functions

CONSTANTS
    Clauses,        \* Clauses[t]: the parts the separators leave of a text
    MaxDepth,       \* max_depth of planning/recursive
    MaxBranches     \* max_branches of planning/tree-search

\* Parts are texts, and a part holds no separator any more.
ASSUME ClausesAssumption ==
    /\ Clauses \in [DOMAIN Clauses -> Seq(DOMAIN Clauses)]
    /\ \A t \in DOMAIN Clauses : \A i \in DOMAIN Clauses[t] : Clauses[Clauses[t][i]] = <<Clauses[t][i]>>
ASSUME BranchesAssumption == MaxBranches \in Nat \ {0}

NoStep == [branch |-> 0, step |-> 0]

Step(text, depth) == [text |-> text, status |-> "pending", depth |-> depth]
Branch(steps) == [steps |-> steps, score |-> 0]

\* The first orderings of 1 .. n, as itertools.permutations lists them.
Earlier(p, q) == \E i \in DOMAIN p : p[i] < q[i] /\ \A j \in 1 .. i - 1 : p[j] = q[j]
Arrangements(n) == {p \in [1 .. n -> 1 .. n] : IsInjective(p)}
Nth(P, k) == CHOOSE p \in P : Cardinality({q \in P : Earlier(q, p)}) = k - 1
Orderings(n) ==
    LET P == Arrangements(n)
        k == Cardinality(P)
    IN [b \in 1 .. (IF k < MaxBranches THEN k ELSE MaxBranches) |-> Nth(P, b)]

Plan(kind, goal) ==
    LET parts == Clauses[goal]
        orders == IF kind = "tree-search" THEN Orderings(Len(parts)) ELSE <<[i \in DOMAIN parts |-> i]>>
    IN [kind |-> kind, active |-> 1,
        branches |-> [b \in DOMAIN orders |-> Branch([i \in DOMAIN parts |-> Step(parts[orders[b][i]], 0)])]]

With(b, status) == {i \in DOMAIN b.steps : b.steps[i].status = status}
Least(S) == CHOOSE i \in S : \A j \in S : i <= j
Greatest(S) == CHOOSE i \in S : \A j \in S : i >= j

\* The observation is the outcome of the step that is active.
Resolve(b, failed) ==
    IF With(b, "active") = {} THEN b
    ELSE [b EXCEPT !.steps[Least(With(b, "active"))].status = IF failed THEN "failed" ELSE "done",
                   !.score = IF failed THEN @ - 1 ELSE @ + 1]

\* A step that still has several clauses is replaced by them.
Expand(b, i) ==
    LET s == b.steps[i]
        subs == [j \in DOMAIN Clauses[s.text] |-> Step(Clauses[s.text][j], s.depth + 1)]
    IN IF Len(subs) > 1 /\ s.depth < MaxDepth
         THEN [b EXCEPT !.steps = SubSeq(@, 1, i - 1) \o subs \o SubSeq(@, i + 1, Len(@))]
         ELSE b

\* Best score, the later branch of two that tie.
Better(branches, a, b) ==
    branches[a].score > branches[b].score \/ (branches[a].score = branches[b].score /\ a >= b)

Activate(plan, k, i) ==
    [plan |-> [plan EXCEPT !.active = k, !.branches[k].steps[i].status = "active"],
     step |-> [branch |-> k, step |-> i]]

Next(plan, failed) ==
    LET was == plan.branches[plan.active]
        now == [plan EXCEPT !.branches[plan.active] = Resolve(was, failed)]
        open == {k \in DOMAIN now.branches : With(now.branches[k], "pending") # {}}
        best == CHOOSE k \in open : \A j \in open : Better(now.branches, k, j)
        first == Least(With(now.branches[best], "pending"))
        stops == plan.kind # "tree-search" /\ failed /\ With(was, "active") # {}
    IN IF stops \/ open = {} THEN [plan |-> now, step |-> NoStep]
       ELSE IF plan.kind = "recursive"
              THEN Activate([now EXCEPT !.branches[1] = Expand(@, first)], 1, first)
              ELSE Activate(now, best, first)

IsComplete(plan) ==
    LET allDone(b) == \A i \in DOMAIN b.steps : b.steps[i].status = "done"
        anyFailed(b) == With(b, "failed") # {}
    IN \/ \E k \in DOMAIN plan.branches : allDone(plan.branches[k])
       \/ \A k \in DOMAIN plan.branches : anyFailed(plan.branches[k])
=============================================================================
