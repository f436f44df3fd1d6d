\* Five goals at most, the first with four turns and the second with one; all that
\* is bounded may be used up, hence no check for deadlock.
SPECIFICATION AgentSpec
CONSTANTS
    Goals <- MCGoals
    Objectives <- MCObjectives
    Clauses <- MCClauses
    PlannerKinds <- MCPlannerKinds
    Paths <- MCPaths
    MaxDepth = 3
    MaxBranches = 3
    Limits <- MCLimits
    MaxFailures = 2
    HistoryLimit = 5
    MaxCalls = 2
    MaxLog = 12
    NoPlan = NoPlan
    NoGit = NoGit
INVARIANTS  PlanIsWalked
PROPERTIES  RunEnds
CHECK_DEADLOCK FALSE
