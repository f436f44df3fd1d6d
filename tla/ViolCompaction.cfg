\* The same sessions; all that is bounded may be used up.
SPECIFICATION AgentSpec
CONSTANTS
    Goals <- MCGoals
    Objectives <- MCObjectives
    Clauses <- MCClauses
    PlannerKinds <- MCPlannerKinds
    Paths <- MCPaths
    MaxDepth = 3
    MaxBranches = 3
    Limits <- MCLimits
    MaxFailures = 2
    HistoryLimit = 5
    MaxCalls = 1
    MaxLog = 12
    NoPlan = NoPlan
    NoGit = NoGit
CHECK_DEADLOCK FALSE
INVARIANT CompactionKeepsHistory
