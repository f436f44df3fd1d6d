------------------------------ MODULE MCAgent ------------------------------
(* Small talk, a goal with one objective and one with a file to write and   *)
(* then a command to run; "two" is also two steps for a planner.            *)
EXTENDS Agent
MCGoals == {"hello", "one", "two"}
MCObjectives == [g \in MCGoals |->
    CASE g = "hello" -> <<>> [] g = "one" -> <<"command", "none">> [] OTHER -> <<"file", "file">>]
MCClauses == [t \in MCGoals |-> IF t = "two" THEN <<"hello", "one">> ELSE <<t>>]
MCPlannerKinds == {"default", "recursive", "tree-search"}
MCLimits == <<4, 1, 0, 0, 0>>
MCPaths == {"a"}
=============================================================================
