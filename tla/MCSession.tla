----------------------------- MODULE MCSession -----------------------------
(* The built-in stack, the one of the first run, and one given by its path  *)
(* that bears the name of the built-in one and binds no inference.          *)
EXTENDS Session
MCStacks == {"default", "mine", "./default"}
MCStackName == [s \in MCStacks |-> IF s = "./default" THEN "default" ELSE s]
MCModels == {"small", "large"}
MCShipped == [s \in MCStacks |-> IF s = "mine" THEN Absent ELSE IF s = "./default" THEN "large" ELSE "small"]
MCRunnable == MCStacks
MCSwitchable == MCStacks \ {"./default"}
MCModes == {"plan", "auto"}
MCNextMode == [m \in MCModes |-> IF m = "plan" THEN "auto" ELSE "plan"]
MCWithheld == [m \in MCModes |-> IF m = "plan" THEN {"workspace:write", "contract:sandbox"} ELSE {}]
MCUnrestricted == {}
=============================================================================
