----------------------------- MODULE MCInstall -----------------------------
(* A built-in memory brick and two releases of it from outside, the older  *)
(* with dependencies that are edited by hand, and a brick named below it.  *)
EXTENDS Install
Memory == <<"memory">>
MCPackages == {"builtin", "old", "new", "vector"}
MCVersion == [b \in MCPackages |-> CASE b = "old" -> <<0, 9>> [] b = "new" -> <<0, 10>> [] OTHER -> <<0, 9, 1>>]
MCName == [b \in MCPackages |-> IF b = "vector" THEN <<"memory", "vector">> ELSE Memory]
MCTable == [b \in MCPackages |-> IF b = "old" THEN "pip" ELSE NoTable]
MCNeeds == [b \in MCPackages |->
    CASE b = "old" -> {[op |-> "~=", target |-> <<1, 4, 1>>]}
      [] b = "new" -> {[op |-> ">=", target |-> <<1, 4>>], [op |-> "<", target |-> <<2>>]}
      [] OTHER -> {}]
MCImplements == [b \in MCPackages |-> {"memory"}]
MCRoots == <<"user", "builtin">>
Old == <<"user", Memory, <<0, 9>>>>
Builtin == <<"builtin", Memory, <<0, 9, 1>>>>
Vector == <<"user", <<"memory", "vector">>, <<0, 9, 1>>>>
MCSlots == {Old, <<"user", Memory, <<0, 10>>>>, Builtin, Vector}
MCShipped == [s \in {Builtin, Vector} |-> IF s = Builtin THEN "builtin" ELSE "vector"]
MCSources == {"old", "new", "elsewhere"}
MCPackage == [s \in MCSources |-> IF s = "new" THEN "new" ELSE "old"]
MCLayout == [s \in MCSources |-> CASE s = "old" -> "root" [] s = "new" -> "nested" [] OTHER -> "many"]
MCTables == {"pip", "npm"}
MCRuntime == [t \in MCTables |-> IF t = "pip" THEN "python" ELSE "node"]
MCReleases == {<<1, 4, 1>>, <<1, 4, 2>>}
MCEdited == {Old}
MCBindings == {[contract |-> "memory", name |-> Memory, pin |-> NoPin],
               [contract |-> "memory", name |-> Memory, pin |-> <<0, 9>>]}
=============================================================================
