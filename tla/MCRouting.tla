----------------------------- MODULE MCRouting -----------------------------
EXTENDS Routing
C(name) == <<"contract", name>>
MCOrder == <<"inference", "tools", "orchestrator">>
MCBricks == {"inference", "tools", "orchestrator"}
Spawn == <<"process", "spawn">>
MCCaps == {C("inference"), C("tools"), C("orchestrator"), Spawn}
MCContract == [b \in MCBricks |-> C(b)]
MCRequires == [b \in MCBricks |-> CASE b = "orchestrator" -> {C("inference"), C("tools")}
                                    [] b = "tools" -> {C("inference")} [] OTHER -> {Spawn}]
MCGrant == [b \in MCBricks |-> IF b = "inference" THEN {} ELSE {<<"contract", "*">>, Spawn}]
MCDeny == [b \in MCBricks |-> IF b = "tools" THEN {Spawn} ELSE {C("orchestrator")}]
MCModes == {{}, {C("tools")}}
MCRebindable == {"tools"}
MCHostCalls == {"orchestrator"}
MCCalls == 1 .. 2
=============================================================================
