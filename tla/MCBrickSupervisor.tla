-------------------------- MODULE MCBrickSupervisor -------------------------
(* One supervisor whose brick may be started four times in all: enough for *)
(* a full budget, one restart leaving the window, and a refused one after. *)
EXTENDS BrickSupervisor

CONSTANT s1
MCSup == {s1}
=============================================================================
