------------------------------- MODULE MCKernel -----------------------------
(* Stacks of one and of two bindings; "orchestrator" is started last.  Two *)
(* supervisor objects suffice for the start of a stack of two, or for one  *)
(* rebind of a stack of one; a third lets a stack of two be rebound.       *)
EXTENDS Kernel

MCStacks == {<<"inference">>, <<"inference", "orchestrator">>}
MCSups   == {1, 2, 3}
=============================================================================
