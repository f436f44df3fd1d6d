----------------------------- MODULE MCEndpoint -----------------------------
(* Two requests on one connection, of either kind.                         *)
EXTENDS Endpoint

OneStream == {2}

Timed        == {Calls}          \* every call has a timeout
TimedOrNever == {Calls, {}}      \* every call has one, or none has
=============================================================================
