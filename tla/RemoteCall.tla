----------------------------- MODULE RemoteCall -----------------------------
(***************************************************************************)
(* What a call over the wire promises its caller, whatever the transport,  *)
(* the peer and the clock do: it is opened once, it is served at most once *)
(* and only after it was opened, it ends at most once, and it ends well    *)
(* only if the peer served it.                                             *)
(***************************************************************************)
CONSTANT Calls

VARIABLES phase, served

TypeOK ==
  /\ phase \in [Calls -> {"idle", "open", "ok", "failed"}]
  /\ served \in [Calls -> BOOLEAN]

Init ==
  /\ phase = [r \in Calls |-> "idle"]
  /\ served = [r \in Calls |-> FALSE]

Open(r) ==
  /\ phase[r] = "idle"
  /\ \E end \in {"open", "failed"} : phase' = [phase EXCEPT ![r] = end]
  /\ UNCHANGED served

\* A call that failed for its caller may still be served.
Serve(r) ==
  /\ phase[r] # "idle"
  /\ ~served[r]
  /\ served' = [served EXCEPT ![r] = TRUE]
  /\ UNCHANGED phase

Succeed(r) ==
  /\ phase[r] = "open"
  /\ served[r]
  /\ phase' = [phase EXCEPT ![r] = "ok"]
  /\ UNCHANGED served

\* A lost connection fails any number of calls at once.
Fail(F) ==
  /\ \A r \in F : phase[r] = "open"
  /\ phase' = [r \in Calls |-> IF r \in F THEN "failed" ELSE phase[r]]
  /\ UNCHANGED served

Next ==
  \/ \E r \in Calls : Open(r) \/ Serve(r) \/ Succeed(r)
  \/ \E F \in SUBSET Calls : Fail(F)

Spec == Init /\ [][Next]_<<phase, served>>
=============================================================================
