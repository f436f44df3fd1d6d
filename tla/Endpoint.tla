------------------------------ MODULE Endpoint ------------------------------
(***************************************************************************)
(* The JSON-RPC endpoint (src/veridian/plugin_runtime/ipc.py, classes      *)
(* Endpoint and StreamCall, over transport.py's StdioTransport).  One side *)
(* originates calls and streaming calls, its peer serves them with the     *)
(* same class; two pipes join them.                                        *)
(*                                                                         *)
(* A step is the code between two awaits of one task.  A call is several   *)
(* tasks: the caller's, the stream's _settle, the read loop, the scheduled *)
(* $/cancel notifications, and the peer's handler.                         *)
(***************************************************************************)
EXTENDS Naturals, Sequences

CONSTANTS
  MaxCalls,   \* bound: requests the originator may send
  Streams,    \* those made with call_stream
  Timeouts,   \* the sets of calls that may be given a timeout
  MaxDeltas,  \* bound: deltas the peer sends for one of them
  Threshold,  \* Endpoint._malformed_threshold
  MaxBad      \* bound: malformed lines the peer may print

ASSUME EndpointAssumption ==
  /\ MaxCalls \in Nat /\ Streams \subseteq 1..MaxCalls
  /\ \A T \in Timeouts : T \subseteq 1..MaxCalls
  /\ MaxDeltas \in Nat /\ MaxBad \in Nat
  /\ Threshold \in Nat \ {0}

Calls == 1..MaxCalls      \* request ids, as _alloc_id hands them out

VARIABLES
  timed,     \* calls with a timeout: the timeout of the others is None
  apc,       \* where the caller's task (then, for a stream, _settle) is
  fut,       \* the future in _pending
  outcome,   \* what the caller gets: of the call, or of StreamCall.result()
  pending,   \* keys of Endpoint._pending
  streams,   \* keys of Endpoint._streams
  got,       \* deltas a stream's consumer gets before the end of iteration
  cancels,   \* $/cancel sends scheduled by _fire_cancel
  scancel,   \* where StreamCall.cancel is
  reading,   \* the read loop runs
  bad,       \* its consecutive_bad
  tclosed,   \* StdioTransport._closed
  toPeer,    \* the peer's stdin
  toUs,      \* the peer's stdout
  srv,       \* the peer's handler task of a request
  sent,      \* deltas it has emitted
  peer,      \* "alive" or "exited"
  badSent    \* malformed lines printed (bound)

callVars == <<timed, apc, fut, outcome, pending, streams, got>>
ourVars  == <<callVars, cancels, scancel, reading, bad, tclosed>>
peerVars == <<srv, sent, peer, badSent>>
vars     == <<ourVars, toPeer, toUs, peerVars>>

Init ==
  /\ timed \in Timeouts
  /\ apc = [r \in Calls |-> "idle"]
  /\ fut = [r \in Calls |-> "none"]
  /\ outcome = [r \in Calls |-> "none"]
  /\ pending = {} /\ streams = {}
  /\ got = [r \in Calls |-> 0]
  /\ cancels = {}
  /\ scancel = [r \in Calls |-> "no"]
  /\ reading = TRUE /\ bad = 0 /\ tclosed = FALSE
  /\ toPeer = <<>> /\ toUs = <<>>
  /\ srv = [r \in Calls |-> "none"]
  /\ sent = [r \in Calls |-> 0]
  /\ peer = "alive" /\ badSent = 0

-----------------------------------------------------------------------------
(* call() and call_stream() up to the end of _write *)

\* The caller's task ends; the first outcome of a stream is the one that counts.
Ends(r, how) ==
  /\ apc' = [apc EXCEPT ![r] = "over"]
  /\ outcome' = [outcome EXCEPT ![r] = IF @ = "none" THEN how ELSE @]

\* The future is registered, then send() looks at the transport.  A write that
\* fails is outside the try of call(): the entry stays in _pending.
Call(r) ==
  /\ apc[r] = "idle"
  /\ \A q \in 1..(r - 1) : apc[q] # "idle"
  /\ pending' = pending \cup {r}
  /\ streams' = IF r \in Streams THEN streams \cup {r} ELSE streams
  /\ fut' = [fut EXCEPT ![r] = "pending"]
  /\ IF tclosed THEN Ends(r, "unavailable")
               ELSE apc' = [apc EXCEPT ![r] = "writing"] /\ UNCHANGED outcome
  /\ UNCHANGED <<timed, got, cancels, scancel, reading, bad, tclosed, toPeer, toUs, peerVars>>

\* _write_lock is held across drain().  A $/cancel is small enough for the pipe:
\* its own drain() is not what others wait for.
LockFree == \A q \in Calls : apc[q] # "draining"

\* A peer that is gone may or may not have broken the pipe yet.
PipeIntact == peer = "alive" /\ ~tclosed
Put(kind, r) ==
  toPeer' = IF PipeIntact THEN Append(toPeer, [kind |-> kind, id |-> r]) ELSE toPeer

Write(r) ==
  /\ apc[r] = "writing" /\ LockFree
  /\ apc' = [apc EXCEPT ![r] = "draining"]
  /\ Put("request", r)
  /\ UNCHANGED <<timed, fut, outcome, pending, streams, got, cancels, scancel, reading,
                 bad, tclosed, toUs, peerVars>>

\* The pipe took the request, or nobody will ever read it.
Drained(r) ==
  /\ apc[r] = "draining"
  /\ apc' = [apc EXCEPT ![r] = "waiting"]
  /\ UNCHANGED <<timed, fut, outcome, pending, streams, got, cancels, scancel, reading,
                 bad, tclosed, toPeer, toUs, peerVars>>

WriteFails(r) ==
  /\ apc[r] \in {"writing", "draining"}
  /\ apc[r] = "writing" => LockFree
  /\ ~PipeIntact
  /\ Ends(r, "unavailable")
  /\ UNCHANGED <<timed, fut, pending, streams, got, cancels, scancel, reading,
                 bad, tclosed, toPeer, toUs, peerVars>>

\* The caller is cancelled inside _write: no handler of call() runs.
CancelledWriting(r) ==
  /\ apc[r] \in {"writing", "draining"}
  /\ Ends(r, "cancelled")
  /\ UNCHANGED <<timed, fut, pending, streams, got, cancels, scancel, reading,
                 bad, tclosed, toPeer, toUs, peerVars>>

-----------------------------------------------------------------------------
(* call() from its try on, and _settle of a stream *)

Return(r) ==
  /\ apc[r] = "waiting"
  /\ fut[r] # "pending"
  /\ Ends(r, fut[r])
  /\ pending' = pending \ {r}
  /\ streams' = streams \ {r}
  /\ UNCHANGED <<timed, fut, got, cancels, scancel, reading, bad, tclosed, toPeer, toUs, peerVars>>

\* Plausible bug: the timer is armed only for a future already cancelled.
Timeout_Unarmed(r) ==
  /\ apc[r] = "waiting" /\ fut[r] = "cancelled"
  /\ Ends(r, "timeout")
  /\ pending' = pending \ {r}
  /\ streams' = streams \ {r}
  /\ cancels' = IF r \in Streams THEN cancels ELSE cancels \cup {r}
  /\ UNCHANGED <<timed, fut, got, scancel, reading, bad, tclosed, toPeer, toUs, peerVars>>

\* The timer may win even over an answer that has already resolved the future.
\* call() tells the peer; _settle does not.
Timeout(r) ==
  /\ apc[r] = "waiting" /\ r \in timed
  /\ Ends(r, "timeout")
  /\ fut' = [fut EXCEPT ![r] = IF @ = "pending" THEN "cancelled" ELSE @]
  /\ pending' = pending \ {r}
  /\ streams' = streams \ {r}
  /\ cancels' = IF r \in Streams THEN cancels ELSE cancels \cup {r}
  /\ UNCHANGED <<timed, got, scancel, reading, bad, tclosed, toPeer, toUs, peerVars>>

Cancelled(r) ==
  /\ apc[r] = "waiting" /\ r \notin Streams
  /\ Ends(r, "cancelled")
  /\ fut' = [fut EXCEPT ![r] = IF @ = "pending" THEN "cancelled" ELSE @]
  /\ pending' = pending \ {r}
  /\ cancels' = cancels \cup {r}
  /\ UNCHANGED <<timed, streams, got, scancel, reading, bad, tclosed, toPeer, toUs, peerVars>>

\* StreamCall.cancel: write $/cancel, then give the stream up.
StreamCancel(r) ==
  /\ apc[r] = "waiting" /\ r \in Streams
  /\ scancel[r] = "no" /\ LockFree
  /\ scancel' = [scancel EXCEPT ![r] = "sending"]
  /\ Put("cancel", r)
  /\ UNCHANGED <<callVars, cancels, reading, bad, tclosed, toUs, peerVars>>

StreamCancelEnds(r) ==
  /\ scancel[r] = "sending"
  /\ scancel' = [scancel EXCEPT ![r] = "done"]
  /\ fut' = [fut EXCEPT ![r] = IF @ = "pending" THEN "cancelled" ELSE @]
  /\ outcome' = [outcome EXCEPT ![r] = IF @ = "none" THEN "cancelled" ELSE @]
  /\ UNCHANGED <<timed, apc, pending, streams, got, cancels, reading, bad, tclosed,
                 toPeer, toUs, peerVars>>

\* A task of _fire_cancel runs.
SendCancel(r) ==
  /\ r \in cancels /\ LockFree
  /\ cancels' = cancels \ {r}
  /\ Put("cancel", r)
  /\ UNCHANGED <<callVars, scancel, reading, bad, tclosed, toUs, peerVars>>

-----------------------------------------------------------------------------
(* The read loop *)

Line(kinds) == reading /\ toUs # <<>> /\ Head(toUs).kind \in kinds
TakeLine == toUs' = Tail(toUs)

\* Plausible bug: an answer resolves the oldest pending future.
ReadAnswer_Oldest ==
  /\ Line({"ok", "error"})
  /\ fut' = [r \in Calls |->
               IF r \in pending /\ fut[r] = "pending" /\ \A q \in pending : r <= q
                 THEN Head(toUs).kind ELSE fut[r]]
  /\ bad' = 0
  /\ TakeLine
  /\ UNCHANGED <<timed, apc, outcome, pending, streams, got, cancels, scancel, reading,
                 tclosed, toPeer, peerVars>>

\* _resolve: an unknown id, or a future already done, is ignored.
ReadAnswer ==
  /\ Line({"ok", "error"})
  /\ LET m == Head(toUs)
     IN  fut' = IF m.id \in pending /\ fut[m.id] = "pending"
                  THEN [fut EXCEPT ![m.id] = m.kind] ELSE fut
  /\ bad' = 0
  /\ TakeLine
  /\ UNCHANGED <<timed, apc, outcome, pending, streams, got, cancels, scancel, reading,
                 tclosed, toPeer, peerVars>>

\* A delta for an id not in _streams goes to the notification handler, which
\* refuses it in silence.
ReadDelta ==
  /\ Line({"delta"})
  /\ LET r == Head(toUs).id
     IN  got' = IF r \in streams /\ outcome[r] = "none"
                  THEN [got EXCEPT ![r] = @ + 1] ELSE got
  /\ bad' = 0
  /\ TakeLine
  /\ UNCHANGED <<timed, apc, fut, outcome, pending, streams, cancels, scancel, reading,
                 tclosed, toPeer, peerVars>>

\* Plausible bug: the tables are cleared and the futures left alone.
FailAll_ClearsOnly ==
  /\ outcome' = [r \in Calls |-> IF r \in streams /\ outcome[r] = "none"
                                   THEN "unavailable" ELSE outcome[r]]
  /\ pending' = {} /\ streams' = {}
  /\ UNCHANGED fut

\* _fail_all
FailAll ==
  /\ fut' = [r \in Calls |-> IF r \in pending /\ fut[r] = "pending"
                               THEN "unavailable" ELSE fut[r]]
  /\ outcome' = [r \in Calls |-> IF r \in streams /\ outcome[r] = "none"
                                   THEN "unavailable" ELSE outcome[r]]
  /\ pending' = {} /\ streams' = {}

ReadBad ==
  /\ Line({"bad"})
  /\ bad' = bad + 1
  /\ IF bad + 1 >= Threshold
       THEN FailAll /\ reading' = FALSE
       ELSE UNCHANGED <<fut, outcome, pending, streams, reading>>
  /\ TakeLine
  /\ UNCHANGED <<timed, apc, got, cancels, scancel, tclosed, toPeer, peerVars>>

ReadEof ==
  /\ Line({"eof"})
  /\ tclosed' = TRUE
  /\ FailAll /\ reading' = FALSE
  /\ TakeLine
  /\ UNCHANGED <<timed, apc, got, cancels, scancel, bad, toPeer, peerVars>>

\* aclose(): also cancels the scheduled $/cancel sends.
Aclose ==
  /\ reading \/ ~tclosed
  /\ reading' = FALSE /\ tclosed' = TRUE
  /\ cancels' = {}
  /\ FailAll
  /\ UNCHANGED <<timed, apc, got, scancel, bad, toPeer, toUs, peerVars>>

-----------------------------------------------------------------------------
(* The peer: the same class serving *)

Say(kind, r) == toUs' = Append(toUs, [kind |-> kind, id |-> r])

PeerReadsRequest ==
  /\ peer = "alive" /\ toPeer # <<>> /\ Head(toPeer).kind = "request"
  /\ srv' = [srv EXCEPT ![Head(toPeer).id] = "created"]
  /\ toPeer' = Tail(toPeer)
  /\ UNCHANGED <<ourVars, toUs, sent, peer, badSent>>

\* Plausible bug: the handler is listed only once it runs.
PeerReadsCancel_TooLate ==
  /\ peer = "alive" /\ toPeer # <<>> /\ Head(toPeer).kind = "cancel"
  /\ LET r == Head(toPeer).id
     IN  \/ srv[r] = "running" /\ srv' = [srv EXCEPT ![r] = "cancelled"] /\ Say("error", r)
         \/ srv[r] # "running" /\ UNCHANGED <<srv, toUs>>
  /\ toPeer' = Tail(toPeer)
  /\ UNCHANGED <<ourVars, sent, peer, badSent>>

\* A handler task that has not run its first step ends in silence; one that has
\* answers request_cancelled; anything else is past cancelling.
PeerReadsCancel ==
  /\ peer = "alive" /\ toPeer # <<>> /\ Head(toPeer).kind = "cancel"
  /\ LET r == Head(toPeer).id
     IN  \/ srv[r] = "created" /\ srv' = [srv EXCEPT ![r] = "dropped"] /\ UNCHANGED toUs
         \/ srv[r] = "running" /\ srv' = [srv EXCEPT ![r] = "cancelled"] /\ Say("error", r)
         \/ srv[r] \notin {"created", "running"} /\ UNCHANGED <<srv, toUs>>
  /\ toPeer' = Tail(toPeer)
  /\ UNCHANGED <<ourVars, sent, peer, badSent>>

PeerStarts(r) ==
  /\ peer = "alive" /\ srv[r] = "created"
  /\ srv' = [srv EXCEPT ![r] = "running"]
  /\ UNCHANGED <<ourVars, toPeer, toUs, sent, peer, badSent>>

\* Plausible bug: deltas are sent from a task of their own.
PeerEmits_Late(r) ==
  /\ peer = "alive" /\ srv[r] \in {"running", "answered"}
  /\ r \in Streams /\ sent[r] < MaxDeltas
  /\ sent' = [sent EXCEPT ![r] = @ + 1]
  /\ Say("delta", r)
  /\ UNCHANGED <<ourVars, toPeer, srv, peer, badSent>>

PeerEmits(r) ==
  /\ peer = "alive" /\ srv[r] = "running"
  /\ r \in Streams /\ sent[r] < MaxDeltas
  /\ sent' = [sent EXCEPT ![r] = @ + 1]
  /\ Say("delta", r)
  /\ UNCHANGED <<ourVars, toPeer, srv, peer, badSent>>

PeerAnswers(r) ==
  /\ peer = "alive" /\ srv[r] = "running"
  /\ \/ srv' = [srv EXCEPT ![r] = "answered"] /\ Say("ok", r)
     \/ srv' = [srv EXCEPT ![r] = "failed"] /\ Say("error", r)
  /\ UNCHANGED <<ourVars, toPeer, sent, peer, badSent>>

PeerPrints ==
  /\ peer = "alive" /\ badSent < MaxBad
  /\ badSent' = badSent + 1
  /\ toUs' = Append(toUs, [kind |-> "bad"])
  /\ UNCHANGED <<ourVars, toPeer, srv, sent, peer>>

\* What was printed stays readable; what was not read is lost.
PeerExits ==
  /\ peer = "alive"
  /\ peer' = "exited"
  /\ toUs' = Append(toUs, [kind |-> "eof"])
  /\ toPeer' = <<>>
  /\ UNCHANGED <<ourVars, srv, sent, badSent>>

-----------------------------------------------------------------------------
CallerNext(r) ==
  \/ Call(r) \/ Write(r) \/ Drained(r) \/ WriteFails(r) \/ CancelledWriting(r)
  \/ Return(r) \/ Timeout(r) \/ Cancelled(r)
  \/ StreamCancel(r) \/ StreamCancelEnds(r) \/ SendCancel(r)
ReaderNext == ReadAnswer \/ ReadDelta \/ ReadBad \/ ReadEof \/ Aclose
PeerNext ==
  \/ PeerReadsRequest \/ PeerReadsCancel
  \/ \E r \in Calls : PeerStarts(r) \/ PeerEmits(r) \/ PeerAnswers(r)
  \/ PeerPrints \/ PeerExits

\* Every call is over and both ends are closed.
AllOver ==
  /\ \A r \in Calls : apc[r] = "over"
  /\ peer = "exited" /\ tclosed
  /\ UNCHANGED vars

Next ==
  \/ \E r \in Calls : CallerNext(r)
  \/ ReaderNext \/ PeerNext \/ AllOver

Spec == Init /\ [][Next]_vars

\* Tasks that can run do run and timers fire.  drain() is known to end once the
\* peer has taken the request (or died), and the peer's read loop, which no
\* handler blocks, takes it.
Accepted(r) == \A i \in 1..Len(toPeer) : toPeer[i] # [kind |-> "request", id |-> r]
OurFairness ==
  /\ \A r \in Calls :
       /\ WF_vars(Write(r) \/ WriteFails(r)) /\ WF_vars(Drained(r) /\ Accepted(r))
       /\ WF_vars(Return(r)) /\ WF_vars(SendCancel(r)) /\ WF_vars(StreamCancelEnds(r))
  /\ WF_vars(ReadAnswer \/ ReadDelta \/ ReadBad \/ ReadEof)
PeerFairness ==
  /\ WF_vars(PeerReadsRequest \/ PeerReadsCancel)
  /\ \A r \in Calls : WF_vars(PeerStarts(r))
Timers == \A r \in Calls : WF_vars(Timeout(r))

FairSpec == Spec /\ OurFairness /\ PeerFairness /\ Timers

-----------------------------------------------------------------------------
\* An answer reaches the call it was given to: a late, failed or repeated one
\* never ends another call, whatever timed out or was cancelled meanwhile.
AnswersMatch ==
  \A r \in Calls :
    /\ outcome[r] = "ok" => srv[r] = "answered"
    /\ outcome[r] = "error" => srv[r] \in {"failed", "cancelled"}

\* No waiter is forgotten: as long as a caller waits, its future is either done
\* or still where the read loop and _fail_all will find it.
WaiterReachable ==
  \A r \in Calls : apc[r] = "waiting" => (r \in pending \/ fut[r] # "pending")

\* A stream that ends well has given its consumer every delta the peer emitted.
StreamComplete ==
  \A r \in Streams : outcome[r] = "ok" => got[r] = sent[r]

\* Every call made with a timeout ends, with an outcome.
CallEnds == \A r \in Calls : (apc[r] # "idle" /\ r \in timed) ~> (apc[r] = "over")

\* The death of the peer ends every call that waits, with no timer to help.
DeathEndsCalls ==
  \A r \in Calls :
    (apc[r] = "waiting" /\ peer = "exited" /\ reading) ~> (apc[r] = "over")

GivenUp(r) == srv[r] \in {"answered", "failed", "cancelled", "dropped"}

\* Work for a call that timed out or was cancelled while waiting is over at the
\* peer or given up by it, once $/cancel is scheduled and unless the connection
\* goes first: $/cancel never overtakes its request, nor is ignored.
AbandonedIsCancelled ==
  \A r \in Calls :
    (r \in cancels) ~> (GivenUp(r) \/ peer = "exited" \/ tclosed)

\* The endpoint keeps the promises of RemoteCall.
Remote == INSTANCE RemoteCall WITH
  phase  <- [r \in Calls |->
               IF apc[r] = "idle" THEN "idle"
               ELSE IF outcome[r] = "none" THEN "open"
               ELSE IF outcome[r] = "ok" THEN "ok" ELSE "failed"],
  served <- [r \in Calls |-> srv[r] = "answered"]
ImplementsRemoteCall == Remote!Spec
=============================================================================
