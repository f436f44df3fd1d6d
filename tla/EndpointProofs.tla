--------------------------- MODULE EndpointProofs ---------------------------
(***************************************************************************)
(* What an endpoint keeps for any number of calls, streams and deltas, any *)
(* timeouts and any malformed threshold: answers reach the call they were  *)
(* given to, no waiter is lost, a stream that ends well is whole, and the  *)
(* whole implements RemoteCall.                                            *)
(***************************************************************************)
EXTENDS Endpoint, FiniteSetTheorems, TLAPS

(* Pipes ******************************************************************)

\* Where a pipe holds messages of a kind about a call.
Places(q, kind, r) == {i \in 1 .. Len(q) : q[i].kind = kind /\ q[i].id = r}
Has(q, kind, r) == Places(q, kind, r) # {}
Count(q, kind, r) == Cardinality(Places(q, kind, r))
AtMostOne(q, kind, r) == \A i, j \in Places(q, kind, r) : i = j
\* No message of the second kind comes after one of the first.
NoneAfter(q, kind1, kind2, r) == \A i \in Places(q, kind1, r), j \in Places(q, kind2, r) : j < i

LEMMA PlacesAppend ==
    ASSUME NEW S, NEW q \in Seq(S), NEW m \in S, NEW kind, NEW r
    PROVE  /\ m.kind = kind /\ m.id = r => Places(Append(q, m), kind, r) = Places(q, kind, r) \cup {Len(q) + 1}
           /\ ~ (m.kind = kind /\ m.id = r) => Places(Append(q, m), kind, r) = Places(q, kind, r)
<1>1. Len(Append(q, m)) = Len(q) + 1 /\ Append(q, m)[Len(q) + 1] = m
  OBVIOUS
<1>2. \A i \in 1 .. Len(q) : Append(q, m)[i] = q[i]
  OBVIOUS
<1>3. 1 .. Len(q) + 1 = (1 .. Len(q)) \cup {Len(q) + 1}
  OBVIOUS
<1> QED BY <1>1, <1>2, <1>3 DEF Places

LEMMA PlacesTail ==
    ASSUME NEW S, NEW q \in Seq(S), q # <<>>, NEW kind, NEW r
    PROVE  \A i \in Nat : i \in Places(Tail(q), kind, r) <=> i > 0 /\ i + 1 \in Places(q, kind, r)
  BY DEF Places

LEMMA HeadPlace ==
    ASSUME NEW S, NEW q \in Seq(S), q # <<>>, NEW kind, NEW r
    PROVE  1 \in Places(q, kind, r) <=> Head(q).kind = kind /\ Head(q).id = r
  BY DEF Places

LEMMA PlacesFinite ==
    ASSUME NEW S, NEW q \in Seq(S), NEW kind, NEW r
    PROVE  IsFiniteSet(Places(q, kind, r)) /\ Count(q, kind, r) \in Nat /\ Places(q, kind, r) \subseteq Nat
<1>1. IsFiniteSet(1 .. Len(q))
  BY FS_Interval
<1>2. Places(q, kind, r) \subseteq 1 .. Len(q)
  BY DEF Places
<1> QED BY <1>1, <1>2, FS_Subset, FS_CardinalityType DEF Count

LEMMA HasAppend ==
    ASSUME NEW S, NEW q \in Seq(S), NEW m \in S, NEW kind, NEW r
    PROVE  Has(Append(q, m), kind, r) <=> Has(q, kind, r) \/ (m.kind = kind /\ m.id = r)
<1>1. CASE m.kind = kind /\ m.id = r
  <2>1. Places(Append(q, m), kind, r) = Places(q, kind, r) \cup {Len(q) + 1}
    BY <1>1, PlacesAppend
  <2> QED BY <1>1, <2>1 DEF Has
<1>2. CASE ~ (m.kind = kind /\ m.id = r)
  <2>1. Places(Append(q, m), kind, r) = Places(q, kind, r)
    BY <1>2, PlacesAppend
  <2> QED BY <1>2, <2>1 DEF Has
<1> QED BY <1>1, <1>2

LEMMA HasTail ==
    ASSUME NEW S, NEW q \in Seq(S), q # <<>>, NEW kind, NEW r, Has(Tail(q), kind, r)
    PROVE  Has(q, kind, r)
  BY PlacesTail, PlacesFinite DEF Has, Places

LEMMA HasHead ==
    ASSUME NEW S, NEW q \in Seq(S), q # <<>>
    PROVE  Has(q, Head(q).kind, Head(q).id)
  BY HeadPlace DEF Has

LEMMA CountAppend ==
    ASSUME NEW S, NEW q \in Seq(S), NEW m \in S, NEW kind, NEW r
    PROVE  Count(Append(q, m), kind, r) =
               Count(q, kind, r) + (IF m.kind = kind /\ m.id = r THEN 1 ELSE 0)
<1>1. Len(q) + 1 \notin Places(q, kind, r)
  BY DEF Places
<1>2. Cardinality(Places(q, kind, r) \cup {Len(q) + 1}) = Cardinality(Places(q, kind, r)) + 1
  BY <1>1, PlacesFinite, FS_AddElement
<1>3. Count(q, kind, r) \in Nat
  BY PlacesFinite
<1>4. CASE m.kind = kind /\ m.id = r
  <2>1. Places(Append(q, m), kind, r) = Places(q, kind, r) \cup {Len(q) + 1}
    BY <1>4, PlacesAppend
  <2> QED BY <1>2, <1>4, <2>1 DEF Count
<1>5. CASE ~ (m.kind = kind /\ m.id = r)
  <2>1. Places(Append(q, m), kind, r) = Places(q, kind, r)
    BY <1>5, PlacesAppend
  <2> QED BY <1>3, <1>5, <2>1 DEF Count
<1> QED BY <1>4, <1>5

LEMMA CountTail ==
    ASSUME NEW S, NEW q \in Seq(S), q # <<>>, NEW kind, NEW r
    PROVE  Count(q, kind, r) =
               Count(Tail(q), kind, r) + (IF Head(q).kind = kind /\ Head(q).id = r THEN 1 ELSE 0)
<1> DEFINE T == Places(Tail(q), kind, r)
           Q == Places(q, kind, r)
           f == [i \in T |-> i + 1]
<1>1. Tail(q) \in Seq(S)
  OBVIOUS
<1>2. IsFiniteSet(T) /\ IsFiniteSet(Q) /\ T \subseteq Nat /\ Q \subseteq Nat \ {0} /\ Cardinality(T) \in Nat
  <2>1. IsFiniteSet(T) /\ T \subseteq Nat /\ Cardinality(T) \in Nat
    BY <1>1, PlacesFinite DEF Count
  <2>2. IsFiniteSet(Q) /\ Q \subseteq Nat
    BY PlacesFinite
  <2>3. 0 \notin Q
    BY DEF Places
  <2> QED BY <2>1, <2>2, <2>3
<1>3. \A i \in Nat : i \in T <=> i > 0 /\ i + 1 \in Q
  BY PlacesTail
<1> HIDE DEF T, Q
<1>4. f \in Bijection(T, Q \ {1})
  <2>1. f \in [T -> Q \ {1}]
    BY <1>2, <1>3
  <2>2. \A a, b \in T : f[a] = f[b] => a = b
    BY <1>2
  <2>3. \A t \in Q \ {1} : \E s \in T : f[s] = t
    <3> TAKE t \in Q \ {1}
    <3>1. t - 1 \in Nat /\ t - 1 > 0 /\ (t - 1) + 1 = t
      BY <1>2
    <3>2. t - 1 \in T
      BY <1>3, <3>1
    <3> QED BY <3>1, <3>2
  <2> QED BY <2>1, <2>2, <2>3 DEF Bijection, Injection, Surjection, IsInjective
<1>5. Cardinality(Q \ {1}) = Cardinality(T)
  BY <1>2, <1>4, FS_Bijection DEF ExistsBijection
<1>6. 1 \in Q <=> Head(q).kind = kind /\ Head(q).id = r
  BY HeadPlace DEF Q
<1>7. CASE 1 \in Q
  <2>1. Cardinality(Q \ {1}) = Cardinality(Q) - 1 /\ Cardinality(Q) \in Nat
    BY <1>2, <1>7, FS_RemoveElement, FS_CardinalityType
  <2> QED BY <1>2, <1>5, <1>6, <1>7, <2>1 DEF Count, Q, T
<1>8. CASE 1 \notin Q
  <2>1. Cardinality(Q) = Cardinality(T) + 0
    <3>1. Q \ {1} = Q
      BY <1>8
    <3>2. Cardinality(Q) = Cardinality(T)
      BY <1>5, <3>1, Zenon
    <3> QED BY <1>2, <3>2
  <2> QED BY <1>6, <1>8, <2>1 DEF Count, Q, T
<1> QED BY <1>7, <1>8

LEMMA CountZero ==
    ASSUME NEW S, NEW q \in Seq(S), NEW kind, NEW r
    PROVE  Count(q, kind, r) = 0 <=> ~ Has(q, kind, r)
  BY PlacesFinite, FS_EmptySet DEF Count, Has

LEMMA AtMostOneAppend ==
    ASSUME NEW S, NEW q \in Seq(S), NEW m \in S, NEW kind, NEW r,
           AtMostOne(q, kind, r),
           m.kind = kind /\ m.id = r => ~ Has(q, kind, r)
    PROVE  AtMostOne(Append(q, m), kind, r)
<1>1. CASE m.kind = kind /\ m.id = r
  <2>1. Places(Append(q, m), kind, r) = Places(q, kind, r) \cup {Len(q) + 1}
    BY <1>1, PlacesAppend
  <2>2. Places(q, kind, r) = {}
    BY <1>1 DEF Has
  <2> QED BY <2>1, <2>2 DEF AtMostOne
<1>2. CASE ~ (m.kind = kind /\ m.id = r)
  <2>1. Places(Append(q, m), kind, r) = Places(q, kind, r)
    BY <1>2, PlacesAppend
  <2> QED BY <2>1 DEF AtMostOne
<1> QED BY <1>1, <1>2

LEMMA AtMostOneTail ==
    ASSUME NEW S, NEW q \in Seq(S), q # <<>>, NEW kind, NEW r, AtMostOne(q, kind, r)
    PROVE  /\ AtMostOne(Tail(q), kind, r)
           /\ Head(q).kind = kind /\ Head(q).id = r => ~ Has(Tail(q), kind, r)
<1>1. Tail(q) \in Seq(S)
  OBVIOUS
<1>2. Places(Tail(q), kind, r) \subseteq Nat
  BY <1>1, PlacesFinite
<1>3. \A i \in Places(Tail(q), kind, r) : i \in Nat /\ i > 0 /\ i + 1 \in Places(q, kind, r)
  BY <1>2, PlacesTail
<1>4. AtMostOne(Tail(q), kind, r)
  <2> SUFFICES ASSUME NEW i \in Places(Tail(q), kind, r), NEW j \in Places(Tail(q), kind, r)
               PROVE  i = j
    BY DEF AtMostOne
  <2>1. i + 1 = j + 1
    BY <1>3 DEF AtMostOne
  <2> QED BY <1>2, <2>1
<1>5. ASSUME Head(q).kind = kind, Head(q).id = r, NEW i \in Places(Tail(q), kind, r)
      PROVE  FALSE
  <2>1. 1 \in Places(q, kind, r)
    BY <1>5, HeadPlace
  <2>2. i + 1 = 1
    BY <1>3, <2>1 DEF AtMostOne
  <2> QED BY <1>3, <2>2
<1> QED BY <1>4, <1>5 DEF Has

LEMMA NoneAfterAppend ==
    ASSUME NEW S, NEW q \in Seq(S), NEW m \in S, NEW kind1, NEW kind2, NEW r, kind1 # kind2,
           NoneAfter(q, kind1, kind2, r),
           m.kind = kind2 /\ m.id = r => ~ Has(q, kind1, r)
    PROVE  NoneAfter(Append(q, m), kind1, kind2, r)
<1>1. \A k : Places(q, k, r) \subseteq 1 .. Len(q)
  BY DEF Places
<1>2. CASE m.kind = kind2 /\ m.id = r
  <2>1. ~ (m.kind = kind1 /\ m.id = r)
    BY <1>2
  <2>2. Places(Append(q, m), kind1, r) = Places(q, kind1, r)
    BY <2>1, PlacesAppend
  <2> QED BY <1>2, <2>2 DEF NoneAfter, Has
<1>3. CASE m.kind = kind1 /\ m.id = r
  <2>1. Places(Append(q, m), kind1, r) = Places(q, kind1, r) \cup {Len(q) + 1}
    BY <1>3, PlacesAppend
  <2>2. Places(Append(q, m), kind2, r) = Places(q, kind2, r)
    <3>1. ~ (m.kind = kind2 /\ m.id = r)
      BY <1>3
    <3> QED BY <3>1, PlacesAppend
  <2>3. \A j \in Places(q, kind2, r) : j < Len(q) + 1
    BY <1>1
  <2> QED BY <2>1, <2>2, <2>3 DEF NoneAfter
<1>4. CASE ~ (m.kind = kind1 /\ m.id = r) /\ ~ (m.kind = kind2 /\ m.id = r)
  <2>1. /\ Places(Append(q, m), kind2, r) = Places(q, kind2, r)
        /\ Places(Append(q, m), kind1, r) = Places(q, kind1, r)
    BY <1>4, PlacesAppend
  <2> QED BY <2>1 DEF NoneAfter
<1> QED BY <1>2, <1>3, <1>4

LEMMA NoneAfterTail ==
    ASSUME NEW S, NEW q \in Seq(S), q # <<>>, NEW kind1, NEW kind2, NEW r,
           NoneAfter(q, kind1, kind2, r)
    PROVE  /\ NoneAfter(Tail(q), kind1, kind2, r)
           /\ Head(q).kind = kind1 /\ Head(q).id = r => ~ Has(q, kind2, r)
<1>1. Tail(q) \in Seq(S)
  OBVIOUS
<1>2. \A k : \A i \in Places(Tail(q), k, r) : i \in Nat /\ i + 1 \in Places(q, k, r)
  BY <1>1, PlacesTail, PlacesFinite
<1>3. NoneAfter(Tail(q), kind1, kind2, r)
  <2> SUFFICES ASSUME NEW i \in Places(Tail(q), kind1, r), NEW j \in Places(Tail(q), kind2, r)
               PROVE  j < i
    BY DEF NoneAfter
  <2>1. j + 1 < i + 1
    BY <1>2 DEF NoneAfter
  <2> QED BY <1>2, <2>1
<1>4. ASSUME Head(q).kind = kind1, Head(q).id = r, NEW j \in Places(q, kind2, r)
      PROVE  FALSE
  <2>1. 1 \in Places(q, kind1, r)
    BY <1>4, HeadPlace
  <2>2. j < 1
    BY <2>1 DEF NoneAfter
  <2> QED BY <2>2 DEF Places
<1> QED BY <1>3, <1>4 DEF Has

(* Types ******************************************************************)

Lines    == [kind : {"ok", "error", "delta"}, id : Calls] \cup [kind : {"bad", "eof"}]
Requests == [kind : {"request", "cancel"}, id : Calls]

EndpointTypeOK ==
    /\ apc \in [Calls -> {"idle", "writing", "draining", "waiting", "over"}]
    /\ fut \in [Calls -> {"none", "pending", "ok", "error", "cancelled", "unavailable"}]
    /\ outcome \in [Calls -> {"none", "ok", "error", "timeout", "cancelled", "unavailable"}]
    /\ pending \in SUBSET Calls /\ streams \in SUBSET Streams /\ cancels \in SUBSET Calls
    /\ got \in [Calls -> Nat] /\ sent \in [Calls -> Nat]
    /\ scancel \in [Calls -> {"no", "sending", "done"}]
    /\ bad \in Nat /\ badSent \in Nat
    /\ toPeer \in Seq(Requests) /\ toUs \in Seq(Lines)
    /\ srv \in [Calls -> {"none", "created", "running", "answered", "failed", "cancelled", "dropped"}]

(* The invariant **********************************************************)

\* A request is sent once, after it was registered, and served from then on.
RequestsOnce ==
    \A r \in Calls :
        /\ apc[r] \in {"idle", "writing"} => srv[r] = "none" /\ ~ Has(toPeer, "request", r)
        /\ Has(toPeer, "request", r) => srv[r] = "none"
        /\ AtMostOne(toPeer, "request", r)

\* Where the future of a call and its stream are at each point of its caller.
WaitersKept ==
    \A r \in Calls :
        /\ apc[r] = "idle" => fut[r] = "none" /\ outcome[r] = "none" /\ scancel[r] = "no"
        /\ apc[r] = "idle" => r \notin pending /\ r \notin streams
        /\ apc[r] # "idle" => fut[r] # "none"
        /\ apc[r] \in {"writing", "draining", "waiting"} => r \in pending \/ fut[r] # "pending"
        /\ apc[r] # "idle" /\ r \in Streams /\ outcome[r] = "none" => r \in streams

\* What is in the pipe, in a future or in an outcome is what the peer said.
AnswersTrue ==
    \A r \in Calls :
        /\ Has(toUs, "ok", r) \/ fut[r] = "ok" \/ outcome[r] = "ok" => srv[r] = "answered"
        /\ Has(toUs, "error", r) \/ fut[r] = "error" \/ outcome[r] = "error" => srv[r] \in {"failed", "cancelled"}
        /\ Has(toUs, "delta", r) => srv[r] # "none"

\* A delta is with the consumer or in the pipe, and in front of the answer.
DeltasKept ==
    \A r \in Streams :
        /\ outcome[r] = "none" => got[r] + Count(toUs, "delta", r) = sent[r]
        /\ outcome[r] = "ok" => got[r] = sent[r]
        /\ NoneAfter(toUs, "ok", "delta", r)
        /\ fut[r] = "ok" => ~ Has(toUs, "delta", r)

EndpointInv == EndpointTypeOK /\ RequestsOnce /\ WaitersKept /\ AnswersTrue /\ DeltasKept

LEMMA InitEndpointInv == Init => EndpointInv
<1> SUFFICES ASSUME Init PROVE EndpointInv
  OBVIOUS
<1>1. EndpointTypeOK
  BY DEF Init, EndpointTypeOK
<1>2. \A kind, r : Places(toPeer, kind, r) = {} /\ Places(toUs, kind, r) = {}
  BY DEF Init, Places
<1>3. \A kind, r : Count(toUs, kind, r) = 0
  BY <1>2, FS_EmptySet DEF Count
<1>4. Streams \subseteq Calls
  BY EndpointAssumption DEF Calls
<1>5. RequestsOnce /\ WaitersKept /\ AnswersTrue
  BY <1>2 DEF Init, RequestsOnce, WaitersKept, AnswersTrue, Has, AtMostOne
<1>6. DeltasKept
  BY <1>2, <1>3, <1>4 DEF Init, DeltasKept, Has, NoneAfter
<1> QED BY <1>1, <1>5, <1>6 DEF EndpointInv

(* Every step keeps the types *********************************************)

LEMMA PutTypes ==
    ASSUME EndpointTypeOK, NEW kind \in {"request", "cancel"}, NEW r \in Calls, Put(kind, r)
    PROVE  toPeer' \in Seq(Requests)
<1>1. [kind |-> kind, id |-> r] \in Requests
  BY DEF Requests
<1> QED BY <1>1 DEF EndpointTypeOK, Put

LEMMA LineTypes ==
    /\ \A kind \in {"ok", "error", "delta"}, r \in Calls : [kind |-> kind, id |-> r] \in Lines
    /\ \A kind \in {"bad", "eof"} : [kind |-> kind] \in Lines
  BY DEF Lines

LEMMA SayTypes ==
    ASSUME EndpointTypeOK, NEW kind \in {"ok", "error", "delta"}, NEW r \in Calls, Say(kind, r)
    PROVE  toUs' \in Seq(Lines)
<1>1. [kind |-> kind, id |-> r] \in Lines
  BY LineTypes
<1> QED BY <1>1 DEF EndpointTypeOK, Say

LEMMA RequestHead ==
    ASSUME EndpointTypeOK, toPeer # <<>>
    PROVE  Head(toPeer) \in Requests /\ Head(toPeer).id \in Calls /\ Tail(toPeer) \in Seq(Requests)
<1>1. Head(toPeer) \in Requests /\ Tail(toPeer) \in Seq(Requests)
  BY DEF EndpointTypeOK
<1> QED BY <1>1 DEF Requests

LEMMA LineHead ==
    ASSUME EndpointTypeOK, toUs # <<>>
    PROVE  /\ Head(toUs) \in Lines /\ Tail(toUs) \in Seq(Lines)
           /\ Head(toUs).kind \in {"ok", "error", "delta"} => Head(toUs).id \in Calls
<1>1. Head(toUs) \in Lines /\ Tail(toUs) \in Seq(Lines)
  BY DEF EndpointTypeOK
<1> QED BY <1>1 DEF Lines

LEMMA TypeStep ==
    ASSUME EndpointTypeOK, [Next]_vars
    PROVE  EndpointTypeOK'
<1> USE DEF EndpointTypeOK
<1>0. Streams \subseteq Calls
  BY EndpointAssumption DEF Calls
<1>1. CASE UNCHANGED vars
  BY <1>1 DEF vars, ourVars, callVars, peerVars
<1>2. ASSUME NEW r \in Calls, Call(r) PROVE EndpointTypeOK'
  BY <1>0, <1>2 DEF Call, Ends, peerVars
<1>3. ASSUME NEW r \in Calls, Write(r) PROVE EndpointTypeOK'
  <2>1. toPeer' \in Seq(Requests)
    BY <1>3, PutTypes DEF Write
  <2> QED BY <1>3, <2>1 DEF Write, peerVars, callVars
<1>4. ASSUME NEW r \in Calls, Drained(r) PROVE EndpointTypeOK'
  BY <1>0, <1>4 DEF Drained, peerVars
<1>5. ASSUME NEW r \in Calls, WriteFails(r) PROVE EndpointTypeOK'
  BY <1>0, <1>5 DEF WriteFails, Ends, peerVars
<1>6. ASSUME NEW r \in Calls, CancelledWriting(r) PROVE EndpointTypeOK'
  BY <1>0, <1>6 DEF CancelledWriting, Ends, peerVars
<1>7. ASSUME NEW r \in Calls, Return(r) PROVE EndpointTypeOK'
  BY <1>0, <1>7 DEF Return, Ends, peerVars
<1>8. ASSUME NEW r \in Calls, Timeout(r) PROVE EndpointTypeOK'
  BY <1>0, <1>8 DEF Timeout, Ends, peerVars
<1>9. ASSUME NEW r \in Calls, Cancelled(r) PROVE EndpointTypeOK'
  BY <1>0, <1>9 DEF Cancelled, Ends, peerVars
<1>10. ASSUME NEW r \in Calls, StreamCancel(r) PROVE EndpointTypeOK'
  <2>1. toPeer' \in Seq(Requests)
    BY <1>10, PutTypes DEF StreamCancel
  <2> QED BY <1>10, <2>1 DEF StreamCancel, peerVars, callVars
<1>11. ASSUME NEW r \in Calls, StreamCancelEnds(r) PROVE EndpointTypeOK'
  BY <1>0, <1>11 DEF StreamCancelEnds, peerVars
<1>12. ASSUME NEW r \in Calls, SendCancel(r) PROVE EndpointTypeOK'
  <2>1. toPeer' \in Seq(Requests)
    BY <1>12, PutTypes DEF SendCancel
  <2> QED BY <1>12, <2>1 DEF SendCancel, peerVars, callVars
<1>13. ASSUME ReadAnswer PROVE EndpointTypeOK'
  BY <1>0, <1>13 DEF ReadAnswer, Line, TakeLine, Lines, peerVars
<1>14. ASSUME ReadDelta PROVE EndpointTypeOK'
  BY <1>0, <1>14 DEF ReadDelta, Line, TakeLine, Lines, peerVars
<1>15. ASSUME ReadBad PROVE EndpointTypeOK'
  <2>1. toUs' \in Seq(Lines)
    BY <1>15, LineHead DEF ReadBad, Line, TakeLine
  <2>2. CASE bad + 1 >= Threshold
    BY <1>15, <2>1, <2>2 DEF ReadBad, FailAll, peerVars
  <2>3. CASE ~ (bad + 1 >= Threshold)
    BY <1>15, <2>1, <2>3 DEF ReadBad, peerVars
  <2> QED BY <2>2, <2>3
<1>16. ASSUME ReadEof PROVE EndpointTypeOK'
  BY <1>0, <1>16 DEF ReadEof, Line, TakeLine, FailAll, peerVars
<1>17. ASSUME Aclose PROVE EndpointTypeOK'
  BY <1>0, <1>17 DEF Aclose, FailAll, peerVars
<1>18. ASSUME PeerReadsRequest PROVE EndpointTypeOK'
  BY <1>18, RequestHead DEF PeerReadsRequest, ourVars, callVars
<1>19. ASSUME PeerReadsCancel PROVE EndpointTypeOK'
  <2> DEFINE r == Head(toPeer).id
  <2>1. r \in Calls /\ toPeer' \in Seq(Requests)
    BY <1>19, RequestHead DEF PeerReadsCancel
  <2>2. UNCHANGED <<ourVars, sent, peer, badSent>>
    BY <1>19 DEF PeerReadsCancel
  <2> HIDE DEF r
  <2>3. CASE srv' = [srv EXCEPT ![r] = "dropped"] /\ UNCHANGED toUs
    BY <2>1, <2>2, <2>3 DEF ourVars, callVars
  <2>4. CASE srv' = [srv EXCEPT ![r] = "cancelled"] /\ Say("error", r)
    BY <2>1, <2>2, <2>4, SayTypes DEF ourVars, callVars
  <2>5. CASE UNCHANGED <<srv, toUs>>
    BY <2>1, <2>2, <2>5 DEF ourVars, callVars
  <2> QED BY <1>19, <2>3, <2>4, <2>5 DEF PeerReadsCancel, r
<1>20. ASSUME NEW r \in Calls, PeerStarts(r) PROVE EndpointTypeOK'
  BY <1>0, <1>20 DEF PeerStarts, ourVars, callVars
<1>21. ASSUME NEW r \in Calls, PeerEmits(r) PROVE EndpointTypeOK'
  BY <1>0, <1>21 DEF PeerEmits, Say, Lines, ourVars, callVars
<1>22. ASSUME NEW r \in Calls, PeerAnswers(r) PROVE EndpointTypeOK'
  <2>1. toUs' \in Seq(Lines)
    BY <1>22, SayTypes DEF PeerAnswers
  <2> QED BY <1>22, <2>1 DEF PeerAnswers, ourVars, callVars
<1>23. ASSUME PeerPrints PROVE EndpointTypeOK'
  BY <1>0, <1>23 DEF PeerPrints, Lines, ourVars, callVars
<1>5a. ASSUME PeerExits PROVE EndpointTypeOK'
  BY <1>0, <1>5a DEF PeerExits, Lines, ourVars, callVars
<1> QED
  BY <1>1, <1>2, <1>3, <1>4, <1>5, <1>6, <1>7, <1>8, <1>9, <1>10, <1>11, <1>12, <1>13, <1>14, <1>15, <1>16, <1>17, <1>18, <1>19, <1>20, <1>21, <1>22, <1>23, <1>5a
  DEF Next, CallerNext, ReaderNext, PeerNext, AllOver

(* Every request is sent and served once **********************************)

LEMMA PipeTail ==
    ASSUME EndpointTypeOK, RequestsOnce, toPeer # <<>>, NEW q \in Calls
    PROVE  /\ Has(Tail(toPeer), "request", q) => Has(toPeer, "request", q)
           /\ AtMostOne(Tail(toPeer), "request", q)
<1>1. toPeer \in Seq(Requests) /\ AtMostOne(toPeer, "request", q)
  BY DEF EndpointTypeOK, RequestsOnce
<1> QED BY <1>1, HasTail, AtMostOneTail

LEMMA PutCancel ==
    ASSUME EndpointTypeOK, RequestsOnce, NEW r \in Calls, Put("cancel", r), NEW q \in Calls
    PROVE  /\ Has(toPeer', "request", q) <=> Has(toPeer, "request", q)
           /\ AtMostOne(toPeer', "request", q)
<1> DEFINE m == [kind |-> "cancel", id |-> r]
<1>1. toPeer \in Seq(Requests) /\ AtMostOne(toPeer, "request", q)
  BY DEF EndpointTypeOK, RequestsOnce
<1>2. m \in Requests /\ m.kind # "request"
  BY DEF Requests
<1>3. CASE toPeer' = toPeer
  BY <1>1, <1>3
<1>4. CASE toPeer' = Append(toPeer, m)
  <2> HIDE DEF m
  <2> QED BY <1>1, <1>2, <1>4, HasAppend, AtMostOneAppend
<1> QED BY <1>3, <1>4 DEF Put

LEMMA RequestsStep ==
    ASSUME EndpointTypeOK, RequestsOnce, [Next]_vars
    PROVE  RequestsOnce'
\* Neither the peer nor its pipe moves, and no caller starts anew.
<1>1. ASSUME UNCHANGED <<srv, toPeer>>,
             \A q \in Calls : apc'[q] \in {"idle", "writing"} => apc[q] \in {"idle", "writing"}
      PROVE  RequestsOnce'
  BY <1>1 DEF RequestsOnce
\* Handlers that exist go on.
<1>2. ASSUME UNCHANGED apc,
             \A q \in Calls : srv'[q] # srv[q] => srv[q] # "none" /\ srv'[q] # "none",
             \A q \in Calls : /\ Has(toPeer', "request", q) => Has(toPeer, "request", q)
                              /\ AtMostOne(toPeer', "request", q)
      PROVE  RequestsOnce'
  BY <1>2 DEF RequestsOnce
<1>3. CASE UNCHANGED vars
  BY <1>1, <1>3 DEF vars, ourVars, callVars, peerVars
<1>4. ASSUME NEW r \in Calls, Call(r) PROVE RequestsOnce'
  BY <1>1, <1>4 DEF Call, Ends, peerVars, EndpointTypeOK
<1>5. ASSUME NEW r \in Calls, Write(r) PROVE RequestsOnce'
  <2> DEFINE m == [kind |-> "request", id |-> r]
  <2>1. m \in Requests /\ m.kind = "request" /\ m.id = r
    BY DEF Requests
  <2>2. /\ apc[r] = "writing" /\ srv' = srv
        /\ apc' = [apc EXCEPT ![r] = "draining"]
    BY <1>5 DEF Write, peerVars
  <2>3. srv[r] = "none" /\ ~ Has(toPeer, "request", r)
    BY <2>2 DEF RequestsOnce
  <2>4. toPeer' = toPeer \/ toPeer' = Append(toPeer, m)
    BY <1>5 DEF Write, Put
  <2>5. toPeer \in Seq(Requests) /\ \A q \in Calls : AtMostOne(toPeer, "request", q)
    BY DEF EndpointTypeOK, RequestsOnce
  <2> HIDE DEF m
  <2>6. \A q \in Calls : Has(toPeer', "request", q) => Has(toPeer, "request", q) \/ q = r
    <3>1. CASE toPeer' = toPeer
      BY <3>1
    <3>2. CASE toPeer' = Append(toPeer, m)
      BY <2>1, <2>5, <3>2, HasAppend
    <3> QED BY <2>4, <3>1, <3>2
  <2>7. \A q \in Calls : AtMostOne(toPeer', "request", q)
    <3> TAKE q \in Calls
    <3>1. m.kind = "request" /\ m.id = q => ~ Has(toPeer, "request", q)
      BY <2>1, <2>3
    <3> QED BY <2>1, <2>4, <2>5, <3>1, AtMostOneAppend
  <2> QED BY <2>2, <2>3, <2>6, <2>7 DEF RequestsOnce, EndpointTypeOK
<1>6. ASSUME NEW r \in Calls, Drained(r) PROVE RequestsOnce'
  BY <1>1, <1>6 DEF Drained, peerVars, EndpointTypeOK
<1>7. ASSUME NEW r \in Calls, WriteFails(r) \/ CancelledWriting(r) PROVE RequestsOnce'
  BY <1>1, <1>7 DEF WriteFails, CancelledWriting, Ends, peerVars, EndpointTypeOK
<1>8. ASSUME NEW r \in Calls, Return(r) \/ Timeout(r) \/ Cancelled(r) PROVE RequestsOnce'
  BY <1>1, <1>8 DEF Return, Timeout, Cancelled, Ends, peerVars, EndpointTypeOK
<1>9. ASSUME NEW r \in Calls, StreamCancel(r) PROVE RequestsOnce'
  BY <1>2, <1>9, PutCancel DEF StreamCancel, callVars, peerVars
<1>10. ASSUME NEW r \in Calls, StreamCancelEnds(r) PROVE RequestsOnce'
  BY <1>1, <1>10 DEF StreamCancelEnds, peerVars
<1>11. ASSUME NEW r \in Calls, SendCancel(r) PROVE RequestsOnce'
  BY <1>2, <1>11, PutCancel DEF SendCancel, callVars, peerVars
<1>12. CASE ReadAnswer \/ ReadDelta
  BY <1>1, <1>12 DEF ReadAnswer, ReadDelta, peerVars
<1>13. CASE ReadBad \/ ReadEof \/ Aclose
  BY <1>1, <1>13 DEF ReadBad, ReadEof, Aclose, peerVars
<1>14. CASE PeerReadsRequest
  <2> DEFINE r == Head(toPeer).id
  <2>1. /\ toPeer # <<>> /\ Head(toPeer).kind = "request"
        /\ toPeer' = Tail(toPeer) /\ srv' = [srv EXCEPT ![r] = "created"] /\ apc' = apc
    BY <1>14 DEF PeerReadsRequest, ourVars, callVars
  <2>2. r \in Calls /\ toPeer \in Seq(Requests)
    BY <2>1, RequestHead DEF EndpointTypeOK
  <2>3. Has(toPeer, "request", r)
    BY <2>1, <2>2, HasHead
  <2>4. srv[r] = "none" /\ apc[r] \notin {"idle", "writing"} /\ AtMostOne(toPeer, "request", r)
    BY <2>2, <2>3 DEF RequestsOnce
  <2>5. ~ Has(toPeer', "request", r)
    BY <2>1, <2>2, <2>4, AtMostOneTail
  <2>6. \A q \in Calls : /\ Has(toPeer', "request", q) => Has(toPeer, "request", q)
                         /\ AtMostOne(toPeer', "request", q)
    BY <2>1, PipeTail
  <2> HIDE DEF r
  <2> QED BY <2>1, <2>2, <2>4, <2>5, <2>6 DEF RequestsOnce, EndpointTypeOK
<1>15. CASE PeerReadsCancel
  <2> DEFINE r == Head(toPeer).id
  <2>1. toPeer # <<>> /\ toPeer' = Tail(toPeer) /\ apc' = apc
    BY <1>15 DEF PeerReadsCancel, ourVars, callVars
  <2>2. r \in Calls
    BY <2>1, RequestHead
  <2>3. \A q \in Calls : srv'[q] # srv[q] => srv[q] # "none" /\ srv'[q] # "none"
    BY <1>15, <2>2 DEF PeerReadsCancel, EndpointTypeOK
  <2> QED BY <1>2, <2>1, <2>3, PipeTail
<1>16. ASSUME NEW r \in Calls, PeerStarts(r) \/ PeerEmits(r) \/ PeerAnswers(r)
       PROVE  RequestsOnce'
  <2>1. toPeer' = toPeer /\ apc' = apc
    BY <1>16 DEF PeerStarts, PeerEmits, PeerAnswers, ourVars, callVars
  <2>2. \A q \in Calls : srv'[q] # srv[q] => srv[q] # "none" /\ srv'[q] # "none"
    BY <1>16 DEF PeerStarts, PeerEmits, PeerAnswers, EndpointTypeOK
  <2> QED BY <1>2, <2>1, <2>2 DEF RequestsOnce
<1>17. CASE PeerPrints
  BY <1>1, <1>17 DEF PeerPrints, ourVars, callVars
<1>18. CASE PeerExits
  <2>1. \A q : ~ Has(toPeer', "request", q) /\ AtMostOne(toPeer', "request", q)
    BY <1>18 DEF PeerExits, Has, AtMostOne, Places
  <2> QED BY <1>2, <1>18, <2>1 DEF PeerExits, ourVars, callVars
<1> QED
  BY <1>3, <1>4, <1>5, <1>6, <1>7, <1>8, <1>9, <1>10, <1>11, <1>12, <1>13, <1>14, <1>15, <1>16,
     <1>17, <1>18
  DEF Next, CallerNext, ReaderNext, PeerNext, AllOver

(* Every caller's future and stream stay where they are looked for ********)

LEMMA WaitersStep ==
    ASSUME EndpointTypeOK, WaitersKept, [Next]_vars
    PROVE  WaitersKept'
<1> USE DEF WaitersKept, EndpointTypeOK
\* Nothing a caller sees changes.
<1>1. ASSUME UNCHANGED <<apc, fut, outcome, pending, streams, scancel>>
      PROVE  WaitersKept'
  BY <1>1
<1>2. CASE UNCHANGED vars
  BY <1>1, <1>2 DEF vars, ourVars, callVars
<1>3. ASSUME NEW r \in Calls, Call(r) PROVE WaitersKept'
  <2>1. CASE tclosed
    BY <1>3, <2>1 DEF Call, Ends
  <2>2. CASE ~ tclosed
    BY <1>3, <2>2 DEF Call
  <2> QED BY <2>1, <2>2
<1>4. ASSUME NEW r \in Calls, Write(r) \/ Drained(r) PROVE WaitersKept'
  BY <1>4 DEF Write, Drained
<1>5. ASSUME NEW r \in Calls, WriteFails(r) \/ CancelledWriting(r) PROVE WaitersKept'
  BY <1>5 DEF WriteFails, CancelledWriting, Ends
<1>6. ASSUME NEW r \in Calls, Return(r) PROVE WaitersKept'
  BY <1>6 DEF Return, Ends
<1>7. ASSUME NEW r \in Calls, Timeout(r) PROVE WaitersKept'
  BY <1>7 DEF Timeout, Ends
<1>8. ASSUME NEW r \in Calls, Cancelled(r) PROVE WaitersKept'
  BY <1>8 DEF Cancelled, Ends
<1>9. ASSUME NEW r \in Calls, StreamCancel(r) \/ SendCancel(r) PROVE WaitersKept'
  BY <1>9 DEF StreamCancel, SendCancel, callVars
<1>10. ASSUME NEW r \in Calls, StreamCancelEnds(r) PROVE WaitersKept'
  BY <1>10 DEF StreamCancelEnds
<1>11. CASE ReadAnswer
  BY <1>11, LineHead DEF ReadAnswer, Line
<1>12. CASE ReadDelta
  BY <1>1, <1>12 DEF ReadDelta
<1>13. ASSUME FailAll, UNCHANGED <<apc, scancel>> PROVE WaitersKept'
  BY <1>13 DEF FailAll
<1>14. CASE ReadBad
  BY <1>1, <1>13, <1>14 DEF ReadBad
<1>15. CASE ReadEof \/ Aclose
  BY <1>13, <1>15 DEF ReadEof, Aclose
<1>16. CASE PeerNext
  BY <1>1, <1>16 DEF PeerNext, PeerReadsRequest, PeerReadsCancel, PeerStarts, PeerEmits,
                     PeerAnswers, PeerPrints, PeerExits, ourVars, callVars
<1> QED
  BY <1>2, <1>3, <1>4, <1>5, <1>6, <1>7, <1>8, <1>9, <1>10, <1>11, <1>12, <1>14, <1>15, <1>16
  DEF Next, CallerNext, ReaderNext, AllOver

(* Nothing is made up on the way back *************************************)

\* What a line the peer writes adds to its pipe.
LEMMA LineWritten ==
    ASSUME EndpointTypeOK, NEW m \in Lines, toUs' = Append(toUs, m), NEW kind, NEW q
    PROVE  /\ Has(toUs', kind, q) <=> Has(toUs, kind, q) \/ (m.kind = kind /\ m.id = q)
           /\ Count(toUs', kind, q) =
                  Count(toUs, kind, q) + (IF m.kind = kind /\ m.id = q THEN 1 ELSE 0)
<1>1. toUs \in Seq(Lines)
  BY DEF EndpointTypeOK
<1> QED BY <1>1, HasAppend, CountAppend

\* What the read loop takes from it.
LEMMA LineRead ==
    ASSUME EndpointTypeOK, toUs # <<>>, toUs' = Tail(toUs), NEW kind, NEW q
    PROVE  /\ Has(toUs', kind, q) => Has(toUs, kind, q)
           /\ Count(toUs, kind, q) =
                  Count(toUs', kind, q) + (IF Head(toUs).kind = kind /\ Head(toUs).id = q THEN 1 ELSE 0)
<1>1. toUs \in Seq(Lines)
  BY DEF EndpointTypeOK
<1> QED BY <1>1, HasTail, CountTail

LEMMA AnswersStep ==
    ASSUME EndpointTypeOK, RequestsOnce, AnswersTrue, [Next]_vars
    PROVE  AnswersTrue'
<1> DEFINE Answer == {"ok", "error", "delta"}
\* Our side: an outcome is a future's, and a future's answer was in the pipe.
<1>1. ASSUME UNCHANGED srv,
             \A q \in Calls : fut'[q] \in {fut[q], "pending", "cancelled", "unavailable"},
             \A q \in Calls : outcome'[q] \in {outcome[q], fut[q], "timeout", "cancelled", "unavailable"},
             \A q \in Calls, k \in Answer : Has(toUs', k, q) => Has(toUs, k, q)
      PROVE  AnswersTrue'
  BY <1>1 DEF AnswersTrue
\* The peer: what it has said of a call it does not take back.
<1>2. ASSUME UNCHANGED <<fut, outcome>>,
             \A q \in Calls : srv'[q] # srv[q] =>
                 srv[q] \in {"none", "created", "running"} /\ srv'[q] # "none",
             \A q \in Calls : /\ Has(toUs', "ok", q) => Has(toUs, "ok", q) \/ srv'[q] = "answered"
                              /\ Has(toUs', "error", q) =>
                                     Has(toUs, "error", q) \/ srv'[q] \in {"failed", "cancelled"}
                              /\ Has(toUs', "delta", q) => Has(toUs, "delta", q) \/ srv[q] # "none"
      PROVE  AnswersTrue'
  <2> SUFFICES ASSUME NEW q \in Calls
      PROVE /\ Has(toUs', "ok", q) \/ fut[q] = "ok" \/ outcome[q] = "ok" => srv'[q] = "answered"
            /\ Has(toUs', "error", q) \/ fut[q] = "error" \/ outcome[q] = "error"
                  => srv'[q] \in {"failed", "cancelled"}
            /\ Has(toUs', "delta", q) => srv'[q] # "none"
    BY <1>2 DEF AnswersTrue
  <2>1. /\ Has(toUs, "ok", q) \/ fut[q] = "ok" \/ outcome[q] = "ok" => srv[q] = "answered"
        /\ Has(toUs, "error", q) \/ fut[q] = "error" \/ outcome[q] = "error"
              => srv[q] \in {"failed", "cancelled"}
        /\ Has(toUs, "delta", q) => srv[q] # "none"
    BY DEF AnswersTrue
  <2>2. srv'[q] # srv[q] => srv[q] \in {"none", "created", "running"} /\ srv'[q] # "none"
    BY <1>2
  <2>3. Has(toUs, "ok", q) \/ fut[q] = "ok" \/ outcome[q] = "ok" => srv'[q] = "answered"
    BY <2>1, <2>2
  <2>4. Has(toUs, "error", q) \/ fut[q] = "error" \/ outcome[q] = "error"
             => srv'[q] \in {"failed", "cancelled"}
    BY <2>1, <2>2
  <2>5. Has(toUs, "delta", q) \/ srv[q] # "none" => srv'[q] # "none"
    BY <2>1, <2>2
  <2>6. /\ Has(toUs', "ok", q) => Has(toUs, "ok", q) \/ srv'[q] = "answered"
        /\ Has(toUs', "error", q) => Has(toUs, "error", q) \/ srv'[q] \in {"failed", "cancelled"}
        /\ Has(toUs', "delta", q) => Has(toUs, "delta", q) \/ srv[q] # "none"
    BY <1>2
  <2> QED BY <2>3, <2>4, <2>5, <2>6
<1>3. CASE UNCHANGED vars
  BY <1>1, <1>3 DEF vars, ourVars, callVars, peerVars
<1>4. ASSUME NEW r \in Calls, Call(r) PROVE AnswersTrue'
  BY <1>1, <1>4 DEF Call, Ends, peerVars, EndpointTypeOK
<1>5. ASSUME NEW r \in Calls, Write(r) \/ Drained(r) \/ StreamCancel(r) \/ SendCancel(r)
      PROVE  AnswersTrue'
  BY <1>1, <1>5 DEF Write, Drained, StreamCancel, SendCancel, peerVars, callVars
<1>6. ASSUME NEW r \in Calls, WriteFails(r) \/ CancelledWriting(r) \/ Return(r) PROVE AnswersTrue'
  BY <1>1, <1>6 DEF WriteFails, CancelledWriting, Return, Ends, peerVars, EndpointTypeOK
<1>7. ASSUME NEW r \in Calls, Timeout(r) \/ Cancelled(r) PROVE AnswersTrue'
  BY <1>1, <1>7 DEF Timeout, Cancelled, Ends, peerVars, EndpointTypeOK
<1>8. ASSUME NEW r \in Calls, StreamCancelEnds(r) PROVE AnswersTrue'
  BY <1>1, <1>8 DEF StreamCancelEnds, peerVars, EndpointTypeOK
<1>9. CASE ReadAnswer
  <2> DEFINE k == Head(toUs).kind
             r == Head(toUs).id
  <2>1. /\ toUs # <<>> /\ k \in {"ok", "error"} /\ toUs' = Tail(toUs)
        /\ UNCHANGED <<srv, outcome>>
        /\ fut' = [fut EXCEPT ![r] = k] \/ fut' = fut
    BY <1>9 DEF ReadAnswer, Line, TakeLine, peerVars
  <2>2. r \in Calls /\ toUs \in Seq(Lines)
    BY <2>1, LineHead DEF EndpointTypeOK
  <2>3. Has(toUs, k, r)
    BY <2>1, <2>2, HasHead
  <2>4. \A q \in Calls, j \in Answer : Has(toUs', j, q) => Has(toUs, j, q)
    BY <2>1, LineRead
  <2> HIDE DEF k, r
  <2> QED BY <2>1, <2>2, <2>3, <2>4 DEF AnswersTrue, EndpointTypeOK
<1>10. CASE ReadDelta
  <2>1. \A q \in Calls, j \in Answer : Has(toUs', j, q) => Has(toUs, j, q)
    BY <1>10, LineRead DEF ReadDelta, Line, TakeLine
  <2> QED BY <1>1, <1>10, <2>1 DEF ReadDelta, peerVars
<1>11. ASSUME FailAll
       PROVE  \A q \in Calls : /\ fut'[q] \in {fut[q], "unavailable"}
                               /\ outcome'[q] \in {outcome[q], "unavailable"}
  BY <1>11 DEF FailAll
<1>12. CASE ReadBad \/ ReadEof
  <2>1. \A q \in Calls, j \in Answer : Has(toUs', j, q) => Has(toUs, j, q)
    BY <1>12, LineRead DEF ReadBad, ReadEof, Line, TakeLine
  <2>2. FailAll \/ UNCHANGED <<fut, outcome>>
    BY <1>12 DEF ReadBad, ReadEof
  <2>3. UNCHANGED srv
    BY <1>12 DEF ReadBad, ReadEof, peerVars
  <2> QED BY <1>1, <1>11, <2>1, <2>2, <2>3
<1>13. CASE Aclose
  BY <1>1, <1>11, <1>13 DEF Aclose, peerVars
<1>14. CASE PeerReadsRequest
  <2> DEFINE r == Head(toPeer).id
  <2>1. /\ toPeer # <<>> /\ Head(toPeer).kind = "request" /\ UNCHANGED <<fut, outcome, toUs>>
        /\ srv' = [srv EXCEPT ![r] = "created"]
    BY <1>14 DEF PeerReadsRequest, ourVars, callVars
  <2>2. r \in Calls /\ toPeer \in Seq(Requests)
    BY <2>1, RequestHead DEF EndpointTypeOK
  <2>3. srv[r] = "none"
    BY <2>1, <2>2, HasHead DEF RequestsOnce
  <2> HIDE DEF r
  <2> QED BY <1>2, <2>1, <2>2, <2>3 DEF EndpointTypeOK
<1>15. ASSUME NEW r \in Calls, PeerAnswers(r) PROVE AnswersTrue'
  <2>1. PICK k \in {"ok", "error"} :
            /\ srv[r] = "running" /\ UNCHANGED <<fut, outcome>>
            /\ srv' = [srv EXCEPT ![r] = IF k = "ok" THEN "answered" ELSE "failed"]
            /\ toUs' = Append(toUs, [kind |-> k, id |-> r])
    BY <1>15 DEF PeerAnswers, Say, ourVars, callVars
  <2>2. [kind |-> k, id |-> r] \in Lines
    BY LineTypes
  <2>3. \A q \in Calls, j \in Answer : Has(toUs', j, q) <=> Has(toUs, j, q) \/ (j = k /\ q = r)
    BY <2>1, <2>2, LineWritten
  <2> QED BY <1>2, <2>1, <2>3 DEF EndpointTypeOK
<1>16. CASE PeerReadsCancel
  <2> DEFINE r == Head(toPeer).id
  <2>1. r \in Calls /\ UNCHANGED <<fut, outcome>>
    BY <1>16, RequestHead DEF PeerReadsCancel, ourVars, callVars
  <2> HIDE DEF r
  <2>2. CASE srv[r] = "created" /\ srv' = [srv EXCEPT ![r] = "dropped"] /\ UNCHANGED toUs
    BY <1>2, <2>1, <2>2 DEF EndpointTypeOK
  <2>3. CASE srv[r] = "running" /\ srv' = [srv EXCEPT ![r] = "cancelled"] /\ Say("error", r)
    <3>1. [kind |-> "error", id |-> r] \in Lines
      BY <2>1, LineTypes
    <3>2. \A q \in Calls, j \in Answer : Has(toUs', j, q) <=> Has(toUs, j, q) \/ (j = "error" /\ q = r)
      BY <2>3, <3>1, LineWritten DEF Say
    <3> QED BY <1>2, <2>1, <2>3, <3>2 DEF EndpointTypeOK
  <2>4. CASE UNCHANGED <<srv, toUs>>
    BY <1>2, <2>1, <2>4
  <2> QED BY <1>16, <2>2, <2>3, <2>4 DEF PeerReadsCancel, r
<1>17. ASSUME NEW r \in Calls, PeerStarts(r) PROVE AnswersTrue'
  BY <1>2, <1>17 DEF PeerStarts, ourVars, callVars, EndpointTypeOK
<1>18. ASSUME NEW r \in Calls, PeerEmits(r) PROVE AnswersTrue'
  <2>1. [kind |-> "delta", id |-> r] \in Lines
    BY LineTypes
  <2>2. \A q \in Calls, j \in Answer : Has(toUs', j, q) <=> Has(toUs, j, q) \/ (j = "delta" /\ q = r)
    BY <1>18, <2>1, LineWritten DEF PeerEmits, Say
  <2> QED BY <1>2, <1>18, <2>2 DEF PeerEmits, ourVars, callVars
<1>19. CASE PeerPrints \/ PeerExits
  <2>1. PICK k \in {"bad", "eof"} : toUs' = Append(toUs, [kind |-> k])
    BY <1>19 DEF PeerPrints, PeerExits
  <2>2. [kind |-> k] \in Lines /\ [kind |-> k].kind = k
    BY LineTypes
  <2>3. \A q \in Calls, j \in Answer : Has(toUs', j, q) <=> Has(toUs, j, q)
    BY <2>1, <2>2, LineWritten
  <2> QED BY <1>2, <1>19, <2>3 DEF PeerPrints, PeerExits, ourVars, callVars
<1> QED
  BY <1>3, <1>4, <1>5, <1>6, <1>7, <1>8, <1>9, <1>10, <1>12, <1>13, <1>14, <1>15, <1>16, <1>17,
     <1>18, <1>19
  DEF Next, CallerNext, ReaderNext, PeerNext, AllOver

(* A stream loses no delta ************************************************)

LEMMA DeltasStep ==
    ASSUME EndpointInv, [Next]_vars
    PROVE  DeltasKept'
<1> USE DEF EndpointInv
<1>0. Streams \subseteq Calls /\ toUs \in Seq(Lines) /\ got \in [Calls -> Nat] /\ sent \in [Calls -> Nat]
  BY EndpointAssumption DEF Calls, EndpointTypeOK
<1> DEFINE Whole(q) == /\ outcome'[q] = "none" => got'[q] + Count(toUs', "delta", q) = sent'[q]
                       /\ outcome'[q] = "ok" => got'[q] = sent'[q]
           Behind(q) == /\ NoneAfter(toUs', "ok", "delta", q)
                        /\ fut'[q] = "ok" => ~ Has(toUs', "delta", q)
\* The deltas of a stream whose answer has been read are with its consumer.
<1>1. \A q \in Streams : fut[q] = "ok" /\ outcome[q] = "none" => got[q] = sent[q]
  <2> SUFFICES ASSUME NEW q \in Streams, fut[q] = "ok", outcome[q] = "none"
               PROVE  got[q] = sent[q]
    OBVIOUS
  <2>1. Count(toUs, "delta", q) = 0
    BY <1>0, CountZero DEF DeltasKept
  <2>2. got[q] + Count(toUs, "delta", q) = sent[q]
    BY DEF DeltasKept
  <2> QED BY <1>0, <2>1, <2>2
\* A caller's task, stop or _fail_all: no line moves.
<1>2. ASSUME UNCHANGED <<toUs, got, sent>>,
             \A q \in Calls : fut'[q] \in {fut[q], "pending", "cancelled", "unavailable"},
             \A q \in Calls : outcome'[q] # outcome[q] =>
                 \/ outcome'[q] \in {"timeout", "cancelled", "unavailable"}
                 \/ outcome[q] = "none" /\ outcome'[q] = fut[q] /\ fut[q] # "none"
      PROVE  DeltasKept'
  <2> SUFFICES ASSUME NEW q \in Streams PROVE Whole(q) /\ Behind(q)
    BY DEF DeltasKept
  <2>1. q \in Calls
    BY <1>0
  <2> QED BY <1>1, <1>2, <2>1 DEF DeltasKept
\* The read loop takes a line that is no delta, and may resolve futures.
<1>3. ASSUME toUs # <<>>, toUs' = Tail(toUs), Head(toUs).kind # "delta",
             UNCHANGED <<got, sent>>,
             \A q \in Calls : outcome'[q] \in {outcome[q], "unavailable"},
             \A q \in Calls : fut'[q] = "ok" =>
                 fut[q] = "ok" \/ (Head(toUs).kind = "ok" /\ Head(toUs).id = q)
      PROVE  DeltasKept'
  <2> SUFFICES ASSUME NEW q \in Streams PROVE Whole(q) /\ Behind(q)
    BY DEF DeltasKept
  <2>1. q \in Calls
    BY <1>0
  <2>2. Count(toUs', "delta", q) = Count(toUs, "delta", q)
    <3>1. Count(toUs', "delta", q) \in Nat
      <4>1. toUs' \in Seq(Lines)
        BY <1>0, <1>3
      <4> QED BY <4>1, PlacesFinite
    <3>2. Count(toUs, "delta", q) = Count(toUs', "delta", q) + 0
      BY <1>3, LineRead
    <3> QED BY <3>1, <3>2
  <2>3. NoneAfter(toUs, "ok", "delta", q) /\ (fut[q] = "ok" => ~ Has(toUs, "delta", q))
    BY DEF DeltasKept
  <2>4. /\ NoneAfter(toUs', "ok", "delta", q)
        /\ Head(toUs).kind = "ok" /\ Head(toUs).id = q => ~ Has(toUs, "delta", q)
    BY <1>0, <1>3, <2>3, NoneAfterTail
  <2>5. Has(toUs', "delta", q) => Has(toUs, "delta", q)
    BY <1>3, LineRead
  <2>6. Behind(q)
    BY <1>3, <2>1, <2>3, <2>4, <2>5
  <2>7. Whole(q)
    BY <1>3, <2>1, <2>2 DEF DeltasKept
  <2> QED BY <2>6, <2>7
\* The peer writes a line that is no delta.
<1>4. ASSUME NEW m \in Lines, toUs' = Append(toUs, m), m.kind # "delta",
             UNCHANGED <<got, sent, fut, outcome>>
      PROVE  DeltasKept'
  <2> SUFFICES ASSUME NEW q \in Streams PROVE Whole(q) /\ Behind(q)
    BY DEF DeltasKept
  <2>1. Count(toUs', "delta", q) = Count(toUs, "delta", q)
    <3>1. Count(toUs, "delta", q) \in Nat
      BY <1>0, PlacesFinite
    <3>2. Count(toUs', "delta", q) = Count(toUs, "delta", q) + 0
      BY <1>4, LineWritten
    <3> QED BY <3>1, <3>2
  <2>2. Has(toUs', "delta", q) <=> Has(toUs, "delta", q)
    BY <1>4, LineWritten
  <2>3. NoneAfter(toUs, "ok", "delta", q)
    BY DEF DeltasKept
  <2>4. NoneAfter(toUs', "ok", "delta", q)
    BY <1>0, <1>4, <2>3, NoneAfterAppend
  <2> QED BY <1>4, <2>1, <2>2, <2>4 DEF DeltasKept
<1>5. ASSUME UNCHANGED <<toUs, got, sent, fut, outcome>> PROVE DeltasKept'
  BY <1>5 DEF DeltasKept
\* The caller's task ends the call by itself.
<1>5a. ASSUME NEW r \in Calls, NEW how \in {"timeout", "cancelled", "unavailable"},
              outcome' = [outcome EXCEPT ![r] = IF @ = "none" THEN how ELSE @] \/ outcome' = outcome,
              UNCHANGED <<toUs, got, sent>>,
              \A q \in Calls : fut'[q] \in {fut[q], "pending", "cancelled"}
       PROVE  DeltasKept'
  <2>1. \A q \in Calls : outcome'[q] # outcome[q] => outcome'[q] = how
    BY <1>5a DEF EndpointTypeOK
  <2> QED BY <1>2, <1>5a, <2>1
<1>6. CASE UNCHANGED vars
  BY <1>5, <1>6 DEF vars, ourVars, callVars, peerVars
<1>7. ASSUME NEW r \in Calls, Call(r) PROVE DeltasKept'
  BY <1>7, <1>5a DEF Call, Ends, peerVars, EndpointTypeOK
<1>8. ASSUME NEW r \in Calls, Write(r) \/ Drained(r) \/ StreamCancel(r) \/ SendCancel(r)
      PROVE  DeltasKept'
  BY <1>5, <1>8 DEF Write, Drained, StreamCancel, SendCancel, peerVars, callVars
<1>9. ASSUME NEW r \in Calls, WriteFails(r) \/ CancelledWriting(r) PROVE DeltasKept'
  BY <1>9, <1>5a DEF WriteFails, CancelledWriting, Ends, peerVars, EndpointTypeOK
<1>10. ASSUME NEW r \in Calls, Return(r) PROVE DeltasKept'
  <2>1. /\ UNCHANGED <<toUs, got, sent, fut>> /\ fut[r] # "none"
        /\ outcome' = [outcome EXCEPT ![r] = IF @ = "none" THEN fut[r] ELSE @]
    BY <1>10 DEF Return, Ends, peerVars, WaitersKept
  <2>2. \A q \in Calls : outcome'[q] # outcome[q] => outcome[q] = "none" /\ outcome'[q] = fut[q] /\ q = r
    BY <2>1 DEF EndpointTypeOK
  <2> QED BY <1>2, <2>1, <2>2
<1>11. ASSUME NEW r \in Calls, Timeout(r) \/ Cancelled(r) PROVE DeltasKept'
  <2>1. /\ UNCHANGED <<toUs, got, sent>>
        /\ fut' = [fut EXCEPT ![r] = IF @ = "pending" THEN "cancelled" ELSE @]
    BY <1>11 DEF Timeout, Cancelled, peerVars
  <2>2. PICK how \in {"timeout", "cancelled"} :
            outcome' = [outcome EXCEPT ![r] = IF @ = "none" THEN how ELSE @]
    BY <1>11 DEF Timeout, Cancelled, Ends
  <2> QED BY <1>5a, <2>1, <2>2 DEF EndpointTypeOK
<1>12. ASSUME NEW r \in Calls, StreamCancelEnds(r) PROVE DeltasKept'
  BY <1>12, <1>5a DEF StreamCancelEnds, peerVars, EndpointTypeOK
<1>13. CASE ReadAnswer
  <2> DEFINE k == Head(toUs).kind
             r == Head(toUs).id
  <2>1. /\ toUs # <<>> /\ k \in {"ok", "error"} /\ toUs' = Tail(toUs)
        /\ UNCHANGED <<got, sent, outcome>>
        /\ fut' = [fut EXCEPT ![r] = k] \/ fut' = fut
    BY <1>13 DEF ReadAnswer, Line, TakeLine, peerVars
  <2>2. r \in Calls
    BY <2>1, LineHead
  <2>3. \A q \in Calls : fut'[q] = "ok" => fut[q] = "ok" \/ (k = "ok" /\ r = q)
    <3> HIDE DEF k, r
    <3> QED BY <2>1, <2>2 DEF EndpointTypeOK
  <2> QED BY <1>3, <2>1, <2>3
<1>14. CASE ReadDelta
  <2> DEFINE r == Head(toUs).id
  <2>1. /\ toUs # <<>> /\ Head(toUs).kind = "delta" /\ toUs' = Tail(toUs)
        /\ UNCHANGED <<sent, outcome, fut>>
        /\ got' = IF r \in streams /\ outcome[r] = "none" THEN [got EXCEPT ![r] = @ + 1] ELSE got
    BY <1>14 DEF ReadDelta, Line, TakeLine, peerVars
  <2>2. r \in Calls
    BY <2>1, LineHead
  <2>3. r \in Streams /\ outcome[r] = "none" => r \in streams
    <3>1. Has(toUs, "delta", r)
      BY <1>0, <2>1, HasHead
    <3>2. apc[r] # "idle"
      BY <2>2, <3>1 DEF AnswersTrue, RequestsOnce
    <3> QED BY <2>2, <3>2 DEF WaitersKept
  <2> SUFFICES ASSUME NEW q \in Streams PROVE Whole(q) /\ Behind(q)
    BY DEF DeltasKept
  <2>4. q \in Calls /\ got[q] \in Nat /\ sent[q] \in Nat /\ Count(toUs', "delta", q) \in Nat
    <3>1. toUs' \in Seq(Lines)
      BY <1>0, <2>1
    <3>2. Count(toUs', "delta", q) \in Nat
      BY <3>1, PlacesFinite
    <3> QED BY <1>0, <3>2
  <2>5. outcome[q] = "none" => got[q] + Count(toUs, "delta", q) = sent[q]
    BY DEF DeltasKept
  <2>6. outcome[q] = "ok" => got[q] = sent[q]
    BY DEF DeltasKept
  <2>7. NoneAfter(toUs, "ok", "delta", q) /\ (fut[q] = "ok" => ~ Has(toUs, "delta", q))
    BY DEF DeltasKept
  <2>8. Behind(q)
    <3>1. NoneAfter(toUs', "ok", "delta", q)
      BY <1>0, <2>1, <2>7, NoneAfterTail
    <3>2. Has(toUs', "delta", q) => Has(toUs, "delta", q)
      BY <2>1, LineRead
    <3> QED BY <2>1, <2>7, <3>1, <3>2
  <2>9. Whole(q)
    <3>1. CASE q = r
      <4>1. Count(toUs, "delta", q) = Count(toUs', "delta", q) + 1
        BY <2>1, <3>1, LineRead
      <4> HIDE DEF r
      <4>2. outcome[q] = "none" => got'[q] = got[q] + 1
        BY <1>0, <2>1, <2>3, <2>4, <3>1
      <4>3. outcome[q] # "none" => got'[q] = got[q]
        BY <1>0, <2>1, <2>4, <3>1
      <4> QED BY <2>1, <2>4, <2>5, <2>6, <4>1, <4>2, <4>3
    <3>2. CASE q # r
      <4>1. Count(toUs, "delta", q) = Count(toUs', "delta", q) + 0
        BY <2>1, <3>2, LineRead
      <4> HIDE DEF r
      <4>2. got'[q] = got[q]
        BY <1>0, <2>1, <2>4, <3>2
      <4> QED BY <2>1, <2>4, <2>5, <2>6, <4>1, <4>2
    <3> QED BY <3>1, <3>2
  <2> QED BY <2>8, <2>9
<1>15. ASSUME FailAll
       PROVE  \A q \in Calls : /\ fut'[q] \in {fut[q], "unavailable"}
                               /\ outcome'[q] \in {outcome[q], "unavailable"}
  BY <1>15 DEF FailAll
<1>16. CASE ReadBad \/ ReadEof
  <2>1. /\ toUs # <<>> /\ Head(toUs).kind \in {"bad", "eof"} /\ toUs' = Tail(toUs)
        /\ UNCHANGED <<got, sent>>
        /\ FailAll \/ UNCHANGED <<fut, outcome>>
    BY <1>16 DEF ReadBad, ReadEof, Line, TakeLine, peerVars
  <2> QED BY <1>3, <1>15, <2>1
<1>17. CASE Aclose
  <2>1. FailAll /\ UNCHANGED <<toUs, got, sent>>
    BY <1>17 DEF Aclose, peerVars
  <2>2. \A q \in Calls : outcome'[q] # outcome[q] => outcome'[q] = "unavailable"
    BY <1>15, <2>1
  <2> QED BY <1>2, <1>15, <2>1, <2>2
<1>18. CASE PeerReadsRequest
  BY <1>5, <1>18 DEF PeerReadsRequest, ourVars, callVars
<1>19. CASE PeerReadsCancel
  <2> DEFINE r == Head(toPeer).id
  <2>1. r \in Calls /\ UNCHANGED <<got, sent, fut, outcome>>
    BY <1>19, RequestHead DEF PeerReadsCancel, ourVars, callVars
  <2> HIDE DEF r
  <2>2. CASE UNCHANGED toUs
    BY <1>5, <2>1, <2>2
  <2>3. CASE Say("error", r)
    BY <1>4, <2>1, <2>3, LineTypes DEF Say
  <2> QED BY <1>19, <2>2, <2>3 DEF PeerReadsCancel, r
<1>20. ASSUME NEW r \in Calls, PeerStarts(r) PROVE DeltasKept'
  BY <1>5, <1>20 DEF PeerStarts, ourVars, callVars
<1>21. ASSUME NEW r \in Calls, PeerEmits(r) PROVE DeltasKept'
  <2> DEFINE m == [kind |-> "delta", id |-> r]
  <2>1. /\ srv[r] = "running" /\ sent' = [sent EXCEPT ![r] = @ + 1]
        /\ toUs' = Append(toUs, m) /\ UNCHANGED <<got, fut, outcome>>
    BY <1>21 DEF PeerEmits, Say, ourVars, callVars
  <2>2. m \in Lines /\ m.kind = "delta" /\ m.id = r
    BY LineTypes
  <2>3. ~ Has(toUs, "ok", r) /\ fut[r] # "ok" /\ outcome[r] # "ok"
    BY <2>1 DEF AnswersTrue
  <2> HIDE DEF m
  <2> SUFFICES ASSUME NEW q \in Streams PROVE Whole(q) /\ Behind(q)
    BY DEF DeltasKept
  <2>4. q \in Calls /\ got[q] \in Nat /\ sent[q] \in Nat /\ Count(toUs, "delta", q) \in Nat
    BY <1>0, PlacesFinite
  <2>5. /\ outcome[q] = "none" => got[q] + Count(toUs, "delta", q) = sent[q]
        /\ outcome[q] = "ok" => got[q] = sent[q]
        /\ NoneAfter(toUs, "ok", "delta", q)
        /\ fut[q] = "ok" => ~ Has(toUs, "delta", q)
    BY DEF DeltasKept
  <2>6. NoneAfter(toUs', "ok", "delta", q)
    <3>1. m.kind = "delta" /\ m.id = q => ~ Has(toUs, "ok", q)
      BY <2>2, <2>3
    <3> QED BY <1>0, <2>1, <2>2, <2>5, <3>1, NoneAfterAppend
  <2>7. CASE q = r
    <3>1. Count(toUs', "delta", q) = Count(toUs, "delta", q) + 1
      BY <2>1, <2>2, <2>7, LineWritten
    <3>2. sent'[q] = sent[q] + 1
      BY <1>0, <2>1, <2>4, <2>7
    <3> QED BY <2>1, <2>3, <2>4, <2>5, <2>6, <2>7, <3>1, <3>2
  <2>8. CASE q # r
    <3>1. Count(toUs', "delta", q) = Count(toUs, "delta", q) + 0
      BY <2>1, <2>2, <2>8, LineWritten
    <3>2. sent'[q] = sent[q]
      BY <1>0, <2>1, <2>4, <2>8
    <3>3. Has(toUs', "delta", q) => Has(toUs, "delta", q)
      BY <2>1, <2>2, <2>8, LineWritten
    <3> QED BY <2>1, <2>4, <2>5, <2>6, <3>1, <3>2, <3>3
  <2> QED BY <2>7, <2>8
<1>22. ASSUME NEW r \in Calls, PeerAnswers(r) PROVE DeltasKept'
  <2>1. PICK k \in {"ok", "error"} : toUs' = Append(toUs, [kind |-> k, id |-> r])
    BY <1>22 DEF PeerAnswers, Say
  <2> QED BY <1>4, <1>22, <2>1, LineTypes DEF PeerAnswers, ourVars, callVars
<1>23. CASE PeerPrints \/ PeerExits
  <2>1. PICK k \in {"bad", "eof"} : toUs' = Append(toUs, [kind |-> k])
    BY <1>23 DEF PeerPrints, PeerExits
  <2> QED BY <1>4, <1>23, <2>1, LineTypes DEF PeerPrints, PeerExits, ourVars, callVars
<1> QED
  BY <1>6, <1>7, <1>8, <1>9, <1>10, <1>11, <1>12, <1>13, <1>14, <1>16, <1>17, <1>18, <1>19, <1>20,
     <1>21, <1>22, <1>23
  DEF Next, CallerNext, ReaderNext, PeerNext, AllOver

(* The theorems ***********************************************************)

\* The invariant holds whatever happens on the wire.
THEOREM EndpointInvariant == Spec => []EndpointInv
<1>1. EndpointInv /\ [Next]_vars => EndpointInv'
  BY TypeStep, RequestsStep, WaitersStep, AnswersStep, DeltasStep DEF EndpointInv
<1> QED BY InitEndpointInv, <1>1, PTL DEF Spec

\* An answer reaches the call it was given to, for any number of calls (ipc.py,
\* Endpoint._resolve, call and _settle).
THEOREM EndpointAnswersMatch == Spec => []AnswersMatch
<1>1. EndpointInv => AnswersMatch
  BY DEF EndpointInv, AnswersTrue, AnswersMatch
<1> QED BY EndpointInvariant, <1>1, PTL

\* A caller that waits is found by the answer or by _fail_all.
THEOREM EndpointWaiterReachable == Spec => []WaiterReachable
<1>1. EndpointInv => WaiterReachable
  BY DEF EndpointInv, WaitersKept, WaiterReachable
<1> QED BY EndpointInvariant, <1>1, PTL

\* The result of a stream never overtakes one of its deltas (ipc.py, StreamCall).
THEOREM EndpointStreamComplete == Spec => []StreamComplete
<1>1. EndpointInv => StreamComplete
  BY DEF EndpointInv, DeltasKept, StreamComplete
<1> QED BY EndpointInvariant, <1>1, PTL

(* The refinement *********************************************************)

LEMMA EndpointInitRefines == Init => Remote!Init
<1> SUFFICES ASSUME Init PROVE Remote!Init
  OBVIOUS
<1>1. [r \in Calls |-> IF apc[r] = "idle" THEN "idle"
                      ELSE IF outcome[r] = "none" THEN "open"
                      ELSE IF outcome[r] = "ok" THEN "ok" ELSE "failed"] = [r \in Calls |-> "idle"]
  BY DEF Init
<1>2. \A r \in Calls : (srv[r] = "answered") = FALSE
  BY DEF Init
<1>3. [r \in Calls |-> srv[r] = "answered"] = [r \in Calls |-> FALSE]
  BY <1>2, Zenon
<1> QED BY <1>1, <1>3 DEF Remote!Init

LEMMA EndpointStepRefines ==
    ASSUME EndpointInv, [Next]_vars
    PROVE  [Remote!Next]_<<[r \in Calls |->
                              IF apc[r] = "idle" THEN "idle"
                              ELSE IF outcome[r] = "none" THEN "open"
                              ELSE IF outcome[r] = "ok" THEN "ok" ELSE "failed"],
                           [r \in Calls |-> srv[r] = "answered"]>>
<1> DEFINE Phase == [r \in Calls |->
                       IF apc[r] = "idle" THEN "idle"
                       ELSE IF outcome[r] = "none" THEN "open"
                       ELSE IF outcome[r] = "ok" THEN "ok" ELSE "failed"]
           Served == [r \in Calls |-> srv[r] = "answered"]
           Promise == [Remote!Next]_<<Phase, Served>>
<1> USE DEF EndpointInv, EndpointTypeOK
<1>1. ASSUME \A q \in Calls : apc'[q] = "idle" <=> apc[q] = "idle",
             UNCHANGED outcome,
             \A q \in Calls : srv'[q] = "answered" <=> srv[q] = "answered"
      PROVE  Promise
  <2>1. Phase' = Phase
    BY <1>1
  <2>2. Served' = Served
    BY <1>1
  <2> QED BY <2>1, <2>2
\* Calls that were open fail, any number of them at once.
<1>2. ASSUME NEW F \in SUBSET Calls,
             UNCHANGED srv,
             \A q \in Calls : apc'[q] = "idle" <=> apc[q] = "idle",
             \A q \in Calls \ F : outcome'[q] = outcome[q],
             \A q \in F : /\ apc[q] # "idle" /\ outcome[q] = "none"
                          /\ outcome'[q] \notin {"none", "ok"}
      PROVE  Promise
  <2>1. \A q \in F : Phase[q] = "open"
    BY <1>2
  <2>2. Phase' = [q \in Calls |-> IF q \in F THEN "failed" ELSE Phase[q]]
    BY <1>2
  <2>3. Served' = Served
    BY <1>2
  <2>4. Remote!Fail(F)
    BY <2>1, <2>2, <2>3 DEF Remote!Fail
  <2> QED BY <2>4 DEF Remote!Next
\* One caller's task gives up; a stream may have failed before.
<1>3. ASSUME NEW r \in Calls, NEW how \in {"error", "timeout", "cancelled", "unavailable"},
             apc[r] # "idle",
             UNCHANGED srv,
             outcome' = [outcome EXCEPT ![r] = IF @ = "none" THEN how ELSE @],
             \A q \in Calls : apc'[q] = "idle" <=> apc[q] = "idle"
      PROVE  Promise
  <2>1. CASE outcome[r] = "none"
    <3>1. /\ \A q \in Calls \ {r} : outcome'[q] = outcome[q]
          /\ outcome'[r] \notin {"none", "ok"}
      BY <1>3, <2>1
    <3>2. {r} \in SUBSET Calls
      OBVIOUS
    <3>3. \A q \in {r} : apc[q] # "idle" /\ outcome[q] = "none" /\ outcome'[q] \notin {"none", "ok"}
      BY <1>3, <2>1, <3>1
    <3>4. \A q \in Calls : apc'[q] = "idle" <=> apc[q] = "idle"
      BY <1>3
    <3>5. UNCHANGED srv
      BY <1>3
    <3> HIDE DEF Promise
    <3> QED BY <1>2, <3>1, <3>2, <3>3, <3>4, <3>5, Zenon
  <2>2. CASE outcome[r] # "none"
    <3>1. outcome' = outcome
      BY <1>3, <2>2
    <3> QED BY <1>1, <1>3, <3>1
  <2> QED BY <2>1, <2>2
<1>4. CASE UNCHANGED vars
  BY <1>1, <1>4 DEF vars, ourVars, callVars, peerVars
<1>5. ASSUME NEW r \in Calls, Call(r) PROVE Promise
  <2>1. apc[r] = "idle" /\ outcome[r] = "none" /\ srv' = srv
    BY <1>5 DEF Call, WaitersKept, peerVars
  <2>2. PICK end \in {"open", "failed"} : Phase' = [Phase EXCEPT ![r] = end]
    <3>1. CASE tclosed
      <4>1. Phase' = [Phase EXCEPT ![r] = "failed"]
        BY <1>5, <2>1, <3>1 DEF Call, Ends
      <4> QED BY <4>1
    <3>2. CASE ~ tclosed
      <4>1. Phase' = [Phase EXCEPT ![r] = "open"]
        BY <1>5, <2>1, <3>2 DEF Call
      <4> QED BY <4>1
    <3> QED BY <3>1, <3>2
  <2>3. Phase[r] = "idle" /\ Served' = Served
    BY <2>1
  <2>4. Remote!Open(r)
    BY <2>2, <2>3 DEF Remote!Open
  <2> QED BY <2>4 DEF Remote!Next
<1>6. ASSUME NEW r \in Calls, Write(r) \/ Drained(r) \/ StreamCancel(r) \/ SendCancel(r)
      PROVE  Promise
  BY <1>1, <1>6 DEF Write, Drained, StreamCancel, SendCancel, peerVars, callVars
<1>7. ASSUME NEW r \in Calls, WriteFails(r) \/ CancelledWriting(r) PROVE Promise
  <2>1. PICK how \in {"cancelled", "unavailable"} :
            outcome' = [outcome EXCEPT ![r] = IF @ = "none" THEN how ELSE @]
    BY <1>7 DEF WriteFails, CancelledWriting, Ends
  <2>2. /\ apc[r] # "idle" /\ srv' = srv
        /\ apc' = [apc EXCEPT ![r] = "over"]
    BY <1>7 DEF WriteFails, CancelledWriting, Ends, peerVars
  <2> QED BY <1>3, <2>1, <2>2
<1>8. ASSUME NEW r \in Calls, Return(r) PROVE Promise
  <2>1. /\ apc[r] = "waiting" /\ srv' = srv /\ fut[r] \notin {"none", "pending"}
        /\ apc' = [apc EXCEPT ![r] = "over"]
        /\ outcome' = [outcome EXCEPT ![r] = IF @ = "none" THEN fut[r] ELSE @]
    BY <1>8 DEF Return, Ends, peerVars, WaitersKept
  <2>2. CASE fut[r] # "ok"
    <3>1. fut[r] \in {"error", "timeout", "cancelled", "unavailable"}
      BY <2>1, <2>2
    <3> QED BY <1>3, <2>1, <3>1
  <2>3. CASE fut[r] = "ok" /\ outcome[r] = "none"
    <3>1. Phase[r] = "open" /\ Served[r] /\ Served' = Served
      BY <2>1, <2>3 DEF AnswersTrue
    <3>2. Phase' = [Phase EXCEPT ![r] = "ok"]
      BY <2>1, <2>3
    <3>3. Remote!Succeed(r)
      BY <3>1, <3>2 DEF Remote!Succeed
    <3> QED BY <3>3 DEF Remote!Next
  <2>4. CASE outcome[r] # "none"
    <3>1. outcome' = outcome
      BY <2>1, <2>4
    <3> QED BY <1>1, <2>1, <3>1
  <2> QED BY <2>2, <2>3, <2>4
<1>9. ASSUME NEW r \in Calls, Timeout(r) \/ Cancelled(r) PROVE Promise
  <2>1. PICK how \in {"timeout", "cancelled"} :
            outcome' = [outcome EXCEPT ![r] = IF @ = "none" THEN how ELSE @]
    BY <1>9 DEF Timeout, Cancelled, Ends
  <2>2. /\ apc[r] # "idle" /\ srv' = srv
        /\ apc' = [apc EXCEPT ![r] = "over"]
    BY <1>9 DEF Timeout, Cancelled, Ends, peerVars
  <2> QED BY <1>3, <2>1, <2>2
<1>10. ASSUME NEW r \in Calls, StreamCancelEnds(r) PROVE Promise
  <2>1. apc[r] # "idle" /\ UNCHANGED <<srv, apc>>
    BY <1>10 DEF StreamCancelEnds, WaitersKept, peerVars
  <2>2. outcome' = [outcome EXCEPT ![r] = IF @ = "none" THEN "cancelled" ELSE @]
    BY <1>10 DEF StreamCancelEnds
  <2> QED BY <1>3, <2>1, <2>2
<1>11. CASE ReadAnswer \/ ReadDelta
  BY <1>1, <1>11 DEF ReadAnswer, ReadDelta, peerVars
<1>12. ASSUME FailAll, UNCHANGED <<apc, srv>> PROVE Promise
  <2> DEFINE F == {q \in streams : outcome[q] = "none"}
  <2>1. F \in SUBSET Calls /\ \A q \in F : apc[q] # "idle" /\ outcome[q] = "none"
    BY EndpointAssumption DEF WaitersKept, Calls
  <2>2. \A q \in Calls : outcome'[q] = IF q \in F THEN "unavailable" ELSE outcome[q]
    BY <1>12 DEF FailAll
  <2> HIDE DEF F
  <2> QED BY <1>2, <1>12, <2>1, <2>2
<1>13. CASE ReadBad \/ ReadEof \/ Aclose
  <2>1. UNCHANGED <<apc, srv>> /\ (FailAll \/ UNCHANGED outcome)
    BY <1>13 DEF ReadBad, ReadEof, Aclose, peerVars
  <2> QED BY <1>1, <1>12, <2>1
<1>14. CASE PeerReadsRequest
  <2>1. Head(toPeer).id \in Calls /\ srv[Head(toPeer).id] = "none"
    BY <1>14, RequestHead, HasHead DEF PeerReadsRequest, RequestsOnce
  <2> QED BY <1>1, <1>14, <2>1 DEF PeerReadsRequest, ourVars, callVars
<1>15. CASE PeerReadsCancel
  <2>1. Head(toPeer).id \in Calls
    BY <1>15, RequestHead DEF PeerReadsCancel
  <2> QED BY <1>1, <1>15, <2>1 DEF PeerReadsCancel, ourVars, callVars
<1>16. ASSUME NEW r \in Calls, PeerStarts(r) \/ PeerEmits(r) PROVE Promise
  BY <1>1, <1>16 DEF PeerStarts, PeerEmits, ourVars, callVars
<1>17. ASSUME NEW r \in Calls, PeerAnswers(r) PROVE Promise
  <2>1. srv[r] = "running" /\ UNCHANGED <<apc, outcome>>
    BY <1>17 DEF PeerAnswers, ourVars, callVars
  <2>2. CASE srv' = [srv EXCEPT ![r] = "failed"]
    BY <1>1, <2>1, <2>2
  <2>3. CASE srv' = [srv EXCEPT ![r] = "answered"]
    <3>1. Phase[r] # "idle" /\ ~ Served[r] /\ Phase' = Phase
      BY <2>1 DEF RequestsOnce
    <3>2. Served' = [Served EXCEPT ![r] = TRUE]
      BY <2>3
    <3>3. Remote!Serve(r)
      BY <3>1, <3>2 DEF Remote!Serve
    <3> QED BY <3>3 DEF Remote!Next
  <2> QED BY <1>17, <2>2, <2>3 DEF PeerAnswers
<1>18. CASE PeerPrints \/ PeerExits
  BY <1>1, <1>18 DEF PeerPrints, PeerExits, ourVars, callVars
<1> QED
  BY <1>4, <1>5, <1>6, <1>7, <1>8, <1>9, <1>10, <1>11, <1>13, <1>14, <1>15, <1>16, <1>17, <1>18
  DEF Next, CallerNext, ReaderNext, PeerNext, AllOver

\* The endpoint keeps the promises of RemoteCall: opened once, served at most
\* once, ended at most once, and well only if served.
THEOREM EndpointRefinesRemoteCall == Spec => ImplementsRemoteCall
  BY EndpointInvariant, EndpointInitRefines, EndpointStepRefines, PTL
  DEF Spec, ImplementsRemoteCall, Remote!Spec

=============================================================================
