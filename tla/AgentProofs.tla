----------------------------- MODULE AgentProofs -----------------------------
(***************************************************************************)
(* Safety of Agent for any goals, objectives, plans, limits and number of  *)
(* runs: what a run loads of the log, what closes an objective, and what   *)
(* a completed plan has behind it, for each of the three planners.         *)
(***************************************************************************)
EXTENDS Agent, FiniteSetTheorems, WellFoundedInduction, TLAPS

-----------------------------------------------------------------------------
(* The least and the greatest of a set of positions *)

LEMMA LeastExists ==
  ASSUME NEW S, S \subseteq Nat, S # {}
  PROVE  \E i \in S : \A j \in S : i <= j
<1>1. PICK i \in S : \A j \in S : ~ <<j, i>> \in OpToRel(<, Nat)
  BY NatLessThanWellFounded, WFMin
<1>2. \A j \in S : i <= j
  <2> SUFFICES ASSUME NEW j \in S, j < i PROVE FALSE
    OBVIOUS
  <2>1. <<j, i>> \in {ss \in Nat \X Nat : ss[1] < ss[2]}
    OBVIOUS
  <2>2. OpToRel(<, Nat) = {ss \in Nat \X Nat : ss[1] < ss[2]}
    BY DEF OpToRel
  <2>3. QED
    BY <1>1, <2>1, <2>2
<1>3. QED
  BY <1>2

LEMMA LeastIs ==
  ASSUME NEW S, S \subseteq Nat, S # {}
  PROVE  Least(S) \in S /\ \A j \in S : Least(S) <= j
BY LeastExists DEF Least

LEMMA GreatestIs ==
  ASSUME NEW n \in Nat, NEW S, S \subseteq 1 .. n, S # {}
  PROVE  Greatest(S) \in S /\ \A j \in S : Greatest(S) >= j
<1> DEFINE T == {n - i : i \in S}
<1>1. T \subseteq Nat /\ T # {}
  <2>1. \A i \in S : i \in 1 .. n /\ n - i \in Nat
    OBVIOUS
  <2>2. QED
    BY <2>1
<1>2. PICK t \in T : \A u \in T : t <= u
  BY <1>1, LeastExists
<1>3. PICK i \in S : t = n - i
  OBVIOUS
<1>4. \A j \in S : i >= j
  <2> TAKE j \in S
  <2>1. n - i <= n - j
    BY <1>2, <1>3
  <2>2. QED
    BY <2>1
<1>5. QED
  BY <1>4 DEF Greatest

-----------------------------------------------------------------------------
(* The orderings of tree-search *)

LEMMA ArrangementsFinite ==
  ASSUME NEW n \in Nat
  PROVE  IsFiniteSet(Arrangements(n)) /\ Cardinality(Arrangements(n)) \in Nat \ {0}
<1> DEFINE P == Arrangements(n)
           Pairs == (1 .. n) \X (1 .. n)
           graph == [p \in P |-> {<<i, p[i]>> : i \in 1 .. n}]
<1>1. IsFiniteSet(SUBSET Pairs)
  <2>1. IsFiniteSet(1 .. n)
    BY FS_Interval
  <2>2. QED
    BY <2>1, FS_Product, FS_SUBSET
<1>2. graph \in Injection(P, SUBSET Pairs)
  <2>1. graph \in [P -> SUBSET Pairs]
    BY DEF Arrangements
  <2>2. ASSUME NEW p \in P, NEW q \in P, graph[p] = graph[q]
        PROVE  p = q
    <3>1. ASSUME NEW i \in 1 .. n
          PROVE  p[i] = q[i]
      <4>1. <<i, p[i]>> \in graph[q]
        BY <2>2
      <4>2. QED
        BY <4>1
    <3>2. p \in [1 .. n -> 1 .. n] /\ q \in [1 .. n -> 1 .. n]
      BY DEF Arrangements
    <3>3. QED
      BY <3>1, <3>2
  <2>3. IsInjective(graph)
    BY <2>2 DEF IsInjective
  <2>4. QED
    BY <2>1, <2>3 DEF Injection
<1>3. IsFiniteSet(P)
  BY <1>1, <1>2, FS_Injection
<1>4. [i \in 1 .. n |-> i] \in P
  BY DEF Arrangements, IsInjective
<1>5. QED
  BY <1>3, <1>4, FS_CardinalityType, FS_EmptySet

-----------------------------------------------------------------------------
(* Plans that no failure was ever reported to *)

IsStep(s) ==
  /\ s = [text |-> s.text, status |-> s.status, depth |-> s.depth]
  /\ s.status \in {"pending", "active", "done"}

IsBranch(b) ==
  /\ b = [steps |-> b.steps, score |-> b.score]
  /\ b.score \in Int
  /\ \E n \in Nat : /\ DOMAIN b.steps = 1 .. n
                    /\ b.steps = [i \in 1 .. n |-> b.steps[i]]
  /\ \A i \in DOMAIN b.steps : IsStep(b.steps[i])

\* A branch has one step under way at most.
OneActive(b) == \A i, j \in With(b, "active") : i = j

\* The texts of planning/recursive are parts already.
Split(b) == \A i \in DOMAIN b.steps : Clauses[b.steps[i].text] = <<b.steps[i].text>>

\* The active branch alone has a step under way.
PlanOK(plan) ==
  /\ plan = [kind |-> plan.kind, active |-> plan.active, branches |-> plan.branches]
  /\ \E n \in Nat \ {0} : /\ DOMAIN plan.branches = 1 .. n
                          /\ plan.branches = [k \in 1 .. n |-> plan.branches[k]]
  /\ plan.active \in DOMAIN plan.branches
  /\ \A k \in DOMAIN plan.branches : IsBranch(plan.branches[k]) /\ OneActive(plan.branches[k])
  /\ \A k \in DOMAIN plan.branches : k # plan.active => With(plan.branches[k], "active") = {}
  /\ plan.kind = "recursive" => /\ DOMAIN plan.branches = {1}
                                /\ \A k \in DOMAIN plan.branches : Split(plan.branches[k])

AllDone(b) == \A i \in DOMAIN b.steps : b.steps[i].status = "done"

\* A step of a branch changes its status.
SetStep(b, i, st, sc) == [[b EXCEPT !.steps[i].status = st] EXCEPT !.score = sc]

LEMMA SetStepIs ==
  ASSUME NEW b, IsBranch(b), NEW i \in DOMAIN b.steps,
         NEW st \in {"pending", "active", "done"}, NEW sc \in Int
  PROVE  /\ IsBranch(SetStep(b, i, st, sc))
         /\ DOMAIN SetStep(b, i, st, sc).steps = DOMAIN b.steps
         /\ SetStep(b, i, st, sc).steps[i].status = st
         /\ SetStep(b, i, st, sc).steps[i].text = b.steps[i].text
         /\ \A j \in DOMAIN b.steps : j # i => SetStep(b, i, st, sc).steps[j] = b.steps[j]
<1>1. PICK n \in Nat : DOMAIN b.steps = 1 .. n /\ b.steps = [j \in 1 .. n |-> b.steps[j]]
  BY DEF IsBranch
<1>2. b = [steps |-> b.steps, score |-> b.score]
  BY DEF IsBranch
<1>3. b.steps[i] = [text |-> b.steps[i].text, status |-> b.steps[i].status, depth |-> b.steps[i].depth]
  BY DEF IsBranch, IsStep
<1> DEFINE s == [b.steps[i] EXCEPT !.status = st]
           x == [b.steps EXCEPT ![i] = s]
           c == SetStep(b, i, st, sc)
<1>4. /\ s = [text |-> s.text, status |-> s.status, depth |-> s.depth]
      /\ s.status = st /\ s.text = b.steps[i].text
  BY <1>3
<1> HIDE DEF s
<1>5. x = [j \in 1 .. n |-> IF j = i THEN s ELSE b.steps[j]]
  BY <1>1
<1>6. c = [steps |-> x, score |-> sc]
  <2>1. [b EXCEPT !.steps[i].status = st] = [b EXCEPT !.steps = x]
    BY DEF s
  <2>2. [b EXCEPT !.steps = x] = [steps |-> x, score |-> b.score]
    BY <1>2
  <2>3. c = [[b EXCEPT !.steps = x] EXCEPT !.score = sc]
    BY <2>1 DEF SetStep
  <2> HIDE DEF x, c
  <2>4. [[steps |-> x, score |-> b.score] EXCEPT !.score = sc] = [steps |-> x, score |-> sc]
    OBVIOUS
  <2>5. QED
    BY <2>2, <2>3, <2>4
<1> HIDE DEF x, c
<1>7. c.steps = x /\ c.score = sc /\ c = [steps |-> c.steps, score |-> c.score]
  BY <1>6
<1>8. DOMAIN c.steps = 1 .. n /\ \A j \in 1 .. n : c.steps[j] = IF j = i THEN s ELSE b.steps[j]
  BY <1>5, <1>7
<1>9. IsStep(s) /\ \A j \in 1 .. n : IsStep(b.steps[j])
  BY <1>1, <1>4 DEF IsBranch, IsStep
<1>10. \A j \in 1 .. n : IsStep(c.steps[j])
  BY <1>8, <1>9
<1>11. c.steps = [j \in 1 .. n |-> c.steps[j]]
  BY <1>5, <1>7
<1>12. IsBranch(c)
  BY <1>7, <1>8, <1>10, <1>11 DEF IsBranch
<1>13. QED
  BY <1>1, <1>4, <1>8, <1>12 DEF c

\* The step under way is done.
LEMMA ResolveIs ==
  ASSUME NEW b, IsBranch(b), OneActive(b)
  PROVE  /\ IsBranch(Resolve(b, FALSE)) /\ With(Resolve(b, FALSE), "active") = {}
         /\ Split(b) => Split(Resolve(b, FALSE))
<1>1. CASE With(b, "active") = {}
  <2>1. Resolve(b, FALSE) = b
    BY <1>1 DEF Resolve
  <2>2. QED
    BY <1>1, <2>1
<1>2. CASE With(b, "active") # {}
  <2>1. With(b, "active") \subseteq DOMAIN b.steps /\ DOMAIN b.steps \subseteq Nat
    BY DEF With, IsBranch
  <2>2. PICK i \in With(b, "active") : i = Least(With(b, "active"))
    BY <1>2, <2>1, LeastIs
  <2>3. PICK sc \in Int : sc = b.score + 1
    BY DEF IsBranch
  <2>4. Resolve(b, FALSE) = SetStep(b, i, "done", sc)
    BY <1>2, <2>2, <2>3 DEF Resolve, SetStep
  <2> DEFINE c == SetStep(b, i, "done", sc)
  <2> HIDE DEF c
  <2>5. /\ IsBranch(c) /\ DOMAIN c.steps = DOMAIN b.steps
        /\ c.steps[i].status = "done" /\ c.steps[i].text = b.steps[i].text
        /\ \A j \in DOMAIN b.steps : j # i => c.steps[j] = b.steps[j]
    BY <2>1, <2>2, SetStepIs DEF c
  <2>6. With(c, "active") = {}
    BY <2>2, <2>5 DEF With, OneActive
  <2>7. Split(b) => Split(c)
    BY <2>5 DEF Split
  <2>8. QED
    BY <2>4, <2>5, <2>6, <2>7 DEF c
<1>3. QED
  BY <1>1, <1>2

-----------------------------------------------------------------------------
(* What next makes of a plan *)

\* Of branches with integer scores there is a best.
LEMMA BestExists ==
  ASSUME NEW branches, NEW m \in Nat, NEW open, open \subseteq 1 .. m, open # {},
         \A k \in open : branches[k].score \in Int
  PROVE  \E k \in open : \A j \in open : Better(branches, k, j)
<1> DEFINE Above(k) == {j \in open : ~ Better(branches, k, j)}
           sizes == {Cardinality(Above(k)) : k \in open}
<1>1. IsFiniteSet(open)
  <2>1. IsFiniteSet(1 .. m)
    BY FS_Interval
  <2>2. QED
    BY <2>1, FS_Subset
<1>2. \A k \in open : IsFiniteSet(Above(k)) /\ Cardinality(Above(k)) \in Nat
  <2>1. \A k \in open : Above(k) \subseteq open
    OBVIOUS
  <2>2. \A k \in open : IsFiniteSet(Above(k))
    BY <1>1, <2>1, FS_Subset
  <2>3. QED
    BY <2>2, FS_CardinalityType
<1>3. ASSUME NEW k \in open, NEW j \in open, j \in Above(k)
      PROVE  Above(j) \subseteq Above(k) /\ j \notin Above(j)
  <2>1. ASSUME NEW x \in open, NEW y \in open
        PROVE  /\ branches[x].score \in Int /\ x \in Int
               /\ Better(branches, x, y) <=>
                    ((branches[x].score > branches[y].score) \/ (branches[x].score = branches[y].score /\ x >= y))
    BY DEF Better
  <2>2. ~ Better(branches, k, j) /\ Better(branches, j, j)
    BY <1>3, <2>1
  <2>3. ASSUME NEW i \in open, ~ Better(branches, j, i)
        PROVE  ~ Better(branches, k, i)
    BY <2>1, <2>2, <2>3
  <2>4. QED
    BY <2>2, <2>3
<1> HIDE DEF Above
<1>4. PICK n \in sizes : \A x \in sizes : n <= x
  <2>1. sizes \subseteq Nat /\ sizes # {}
    BY <1>2
  <2>2. QED
    BY <2>1, LeastExists
<1>5. PICK k \in open : n = Cardinality(Above(k))
  BY <1>4
<1>6. ASSUME NEW j \in open, j \in Above(k)
      PROVE  FALSE
  <2>1. Above(j) \subseteq Above(k) /\ Above(j) # Above(k)
    BY <1>3, <1>6
  <2>2. Cardinality(Above(j)) < Cardinality(Above(k))
    BY <1>2, <2>1, FS_Subset
  <2>3. Cardinality(Above(k)) <= Cardinality(Above(j))
    BY <1>4, <1>5
  <2>4. Cardinality(Above(k)) \in Nat /\ Cardinality(Above(j)) \in Nat
    BY <1>2
  <2>5. QED
    BY <2>2, <2>3, <2>4
<1>7. QED
  BY <1>6 DEF Above

Resolved(plan) == [plan EXCEPT !.branches[plan.active] = Resolve(plan.branches[plan.active], FALSE)]

\* No branch has a step under way.
Quiet(plan) == \A k \in DOMAIN plan.branches : With(plan.branches[k], "active") = {}

LEMMA ResolvedIs ==
  ASSUME NEW plan, PlanOK(plan)
  PROVE  PlanOK(Resolved(plan)) /\ Quiet(Resolved(plan)) /\ Resolved(plan).kind = plan.kind
<1> DEFINE a == plan.active
           b == plan.branches[a]
           c == Resolve(b, FALSE)
           bs == [plan.branches EXCEPT ![a] = c]
           now == Resolved(plan)
<1>1. /\ a \in DOMAIN plan.branches /\ IsBranch(b) /\ OneActive(b)
      /\ plan = [kind |-> plan.kind, active |-> a, branches |-> plan.branches]
  BY DEF PlanOK
<1>2. IsBranch(c) /\ With(c, "active") = {} /\ (Split(b) => Split(c))
  BY <1>1, ResolveIs
<1>3. PICK n \in Nat \ {0} : DOMAIN plan.branches = 1 .. n /\ plan.branches = [k \in 1 .. n |-> plan.branches[k]]
  BY DEF PlanOK
<1> HIDE DEF c
<1>4. now = [plan EXCEPT !.branches = bs]
  BY DEF Resolved, c
<1>5. bs = [k \in 1 .. n |-> IF k = a THEN c ELSE plan.branches[k]]
  BY <1>1, <1>3
<1> HIDE DEF bs, now
<1>6. now = [kind |-> plan.kind, active |-> a, branches |-> bs]
  BY <1>1, <1>4
<1>7. /\ now.kind = plan.kind /\ now.active = a /\ now.branches = bs
      /\ now = [kind |-> now.kind, active |-> now.active, branches |-> now.branches]
  BY <1>6
<1>8. /\ DOMAIN bs = 1 .. n /\ bs = [k \in 1 .. n |-> bs[k]]
      /\ \A k \in 1 .. n : bs[k] = IF k = a THEN c ELSE plan.branches[k]
  BY <1>5
<1>9. \A k \in 1 .. n : IsBranch(bs[k]) /\ With(bs[k], "active") = {}
  BY <1>2, <1>3, <1>8 DEF PlanOK
<1>10. \A k \in 1 .. n : OneActive(bs[k])
  BY <1>9 DEF OneActive
<1>11. plan.kind = "recursive" => (1 .. n = {1} /\ \A k \in 1 .. n : Split(bs[k]))
  BY <1>1, <1>2, <1>3, <1>8 DEF PlanOK
<1>12. PlanOK(now)
  BY <1>1, <1>3, <1>7, <1>8, <1>9, <1>10, <1>11 DEF PlanOK
<1>13. Quiet(now)
  BY <1>7, <1>8, <1>9 DEF Quiet
<1>14. QED
  BY <1>7, <1>12, <1>13 DEF now

LEMMA ActivateIs ==
  ASSUME NEW plan, PlanOK(plan), Quiet(plan),
         NEW k \in DOMAIN plan.branches, NEW i \in DOMAIN plan.branches[k].steps
  PROVE  PlanOK(Activate(plan, k, i).plan) /\ Activate(plan, k, i).step # NoStep
<1> DEFINE b == plan.branches[k]
           c == SetStep(b, i, "active", b.score)
           bs == [plan.branches EXCEPT ![k] = c]
           then == Activate(plan, k, i).plan
<1>1. /\ IsBranch(b) /\ With(b, "active") = {}
      /\ plan = [kind |-> plan.kind, active |-> plan.active, branches |-> plan.branches]
  BY DEF PlanOK, Quiet
<1>2. PICK n \in Nat \ {0} : DOMAIN plan.branches = 1 .. n /\ plan.branches = [j \in 1 .. n |-> plan.branches[j]]
  BY DEF PlanOK
<1>3. /\ IsBranch(c) /\ DOMAIN c.steps = DOMAIN b.steps /\ c.steps[i].text = b.steps[i].text
      /\ \A j \in DOMAIN b.steps : j # i => c.steps[j] = b.steps[j]
  <2>1. b.score \in Int
    BY <1>1 DEF IsBranch
  <2>2. QED
    BY <1>1, <2>1, SetStepIs
<1>4. With(c, "active") \subseteq {i} /\ (Split(b) => Split(c))
  <2> HIDE DEF c
  <2>1. \A j \in DOMAIN b.steps : b.steps[j].status # "active"
    BY <1>1 DEF With
  <2>2. QED
    BY <1>3, <2>1 DEF With, Split
<1>5. [b EXCEPT !.steps[i].status = "active"] = c
  <2> DEFINE d == [b EXCEPT !.steps[i].status = "active"]
             x == [b.steps EXCEPT ![i] = [b.steps[i] EXCEPT !.status = "active"]]
  <2>1. b = [steps |-> b.steps, score |-> b.score]
    BY <1>1 DEF IsBranch
  <2>2. d = [b EXCEPT !.steps = x]
    OBVIOUS
  <2>3. c = [d EXCEPT !.score = b.score]
    BY DEF SetStep
  <2> HIDE DEF x, d, c
  <2>4. [b EXCEPT !.steps = x] = [steps |-> x, score |-> b.score]
    BY <2>1
  <2>5. [[steps |-> x, score |-> b.score] EXCEPT !.score = b.score] = [steps |-> x, score |-> b.score]
    OBVIOUS
  <2>6. QED
    BY <2>2, <2>3, <2>4, <2>5 DEF d
<1> HIDE DEF c
<1>6. then = [kind |-> plan.kind, active |-> k, branches |-> bs]
  <2>1. then = [plan EXCEPT !.active = k, !.branches[k].steps[i].status = "active"]
    BY DEF Activate
  <2>2. then = [[plan EXCEPT !.active = k] EXCEPT !.branches[k].steps[i].status = "active"]
    BY <2>1
  <2>3. [plan EXCEPT !.active = k] = [kind |-> plan.kind, active |-> k, branches |-> plan.branches]
    BY <1>1
  <2> DEFINE p == [kind |-> plan.kind, active |-> k, branches |-> plan.branches]
  <2>4. p.branches = plan.branches
    OBVIOUS
  <2>5. then = [p EXCEPT !.branches[k].steps[i].status = "active"]
    BY <2>2, <2>3
  <2> HIDE DEF p, then
  <2>6. then = [p EXCEPT !.branches = [p.branches EXCEPT ![k] = [p.branches[k] EXCEPT !.steps[i].status = "active"]]]
    BY <2>5
  <2>7. [p.branches EXCEPT ![k] = [p.branches[k] EXCEPT !.steps[i].status = "active"]] = bs
    BY <1>5, <2>4
  <2> HIDE DEF bs
  <2>8. then = [p EXCEPT !.branches = bs]
    BY <2>6, <2>7
  <2>9. QED
    BY <2>8 DEF p
<1>7. bs = [j \in 1 .. n |-> IF j = k THEN c ELSE plan.branches[j]]
  BY <1>2
<1> HIDE DEF bs, then
<1>8. /\ then.kind = plan.kind /\ then.active = k /\ then.branches = bs
      /\ then = [kind |-> then.kind, active |-> then.active, branches |-> then.branches]
  BY <1>6
<1>9. /\ DOMAIN bs = 1 .. n /\ bs = [j \in 1 .. n |-> bs[j]]
      /\ \A j \in 1 .. n : bs[j] = IF j = k THEN c ELSE plan.branches[j]
  BY <1>7
<1>10. \A j \in 1 .. n : IsBranch(bs[j]) /\ (j # k => With(bs[j], "active") = {})
  BY <1>2, <1>3, <1>9 DEF PlanOK, Quiet
<1>11. \A j \in 1 .. n : OneActive(bs[j])
  BY <1>4, <1>9, <1>10 DEF OneActive
<1>12. plan.kind = "recursive" => (1 .. n = {1} /\ \A j \in 1 .. n : Split(bs[j]))
  BY <1>2, <1>4, <1>9 DEF PlanOK
<1>13. PlanOK(then)
  BY <1>2, <1>8, <1>9, <1>10, <1>11, <1>12 DEF PlanOK
<1>14. Activate(plan, k, i).step # NoStep
  <2>1. Activate(plan, k, i).step = [branch |-> k, step |-> i] /\ k # 0
    BY <1>2 DEF Activate
  <2>2. QED
    BY <2>1 DEF NoStep
<1>15. QED
  BY <1>13, <1>14 DEF then

\* A part is not expanded any more.
LEMMA ExpandIs ==
  ASSUME NEW b, IsBranch(b), Split(b), NEW i \in DOMAIN b.steps
  PROVE  Expand(b, i) = b
<1> DEFINE s == b.steps[i]
           subs == [j \in DOMAIN Clauses[s.text] |-> Step(Clauses[s.text][j], s.depth + 1)]
<1>1. Clauses[s.text] = <<s.text>>
  BY DEF Split
<1>2. DOMAIN <<s.text>> = 1 .. 1
  OBVIOUS
<1>3. subs = [j \in 1 .. 1 |-> Step(Clauses[s.text][j], s.depth + 1)]
  BY <1>1, <1>2
<1> HIDE DEF s
<1>4. Len([j \in 1 .. 1 |-> Step(Clauses[s.text][j], s.depth + 1)]) = 1
  OBVIOUS
<1> HIDE DEF subs
<1>5. Len(subs) = 1
  BY <1>3, <1>4
<1>6. ~ (Len(subs) > 1)
  BY <1>5
<1>7. QED
  BY <1>6 DEF Expand, s, subs

\* A plan stays one, and ends only when a branch is walked to its end.
LEMMA NextIs ==
  ASSUME NEW plan, PlanOK(plan)
  PROVE  /\ PlanOK(Next(plan, FALSE).plan)
         /\ Next(plan, FALSE).step = NoStep =>
              \E k \in DOMAIN Next(plan, FALSE).plan.branches : AllDone(Next(plan, FALSE).plan.branches[k])
<1> DEFINE now == Resolved(plan)
           open == {k \in DOMAIN now.branches : With(now.branches[k], "pending") # {}}
           best == CHOOSE k \in open : \A j \in open : Better(now.branches, k, j)
           first == Least(With(now.branches[best], "pending"))
           expanded == [now EXCEPT !.branches[1] = Expand(@, first)]
<1>1. PlanOK(now) /\ Quiet(now) /\ now.kind = plan.kind
  BY ResolvedIs
<1>2. Next(plan, FALSE) = IF open = {} THEN [plan |-> now, step |-> NoStep]
                          ELSE IF plan.kind = "recursive" THEN Activate(expanded, 1, first)
                          ELSE Activate(now, best, first)
  BY DEF Next, Resolved
<1>3. PICK n \in Nat \ {0} : DOMAIN now.branches = 1 .. n /\ now.branches = [k \in 1 .. n |-> now.branches[k]]
  BY <1>1 DEF PlanOK
<1>4. \A k \in 1 .. n : IsBranch(now.branches[k]) /\ With(now.branches[k], "active") = {}
  BY <1>1, <1>3 DEF PlanOK, Quiet
<1> HIDE DEF now
<1>5. CASE open = {}
  <2>1. With(now.branches[1], "pending") = {} /\ 1 \in DOMAIN now.branches
    BY <1>3, <1>5
  <2>2. AllDone(now.branches[1])
    <3>1. IsBranch(now.branches[1]) /\ With(now.branches[1], "active") = {}
      BY <1>3, <1>4
    <3> DEFINE b == now.branches[1]
    <3> HIDE DEF b
    <3>2. IsBranch(b) /\ With(b, "active") = {} /\ With(b, "pending") = {}
      BY <2>1, <3>1 DEF b
    <3>3. AllDone(b)
      BY <3>2 DEF AllDone, With, IsBranch, IsStep
    <3>4. QED
      BY <3>3 DEF b
  <2> HIDE DEF open, best, first, expanded
  <2>3. Next(plan, FALSE) = [plan |-> now, step |-> NoStep]
    BY <1>2, <1>5
  <2>4. Next(plan, FALSE).plan = now
    <3>1. [plan |-> now, step |-> NoStep].plan = now
      OBVIOUS
    <3>2. QED
      BY <2>3, <3>1, Zenon
  <2>5. QED
    BY <1>1, <2>1, <2>2, <2>4
<1>6. CASE open # {}
  <2>1. best \in open
    <3>1. open \subseteq 1 .. n
      BY <1>3
    <3>2. \A k \in open : now.branches[k].score \in Int
      BY <1>4, <3>1 DEF IsBranch
    <3> HIDE DEF open
    <3>3. \E k \in open : \A j \in open : Better(now.branches, k, j)
      BY <1>3, <1>6, <3>1, <3>2, BestExists
    <3>4. QED
      BY <3>3
  <2> HIDE DEF best
  <2>2. best \in 1 .. n /\ With(now.branches[best], "pending") # {}
    BY <1>3, <2>1
  <2>3. first \in DOMAIN now.branches[best].steps
    <3>1. With(now.branches[best], "pending") \subseteq DOMAIN now.branches[best].steps
      BY DEF With
    <3>2. DOMAIN now.branches[best].steps \subseteq Nat
      <4>1. IsBranch(now.branches[best])
        BY <1>4, <2>2
      <4>2. QED
        BY <4>1 DEF IsBranch
    <3>3. QED
      BY <2>2, <3>1, <3>2, LeastIs
  <2> HIDE DEF first
  <2>4. CASE plan.kind = "recursive"
    <3>1. best = 1 /\ Split(now.branches[1])
      BY <1>1, <1>3, <2>2, <2>4 DEF PlanOK
    <3>2. Expand(now.branches[1], first) = now.branches[1]
      BY <1>4, <2>2, <2>3, <3>1, ExpandIs
    <3>3. expanded = now
      <4>1. now = [kind |-> now.kind, active |-> now.active, branches |-> now.branches]
        BY <1>1 DEF PlanOK
      <4>2. expanded = [now EXCEPT !.branches = [now.branches EXCEPT ![1] = Expand(now.branches[1], first)]]
        OBVIOUS
      <4>3. [now.branches EXCEPT ![1] = now.branches[1]] = now.branches
        BY <1>3
      <4>4. [now EXCEPT !.branches = now.branches] = now
        BY <4>1
      <4> HIDE DEF expanded
      <4>5. QED
        BY <3>2, <4>2, <4>3, <4>4
    <3> HIDE DEF expanded, open
    <3>4. Next(plan, FALSE) = Activate(now, 1, first)
      BY <1>2, <1>6, <2>4, <3>3
    <3>5. PlanOK(Activate(now, 1, first).plan) /\ Activate(now, 1, first).step # NoStep
      BY <1>1, <1>3, <2>2, <2>3, <3>1, ActivateIs
    <3>6. QED
      BY <3>4, <3>5
  <2>5. CASE plan.kind # "recursive"
    <3> HIDE DEF expanded, open
    <3>1. Next(plan, FALSE) = Activate(now, best, first)
      BY <1>2, <1>6, <2>5
    <3>2. PlanOK(Activate(now, best, first).plan) /\ Activate(now, best, first).step # NoStep
      BY <1>1, <1>3, <2>2, <2>3, ActivateIs
    <3>3. QED
      BY <3>1, <3>2
  <2>6. QED
    BY <2>4, <2>5
<1>7. QED
  BY <1>5, <1>6

\* A plan begins as one.
LEMMA PlanIs ==
  ASSUME NEW kind \in {"default", "recursive", "tree-search"}, NEW goal \in DOMAIN Clauses
  PROVE  PlanOK(Plan(kind, goal))
<1> DEFINE parts == Clauses[goal]
           n == Len(parts)
           orders == IF kind = "tree-search" THEN Orderings(n) ELSE <<[i \in DOMAIN parts |-> i]>>
           bs == [b \in DOMAIN orders |-> Branch([i \in DOMAIN parts |-> Step(parts[orders[b][i]], 0)])]
           plan == Plan(kind, goal)
<1>1. parts \in Seq(DOMAIN Clauses) /\ n \in Nat /\ DOMAIN parts = 1 .. n
  BY ClausesAssumption
<1>2. plan = [kind |-> kind, active |-> 1, branches |-> bs]
  BY DEF Plan
<1>3. \E m \in Nat \ {0} : DOMAIN orders = 1 .. m /\ (kind # "tree-search" => m = 1)
  <2>1. CASE kind = "tree-search"
    <3> DEFINE k == Cardinality(Arrangements(n))
    <3>1. k \in Nat \ {0}
      BY <1>1, ArrangementsFinite
    <3>2. DOMAIN Orderings(n) = 1 .. (IF k < MaxBranches THEN k ELSE MaxBranches)
      BY DEF Orderings
    <3> HIDE DEF k
    <3>3. QED
      BY <2>1, <3>1, <3>2, BranchesAssumption
  <2>2. CASE kind # "tree-search"
    BY <2>2
  <2>3. QED
    BY <2>1, <2>2
<1>4. PICK m \in Nat \ {0} : DOMAIN orders = 1 .. m /\ (kind # "tree-search" => m = 1)
  BY <1>3
<1>5. kind # "tree-search" => \A i \in 1 .. n : orders[1][i] = i
  BY <1>1
<1> HIDE DEF orders, parts, n
<1>6. \A b \in 1 .. m : /\ bs[b].steps = [i \in 1 .. n |-> Step(parts[orders[b][i]], 0)]
                        /\ bs[b] = [steps |-> bs[b].steps, score |-> bs[b].score] /\ bs[b].score = 0
  BY <1>1, <1>4 DEF Branch
<1>7. DOMAIN bs = 1 .. m /\ bs = [b \in 1 .. m |-> bs[b]]
  BY <1>4
<1> HIDE DEF bs
<1>8. ASSUME NEW b \in 1 .. m
      PROVE  /\ IsBranch(bs[b]) /\ With(bs[b], "active") = {}
             /\ DOMAIN bs[b].steps = 1 .. n
             /\ \A i \in 1 .. n : bs[b].steps[i].text = parts[orders[b][i]]
  <2> DEFINE c == bs[b]
  <2> HIDE DEF c
  <2>0. /\ c.steps = [i \in 1 .. n |-> Step(parts[orders[b][i]], 0)]
        /\ c = [steps |-> c.steps, score |-> c.score] /\ c.score = 0
    BY <1>6 DEF c
  <2>1. DOMAIN c.steps = 1 .. n /\ \A i \in 1 .. n : c.steps[i] = Step(parts[orders[b][i]], 0)
    BY <2>0
  <2>2. \A t : IsStep(Step(t, 0)) /\ Step(t, 0).status = "pending" /\ Step(t, 0).text = t
    BY DEF Step, IsStep
  <2>3. \A i \in 1 .. n : /\ IsStep(c.steps[i]) /\ c.steps[i].status = "pending"
                          /\ c.steps[i].text = parts[orders[b][i]]
    BY <2>1, <2>2
  <2>4. c.steps = [i \in 1 .. n |-> c.steps[i]]
    BY <2>0
  <2>5. c.score \in Int
    BY <2>0
  <2>6. IsBranch(c)
    BY <1>1, <2>0, <2>1, <2>3, <2>4, <2>5 DEF IsBranch
  <2>7. With(c, "active") = {}
    BY <2>1, <2>3 DEF With
  <2>8. QED
    BY <2>1, <2>3, <2>6, <2>7 DEF c
<1>9. kind = "recursive" => 1 .. m = {1} /\ \A b \in 1 .. m : Split(bs[b])
  <2> SUFFICES ASSUME kind = "recursive"
               PROVE  1 .. m = {1} /\ Split(bs[1])
    OBVIOUS
  <2>1. m = 1
    BY <1>4
  <2>2. ASSUME NEW i \in 1 .. n
        PROVE  Clauses[bs[1].steps[i].text] = <<bs[1].steps[i].text>>
    <3>1. bs[1].steps[i].text = parts[i]
      BY <1>5, <1>8, <2>1
    <3>2. Clauses[parts[i]] = <<parts[i]>>
      BY <1>1, ClausesAssumption DEF parts
    <3>3. QED
      BY <3>1, <3>2
  <2>3. Split(bs[1])
    <3>1. DOMAIN bs[1].steps = 1 .. n
      BY <1>8, <2>1
    <3>2. QED
      BY <2>2, <3>1 DEF Split
  <2>4. QED
    BY <2>1, <2>3
<1> HIDE DEF plan
<1>10. /\ plan.kind = kind /\ plan.active = 1 /\ plan.branches = bs
       /\ plan = [kind |-> plan.kind, active |-> plan.active, branches |-> plan.branches]
  BY <1>2
<1>11. \A b \in 1 .. m : OneActive(bs[b])
  BY <1>8 DEF OneActive
<1>12. PlanOK(plan)
  BY <1>4, <1>7, <1>8, <1>9, <1>10, <1>11 DEF PlanOK
<1>13. QED
  BY <1>12 DEF plan

\* A complete plan has a branch that is walked to its end.
LEMMA CompleteIs ==
  ASSUME NEW plan, PlanOK(plan), IsComplete(plan)
  PROVE  \E k \in DOMAIN plan.branches : AllDone(plan.branches[k])
<1>1. PICK n \in Nat \ {0} : DOMAIN plan.branches = 1 .. n
  BY DEF PlanOK
<1>2. 1 \in DOMAIN plan.branches /\ IsBranch(plan.branches[1])
  BY <1>1 DEF PlanOK
<1>3. With(plan.branches[1], "failed") = {}
  <2> DEFINE b == plan.branches[1]
  <2> HIDE DEF b
  <2>1. IsBranch(b)
    BY <1>2 DEF b
  <2>2. \A i \in DOMAIN b.steps : b.steps[i].status # "failed"
    BY <2>1 DEF IsBranch, IsStep
  <2>3. QED
    BY <2>2 DEF With, b
<1>4. QED
  BY <1>2, <1>3 DEF IsComplete, AllDone

-----------------------------------------------------------------------------
(* The inductive invariant *)

Going == ~ At("idle")

IsRun(r) ==
  r = [at |-> r.at, goal |-> r.goal, idx |-> r.idx, iter |-> r.iter, fails |-> r.fails, base |-> r.base,
       msgs |-> r.msgs, calls |-> r.calls, results |-> r.results, error |-> r.error,
       plan |-> r.plan, seen |-> r.seen, status |-> r.status]

\* A turn has begun once the run is past its first top.
RunShape ==
  Going => /\ IsRun(run) /\ run.iter \in Nat
           /\ run.at \in {"generate", "act", "verify"} => run.iter > 0

\* Only the default loop plans, and what it holds is a plan; nothing is called
\* completed before the run closes.
PlanKept ==
  /\ planner \in PlannerKinds \cup {NoPlan}
  /\ Going => /\ loop = "autonomous" => ~ Planned
              /\ Planned => PlanOK(run.plan)
              /\ At("verify") => loop = "autonomous"
              /\ ~ At("close") => run.status = "failed"

\* Until something is done for an objective, the tree holds nothing the
\* baseline does not.
BaseKept ==
  /\ dirty \subseteq Paths
  /\ Going /\ run.base # NoGit /\ "touched" \notin done => dirty \subseteq run.base

Kinds == {"user", "assistant", "compaction"}
Marker(i) == log[i].kind = "compaction"

\* A marker covers what was said since the one before it.
LogKept ==
  /\ log \in Seq([kind : Kinds, covers : SUBSET Nat])
  /\ \A m \in 1 .. Len(log) : Marker(m) =>
        \A j \in 1 .. m - 1 : (\A k \in j .. m - 1 : ~ Marker(k)) => j \in log[m].covers

AgentInv == RunShape /\ PlanKept /\ BaseKept /\ LogKept /\ PlanIsWalked /\ HistoryIsKept

-----------------------------------------------------------------------------
(* The steps of a run *)

\* What every step of a run but its first and its last does.
Work ==
  /\ UNCHANGED <<loop, planner, log>>
  /\ RunShape' /\ PlanKept' /\ BaseKept' /\ PlanIsWalked'
  /\ ~ (At("top") /\ run.iter = 0)'

\* A step that leaves the plan, the baseline and the tree alone.
LEMMA TurnWorks ==
  ASSUME RunShape, PlanKept, BaseKept, Going,
         UNCHANGED <<loop, planner, log, dirty, done>>,
         IsRun(run'), run'.at # "idle", run'.iter \in Nat, run'.at # "close" => run'.iter > 0,
         run'.plan = run.plan, run'.base = run.base,
         run'.at # "close" => run'.status = "failed",
         run'.at = "verify" => loop = "autonomous",
         run'.at = "close" /\ run'.status = "completed" => ~ Planned
  PROVE  Work
<1>1. RunShape'
  BY DEF RunShape, Going, At
<1>2. PlanKept'
  BY DEF PlanKept, Going, At, Planned
<1>3. BaseKept'
  BY DEF BaseKept, Going, At
<1>4. PlanIsWalked'
  BY DEF PlanIsWalked, At, Planned
<1>5. QED
  BY <1>1, <1>2, <1>3, <1>4 DEF Work, At

LEMMA RecoverIs ==
  ASSUME RunShape, Going, NEW said, Recover(said)
  PROVE  /\ IsRun(run') /\ run'.at \in {"top", "close"} /\ run'.iter = run.iter
         /\ run'.plan = run.plan /\ run'.base = run.base /\ run'.status = run.status
<1> DEFINE r == [NextTurn EXCEPT !.fails = @ + 1, !.msgs = @ \o said]
<1>1. IsRun(run)
  BY DEF RunShape
<1>2. /\ IsRun(r) /\ r.iter = run.iter /\ r.plan = run.plan /\ r.base = run.base /\ r.status = run.status
  <2>1. PICK n : n = NextTurn
    OBVIOUS
  <2>2. n = [run EXCEPT !.calls = 0, !.results = {}, !.error = FALSE]
    BY <2>1 DEF NextTurn
  <2>3. IsRun(n) /\ n.iter = run.iter /\ n.plan = run.plan /\ n.base = run.base /\ n.status = run.status
    BY <1>1, <2>2 DEF IsRun
  <2>4. r = [n EXCEPT !.fails = @ + 1, !.msgs = @ \o said]
    BY <2>1
  <2> HIDE DEF r
  <2>5. QED
    BY <2>3, <2>4 DEF IsRun
<1>3. run' = IF r.fails >= MaxFailures THEN [r EXCEPT !.at = "close"]
             ELSE [r EXCEPT !.at = "top", !.msgs = @ \o Say(1)]
  BY DEF Recover
<1> HIDE DEF r
<1>4. CASE r.fails >= MaxFailures
  <2>1. run' = [r EXCEPT !.at = "close"]
    BY <1>3, <1>4
  <2>2. QED
    BY <1>2, <2>1 DEF IsRun
<1>5. CASE ~ (r.fails >= MaxFailures)
  <2>1. run' = [r EXCEPT !.at = "top", !.msgs = @ \o Say(1)]
    BY <1>3, <1>5
  <2>2. QED
    BY <1>2, <2>1 DEF IsRun
<1>6. QED
  BY <1>4, <1>5

LEMMA RecoverWorks ==
  ASSUME AgentInv, At("generate") \/ At("act") \/ At("verify"), NEW said, Recover(said),
         UNCHANGED <<loop, planner, log, dirty, done>>
  PROVE  Work
<1>1. /\ RunShape /\ PlanKept /\ BaseKept /\ Going /\ run.at # "close" /\ run.status = "failed"
      /\ run.iter \in Nat /\ run.iter > 0
  BY DEF AgentInv, RunShape, PlanKept, Going, At
<1>2. /\ IsRun(run') /\ run'.at \in {"top", "close"} /\ run'.iter = run.iter
      /\ run'.plan = run.plan /\ run'.base = run.base /\ run'.status = run.status
  BY <1>1, RecoverIs
<1>3. QED
  BY <1>1, <1>2, TurnWorks

LEMMA LoopTopWorks ==
  ASSUME AgentInv, NEW long \in BOOLEAN, LoopTop(long)
  PROVE  Work
<1>1. /\ RunShape /\ PlanKept /\ BaseKept /\ Going /\ run.status = "failed" /\ IsRun(run) /\ run.iter \in Nat
  BY DEF AgentInv, RunShape, PlanKept, Going, At, LoopTop
<1>2. run' = [run EXCEPT !.at = "generate", !.iter = @ + 1, !.msgs = IF long THEN Compacted(@) ELSE @]
  BY DEF LoopTop
<1>3. /\ IsRun(run') /\ run'.at = "generate" /\ run'.iter = run.iter + 1
      /\ run'.plan = run.plan /\ run'.base = run.base /\ run'.status = run.status
  BY <1>1, <1>2 DEF IsRun
<1>4. UNCHANGED <<loop, planner, log, dirty, done>>
  BY DEF LoopTop
<1>5. QED
  BY <1>1, <1>3, <1>4, TurnWorks

LEMMA OutOfIterationsWorks ==
  ASSUME AgentInv, OutOfIterations
  PROVE  Work
<1>1. /\ RunShape /\ PlanKept /\ BaseKept /\ Going /\ IsRun(run) /\ run.iter \in Nat
  BY DEF AgentInv, RunShape, PlanKept, Going, At, OutOfIterations
<1>2. run' = [run EXCEPT !.at = "close", !.status = "max_iterations"]
  BY DEF OutOfIterations, Finish
<1>3. /\ IsRun(run') /\ run'.at = "close" /\ run'.iter = run.iter
      /\ run'.plan = run.plan /\ run'.base = run.base /\ run'.status = "max_iterations"
  BY <1>1, <1>2 DEF IsRun
<1>4. UNCHANGED <<loop, planner, log, dirty, done>>
  BY DEF OutOfIterations
<1>5. QED
  BY <1>1, <1>3, <1>4, TurnWorks

LEMMA GenerateWorks ==
  ASSUME AgentInv, GenerateNothing \/ GenerateCalls \/ GenerateText
  PROVE  Work
<1>1. /\ RunShape /\ PlanKept /\ BaseKept /\ Going /\ IsRun(run) /\ run.iter \in Nat /\ run.iter > 0
      /\ run.status = "failed" /\ At("generate")
  BY DEF AgentInv, RunShape, PlanKept, Going, At, GenerateNothing, GenerateCalls, GenerateText
<1>2. UNCHANGED <<loop, planner, log, dirty, done>>
  BY DEF GenerateNothing, GenerateCalls, GenerateText
<1>3. CASE GenerateNothing
  <2>1. Recover(Say(1))
    BY <1>3 DEF GenerateNothing
  <2>2. QED
    BY <1>1, <1>2, <2>1, RecoverWorks
<1>4. CASE GenerateCalls
  <2>1. run' = [run EXCEPT !.at = "act", !.msgs = @ \o Say(1)]
    BY <1>4 DEF GenerateCalls
  <2>2. /\ IsRun(run') /\ run'.at = "act" /\ run'.iter = run.iter
        /\ run'.plan = run.plan /\ run'.base = run.base /\ run'.status = run.status
    BY <1>1, <2>1 DEF IsRun
  <2>3. QED
    BY <1>1, <1>2, <2>2, TurnWorks
<1>5. CASE GenerateText
  <2> DEFINE small == Objectives[run.goal] = <<>>
  <2>1. run' = [run EXCEPT !.at = IF small THEN "close" ELSE "verify", !.status = IF small THEN "completed" ELSE @,
                           !.fails = IF small THEN 0 ELSE @, !.msgs = @ \o Say(1)]
    BY <1>5 DEF GenerateText
  <2> HIDE DEF small
  <2>2. /\ IsRun(run') /\ run'.at \in {"verify", "close"} /\ run'.iter = run.iter
        /\ run'.plan = run.plan /\ run'.base = run.base
        /\ run'.at # "close" => run'.status = run.status
    BY <1>1, <2>1 DEF IsRun
  <2>3. loop = "autonomous" /\ ~ Planned
    BY <1>1, <1>5 DEF GenerateText, PlanKept
  <2>4. QED
    BY <1>1, <1>2, <2>2, <2>3, TurnWorks
<1>6. QED
  BY <1>3, <1>4, <1>5

LEMMA TurnEndsWorks ==
  ASSUME AgentInv, TurnEnds
  PROVE  Work
<1>1. /\ RunShape /\ PlanKept /\ BaseKept /\ Going /\ IsRun(run) /\ run.iter \in Nat /\ run.iter > 0
      /\ run.status = "failed" /\ At("act")
  BY DEF AgentInv, RunShape, PlanKept, Going, At, TurnEnds
<1>2. UNCHANGED <<loop, planner, log, dirty, done>>
  BY DEF TurnEnds
<1>3. CASE run.error
  <2>1. Recover(<<run.results>>)
    BY <1>3 DEF TurnEnds
  <2>2. QED
    BY <1>1, <1>2, <2>1, RecoverWorks
<1>4. CASE ~ run.error
  <2>1. run' = [NextTurn EXCEPT !.at = "top", !.fails = 0, !.msgs = @ \o <<run.results>>]
    BY <1>4 DEF TurnEnds
  <2>2. /\ IsRun(run') /\ run'.at = "top" /\ run'.iter = run.iter
        /\ run'.plan = run.plan /\ run'.base = run.base /\ run'.status = run.status
    BY <1>1, <2>1 DEF IsRun, NextTurn
  <2>3. QED
    BY <1>1, <1>2, <2>2, TurnWorks
<1>5. QED
  BY <1>3, <1>4

\* A tool leaves in the tree what it changed, and done tells of anything new.
LEMMA ObserveWorks ==
  ASSUME AgentInv, NEW shows, NEW error, NEW files, files \subseteq Paths, Observe(shows, error, files)
  PROVE  Work
<1>1. /\ RunShape /\ PlanKept /\ BaseKept /\ Going /\ IsRun(run) /\ run.iter \in Nat /\ run.iter > 0
      /\ run.status = "failed" /\ At("act")
  BY DEF AgentInv, RunShape, PlanKept, Going, At, Observe
<1>2. run' = [run EXCEPT !.calls = @ + 1, !.results = @ \cup shows, !.error = @ \/ error]
  BY DEF Observe
<1>3. /\ IsRun(run') /\ run'.at = run.at /\ run'.iter = run.iter
      /\ run'.plan = run.plan /\ run'.base = run.base /\ run'.status = run.status
  BY <1>1, <1>2 DEF IsRun
<1>4. /\ UNCHANGED <<loop, planner, log>> /\ dirty' = files
      /\ done' = done \cup (IF files \subseteq dirty THEN {} ELSE {"touched"})
  BY DEF Observe
<1>5. RunShape'
  BY <1>1, <1>3 DEF RunShape, Going, At
<1>6. PlanKept'
  BY <1>1, <1>3, <1>4 DEF PlanKept, Going, At, Planned
<1>7. BaseKept'
  <2>1. ASSUME run.base # NoGit, "touched" \notin done'
        PROVE  files \subseteq run.base
    <3>1. "touched" \notin done /\ files \subseteq dirty
      BY <1>4, <2>1
    <3>2. dirty \subseteq run.base
      BY <1>1, <2>1, <3>1 DEF BaseKept
    <3>3. QED
      BY <3>1, <3>2
  <2>2. QED
    BY <1>3, <1>4, <2>1 DEF BaseKept
<1>8. PlanIsWalked'
  BY <1>1, <1>3 DEF PlanIsWalked, At
<1>9. QED
  BY <1>1, <1>3, <1>4, <1>5, <1>6, <1>7, <1>8 DEF Work, At

LEMMA ToolWorks ==
  ASSUME AgentInv,
         \/ \E exit0 \in BOOLEAN, files \in {dirty, Paths, {}} : RunCommand(exit0, files)
         \/ ToolFails \/ GitCommit
         \/ \E p \in Paths : WriteFile(p)
         \/ \E reads \in SUBSET {"command", "written"} : ReadTool(reads)
  PROVE  Work
<1>1. dirty \subseteq Paths
  BY DEF AgentInv, BaseKept
<1>2. ASSUME NEW exit0 \in BOOLEAN, NEW files \in {dirty, Paths, {}}, RunCommand(exit0, files)
      PROVE  Work
  <2>1. PICK shows, error : Observe(shows, error, files)
    BY <1>2 DEF RunCommand
  <2>2. files \subseteq Paths
    BY <1>1
  <2>3. QED
    BY <2>1, <2>2, ObserveWorks
<1>3. CASE ToolFails
  BY <1>1, <1>3, ObserveWorks DEF ToolFails
<1>4. CASE GitCommit
  <2>1. PICK shows, error, files : files \subseteq Paths /\ Observe(shows, error, files)
    BY <1>4 DEF GitCommit
  <2>2. QED
    BY <2>1, ObserveWorks
<1>5. ASSUME NEW p \in Paths, WriteFile(p)
      PROVE  Work
  <2>1. dirty \cup {p} \subseteq Paths
    BY <1>1
  <2>2. QED
    BY <1>5, <2>1, ObserveWorks DEF WriteFile
<1>6. ASSUME NEW reads \in SUBSET {"command", "written"}, ReadTool(reads)
      PROVE  Work
  BY <1>1, <1>6, ObserveWorks DEF ReadTool
<1>7. QED
  BY <1>2, <1>3, <1>4, <1>5, <1>6

LEMMA VerifyWorks ==
  ASSUME AgentInv, NEW git \in BOOLEAN, NEW again \in BOOLEAN, NotVerified(git) \/ ObjectiveVerified(git, again)
  PROVE  Work
<1>1. CASE NotVerified(git)
  BY <1>1, RecoverWorks DEF NotVerified
<1>2. CASE ObjectiveVerified(git, again)
  <2>1. /\ RunShape /\ PlanKept /\ BaseKept /\ Going /\ IsRun(run) /\ run.iter \in Nat /\ run.iter > 0
        /\ run.status = "failed" /\ At("verify")
    BY <1>2 DEF AgentInv, RunShape, PlanKept, Going, At, ObjectiveVerified
  <2> DEFINE last == run.idx = Len(Objectives[run.goal])
  <2>2. /\ run' = [run EXCEPT !.fails = 0, !.idx = @ + 1, !.base = GitFiles(again),
                              !.at = IF last THEN "close" ELSE "top",
                              !.status = IF last THEN "completed" ELSE @,
                              !.msgs = IF last THEN @ ELSE @ \o Say(1)]
        /\ done' = {} /\ UNCHANGED <<loop, planner, dirty, log>>
    BY <1>2 DEF ObjectiveVerified
  <2> HIDE DEF last
  <2>3. /\ IsRun(run') /\ run'.at \in {"top", "close"} /\ run'.iter = run.iter
        /\ run'.plan = run.plan /\ run'.base = GitFiles(again)
        /\ run'.at # "close" => run'.status = run.status
    BY <2>1, <2>2 DEF IsRun
  <2>4. loop = "autonomous" /\ ~ Planned
    BY <2>1 DEF PlanKept
  <2>5. RunShape'
    BY <2>1, <2>3 DEF RunShape, Going, At
  <2>6. PlanKept'
    BY <2>1, <2>2, <2>3, <2>4 DEF PlanKept, Going, At, Planned
  <2>7. BaseKept'
    BY <2>1, <2>2, <2>3 DEF BaseKept, GitFiles
  <2>8. PlanIsWalked'
    BY <2>3, <2>4 DEF PlanIsWalked, Planned
  <2>9. QED
    BY <2>1, <2>2, <2>3, <2>5, <2>6, <2>7, <2>8 DEF Work, At
<1>3. QED
  BY <1>1, <1>2

\* The step of the plan a turn begins with is the next of a plan; without one
\* the plan has been walked.
LEMMA DefaultTopWorks ==
  ASSUME AgentInv, DefaultTop
  PROVE  Work
<1> DEFINE n == IF Planned THEN Next(run.plan, FALSE) ELSE [plan |-> NoPlan, step |-> NoStep]
           ends == Planned /\ n.step = NoStep
<1>1. /\ RunShape /\ PlanKept /\ BaseKept /\ Going /\ IsRun(run) /\ run.iter \in Nat
      /\ run.status = "failed" /\ At("top") /\ loop = "default"
  BY DEF AgentInv, RunShape, PlanKept, Going, At, DefaultTop
<1>2. /\ run' = [run EXCEPT !.iter = run.iter + 1, !.plan = n.plan,
                            !.at = IF ends THEN "close" ELSE "generate",
                            !.status = IF ends THEN "completed" ELSE @]
      /\ UNCHANGED <<loop, planner, dirty, log, done>>
  BY DEF DefaultTop, Turned
<1>3. /\ n.plan # NoPlan => PlanOK(n.plan)
      /\ ends => \E k \in DOMAIN n.plan.branches : AllDone(n.plan.branches[k])
  <2>1. CASE Planned
    <3>1. PlanOK(run.plan) /\ n = Next(run.plan, FALSE)
      BY <1>1, <2>1 DEF PlanKept
    <3> HIDE DEF n
    <3>2. QED
      BY <3>1, NextIs
  <2>2. CASE ~ Planned
    BY <2>2
  <2>3. QED
    BY <2>1, <2>2
<1> HIDE DEF n, ends
<1>4. /\ IsRun(run') /\ run'.at = (IF ends THEN "close" ELSE "generate") /\ run'.iter = run.iter + 1
      /\ run'.plan = n.plan /\ run'.base = run.base
      /\ run'.status = IF ends THEN "completed" ELSE "failed"
  BY <1>1, <1>2 DEF IsRun
<1>5. RunShape'
  BY <1>1, <1>4 DEF RunShape, Going, At
<1>6. PlanKept'
  BY <1>1, <1>2, <1>3, <1>4 DEF PlanKept, Going, At, Planned
<1>7. BaseKept'
  BY <1>1, <1>2, <1>4 DEF BaseKept
<1>8. PlanIsWalked'
  BY <1>3, <1>4 DEF PlanIsWalked, At, AllDone
<1>9. QED
  BY <1>1, <1>2, <1>4, <1>5, <1>6, <1>7, <1>8 DEF Work, At

LEMMA DefaultTextWorks ==
  ASSUME AgentInv, DefaultText
  PROVE  Work
<1>1. /\ RunShape /\ PlanKept /\ BaseKept /\ Going /\ IsRun(run) /\ run.iter \in Nat /\ run.iter > 0
      /\ run.status = "failed" /\ At("generate")
  BY DEF AgentInv, RunShape, PlanKept, Going, At, DefaultText
<1>2. UNCHANGED <<loop, planner, log, dirty, done>>
  BY DEF DefaultText
<1>3. CASE Planned
  <2>1. run' = [run EXCEPT !.at = "top"]
    BY <1>3 DEF DefaultText
  <2>2. /\ IsRun(run') /\ run'.at = "top" /\ run'.iter = run.iter
        /\ run'.plan = run.plan /\ run'.base = run.base /\ run'.status = run.status
    BY <1>1, <2>1 DEF IsRun
  <2>3. QED
    BY <1>1, <1>2, <2>2, TurnWorks
<1>4. CASE ~ Planned
  <2>1. run' = [run EXCEPT !.at = "close", !.status = "completed"]
    BY <1>4 DEF DefaultText
  <2>2. /\ IsRun(run') /\ run'.at = "close" /\ run'.iter = run.iter
        /\ run'.plan = run.plan /\ run'.base = run.base
    BY <1>1, <2>1 DEF IsRun
  <2>3. QED
    BY <1>1, <1>2, <1>4, <2>2, TurnWorks
<1>5. QED
  BY <1>3, <1>4

LEMMA DefaultTurnEndsWorks ==
  ASSUME AgentInv, DefaultTurnEnds
  PROVE  Work
<1> DEFINE ends == Planned /\ IsComplete(run.plan)
<1>1. /\ RunShape /\ PlanKept /\ BaseKept /\ Going /\ IsRun(run) /\ run.iter \in Nat /\ run.iter > 0
      /\ run.status = "failed" /\ At("act")
  BY DEF AgentInv, RunShape, PlanKept, Going, At, DefaultTurnEnds
<1>2. /\ run' = [NextTurn EXCEPT !.at = IF ends THEN "close" ELSE "top",
                                 !.status = IF ends THEN "completed" ELSE @]
      /\ UNCHANGED <<loop, planner, log, dirty, done>>
  BY DEF DefaultTurnEnds
<1>3. ends => PlanOK(run.plan) /\ \E k \in DOMAIN run.plan.branches : AllDone(run.plan.branches[k])
  BY <1>1, CompleteIs DEF PlanKept
<1> HIDE DEF ends
<1>4. /\ IsRun(run') /\ run'.at = (IF ends THEN "close" ELSE "top") /\ run'.iter = run.iter
      /\ run'.plan = run.plan /\ run'.base = run.base
      /\ run'.status = IF ends THEN "completed" ELSE "failed"
  <2>1. PICK n : n = NextTurn
    OBVIOUS
  <2>2. n = [run EXCEPT !.calls = 0, !.results = {}, !.error = FALSE]
    BY <2>1 DEF NextTurn
  <2>3. /\ IsRun(n) /\ n.iter = run.iter /\ n.plan = run.plan /\ n.base = run.base /\ n.status = "failed"
    BY <1>1, <2>2 DEF IsRun
  <2>4. run' = [n EXCEPT !.at = IF ends THEN "close" ELSE "top", !.status = IF ends THEN "completed" ELSE @]
    BY <1>2, <2>1
  <2>5. QED
    BY <2>3, <2>4 DEF IsRun
<1>5. CASE ~ ends
  <2>1. run'.at = "top" /\ run'.status = "failed"
    BY <1>4, <1>5
  <2>2. QED
    BY <1>1, <1>2, <1>4, <2>1, TurnWorks
<1>6. CASE ends
  <2>1. run'.at = "close" /\ run'.status = "completed"
    BY <1>4, <1>6
  <2>2. RunShape'
    BY <1>1, <1>4, <2>1 DEF RunShape, Going, At
  <2>3. PlanKept'
    BY <1>1, <1>2, <1>3, <1>4, <1>6, <2>1 DEF PlanKept, Going, At, Planned
  <2>4. BaseKept'
    BY <1>1, <1>2, <1>4 DEF BaseKept
  <2>5. PlanIsWalked'
    BY <1>3, <1>4, <1>6 DEF PlanIsWalked, AllDone
  <2>6. QED
    BY <1>2, <2>1, <2>2, <2>3, <2>4, <2>5 DEF Work, At
<1>7. QED
  BY <1>5, <1>6

-----------------------------------------------------------------------------
(* The log and what a run loads of it *)

\* A turn that is no marker, or a marker of all that was said since the last.
LEMMA AppendKeeps ==
  ASSUME LogKept, NEW kind \in Kinds, NEW covers \in SUBSET Nat, Append1(kind, covers),
         kind = "compaction" =>
             \A j \in 1 .. Len(log) : (\A k \in j .. Len(log) : ~ Marker(k)) => j \in covers
  PROVE  LogKept'
<1> DEFINE n == Len(log)
           T == [kind : Kinds, covers : SUBSET Nat]
<1>1. log \in Seq(T) /\ n \in Nat /\ Turn(kind, covers) \in T
  BY DEF LogKept, Turn
<1>2. /\ log' \in Seq(T) /\ Len(log') = n + 1 /\ log'[n + 1] = Turn(kind, covers)
      /\ \A i \in 1 .. n : log'[i] = log[i]
  BY <1>1 DEF Append1
<1>3. ASSUME NEW m \in 1 .. n + 1, Marker(m)', NEW j \in 1 .. m - 1, \A k \in j .. m - 1 : ~ Marker(k)'
      PROVE  j \in log'[m].covers
  <2>1. \A k \in j .. m - 1 : k \in 1 .. n /\ ~ Marker(k)
    BY <1>1, <1>2, <1>3 DEF Marker
  <2>2. CASE m = n + 1
    <3>1. kind = "compaction" /\ log'[m].covers = covers
      BY <1>2, <1>3, <2>2 DEF Marker, Turn
    <3>2. j \in 1 .. n /\ j .. m - 1 = j .. n
      BY <1>1, <2>2
    <3>3. QED
      BY <2>1, <3>1, <3>2
  <2>3. CASE m # n + 1
    <3>1. m \in 1 .. n /\ log'[m] = log[m]
      BY <1>1, <1>2, <2>3
    <3>2. Marker(m)
      BY <1>3, <3>1 DEF Marker
    <3>3. QED
      BY <2>1, <3>1, <3>2 DEF LogKept
  <2>4. QED
    BY <2>2, <2>3
<1>4. QED
  BY <1>2, <1>3 DEF LogKept

\* What follows the last marker from a position on, with that marker.
LEMMA AfterIs ==
  ASSUME NEW from \in Nat \ {0}, Len(log) \in Nat
  PROVE  LET marks == {i \in from .. Len(log) : Marker(i)} IN
         \/ /\ marks = {} /\ AfterLastCompaction(from) = from .. Len(log)
         \/ \E m \in marks : /\ \A i \in marks : i <= m
                             /\ AfterLastCompaction(from) = m .. Len(log)
<1> DEFINE marks == {i \in from .. Len(log) : Marker(i)}
<1>1. AfterLastCompaction(from) = IF marks = {} THEN from .. Len(log) ELSE Greatest(marks) .. Len(log)
  BY DEF AfterLastCompaction, Marker
<1>2. marks \subseteq 1 .. Len(log)
  OBVIOUS
<1>3. \A i \in marks : i \in Int
  OBVIOUS
<1> HIDE DEF marks
<1>4. marks # {} => Greatest(marks) \in marks /\ \A i \in marks : Greatest(marks) >= i
  BY <1>2, GreatestIs
<1>5. marks # {} => \A i \in marks : i <= Greatest(marks)
  BY <1>3, <1>4
<1>6. QED
  BY <1>1, <1>4, <1>5 DEF marks

LEMMA CompactKeeps ==
  ASSUME AgentInv, Compact
  PROVE  LogKept'
<1> DEFINE n == Len(log)
           live == AfterLastCompaction(1)
           body == {i \in live : log[i].kind # "compaction"}
           marks == {i \in 1 .. n : Marker(i)}
<1>1. LogKept /\ n \in Nat
  BY DEF AgentInv, LogKept
<1>2. Append1("compaction", body)
  BY DEF Compact
<1>3. \/ marks = {} /\ live = 1 .. n
      \/ \E m \in marks : live = m .. n
  BY <1>1, AfterIs
<1> HIDE DEF live
<1>4. body \in SUBSET Nat
  BY <1>1, <1>3
<1>5. ASSUME NEW j \in 1 .. n, \A k \in j .. n : ~ Marker(k)
      PROVE  j \in body
  <2>1. j \in live
    <3>1. ASSUME NEW m \in marks, live = m .. n
          PROVE  j \in live
      <4>1. m < j
        BY <1>1, <1>5
      <4>2. QED
        BY <1>1, <3>1, <4>1
    <3>2. QED
      BY <1>3, <3>1
  <2>2. ~ Marker(j)
    BY <1>1, <1>5
  <2>3. QED
    BY <2>1, <2>2 DEF Marker
<1> HIDE DEF body
<1>6. PICK kind \in Kinds, covers \in SUBSET Nat : kind = "compaction" /\ covers = body
  BY <1>4 DEF Kinds
<1>7. QED
  BY <1>1, <1>2, <1>5, <1>6, AppendKeeps

\* All that was said is loaded, itself or in a summary, back to the marker
\* before the last and to the limit.
LEMMA LoadedTells ==
  ASSUME LogKept, NEW i \in 1 .. Len(log), ~ (i < Len(log) + 1 - HistoryLimit)
  PROVE  LET before == {j \in DOMAIN log : Marker(j)} IN
         \/ i \in Loaded \/ \E m \in Loaded : m \in 1 .. Len(log) /\ i \in log[m].covers
         \/ \E m, k \in before : k # m /\ i <= k /\ \A j \in before : j <= m
<1> DEFINE n == Len(log)
           from == IF n > HistoryLimit THEN n - HistoryLimit + 1 ELSE 1
           marks == {j \in from .. n : Marker(j)}
           before == {j \in DOMAIN log : Marker(j)}
<1>1. n \in Nat /\ DOMAIN log = 1 .. n /\ HistoryLimit \in Nat \ {0}
  BY AgentAssumption DEF LogKept
<1>2. from \in Nat \ {0} /\ i \in from .. n
  BY <1>1
<1>3. Loaded = AfterLastCompaction(from)
  BY DEF Loaded
<1> HIDE DEF from
<1>4. \/ marks = {} /\ Loaded = from .. n
      \/ \E m \in marks : (\A j \in marks : j <= m) /\ Loaded = m .. n
  BY <1>1, <1>2, <1>3, AfterIs
<1>5. CASE marks = {} /\ Loaded = from .. n
  BY <1>2, <1>5
<1>6. CASE \E m \in marks : (\A j \in marks : j <= m) /\ Loaded = m .. n
  <2>1. PICK m \in marks : (\A j \in marks : j <= m) /\ Loaded = m .. n
    BY <1>6
  <2>2. m \in 1 .. n /\ m \in Loaded /\ Marker(m) /\ m \in before
    BY <1>1, <1>2, <2>1
  <2>3. CASE i >= m
    BY <1>1, <2>1, <2>2, <2>3
  <2>4. CASE i < m /\ \E k \in i .. m - 1 : Marker(k)
    <3>1. PICK k \in i .. m - 1 : Marker(k)
      BY <2>4
    <3>2. k \in before /\ k # m /\ i <= k
      BY <1>1, <2>2, <3>1
    <3>3. \A j \in before : j <= m
      <4>1. ASSUME NEW j \in before, j > m
            PROVE  j \in marks
        BY <1>1, <1>2, <2>1, <4>1
      <4>2. QED
        BY <1>1, <2>1, <2>2, <4>1
    <3>4. QED
      BY <2>2, <3>2, <3>3
  <2>5. CASE i < m /\ \A k \in i .. m - 1 : ~ Marker(k)
    <3>1. i \in 1 .. m - 1
      BY <1>1, <2>2, <2>5
    <3>2. i \in log[m].covers
      BY <2>2, <2>5, <3>1 DEF LogKept
    <3>3. QED
      BY <2>2, <3>2
  <2>6. QED
    BY <1>1, <2>2, <2>3, <2>4, <2>5
<1>7. QED
  BY <1>4, <1>5, <1>6

\* What is loaded when a run begins is what HistoryIsKept asks of it.
LEMMA BeginTells ==
  ASSUME LogKept, LogKept', Append1("user", {}), run'.seen = Loaded
  PROVE  HistoryIsKept'
<1> DEFINE n == Len(log)
           before == {i \in DOMAIN log' : log'[i].kind = "compaction"}
           old == IF Cardinality(before) < 2 THEN 0 ELSE Greatest(before \ {Greatest(before)})
           told == run'.seen \cup UNION {log'[i].covers : i \in run'.seen}
<1>1. n \in Nat /\ DOMAIN log = 1 .. n /\ HistoryLimit \in Nat \ {0}
  BY AgentAssumption DEF LogKept
<1>2. /\ Len(log') = n + 1 /\ DOMAIN log' = 1 .. n + 1 /\ log'[n + 1].kind = "user"
      /\ \A i \in 1 .. n : log'[i] = log[i]
  <2>1. log' = Append(log, Turn("user", {})) /\ log \in Seq([kind : Kinds, covers : SUBSET Nat])
    BY DEF Append1, LogKept
  <2>2. Turn("user", {}) \in [kind : Kinds, covers : SUBSET Nat] /\ Turn("user", {}).kind = "user"
    BY DEF Turn, Kinds
  <2>3. QED
    BY <2>1, <2>2
<1>3. before = {i \in DOMAIN log : Marker(i)}
  BY <1>1, <1>2 DEF Marker
<1>4. before \subseteq 1 .. n /\ IsFiniteSet(before) /\ Cardinality(before) \in Nat
  <2>1. before \subseteq 1 .. n
    BY <1>1, <1>3
  <2>2. IsFiniteSet(1 .. n)
    BY <1>1, FS_Interval
  <2>3. QED
    BY <2>1, <2>2, FS_Subset, FS_CardinalityType
<1>5. ASSUME NEW i \in 1 .. n, NEW m \in before, NEW k \in before, k # m, i <= k, \A j \in before : j <= m
      PROVE  i <= old
  <2> HIDE DEF before
  <2>1. Greatest(before) = m
    <3>1. Greatest(before) \in before /\ Greatest(before) >= m
      BY <1>1, <1>4, GreatestIs
    <3>2. PICK x \in before : x = Greatest(before)
      BY <3>1
    <3>3. x >= m /\ x <= m /\ x \in 1 .. n /\ m \in 1 .. n
      BY <1>4, <1>5, <3>1, <3>2
    <3>4. QED
      BY <3>2, <3>3
  <2>2. ~ (Cardinality(before) < 2)
    <3>1. IsFiniteSet({m}) /\ Cardinality({m}) = 1
      BY FS_Singleton
    <3>2. {m} \subseteq before /\ {m} # before
      BY <1>5
    <3>3. Cardinality({m}) <= Cardinality(before) /\ Cardinality({m}) # Cardinality(before)
      BY <1>4, <3>2, FS_Subset
    <3>4. QED
      BY <1>4, <3>1, <3>3
  <2>3. old = Greatest(before \ {m})
    BY <2>1, <2>2
  <2>4. Greatest(before \ {m}) \in before \ {m} /\ Greatest(before \ {m}) >= k
    <3>1. before \ {m} \subseteq 1 .. n /\ k \in before \ {m}
      BY <1>4, <1>5
    <3>2. QED
      BY <1>1, <3>1, GreatestIs
  <2> HIDE DEF old
  <2>5. PICK x \in before : x = old /\ x >= k
    BY <2>3, <2>4
  <2>6. x \in 1 .. n /\ k \in 1 .. n /\ i \in 1 .. n
    BY <1>4
  <2>7. QED
    BY <1>5, <2>5, <2>6
<1>6. ASSUME NEW i \in 1 .. n
      PROVE  i \in told \/ i <= old \/ i < Len(log') - HistoryLimit
  <2> HIDE DEF told, old, before
  <2> SUFFICES ASSUME ~ (i < n + 1 - HistoryLimit)
               PROVE  i \in told \/ i <= old
    BY <1>1, <1>2
  <2>1. \/ i \in Loaded \/ \E m \in Loaded : m \in 1 .. n /\ i \in log[m].covers
        \/ \E m, k \in before : k # m /\ i <= k /\ \A j \in before : j <= m
    BY <1>3, LoadedTells
  <2>2. CASE i \in Loaded \/ \E m \in Loaded : m \in 1 .. n /\ i \in log[m].covers
    <3>1. i \in Loaded \/ \E m \in Loaded : i \in log'[m].covers
      BY <1>2, <2>2
    <3>2. QED
      BY <3>1 DEF told
  <2>3. CASE \E m, k \in before : k # m /\ i <= k /\ \A j \in before : j <= m
    BY <1>5, <2>3
  <2>4. QED
    BY <2>1, <2>2, <2>3
<1> HIDE DEF told, old
<1>7. \A i \in 1 .. Len(log') - 1 : i \in told \/ i <= old \/ i < Len(log') - HistoryLimit
  BY <1>1, <1>2, <1>6
<1>8. QED
  BY <1>7 DEF HistoryIsKept, told, old

\* A run begins with the tree as its baseline, or none, and a plan or none.
LEMMA BeginKeeps ==
  ASSUME AgentInv, NEW g \in Goals, NEW base \in {dirty, NoGit}, NEW plan,
         plan # NoPlan => PlanOK(plan) /\ loop = "default", Begin(g, base, plan)
  PROVE  AgentInv'
<1>1. /\ PlanKept /\ BaseKept /\ LogKept
  BY DEF AgentInv
<1>2. /\ run' = [at |-> "top", goal |-> g, idx |-> 1, iter |-> 0, fails |-> 0, base |-> base,
                 msgs |-> [i \in 1 .. Cardinality(Loaded) + 2 |-> {}], calls |-> 0, results |-> {}, error |-> FALSE,
                 plan |-> plan, seen |-> Loaded, status |-> "failed"]
      /\ Append1("user", {}) /\ done' = {} /\ UNCHANGED <<loop, planner, dirty>>
  BY DEF Begin
<1>3. /\ IsRun(run') /\ run'.at = "top" /\ run'.iter = 0 /\ run'.base = base
      /\ run'.plan = plan /\ run'.seen = Loaded /\ run'.status = "failed"
  BY <1>2 DEF IsRun
<1>4. RunShape'
  BY <1>3 DEF RunShape
<1>5. PlanKept'
  BY <1>1, <1>2, <1>3 DEF PlanKept, Planned, At
<1>6. BaseKept'
  BY <1>1, <1>2, <1>3 DEF BaseKept
<1>7. LogKept'
  <2>1. PICK kind \in Kinds, covers \in SUBSET Nat : kind = "user" /\ covers = {}
    BY DEF Kinds
  <2>2. QED
    BY <1>1, <1>2, <2>1, AppendKeeps
<1>8. HistoryIsKept'
  BY <1>1, <1>2, <1>3, <1>7, BeginTells
<1>9. PlanIsWalked'
  BY <1>3 DEF PlanIsWalked, At
<1>10. QED
  BY <1>4, <1>5, <1>6, <1>7, <1>8, <1>9 DEF AgentInv

\* The run is over, whether its last turn is in the log or not.
LEMMA EndKeeps ==
  ASSUME AgentInv, run' = Idle, UNCHANGED <<loop, planner, dirty>>, LogKept'
  PROVE  AgentInv'
<1>1. run'.at = "idle"
  BY DEF Idle
<1>2. QED
  BY <1>1 DEF AgentInv, RunShape, PlanKept, BaseKept, PlanIsWalked, HistoryIsKept, Going, At

LEMMA WorkKeeps ==
  ASSUME AgentInv, Work
  PROVE  AgentInv'
<1>1. LogKept'
  BY DEF AgentInv, LogKept, Marker, Work
<1>2. HistoryIsKept'
  BY DEF Work, HistoryIsKept, At
<1>3. QED
  BY <1>1, <1>2 DEF AgentInv, Work

-----------------------------------------------------------------------------
(* The theorems *)

\* The invariant holds of every state: what a run loads tells of the session,
\* the plan it walks is well formed, and the tree is judged against a baseline.
THEOREM AgentInvariant == AgentSpec => []AgentInv
<1>1. AgentInit => AgentInv
  <2> SUFFICES ASSUME AgentInit
               PROVE  AgentInv
    OBVIOUS
  <2>1. /\ run = Idle /\ run.at = "idle" /\ log = <<>> /\ dirty \subseteq Paths
        /\ planner \in PlannerKinds \cup {NoPlan}
    BY DEF AgentInit, Idle
  <2>2. LogKept
    <3>1. Len(log) = 0 /\ log \in Seq([kind : Kinds, covers : SUBSET Nat])
      BY <2>1
    <3>2. QED
      BY <3>1 DEF LogKept
  <2>3. QED
    BY <2>1, <2>2 DEF AgentInv, RunShape, PlanKept, BaseKept, PlanIsWalked, HistoryIsKept, Going, At
<1>2. AgentInv /\ [AgentNext]_vars => AgentInv'
  <2> SUFFICES ASSUME AgentInv, [AgentNext]_vars
               PROVE  AgentInv'
    OBVIOUS
  <2>1. ASSUME NEW g \in Goals, NEW git \in BOOLEAN, RunGoal(g, git)
        PROVE  AgentInv'
    <3>1. PICK base \in {dirty, NoGit} : Begin(g, base, NoPlan)
      BY <2>1 DEF RunGoal, GitFiles
    <3>2. QED
      BY <3>1, BeginKeeps
  <2>2. ASSUME NEW g \in Goals, DefaultRunGoal(g)
        PROVE  AgentInv'
    <3> DEFINE plan == IF planner = NoPlan THEN NoPlan ELSE Plan(planner, g)
    <3>1. loop = "default" /\ Begin(g, NoGit, plan)
      BY <2>2 DEF DefaultRunGoal
    <3>2. plan # NoPlan => PlanOK(plan)
      <4>1. planner # NoPlan => planner \in {"default", "recursive", "tree-search"} /\ g \in DOMAIN Clauses
        BY AgentAssumption DEF AgentInv, PlanKept
      <4>2. planner # NoPlan => PlanOK(Plan(planner, g))
        BY <4>1, PlanIs
      <4>3. QED
        BY <4>2
    <3> HIDE DEF plan
    <3>3. QED
      BY <3>1, <3>2, BeginKeeps
  <2>3. CASE LoopStep /\ ~ Close
    <3>1. Work
      BY <2>3, LoopTopWorks, OutOfIterationsWorks, GenerateWorks, ToolWorks, TurnEndsWorks, VerifyWorks,
         DefaultTopWorks, DefaultTextWorks, DefaultTurnEndsWorks DEF LoopStep
    <3>2. QED
      BY <3>1, WorkKeeps
  <2>4. CASE Close
    <3>1. PICK kind \in Kinds, covers \in SUBSET Nat : kind = "assistant" /\ covers = {}
      BY DEF Kinds
    <3>2. LogKept /\ Append1(kind, covers) /\ kind # "compaction"
      BY <2>4, <3>1 DEF Close, AgentInv
    <3>3. LogKept'
      BY <3>2, AppendKeeps
    <3>4. QED
      BY <2>4, <3>3, EndKeeps DEF Close
  <2>5. CASE RunFails
    <3>1. LogKept'
      BY <2>5 DEF RunFails, AgentInv, LogKept, Marker
    <3>2. QED
      BY <2>5, <3>1, EndKeeps DEF RunFails
  <2>6. CASE Compact
    <3>1. run' = run /\ run.at = "idle" /\ UNCHANGED <<loop, planner, dirty>>
      BY <2>6 DEF Compact, At
    <3>2. LogKept'
      BY <2>6, CompactKeeps
    <3>3. PlanKept' /\ BaseKept'
      BY <3>1 DEF AgentInv, PlanKept, BaseKept, Going, At
    <3>4. QED
      BY <3>1, <3>2, <3>3 DEF AgentInv, RunShape, PlanIsWalked, HistoryIsKept, Going, At
  <2>7. CASE UNCHANGED vars
    <3>1. run' = run /\ log' = log /\ UNCHANGED <<loop, planner, dirty, done>>
      BY <2>7 DEF vars
    <3>2. RunShape' /\ PlanKept' /\ BaseKept'
      BY <3>1 DEF AgentInv, RunShape, PlanKept, BaseKept, Going, At, Planned
    <3>3. LogKept'
      BY <3>1 DEF AgentInv, LogKept, Marker
    <3>4. PlanIsWalked' /\ HistoryIsKept'
      BY <3>1 DEF AgentInv, PlanIsWalked, HistoryIsKept, At, Planned
    <3>5. QED
      BY <3>2, <3>3, <3>4 DEF AgentInv
  <2>8. QED
    BY <2>1, <2>2, <2>3, <2>4, <2>5, <2>6, <2>7 DEF AgentNext
<1>3. QED
  BY <1>1, <1>2, PTL DEF AgentSpec

\* Whatever was said since the last marker but one, and within the limit, is in
\* what the next run loads, itself or in a summary (brick.py:112-117, 366-369,
\* 600-604).
THEOREM HistoryKept == AgentSpec => []HistoryIsKept
<1>1. AgentInv => HistoryIsKept
  BY DEF AgentInv
<1>2. QED
  BY <1>1, AgentInvariant, PTL

\* With each of the three planners, the default loop calls a planned goal
\* completed only when a branch of the plan is done to its last step
\* (default/brick.py:166-171, 241-245).
THEOREM PlanWalked == AgentSpec => []PlanIsWalked
<1>1. AgentInv => PlanIsWalked
  BY DEF AgentInv
<1>2. QED
  BY <1>1, AgentInvariant, PTL

\* Git closes a file objective only by what was done for it (brick.py:265-284,
\* 524): the tree holds what the baseline does not only after such a step.
THEOREM EvidenceFresh == AgentSpec => FileEvidenceIsFresh
<1>1. ASSUME AgentInv, NEW again \in BOOLEAN, ObjectiveVerified(TRUE, again),
             Objectives[run.goal][run.idx] = "file", run.base # NoGit
      PROVE  "touched" \in done
  <2>1. BaseKept /\ Going
    BY <1>1 DEF AgentInv, ObjectiveVerified, Going, At
  <2>2. dirty # NoGit /\ Verified(dirty)
    BY <1>1, <2>1, AgentAssumption DEF BaseKept, ObjectiveVerified, GitFiles
  <2>3. Changed(dirty)
    BY <1>1, <2>2 DEF Verified
  <2>4. ~ (dirty \subseteq run.base)
    BY <1>1, <2>3 DEF Changed
  <2>5. QED
    BY <1>1, <2>1, <2>4 DEF BaseKept
<1> DEFINE Fresh == (\E again \in BOOLEAN : ObjectiveVerified(TRUE, again))
                      /\ Objectives[run.goal][run.idx] = "file" /\ run.base # NoGit => "touched" \in done
<1>2. AgentInv => Fresh
  BY <1>1
<1>3. [](AgentInv) => [][Fresh]_vars
  <2>1. AgentInv => [Fresh]_vars
    BY <1>2
  <2> HIDE DEF Fresh
  <2>2. QED
    BY <2>1, PTL
<1>4. QED
  BY <1>3, AgentInvariant, PTL DEF FileEvidenceIsFresh
=============================================================================
