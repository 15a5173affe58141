--------------------------- MODULE PlannersProofs ---------------------------
(***************************************************************************)
(* Proofs about Planners: what RoutingPlanner.Plan, RoutePlanner.Plan and  *)
(* TriageRanker.Rank decide, for catalogs, policy sets, requests, orders,  *)
(* quotes, alerts and assessments of any number.                           *)
(***************************************************************************)
EXTENDS Planners, WellFoundedInduction, FunctionTheorems, FiniteSetTheorems, TLAPS

-----------------------------------------------------------------------------
(* What First() and OrderBy need: something comes first.                   *)

LEMMA Least ==
    ASSUME NEW S, S \subseteq Nat, S # {}
    PROVE  \E x \in S : \A y \in S : x <= y
  <1> DEFINE R == {p \in Nat \X Nat : p[1] < p[2]}
  <1>1. R = OpToRel(<, Nat)
    BY DEF OpToRel
  <1>2. IsWellFoundedOn(R, Nat)
    BY <1>1, NatLessThanWellFounded, Zenon
  <1>3. ASSUME NEW x \in Nat, NEW y \in Nat, <<y, x>> \notin R
        PROVE  x <= y
    BY <1>3
  <1> HIDE DEF R
  <1>4. \E x \in S : \A y \in S : ~(<<y, x>> \in R)
    BY <1>2, WFMin
  <1> QED
    BY <1>3, <1>4

\* A non-empty set of models has a cheapest one and one whose name comes first.
LEMMA FirstModels ==
    ASSUME NEW S, S \subseteq Model, S # {}
    PROVE  /\ Cheapest(S) # {}
           /\ FirstByName(S) \in S
  <1>1. \A m \in S : m.cost \in Nat /\ m.deployment \in Nat
    BY DEF Model
  <1>2. \E m \in S : \A n \in S : m.cost <= n.cost
    <2> DEFINE C == {m.cost : m \in S}
    <2>1. C \subseteq Nat /\ C # {}
      BY <1>1
    <2> HIDE DEF C
    <2>2. PICK x \in C : \A y \in C : x <= y
      BY <2>1, Least
    <2> QED
      BY <2>2 DEF C
  <1>3. \E m \in S : \A n \in S : m.deployment <= n.deployment
    <2> DEFINE C == {m.deployment : m \in S}
    <2>1. C \subseteq Nat /\ C # {}
      BY <1>1
    <2> HIDE DEF C
    <2>2. PICK x \in C : \A y \in C : x <= y
      BY <2>1, Least
    <2> QED
      BY <2>2 DEF C
  <1> QED
    BY <1>2, <1>3 DEF Cheapest, FirstByName

-----------------------------------------------------------------------------
(* Economics: what TierSelector picks among the models it can afford.      *)

\* Distance, for any indicated tier.
Farness(m, indicated) ==
    IF m.tier <= indicated THEN indicated - m.tier ELSE 10 + m.tier

\* The pool Choose takes the cheapest of: every model in it is as near as any of S, and
\* every model of S as near as those is in it.
LEMMA PoolIsNearest ==
    ASSUME NEW S, S \subseteq Model, S # {}, NEW i \in Tiers
    PROVE  LET at    == {m \in S : m.tier = i}
               below == {m \in S : m.tier < i}
               pool  == IF at # {} THEN at
                        ELSE IF below # {} THEN HighestTier(below) ELSE LowestTier(S)
           IN  /\ pool # {} /\ pool \subseteq S
               /\ \A b \in pool, m \in S : \/ Farness(b, i) < Farness(m, i)
                                           \/ Farness(b, i) = Farness(m, i) /\ m \in pool
  <1> DEFINE at    == {m \in S : m.tier = i}
             below == {m \in S : m.tier < i}
  <1>1. i \in {0, 1, 2} /\ \A m \in S : m.tier \in {0, 1, 2}
    BY DEF Model, Tiers, Economy, Standard, Premium
  <1>2. CASE at # {}
    BY <1>1, <1>2 DEF Farness
  <1>3. CASE at = {} /\ below # {}
    <2>1. below \subseteq S /\ \A m \in below : m.tier < i
      OBVIOUS
    <2>2. \A m \in S : m \in below \/ m.tier > i
      BY <1>1, <1>3
    <2>3. \E m \in below : \A n \in below : m.tier >= n.tier
      BY <1>1, <1>3
    <2> HIDE DEF below
    <2> DEFINE pool == HighestTier(below)
    <2>4. pool # {} /\ pool \subseteq below /\ \A b \in pool, n \in below : b.tier >= n.tier
      BY <2>3 DEF HighestTier
    <2>5. \A n \in below : (\E b \in pool : b.tier = n.tier) => n \in pool
      BY <1>1, <2>1, <2>4 DEF HighestTier
    <2> HIDE DEF pool
    <2>6. \A b \in pool, m \in S : \/ Farness(b, i) < Farness(m, i)
                                   \/ Farness(b, i) = Farness(m, i) /\ m \in pool
      <3> SUFFICES ASSUME NEW b \in pool, NEW m \in S
                   PROVE  \/ Farness(b, i) < Farness(m, i)
                          \/ Farness(b, i) = Farness(m, i) /\ m \in pool
        OBVIOUS
      <3>1. b \in S /\ b \in below /\ b.tier < i
        BY <2>1, <2>4
      <3>2. CASE m \in below
        <4>1. m.tier < i /\ b.tier >= m.tier /\ (b.tier = m.tier => m \in pool)
          BY <2>1, <2>4, <2>5, <3>2
        <4> QED
          BY <1>1, <3>1, <4>1 DEF Farness
      <3>3. CASE m.tier > i
        BY <1>1, <3>1, <3>3 DEF Farness
      <3> QED
        BY <2>2, <3>2, <3>3
    <2> QED
      BY <1>3, <2>1, <2>4, <2>6 DEF pool, below
  <1>4. CASE at = {} /\ below = {}
    <2>1. \A m \in S : m.tier > i
      BY <1>1, <1>4
    <2>2. \E m \in S : \A n \in S : m.tier <= n.tier
      BY <1>1
    <2> DEFINE pool == LowestTier(S)
    <2>3. pool # {} /\ pool \subseteq S /\ \A b \in pool, n \in S : b.tier <= n.tier
      BY <2>2 DEF LowestTier
    <2>4. \A n \in S : (\E b \in pool : b.tier = n.tier) => n \in pool
      BY <1>1, <2>3 DEF LowestTier
    <2> HIDE DEF pool
    <2>5. \A b \in pool, m \in S : \/ Farness(b, i) < Farness(m, i)
                                   \/ Farness(b, i) = Farness(m, i) /\ m \in pool
      BY <1>1, <2>1, <2>3, <2>4 DEF Farness
    <2> QED
      BY <1>4, <2>3, <2>5 DEF pool
  <1> QED
    BY <1>2, <1>3, <1>4

\* b is a model no other of S is better than.
BestOf(b, S, i) ==
    /\ b \in S
    /\ \A m \in S : \/ Farness(b, i) < Farness(m, i)
                    \/ Farness(b, i) = Farness(m, i) /\ b.cost <= m.cost

LEMMA ChosenIsBest ==
    ASSUME NEW S, S \subseteq Model, S # {}, NEW i \in Tiers
    PROVE  BestOf(Choose(S, i), S, i)
  <1> DEFINE at    == {m \in S : m.tier = i}
             below == {m \in S : m.tier < i}
             pool  == IF at # {} THEN at
                      ELSE IF below # {} THEN HighestTier(below) ELSE LowestTier(S)
  <1>1. /\ pool # {} /\ pool \subseteq S
        /\ \A b \in pool, m \in S : \/ Farness(b, i) < Farness(m, i)
                                    \/ Farness(b, i) = Farness(m, i) /\ m \in pool
    BY PoolIsNearest
  <1>2. Choose(S, i) = FirstByName(Cheapest(pool))
    BY DEF Choose
  <1> HIDE DEF pool
  <1>3. Cheapest(pool) # {}
    BY <1>1, FirstModels
  <1>4. Cheapest(pool) \subseteq pool /\ \A b \in Cheapest(pool), m \in pool : b.cost <= m.cost
    BY DEF Cheapest
  <1>5. Choose(S, i) \in Cheapest(pool)
    BY <1>1, <1>2, <1>3, <1>4, FirstModels
  <1> QED
    BY <1>1, <1>4, <1>5 DEF BestOf

\* Of models as near and as dear, the chosen one's name comes first.
LEMMA ChosenIsFirst ==
    ASSUME NEW S, S \subseteq Model, S # {}, NEW i \in Tiers,
           NEW m \in S, Farness(m, i) = Farness(Choose(S, i), i), m.cost = Choose(S, i).cost
    PROVE  Choose(S, i).deployment <= m.deployment
  <1> DEFINE at    == {n \in S : n.tier = i}
             below == {n \in S : n.tier < i}
             pool  == IF at # {} THEN at
                      ELSE IF below # {} THEN HighestTier(below) ELSE LowestTier(S)
             b     == Choose(S, i)
  <1>1. /\ pool # {} /\ pool \subseteq S
        /\ \A p \in pool, n \in S : \/ Farness(p, i) < Farness(n, i)
                                    \/ Farness(p, i) = Farness(n, i) /\ n \in pool
    BY PoolIsNearest
  <1>2. b = FirstByName(Cheapest(pool))
    BY DEF Choose
  <1>3. i \in {0, 1, 2} /\ \A n \in S : n.tier \in {0, 1, 2} /\ n.cost \in Int /\ n.deployment \in Nat
    BY DEF Tiers, Economy, Standard, Premium, Model
  <1> HIDE DEF pool
  <1>4. Cheapest(pool) # {} /\ Cheapest(pool) \subseteq pool
    BY <1>1, FirstModels DEF Cheapest
  <1>5. b \in Cheapest(pool)
    BY <1>1, <1>2, <1>4, FirstModels
  <1> HIDE DEF b
  <1>6. m \in pool
    BY <1>1, <1>3, <1>4, <1>5 DEF b, Farness
  <1>7. m \in Cheapest(pool)
    BY <1>5, <1>6 DEF Cheapest, b
  <1>8. \A n \in Cheapest(pool) : b.deployment <= n.deployment
    <2> DEFINE C == {n.deployment : n \in Cheapest(pool)}
    <2>1. C \subseteq Nat /\ C # {}
      BY <1>1, <1>3, <1>4
    <2> HIDE DEF C
    <2>2. PICK x \in C : \A y \in C : x <= y
      BY <2>1, Least
    <2>3. \E p \in Cheapest(pool) : \A n \in Cheapest(pool) : p.deployment <= n.deployment
      BY <2>2 DEF C
    <2> QED
      BY <1>2, <2>3 DEF FirstByName
  <1> QED
    BY <1>7, <1>8 DEF b

-----------------------------------------------------------------------------
(* Governance: what PolicyGate lets through, and how Plan uses it.         *)

\* Permitted, for any policy set and request.
Permits(p, r, m) ==
    /\ m.vendor \in p.approved
    /\ r.classification <= p.maxClass[m.vendor]
    /\ m.cost <= p.maxCost
    /\ p.regions = {} \/ r.region \in p.regions \cup {None}

\* The gate's chain of early returns lets through what a valid policy set permits.
LEMMA GateIsPolicy ==
    ASSUME NEW p \in PolicySet, Validate(p) = None, NEW r \in Request, NEW m \in Model
    PROVE  /\ Exclusion(m, p, r) \in ExclusionKind \cup {None}
           /\ Exclusion(m, p, r) = None <=> Permits(p, r, m)
  <1>1. DOMAIN p.maxClass = p.approved
    BY RoutingNullAssumption DEF Validate, PolicyValidationFailure
  <1>2. \A v \in p.approved : p.maxClass[v] \in Int
    <2>1. PICK V \in SUBSET Vendors : p.maxClass \in [V -> Classifications]
      BY DEF PolicySet
    <2> QED
      BY <1>1, <2>1 DEF Classifications
  <1>3. m.cost \in Int /\ p.maxCost \in Int /\ r.classification \in Int
    BY DEF Model, PolicySet, Request, Classifications
  <1>4. RegionBarred(p, r) <=> ~(p.regions = {} \/ r.region \in p.regions \cup {None})
    BY DEF RegionBarred
  <1> QED
    BY <1>1, <1>2, <1>3, <1>4, RoutingNullAssumption DEF Exclusion, Permits, ExclusionKind

\* What Plan has left to choose from.
Affordable(r, c, p) ==
    {m \in Eligible(c, p, r) : m.available /\ m.cost <= Min2(r.ceiling, p.maxCost)}

Indicated(r) == IndicatedTier(Score(r))

LEMMA IndicatedTyped == ASSUME NEW r PROVE Indicated(r) \in Tiers
  BY DEF Indicated, IndicatedTier, Tiers

\* Both sets, said without the gate and its order.
LEMMA GovernedSets ==
    ASSUME NEW p \in PolicySet, Validate(p) = None, NEW r \in Request, NEW c, c \subseteq Model
    PROVE  /\ Eligible(c, p, r) = {m \in c : Permits(p, r, m)}
           /\ Affordable(r, c, p) =
                {m \in c : Permits(p, r, m) /\ m.available /\ m.cost <= r.ceiling}
           /\ \A m \in Eligible(c, p, r) : m.cost > Min2(r.ceiling, p.maxCost) => m.cost > r.ceiling
  <1>1. \A m \in c : Exclusion(m, p, r) = None <=> Permits(p, r, m)
    BY GateIsPolicy
  <1>2. Eligible(c, p, r) = {m \in c : Permits(p, r, m)}
    BY <1>1 DEF Eligible
  <1>3. \A m \in c : m.cost \in Int
    BY DEF Model
  <1>4. p.maxCost \in Int /\ r.ceiling \in Int
    BY DEF PolicySet, Request
  <1>5. \A m \in c : Permits(p, r, m) => m.cost <= p.maxCost
    BY DEF Permits
  <1>6. \A m \in c : Permits(p, r, m) =>
          (m.cost <= Min2(r.ceiling, p.maxCost) <=> m.cost <= r.ceiling)
    BY <1>3, <1>4, <1>5 DEF Min2
  <1>7. Min2(r.ceiling, p.maxCost) \in Int
    BY <1>4 DEF Min2
  <1>8. \A m \in c : Permits(p, r, m) /\ m.cost > Min2(r.ceiling, p.maxCost) => m.cost > r.ceiling
    BY <1>3, <1>4, <1>6, <1>7
  <1> QED
    BY <1>2, <1>6, <1>8 DEF Affordable

\* The three ways out of Plan.
LEMMA PlanShape ==
    ASSUME NEW r, NEW c, NEW p
    PROVE  LET d == Plan(r, c, p)
               E == Eligible(c, p, r)
               A == Affordable(r, c, p)
               ceiling == Min2(r.ceiling, p.maxCost)
               b == Choose(A, Indicated(r))
           IN  /\ d.exclusions = Excluded(c, p, r)
               /\ E = {} =>
                    /\ d.outcome = "RefusedByPolicy" /\ d.selected = None
                    /\ d.candidates = Refused(r, c, Excluded(c, p, r)).candidates
               /\ E # {} /\ A = {} =>
                    /\ d.outcome = "Denied" /\ d.selected = None
                    /\ d.candidates = BuildCandidates(E, None, ceiling, None)
               /\ E # {} /\ A # {} =>
                    /\ d.outcome = (IF b.tier < Indicated(r) THEN "Downgraded" ELSE "Routed")
                    /\ d.selected = b
                    /\ d.candidates = BuildCandidates(E, b, ceiling, Indicated(r))
  <1> DEFINE d == Plan(r, c, p)
             E == Eligible(c, p, r)
             A == Affordable(r, c, p)
             ceiling == Min2(r.ceiling, p.maxCost)
             decided == Select(Score(r), ceiling, E)
             b == Choose(A, Indicated(r))
  <1>1. d.exclusions = Excluded(c, p, r)
    BY DEF Plan, Governed
  <1>2. E = {} => /\ d.outcome = "RefusedByPolicy" /\ d.selected = None
                  /\ d.candidates = Refused(r, c, Excluded(c, p, r)).candidates
    BY DEF Plan, Governed, Refused
  <1>3. E # {} => /\ d.outcome = decided.outcome /\ d.selected = decided.selected
                  /\ d.candidates = decided.candidates
    BY DEF Plan, Governed
  <1>4. A = {m \in E : m.available /\ m.cost <= ceiling}
    BY DEF Affordable
  <1>5. A = {} => /\ decided.outcome = "Denied" /\ decided.selected = None
                  /\ decided.candidates = BuildCandidates(E, None, ceiling, None)
    BY <1>4 DEF Select
  <1>6. A # {} => /\ decided.outcome = (IF b.tier < Indicated(r) THEN "Downgraded" ELSE "Routed")
                  /\ decided.selected = b
                  /\ decided.candidates = BuildCandidates(E, b, ceiling, Indicated(r))
    BY <1>4 DEF Select, Indicated
  <1> HIDE DEF d, E, A, decided, ceiling, b
  <1>7. /\ d.exclusions = Excluded(c, p, r)
        /\ E = {} =>
             /\ d.outcome = "RefusedByPolicy" /\ d.selected = None
             /\ d.candidates = Refused(r, c, Excluded(c, p, r)).candidates
        /\ E # {} /\ A = {} =>
             /\ d.outcome = "Denied" /\ d.selected = None
             /\ d.candidates = BuildCandidates(E, None, ceiling, None)
        /\ E # {} /\ A # {} =>
             /\ d.outcome = (IF b.tier < Indicated(r) THEN "Downgraded" ELSE "Routed")
             /\ d.selected = b
             /\ d.candidates = BuildCandidates(E, b, ceiling, Indicated(r))
    BY <1>1, <1>2, <1>3, <1>5, <1>6
  <1> QED
    BY <1>7 DEF d, E, A, ceiling, b

\* A model is selected exactly when one is affordable, and it is then the best of those.
LEMMA SelectedIsBest ==
    ASSUME NEW p \in PolicySet, NEW r \in Request, NEW c, c \subseteq Model
    PROVE  LET d == Plan(r, c, p)
               A == Affordable(r, c, p)
           IN  /\ d.selected = None <=> A = {}
               /\ A # {} => /\ d.selected = Choose(A, Indicated(r))
                            /\ BestOf(d.selected, A, Indicated(r))
  <1> DEFINE d == Plan(r, c, p)
             E == Eligible(c, p, r)
             A == Affordable(r, c, p)
  <1>1. A \subseteq E /\ A \subseteq Model
    BY DEF Affordable, Eligible
  <1>2. /\ E = {} => d.selected = None
        /\ E # {} /\ A = {} => d.selected = None
        /\ E # {} /\ A # {} => d.selected = Choose(A, Indicated(r))
    BY PlanShape
  <1> HIDE DEF d, E, A
  <1>3. A # {} => BestOf(Choose(A, Indicated(r)), A, Indicated(r))
    BY <1>1, IndicatedTyped, ChosenIsBest
  <1>4. A # {} => Choose(A, Indicated(r)) # None
    BY <1>1, <1>3, RoutingNullAssumption DEF BestOf
  <1>5. /\ d.selected = None <=> A = {}
        /\ A # {} => d.selected = Choose(A, Indicated(r)) /\ BestOf(d.selected, A, Indicated(r))
    BY <1>1, <1>2, <1>3, <1>4
  <1> QED
    BY <1>5 DEF d, A

-----------------------------------------------------------------------------
(* A question of the model lane and its answer.                            *)

ModelInv ==
    question.lane = "Model" =>
        /\ catalog \subseteq Model
        /\ policy \in PolicySet /\ Validate(policy) = None
        /\ req \in Request
        /\ answer # None => answer = Plan(req, catalog, policy)

LEMMA ModelInvariant == Spec => []ModelInv
  <1>1. Init => ModelInv
    <2> SUFFICES ASSUME Init, question.lane = "Model" PROVE ModelInv
      BY DEF ModelInv
    <2>1. answer = None
      BY DEF Init
    <2>2. question \in [lane: {"Model"}, catalog: Catalogs \ {{}},
                        policy: {p \in Policies : Validate(p) = None}, req: Requests]
      <3>1. \A q : q \in [lane: {"Route"}, order: Orders, quotes: (SUBSET Quotes) \ {{}}]
                     => q.lane = "Route"
        OBVIOUS
      <3>2. \A q : q \in [lane: {"Triage"}, batch: {b \in Batches : b.alerts # <<>>}]
                     => q.lane = "Triage"
        OBVIOUS
      <3> QED
        BY <3>1, <3>2 DEF Init
    <2>3. /\ question.catalog \in Catalogs /\ question.policy \in Policies
          /\ Validate(question.policy) = None /\ question.req \in Requests
      BY <2>2
    <2> QED
      BY <2>1, <2>3, PlannersAssumption DEF ModelInv, catalog, policy, req
  <1>2. ModelInv /\ [Next]_vars => ModelInv'
    <2> SUFFICES ASSUME ModelInv, [Next]_vars PROVE ModelInv'
      OBVIOUS
    <2>1. question' = question
      BY DEF Next, vars, PlanModel, PlanRoute, RankBatch
    <2>2. question.lane = "Model" =>
            answer' = answer \/ answer' = Plan(req, catalog, policy)
      BY DEF Next, vars, PlanModel, PlanRoute, RankBatch, Asked, catalog, policy, req
    <2> QED
      BY <2>1, <2>2 DEF ModelInv, catalog, policy, req
  <1> QED
    BY <1>1, <1>2, PTL DEF Spec

\* The names the properties use, for the general forms.
LEMMA InTheseTerms ==
    ASSUME ModelInv, Made
    PROVE  /\ decision = Plan(req, catalog, policy)
           /\ \A m : Permitted(m) = Permits(policy, req, m)
           /\ \A m : Distance(m) = Farness(m, Indicated(req))
  BY DEF ModelInv, Made, Answered, decision, Permitted, Permits, Distance, Farness, Indicated

\* The model TierSelector.Choose picks is permitted, up and affordable, and no such model is
\* nearer the indicated tier, or as near and cheaper.
THEOREM ServesBest == Spec => []BestPermitted
  <1>1. ModelInv => BestPermitted
    <2> SUFFICES ASSUME ModelInv, Selected PROVE BestPermitted
      BY DEF BestPermitted
    <2> DEFINE usable == {m \in catalog : Permitted(m) /\ m.available /\ m.cost <= req.ceiling}
               A == Affordable(req, catalog, policy)
               i == Indicated(req)
    <2>1. /\ decision = Plan(req, catalog, policy)
          /\ \A m : Permitted(m) = Permits(policy, req, m)
          /\ \A m : Distance(m) = Farness(m, i)
      BY InTheseTerms DEF Selected
    <2>2. catalog \subseteq Model /\ policy \in PolicySet /\ Validate(policy) = None /\ req \in Request
      BY DEF ModelInv, Selected, Made, Answered
    <2>3. A = usable
      BY <2>1, <2>2, GovernedSets
    <2>4. BestOf(decision.selected, A, i)
      BY <2>1, <2>2, SelectedIsBest DEF Selected
    <2> QED
      BY <2>1, <2>3, <2>4 DEF BestPermitted, BestOf
  <1> QED
    BY <1>1, ModelInvariant, PTL

\* Plan refuses only when no model is permitted, and denies only when every permitted one is
\* down or above the request's ceiling.
THEOREM TurnsAwayForCause == Spec => []TurnedAwayForCause
  <1>1. ModelInv => TurnedAwayForCause
    <2> SUFFICES ASSUME ModelInv, Made PROVE TurnedAwayForCause
      BY DEF TurnedAwayForCause
    <2> DEFINE E == Eligible(catalog, policy, req)
               A == Affordable(req, catalog, policy)
    <2>1. decision = Plan(req, catalog, policy) /\ \A m : Permitted(m) = Permits(policy, req, m)
      BY InTheseTerms
    <2>2. catalog \subseteq Model /\ policy \in PolicySet /\ Validate(policy) = None /\ req \in Request
      BY DEF ModelInv, Made, Answered
    <2>3. /\ E = {m \in catalog : Permitted(m)}
          /\ A = {m \in catalog : Permitted(m) /\ m.available /\ m.cost <= req.ceiling}
      BY <2>1, <2>2, GovernedSets
    <2>4. /\ E = {} => decision.outcome = "RefusedByPolicy"
          /\ E # {} /\ A = {} => decision.outcome = "Denied"
          /\ E # {} /\ A # {} => decision.outcome \in {"Downgraded", "Routed"}
      BY <2>1, PlanShape
    <2>5. \A m \in catalog : ~(m.cost <= req.ceiling) <=> m.cost > req.ceiling
      BY <2>2 DEF Model, Request
    <2> HIDE DEF E, A
    <2>6. E = {} <=> \A m \in catalog : ~Permitted(m)
      BY <2>3
    <2>7. A = {} <=> \A m \in catalog : Permitted(m) => ~m.available \/ m.cost > req.ceiling
      BY <2>3, <2>5
    <2>8. A \subseteq E
      BY <2>3
    <2> QED
      BY <2>4, <2>6, <2>7, <2>8 DEF TurnedAwayForCause
  <1> QED
    BY <1>1, ModelInvariant, PTL

\* Economics never sees what governance removed: Plan over the permitted models alone has the
\* same outcome and selects the same model.
THEOREM ExcludedHaveNoSay == Spec => []GovernanceFirst
  <1>1. ModelInv => GovernanceFirst
    <2> SUFFICES ASSUME ModelInv, Made PROVE GovernanceFirst
      BY DEF GovernanceFirst
    <2> DEFINE E == Eligible(catalog, policy, req)
    <2>1. decision = Plan(req, catalog, policy) /\ \A m : Permitted(m) = Permits(policy, req, m)
      BY InTheseTerms
    <2>2. catalog \subseteq Model /\ policy \in PolicySet /\ Validate(policy) = None /\ req \in Request
      BY DEF ModelInv, Made, Answered
    <2>3. E = {m \in catalog : Permitted(m)}
      BY <2>1, <2>2, GovernedSets
    <2>4. Eligible(E, policy, req) = E
      BY DEF Eligible
    <2> HIDE DEF E
    <2>5. Affordable(req, E, policy) = Affordable(req, catalog, policy)
      BY <2>4 DEF Affordable, E
    <2>6. E # {} => /\ Plan(req, E, policy).outcome = Plan(req, catalog, policy).outcome
                    /\ Plan(req, E, policy).selected = Plan(req, catalog, policy).selected
      <3> DEFINE A == Affordable(req, catalog, policy)
                 b == Choose(A, Indicated(req))
                 o == IF b.tier < Indicated(req) THEN "Downgraded" ELSE "Routed"
                 alone == Plan(req, E, policy)
                 all == Plan(req, catalog, policy)
      <3>1. /\ E # {} /\ A = {} => alone.outcome = "Denied" /\ alone.selected = None
            /\ E # {} /\ A # {} => alone.outcome = o /\ alone.selected = b
        BY <2>4, <2>5, PlanShape
      <3>2. /\ E # {} /\ A = {} => all.outcome = "Denied" /\ all.selected = None
            /\ E # {} /\ A # {} => all.outcome = o /\ all.selected = b
        BY PlanShape DEF E
      <3> QED
        BY <3>1, <3>2
    <2> QED
      BY <2>1, <2>3, <2>6 DEF GovernanceFirst
  <1> QED
    BY <1>1, ModelInvariant, PTL

\* A ceiling raised by any amount never loses a request its model, nor gives it one farther
\* from the indicated tier.
LEMMA RicherIsServed ==
    ASSUME ModelInv, Selected, NEW extra \in Nat
    PROVE  LET richer == Plan([req EXCEPT !.ceiling = @ + extra], catalog, policy)
           IN  /\ richer.selected # None
               /\ Distance(richer.selected) <= Distance(decision.selected)
  <1> DEFINE rich == [req EXCEPT !.ceiling = @ + extra]
             i == Indicated(req)
             A == Affordable(req, catalog, policy)
             B == Affordable(rich, catalog, policy)
  <1>1. decision = Plan(req, catalog, policy) /\ \A m : Distance(m) = Farness(m, i)
    BY InTheseTerms DEF Selected
  <1>2. catalog \subseteq Model /\ policy \in PolicySet /\ Validate(policy) = None /\ req \in Request
    BY DEF ModelInv, Selected, Made, Answered
  <1>3. /\ rich \in Request /\ rich.ceiling = req.ceiling + extra
        /\ rich.classification = req.classification /\ rich.region = req.region
        /\ rich.tokens = req.tokens /\ rich.multiStep = req.multiStep
        /\ rich.retrieval = req.retrieval /\ rich.toolCalls = req.toolCalls
    BY <1>2 DEF Request
  <1>4. Indicated(rich) = i
    BY <1>3 DEF Indicated, Score
  <1>5. \A m : Permits(policy, rich, m) = Permits(policy, req, m)
    BY <1>3 DEF Permits
  <1>6. A \subseteq B
    <2>1. /\ A = {m \in catalog : Permits(policy, req, m) /\ m.available /\ m.cost <= req.ceiling}
          /\ B = {m \in catalog : Permits(policy, rich, m) /\ m.available /\ m.cost <= rich.ceiling}
      BY <1>2, <1>3, GovernedSets
    <2>2. req.ceiling \in Int /\ \A m \in catalog : m.cost \in Int
      BY <1>2 DEF Request, Model
    <2>3. \A m \in catalog : m.cost <= req.ceiling => m.cost <= rich.ceiling
      BY <1>3, <2>2
    <2> QED
      BY <1>5, <2>1, <2>3
  <1>7. A # {} /\ BestOf(decision.selected, A, i)
    BY <1>1, <1>2, SelectedIsBest DEF Selected
  <1>8. B # {}
    BY <1>6, <1>7
  <1>9. Plan(rich, catalog, policy).selected # None /\ BestOf(Plan(rich, catalog, policy).selected, B, i)
    BY <1>2, <1>3, <1>4, <1>8, SelectedIsBest
  <1>10. B \subseteq Model
    BY <1>2 DEF Affordable, Eligible
  <1>11. \A m \in B : Farness(m, i) \in Int
    <2>1. i \in {0, 1, 2} /\ \A m \in B : m.tier \in {0, 1, 2}
      BY <1>10, IndicatedTyped DEF Model, Tiers, Economy, Standard, Premium
    <2> QED
      BY <2>1 DEF Farness
  <1> HIDE DEF A, B, rich, i
  <1>12. Farness(Plan(rich, catalog, policy).selected, i) <= Farness(decision.selected, i)
    BY <1>6, <1>7, <1>9, <1>11 DEF BestOf
  <1> QED
    BY <1>1, <1>9, <1>12 DEF rich

\* A caller willing to pay more is never served worse (TierSelector.Select).
THEOREM MoneyHelps == Spec => []MoreMoneyNeverHurts
  <1>1. ModelInv => MoreMoneyNeverHurts
    BY RicherIsServed DEF MoreMoneyNeverHurts
  <1> QED
    BY <1>1, ModelInvariant, PTL

\* What is true of a candidate of decision d for request r.
Fair(k, d, r) ==
    /\ k.selected <=> k.reason = None
    /\ k.reason = "Unavailable" => ~k.model.available
    /\ k.reason = "AboveCeiling" => k.model.cost > r.ceiling
    /\ k.reason = "SameTier" =>
         /\ k.model.tier = d.selected.tier
         /\ \/ k.model.cost > d.selected.cost
            \/ k.model.cost = d.selected.cost /\ k.model.deployment > d.selected.deployment
    /\ k.reason = "AboveIndicated" => k.model.tier > Indicated(r)
    /\ k.reason = "BelowIndicated" => k.model.tier < Indicated(r)

\* A refusal's candidates are the whole catalog, each with the exclusion of its own model.
LEMMA RefusedIsFair ==
    ASSUME NEW p \in PolicySet, Validate(p) = None, NEW r \in Request, NEW c, c \subseteq Model,
           Eligible(c, p, r) = {}, NEW d
    PROVE  LET K == Refused(r, c, Excluded(c, p, r)).candidates
           IN  /\ \A k \in K : k.model \in c /\ ~k.selected /\ Fair(k, d, r)
               /\ \A m \in c : \E k \in K : k.model = m
  <1> DEFINE X == Excluded(c, p, r)
             why(m) == (CHOOSE e \in X : e.deployment = m.deployment).kind
             K == {[model |-> m, selected |-> FALSE, reason |-> why(m)] : m \in c}
  <1>1. X = {[deployment |-> m.deployment, vendor |-> m.vendor, kind |-> Exclusion(m, p, r)] : m \in c}
    BY DEF Excluded
  <1>2. \A m \in c : Exclusion(m, p, r) \in ExclusionKind
    BY GateIsPolicy DEF Eligible
  <1>3. \A e \in X : e.kind \in ExclusionKind
    BY <1>1, <1>2
  <1>4. \A m \in c : \E e \in X : e.deployment = m.deployment
    <2> SUFFICES ASSUME NEW m \in c PROVE \E e \in X : e.deployment = m.deployment
      OBVIOUS
    <2>1. [deployment |-> m.deployment, vendor |-> m.vendor, kind |-> Exclusion(m, p, r)] \in X
      BY <1>1
    <2> QED
      BY <2>1
  <1> HIDE DEF X
  <1>5. \A m \in c : why(m) \in ExclusionKind
    BY <1>3, <1>4
  <1> HIDE DEF why
  <1>6. \A m \in c : why(m) # None /\ why(m) \notin RejectedKind
    BY <1>5, RoutingNullAssumption DEF ExclusionKind, RejectedKind
  <1>7. \A k \in K : k.model \in c /\ ~k.selected /\ Fair(k, d, r)
    BY <1>6 DEF Fair, RejectedKind
  <1>8. \A m \in c : \E k \in K : k.model = m
    <2> SUFFICES ASSUME NEW m \in c PROVE \E k \in K : k.model = m
      OBVIOUS
    <2>1. [model |-> m, selected |-> FALSE, reason |-> why(m)] \in K
      OBVIOUS
    <2> QED
      BY <2>1
  <1>9. Refused(r, c, X).candidates = K
    BY DEF Refused, why
  <1> HIDE DEF K
  <1> QED
    BY <1>7, <1>8, <1>9 DEF X

\* Otherwise the candidates are the eligible models, and what BuildCandidates says against
\* one is true of it.
LEMMA CandidatesAreFair ==
    ASSUME NEW p \in PolicySet, Validate(p) = None, NEW r \in Request, NEW c, c \subseteq Model,
           Eligible(c, p, r) # {}
    PROVE  LET d == Plan(r, c, p)
           IN  /\ \A k \in d.candidates :
                    /\ k.model \in Eligible(c, p, r) /\ Fair(k, d, r)
                    /\ k.selected <=> d.selected # None /\ k.model.deployment = d.selected.deployment
               /\ \A m \in Eligible(c, p, r) : \E k \in d.candidates : k.model = m
  <1> DEFINE d == Plan(r, c, p)
             E == Eligible(c, p, r)
             A == Affordable(r, c, p)
             ceiling == Min2(r.ceiling, p.maxCost)
             i == Indicated(r)
             tier == IF A = {} THEN None ELSE i
             why(m) == RejectedReason(m, d.selected, ceiling, tier)
             is(m) == d.selected # None /\ m.deployment = d.selected.deployment
  <1>1. d.candidates = {[model |-> m, selected |-> is(m), reason |-> why(m)] : m \in E}
    <2>1. d.candidates = BuildCandidates(E, d.selected, ceiling, tier)
      <3>1. CASE A = {}
        <4>1. d.selected = None /\ d.candidates = BuildCandidates(E, None, ceiling, None)
          BY <3>1, PlanShape
        <4> QED
          BY <3>1, <4>1
      <3>2. CASE A # {}
        <4>1. d.selected = Choose(A, i) /\ d.candidates = BuildCandidates(E, Choose(A, i), ceiling, i)
          BY <3>2, PlanShape
        <4> QED
          BY <3>2, <4>1
      <3> QED
        BY <3>1, <3>2
    <2> QED
      BY <2>1 DEF BuildCandidates
  <1>2. /\ d.selected = None <=> A = {}
        /\ A # {} => BestOf(d.selected, A, i) /\ d.selected = Choose(A, i)
    BY SelectedIsBest
  <1>3. /\ \A m \in E : m.cost > ceiling => m.cost > r.ceiling
        /\ A = {m \in E : m.available /\ m.cost <= ceiling}
        /\ E \subseteq c /\ E \subseteq Model
    BY GovernedSets DEF Affordable, Eligible
  <1>4. /\ i \in {0, 1, 2} /\ i # None /\ ceiling \in Int
        /\ \A m \in E : m.tier \in {0, 1, 2} /\ m.cost \in Int /\ m.deployment \in Int
    BY <1>3, IndicatedTyped, RoutingAssumption
       DEF Tiers, Economy, Standard, Premium, Model, Min2, Request, PolicySet
  <1>5. i \in Tiers
    BY IndicatedTyped
  <1> HIDE DEF d, E, A, ceiling, i, why, is
  <1>6. ASSUME NEW m \in E
        PROVE  /\ is(m) <=> why(m) = None
               /\ why(m) = "Unavailable" => ~m.available
               /\ why(m) = "AboveCeiling" => m.cost > r.ceiling
               /\ why(m) = "SameTier" =>
                    /\ m.tier = d.selected.tier
                    /\ \/ m.cost > d.selected.cost
                       \/ m.cost = d.selected.cost /\ m.deployment > d.selected.deployment
               /\ why(m) = "AboveIndicated" => m.tier > i
               /\ why(m) = "BelowIndicated" => m.tier < i
    <2>1. is(m) => why(m) = None
      BY DEF is, why, RejectedReason
    <2>2. ~is(m) => why(m) \in RejectedKind
      BY DEF is, why, RejectedReason, RejectedKind
    <2>3. why(m) = "Unavailable" => ~m.available
      BY <2>1, RoutingNullAssumption DEF is, why, RejectedReason, RejectedKind
    <2>4. why(m) = "AboveCeiling" => m.cost > ceiling
      BY <2>1, RoutingNullAssumption DEF is, why, RejectedReason, RejectedKind
    <2>5. m \in A => A # {} /\ BestOf(d.selected, A, i) /\ d.selected \in E
      BY <1>2, <1>3 DEF BestOf
    <2>6. why(m) \in {"SameTier", "AboveIndicated", "BelowIndicated"} => m \in A
      BY <1>3, <1>4, <2>1, RoutingNullAssumption DEF is, why, RejectedReason, RejectedKind
    <2>7. why(m) = "SameTier" => m.tier = d.selected.tier
      BY <2>1, RoutingNullAssumption DEF is, why, RejectedReason, RejectedKind
    <2>8. why(m) = "SameTier" =>
            \/ m.cost > d.selected.cost
            \/ m.cost = d.selected.cost /\ m.deployment > d.selected.deployment
      <3> SUFFICES ASSUME why(m) = "SameTier"
                   PROVE  \/ m.cost > d.selected.cost
                          \/ m.cost = d.selected.cost /\ m.deployment > d.selected.deployment
        OBVIOUS
      <3>1. m \in A /\ d.selected \in E /\ m.tier = d.selected.tier /\ BestOf(d.selected, A, i)
        BY <2>5, <2>6, <2>7
      <3>2. Farness(m, i) = Farness(d.selected, i) /\ Farness(m, i) \in Int
        BY <1>4, <3>1 DEF Farness
      <3>3. d.selected.cost <= m.cost
        BY <3>1, <3>2 DEF BestOf
      <3>4. m.cost = d.selected.cost => d.selected.deployment <= m.deployment
        <4>1. A \subseteq Model /\ d.selected = Choose(A, i)
          BY <1>2, <1>3, <3>1
        <4> QED
          BY <1>5, <3>1, <3>2, <4>1, ChosenIsFirst
      \* The selected name would make it the selected one.
      <3>5. m.deployment # d.selected.deployment
        <4>1. A # {} /\ d.selected # None
          BY <1>2, <3>1
        <4>2. ~is(m)
          BY <2>1, RoutingNullAssumption DEF RejectedKind
        <4> QED
          BY <4>1, <4>2 DEF is
      <3> QED
        BY <1>4, <3>1, <3>3, <3>4, <3>5
    <2>9. why(m) = "AboveIndicated" => m.tier > i
      BY <1>2, <2>1, <2>5, <2>6, RoutingNullAssumption DEF is, why, RejectedReason, RejectedKind
    <2>10. why(m) = "BelowIndicated" => m.tier < i
      <3> SUFFICES ASSUME why(m) = "BelowIndicated" PROVE m.tier < i
        OBVIOUS
      <3>1. m \in A /\ d.selected \in E /\ BestOf(d.selected, A, i)
        BY <2>5, <2>6
      <3>2. A # {} /\ d.selected # None
        BY <1>2, <3>1
      <3>3. m.tier # d.selected.tier /\ ~(m.tier > i)
        BY <1>4, <2>1, <3>2, RoutingNullAssumption DEF is, why, RejectedReason, RejectedKind
      <3>4. m.tier # i
        BY <1>4, <3>1, <3>3 DEF BestOf, Farness
      <3> QED
        BY <1>4, <3>3, <3>4
    <2> QED
      BY <1>3, <2>1, <2>2, <2>3, <2>4, <2>7, <2>8, <2>9, <2>10, RoutingNullAssumption
  <1>7. \A k \in d.candidates :
          /\ k.model \in E /\ k.selected = is(k.model) /\ k.reason = why(k.model)
    BY <1>1
  <1>8. \A k \in d.candidates : k.model \in E /\ Fair(k, d, r) /\ (k.selected <=> is(k.model))
    BY <1>6, <1>7 DEF Fair, i
  <1>9. \A m \in E : \E k \in d.candidates : k.model = m
    <2> SUFFICES ASSUME NEW m \in E PROVE \E k \in d.candidates : k.model = m
      OBVIOUS
    <2>1. [model |-> m, selected |-> is(m), reason |-> why(m)] \in d.candidates
      BY <1>1
    <2> QED
      BY <2>1
  <1> QED
    BY <1>8, <1>9 DEF d, E, is

\* The record accounts for every deployment of the catalog: a candidate or an exclusion for
\* each, only the selected one without a reason against it, and of every other the cause that
\* it was: down, too dear, another tier, or of the same tier and dearer or, as dear, later by
\* name (TierSelector.BuildCandidates).
THEOREM RecordAccountsForAll == Spec => []EveryModelAccounted
  <1>1. ModelInv => EveryModelAccounted
    <2> SUFFICES ASSUME ModelInv, Made PROVE EveryModelAccounted
      BY DEF EveryModelAccounted
    <2> DEFINE E == Eligible(catalog, policy, req)
               K == decision.candidates
               X == decision.exclusions
    <2>1. decision = Plan(req, catalog, policy)
      BY InTheseTerms
    <2>2. /\ catalog \subseteq Model /\ policy \in PolicySet /\ Validate(policy) = None /\ req \in Request
      BY DEF ModelInv, Made, Answered
    <2>3. X = Excluded(catalog, policy, req)
      BY <2>1, PlanShape
    <2>4. \A e \in X : \E m \in catalog \ E : e.deployment = m.deployment
      BY <2>3 DEF Excluded
    <2>5. \A m \in catalog \ E : \E e \in X : e.deployment = m.deployment
      <3> SUFFICES ASSUME NEW m \in catalog \ E PROVE \E e \in X : e.deployment = m.deployment
        OBVIOUS
      <3>1. [deployment |-> m.deployment, vendor |-> m.vendor,
             kind |-> Exclusion(m, policy, req)] \in X
        BY <2>3 DEF Excluded
      <3> QED
        BY <3>1
    <2>6. E \subseteq catalog
      BY DEF Eligible
    <2>7. /\ \A k \in K :
               /\ k.model \in catalog /\ Fair(k, decision, req)
               /\ k.selected <=> /\ decision.selected # None
                                 /\ k.model.deployment = decision.selected.deployment
          /\ \A m \in E : \E k \in K : k.model = m
          /\ decision.selected # None => decision.selected \in E
      <3>1. CASE E = {}
        <4>1. decision.selected = None /\ K = Refused(req, catalog, X).candidates
          BY <2>1, <2>3, <3>1, PlanShape
        <4>2. \A k \in K : k.model \in catalog /\ ~k.selected /\ Fair(k, decision, req)
          BY <2>2, <2>3, <3>1, <4>1, RefusedIsFair
        <4> QED
          BY <3>1, <4>1, <4>2
      <3>2. CASE E # {}
        <4>1. /\ \A k \in K :
                   /\ k.model \in E /\ Fair(k, decision, req)
                   /\ k.selected <=> /\ decision.selected # None
                                     /\ k.model.deployment = decision.selected.deployment
              /\ \A m \in E : \E k \in K : k.model = m
          BY <2>1, <2>2, <3>2, CandidatesAreFair
        <4>2. Affordable(req, catalog, policy) \subseteq E
          BY DEF Affordable
        <4>3. decision.selected # None => decision.selected \in Affordable(req, catalog, policy)
          BY <2>1, <2>2, SelectedIsBest DEF BestOf
        <4> QED
          BY <2>6, <4>1, <4>2, <4>3
      <3> QED
        BY <3>1, <3>2
    <2> HIDE DEF E, K, X
    <2>8. {k.model.deployment : k \in K} \cup {e.deployment : e \in X} = {m.deployment : m \in catalog}
      <3>1. ASSUME NEW m \in catalog
            PROVE  m.deployment \in {k.model.deployment : k \in K} \cup {e.deployment : e \in X}
        <4>1. CASE m \in E
          <5>1. PICK k \in K : k.model = m
            BY <2>7, <4>1
          <5> QED
            BY <5>1
        <4>2. CASE m \notin E
          <5>1. PICK e \in X : e.deployment = m.deployment
            BY <2>5, <4>2
          <5> QED
            BY <5>1
        <4> QED
          BY <4>1, <4>2
      <3>2. \A k \in K : k.model.deployment \in {m.deployment : m \in catalog}
        BY <2>7
      <3>3. \A e \in X : e.deployment \in {m.deployment : m \in catalog}
        BY <2>4
      <3> QED
        BY <3>1, <3>2, <3>3
    <2>9. {c.model.deployment : c \in {k \in K : k.selected}} =
            (IF Selected THEN {decision.selected.deployment} ELSE {})
      <3>1. Selected <=> decision.selected # None
        BY DEF Selected
      <3>2. CASE decision.selected = None
        <4>1. {k \in K : k.selected} = {}
          BY <2>7, <3>2
        <4> QED
          BY <3>1, <3>2, <4>1
      <3>3. CASE decision.selected # None
        <4>1. PICK k \in K : k.model = decision.selected
          BY <2>7, <3>3
        <4>2. k.selected
          BY <2>7, <3>3, <4>1
        <4>3. \A c \in {j \in K : j.selected} : c.model.deployment = decision.selected.deployment
          BY <2>7
        <4>4. decision.selected.deployment \in {c.model.deployment : c \in {j \in K : j.selected}}
          BY <4>1, <4>2
        <4> QED
          BY <3>1, <3>3, <4>3, <4>4
      <3> QED
        BY <3>2, <3>3
    <2>10. \A k \in K : Fair(k, decision, req)
      BY <2>7
    <2> QED
      BY <2>8, <2>9, <2>10 DEF EveryModelAccounted, K, X, Fair, Indicated
  <1> QED
    BY <1>1, ModelInvariant, PTL

\* Where a name is one model, 503 is answered exactly when every permitted model was down, and
\* a 402 only when one was up (RouteStatusMapper).
THEOREM StatusIsTrue == Spec => []StatusTellsWhy
  <1>1. ModelInv => StatusTellsWhy
    <2> SUFFICES ASSUME ModelInv, Made, UniqueNames PROVE StatusTellsWhy
      BY DEF StatusTellsWhy
    <2> DEFINE E == Eligible(catalog, policy, req)
               X == decision.exclusions
               permitted == {m \in catalog : m.deployment \notin {e.deployment : e \in X}}
    <2>1. decision = Plan(req, catalog, policy) /\ \A m : Permitted(m) = Permits(policy, req, m)
      BY InTheseTerms
    <2>2. /\ catalog \subseteq Model /\ policy \in PolicySet /\ Validate(policy) = None /\ req \in Request
          /\ \A m, n \in catalog : m.deployment = n.deployment => m = n
      BY DEF ModelInv, Made, Answered, UniqueNames
    <2>3. E = {m \in catalog : Permitted(m)}
      BY <2>1, <2>2, GovernedSets
    <2>4. X = Excluded(catalog, policy, req)
      BY <2>1, PlanShape
    <2>5. \A e \in X : \E m \in catalog \ E : e.deployment = m.deployment
      BY <2>4 DEF Excluded
    <2>6. \A m \in catalog \ E : m.deployment \in {e.deployment : e \in X}
      <3> SUFFICES ASSUME NEW m \in catalog \ E PROVE \E e \in X : e.deployment = m.deployment
        BY Zenon
      <3>1. [deployment |-> m.deployment, vendor |-> m.vendor,
             kind |-> Exclusion(m, policy, req)] \in X
        BY <2>4 DEF Excluded
      <3> QED
        BY <3>1
    <2>7. E \subseteq catalog
      BY DEF Eligible
    <2> HIDE DEF X
    <2>8. permitted = E
      <3> HIDE DEF E
      <3>1. \A m \in E : m.deployment \notin {e.deployment : e \in X}
        BY <2>2, <2>5, <2>7
      <3> QED
        BY <2>6, <2>7, <3>1
    <2>9. NoPermittedModelAvailable(decision, catalog) <=> (E # {} /\ \A m \in E : ~m.available)
      BY <2>8 DEF NoPermittedModelAvailable, X
    <2>10. decision.outcome = "Denied" => E # {}
      BY <2>1, PlanShape
    <2>11. CASE decision.outcome = "Denied"
      BY <2>3, <2>9, <2>10, <2>11 DEF StatusTellsWhy, StatusFor
    <2>12. CASE decision.outcome # "Denied"
      BY <2>12 DEF StatusTellsWhy, StatusFor
    <2> QED
      BY <2>11, <2>12
  <1> QED
    BY <1>1, ModelInvariant, PTL

-----------------------------------------------------------------------------
(* The cost model's arithmetic.                                            *)

\* Rounding is off by at most a half.
LEMMA RoundDivBound ==
    ASSUME NEW n \in Nat, NEW d \in Nat \ {0}
    PROVE  RoundDiv(n, d) \in Nat /\ 2 * n <= (2 * RoundDiv(n, d) + 1) * d
  <1> DEFINE q == n \div d
             r == n % d
  <1>1. q \in Nat /\ r \in Nat /\ r < d /\ n = d * q + r
    BY SMT
  <1> HIDE DEF q, r
  <1>2. CASE 2 * r < d \/ (2 * r = d /\ q % 2 = 0)
    <2>1. RoundDiv(n, d) = q
      BY <1>2 DEF RoundDiv, q, r
    <2>2. 2 * n <= (2 * q + 1) * d
      BY <1>1, <1>2, SMT
    <2> QED
      BY <1>1, <2>1, <2>2
  <1>3. CASE ~(2 * r < d \/ (2 * r = d /\ q % 2 = 0))
    <2>1. RoundDiv(n, d) = q + 1
      BY <1>3 DEF RoundDiv, q, r
    <2>2. 2 * n <= (2 * (q + 1) + 1) * d
      BY <1>1, SMT
    <2> QED
      BY <1>1, <2>1, <2>2
  <1> QED
    BY <1>2, <1>3

LEMMA RoundDivTyped ==
    ASSUME NEW n \in Int, NEW d \in Nat \ {0}
    PROVE  RoundDiv(n, d) \in Int
  <1>1. n \div d \in Int
    BY SMT
  <1> QED
    BY <1>1 DEF RoundDiv

\* Of two numbers the greater one is not rounded below the other.
LEMMA RoundDivMonotone ==
    ASSUME NEW m \in Int, NEW n \in Int, NEW d \in Nat \ {0}, m <= n
    PROVE  RoundDiv(m, d) <= RoundDiv(n, d)
  <1> DEFINE qm == m \div d
             rm == m % d
             qn == n \div d
             rn == n % d
  <1>1. /\ qm \in Int /\ rm \in Int /\ 0 <= rm /\ rm < d /\ m = d * qm + rm
        /\ qn \in Int /\ rn \in Int /\ 0 <= rn /\ rn < d /\ n = d * qn + rn
    BY SMT
  <1>2. /\ RoundDiv(m, d) = IF 2 * rm < d \/ (2 * rm = d /\ qm % 2 = 0) THEN qm ELSE qm + 1
        /\ RoundDiv(n, d) = IF 2 * rn < d \/ (2 * rn = d /\ qn % 2 = 0) THEN qn ELSE qn + 1
    BY DEF RoundDiv
  <1> HIDE DEF qm, rm, qn, rn
  <1>3. qm <= qn
    <2> SUFFICES ASSUME qn + 1 <= qm PROVE FALSE
      BY <1>1
    <2>1. d * (qn + 1) <= d * qm
      BY <1>1, SMT
    <2>2. d * (qn + 1) = d * qn + d
      BY <1>1, SMT
    <2>3. d * qm \in Int /\ d * qn \in Int
      BY <1>1, SMT
    <2> HIDE DEF qm
    <2> QED
      BY <1>1, <2>1, <2>2, <2>3
  <1>4. CASE qm < qn
    BY <1>1, <1>2, <1>4
  <1>5. CASE qm = qn
    <2>1. rm <= rn
      <3>1. d * qm \in Int
        BY <1>1, SMT
      <3> QED
        BY <1>1, <1>5, <3>1
    <2> QED
      BY <1>1, <1>2, <1>5, <2>1
  <1> QED
    BY <1>1, <1>3, <1>4, <1>5

\* What rounds to k or less was above k by a half at most, and what is within k rounds to k or
\* less.
LEMMA RoundDivWithin ==
    ASSUME NEW n \in Int, NEW d \in Nat \ {0}, NEW k \in Nat
    PROVE  /\ RoundDiv(n, d) <= k => 2 * n <= (2 * k + 1) * d
           /\ n <= k * d => RoundDiv(n, d) <= k
  <1>1. ASSUME RoundDiv(n, d) <= k PROVE 2 * n <= (2 * k + 1) * d
    <2>1. (2 * k + 1) * d \in Nat
      BY SMT
    <2>2. CASE n < 0
      BY <2>1, <2>2
    <2>3. CASE n \in Nat
      <3>1. RoundDiv(n, d) \in Nat /\ 2 * n <= (2 * RoundDiv(n, d) + 1) * d
        BY <2>3, RoundDivBound
      <3>2. ASSUME NEW x \in Nat, x <= k PROVE (2 * x + 1) * d <= (2 * k + 1) * d
        BY <3>2, SMT
      <3>3. (2 * RoundDiv(n, d) + 1) * d <= (2 * k + 1) * d
        BY <1>1, <3>1, <3>2
      <3>4. (2 * RoundDiv(n, d) + 1) * d \in Int
        BY <3>1, SMT
      <3> QED
        BY <2>1, <3>1, <3>3, <3>4
    <2> QED
      BY <2>2, <2>3
  <1>2. ASSUME n <= k * d PROVE RoundDiv(n, d) <= k
    <2>1. k * d \in Int /\ (k * d) \div d = k /\ (k * d) % d = 0
      BY SMT
    <2>2. RoundDiv(k * d, d) = k
      BY <2>1 DEF RoundDiv
    <2> QED
      BY <1>2, <2>1, <2>2, RoundDivMonotone
  <1> QED
    BY <1>1, <1>2

\* The types of an order and of a quote.
IsOrder(o) == o.side \in {"Buy", "Sell"} /\ o.quantity \in Nat /\ o.limit \in Nat \cup {None}

IsQuote(q) ==
    /\ q.venue \in Nat /\ q.dark \in BOOLEAN /\ q.mid \in Nat
    /\ q.spread \in Int /\ q.liquidity \in Int /\ q.fee \in Int

LEMMA CostsTyped ==
    ASSUME NEW o, IsOrder(o), NEW q, IsQuote(q)
    PROVE  /\ Participation(o, q) \in Nat /\ TotalCost(o, q) \in Int
           /\ ProjectedPrice(o, q) \in Int
  <1>1. o.quantity \in Nat /\ q.mid \in Nat /\ q.spread \in Int /\ q.liquidity \in Int /\ q.fee \in Int
    BY DEF IsOrder, IsQuote
  <1>2. One \in Nat \ {0} /\ Unbounded \in Nat
    BY DEF One, Unbounded
  <1>3. Participation(o, q) \in Nat
    <2>1. CASE q.liquidity <= 0
      BY <1>2, <2>1 DEF Participation
    <2>2. CASE ~(q.liquidity <= 0)
      <3>1. q.liquidity \in Nat \ {0} /\ o.quantity * One \in Nat
        BY <1>1, <1>2, <2>2, SMT
      <3> QED
        BY <2>2, <3>1, RoundDivBound DEF Participation
    <2> QED
      BY <2>1, <2>2
  <1>4. SpreadCost(q) \in Int
    <2>1. CASE q.mid = 0 \/ q.dark
      BY <2>1 DEF SpreadCost
    <2>2. CASE ~(q.mid = 0 \/ q.dark)
      <3>1. q.spread * One \in Int /\ 2 * q.mid \in Nat \ {0}
        BY <1>1, <1>2, <2>2, SMT
      <3> QED
        BY <2>2, <3>1, RoundDivTyped DEF SpreadCost
    <2> QED
      BY <2>1, <2>2
  <1>5. Impact(o, q) \in Int
    <2> DEFINE share == IF Participation(o, q) < One THEN Participation(o, q) ELSE One
    <2>1. share \in Int /\ Policy.impact \in Int
      BY <1>2, <1>3, BestExecutionAssumption
    <2> HIDE DEF share
    <2>2. Policy.impact * share \in Int
      BY <2>1, SMT
    <2> QED
      BY <2>2, RoundDivTyped DEF Impact, share
  <1>6. TotalCost(o, q) \in Int
    BY <1>1, <1>4, <1>5 DEF TotalCost
  <1>7. ProjectedPrice(o, q) \in Int
    <2> DEFINE signed == IF o.side = "Buy" THEN TotalCost(o, q) ELSE -TotalCost(o, q)
    <2>1. One + signed \in Int
      BY <1>2, <1>6
    <2> HIDE DEF signed
    <2>2. q.mid * (One + signed) \in Int
      BY <1>1, <2>1, SMT
    <2> QED
      BY <1>2, <2>2, RoundDivTyped DEF ProjectedPrice, signed
  <1> QED
    BY <1>3, <1>6, <1>7

\* A finite set has a member of least cost, costs being possibly negative.
LEMMA LeastCost ==
    ASSUME NEW S, IsFiniteSet(S), S # {}, NEW f \in [S -> Int]
    PROVE  \E x \in S : \A y \in S : f[x] <= f[y]
  <1> DEFINE Under(x) == {z \in S : f[z] < f[x]}
             N == {Cardinality(Under(x)) : x \in S}
  <1>1. \A x \in S : IsFiniteSet(Under(x)) /\ Cardinality(Under(x)) \in Nat
    BY FS_Subset, FS_CardinalityType
  <1>2. N \subseteq Nat /\ N # {}
    BY <1>1
  <1> HIDE DEF N
  <1>3. PICK k \in N : \A l \in N : k <= l
    BY <1>2, Least
  <1>4. PICK x \in S : k = Cardinality(Under(x))
    BY DEF N
  <1>5. \A y \in S : Cardinality(Under(x)) <= Cardinality(Under(y))
    BY <1>3, <1>4 DEF N
  <1>6. ASSUME NEW y \in S, f[y] < f[x]
        PROVE  FALSE
    <2>1. Under(y) \subseteq Under(x) /\ y \in Under(x) /\ y \notin Under(y)
      BY <1>6
    <2> HIDE DEF Under
    <2>2. /\ Cardinality(Under(y)) <= Cardinality(Under(x))
          /\ Cardinality(Under(x)) = Cardinality(Under(y)) => Under(x) = Under(y)
      BY <1>1, <2>1, FS_Subset
    <2>3. Cardinality(Under(x)) \in Nat /\ Cardinality(Under(y)) \in Nat
      BY <1>1
    <2> QED
      BY <1>5, <2>1, <2>2, <2>3
  <1>7. \A y \in S : f[x] <= f[y]
    BY <1>6
  <1> QED
    BY <1>7

-----------------------------------------------------------------------------
(* Which venue RoutePlanner picks.                                         *)

\* The venues that breach nothing.
Clear(o, Q) == {q \in Q : Breaches(o, q) = {}}

\* q is a venue no other of S is better than: cheaper, or as cheap with an earlier code.
CheapestOf(q, S, o) ==
    /\ q \in S
    /\ \A r \in S : \/ TotalCost(o, q) < TotalCost(o, r)
                    \/ TotalCost(o, q) = TotalCost(o, r) /\ q.venue <= r.venue

LEMMA WinnerIsCheapest ==
    ASSUME NEW o, IsOrder(o), NEW Q, IsFiniteSet(Q), \A q \in Q : IsQuote(q), Clear(o, Q) # {}
    PROVE  CheapestOf(Winner(o, Q), Clear(o, Q), o)
  <1> DEFINE S == Clear(o, Q)
             best == {q \in S : \A r \in S : TotalCost(o, q) <= TotalCost(o, r)}
  <1>1. S \subseteq Q /\ IsFiniteSet(S)
    BY FS_Subset DEF Clear
  <1>2. \A q \in S : TotalCost(o, q) \in Int /\ q.venue \in Nat
    BY <1>1, CostsTyped DEF IsQuote
  <1>3. best # {}
    <2> DEFINE f == [q \in S |-> TotalCost(o, q)]
    <2>1. f \in [S -> Int]
      BY <1>2
    <2>2. \A q \in S : f[q] = TotalCost(o, q)
      OBVIOUS
    <2> HIDE DEF f, S
    <2>3. PICK x \in S : \A y \in S : f[x] <= f[y]
      BY <1>1, <2>1, LeastCost DEF S
    <2> QED
      BY <2>2, <2>3
  <1>4. best \subseteq S /\ \A q \in best, r \in S : TotalCost(o, q) <= TotalCost(o, r)
    OBVIOUS
  <1>5. \A r \in S : (\E q \in best : TotalCost(o, q) = TotalCost(o, r)) => r \in best
    OBVIOUS
  <1>6. Winner(o, Q) = CHOOSE q \in best : \A r \in best : q.venue <= r.venue
    BY DEF Winner, Clear
  <1> HIDE DEF S, best
  <1>7. \E q \in best : \A r \in best : q.venue <= r.venue
    <2> DEFINE V == {q.venue : q \in best}
    <2>1. V \subseteq Nat /\ V # {}
      BY <1>2, <1>3, <1>4
    <2> HIDE DEF V
    <2>2. PICK v \in V : \A w \in V : v <= w
      BY <2>1, Least
    <2> QED
      BY <2>2 DEF V
  <1>8. Winner(o, Q) \in best /\ \A r \in best : Winner(o, Q).venue <= r.venue
    BY <1>6, <1>7
  <1>9. CheapestOf(Winner(o, Q), S, o)
    BY <1>2, <1>4, <1>5, <1>8 DEF CheapestOf
  <1> QED
    BY <1>9 DEF S

\* An order is let through exactly when it is within the notional ceiling and a venue is clear.
LEMMA LetThrough ==
    ASSUME NEW o, NEW Q, Q # {}
    PROVE  HaltedBy(o, Q) = {} <=> ~NotionalExceeded(o) /\ Clear(o, Q) # {}
  <1>1. CASE NotionalExceeded(o)
    BY <1>1 DEF HaltedBy
  <1>2. CASE ~NotionalExceeded(o) /\ Clear(o, Q) # {}
    BY <1>2 DEF HaltedBy, Clear
  <1>3. CASE ~NotionalExceeded(o) /\ Clear(o, Q) = {}
    <2>1. \A q \in Q : Breaches(o, q) # {}
      BY <1>3 DEF Clear
    <2>2. HaltedBy(o, Q) = UNION {Breaches(o, q) : q \in Q}
      BY <1>3, <2>1 DEF HaltedBy
    <2>3. PICK q \in Q : TRUE
      OBVIOUS
    <2>4. PICK b : b \in Breaches(o, q)
      BY <2>1
    <2>5. b \in UNION {Breaches(o, s) : s \in Q}
      BY <2>4
    <2> QED
      BY <1>3, <2>2, <2>5
  <1> QED
    BY <1>1, <1>2, <1>3

\* What having no breach says about a venue.
LEMMA ClearIsWithinPolicy ==
    ASSUME NEW o, IsOrder(o), NEW q, IsQuote(q), Breaches(o, q) = {}
    PROVE  /\ q.venue \in Policy.approved
           /\ q.dark => o.quantity >= Policy.darkMinimum
           /\ 2 * o.quantity * One <= (2 * Policy.maxParticipation + 1) * q.liquidity
           /\ q.mid # 0 => 2 * q.spread * One <= (2 * Policy.maxSpread + 1) * q.mid
           /\ ~ThroughLimit(o, q)
  <1> DEFINE P == Participation(o, q)
             M == Policy.maxParticipation
  <1>1. /\ q.venue \in Policy.approved
        /\ ~(q.dark /\ o.quantity < Policy.darkMinimum)
        /\ ~(P > M) /\ ~ThroughLimit(o, q)
        /\ ~(q.mid # 0 /\ RoundDiv(q.spread * One, q.mid) > Policy.maxSpread)
    <2>1. \A b \in Boundary : b \notin Breaches(o, q)
      OBVIOUS
    <2>2. /\ "VenueNotApproved" \in Boundary /\ "DarkPoolMinimumSize" \in Boundary
          /\ "ParticipationRateExceeded" \in Boundary /\ "LimitPriceBreached" \in Boundary
          /\ "SpreadToleranceExceeded" \in Boundary
      BY DEF Boundary
    <2> QED
      BY <2>1, <2>2 DEF Breaches
  <1>2. o.quantity \in Nat /\ q.liquidity \in Int /\ M \in Nat /\ Policy.darkMinimum \in Nat /\ P \in Nat
    BY CostsTyped, BestExecutionAssumption DEF IsOrder, IsQuote
  <1>3. M < Unbounded /\ Unbounded \in Nat
    BY UnboundedAssumption DEF Unbounded, One
  <1>4. P <= M
    BY <1>1, <1>2
  <1>5. q.liquidity > 0
    BY <1>2, <1>3, <1>4 DEF Participation
  <1>6. P = RoundDiv(o.quantity * One, q.liquidity)
    BY <1>2, <1>5 DEF Participation
  <1>7. o.quantity * One \in Nat /\ q.liquidity \in Nat \ {0}
    BY <1>2, <1>5 DEF One
  <1> HIDE DEF P, M
  <1>8. 2 * (o.quantity * One) <= (2 * P + 1) * q.liquidity
    BY <1>6, <1>7, RoundDivBound
  <1>9. (2 * P + 1) * q.liquidity <= (2 * M + 1) * q.liquidity
    <2>1. ASSUME NEW x \in Nat, NEW y \in Nat, NEW z \in Nat, x <= y
          PROVE  (2 * x + 1) * z <= (2 * y + 1) * z
      BY <2>1, SMT
    <2> QED
      BY <1>2, <1>4, <1>7, <2>1
  <1>10. 2 * o.quantity * One <= (2 * M + 1) * q.liquidity
    <2>1. 2 * o.quantity * One = 2 * (o.quantity * One)
      BY <1>2 DEF One
    <2>2. /\ 2 * (o.quantity * One) \in Int
          /\ (2 * P + 1) * q.liquidity \in Int /\ (2 * M + 1) * q.liquidity \in Int
      BY <1>2, <1>7, SMT
    <2> QED
      BY <1>8, <1>9, <2>1, <2>2
  <1>11. q.mid # 0 => 2 * q.spread * One <= (2 * Policy.maxSpread + 1) * q.mid
    <2> SUFFICES ASSUME q.mid # 0
                 PROVE  2 * q.spread * One <= (2 * Policy.maxSpread + 1) * q.mid
      OBVIOUS
    <2>1. q.spread * One \in Int /\ q.mid \in Nat \ {0} /\ Policy.maxSpread \in Nat
      BY BestExecutionAssumption DEF IsQuote, One
    <2>2. RoundDiv(q.spread * One, q.mid) <= Policy.maxSpread
      BY <1>1, <2>1, RoundDivTyped
    <2>3. 2 * (q.spread * One) <= (2 * Policy.maxSpread + 1) * q.mid
      BY <2>1, <2>2, RoundDivWithin
    <2>4. 2 * q.spread * One = 2 * (q.spread * One)
      BY DEF IsQuote, One
    <2> QED
      BY <2>3, <2>4
  <1> QED
    BY <1>1, <1>2, <1>10, <1>11 DEF M

\* A quote within the policy on its bare numbers breaches nothing but perhaps the limit.
LEMMA UnobjectionableIsClear ==
    ASSUME IsOrder(order), NEW q, IsQuote(q), Unobjectionable(q), ~ThroughLimit(order, q)
    PROVE  Breaches(order, q) = {}
  <1>1. /\ order.quantity * One \in Nat /\ q.liquidity \in Nat \ {0}
        /\ Policy.maxParticipation \in Nat /\ Policy.maxSpread \in Nat /\ Policy.darkMinimum \in Nat
        /\ q.spread * One \in Int /\ q.mid \in Nat /\ order.quantity \in Nat
    BY BestExecutionAssumption DEF IsOrder, IsQuote, Unobjectionable, One
  <1>2. ~(Participation(order, q) > Policy.maxParticipation)
    <2>1. RoundDiv(order.quantity * One, q.liquidity) <= Policy.maxParticipation
      BY <1>1, RoundDivWithin DEF Unobjectionable
    <2>2. Participation(order, q) = RoundDiv(order.quantity * One, q.liquidity)
      BY <1>1 DEF Participation
    <2> QED
      BY <1>1, <2>1, <2>2, RoundDivTyped
  <1>3. q.mid # 0 => ~(RoundDiv(q.spread * One, q.mid) > Policy.maxSpread)
    <2> SUFFICES ASSUME q.mid # 0 PROVE ~(RoundDiv(q.spread * One, q.mid) > Policy.maxSpread)
      OBVIOUS
    <2>1. q.mid \in Nat \ {0}
      BY <1>1
    <2>2. RoundDiv(q.spread * One, q.mid) <= Policy.maxSpread
      BY <1>1, <2>1, RoundDivWithin DEF Unobjectionable
    <2> QED
      BY <1>1, <2>1, <2>2, RoundDivTyped
  <1>4. q.venue \in Policy.approved /\ ~(q.dark /\ order.quantity < Policy.darkMinimum)
    BY <1>1 DEF Unobjectionable
  <1> QED
    BY <1>2, <1>3, <1>4 DEF Breaches

\* Around one mid, less cost is no worse a price: not more for a buyer, not less for a seller.
LEMMA CheaperIsBetter ==
    ASSUME NEW o, IsOrder(o), NEW q, IsQuote(q), NEW r, IsQuote(r), r.mid = q.mid,
           TotalCost(o, q) <= TotalCost(o, r)
    PROVE  IF o.side = "Buy" THEN ProjectedPrice(o, q) <= ProjectedPrice(o, r)
                             ELSE ProjectedPrice(o, q) >= ProjectedPrice(o, r)
  <1>1. q.mid \in Nat /\ TotalCost(o, q) \in Int /\ TotalCost(o, r) \in Int
    BY CostsTyped DEF IsQuote
  <1>2. ASSUME NEW x \in Int, NEW y \in Int, x <= y
        PROVE  RoundDiv(q.mid * (One + x), One) <= RoundDiv(q.mid * (One + y), One)
    <2>1. One \in Nat \ {0}
      BY DEF One
    <2>2. q.mid * (One + x) \in Int /\ q.mid * (One + y) \in Int
      BY <1>1, <1>2, <2>1, SMT
    <2>3. ASSUME NEW a \in Int, NEW b \in Int, a <= b, NEW k \in Nat PROVE k * a <= k * b
      BY <2>3, SMT
    <2>4. q.mid * (One + x) <= q.mid * (One + y)
      BY <1>1, <1>2, <2>1, <2>3
    <2> QED
      BY <2>1, <2>2, <2>4, RoundDivMonotone
  <1>3. CASE o.side = "Buy"
    <2>1. RoundDiv(q.mid * (One + TotalCost(o, q)), One) <= RoundDiv(q.mid * (One + TotalCost(o, r)), One)
      BY <1>1, <1>2
    <2> QED
      BY <1>3, <2>1 DEF ProjectedPrice
  <1>4. CASE o.side # "Buy"
    <2>1. -TotalCost(o, r) <= -TotalCost(o, q) /\ -TotalCost(o, r) \in Int /\ -TotalCost(o, q) \in Int
      BY <1>1
    <2>2. RoundDiv(q.mid * (One + -TotalCost(o, r)), One) <= RoundDiv(q.mid * (One + -TotalCost(o, q)), One)
      BY <1>2, <2>1
    <2>3. /\ ProjectedPrice(o, r) = RoundDiv(q.mid * (One + -TotalCost(o, r)), One)
          /\ ProjectedPrice(o, q) = RoundDiv(q.mid * (One + -TotalCost(o, q)), One)
      BY <1>4 DEF ProjectedPrice
    <2>4. ProjectedPrice(o, r) \in Int /\ ProjectedPrice(o, q) \in Int
      BY CostsTyped
    <2> QED
      BY <1>4, <2>2, <2>3, <2>4
  <1> QED
    BY <1>3, <1>4

-----------------------------------------------------------------------------
(* A question of the route lane and its answer.                            *)

RouteInv ==
    question.lane = "Route" =>
        /\ IsOrder(order) /\ quotes \subseteq Quotes /\ quotes # {}
        /\ answer # None =>
             answer.proposal = (IF HaltedBy(order, quotes) = {}
                                THEN Proposal(order, quotes, None, None) ELSE None)

LEMMA RouteInvariant == Spec => []RouteInv
  <1>1. Init => RouteInv
    <2> SUFFICES ASSUME Init, question.lane = "Route" PROVE RouteInv
      BY DEF RouteInv
    <2>1. answer = None
      BY DEF Init
    <2>2. question \in [lane: {"Route"}, order: Orders, quotes: (SUBSET Quotes) \ {{}}]
      <3>1. \A q : q \in [lane: {"Model"}, catalog: Catalogs \ {{}},
                          policy: {p \in Policies : Validate(p) = None}, req: Requests]
                     => q.lane = "Model"
        OBVIOUS
      <3>2. \A q : q \in [lane: {"Triage"}, batch: {b \in Batches : b.alerts # <<>>}]
                     => q.lane = "Triage"
        OBVIOUS
      <3> QED
        BY <3>1, <3>2 DEF Init
    <2>3. question.order \in Orders /\ question.quotes \subseteq Quotes /\ question.quotes # {}
      BY <2>2
    <2> QED
      BY <2>1, <2>3, PlannersAssumption DEF RouteInv, IsOrder, order, quotes
  <1>2. RouteInv /\ [Next]_vars => RouteInv'
    <2> SUFFICES ASSUME RouteInv, [Next]_vars PROVE RouteInv'
      OBVIOUS
    <2>1. question' = question
      BY DEF Next, vars, PlanModel, PlanRoute, RankBatch
    <2>2. question.lane = "Route" =>
            \/ answer' = answer
            \/ answer'.proposal = (IF HaltedBy(order, quotes) = {}
                                   THEN Proposal(order, quotes, None, None) ELSE None)
      BY DEF Next, vars, PlanModel, PlanRoute, RankBatch, Asked, order, quotes
    <2> QED
      BY <2>1, <2>2 DEF RouteInv, IsOrder, order, quotes
  <1> QED
    BY <1>1, <1>2, PTL DEF Spec

\* A proposal is of the cheapest clear venue, for an order within the notional ceiling.
LEMMA ProposedRoute ==
    ASSUME RouteInv, Proposed
    PROVE  /\ IsOrder(order) /\ quotes \subseteq Quotes /\ quotes # {} /\ IsFiniteSet(quotes)
           /\ \A q \in Quotes : IsQuote(q)
           /\ ~NotionalExceeded(order) /\ Clear(order, quotes) # {}
           /\ CheapestOf(Winner(order, quotes), Clear(order, quotes), order)
           /\ outcome.proposal.venue = Winner(order, quotes).venue
           /\ outcome.proposal.price = ProjectedPrice(order, Winner(order, quotes))
  <1>1. /\ IsOrder(order) /\ quotes \subseteq Quotes /\ quotes # {}
        /\ HaltedBy(order, quotes) = {}
        /\ outcome.proposal = Proposal(order, quotes, None, None)
    BY DEF RouteInv, Proposed, Answered, outcome
  <1>2. IsFiniteSet(quotes) /\ \A q \in Quotes : IsQuote(q)
    BY <1>1, PlannersAssumption, FS_Subset DEF IsQuote
  <1>3. ~NotionalExceeded(order) /\ Clear(order, quotes) # {}
    BY <1>1, LetThrough
  <1>4. CheapestOf(Winner(order, quotes), Clear(order, quotes), order)
    BY <1>1, <1>2, <1>3, WinnerIsCheapest
  <1>5. /\ outcome.proposal.venue = Winner(order, quotes).venue
        /\ outcome.proposal.price = ProjectedPrice(order, Winner(order, quotes))
    BY <1>1 DEF Proposal
  <1> QED
    BY <1>1, <1>2, <1>3, <1>4, <1>5

\* The venue RoutePlanner proposes is approved, not dark for a small order, gives no more than
\* the permitted share of what it shows and, if its quote has a mid, keeps the spread
\* tolerance; the order, if it has a limit, is within the notional ceiling and its projected
\* price within the limit.
THEOREM ProposesWithinPolicy == Spec => []WithinPolicy
  <1>1. RouteInv => WithinPolicy
    <2> SUFFICES ASSUME RouteInv, Proposed PROVE WithinPolicy
      BY DEF WithinPolicy
    <2> DEFINE q == Winner(order, quotes)
               p == outcome.proposal
    <2>1. /\ IsOrder(order) /\ IsQuote(q) /\ q \in quotes /\ Breaches(order, q) = {}
          /\ ~NotionalExceeded(order)
          /\ p.venue = q.venue /\ p.price = ProjectedPrice(order, q)
      BY ProposedRoute DEF CheapestOf, Clear
    <2> HIDE DEF q, p
    <2>2. /\ q.venue \in Policy.approved
          /\ q.dark => order.quantity >= Policy.darkMinimum
          /\ 2 * order.quantity * One <= (2 * Policy.maxParticipation + 1) * q.liquidity
          /\ q.mid # 0 => 2 * q.spread * One <= (2 * Policy.maxSpread + 1) * q.mid
          /\ ~ThroughLimit(order, q)
      BY <2>1, ClearIsWithinPolicy
    <2>3. order.limit # None =>
            /\ order.quantity * order.limit <= Policy.maxNotional
            /\ IF order.side = "Buy" THEN p.price <= order.limit ELSE p.price >= order.limit
      <3> SUFFICES ASSUME order.limit # None
                   PROVE  /\ order.quantity * order.limit <= Policy.maxNotional
                          /\ IF order.side = "Buy" THEN p.price <= order.limit
                                                   ELSE p.price >= order.limit
        OBVIOUS
      <3>1. order.limit \in Nat /\ order.quantity \in Nat /\ Limit(order) = order.limit
        BY <2>1 DEF IsOrder, Limit
      <3>2. order.quantity * order.limit \in Int /\ Policy.maxNotional \in Int
        BY <3>1, BestExecutionAssumption, SMT
      <3>3. ~(order.quantity * order.limit > Policy.maxNotional)
        BY <2>1, <3>1 DEF NotionalExceeded
      <3>4. p.price \in Int
        BY <2>1, CostsTyped
      <3>5. IF order.side = "Buy" THEN p.price <= order.limit ELSE p.price >= order.limit
        BY <2>1, <2>2, <3>1, <3>4 DEF ThroughLimit
      <3> QED
        BY <3>2, <3>3, <3>5
    <2> QED
      BY <2>1, <2>2, <2>3 DEF WithinPolicy, p
  <1> QED
    BY <1>1, RouteInvariant, PTL

\* Of the quotes that respect the policy on their bare numbers, around the mid of the proposed
\* one, none has a better price for the side of the order: where one had, it would be within
\* the limit, so it would be clear, and cheaper in basis points.
THEOREM ProposesBestPrice == Spec => []BestPriceAtItsMid
  <1>1. RouteInv => BestPriceAtItsMid
    <2> SUFFICES ASSUME RouteInv, Proposed PROVE BestPriceAtItsMid
      BY DEF BestPriceAtItsMid
    <2> DEFINE q == Winner(order, quotes)
               p == outcome.proposal
               NoWorse(a, b) == IF order.side = "Buy" THEN a <= b ELSE a >= b
    <2>1. /\ IsOrder(order) /\ IsQuote(q) /\ q \in quotes /\ Breaches(order, q) = {}
          /\ p.venue = q.venue /\ p.price = ProjectedPrice(order, q)
          /\ CheapestOf(q, Clear(order, quotes), order)
          /\ \A r \in quotes : IsQuote(r)
      BY ProposedRoute DEF CheapestOf, Clear
    <2> HIDE DEF q
    <2>2. ASSUME NEW r \in quotes, r.mid = q.mid, Unobjectionable(r)
          PROVE  NoWorse(ProjectedPrice(order, q), ProjectedPrice(order, r))
      <3>1. /\ ProjectedPrice(order, q) \in Int /\ ProjectedPrice(order, r) \in Int
            /\ Limit(order) \in Int
        BY <2>1, CostsTyped DEF IsOrder, Limit
      <3>2. CASE ThroughLimit(order, r)
        <4>1. ~ThroughLimit(order, q)
          BY <2>1, ClearIsWithinPolicy
        <4> QED
          BY <3>1, <3>2, <4>1 DEF ThroughLimit
      <3>3. CASE ~ThroughLimit(order, r)
        <4>1. r \in Clear(order, quotes)
          BY <2>1, <2>2, <3>3, UnobjectionableIsClear DEF Clear
        <4>2. TotalCost(order, q) <= TotalCost(order, r)
          BY <2>1, <4>1, CostsTyped DEF CheapestOf
        <4> QED
          BY <2>1, <2>2, <4>2, CheaperIsBetter
      <3> QED
        BY <3>2, <3>3
    <2> QED
      BY <2>1, <2>2 DEF BestPriceAtItsMid
  <1> QED
    BY <1>1, RouteInvariant, PTL

\* One more quoted venue neither halts an order that had a route nor moves it to a dearer one.
THEOREM VenuesHelp == Spec => []MoreVenuesNeverHurt
  <1>1. RouteInv => MoreVenuesNeverHurt
    <2> SUFFICES ASSUME RouteInv, Proposed, NEW extra \in Quotes \ quotes
                 PROVE  /\ HaltedBy(order, quotes \cup {extra}) = {}
                        /\ TotalCost(order, Winner(order, quotes \cup {extra}))
                             <= TotalCost(order, Winner(order, quotes))
      BY DEF MoreVenuesNeverHurt
    <2> DEFINE more == quotes \cup {extra}
    <2>1. /\ IsOrder(order) /\ quotes \subseteq Quotes /\ \A q \in Quotes : IsQuote(q)
          /\ ~NotionalExceeded(order) /\ Clear(order, quotes) # {}
          /\ CheapestOf(Winner(order, quotes), Clear(order, quotes), order)
      BY ProposedRoute
    <2>2. more \subseteq Quotes /\ more # {} /\ IsFiniteSet(more)
      <3>1. more \subseteq Quotes /\ more # {}
        BY <2>1
      <3> QED
        BY <3>1, PlannersAssumption, FS_Subset
    <2>3. Clear(order, quotes) \subseteq Clear(order, more)
      BY DEF Clear
    <2>4. Clear(order, more) # {}
      BY <2>1, <2>3
    <2> HIDE DEF more
    <2>5. HaltedBy(order, more) = {}
      BY <2>1, <2>2, <2>4, LetThrough
    <2>6. CheapestOf(Winner(order, more), Clear(order, more), order)
      BY <2>1, <2>2, <2>4, WinnerIsCheapest
    <2>7. \A q \in Clear(order, more) : TotalCost(order, q) \in Int
      BY <2>1, <2>2, CostsTyped DEF Clear
    <2>8. TotalCost(order, Winner(order, more)) <= TotalCost(order, Winner(order, quotes))
      BY <2>1, <2>3, <2>6, <2>7 DEF CheapestOf
    <2> QED
      BY <2>5, <2>8 DEF more
  <1> QED
    BY <1>1, RouteInvariant, PTL

-----------------------------------------------------------------------------
(* A sort by counting: in a finite strict total order every element has a  *)
(* place, its own, and every place is taken.                               *)

\* R orders S strictly and totally.
StrictlyOrders(R, S) ==
    /\ \A x \in S : <<x, x>> \notin R
    /\ \A x, y \in S : x # y => <<x, y>> \in R \/ <<y, x>> \in R
    /\ \A x, y, z \in S : <<x, y>> \in R /\ <<y, z>> \in R => <<x, z>> \in R

LEMMA PlacesAreTaken ==
    ASSUME NEW S, IsFiniteSet(S), NEW R, StrictlyOrders(R, S), NEW ahead \in [S -> Nat],
           \A x \in S : ahead[x] = Cardinality({y \in S : <<y, x>> \in R})
    PROVE  /\ \A x \in S : ahead[x] < Cardinality(S)
           /\ \A x, y \in S : ahead[x] = ahead[y] => x = y
           /\ \A k \in 1..Cardinality(S) : \E x \in S : ahead[x] = k - 1
  <1> DEFINE Under(x) == {y \in S : <<y, x>> \in R}
             n == Cardinality(S)
  <1>1. n \in Nat
    BY FS_CardinalityType
  <1>2. \A x \in S : Under(x) \subseteq S /\ x \notin Under(x) /\ IsFiniteSet(Under(x))
    BY FS_Subset DEF StrictlyOrders
  <1>3. ASSUME NEW x \in S, NEW y \in S, <<x, y>> \in R
        PROVE  Under(x) \subseteq Under(y) /\ x \in Under(y)
    BY <1>3 DEF StrictlyOrders
  <1>4. \A x \in S : ahead[x] = Cardinality(Under(x))
    OBVIOUS
  <1> HIDE DEF Under, n
  <1>5. \A x \in S : ahead[x] < n
    <2> SUFFICES ASSUME NEW x \in S PROVE ahead[x] < n
      OBVIOUS
    <2>1. /\ Cardinality(Under(x)) <= Cardinality(S)
          /\ Cardinality(S) = Cardinality(Under(x)) => S = Under(x)
      BY <1>2, FS_Subset
    <2>2. Cardinality(Under(x)) # Cardinality(S)
      BY <1>2, <2>1
    <2>3. ahead[x] \in Nat /\ Cardinality(S) \in Nat /\ ahead[x] = Cardinality(Under(x))
      BY <1>1, <1>4 DEF n
    <2>4. ahead[x] < Cardinality(S)
      BY <2>1, <2>2, <2>3
    <2> QED
      BY <2>4 DEF n
  <1>6. ASSUME NEW x \in S, NEW y \in S, <<x, y>> \in R
        PROVE  ahead[x] # ahead[y]
    <2>1. Under(x) \subseteq Under(y) /\ x \in Under(y) /\ x \notin Under(x)
      BY <1>2, <1>3, <1>6
    <2>2. Cardinality(Under(y)) = Cardinality(Under(x)) => Under(y) = Under(x)
      BY <1>2, <2>1, FS_Subset
    <2> QED
      BY <1>4, <2>1, <2>2
  <1>7. \A x, y \in S : ahead[x] = ahead[y] => x = y
    BY <1>6 DEF StrictlyOrders
  <1>8. \A k \in 1..n : \E x \in S : ahead[x] = k - 1
    <2> DEFINE T == 0..(n - 1)
    <2>1. IsFiniteSet(T) /\ Cardinality(T) = n
      BY <1>1, FS_Interval
    <2>2. ahead \in [S -> T]
      BY <1>1, <1>5
    <2>3. ahead \in Injection(S, T)
      BY <1>7, <2>2, Fun_IsInj
    <2>4. ahead \in Surjection(S, T)
      BY <2>1, <2>3, FS_Injection DEF n
    <2>5. \A k \in 1..n : k - 1 \in T
      BY <1>1
    <2> HIDE DEF T
    <2>6. \A t \in T : \E x \in S : ahead[x] = t
      BY <2>4, Fun_SurjectionProperties
    <2> QED
      BY <2>5, <2>6
  <1> QED
    BY <1>5, <1>7, <1>8 DEF n

-----------------------------------------------------------------------------
(* What TriageRanker.Rank returns.                                         *)

LEMMA AssessmentTyped ==
    ASSUME NEW v \in AlertAssessment
    PROVE  v.score \in Int /\ v.evidence \in Nat
  BY DEF AlertAssessment

\* The last assessment of an alert that has one.
LEMMA LatestIsOfAlert ==
    ASSUME NEW V \in Seq(AlertAssessment), NEW a, Of(a, V) # {}
    PROVE  /\ Latest(a, V) \in AlertAssessment /\ Latest(a, V).alert = a
           /\ \E k \in DOMAIN V : Latest(a, V) = V[k]
           /\ RiskScore(Latest(a, V)) \in Int
  <1>1. Of(a, V) \subseteq 1..Len(V) /\ \A k \in Of(a, V) : V[k].alert = a /\ V[k] \in AlertAssessment
    BY DEF Of
  <1>2. Len(V) \in Nat
    OBVIOUS
  <1>3. \E k \in Of(a, V) : \A l \in Of(a, V) : l <= k
    <2> DEFINE N == {Len(V) - k : k \in Of(a, V)}
    <2>1. N \subseteq Nat /\ N # {}
      BY <1>1, <1>2
    <2> HIDE DEF N
    <2>2. PICK x \in N : \A y \in N : x <= y
      BY <2>1, Least
    <2>3. PICK k \in Of(a, V) : x = Len(V) - k
      BY DEF N
    <2>4. \A l \in Of(a, V) : Len(V) - k <= Len(V) - l
      BY <2>2, <2>3 DEF N
    <2>5. \A l \in Of(a, V) : l <= k
      BY <1>1, <1>2, <2>4
    <2> QED
      BY <2>5
  <1>4. PICK k \in Of(a, V) : Latest(a, V) = V[k]
    BY <1>3 DEF Latest
  <1>5. Latest(a, V) \in AlertAssessment /\ Latest(a, V).alert = a
    BY <1>1, <1>4
  <1>6. RiskScore(Latest(a, V)) \in Int
    <2>1. Latest(a, V).score \in Int
      BY <1>5, AssessmentTyped
    <2>2. Latest(a, V).score \div 10 \in Int
      BY <1>5, <2>1
    <2> QED
      BY <2>2 DEF RiskScore
  <1> QED
    BY <1>1, <1>4, <1>5, <1>6

LEMMA LexicographicOrders ==
    ASSUME NEW S, S \subseteq Int, NEW f \in [S -> Int], NEW g \in [S -> Int], NEW R,
           \A i, j \in S : <<i, j>> \in R <=> \/ f[i] > f[j]
                                              \/ f[i] = f[j] /\ g[i] < g[j]
                                              \/ f[i] = f[j] /\ g[i] = g[j] /\ i < j
    PROVE  StrictlyOrders(R, S)
  <1> DEFINE B(i, j) == \/ f[i] > f[j]
                        \/ f[i] = f[j] /\ g[i] < g[j]
                        \/ f[i] = f[j] /\ g[i] = g[j] /\ i < j
  <1>1. \A i, j \in S : <<i, j>> \in R <=> B(i, j)
    OBVIOUS
  <1>2. \A i \in S : i \in Int /\ f[i] \in Int /\ g[i] \in Int
    OBVIOUS
  <1>3. \A i \in S : ~B(i, i)
    BY <1>2
  <1>4. \A i, j \in S : i # j => B(i, j) \/ B(j, i)
    BY <1>2
  <1>5. \A i, j, k \in S : B(i, j) /\ B(j, k) => B(i, k)
    BY <1>2
  <1> HIDE DEF B
  <1> QED
    BY <1>1, <1>3, <1>4, <1>5 DEF StrictlyOrders

\* OrderByDescending, ThenBy and the order of submission are a strict total order.
LEMMA BeforeOrders ==
    ASSUME NEW L \in Seq(Nat), NEW V \in Seq(AlertAssessment)
    PROVE  LET S == Scored(L, V)
           IN  StrictlyOrders({p \in S \X S : Before(p[1], p[2], L, V)}, S)
  <1> DEFINE S == Scored(L, V)
             R == {p \in S \X S : Before(p[1], p[2], L, V)}
             score == [i \in S |-> RiskScore(Latest(L[i], V))]
             alert == [i \in S |-> L[i]]
  <1>1. S \subseteq Int /\ score \in [S -> Int] /\ alert \in [S -> Int]
    BY LatestIsOfAlert DEF Scored
  <1>2. ASSUME NEW i \in S, NEW j \in S
        PROVE  <<i, j>> \in R <=> \/ score[i] > score[j]
                                  \/ score[i] = score[j] /\ alert[i] < alert[j]
                                  \/ score[i] = score[j] /\ alert[i] = alert[j] /\ i < j
    BY DEF Before
  <1> HIDE DEF S, R, score, alert
  <1>3. StrictlyOrders(R, S)
    BY <1>1, <1>2, LexicographicOrders
  <1> QED
    BY <1>3 DEF R, S

\* place[k] is the submission that is ranked k: each of the scored ones once, by how many are
\* ahead of it.
Places(place, L, V) ==
    LET S == Scored(L, V)
    IN  /\ place \in [1..Cardinality(S) -> S]
        /\ \A k \in 1..Cardinality(S) : Ahead(place[k], L, V) = k - 1
        /\ \A i \in S : \E k \in 1..Cardinality(S) : place[k] = i
        /\ \A i, j \in S : Ahead(i, L, V) = Ahead(j, L, V) => i = j
        /\ Ranked(L, V) = [k \in 1..Cardinality(S) |->
                             [alert |-> L[place[k]], assessment |-> Latest(L[place[k]], V)]]

LEMMA RankedPlaces ==
    ASSUME NEW L \in Seq(Nat), NEW V \in Seq(AlertAssessment)
    PROVE  /\ IsFiniteSet(Scored(L, V)) /\ Cardinality(Scored(L, V)) \in Nat
           /\ \E place : Places(place, L, V)
  <1> DEFINE S == Scored(L, V)
             n == Cardinality(S)
             R == {p \in S \X S : Before(p[1], p[2], L, V)}
             ahead == [i \in S |-> Ahead(i, L, V)]
             place == [k \in 1..n |-> CHOOSE i \in S : Ahead(i, L, V) = k - 1]
  <1>1. S \subseteq 1..Len(L) /\ Len(L) \in Nat
    BY DEF Scored
  <1>2. IsFiniteSet(S) /\ n \in Nat
    <2>1. IsFiniteSet(1..Len(L))
      BY <1>1, FS_Interval
    <2>2. IsFiniteSet(S)
      BY <1>1, <2>1, FS_Subset
    <2> QED
      BY <2>2, FS_CardinalityType
  <1>3. \A i \in S : {j \in S : Before(j, i, L, V)} = {j \in S : <<j, i>> \in R}
    OBVIOUS
  <1>4. \A i \in S : Ahead(i, L, V) = Cardinality({j \in S : <<j, i>> \in R})
    BY <1>3 DEF Ahead
  <1>5. StrictlyOrders(R, S)
    BY BeforeOrders
  <1> HIDE DEF R
  <1>6. \A i \in S : Ahead(i, L, V) \in Nat
    BY <1>2, <1>4, FS_Subset, FS_CardinalityType
  <1>7. ahead \in [S -> Nat] /\ \A i \in S : ahead[i] = Cardinality({j \in S : <<j, i>> \in R})
    BY <1>4, <1>6
  <1>8. \A i \in S : ahead[i] = Ahead(i, L, V)
    OBVIOUS
  <1>9. Ranked(L, V) = [k \in 1..n |-> [alert |-> L[place[k]], assessment |-> Latest(L[place[k]], V)]]
    BY DEF Ranked
  <1>10. \A k \in 1..n : place[k] = CHOOSE i \in S : Ahead(i, L, V) = k - 1
    OBVIOUS
  <1>11. DOMAIN place = 1..n /\ place = [k \in 1..n |-> place[k]]
    OBVIOUS
  <1> HIDE DEF S, n, ahead, place
  <1>12. /\ \A i \in S : ahead[i] < n
         /\ \A i, j \in S : ahead[i] = ahead[j] => i = j
         /\ \A k \in 1..n : \E i \in S : ahead[i] = k - 1
    BY <1>2, <1>5, <1>7, PlacesAreTaken DEF n
  <1>13. \A k \in 1..n : place[k] \in S /\ Ahead(place[k], L, V) = k - 1
    BY <1>8, <1>10, <1>12
  <1>14. place \in [1..n -> S]
    BY <1>11, <1>13
  <1>15. ASSUME NEW i \in S
         PROVE  \E k \in 1..n : place[k] = i
    <2>1. ahead[i] + 1 \in 1..n /\ (ahead[i] + 1) - 1 = ahead[i]
      BY <1>2, <1>7, <1>12
    <2>2. place[ahead[i] + 1] \in S /\ ahead[place[ahead[i] + 1]] = ahead[i]
      BY <1>8, <1>13, <2>1
    <2> QED
      BY <1>12, <2>1, <2>2
  <1>16. Places(place, L, V)
    BY <1>8, <1>9, <1>12, <1>13, <1>14, <1>15 DEF Places, S, n
  <1> QED
    BY <1>2, <1>16 DEF S, n

\* The queue, entry by entry.
LEMMA RankedEntries ==
    ASSUME NEW L \in Seq(Nat), NEW V \in Seq(AlertAssessment), NEW place, Places(place, L, V)
    PROVE  LET S == Scored(L, V)
               n == Cardinality(S)
               Q == Ranked(L, V)
           IN  /\ DOMAIN Q = 1..n /\ Len(Q) = n
               /\ \A k \in 1..n : /\ place[k] \in S /\ place[k] \in DOMAIN L
                                  /\ Q[k].alert = L[place[k]]
                                  /\ Q[k].assessment = Latest(L[place[k]], V)
                                  /\ Of(L[place[k]], V) # {}
               /\ \A i \in S : \E k \in 1..n : place[k] = i
               /\ \A k, l \in 1..n : place[k] = place[l] => k = l
  <1> DEFINE S == Scored(L, V)
             n == Cardinality(S)
             Q == Ranked(L, V)
  <1>1. n \in Nat
    BY RankedPlaces
  <1>2. /\ place \in [1..n -> S]
        /\ \A k \in 1..n : Ahead(place[k], L, V) = k - 1
        /\ \A i \in S : \E k \in 1..n : place[k] = i
        /\ Q = [k \in 1..n |-> [alert |-> L[place[k]], assessment |-> Latest(L[place[k]], V)]]
    BY DEF Places
  <1>3. \A i \in S : i \in DOMAIN L /\ Of(L[i], V) # {}
    BY DEF Scored
  <1> HIDE DEF S, n, Q
  <1>4. DOMAIN Q = 1..n /\ Len(Q) = n
    BY <1>1, <1>2
  <1>5. \A k \in 1..n : place[k] \in S
    BY <1>2
  <1>6. \A k \in 1..n : /\ Q[k].alert = L[place[k]]
                        /\ Q[k].assessment = Latest(L[place[k]], V)
    BY <1>2
  <1>7. \A k, l \in 1..n : place[k] = place[l] => k = l
    BY <1>1, <1>2
  <1> QED
    BY <1>2, <1>3, <1>4, <1>5, <1>6, <1>7 DEF S, n, Q

\* A question of the triage lane and its answer.
TriageInv ==
    question.lane = "Triage" =>
        /\ alerts \in Seq(Nat) /\ assessments \in Seq(AlertAssessment)
        /\ answer # None => answer = Rank(alerts, assessments)

LEMMA TriageInvariant == Spec => []TriageInv
  <1>1. Init => TriageInv
    <2> SUFFICES ASSUME Init, question.lane = "Triage" PROVE TriageInv
      BY DEF TriageInv
    <2>1. answer = None
      BY DEF Init
    <2>2. question \in [lane: {"Triage"}, batch: {b \in Batches : b.alerts # <<>>}]
      <3>1. \A q : q \in [lane: {"Model"}, catalog: Catalogs \ {{}},
                          policy: {p \in Policies : Validate(p) = None}, req: Requests]
                     => q.lane = "Model"
        OBVIOUS
      <3>2. \A q : q \in [lane: {"Route"}, order: Orders, quotes: (SUBSET Quotes) \ {{}}]
                     => q.lane = "Route"
        OBVIOUS
      <3> QED
        BY <3>1, <3>2 DEF Init
    <2>3. question.batch \in Batches
      BY <2>2
    <2> QED
      BY <2>1, <2>3, PlannersAssumption DEF TriageInv, alerts, assessments
  <1>2. TriageInv /\ [Next]_vars => TriageInv'
    <2> SUFFICES ASSUME TriageInv, [Next]_vars PROVE TriageInv'
      OBVIOUS
    <2>1. question' = question
      BY DEF Next, vars, PlanModel, PlanRoute, RankBatch
    <2>2. question.lane = "Triage" => answer' = answer \/ answer' = Rank(alerts, assessments)
      BY DEF Next, vars, PlanModel, PlanRoute, RankBatch, Asked, alerts, assessments
    <2> QED
      BY <2>1, <2>2 DEF TriageInv, alerts, assessments
  <1> QED
    BY <1>1, <1>2, PTL DEF Spec

LEMMA TriagedQueue ==
    ASSUME TriageInv, Triaged
    PROVE  /\ alerts \in Seq(Nat) /\ assessments \in Seq(AlertAssessment)
           /\ answer.ranked = Ranked(alerts, assessments)
           /\ answer.gaps = Gaps(alerts, assessments)
           /\ answer.submitted = Len(alerts)
  BY DEF TriageInv, Triaged, Answered, Rank

\* What a list of gaps without entries says.
LEMMA NoGaps ==
    ASSUME NEW L \in Seq(Nat), NEW V \in Seq(AlertAssessment)
    PROVE  Gaps(L, V) = {} <=>
             \A i \in DOMAIN L : /\ Of(L[i], V) # {}
                                 /\ Latest(L[i], V).rationale /\ Latest(L[i], V).evidence > 0
  <1> DEFINE D == {"NotScored", "MissingRationale", "MissingEvidence"}
             Is(a, d) == \/ d = "NotScored" /\ Of(a, V) = {}
                         \/ d = "MissingRationale" /\ Of(a, V) # {} /\ ~Latest(a, V).rationale
                         \/ d = "MissingEvidence" /\ Of(a, V) # {} /\ Latest(a, V).evidence = 0
  <1>1. \A a : a \in F!Range(L) <=> \E i \in DOMAIN L : L[i] = a
    BY DEF F!Range
  <1>2. \A g : g \in Gaps(L, V) <=> g \in [alert: F!Range(L), deficiency: D] /\ Is(g.alert, g.deficiency)
    BY DEF Gaps
  <1> HIDE DEF Is
  <1>3. Gaps(L, V) = {} <=> \A a \in F!Range(L), d \in D : ~Is(a, d)
    <2>1. ASSUME NEW a \in F!Range(L), NEW d \in D, Is(a, d)
          PROVE  Gaps(L, V) # {}
      <3>1. [alert |-> a, deficiency |-> d] \in Gaps(L, V)
        BY <1>2, <2>1
      <3> QED
        BY <3>1
    <2>2. ASSUME NEW g \in Gaps(L, V)
          PROVE  \E a \in F!Range(L), d \in D : Is(a, d)
      BY <1>2, <2>2
    <2> QED
      BY <2>1, <2>2
  <1>4. \A a : (\A d \in D : ~Is(a, d)) <=>
                 Of(a, V) # {} /\ Latest(a, V).rationale /\ Latest(a, V).evidence # 0
    BY DEF Is
  <1>5. \A a : Of(a, V) # {} => (Latest(a, V).evidence # 0 <=> Latest(a, V).evidence > 0)
    <2> SUFFICES ASSUME NEW a, Of(a, V) # {}
                 PROVE  Latest(a, V).evidence # 0 <=> Latest(a, V).evidence > 0
      OBVIOUS
    <2>1. Latest(a, V).evidence \in Nat
      BY LatestIsOfAlert, AssessmentTyped
    <2> QED
      BY <2>1
  <1> QED
    BY <1>1, <1>3, <1>4, <1>5

LEMMA CountsTo ==
    ASSUME NEW m \in Nat
    PROVE  IsFiniteSet(1..m) /\ Cardinality(1..m) = m
  BY FS_Interval

LEMMA CompleteQueue ==
    ASSUME NEW L \in Seq(Nat), NEW V \in Seq(AlertAssessment), NEW Q, Q = Ranked(L, V)
    PROVE  (Gaps(L, V) = {} /\ Len(Q) = Len(L)) <=>
             \A i \in DOMAIN L : \E k \in DOMAIN Q : /\ Q[k].alert = L[i]
                                                     /\ Q[k].assessment.rationale
                                                     /\ Q[k].assessment.evidence > 0
  <1> DEFINE S == Scored(L, V)
             n == Cardinality(S)
             good(i) == \E k \in DOMAIN Q : /\ Q[k].alert = L[i]
                                            /\ Q[k].assessment.rationale
                                            /\ Q[k].assessment.evidence > 0
             fine(a) == /\ Of(a, V) # {}
                        /\ Latest(a, V).rationale /\ Latest(a, V).evidence > 0
  <1>1. PICK place : Places(place, L, V)
    BY RankedPlaces
  <1>2. /\ DOMAIN Q = 1..n /\ Len(Q) = n
        /\ \A k \in 1..n : /\ Q[k].alert = L[place[k]]
                           /\ Q[k].assessment = Latest(L[place[k]], V)
                           /\ Of(L[place[k]], V) # {}
        /\ \A i \in S : \E k \in 1..n : place[k] = i
    BY <1>1, RankedEntries
  <1>3. Gaps(L, V) = {} <=> \A i \in DOMAIN L : fine(L[i])
    BY NoGaps
  <1>4. \A i \in DOMAIN L : i \in S <=> Of(L[i], V) # {}
    BY DEF Scored
  <1>5. (\A i \in DOMAIN L : fine(L[i])) => n = Len(L)
    <2> SUFFICES ASSUME \A i \in DOMAIN L : fine(L[i]) PROVE n = Len(L)
      OBVIOUS
    <2>1. S \subseteq DOMAIN L
      BY DEF Scored
    <2> HIDE DEF S
    <2>2. S = DOMAIN L
      BY <1>4, <2>1
    <2>3. DOMAIN L = 1..Len(L) /\ Len(L) \in Nat
      OBVIOUS
    <2> QED
      BY <2>2, <2>3, CountsTo
  <1> HIDE DEF S, n
  <1>6. \A i \in DOMAIN L : good(i) <=> fine(L[i])
    <2>1. ASSUME NEW i \in DOMAIN L, good(i) PROVE fine(L[i])
      <3>1. PICK k \in 1..n : /\ Q[k].alert = L[i] /\ Q[k].assessment.rationale
                              /\ Q[k].assessment.evidence > 0
        BY <1>2, <2>1
      <3> QED
        BY <1>2, <3>1
    <2>2. ASSUME NEW i \in DOMAIN L, fine(L[i]) PROVE good(i)
      <3>1. PICK k \in 1..n : place[k] = i
        BY <1>2, <1>4, <2>2
      <3> QED
        BY <1>2, <2>2, <3>1
    <2> QED
      BY <2>1, <2>2
  <1> HIDE DEF good, fine
  <1>7. (Gaps(L, V) = {} /\ Len(Q) = Len(L)) <=> \A i \in DOMAIN L : good(i)
    BY <1>2, <1>3, <1>5, <1>6
  <1> QED
    BY <1>7 DEF good

\* A queue is called complete exactly when every alert submitted is ranked with a rationale
\* and evidence (TriageBatch.IsComplete).
THEOREM CompleteMeansAll == Spec => []CompletenessIsHonest
  <1>1. TriageInv => CompletenessIsHonest
    <2> SUFFICES ASSUME TriageInv, Triaged PROVE CompletenessIsHonest
      BY DEF CompletenessIsHonest
    <2>1. /\ alerts \in Seq(Nat) /\ assessments \in Seq(AlertAssessment)
          /\ answer.ranked = Ranked(alerts, assessments)
          /\ IsComplete(answer) <=> /\ Gaps(alerts, assessments) = {}
                                    /\ Len(answer.ranked) = Len(alerts)
      BY TriagedQueue DEF IsComplete
    <2>2. (Gaps(alerts, assessments) = {} /\ Len(answer.ranked) = Len(alerts)) <=>
            \A i \in DOMAIN alerts : \E k \in DOMAIN answer.ranked :
                /\ answer.ranked[k].alert = alerts[i]
                /\ answer.ranked[k].assessment.rationale
                /\ answer.ranked[k].assessment.evidence > 0
      BY <2>1, CompleteQueue
    <2> QED
      BY <2>1, <2>2 DEF CompletenessIsHonest
  <1> QED
    BY <1>1, TriageInvariant, PTL

\* Of the alerts C: those the report counts as in the batch, those submitted, and the places
\* among the first e that show one of B; what those places show.
InQueue(C, Q, L, V) ==
    {a \in C : \/ \E k \in DOMAIN Q : Q[k].alert = a
               \/ \E g \in Gaps(L, V) : g.alert = a}
Present(C, L) == {a \in C : \E i \in DOMAIN L : L[i] = a}
Hits(Q, e, B) == {k \in 1..e : Q[k].alert \in B}
Examined(Q, e) == {Q[k].alert : k \in 1..e}

\* Distinct alerts have distinct places, so that what the queue's head shows of the
\* concerning alerts is all of them exactly when as many are shown as there are.
LEMMA RecallQueue ==
    ASSUME NEW L \in Seq(Nat), NEW V \in Seq(AlertAssessment), NEW Q, Q = Ranked(L, V),
           \A i, j \in DOMAIN L : L[i] = L[j] => i = j, NEW e \in 0..Len(Q), NEW C
    PROVE  LET B == InQueue(C, Q, L, V)
           IN  Cardinality(Hits(Q, e, B)) = Cardinality(B) <=> Present(C, L) \subseteq Examined(Q, e)
  <1> DEFINE S == Scored(L, V)
             n == Cardinality(S)
             B == {a \in C : \/ \E k \in DOMAIN Q : Q[k].alert = a
                             \/ \E g \in Gaps(L, V) : g.alert = a}
             P == {a \in C : \E i \in DOMAIN L : L[i] = a}
             K == {k \in 1..e : Q[k].alert \in B}
             f == [k \in K |-> Q[k].alert]
  <1>1. PICK place : Places(place, L, V)
    BY RankedPlaces
  <1>2. /\ DOMAIN Q = 1..n /\ Len(Q) = n
        /\ \A k \in 1..n : place[k] \in DOMAIN L /\ Q[k].alert = L[place[k]]
        /\ \A i \in S : \E k \in 1..n : place[k] = i
        /\ \A k, l \in 1..n : place[k] = place[l] => k = l
    BY <1>1, RankedEntries
  <1>3. n \in Nat /\ e \in 0..n
    BY <1>2, RankedPlaces
  <1>4. B = P
    <2>1. \A g \in Gaps(L, V) : \E i \in DOMAIN L : L[i] = g.alert
      <3>1. \A g \in Gaps(L, V) : g.alert \in F!Range(L)
        BY DEF Gaps
      <3> QED
        BY <3>1 DEF F!Range
    <2>2. ASSUME NEW i \in DOMAIN L
          PROVE  \/ \E k \in DOMAIN Q : Q[k].alert = L[i]
                 \/ \E g \in Gaps(L, V) : g.alert = L[i]
      <3>1. CASE Of(L[i], V) = {}
        <4>1. L[i] \in F!Range(L)
          BY DEF F!Range
        <4>2. [alert |-> L[i], deficiency |-> "NotScored"] \in Gaps(L, V)
          BY <3>1, <4>1 DEF Gaps
        <4> QED
          BY <4>2
      <3>2. CASE Of(L[i], V) # {}
        <4>1. i \in S
          BY <3>2 DEF Scored
        <4> HIDE DEF S, n
        <4>2. PICK k \in 1..n : place[k] = i
          BY <1>2, <4>1
        <4> QED
          BY <1>2, <4>2
      <3> QED
        BY <3>1, <3>2
    <2> HIDE DEF S, n
    <2>3. ASSUME NEW k \in DOMAIN Q
          PROVE  \E i \in DOMAIN L : L[i] = Q[k].alert
      <3>1. place[k] \in DOMAIN L /\ Q[k].alert = L[place[k]]
        BY <1>2
      <3> QED
        BY <3>1
    <2>4. B \subseteq P
      <3> SUFFICES ASSUME NEW a \in B PROVE \E i \in DOMAIN L : L[i] = a
        OBVIOUS
      <3>1. CASE \E k \in DOMAIN Q : Q[k].alert = a
        BY <2>3, <3>1
      <3>2. CASE \E g \in Gaps(L, V) : g.alert = a
        BY <2>1, <3>2
      <3> QED
        BY <3>1, <3>2
    <2>5. P \subseteq B
      <3> SUFFICES ASSUME NEW i \in DOMAIN L
                   PROVE  \/ \E k \in DOMAIN Q : Q[k].alert = L[i]
                          \/ \E g \in Gaps(L, V) : g.alert = L[i]
        OBVIOUS
      <3> QED
        BY <2>2
    <2> QED
      BY <2>4, <2>5
  <1>5. IsFiniteSet(P)
    <2> DEFINE at == [a \in P |-> CHOOSE i \in DOMAIN L : L[i] = a]
    <2>1. DOMAIN L = 1..Len(L) /\ Len(L) \in Nat
      OBVIOUS
    <2>2. \A a \in P : at[a] \in DOMAIN L /\ L[at[a]] = a
      OBVIOUS
    <2>3. at \in [P -> DOMAIN L]
      BY <2>2
    <2>4. \A a, b \in P : at[a] = at[b] => a = b
      BY <2>2
    <2> HIDE DEF at, P
    <2>5. at \in Injection(P, DOMAIN L)
      BY <2>3, <2>4, Fun_IsInj
    <2>6. IsFiniteSet(DOMAIN L)
      BY <2>1, CountsTo
    <2> QED
      BY <2>5, <2>6, FS_Injection
  <1>6. \A k \in K : k \in 1..n /\ Q[k].alert \in B
    BY <1>3
  <1>7. ASSUME NEW k \in 1..n, NEW l \in 1..n, Q[k].alert = Q[l].alert
        PROVE  k = l
    <2>1. /\ place[k] \in DOMAIN L /\ Q[k].alert = L[place[k]]
          /\ place[l] \in DOMAIN L /\ Q[l].alert = L[place[l]]
      BY <1>2
    <2>2. place[k] = place[l]
      BY <1>7, <2>1
    <2> QED
      BY <1>2, <2>2
  <1>8. f \in [K -> B] /\ \A k \in K : f[k] = Q[k].alert
    BY <1>6
  <1> HIDE DEF B, n, S, f
  <1>9. (\A a \in B : \E k \in K : f[k] = a) <=> B \subseteq {Q[k].alert : k \in 1..e}
    <2>1. ASSUME NEW a \in B, NEW k \in K, f[k] = a
          PROVE  a \in {Q[l].alert : l \in 1..e}
      BY <1>8, <2>1
    <2>2. ASSUME NEW a \in B, NEW k \in 1..e, Q[k].alert = a
          PROVE  k \in K /\ f[k] = a
      <3>1. k \in K
        BY <2>2
      <3> HIDE DEF K
      <3> QED
        BY <1>8, <2>2, <3>1
    <2> HIDE DEF K
    <2> QED
      BY <2>1, <2>2
  <1> HIDE DEF K
  <1>10. f \in Injection(K, B)
    <2>1. \A k, l \in K : f[k] = f[l] => k = l
      BY <1>6, <1>7, <1>8
    <2> QED
      BY <1>8, <2>1, Fun_IsInj
  <1>11. Cardinality(K) = Cardinality(B) <=> f \in Surjection(K, B)
    BY <1>4, <1>5, <1>10, FS_Injection
  <1>12. f \in Surjection(K, B) <=> \A a \in B : \E k \in K : f[k] = a
    BY <1>8 DEF Surjection
  <1>13. Cardinality(K) = Cardinality(B) <=> P \subseteq {Q[k].alert : k \in 1..e}
    BY <1>4, <1>9, <1>11, <1>12
  <1> QED
    BY <1>13 DEF K, B, InQueue, Present, Hits, Examined

\* The report claims all of C, and the head of the queue shows all of C.
ClaimsAll(batch, C, depth) ==
    Measure(batch, C, depth).truePositives = Measure(batch, C, depth).concerningInBatch

ShowsAll(batch, L, C, depth) ==
    {a \in C : \E i \in DOMAIN L : L[i] = a}
        \subseteq {batch.ranked[k].alert : k \in 1..Measure(batch, C, depth).examined}

LEMMA RecallMeasured ==
    ASSUME NEW L \in Seq(Nat), NEW V \in Seq(AlertAssessment),
           \A i, j \in DOMAIN L : L[i] = L[j] => i = j, NEW C, NEW depth \in Nat
    PROVE  ClaimsAll(Rank(L, V), C, depth) <=> ShowsAll(Rank(L, V), L, C, depth)
  <1> DEFINE Q == Ranked(L, V)
             e == IF depth < Len(Q) THEN depth ELSE Len(Q)
             B == InQueue(C, Q, L, V)
             report == Measure(Rank(L, V), C, depth)
  <1>1. Rank(L, V).ranked = Q /\ Rank(L, V).gaps = Gaps(L, V)
    BY DEF Rank
  <1>2. /\ report.examined = e /\ report.concerningInBatch = Cardinality(B)
        /\ report.truePositives = Cardinality(Hits(Q, e, B))
    BY <1>1 DEF Measure, InBatch, InQueue, Hits
  <1>3. Len(Q) \in Nat
    <2>1. PICK place : Places(place, L, V)
      BY RankedPlaces
    <2>2. Len(Q) = Cardinality(Scored(L, V))
      BY <2>1, RankedEntries
    <2> QED
      BY <2>2, RankedPlaces
  <1>4. e \in 0..Len(Q)
    BY <1>3
  <1> HIDE DEF e, report
  <1>5. Cardinality(Hits(Q, e, B)) = Cardinality(B) <=> Present(C, L) \subseteq Examined(Q, e)
    BY <1>4, RecallQueue
  <1> QED
    BY <1>1, <1>2, <1>5 DEF ClaimsAll, ShowsAll, Present, Examined, report

\* As many true positives as concerning alerts in the batch are counted exactly when every
\* concerning alert submitted, scored or not, is among those examined (TriageQuality.Measure).
THEOREM FullRecallMissesNothing == Spec => []RecallIsHonest
  <1>1. TriageInv => RecallIsHonest
    <2> SUFFICES ASSUME TriageInv, Triaged, NoRepetition, NEW C, NEW depth \in 0..Len(alerts) + 1
                 PROVE  ClaimsAll(answer, C, depth) <=> ShowsAll(answer, alerts, C, depth)
      BY DEF RecallIsHonest, ClaimsAll, ShowsAll
    <2>1. /\ alerts \in Seq(Nat) /\ assessments \in Seq(AlertAssessment)
          /\ answer = Rank(alerts, assessments)
      BY DEF TriageInv, Triaged, Answered
    <2>2. \A i, j \in DOMAIN alerts : alerts[i] = alerts[j] => i = j
      BY DEF NoRepetition
    <2>3. depth \in Nat
      BY <2>1
    <2> QED
      BY <2>1, <2>2, <2>3, RecallMeasured
  <1> QED
    BY <1>1, TriageInvariant, PTL

-----------------------------------------------------------------------------
(* The same batch in another order.                                        *)

\* t is s with its entries moved by p.
Moves(p, s, t) ==
    /\ p \in [DOMAIN s -> DOMAIN s] /\ DOMAIN t = DOMAIN s
    /\ \A i, j \in DOMAIN s : p[i] = p[j] => i = j
    /\ \A j \in DOMAIN s : \E i \in DOMAIN s : p[i] = j
    /\ \A i \in DOMAIN s : t[i] = s[p[i]]

LEMMA RearrangedMoves ==
    ASSUME NEW T, NEW s \in Seq(T), NEW t \in Rearrangements(s)
    PROVE  t \in Seq(T) /\ \E p : Moves(p, s, t)
  <1> DEFINE D == DOMAIN s
  <1>1. D = 1..Len(s) /\ Len(s) \in Nat /\ \A i \in D : s[i] \in T
    OBVIOUS
  <1>2. PICK p \in [D -> D] : /\ \A i, j \in D : p[i] = p[j] => i = j
                              /\ t = [i \in D |-> s[p[i]]]
    BY DEF Rearrangements
  <1>3. \A j \in D : \E i \in D : p[i] = j
    <2>1. IsFiniteSet(D)
      BY <1>1, CountsTo
    <2> HIDE DEF D
    <2>2. p \in Injection(D, D)
      BY <1>2, Fun_IsInj
    <2>3. p \in Surjection(D, D)
      BY <2>1, <2>2, FS_Injection
    <2> QED
      BY <2>3, Fun_SurjectionProperties
  <1>4. t \in Seq(T)
    <2> HIDE DEF D
    <2>1. t \in [D -> T]
      BY <1>1, <1>2
    <2>2. t \in [1..Len(s) -> T]
      BY <1>1, <2>1
    <2> QED
      BY <1>1, <2>2
  <1>5. Moves(p, s, t)
    BY <1>2, <1>3 DEF Moves
  <1> QED
    BY <1>4, <1>5

\* W says of every alert what V says.
Agree(V, W) ==
    \A a : /\ Of(a, W) # {} <=> Of(a, V) # {}
           /\ Of(a, V) # {} => Latest(a, W) = Latest(a, V)

LEMMA MovedAgree ==
    ASSUME NEW V \in Seq(AlertAssessment), NEW W \in Seq(AlertAssessment), NEW p, Moves(p, V, W),
           \A i, j \in DOMAIN V : V[i].alert = V[j].alert => i = j
    PROVE  Agree(V, W)
  <1> SUFFICES ASSUME NEW a
               PROVE  /\ Of(a, W) # {} <=> Of(a, V) # {}
                      /\ Of(a, V) # {} => Latest(a, W) = Latest(a, V)
    BY DEF Agree
  <1>1. Of(a, W) # {} <=> Of(a, V) # {}
    <2>1. ASSUME NEW k \in Of(a, W) PROVE p[k] \in Of(a, V)
      BY DEF Of, Moves
    <2>2. ASSUME NEW k \in Of(a, V) PROVE \E l \in DOMAIN V : l \in Of(a, W)
      <3>1. k \in DOMAIN V /\ V[k].alert = a
        BY DEF Of
      <3>2. PICK l \in DOMAIN V : p[l] = k
        BY <3>1 DEF Moves
      <3>3. W[l] = V[k] /\ l \in DOMAIN W
        BY <3>2 DEF Moves
      <3>4. l \in Of(a, W)
        BY <3>1, <3>3 DEF Of
      <3> QED
        BY <3>4
    <2> QED
      BY <2>1, <2>2
  <1>2. ASSUME Of(a, V) # {} PROVE Latest(a, W) = Latest(a, V)
    <2>1. PICK k \in DOMAIN V : Latest(a, V) = V[k] /\ V[k].alert = a
      BY <1>2, LatestIsOfAlert
    <2>2. PICK l \in DOMAIN W : Latest(a, W) = W[l] /\ W[l].alert = a
      BY <1>1, <1>2, LatestIsOfAlert
    <2>3. p[l] \in DOMAIN V /\ W[l] = V[p[l]]
      BY DEF Moves
    <2> QED
      BY <2>1, <2>2, <2>3
  <1> QED
    BY <1>1, <1>2

\* A function that is one to one and onto keeps the count.
LEMMA SameCount ==
    ASSUME NEW S, NEW T, IsFiniteSet(T), NEW f \in [T -> S],
           \A x, y \in T : f[x] = f[y] => x = y, \A y \in S : \E x \in T : f[x] = y
    PROVE  Cardinality(T) = Cardinality(S)
  <1>1. f \in Bijection(T, S)
    BY Fun_IsBij
  <1>2. ExistsBijection(T, S)
    BY <1>1 DEF ExistsBijection
  <1> QED
    BY <1>2, FS_Bijection

\* Moving the submissions moves their places with them: what is ahead of one is what was.
LEMMA MovedAhead ==
    ASSUME NEW L \in Seq(Nat), NEW M \in Seq(Nat), NEW V \in Seq(AlertAssessment),
           NEW W \in Seq(AlertAssessment), Agree(V, W), NEW p, Moves(p, L, M),
           \A i, j \in DOMAIN L : L[i] = L[j] => i = j
    PROVE  /\ \A i \in DOMAIN L : i \in Scored(M, W) <=> p[i] \in Scored(L, V)
           /\ Cardinality(Scored(M, W)) = Cardinality(Scored(L, V))
           /\ \A i \in Scored(M, W) : Ahead(i, M, W) = Ahead(p[i], L, V)
  <1> DEFINE S == Scored(L, V)
             T == Scored(M, W)
  <1>1. /\ p \in [DOMAIN L -> DOMAIN L] /\ DOMAIN M = DOMAIN L
        /\ \A i, j \in DOMAIN L : p[i] = p[j] => i = j
        /\ \A j \in DOMAIN L : \E i \in DOMAIN L : p[i] = j
        /\ \A i \in DOMAIN L : M[i] = L[p[i]]
    BY DEF Moves
  <1>2. \A i \in DOMAIN L : i \in T <=> p[i] \in S
    BY <1>1 DEF Scored, Agree
  <1>3. S \subseteq DOMAIN L /\ T \subseteq DOMAIN L
    BY <1>1 DEF Scored
  <1>4. IsFiniteSet(S) /\ IsFiniteSet(T)
    BY RankedPlaces
  <1>5. ASSUME NEW i \in T, NEW j \in T
        PROVE  Before(i, j, M, W) <=> Before(p[i], p[j], L, V)
    <2>1. i \in DOMAIN L /\ j \in DOMAIN L /\ p[i] \in S /\ p[j] \in S
      BY <1>2, <1>3
    <2>2. /\ M[i] = L[p[i]] /\ Latest(M[i], W) = Latest(L[p[i]], V)
          /\ M[j] = L[p[j]] /\ Latest(M[j], W) = Latest(L[p[j]], V)
      BY <1>1, <2>1 DEF Scored, Agree
    <2>3. M[i] = M[j] => i = j
      BY <1>1, <2>1, <2>2
    <2>4. L[p[i]] = L[p[j]] => p[i] = p[j]
      BY <1>1, <2>1
    <2>5. i \in Int /\ j \in Int /\ p[i] \in Int /\ p[j] \in Int
      <3>1. DOMAIN L \subseteq Int
        OBVIOUS
      <3> QED
        BY <1>1, <2>1, <3>1
    <2> QED
      BY <2>2, <2>3, <2>4, <2>5 DEF Before
  <1> HIDE DEF S, T
  <1>6. Cardinality(T) = Cardinality(S)
    <2> DEFINE f == [i \in T |-> p[i]]
    <2>1. f \in [T -> S] /\ \A i \in T : f[i] = p[i]
      BY <1>2, <1>3
    <2> HIDE DEF f
    <2>2. \A x, y \in T : f[x] = f[y] => x = y
      BY <1>1, <1>3, <2>1
    <2>3. \A y \in S : \E x \in T : f[x] = y
      BY <1>1, <1>2, <1>3, <2>1
    <2> QED
      BY <1>4, <2>1, <2>2, <2>3, SameCount
  <1>7. ASSUME NEW i \in T
        PROVE  Ahead(i, M, W) = Ahead(p[i], L, V)
    <2> DEFINE X == {j \in T : Before(j, i, M, W)}
               Y == {j \in S : Before(j, p[i], L, V)}
               f == [j \in X |-> p[j]]
    <2>1. Ahead(i, M, W) = Cardinality(X) /\ Ahead(p[i], L, V) = Cardinality(Y)
      BY DEF Ahead, S, T
    <2>2. X \subseteq T /\ IsFiniteSet(X)
      BY <1>4, FS_Subset
    <2>3. \A j \in X : p[j] \in Y
      BY <1>2, <1>3, <1>5
    <2>4. f \in [X -> Y] /\ \A j \in X : f[j] = p[j]
      BY <2>3
    <2>5. ASSUME NEW y \in Y
          PROVE  \E x \in X : p[x] = y
      <3>1. y \in S /\ Before(y, p[i], L, V)
        OBVIOUS
      <3>2. PICK x \in DOMAIN L : p[x] = y
        BY <1>1, <1>3, <3>1
      <3>3. x \in T
        BY <1>2, <3>1, <3>2
      <3>4. Before(x, i, M, W)
        BY <1>5, <3>1, <3>2, <3>3
      <3> QED
        BY <3>2, <3>3, <3>4
    <2> HIDE DEF X, Y, f
    <2>6. \A x, y \in X : f[x] = f[y] => x = y
      BY <1>1, <1>3, <2>2, <2>4
    <2>7. \A y \in Y : \E x \in X : f[x] = y
      BY <2>4, <2>5
    <2>8. Cardinality(X) = Cardinality(Y)
      BY <2>2, <2>4, <2>6, <2>7, SameCount
    <2> QED
      BY <2>1, <2>8
  <1> QED
    BY <1>2, <1>6, <1>7 DEF S, T

LEMMA MovedRanked ==
    ASSUME NEW L \in Seq(Nat), NEW M \in Seq(Nat), NEW V \in Seq(AlertAssessment),
           NEW W \in Seq(AlertAssessment), Agree(V, W), NEW p, Moves(p, L, M),
           \A i, j \in DOMAIN L : L[i] = L[j] => i = j
    PROVE  Ranked(M, W) = Ranked(L, V)
  <1> DEFINE S == Scored(L, V)
             T == Scored(M, W)
             n == Cardinality(S)
  <1>1. /\ \A i \in DOMAIN L : i \in T <=> p[i] \in S
        /\ Cardinality(T) = n
        /\ \A i \in T : Ahead(i, M, W) = Ahead(p[i], L, V)
    BY MovedAhead
  <1>2. PICK place : Places(place, L, V)
    BY RankedPlaces
  <1>3. /\ place \in [1..n -> S]
        /\ \A k \in 1..n : Ahead(place[k], L, V) = k - 1
        /\ \A i, j \in S : Ahead(i, L, V) = Ahead(j, L, V) => i = j
        /\ Ranked(L, V) = [k \in 1..n |->
                             [alert |-> L[place[k]], assessment |-> Latest(L[place[k]], V)]]
    BY <1>2 DEF Places
  <1>4. PICK moved : Places(moved, M, W)
    BY RankedPlaces
  <1>5. /\ moved \in [1..n -> T]
        /\ \A k \in 1..n : Ahead(moved[k], M, W) = k - 1
        /\ Ranked(M, W) = [k \in 1..n |->
                             [alert |-> M[moved[k]], assessment |-> Latest(M[moved[k]], W)]]
    BY <1>1, <1>4 DEF Places
  <1>6. T \subseteq DOMAIN L /\ \A i \in T : M[i] = L[p[i]]
    BY DEF Scored, Moves
  <1>7. \A i \in S : Of(L[i], V) # {}
    BY DEF Scored
  <1> HIDE DEF S, T, n
  <1>8. ASSUME NEW k \in 1..n
        PROVE  M[moved[k]] = L[place[k]] /\ Latest(M[moved[k]], W) = Latest(L[place[k]], V)
    <2>1. place[k] \in S /\ moved[k] \in T
      BY <1>3, <1>5
    <2>2. p[moved[k]] \in S /\ Ahead(p[moved[k]], L, V) = Ahead(place[k], L, V)
      BY <1>1, <1>3, <1>5, <1>6, <2>1
    <2>3. p[moved[k]] = place[k]
      BY <1>3, <2>1, <2>2
    <2>4. M[moved[k]] = L[place[k]]
      BY <1>6, <2>1, <2>3
    <2> QED
      BY <1>7, <2>1, <2>4 DEF Agree
  <1> QED
    BY <1>3, <1>5, <1>8

\* Where nothing is repeated, the same alerts and assessments give the same queue in whatever
\* order the two lists arrive (TriageRanker.Rank).
THEOREM QueueIsStable == Spec => []ArrivalOrderIsImmaterial
  <1>1. TriageInv => ArrivalOrderIsImmaterial
    <2> SUFFICES ASSUME TriageInv, Triaged, NoRepetition,
                        NEW a \in Rearrangements(alerts), NEW s \in Rearrangements(assessments)
                 PROVE  Rank(a, s).ranked = answer.ranked
      BY DEF ArrivalOrderIsImmaterial
    <2>1. /\ alerts \in Seq(Nat) /\ assessments \in Seq(AlertAssessment)
          /\ answer.ranked = Ranked(alerts, assessments)
      BY TriagedQueue
    <2>2. a \in Seq(Nat) /\ \E p : Moves(p, alerts, a)
      BY <2>1, RearrangedMoves
    <2>3. s \in Seq(AlertAssessment) /\ \E p : Moves(p, assessments, s)
      BY <2>1, RearrangedMoves
    <2>4. Agree(assessments, s)
      BY <2>1, <2>3, MovedAgree DEF NoRepetition
    <2>5. Ranked(a, s) = Ranked(alerts, assessments)
      BY <2>1, <2>2, <2>3, <2>4, MovedRanked DEF NoRepetition
    <2>6. Rank(a, s).ranked = Ranked(a, s)
      BY DEF Rank
    <2> QED
      BY <2>1, <2>5, <2>6
  <1> QED
    BY <1>1, TriageInvariant, PTL

=============================================================================
