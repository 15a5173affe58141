------------------------------ MODULE Planners ------------------------------
(***************************************************************************)
(* The lanes' pure decisions, one question at a time, for every question   *)
(* of a bounded space: RoutingPlanner.Plan, RoutePlanner.Plan and          *)
(* TriageRanker.Rank against what their callers are told about them,       *)
(* stated without their algorithms.                                        *)
(***************************************************************************)
EXTENDS RoutingDecisions, BestExecution, Surveillance

CONSTANTS
    Catalogs, Policies, Requests,   \* which model serves a request
    Orders, Quotes,                 \* which venue an order goes to
    Batches                         \* in which order alerts are reviewed

ASSUME PlannersAssumption ==
    /\ \A c \in Catalogs : c \subseteq Model
    /\ Policies \subseteq PolicySet /\ Requests \subseteq Request
    /\ \A o \in Orders : o.side \in {"Buy", "Sell"} /\ o.quantity \in Nat /\ o.limit \in Nat \cup {None}
    /\ \A q \in Quotes : /\ q.venue \in Nat /\ q.dark \in BOOLEAN /\ q.mid \in Nat
                         /\ q.spread \in Int /\ q.liquidity \in Int /\ q.fee \in Int
    /\ IsFiniteSet(Quotes)
    /\ \A b \in Batches : b.alerts \in Seq(Nat) /\ b.assessments \in Seq(AlertAssessment)

VARIABLES question, answer

vars == <<question, answer>>

\* RoutingPlanner.Plan throws on an empty catalog, which the handler answers with 503 before
\* it gets there; ProposeAsync refuses an order without quotes, and Rank a batch without alerts.
Init ==
    /\ \/ question \in [lane: {"Model"}, catalog: Catalogs \ {{}},
                        policy: {p \in Policies : Validate(p) = None}, req: Requests]
       \/ question \in [lane: {"Route"}, order: Orders, quotes: (SUBSET Quotes) \ {{}}]
       \/ question \in [lane: {"Triage"}, batch: {b \in Batches : b.alerts # <<>>}]
    /\ answer = None

Asked(lane) == answer = None /\ question.lane = lane

\* RoutingPlanner.Plan.
PlanModel ==
    /\ Asked("Model")
    /\ answer' = Plan(question.req, question.catalog, question.policy)
    /\ UNCHANGED question

\* RoutePlanner.Plan.
PlanRoute ==
    /\ Asked("Route")
    /\ LET breaches == HaltedBy(question.order, question.quotes)
       IN  answer' = [breaches |-> breaches,
                      proposal |-> IF breaches = {}
                                   THEN Proposal(question.order, question.quotes, None, None)
                                   ELSE None]
    /\ UNCHANGED question

\* TriageRanker.Rank.
RankBatch ==
    /\ Asked("Triage")
    /\ answer' = Rank(question.batch.alerts, question.batch.assessments)
    /\ UNCHANGED question

Next == PlanModel \/ PlanRoute \/ RankBatch

Spec == Init /\ [][Next]_vars

Answered(lane) == answer # None /\ question.lane = lane

-----------------------------------------------------------------------------
(* Which model serves a request.                                           *)

catalog == question.catalog
policy == question.policy
req == question.req
decision == answer

Made == Answered("Model")
Selected == Made /\ decision.selected # None

\* What the policy set permits for this request, said once and without an order.
Permitted(m) ==
    /\ m.vendor \in policy.approved
    /\ req.classification <= policy.maxClass[m.vendor]
    /\ m.cost <= policy.maxCost
    /\ policy.regions = {} \/ req.region \in policy.regions \cup {None}

\* How far a model is from what the request needs: at the indicated tier, else as little
\* below it as possible, else as little above it as possible.
Distance(m) ==
    LET indicated == IndicatedTier(Score(req))
    IN  IF m.tier <= indicated THEN indicated - m.tier ELSE 10 + m.tier

\* The selected model is permitted, up and affordable, and no other such model is nearer
\* the indicated tier, or as near and cheaper (TierSelector.Choose, against the promise in
\* its comment).
BestPermitted ==
    Selected =>
        LET usable == {m \in catalog : Permitted(m) /\ m.available /\ m.cost <= req.ceiling}
            best   == decision.selected
        IN  /\ best \in usable
            /\ \A m \in usable : \/ Distance(best) < Distance(m)
                                 \/ Distance(best) = Distance(m) /\ best.cost <= m.cost

\* A request is turned away only when there is nothing for it: refused when no model is
\* permitted, denied when the permitted ones are all down or too expensive.
TurnedAwayForCause ==
    Made =>
        /\ decision.outcome = "RefusedByPolicy" <=> \A m \in catalog : ~Permitted(m)
        /\ decision.outcome = "Denied" <=>
             /\ \E m \in catalog : Permitted(m)
             /\ \A m \in catalog : Permitted(m) => ~m.available \/ m.cost > req.ceiling

\* A model governance excluded has no influence: the decision over the permitted models
\* alone selects the same one (RoutingPlanner: economics "never see the models it removed").
GovernanceFirst ==
    Made =>
        LET permitted == {m \in catalog : Permitted(m)}
        IN  permitted # {} =>
              LET alone == Plan(req, permitted, policy)
              IN  /\ alone.outcome = decision.outcome
                  /\ alone.selected = decision.selected

\* A caller willing to pay more is never served worse: no answer turns into a denial, and
\* the selected model is no farther from the indicated tier.
MoreMoneyNeverHurts ==
    Selected =>
        \A extra \in 1..3 :
            LET richer == Plan([req EXCEPT !.ceiling = @ + extra], catalog, policy)
            IN  richer.selected # None /\ Distance(richer.selected) <= Distance(decision.selected)

\* The record accounts for every deployment of the catalog: each one is a candidate or
\* carries an exclusion, the selected deployment and no other goes without a reason, and the
\* cause a reason names is the candidate's (TierSelector.BuildCandidates, RoutingPlanner.Refused).
\* A model of the selected tier lost on cost or, as dear, on its name.  In the second case
\* the code's sentence, "at a higher projected cost" (TierSelector.cs:171), is false.
EveryModelAccounted ==
    Made =>
        /\ {c.model.deployment : c \in decision.candidates}
             \cup {e.deployment : e \in decision.exclusions} = {m.deployment : m \in catalog}
        /\ {c.model.deployment : c \in {k \in decision.candidates : k.selected}} =
             (IF Selected THEN {decision.selected.deployment} ELSE {})
        /\ \A c \in decision.candidates :
             /\ c.selected <=> c.reason = None
             /\ c.reason = "Unavailable" => ~c.model.available
             /\ c.reason = "AboveCeiling" => c.model.cost > req.ceiling
             /\ c.reason = "SameTier" =>
                  /\ c.model.tier = decision.selected.tier
                  /\ \/ c.model.cost > decision.selected.cost
                     \/ /\ c.model.cost = decision.selected.cost
                        /\ c.model.deployment > decision.selected.deployment
             /\ c.reason = "AboveIndicated" => c.model.tier > IndicatedTier(Score(req))
             /\ c.reason = "BelowIndicated" => c.model.tier < IndicatedTier(Score(req))

\* No two models of the catalog share a name, which ConfiguredModelCatalog leaves to whoever
\* configures it.
UniqueNames == \A m, n \in catalog : m.deployment = n.deployment => m = n

\* The status separates "nothing was up" (503) from "too expensive" (402) from a governed
\* answer (200): a 402 means that some permitted model was up.  RouteStatusMapper goes by
\* name, so this needs a catalog in which a name is one model.
StatusTellsWhy ==
    (Made /\ UniqueNames) =>
        LET status == StatusFor(decision, catalog)
        IN  /\ status = 402 => \E m \in catalog : Permitted(m) /\ m.available
            /\ status = 503 <=> /\ decision.outcome = "Denied"
                                /\ \A m \in catalog : Permitted(m) => ~m.available

-----------------------------------------------------------------------------
(* Which venue an order goes to.                                           *)

order == question.order
quotes == question.quotes
outcome == answer

Proposed == Answered("Route") /\ outcome.proposal # None

\* A proposal stays inside the desk's policy, all six boundaries of it: an approved venue
\* that is not dark for a small order, no more than the permitted share of what the venue
\* shows and a spread within the tolerance (to half the unit each is rounded to), an order
\* within the notional ceiling and a price no worse than the limit.  Two of them do not bind
\* everywhere: a quote without a mid is held to no spread (BestExecutionEvaluator.cs:128), and
\* an order without a limit to no notional (OrderRoutingEndpoints.cs:91).
WithinPolicy ==
    Proposed =>
        \E q \in quotes :
            LET p == outcome.proposal
            IN  /\ q.venue = p.venue /\ p.price = ProjectedPrice(order, q)
                /\ q.venue \in Policy.approved
                /\ q.dark => order.quantity >= Policy.darkMinimum
                /\ 2 * order.quantity * One <= (2 * Policy.maxParticipation + 1) * q.liquidity
                /\ q.mid # 0 => 2 * q.spread * One <= (2 * Policy.maxSpread + 1) * q.mid
                /\ order.limit # None =>
                     /\ order.quantity * order.limit <= Policy.maxNotional
                     /\ IF order.side = "Buy" THEN p.price <= order.limit ELSE p.price >= order.limit

\* A quote that on its bare numbers, nothing rounded, respects what the policy asks of a venue.
Unobjectionable(q) ==
    /\ q.venue \in Policy.approved
    /\ q.dark => order.quantity >= Policy.darkMinimum
    /\ q.liquidity > 0 /\ order.quantity * One <= Policy.maxParticipation * q.liquidity
    /\ q.spread * One <= Policy.maxSpread * q.mid

\* Nobody is sent to a worse price: of the unobjectionable quotes around the same mid, none
\* has a better projected price than the proposal, for the side of the order.  Venues are
\* compared by cost in basis points and held to the limit by price, both rounded, with
\* rebates, dark venues and sellers turning signs around.  Quotes around different mids are
\* compared by cost alone, so that one with a better price may lose.
BestPriceAtItsMid ==
    Proposed =>
        \E q \in quotes :
            LET p == outcome.proposal
            IN  /\ q.venue = p.venue /\ p.price = ProjectedPrice(order, q)
                /\ \A r \in quotes : (r.mid = q.mid /\ Unobjectionable(r)) =>
                     IF order.side = "Buy" THEN p.price <= ProjectedPrice(order, r)
                                           ELSE p.price >= ProjectedPrice(order, r)

\* One more venue never makes a route worse: it cannot halt an order that had a route, nor
\* move it to a dearer venue.
MoreVenuesNeverHurt ==
    Proposed =>
        \A extra \in Quotes \ quotes :
            /\ HaltedBy(order, quotes \cup {extra}) = {}
            /\ TotalCost(order, Winner(order, quotes \cup {extra}))
                 <= TotalCost(order, Winner(order, quotes))

-----------------------------------------------------------------------------
(* In which order alerts are reviewed.                                     *)

Triaged == Answered("Triage")
alerts == question.batch.alerts
assessments == question.batch.assessments

\* The two lists without repetition: one submission and one assessment per alert.
NoRepetition ==
    /\ \A i, j \in DOMAIN alerts : alerts[i] = alerts[j] => i = j
    /\ \A i, j \in DOMAIN assessments : assessments[i].alert = assessments[j].alert => i = j

Rearrangements(s) ==
    {[i \in DOMAIN s |-> s[p[i]]] :
        p \in {f \in [DOMAIN s -> DOMAIN s] : \A i, j \in DOMAIN s : f[i] = f[j] => i = j}}

\* "The same alerts and assessments produce the same queue regardless of the order they
\* arrive in" (SurveillanceEndpoints.cs), as long as nothing is repeated: alerts are scored
\* concurrently, and scores are equal more often than not.
ArrivalOrderIsImmaterial ==
    (Triaged /\ NoRepetition) =>
        \A a \in Rearrangements(alerts), s \in Rearrangements(assessments) :
            Rank(a, s).ranked = answer.ranked

\* A queue that calls itself complete has a rank, a rationale and evidence for every alert
\* submitted, and one that does not names an alert that lacks one (TriageBatch.IsComplete).
CompletenessIsHonest ==
    Triaged =>
        (IsComplete(answer) <=>
            \A i \in DOMAIN alerts : \E k \in DOMAIN answer.ranked :
                /\ answer.ranked[k].alert = alerts[i]
                /\ answer.ranked[k].assessment.rationale
                /\ answer.ranked[k].assessment.evidence > 0)

\* A recall of 100% is only claimed when every concerning alert that was submitted, scored or
\* not, is among those examined (TriageQuality.Measure).
RecallIsHonest ==
    (Triaged /\ NoRepetition) =>
        \A concerning \in SUBSET ({alerts[i] : i \in DOMAIN alerts}
                                   \cup {assessments[i].alert : i \in DOMAIN assessments}),
           depth \in 0..Len(alerts) + 1 :
            LET report == Measure(answer, concerning, depth)
                present == {a \in concerning : \E i \in DOMAIN alerts : alerts[i] = a}
            IN  report.truePositives = report.concerningInBatch <=>
                  present \subseteq {answer.ranked[k].alert : k \in 1..report.examined}

=============================================================================
