-------------------------- MODULE RoutingDecisions --------------------------
(***************************************************************************)
(* The routing domain (Fcmr.Router.Decisions) and the router's status      *)
(* mapping, as operators: the complexity score, governance over the        *)
(* catalog, tier selection among what governance left, and the validation  *)
(* of a policy set.  Nothing here keeps state.                             *)
(*                                                                         *)
(* A catalog is a set of model records; nothing keeps two of them from     *)
(* naming one deployment.  A deployment is its rank in ordinal name order, *)
(* a cost a number of the smallest unit of money.  Prose is left out, the  *)
(* cause it states is not.                                                 *)
(***************************************************************************)
EXTENDS Null, Integers, FiniteSets

CONSTANTS
    Vendors,        \* ModelVendor
    Regions         \* execution regions

ASSUME RoutingAssumption == None \notin Vendors /\ None \notin Regions /\ None \notin Int

Economy == 0
Standard == 1
Premium == 2
Tiers == {Economy, Standard, Premium}

Classifications == 0..3         \* Public, Internal, Confidential, Restricted
Restricted == 3

Model == [deployment: Nat, tier: Tiers, cost: Nat, available: BOOLEAN, vendor: Vendors]

\* The hints are the caller's; tokens is its InputTokenEstimate.
Request ==
    [tokens: Nat, multiStep: BOOLEAN, retrieval: BOOLEAN, toolCalls: BOOLEAN,
     ceiling: Nat \ {0}, classification: Classifications, region: Regions \cup {None}]

\* maxClass is the dictionary: a function on the vendors it names.
PolicySet ==
    [approved: SUBSET Vendors, maxClass: UNION {[V -> Classifications] : V \in SUBSET Vendors},
     regions: SUBSET Regions, maxCost: Nat, permitsRestricted: BOOLEAN, version: Nat]

ExclusionKind ==
    {"VendorNotApproved", "ClassificationExceeded", "RegionNotPermitted", "PolicyCostCeiling"}

PolicyValidationFailure ==
    {"ClassificationNamesUnapprovedVendor", "ApprovedVendorHasNoClassification",
     "RestrictedDataUnservable"}

\* The sentence BuildCandidates gives a candidate it passes over, by what it states.
RejectedKind == {"Unavailable", "AboveCeiling", "SameTier", "AboveIndicated", "BelowIndicated"}

\* null is none of these.
ASSUME RoutingNullAssumption ==
    /\ None \notin Model
    /\ None \notin ExclusionKind /\ None \notin PolicyValidationFailure /\ None \notin RejectedKind

-----------------------------------------------------------------------------
(* ComplexityScorer: a score of 0.0000 to 1.0000, in ten-thousandths.      *)

TokenSaturation == 32000

\* Math.Round: halves go to the even neighbour.  In binary arithmetic a half may land on
\* the other neighbour; for no input does that move the score across a tier boundary.
RoundedEighth(x) ==
    LET q == x \div 8
        r == x % 8
    IN  IF r < 4 \/ (r = 4 /\ q % 2 = 0) THEN q ELSE q + 1

\* 0.40 of the saturated token signal is min(tokens, 32000) / 8 ten-thousandths.
Score(req) ==
    RoundedEighth(IF req.tokens < TokenSaturation THEN req.tokens ELSE TokenSaturation)
    + (IF req.multiStep THEN 2500 ELSE 0)
    + (IF req.retrieval THEN 2000 ELSE 0)
    + (IF req.toolCalls THEN 1500 ELSE 0)

IndicatedTier(score) ==
    IF score < 3500 THEN Economy
    ELSE IF score < 7000 THEN Standard
    ELSE Premium

-----------------------------------------------------------------------------
(* PolicyGate.Evaluate: None for an eligible model, else why it is out.    *)

RegionBarred(policy, req) ==
    policy.regions # {} /\ req.region # None /\ req.region \notin policy.regions

MutExclusion(m, policy, req) ==       \* an unlisted vendor counts as unlimited
    IF RegionBarred(policy, req) THEN "RegionNotPermitted"
    ELSE IF m.vendor \in DOMAIN policy.maxClass /\ req.classification > policy.maxClass[m.vendor]
         THEN "ClassificationExceeded"
    ELSE IF m.cost > policy.maxCost THEN "PolicyCostCeiling"
    ELSE None

Exclusion(m, policy, req) ==
    IF RegionBarred(policy, req) THEN "RegionNotPermitted"
    ELSE IF m.vendor \notin policy.approved THEN "VendorNotApproved"
    ELSE IF m.vendor \notin DOMAIN policy.maxClass \/ req.classification > policy.maxClass[m.vendor]
         THEN "ClassificationExceeded"
    ELSE IF m.cost > policy.maxCost THEN "PolicyCostCeiling"
    ELSE None

Eligible(catalog, policy, req) == {m \in catalog : Exclusion(m, policy, req) = None}

Excluded(catalog, policy, req) ==
    {[deployment |-> m.deployment, vendor |-> m.vendor, kind |-> Exclusion(m, policy, req)] :
        m \in catalog \ Eligible(catalog, policy, req)}

-----------------------------------------------------------------------------
(* TierSelector.  The OrderBy ... ThenBy ... First chains are filters that *)
(* keep the first of each key; the last one keeps a single model, of equal *)
(* names any one where the code takes the one listed first.                *)

LowestTier(S) == {m \in S : \A n \in S : m.tier <= n.tier}
HighestTier(S) == {m \in S : \A n \in S : m.tier >= n.tier}
Cheapest(S) == {m \in S : \A n \in S : m.cost <= n.cost}
FirstByName(S) == CHOOSE m \in S : \A n \in S : m.deployment <= n.deployment

MutChoose(affordable, indicated) ==   \* "the most capable affordable tier"
    FirstByName(Cheapest(HighestTier(affordable)))

Choose(affordable, indicated) ==
    LET at    == {m \in affordable : m.tier = indicated}
        below == {m \in affordable : m.tier < indicated}
    IN  FirstByName(Cheapest(IF at # {} THEN at
                             ELSE IF below # {} THEN HighestTier(below)
                             ELSE LowestTier(affordable)))

MutRejectedReason(m, chosen, ceiling, indicated) ==   \* candidates identified by tier
    IF chosen # None /\ m.tier = chosen.tier THEN None
    ELSE IF ~m.available THEN "Unavailable"
    ELSE IF m.cost > ceiling THEN "AboveCeiling"
    ELSE IF indicated # None /\ m.tier > indicated THEN "AboveIndicated"
    ELSE "BelowIndicated"

\* Why a candidate was passed over; None for the selected one.
RejectedReason(m, chosen, ceiling, indicated) ==
    IF chosen # None /\ m.deployment = chosen.deployment THEN None
    ELSE IF ~m.available THEN "Unavailable"
    ELSE IF m.cost > ceiling THEN "AboveCeiling"
    ELSE IF chosen # None /\ m.tier = chosen.tier THEN "SameTier"
    ELSE IF indicated # None /\ m.tier > indicated THEN "AboveIndicated"
    ELSE "BelowIndicated"

BuildCandidates(pricing, chosen, ceiling, indicated) ==
    {[model |-> m, selected |-> chosen # None /\ m.deployment = chosen.deployment,
      reason |-> RejectedReason(m, chosen, ceiling, indicated)] : m \in pricing}

Select(score, ceiling, pricing) ==
    LET indicated  == IndicatedTier(score)
        affordable == {m \in pricing : m.available /\ m.cost <= ceiling}
        chosen     == Choose(affordable, indicated)
    IN  IF affordable = {}     \* nothing up, or nothing affordable
        THEN [outcome |-> "Denied", selected |-> None, score |-> score, ceiling |-> ceiling,
              candidates |-> BuildCandidates(pricing, None, ceiling, None)]
        ELSE [outcome |-> IF chosen.tier < indicated THEN "Downgraded" ELSE "Routed",
              selected |-> chosen, score |-> score, ceiling |-> ceiling,
              candidates |-> BuildCandidates(pricing, chosen, ceiling, indicated)]

-----------------------------------------------------------------------------
(* RoutingPlanner.Plan: governance, then economics over what it left.      *)

Min2(a, b) == IF a < b THEN a ELSE b

Refused(req, catalog, excluded) ==
    [outcome |-> "RefusedByPolicy", selected |-> None, score |-> Score(req),
     ceiling |-> req.ceiling,
     candidates |-> {[model |-> m, selected |-> FALSE,
                      reason |-> (CHOOSE e \in excluded : e.deployment = m.deployment).kind] :
                        m \in catalog}]

\* What Plan adds to either decision.
Governed(decision, req, policy, excluded) ==
    [outcome |-> decision.outcome, selected |-> decision.selected, score |-> decision.score,
     ceiling |-> decision.ceiling, candidates |-> decision.candidates,
     exclusions |-> excluded, version |-> policy.version, classification |-> req.classification]

MutPlan(req, catalog, policy) ==      \* economics first, the gate as a check on its choice
    LET eligible == Eligible(catalog, policy, req)
        excluded == Excluded(catalog, policy, req)
        decision == Select(Score(req), Min2(req.ceiling, policy.maxCost), catalog)
    IN  IF decision.selected # None /\ decision.selected \notin eligible
        THEN Governed(Refused(req, catalog \ eligible, excluded), req, policy, excluded)
        ELSE Governed(decision, req, policy, excluded)

Plan(req, catalog, policy) ==
    LET eligible == Eligible(catalog, policy, req)
        excluded == Excluded(catalog, policy, req)
    IN  Governed(IF eligible = {}
                 THEN Refused(req, catalog, excluded)
                 ELSE Select(Score(req), Min2(req.ceiling, policy.maxCost), eligible),
                 req, policy, excluded)

-----------------------------------------------------------------------------
(* RouteStatusMapper.                                                      *)

NoPermittedModelAvailable(decision, catalog) ==
    LET barred    == {e.deployment : e \in decision.exclusions}
        permitted == {m \in catalog : m.deployment \notin barred}
    IN  permitted # {} /\ \A m \in permitted : ~m.available

MutStatusFor(decision, catalog) ==    \* judged on the catalog, exclusions ignored
    IF decision.outcome # "Denied" THEN 200
    ELSE IF \A m \in catalog : ~m.available THEN 503
    ELSE 402

StatusFor(decision, catalog) ==
    IF decision.outcome # "Denied" THEN 200
    ELSE IF NoPermittedModelAvailable(decision, catalog) THEN 503
    ELSE 402

-----------------------------------------------------------------------------
(* PolicySetValidator.Validate: None, or the first failure.                *)

CanServeRestricted(p) ==
    \E v \in p.approved : v \in DOMAIN p.maxClass /\ p.maxClass[v] >= Restricted

MutValidate(p) ==                     \* only the entries present are looked at
    IF ~(DOMAIN p.maxClass \subseteq p.approved) THEN "ClassificationNamesUnapprovedVendor"
    ELSE None

Validate(p) ==
    IF ~(DOMAIN p.maxClass \subseteq p.approved) THEN "ClassificationNamesUnapprovedVendor"
    ELSE IF ~(p.approved \subseteq DOMAIN p.maxClass) THEN "ApprovedVendorHasNoClassification"
    ELSE IF p.permitsRestricted /\ ~CanServeRestricted(p) THEN "RestrictedDataUnservable"
    ELSE None

=============================================================================
