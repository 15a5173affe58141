---------------------------- MODULE BestExecution ----------------------------
(***************************************************************************)
(* The order routing domain (Fcmr.OrderRouting.Domain) as operators: the   *)
(* cost model, the policy boundaries, the choice of a venue and the        *)
(* simulated OMS's refusals.                                               *)
(*                                                                         *)
(* Decimals are integers in the unit the code rounds to: prices in         *)
(* ten-thousandths, basis points in hundredths, participation in           *)
(* millionths.  A venue is its code's rank in ordinal order.               *)
(***************************************************************************)
EXTENDS Null, Integers, FiniteSets

CONSTANTS
    Oid,            \* object ids as tokens spell them
    Fold,           \* Fold[o]: o case-folded
    Policy          \* BestExecutionPolicy

ExecutionRefusalReason ==
    {"NoAuthorization", "AuthorizationForDifferentProposal", "CorrelationMismatch",
     "AuthorizationExpired", "SegregationOfDuties"}

ASSUME BestExecutionAssumption ==
    /\ DOMAIN Fold = Oid /\ None \notin Oid /\ None \notin Int /\ None \notin ExecutionRefusalReason
    /\ Policy.approved \subseteq Nat
    /\ \A f \in {"maxParticipation", "maxSpread", "darkMinimum", "maxNotional", "impact"} :
         Policy[f] \in Nat

Boundary ==
    {"VenueNotApproved", "DarkPoolMinimumSize", "ParticipationRateExceeded",
     "SpreadToleranceExceeded", "LimitPriceBreached", "NotionalCeilingExceeded"}

\* Math.Round(n / d, MidpointRounding.ToEven), n >= 0 and d > 0.
RoundDiv(n, d) ==
    LET q == n \div d
        r == 2 * (n % d)
    IN  IF r < d \/ (r = d /\ q % 2 = 0) THEN q ELSE q + 1

-----------------------------------------------------------------------------
(* BestExecutionEvaluator.                                                 *)

One == 1000000                   \* 100% participation, and 10000 basis points
Unbounded == 1000 * One          \* no liquidity: above every limit
ASSUME UnboundedAssumption == Policy.maxParticipation < Unbounded

Participation(order, q) ==
    IF q.liquidity <= 0 THEN Unbounded ELSE RoundDiv(order.quantity * One, q.liquidity)

SpreadCost(q) ==                 \* dark venues execute at the midpoint
    IF q.mid = 0 \/ q.dark THEN 0 ELSE RoundDiv(q.spread * One, 2 * q.mid)

Impact(order, q) ==
    LET p == Participation(order, q)
    IN  RoundDiv(Policy.impact * (IF p < One THEN p ELSE One), 10000)

TotalCost(order, q) == SpreadCost(q) + Impact(order, q) + q.fee

MutProjectedPrice(order, q) ==   \* the cost is added for a seller too
    RoundDiv(q.mid * (One + TotalCost(order, q)), One)

ProjectedPrice(order, q) ==
    LET signed == IF order.side = "Buy" THEN TotalCost(order, q) ELSE -TotalCost(order, q)
    IN  RoundDiv(q.mid * (One + signed), One)

\* An order without a limit price is given the limit zero.
Limit(order) == IF order.limit = None THEN 0 ELSE order.limit

NotionalExceeded(order) == order.quantity * Limit(order) > Policy.maxNotional

ThroughLimit(order, q) ==
    IF order.side = "Buy" THEN ProjectedPrice(order, q) > Limit(order)
                          ELSE ProjectedPrice(order, q) < Limit(order)

MutBreaches(order, q) ==         \* the limit is compared the buyer's way round for both sides
    {b \in Boundary :
        \/ b = "VenueNotApproved" /\ q.venue \notin Policy.approved
        \/ b = "DarkPoolMinimumSize" /\ q.dark /\ order.quantity < Policy.darkMinimum
        \/ b = "ParticipationRateExceeded" /\ Participation(order, q) > Policy.maxParticipation
        \/ b = "SpreadToleranceExceeded"
             /\ q.mid # 0 /\ RoundDiv(q.spread * One, q.mid) > Policy.maxSpread
        \/ b = "LimitPriceBreached" /\ ProjectedPrice(order, q) > Limit(order)}

\* The venue-level boundaries a venue breaches, all of them.
Breaches(order, q) ==
    {b \in Boundary :
        \/ b = "VenueNotApproved" /\ q.venue \notin Policy.approved
        \/ b = "DarkPoolMinimumSize" /\ q.dark /\ order.quantity < Policy.darkMinimum
        \/ b = "ParticipationRateExceeded" /\ Participation(order, q) > Policy.maxParticipation
        \/ b = "SpreadToleranceExceeded"
             /\ q.mid # 0 /\ RoundDiv(q.spread * One, q.mid) > Policy.maxSpread
        \/ b = "LimitPriceBreached" /\ ThroughLimit(order, q)}

-----------------------------------------------------------------------------
(* RoutePlanner.Plan: the winner, or the boundaries that halted the order. *)

Winner(order, quotes) ==
    LET eligible == {q \in quotes : Breaches(order, q) = {}}
        best == {q \in eligible : \A r \in eligible : TotalCost(order, q) <= TotalCost(order, r)}
    IN  CHOOSE q \in best : \A r \in best : q.venue <= r.venue

MutHaltedBy(order, quotes) ==    \* one venue in breach halts the order
    IF NotionalExceeded(order) THEN {"NotionalCeilingExceeded"}
    ELSE UNION {Breaches(order, q) : q \in quotes}

HaltedBy(order, quotes) ==
    IF NotionalExceeded(order) THEN {"NotionalCeilingExceeded"}
    ELSE IF \E q \in quotes : Breaches(order, q) = {} THEN {}
    ELSE UNION {Breaches(order, q) : q \in quotes}

\* A RouteProposal.  Its id is derived from the order's; the order and the quotes it was
\* planned from stand for Considered and the justification.
Proposal(order, quotes, by, correlation) ==
    LET winner == Winner(order, quotes)
    IN  [id |-> order.id, correlation |-> correlation, quantity |-> order.quantity,
         venue |-> winner.venue, price |-> ProjectedPrice(order, winner), proposedBy |-> by,
         order |-> order, considered |-> quotes]

-----------------------------------------------------------------------------
(* SimulatedOms.Execute: None, or the first refusal.                       *)

MutExecuteRefusal(proposal, auth, now) ==    \* identities compared as spelled
    IF auth = None THEN "NoAuthorization"
    ELSE IF auth.proposalId # proposal.id THEN "AuthorizationForDifferentProposal"
    ELSE IF auth.correlation # proposal.correlation THEN "CorrelationMismatch"
    ELSE IF now >= auth.expiresAt THEN "AuthorizationExpired"
    ELSE IF auth.approvedBy = proposal.proposedBy THEN "SegregationOfDuties"
    ELSE None

MutExecuteChain(proposal, auth, now) ==      \* the correlation ids are not compared
    IF auth = None THEN "NoAuthorization"
    ELSE IF auth.proposalId # proposal.id THEN "AuthorizationForDifferentProposal"
    ELSE IF now >= auth.expiresAt THEN "AuthorizationExpired"
    ELSE IF Fold[auth.approvedBy] = Fold[proposal.proposedBy] THEN "SegregationOfDuties"
    ELSE None

ExecuteRefusal(proposal, auth, now) ==
    IF auth = None THEN "NoAuthorization"
    ELSE IF auth.proposalId # proposal.id THEN "AuthorizationForDifferentProposal"
    ELSE IF auth.correlation # proposal.correlation THEN "CorrelationMismatch"
    ELSE IF now >= auth.expiresAt THEN "AuthorizationExpired"
    ELSE IF Fold[auth.approvedBy] = Fold[proposal.proposedBy] THEN "SegregationOfDuties"
    ELSE None

Execution(proposal, auth, now) ==
    [proposalId |-> proposal.id, correlation |-> proposal.correlation, venue |-> proposal.venue,
     quantity |-> proposal.quantity, price |-> proposal.price, executedAt |-> now,
     approvalId |-> auth.approvalId]

=============================================================================
