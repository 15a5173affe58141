----------------------------- MODULE MCPlanners -----------------------------
(* The questions of each lane.                                              *)
EXTENDS Planners, TLC

CONSTANTS v1, v2

\* Models: every pair, of two names or of one, with and without a third, policy shapes, and requests on both
\* sides of each score boundary.
MCVendors == {v1, v2}
MCRegions == {"east", "west"}

MCModels(d) ==
    [deployment: {d}, tier: Tiers, cost: {1, 3}, available: BOOLEAN, vendor: MCVendors]

MCCatalogs ==
    {{}} \cup {{m, n} : m \in MCModels(1), n \in MCModels(1) \cup MCModels(2)}
    \cup {{m, n, [deployment |-> 3, tier |-> Standard, cost |-> 2, available |-> TRUE, vendor |-> v2]} :
            m \in MCModels(1), n \in MCModels(2)}

MCPolicies ==
    [approved: {{v1}, MCVendors}, maxClass: {(v1 :> 2), (v1 :> 3 @@ v2 :> 1)},
     regions: {{}, {"east"}}, maxCost: {2, 9}, permitsRestricted: {FALSE}, version: {1}]

MCRequests ==
    {[tokens |-> t, multiStep |-> s, retrieval |-> s, toolCalls |-> s, ceiling |-> c,
      classification |-> k, region |-> r] :
        t \in {7995, 7996, 27995, 27996}, s \in BOOLEAN, c \in {1, 2, 4}, k \in {1, 2}, r \in {None, "west"}}

\* Routes: orders and quotes on both sides of every boundary.  The desk's policy keeps its
\* default rates; sizes are scaled to stay within TLC's integers.
MCOid == {"alice"}
MCFold == [o \in MCOid |-> o]

MCPolicy ==
    [approved |-> {1, 2, 3, 4}, maxParticipation |-> 200000, maxSpread |-> 2500,
     darkMinimum |-> 200, maxNotional |-> 220000, impact |-> 50]

MCOrders ==
    [id: {"o1"}, side: {"Buy", "Sell"}, quantity: {100, 199, 200, 219, 220},
     limit: {None, 997, 998, 999, 1000, 1001, 1002, 1003}]

\* Lit venues at the spread limit and above it, one paying a rebate, one showing just enough
\* for 200 shares, two dark ones, one not approved, one with nothing to show, one whose mid
\* is missing.
MCQuotes ==
    {[venue |-> v[1], dark |-> v[2], mid |-> v[3], spread |-> v[4], liquidity |-> v[5], fee |-> v[6]] :
        v \in {<<1, FALSE, 1000, 2, 2000, 0>>, <<1, FALSE, 800, 2, 2000, 0>>,
               <<2, FALSE, 1000, 2, 2000, -300>>, <<2, FALSE, 1000, 3, 2000, -900>>,
               <<3, TRUE, 1000, 2, 2000, 100>>, <<3, TRUE, 1000, 2, 2000, -100>>,
               <<4, FALSE, 1000, 1, 1000, 0>>, <<4, FALSE, 1000, 2, 0, 0>>,
               <<4, FALSE, 0, 1, 2000, 0>>, <<9, FALSE, 1000, 1, 2000, 0>>}}

\* Batches: alerts submitted in and out of order and twice, assessments of them and of
\* another, scores that are equal only once they are rounded.
MCAssessments ==
    {[alert |-> v[1], score |-> v[2], rationale |-> v[3], evidence |-> v[4]] :
        v \in {<<1, 6995, TRUE, 1>>, <<1, 7005, TRUE, 0>>, <<2, 7000, TRUE, 1>>, <<2, 6995, FALSE, 1>>,
               <<3, 7000, TRUE, 2>>, <<3, 7011, TRUE, 1>>, <<4, 0, FALSE, 0>>}}

MCBatches ==
    [alerts: {<<>>, <<1>>, <<2, 1>>, <<1, 2, 3>>, <<3, 1, 2>>, <<2, 2, 1>>},
     assessments: UNION {[1..n -> MCAssessments] : n \in 0..3}]
=============================================================================
