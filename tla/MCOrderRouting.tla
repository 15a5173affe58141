--------------------------- MODULE MCOrderRouting ---------------------------
(* Small instances of OrderRoutingService.                            *)
EXTENDS OrderRoutingService, TLC

CONSTANTS x1, x2, k1, k2

MCExecutions == {x1, x2}
MCOneExecution == {x1}
MCOid == {"alice", "ALICE", "bob"}
MCFold == [o \in MCOid |-> IF o = "bob" THEN 2 ELSE 1]
MCReviewers == {"bob"}
MCCorrelations == {k1, k2}
MCOneCorrelation == {k1}

MCPolicy ==
    [approved |-> {1, 2, 3}, maxParticipation |-> 200000, maxSpread |-> 2500,
     darkMinimum |-> 150, maxNotional |-> 220000, impact |-> 50]

MCOrder(i, s, n, l) == [id |-> i, side |-> s, quantity |-> n, limit |-> l]
MCQuote(v, d, m, s, n, f) ==
    [venue |-> v, dark |-> d, mid |-> m, spread |-> s, liquidity |-> n, fee |-> f]

MCOneOrder == {MCOrder("o1", "Buy", 100, 1002)}

\* One order, and the same order resubmitted with another size.
MCResubmitted == MCOneOrder \cup {MCOrder("o1", "Buy", 200, 1002)}

\* Two orders.
MCTwoOrders == MCOneOrder \cup {MCOrder("o2", "Buy", 100, 1002)}

MCApproval(i, s, e) == [id |-> i, state |-> s, expiresAt |-> e]
MCApprovals == {MCApproval("APR-0", "Approved", 0), MCApproval("APR-1", "Approved", 1)}
MCOneApproval == {MCApproval("APR-1", "Approved", 1)}
MCOneRejection == {MCApproval("APR-1", "Rejected", 1)}
MCOneQuote == {MCQuote(1, FALSE, 1000, 2, 1000, 0)}

Symmetry == Permutations(MCExecutions) \cup Permutations(MCCorrelations)
=============================================================================
