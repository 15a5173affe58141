SPECIFICATION Spec
CONSTANTS
    x1 = x1
    x2 = x2
    k1 = k1
    k2 = k2
    None = None
    Oid <- MCOid
    Fold <- MCFold
    Policy <- MCPolicy
    Executions <- MCExecutions
    Orders <- MCOneOrder
    Quotes <- MCOneQuote
    Correlations <- MCCorrelations
    Reviewers <- MCReviewers
    Approvals <- MCApprovals
    Horizon = 1
SYMMETRY Symmetry
INVARIANTS
    FilledOnce
    ExecutedIsFilled
    FilledOnAuthority
CHECK_DEADLOCK FALSE
