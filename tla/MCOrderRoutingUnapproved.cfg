SPECIFICATION Spec
CONSTANTS
    x1 = x1
    x2 = x2
    k1 = k1
    k2 = k2
    None = None
    Oid <- MCOid
    Fold <- MCFold
    Policy <- MCPolicy
    Executions <- MCOneExecution
    Orders <- MCOneOrder
    Quotes <- MCOneQuote
    Correlations <- MCOneCorrelation
    Reviewers <- MCReviewers
    Approvals <- MCOneRejection
    Horizon = 1
INVARIANT
    FilledOnApproval
CHECK_DEADLOCK FALSE
