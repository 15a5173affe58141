SPECIFICATION Spec
CONSTANTS
    x1 = x1
    x2 = x2
    k1 = k1
    k2 = k2
    None = None
    Oid <- MCOid
    Fold <- MCFold
    Policy <- MCPolicy
    Executions <- MCOneExecution
    Orders <- MCResubmitted
    Quotes <- MCOneQuote
    Correlations <- MCOneCorrelation
    Reviewers <- MCReviewers
    Approvals <- MCOneApproval
    Horizon = 1
INVARIANT
    FillIsWhatWasReviewed
CHECK_DEADLOCK FALSE
