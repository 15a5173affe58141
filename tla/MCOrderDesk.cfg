SPECIFICATION Spec
CONSTANTS
    a1 = a1
    None = None
    Oid <- MCOid
    Fold <- MCFold
    Policy <- MCPolicy
    Tickets <- MCTickets
    Ids <- MCIds
    Deciders <- MCDeciders
    Tokens <- MCTokens
    Roles <- MCRoles
    Anonymous = "anonymous-development-caller"
    Shapes <- MCShapes
    MaxCalls = 4
    ExpiresAt <- MCExpiresAt
    Horizon = 1
INVARIANTS
    FilledAsShown
    RetryNeverFillsTwice
    DeciderIsOnRecord
    StaleOnlyWhenOverlapping
PROPERTY
    WaitsEnd
CHECK_DEADLOCK FALSE
