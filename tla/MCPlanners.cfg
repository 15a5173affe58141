SPECIFICATION Spec
CONSTANTS
    v1 = v1
    v2 = v2
    None = None
    Vendors <- MCVendors
    Regions <- MCRegions
    Catalogs <- MCCatalogs
    Policies <- MCPolicies
    Requests <- MCRequests
    Oid <- MCOid
    Fold <- MCFold
    Policy <- MCPolicy
    Orders <- MCOrders
    Quotes <- MCQuotes
    Batches <- MCBatches
INVARIANTS
    BestPermitted
    TurnedAwayForCause
    GovernanceFirst
    MoreMoneyNeverHurts
    
    StatusTellsWhy
    WithinPolicy
    BestPriceAtItsMid
    MoreVenuesNeverHurt
    ArrivalOrderIsImmaterial
    CompletenessIsHonest
    
CHECK_DEADLOCK FALSE
