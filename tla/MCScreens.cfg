SPECIFICATION Spec
CONSTANTS
    s1 = s1
    i1 = i1
    p1 = p1
    None = None
    Ids <- MCIds
    Oid <- MCOid
    Person <- MCPerson
    Packets <- MCPackets
    Uncorrelated = {}
    Digest <- MCDigest
    Sessions <- MCSessions
    Identity <- MCIdentity
    IsApprover <- MCIsApprover
    Skew <- MCSkew
    Elsewhere <- MCElsewhere
    MaxCalls = 2
    Raised <- MCRaised
    Horizon = 1
INVARIANTS
    BlockedIsRefused
    DecidesAgainOnlyAfterFailure
PROPERTIES
    QueueConverges
    DecisionShows
