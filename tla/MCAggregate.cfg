SPECIFICATION Spec
CONSTANTS
    a1 = a1
    p1 = p1
    p2 = p2
    p3 = p3
    None = None
    Ids = {a1}
    Oid <- MCOid
    Person <- MCPerson
    Packets <- MCPackets
    Uncorrelated = {p3}
    Digest <- MCDigest
    Alterable = {"packet", "decidedBy"}
    Horizon = 3
INVARIANTS
    TypeOK
    AuthorizedEvidenceIsProposed
    AuthorizedInTime
    NoSelfAuthorization
PROPERTY ImplementsLifecycle
CHECK_DEADLOCK FALSE
