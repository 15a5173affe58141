SPECIFICATION Spec
CONSTANTS
    c1 = c1
    c2 = c2
    c3 = c3
    p1 = p1
    p2 = p2
    None = None
    Ids <- MCIds
    Oid <- MCOid
    Person <- MCPerson
    Packets <- MCPackets
    Uncorrelated <- MCUncorrelated
    Digest <- MCDigest
    InFlight = 1
    Horizon = 2
SYMMETRY Symmetry
INVARIANTS
    GoneIsRecorded
CHECK_DEADLOCK FALSE
