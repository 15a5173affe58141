SPECIFICATION Spec
CONSTANTS
    h1 = h1
    h2 = h2
    e1 = e1
    e2 = e2
    v1 = v1
    v2 = v2
    None = None
    Calls <- MCCalls
    Editors <- MCEditors
    Vendors <- MCVendors
    Regions <- MCRegions
    Configurations <- MCConfigurations
    Requests <- MCRequests
    Seed <- MCSeed
    Updates <- MCUpdates
    MaxVersion = 3
    MaxRestarts = 1
SYMMETRY Symmetry
INVARIANTS
    PinnedVersionGoverns
    NoStaleGovernance
    AnsweredIsRecorded
    HistoryIsComplete
PROPERTY
    NoLostUpdate
