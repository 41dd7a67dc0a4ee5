SPECIFICATION CatalogSpec
CHECK_DEADLOCK FALSE
CONSTANTS
    v1 = v1
    v2 = v2
    v3 = v3
    v4 = v4
    r1 = r1
    r2 = r2
    k1 = k1
    k2 = k2
    Entry <- MCEntry
    Weight <- MCWeight
    Frame = 1
    MaxBytes = 3
    MaxListingParts = 2
    BrowseKey = {k1, k2}
    NoBrowseKey = NoBrowseKey
    Relay = {r1, r2}
    Hoarders = {r2}
    Configured = {r1}
    Outbox = {r2}
    ListedOn = {r1}
    Version = {v1, v2, v3, v4}
    Content <- MCContent
    EventId = {1, 2}
    MaxPublications = 2
    MaxTime = 1
    MaxRejections = 1
SYMMETRY Symmetry
INVARIANTS
    SupersedesOutright
    NoForeignPart
    RekeyLocks
