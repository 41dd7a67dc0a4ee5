SPECIFICATION FairTransferSpec
CHECK_DEADLOCK FALSE
CONSTANTS
    alice = alice
    bob = bob
    na = na
    nb = nb
    pics = pics
    open = open
    other = other
    p1 = p1
    p2 = p2
    c1 = c1
    c2 = c2
    Npub = {alice}
    Node = {na, nb}
    Conn = {c1, c2}
    Patient = {c1}
    Slug = {pics}
    Path = {open, other}
    Pattern = {p1, p2}
    NoNode = NoNode
    NoLimit = NoLimit
    NoAsk = NoAsk
    Skew = 1
    MaxAge = 2
    Size = 1
    MaxConnections = 2
    Now = 3
    MaxChanges = 1
    Covers <- MCCovers
    Kind <- MCKind
    Asked <- MCAsked
    Saved <- MCSaved
INVARIANTS
    SlotsAreHeld
    LimitHolds
    OnlyAdmittedAreServed
    ResponseIsHeard
    DoneIsWhole
PROPERTIES
    CancelIsHeeded
    
