SPECIFICATION SessionSpec
CONSTANTS
    n1 = n1  i1 = i1  i2 = i2  d1 = d1  d2 = d2  k1 = k1  k2 = k2
    on = on  off = off  films = films
    Slug = {films}
    Peer = {}
    Identity = {i1, i2}
    Setting = {on, off}
    Enabled = {on}
    Other = Other
    Absent = Absent
    Empty = Empty
    Torn = Torn
    Savable <- MCSavable
    Npub = {n1}
    Node = {d1, d2}
    BrowseKey = {k1, k2}
    NoNode = NoNode
    NoKey = NoKey
    NoSeal = NoSeal
    Skew = 1
    MaxBindingTtl = 6
    NpubOf <- MCNpubOf
    NodeOf <- MCNodeOf
    KeyOf <- MCKeyOf
    NoIdentity = NoIdentity
    NoEvent = NoEvent
    Ttl = 5
    Refresh = 1
    Wait = 1
    MaxMissed = 1
    MaxOps = 3
    MaxCrashes = 1
INVARIANTS
    ServedOnPurpose
    DialsOwnNode
    NoLapse
