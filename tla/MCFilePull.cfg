SPECIFICATION FairAloneSpec
CHECK_DEADLOCK FALSE
CONSTANTS
    a = a
    b = b
    x = x
    z = z
    r1 = r1
    r2 = r2
    own = own
    i1 = i1
    i2 = i2
    i3 = i3
    Receiver = {r1}
    Byte = {a, b, x, z}
    Zero = z
    Committed <- MCCommitted
    Source <- MCSource
    Gone = Gone
    Leftover <- MCLeftover
    OwnFile <- MCOwnFile
    Inode = {own, i1, i2, i3}
    Own = own
    NoFile = NoFile
    MaxSlot = 3
    MaxEdits = 2
    MaxFaults = 2
PROPERTIES
    RetrySucceeds
    DownloadsSpec
    PartFollowsOutcome
INVARIANTS
    LandedIsCommitted
