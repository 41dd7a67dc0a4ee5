SPECIFICATION SerialSpec
CONSTANTS
    p1 = p1
    p2 = p2
    k1 = k1
    k2 = k2
    k3 = k3
    i1 = i1
    i2 = i2
    i3 = i3
    i4 = i4
    i5 = i5
    Proc = {p1, p2}
    Key = {k1, k2, k3}
    Inode = {i1, i2, i3, i4, i5}
    NoFile = NoFile
    Empty = Empty
SYMMETRY Symmetry
INVARIANTS
    StoredIsWhole
    UsedIsStored
    CardFollowsKeys
