SPECIFICATION SerialSpec
CONSTANTS
    p1 = p1
    p2 = p2
    t1 = t1
    t2 = t2
    t3 = t3
    t4 = t4
    a = a
    aPart = aPart
    b = b
    bPart = bPart
    aPartPart = aPartPart
    A = A
    B = B
    Proc = {p1, p2}
    TransferId = {t1, t2, t3, t4}
    Name = {a, aPart, b, bPart, aPartPart}
    Content = {A, B}
    NotMinted = NotMinted
    Absent = Absent
    Partial = Partial
    Own = Own
    NoRecord = NoRecord
    Entry <- MCEntry
    PartOf <- MCPartOf
    Ticket <- MCTickets
    UserName = {b}
    MaxSlot = 2
    MaxFaults = 1
    MaxDiscards = 0
SYMMETRY MCSymmetry
INVARIANTS
    CompletedLanded
    OriginOnlyWhileResumable
    PurgedStaysPurged
