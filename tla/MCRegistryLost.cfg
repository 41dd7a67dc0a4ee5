SPECIFICATION Spec
CONSTANTS
    n1 = n1
    n2 = n2
    r1 = r1
    r2 = r2
    p1 = p1
    p2 = p2
    p3 = p3
    Nonce = {n1, n2}
    Remote = {r1, r2}
    Proc = {p1, p2}
    NoKey = NoKey
    NotIssued = NotIssued
    Never = Never
    NotMinted = NotMinted
    Free = Free
    MaxTime = 1
    Id <- MCId
    Expiry <- MCExpiry
SYMMETRY MCSymmetry2
INVARIANTS
    ReportedIsRefused
