SPECIFICATION FairSerialListenerSpec
CONSTANTS
    n1 = n1
    n2 = n2
    r1 = r1
    r2 = r2
    p1 = p1
    p2 = p2
    c1 = c1
    c2 = c2
    Nonce = {n1}
    Remote = {r1, r2}
    Proc = {p1, p2}
    Conn = {c1, c2}
    Diligent = {c1}
    NoKey = NoKey
    NotIssued = NotIssued
    NoNonce = NoNonce
    Never = Never
    NotMinted = NotMinted
    Free = Free
    MaxTime = 1
    MaxAttempts = 0
    Id <- MCId
    Expiry = {Never}
INVARIANTS
    RevocationBindsNextStream
    RecipientNotThrottled
PROPERTIES
    DiligentIsAnswered
