SPECIFICATION Spec
CONSTANTS
    s = s
    r = r
    q = q
    n1 = n1
    n2 = n2
    clip = clip
    tool = tool
    text = text
    Person = {s, r, q}
    Sender = s
    Nonce = {n1, n2}
    Content = {clip, tool, text}
    NoAssertion = NoAssertion
    NotManifest = NotManifest
    NoOffer = NoOffer
    NoContent = NoContent
    Outside = Outside
    HardCap = 2
    MaxSize = 3
    MaxDrifts = 1
    MaxRecvs = 2
    SizeOf <- MCSizeOf
    Sniffed <- MCSniffed
    TypeOfName <- MCTypeOfName
    SourcePlace <- MCSourcePlace
    Shared <- MCShared
    SenderLinks <- MCSenderLinks
    ReceiverLinks <- MCReceiverLinks
    Descriptor <- MCDescriptor
    PastedCard <- MCPastedCard
    Bytes <- MCBytes
INVARIANTS
    OnlyWhatWasOffered
    Confined
    StartedKnowingly
    OpensForRecipient
    MislabelsAreReported
CHECK_DEADLOCK FALSE
