CONSTANTS
    p1 = p1
    p2 = p2
    Procs = {p1, p2}
    Keys = {k1}
    NoKey = NoKey
    ReqIDs = {r1}
    Primary = Primary
    Rescheduled = Rescheduled
    PendingUids = {PendingConfirm}
    Offered = {1, 2}
    PrimaryStart = 1
    PendingStart = 3
    None = None
    Kinds = {"confirm", "decline"}
    AcksLost = FALSE
SPECIFICATION Spec
INVARIANTS
    OneHostDecision
