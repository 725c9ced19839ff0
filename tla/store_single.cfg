CONSTANTS
    p1 = p1
    p2 = p2
    Procs = {p1}
    Keys = {k1}
    NoKey = NoKey
    ReqIDs = {r1, r2}
    Primary = Primary
    Rescheduled = Rescheduled
    PendingUids = {PendingConfirm}
    Offered = {1}
    PrimaryStart = 1
    PendingStart = 3
    None = None
    Kinds = {"create", "read", "cancel", "reschedule", "confirm", "decline"}
    AcksLost = FALSE
SPECIFICATION Spec
INVARIANTS
    StoreTypeOK
    CacheIsCurrent
    OneHostDecision
    StatusIsAnnounced
PROPERTIES
    HostDecisionIsFinal
    SlotIsFreeWhenTaken
    ImplementsBookingService
