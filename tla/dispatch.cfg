CONSTANTS
    w1 = w1
    w2 = w2
    Effects = {1, 2, 3}
    Workers = {w1, w2}
    ClaimLimit = 2
    NoEffect = NoEffect
    Subs = {1, 2}
    Endpoint = 0
    DirectEffects = {3}
    SubsOf <- MCSubsOf
    MaxAttempts = 2
SPECIFICATION DispatchSpec
SYMMETRY Symmetry
INVARIANTS
    DispatchTypeOK
    ExclusiveClaim
    MarkFindsProcessing
    PendingIsAccurate
    DeliveredMeansSettled
    DeadLetterDisables
    ConfirmedWasReceived
PROPERTIES
    DeliveredIsFinal
    RecipientsAreFixed
CHECK_DEADLOCK FALSE
