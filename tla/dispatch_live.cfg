CONSTANTS
    w1 = w1
    w2 = w2
    Effects = {1, 3}
    Workers = {w1, w2}
    ClaimLimit = 1
    NoEffect = NoEffect
    Subs = {1}
    Endpoint = 0
    DirectEffects = {3}
    SubsOf <- MCSubsOf
    MaxAttempts = 2
SPECIFICATION FairDispatchSpec
PROPERTIES
    ClaimedIsMarked
    WebhookRetriesEnd
CHECK_DEADLOCK FALSE
