CONSTANTS
    w1 = w1
    w2 = w2
    Effects = {1, 3}
    Workers = {w1}
    ClaimLimit = 1
    NoEffect = NoEffect
    Subs = {1}
    Endpoint = 0
    DirectEffects = {3}
    SubsOf <- MCSubsOf
    MaxAttempts = 2
SPECIFICATION RerunSpec
PROPERTIES
    AtLeastOnce
CHECK_DEADLOCK FALSE
