CONSTANTS
    r1 = r1
    r2 = r2
    t1 = t1
    t2 = t2
    t3 = t3
    t4 = t4
    Requests = {r1, r2}
    Codes = {c1}
    Tokens = {t1, t2, t3, t4}
    None = None
    MaxSeeds = 2
SPECIFICATION Spec
SYMMETRY Symmetry
INVARIANTS
    TokensTypeOK
    OneLiveTokenPerGrant
    RotationIsLinear
    ConsumedMeansIssued
PROPERTIES
    ImplementsTokenService
