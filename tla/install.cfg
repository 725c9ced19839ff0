CONSTANTS
    p1 = p1
    p2 = p2
    i1 = i1
    i2 = i2
    s1 = s1
    s2 = s2
    Procs = {p1, p2}
    Intents = {i1, i2}
    Sessions = {s1, s2}
    None = None
SPECIFICATION ProgressSpec
SYMMETRY Symmetry
CONSTRAINT Bounds
INVARIANTS
    InstallTypeOK
    StatusMatchesCompletion
    InstalledWasAuthorized
    CredentialReadyHasCredential
    EndIsReported
PROPERTIES
    ConsumedStateIsSpent
    AdviceWasPossible
