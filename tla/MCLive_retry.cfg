CONSTANTS
    a1 = a1
    a2 = a2
    a3 = a3
    b1 = b1
    b2 = b2
    proposed = proposed
    other = other
    Nothing = Nothing
    Nobody = Nobody
    Unused = Unused
    NONE = NONE
    FaultKinds = {"crash"}
    MaxFaults = 2
    MaxAttempts = 3
    MaxHistory = 1
    Plan <- PdfOnly

SPECIFICATION PublishFairSpec

PROPERTIES
    CleanAttemptIsRetried

CHECK_DEADLOCK FALSE
