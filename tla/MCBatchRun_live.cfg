SPECIFICATION FairSpec
CONSTANTS
    Jobs = {j1}
    Sources = {1}
    PageNos = {1}
    d1 = d1
    d2 = d2
    Digests = {d2}
    PagesOf <- MCShortOnly
    Owners = {h1, h2}
    CommandIds = {c1}
    NONE = NONE
    MaxCommands = 2
    MaxGeneration = 2
    MaxAttempts = 2
CHECK_DEADLOCK FALSE
PROPERTIES
    RunEnds
    CancelEnds
