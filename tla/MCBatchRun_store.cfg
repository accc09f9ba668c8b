CONSTANTS
    j1 = j1
    j2 = j2
    d1 = d1
    d2 = d2
    h1 = h1
    h2 = h2
    c1 = c1
    c2 = c2
    Jobs = {j1, j2}
    Sources = {1}
    PageNos = {1, 2}
    Digests = {d1, d2}
    PagesOf <- MCPagesOf
    Owners = {h1, h2}
    CommandIds = {c1, c2}
    NONE = NONE
    MaxCommands = 2
    MaxGeneration = 2
    MaxAttempts = 2

SPECIFICATION StoreSpec

INVARIANTS
    Safety
    CancelSlotKept
    BudgetMatchesWork

PROPERTIES
    CheckpointKept
    PublishedIsFrozen
    StopsAreFinal

SYMMETRY StoreSymmetry

CHECK_DEADLOCK FALSE
