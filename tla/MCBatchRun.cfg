CONSTANTS
    Jobs = {j1, j2}
    Sources = {1}
    PageNos = {1, 2}
    d1 = d1
    d2 = d2
    Digests = {d1, d2}
    PagesOf <- MCPagesOf
    Owners = {h1, h2}
    CommandIds = {c1, c2}
    NONE = NONE
    MaxCommands = 2
    MaxGeneration = 2
    MaxAttempts = 2

SPECIFICATION SmallSpec

INVARIANTS
    WorkersOwnTheirRun
    SlotIsTrue

PROPERTIES
    FrozenAtRest
    SettlementRespectsWinner

SYMMETRY Symmetry

CHECK_DEADLOCK FALSE
