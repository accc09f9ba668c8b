CONSTANTS
    j1 = j1
    j2 = j2
    Jobs = {j1, j2}
    MaxOps = 2
    MaxLists = 1
    MaxChanges = 0
    MaxFailures = 1
    s1 = s1
    s2 = s2
    Segments = {s1, s2}
    proposed = proposed
    other = other
    Decisions = {proposed, other}
    Default = proposed
    HistoryLimit = 2
    MaxOperations = 6
    MaxAnalyses = 2
    MaxOthers = 1
    MaxSourceChanges = 1
    MaxErrors = 1

SPECIFICATION AllSpec

INVARIANTS
    ViewIsTrue
    SessionIsTrue

PROPERTIES
    ViewMovesForward
    SavesAreInformed

SYMMETRY Symmetry

CHECK_DEADLOCK FALSE
