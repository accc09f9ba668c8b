CONSTANTS
    f1 = f1
    f2 = f2
    f3 = f3
    g = g
    h = h
    r1 = r1
    r2 = r2
    NONE = NONE
    Unassigned = Pending
    Absent = Absent
    Unused = Unused

SPECIFICATION ReceiptsSpec

INVARIANTS
    PageResultsHold
    SelectionIsExact
    GroupsResolve

PROPERTIES
    DeliveredIsCurrent
    GroupingKeeps
    DraftIsWhole

SYMMETRY GroupingSymmetry

CHECK_DEADLOCK FALSE
