CONSTANTS
    a1 = a1
    a2 = a2
    b1 = b1
    b2 = b2
    c1 = c1
    c2 = c2
    k1 = k1
    k2 = k2
    s1 = s1
    s2 = s2
    ok = ok
    redo = redo
    i1 = i1
    i2 = i2
    s = s
    t = t
    x = x
    r3 = r3
    NONE = NONE
    GONE = GONE
    SHARED = SHARED
    OTHERJOB = OTHERJOB
    Unused = Unused
    Clients = {u1, u2}
    Tasks = {k1, k2}
    Segments = {s1, s2}
    Ids = {i1, i2}
    Verdicts = {ok, redo}
    Invalid = Invalid
    Absent = Absent
    Batches <- MCBatches
    Items = {i1, i2}
    Signatures = {s, t, x}
    Reviewers = {b1, b2}
    Manifests <- MCManifests
    Loose = {x}
    MaxResults = 2
    MaxDecisions = 3
    Missing = Missing
    Jobs = {a1, a2}
    Windows = {b1, b2}
    Statuses = {"needs_review", "confirmed", "excluded"}
    Shapes = {c1, c2}
    MaxRun = 2
    MaxSaves = 2

SPECIFICATION PositionsSpec

INVARIANTS
    UndoneStaysOut

CHECK_DEADLOCK FALSE
