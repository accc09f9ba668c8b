CONSTANTS
    Values = {"created", "publishing", "published"}
    Removable = {"published"}
    NONE = NONE
    GONE = GONE
    MaxVersion = 4
    t1 = t1
    t2 = t2
    q1 = q1
    q2 = q2
    p1 = p1
    p2 = p2
    d1 = d1
    d2 = d2
    Absent = Absent
    Tokens = {t1, t2}
    Paths = {q1, q2}
    Procs = {p1, p2}
    Digests = {d1, d2}
    MaxFiles = 3
    MaxEdits = 2
    MaxIntents = 3
    FilesOf <- MCFilesOf
    MaxReceipts = 1
    Capacity = 1
    NoRecord = NoRecord
    Stages = {"rendering", "saving", "finalizing"}
    MaxTotal = 2
    MaxFrames = 8
    Totals = {0, 1, 2, 3}

SPECIFICATION AllSpec

INVARIANTS
    SureIsLatest
    OwnershipKept
    ProgressIsAdvisory

PROPERTIES
    RecordSpec
    OnlyOwnFilesGo
    BundlesKept

SYMMETRY Symmetry

CHECK_DEADLOCK FALSE
