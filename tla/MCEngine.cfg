CONSTANTS
    a1 = a1
    a2 = a2
    a3 = a3
    b1 = b1
    b2 = b2
    c1 = c1
    c2 = c2
    t1 = t1
    q1 = q1
    d1 = d1
    d2 = d2
    e1 = e1
    e2 = e2
    Nothing = Nothing
    Nobody = Nobody
    Missing = Missing
    NONE = NONE
    GONE = GONE
    SHARED = SHARED
    Unused = Unused

SPECIFICATION Spec

INVARIANTS
    EnginesAreHeard
    FilesSurvive

PROPERTIES
    PromisesHold

SYMMETRY Symmetry

CHECK_DEADLOCK FALSE
