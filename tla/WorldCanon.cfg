SPECIFICATION Spec
CONSTANTS
    a = a
    b = b
    t1 = t1
    t2 = t2
    r = r
    p1 = p1
    p2 = p2
    p3 = p3
    k = k
    Turns = {t1, t2}
    Starts = {r}
    Sessions = {a, b}
    SessionOf <- MCSessionOf
    Places = {p1, p2, p3}
    Roads <- MCRoads
    Starter = p2
    Keys = {k}
    Origin <- MCOrigin
    Deltas <- MCDeltas
    AxisMin = 0
    AxisMax = 2
    MaxAttempts = 2
INVARIANTS
    AxisExplained
    Informed
PROPERTIES
    NumberedInOrder
CHECK_DEADLOCK FALSE
