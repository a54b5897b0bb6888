SPECIFICATION GateSpec
CONSTANTS
    f = f
    g = g
    h = h
    Files = {f, g, h}
    Lane <- MCLane
    s1 = s1
    s2 = s2
    Threads = {s1, s2}
    Mains = {m}
    Checks <- MCChecks
    MaxEdits = 1
    MaxBegun = 2
INVARIANTS
    VerdictEarned
    ProgressTells
PROPERTIES
    PromotedAsJudged
SYMMETRY
    Symmetry
CHECK_DEADLOCK FALSE
