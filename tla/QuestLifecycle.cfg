SPECIFICATION Spec
CONSTANTS
    Jobs = {t1, t2, p}
    Turns = {t1, t2}
    Passes = {p}
    Starter = starter
SYMMETRY TurnSymmetry
INVARIANTS
    Settled
    NobodyStuck
PROPERTIES
    ReopenedLate
    OneLive
    ClosedLate
