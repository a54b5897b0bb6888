SPECIFICATION PageFairSpec
CONSTANTS
    MaxTurns = 2
    MaxConns = 2
INVARIANTS
    HeardWhileOpen
    ShowsWhatItWasTold
PROPERTIES
    UnlockedByOwn
    UnlockedUnlessMissed
CHECK_DEADLOCK FALSE
