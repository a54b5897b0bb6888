SPECIFICATION FairSpec
CONSTANTS
    Turns = {k1, k2}
    MaxAttempts = 2
    MaxQueue = 1
    MaxCrashes = 1
INVARIANTS
    JobTellsFate
    ToldIsTrue
PROPERTIES
    FinalWord
    Settlement
    TurnsEnd
