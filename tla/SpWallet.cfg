SPECIFICATION Spec
CONSTANTS
    Turns = {k1, k2}
    Tx = {t1, t2, t3}
    None = None
    InitialBonus = 2
    TurnCost = 3
    Purchases = {2}
    Adjustments <- MCAdjustments
INVARIANTS
    SignupOnce
    TurnsBooked
    BooksBalance
