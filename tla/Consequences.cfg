SPECIFICATION ThreadSpec
CONSTANTS
    Turns = {t}
    Passes = {p}
    Npcs = {a}
    Nobody = nobody
    Kinds = {"promise", "scrutiny"}
    Cap = 2
PROPERTIES
    DoubledLate
    AtMostCap
