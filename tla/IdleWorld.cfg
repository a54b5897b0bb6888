SPECIFICATION IdleFairSpec
CONSTANTS
    x = x
    y = y
    z = z
    Scheduler = s
    Operators = {o}
    Newcomers = {k}
    Npcs = {1, 2}
    PackOrder <- MCPackOrder
    Walkers = {1}
    Places = {x, y, z}
    Roads <- MCRoads
    Home <- MCHome
    Nowhere = nowhere
PROPERTIES
    TrueToRoutine
    Visited
