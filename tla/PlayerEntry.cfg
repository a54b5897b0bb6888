SPECIFICATION Spec
CONSTANTS
    Players = {p, q}
    Starts = {s1, s2, s3}
    Patches = {c}
    Names = {n, m}
    Places = {h, x}
    Starter = h
    v = v
    w = w
    guild = guild
    watch = watch
    errand = errand
    journey = journey
    Packs = {v, w}
    Keys = {guild, watch, errand, journey}
    FactionOf <- MCFactionOf
    FirstQuest <- MCFirstQuest
    NextQuest <- MCNextQuest
    World = World
    MaxTravels = 1
SYMMETRY Symmetry
INVARIANTS
    EnteredOnce
    ToldTruly
PROPERTIES
    StaysInWorld
CHECK_DEADLOCK FALSE
