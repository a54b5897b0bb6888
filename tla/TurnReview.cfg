SPECIFICATION Spec
CONSTANTS
    town = town
    hall = hall
    clerk = clerk
    token = token
    Town = Town
    TownHall = TownHall
    Halle = Halle
    Turns = {t1, t2}
    Places = {town, hall}
    Start = town
    Road <- MCRoad
    Gated <- MCGated
    Items = {token}
    People = {clerk}
    Names = {Town, TownHall, Halle}
    Called <- MCCalled
    Translations <- MCTranslations
    Within <- MCWithin
    Longest <- MCLongest
    Goals = {None, hall}
    Proposals <- MCProposals
    None = None
SYMMETRY MCSymmetry
INVARIANTS
    AsReviewed
    ToldIsAccepted
PROPERTIES
    OneStep
    NotUsedAgain
