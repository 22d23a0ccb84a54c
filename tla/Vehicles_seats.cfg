SPECIFICATION FairSpec
CONSTANTS
    Player = {p1, p2, p3}
    Npc = {n1}
    Vehicle = {v1}
    Seat = {0, 1}
    None = None
INVARIANTS
    RidersAreSeated
    SeatsAgree
PROPERTIES
    CarriesRidersOnly
    GhostsGetUp
