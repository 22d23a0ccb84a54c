SPECIFICATION Spec
CONSTANTS
    Player = {p1, p2}
    Npc = {n1}
    Vehicle = {v1, v2}
    Seat = {0, 1}
    None = None
PROPERTY CarriesRidersOnly
