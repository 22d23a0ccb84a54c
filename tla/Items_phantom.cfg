SPECIFICATION Spec
CONSTANTS
    p1 = p1
    p2 = p2
    box1 = box1
    e1 = e1
    e2 = e2
    e3 = e3
    e4 = e4
    e5 = e5
    wood = wood
    tool = tool
    Player = {p1}
    Container = {box1}
    NoContainer = NoContainer
    Ent = {e1, e2, e3}
    NoEnt = NoEnt
    Nowhere = Nowhere
    World = World
    Gone = Gone
    Kind = {wood, tool}
    Placeable = {wood}
    MaxQuantity <- MaxTwoKinds
    Wrap = 16
    Slot = {1, 2}
    Leavers = {p1}
    Inputs <- SingleInputs
    PacketCap = 1
    Reserve = 1
    SpawnQty = {1, 3}
SYMMETRY Entities
INVARIANT NoPhantom
