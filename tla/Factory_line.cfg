SPECIFICATION FairSpec
CONSTANTS
    bench = bench
    furnace = furnace
    assembler = assembler
    p1 = p1
    p2 = p2
    ore = ore
    plate = plate
    screw = screw
    coal = coal
    Nothing = Nothing
    Machine = {furnace, assembler}
    Producer = {furnace, assembler}
    Router = {furnace, assembler}
    Automatic = {furnace, assembler}
    Asset <- LineAsset
    Filter <- LineFilter
    Player = {}
    Kind = {ore, plate, coal}
    Fuel <- Coal
    Recipes <- LineRecipes
    N = 3
    Supply <- LineSupply
    Capacity <- LineCapacity
    Sites <- LineSites
INVARIANTS
    EachBeltOnce
    ServedInTurns
PROPERTIES
    ReagentsStay
