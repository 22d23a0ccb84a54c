SPECIFICATION FairSpec
CONSTANTS
    bench = bench
    furnace = furnace
    assembler = assembler
    p1 = p1
    p2 = p2
    ore = ore
    plate = plate
    screw = screw
    coal = coal
    Nothing = Nothing
    Machine = {bench}
    Producer = {bench}
    Router = {}
    Automatic = {}
    Asset <- BenchAsset
    Filter <- BenchFilter
    Player = {p1, p2}
    Kind = {plate, screw}
    Fuel <- NoFuel
    Recipes <- BenchRecipes
    N = 2
    Supply <- BenchSupply
    Capacity <- BenchCapacity
    Sites <- BenchSites
INVARIANTS
    TypeOK
    BusyMeansMaking
PROPERTIES
    ReagentsPaid
    KeepsWorking
