SPECIFICATION FairSpec
CONSTANTS
    c1 = c1
    c2 = c2
    c3 = c3
    f1 = f1
    f2 = f2
    Creature = {c1, c2, c3}
    Food = {f1, f2}
    Serving = 1
    MaxQty = 7
    FoodSatisfies = 1
    MatingSatisfies = 1
    Moods <- MoodChoices
    Lives <- LifeChoices
INVARIANTS
    SeekersNeed
    EatenOnce
PROPERTIES
    TwoLivingParents
    EveryoneDies
