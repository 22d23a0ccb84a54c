SPECIFICATION Spec
CONSTANTS
    c1 = c1
    c2 = c2
    c3 = c3
    f1 = f1
    f2 = f2
    Creature = {c1, c2}
    Food = {f1}
    Serving = 2
    MaxQty = 7
    FoodSatisfies = 1
    MatingSatisfies = 1
    Moods <- MoodChoices
    Lives <- LifeChoices
PROPERTIES
    DieIfNoFoodIsLeft
