CONSTANTS
    Dim = 5
    Extent = 20
    Surface = 2
    Deep = 6
    ViewX = 1
    ViewY = 1
    Players = {p1}
    Monsters = {m1}
    World <- City
    Ghosts = {}
    Dens <- Lair
    Spawn <- Start
    Rings = 1
    Edge = 1
    Targets <- Yard
    Fragile <- Risky
    MaxFaults = 1
SPECIFICATION Spec
CHECK_DEADLOCK FALSE
INVARIANTS TypeOK Surrounded PicturesTrue
PROPERTIES MovesAsOnTheWholeMap
