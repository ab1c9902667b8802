CONSTANTS
    Dim = 10
    Extent = 10
    Surface = 2
    Deep = 6
    Players = {p1}
    Monsters = {m1}
    World <- City
    Entrance <- Door
    Temples <- Shrines
    Dens <- Lairs
    Clicks <- Tiles
    Bucket <- Turns
    Buckets = 1
    StepTime = 2
    FleeSight = 1
    AggroRange = 1
    WanderSteps = 2
    ViewX = 2
    ViewY = 1
    Longest = 2
SPECIFICATION Spec
CHECK_DEADLOCK FALSE
INVARIANTS TypeOK OnCourse
PROPERTIES RunsAway WalksEnd NoCamping
