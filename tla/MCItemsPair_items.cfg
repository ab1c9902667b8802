SPECIFICATION PairSpec
CONSTANTS
    p1 = p1
    grass = grass
    meat = meat
    bag = bag
    unlit = unlit
    lit = lit
    body = body
    splash = splash
    Player = {p1}
    Tile = {1, 3}
    Slot = {1, 2}
    Cid = {0, 1}
    Kind <- BagKinds
    None = None
    Stackable = {meat}
    Container = {bag}
    Moveable = {bag, meat}
    Food = {meat}
    Toggled = {}
    Toggle <- NoTorch
    Capacity <- Rooms
    Fits <- Wear
    HumanCorpse = bag
    MonsterCorpse = bag
    Splash = grass
    Start <- TwoBags
    CanThrow <- Throws
    Blocked = {}
    Cap = 1
    TileCap = 10
    Shown = 3
    LootMax = 2
    Drops = {}
    Wanted = {}
    MaxMade = 0
    MaxDeaths = 3
CHECK_DEADLOCK FALSE
VIEW Live
INVARIANTS TypeOK NothingFromNothing GroundWindowsNear DeathsNothingFromNothing
PROPERTIES MovesKeepThings DeathsMovesKeepThings
