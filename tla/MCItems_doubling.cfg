SPECIFICATION Spec
CONSTANTS
    p1 = p1
    grass = grass
    meat = meat
    bag = bag
    unlit = unlit
    lit = lit
    body = body
    splash = splash
    Player = {p1}
    Tile = {1}
    Slot = {1}
    Cid = {0}
    Kind <- CorpseKinds
    None = None
    Stackable = {meat}
    Container = {body}
    Moveable = {meat, lit}
    Food = {meat}
    Toggled <- Torches
    Toggle <- OtherTorch
    Capacity <- Rooms
    Fits <- OnBelt
    HumanCorpse = body
    MonsterCorpse = body
    Splash = splash
    Start <- Meadow
    CanThrow <- OnTheSpot
    Blocked = {}
    Cap = 2
    TileCap = 10
    Shown = 9
    LootMax = 2
    Drops <- Meals
    Wanted = {meat}
    MaxMade = 4
CHECK_DEADLOCK FALSE
INVARIANTS NothingDoubled
