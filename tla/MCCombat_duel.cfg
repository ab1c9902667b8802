SPECIFICATION Spec
CONSTANTS
    p1 = p1
    p2 = p2
    m1 = m1
    m2 = m2
    s1 = s1
    Player <- TwoPlayers
    Monster = {}
    Aggressive = {}
    Hostile = {}
    Timid = {}
    Spawn = {}
    Summoned = {}
    None = None
    PlayerHealth = 1
    MonsterHealth = 2
    FleeAt = 1
    Lock = 5
    Interval = 2
    Respawn = 1
    Skew = 1
    MaxTime = 6
SYMMETRY Symmetry
INVARIANTS TypeOK FightersLocked IconsRight
PROPERTIES EntrantsCalm
