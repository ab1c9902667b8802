SPECIFICATION Spec
CONSTANTS
    p1 = p1
    p2 = p2
    m1 = m1
    m2 = m2
    s1 = s1
    Player <- OnePlayer
    Monster <- TwoMonsters
    Aggressive <- OneMonster
    Hostile <- TwoMonsters
    Timid <- Guests
    Spawn <- OneSpawn
    Summoned <- Guests
    None = None
    PlayerHealth = 2
    MonsterHealth = 2
    FleeAt = 1
    Lock = 4
    Interval = 1
    Respawn = 1
    Skew = 1
    MaxTime = 4
INVARIANTS SpawnsSingle
PROPERTIES ZonesSafe
