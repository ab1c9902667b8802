SPECIFICATION Spec
CONSTANTS
    ann = ann
    bob = bob
    rat = rat
    eli = eli
    Player = {ann, bob}
    GM = {}
    Monster = {rat}
    Npc = {eli}
    MaxX = 2
    Floor <- Cellar
    Left = 0
    Right = 1
    NpcAt <- Origin
    Nowhere = Nowhere
SYMMETRY Symmetry
INVARIANTS
    TypeOK
    PicturesRight
    BeliefsRight
