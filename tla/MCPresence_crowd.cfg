SPECIFICATION Spec
CONSTANTS
    ann = ann
    bob = bob
    god = god
    Player = {ann, bob, god}
    GM = {god}
    Monster = {}
    Npc = {}
    MaxX = 2
    Floor <- Surface
    Left = 0
    Right = 1
    NpcAt <- Origin
    Nowhere = Nowhere
SYMMETRY Symmetry
INVARIANTS
    PicturesRight
    BeliefsRight
    StraysAreOfTheGone
