------------------------------ MODULE MCCombat ------------------------------
EXTENDS Combat, TLC

CONSTANTS p1, p2, m1, m2, s1

TwoPlayers == {p1, p2}
OnePlayer == {p1}
OneSpawn == {s1}
Guests == {m2}
OneMonster == {m1}
TwoMonsters == {m1, m2}

Symmetry == Permutations(Player)
=============================================================================
