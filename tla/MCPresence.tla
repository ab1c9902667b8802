----------------------------- MODULE MCPresence -----------------------------
(* Instances of Presence for TLC.                                          *)
EXTENDS Presence, TLC

\* Players of a kind are interchangeable, and so are monsters.
Symmetry == Permutations(GM) \union Permutations(Player \ GM) \union Permutations(Monster)

Origin == [x |-> 0, z |-> 7]

Surface == {7}
Cellar == {7, 8}
=============================================================================
