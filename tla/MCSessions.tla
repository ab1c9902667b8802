----------------------------- MODULE MCSessions -----------------------------
(* Instances of Sessions for TLC.                                          *)
EXTENDS Sessions, TLC

\* Connections and characters are interchangeable in safety checks.
Symmetry == Permutations(Conn) \union Permutations(Char)
=============================================================================
