----------------------------- MODULE MCWalking -----------------------------
(***************************************************************************)
(* A street with a temple at one end and a raised tile before a roof at the*)
(* other, and a lane beside it.                                            *)
(***************************************************************************)
EXTENDS Walking, TLC

Street == {<<2, 2, 2>>, <<3, 2, 2>>, <<4, 2, 2>>, <<3, 3, 2>>}
Roof == {<<3, 2, 1>>}
City == [held |-> {<<0, 0, 1>>, <<0, 0, 2>>}, ground |-> Street \cup Roof, blocked |-> {},
         opaque |-> {}, zone |-> {<<2, 2, 2>>}, change |-> << >>,
         height |-> (<<4, 2, 2>> :> 3)]
Door == <<3, 2, 2>>
Shrines == {<<2, 2, 2>>}
Lairs == [m \in Monsters |-> <<4, 2, 2>>]
Tiles == {<<2, 2, 2>>, <<4, 2, 2>>}
Turns == [m \in Monsters |-> 0]
=============================================================================
