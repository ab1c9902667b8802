------------------------------ MODULE MCChunks ------------------------------
(***************************************************************************)
(* A world of three chunks of 5 x 5 tiles in a row on floors 1 to 4 (the   *)
(* surface is 2): a street across a chunk border with a straight hole at   *)
(* one end and a sloped one at the other, a raised tile that leads to a    *)
(* roof, one more hole further down, stairs back up, and a far yard.       *)
(***************************************************************************)
EXTENDS Chunks, TLC

Flags ==
    (<<6, 3, 2>> :> {"down"}) @@ (<<6, 3, 3>> :> {"north"})
    @@ (<<3, 3, 2>> :> {"down"}) @@ (<<3, 2, 3>> :> {"southalt"})
    @@ (<<7, 4, 3>> :> {"down"}) @@ (<<7, 4, 4>> :> {"east"})
    @@ (<<5, 4, 4>> :> {"west"})
Flat == {<<4, 3, 1>>, <<4, 3, 2>>, <<5, 3, 2>>, <<6, 2, 2>>, <<3, 4, 2>>, <<6, 4, 3>>,
         <<3, 1, 3>>, <<4, 4, 3>>, <<5, 4, 3>>, <<6, 4, 4>>, <<4, 4, 2>>, <<12, 3, 2>>}
Grid == DOMAIN Flags \cup Flat
City == [held |-> {ChunkOf(p) : p \in Grid}, ground |-> Grid, blocked |-> {<<4, 4, 2>>},
         opaque |-> {}, zone |-> {<<3, 4, 2>>}, change |-> Flags,
         height |-> (<<5, 3, 2>> :> 3)]

Start == <<5, 3, 2>>
Yard == {<<12, 3, 2>>}
Lair == [m \in Monsters |-> <<4, 3, 2>>]
Risky == {<<1, 0, 3>>}
=============================================================================
