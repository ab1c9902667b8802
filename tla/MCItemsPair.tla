----------------------------- MODULE MCItemsPair -----------------------------
(***************************************************************************)
(* Two instances of Items side by side. The first, of the configuration,   *)
(* has windows: two tiles, two slots, two container ids, two bags and no   *)
(* new things. The other has deaths: monsters and a player that die on one *)
(* tile, a torch and a gamemaster. One stays as it was at the start while  *)
(* the other moves.                                                        *)
(***************************************************************************)
EXTENDS MCItems

CONSTANT MaxDeaths \* bound: MaxMade of the instance with deaths

VARIABLES dGround, dPlayers, dSaved, dLoot, dCorpses, dDecaying, dMade, dDoubled, dUp

dvars == <<dGround, dPlayers, dSaved, dLoot, dCorpses, dDecaying, dMade, dDoubled, dUp>>

Deaths == INSTANCE Items WITH
    Tile <- {1}, Slot <- {1}, Cid <- {0}, Kind <- CorpseKinds,
    Container <- {body}, HumanCorpse <- body, MonsterCorpse <- body, Splash <- splash,
    Moveable <- {meat, lit}, Toggled <- Torches, Toggle <- OtherTorch, Fits <- OnBelt,
    Start <- Meadow, CanThrow <- OnTheSpot,
    Cap <- 2, Shown <- 9, Drops <- Meals, Wanted <- {meat}, MaxMade <- MaxDeaths,
    ground <- dGround, players <- dPlayers, saved <- dSaved, loot <- dLoot,
    corpses <- dCorpses, decaying <- dDecaying, made <- dMade, doubled <- dDoubled, up <- dUp

PairInit == Init /\ Deaths!Init

PairNext ==
    \/ Deaths!Init /\ Next /\ UNCHANGED dvars
    \/ Init /\ Deaths!Next /\ UNCHANGED vars

PairSpec == PairInit /\ [][PairNext]_<<vars, dvars>>

\* The view: what was saved of a player in the world is read by nothing, and
\* overwritten when it leaves. States that differ in it only are taken for one.
Offline(q, s) == [p \in Player \ DOMAIN q |-> s[p]]

Live ==
    <<ground, players, Offline(players, saved), loot, corpses, decaying, made, doubled, up,
      dGround, dPlayers, Offline(dPlayers, dSaved), dLoot, dCorpses, dDecaying, dMade,
      dDoubled, dUp>>

\* Nothing appears where players and monsters die, stacks merge and a corpse is opened
\* and decays, but what a death copied (spawn_loot, open_corpse_container, do_death).
DeathsNothingFromNothing == Deaths!NothingFromNothing

\* Moves keep everything, stacks that merge and spill at the cap on the ground, on
\* the belt and in a corpse included (add_to_ground_front, do_move_inventory).
DeathsMovesKeepThings == Deaths!MovesKeepThings
=============================================================================
