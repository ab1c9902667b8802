------------------------------- MODULE Atlas -------------------------------
(***************************************************************************)
(* What the chunked map promises: creatures move on the whole map.         *)
(*                                                                         *)
(* The old StaticMap of map.rs holds every tile at once and answers from   *)
(* all of them; "ChunkedMap will replace it once game integration is       *)
(* complete".  Here players enter, step, jump and leave and monsters prowl *)
(* on that whole map.  No chunk is loaded or evicted; the only trace of    *)
(* the files is that the tiles of a chunk whose file could not be read are *)
(* gone (lost).  Chunks is shown to implement this.                        *)
(***************************************************************************)
EXTENDS Terrain

CONSTANTS
    Players, Monsters,
    World,          \* the terrain of the map file
    Ghosts,         \* the players a gamemaster lets walk through things
    Dens,           \* where the monsters start
    Spawn,          \* where a new character starts
    Rings           \* how far from its place a login looks for a free tile (5)

VARIABLES
    at,             \* position of each player in the world; Nowhere when out of it
    home,           \* the position a player that is out asks for
    den,            \* position of each monster
    lost,           \* chunks whose file could not be read
    reply           \* the last step answered: who, dir, and where it led

vars == <<at, home, den, lost, reply>>

Files == World.held
NoReply == [who |-> "", dir |-> "", to |-> Nowhere]

\* The map without what was lost, before and after a step of the system.
Whole == [World EXCEPT !.held = Files \ lost]
WholeNow == [World EXCEPT !.held = Files \ lost']

Occupied(p, id) ==
    \/ \E q \in Players \ {id} : at[q] = p
    \/ \E m \in Monsters \ {id} : den[m] = p
Standable(t, id, from, p) ==
    IF id \in Ghosts \/ p[3] # from[3] THEN HasGround(t, p)
    ELSE IsWalkable(t, p) /\ ~ Occupied(p, id)

\* Where a step of a player leads, Nowhere if it is refused.
Destination(t, id, dir) ==
    LET raw == Offset(at[id], Delta[dir][1], Delta[dir][2])
        land == ResolveVertical(t, at[id], raw, Diagonal(dir))
    IN  IF raw # Nowhere /\ Standable(t, id, at[id], land) THEN land ELSE Nowhere

Near(p, q) == p[3] = q[3] /\ Abs(p[1] - q[1]) <= Rings /\ Abs(p[2] - q[2]) <= Rings

Init ==
    /\ at = [p \in Players |-> Nowhere]
    /\ home = [p \in Players |-> Spawn]
    /\ den = Dens
    /\ lost = {}
    /\ reply = NoReply

\* A player enters at its place, or at a free tile near it.
Enter(p) ==
    /\ at[p] = Nowhere
    /\ \E to \in {home[p]} \cup {q \in World.ground :
                    Near(q, home[p]) /\ IsWalkable(Whole, q) /\ ~ Occupied(q, p)} :
        at' = [at EXCEPT ![p] = to]
    /\ home' = [home EXCEPT ![p] = Spawn]
    /\ reply' = NoReply
    /\ UNCHANGED den

\* It leaves from where it stands, or dies and comes back to the spawn.
Leave(p) ==
    /\ at[p] # Nowhere
    /\ \E place \in {at[p], Spawn} : home' = [home EXCEPT ![p] = place]
    /\ at' = [at EXCEPT ![p] = Nowhere]
    /\ reply' = NoReply
    /\ UNCHANGED den

\* A step leads where the whole map says, or nowhere.
Step(p, dir) ==
    /\ at[p] # Nowhere
    /\ LET to == Destination(WholeNow, p, dir)
       IN  /\ reply' = [who |-> p, dir |-> dir, to |-> to]
           /\ at' = IF to = Nowhere THEN at ELSE [at EXCEPT ![p] = to]
    /\ UNCHANGED <<home, den>>

\* A teleport leads to a tile of the map, to a player or to a temple.
Jump(p) ==
    /\ at[p] # Nowhere
    /\ \E to \in {q \in World.ground : HasGround(Whole, q)} \cup {Spawn}
            \cup {at[q] : q \in {r \in Players : at[r] # Nowhere}} :
        at' = [at EXCEPT ![p] = to]
    /\ reply' = NoReply
    /\ UNCHANGED <<home, den>>

\* A monster steps onto a free flat tile.
Prowl(m, dir) ==
    /\ LET to == Offset(den[m], Delta[dir][1], Delta[dir][2])
       IN  /\ to # Nowhere
           /\ IsWalkable(Whole, to) /\ ~ Occupied(to, m) /\ FloorChangeAt(Whole, to) = {}
           /\ IsProtectionZone(Whole, to) => IsProtectionZone(Whole, den[m])
           /\ den' = [den EXCEPT ![m] = to]
    /\ reply' = NoReply
    /\ UNCHANGED <<at, home>>

\* Files turn out to be unreadable while the others go on.
Unreadable == UNCHANGED <<at, home, den>> /\ reply' = NoReply

Loses == lost \subseteq lost' /\ lost' \subseteq Files
Next ==
    /\ Loses
    /\ \/ \E p \in Players : Enter(p) \/ Leave(p) \/ Jump(p) \/ \E dir \in Direction : Step(p, dir)
       \/ \E m \in Monsters, dir \in Direction : Prowl(m, dir)
       \/ Unreadable

Spec == Init /\ [][Next]_vars

=============================================================================
