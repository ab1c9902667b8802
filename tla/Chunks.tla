------------------------------- MODULE Chunks -------------------------------
(***************************************************************************)
(* The chunked map at work: ChunkManager of map.rs, with everything that   *)
(* loads, evicts or reads chunks as creatures move (session.rs,            *)
(* movement.rs, gm.rs, game/mod.rs), and what the clients are drawn.       *)
(*                                                                         *)
(* The server holds the chunks around its players only.  It loads them     *)
(* from files before it moves a player, evicts the ones nobody needs every *)
(* few seconds, and never tries a file again that it could not read.       *)
(***************************************************************************)
EXTENDS Viewport

CONSTANTS
    Players, Monsters,
    World,          \* the terrain of the map file
    Ghosts,         \* the players that walk with ghost or noclip
    Dens,           \* where the monsters start
    Spawn,          \* WorldMeta.spawn, the temple too
    Rings,          \* rings a login searches for a free tile (5)
    Edge,           \* how near to a border a path search loads the next chunk (20)
    Targets,        \* positions a gamemaster names
    Fragile,        \* the chunks whose file may fail to be read
    MaxFaults       \* bound: read failures in a behaviour

VARIABLES
    store,          \* ChunkManager: chunks in memory, and ids found missing
    at,             \* position of each player in the world; Nowhere when out of it
    home,           \* the saved position of a player that is out
    den,            \* position of each monster
    reply,          \* the last step answered: who, dir, and where it led
    client          \* what each player's client shows: at, and right

\* The tiles that anything is known of.
Tiles == World.ground \cup World.blocked \cup World.zone \cup DOMAIN World.change
           \cup DOMAIN World.height

\* Stairs lead at most three tiles to the side, which must not lead past the next chunk,
\* nor does the screen, with its other floors drawn aside, reach past it;
\* and no raised tile is a stair itself.
ASSUME ChunksAssumption ==
    /\ Dim >= 3 /\ Rings \in Nat
    /\ ViewX + 1 + Greater(Surface, 2) <= Dim /\ ViewY + 1 + Greater(Surface, 2) <= Dim
    /\ World = [held |-> World.held, ground |-> World.ground, blocked |-> World.blocked,
                opaque |-> World.opaque, zone |-> World.zone,
                change |-> World.change, height |-> World.height]
    /\ \A p \in Tiles : p \in Position /\ p[3] <= Deep
    /\ \A p \in DOMAIN World.height : World.height[p] >= 3 => p \notin DOMAIN World.change
    /\ Spawn \in Position /\ Spawn[3] <= Deep
    /\ Targets \subseteq Position
    /\ Dens \in [Monsters -> Position]

vars == <<store, at, home, den, reply, client>>

\* One file per chunk of the map that has a tile (prechunk).
Files == World.held
Pinned == {ChunkOf(Spawn)}
NoReply == [who |-> "", dir |-> "", to |-> Nowhere]
Blank == [at |-> Nowhere, right |-> {}]

(***************************************************************************)
(* The chunk manager.                                                      *)
(***************************************************************************)
\* Mutant of EnsureLoaded: a miss is not remembered.
EnsureLoadedAgain(s, ids, failing) ==
    LET wanted == ids \ s.chunks
        read == (wanted \cap Files) \ failing
    IN  [chunks |-> s.chunks \cup read, missing |-> s.missing \cup (wanted \ read)]

\* Load the chunks ids; the files of failing cannot be read just now.
EnsureLoaded(s, ids, failing) ==
    LET wanted == ids \ (s.chunks \cup s.missing)
        read == (wanted \cap Files) \ failing
    IN  [chunks |-> s.chunks \cup read, missing |-> s.missing \cup (wanted \ read)]

Swept(s, required) == [s EXCEPT !.chunks = @ \cap (required \cup Pinned)]

\* The chunks that exist and will never be read again.
LostOf(s) == s.missing \cap Files
Reads(failing) ==
    /\ failing \subseteq Fragile
    /\ Cardinality(LostOf(store')) <= MaxFaults

Map(s) == [World EXCEPT !.held = s.chunks]
Told(s) == s.chunks \cup s.missing

Online == {p \in Players : at[p] # Nowhere}

Occupied(p, id) ==
    \/ \E q \in Players \ {id} : at[q] = p
    \/ \E m \in Monsters \ {id} : den[m] = p

Draw(p, packet) ==
    client' = [client EXCEPT ![p] = ReceiveAll(@, packet, Told(store'))]

Init ==
    /\ store = [chunks |-> {}, missing |-> {}]
    /\ at = [p \in Players |-> Nowhere]
    /\ home = [p \in Players |-> Spawn]
    /\ den = Dens
    /\ reply = NoReply
    /\ client = [p \in Players |-> Blank]

(***************************************************************************)
(* Sessions.                                                               *)
(***************************************************************************)
\* The tiles of the ring r around a place, and the free ones.
Ring(origin, r) ==
    {q \in {Offset(origin, dx, dy) : dx, dy \in (-r)..r} :
        q # Nowhere /\ (Abs(q[1] - origin[1]) = r \/ Abs(q[2] - origin[2]) = r)}
FreeOn(t, tiles, id) == {q \in tiles : IsWalkable(t, q) /\ ~ Occupied(q, id)}

\* The first free tile of the nearest ring that has one, row by row; the
\* place itself if none has.
FreeSpawnNear(t, origin, id) ==
    LET free == UNION {FreeOn(t, Ring(origin, r), id) : r \in 0..Rings}
        ring(q) == Greater(Abs(q[1] - origin[1]), Abs(q[2] - origin[2]))
        before(a, b) == \/ ring(a) < ring(b)
                        \/ ring(a) = ring(b) /\ a[2] < b[2]
                        \/ ring(a) = ring(b) /\ a[2] = b[2] /\ a[1] <= b[1]
    IN  IF free = {} THEN origin ELSE CHOOSE a \in free : \A b \in free : before(a, b)

\* The place is chosen from the chunks in memory, then its chunks are loaded.
Login(p, failing) ==
    /\ at[p] = Nowhere
    /\ LET to == FreeSpawnNear(Map(store), home[p], p)
       IN  /\ store' = EnsureLoaded(store, ChunksAround(to), failing)
           /\ at' = [at EXCEPT ![p] = to]
           /\ Draw(p, <<FullMap(to)>>)
    /\ home' = [home EXCEPT ![p] = Spawn]
    /\ Reads(failing)
    /\ reply' = NoReply
    /\ UNCHANGED den

\* A logout saves the position, a death the temple.
Leave(p) ==
    /\ at[p] # Nowhere
    /\ \E place \in {at[p], Spawn} : home' = [home EXCEPT ![p] = place]
    /\ at' = [at EXCEPT ![p] = Nowhere]
    /\ client' = [client EXCEPT ![p] = Blank]
    /\ reply' = NoReply
    /\ UNCHANGED <<store, den>>

(***************************************************************************)
(* Movement.                                                               *)
(***************************************************************************)
\* A tile of another floor is reached whatever stands on it.
Standable(t, id, from, p) ==
    IF id \in Ghosts \/ p[3] # from[3] THEN HasGround(t, p)
    ELSE IsWalkable(t, p) /\ ~ Occupied(p, id)

\* The chunks around the tile ahead are loaded before the step is resolved,
\* those around the landing before it is drawn.
Move(p, dir, failing) ==
    LET from == at[p]
        raw == Offset(from, Delta[dir][1], Delta[dir][2])
        ahead == IF raw = Nowhere THEN store
                 ELSE EnsureLoaded(store, ChunksAround(raw), failing)
        land == ResolveVertical(Map(ahead), from, raw, Diagonal(dir))
        allowed == raw # Nowhere /\ Standable(Map(ahead), p, from, land)
    IN  /\ from # Nowhere
        /\ \/ /\ ~ allowed
              /\ store' = ahead
              /\ UNCHANGED <<at, client>>
           \/ /\ allowed
              /\ store' = EnsureLoaded(ahead, ChunksAround(land), failing)
              /\ at' = [at EXCEPT ![p] = land]
              /\ Draw(p, WalkUpdate(from, land))
        /\ reply' = [who |-> p, dir |-> dir, to |-> IF allowed THEN land ELSE Nowhere]
        /\ Reads(failing)
        /\ UNCHANGED <<home, den>>

Teleport(p, to, failing) ==
    /\ at[p] # Nowhere /\ at[p] # to
    /\ store' = EnsureLoaded(store, ChunksAround(to), failing)
    /\ at' = [at EXCEPT ![p] = to]
    /\ Draw(p, <<FullMap(to)>>)
    /\ Reads(failing)
    /\ reply' = NoReply
    /\ UNCHANGED <<home, den>>

\* /goto x y z and /teleport take only a tile that is in memory; /temple,
\* /bring, /teleportto and /goto player do not look.
GotoTile(p, to, failing) == HasGround(Map(store), to) /\ Teleport(p, to, failing)
GotoSomeone(p, failing) ==
    \E to \in {Spawn} \cup {at[q] : q \in Online \ {p}} : Teleport(p, to, failing)

\* Monsters load nothing when they step.
MoveMonster(m, dir) ==
    LET to == Offset(den[m], Delta[dir][1], Delta[dir][2])
        t == Map(store)
    IN  /\ to # Nowhere
        /\ IsWalkable(t, to) /\ ~ Occupied(to, m) /\ FloorChangeAt(t, to) = {}
        /\ IsProtectionZone(t, to) => IsProtectionZone(t, den[m])
        /\ den' = [den EXCEPT ![m] = to]
        /\ reply' = NoReply
        /\ UNCHANGED <<store, at, home, client>>

\* A path search that comes by the walkable tile p near a border.
PathSearch(from, p, failing) ==
    /\ from # Nowhere /\ p[3] = from[3]
    /\ Abs(p[1] - from[1]) <= 1 /\ Abs(p[2] - from[2]) <= 1
    /\ IsWalkable(Map(store), p) /\ FloorChangeAt(Map(store), p) = {}
    /\ store' = EnsureLoaded(store, EdgeChunks(p, Edge), failing)
    /\ Reads(failing)
    /\ reply' = NoReply
    /\ UNCHANGED <<at, home, den, client>>

\* Mutant of SweepChunks: a player keeps its own floor only.
SweepChunksFlat ==
    /\ store' = Swept(store, UNION {ChunkNeighbors(at[p]) : p \in Online}
                             \cup UNION {ChunkNeighbors(den[m]) : m \in Monsters})
    /\ reply' = NoReply
    /\ UNCHANGED <<at, home, den, client>>

SweepChunks ==
    /\ store' = Swept(store, UNION {ChunksAround(at[p]) : p \in Online}
                             \cup UNION {ChunkNeighbors(den[m]) : m \in Monsters})
    /\ reply' = NoReply
    /\ UNCHANGED <<at, home, den, client>>

Next ==
    \/ SweepChunks
    \/ \E p \in Players : Leave(p)
    \/ \E m \in Monsters, dir \in Direction : MoveMonster(m, dir)
    \/ \E failing \in SUBSET (Fragile \ Told(store)) :
        \/ \E p \in Players :
            \/ Login(p, failing)
            \/ \E dir \in Direction : Move(p, dir, failing)
            \/ \E to \in Targets : GotoTile(p, to, failing)
            \/ GotoSomeone(p, failing)
        \/ \E from \in {at[p] : p \in Players} \cup {den[m] : m \in Monsters},
              p \in World.ground : PathSearch(from, p, failing)

Spec == Init /\ [][Next]_vars

(***************************************************************************)
(* Properties.                                                             *)
(***************************************************************************)
TypeOK ==
    /\ store.chunks \subseteq Files
    /\ store.chunks \cap store.missing = {}
    /\ \A p \in Players : at[p] = Nowhere \/ at[p] \in Position
    /\ \A p \in Players : home[p] \in Position
    /\ \A m \in Monsters : den[m] \in Position

\* Whatever moves, sweeps and failed reads came before, the server knows
\* every chunk of the neighbourhood of each player, on every floor it draws or
\* a stair may lead to: it holds it, or has found that it cannot be had.
Surrounded ==
    \A p \in Online : ChunksAround(at[p]) \subseteq store.chunks \cup store.missing

\* After every packet the client of a player has its centre where the player
\* stands and every tile of its screen from the right place of the map, on
\* every floor it sees: no slice was left out, misplaced, or sampled from a
\* chunk that was not in memory.
PicturesTrue ==
    \A p \in Online : client[p].at = at[p] /\ client[p].right = Screen(at[p])

\* What the players get to do is what the whole map allows: that chunks come
\* and go is seen by nobody but for the files that could not be read.
Whole == INSTANCE Atlas WITH lost <- LostOf(store)
MovesAsOnTheWholeMap == Whole!Spec

=============================================================================
