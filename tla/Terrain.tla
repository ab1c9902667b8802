------------------------------ MODULE Terrain ------------------------------
(***************************************************************************)
(* The ground of the world: crates/world/src/map.rs, the position type of  *)
(* lib.rs and the vertical half of a step (movement.rs).                   *)
(*                                                                         *)
(* A terrain t is what a map answers from: the tiles that have ground, the *)
(* blocked, opaque and protected ones, the floor change flags and the      *)
(* height of the tiles that have any.  The server keeps it cut in chunks   *)
(* of Dim x Dim tiles and answers from those it holds, t.held; the whole   *)
(* map holds them all.                                                     *)
(* Everything here is a function of its arguments; the modules that move   *)
(* creatures (Chunks, Atlas) and the one that checks the algorithms        *)
(* (Algorithms) extend it.                                                 *)
(***************************************************************************)
EXTENDS Integers, Sequences, FiniteSets, SequencesExt

CONSTANTS
    Dim,        \* edge of a chunk, in tiles (CHUNK_DIM, 256)
    Extent,     \* the largest coordinate (u16::MAX)
    Surface,    \* the ground floor (7); smaller is higher
    Deep        \* the lowest floor (15)

ASSUME TerrainAssumption ==
    /\ Dim \in Nat \ {0} /\ Extent \in Nat /\ Surface \in Nat /\ Deep \in Nat
    /\ Surface + 3 < Deep

Nowhere == << >>

Position == (0..Extent) \X (0..Extent) \X (0..255)

\* The steps of a creature, <<dx, dy>>.
Delta == [North |-> <<0, -1>>, East |-> <<1, 0>>, South |-> <<0, 1>>, West |-> <<-1, 0>>,
          NorthEast |-> <<1, -1>>, SouthEast |-> <<1, 1>>,
          SouthWest |-> <<-1, 1>>, NorthWest |-> <<-1, -1>>]
Direction == DOMAIN Delta
Diagonal(dir) == Delta[dir][1] # 0 /\ Delta[dir][2] # 0

\* A coordinate that leaves the map is no position.
ToPosition(x, y, z) == IF <<x, y, z>> \in Position THEN <<x, y, z>> ELSE Nowhere
Offset(p, dx, dy) == ToPosition(p[1] + dx, p[2] + dy, p[3])
OffsetZ(p, dz) == ToPosition(p[1], p[2], p[3] + dz)

Abs(n) == IF n < 0 THEN -n ELSE n
Lesser(a, b) == IF a < b THEN a ELSE b
Greater(a, b) == IF a < b THEN b ELSE a

(***************************************************************************)
(* Chunks.                                                                 *)
(***************************************************************************)
ChunkOf(p) == <<p[1] \div Dim, p[2] \div Dim, p[3]>>
Relative(p) == <<p[1] % Dim, p[2] % Dim>>

\* Mutant of FloorSpan: only what is drawn.
FloorSpanDrawn(z) ==
    IF z <= Surface THEN 0..Surface ELSE Greater(z - 3, 0) .. Lesser(z + 3, Deep)

\* The floors a client draws from floor z and one more of stairs.
FloorSpan(z) ==
    IF z <= Surface THEN 0 .. Lesser(Greater(Surface, z + 1), Surface + 1)
    ELSE Greater(z - 3, 0) .. Lesser(z + 3, Deep)

\* The chunks a player at p keeps loaded, and the fewer a monster does.
Square(p) == {<<ChunkOf(p)[1] + dx, ChunkOf(p)[2] + dy>> : dx, dy \in -1..1}
ChunksAround(p) == {<<c[1], c[2], z>> : c \in Square(p), z \in FloorSpan(p[3])}
ChunkNeighbors(p) == {<<c[1], c[2], p[3]>> : c \in Square(p)}

\* The chunks a path search loads when it meets a walkable tile within edge
\* tiles of the border of its own.
EdgeChunks(p, edge) ==
    LET c == ChunkOf(p)
        r == Relative(p)
    IN  {n \in {<<c[1] - 1, c[2], p[3]>>} : r[1] < edge}
        \cup {n \in {<<c[1] + 1, c[2], p[3]>>} : r[1] > Dim - edge}
        \cup {n \in {<<c[1], c[2] - 1, p[3]>>} : r[2] < edge}
        \cup {n \in {<<c[1], c[2] + 1, p[3]>>} : r[2] > Dim - edge}

\* The chunk files of a terrain: its tiles under their place in their chunk.
Cut(S, id) == {Relative(p) : p \in {q \in S : ChunkOf(q) = id}}
CutMap(f, id) ==
    [r \in Cut(DOMAIN f, id) |-> f[<<id[1] * Dim + r[1], id[2] * Dim + r[2], id[3]>>]]
ChunkIds(t) ==
    {ChunkOf(p) : p \in t.ground \cup t.blocked \cup t.opaque \cup t.zone
                         \cup DOMAIN t.change \cup DOMAIN t.height}
IntoChunks(t) ==
    [id \in ChunkIds(t) |->
        [ground |-> Cut(t.ground, id), blocked |-> Cut(t.blocked, id),
         opaque |-> Cut(t.opaque, id), zone |-> Cut(t.zone, id),
         change |-> CutMap(t.change, id), height |-> CutMap(t.height, id)]]

\* What the chunk manager answers from its chunks cm.
Loaded(cm, p) == ChunkOf(p) \in DOMAIN cm
ChunkGround(cm, p) == Loaded(cm, p) /\ Relative(p) \in cm[ChunkOf(p)].ground
ChunkBlocked(cm, p) == Loaded(cm, p) /\ Relative(p) \in cm[ChunkOf(p)].blocked
ChunkOpaque(cm, p) == Loaded(cm, p) /\ Relative(p) \in cm[ChunkOf(p)].opaque
ChunkZone(cm, p) == Loaded(cm, p) /\ Relative(p) \in cm[ChunkOf(p)].zone
ChunkHeight(cm, p) ==
    IF Loaded(cm, p) /\ Relative(p) \in DOMAIN cm[ChunkOf(p)].height
    THEN cm[ChunkOf(p)].height[Relative(p)] ELSE 0
ChunkChange(cm, p) ==
    IF p \in Position /\ Loaded(cm, p) /\ Relative(p) \in DOMAIN cm[ChunkOf(p)].change
    THEN cm[ChunkOf(p)].change[Relative(p)] ELSE {}

(***************************************************************************)
(* What a terrain answers.                                                 *)
(***************************************************************************)
Holds(t, p) == ChunkOf(p) \in t.held
HasGround(t, p) == Holds(t, p) /\ p \in t.ground
IsBlocked(t, p) == Holds(t, p) /\ p \in t.blocked
IsWalkable(t, p) == Holds(t, p) /\ p \in t.ground /\ p \notin t.blocked
IsOpaque(t, p) == Holds(t, p) /\ p \in t.opaque
IsProtectionZone(t, p) == Holds(t, p) /\ p \in t.zone
TileHeight(t, p) == IF Holds(t, p) /\ p \in DOMAIN t.height THEN t.height[p] ELSE 0
TriggersUp(t, p) == TileHeight(t, p) >= 3
FloorChangeAt(t, p) ==
    IF p \in Position /\ Holds(t, p) /\ p \in DOMAIN t.change THEN t.change[p] ELSE {}

(***************************************************************************)
(* Stairs and holes.  Flag is a subset of the floor change attributes of   *)
(* items.xml; the offsets of one tile's flags add up.                      *)
(***************************************************************************)
Flag == {"down", "north", "south", "east", "west", "southalt", "eastalt"}

\* Where the flags of a stair lead sideways: with = 1 up the stair, -1 down.
Sideways(flags, with) ==
    LET one(flag, n) == IF flag \in flags THEN n ELSE 0
    IN  <<with * (one("east", 1) - one("west", 1) + one("eastalt", 2)),
          with * (one("south", 1) - one("north", 1) + one("southalt", 2))>>

\* A hole first looks for the wide stairs below and next to it, then at the
\* stair right below.
Shift(t, p) ==
    LET below(dx, dy) == FloorChangeAt(t, <<p[1] + dx, p[2] + dy, p[3] + 1>>)
    IN  IF "southalt" \in below(0, -1) THEN <<0, -2>>
        ELSE IF "eastalt" \in below(-1, 0) THEN <<-2, 0>>
        ELSE Sideways(below(0, 0), -1)

ResolveFloorChange(t, p) ==
    LET flags == FloorChangeAt(t, p)
        d == IF "down" \in flags THEN Shift(t, p) ELSE Sideways(flags, 1)
        dz == IF "down" \in flags THEN 1 ELSE -1
    IN  IF flags = {} THEN Nowhere ELSE ToPosition(p[1] + d[1], p[2] + d[2], p[3] + dz)

\* From a raised tile a step leads onto the floor above when there is floor
\* ahead up there and none overhead.
Void(t, p) == ~ HasGround(t, p) /\ ~ IsBlocked(t, p)
StepUp(t, from, dest) ==
    LET above == OffsetZ(dest, -1)
    IN  IF /\ from[3] # Surface + 1 /\ TriggersUp(t, from)
           /\ OffsetZ(from, -1) # Nowhere => Void(t, OffsetZ(from, -1))
           /\ above # Nowhere /\ HasGround(t, above) /\ FloorChangeAt(t, above) = {}
        THEN above ELSE dest

\* A step into the void above a raised tile leads down onto it.
StepDown(t, from, dest) ==
    LET below == OffsetZ(dest, 1)
    IN  IF /\ from[3] # Surface /\ from[3] = dest[3] /\ Void(t, dest)
           /\ below # Nowhere /\ TriggersUp(t, below)
        THEN below ELSE dest

ResolveVertical(t, from, dest, diagonal) ==
    LET high == IF diagonal THEN dest ELSE StepDown(t, from, StepUp(t, from, dest))
        land == ResolveFloorChange(t, high)
    IN  IF land = Nowhere THEN high ELSE land

=============================================================================
