------------------------------ MODULE Viewport ------------------------------
(***************************************************************************)
(* The tiles a client holds around its player: protocol/map_description.rs *)
(* and protocol/walk.rs.                                                   *)
(*                                                                         *)
(* A packet is a sequence of blocks.  Only the full map description says   *)
(* where its tiles go; the others are a bare stream of tiles that the      *)
(* client places from the centre it has reached itself, block by block.    *)
(* A block is what the server sampled: [op, cells], the world tiles in     *)
(* stream order as a set.  Shown(c, op) is what a client centred at c      *)
(* takes the block for.  A tile is drawn right when both agree and the     *)
(* server held the chunk of the tile, or had found that it has none.       *)
(***************************************************************************)
EXTENDS Terrain

CONSTANTS
    ViewX, ViewY        \* half the screen (8, 6); it has a column and a row more

ASSUME ViewportAssumption ==
    /\ ViewX \in Nat \ {0} /\ ViewY \in Nat \ {0}
    /\ Surface > 0     \* the first floor below it draws two floors above itself

Width == 2 * ViewX + 2
Height == 2 * ViewY + 2

\* The floors streamed around a centre on floor z.
FloorRange(z) == IF z > Surface THEN (z - 2) .. Lesser(z + 2, Deep) ELSE 0..Surface

\* One floor's tiles: a floor that is dz above the centre is drawn dz further
\* to the south-east.
FloorDescription(x, y, floor, dz, w, h) ==
    {<<x + i + dz, y + j + dz, floor>> : i \in 0..(w - 1), j \in 0..(h - 1)}

MapDescription(x, y, z, w, h) ==
    UNION {FloorDescription(x, y, f, z - f, w, h) : f \in FloorRange(z)}

Block(op, cells) == [op |-> op, cells |-> cells]
FullMap(p) ==
    [op |-> "map", at |-> p,
     cells |-> MapDescription(p[1] - ViewX, p[2] - ViewY, p[3], Width, Height)]
Row(op, x, y, z) == Block(op, MapDescription(x, y, z, Width, 1))
Column(op, x, y, z) == Block(op, MapDescription(x, y, z, 1, Height))

(***************************************************************************)
(* The server: the packet of a step from old to new.                       *)
(***************************************************************************)
\* The floors a floor change reveals, each with its shift.
FloorsUp(oz, nz) ==
    IF nz = Surface THEN {<<f, Surface + 1 - f>> : f \in 0..(Surface - 2)}
    ELSE IF nz > Surface THEN {<<oz - 3, 3>>} ELSE {}
FloorsDown(oz, nz) ==
    IF nz = Surface + 1 THEN {<<nz + i, -i - 1>> : i \in 0..2}
    ELSE IF nz > oz /\ nz > Surface + 1 /\ nz < Deep - 1 THEN {<<nz + 2, -3>>} ELSE {}
Revealed(p, floors) ==
    UNION {FloorDescription(p[1] - ViewX, p[2] - ViewY, f[1], f[2], Width, Height) :
           f \in floors}

MoveUpBlock(old, new) ==
    << Block("up", Revealed(old, FloorsUp(old[3], new[3]))),
       Column("west", old[1] - ViewX, old[2] - (ViewY - 1), new[3]),
       Row("north", old[1] - ViewX, old[2] - ViewY, new[3]) >>
MoveDownBlock(old, new) ==
    << Block("down", Revealed(old, FloorsDown(old[3], new[3]))),
       Column("east", old[1] + ViewX + 1, old[2] - (ViewY + 1), new[3]),
       Row("south", old[1] - ViewX, old[2] + ViewY + 1, new[3]) >>

FloorBlocks(old, new) ==
    IF new[3] > old[3] THEN MoveDownBlock(old, new)
    ELSE IF new[3] < old[3] THEN MoveUpBlock(old, new) ELSE << >>
RowSlice(old, new) ==
    IF old[2] > new[2] THEN <<Row("north", old[1] - ViewX, new[2] - ViewY, new[3])>>
    ELSE IF old[2] < new[2] THEN <<Row("south", old[1] - ViewX, new[2] + ViewY + 1, new[3])>>
    ELSE << >>
ColumnSlice(old, new) ==
    IF old[1] < new[1] THEN <<Column("east", new[1] + ViewX + 1, new[2] - ViewY, new[3])>>
    ELSE IF old[1] > new[1] THEN <<Column("west", new[1] - ViewX, new[2] - ViewY, new[3])>>
    ELSE << >>

\* A stair that leads further than one tile to the side cannot be told step
\* by step: it is sent as a teleport.
Leaps(old, new) ==
    /\ new[3] # old[3]
    /\ Abs(new[1] - old[1]) > 1 \/ Abs(new[2] - old[2]) > 1
\* Mutant of WalkUpdate: every stair is told step by step.
WalkUpdateSteps(old, new) ==
    FloorBlocks(old, new) \o RowSlice(old, new) \o ColumnSlice(old, new)
WalkUpdate(old, new) ==
    IF Leaps(old, new) THEN <<FullMap(new)>>
    ELSE FloorBlocks(old, new) \o RowSlice(old, new) \o ColumnSlice(old, new)

(***************************************************************************)
(* The client (OTClient, external): where its centre goes with a block,    *)
(* and which tiles it takes the block for.                                 *)
(***************************************************************************)
Recentred(c, op) ==
    CASE op = "north" -> <<c[1], c[2] - 1, c[3]>>
      [] op = "south" -> <<c[1], c[2] + 1, c[3]>>
      [] op = "east" -> <<c[1] + 1, c[2], c[3]>>
      [] op = "west" -> <<c[1] - 1, c[2], c[3]>>
      [] op = "up" -> <<c[1] + 1, c[2] + 1, c[3] - 1>>
      [] op = "down" -> <<c[1] - 1, c[2] - 1, c[3] + 1>>

Shown(c, op) ==
    LET n == Recentred(c, op)
        west == n[1] - ViewX
        north == n[2] - ViewY
    IN  CASE op = "north" -> MapDescription(west, north, n[3], Width, 1)
          [] op = "south" -> MapDescription(west, n[2] + ViewY + 1, n[3], Width, 1)
          [] op = "east" -> MapDescription(n[1] + ViewX + 1, north, n[3], 1, Height)
          [] op = "west" -> MapDescription(west, north, n[3], 1, Height)
          [] op = "up" -> Revealed(c, FloorsUp(c[3], n[3]))
          [] op = "down" -> Revealed(c, FloorsDown(c[3], n[3]))

\* What a client that shows the tiles of right rightly has after a block told
\* from the chunks of known.  Tiles off the screen are dropped; there is no
\* tile, and nothing to know, outside the map.
Screen(c) == MapDescription(c[1] - ViewX, c[2] - ViewY, c[3], Width, Height)
Receive(client, block, known) ==
    LET c == IF block.op = "map" THEN block.at ELSE Recentred(client.at, block.op)
        taken == IF block.op = "map" THEN block.cells ELSE Shown(client.at, block.op)
        kept == client.right \ taken
        told == {p \in taken : p \in Position => ChunkOf(p) \in known}
        new == IF taken = block.cells THEN told ELSE {}
    IN  [at |-> c, right |-> (kept \cup new) \cap Screen(c)]

\* The client takes the blocks of a packet one after the other.
ReceiveAll(client, packet, known) ==
    LET after[i \in 0..Len(packet)] ==
            IF i = 0 THEN client ELSE Receive(after[i - 1], packet[i], known)
    IN  after[Len(packet)]

=============================================================================
