---------------------------- MODULE ChunksProofs ----------------------------
(***************************************************************************)
(* What Chunks keeps for any map, any players and monsters, any chunk edge *)
(* and any files that cannot be read: positions are positions, the chunks  *)
(* around every player are known, every client shows its screen, and the   *)
(* players move as on the whole map (Atlas).                               *)
(*                                                                         *)
(* The heart of it: what the server has been told of a chunk stays true,   *)
(* and every tile a step is resolved from, and every tile a client is      *)
(* drawn, lies in a chunk around the player, which is loaded before.       *)
(***************************************************************************)
EXTENDS Chunks, SequenceTheorems, WellFoundedInduction, TLAPS

(***************************************************************************)
(* Chunks and their neighbours.                                            *)
(***************************************************************************)
\* A chunk edge more or less leads at most to the next chunk.
LEMMA NextChunk ==
    ASSUME NEW D \in Nat \ {0}, NEW x \in Nat, NEW y \in Nat, y <= x + D, x <= y + D
    PROVE  y \div D - x \div D \in -1..1
<1> DEFINE q == x \div D
           r == y \div D
<1>1. q \in Nat /\ D * q <= x /\ x < D * q + D
  BY Z3
<1>2. r \in Nat /\ D * r <= y /\ y < D * r + D
  BY Z3
<1> HIDE DEF q, r
<1>3. r - q <= 1
  <2> SUFFICES ASSUME r >= q + 2 PROVE FALSE
    BY <1>1, <1>2
  <2>1. D * r >= D * (q + 2)
    BY <1>1, <1>2, Z3
  <2>2. D * (q + 2) = D * q + 2 * D
    BY <1>1, Z3
  <2> QED BY <1>1, <1>2, <2>1, <2>2
<1>4. q - r <= 1
  <2> SUFFICES ASSUME q >= r + 2 PROVE FALSE
    BY <1>1, <1>2
  <2>1. D * q >= D * (r + 2)
    BY <1>1, <1>2, Z3
  <2>2. D * (r + 2) = D * r + 2 * D
    BY <1>2, Z3
  <2> QED BY <1>1, <1>2, <2>1, <2>2
<1> QED BY <1>1, <1>2, <1>3, <1>4 DEF q, r

\* The chunks around a tile hold whatever is no more than a chunk edge aside on their floors.
LEMMA AroundHolds ==
    ASSUME NEW p \in Position, NEW q \in Position, q[3] \in FloorSpan(p[3]),
           q[1] <= p[1] + Dim, p[1] <= q[1] + Dim, q[2] <= p[2] + Dim, p[2] <= q[2] + Dim
    PROVE  ChunkOf(q) \in ChunksAround(p)
<1>1. p[1] \in Nat /\ p[2] \in Nat /\ q[1] \in Nat /\ q[2] \in Nat /\ Dim \in Nat \ {0}
  BY TerrainAssumption DEF Position
<1> DEFINE dx == q[1] \div Dim - p[1] \div Dim
           dy == q[2] \div Dim - p[2] \div Dim
<1>2. dx \in -1..1 /\ dy \in -1..1
  BY <1>1, NextChunk
<1>3. p[1] \div Dim \in Int /\ p[2] \div Dim \in Int /\ q[1] \div Dim \in Int /\ q[2] \div Dim \in Int
  BY <1>1
<1>4. <<q[1] \div Dim, q[2] \div Dim>> = <<p[1] \div Dim + dx, p[2] \div Dim + dy>>
  BY <1>3
<1>5. <<q[1] \div Dim, q[2] \div Dim>> \in Square(p)
  BY <1>2, <1>4 DEF Square, ChunkOf
<1> QED BY <1>5 DEF ChunksAround, ChunkOf

\* q is so near to p that a step to p may have to do with it.
By(p, q) ==
    /\ q \in Position
    /\ q[1] - p[1] \in -3..3 /\ q[2] - p[2] \in -3..3 /\ q[3] - p[3] \in -1..1

\* The chunks around a tile hold whatever is near to it on a floor of the game.
LEMMA AroundCovers ==
    ASSUME NEW p \in Position, p[3] <= Deep, NEW q, By(p, q), q[3] <= Deep
    PROVE  ChunkOf(q) \in ChunksAround(p)
<1>1. /\ p[1] \in Nat /\ p[2] \in Nat /\ p[3] \in Nat
      /\ q[1] \in Nat /\ q[2] \in Nat /\ q[3] \in Nat /\ q \in Position
  BY TerrainAssumption DEF Position, By
<1>2. Dim \in Nat \ {0} /\ Dim >= 3 /\ Surface \in Nat /\ Deep \in Nat /\ Surface + 3 < Deep
  BY TerrainAssumption, ChunksAssumption
<1>3. /\ q[1] <= p[1] + Dim /\ p[1] <= q[1] + Dim
      /\ q[2] <= p[2] + Dim /\ p[2] <= q[2] + Dim
      /\ q[3] <= p[3] + 1 /\ p[3] <= q[3] + 1
  BY <1>1, <1>2 DEF By
<1>4. q[3] \in FloorSpan(p[3])
  <2>1. CASE p[3] <= Surface
    BY <2>1, <1>3, <1>1, <1>2 DEF FloorSpan, Lesser, Greater
  <2>2. CASE p[3] > Surface
    <3>1. Greater(p[3] - 3, 0) \in Int /\ Greater(p[3] - 3, 0) <= q[3]
      BY <2>2, <1>3, <1>1, <1>2 DEF Greater
    <3>2. Lesser(p[3] + 3, Deep) \in Int /\ q[3] <= Lesser(p[3] + 3, Deep)
      BY <2>2, <1>3, <1>1, <1>2 DEF Lesser
    <3>3. FloorSpan(p[3]) = Greater(p[3] - 3, 0) .. Lesser(p[3] + 3, Deep)
      BY <2>2, <1>1, <1>2 DEF FloorSpan
    <3> QED BY <3>1, <3>2, <3>3, <1>1
  <2> QED BY <2>1, <2>2, <1>1, <1>2
<1> QED BY <1>1, <1>3, <1>4, AroundHolds

(***************************************************************************)
(* What a map answers.                                                     *)
(***************************************************************************)
\* The map with the chunks of A in memory.
Having(A) == [World EXCEPT !.held = A]

\* t and u say the same of the tile q.
Same(t, u, q) ==
    /\ HasGround(t, q) = HasGround(u, q)
    /\ IsBlocked(t, q) = IsBlocked(u, q)
    /\ IsWalkable(t, q) = IsWalkable(u, q)
    /\ TileHeight(t, q) = TileHeight(u, q)
    /\ FloorChangeAt(t, q) = FloorChangeAt(u, q)

LEMMA HavingFields ==
    ASSUME NEW A
    PROVE  /\ Having(A).held = A
           /\ Having(A).ground = World.ground /\ Having(A).blocked = World.blocked
           /\ Having(A).zone = World.zone
           /\ Having(A).change = World.change /\ Having(A).height = World.height
BY ChunksAssumption DEF Having

\* Maps that hold the chunk of a tile both or neither say the same of it, and any two do
\* of a tile below the lowest floor.
LEMMA SameIfHeldAlike ==
    ASSUME NEW A, NEW B, NEW q, q[3] <= Deep => (ChunkOf(q) \in A <=> ChunkOf(q) \in B)
    PROVE  Same(Having(A), Having(B), q)
<1>1. CASE q[3] <= Deep
  <2>1. Holds(Having(A), q) = Holds(Having(B), q)
    BY <1>1, HavingFields DEF Holds
  <2> QED BY <2>1, HavingFields
          DEF Same, HasGround, IsBlocked, IsWalkable, TileHeight, FloorChangeAt
<1>2. CASE ~ q[3] <= Deep
  <2>1. q \notin Tiles
    BY <1>2, ChunksAssumption
  <2> QED BY <2>1, HavingFields
          DEF Same, HasGround, IsBlocked, IsWalkable, TileHeight, FloorChangeAt, Tiles
<1> QED BY <1>1, <1>2

\* A raised tile is flat.
LEMMA RaisedFlat ==
    ASSUME NEW A, NEW q, TriggersUp(Having(A), q)
    PROVE  FloorChangeAt(Having(A), q) = {}
BY HavingFields, ChunksAssumption DEF TriggersUp, TileHeight, FloorChangeAt

(***************************************************************************)
(* Where a step leads.                                                     *)
(***************************************************************************)
\* The tiles above and below the tile ahead and the one under way are near to it.
LEMMA NearTiles ==
    ASSUME NEW p \in Position, NEW from \in Position, from[3] = p[3],
           from[1] - p[1] \in -1..1, from[2] - p[2] \in -1..1
    PROVE  /\ By(p, p) /\ By(p, from)
           /\ \A dz \in {-1, 1} : /\ OffsetZ(p, dz) # Nowhere => By(p, OffsetZ(p, dz))
                                  /\ OffsetZ(from, dz) # Nowhere => By(p, OffsetZ(from, dz))
<1>1. /\ p[1] \in Nat /\ p[2] \in Nat /\ p[3] \in Nat
      /\ from[1] \in Nat /\ from[2] \in Nat /\ from[3] \in Nat
  BY TerrainAssumption DEF Position
<1>2. By(p, p) /\ By(p, from)
  BY <1>1 DEF By
<1>3. ASSUME NEW dz \in {-1, 1}
      PROVE  /\ OffsetZ(p, dz) # Nowhere => By(p, OffsetZ(p, dz))
             /\ OffsetZ(from, dz) # Nowhere => By(p, OffsetZ(from, dz))
  BY <1>1 DEF By, OffsetZ, ToPosition
<1> QED BY <1>2, <1>3

\* Stairs lead at most three tiles to the side.
LEMMA SidewaysNear ==
    ASSUME NEW flags, NEW with \in {-1, 1}
    PROVE  Sideways(flags, with)[1] \in -3..3 /\ Sideways(flags, with)[2] \in -3..3
BY DEF Sideways

LEMMA ShiftNear ==
    ASSUME NEW t, NEW p
    PROVE  Shift(t, p)[1] \in -3..3 /\ Shift(t, p)[2] \in -3..3
<1> DEFINE below(dx, dy) == FloorChangeAt(t, <<p[1] + dx, p[2] + dy, p[3] + 1>>)
<1>1. CASE "southalt" \in below(0, -1)
  BY <1>1 DEF Shift
<1>2. CASE "southalt" \notin below(0, -1) /\ "eastalt" \in below(-1, 0)
  BY <1>2 DEF Shift
<1>3. CASE "southalt" \notin below(0, -1) /\ "eastalt" \notin below(-1, 0)
  <2>1. Shift(t, p) = Sideways(below(0, 0), -1)
    BY <1>3 DEF Shift
  <2> QED BY <2>1, SidewaysNear
<1> QED BY <1>1, <1>2, <1>3

\* A floor change leads to a tile near to the stair or hole.
LEMMA FloorChangeNear ==
    ASSUME NEW t, NEW p \in Position, ResolveFloorChange(t, p) # Nowhere
    PROVE  By(p, ResolveFloorChange(t, p)) /\ ResolveFloorChange(t, p)[3] # p[3]
<1> DEFINE flags == FloorChangeAt(t, p)
           d == IF "down" \in flags THEN Shift(t, p) ELSE Sideways(flags, 1)
           dz == IF "down" \in flags THEN 1 ELSE -1
           land == ToPosition(p[1] + d[1], p[2] + d[2], p[3] + dz)
<1>1. d[1] \in -3..3 /\ d[2] \in -3..3 /\ dz \in {-1, 1}
  BY ShiftNear, SidewaysNear
<1>2. ResolveFloorChange(t, p) = land /\ land # Nowhere
  BY DEF ResolveFloorChange
<1>3. p[1] \in Nat /\ p[2] \in Nat /\ p[3] \in Nat
  BY TerrainAssumption DEF Position
<1> HIDE DEF d, dz
<1>4. land = <<p[1] + d[1], p[2] + d[2], p[3] + dz>> /\ land \in Position
  BY <1>2 DEF ToPosition
<1> HIDE DEF land
<1>5. land[1] = p[1] + d[1] /\ land[2] = p[2] + d[2] /\ land[3] = p[3] + dz
  BY <1>4
<1> QED BY <1>1, <1>2, <1>3, <1>4, <1>5 DEF By

\* Maps that say the same of the tiles near to a stair agree on where it leads.
LEMMA FloorChangeSame ==
    ASSUME NEW t, NEW u, NEW p \in Position, \A q : By(p, q) => Same(t, u, q)
    PROVE  ResolveFloorChange(t, p) = ResolveFloorChange(u, p)
<1>0. p[1] \in Nat /\ p[2] \in Nat /\ p[3] \in Nat
  BY TerrainAssumption DEF Position
<1>1. FloorChangeAt(t, p) = FloorChangeAt(u, p)
  BY <1>0 DEF By, Same
<1>2. ASSUME NEW dx \in {-1, 0}, NEW dy \in {-1, 0}
      PROVE  FloorChangeAt(t, <<p[1] + dx, p[2] + dy, p[3] + 1>>)
               = FloorChangeAt(u, <<p[1] + dx, p[2] + dy, p[3] + 1>>)
  <2> SUFFICES ASSUME NEW q, q = <<p[1] + dx, p[2] + dy, p[3] + 1>>
               PROVE  FloorChangeAt(t, q) = FloorChangeAt(u, q)
    OBVIOUS
  <2>1. q[1] = p[1] + dx /\ q[2] = p[2] + dy /\ q[3] = p[3] + 1
    OBVIOUS
  <2>2. CASE q \in Position
    BY <2>1, <2>2, <1>0 DEF By, Same
  <2>3. CASE q \notin Position
    BY <2>3 DEF FloorChangeAt
  <2> QED BY <2>2, <2>3
<1>3. Shift(t, p) = Shift(u, p)
  BY <1>2 DEF Shift
<1> QED BY <1>1, <1>3 DEF ResolveFloorChange

\* So they agree on where a step leads; it is near to the tile ahead.
LEMMA LandingSame ==
    ASSUME NEW A, NEW B, NEW from \in Position, NEW raw \in Position, NEW diagonal,
           from[3] = raw[3], from[1] - raw[1] \in -1..1, from[2] - raw[2] \in -1..1,
           \A q : By(raw, q) => Same(Having(A), Having(B), q)
    PROVE  LET land == ResolveVertical(Having(A), from, raw, diagonal)
           IN  /\ ResolveVertical(Having(B), from, raw, diagonal) = land
               /\ By(raw, land)
               /\ land[3] = raw[3] => land = raw
<1> DEFINE t == Having(A)
           u == Having(B)
           up == StepUp(t, from, raw)
           high == IF diagonal THEN raw ELSE StepDown(t, from, up)
           roof == OffsetZ(raw, -1)
           floor == OffsetZ(raw, 1)
<1>1. /\ By(raw, raw) /\ By(raw, from)
      /\ roof # Nowhere => By(raw, roof)
      /\ floor # Nowhere => By(raw, floor)
      /\ OffsetZ(from, -1) # Nowhere => By(raw, OffsetZ(from, -1))
  BY NearTiles
<1>2. /\ roof # Nowhere => roof \in Position /\ roof[3] = raw[3] - 1
      /\ floor # Nowhere => floor[3] = raw[3] + 1
      /\ raw[3] \in Int
  BY TerrainAssumption, SMTT(30) DEF Position, OffsetZ, ToPosition
<1>3. ASSUME NEW q, By(raw, q) PROVE Same(t, u, q)
  BY <1>3
<1> HIDE DEF t, u, roof, floor
<1>4. StepUp(u, from, raw) = up
  BY <1>1, <1>3 DEF StepUp, Same, TriggersUp, Void, roof
<1>5. up = raw \/ (up = roof /\ roof # Nowhere /\ FloorChangeAt(t, roof) = {})
  BY DEF StepUp, roof
<1> HIDE DEF up
<1>6. StepDown(u, from, up) = StepDown(t, from, up)
  BY <1>1, <1>2, <1>3, <1>5 DEF StepDown, Same, TriggersUp, Void, floor
<1>7. \/ StepDown(t, from, up) = up
      \/ /\ StepDown(t, from, up) = floor
         /\ floor # Nowhere /\ FloorChangeAt(t, floor) = {}
  <2>1. CASE up = raw
    BY <2>1, RaisedFlat DEF StepDown, floor, t
  <2>2. CASE up = roof /\ roof # Nowhere
    BY <2>2, <1>2 DEF StepDown
  <2> QED BY <2>1, <2>2, <1>5
<1>8. high \in Position /\ By(raw, high)
  BY <1>1, <1>5, <1>7 DEF By
<1>9. high = raw \/ (FloorChangeAt(t, high) = {} /\ high[3] # raw[3])
  BY <1>2, <1>5, <1>7
<1>10. ResolveVertical(u, from, raw, diagonal)
         = IF ResolveFloorChange(u, high) = Nowhere THEN high ELSE ResolveFloorChange(u, high)
  BY <1>4, <1>6 DEF ResolveVertical
<1>11. ResolveVertical(t, from, raw, diagonal)
         = IF ResolveFloorChange(t, high) = Nowhere THEN high ELSE ResolveFloorChange(t, high)
  BY DEF ResolveVertical, up
<1> HIDE DEF high
<1>12. ResolveFloorChange(t, high) = ResolveFloorChange(u, high)
  <2>1. CASE high = raw
    BY <2>1, <1>3, <1>8, FloorChangeSame
  <2>2. CASE FloorChangeAt(t, high) = {}
    <3>1. FloorChangeAt(u, high) = {}
      BY <2>2, <1>8, <1>3 DEF Same
    <3> QED BY <3>1, <2>2 DEF ResolveFloorChange
  <2> QED BY <2>1, <2>2, <1>9
<1>13. ResolveFloorChange(t, high) # Nowhere =>
          /\ By(raw, ResolveFloorChange(t, high))
          /\ ResolveFloorChange(t, high)[3] # raw[3]
  <2>1. CASE high = raw
    BY <2>1, FloorChangeNear
  <2>2. CASE FloorChangeAt(t, high) = {}
    BY <2>2 DEF ResolveFloorChange
  <2> QED BY <2>1, <2>2, <1>9
<1> QED BY <1>8, <1>9, <1>10, <1>11, <1>12, <1>13 DEF t, u

(***************************************************************************)
(* What is loaded.                                                         *)
(***************************************************************************)
StoreOK(s) ==
    /\ s = [chunks |-> s.chunks, missing |-> s.missing]
    /\ s.chunks \subseteq Files
    /\ s.chunks \cap s.missing = {}

\* n knows what s knows and maybe more.
Grown(s, n) == s.chunks \subseteq n.chunks /\ s.missing \subseteq n.missing

\* Loading adds to what is known, and what was asked for is known.
LEMMA LoadedWell ==
    ASSUME NEW s, StoreOK(s), NEW ids, NEW failing, NEW n, n = EnsureLoaded(s, ids, failing)
    PROVE  StoreOK(n) /\ Grown(s, n) /\ ids \subseteq Told(n)
<1>1. /\ n.chunks = s.chunks \cup (((ids \ (s.chunks \cup s.missing)) \cap Files) \ failing)
      /\ n.missing = s.missing \cup ((ids \ (s.chunks \cup s.missing))
                        \ (((ids \ (s.chunks \cup s.missing)) \cap Files) \ failing))
      /\ n = [chunks |-> n.chunks, missing |-> n.missing]
  BY DEF EnsureLoaded
<1> QED BY <1>1 DEF StoreOK, Grown, Told

LEMMA GrownFurther ==
    ASSUME NEW s, NEW n, NEW m, Grown(s, n), Grown(n, m)
    PROVE  Grown(s, m)
BY DEF Grown

\* What is known of a chunk is what is so of it for good: it is held exactly if its file
\* exists and will not be among the lost ones later either.
LEMMA ToldTruly ==
    ASSUME NEW s, StoreOK(s), NEW n, StoreOK(n), Grown(s, n), NEW c \in Told(s)
    PROVE  c \in s.chunks <=> c \in Files \ LostOf(n)
BY DEF StoreOK, Grown, Told, LostOf

\* A sweep forgets no miss and no chunk of a place it is to keep.
LEMMA SweptWell ==
    ASSUME NEW s, StoreOK(s), NEW required, NEW n, n = Swept(s, required)
    PROVE  /\ StoreOK(n) /\ n.missing = s.missing
           /\ \A ids : ids \subseteq required /\ ids \subseteq Told(s) => ids \subseteq Told(n)
<1>1. n.chunks = s.chunks \cap (required \cup Pinned) /\ n.missing = s.missing
      /\ n = [chunks |-> n.chunks, missing |-> n.missing]
  BY DEF Swept, StoreOK
<1> QED BY <1>1 DEF StoreOK, Told

(***************************************************************************)
(* Where a login puts a player.                                            *)
(***************************************************************************)
LEMMA LeastOf ==
    ASSUME NEW S, S \subseteq Nat, S # {}
    PROVE  \E m \in S : \A k \in S : m <= k
<1>1. \E m \in S : \A k \in S : ~ (<<k, m>> \in OpToRel(<, Nat))
  BY WFMin, NatLessThanWellFounded
<1>2. PICK m \in S : \A k \in S : ~ (<<k, m>> \in OpToRel(<, Nat))
  BY <1>1
<1>3. ASSUME NEW k \in S PROVE m <= k
  <2>1. k \in Nat /\ m \in Nat
    OBVIOUS
  <2>2. k < m => <<k, m>> \in OpToRel(<, Nat)
    BY <2>1 DEF OpToRel
  <2>3. ~ (k < m)
    BY <1>2, <2>2
  <2> QED BY <2>1, <2>3
<1> QED BY <1>3

\* Of some tiles one comes first by ring, row and column.
LEMMA FirstTile ==
    ASSUME NEW F, F # {}, F \subseteq Position, NEW ring \in [F -> Nat]
    PROVE  \E a \in F : \A b \in F :
              \/ ring[a] < ring[b]
              \/ ring[a] = ring[b] /\ a[2] < b[2]
              \/ ring[a] = ring[b] /\ a[2] = b[2] /\ a[1] <= b[1]
<1>0. \A a \in F : a[1] \in Nat /\ a[2] \in Nat
  BY TerrainAssumption DEF Position
<1>1. PICK r \in {ring[a] : a \in F} : \A k \in {ring[a] : a \in F} : r <= k
  <2>1. {ring[a] : a \in F} \subseteq Nat /\ {ring[a] : a \in F} # {}
    OBVIOUS
  <2> QED BY <2>1, LeastOf
<1> DEFINE G == {a \in F : ring[a] = r}
<1>2. PICK y \in {a[2] : a \in G} : \A k \in {a[2] : a \in G} : y <= k
  <2>1. {a[2] : a \in G} \subseteq Nat /\ {a[2] : a \in G} # {}
    BY <1>0, <1>1
  <2> QED BY <2>1, LeastOf
<1> DEFINE H == {a \in G : a[2] = y}
<1>3. PICK x \in {a[1] : a \in H} : \A k \in {a[1] : a \in H} : x <= k
  <2>1. {a[1] : a \in H} \subseteq Nat /\ {a[1] : a \in H} # {}
    BY <1>0, <1>2
  <2> QED BY <2>1, LeastOf
<1>4. PICK a \in H : a[1] = x
  BY <1>3
<1>5. a \in F /\ ring[a] = r /\ a[2] = y
  BY <1>4
<1>6. ASSUME NEW b \in F
      PROVE  \/ ring[a] < ring[b]
             \/ ring[a] = ring[b] /\ a[2] < b[2]
             \/ ring[a] = ring[b] /\ a[2] = b[2] /\ a[1] <= b[1]
  <2>1. r <= ring[b] /\ ring[b] \in Nat /\ r \in Nat
    BY <1>1
  <2>2. ring[b] = r => y <= b[2] /\ y \in Nat
    BY <1>2, <1>0
  <2>3. ring[b] = r /\ b[2] = y => x <= b[1]
    BY <1>3
  <2> QED BY <2>1, <2>2, <2>3, <1>4, <1>5, <1>0
<1> QED BY <1>5, <1>6

\* A login leads to the place asked for or to a free tile of its floor within the rings.
LEMMA FreeSpawn ==
    ASSUME NEW t, NEW origin \in Position, NEW id, NEW to, to = FreeSpawnNear(t, origin, id)
    PROVE  \/ to = origin
           \/ /\ to \in Position /\ IsWalkable(t, to) /\ ~ Occupied(to, id)
              /\ to[3] = origin[3]
              /\ Abs(to[1] - origin[1]) <= Rings /\ Abs(to[2] - origin[2]) <= Rings
<1> DEFINE free == UNION {FreeOn(t, Ring(origin, r), id) : r \in 0..Rings}
           ring(q) == Greater(Abs(q[1] - origin[1]), Abs(q[2] - origin[2]))
           before(a, b) == \/ ring(a) < ring(b)
                           \/ ring(a) = ring(b) /\ a[2] < b[2]
                           \/ ring(a) = ring(b) /\ a[2] = b[2] /\ a[1] <= b[1]
<1>0. origin[1] \in Nat /\ origin[2] \in Nat
  BY TerrainAssumption DEF Position
<1>1. ASSUME NEW q \in free
      PROVE  /\ q \in Position /\ IsWalkable(t, q) /\ ~ Occupied(q, id)
             /\ q[3] = origin[3]
             /\ Abs(q[1] - origin[1]) <= Rings /\ Abs(q[2] - origin[2]) <= Rings
  <2>1. PICK r \in 0..Rings : q \in FreeOn(t, Ring(origin, r), id)
    OBVIOUS
  <2>2. q \in Ring(origin, r) /\ IsWalkable(t, q) /\ ~ Occupied(q, id)
    BY <2>1 DEF FreeOn
  <2>3. PICK dx \in (-r)..r, dy \in (-r)..r : q = Offset(origin, dx, dy) /\ q # Nowhere
    BY <2>2 DEF Ring
  <2>4. q = <<origin[1] + dx, origin[2] + dy, origin[3]>> /\ q \in Position
    BY <2>3 DEF Offset, ToPosition
  <2>5. q[1] = origin[1] + dx /\ q[2] = origin[2] + dy /\ q[3] = origin[3]
    BY <2>4
  <2>6. r \in Int /\ r <= Rings /\ Rings \in Nat
    BY ChunksAssumption
  <2> QED BY <2>2, <2>4, <2>5, <2>6, <1>0 DEF Abs
<1>2. ASSUME free # {} PROVE \E a \in free : \A b \in free : before(a, b)
  <2> DEFINE rings == [q \in free |-> ring(q)]
  <2>1. rings \in [free -> Nat]
    <3>1. ASSUME NEW q \in free PROVE ring(q) \in Nat
      <4>1. q[1] \in Nat /\ q[2] \in Nat
        BY <1>1, TerrainAssumption DEF Position
      <4> QED BY <4>1, <1>0 DEF Greater, Abs
    <3> QED BY <3>1
  <2>2. free \subseteq Position
    BY <1>1
  <2>3. \A q \in free : rings[q] = ring(q)
    OBVIOUS
  <2> HIDE DEF free, rings, ring
  <2>4. \E a \in free : \A b \in free :
              \/ rings[a] < rings[b]
              \/ rings[a] = rings[b] /\ a[2] < b[2]
              \/ rings[a] = rings[b] /\ a[2] = b[2] /\ a[1] <= b[1]
    BY <1>2, <2>1, <2>2, FirstTile
  <2> QED BY <2>3, <2>4
<1>3. to = IF free = {} THEN origin ELSE CHOOSE a \in free : \A b \in free : before(a, b)
  BY DEF FreeSpawnNear
<1> HIDE DEF free, before
<1>4. to = origin \/ to \in free
  BY <1>2, <1>3
<1> QED BY <1>1, <1>4

(***************************************************************************)
(* The invariant.                                                          *)
(***************************************************************************)
Low == {p \in Position : p[3] <= Deep}

CInv ==
    /\ StoreOK(store)
    /\ at \in [Players -> Low \cup {Nowhere}]
    /\ home \in [Players -> Low]
    /\ den \in [Monsters -> Position]
    /\ Surrounded

LEMMA NowhereApart == Nowhere \notin Position /\ Nowhere \notin Low
BY DEF Nowhere, Position, Low

\* Every tile of the map has a floor of the game.
LEMMA GroundLow ==
    ASSUME NEW t, t.ground = World.ground, NEW q, HasGround(t, q) PROVE q \in Low
BY ChunksAssumption DEF HasGround, Tiles, Low

LEMMA DeltaShort == \A dir \in Direction : Delta[dir][1] \in -1..1 /\ Delta[dir][2] \in -1..1
BY DEF Delta, Direction

\* When one player gets to a place whose chunks are known, and none of the others moves,
\* the invariant stays.
LEMMA PlacedWell ==
    ASSUME CInv, NEW p \in Players, NEW to \in Low,
           StoreOK(store'), Grown(store, store'), ChunksAround(to) \subseteq Told(store'),
           at' = [at EXCEPT ![p] = to], home' \in [Players -> Low], UNCHANGED den
    PROVE  CInv'
<1>1. at' \in [Players -> Low \cup {Nowhere}] /\ den' \in [Monsters -> Position]
  BY DEF CInv
<1>2. ASSUME NEW q \in Players, at'[q] # Nowhere PROVE ChunksAround(at'[q]) \subseteq Told(store')
  <2>1. CASE q = p
    <3>1. at'[q] = to
      BY <2>1 DEF CInv
    <3> QED BY <3>1
  <2>2. CASE q # p
    <3>1. at'[q] = at[q]
      BY <2>2 DEF CInv
    <3>2. ChunksAround(at[q]) \subseteq Told(store)
      BY <1>2, <3>1 DEF CInv, Surrounded, Online, Told
    <3>3. Told(store) \subseteq Told(store')
      BY DEF Grown, Told
    <3> QED BY <3>1, <3>2, <3>3
  <2> QED BY <2>1, <2>2
<1> QED BY <1>1, <1>2 DEF CInv, Surrounded, Online, Told

\* The same when no player moves and what is known of places in use stays known.
LEMMA StaidWell ==
    ASSUME CInv, StoreOK(store'), UNCHANGED <<at, home>>, den' \in [Monsters -> Position],
           \A p \in Online : ChunksAround(at[p]) \subseteq Told(store')
    PROVE  CInv'
BY DEF CInv, Surrounded, Online, Told

LEMMA InitWell == Init => CInv
<1> SUFFICES ASSUME Init PROVE CInv
  OBVIOUS
<1>1. StoreOK(store)
  BY DEF Init, StoreOK
<1>2. Spawn \in Low /\ Dens \in [Monsters -> Position]
  BY ChunksAssumption DEF Low
<1>3. Surrounded
  BY DEF Init, Surrounded, Online
<1> QED BY <1>1, <1>2, <1>3 DEF Init, CInv

LEMMA LoginWell ==
    ASSUME CInv, NEW p \in Players, NEW failing, Login(p, failing)
    PROVE  CInv' /\ Grown(store, store')
<1> DEFINE to == FreeSpawnNear(Map(store), home[p], p)
<1>1. /\ store' = EnsureLoaded(store, ChunksAround(to), failing)
      /\ at' = [at EXCEPT ![p] = to] /\ home' = [home EXCEPT ![p] = Spawn] /\ UNCHANGED den
  BY DEF Login
<1>2. home[p] \in Low /\ home[p] \in Position /\ Spawn \in Low
  BY ChunksAssumption DEF CInv, Low
<1>3. to \in Low
  <2>1. to = home[p] \/ (to \in Position /\ to[3] = home[p][3])
    BY <1>2, FreeSpawn
  <2> QED BY <2>1, <1>2 DEF Low
<1> HIDE DEF to
<1>4. StoreOK(store') /\ Grown(store, store') /\ ChunksAround(to) \subseteq Told(store')
  BY <1>1, LoadedWell DEF CInv
<1>5. home' \in [Players -> Low]
  BY <1>1, <1>2 DEF CInv
<1> QED BY <1>1, <1>3, <1>4, <1>5, PlacedWell

LEMMA LeaveWell ==
    ASSUME CInv, NEW p \in Players, Leave(p)
    PROVE  CInv' /\ Grown(store, store')
<1>1. at[p] # Nowhere /\ at[p] \in Low /\ Spawn \in Low
  BY ChunksAssumption DEF Leave, CInv, Low
<1>2. at' = [at EXCEPT ![p] = Nowhere] /\ UNCHANGED <<store, den>>
  BY DEF Leave
<1>3. home' \in [Players -> Low]
  BY <1>1 DEF Leave, CInv
<1>4. Surrounded'
  BY <1>2 DEF CInv, Surrounded, Online
<1> QED BY <1>2, <1>3, <1>4 DEF CInv, Grown

\* A step of a player: the map ahead, where it leads, and whether it may.
Raw(p, dir) == Offset(at[p], Delta[dir][1], Delta[dir][2])
Ahead(p, dir, failing) ==
    IF Raw(p, dir) = Nowhere THEN store
    ELSE EnsureLoaded(store, ChunksAround(Raw(p, dir)), failing)
Land(t, p, dir) == ResolveVertical(t, at[p], Raw(p, dir), Diagonal(dir))
Allowed(t, p, dir) == Raw(p, dir) # Nowhere /\ Standable(t, p, at[p], Land(t, p, dir))

LEMMA MoveIs ==
    ASSUME NEW p, NEW dir, NEW failing, Move(p, dir, failing),
           NEW ahead, ahead = Ahead(p, dir, failing), NEW land, land = Land(Map(ahead), p, dir)
    PROVE  /\ at[p] # Nowhere
           /\ \/ ~ Allowed(Map(ahead), p, dir) /\ store' = ahead /\ UNCHANGED at
              \/ /\ Allowed(Map(ahead), p, dir)
                 /\ store' = EnsureLoaded(ahead, ChunksAround(land), failing)
                 /\ at' = [at EXCEPT ![p] = land]
           /\ reply' = [who |-> p, dir |-> dir,
                        to |-> IF Allowed(Map(ahead), p, dir) THEN land ELSE Nowhere]
           /\ UNCHANGED <<home, den>>
BY DEF Move, Ahead, Land, Allowed, Raw

\* The tile ahead of a step and the one under way are next to each other.
LEMMA RawNear ==
    ASSUME NEW p, NEW dir \in Direction, at[p] \in Low, Raw(p, dir) # Nowhere
    PROVE  /\ Raw(p, dir) \in Low /\ at[p][3] = Raw(p, dir)[3]
           /\ at[p][1] - Raw(p, dir)[1] \in -1..1 /\ at[p][2] - Raw(p, dir)[2] \in -1..1
<1> DEFINE dx == Delta[dir][1]
           dy == Delta[dir][2]
           raw == Raw(p, dir)
<1>1. dx \in -1..1 /\ dy \in -1..1
  BY DeltaShort
<1>2. at[p][1] \in Nat /\ at[p][2] \in Nat
  BY TerrainAssumption DEF Low, Position
<1>3. raw = <<at[p][1] + dx, at[p][2] + dy, at[p][3]>> /\ raw \in Position
  BY DEF Raw, Offset, ToPosition
<1> HIDE DEF dx, dy, raw
<1>4. raw[1] = at[p][1] + dx /\ raw[2] = at[p][2] + dy /\ raw[3] = at[p][3]
  BY <1>3
<1>5. raw \in Low /\ at[p][3] = raw[3] /\ at[p][1] - raw[1] \in -1..1 /\ at[p][2] - raw[2] \in -1..1
  BY <1>1, <1>2, <1>3, <1>4 DEF Low
<1> QED BY <1>5 DEF raw

LEMMA AheadWell ==
    ASSUME CInv, NEW p, NEW dir, NEW failing, NEW ahead, ahead = Ahead(p, dir, failing)
    PROVE  /\ StoreOK(ahead) /\ Grown(store, ahead)
           /\ Raw(p, dir) # Nowhere => ChunksAround(Raw(p, dir)) \subseteq Told(ahead)
<1>1. CASE Raw(p, dir) = Nowhere
  BY <1>1 DEF Ahead, CInv, Grown
<1>2. CASE Raw(p, dir) # Nowhere
  <2>1. ahead = EnsureLoaded(store, ChunksAround(Raw(p, dir)), failing)
    BY <1>2 DEF Ahead
  <2> QED BY <2>1, LoadedWell DEF CInv
<1> QED BY <1>1, <1>2

LEMMA MoveWell ==
    ASSUME CInv, NEW p \in Players, NEW dir, NEW failing, Move(p, dir, failing)
    PROVE  CInv' /\ Grown(Ahead(p, dir, failing), store') /\ Grown(store, store')
<1> DEFINE ahead == Ahead(p, dir, failing)
           land == Land(Map(ahead), p, dir)
<1>1. StoreOK(ahead) /\ Grown(store, ahead)
  BY AheadWell
<1>2. /\ \/ ~ Allowed(Map(ahead), p, dir) /\ store' = ahead /\ UNCHANGED at
         \/ /\ Allowed(Map(ahead), p, dir)
            /\ store' = EnsureLoaded(ahead, ChunksAround(land), failing)
            /\ at' = [at EXCEPT ![p] = land]
      /\ UNCHANGED <<home, den>>
  BY MoveIs
<1>3. Allowed(Map(ahead), p, dir) => HasGround(Map(ahead), land)
  BY DEF Allowed, Standable, IsWalkable, HasGround
<1>4. Map(ahead).ground = World.ground
  BY HavingFields DEF Map, Having
<1> HIDE DEF ahead, land
<1>5. CASE ~ Allowed(Map(ahead), p, dir) /\ store' = ahead /\ UNCHANGED at
  <2>1. \A q \in Online : ChunksAround(at[q]) \subseteq Told(store')
    BY <1>1, <1>5 DEF CInv, Surrounded, Told, Grown
  <2>2. den' \in [Monsters -> Position]
    BY <1>2 DEF CInv
  <2>3. CInv'
    BY <1>1, <1>2, <1>5, <2>1, <2>2, StaidWell
  <2> QED BY <1>1, <1>5, <2>3 DEF Grown, ahead
<1>6. CASE /\ Allowed(Map(ahead), p, dir)
           /\ store' = EnsureLoaded(ahead, ChunksAround(land), failing)
           /\ at' = [at EXCEPT ![p] = land]
  <2>1. StoreOK(store') /\ Grown(ahead, store') /\ ChunksAround(land) \subseteq Told(store')
    BY <1>1, <1>6, LoadedWell
  <2>2. Grown(store, store')
    BY <1>1, <2>1, GrownFurther
  <2>3. land \in Low
    BY <1>3, <1>4, <1>6, GroundLow
  <2>4. home' \in [Players -> Low] /\ UNCHANGED den
    BY <1>2 DEF CInv
  <2>5. CInv'
    BY <1>6, <2>1, <2>2, <2>3, <2>4, PlacedWell
  <2> QED BY <2>1, <2>2, <2>5 DEF ahead
<1> QED BY <1>2, <1>5, <1>6

LEMMA TeleportWell ==
    ASSUME CInv, NEW p \in Players, NEW to \in Low, NEW failing, Teleport(p, to, failing)
    PROVE  CInv' /\ Grown(store, store')
<1>1. /\ store' = EnsureLoaded(store, ChunksAround(to), failing)
      /\ at' = [at EXCEPT ![p] = to] /\ UNCHANGED <<home, den>>
  BY DEF Teleport
<1>2. StoreOK(store') /\ Grown(store, store') /\ ChunksAround(to) \subseteq Told(store')
  BY <1>1, LoadedWell DEF CInv
<1>3. home' \in [Players -> Low]
  BY <1>1 DEF CInv
<1> QED BY <1>1, <1>2, <1>3, PlacedWell

LEMMA GotoTileWell ==
    ASSUME CInv, NEW p \in Players, NEW to \in Targets, NEW failing, GotoTile(p, to, failing)
    PROVE  CInv' /\ Grown(store, store')
<1>1. Map(store).ground = World.ground
  BY HavingFields DEF Map, Having
<1>2. to \in Low
  BY <1>1, GroundLow DEF GotoTile
<1> QED BY <1>2, TeleportWell DEF GotoTile

LEMMA GotoSomeoneWell ==
    ASSUME CInv, NEW p \in Players, NEW failing, GotoSomeone(p, failing)
    PROVE  CInv' /\ Grown(store, store')
<1>1. PICK to \in {Spawn} \cup {at[q] : q \in Online \ {p}} : Teleport(p, to, failing)
  BY DEF GotoSomeone
<1>2. to \in Low
  BY <1>1, ChunksAssumption DEF Online, CInv, Low
<1> QED BY <1>1, <1>2, TeleportWell

LEMMA MoveMonsterWell ==
    ASSUME CInv, NEW m \in Monsters, NEW dir, MoveMonster(m, dir)
    PROVE  CInv' /\ Grown(store, store')
<1> DEFINE to == Offset(den[m], Delta[dir][1], Delta[dir][2])
<1>1. to # Nowhere /\ den' = [den EXCEPT ![m] = to] /\ UNCHANGED <<store, at, home>>
  BY DEF MoveMonster
<1>2. to \in Position
  BY <1>1 DEF Offset, ToPosition
<1> HIDE DEF to
<1>3. den' \in [Monsters -> Position]
  BY <1>1, <1>2 DEF CInv
<1>4. StoreOK(store') /\ \A p \in Online : ChunksAround(at[p]) \subseteq Told(store')
  BY <1>1 DEF CInv, Surrounded, Told
<1> QED BY <1>1, <1>3, <1>4, StaidWell DEF Grown

LEMMA PathSearchWell ==
    ASSUME CInv, NEW from, NEW p, NEW failing, PathSearch(from, p, failing)
    PROVE  CInv' /\ Grown(store, store')
<1>1. store' = EnsureLoaded(store, EdgeChunks(p, Edge), failing) /\ UNCHANGED <<at, home, den>>
  BY DEF PathSearch
<1>2. StoreOK(store') /\ Grown(store, store')
  BY <1>1, LoadedWell DEF CInv
<1>3. \A q \in Online : ChunksAround(at[q]) \subseteq Told(store')
  BY <1>2 DEF CInv, Surrounded, Told, Grown
<1>4. den' \in [Monsters -> Position]
  BY <1>1 DEF CInv
<1> QED BY <1>1, <1>2, <1>3, <1>4, StaidWell

LEMMA SweepWell ==
    ASSUME CInv, SweepChunks
    PROVE  CInv' /\ store'.missing = store.missing
<1> DEFINE required == UNION {ChunksAround(at[p]) : p \in Online}
                       \cup UNION {ChunkNeighbors(den[m]) : m \in Monsters}
<1>1. store' = Swept(store, required) /\ UNCHANGED <<at, home, den>>
  BY DEF SweepChunks
<1>2. \A p \in Online : ChunksAround(at[p]) \subseteq required
  OBVIOUS
<1> HIDE DEF required
<1>3. /\ StoreOK(store') /\ store'.missing = store.missing
      /\ \A ids : ids \subseteq required /\ ids \subseteq Told(store) => ids \subseteq Told(store')
  BY <1>1, SweptWell DEF CInv
<1>4. \A p \in Online : ChunksAround(at[p]) \subseteq Told(store)
  BY DEF CInv, Surrounded, Told
<1>5. \A p \in Online : ChunksAround(at[p]) \subseteq Told(store')
  BY <1>2, <1>3, <1>4
<1>6. den' \in [Monsters -> Position]
  BY <1>1 DEF CInv
<1> QED BY <1>1, <1>3, <1>5, <1>6, StaidWell

LEMMA NextWell == CInv /\ [Next]_vars => CInv'
<1> SUFFICES ASSUME CInv, [Next]_vars PROVE CInv'
  OBVIOUS
<1>1. CASE SweepChunks
  BY <1>1, SweepWell
<1>2. ASSUME NEW p \in Players, Leave(p) PROVE CInv'
  BY <1>2, LeaveWell
<1>3. ASSUME NEW m \in Monsters, NEW dir \in Direction, MoveMonster(m, dir) PROVE CInv'
  BY <1>3, MoveMonsterWell
<1>4. ASSUME NEW failing, NEW p \in Players, Login(p, failing) PROVE CInv'
  BY <1>4, LoginWell
<1>5. ASSUME NEW failing, NEW p \in Players, NEW dir \in Direction, Move(p, dir, failing)
      PROVE  CInv'
  BY <1>5, MoveWell
<1>6. ASSUME NEW failing, NEW p \in Players, NEW to \in Targets, GotoTile(p, to, failing)
      PROVE  CInv'
  BY <1>6, GotoTileWell
<1>7. ASSUME NEW failing, NEW p \in Players, GotoSomeone(p, failing) PROVE CInv'
  BY <1>7, GotoSomeoneWell
<1>8. ASSUME NEW failing, NEW from, NEW p, PathSearch(from, p, failing) PROVE CInv'
  BY <1>8, PathSearchWell
<1>9. CASE UNCHANGED vars
  BY <1>9 DEF vars, CInv, Surrounded, Online
<1> QED BY <1>1, <1>2, <1>3, <1>4, <1>5, <1>6, <1>7, <1>8, <1>9 DEF Next

LEMMA Always == Spec => []CInv
<1>1. Init => CInv
  BY InitWell
<1>2. CInv /\ [Next]_vars => CInv'
  BY NextWell
<1> QED BY <1>1, <1>2, PTL DEF Spec

\* Chunks in memory have a file and none is both held and missed; creatures and saved
\* places are on positions of the map (EnsureLoaded, and every step and jump).
THEOREM TypeCorrect == Spec => []TypeOK
<1>1. CInv => TypeOK
  BY DEF CInv, StoreOK, TypeOK, Low
<1> QED BY <1>1, Always, PTL

\* The server knows every chunk around every player, whatever was loaded, swept or missed
\* before (ensure_loaded before each placement, the sweep's required set).
THEOREM SurroundedAlways == Spec => []Surrounded
<1>1. CInv => Surrounded
  BY DEF CInv
<1> QED BY <1>1, Always, PTL

(***************************************************************************)
(* What a client is drawn.                                                 *)
(***************************************************************************)
Place == Int \X Int \X Int

\* The tiles of a map description: floors z - q[3] above are drawn that much aside.
LEMMA InMap ==
    ASSUME NEW x \in Int, NEW y \in Int, NEW z \in Int, NEW w \in Int, NEW h \in Int
    PROVE  /\ MapDescription(x, y, z, w, h) \subseteq Place
           /\ \A q \in Place :
                q \in MapDescription(x, y, z, w, h) <=>
                    /\ q[3] \in FloorRange(z)
                    /\ x <= q[1] - (z - q[3]) /\ q[1] - (z - q[3]) < x + w
                    /\ y <= q[2] - (z - q[3]) /\ q[2] - (z - q[3]) < y + h
<1> DEFINE M == MapDescription(x, y, z, w, h)
           In(q) == /\ q[3] \in FloorRange(z)
                    /\ x <= q[1] - (z - q[3]) /\ q[1] - (z - q[3]) < x + w
                    /\ y <= q[2] - (z - q[3]) /\ q[2] - (z - q[3]) < y + h
<1>1. FloorRange(z) \subseteq Int
  BY TerrainAssumption DEF FloorRange, Lesser
<1>2. ASSUME NEW q \in M PROVE q \in Place /\ In(q)
  <2>1. PICK f \in FloorRange(z) : q \in FloorDescription(x, y, f, z - f, w, h)
    BY DEF MapDescription
  <2>2. PICK i \in 0..(w - 1), j \in 0..(h - 1) : q = <<x + i + (z - f), y + j + (z - f), f>>
    BY <2>1 DEF FloorDescription
  <2>3. q[1] = x + i + (z - f) /\ q[2] = y + j + (z - f) /\ q[3] = f /\ f \in Int
    BY <1>1, <2>2
  <2>4. q \in Place
    BY <2>2, <2>3 DEF Place
  <2> QED BY <2>3, <2>4
<1>3. ASSUME NEW q \in Place, In(q) PROVE q \in M
  <2> DEFINE f == q[3]
             i == q[1] - (z - f) - x
             j == q[2] - (z - f) - y
  <2>1. q = <<q[1], q[2], q[3]>> /\ q[1] \in Int /\ q[2] \in Int /\ q[3] \in Int
    BY DEF Place
  <2>2. i \in 0..(w - 1) /\ j \in 0..(h - 1) /\ f \in FloorRange(z)
    BY <1>3, <2>1
  <2>3. q[1] = x + i + (z - f) /\ q[2] = y + j + (z - f)
    BY <2>1
  <2> HIDE DEF i, j
  <2>4. q = <<x + i + (z - f), y + j + (z - f), f>>
    BY <2>1, <2>3
  <2>5. q \in FloorDescription(x, y, f, z - f, w, h)
    BY <2>2, <2>4 DEF FloorDescription
  <2> QED BY <2>2, <2>5 DEF MapDescription
<1> QED BY <1>2, <1>3

\* A floor that is revealed is revealed as far as the screen goes.
LEMMA InRevealed ==
    ASSUME NEW c \in Place, NEW floors, NEW q \in Place, <<q[3], c[3] - q[3]>> \in floors,
           c[1] - ViewX <= q[1] - (c[3] - q[3]), q[1] - (c[3] - q[3]) < c[1] - ViewX + Width,
           c[2] - ViewY <= q[2] - (c[3] - q[3]), q[2] - (c[3] - q[3]) < c[2] - ViewY + Height
    PROVE  q \in Revealed(c, floors)
<1> DEFINE d == c[3] - q[3]
           i == q[1] - d - (c[1] - ViewX)
           j == q[2] - d - (c[2] - ViewY)
<1>1. /\ q = <<q[1], q[2], q[3]>> /\ q[1] \in Int /\ q[2] \in Int /\ q[3] \in Int
      /\ c[1] \in Int /\ c[2] \in Int /\ c[3] \in Int /\ ViewX \in Int /\ ViewY \in Int
      /\ Width \in Int /\ Height \in Int
  BY ViewportAssumption DEF Place, Width, Height
<1>2. i \in 0..(Width - 1) /\ j \in 0..(Height - 1)
  BY <1>1
<1>3. q[1] = c[1] - ViewX + i + d /\ q[2] = c[2] - ViewY + j + d
  BY <1>1
<1> HIDE DEF i, j
<1>4. q = <<c[1] - ViewX + i + d, c[2] - ViewY + j + d, q[3]>>
  BY <1>1, <1>3
<1>5. q \in FloorDescription(c[1] - ViewX, c[2] - ViewY, q[3], d, Width, Height)
  BY <1>2, <1>4 DEF FloorDescription
<1>6. PICK f \in floors : f = <<q[3], d>>
  OBVIOUS
<1>7. f[1] = q[3] /\ f[2] = d
  BY <1>6
<1> QED BY <1>5, <1>7 DEF Revealed

LEMMA InScreen ==
    ASSUME NEW c \in Place
    PROVE  /\ Screen(c) \subseteq Place
           /\ \A q \in Place :
                q \in Screen(c) <=>
                    /\ q[3] \in FloorRange(c[3])
                    /\ c[1] - ViewX <= q[1] - (c[3] - q[3])
                    /\ q[1] - (c[3] - q[3]) < c[1] - ViewX + Width
                    /\ c[2] - ViewY <= q[2] - (c[3] - q[3])
                    /\ q[2] - (c[3] - q[3]) < c[2] - ViewY + Height
<1>1. PICK x, y, z : x = c[1] - ViewX /\ y = c[2] - ViewY /\ z = c[3]
  OBVIOUS
<1>2. x \in Int /\ y \in Int /\ z \in Int /\ Width \in Int /\ Height \in Int
  BY <1>1, ViewportAssumption DEF Place, Width, Height
<1>3. Screen(c) = MapDescription(x, y, z, Width, Height)
  BY <1>1 DEF Screen
<1>4. /\ MapDescription(x, y, z, Width, Height) \subseteq Place
      /\ \A q \in Place :
           q \in MapDescription(x, y, z, Width, Height) <=>
               /\ q[3] \in FloorRange(z)
               /\ x <= q[1] - (z - q[3]) /\ q[1] - (z - q[3]) < x + Width
               /\ y <= q[2] - (z - q[3]) /\ q[2] - (z - q[3]) < y + Height
  BY <1>2, InMap
<1> QED BY <1>1, <1>3, <1>4, Zenon

\* The floor a player stands on has been reached from a floor of the game.
Floor == 0..Deep
Sideward == {"north", "south", "east", "west"}
Upright == {"up", "down"}

LEMMA RangeIs ==
    ASSUME NEW z \in Int, NEW f \in Int
    PROVE  f \in FloorRange(z) <=>
              \/ z > Surface /\ z - 2 <= f /\ f <= z + 2 /\ f <= Deep
              \/ z <= Surface /\ 0 <= f /\ f <= Surface
<1>1. Surface \in Int /\ Deep \in Int
  BY TerrainAssumption
<1>2. CASE z > Surface
  <2>1. FloorRange(z) = (z - 2) .. Lesser(z + 2, Deep)
    BY <1>2 DEF FloorRange
  <2> QED BY <1>1, <1>2, <2>1 DEF Lesser
<1>3. CASE ~ z > Surface
  <2>1. FloorRange(z) = 0..Surface
    BY <1>3 DEF FloorRange
  <2> QED BY <1>1, <1>3, <2>1
<1> QED BY <1>2, <1>3

\* A floor of the new screen was on the old one or is revealed by the change of floors.
LEMMA RangeUp ==
    ASSUME NEW o \in Floor, NEW n \in Floor, n = o - 1, NEW f \in Int, f \in FloorRange(n)
    PROVE  f \in FloorRange(o) \/ <<f, o - f>> \in FloorsUp(o, n)
<1>1. o \in Int /\ n \in Int /\ n >= 0 /\ Surface \in Nat /\ Deep \in Nat
  BY TerrainAssumption DEF Floor
<1>2. \/ n > Surface /\ n - 2 <= f /\ f <= n + 2 /\ f <= Deep
      \/ n <= Surface /\ 0 <= f /\ f <= Surface
  BY <1>1, RangeIs
<1>3. ASSUME o > Surface /\ o - 2 <= f /\ f <= o + 2 /\ f <= Deep PROVE f \in FloorRange(o)
  BY <1>1, <1>3, RangeIs
<1>4. ASSUME o <= Surface /\ 0 <= f /\ f <= Surface PROVE f \in FloorRange(o)
  BY <1>1, <1>4, RangeIs
<1>5. CASE n > Surface
  <2>1. CASE f = o - 3
    <3>1. FloorsUp(o, n) = {<<o - 3, 3>>}
      BY <1>1, <1>5 DEF FloorsUp
    <3>2. o - f = 3
      BY <1>1, <2>1
    <3> QED BY <2>1, <3>1, <3>2
  <2>2. CASE f # o - 3
    BY <1>1, <1>2, <1>3, <1>5, <2>2
  <2> QED BY <2>1, <2>2
<1>6. CASE n = Surface
  <2>1. CASE f <= Surface - 2
    <3>1. FloorsUp(o, n) = {<<g, Surface + 1 - g>> : g \in 0..(Surface - 2)}
      BY <1>6 DEF FloorsUp
    <3>2. o - f = Surface + 1 - f
      BY <1>1, <1>6
    <3>3. f \in 0..(Surface - 2)
      BY <1>1, <1>2, <1>6, <2>1
    <3> QED BY <3>1, <3>2, <3>3
  <2>2. CASE ~ f <= Surface - 2
    <3>1. o > Surface /\ o - 2 <= f /\ f <= o + 2 /\ f <= Deep
      BY <1>1, <1>2, <1>6, <2>2, TerrainAssumption
    <3> QED BY <1>3, <3>1
  <2> QED BY <2>1, <2>2
<1>7. CASE n < Surface
  BY <1>1, <1>2, <1>4, <1>7
<1> QED BY <1>1, <1>5, <1>6, <1>7

LEMMA RangeDown ==
    ASSUME NEW o \in Floor, NEW n \in Floor, n = o + 1, NEW f \in Int, f \in FloorRange(n)
    PROVE  f \in FloorRange(o) \/ <<f, o - f>> \in FloorsDown(o, n)
<1>1. o \in Int /\ n \in Int /\ o >= 0 /\ Surface \in Nat \ {0} /\ Deep \in Nat
  BY TerrainAssumption, ViewportAssumption DEF Floor
<1>2. \/ n > Surface /\ n - 2 <= f /\ f <= n + 2 /\ f <= Deep
      \/ n <= Surface /\ 0 <= f /\ f <= Surface
  BY <1>1, RangeIs
<1>3. ASSUME o > Surface /\ o - 2 <= f /\ f <= o + 2 /\ f <= Deep PROVE f \in FloorRange(o)
  BY <1>1, <1>3, RangeIs
<1>4. ASSUME o <= Surface /\ 0 <= f /\ f <= Surface PROVE f \in FloorRange(o)
  BY <1>1, <1>4, RangeIs
<1>5. CASE n > Surface + 1
  <2>1. CASE f = n + 2
    <3>1. n > o /\ n < Deep - 1 /\ n # Surface + 1
      BY <1>1, <1>2, <1>5, <2>1
    <3>2. FloorsDown(o, n) = {<<n + 2, -3>>}
      BY <1>5, <3>1 DEF FloorsDown
    <3>3. o - f = -3
      BY <1>1, <2>1
    <3> QED BY <2>1, <3>2, <3>3
  <2>2. CASE f # n + 2
    BY <1>1, <1>2, <1>3, <1>5, <2>2
  <2> QED BY <2>1, <2>2
<1>6. CASE n = Surface + 1
  <2>1. CASE f >= n
    <3>1. FloorsDown(o, n) = {<<n + i, -i - 1>> : i \in 0..2}
      BY <1>6 DEF FloorsDown
    <3>2. PICK i : i = f - n
      OBVIOUS
    <3>3. i \in 0..2 /\ f = n + i /\ o - f = -i - 1
      BY <1>1, <1>2, <1>6, <2>1, <3>2
    <3> QED BY <3>1, <3>3
  <2>2. CASE ~ f >= n
    BY <1>1, <1>2, <1>4, <1>6, <2>2
  <2> QED BY <2>1, <2>2
<1>7. CASE n <= Surface
  BY <1>1, <1>2, <1>4, <1>7
<1> QED BY <1>1, <1>5, <1>6, <1>7

\* Whatever a block brings onto the screen, it shows.
LEMMA ScreenGrows ==
    ASSUME NEW c \in Place, NEW op \in Sideward \cup Upright, NEW n, n = Recentred(c, op),
           c[3] \in Floor, n[3] \in Floor
    PROVE  n \in Place /\ Screen(n) \subseteq Screen(c) \cup Shown(c, op)
<1>1. /\ c[1] \in Int /\ c[2] \in Int /\ c[3] \in Int
      /\ ViewX \in Nat \ {0} /\ ViewY \in Nat \ {0}
      /\ Surface \in Nat /\ Deep \in Nat /\ Surface + 3 < Deep
      /\ Width = 2 * ViewX + 2 /\ Height = 2 * ViewY + 2
  BY ViewportAssumption, TerrainAssumption DEF Place, Width, Height
<1>2. n \in Place
  BY <1>1 DEF Recentred, Place, Sideward, Upright
<1>3. ASSUME NEW q \in Screen(n) PROVE q \in Screen(c) \cup Shown(c, op)
  <2>1. /\ q \in Place /\ q[1] \in Int /\ q[2] \in Int /\ q[3] \in Int
        /\ q[3] \in FloorRange(n[3])
        /\ n[1] - ViewX <= q[1] - (n[3] - q[3])
        /\ q[1] - (n[3] - q[3]) < n[1] - ViewX + Width
        /\ n[2] - ViewY <= q[2] - (n[3] - q[3])
        /\ q[2] - (n[3] - q[3]) < n[2] - ViewY + Height
    <3>1. q \in Place
      BY <1>2, InScreen
    <3> QED BY <1>2, <3>1, InScreen DEF Place
  <2>2. CASE op = "north"
    <3>1. n[1] = c[1] /\ n[2] = c[2] - 1 /\ n[3] = c[3]
      BY <2>2 DEF Recentred
    <3>2. PICK x, y, z : x = n[1] - ViewX /\ y = n[2] - ViewY /\ z = n[3]
      OBVIOUS
    <3>3. Shown(c, op) = MapDescription(x, y, z, Width, 1)
      BY <3>2, <2>2 DEF Shown
    <3>4. CASE q[2] - (n[3] - q[3]) = n[2] - ViewY
      <4>1. /\ x <= q[1] - (z - q[3]) /\ q[1] - (z - q[3]) < x + Width
            /\ y <= q[2] - (z - q[3]) /\ q[2] - (z - q[3]) < y + 1
        BY <1>1, <2>1, <3>1, <3>2, <3>4
      <4>2. x \in Int /\ y \in Int /\ z \in Int /\ Width \in Int /\ 1 \in Int
        BY <1>1, <3>1, <3>2
      <4>3. q \in MapDescription(x, y, z, Width, 1)
        BY <2>1, <3>2, <4>1, <4>2, InMap
      <4> QED BY <3>3, <4>3
    <3>5. CASE q[2] - (n[3] - q[3]) # n[2] - ViewY
      <4>1. /\ c[1] - ViewX <= q[1] - (c[3] - q[3])
            /\ q[1] - (c[3] - q[3]) < c[1] - ViewX + Width
            /\ c[2] - ViewY <= q[2] - (c[3] - q[3])
            /\ q[2] - (c[3] - q[3]) < c[2] - ViewY + Height
        BY <1>1, <2>1, <3>1, <3>5, Z3
      <4> QED BY <2>1, <3>1, <4>1, InScreen
    <3> QED BY <3>4, <3>5
  <2>3. CASE op = "south"
    <3>1. n[1] = c[1] /\ n[2] = c[2] + 1 /\ n[3] = c[3]
      BY <2>3 DEF Recentred
    <3>2. PICK x, y, z : x = n[1] - ViewX /\ y = n[2] + ViewY + 1 /\ z = n[3]
      OBVIOUS
    <3>3. Shown(c, op) = MapDescription(x, y, z, Width, 1)
      BY <3>2, <2>3 DEF Shown
    <3>4. CASE q[2] - (n[3] - q[3]) = n[2] + ViewY + 1
      <4>1. /\ x <= q[1] - (z - q[3]) /\ q[1] - (z - q[3]) < x + Width
            /\ y <= q[2] - (z - q[3]) /\ q[2] - (z - q[3]) < y + 1
        BY <1>1, <2>1, <3>1, <3>2, <3>4
      <4>2. x \in Int /\ y \in Int /\ z \in Int /\ Width \in Int /\ 1 \in Int
        BY <1>1, <3>1, <3>2
      <4>3. q \in MapDescription(x, y, z, Width, 1)
        BY <2>1, <3>2, <4>1, <4>2, InMap
      <4> QED BY <3>3, <4>3
    <3>5. CASE q[2] - (n[3] - q[3]) # n[2] + ViewY + 1
      <4>1. /\ c[1] - ViewX <= q[1] - (c[3] - q[3])
            /\ q[1] - (c[3] - q[3]) < c[1] - ViewX + Width
            /\ c[2] - ViewY <= q[2] - (c[3] - q[3])
            /\ q[2] - (c[3] - q[3]) < c[2] - ViewY + Height
        BY <1>1, <2>1, <3>1, <3>5
      <4> QED BY <2>1, <3>1, <4>1, InScreen
    <3> QED BY <3>4, <3>5
  <2>4. CASE op = "east"
    <3>1. n[1] = c[1] + 1 /\ n[2] = c[2] /\ n[3] = c[3]
      BY <2>4 DEF Recentred
    <3>2. PICK x, y, z : x = n[1] + ViewX + 1 /\ y = n[2] - ViewY /\ z = n[3]
      OBVIOUS
    <3>3. Shown(c, op) = MapDescription(x, y, z, 1, Height)
      BY <3>2, <2>4 DEF Shown
    <3>4. CASE q[1] - (n[3] - q[3]) = n[1] + ViewX + 1
      <4>1. /\ x <= q[1] - (z - q[3]) /\ q[1] - (z - q[3]) < x + 1
            /\ y <= q[2] - (z - q[3]) /\ q[2] - (z - q[3]) < y + Height
        BY <1>1, <2>1, <3>1, <3>2, <3>4
      <4>2. x \in Int /\ y \in Int /\ z \in Int /\ 1 \in Int /\ Height \in Int
        BY <1>1, <3>1, <3>2
      <4>3. q \in MapDescription(x, y, z, 1, Height)
        BY <2>1, <3>2, <4>1, <4>2, InMap
      <4> QED BY <3>3, <4>3
    <3>5. CASE q[1] - (n[3] - q[3]) # n[1] + ViewX + 1
      <4>1. /\ c[1] - ViewX <= q[1] - (c[3] - q[3])
            /\ q[1] - (c[3] - q[3]) < c[1] - ViewX + Width
            /\ c[2] - ViewY <= q[2] - (c[3] - q[3])
            /\ q[2] - (c[3] - q[3]) < c[2] - ViewY + Height
        BY <1>1, <2>1, <3>1, <3>5
      <4> QED BY <2>1, <3>1, <4>1, InScreen
    <3> QED BY <3>4, <3>5
  <2>5. CASE op = "west"
    <3>1. n[1] = c[1] - 1 /\ n[2] = c[2] /\ n[3] = c[3]
      BY <2>5 DEF Recentred
    <3>2. PICK x, y, z : x = n[1] - ViewX /\ y = n[2] - ViewY /\ z = n[3]
      OBVIOUS
    <3>3. Shown(c, op) = MapDescription(x, y, z, 1, Height)
      BY <3>2, <2>5 DEF Shown
    <3>4. CASE q[1] - (n[3] - q[3]) = n[1] - ViewX
      <4>1. /\ x <= q[1] - (z - q[3]) /\ q[1] - (z - q[3]) < x + 1
            /\ y <= q[2] - (z - q[3]) /\ q[2] - (z - q[3]) < y + Height
        BY <1>1, <2>1, <3>1, <3>2, <3>4
      <4>2. x \in Int /\ y \in Int /\ z \in Int /\ 1 \in Int /\ Height \in Int
        BY <1>1, <3>1, <3>2
      <4>3. q \in MapDescription(x, y, z, 1, Height)
        BY <2>1, <3>2, <4>1, <4>2, InMap
      <4> QED BY <3>3, <4>3
    <3>5. CASE q[1] - (n[3] - q[3]) # n[1] - ViewX
      <4>1. /\ c[1] - ViewX <= q[1] - (c[3] - q[3])
            /\ q[1] - (c[3] - q[3]) < c[1] - ViewX + Width
            /\ c[2] - ViewY <= q[2] - (c[3] - q[3])
            /\ q[2] - (c[3] - q[3]) < c[2] - ViewY + Height
        BY <1>1, <2>1, <3>1, <3>5
      <4> QED BY <2>1, <3>1, <4>1, InScreen
    <3> QED BY <3>4, <3>5
  <2>6. CASE op = "up"
    <3>1. n[1] = c[1] + 1 /\ n[2] = c[2] + 1 /\ n[3] = c[3] - 1
      BY <2>6 DEF Recentred
    <3>2. Shown(c, op) = Revealed(c, FloorsUp(c[3], n[3]))
      BY <2>6 DEF Shown
    <3>3. /\ c[1] - ViewX <= q[1] - (c[3] - q[3])
          /\ q[1] - (c[3] - q[3]) < c[1] - ViewX + Width
          /\ c[2] - ViewY <= q[2] - (c[3] - q[3])
          /\ q[2] - (c[3] - q[3]) < c[2] - ViewY + Height
      BY <1>1, <2>1, <3>1
    <3>4. q[3] \in FloorRange(c[3]) \/ <<q[3], c[3] - q[3]>> \in FloorsUp(c[3], n[3])
      BY <1>1, <2>1, <3>1, RangeUp
    <3>5. CASE q[3] \in FloorRange(c[3])
      BY <2>1, <3>3, <3>5, InScreen
    <3>6. CASE <<q[3], c[3] - q[3]>> \in FloorsUp(c[3], n[3])
      BY <2>1, <3>2, <3>3, <3>6, InRevealed
    <3> QED BY <3>4, <3>5, <3>6
  <2>7. CASE op = "down"
    <3>1. n[1] = c[1] - 1 /\ n[2] = c[2] - 1 /\ n[3] = c[3] + 1
      BY <2>7 DEF Recentred
    <3>2. Shown(c, op) = Revealed(c, FloorsDown(c[3], n[3]))
      BY <2>7 DEF Shown
    <3>3. /\ c[1] - ViewX <= q[1] - (c[3] - q[3])
          /\ q[1] - (c[3] - q[3]) < c[1] - ViewX + Width
          /\ c[2] - ViewY <= q[2] - (c[3] - q[3])
          /\ q[2] - (c[3] - q[3]) < c[2] - ViewY + Height
      BY <1>1, <2>1, <3>1
    <3>4. q[3] \in FloorRange(c[3]) \/ <<q[3], c[3] - q[3]>> \in FloorsDown(c[3], n[3])
      BY <1>1, <2>1, <3>1, RangeDown
    <3>5. CASE q[3] \in FloorRange(c[3])
      BY <2>1, <3>3, <3>5, InScreen
    <3>6. CASE <<q[3], c[3] - q[3]>> \in FloorsDown(c[3], n[3])
      BY <2>1, <3>2, <3>3, <3>6, InRevealed
    <3> QED BY <3>4, <3>5, <3>6
  <2> QED BY <2>2, <2>3, <2>4, <2>5, <2>6, <2>7 DEF Sideward, Upright
<1> QED BY <1>2, <1>3

\* What the server told of a tile with the chunks of known is so; there is nothing to
\* tell outside the map.
Sure(known, q) == q \in Position => ChunkOf(q) \in known

\* The client has its centre at c and lacks no tile of its screen that was told.
Drawn(cl, c, known) ==
    /\ cl.at = c
    /\ cl.right \subseteq Screen(c)
    /\ \A q \in Screen(c) : Sure(known, q) => q \in cl.right

\* A block the client takes for what the server sampled keeps the screen drawn.
LEMMA BlockDrawn ==
    ASSUME NEW cl, NEW c \in Place, NEW known, Drawn(cl, c, known), c[3] \in Floor,
           NEW op \in Sideward \cup Upright, NEW block, block = Block(op, Shown(c, op)),
           NEW n, n = Recentred(c, op), n[3] \in Floor
    PROVE  n \in Place /\ Drawn(Receive(cl, block, known), n, known)
<1>1. block.op = op /\ block.op # "map" /\ block.cells = Shown(c, op) /\ cl.at = c
  BY DEF Block, Drawn, Sideward, Upright
<1> DEFINE told == {p \in Shown(c, op) : p \in Position => ChunkOf(p) \in known}
<1>2. Receive(cl, block, known)
        = [at |-> n, right |-> ((cl.right \ Shown(c, op)) \cup told) \cap Screen(n)]
  BY <1>1 DEF Receive
<1>3. n \in Place /\ Screen(n) \subseteq Screen(c) \cup Shown(c, op)
  BY ScreenGrows
<1> QED BY <1>2, <1>3 DEF Drawn, Sure

\* A whole map draws the screen, whatever was on it.
LEMMA MapDrawn ==
    ASSUME NEW cl, NEW c, NEW known
    PROVE  Drawn(Receive(cl, FullMap(c), known), c, known)
<1>1. FullMap(c).op = "map" /\ FullMap(c).at = c /\ FullMap(c).cells = Screen(c)
  BY DEF FullMap, Screen
<1> DEFINE told == {p \in Screen(c) : p \in Position => ChunkOf(p) \in known}
<1>2. Receive(cl, FullMap(c), known)
        = [at |-> c, right |-> ((cl.right \ Screen(c)) \cup told) \cap Screen(c)]
  BY <1>1 DEF Receive
<1> QED BY <1>2 DEF Drawn, Sure

\* No packet has more than five blocks: three of a change of floors, a row and a column.
LEMMA BlockByBlock ==
    ASSUME NEW cl, NEW packet, NEW known, Len(packet) \in 0..5
    PROVE  \E after :
              /\ after[0] = cl
              /\ \A i \in 1..Len(packet) : after[i] = Receive(after[i - 1], packet[i], known)
              /\ ReceiveAll(cl, packet, known) = after[Len(packet)]
<1>0. PICK N : N = Len(packet)
  OBVIOUS
<1> DEFINE Then(f) == [i \in 0..N |-> IF i = 0 THEN cl ELSE Receive(f[i - 1], packet[i], known)]
           one == Receive(cl, packet[1], known)
           two == Receive(one, packet[2], known)
           three == Receive(two, packet[3], known)
           four == Receive(three, packet[4], known)
           five == Receive(four, packet[5], known)
           g == [i \in 0..N |-> IF i = 0 THEN cl ELSE IF i = 1 THEN one ELSE IF i = 2 THEN two
                                ELSE IF i = 3 THEN three ELSE IF i = 4 THEN four ELSE five]
<1>1. g = Then(g)
  <2>1. ASSUME NEW i \in 0..N
        PROVE  g[i] = IF i = 0 THEN cl ELSE Receive(g[i - 1], packet[i], known)
    <3>0. N \in 0..5
      BY <1>0
    <3>1. i \in {0, 1, 2, 3, 4, 5}
      BY <3>0
    <3>2. i # 0 => i - 1 \in 0..N
      BY <3>0
    <3> HIDE DEF one, two, three, four, five
    <3>3. i # 0 => g[i - 1] = IF i - 1 = 0 THEN cl ELSE IF i - 1 = 1 THEN one
                              ELSE IF i - 1 = 2 THEN two ELSE IF i - 1 = 3 THEN three
                              ELSE IF i - 1 = 4 THEN four ELSE five
      BY <3>2
    <3>4. CASE i = 0
      BY <3>4
    <3>5. CASE i = 1
      BY <3>3, <3>5 DEF one
    <3>6. CASE i = 2
      BY <3>3, <3>6 DEF two
    <3>7. CASE i = 3
      BY <3>3, <3>7 DEF three
    <3>8. CASE i = 4
      BY <3>3, <3>8 DEF four
    <3>9. CASE i = 5
      BY <3>3, <3>9 DEF five
    <3> QED BY <3>1, <3>4, <3>5, <3>6, <3>7, <3>8, <3>9
  <2> HIDE DEF one, two, three, four, five
  <2> QED BY <2>1
<1> HIDE DEF g
<1> DEFINE f == CHOOSE h : h = Then(h)
<1>2. f = Then(f)
  BY <1>1
<1>3. ReceiveAll(cl, packet, known) = f[N]
  BY <1>0 DEF ReceiveAll
<1> HIDE DEF f
<1>4. \A i \in 0..N : f[i] = IF i = 0 THEN cl ELSE Receive(f[i - 1], packet[i], known)
  BY <1>2
<1>5. N \in Nat
  BY <1>0
<1>6. f[0] = cl /\ \A i \in 1..N : f[i] = Receive(f[i - 1], packet[i], known)
  BY <1>4, <1>5
<1> QED BY <1>0, <1>3, <1>6

\* Where a client puts a block, from its centre.
LEMMA ShownIs ==
    ASSUME NEW c, NEW x, NEW y, NEW z, x = c[1], y = c[2], z = c[3]
    PROVE  /\ Recentred(c, "north") = <<x, y - 1, z>>
           /\ Recentred(c, "south") = <<x, y + 1, z>>
           /\ Recentred(c, "east") = <<x + 1, y, z>>
           /\ Recentred(c, "west") = <<x - 1, y, z>>
           /\ Recentred(c, "up") = <<x + 1, y + 1, z - 1>>
           /\ Recentred(c, "down") = <<x - 1, y - 1, z + 1>>
           /\ Shown(c, "north") = MapDescription(x - ViewX, (y - 1) - ViewY, z, Width, 1)
           /\ Shown(c, "south") = MapDescription(x - ViewX, (y + 1) + ViewY + 1, z, Width, 1)
           /\ Shown(c, "east") = MapDescription((x + 1) + ViewX + 1, y - ViewY, z, 1, Height)
           /\ Shown(c, "west") = MapDescription((x - 1) - ViewX, y - ViewY, z, 1, Height)
           /\ Shown(c, "up") = Revealed(c, FloorsUp(z, z - 1))
           /\ Shown(c, "down") = Revealed(c, FloorsDown(z, z + 1))
<1>1. /\ Recentred(c, "north") = <<x, y - 1, z>>
      /\ Recentred(c, "south") = <<x, y + 1, z>>
      /\ Recentred(c, "east") = <<x + 1, y, z>>
      /\ Recentred(c, "west") = <<x - 1, y, z>>
      /\ Recentred(c, "up") = <<x + 1, y + 1, z - 1>>
      /\ Recentred(c, "down") = <<x - 1, y - 1, z + 1>>
  BY DEF Recentred
<1>2. Shown(c, "north") = MapDescription(x - ViewX, (y - 1) - ViewY, z, Width, 1)
  BY <1>1 DEF Shown
<1>3. Shown(c, "south") = MapDescription(x - ViewX, (y + 1) + ViewY + 1, z, Width, 1)
  BY <1>1 DEF Shown
<1>4. Shown(c, "east") = MapDescription((x + 1) + ViewX + 1, y - ViewY, z, 1, Height)
  BY <1>1 DEF Shown
<1>5. Shown(c, "west") = MapDescription((x - 1) - ViewX, y - ViewY, z, 1, Height)
  BY <1>1 DEF Shown
<1>6. Shown(c, "up") = Revealed(c, FloorsUp(z, z - 1))
  BY <1>1 DEF Shown
<1>7. Shown(c, "down") = Revealed(c, FloorsDown(z, z + 1))
  BY <1>1 DEF Shown
<1> QED BY <1>1, <1>2, <1>3, <1>4, <1>5, <1>6, <1>7

\* The floors of a step, told to a client that is drawn from where it starts: it is
\* then drawn from the same column on the new floor.
LEMMA FloorsDrawn ==
    ASSUME NEW x \in Int, NEW y \in Int, NEW z \in Floor, NEW old, old = <<x, y, z>>,
           NEW new, new[3] \in Floor, new[3] - z \in -1..1,
           NEW known, NEW after, Drawn(after[0], old, known),
           LET F == FloorBlocks(old, new)
           IN  \A i \in 1..Len(F) : after[i] = Receive(after[i - 1], F[i], known)
    PROVE  LET F == FloorBlocks(old, new)
           IN  Len(F) \in {0, 3} /\ Drawn(after[Len(F)], <<x, y, new[3]>>, known)
<1>1. /\ old[1] = x /\ old[2] = y /\ old[3] = z /\ z \in Int /\ new[3] \in Int
      /\ ViewX \in Int /\ ViewY \in Int
  BY ViewportAssumption, TerrainAssumption DEF Floor
<1>2. CASE new[3] = z
  <2>1. FloorBlocks(old, new) = << >>
    BY <1>1, <1>2 DEF FloorBlocks
  <2> QED BY <1>2, <2>1
<1>3. CASE new[3] = z - 1
  <2>1. FloorBlocks(old, new) = MoveUpBlock(old, new)
    BY <1>1, <1>3 DEF FloorBlocks
  <2> DEFINE F == FloorBlocks(old, new)
  <2>2. PICK a, b, c : /\ a = Block("up", Revealed(old, FloorsUp(z, new[3])))
                       /\ b = Column("west", x - ViewX, y - (ViewY - 1), new[3])
                       /\ c = Row("north", x - ViewX, y - ViewY, new[3])
    OBVIOUS
  <2>3. F = <<a, b, c>>
    BY <1>1, <2>1, <2>2 DEF MoveUpBlock
  <2>4. Len(F) = 3 /\ F[1] = a /\ F[2] = b /\ F[3] = c
    BY <2>3
  <2> HIDE DEF F
  <2>5. /\ after[1] = Receive(after[0], a, known)
        /\ after[2] = Receive(after[1], b, known)
        /\ after[3] = Receive(after[2], c, known)
    <3>1. \A i \in 1..3 : after[i] = Receive(after[i - 1], F[i], known)
      BY <2>4 DEF F
    <3>2. after[1] = Receive(after[1 - 1], a, known)
      BY <2>4, <3>1
    <3>3. after[2] = Receive(after[2 - 1], b, known)
      BY <2>4, <3>1
    <3>4. after[3] = Receive(after[3 - 1], c, known)
      BY <2>4, <3>1
    <3> QED BY <3>2, <3>3, <3>4
  <2>6. PICK m, n, o : /\ m = <<x + 1, y + 1, new[3]>> /\ n = <<x, y + 1, new[3]>>
                       /\ o = <<x, y, new[3]>>
    OBVIOUS
  <2>0. m[3] = new[3] /\ n[3] = new[3] /\ m[1] = x + 1 /\ m[2] = y + 1 /\ n[1] = x /\ n[2] = y + 1
    BY <2>6
  <2>7. old \in Place /\ m \in Place /\ n \in Place /\ old[3] \in Floor
        /\ m[3] \in Floor /\ n[3] \in Floor /\ o[3] \in Floor
    BY <1>1, <2>6 DEF Place
  <2>8. Recentred(old, "up") = m /\ Recentred(m, "west") = n /\ Recentred(n, "north") = o
    <3>1. Recentred(old, "up") = <<x + 1, y + 1, z - 1>>
      BY <1>1, ShownIs
    <3>2. Recentred(m, "west") = <<(x + 1) - 1, y + 1, new[3]>>
      BY <2>0, ShownIs
    <3>3. Recentred(n, "north") = <<x, (y + 1) - 1, new[3]>>
      BY <2>0, ShownIs
    <3>4. (x + 1) - 1 = x /\ (y + 1) - 1 = y
      OBVIOUS
    <3> QED BY <1>3, <2>6, <3>1, <3>2, <3>3, <3>4
  <2>9. /\ a = Block("up", Shown(old, "up"))
        /\ b = Block("west", Shown(m, "west"))
        /\ c = Block("north", Shown(n, "north"))
    <3>1. Shown(old, "up") = Revealed(old, FloorsUp(z, z - 1))
      BY <1>1, ShownIs
    <3>2. Shown(m, "west") = MapDescription(((x + 1) - 1) - ViewX, (y + 1) - ViewY, new[3], 1, Height)
      BY <2>0, ShownIs
    <3>3. Shown(n, "north") = MapDescription(x - ViewX, ((y + 1) - 1) - ViewY, new[3], Width, 1)
      BY <2>0, ShownIs
    <3>4. ((x + 1) - 1) - ViewX = x - ViewX /\ (y + 1) - ViewY = y - (ViewY - 1)
          /\ ((y + 1) - 1) - ViewY = y - ViewY
      BY <1>1
    <3> QED BY <1>3, <2>2, <3>1, <3>2, <3>3, <3>4 DEF Column, Row
  <2>10. Drawn(after[1], m, known)
    BY <2>5, <2>7, <2>8, <2>9, BlockDrawn DEF Upright
  <2>11. Drawn(after[2], n, known)
    BY <2>5, <2>7, <2>8, <2>9, <2>10, BlockDrawn DEF Sideward
  <2>12. Drawn(after[3], o, known)
    BY <2>5, <2>7, <2>8, <2>9, <2>11, BlockDrawn DEF Sideward
  <2> QED BY <2>4, <2>6, <2>12 DEF F
<1>4. CASE new[3] = z + 1
  <2>1. FloorBlocks(old, new) = MoveDownBlock(old, new)
    BY <1>1, <1>4 DEF FloorBlocks
  <2> DEFINE F == FloorBlocks(old, new)
  <2>2. PICK a, b, c : /\ a = Block("down", Revealed(old, FloorsDown(z, new[3])))
                       /\ b = Column("east", x + ViewX + 1, y - (ViewY + 1), new[3])
                       /\ c = Row("south", x - ViewX, y + ViewY + 1, new[3])
    OBVIOUS
  <2>3. F = <<a, b, c>>
    BY <1>1, <2>1, <2>2 DEF MoveDownBlock
  <2>4. Len(F) = 3 /\ F[1] = a /\ F[2] = b /\ F[3] = c
    BY <2>3
  <2> HIDE DEF F
  <2>5. /\ after[1] = Receive(after[0], a, known)
        /\ after[2] = Receive(after[1], b, known)
        /\ after[3] = Receive(after[2], c, known)
    <3>1. \A i \in 1..3 : after[i] = Receive(after[i - 1], F[i], known)
      BY <2>4 DEF F
    <3>2. after[1] = Receive(after[1 - 1], a, known)
      BY <2>4, <3>1
    <3>3. after[2] = Receive(after[2 - 1], b, known)
      BY <2>4, <3>1
    <3>4. after[3] = Receive(after[3 - 1], c, known)
      BY <2>4, <3>1
    <3> QED BY <3>2, <3>3, <3>4
  <2>6. PICK m, n, o : /\ m = <<x - 1, y - 1, new[3]>> /\ n = <<x, y - 1, new[3]>>
                       /\ o = <<x, y, new[3]>>
    OBVIOUS
  <2>0. m[3] = new[3] /\ n[3] = new[3] /\ m[1] = x - 1 /\ m[2] = y - 1 /\ n[1] = x /\ n[2] = y - 1
    BY <2>6
  <2>7. old \in Place /\ m \in Place /\ n \in Place /\ old[3] \in Floor
        /\ m[3] \in Floor /\ n[3] \in Floor /\ o[3] \in Floor
    BY <1>1, <2>6 DEF Place
  <2>8. Recentred(old, "down") = m /\ Recentred(m, "east") = n /\ Recentred(n, "south") = o
    <3>1. Recentred(old, "down") = <<x - 1, y - 1, z + 1>>
      BY <1>1, ShownIs
    <3>2. Recentred(m, "east") = <<(x - 1) + 1, y - 1, new[3]>>
      BY <2>0, ShownIs
    <3>3. Recentred(n, "south") = <<x, (y - 1) + 1, new[3]>>
      BY <2>0, ShownIs, SMTT(30)
    <3>4. (x - 1) + 1 = x /\ (y - 1) + 1 = y
      OBVIOUS
    <3> QED BY <1>4, <2>6, <3>1, <3>2, <3>3, <3>4
  <2>9. /\ a = Block("down", Shown(old, "down"))
        /\ b = Block("east", Shown(m, "east"))
        /\ c = Block("south", Shown(n, "south"))
    <3>1. Shown(old, "down") = Revealed(old, FloorsDown(z, z + 1))
      BY <1>1, ShownIs, SMTT(30)
    <3>2. Shown(m, "east")
            = MapDescription(((x - 1) + 1) + ViewX + 1, (y - 1) - ViewY, new[3], 1, Height)
      BY <2>0, ShownIs
    <3>3. Shown(n, "south")
            = MapDescription(x - ViewX, ((y - 1) + 1) + ViewY + 1, new[3], Width, 1)
      BY <2>0, ShownIs, SMTT(30)
    <3>4. /\ ((x - 1) + 1) + ViewX + 1 = x + ViewX + 1 /\ (y - 1) - ViewY = y - (ViewY + 1)
          /\ ((y - 1) + 1) + ViewY + 1 = y + ViewY + 1
      BY <1>1
    <3> QED BY <1>4, <2>2, <3>1, <3>2, <3>3, <3>4 DEF Column, Row
  <2>10. Drawn(after[1], m, known)
    BY <2>5, <2>7, <2>8, <2>9, BlockDrawn DEF Upright
  <2>11. Drawn(after[2], n, known)
    BY <2>5, <2>7, <2>8, <2>9, <2>10, BlockDrawn DEF Sideward
  <2>12. Drawn(after[3], o, known)
    BY <2>5, <2>7, <2>8, <2>9, <2>11, BlockDrawn DEF Sideward
  <2> QED BY <2>4, <2>6, <2>12 DEF F
<1> QED BY <1>1, <1>2, <1>3, <1>4

LEMMA RowDrawn ==
    ASSUME NEW old \in Place, NEW new, new[2] - old[2] \in -1..1, new[2] \in Int, new[3] \in Floor,
           NEW known, NEW cl, Drawn(cl, <<old[1], old[2], new[3]>>, known)
    PROVE  LET r == RowSlice(old, new)
           IN  \/ r = << >> /\ Drawn(cl, <<old[1], new[2], new[3]>>, known)
               \/ /\ r # << >>
                  /\ Drawn(Receive(cl, r[1], known), <<old[1], new[2], new[3]>>, known)
<1>0. old[1] \in Int /\ old[2] \in Int /\ ViewX \in Int /\ ViewY \in Int /\ new[3] \in Int
  BY ViewportAssumption, TerrainAssumption DEF Place, Floor
<1>1. PICK c, n : c = <<old[1], old[2], new[3]>> /\ n = <<old[1], new[2], new[3]>>
  OBVIOUS
<1>2. /\ c[1] = old[1] /\ c[2] = old[2] /\ c[3] = new[3] /\ c \in Place /\ c[3] \in Floor
      /\ n[3] \in Floor
  BY <1>0, <1>1 DEF Place
<1>3. CASE new[2] = old[2]
  <2>1. RowSlice(old, new) = << >>
    BY <1>0, <1>3 DEF RowSlice
  <2> QED BY <1>3, <2>1
<1>4. CASE new[2] = old[2] - 1
  <2>1. PICK b : b = Row("north", old[1] - ViewX, new[2] - ViewY, new[3])
    OBVIOUS
  <2>0. old[2] > new[2]
    BY <1>0, <1>4
  <2>2. RowSlice(old, new) = <<b>>
    BY <2>0, <2>1, Zenon DEF RowSlice
  <2>3. Shown(c, "north") = MapDescription(old[1] - ViewX, (old[2] - 1) - ViewY, new[3], Width, 1)
        /\ Recentred(c, "north") = <<old[1], old[2] - 1, new[3]>>
    BY <1>2, ShownIs
  <2>4. b = Block("north", Shown(c, "north")) /\ Recentred(c, "north") = n
    BY <1>1, <1>4, <2>1, <2>3 DEF Row
  <2>5. Drawn(Receive(cl, b, known), n, known)
    BY <1>1, <1>2, <2>4, BlockDrawn DEF Sideward
  <2> QED BY <1>1, <2>2, <2>5
<1>5. CASE new[2] = old[2] + 1
  <2>1. PICK b : b = Row("south", old[1] - ViewX, new[2] + ViewY + 1, new[3])
    OBVIOUS
  <2>0. old[2] < new[2] /\ ~ (old[2] > new[2])
    BY <1>0, <1>5
  <2>2. RowSlice(old, new) = <<b>>
    BY <2>0, <2>1, Zenon DEF RowSlice
  <2>3. Shown(c, "south")
          = MapDescription(old[1] - ViewX, (old[2] + 1) + ViewY + 1, new[3], Width, 1)
        /\ Recentred(c, "south") = <<old[1], old[2] + 1, new[3]>>
    BY <1>2, ShownIs
  <2>4. b = Block("south", Shown(c, "south")) /\ Recentred(c, "south") = n
    BY <1>1, <1>5, <2>1, <2>3 DEF Row
  <2>5. Drawn(Receive(cl, b, known), n, known)
    BY <1>1, <1>2, <2>4, BlockDrawn DEF Sideward
  <2> QED BY <1>1, <2>2, <2>5
<1> QED BY <1>0, <1>3, <1>4, <1>5

LEMMA ColumnDrawn ==
    ASSUME NEW old \in Place, NEW new \in Place, new[1] - old[1] \in -1..1, new[3] \in Floor,
           NEW known, NEW cl, Drawn(cl, <<old[1], new[2], new[3]>>, known)
    PROVE  LET r == ColumnSlice(old, new)
           IN  \/ r = << >> /\ Drawn(cl, new, known)
               \/ r # << >> /\ Drawn(Receive(cl, r[1], known), new, known)
<1>0. /\ old[1] \in Int /\ ViewX \in Int /\ ViewY \in Int
      /\ new[1] \in Int /\ new[2] \in Int /\ new[3] \in Int /\ new = <<new[1], new[2], new[3]>>
  BY ViewportAssumption DEF Place
<1>1. PICK c : c = <<old[1], new[2], new[3]>>
  OBVIOUS
<1>2. c[1] = old[1] /\ c[2] = new[2] /\ c[3] = new[3] /\ c \in Place /\ c[3] \in Floor
  BY <1>0, <1>1 DEF Place
<1>3. CASE new[1] = old[1]
  <2>1. ColumnSlice(old, new) = << >>
    BY <1>0, <1>3 DEF ColumnSlice
  <2> QED BY <1>0, <1>3, <2>1
<1>4. CASE new[1] = old[1] + 1
  <2>0. old[1] < new[1]
    BY <1>0, <1>4
  <2>1. PICK b : b = Column("east", new[1] + ViewX + 1, new[2] - ViewY, new[3])
    OBVIOUS
  <2>2. ColumnSlice(old, new) = <<b>>
    BY <2>0, <2>1, Zenon DEF ColumnSlice
  <2>3. Shown(c, "east")
          = MapDescription((old[1] + 1) + ViewX + 1, new[2] - ViewY, new[3], 1, Height)
        /\ Recentred(c, "east") = <<old[1] + 1, new[2], new[3]>>
    BY <1>2, ShownIs
  <2>4. b = Block("east", Shown(c, "east")) /\ Recentred(c, "east") = new
    BY <1>0, <1>4, <2>1, <2>3 DEF Column
  <2>5. Drawn(Receive(cl, b, known), new, known)
    BY <1>1, <1>2, <2>4, BlockDrawn DEF Sideward
  <2> QED BY <2>2, <2>5
<1>5. CASE new[1] = old[1] - 1
  <2>1. PICK b : b = Column("west", new[1] - ViewX, new[2] - ViewY, new[3])
    OBVIOUS
  <2>0. old[1] > new[1] /\ ~ (old[1] < new[1])
    BY <1>0, <1>5
  <2>2. ColumnSlice(old, new) = <<b>>
    BY <2>0, <2>1, Zenon DEF ColumnSlice
  <2>3. Shown(c, "west") = MapDescription((old[1] - 1) - ViewX, new[2] - ViewY, new[3], 1, Height)
        /\ Recentred(c, "west") = <<old[1] - 1, new[2], new[3]>>
    BY <1>2, ShownIs
  <2>4. b = Block("west", Shown(c, "west")) /\ Recentred(c, "west") = new
    BY <1>0, <1>5, <2>1, <2>3 DEF Column
  <2>5. Drawn(Receive(cl, b, known), new, known)
    BY <1>1, <1>2, <2>4, BlockDrawn DEF Sideward
  <2> QED BY <2>2, <2>5
<1> QED BY <1>0, <1>3, <1>4, <1>5

LEMMA FloorBlocksAre ==
    ASSUME NEW old, NEW new
    PROVE  \/ FloorBlocks(old, new) = << >>
           \/ \E a, b, c : FloorBlocks(old, new) = <<a, b, c>>
BY DEF FloorBlocks, MoveUpBlock, MoveDownBlock

\* The blocks of a packet are those of the floors, then a row, then a column.
LEMMA Short ==
    ASSUME NEW S, NEW F,
           F = << >> \/ (\E a \in S : F = <<a>>) \/ (\E a, b, c \in S : F = <<a, b, c>>)
    PROVE  /\ F \in Seq(S) /\ Len(F) \in {0, 1, 3} /\ (F = << >> <=> Len(F) = 0)
           /\ (\E a \in S : F = <<a>>) => Len(F) = 1
           /\ (\E a, b, c \in S : F = <<a, b, c>>) => Len(F) = 3
<1>1. CASE F = << >>
  <2>1. F \in Seq(S) /\ Len(F) = 0
    BY <1>1
  <2> QED BY <1>1, <2>1
<1>2. ASSUME NEW a \in S, F = <<a>> PROVE F \in Seq(S) /\ Len(F) = 1 /\ F # << >>
  BY <1>2
<1>3. ASSUME NEW a \in S, NEW b \in S, NEW c \in S, F = <<a, b, c>>
      PROVE  F \in Seq(S) /\ Len(F) = 3 /\ F # << >>
  BY <1>3
<1> QED BY <1>1, <1>2, <1>3

LEMMA PacketIs ==
    ASSUME NEW F, NEW R, NEW C, NEW p, p = F \o R \o C,
           F = << >> \/ \E a, b, c : F = <<a, b, c>>,
           R = << >> \/ \E a : R = <<a>>,
           C = << >> \/ \E a : C = <<a>>
    PROVE  /\ Len(F) \in {0, 3} /\ Len(R) \in {0, 1} /\ Len(C) \in {0, 1}
           /\ (R = << >> <=> Len(R) = 0) /\ (C = << >> <=> Len(C) = 0)
           /\ Len(p) = Len(F) + Len(R) + Len(C)
           /\ \A i \in 1..Len(F) : p[i] = F[i]
           /\ \A i \in 1..Len(R) : p[Len(F) + i] = R[i]
           /\ \A i \in 1..Len(C) : p[Len(F) + Len(R) + i] = C[i]
<1>1. PICK a, b, c, d, e : /\ F = << >> \/ F = <<a, b, c>>
                           /\ R = << >> \/ R = <<d>>
                           /\ C = << >> \/ C = <<e>>
  OBVIOUS
<1>2. PICK S : S = {a, b, c, d, e}
  OBVIOUS
<1>3. F \in Seq(S) /\ Len(F) \in {0, 3}
  <2>1. F = << >> \/ \E x, y, z \in S : F = <<x, y, z>>
    BY <1>1, <1>2
  <2> QED BY <2>1, Short
<1>4. R \in Seq(S) /\ Len(R) \in {0, 1} /\ (R = << >> <=> Len(R) = 0)
  <2>1. R = << >> \/ \E x \in S : R = <<x>>
    BY <1>1, <1>2
  <2> QED BY <2>1, Short
<1>5. C \in Seq(S) /\ Len(C) \in {0, 1} /\ (C = << >> <=> Len(C) = 0)
  <2>1. C = << >> \/ \E x \in S : C = <<x>>
    BY <1>1, <1>2
  <2> QED BY <2>1, Short
<1>6. PICK G : G = F \o R
  OBVIOUS
<1>7. G \in Seq(S) /\ Len(G) = Len(F) + Len(R)
  BY <1>3, <1>4, <1>6, ConcatProperties
<1>15. \A i \in 1..Len(G) : G[i] = IF i <= Len(F) THEN F[i] ELSE R[i - Len(F)]
  BY <1>3, <1>4, <1>6, <1>7, ConcatProperties
<1>8. p = G \o C
  BY <1>6
<1>9. /\ Len(p) = Len(G) + Len(C)
      /\ \A i \in 1..Len(p) : p[i] = IF i <= Len(G) THEN G[i] ELSE C[i - Len(G)]
  <2>1. G \in Seq(S) /\ C \in Seq(S)
    BY <1>5, <1>7
  <2>2. Len(p) = Len(G) + Len(C)
    BY <2>1, <1>8, ConcatProperties
  <2>3. \A i \in 1..Len(G) + Len(C) : p[i] = IF i <= Len(G) THEN G[i] ELSE C[i - Len(G)]
    BY <2>1, <1>8, ConcatProperties
  <2> QED BY <2>2, <2>3
<1>10. PICK f, r, k : f = Len(F) /\ r = Len(R) /\ k = Len(C)
  OBVIOUS
<1>11. f \in Nat /\ r \in Nat /\ k \in Nat /\ Len(G) = f + r /\ Len(p) = f + r + k
  BY <1>3, <1>4, <1>5, <1>7, <1>9, <1>10
<1>12. ASSUME NEW i \in 1..f PROVE p[i] = F[i]
  <2>1. i \in 1..Len(p) /\ i <= Len(G) /\ i \in 1..Len(G) /\ i <= f
    BY <1>11
  <2> QED BY <2>1, <1>9, <1>10, <1>15
<1>13. ASSUME NEW i \in 1..r PROVE p[f + i] = R[i]
  <2>1. f + i \in 1..Len(p) /\ f + i <= Len(G) /\ f + i \in 1..Len(G) /\ ~ (f + i <= f)
        /\ (f + i) - f = i
    BY <1>11
  <2> QED BY <2>1, <1>9, <1>10, <1>15
<1>14. ASSUME NEW i \in 1..k PROVE p[f + r + i] = C[i]
  <2>1. f + r + i \in 1..Len(p) /\ ~ (f + r + i <= Len(G)) /\ (f + r + i) - Len(G) = i
    BY <1>11
  <2> QED BY <2>1, <1>9, <1>10
<1> QED BY <1>3, <1>4, <1>5, <1>10, <1>11, <1>12, <1>13, <1>14

\* The packet of a step that is told bit by bit leaves nothing of the new screen out.
LEMMA StepDrawn ==
    ASSUME NEW old \in Place, NEW new \in Place, old[3] \in Floor, new[3] \in Floor,
           new[1] - old[1] \in -1..1, new[2] - old[2] \in -1..1, new[3] - old[3] \in -1..1,
           ~ Leaps(old, new), NEW known, NEW cl, Drawn(cl, old, known)
    PROVE  Drawn(ReceiveAll(cl, WalkUpdate(old, new), known), new, known)
<1>1. PICK F, R, C, p : /\ F = FloorBlocks(old, new) /\ R = RowSlice(old, new)
                        /\ C = ColumnSlice(old, new) /\ p = F \o R \o C
  OBVIOUS
<1>2. WalkUpdate(old, new) = p
  BY <1>1 DEF WalkUpdate
<1>3. PICK x, y, z : x = old[1] /\ y = old[2] /\ z = old[3]
  OBVIOUS
<1>4. /\ x \in Int /\ y \in Int /\ z \in Floor /\ old = <<x, y, z>>
      /\ new[1] \in Int /\ new[2] \in Int /\ new[3] \in Int
  BY <1>3 DEF Place
<1>5. (R = << >> \/ \E a : R = <<a>>) /\ (C = << >> \/ \E a : C = <<a>>)
  BY <1>1 DEF RowSlice, ColumnSlice
<1>6. F = << >> \/ \E a, b, c : F = <<a, b, c>>
  BY <1>1, FloorBlocksAre
<1>7. /\ Len(F) \in {0, 3} /\ Len(R) \in {0, 1} /\ Len(C) \in {0, 1}
      /\ (R = << >> <=> Len(R) = 0) /\ (C = << >> <=> Len(C) = 0)
      /\ Len(p) = Len(F) + Len(R) + Len(C)
      /\ \A i \in 1..Len(F) : p[i] = F[i]
      /\ \A i \in 1..Len(R) : p[Len(F) + i] = R[i]
      /\ \A i \in 1..Len(C) : p[Len(F) + Len(R) + i] = C[i]
  BY <1>1, <1>5, <1>6, PacketIs
<1>8. Len(p) \in 0..5
  <2>1. PICK f, r, k : f = Len(F) /\ r = Len(R) /\ k = Len(C)
    OBVIOUS
  <2>2. f \in {0, 3} /\ r \in {0, 1} /\ k \in {0, 1} /\ Len(p) = f + r + k
    BY <1>7, <2>1
  <2> QED BY <2>2
<1>9. PICK after : /\ after[0] = cl
                   /\ \A i \in 1..Len(p) : after[i] = Receive(after[i - 1], p[i], known)
                   /\ ReceiveAll(cl, p, known) = after[Len(p)]
  BY <1>8, BlockByBlock, SMTT(30)
<1>10. PICK f, r, k : f = Len(F) /\ r = Len(R) /\ k = Len(C)
  OBVIOUS
<1>11. f \in {0, 3} /\ r \in {0, 1} /\ k \in {0, 1} /\ Len(p) = f + r + k
  BY <1>7, <1>10
<1>12. \A i \in 1..f : after[i] = Receive(after[i - 1], F[i], known)
  BY <1>7, <1>9, <1>10, <1>11
<1>13. Drawn(after[f], <<x, y, new[3]>>, known)
  <2>1. \A i \in 1..Len(F) : after[i] = Receive(after[i - 1], F[i], known)
    BY <1>10, <1>12
  <2>2. Drawn(after[0], old, known) /\ new[3] - z \in -1..1
    BY <1>3, <1>9
  <2>3. Len(F) \in {0, 3} /\ Drawn(after[Len(F)], <<x, y, new[3]>>, known)
    BY <1>1, <1>4, <2>1, <2>2, FloorsDrawn, ZenonT(30)
  <2> QED BY <1>10, <2>3
<1>14. Drawn(after[f + r], <<x, new[2], new[3]>>, known)
  <2>1. \/ R = << >> /\ Drawn(after[f], <<x, new[2], new[3]>>, known)
        \/ R # << >> /\ Drawn(Receive(after[f], R[1], known), <<x, new[2], new[3]>>, known)
    BY <1>1, <1>3, <1>4, <1>13, RowDrawn
  <2>2. CASE r = 0
    <3>1. R = << >> /\ f + r = f
      BY <1>7, <1>10, <1>11, <2>2
    <3>2. Drawn(after[f], <<x, new[2], new[3]>>, known)
      BY <2>1, <3>1
    <3> QED BY <3>1, <3>2
  <2>3. CASE r = 1
    <3>1. R # << >>
      BY <1>7, <1>10, <2>3
    <3>2. Drawn(Receive(after[f], R[1], known), <<x, new[2], new[3]>>, known)
      BY <2>1, <3>1
    <3>3. p[f + 1] = R[1] /\ f + 1 \in 1..Len(p) /\ (f + 1) - 1 = f
      BY <1>7, <1>10, <1>11, <2>3
    <3>4. after[f + 1] = Receive(after[f], R[1], known)
      BY <1>9, <3>3
    <3> QED BY <2>3, <3>2, <3>4
  <2> QED BY <1>11, <2>2, <2>3
<1>15. Drawn(after[f + r + k], new, known)
  <2>0. PICK s : s = f + r
    OBVIOUS
  <2>1. \/ C = << >> /\ Drawn(after[s], new, known)
        \/ C # << >> /\ Drawn(Receive(after[s], C[1], known), new, known)
    BY <1>1, <1>3, <1>14, <2>0, ColumnDrawn
  <2>2. CASE k = 0
    <3>1. C = << >> /\ f + r + k = s
      BY <1>7, <1>10, <1>11, <2>0, <2>2
    <3>2. Drawn(after[s], new, known)
      BY <2>1, <3>1
    <3> QED BY <3>1, <3>2
  <2>3. CASE k = 1
    <3>1. C # << >>
      BY <1>7, <1>10, <2>3
    <3>2. Drawn(Receive(after[s], C[1], known), new, known)
      BY <2>1, <3>1
    <3>3. p[s + 1] = C[1] /\ s + 1 \in 1..Len(p) /\ (s + 1) - 1 = s
      BY <1>7, <1>10, <1>11, <2>0, <2>3
    <3>4. after[s + 1] = Receive(after[s], C[1], known)
      BY <1>9, <3>3
    <3> QED BY <2>0, <2>3, <3>2, <3>4
  <2> QED BY <1>11, <2>2, <2>3
<1> QED BY <1>2, <1>9, <1>11, <1>15

(***************************************************************************)
(* Every client is drawn the whole screen.                                 *)
(***************************************************************************)
\* The screen lies in the chunks around its centre.
LEMMA ScreenSure ==
    ASSUME NEW c \in Low, NEW known, ChunksAround(c) \subseteq known, NEW q \in Screen(c)
    PROVE  Sure(known, q)
<1> SUFFICES ASSUME q \in Position PROVE ChunkOf(q) \in ChunksAround(c)
  BY DEF Sure
<1>1. c \in Position /\ c[3] <= Deep
  BY DEF Low
<1>2. /\ c[1] \in Nat /\ c[2] \in Nat /\ c[3] \in Nat /\ q[1] \in Nat /\ q[2] \in Nat /\ q[3] \in Nat
      /\ c \in Place /\ q \in Place
  BY <1>1, TerrainAssumption DEF Position, Place
<1>3. /\ Dim \in Nat /\ Surface \in Nat /\ Deep \in Nat /\ Surface + 3 < Deep
      /\ ViewX \in Nat /\ ViewY \in Nat /\ Width = 2 * ViewX + 2 /\ Height = 2 * ViewY + 2
      /\ ViewX + 1 + Surface <= Dim /\ ViewX + 3 <= Dim
      /\ ViewY + 1 + Surface <= Dim /\ ViewY + 3 <= Dim
  <2>1. Dim \in Nat /\ Surface \in Nat /\ Deep \in Nat /\ Surface + 3 < Deep
        /\ ViewX \in Nat /\ ViewY \in Nat
    BY TerrainAssumption, ViewportAssumption
  <2>2. ViewX + 1 + Greater(Surface, 2) <= Dim /\ ViewY + 1 + Greater(Surface, 2) <= Dim
    BY ChunksAssumption
  <2>3. PICK g : g = Greater(Surface, 2)
    OBVIOUS
  <2>4. g \in Nat /\ Surface <= g /\ 2 <= g
    BY <2>1, <2>3 DEF Greater
  <2>5. ViewX + 1 + g <= Dim /\ ViewY + 1 + g <= Dim
    BY <2>2, <2>3
  <2> QED BY <2>1, <2>4, <2>5 DEF Width, Height
<1>4. /\ q[3] \in FloorRange(c[3])
      /\ c[1] - ViewX <= q[1] - (c[3] - q[3])
      /\ q[1] - (c[3] - q[3]) < c[1] - ViewX + Width
      /\ c[2] - ViewY <= q[2] - (c[3] - q[3])
      /\ q[2] - (c[3] - q[3]) < c[2] - ViewY + Height
  BY <1>2, InScreen
<1>5. \/ c[3] > Surface /\ c[3] - 2 <= q[3] /\ q[3] <= c[3] + 2 /\ q[3] <= Deep
      \/ c[3] <= Surface /\ 0 <= q[3] /\ q[3] <= Surface
  BY <1>2, <1>4, RangeIs
<1>6. q[3] \in FloorSpan(c[3])
  <2>1. CASE c[3] <= Surface
    BY <2>1, <1>2, <1>3, <1>5 DEF FloorSpan, Lesser, Greater
  <2>2. CASE c[3] > Surface
    <3>1. Greater(c[3] - 3, 0) \in Int /\ Greater(c[3] - 3, 0) <= q[3]
      BY <2>2, <1>2, <1>3, <1>5 DEF Greater
    <3>2. Lesser(c[3] + 3, Deep) \in Int /\ q[3] <= Lesser(c[3] + 3, Deep)
      BY <2>2, <1>2, <1>3, <1>5 DEF Lesser
    <3>3. FloorSpan(c[3]) = Greater(c[3] - 3, 0) .. Lesser(c[3] + 3, Deep)
      BY <2>2, <1>2, <1>3 DEF FloorSpan
    <3> QED BY <3>1, <3>2, <3>3, <1>2
  <2> QED BY <2>1, <2>2, <1>2, <1>3
<1>7. PICK d : d = c[3] - q[3]
  OBVIOUS
<1>8. d \in Int /\ ((-Surface <= d /\ d <= Surface) \/ (-2 <= d /\ d <= 2))
  BY <1>2, <1>3, <1>5, <1>7
<1>9. q[1] <= c[1] + Dim /\ c[1] <= q[1] + Dim
  <2>1. c[1] - ViewX <= q[1] - d /\ q[1] - d < c[1] - ViewX + Width
    BY <1>4, <1>7
  <2> QED BY <1>2, <1>3, <1>8, <2>1
<1>10. q[2] <= c[2] + Dim /\ c[2] <= q[2] + Dim
  <2>1. c[2] - ViewY <= q[2] - d /\ q[2] - d < c[2] - ViewY + Height
    BY <1>4, <1>7
  <2> QED BY <1>2, <1>3, <1>8, <2>1
<1> QED BY <1>1, <1>6, <1>9, <1>10, AroundHolds

PInv == client = [p \in Players |-> client[p]] /\ PicturesTrue

\* A player whose client was drawn all that was told where it got to sees it all.
LEMMA PlacedDrawn ==
    ASSUME CInv, CInv', PInv, NEW p \in Players, NEW to \in Low, at' = [at EXCEPT ![p] = to],
           NEW packet, Draw(p, packet),
           Drawn(ReceiveAll(client[p], packet, Told(store')), to, Told(store'))
    PROVE  PInv'
<1>1. PICK shown : shown = ReceiveAll(client[p], packet, Told(store'))
  OBVIOUS
<1>2. client' = [client EXCEPT ![p] = shown]
  BY <1>1 DEF Draw
<1>3. client' = [q \in Players |-> client'[q]]
  BY <1>2 DEF PInv
<1>4. at' \in [Players -> Low \cup {Nowhere}] /\ at'[p] = to /\ \A q \in Players : q # p => at'[q] = at[q]
  BY DEF CInv
<1>5. client'[p] = shown /\ \A q \in Players : q # p => client'[q] = client[q]
  BY <1>2 DEF PInv
<1>6. ChunksAround(to) \subseteq Told(store')
  <2>1. at'[p] # Nowhere
    BY <1>4, NowhereApart
  <2> QED BY <1>4, <2>1 DEF CInv, Surrounded, Online, Told
<1>7. shown.at = to /\ shown.right = Screen(to)
  BY <1>1, <1>6, ScreenSure DEF Drawn
<1>8. PicturesTrue'
  <2>1. ASSUME NEW q \in Players, at'[q] # Nowhere
        PROVE  client'[q].at = at'[q] /\ client'[q].right = Screen(at'[q])
    <3>1. CASE q = p
      BY <1>4, <1>5, <1>7, <3>1
    <3>2. CASE q # p
      BY <1>4, <1>5, <2>1, <3>2 DEF PInv, PicturesTrue, Online
    <3> QED BY <3>1, <3>2
  <2> QED BY <2>1 DEF PicturesTrue, Online, Screen
<1> QED BY <1>3, <1>8 DEF PInv

LEMMA WholeMapDrawn ==
    ASSUME NEW cl, NEW to, NEW known
    PROVE  Drawn(ReceiveAll(cl, <<FullMap(to)>>, known), to, known)
<1>1. PICK packet : packet = <<FullMap(to)>>
  OBVIOUS
<1>2. Len(packet) = 1 /\ packet[1] = FullMap(to)
  BY <1>1
<1>3. PICK after : /\ after[0] = cl
                   /\ \A i \in 1..Len(packet) : after[i] = Receive(after[i - 1], packet[i], known)
                   /\ ReceiveAll(cl, packet, known) = after[Len(packet)]
  BY <1>2, BlockByBlock, SMTT(30)
<1>4. after[1] = Receive(after[1 - 1], packet[1], known)
  BY <1>2, <1>3
<1>5. ReceiveAll(cl, packet, known) = Receive(cl, FullMap(to), known)
  BY <1>2, <1>3, <1>4
<1> QED BY <1>1, <1>5, MapDrawn

\* A step leads to the next tile, or a floor up or down.
LEMMA LandNear ==
    ASSUME CInv, NEW p \in Players, NEW dir \in Direction, NEW s, at[p] # Nowhere,
           NEW land, land = Land(Map(s), p, dir), Raw(p, dir) # Nowhere
    PROVE  /\ land \in Position /\ land[3] - at[p][3] \in -1..1
           /\ land[3] = at[p][3] => land[1] - at[p][1] \in -1..1 /\ land[2] - at[p][2] \in -1..1
<1>1. at[p] \in Low
  BY DEF CInv
<1>2. PICK raw : raw = Raw(p, dir)
  OBVIOUS
<1>3. /\ raw \in Position /\ at[p] \in Position
      /\ at[p][3] = raw[3]
      /\ at[p][1] - raw[1] \in -1..1 /\ at[p][2] - raw[2] \in -1..1
  BY <1>1, <1>2, RawNear DEF Low
<1>4. Map(s) = Having(s.chunks)
  BY DEF Map, Having
<1>5. By(raw, land) /\ (land[3] = raw[3] => land = raw)
  <2>1. \A q : By(raw, q) => Same(Having(s.chunks), Having(s.chunks), q)
    BY DEF Same
  <2> QED BY <1>2, <1>3, <1>4, <2>1, LandingSame DEF Land
<1>6. /\ raw[1] \in Int /\ raw[2] \in Int /\ raw[3] \in Int
      /\ at[p][1] \in Int /\ at[p][2] \in Int /\ at[p][3] \in Int
      /\ land[3] \in Int
  BY <1>3, <1>5, TerrainAssumption DEF Position, By
<1> QED BY <1>3, <1>5, <1>6 DEF By

LEMMA MovePictures ==
    ASSUME CInv, PInv, NEW p \in Players, NEW dir \in Direction, NEW failing, Move(p, dir, failing)
    PROVE  PInv'
<1>1. PICK t, land, from : /\ t = Ahead(p, dir, failing) /\ land = Land(Map(t), p, dir)
                           /\ from = at[p]
  OBVIOUS
<1>2. /\ from # Nowhere
      /\ \/ ~ Allowed(Map(t), p, dir) /\ UNCHANGED <<at, client>>
         \/ /\ Allowed(Map(t), p, dir)
            /\ at' = [at EXCEPT ![p] = land]
            /\ Draw(p, WalkUpdate(from, land))
  BY <1>1 DEF Move, Ahead, Land, Allowed, Raw
<1>3. CASE ~ Allowed(Map(t), p, dir) /\ UNCHANGED <<at, client>>
  BY <1>3 DEF PInv, PicturesTrue, Online
<1>4. CASE /\ Allowed(Map(t), p, dir)
           /\ at' = [at EXCEPT ![p] = land]
           /\ Draw(p, WalkUpdate(from, land))
  <2>1. CInv'
    BY MoveWell
  <2>2. land \in Low
    <3>1. HasGround(Map(t), land)
      BY <1>1, <1>4 DEF Allowed, Standable, IsWalkable, HasGround
    <3>2. Map(t).ground = World.ground
      BY HavingFields DEF Map, Having
    <3> QED BY <3>1, <3>2, GroundLow
  <2>3. from \in Low
    BY <1>1, <1>2 DEF CInv
  <2>4. /\ land[3] - from[3] \in -1..1
        /\ land[3] = from[3] => land[1] - from[1] \in -1..1 /\ land[2] - from[2] \in -1..1
    BY <1>1, <1>2, <1>4, LandNear DEF Allowed
  <2>5. /\ from \in Place /\ land \in Place /\ from[3] \in Floor /\ land[3] \in Floor
        /\ from[1] \in Int /\ from[2] \in Int /\ from[3] \in Int
        /\ land[1] \in Int /\ land[2] \in Int /\ land[3] \in Int
    BY <2>2, <2>3, TerrainAssumption DEF Low, Position, Place, Floor
  <2>6. PICK known : known = Told(store')
    OBVIOUS
  <2>7. Drawn(client[p], from, known)
    BY <1>1, <1>2 DEF PInv, PicturesTrue, Online, Drawn
  <2>8. Drawn(ReceiveAll(client[p], WalkUpdate(from, land), known), land, known)
    <3>1. CASE Leaps(from, land)
      BY <3>1, WholeMapDrawn DEF WalkUpdate
    <3>2. CASE ~ Leaps(from, land)
      <4>1. land[1] - from[1] \in -1..1 /\ land[2] - from[2] \in -1..1
        BY <2>4, <2>5, <3>2 DEF Leaps, Abs
      <4> QED BY <2>4, <2>5, <2>7, <3>2, <4>1, StepDrawn
    <3> QED BY <3>1, <3>2
  <2> QED BY <1>4, <2>1, <2>2, <2>6, <2>8, PlacedDrawn
<1> QED BY <1>2, <1>3, <1>4

LEMMA TeleportPictures ==
    ASSUME CInv, CInv', PInv, NEW p \in Players, NEW to \in Low, NEW failing, Teleport(p, to, failing)
    PROVE  PInv'
<1>1. at' = [at EXCEPT ![p] = to] /\ Draw(p, <<FullMap(to)>>)
  BY DEF Teleport
<1> QED BY <1>1, WholeMapDrawn, PlacedDrawn

LEMMA LoginPictures ==
    ASSUME CInv, PInv, NEW p \in Players, NEW failing, Login(p, failing)
    PROVE  PInv'
<1>1. PICK to : to = FreeSpawnNear(Map(store), home[p], p)
  OBVIOUS
<1>2. at' = [at EXCEPT ![p] = to] /\ Draw(p, <<FullMap(to)>>)
  BY <1>1 DEF Login
<1>3. home[p] \in Low /\ home[p] \in Position
  BY DEF CInv, Low
<1>4. to \in Low
  BY <1>1, <1>3, FreeSpawn DEF Low
<1> QED BY <1>2, <1>4, LoginWell, WholeMapDrawn, PlacedDrawn

LEMMA StillPictures ==
    ASSUME PInv, UNCHANGED <<at, client>>
    PROVE  PInv'
BY DEF PInv, PicturesTrue, Online

LEMMA NextPictures == CInv /\ PInv /\ [Next]_vars => PInv'
<1> SUFFICES ASSUME CInv, PInv, [Next]_vars PROVE PInv'
  OBVIOUS
<1>1. CASE SweepChunks
  BY <1>1, StillPictures DEF SweepChunks
<1>2. ASSUME NEW p \in Players, Leave(p) PROVE PInv'
  <2>1. at' = [at EXCEPT ![p] = Nowhere] /\ client' = [client EXCEPT ![p] = Blank]
    BY <1>2 DEF Leave
  <2> QED BY <2>1 DEF PInv, PicturesTrue, Online, CInv
<1>3. ASSUME NEW m \in Monsters, NEW dir \in Direction, MoveMonster(m, dir) PROVE PInv'
  BY <1>3, StillPictures DEF MoveMonster
<1>4. ASSUME NEW failing, NEW p \in Players, Login(p, failing) PROVE PInv'
  BY <1>4, LoginPictures
<1>5. ASSUME NEW failing, NEW p \in Players, NEW dir \in Direction, Move(p, dir, failing)
      PROVE  PInv'
  BY <1>5, MovePictures
<1>6. ASSUME NEW failing, NEW p \in Players, NEW to \in Targets, GotoTile(p, to, failing)
      PROVE  PInv'
  <2>1. to \in Low
    <3>1. Map(store).ground = World.ground
      BY HavingFields DEF Map, Having
    <3> QED BY <1>6, <3>1, GroundLow DEF GotoTile
  <2> QED BY <1>6, <2>1, GotoTileWell, TeleportPictures DEF GotoTile
<1>7. ASSUME NEW failing, NEW p \in Players, GotoSomeone(p, failing) PROVE PInv'
  <2>1. PICK to \in {Spawn} \cup {at[q] : q \in Online \ {p}} : Teleport(p, to, failing)
    BY <1>7 DEF GotoSomeone
  <2>2. to \in Low
    BY ChunksAssumption DEF Online, CInv, Low
  <2> QED BY <1>7, <2>1, <2>2, GotoSomeoneWell, TeleportPictures
<1>8. ASSUME NEW failing, NEW from, NEW p, PathSearch(from, p, failing) PROVE PInv'
  BY <1>8, StillPictures DEF PathSearch
<1>9. CASE UNCHANGED vars
  BY <1>9, StillPictures DEF vars
<1> QED BY <1>1, <1>2, <1>3, <1>4, <1>5, <1>6, <1>7, <1>8, <1>9 DEF Next

\* Every client shows its screen in full and nothing else, wherever its player walked,
\* fell or was moved to (walk_update, map_description): no slice is missing, misplaced or
\* sampled from a chunk that is not in memory.
THEOREM PicturesCorrect == Spec => []PicturesTrue
<1>1. Init => PInv
  BY DEF Init, PInv, PicturesTrue, Online
<1>2. CInv /\ PInv /\ [Next]_vars => PInv'
  BY NextPictures
<1>3. PInv => PicturesTrue
  BY DEF PInv
<1> QED BY <1>1, <1>2, <1>3, Always, PTL DEF Spec

(***************************************************************************)
(* Chunks implements Atlas.                                                *)
(***************************************************************************)
LEMMA InitWhole == Init => Whole!Init
<1> SUFFICES ASSUME Init PROVE Whole!Init
  OBVIOUS
<1>1. LostOf(store) = {}
  BY DEF Init, LostOf
<1> QED BY <1>1 DEF Init, Whole!Init, NoReply, Whole!NoReply, Nowhere, Whole!Nowhere

\* What is known grows, so what is lost does.
LEMMA LosesWhole ==
    ASSUME store.missing \subseteq store'.missing
    PROVE  Whole!Loses
BY DEF Whole!Loses, LostOf, Files, Whole!Files

LEMMA MapsNamed ==
    ASSUME NEW s
    PROVE  Map(s) = Having(s.chunks) /\ Whole!Whole = Having(Files \ LostOf(store))
           /\ Whole!WholeNow = Having(Files \ LostOf(store'))
BY DEF Map, Having, Whole!Whole, Whole!WholeNow, Files, Whole!Files, LostOf

\* What is in memory is on the whole map.
LEMMA HeldWhole ==
    ASSUME CInv, NEW q, Holds(Map(store), q)
    PROVE  Same(Map(store), Whole!Whole, q) /\ Holds(Whole!Whole, q)
<1>1. ChunkOf(q) \in store.chunks /\ ChunkOf(q) \in Files \ LostOf(store)
  BY MapsNamed, HavingFields DEF Holds, CInv, StoreOK, LostOf
<1>2. Same(Map(store), Whole!Whole, q)
  BY <1>1, MapsNamed, SameIfHeldAlike
<1>3. Holds(Whole!Whole, q)
  BY <1>1, MapsNamed, HavingFields DEF Holds
<1> QED BY <1>2, <1>3

LEMMA EnterWhole ==
    ASSUME CInv, NEW p \in Players, NEW failing, Login(p, failing)
    PROVE  Whole!Enter(p)
<1> DEFINE to == FreeSpawnNear(Map(store), home[p], p)
<1>1. /\ at[p] = Nowhere /\ at' = [at EXCEPT ![p] = to]
      /\ home' = [home EXCEPT ![p] = Spawn] /\ reply' = NoReply /\ UNCHANGED den
  BY DEF Login
<1>2. home[p] \in Position
  BY DEF CInv, Low
<1>3. to = home[p] \/ (/\ IsWalkable(Map(store), to) /\ ~ Occupied(to, p) /\ to[3] = home[p][3]
                      /\ Abs(to[1] - home[p][1]) <= Rings /\ Abs(to[2] - home[p][2]) <= Rings)
  BY <1>2, FreeSpawn
<1> HIDE DEF to
<1>4. IsWalkable(Map(store), to) =>
          to \in World.ground /\ Whole!IsWalkable(Whole!Whole, to)
  <2> SUFFICES ASSUME IsWalkable(Map(store), to)
               PROVE  to \in World.ground /\ Whole!IsWalkable(Whole!Whole, to)
    OBVIOUS
  <2>1. IsWalkable(Whole!Whole, to)
    BY HeldWhole DEF IsWalkable, Same
  <2>2. to \in World.ground
    BY MapsNamed, HavingFields DEF IsWalkable
  <2> QED BY <2>1, <2>2 DEF IsWalkable, Whole!IsWalkable, Holds, Whole!Holds, ChunkOf, Whole!ChunkOf
<1>5. ~ Occupied(to, p) => ~ Whole!Occupied(to, p)
  BY DEF Occupied, Whole!Occupied
<1>6. to \in {home[p]} \cup {q \in World.ground :
                Whole!Near(q, home[p]) /\ Whole!IsWalkable(Whole!Whole, q) /\ ~ Whole!Occupied(q, p)}
  BY <1>3, <1>4, <1>5 DEF Whole!Near, Abs, Whole!Abs
<1> QED BY <1>1, <1>6 DEF Whole!Enter, Nowhere, Whole!Nowhere, NoReply, Whole!NoReply

LEMMA LeaveWhole ==
    ASSUME NEW p \in Players, Leave(p)
    PROVE  Whole!Leave(p)
BY DEF Leave, Whole!Leave, Nowhere, Whole!Nowhere, NoReply, Whole!NoReply

LEMMA GotoTileWhole ==
    ASSUME CInv, NEW p \in Players, NEW to \in Targets, NEW failing, GotoTile(p, to, failing)
    PROVE  Whole!Jump(p)
<1>1. HasGround(Map(store), to)
  BY DEF GotoTile
<1>2. HasGround(Whole!Whole, to)
  BY <1>1, HeldWhole DEF HasGround, Same
<1>3. to \in World.ground
  BY <1>1, MapsNamed, HavingFields DEF HasGround
<1>4. Whole!HasGround(Whole!Whole, to)
  BY <1>2 DEF HasGround, Whole!HasGround, Holds, Whole!Holds, ChunkOf, Whole!ChunkOf
<1> QED BY <1>3, <1>4
      DEF GotoTile, Teleport, Whole!Jump, Nowhere, Whole!Nowhere, NoReply, Whole!NoReply

LEMMA GotoSomeoneWhole ==
    ASSUME NEW p \in Players, NEW failing, GotoSomeone(p, failing)
    PROVE  Whole!Jump(p)
<1>1. PICK to \in {Spawn} \cup {at[q] : q \in Online \ {p}} : Teleport(p, to, failing)
  BY DEF GotoSomeone
<1>2. to \in {Spawn} \cup {at[q] : q \in {r \in Players : at[r] # Nowhere}}
  BY DEF Online
<1> QED BY <1>1, <1>2
      DEF Teleport, Whole!Jump, Nowhere, Whole!Nowhere, NoReply, Whole!NoReply

LEMMA ProwlWhole ==
    ASSUME CInv, NEW m \in Monsters, NEW dir \in Direction, MoveMonster(m, dir)
    PROVE  Whole!Prowl(m, dir)
<1> DEFINE to == Offset(den[m], Delta[dir][1], Delta[dir][2])
           t == Map(store)
           w == Whole!Whole
<1>1. /\ to # Nowhere
      /\ IsWalkable(t, to) /\ ~ Occupied(to, m) /\ FloorChangeAt(t, to) = {}
      /\ IsProtectionZone(t, to) => IsProtectionZone(t, den[m])
      /\ den' = [den EXCEPT ![m] = to] /\ reply' = NoReply /\ UNCHANGED <<at, home>>
  BY DEF MoveMonster
<1>2. Whole!Offset(den[m], Whole!Delta[dir][1], Whole!Delta[dir][2]) = to
  BY DEF Whole!Offset, Offset, Whole!Delta, Delta, Whole!ToPosition, ToPosition,
         Whole!Position, Position, Whole!Nowhere, Nowhere
<1> HIDE DEF to, t, w
<1>3. Same(t, w, to) /\ Holds(w, to) /\ Holds(t, to)
  BY <1>1, HeldWhole DEF IsWalkable, t, w
<1>4. IsWalkable(w, to) /\ FloorChangeAt(w, to) = {}
  BY <1>1, <1>3 DEF Same
<1>5. \A q : Holds(t, q) => (IsProtectionZone(t, q) <=> IsProtectionZone(w, q))
  BY HeldWhole, MapsNamed, HavingFields DEF IsProtectionZone, t, w
<1>6. IsProtectionZone(w, to) => IsProtectionZone(w, den[m])
  BY <1>1, <1>3, <1>5 DEF IsProtectionZone
<1>7. Whole!IsWalkable(w, to)
  BY <1>4 DEF IsWalkable, Whole!IsWalkable, Holds, Whole!Holds, ChunkOf, Whole!ChunkOf
<1>8. Whole!FloorChangeAt(w, to) = {}
  BY <1>4 DEF FloorChangeAt, Whole!FloorChangeAt, Holds, Whole!Holds, ChunkOf, Whole!ChunkOf,
              Position, Whole!Position
<1>9. Whole!IsProtectionZone(w, to) => Whole!IsProtectionZone(w, den[m])
  BY <1>6 DEF IsProtectionZone, Whole!IsProtectionZone, Holds, Whole!Holds, ChunkOf, Whole!ChunkOf
<1>10. ~ Whole!Occupied(to, m)
  BY <1>1 DEF Occupied, Whole!Occupied
<1> QED BY <1>1, <1>2, <1>7, <1>8, <1>9, <1>10
      DEF Whole!Prowl, w, Nowhere, Whole!Nowhere, NoReply, Whole!NoReply

\* Both modules read a map by the same definitions of Terrain.
LEMMA TerrainsAgree ==
    ASSUME NEW t
    PROVE  /\ \A q : Whole!HasGround(t, q) = HasGround(t, q)
           /\ \A q : Whole!IsWalkable(t, q) = IsWalkable(t, q)
           /\ \A f, r, d : Whole!ResolveVertical(t, f, r, d) = ResolveVertical(t, f, r, d)
<1>1. \A q : Whole!Holds(t, q) = Holds(t, q)
  BY DEF Holds, Whole!Holds, ChunkOf, Whole!ChunkOf
<1>2. \A q : /\ Whole!HasGround(t, q) = HasGround(t, q)
             /\ Whole!IsBlocked(t, q) = IsBlocked(t, q)
             /\ Whole!IsWalkable(t, q) = IsWalkable(t, q)
             /\ Whole!TileHeight(t, q) = TileHeight(t, q)
             /\ Whole!FloorChangeAt(t, q) = FloorChangeAt(t, q)
  BY <1>1 DEF HasGround, Whole!HasGround, IsBlocked, Whole!IsBlocked, IsWalkable,
       Whole!IsWalkable, TileHeight, Whole!TileHeight, FloorChangeAt, Whole!FloorChangeAt,
       Position, Whole!Position
<1>3. \A x, y, z : Whole!ToPosition(x, y, z) = ToPosition(x, y, z)
  BY DEF ToPosition, Whole!ToPosition, Position, Whole!Position, Nowhere, Whole!Nowhere
<1>4. \A q, dz : Whole!OffsetZ(q, dz) = OffsetZ(q, dz)
  BY <1>3 DEF OffsetZ, Whole!OffsetZ
<1>5. \A f, w : Whole!Sideways(f, w) = Sideways(f, w)
  BY DEF Sideways, Whole!Sideways
<1>6. \A q : Whole!Shift(t, q) = Shift(t, q)
  BY <1>2, <1>5 DEF Shift, Whole!Shift
<1>7. \A q : Whole!ResolveFloorChange(t, q) = ResolveFloorChange(t, q)
  BY <1>2, <1>3, <1>5, <1>6
     DEF ResolveFloorChange, Whole!ResolveFloorChange, Nowhere, Whole!Nowhere
<1>8. \A q : Whole!Void(t, q) = Void(t, q) /\ Whole!TriggersUp(t, q) = TriggersUp(t, q)
  BY <1>2 DEF Void, Whole!Void, TriggersUp, Whole!TriggersUp
<1>9. \A f, d : Whole!StepUp(t, f, d) = StepUp(t, f, d)
  BY <1>2, <1>4, <1>8 DEF StepUp, Whole!StepUp, Nowhere, Whole!Nowhere
<1>10. \A f, d : Whole!StepDown(t, f, d) = StepDown(t, f, d)
  BY <1>4, <1>8 DEF StepDown, Whole!StepDown, Nowhere, Whole!Nowhere
<1>11. \A f, r, d : Whole!ResolveVertical(t, f, r, d) = ResolveVertical(t, f, r, d)
  BY <1>7, <1>9, <1>10 DEF ResolveVertical, Whole!ResolveVertical, Nowhere, Whole!Nowhere
<1> QED BY <1>2, <1>11

LEMMA DestinationIs ==
    ASSUME NEW t, NEW p, NEW dir
    PROVE  Whole!Destination(t, p, dir) = IF Allowed(t, p, dir) THEN Land(t, p, dir) ELSE Nowhere
<1>1. Whole!Offset(at[p], Whole!Delta[dir][1], Whole!Delta[dir][2]) = Raw(p, dir)
  BY DEF Whole!Offset, Offset, Raw, Whole!Delta, Delta, Whole!ToPosition, ToPosition,
         Whole!Position, Position, Whole!Nowhere, Nowhere
<1>2. Whole!Diagonal(dir) = Diagonal(dir)
  BY DEF Whole!Diagonal, Diagonal, Whole!Delta, Delta
<1>3. \A l : Whole!Standable(t, p, at[p], l) = Standable(t, p, at[p], l)
  BY TerrainsAgree DEF Whole!Standable, Standable, Whole!Occupied, Occupied
<1>4. Whole!ResolveVertical(t, at[p], Raw(p, dir), Diagonal(dir)) = Land(t, p, dir)
  BY TerrainsAgree DEF Land
<1> QED BY <1>1, <1>2, <1>3, <1>4 DEF Whole!Destination, Allowed, Whole!Nowhere, Nowhere

\* The map ahead and the whole map say the same of every tile a step has to do with.
LEMMA AheadSame ==
    ASSUME CInv, NEW p \in Players, NEW dir \in Direction, NEW failing, NEW ahead,
           ahead = Ahead(p, dir, failing), at[p] # Nowhere, Raw(p, dir) # Nowhere,
           StoreOK(store'), Grown(ahead, store'), NEW q, By(Raw(p, dir), q)
    PROVE  Same(Map(ahead), Whole!WholeNow, q)
<1>1. at[p] \in Low
  BY DEF CInv
<1>2. Raw(p, dir) \in Position /\ Raw(p, dir)[3] <= Deep
  BY <1>1, RawNear DEF Low
<1>3. StoreOK(ahead) /\ ChunksAround(Raw(p, dir)) \subseteq Told(ahead)
  BY AheadWell
<1>4. q[3] <= Deep => ChunkOf(q) \in Told(ahead)
  BY <1>2, <1>3, AroundCovers
<1>5. q[3] <= Deep => (ChunkOf(q) \in ahead.chunks <=> ChunkOf(q) \in Files \ LostOf(store'))
  BY <1>3, <1>4, ToldTruly
<1>6. Same(Having(ahead.chunks), Having(Files \ LostOf(store')), q)
  BY <1>5, SameIfHeldAlike
<1> QED BY <1>6, MapsNamed

LEMMA StepWhole ==
    ASSUME CInv, NEW p \in Players, NEW dir \in Direction, NEW failing, Move(p, dir, failing)
    PROVE  Whole!Step(p, dir)
<1> DEFINE ahead == Ahead(p, dir, failing)
           t == Map(ahead)
           w == Whole!WholeNow
           land == Land(t, p, dir)
<1>1. CInv' /\ Grown(ahead, store')
  BY MoveWell
<1>2. /\ at[p] # Nowhere
      /\ \/ ~ Allowed(t, p, dir) /\ UNCHANGED at
         \/ Allowed(t, p, dir) /\ at' = [at EXCEPT ![p] = land]
      /\ reply' = [who |-> p, dir |-> dir, to |-> IF Allowed(t, p, dir) THEN land ELSE Nowhere]
      /\ UNCHANGED <<home, den>>
  BY MoveIs
<1>3. at[p] \in Low
  BY <1>2 DEF CInv
<1>4. Raw(p, dir) # Nowhere => \A q : By(Raw(p, dir), q) => Same(t, w, q)
  BY <1>1, <1>2, AheadSame DEF CInv
<1>5. Raw(p, dir) # Nowhere => Land(w, p, dir) = land /\ By(Raw(p, dir), land)
  <2> SUFFICES ASSUME Raw(p, dir) # Nowhere
               PROVE  Land(w, p, dir) = land /\ By(Raw(p, dir), land)
    OBVIOUS
  <2>1. t = Having(ahead.chunks) /\ w = Having(Files \ LostOf(store'))
    BY MapsNamed
  <2>2. /\ Raw(p, dir) \in Position /\ at[p] \in Position
        /\ at[p][3] = Raw(p, dir)[3]
        /\ at[p][1] - Raw(p, dir)[1] \in -1..1 /\ at[p][2] - Raw(p, dir)[2] \in -1..1
    BY <1>3, RawNear DEF Low
  <2> HIDE DEF t, w, ahead
  <2>3. \A q : By(Raw(p, dir), q) => Same(t, w, q)
    BY <1>4
  <2>4. LET l == ResolveVertical(t, at[p], Raw(p, dir), Diagonal(dir))
        IN  ResolveVertical(w, at[p], Raw(p, dir), Diagonal(dir)) = l /\ By(Raw(p, dir), l)
    BY <2>1, <2>2, <2>3, LandingSame
  <2> QED BY <2>4 DEF Land
<1> HIDE DEF t, w, ahead, land
<1>6. Allowed(w, p, dir) = Allowed(t, p, dir)
  <2>1. CASE Raw(p, dir) = Nowhere
    BY <2>1 DEF Allowed
  <2>2. CASE Raw(p, dir) # Nowhere
    <3>1. Same(t, w, land) /\ Land(w, p, dir) = land /\ Land(t, p, dir) = land
      BY <2>2, <1>4, <1>5 DEF land
    <3> QED BY <3>1, <2>2 DEF Allowed, Standable, Same
  <2> QED BY <2>1, <2>2
<1>7. Allowed(t, p, dir) => Land(w, p, dir) = land /\ land # Nowhere
  <2>1. Allowed(t, p, dir) => Raw(p, dir) # Nowhere
    BY DEF Allowed
  <2>2. By(Raw(p, dir), land) => land # Nowhere
    BY NowhereApart DEF By
  <2> QED BY <2>1, <2>2, <1>5
<1>8. Whole!Destination(w, p, dir) = IF Allowed(t, p, dir) THEN land ELSE Nowhere
  BY <1>6, <1>7, DestinationIs
<1> QED BY <1>2, <1>7, <1>8 DEF Whole!Step, w, Whole!Nowhere, Nowhere

LEMMA NextWhole == CInv /\ [Next]_vars => [Whole!Next]_(Whole!vars)
<1> SUFFICES ASSUME CInv, [Next]_vars PROVE [Whole!Next]_(Whole!vars)
  OBVIOUS
<1>0. NoReply = Whole!NoReply
  BY DEF NoReply, Whole!NoReply, Nowhere, Whole!Nowhere
<1>1. CASE SweepChunks
  <2>1. Whole!Loses
    BY <1>1, SweepWell, LosesWhole
  <2>2. Whole!Unreadable
    BY <1>0, <1>1 DEF SweepChunks, Whole!Unreadable
  <2> QED BY <2>1, <2>2 DEF Whole!Next
<1>2. ASSUME NEW p \in Players, Leave(p) PROVE Whole!Next
  BY <1>2, LeaveWell, LosesWhole, LeaveWhole DEF Grown, Whole!Next
<1>3. ASSUME NEW m \in Monsters, NEW dir \in Direction, MoveMonster(m, dir) PROVE Whole!Next
  <2>1. Whole!Loses /\ Whole!Prowl(m, dir)
    BY <1>3, MoveMonsterWell, LosesWhole, ProwlWhole DEF Grown
  <2> QED BY <2>1 DEF Whole!Next, Direction, Whole!Direction, Delta, Whole!Delta
<1>4. ASSUME NEW failing, NEW p \in Players, Login(p, failing) PROVE Whole!Next
  BY <1>4, LoginWell, LosesWhole, EnterWhole DEF Grown, Whole!Next
<1>5. ASSUME NEW failing, NEW p \in Players, NEW dir \in Direction, Move(p, dir, failing)
      PROVE  Whole!Next
  <2>1. Whole!Loses /\ Whole!Step(p, dir)
    BY <1>5, MoveWell, LosesWhole, StepWhole DEF Grown
  <2> QED BY <2>1 DEF Whole!Next, Direction, Whole!Direction, Delta, Whole!Delta
<1>6. ASSUME NEW failing, NEW p \in Players, NEW to \in Targets, GotoTile(p, to, failing)
      PROVE  Whole!Next
  BY <1>6, GotoTileWell, LosesWhole, GotoTileWhole DEF Grown, Whole!Next
<1>7. ASSUME NEW failing, NEW p \in Players, GotoSomeone(p, failing) PROVE Whole!Next
  BY <1>7, GotoSomeoneWell, LosesWhole, GotoSomeoneWhole DEF Grown, Whole!Next
<1>8. ASSUME NEW failing, NEW from, NEW p, PathSearch(from, p, failing) PROVE Whole!Next
  <2>1. Whole!Loses
    BY <1>8, PathSearchWell, LosesWhole DEF Grown
  <2>2. Whole!Unreadable
    BY <1>0, <1>8 DEF PathSearch, Whole!Unreadable
  <2> QED BY <2>1, <2>2 DEF Whole!Next
<1>9. CASE UNCHANGED vars
  BY <1>9 DEF vars, Whole!vars, LostOf
<1> QED BY <1>1, <1>2, <1>3, <1>4, <1>5, <1>6, <1>7, <1>8, <1>9 DEF Next

\* What the players get to do on the chunks that come and go is what the whole map allows:
\* every step, jump and prowl of the server is one of Atlas, for any map, any sweeps and
\* any files that fail to be read.
THEOREM ChunksImplementAtlas == Spec => MovesAsOnTheWholeMap
<1>1. Init => Whole!Init
  BY InitWhole
<1>2. CInv /\ [Next]_vars => [Whole!Next]_(Whole!vars)
  BY NextWhole
<1> QED BY <1>1, <1>2, Always, PTL DEF Spec, MovesAsOnTheWholeMap, Whole!Spec

=============================================================================
