------------------------------- MODULE Sight -------------------------------
(***************************************************************************)
(* Lines of sight: is_sight_clear and can_throw_object_to of               *)
(* crates/world/src/map.rs, for what is shot or thrown.                    *)
(*                                                                         *)
(* A line is walked along its longer axis in steps of one tile; the other  *)
(* coordinate is the floor of the true one plus a tenth.  The code adds up *)
(* 32-bit floats; here the numbers are exact, which is the same as long as *)
(* the rounding errors stay below the distance of a fraction of at most    *)
(* eight to nine tenths (coordinates below 2^15).                          *)
(***************************************************************************)
EXTENDS Terrain

RangeX == 8
RangeY == 6

\* A tile that lets a line through; under another floor only the void does.
IsTileClear(t, p, floor) == ~ IsOpaque(t, p) /\ (floor => ~ HasGround(t, p))

\* The tiles strictly between two ends given by their coordinates along and
\* across the line, the end a first; along is y if the line is steep, else x.
LineClear(t, steep, a, b, z) ==
    LET along == b[1] - a[1]
        across(k) == (10 * (a[2] * along + k * (b[2] - a[2])) + along) \div (10 * along)
        at(k) == IF steep THEN <<across(k), a[1] + k, z>> ELSE <<a[1] + k, across(k), z>>
    IN  \A k \in 1..along-1 : IsTileClear(t, at(k), FALSE)

\* Mutant of CheckSightLine: lines are never turned round.
CheckSightLineAsIs(t, x0, y0, x1, y1, z) ==
    \/ x0 = x1 /\ y0 = y1
    \/ IF Abs(y1 - y0) > Abs(x1 - x0) THEN LineClear(t, TRUE, <<y0, x0>>, <<y1, x1>>, z)
       ELSE LineClear(t, FALSE, <<x0, y0>>, <<x1, y1>>, z)

CheckSightLine(t, x0, y0, x1, y1, z) ==
    \/ x0 = x1 /\ y0 = y1
    \/ IF Abs(y1 - y0) > Abs(x1 - x0)
       THEN IF y1 > y0 THEN LineClear(t, TRUE, <<y0, x0>>, <<y1, x1>>, z)
            ELSE LineClear(t, TRUE, <<y1, x1>>, <<y0, x0>>, z)
       ELSE IF x0 > x1 THEN LineClear(t, FALSE, <<x1, y1>>, <<x0, y0>>, z)
            ELSE LineClear(t, FALSE, <<x0, y0>>, <<x1, y1>>, z)

\* On one floor: next to each other, along the line, or over the void of
\* the floor above.
LevelSight(t, from, to, sameFloor) ==
    \/ Abs(from[1] - to[1]) < 2 /\ Abs(from[2] - to[2]) < 2
    \/ CheckSightLine(t, from[1], from[2], to[1], to[2], from[3])
    \/ /\ ~ sameFloor
       /\ \/ from[3] = 0
          \/ LET up == from[3] - 1
             IN  /\ IsTileClear(t, <<from[1], from[2], up>>, TRUE)
                 /\ IsTileClear(t, <<to[1], to[2], up>>, TRUE)
                 /\ CheckSightLine(t, from[1], from[2], to[1], to[2], up)

\* Up: one floor at most, out of the hole above.  Down: through the void
\* above the target, then along.  Never through the surface.
IsSightClear(t, from, to, sameFloor) ==
    IF from[3] = to[3] THEN LevelSight(t, from, to, sameFloor)
    ELSE /\ ~ sameFloor
         /\ from[3] <= Surface <=> to[3] <= Surface
         /\ IF from[3] > to[3]
            THEN /\ from[3] - to[3] = 1
                 /\ IsTileClear(t, <<from[1], from[2], from[3] - 1>>, TRUE)
                 /\ CheckSightLine(t, from[1], from[2], to[1], to[2], from[3] - 1)
            ELSE /\ \A z \in from[3]..to[3]-1 : IsTileClear(t, <<to[1], to[2], z>>, TRUE)
                 /\ CheckSightLine(t, from[1], from[2], to[1], to[2], from[3])

CanThrowObjectTo(t, from, to) ==
    /\ Abs(from[1] - to[1]) <= RangeX /\ Abs(from[2] - to[2]) <= RangeY
    /\ IsSightClear(t, from, to, FALSE)

=============================================================================
