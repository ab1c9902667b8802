------------------------------- MODULE Search -------------------------------
(***************************************************************************)
(* The path search: crates/world/src/pathfinding.rs.                       *)
(*                                                                         *)
(* An A* over a growing table of nodes.  A search s is a record: the tiles *)
(* one may walk on (free), the tiles creatures stand on (taken), where it  *)
(* starts, what it heads for (target), and whether it stops on the target  *)
(* or beside it (beside).  Tiles are <<x, y>>.  A node is [at, g, f,       *)
(* parent]: the cost so far, the estimate, the index of the node it was    *)
(* reached from (0 for the start).  Everything here is a function of its   *)
(* arguments; Algorithms runs the search step by step.                     *)
(***************************************************************************)
EXTENDS Terrain

CONSTANTS
    MaxNodes,   \* size of the node table (512)
    MaxDist     \* how far from its start the search goes (20)

ASSUME SearchAssumption == MaxNodes \in Nat \ {0} /\ MaxDist \in Nat

Cardinal == 10
Sidelong == 25      \* DIAGONAL_COST
Penalty == 30       \* CREATURE_PENALTY
Closed == 1000000   \* f of a node that was expanded (u32::MAX)

\* The tiles of one floor.
Plane == (0..Extent) \X (0..Extent)

Far(p, q) == Greater(Abs(p[1] - q[1]), Abs(p[2] - q[2]))
Reached(s, p) == IF s.beside THEN Far(p, s.target) <= 1 ELSE p = s.target

Heuristic(p, q) ==
    LET dx == Abs(p[1] - q[1])
        dy == Abs(p[2] - q[2])
    IN  Lesser(dx, dy) * 2 * Cardinal + (Greater(dx, dy) - Lesser(dx, dy)) * Cardinal

DirTo(p, q) == CHOOSE d \in Direction : Delta[d] = <<q[1] - p[1], q[2] - p[2]>>

\* Where to look next, in order, by the direction a node was entered in;
\* "Start" for the start.
Neighbors ==
    [Start |-> << <<-1, -1>>, <<0, -1>>, <<1, -1>>, <<-1, 0>>, <<1, 0>>, <<-1, 1>>, <<0, 1>>, <<1, 1>> >>,
     East |-> << <<-1, 0>>, <<0, 1>>, <<1, 0>>, <<1, 1>>, <<-1, 1>> >>,
     West |-> << <<-1, 0>>, <<0, 1>>, <<0, -1>>, <<-1, -1>>, <<-1, 1>> >>,
     South |-> << <<-1, 0>>, <<1, 0>>, <<0, -1>>, <<-1, -1>>, <<1, -1>> >>,
     North |-> << <<0, 1>>, <<1, 0>>, <<0, -1>>, <<1, -1>>, <<1, 1>> >>,
     SouthEast |-> << <<1, 0>>, <<0, -1>>, <<-1, -1>>, <<1, -1>>, <<1, 1>> >>,
     SouthWest |-> << <<-1, 0>>, <<0, -1>>, <<-1, -1>>, <<1, -1>>, <<-1, 1>> >>,
     NorthEast |-> << <<0, 1>>, <<1, 0>>, <<1, -1>>, <<1, 1>>, <<-1, 1>> >>,
     NorthWest |-> << <<-1, 0>>, <<0, 1>>, <<-1, -1>>, <<1, 1>>, <<-1, 1>> >>]

FirstNode(s) == <<[at |-> s.start, g |-> 0, f |-> Heuristic(s.start, s.target), parent |-> 0]>>

\* The open node of the least estimate, the first of several; none if all
\* are closed.
BestNode(nodes) ==
    LET open == {i \in DOMAIN nodes : nodes[i].f # Closed}
        least == {i \in open : \A j \in open : nodes[i].f <= nodes[j].f}
    IN  {i \in least : \A j \in least : i <= j}

\* Mutant of Shut: an expanded node stays open.
ShutNot(node) == node

Shut(node) == [node EXCEPT !.f = Closed]

\* A node reached again at no more cost is opened again.
TryReopen(node, again) == IF again.g <= node.g THEN again ELSE node

\* Mutant of Open: anything on the map may be walked on.
OpenBlind(s, at) == at # Nowhere

Open(s, at) == at \in s.free

\* The node of a tile next to the node b at index i.
Relax(s, b, i, at) ==
    LET step == IF at[1] # b.at[1] /\ at[2] # b.at[2] THEN Sidelong ELSE Cardinal
        cost == step + IF at \in s.taken THEN Penalty ELSE 0
        g == Greater(b.f - Heuristic(b.at, s.target), 0) + cost
    IN  [at |-> at, g |-> g, f |-> g + Heuristic(at, s.target), parent |-> i]

\* The directions from the start to a node.
CalculatePath(nodes, end) ==
    LET path[i \in DOMAIN nodes] ==
            IF nodes[i].parent = 0 THEN << >>
            ELSE Append(path[nodes[i].parent], DirTo(nodes[nodes[i].parent].at, nodes[i].at))
    IN  path[end]

\* What a sequence has at the places in S, in its order.
Sift(q, S) ==
    LET kept[n \in 0..Len(q)] ==
            IF n = 0 THEN << >> ELSE IF n \in S THEN Append(kept[n-1], q[n]) ELSE kept[n-1]
    IN  kept[Len(q)]

\* The tiles to go to from the node at index i.
Ways(s, nodes, i) ==
    LET b == nodes[i]
        entered == IF b.parent = 0 THEN "Start" ELSE DirTo(nodes[b.parent].at, b.at)
        around == [k \in DOMAIN Neighbors[entered] |->
                      <<b.at[1] + Neighbors[entered][k][1], b.at[2] + Neighbors[entered][k][2]>>]
    IN  Sift(around, {k \in DOMAIN around : around[k] \in Plane /\ Open(s, around[k])})

\* Those of them that are in no node yet and near enough to the start.
Unseen(s, nodes, ways) ==
    Sift(ways, {k \in DOMAIN ways : /\ Far(ways[k], s.start) <= MaxDist
                                    /\ \A j \in DOMAIN nodes : nodes[j].at # ways[k]})

\* The table after the node at index i was expanded: nodes reached again may
\* be opened again, and there is one for each tile unseen before.
Grown(s, nodes, i, ways, unseen) ==
    LET reach(at) == Relax(s, nodes[i], i, at)
        shut(j) == IF j = i THEN Shut(nodes[j]) ELSE nodes[j]
        old == [j \in DOMAIN nodes |-> IF \E k \in DOMAIN ways : ways[k] = nodes[j].at
                                      THEN TryReopen(shut(j), reach(nodes[j].at)) ELSE shut(j)]
    IN  old \o [k \in DOMAIN unseen |-> reach(unseen[k])]

\* A turn: the table after it, and the path if it is over, without one if
\* the node is too far or the table has no room for the tiles unseen.
Turn(s, nodes, i, ways, unseen) ==
    LET at == nodes[i].at
        closed == [nodes EXCEPT ![i] = Shut(@)]
    IN  IF Far(at, s.start) > MaxDist THEN [nodes |-> nodes, over |-> TRUE, path |-> << >>]
        ELSE IF Reached(s, at) THEN [nodes |-> closed, over |-> TRUE, path |-> CalculatePath(closed, i)]
        ELSE IF Len(nodes) + Len(unseen) > MaxNodes THEN [nodes |-> closed, over |-> TRUE, path |-> << >>]
        ELSE [nodes |-> Grown(s, nodes, i, ways, unseen), over |-> FALSE, path |-> << >>]

\* The one outcome of a turn of the loop.
Expand(s, nodes) ==
    LET turns(i, ways) == {Turn(s, nodes, i, ways, unseen) : unseen \in {Unseen(s, nodes, ways)}}
    IN  IF BestNode(nodes) = {} THEN {[nodes |-> nodes, over |-> TRUE, path |-> << >>]}
        ELSE UNION {UNION {turns(i, ways) : ways \in {Ways(s, nodes, i)}} : i \in BestNode(nodes)}

\* A path leads over free tiles, none of them twice, to the first that will
\* do; these are the Paths of Walking.
Leads(s, path) ==
    LET tile[i \in 0..Len(path)] ==
            IF i = 0 THEN s.start
            ELSE <<tile[i-1][1] + Delta[path[i]][1], tile[i-1][2] + Delta[path[i]][2]>>
    IN  /\ \A i \in 1..Len(path) : tile[i] \in s.free /\ \A j \in 0..i-1 : tile[i] # tile[j]
        /\ \A i \in 0..Len(path) : Reached(s, tile[i]) <=> i = Len(path)

=============================================================================
