------------------------------ MODULE MapFile ------------------------------
(***************************************************************************)
(* From the files of a map editor to the tiles of the server:              *)
(* crates/formats/src/{node,otb,otbm,items_xml}.rs and the loading half of *)
(* crates/world/src/map.rs.                                                *)
(*                                                                         *)
(* A file is a tree of nodes in a sequence of bytes.  ParseOtb and         *)
(* ParseOtbm read item types and tiles out of the properties of its nodes; *)
(* MergeXml adds what items.xml says.  Stack lays the items of a tile out  *)
(* in the order a client draws them, and Prechunk cuts the map in chunks.  *)
(* The result of a parser is [ok, value].                                  *)
(***************************************************************************)
EXTENDS Wire, Terrain

CONSTANTS MaxThings     \* items a tile may show (MAX_TILE_THINGS, 10)

(***************************************************************************)
(* The node tree.                                                          *)
(***************************************************************************)
START == 254
END == 255
ESCAPE == 253

Leaf(kind) == [kind |-> kind, props |-> << >>, children |-> << >>]
Broken(value) == [ok |-> FALSE, value |-> value, pos |-> 0]

\* The rest of a node from a position on, and the position behind its END.
RECURSIVE ParseNode(_, _, _)
ParseNode(data, pos, node) ==
    LET marks == {i \in pos..Len(data) : data[i] \in {START, END, ESCAPE}}
        mark == Min(marks)
        sofar == [node EXCEPT !.props = @ \o SubSeq(data, pos, mark - 1)]
    IN  IF marks = {} THEN Broken(node)
        ELSE IF data[mark] = END THEN [ok |-> TRUE, value |-> sofar, pos |-> mark + 1]
        ELSE IF mark = Len(data) THEN Broken(node)
        ELSE IF data[mark] = START
        THEN LET child == ParseNode(data, mark + 2, Leaf(data[mark + 1]))
             IN  IF ~ child.ok THEN child
                 ELSE ParseNode(data, child.pos, [sofar EXCEPT !.children = Append(@, child.value)])
        ELSE ParseNode(data, mark + 2, [sofar EXCEPT !.props = Append(@, data[mark + 1])])

ParseTree(data) ==
    IF Len(data) < 6 \/ data[5] # START THEN Broken(Leaf(0))
    ELSE ParseNode(data, 7, Leaf(data[6]))

\* What a map editor writes for a node.
RECURSIVE WriteNode(_)
WriteNode(node) ==
    <<START, node.kind>>
    \o FlattenSeq([i \in DOMAIN node.props |->
            IF node.props[i] >= ESCAPE THEN <<ESCAPE, node.props[i]>> ELSE <<node.props[i]>>])
    \o FlattenSeq([i \in DOMAIN node.children |-> WriteNode(node.children[i])])
    \o <<END>>
WriteFile(root) == Zeros(4) \o WriteNode(root)

(***************************************************************************)
(* Attributes: a code and the values its shape names.                      *)
(***************************************************************************)
RECURSIVE Attributes(_, _)
Attributes(data, shapes) ==
    IF data = << >> THEN [list |-> << >>, end |-> "done"]
    ELSE IF data[1] \notin DOMAIN shapes THEN [list |-> << >>, end |-> "unknown"]
    ELSE LET r == Reading(Tail(data), shapes[data[1]])
             rest == Attributes(r.left, shapes)
         IN  IF ~ r.ok THEN [list |-> << >>, end |-> "short"]
             ELSE [rest EXCEPT !.list = <<[attr |-> data[1], got |-> r.got]>> \o @]

\* The value the last attribute of a code left, or the default.
LastOf(list, attr, default) ==
    LET given == {i \in DOMAIN list : list[i].attr = attr}
    IN  IF given = {} THEN default
        ELSE list[CHOOSE i \in given : \A j \in given : j <= i].got[1]

\* The results of a parser on each node, as one result.
All(nodes, Parse(_)) ==
    LET each == [i \in DOMAIN nodes |-> Parse(nodes[i])]
    IN  [ok |-> \A i \in DOMAIN each : each[i].ok,
         value |-> [i \in DOMAIN each |-> each[i].value]]

(***************************************************************************)
(* Item types: items.otb and items.xml.                                    *)
(***************************************************************************)
Bit(flags, n) == (flags \div 2^n) % 2 = 1

\* A record of the properties: code, length, value.  The length counts only
\* where the code is not known.
RECURSIVE OtbAttributes(_)
OtbAttributes(data) ==
    IF data = << >> THEN [list |-> << >>, end |-> "done"]
    ELSE LET head == Reading(data, <<"u8", "u16">>)
             known == [a \in {16, 17, 43} |-> IF a = 43 THEN <<"u8">> ELSE <<"u16">>]
             code == head.got[1]
             body == IF code \in DOMAIN known THEN Reading(head.left, known[code])
                     ELSE Take([head EXCEPT !.got = << >>], head.got[2], LAMBDA b : b)
             rest == OtbAttributes(body.left)
         IN  IF ~ head.ok \/ ~ body.ok THEN [list |-> << >>, end |-> "short"]
             ELSE [rest EXCEPT !.list = <<[attr |-> code, got |-> body.got]>> \o @]

ParseOtbItem(node) ==
    LET r == Reading(node.props, <<"u32">>)
        attrs == OtbAttributes(r.left)
        flags == r.got[1]
    IN  IF ~ r.ok \/ attrs.end = "short" THEN Broken(Leaf(0))
        ELSE [ok |-> TRUE,
              value |->
               [id |-> LastOf(attrs.list, 16, 0), client |-> LastOf(attrs.list, 17, 0),
                order |-> LastOf(attrs.list, 43, 0), group |-> node.kind,
                solid |-> Bit(flags, 0), opaque |-> Bit(flags, 1), tall |-> Bit(flags, 3),
                stackable |-> Bit(flags, 7), top |-> Bit(flags, 13),
                animated |-> Bit(flags, 24), change |-> {}]]

\* The version record of the root must be there; what it says is not used.
ParseOtb(data) ==
    LET root == ParseTree(data)
        version == Reading(root.value.props, <<"u32", "u8", "u16", "u32", "u32", "u32">>)
        items == All(root.value.children, ParseOtbItem)
    IN  [ok |-> root.ok /\ version.ok /\ version.got[2] = 1 /\ items.ok, value |-> items.value]

\* items.xml: entries for an id or for a range of them, a later one on top
\* of the earlier.  Of their attributes (name, weight, ...) only whether
\* they were given shows: a value that is the default changes nothing.
Covers(entry, id) == entry.from <= id /\ id <= entry.to
MergeEntry(attrs, entry) ==
    [attrs EXCEPT !.change = @ \cup entry.change,
                  !.name = IF entry.name # "" THEN entry.name ELSE @,
                  !.showcount = entry.showcount]
ItemsXml(entries, id) ==
    FoldLeft(LAMBDA attrs, e : IF Covers(e, id) THEN MergeEntry(attrs, e) ELSE attrs,
             [change |-> {}, name |-> "", showcount |-> TRUE], entries)
MergeXml(types, entries) ==
    [i \in DOMAIN types |->
        IF ItemsXml(entries, types[i].id).change # {}
        THEN [types[i] EXCEPT !.change = ItemsXml(entries, types[i].id).change] ELSE types[i]]

\* The types by their server id; a later one of the same id replaces it.
ById(types) ==
    [id \in {types[i].id : i \in DOMAIN types} |->
        types[CHOOSE i \in DOMAIN types : types[i].id = id /\ \A j \in i+1..Len(types) : types[j].id # id]]

(***************************************************************************)
(* The map: tiles with their items, towns.                                 *)
(***************************************************************************)
ItemShapes ==
    [a \in {4, 5, 10, 22} |-> <<"u16">>] @@ [a \in {12, 15, 17} |-> <<"u8">>]
    @@ [a \in {16, 18} |-> <<"u32">>] @@ [a \in {6, 7, 19} |-> <<"text">>]
    @@ [a \in {8} |-> <<"u16", "u16", "u8">>]
TileShapes == [a \in {3} |-> <<"u32">>] @@ [a \in {9} |-> <<"u16">>]
NoCount == -1

\* An attribute it does not know ends the reading of an item, not of a file.
RECURSIVE ParseItem(_)
ParseItem(node) ==
    LET r == Reading(node.props, <<"u16">>)
        attrs == Attributes(r.left, ItemShapes)
        inside == All(node.children, ParseItem)
    IN  IF node.kind # 6 \/ ~ r.ok \/ attrs.end = "short" THEN Broken(Leaf(0))
        ELSE [ok |-> inside.ok,
              value |-> [id |-> r.got[1], count |-> LastOf(attrs.list, 15, NoCount),
                         contents |-> inside.value]]

ParseTile(node, base) ==
    LET house == node.kind = 14
        r == Reading(node.props, <<"u8", "u8">> \o IF house THEN <<"u32">> ELSE << >>)
        attrs == Attributes(r.left, TileShapes)
        inline == SelectSeq(attrs.list, LAMBDA a : a.attr = 9)
        stacked == All(node.children, ParseItem)
        plain(id) == [id |-> id, count |-> NoCount, contents |-> << >>]
    IN  IF node.kind \notin {5, 14} \/ ~ r.ok \/ attrs.end # "done" \/ ~ stacked.ok THEN Broken(Leaf(0))
        ELSE [ok |-> TRUE,
              value |-> [at |-> <<(base[1] + r.got[1]) % 65536, (base[2] + r.got[2]) % 65536, base[3]>>,
                         flags |-> LastOf(attrs.list, 3, 0),
                         items |-> [i \in DOMAIN inline |-> plain(inline[i].got[1])] \o stacked.value]]

ParseTileArea(node) ==
    LET r == Reading(node.props, <<"u16", "u16", "u8">>)
    IN  IF ~ r.ok THEN Broken(<< >>)
        ELSE All(node.children, LAMBDA tile : ParseTile(tile, r.got))

ParseTown(node) ==
    LET r == Reading(node.props, <<"u32", "text", "u16", "u16", "u8">>)
    IN  [ok |-> node.kind = 13 /\ r.ok, value |-> r.got]

\* The map data: its own attributes, then areas of tiles, towns, waypoints
\* (which nobody reads).
ParseOtbm(data) ==
    LET root == ParseTree(data)
        header == Reading(root.value.props, <<"u32", "u16", "u16", "u32", "u32">>)
        body == SelectSeq(root.value.children, LAMBDA c : c.kind = 2)
        attrs == Attributes(body[1].props, [a \in {1, 11, 13} |-> <<"text">>])
        under(kind) == SelectSeq(body[1].children, LAMBDA c : c.kind = kind)
        areas == All(under(4), ParseTileArea)
        towns == All(under(12), LAMBDA n : All(n.children, ParseTown))
    IN  IF ~ root.ok \/ ~ header.ok \/ body = << >> \/ attrs.end # "done"
           \/ \E i \in DOMAIN body[1].children : body[1].children[i].kind \notin {4, 12, 15}
           \/ ~ areas.ok \/ ~ towns.ok
        THEN Broken([tiles |-> << >>, towns |-> << >>])
        ELSE [ok |-> TRUE, value |-> [tiles |-> FlattenSeq(areas.value), towns |-> FlattenSeq(towns.value)]]

(***************************************************************************)
(* Tiles as the server keeps them.                                         *)
(***************************************************************************)
\* The subtype a client is told: stacks count from one.
WireItem(type, count) ==
    [client |-> type.client, animated |-> type.animated,
     subtype |-> IF type.stackable THEN Greater(IF count = NoCount THEN 1 ELSE count, 1)
                 ELSE IF type.group \in {11, 12} THEN Greater(count, 0)
                 ELSE NoCount]

\* Mutant of Stack: in the order of the file.
StackUnsorted(types, tile) ==
    LET shown == SelectSeq(tile.items, LAMBDA item : item.id \in DOMAIN types)
    IN  [items |-> SubSeq(shown, 1, Lesser(Len(shown), MaxThings)),
         pre |-> Lesser(Len(shown), MaxThings)]

\* The ground, what is always on top in its order, then the rest; pre is
\* how many of them lie under a creature.  Items of no known type are left
\* out; the ground is the first item of the tile or there is none.
Stack(types, tile) ==
    LET known(i) == tile.items[i].id \in DOMAIN types
        type(i) == types[tile.items[i].id]
        over == SelectSeq([i \in 1..Len(tile.items) |-> i], LAMBDA i : i > 1 /\ known(i))
        tops == SortSeq(SelectSeq(over, LAMBDA i : type(i).top),
                        LAMBDA i, j : type(i).order < type(j).order \/ (type(i).order = type(j).order /\ i < j))
        downs == SelectSeq(over, LAMBDA i : ~ type(i).top)
        all == <<1>> \o tops \o downs
        kept == SubSeq(all, 1, Lesser(Len(all), MaxThings))
    IN  IF tile.items = << >> \/ ~ known(1) THEN [items |-> << >>, pre |-> 0]
        ELSE [items |-> [k \in DOMAIN kept |-> tile.items[kept[k]]],
              pre |-> Lesser(1 + Len(tops), MaxThings)]

\* What the tiles of a file make together; key says under what a position
\* is kept.  Of two tiles in one place the later one's items stay, and the
\* flags of both.
Layers(types, tiles, Key(_)) ==
    LET known(tile) == {i \in DOMAIN tile.items : tile.items[i].id \in DOMAIN types}
        type(tile, i) == types[tile.items[i].id]
        some(Test(_, _)) == {Key(tiles[n].at) : n \in {m \in DOMAIN tiles : Test(m, known(tiles[m]))}}
        last(S, key) == CHOOSE n \in S : Key(tiles[n].at) = key /\ \A m \in S : Key(tiles[m].at) = key => m <= n
        grounds == {n \in DOMAIN tiles : Stack(types, tiles[n]).items # << >>}
        change(n) == UNION {type(tiles[n], i).change : i \in known(tiles[n])}
        height(n) == Lesser(255, Cardinality({i \in known(tiles[n]) : type(tiles[n], i).tall}))
        keyed(S, Value(_)) == [key \in {Key(tiles[n].at) : n \in S} |-> Value(last(S, key))]
    IN  [ground |-> keyed(grounds, LAMBDA n : Stack(types, tiles[n])),
         blocked |-> some(LAMBDA n, K : \E i \in K : type(tiles[n], i).solid),
         opaque |-> some(LAMBDA n, K : \E i \in K : type(tiles[n], i).opaque),
         zone |-> some(LAMBDA n, K : Bit(tiles[n].flags, 0)),
         change |-> keyed({n \in DOMAIN tiles : change(n) # {}}, change),
         height |-> keyed({n \in DOMAIN tiles : height(n) > 0}, height)]

\* The whole map, and its chunks by their id.
FromFormats(types, tiles) == Layers(types, tiles, LAMBDA p : p)
FromOtbmTiles(types, tiles) == Layers(types, tiles, Relative)
Prechunk(types, tiles) ==
    [id \in {ChunkOf(tiles[n].at) : n \in DOMAIN tiles} |->
        FromOtbmTiles(types, SelectSeq(tiles, LAMBDA tile : ChunkOf(tile.at) = id))]

\* The spawn: the temple of the town of that exact name, else of the first.
SpawnOf(towns, name) ==
    LET named == SelectSeq(towns, LAMBDA t : t[2] = name)
    IN  IF named # << >> THEN SubSeq(named[1], 3, 5)
        ELSE IF towns # << >> THEN SubSeq(towns[1], 3, 5)
        ELSE <<1000, 1000, 7>>

=============================================================================
