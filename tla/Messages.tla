------------------------------ MODULE Messages ------------------------------
(***************************************************************************)
(* The packets of the game protocol: the builders of crates/protocol/src   *)
(* and the parsers of what a client sends.                                 *)
(*                                                                         *)
(* A position is <<x, y, z>>, an item [client, animated, subtype] with     *)
(* subtype Plain when there is none.  A builder writes its arguments in    *)
(* the order its doc comment gives them.                                   *)
(***************************************************************************)
EXTENDS Packets

Plain == -1
Least(a, b) == IF a < b THEN a ELSE b

Place(p) == U16(p[1]) \o U16(p[2]) \o U8(p[3])
WriteItem(item) ==
    U16(item.client) \o <<255>>
    \o (IF item.subtype # Plain THEN U8(item.subtype) ELSE << >>)
    \o (IF item.animated THEN <<254>> ELSE << >>)
WriteItems(items) == FlattenSeq([i \in DOMAIN items |-> WriteItem(items[i])])

\* The looks of a creature: without a type the four colours and the addons
\* give way to the id of an item.
AddOutfit(o) ==
    U16(o.type) \o (IF o.type # 0 THEN o.colours \o U8(o.addons) ELSE U16(0)) \o U16(o.mount)

\* A creature, in full the first time; speeds are halved on the wire.
AddCreature(c, known, forget) ==
    (IF known THEN U16(98) \o U32(c.id)
     ELSE U16(97) \o U32(forget) \o U32(c.id) \o U8(c.kind) \o Text(c.name))
    \o U8(c.health) \o U8(c.direction) \o AddOutfit(c.outfit) \o c.light \o U16(c.speed \div 2)
    \o <<0, 0>> \o (IF known THEN << >> ELSE <<0>>) \o U8(c.kind) \o <<0, 255>> \o U16(0) \o U8(c.ghost)

\* Things on a tile.
AddTileItem(p, stackpos, item) == <<106>> \o Place(p) \o U8(stackpos) \o WriteItem(item)
UpdateTileItem(p, stackpos, item) == <<107>> \o Place(p) \o U8(stackpos) \o WriteItem(item)
AddTileCreature(p, stackpos, creature) == <<106>> \o Place(p) \o U8(stackpos) \o creature
RemoveTileThing(p, stackpos) == <<108>> \o Place(p) \o U8(stackpos)
CreatureMove(id, p) == <<109, 255, 255>> \o U32(id) \o Place(p)
CreatureTurn(id, direction, ghost) == <<107, 255, 255>> \o U32(id) \o U16(99) \o U32(id) \o U8(direction) \o U8(ghost)
RemoveCreatureById(id) == <<108, 255, 255>> \o U32(id)
CancelWalk(direction) == <<181>> \o U8(direction)

\* Mutant of OpenContainer: the count is that of the contents.
OpenContainerAll(cid, bag, name, capacity, parent, items) ==
    <<110>> \o U8(cid) \o WriteItem(bag) \o Text(name) \o U8(capacity) \o <<IF parent THEN 1 ELSE 0, 1, 0>>
    \o U16(Len(items)) \o U16(0) \o U8(Len(items)) \o WriteItems(SubSeq(items, 1, Least(capacity, Len(items))))

\* A window: as many items as fit, with their count before them.
OpenContainer(cid, bag, name, capacity, parent, items) ==
    LET sent == Least(Least(capacity, Len(items)), MostCounted)
    IN  <<110>> \o U8(cid) \o WriteItem(bag) \o Text(name) \o U8(capacity) \o <<IF parent THEN 1 ELSE 0, 1, 0>>
        \o U16(Least(Len(items), 65535)) \o U16(0) \o U8(sent) \o WriteItems(SubSeq(items, 1, sent))
CloseContainer(cid) == <<111>> \o U8(cid)
AddContainerItem(cid, slot, item) == <<112>> \o U8(cid) \o U16(slot) \o WriteItem(item)
UpdateContainerItem(cid, slot, item) == <<113>> \o U8(cid) \o U16(slot) \o WriteItem(item)
\* With the item that takes the place, or none.
RemoveContainerItem(cid, slot, next) ==
    <<114>> \o U8(cid) \o U16(slot) \o (IF next = << >> THEN U16(0) ELSE WriteItem(next[1]))

\* Combat, chat, looks.
HealthPercent(health, most) ==
    LET base == IF most < 1 THEN 1 ELSE most
    IN  IF health <= 0 THEN 0 ELSE Least(100, (100 * health + base - 1) \div base)
CreatureHealth(id, percent) == <<140>> \o U32(id) \o U8(percent)
DeathWindow(reduction) == <<40, 0>> \o U8(reduction)
DamageText(mode, p, value, colour, text) ==
    <<180>> \o U8(mode) \o Place(p) \o U32(value) \o U8(colour) \o U32(0) \o U8(0) \o Text(text)
CreatureSay(statement, name, level, type, p, text) ==
    <<170>> \o U32(statement) \o Text(name) \o U16(level) \o U8(type) \o Place(p) \o Text(text)
InfoDescr(text) == <<180, 22>> \o Text(SubSeq(text, 1, Least(MostCounted, Len(text))))
CreatureOutfit(id, o) == <<142>> \o U32(id) \o AddOutfit(o)
OutfitWindow(o, outfits, mounts) ==
    LET kinds == Least(MostCounted, Len(outfits))
        rides == Least(MostCounted, Len(mounts))
    IN  <<200>> \o AddOutfit(o)
        \o U8(kinds) \o FlattenSeq([i \in 1..kinds |->
               U16(outfits[i].type) \o Text(outfits[i].name) \o U8(outfits[i].addons)])
        \o U8(rides) \o FlattenSeq([i \in 1..rides |-> U16(mounts[i].id) \o Text(mounts[i].name)])

\* Entering the world.
SelfInfo(id) ==
    LET speed == [i \in 1..3 |-> <<3>> \o Zeros(4)]     \* three constants
    IN  <<23>> \o U32(id) \o U16(50) \o FlattenSeq(speed) \o <<0, 0, 0>> \o U16(0) \o U16(25)
Stats(s) ==
    <<160>> \o U16(s.health) \o U16(s.maxHealth) \o U32(s.free) \o U32(s.total)
    \o U32(s.experience) \o U32(0) \o U16(s.level) \o U8(s.percent)
    \o U16(100) \o U16(0) \o U16(0) \o U16(0) \o U16(100) \o U16(s.mana) \o U16(s.maxMana)
    \o U8(s.magic) \o U8(s.magic) \o U8(0) \o U8(s.soul) \o U16(s.stamina) \o U16(s.speed \div 2)
    \o U16(0) \o U16(0) \o U16(0) \o U8(0)
Skills == <<161>> \o FlattenSeq([i \in 1..7 |-> U16(10) \o U16(10) \o U8(0)]) \o Zeros(24)
WorldLight(level, colour) == <<130>> \o U8(level) \o U8(colour)
CreatureLight(id, level, colour) == <<141>> \o U32(id) \o U8(level) \o U8(colour)
SetInventorySlot(slot, item) == <<120>> \o U8(slot) \o WriteItem(item)
InventoryEmpty(slot) == <<121>> \o U8(slot)
EmptyInventory == FlattenSeq([slot \in 1..11 |-> InventoryEmpty(slot)])
BasicData == <<159, 0>> \o U32(0) \o <<1>> \o U16(MostCounted) \o [i \in 1..MostCounted |-> i - 1]
Icons(mask) == <<162>> \o U16(mask)
MagicEffect(p, effect) == <<131>> \o Place(p) \o U8(effect)
ExtendedInit == <<50, 0, 0, 0>>

\* An equipped slot: its item, or empty if there is none or it has no type.
InventorySlot(slot, items, types) ==
    LET here == {i \in DOMAIN items : items[i].slot = slot /\ items[i].id \in DOMAIN types}
        item == items[CHOOSE i \in here : \A j \in here : j <= i]
        type == types[item.id]
    IN  IF here = {} THEN InventoryEmpty(slot)
        ELSE SetInventorySlot(slot,
                [client |-> type.client, animated |-> type.animated,
                 subtype |-> IF type.stackable THEN (IF item.count = 0 THEN 1 ELSE item.count)
                             ELSE IF type.fluid THEN item.count ELSE Plain])

\* What a client gets when it enters, around the map the world encoded.
EnterBurst(id, p, map, items, types, s, light) ==
    SelfInfo(id) \o <<10, 15>> \o map \o MagicEffect(p, 10)
    \o FlattenSeq([slot \in 1..11 |-> InventorySlot(slot, items, types)])
    \o Stats(s) \o Skills \o WorldLight(light[1], light[2]) \o CreatureLight(id, 0, 0)
    \o BasicData \o Icons(0)

(***************************************************************************)
(* What a client sends, without its first byte.                            *)
(***************************************************************************)
Fixed(body, types) == LET r == Reading(body, types) IN IF r.ok THEN Parsed(r.got) ELSE Refused
ParseThrow(body) == Fixed(body, <<"u16", "u16", "u8", "u16", "u8", "u16", "u16", "u8", "u8">>)
ParseUseItem(body) == Fixed(body, <<"u16", "u16", "u8", "u16", "u8", "u8">>)
ParseContainerCid(body) == Fixed(body, <<"u8">>)
ParseAttack(body) == Fixed(body, <<"u32">>)
ParseLook(body) ==
    LET r == Fixed(body, <<"u16", "u16", "u8", "u16", "u8">>)
    IN  IF r.ok THEN Parsed(SubSeq(r.got, 1, 3) \o <<r.got[5]>>) ELSE Refused
ParseLookBattle(body) == Fixed(body, <<"u32">>)
ParseSetOutfit(body) == Fixed(body, <<"u16", "u8", "u8", "u8", "u8", "u8", "u16">>)
ParseSay(body) ==
    LET r == Fixed(body, <<"u8", "text">>)
    IN  IF r.ok /\ r.got[1] \in {1, 2, 3} /\ r.got[2] # << >> THEN r ELSE Refused

\* A walk: as many steps as it says, those that are none left out.
WalkSteps == <<<<1, 0>>, <<1, -1>>, <<0, -1>>, <<-1, -1>>, <<-1, 0>>, <<-1, 1>>, <<0, 1>>, <<1, 1>>>>
ParseAutoWalk(body) ==
    LET steps == SelectSeq(SubSeq(body, 2, 1 + body[1]), LAMBDA b : b \in 1..8)
    IN  IF body = << >> \/ body[1] = 0 \/ Len(body) < 1 + body[1] \/ steps = << >> THEN Refused
        ELSE Parsed(steps)

\* Where the steps lead on the same floor; no step may leave the map.
AutoWalkDestination(start, steps) ==
    FoldLeft(LAMBDA p, s :
                LET q == <<p[1] + WalkSteps[s][1], p[2] + WalkSteps[s][2], p[3]>>
                IN  IF p = << >> \/ q[1] \notin Word \/ q[2] \notin Word THEN << >> ELSE q,
             start, steps)

\* The command that a message of the client stands for, with what it takes;
\* none for anything else.  A chat line that starts with a slash is one of a
\* gamemaster; Stop stands for two commands.
Moves == [op \in 101..109 \ {105} |-> <<"North", "East", "South", "West", "", "NorthEast", "SouthEast", "SouthWest", "NorthWest">>[op - 100]]
Turns == [op \in 111..114 |-> <<"North", "East", "South", "West">>[op - 110]]
Slash == 47
Understood(message) ==
    LET op == message[1]
        body == Tail(message)
        asked(command, r) == IF r.ok THEN <<command>> \o r.got ELSE << >>
        said == ParseSay(body)
    IN  IF message = << >> THEN << >>
        ELSE CASE op \in DOMAIN Moves -> <<"Move", Moves[op]>>
               [] op \in DOMAIN Turns -> <<"Turn", Turns[op]>>
               [] op = 20 -> <<"Logout">>
               [] op = 100 -> asked("GoToSteps", ParseAutoWalk(body))
               [] op = 120 -> asked("MoveThing", ParseThrow(body))
               [] op = 130 -> asked("UseItem", ParseUseItem(body))
               [] op = 135 -> asked("CloseContainer", ParseContainerCid(body))
               [] op = 136 -> asked("UpArrow", ParseContainerCid(body))
               [] op = 140 -> asked("Look", ParseLook(body))
               [] op = 141 -> asked("LookBattle", ParseLookBattle(body))
               [] op = 150 -> IF said.ok /\ said.got[2][1] = Slash THEN <<"GmCommand", said.got[2]>>
                              ELSE asked("Say", said)
               [] op = 161 -> asked("SetTarget", ParseAttack(body))
               [] op = 162 -> asked("FollowTarget", ParseAttack(body))
               [] op = 190 -> <<"SetTarget", 0, "ClearAutoWalk">>
               [] op = 210 -> <<"RequestOutfit">>
               [] op = 211 -> asked("ChangeOutfit", ParseSetOutfit(body))
               [] OTHER -> << >>

(***************************************************************************)
(* A map description: the tiles in the order of the client, runs of empty  *)
(* ones as a count.  A tile is [under, creatures, over], or NoTile.          *)
(***************************************************************************)
NoTile == [empty |-> TRUE]

\* The things a client shows: ten at most, but all the creatures.
ThingsShown(tile) ==
    LET under == SubSeq(tile.under, 1, Least(10, Len(tile.under)))
        shown == Len(under) + Len(tile.creatures)
    IN  [under |-> under, creatures |-> tile.creatures,
         over |-> SubSeq(tile.over, 1, Least(Len(tile.over), IF shown < 10 THEN 10 - shown ELSE 0))]
TileThings(tile) ==
    LET shown == ThingsShown(tile)
    IN  WriteItems(shown.under) \o FlattenSeq(shown.creatures) \o WriteItems(shown.over)

\* One tile on: skip counts the empty tiles not yet told, -1 before any.
Described(acc, tile) ==
    IF tile = NoTile
    THEN IF acc.skip = MostCounted - 1 THEN [out |-> acc.out \o <<MostCounted, 255>>, skip |-> -1] ELSE [acc EXCEPT !.skip = @ + 1]
    ELSE [out |-> acc.out \o (IF acc.skip >= 0 THEN U8(acc.skip) \o <<255>> ELSE << >>) \o U16(0) \o TileThings(tile),
          skip |-> 0]

Description(tiles) ==
    LET all == FoldLeft(Described, [out |-> << >>, skip |-> -1], tiles)
    IN  all.out \o (IF all.skip >= 0 THEN U8(all.skip) \o <<255>> ELSE << >>)

\* The client: a tile that is not empty starts with a word for its light,
\* then come things, here of three bytes, until a count of empty tiles.
RECURSIVE ClientTiles(_, _, _)
ClientTiles(data, left, seen) ==
    LET word(i) == FromU16(SubSeq(data, i + 1, i + 2))
        start == IF word(0) >= 65280 THEN 0 ELSE 2
        ends == {i \in start..Len(data) - 2 : (i - start) % 3 = 0 /\ word(i) >= 65280}
        end == CHOOSE i \in ends : \A j \in ends : i <= j
        run == Least(data[end + 1], left - 1)
    IN  IF left = 0 \/ ends = {} THEN [ok |-> left = 0 /\ data = << >>, got |-> seen]
        ELSE ClientTiles(SubSeq(data, end + 3, Len(data)), left - 1 - run,
                         seen \o <<(end - start) \div 3>> \o [i \in 1..run |-> 0])

=============================================================================
