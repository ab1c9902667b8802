---------------------------- MODULE MCAlgorithms ----------------------------
(***************************************************************************)
(* The questions: every way to block a square of nine tiles, lines over a  *)
(* floor and a roof, files with every escape and stacks of all shapes,     *)
(* connections cut after each byte, one packet of each kind, and numbers   *)
(* at the edges of the tables.                                             *)
(***************************************************************************)
EXTENDS Algorithms

MCPaths ==
    {[free |-> free \cup {<<1, 1>>, <<3, 1>>}, taken |-> taken, start |-> start, target |-> target, beside |-> beside] :
     free \in SUBSET {<<0, 0>>, <<0, 1>>, <<0, 2>>, <<1, 0>>, <<1, 2>>, <<2, 0>>, <<2, 1>>, <<2, 2>>},
     taken \in {{}, {<<1, 1>>}},
     start \in {<<1, 1>>, <<0, 0>>}, target \in {<<2, 2>>, <<0, 2>>, <<2, 1>>, <<3, 1>>}, beside \in BOOLEAN}

Yard == (0..3) \X (0..2)
Around == {ChunkOf(p) : p \in (0..3) \X (0..3) \X (0..9)}
Terrace(opaque, roof) ==
    [held |-> Around,
     ground |-> {<<p[1], p[2], 7>> : p \in Yard} \cup {<<p[1], p[2], 6>> : p \in roof},
     opaque |-> {<<p[1], p[2], 7>> : p \in opaque}, blocked |-> {}, zone |-> {}, change |-> << >>, height |-> << >>]
Terraces == {Terrace(opaque, roof) : opaque \in {S \in SUBSET Yard : Cardinality(S) <= 2}, roof \in {{}, {<<1, 1>>}}}
MCViews ==
    {[t |-> t, from |-> <<a[1], a[2], 7>>, to |-> <<b[1], b[2], z>>] :
     t \in Terraces, a \in Yard, b \in Yard, z \in {7, 6}}

Type(id, order, group, top) ==
    [id |-> id, client |-> 253 + id, order |-> order, group |-> group, solid |-> id = 3, opaque |-> id = 3,
     tall |-> id = 2, stackable |-> group = 5, top |-> top, animated |-> id = 2, change |-> {}]
Types == << Type(254, 0, 1, FALSE), Type(255, 2, 0, TRUE), Type(2, 1, 0, TRUE), Type(3, 1, 0, TRUE),
            Type(4, 0, 5, FALSE), Type(5, 0, 2, FALSE) >>
Thing(id, count) == [id |-> id, count |-> count, contents |-> << >>]
Things == {Thing(254, NoCount), Thing(255, NoCount), Thing(2, NoCount), Thing(3, NoCount), Thing(4, 253), Thing(9, NoCount),
           [Thing(5, NoCount) EXCEPT !.contents = <<Thing(4, 7)>>]}
Entries == << [from |-> 2, to |-> 3, change |-> {"down"}, name |-> "", showcount |-> TRUE],
              [from |-> 3, to |-> 3, change |-> {"north"}, name |-> "stairs", showcount |-> TRUE] >>
Tile(p, flags, items) == [at |-> p, flags |-> flags, items |-> items]
MCMaps ==
    {[types |-> Types, entries |-> Entries, tiles |-> <<Tile(<<1, 1, 7>>, flags, items)>> \o more] :
     flags \in {0, 1}, items \in SeqOf(Things, 3) \cup {<<Thing(254, NoCount)>> \o s : s \in SeqOf(Things, 3)},
     more \in {<< >>, <<Tile(<<1, 1, 7>>, 0, <<Thing(4, 2)>>)>>, <<Tile(<<2, 1, 7>>, 1, <<Thing(2, NoCount), Thing(255, NoCount)>>)>>}}

Keys == ExpandKey(<<1, 200, 65535, 4660>>)
Payload(n) == [i \in 1..n |-> (37 * i + n) % 256]
MCMails ==
    {[batches |-> batches, keys |-> Keys, cut |-> cut, flip |-> flip] :
     batches \in {<< <<Payload(1), Payload(2)>>, <<Payload(5)>> >>, << <<Payload(0)>>, <<Payload(3), Payload(3)>>, <<Payload(1)>> >>,
                  << <<Payload(2)>>, <<Payload(MaxFrame - 3)>>, <<Payload(1)>> >>, << <<Payload(MaxFrame - 6)>> >>},
     <<cut, flip>> \in (0..36 \cup {MaxFrame + 2, 2 * MaxFrame}) \X {0} \cup {18, 2 * MaxFrame} \X (1..24)}

\* Fields: a packet is laid out as head, then entries.
Letter(bytes, head, each, says) == [bytes |-> bytes, head |-> head, each |-> each, says |-> says]
Spot == <<300, 40, 7>>
Coin(n) == [client |-> 3031, animated |-> FALSE, subtype |-> n]
Torch == [client |-> 2920, animated |-> TRUE, subtype |-> Plain]
Look(type) == [type |-> type, colours |-> <<10, 20, 30, 40>>, addons |-> 3, mount |-> 258]
Rat == [id |-> 70000, kind |-> 1, name |-> <<82, 97, 116>>, health |-> 55, direction |-> 2, outfit |-> Look(21),
        light |-> <<6, 215>>, speed |-> 221, ghost |-> 0]
At == <<"u16", "u16", "u8">>
AnItem == <<"u16", "u8", "u8">>
Bytes(n) == [i \in 1..n |-> "u8"]
Words(n) == [i \in 1..n |-> "u16"]
Repeat(n, s) == FlattenSeq([i \in 1..n |-> s])
OutfitIs == <<"u16", "u8", "u8", "u8", "u8", "u8", "u16">>
Dressed == <<21, 10, 20, 30, 40, 3, 258>>
Window(n, capacity) == OpenContainer(3, Torch, <<98>>, capacity, TRUE, [i \in 1..n |-> Coin(i % 100)])
Windows ==
    {Letter(Window(n, capacity), <<"u8", "u8">> \o AnItem \o <<"text", "u8", "u8", "u8", "u8", "u16", "u16", "u8">>, AnItem,
            <<110, 3, 2920, 255, 254, <<98>>, capacity, 1, 1, 0, n, 0, Least(Least(n, capacity), MostCounted)>>
            \o FlattenSeq([i \in 1..Least(Least(n, capacity), MostCounted) |-> <<3031, 255, i % 100>>])) :
     n \in {0, 1, 3, 5, 6, 7, 9}, capacity \in {0, 3, 5, 8}}
Health == [health |-> 150, maxHealth |-> 200, free |-> 40000, total |-> 40000, experience |-> 0, level |-> 1, percent |-> 9,
           mana |-> 5, maxMana |-> 6, magic |-> 2, soul |-> 100, stamina |-> 2520, speed |-> 220]
Worn == << [slot |-> 5, id |-> 7, count |-> 0], [slot |-> 6, id |-> 8, count |-> 1] >>
Wardrobes == 7 :> [client |-> 3031, animated |-> FALSE, stackable |-> TRUE, fluid |-> FALSE]
Wardrobe(n) == OutfitWindow(Look(21), [i \in 1..n |-> [type |-> i, name |-> <<65>>, addons |-> 1]], << >>)
MCLetters ==
    Windows \cup
    {Letter(Wardrobe(n), <<"u8">> \o OutfitIs \o <<"u8">> \o Repeat(Least(n, MostCounted), <<"u16", "text", "u8">>) \o <<"u8">>, << >>,
            <<200>> \o Dressed \o <<Least(n, MostCounted)>> \o FlattenSeq([i \in 1..Least(n, MostCounted) |-> <<i, <<65>>, 1>>]) \o <<0>>) : n \in {0, 2, 6, 7}}
    \cup {Letter(HealthLine[1], <<"u8", "u32", "u8">>, << >>, <<140, 70000, HealthLine[2]>>) : HealthLine \in
            {<<CreatureHealth(70000, HealthPercent(h, m)), IF h <= 0 THEN 0 ELSE IF h >= m THEN 100 ELSE (100 * h + m - 1) \div m>> :
             h \in {-1, 0, 1, 99, 149, 150, 151}, m \in {1, 150}}}
    \cup
    {Letter(AddTileItem(Spot, 4, Coin(9)), <<"u8">> \o At \o <<"u8">> \o AnItem, << >>, <<106>> \o Spot \o <<4, 3031, 255, 9>>),
     Letter(UpdateTileItem(Spot, 4, Torch), <<"u8">> \o At \o <<"u8">> \o AnItem, << >>, <<107>> \o Spot \o <<4, 2920, 255, 254>>),
     Letter(RemoveTileThing(Spot, 9), <<"u8">> \o At \o <<"u8">>, << >>, <<108>> \o Spot \o <<9>>),
     Letter(AddTileCreature(Spot, 1, AddCreature(Rat, FALSE, 9)),
            <<"u8">> \o At \o <<"u8", "u16", "u32", "u32", "u8", "text", "u8", "u8">> \o OutfitIs
            \o <<"u8", "u8", "u16", "u8", "u8", "u8", "u8", "u8", "u8", "u16", "u8">>, << >>,
            <<106>> \o Spot \o <<1, 97, 9, 70000, 1, <<82, 97, 116>>, 55, 2>> \o Dressed \o <<6, 215, 110, 0, 0, 0, 1, 0, 255, 0, 0>>),
     Letter(AddCreature([Rat EXCEPT !.outfit = Look(0)], TRUE, 0),
            <<"u16", "u32", "u8", "u8", "u16", "u16", "u16", "u8", "u8", "u16", "u8", "u8", "u8", "u8", "u8", "u16", "u8">>, << >>,
            <<98, 70000, 55, 2, 0, 0, 258, 6, 215, 110, 0, 0, 1, 0, 255, 0, 0>>),
     Letter(CreatureMove(70000, Spot), <<"u8", "u16", "u32">> \o At, << >>, <<109, 65535, 70000>> \o Spot),
     Letter(CreatureTurn(70000, 3, 1), <<"u8", "u16", "u32", "u16", "u32", "u8", "u8">>, << >>, <<107, 65535, 70000, 99, 70000, 3, 1>>),
     Letter(RemoveCreatureById(70000), <<"u8", "u16", "u32">>, << >>, <<108, 65535, 70000>>),
     Letter(CancelWalk(2), <<"u8", "u8">>, << >>, <<181, 2>>),
     Letter(CloseContainer(3), <<"u8", "u8">>, << >>, <<111, 3>>),
     Letter(AddContainerItem(3, 258, Coin(9)), <<"u8", "u8", "u16">> \o AnItem, << >>, <<112, 3, 258, 3031, 255, 9>>),
     Letter(UpdateContainerItem(3, 258, Coin(9)), <<"u8", "u8", "u16">> \o AnItem, << >>, <<113, 3, 258, 3031, 255, 9>>),
     Letter(RemoveContainerItem(3, 258, << >>), <<"u8", "u8", "u16", "u16">>, << >>, <<114, 3, 258, 0>>),
     Letter(RemoveContainerItem(3, 258, <<Coin(9)>>), <<"u8", "u8", "u16">> \o AnItem, << >>, <<114, 3, 258, 3031, 255, 9>>),
     Letter(DeathWindow(40), <<"u8", "u8", "u8">>, << >>, <<40, 0, 40>>),
     Letter(DamageText(23, Spot, 70000, 180, <<72>>), <<"u8", "u8">> \o At \o <<"u32", "u8", "u32", "u8", "text">>, << >>,
            <<180, 23>> \o Spot \o <<70000, 180, 0, 0, <<72>>>>),
     Letter(CreatureSay(70000, <<80>>, 1, 3, Spot, <<72, 105>>), <<"u8", "u32", "text", "u16", "u8">> \o At \o <<"text">>, << >>,
            <<170, 70000, <<80>>, 1, 3>> \o Spot \o <<<<72, 105>>>>),
     Letter(InfoDescr(Payload(9)), <<"u8", "u8", "text">>, << >>, <<180, 22, SubSeq(Payload(9), 1, MostCounted)>>),
     Letter(CreatureOutfit(70000, Look(21)), <<"u8", "u32">> \o OutfitIs, << >>, <<142, 70000>> \o Dressed),
     Letter(WorldLight(215, 208), <<"u8", "u8", "u8">>, << >>, <<130, 215, 208>>),
     Letter(CreatureLight(70000, 7, 215), <<"u8", "u32", "u8", "u8">>, << >>, <<141, 70000, 7, 215>>),
     Letter(EmptyInventory, Repeat(11, <<"u8", "u8">>), << >>, FlattenSeq([i \in 1..11 |-> <<121, i>>])),
     Letter(EnterBurst(70000, Spot, << >>, Worn, Wardrobes, Health, <<215, 208>>),
            <<"u8", "u32", "u16">> \o Bytes(18) \o Words(2) \o Bytes(2) \o <<"u8">> \o At \o <<"u8">>
            \o Bytes(8) \o <<"u8", "u8">> \o AnItem \o Bytes(12)
            \o <<"u8", "u16", "u16", "u32", "u32", "u32", "u32", "u16", "u8">> \o Words(7) \o Bytes(4) \o Words(5) \o Bytes(1)
            \o <<"u8">> \o Repeat(7, <<"u16", "u16", "u8">>) \o Bytes(24) \o Bytes(3) \o <<"u8", "u32", "u8", "u8">>
            \o <<"u8", "u8", "u32", "u8", "u16">> \o Bytes(MostCounted) \o <<"u8", "u16">>, << >>,
            <<23, 70000, 50>> \o Repeat(3, <<3, 0, 0, 0, 0>>) \o <<0, 0, 0, 0, 25, 10, 15, 131>> \o Spot \o <<10>>
            \o <<121, 1, 121, 2, 121, 3, 121, 4, 120, 5, 3031, 255, 1, 121, 6, 121, 7, 121, 8, 121, 9, 121, 10, 121, 11>>
            \o <<160, 150, 200, 40000, 40000, 0, 0, 1, 9, 100, 0, 0, 0, 100, 5, 6, 2, 2, 0, 100, 2520, 110, 0, 0, 0, 0>>
            \o <<161>> \o Repeat(7, <<10, 10, 0>>) \o Zeros(24) \o <<130, 215, 208, 141, 70000, 0, 0>>
            \o <<159, 0, 0, 1, MostCounted>> \o [i \in 1..MostCounted |-> i - 1] \o <<162, 0>>)}

Written(types, values) ==
    FlattenSeq([i \in DOMAIN types |-> CASE types[i] = "u8" -> U8(values[i]) [] types[i] = "u16" -> U16(values[i])
                                         [] types[i] = "u32" -> U32(values[i]) [] OTHER -> Text(values[i])])
Meant ==
    {<<<<120>> \o Written(At \o <<"u16", "u8">> \o At \o <<"u8">>, <<1, 2, 7, 3031, 4, 5, 6, 7, 9>>), <<"MoveThing", 1, 2, 7, 3031, 4, 5, 6, 7, 9>>>>,
     <<<<130>> \o Written(At \o <<"u16", "u8", "u8">>, <<65535, 64, 3, 3031, 4, 5>>), <<"UseItem", 65535, 64, 3, 3031, 4, 5>>>>,
     <<<<135, 3>>, <<"CloseContainer", 3>>>>, <<<<136, 3>>, <<"UpArrow", 3>>>>,
     <<<<140>> \o Written(At \o <<"u16", "u8">>, Spot \o <<3031, 4>>), <<"Look">> \o Spot \o <<4>>>>,
     <<<<141>> \o U32(70000), <<"LookBattle", 70000>>>>, <<<<161>> \o U32(0), <<"SetTarget", 0>>>>,
     <<<<162>> \o U32(70000), <<"FollowTarget", 70000>>>>,
     <<<<150, 3>> \o Text(<<72, 105>>), <<"Say", 3, <<72, 105>>>>>>, <<<<150, 1>> \o Text(<<47, 105>>), <<"GmCommand", <<47, 105>>>>>>,
     <<<<150, 5>> \o Text(<<72>>), << >>>>, <<<<150, 1>> \o Text(<< >>), << >>>>,
     <<<<211>> \o Written(OutfitIs, Dressed), <<"ChangeOutfit">> \o Dressed>>,
     <<<<100, 2, 0, 9>>, << >>>>, <<<<100, 0, 1>>, << >>>>, <<<<30>>, << >>>>, <<<<105>>, << >>>>, <<<<20>>, <<"Logout">>>>,
     <<<<190>>, <<"SetTarget", 0, "ClearAutoWalk">>>>, <<<<210>>, <<"RequestOutfit">>>>, <<<<104>>, <<"Move", "West">>>>,
     <<<<107>>, <<"Move", "SouthEast">>>>, <<<<113>>, <<"Turn", "South">>>>}
    \cup {<<<<100, Len(steps) + 1>> \o <<0>> \o steps, <<"GoToSteps">> \o steps>> : steps \in SeqOf(1..8, 3) \ {<< >>}}
MCOrders == {[message |-> o[1], cut |-> cut, means |-> o[2]] : o \in Meant, cut \in 0..20}
Orderly == {o \in MCOrders : o.cut <= Len(o.message)}

Accounts == {[name |-> <<65, 66>>, password |-> <<112>>, characters |-> <<<<74>>, <<75, 76>>>>],
             [name |-> <<65, Newline>>, password |-> <<112>>, characters |-> <<<<77>>>>]}
MCLogins ==
    {[accounts |-> Accounts, name |-> name, password |-> password, key |-> <<1, 200, 65535, 4660>>, version |-> version,
      challenge |-> <<77777, 5>>, echo |-> echo] :
     name \in {<<65, 66>>, <<65, Newline>>, <<66>>}, password \in {<<112>>, << >>},
     version \in {970, 971, 1075, 1076, 1096, 1097, 1098, 1099}, echo \in {<<77777, 5>>, <<77777, 6>>}}

Piece(n) == [empty |-> FALSE, under |-> [i \in 1..n |-> [client |-> 100 + i, animated |-> FALSE, subtype |-> Plain]], creatures |-> << >>,
             over |-> [i \in 1..n |-> [client |-> 200, animated |-> FALSE, subtype |-> Plain]]]
Gap(n) == [i \in 1..n |-> NoTile]
Gaps == {0, 1, 2, 4, 5, 6, 7, 8, 11, 12, 13}
MCStrips == {Gap(n) \o <<Piece(1)>> \o Gap(m) \o <<Piece(6)>> \o Gap(k) : n \in Gaps, m \in Gaps, k \in {0, 3, 6, 7}} \cup {Gap(n) : n \in Gaps}

Pile(what, n) == [i \in 1..n |-> <<what, i>>]
MCLooks == {[tile |-> [under |-> Pile("under", u), creatures |-> Pile("creature", c), over |-> Pile("over", o)], stackpos |-> s] :
            u \in {0, 1, 2, 9, 10}, c \in 0..2, o \in {0, 1, 8}, s \in 0..10}
MCBlows == {[damage |-> d, defense |-> e, armor |-> a, check |-> c] : d \in 0..14, e \in 0..7, a \in 0..9, c \in BOOLEAN}
MCShots == {[skill |-> s, distance |-> d, most |-> m, ammo |-> a] : s \in 0..110, d \in 0..8, m \in {-1, 75, 100, 50}, a \in BOOLEAN}
MCDinners == {[food |-> [lasts |-> l, gain |-> g, every |-> 2, cap |-> 5], eats |-> eats, until |-> 14, health |-> h, most |-> 20] :
              l \in 1..8, g \in 1..3, eats \in {S \in SUBSET {1, 2, 4, 7} : S # {}}, h \in {0, 1, 17}}
MCDays == {[long |-> [Day |-> day, Night |-> night], passed |-> p, ticks |-> n] : day \in {10, 40}, night \in {10, 20}, p \in {5, 10}, n \in 0..30}
=============================================================================
