----------------------------- MODULE Algorithms -----------------------------
(***************************************************************************)
(* The pure algorithms of the server, one question at a time.              *)
(*                                                                         *)
(* A behaviour takes a question of one kind and answers it: paths and      *)
(* lines of sight as Courses does, the others in one step with the         *)
(* operators of MapFile, Packets, Messages and Rules.  The properties      *)
(* compare the answers with what the question asks for, put in other words *)
(* than the code's.                                                        *)
(***************************************************************************)
EXTENDS Courses, MapFile, Messages, Rules

CONSTANTS
    Maps,           \* files: [types, entries, tiles]
    Mails,          \* [batches, keys, cut, flip]
    Letters,        \* packets: [bytes, head, each, says]
    Orders,         \* messages of a client: [message, cut, means]
    Logins,         \* [accounts, name, password, key, version, challenge, echo]
    Strips,         \* sequences of tiles to describe
    Looks,          \* [tile, stackpos]
    Blows,          \* [damage, defense, armor, check]
    Shots,          \* [skill, distance, most, ammo]
    Dinners,        \* [food, eats, until, health, most]
    Days            \* [long, passed, ticks]

Init ==
    /\ \/ PathAsked \/ SightAsked
       \/ kind = "map" /\ question \in Maps
       \/ kind = "mail" /\ question \in Mails
       \/ kind = "letter" /\ question \in Letters
       \/ kind = "order" /\ question \in Orders
       \/ kind = "login" /\ question \in Logins
       \/ kind = "strip" /\ question \in Strips
       \/ kind = "look" /\ question \in Looks
       \/ kind = "blow" /\ question \in Blows
       \/ kind = "shot" /\ question \in Shots
       \/ kind = "dinner" /\ question \in Dinners
       \/ kind = "day" /\ question \in Days
    /\ Fresh

(***************************************************************************)
(* A map: the editor (external) writes it, the server reads it.            *)
(***************************************************************************)
OtbNode(type) ==
    [kind |-> type.group, children |-> << >>,
     props |-> U32((IF type.solid THEN 1 ELSE 0) + (IF type.opaque THEN 2 ELSE 0) + (IF type.tall THEN 8 ELSE 0)
                   + (IF type.stackable THEN 128 ELSE 0) + (IF type.top THEN 8192 ELSE 0)
                   + (IF type.animated THEN 16777216 ELSE 0))
               \o <<16>> \o U16(2) \o U16(type.id) \o <<17>> \o U16(2) \o U16(type.client)
               \o <<99>> \o U16(1) \o <<7>> \o <<43>> \o U16(1) \o U8(type.order)]
OtbFile(types) ==
    WriteFile([kind |-> 0, props |-> U32(0) \o <<1>> \o U16(140) \o Zeros(140),
               children |-> [i \in DOMAIN types |-> OtbNode(types[i])]])

ItemNode(item) ==
    LET leaf(thing, inside) ==
            [kind |-> 6, children |-> inside,
             props |-> U16(thing.id) \o IF thing.count = NoCount THEN << >> ELSE <<15>> \o U8(thing.count)]
    IN  leaf(item, [i \in DOMAIN item.contents |-> leaf(item.contents[i], << >>)])
TileNode(tile, base) ==
    LET ground == IF tile.items # << >> /\ tile.items[1].count = NoCount /\ tile.items[1].contents = << >> THEN 1 ELSE 0
    IN  [kind |-> 5,
         props |-> U8(tile.at[1] - base[1]) \o U8(tile.at[2] - base[2])
                   \o (IF tile.flags = 0 THEN << >> ELSE <<3>> \o U32(tile.flags))
                   \o (IF ground = 1 THEN <<9>> \o U16(tile.items[1].id) ELSE << >>),
         children |-> [i \in 1..Len(tile.items) - ground |-> ItemNode(tile.items[i + ground])]]
Town == [kind |-> 13, props |-> U32(1) \o Text(<<84>>) \o Place(<<2, 3, 7>>), children |-> << >>]
OtbmFile(tiles) ==
    LET base == <<0, 0, 7>>
        area == [kind |-> 4, props |-> Place(base),
                 children |-> [i \in DOMAIN tiles |-> TileNode(tiles[i], base)]]
        towns == [kind |-> 12, props |-> << >>, children |-> <<Town>>]
        data == [kind |-> 2, props |-> <<1>> \o Text(<<255>>), children |-> <<area, towns>>]
    IN  WriteFile([kind |-> 0, props |-> U32(2) \o U16(9) \o U16(9) \o U32(3) \o U32(57),
                   children |-> <<data>>])

WhatIsLoaded(otb, otbm, catalog) ==
    [otb |-> otb, otbm |-> otbm, catalog |-> catalog,
     whole |-> FromFormats(catalog, otbm.value.tiles),
     chunks |-> Prechunk(catalog, otbm.value.tiles),
     spawns |-> <<SpawnOf(otbm.value.towns, <<84>>), SpawnOf(otbm.value.towns, <<85>>),
                  SpawnOf(<< >>, <<84>>)>>]
LoadMap ==
    /\ kind = "map"
    /\ \E otb \in {ParseOtb(OtbFile(question.types))}, otbm \in {ParseOtbm(OtbmFile(question.tiles))} :
       \E catalog \in {ById(MergeXml(otb.value, question.entries))} :
           Answer("map", WhatIsLoaded(otb, otbm, catalog))

(***************************************************************************)
(* Messages: a connection that may be cut after any byte and may spoil one *)
(* (flip, 0 for none); the client as its layouts say.                      *)
(***************************************************************************)
OverTheWire(q) ==
    LET sent == Sent([i \in DOMAIN q.batches |-> FlattenSeq(q.batches[i])], q.keys)
        spoilt == [i \in DOMAIN sent |-> IF i = q.flip THEN (sent[i] + 1) % 256 ELSE sent[i]]
    IN  Delivered(SubSeq(spoilt, 1, Least(q.cut, Len(sent))), q.keys)
Deliver == Answer("mail", OverTheWire(question))

\* The fields, and as many entries as the last of them says.
ReadAsLaidOut(letter) ==
    LET head == Reading(letter.bytes, letter.head)
        count == IF letter.each = << >> THEN 0 ELSE head.got[Len(head.got)]
        entries == Reading(head.left, FlattenSeq([i \in 1..count |-> letter.each]))
    IN  [got |-> head.got \o entries.got, whole |-> head.ok /\ entries.ok /\ entries.left = << >>]
ReadLetter == Answer("letter", ReadAsLaidOut(question))

\* A message of a client, of which only the first bytes came; where the
\* steps of a walk would lead from a corner of the map.
Corner == <<1, 65535, 7>>
Obeying(q) ==
    LET command == Understood(SubSeq(q.message, 1, q.cut))
    IN  [means |-> command,
         leads |-> IF command # << >> /\ command[1] = "GoToSteps"
                   THEN AutoWalkDestination(Corner, Tail(command)) ELSE << >>]
Obey == Answer("order", Obeying(question))

\* A client logs in twice: with its password, then with the session key
\* that is in the list of its characters.
OtherWorld == [name |-> <<87>>, host |-> <<72>>, port |-> 7172, motd |-> <<77>>, refusal |-> <<82>>]
FirstReply(q) ==
    Delivered(HandleLogin(Checksummed(LoginRequest(q.version, q.key, q.name, q.password)), q.accounts, OtherWorld),
              ExpandKey(q.key))
ListHead == <<"u8", "text", "u8", "text", "u8", "u8", "u8", "text", "text", "u16", "u8", "u8">>
ListNames(list) ==
    Reading(list.left, FlattenSeq([i \in 1..list.got[12] |-> <<"u8", "text">>]) \o <<"u8", "u8", "u32">>)
SecondLogin(q, session, name) == ParseGameLogin(GameLogin(q.version, q.key, session, name, q.echo))
LogIn ==
    /\ kind = "login"
    /\ \E reply \in {FirstReply(question)} :
        \/ /\ reply = << >>
           /\ Answer("login", [to |-> "nobody", login |-> Refused, in |-> FALSE])
        \/ /\ reply # << >> /\ reply[1][1] # 20
           /\ Answer("login", [to |-> "stranger", login |-> Parsed(reply[1]), in |-> FALSE])
        \/ /\ reply # << >> /\ reply[1][1] = 20
           /\ \E list \in {Reading(reply[1], ListHead)} :
              \E login \in {SecondLogin(question, list.got[4], ListNames(list).got[2])} :
                  Answer("login", [to |-> "account", login |-> login, in |-> Admitted(login, question.challenge)])

DescribeStrip == Answer("strip", ClientTiles(Description(question), Len(question), << >>))

(***************************************************************************)
(* Rules.                                                                  *)
(***************************************************************************)
LookAt == Answer("look", LookedAt(question.tile, question.stackpos))
Strike ==
    /\ kind = "blow"
    /\ \E blow \in ApplyDefenseArmor(question.damage, question.defense, question.armor, question.check) :
           Answer("blow", blow)
Shoot == Answer("shot", DistanceHitChance(question.skill, question.distance, 0, question.most, question.ammo))

\* One tick a unit of time; what is eaten is eaten before the tick.
Dined(q) ==
    LET first == [health |-> q.health, most |-> q.most, meals |-> << >>]
        turn(p, now) == RegenTick(IF now \in q.eats THEN Feed(p, q.food, now) ELSE p, now)
    IN  FoldLeft(turn, first, [i \in 1..q.until |-> i])
Dine == Answer("dinner", Dined(question))

Clock(q) ==
    LET first == [phase |-> "Day", elapsed |-> 0, level |-> WorldLightLevel("Day", 0, q.long)]
    IN  FoldLeft(LAMBDA clock, i : DayNightTick(clock, q.passed, q.long), first, [i \in 1..q.ticks |-> i])
Pass == Answer("day", Clock(question))

Next ==
    \/ SearchStep \/ LookAlong \/ LoadMap
    \/ Deliver \/ ReadLetter \/ Obey \/ LogIn \/ DescribeStrip
    \/ LookAt \/ Strike \/ Shoot \/ Dine \/ Pass

\* The search is a loop that runs to its end.
Spec == Init /\ [][Next]_vars /\ WF_vars(SearchStep)

(***************************************************************************)
(* Properties.                                                             *)
(***************************************************************************)
\* The stack of a tile as the client draws it: the ground, what is always
\* on top by its order, the rest; nothing known is lost but what is beyond
\* MaxThings, and the creatures stand on what is on top.
Layered(types, tile, stack) ==
    LET known == SelectSeq(tile.items, LAMBDA item : item.id \in DOMAIN types)
        top(k) == types[stack.items[k].id].top
        order(k) == types[stack.items[k].id].order
        above(k, l) == \E i, j \in DOMAIN tile.items : i < j /\ tile.items[i] = stack.items[k] /\ tile.items[j] = stack.items[l]
        drawn == 2..Len(stack.items)
    IN  IF tile.items = << >> \/ tile.items[1].id \notin DOMAIN types THEN stack.items = << >>
        ELSE /\ stack.items[1] = tile.items[1]
             /\ Len(stack.items) = Lesser(MaxThings, Len(known))
             /\ \A k \in drawn : top(k) <=> k <= stack.pre
             /\ \A k, l \in drawn : k < l /\ top(k) /\ top(l) => order(k) <= order(l)
             /\ \A k, l \in drawn : k < l /\ (top(k) => top(l) /\ order(k) = order(l)) => above(k, l)
             /\ Len(known) <= MaxThings =>
                    \A i \in DOMAIN known : Cardinality({j \in DOMAIN known : known[j] = known[i]})
                                          = Cardinality({k \in DOMAIN stack.items : stack.items[k] = known[i]})

\* Reading items.otb and a map gives back what was written, whatever bytes
\* it takes; every tile is stacked as above; and the chunks that the tool
\* cuts hold of each position what the whole map holds.
SameInChunks(whole, chunks, p) ==
    LET here == ChunkOf(p) \in DOMAIN chunks
        chunk == chunks[ChunkOf(p)]
    IN  /\ \A layer \in {"blocked", "opaque", "zone"} :
               p \in whole[layer] <=> here /\ Relative(p) \in chunk[layer]
        /\ \A layer \in {"ground", "change", "height"} :
               /\ p \in DOMAIN whole[layer] <=> here /\ Relative(p) \in DOMAIN chunk[layer]
               /\ p \in DOMAIN whole[layer] => whole[layer][p] = chunk[layer][Relative(p)]
MapsLoad ==
    Answered("map") =>
        LET tiles == question.tiles
            places == {tiles[i].at : i \in DOMAIN tiles}
            shown(p) == {i \in DOMAIN tiles : tiles[i].at = p /\ Stack(Got.catalog, tiles[i]).items # << >>}
        IN  /\ Got.otb = [ok |-> TRUE, value |-> question.types]
            /\ Got.otbm.ok /\ Got.otbm.value.tiles = tiles
            /\ Got.spawns = << <<2, 3, 7>>, <<2, 3, 7>>, <<1000, 1000, 7>> >>
            /\ \A p \in places \cup (0..3) \X (0..3) \X {7} : SameInChunks(Got.whole, Got.chunks, p)
            /\ \A i \in DOMAIN tiles : Layered(Got.catalog, tiles[i], Stack(Got.catalog, tiles[i]))
            /\ \A p \in places : p \in DOMAIN Got.whole.ground <=> shown(p) # {}
            /\ \A p \in DOMAIN Got.whole.ground : Layered(Got.catalog, tiles[Max(shown(p))], Got.whole.ground[p])

\* What a connection delivers: the batches that came whole, in their order,
\* but for a spoilt one; how the writer batches its messages and where the
\* connection is cut makes nothing up.  A batch too long for a frame ends
\* the sending (writer_loop).
FrameSize(n) == 6 + ((n + 2 + Block - 1) \div Block) * Block
MailArrives(q, delivered) ==
    LET batch == [i \in DOMAIN q.batches |-> FlattenSeq(q.batches[i])]
        size(i) == FrameSize(Len(batch[i]))
        begin[i \in 1..Len(batch) + 1] == IF i = 1 THEN 0 ELSE begin[i - 1] + size(i - 1)
        fits(i) == \A j \in 1..i : size(j) - 2 <= MaxFrame
        comes(i) == fits(i) /\ begin[i + 1] <= q.cut
        spoilt(i) == begin[i] < q.flip /\ q.flip <= begin[i + 1]
        astray == {i \in DOMAIN batch : q.flip \in {begin[i] + 1, begin[i] + 2}}
        right == SelectSeq([i \in DOMAIN batch |-> i], LAMBDA i : comes(i) /\ ~ spoilt(i))
    IN  IF astray = {} THEN delivered = [k \in DOMAIN right |-> batch[right[k]]]
        ELSE LET before == SelectSeq(right, LAMBDA i : \A j \in astray : i < j)
             IN  /\ IsPrefix([k \in DOMAIN before |-> batch[before[k]]], delivered)
                 /\ \A k \in DOMAIN delivered : \E i \in DOMAIN batch : delivered[k] = batch[i]

\* A client's message is understood as it was meant, or not at all if not
\* all of it came; the steps of a walk add up unless one leaves the map.
Obeyed(q, got) ==
    LET steps == Tail(got.means)
        towards(k, S, T) == Len(SelectSeq(SubSeq(steps, 1, k), LAMBDA s : s \in S))
                            - Len(SelectSeq(SubSeq(steps, 1, k), LAMBDA s : s \in T))
        x(k) == 1 + towards(k, {1, 2, 8}, {4, 5, 6})
        y(k) == 65535 + towards(k, {6, 7, 8}, {2, 3, 4})
    IN  /\ got.means = IF q.cut = Len(q.message) THEN q.means ELSE << >>
        /\ got.means # << >> /\ got.means[1] = "GoToSteps" =>
               got.leads = IF \A k \in 1..Len(steps) : x(k) >= 0 /\ y(k) <= 65535
                           THEN <<x(Len(steps)), y(Len(steps)), 7>> ELSE << >>

\* The two logins: a stranger is told so in the way of its version; the
\* account and the password of a known one come back in its session key,
\* unless one of them has a newline in it, and it is let in with the right
\* echo in a right version.
LoginsWork(q, got) ==
    LET known == \E a \in q.accounts : a.name = q.name /\ a.password = q.password
        simple == Newline \notin Range(q.name) \cup Range(q.password)
        account == CHOOSE a \in q.accounts : a.name = q.name
    IN  IF q.version < 971 THEN got.to = "nobody"
        ELSE IF ~ known THEN got.to = "stranger" /\ got.login.got = BuildError(<<82>>, q.version)
        ELSE /\ got.to = "account" /\ got.login.ok = simple
             /\ simple => /\ SubSeq(got.login.got, 1, 4) = <<q.version, q.key, q.name, q.password>>
                          /\ got.login.got[5] = account.characters[1]
             /\ got.in <=> simple /\ q.echo = q.challenge /\ q.version \in {1097, 1098}

\* Messages arrive: across a connection as above; a packet reads back by
\* its layout, field by field with nothing left over, and a client's is
\* understood only whole; a map description
\* gives the client each tile at its place, however long the runs of empty
\* ones; and the two logins fit each other.
MessagesArrive ==
    /\ Answered("mail") => MailArrives(question, Got)
    /\ Answered("letter") => Got.whole /\ Got.got = question.says
    /\ Answered("order") => Obeyed(question, Got)
    /\ Answered("login") => LoginsWork(question, Got)
    /\ Answered("strip") =>
           /\ Got.ok
           /\ Got.got = [i \in DOMAIN question |->
                IF question[i] = NoTile THEN 0
                ELSE Lesser(10, Len(question[i].under) + Len(question[i].over))]

\* do_look describes the thing that the client shows where the player
\* looked; a blow only loses force to shield and armour, to each no more
\* than it has; the chance of a shot is a percentage that grows with skill;
\* a meal heals what it promises, never above the maximum, and food eaten
\* while one lasts promises nothing more; the light follows the clock.
RulesHold ==
    /\ Answered("look") =>
           LET shown == ThingsShown(question.tile)
               things == shown.under \o shown.creatures \o shown.over
           IN  question.stackpos + 1 \in DOMAIN things => Got = things[question.stackpos + 1]
    /\ Answered("blow") =>
           LET guard == IF question.check THEN question.defense ELSE 0
           IN  /\ 0 <= Got.left /\ Got.left <= Greater(question.damage, 0)
               /\ Got.left >= question.damage - guard - question.armor
               /\ (Got.left = 0 <=> Got.by # "None" \/ question.damage <= 0)
               /\ Got.by = "Armor" => question.armor > 0
    /\ Answered("shot") =>
           /\ question.skill >= 4 => Got \in 0..100
           /\ DistanceHitChance(question.skill + 1, question.distance, 0, question.most, question.ammo) >= Got
    /\ Answered("dinner") =>
           LET food == question.food
               first == Min(question.eats)
               lone == \A t \in question.eats : t = first
               gained == Lesser(food.cap, food.gain * Lesser((food.lasts - 1) \div food.every,
                                                             (question.until - first) \div food.every))
               joined == \A t \in question.eats : t < first + food.lasts
           IN  /\ question.health <= Got.health /\ Got.health <= question.most
               /\ question.health = 0 => Got.health = 0
               /\ lone /\ question.health > 0 => Got.health = Lesser(question.most, question.health + gained)
               /\ joined => Got.health <= question.health + food.cap
    /\ Answered("day") =>
           LET long == question.long
               time == (question.passed * question.ticks) % (long.Day + long.Night)
               bright == IF time < long.Day THEN Rounded(35 * long.Day + 180 * time, long.Day)
                         ELSE Rounded(215 * long.Night - 180 * (time - long.Day), long.Night)
           IN  Got.level = bright /\ Got.phase = (IF time < long.Day THEN "Day" ELSE "Night")

=============================================================================
