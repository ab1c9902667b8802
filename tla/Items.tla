-------------------------------- MODULE Items --------------------------------
(***************************************************************************)
(* Things: the stacks of items on the tiles, what players wear, the        *)
(* containers they have in hand, corpses and their loot, decay, and what   *)
(* of it is saved (world/game/items.rs, containers.rs, and the parts of    *)
(* combat.rs, gm.rs, session.rs and mod.rs that touch items).              *)
(*                                                                         *)
(* A container has no identity: the actor knows its contents by where it   *)
(* was opened from, in one of the player's sixteen `open_containers`, and  *)
(* every handler that moves things has to keep those sources right.  Below *)
(* `boxes' are these entries, open or closed.                              *)
(*                                                                         *)
(* A handler that sends its own player something may find its channel full *)
(* and log that player out half-way; that is the parameter `cut' of the    *)
(* handlers where it makes a difference.  Elsewhere it is the same as a    *)
(* Logout after the handler, and for other players always.                 *)
(*                                                                         *)
(* Sequences count from 1, the code from 0.  Tiles form a row: reach is    *)
(* the distance of one, throws have a relation of their own.  Creatures on *)
(* a tile are the players that stand there.  Refusals change nothing and   *)
(* are not actions.  Light, wire formats and fluids are left out.          *)
(***************************************************************************)
EXTENDS Integers, FiniteSets, SequencesExt

CONSTANTS
    Player, Tile, Slot,
    Cid,         \* container ids, 0 to 15 in the code
    Kind,        \* what an item can be: server ids
    None,
    Stackable, Container, Moveable, Food, Toggled, \* sets of kinds; Toggled: torches
    Toggle,      \* torch_toggle_pair, on Toggled
    Capacity,    \* the room in a container of each kind
    Fits,        \* the slots each kind may be worn in: EquipSlot::admits
    HumanCorpse, MonsterCorpse, Splash,
    Start,       \* the stacks of the map, with how many items lie below creatures
    CanThrow,    \* pairs of tiles: within throwing range, with a free line of sight
    Blocked,     \* tiles that refuse items
    Cap,         \* the largest stack: 100
    TileCap,     \* what a gamemaster may pile up on a tile: 10
    Shown,       \* the last stack position a client can name: 9, counted from 0
    LootMax,     \* what a corpse holds: 20
    Drops,       \* what a monster may drop: a set of sequences of things
    Wanted,      \* bound: the kinds gamemasters make
    MaxMade      \* bound: things made by gamemasters and deaths

\* A thing is one to Cap of a kind that may be stacked, or a single one.
Things == {x \in [kind : Kind, count : 1..Cap] : x.kind \notin Stackable => x.count = 1}
Piles == [pre : Nat, stack : Seq(Things)]
Source == [in : {"slot", "ground", "nested"}, at : Int, idx : Nat]
OpenBoxes == [items : Seq(Things), source : Source, open : BOOLEAN, capacity : Nat]

ASSUME ItemsAssumption ==
    /\ Tile \subseteq Int /\ Slot \subseteq Nat \ {0} /\ Cid \subseteq Nat
    /\ IsFiniteSet(Tile) /\ IsFiniteSet(Slot) /\ IsFiniteSet(Cid)
    /\ Stackable \union Container \union Moveable \union Food \union Toggled \subseteq Kind
    /\ Stackable \intersect Container = {} /\ Toggled \intersect (Stackable \union Container) = {}
    /\ Toggle \in [Toggled -> Toggled] /\ \A k \in Toggled : Toggle[Toggle[k]] = k
    /\ {HumanCorpse, MonsterCorpse, Splash} \subseteq Kind
    /\ Cap \in Nat \ {0} /\ TileCap \in Nat /\ Shown \in Nat /\ LootMax \in Nat
    /\ CanThrow \subseteq Tile \X Tile /\ Blocked \subseteq Tile
    /\ IsFiniteSet(Player) /\ IsFiniteSet(Kind) /\ Wanted \subseteq Kind
    /\ \A k \in Kind : Capacity[k] \in Nat
    /\ None \notin Kind \union Things \union Seq(Things) \union OpenBoxes
    /\ Start \in [Tile -> Piles] /\ Drops \subseteq Seq(Things)

VARIABLES
    ground,     \* each tile's stack, and how many of it lie below creatures (pre)
    players,    \* the players in the world: where, what they wear, their boxes
    saved,      \* what the last save of each player holds
    loot,       \* corpse_contents
    corpses,    \* corpse_tiles with corpse_item_ids: the corpse recorded for a tile
    decaying,   \* decay_queue: tile and stack position, and the kind (history)
    made,       \* how many of each kind came newly into the world (history)
    doubled,    \* how many of each kind deaths copied into corpses (history)
    up          \* the actor has not panicked

vars == <<ground, players, saved, loot, corpses, decaying, made, doubled, up>>

\* ContainerSource: at is a slot, a tile or the parent's cid, idx a place in the parent.
InSlot(s) == [in |-> "slot", at |-> s, idx |-> 0]
OnGround(t) == [in |-> "ground", at |-> t, idx |-> 0]
Nested(c, i) == [in |-> "nested", at |-> c, idx |-> i]

Here == DOMAIN players
Worn(p) == players[p].worn
Boxes(p) == players[p].boxes
At(p) == players[p].at

Near(a, b) == a - b \in {-1, 0, 1}
CreaturesOn(t) == Cardinality({p \in Here : At(p) = t})
Least(a, b) == IF a <= b THEN a ELSE b
Most(a, b) == IF a >= b THEN a ELSE b

-----------------------------------------------------------------------------
(* Stacks on the ground                                                    *)

\* What a client can name on a tile. A stack position counts the creatures, which stand
\* above the items below them: each item has one position, and one that holds a
\* creature names no item.
Items(t) == DOMAIN ground[t].stack

\* take_from_ground: how many of n are taken from the i-th item, and what is left.
Taken(st, i, n) ==
    IF st.stack[i].kind \in Stackable THEN Least(Most(n, 1), st.stack[i].count) ELSE 1

\* Mutant: what is taken always counts as lying below creatures.
TakeBelow(st, i, n) ==
    IF st.stack[i].count > Taken(st, i, n)
    THEN [st EXCEPT !.stack[i].count = @ - Taken(st, i, n)]
    ELSE [pre |-> st.pre - 1, stack |-> RemoveAt(st.stack, i)]

Take(st, i, n) ==
    IF st.stack[i].count > Taken(st, i, n)
    THEN [st EXCEPT !.stack[i].count = @ - Taken(st, i, n)]
    ELSE [pre |-> IF i <= st.pre THEN st.pre - 1 ELSE st.pre, stack |-> RemoveAt(st.stack, i)]

\* Vec::insert panics past the end, where `pre' can point once decay removed items
\* below creatures.
Sound(st) == st.pre <= Len(st.stack)
Insert(st, thing) == [st EXCEPT !.stack = InsertAt(@, st.pre + 1, thing)]

\* Mutant: what exceeds the cap is forgotten.
PutNoSpill(st, thing) ==
    LET f == st.pre + 1
    IN  IF thing.kind \in Stackable /\ f \in DOMAIN st.stack /\ st.stack[f].kind = thing.kind
        THEN [st EXCEPT !.stack[f].count = Least(@ + thing.count, Cap)]
        ELSE Insert(st, thing)

\* add_to_ground_front: merged into the front stack, what exceeds Cap on top of it.
Put(st, thing) ==
    LET f == st.pre + 1
        total == st.stack[f].count + thing.count
    IN  IF thing.kind \in Stackable /\ f \in DOMAIN st.stack /\ st.stack[f].kind = thing.kind
        THEN IF total <= Cap
             THEN [st EXCEPT !.stack[f].count = total]
             ELSE Insert([st EXCEPT !.stack[f].count = Cap],
                         [thing EXCEPT !.count = total - Cap])
        ELSE Insert(st, thing)

\* is_blocked, and no stack at all (materialize).
Refuses(t) == t \in Blocked

-----------------------------------------------------------------------------
(* A player's boxes                                                        *)

Box(kind, source, things, open) ==
    [items |-> things, source |-> source, open |-> open, capacity |-> Capacity[kind]]

Used(b) == {c \in Cid : b[c] # None}
Opened(b) == {c \in Used(b) : b[c].open}
Children(b, c) == {d \in Used(b) : b[d].source.in = "nested" /\ b[d].source.at = c}
Full(b, c) == Len(b[c].items) >= b[c].capacity
First(C) == CHOOSE c \in C : \A d \in C : c <= d

\* matches_source: the first box opened from source.
From(b, source) == {c \in Used(b) : b[c].source = source}

\* next_free_cid: an unused one, else the first closed one, whose contents go.
Free(b) ==
    LET unused == Cid \ Used(b)
    IN  IF unused # {} THEN {First(unused)}
        ELSE IF Opened(b) # Cid THEN {First(Cid \ Opened(b))} ELSE {}

\* The boxes close_container_tree visits: C and what is nested in them, at any depth.
Tree(b, C) ==
    {c \in Cid : \A S \in SUBSET Cid :
                    C \subseteq S /\ (\A d \in S : Children(b, d) \subseteq S) => c \in S}

CloseTree(b, C) == [c \in Cid |-> IF c \in Tree(b, C) /\ b[c] # None
                                   THEN [b[c] EXCEPT !.open = FALSE] ELSE b[c]]

\* The recursion of close_container_tree ends.
Grounded(b, C) == \A c \in Tree(b, C) : c \notin Tree(b, Children(b, c))

\* Mutant: full one item too early.
PushShort(b, c, thing) ==
    IF b[c] = None \/ Len(b[c].items) + 1 >= b[c].capacity THEN b
    ELSE [b EXCEPT ![c].items = <<thing>> \o @]

\* push_item_to_container: at the front, sources of nested boxes follow; dropped
\* when the box is full or gone.
Push(b, c, thing) ==
    IF b[c] = None \/ Full(b, c) THEN b
    ELSE [d \in Cid |->
             LET o == IF d = c THEN [b[d] EXCEPT !.items = <<thing>> \o @] ELSE b[d]
             IN  IF d \in Children(b, c) THEN [o EXCEPT !.source.idx = @ + 1] ELSE o]

\* pop_item_from_container, and the last box opened from there.
Pop(b, c, i) == [b EXCEPT ![c].items = RemoveAt(@, i)]
Orphan(b, c, i) == {d \in From(b, Nested(c, i)) : \A e \in From(b, Nested(c, i)) : e <= d}

\* close_orphaned_nested_container: the boxes behind it move up, its own is closed.
Unnest(b, c, i) ==
    LET moved == [d \in Cid |->
                     IF d \in Children(b, c) /\ b[d].source.idx > i
                     THEN [b[d] EXCEPT !.source.idx = @ - 1] ELSE b[d]]
    IN  CloseTree(moved, Orphan(b, c, i))

\* rekey_container_source: the first match follows its container.
Rekey(b, old, new) ==
    IF From(b, old) = {} THEN b ELSE [b EXCEPT ![First(From(b, old))].source = new]

\* auto_close_ground_containers, for a player at t.
Distant(b, t) == {c \in Opened(b) : b[c].source.in = "ground" /\ ~Near(b[c].source.at, t)}

\* Mutant: the windows stay open.
WalkedAwayOpen(b, t) == b

WalkedAway(b, t) == CloseTree(b, Distant(b, t))

-----------------------------------------------------------------------------
(* Saves                                                                   *)

\* The places of a finite set of pairs in their order, and what is there.
Precedes(u, v) == u[1] < v[1] \/ (u[1] = v[1] /\ u[2] < v[2])
InOrder(S) ==
    [n \in 1..Cardinality(S) |-> CHOOSE u \in S : Cardinality({v \in S : Precedes(v, u)}) = n - 1]
Line(f) == [n \in 1..Cardinality(DOMAIN f) |-> f[InOrder(DOMAIN f)[n]]]

\* export_container_items: for each slot the contents of the boxes opened from it, here
\* in the order in which restore_containers will sort them, by index and then by box.
Rows(b) ==
    [s \in Slot |->
        Line([u \in UNION {(DOMAIN b[c].items) \X {c} : c \in From(b, InSlot(s))} |->
                  b[u[2]].items[u[1]]])]

SaveOf(p) == [worn |-> Worn(p), rows |-> Rows(Boxes(p))]

\* restore_containers: a closed box for each slot that holds a container.

Restored(save) ==
    LET bags == {s \in Slot : save.worn[s] # None /\ save.worn[s].kind \in Container}
        rank(x, S) == Cardinality({y \in S : y < x})
        held(c) == {s \in bags : rank(s, bags) = rank(c, Cid)}
    IN  [c \in Cid |->
            IF held(c) = {} THEN None
            ELSE LET s == First(held(c))
                 IN  Box(save.worn[s].kind, InSlot(s), save.rows[s], FALSE)]

Without(p) == [q \in Here \ {p} |-> players[q]]

\* logout, here or by the push that failed.
Leaves(p) ==
    /\ players' = Without(p)
    /\ saved' = [saved EXCEPT ![p] = SaveOf(p)]

\* As Leaves, when the handler has already changed what p wears and its boxes.
LeavesWith(p, worn, b) ==
    /\ players' = Without(p)
    /\ saved' = [saved EXCEPT ![p] = [worn |-> worn, rows |-> Rows(b)]]

Has(p, worn, b) == /\ players' = [players EXCEPT ![p].worn = worn, ![p].boxes = b]
                   /\ UNCHANGED saved

\* How a handler ends: with p in the world, or logged out by a push.
Ends(p, cut, worn, b) == IF cut THEN LeavesWith(p, worn, b) ELSE Has(p, worn, b)

-----------------------------------------------------------------------------
Init ==
    /\ ground = Start
    /\ players = [p \in {} |-> None]
    /\ saved = [p \in Player |-> [worn |-> [s \in Slot |-> None], rows |-> [s \in Slot |-> <<>>]]]
    /\ loot = [t \in Tile |-> None]
    /\ corpses = [t \in Tile |-> None]
    /\ decaying = {}
    /\ made = [k \in Kind |-> 0] /\ doubled = [k \in Kind |-> 0]
    /\ up = TRUE

Login(p, t) ==
    /\ p \notin Here
    /\ players' = [q \in Here \union {p} |->
                      IF q = p THEN [at |-> t, worn |-> saved[p].worn,
                                     boxes |-> Restored(saved[p])]
                      ELSE players[q]]
    /\ UNCHANGED <<ground, saved, loot, corpses, decaying, made, doubled, up>>

Logout(p) ==
    /\ p \in Here
    /\ Leaves(p)
    /\ UNCHANGED <<ground, loot, corpses, decaying, made, doubled, up>>

\* do_move and do_teleport, to any tile: by then out of reach of ground boxes.
Step(p, t) ==
    /\ p \in Here /\ t # At(p)
    /\ Grounded(Boxes(p), Distant(Boxes(p), t))
    /\ players' = [players EXCEPT ![p].at = t, ![p].boxes = WalkedAway(@, t)]
    /\ UNCHANGED <<ground, saved, loot, corpses, decaying, made, doubled, up>>

(* do_move_thing, do_move_inventory                                        *)

GroundToGround(p, a, i, b, n) ==
    /\ p \in Here /\ a # b /\ Near(At(p), a) /\ <<a, b>> \in CanThrow
    /\ ~Refuses(b) /\ Sound(ground[b])
    /\ i <= ground[a].pre \/ corpses[a] = None
    /\ ground[a].stack[i].kind \in Moveable
    /\ LET thing == [ground[a].stack[i] EXCEPT !.count = Taken(ground[a], i, n)]
           followed == Rekey(Boxes(p), OnGround(a), OnGround(b))
       IN  /\ ground' = [ground EXCEPT ![a] = Take(@, i, n), ![b] = Put(@, thing)]
           /\ IF thing.kind \in Container
              THEN /\ Grounded(followed, Distant(followed, At(p)))
                   /\ Has(p, Worn(p), WalkedAway(followed, At(p)))
              ELSE UNCHANGED <<players, saved>>
    /\ UNCHANGED <<loot, corpses, decaying, made, doubled, up>>

Equip(p, a, i, s, n, cut) ==
    /\ p \in Here /\ Worn(p)[s] = None /\ Near(At(p), a)
    /\ ground[a].stack[i].kind \in Moveable /\ s \in Fits[ground[a].stack[i].kind]
    /\ ground' = [ground EXCEPT ![a] = Take(@, i, n)]
    /\ LET thing == [ground[a].stack[i] EXCEPT !.count = Taken(ground[a], i, n)]
       IN  IF cut THEN Leaves(p)
           ELSE Has(p, [Worn(p) EXCEPT ![s] = thing], Rekey(Boxes(p), OnGround(a), InSlot(s)))
    /\ UNCHANGED <<loot, corpses, decaying, made, doubled, up>>

Unequip(p, s, b, cut) ==
    /\ p \in Here /\ Worn(p)[s] # None
    /\ <<At(p), b>> \in CanThrow /\ ~Refuses(b) /\ Sound(ground[b])
    /\ ground' = [ground EXCEPT ![b] = Put(@, Worn(p)[s])]
    /\ LET bare == [Worn(p) EXCEPT ![s] = None]
           followed == Rekey(Boxes(p), InSlot(s), OnGround(b))
       IN  IF cut THEN LeavesWith(p, bare, Boxes(p))
           ELSE /\ Grounded(followed, Distant(followed, At(p)))
                /\ Has(p, bare, WalkedAway(followed, At(p)))
    /\ UNCHANGED <<loot, corpses, decaying, made, doubled, up>>

\* Slot to slot, with whatever was there: boxes stay with the slots.
Swap(p, s, d) ==
    /\ p \in Here /\ s # d /\ Worn(p)[s] # None
    /\ d \in Fits[Worn(p)[s].kind]
    /\ Worn(p)[d] # None => s \in Fits[Worn(p)[d].kind]
    /\ Has(p, [Worn(p) EXCEPT ![s] = Worn(p)[d], ![d] = Worn(p)[s]], Boxes(p))
    /\ UNCHANGED <<ground, loot, corpses, decaying, made, doubled, up>>

(* do_move_container                                                       *)

\* nested_dest_cid: the box for what is dropped onto a container in slot i of box c,
\* if need be a new one; the box c itself when there is none.
Destination(b, c, i) ==
    IF b[c] = None \/ i \notin DOMAIN b[c].items \/ b[c].items[i].kind \notin Container
    THEN [boxes |-> b, cid |-> c]
    ELSE IF From(b, Nested(c, i)) # {} THEN [boxes |-> b, cid |-> First(From(b, Nested(c, i)))]
    ELSE IF Free(b) = {} THEN [boxes |-> b, cid |-> c]
    ELSE LET d == First(Free(b))
         IN  [boxes |-> [b EXCEPT ![d] = Box(b[c].items[i].kind, Nested(c, i), <<>>, FALSE)],
              cid |-> d]

\* Mutant: the item stays where it was.
PoppedNot(b, c, i) == Unnest(b, c, i)

\* What is left of the boxes when the i-th item of c was popped.
Popped(b, c, i) == Unnest(Pop(b, c, i), c, i)
PopEnds(b, c, i) == Grounded(Pop(b, c, i), Orphan(b, c, i))

BoxToBox(p, c, i, d, j, cut) ==
    /\ p \in Here /\ c \in Used(Boxes(p)) /\ i \in DOMAIN Boxes(p)[c].items
    /\ <<c, i>> # <<d, j>>
    /\ LET thing == Boxes(p)[c].items[i]
           dest == IF thing.kind \in Container THEN [boxes |-> Boxes(p), cid |-> d]
                   ELSE Destination(Boxes(p), d, j)
           b == dest.boxes
           left == Popped(b, c, i)
           back == left[dest.cid] # None /\ Full(left, dest.cid)
       IN  IF i \notin DOMAIN b[c].items
           THEN ~cut /\ Has(p, Worn(p), b) \* its box was given away
           ELSE IF cut THEN LeavesWith(p, Worn(p), Pop(b, c, i))
           ELSE /\ PopEnds(b, c, i)
                /\ Has(p, Worn(p), Push(left, IF back THEN c ELSE dest.cid, b[c].items[i]))
    /\ UNCHANGED <<ground, loot, corpses, decaying, made, doubled, up>>

\* Neither a corpse nor a container is treated apart: its loot or box stays behind.
GroundToBox(p, a, i, c, n, cut) ==
    /\ p \in Here /\ Near(At(p), a)
    /\ c \in Used(Boxes(p)) /\ ~Full(Boxes(p), c)
    /\ ground[a].stack[i].kind \in Moveable
    /\ ground' = [ground EXCEPT ![a] = Take(@, i, n)]
    /\ LET thing == [ground[a].stack[i] EXCEPT !.count = Taken(ground[a], i, n)]
       IN  IF cut THEN Leaves(p) ELSE Has(p, Worn(p), Push(Boxes(p), c, thing))
    /\ UNCHANGED <<loot, corpses, decaying, made, doubled, up>>

BoxToGround(p, c, i, t) ==
    /\ p \in Here /\ c \in Used(Boxes(p)) /\ i \in DOMAIN Boxes(p)[c].items
    /\ <<At(p), t>> \in CanThrow /\ ~Refuses(t) /\ Sound(ground[t])
    /\ PopEnds(Boxes(p), c, i)
    /\ ground' = [ground EXCEPT ![t] = Put(@, Boxes(p)[c].items[i])]
    /\ Has(p, Worn(p), Popped(Boxes(p), c, i))
    /\ UNCHANGED <<loot, corpses, decaying, made, doubled, up>>

SlotToBox(p, s, c, cut) ==
    /\ p \in Here /\ Worn(p)[s] # None
    /\ c \in Used(Boxes(p)) /\ ~Full(Boxes(p), c)
    /\ LET bare == [Worn(p) EXCEPT ![s] = None]
       IN  IF cut THEN LeavesWith(p, bare, Boxes(p))
           ELSE Has(p, bare, Push(Boxes(p), c, Worn(p)[s]))
    /\ UNCHANGED <<ground, loot, corpses, decaying, made, doubled, up>>

\* What does not fit the slot is refused after it left its box.
BoxToSlot(p, c, i, s, cut) ==
    /\ p \in Here /\ Worn(p)[s] = None
    /\ c \in Used(Boxes(p)) /\ i \in DOMAIN Boxes(p)[c].items
    /\ cut \/ PopEnds(Boxes(p), c, i)
    /\ LET thing == Boxes(p)[c].items[i]
           fits == s \in Fits[thing.kind]
       IN  Ends(p, cut,
                IF fits /\ ~cut THEN [Worn(p) EXCEPT ![s] = thing] ELSE Worn(p),
                IF cut THEN Pop(Boxes(p), c, i) ELSE Popped(Boxes(p), c, i))
    /\ UNCHANGED <<ground, loot, corpses, decaying, made, doubled, up>>

(* do_use_item                                                             *)

\* The item a player carries at source: worn, or in a box.
UsableAt(p, source) ==
    IF source.in = "slot" THEN {Worn(p)[source.at]} \ {None}
    ELSE {Boxes(p)[source.at].items[source.idx]}

\* A container: reopened, or closed when it is open, or given a box; hint is the
\* cid the client asks for.
Toggles(p, source, kind, hint) ==
    LET b == Boxes(p)
        c == First(From(b, source))
        fresh(d) == [b EXCEPT ![d] = Box(kind, source, <<>>, TRUE)]
    IN  IF From(b, source) # {}
        THEN Has(p, Worn(p), [b EXCEPT ![c].open = ~@,
                                       ![c].capacity = IF b[c].open THEN @ ELSE Capacity[kind]])
        ELSE \E d \in IF hint \in Cid \ Used(b) THEN {hint} ELSE Free(b) :
                Has(p, Worn(p), fresh(d))

UseCarriedContainer(p, source, hint) ==
    /\ p \in Here
    /\ \E thing \in UsableAt(p, source) :
        thing.kind \in Container /\ Toggles(p, source, thing.kind, hint)
    /\ UNCHANGED <<ground, loot, corpses, decaying, made, doubled, up>>

UseGroundContainer(p, t, i, hint) ==
    /\ p \in Here /\ Near(At(p), t)
    /\ i <= ground[t].pre \/ loot[t] = None
    /\ ground[t].stack[i].kind \in Container
    /\ Toggles(p, OnGround(t), ground[t].stack[i].kind, hint)
    /\ UNCHANGED <<ground, loot, corpses, decaying, made, doubled, up>>

\* Mutant: the corpse keeps its loot.
OpenCorpseAgain(p, t, i) ==
    /\ p \in Here /\ Near(At(p), t) /\ loot[t] # None /\ i > ground[t].pre
    /\ corpses[t] # None /\ Free(Boxes(p)) # {}
    /\ Has(p, Worn(p), [Boxes(p) EXCEPT ![First(Free(Boxes(p)))] =
                            Box(corpses[t], OnGround(t), loot[t], TRUE)])
    /\ UNCHANGED <<ground, loot, corpses, decaying, made, doubled, up>>

\* open_corpse_container: any item above the creatures of a tile with loot opens it,
\* as the corpse recorded for the tile or, without one, as the item itself.
OpenCorpse(p, t, i) ==
    /\ p \in Here /\ Near(At(p), t) /\ loot[t] # None
    /\ i > ground[t].pre
    /\ LET kind == IF corpses[t] = None THEN ground[t].stack[i].kind ELSE corpses[t]
           box == Box(kind, OnGround(t), loot[t], TRUE)
       IN  IF Free(Boxes(p)) = {} THEN UNCHANGED <<players, saved>>
           ELSE Has(p, Worn(p), [Boxes(p) EXCEPT ![First(Free(Boxes(p)))] = box])
    /\ loot' = [loot EXCEPT ![t] = None]
    /\ UNCHANGED <<ground, corpses, decaying, made, doubled, up>>

\* do_torch_toggle
ToggleCarried(p, source) ==
    /\ p \in Here
    /\ \E thing \in UsableAt(p, source) :
        /\ thing.kind \in Toggled
        /\ IF source.in = "slot"
           THEN Has(p, [Worn(p) EXCEPT ![source.at].kind = Toggle[@]], Boxes(p))
           ELSE Has(p, Worn(p),
                    [Boxes(p) EXCEPT ![source.at].items[source.idx].kind = Toggle[@]])
    /\ UNCHANGED <<ground, loot, corpses, decaying, made, doubled, up>>

ToggleOnGround(p, t, i) ==
    /\ p \in Here /\ Near(At(p), t)
    /\ i <= ground[t].pre \/ loot[t] = None
    /\ ground[t].stack[i].kind \in Toggled
    /\ ground' = [ground EXCEPT ![t].stack[i].kind = Toggle[@]]
    /\ UNCHANGED <<players, saved, loot, corpses, decaying, made, doubled, up>>

\* A script feeds the player: decrement_food. The boxes behind a portion eaten up
\* are not told that it is gone.
Eaten(thing) == IF thing.count > 1 THEN <<[thing EXCEPT !.count = @ - 1]>> ELSE <<>>

EatCarried(p, source) ==
    /\ p \in Here
    /\ \E thing \in UsableAt(p, source) :
        /\ thing.kind \in Food
        /\ IF source.in = "slot"
           THEN Has(p, [Worn(p) EXCEPT ![source.at] =
                           IF Eaten(thing) = <<>> THEN None ELSE Head(Eaten(thing))], Boxes(p))
           ELSE Has(p, Worn(p), [Boxes(p) EXCEPT ![source.at].items =
                    SubSeq(@, 1, source.idx - 1) \o Eaten(thing)
                        \o SubSeq(@, source.idx + 1, Len(@))])
    /\ UNCHANGED <<ground, loot, corpses, decaying, made, doubled, up>>

\* From the ground it is the first item of that kind on the tile that gets smaller.
EatOnGround(p, t, i) ==
    /\ p \in Here /\ Near(At(p), t)
    /\ i <= ground[t].pre \/ loot[t] = None
    /\ ground[t].stack[i].kind \in Food
    /\ LET same == {j \in Items(t) : ground[t].stack[j].kind = ground[t].stack[i].kind}
       IN  ground' = [ground EXCEPT ![t] = Take(@, First(same), 1)]
    /\ UNCHANGED <<players, saved, loot, corpses, decaying, made, doubled, up>>

\* do_close_container: this box only, not the ones nested in it.
CloseContainer(p, c) ==
    /\ p \in Here /\ c \in Used(Boxes(p))
    /\ Has(p, Worn(p), [Boxes(p) EXCEPT ![c].open = FALSE])
    /\ UNCHANGED <<ground, loot, corpses, decaying, made, doubled, up>>

\* do_up_arrow: the nested box is given up, with what is in it.
UpArrow(p, c) ==
    /\ p \in Here /\ c \in Used(Boxes(p)) /\ Boxes(p)[c].source.in = "nested"
    /\ Has(p, Worn(p), [Boxes(p) EXCEPT ![c] = None])
    /\ UNCHANGED <<ground, loot, corpses, decaying, made, doubled, up>>

(* Deaths, decay, gamemasters                                              *)

\* spawn_corpse: on top of everything; its stack position does not count creatures.
WithCorpse(st, kind) == [st EXCEPT !.stack = Append(@, [kind |-> kind, count |-> 1])]
Decay(t, sp, kind) == [tile |-> t, sp |-> Least(sp, Shown + 1), kind |-> kind]

\* spawn_loot: added to what the tile's corpses hold already, as far as it fits.
Lying(t) == IF loot[t] = None THEN <<>> ELSE loot[t]
Fitting(t, things) ==
    SubSeq(things, 1, Least(Len(things), Most(LootMax - Len(Lying(t)), 0)))
Added(t, things) == Lying(t) \o Fitting(t, things)

Amount(things, k) ==
    SumFunction([i \in DOMAIN things |-> IF things[i].kind = k THEN things[i].count ELSE 0])

\* collect_player_loot: what is worn, and what is in the boxes opened from slots.
LootOf(p) ==
    LET worn == {s \in Slot : Worn(p)[s] # None}
        b == Boxes(p)
        bags == UNION {From(b, InSlot(s)) : s \in Slot}
    IN  Line([u \in worn \X {0} |-> Worn(p)[u[1]]])
            \o Line([u \in UNION {{c} \X DOMAIN b[c].items : c \in bags} |-> b[u[1]].items[u[2]]])

Makes(things) ==
    /\ made' = [k \in Kind |-> made[k] + Amount(things, k)]
    /\ SumFunction(made') <= MaxMade

Doubles(things) == doubled' = [k \in Kind |-> doubled[k] + Amount(things, k)]

\* do_death: blood that never decays, a corpse, and in it copies of all that the
\* player wears and of what is in the boxes opened from its slots. The player is
\* saved with all of it: blood and corpse are new, the copies are not.
PlayerDies(p) ==
    /\ p \in Here
    /\ LET t == At(p)
           bloody == Insert(ground[t], [kind |-> Splash, count |-> 1])
           drops == LootOf(p)
       IN  /\ Sound(ground[t])
           /\ ground' = [ground EXCEPT ![t] = WithCorpse(bloody, HumanCorpse)]
           /\ decaying' = decaying \union {Decay(t, Len(bloody.stack) + 1, HumanCorpse)}
           /\ corpses' = [corpses EXCEPT ![t] = HumanCorpse]
           /\ loot' = IF drops = <<>> THEN loot ELSE [loot EXCEPT ![t] = Added(t, drops)]
           /\ Makes(<<[kind |-> HumanCorpse, count |-> 1], [kind |-> Splash, count |-> 1]>>)
           /\ Doubles(Fitting(t, drops))
    /\ Leaves(p)
    /\ UNCHANGED up

\* do_monster_death, of a monster that bleeds or not, with a corpse or without.
MonsterDies(t, bleeds, corpse, things) ==
    /\ bleeds => Sound(ground[t])
    /\ LET blood == [kind |-> Splash, count |-> 1]
           st == IF bleeds THEN Insert(ground[t], blood) ELSE ground[t]
       IN  /\ ground' = [ground EXCEPT ![t] = IF corpse = None THEN st ELSE WithCorpse(st, corpse)]
           /\ decaying' = decaying
                \union (IF bleeds THEN {Decay(t, st.pre + 1, Splash)} ELSE {})
                \union (IF corpse = None THEN {} ELSE {Decay(t, Len(st.stack) + 1, corpse)})
           /\ Makes(Fitting(t, things) \o (IF bleeds THEN <<blood>> ELSE <<>>)
                        \o (IF corpse = None THEN <<>> ELSE <<[kind |-> corpse, count |-> 1]>>))
    /\ corpses' = IF corpse = None THEN corpses ELSE [corpses EXCEPT ![t] = corpse]
    /\ loot' = [loot EXCEPT ![t] = Added(t, things)]
    /\ UNCHANGED <<players, saved, doubled, up>>

\* process_decay, one entry that is due: the index is worked out with the creatures
\* of now, `pre' stays, and the tile's loot goes whatever it was that decayed.
\* Entries are taken in any order, their delays differ.
Decays(d) ==
    /\ d \in decaying
    /\ decaying' = decaying \ {d}
    /\ LET st == ground[d.tile]
           i == IF d.sp <= st.pre THEN d.sp
                ELSE Most(d.sp - 1 - CreaturesOn(d.tile), 0) + 1
       IN  ground' = IF i \in DOMAIN st.stack
                     THEN [ground EXCEPT ![d.tile].stack = RemoveAt(@, i)] ELSE ground
    /\ loot' = [loot EXCEPT ![d.tile] = None]
    /\ corpses' = [corpses EXCEPT ![d.tile] = None]
    /\ UNCHANGED <<players, saved, made, doubled, up>>

\* do_spawn_item
SpawnItem(t, kind, n) ==
    LET thing == [kind |-> kind,
                  count |-> IF kind \in Stackable THEN Least(Most(n, 1), Cap) ELSE 1]
    IN  /\ ~Refuses(t) /\ Len(ground[t].stack) < TileCap /\ Sound(ground[t])
        /\ ground' = [ground EXCEPT ![t] = Insert(@, thing)]
        /\ Makes(<<thing>>)
        /\ UNCHANGED <<players, saved, loot, corpses, decaying, doubled, up>>

\* The actor's task ends: an insertion past the end of a stack, or boxes nested in a
\* circle whose closing never ends.
Panic ==
    /\ \/ \E t \in Tile : ~Sound(ground[t])
       \/ \E p \in Here : ~Grounded(Boxes(p), Used(Boxes(p)))
    /\ up' = FALSE
    /\ UNCHANGED <<ground, players, saved, loot, corpses, decaying, made, doubled>>

-----------------------------------------------------------------------------
Amounts == 1..Cap
Places(p, c) == DOMAIN Boxes(p)[c].items

Moves(p, cut) ==
    \/ \E a, b \in Tile, n \in Amounts : \E i \in Items(a) : ~cut /\ GroundToGround(p, a, i, b, n)
    \/ \E a \in Tile, s \in Slot, n \in Amounts : \E i \in Items(a) : Equip(p, a, i, s, n, cut)
    \/ \E s \in Slot, b \in Tile : Unequip(p, s, b, cut)
    \/ \E s, d \in Slot : ~cut /\ Swap(p, s, d)
    \/ \E c \in Used(Boxes(p)), d \in Cid : \E i \in Places(p, c), j \in 1..LootMax :
         BoxToBox(p, c, i, d, j, cut)
    \/ \E a \in Tile, c \in Cid, n \in Amounts : \E i \in Items(a) : GroundToBox(p, a, i, c, n, cut)
    \/ \E c \in Used(Boxes(p)), t \in Tile : \E i \in Places(p, c) : ~cut /\ BoxToGround(p, c, i, t)
    \/ \E s \in Slot, c \in Cid : SlotToBox(p, s, c, cut)
    \/ \E c \in Used(Boxes(p)), s \in Slot : \E i \in Places(p, c) : BoxToSlot(p, c, i, s, cut)

Carried(p) ==
    {InSlot(s) : s \in Slot} \union UNION {{Nested(c, i) : i \in Places(p, c)} : c \in Used(Boxes(p))}

Uses(p) ==
    \/ \E source \in Carried(p), hint \in Cid : UseCarriedContainer(p, source, hint)
    \/ \E t \in Tile, hint \in Cid : \E i \in Items(t) : UseGroundContainer(p, t, i, hint)
    \/ \E t \in Tile : \E i \in Items(t) : OpenCorpse(p, t, i)
    \/ \E source \in Carried(p) : ToggleCarried(p, source)
    \/ \E t \in Tile : \E i \in Items(t) : ToggleOnGround(p, t, i)
    \/ \E source \in Carried(p) : EatCarried(p, source)
    \/ \E t \in Tile : \E i \in Items(t) : EatOnGround(p, t, i)
    \/ \E c \in Cid : CloseContainer(p, c)
    \/ \E c \in Cid : UpArrow(p, c)

Next ==
    /\ up
    /\ \/ \E p \in Player, t \in Tile : Login(p, t) \/ Step(p, t)
       \/ \E p \in Here : Logout(p) \/ PlayerDies(p) \/ Uses(p)
       \/ \E p \in Here, cut \in BOOLEAN : Moves(p, cut)
       \/ \E t \in Tile, bleeds \in BOOLEAN, things \in Drops :
            \E corpse \in {MonsterCorpse, None} : MonsterDies(t, bleeds, corpse, things)
       \/ \E d \in decaying : Decays(d)
       \/ \E t \in Tile, k \in Wanted, n \in Amounts : SpawnItem(t, k, n)
       \/ Panic

Spec == Init /\ [][Next]_vars

-----------------------------------------------------------------------------
(* Properties                                                              *)

\* Every thing on a tile, worn, in a box, in a corpse or saved, is one to Cap of a
\* kind that may be stacked, or a single one; a box has a place it was opened from.
TypeOK ==
    /\ ground \in [Tile -> Piles]
    /\ Here \subseteq Player
    /\ \A p \in Here :
        players[p] \in [at : Tile, worn : [Slot -> Things \union {None}],
                       boxes : [Cid -> OpenBoxes \union {None}]]
    /\ saved \in [Player -> [worn : [Slot -> Things \union {None}], rows : [Slot -> Seq(Things)]]]
    /\ loot \in [Tile -> Seq(Things) \union {None}]
    /\ corpses \in [Tile -> {HumanCorpse, MonsterCorpse, None}]
    /\ decaying \subseteq [tile : Tile, sp : Nat, kind : {Splash, HumanCorpse, MonsterCorpse}]
    /\ made \in [Kind -> Nat] /\ doubled \in [Kind -> Nat]
    /\ up \in BOOLEAN

\* How much there is of a kind: on the ground and in corpses, with the players in
\* the world, and with the others as they were saved.
InBoxes(b, k) ==
    SumFunction([c \in Cid |-> IF b[c] = None THEN 0 ELSE Amount(b[c].items, k)])

InSlots(worn, k) ==
    SumFunction([s \in Slot |-> IF worn[s] = None \/ worn[s].kind # k THEN 0 ELSE worn[s].count])

InRows(rows, k) == SumFunction([s \in Slot |-> Amount(rows[s], k)])

Carries(p, k) ==
    IF p \in Here THEN InSlots(Worn(p), k) + InBoxes(Boxes(p), k)
    ELSE InSlots(saved[p].worn, k) + InRows(saved[p].rows, k)

OnTile(t, k) ==
    Amount(ground[t].stack, k) + (IF loot[t] = None THEN 0 ELSE Amount(loot[t], k))

Units(k) ==
    SumFunction([t \in Tile |-> OnTile(t, k)]) + SumFunction([p \in Player |-> Carries(p, k)])

\* A torch is the same thing lit and unlit.
Total(k) == IF k \in Toggled THEN Units(k) + Units(Toggle[k]) ELSE Units(k)
Made(k) ==
    LET all(l) == made[l] + SumFunction([t \in Tile |-> Amount(Start[t].stack, l)])
    IN  IF k \in Toggled THEN all(k) + all(Toggle[k]) ELSE all(k)
Doubled(k) == IF k \in Toggled THEN doubled[k] + doubled[Toggle[k]] ELSE doubled[k]

\* Nothing is there that the map, a gamemaster or a monster did not bring, or the death of
\* its owner copy (NothingDoubled): however handlers interleave and wherever a player is
\* logged out half-way, no move, box, corpse, save or login doubles anything
\* (do_move_thing, do_move_container, open_corpse_container, logout, restore_containers).
NothingFromNothing == \A k \in Kind : Total(k) <= Made(k) + Doubled(k)

\* What a player dies with is dropped, and nothing is there twice: it is in the corpse or
\* saved with its owner (do_death: "Collect player inventory + container contents and
\* drop as loot").
NothingDoubled == \A k \in Kind : Total(k) <= Made(k)

\* The moves that keep everything. Left out are the losses the README lists: a box given
\* away when a new one needs the last id, a destination that is no box or is overfull, a
\* slot that refuses what was already taken.
Spares(p, d, j) ==
    /\ Used(Boxes(p)) # Cid \/ Destination(Boxes(p), d, j).boxes = Boxes(p)
    /\ \A c \in Used(Boxes(p)) : Len(Boxes(p)[c].items) <= Boxes(p)[c].capacity

Conserving(p) ==
    \/ \E a, b \in Tile, n \in Amounts : \E i \in Items(a) : GroundToGround(p, a, i, b, n)
    \/ \E a \in Tile, s \in Slot, n \in Amounts : \E i \in Items(a) : Equip(p, a, i, s, n, FALSE)
    \/ \E s \in Slot, b \in Tile : Unequip(p, s, b, FALSE)
    \/ \E s, d \in Slot : Swap(p, s, d)
    \/ \E c, d \in Used(Boxes(p)) : \E i \in Places(p, c), j \in 1..LootMax :
         Spares(p, d, j) /\ BoxToBox(p, c, i, d, j, FALSE)
    \/ \E a \in Tile, c \in Cid, n \in Amounts : \E i \in Items(a) :
         GroundToBox(p, a, i, c, n, FALSE)
    \/ \E c \in Used(Boxes(p)), t \in Tile : \E i \in Places(p, c) : BoxToGround(p, c, i, t)
    \/ \E s \in Slot, c \in Cid : SlotToBox(p, s, c, FALSE)

\* Such a step changes the amount of a kind; a move shows on the ground or its player.
Alters == <<ground, players>>' # <<ground, players>> /\ \E k \in Kind : Total(k)' # Total(k)

\* A move whose player stays in the world keeps everything, through splits, merges,
\* spills, full and stale boxes and destinations (do_move_thing, do_move_inventory,
\* do_move_container).
MovesKeepThings == [][\A p \in Here \intersect DOMAIN players' : Alters => ~Conserving(p)]_vars

\* Whatever a player has open on the ground is within its reach, although the
\* containers, and the player, are moved by many handlers (auto_close_ground_containers).
GroundWindowsNear ==
    \A p \in Here : \A c \in Opened(Boxes(p)) :
        Boxes(p)[c].source.in = "ground" => Near(Boxes(p)[c].source.at, At(p))

\* What decays is the splash or corpse that was to, and loot goes with corpses only
\* (process_decay: "Remove from overlay at the correct index", "Clean up corpse data
\* for this corpse").
DecayTakesItsOwn ==
    [][\A d \in decaying \ decaying' :
        LET st == ground[d.tile].stack
        IN  /\ \/ ground' = ground
               \/ \E i \in DOMAIN st :
                    st[i].kind = d.kind /\ ground'[d.tile].stack = RemoveAt(st, i)
            /\ d.kind = Splash => loot' = loot]_vars

\* No two boxes of a player were opened from the same place
\* (rekey_container_source: "A source location uniquely identifies one window").
SourcesUnique ==
    \A p \in Here : \A c, d \in Used(Boxes(p)) :
        Boxes(p)[c].source = Boxes(p)[d].source => c = d
=============================================================================
