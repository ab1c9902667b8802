------------------------------ MODULE Presence ------------------------------
(***************************************************************************)
(* Who sees whom.  The actor keeps, for every player, the set `known` of   *)
(* creatures it believes the player's client to have; it decides by it     *)
(* whether a creature is sent in full (0x61) or by its id alone (0x62).    *)
(* The client keeps a picture of the creatures in its viewport and changes *)
(* it only as packets tell it.  Here both are modelled, with every handler *)
(* that shows, moves or hides a creature (world/game: session.rs,          *)
(* movement.rs, combat.rs, gm.rs).                                         *)
(*                                                                         *)
(* A handler sends to its spectators one at a time, and any push may find  *)
(* the channel full or closed; the receiver is then logged out inside the  *)
(* handler, which tells *its* spectators, and so on.  `stack` holds what   *)
(* is left to do.  Nothing else runs in between: the actor is one task.    *)
(*                                                                         *)
(* The map has one horizontal coordinate and a floor; the viewport reaches *)
(* one column further east than west, and other floors are seen displaced. *)
(***************************************************************************)
EXTENDS Integers, Sequences, FiniteSets

CONSTANTS
    Player,      \* players; one that left may log in again as a new creature
    GM,          \* players that are gamemasters
    Monster,     \* monster ids
    Npc,         \* NPCs; they never move
    MaxX,        \* bound: columns are 0..MaxX
    Floor,       \* floors; 7 is the surface, higher numbers are underground
    Left, Right, \* columns seen west and east of the viewer (8 and 9)
    NpcAt,       \* where the NPCs stand
    Nowhere      \* the position of a creature that is not there

Creature == Player \union Monster \union Npc

Position == [x : 0..MaxX, z : Floor]

ASSUME PresenceAssumption ==
    /\ GM \subseteq Player
    /\ IsFiniteSet(Player) /\ IsFiniteSet(Monster) /\ IsFiniteSet(Npc)
    /\ Player \intersect (Monster \union Npc) = {}
    /\ Monster \intersect Npc = {}
    /\ MaxX \in Nat /\ Floor \subseteq Nat
    /\ Left \in Nat /\ Right \in Nat
    /\ NpcAt \in Position
    /\ Nowhere \notin Position

VARIABLES
    players,     \* players in the world
    monsters,    \* monsters in the world
    pos,         \* where each creature stands
    ghost,       \* gamemasters in ghost mode
    known,       \* what the actor believes each client to have
    picture,     \* where each client shows each creature
    stack,       \* what is left of the handler the actor is running
    \* History variables, read by the properties only:
    blurred,     \* pairs of a viewer and a creature the code may misrepresent
    strays       \* has a packet moved or turned a creature its client lacks?

world == <<players, monsters, pos, ghost>>
vars == <<world, known, picture, stack, blurred, strays>>

-----------------------------------------------------------------------------
(* Who can see what                                                        *)

Distance(a, b) == IF a >= b THEN a - b ELSE b - a

\* Game::can_see: an overground viewer sees all floors down to the surface, an
\* underground one two floors up and down, each floor displaced diagonally.
CanSee(viewer, target) ==
    LET offset == viewer.z - target.z IN
    /\ IF viewer.z <= 7 THEN target.z <= 7 ELSE Distance(viewer.z, target.z) <= 2
    /\ target.x - viewer.x - offset \in (-Left)..Right

Present == players \union monsters \union Npc

\* Mutant of Spectators: whoever the tile can see, not whoever sees the tile.
SpectatorsMirrored(at, c) ==
    {p \in players \ {c} : /\ CanSee(at, pos[p])
                           /\ c \in players \intersect ghost => p \in GM}

\* Game::spectators: the players that see the tile `at`; if the creature c there is
\* a ghost, and still a player, only gamemasters do.
Spectators(at, c) ==
    {p \in players \ {c} : /\ CanSee(pos[p], at)
                           /\ c \in players \intersect ghost => p \in GM}

\* Game::visible_from: the players that c sees from the tile `at`.
VisibleFrom(at, c) ==
    {q \in players \ {c} : /\ CanSee(at, pos[q])
                           /\ c \in players \intersect GM \/ q \notin ghost}

MonstersVisibleFrom(at) == {m \in monsters : CanSee(at, pos[m])}

NpcsVisibleFrom(at) == {n \in Npc : CanSee(at, pos[n])}

Occupied(at, c) == \E d \in Present \ {c} : pos[d] = at

-----------------------------------------------------------------------------
(* What packets do to a client, as the comments of the code describe it.   *)
(* A client is a pair of the actor's belief and the client's picture.      *)

Client(p) == [known |-> known[p], picture |-> picture[p]]

\* Packet 0x6C: the creature is taken off the map.
Removed(v, c) == [v EXCEPT !.picture[c] = Nowhere]

\* Mutant of Forgotten: the removal is sent, the belief stays.
NotForgotten(v, c) == v

\* `known.remove`: the next time, send it in full.
Forgotten(v, c) == [v EXCEPT !.known = @ \ {c}]

\* Mutant of Added: what is introduced is not recorded.
AddedUnrecorded(v, c, at) ==
    [v EXCEPT !.picture[c] = IF c \notin v.known \/ @ # Nowhere THEN at ELSE @]

\* Game::introduce and packet 0x6A: in full if c is not known, else by its id,
\* which shows nothing if the client does not have it.
Added(v, c, at) ==
    [v EXCEPT !.known = @ \union {c},
              !.picture[c] = IF c \notin v.known \/ @ # Nowhere THEN at ELSE @]

\* The same for the viewer itself, which never becomes known.
AddedSelf(v, c, at) == [v EXCEPT !.known = @ \ {c}, !.picture[c] = at]

\* Packet 0x6D by id: moves a creature the client has.
Moved(v, c, to) == [v EXCEPT !.picture[c] = IF @ = Nowhere THEN @ ELSE to]

-----------------------------------------------------------------------------
(* The stack                                                               *)

\* One entry: what to do, about which creature, from and to which tiles, and
\* the spectators still to be served.
Task(do, c, from, to, todo) ==
    [do |-> do, c |-> c, from |-> from, to |-> to, todo |-> todo]

\* Loops over spectators, one push each.
Loops == {"step", "jump", "gone", "appear", "renew", "turn", "dress"}

\* Points where a handler makes its next list of spectators.
Spots == {"lookStep", "lookJump", "spotTurn", "spotDress", "spotHide",
          "spotShow", "spotRenew"}

\* Pushes to the subject itself.
Selves == {"poke", "finishStep", "finishJump", "renewSelf"}

Kinds == Loops \union Spots \union Selves \union {"greet", "arrive", "drop"}

Idle == stack = <<>>

Top == Head(stack)

Doing(K) == stack # <<>> /\ Top.do \in K

\* A list of nobody is over at once.
Loop(do, c, from, to, todo) ==
    IF todo = {} THEN <<>> ELSE <<Task(do, c, from, to, todo)>>

\* The stack once the loop on top of it is done with p.
Without(p) == Loop(Top.do, Top.c, Top.from, Top.to, Top.todo \ {p}) \o Tail(stack)

Spot(do, c, at) == Task(do, c, at, at, {})

\* A push to c alone: icons, stats, a window that closes.  Only whether it
\* fails matters.
Poke(c) == Spot("poke", c, Nowhere)

\* A step into another zone, or away from an open container, pokes the mover.
MaybePoke(c) == {<<>>, <<Poke(c)>>}

NoPicture == [c \in Creature |-> Nowhere]

\* The pairs left when viewer c leaves the world.
BlurredWithout(c) == {b \in blurred : b[1] # c}

\* Mutant of Leave: nobody is told.
LeaveUnseen(c, rest) ==
    /\ players' = players \ {c}
    /\ pos' = [pos EXCEPT ![c] = Nowhere]
    /\ ghost' = ghost \ {c}
    /\ known' = [known EXCEPT ![c] = {}]
    /\ picture' = [picture EXCEPT ![c] = NoPicture]
    /\ blurred' = BlurredWithout(c)
    /\ stack' = rest
    /\ UNCHANGED <<monsters, strays>>

\* Game::logout: out of the world, then packets to whoever saw the tile.  The
\* player is no longer there to be a ghost, so gamemasters or not.
Leave(c, rest) ==
    /\ players' = players \ {c}
    /\ pos' = [pos EXCEPT ![c] = Nowhere]
    /\ ghost' = ghost \ {c}
    /\ known' = [known EXCEPT ![c] = {}]
    /\ picture' = [picture EXCEPT ![c] = NoPicture]
    /\ blurred' = BlurredWithout(c)
    /\ stack' = Loop("gone", c, pos[c], pos[c],
                     {p \in players \ {c} : CanSee(pos[p], pos[c])}) \o rest
    /\ UNCHANGED <<monsters, strays>>

\* No client and no belief has creature c: as its id is new.
Unheard(c) == \A p \in players : c \notin known[p] /\ picture[p][c] = Nowhere

Init ==
    /\ players = {} /\ monsters = {} /\ ghost = {}
    /\ pos = [c \in Creature |-> IF c \in Npc THEN NpcAt ELSE Nowhere]
    /\ known = [p \in Player |-> {}]
    /\ picture = [p \in Player |-> NoPicture]
    /\ stack = <<>>
    /\ blurred = {} /\ strays = {}

-----------------------------------------------------------------------------
(* Handlers: what they do before their first push                          *)

\* Game::login.  The list of those to greet is of the players that see the new
\* one; the code takes it for the players the new one sees as well, which is
\* wrong for who stands on the viewport's uneven edge, and for ghosts.
Login(c, at) ==
    /\ Idle
    /\ c \notin players
    /\ Unheard(c)
    /\ players' = players \union {c}
    /\ pos' = [pos EXCEPT ![c] = at]
    /\ LET others == {p \in players : CanSee(pos[p], at)} IN
       /\ stack' = Loop("greet", c, at, at, others) \o <<Spot("arrive", c, at)>>
       /\ blurred' = {b \in blurred : b[2] # c} \union
             {<<c, p>> : p \in {q \in players :
                                  \/ (q \in others) # CanSee(at, pos[q])
                                  \/ q \in others \intersect ghost /\ c \notin GM}}
    /\ UNCHANGED <<monsters, ghost, known, picture, strays>>

\* Command::Logout.
Logout(c) ==
    /\ Idle
    /\ c \in players
    /\ Leave(c, <<>>)

\* A push of anything that shows no creature: text, light, stats, items.
Notify(c) ==
    /\ Idle
    /\ c \in players
    /\ stack' = <<Poke(c)>>
    /\ UNCHANGED <<world, known, picture, blurred, strays>>

\* Where a step may land: the next column if it is free (gamemasters may
\* ignore that), or another floor, up to two columns off and free or not.
Landing(c, from, to) ==
    IF to.z = from.z THEN /\ Distance(to.x, from.x) = 1
                          /\ c \in GM \/ ~Occupied(to, c)
                     ELSE /\ Distance(to.z, from.z) = 1
                          /\ Distance(to.x, from.x) <= 2

\* Game::do_move.
Walk(c, to) ==
    /\ Idle
    /\ c \in players
    /\ Landing(c, pos[c], to)
    /\ pos' = [pos EXCEPT ![c] = to]
    /\ \E poke \in MaybePoke(c) :
          stack' = poke \o <<Task("lookStep", c, pos[c], to, {})>>
    /\ UNCHANGED <<players, monsters, ghost, known, picture, blurred, strays>>

\* Game::do_teleport.
Teleport(c, to) ==
    /\ Idle
    /\ c \in players
    /\ to # pos[c]
    /\ pos' = [pos EXCEPT ![c] = to]
    /\ \E poke \in MaybePoke(c) :
          stack' = poke \o <<Task("lookJump", c, pos[c], to, {})>>
    /\ UNCHANGED <<players, monsters, ghost, known, picture, blurred, strays>>

\* Game::do_move_monster.
MonsterWalk(m, to) ==
    /\ Idle
    /\ m \in monsters
    /\ to.z = pos[m].z
    /\ Distance(to.x, pos[m].x) = 1
    /\ ~Occupied(to, m)
    /\ pos' = [pos EXCEPT ![m] = to]
    /\ stack' = Loop("step", m, pos[m], to,
                     Spectators(pos[m], m) \union Spectators(to, m))
    /\ UNCHANGED <<players, monsters, ghost, known, picture, blurred, strays>>

\* do_spawn_monster and process_respawns.
Spawn(m, at) ==
    /\ Idle
    /\ m \notin monsters
    /\ Unheard(m)
    /\ monsters' = monsters \union {m}
    /\ pos' = [pos EXCEPT ![m] = at]
    /\ stack' = Loop("appear", m, at, at, Spectators(at, m))
    /\ blurred' = {b \in blurred : b[2] # m}
    /\ UNCHANGED <<players, ghost, known, picture, strays>>

\* do_death and do_monster_death, from where the creature is taken off the
\* tile: it leaves the world when all spectators are told.
Die(c) ==
    /\ Idle
    /\ c \in players \union monsters
    /\ stack' = Loop("gone", c, pos[c], pos[c], Spectators(pos[c], c))
                \o <<Spot("drop", c, pos[c])>>
    /\ UNCHANGED <<world, known, picture, blurred, strays>>

\* Game::do_turn.
Turn(c) ==
    /\ Idle
    /\ c \in players
    /\ stack' = <<Poke(c), Spot("spotTurn", c, pos[c])>>
    /\ UNCHANGED <<world, known, picture, blurred, strays>>

\* gm_speed, for a target c: stats to itself, then everyone sees it anew.
Speed(c) ==
    /\ Idle
    /\ c \in players
    /\ stack' = <<Poke(c), Spot("spotRenew", c, pos[c]),
                  Spot("renewSelf", c, pos[c])>>
    /\ UNCHANGED <<world, known, picture, blurred, strays>>

\* gm_ghost, ON.  The spectators to hide from are asked for after the flag is
\* set, when they are gamemasters only: nobody is told.
GhostOn(c) ==
    /\ Idle
    /\ c \in (GM \intersect players) \ ghost
    /\ ghost' = ghost \union {c}
    /\ stack' = <<Poke(c), Spot("spotDress", c, pos[c]), Spot("spotHide", c, pos[c])>>
    /\ blurred' = blurred \union {<<p, c>> : p \in players \ GM}
    /\ UNCHANGED <<players, monsters, pos, known, picture, strays>>

\* gm_ghost, OFF.
GhostOff(c) ==
    /\ Idle
    /\ c \in players \intersect ghost
    /\ ghost' = ghost \ {c}
    /\ stack' = <<Poke(c), Spot("spotDress", c, pos[c]), Spot("spotShow", c, pos[c])>>
    /\ UNCHANGED <<players, monsters, pos, known, picture, blurred, strays>>

-----------------------------------------------------------------------------
(* The rest of a handler                                                   *)

\* The next list of spectators, of the players that are there by now.
Look ==
    /\ Doing(Spots)
    /\ LET c == Top.c  from == Top.from  to == Top.to
           near == Spectators(from, c) \union Spectators(to, c)
       IN stack' = (CASE Top.do = "lookStep" ->
                              Loop("step", c, from, to, near)
                              \o <<Task("finishStep", c, from, to, {})>>
                      [] Top.do = "lookJump" ->
                              Loop("jump", c, from, to, near)
                              \o <<Task("finishJump", c, from, to, {})>>
                      [] Top.do = "spotTurn"  -> Loop("turn", c, from, to, near)
                      [] Top.do = "spotDress" -> Loop("dress", c, from, to, near)
                      [] Top.do = "spotRenew" -> Loop("renew", c, from, to, near)
                      [] Top.do = "spotHide"  -> Loop("gone", c, from, to, near \ GM)
                      [] Top.do = "spotShow"  ->
                              Loop("appear", c, from, to,
                                   {p \in players \ (GM \union {c}) : CanSee(pos[p], to)}))
                   \o Tail(stack)
    /\ UNCHANGED <<world, known, picture, blurred, strays>>

\* From the surface to below, a step is shown as a removal and an addition.
Boundary(from, to) == from.z = 7 /\ to.z >= 8

\* A creature is introduced only while it is in the world.
AddedIfPresent(v, c, at) == IF c \in Present THEN Added(v, c, at) ELSE v

RemovedForgotten(v, c) == Forgotten(Removed(v, c), c)

\* What the packets of the running loop do to the client of spectator p.
Effect(p) ==
    LET v == Client(p)  c == Top.c
        seesFrom == CanSee(pos[p], Top.from)
        seesTo == CanSee(pos[p], Top.to)
        anew == AddedIfPresent(RemovedForgotten(v, c), c, Top.to)
    IN CASE Top.do = "appear" -> AddedIfPresent(v, c, Top.to)
         [] Top.do = "gone" -> RemovedForgotten(v, c)
         [] Top.do = "renew" -> anew
         [] Top.do \in {"turn", "dress"} -> v
         [] Top.do \in {"step", "jump"} /\ ~seesTo -> RemovedForgotten(v, c)
         [] Top.do \in {"step", "jump"} /\ seesTo /\ ~seesFrom ->
                AddedIfPresent(v, c, Top.to)
         [] Top.do = "jump" /\ seesTo /\ seesFrom -> anew
         [] Top.do = "step" /\ seesTo /\ seesFrom ->
                IF Boundary(Top.from, Top.to) THEN anew ELSE Moved(v, c, Top.to)

\* Nothing is sent to p: all there was to send is a creature that is gone.
Silent(p) ==
    /\ Top.c \notin Present
    /\ \/ Top.do = "appear"
       \/ /\ Top.do \in {"step", "jump"}
          /\ CanSee(pos[p], Top.to) /\ ~CanSee(pos[p], Top.from)

\* The packet names a creature the client of p does not have.
Stray(p) ==
    /\ picture[p][Top.c] = Nowhere
    /\ <<p, Top.c>> \notin blurred
    /\ \/ Top.do = "turn"
       \/ /\ Top.do = "step" /\ ~Boundary(Top.from, Top.to)
          /\ CanSee(pos[p], Top.to) /\ CanSee(pos[p], Top.from)

\* The packets of the loop reach the channel of one of its spectators.
Serve ==
    /\ Doing(Loops)
    /\ \E p \in Top.todo \intersect players :
          /\ stack' = Without(p)
          /\ LET v == Effect(p) IN
             /\ known' = [known EXCEPT ![p] = v.known]
             /\ picture' = [picture EXCEPT ![p] = v.picture]
          /\ strays' = strays \union
                (IF Stray(p) THEN {IF Top.c \in Present THEN "present" ELSE "gone"} ELSE {})
    /\ UNCHANGED <<world, blurred>>

\* A spectator that has left since the list was made.
Skip ==
    /\ Doing(Loops \union {"greet"})
    /\ \E p \in Top.todo \ players : stack' = Without(p)
    /\ UNCHANGED <<world, known, picture, blurred, strays>>

\* A push to a spectator fails: it is logged out, here and now.
ReapSpectator ==
    /\ Doing(Loops)
    /\ \E p \in Top.todo \intersect players : ~Silent(p) /\ Leave(p, Without(p))

\* A push to the subject fails, or the subject has gone before.
ReapSelf ==
    /\ Doing(Selves)
    /\ Top.c \in players
    /\ Leave(Top.c, Tail(stack))

SkipSelf ==
    /\ Doing(Selves)
    /\ Top.c \notin players
    /\ stack' = Tail(stack)
    /\ UNCHANGED <<world, known, picture, blurred, strays>>

Poked ==
    /\ Doing({"poke"})
    /\ Top.c \in players
    /\ stack' = Tail(stack)
    /\ UNCHANGED <<world, known, picture, blurred, strays>>

\* login, for one spectator: it is put into the new player's first map, if it
\* stands on that map, and the new player is shown to it.
Greet ==
    /\ Doing({"greet"})
    /\ LET c == Top.c IN
       \E p \in Top.todo \intersect players :
          /\ stack' = Loop("appear", c, Top.to, Top.to, {p}) \o Without(p)
          /\ IF c \in players
             THEN LET v == Added(Client(c), p, pos[p]) IN
                  /\ known' = [known EXCEPT ![c] = v.known]
                  /\ picture' = [picture EXCEPT ![c] =
                                    IF CanSee(pos[c], pos[p]) THEN v.picture ELSE @]
             ELSE UNCHANGED <<known, picture>>
    /\ UNCHANGED <<world, blurred, strays>>

\* login, the end: monsters, NPCs and the player itself on its first map.
Arrive ==
    /\ Doing({"arrive"})
    /\ stack' = Tail(stack)
    /\ LET c == Top.c
           placed == MonstersVisibleFrom(Top.to) \union NpcsVisibleFrom(Top.to)
       IN IF c \in players
          THEN /\ known' = [known EXCEPT ![c] = @ \union placed]
               /\ picture' = [picture EXCEPT ![c] =
                    [d \in Creature |-> IF d \in placed \union {c} THEN pos[d] ELSE @[d]]]
          ELSE UNCHANGED <<known, picture>>
    /\ UNCHANGED <<world, blurred, strays>>

\* Mutant of LeftView: a mover forgets nobody.
LeftViewNobody(seen, to) == {}

\* The creatures, of those seen from tile `from`, that tile `to` does not see.
LeftView(seen, to) == {d \in seen : ~CanSee(to, pos[d])}

\* The client of c after a map with the creatures `placed`: those on tiles
\* that the packet describes are shown, if sent in full or had before.
Mapped(c, to, v, placed, described, kept) ==
    [known |-> (v.known \union placed) \ {c},
     picture |-> [d \in Creature |->
        IF d \in placed \intersect described /\ (d \notin v.known \/ v.picture[d] # Nowhere)
        THEN pos[d]
        ELSE IF d \in kept /\ v.picture[d] # Nowhere /\ CanSee(to, v.picture[d])
             THEN v.picture[d] ELSE Nowhere]]

\* The end of do_move: who left the mover's view is forgotten, who entered it
\* is introduced, and the mover gets its step with the tiles it reveals; a
\* jump between floors is a whole new map instead.
FinishStep ==
    /\ Doing({"finishStep"})
    /\ Top.c \in players
    /\ LET c == Top.c  from == Top.from  to == Top.to
           seen == VisibleFrom(from, c) \union MonstersVisibleFrom(from)
                   \union NpcsVisibleFrom(from)
           placed == VisibleFrom(to, c) \union MonstersVisibleFrom(to)
                     \union NpcsVisibleFrom(to)
           teleportLike == to.z # from.z /\ Distance(to.x, from.x) > 1
           self == IF Boundary(from, to) \/ teleportLike
                   THEN AddedSelf(Client(c), c, to) ELSE Moved(Client(c), c, to)
           v == [self EXCEPT !.known = @ \ LeftView(seen, to)]
           w == IF teleportLike
                THEN Mapped(c, to, v, placed, placed, {c})
                ELSE Mapped(c, to, v, placed, {d \in placed : ~CanSee(from, pos[d])}, Creature)
       IN /\ known' = [known EXCEPT ![c] = w.known]
          /\ picture' = [picture EXCEPT ![c] = w.picture]
    /\ stack' = Tail(stack)
    /\ UNCHANGED <<world, blurred, strays>>

\* The end of do_teleport: as a jump, but monsters are not forgotten.
FinishJump ==
    /\ Doing({"finishJump"})
    /\ Top.c \in players
    /\ LET c == Top.c  from == Top.from  to == Top.to
           seen == VisibleFrom(from, c) \union NpcsVisibleFrom(from)
           placed == VisibleFrom(to, c) \union MonstersVisibleFrom(to)
                     \union NpcsVisibleFrom(to)
           self == AddedSelf(Client(c), c, to)
           v == [self EXCEPT !.known = @ \ LeftView(seen, to)]
           w == Mapped(c, to, v, placed, placed, {c})
       IN /\ known' = [known EXCEPT ![c] = w.known]
          /\ picture' = [picture EXCEPT ![c] = w.picture]
          /\ blurred' = blurred \union
                {<<c, m>> : m \in LeftView(monsters \intersect known[c], to)}
    /\ stack' = Tail(stack)
    /\ UNCHANGED <<world, strays>>

\* The end of gm_speed: the target sees itself anew.
RenewSelf ==
    /\ Doing({"renewSelf"})
    /\ Top.c \in players
    /\ LET c == Top.c  v == AddedSelf(Client(c), c, Top.to) IN
       /\ known' = [known EXCEPT ![c] = v.known]
       /\ picture' = [picture EXCEPT ![c] = v.picture]
    /\ stack' = Tail(stack)
    /\ UNCHANGED <<world, blurred, strays>>

\* Mutant of Drop: a dead player's belief outlives it.
DropKeepsBelief ==
    /\ Doing({"drop"})
    /\ stack' = Tail(stack)
    /\ players' = players \ {Top.c}
    /\ monsters' = monsters \ {Top.c}
    /\ pos' = [pos EXCEPT ![Top.c] = Nowhere]
    /\ ghost' = ghost \ {Top.c}
    /\ UNCHANGED <<known, picture, blurred, strays>>

\* The end of a death: the creature leaves the world, unless it has already.
Drop ==
    /\ Doing({"drop"})
    /\ stack' = Tail(stack)
    /\ LET c == Top.c IN
       IF c \in players \union monsters
       THEN /\ players' = players \ {c}
            /\ monsters' = monsters \ {c}
            /\ pos' = [pos EXCEPT ![c] = Nowhere]
            /\ ghost' = ghost \ {c}
            /\ known' = [p \in Player |-> IF p = c THEN {} ELSE known[p]]
            /\ picture' = [p \in Player |-> IF p = c THEN NoPicture ELSE picture[p]]
            /\ blurred' = BlurredWithout(c)
       ELSE UNCHANGED <<world, known, picture, blurred>>
    /\ UNCHANGED strays

-----------------------------------------------------------------------------

\* What a client, a gamemaster, a monster or a timer may start.
Handle ==
    \/ \E c \in Player, at \in Position : Login(c, at) \/ Walk(c, at) \/ Teleport(c, at)
    \/ \E c \in Player : \/ Logout(c) \/ Notify(c) \/ Turn(c) \/ Speed(c)
                         \/ GhostOn(c) \/ GhostOff(c)
    \/ \E m \in Monster, at \in Position : Spawn(m, at) \/ MonsterWalk(m, at)
    \/ \E c \in Player \union Monster : Die(c)

Continue ==
    \/ Look \/ Serve \/ Skip \/ ReapSpectator \/ ReapSelf \/ SkipSelf
    \/ Poked \/ Greet \/ Arrive \/ FinishStep \/ FinishJump \/ RenewSelf \/ Drop

Next == Handle \/ Continue

Spec == Init /\ [][Next]_vars

-----------------------------------------------------------------------------
(* Properties                                                              *)

TaskOK(t) ==
    /\ t.do \in Kinds
    /\ t.c \in Creature
    /\ t.from \in Position \union {Nowhere}
    /\ t.to \in Position \union {Nowhere}
    /\ t.todo \subseteq Player
    /\ t.do \notin Loops \union {"greet"} => t.todo = {}

\* Creatures in the world have a place, others none; beliefs and pictures are of
\* players in the world only; what is left to do is about known creatures.
TypeOK ==
    /\ players \subseteq Player
    /\ monsters \subseteq Monster
    /\ ghost \subseteq GM \intersect players
    /\ pos \in [Creature -> Position \union {Nowhere}]
    /\ \A c \in Creature : pos[c] = Nowhere <=> c \notin Present
    /\ known \in [Player -> SUBSET Creature]
    /\ picture \in [Player -> [Creature -> Position \union {Nowhere}]]
    /\ \A p \in Player \ players : known[p] = {} /\ picture[p] = NoPicture
    /\ DOMAIN stack = 1..Len(stack)
    /\ \A i \in DOMAIN stack : TaskOK(stack[i])
    /\ blurred \subseteq players \X Creature
    /\ strays \subseteq {"present", "gone"}

\* What player p should see of creature d.
Sees(p, d) == /\ d \in Present
              /\ CanSee(pos[p], pos[d])
              /\ d \in ghost => p \in GM \union {d}

\* After any number of steps, jumps, logins, deaths and reapings, in any order
\* and one inside another, each client shows just the creatures it should, where
\* they are: none missing, none left behind, none out of place.
PicturesRight ==
    Idle => \A p \in players, d \in Creature :
               <<p, d>> \notin blurred =>
                  picture[p][d] = IF Sees(p, d) THEN pos[d] ELSE Nowhere

\* The actor's belief is the truth: it holds a creature for known if and only if
\* the client shows it.  Else the id alone is sent of a creature the client
\* lacks, or a creature the client has is sent in full again.
BeliefsRight ==
    Idle => \A p \in players : \A d \in Present \ {p} :
               <<p, d>> \notin blurred => (d \in known[p] <=> picture[p][d] # Nowhere)

\* A packet that moves or turns a creature in the world reaches only clients
\* that have that creature, also in the middle of a handler.
StraysAreOfTheGone == "present" \notin strays

\* Ghosts are not shown to a new player that is no gamemaster.
NewcomersSeeNoGhosts ==
    [][Doing({"arrive"}) /\ Top.c \notin GM =>
         \A g \in ghost : picture'[Top.c][g] = Nowhere]_vars

\* Turning ghost mode on removes the gamemaster from the clients of others.
GhostsVanish ==
    [][Doing({"spotHide"}) =>
         \A p \in players \ GM : picture[p][Top.c] # Nowhere =>
            Doing({"gone"})' /\ p \in Top'.todo]_vars

\* A monster in view is shown, also when it comes back into view.
MonstersShown ==
    Idle => \A p \in players, m \in monsters :
               CanSee(pos[p], pos[m]) => picture[p][m] = pos[m]
=============================================================================
