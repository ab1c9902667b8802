------------------------------ MODULE Walking ------------------------------
(***************************************************************************)
(* Walking by itself: click-to-move, following and the monsters' steps     *)
(* (game/mod.rs: do_follow_target, do_clear_auto_walk, do_go_to_position,  *)
(* do_go_to_steps, on_monster_ai_tick; game/movement.rs; the chase of      *)
(* game/combat.rs).                                                        *)
(*                                                                         *)
(* Whoever walks has a queue of steps planned by a path search, and plays  *)
(* one of them per turn of the AI tick.  Commands, other creatures, deaths *)
(* and teleports come between the search and the steps.  The tick itself   *)
(* is one message of the actor: it is taken creature by creature, in any   *)
(* order (the tables are hash maps), and nothing else happens until all    *)
(* that are due had their turn.                                            *)
(*                                                                         *)
(* The search is any of the paths it may find, or none: what it really     *)
(* returns is checked in Algorithms.  All chunks are loaded: see Chunks.   *)
(***************************************************************************)
EXTENDS Terrain

CONSTANTS
    Players, Monsters,
    World,          \* the terrain
    Entrance,       \* where players enter
    Temples,        \* where teleports lead
    Dens,           \* where each monster lives
    Clicks,         \* the tiles players click on
    Bucket,         \* the turn of each monster in the cycle of ticks (id % 10)
    Buckets,        \* length of that cycle (10)
    StepTime,       \* ticks between two automatic steps of a player (step_time)
    FleeSight, AggroRange,
    WanderSteps,    \* steps of an idle stroll (3)
    ViewX, ViewY,   \* how far a player sees (8, 6)
    Longest         \* bound on the length of a path (the search stops at 512 nodes)

\* Ids are never given twice: whoever is back under its name is someone new
\* to those that still refer to it.
NoOne == "no one"
Departed == "departed"
Creatures == Players \cup Monsters

ASSUME WalkingAssumption ==
    /\ Players \cap Monsters = {} /\ Creatures \cap {NoOne, Departed} = {}
    /\ Buckets \in Nat \ {0} /\ Bucket \in [Monsters -> 0..Buckets-1]
    /\ {StepTime, FleeSight, AggroRange, WanderSteps, ViewX, ViewY, Longest} \subseteq Nat
    /\ World.held = {ChunkOf(q) : q \in World.ground} /\ World.ground \subseteq Position
    /\ Entrance \in Position /\ Temples \subseteq Position /\ Dens \in [Monsters -> Position]

VARIABLES
    player,     \* position and walking state of each player
    monster,    \* the same of each monster
    due,        \* who still has a turn in the tick being handled
    bucket      \* the monsters the next tick handles

vars == <<player, monster, due, bucket>>

\* A player that just entered, and a monster that just appeared.  origin is
\* a history variable: where the first queued step was planned to be taken.
Fresh(pos) ==
    [at |-> pos, goto |-> Nowhere, follow |-> NoOne, queue |-> << >>, origin |-> Nowhere,
     failed |-> 0, rest |-> StepTime, locked |-> FALSE]
Newborn(pos) ==
    [at |-> pos, attacking |-> NoOne, follow |-> NoOne, queue |-> << >>, origin |-> Nowhere,
     scared |-> FALSE]

\* The tiles someone may stand on: those with ground, which all steps lead to,
\* and those one is put on, which no one checks.
Footing == World.ground \cup {Entrance} \cup Temples \cup {Dens[m] : m \in Monsters}

Here(c) == IF c \in Players THEN player[c].at ELSE monster[c].at
Exists(c) == c \in Creatures /\ Here(c) # Nowhere
LosesSight(r, c) == [r EXCEPT !.follow = IF @ = c THEN Departed ELSE @]
LosesFoe(r, c) ==
    [LosesSight(r, c) EXCEPT !.attacking = IF @ = c THEN Departed ELSE @]
EndsFight(r, c) == [LosesSight(r, c) EXCEPT !.attacking = IF @ = c THEN NoOne ELSE @]
Zone(p) == IsProtectionZone(World, p)
Occupied(p, id) == \E c \in Creatures \ {id} : Here(c) = p

Distance(p, q) == Greater(Abs(p[1] - q[1]), Abs(p[2] - q[2]))
Sees(p, q) == Abs(p[1] - q[1]) <= ViewX /\ Abs(p[2] - q[2]) <= ViewY

Idle == due = [monsters |-> {}, players |-> {}]

-----------------------------------------------------------------------------
(* Queues and paths *)

Plan(c, path) ==
    IF path = << >> THEN c ELSE [c EXCEPT !.queue = path, !.origin = c.at]
Clear(c) == [c EXCEPT !.queue = << >>, !.origin = Nowhere]
StopWalk(c) == [Clear(c) EXCEPT !.goto = Nowhere, !.follow = NoOne, !.failed = 0]

\* The first step taken or tried; a step that leads to another floor leaves
\* no plan to speak of.
Popped(c, landing) ==
    LET dir == Head(c.queue)
        planned == Offset(c.at, Delta[dir][1], Delta[dir][2])
    IN  [c EXCEPT !.queue = Tail(@),
                  !.origin = IF Tail(c.queue) = << >> \/ c.origin = Nowhere \/ landing # planned
                             THEN Nowhere ELSE Offset(@, Delta[dir][1], Delta[dir][2])]

\* The tiles a search walks over.
Searched(p, start, avoid) ==
    /\ IsWalkable(World, p) /\ FloorChangeAt(World, p) = {}
    /\ avoid => p = start \/ ~ Zone(p)

Steps(tiles) ==
    [i \in 1..Len(tiles)-1 |->
        CHOOSE d \in Direction : tiles[i+1] = Offset(tiles[i], Delta[d][1], Delta[d][2])]

\* What a search from one tile to the nearest of some may return.
Paths(from, goals, avoid) ==
    LET next(t) == {q \in {Offset(Last(t), Delta[d][1], Delta[d][2]) : d \in Direction} \ {Nowhere} :
                        Searched(q, from, avoid) /\ ~ Contains(t, q)}
        trails[n \in 0..Longest] ==
            IF n = 0 THEN {<<from>>}
            ELSE UNION {{Append(t, q) : q \in next(t)} : t \in {s \in trails[n-1] : Last(s) \notin goals}}
    IN  {<< >>} \cup {Steps(t) : t \in {s \in UNION {trails[n] : n \in 0..Longest} : Last(s) \in goals}}

-----------------------------------------------------------------------------
(* Players *)

\* Mutant of Landing: only who stands there is looked at.
LandingBlind(p, dir) ==
    LET me == player[p]
        raw == Offset(me.at, Delta[dir][1], Delta[dir][2])
    IN  IF raw # Nowhere /\ ~ Occupied(raw, p) THEN raw ELSE Nowhere

\* Where a step leads, Nowhere if it is refused.
Landing(p, dir) ==
    LET me == player[p]
        raw == Offset(me.at, Delta[dir][1], Delta[dir][2])
        land == ResolveVertical(World, me.at, raw, Diagonal(dir))
    IN  IF /\ raw # Nowhere
           /\ IF land[3] # me.at[3] THEN HasGround(World, land)
              ELSE IsWalkable(World, land) /\ ~ Occupied(land, p)
           /\ Zone(land) /\ ~ Zone(me.at) => ~ me.locked
        THEN land ELSE Nowhere

Login(p) ==
    /\ Idle /\ player[p].at = Nowhere /\ ~ Occupied(Entrance, p)
    /\ player' = [player EXCEPT ![p] = Fresh(Entrance)]
    /\ UNCHANGED <<monster, due, bucket>>

Logout(p) ==
    /\ Idle /\ player[p].at # Nowhere
    /\ player' = [[q \in Players |-> LosesSight(player[q], p)] EXCEPT ![p] = Fresh(Nowhere)]
    /\ monster' = [m \in Monsters |-> LosesFoe(monster[m], p)]
    /\ UNCHANGED <<due, bucket>>

\* Death takes the player out as well, and ends the fights with it.
Perish(p) ==
    /\ Idle /\ player[p].at # Nowhere
    /\ player' = [[q \in Players |-> LosesSight(player[q], p)] EXCEPT ![p] = Fresh(Nowhere)]
    /\ monster' = [m \in Monsters |-> EndsFight(monster[m], p)]
    /\ UNCHANGED <<due, bucket>>

\* Mutant of Move: an arrow key that leaves the queue alone.
MoveOnTop(p, dir) ==
    /\ Idle /\ player[p].at # Nowhere
    /\ LET to == Landing(p, dir)
       IN  player' = [player EXCEPT ![p].goto = Nowhere, ![p].follow = NoOne,
                                    ![p].at = IF to = Nowhere THEN @ ELSE to]
    /\ UNCHANGED <<monster, due, bucket>>

\* An arrow key cancels any walk first.
Move(p, dir) ==
    /\ Idle /\ player[p].at # Nowhere
    /\ LET to == Landing(p, dir)
           stopped == [Clear(player[p]) EXCEPT !.goto = Nowhere, !.follow = NoOne]
       IN  player' = [player EXCEPT ![p] = [stopped EXCEPT !.at = IF to = Nowhere THEN @ ELSE to]]
    /\ UNCHANGED <<monster, due, bucket>>

Teleport(p, to) ==
    /\ Idle /\ player[p].at # Nowhere
    /\ player' = [player EXCEPT ![p] = [StopWalk(@) EXCEPT !.at = to]]
    /\ UNCHANGED <<monster, due, bucket>>

\* The end of a fight with another player lifts the lock; see Combat.
Lock(p) ==
    /\ Idle /\ player[p].at # Nowhere
    /\ player' = [player EXCEPT ![p].locked = ~ @]
    /\ UNCHANGED <<monster, due, bucket>>

Beside(target, pos) == Distance(pos, target) <= 1
Around(target) == {q \in Footing : Beside(target, q)}

FollowTarget(p, t) ==
    /\ Idle /\ player[p].at # Nowhere
    /\ LET me == player[p]
       IN  IF t = NoOne
           THEN player' = [player EXCEPT ![p] = [Clear(me) EXCEPT !.follow = NoOne]]
           ELSE /\ t # p /\ Exists(t) /\ me.at[3] = Here(t)[3] /\ ~ Beside(Here(t), me.at)
                /\ \E path \in Paths(me.at, Around(Here(t)), me.locked) :
                    player' = [player EXCEPT ![p] = Plan([me EXCEPT !.follow = t], path)]
    /\ UNCHANGED <<monster, due, bucket>>

\* The stop key; it leaves the follow target alone.
ClearAutoWalk(p) ==
    /\ Idle /\ player[p].at # Nowhere
    /\ player' = [player EXCEPT ![p] = [Clear(@) EXCEPT !.goto = Nowhere]]
    /\ UNCHANGED <<monster, due, bucket>>

\* A click on a tile: the tile the steps of the client lead to.
GoToPosition(p, target) ==
    /\ LET me == player[p]
       IN  /\ Zone(target) => ~ me.locked
           /\ me.at[3] = target[3] /\ IsWalkable(World, target)
           /\ Sees(me.at, target) /\ me.at # target
           /\ \E path \in Paths(me.at, {target}, me.locked) :
                player' = [player EXCEPT ![p] =
                    Plan([me EXCEPT !.follow = NoOne,
                                    !.goto = IF path = << >> THEN Nowhere ELSE target], path)]
    /\ UNCHANGED <<monster, due, bucket>>

GoToSteps(p, target) ==
    /\ Idle /\ player[p].at # Nowhere
    /\ ~ (player[p].goto = target /\ player[p].queue # << >>)
    /\ GoToPosition(p, target)

-----------------------------------------------------------------------------
(* A player's turn in the AI tick *)

\* One queued step when it is time; a refused one ends the walk.
Advance(p, me) ==
    LET dir == Head(me.queue)
        to == Landing(p, dir)
    IN  IF me.queue = << >> \/ me.rest < StepTime THEN me
        ELSE IF to = Nowhere THEN [StopWalk(me) EXCEPT !.rest = 0]
        ELSE [Popped(me, to) EXCEPT !.at = to, !.rest = 0]

FollowTurn(p) ==
    LET me == player[p]
        there == Here(me.follow)
        lost == [me EXCEPT !.follow = NoOne]
    IN  IF ~ Exists(me.follow) \/ me.at[3] # there[3] THEN {lost}
        ELSE IF Zone(me.at) \/ ~ Sees(me.at, there) \/ Beside(there, me.at) THEN {Clear(lost)}
        ELSE LET replans == IF me.queue # << >> THEN {me}
                            ELSE {Plan(me, path) : path \in
                                    Paths(me.at, Around(there), me.locked)}
             IN  {Advance(p, next) : next \in replans}

\* Mutant of GoToTurn: a failed search is tried again for ever.
GoToTurnPatient(p) ==
    LET me == player[p]
        paths == Paths(me.at, {me.goto}, me.locked)
        replans == {Advance(p, Plan(me, path)) : path \in paths \ {<< >>}}
    IN  IF me.at = me.goto THEN {[Clear(me) EXCEPT !.goto = Nowhere]}
        ELSE IF me.queue # << >> THEN {Advance(p, me)}
        ELSE replans \cup {me}

\* Arrived; on the way; searching again, three times at most (the count is
\* of the player, not of the destination).
GoToTurn(p) ==
    LET me == player[p]
        paths == Paths(me.at, {me.goto}, me.locked)
        replans == {Advance(p, Plan(me, path)) : path \in paths \ {<< >>}}
        fails == IF me.failed + 1 >= 3 THEN [Clear(me) EXCEPT !.goto = Nowhere, !.failed = 0]
                 ELSE [me EXCEPT !.failed = @ + 1]
    IN  IF me.at = me.goto THEN {[Clear(me) EXCEPT !.goto = Nowhere]}
        ELSE IF me.queue # << >> THEN {Advance(p, me)}
        ELSE replans \cup {fails}

PlayerTurn(p) ==
    /\ due.monsters = {} /\ p \in due.players
    /\ due' = [due EXCEPT !.players = @ \ {p}]
    /\ \E next \in IF player[p].follow # NoOne THEN FollowTurn(p) ELSE GoToTurn(p) :
        player' = [player EXCEPT ![p] = next]
    /\ UNCHANGED <<monster, bucket>>

-----------------------------------------------------------------------------
(* A monster's turn *)

\* The players nearest to a tile, within a range: the hash map picks one.
Nearest(pos, range) ==
    LET near == {p \in Players : /\ player[p].at # Nowhere /\ player[p].at[3] = pos[3]
                                 /\ Distance(player[p].at, pos) <= range}
        walk(p) == Abs(player[p].at[1] - pos[1]) + Abs(player[p].at[2] - pos[2])
    IN  {p \in near : \A q \in near : walk(p) <= walk(q)}

EnteringZone(from, to) == Zone(to) /\ ~ Zone(from)
CanStep(m, from, to) ==
    /\ to # Nowhere /\ IsWalkable(World, to) /\ ~ Occupied(to, m)
    /\ FloorChangeAt(World, to) = {} /\ ~ EnteringZone(from, to)

Signum(n) == IF n > 0 THEN 1 ELSE IF n < 0 THEN -1 ELSE 0
Tries == <<"North", "East", "South", "West", "NorthEast", "NorthWest", "SouthEast", "SouthWest">>

\* The step that leads farthest from a threat, along the line away from it
\* if it can, as a queue; empty when every tile away from it is taken.
FleeStep(m, from, threat) ==
    LET to(i) == Offset(from, Delta[Tries[i]][1], Delta[Tries[i]][2])
        align(i) == Delta[Tries[i]][1] * Signum(from[1] - threat[1])
                    + Delta[Tries[i]][2] * Signum(from[2] - threat[2])
        away == {i \in 1..8 : /\ CanStep(m, from, to(i))
                              /\ Distance(to(i), threat) > Distance(from, threat)}
        better(i, j) == \/ align(i) > align(j)
                        \/ align(i) = align(j) /\ i <= j
    IN  IF away = {} THEN << >>
        ELSE <<Tries[CHOOSE i \in away : \A j \in away : better(i, j)]>>

Drop(c) == [c EXCEPT !.attacking = NoOne, !.follow = NoOne]
Hunt(c, p) == [c EXCEPT !.attacking = p, !.follow = p]

\* Mutant of Flees: the step away goes behind what is queued.
FleesLater(m, c) ==
    IF ~ c.scared THEN {c}
    ELSE LET threats == Nearest(c.at, FleeSight)
             away(p) == FleeStep(m, c.at, player[p].at)
         IN  IF threats = {} THEN {Drop(c)}
             ELSE {Plan(Drop(c), IF away(p) = << >> THEN << >> ELSE c.queue \o away(p)) :
                    p \in threats}

\* A scared monster runs from a player in sight.
Flees(m, c) ==
    IF ~ c.scared THEN {c}
    ELSE LET threats == Nearest(c.at, FleeSight)
         IN  IF threats = {} THEN {Drop(c)}
             ELSE {Plan(Drop(c), FleeStep(m, c.at, player[p].at)) : p \in threats}

\* Any other that has no fight picks one, outside the zones.
Aggro(c) ==
    LET targets == Nearest(c.at, AggroRange)
    IN  IF c.scared \/ c.attacking # NoOne \/ targets = {} THEN {c}
        ELSE {IF Zone(player[p].at) THEN c ELSE Hunt(c, p) : p \in targets}

Sheltered(t) == t \in Players /\ Exists(t) /\ Zone(player[t].at)

\* Mutant of LetsGo: the target that reached a zone is still hunted.
LetsGoNot(m, c) == c

\* A target in a zone is let go: one step away from it.
LetsGo(m, c) ==
    IF Sheltered(c.follow)
    THEN Plan(Clear(Drop(c)), FleeStep(m, c.at, player[c.follow].at))
    ELSE c

\* The chase plans again when its queue is empty; a target that is gone or
\* on another floor ends the turn.
Chases(c) ==
    IF c.follow = NoOne \/ c.queue # << >> \/ ~ Exists(c.follow) THEN {c}
    ELSE LET there == Here(c.follow)
         IN  IF there[3] # c.at[3] THEN {c}
             ELSE {Plan(c, path) : path \in Paths(c.at, Around(there), TRUE)}

Gone(c) == c.follow # NoOne /\ c.queue = << >> /\ ~ Exists(c.follow)

\* Without a target it may take a stroll, unless it should be running.
Wanders(c) ==
    LET watched == c.scared /\ Nearest(c.at, FleeSight) # {}
        strolls == [1..WanderSteps -> {"North", "East", "South", "West"}]
    IN  {c} \cup IF c.follow # NoOne \/ watched \/ c.queue # << >> THEN {}
                 ELSE {Plan(c, stroll) : stroll \in strolls}

\* Mutant of StepMonster: a refused step leaves the rest of the queue.
StepMonsterOn(m, c) ==
    IF c.queue = << >> THEN c
    ELSE LET dir == Head(c.queue)
             to == Offset(c.at, Delta[dir][1], Delta[dir][2])
         IN  IF CanStep(m, c.at, to) THEN [Popped(c, to) EXCEPT !.at = to] ELSE Popped(c, to)

\* A refused step drops the queue.
StepMonster(m, c) ==
    IF c.queue = << >> THEN c
    ELSE LET dir == Head(c.queue)
             to == Offset(c.at, Delta[dir][1], Delta[dir][2])
         IN  IF CanStep(m, c.at, to) THEN [Popped(c, to) EXCEPT !.at = to] ELSE Clear(c)

MonsterTurn(m) ==
    /\ m \in due.monsters
    /\ due' = [due EXCEPT !.monsters = @ \ {m}]
    /\ \E fled \in Flees(m, monster[m]) : \E keen \in Aggro(fled) :
        LET c == LetsGo(m, keen)
        IN  IF Gone(c) THEN monster' = [monster EXCEPT ![m] = [c EXCEPT !.follow = NoOne]]
            ELSE \E chasing \in Chases(c) : \E going \in Wanders(chasing) :
                    monster' = [monster EXCEPT ![m] = StepMonster(m, going)]
    /\ UNCHANGED <<player, bucket>>

\* The tick: who has a turn, and a little more rest for the players.
Tick ==
    /\ Idle
    /\ due' = [monsters |-> {m \in Monsters : monster[m].at # Nowhere /\ Bucket[m] = bucket},
               players |-> {p \in Players : player[p].follow # NoOne \/ player[p].goto # Nowhere}]
    /\ bucket' = (bucket + 1) % Buckets
    /\ player' = [p \in Players |-> [player[p] EXCEPT !.rest = Lesser(@ + 1, StepTime)]]
    /\ UNCHANGED monster

-----------------------------------------------------------------------------
(* What the rest of the game does to monsters *)

\* The combat tick drops targets that are gone, or sheltered.
CombatTick(m) ==
    /\ Idle /\ monster[m].at # Nowhere /\ monster[m].attacking # NoOne
    /\ LET c == monster[m]
       IN  monster' = [monster EXCEPT ![m] =
            IF ~ Exists(c.attacking) THEN [c EXCEPT !.attacking = NoOne]
            ELSE IF c.scared THEN Drop(c)
            ELSE IF Sheltered(c.attacking) THEN Clear(Drop(c))
            ELSE IF Zone(c.at) THEN [c EXCEPT !.attacking = NoOne] ELSE c]
    /\ UNCHANGED <<player, due, bucket>>

Die(m) ==
    /\ Idle /\ monster[m].at # Nowhere
    /\ monster' = [monster EXCEPT ![m] = Newborn(Nowhere)]
    /\ player' = [p \in Players |-> LosesSight(player[p], m)]
    /\ UNCHANGED <<due, bucket>>

\* It comes back at its place, whoever stands there.
Respawn(m) ==
    /\ Idle /\ monster[m].at = Nowhere
    /\ monster' = [monster EXCEPT ![m] = Newborn(Dens[m])]
    /\ UNCHANGED <<player, due, bucket>>

\* A wound brings it under the health at which it runs, or it swings back.
Wound(m, p) ==
    /\ Idle /\ monster[m].at # Nowhere /\ player[p].at # Nowhere
    /\ \/ monster' = [monster EXCEPT ![m].scared = TRUE]
       \/ /\ ~ monster[m].scared /\ monster[m].attacking = NoOne
          /\ monster' = [monster EXCEPT ![m].attacking = p]
    /\ UNCHANGED <<player, due, bucket>>

-----------------------------------------------------------------------------
Init ==
    /\ player = [p \in Players |-> Fresh(Nowhere)]
    /\ monster = [m \in Monsters |-> Newborn(Dens[m])]
    /\ due = [monsters |-> {}, players |-> {}]
    /\ bucket = 0

\* What the client of p asks for.
Order(p) ==
    \/ \E dir \in Direction : Move(p, dir)
    \/ \E t \in Creatures \cup {NoOne} : FollowTarget(p, t)
    \/ ClearAutoWalk(p)
    \/ \E target \in Clicks : GoToSteps(p, target)

Turn == (\E m \in Monsters : MonsterTurn(m)) \/ (\E p \in Players : PlayerTurn(p))

Next ==
    \/ Tick \/ Turn
    \/ \E p \in Players : \/ Order(p) \/ Login(p) \/ Logout(p) \/ Perish(p) \/ Lock(p)
                          \/ \E to \in Temples : Teleport(p, to)
    \/ \E m \in Monsters : CombatTick(m) \/ Die(m) \/ Respawn(m) \/ \E p \in Players : Wound(m, p)

\* The timer task sends ticks for ever and the actor handles what it is sent.
Spec == Init /\ [][Next]_vars /\ WF_vars(Tick \/ Turn)

-----------------------------------------------------------------------------
(* Properties *)

TypeOK ==
    /\ player \in [Players -> [at : Footing \cup {Nowhere}, goto : Clicks \cup {Nowhere},
                               follow : Creatures \cup {NoOne, Departed}, queue : Seq(Direction),
                               origin : Position \cup {Nowhere}, failed : 0..2,
                               rest : 0..StepTime, locked : BOOLEAN]]
    /\ monster \in [Monsters -> [at : Footing \cup {Nowhere},
                                 attacking : Players \cup {NoOne, Departed},
                                 follow : Players \cup {NoOne, Departed},
                                 queue : Seq(Direction), origin : Position \cup {Nowhere},
                                 scared : BOOLEAN]]
    /\ due \in [monsters : SUBSET Monsters, players : SUBSET Players]
    /\ bucket \in 0..Buckets-1

\* A queued step is only ever played from the tile it was planned on: a step
\* that failed, an arrow key, a teleport or a death in between has dropped
\* the queue (do_move_monster: "later steps, which assumed this one landed,
\* are not played from the old tile").  Only a step that leads to another
\* floor leaves a queue with no plan.
OnCourse ==
    /\ \A p \in Players : player[p].origin \in {Nowhere, player[p].at}
    /\ \A m \in Monsters : monster[m].origin \in {Nowhere, monster[m].at}

\* Something other than the tick changed a player.
Disturbed(p) == Idle /\ player'[p].rest = player[p].rest /\ player'[p] # player[p]

\* A click-to-move ends: left alone by its client and by the others, a player
\* reaches its destination or gives it up, unless it follows someone
\* (on_monster_ai_tick 2b).
WalksEnd ==
    \A p \in Players :
        <>[][~ Disturbed(p)]_player => []<>(player[p].goto = Nowhere \/ player[p].follow # NoOne)

\* A monster does not camp at the border of a zone: it lets go of a target
\* that stays inside (on_monster_ai_tick, "drop the fight and step away").
NoCamping ==
    \A m \in Monsters, p \in Players :
        monster[m].follow = p ~> (monster[m].follow # p \/ ~ Sheltered(p))

\* A scared monster that has a free tile away from its threat does not step
\* any closer to it (on_monster_ai_tick, the flee branch).
RunsAway ==
    [][\A m \in Monsters :
        LET c == monster[m]
            threats == Nearest(c.at, FleeSight)
        IN  c.scared /\ threats # {} /\ m \in due.monsters \ due'.monsters =>
                \E p \in threats :
                    \/ FleeStep(m, c.at, player[p].at) = << >>
                    \/ Distance(monster'[m].at, player[p].at) > Distance(c.at, player[p].at)]_vars

=============================================================================
