------------------------------ MODULE Combat ------------------------------
(***************************************************************************)
(* Who fights whom: targets, blows, deaths, the lock that keeps a player   *)
(* that attacked another out of protection zones, the status icons its     *)
(* client shows, monsters that retaliate, chase and respawn                *)
(* (world/game/combat.rs, the parts of movement.rs and mod.rs that bear on *)
(* them).                                                                  *)
(*                                                                         *)
(* A combat tick copies the list of fights and then processes them one by  *)
(* one, so an entry may be stale when its turn comes: the target dead, the *)
(* attacker logged out by a push that failed.  Each fight is one action;   *)
(* no other handler runs until the tick is over.                           *)
(*                                                                         *)
(* Time is counted in combat ticks.  Where creatures stand is abstracted   *)
(* to in or out of a protection zone; whether a target is in reach and in  *)
(* sight is left open.                                                     *)
(***************************************************************************)
EXTENDS Integers, FiniteSets, Functions

CONSTANTS
    Player,      \* players; one that left may log in again as a new creature
    Monster,     \* monster ids
    Aggressive,  \* hostile monsters that attack whoever comes near
    Hostile,     \* monsters that hit back
    Timid,       \* monsters that flee when their health is low
    Summoned,    \* monster ids kept for gamemasters' creatures; the rest is for
                 \* the spawn points, so that none waits for an id
    Spawn,       \* spawn points
    None,        \* no creature, no spawn point
    PlayerHealth, MonsterHealth, \* hit points of everyone
    FleeAt,      \* the health at which a timid monster flees
    Lock,        \* PZ_LOCK_MS, in combat ticks
    Interval,    \* MELEE_ATTACK_INTERVAL_MS, in combat ticks
    Respawn,     \* the respawn interval, in combat ticks
    Skew,        \* how far another timer's clock may be off the combat tick's
    MaxTime      \* bound: the last combat tick

Creature == Player \union Monster

ASSUME CombatAssumption ==
    /\ IsFiniteSet(Player) /\ IsFiniteSet(Monster)
    /\ Player \intersect Monster = {}
    /\ Hostile \subseteq Monster /\ Aggressive \subseteq Hostile
    /\ Timid \subseteq Monster /\ Summoned \subseteq Monster
    /\ None \notin Creature \union Spawn
    /\ PlayerHealth \in Nat \ {0} /\ MonsterHealth \in Nat \ {0} /\ FleeAt \in Nat
    /\ Skew \in Nat /\ MaxTime \in Nat
    /\ Interval \in Nat \ {0} /\ Respawn \in Nat \ {0}
    /\ Lock \in Nat /\ Lock > 2 * Skew + 1

VARIABLES
    world,      \* the players and monsters in the world, each with its fields
    respawnAt,  \* when each spawn point makes its next monster; 0: not planned
    now,        \* the actor's clock: the stamp of the last tick of any timer
    stamp,      \* the stamp of the last combat tick
    phase,      \* "idle", or the half of the combat tick under way
    fights      \* pairs of attacker and target the tick has yet to process

vars == <<world, respawnAt, now, stamp, phase, fights>>

Players == DOMAIN world \intersect Player
Monsters == DOMAIN world \intersect Monster

Idle == phase = "idle"

Icon == {"pigeon", "swords"}

PlayerState ==
    [health : 0..PlayerHealth, zone : BOOLEAN, attacking : Creature \union {None},
     lastAttack : Nat, lock : Nat, icons : SUBSET Icon, told : BOOLEAN,
     harmed : Nat]

MonsterState ==
    [health : 0..MonsterHealth, zone : BOOLEAN, attacking : Creature \union {None},
     lastAttack : Nat, chasing : Player \union {None}, spawn : Spawn \union {None}]

\* A player as `login` creates it, with the health it was saved with.  Icons: what
\* the client shows; told: whether the actor has sent any since the burst, which
\* shows none.  Harmed, read by the properties only: when it last dealt a blow to
\* a player.
NewPlayer(h, z) ==
    [health |-> h, zone |-> z, attacking |-> None, lastAttack |-> 0,
     lock |-> 0, icons |-> {}, told |-> FALSE, harmed |-> 0]

NewMonster(s, z) ==
    [health |-> MonsterHealth, zone |-> z, attacking |-> None, lastAttack |-> 0,
     chasing |-> None, spawn |-> s]

-----------------------------------------------------------------------------
(* What handlers do to a world w                                           *)

\* The creatures C leave: logged out or dead.  Whoever attacks them keeps its target.
Without(w, C) == Restrict(w, DOMAIN w \ C)

With(w, c, state) == [d \in DOMAIN w \union {c} |-> IF d = c THEN state ELSE w[d]]

\* The loops of do_death and do_monster_death over all players and monsters.
FightsCleared(w, v) ==
    [c \in DOMAIN w |-> IF w[c].attacking = v THEN [w[c] EXCEPT !.attacking = None]
                        ELSE w[c]]

\* MonsterState::is_fleeing
Fleeing(m, w) == m \in Timid /\ w[m].health <= FleeAt

\* Game::client_icon_mask at time t: the dove in a zone, red swords while locked.
Mask(w, p, t) ==
    (IF w[p].zone THEN {"pigeon"} ELSE {}) \union (IF w[p].lock > t THEN {"swords"} ELSE {})

IconsShown(w, p, t) == [w EXCEPT ![p].icons = Mask(w, p, t), ![p].told = TRUE]

\* push_combat_icons: the client shows them, or the push fails and p is logged out.
IconsSent(w, p, t) == {IconsShown(w, p, t), Without(w, {p})}

\* An id no creature has, and that no one remembers: the code counts ids up.
Fresh(c) ==
    /\ c \notin DOMAIN world
    /\ \A d \in DOMAIN world : world[d].attacking # c
    /\ \A m \in Monsters : world[m].chasing # c

-----------------------------------------------------------------------------
Init ==
    /\ \E first \in Injection(Spawn, Monster \ Summoned) :
        world = [m \in Range(first) |->
                    NewMonster(CHOOSE s \in Spawn : first[s] = m, FALSE)]
    /\ respawnAt = [s \in Spawn |-> 0]
    /\ now = 0 /\ stamp = 0
    /\ phase = "idle"
    /\ fights = {}

(* Commands, between ticks                                                 *)

Login(p) ==
    /\ Idle /\ Fresh(p)
    /\ \E h \in 0..PlayerHealth, z \in BOOLEAN : world' = With(world, p, NewPlayer(h, z))
    /\ UNCHANGED <<respawnAt, now, stamp, phase, fights>>

\* A logout, or any push that fails: nobody's target is cleared.
Logout(p) ==
    /\ Idle
    /\ p \in Players
    /\ world' = Without(world, {p})
    /\ UNCHANGED <<respawnAt, now, stamp, phase, fights>>

\* gm_monster: no spawn point, on the tile of its creator, zone or not.
Summon(m) ==
    /\ Idle
    /\ m \in Summoned /\ Fresh(m)
    /\ \E p \in Players : world' = With(world, m, NewMonster(None, world[p].zone))
    /\ UNCHANGED <<respawnAt, now, stamp, phase, fights>>

\* refresh_pz_lock, if the target is a player.
Locked(w, p, t) ==
    IF w[p].attacking \in DOMAIN w \intersect Player
    THEN [w EXCEPT ![p].lock = t + Lock] ELSE w

\* do_set_target with a target: not from inside a zone.
SetTarget(p, c) ==
    /\ Idle
    /\ p \in Players /\ c \in DOMAIN world \ {p}
    /\ ~world[p].zone
    /\ LET w == [world EXCEPT ![p].attacking = c, ![p].lastAttack = 0]
       IN  world' \in IconsSent(Locked(w, p, now), p, now)
    /\ UNCHANGED <<respawnAt, now, stamp, phase, fights>>

\* Mutant of ClearTarget: who stops fighting is free at once.
ClearTargetUnlocks(p) ==
    /\ Idle
    /\ p \in Players
    /\ world' \in IconsSent([world EXCEPT ![p].attacking = None, ![p].lock = 0], p, now)
    /\ UNCHANGED <<respawnAt, now, stamp, phase, fights>>

\* do_set_target with 0: the lock stays.
ClearTarget(p) ==
    /\ Idle
    /\ p \in Players
    /\ world' \in IconsSent([world EXCEPT ![p].attacking = None], p, now)
    /\ UNCHANGED <<respawnAt, now, stamp, phase, fights>>

\* do_move across the border of a zone, not into one while locked.
Step(p) ==
    /\ Idle
    /\ p \in Players
    /\ world[p].zone \/ world[p].lock <= now
    /\ world' \in IconsSent([world EXCEPT ![p].zone = ~@], p, now)
    /\ UNCHANGED <<respawnAt, now, stamp, phase, fights>>

\* do_teleport across the border, or a step of a gamemaster that walks through
\* walls: locked or not.
Teleport(p) ==
    /\ Idle
    /\ p \in Players
    /\ world' \in IconsSent([world EXCEPT ![p].zone = ~@], p, now)
    /\ UNCHANGED <<respawnAt, now, stamp, phase, fights>>

(* Other timers                                                            *)

\* The stamp of a tick of another timer, handled after the last combat tick.
OtherStamp(t) == t \in 0..(stamp + Skew) /\ t >= stamp - Skew

\* What on_monster_ai_tick makes of one monster's target.  Which player is
\* nearest, and whether its path is used up, is left open.
Thoughts(w, m) ==
    LET calm == [w EXCEPT ![m].attacking = None, ![m].chasing = None]
        prey == w[m].chasing
        players == DOMAIN w \intersect Player
        aggro == {[w EXCEPT ![m].attacking = q, ![m].chasing = q, ![m].lastAttack = 0] :
                  q \in {q \in players : ~w[q].zone}}
    IN  IF Fleeing(m, w) THEN {calm}
        ELSE (IF m \in Aggressive /\ w[m].attacking = None THEN aggro ELSE {})
             \union (IF prey \in players /\ w[prey].zone THEN {calm} ELSE {w})
             \union (IF prey # None /\ prey \notin players
                     THEN {[w EXCEPT ![m].chasing = None]} ELSE {})

\* A monster never steps into a zone; one that was created there may leave.
MonsterAiTick(m, t) ==
    /\ Idle
    /\ m \in Monsters
    /\ OtherStamp(t)
    /\ \E w \in Thoughts(world, m) :
        \/ world' = w
        \/ world' = [w EXCEPT ![m].zone = FALSE]
    /\ now' = t
    /\ UNCHANGED <<respawnAt, stamp, phase, fights>>

\* on_regen_tick: the players in H gain health.
RegenTick(t, H) ==
    /\ Idle
    /\ OtherStamp(t)
    /\ H \subseteq {p \in Players : world[p].health < PlayerHealth}
    /\ world' = [c \in DOMAIN world |->
                    IF c \in H THEN [world[c] EXCEPT !.health = PlayerHealth] ELSE world[c]]
    /\ now' = t
    /\ UNCHANGED <<respawnAt, stamp, phase, fights>>

-----------------------------------------------------------------------------
(* The combat tick                                                         *)

\* The list of fights the attackers A are in.
FightsOf(w, A) == {<<a, w[a].attacking>> : a \in {b \in A : w[b].attacking # None}}

\* on_combat_tick: the players' fights first.
CombatTick ==
    /\ Idle
    /\ stamp < MaxTime
    /\ stamp' = stamp + 1 /\ now' = stamp + 1
    /\ phase' = "players"
    /\ fights' = FightsOf(world, Players)
    /\ UNCHANGED <<world, respawnAt>>

\* Mutant of PlayerHurt: the subtraction goes below zero.
PlayerHurtUnclamped(w, a, v, d, R) ==
    LET hurt == [w EXCEPT ![v].health = @ - d]
    IN  IF w[v].health = d THEN {Without(FightsCleared(hurt, v), R \union {v})}
        ELSE {Without(hurt, R)}

\* apply_damage: a hits player v for d while the players in R are reaped.  If v
\* is among them, it is gone before do_death or, at a later push, as do_death
\* starts, which clears the fights with it all the same.
PlayerHurt(w, a, v, d, R) ==
    LET dead == w[v].health <= d
        hurt == [w EXCEPT ![v].health = IF dead THEN 0 ELSE @ - d]
        late == Without(FightsCleared(hurt, v), R \union {v})
    IN  IF ~dead THEN {Without(hurt, R)}
        ELSE IF v \in R THEN {Without(hurt, R), late}
        ELSE {late}

\* apply_monster_damage, without the death: m hits back.
MonsterHurt(w, a, m, d) ==
    LET hurt == [w EXCEPT ![m].health = @ - d]
    IN  IF w[m].attacking = None /\ m \in Hostile /\ ~Fleeing(m, hurt)
        THEN [hurt EXCEPT ![m].attacking = a, ![m].lastAttack = 0]
        ELSE hurt

\* Mutant of MonsterDies: what a gamemaster or a spawn point made is the same.
MonsterDiesForGood(m, w) ==
    /\ world' = Without(FightsCleared(w, m), {m})
    /\ UNCHANGED respawnAt

\* do_monster_death: the spawn point plans its next monster.
MonsterDies(m, w) ==
    /\ world' = Without(FightsCleared(w, m), {m})
    /\ respawnAt' = IF world[m].spawn = None THEN respawnAt
                    ELSE [respawnAt EXCEPT ![world[m].spawn] = now + Respawn]

MaxBlow == IF PlayerHealth > MonsterHealth THEN PlayerHealth ELSE MonsterHealth

Stopped(w, a) == [w EXCEPT ![a].attacking = None]

\* A swing of player a at c once nothing prevents it: a miss or a blow.
PlayerSwing(w, a, c) ==
    \E R \in SUBSET (DOMAIN w \intersect Player), d \in 0..MaxBlow :
        \/ world' = Without(w, R) /\ UNCHANGED respawnAt
        \/ /\ c \in Player
           /\ world' \in PlayerHurt([w EXCEPT ![a].harmed = now], a, c, d, R)
           /\ UNCHANGED respawnAt
        \/ /\ c \in Monster /\ d < w[c].health
           /\ world' = Without(MonsterHurt(w, a, c, d), R)
           /\ UNCHANGED respawnAt
        \/ /\ c \in Monster /\ d >= w[c].health
           /\ MonsterDies(c, Without(w, R))

\* Mutant of Sheltered: only where the attacker stands counts.
AttackerSheltered(a, c) == world[a].zone

\* One of the two, c if it is a player, stands in a zone: the fight is over.
Sheltered(a, c) == world[a].zone \/ (c \in Player /\ world[c].zone)

\* process_player_attack, for an entry <<a, c>> of the list.
PlayerFight(a, c) ==
    /\ phase = "players"
    /\ <<a, c>> \in fights
    /\ fights' = fights \ {<<a, c>>}
    /\ \/ /\ c \notin DOMAIN world
          /\ world' = IF a \in DOMAIN world THEN Stopped(world, a) ELSE world
          /\ UNCHANGED respawnAt
       \/ /\ c \in DOMAIN world
          /\ \/ a \notin DOMAIN world \* logged out or killed in this tick
             \/ a \in DOMAIN world /\ ~Sheltered(a, c) \* too early, out of reach or sight
          /\ UNCHANGED <<world, respawnAt>>
       \/ /\ {a, c} \subseteq DOMAIN world
          /\ Sheltered(a, c)
          /\ world' = Stopped(world, a)
          /\ UNCHANGED respawnAt
       \/ /\ {a, c} \subseteq DOMAIN world
          /\ ~Sheltered(a, c)
          /\ now - world[a].lastAttack >= Interval
          /\ PlayerSwing([world EXCEPT ![a].lastAttack = now], a, c)
    /\ UNCHANGED <<now, stamp, phase>>

\* Mutant of Renewed: the choice of the target locks, the fight does not.
NotRenewed == world

\* The locks of those still after a player.
Renewed ==
    [c \in DOMAIN world |->
        IF c \in Players THEN Locked(world, c, now)[c] ELSE world[c]]

\* Players whose lock is over in world w.
Over(w) == {p \in DOMAIN w \intersect Player : w[p].lock \in 1..now}

\* Mutant of Expired: no icons are sent.
ExpiredSilently(w) ==
    [c \in DOMAIN w |-> IF c \in Over(w) THEN [w[c] EXCEPT !.lock = 0] ELSE w[c]]

\* expire_pz_locks: those locks are dropped and the icons sent.
Expired(w) ==
    [c \in DOMAIN w |->
        IF c \in Over(w) THEN IconsShown([w EXCEPT ![c].lock = 0], c, now)[c] ELSE w[c]]

\* Between the two halves of the tick; the icons reach the players in R in vain.
\* Then the list of the monsters' fights.
RenewLocks ==
    /\ phase = "players" /\ fights = {}
    /\ \E R \in SUBSET Over(Renewed) : world' = Without(Expired(Renewed), R)
    /\ phase' = "monsters"
    /\ fights' = FightsOf(world', DOMAIN world' \intersect Monster)
    /\ UNCHANGED <<respawnAt, now, stamp>>

MayAttack(m) == m \in Hostile /\ ~Fleeing(m, world)

\* process_monster_attack, for an entry <<m, c>>; monsters attack players only.
MonsterFight(m, c) ==
    /\ phase = "monsters"
    /\ <<m, c>> \in fights
    /\ fights' = fights \ {<<m, c>>}
    /\ \/ /\ c \notin DOMAIN world
          /\ world' = Stopped(world, m)
       \/ /\ c \in DOMAIN world /\ ~MayAttack(m)
          /\ world' = [Stopped(world, m) EXCEPT ![m].chasing = None]
       \/ /\ c \in DOMAIN world /\ MayAttack(m)
          /\ Sheltered(m, c)
          /\ world' = IF world[c].zone THEN [Stopped(world, m) EXCEPT ![m].chasing = None]
                      ELSE Stopped(world, m)
       \/ /\ c \in DOMAIN world /\ MayAttack(m)
          /\ ~Sheltered(m, c)
          /\ \/ UNCHANGED world \* too early, out of reach or sight
             \/ /\ now - world[m].lastAttack >= Interval
                /\ \E R \in SUBSET Players, d \in 0..MaxBlow :
                    world' \in PlayerHurt([world EXCEPT ![m].lastAttack = now], m, c, d, R)
    /\ UNCHANGED <<respawnAt, now, stamp, phase>>

Due == {s \in Spawn : respawnAt[s] \in 1..now}

\* process_respawns, one spawn point at a time.
RespawnMonster(s, m) ==
    /\ phase = "monsters" /\ fights = {}
    /\ s \in Due /\ m \in Monster \ Summoned /\ Fresh(m)
    /\ respawnAt' = [respawnAt EXCEPT ![s] = 0]
    /\ world' = With(world, m, NewMonster(s, FALSE))
    /\ UNCHANGED <<now, stamp, phase, fights>>

TickEnds ==
    /\ phase = "monsters" /\ fights = {} /\ Due = {}
    /\ phase' = "idle"
    /\ UNCHANGED <<world, respawnAt, now, stamp, fights>>

Next ==
    \/ \E p \in Player : Login(p) \/ Logout(p) \/ ClearTarget(p) \/ Step(p) \/ Teleport(p)
    \/ \E p \in Player, c \in Creature : SetTarget(p, c) \/ PlayerFight(p, c)
    \/ \E m \in Monster : Summon(m) \/ \E t \in 0..(stamp + Skew) : MonsterAiTick(m, t)
    \/ \E t \in 0..(stamp + Skew), H \in SUBSET Player : RegenTick(t, H)
    \/ CombatTick \/ RenewLocks \/ TickEnds
    \/ \E m \in Monster, p \in Player : MonsterFight(m, p)
    \/ \E s \in Spawn, m \in Monster : RespawnMonster(s, m)

Spec == Init /\ [][Next]_vars

-----------------------------------------------------------------------------
(* Properties                                                              *)

TypeOK ==
    /\ DOMAIN world \subseteq Creature
    /\ \A p \in Players : world[p] \in PlayerState
    /\ \A m \in Monsters : world[m] \in MonsterState
    /\ respawnAt \in [Spawn -> Nat]
    /\ stamp \in 0..MaxTime /\ now \in Nat
    /\ phase \in {"idle", "players", "monsters"}
    /\ fights \subseteq Creature \X Creature

\* Between ticks, whoever is after a player in the world is locked for (almost) the
\* whole lock time: on_combat_tick renews the lock while the fight goes on, though in
\* a loop that runs after the blows and never looks at a target that has left.
FightersLocked ==
    Idle => \A p \in Players : world[p].attacking \in Players =>
                world[p].lock >= stamp + Lock - Skew

\* Nobody walks into a zone within the lock time of its last blow at a player, whether
\* the fight ended by a death, a logout, a change of target or is still on.
EntrantsCalm ==
    [][\A p \in Players :
        Step(p) /\ ~world[p].zone /\ p \in DOMAIN world' /\ world[p].harmed > 0
            => now - world[p].harmed >= Lock - 1 - 2 * Skew]_vars

\* Nobody in a zone is hurt or deals a blow to a player, though fights begun outside may
\* still be on the list of the tick.
ZonesSafe ==
    [][\A p \in Players : p \in DOMAIN world' /\ world[p].zone =>
        /\ world'[p].health >= world[p].health
        /\ world'[p].harmed = world[p].harmed]_vars

\* Each spawn point has one living monster or has planned the next, never both or neither.
SpawnsSingle ==
    \A s \in Spawn :
        Cardinality({m \in Monsters : world[m].spawn = s}) = IF respawnAt[s] = 0 THEN 1 ELSE 0

\* The icons a client shows are right once it was sent any: the dove exactly in a zone, the
\* swords exactly while locked, give or take the tick in which a lock ends.
IconsRight ==
    Idle => \A p \in Players : world[p].told =>
        /\ ("pigeon" \in world[p].icons) = world[p].zone
        /\ "swords" \in world[p].icons => world[p].lock > stamp
        /\ world[p].lock > stamp + Skew => "swords" \in world[p].icons

===========================================================================
