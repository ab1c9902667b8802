# Oxidia in TLA+

Oxidia is an Open Tibia server (protocol 10.98) in Rust: one process, a SQLite
database, one task that owns the game world, and a task or two per client. This
directory is its verification project: TLA+ modules translated from the source,
TLC configurations that check them on small instances, and theorems about them
that TLAPS has proved for every value of their constants.

Paths below are relative to the repository; `world/` and so on stand for
`crates/world/src/` and so on.

## 1. The system

| Component | State | Operations | Talks to |
|---|---|---|---|
| Login server (`server/login_service.rs`) | none | one request, one character list | persistence (reads) |
| Game connection handler (`server/game_service.rs`), one per client | the keys, the push receiver, the session id | handshake, load, login, enter-world burst; then a reader (client packet → command) and a writer (pushes → frames) until either ends; then logout | persistence (load), actor (commands, login reply), push channel |
| World actor (`world/game/mod.rs`) | all of the world: players, monsters, NPCs, ground overlay, containers, decay and respawn lists, clocks | one `Command` at a time: 50 kinds from clients, 5 kinds of tick, login, logout, shutdown | push channels (packets), save channel |
| Timers (`world/game/mod.rs`, `spawn`) | a start instant each | combat 250 ms, monster AI 100 ms, regeneration 1 s, chunk sweep 5 s, day/night 5 s | the actor's command channel |
| Sessions in the world (`world/game/session.rs`) | `players`, id counters, spawn choice | `login`, `logout`, `save_all` | spectators |
| Presence (`spectators`, `visible_from`, `known`) | per player, the set of creatures its client has been shown | every move, teleport, login, logout, death, ghost toggle | push channels |
| Movement (`world/game/movement.rs`) | positions, directions | `do_move`, `do_teleport`, `do_move_monster`, floor changes | presence, containers, chunks |
| Auto-walk and follow (`world/game/mod.rs`) | `list_walk_dir`, `go_to_position`, `follow_target`, `failed_repaths` | start, step, repath, give up | movement, pathfinding |
| Combat (`world/game/combat.rs`, `world/combat.rs`) | targets, PZ lock, hit points | set target, tick, damage, death | presence, sessions, decay |
| Monsters (`world/game/monster.rs`) | targets, spawn points | think, chase, spawn | movement, combat |
| Decay and respawn (`world/game/combat.rs`) | pending decay entries, pending respawns | schedule, process | ground items |
| Ground items (`world/game/items.rs`) | an overlay of changed tiles | throw, pick up, merge, split | containers, presence |
| Containers (`world/game/containers.rs`) | 16 windows per player, contents of slots and ground containers | open, close, up, move, auto-close | push channels |
| Chunked map (`world/map.rs`) | loaded, missing and pinned chunks | `ensure_loaded`, `sweep`, `pin` | disk |
| Clocks (`condition.rs`, day/night, regeneration) | light level, food conditions | ticks | push channels |
| Persistence (`persistence/lib.rs`) | `players`, `player_inventory`, `player_container_items` | `load_player`, `save_player`, `authenticate` | SQLite |
| Save worker and main (`server/main.rs`) | the save channel | drain, shutdown, exit | actor, persistence |
| Codecs, framing, file formats (`protocol/`, `net/`, `formats/`) | none | encode, decode | — |

How they interact. Everything that changes the world goes through one bounded
channel (64 commands) into the actor, so the world itself has no data races. The
concurrency is around it: handlers load rows while the save worker writes them,
clients stop reading while the actor pushes, timers and handlers wait for room
in the channel, the shutdown overtakes nothing and drops what is behind it. The
actor never waits: a push is a `try_send` into a channel of 256, and one that
fails logs the receiver out at once, *inside* whatever handler was running. So a
handler that walks over a list of spectators may lose any of them, and its own
subject, at any push.

What is hard, and what each component must get right:

- *sessions and saving*: a departure is saved exactly once, though four causes
  race for it; nothing a player did is lost between world, channel and disk;
  zombies of failed connections leave; the shutdown ends and loses nothing.
- *presence*: the set `known` of the actor agrees with what the client was
  really told, after any order of moves, teleports, reaping and ghosting; no
  packet names a creature the client has not been shown.
- *combat*: no blow after death, into or out of a protection zone; the lock
  that keeps fighters out of zones cannot be dodged; loot appears once.
- *auto-walk*: the three intentions (attack, follow, go to) never fight; a walk
  ends or is given up with a message; no step faster than the step time.
- *decay, ground items, containers*: no item is duplicated or lost by a move, a
  window, a save or a login, no index outlives the tile or window it was taken from
  (a player's death does duplicate: section 6).
- *chunks*: what players changed is there when a chunk returns.
- *clocks*: no tick goes back in time, no interval is counted twice.

`PROJECT.json` lists the hazards one by one, at the line where each bites.

## 2. The modules

| Module | Models | Runs | Theorems |
|---|---|---|---|
| `Sessions` | connections, the actor's queue, reaping, saving, shutdown, crash | `safety`, `stop` | `SessionsProofs` |
| `Presence` | who is shown to whom, and what the actor believes of it | `floors`, `crowd` | `PresenceProofs` |
| `Combat` | the combat tick, locks, icons, zones, deaths, respawn | `duel`, `hunt` | `CombatProofs` |
| `Items` | tiles, slots, containers, corpses, loot, decay, saving of things | `items`, `decay`, `doubling` | `ItemsProofs`, `ItemsLedger` |
| `Terrain` | positions, chunks, what a map answers, stairs and raised tiles (operators) | by the next four | in `ChunksProofs` |
| `Viewport` | what map packets draw and where a client puts it (operators) | `chunks` | in `ChunksProofs` |
| `Atlas` | the promise: creatures move on the whole map | abstract, `chunks` | — |
| `Chunks` | loading, sweeping and missing chunks under moving players | `chunks` | `ChunksProofs` |
| `Walking` | click-to-move, following, the monsters' turns | `walk` | `WalkingProofs` |
| `Search`, `Sight` | the path search, lines of sight (operators) | `algorithms` | in `CoursesProofs` |
| `Courses` | asks those two one question per behaviour | `algorithms` | `CoursesProofs` |
| `MapFile`, `Wire`, `Packets`, `Messages`, `Rules` | other pure algorithms (operators) | `algorithms` | — |
| `Algorithms` | asks them all one question per behaviour | `algorithms` | — |

`Walking`, `Chunks`, `Sight` and `Atlas` extend `Terrain`; `Chunks` extends `Viewport` and
instantiates `Atlas` as its abstract specification; `Algorithms` extends `Courses` and the modules
of the other pure algorithms.
Each `MC` module only gives constants their values; `MCItemsPair` also sets two instances of
`Items` side by side (section 6).

No module holds the whole state of the actor. The actor runs one handler at a time, so each
of the state machines takes the part of the state its hazards are about and all the handlers
that touch it, and leaves the others' effects open: `Combat` lets anybody be in reach of
a blow, `Walking` any path be found, `Presence` any step lead anywhere.

## 3. `Sessions`

### What the variables stand for

| Variable | Code |
|---|---|
| `pc`, `name`, `save` | the program point, the requested character and the loaded row of a `handle_game` task |
| `inbox` | the actor's `mpsc` channel (`WorldHandle.tx`), `InboxCap` for 64 |
| `stack` | the rest of the handler the actor is running: pushes to make, then a login reply, or the later parts of a killing blow |
| `players`, `state` | `Game.players` and the row each player would be saved as |
| `queued`, `receiving` | each session's push channel: its length (`PushCap` for 256) and whether its receiver is alive |
| `saves`, `writing` | the unbounded save channel and the record `save_player` has committed half of |
| `db` | the row of each character, in its two separately written parts |
| `alive`, `server` | the actor task, the main task |
| `faults`, `crashes` | how many errors and crashes have happened (bounded) |
| `latest`, `exclusive`, `lossy`, `records` | history, read by properties only |

A character is a version number: each change in the world gives it the next one,
so "lost progress" is an older number. Hit points are told apart only as dead or
not. A row has two parts, `stats` and `items`, because the code writes and reads
them by separate statements. The packets a handler sends one after the other to
one session count as one push; ticks are taken when the actor is idle, without
queueing them, because nothing here depends on a tick's age.

### Actions

Connection handler: `Reject`, `LoadStats`, `LoadItems`, `LoadFault`,
`SendLogin`, `LoginRefused`, `BurstSent`, `BurstFailed`, `ClientCommand`,
`WriterDrain`, `Disconnect`, `ChannelClosed`, `SendLogout`. Actor: `HandleLogin`,
`HandleLogout`, `HandlePlay`, `HandleLight`, `HandleBlow`, `HandleShutdown` start a
handler; `PushSent`, `PushSkipped`, `Reap`, `Ack`, `Hurt`, `Die`, `Bury` are what is
left of it, step by step, so that connections and the save worker interleave with
it as they do in the code. Save worker: `SaveStats`, `SaveItems`, `SaveFault`.
Main: `Signal`, `SendShutdown`, `Exit`. `Crash` kills the process and starts it
again with only the database.

### Runs

| Run | Instance | Checks |
|---|---|---|
| `safety` | 2 connections, 1 character, command channel 2, push channel 1, 1 fault, 1 crash, 2 versions | `TypeOK`, `OneRecordPerDeparture`, `ProgressKept`, `ShutdownLosesNothing` |
| `stop` | 2 connections, command channel 2, so that a login may be queued behind the shutdown | `LoginsAnswered`, `ClosedPlayersLeave`, `ShutdownCompletes` |

Why the bounds are enough: a push channel of one overflows at the second packet,
a command channel of one or two makes senders wait and lets a logout be queued
behind a shutdown; two connections on one character give the double login and the
load that races a save; two versions tell old
from new. One fault and one crash reach every error path and the restart.

Fairness (`FairSpec`). The tokio runtime polls every ready task: weak fairness for
the actor, the save worker, main and each handler's own steps. A bounded tokio
channel serves waiting senders in order, so a sender that finds room again and again
gets it: strong fairness for the sends. Commands and ticks share one queue, so none
is overtaken for ever: strong fairness for `HandleCommand` and the light tick. Nothing
is assumed of clients, the network or the database: a client may never read, talk or
leave (`WriterDrain`, `Disconnect` and the like have no fairness).

Left out: `load_player` reads a character's equipment and the contents of its containers by two
statements (`persistence/lib.rs:304`), `LoadItems` in one step, so a save that falls between the two is
not told apart from one before or after both.

`ProgressKept` and `ShutdownLosesNothing` speak of *undisturbed* characters: never
loaded while they were in use or unsaved, never hit by a database error or a crash
that had something to lose. The code does not promise more: nothing prevents a second
login of a character in play, and a failed save is dropped. Both facts are listed
among the hazards.

### Known deviations

Three definitions are stated in the module, refuted by small instances, and in no run:

- `RowsMoveTogether`: `save_player` commits the stats, then replaces the items in a
  transaction of its own (`persistence/lib.rs:236`); a fault between the two leaves one old.
- `NobodySavedDead`: `apply_damage` pushes the health bar with the reaping push before it calls
  `do_death` (`combat.rs:174`), so a victim with a full channel is saved with no hit points;
  `do_death` is written and tested to avoid just that.
- `SlowClientKicked`: a client that does not read is taken out of the world but its handler
  stays blocked in the socket (`game_service.rs:568`).

### Proofs

`SessionsProofs` proves `TypeCorrect`: `Spec => []TypeOK`, for any finite set of
connections, any characters and any capacities. Its inductive invariant is `TypeOK`
with `NamesKnown`: a connection past its first load has a name, and whoever is named in
a command or a frame is such a connection. Without it the rows that `Leave` and
`HandleShutdown` put into the save channel could have no name.

Its second part proves `RecordsCorrect`: `Spec => []OneRecordPerDeparture`. The
invariant is not inductive alone. It is strengthened by: `RecordsCount`, the number of
records of a session in terms of where its handler is; `LoginsFresh`, a queued login
command belongs to a handler that waits for its reply, has no player and is in the channel
once; `AcksDue`, the same for a reply not yet given; `StoppedIdle`, a stopped actor has
no players and no handler under way. Every action is one step of the proof; the
temporal step is one line.

Its third part proves `ProgressCorrect` (`Spec => []ProgressKept`) and `ShutdownCorrect`
(`Spec => []ShutdownLosesNothing`). The invariant adds to that of the second: an undisturbed
character is in one place at a time, either with one connection that loads or plays it or in
one record on its way to the database, never in both (`OnePlace`); wherever it is, it is there
in its newest version, half written rows included (`Newest`); a stopped actor has no players and the
process ends with nothing left to save (`Drained`).

The proof corrected the property. `ProgressKept` used to speak of every handler that waits for
the reply to its login, and that is false with three connections: a player that the login handler
puts into the world and, by another's push, reaps before it answers has played and left while
its handler still waits with what it once loaded. Nothing is lost by that; the property now
speaks of handlers whose login has yet to be carried out (`LoggingIn`). Two connections do not
show it, which is what a proof for all of them is for.

Assumed: `SessionsAssumption` only (finitely many connections, positive capacities), which
TLC evaluates in every run. Model-checked only: the liveness properties (beyond the prover).

## 4. `Presence`

### What it is about

The actor never asks a client what it shows. It keeps for each player the set `known`
and keeps it right by removing a creature from it whenever the client drops that
creature. If it removes too little, the creature comes back by its id alone and stays
invisible; if too much, it is sent in full to a client that has it. `Presence` puts the
belief (`known`) and the truth (`picture`) side by side and runs every handler that
shows, moves or hides a creature, one push at a time.

| Variable | Code |
|---|---|
| `players`, `monsters`, `pos`, `ghost` | `Game.players`, `Game.monsters`, the `position` and `ghost` fields; NPCs stand still |
| `known` | `PlayerState.known` |
| `picture` | the client: where it shows each creature, changed only by packets (0x64 maps, 0x6A, 0x6B, 0x6C, 0x6D), as the comments in `protocol/walk.rs` and `movement.rs` describe it |
| `stack` | what is left of the running handler: a loop over spectators with those still to serve, the point where the next list is made, a push to the subject, the end of a move |
| `blurred` | history: pairs of a viewer and a creature on which the code is wrong (below) |
| `strays` | history: has a packet moved or turned a creature the client lacks |

Handlers: `Login`, `Logout`, `Walk`, `Teleport`, `MonsterWalk`, `Spawn`, `Die`, `Turn`,
`Speed`, `GhostOn`, `GhostOff`, `Notify`. What is left of them: `Look` (the next list of
spectators), `Serve`, `Skip`, `ReapSpectator`, `Poked`, `ReapSelf`, `SkipSelf`, `Greet`,
`Arrive`, `FinishStep`, `FinishJump`, `RenewSelf`, `Drop`. Any push may fail: the reaped
player's logout is put on top of the stack, as the call is nested in the code.

The map is one row of columns on some floors: a viewer sees `Left` columns west and
`Right` east, with other floors displaced by their distance, as `can_see` does. The uneven
viewport is kept (0 and 1 for 8 and 9), a player can walk out of view in both directions
and meet another on the edge. A step or fall may land on any tile the code could resolve it
to; whether the map has such a stair is not modelled. An id is reused only when no client and
no belief has it, which is what the code's counters guarantee.

### Runs

| Run | Instance | Checks |
|---|---|---|
| `floors` | 2 players, a monster, an NPC, floors 7 and 8, columns 0..2 | `TypeOK`, `PicturesRight`, `BeliefsRight` |
| `crowd` | 3 players, one a gamemaster, a floor of columns 0..2 | the two, and `StraysAreOfTheGone` |

Two floors with 7 above 8 have the boundary between the surface and below, the one place
where a step is a removal and an addition; two columns off is a jump, which is a whole map.
Three players are needed for a reaping inside the loop of a reaping. That a
handler ends is not asked: each of its steps takes something off the stack or a player
out of the world.

`PicturesRight` and `BeliefsRight` speak of the moments between handlers and skip the
pairs in `blurred`. A pair enters it at the three places where the code is wrong
(below), and leaves it when either of the two leaves the world:
a login near the viewport's uneven edge or among ghosts, ghost mode turned on, a
teleport away from a monster. Without the exemption
each would hide whatever else goes wrong.

### Known deviations

- `login` uses the list of those that see the newcomer for those the newcomer sees. At the
  uneven edge it misses one; among gamemasters it shows ghosts (`NewcomersSeeNoGhosts`).
- `/ghost` sets the flag before it asks whom to hide from (`GhostsVanish`).
- `do_teleport` keeps monsters in `known` that the client drops (`MonstersShown`).

One more oddity does no harm: `do_move` and `do_turn` go on for a mover that their own
first push has logged out, so clients are told to move or turn what they were just told
to remove. `StraysAreOfTheGone` says that such a packet only ever
concerns a creature that has left.

### Proofs

`PresenceProofs` proves all four properties, `TypeCorrect`, `PicturesCorrect`, `BeliefsCorrect` and
`StraysCorrect`, for any players, monsters, NPCs and gamemasters, any floors, columns and
viewport, and reapings nested to any depth. Assumed: `PresenceAssumption`, which the runs evaluate.

`PicturesRight` and `BeliefsRight` speak of the moments between handlers, so the invariant has to say
what is true in the middle of one. It has three parts, which TLC checked on the instance of `crowd`
before they were proved.

- What is left to do is in order (`StackOK`). The stack holds the farewells of those reaped, each
  about somebody who has left, and below them one handler about one creature (`Above`); its
  parts follow each other as in the code (`Before`). A task knows the tile its creature stands
  on, and its list holds only those who see that tile or the one the creature came from (`TaskRight`).
- For each client and creature, what the client shows follows from what is left to do (`PairsRight`).
  A client is drawn from where its player stands, or stood if a step has yet to be finished
  (`Viewpoints`); it shows a creature where it stands, or stood if the client has yet to be
  told (`Whereabouts`), or does not show it yet (`Unshown`); and the actor believes what
  the client shows. With nothing left to do this is `PicturesRight` and `BeliefsRight`
  (`NothingLeft`).
- A creature that has left and is still shown is one that some task will remove (`Fades`). This
  is what makes the oddity above harmless, and gives `StraysAreOfTheGone`.

Each action has two lemmas, one for the state of the world and the order of what is left
(`...State`), one for the pairs (`...Pairs`), which looks at the client of the subject, at other clients and
the subject, and at the pairs the action is not about. A reaping may come between any two
pushes, so `LeavePairs` speaks of any stack, not of a handler.

## 5. `Combat`

### What it is about

A fight is kept alive by three loops of the same tick: the blows, the renewal of the
lock, the monsters' blows. Each works from a list made before it started, while blows
kill and pushes log out whoever is on it. `Combat` takes the list entry by entry, in
any order, and lets every blow reap any set of players.

| Variable | Code |
|---|---|
| `world` | `Game.players` and `Game.monsters`, each creature with the fields that bear on fighting: `health`, `attacking`, `lastAttack` (`last_attack_ms`), `lock` (`pz_locked_until_ms`), `chasing` (`follow_target`), `spawn` (`spawn_id`); `zone` for the protection zone its tile lies in |
| `icons`, `told` in `world` | the client: the icons it shows, and whether it was sent any |
| `harmed` in `world` | history: when the player last dealt a blow to another |
| `respawnAt` | the pending respawns, 0 for none |
| `now`, `stamp` | `Game.now_ms`, which every tick sets from its own timer; the last combat tick's value |
| `phase`, `fights` | where `on_combat_tick` is, and the rest of the list it runs through |

One unit of time is a combat tick. The timers start at slightly different instants, so
the stamp of another timer may be `Skew` before or after the last combat tick's. Reach
and line of sight are left open, and so is which player a monster finds nearest. A push that fails
*before* its handler has done its work is `Logout`; one that fails inside a blow or with
icons is part of the action. `Fresh` gives a creature's id to another only when nobody
remembers it, which stands for ids that are never used twice.

Commands: `Login`, `Logout`, `Summon`, `SetTarget`, `ClearTarget`, `Step`, `Teleport`.
Timers: `MonsterAiTick`, `RegenTick`, and the combat tick as `CombatTick`, one `PlayerFight`
per entry, `RenewLocks`, one `MonsterFight` per entry, `RespawnMonster` and `TickEnds`.

### Runs

| Run | Instance | Checks |
|---|---|---|
| `duel` | 2 players with 1 hit point, lock 5, interval 2, skew 1, 6 ticks | `TypeOK`, `FightersLocked`, `IconsRight`, `EntrantsCalm` |
| `hunt` | a player, an aggressive monster with a spawn point, a timid one a gamemaster summons, 2 hit points, lock 4, interval 1, skew 1, 4 ticks | `SpawnsSingle`, `ZonesSafe` |

Six ticks are one more than the lock, so that a lock of a first fight ends in the run, is
dropped, and another begins. One hit point makes a blow deadly or a miss; two, in `hunt`, leave
room for a wounded monster that flees. The lock must outlast twice the skew (named in
`CombatAssumption`): with 60 s against a fraction of a second it does.

The tolerances are the code's. `FightersLocked` asks for the lock less one skew, because a
target may be chosen while `now` is an AI tick's older stamp. `EntrantsCalm` asks for a walk into
a zone to come no earlier than `Lock - 1 - 2 * Skew` after the last blow: if the victim dies of
that blow the renewal finds nobody to renew for, so the previous tick's lock is what
counts. `IconsRight` begins with the first icons a client is sent: the burst
of a login shows no dove even inside a zone, and nothing sends it until something changes.

`SetTarget` resets `lastAttack` as the code does. So a client that keeps choosing its target
anew swings at every tick; that swings are two seconds apart, as the comment on
`mitigate_player` has it, holds for a fight that goes on. A spawn entry with interval 0, which
never respawns, is left out (`Respawn` is positive).

Left open: a blow of a monster asks for an attack value above 0 (`world/game/combat.rs:1187`),
`MayAttack` does not, which only adds behaviours; food heals in portions over its interval, `RegenTick`
the whole at once: no property is about the amount.

### Proofs

`CombatProofs` proves `TypeCorrect` (`Spec => []TypeOK`) and `FightersAreLocked`
(`Spec => []FightersLocked`) for any finite sets of players and monsters, any hit points and
any durations that satisfy `CombatAssumption`. `FightersLocked` speaks of idle moments only
and is not inductive; the invariant `IInv` carries the lock through the tick: until the
renewal a player after another is locked for one tick less than it must be afterwards (`Bound`),
and during the tick `now` is `stamp` (`ClockOK`). It rests on one fact per operator: `Good`
(fields in their types, fighters locked until t) survives each of `Without`, `With`,
`FightsCleared`, `Locked`, `PlayerHurt`, `MonsterHurt`, `Thoughts`, `Expired`. That `Expired` drops the
lock of nobody who still fights is the heart of it.

Its second half proves the other four: `IconsAreRight` and `SpawnsAreSingle` for states,
`EntrantsAreCalm` and `ZonesAreSafe` for steps. Its invariant `OInv` adds to `IInv`: what each
client shows agrees with lock and zone as of the last tick (`Shows`), with a tick's grace while the
players' half of a tick runs (`Base`); a player is held by its last blow for the lock less a tick
and the skew (`Held`); each spawn point has its monster or its plan (`Single`); the list a tick
works through names at most one victim per attacker, and the right one if both are still there
(`ListOK`). `PlayersKept`, `MonstersKept` and their lemmas say, operator by operator, what a
step does not touch.

## 6. `Items`

### What it is about

A container has no identity. The actor knows the contents of one by *where it was opened from*:
a slot, a ground tile, or a place in a parent window. Each handler that moves a thing has to keep
the sources of all windows right, and every push in between may log the player out, which
exports what the windows hold. `Items` asks whether anything is doubled or lost.

| Variable | Code |
|---|---|
| `ground` | the tiles' stacks with their overlay; `pre` counts the items drawn below creatures |
| `players` | position, inventory slots and `open_containers` (`boxes`: contents, capacity, source, and whether the window is open) |
| `saved` | the inventory and container rows of the last save |
| `loot`, `corpses` | `corpse_contents`; `corpse_tiles` with `corpse_item_ids` |
| `decaying` | `decay_queue`: tile and stack index; the kind is history |
| `made` | history: how many of each kind came newly into the world: by gamemasters, what monsters dropped, blood and corpses |
| `doubled` | history: how many of each kind a player's death copied into its corpse |
| `up` | the actor has not panicked (a cycle of nested containers overflows its stack) |

Handlers: `Login`, `Logout`, `Step`; the moves `GroundToGround`, `Equip`, `Unequip`, `Swap`,
`BoxToBox`, `GroundToBox`, `BoxToGround`, `SlotToBox`, `BoxToSlot`; the uses
`UseCarriedContainer`, `UseGroundContainer`, `OpenCorpse`, `ToggleCarried`, `ToggleOnGround`,
`EatCarried`, `EatOnGround`; `CloseContainer`, `UpArrow`; `PlayerDies`, `MonsterDies`, `Decays`,
`SpawnItem`. The parameter `cut` logs the player out half-way. `Panic` is the cycle. The small
splash of an ordinary hit (`world/game/combat.rs:488`) is left out: it is made and decays as the large one.

### Runs

| Run | Instance | Checks |
|---|---|---|
| `items`, windows | a player, two bags and a piece of meat on two tiles out of each other's reach, 2 slots, 2 container ids, stacks of 1 | `TypeOK`, `NothingFromNothing`, `GroundWindowsNear`, `MovesKeepThings` |
| `items`, deaths | one tile, slot and container id, stacks of at most 2, a torch, food, monsters with meat, up to 3 things made | `DeathsNothingFromNothing`, `DeathsMovesKeepThings` |
| `decay` | as deaths, up to 4 things made | **violated**: `DecayTakesItsOwn` |
| `doubling` | the same | **violated**: `NothingDoubled` |

`items` runs its two instances side by side (`MCItemsPair`): whichever moves first goes on, the other
stays as it began, so the states are those of the one and of the other, not their product. Its view
leaves out what is saved of players in the world: no action reads that, a login reads only the save of
an absent player and leaving overwrites it, and no property looks at it (`Carries` asks the save of
absent players only); `TypeOK` sees it when the player leaves.

Two container ids stand for sixteen: they are used up within a few moves of the bags, and the next
opening takes one over. Two bags are open at once, one may lie in the other, and each has room for
two, so a thing goes from one occupied window to another, also into a full one and into one nested
there, with an id to spare or none. Tiles 1 and 3 are thrown between and not reached from each
other. In the deaths stacks of at most two split, merge and spill, a corpse is opened as a box, and
the torch is lit and put out on the ground and in it.

### Finding and known deviations

- `decay`: `process_decay` forgets the loot of the tile whatever decayed there. A splash
  (30 s) takes the loot of a corpse (60 s) with it.
- `doubling`: `do_death` copies what a player wears, and what is in the boxes opened from its slots,
  into the corpse (`world/game/combat.rs:354`) and then saves the player with all of it
  (`world/game/combat.rs:385`), so after the next login each thing is there twice. The comment says
  "drop as loot", REQ-DEATH-05 and -06 of `openspec/specs/creature-death/spec.md` "each item becomes a
  guaranteed drop" and "MUST be placed on the death tile". In the run a player equips a
  piece of meat and dies: one piece is in the corpse, one in the save. `NothingFromNothing` allows
  just these copies, counted in `doubled`; `NothingDoubled` does not, and is refuted.
- `SourcesUnique` is refuted: two windows may claim one source after slots are swapped, since
  `do_move_inventory` does not rekey them.
- `MovesKeepThings` leaves out the losses that the code accepts or overlooks: a window given away
  because the nested destination needs a new one and no id is unused, and a box that already holds
  more than its room (`Spares`); a destination that is no window; a slot that refuses what was already taken.
- Closing a window leaves its nested windows open; the up arrow gives up the child's contents;
  a container moved into itself through a second window makes a cycle, on which the export recurses
  for ever (`Panic`). A comment of `containers.rs` says that nested contents are not exported; they are.

### Proofs

`ItemsProofs` proves `TypesHold` (`Spec => []TypeOK`) and `WindowsNear`
(`Spec => []GroundWindowsNear`) for any sets of kinds, players, tiles, slots and container ids that
satisfy `ItemsAssumption`. The two together are the inductive invariant `Inv`: that a window of the
ground is near its player needs the types of the windows, and nothing more. Every handler is
one lemma. What they share is one idea per lemma: windows that *sit* (each near its player or not
of the ground) still sit when one of them is set anew, when contents change but no source, and after the
sweep of `WindowsLeft`; a step of the player closes what it leaves behind.

`ItemsLedger` proves `NothingAppears` (`Spec => []NothingFromNothing`) and `MovesConserve`
(`Spec => MovesKeepThings`). For a kind the ledger is `Units`: what lies on tiles and in corpses plus
what each player, and the save of each absent one, keeps in slots and boxes. An entry is a handler: it
takes from one or two terms what it puts into others. So each handler is *balanced*
(`Balanced`: units grow by no more than what was made or copied by a death, or it is the torch whose flame changes kind),
and a handler that neither ends a session nor drops what section "Known deviations" allows is
*conserving*, with equality. What keeps the sum from growing in the handlers that export:
a save keeps each box at most once, whatever two windows claim of one source, and loading a save
gives back no more than it kept.

Sums over stacks, slots and windows are sums of functions with finite domains. The library's facts about
them are inductions with an operator as parameter; here a finite sum is the size of the set of its *grains*
(pairs of an index and a number below its weight), and what a sum does when one entry changes is a
fact about the sizes of sets.

## 7. `Terrain`, `Viewport`, `Chunks` and `Atlas`

### What it is about

The server holds the chunks around its players and nothing else. Before it moves a player it
loads the chunks around the tile ahead and around the landing; every five seconds it evicts what is
around nobody; a file that could not be read is never tried again. A tile of a chunk not in memory
looks like the void: a step onto it is refused, a stair over it leads nowhere, a client is
drawn black. `Atlas` is the promise: players and monsters on the whole map, with no chunks at
all, except that what could not be read is missing. `Chunks` is shown to implement it.

| Variable | Code |
|---|---|
| `store` | `ChunkManager`: the loaded chunks, and the ids found missing |
| `at`, `home`, `den` | positions of players, saved positions, positions of monsters |
| `reply` | what the last step answered: who, which way, and where it led |
| `client` | the client: its centre, and the tiles of its screen that were drawn from the right place |

Actions: `Login` (whose free tile is sought *before* its chunks are loaded), `Leave`, `Move`
with stairs, holes and raised tiles, `GotoTile`, `GotoSomeone`, `MoveMonster`, `PathSearch` (which
loads at chunk borders), `SweepChunks`. Packets are blocks of tiles; only a whole map says where it
goes, the others are placed by the client from the centre it has reached (`Viewport`).

The mapping from `Chunks` to `Atlas` is the identity but for `lost`, the chunks that exist and
are remembered as missing (`LostOf(store)`). Sweeps and searches map to stuttering or to
`Unreadable`.

### Run

`chunks`: a player and a monster in a street across a chunk border, with a straight and a sloped
hole, a second hole below, stairs up, a raised tile before a roof and a far yard; one file may fail.
Checks `TypeOK`, `Surrounded`, `PicturesTrue`, `MovesAsOnTheWholeMap`. Chunks of five tiles and a
screen of four by four keep every border, on every floor pair, within a few steps; the surface is floor 2
of 6, so that the span of floors differs above, at and below it as it does for 7 of 15.

### Proofs (`ChunksProofs`)

- `TypeCorrect` and `SurroundedAlways`: `Spec => []TypeOK`, `Spec => []Surrounded`.
- `PicturesCorrect`: `Spec => []PicturesTrue`.
- `ChunksImplementAtlas`: `Spec => MovesAsOnTheWholeMap`, the whole refinement.

For any terrain, any chunk edge of at least three tiles, any players, monsters, ghosts, targets and
failing reads. The invariant `CInv` is the shape of the store, positions on floors of the game,
and `Surrounded`. The argument: what was found of a chunk stays true (`ToldTruly`: it is held
exactly if its file exists and is not lost, now and later); every tile a step is resolved
from, three tiles to any side and a floor up or down, lies in a chunk around the tile ahead
(`AroundCovers`, by arithmetic of the division in `NextChunk`); maps that say the same of
those tiles resolve a step alike (`LandingSame`); so a step on the map ahead is one of the whole map
(`StepWhole`). A login needs that the free tile nearest by ring, row and column exists (`FirstTile`).

That clients show their screen in full is proved block by block. What the client takes a block for,
from the centre it has reached, is what the server sampled to send it (`FloorsDrawn`, `RowDrawn`,
`ColumnDrawn`), so a step, whichever slices it sends, leaves the picture right (`StepDrawn`); a
block shows all it brings onto the screen (`ScreenGrows`, which goes through the floors that a
change of floor adds and drops); and the screen, with its other floors drawn aside, lies in the
chunks around the player (`ScreenSure`), so `Surrounded` leaves no tile of it unknown. A packet has
at most five blocks, so the recursion over them is unrolled (`BlockByBlock`) and needs no
induction.

Assumed: `ChunksAssumption`, which the run evaluates. It says of the map what the code silently
relies on: no raised tile (height 3 or more) carries floor change flags, a chunk is at least as wide as
the furthest stair (3, of 256), and no tile lies below floor 15. It also says that the screen of a player at a chunk's edge
ends in the next chunk, floors drawn aside included (8 + 1 + 7 = 16 tiles, of 256): with a
smaller chunk a client would be drawn black at its edge. `ViewportAssumption` puts the surface below
floor 0 (it is 7).

### Left open, and known deviations

- `PathSearch` loads around the tiles within one of the searcher, the code's search wherever it gets to;
  what is loaded beyond that is loaded as by any other search and no property minds.
- `Move` leaves out that a locked player is refused a zone: more steps than the code takes.
- The chunks around the tile ahead are loaded though the step may land on another floor or be
  refused; harmless.
- The first login after a start finds nothing loaded and is put on its saved tile even if that
  is occupied (`session.rs:14`, `mod.rs:2698`); `Atlas!Enter` allows it.
- `/goto x y z` to a tile of a chunk that is not loaded is refused although the tile exists.
- One failed read makes a chunk void until the server restarts.

## 8. `Walking`

Whoever walks by itself has a queue of steps from a search and plays one per turn of the AI tick.
Commands, arrow keys, teleports, deaths and other creatures come between the search and the steps.

| Variable | Code |
|---|---|
| `player` | `position`, `go_to_position`, `follow_target`, `list_walk_dir`, `failed_repaths`, ticks since the last automatic step, the zone lock |
| `monster` | `position`, `attacking`, `follow_target`, `list_walk_dir`, whether it is scared |
| `due`, `bucket` | the rest of the AI tick under way, and the monsters that think next |
| `origin` (a field) | history: where the first queued step was planned to be taken from |

Commands: `FollowTarget`, `ClearAutoWalk`, `GoToPosition`, `GoToSteps`, `Move`, `Teleport`, `Lock`,
`Wound`, `Login`, `Logout`, `Perish`. Ticks: `Tick` and a `Turn` per creature (`PlayerTurn`,
`MonsterTurn`, with flight, aggro, letting go, chase and strolling), `CombatTick` (retargeting),
`Die`, `Respawn`.

`walk`: a player and a monster on a street of four tiles with a temple, a raised tile and a roof; paths
of at most two steps, since a search is any of the paths it may find, or none. Checks `TypeOK`,
`OnCourse`, `RunsAway`, and the liveness properties `WalksEnd` and `NoCamping`. Fairness: the AI
timer ticks for ever and the actor finishes a tick it began (`WF_vars(Tick \/ Turn)`). No command is
fair: `WalksEnd` speaks of a player that is left alone from some time on.

Left open: `Sees` is the same distance to all sides where `can_see` reaches from -8 to 9 and from -6 to 7;
the target distance of archers (`mod.rs:1863`) is ignored, monsters close in; every monster is
aggressive, where `mod.rs:1765` asks a flag.

Known deviations: a comment of `mod.rs:390` calls attacking and following mutually exclusive, but both
are set; `do_clear_auto_walk` is said to clear following, it does not; the count of failed searches
is said to be reset by a successful step, it is not; a stale queue is kept when a followed
creature is out of reach and may be played by a later follow; a scared monster with no free tile away
from its threat plays the queue of its hunt. `OnCourse` and `RunsAway` are stated with these known:
the one of where queued steps are played, the other of monsters that can get away.

`WalkingProofs` proves `StaysOnCourse` (`Spec => []OnCourse`) and `Flight` (`RunsAway`, of every step) for
any terrain, any players and monsters and any paths a search may return. The invariant says of every
walker that its first queued step was planned for the tile it stands on, or that what is left
in the queue is a leftover the code may play anywhere. `Flight` needs to know of a scared monster's
turn that its step is the one chosen in that turn, and not one of an older queue. Assumed:
`WalkingAssumption`, which the run evaluates; it says among other things that the two markers for
"nobody" and "gone" are no creatures.

`WalkersWellFormed` (`TypeOK`) needs to know what a search returns. `Paths` grows its trails one tile at a
time, by a recursive function; `TrailsExist` shows that there is one that does, `TrailsAre` that each
trail it grows is a chain of neighbours, both by going up from zero (`Climb`, `Unwinds`, as in
`CoursesProofs`), and `PathsAre` that the steps read off a chain are directions. From there each
operation keeps the type by itself. Where one may stand is `Footing`: the tiles with ground, which
every step is checked to lead to, and those that logins, teleports and respawns put creatures on,
which the code does not check; they are only assumed to be on the map.

## 9. The pure algorithms

`Algorithms` takes a question of one kind, answers it with the operators translated from the
code, and compares the answer with a reference put in other words. The path search runs its loop one
turn per step; everything else is one step. Paths and lines of sight are in `Courses`, which reaches no
recursive operator, so that they can be proved about; to it the other questions are `Elsewhere`.

| Property | Kind of question | Reference | Instance |
|---|---|---|---|
| `PathsLead` | path search | each path goes over free tiles, step by step, to where it was to lead | every blocking of nine tiles, four targets |
| `SearchEnds` (liveness, fair search) | the same | the loop ends although nodes are reopened at equal cost | the same |
| `SightIsMutual` | line of sight | on one floor who sees is seen; a straight line is blocked by what is on it, none by what is outside its rectangle | up to two obstacles on 4 x 3 tiles, with and without a roof |
| `MapsLoad` | map and item files | what the client draws is what the editor wrote, in the client's order, whole or by chunks | stacks of up to three things with every byte that is escaped |
| `MessagesArrive` | frames, ciphers, packets, login | the reader hands on a prefix of what was sent, whole messages in order; each packet is read back as its doc lays it out; both servers agree on who may log in | streams cut at every byte and spoilt at one, a packet of each kind |
| `RulesHold` | damage, hit chance, meals, light, hearing, looking, NPCs | bounds, accounts over time, a reference of each table | numbers at the edges of the tables |

*Proofs* (`CoursesProofs`, about `CourseSpec`, of which `Algorithms!Spec` is a special case: it starts
in a state `Fresh` allows, and its other actions answer a question of another kind). `PathsLead` holds
for any map, creatures, start, target, table size and reach. The invariant (`Rooted`) is that the node
table is a tree: each node but the start has a parent next to it, of strictly lower cost, that
was itself no place to stop, and no two nodes are of one tile. `try_reopen` at equal cost keeps it, as a
child costs more than the node just expanded; the start, at cost 0, is never opened again; and a
node whose estimate happens to be the mark of a closed one is only passed over. Rising costs make the
way back of `calculate_path` end and enter no tile twice. `SightIsMutual` holds for any terrain and any
two ends: both ends ask for the same line (`SameLine`), the rounded step stays in the rectangle
(`LineInside`) and on a straight line meets exactly its tiles (`OnStraight`), which is arithmetic of
`\div`. The recursion over data this takes is done without the library's induction theorems, whose
operator parameters the provers cannot instantiate: a set of naturals that holds 0 and, with
`k-1`, `k` holds all (`Climb`), from which follows that a function defined by recursion exists (`Unwinds`).
Assumed: `CoursesAssumption` (ends on the map, `free` tiles on the map, terrains are terrains),
`SearchAssumption`, `TerrainAssumption`.

XTEA works on smaller words and RSA on a smaller block; a client, an editor and the router of logins
are external and modelled by how the code reads and writes for them.

`ParseOtbm` steps over waypoint nodes as a whole; the refusal of a malformed one (`otbm.rs:350`) is left out.

Known deviations: the path search is neither complete nor optimal (its pruning tables miss turns; one
in seven reachable targets of the 3 x 3 instance is not found), so nothing is asked of it but that
its paths lead; `is_sight_clear` adds 32-bit floats and is exact below coordinate 2^15, `Sight` is
exact; `net/frame.rs:19` promises a clean end only before any byte of a frame, but gives it inside
the length too; a session key with a newline is refused by the game server after the login server
made it; a batch over the frame limit ends the session; a string over 65535 bytes loses its
length; a skill below four at distance six underflows; a second meal lengthens a first one without
raising what it may heal.

## 10. What is proved and what is only checked

| Property | Theorem |
|---|---|
| `Sessions`: `TypeOK`, `OneRecordPerDeparture` | `TypeCorrect`, `RecordsCorrect` |
| `Sessions`: `ProgressKept`, `ShutdownLosesNothing` | `ProgressCorrect`, `ShutdownCorrect` |
| `Presence`: `TypeOK`, `PicturesRight`, `BeliefsRight`, `StraysAreOfTheGone` | `TypeCorrect`, `PicturesCorrect`, `BeliefsCorrect`, `StraysCorrect` |
| `Combat`: `TypeOK`, `FightersLocked` | `TypeCorrect`, `FightersAreLocked` |
| `Combat`: `IconsRight`, `SpawnsSingle`, `EntrantsCalm`, `ZonesSafe` | `IconsAreRight`, `SpawnsAreSingle`, `EntrantsAreCalm`, `ZonesAreSafe` |
| `Chunks`: `TypeOK`, `Surrounded`, `PicturesTrue` | `TypeCorrect`, `SurroundedAlways`, `PicturesCorrect` |
| `Chunks`: `MovesAsOnTheWholeMap` | `ChunksImplementAtlas` |
| `Walking`: `TypeOK`, `OnCourse`, `RunsAway` | `WalkersWellFormed`, `StaysOnCourse`, `Flight` |
| `Items`: `TypeOK`, `GroundWindowsNear` | `TypesHold`, `WindowsNear` |
| `Items`: `NothingFromNothing`, `MovesKeepThings` | `NothingAppears`, `MovesConserve` |
| `Courses`: `PathsLead`, `SightIsMutual` | `PathsAlwaysLead`, `SightAlwaysMutual` |

Each holds for every value of the constants that satisfies the module's assumption; every such
assumption is evaluated by TLC on the runs' instances. Only checked:

- all liveness (`LoginsAnswered`, `ClosedPlayersLeave`, `ShutdownCompletes`, `WalksEnd`, `NoCamping`,
  `SearchEnds`), which the prover does not reach;
- `MapsLoad`, `MessagesArrive` and `RulesHold`: files and streams are parsed with recursive operators and
  ciphers with bitwise ones, which a module with theorems may not reach.

## 11. Not modelled

- Lua scripts and the XML registries: the interpreter is a library and the rest is read once at
  start. What a script asks of the world (a teleport, food) is modelled where it is carried out.
- Server configuration; database set-up; the accept loops; logging; texts.
- Parts of modelled components, which `PROJECT.json` lists one by one: the search option no caller sets,
  the fingerprint of chunk metadata nobody compares, gamemaster commands that only answer with a
  text, doors and ladders of `do_use_item`, the parsing of monster files.
- One module with all of the actor's state: its handlers are modelled once per part of the state
  they bear on, as section 2 says.
