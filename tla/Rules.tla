-------------------------------- MODULE Rules --------------------------------
(***************************************************************************)
(* Rules of the game that only compute: the formulas of a blow             *)
(* (crates/world/src/combat.rs), meals (game/condition.rs), the light of   *)
(* the day, who hears what is said and what a look finds (game/mod.rs,     *)
(* chat.rs, look.rs), and where the NPCs of a spawn file stand (npc.rs).   *)
(*                                                                         *)
(* A random outcome is the set of the possible ones.  The code computes in *)
(* 64-bit floats, here in fractions: they agree for every skill the tables *)
(* tell apart but one (75, distance 7, skill 90: 64 instead of 65).        *)
(***************************************************************************)
EXTENDS Terrain

Rounded(n, d) == (2 * n + d) \div (2 * d)

(***************************************************************************)
(* Blows.                                                                  *)
(***************************************************************************)
MaxWeaponDamage(level, skill, value) ==
    level \div 5 + Rounded((skill + 4) * value * 103, 1200)
MeleeDamage(level, skill, value) == 0..Greater(MaxWeaponDamage(level, skill, value), 0)
FistDamage(level, skill) == MeleeDamage(level, skill, 7)
PlayerDefense(skill, value) ==
    IF skill = 0 THEN 1 ELSE ((100 * skill + 892) * value * 15) \div 40000

\* What armour leaves of a blow.
Blunted(damage, armor) ==
    IF armor > 3
    THEN {damage - n : n \in armor \div 2 .. Greater(armor - ((armor % 2) + 1), armor \div 2)}
    ELSE IF armor > 0 THEN {damage - 1} ELSE {damage}

\* First the shield, then the armour; a blow that one of them eats is over.
ApplyDefenseArmor(damage, defense, armor, check) ==
    LET parried == IF check /\ defense > 0 THEN {damage - n : n \in defense \div 2 .. defense} ELSE {damage}
        through(d) == IF d <= 0 THEN {[left |-> 0, by |-> "Defense"]}
                      ELSE {IF r <= 0 THEN [left |-> 0, by |-> "Armor"] ELSE [left |-> r, by |-> "None"] :
                            r \in Blunted(d, armor)}
    IN  IF damage <= 0 THEN {[left |-> 0, by |-> "None"]} ELSE UNION {through(d) : d \in parried}

\* Up to a skill, so much for each point of it (in percent), and an extra.
HitTables ==
    (75 :> << <<74, 100, 1>>, <<28, 240, 8>>, <<45, 155, 6>>, <<58, 125, 3>>, <<74, 100, 1>>, <<90, 80, 3>>, <<104, 70, 2>> >>)
    @@ (90 :> << <<74, 120, 1>>, <<28, 320, 0>>, <<45, 200, 0>>, <<58, 155, 0>>, <<74, 120, 1>>, <<90, 100, 0>>, <<90, 100, 0>> >>)
    @@ (100 :> << <<73, 135, 1>>, <<30, 320, 4>>, <<48, 205, 2>>, <<65, 150, 2>>, <<73, 135, 1>>, <<87, 120, -4>>, <<90, 110, 1>> >>)

\* -1 stands for no limit of the weapon's own.  Where the code would go
\* below zero (it subtracts without a sign) a release build wraps to what
\* is a negative chance again.
DistanceHitChance(skill, distance, hit, most, ammo) ==
    LET cap == IF most # -1 THEN Greater(most, 0) ELSE IF ammo THEN 90 ELSE 75
        row == HitTables[cap][distance]
    IN  IF hit # 0 THEN hit
        ELSE IF cap \notin DOMAIN HitTables THEN cap
        ELSE IF distance \notin 1..7 THEN 0
        ELSE (Lesser(Greater(skill, 0), row[1]) * row[2]) \div 100 + row[3]

DistanceMinDamage(level, player) == LET f == IF player THEN 10 ELSE 5 IN (level + f - 1) \div f

(***************************************************************************)
(* Meals: a player is [health, most, meals].                               *)
(***************************************************************************)
NewMeal(now, m) ==
    [ends |-> now + m.lasts, gain |-> m.gain, every |-> m.every, last |-> now, healed |-> 0, cap |-> m.cap]
Extend(meal, extra, now) == [meal EXCEPT !.ends = @ + extra, !.last = now]
IsExpired(meal, now) == now >= meal.ends

Heals(meal, now) ==
    IF meal.gain > 0 /\ now - meal.last >= meal.every THEN Greater(Lesser(meal.gain, meal.cap - meal.healed), 0)
    ELSE 0
ExecuteTick(meal, now) ==
    IF Heals(meal, now) > 0 THEN [meal EXCEPT !.healed = @ + Heals(meal, now), !.last = now] ELSE meal

\* Food: a meal that still lasts is made longer, else a new one begins.
Feed(p, m, now) ==
    LET going == SelectInSeq(p.meals, LAMBDA meal : ~ IsExpired(meal, now))
    IN  IF p.health = 0 THEN p
        ELSE IF going > 0 THEN [p EXCEPT !.meals[going] = Extend(@, m.lasts, now)]
        ELSE [p EXCEPT !.meals = Append(@, NewMeal(now, m))]

RegenTick(p, now) ==
    LET lasting == SelectSeq(p.meals, LAMBDA meal : ~ IsExpired(meal, now))
        gained == FoldLeft(LAMBDA n, meal : n + Heals(meal, now), 0, lasting)
    IN  [p EXCEPT !.meals = [i \in DOMAIN lasting |-> ExecuteTick(lasting[i], now)],
                  !.health = IF gained > 0 THEN Lesser(@ + gained, p.most) ELSE @]

(***************************************************************************)
(* Day and night: a clock is [phase, elapsed, level], long the lengths of  *)
(* the two phases (0: it never ends).                                      *)
(***************************************************************************)
Dark == 35
Bright == 215
WorldLightLevel(phase, elapsed, long) ==
    LET t == long[phase]
        rise == (Bright - Dark) * Lesser(elapsed, t)
    IN  IF phase = "Day" THEN IF t = 0 THEN Bright ELSE Rounded(Dark * t + rise, t)
        ELSE IF t = 0 THEN Dark ELSE Rounded(Bright * t - rise, t)

FlipPhase(clock) == [clock EXCEPT !.elapsed = 0, !.phase = IF @ = "Day" THEN "Night" ELSE "Day"]
DayNightTick(clock, passed, long) ==
    LET on == [clock EXCEPT !.elapsed = @ + passed]
        next == IF long[on.phase] > 0 /\ on.elapsed >= long[on.phase] THEN FlipPhase(on) ELSE on
    IN  [next EXCEPT !.level = WorldLightLevel(next.phase, next.elapsed, long)]

\* A gamemaster's /day and /night go to the end of the phase.
SetPhase(phase, long) ==
    [phase |-> phase, elapsed |-> long[phase], level |-> WorldLightLevel(phase, long[phase], long)]

(***************************************************************************)
(* Talk and looks.                                                         *)
(***************************************************************************)
SayRange == [Say |-> <<8, 6>>, Whisper |-> <<8, 6>>, Yell |-> <<18, 14>>,
             MonsterSay |-> <<8, 6>>, MonsterYell |-> <<18, 14>>]

\* What somebody at q gets of what is said at p.
Heard(type, p, q, text) ==
    IF q[3] # p[3] \/ Abs(q[1] - p[1]) > SayRange[type][1] \/ Abs(q[2] - p[2]) > SayRange[type][2] THEN "nothing"
    ELSE IF type = "Whisper" /\ ~ (Abs(q[1] - p[1]) <= 1 /\ Abs(q[2] - p[2]) <= 1) THEN "pspsps"
    ELSE text

\* Mutant of LookedAt: the creatures are not counted.
LookedAt0(tile, stackpos) ==
    IF stackpos < Len(tile.under) THEN tile.under[stackpos + 1]
    ELSE IF stackpos - Len(tile.under) < Len(tile.creatures) THEN tile.creatures[stackpos - Len(tile.under) + 1]
    ELSE IF stackpos - Len(tile.under) < Len(tile.over) THEN tile.over[stackpos - Len(tile.under) + 1] ELSE "nothing"

\* The thing at a place of a tile's stack: what lies under its creatures,
\* these in the order of their ids, then the rest.
LookedAt(tile, stackpos) ==
    LET pre == Len(tile.under)
        items == tile.under \o tile.over
        index == Greater(stackpos - Len(tile.creatures), 0)
    IN  IF stackpos < pre THEN items[stackpos + 1]
        ELSE IF stackpos < pre + Len(tile.creatures) THEN tile.creatures[stackpos - pre + 1]
        ELSE IF index < Len(items) THEN items[index + 1] ELSE "nothing"

\* An NPC stands at an offset from the centre of its spawn, on its floor.
NpcAt(center, dx, dy) == <<(center[1] + dx) % 65536, (center[2] + dy) % 65536, center[3]>>
NpcDirection(given) ==
    LET facing == <<"East", "South", "West", "SouthWest", "SouthEast", "NorthWest", "NorthEast">>
    IN  IF given \in DOMAIN facing THEN facing[given] ELSE "North"
NpcOutfit(hash) ==
    LET colour(shift) == (hash \div 2^shift) % 133
    IN  [type |-> IF hash % 2 = 0 THEN 128 ELSE 136, colours |-> <<colour(0), colour(8), colour(16), colour(24)>>,
         addons |-> 0, mount |-> 0]

\* Time of a step by speed.
StepTime(speed) == Lesser(Greater(110000 \div Greater(speed, 1), 200), 2000)

=============================================================================
