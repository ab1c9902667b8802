--------------------------- MODULE CombatProofs ---------------------------
(***************************************************************************)
(* Proofs about Combat for any players, monsters, durations and clocks.    *)
(*                                                                         *)
(* Two facts about a world are carried through every operator that makes   *)
(* one world of another: its creatures have the fields of their kind       *)
(* (WorldOK), and whoever attacks a player in it is locked until t at      *)
(* least (LockedUntil).  The lemmas say so operator by operator; each      *)
(* action is then a short step.  The second half adds the icons, the spawn *)
(* points, the peace of zones and what the lock is worth.                  *)
(***************************************************************************)
EXTENDS Combat, FiniteSetTheorems, TLAPS

WorldOK(w) ==
    /\ DOMAIN w \subseteq Creature
    /\ \A p \in DOMAIN w \intersect Player : w[p] \in PlayerState
    /\ \A m \in DOMAIN w \intersect Monster : w[m] \in MonsterState

LockedUntil(w, t) ==
    \A p \in DOMAIN w \intersect Player :
        w[p].attacking \in DOMAIN w \intersect Player => w[p].lock >= t

\* The two, as what an operator must keep.
Good(w, t) == WorldOK(w) /\ LockedUntil(w, t)

\* A tick of a fight that is yet to be renewed is missing while the players' half of
\* the combat tick runs.
Bound == stamp + Lock - Skew - (IF phase = "players" THEN 1 ELSE 0)

\* The clock is off the combat tick's by at most Skew, and not at all during the tick.
ClockOK ==
    /\ now >= stamp - Skew
    /\ phase # "idle" => now = stamp

\* The types of everything but the world.
RestOK ==
    /\ respawnAt \in [Spawn -> Nat]
    /\ stamp \in 0..MaxTime /\ now \in Nat
    /\ phase \in {"idle", "players", "monsters"}
    /\ fights \subseteq Creature \X Creature

IInv == RestOK /\ ClockOK /\ Good(world, Bound)

\* World w with all fields of creature c set to r, if it is there.
Put(w, c, r) == [w EXCEPT ![c] = r]

-----------------------------------------------------------------------------
(* The operators keep a world good                                         *)

\* Creatures that leave take no lock with them that others need.
LEMMA WithoutGood ==
    ASSUME NEW w, NEW C, NEW t, Good(w, t)
    PROVE  Good(Without(w, C), t)
<1>1. /\ DOMAIN Without(w, C) = DOMAIN w \ C
      /\ \A c \in DOMAIN w \ C : Without(w, C)[c] = w[c]
  BY DEF Without, Restrict
<1> QED BY <1>1 DEF Good, WorldOK, LockedUntil

\* A player's new fields, if they do not weaken its lock while it is after a player.
LEMMA PlayerGood ==
    ASSUME NEW w, NEW t, Good(w, t), NEW p \in Player, NEW r \in PlayerState,
           r.attacking \in DOMAIN w \intersect Player => r.lock >= t
    PROVE  Good(Put(w, p, r), t)
<1> DEFINE v == Put(w, p, r)
<1>1. DOMAIN v = DOMAIN w /\ \A c \in DOMAIN w : v[c] = IF c = p THEN r ELSE w[c]
  BY DEF Put
<1>2. p \notin Monster BY CombatAssumption
<1> QED BY <1>1, <1>2 DEF Good, WorldOK, LockedUntil

\* A monster's new fields.
LEMMA MonsterGood ==
    ASSUME NEW w, NEW t, Good(w, t), NEW m \in Monster, NEW r \in MonsterState
    PROVE  Good(Put(w, m, r), t)
<1> DEFINE v == Put(w, m, r)
<1>1. DOMAIN v = DOMAIN w /\ \A c \in DOMAIN w : v[c] = IF c = m THEN r ELSE w[c]
  BY DEF Put
<1>2. m \notin Player BY CombatAssumption
<1> QED BY <1>1, <1>2 DEF Good, WorldOK, LockedUntil

\* A new creature whose id nobody attacks; if it is a player it attacks nobody.
LEMMA WithGood ==
    ASSUME NEW w, NEW t, Good(w, t), NEW c \in Creature, NEW r,
           \A d \in DOMAIN w : w[d].attacking # c,
           c \in Player => r \in PlayerState,
           c \in Monster => r \in MonsterState,
           r.attacking = None
    PROVE  Good(With(w, c, r), t)
<1> DEFINE v == With(w, c, r)
<1>1. /\ DOMAIN v = DOMAIN w \union {c}
      /\ \A d \in DOMAIN w \union {c} : v[d] = IF d = c THEN r ELSE w[d]
  BY DEF With
<1>2. None \notin Player BY CombatAssumption DEF Creature
<1>3. WorldOK(v) BY <1>1 DEF Good, WorldOK
<1>4. LockedUntil(v, t)
  <2> SUFFICES ASSUME NEW p \in DOMAIN v \intersect Player,
                      v[p].attacking \in DOMAIN v \intersect Player
               PROVE  v[p].lock >= t
    BY DEF LockedUntil
  <2>1. p # c BY <1>1, <1>2
  <2>2. w[p].attacking \in DOMAIN w \intersect Player BY <1>1, <2>1
  <2> QED BY <1>1, <2>1, <2>2 DEF Good, LockedUntil
<1> QED BY <1>3, <1>4 DEF Good

\* Fights that end free nobody that still fights.
LEMMA FightsClearedGood ==
    ASSUME NEW w, NEW v, NEW t, Good(w, t)
    PROVE  Good(FightsCleared(w, v), t)
<1> DEFINE f == FightsCleared(w, v)
<1>1. /\ DOMAIN f = DOMAIN w
      /\ \A c \in DOMAIN w : f[c] = IF w[c].attacking = v
                                    THEN [w[c] EXCEPT !.attacking = None] ELSE w[c]
  BY DEF FightsCleared
<1>2. None \notin Player BY CombatAssumption DEF Creature
<1>3. \A p \in DOMAIN w \intersect Player : f[p] \in PlayerState /\ f[p].lock = w[p].lock
                              /\ f[p].attacking \in {w[p].attacking, None}
  BY <1>1 DEF Good, WorldOK, PlayerState
<1>4. \A m \in DOMAIN w \intersect Monster : f[m] \in MonsterState
  BY <1>1 DEF Good, WorldOK, MonsterState
<1> QED BY <1>1, <1>2, <1>3, <1>4 DEF Good, WorldOK, LockedUntil

\* Icons change nothing else, and those a failed push logs out just leave.
LEMMA IconsGood ==
    ASSUME NEW w, NEW t, Good(w, t), NEW p \in DOMAIN w \intersect Player, NEW n,
           NEW v \in IconsSent(w, p, n)
    PROVE  Good(v, t)
<1>1. CASE v = Without(w, {p}) BY <1>1, WithoutGood
<1>2. CASE v = IconsShown(w, p, n)
  <2> DEFINE r == [w[p] EXCEPT !.icons = Mask(w, p, n), !.told = TRUE]
  <2>1. Mask(w, p, n) \in SUBSET Icon BY DEF Mask, Icon
  <2>2. w[p] \in PlayerState BY DEF Good, WorldOK
  <2>3. r \in PlayerState /\ r.attacking = w[p].attacking /\ r.lock = w[p].lock
    BY <2>1, <2>2 DEF PlayerState
  <2>4. r.attacking \in DOMAIN w \intersect Player => r.lock >= t
    BY <2>3 DEF Good, LockedUntil
  <2>5. v = Put(w, p, r) BY <1>2 DEF IconsShown, Put
  <2> HIDE DEF r
  <2> QED BY <2>3, <2>4, <2>5, PlayerGood
<1> QED BY <1>1, <1>2 DEF IconsSent

\* A creature that is not there has no fields to set.
LEMMA AbsentGood ==
    ASSUME NEW w, NEW t, Good(w, t), NEW c, c \notin DOMAIN w, NEW r
    PROVE  Good(Put(w, c, r), t)
<1> DEFINE v == Put(w, c, r)
<1>1. DOMAIN v = DOMAIN w /\ \A d \in DOMAIN w : v[d] = w[d]
  BY DEF Put
<1> QED BY <1>1 DEF Good, WorldOK, LockedUntil

\* A lower bound on locks is a weaker demand.
LEMMA Weaker ==
    ASSUME NEW w, NEW t \in Int, NEW u \in Int, u <= t, Good(w, t)
    PROVE  Good(w, u)
<1>1. \A p \in DOMAIN w \intersect Player : w[p].lock \in Nat
  BY DEF Good, WorldOK, PlayerState
<1>2. LockedUntil(w, u)
  BY <1>1 DEF Good, LockedUntil
<1> QED BY <1>2 DEF Good

\* A fight that stops.
LEMMA StoppedGood ==
    ASSUME NEW w, NEW t, Good(w, t), NEW a \in Creature
    PROVE  Good(Stopped(w, a), t)
<1> DEFINE r == [w[a] EXCEPT !.attacking = None]
<1>0. Stopped(w, a) = Put(w, a, r) BY DEF Stopped, Put
<1>1. CASE a \notin DOMAIN w 
  <2> HIDE DEF r
  <2> QED BY <1>0, <1>1, AbsentGood
<1>2. CASE a \in DOMAIN w \intersect Player
  <2>1. w[a] \in PlayerState BY <1>2 DEF Good, WorldOK
  <2>2. r \in PlayerState /\ r.attacking = None BY <2>1 DEF PlayerState
  <2>3. None \notin Player BY CombatAssumption DEF Creature
  <2> HIDE DEF r
  <2> QED BY <1>0, <1>2, <2>2, <2>3, PlayerGood
<1>3. CASE a \in DOMAIN w \intersect Monster
  <2>1. w[a] \in MonsterState BY <1>3 DEF Good, WorldOK
  <2>2. r \in MonsterState BY <2>1 DEF MonsterState
  <2> HIDE DEF r
  <2> QED BY <1>0, <1>3, <2>2, MonsterGood
<1> QED BY <1>1, <1>2, <1>3 DEF Creature

\* The fields of player p that a handler sets without touching its fight.
LEMMA FieldsGood ==
    ASSUME NEW w, NEW t, Good(w, t), NEW p \in DOMAIN w \intersect Player,
           NEW r \in PlayerState, r.attacking = w[p].attacking, r.lock = w[p].lock
    PROVE  Good(Put(w, p, r), t)
<1>1. r.attacking \in DOMAIN w \intersect Player => r.lock >= t
  BY DEF Good, LockedUntil
<1> QED BY <1>1, PlayerGood

\* Choosing a target locks the player if the target is one.
LEMMA TargetGood ==
    ASSUME NEW w, NEW t \in Int, Good(w, t), NEW p \in DOMAIN w \intersect Player,
           NEW c \in DOMAIN w, NEW n \in Nat, n + Lock >= t
    PROVE  Good(Locked([w EXCEPT ![p].attacking = c, ![p].lastAttack = 0], p, n), t)
<1> DEFINE chosen == [w[p] EXCEPT !.attacking = c, !.lastAttack = 0]
           r == [chosen EXCEPT !.lock = n + Lock]
           v == [w EXCEPT ![p].attacking = c, ![p].lastAttack = 0]
<1>1. w[p] \in PlayerState /\ c \in Creature /\ n + Lock \in Nat
  BY CombatAssumption DEF Good, WorldOK
<1>2. chosen \in PlayerState /\ chosen.attacking = c
  BY <1>1 DEF PlayerState
<1>3. r \in PlayerState /\ r.attacking = c /\ r.lock = n + Lock
  BY <1>1, <1>2 DEF PlayerState
<1>4. v = Put(w, p, chosen) BY DEF Put
<1>5. DOMAIN v = DOMAIN w /\ v[p] = chosen BY <1>4 DEF Put
<1>6. CASE c \in Player
  <2>1. Locked(v, p, n) = Put(v, p, r) BY <1>2, <1>5, <1>6 DEF Locked, Put
  <2>2. Locked(v, p, n) = Put(w, p, r) BY <2>1, <1>4 DEF Put
  <2>3. Good(Put(w, p, r), t)
    <3> HIDE DEF r
    <3> QED BY <1>3, PlayerGood
  <2> QED BY <2>2, <2>3
<1>7. CASE c \notin Player
  <2>1. Locked(v, p, n) = Put(w, p, chosen) BY <1>2, <1>4, <1>5, <1>7, ZenonT(30) DEF Locked
  <2>2. Good(Put(w, p, chosen), t)
    <3> HIDE DEF chosen
    <3> QED BY <1>2, <1>7, PlayerGood
  <2> QED BY <2>1, <2>2
<1> QED BY <1>6, <1>7

\* A blow at a player, deadly or not, and whoever its pushes log out.
LEMMA PlayerHurtGood ==
    ASSUME NEW w, NEW t, Good(w, t), NEW a, NEW v \in DOMAIN w \intersect Player,
           NEW d \in Nat, NEW R, NEW x \in PlayerHurt(w, a, v, d, R)
    PROVE  Good(x, t)
<1> DEFINE h == IF w[v].health <= d THEN 0 ELSE w[v].health - d
           r == [w[v] EXCEPT !.health = h]
           hurt == [w EXCEPT ![v].health = IF w[v].health <= d THEN 0 ELSE @ - d]
<1>1. w[v] \in PlayerState BY DEF Good, WorldOK
<1>2. h \in 0..PlayerHealth BY <1>1, CombatAssumption DEF PlayerState
<1>3. r \in PlayerState /\ r.attacking = w[v].attacking /\ r.lock = w[v].lock
  BY <1>1, <1>2 DEF PlayerState
<1>4. hurt = Put(w, v, r) BY DEF Put
<1> HIDE DEF r, hurt
<1>5. Good(hurt, t) BY <1>3, <1>4, FieldsGood
<1>6. Good(Without(hurt, R), t) BY <1>5, WithoutGood
<1>7. Good(FightsCleared(hurt, v), t) BY <1>5, FightsClearedGood
<1>8. Good(Without(FightsCleared(hurt, v), R \union {v}), t) BY <1>7, WithoutGood
<1>9. x \in {Without(hurt, R), Without(FightsCleared(hurt, v), R \union {v})}
  BY DEF PlayerHurt, hurt
<1> QED BY <1>6, <1>8, <1>9

\* A monster that survives a blow, hitting back or not.
LEMMA MonsterHurtGood ==
    ASSUME NEW w, NEW t, Good(w, t), NEW a \in Creature,
           NEW m \in DOMAIN w \intersect Monster, NEW d \in Nat, d < w[m].health
    PROVE  Good(MonsterHurt(w, a, m, d), t)
<1> DEFINE r == [w[m] EXCEPT !.health = w[m].health - d]
           s == [r EXCEPT !.attacking = a, !.lastAttack = 0]
           hurt == [w EXCEPT ![m].health = @ - d]
<1>1. w[m] \in MonsterState BY DEF Good, WorldOK
<1>2. w[m].health - d \in 0..MonsterHealth BY <1>1, CombatAssumption DEF MonsterState
<1>3. r \in MonsterState BY <1>1, <1>2 DEF MonsterState
<1>4. s \in MonsterState BY <1>3 DEF MonsterState
<1>5. hurt = Put(w, m, r) BY DEF Put
<1>6. [hurt EXCEPT ![m].attacking = a, ![m].lastAttack = 0] = Put(w, m, s)
  BY <1>5 DEF Put
<1>7. MonsterHurt(w, a, m, d) \in {Put(w, m, r), Put(w, m, s)}
  BY <1>5, <1>6 DEF MonsterHurt
<1> HIDE DEF r, s
<1> QED BY <1>3, <1>4, <1>7, MonsterGood

\* Whatever a monster thinks, only its own target changes.
LEMMA ThoughtsGood ==
    ASSUME NEW w, NEW t, Good(w, t), NEW m \in DOMAIN w \intersect Monster,
           NEW x \in Thoughts(w, m)
    PROVE  Good(x, t) /\ m \in DOMAIN x
<1> DEFINE calm == [w[m] EXCEPT !.attacking = None, !.chasing = None]
           lost == [w[m] EXCEPT !.chasing = None]
           hunting(q) == [w[m] EXCEPT !.attacking = q, !.chasing = q, !.lastAttack = 0]
<1>1. w[m] \in MonsterState BY DEF Good, WorldOK
<1>2. calm \in MonsterState /\ lost \in MonsterState BY <1>1 DEF MonsterState
<1>3. \A q \in Player : hunting(q) \in MonsterState BY <1>1 DEF MonsterState, Creature
<1>4. \/ x = w
      \/ x = Put(w, m, calm)
      \/ x = Put(w, m, lost)
      \/ \E q \in Player : x = Put(w, m, hunting(q))
  BY DEF Thoughts, Put
<1>5. \A r : DOMAIN Put(w, m, r) = DOMAIN w BY DEF Put
<1> HIDE DEF calm, lost, hunting
<1> QED BY <1>2, <1>3, <1>4, <1>5, MonsterGood

\* The renewal locks every fighter for the whole time, whatever it was locked before.
LEMMA RenewedGood ==
    ASSUME WorldOK(world), now \in Nat
    PROVE  Good(Renewed, now + Lock)
<1> DEFINE r(p) == [world[p] EXCEPT !.lock = now + Lock]
<1>1. \A p \in Players : world[p] \in PlayerState BY DEF WorldOK, Players
<1>2. \A p \in Players : r(p) \in PlayerState /\ r(p).lock = now + Lock
                                 /\ r(p).attacking = world[p].attacking
  BY <1>1, CombatAssumption DEF PlayerState
<1>3. \A p \in Players : Locked(world, p, now)[p] =
          IF world[p].attacking \in Players THEN r(p) ELSE world[p]
  BY DEF Locked, Players
<1>4. /\ DOMAIN Renewed = DOMAIN world
      /\ \A c \in DOMAIN world : c \in Player =>
             Renewed[c] = IF world[c].attacking \in Players THEN r(c) ELSE world[c]
      /\ \A c \in DOMAIN world : c \notin Player => Renewed[c] = world[c]
  BY <1>3 DEF Renewed, Players
<1>5. Player \intersect Monster = {} BY CombatAssumption
<1>6. WorldOK(Renewed) BY <1>1, <1>2, <1>4, <1>5 DEF WorldOK, Players
<1>7. LockedUntil(Renewed, now + Lock)
  <2> SUFFICES ASSUME NEW p \in DOMAIN world \intersect Player,
                      Renewed[p].attacking \in DOMAIN world \intersect Player
               PROVE  Renewed[p].lock >= now + Lock
    BY <1>4 DEF LockedUntil
  <2>1. Renewed[p] = r(p) BY <1>2, <1>4 DEF Players
  <2>2. r(p).lock = now + Lock BY <1>2 DEF Players
  <2> QED BY <2>1, <2>2, CombatAssumption
<1> QED BY <1>6, <1>7 DEF Good

\* Only locks of players that fight nobody are over.
LEMMA ExpiredGood ==
    ASSUME NEW w, now \in Nat, Good(w, now + Lock)
    PROVE  Good(Expired(w), now + Lock)
<1> DEFINE unlocked(p) == [w[p] EXCEPT !.lock = 0]
           v(p) == [w EXCEPT ![p].lock = 0]
           r(p) == [unlocked(p) EXCEPT !.icons = Mask(v(p), p, now), !.told = TRUE]
<1>1. \A p \in DOMAIN w \intersect Player : w[p] \in PlayerState BY DEF Good, WorldOK
<1>2. \A p : Mask(v(p), p, now) \in SUBSET Icon BY DEF Mask, Icon
<1>3. \A p \in DOMAIN w \intersect Player :
          unlocked(p) \in PlayerState /\ unlocked(p).attacking = w[p].attacking
  BY <1>1 DEF PlayerState
<1>4. \A p \in DOMAIN w \intersect Player :
          r(p) \in PlayerState /\ r(p).attacking = w[p].attacking
  BY <1>2, <1>3 DEF PlayerState
<1>5. \A p \in DOMAIN w : IconsShown(v(p), p, now)[p] = r(p)
  BY DEF IconsShown
<1>6. /\ DOMAIN Expired(w) = DOMAIN w
      /\ \A c \in DOMAIN w : Expired(w)[c] = IF c \in Over(w) THEN r(c) ELSE w[c]
  BY <1>5 DEF Expired
<1>7. Over(w) \subseteq DOMAIN w \intersect Player
      /\ \A p \in Over(w) : w[p].attacking \notin DOMAIN w \intersect Player
  BY <1>1, CombatAssumption DEF Over, Good, LockedUntil, PlayerState
<1>8. Player \intersect Monster = {} BY CombatAssumption
<1>9. WorldOK(Expired(w)) BY <1>4, <1>6, <1>7, <1>8 DEF Good, WorldOK
<1>10. LockedUntil(Expired(w), now + Lock) BY <1>4, <1>6, <1>7 DEF Good, LockedUntil
<1> QED BY <1>9, <1>10 DEF Good

-----------------------------------------------------------------------------
(* Every action keeps the invariant                                        *)

LEMMA BoundIsInt == IInv => Bound \in Int
  BY CombatAssumption DEF IInv, RestOK, Bound

\* The starting world holds monsters only, which attack nobody.
LEMMA InitInv == Init => IInv
<1> SUFFICES ASSUME Init PROVE IInv
  OBVIOUS
<1>1. PICK first \in Injection(Spawn, Monster \ Summoned) :
          world = [m \in Range(first) |->
                      NewMonster(CHOOSE s \in Spawn : first[s] = m, FALSE)]
  BY DEF Init
<1>2. first \in [Spawn -> Monster \ Summoned] BY DEF Injection
<1>3. Range(first) \subseteq Monster BY <1>2 DEF Range
<1>4. \A m \in Range(first) : (CHOOSE s \in Spawn : first[s] = m) \in Spawn
  BY <1>2 DEF Range
<1>5. \A s \in Spawn : NewMonster(s, FALSE) \in MonsterState
  BY CombatAssumption DEF NewMonster, MonsterState
<1>6. DOMAIN world \subseteq Monster /\ \A m \in DOMAIN world : world[m] \in MonsterState
  BY <1>1, <1>3, <1>4, <1>5
<1>7. Good(world, Bound)
  BY <1>6, CombatAssumption DEF Good, WorldOK, LockedUntil, Creature
<1>8. RestOK BY CombatAssumption DEF Init, RestOK
<1>9. ClockOK BY CombatAssumption DEF Init, ClockOK
<1> QED BY <1>7, <1>8, <1>9 DEF IInv

\* Steps that leave the clocks and the phase alone have only the world to answer for.
LEMMA WorldStep ==
    ASSUME IInv, UNCHANGED <<now, stamp, phase>>, fights' \subseteq fights,
           respawnAt' \in [Spawn -> Nat], Good(world', Bound)
    PROVE  IInv'
<1>1. Bound' = Bound BY DEF Bound
<1> QED BY <1>1 DEF IInv, RestOK, ClockOK, Good, WorldOK, LockedUntil

LEMMA LoginKeeps ==
    ASSUME IInv, NEW p \in Player, Login(p)
    PROVE  IInv'
<1>1. PICK h \in 0..PlayerHealth, z \in BOOLEAN : world' = With(world, p, NewPlayer(h, z))
  BY DEF Login
<1>2. NewPlayer(h, z) \in PlayerState /\ NewPlayer(h, z).attacking = None
  BY CombatAssumption DEF NewPlayer, PlayerState, Creature, Icon
<1>3. p \notin Monster /\ p \in Creature BY CombatAssumption DEF Creature
<1>4. \A d \in DOMAIN world : world[d].attacking # p BY DEF Login, Fresh
<1> HIDE DEF NewPlayer
<1>5. Good(world', Bound) BY <1>1, <1>2, <1>3, <1>4, WithGood DEF IInv
<1> QED BY <1>5, WorldStep DEF Login, IInv, RestOK

LEMMA SummonKeeps ==
    ASSUME IInv, NEW m \in Monster, Summon(m)
    PROVE  IInv'
<1>1. PICK p \in Players : world' = With(world, m, NewMonster(None, world[p].zone))
  BY DEF Summon
<1>2. world[p].zone \in BOOLEAN BY DEF IInv, Good, WorldOK, Players, PlayerState
<1>3. /\ NewMonster(None, world[p].zone) \in MonsterState
      /\ NewMonster(None, world[p].zone).attacking = None
  BY <1>2, CombatAssumption DEF NewMonster, MonsterState, Creature
<1>4. m \notin Player /\ m \in Creature BY CombatAssumption DEF Creature
<1>5. \A d \in DOMAIN world : world[d].attacking # m BY DEF Summon, Fresh
<1>6. Good(world', Bound) BY <1>1, <1>3, <1>4, <1>5, WithGood DEF IInv
<1> QED BY <1>6, WorldStep DEF Summon, IInv, RestOK

LEMMA RespawnKeeps ==
    ASSUME IInv, NEW s \in Spawn, NEW m \in Monster, RespawnMonster(s, m)
    PROVE  IInv'
<1>1. NewMonster(s, FALSE) \in MonsterState /\ NewMonster(s, FALSE).attacking = None
  BY CombatAssumption DEF NewMonster, MonsterState, Creature
<1>2. m \notin Player /\ m \in Creature BY CombatAssumption DEF Creature
<1>3. \A d \in DOMAIN world : world[d].attacking # m BY DEF RespawnMonster, Fresh
<1>4. Good(world', Bound) BY <1>1, <1>2, <1>3, WithGood DEF RespawnMonster, IInv
<1>5. respawnAt' \in [Spawn -> Nat] BY DEF RespawnMonster, IInv, RestOK
<1> QED BY <1>4, <1>5, WorldStep DEF RespawnMonster

LEMMA LogoutKeeps ==
    ASSUME IInv, NEW p \in Player, Logout(p)
    PROVE  IInv'
<1>1. Good(world', Bound) BY WithoutGood DEF Logout, IInv
<1> QED BY <1>1, WorldStep DEF Logout, IInv, RestOK

\* Who stops fighting needs no lock.
LEMMA ClearTargetKeeps ==
    ASSUME IInv, NEW p \in Player, ClearTarget(p)
    PROVE  IInv'
<1>1. Good(Stopped(world, p), Bound) BY StoppedGood DEF IInv, Creature
<1>2. p \in DOMAIN Stopped(world, p) \intersect Player
  BY DEF Stopped, ClearTarget, Players
<1>3. world' \in IconsSent(Stopped(world, p), p, now) BY DEF ClearTarget, Stopped
<1>4. Good(world', Bound) BY <1>1, <1>2, <1>3, IconsGood
<1> QED BY <1>4, WorldStep DEF ClearTarget, IInv, RestOK

\* Walking and teleporting change neither fights nor locks.
LEMMA CrossingKeeps ==
    ASSUME IInv, NEW p \in Player, Step(p) \/ Teleport(p)
    PROVE  IInv'
<1> DEFINE r == [world[p] EXCEPT !.zone = ~@]
           w == [world EXCEPT ![p].zone = ~@]
<1>1. p \in DOMAIN world \intersect Player BY DEF Step, Teleport, Players
<1>2. world[p] \in PlayerState BY <1>1 DEF IInv, Good, WorldOK
<1>3. r \in PlayerState /\ r.attacking = world[p].attacking /\ r.lock = world[p].lock
  BY <1>2 DEF PlayerState
<1>4. w = Put(world, p, r) /\ DOMAIN w = DOMAIN world BY DEF Put
<1>5. world' \in IconsSent(w, p, now) BY DEF Step, Teleport
<1> HIDE DEF r, w
<1>6. Good(w, Bound) BY <1>1, <1>3, <1>4, FieldsGood DEF IInv
<1>7. Good(world', Bound) BY <1>1, <1>4, <1>5, <1>6, IconsGood
<1> QED BY <1>7, WorldStep DEF Step, Teleport, IInv, RestOK

\* The choice of a player as the target locks at once.
LEMMA SetTargetKeeps ==
    ASSUME IInv, NEW p \in Player, NEW c \in Creature, SetTarget(p, c)
    PROVE  IInv'
<1> DEFINE w == [world EXCEPT ![p].attacking = c, ![p].lastAttack = 0]
<1>1. p \in DOMAIN world \intersect Player /\ c \in DOMAIN world BY DEF SetTarget, Players
<1>2. now \in Nat /\ now + Lock >= Bound
  BY CombatAssumption DEF SetTarget, Idle, IInv, RestOK, ClockOK, Bound
<1>3. Good(Locked(w, p, now), Bound) BY <1>1, <1>2, BoundIsInt, TargetGood DEF IInv
<1>4. DOMAIN Locked(w, p, now) = DOMAIN world BY DEF Locked
<1>5. world' \in IconsSent(Locked(w, p, now), p, now) BY DEF SetTarget
<1> HIDE DEF w
<1>6. Good(world', Bound) BY <1>1, <1>3, <1>4, <1>5, IconsGood
<1> QED BY <1>6, WorldStep DEF SetTarget, IInv, RestOK

\* Between combat ticks another timer's clock may be Skew behind.
LEMMA TimerStep ==
    ASSUME IInv, NEW t, OtherStamp(t), now' = t, Idle, UNCHANGED <<respawnAt, stamp, phase, fights>>,
           Good(world', Bound)
    PROVE  IInv'
<1>1. Bound' = Bound BY DEF Bound
<1>2. t \in Nat /\ t >= stamp - Skew BY CombatAssumption DEF OtherStamp, IInv, RestOK
<1> QED BY <1>1, <1>2 DEF IInv, RestOK, ClockOK, Idle, Good, WorldOK, LockedUntil

LEMMA MonsterAiTickKeeps ==
    ASSUME IInv, NEW m \in Monster, NEW t, MonsterAiTick(m, t)
    PROVE  IInv'
<1>1. m \in DOMAIN world \intersect Monster BY DEF MonsterAiTick, Monsters
<1>2. PICK w \in Thoughts(world, m) : world' = w \/ world' = [w EXCEPT ![m].zone = FALSE]
  BY DEF MonsterAiTick
<1>3. Good(w, Bound) /\ m \in DOMAIN w BY <1>1, ThoughtsGood DEF IInv
<1> DEFINE r == [w[m] EXCEPT !.zone = FALSE]
<1>4. r \in MonsterState BY <1>3 DEF Good, WorldOK, MonsterState
<1>5. world' = w \/ world' = Put(w, m, r) BY <1>2 DEF Put
<1> HIDE DEF r
<1>6. Good(Put(w, m, r), Bound) BY <1>3, <1>4, MonsterGood
<1>7. Good(world', Bound) BY <1>3, <1>5, <1>6
<1> QED BY <1>7, TimerStep DEF MonsterAiTick

LEMMA RegenTickKeeps ==
    ASSUME IInv, NEW t, NEW H, RegenTick(t, H)
    PROVE  IInv'
<1> DEFINE r(p) == [world[p] EXCEPT !.health = PlayerHealth]
<1>1. \A p \in DOMAIN world \intersect Player : world[p] \in PlayerState
  BY DEF IInv, Good, WorldOK
<1>2. \A p \in DOMAIN world \intersect Player :
          r(p) \in PlayerState /\ r(p).attacking = world[p].attacking
                               /\ r(p).lock = world[p].lock
  BY <1>1, CombatAssumption DEF PlayerState
<1>3. /\ DOMAIN world' = DOMAIN world
      /\ \A c \in DOMAIN world : world'[c] = IF c \in H THEN r(c) ELSE world[c]
  BY DEF RegenTick
<1>4. H \subseteq Player /\ Player \intersect Monster = {}
  BY CombatAssumption DEF RegenTick, Players
<1>5. Good(world', Bound) BY <1>2, <1>3, <1>4 DEF IInv, Good, WorldOK, LockedUntil
<1> QED BY <1>5, TimerStep DEF RegenTick

\* The list holds creatures, whoever the attackers are.
LEMMA FightsTyped ==
    ASSUME NEW w, NEW A \in SUBSET DOMAIN w, WorldOK(w)
    PROVE  FightsOf(w, A) \subseteq Creature \X Creature
<1>1. \A a \in A : a \in Creature /\ w[a].attacking \in Creature \union {None}
  BY DEF WorldOK, Creature, PlayerState, MonsterState
<1> QED BY <1>1 DEF FightsOf

\* The new tick asks for one tick less until the locks are renewed.
LEMMA CombatTickKeeps ==
    ASSUME IInv, CombatTick
    PROVE  IInv'
<1>1. Bound' = Bound BY CombatAssumption DEF CombatTick, Idle, Bound, IInv, RestOK
<1>2. FightsOf(world, Players) \subseteq Creature \X Creature
  BY FightsTyped DEF IInv, Good, Players
<1>3. RestOK' BY <1>2, CombatAssumption DEF CombatTick, IInv, RestOK
<1>4. ClockOK' BY CombatAssumption DEF CombatTick, IInv, RestOK, ClockOK
<1>5. Good(world', Bound') BY <1>1 DEF CombatTick, IInv
<1> QED BY <1>3, <1>4, <1>5 DEF IInv, Good, WorldOK, LockedUntil

LEMMA RenewLocksKeeps ==
    ASSUME IInv, RenewLocks
    PROVE  IInv'
<1>1. now = stamp /\ now \in Nat /\ now + Lock \in Int
  BY CombatAssumption DEF RenewLocks, IInv, RestOK, ClockOK
<1>2. Good(Expired(Renewed), now + Lock)
  BY <1>1, RenewedGood, ExpiredGood DEF IInv, Good
<1>3. PICK R : world' = Without(Expired(Renewed), R) BY DEF RenewLocks
<1>4. Good(world', now + Lock) BY <1>2, <1>3, WithoutGood
<1>5. Bound' \in Int /\ Bound' <= now + Lock
  BY <1>1, CombatAssumption DEF RenewLocks, Bound, IInv, RestOK
<1>6. Good(world', Bound') BY <1>1, <1>4, <1>5, Weaker
<1>7. fights' \subseteq Creature \X Creature
  BY <1>6, FightsTyped DEF RenewLocks, Good
<1>8. RestOK' /\ ClockOK' BY <1>1, <1>7 DEF RenewLocks, IInv, RestOK, ClockOK
<1> QED BY <1>6, <1>8 DEF IInv, Good, WorldOK, LockedUntil

LEMMA TickEndsKeeps ==
    ASSUME IInv, TickEnds
    PROVE  IInv'
<1>1. Bound' = Bound BY DEF TickEnds, Bound
<1> QED BY <1>1 DEF TickEnds, IInv, RestOK, ClockOK, Good, WorldOK, LockedUntil

\* A death of a monster plans the next one at its spawn point.
LEMMA MonsterDiesKeeps ==
    ASSUME IInv, NEW m \in DOMAIN world \intersect Monster, NEW w, Good(w, Bound),
           MonsterDies(m, w)
    PROVE  Good(world', Bound) /\ respawnAt' \in [Spawn -> Nat]
<1>1. Good(world', Bound) BY FightsClearedGood, WithoutGood DEF MonsterDies
<1>2. world[m].spawn \in Spawn \union {None} BY DEF IInv, Good, WorldOK, MonsterState
<1>3. now + Respawn \in Nat BY CombatAssumption DEF IInv, RestOK
<1>4. respawnAt' \in [Spawn -> Nat] BY <1>2, <1>3 DEF MonsterDies, IInv, RestOK
<1> QED BY <1>1, <1>4

LEMMA PlayerSwingKeeps ==
    ASSUME IInv, NEW a \in DOMAIN world \intersect Player, NEW c \in DOMAIN world,
           NEW w, Good(w, Bound), DOMAIN w = DOMAIN world,
           \A m \in DOMAIN w \intersect Monster : w[m] = world[m],
           PlayerSwing(w, a, c)
    PROVE  Good(world', Bound) /\ respawnAt' \in [Spawn -> Nat]
<1>1. PICK R \in SUBSET (DOMAIN w \intersect Player), d \in 0..MaxBlow :
        \/ world' = Without(w, R) /\ UNCHANGED respawnAt
        \/ /\ c \in Player
           /\ world' \in PlayerHurt([w EXCEPT ![a].harmed = now], a, c, d, R)
           /\ UNCHANGED respawnAt
        \/ /\ c \in Monster /\ d < w[c].health
           /\ world' = Without(MonsterHurt(w, a, c, d), R)
           /\ UNCHANGED respawnAt
        \/ /\ c \in Monster /\ d >= w[c].health
           /\ MonsterDies(c, Without(w, R))
  BY DEF PlayerSwing
<1>2. d \in Nat BY CombatAssumption DEF MaxBlow
<1>3. respawnAt \in [Spawn -> Nat] BY DEF IInv, RestOK
<1>4. CASE world' = Without(w, R) /\ UNCHANGED respawnAt
  BY <1>3, <1>4, WithoutGood
<1>5. CASE /\ c \in Player
           /\ world' \in PlayerHurt([w EXCEPT ![a].harmed = now], a, c, d, R)
           /\ UNCHANGED respawnAt
  <2> DEFINE r == [w[a] EXCEPT !.harmed = now]
             v == [w EXCEPT ![a].harmed = now]
  <2>1. w[a] \in PlayerState /\ now \in Nat BY DEF Good, WorldOK, IInv, RestOK
  <2>2. r \in PlayerState /\ r.attacking = w[a].attacking /\ r.lock = w[a].lock
    BY <2>1 DEF PlayerState
  <2>3. v = Put(w, a, r) /\ DOMAIN v = DOMAIN w BY DEF Put
  <2>4. world' \in PlayerHurt(v, a, c, d, R) BY <1>5
  <2> HIDE DEF r, v
  <2>5. Good(v, Bound) BY <2>2, <2>3, FieldsGood
  <2>6. c \in DOMAIN v \intersect Player BY <1>5, <2>3
  <2>7. Good(world', Bound) BY <1>2, <2>4, <2>5, <2>6, PlayerHurtGood
  <2> QED BY <1>3, <1>5, <2>7
<1>6. CASE /\ c \in Monster /\ d < w[c].health
           /\ world' = Without(MonsterHurt(w, a, c, d), R)
           /\ UNCHANGED respawnAt
  <2>1. Good(MonsterHurt(w, a, c, d), Bound)
    BY <1>2, <1>6, MonsterHurtGood DEF Creature
  <2> QED BY <1>3, <1>6, <2>1, WithoutGood
<1>7. CASE /\ c \in Monster /\ d >= w[c].health
           /\ MonsterDies(c, Without(w, R))
  <2>1. Good(Without(w, R), Bound) BY WithoutGood
  <2> QED BY <1>7, <2>1, MonsterDiesKeeps
<1> QED BY <1>1, <1>4, <1>5, <1>6, <1>7

LEMMA PlayerFightKeeps ==
    ASSUME IInv, NEW a \in Player, NEW c \in Creature, PlayerFight(a, c)
    PROVE  IInv'
<1>1. Good(Stopped(world, a), Bound) BY StoppedGood DEF IInv, Creature
<1>2. respawnAt \in [Spawn -> Nat] BY DEF IInv, RestOK
<1>3. CASE world' \in {world, Stopped(world, a)} /\ UNCHANGED respawnAt
  <2>1. Good(world', Bound) BY <1>1, <1>3 DEF IInv
  <2> QED BY <1>2, <1>3, <2>1, WorldStep DEF PlayerFight
<1>4. CASE /\ {a, c} \subseteq DOMAIN world
           /\ PlayerSwing([world EXCEPT ![a].lastAttack = now], a, c)
  <2> DEFINE r == [world[a] EXCEPT !.lastAttack = now]
             w == [world EXCEPT ![a].lastAttack = now]
  <2>1. a \in DOMAIN world \intersect Player /\ c \in DOMAIN world BY <1>4
  <2>2. world[a] \in PlayerState /\ now \in Nat
    BY <2>1 DEF IInv, Good, WorldOK, RestOK
  <2>3. r \in PlayerState /\ r.attacking = world[a].attacking /\ r.lock = world[a].lock
    BY <2>2 DEF PlayerState
  <2>4. w = Put(world, a, r) /\ DOMAIN w = DOMAIN world BY DEF Put
  <2>5. \A m \in DOMAIN w \intersect Monster : w[m] = world[m] BY CombatAssumption
  <2>6. PlayerSwing(w, a, c) BY <1>4
  <2> HIDE DEF r, w
  <2>7. Good(w, Bound) BY <2>1, <2>3, <2>4, FieldsGood DEF IInv
  <2>8. Good(world', Bound) /\ respawnAt' \in [Spawn -> Nat]
    BY <2>1, <2>4, <2>5, <2>6, <2>7, PlayerSwingKeeps
  <2> QED BY <2>8, WorldStep DEF PlayerFight
<1>5. \/ world' \in {world, Stopped(world, a)} /\ UNCHANGED respawnAt
      \/ /\ {a, c} \subseteq DOMAIN world
         /\ PlayerSwing([world EXCEPT ![a].lastAttack = now], a, c)
  BY DEF PlayerFight
<1> QED BY <1>3, <1>4, <1>5

\* Were the monster gone, there would be no fields to set: that it is still there when
\* its turn comes is not needed.
LEMMA MonsterFightKeeps ==
    ASSUME IInv, NEW m \in Monster, NEW c \in Player, MonsterFight(m, c)
    PROVE  IInv'
<1> DEFINE calm == [[world[m] EXCEPT !.attacking = None] EXCEPT !.chasing = None]
           struck == [world[m] EXCEPT !.lastAttack = now]
           w == [world EXCEPT ![m].lastAttack = now]
<1>1. \A r : Good(world, Bound) /\ (m \in DOMAIN world => r \in MonsterState)
                 => Good(Put(world, m, r), Bound)
  BY AbsentGood, MonsterGood
<1>2. m \in DOMAIN world => world[m] \in MonsterState
  BY DEF IInv, Good, WorldOK
<1>3. m \in DOMAIN world => calm \in MonsterState /\ struck \in MonsterState
  BY <1>2 DEF MonsterState, IInv, RestOK
<1>4. Good(Stopped(world, m), Bound) BY StoppedGood DEF IInv, Creature
<1>5. [Stopped(world, m) EXCEPT ![m].chasing = None] = Put(world, m, calm)
  BY DEF Stopped, Put
<1>6. w = Put(world, m, struck) /\ DOMAIN w = DOMAIN world BY DEF Put
<1>7. \/ world' \in {world, Stopped(world, m)}
      \/ world' = Put(world, m, calm)
      \/ /\ c \in DOMAIN world
         /\ \E R \in SUBSET Players, d \in 0..MaxBlow : world' \in PlayerHurt(w, m, c, d, R)
  BY <1>5 DEF MonsterFight
<1> HIDE DEF calm, struck, w
<1>8. Good(Put(world, m, calm), Bound) /\ Good(w, Bound) BY <1>1, <1>3, <1>6 DEF IInv
<1>9. MaxBlow \in Nat BY CombatAssumption DEF MaxBlow
<1>10. ASSUME c \in DOMAIN world, NEW R \in SUBSET Players, NEW d \in 0..MaxBlow,
              world' \in PlayerHurt(w, m, c, d, R)
       PROVE  Good(world', Bound)
  <2>1. c \in DOMAIN w \intersect Player /\ d \in Nat BY <1>6, <1>9, <1>10
  <2> QED BY <1>8, <1>10, <2>1, PlayerHurtGood
<1>11. Good(world', Bound) BY <1>4, <1>7, <1>8, <1>10 DEF IInv
<1>12. fights' \subseteq fights /\ UNCHANGED <<respawnAt, now, stamp, phase>>
  BY DEF MonsterFight
<1> QED BY <1>11, <1>12, WorldStep DEF IInv, RestOK

LEMMA StepInv == IInv /\ [Next]_vars => IInv'
<1> SUFFICES ASSUME IInv, [Next]_vars PROVE IInv'
  OBVIOUS
<1>1. ASSUME NEW p \in Player,
             Login(p) \/ Logout(p) \/ ClearTarget(p) \/ Step(p) \/ Teleport(p)
      PROVE  IInv'
  BY <1>1, LoginKeeps, LogoutKeeps, ClearTargetKeeps, CrossingKeeps
<1>2. ASSUME NEW p \in Player, NEW c \in Creature, SetTarget(p, c) \/ PlayerFight(p, c)
      PROVE  IInv'
  BY <1>2, SetTargetKeeps, PlayerFightKeeps
<1>3. ASSUME NEW m \in Monster, Summon(m) \/ \E t \in 0..(stamp + Skew) : MonsterAiTick(m, t)
      PROVE  IInv'
  BY <1>3, SummonKeeps, MonsterAiTickKeeps
<1>4. ASSUME \E t \in 0..(stamp + Skew), H \in SUBSET Player : RegenTick(t, H)
      PROVE  IInv'
  BY <1>4, RegenTickKeeps
<1>5. CASE CombatTick \/ RenewLocks \/ TickEnds
  BY <1>5, CombatTickKeeps, RenewLocksKeeps, TickEndsKeeps
<1>6. ASSUME NEW m \in Monster, NEW p \in Player, MonsterFight(m, p)
      PROVE  IInv'
  BY <1>6, MonsterFightKeeps
<1>7. ASSUME NEW s \in Spawn, NEW m \in Monster, RespawnMonster(s, m)
      PROVE  IInv'
  BY <1>7, RespawnKeeps
<1>8. CASE UNCHANGED vars
  <2>1. Bound' = Bound BY <1>8 DEF Bound, vars
  <2> QED BY <1>8, <2>1 DEF vars, IInv, RestOK, ClockOK, Good, WorldOK, LockedUntil
<1> QED BY <1>1, <1>2, <1>3, <1>4, <1>5, <1>6, <1>7, <1>8 DEF Next

LEMMA AlwaysInv == Spec => []IInv
  BY InitInv, StepInv, PTL DEF Spec

-----------------------------------------------------------------------------
(* What follows from it                                                    *)

\* Every creature has the fields of its kind, within their ranges: no hit point goes
\* below zero or above the maximum, whatever order blows, deaths and logouts come in.
THEOREM TypeCorrect == Spec => []TypeOK
<1>1. IInv => TypeOK
  BY DEF IInv, RestOK, Good, WorldOK, TypeOK, Players, Monsters
<1> QED BY <1>1, AlwaysInv, PTL

\* Between combat ticks whoever attacks a player in the world is locked for the lock time
\* but for the difference of the timers, for any number of players and any durations.
THEOREM FightersAreLocked == Spec => []FightersLocked
<1>1. IInv => FightersLocked
  BY CombatAssumption
     DEF IInv, Good, LockedUntil, Bound, FightersLocked, Idle, Players, RestOK
<1> QED BY <1>1, AlwaysInv, PTL

(***************************************************************************)
(* Icons, spawn points and zones.                                          *)
(*                                                                         *)
(* The argument adds to the invariant what each player's icons and last    *)
(* blow have to do with its lock (Fair), that a spawn point has its monster *)
(* or its plan (Single), and that the list of a tick's fights is still true *)
(* of those who are there (ListOK).  Most steps touch none of it:          *)
(* PlayersKept and MonstersKept say so, operator by operator.              *)
(***************************************************************************)

\* The stamp that locks and icons are up to date with: the one before, while the
\* players' half of a combat tick runs.
Base == stamp - (IF phase = "players" THEN 1 ELSE 0)

\* The fields r of a player show what is so at time b, give or take Skew.
Shows(r, b) ==
    /\ r.lock = 0 \/ r.lock > b
    /\ r.told => /\ ("pigeon" \in r.icons) = r.zone
                 /\ "swords" \in r.icons => r.lock > b
                 /\ r.lock > b + Skew => "swords" \in r.icons

\* A player is held by its last blow for the lock time, but for a tick and the skew.
Held(r, s) ==
    /\ r.harmed <= s
    /\ r.harmed > 0 => \/ r.lock >= r.harmed + Lock - 1 - Skew
                       \/ s >= r.harmed + Lock - 1 - Skew

Fair(w) == \A p \in DOMAIN w \intersect Player : Shows(w[p], Base) /\ Held(w[p], stamp)

\* Each spawn point has one monster in w, or a plan.
Single(w, plan) ==
    \A s \in Spawn :
        /\ plan[s] = 0 => \E m \in DOMAIN w \intersect Monster :
               /\ w[m].spawn = s
               /\ \A n \in DOMAIN w \intersect Monster : w[n].spawn = s => n = m
        /\ plan[s] # 0 => \A m \in DOMAIN w \intersect Monster : w[m].spawn # s

\* The players' fights yet to come are still theirs, one for each.
ListOK ==
    phase = "players" =>
        /\ \A a, c : <<a, c>> \in fights /\ a \in DOMAIN world /\ c \in DOMAIN world
                        => a \in Player /\ world[a].attacking = c
        /\ \A a, c, d : <<a, c>> \in fights /\ <<a, d>> \in fights => c = d

ClockHigh == now <= stamp + Skew /\ (phase = "players" => stamp >= 1)

OInv == IInv /\ Fair(world) /\ Single(world, respawnAt) /\ ListOK /\ ClockHigh

\* From w to v nobody comes, and players keep what they are, but for the target of a
\* and the health of c; a target is given up only when it is gone.
PlayersKept(w, v, a, c) ==
    /\ DOMAIN v \subseteq DOMAIN w
    /\ \A p \in DOMAIN v \intersect Player :
        /\ v[p].lock = w[p].lock /\ v[p].zone = w[p].zone
        /\ v[p].icons = w[p].icons /\ v[p].told = w[p].told
        /\ v[p].harmed = w[p].harmed
        /\ p # a => v[p].attacking = w[p].attacking \/ w[p].attacking \notin DOMAIN v
        /\ p # c => v[p].health = w[p].health

\* The monsters of v come from where they came from in w.
SpawnsKept(w, v) == \A m \in DOMAIN v \intersect Monster : v[m].spawn = w[m].spawn

\* The monsters of w and v are the same, from the same spawn points.
MonstersKept(w, v) ==
    /\ DOMAIN v \intersect Monster = DOMAIN w \intersect Monster
    /\ \A m \in DOMAIN v \intersect Monster : v[m].spawn = w[m].spawn

-----------------------------------------------------------------------------
(* The two relations                                                       *)

LEMMA KeptTwice ==
    ASSUME NEW w, NEW u, NEW v, NEW a, NEW c,
           PlayersKept(w, u, a, c), PlayersKept(u, v, a, c)
    PROVE  PlayersKept(w, v, a, c)
  BY DEF PlayersKept

LEMMA MonstersTwice ==
    ASSUME NEW w, NEW u, NEW v, MonstersKept(w, u), MonstersKept(u, v)
    PROVE  MonstersKept(w, v)
  BY DEF MonstersKept

LEMMA KeptFair ==
    ASSUME NEW w, NEW v, NEW a, NEW c, PlayersKept(w, v, a, c), Fair(w)
    PROVE  Fair(v)
  BY DEF PlayersKept, Fair, Shows, Held

LEMMA KeptSingle ==
    ASSUME NEW w, NEW v, NEW plan, MonstersKept(w, v), Single(w, plan)
    PROVE  Single(v, plan)
  BY DEF MonstersKept, Single

\* Whoever leaves, the others keep what they have.
LEMMA WithoutKept ==
    ASSUME NEW w, NEW C, NEW a, NEW c
    PROVE  /\ PlayersKept(w, Without(w, C), a, c)
           /\ C \subseteq Player => MonstersKept(w, Without(w, C))
<1>1. /\ DOMAIN Without(w, C) = DOMAIN w \ C
      /\ \A d \in DOMAIN w \ C : Without(w, C)[d] = w[d]
  BY DEF Without, Restrict
<1>2. Player \intersect Monster = {} BY CombatAssumption
<1> QED BY <1>1, <1>2 DEF PlayersKept, MonstersKept

\* New fields for one creature.
LEMMA PutKept ==
    ASSUME NEW w, NEW k \in DOMAIN w, NEW r, NEW a, NEW c,
           k \in Player =>
               /\ r.lock = w[k].lock /\ r.zone = w[k].zone /\ r.icons = w[k].icons
               /\ r.told = w[k].told /\ r.harmed = w[k].harmed
               /\ k # a => r.attacking = w[k].attacking
               /\ k # c => r.health = w[k].health,
           k \in Monster => r.spawn = w[k].spawn
    PROVE  PlayersKept(w, Put(w, k, r), a, c) /\ MonstersKept(w, Put(w, k, r))
<1>1. /\ DOMAIN Put(w, k, r) = DOMAIN w
      /\ \A d \in DOMAIN w : Put(w, k, r)[d] = IF d = k THEN r ELSE w[d]
  BY DEF Put
<1> QED BY <1>1 DEF PlayersKept, MonstersKept

\* A death: the fights against v end with it.
LEMMA ClearedKept ==
    ASSUME NEW w, NEW t, Good(w, t), NEW C, NEW v \in C, NEW a, NEW c,
           NEW x, x = Without(FightsCleared(w, v), C)
    PROVE  /\ PlayersKept(w, x, a, c)
           /\ DOMAIN x = DOMAIN w \ C
           /\ SpawnsKept(w, x)
<1> DEFINE f == FightsCleared(w, v)
<1>1. /\ DOMAIN f = DOMAIN w
      /\ \A d \in DOMAIN w : f[d] = IF w[d].attacking = v
                                    THEN [w[d] EXCEPT !.attacking = None] ELSE w[d]
  BY DEF FightsCleared
<1> HIDE DEF f
<1>2. /\ DOMAIN Without(f, C) = DOMAIN w \ C
      /\ \A d \in DOMAIN w \ C : Without(f, C)[d] = f[d]
  BY <1>1 DEF Without, Restrict
<1>3. \A p \in DOMAIN w \intersect Player : w[p] \in PlayerState
  BY DEF Good, WorldOK
<1>4. \A m \in DOMAIN w \intersect Monster : w[m] \in MonsterState
  BY DEF Good, WorldOK
<1>5. \A p \in DOMAIN w \intersect Player :
        /\ f[p].lock = w[p].lock /\ f[p].zone = w[p].zone /\ f[p].icons = w[p].icons
        /\ f[p].told = w[p].told /\ f[p].harmed = w[p].harmed /\ f[p].health = w[p].health
        /\ f[p].attacking = w[p].attacking \/ w[p].attacking = v
  BY <1>1, <1>3 DEF PlayerState
<1>6. \A m \in DOMAIN w \intersect Monster : f[m].spawn = w[m].spawn
  BY <1>1, <1>4 DEF MonsterState
<1>7. PlayersKept(w, Without(f, C), a, c) BY <1>2, <1>5 DEF PlayersKept
<1> QED BY <1>2, <1>6, <1>7 DEF f, SpawnsKept

-----------------------------------------------------------------------------
(* Steps that touch little                                                 *)

\* A step between fights that keeps the players and the monsters.
LEMMA QuietStep ==
    ASSUME OInv, IInv', UNCHANGED <<stamp, respawnAt>>, Base' = Base, now' <= stamp + Skew,
           phase' # "players", Fair(world'), MonstersKept(world, world')
    PROVE  OInv'
<1>1. Single(world, respawnAt)' BY KeptSingle DEF OInv, Single
<1>2. Fair(world)' BY DEF Fair, Shows, Held
<1>3. ListOK' /\ ClockHigh' BY DEF ListOK, ClockHigh
<1> QED BY <1>1, <1>2, <1>3 DEF OInv

LEMMA IdleBase == ASSUME IInv, phase # "players" PROVE Base = stamp /\ Base \in Nat
  BY DEF IInv, RestOK, Base

\* A command leaves the clock and the plans alone.
LEMMA CommandStep ==
    ASSUME OInv, IInv', Idle, UNCHANGED <<respawnAt, now, stamp, phase, fights>>,
           Fair(world'), MonstersKept(world, world')
    PROVE  OInv'
<1>1. Base' = Base BY DEF Base
<1>2. phase' # "players" BY DEF Idle
<1>3. now' <= stamp + Skew BY DEF OInv, ClockHigh
<1> QED BY <1>1, <1>2, <1>3, QuietStep DEF Idle

\* Whoever comes shows nothing, owes nothing and fights nobody.
LEMMA LoginOutcome ==
    ASSUME OInv, IInv', NEW p \in Player, Login(p)
    PROVE  OInv'
<1>1. PICK h \in 0..PlayerHealth, z \in BOOLEAN : world' = With(world, p, NewPlayer(h, z))
  BY DEF Login
<1>2. /\ DOMAIN world' = DOMAIN world \union {p}
      /\ \A d \in DOMAIN world \union {p} :
             world'[d] = IF d = p THEN NewPlayer(h, z) ELSE world[d]
  BY <1>1 DEF With
<1>3. Idle /\ Base = stamp /\ stamp \in Nat /\ p \notin Monster
  BY CombatAssumption, IdleBase DEF Login, Idle, OInv, IInv, RestOK
<1>4. Shows(NewPlayer(h, z), Base) /\ Held(NewPlayer(h, z), stamp)
  BY <1>3, CombatAssumption DEF NewPlayer, Shows, Held
<1>5. Fair(world') BY <1>2, <1>4 DEF Fair, OInv
<1>6. MonstersKept(world, world') BY <1>2, <1>3 DEF MonstersKept
<1> QED BY <1>3, <1>5, <1>6, CommandStep DEF Login

LEMMA LogoutOutcome ==
    ASSUME OInv, IInv', NEW p \in Player, Logout(p)
    PROVE  OInv'
<1>1. PlayersKept(world, world', None, None) /\ MonstersKept(world, world')
  BY WithoutKept DEF Logout
<1>2. Fair(world') BY <1>1, KeptFair DEF OInv
<1> QED BY <1>1, <1>2, CommandStep DEF Logout

\* A gamemaster's creature has no spawn point.
LEMMA SummonOutcome ==
    ASSUME OInv, IInv', NEW m \in Monster, Summon(m)
    PROVE  OInv'
<1>1. PICK z : world' = With(world, m, NewMonster(None, z)) BY DEF Summon
<1>2. /\ DOMAIN world' = DOMAIN world \union {m}
      /\ \A d \in DOMAIN world \union {m} :
             world'[d] = IF d = m THEN NewMonster(None, z) ELSE world[d]
  BY <1>1 DEF With
<1>3. m \notin Player /\ None \notin Spawn BY CombatAssumption
<1>4. NewMonster(None, z).spawn = None BY DEF NewMonster
<1>5. m \notin DOMAIN world BY DEF Summon, Fresh
<1>6. \A s \in Spawn, n \in DOMAIN world' \intersect Monster :
          world'[n].spawn = s <=> n \in DOMAIN world /\ world[n].spawn = s
  BY <1>2, <1>3, <1>4, <1>5
<1>7. UNCHANGED <<respawnAt, now, stamp, phase, fights>> /\ Idle BY DEF Summon
<1>8. Single(world', respawnAt') BY <1>2, <1>6, <1>7 DEF Single, OInv
<1>9. Fair(world') BY <1>2, <1>3 DEF Fair, OInv
<1>10. Base' = Base BY <1>7 DEF Base
<1>11. Fair(world)' BY <1>7, <1>9, <1>10 DEF Fair, Shows, Held
<1>12. ListOK' /\ ClockHigh' BY <1>7 DEF OInv, ListOK, ClockHigh, Idle
<1> QED BY <1>8, <1>11, <1>12 DEF OInv, Single

\* Whatever a command makes of a player, once it is sent its icons they are right.
LEMMA IconsFair ==
    ASSUME OInv, Idle, NEW p \in DOMAIN world \intersect Player, NEW q \in PlayerState,
           Held(q, stamp), q.lock = 0 \/ q.lock > stamp,
           NEW v \in IconsSent(Put(world, p, q), p, now)
    PROVE  Fair(v) /\ MonstersKept(world, v)
<1> DEFINE w == Put(world, p, q)
           r == [q EXCEPT !.icons = Mask(w, p, now), !.told = TRUE]
<1>1. /\ DOMAIN w = DOMAIN world
      /\ \A d \in DOMAIN world : w[d] = IF d = p THEN q ELSE world[d]
  BY DEF Put
<1>2. p \notin Monster BY CombatAssumption
<1>3. v \in {IconsShown(w, p, now), Without(w, {p})} BY DEF IconsSent
<1> HIDE DEF w
<1>4. CASE v = Without(w, {p})
  <2>1. /\ DOMAIN v = DOMAIN w \ {p}
        /\ \A d \in DOMAIN v : v[d] = w[d]
    BY <1>4 DEF Without, Restrict
  <2> QED BY <1>1, <1>2, <2>1 DEF Fair, MonstersKept, OInv
<1>5. CASE v = IconsShown(w, p, now)
  <2>1. w[p] = q BY <1>1
  <2>2. /\ DOMAIN v = DOMAIN w
        /\ \A d \in DOMAIN w : v[d] = IF d = p THEN r ELSE w[d]
    BY <1>1, <1>5, <2>1 DEF IconsShown
  <2>3. /\ r.lock = q.lock /\ r.zone = q.zone /\ r.harmed = q.harmed
        /\ r.icons = Mask(w, p, now)
    BY DEF PlayerState
  <2>4. /\ "pigeon" \in Mask(w, p, now) <=> q.zone
        /\ "swords" \in Mask(w, p, now) <=> q.lock > now
    BY <2>1 DEF Mask
  <2>5. q.lock \in Nat /\ q.zone \in BOOLEAN BY DEF PlayerState
  <2>6. Base = stamp /\ stamp \in Nat /\ now \in Nat /\ now <= stamp + Skew
    BY IdleBase DEF Idle, OInv, IInv, RestOK, ClockHigh
  <2> HIDE DEF r
  <2>7. ("pigeon" \in r.icons) = r.zone BY <2>3, <2>4, <2>5
  <2>8. Shows(r, Base) BY <2>3, <2>4, <2>5, <2>6, <2>7, CombatAssumption DEF Shows
  <2>9. Held(r, stamp) BY <2>3 DEF Held
  <2> QED BY <1>1, <1>2, <2>2, <2>8, <2>9 DEF Fair, MonstersKept, OInv
<1> QED BY <1>3, <1>4, <1>5

LEMMA PlayerCommand ==
    ASSUME OInv, IInv', Idle, UNCHANGED <<respawnAt, now, stamp, phase, fights>>,
           NEW p \in DOMAIN world \intersect Player, NEW q \in PlayerState,
           Held(q, stamp), q.lock = 0 \/ q.lock > stamp,
           world' \in IconsSent(Put(world, p, q), p, now)
    PROVE  OInv'
  BY IconsFair, CommandStep

\* What the invariant says of a player of the world.
LEMMA PlayerFacts ==
    ASSUME OInv, NEW p \in DOMAIN world \intersect Player
    PROVE  /\ world[p] \in PlayerState /\ Held(world[p], stamp) /\ Shows(world[p], Base)
           /\ Idle => world[p].lock = 0 \/ world[p].lock > stamp
<1>1. Idle => Base = stamp BY IdleBase DEF OInv, Idle
<1> QED BY <1>1 DEF OInv, Fair, Shows, IInv, Good, WorldOK

LEMMA ClearTargetOutcome ==
    ASSUME OInv, IInv', NEW p \in Player, ClearTarget(p)
    PROVE  OInv'
<1> DEFINE q == [world[p] EXCEPT !.attacking = None]
<1>1. p \in DOMAIN world \intersect Player /\ Idle BY DEF ClearTarget, Players
<1>2. world[p] \in PlayerState /\ Held(world[p], stamp)
      /\ (world[p].lock = 0 \/ world[p].lock > stamp)
  BY <1>1, PlayerFacts
<1>3. q \in PlayerState /\ q.lock = world[p].lock /\ q.harmed = world[p].harmed
  BY <1>2 DEF PlayerState
<1>4. world' \in IconsSent(Put(world, p, q), p, now) BY DEF ClearTarget, Put
<1> HIDE DEF q
<1>5. Held(q, stamp) /\ (q.lock = 0 \/ q.lock > stamp) BY <1>2, <1>3 DEF Held
<1> QED BY <1>1, <1>3, <1>4, <1>5, PlayerCommand DEF ClearTarget

LEMMA CrossingOutcome ==
    ASSUME OInv, IInv', NEW p \in Player, Step(p) \/ Teleport(p)
    PROVE  OInv'
<1> DEFINE q == [world[p] EXCEPT !.zone = ~@]
<1>1. p \in DOMAIN world \intersect Player /\ Idle
      /\ UNCHANGED <<respawnAt, now, stamp, phase, fights>>
  BY DEF Step, Teleport, Players
<1>2. world[p] \in PlayerState /\ Held(world[p], stamp)
      /\ (world[p].lock = 0 \/ world[p].lock > stamp)
  BY <1>1, PlayerFacts
<1>3. q \in PlayerState /\ q.lock = world[p].lock /\ q.harmed = world[p].harmed
  BY <1>2 DEF PlayerState
<1>4. world' \in IconsSent(Put(world, p, q), p, now) BY DEF Step, Teleport, Put
<1> HIDE DEF q
<1>5. Held(q, stamp) /\ (q.lock = 0 \/ q.lock > stamp) BY <1>2, <1>3 DEF Held
<1> QED BY <1>1, <1>3, <1>4, <1>5, PlayerCommand

\* The lock of a new fight is longer than the timers differ.
LEMMA SetTargetOutcome ==
    ASSUME OInv, IInv', NEW p \in Player, NEW c \in Creature, SetTarget(p, c)
    PROVE  OInv'
<1> DEFINE w == [world EXCEPT ![p].attacking = c, ![p].lastAttack = 0]
           q == [world[p] EXCEPT !.attacking = c, !.lastAttack = 0]
           k == [q EXCEPT !.lock = now + Lock]
<1>1. p \in DOMAIN world \intersect Player /\ Idle BY DEF SetTarget, Players
<1>2. world[p] \in PlayerState /\ Held(world[p], stamp)
      /\ (world[p].lock = 0 \/ world[p].lock > stamp)
  BY <1>1, PlayerFacts
<1>3. q \in PlayerState /\ q.lock = world[p].lock /\ q.harmed = world[p].harmed
  BY <1>2 DEF PlayerState
<1>4. now \in Nat /\ stamp \in Nat /\ now >= stamp - Skew
  BY DEF OInv, IInv, RestOK, ClockOK
<1>5. k \in PlayerState /\ k.lock = now + Lock /\ k.harmed = world[p].harmed
  <2> HIDE DEF q
  <2> QED BY <1>3, <1>4, CombatAssumption DEF PlayerState
<1>6. w = Put(world, p, q) BY DEF Put
<1>7. Locked(w, p, now) \in {Put(world, p, q), Put(world, p, k)}
  BY <1>1, <1>6 DEF Locked, Put
<1>8. world' \in IconsSent(Locked(w, p, now), p, now) BY DEF SetTarget
<1> HIDE DEF q, k, w
<1>9. Held(q, stamp) /\ (q.lock = 0 \/ q.lock > stamp) BY <1>2, <1>3 DEF Held
<1>10. world[p].harmed \in Nat BY <1>2 DEF PlayerState
<1>11. Held(k, stamp) /\ k.lock > stamp
  BY <1>2, <1>4, <1>5, <1>10, CombatAssumption DEF Held
<1> QED BY <1>1, <1>3, <1>5, <1>7, <1>8, <1>9, <1>11, PlayerCommand DEF SetTarget

-----------------------------------------------------------------------------
(* Other timers                                                            *)

\* A timer that changes no lock, icon, target of a player or spawn point.
LEMMA TimerOutcome ==
    ASSUME OInv, IInv', NEW t, OtherStamp(t), now' = t, Idle,
           UNCHANGED <<respawnAt, stamp, phase, fights>>,
           Fair(world'), MonstersKept(world, world')
    PROVE  OInv'
<1>1. Base' = Base BY DEF Base
<1>2. now' <= stamp + Skew
  BY CombatAssumption DEF OtherStamp, OInv, IInv, RestOK
<1> QED BY <1>1, <1>2, QuietStep DEF Idle

LEMMA RegenTickOutcome ==
    ASSUME OInv, IInv', NEW t, NEW H, RegenTick(t, H)
    PROVE  OInv'
<1> DEFINE r(p) == [world[p] EXCEPT !.health = PlayerHealth]
<1>1. \A p \in DOMAIN world \intersect Player : world[p] \in PlayerState
  BY DEF OInv, IInv, Good, WorldOK
<1>2. \A p \in DOMAIN world \intersect Player :
        /\ r(p).lock = world[p].lock /\ r(p).zone = world[p].zone
        /\ r(p).icons = world[p].icons /\ r(p).told = world[p].told
        /\ r(p).harmed = world[p].harmed
  BY <1>1 DEF PlayerState
<1>3. /\ DOMAIN world' = DOMAIN world
      /\ \A d \in DOMAIN world : world'[d] = IF d \in H THEN r(d) ELSE world[d]
  BY DEF RegenTick
<1>4. H \subseteq Player /\ Player \intersect Monster = {}
  BY CombatAssumption DEF RegenTick, Players
<1> HIDE DEF r
<1>5. Fair(world') BY <1>2, <1>3 DEF Fair, Shows, Held, OInv
<1>6. MonstersKept(world, world') BY <1>3, <1>4 DEF MonstersKept
<1> QED BY <1>5, <1>6, TimerOutcome DEF RegenTick

\* What a monster thinks of changes its own fight only.
LEMMA ThoughtsKept ==
    ASSUME OInv, NEW m \in DOMAIN world \intersect Monster, NEW w \in Thoughts(world, m)
    PROVE  PlayersKept(world, w, None, None) /\ MonstersKept(world, w)
<1> DEFINE calm == [world[m] EXCEPT !.attacking = None, !.chasing = None]
           lost == [world[m] EXCEPT !.chasing = None]
           hunting(q) == [world[m] EXCEPT !.attacking = q, !.chasing = q, !.lastAttack = 0]
<1>1. world[m] \in MonsterState /\ m \notin Player
  BY CombatAssumption DEF OInv, IInv, Good, WorldOK
<1>2. /\ calm.spawn = world[m].spawn /\ lost.spawn = world[m].spawn
      /\ \A q \in Player : hunting(q).spawn = world[m].spawn
  BY <1>1 DEF MonsterState
<1>3. \/ w = world
      \/ w = Put(world, m, calm)
      \/ w = Put(world, m, lost)
      \/ \E q \in Player : w = Put(world, m, hunting(q))
  BY DEF Thoughts, Put
<1> HIDE DEF calm, lost, hunting
<1>4. \A r : r.spawn = world[m].spawn =>
          /\ PlayersKept(world, Put(world, m, r), None, None)
          /\ MonstersKept(world, Put(world, m, r))
  BY <1>1, PutKept
<1>5. w = world => PlayersKept(world, w, None, None) /\ MonstersKept(world, w)
  BY DEF PlayersKept, MonstersKept
<1> QED BY <1>2, <1>3, <1>4, <1>5

LEMMA MonsterAiTickOutcome ==
    ASSUME OInv, IInv', NEW m \in Monster, NEW t, MonsterAiTick(m, t)
    PROVE  OInv'
<1>1. m \in DOMAIN world \intersect Monster /\ m \notin Player
  BY CombatAssumption DEF MonsterAiTick, Monsters
<1>2. PICK w \in Thoughts(world, m) : world' = w \/ world' = [w EXCEPT ![m].zone = FALSE]
  BY DEF MonsterAiTick
<1> DEFINE r == [w[m] EXCEPT !.zone = FALSE]
<1>3. w[m] \in MonsterState /\ m \in DOMAIN w
  BY <1>1, ThoughtsGood DEF OInv, IInv, Good, WorldOK
<1>4. r.spawn = w[m].spawn BY <1>3 DEF MonsterState
<1>5. world' = w \/ world' = Put(w, m, r) BY <1>2 DEF Put
<1> HIDE DEF r
<1>6. PlayersKept(world, w, None, None) /\ MonstersKept(world, w) BY <1>1, ThoughtsKept
<1>7. PlayersKept(w, Put(w, m, r), None, None) /\ MonstersKept(w, Put(w, m, r))
  BY <1>1, <1>3, <1>4, PutKept
<1>8. PlayersKept(world, world', None, None) /\ MonstersKept(world, world')
  BY <1>5, <1>6, <1>7, KeptTwice, MonstersTwice
<1>9. Fair(world') BY <1>8, KeptFair DEF OInv
<1> QED BY <1>8, <1>9, TimerOutcome DEF MonsterAiTick

-----------------------------------------------------------------------------
(* The combat tick: its beginning, the renewal and its end                 *)

\* The list is made of what the players are after.
LEMMA CombatTickOutcome ==
    ASSUME OInv, IInv', CombatTick
    PROVE  OInv'
<1>1. Base = stamp /\ Base' = stamp /\ stamp \in Nat
  BY IdleBase DEF CombatTick, Idle, OInv, IInv, RestOK, Base
<1>2. \A r : Held(r, stamp) /\ r.harmed \in Nat => Held(r, stamp + 1)
  BY <1>1, CombatAssumption DEF Held
<1>3. \A p \in DOMAIN world \intersect Player : world[p].harmed \in Nat
  BY DEF OInv, IInv, Good, WorldOK, PlayerState
<1>4. world' = world /\ stamp' = stamp + 1 /\ now' = stamp + 1 /\ respawnAt' = respawnAt
      /\ phase' = "players" /\ fights' = FightsOf(world, Players)
  BY DEF CombatTick
<1>5. Fair(world)' BY <1>1, <1>2, <1>3, <1>4 DEF Fair, Shows, Held, OInv
<1>6. ListOK' BY <1>4 DEF ListOK, FightsOf, Players
<1>7. ClockHigh' BY <1>1, <1>4, CombatAssumption DEF ClockHigh
<1>8. Single(world, respawnAt)' BY <1>4 DEF OInv, Single
<1> QED BY <1>5, <1>6, <1>7, <1>8 DEF OInv

\* A renewed lock is one whose swords were shown: it was never near its end.
LEMMA RenewLocksOutcome ==
    ASSUME OInv, IInv', RenewLocks
    PROVE  OInv'
<1> DEFINE longer(p) == [world[p] EXCEPT !.lock = now + Lock]
           w == Renewed
           unlocked(p) == [w[p] EXCEPT !.lock = 0]
           v(p) == [w EXCEPT ![p].lock = 0]
           r(p) == [unlocked(p) EXCEPT !.icons = Mask(v(p), p, now), !.told = TRUE]
<1>1. /\ now = stamp /\ stamp \in Nat /\ stamp >= 1
      /\ Base = stamp - 1 /\ Bound = stamp + Lock - Skew - 1
  BY CombatAssumption DEF RenewLocks, OInv, IInv, RestOK, ClockOK, ClockHigh, Base, Bound
<1>2. \A p \in Players : world[p] \in PlayerState BY DEF OInv, IInv, Good, WorldOK, Players
<1>3. \A p \in Players :
        /\ longer(p) \in PlayerState /\ longer(p).lock = now + Lock
        /\ longer(p).zone = world[p].zone /\ longer(p).icons = world[p].icons
        /\ longer(p).told = world[p].told /\ longer(p).harmed = world[p].harmed
  BY <1>1, <1>2, CombatAssumption DEF PlayerState
<1>4. \A p \in Players : Locked(world, p, now)[p] =
          IF world[p].attacking \in Players THEN longer(p) ELSE world[p]
  BY DEF Locked, Players
<1>5. /\ DOMAIN w = DOMAIN world
      /\ \A p \in Players : w[p] = IF world[p].attacking \in Players THEN longer(p) ELSE world[p]
      /\ \A c \in DOMAIN world : c \notin Player => w[c] = world[c]
  BY <1>4 DEF Renewed, Players
<1> HIDE DEF longer, w
<1>6. \A p \in Players : world[p].attacking \in Players => world[p].lock >= Bound
  BY DEF OInv, IInv, Good, LockedUntil, Players
<1>7. ASSUME NEW p \in Players
      PROVE  /\ w[p] \in PlayerState /\ Held(w[p], stamp)
             /\ w[p].lock = 0 \/ w[p].lock > stamp - 1
             /\ w[p].told => /\ ("pigeon" \in w[p].icons) = w[p].zone
                             /\ "swords" \in w[p].icons => w[p].lock > stamp - 1
                             /\ w[p].lock > stamp + Skew => "swords" \in w[p].icons
  <2>1. Shows(world[p], stamp - 1) /\ Held(world[p], stamp)
    BY <1>1 DEF OInv, Fair, Players
  <2>2. world[p].lock \in Nat /\ world[p].harmed \in Nat BY <1>2 DEF PlayerState
  <2>3. CASE w[p] = world[p]
    BY <1>1, <1>2, <2>1, <2>2, <2>3, CombatAssumption DEF Shows
  <2>4. CASE w[p] = longer(p) /\ world[p].attacking \in Players
    <3>1. world[p].lock >= stamp + Lock - Skew - 1 BY <1>1, <1>6, <2>4
    <3>2. world[p].told => "swords" \in world[p].icons
      BY <1>1, <2>1, <2>2, <3>1, CombatAssumption DEF Shows
    <3>3. Held(w[p], stamp)
      BY <1>1, <1>3, <2>1, <2>2, <2>4, CombatAssumption DEF Held
    <3>4. w[p].lock = stamp + Lock BY <1>1, <1>3, <2>4
    <3> QED BY <1>1, <1>3, <2>1, <2>4, <3>2, <3>3, <3>4, CombatAssumption DEF Shows
  <2> QED BY <1>5, <2>3, <2>4
<1>8. \A p \in Players :
        /\ r(p).lock = 0 /\ r(p).zone = w[p].zone /\ r(p).harmed = w[p].harmed
        /\ r(p).icons = Mask(v(p), p, now)
  <2>1. \A p \in Players : unlocked(p) \in PlayerState /\ unlocked(p).lock = 0
          /\ unlocked(p).zone = w[p].zone /\ unlocked(p).harmed = w[p].harmed
    BY <1>7 DEF PlayerState
  <2> HIDE DEF unlocked
  <2> QED BY <2>1 DEF PlayerState
<1>9. \A p \in Players : v(p)[p].lock = 0 /\ v(p)[p].zone = w[p].zone
  BY <1>5, <1>7 DEF Players, PlayerState
<1>10. \A p \in Players :
        /\ ("pigeon" \in Mask(v(p), p, now)) <=> w[p].zone
        /\ "swords" \notin Mask(v(p), p, now)
  BY <1>1, <1>9 DEF Mask
<1>11. /\ DOMAIN Expired(w) = DOMAIN w
       /\ \A c \in DOMAIN w : Expired(w)[c] = IF c \in Over(w) THEN r(c) ELSE w[c]
  BY DEF Expired, IconsShown
<1>12. DOMAIN w \intersect Player = Players /\ Player \intersect Monster = {}
  BY <1>5, CombatAssumption DEF Players
<1> HIDE DEF r, v, unlocked
<1>13. ASSUME NEW p \in Players
       PROVE  Shows(Expired(w)[p], stamp) /\ Held(Expired(w)[p], stamp)
  <2>1. w[p].lock \in Nat /\ w[p].harmed \in Nat /\ w[p].zone \in BOOLEAN
    BY <1>7 DEF PlayerState
  <2>2. CASE p \in Over(w)
    <3>1. Expired(w)[p] = r(p) BY <1>11, <2>2 DEF Over
    <3>2. w[p].lock <= stamp BY <1>1, <2>1, <2>2 DEF Over
    <3>3. Held(r(p), stamp) BY <1>1, <1>7, <1>8, <2>1, <3>2, CombatAssumption DEF Held
    <3>4. ("pigeon" \in r(p).icons) = r(p).zone BY <1>8, <1>10, <2>1
    <3>5. Shows(r(p), stamp)
      BY <1>1, <1>8, <1>10, <3>4, CombatAssumption DEF Shows
    <3> QED BY <3>1, <3>3, <3>5
  <2>3. CASE p \notin Over(w)
    <3>1. Expired(w)[p] = w[p] BY <1>11, <1>12, <2>3
    <3>2. w[p].lock = 0 \/ w[p].lock > stamp BY <1>1, <1>12, <2>1, <2>3 DEF Over
    <3> QED BY <1>1, <1>7, <2>1, <3>1, <3>2 DEF Shows
  <2> QED BY <2>2, <2>3
<1>14. PICK R \in SUBSET Over(w) : world' = Without(Expired(w), R) BY DEF RenewLocks, w
<1>15. R \subseteq Player BY <1>14 DEF Over
<1>16. /\ PlayersKept(Expired(w), world', None, None)
       /\ MonstersKept(Expired(w), world')
  BY <1>14, <1>15, WithoutKept
<1>17. MonstersKept(world, Expired(w))
  BY <1>5, <1>11, <1>12 DEF MonstersKept, Over
<1>18. phase' = "monsters" /\ UNCHANGED <<respawnAt, now, stamp>> BY DEF RenewLocks
<1>19. Base' = stamp BY <1>1, <1>18 DEF Base
<1>20. \A p \in DOMAIN Expired(w) \intersect Player :
           Shows(Expired(w)[p], stamp) /\ Held(Expired(w)[p], stamp)
  BY <1>11, <1>12, <1>13
<1>21. \A p \in DOMAIN world' \intersect Player :
           Shows(world'[p], stamp) /\ Held(world'[p], stamp)
  BY <1>16, <1>20 DEF PlayersKept, Shows, Held
<1>22. Fair(world)' BY <1>18, <1>19, <1>21 DEF Fair, Shows, Held
<1>23. Single(world, respawnAt)'
  BY <1>16, <1>17, <1>18, MonstersTwice, KeptSingle DEF OInv, Single
<1>24. ListOK' /\ ClockHigh' BY <1>18 DEF ListOK, ClockHigh, OInv
<1> QED BY <1>22, <1>23, <1>24 DEF OInv

LEMMA TickEndsOutcome ==
    ASSUME OInv, IInv', TickEnds
    PROVE  OInv'
<1>1. phase = "monsters" /\ phase' = "idle"
      /\ UNCHANGED <<world, respawnAt, now, stamp, fights>>
  BY DEF TickEnds
<1>2. Base' = Base BY <1>1 DEF Base
<1> QED BY <1>1, <1>2 DEF OInv, Fair, Shows, Held, Single, ListOK, ClockHigh

\* The plan is carried out: the spawn point had no monster, now it has this one.
LEMMA RespawnOutcome ==
    ASSUME OInv, IInv', NEW s \in Spawn, NEW m \in Monster, RespawnMonster(s, m)
    PROVE  OInv'
<1>1. /\ DOMAIN world' = DOMAIN world \union {m}
      /\ \A d \in DOMAIN world \union {m} :
             world'[d] = IF d = m THEN NewMonster(s, FALSE) ELSE world[d]
  BY DEF RespawnMonster, With
<1>2. phase = "monsters" /\ UNCHANGED <<now, stamp, phase, fights>> BY DEF RespawnMonster
<1>3. respawnAt[s] # 0 BY DEF RespawnMonster, Due
<1>4. respawnAt \in [Spawn -> Nat] /\ respawnAt' = [respawnAt EXCEPT ![s] = 0]
  BY DEF RespawnMonster, OInv, IInv, RestOK
<1>5. NewMonster(s, FALSE).spawn = s BY DEF NewMonster
<1>6. m \notin Player /\ m \notin DOMAIN world BY CombatAssumption DEF RespawnMonster, Fresh
<1>7. \A n \in DOMAIN world \intersect Monster : world[n].spawn # s
  BY <1>3 DEF OInv, Single
<1>8. Single(world', respawnAt')
  <2>1. \A z \in Spawn \ {s} : respawnAt'[z] = respawnAt[z] BY <1>4
  <2>2. respawnAt'[s] = 0 BY <1>4
  <2>3. \A n \in DOMAIN world' \intersect Monster :
          world'[n].spawn = IF n = m THEN s ELSE world[n].spawn
    BY <1>1, <1>5
  <2> QED BY <1>1, <1>6, <1>7, <2>1, <2>2, <2>3 DEF OInv, Single
<1>9. Base' = Base BY <1>2 DEF Base
<1>10. Fair(world)' BY <1>1, <1>2, <1>6, <1>9 DEF OInv, Fair, Shows, Held
<1>11. ListOK' /\ ClockHigh' BY <1>2 DEF OInv, ListOK, ClockHigh
<1> QED BY <1>8, <1>10, <1>11 DEF OInv, Single

-----------------------------------------------------------------------------
(* The fights of a tick                                                    *)

LEMMA PlayerHurtKept ==
    ASSUME NEW w, NEW t, Good(w, t), NEW a, NEW v \in DOMAIN w \intersect Player,
           NEW d \in Nat, NEW R \in SUBSET Player, NEW x \in PlayerHurt(w, a, v, d, R)
    PROVE  PlayersKept(w, x, a, v) /\ MonstersKept(w, x)
<1> DEFINE h == IF w[v].health <= d THEN 0 ELSE w[v].health - d
           r == [w[v] EXCEPT !.health = h]
           hurt == [w EXCEPT ![v].health = IF w[v].health <= d THEN 0 ELSE @ - d]
<1>1. w[v] \in PlayerState BY DEF Good, WorldOK
<1>2. h \in 0..PlayerHealth BY <1>1, CombatAssumption DEF PlayerState
<1>3. /\ r \in PlayerState /\ r.lock = w[v].lock /\ r.zone = w[v].zone
      /\ r.icons = w[v].icons /\ r.told = w[v].told /\ r.harmed = w[v].harmed
      /\ r.attacking = w[v].attacking
  BY <1>1, <1>2 DEF PlayerState
<1>4. hurt = Put(w, v, r) BY DEF Put
<1>5. v \notin Monster /\ Player \intersect Monster = {} BY CombatAssumption
<1> HIDE DEF r, hurt
<1>6. x \in {Without(hurt, R), Without(FightsCleared(hurt, v), R \union {v})}
  BY DEF PlayerHurt, hurt
<1>7. PlayersKept(w, hurt, a, v) /\ MonstersKept(w, hurt) BY <1>3, <1>4, <1>5, PutKept
<1>8. Good(hurt, t) BY <1>3, <1>4, FieldsGood
<1>9. CASE x = Without(hurt, R)
  BY <1>7, <1>9, WithoutKept, KeptTwice, MonstersTwice
<1>10. CASE x = Without(FightsCleared(hurt, v), R \union {v})
  <2> DEFINE C == R \union {v}
  <2>0. v \in C /\ C \intersect Monster = {} BY <1>5
  <2> HIDE DEF C
  <2>1. x = Without(FightsCleared(hurt, v), C) BY <1>10 DEF C
  <2>2. PlayersKept(hurt, x, a, v) /\ SpawnsKept(hurt, x) BY <1>8, <2>0, <2>1, ClearedKept
  <2>3. DOMAIN x = DOMAIN hurt \ C BY <1>8, <2>0, <2>1, ClearedKept
  <2>4. MonstersKept(hurt, x) BY <2>0, <2>2, <2>3 DEF MonstersKept, SpawnsKept
  <2> QED BY <1>7, <2>2, <2>4, KeptTwice, MonstersTwice
<1> QED BY <1>6, <1>9, <1>10

LEMMA MonsterHurtKept ==
    ASSUME NEW w, NEW t, Good(w, t), NEW a, NEW b, NEW c,
           NEW m \in DOMAIN w \intersect Monster, NEW d \in Nat
    PROVE  PlayersKept(w, MonsterHurt(w, a, m, d), b, c) /\ MonstersKept(w, MonsterHurt(w, a, m, d))
<1> DEFINE r == [w[m] EXCEPT !.health = w[m].health - d]
           s == [r EXCEPT !.attacking = a, !.lastAttack = 0]
           hurt == [w EXCEPT ![m].health = @ - d]
<1>1. w[m] \in MonsterState /\ m \notin Player BY CombatAssumption DEF Good, WorldOK
<1>2. r.spawn = w[m].spawn /\ DOMAIN r = DOMAIN w[m] BY <1>1 DEF MonsterState
<1>3. s.spawn = w[m].spawn BY <1>1 DEF MonsterState
<1>4. hurt = Put(w, m, r) /\ hurt[m] = r BY DEF Put
<1>5. [hurt EXCEPT ![m].attacking = a, ![m].lastAttack = 0] = Put(w, m, s)
  BY <1>4 DEF Put
<1>6. MonsterHurt(w, a, m, d) \in {Put(w, m, r), Put(w, m, s)}
  BY <1>4, <1>5 DEF MonsterHurt
<1> HIDE DEF r, s, hurt
<1> QED BY <1>1, <1>2, <1>3, <1>6, PutKept

LEMMA StoppedKept ==
    ASSUME NEW w, NEW t, Good(w, t), NEW a \in Creature, NEW c
    PROVE  PlayersKept(w, Stopped(w, a), a, c) /\ MonstersKept(w, Stopped(w, a))
<1> DEFINE r == [w[a] EXCEPT !.attacking = None]
<1>1. Stopped(w, a) = Put(w, a, r) BY DEF Stopped, Put
<1>2. CASE a \notin DOMAIN w
  <2>1. DOMAIN Put(w, a, r) = DOMAIN w /\ \A d \in DOMAIN w : Put(w, a, r)[d] = w[d]
    BY <1>2 DEF Put
  <2> QED BY <1>1, <2>1 DEF PlayersKept, MonstersKept
<1>3. CASE a \in DOMAIN w /\ a \in Player
  <2>1. w[a] \in PlayerState /\ a \notin Monster BY <1>3, CombatAssumption DEF Good, WorldOK
  <2>2. /\ r.lock = w[a].lock /\ r.zone = w[a].zone /\ r.icons = w[a].icons
        /\ r.told = w[a].told /\ r.harmed = w[a].harmed /\ r.health = w[a].health
    BY <2>1 DEF PlayerState
  <2> HIDE DEF r
  <2> QED BY <1>1, <1>3, <2>1, <2>2, PutKept
<1>4. CASE a \in DOMAIN w /\ a \in Monster
  <2>1. w[a] \in MonsterState /\ a \notin Player BY <1>4, CombatAssumption DEF Good, WorldOK
  <2>2. r.spawn = w[a].spawn BY <2>1 DEF MonsterState
  <2> HIDE DEF r
  <2> QED BY <1>1, <1>4, <2>1, <2>2, PutKept
<1> QED BY <1>2, <1>3, <1>4 DEF Creature

\* A fight of a's that leaves everyone else's target alone.
LEMMA FightStep ==
    ASSUME OInv, IInv', NEW a, NEW c, phase = "players", <<a, c>> \in fights,
           fights' = fights \ {<<a, c>>}, UNCHANGED <<now, stamp, phase>>,
           Fair(world'), Single(world', respawnAt'), DOMAIN world' \subseteq DOMAIN world,
           \A p \in DOMAIN world' \intersect Player : p # a =>
               \/ world'[p].attacking = world[p].attacking
               \/ world[p].attacking \notin DOMAIN world'
    PROVE  OInv'
<1>1. Base' = Base BY DEF Base
<1>2. Fair(world)' BY <1>1 DEF Fair, Shows, Held
<1>3. ListOK'
  <2> SUFFICES ASSUME NEW b, NEW d, <<b, d>> \in fights', b \in DOMAIN world', d \in DOMAIN world'
               PROVE  b \in Player /\ world'[b].attacking = d
    BY DEF OInv, ListOK
  <2>1. b # a BY DEF OInv, ListOK
  <2>2. b \in Player /\ world[b].attacking = d BY DEF OInv, ListOK
  <2> QED BY <2>1, <2>2
<1>4. ClockHigh' BY DEF OInv, ClockHigh
<1> QED BY <1>2, <1>3, <1>4 DEF OInv, Single

\* The monster dies: its spawn point had no plan, and has one now.
LEMMA MonsterDiesSingle ==
    ASSUME OInv, NEW m \in DOMAIN world \intersect Monster, NEW w, Good(w, Bound),
           MonstersKept(world, w), MonsterDies(m, w), NEW a, NEW c
    PROVE  PlayersKept(w, world', a, c) /\ Single(world', respawnAt')
<1>1. /\ PlayersKept(w, world', a, c)
      /\ DOMAIN world' = DOMAIN w \ {m}
      /\ \A n \in (DOMAIN w \ {m}) \intersect Monster : world'[n].spawn = w[n].spawn
  <2> DEFINE C == {m}
  <2>1. world' = Without(FightsCleared(w, m), C) /\ m \in C BY DEF MonsterDies
  <2>2. DOMAIN w \ {m} = DOMAIN w \ C OBVIOUS
  <2> HIDE DEF C
  <2>3. PlayersKept(w, world', a, c) /\ SpawnsKept(w, world') BY <2>1, ClearedKept
  <2>4. DOMAIN world' = DOMAIN w \ C BY <2>1, ClearedKept
  <2> QED BY <2>2, <2>3, <2>4 DEF SpawnsKept
<1>2. now \in Nat /\ now + Respawn # 0 BY CombatAssumption DEF OInv, IInv, RestOK
<1>3. respawnAt \in [Spawn -> Nat] BY DEF OInv, IInv, RestOK
<1>4. \A n \in DOMAIN world' \intersect Monster :
          n # m /\ n \in DOMAIN world /\ world'[n].spawn = world[n].spawn
  BY <1>1 DEF MonstersKept
<1>5. \A n \in DOMAIN world \intersect Monster : n # m => n \in DOMAIN world'
  BY <1>1 DEF MonstersKept
<1>6. Single(world, respawnAt) BY DEF OInv
<1>7. CASE world[m].spawn = None
  <2>1. respawnAt' = respawnAt /\ None \notin Spawn
    BY <1>7, CombatAssumption DEF MonsterDies
  <2> QED BY <1>1, <1>4, <1>5, <1>6, <1>7, <2>1 DEF Single
<1>8. CASE world[m].spawn # None
  <2> DEFINE z == world[m].spawn
  <2>1. z \in Spawn BY <1>8 DEF OInv, IInv, Good, WorldOK, MonsterState
  <2>2. respawnAt' = [respawnAt EXCEPT ![z] = now + Respawn] BY <1>8 DEF MonsterDies
  <2>3. respawnAt'[z] # 0 /\ \A s \in Spawn \ {z} : respawnAt'[s] = respawnAt[s]
    BY <1>2, <1>3, <2>1, <2>2
  <2>4. respawnAt[z] = 0 BY <1>6, <2>1 DEF Single
  <2>5. \A n \in DOMAIN world \intersect Monster : world[n].spawn = z => n = m
    BY <1>6, <2>1, <2>4 DEF Single
  <2>6. \A n \in DOMAIN world' \intersect Monster : world'[n].spawn # z
    BY <1>4, <2>5
  <2>7. \A s \in Spawn \ {z} :
          /\ respawnAt'[s] = 0 => \E n \in DOMAIN world' \intersect Monster :
                 /\ world'[n].spawn = s
                 /\ \A k \in DOMAIN world' \intersect Monster : world'[k].spawn = s => k = n
          /\ respawnAt'[s] # 0 => \A n \in DOMAIN world' \intersect Monster : world'[n].spawn # s
    <3> TAKE s \in Spawn \ {z}
    <3>1. CASE respawnAt[s] = 0
      <4>1. PICK n \in DOMAIN world \intersect Monster :
              /\ world[n].spawn = s
              /\ \A k \in DOMAIN world \intersect Monster : world[k].spawn = s => k = n
        BY <1>6, <3>1 DEF Single
      <4>2. n # m /\ n \in DOMAIN world' BY <1>5, <4>1
      <4> QED BY <1>4, <2>3, <3>1, <4>1, <4>2
    <3>2. CASE respawnAt[s] # 0
      BY <1>4, <1>6, <2>3, <3>2 DEF Single
    <3> QED BY <3>1, <3>2
  <2> QED BY <1>1, <2>3, <2>6, <2>7 DEF Single
<1> QED BY <1>7, <1>8

\* What a player's swing from u makes of the world, where u is the world but for a.
LEMMA SwingFrom ==
    ASSUME NEW a, NEW c, NEW u, DOMAIN u = DOMAIN world, Fair(u),
           \A p \in DOMAIN world : p # a => u[p] = world[p],
           PlayersKept(u, world', a, c)
    PROVE  /\ Fair(world') /\ DOMAIN world' \subseteq DOMAIN world
           /\ \A p \in DOMAIN world' \intersect Player :
               /\ p # a => \/ world'[p].attacking = world[p].attacking
                           \/ world[p].attacking \notin DOMAIN world'
               /\ p # a /\ p # c => /\ world'[p].health = world[p].health
                                    /\ world'[p].harmed = world[p].harmed
<1>1. Fair(world') BY KeptFair
<1>2. \A p \in DOMAIN world' \intersect Player : p # a => u[p] = world[p]
  BY DEF PlayersKept
<1> QED BY <1>1, <1>2 DEF PlayersKept

\* Whoever strikes a player is locked as a fighter, so its blow finds it locked.
LEMMA PlayerSwingOutcome ==
    ASSUME OInv, phase = "players", NEW a \in DOMAIN world \intersect Player,
           NEW c \in DOMAIN world, world[a].attacking = c,
           PlayerSwing([world EXCEPT ![a].lastAttack = now], a, c)
    PROVE  /\ Fair(world') /\ DOMAIN world' \subseteq DOMAIN world
           /\ \A p \in DOMAIN world' \intersect Player :
               /\ p # a => \/ world'[p].attacking = world[p].attacking
                           \/ world[p].attacking \notin DOMAIN world'
               /\ p # a /\ p # c => /\ world'[p].health = world[p].health
                                    /\ world'[p].harmed = world[p].harmed
           /\ Single(world', respawnAt')
<1> DEFINE r == [world[a] EXCEPT !.lastAttack = now]
           w == [world EXCEPT ![a].lastAttack = now]
           s == [r EXCEPT !.harmed = now]
           v == [w EXCEPT ![a].harmed = now]
<1>1. world[a] \in PlayerState /\ Held(world[a], stamp) /\ Shows(world[a], Base)
  BY PlayerFacts
<1>2. /\ now = stamp /\ stamp \in Nat /\ Bound = stamp + Lock - Skew - 1
  BY CombatAssumption DEF OInv, IInv, RestOK, ClockOK, Bound
<1>3. /\ r \in PlayerState /\ r.lock = world[a].lock /\ r.zone = world[a].zone
      /\ r.icons = world[a].icons /\ r.told = world[a].told /\ r.harmed = world[a].harmed
      /\ r.attacking = world[a].attacking /\ r.health = world[a].health
  BY <1>1, <1>2 DEF PlayerState
<1>4. w = Put(world, a, r) /\ a \notin Monster BY CombatAssumption DEF Put
<1> HIDE DEF r
<1>5. /\ s \in PlayerState /\ s.lock = r.lock /\ s.zone = r.zone /\ s.icons = r.icons
      /\ s.told = r.told /\ s.harmed = now /\ s.attacking = r.attacking
  BY <1>2, <1>3 DEF PlayerState
<1>6. w[a] = r /\ DOMAIN w = DOMAIN world BY <1>4 DEF Put
<1>7. v = Put(w, a, s) BY <1>6 DEF Put
<1>8. DOMAIN v = DOMAIN world /\ v[a] = s BY <1>6, <1>7 DEF Put
<1>9. \A p \in DOMAIN world : p # a => w[p] = world[p] /\ v[p] = world[p]
  BY <1>4, <1>6, <1>7 DEF Put
<1>10. PICK R \in SUBSET (DOMAIN w \intersect Player), d \in 0..MaxBlow :
        \/ world' = Without(w, R) /\ UNCHANGED respawnAt
        \/ /\ c \in Player
           /\ world' \in PlayerHurt(v, a, c, d, R)
           /\ UNCHANGED respawnAt
        \/ /\ c \in Monster /\ d < w[c].health
           /\ world' = Without(MonsterHurt(w, a, c, d), R)
           /\ UNCHANGED respawnAt
        \/ /\ c \in Monster /\ d >= w[c].health
           /\ MonsterDies(c, Without(w, R))
  BY DEF PlayerSwing
<1> HIDE DEF s, w, v
<1>11. d \in Nat /\ R \in SUBSET Player BY CombatAssumption DEF MaxBlow
<1>12. PlayersKept(world, w, a, c) /\ MonstersKept(world, w)
  BY <1>3, <1>4, PutKept
<1>13. Fair(w) BY <1>12, KeptFair DEF OInv
<1>14. Good(w, Bound) BY <1>3, <1>4, FieldsGood DEF OInv, IInv
<1>15. Single(world, respawnAt) BY DEF OInv
<1>16. CASE world' = Without(w, R) /\ UNCHANGED respawnAt
  <2>1. PlayersKept(w, world', a, c) /\ MonstersKept(w, world') BY <1>11, <1>16, WithoutKept
  <2>2. Single(world', respawnAt') BY <1>12, <1>15, <1>16, <2>1, MonstersTwice, KeptSingle
  <2> QED BY <1>6, <1>9, <1>13, <2>1, <2>2, SwingFrom
<1>17. CASE /\ c \in Player
            /\ world' \in PlayerHurt(v, a, c, d, R)
            /\ UNCHANGED respawnAt
  <2>1. world[a].lock >= Bound BY <1>17 DEF OInv, IInv, Good, LockedUntil
  <2>2. Held(s, stamp) /\ Shows(s, Base)
    BY <1>1, <1>2, <1>3, <1>5, <2>1, CombatAssumption DEF Held, Shows
  <2>3. Fair(v) BY <1>8, <1>9, <2>2 DEF Fair, OInv
  <2>4. Good(v, Bound) BY <1>5, <1>6, <1>7, <1>14, FieldsGood
  <2>5. c \in DOMAIN v \intersect Player BY <1>8, <1>17
  <2>6. PlayersKept(v, world', a, c) /\ MonstersKept(v, world')
    BY <1>11, <1>17, <2>4, <2>5, PlayerHurtKept
  <2>7. MonstersKept(world, v) BY <1>4, <1>8, <1>9 DEF MonstersKept
  <2>8. Single(world', respawnAt') BY <1>15, <1>17, <2>6, <2>7, MonstersTwice, KeptSingle
  <2> QED BY <1>8, <1>9, <2>3, <2>6, <2>8, SwingFrom
<1>18. CASE /\ c \in Monster /\ d < w[c].health
            /\ world' = Without(MonsterHurt(w, a, c, d), R)
            /\ UNCHANGED respawnAt
  <2> DEFINE x == MonsterHurt(w, a, c, d)
  <2>1. c \in DOMAIN w \intersect Monster BY <1>6, <1>18
  <2>2. PlayersKept(w, x, a, c) /\ MonstersKept(w, x) BY <1>11, <1>14, <2>1, MonsterHurtKept
  <2>3. world' = Without(x, R) BY <1>18
  <2> HIDE DEF x
  <2>4. PlayersKept(x, world', a, c) /\ MonstersKept(x, world') BY <1>11, <2>3, WithoutKept
  <2>5. PlayersKept(w, world', a, c) /\ MonstersKept(w, world')
    BY <2>2, <2>4, KeptTwice, MonstersTwice
  <2>6. Single(world', respawnAt') BY <1>12, <1>15, <1>18, <2>5, MonstersTwice, KeptSingle
  <2> QED BY <1>6, <1>9, <1>13, <2>5, <2>6, SwingFrom
<1>19. CASE /\ c \in Monster /\ d >= w[c].health
            /\ MonsterDies(c, Without(w, R))
  <2> DEFINE x == Without(w, R)
  <2>1. PlayersKept(w, x, a, c) /\ MonstersKept(w, x) BY <1>11, WithoutKept
  <2>2. Good(x, Bound) BY <1>14, WithoutGood
  <2>3. MonsterDies(c, x) BY <1>19
  <2> HIDE DEF x
  <2>4. MonstersKept(world, x) BY <1>12, <2>1, MonstersTwice
  <2>5. PlayersKept(x, world', a, c) /\ Single(world', respawnAt')
    BY <1>19, <2>2, <2>3, <2>4, MonsterDiesSingle
  <2>6. PlayersKept(w, world', a, c) BY <2>1, <2>5, KeptTwice
  <2> QED BY <1>6, <1>9, <1>13, <2>5, <2>6, SwingFrom
<1> QED BY <1>10, <1>16, <1>17, <1>18, <1>19

LEMMA PlayerFightOutcome ==
    ASSUME OInv, IInv', NEW a \in Player, NEW c \in Creature, PlayerFight(a, c)
    PROVE  OInv'
<1>1. phase = "players" /\ <<a, c>> \in fights /\ fights' = fights \ {<<a, c>>}
      /\ UNCHANGED <<now, stamp, phase>>
  BY DEF PlayerFight
<1>2. CASE world' \in {world, Stopped(world, a)} /\ UNCHANGED respawnAt
  <2>1. PlayersKept(world, Stopped(world, a), a, c) /\ MonstersKept(world, Stopped(world, a))
    BY StoppedKept DEF OInv, IInv, Creature
  <2>2. PlayersKept(world, world, a, c) /\ MonstersKept(world, world)
    BY DEF PlayersKept, MonstersKept
  <2>3. PlayersKept(world, world', a, c) /\ MonstersKept(world, world')
    BY <1>2, <2>1, <2>2
  <2>4. Fair(world') /\ Single(world', respawnAt')
    BY <1>2, <2>3, KeptFair, KeptSingle DEF OInv
  <2> QED BY <1>1, <2>3, <2>4, FightStep DEF PlayersKept
<1>3. CASE /\ {a, c} \subseteq DOMAIN world
           /\ PlayerSwing([world EXCEPT ![a].lastAttack = now], a, c)
  <2>1. a \in DOMAIN world \intersect Player /\ c \in DOMAIN world BY <1>3
  <2>2. world[a].attacking = c BY <1>1, <2>1 DEF OInv, ListOK
  <2> QED BY <1>1, <1>3, <2>1, <2>2, PlayerSwingOutcome, FightStep
<1> QED BY <1>2, <1>3 DEF PlayerFight

\* The blow of a monster hurts its target alone, and not one in a zone.
LEMMA MonsterFightKept ==
    ASSUME OInv, NEW m \in Monster, NEW c \in Player, MonsterFight(m, c)
    PROVE  /\ PlayersKept(world, world', m, c) /\ MonstersKept(world, world')
           /\ c \in DOMAIN world /\ world[c].zone => PlayersKept(world, world', m, None)
<1> DEFINE calm == [[world[m] EXCEPT !.attacking = None] EXCEPT !.chasing = None]
           struck == [world[m] EXCEPT !.lastAttack = now]
           w == [world EXCEPT ![m].lastAttack = now]
<1>1. m \in DOMAIN world => world[m] \in MonsterState
  BY DEF OInv, IInv, Good, WorldOK
<1>2. m \in DOMAIN world => /\ calm.spawn = world[m].spawn
                            /\ struck \in MonsterState /\ struck.spawn = world[m].spawn
  BY <1>1 DEF MonsterState, OInv, IInv, RestOK
<1>3. [Stopped(world, m) EXCEPT ![m].chasing = None] = Put(world, m, calm)
  BY DEF Stopped, Put
<1>4. w = Put(world, m, struck) /\ DOMAIN w = DOMAIN world BY DEF Put
<1>5. \/ world' \in {world, Stopped(world, m)}
      \/ world' = Put(world, m, calm)
      \/ /\ c \in DOMAIN world /\ ~world[c].zone
         /\ \E R \in SUBSET Players, d \in 0..MaxBlow : world' \in PlayerHurt(w, m, c, d, R)
  BY <1>3 DEF MonsterFight, Sheltered
<1> HIDE DEF calm, struck, w
<1>6. m \notin Player BY CombatAssumption
<1>7. ASSUME NEW r, m \in DOMAIN world => r.spawn = world[m].spawn, NEW b
      PROVE  PlayersKept(world, Put(world, m, r), m, b) /\ MonstersKept(world, Put(world, m, r))
  <2>1. CASE m \in DOMAIN world BY <1>6, <1>7, <2>1, PutKept
  <2>2. CASE m \notin DOMAIN world
    <3>1. DOMAIN Put(world, m, r) = DOMAIN world
          /\ \A d \in DOMAIN world : Put(world, m, r)[d] = world[d]
      BY <2>2 DEF Put
    <3> QED BY <3>1 DEF PlayersKept, MonstersKept
  <2> QED BY <2>1, <2>2
<1>8. \A b : PlayersKept(world, Stopped(world, m), m, b) /\ MonstersKept(world, Stopped(world, m))
  BY StoppedKept DEF OInv, IInv, Creature
<1>9. \A b : PlayersKept(world, world, m, b) /\ MonstersKept(world, world)
  BY DEF PlayersKept, MonstersKept
<1>10. \A b : PlayersKept(world, Put(world, m, calm), m, b) /\ MonstersKept(world, Put(world, m, calm))
  BY <1>2, <1>7
<1>11. CASE \/ world' \in {world, Stopped(world, m)}
            \/ world' = Put(world, m, calm)
  BY <1>8, <1>9, <1>10, <1>11
<1>12. ASSUME c \in DOMAIN world, ~world[c].zone, NEW R \in SUBSET Players, NEW d \in 0..MaxBlow,
              world' \in PlayerHurt(w, m, c, d, R)
       PROVE  PlayersKept(world, world', m, c) /\ MonstersKept(world, world')
  <2>1. PlayersKept(world, w, m, c) /\ MonstersKept(world, w) BY <1>2, <1>4, <1>7
  <2>2. Good(w, Bound) BY <1>2, <1>4, AbsentGood, MonsterGood DEF OInv, IInv
  <2>3. d \in Nat /\ R \in SUBSET Player /\ c \in DOMAIN w \intersect Player
    BY <1>4, <1>12, CombatAssumption DEF MaxBlow, Players
  <2>4. PlayersKept(w, world', m, c) /\ MonstersKept(w, world')
    BY <1>12, <2>2, <2>3, PlayerHurtKept
  <2> QED BY <2>1, <2>4, KeptTwice, MonstersTwice
<1> QED BY <1>5, <1>11, <1>12

LEMMA MonsterFightOutcome ==
    ASSUME OInv, IInv', NEW m \in Monster, NEW c \in Player, MonsterFight(m, c)
    PROVE  OInv'
<1>1. phase = "monsters" /\ UNCHANGED <<respawnAt, now, stamp, phase>> BY DEF MonsterFight
<1>2. Fair(world') /\ MonstersKept(world, world') BY MonsterFightKept, KeptFair DEF OInv
<1>3. Base' = Base BY <1>1 DEF Base
<1>4. now' <= stamp + Skew BY <1>1 DEF OInv, ClockHigh
<1> QED BY <1>1, <1>2, <1>3, <1>4, QuietStep

-----------------------------------------------------------------------------
(* The invariant                                                           *)

\* Each spawn point starts with the one monster the injection gives it.
LEMMA InitOutcome == Init => OInv
<1> SUFFICES ASSUME Init PROVE OInv
  OBVIOUS
<1>1. PICK first \in Injection(Spawn, Monster \ Summoned) :
          world = [m \in Range(first) |->
                      NewMonster(CHOOSE s \in Spawn : first[s] = m, FALSE)]
  BY DEF Init
<1>2. first \in [Spawn -> Monster \ Summoned]
      /\ \A s, z \in Spawn : first[s] = first[z] => s = z
  BY DEF Injection, IsInjective
<1>3. Range(first) = {first[s] : s \in Spawn} BY <1>2 DEF Range
<1>4. \A s \in Spawn : (CHOOSE z \in Spawn : first[z] = first[s]) = s BY <1>2
<1>5. /\ DOMAIN world = {first[s] : s \in Spawn}
      /\ \A s \in Spawn : world[first[s]] = NewMonster(s, FALSE)
  BY <1>1, <1>3, <1>4
<1>6. \A s : NewMonster(s, FALSE).spawn = s BY DEF NewMonster
<1>7. DOMAIN world \intersect Player = {} BY <1>2, <1>5, CombatAssumption
<1>8. Fair(world) BY <1>7 DEF Fair
<1>9. respawnAt = [s \in Spawn |-> 0] /\ now = 0 /\ stamp = 0 /\ phase = "idle"
  BY DEF Init
<1>10. Single(world, respawnAt)
  <2> SUFFICES ASSUME NEW s \in Spawn
               PROVE  /\ respawnAt[s] = 0
                      /\ \E m \in DOMAIN world \intersect Monster :
                            /\ world[m].spawn = s
                            /\ \A n \in DOMAIN world \intersect Monster : world[n].spawn = s => n = m
    BY DEF Single
  <2>1. respawnAt[s] = 0 BY <1>9
  <2>2. first[s] \in DOMAIN world \intersect Monster /\ world[first[s]].spawn = s
    BY <1>2, <1>5, <1>6
  <2>3. ASSUME NEW n \in DOMAIN world, world[n].spawn = s PROVE n = first[s]
    <3>1. PICK z \in Spawn : n = first[z] BY <1>5, <2>3
    <3>2. world[n].spawn = z BY <1>5, <1>6, <3>1
    <3> QED BY <2>3, <3>1, <3>2
  <2> QED BY <2>1, <2>2, <2>3
<1>11. ListOK /\ ClockHigh BY <1>9, CombatAssumption DEF ListOK, ClockHigh
<1> QED BY <1>8, <1>10, <1>11, InitInv DEF OInv

LEMMA StepOutcome == OInv /\ [Next]_vars => OInv'
<1> SUFFICES ASSUME OInv, [Next]_vars PROVE OInv'
  OBVIOUS
<1>0. IInv' BY StepInv DEF OInv
<1>1. ASSUME NEW p \in Player,
             Login(p) \/ Logout(p) \/ ClearTarget(p) \/ Step(p) \/ Teleport(p)
      PROVE  OInv'
  BY <1>0, <1>1, LoginOutcome, LogoutOutcome, ClearTargetOutcome, CrossingOutcome
<1>2. ASSUME NEW p \in Player, NEW c \in Creature, SetTarget(p, c) \/ PlayerFight(p, c)
      PROVE  OInv'
  BY <1>0, <1>2, SetTargetOutcome, PlayerFightOutcome
<1>3. ASSUME NEW m \in Monster, Summon(m) \/ \E t \in 0..(stamp + Skew) : MonsterAiTick(m, t)
      PROVE  OInv'
  BY <1>0, <1>3, SummonOutcome, MonsterAiTickOutcome
<1>4. ASSUME \E t \in 0..(stamp + Skew), H \in SUBSET Player : RegenTick(t, H)
      PROVE  OInv'
  BY <1>0, <1>4, RegenTickOutcome
<1>5. CASE CombatTick \/ RenewLocks \/ TickEnds
  BY <1>0, <1>5, CombatTickOutcome, RenewLocksOutcome, TickEndsOutcome
<1>6. ASSUME NEW m \in Monster, NEW p \in Player, MonsterFight(m, p)
      PROVE  OInv'
  BY <1>0, <1>6, MonsterFightOutcome
<1>7. ASSUME NEW s \in Spawn, NEW m \in Monster, RespawnMonster(s, m)
      PROVE  OInv'
  BY <1>0, <1>7, RespawnOutcome
<1>8. CASE UNCHANGED vars
  <2>1. Base' = Base BY <1>8 DEF Base, vars
  <2> QED BY <1>0, <1>8, <2>1 DEF vars, OInv, Fair, Shows, Held, Single, ListOK, ClockHigh
<1> QED BY <1>1, <1>2, <1>3, <1>4, <1>5, <1>6, <1>7, <1>8 DEF Next

LEMMA AlwaysOInv == Spec => []OInv
  BY InitOutcome, StepOutcome, PTL DEF Spec

-----------------------------------------------------------------------------
(* What follows from it                                                    *)

\* A client's dove and swords are right between ticks, for any number of players and any
\* order of fights, deaths, crossings and logouts.
THEOREM IconsAreRight == Spec => []IconsRight
<1>1. OInv => IconsRight
  BY IdleBase DEF OInv, IconsRight, Idle, Fair, Shows, Players
<1> QED BY <1>1, AlwaysOInv, PTL

\* A spawn point never has two monsters, nor one and a plan, nor neither.
THEOREM SpawnsAreSingle == Spec => []SpawnsSingle
<1>1. OInv => SpawnsSingle
  <2> SUFFICES ASSUME OInv, NEW s \in Spawn
               PROVE  Cardinality({m \in Monsters : world[m].spawn = s})
                          = IF respawnAt[s] = 0 THEN 1 ELSE 0
    BY DEF SpawnsSingle
  <2> DEFINE here == {m \in Monsters : world[m].spawn = s}
  <2>1. CASE respawnAt[s] = 0
    <3>1. \E m : here = {m} BY <2>1 DEF OInv, Single, Monsters
    <3> HIDE DEF here
    <3>2. Cardinality(here) = 1 BY <3>1, FS_Singleton
    <3> QED BY <2>1, <3>2 DEF here
  <2>2. CASE respawnAt[s] # 0
    <3>1. here = {} BY <2>2 DEF OInv, Single, Monsters
    <3> HIDE DEF here
    <3>2. Cardinality(here) = 0 BY <3>1, FS_EmptySet
    <3> QED BY <2>2, <3>2 DEF here
  <2> QED BY <2>1, <2>2
<1> QED BY <1>1, AlwaysOInv, PTL

\* Nobody walks from its last blow into a zone before the lock time is over, give or take
\* a tick and the difference of the timers.
THEOREM EntrantsAreCalm == Spec => EntrantsCalm
<1> DEFINE Calm == \A p \in Players :
              Step(p) /\ ~world[p].zone /\ p \in DOMAIN world' /\ world[p].harmed > 0
                  => now - world[p].harmed >= Lock - 1 - 2 * Skew
<1>1. OInv => Calm
  <2> SUFFICES ASSUME OInv, NEW p \in Players, Step(p), ~world[p].zone, world[p].harmed > 0
               PROVE  now - world[p].harmed >= Lock - 1 - 2 * Skew
    OBVIOUS
  <2>1. world[p] \in PlayerState /\ Held(world[p], stamp) BY PlayerFacts DEF Players
  <2>2. world[p].lock <= now BY DEF Step
  <2>3. now \in Nat /\ stamp \in Nat /\ now >= stamp - Skew
    BY DEF OInv, IInv, RestOK, ClockOK
  <2>4. world[p].lock \in Nat /\ world[p].harmed \in Nat BY <2>1 DEF PlayerState
  <2> QED BY <2>1, <2>2, <2>3, <2>4, CombatAssumption DEF Held
<1> HIDE DEF Calm
<1>2. Spec => [][Calm]_vars BY <1>1, AlwaysOInv, PTL
<1> QED BY <1>2 DEF Calm, EntrantsCalm

-----------------------------------------------------------------------------
(* The peace of zones                                                      *)

\* Who is in a zone loses no health and strikes nobody in this step.
Peace == \A p \in Players : p \in DOMAIN world' /\ world[p].zone =>
             /\ world'[p].health >= world[p].health
             /\ world'[p].harmed = world[p].harmed

\* Players whose health and last blow a step leaves alone.
Spared(p) == world'[p].health = world[p].health /\ world'[p].harmed = world[p].harmed

LEMMA SparedPeace ==
    ASSUME OInv, \A p \in Players : p \in DOMAIN world' /\ world[p].zone => Spared(p)
    PROVE  Peace
<1>1. \A p \in Players : world[p].health \in Int
  BY DEF OInv, IInv, Good, WorldOK, Players, PlayerState
<1> QED BY <1>1 DEF Peace, Spared

LEMMA KeptPeace ==
    ASSUME OInv, NEW a, NEW c, PlayersKept(world, world', a, c),
           c \in Players => ~world[c].zone
    PROVE  Peace
<1>1. \A p \in Players : p \in DOMAIN world' /\ world[p].zone => Spared(p)
  BY DEF PlayersKept, Players, Spared
<1> QED BY <1>1, SparedPeace

\* A command that ends with icons.
LEMMA IconsPeace ==
    ASSUME OInv, NEW p \in DOMAIN world \intersect Player, NEW q \in PlayerState,
           q.health = world[p].health, q.harmed = world[p].harmed,
           world' \in IconsSent(Put(world, p, q), p, now)
    PROVE  Peace
<1> DEFINE w == Put(world, p, q)
           r == [q EXCEPT !.icons = Mask(w, p, now), !.told = TRUE]
<1>1. /\ DOMAIN w = DOMAIN world
      /\ \A d \in DOMAIN world : w[d] = IF d = p THEN q ELSE world[d]
  BY DEF Put
<1>2. r.health = q.health /\ r.harmed = q.harmed BY DEF PlayerState
<1> HIDE DEF w
<1>3. \A d \in DOMAIN world' : d \in DOMAIN world
          /\ (d # p => world'[d] = world[d]) /\ (d = p => world'[d] \in {q, r})
  <2>1. w[p] = q BY <1>1
  <2>2. CASE world' = Without(w, {p}) BY <1>1, <2>2 DEF Without, Restrict
  <2>3. CASE world' = IconsShown(w, p, now)
    <3>1. /\ DOMAIN world' = DOMAIN w
          /\ \A d \in DOMAIN w : world'[d] = IF d = p THEN r ELSE w[d]
      BY <1>1, <2>1, <2>3 DEF IconsShown
    <3> QED BY <1>1, <3>1
  <2> QED BY <2>2, <2>3 DEF IconsSent, w
<1> HIDE DEF r
<1>4. \A d \in Players : d \in DOMAIN world' => Spared(d) BY <1>2, <1>3 DEF Spared
<1> QED BY <1>4, SparedPeace

LEMMA CommandsPeace ==
    ASSUME OInv, NEW p \in Player,
           \/ Login(p) \/ Logout(p) \/ ClearTarget(p) \/ Step(p) \/ Teleport(p)
           \/ \E c \in Creature : SetTarget(p, c)
    PROVE  Peace
<1>1. CASE Login(p)
  <2>1. PICK h, z : world' = With(world, p, NewPlayer(h, z)) BY <1>1 DEF Login
  <2>2. p \notin DOMAIN world BY <1>1 DEF Login, Fresh
  <2>3. \A d \in Players : Spared(d) BY <2>1, <2>2 DEF With, Players, Spared
  <2> QED BY <2>3, SparedPeace
<1>2. CASE Logout(p)
  <2>1. PlayersKept(world, world', None, None) BY <1>2, WithoutKept DEF Logout
  <2> QED BY <2>1, KeptPeace, CombatAssumption DEF Players, Creature
<1>3. CASE ClearTarget(p)
  <2> DEFINE q == [world[p] EXCEPT !.attacking = None]
  <2>1. p \in DOMAIN world \intersect Player BY <1>3 DEF ClearTarget, Players
  <2>2. world[p] \in PlayerState BY <2>1, PlayerFacts
  <2>3. q \in PlayerState /\ q.health = world[p].health /\ q.harmed = world[p].harmed
    BY <2>2 DEF PlayerState
  <2>4. world' \in IconsSent(Put(world, p, q), p, now) BY <1>3 DEF ClearTarget, Put
  <2> HIDE DEF q
  <2> QED BY <2>1, <2>3, <2>4, IconsPeace
<1>4. CASE Step(p) \/ Teleport(p)
  <2> DEFINE q == [world[p] EXCEPT !.zone = ~@]
  <2>1. p \in DOMAIN world \intersect Player BY <1>4 DEF Step, Teleport, Players
  <2>2. world[p] \in PlayerState BY <2>1, PlayerFacts
  <2>3. q \in PlayerState /\ q.health = world[p].health /\ q.harmed = world[p].harmed
    BY <2>2 DEF PlayerState
  <2>4. world' \in IconsSent(Put(world, p, q), p, now) BY <1>4 DEF Step, Teleport, Put
  <2> HIDE DEF q
  <2> QED BY <2>1, <2>3, <2>4, IconsPeace
<1>5. ASSUME NEW c \in Creature, SetTarget(p, c) PROVE Peace
  <2> DEFINE w == [world EXCEPT ![p].attacking = c, ![p].lastAttack = 0]
             q == [world[p] EXCEPT !.attacking = c, !.lastAttack = 0]
             k == [q EXCEPT !.lock = now + Lock]
  <2>1. p \in DOMAIN world \intersect Player BY <1>5 DEF SetTarget, Players
  <2>2. world[p] \in PlayerState /\ now + Lock \in Nat
    BY <2>1, PlayerFacts, CombatAssumption DEF OInv, IInv, RestOK
  <2>3. q \in PlayerState /\ q.health = world[p].health /\ q.harmed = world[p].harmed
    BY <2>2 DEF PlayerState
  <2>4. k \in PlayerState /\ k.health = world[p].health /\ k.harmed = world[p].harmed
    <3> HIDE DEF q
    <3> QED BY <2>2, <2>3 DEF PlayerState
  <2>5. w = Put(world, p, q) BY DEF Put
  <2>6. Locked(w, p, now) \in {Put(world, p, q), Put(world, p, k)}
    BY <2>1, <2>5 DEF Locked, Put
  <2>7. world' \in IconsSent(Locked(w, p, now), p, now) BY <1>5 DEF SetTarget
  <2> HIDE DEF q, k, w
  <2> QED BY <2>1, <2>3, <2>4, <2>6, <2>7, IconsPeace
<1> QED BY <1>1, <1>2, <1>3, <1>4, <1>5

LEMMA TimersPeace ==
    ASSUME OInv,
           \/ \E m \in Monster : Summon(m) \/ \E t : MonsterAiTick(m, t)
           \/ \E t, H : RegenTick(t, H)
           \/ CombatTick \/ TickEnds
           \/ \E s \in Spawn, m \in Monster : RespawnMonster(s, m)
    PROVE  Peace
<1>0. Player \intersect Monster = {} BY CombatAssumption
<1>1. ASSUME NEW m \in Monster, NEW r, world' = With(world, m, r) PROVE Peace
  <2>1. \A p \in Players : Spared(p) BY <1>0, <1>1 DEF With, Players, Spared
  <2> QED BY <2>1, SparedPeace
<1>2. ASSUME NEW m \in Monster, NEW t, MonsterAiTick(m, t) PROVE Peace
  <2>1. m \in DOMAIN world \intersect Monster BY <1>2 DEF MonsterAiTick, Monsters
  <2>2. PICK w \in Thoughts(world, m) : world' = w \/ world' = [w EXCEPT ![m].zone = FALSE]
    BY <1>2 DEF MonsterAiTick
  <2>3. PlayersKept(world, w, None, None) BY <2>1, ThoughtsKept
  <2>4. \A p \in Players : p \in DOMAIN world' => p \in DOMAIN w /\ world'[p] = w[p]
    BY <1>0, <2>2 DEF Players
  <2>5. None \notin Players BY CombatAssumption DEF Players, Creature
  <2>6. \A p \in Players : p \in DOMAIN world' => Spared(p)
    BY <2>3, <2>4, <2>5 DEF PlayersKept, Players, Spared
  <2> QED BY <2>6, SparedPeace
<1>3. ASSUME NEW t, NEW H, RegenTick(t, H) PROVE Peace
  <2> DEFINE r(p) == [world[p] EXCEPT !.health = PlayerHealth]
  <2>1. \A p \in Players : world[p] \in PlayerState BY PlayerFacts DEF Players
  <2>2. \A p \in Players : r(p).health = PlayerHealth /\ r(p).harmed = world[p].harmed
                           /\ world[p].health \in 0..PlayerHealth
    BY <2>1 DEF PlayerState
  <2>3. \A p \in Players : world'[p] = IF p \in H THEN r(p) ELSE world[p]
    BY <1>3 DEF RegenTick, Players
  <2> HIDE DEF r
  <2> QED BY <2>2, <2>3, CombatAssumption DEF Peace
<1>4. CASE CombatTick \/ TickEnds
  <2>1. \A p \in Players : Spared(p) BY <1>4 DEF CombatTick, TickEnds, Spared
  <2> QED BY <2>1, SparedPeace
<1> QED BY <1>1, <1>2, <1>3, <1>4 DEF Summon, RespawnMonster

\* Locks change, and icons.
LEMMA RenewLocksPeace ==
    ASSUME OInv, RenewLocks
    PROVE  Peace
<1> DEFINE longer(p) == [world[p] EXCEPT !.lock = now + Lock]
           w == Renewed
           unlocked(p) == [w[p] EXCEPT !.lock = 0]
           v(p) == [w EXCEPT ![p].lock = 0]
           r(p) == [unlocked(p) EXCEPT !.icons = Mask(v(p), p, now), !.told = TRUE]
<1>1. \A p \in Players : world[p] \in PlayerState /\ now + Lock \in Nat
  BY PlayerFacts, CombatAssumption DEF Players, OInv, IInv, RestOK
<1>2. \A p \in Players : longer(p) \in PlayerState /\ longer(p).health = world[p].health
                                       /\ longer(p).harmed = world[p].harmed
  BY <1>1 DEF PlayerState
<1>3. \A p \in Players : Locked(world, p, now)[p] \in {longer(p), world[p]}
  BY DEF Locked, Players
<1>4. DOMAIN w = DOMAIN world /\ \A p \in Players : w[p] \in {longer(p), world[p]}
  BY <1>3 DEF Renewed, Players
<1> HIDE DEF longer, w
<1>5. \A p \in Players : w[p] \in PlayerState /\ w[p].health = world[p].health
                                  /\ w[p].harmed = world[p].harmed
  BY <1>1, <1>2, <1>4
<1>6. \A p \in Players : unlocked(p) \in PlayerState /\ unlocked(p).health = world[p].health
                                  /\ unlocked(p).harmed = world[p].harmed
  BY <1>5 DEF PlayerState
<1>7. \A p \in Players : r(p).health = world[p].health /\ r(p).harmed = world[p].harmed
  <2> HIDE DEF unlocked
  <2> QED BY <1>6 DEF PlayerState
<1>8. DOMAIN Expired(w) = DOMAIN w /\ \A p \in DOMAIN w : Expired(w)[p] \in {r(p), w[p]}
  BY DEF Expired, IconsShown
<1> HIDE DEF r
<1>9. PICK R : world' = Without(Expired(w), R) BY DEF RenewLocks, w
<1>10. \A p \in DOMAIN world' : p \in DOMAIN Expired(w) /\ world'[p] = Expired(w)[p]
  BY <1>9 DEF Without, Restrict
<1>11. \A p \in Players : p \in DOMAIN world' => Spared(p)
  BY <1>4, <1>5, <1>7, <1>8, <1>10 DEF Spared, Players
<1> QED BY <1>11, SparedPeace

LEMMA PlayerFightPeace ==
    ASSUME OInv, NEW a \in Player, NEW c \in Creature, PlayerFight(a, c)
    PROVE  Peace
<1>1. CASE world' \in {world, Stopped(world, a)}
  <2>1. PlayersKept(world, Stopped(world, a), a, None)
    BY StoppedKept DEF OInv, IInv, Creature
  <2>2. PlayersKept(world, world, a, None) BY DEF PlayersKept
  <2>3. None \notin Players BY CombatAssumption DEF Players, Creature
  <2> QED BY <1>1, <2>1, <2>2, <2>3, KeptPeace
<1>2. CASE /\ {a, c} \subseteq DOMAIN world /\ ~Sheltered(a, c)
           /\ PlayerSwing([world EXCEPT ![a].lastAttack = now], a, c)
  <2>1. a \in DOMAIN world \intersect Player /\ c \in DOMAIN world BY <1>2
  <2>2. phase = "players" /\ world[a].attacking = c
    BY <2>1 DEF PlayerFight, OInv, ListOK
  <2>3. \A p \in Players : p \in DOMAIN world' /\ p # a /\ p # c => Spared(p)
    BY <1>2, <2>1, <2>2, PlayerSwingOutcome DEF Players, Spared
  <2>4. ~world[a].zone /\ (c \in Player => ~world[c].zone) BY <1>2 DEF Sheltered
  <2> QED BY <2>3, <2>4, SparedPeace DEF Players
<1> QED BY <1>1, <1>2 DEF PlayerFight

LEMMA MonsterFightPeace ==
    ASSUME OInv, NEW m \in Monster, NEW c \in Player, MonsterFight(m, c)
    PROVE  Peace
<1>1. CASE c \in DOMAIN world /\ world[c].zone
  <2>1. None \notin Players BY CombatAssumption DEF Players, Creature
  <2> QED BY <1>1, <2>1, MonsterFightKept, KeptPeace
<1>2. CASE ~(c \in DOMAIN world /\ world[c].zone)
  BY <1>2, MonsterFightKept, KeptPeace DEF Players
<1> QED BY <1>1, <1>2

\* No step takes health from a player in a zone or counts a blow of its, whatever fights
\* are still on the list of the tick.
THEOREM ZonesAreSafe == Spec => ZonesSafe
<1>1. OInv /\ [Next]_vars => [Peace]_vars
  <2> SUFFICES ASSUME OInv, Next PROVE Peace
    OBVIOUS
  <2> QED BY CommandsPeace, TimersPeace, RenewLocksPeace, PlayerFightPeace,
             MonsterFightPeace DEF Next
<1>2. Spec => [][Peace]_vars BY <1>1, AlwaysOInv, PTL DEF Spec
<1> QED BY <1>2 DEF Peace, ZonesSafe
=============================================================================
