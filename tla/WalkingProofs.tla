---------------------------- MODULE WalkingProofs ----------------------------
(***************************************************************************)
(* What Walking keeps for any terrain, any players and monsters and any    *)
(* paths a search may return: a queued step is played from the tile it was *)
(* planned on, a scared monster with a way out does not step closer, and   *)
(* everyone stands on ground or where it was put, with a queue of steps.   *)
(***************************************************************************)
EXTENDS Walking, WellFoundedInduction, TLAPS

(***************************************************************************)
(* The states of those who walk.                                           *)
(***************************************************************************)
Walker(c) ==
    c = [at |-> c.at, goto |-> c.goto, follow |-> c.follow, queue |-> c.queue,
         origin |-> c.origin, failed |-> c.failed, rest |-> c.rest, locked |-> c.locked]
Beast(c) ==
    c = [at |-> c.at, attacking |-> c.attacking, follow |-> c.follow, queue |-> c.queue,
         origin |-> c.origin, scared |-> c.scared]

\* The queue, if it has a plan, was planned for the tile c stands on.
OnTrack(c) == c.origin \in {Nowhere, c.at}

PlayerGood(c) == Walker(c) /\ OnTrack(c)
MonsterGood(c) == Beast(c) /\ OnTrack(c)

PlayersGood == player = [p \in Players |-> player[p]] /\ \A p \in Players : PlayerGood(player[p])
MonstersGood ==
    monster = [m \in Monsters |-> monster[m]] /\ \A m \in Monsters : MonsterGood(monster[m])
TurnsGood == due \in [monsters : SUBSET Monsters, players : SUBSET Players]

Inv == PlayersGood /\ MonstersGood /\ TurnsGood

(***************************************************************************)
(* What plans, stops and steps do to the state of who walks.               *)
(***************************************************************************)
LEMMA FreshGood ==
    ASSUME NEW pos
    PROVE  PlayerGood(Fresh(pos)) /\ MonsterGood(Newborn(pos))
BY DEF PlayerGood, MonsterGood, Fresh, Newborn, Walker, Beast, OnTrack

\* A change of several fields is one after the other.
LEMMA InTurn ==
    ASSUME NEW c, Walker(c), NEW x, NEW y, NEW z
    PROVE  /\ [c EXCEPT !.queue = x, !.origin = y] = [[c EXCEPT !.queue = x] EXCEPT !.origin = y]
           /\ [c EXCEPT !.goto = x, !.follow = y] = [[c EXCEPT !.goto = x] EXCEPT !.follow = y]
           /\ [c EXCEPT !.follow = x, !.goto = y] = [[c EXCEPT !.follow = x] EXCEPT !.goto = y]
           /\ [c EXCEPT !.at = x, !.rest = y] = [[c EXCEPT !.at = x] EXCEPT !.rest = y]
           /\ [c EXCEPT !.goto = x, !.failed = y] = [[c EXCEPT !.goto = x] EXCEPT !.failed = y]
           /\ [c EXCEPT !.goto = x, !.follow = y, !.failed = z]
                = [[[c EXCEPT !.goto = x] EXCEPT !.follow = y] EXCEPT !.failed = z]
<1>1. [c EXCEPT !.queue = x, !.origin = y] = [[c EXCEPT !.queue = x] EXCEPT !.origin = y]
  BY DEF Walker
<1>2. [c EXCEPT !.goto = x, !.follow = y] = [[c EXCEPT !.goto = x] EXCEPT !.follow = y]
  BY DEF Walker
<1>3. [c EXCEPT !.follow = x, !.goto = y] = [[c EXCEPT !.follow = x] EXCEPT !.goto = y]
  BY DEF Walker
<1>4. [c EXCEPT !.at = x, !.rest = y] = [[c EXCEPT !.at = x] EXCEPT !.rest = y]
  BY DEF Walker
<1>5. [c EXCEPT !.goto = x, !.failed = y] = [[c EXCEPT !.goto = x] EXCEPT !.failed = y]
  BY DEF Walker
<1>6. [c EXCEPT !.goto = x, !.follow = y, !.failed = z]
        = [[[c EXCEPT !.goto = x] EXCEPT !.follow = y] EXCEPT !.failed = z]
  BY DEF Walker
<1> QED BY <1>1, <1>2, <1>3, <1>4, <1>5, <1>6

LEMMA BeastInTurn ==
    ASSUME NEW c, Beast(c), NEW x, NEW y
    PROVE  /\ [c EXCEPT !.queue = x, !.origin = y] = [[c EXCEPT !.queue = x] EXCEPT !.origin = y]
           /\ [c EXCEPT !.attacking = x, !.follow = y]
                = [[c EXCEPT !.attacking = x] EXCEPT !.follow = y]
<1>1. [c EXCEPT !.queue = x, !.origin = y] = [[c EXCEPT !.queue = x] EXCEPT !.origin = y]
  BY DEF Beast
<1>2. [c EXCEPT !.attacking = x, !.follow = y] = [[c EXCEPT !.attacking = x] EXCEPT !.follow = y]
  BY DEF Beast
<1> QED BY <1>1, <1>2

LEMMA ClearWalker ==
    ASSUME NEW c, Walker(c)
    PROVE  PlayerGood(Clear(c)) /\ Clear(c).at = c.at /\ Clear(c).origin = Nowhere
<1> DEFINE d == [c EXCEPT !.queue = << >>]
           e == [d EXCEPT !.origin = Nowhere]
<1>1. Clear(c) = e
  BY InTurn DEF Clear
<1>2. Walker(d) /\ d.at = c.at
  BY DEF Walker
<1> HIDE DEF d
<1>3. Walker(e) /\ e.at = d.at /\ e.origin = Nowhere
  BY <1>2 DEF Walker
<1> QED BY <1>1, <1>2, <1>3 DEF PlayerGood, OnTrack

LEMMA ClearBeast ==
    ASSUME NEW c, Beast(c)
    PROVE  /\ MonsterGood(Clear(c)) /\ Clear(c).at = c.at /\ Clear(c).origin = Nowhere
           /\ Clear(c).follow = c.follow
<1> DEFINE d == [c EXCEPT !.queue = << >>]
           e == [d EXCEPT !.origin = Nowhere]
<1>1. Clear(c) = e
  BY BeastInTurn DEF Clear
<1>2. Beast(d) /\ d.at = c.at /\ d.follow = c.follow
  BY DEF Beast
<1> HIDE DEF d
<1>3. Beast(e) /\ e.at = d.at /\ e.origin = Nowhere /\ e.follow = d.follow
  BY <1>2 DEF Beast
<1> QED BY <1>1, <1>2, <1>3 DEF MonsterGood, OnTrack

LEMMA StopWalker ==
    ASSUME NEW c, Walker(c)
    PROVE  Walker(StopWalk(c)) /\ StopWalk(c).at = c.at /\ StopWalk(c).origin = Nowhere
<1> DEFINE d == Clear(c)
           e == [d EXCEPT !.goto = Nowhere]
           f == [e EXCEPT !.follow = NoOne]
           g == [f EXCEPT !.failed = 0]
<1>1. Walker(d) /\ d.at = c.at /\ d.origin = Nowhere
  BY ClearWalker DEF PlayerGood
<1> HIDE DEF d
<1>2. StopWalk(c) = g
  BY <1>1, InTurn DEF StopWalk, d
<1>3. Walker(e) /\ e.at = d.at /\ e.origin = d.origin
  BY <1>1 DEF Walker
<1> HIDE DEF e
<1>4. Walker(f) /\ f.at = e.at /\ f.origin = e.origin
  BY <1>3 DEF Walker
<1> HIDE DEF f
<1>5. Walker(g) /\ g.at = f.at /\ g.origin = f.origin
  BY <1>4 DEF Walker
<1> HIDE DEF g
<1> QED BY <1>1, <1>2, <1>3, <1>4, <1>5

\* A plan is made from where one stands.
LEMMA PlanWalker ==
    ASSUME NEW c, PlayerGood(c), NEW path
    PROVE  PlayerGood(Plan(c, path))
<1> DEFINE d == [c EXCEPT !.queue = path]
           e == [d EXCEPT !.origin = c.at]
<1>1. Plan(c, path) = c \/ Plan(c, path) = e
  BY InTurn DEF Plan, PlayerGood
<1>2. Walker(d) /\ d.at = c.at
  BY DEF Walker, PlayerGood
<1> HIDE DEF d
<1>3. Walker(e) /\ e.at = d.at /\ e.origin = c.at
  BY <1>2 DEF Walker
<1> HIDE DEF e
<1> QED BY <1>1, <1>2, <1>3 DEF PlayerGood, OnTrack

LEMMA PlanBeast ==
    ASSUME NEW c, MonsterGood(c), NEW path
    PROVE  LET d == Plan(c, path)
           IN  /\ MonsterGood(d) /\ d.at = c.at /\ d.follow = c.follow /\ d.scared = c.scared
               /\ d.queue = IF path = << >> THEN c.queue ELSE path
<1> DEFINE d == [c EXCEPT !.queue = path]
           e == [d EXCEPT !.origin = c.at]
<1>1. Plan(c, path) = IF path = << >> THEN c ELSE e
  BY BeastInTurn DEF Plan, MonsterGood
<1>2. Beast(d) /\ d.at = c.at /\ d.follow = c.follow /\ d.scared = c.scared /\ d.queue = path
  BY DEF Beast, MonsterGood
<1> HIDE DEF d
<1>3. Beast(e) /\ e.at = d.at /\ e.origin = c.at /\ e.follow = d.follow
      /\ e.scared = d.scared /\ e.queue = d.queue
  BY <1>2 DEF Beast
<1> HIDE DEF e
<1> QED BY <1>1, <1>2, <1>3 DEF MonsterGood, OnTrack

\* Once the first step has landed where it was planned to, the rest of the
\* plan starts there; else there is no plan.
LEMMA PoppedAhead ==
    ASSUME NEW c, OnTrack(c), NEW to
    PROVE  \E x, y : /\ Popped(c, to) = [c EXCEPT !.queue = x, !.origin = y]
                     /\ y \in {Nowhere, to}
<1> DEFINE dir == Head(c.queue)
           dx == Delta[dir][1]
           dy == Delta[dir][2]
           ahead == IF Tail(c.queue) = << >> \/ c.origin = Nowhere \/ to # Offset(c.at, dx, dy)
                    THEN Nowhere ELSE Offset(c.origin, dx, dy)
<1>1. ahead \in {Nowhere, to}
  <2> HIDE DEF dx, dy
  <2> QED BY DEF OnTrack
<1>2. Popped(c, to) = [c EXCEPT !.queue = Tail(c.queue), !.origin = ahead]
  BY DEF Popped
<1> HIDE DEF ahead
<1> QED BY <1>1, <1>2

LEMMA PoppedWalker ==
    ASSUME NEW c, PlayerGood(c), NEW to
    PROVE  LET d == Popped(c, to)
           IN  Walker(d) /\ d.at = c.at /\ d.origin \in {Nowhere, to}
<1>1. PICK x, y : /\ Popped(c, to) = [c EXCEPT !.queue = x, !.origin = y]
                  /\ y \in {Nowhere, to}
  BY PoppedAhead DEF PlayerGood
<1> DEFINE d == [c EXCEPT !.queue = x]
           e == [d EXCEPT !.origin = y]
<1>2. Popped(c, to) = e
  BY <1>1, InTurn DEF PlayerGood
<1>3. Walker(d) /\ d.at = c.at
  BY DEF Walker, PlayerGood
<1> HIDE DEF d
<1>4. Walker(e) /\ e.at = d.at /\ e.origin = y
  BY <1>3 DEF Walker
<1> HIDE DEF e
<1> QED BY <1>1, <1>2, <1>3, <1>4

LEMMA PoppedBeast ==
    ASSUME NEW c, MonsterGood(c), NEW to
    PROVE  LET d == Popped(c, to)
           IN  Beast(d) /\ d.at = c.at /\ d.origin \in {Nowhere, to}
<1>1. PICK x, y : /\ Popped(c, to) = [c EXCEPT !.queue = x, !.origin = y]
                  /\ y \in {Nowhere, to}
  BY PoppedAhead DEF MonsterGood
<1> DEFINE d == [c EXCEPT !.queue = x]
           e == [d EXCEPT !.origin = y]
<1>2. Popped(c, to) = e
  BY <1>1, BeastInTurn DEF MonsterGood
<1>3. Beast(d) /\ d.at = c.at
  BY DEF Beast, MonsterGood
<1> HIDE DEF d
<1>4. Beast(e) /\ e.at = d.at /\ e.origin = y
  BY <1>3 DEF Beast
<1> HIDE DEF e
<1> QED BY <1>1, <1>2, <1>3, <1>4

(***************************************************************************)
(* The turn of a player.                                                   *)
(***************************************************************************)
LEMMA LosesSightGood ==
    ASSUME NEW c, PlayerGood(c), NEW t
    PROVE  PlayerGood(LosesSight(c, t))
<1> DEFINE x == IF c.follow = t THEN Departed ELSE c.follow
           d == [c EXCEPT !.follow = x]
<1>1. LosesSight(c, t) = d
  BY DEF LosesSight
<1> HIDE DEF x
<1> QED BY <1>1 DEF PlayerGood, Walker, OnTrack

LEMMA AdvanceGood ==
    ASSUME NEW p, NEW me, PlayerGood(me)
    PROVE  PlayerGood(Advance(p, me))
<1> DEFINE to == Landing(p, Head(me.queue))
           s == StopWalk(me)
           a == Popped(me, to)
           b == [a EXCEPT !.at = to]
<1>1. \/ Advance(p, me) = me
      \/ Advance(p, me) = [s EXCEPT !.rest = 0]
      \/ Advance(p, me) = [a EXCEPT !.at = to, !.rest = 0]
  BY DEF Advance
<1> HIDE DEF to
<1>2. CASE Advance(p, me) = me
  BY <1>2
<1>3. CASE Advance(p, me) = [s EXCEPT !.rest = 0]
  <2>1. Walker(s) /\ s.origin = Nowhere
    BY StopWalker DEF PlayerGood
  <2> HIDE DEF s
  <2> QED BY <1>3, <2>1 DEF PlayerGood, Walker, OnTrack
<1>4. CASE Advance(p, me) = [a EXCEPT !.at = to, !.rest = 0]
  <2>1. Walker(a) /\ a.origin \in {Nowhere, to}
    BY PoppedWalker
  <2> HIDE DEF a
  <2>2. Advance(p, me) = [b EXCEPT !.rest = 0]
    BY <1>4, <2>1, InTurn
  <2>3. Walker(b) /\ b.at = to /\ b.origin = a.origin
    BY <2>1 DEF Walker
  <2> HIDE DEF b
  <2> QED BY <2>1, <2>2, <2>3 DEF PlayerGood, Walker, OnTrack
<1> QED BY <1>1, <1>2, <1>3, <1>4

\* What leaves the tile and the plan alone leaves the player on track.
LEMMA InPlace ==
    ASSUME NEW c, PlayerGood(c), NEW x
    PROVE  /\ PlayerGood([c EXCEPT !.goto = x]) /\ PlayerGood([c EXCEPT !.follow = x])
           /\ PlayerGood([c EXCEPT !.failed = x]) /\ PlayerGood([c EXCEPT !.rest = x])
           /\ PlayerGood([c EXCEPT !.locked = x])
<1>1. PlayerGood([c EXCEPT !.goto = x])
  BY DEF PlayerGood, Walker, OnTrack
<1>2. PlayerGood([c EXCEPT !.follow = x])
  BY DEF PlayerGood, Walker, OnTrack
<1>3. PlayerGood([c EXCEPT !.failed = x])
  BY DEF PlayerGood, Walker, OnTrack
<1>4. PlayerGood([c EXCEPT !.rest = x])
  BY DEF PlayerGood, Walker, OnTrack
<1>5. PlayerGood([c EXCEPT !.locked = x])
  BY DEF PlayerGood, Walker, OnTrack
<1> QED BY <1>1, <1>2, <1>3, <1>4, <1>5

LEMMA InPlaceTwice ==
    ASSUME NEW c, PlayerGood(c), NEW x, NEW y
    PROVE  /\ PlayerGood([c EXCEPT !.goto = x, !.follow = y])
           /\ PlayerGood([c EXCEPT !.follow = x, !.goto = y])
           /\ PlayerGood([c EXCEPT !.goto = x, !.failed = y])
<1> DEFINE d == [c EXCEPT !.goto = x]
           e == [c EXCEPT !.follow = x]
<1>1. PlayerGood(d) /\ PlayerGood(e)
  BY InPlace
<1>2. /\ [c EXCEPT !.goto = x, !.follow = y] = [d EXCEPT !.follow = y]
      /\ [c EXCEPT !.follow = x, !.goto = y] = [e EXCEPT !.goto = y]
      /\ [c EXCEPT !.goto = x, !.failed = y] = [d EXCEPT !.failed = y]
  BY InTurn DEF PlayerGood
<1> HIDE DEF d, e
<1>3. PlayerGood([d EXCEPT !.follow = y]) /\ PlayerGood([e EXCEPT !.goto = y])
      /\ PlayerGood([d EXCEPT !.failed = y])
  BY <1>1, InPlace
<1> QED BY <1>2, <1>3

LEMMA FollowTurnGood ==
    ASSUME NEW p, PlayerGood(player[p]), NEW next \in FollowTurn(p)
    PROVE  PlayerGood(next)
<1> DEFINE me == player[p]
           lost == [me EXCEPT !.follow = NoOne]
<1>1. PlayerGood(lost)
  BY InPlace
<1>2. PlayerGood(Clear(lost))
  BY <1>1, ClearWalker DEF PlayerGood
<1>3. \/ next = lost
      \/ next = Clear(lost)
      \/ next = Advance(p, me)
      \/ \E path : next = Advance(p, Plan(me, path))
  BY DEF FollowTurn
<1>4. ASSUME NEW path PROVE PlayerGood(Advance(p, Plan(me, path)))
  BY PlanWalker, AdvanceGood
<1> QED BY <1>1, <1>2, <1>3, <1>4, AdvanceGood

LEMMA GoToTurnGood ==
    ASSUME NEW p, PlayerGood(player[p]), NEW next \in GoToTurn(p)
    PROVE  PlayerGood(next)
<1> DEFINE me == player[p]
           quiet == Clear(me)
<1>1. PlayerGood(quiet)
  BY ClearWalker DEF PlayerGood
<1>2. PlayerGood([quiet EXCEPT !.goto = Nowhere])
      /\ PlayerGood([quiet EXCEPT !.goto = Nowhere, !.failed = 0])
      /\ PlayerGood([me EXCEPT !.failed = me.failed + 1])
  <2> HIDE DEF quiet
  <2> QED BY <1>1, InPlace, InPlaceTwice
<1>3. \/ next = [quiet EXCEPT !.goto = Nowhere]
      \/ next = Advance(p, me)
      \/ \E path : next = Advance(p, Plan(me, path))
      \/ next = [quiet EXCEPT !.goto = Nowhere, !.failed = 0]
      \/ next = [me EXCEPT !.failed = me.failed + 1]
  BY DEF GoToTurn
<1>4. ASSUME NEW path PROVE PlayerGood(Advance(p, Plan(me, path)))
  BY PlanWalker, AdvanceGood
<1> QED BY <1>2, <1>3, <1>4, AdvanceGood

(***************************************************************************)
(* The turn of a monster.                                                  *)
(***************************************************************************)
LEMMA BeastInPlace ==
    ASSUME NEW c, MonsterGood(c), NEW x
    PROVE  /\ MonsterGood([c EXCEPT !.attacking = x]) /\ MonsterGood([c EXCEPT !.follow = x])
           /\ MonsterGood([c EXCEPT !.scared = x])
<1>1. MonsterGood([c EXCEPT !.attacking = x])
  BY DEF MonsterGood, Beast, OnTrack
<1>2. MonsterGood([c EXCEPT !.follow = x])
  BY DEF MonsterGood, Beast, OnTrack
<1>3. MonsterGood([c EXCEPT !.scared = x])
  BY DEF MonsterGood, Beast, OnTrack
<1> QED BY <1>1, <1>2, <1>3

LEMMA BeastLosesSight ==
    ASSUME NEW c, MonsterGood(c), NEW t
    PROVE  MonsterGood(LosesSight(c, t))
<1> DEFINE x == IF c.follow = t THEN Departed ELSE c.follow
<1>1. LosesSight(c, t) = [c EXCEPT !.follow = x]
  BY DEF LosesSight
<1> HIDE DEF x
<1>2. MonsterGood([c EXCEPT !.follow = x])
  BY BeastInPlace
<1> QED BY <1>1, <1>2

LEMMA LosesFoeGood ==
    ASSUME NEW c, MonsterGood(c), NEW t
    PROVE  MonsterGood(LosesFoe(c, t)) /\ MonsterGood(EndsFight(c, t))
<1> DEFINE d == LosesSight(c, t)
           x == IF d.attacking = t THEN Departed ELSE d.attacking
           y == IF d.attacking = t THEN NoOne ELSE d.attacking
<1>1. MonsterGood(d)
  BY BeastLosesSight
<1>2. LosesFoe(c, t) = [d EXCEPT !.attacking = x] /\ EndsFight(c, t) = [d EXCEPT !.attacking = y]
  BY DEF LosesFoe, EndsFight
<1> HIDE DEF d, x, y
<1>3. MonsterGood([d EXCEPT !.attacking = x])
  BY <1>1, BeastInPlace
<1>4. MonsterGood([d EXCEPT !.attacking = y])
  BY <1>1, BeastInPlace
<1> QED BY <1>2, <1>3, <1>4

\* What it does to its targets leaves its tile, its plan and its fear.
Retargeted(c, x, y) == [c EXCEPT !.attacking = x, !.follow = y]
LEMMA RetargetedGood ==
    ASSUME NEW c, MonsterGood(c), NEW x, NEW y
    PROVE  LET d == Retargeted(c, x, y)
           IN  /\ MonsterGood(d) /\ d.at = c.at /\ d.queue = c.queue /\ d.scared = c.scared
               /\ d.follow = y
<1> DEFINE e == [c EXCEPT !.attacking = x]
           d == [e EXCEPT !.follow = y]
<1>1. Retargeted(c, x, y) = d
  BY BeastInTurn DEF MonsterGood, Retargeted
<1>2. MonsterGood(e) /\ e.at = c.at /\ e.queue = c.queue /\ e.scared = c.scared
  BY DEF MonsterGood, Beast, OnTrack
<1> HIDE DEF e
<1>3. MonsterGood(d) /\ d.at = e.at /\ d.queue = e.queue /\ d.scared = e.scared /\ d.follow = y
  BY <1>2 DEF MonsterGood, Beast, OnTrack
<1> HIDE DEF d
<1> QED BY <1>1, <1>2, <1>3

LEMMA DropGood ==
    ASSUME NEW c, MonsterGood(c)
    PROVE  LET d == Drop(c)
           IN  /\ MonsterGood(d) /\ d.at = c.at /\ d.queue = c.queue /\ d.scared = c.scared
               /\ d.follow = NoOne
<1>1. Drop(c) = Retargeted(c, NoOne, NoOne)
  BY DEF Drop, Retargeted
<1> QED BY <1>1, RetargetedGood

LEMMA FleesGood ==
    ASSUME NEW m, NEW c, MonsterGood(c), NEW d \in Flees(m, c)
    PROVE  MonsterGood(d)
<1>1. d = c \/ d = Drop(c) \/ \E path : d = Plan(Drop(c), path)
  BY DEF Flees
<1>2. MonsterGood(Drop(c))
  BY DropGood
<1>3. ASSUME NEW path PROVE MonsterGood(Plan(Drop(c), path))
  BY <1>2, PlanBeast
<1> QED BY <1>1, <1>2, <1>3

LEMMA AggroGood ==
    ASSUME NEW c, MonsterGood(c), NEW d \in Aggro(c)
    PROVE  MonsterGood(d)
<1>1. d = c \/ \E p : d = Hunt(c, p)
  BY DEF Aggro
<1>2. ASSUME NEW p PROVE MonsterGood(Hunt(c, p))
  BY RetargetedGood DEF Hunt, Retargeted
<1> QED BY <1>1, <1>2

LEMMA LetsGoGood ==
    ASSUME NEW m, NEW c, MonsterGood(c)
    PROVE  MonsterGood(LetsGo(m, c))
<1>1. LetsGo(m, c) = c \/ \E path : LetsGo(m, c) = Plan(Clear(Drop(c)), path)
  BY DEF LetsGo
<1>2. MonsterGood(Clear(Drop(c)))
  BY DropGood, ClearBeast DEF MonsterGood
<1>3. ASSUME NEW path PROVE MonsterGood(Plan(Clear(Drop(c)), path))
  BY <1>2, PlanBeast
<1> QED BY <1>1, <1>3

LEMMA ChasesGood ==
    ASSUME NEW c, MonsterGood(c), NEW d \in Chases(c)
    PROVE  MonsterGood(d)
<1>1. d = c \/ \E path : d = Plan(c, path)
  BY DEF Chases
<1> QED BY <1>1, PlanBeast

LEMMA WandersGood ==
    ASSUME NEW c, MonsterGood(c), NEW d \in Wanders(c)
    PROVE  MonsterGood(d)
<1>1. d = c \/ \E path : d = Plan(c, path)
  BY DEF Wanders
<1> QED BY <1>1, PlanBeast

LEMMA StepMonsterGood ==
    ASSUME NEW m, NEW c, MonsterGood(c)
    PROVE  MonsterGood(StepMonster(m, c))
<1> DEFINE to == Offset(c.at, Delta[Head(c.queue)][1], Delta[Head(c.queue)][2])
           a == Popped(c, to)
<1>1. \/ StepMonster(m, c) = c
      \/ StepMonster(m, c) = [a EXCEPT !.at = to]
      \/ StepMonster(m, c) = Clear(c)
  BY DEF StepMonster
<1> HIDE DEF to
<1>2. Beast(a) /\ a.origin \in {Nowhere, to}
  BY PoppedBeast
<1> HIDE DEF a
<1>3. MonsterGood([a EXCEPT !.at = to])
  BY <1>2 DEF MonsterGood, Beast, OnTrack
<1>4. MonsterGood(Clear(c))
  BY ClearBeast DEF MonsterGood
<1> QED BY <1>1, <1>3, <1>4

LEMMA MonsterTurnGood ==
    ASSUME NEW m \in Monsters, monster = [x \in Monsters |-> monster[x]],
           MonsterGood(monster[m]), MonsterTurn(m)
    PROVE  \E d : MonsterGood(d) /\ monster' = [monster EXCEPT ![m] = d]
<1>1. PICK fled \in Flees(m, monster[m]) : \E keen \in Aggro(fled) :
        LET c == LetsGo(m, keen)
        IN  IF Gone(c) THEN monster' = [monster EXCEPT ![m] = [c EXCEPT !.follow = NoOne]]
            ELSE \E chasing \in Chases(c) : \E going \in Wanders(chasing) :
                    monster' = [monster EXCEPT ![m] = StepMonster(m, going)]
  BY DEF MonsterTurn
<1>2. PICK keen \in Aggro(fled) :
        LET c == LetsGo(m, keen)
        IN  IF Gone(c) THEN monster' = [monster EXCEPT ![m] = [c EXCEPT !.follow = NoOne]]
            ELSE \E chasing \in Chases(c) : \E going \in Wanders(chasing) :
                    monster' = [monster EXCEPT ![m] = StepMonster(m, going)]
  BY <1>1
<1> DEFINE c == LetsGo(m, keen)
<1>3. MonsterGood(c)
  BY FleesGood, AggroGood, LetsGoGood
<1> HIDE DEF c
<1>4. CASE Gone(c)
  <2>1. monster' = [monster EXCEPT ![m] = [c EXCEPT !.follow = NoOne]]
    BY <1>2, <1>4 DEF c
  <2> QED BY <1>3, <2>1, BeastInPlace
<1>5. CASE ~ Gone(c)
  <2>3. PICK chasing \in Chases(c) : \E going \in Wanders(chasing) :
          monster' = [monster EXCEPT ![m] = StepMonster(m, going)]
    BY <1>2, <1>5 DEF c
  <2>1. PICK going \in Wanders(chasing) : monster' = [monster EXCEPT ![m] = StepMonster(m, going)]
    BY <2>3
  <2>2. MonsterGood(StepMonster(m, going))
    BY <1>3, ChasesGood, WandersGood, StepMonsterGood
  <2> QED BY <2>1, <2>2
<1> QED BY <1>4, <1>5

(***************************************************************************)
(* Every step keeps everyone on track.                                     *)
(***************************************************************************)
LEMMA OnePlayer ==
    ASSUME PlayersGood, NEW p \in Players, NEW d, PlayerGood(d), player' = [player EXCEPT ![p] = d]
    PROVE  PlayersGood'
<1>1. \A q \in Players : player'[q] = IF q = p THEN d ELSE player[q]
  BY DEF PlayersGood
<1>2. player' = [q \in Players |-> player'[q]]
  BY DEF PlayersGood
<1>3. \A q \in Players : PlayerGood(player'[q])
  BY <1>1 DEF PlayersGood
<1> QED BY <1>2, <1>3 DEF PlayersGood, PlayerGood, Walker, OnTrack

LEMMA OneMonster ==
    ASSUME MonstersGood, NEW m \in Monsters, NEW d, MonsterGood(d),
           monster' = [monster EXCEPT ![m] = d]
    PROVE  MonstersGood'
<1>1. \A q \in Monsters : monster'[q] = IF q = m THEN d ELSE monster[q]
  BY DEF MonstersGood
<1>2. monster' = [q \in Monsters |-> monster'[q]]
  BY DEF MonstersGood
<1>3. \A q \in Monsters : MonsterGood(monster'[q])
  BY <1>1 DEF MonstersGood
<1> QED BY <1>2, <1>3 DEF MonstersGood, MonsterGood, Beast, OnTrack

LEMMA SamePlayers ==
    ASSUME PlayersGood, player' = player
    PROVE  PlayersGood'
BY DEF PlayersGood, PlayerGood, Walker, OnTrack
LEMMA SameMonsters ==
    ASSUME MonstersGood, monster' = monster
    PROVE  MonstersGood'
BY DEF MonstersGood, MonsterGood, Beast, OnTrack

\* Whoever leaves is lost from sight.
LEMMA AllPlayers ==
    ASSUME PlayersGood, NEW f, player' = f, f = [p \in Players |-> f[p]],
           \A p \in Players : PlayerGood(f[p])
    PROVE  PlayersGood'
BY DEF PlayersGood, PlayerGood, Walker, OnTrack
LEMMA AllMonsters ==
    ASSUME MonstersGood, NEW f, monster' = f, f = [m \in Monsters |-> f[m]],
           \A m \in Monsters : MonsterGood(f[m])
    PROVE  MonstersGood'
BY DEF MonstersGood, MonsterGood, Beast, OnTrack

LEMMA InitGood == Init => Inv
<1> SUFFICES ASSUME Init PROVE Inv
  OBVIOUS
<1>1. PlayersGood
  <2>1. \A p \in Players : player[p] = Fresh(Nowhere)
    BY DEF Init
  <2> QED BY <2>1, FreshGood DEF Init, PlayersGood
<1>2. MonstersGood
  <2>1. \A m \in Monsters : monster[m] = Newborn(Dens[m])
    BY DEF Init
  <2> QED BY <2>1, FreshGood DEF Init, MonstersGood
<1>3. TurnsGood
  BY DEF Init, TurnsGood
<1> QED BY <1>1, <1>2, <1>3 DEF Inv

LEMMA LeavesGood ==
    ASSUME Inv, NEW p \in Players, NEW f,
           f = [[q \in Players |-> LosesSight(player[q], p)] EXCEPT ![p] = Fresh(Nowhere)],
           player' = f
    PROVE  PlayersGood'
<1>1. \A q \in Players : f[q] = IF q = p THEN Fresh(Nowhere) ELSE LosesSight(player[q], p)
  OBVIOUS
<1>2. \A q \in Players : PlayerGood(f[q])
  BY <1>1, FreshGood, LosesSightGood DEF Inv, PlayersGood
<1>3. f = [q \in Players |-> f[q]]
  OBVIOUS
<1> QED BY <1>2, <1>3, AllPlayers DEF Inv

LEMMA PlayerStep ==
    ASSUME Inv, NEW p \in Players,
           Login(p) \/ Lock(p) \/ (\E to \in Temples : Teleport(p, to)) \/ Order(p)
    PROVE  PlayersGood'
<1> DEFINE me == player[p]
<1>0. PlayersGood /\ PlayerGood(me) /\ Walker(me)
  BY DEF Inv, PlayersGood, PlayerGood
<1>1. CASE Login(p)
  BY <1>0, <1>1, FreshGood, OnePlayer DEF Login
<1>2. CASE Lock(p)
  <2> DEFINE d == [me EXCEPT !.locked = ~ me.locked]
  <2>1. PlayerGood(d)
    BY <1>0, InPlace
  <2>2. player' = [player EXCEPT ![p] = d]
    BY <1>2 DEF Lock
  <2> HIDE DEF d
  <2> QED BY <1>0, <2>1, <2>2, OnePlayer
<1>3. ASSUME NEW to \in Temples, Teleport(p, to) PROVE PlayersGood'
  <2> DEFINE s == StopWalk(me)
             d == [s EXCEPT !.at = to]
  <2>1. Walker(s) /\ s.origin = Nowhere
    BY <1>0, StopWalker
  <2>2. player' = [player EXCEPT ![p] = d]
    BY <1>3 DEF Teleport
  <2> HIDE DEF s
  <2>3. PlayerGood(d)
    BY <2>1 DEF PlayerGood, Walker, OnTrack
  <2> HIDE DEF d
  <2> QED BY <1>0, <2>2, <2>3, OnePlayer
<1>4. ASSUME NEW dir \in Direction, Move(p, dir) PROVE PlayersGood'
  <2> DEFINE s == [Clear(me) EXCEPT !.goto = Nowhere, !.follow = NoOne]
             x == IF Landing(p, dir) = Nowhere THEN s.at ELSE Landing(p, dir)
             d == [s EXCEPT !.at = x]
  <2>1. Walker(s) /\ s.origin = Nowhere
    <3> DEFINE c == Clear(me)
               t == [c EXCEPT !.goto = Nowhere]
    <3>1. Walker(c) /\ c.origin = Nowhere
      BY <1>0, ClearWalker DEF PlayerGood
    <3> HIDE DEF c
    <3>2. s = [t EXCEPT !.follow = NoOne]
      BY <3>1, InTurn DEF c
    <3>3. Walker(t) /\ t.origin = Nowhere
      BY <3>1 DEF Walker
    <3> HIDE DEF t
    <3> DEFINE u == [t EXCEPT !.follow = NoOne]
    <3>4. Walker(u) /\ u.origin = Nowhere
      BY <3>3 DEF Walker
    <3> HIDE DEF u
    <3>5. s = u
      BY <3>2 DEF u
    <3> HIDE DEF s
    <3> QED BY <3>4, <3>5
  <2>2. player' = [player EXCEPT ![p] = d]
    BY <1>4 DEF Move
  <2> HIDE DEF s, x
  <2>3. PlayerGood(d)
    BY <2>1 DEF PlayerGood, Walker, OnTrack
  <2> HIDE DEF d
  <2> QED BY <1>0, <2>2, <2>3, OnePlayer
<1>5. ASSUME NEW t \in Creatures \cup {NoOne}, FollowTarget(p, t) PROVE PlayersGood'
  <2> DEFINE c == Clear(me)
             e == [me EXCEPT !.follow = t]
  <2>1. \/ player' = [player EXCEPT ![p] = [c EXCEPT !.follow = NoOne]]
        \/ \E path : player' = [player EXCEPT ![p] = Plan(e, path)]
    BY <1>5 DEF FollowTarget
  <2>2. PlayerGood(c) /\ PlayerGood(e)
    BY <1>0, ClearWalker, InPlace
  <2> HIDE DEF c, e
  <2>3. CASE player' = [player EXCEPT ![p] = [c EXCEPT !.follow = NoOne]]
    BY <1>0, <2>2, <2>3, InPlace, OnePlayer
  <2>4. ASSUME NEW path, player' = [player EXCEPT ![p] = Plan(e, path)] PROVE PlayersGood'
    BY <1>0, <2>2, <2>4, PlanWalker, OnePlayer
  <2> QED BY <2>1, <2>3, <2>4
<1>6. CASE ClearAutoWalk(p)
  <2> DEFINE c == Clear(me)
             d == [c EXCEPT !.goto = Nowhere]
  <2>1. player' = [player EXCEPT ![p] = d]
    BY <1>6 DEF ClearAutoWalk
  <2>2. PlayerGood(c)
    BY <1>0, ClearWalker
  <2> HIDE DEF c
  <2>3. PlayerGood(d)
    BY <2>2, InPlace
  <2> HIDE DEF d
  <2> QED BY <1>0, <2>1, <2>3, OnePlayer
<1>7. ASSUME NEW target \in Clicks, GoToSteps(p, target) PROVE PlayersGood'
  <2>1. PICK path : player' = [player EXCEPT ![p] =
                    Plan([me EXCEPT !.follow = NoOne,
                                    !.goto = IF path = << >> THEN Nowhere ELSE target], path)]
    BY <1>7 DEF GoToSteps, GoToPosition
  <2> DEFINE x == IF path = << >> THEN Nowhere ELSE target
             e == [me EXCEPT !.follow = NoOne, !.goto = x]
  <2>2. player' = [player EXCEPT ![p] = Plan(e, path)]
    BY <2>1
  <2> HIDE DEF x
  <2>3. PlayerGood(e)
    BY <1>0, InPlaceTwice
  <2> HIDE DEF e
  <2> QED BY <1>0, <2>2, <2>3, PlanWalker, OnePlayer
<1> QED BY <1>1, <1>2, <1>3, <1>4, <1>5, <1>6, <1>7 DEF Order

LEMMA LogoutStep ==
    ASSUME Inv, NEW p \in Players, Logout(p) \/ Perish(p)
    PROVE  PlayersGood' /\ MonstersGood'
<1>1. PlayersGood'
  BY LeavesGood DEF Logout, Perish
<1>2. CASE Logout(p)
  <2> DEFINE f == [m \in Monsters |-> LosesFoe(monster[m], p)]
  <2>1. monster' = f /\ f = [m \in Monsters |-> f[m]]
    BY <1>2 DEF Logout
  <2>2. \A m \in Monsters : MonsterGood(f[m])
    BY LosesFoeGood DEF Inv, MonstersGood
  <2> HIDE DEF f
  <2> QED BY <1>1, <2>1, <2>2, AllMonsters DEF Inv
<1>3. CASE Perish(p)
  <2> DEFINE f == [m \in Monsters |-> EndsFight(monster[m], p)]
  <2>1. monster' = f /\ f = [m \in Monsters |-> f[m]]
    BY <1>3 DEF Perish
  <2>2. \A m \in Monsters : MonsterGood(f[m])
    BY LosesFoeGood DEF Inv, MonstersGood
  <2> HIDE DEF f
  <2> QED BY <1>1, <2>1, <2>2, AllMonsters DEF Inv
<1> QED BY <1>2, <1>3

LEMMA MonsterStep ==
    ASSUME Inv, NEW m \in Monsters,
           CombatTick(m) \/ Die(m) \/ Respawn(m) \/ \E p \in Players : Wound(m, p)
    PROVE  PlayersGood' /\ MonstersGood'
<1> DEFINE c == monster[m]
           d == Drop(c)
           e == [c EXCEPT !.attacking = NoOne]
<1>0. MonstersGood /\ MonsterGood(c) /\ PlayersGood
  BY DEF Inv, MonstersGood
<1>1. CASE CombatTick(m)
  <2>1. \/ monster' = [monster EXCEPT ![m] = e] \/ monster' = [monster EXCEPT ![m] = d]
        \/ monster' = [monster EXCEPT ![m] = Clear(d)] \/ monster' = [monster EXCEPT ![m] = c]
    BY <1>1 DEF CombatTick
  <2>2. MonsterGood(d) /\ MonsterGood(e)
    BY <1>0, DropGood, BeastInPlace
  <2>3. MonsterGood(Clear(d))
    BY <2>2, ClearBeast DEF MonsterGood
  <2>4. player' = player
    BY <1>1 DEF CombatTick
  <2> HIDE DEF c, d, e
  <2> QED BY <1>0, <2>1, <2>2, <2>3, <2>4, OneMonster, SamePlayers
<1>2. CASE Die(m)
  <2> DEFINE f == [p \in Players |-> LosesSight(player[p], m)]
  <2>1. player' = f /\ f = [p \in Players |-> f[p]]
    BY <1>2 DEF Die
  <2>2. \A p \in Players : PlayerGood(f[p])
    BY <1>0, LosesSightGood DEF PlayersGood
  <2> HIDE DEF f
  <2>3. PlayersGood'
    BY <1>0, <2>1, <2>2, AllPlayers
  <2>4. monster' = [monster EXCEPT ![m] = Newborn(Nowhere)]
    BY <1>2 DEF Die
  <2> QED BY <1>0, <2>3, <2>4, FreshGood, OneMonster
<1>3. CASE Respawn(m)
  <2>1. player' = player /\ monster' = [monster EXCEPT ![m] = Newborn(Dens[m])]
    BY <1>3 DEF Respawn
  <2> QED BY <1>0, <2>1, FreshGood, OneMonster, SamePlayers
<1>4. ASSUME NEW p \in Players, Wound(m, p) PROVE PlayersGood' /\ MonstersGood'
  <2> DEFINE f == [c EXCEPT !.scared = TRUE]
             g == [c EXCEPT !.attacking = p]
  <2>1. monster' = [monster EXCEPT ![m] = f] \/ monster' = [monster EXCEPT ![m] = g]
    BY <1>4 DEF Wound
  <2>2. MonsterGood(f) /\ MonsterGood(g)
    BY <1>0, BeastInPlace
  <2>3. player' = player
    BY <1>4 DEF Wound
  <2> HIDE DEF f, g
  <2> QED BY <1>0, <2>1, <2>2, <2>3, OneMonster, SamePlayers
<1> QED BY <1>1, <1>2, <1>3, <1>4

LEMMA TickStep ==
    ASSUME Inv, Tick
    PROVE  Inv'
<1> DEFINE f == [p \in Players |-> [player[p] EXCEPT !.rest = Lesser(player[p].rest + 1, StepTime)]]
<1>1. player' = f /\ f = [p \in Players |-> f[p]]
  BY DEF Tick
<1>2. \A p \in Players : PlayerGood(f[p])
  BY InPlace DEF Inv, PlayersGood
<1> HIDE DEF f
<1>3. PlayersGood'
  BY <1>1, <1>2, AllPlayers DEF Inv
<1>4. MonstersGood'
  BY SameMonsters DEF Tick, Inv
<1>5. TurnsGood'
  BY DEF Tick, TurnsGood
<1> QED BY <1>3, <1>4, <1>5 DEF Inv

LEMMA TurnStep ==
    ASSUME Inv, Turn
    PROVE  Inv'
<1>1. ASSUME NEW m \in Monsters, MonsterTurn(m) PROVE Inv'
  <2>1. PICK d : MonsterGood(d) /\ monster' = [monster EXCEPT ![m] = d]
    BY <1>1, MonsterTurnGood DEF Inv, MonstersGood
  <2>2. MonstersGood'
    BY <2>1, OneMonster DEF Inv
  <2>3. PlayersGood'
    BY <1>1, SamePlayers DEF MonsterTurn, Inv
  <2>4. TurnsGood'
    BY <1>1 DEF MonsterTurn, Inv, TurnsGood
  <2> QED BY <2>2, <2>3, <2>4 DEF Inv
<1>2. ASSUME NEW p \in Players, PlayerTurn(p) PROVE Inv'
  <2>1. PICK next \in IF player[p].follow # NoOne THEN FollowTurn(p) ELSE GoToTurn(p) :
            player' = [player EXCEPT ![p] = next]
    BY <1>2 DEF PlayerTurn
  <2>2. PlayerGood(player[p])
    BY DEF Inv, PlayersGood
  <2>3. PlayerGood(next)
    BY <2>1, <2>2, FollowTurnGood, GoToTurnGood
  <2>4. PlayersGood'
    BY <2>1, <2>3, OnePlayer DEF Inv
  <2>5. MonstersGood'
    BY <1>2, SameMonsters DEF PlayerTurn, Inv
  <2>6. TurnsGood'
    BY <1>2 DEF PlayerTurn, Inv, TurnsGood
  <2> QED BY <2>4, <2>5, <2>6 DEF Inv
<1> QED BY <1>1, <1>2 DEF Turn

LEMMA InvStep ==
    ASSUME Inv, [Next]_vars
    PROVE  Inv'
<1>1. CASE Tick
  BY <1>1, TickStep
<1>2. CASE Turn
  BY <1>2, TurnStep
<1>3. ASSUME NEW p \in Players,
             Login(p) \/ Lock(p) \/ (\E to \in Temples : Teleport(p, to)) \/ Order(p)
      PROVE  Inv'
  <2>1. monster' = monster /\ due' = due
    BY <1>3 DEF Login, Lock, Teleport, Order, Move, FollowTarget, ClearAutoWalk, GoToSteps,
        GoToPosition
  <2>2. PlayersGood'
    BY <1>3, PlayerStep
  <2> QED BY <2>1, <2>2, SameMonsters DEF Inv, TurnsGood
<1>4. ASSUME NEW p \in Players, Logout(p) \/ Perish(p) PROVE Inv'
  <2>1. due' = due
    BY <1>4 DEF Logout, Perish
  <2>2. PlayersGood' /\ MonstersGood'
    BY <1>4, LogoutStep
  <2> QED BY <2>1, <2>2 DEF Inv, TurnsGood
<1>5. ASSUME NEW m \in Monsters,
             CombatTick(m) \/ Die(m) \/ Respawn(m) \/ \E p \in Players : Wound(m, p)
      PROVE  Inv'
  <2>1. due' = due
    BY <1>5 DEF CombatTick, Die, Respawn, Wound
  <2>2. PlayersGood' /\ MonstersGood'
    BY <1>5, MonsterStep
  <2> QED BY <2>1, <2>2 DEF Inv, TurnsGood
<1>6. CASE UNCHANGED vars
  BY <1>6, SamePlayers, SameMonsters DEF vars, Inv, TurnsGood
<1> QED BY <1>1, <1>2, <1>3, <1>4, <1>5, <1>6 DEF Next

\* A queued step is only ever played from the tile it was planned on,
\* whatever commands, deaths, teleports and refused steps come between the
\* search and the step (game/mod.rs on_monster_ai_tick, game/movement.rs).
THEOREM StaysOnCourse == Spec => []OnCourse
<1>1. Inv => OnCourse
  BY DEF Inv, PlayersGood, MonstersGood, PlayerGood, MonsterGood, OnTrack, OnCourse
<1> QED BY <1>1, InitGood, InvStep, PTL DEF Spec

(***************************************************************************)
(* Running away.                                                           *)
(***************************************************************************)
LEMMA LeastOf ==
    ASSUME NEW S, S \subseteq Nat, S # {}
    PROVE  \E m \in S : \A k \in S : m <= k
<1>1. PICK m \in S : \A k \in S : ~ (<<k, m>> \in OpToRel(<, Nat))
  <2>1. \E m \in S : \A k \in S : ~ (<<k, m>> \in OpToRel(<, Nat))
    BY WFMin, NatLessThanWellFounded
  <2> QED BY <2>1
<1>2. ASSUME NEW k \in S PROVE m <= k
  <2>1. k \in Nat /\ m \in Nat
    OBVIOUS
  <2>2. k < m => <<k, m>> \in OpToRel(<, Nat)
    BY <2>1 DEF OpToRel
  <2>3. ~ (k < m)
    BY <1>1, <2>2
  <2> QED BY <2>1, <2>3
<1> QED BY <1>2

\* Among some of the eight steps one is best aligned, and first of those.
LEMMA BestOf ==
    ASSUME NEW away, away \subseteq 1..8, away # {}, NEW align \in [1..8 -> -2..2]
    PROVE  \E i \in away : \A j \in away :
              align[i] > align[j] \/ (align[i] = align[j] /\ i <= j)
<1> DEFINE rank == [i \in 1..8 |-> 8 * (2 - align[i]) + i]
           S == {rank[i] : i \in away}
<1>1. \A i \in 1..8 : rank[i] = 8 * (2 - align[i]) + i /\ rank[i] \in Nat
  BY SMTT(30)
<1> HIDE DEF rank
<1>2. S \subseteq Nat /\ S # {}
  BY <1>1
<1>3. PICK r \in S : \A k \in S : r <= k
  BY <1>2, LeastOf
<1>4. PICK i \in away : r = rank[i]
  OBVIOUS
<1>5. ASSUME NEW j \in away PROVE align[i] > align[j] \/ (align[i] = align[j] /\ i <= j)
  <2>1. rank[i] <= rank[j]
    BY <1>3, <1>4
  <2>2. align[i] \in Int /\ align[j] \in Int /\ i \in Int /\ j \in Int /\ 1 <= i /\ i <= 8 /\ 1 <= j
        /\ j <= 8
    OBVIOUS
  <2>3. 8 * (2 - align[i]) + i <= 8 * (2 - align[j]) + j
    BY <1>1, <2>1
  <2> QED BY <2>2, <2>3
<1> QED BY <1>5

\* A step to flee by is one that can be taken and leads away.
LEMMA FleeStepLeads ==
    ASSUME NEW m, NEW from, NEW threat, FleeStep(m, from, threat) # << >>
    PROVE  \E dir \in Direction :
              LET to == Offset(from, Delta[dir][1], Delta[dir][2])
              IN  /\ FleeStep(m, from, threat) = <<dir>> /\ CanStep(m, from, to)
                  /\ Distance(to, threat) > Distance(from, threat)
<1> DEFINE to(i) == Offset(from, Delta[Tries[i]][1], Delta[Tries[i]][2])
           align(i) == Delta[Tries[i]][1] * Signum(from[1] - threat[1])
                       + Delta[Tries[i]][2] * Signum(from[2] - threat[2])
           away == {i \in 1..8 : /\ CanStep(m, from, to(i))
                                 /\ Distance(to(i), threat) > Distance(from, threat)}
           better(i, j) == \/ align(i) > align(j)
                           \/ align(i) = align(j) /\ i <= j
           best == CHOOSE i \in away : \A j \in away : better(i, j)
           al == [i \in 1..8 |-> align(i)]
<1>1. away # {} /\ FleeStep(m, from, threat) = <<Tries[best]>>
  BY DEF FleeStep
<1>2. al \in [1..8 -> -2..2]
  <2>1. ASSUME NEW i \in 1..8 PROVE align(i) \in -2..2
    <3> DEFINE sx == Signum(from[1] - threat[1])
               sy == Signum(from[2] - threat[2])
               dx == Delta[Tries[i]][1]
               dy == Delta[Tries[i]][2]
    <3>1. sx \in -1..1 /\ sy \in -1..1
      BY DEF Signum
    <3>2. dx \in -1..1 /\ dy \in -1..1
      <4>1. Tries[i] \in {"North", "East", "South", "West", "NorthEast", "NorthWest",
                          "SouthEast", "SouthWest"}
        BY DEF Tries
      <4> QED BY <4>1 DEF Delta
    <3> HIDE DEF sx, sy, dx, dy
    <3>3. dx * sx + dy * sy \in -2..2
      BY <3>1, <3>2
    <3> QED BY <3>3 DEF sx, sy, dx, dy
  <2> QED BY <2>1
<1>3. \A i \in 1..8 : al[i] = align(i)
  OBVIOUS
<1>4. away \subseteq 1..8
  OBVIOUS
<1> HIDE DEF al, align
<1>5. \E i \in away : \A j \in away : better(i, j)
  <2> HIDE DEF away
  <2>1. PICK i \in away : \A j \in away : al[i] > al[j] \/ (al[i] = al[j] /\ i <= j)
    BY <1>1, <1>2, <1>4, BestOf
  <2> QED BY <2>1, <1>3, <1>4
<1> HIDE DEF better
<1>6. best \in away
  <2> HIDE DEF away
  <2> QED BY <1>5
<1>7. Tries[best] \in Direction
  <2> HIDE DEF best, away
  <2>1. best \in 1..8
    BY <1>4, <1>6
  <2> QED BY <2>1 DEF Tries, Direction, Delta
<1>8. CanStep(m, from, to(best)) /\ Distance(to(best), threat) > Distance(from, threat)
  <2> HIDE DEF best
  <2> QED BY <1>6
<1> HIDE DEF best
<1> QED BY <1>1, <1>7, <1>8

LEMMA RunsStep ==
    ASSUME Inv, NEW m \in Monsters, MonsterTurn(m), monster[m].scared,
           Nearest(monster[m].at, FleeSight) # {}
    PROVE  \E p \in Nearest(monster[m].at, FleeSight) :
              \/ FleeStep(m, monster[m].at, player[p].at) = << >>
              \/ Distance(monster'[m].at, player[p].at) > Distance(monster[m].at, player[p].at)
<1> DEFINE c == monster[m]
           threats == Nearest(c.at, FleeSight)
<1>1. MonsterGood(c) /\ monster = [x \in Monsters |-> monster[x]]
  BY DEF Inv, MonstersGood
<1>2. PICK fled \in Flees(m, c) : \E keen \in Aggro(fled) :
        LET d == LetsGo(m, keen)
        IN  IF Gone(d) THEN monster' = [monster EXCEPT ![m] = [d EXCEPT !.follow = NoOne]]
            ELSE \E chasing \in Chases(d) : \E going \in Wanders(chasing) :
                    monster' = [monster EXCEPT ![m] = StepMonster(m, going)]
  BY DEF MonsterTurn
<1>3. PICK p \in threats : fled = Plan(Drop(c), FleeStep(m, c.at, player[p].at))
  BY DEF Flees
<1> DEFINE away == FleeStep(m, c.at, player[p].at)
<1> SUFFICES ASSUME away # << >>
             PROVE  Distance(monster'[m].at, player[p].at) > Distance(c.at, player[p].at)
  OBVIOUS
<1>4. PICK dir : LET to == Offset(c.at, Delta[dir][1], Delta[dir][2])
                 IN  /\ away = <<dir>> /\ CanStep(m, c.at, to)
                     /\ Distance(to, player[p].at) > Distance(c.at, player[p].at)
  BY FleeStepLeads
<1> DEFINE to == Offset(c.at, Delta[dir][1], Delta[dir][2])
\* The flight outlives the rest of the turn: it follows no one and has
\* a step queued.
<1>5. /\ MonsterGood(fled) /\ fled.at = c.at /\ fled.scared /\ fled.follow = NoOne
      /\ fled.queue = <<dir>>
  <2>1. MonsterGood(Drop(c)) /\ Drop(c).at = c.at /\ Drop(c).scared = c.scared
        /\ Drop(c).follow = NoOne
    BY <1>1, DropGood
  <2> DEFINE calm == Drop(c)
  <2>2. fled = Plan(calm, away) /\ away # << >>
    BY <1>3
  <2> HIDE DEF calm, away
  <2>3. MonsterGood(calm)
    BY <2>1 DEF calm
  <2>4. /\ MonsterGood(fled) /\ fled.at = calm.at /\ fled.follow = calm.follow
        /\ fled.scared = calm.scared /\ fled.queue = away
    <3> DEFINE d == Plan(calm, away)
    <3>1. /\ MonsterGood(d) /\ d.at = calm.at /\ d.follow = calm.follow /\ d.scared = calm.scared
          /\ d.queue = IF away = << >> THEN calm.queue ELSE away
      BY <2>3, PlanBeast
    <3> QED BY <2>2, <3>1
  <2> QED BY <1>4, <2>1, <2>4 DEF calm
<1>6. Aggro(fled) = {fled}
  BY <1>5 DEF Aggro
<1>7. LetsGo(m, fled) = fled
  BY <1>5, WalkingAssumption DEF LetsGo, Sheltered, Creatures
<1>8. ~ Gone(fled) /\ Chases(fled) = {fled} /\ Wanders(fled) = {fled}
  BY <1>5 DEF Gone, Chases, Wanders
<1>9. monster' = [monster EXCEPT ![m] = StepMonster(m, fled)]
  BY <1>2, <1>6, <1>7, <1>8
<1>10. StepMonster(m, fled) = [Popped(fled, to) EXCEPT !.at = to]
  <2>1. fled.queue # << >> /\ Head(fled.queue) = dir
    BY <1>5
  <2> QED BY <1>4, <1>5, <2>1 DEF StepMonster
<1>11. [Popped(fled, to) EXCEPT !.at = to].at = to
  <2> DEFINE a == Popped(fled, to)
  <2>1. Beast(a)
    BY <1>5, PoppedBeast
  <2> HIDE DEF a
  <2> QED BY <2>1 DEF Beast
<1>12. monster'[m].at = to
  BY <1>1, <1>9, <1>10, <1>11
<1> QED BY <1>4, <1>12

\* A scared monster in sight of a player that has a way out takes it: what
\* the rest of its turn decides (fights, chases, strolls) never turns the
\* flight into a step closer (game/mod.rs on_monster_ai_tick, flee branch).
THEOREM Flight == Spec => RunsAway
<1>1. ASSUME Inv, [Next]_vars, NEW m \in Monsters, m \in due.monsters \ due'.monsters
      PROVE  MonsterTurn(m)
  <2>1. CASE Tick
    BY <1>1, <2>1 DEF Tick, Idle
  <2>2. ASSUME NEW n \in Monsters, MonsterTurn(n) PROVE MonsterTurn(m)
    <3>1. due'.monsters = due.monsters \ {n}
      BY <1>1, <2>2 DEF MonsterTurn, Inv, TurnsGood
    <3> QED BY <1>1, <2>2, <3>1
  <2>3. ASSUME NEW p \in Players, PlayerTurn(p) PROVE FALSE
    BY <1>1, <2>3 DEF PlayerTurn
  <2>4. CASE due' = due
    BY <1>1, <2>4
  <2>5. \/ Tick \/ due' = due
        \/ \E n \in Monsters : MonsterTurn(n)
        \/ \E p \in Players : PlayerTurn(p)
    BY <1>1 DEF Next, Turn, Order, Login, Logout, Perish, Lock, Teleport, Move, FollowTarget,
        ClearAutoWalk, GoToSteps, GoToPosition, CombatTick, Die, Respawn, Wound, vars
  <2> QED BY <2>1, <2>2, <2>3, <2>4, <2>5
<1>2. ASSUME Inv, [Next]_vars
      PROVE  \A m \in Monsters :
        LET c == monster[m]
            threats == Nearest(c.at, FleeSight)
        IN  c.scared /\ threats # {} /\ m \in due.monsters \ due'.monsters =>
                \E p \in threats :
                    \/ FleeStep(m, c.at, player[p].at) = << >>
                    \/ Distance(monster'[m].at, player[p].at) > Distance(c.at, player[p].at)
  BY <1>1, <1>2, RunsStep
<1> QED BY <1>2, InitGood, InvStep, PTL DEF Spec, RunsAway

(***************************************************************************)
(* What a search may return is a way: each tile of a trail is next to the  *)
(* one before.                                                             *)
(***************************************************************************)
\* What holds of 0, and of n if it holds of n-1, holds of all.
LEMMA Climb ==
    ASSUME NEW n \in Nat, NEW S, 0 \in S, \A k \in 1..n : k - 1 \in S => k \in S
    PROVE  \A k \in 0..n : k \in S
<1> DEFINE Bad == {k \in 0..n : k \notin S}
<1>1. SUFFICES ASSUME Bad # {} PROVE FALSE
  OBVIOUS
<1>2. PICK m \in Bad : \A k \in Bad : m <= k
  <2>1. Bad \subseteq Nat
    OBVIOUS
  <2> HIDE DEF Bad
  <2> QED BY <1>1, <2>1, LeastOf
<1>3. m \in 1..n /\ m - 1 \in 0..n
  OBVIOUS
<1>4. m - 1 \notin Bad
  BY <1>2, <1>3
<1> QED BY <1>3, <1>4

\* Steps between n+1 stages: G gives from the k-th step and the stage before
\* it the stage after it.
StepsIn(n, V, G) == \A k \in 1..n : \A v \in V : G[<<k, v>>] \in V
Stages(n, V, a, G, f) ==
    f \in [0..n -> V] /\ f[0] = a /\ \A k \in 1..n : f[k] = G[<<k, f[k-1]>>]

LEMMA Unwinds ==
    ASSUME NEW n \in Nat, NEW V, NEW a \in V, NEW G, StepsIn(n, V, G)
    PROVE  \E f : Stages(n, V, a, G, f)
<1> DEFINE Solves(m, f) == f[0] = a /\ \A k \in 1..m : f[k] = G[<<k, f[k-1]>>]
           S == {m \in Nat : m <= n => \E f \in [0..m -> V] : Solves(m, f)}
<1>1. 0 \in S
  <2> DEFINE f == [k \in 0..0 |-> a]
  <2>1. f \in [0..0 -> V] /\ Solves(0, f)
    OBVIOUS
  <2> QED BY <2>1
<1>2. ASSUME NEW m \in 1..n, m - 1 \in S PROVE m \in S
  <2>1. m - 1 <= n /\ m \in Nat /\ m - 1 \in Nat
    OBVIOUS
  <2>2. PICK f \in [0..m-1 -> V] : Solves(m - 1, f)
    BY <1>2, <2>1
  <2> DEFINE h == [k \in 0..m |-> IF k = m THEN G[<<m, f[m-1]>>] ELSE f[k]]
  <2>3. f[m-1] \in V
    BY <2>1
  <2>5. G[<<m, f[m-1]>>] \in V
    BY <2>3 DEF StepsIn
  <2> DEFINE v == G[<<m, f[m-1]>>]
  <2>6. h \in [0..m -> V]
    <3>1. \A k \in 0..m : k # m => k \in 0..m-1 /\ f[k] \in V
      BY <2>1
    <3>2. v \in V
      BY <2>5
    <3>3. h = [k \in 0..m |-> IF k = m THEN v ELSE f[k]]
      OBVIOUS
    <3> HIDE DEF v, h
    <3> QED BY <3>1, <3>2, <3>3
  <2>0. \A k \in 0..m : h[k] = IF k = m THEN v ELSE f[k]
    OBVIOUS
  <2> HIDE DEF h
  <2>7. Solves(m, h)
    <3>1. h[0] = a
      BY <2>0, <2>1, <2>2
    <3>2. ASSUME NEW k \in 1..m PROVE h[k] = G[<<k, h[k-1]>>]
      <4>1. k - 1 \in 0..m /\ k - 1 # m /\ k \in 0..m
        BY <2>1
      <4>2. h[k-1] = f[k-1]
        BY <2>0, <4>1
      <4>3. CASE k = m
        BY <2>0, <4>1, <4>2, <4>3
      <4>4. CASE k # m
        <5>1. k \in 1..m-1
          BY <2>1, <4>4
        <5>2. h[k] = f[k] /\ f[k] = G[<<k, f[k-1]>>]
          BY <2>0, <2>2, <4>1, <4>4, <5>1
        <5> QED BY <4>2, <5>2
      <4> QED BY <4>3, <4>4
    <3> QED BY <3>1, <3>2
  <2> HIDE DEF Solves
  <2> QED BY <2>1, <2>6, <2>7
<1>3. n \in S
  <2> HIDE DEF S
  <2>1. \A k \in 0..n : k \in S
    BY <1>1, <1>2, Climb
  <2> QED BY <2>1
<1> QED BY <1>3 DEF Stages

Place == Position \cup {Nowhere}
Next1(p, q) == \E d \in Direction : q = Offset(p, Delta[d][1], Delta[d][2])
Chain(t) ==
    /\ t \in Seq(Place) /\ Len(t) >= 1
    /\ \A i \in 1..Len(t)-1 : Next1(t[i], t[i+1])
Chains == {t \in Seq(Place) : Chain(t)}

Onward(from, avoid, t) ==
    {q \in {Offset(Last(t), Delta[d][1], Delta[d][2]) : d \in Direction} \ {Nowhere} :
        Searched(q, from, avoid) /\ ~ Contains(t, q)}
Longer(from, goals, avoid, S) ==
    UNION {{Append(t, q) : q \in Onward(from, avoid, t)} : t \in {s \in S : Last(s) \notin goals}}
Trails(from, goals, avoid, g) ==
    g = [n \in 0..Longest |->
            IF n = 0 THEN {<<from>>} ELSE Longer(from, goals, avoid, g[n-1])]

LEMMA OffsetIs ==
    ASSUME NEW p, NEW dx, NEW dy
    PROVE  Offset(p, dx, dy) \in Place
BY DEF Offset, ToPosition, Place

LEMMA Lengthens ==
    ASSUME NEW from, NEW goals, NEW avoid, NEW S \in SUBSET Chains
    PROVE  Longer(from, goals, avoid, S) \in SUBSET Chains
<1>1. ASSUME NEW t \in S, NEW q \in Onward(from, avoid, t) PROVE Append(t, q) \in Chains
  <2>1. t \in Seq(Place) /\ Chain(t) /\ Len(t) \in Nat /\ Len(t) >= 1
    BY DEF Chains, Chain
  <2>2. PICK d \in Direction : q = Offset(Last(t), Delta[d][1], Delta[d][2])
    BY DEF Onward
  <2>3. q \in Place /\ Next1(t[Len(t)], q)
    BY <2>2, OffsetIs DEF Next1, Last
  <2> DEFINE u == Append(t, q)
  <2>4. u \in Seq(Place) /\ Len(u) = Len(t) + 1 /\ u[Len(t) + 1] = q /\ \A i \in 1..Len(t) : u[i] = t[i]
    BY <2>1, <2>3
  <2> HIDE DEF u
  <2>5. ASSUME NEW i \in 1..Len(u)-1 PROVE Next1(u[i], u[i+1])
    <3>1. i \in 1..Len(t)
      BY <2>1, <2>4
    <3>2. CASE i = Len(t)
      BY <2>3, <2>4, <3>1, <3>2
    <3>3. CASE i # Len(t)
      <4>1. i \in 1..Len(t)-1 /\ i + 1 \in 1..Len(t)
        BY <2>1, <3>1, <3>3
      <4>2. u[i] = t[i] /\ u[i+1] = t[i+1]
        BY <2>4, <3>1, <4>1
      <4>3. Next1(t[i], t[i+1])
        BY <2>1, <4>1 DEF Chain
      <4> QED BY <4>2, <4>3
    <3> QED BY <3>2, <3>3
  <2>6. Len(u) >= 1
    BY <2>1, <2>4
  <2>7. u \in Chains
    BY <2>4, <2>5, <2>6 DEF Chains, Chain
  <2> QED BY <2>7 DEF u
<1>2. ASSUME NEW u \in Longer(from, goals, avoid, S)
      PROVE  \E t \in S : \E q \in Onward(from, avoid, t) : u = Append(t, q)
  BY DEF Longer
<1>3. \A u \in Longer(from, goals, avoid, S) : u \in Chains
  BY <1>1, <1>2
<1> QED BY <1>3

LEMMA TrailsExist ==
    ASSUME NEW from \in Place, NEW goals, NEW avoid
    PROVE  \E g : Trails(from, goals, avoid, g)
<1> DEFINE V == SUBSET Chains
           U == (1..Longest) \X V
           G == [u \in U |-> Longer(from, goals, avoid, u[2])]
           a == {<<from>>}
<1>1. Longest \in Nat
  BY WalkingAssumption
<1>2. a \in V
  <2> DEFINE t == <<from>>
  <2>1. t \in Seq(Place) /\ Len(t) = 1
    OBVIOUS
  <2>2. Chain(t)
    BY <2>1 DEF Chain
  <2> QED BY <2>1, <2>2 DEF Chains
<1>3. ASSUME NEW k \in 1..Longest, NEW v \in V
      PROVE  G[<<k, v>>] = Longer(from, goals, avoid, v) /\ G[<<k, v>>] \in V
  <2>1. <<k, v>> \in U
    OBVIOUS
  <2>2. G[<<k, v>>] = Longer(from, goals, avoid, v)
    BY <2>1
  <2>3. Longer(from, goals, avoid, v) \in V
    BY Lengthens
  <2> HIDE DEF G
  <2> QED BY <2>2, <2>3
<1>4. PICK f : Stages(Longest, V, a, G, f)
  <2> HIDE DEF V, U, G, a
  <2>1. StepsIn(Longest, V, G)
    BY <1>3 DEF StepsIn
  <2> QED BY <1>1, <1>2, <2>1, Unwinds
<1>5. ASSUME NEW k \in 1..Longest PROVE f[k] = Longer(from, goals, avoid, f[k-1])
  <2> HIDE DEF V, U, G, a
  <2>1. k - 1 \in 0..Longest
    BY <1>1
  <2>2. f[k-1] \in V
    BY <1>4, <2>1 DEF Stages
  <2> QED BY <1>3, <1>4, <2>2 DEF Stages
<1>6. \A k \in 0..Longest : k # 0 => k \in 1..Longest
  BY <1>1
<1>7. f[0] = {<<from>>} /\ f = [k \in 0..Longest |-> f[k]]
  <2>1. f[0] = a /\ f = [k \in 0..Longest |-> f[k]]
    <3> HIDE DEF V, U, G, a
    <3> QED BY <1>4 DEF Stages
  <2> QED BY <2>1
<1>8. f = [k \in 0..Longest |-> IF k = 0 THEN {<<from>>} ELSE Longer(from, goals, avoid, f[k-1])]
  <2> HIDE DEF V, U, G, a
  <2> QED BY <1>5, <1>6, <1>7
<1> QED BY <1>8 DEF Trails

LEMMA TrailsAre ==
    ASSUME NEW from \in Place, NEW goals, NEW avoid, NEW g, Trails(from, goals, avoid, g)
    PROVE  \A n \in 0..Longest : g[n] \in SUBSET Chains
<1> DEFINE R == {n \in 0..Longest : g[n] \in SUBSET Chains}
<1>1. Longest \in Nat
  BY WalkingAssumption
<1>2. 0 \in R
  <2> DEFINE t == <<from>>
  <2>1. t \in Seq(Place) /\ Len(t) = 1
    OBVIOUS
  <2>2. Chain(t)
    BY <2>1 DEF Chain
  <2>3. t \in Chains
    BY <2>1, <2>2 DEF Chains
  <2>4. g[0] = {t}
    BY <1>1 DEF Trails
  <2> HIDE DEF t
  <2> QED BY <1>1, <2>3, <2>4
<1>3. ASSUME NEW n \in 1..Longest, n - 1 \in R PROVE n \in R
  <2>1. n \in 0..Longest /\ n # 0
    BY <1>1
  <2>2. g[n] = Longer(from, goals, avoid, g[n-1])
    BY <2>1 DEF Trails
  <2> QED BY <1>3, <2>1, <2>2, Lengthens
<1>4. \A n \in 0..Longest : n \in R
  <2> HIDE DEF R
  <2> QED BY <1>1, <1>2, <1>3, Climb
<1> QED BY <1>4

LEMMA PathsAre ==
    ASSUME NEW from \in Place, NEW goals, NEW avoid, NEW path \in Paths(from, goals, avoid)
    PROVE  path \in Seq(Direction)
<1> DEFINE g == CHOOSE f : Trails(from, goals, avoid, f)
<1>1. Paths(from, goals, avoid) =
          {<< >>} \cup {Steps(t) : t \in {s \in UNION {g[n] : n \in 0..Longest} : Last(s) \in goals}}
  BY DEF Paths, Trails, Longer, Onward
<1>2. Trails(from, goals, avoid, g)
  BY TrailsExist
<1> HIDE DEF g
<1>3. \A n \in 0..Longest : g[n] \in SUBSET Chains
  BY <1>2, TrailsAre
<1>4. CASE path = << >>
  BY <1>4
<1>5. CASE path # << >>
  <2>1. PICK t : path = Steps(t) /\ t \in Chains
    BY <1>1, <1>3, <1>5
  <2>2. Len(t) \in Nat /\ Len(t) >= 1 /\ \A i \in 1..Len(t)-1 : Next1(t[i], t[i+1])
    BY <2>1 DEF Chains, Chain
  <2> DEFINE w(i) == CHOOSE d \in Direction : t[i+1] = Offset(t[i], Delta[d][1], Delta[d][2])
  <2>3. \A i \in 1..Len(t)-1 : w(i) \in Direction
    BY <2>2 DEF Next1
  <2>4. path = [i \in 1..Len(t)-1 |-> w(i)]
    BY <2>1 DEF Steps
  <2> HIDE DEF w
  <2>5. Len(t) - 1 \in Nat
    BY <2>2
  <2> QED BY <2>3, <2>4, <2>5
<1> QED BY <1>4, <1>5

(***************************************************************************)
(* Types.                                                                  *)
(***************************************************************************)
PlayerState ==
    [at : Footing \cup {Nowhere}, goto : Clicks \cup {Nowhere},
     follow : Creatures \cup {NoOne, Departed}, queue : Seq(Direction),
     origin : Position \cup {Nowhere}, failed : 0..2, rest : 0..StepTime, locked : BOOLEAN]
MonsterState ==
    [at : Footing \cup {Nowhere}, attacking : Players \cup {NoOne, Departed},
     follow : Players \cup {NoOne, Departed}, queue : Seq(Direction),
     origin : Position \cup {Nowhere}, scared : BOOLEAN]

PlayersTyped == player \in [Players -> PlayerState]
MonstersTyped == monster \in [Monsters -> MonsterState]

LEMMA TypeIs == TypeOK <=> PlayersTyped /\ MonstersTyped /\ TurnsGood /\ bucket \in 0..Buckets-1
BY DEF TypeOK, PlayersTyped, MonstersTyped, PlayerState, MonsterState, TurnsGood

\* One stands on tiles of the map.
LEMMA FootingIs == Footing \subseteq Position /\ World.ground \subseteq Footing
BY WalkingAssumption DEF Footing

LEMMA FreshTyped ==
    ASSUME NEW pos \in Footing \cup {Nowhere}
    PROVE  Fresh(pos) \in PlayerState /\ Newborn(pos) \in MonsterState
<1>1. /\ << >> \in Seq(Direction) /\ Nowhere \in Clicks \cup {Nowhere}
      /\ Nowhere \in Position \cup {Nowhere}
  OBVIOUS
<1>2. StepTime \in 0..StepTime /\ 0 \in 0..2
  BY WalkingAssumption
<1>3. Fresh(pos) \in PlayerState
  BY <1>1, <1>2 DEF Fresh, PlayerState
<1>4. Newborn(pos) \in MonsterState
  BY <1>1 DEF Newborn, MonsterState
<1> QED BY <1>3, <1>4

\* A player with one field changed.
LEMMA FieldTyped ==
    ASSUME NEW c \in PlayerState
    PROVE  /\ Walker(c)
           /\ \A x \in Footing \cup {Nowhere} : [c EXCEPT !.at = x] \in PlayerState
           /\ \A x \in Clicks \cup {Nowhere} : [c EXCEPT !.goto = x] \in PlayerState
           /\ \A x \in Creatures \cup {NoOne, Departed} : [c EXCEPT !.follow = x] \in PlayerState
           /\ \A x \in Seq(Direction) : [c EXCEPT !.queue = x] \in PlayerState
           /\ \A x \in Position \cup {Nowhere} : [c EXCEPT !.origin = x] \in PlayerState
           /\ \A x \in 0..2 : [c EXCEPT !.failed = x] \in PlayerState
           /\ \A x \in 0..StepTime : [c EXCEPT !.rest = x] \in PlayerState
           /\ \A x \in BOOLEAN : [c EXCEPT !.locked = x] \in PlayerState
<1> DEFINE A == Footing \cup {Nowhere}
           B == Clicks \cup {Nowhere}
           C == Creatures \cup {NoOne, Departed}
           D == Seq(Direction)
           E == Position \cup {Nowhere}
           F == 0..2
           G == 0..StepTime
<1>1. PlayerState = [at : A, goto : B, follow : C, queue : D, origin : E, failed : F, rest : G,
                     locked : BOOLEAN]
  BY DEF PlayerState
<1> HIDE DEF A, B, C, D, E, F, G
<1>2. Walker(c)
  BY <1>1 DEF Walker
<1>3. \A x \in A : [c EXCEPT !.at = x] \in PlayerState
  BY <1>1
<1>4. \A x \in B : [c EXCEPT !.goto = x] \in PlayerState
  BY <1>1
<1>5. \A x \in C : [c EXCEPT !.follow = x] \in PlayerState
  BY <1>1
<1>6. \A x \in D : [c EXCEPT !.queue = x] \in PlayerState
  BY <1>1
<1>7. \A x \in E : [c EXCEPT !.origin = x] \in PlayerState
  BY <1>1
<1>8. \A x \in F : [c EXCEPT !.failed = x] \in PlayerState
  BY <1>1
<1>9. \A x \in G : [c EXCEPT !.rest = x] \in PlayerState
  BY <1>1
<1>10. \A x \in BOOLEAN : [c EXCEPT !.locked = x] \in PlayerState
  BY <1>1
<1> QED BY <1>2, <1>3, <1>4, <1>5, <1>6, <1>7, <1>8, <1>9, <1>10 DEF A, B, C, D, E, F, G

\* A monster with one field changed.
LEMMA BeastFieldTyped ==
    ASSUME NEW c \in MonsterState
    PROVE  /\ Beast(c)
           /\ \A x \in Footing \cup {Nowhere} : [c EXCEPT !.at = x] \in MonsterState
           /\ \A x \in Players \cup {NoOne, Departed} :
                [c EXCEPT !.attacking = x] \in MonsterState /\ [c EXCEPT !.follow = x] \in MonsterState
           /\ \A x \in Seq(Direction) : [c EXCEPT !.queue = x] \in MonsterState
           /\ \A x \in Position \cup {Nowhere} : [c EXCEPT !.origin = x] \in MonsterState
           /\ \A x \in BOOLEAN : [c EXCEPT !.scared = x] \in MonsterState
<1> DEFINE A == Footing \cup {Nowhere}
           C == Players \cup {NoOne, Departed}
           D == Seq(Direction)
           E == Position \cup {Nowhere}
<1>1. MonsterState = [at : A, attacking : C, follow : C, queue : D, origin : E, scared : BOOLEAN]
  BY DEF MonsterState
<1> HIDE DEF A, C, D, E
<1>2. Beast(c)
  BY <1>1 DEF Beast
<1>3. \A x \in A : [c EXCEPT !.at = x] \in MonsterState
  BY <1>1
<1>4. \A x \in C : /\ [c EXCEPT !.attacking = x] \in MonsterState
                 /\ [c EXCEPT !.follow = x] \in MonsterState
  BY <1>1
<1>5. \A x \in D : [c EXCEPT !.queue = x] \in MonsterState
  BY <1>1
<1>6. \A x \in E : [c EXCEPT !.origin = x] \in MonsterState
  BY <1>1
<1>7. \A x \in BOOLEAN : [c EXCEPT !.scared = x] \in MonsterState
  BY <1>1
<1> QED BY <1>2, <1>3, <1>4, <1>5, <1>6, <1>7 DEF A, C, D, E

LEMMA FieldsAre ==
    /\ \A c \in PlayerState : /\ c.at \in Place /\ c.at \in Footing \cup {Nowhere}
                              /\ c.follow \in Creatures \cup {NoOne, Departed}
                              /\ c.goto \in Clicks \cup {Nowhere}
                              /\ c.queue \in Seq(Direction) /\ c.origin \in Place
                              /\ c.failed \in 0..2 /\ c.rest \in 0..StepTime /\ c.locked \in BOOLEAN
    /\ \A c \in MonsterState : /\ c.at \in Place /\ c.at \in Footing \cup {Nowhere}
                               /\ c.attacking \in Players \cup {NoOne, Departed}
                               /\ c.follow \in Players \cup {NoOne, Departed}
                               /\ c.queue \in Seq(Direction) /\ c.origin \in Place
                               /\ c.scared \in BOOLEAN
<1> USE FootingIs DEF Place
<1>1. \A c \in PlayerState : /\ c.at \in Place /\ c.at \in Footing \cup {Nowhere}
                              /\ c.follow \in Creatures \cup {NoOne, Departed}
                              /\ c.goto \in Clicks \cup {Nowhere}
                              /\ c.queue \in Seq(Direction) /\ c.origin \in Place
                              /\ c.failed \in 0..2 /\ c.rest \in 0..StepTime /\ c.locked \in BOOLEAN
  BY DEF PlayerState
<1>2. \A c \in MonsterState : /\ c.at \in Place /\ c.at \in Footing \cup {Nowhere}
                               /\ c.attacking \in Players \cup {NoOne, Departed}
                               /\ c.follow \in Players \cup {NoOne, Departed}
                               /\ c.queue \in Seq(Direction) /\ c.origin \in Place
                               /\ c.scared \in BOOLEAN
  BY DEF MonsterState
<1> QED BY <1>1, <1>2

LEMMA ClearTyped ==
    /\ \A c \in PlayerState : Clear(c) \in PlayerState
    /\ \A c \in MonsterState : Clear(c) \in MonsterState
<1>1. << >> \in Seq(Direction)
  OBVIOUS
<1>2. ASSUME NEW c \in PlayerState PROVE Clear(c) \in PlayerState
  <2> DEFINE d == [c EXCEPT !.queue = << >>]
             e == [d EXCEPT !.origin = Nowhere]
  <2>1. d \in PlayerState
    BY <1>1, FieldTyped
  <2>2. Clear(c) = e
    BY FieldTyped, InTurn DEF Clear
  <2> HIDE DEF d
  <2> QED BY <2>1, <2>2, FieldTyped
<1>3. ASSUME NEW c \in MonsterState PROVE Clear(c) \in MonsterState
  <2> DEFINE d == [c EXCEPT !.queue = << >>]
             e == [d EXCEPT !.origin = Nowhere]
  <2>1. d \in MonsterState
    BY <1>1, BeastFieldTyped
  <2>2. Clear(c) = e
    BY BeastFieldTyped, BeastInTurn DEF Clear
  <2> HIDE DEF d
  <2> QED BY <2>1, <2>2, BeastFieldTyped
<1> QED BY <1>2, <1>3

LEMMA PlanTyped ==
    ASSUME NEW path \in Seq(Direction)
    PROVE  /\ \A c \in PlayerState : Plan(c, path) \in PlayerState
           /\ \A c \in MonsterState : Plan(c, path) \in MonsterState
<1>1. ASSUME NEW c \in PlayerState PROVE Plan(c, path) \in PlayerState
  <2> DEFINE d == [c EXCEPT !.queue = path]
             e == [d EXCEPT !.origin = c.at]
  <2>1. d \in PlayerState /\ c.at \in Place
    BY FieldTyped, FieldsAre
  <2>2. Plan(c, path) = c \/ Plan(c, path) = e
    BY FieldTyped, InTurn DEF Plan
  <2> HIDE DEF d
  <2> QED BY <2>1, <2>2, FieldTyped DEF Place
<1>2. ASSUME NEW c \in MonsterState PROVE Plan(c, path) \in MonsterState
  <2> DEFINE d == [c EXCEPT !.queue = path]
             e == [d EXCEPT !.origin = c.at]
  <2>1. d \in MonsterState /\ c.at \in Place
    BY BeastFieldTyped, FieldsAre
  <2>2. Plan(c, path) = c \/ Plan(c, path) = e
    BY BeastFieldTyped, BeastInTurn DEF Plan
  <2> HIDE DEF d
  <2> QED BY <2>1, <2>2, BeastFieldTyped DEF Place
<1> QED BY <1>1, <1>2

\* The rest of a queue, and where it was planned for.
LEMMA PoppedIs ==
    ASSUME NEW c, NEW to, c.queue \in Seq(Direction), c.queue # << >>
    PROVE  \E x \in Seq(Direction), y \in Place :
              Popped(c, to) = [c EXCEPT !.queue = x, !.origin = y]
<1> DEFINE dir == Head(c.queue)
           ahead == IF Tail(c.queue) = << >> \/ c.origin = Nowhere
                       \/ to # Offset(c.at, Delta[dir][1], Delta[dir][2])
                    THEN Nowhere ELSE Offset(c.origin, Delta[dir][1], Delta[dir][2])
<1>1. Tail(c.queue) \in Seq(Direction)
  OBVIOUS
<1>2. ahead \in Place
  BY OffsetIs DEF Place
<1>3. Popped(c, to) = [c EXCEPT !.queue = Tail(c.queue), !.origin = ahead]
  BY DEF Popped
<1> HIDE DEF ahead
<1> QED BY <1>1, <1>2, <1>3

LEMMA PoppedTyped ==
    ASSUME NEW to
    PROVE  /\ \A c \in PlayerState : c.queue # << >> => Popped(c, to) \in PlayerState
           /\ \A c \in MonsterState : c.queue # << >> => Popped(c, to) \in MonsterState
<1>1. ASSUME NEW c \in PlayerState, c.queue # << >> PROVE Popped(c, to) \in PlayerState
  <2>0. c.queue \in Seq(Direction)
    BY FieldsAre
  <2>1. PICK x \in Seq(Direction), y \in Place : Popped(c, to) = [c EXCEPT !.queue = x, !.origin = y]
    BY <1>1, <2>0, PoppedIs
  <2> DEFINE d == [c EXCEPT !.queue = x]
  <2>2. d \in PlayerState /\ Popped(c, to) = [d EXCEPT !.origin = y]
    BY <2>1, FieldTyped, InTurn
  <2> HIDE DEF d
  <2> QED BY <2>2, FieldTyped DEF Place
<1>2. ASSUME NEW c \in MonsterState, c.queue # << >> PROVE Popped(c, to) \in MonsterState
  <2>0. c.queue \in Seq(Direction)
    BY FieldsAre
  <2>1. PICK x \in Seq(Direction), y \in Place : Popped(c, to) = [c EXCEPT !.queue = x, !.origin = y]
    BY <1>2, <2>0, PoppedIs
  <2> DEFINE d == [c EXCEPT !.queue = x]
  <2>2. d \in MonsterState /\ Popped(c, to) = [d EXCEPT !.origin = y]
    BY <2>1, BeastFieldTyped, BeastInTurn
  <2> HIDE DEF d
  <2> QED BY <2>2, BeastFieldTyped DEF Place
<1> QED BY <1>1, <1>2

(***************************************************************************)
(* The turn of a player.                                                   *)
(***************************************************************************)
LEMMA StopWalkTyped ==
    ASSUME NEW c \in PlayerState
    PROVE  StopWalk(c) \in PlayerState
<1> DEFINE d == Clear(c)
           e == [d EXCEPT !.goto = Nowhere]
           f == [e EXCEPT !.follow = NoOne]
           g == [f EXCEPT !.failed = 0]
<1>1. d \in PlayerState
  BY ClearTyped
<1>2. StopWalk(c) = g
  BY <1>1, FieldTyped, InTurn DEF StopWalk
<1> HIDE DEF d
<1>3. e \in PlayerState
  BY <1>1, FieldTyped
<1> HIDE DEF e
<1>4. f \in PlayerState
  BY <1>3, FieldTyped
<1> HIDE DEF f
<1>5. g \in PlayerState
  <2>1. 0 \in 0..2
    OBVIOUS
  <2>2. \A x \in 0..2 : [f EXCEPT !.failed = x] \in PlayerState
    BY <1>4, FieldTyped
  <2> QED BY <2>1, <2>2
<1> QED BY <1>2, <1>5

LEMMA LandingIs ==
    ASSUME NEW p, NEW dir
    PROVE  Landing(p, dir) \in World.ground \cup {Nowhere}
BY DEF Landing, HasGround, IsWalkable

LEMMA LosesSightTyped ==
    ASSUME NEW t
    PROVE  /\ \A c \in PlayerState : LosesSight(c, t) \in PlayerState
           /\ \A c \in MonsterState : LosesSight(c, t) \in MonsterState
<1>1. ASSUME NEW c \in PlayerState PROVE LosesSight(c, t) \in PlayerState
  <2> DEFINE x == IF c.follow = t THEN Departed ELSE c.follow
  <2>1. LosesSight(c, t) = [c EXCEPT !.follow = x]
    BY DEF LosesSight
  <2>2. x \in Creatures \cup {NoOne, Departed}
    BY FieldsAre
  <2> HIDE DEF x
  <2> QED BY <2>1, <2>2, FieldTyped
<1>2. ASSUME NEW c \in MonsterState PROVE LosesSight(c, t) \in MonsterState
  <2> DEFINE x == IF c.follow = t THEN Departed ELSE c.follow
  <2>1. LosesSight(c, t) = [c EXCEPT !.follow = x]
    BY DEF LosesSight
  <2>2. x \in Players \cup {NoOne, Departed}
    BY FieldsAre
  <2> HIDE DEF x
  <2> QED BY <2>1, <2>2, BeastFieldTyped
<1> QED BY <1>1, <1>2

LEMMA AdvanceTyped ==
    ASSUME NEW p, NEW me \in PlayerState
    PROVE  Advance(p, me) \in PlayerState
<1> DEFINE to == Landing(p, Head(me.queue))
           s == StopWalk(me)
           a == Popped(me, to)
           b == [a EXCEPT !.at = to]
<1>1. \/ Advance(p, me) = me
      \/ Advance(p, me) = [s EXCEPT !.rest = 0]
      \/ me.queue # << >> /\ to # Nowhere /\ Advance(p, me) = [a EXCEPT !.at = to, !.rest = 0]
  BY DEF Advance
<1>2. to # Nowhere => to \in Footing \cup {Nowhere}
  BY LandingIs, FootingIs
<1>3. 0 \in 0..StepTime
  BY WalkingAssumption
<1> HIDE DEF to
<1>4. CASE Advance(p, me) = [s EXCEPT !.rest = 0]
  <2>1. s \in PlayerState
    BY StopWalkTyped
  <2> HIDE DEF s
  <2> QED BY <1>3, <1>4, <2>1, FieldTyped
<1>5. CASE me.queue # << >> /\ to # Nowhere /\ Advance(p, me) = [a EXCEPT !.at = to, !.rest = 0]
  <2>1. a \in PlayerState
    BY <1>5, PoppedTyped
  <2> HIDE DEF a
  <2>2. Advance(p, me) = [b EXCEPT !.rest = 0]
    BY <1>5, <2>1, FieldTyped, InTurn
  <2>3. b \in PlayerState
    BY <1>2, <1>5, <2>1, FieldTyped
  <2> HIDE DEF b
  <2> QED BY <1>3, <2>2, <2>3, FieldTyped
<1> QED BY <1>1, <1>4, <1>5

LEMMA ReplansTyped ==
    ASSUME NEW p, NEW me \in PlayerState, NEW goals, NEW path \in Paths(me.at, goals, me.locked)
    PROVE  Advance(p, Plan(me, path)) \in PlayerState
<1>1. path \in Seq(Direction)
  <2>1. me.at \in Place
    BY FieldsAre
  <2> QED BY <2>1, PathsAre
<1>2. Plan(me, path) \in PlayerState
  BY <1>1, PlanTyped
<1> QED BY <1>2, AdvanceTyped

LEMMA FollowTurnTyped ==
    ASSUME NEW p, player[p] \in PlayerState, NEW next \in FollowTurn(p)
    PROVE  next \in PlayerState
<1> DEFINE me == player[p]
           lost == [me EXCEPT !.follow = NoOne]
<1>1. lost \in PlayerState
  BY FieldTyped
<1>2. Clear(lost) \in PlayerState
  BY <1>1, ClearTyped
<1>3. \/ next = lost
      \/ next = Clear(lost)
      \/ next = Advance(p, me)
      \/ \E path \in Paths(me.at, Around(Here(me.follow)), me.locked) :
            next = Advance(p, Plan(me, path))
  BY DEF FollowTurn
<1> HIDE DEF lost
<1> QED BY <1>1, <1>2, <1>3, ReplansTyped, AdvanceTyped

LEMMA GoToTurnTyped ==
    ASSUME NEW p, player[p] \in PlayerState, NEW next \in GoToTurn(p)
    PROVE  next \in PlayerState
<1> DEFINE me == player[p]
           quiet == Clear(me)
           stopped == [quiet EXCEPT !.goto = Nowhere]
<1>1. quiet \in PlayerState
  BY ClearTyped
<1>2. \/ next = stopped
      \/ next = Advance(p, me)
      \/ \E path \in Paths(me.at, {me.goto}, me.locked) : next = Advance(p, Plan(me, path))
      \/ next = [quiet EXCEPT !.goto = Nowhere, !.failed = 0]
      \/ me.failed + 1 < 3 /\ next = [me EXCEPT !.failed = me.failed + 1]
  <2>1. me.failed \in 0..2
    BY FieldsAre
  <2> DEFINE paths == Paths(me.at, {me.goto}, me.locked)
             replans == {Advance(p, Plan(me, path)) : path \in paths \ {<< >>}}
  <2>2. \/ next = stopped \/ next = Advance(p, me) \/ next \in replans
        \/ me.failed + 1 >= 3 /\ next = [quiet EXCEPT !.goto = Nowhere, !.failed = 0]
        \/ ~ (me.failed + 1 >= 3) /\ next = [me EXCEPT !.failed = me.failed + 1]
    BY DEF GoToTurn
  <2>3. ~ (me.failed + 1 >= 3) => me.failed + 1 < 3
    BY <2>1
  <2> QED BY <2>2, <2>3
<1> HIDE DEF quiet
<1>3. stopped \in PlayerState
  BY <1>1, FieldTyped
<1>4. CASE next = [quiet EXCEPT !.goto = Nowhere, !.failed = 0]
  <2>1. next = [stopped EXCEPT !.failed = 0]
    BY <1>1, <1>4, FieldTyped, InTurn
  <2> HIDE DEF stopped
  <2>2. \A x \in 0..2 : [stopped EXCEPT !.failed = x] \in PlayerState
    BY <1>3, FieldTyped
  <2>3. 0 \in 0..2
    OBVIOUS
  <2> QED BY <2>1, <2>2, <2>3
<1>5. CASE me.failed + 1 < 3 /\ next = [me EXCEPT !.failed = me.failed + 1]
  <2>1. me.failed + 1 \in 0..2
    <3>1. me.failed \in 0..2
      BY FieldsAre
    <3> QED BY <1>5, <3>1
  <2> QED BY <1>5, <2>1, FieldTyped
<1> HIDE DEF stopped
<1> QED BY <1>2, <1>3, <1>4, <1>5, ReplansTyped, AdvanceTyped

(***************************************************************************)
(* The turn of a monster.                                                  *)
(***************************************************************************)
LEMMA RetargetedTyped ==
    ASSUME NEW c \in MonsterState, NEW x \in Players \cup {NoOne, Departed},
           NEW y \in Players \cup {NoOne, Departed}
    PROVE  Retargeted(c, x, y) \in MonsterState
<1> DEFINE e == [c EXCEPT !.attacking = x]
           d == [e EXCEPT !.follow = y]
<1>1. Retargeted(c, x, y) = d
  BY BeastFieldTyped, BeastInTurn DEF Retargeted
<1>2. e \in MonsterState
  BY BeastFieldTyped
<1> HIDE DEF e
<1>3. d \in MonsterState
  BY <1>2, BeastFieldTyped
<1> QED BY <1>1, <1>3

LEMMA DropTyped ==
    ASSUME NEW c \in MonsterState
    PROVE  Drop(c) \in MonsterState
<1>1. Drop(c) = Retargeted(c, NoOne, NoOne)
  BY DEF Drop, Retargeted
<1> QED BY <1>1, RetargetedTyped

LEMMA LosesFoeTyped ==
    ASSUME NEW c \in MonsterState, NEW t
    PROVE  LosesFoe(c, t) \in MonsterState /\ EndsFight(c, t) \in MonsterState
<1> DEFINE d == LosesSight(c, t)
           x == IF d.attacking = t THEN Departed ELSE d.attacking
           y == IF d.attacking = t THEN NoOne ELSE d.attacking
<1>1. d \in MonsterState
  BY LosesSightTyped
<1>2. LosesFoe(c, t) = [d EXCEPT !.attacking = x] /\ EndsFight(c, t) = [d EXCEPT !.attacking = y]
  BY DEF LosesFoe, EndsFight
<1> HIDE DEF d
<1>3. x \in Players \cup {NoOne, Departed} /\ y \in Players \cup {NoOne, Departed}
  BY <1>1, FieldsAre
<1> HIDE DEF x, y
<1> QED BY <1>1, <1>2, <1>3, BeastFieldTyped, ZenonT(30)

LEMMA FleeStepTyped ==
    ASSUME NEW m, NEW from, NEW threat
    PROVE  FleeStep(m, from, threat) \in Seq(Direction)
<1>1. CASE FleeStep(m, from, threat) = << >>
  BY <1>1
<1>2. CASE FleeStep(m, from, threat) # << >>
  <2>1. PICK dir \in Direction : FleeStep(m, from, threat) = <<dir>>
    BY <1>2, FleeStepLeads
  <2> QED BY <2>1
<1> QED BY <1>1, <1>2

LEMMA FleesTyped ==
    ASSUME NEW m, NEW c \in MonsterState, NEW d \in Flees(m, c)
    PROVE  d \in MonsterState
<1>1. d = c \/ d = Drop(c) \/ \E p : d = Plan(Drop(c), FleeStep(m, c.at, player[p].at))
  BY DEF Flees
<1>2. Drop(c) \in MonsterState
  BY DropTyped
<1> QED BY <1>1, <1>2, PlanTyped, FleeStepTyped

LEMMA AggroTyped ==
    ASSUME NEW c \in MonsterState, NEW d \in Aggro(c)
    PROVE  d \in MonsterState
<1>1. d = c \/ \E p \in Players : d = Hunt(c, p)
  BY DEF Aggro, Nearest
<1>2. ASSUME NEW p \in Players PROVE Hunt(c, p) \in MonsterState
  <2>1. Hunt(c, p) = Retargeted(c, p, p)
    BY DEF Hunt, Retargeted
  <2> QED BY <2>1, RetargetedTyped
<1> QED BY <1>1, <1>2

LEMMA LetsGoTyped ==
    ASSUME NEW m, NEW c \in MonsterState
    PROVE  LetsGo(m, c) \in MonsterState
<1> DEFINE d == Clear(Drop(c))
           away == FleeStep(m, c.at, player[c.follow].at)
<1>1. LetsGo(m, c) = c \/ LetsGo(m, c) = Plan(d, away)
  BY DEF LetsGo
<1>2. d \in MonsterState
  BY DropTyped, ClearTyped
<1>3. away \in Seq(Direction)
  BY FleeStepTyped
<1> HIDE DEF d, away
<1> QED BY <1>1, <1>2, <1>3, PlanTyped

LEMMA ChasesTyped ==
    ASSUME NEW c \in MonsterState, NEW d \in Chases(c)
    PROVE  d \in MonsterState
<1>1. d = c \/ \E goals : \E path \in Paths(c.at, goals, TRUE) : d = Plan(c, path)
  BY DEF Chases
<1>2. c.at \in Place
  BY FieldsAre
<1>3. ASSUME NEW goals, NEW path \in Paths(c.at, goals, TRUE) PROVE path \in Seq(Direction)
  BY <1>2, PathsAre
<1> QED BY <1>1, <1>3, PlanTyped

LEMMA WandersTyped ==
    ASSUME NEW c \in MonsterState, NEW d \in Wanders(c)
    PROVE  d \in MonsterState
<1> DEFINE Strolls == [1..WanderSteps -> {"North", "East", "South", "West"}]
<1>1. d = c \/ \E stroll \in Strolls : d = Plan(c, stroll)
  BY DEF Wanders
<1>2. {"North", "East", "South", "West"} \subseteq Direction
  BY DEF Direction, Delta
<1>3. ASSUME NEW stroll \in Strolls PROVE stroll \in Seq(Direction)
  <2>1. WanderSteps \in Nat
    BY WalkingAssumption
  <2>2. stroll \in [1..WanderSteps -> Direction]
    BY <1>2
  <2> QED BY <2>1, <2>2
<1> HIDE DEF Strolls
<1> QED BY <1>1, <1>3, PlanTyped

LEMMA StepMonsterTyped ==
    ASSUME NEW m, NEW c \in MonsterState
    PROVE  StepMonster(m, c) \in MonsterState
<1> DEFINE to == Offset(c.at, Delta[Head(c.queue)][1], Delta[Head(c.queue)][2])
           a == Popped(c, to)
<1>1. \/ StepMonster(m, c) = c
      \/ c.queue # << >> /\ CanStep(m, c.at, to) /\ StepMonster(m, c) = [a EXCEPT !.at = to]
      \/ StepMonster(m, c) = Clear(c)
  BY DEF StepMonster
<1> HIDE DEF to
<1>2. CASE c.queue # << >> /\ CanStep(m, c.at, to) /\ StepMonster(m, c) = [a EXCEPT !.at = to]
  <2>1. a \in MonsterState
    BY <1>2, PoppedTyped
  <2>2. to \in Footing
    BY <1>2, FootingIs DEF CanStep, IsWalkable
  <2> HIDE DEF a
  <2> QED BY <1>2, <2>1, <2>2, BeastFieldTyped
<1> QED BY <1>1, <1>2, ClearTyped

LEMMA MonsterTurnTyped ==
    ASSUME NEW m \in Monsters, monster[m] \in MonsterState, MonsterTurn(m)
    PROVE  \E d \in MonsterState : monster' = [monster EXCEPT ![m] = d]
<1>1. PICK fled \in Flees(m, monster[m]) : \E keen \in Aggro(fled) :
        LET c == LetsGo(m, keen)
        IN  IF Gone(c) THEN monster' = [monster EXCEPT ![m] = [c EXCEPT !.follow = NoOne]]
            ELSE \E chasing \in Chases(c) : \E going \in Wanders(chasing) :
                    monster' = [monster EXCEPT ![m] = StepMonster(m, going)]
  BY DEF MonsterTurn
<1>2. PICK keen \in Aggro(fled) :
        LET c == LetsGo(m, keen)
        IN  IF Gone(c) THEN monster' = [monster EXCEPT ![m] = [c EXCEPT !.follow = NoOne]]
            ELSE \E chasing \in Chases(c) : \E going \in Wanders(chasing) :
                    monster' = [monster EXCEPT ![m] = StepMonster(m, going)]
  BY <1>1
<1> DEFINE c == LetsGo(m, keen)
<1>3. c \in MonsterState
  <2>1. fled \in MonsterState
    BY FleesTyped
  <2>2. keen \in MonsterState
    BY <2>1, AggroTyped
  <2> QED BY <2>2, LetsGoTyped
<1> HIDE DEF c
<1>4. CASE Gone(c)
  <2>1. monster' = [monster EXCEPT ![m] = [c EXCEPT !.follow = NoOne]]
    BY <1>2, <1>4 DEF c
  <2>2. [c EXCEPT !.follow = NoOne] \in MonsterState
    BY <1>3, BeastFieldTyped
  <2> QED BY <2>1, <2>2
<1>5. CASE ~ Gone(c)
  <2>1. PICK chasing \in Chases(c) : \E going \in Wanders(chasing) :
          monster' = [monster EXCEPT ![m] = StepMonster(m, going)]
    BY <1>2, <1>5 DEF c
  <2>2. PICK going \in Wanders(chasing) : monster' = [monster EXCEPT ![m] = StepMonster(m, going)]
    BY <2>1
  <2>3. going \in MonsterState
    <3>1. chasing \in MonsterState
      BY <1>3, ChasesTyped
    <3> QED BY <3>1, WandersTyped
  <2>4. StepMonster(m, going) \in MonsterState
    BY <2>3, StepMonsterTyped
  <2> QED BY <2>2, <2>4
<1> QED BY <1>4, <1>5

(***************************************************************************)
(* Every step keeps the types.                                             *)
(***************************************************************************)
LEMMA InitTyped == Init => TypeOK
<1> SUFFICES ASSUME Init PROVE TypeOK
  OBVIOUS
<1>1. Fresh(Nowhere) \in PlayerState
  BY FreshTyped
<1>2. PlayersTyped
  BY <1>1 DEF Init, PlayersTyped
<1>3. \A m \in Monsters : Newborn(Dens[m]) \in MonsterState
  BY FreshTyped DEF Footing
<1>4. MonstersTyped
  BY <1>3 DEF Init, MonstersTyped
<1>5. TurnsGood
  BY DEF Init, TurnsGood
<1>6. bucket \in 0..Buckets-1
  BY WalkingAssumption DEF Init
<1> QED BY <1>2, <1>4, <1>5, <1>6, TypeIs

LEMMA PlayerStepTyped ==
    ASSUME PlayersTyped, NEW p \in Players,
           Login(p) \/ Lock(p) \/ (\E to \in Temples : Teleport(p, to)) \/ Order(p)
    PROVE  \E d \in PlayerState : player' = [player EXCEPT ![p] = d]
<1> DEFINE me == player[p]
           Set(d) == player' = [player EXCEPT ![p] = d]
<1>0. me \in PlayerState /\ me.at \in Place
  <2>1. me \in PlayerState
    BY DEF PlayersTyped
  <2> QED BY <2>1, FieldsAre
<1>1. CASE Login(p)
  <2>1. Fresh(Entrance) \in PlayerState
    BY FreshTyped DEF Footing
  <2>2. Set(Fresh(Entrance))
    BY <1>1 DEF Login
  <2> QED BY <2>1, <2>2
<1>2. CASE Lock(p)
  <2> DEFINE x == ~ me.locked
             d == [me EXCEPT !.locked = x]
  <2>1. Set(d)
    BY <1>2 DEF Lock
  <2>2. x \in BOOLEAN
    OBVIOUS
  <2> HIDE DEF x
  <2>3. d \in PlayerState
    BY <1>0, <2>2, FieldTyped
  <2> HIDE DEF d
  <2> QED BY <2>1, <2>3
<1>3. ASSUME NEW to \in Temples, Teleport(p, to) PROVE \E d \in PlayerState : Set(d)
  <2> DEFINE s == StopWalk(me)
             d == [s EXCEPT !.at = to]
  <2>1. s \in PlayerState
    BY <1>0, StopWalkTyped
  <2>2. Set(d)
    BY <1>3 DEF Teleport
  <2>3. to \in Footing
    BY DEF Footing
  <2> HIDE DEF s
  <2>4. d \in PlayerState
    BY <2>1, <2>3, FieldTyped
  <2> HIDE DEF d
  <2> QED BY <2>2, <2>4
<1>4. ASSUME NEW dir \in Direction, Move(p, dir) PROVE \E d \in PlayerState : Set(d)
  <2> DEFINE c == Clear(me)
             t == [c EXCEPT !.goto = Nowhere]
             s == [t EXCEPT !.follow = NoOne]
             to == Landing(p, dir)
             x == IF to = Nowhere THEN s.at ELSE to
             d == [s EXCEPT !.at = x]
  <2>1. c \in PlayerState
    BY <1>0, ClearTyped
  <2>2. [c EXCEPT !.goto = Nowhere, !.follow = NoOne] = s
    BY <2>1, FieldTyped, InTurn
  <2>3. Set([s EXCEPT !.at = x])
    BY <1>4, <2>2 DEF Move
  <2> HIDE DEF c
  <2>4. t \in PlayerState
    BY <2>1, FieldTyped
  <2> HIDE DEF t
  <2>5. s \in PlayerState
    BY <2>4, FieldTyped
  <2> HIDE DEF s
  <2>6. x \in Footing \cup {Nowhere}
    BY <2>5, FieldsAre, LandingIs, FootingIs
  <2> HIDE DEF x
  <2>7. d \in PlayerState
    BY <2>5, <2>6, FieldTyped
  <2> QED BY <2>3, <2>7
<1>5. ASSUME NEW t \in Creatures \cup {NoOne}, FollowTarget(p, t) PROVE \E d \in PlayerState : Set(d)
  <2> DEFINE c == Clear(me)
             e == [me EXCEPT !.follow = t]
             g == [c EXCEPT !.follow = NoOne]
  <2>1. \/ Set(g)
        \/ \E path \in Paths(me.at, Around(Here(t)), me.locked) : Set(Plan(e, path))
    BY <1>5 DEF FollowTarget
  <2>2. c \in PlayerState /\ e \in PlayerState
    BY <1>0, ClearTyped, FieldTyped
  <2> HIDE DEF c, e
  <2>3. g \in PlayerState
    BY <2>2, FieldTyped
  <2> HIDE DEF g
  <2>4. ASSUME NEW path \in Paths(me.at, Around(Here(t)), me.locked) PROVE Plan(e, path) \in PlayerState
    <3>1. path \in Seq(Direction)
      BY <1>0, PathsAre
    <3> QED BY <2>2, <3>1, PlanTyped
  <2> HIDE DEF me
  <2> QED BY <2>1, <2>3, <2>4
<1>6. CASE ClearAutoWalk(p)
  <2> DEFINE c == Clear(me)
             d == [c EXCEPT !.goto = Nowhere]
  <2>1. Set(d)
    BY <1>6 DEF ClearAutoWalk
  <2>2. c \in PlayerState
    BY <1>0, ClearTyped
  <2> HIDE DEF c
  <2>3. d \in PlayerState
    BY <2>2, FieldTyped
  <2> HIDE DEF d
  <2> QED BY <2>1, <2>3
<1>7. ASSUME NEW target \in Clicks, GoToSteps(p, target) PROVE \E d \in PlayerState : Set(d)
  <2>1. PICK path \in Paths(me.at, {target}, me.locked) : player' = [player EXCEPT ![p] =
                    Plan([me EXCEPT !.follow = NoOne,
                                    !.goto = IF path = << >> THEN Nowhere ELSE target], path)]
    BY <1>7 DEF GoToSteps, GoToPosition
  <2> DEFINE x == IF path = << >> THEN Nowhere ELSE target
             c == [me EXCEPT !.follow = NoOne]
             e == [c EXCEPT !.goto = x]
  <2>2. [me EXCEPT !.follow = NoOne, !.goto = x] = e
    <3> HIDE DEF x
    <3> QED BY <1>0, FieldTyped, InTurn
  <2>3. Set(Plan(e, path))
    BY <2>1, <2>2
  <2>4. x \in Clicks \cup {Nowhere}
    OBVIOUS
  <2> HIDE DEF x
  <2>5. c \in PlayerState
    BY <1>0, FieldTyped
  <2> HIDE DEF c
  <2>6. e \in PlayerState
    BY <2>4, <2>5, FieldTyped
  <2> HIDE DEF e
  <2>7. path \in Seq(Direction)
    BY <1>0, PathsAre
  <2> QED BY <2>3, <2>6, <2>7, PlanTyped
<1> QED BY <1>1, <1>2, <1>3, <1>4, <1>5, <1>6, <1>7 DEF Order

\* Whoever leaves is lost from sight.
LEMMA LeavesTyped ==
    ASSUME TypeOK, NEW p \in Players, Logout(p) \/ Perish(p)
    PROVE  player' \in [Players -> PlayerState] /\ monster' \in [Monsters -> MonsterState]
<1>1. \A q \in Players : LosesSight(player[q], p) \in PlayerState
  BY TypeIs, LosesSightTyped DEF PlayersTyped
<1>2. \A m \in Monsters : /\ LosesFoe(monster[m], p) \in MonsterState
                         /\ EndsFight(monster[m], p) \in MonsterState
  BY TypeIs, LosesFoeTyped DEF MonstersTyped
<1>3. Fresh(Nowhere) \in PlayerState
  BY FreshTyped
<1>4. player' = [[q \in Players |-> LosesSight(player[q], p)] EXCEPT ![p] = Fresh(Nowhere)]
  BY DEF Logout, Perish
<1>5. \/ monster' = [m \in Monsters |-> LosesFoe(monster[m], p)]
      \/ monster' = [m \in Monsters |-> EndsFight(monster[m], p)]
  BY DEF Logout, Perish
<1>6. player' \in [Players -> PlayerState]
  BY <1>1, <1>3, <1>4
<1>7. monster' \in [Monsters -> MonsterState]
  BY <1>2, <1>5
<1> QED BY <1>6, <1>7

LEMMA MonsterStepTyped ==
    ASSUME TypeOK, NEW m \in Monsters,
           CombatTick(m) \/ Die(m) \/ Respawn(m) \/ \E p \in Players : Wound(m, p)
    PROVE  player' \in [Players -> PlayerState] /\ monster' \in [Monsters -> MonsterState]
<1> DEFINE c == monster[m]
           Set(d) == monster' = [monster EXCEPT ![m] = d]
<1>0. /\ c \in MonsterState /\ player \in [Players -> PlayerState]
      /\ monster \in [Monsters -> MonsterState]
  BY TypeIs DEF MonstersTyped, PlayersTyped
<1>1. \E d \in MonsterState : Set(d)
  <2>1. CASE CombatTick(m)
    <3> DEFINE d == Drop(c)
               e == [c EXCEPT !.attacking = NoOne]
    <3>1. Set(e) \/ Set(d) \/ Set(Clear(d)) \/ Set(c)
      BY <2>1 DEF CombatTick
    <3>2. d \in MonsterState /\ e \in MonsterState
      BY <1>0, DropTyped, BeastFieldTyped
    <3>3. Clear(d) \in MonsterState
      BY <3>2, ClearTyped
    <3> HIDE DEF c, d, e
    <3> QED BY <1>0, <3>1, <3>2, <3>3
  <2>2. CASE Die(m)
    <3>1. Set(Newborn(Nowhere))
      BY <2>2 DEF Die
    <3> QED BY <3>1, FreshTyped
  <2>3. CASE Respawn(m)
    <3>1. Set(Newborn(Dens[m])) /\ Dens[m] \in Footing
      BY <2>3 DEF Respawn, Footing
    <3> QED BY <3>1, FreshTyped
  <2>4. ASSUME NEW p \in Players, Wound(m, p) PROVE \E d \in MonsterState : Set(d)
    <3> DEFINE f == [c EXCEPT !.scared = TRUE]
               g == [c EXCEPT !.attacking = p]
    <3>1. Set(f) \/ Set(g)
      BY <2>4 DEF Wound
    <3>2. f \in MonsterState /\ g \in MonsterState
      BY <1>0, BeastFieldTyped
    <3> HIDE DEF f, g
    <3> QED BY <3>1, <3>2
  <2> QED BY <2>1, <2>2, <2>3, <2>4
<1>2. player' = player \/ player' = [p \in Players |-> LosesSight(player[p], m)]
  BY DEF CombatTick, Die, Respawn, Wound
<1>3. \A p \in Players : LosesSight(player[p], m) \in PlayerState
  BY <1>0, LosesSightTyped
<1>4. player' \in [Players -> PlayerState]
  BY <1>0, <1>2, <1>3
<1>5. monster' \in [Monsters -> MonsterState]
  BY <1>0, <1>1
<1> QED BY <1>4, <1>5

LEMMA TickTyped ==
    ASSUME TypeOK, Tick
    PROVE  player' \in [Players -> PlayerState] /\ bucket' \in 0..Buckets-1
<1> DEFINE x(p) == Lesser(player[p].rest + 1, StepTime)
<1>1. ASSUME NEW p \in Players PROVE player[p] \in PlayerState /\ x(p) \in 0..StepTime
  <2>1. player[p] \in PlayerState
    BY TypeIs DEF PlayersTyped
  <2>2. player[p].rest \in 0..StepTime
    BY <2>1, FieldsAre
  <2>3. StepTime \in Nat
    BY WalkingAssumption
  <2> QED BY <2>1, <2>2, <2>3 DEF Lesser
<1>2. player' = [p \in Players |-> [player[p] EXCEPT !.rest = x(p)]]
  BY DEF Tick
<1> HIDE DEF x
<1>3. \A p \in Players : [player[p] EXCEPT !.rest = x(p)] \in PlayerState
  BY <1>1, FieldTyped
<1>4. player' \in [Players -> PlayerState]
  BY <1>2, <1>3
<1>5. bucket' \in 0..Buckets-1
  <2>1. bucket \in Int /\ Buckets \in Nat \ {0}
    BY TypeIs, WalkingAssumption
  <2>2. (bucket + 1) % Buckets \in 0..Buckets-1
    BY <2>1
  <2> QED BY <2>2 DEF Tick
<1> QED BY <1>4, <1>5

LEMMA TurnTyped ==
    ASSUME TypeOK, Turn
    PROVE  player' \in [Players -> PlayerState] /\ monster' \in [Monsters -> MonsterState]
<1>0. player \in [Players -> PlayerState] /\ monster \in [Monsters -> MonsterState]
  BY TypeIs DEF MonstersTyped, PlayersTyped
<1>1. ASSUME NEW m \in Monsters, MonsterTurn(m)
      PROVE  player' \in [Players -> PlayerState] /\ monster' \in [Monsters -> MonsterState]
  <2>1. PICK d \in MonsterState : monster' = [monster EXCEPT ![m] = d]
    BY <1>0, <1>1, MonsterTurnTyped
  <2>2. player' = player
    BY <1>1 DEF MonsterTurn
  <2> QED BY <1>0, <2>1, <2>2
<1>2. ASSUME NEW p \in Players, PlayerTurn(p)
      PROVE  player' \in [Players -> PlayerState] /\ monster' \in [Monsters -> MonsterState]
  <2>1. PICK next \in IF player[p].follow # NoOne THEN FollowTurn(p) ELSE GoToTurn(p) :
            player' = [player EXCEPT ![p] = next]
    BY <1>2 DEF PlayerTurn
  <2>2. next \in PlayerState
    BY <1>0, <2>1, FollowTurnTyped, GoToTurnTyped
  <2>3. monster' = monster
    BY <1>2 DEF PlayerTurn
  <2> QED BY <1>0, <2>1, <2>2, <2>3
<1> QED BY <1>1, <1>2 DEF Turn

LEMMA TypeStep ==
    ASSUME TypeOK, [Next]_vars
    PROVE  TypeOK'
<1>0. /\ player \in [Players -> PlayerState] /\ monster \in [Monsters -> MonsterState]
      /\ TurnsGood /\ bucket \in 0..Buckets-1
  BY TypeIs DEF MonstersTyped, PlayersTyped
<1>1. CASE Tick
  <2>1. player' \in [Players -> PlayerState] /\ bucket' \in 0..Buckets-1
    BY <1>1, TickTyped
  <2>2. monster' = monster /\ due' \in [monsters : SUBSET Monsters, players : SUBSET Players]
    BY <1>1 DEF Tick
  <2> QED BY <1>0, <2>1, <2>2 DEF TypeOK, PlayerState, MonsterState
<1>2. CASE Turn
  <2>1. player' \in [Players -> PlayerState] /\ monster' \in [Monsters -> MonsterState]
    BY <1>2, TurnTyped
  <2>2. bucket' = bucket /\ due' \in [monsters : SUBSET Monsters, players : SUBSET Players]
    BY <1>0, <1>2 DEF Turn, MonsterTurn, PlayerTurn, TurnsGood
  <2> QED BY <1>0, <2>1, <2>2 DEF TypeOK, PlayerState, MonsterState
<1>3. ASSUME NEW p \in Players,
             Login(p) \/ Lock(p) \/ (\E to \in Temples : Teleport(p, to)) \/ Order(p)
      PROVE  TypeOK'
  <2>1. monster' = monster /\ due' = due /\ bucket' = bucket
    BY <1>3 DEF Login, Lock, Teleport, Order, Move, FollowTarget, ClearAutoWalk, GoToSteps,
        GoToPosition
  <2>2. PICK d \in PlayerState : player' = [player EXCEPT ![p] = d]
    BY <1>0, <1>3, PlayerStepTyped DEF PlayersTyped
  <2>3. player' \in [Players -> PlayerState]
    BY <1>0, <2>2
  <2> QED BY <1>0, <2>1, <2>3 DEF TypeOK, PlayerState, MonsterState, TurnsGood
<1>4. ASSUME NEW p \in Players, Logout(p) \/ Perish(p) PROVE TypeOK'
  <2>1. due' = due /\ bucket' = bucket
    BY <1>4 DEF Logout, Perish
  <2>2. player' \in [Players -> PlayerState] /\ monster' \in [Monsters -> MonsterState]
    BY <1>4, LeavesTyped
  <2> QED BY <1>0, <2>1, <2>2 DEF TypeOK, PlayerState, MonsterState, TurnsGood
<1>5. ASSUME NEW m \in Monsters,
             CombatTick(m) \/ Die(m) \/ Respawn(m) \/ \E p \in Players : Wound(m, p)
      PROVE  TypeOK'
  <2>1. due' = due /\ bucket' = bucket
    BY <1>5 DEF CombatTick, Die, Respawn, Wound
  <2>2. player' \in [Players -> PlayerState] /\ monster' \in [Monsters -> MonsterState]
    BY <1>5, MonsterStepTyped
  <2> QED BY <1>0, <2>1, <2>2 DEF TypeOK, PlayerState, MonsterState, TurnsGood
<1>6. CASE UNCHANGED vars
  BY <1>0, <1>6 DEF vars, TypeOK, PlayerState, MonsterState, TurnsGood
<1> QED BY <1>1, <1>2, <1>3, <1>4, <1>5, <1>6 DEF Next

\* Whatever a search returns and whatever comes in between, those who walk
\* stand where there is ground or where they were put, their queues hold
\* steps, and a search fails no more than twice before the walk is given up
\* (game/mod.rs on_monster_ai_tick, do_go_to_position, do_follow_target).
THEOREM WalkersWellFormed == Spec => []TypeOK
BY InitTyped, TypeStep, PTL DEF Spec

=============================================================================
