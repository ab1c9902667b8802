--------------------------- MODULE PresenceProofs ---------------------------
(***************************************************************************)
(* Clients show what they should and the actor knows it, for any players,  *)
(* monsters and tiles, and however deep one reaping nests in another.      *)
(***************************************************************************)
EXTENDS Presence, SequenceTheorems, TLAPS

(***************************************************************************)
(* What is left of a handler, as a set of tasks and the order they are in. *)
(***************************************************************************)
TaskSet ==
    {t \in [do : Kinds, c : Creature, from : Position \union {Nowhere},
            to : Position \union {Nowhere}, todo : SUBSET Player] :
        t.do \notin Loops \union {"greet"} => t.todo = {}}

Elems(s) == {s[i] : i \in DOMAIN s}
Tasks == Elems(stack)

Looks == {"lookStep", "lookJump"}
Strides == {"step", "jump"}
Journeys == Looks \union {"finishStep", "finishJump"}

\* Which part of a handler comes before which.
Before(a, b) ==
    \/ a = "poke" /\ b \in (Spots \union Selves) \ {"poke"}
    \/ a = "step" /\ b = "finishStep"
    \/ a = "jump" /\ b = "finishJump"
    \/ a \in {"spotRenew", "renew"} /\ b = "renewSelf"
    \/ a \in {"spotDress", "dress"} /\ b \in {"spotHide", "spotShow"}
    \/ a = "appear" /\ b \in {"greet", "arrive"}
    \/ a = "greet" /\ b = "arrive"

\* The farewells of those reaped come first, each about a creature that is not
\* in the world P any more; below them is one handler, about one creature.
Above(P, a, b) ==
    IF a.do = "gone"
    THEN a.c \in P => b.do = "drop" /\ b.c = a.c
    ELSE /\ b.do # "gone" /\ Before(a.do, b.do) /\ b.c = a.c
         /\ b.do = "greet" => a.todo \intersect b.todo = {}
Chain(P, s) == \A i, j \in DOMAIN s : i < j => Above(P, s[i], s[j])

LEMMA Nothing ==
    ASSUME NEW P
    PROVE  Elems(<< >>) = {} /\ Chain(P, << >>)
BY DEF Elems, Chain

LEMMA Pops ==
    ASSUME NEW S, NEW s \in Seq(S), s # << >>, NEW P
    PROVE  /\ Head(s) \in S /\ Tail(s) \in Seq(S)
           /\ Elems(s) = {Head(s)} \union Elems(Tail(s))
           /\ Chain(P, s) => /\ Chain(P, Tail(s))
                             /\ \A u \in Elems(Tail(s)) : Above(P, Head(s), u)
<1> DEFINE r == Tail(s)
<1>1. Len(s) \in Nat /\ Len(s) >= 1 /\ DOMAIN s = 1..Len(s) /\ Head(s) = s[1]
  BY EmptySeq
<1>2. r \in Seq(S) /\ Len(r) = Len(s) - 1 /\ DOMAIN r = 1..Len(s)-1
      /\ \A i \in 1..Len(s)-1 : r[i] = s[i+1]
  BY <1>1
<1> HIDE DEF r
<1>3. Head(s) \in S
  BY <1>1
<1>4. Elems(s) = {Head(s)} \union Elems(r)
  <2>1. ASSUME NEW i \in DOMAIN s PROVE s[i] \in {Head(s)} \union Elems(r)
    <3>1. CASE i = 1
      BY <1>1, <3>1
    <3>2. CASE i # 1
      <4>1. i - 1 \in DOMAIN r /\ r[i-1] = s[i]
        BY <1>1, <1>2, <3>2
      <4> QED BY <4>1 DEF Elems
    <3> QED BY <3>1, <3>2
  <2>2. ASSUME NEW i \in DOMAIN r PROVE r[i] \in Elems(s)
    <3>1. i + 1 \in DOMAIN s /\ r[i] = s[i+1]
      BY <1>1, <1>2
    <3> QED BY <3>1 DEF Elems
  <2>3. Head(s) \in Elems(s)
    BY <1>1 DEF Elems
  <2> QED BY <2>1, <2>2, <2>3 DEF Elems
<1>5. ASSUME Chain(P, s) PROVE Chain(P, r)
  <2>1. ASSUME NEW i \in DOMAIN r, NEW j \in DOMAIN r, i < j PROVE Above(P, r[i], r[j])
    <3>1. i + 1 \in DOMAIN s /\ j + 1 \in DOMAIN s /\ i + 1 < j + 1
          /\ r[i] = s[i+1] /\ r[j] = s[j+1]
      BY <1>1, <1>2, <2>1
    <3> QED BY <1>5, <3>1 DEF Chain
  <2> QED BY <2>1 DEF Chain
<1>6. ASSUME Chain(P, s), NEW u \in Elems(r) PROVE Above(P, Head(s), u)
  <2>1. PICK i \in DOMAIN r : u = r[i]
    BY DEF Elems
  <2>2. i + 1 \in DOMAIN s /\ 1 \in DOMAIN s /\ 1 < i + 1 /\ u = s[i+1] /\ Head(s) = s[1]
    BY <1>1, <1>2, <2>1
  <2> QED BY <1>6, <2>2 DEF Chain
<1> QED BY <1>2, <1>3, <1>4, <1>5, <1>6 DEF r

LEMMA Pushes ==
    ASSUME NEW S, NEW s \in Seq(S), NEW t \in S, NEW P
    PROVE  LET w == <<t>> \o s
           IN  /\ w \in Seq(S) /\ w # << >> /\ Head(w) = t
               /\ Elems(w) = {t} \union Elems(s)
               /\ Chain(P, s) /\ (\A u \in Elems(s) : Above(P, t, u)) => Chain(P, w)
<1> DEFINE w == <<t>> \o s
<1>1. Len(s) \in Nat /\ DOMAIN s = 1..Len(s)
  OBVIOUS
<1>2. /\ w \in Seq(S) /\ Len(w) = Len(s) + 1 /\ DOMAIN w = 1..Len(s)+1
      /\ w[1] = t /\ \A i \in 1..Len(s) : w[i+1] = s[i]
  <2>1. <<t>> \in Seq(S) /\ Len(<<t>>) = 1
    OBVIOUS
  <2> QED BY <2>1, <1>1, ConcatProperties
<1> HIDE DEF w
<1>3. w # << >> /\ Head(w) = t
  BY <1>1, <1>2
<1>4. Elems(w) = {t} \union Elems(s)
  <2>1. ASSUME NEW i \in DOMAIN w PROVE w[i] \in {t} \union Elems(s)
    <3>1. CASE i = 1
      BY <1>2, <3>1
    <3>2. CASE i # 1
      <4>1. i - 1 \in DOMAIN s /\ w[(i-1)+1] = s[i-1] /\ (i-1)+1 = i
        BY <1>1, <1>2, <3>2
      <4> QED BY <4>1 DEF Elems
    <3> QED BY <3>1, <3>2
  <2>2. ASSUME NEW i \in DOMAIN s PROVE s[i] \in Elems(w)
    <3>1. i + 1 \in DOMAIN w /\ w[i+1] = s[i]
      BY <1>1, <1>2
    <3> QED BY <3>1 DEF Elems
  <2>3. t \in Elems(w)
    BY <1>1, <1>2 DEF Elems
  <2> QED BY <2>1, <2>2, <2>3 DEF Elems
<1>5. ASSUME Chain(P, s), \A u \in Elems(s) : Above(P, t, u) PROVE Chain(P, w)
  <2>1. ASSUME NEW i \in DOMAIN w, NEW j \in DOMAIN w, i < j PROVE Above(P, w[i], w[j])
    <3>1. j - 1 \in DOMAIN s /\ w[j] = s[j-1]
      <4>1. j - 1 \in 1..Len(s) /\ (j - 1) + 1 = j
        BY <1>1, <1>2, <2>1
      <4> QED BY <1>1, <1>2, <4>1
    <3>2. CASE i = 1
      BY <1>2, <1>5, <3>1, <3>2 DEF Elems
    <3>3. CASE i # 1
      <4>1. i - 1 \in 1..Len(s) /\ (i - 1) + 1 = i /\ i - 1 < j - 1
        BY <1>1, <1>2, <2>1, <3>3
      <4>2. i - 1 \in DOMAIN s /\ w[i] = s[i-1]
        BY <1>1, <1>2, <4>1
      <4> QED BY <1>5, <3>1, <4>1, <4>2 DEF Chain
    <3> QED BY <3>2, <3>3
  <2> QED BY <2>1 DEF Chain
<1> QED BY <1>2, <1>3, <1>4, <1>5 DEF w

\* A loop with nobody on its list is no task.
Looped(t) == IF t.todo = {} THEN << >> ELSE <<t>>

LEMMA LoopIs ==
    ASSUME NEW do, NEW c, NEW from, NEW to, NEW todo
    PROVE  LET t == Task(do, c, from, to, todo)
           IN  /\ Loop(do, c, from, to, todo) = Looped(t)
               /\ t.do = do /\ t.c = c /\ t.from = from /\ t.to = to /\ t.todo = todo
BY DEF Loop, Looped, Task

LEMMA LoopOn ==
    ASSUME NEW s \in Seq(TaskSet), NEW t \in TaskSet, NEW P
    PROVE  LET w == Looped(t) \o s
           IN  /\ w \in Seq(TaskSet)
               /\ Elems(w) = Elems(s) \union {u \in {t} : u.todo # {}}
               /\ Chain(P, s) /\ (\A u \in Elems(s) : Above(P, t, u)) => Chain(P, w)
<1> DEFINE w == Looped(t) \o s
<1>1. CASE t.todo = {}
  <2>1. w = s
    <3>1. w = << >> \o s
      BY <1>1 DEF Looped
    <3> QED BY <3>1, ConcatEmptySeq
  <2> QED BY <1>1, <2>1
<1>2. CASE t.todo # {}
  <2>1. w = <<t>> \o s
    BY <1>2 DEF Looped
  <2> HIDE DEF w
  <2>2. /\ w \in Seq(TaskSet) /\ Elems(w) = {t} \union Elems(s)
        /\ Chain(P, s) /\ (\A u \in Elems(s) : Above(P, t, u)) => Chain(P, w)
    BY <2>1, Pushes
  <2> QED BY <1>2, <2>2 DEF w
<1> QED BY <1>1, <1>2

(***************************************************************************)
(* The inductive invariant.                                                *)
(***************************************************************************)
MaySee(p, d) == d \in ghost => p \in GM

WorldOK ==
    /\ players \subseteq Player
    /\ monsters \subseteq Monster
    /\ ghost \subseteq GM \intersect players
    /\ pos \in [Creature -> Position \union {Nowhere}]
    /\ \A c \in Creature : pos[c] = Nowhere <=> c \notin Present
ClientsOK ==
    /\ known \in [Player -> SUBSET Creature]
    /\ picture \in [Player -> [Creature -> Position \union {Nowhere}]]
    /\ \A p \in Player \ players : known[p] = {} /\ picture[p] = NoPicture
HistoryOK == blurred \subseteq players \X Creature /\ \A p \in players : <<p, p>> \notin blurred

\* A task is about the tile its creature stands on, and its list holds only
\* those that see the creature there, or saw it where it came from.
TaskRight(t) ==
    /\ t.c \notin Npc /\ t.c \notin t.todo
    /\ t.do \notin {"gone", "drop", "appear", "step"} => t.c \in Player
    /\ t.do # "poke" => t.from \in Position /\ t.to \in Position
    /\ t.do \notin Journeys \union Strides => t.from = t.to
    /\ t.do # "poke" /\ t.c \in Present => pos[t.c] = t.to
    /\ t.do = "spotHide" /\ t.c \in Present => t.c \in ghost
    /\ t.do \in {"spotShow", "greet", "appear", "arrive"} => t.c \notin ghost
    /\ t.do \in {"greet", "appear"} => \A p \in t.todo \intersect players : CanSee(pos[p], t.to)
    /\ t.do \in {"step", "jump", "turn", "dress", "renew"} /\ t.c \in Present =>
        \A p \in t.todo \intersect players :
            /\ MaySee(p, t.c)
            /\ CanSee(pos[p], t.to) \/ CanSee(pos[p], t.from)

\* What is left to do is in order; a farewell to a creature that is still
\* there is that of its death.
StackGood(s) ==
    /\ s \in Seq(TaskSet)
    /\ Chain(Present, s)
    /\ \A t \in Elems(s) : TaskRight(t)
    /\ \A t \in Elems(s) :
        t.do = "gone" /\ t.c \in Present => \E u \in Elems(s) : u.do = "drop" /\ u.c = t.c
StackOK == StackGood(stack)

\* Where the client of p is drawn from: a mover's picture is still the one from
\* the tile it left.
Viewpoints(T, p, here) ==
    {t.from : t \in {u \in T : u.do \in Journeys /\ u.c = p}}
    \union {a \in {here} : \A t \in T : ~ (t.do \in Journeys /\ t.c = p)}

\* Task t is still to show client p that creature d has moved.
Due(t, p, d) == t.c = d /\ (t.do \in Looks \/ (t.do \in Strides /\ p \in t.todo))
Whereabouts(T, p, d, here) ==
    {t.from : t \in {u \in T : Due(u, p, d)}}
    \union {a \in {here} : \A t \in T : ~ Due(t, p, d)}

\* Client p does not show d yet, or no longer.
Unshown(T, p, d) ==
    \E t \in T :
        \/ t.c = d /\ t.do \in {"greet", "appear"} /\ p \in t.todo
        \/ t.c = d /\ t.do = "spotShow" /\ p \notin GM
        \/ /\ t.c = d /\ t.do = "drop"
           /\ \A g \in T : g.do = "gone" /\ g.c = d => p \notin g.todo
        \/ /\ t.c = p /\ t.do = "arrive"
           /\ d \in Player => \E g \in T : g.do = "greet" /\ g.c = p /\ d \in g.todo

\* The new player p has yet to be shown d, one of those to greet.
Awaited(T, p, d) == \E t \in T : t.do = "greet" /\ t.c = p /\ d \in t.todo

\* A client and a creature in the world: believed is what the actor takes
\* the client to have, shown where the client draws it.
PairRight(T, p, d, eye, here, may, believed, shown) ==
    /\ believed <=> shown # Nowhere
    /\ Awaited(T, p, d) => CanSee(eye, here) /\ may
    /\ Unshown(T, p, d) => shown = Nowhere
    /\ ~ Unshown(T, p, d) =>
        \A a \in Viewpoints(T, p, eye), b \in Whereabouts(T, p, d, here) :
            shown = IF CanSee(a, b) /\ may THEN b ELSE Nowhere

\* A client and itself, once it has its first map.
Arriving(T, p) == \E t \in T : t.do = "arrive" /\ t.c = p
SelfRight(T, p, eye, shown) ==
    ~ Arriving(T, p) => \A a \in Viewpoints(T, p, eye) : shown = a

\* A client and a creature that has left: something left to do removes it.
Fades(t, p, d, eye, shown) ==
    \/ t.do = "gone" /\ t.c = d /\ p \in t.todo
    \/ t.do \in Looks /\ t.c = d /\ CanSee(eye, t.from) /\ ~ CanSee(eye, t.to)
    \/ t.do \in Strides /\ t.c = d /\ p \in t.todo /\ ~ CanSee(eye, t.to)
    \/ t.do \in Journeys /\ t.c = p /\ ~ CanSee(t.to, shown)
FadedOut(T, p, d, eye, shown) == shown = Nowhere \/ \E t \in T : Fades(t, p, d, eye, shown)

Agreed(p, d) ==
    IF d = p THEN SelfRight(Tasks, p, pos[p], picture[p][p])
    ELSE IF d \in Present
    THEN PairRight(Tasks, p, d, pos[p], pos[d], MaySee(p, d), d \in known[p], picture[p][d])
    ELSE FadedOut(Tasks, p, d, pos[p], picture[p][d])
PairsRight == \A p \in players, d \in Creature : <<p, d>> \notin blurred => Agreed(p, d)

StateOK == WorldOK /\ ClientsOK /\ HistoryOK /\ StackOK

LEMMA ChainOfFewer ==
    ASSUME NEW s, NEW P, NEW Q, Q \subseteq P, Chain(P, s)
    PROVE  Chain(Q, s)
BY DEF Chain, Above

LEMMA SameWorldTask ==
    ASSUME world' = world, NEW t, TaskRight(t)
    PROVE  TaskRight(t)'
BY DEF world, TaskRight, Present, MaySee

\* A task is as right as it was when a creature is gone.
LEMMA TaskOutlives ==
    ASSUME NEW c \in Creature, players' = players \ {c}, monsters' = monsters \ {c},
           pos' = [pos EXCEPT ![c] = Nowhere], ghost' = ghost \ {c}, c \notin Npc, WorldOK,
           NEW t \in TaskSet, TaskRight(t)
    PROVE  TaskRight(t)'
<1>1. \A d \in Creature : d # c => pos'[d] = pos[d]
  BY DEF WorldOK
<1>2. t.c \in Creature /\ t.todo \subseteq Player
  BY DEF TaskSet
<1>3. Present' = Present \ {c}
  BY DEF Present
<1>4. \A p \in players' : p # c /\ p \in players /\ pos'[p] = pos[p]
  BY <1>1 DEF WorldOK, Creature
<1>5. t.c \in Present' => t.c # c /\ t.c \in Present /\ pos'[t.c] = pos[t.c]
  BY <1>1, <1>2, <1>3
<1> QED BY <1>4, <1>5 DEF TaskRight, MaySee

(***************************************************************************)
(* The state of the world and the order of what is left to do.             *)
(***************************************************************************)
LEMMA EmptyGood == StackGood(<< >>)
BY Nothing DEF StackGood

LEMMA SameWorldStack ==
    ASSUME world' = world, NEW s, StackGood(s), stack' = s
    PROVE  StackOK'
<1>1. \A t \in Elems(s) : TaskRight(t)'
  BY SameWorldTask DEF StackGood
<1>2. Present' = Present
  BY DEF Present, world
<1> QED BY <1>1, <1>2 DEF StackOK, StackGood

\* The task on top, and what is below it.
LEMMA TopGood ==
    ASSUME StackOK, stack # << >>
    PROVE  /\ Top \in TaskSet /\ TaskRight(Top) /\ StackGood(Tail(stack))
           /\ Tasks = {Top} \union Elems(Tail(stack))
           /\ \A u \in Elems(Tail(stack)) : Above(Present, Top, u)
           /\ Top.do = "gone" /\ Top.c \in Present =>
                \E u \in Elems(Tail(stack)) : u.do = "drop" /\ u.c = Top.c
<1> DEFINE r == Tail(stack)
<1>1. /\ Top \in TaskSet /\ r \in Seq(TaskSet) /\ Tasks = {Top} \union Elems(r)
      /\ Chain(Present, r) /\ \A u \in Elems(r) : Above(Present, Top, u)
  BY Pops DEF StackOK, StackGood, Top, Tasks
<1>2. TaskRight(Top) /\ \A t \in Elems(r) : TaskRight(t)
  BY <1>1 DEF StackOK, StackGood, Tasks
<1>3. ASSUME NEW t \in Tasks, t.do = "gone", t.c \in Present
      PROVE  \E u \in Elems(r) : u.do = "drop" /\ u.c = t.c
  <2>1. PICK u \in Tasks : u.do = "drop" /\ u.c = t.c
    BY <1>3 DEF StackOK, StackGood, Tasks
  <2>2. CASE u = Top
    <3>1. t # Top
      BY <1>3, <2>1, <2>2
    <3>2. t \in Elems(r)
      BY <1>1, <3>1
    <3>3. Above(Present, Top, t)
      BY <1>1, <3>2
    <3> QED BY <2>1, <2>2, <3>3 DEF Above, Before
  <2>3. CASE u # Top
    BY <1>1, <2>1, <2>3
  <2> QED BY <2>2, <2>3
<1>4. StackGood(r)
  BY <1>1, <1>2, <1>3 DEF StackGood
<1> QED BY <1>1, <1>2, <1>3, <1>4

LEMMA LoopGood ==
    ASSUME NEW s, StackGood(s), NEW t \in TaskSet, TaskRight(t),
           \A u \in Elems(s) : Above(Present, t, u),
           t.do = "gone" /\ t.c \in Present => \E u \in Elems(s) : u.do = "drop" /\ u.c = t.c
    PROVE  LET w == Looped(t) \o s
           IN  StackGood(w) /\ Elems(w) = Elems(s) \union {u \in {t} : u.todo # {}}
<1> DEFINE w == Looped(t) \o s
<1>1. s \in Seq(TaskSet) /\ Chain(Present, s)
  BY DEF StackGood
<1>2. /\ w \in Seq(TaskSet) /\ Elems(w) = Elems(s) \union {u \in {t} : u.todo # {}}
      /\ Chain(Present, w)
  BY <1>1, LoopOn
<1> HIDE DEF w
<1>3. \A u \in Elems(w) : TaskRight(u)
  BY <1>2 DEF StackGood
<1>4. \A u \in Elems(w) : u.do = "gone" /\ u.c \in Present =>
        \E v \in Elems(w) : v.do = "drop" /\ v.c = u.c
  BY <1>2 DEF StackGood
<1>5. StackGood(w)
  BY <1>2, <1>3, <1>4 DEF StackGood
<1> QED BY <1>2, <1>5 DEF w

LEMMA PushGood ==
    ASSUME NEW s, StackGood(s), NEW t \in TaskSet, TaskRight(t), t.do # "gone",
           \A u \in Elems(s) : Above(Present, t, u)
    PROVE  /\ StackGood(<<t>> \o s) /\ Elems(<<t>> \o s) = {t} \union Elems(s)
<1> DEFINE w == <<t>> \o s
<1>1. w \in Seq(TaskSet) /\ Elems(w) = {t} \union Elems(s) /\ Chain(Present, w)
  BY Pushes DEF StackGood
<1> HIDE DEF w
<1>2. StackGood(w)
  BY <1>1 DEF StackGood
<1> QED BY <1>1, <1>2 DEF w

\* The loop on top without one of its spectators.
Rest(p) == Task(Top.do, Top.c, Top.from, Top.to, Top.todo \ {p})
LEMMA RestIs ==
    ASSUME NEW p
    PROVE  /\ Rest(p).do = Top.do /\ Rest(p).c = Top.c /\ Rest(p).from = Top.from
           /\ Rest(p).to = Top.to /\ Rest(p).todo = Top.todo \ {p}
           /\ Without(p) = Looped(Rest(p)) \o Tail(stack)
<1>1. /\ Rest(p).do = Top.do /\ Rest(p).c = Top.c /\ Rest(p).from = Top.from
      /\ Rest(p).to = Top.to /\ Rest(p).todo = Top.todo \ {p}
  BY DEF Rest, Task
<1>2. Loop(Top.do, Top.c, Top.from, Top.to, Top.todo \ {p}) = Looped(Rest(p))
  BY <1>1 DEF Loop, Looped, Rest
<1> QED BY <1>1, <1>2 DEF Without

LEMMA WithoutGood ==
    ASSUME StackOK, Doing(Loops \union {"greet"}), NEW p
    PROVE  /\ StackGood(Without(p)) /\ Rest(p) \in TaskSet
           /\ Elems(Without(p)) = Elems(Tail(stack)) \union {u \in {Rest(p)} : u.todo # {}}
<1> DEFINE r == Tail(stack)
           t == Rest(p)
           w == Looped(t) \o r
<1>1. /\ stack # << >> /\ Top.do \in Loops \union {"greet"}
      /\ Top \in TaskSet /\ TaskRight(Top) /\ StackGood(r)
      /\ \A u \in Elems(r) : Above(Present, Top, u)
      /\ Top.do = "gone" /\ Top.c \in Present => \E u \in Elems(r) : u.do = "drop" /\ u.c = Top.c
  BY TopGood DEF Doing
<1>2. t \in TaskSet
  BY <1>1 DEF TaskSet, Rest, Task, Kinds
<1>3. TaskRight(t)
  BY <1>1, RestIs DEF TaskRight
<1>4. \A u \in Elems(r) : Above(Present, t, u)
  BY <1>1, RestIs DEF Above
<1>5. t.do = "gone" /\ t.c \in Present => \E u \in Elems(r) : u.do = "drop" /\ u.c = t.c
  BY <1>1, RestIs
<1>6. Without(p) = w
  BY RestIs
<1> HIDE DEF t, r
<1>7. StackGood(w) /\ Elems(w) = Elems(r) \union {u \in {t} : u.todo # {}}
  BY <1>1, <1>2, <1>3, <1>4, <1>5, LoopGood
<1> QED BY <1>2, <1>6, <1>7 DEF t, r

LEMMA InitState == Init => StateOK
<1> SUFFICES ASSUME Init PROVE StateOK
  OBVIOUS
<1>1. NpcAt \in Position /\ Nowhere \notin Position
  BY PresenceAssumption
<1>2. WorldOK
  <2>1. Present = Npc
    BY DEF Init, Present
  <2>2. \A c \in Creature : pos[c] = IF c \in Npc THEN NpcAt ELSE Nowhere
    BY DEF Init
  <2>3. pos \in [Creature -> Position \union {Nowhere}]
    BY <1>1 DEF Init
  <2>4. \A c \in Creature : pos[c] = Nowhere <=> c \notin Present
    BY <1>1, <2>1, <2>2
  <2> QED BY <2>3, <2>4 DEF Init, WorldOK
<1>3. ClientsOK
  BY DEF Init, ClientsOK, NoPicture
<1>4. HistoryOK
  BY DEF Init, HistoryOK
<1>5. StackOK
  BY EmptyGood DEF Init, StackOK
<1> QED BY <1>2, <1>3, <1>4, <1>5 DEF StateOK

(***************************************************************************)
(* Leaving the world.                                                      *)
(***************************************************************************)
Vanishes(c) ==
    /\ players' = players \ {c} /\ monsters' = monsters \ {c}
    /\ pos' = [pos EXCEPT ![c] = Nowhere] /\ ghost' = ghost \ {c}
    /\ known' = [p \in Player |-> IF p = c THEN {} ELSE known[p]]
    /\ picture' = [p \in Player |-> IF p = c THEN NoPicture ELSE picture[p]]
    /\ blurred' = BlurredWithout(c)

LEMMA VanishedGood ==
    ASSUME WorldOK, ClientsOK, HistoryOK, NEW c \in players \union monsters, Vanishes(c)
    PROVE  /\ WorldOK' /\ ClientsOK' /\ HistoryOK'
           /\ c \notin Npc /\ c \in Creature /\ Present' = Present \ {c} /\ c \in Present
<1>1. c \notin Npc /\ c \in Creature /\ Present' = Present \ {c} /\ c \in Present
  BY PresenceAssumption DEF WorldOK, Vanishes, Present, Creature
<1>2. WorldOK'
  <2>1. \A d \in Creature : pos'[d] = IF d = c THEN Nowhere ELSE pos[d]
    BY DEF WorldOK, Vanishes
  <2>2. pos' \in [Creature -> Position \union {Nowhere}]
    BY DEF WorldOK, Vanishes
  <2>3. \A d \in Creature : pos'[d] = Nowhere <=> d \notin Present'
    BY <1>1, <2>1 DEF WorldOK
  <2> QED BY <2>2, <2>3 DEF WorldOK, Vanishes
<1>3. NoPicture \in [Creature -> Position \union {Nowhere}]
  BY DEF NoPicture
<1>4. ClientsOK'
  BY <1>3 DEF ClientsOK, Vanishes
<1>5. HistoryOK'
  BY DEF HistoryOK, Vanishes, BlurredWithout
<1> QED BY <1>1, <1>2, <1>4, <1>5

LEMMA VanishedStack ==
    ASSUME WorldOK, NEW c \in players \union monsters, Vanishes(c), Present' = Present \ {c},
           c \in Creature, c \notin Npc, NEW s, StackGood(s)
    PROVE  StackGood(s)'
<1>1. s \in Seq(TaskSet) /\ Chain(Present, s)
  BY DEF StackGood
<1>2. Chain(Present', s)
  BY <1>1, ChainOfFewer
<1>3. \A t \in Elems(s) : t \in TaskSet
  BY <1>1 DEF Elems
<1>4. \A t \in Elems(s) : TaskRight(t)'
  BY <1>3, TaskOutlives DEF StackGood, Vanishes
<1> QED BY <1>1, <1>2, <1>4 DEF StackGood

\* Those that are told of a departure.
Farewell(c) ==
    Task("gone", c, pos[c], pos[c], {p \in players \ {c} : CanSee(pos[p], pos[c])})

LEMMA FarewellIs ==
    ASSUME WorldOK, NEW c \in players
    PROVE  LET t == Farewell(c)
           IN  /\ t \in TaskSet /\ t.do = "gone" /\ t.c = c /\ t.from = pos[c] /\ t.to = pos[c]
               /\ t.todo = {p \in players \ {c} : CanSee(pos[p], pos[c])}
               /\ pos[c] \in Position
<1>1. pos[c] \in Position /\ c \in Creature
  BY DEF WorldOK, Present, Creature
<1>2. /\ Farewell(c).do = "gone" /\ Farewell(c).c = c /\ Farewell(c).from = pos[c]
      /\ Farewell(c).to = pos[c]
      /\ Farewell(c).todo = {p \in players \ {c} : CanSee(pos[p], pos[c])}
  BY DEF Farewell, Task
<1>3. Farewell(c) \in TaskSet
  BY <1>1 DEF Farewell, Task, TaskSet, Kinds, Loops, WorldOK
<1> QED BY <1>1, <1>2, <1>3

LEMMA LeaveState ==
    ASSUME StateOK, NEW c \in players, NEW rest, StackGood(rest), Leave(c, rest)
    PROVE  /\ StateOK' /\ Vanishes(c) /\ Present' = Present \ {c} /\ strays' = strays
           /\ Tasks' = Elems(rest) \union {u \in {Farewell(c)} : u.todo # {}}
<1>1. Vanishes(c) /\ strays' = strays
  <2>1. monsters' = monsters \ {c}
    BY PresenceAssumption DEF StateOK, WorldOK, Leave
  <2> QED BY <2>1 DEF Leave, Vanishes, StateOK, ClientsOK
<1>2. /\ WorldOK' /\ ClientsOK' /\ HistoryOK'
      /\ c \notin Npc /\ c \in Creature /\ Present' = Present \ {c} /\ c \in Present
  BY <1>1, VanishedGood DEF StateOK
<1>3. StackGood(rest)'
  BY <1>1, <1>2, VanishedStack DEF StateOK
<1> DEFINE t == Farewell(c)
           w == Looped(t) \o rest
<1>4. /\ t \in TaskSet /\ t.do = "gone" /\ t.c = c /\ t.from = pos[c] /\ t.to = pos[c]
      /\ t.todo = {p \in players \ {c} : CanSee(pos[p], pos[c])} /\ pos[c] \in Position
  BY FarewellIs DEF StateOK
<1>5. stack' = w
  <2> DEFINE told == {p \in players \ {c} : CanSee(pos[p], pos[c])}
  <2>1. stack' = Loop("gone", c, pos[c], pos[c], told) \o rest
    BY DEF Leave
  <2>2. t = Task("gone", c, pos[c], pos[c], told)
    BY DEF Farewell
  <2>3. Loop("gone", c, pos[c], pos[c], told) = Looped(t)
    <3> HIDE DEF told, t
    <3> QED BY <2>2, LoopIs
  <2> HIDE DEF told, t
  <2> QED BY <2>1, <2>3
<1> SUFFICES ASSUME NEW f, f = Farewell(c)
             PROVE  StackOK' /\ Tasks' = Elems(rest) \union {u \in {f} : u.todo # {}}
  BY <1>1, <1>2 DEF StateOK
<1>6. TaskRight(f)'
  BY <1>2, <1>4 DEF TaskRight
<1>7. \A u \in Elems(rest) : Above(Present', f, u)
  BY <1>2, <1>4 DEF Above
<1>8. stack' = Looped(f) \o rest /\ f \in TaskSet /\ rest \in Seq(TaskSet)
  BY <1>4, <1>5 DEF StackGood
<1>9. /\ stack' \in Seq(TaskSet) /\ Elems(stack') = Elems(rest) \union {u \in {f} : u.todo # {}}
      /\ Chain(Present', stack')
  BY <1>3, <1>7, <1>8, LoopOn DEF StackGood
<1>10. \A u \in Elems(stack') : TaskRight(u)'
  BY <1>3, <1>6, <1>9 DEF StackGood
<1>11. \A u \in Elems(stack') : u.do = "gone" /\ u.c \in Present' =>
        \E v \in Elems(stack') : v.do = "drop" /\ v.c = u.c
  BY <1>2, <1>3, <1>4, <1>9 DEF StackGood
<1> QED BY <1>9, <1>10, <1>11 DEF StackOK, StackGood, Tasks

(***************************************************************************)
(* What packets do to a client.                                            *)
(***************************************************************************)
View == [known : SUBSET Creature, picture : [Creature -> Position \union {Nowhere}]]

LEMMA RemovedIs ==
    ASSUME NEW v \in View, NEW c \in Creature
    PROVE  LET w == RemovedForgotten(v, c)
           IN  /\ w \in View /\ w.known = v.known \ {c}
               /\ \A d \in Creature : w.picture[d] = IF d = c THEN Nowhere ELSE v.picture[d]
<1> DEFINE u == Removed(v, c)
<1>1. /\ u \in View /\ u.known = v.known
      /\ \A d \in Creature : u.picture[d] = IF d = c THEN Nowhere ELSE v.picture[d]
  BY DEF Removed, View
<1> HIDE DEF u
<1>2. RemovedForgotten(v, c) = [u EXCEPT !.known = u.known \ {c}]
  BY DEF RemovedForgotten, Forgotten, u
<1> QED BY <1>1, <1>2 DEF View

LEMMA MovedIs ==
    ASSUME NEW v \in View, NEW c \in Creature, NEW to \in Position
    PROVE  LET w == Moved(v, c, to)
           IN  /\ w \in View /\ w.known = v.known
               /\ \A d \in Creature :
                    w.picture[d] = IF d = c /\ v.picture[c] # Nowhere THEN to ELSE v.picture[d]
BY DEF Moved, View

LEMMA AddedIs ==
    ASSUME NEW v \in View, NEW c \in Creature, NEW to \in Position
    PROVE  LET w == Added(v, c, to)
           IN  /\ w \in View /\ w.known = v.known \union {c}
               /\ \A d \in Creature :
                    w.picture[d] = IF d = c /\ (c \notin v.known \/ v.picture[c] # Nowhere)
                                   THEN to ELSE v.picture[d]
<1> DEFINE x == IF c \notin v.known \/ v.picture[c] # Nowhere THEN to ELSE v.picture[c]
           u == [v EXCEPT !.known = v.known \union {c}]
           w == [u EXCEPT !.picture[c] = x]
<1>1. Added(v, c, to) = w
  BY DEF Added, View
<1>2. u \in View /\ u.known = v.known \union {c} /\ u.picture = v.picture
  BY DEF View
<1>3. x \in Position \union {Nowhere}
  BY DEF View
<1>4. x = IF c \notin v.known \/ v.picture[c] # Nowhere THEN to ELSE v.picture[c]
  OBVIOUS
<1> HIDE DEF x, u
<1>5. /\ w \in View /\ w.known = u.known
      /\ \A d \in Creature : w.picture[d] = IF d = c THEN x ELSE u.picture[d]
  BY <1>2, <1>3 DEF View
<1> HIDE DEF w
<1> QED BY <1>1, <1>2, <1>4, <1>5

LEMMA AddedSelfIs ==
    ASSUME NEW v \in View, NEW c \in Creature, NEW to \in Position
    PROVE  LET w == AddedSelf(v, c, to)
           IN  /\ w \in View /\ w.known = v.known \ {c}
               /\ \A d \in Creature : w.picture[d] = IF d = c THEN to ELSE v.picture[d]
<1> DEFINE u == [v EXCEPT !.known = v.known \ {c}]
           w == [u EXCEPT !.picture[c] = to]
<1>1. AddedSelf(v, c, to) = w
  BY DEF AddedSelf, View
<1>2. u \in View /\ u.known = v.known \ {c} /\ u.picture = v.picture
  BY DEF View
<1> HIDE DEF u
<1>3. /\ w \in View /\ w.known = u.known
      /\ \A d \in Creature : w.picture[d] = IF d = c THEN to ELSE u.picture[d]
  BY <1>2 DEF View
<1> HIDE DEF w
<1> QED BY <1>1, <1>2, <1>3

LEMMA ClientIs ==
    ASSUME ClientsOK, NEW p \in Player
    PROVE  Client(p) \in View /\ Client(p).known = known[p] /\ Client(p).picture = picture[p]
BY DEF ClientsOK, Client, View

\* View w differs from view v in creature c at most.
Elsewhere(v, w, c) ==
    w \in View /\ \A d \in Creature \ {c} :
        (d \in w.known <=> d \in v.known) /\ w.picture[d] = v.picture[d]

\* The packets of a loop are about its creature.
LEMMA EffectIs ==
    ASSUME StateOK, Doing(Loops), NEW p \in players
    PROVE  Elsewhere(Client(p), Effect(p), Top.c)
<1> DEFINE v == Client(p)
           c == Top.c
           gone == RemovedForgotten(v, c)
<1>1. v \in View
  BY ClientIs DEF StateOK, WorldOK
<1>2. c \in Creature /\ Top.to \in Position /\ Top.do \in Loops
  BY TopGood DEF StateOK, Doing, TaskSet, TaskRight, Loops
<1> SUFFICES ASSUME NEW w, w = Effect(p) PROVE Elsewhere(v, w, c)
  OBVIOUS
<1>3. \/ w = v \/ w = gone \/ w = Added(v, c, Top.to) \/ w = Added(gone, c, Top.to)
      \/ w = Moved(v, c, Top.to)
  BY <1>2 DEF Effect, AddedIfPresent, Loops
<1> HIDE DEF v, c
<1>4. gone \in View /\ Elsewhere(v, gone, c)
  BY <1>1, <1>2, RemovedIs DEF Elsewhere
<1>5. Elsewhere(v, Added(v, c, Top.to), c)
  BY <1>1, <1>2, AddedIs DEF Elsewhere
<1> HIDE DEF gone
<1>6. Elsewhere(v, Added(gone, c, Top.to), c)
  BY <1>2, <1>4, AddedIs DEF Elsewhere
<1>7. Elsewhere(v, Moved(v, c, Top.to), c)
  BY <1>1, <1>2, MovedIs DEF Elsewhere
<1> QED BY <1>1, <1>3, <1>4, <1>5, <1>6, <1>7 DEF Elsewhere

\* A step of the handler that changes the client of one player only.
LEMMA OneClient ==
    ASSUME StateOK, world' = world, NEW p \in players, NEW w \in View,
           known' = [known EXCEPT ![p] = w.known], picture' = [picture EXCEPT ![p] = w.picture]
    PROVE  WorldOK' /\ ClientsOK'
<1>1. WorldOK'
  BY DEF StateOK, WorldOK, world, Present
<1>2. w.known \in SUBSET Creature /\ w.picture \in [Creature -> Position \union {Nowhere}]
  BY DEF View
<1>3. p \in Player /\ players' = players
  BY DEF StateOK, WorldOK, world
<1>4. ClientsOK'
  BY <1>2, <1>3 DEF StateOK, ClientsOK, NoPicture
<1> QED BY <1>1, <1>4

LEMMA SameClients ==
    ASSUME StateOK, world' = world, known' = known, picture' = picture
    PROVE  WorldOK' /\ ClientsOK'
BY DEF StateOK, WorldOK, ClientsOK, world, Present, NoPicture

LEMMA SameHistory ==
    ASSUME StateOK, players' = players, blurred' = blurred
    PROVE  HistoryOK'
BY DEF StateOK, HistoryOK

(***************************************************************************)
(* The rest of a handler keeps the state in order.                         *)
(***************************************************************************)
Below == Elems(Tail(stack))

LEMMA PopState ==
    ASSUME StateOK, SkipSelf \/ Poked
    PROVE  StateOK' /\ Tasks' = Below
<1>1. stack # << >> /\ stack' = Tail(stack) /\ world' = world /\ known' = known
      /\ picture' = picture /\ blurred' = blurred /\ players' = players
  BY DEF SkipSelf, Poked, Doing, world
<1>2. StackOK'
  BY <1>1, TopGood, SameWorldStack DEF StateOK
<1> QED BY <1>1, <1>2, SameClients, SameHistory DEF StateOK, Tasks, Below

LEMMA SkipState ==
    ASSUME StateOK, NEW p \in Player, Doing(Loops \union {"greet"}), stack' = Without(p),
           UNCHANGED <<world, known, picture, blurred, strays>>
    PROVE  /\ StateOK'
           /\ Tasks' = Below \union {u \in {Rest(p)} : u.todo # {}}
<1>1. StackOK' /\ Tasks' = Below \union {u \in {Rest(p)} : u.todo # {}}
  BY WithoutGood, SameWorldStack DEF StateOK, Tasks, Below
<1> QED BY <1>1, SameClients, SameHistory DEF StateOK, world

LEMMA ServeState ==
    ASSUME StateOK, NEW p \in players, Doing(Loops), stack' = Without(p), world' = world,
           known' = [known EXCEPT ![p] = Effect(p).known],
           picture' = [picture EXCEPT ![p] = Effect(p).picture], blurred' = blurred
    PROVE  /\ StateOK'
           /\ Tasks' = Below \union {u \in {Rest(p)} : u.todo # {}}
<1>1. Doing(Loops \union {"greet"})
  BY DEF Doing
<1>2. StackOK' /\ Tasks' = Below \union {u \in {Rest(p)} : u.todo # {}}
  BY <1>1, WithoutGood, SameWorldStack DEF StateOK, Tasks, Below
<1>3. Effect(p) \in View
  BY EffectIs DEF Elsewhere
<1> QED BY <1>2, <1>3, OneClient, SameHistory DEF StateOK, world

LEMMA ReapState ==
    ASSUME StateOK, NEW p \in players, Doing(Loops), Leave(p, Without(p))
    PROVE  /\ StateOK' /\ Vanishes(p) /\ Present' = Present \ {p} /\ strays' = strays
           /\ Tasks' = (Below \union {u \in {Rest(p)} : u.todo # {}})
                       \union {u \in {Farewell(p)} : u.todo # {}}
<1>1. /\ StackGood(Without(p))
      /\ Elems(Without(p)) = Below \union {u \in {Rest(p)} : u.todo # {}}
  BY WithoutGood DEF StateOK, Doing, Below
<1> QED BY <1>1, LeaveState

LEMMA ReapSelfState ==
    ASSUME StateOK, ReapSelf
    PROVE  LET p == Top.c
           IN  /\ StateOK' /\ Vanishes(p) /\ Present' = Present \ {p} /\ strays' = strays
               /\ p \in players
               /\ Tasks' = Below \union {u \in {Farewell(p)} : u.todo # {}}
<1>1. Top.c \in players /\ Leave(Top.c, Tail(stack)) /\ StackGood(Tail(stack))
  BY TopGood DEF StateOK, ReapSelf, Doing
<1> QED BY <1>1, LeaveState DEF Below

LEMMA ArriveState ==
    ASSUME StateOK, Arrive
    PROVE  StateOK' /\ Tasks' = Below
<1> DEFINE c == Top.c
           placed == MonstersVisibleFrom(Top.to) \union NpcsVisibleFrom(Top.to)
           k == known[c] \union placed
           x == [d \in Creature |-> IF d \in placed \union {c} THEN pos[d] ELSE picture[c][d]]
           v == [known |-> k, picture |-> x]
<1>1. /\ stack # << >> /\ stack' = Tail(stack) /\ world' = world /\ blurred' = blurred
      /\ players' = players
  BY DEF Arrive, Doing, world
<1>2. StackOK'
  BY <1>1, TopGood, SameWorldStack DEF StateOK
<1>3. CASE c \notin players
  <2>1. known' = known /\ picture' = picture
    BY <1>3 DEF Arrive
  <2> QED BY <1>1, <1>2, <2>1, SameClients, SameHistory DEF StateOK, Tasks, Below
<1>4. CASE c \in players
  <2>1. placed \subseteq Creature
    BY DEF MonstersVisibleFrom, NpcsVisibleFrom, Creature, StateOK, WorldOK
  <2>2. c \in Player
    BY <1>4 DEF StateOK, WorldOK
  <2>3. known' = [known EXCEPT ![c] = k] /\ picture' = [picture EXCEPT ![c] = x]
    BY <1>4 DEF Arrive
  <2> HIDE DEF placed
  <2>4. k \in SUBSET Creature /\ x \in [Creature -> Position \union {Nowhere}]
    BY <2>1, <2>2 DEF StateOK, WorldOK, ClientsOK
  <2> HIDE DEF k, x
  <2>5. v \in View /\ v.known = k /\ v.picture = x
    BY <2>4 DEF View
  <2> HIDE DEF v
  <2> QED BY <1>1, <1>2, <1>4, <2>3, <2>5, OneClient, SameHistory DEF StateOK, Tasks, Below
<1> QED BY <1>3, <1>4

LEMMA RenewSelfState ==
    ASSUME StateOK, RenewSelf
    PROVE  StateOK' /\ Tasks' = Below
<1> DEFINE c == Top.c
           v == AddedSelf(Client(c), c, Top.to)
<1>1. /\ stack # << >> /\ stack' = Tail(stack) /\ world' = world /\ blurred' = blurred
      /\ players' = players /\ c \in players
      /\ known' = [known EXCEPT ![c] = v.known] /\ picture' = [picture EXCEPT ![c] = v.picture]
  BY DEF RenewSelf, Doing, world
<1>2. StackOK'
  BY <1>1, TopGood, SameWorldStack DEF StateOK
<1>3. c \in Creature /\ c \in Player /\ Top.to \in Position
  BY <1>1, TopGood DEF StateOK, WorldOK, TaskRight, Creature, RenewSelf, Doing
<1>4. v \in View
  BY <1>3, ClientIs, AddedSelfIs DEF StateOK
<1> HIDE DEF v
<1> QED BY <1>1, <1>2, <1>4, OneClient, SameHistory DEF StateOK, Tasks, Below

LEMMA DropState ==
    ASSUME StateOK, Drop
    PROVE  /\ StateOK' /\ Tasks' = {} /\ Below = {} /\ strays' = strays
           /\ \/ Top.c \in players \union monsters /\ Vanishes(Top.c) /\ Present' = Present \ {Top.c}
              \/ Top.c \notin players \union monsters
                 /\ UNCHANGED <<world, known, picture, blurred>>
<1>1. stack # << >> /\ stack' = Tail(stack) /\ Top.do = "drop" /\ strays' = strays
  BY DEF Drop, Doing
<1>2. Below = {}
  <2>1. \A u \in Below : FALSE
    BY <1>1, TopGood DEF StateOK, Below, Above, Before
  <2> QED BY <2>1
<1>3. Tasks' = {}
  BY <1>1, <1>2 DEF Tasks, Below
<1>4. StackGood(Tail(stack))
  BY <1>1, TopGood DEF StateOK
<1>5. CASE Top.c \in players \union monsters
  <2>1. Vanishes(Top.c)
    BY <1>5 DEF Drop, Vanishes
  <2>2. /\ WorldOK' /\ ClientsOK' /\ HistoryOK'
        /\ Top.c \notin Npc /\ Top.c \in Creature /\ Present' = Present \ {Top.c}
    BY <1>5, <2>1, VanishedGood DEF StateOK
  <2>3. PICK s : s = Tail(stack)
    OBVIOUS
  <2>4. StackGood(s)'
    BY <1>4, <1>5, <2>1, <2>2, <2>3, VanishedStack DEF StateOK
  <2>5. StackOK'
    BY <1>1, <2>3, <2>4 DEF StackOK
  <2> QED BY <1>1, <1>2, <1>3, <1>5, <2>1, <2>2, <2>5 DEF StateOK
<1>6. CASE Top.c \notin players \union monsters
  <2>1. UNCHANGED <<world, known, picture, blurred>>
    BY <1>6 DEF Drop
  <2>2. StackOK'
    BY <1>1, <1>4, <2>1, SameWorldStack
  <2>3. players' = players
    BY <2>1 DEF world
  <2> QED BY <1>1, <1>2, <1>3, <1>6, <2>1, <2>2, <2>3, SameClients, SameHistory DEF StateOK
<1> QED BY <1>5, <1>6

\* The loop that a look at the spectators begins, and what comes after it.
Showing == CASE Top.do = "lookStep" -> "step"     [] Top.do = "lookJump" -> "jump"
             [] Top.do = "spotTurn" -> "turn"     [] Top.do = "spotDress" -> "dress"
             [] Top.do = "spotRenew" -> "renew"   [] Top.do = "spotHide" -> "gone"
             [] Top.do = "spotShow" -> "appear"
Near == Spectators(Top.from, Top.c) \union Spectators(Top.to, Top.c)
Audience == IF Top.do = "spotHide" THEN Near \ GM
            ELSE IF Top.do = "spotShow"
            THEN {p \in players \ (GM \union {Top.c}) : CanSee(pos[p], Top.to)}
            ELSE Near
Called == Task(Showing, Top.c, Top.from, Top.to, Audience)
Finish == Task(IF Top.do = "lookStep" THEN "finishStep" ELSE "finishJump",
               Top.c, Top.from, Top.to, {})
Rear == IF Top.do \in Looks THEN <<Finish>> \o Tail(stack) ELSE Tail(stack)

LEMMA CalledIs ==
    /\ Called.do = Showing /\ Called.c = Top.c /\ Called.from = Top.from
    /\ Called.to = Top.to /\ Called.todo = Audience
    /\ Finish.do = (IF Top.do = "lookStep" THEN "finishStep" ELSE "finishJump")
    /\ Finish.c = Top.c /\ Finish.from = Top.from /\ Finish.to = Top.to /\ Finish.todo = {}
BY DEF Called, Finish, Task

LEMMA NearIs ==
    ASSUME StateOK, NEW p
    PROVE  p \in Near <=> /\ p \in players /\ p # Top.c
                          /\ CanSee(pos[p], Top.from) \/ CanSee(pos[p], Top.to)
                          /\ MaySee(p, Top.c)
BY DEF StateOK, WorldOK, Near, Spectators, MaySee

LEMMA LoopThen ==
    ASSUME NEW s \in Seq(TaskSet), NEW t \in TaskSet, NEW u \in TaskSet
    PROVE  (Looped(t) \o <<u>>) \o s = Looped(t) \o (<<u>> \o s)
BY ConcatAssociative DEF Looped

LEMMA LookIs ==
    ASSUME StateOK, Look, Called \in TaskSet, Finish \in TaskSet
    PROVE  stack' = Looped(Called) \o Rear
<1>1. Tail(stack) \in Seq(TaskSet) /\ Top.do \in Spots
  BY TopGood DEF StateOK, StackGood, Look, Doing
<1>2. Looped(Called) = Loop(Showing, Top.c, Top.from, Top.to, Audience)
  BY DEF Called, Looped, Loop, Task
<1>3. CASE Top.do = "lookStep"
  <2>1. stack' = (Loop(Showing, Top.c, Top.from, Top.to, Audience) \o <<Finish>>) \o Tail(stack)
    BY <1>3 DEF Look, Showing, Audience, Near, Finish
  <2>2. Rear = <<Finish>> \o Tail(stack)
    BY <1>3 DEF Rear, Looks
  <2> QED BY <1>1, <1>2, <2>1, <2>2, LoopThen
<1>4. CASE Top.do = "lookJump"
  <2>1. stack' = (Loop(Showing, Top.c, Top.from, Top.to, Audience) \o <<Finish>>) \o Tail(stack)
    BY <1>4 DEF Look, Showing, Audience, Near, Finish
  <2>2. Rear = <<Finish>> \o Tail(stack)
    BY <1>4 DEF Rear, Looks
  <2> QED BY <1>1, <1>2, <2>1, <2>2, LoopThen
<1>5. CASE Top.do \in {"spotTurn", "spotDress", "spotRenew", "spotHide", "spotShow"}
  <2>1. stack' = Loop(Showing, Top.c, Top.from, Top.to, Audience) \o Tail(stack)
    BY <1>5 DEF Look, Showing, Audience, Near
  <2>2. Rear = Tail(stack)
    BY <1>5 DEF Rear, Looks
  <2> QED BY <1>2, <2>1, <2>2
<1> QED BY <1>1, <1>3, <1>4, <1>5 DEF Spots

LEMMA LookState ==
    ASSUME StateOK, Look
    PROVE  /\ StateOK' /\ Called \in TaskSet
           /\ Tasks' = (Below \union {u \in {Finish} : Top.do \in Looks})
                       \union {u \in {Called} : u.todo # {}}
<1>1. /\ Top \in TaskSet /\ TaskRight(Top) /\ StackGood(Tail(stack)) /\ Top.do \in Spots
      /\ \A u \in Elems(Tail(stack)) : Above(Present, Top, u)
  BY TopGood DEF StateOK, Look, Doing
<1>2. /\ Top.c \in Creature /\ Top.from \in Position /\ Top.to \in Position
      /\ Audience \subseteq players \ {Top.c}
  <2>1. Audience \subseteq players \ {Top.c}
    BY NearIs DEF Audience
  <2> QED BY <1>1, <2>1 DEF TaskSet, TaskRight, Spots
<1>3. Showing \in {"step", "jump", "turn", "dress", "renew", "gone", "appear"}
  BY <1>1 DEF Showing, Spots
<1>4. Called \in TaskSet
  BY <1>2, <1>3 DEF Called, Task, TaskSet, Kinds, Loops, StateOK, WorldOK
<1>5. Finish \in TaskSet
  BY <1>2 DEF Finish, Task, TaskSet, Kinds, Selves
<1>6. stack' = Looped(Called) \o Rear
  BY <1>4, <1>5, LookIs
<1>7. StackGood(Rear) /\ Elems(Rear) = Below \union {u \in {Finish} : Top.do \in Looks}
  <2>1. CASE Top.do \in Looks
    <3>1. TaskRight(Finish) /\ Finish.do # "gone"
      BY <1>1, <2>1, CalledIs DEF TaskRight, Looks, Journeys, Strides
    <3>2. \A u \in Elems(Tail(stack)) : Above(Present, Finish, u)
      BY <1>1, <2>1 DEF Above, Before, Looks, Spots
    <3>3. StackGood(<<Finish>> \o Tail(stack))
          /\ Elems(<<Finish>> \o Tail(stack)) = {Finish} \union Elems(Tail(stack))
      BY <1>1, <1>5, <3>1, <3>2, PushGood
    <3> QED BY <2>1, <3>3 DEF Rear, Below
  <2>2. CASE Top.do \notin Looks
    BY <1>1, <2>2 DEF Rear, Below
  <2> QED BY <2>1, <2>2
<1>8. Showing # "gone" => TaskRight(Called)
  <2>1. CASE Showing = "appear"
    <3>1. Top.do = "spotShow"
      BY <1>1, <2>1 DEF Showing, Spots
    <3>2. \A p \in Audience : CanSee(pos[p], Top.to)
      BY <3>1 DEF Audience
    <3> QED BY <1>1, <1>2, <2>1, <3>1, <3>2, CalledIs DEF TaskRight, Journeys, Strides, Looks
  <2>2. CASE Showing \in {"step", "jump", "turn", "dress", "renew"}
    <3>1. Top.do \in {"lookStep", "lookJump", "spotTurn", "spotDress", "spotRenew"}
          /\ (Showing \in Strides <=> Top.do \in Looks)
      BY <1>1, <2>2 DEF Showing, Spots, Strides, Looks
    <3>2. \A p \in Audience : /\ MaySee(p, Top.c)
                              /\ CanSee(pos[p], Top.to) \/ CanSee(pos[p], Top.from)
      BY <3>1, NearIs DEF Audience
    <3> QED BY <1>1, <1>2, <2>2, <3>1, <3>2, CalledIs DEF TaskRight, Journeys, Strides, Looks
  <2> QED BY <1>3, <2>1, <2>2
<1>9. \A u \in Elems(Rear) : Showing # "gone" => Above(Present, Called, u)
  <2>1. \A u \in Below : Showing # "gone" => Above(Present, Called, u)
    BY <1>1, CalledIs DEF Below, Above, Before, Showing, Spots
  <2>2. Top.do \in Looks => Above(Present, Called, Finish)
    BY <1>1, CalledIs DEF Above, Before, Showing, Looks
  <2> QED BY <1>7, <2>1, <2>2
<1>10. Showing = "gone" => Top.do = "spotHide" /\ (Top.c \in Present => Audience = {})
  <2>1. ASSUME Showing = "gone" PROVE Top.do = "spotHide"
    BY <1>1, <2>1 DEF Showing, Spots
  <2>2. ASSUME Showing = "gone", Top.c \in Present PROVE Audience = {}
    <3>1. Top.c \in ghost
      BY <1>1, <2>1, <2>2 DEF TaskRight
    <3>2. \A p \in Near : p \in GM
      BY <3>1, NearIs DEF MaySee
    <3> QED BY <2>1, <2>2, <3>2 DEF Audience
  <2> QED BY <2>1, <2>2
<1> DEFINE w == Looped(Called) \o Rear
<1>11. StackGood(w) /\ Elems(w) = Elems(Rear) \union {u \in {Called} : u.todo # {}}
  <2>1. CASE Audience = {}
    <3>1. w = Rear
      <4>1. w = << >> \o Rear
        BY <2>1, CalledIs DEF Looped
      <4>2. Rear \in Seq(TaskSet)
        BY <1>7 DEF StackGood
      <4> QED BY <4>1, <4>2, ConcatEmptySeq
    <3> HIDE DEF w
    <3> QED BY <1>7, <2>1, <3>1, CalledIs
  <2>2. CASE Audience # {} /\ Showing # "gone"
    <3> HIDE DEF w
    <3>1. TaskRight(Called) /\ Called.do # "gone" /\ \A u \in Elems(Rear) : Above(Present, Called, u)
      BY <1>8, <1>9, <2>2, CalledIs
    <3> QED BY <1>4, <1>7, <3>1, LoopGood DEF w
  <2>3. CASE Audience # {} /\ Showing = "gone"
    <3>1. Top.c \notin Present /\ Top.do = "spotHide"
      BY <1>10, <2>3
    <3>2. TaskRight(Called)
      BY <1>1, <1>2, <2>3, <3>1, CalledIs DEF TaskRight, Journeys, Strides, Looks
    <3>3. \A u \in Elems(Rear) : Above(Present, Called, u)
      BY <2>3, <3>1, CalledIs DEF Above
    <3> HIDE DEF w
    <3> QED BY <1>4, <1>7, <3>1, <3>2, <3>3, LoopGood, CalledIs DEF w
  <2> QED BY <2>1, <2>2, <2>3
<1>12. UNCHANGED <<world, known, picture, blurred>> /\ players' = players
  BY DEF Look, world
<1>13. StackOK' /\ Tasks' = Elems(Rear) \union {u \in {Called} : u.todo # {}}
  <2> HIDE DEF w
  <2>1. stack' = w
    BY <1>6 DEF w
  <2> QED BY <1>11, <1>12, <2>1, SameWorldStack DEF Tasks
<1> QED BY <1>4, <1>7, <1>12, <1>13, SameClients, SameHistory DEF StateOK

\* The new creature is shown to p, one of those to greet.
Hello(p) == Task("appear", Top.c, Top.to, Top.to, {p})

LEMMA HelloIs ==
    ASSUME NEW p
    PROVE  /\ Hello(p).do = "appear" /\ Hello(p).c = Top.c /\ Hello(p).from = Top.to
           /\ Hello(p).to = Top.to /\ Hello(p).todo = {p}
           /\ Loop("appear", Top.c, Top.to, Top.to, {p}) = Looped(Hello(p))
BY DEF Hello, Task, Loop, Looped

Greeted(p) ==
    /\ Doing({"greet"}) /\ p \in Top.todo \intersect players
    /\ stack' = Loop("appear", Top.c, Top.to, Top.to, {p}) \o Without(p)
    /\ IF Top.c \in players
       THEN LET v == Added(Client(Top.c), p, pos[p]) IN
            /\ known' = [known EXCEPT ![Top.c] = v.known]
            /\ picture' = [picture EXCEPT ![Top.c] =
                  IF CanSee(pos[Top.c], pos[p]) THEN v.picture ELSE picture[Top.c]]
       ELSE UNCHANGED <<known, picture>>
    /\ UNCHANGED <<world, blurred, strays>>

LEMMA GreetIs ==
    ASSUME StateOK, Greet
    PROVE  \E p \in players : Greeted(p)
<1>1. PICK p \in Top.todo \intersect players :
        /\ stack' = Loop("appear", Top.c, Top.to, Top.to, {p}) \o Without(p)
        /\ IF Top.c \in players
           THEN LET v == Added(Client(Top.c), p, pos[p]) IN
                /\ known' = [known EXCEPT ![Top.c] = v.known]
                /\ picture' = [picture EXCEPT ![Top.c] =
                                  IF CanSee(pos[Top.c], pos[p]) THEN v.picture ELSE @]
           ELSE UNCHANGED <<known, picture>>
  BY DEF Greet
<1>2. picture \in [Player -> [Creature -> Position \union {Nowhere}]] /\ players \subseteq Player
  BY DEF StateOK, ClientsOK, WorldOK
<1>3. Greeted(p)
  BY <1>1, <1>2 DEF Greeted, Greet
<1> QED BY <1>3

LEMMA GreetState ==
    ASSUME StateOK, NEW p \in players, Greeted(p)
    PROVE  /\ StateOK'
           /\ Tasks' = (Below \union {u \in {Rest(p)} : u.todo # {}}) \union {Hello(p)}
<1>1. /\ stack # << >> /\ Top.do = "greet" /\ Top \in TaskSet /\ TaskRight(Top)
      /\ \A u \in Below : Above(Present, Top, u)
  BY TopGood DEF StateOK, Greeted, Doing, Below
<1>2. p \in Top.todo /\ p \in Player /\ p # Top.c
  BY <1>1 DEF Greeted, StateOK, WorldOK, TaskRight
<1>3. /\ StackGood(Without(p))
      /\ Elems(Without(p)) = Below \union {u \in {Rest(p)} : u.todo # {}}
  BY <1>1, WithoutGood DEF StateOK, Doing, Below
<1>4. Hello(p) \in TaskSet
  BY <1>1, <1>2 DEF Hello, Task, TaskSet, Kinds, Loops
<1>5. TaskRight(Hello(p))
  <2>1. PICK h : h = Hello(p)
    OBVIOUS
  <2>2. h.do = "appear" /\ h.c = Top.c /\ h.from = Top.to /\ h.to = Top.to /\ h.todo = {p}
    BY <2>1, HelloIs
  <2>3. CanSee(pos[p], Top.to)
    BY <1>1, <1>2 DEF TaskRight
  <2>4. TaskRight(h)
    BY <1>1, <1>2, <2>2, <2>3 DEF TaskRight, Journeys, Strides, Looks
  <2> QED BY <2>1, <2>4
<1>6. \A u \in Elems(Without(p)) : Above(Present, Hello(p), u)
  <2>1. \A u \in Below : Above(Present, Hello(p), u)
    BY <1>1, HelloIs DEF Above, Before
  <2>2. Above(Present, Hello(p), Rest(p))
    <3>1. Hello(p).todo \intersect Rest(p).todo = {}
      <4>1. Hello(p).todo = {p}
        BY HelloIs
      <4>2. Rest(p).todo = Top.todo \ {p}
        BY RestIs
      <4> QED BY <4>1, <4>2
    <3> QED BY <1>1, <3>1, HelloIs, RestIs DEF Above, Before
  <2> QED BY <1>3, <2>1, <2>2
<1> DEFINE w == Looped(Hello(p)) \o Without(p)
<1>7. StackGood(w) /\ Elems(w) = Elems(Without(p)) \union {u \in {Hello(p)} : u.todo # {}}
  <2>1. Hello(p).do # "gone"
    BY HelloIs
  <2> HIDE DEF w
  <2> QED BY <1>3, <1>4, <1>5, <1>6, <2>1, LoopGood DEF w
<1>8. {u \in {Hello(p)} : u.todo # {}} = {Hello(p)}
  BY HelloIs, ZenonT(30)
<1>9. stack' = w /\ world' = world /\ blurred' = blurred /\ players' = players
  BY HelloIs DEF Greeted, world
<1> HIDE DEF w
<1>10. StackOK' /\ Tasks' = (Below \union {u \in {Rest(p)} : u.todo # {}}) \union {Hello(p)}
  BY <1>3, <1>7, <1>8, <1>9, SameWorldStack DEF Tasks
<1>11. CASE Top.c \notin players
  <2>1. known' = known /\ picture' = picture
    BY <1>11 DEF Greeted
  <2> QED BY <1>9, <1>10, <2>1, SameClients, SameHistory DEF StateOK
<1>12. CASE Top.c \in players
  <2> DEFINE c == Top.c
             v == Added(Client(c), p, pos[p])
             x == IF CanSee(pos[c], pos[p]) THEN v.picture ELSE picture[c]
             u == [known |-> v.known, picture |-> x]
  <2>1. known' = [known EXCEPT ![c] = v.known] /\ picture' = [picture EXCEPT ![c] = x]
    BY <1>12 DEF Greeted
  <2>2. c \in Player /\ p \in Creature /\ pos[p] \in Position
    BY <1>2, <1>12 DEF StateOK, WorldOK, Creature, Present
  <2>3. v \in View /\ Client(c).picture = picture[c] /\ Client(c) \in View
    BY <2>2, ClientIs, AddedIs DEF StateOK
  <2> HIDE DEF v
  <2>4. v.known \in SUBSET Creature /\ x \in [Creature -> Position \union {Nowhere}]
    BY <2>3 DEF View
  <2> HIDE DEF x
  <2>5. u \in View /\ u.known = v.known /\ u.picture = x
    BY <2>4 DEF View
  <2> HIDE DEF u
  <2> QED BY <1>9, <1>10, <1>12, <2>1, <2>5, OneClient, SameHistory DEF StateOK
<1> QED BY <1>11, <1>12

(***************************************************************************)
(* The map a mover gets at the end of its step.                            *)
(***************************************************************************)
Seen(at, c) == VisibleFrom(at, c) \union MonstersVisibleFrom(at) \union NpcsVisibleFrom(at)

LEMMA SeenIs ==
    ASSUME StateOK, NEW c \in players, NEW at, NEW d
    PROVE  d \in Seen(at, c) <=> /\ d \in Present /\ d # c /\ CanSee(at, pos[d]) /\ MaySee(c, d)
BY PresenceAssumption DEF StateOK, WorldOK, Seen, VisibleFrom, MonstersVisibleFrom,
   NpcsVisibleFrom, MaySee, Present

LEMMA SeenFew ==
    ASSUME StateOK, NEW c, NEW at
    PROVE  Seen(at, c) \subseteq Creature
BY DEF StateOK, WorldOK, Seen, VisibleFrom, MonstersVisibleFrom, NpcsVisibleFrom, Creature

LEMMA SeesItself ==
    ASSUME NEW a \in Position
    PROVE  CanSee(a, a)
<1>1. a.x \in Int /\ a.z \in Nat /\ Left \in Nat /\ Right \in Nat
  <2>1. MaxX \in Nat /\ Floor \subseteq Nat /\ Left \in Nat /\ Right \in Nat
    BY PresenceAssumption
  <2>2. PICK x \in 0..MaxX, z \in Floor : x = a.x /\ z = a.z
    BY DEF Position
  <2> QED BY <2>1, <2>2
<1> QED BY <1>1 DEF CanSee, Distance

\* What a map shows of creature d to a mover whose client had the picture
\* shown; lost, if d is forgotten on the way.
Redrawn(lost, placed, described, kept, to, believed, shown, here) ==
    IF placed /\ described /\ (~ (believed /\ ~ lost) \/ shown # Nowhere) THEN here
    ELSE IF kept /\ shown # Nowhere /\ CanSee(to, shown) THEN shown ELSE Nowhere

\* The mover's client v, once the creatures gone from view are forgotten.
Trimmed(u, lost) == [u EXCEPT !.known = @ \ lost]

LEMMA MapShows ==
    ASSUME StateOK, NEW c \in players, NEW to \in Position, NEW u \in View,
           NEW seen, NEW placed \in SUBSET Creature, c \notin placed,
           NEW described, NEW kept, c \in kept
    PROVE  LET w == Mapped(c, to, Trimmed(u, LeftView(seen, to)), placed, described, kept)
           IN  /\ w \in View /\ (u.picture[c] = to => w.picture[c] = to)
               /\ \A d \in Creature \ {c} :
                    LET lost == d \in seen /\ ~ CanSee(to, pos[d])
                    IN  /\ d \in w.known <=> (d \in u.known /\ ~ lost) \/ d \in placed
                        /\ w.picture[d] = Redrawn(lost, d \in placed, d \in described, d \in kept,
                                                  to, d \in u.known, u.picture[d], pos[d])
<1> DEFINE v == Trimmed(u, LeftView(seen, to))
           w == Mapped(c, to, v, placed, described, kept)
<1>1. v \in View /\ v.known = u.known \ LeftView(seen, to) /\ v.picture = u.picture
  BY DEF View, Trimmed
<1>2. c \in Creature /\ to # Nowhere /\ CanSee(to, to)
  BY PresenceAssumption, SeesItself DEF StateOK, WorldOK, Creature
<1> HIDE DEF v
<1>3. /\ w \in View /\ w.known = (v.known \union placed) \ {c}
      /\ \A d \in Creature : w.picture[d] =
           IF d \in placed \intersect described /\ (d \notin v.known \/ v.picture[d] # Nowhere)
           THEN pos[d]
           ELSE IF d \in kept /\ v.picture[d] # Nowhere /\ CanSee(to, v.picture[d])
                THEN v.picture[d] ELSE Nowhere
  BY <1>1, <1>2 DEF Mapped, View, StateOK, WorldOK
<1> HIDE DEF w
<1>4. u.picture[c] = to => w.picture[c] = to
  BY <1>1, <1>2, <1>3
<1>5. ASSUME NEW d \in Creature \ {c}
      PROVE  LET lost == d \in seen /\ ~ CanSee(to, pos[d])
             IN  /\ d \in w.known <=> (d \in u.known /\ ~ lost) \/ d \in placed
                 /\ w.picture[d] = Redrawn(lost, d \in placed, d \in described, d \in kept,
                                           to, d \in u.known, u.picture[d], pos[d])
  BY <1>1, <1>3 DEF LeftView, Redrawn
<1> QED BY <1>3, <1>4, <1>5 DEF v, w

\* Creature d as it should look from the tile `at` to the client of c.
Fair(c, at, d, believed, shown) ==
    /\ believed <=> shown # Nowhere
    /\ shown = IF CanSee(at, pos[d]) /\ MaySee(c, d) THEN pos[d] ELSE Nowhere

\* What was right from the old tile is right from the new one, except what F names.
NewMap(w, F) ==
    LET c == Top.c IN
    /\ w \in View
    /\ known' = [known EXCEPT ![c] = w.known] /\ picture' = [picture EXCEPT ![c] = w.picture]
    /\ picture[c][c] # Nowhere => w.picture[c] = Top.to
    /\ \A d \in Creature \ {c} :
          /\ /\ d \in Present \ F
             /\ Fair(c, Top.from, d, d \in known[c], picture[c][d])
             => Fair(c, Top.to, d, d \in w.known, w.picture[d])
          /\ /\ d \notin Present
             /\ picture[c][d] = Nowhere \/ ~ CanSee(Top.to, picture[c][d])
             => w.picture[d] = Nowhere

LEMMA FinishStepMap ==
    ASSUME StateOK, FinishStep
    PROVE  \E w \in View : NewMap(w, {})
<1> DEFINE c == Top.c
           from == Top.from
           to == Top.to
           seen == Seen(from, c)
           placed == Seen(to, c)
           teleportLike == to.z # from.z /\ Distance(to.x, from.x) > 1
           u == IF Boundary(from, to) \/ teleportLike
                THEN AddedSelf(Client(c), c, to) ELSE Moved(Client(c), c, to)
           described == IF teleportLike THEN placed ELSE {d \in placed : ~ CanSee(from, pos[d])}
           kept == IF teleportLike THEN {c} ELSE Creature
           w == Mapped(c, to, Trimmed(u, LeftView(seen, to)), placed, described, kept)
<1>1. c \in players /\ Top.do = "finishStep" /\ from \in Position /\ to \in Position
      /\ c \in Player /\ c \in Creature /\ Nowhere \notin Position
  BY TopGood, PresenceAssumption DEF StateOK, WorldOK, TaskRight, Creature, FinishStep, Doing
<1>2. known' = [known EXCEPT ![c] = w.known] /\ picture' = [picture EXCEPT ![c] = w.picture]
  BY DEF FinishStep, Trimmed, Seen
<1>3. Client(c) \in View /\ Client(c).known = known[c] /\ Client(c).picture = picture[c]
  BY <1>1, ClientIs DEF StateOK
<1>4. /\ u \in View /\ (picture[c][c] # Nowhere => u.picture[c] = to)
      /\ \A d \in Creature \ {c} : (d \in u.known <=> d \in known[c]) /\ u.picture[d] = picture[c][d]
  <2>1. CASE Boundary(from, to) \/ teleportLike
    <3>1. u = AddedSelf(Client(c), c, to)
      BY <2>1
    <3> HIDE DEF u
    <3> QED BY <1>1, <1>3, <3>1, AddedSelfIs
  <2>2. CASE ~ (Boundary(from, to) \/ teleportLike)
    <3>1. u = Moved(Client(c), c, to)
      BY <2>2
    <3> HIDE DEF u
    <3> QED BY <1>1, <1>3, <3>1, MovedIs
  <2> QED BY <2>1, <2>2
<1>5. placed \in SUBSET Creature /\ c \notin placed
  BY <1>1, SeenFew, SeenIs
<1>6. c \in kept /\ \A d \in placed : d \in described \/ (CanSee(from, pos[d]) /\ kept = Creature)
  BY <1>1
<1> HIDE DEF u, described, kept, teleportLike
<1>7. /\ w \in View /\ (u.picture[c] = to => w.picture[c] = to)
      /\ \A d \in Creature \ {c} :
           LET lost == d \in seen /\ ~ CanSee(to, pos[d])
           IN  /\ d \in w.known <=> (d \in u.known /\ ~ lost) \/ d \in placed
               /\ w.picture[d] = Redrawn(lost, d \in placed, d \in described, d \in kept,
                                         to, d \in u.known, u.picture[d], pos[d])
  <2> HIDE DEF seen, placed, w, from, to, c
  <2> QED BY <1>1, <1>4, <1>5, <1>6, MapShows DEF w
<1> HIDE DEF w
<1>8. ASSUME NEW d \in Creature \ {c}, d \in Present, Fair(c, from, d, d \in known[c], picture[c][d])
      PROVE  Fair(c, to, d, d \in w.known, w.picture[d])
  <2> DEFINE lost == d \in seen /\ ~ CanSee(to, pos[d])
  <2>1. (d \in seen <=> CanSee(from, pos[d]) /\ MaySee(c, d))
        /\ (d \in placed <=> CanSee(to, pos[d]) /\ MaySee(c, d))
    BY <1>1, <1>8, SeenIs
  <2>2. /\ d \in w.known <=> (d \in known[c] /\ ~ lost) \/ d \in placed
        /\ w.picture[d] = Redrawn(lost, d \in placed, d \in described, d \in kept,
                                  to, d \in known[c], picture[c][d], pos[d])
    BY <1>4, <1>7 DEF Redrawn
  <2>3. (d \in placed /\ d \in seen => d \in described \/ d \in kept)
        /\ (d \in placed /\ d \notin seen => d \in described)
    BY <1>1, <1>6, <1>8, <2>1
  <2> DEFINE here == pos[d]
             s1 == CanSee(from, here)
             s2 == CanSee(to, here)
             may == MaySee(c, d)
             believed == d \in known[c]
             shown == picture[c][d]
  <2>4. /\ here # Nowhere /\ (believed <=> shown # Nowhere)
        /\ shown = IF s1 /\ may THEN here ELSE Nowhere
        /\ (shown = here => (CanSee(to, shown) <=> s2))
    BY <1>8 DEF StateOK, WorldOK, Fair
  <2> HIDE DEF seen, placed, from, to, c, here, s1, s2, may, believed, shown
  <2>5. w.picture[d] = IF s2 /\ may THEN here ELSE Nowhere
    BY <2>1, <2>2, <2>3, <2>4 DEF Redrawn, here, s1, s2, may, believed, shown
  <2>6. d \in w.known <=> s2 /\ may
    BY <2>1, <2>2, <2>4 DEF here, s1, s2, may, believed, shown
  <2> QED BY <2>4, <2>5, <2>6 DEF Fair, here, s2, may
<1>9. ASSUME NEW d \in Creature \ {c}, d \notin Present,
             picture[c][d] = Nowhere \/ ~ CanSee(to, picture[c][d])
      PROVE  w.picture[d] = Nowhere
  <2>1. d \notin placed
    BY <1>1, <1>9, SeenIs
  <2> QED BY <1>4, <1>7, <1>9, <2>1 DEF Redrawn
<1>10. NewMap(w, {})
  BY <1>2, <1>4, <1>7, <1>8, <1>9 DEF NewMap
<1> QED BY <1>7, <1>10

\* The monsters a jump should have made the actor forget.
Unforgotten == LeftView(monsters \intersect known[Top.c], Top.to)

LEMMA FinishJumpMap ==
    ASSUME StateOK, FinishJump
    PROVE  \E w \in View : NewMap(w, Unforgotten)
<1> DEFINE c == Top.c
           from == Top.from
           to == Top.to
           seen == VisibleFrom(from, c) \union NpcsVisibleFrom(from)
           placed == Seen(to, c)
           u == AddedSelf(Client(c), c, to)
           w == Mapped(c, to, Trimmed(u, LeftView(seen, to)), placed, placed, {c})
<1>1. c \in players /\ Top.do = "finishJump" /\ from \in Position /\ to \in Position
      /\ c \in Player /\ c \in Creature /\ Nowhere \notin Position
  BY TopGood, PresenceAssumption DEF StateOK, WorldOK, TaskRight, Creature, FinishJump, Doing
<1>2. known' = [known EXCEPT ![c] = w.known] /\ picture' = [picture EXCEPT ![c] = w.picture]
  BY DEF FinishJump, Trimmed, Seen
<1>3. Client(c) \in View /\ Client(c).known = known[c] /\ Client(c).picture = picture[c]
  BY <1>1, ClientIs DEF StateOK
<1>4. /\ u \in View /\ u.picture[c] = to
      /\ \A d \in Creature \ {c} : (d \in u.known <=> d \in known[c]) /\ u.picture[d] = picture[c][d]
  BY <1>1, <1>3, AddedSelfIs
<1>5. placed \in SUBSET Creature /\ c \notin placed
  BY <1>1, SeenFew, SeenIs
<1> HIDE DEF u
<1>7. /\ w \in View /\ w.picture[c] = to
      /\ \A d \in Creature \ {c} :
           LET lost == d \in seen /\ ~ CanSee(to, pos[d])
           IN  /\ d \in w.known <=> (d \in u.known /\ ~ lost) \/ d \in placed
               /\ w.picture[d] = Redrawn(lost, d \in placed, d \in placed, d \in {c},
                                         to, d \in u.known, u.picture[d], pos[d])
  <2> HIDE DEF seen, placed, w, from, to, c
  <2> QED BY <1>1, <1>4, <1>5, MapShows DEF w
<1> HIDE DEF w
<1>8. ASSUME NEW d \in Creature \ {c}, d \in Present \ Unforgotten,
             Fair(c, from, d, d \in known[c], picture[c][d])
      PROVE  Fair(c, to, d, d \in w.known, w.picture[d])
  <2> DEFINE lost == d \in seen /\ ~ CanSee(to, pos[d])
  <2>1. (d \in placed <=> CanSee(to, pos[d]) /\ MaySee(c, d))
    BY <1>1, <1>8, SeenIs
  <2>2. d \notin monsters => (d \in seen <=> CanSee(from, pos[d]) /\ MaySee(c, d))
    BY <1>1, <1>8, SeenIs DEF Seen, MonstersVisibleFrom
  <2>3. d \in monsters => d \notin seen /\ (d \in known[c] => CanSee(to, pos[d]))
    BY <1>8, PresenceAssumption
       DEF Unforgotten, LeftView, StateOK, WorldOK, VisibleFrom, NpcsVisibleFrom
  <2>4. /\ d \in w.known <=> (d \in known[c] /\ ~ lost) \/ d \in placed
        /\ w.picture[d] = Redrawn(lost, d \in placed, d \in placed, d \in {c},
                                  to, d \in known[c], picture[c][d], pos[d])
    BY <1>4, <1>7 DEF Redrawn
  <2> DEFINE here == pos[d]
             s1 == CanSee(from, here)
             s2 == CanSee(to, here)
             may == MaySee(c, d)
             believed == d \in known[c]
             shown == picture[c][d]
  <2>5. /\ here # Nowhere /\ (believed <=> shown # Nowhere)
        /\ shown = IF s1 /\ may THEN here ELSE Nowhere
    BY <1>8 DEF StateOK, WorldOK, Fair
  <2>6. d # c
    BY <1>8
  <2>7. believed => (lost <=> ~ s2)
    BY <2>2, <2>3, <2>5
  <2> HIDE DEF seen, placed, from, to, c, here, s1, s2, may, believed, shown, lost
  <2>8. w.picture[d] = IF s2 /\ may THEN here ELSE Nowhere
    BY <2>1, <2>4, <2>5, <2>6, <2>7 DEF Redrawn, here, s2, may, believed, shown
  <2>9. d \in w.known <=> s2 /\ may
    BY <2>1, <2>4, <2>5, <2>7 DEF here, s2, may, believed, shown
  <2> QED BY <2>5, <2>8, <2>9 DEF Fair, here, s2, may
<1>9. ASSUME NEW d \in Creature \ {c}, d \notin Present
      PROVE  w.picture[d] = Nowhere
  <2>1. d \notin placed
    BY <1>1, <1>9, SeenIs
  <2> QED BY <1>4, <1>7, <1>9, <2>1 DEF Redrawn
<1>10. NewMap(w, Unforgotten)
  BY <1>2, <1>4, <1>7, <1>8, <1>9 DEF NewMap
<1> QED BY <1>7, <1>10

LEMMA FinishState ==
    ASSUME StateOK, FinishStep \/ FinishJump
    PROVE  StateOK' /\ Tasks' = Below
<1>1. /\ stack # << >> /\ stack' = Tail(stack) /\ world' = world /\ Top.c \in players
      /\ players' = players
  BY DEF FinishStep, FinishJump, Doing, world
<1>2. StackOK'
  BY <1>1, TopGood, SameWorldStack DEF StateOK
<1>3. PICK w \in View : /\ known' = [known EXCEPT ![Top.c] = w.known]
                        /\ picture' = [picture EXCEPT ![Top.c] = w.picture]
  BY FinishStepMap, FinishJumpMap DEF NewMap
<1>4. WorldOK' /\ ClientsOK'
  BY <1>1, <1>3, OneClient
<1>5. HistoryOK'
  <2>1. CASE FinishStep
    BY <1>1, <2>1, SameHistory DEF FinishStep
  <2>2. CASE FinishJump
    <3>1. blurred' = blurred \union {<<Top.c, m>> : m \in Unforgotten}
      BY <2>2 DEF FinishJump, Unforgotten
    <3>2. Top.c \notin Unforgotten /\ Unforgotten \subseteq Creature
      BY <1>1, PresenceAssumption DEF Unforgotten, LeftView, StateOK, WorldOK, Creature
    <3> QED BY <1>1, <3>1, <3>2 DEF StateOK, HistoryOK
  <2> QED BY <2>1, <2>2
<1> QED BY <1>1, <1>2, <1>4, <1>5 DEF StateOK, Tasks, Below

(***************************************************************************)
(* What a handler leaves to do when it starts.                             *)
(***************************************************************************)
LEMMA OneTask ==
    ASSUME NEW t \in TaskSet, NEW P
    PROVE  <<t>> \in Seq(TaskSet) /\ Elems(<<t>>) = {t} /\ Chain(P, <<t>>)
BY DEF Elems, Chain

LEMMA TwoTasks ==
    ASSUME NEW t \in TaskSet, NEW u \in TaskSet, NEW P
    PROVE  /\ <<t, u>> \in Seq(TaskSet) /\ Elems(<<t, u>>) = {t, u}
           /\ Above(P, t, u) => Chain(P, <<t, u>>)
<1> DEFINE w == <<t, u>>
<1>1. DOMAIN w = {1, 2} /\ w[1] = t /\ w[2] = u /\ w \in Seq(TaskSet)
  OBVIOUS
<1> HIDE DEF w
<1>3. Elems(w) = {t, u}
  BY <1>1 DEF Elems
<1>4. Above(P, t, u) => Chain(P, w)
  BY <1>1 DEF Chain
<1> QED BY <1>1, <1>3, <1>4 DEF w

LEMMA ThreeTasks ==
    ASSUME NEW t \in TaskSet, NEW u \in TaskSet, NEW v \in TaskSet, NEW P
    PROVE  /\ <<t, u, v>> \in Seq(TaskSet) /\ Elems(<<t, u, v>>) = {t, u, v}
           /\ Above(P, t, u) /\ Above(P, t, v) /\ Above(P, u, v) => Chain(P, <<t, u, v>>)
<1> DEFINE w == <<t, u, v>>
<1>1. DOMAIN w = {1, 2, 3} /\ w[1] = t /\ w[2] = u /\ w[3] = v /\ w \in Seq(TaskSet)
  OBVIOUS
<1> HIDE DEF w
<1>2. Elems(w) = {t, u, v}
  BY <1>1 DEF Elems
<1>3. Above(P, t, u) /\ Above(P, t, v) /\ Above(P, u, v) => Chain(P, w)
  BY <1>1 DEF Chain
<1> QED BY <1>1, <1>2, <1>3 DEF w

\* A loop and the task that follows it.
LEMMA LoopAndTask ==
    ASSUME NEW t \in TaskSet, NEW u \in TaskSet, NEW P, Above(P, t, u)
    PROVE  LET w == Looped(t) \o <<u>>
           IN  /\ w \in Seq(TaskSet) /\ Elems(w) = {u} \union {x \in {t} : x.todo # {}}
               /\ Chain(P, w)
<1>1. <<u>> \in Seq(TaskSet) /\ Elems(<<u>>) = {u} /\ Chain(P, <<u>>)
  BY OneTask
<1> QED BY <1>1, LoopOn

LEMMA LoopAlone ==
    ASSUME NEW t \in TaskSet, NEW P
    PROVE  /\ Looped(t) \in Seq(TaskSet) /\ Elems(Looped(t)) = {x \in {t} : x.todo # {}}
           /\ Chain(P, Looped(t))
<1>1. CASE t.todo = {}
  BY <1>1, Nothing DEF Looped
<1>2. CASE t.todo # {}
  BY <1>2, OneTask DEF Looped
<1> QED BY <1>1, <1>2

LEMMA IdleIs ==
    ASSUME StateOK
    PROVE  Idle <=> Tasks = {}
<1>1. ASSUME Idle PROVE Tasks = {}
  BY <1>1, Nothing DEF Idle, Tasks
<1>2. ASSUME ~ Idle PROVE Tasks # {}
  BY <1>2, TopGood DEF StateOK, Idle
<1> QED BY <1>1, <1>2

\* A list of tasks in order makes a good stack in the new world.
LEMMA StackIs ==
    ASSUME NEW s \in Seq(TaskSet), stack' = s, Chain(Present', s), \A t \in Elems(s) : TaskRight(t)',
           \A t \in Elems(s) :
             t.do = "gone" /\ t.c \in Present' => \E u \in Elems(s) : u.do = "drop" /\ u.c = t.c
    PROVE  StackOK' /\ Tasks' = Elems(s)
BY DEF StackOK, StackGood, Tasks

\* Walking into a free tile, or appearing on one.
LEMMA PlacedWorld ==
    ASSUME WorldOK, NEW c \in Creature, NEW at \in Position, pos' = [pos EXCEPT ![c] = at],
           c \in Present', Present' = Present \union {c}, players' \subseteq Player,
           monsters' \subseteq Monster, ghost' \subseteq GM \intersect players'
    PROVE  WorldOK' /\ pos'[c] = at /\ \A d \in Creature \ {c} : pos'[d] = pos[d]
<1>1. \A d \in Creature : pos'[d] = IF d = c THEN at ELSE pos[d]
  BY DEF WorldOK
<1>2. pos' \in [Creature -> Position \union {Nowhere}]
  BY DEF WorldOK
<1>3. at # Nowhere
  BY PresenceAssumption
<1>4. \A d \in Creature : pos'[d] = Nowhere <=> d \notin Present'
  BY <1>1, <1>3 DEF WorldOK
<1> QED BY <1>1, <1>2, <1>4 DEF WorldOK

LEMMA TaskIs ==
    ASSUME NEW do, NEW c, NEW from, NEW to, NEW todo
    PROVE  LET t == Task(do, c, from, to, todo)
           IN  t.do = do /\ t.c = c /\ t.from = from /\ t.to = to /\ t.todo = todo
BY DEF Task

LEMMA TaskIn ==
    ASSUME NEW do \in Kinds, NEW c \in Creature, NEW from \in Position \union {Nowhere},
           NEW to \in Position \union {Nowhere}, NEW todo \in SUBSET Player,
           do \notin Loops \union {"greet"} => todo = {}
    PROVE  Task(do, c, from, to, todo) \in TaskSet
BY DEF Task, TaskSet

\* A task about player c where it stands, with nobody on its list.
AboutPlayer(t, c, at) ==
    /\ t \in TaskSet /\ t.c = c /\ t.todo = {}
    /\ t.do \in {"poke", "spotTurn", "spotDress", "spotRenew", "spotHide", "spotShow",
                 "renewSelf", "arrive"}
    /\ t.from = t.to /\ (t.do # "poke" => t.to = at)

LEMMA PokeAbout ==
    ASSUME NEW c \in Player, NEW at
    PROVE  AboutPlayer(Poke(c), c, at) /\ Poke(c).do = "poke"
BY TaskIn DEF AboutPlayer, Poke, Spot, Task, TaskSet, Kinds, Loops, Selves, Creature

LEMMA SpotAbout ==
    ASSUME NEW c \in Player, NEW at \in Position,
           NEW do \in {"spotTurn", "spotDress", "spotRenew", "spotHide", "spotShow",
                       "renewSelf", "arrive"}
    PROVE  AboutPlayer(Spot(do, c, at), c, at) /\ Spot(do, c, at).do = do
BY DEF AboutPlayer, Spot, Task, TaskSet, Kinds, Loops, Selves, Spots, Creature

\* In the world that a handler has made, such a task is right.
LEMMA AboutRight ==
    ASSUME NEW c \in Player, WorldOK', NEW at \in Position, c \in players', pos'[c] = at,
           NEW t, AboutPlayer(t, c, at),
           t.do = "spotHide" => c \in ghost', t.do \in {"spotShow", "arrive"} => c \notin ghost'
    PROVE  TaskRight(t)'
<1>1. c \notin Npc
  BY PresenceAssumption
<1>2. t.do \notin {"gone", "drop", "appear", "greet", "step", "jump", "turn", "dress", "renew",
                  "lookStep", "lookJump", "finishStep", "finishJump"}
  BY DEF AboutPlayer
<1>3. t.c = c /\ t.todo = {} /\ (t.do # "poke" => t.from = at /\ t.to = at)
      /\ (t.do = "poke" => t.do \notin {"spotHide", "spotShow", "arrive"})
  BY DEF AboutPlayer
<1>4. /\ t.c \notin Npc /\ t.c \notin t.todo /\ t.c \in Player
      /\ t.do # "poke" => t.from \in Position /\ t.to \in Position
      /\ t.do # "poke" => t.from = t.to
      /\ t.do # "poke" => pos'[t.c] = t.to
  BY <1>1, <1>3
<1>5. t.do = "poke" => t.from = t.to
  BY DEF AboutPlayer
<1> QED BY <1>2, <1>3, <1>4, <1>5 DEF TaskRight, Journeys, Strides, Looks

LEMMA QuietState ==
    ASSUME StateOK, NEW c \in Player, Notify(c) \/ Turn(c) \/ Speed(c)
    PROVE  /\ StateOK'
           /\ \A t \in Tasks' : t.c = c /\ t.do \in {"poke", "spotTurn", "spotRenew", "renewSelf"}
<1>1. /\ c \in players /\ UNCHANGED <<world, known, picture, blurred>>
      /\ players' = players /\ pos' = pos /\ ghost' = ghost /\ Present' = Present
  BY DEF Notify, Turn, Speed, world, Present
<1>2. WorldOK' /\ ClientsOK' /\ HistoryOK' /\ WorldOK
  BY <1>1, SameClients, SameHistory DEF StateOK
<1>3. PICK at \in Position : at = pos[c]
  BY <1>1 DEF StateOK, WorldOK, Present, Creature
<1>4. /\ AboutPlayer(Poke(c), c, at) /\ Poke(c).do = "poke"
      /\ \A do \in {"spotTurn", "spotRenew", "renewSelf"} :
            AboutPlayer(Spot(do, c, at), c, at) /\ Spot(do, c, at).do = do
  BY PokeAbout, SpotAbout
<1> DEFINE s == stack'
           kinds == {"poke", "spotTurn", "spotRenew", "renewSelf"}
<1>5. /\ s \in Seq(TaskSet) /\ Chain(Present, s)
      /\ \A t \in Elems(s) : AboutPlayer(t, c, at) /\ t.do \in kinds
  <2>1. CASE Notify(c)
    <3>1. s = <<Poke(c)>>
      BY <2>1 DEF Notify
    <3> HIDE DEF s
    <3> QED BY <1>4, <3>1, OneTask DEF AboutPlayer
  <2>2. CASE Turn(c)
    <3>1. s = <<Poke(c), Spot("spotTurn", c, at)>>
      BY <1>3, <2>2 DEF Turn
    <3>2. Above(Present, Poke(c), Spot("spotTurn", c, at))
      BY <1>4 DEF Above, Before, AboutPlayer, Spots
    <3> HIDE DEF s
    <3> QED BY <1>4, <3>1, <3>2, TwoTasks DEF AboutPlayer
  <2>3. CASE Speed(c)
    <3>1. s = <<Poke(c), Spot("spotRenew", c, at), Spot("renewSelf", c, at)>>
      BY <1>3, <2>3 DEF Speed
    <3>2. /\ Above(Present, Poke(c), Spot("spotRenew", c, at))
          /\ Above(Present, Poke(c), Spot("renewSelf", c, at))
          /\ Above(Present, Spot("spotRenew", c, at), Spot("renewSelf", c, at))
      BY <1>4 DEF Above, Before, AboutPlayer, Spots, Selves
    <3> HIDE DEF s
    <3> QED BY <1>4, <3>1, <3>2, ThreeTasks DEF AboutPlayer
  <2> QED BY <2>1, <2>2, <2>3
<1>6. PICK r : r = stack'
  OBVIOUS
<1>7. \A t \in Elems(r) : TaskRight(t)'
  BY <1>1, <1>2, <1>3, <1>5, <1>6, AboutRight
<1>8. StackOK' /\ Tasks' = Elems(r)
  BY <1>1, <1>5, <1>6, <1>7, StackIs DEF AboutPlayer
<1> QED BY <1>2, <1>5, <1>6, <1>8 DEF StateOK, AboutPlayer

\* Turning ghost mode on or off: the same world but for who is a ghost.
LEMMA GhostState ==
    ASSUME StateOK, NEW c \in Player, GhostOn(c) \/ GhostOff(c)
    PROVE  /\ StateOK' /\ c \in players /\ c \in GM
           /\ \A t \in Tasks' : /\ t.c = c
                                /\ \/ t.do \in {"poke", "spotDress"}
                                   \/ t.do = "spotHide" /\ GhostOn(c)
                                   \/ t.do = "spotShow" /\ GhostOff(c)
           /\ GhostOff(c) => \E t \in Tasks' : t.c = c /\ t.do = "spotShow"
<1>1. /\ c \in players /\ c \in GM /\ UNCHANGED <<players, monsters, pos, known, picture>>
      /\ ghost' = IF GhostOn(c) THEN ghost \union {c} ELSE ghost \ {c}
      /\ GhostOn(c) => c \notin ghost /\ ~ GhostOff(c)
      /\ Present' = Present
  BY DEF GhostOn, GhostOff, Present, StateOK, WorldOK
<1>2. WorldOK' /\ ClientsOK'
  BY <1>1 DEF StateOK, WorldOK, ClientsOK, NoPicture
<1>3. HistoryOK'
  BY <1>1 DEF StateOK, HistoryOK, GhostOn, GhostOff, Creature
<1>4. PICK at \in Position : at = pos[c]
  BY <1>1 DEF StateOK, WorldOK, Present, Creature
<1>5. PICK last \in {"spotHide", "spotShow"} :
        /\ last = "spotHide" <=> GhostOn(c)
        /\ stack' = <<Poke(c), Spot("spotDress", c, at), Spot(last, c, at)>>
  <2>1. CASE GhostOn(c)
    BY <1>4, <2>1 DEF GhostOn
  <2>2. CASE GhostOff(c)
    BY <1>1, <1>4, <2>2 DEF GhostOff
  <2> QED BY <2>1, <2>2
<1>6. /\ AboutPlayer(Poke(c), c, at) /\ Poke(c).do = "poke"
      /\ \A do \in {"spotDress", "spotHide", "spotShow"} :
            AboutPlayer(Spot(do, c, at), c, at) /\ Spot(do, c, at).do = do
  BY PokeAbout, SpotAbout
<1> DEFINE t1 == Poke(c)
           t2 == Spot("spotDress", c, at)
           t3 == Spot(last, c, at)
<1>7. /\ AboutPlayer(t1, c, at) /\ t1.do = "poke" /\ AboutPlayer(t2, c, at) /\ t2.do = "spotDress"
      /\ AboutPlayer(t3, c, at) /\ t3.do = last
  BY <1>6
<1> HIDE DEF t1, t2, t3
<1>8. Above(Present, t1, t2) /\ Above(Present, t1, t3) /\ Above(Present, t2, t3)
  BY <1>7 DEF Above, Before, AboutPlayer, Spots
<1>9. PICK r : r = <<t1, t2, t3>>
  OBVIOUS
<1>10. r \in Seq(TaskSet) /\ Elems(r) = {t1, t2, t3} /\ Chain(Present, r) /\ stack' = r
  BY <1>5, <1>7, <1>8, <1>9, ThreeTasks DEF AboutPlayer, t1, t2, t3
<1>11. \A t \in Elems(r) : TaskRight(t)'
  <2>1. ASSUME NEW t \in Elems(r) PROVE TaskRight(t)'
    <3>1. AboutPlayer(t, c, at) /\ (t.do = "spotHide" => GhostOn(c))
          /\ (t.do = "spotShow" => ~ GhostOn(c)) /\ t.do # "arrive"
      BY <1>5, <1>7, <1>10
    <3>2. c \in players' /\ pos'[c] = at /\ (t.do = "spotHide" => c \in ghost')
          /\ (t.do \in {"spotShow", "arrive"} => c \notin ghost')
      BY <1>1, <1>4, <3>1
    <3> QED BY <1>2, <3>1, <3>2, AboutRight
  <2> QED BY <2>1
<1>12. StackOK' /\ Tasks' = Elems(r)
  BY <1>1, <1>7, <1>10, <1>11, StackIs
<1> QED BY <1>1, <1>2, <1>3, <1>5, <1>7, <1>10, <1>12 DEF StateOK, AboutPlayer

Others(at) == {p \in players : CanSee(pos[p], at)}

LEMMA LoginState ==
    ASSUME StateOK, NEW c \in Player, NEW at \in Position, Login(c, at)
    PROVE  /\ StateOK' /\ c \notin players /\ c \notin ghost /\ Present' = Present \union {c}
           /\ pos'[c] = at /\ \A d \in Creature \ {c} : pos'[d] = pos[d]
           /\ LET t == Task("greet", c, at, at, Others(at))
              IN  Tasks' = {Spot("arrive", c, at)} \union {u \in {t} : u.todo # {}}
<1>1. /\ c \notin players /\ c \notin ghost /\ Present' = Present \union {c} /\ c \in Creature
      /\ players' = players \union {c} /\ monsters' = monsters /\ ghost' = ghost
      /\ pos' = [pos EXCEPT ![c] = at] /\ known' = known /\ picture' = picture
  BY DEF Login, StateOK, WorldOK, Present, Creature
<1>2. WorldOK' /\ pos'[c] = at /\ \A d \in Creature \ {c} : pos'[d] = pos[d]
  BY <1>1, PlacedWorld DEF StateOK, WorldOK
<1>3. ClientsOK'
  BY <1>1 DEF StateOK, ClientsOK, NoPicture
<1>4. HistoryOK'
  <2>1. \A b \in blurred' : b \in blurred \/ \E p \in players : b = <<c, p>>
    BY DEF Login
  <2>2. \A p \in players : p # c /\ p \in Creature
    BY <1>1 DEF StateOK, WorldOK, Creature
  <2> QED BY <1>1, <2>1, <2>2 DEF StateOK, HistoryOK
<1>5. Others(at) \in SUBSET Player /\ c \notin Others(at)
  BY <1>1 DEF Others, StateOK, WorldOK
<1>6. PICK t : t = Task("greet", c, at, at, Others(at))
  OBVIOUS
<1>7. t \in TaskSet /\ t.do = "greet" /\ t.c = c /\ t.from = at /\ t.to = at /\ t.todo = Others(at)
  <2>1. t \in TaskSet
    BY <1>1, <1>5, <1>6 DEF Task, TaskSet, Kinds
  <2> QED BY <1>6, <2>1, TaskIs
<1>8. PICK u : u = Spot("arrive", c, at)
  OBVIOUS
<1>9. AboutPlayer(u, c, at) /\ u.do = "arrive"
  BY <1>8, SpotAbout
<1>10. TaskRight(u)'
  BY <1>1, <1>2, <1>9, AboutRight
<1>11. TaskRight(t)'
  <2>1. c \notin Npc
    BY PresenceAssumption
  <2>2. \A p \in t.todo : CanSee(pos'[p], at)
    BY <1>1, <1>2, <1>7 DEF Others, StateOK, WorldOK, Creature
  <2> QED BY <1>1, <1>2, <1>5, <1>7, <2>1, <2>2 DEF TaskRight, Journeys, Strides, Looks
<1>12. stack' = Looped(t) \o <<u>>
  BY <1>6, <1>8 DEF Login, Others, Loop, Looped, Task
<1>13. Above(Present', t, u)
  BY <1>7, <1>9 DEF Above, Before, AboutPlayer
<1>14. PICK s : s = Looped(t) \o <<u>>
  OBVIOUS
<1>15. s \in Seq(TaskSet) /\ Elems(s) = {u} \union {x \in {t} : x.todo # {}} /\ Chain(Present', s)
  BY <1>7, <1>9, <1>13, <1>14, LoopAndTask DEF AboutPlayer
<1>16. StackOK' /\ Tasks' = Elems(s)
  BY <1>7, <1>9, <1>10, <1>11, <1>12, <1>14, <1>15, StackIs
<1> QED BY <1>1, <1>2, <1>3, <1>4, <1>6, <1>8, <1>15, <1>16 DEF StateOK

\* A step or a jump of a player: it is on its new tile at once.
LEMMA MoveState ==
    ASSUME StateOK, NEW c \in Player, NEW to \in Position, Walk(c, to) \/ Teleport(c, to)
    PROVE  /\ StateOK' /\ c \in players /\ Present' = Present /\ pos[c] \in Position
           /\ pos'[c] = to /\ \A d \in Creature \ {c} : pos'[d] = pos[d]
           /\ \E do \in Looks : LET t == Task(do, c, pos[c], to, {})
                                IN  t \in Tasks' /\ Tasks' \subseteq {Poke(c), t}
<1>1. /\ c \in players /\ Present' = Present /\ c \in Creature /\ c \in Present
      /\ players' = players /\ monsters' = monsters /\ ghost' = ghost
      /\ pos' = [pos EXCEPT ![c] = to] /\ known' = known /\ picture' = picture /\ blurred' = blurred
  BY DEF Walk, Teleport, Present, Creature
<1>2. WorldOK' /\ pos'[c] = to /\ \A d \in Creature \ {c} : pos'[d] = pos[d]
  BY <1>1, PlacedWorld DEF StateOK, WorldOK
<1>3. ClientsOK' /\ HistoryOK'
  BY <1>1, SameHistory DEF StateOK, ClientsOK, NoPicture
<1>4. PICK do \in Looks, poke \in MaybePoke(c) : stack' = poke \o <<Task(do, c, pos[c], to, {})>>
  BY DEF Walk, Teleport, Looks
<1>5. pos[c] \in Position
  BY <1>1 DEF StateOK, WorldOK
<1>6. PICK t : t = Task(do, c, pos[c], to, {})
  OBVIOUS
<1>7. t \in TaskSet /\ t.do = do /\ t.c = c /\ t.from = pos[c] /\ t.to = to /\ t.todo = {}
  <2>1. t \in TaskSet
    BY <1>1, <1>5, <1>6 DEF Task, TaskSet, Kinds, Looks, Loops, Spots
  <2> QED BY <1>6, <2>1, TaskIs
<1>8. PICK k : k = Poke(c)
  OBVIOUS
<1>9. AboutPlayer(k, c, to) /\ k.do = "poke"
  BY <1>8, PokeAbout
<1>10. TaskRight(k)'
  BY <1>1, <1>2, <1>9, AboutRight
<1>11. TaskRight(t)'
  <2>1. c \notin Npc
    BY PresenceAssumption
  <2>2. t.do \in Journeys /\ t.do \in {"lookStep", "lookJump"}
    BY <1>7 DEF Looks, Journeys
  <2> QED BY <1>2, <1>5, <1>7, <2>1, <2>2 DEF TaskRight
<1>12. PICK s : s = stack'
  OBVIOUS
<1>13. s \in Seq(TaskSet) /\ t \in Elems(s) /\ Elems(s) \subseteq {k, t} /\ Chain(Present', s)
  <2>1. <<t>> \in Seq(TaskSet) /\ Elems(<<t>>) = {t} /\ Chain(Present', <<t>>)
    BY <1>7, OneTask
  <2>2. CASE poke = << >>
    <3>1. s = <<t>>
      BY <1>4, <1>6, <1>12, <2>1, <2>2, ConcatEmptySeq
    <3> QED BY <2>1, <3>1
  <2>3. CASE poke = <<k>>
    <3>1. s = <<k>> \o <<t>>
      BY <1>4, <1>6, <1>12, <2>3
    <3>2. Above(Present', k, t)
      BY <1>7, <1>9 DEF Above, Before, AboutPlayer, Spots, Looks
    <3> QED BY <1>9, <2>1, <3>1, <3>2, Pushes DEF AboutPlayer
  <2> QED BY <1>8, <2>2, <2>3 DEF MaybePoke
<1>14. StackOK' /\ Tasks' = Elems(s)
  <2>1. \A x \in Elems(s) : TaskRight(x)' /\ x.do # "gone"
    BY <1>7, <1>9, <1>10, <1>11, <1>13 DEF Looks
  <2> QED BY <1>12, <1>13, <2>1, StackIs
<1> QED BY <1>1, <1>2, <1>3, <1>5, <1>6, <1>8, <1>13, <1>14 DEF StateOK

\* The players that may see creature c on tile a or tile b.
Watching(c, a, b) ==
    {p \in players \ {c} : (CanSee(pos[p], a) \/ CanSee(pos[p], b)) /\ MaySee(p, c)}

LEMMA WatchingIs ==
    ASSUME StateOK, NEW c, NEW a, NEW b
    PROVE  /\ Spectators(a, c) \union Spectators(b, c) = Watching(c, a, b)
           /\ Spectators(a, c) = Watching(c, a, a)
BY DEF StateOK, WorldOK, Spectators, Watching, MaySee

LEMMA MonsterWalkState ==
    ASSUME StateOK, NEW m \in Monster, NEW to \in Position, MonsterWalk(m, to)
    PROVE  /\ StateOK' /\ m \in monsters /\ m \notin ghost /\ Present' = Present /\ pos[m] \in Position
           /\ pos'[m] = to /\ \A d \in Creature \ {m} : pos'[d] = pos[d]
           /\ LET t == Task("step", m, pos[m], to, Watching(m, pos[m], to))
              IN  Tasks' = {u \in {t} : u.todo # {}}
<1>1. /\ m \in monsters /\ Present' = Present /\ m \in Creature /\ m \in Present /\ m \notin Npc
      /\ m \notin Player /\ m \notin ghost
      /\ players' = players /\ monsters' = monsters /\ ghost' = ghost
      /\ pos' = [pos EXCEPT ![m] = to] /\ known' = known /\ picture' = picture /\ blurred' = blurred
  BY PresenceAssumption DEF MonsterWalk, Present, Creature, StateOK, WorldOK
<1>2. WorldOK' /\ pos'[m] = to /\ \A d \in Creature \ {m} : pos'[d] = pos[d]
  BY <1>1, PlacedWorld DEF StateOK, WorldOK
<1>3. ClientsOK' /\ HistoryOK'
  BY <1>1, SameHistory DEF StateOK, ClientsOK, NoPicture
<1>4. pos[m] \in Position
  BY <1>1 DEF StateOK, WorldOK
<1>5. PICK t : t = Task("step", m, pos[m], to, Watching(m, pos[m], to))
  OBVIOUS
<1>6. /\ t \in TaskSet /\ t.do = "step" /\ t.c = m /\ t.from = pos[m] /\ t.to = to
      /\ t.todo = Watching(m, pos[m], to) /\ m \notin t.todo
  <2>1. Watching(m, pos[m], to) \in SUBSET Player /\ m \notin Watching(m, pos[m], to)
    BY DEF Watching, StateOK, WorldOK
  <2>2. t \in TaskSet
    BY <1>1, <1>4, <1>5, <2>1 DEF Task, TaskSet, Kinds, Loops
  <2> QED BY <1>5, <2>1, <2>2, TaskIs
<1>7. TaskRight(t)'
  <2>1. \A p \in t.todo : CanSee(pos'[p], to) \/ CanSee(pos'[p], pos[m])
    BY <1>1, <1>2, <1>6 DEF Watching, StateOK, WorldOK, Creature
  <2> QED BY <1>1, <1>2, <1>4, <1>6, <2>1 DEF TaskRight, Journeys, Strides, Looks, MaySee
<1>8. stack' = Looped(t)
  BY <1>5, WatchingIs DEF MonsterWalk, Loop, Looped, Task
<1>9. PICK s : s = Looped(t)
  OBVIOUS
<1>10. s \in Seq(TaskSet) /\ Elems(s) = {x \in {t} : x.todo # {}} /\ Chain(Present', s)
  BY <1>6, <1>9, LoopAlone
<1>11. StackOK' /\ Tasks' = Elems(s)
  BY <1>6, <1>7, <1>8, <1>9, <1>10, StackIs
<1> QED BY <1>1, <1>2, <1>3, <1>4, <1>5, <1>10, <1>11 DEF StateOK

LEMMA SpawnState ==
    ASSUME StateOK, NEW m \in Monster, NEW at \in Position, Spawn(m, at)
    PROVE  /\ StateOK' /\ m \notin Player /\ m \notin ghost /\ Present' = Present \union {m}
           /\ m \notin Present /\ pos'[m] = at /\ \A d \in Creature \ {m} : pos'[d] = pos[d]
           /\ LET t == Task("appear", m, at, at, Watching(m, at, at))
              IN  Tasks' = {u \in {t} : u.todo # {}}
<1>1. /\ m \notin Present /\ Present' = Present \union {m} /\ m \in Creature /\ m \notin Npc
      /\ m \notin Player /\ m \notin ghost
      /\ players' = players /\ monsters' = monsters \union {m} /\ ghost' = ghost
      /\ pos' = [pos EXCEPT ![m] = at] /\ known' = known /\ picture' = picture
      /\ blurred' \subseteq blurred
  BY PresenceAssumption DEF Spawn, Present, Creature, StateOK, WorldOK
<1>2. WorldOK' /\ pos'[m] = at /\ \A d \in Creature \ {m} : pos'[d] = pos[d]
  BY <1>1, PlacedWorld DEF StateOK, WorldOK
<1>3. ClientsOK' /\ HistoryOK'
  BY <1>1 DEF StateOK, ClientsOK, NoPicture, HistoryOK
<1>5. PICK t : t = Task("appear", m, at, at, Watching(m, at, at))
  OBVIOUS
<1>6. /\ t \in TaskSet /\ t.do = "appear" /\ t.c = m /\ t.from = at /\ t.to = at
      /\ t.todo = Watching(m, at, at) /\ m \notin t.todo
  <2>1. Watching(m, at, at) \in SUBSET Player /\ m \notin Watching(m, at, at)
    BY DEF Watching, StateOK, WorldOK
  <2>2. t \in TaskSet
    BY <1>1, <1>5, <2>1 DEF Task, TaskSet, Kinds, Loops
  <2> QED BY <1>5, <2>1, <2>2, TaskIs
<1>7. TaskRight(t)'
  <2>1. \A p \in t.todo : CanSee(pos'[p], at)
    BY <1>1, <1>2, <1>6 DEF Watching, StateOK, WorldOK, Creature
  <2> QED BY <1>1, <1>2, <1>6, <2>1 DEF TaskRight, Journeys, Strides, Looks
<1>8. stack' = Looped(t)
  BY <1>5, WatchingIs DEF Spawn, Loop, Looped, Task
<1>9. PICK s : s = Looped(t)
  OBVIOUS
<1>10. s \in Seq(TaskSet) /\ Elems(s) = {x \in {t} : x.todo # {}} /\ Chain(Present', s)
  BY <1>6, <1>9, LoopAlone
<1>11. StackOK' /\ Tasks' = Elems(s)
  BY <1>6, <1>7, <1>8, <1>9, <1>10, StackIs
<1> QED BY <1>1, <1>2, <1>3, <1>5, <1>10, <1>11 DEF StateOK

LEMMA DieState ==
    ASSUME StateOK, NEW c \in Player \union Monster, Die(c)
    PROVE  /\ StateOK' /\ c \in Present /\ UNCHANGED <<world, known, picture, blurred>>
           /\ LET t == Task("gone", c, pos[c], pos[c], Watching(c, pos[c], pos[c]))
              IN  Tasks' = {Spot("drop", c, pos[c])} \union {u \in {t} : u.todo # {}}
<1>1. /\ c \in Present /\ c \in Creature /\ c \notin Npc /\ Present' = Present /\ players' = players
      /\ UNCHANGED <<world, known, picture, blurred>> /\ pos' = pos
  BY PresenceAssumption DEF Die, Present, Creature, world
<1>2. WorldOK' /\ ClientsOK' /\ HistoryOK'
  BY <1>1, SameClients, SameHistory
<1>3. pos[c] \in Position
  BY <1>1 DEF StateOK, WorldOK
<1>4. PICK t : t = Task("gone", c, pos[c], pos[c], Watching(c, pos[c], pos[c]))
  OBVIOUS
<1>5. t \in TaskSet /\ t.do = "gone" /\ t.c = c /\ t.from = pos[c] /\ t.to = pos[c] /\ c \notin t.todo
  <2>1. Watching(c, pos[c], pos[c]) \in SUBSET Player /\ c \notin Watching(c, pos[c], pos[c])
    BY DEF Watching, StateOK, WorldOK
  <2>2. t \in TaskSet
    BY <1>1, <1>3, <1>4, <2>1 DEF Task, TaskSet, Kinds, Loops
  <2> QED BY <1>4, <2>1, <2>2, TaskIs
<1>6. PICK u : u = Spot("drop", c, pos[c])
  OBVIOUS
<1>7. u \in TaskSet /\ u.do = "drop" /\ u.c = c /\ u.from = pos[c] /\ u.to = pos[c] /\ u.todo = {}
  BY <1>1, <1>3, <1>6 DEF Spot, Task, TaskSet, Kinds, Loops
<1>8. TaskRight(t)' /\ TaskRight(u)'
  BY <1>1, <1>3, <1>5, <1>7 DEF TaskRight, Journeys, Strides, Looks
<1>9. stack' = Looped(t) \o <<u>>
  BY <1>4, <1>6, WatchingIs DEF Die, Loop, Looped, Task
<1>10. Above(Present', t, u)
  BY <1>5, <1>7 DEF Above
<1>11. PICK s : s = Looped(t) \o <<u>>
  OBVIOUS
<1>12. s \in Seq(TaskSet) /\ Elems(s) = {u} \union {x \in {t} : x.todo # {}} /\ Chain(Present', s)
  BY <1>5, <1>7, <1>10, <1>11, LoopAndTask
<1>13. StackOK' /\ Tasks' = Elems(s)
  BY <1>5, <1>7, <1>8, <1>9, <1>11, <1>12, StackIs
<1> QED BY <1>1, <1>2, <1>4, <1>6, <1>12, <1>13 DEF StateOK

LEMMA LogoutState ==
    ASSUME StateOK, NEW c \in Player, Logout(c)
    PROVE  /\ StateOK' /\ Vanishes(c) /\ Present' = Present \ {c} /\ c \in players
           /\ Tasks' = {u \in {Farewell(c)} : u.todo # {}}
<1>1. c \in players /\ Leave(c, << >>)
  BY DEF Logout
<1>2. StackGood(<< >>) /\ Elems(<< >>) = {}
  BY EmptyGood, Nothing
<1> QED BY <1>1, <1>2, LeaveState

(***************************************************************************)
(* What is left to do that concerns client p and creature d.               *)
(***************************************************************************)
Relevant(t, p, d) ==
    \/ t.do \in Journeys \union {"arrive"} /\ t.c = p
    \/ t.do \in Looks \union {"spotShow", "drop"} /\ t.c = d
    \/ t.do \in Strides \union {"greet", "appear", "gone"} /\ t.c = d /\ p \in t.todo
    \/ t.do = "greet" /\ t.c = p /\ d \in t.todo

Like(t, u, p, d) ==
    /\ t.do = u.do /\ t.c = u.c /\ t.from = u.from /\ t.to = u.to
    /\ p \in t.todo <=> p \in u.todo
    /\ d \in t.todo <=> d \in u.todo

Matched(T, U, p, d) == \A t \in T : Relevant(t, p, d) => \E u \in U : Like(t, u, p, d)

LEMMA SameParts ==
    ASSUME NEW T, NEW U, NEW p, NEW d, NEW x, Matched(T, U, p, d), Matched(U, T, p, d)
    PROVE  /\ Viewpoints(T, p, x) = Viewpoints(U, p, x)
           /\ Whereabouts(T, p, d, x) = Whereabouts(U, p, d, x)
           /\ Unshown(T, p, d) <=> Unshown(U, p, d)
           /\ Awaited(T, p, d) <=> Awaited(U, p, d)
           /\ Arriving(T, p) <=> Arriving(U, p)
<1>1. ASSUME NEW A, NEW B, Matched(A, B, p, d), Matched(B, A, p, d)
      PROVE  /\ Viewpoints(A, p, x) \subseteq Viewpoints(B, p, x)
             /\ Whereabouts(A, p, d, x) \subseteq Whereabouts(B, p, d, x)
             /\ Unshown(A, p, d) => Unshown(B, p, d)
             /\ Awaited(A, p, d) => Awaited(B, p, d)
             /\ Arriving(A, p) => Arriving(B, p)
  <2>1. \A t \in A : t.do \in Journeys /\ t.c = p =>
            \E u \in B : u.do \in Journeys /\ u.c = p /\ u.from = t.from
    BY <1>1 DEF Matched, Relevant, Like
  <2>2. \A t \in B : t.do \in Journeys /\ t.c = p => \E u \in A : u.do \in Journeys /\ u.c = p
    BY <1>1 DEF Matched, Relevant, Like
  <2>3. Viewpoints(A, p, x) \subseteq Viewpoints(B, p, x)
    BY <2>1, <2>2 DEF Viewpoints
  <2>4. \A t \in A : Due(t, p, d) => \E u \in B : Due(u, p, d) /\ u.from = t.from
    BY <1>1 DEF Matched, Relevant, Like, Due
  <2>5. \A t \in B : Due(t, p, d) => \E u \in A : Due(u, p, d)
    BY <1>1 DEF Matched, Relevant, Like, Due
  <2>6. Whereabouts(A, p, d, x) \subseteq Whereabouts(B, p, d, x)
    BY <2>4, <2>5 DEF Whereabouts
  <2>7. Awaited(A, p, d) => Awaited(B, p, d)
    BY <1>1 DEF Matched, Relevant, Like, Awaited
  <2>8. \A t \in A : t.do = "arrive" /\ t.c = p => \E u \in B : u.do = "arrive" /\ u.c = p
    BY <1>1 DEF Matched, Relevant, Like
  <2>9. ASSUME Unshown(A, p, d) PROVE Unshown(B, p, d)
    <3>1. PICK t \in A :
            \/ t.c = d /\ t.do \in {"greet", "appear"} /\ p \in t.todo
            \/ t.c = d /\ t.do = "spotShow" /\ p \notin GM
            \/ /\ t.c = d /\ t.do = "drop"
               /\ \A g \in A : g.do = "gone" /\ g.c = d => p \notin g.todo
            \/ /\ t.c = p /\ t.do = "arrive"
               /\ d \in Player => \E g \in A : g.do = "greet" /\ g.c = p /\ d \in g.todo
      BY <2>9 DEF Unshown
    <3>2. Relevant(t, p, d)
      BY <3>1 DEF Relevant
    <3>3. PICK u \in B : Like(t, u, p, d)
      BY <1>1, <3>2 DEF Matched
    <3>4. CASE t.c = d /\ t.do \in {"greet", "appear"} /\ p \in t.todo
      BY <3>3, <3>4 DEF Unshown, Like
    <3>5. CASE t.c = d /\ t.do = "spotShow" /\ p \notin GM
      BY <3>3, <3>5 DEF Unshown, Like
    <3>6. CASE /\ t.c = d /\ t.do = "drop"
               /\ \A g \in A : g.do = "gone" /\ g.c = d => p \notin g.todo
      <4>1. \A g \in B : g.do = "gone" /\ g.c = d => p \notin g.todo
        BY <1>1, <3>6 DEF Matched, Relevant, Like
      <4> QED BY <3>3, <3>6, <4>1 DEF Unshown, Like
    <3>7. CASE /\ t.c = p /\ t.do = "arrive"
               /\ d \in Player => \E g \in A : g.do = "greet" /\ g.c = p /\ d \in g.todo
      <4>1. d \in Player => \E g \in B : g.do = "greet" /\ g.c = p /\ d \in g.todo
        BY <2>7, <3>7 DEF Awaited
      <4> QED BY <3>3, <3>7, <4>1 DEF Unshown, Like
    <3> QED BY <3>1, <3>4, <3>5, <3>6, <3>7
  <2> QED BY <2>3, <2>6, <2>7, <2>8, <2>9 DEF Arriving
<1>2. /\ Viewpoints(T, p, x) \subseteq Viewpoints(U, p, x)
      /\ Viewpoints(U, p, x) \subseteq Viewpoints(T, p, x)
      /\ Whereabouts(T, p, d, x) \subseteq Whereabouts(U, p, d, x)
      /\ Whereabouts(U, p, d, x) \subseteq Whereabouts(T, p, d, x)
  BY <1>1
<1>3. /\ Unshown(T, p, d) <=> Unshown(U, p, d)
      /\ Awaited(T, p, d) <=> Awaited(U, p, d)
      /\ Arriving(T, p) <=> Arriving(U, p)
  BY <1>1
<1> QED BY <1>2, <1>3

\* A step that leaves a client, a creature and what concerns them alone.
LEMMA SameAgreed ==
    ASSUME NEW p, NEW d, Agreed(p, d), pos'[p] = pos[p], pos'[d] = pos[d],
           d \in Present' <=> d \in Present, d \in known'[p] <=> d \in known[p],
           picture'[p][d] = picture[p][d], p # d => (MaySee(p, d)' <=> MaySee(p, d)),
           Matched(Tasks, Tasks', p, d), Matched(Tasks', Tasks, p, d)
    PROVE  Agreed(p, d)'
<1> PICK T, U : T = Tasks /\ U = Tasks'
  OBVIOUS
<1> PICK eye, here, shown : eye = pos[p] /\ here = pos[d] /\ shown = picture[p][d]
  OBVIOUS
<1>0. Matched(T, U, p, d) /\ Matched(U, T, p, d)
  OBVIOUS
<1>1. /\ Viewpoints(T, p, eye) = Viewpoints(U, p, eye)
      /\ Whereabouts(T, p, d, here) = Whereabouts(U, p, d, here)
      /\ Unshown(T, p, d) <=> Unshown(U, p, d)
      /\ Awaited(T, p, d) <=> Awaited(U, p, d)
      /\ Arriving(T, p) <=> Arriving(U, p)
  <2>1. /\ Viewpoints(T, p, eye) = Viewpoints(U, p, eye)
        /\ Unshown(T, p, d) <=> Unshown(U, p, d)
        /\ Awaited(T, p, d) <=> Awaited(U, p, d)
        /\ Arriving(T, p) <=> Arriving(U, p)
    BY <1>0, SameParts
  <2>2. Whereabouts(T, p, d, here) = Whereabouts(U, p, d, here)
    BY <1>0, SameParts
  <2> QED BY <2>1, <2>2
<1>2. FadedOut(T, p, d, eye, shown) => FadedOut(U, p, d, eye, shown)
  <2>1. ASSUME NEW t \in T, Fades(t, p, d, eye, shown) PROVE \E u \in U : Fades(u, p, d, eye, shown)
    <3>1. Relevant(t, p, d)
      BY <2>1 DEF Fades, Relevant
    <3>2. PICK u \in U : Like(t, u, p, d)
      BY <1>0, <3>1 DEF Matched
    <3> QED BY <2>1, <3>2 DEF Fades, Like
  <2> QED BY <2>1 DEF FadedOut
<1>3. CASE d = p
  BY <1>1, <1>3 DEF Agreed, SelfRight
<1>4. CASE d # p /\ d \in Present
  BY <1>1, <1>4 DEF Agreed, PairRight
<1>5. CASE d # p /\ d \notin Present
  BY <1>2, <1>5 DEF Agreed
<1> QED BY <1>3, <1>4, <1>5

\* Tasks come and go that do not concern the two.
LEMMA OtherTasks ==
    ASSUME NEW A, NEW B, NEW C, NEW p, NEW d,
           \A t \in A \union C : ~ Relevant(t, p, d)
    PROVE  Matched(A \union B, B \union C, p, d) /\ Matched(B \union C, A \union B, p, d)
BY DEF Matched, Like

LEMMA Popped ==
    ASSUME NEW t, NEW B, NEW p, NEW d, ~ Relevant(t, p, d)
    PROVE  Matched({t} \union B, B, p, d) /\ Matched(B, {t} \union B, p, d)
BY DEF Matched, Like

\* The loop on top goes on without q.
LEMMA Shrunk ==
    ASSUME StateOK, Doing(Loops \union {"greet"}), NEW q, NEW p, NEW d, p # q,
           d # q \/ Top.do # "greet",
           NEW U, U = Below \union {u \in {Rest(q)} : u.todo # {}}
    PROVE  Matched(Tasks, U, p, d) /\ Matched(U, Tasks, p, d)
<1>1. Tasks = {Top} \union Below /\ Top.do \in Loops \union {"greet"}
  BY TopGood DEF StateOK, Doing, Below
<1>2. /\ Rest(q).do = Top.do /\ Rest(q).c = Top.c /\ Rest(q).from = Top.from
      /\ Rest(q).to = Top.to /\ Rest(q).todo = Top.todo \ {q}
  BY RestIs
<1>3. Top.c \notin Top.todo
  BY TopGood DEF StateOK, Doing, TaskRight
<1>4. ASSUME Relevant(Top, p, d) PROVE Like(Top, Rest(q), p, d) /\ Rest(q) \in U
  <2>1. \/ p \in Top.todo /\ Top.c = d
        \/ d \in Top.todo /\ Top.do = "greet"
    BY <1>1, <1>4 DEF Relevant, Loops, Journeys, Looks, Strides
  <2>2. d \in Top.todo <=> d \in Top.todo \ {q}
    BY <1>3, <2>1
  <2>3. Rest(q).todo # {}
    BY <1>2, <2>1, <2>2
  <2> QED BY <1>2, <2>2, <2>3 DEF Like
<1>5. ASSUME Relevant(Rest(q), p, d) PROVE Like(Rest(q), Top, p, d)
  <2>1. \/ p \in Top.todo /\ Top.c = d
        \/ d \in Top.todo /\ Top.do = "greet"
    BY <1>1, <1>2, <1>5 DEF Relevant, Loops, Journeys, Looks, Strides
  <2>2. d \in Top.todo <=> d \in Top.todo \ {q}
    BY <1>3, <2>1
  <2> QED BY <1>2, <2>2 DEF Like
<1>6. Matched(Tasks, U, p, d)
  BY <1>1, <1>4 DEF Matched, Like
<1>7. Matched(U, Tasks, p, d)
  BY <1>1, <1>5 DEF Matched, Like
<1> QED BY <1>6, <1>7

\* Below the farewells all is about one creature.
LEMMA OneSubject ==
    ASSUME StackOK, NEW t \in Tasks, NEW u \in Tasks, t.do # "gone", u.do # "gone"
    PROVE  t.c = u.c
<1>1. PICK i \in DOMAIN stack, j \in DOMAIN stack : t = stack[i] /\ u = stack[j]
  BY DEF Tasks, Elems
<1>2. i \in Int /\ j \in Int
  BY DEF StackOK, StackGood
<1>3. i < j \/ i = j \/ j < i
  BY <1>2
<1> QED BY <1>1, <1>3 DEF StackOK, StackGood, Chain, Above

(***************************************************************************)
(* The rest of a handler keeps clients and creatures in agreement.         *)
(***************************************************************************)
LEMMA SameWorld ==
    ASSUME world' = world
    PROVE  /\ players' = players /\ pos' = pos /\ Present' = Present /\ ghost' = ghost
           /\ \A p, d : MaySee(p, d)' <=> MaySee(p, d)
BY DEF world, Present, MaySee

LEMMA PopPairs ==
    ASSUME StateOK, PairsRight, SkipSelf \/ Poked
    PROVE  PairsRight'
<1>1. /\ Tasks' = Below /\ world' = world /\ known' = known /\ picture' = picture /\ blurred' = blurred
      /\ Tasks = {Top} \union Below
  BY PopState, TopGood DEF SkipSelf, Poked, StateOK, Doing, Below
<1>2. Top.do \in Selves /\ (Top.do = "poke" \/ Top.c \notin players)
  BY DEF SkipSelf, Poked, Doing, Selves
<1>3. ASSUME NEW p \in players, NEW d \in Creature, <<p, d>> \notin blurred PROVE Agreed(p, d)'
  <2>1. ~ Relevant(Top, p, d)
    BY <1>2 DEF Relevant, Selves, Journeys, Looks, Strides
  <2>4. Matched(Tasks, Tasks', p, d) /\ Matched(Tasks', Tasks, p, d)
    BY <1>1, <2>1, Popped
  <2> QED BY <1>1, <1>3, <2>4, SameAgreed, SameWorld DEF PairsRight
<1> QED BY <1>1, <1>3, SameWorld DEF PairsRight

LEMMA SkipPairs ==
    ASSUME StateOK, PairsRight, Skip
    PROVE  PairsRight'
<1>1. PICK q \in Top.todo \ players : stack' = Without(q)
  BY DEF Skip
<1>2. /\ Doing(Loops \union {"greet"}) /\ UNCHANGED <<world, known, picture, blurred, strays>>
      /\ q \in Player /\ q \notin Present
  <2>1. Top \in TaskSet
    BY TopGood DEF Skip, StateOK, Doing
  <2>2. q \in Player
    BY <1>1, <2>1 DEF TaskSet
  <2> QED BY <1>1, <2>2, PresenceAssumption DEF Skip, Present, StateOK, WorldOK
<1>3. Tasks' = Below \union {u \in {Rest(q)} : u.todo # {}} /\ Tasks = {Top} \union Below
  BY <1>1, <1>2, SkipState, TopGood DEF StateOK, Doing, Below
<1>4. ASSUME NEW p \in players, NEW d \in Creature, <<p, d>> \notin blurred PROVE Agreed(p, d)'
  <2>1. p # q
    BY <1>1
  <2>2. CASE d # q \/ Top.do # "greet"
    <3>1. Matched(Tasks, Tasks', p, d) /\ Matched(Tasks', Tasks, p, d)
      BY <1>2, <1>3, <2>1, <2>2, Shrunk
    <3> QED BY <1>2, <1>4, <3>1, SameAgreed, SameWorld DEF PairsRight
  <2>3. CASE d = q /\ Top.do = "greet"
    <3>1. FadedOut(Tasks, p, d, pos[p], picture[p][d])
      BY <1>2, <1>4, <2>1, <2>3 DEF PairsRight, Agreed
    <3>2. ~ Fades(Top, p, d, pos[p], picture[p][d])
      BY <2>3 DEF Fades, Looks, Strides, Journeys
    <3>3. FadedOut(Tasks', p, d, pos[p], picture[p][d])
      BY <1>3, <3>1, <3>2 DEF FadedOut
    <3> QED BY <1>2, <2>1, <2>3, <3>3, SameWorld DEF Agreed
  <2> QED BY <2>2, <2>3
<1> QED BY <1>2, <1>4, SameWorld DEF PairsRight

\* The clients of others than q, once q's client is changed.
LEMMA OthersKeep ==
    ASSUME ClientsOK, NEW q \in Player, NEW k, NEW x, NEW p \in Player, p # q,
           known' = [known EXCEPT ![q] = k], picture' = [picture EXCEPT ![q] = x]
    PROVE  known'[p] = known[p] /\ picture'[p] = picture[p]
BY DEF ClientsOK

LEMMA HisChanges ==
    ASSUME ClientsOK, NEW q \in Player, NEW k, NEW x,
           known' = [known EXCEPT ![q] = k], picture' = [picture EXCEPT ![q] = x]
    PROVE  known'[q] = k /\ picture'[q] = x
BY DEF ClientsOK

LEMMA RenewSelfPairs ==
    ASSUME StateOK, PairsRight, RenewSelf
    PROVE  PairsRight'
<1> DEFINE c == Top.c
           v == AddedSelf(Client(c), c, Top.to)
<1>1. /\ Tasks' = Below /\ Tasks = {Top} \union Below /\ world' = world /\ blurred' = blurred
      /\ c \in players /\ Top.do = "renewSelf" /\ c \in Player /\ c \in Creature
      /\ known' = [known EXCEPT ![c] = v.known] /\ picture' = [picture EXCEPT ![c] = v.picture]
      /\ Top.to \in Position /\ pos[c] = Top.to
  BY RenewSelfState, TopGood
     DEF RenewSelf, StateOK, Doing, Below, WorldOK, Creature, TaskRight, Present
<1>2. Below = {}
  <2>1. \A u \in Below : FALSE
    BY <1>1, TopGood DEF StateOK, RenewSelf, Doing, Below, Above, Before
  <2> QED BY <2>1
<1>3. v.picture[c] = pos[c] /\ \A d \in Creature \ {c} : (d \in v.known <=> d \in known[c]) /\ v.picture[d] = picture[c][d]
  <2> HIDE DEF c, v
  <2> QED BY <1>1, ClientIs, AddedSelfIs DEF StateOK, v
<1>4. known'[c] = v.known /\ picture'[c] = v.picture
  <2> HIDE DEF c, v
  <2> QED BY <1>1, HisChanges DEF StateOK
<1>5. \A p \in Player \ {c} : known'[p] = known[p] /\ picture'[p] = picture[p]
  <2> HIDE DEF c, v
  <2> QED BY <1>1, OthersKeep DEF StateOK
<1> HIDE DEF c, v
<1>6. ASSUME NEW p \in players, NEW d \in Creature, <<p, d>> \notin blurred PROVE Agreed(p, d)'
  <2>1. ~ Relevant(Top, p, d)
    BY <1>1 DEF Relevant, Journeys, Looks, Strides
  <2>4. Matched(Tasks, Tasks', p, d) /\ Matched(Tasks', Tasks, p, d)
    BY <1>1, <2>1, Popped
  <2>5. CASE p = c /\ d = c
    <3>1. Tasks' = {} /\ pos'[c] = picture'[c][c]
      BY <1>1, <1>2, <1>3, <1>4, SameWorld
    <3>2. SelfRight(Tasks', p, pos'[p], picture'[p][p])
      BY <2>5, <3>1 DEF SelfRight, Viewpoints
    <3> QED BY <2>5, <3>2 DEF Agreed
  <2>6. CASE ~ (p = c /\ d = c)
    <3>1. p \in Player /\ (d \in known'[p] <=> d \in known[p])
      BY <1>3, <1>4, <1>5, <2>6 DEF StateOK, WorldOK
    <3>2. picture'[p][d] = picture[p][d]
      BY <1>3, <1>4, <1>5, <2>6, <3>1
    <3> QED BY <1>1, <1>6, <2>4, <3>1, <3>2, SameAgreed, SameWorld DEF PairsRight
  <2> QED BY <2>5, <2>6
<1> QED BY <1>1, <1>6, SameWorld DEF PairsRight

(***************************************************************************)
(* One spectator is served.                                                *)
(***************************************************************************)
SeesFrom(q) == CanSee(pos[q], Top.from)
SeesTo(q) == CanSee(pos[q], Top.to)

\* What the packets of the loop on top make of its creature.
LEMMA EffectShows ==
    ASSUME StateOK, Doing(Loops), NEW q \in players, NEW c, c = Top.c,
           NEW w, w = Effect(q), NEW to, to = Top.to
    PROVE  /\ Top.do = "gone" \/ (Top.do \in Strides /\ ~ SeesTo(q)) =>
                c \notin w.known /\ w.picture[c] = Nowhere
           /\ Top.do = "renew" \/ (Top.do = "jump" /\ SeesTo(q) /\ SeesFrom(q))
              \/ (Top.do = "step" /\ SeesTo(q) /\ SeesFrom(q) /\ Boundary(Top.from, Top.to)) =>
                IF c \in Present THEN c \in w.known /\ w.picture[c] = to
                ELSE c \notin w.known /\ w.picture[c] = Nowhere
           /\ Top.do \in {"turn", "dress"} =>
                (c \in w.known <=> c \in known[q]) /\ w.picture[c] = picture[q][c]
           /\ Top.do = "appear" \/ (Top.do \in Strides /\ SeesTo(q) /\ ~ SeesFrom(q)) =>
                IF c \in Present
                THEN /\ c \in w.known
                     /\ w.picture[c] = IF c \notin known[q] \/ picture[q][c] # Nowhere
                                       THEN to ELSE picture[q][c]
                ELSE (c \in w.known <=> c \in known[q]) /\ w.picture[c] = picture[q][c]
           /\ Top.do = "step" /\ SeesTo(q) /\ SeesFrom(q) /\ ~ Boundary(Top.from, Top.to) =>
                /\ c \in w.known <=> c \in known[q]
                /\ w.picture[c] = IF picture[q][c] # Nowhere THEN to ELSE picture[q][c]
<1> PICK v : v = Client(q)
  OBVIOUS
<1>1. v \in View /\ v.known = known[q] /\ v.picture = picture[q]
  BY ClientIs DEF StateOK, WorldOK
<1>2. c \in Creature /\ to \in Position /\ Top.do \in Loops
  BY TopGood DEF StateOK, Doing, TaskSet, TaskRight, Loops
<1> PICK r : r = RemovedForgotten(v, c)
  OBVIOUS
<1>3. r \in View /\ c \notin r.known /\ r.picture[c] = Nowhere
  BY <1>1, <1>2, RemovedIs
<1>4. Added(r, c, to).picture[c] = to /\ c \in Added(r, c, to).known
  BY <1>2, <1>3, AddedIs
<1>5. /\ c \in Added(v, c, to).known
      /\ Added(v, c, to).picture[c] = IF c \notin known[q] \/ picture[q][c] # Nowhere
                                      THEN to ELSE picture[q][c]
  BY <1>1, <1>2, AddedIs
<1>6. /\ Moved(v, c, to).known = known[q]
      /\ Moved(v, c, to).picture[c] = IF picture[q][c] # Nowhere THEN to ELSE picture[q][c]
  BY <1>1, <1>2, MovedIs
<1>7. /\ Top.do = "gone" \/ (Top.do \in Strides /\ ~ SeesTo(q)) => w = r
      /\ Top.do = "renew" \/ (Top.do = "jump" /\ SeesTo(q) /\ SeesFrom(q))
         \/ (Top.do = "step" /\ SeesTo(q) /\ SeesFrom(q) /\ Boundary(Top.from, Top.to)) =>
           w = IF c \in Present THEN Added(r, c, to) ELSE r
      /\ Top.do \in {"turn", "dress"} => w = v
      /\ Top.do = "appear" \/ (Top.do \in Strides /\ SeesTo(q) /\ ~ SeesFrom(q)) =>
           w = IF c \in Present THEN Added(v, c, to) ELSE v
      /\ Top.do = "step" /\ SeesTo(q) /\ SeesFrom(q) /\ ~ Boundary(Top.from, Top.to) =>
           w = Moved(v, c, to)
  BY DEF Effect, AddedIfPresent, SeesFrom, SeesTo, Strides
<1> QED BY <1>1, <1>3, <1>4, <1>5, <1>6, <1>7

Served(q) ==
    /\ Doing(Loops) /\ q \in Top.todo /\ q \in players
    /\ stack' = Without(q)
    /\ known' = [known EXCEPT ![q] = Effect(q).known]
    /\ picture' = [picture EXCEPT ![q] = Effect(q).picture]
    /\ world' = world /\ blurred' = blurred
    /\ strays' = strays \union
          (IF Stray(q) THEN {IF Top.c \in Present THEN "present" ELSE "gone"} ELSE {})

LEMMA ServedIs ==
    ASSUME StateOK, NEW q, Served(q)
    PROVE  /\ StateOK' /\ Tasks' = Below \union {u \in {Rest(q)} : u.todo # {}}
           /\ Tasks = {Top} \union Below /\ q \in Player /\ q # Top.c /\ Top.c \in Creature
           /\ known'[q] = Effect(q).known /\ picture'[q] = Effect(q).picture
           /\ Top.do \in Loops /\ TaskRight(Top) /\ Top.to \in Position /\ Top.from \in Position
           /\ \A u \in Below : Above(Present, Top, u)
<1>1. StateOK' /\ Tasks' = Below \union {u \in {Rest(q)} : u.todo # {}} /\ q \in Player
  BY ServeState DEF Served, StateOK, WorldOK
<1>2. Tasks = {Top} \union Below /\ q # Top.c /\ Top.c \in Creature /\ TaskRight(Top)
      /\ Top.do \in Loops /\ Top.to \in Position /\ Top.from \in Position
      /\ \A u \in Below : Above(Present, Top, u)
  BY TopGood DEF Served, StateOK, Doing, Below, TaskSet, TaskRight, Loops
<1>3. known'[q] = Effect(q).known /\ picture'[q] = Effect(q).picture
  BY <1>1, HisChanges DEF StateOK, Served
<1> QED BY <1>1, <1>2, <1>3

LEMMA ServedFar ==
    ASSUME StateOK, NEW q, Served(q), NEW p \in players, NEW d \in Creature, Agreed(p, d),
           p # q \/ d # Top.c
    PROVE  Agreed(p, d)'
<1>1. p \in Player
  BY DEF StateOK, WorldOK
<1>2. CASE p # q
  <2>1. known'[p] = known[p] /\ picture'[p] = picture[p]
    BY <1>1, <1>2, ServedIs, OthersKeep DEF StateOK, Served
  <2>2. Matched(Tasks, Tasks', p, d) /\ Matched(Tasks', Tasks, p, d)
    <3>1. Top.do # "greet" /\ Doing(Loops \union {"greet"})
      BY DEF Served, Doing, Loops
    <3>2. PICK U : U = Tasks'
      OBVIOUS
    <3> QED BY <1>2, <3>1, <3>2, ServedIs, Shrunk
  <2> QED BY <2>1, <2>2, SameAgreed, SameWorld DEF Served
<1>3. CASE p = q /\ d # Top.c
  <2>1. (d \in known'[p] <=> d \in known[p]) /\ picture'[p][d] = picture[p][d]
    <3>1. Elsewhere(Client(q), Effect(q), Top.c)
      BY EffectIs DEF Served
    <3>2. Client(q).known = known[q] /\ Client(q).picture = picture[q]
      BY <1>1, <1>3, ClientIs DEF StateOK
    <3>3. known'[q] = Effect(q).known /\ picture'[q] = Effect(q).picture
      BY ServedIs
    <3> QED BY <1>3, <3>1, <3>2, <3>3 DEF Elsewhere
  <2>2. ~ Relevant(Top, p, d) /\ ~ Relevant(Rest(q), p, d)
    BY <1>3, ServedIs, RestIs DEF Relevant, Loops, Journeys, Looks, Strides
  <2>3. PICK C : C = {u \in {Rest(q)} : u.todo # {}}
    OBVIOUS
  <2>4. Matched({Top} \union Below, Below \union C, p, d) /\ Matched(Below \union C, {Top} \union Below, p, d)
    BY <2>2, <2>3, OtherTasks
  <2>5. Matched(Tasks, Tasks', p, d) /\ Matched(Tasks', Tasks, p, d)
    BY <2>3, <2>4, ServedIs
  <2> QED BY <2>1, <2>5, SameAgreed, SameWorld DEF Served
<1> QED BY <1>2, <1>3

\* A loop that is no farewell: nothing else is left that fades its creature
\* from a client, or says where the client is drawn from.
LEMMA OnlyLoop ==
    ASSUME StateOK, NEW q, Served(q), Top.do # "gone", NEW u \in Below
    PROVE  /\ u.c = Top.c /\ u.c # q /\ u.do # "gone"
           /\ u.do \notin Looks \union Strides \union {"appear", "spotShow", "drop"} \/ Top.do \in {"turn", "dress"}
           /\ u.do # "greet" \/ Top.todo \intersect u.todo = {}
BY ServedIs DEF Above, Before, Loops, Looks, Strides

LEMMA ServedGone ==
    ASSUME StateOK, NEW q, Served(q), NEW c, c = Top.c, Agreed(q, c), c \notin Present
    PROVE  Agreed(q, c)'
<1> PICK w : w = Effect(q)
  OBVIOUS
<1>1. /\ Tasks' = Below \union {u \in {Rest(q)} : u.todo # {}} /\ Tasks = {Top} \union Below
      /\ q # c /\ picture'[q] = w.picture /\ Top.do \in Loops /\ pos' = pos /\ Present' = Present
  BY ServedIs, SameWorld DEF Served
<1>2. FadedOut(Tasks, q, c, pos[q], picture[q][c])
  BY <1>1 DEF Agreed
<1>3. /\ Top.do = "gone" \/ (Top.do \in Strides /\ ~ SeesTo(q)) => w.picture[c] = Nowhere
      /\ Top.do \in {"renew", "jump"} => w.picture[c] = Nowhere \/ w.picture[c] = picture[q][c]
      /\ Top.do \in {"turn", "dress", "appear"} => w.picture[c] = picture[q][c]
      /\ Top.do = "step" => w.picture[c] = Nowhere \/ picture[q][c] # Nowhere
  <2>1. Doing(Loops) /\ q \in players
    BY DEF Served
  <2> QED BY <2>1, EffectShows DEF Strides
<1>4. CASE Top.do = "gone" \/ (Top.do \in Strides /\ ~ SeesTo(q))
  <2>1. picture'[q][c] = Nowhere
    BY <1>1, <1>3, <1>4
  <2> QED BY <1>1, <2>1 DEF Agreed, FadedOut
<1>5. CASE ~ (Top.do = "gone" \/ (Top.do \in Strides /\ ~ SeesTo(q)))
  <2>1. ~ Fades(Top, q, c, pos[q], picture[q][c])
    BY <1>1, <1>5 DEF Fades, Loops, Looks, Strides, Journeys, SeesTo
  <2>2. \A u \in Below : Fades(u, q, c, pos[q], picture[q][c]) => u.do \in Looks \union Strides
    BY <1>5, OnlyLoop DEF Fades
  <2>3. CASE picture[q][c] = Nowhere
    <3>1. picture'[q][c] = Nowhere
      BY <1>1, <1>3, <1>5, <2>3 DEF Loops, Strides
    <3> QED BY <1>1, <3>1 DEF Agreed, FadedOut
  <2>4. CASE picture[q][c] # Nowhere
    <3>1. PICK u \in Below : Fades(u, q, c, pos[q], picture[q][c])
      BY <1>1, <1>2, <2>1, <2>4 DEF FadedOut
    <3>2. Top.do \in {"turn", "dress"}
      BY <1>5, <2>2, <3>1, OnlyLoop
    <3>3. u.do \notin Looks \union Strides
      BY <1>1, <3>2, ServedIs DEF Above, Before, Looks, Strides
    <3> QED BY <2>2, <3>1, <3>3
  <2> QED BY <2>3, <2>4
<1> QED BY <1>4, <1>5

\* A loop about a creature in the world: after its packets the client shows it
\* from where it stands, or from where it came.
LEMMA ServedThere ==
    ASSUME StateOK, NEW q, Served(q), NEW c, c = Top.c, Agreed(q, c), c \in Present
    PROVE  Agreed(q, c)' /\ ~ Stray(q)
<1> PICK w : w = Effect(q)
  OBVIOUS
<1> PICK to : to = Top.to
  OBVIOUS
<1> PICK T, U : T = Tasks /\ U = Tasks'
  OBVIOUS
<1> DEFINE eye == pos[q]
           shown == picture[q][c]
           believed == c \in known[q]
<1>1. /\ U = Below \union {u \in {Rest(q)} : u.todo # {}} /\ T = {Top} \union Below
      /\ q # c /\ known'[q] = w.known /\ picture'[q] = w.picture /\ Top.do \in Loops
      /\ pos' = pos /\ Present' = Present /\ (MaySee(q, c)' <=> MaySee(q, c))
      /\ TaskRight(Top) /\ Top.from \in Position /\ to \in Position /\ Nowhere \notin Position
      /\ q \in Top.todo /\ q \in players /\ Doing(Loops)
  BY ServedIs, SameWorld, PresenceAssumption DEF Served
<1>2. PairRight(T, q, c, eye, pos[c], MaySee(q, c), believed, shown)
  BY <1>1 DEF Agreed
<1>3. Rest(q).do = Top.do /\ Rest(q).c = c /\ Rest(q).todo = Top.todo \ {q}
  BY RestIs
<1>4. pos[c] = to
  BY <1>1 DEF TaskRight, Loops
<1>5. SUFFICES PairRight(U, q, c, eye, pos[c], MaySee(q, c), c \in w.known, w.picture[c]) /\ ~ Stray(q)
  BY <1>1 DEF Agreed, PairRight
<1>6. ASSUME Top.do \notin {"gone", "dress"}
      PROVE  /\ Viewpoints(T, q, eye) = {eye} /\ Viewpoints(U, q, eye) = {eye}
             /\ Whereabouts(U, q, c, to) = {to} /\ ~ Unshown(U, q, c) /\ ~ Awaited(U, q, c)
             /\ Whereabouts(T, q, c, to) = {IF Top.do \in Strides THEN Top.from ELSE to}
             /\ Unshown(T, q, c) <=> Top.do = "appear"
  <2>1. \A u \in Below : /\ u.c = c /\ u.do \in {"greet", "arrive", "renewSelf", "finishStep", "finishJump"}
                         /\ u.do = "greet" => q \notin u.todo
    BY <1>1, <1>6, ServedIs DEF Above, Before, Loops, Spots, Selves
  <2>2. \A u \in U : /\ u.c = c /\ u.c # q
                     /\ \/ u.do \in {"greet", "arrive", "renewSelf", "finishStep", "finishJump"}
                        \/ u.do = Top.do
                     /\ u.do \in {"greet", Top.do} => q \notin u.todo
    BY <1>1, <1>3, <2>1 DEF Loops
  <2>3. Top.do \in {"step", "jump", "appear", "renew", "turn"}
    BY <1>1, <1>6 DEF Loops
  <2>4. Viewpoints(T, q, eye) = {eye} /\ Viewpoints(U, q, eye) = {eye}
    BY <1>1, <2>1, <2>2 DEF Viewpoints
  <2>5. Whereabouts(U, q, c, to) = {to}
    <3>1. \A u \in U : ~ Due(u, q, c)
      BY <2>2, <2>3 DEF Due, Looks, Strides
    <3> QED BY <3>1 DEF Whereabouts
  <2>6. ~ Unshown(U, q, c) /\ ~ Awaited(U, q, c)
    BY <2>2, <2>3 DEF Unshown, Awaited
  <2>7. \A u \in Below : ~ Due(u, q, c)
    BY <2>1 DEF Due, Looks, Strides
  <2>8. Whereabouts(T, q, c, to) = {IF Top.do \in Strides THEN Top.from ELSE to}
    <3>1. CASE Top.do \in Strides
      <4>1. Due(Top, q, c)
        BY <1>1, <3>1 DEF Due
      <4>2. \A u \in T : Due(u, q, c) <=> u = Top
        BY <1>1, <2>7, <4>1
      <4> QED BY <1>1, <3>1, <4>1, <4>2 DEF Whereabouts
    <3>2. CASE Top.do \notin Strides
      <4>1. \A u \in T : ~ Due(u, q, c)
        BY <1>1, <2>3, <2>7, <3>2 DEF Due, Looks
      <4> QED BY <3>2, <4>1 DEF Whereabouts
    <3> QED BY <3>1, <3>2
  <2>9. Unshown(T, q, c) <=> Top.do = "appear"
    <3>1. Top.do = "appear" => Unshown(T, q, c)
      BY <1>1 DEF Unshown
    <3>2. Top.do # "appear" => ~ Unshown(T, q, c)
      BY <1>1, <2>1, <2>3 DEF Unshown
    <3> QED BY <3>1, <3>2
  <2> QED BY <2>4, <2>5, <2>6, <2>8, <2>9
<1>7. ASSUME Top.do \notin {"gone", "appear", "dress"}
      PROVE  /\ MaySee(q, c) /\ (SeesTo(q) \/ SeesFrom(q))
             /\ Top.do \notin Strides => SeesTo(q) /\ (SeesFrom(q) <=> SeesTo(q)) /\ Top.from = to
             /\ shown = IF Top.do \in Strides
                        THEN IF SeesFrom(q) THEN Top.from ELSE Nowhere
                        ELSE to
  <2>1. MaySee(q, c) /\ (SeesTo(q) \/ SeesFrom(q))
    BY <1>1, <1>7 DEF TaskRight, Loops, SeesTo, SeesFrom
  <2>2. Top.do \notin Strides => Top.from = to
    BY <1>1, <1>7 DEF TaskRight, Loops, Journeys, Looks, Strides
  <2>3. \A a \in {eye}, b \in {IF Top.do \in Strides THEN Top.from ELSE to} :
            shown = IF CanSee(a, b) /\ MaySee(q, c) THEN b ELSE Nowhere
    BY <1>2, <1>4, <1>6, <1>7 DEF PairRight
  <2> QED BY <2>1, <2>2, <2>3 DEF SeesTo, SeesFrom
<1>8. ~ Stray(q)
  BY <1>1, <1>7 DEF Stray, SeesTo, SeesFrom, Strides
<1>9. CASE Top.do = "gone"
  <2>1. w.picture[c] = Nowhere /\ c \notin w.known
    BY <1>1, <1>9, EffectShows
  <2>2. \A u \in Below : u.do = "drop" /\ u.c = c
    BY <1>9, ServedIs DEF Above
  <2>3. PICK u \in Below : u.do = "drop" /\ u.c = c
    BY <1>1, <1>9, TopGood DEF StateOK, Doing, Below
  <2>4. \A g \in U : g.do = "gone" /\ g.c = c => q \notin g.todo
    BY <1>1, <1>3, <2>2
  <2>5. Unshown(U, q, c)
    BY <1>1, <2>3, <2>4 DEF Unshown
  <2>6. ~ Awaited(U, q, c)
    BY <1>1, <1>3, <1>9, <2>2 DEF Awaited
  <2> QED BY <1>8, <2>1, <2>5, <2>6 DEF PairRight
<1>10. CASE Top.do = "dress"
  <2>1. (c \in w.known <=> believed) /\ w.picture[c] = shown
    BY <1>1, <1>10, EffectShows
  <2>2. ~ Relevant(Top, q, c) /\ ~ Relevant(Rest(q), q, c)
    BY <1>3, <1>10 DEF Relevant, Looks, Strides, Journeys
  <2>3. PICK C : C = {u \in {Rest(q)} : u.todo # {}}
    OBVIOUS
  <2>4. Matched({Top} \union Below, Below \union C, q, c) /\ Matched(Below \union C, {Top} \union Below, q, c)
    BY <2>2, <2>3, OtherTasks
  <2>5. Matched(T, U, q, c) /\ Matched(U, T, q, c)
    BY <1>1, <2>3, <2>4
  <2>6. /\ Viewpoints(T, q, eye) = Viewpoints(U, q, eye)
        /\ Unshown(T, q, c) <=> Unshown(U, q, c)
        /\ Awaited(T, q, c) <=> Awaited(U, q, c)
    BY <2>5, SameParts
  <2>7. Whereabouts(T, q, c, pos[c]) = Whereabouts(U, q, c, pos[c])
    BY <2>5, SameParts
  <2> QED BY <1>2, <1>8, <2>1, <2>6, <2>7 DEF PairRight
<1>11. CASE Top.do \notin {"gone", "dress"}
  <2>1. SUFFICES /\ c \in w.known <=> w.picture[c] # Nowhere
                 /\ w.picture[c] = IF SeesTo(q) /\ MaySee(q, c) THEN to ELSE Nowhere
    BY <1>4, <1>6, <1>8, <1>11 DEF PairRight, SeesTo
  <2>2. CASE Top.do = "appear"
    <3>1. shown = Nowhere /\ ~ believed
      BY <1>2, <1>6, <2>2 DEF PairRight
    <3>2. SeesTo(q) /\ MaySee(q, c)
      BY <1>1, <2>2 DEF TaskRight, SeesTo, MaySee
    <3>3. c \in w.known /\ w.picture[c] = to
      BY <1>1, <2>2, <3>1, EffectShows
    <3> QED BY <1>1, <3>2, <3>3
  <2>3. CASE Top.do = "renew"
    <3>1. c \in w.known /\ w.picture[c] = to
      BY <1>1, <2>3, EffectShows
    <3> QED BY <1>1, <1>7, <2>3, <3>1 DEF Strides
  <2>4. CASE Top.do = "turn"
    <3>1. (c \in w.known <=> believed) /\ w.picture[c] = shown
      BY <1>1, <2>4, EffectShows
    <3>2. believed <=> shown # Nowhere
      BY <1>2 DEF PairRight
    <3> QED BY <1>1, <1>7, <2>4, <3>1, <3>2 DEF Strides
  <2>5. CASE Top.do \in Strides
    <3>1. /\ shown = (IF SeesFrom(q) THEN Top.from ELSE Nowhere)
          /\ MaySee(q, c) /\ (believed <=> shown # Nowhere)
      BY <1>2, <1>7, <2>5 DEF PairRight, Strides
    <3>2. CASE ~ SeesTo(q)
      <4>1. c \notin w.known /\ w.picture[c] = Nowhere
        BY <1>1, <2>5, <3>2, EffectShows
      <4> QED BY <3>2, <4>1
    <3>3. CASE SeesTo(q) /\ ~ SeesFrom(q)
      <4>1. c \in w.known /\ w.picture[c] = to
        BY <1>1, <2>5, <3>1, <3>3, EffectShows
      <4> QED BY <1>1, <3>1, <3>3, <4>1
    <3>4. CASE SeesTo(q) /\ SeesFrom(q)
      <4>1. c \in w.known /\ w.picture[c] = to
        BY <1>1, <2>5, <3>1, <3>4, EffectShows DEF Strides
      <4> QED BY <1>1, <3>1, <3>4, <4>1
    <3> QED BY <3>2, <3>3, <3>4
  <2> QED BY <1>1, <1>11, <2>2, <2>3, <2>4, <2>5 DEF Loops, Strides
<1> QED BY <1>1, <1>9, <1>10, <1>11 DEF Loops

LEMMA ServePairs ==
    ASSUME StateOK, PairsRight, Serve
    PROVE  PairsRight' /\ (StraysAreOfTheGone => StraysAreOfTheGone')
<1>1. PICK q \in Top.todo \intersect players : Served(q)
  BY DEF Serve, Served
<1>2. world' = world /\ blurred' = blurred /\ q \in players /\ q # Top.c /\ Top.c \in Creature
  BY <1>1, ServedIs DEF Served
<1>3. ASSUME NEW p \in players, NEW d \in Creature, <<p, d>> \notin blurred PROVE Agreed(p, d)'
  <2>1. Agreed(p, d)
    BY <1>3 DEF PairsRight
  <2>2. CASE p # q \/ d # Top.c
    BY <1>1, <2>1, <2>2, ServedFar
  <2>3. CASE p = q /\ d = Top.c
    <3>1. PICK c : c = Top.c
      OBVIOUS
    <3>2. Agreed(q, c) => Agreed(q, c)'
      BY <1>1, <3>1, ServedGone, ServedThere
    <3> QED BY <2>1, <2>3, <3>1, <3>2
  <2> QED BY <2>2, <2>3
<1>4. ASSUME Stray(q) PROVE Top.c \notin Present
  <2>1. PICK c : c = Top.c
    OBVIOUS
  <2>2. Agreed(q, c)
    BY <1>2, <1>4, <2>1 DEF Stray, PairsRight
  <2> QED BY <1>1, <1>4, <2>1, <2>2, ServedThere
<1>5. StraysAreOfTheGone => StraysAreOfTheGone'
  BY <1>1, <1>4 DEF Served, StraysAreOfTheGone
<1> QED BY <1>2, <1>3, <1>5, SameWorld DEF PairsRight

(***************************************************************************)
(* A player leaves in the middle of a handler.                             *)
(***************************************************************************)
LEMMA VanishedRest ==
    ASSUME WorldOK, ClientsOK, NEW c \in players, Vanishes(c), NEW p \in players', NEW d \in Creature
    PROVE  /\ p \in players /\ p # c /\ pos'[p] = pos[p] /\ known'[p] = known[p]
           /\ picture'[p] = picture[p]
           /\ <<p, d>> \notin blurred' => <<p, d>> \notin blurred
           /\ d # c => pos'[d] = pos[d] /\ (MaySee(p, d)' <=> MaySee(p, d))
BY DEF WorldOK, ClientsOK, Vanishes, BlurredWithout, MaySee, Creature

\* Whoever still shows a player that leaves is told, or is about to find out.
LEMMA LeftFades ==
    ASSUME StateOK, NEW c \in players, NEW p \in players \ {c}, Agreed(p, c), NEW R,
           \A t \in Tasks : t.do \in Journeys /\ t.c # c => t \in R,
           \A t \in Tasks : t.do \in Looks \union Strides /\ t.c = c => t \in R
    PROVE  FadedOut(R \union {u \in {Farewell(c)} : u.todo # {}}, p, c, pos[p], picture[p][c])
<1> PICK T, U : T = Tasks /\ U = R \union {u \in {Farewell(c)} : u.todo # {}}
  OBVIOUS
<1> PICK eye, shown : eye = pos[p] /\ shown = picture[p][c]
  OBVIOUS
<1>1. c \in Present /\ c \in Creature /\ p \in Present /\ p # c
  BY DEF StateOK, WorldOK, Present, Creature
<1>2. PairRight(T, p, c, eye, pos[c], MaySee(p, c), c \in known[p], shown)
  BY <1>1 DEF Agreed
<1>3. \A t \in T : TaskRight(t)
  BY DEF StateOK, StackOK, StackGood, Tasks
<1>4. ASSUME CanSee(eye, pos[c]) PROVE FadedOut(U, p, c, eye, shown)
  <2>1. PICK f : f = Farewell(c)
    OBVIOUS
  <2>2. f.do = "gone" /\ f.c = c /\ p \in f.todo
    BY <1>4, <2>1, FarewellIs DEF StateOK
  <2>3. f \in U
    BY <2>1, <2>2
  <2> QED BY <2>2, <2>3 DEF FadedOut, Fades
<1>5. CASE shown = Nowhere
  BY <1>5 DEF FadedOut
<1>6. ASSUME shown # Nowhere, NEW t \in T, t.do \in Journeys, t.c = p
      PROVE  FadedOut(U, p, c, eye, shown)
  <2>1. t \in U /\ t.to = eye
    <3>1. t.to = eye
      BY <1>1, <1>3, <1>6 DEF TaskRight, Journeys, Looks
    <3> QED BY <1>1, <1>6, <3>1
  <2>2. CASE ~ CanSee(t.to, shown)
    BY <1>6, <2>1, <2>2 DEF FadedOut, Fades
  <2>3. CASE CanSee(t.to, shown)
    <3>1. \A u \in T : ~ Due(u, p, c)
      <4>1. ASSUME NEW u \in T, Due(u, p, c) PROVE FALSE
        <5>1. t.do # "gone" /\ u.do # "gone" /\ u.c = c
          BY <1>6, <4>1 DEF Due, Journeys, Looks, Strides
        <5>2. t.c = u.c
          BY <5>1, OneSubject DEF StateOK
        <5> QED BY <1>1, <1>6, <5>1, <5>2
      <4> QED BY <4>1
    <3>2. pos[c] \in Whereabouts(T, p, c, pos[c])
      BY <3>1 DEF Whereabouts
    <3>3. t.from \in Viewpoints(T, p, eye)
      BY <1>6 DEF Viewpoints
    <3>4. shown = pos[c]
      BY <1>2, <1>6, <3>2, <3>3 DEF PairRight
    <3> QED BY <1>4, <2>1, <2>3, <3>4
  <2> QED BY <2>2, <2>3
<1>7. ASSUME shown # Nowhere, \A t \in T : ~ (t.do \in Journeys /\ t.c = p)
      PROVE  FadedOut(U, p, c, eye, shown)
  <2>1. eye \in Viewpoints(T, p, eye)
    BY <1>7 DEF Viewpoints
  <2>2. \A b \in Whereabouts(T, p, c, pos[c]) : shown = b /\ CanSee(eye, b)
    BY <1>2, <1>7, <2>1 DEF PairRight
  <2>3. CASE \A t \in T : ~ Due(t, p, c)
    <3>1. pos[c] \in Whereabouts(T, p, c, pos[c])
      BY <2>3 DEF Whereabouts
    <3> QED BY <1>4, <2>2, <3>1
  <2>4. ASSUME NEW t \in T, Due(t, p, c) PROVE FadedOut(U, p, c, eye, shown)
    <3>1. t.from \in Whereabouts(T, p, c, pos[c])
      BY <2>4 DEF Whereabouts
    <3>2. CanSee(eye, t.from)
      BY <2>2, <3>1
    <3>3. t \in U /\ t.to = pos[c]
      <4>1. t.to = pos[c]
        BY <1>1, <1>3, <2>4 DEF TaskRight, Due, Looks, Strides
      <4> QED BY <2>4, <4>1 DEF Due
    <3>4. CASE CanSee(eye, t.to)
      BY <1>4, <3>3, <3>4
    <3>5. CASE ~ CanSee(eye, t.to)
      <4>1. Fades(t, p, c, eye, shown)
        BY <2>4, <3>2, <3>5 DEF Fades, Due
      <4> QED BY <3>3, <4>1 DEF FadedOut
    <3> QED BY <3>4, <3>5
  <2> QED BY <2>3, <2>4
<1> QED BY <1>5, <1>6, <1>7

LEMMA LeavePairs ==
    ASSUME StateOK, PairsRight, NEW c \in players, Vanishes(c), Present' = Present \ {c}, NEW R,
           Tasks' = R \union {u \in {Farewell(c)} : u.todo # {}},
           \A p \in players \ {c}, d \in Creature \ {c} :
              Matched(Tasks, R, p, d) /\ Matched(R, Tasks, p, d),
           \A t \in Tasks : t.do \in Journeys /\ t.c # c => t \in R,
           \A t \in Tasks : t.do \in Looks \union Strides /\ t.c = c => t \in R
    PROVE  PairsRight'
<1>1. ASSUME NEW p \in players', NEW d \in Creature, <<p, d>> \notin blurred' PROVE Agreed(p, d)'
  <2>1. /\ p \in players /\ p # c /\ pos'[p] = pos[p] /\ known'[p] = known[p]
        /\ picture'[p] = picture[p] /\ <<p, d>> \notin blurred
        /\ d # c => pos'[d] = pos[d] /\ (MaySee(p, d)' <=> MaySee(p, d))
    BY <1>1, VanishedRest DEF StateOK
  <2>2. Agreed(p, d)
    BY <2>1 DEF PairsRight
  <2>3. CASE d = c
    <3>1. FadedOut(R \union {u \in {Farewell(c)} : u.todo # {}}, p, c, pos[p], picture[p][c])
      BY <2>1, <2>2, <2>3, LeftFades
    <3>2. FadedOut(Tasks', p, d, pos'[p], picture'[p][d])
      BY <2>1, <2>3, <3>1
    <3> QED BY <2>1, <2>3, <3>2 DEF Agreed
  <2>4. CASE d # c
    <3>1. Matched(Tasks, R, p, d) /\ Matched(R, Tasks, p, d)
      BY <2>1, <2>4
    <3>2. ~ Relevant(Farewell(c), p, d)
      BY <2>4, FarewellIs DEF Relevant, Journeys, Looks, Strides, StateOK
    <3>3. Matched(Tasks, Tasks', p, d) /\ Matched(Tasks', Tasks, p, d)
      BY <3>1, <3>2 DEF Matched
    <3> QED BY <2>1, <2>2, <2>4, <3>3, SameAgreed
  <2> QED BY <2>3, <2>4
<1> QED BY <1>1 DEF PairsRight

LEMMA ReapSpectatorPairs ==
    ASSUME StateOK, PairsRight, ReapSpectator
    PROVE  PairsRight'
<1>1. PICK q \in Top.todo \intersect players : Leave(q, Without(q))
  BY DEF ReapSpectator
<1>2. Doing(Loops) /\ q \in players
  BY <1>1 DEF ReapSpectator
<1>0. PICK R : R = Below \union {u \in {Rest(q)} : u.todo # {}}
  OBVIOUS
<1>3. /\ Vanishes(q) /\ Present' = Present \ {q}
      /\ Tasks' = R \union {u \in {Farewell(q)} : u.todo # {}}
  BY <1>0, <1>1, <1>2, ReapState
<1>4. Tasks = {Top} \union Below /\ Top.do \in Loops /\ Top.c # q
  BY <1>1, <1>2, TopGood DEF StateOK, Doing, Below, TaskRight
<1>5. \A p \in players \ {q}, d \in Creature \ {q} : Matched(Tasks, R, p, d) /\ Matched(R, Tasks, p, d)
  <2>1. ASSUME NEW p \in players \ {q}, NEW d \in Creature \ {q}
        PROVE  Matched(Tasks, R, p, d) /\ Matched(R, Tasks, p, d)
    <3>1. Doing(Loops \union {"greet"})
      BY <1>2 DEF Doing
    <3> QED BY <1>0, <3>1, Shrunk
  <2> QED BY <2>1
<1>6. /\ \A t \in Tasks : t.do \in Journeys /\ t.c # q => t \in R
      /\ \A t \in Tasks : t.do \in Looks \union Strides /\ t.c = q => t \in R
  BY <1>0, <1>4 DEF Journeys, Looks, Strides, Loops
<1> QED BY <1>2, <1>3, <1>5, <1>6, LeavePairs

LEMMA ReapSelfPairs ==
    ASSUME StateOK, PairsRight, ReapSelf
    PROVE  PairsRight'
<1> PICK q : q = Top.c
  OBVIOUS
<1>1. /\ q \in players /\ Vanishes(q) /\ Present' = Present \ {q}
      /\ Tasks' = Below \union {u \in {Farewell(q)} : u.todo # {}}
  BY ReapSelfState
<1>2. Tasks = {Top} \union Below /\ Top.do \in Selves
  BY TopGood DEF StateOK, ReapSelf, Doing, Below
<1>3. \A p \in players \ {q}, d \in Creature \ {q} :
         Matched(Tasks, Below, p, d) /\ Matched(Below, Tasks, p, d)
  <2>1. ASSUME NEW p \in players \ {q}, NEW d \in Creature \ {q}
        PROVE  Matched(Tasks, Below, p, d) /\ Matched(Below, Tasks, p, d)
    <3>1. ~ Relevant(Top, p, d)
      BY <1>2 DEF Relevant, Selves, Journeys, Looks, Strides
    <3> QED BY <1>2, <3>1, Popped
  <2> QED BY <2>1
<1>4. /\ \A t \in Tasks : t.do \in Journeys /\ t.c # q => t \in Below
      /\ \A t \in Tasks : t.do \in Looks \union Strides /\ t.c = q => t \in Below
  BY <1>2 DEF Looks, Strides, Selves
<1> QED BY <1>1, <1>3, <1>4, LeavePairs

LEMMA LogoutPairs ==
    ASSUME StateOK, PairsRight, NEW c \in Player, Logout(c)
    PROVE  PairsRight'
<1> PICK R : R = {}
  OBVIOUS
<1>1. /\ Vanishes(c) /\ Present' = Present \ {c} /\ c \in players /\ Tasks = {}
      /\ Tasks' = R \union {u \in {Farewell(c)} : u.todo # {}}
  BY LogoutState, IdleIs DEF Logout
<1>2. \A p, d : Matched(Tasks, R, p, d) /\ Matched(R, Tasks, p, d)
  BY <1>1 DEF Matched
<1>3. \A t \in Tasks : t \in R
  BY <1>1
<1> QED BY <1>1, <1>2, <1>3, LeavePairs

LEMMA DropPairs ==
    ASSUME StateOK, PairsRight, Drop
    PROVE  PairsRight'
<1> PICK c : c = Top.c
  OBVIOUS
<1>1. Tasks' = {} /\ Below = {}
  BY DropState
<1>2. Tasks = {Top} \union Below /\ Tasks = {Top} /\ Top.do = "drop" /\ c \in Creature /\ c \notin Npc
  BY <1>1, TopGood DEF StateOK, Drop, Doing, Below, TaskSet, TaskRight
<1>3. \A p, d : d # c => Matched(Tasks, Tasks', p, d) /\ Matched(Tasks', Tasks, p, d)
  BY <1>1, <1>2 DEF Matched, Relevant, Looks, Strides, Journeys
<1>4. CASE c \in players \union monsters
  <2>1. Vanishes(c) /\ Present' = Present \ {c}
    BY <1>4, DropState
  <2>2. ASSUME NEW p \in players', NEW d \in Creature, <<p, d>> \notin blurred' PROVE Agreed(p, d)'
    <3>1. /\ p \in players /\ p # c
          /\ pos'[p] = IF p = c THEN Nowhere ELSE pos[p]
          /\ known'[p] = known[p] /\ picture'[p] = picture[p]
          /\ <<p, d>> \notin blurred
          /\ d # c => pos'[d] = pos[d] /\ (MaySee(p, d)' <=> MaySee(p, d))
      BY <1>2, <2>1, <2>2 DEF StateOK, WorldOK, ClientsOK, Vanishes, BlurredWithout, MaySee, Creature
    <3>2. Agreed(p, d)
      BY <3>1 DEF PairsRight
    <3>3. CASE d = c
      <4>1. c \in Present
        BY <1>4 DEF Present
      <4>2. Unshown(Tasks, p, c)
        BY <1>2 DEF Unshown
      <4>3. picture[p][c] = Nowhere
        BY <3>1, <3>2, <3>3, <4>1, <4>2 DEF Agreed, PairRight
      <4> QED BY <2>1, <3>1, <3>3, <4>3 DEF Agreed, FadedOut
    <3>4. CASE d # c
      BY <1>3, <2>1, <3>1, <3>2, <3>4, SameAgreed
    <3> QED BY <3>3, <3>4
  <2> QED BY <2>2 DEF PairsRight
<1>5. CASE c \notin players \union monsters
  <2>1. UNCHANGED <<world, known, picture, blurred>>
    BY <1>5, DropState
  <2>2. ASSUME NEW p \in players, NEW d \in Creature, <<p, d>> \notin blurred PROVE Agreed(p, d)'
    <3>1. Agreed(p, d)
      BY <2>2 DEF PairsRight
    <3>2. CASE d = c
      <4>1. c \notin Present /\ p # c
        BY <1>2, <1>5 DEF Present
      <4>2. picture[p][c] = Nowhere
        BY <1>2, <3>1, <3>2, <4>1 DEF Agreed, FadedOut, Fades, Looks, Strides, Journeys
      <4> QED BY <2>1, <3>2, <4>1, <4>2, SameWorld DEF Agreed, FadedOut
    <3>3. CASE d # c
      BY <1>3, <2>1, <3>1, <3>3, SameAgreed, SameWorld
    <3> QED BY <3>2, <3>3
  <2> QED BY <2>1, <2>2, SameWorld DEF PairsRight
<1> QED BY <1>4, <1>5

(***************************************************************************)
(* A look at the spectators.                                               *)
(***************************************************************************)
LEMMA LookTasks ==
    ASSUME StateOK, Look
    PROVE  /\ Tasks = {Top} \union Below /\ Top.do \in Spots /\ TaskRight(Top)
           /\ Tasks' = (Below \union {u \in {Finish} : Top.do \in Looks})
                       \union {u \in {Called} : u.todo # {}}
           /\ world' = world /\ UNCHANGED <<known, picture, blurred>>
           /\ Called.do = Showing /\ Called.c = Top.c /\ Called.from = Top.from
           /\ Called.to = Top.to /\ Called.todo = Audience
           /\ \A u \in Below : Above(Present, Top, u)
<1>1. Tasks = {Top} \union Below /\ Top.do \in Spots /\ TaskRight(Top)
      /\ \A u \in Below : Above(Present, Top, u)
  BY TopGood DEF StateOK, Look, Doing, Below
<1>2. world' = world /\ UNCHANGED <<known, picture, blurred>>
  BY DEF Look
<1> QED BY <1>1, <1>2, LookState, CalledIs

\* In the world, a ghost is hidden from gamemasters only: from nobody.
LEMMA HiddenFromNobody ==
    ASSUME StateOK, Look, Top.do = "spotHide", Top.c \in Present
    PROVE  Audience = {}
<1>1. Top.c \in ghost
  BY LookTasks DEF TaskRight
<1>2. \A p \in Near : p \in GM
  BY <1>1, NearIs DEF MaySee
<1> QED BY <1>2 DEF Audience

LEMMA TurnLook ==
    ASSUME StateOK, Look, NEW p \in players, NEW d \in Creature, Agreed(p, d),
           \/ Top.do \in {"spotTurn", "spotDress", "spotRenew"}
           \/ Top.do \in {"spotHide", "spotShow"} /\ d # Top.c
           \/ Top.do = "spotHide" /\ d \in Present
    PROVE  Agreed(p, d)'
<1>1. ~ Relevant(Top, p, d) /\ (Called.todo # {} => ~ Relevant(Called, p, d))
  <2>1. Top.do \in {"spotTurn", "spotDress", "spotRenew"} => Showing \in {"turn", "dress", "renew"}
    BY DEF Showing
  <2>2. Top.do \in {"spotHide", "spotShow"} => Showing \in {"gone", "appear"}
    BY DEF Showing
  <2>3. Top.do = "spotHide" /\ d = Top.c /\ d \in Present => Audience = {}
    BY HiddenFromNobody
  <2> QED BY <2>1, <2>2, <2>3, LookTasks DEF Relevant, Looks, Strides, Journeys
<1>2. Top.do \notin Looks
  BY DEF Looks
<1>3. PICK C : C = {u \in {Called} : u.todo # {}}
  OBVIOUS
<1>4. Matched({Top} \union Below, Below \union C, p, d) /\ Matched(Below \union C, {Top} \union Below, p, d)
  BY <1>1, <1>3, OtherTasks
<1>5. Tasks' = Below \union C /\ Tasks = {Top} \union Below
  BY <1>2, <1>3, LookTasks
<1>6. Matched(Tasks, Tasks', p, d) /\ Matched(Tasks', Tasks, p, d)
  BY <1>4, <1>5
<1> QED BY <1>6, LookTasks, SameAgreed, SameWorld

\* Hiding a ghost that has left since.
LEMMA HideLook ==
    ASSUME StateOK, Look, NEW p \in players, NEW d \in Creature, Agreed(p, d),
           Top.do = "spotHide", d = Top.c, d \notin Present
    PROVE  Agreed(p, d)'
<1>1. p # d
  BY DEF Present
<1>2. FadedOut(Tasks, p, d, pos[p], picture[p][d])
  BY <1>1 DEF Agreed
<1>3. ~ Fades(Top, p, d, pos[p], picture[p][d])
  BY DEF Fades, Looks, Strides, Journeys
<1>4. FadedOut(Tasks', p, d, pos[p], picture[p][d])
  BY <1>2, <1>3, LookTasks DEF FadedOut
<1> QED BY <1>1, <1>4, LookTasks, SameWorld DEF Agreed

LEMMA ShowLook ==
    ASSUME StateOK, Look, NEW p \in players, NEW d \in Creature, Agreed(p, d),
           Top.do = "spotShow", d = Top.c
    PROVE  Agreed(p, d)'
<1> PICK T, U : T = Tasks /\ U = Tasks'
  OBVIOUS
<1>1. Below = {}
  <2>1. \A u \in Below : FALSE
    BY LookTasks DEF Above, Before, Spots
  <2> QED BY <2>1
<1>2. /\ T = {Top} /\ U = {u \in {Called} : u.todo # {}} /\ Called.do = "appear"
      /\ Called.c = d /\ Called.todo = Audience
      /\ Audience = {q \in players \ (GM \union {d}) : CanSee(pos[q], Top.to)}
  BY <1>1, LookTasks DEF Audience, Showing, Looks
<1>3. CASE p = d
  <2>1. ~ Arriving(T, p) /\ Viewpoints(T, p, pos[p]) = {pos[p]} /\ Viewpoints(U, p, pos[p]) = {pos[p]}
    BY <1>2, <1>3 DEF Arriving, Viewpoints, Journeys, Looks
  <2> QED BY <1>3, <2>1, LookTasks, SameWorld DEF Agreed, SelfRight
<1>4. CASE p # d /\ d \notin Present
  <2>1. picture[p][d] = Nowhere
    BY <1>2, <1>4 DEF Agreed, FadedOut, Fades, Looks, Strides, Journeys
  <2> QED BY <1>4, <2>1, LookTasks, SameWorld DEF Agreed, FadedOut
<1>5. CASE p # d /\ d \in Present
  <2> PICK eye, here, shown : eye = pos[p] /\ here = pos[d] /\ shown = picture[p][d]
    OBVIOUS
  <2>1. /\ Viewpoints(T, p, eye) = {eye} /\ Viewpoints(U, p, eye) = {eye}
        /\ Whereabouts(T, p, d, here) = {here} /\ Whereabouts(U, p, d, here) = {here}
        /\ ~ Awaited(U, p, d) /\ (Unshown(T, p, d) <=> p \notin GM)
        /\ Unshown(U, p, d) <=> p \in Audience
    <3>1. Viewpoints(T, p, eye) = {eye} /\ Viewpoints(U, p, eye) = {eye}
      BY <1>2 DEF Viewpoints, Journeys, Looks
    <3>2. Whereabouts(T, p, d, here) = {here} /\ Whereabouts(U, p, d, here) = {here}
      BY <1>2 DEF Whereabouts, Due, Looks, Strides
    <3>3. ~ Awaited(U, p, d) /\ (Unshown(T, p, d) <=> p \notin GM)
      BY <1>2 DEF Awaited, Unshown
    <3>4. Unshown(U, p, d) <=> p \in Audience
      BY <1>2 DEF Unshown
    <3> QED BY <3>1, <3>2, <3>3, <3>4
  <2>2. here = Top.to /\ MaySee(p, d)
    BY <1>5, LookTasks DEF TaskRight, MaySee
  <2>3. PairRight(T, p, d, eye, here, MaySee(p, d), d \in known[p], shown)
    BY <1>5 DEF Agreed
  <2>4. PairRight(U, p, d, eye, here, MaySee(p, d), d \in known[p], shown)
    <3>1. p \in Audience <=> p \notin GM /\ CanSee(eye, here)
      BY <1>2, <1>5, <2>2
    <3> QED BY <2>1, <2>2, <2>3, <3>1 DEF PairRight
  <2> QED BY <1>5, <2>4, LookTasks, SameWorld DEF Agreed, PairRight
<1> QED BY <1>3, <1>4, <1>5

\* A move is about to be shown: to the mover at the end, from where it stood
\* till then, and to each spectator in its turn.
LEMMA MoveLook ==
    ASSUME StateOK, Look, NEW p \in players, NEW d \in Creature, Agreed(p, d), Top.do \in Looks
    PROVE  Agreed(p, d)'
<1> PICK T, U : T = Tasks /\ U = Tasks'
  OBVIOUS
<1> PICK c, from, to : c = Top.c /\ from = Top.from /\ to = Top.to
  OBVIOUS
<1> PICK eye, here, shown : eye = pos[p] /\ here = pos[d] /\ shown = picture[p][d]
  OBVIOUS
<1>1. Below = {}
  <2>1. \A u \in Below : FALSE
    BY LookTasks DEF Above, Before, Spots, Looks
  <2> QED BY <2>1
<1>2. /\ T = {Top} /\ U = {Finish} \union {u \in {Called} : u.todo # {}}
      /\ Called.do \in Strides /\ Called.c = c /\ Called.from = from /\ Called.to = to
      /\ Called.todo = Near
      /\ Finish.do \in {"finishStep", "finishJump"} /\ Finish.c = c /\ Finish.from = from /\ Finish.to = to
  BY <1>1, LookTasks, CalledIs DEF Audience, Showing, Looks, Strides
<1>3. \A t \in T : t.do \in Looks /\ t.do \in Journeys /\ t.c = c /\ t.from = from /\ t.to = to
  BY <1>2 DEF Journeys
<1>4. \A u \in U : /\ u.c = c /\ u.from = from /\ u.to = to
                   /\ \/ u.do \in {"finishStep", "finishJump"}
                      \/ u.do \in Strides /\ u.todo = Near
  BY <1>2
<1>5. ~ Unshown(T, p, d) /\ ~ Unshown(U, p, d) /\ ~ Awaited(U, p, d) /\ ~ Arriving(T, p)
  BY <1>3, <1>4 DEF Unshown, Awaited, Arriving, Looks, Strides
<1>6. CASE p = c
  <2>1. Viewpoints(T, p, eye) = {from} /\ Viewpoints(U, p, eye) = {from}
    <3>1. \A u \in U : u.do \in Journeys <=> u.do \in {"finishStep", "finishJump"}
      BY <1>4 DEF Journeys, Looks, Strides
    <3> QED BY <1>2, <1>3, <1>4, <1>6, <3>1 DEF Viewpoints
  <2>2. CASE d = c
    BY <1>5, <1>6, <2>1, <2>2, LookTasks, SameWorld DEF Agreed, SelfRight
  <2>3. CASE d # c /\ d \in Present
    <3>1. Whereabouts(T, p, d, here) = {here} /\ Whereabouts(U, p, d, here) = {here}
      BY <1>3, <1>4, <2>3 DEF Whereabouts, Due
    <3>2. PairRight(T, p, d, eye, here, MaySee(p, d), d \in known[p], shown)
      BY <1>6, <2>3 DEF Agreed
    <3>3. PairRight(U, p, d, eye, here, MaySee(p, d), d \in known[p], shown)
      BY <1>5, <2>1, <3>1, <3>2 DEF PairRight
    <3> QED BY <1>6, <2>3, <3>3, LookTasks, SameWorld DEF Agreed, PairRight
  <2>4. CASE d # c /\ d \notin Present
    <3>1. shown = Nowhere \/ ~ CanSee(to, shown)
      BY <1>3, <1>6, <2>4 DEF Agreed, FadedOut, Fades, Looks, Strides
    <3>2. Finish \in U /\ Finish.do \in Journeys
      BY <1>2 DEF Journeys
    <3>3. FadedOut(U, p, d, eye, shown)
      BY <1>2, <1>6, <3>1, <3>2 DEF FadedOut, Fades
    <3> QED BY <1>6, <2>4, <3>3, LookTasks, SameWorld DEF Agreed
  <2> QED BY <2>2, <2>3, <2>4
<1>7. CASE p # c /\ d # c
  <2>1. \A t \in T \union U : ~ Relevant(t, p, d)
    BY <1>3, <1>4, <1>7 DEF Relevant, Looks, Strides
  <2>2. Matched(T, U, p, d) /\ Matched(U, T, p, d)
    BY <2>1 DEF Matched
  <2> QED BY <2>2, LookTasks, SameAgreed, SameWorld
<1>8. CASE p # c /\ d = c
  <2>1. Viewpoints(T, p, eye) = {eye} /\ Viewpoints(U, p, eye) = {eye}
    BY <1>3, <1>4, <1>8 DEF Viewpoints
  <2>2. p \in Near <=> (CanSee(eye, from) \/ CanSee(eye, to)) /\ MaySee(p, c)
    BY <1>8, NearIs
  <2>3. CASE d \in Present
    <3>1. here = to /\ to \in Position /\ from \in Position
      BY <1>8, <2>3, LookTasks DEF TaskRight, Looks
    <3>2. Whereabouts(T, p, d, here) = {from}
      BY <1>2, <1>3, <1>8 DEF Whereabouts, Due
    <3>3. Whereabouts(U, p, d, here) = {IF p \in Near THEN from ELSE here}
      <4>1. CASE p \in Near
        <5>1. Called \in U /\ Due(Called, p, d)
          BY <1>2, <1>8, <4>1 DEF Due
        <5> QED BY <1>4, <4>1, <5>1 DEF Whereabouts
      <4>2. CASE p \notin Near
        <5>1. \A u \in U : ~ Due(u, p, d)
          BY <1>4, <4>2 DEF Due, Looks, Strides
        <5> QED BY <4>2, <5>1 DEF Whereabouts
      <4> QED BY <4>1, <4>2
    <3>4. PairRight(T, p, d, eye, here, MaySee(p, d), d \in known[p], shown)
      BY <1>8, <2>3 DEF Agreed
    <3>5. PairRight(U, p, d, eye, here, MaySee(p, d), d \in known[p], shown)
      BY <1>5, <1>8, <2>1, <2>2, <3>1, <3>2, <3>3, <3>4 DEF PairRight
    <3> QED BY <1>8, <2>3, <3>5, LookTasks, SameWorld DEF Agreed, PairRight
  <2>4. CASE d \notin Present
    <3>1. shown = Nowhere \/ (CanSee(eye, from) /\ ~ CanSee(eye, to))
      BY <1>3, <1>8, <2>4 DEF Agreed, FadedOut, Fades, Looks, Strides
    <3>2. ASSUME shown # Nowhere PROVE FadedOut(U, p, d, eye, shown)
      <4>1. MaySee(p, c)
        BY <1>8, <2>4 DEF MaySee, StateOK, WorldOK, Present
      <4>2. p \in Near
        BY <2>2, <3>1, <3>2, <4>1
      <4>3. Called \in U /\ p \in Called.todo
        BY <1>2, <4>2
      <4> QED BY <1>2, <1>8, <3>1, <3>2, <4>3 DEF FadedOut, Fades
    <3>3. FadedOut(U, p, d, eye, shown)
      BY <3>2 DEF FadedOut
    <3> QED BY <1>8, <2>4, <3>3, LookTasks, SameWorld DEF Agreed
  <2> QED BY <2>3, <2>4
<1> QED BY <1>6, <1>7, <1>8

LEMMA LookPairs ==
    ASSUME StateOK, PairsRight, Look
    PROVE  PairsRight'
<1>1. ASSUME NEW p \in players, NEW d \in Creature, <<p, d>> \notin blurred PROVE Agreed(p, d)'
  <2>1. Agreed(p, d)
    BY <1>1 DEF PairsRight
  <2>2. Top.do \in Looks \union {"spotTurn", "spotDress", "spotRenew", "spotHide", "spotShow"}
    BY LookTasks DEF Spots, Looks
  <2>3. CASE Top.do \in Looks
    BY <2>1, <2>3, MoveLook
  <2>4. CASE Top.do = "spotShow" /\ d = Top.c
    BY <2>1, <2>4, ShowLook
  <2>5. CASE Top.do = "spotHide" /\ d = Top.c /\ d \notin Present
    BY <2>1, <2>5, HideLook
  <2>6. CASE \/ Top.do \in {"spotTurn", "spotDress", "spotRenew"}
             \/ Top.do \in {"spotHide", "spotShow"} /\ d # Top.c
             \/ Top.do = "spotHide" /\ d \in Present
    BY <2>1, <2>6, TurnLook
  <2> QED BY <2>2, <2>3, <2>4, <2>5, <2>6
<1> QED BY <1>1, LookTasks, SameWorld DEF PairsRight

(***************************************************************************)
(* A new player and those it meets.                                        *)
(***************************************************************************)
LEMMA GreetTasks ==
    ASSUME StateOK, NEW q \in players, Greeted(q)
    PROVE  /\ Tasks = {Top} \union Below /\ Top.do = "greet" /\ TaskRight(Top) /\ Top.c \in Player
           /\ Tasks' = (Below \union {u \in {Rest(q)} : u.todo # {}}) \union {Hello(q)}
           /\ world' = world /\ blurred' = blurred /\ q \in Top.todo /\ q # Top.c /\ q \in Player
           /\ q \in Creature
           /\ Rest(q).do = "greet" /\ Rest(q).c = Top.c /\ Rest(q).from = Top.from
           /\ Rest(q).to = Top.to /\ Rest(q).todo = Top.todo \ {q}
           /\ Hello(q).do = "appear" /\ Hello(q).c = Top.c /\ Hello(q).todo = {q}
           /\ \A u \in Below : u.do = "arrive" /\ u.c = Top.c
<1>1. /\ stack # << >> /\ Top.do = "greet" /\ TaskRight(Top) /\ Tasks = {Top} \union Below
      /\ \A u \in Below : Above(Present, Top, u)
  BY TopGood DEF StateOK, Greeted, Doing, Below
<1>2. \A u \in Below : u.do = "arrive" /\ u.c = Top.c
  BY <1>1 DEF Above, Before, Spots, Selves
<1>3. q \in Top.todo /\ q # Top.c /\ q \in Player /\ Top.c \in Player /\ q \in Creature
  BY <1>1 DEF Greeted, TaskRight, StateOK, WorldOK, Creature
<1>4. world' = world /\ blurred' = blurred
  BY DEF Greeted
<1> QED BY <1>1, <1>2, <1>3, <1>4, GreetState, HelloIs, RestIs

\* Whom the greeting does not concern.
LEMMA GreetFar ==
    ASSUME StateOK, NEW q \in players, Greeted(q), NEW p \in players, NEW d \in Creature, Agreed(p, d),
           ~ (p = Top.c /\ d = q), ~ (p = q /\ d = Top.c)
    PROVE  Agreed(p, d)'
<1> PICK c : c = Top.c
  OBVIOUS
<1>1. (d \in known'[p] <=> d \in known[p]) /\ picture'[p][d] = picture[p][d]
  <2>1. p \in Player /\ c \in Player
    BY GreetTasks DEF StateOK, WorldOK
  <2>2. CASE c \notin players
    BY <2>2 DEF Greeted
  <2>3. CASE c \in players
    <3> PICK v : v = Added(Client(c), q, pos[q])
      OBVIOUS
    <3> PICK x : x = IF CanSee(pos[c], pos[q]) THEN v.picture ELSE picture[c]
      OBVIOUS
    <3>1. known' = [known EXCEPT ![c] = v.known] /\ picture' = [picture EXCEPT ![c] = x]
      BY <2>3 DEF Greeted
    <3>2. CASE p # c
      BY <2>1, <3>1, <3>2, OthersKeep DEF StateOK
    <3>3. CASE p = c
      <4>1. pos[q] \in Position
        BY GreetTasks DEF StateOK, WorldOK, Present
      <4>2. d # q => (d \in v.known <=> d \in known[c]) /\ v.picture[d] = picture[c][d]
        BY <2>1, <4>1, GreetTasks, ClientIs, AddedIs DEF StateOK
      <4>3. known'[c] = v.known /\ picture'[c] = x
        <5>1. known \in [Player -> SUBSET Creature]
              /\ picture \in [Player -> [Creature -> Position \union {Nowhere}]]
          BY DEF StateOK, ClientsOK
        <5> QED BY <2>1, <3>1, <5>1
      <4> QED BY <3>3, <4>2, <4>3
    <3> QED BY <3>2, <3>3
  <2> QED BY <2>2, <2>3
<1>2. Matched(Tasks, Tasks', p, d) /\ Matched(Tasks', Tasks, p, d)
  <2>1. ~ Relevant(Hello(q), p, d)
    BY GreetTasks DEF Relevant, Looks, Strides, Journeys
  <2>2. Relevant(Top, p, d) => /\ Like(Top, Rest(q), p, d) /\ Rest(q).todo # {}
                               /\ Relevant(Rest(q), p, d)
    BY GreetTasks DEF Relevant, Looks, Strides, Journeys, Like, TaskRight
  <2>3. Relevant(Rest(q), p, d) => Relevant(Top, p, d) /\ Like(Rest(q), Top, p, d)
    BY GreetTasks DEF Relevant, Looks, Strides, Journeys, Like, TaskRight
  <2>4. Matched(Tasks, Tasks', p, d)
    <3>1. \A t \in Tasks : t = Top \/ t \in Tasks'
      BY GreetTasks
    <3>2. Relevant(Top, p, d) => Rest(q) \in Tasks'
      BY <2>2, GreetTasks
    <3> QED BY <2>2, <3>1, <3>2 DEF Matched, Like
  <2>5. Matched(Tasks', Tasks, p, d)
    <3>1. \A t \in Tasks' : t = Hello(q) \/ t = Rest(q) \/ t \in Tasks
      BY GreetTasks
    <3>2. Top \in Tasks
      BY GreetTasks
    <3> QED BY <2>1, <2>3, <3>1, <3>2 DEF Matched, Like
  <2> QED BY <2>4, <2>5
<1> QED BY <1>1, <1>2, GreetTasks, SameAgreed, SameWorld

\* The one greeted is put on the newcomer's map.
LEMMA GreetMet ==
    ASSUME StateOK, NEW q \in players, Greeted(q), NEW c \in players, c = Top.c, Agreed(c, q)
    PROVE  Agreed(c, q)'
<1> PICK T, U : T = Tasks /\ U = Tasks'
  OBVIOUS
<1> PICK eye, here, shown : eye = pos[c] /\ here = pos[q] /\ shown = picture[c][q]
  OBVIOUS
<1> PICK v : v = Added(Client(c), q, here)
  OBVIOUS
<1>1. q # c /\ q \in Present /\ q \in Player /\ c \in Player /\ here \in Position /\ q \in Creature
      /\ Nowhere \notin Position
  BY GreetTasks, PresenceAssumption DEF StateOK, WorldOK, Present
<1>2. PairRight(T, c, q, eye, here, MaySee(c, q), q \in known[c], shown)
  BY <1>1 DEF Agreed
<1>3. Awaited(T, c, q)
  BY GreetTasks DEF Awaited
<1>4. CanSee(eye, here) /\ MaySee(c, q)
  BY <1>2, <1>3 DEF PairRight
<1>5. known'[c] = v.known /\ picture'[c] = v.picture
  <2>1. known' = [known EXCEPT ![c] = v.known] /\ picture' = [picture EXCEPT ![c] = v.picture]
    BY <1>4 DEF Greeted
  <2>2. known \in [Player -> SUBSET Creature]
        /\ picture \in [Player -> [Creature -> Position \union {Nowhere}]]
    BY DEF StateOK, ClientsOK
  <2> QED BY <1>1, <2>1, <2>2
<1>6. q \in v.known /\ v.picture[q] = here
  <2>1. q \in v.known /\ v.picture[q] = IF q \notin known[c] \/ shown # Nowhere THEN here ELSE shown
    BY <1>1, ClientIs, AddedIs DEF StateOK
  <2> QED BY <1>2, <2>1 DEF PairRight
<1>7. \A u \in U : u.c = c /\ u.do \in {"greet", "arrive", "appear"} /\ (u.do = "greet" => q \notin u.todo)
  BY GreetTasks
<1>8. Viewpoints(U, c, eye) = {eye} /\ Whereabouts(U, c, q, here) = {here}
      /\ ~ Unshown(U, c, q) /\ ~ Awaited(U, c, q)
  <2>1. Viewpoints(U, c, eye) = {eye}
    BY <1>7 DEF Viewpoints, Journeys, Looks
  <2>2. Whereabouts(U, c, q, here) = {here}
    BY <1>1, <1>7 DEF Whereabouts, Due
  <2>3. ~ Unshown(U, c, q) /\ ~ Awaited(U, c, q)
    BY <1>1, <1>7 DEF Unshown, Awaited
  <2> QED BY <2>1, <2>2, <2>3
<1>9. PairRight(U, c, q, eye, here, MaySee(c, q), q \in v.known, v.picture[q])
  BY <1>1, <1>4, <1>6, <1>8 DEF PairRight
<1> QED BY <1>1, <1>5, <1>9, GreetTasks, SameWorld DEF Agreed, PairRight

\* The newcomer is about to be shown to the one greeted.
LEMMA GreetShown ==
    ASSUME StateOK, NEW q \in players, Greeted(q), NEW c, c = Top.c, Agreed(q, c)
    PROVE  Agreed(q, c)'
<1> PICK T, U : T = Tasks /\ U = Tasks'
  OBVIOUS
<1> PICK eye, here, shown : eye = pos[q] /\ here = pos[c] /\ shown = picture[q][c]
  OBVIOUS
<1>1. q # c /\ q \in Player /\ c \in Player
  BY GreetTasks
<1>2. known'[q] = known[q] /\ picture'[q] = picture[q]
  <2>1. CASE c \notin players
    BY <2>1 DEF Greeted
  <2>2. CASE c \in players
    <3> PICK v : v = Added(Client(c), q, pos[q])
      OBVIOUS
    <3> PICK x : x = IF CanSee(pos[c], pos[q]) THEN v.picture ELSE picture[c]
      OBVIOUS
    <3>1. known' = [known EXCEPT ![c] = v.known] /\ picture' = [picture EXCEPT ![c] = x]
      BY <2>2 DEF Greeted
    <3> QED BY <1>1, <3>1, OthersKeep DEF StateOK
  <2> QED BY <2>1, <2>2
<1>3. CASE c \in Present
  <2>1. PairRight(T, q, c, eye, here, MaySee(q, c), c \in known[q], shown)
    BY <1>1, <1>3 DEF Agreed
  <2>2. Unshown(T, q, c) /\ Unshown(U, q, c)
    <3>1. Unshown(T, q, c)
      BY GreetTasks DEF Unshown
    <3>2. Unshown(U, q, c)
      BY GreetTasks DEF Unshown
    <3> QED BY <3>1, <3>2
  <2>3. ~ Awaited(U, q, c)
    BY <1>1, GreetTasks DEF Awaited
  <2>4. PairRight(U, q, c, eye, here, MaySee(q, c), c \in known[q], shown)
    BY <2>1, <2>2, <2>3 DEF PairRight
  <2> QED BY <1>1, <1>2, <1>3, <2>4, GreetTasks, SameWorld DEF Agreed, PairRight
<1>4. CASE c \notin Present
  <2>1. shown = Nowhere
    <3>1. \A t \in T : ~ Fades(t, q, c, eye, shown)
      BY GreetTasks DEF Fades, Looks, Strides, Journeys
    <3> QED BY <1>1, <1>4, <3>1 DEF Agreed, FadedOut
  <2> QED BY <1>1, <1>2, <1>4, <2>1, GreetTasks, SameWorld DEF Agreed, FadedOut
<1> QED BY <1>3, <1>4

LEMMA GreetPairs ==
    ASSUME StateOK, PairsRight, Greet
    PROVE  PairsRight'
<1>1. PICK q \in players : Greeted(q)
  BY GreetIs
<1> PICK c : c = Top.c
  OBVIOUS
<1>2. c \in Creature /\ q \in Creature /\ q # c /\ world' = world /\ blurred' = blurred
  BY <1>1, GreetTasks DEF Creature
<1>3. ASSUME NEW p \in players, NEW d \in Creature, <<p, d>> \notin blurred PROVE Agreed(p, d)'
  <2>1. Agreed(p, d)
    BY <1>3 DEF PairsRight
  <2>2. CASE p = c /\ d = q
    <3>1. Agreed(c, q) /\ c \in players
      BY <2>1, <2>2, <1>3
    <3>2. Agreed(c, q)'
      BY <1>1, <3>1, GreetMet
    <3> QED BY <2>2, <3>2
  <2>3. CASE p = q /\ d = c
    <3>1. Agreed(q, c)
      BY <2>1, <2>3
    <3>2. Agreed(q, c)'
      BY <1>1, <3>1, GreetShown
    <3> QED BY <2>3, <3>2
  <2>4. CASE ~ (p = c /\ d = q) /\ ~ (p = q /\ d = c)
    BY <1>1, <2>1, <2>4, GreetFar
  <2> QED BY <2>2, <2>3, <2>4
<1> QED BY <1>2, <1>3, SameWorld DEF PairsRight

(***************************************************************************)
(* When nothing is left to do.                                             *)
(***************************************************************************)
Settled(p, d) ==
    IF d = p THEN picture[p][p] = pos[p]
    ELSE IF d \in Present THEN Fair(p, pos[p], d, d \in known[p], picture[p][d])
    ELSE picture[p][d] = Nowhere

LEMMA EmptyParts ==
    ASSUME NEW p, NEW d, NEW x, NEW y
    PROVE  /\ Viewpoints({}, p, x) = {x} /\ Whereabouts({}, p, d, x) = {x}
           /\ ~ Unshown({}, p, d) /\ ~ Awaited({}, p, d) /\ ~ Arriving({}, p)
           /\ FadedOut({}, p, d, x, y) <=> y = Nowhere
BY DEF Viewpoints, Whereabouts, Unshown, Awaited, Arriving, FadedOut

LEMMA NothingLeft ==
    ASSUME Tasks = {}, NEW p, NEW d
    PROVE  Agreed(p, d) <=> Settled(p, d)
<1> PICK T, eye, here, shown : T = Tasks /\ eye = pos[p] /\ here = pos[d] /\ shown = picture[p][d]
  OBVIOUS
<1>1. /\ Viewpoints(T, p, eye) = {eye} /\ Whereabouts(T, p, d, here) = {here}
      /\ ~ Unshown(T, p, d) /\ ~ Awaited(T, p, d) /\ ~ Arriving(T, p)
      /\ FadedOut(T, p, d, eye, shown) <=> shown = Nowhere
  BY DEF Viewpoints, Whereabouts, Unshown, Awaited, Arriving, FadedOut
<1>2. CASE d = p
  <2>1. Agreed(p, d) <=> SelfRight(T, p, eye, shown)
    BY <1>2 DEF Agreed
  <2>2. SelfRight(T, p, eye, shown) <=> shown = eye
    BY <1>1 DEF SelfRight
  <2> QED BY <1>2, <2>1, <2>2 DEF Settled
<1>3. CASE d # p /\ d \in Present
  <2>1. Agreed(p, d) <=> PairRight(T, p, d, eye, here, MaySee(p, d), d \in known[p], shown)
    BY <1>3 DEF Agreed
  <2>2. PairRight(T, p, d, eye, here, MaySee(p, d), d \in known[p], shown)
        <=> Fair(p, eye, d, d \in known[p], shown)
    BY <1>1 DEF PairRight, Fair
  <2> QED BY <1>3, <2>1, <2>2 DEF Settled
<1>4. CASE d # p /\ d \notin Present
  BY <1>1, <1>4 DEF Agreed, Settled
<1> QED BY <1>2, <1>3, <1>4

LEMMA NothingLeftNext ==
    ASSUME Tasks' = {}, NEW p, NEW d, Settled(p, d)'
    PROVE  Agreed(p, d)'
<1> PICK T, eye, here, shown :
        T = Tasks' /\ eye = pos'[p] /\ here = pos'[d] /\ shown = picture'[p][d]
  OBVIOUS
<1>1. /\ Viewpoints(T, p, eye) = {eye} /\ Whereabouts(T, p, d, here) = {here}
      /\ ~ Unshown(T, p, d) /\ ~ Awaited(T, p, d) /\ ~ Arriving(T, p)
      /\ FadedOut(T, p, d, eye, shown) <=> shown = Nowhere
  BY EmptyParts, SMTT(30)
<1>2. CASE d = p
  BY <1>1, <1>2 DEF Agreed, Settled, SelfRight
<1>3. CASE d # p /\ d \in Present'
  <2>1. /\ d \in known'[p] <=> shown # Nowhere
        /\ shown = IF CanSee(eye, here) /\ MaySee(p, d)' THEN here ELSE Nowhere
    BY <1>3 DEF Settled, Fair
  <2>2. PairRight(T, p, d, eye, here, MaySee(p, d)', d \in known'[p], shown)
    BY <1>1, <2>1 DEF PairRight
  <2> QED BY <1>3, <2>2 DEF Agreed, PairRight
<1>4. CASE d # p /\ d \notin Present'
  BY <1>1, <1>4 DEF Agreed, Settled
<1> QED BY <1>2, <1>3, <1>4

\* The last task of a handler.
LEMMA LastTask ==
    ASSUME StateOK, Doing({"arrive", "finishStep", "finishJump"})
    PROVE  /\ Below = {} /\ Tasks = {Top} /\ TaskRight(Top) /\ Top.c \in Player
           /\ Top.c \in Creature /\ Top.to \in Position /\ Top.from \in Position
           /\ Top.c \in Present => pos[Top.c] = Top.to
<1>1. /\ Tasks = {Top} \union Below /\ TaskRight(Top)
      /\ Top.do \in {"arrive", "finishStep", "finishJump"}
      /\ \A u \in Below : Above(Present, Top, u)
  BY TopGood DEF StateOK, Doing, Below
<1>2. Below = {}
  <2>1. \A u \in Below : FALSE
    BY <1>1 DEF Above, Before
  <2> QED BY <2>1
<1> QED BY <1>1, <1>2 DEF TaskRight, Creature

(***************************************************************************)
(* The newcomer gets its first map.                                        *)
(***************************************************************************)
LEMMA ArrivePairs ==
    ASSUME StateOK, PairsRight, Arrive
    PROVE  PairsRight'
<1> PICK c, placed : c = Top.c /\ placed = MonstersVisibleFrom(Top.to) \union NpcsVisibleFrom(Top.to)
  OBVIOUS
<1>1. /\ Tasks' = {} /\ Tasks = {Top} /\ Top.do = "arrive" /\ c \in Player /\ c \in Creature
      /\ world' = world /\ blurred' = blurred /\ Top.to \in Position
      /\ c \in Present => pos[c] = Top.to
  BY ArriveState, LastTask DEF Arrive, Doing
<1>2. ASSUME NEW p \in players, NEW d \in Creature, p # c, <<p, d>> \notin blurred PROVE Agreed(p, d)'
  <2>1. p \in Player /\ Agreed(p, d)
    BY <1>2 DEF StateOK, WorldOK, PairsRight
  <2>2. known'[p] = known[p] /\ picture'[p] = picture[p]
    <3>1. CASE c \notin players
      BY <3>1 DEF Arrive
    <3>2. CASE c \in players
      <4> PICK x : x = [d2 \in Creature |-> IF d2 \in placed \union {c} THEN pos[d2] ELSE picture[c][d2]]
        OBVIOUS
      <4>1. /\ known' = [known EXCEPT ![c] = known[c] \union placed]
            /\ picture' = [picture EXCEPT ![c] = x]
        BY <3>2 DEF Arrive
      <4> QED BY <1>1, <1>2, <2>1, <4>1, OthersKeep DEF StateOK
    <3> QED BY <3>1, <3>2
  <2>3. ~ Relevant(Top, p, d)
    BY <1>1, <1>2 DEF Relevant, Looks, Strides
  <2>4. Matched(Tasks, Tasks', p, d) /\ Matched(Tasks', Tasks, p, d)
    BY <1>1, <2>3 DEF Matched
  <2> QED BY <1>1, <2>1, <2>2, <2>4, SameAgreed, SameWorld
<1>3. ASSUME c \in players, NEW d \in Creature, <<c, d>> \notin blurred PROVE Settled(c, d)'
  <2>1. known'[c] = known[c] \union placed
    BY <1>1, <1>3 DEF Arrive, StateOK, ClientsOK
  <2>2. picture'[c][d] = IF d \in placed \union {c} THEN pos[d] ELSE picture[c][d]
    BY <1>1, <1>3 DEF Arrive, StateOK, ClientsOK
  <2>3. /\ c \in Present /\ pos[c] = Top.to /\ Nowhere \notin Position
        /\ d \in placed <=> d \in Present \ Player /\ CanSee(Top.to, pos[d])
    BY <1>1, <1>3, PresenceAssumption
       DEF Present, MonstersVisibleFrom, NpcsVisibleFrom, StateOK, WorldOK
  <2>4. Agreed(c, d)
    BY <1>3 DEF PairsRight
  <2>5. CASE d = c
    BY <1>1, <2>2, <2>5, SameWorld DEF Settled
  <2>6. CASE d # c /\ d \in Present
    <3>1. PairRight(Tasks, c, d, pos[c], pos[d], MaySee(c, d), d \in known[c], picture[c][d])
      BY <2>4, <2>6 DEF Agreed
    <3>2. Unshown(Tasks, c, d) <=> d \notin Player
      BY <1>1, <2>6 DEF Unshown
    <3>3. Viewpoints(Tasks, c, pos[c]) = {pos[c]} /\ Whereabouts(Tasks, c, d, pos[d]) = {pos[d]}
      BY <1>1, <2>6 DEF Viewpoints, Whereabouts, Due, Journeys, Looks
    <3>4. d \notin Player => MaySee(c, d)
      BY DEF MaySee, StateOK, WorldOK
    <3>5. pos[d] # Nowhere
      BY <2>6 DEF StateOK, WorldOK
    <3>6. Fair(c, pos[c], d, d \in known'[c], picture'[c][d])
      <4>1. CASE d \in Player
        BY <2>1, <2>2, <2>3, <2>6, <3>1, <3>2, <3>3, <4>1 DEF Fair, PairRight
      <4>2. CASE d \notin Player
        BY <2>1, <2>2, <2>3, <2>6, <3>1, <3>2, <3>4, <3>5, <4>2 DEF Fair, PairRight
      <4> QED BY <4>1, <4>2
    <3> QED BY <1>1, <2>6, <3>6, SameWorld DEF Settled, Fair
  <2>7. CASE d # c /\ d \notin Present
    <3>1. picture[c][d] = Nowhere
      BY <1>1, <2>4, <2>7 DEF Agreed, FadedOut, Fades, Looks, Strides, Journeys
    <3> QED BY <1>1, <2>2, <2>3, <2>7, <3>1, SameWorld DEF Settled
  <2> QED BY <2>5, <2>6, <2>7
<1>4. ASSUME c \in players, NEW d \in Creature, <<c, d>> \notin blurred PROVE Agreed(c, d)'
  BY <1>1, <1>3, <1>4, NothingLeftNext
<1>5. players' = players
  BY <1>1, SameWorld
<1>6. ASSUME NEW p \in players', NEW d \in Creature, <<p, d>> \notin blurred' PROVE Agreed(p, d)'
  BY <1>1, <1>2, <1>4, <1>5, <1>6
<1> QED BY <1>6 DEF PairsRight

(***************************************************************************)
(* The mover gets its step, or its jump.                                   *)
(***************************************************************************)
LEMMA MapPairs ==
    ASSUME StateOK, PairsRight, Doing({"finishStep", "finishJump"}), Top.c \in players,
           NEW w \in View, NEW F, NewMap(w, F), world' = world, Tasks' = {},
           blurred \subseteq blurred', \A d \in F : <<Top.c, d>> \in blurred'
    PROVE  PairsRight'
<1> PICK c : c = Top.c
  OBVIOUS
<1>1. /\ Tasks = {Top} /\ Top.do \in {"finishStep", "finishJump"} /\ c \in Player /\ c \in Creature
      /\ c \in players /\ c \in Present /\ pos[c] = Top.to /\ Top.to \in Position
      /\ Top.from \in Position /\ Nowhere \notin Position
  BY LastTask, PresenceAssumption DEF Doing, Present
<1>2. known' = [known EXCEPT ![c] = w.known] /\ picture' = [picture EXCEPT ![c] = w.picture]
  BY DEF NewMap
<1>3. known'[c] = w.known /\ picture'[c] = w.picture
  <2>1. known \in [Player -> SUBSET Creature]
        /\ picture \in [Player -> [Creature -> Position \union {Nowhere}]]
    BY DEF StateOK, ClientsOK
  <2> QED BY <1>1, <1>2, <2>1
<1>4. ASSUME NEW p \in players, NEW d \in Creature, p # c, <<p, d>> \notin blurred PROVE Agreed(p, d)'
  <2>1. p \in Player /\ Agreed(p, d)
    BY <1>4 DEF StateOK, WorldOK, PairsRight
  <2>2. known'[p] = known[p] /\ picture'[p] = picture[p]
    BY <1>1, <1>2, <1>4, <2>1, OthersKeep DEF StateOK
  <2>3. ~ Relevant(Top, p, d)
    BY <1>1, <1>4 DEF Relevant, Looks, Strides
  <2>4. Matched(Tasks, Tasks', p, d) /\ Matched(Tasks', Tasks, p, d)
    BY <1>1, <2>3 DEF Matched
  <2> QED BY <1>1, <2>1, <2>2, <2>4, SameAgreed, SameWorld
<1>5. ASSUME NEW d \in Creature, <<c, d>> \notin blurred, d \notin F PROVE Settled(c, d)'
  <2>1. Agreed(c, d)
    BY <1>1, <1>5 DEF PairsRight
  <2>2. Viewpoints(Tasks, c, pos[c]) = {Top.from}
    BY <1>1 DEF Viewpoints, Journeys
  <2>3. CASE d = c
    <3>1. ~ Arriving(Tasks, c)
      BY <1>1 DEF Arriving
    <3>2. picture[c][c] = Top.from
      BY <2>1, <2>2, <2>3, <3>1 DEF Agreed, SelfRight
    <3>3. w.picture[c] = Top.to
      BY <1>1, <3>2 DEF NewMap
    <3> QED BY <1>1, <1>3, <2>3, <3>3, SameWorld DEF Settled
  <2>4. CASE d # c /\ d \in Present
    <3>1. PairRight(Tasks, c, d, pos[c], pos[d], MaySee(c, d), d \in known[c], picture[c][d])
      BY <2>1, <2>4 DEF Agreed
    <3>2. ~ Unshown(Tasks, c, d) /\ Whereabouts(Tasks, c, d, pos[d]) = {pos[d]}
      BY <1>1, <2>4 DEF Unshown, Whereabouts, Due, Looks, Strides
    <3>3. Fair(c, Top.from, d, d \in known[c], picture[c][d])
      BY <2>2, <3>1, <3>2 DEF Fair, PairRight
    <3>4. Fair(c, Top.to, d, d \in w.known, w.picture[d])
      BY <1>5, <2>4, <3>3 DEF NewMap
    <3> QED BY <1>1, <1>3, <2>4, <3>4, SameWorld DEF Settled, Fair
  <2>5. CASE d # c /\ d \notin Present
    <3>1. picture[c][d] = Nowhere \/ ~ CanSee(Top.to, picture[c][d])
      BY <1>1, <2>1, <2>5 DEF Agreed, FadedOut, Fades, Looks, Strides
    <3>2. w.picture[d] = Nowhere
      BY <2>5, <3>1 DEF NewMap
    <3> QED BY <1>3, <2>5, <3>2, SameWorld DEF Settled
  <2> QED BY <2>3, <2>4, <2>5
<1>6. ASSUME NEW d \in Creature, <<c, d>> \notin blurred, d \notin F PROVE Agreed(c, d)'
  BY <1>5, <1>6, NothingLeftNext
<1>7. players' = players
  BY SameWorld
<1>8. ASSUME NEW p \in players', NEW d \in Creature, <<p, d>> \notin blurred' PROVE Agreed(p, d)'
  <2>1. <<p, d>> \notin blurred /\ p \in players /\ (p = c => d \notin F)
    BY <1>7, <1>8
  <2> QED BY <1>4, <1>6, <2>1
<1> QED BY <1>8 DEF PairsRight

LEMMA FinishPairs ==
    ASSUME StateOK, PairsRight, FinishStep \/ FinishJump
    PROVE  PairsRight'
<1>1. /\ Tasks' = {} /\ world' = world /\ Top.c \in players /\ Doing({"finishStep", "finishJump"})
  BY FinishState, LastTask DEF FinishStep, FinishJump, Doing
<1>2. CASE FinishStep
  <2>1. PICK w \in View : NewMap(w, {})
    BY <1>2, FinishStepMap
  <2>2. blurred' = blurred
    BY <1>2 DEF FinishStep
  <2> QED BY <1>1, <2>1, <2>2, MapPairs
<1>3. CASE FinishJump
  <2>0. PICK F : F = Unforgotten
    OBVIOUS
  <2>1. PICK w \in View : NewMap(w, F)
    BY <1>3, <2>0, FinishJumpMap
  <2>2. blurred' = blurred \union {<<Top.c, m>> : m \in F}
    BY <1>3, <2>0 DEF FinishJump, Unforgotten
  <2> QED BY <1>1, <2>1, <2>2, MapPairs
<1> QED BY <1>2, <1>3

(***************************************************************************)
(* A handler starts.                                                       *)
(***************************************************************************)
LEMMA IdlePairs ==
    ASSUME StateOK, PairsRight, Idle, NEW p \in players, NEW d \in Creature, <<p, d>> \notin blurred
    PROVE  Settled(p, d) /\ Tasks = {} /\ Agreed(p, d)
<1>1. Tasks = {} /\ Agreed(p, d)
  BY IdleIs DEF PairsRight
<1> QED BY <1>1, NothingLeft

LEMMA QuietPairs ==
    ASSUME StateOK, PairsRight, NEW c \in Player, Notify(c) \/ Turn(c) \/ Speed(c)
    PROVE  PairsRight'
<1>1. Idle /\ UNCHANGED <<world, known, picture, blurred>>
  BY DEF Notify, Turn, Speed
<1>2. ASSUME NEW p \in players, NEW d \in Creature, <<p, d>> \notin blurred PROVE Agreed(p, d)'
  <2>1. Tasks = {} /\ Agreed(p, d)
    BY <1>1, <1>2, IdlePairs
  <2>2. \A t \in Tasks' : ~ Relevant(t, p, d)
    BY QuietState DEF Relevant, Looks, Strides, Journeys
  <2>3. Matched(Tasks, Tasks', p, d) /\ Matched(Tasks', Tasks, p, d)
    BY <2>1, <2>2 DEF Matched
  <2> QED BY <1>1, <2>1, <2>3, SameAgreed, SameWorld
<1> QED BY <1>1, <1>2, SameWorld DEF PairsRight

LEMMA GhostOnPairs ==
    ASSUME StateOK, PairsRight, NEW c \in Player, GhostOn(c)
    PROVE  PairsRight'
<1>1. /\ Idle /\ UNCHANGED <<players, monsters, pos, known, picture>> /\ ghost' = ghost \union {c}
      /\ blurred' = blurred \union {<<p, c>> : p \in players \ GM} /\ Present' = Present
  BY DEF GhostOn, Present
<1>2. ASSUME NEW p \in players, NEW d \in Creature, <<p, d>> \notin blurred, p \in GM \/ d # c
      PROVE  Agreed(p, d)'
  <2>1. Tasks = {} /\ Agreed(p, d)
    BY <1>1, <1>2, IdlePairs
  <2>2. \A t \in Tasks' : t.do \in {"poke", "spotDress", "spotHide"}
    BY GhostState DEF GhostOn, GhostOff
  <2>3. Matched(Tasks, Tasks', p, d) /\ Matched(Tasks', Tasks, p, d)
    BY <2>1, <2>2 DEF Matched, Relevant, Looks, Strides, Journeys
  <2>4. MaySee(p, d)' <=> MaySee(p, d)
    BY <1>1, <1>2 DEF MaySee
  <2> QED BY <1>1, <2>1, <2>3, <2>4, SameAgreed
<1> QED BY <1>1, <1>2 DEF PairsRight

LEMMA GhostOffPairs ==
    ASSUME StateOK, PairsRight, NEW c \in Player, GhostOff(c)
    PROVE  PairsRight'
<1> PICK U : U = Tasks'
  OBVIOUS
<1>1. /\ Idle /\ UNCHANGED <<players, monsters, pos, known, picture, blurred>> /\ Present' = Present
      /\ ghost' = ghost \ {c} /\ c \in ghost /\ c \in Present
  BY DEF GhostOff, Present
<1>2. /\ \A t \in U : t.c = c /\ t.do \in {"poke", "spotDress", "spotShow"}
      /\ \E t \in U : t.c = c /\ t.do = "spotShow"
  BY <1>1, GhostState DEF GhostOn, GhostOff
<1>3. ASSUME NEW p \in players, NEW d \in Creature, <<p, d>> \notin blurred PROVE Agreed(p, d)'
  <2> PICK eye, here, shown : eye = pos[p] /\ here = pos[d] /\ shown = picture[p][d]
    OBVIOUS
  <2>1. Tasks = {} /\ Agreed(p, d) /\ Settled(p, d)
    BY <1>1, <1>3, IdlePairs
  <2>2. CASE d # c
    <3>1. Matched(Tasks, Tasks', p, d) /\ Matched(Tasks', Tasks, p, d)
      BY <1>2, <2>1, <2>2 DEF Matched, Relevant, Looks, Strides, Journeys
    <3>2. MaySee(p, d)' <=> MaySee(p, d)
      BY <1>1, <2>2 DEF MaySee
    <3> QED BY <1>1, <2>1, <3>1, <3>2, SameAgreed
  <2>3. Viewpoints(U, p, eye) = {eye} /\ Whereabouts(U, p, d, here) = {here}
        /\ ~ Awaited(U, p, d)
    <3>1. \A u \in U : ~ (u.do \in Journeys /\ u.c = p)
      BY <1>2 DEF Looks, Journeys
    <3>2. \A u \in U : ~ Due(u, p, d)
      BY <1>2 DEF Looks, Strides, Due
    <3>3. ~ Awaited(U, p, d)
      BY <1>2 DEF Awaited
    <3> QED BY <3>1, <3>2, <3>3 DEF Viewpoints, Whereabouts
  <2>4. CASE d = c /\ p = c
    BY <1>1, <2>1, <2>3, <2>4 DEF Settled, Agreed, SelfRight
  <2>5. CASE d = c /\ p # c
    <3>1. /\ c \in known[p] <=> shown # Nowhere
          /\ shown = IF CanSee(eye, here) /\ p \in GM THEN here ELSE Nowhere
      BY <1>1, <2>1, <2>5 DEF Settled, Fair, MaySee
    <3>2. Unshown(U, p, d) <=> p \notin GM
      BY <1>2, <2>5 DEF Unshown
    <3>3. PairRight(U, p, d, eye, here, TRUE, d \in known[p], shown)
      BY <2>3, <2>5, <3>1, <3>2 DEF PairRight
    <3>4. MaySee(p, d)'
      BY <1>1, <2>5 DEF MaySee
    <3> QED BY <1>1, <2>5, <3>3, <3>4 DEF Agreed, PairRight
  <2> QED BY <2>2, <2>4, <2>5
<1> QED BY <1>1, <1>3 DEF PairsRight

LEMMA MovePairs ==
    ASSUME StateOK, PairsRight, NEW c \in Player, NEW to \in Position, Walk(c, to) \/ Teleport(c, to)
    PROVE  PairsRight'
<1> PICK U, from : U = Tasks' /\ from = pos[c]
  OBVIOUS
<1>1. /\ Idle /\ UNCHANGED <<players, monsters, ghost, known, picture, blurred>> /\ Present' = Present
      /\ c \in Present /\ pos'[c] = to /\ \A d \in Creature \ {c} : pos'[d] = pos[d]
  BY MoveState DEF Walk, Teleport, Present
<1>2. /\ \A u \in U : u.c = c /\ (u.do = "poke" \/ (u.do \in Looks /\ u.from = from))
      /\ \E u \in U : u.c = c /\ u.do \in Looks /\ u.from = from
  <2>1. PICK do \in Looks : LET t == Task(do, c, from, to, {}) IN t \in U /\ U \subseteq {Poke(c), t}
    BY MoveState
  <2>2. PICK t : t = Task(do, c, from, to, {})
    OBVIOUS
  <2>3. t.do = do /\ t.c = c /\ t.from = from /\ Poke(c).do = "poke" /\ Poke(c).c = c
    BY <2>2 DEF Task, Poke, Spot
  <2>4. t \in U /\ \A u \in U : u = t \/ u = Poke(c)
    BY <2>1, <2>2
  <2> QED BY <2>3, <2>4
<1>3. /\ \A p, d : ~ Unshown(U, p, d) /\ ~ Awaited(U, p, d) /\ ~ Arriving(U, p)
      /\ \A x : Viewpoints(U, c, x) = {from}
      /\ \A p, x : p # c => Viewpoints(U, p, x) = {x}
      /\ \A p, x : Whereabouts(U, p, c, x) = {from}
      /\ \A p, d, x : d # c => Whereabouts(U, p, d, x) = {x}
  BY <1>2 DEF Unshown, Awaited, Arriving, Viewpoints, Whereabouts, Due, Looks, Strides, Journeys
<1>4. ASSUME NEW p \in players, NEW d \in Creature, <<p, d>> \notin blurred PROVE Agreed(p, d)'
  <2> PICK eye, here, shown : eye = pos[p] /\ here = pos[d] /\ shown = picture[p][d]
    OBVIOUS
  <2>1. Settled(p, d) /\ p \in Creature
    BY <1>1, <1>4, IdlePairs DEF StateOK, WorldOK, Creature
  <2>2. MaySee(p, d)' <=> MaySee(p, d)
    BY <1>1 DEF MaySee
  <2>3. Viewpoints(U, p, pos'[p]) = {eye} /\ Whereabouts(U, p, d, pos'[d]) = {here}
    BY <1>1, <1>3, <2>1
  <2>4. CASE d = p
    BY <1>1, <2>1, <2>3, <2>4 DEF Settled, Agreed, SelfRight
  <2>5. CASE d # p /\ d \in Present
    <3> PICK eye2, here2 : eye2 = pos'[p] /\ here2 = pos'[d]
      OBVIOUS
    <3>1. /\ d \in known[p] <=> shown # Nowhere
          /\ shown = IF CanSee(eye, here) /\ MaySee(p, d) THEN here ELSE Nowhere
      BY <2>1, <2>5 DEF Settled, Fair
    <3>2. PairRight(U, p, d, eye2, here2, MaySee(p, d), d \in known[p], shown)
      BY <1>3, <2>3, <3>1 DEF PairRight
    <3> QED BY <1>1, <2>2, <2>5, <3>2 DEF Agreed, PairRight
  <2>6. CASE d # p /\ d \notin Present
    BY <1>1, <2>1, <2>6 DEF Settled, Agreed, FadedOut
  <2> QED BY <2>4, <2>5, <2>6
<1> QED BY <1>1, <1>4 DEF PairsRight

LEMMA MonsterWalkPairs ==
    ASSUME StateOK, PairsRight, NEW m \in Monster, NEW to \in Position, MonsterWalk(m, to)
    PROVE  PairsRight'
<1> PICK U, from, W : U = Tasks' /\ from = pos[m] /\ W = Watching(m, from, to)
  OBVIOUS
<1>1. /\ Idle /\ UNCHANGED <<players, monsters, ghost, known, picture, blurred>> /\ Present' = Present
      /\ m \in Present /\ pos'[m] = to /\ \A d \in Creature \ {m} : pos'[d] = pos[d]
  BY MonsterWalkState DEF MonsterWalk, Present
<1>2. /\ \A u \in U : u.do = "step" /\ u.c = m /\ u.from = from /\ u.todo = W
      /\ W # {} => \E u \in U : TRUE
  <2>1. PICK t : t = Task("step", m, from, to, W)
    OBVIOUS
  <2>2. t.do = "step" /\ t.c = m /\ t.from = from /\ t.todo = W
    BY <2>1 DEF Task
  <2>3. U = {u \in {t} : u.todo # {}}
    BY <2>1, MonsterWalkState
  <2> QED BY <2>2, <2>3
<1>3. ASSUME NEW p \in players, NEW d \in Creature, <<p, d>> \notin blurred PROVE Agreed(p, d)'
  <2>1. Settled(p, d) /\ Tasks = {} /\ Agreed(p, d) /\ p \in Creature /\ p # m
    BY <1>1, <1>3, IdlePairs, PresenceAssumption DEF StateOK, WorldOK, Creature
  <2>2. MaySee(p, d)' <=> MaySee(p, d)
    BY <1>1 DEF MaySee
  <2>3. CASE d # m
    <3>1. Matched(Tasks, U, p, d) /\ Matched(U, Tasks, p, d)
      BY <1>2, <2>1, <2>3 DEF Matched, Relevant, Looks, Strides, Journeys
    <3> QED BY <1>1, <2>1, <2>2, <2>3, <3>1, SameAgreed
  <2>4. CASE d = m
    <3> PICK eye, shown : eye = pos[p] /\ shown = picture[p][d]
      OBVIOUS
    <3>1. /\ d \in known[p] <=> shown # Nowhere
          /\ shown = IF CanSee(eye, from) /\ MaySee(p, d) THEN from ELSE Nowhere
      BY <1>1, <2>1, <2>4 DEF Settled, Fair
    <3>2. Viewpoints(U, p, eye) = {eye} /\ ~ Unshown(U, p, d) /\ ~ Awaited(U, p, d)
      BY <1>2 DEF Viewpoints, Unshown, Awaited, Journeys, Looks
    <3>3. Whereabouts(U, p, d, to) = {IF p \in W THEN from ELSE to}
      BY <1>2, <2>4 DEF Whereabouts, Due, Looks, Strides
    <3>4. p \in W <=> (CanSee(eye, from) \/ CanSee(eye, to)) /\ MaySee(p, d)
      BY <2>1, <2>4 DEF Watching
    <3>5. PairRight(U, p, d, eye, to, MaySee(p, d), d \in known[p], shown)
      BY <3>1, <3>2, <3>3, <3>4 DEF PairRight
    <3> QED BY <1>1, <2>1, <2>2, <2>4, <3>5 DEF Agreed, PairRight
  <2> QED BY <2>3, <2>4
<1> QED BY <1>1, <1>3 DEF PairsRight

LEMMA SpawnPairs ==
    ASSUME StateOK, PairsRight, NEW m \in Monster, NEW at \in Position, Spawn(m, at)
    PROVE  PairsRight'
<1> PICK U, W : U = Tasks' /\ W = Watching(m, at, at)
  OBVIOUS
<1>1. /\ Idle /\ UNCHANGED <<players, ghost, known, picture>> /\ Present' = Present \union {m}
      /\ m \notin ghost /\ pos'[m] = at /\ \A d \in Creature \ {m} : pos'[d] = pos[d]
      /\ blurred' = {b \in blurred : b[2] # m} /\ Unheard(m)
  BY SpawnState DEF Spawn
<1>2. /\ \A u \in U : u.do = "appear" /\ u.c = m /\ u.todo = W
      /\ W # {} => \E u \in U : TRUE
  <2>1. PICK t : t = Task("appear", m, at, at, W)
    OBVIOUS
  <2>2. t.do = "appear" /\ t.c = m /\ t.todo = W
    BY <2>1 DEF Task
  <2>3. U = {u \in {t} : u.todo # {}}
    BY <2>1, SpawnState
  <2> QED BY <2>2, <2>3
<1>3. ASSUME NEW p \in players, NEW d \in Creature, <<p, d>> \notin blurred' PROVE Agreed(p, d)'
  <2>1. p \in Creature /\ p # m
    BY PresenceAssumption DEF StateOK, WorldOK, Creature
  <2>2. CASE d # m
    <3>1. Tasks = {} /\ Agreed(p, d)
      BY <1>1, <1>3, <2>2, IdlePairs
    <3>2. Matched(Tasks, U, p, d) /\ Matched(U, Tasks, p, d)
      BY <1>2, <2>2, <3>1 DEF Matched, Relevant, Looks, Strides, Journeys
    <3>3. MaySee(p, d)' <=> MaySee(p, d)
      BY <1>1 DEF MaySee
    <3>4. d \in Present' <=> d \in Present
      BY <1>1, <2>2
    <3> QED BY <1>1, <2>1, <2>2, <3>1, <3>2, <3>3, <3>4, SameAgreed
  <2>3. CASE d = m
    <3> PICK eye : eye = pos[p]
      OBVIOUS
    <3>1. d \notin known[p] /\ picture[p][d] = Nowhere /\ MaySee(p, d) /\ MaySee(p, d)'
      BY <1>1, <2>3 DEF Unheard, MaySee
    <3>2. Viewpoints(U, p, eye) = {eye} /\ ~ Awaited(U, p, d) /\ Whereabouts(U, p, d, at) = {at}
      BY <1>2 DEF Viewpoints, Whereabouts, Due, Awaited, Journeys, Looks, Strides
    <3>3. Unshown(U, p, d) <=> p \in W
      BY <1>2, <2>1, <2>3 DEF Unshown
    <3>4. p \in W <=> CanSee(eye, at)
      BY <2>1, <2>3, <3>1 DEF Watching
    <3>5. PairRight(U, p, d, eye, at, TRUE, FALSE, Nowhere)
      BY <3>2, <3>3, <3>4 DEF PairRight
    <3> QED BY <1>1, <2>1, <2>3, <3>1, <3>5 DEF Agreed, PairRight
  <2> QED BY <2>2, <2>3
<1> QED BY <1>1, <1>3 DEF PairsRight

LEMMA DiePairs ==
    ASSUME StateOK, PairsRight, NEW c \in Player \union Monster, Die(c)
    PROVE  PairsRight'
<1> PICK U, at, W : U = Tasks' /\ at = pos[c] /\ W = Watching(c, at, at)
  OBVIOUS
<1>1. Idle /\ UNCHANGED <<world, known, picture, blurred>> /\ c \in Present
  BY DieState DEF Die
<1>2. /\ \A u \in U : u.c = c /\ (u.do = "drop" \/ (u.do = "gone" /\ u.todo = W))
      /\ W # {} => \E u \in U : u.do = "gone"
      /\ \E u \in U : u.do = "drop"
  <2>1. PICK t, v : t = Task("gone", c, at, at, W) /\ v = Spot("drop", c, at)
    OBVIOUS
  <2>2. t.do = "gone" /\ t.c = c /\ t.todo = W /\ v.do = "drop" /\ v.c = c
    BY <2>1 DEF Task, Spot
  <2>3. U = {v} \union {u \in {t} : u.todo # {}}
    BY <2>1, DieState
  <2> QED BY <2>2, <2>3
<1>3. ASSUME NEW p \in players, NEW d \in Creature, <<p, d>> \notin blurred PROVE Agreed(p, d)'
  <2>1. Settled(p, d) /\ Tasks = {} /\ Agreed(p, d)
    BY <1>1, <1>3, IdlePairs
  <2>2. CASE d # c
    <3>1. Matched(Tasks, U, p, d) /\ Matched(U, Tasks, p, d)
      BY <1>2, <2>1, <2>2 DEF Matched, Relevant, Looks, Strides, Journeys
    <3> QED BY <1>1, <2>1, <2>2, <3>1, SameAgreed, SameWorld
  <2> PICK eye, shown : eye = pos[p] /\ shown = picture[p][d]
    OBVIOUS
  <2>3. Viewpoints(U, p, eye) = {eye} /\ ~ Awaited(U, p, d) /\ Whereabouts(U, p, d, at) = {at}
    BY <1>2 DEF Viewpoints, Whereabouts, Due, Awaited, Journeys, Looks, Strides
  <2>4. CASE d = c /\ p = c
    BY <1>1, <2>1, <2>3, <2>4, SameWorld DEF Settled, Agreed, SelfRight
  <2>5. CASE d = c /\ p # c
    <3>1. /\ d \in known[p] <=> shown # Nowhere
          /\ shown = IF CanSee(eye, at) /\ MaySee(p, d) THEN at ELSE Nowhere
      BY <1>1, <2>1, <2>5 DEF Settled, Fair
    <3>2. Unshown(U, p, d) <=> p \notin W
      BY <1>2, <2>5 DEF Unshown
    <3>3. p \in W <=> CanSee(eye, at) /\ MaySee(p, d)
      BY <2>5 DEF Watching
    <3>4. PairRight(U, p, d, eye, at, MaySee(p, d), d \in known[p], shown)
      BY <2>3, <3>1, <3>2, <3>3 DEF PairRight
    <3> QED BY <1>1, <2>5, <3>4, SameWorld DEF Agreed, PairRight
  <2> QED BY <2>2, <2>4, <2>5
<1> QED BY <1>1, <1>3, SameWorld DEF PairsRight

LEMMA LoginPairs ==
    ASSUME StateOK, PairsRight, NEW c \in Player, NEW at \in Position, Login(c, at)
    PROVE  PairsRight'
<1> PICK U, W : U = Tasks' /\ W = Others(at)
  OBVIOUS
<1>1. /\ Idle /\ players' = players \union {c} /\ c \notin players /\ Unheard(c)
      /\ UNCHANGED <<monsters, ghost, known, picture>> /\ Present' = Present \union {c}
      /\ c \notin ghost /\ pos'[c] = at /\ \A d \in Creature \ {c} : pos'[d] = pos[d]
      /\ blurred' = {b \in blurred : b[2] # c} \union
             {<<c, p>> : p \in {q \in players : \/ (q \in W) # CanSee(at, pos[q])
                                                \/ q \in W \intersect ghost /\ c \notin GM}}
  BY LoginState DEF Login, Others
<1>2. /\ \A u \in U : u.c = c /\ (u.do = "arrive" \/ (u.do = "greet" /\ u.todo = W))
      /\ W # {} => \E u \in U : u.do = "greet"
      /\ \E u \in U : u.do = "arrive"
  <2>1. PICK t, v : t = Task("greet", c, at, at, W) /\ v = Spot("arrive", c, at)
    OBVIOUS
  <2>2. t.do = "greet" /\ t.c = c /\ t.todo = W /\ v.do = "arrive" /\ v.c = c
    BY <2>1 DEF Task, Spot
  <2>3. U = {v} \union {u \in {t} : u.todo # {}}
    BY <2>1, LoginState
  <2> QED BY <2>2, <2>3
<1>3. \A p, d, x : Viewpoints(U, p, x) = {x} /\ Whereabouts(U, p, d, x) = {x}
  BY <1>2 DEF Viewpoints, Whereabouts, Due, Journeys, Looks, Strides
<1>4. c \in Creature /\ players \subseteq Creature /\ W \subseteq players
  BY DEF StateOK, WorldOK, Creature, Others
<1>5. ASSUME NEW p \in players, NEW d \in Creature, d # c, <<p, d>> \notin blurred' PROVE Agreed(p, d)'
  <2>1. <<p, d>> \notin blurred /\ p # c
    BY <1>1, <1>5
  <2>2. Tasks = {} /\ Agreed(p, d)
    BY <1>1, <2>1, IdlePairs
  <2>3. Matched(Tasks, U, p, d) /\ Matched(U, Tasks, p, d)
    BY <1>2, <1>5, <2>1, <2>2 DEF Matched, Relevant, Looks, Strides, Journeys
  <2>4. MaySee(p, d)' <=> MaySee(p, d)
    BY <1>1 DEF MaySee
  <2>5. d \in Present' <=> d \in Present
    BY <1>1, <1>5
  <2> QED BY <1>1, <1>4, <1>5, <2>1, <2>2, <2>3, <2>4, <2>5, SameAgreed
<1>6. ASSUME NEW p \in players PROVE Agreed(p, c)'
  <2> PICK eye : eye = pos[p]
    OBVIOUS
  <2>1. p # c /\ pos'[p] = eye /\ c \notin known[p] /\ picture[p][c] = Nowhere /\ MaySee(p, c)'
    BY <1>1, <1>4 DEF Unheard, MaySee
  <2>2. Unshown(U, p, c) <=> p \in W
    BY <1>2, <2>1 DEF Unshown
  <2>3. p \in W <=> CanSee(eye, at)
    BY DEF Others
  <2>4. ~ Awaited(U, p, c)
    BY <1>2, <2>1 DEF Awaited
  <2>5. PairRight(U, p, c, eye, at, TRUE, FALSE, Nowhere)
    BY <1>3, <2>2, <2>3, <2>4 DEF PairRight
  <2> QED BY <1>1, <2>1, <2>5 DEF Agreed, PairRight
<1>7. ASSUME NEW d \in Creature, <<c, d>> \notin blurred' PROVE Agreed(c, d)'
  <2>1. known'[c] = {} /\ picture'[c][d] = Nowhere
    BY <1>1 DEF StateOK, ClientsOK, NoPicture
  <2>2. CASE d = c
    BY <1>2, <2>2 DEF Agreed, SelfRight, Arriving
  <2>3. CASE d # c /\ d \in Present'
    <3> PICK here : here = pos[d]
      OBVIOUS
    <3>1. here = pos'[d] /\ (MaySee(c, d)' <=> MaySee(c, d))
      BY <1>1, <2>3 DEF MaySee
    <3>2. Unshown(U, c, d) <=> (d \in Player => d \in W)
      BY <1>2, <2>3 DEF Unshown
    <3>3. Awaited(U, c, d) <=> d \in W
      BY <1>2 DEF Awaited
    <3>4. d \in players => (d \in W <=> CanSee(at, here)) /\ (d \in W => MaySee(c, d))
      BY <1>1, <1>7 DEF MaySee
    <3>5. d \in Player => d \in players
      BY <1>1, <2>3, PresenceAssumption DEF Present, StateOK, WorldOK
    <3>6. PairRight(U, c, d, at, here, MaySee(c, d), FALSE, Nowhere)
      BY <1>3, <1>4, <3>2, <3>3, <3>4, <3>5 DEF PairRight
    <3> QED BY <1>1, <2>1, <2>3, <3>1, <3>6 DEF Agreed, PairRight
  <2>4. CASE d # c /\ d \notin Present'
    BY <2>1, <2>4 DEF Agreed, FadedOut
  <2> QED BY <2>2, <2>3, <2>4
<1>8. ASSUME NEW p \in players', NEW d \in Creature, <<p, d>> \notin blurred' PROVE Agreed(p, d)'
  <2>1. CASE p = c
    BY <1>7, <1>8, <2>1
  <2>2. CASE p \in players /\ d = c
    BY <1>6, <2>2
  <2>3. CASE p \in players /\ d # c
    BY <1>5, <1>8, <2>3
  <2> QED BY <1>1, <2>1, <2>2, <2>3
<1> QED BY <1>8 DEF PairsRight

(***************************************************************************)
(* The theorems.                                                           *)
(***************************************************************************)
Inv == StateOK /\ PairsRight /\ strays \subseteq {"gone"}

LEMMA InitInv == Init => Inv
<1> SUFFICES ASSUME Init PROVE Inv
  OBVIOUS
<1>1. players = {} /\ strays = {}
  BY DEF Init
<1> QED BY <1>1, InitState DEF Inv, PairsRight

\* A handler starts.
LEMMA HandleInv == Inv /\ Handle => Inv'
<1> SUFFICES ASSUME Inv, Handle PROVE Inv'
  OBVIOUS
<1> USE DEF Inv
<1>1. ASSUME NEW c \in Player, NEW at \in Position, Login(c, at) PROVE Inv'
  <2>1. strays' = strays
    BY <1>1 DEF Login
  <2> QED BY <1>1, <2>1, LoginState, LoginPairs
<1>2. ASSUME NEW c \in Player, NEW at \in Position, Walk(c, at) \/ Teleport(c, at) PROVE Inv'
  <2>1. strays' = strays
    BY <1>2 DEF Walk, Teleport
  <2> QED BY <1>2, <2>1, MoveState, MovePairs
<1>3. ASSUME NEW c \in Player, Logout(c) PROVE Inv'
  <2>1. strays' = strays
    BY <1>3 DEF Logout, Leave
  <2> QED BY <1>3, <2>1, LogoutState, LogoutPairs
<1>4. ASSUME NEW c \in Player, Notify(c) \/ Turn(c) \/ Speed(c) PROVE Inv'
  <2>1. strays' = strays
    BY <1>4 DEF Notify, Turn, Speed
  <2> QED BY <1>4, <2>1, QuietState, QuietPairs
<1>5. ASSUME NEW c \in Player, GhostOn(c) \/ GhostOff(c) PROVE Inv'
  <2>1. strays' = strays
    BY <1>5 DEF GhostOn, GhostOff
  <2> QED BY <1>5, <2>1, GhostState, GhostOnPairs, GhostOffPairs
<1>6. ASSUME NEW m \in Monster, NEW at \in Position, Spawn(m, at) PROVE Inv'
  <2>1. strays' = strays
    BY <1>6 DEF Spawn
  <2> QED BY <1>6, <2>1, SpawnState, SpawnPairs
<1>7. ASSUME NEW m \in Monster, NEW at \in Position, MonsterWalk(m, at) PROVE Inv'
  <2>1. strays' = strays
    BY <1>7 DEF MonsterWalk
  <2> QED BY <1>7, <2>1, MonsterWalkState, MonsterWalkPairs
<1>8. ASSUME NEW c \in Player \union Monster, Die(c) PROVE Inv'
  <2>1. strays' = strays
    BY <1>8 DEF Die
  <2> QED BY <1>8, <2>1, DieState, DiePairs
<1> QED BY <1>1, <1>2, <1>3, <1>4, <1>5, <1>6, <1>7, <1>8 DEF Handle

\* The rest of a handler.
LEMMA ContinueInv == Inv /\ Continue => Inv'
<1> SUFFICES ASSUME Inv, Continue PROVE Inv'
  OBVIOUS
<1> USE DEF Inv
<1>1. CASE Look
  <2>1. strays' = strays
    BY <1>1 DEF Look
  <2> QED BY <1>1, <2>1, LookState, LookPairs
<1>2. CASE Serve
  <2>1. PICK q \in Top.todo \intersect players : Served(q)
    BY <1>2 DEF Serve, Served
  <2>2. StateOK'
    BY <2>1, ServedIs
  <2>3. PairsRight' /\ (StraysAreOfTheGone => StraysAreOfTheGone')
    BY <1>2, ServePairs
  <2>4. strays' \subseteq {"gone"} \union {"present"}
    BY <2>1 DEF Served
  <2> QED BY <2>2, <2>3, <2>4 DEF StraysAreOfTheGone
<1>3. CASE Skip
  <2>1. PICK q \in Top.todo \ players : stack' = Without(q)
    BY <1>3 DEF Skip
  <2>2. Doing(Loops \union {"greet"}) /\ UNCHANGED <<world, known, picture, blurred, strays>>
    BY <1>3 DEF Skip
  <2>3. Top \in TaskSet
    BY <2>2, TopGood DEF StateOK, Doing
  <2>4. q \in Player
    BY <2>1, <2>3 DEF TaskSet
  <2>5. StateOK'
    BY <2>1, <2>2, <2>4, SkipState
  <2> QED BY <1>3, <2>2, <2>5, SkipPairs
<1>4. CASE ReapSpectator
  <2>1. PICK q \in Top.todo \intersect players : Leave(q, Without(q))
    BY <1>4 DEF ReapSpectator
  <2>2. StateOK' /\ strays' = strays
    BY <1>4, <2>1, ReapState DEF ReapSpectator
  <2> QED BY <1>4, <2>2, ReapSpectatorPairs
<1>5. CASE ReapSelf
  BY <1>5, ReapSelfState, ReapSelfPairs
<1>6. CASE SkipSelf \/ Poked
  <2>1. strays' = strays
    BY <1>6 DEF SkipSelf, Poked
  <2> QED BY <1>6, <2>1, PopState, PopPairs
<1>7. CASE Greet
  <2>1. PICK q \in players : Greeted(q)
    BY <1>7, GreetIs
  <2>2. strays' = strays
    BY <1>7 DEF Greet
  <2> QED BY <1>7, <2>1, <2>2, GreetState, GreetPairs
<1>8. CASE Arrive
  <2>1. strays' = strays
    BY <1>8 DEF Arrive
  <2> QED BY <1>8, <2>1, ArriveState, ArrivePairs
<1>9. CASE FinishStep \/ FinishJump
  <2>1. strays' = strays
    BY <1>9 DEF FinishStep, FinishJump
  <2> QED BY <1>9, <2>1, FinishState, FinishPairs
<1>10. CASE RenewSelf
  <2>1. strays' = strays
    BY <1>10 DEF RenewSelf
  <2> QED BY <1>10, <2>1, RenewSelfState, RenewSelfPairs
<1>11. CASE Drop
  BY <1>11, DropState, DropPairs
<1> QED BY <1>1, <1>2, <1>3, <1>4, <1>5, <1>6, <1>7, <1>8, <1>9, <1>10, <1>11 DEF Continue

LEMMA StutterInv == Inv /\ UNCHANGED vars => Inv'
<1> SUFFICES ASSUME Inv, UNCHANGED vars PROVE Inv'
  OBVIOUS
<1>1. /\ world' = world /\ players' = players /\ monsters' = monsters /\ pos' = pos /\ ghost' = ghost
      /\ known' = known /\ picture' = picture /\ stack' = stack /\ blurred' = blurred
      /\ strays' = strays
  BY DEF vars, world
<1>2. WorldOK' /\ ClientsOK' /\ HistoryOK'
  BY <1>1, SameClients, SameHistory DEF Inv
<1>3. StackOK'
  <2>1. StackGood(stack)
    BY DEF Inv, StateOK, StackOK
  <2> QED BY <1>1, <2>1, SameWorldStack
<1>4. Tasks' = Tasks
  BY <1>1 DEF Tasks
<1>5. ASSUME NEW p \in players, NEW d \in Creature, <<p, d>> \notin blurred PROVE Agreed(p, d)'
  <2>1. Agreed(p, d)
    BY <1>5 DEF Inv, PairsRight
  <2>2. Matched(Tasks, Tasks', p, d) /\ Matched(Tasks', Tasks, p, d)
    BY <1>4 DEF Matched, Like
  <2> QED BY <1>1, <2>1, <2>2, SameAgreed, SameWorld
<1> QED BY <1>1, <1>2, <1>3, <1>5 DEF Inv, StateOK, PairsRight

THEOREM Invariant == Spec => []Inv
<1>1. Inv /\ [Next]_vars => Inv'
  BY HandleInv, ContinueInv, StutterInv DEF Next
<1> QED BY InitInv, <1>1, PTL DEF Spec

\* Creatures in the world have a place and others none; only players in the
\* world have a client; and what is left of a handler is about known creatures.
THEOREM TypeCorrect == Spec => []TypeOK
<1>1. Inv => TypeOK
  <2> SUFFICES ASSUME Inv PROVE TypeOK
    OBVIOUS
  <2>1. stack \in Seq(TaskSet)
    BY DEF Inv, StateOK, StackOK, StackGood
  <2>2. DOMAIN stack = 1..Len(stack) /\ \A i \in DOMAIN stack : stack[i] \in TaskSet
    BY <2>1
  <2>3. \A t \in TaskSet : TaskOK(t)
    BY DEF TaskSet, TaskOK
  <2>4. strays \subseteq {"present", "gone"}
    BY DEF Inv
  <2> QED BY <2>2, <2>3, <2>4 DEF Inv, StateOK, WorldOK, ClientsOK, HistoryOK, TypeOK
<1> QED BY Invariant, <1>1, PTL

\* Whenever the actor is idle, each client shows just the creatures it should,
\* where they are.
THEOREM PicturesCorrect == Spec => []PicturesRight
<1>1. Inv => PicturesRight
  <2> SUFFICES ASSUME Inv, Idle, NEW p \in players, NEW d \in Creature, <<p, d>> \notin blurred
               PROVE  picture[p][d] = IF Sees(p, d) THEN pos[d] ELSE Nowhere
    BY DEF PicturesRight
  <2>1. Settled(p, d)
    BY IdlePairs DEF Inv
  <2>2. p \in Present /\ pos[p] \in Position
    BY DEF Inv, StateOK, WorldOK, Present, Creature
  <2>3. CASE d = p
    <3>1. CanSee(pos[p], pos[p])
      BY <2>2, SeesItself
    <3>2. d \in ghost => p \in GM \union {d}
      BY <2>3
    <3> QED BY <2>1, <2>2, <2>3, <3>1, <3>2 DEF Settled, Sees
  <2>4. CASE d # p /\ d \in Present
    BY <2>1, <2>4 DEF Settled, Fair, Sees, MaySee
  <2>5. CASE d # p /\ d \notin Present
    BY <2>1, <2>5 DEF Settled, Sees
  <2> QED BY <2>3, <2>4, <2>5
<1> QED BY Invariant, <1>1, PTL

\* Whenever the actor is idle, it holds a creature for known to a client if and
\* only if that client shows it.
THEOREM BeliefsCorrect == Spec => []BeliefsRight
<1>1. Inv => BeliefsRight
  <2> SUFFICES ASSUME Inv, Idle, NEW p \in players, NEW d \in Present \ {p}, <<p, d>> \notin blurred
               PROVE  d \in known[p] <=> picture[p][d] # Nowhere
    BY DEF BeliefsRight
  <2>1. d \in Creature
    BY DEF Inv, StateOK, WorldOK, Present, Creature
  <2>2. Settled(p, d)
    BY <2>1, IdlePairs DEF Inv
  <2> QED BY <2>2 DEF Settled, Fair
<1> QED BY Invariant, <1>1, PTL

\* In the middle of a handler too, a packet that moves or turns a creature in the
\* world reaches only clients that have that creature.
THEOREM StraysCorrect == Spec => []StraysAreOfTheGone
<1>1. Inv => StraysAreOfTheGone
  BY DEF Inv, StraysAreOfTheGone
<1> QED BY Invariant, <1>1, PTL

=============================================================================
