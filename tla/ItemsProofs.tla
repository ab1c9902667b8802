----------------------------- MODULE ItemsProofs -----------------------------
(***************************************************************************)
(* Types and windows of Items, for any players, tiles, kinds and boxes.    *)
(*                                                                         *)
(* The invariant joins the two: a player is Good when it has the types of  *)
(* one and the windows it has open on the ground are near.  Its boxes change *)
(* in two ways: entries that Sit keep their source, room and at most their *)
(* being open (closing trees, pops, pushes, nested boxes that move up), and *)
(* one entry is set anew (Rekey, Toggles, Destination).  The first never   *)
(* opens a window, the second is looked at where it happens.               *)
(*                                                                         *)
(* Stacks, boxes and saves are counted in ItemsLedger; the sums it counts  *)
(* with come first here, because what is made is counted already.          *)
(***************************************************************************)
EXTENDS Items, FiniteSetTheorems, SequenceTheorems, NaturalsInduction,
        WellFoundedInduction, TLAPS

(***************************************************************************)
(* Sums of functions into the naturals, as the sizes of finite sets.       *)
(***************************************************************************)
LEMMA LeastOf ==
    ASSUME NEW S, S \subseteq Nat, S # {}
    PROVE  \E m \in S : \A k \in S : m <= k
<1>1. PICK m \in S : \A k \in S : ~ (<<k, m>> \in OpToRel(<, Nat))
  <2>1. \E m \in S : \A k \in S : ~ (<<k, m>> \in OpToRel(<, Nat))
    BY WFMin, NatLessThanWellFounded
  <2> QED BY <2>1
<1>2. ASSUME NEW k \in S PROVE m <= k
  <2>1. k \in Nat /\ m \in Nat
    OBVIOUS
  <2>2. k < m => <<k, m>> \in OpToRel(<, Nat)
    BY <2>1 DEF OpToRel
  <2>3. ~ (k < m)
    BY <1>1, <2>2
  <2> QED BY <2>1, <2>3
<1> QED BY <1>2

Tally(f) == IsFiniteSet(DOMAIN f) /\ f \in [DOMAIN f -> Nat]
GrainsOn(f, s) == {u \in s \X (Nat \ {0}) : u[2] <= f[u[1]]}
Grains(f) == GrainsOn(f, DOMAIN f)

LEMMA NoneNatural == ASSUME NEW n \in Nat PROVE Cardinality(1..n) = n /\ IsFiniteSet(1..n)
<1>1. IsFiniteSet(1..n) /\ Cardinality(1..n) = IF 1 > n THEN 0 ELSE n - 1 + 1
  BY FS_Interval
<1> QED BY <1>1

\* One point of a tally stands for as many grains as it counts.
LEMMA GrainsOfOne ==
    ASSUME NEW f, NEW x, f[x] \in Nat
    PROVE  /\ IsFiniteSet(GrainsOn(f, {x}))
           /\ Cardinality(GrainsOn(f, {x})) = f[x]
<1> DEFINE h == [n \in 1..f[x] |-> <<x, n>>]
<1>1. h \in Bijection(1..f[x], GrainsOn(f, {x}))
  <2>1. \A n \in 1..f[x] : <<x, n>> \in GrainsOn(f, {x})
    BY DEF GrainsOn
  <2>2. ASSUME NEW u \in GrainsOn(f, {x}) PROVE \E n \in 1..f[x] : h[n] = u
    <3>1. u = <<x, u[2]>> /\ u[2] \in Nat \ {0} /\ u[2] <= f[x]
      BY <2>2 DEF GrainsOn
    <3>2. u[2] \in 1..f[x]
      BY <3>1
    <3> QED BY <3>1, <3>2
  <2>3. \A m, n \in 1..f[x] : h[m] = h[n] => m = n
    OBVIOUS
  <2>4. h \in [1..f[x] -> GrainsOn(f, {x})]
    BY <2>1
  <2> QED BY <2>2, <2>3, <2>4 DEF Bijection, Injection, Surjection, IsInjective
<1>2. ExistsBijection(1..f[x], GrainsOn(f, {x}))
  BY <1>1 DEF ExistsBijection
<1> QED BY <1>2, FS_Bijection, NoneNatural

LEMMA GrainsSplit ==
    ASSUME NEW f, NEW A, NEW B, A \intersect B = {},
           IsFiniteSet(GrainsOn(f, A)), IsFiniteSet(GrainsOn(f, B))
    PROVE  /\ IsFiniteSet(GrainsOn(f, A \union B))
           /\ Cardinality(GrainsOn(f, A \union B))
                = Cardinality(GrainsOn(f, A)) + Cardinality(GrainsOn(f, B))
<1>1. GrainsOn(f, A \union B) = GrainsOn(f, A) \union GrainsOn(f, B)
  BY DEF GrainsOn
<1>2. GrainsOn(f, A) \intersect GrainsOn(f, B) = {}
  BY DEF GrainsOn
<1>3. Cardinality(GrainsOn(f, A)) \in Nat /\ Cardinality(GrainsOn(f, B)) \in Nat
  BY FS_CardinalityType
<1>4. Cardinality(GrainsOn(f, A) \intersect GrainsOn(f, B)) = 0
  BY <1>2, FS_EmptySet
<1> DEFINE P == GrainsOn(f, A)
           Q == GrainsOn(f, B)
<1>5. IsFiniteSet(P \union Q) /\ Cardinality(P \union Q) = Cardinality(P) + Cardinality(Q) - 0
  <2>1. Cardinality(P \intersect Q) = 0 /\ IsFiniteSet(P) /\ IsFiniteSet(Q)
    BY <1>4
  <2> HIDE DEF P, Q
  <2> QED BY <2>1, FS_Union
<1>6. Cardinality(P) \in Nat /\ Cardinality(Q) \in Nat
  BY <1>3
<1>7. GrainsOn(f, A \union B) = P \union Q
  BY <1>1
<1> HIDE DEF P, Q
<1>8. Cardinality(P) + Cardinality(Q) - 0 = Cardinality(P) + Cardinality(Q)
  BY <1>6
<1>9. /\ IsFiniteSet(GrainsOn(f, A \union B))
      /\ Cardinality(GrainsOn(f, A \union B)) = Cardinality(P) + Cardinality(Q)
  BY <1>5, <1>7, <1>8
<1> QED BY <1>9 DEF P, Q

\* A tally has finitely many grains on every part of its domain.
LEMMA GrainsFinite ==
    ASSUME NEW f, Tally(f), NEW s \in SUBSET (DOMAIN f)
    PROVE  IsFiniteSet(GrainsOn(f, s))
<1> DEFINE D == DOMAIN f
           Bad == {Cardinality(t) : t \in {r \in SUBSET D : ~IsFiniteSet(GrainsOn(f, r))}}
<1>1. \A t \in SUBSET D : IsFiniteSet(t) /\ Cardinality(t) \in Nat
  BY FS_Subset, FS_CardinalityType DEF Tally
<1>2. SUFFICES ASSUME Bad # {} PROVE FALSE
  OBVIOUS
<1>3. Bad \subseteq Nat
  BY <1>1
<1>4. PICK m \in Bad : \A k \in Bad : m <= k
  BY <1>2, <1>3, LeastOf
<1>5. PICK t \in SUBSET D : ~IsFiniteSet(GrainsOn(f, t)) /\ Cardinality(t) = m
  BY <1>4
<1>6. t # {}
  <2>1. GrainsOn(f, {}) = {}
    BY DEF GrainsOn
  <2> QED BY <2>1, <1>5, FS_EmptySet
<1>7. PICK x \in t : TRUE
  BY <1>6
<1>8. Cardinality(t \ {x}) = m - 1 /\ t \ {x} \in SUBSET D
  BY <1>1, <1>5, <1>7, FS_RemoveElement
<1>9. IsFiniteSet(GrainsOn(f, t \ {x}))
  <2>1. m \in Nat
    BY <1>3
  <2>2. m - 1 \notin Bad
    BY <2>1, <1>4
  <2> QED BY <1>8, <2>2
<1>10. IsFiniteSet(GrainsOn(f, {x}))
  <2>1. f[x] \in Nat
    BY <1>7 DEF Tally
  <2> QED BY <2>1, GrainsOfOne
<1>11. t = (t \ {x}) \union {x} /\ (t \ {x}) \intersect {x} = {}
  BY <1>7
<1> QED BY <1>5, <1>9, <1>10, <1>11, GrainsSplit

\* The equation that the library's sum of a function solves.
Adds(f, S, g) ==
    g = [s \in SUBSET S |-> IF s = {} THEN 0
            ELSE LET x == CHOOSE y \in s : TRUE IN f[x] + g[s \ {x}]]

LEMMA SumUnfolds ==
    ASSUME NEW f
    PROVE  SumFunction(f) = (CHOOSE g : Adds(f, DOMAIN f, g))[DOMAIN f]
<1>. DEFINE S == DOMAIN f
<1>1. SumFunction(f) = SumFunctionOnSet(f, S)
  BY DEF SumFunction
<1>2. SumFunctionOnSet(f, S) = (CHOOSE g : Adds(f, S, g))[S]
  BY DEF SumFunctionOnSet, FoldFunctionOnSet, MapThenFoldSet, Adds
<1>. QED BY <1>1, <1>2

LEMMA GrainsAdd ==
    ASSUME NEW f, Tally(f), NEW s \in SUBSET (DOMAIN f), NEW x \in s
    PROVE  /\ Cardinality(GrainsOn(f, s)) = f[x] + Cardinality(GrainsOn(f, s \ {x}))
           /\ Cardinality(GrainsOn(f, s \ {x})) \in Nat /\ f[x] \in Nat
<1>1. f[x] \in Nat
  BY DEF Tally
<1>2. IsFiniteSet(GrainsOn(f, s \ {x})) /\ IsFiniteSet(GrainsOn(f, {x}))
  BY <1>1, GrainsFinite, GrainsOfOne
<1>3. s = {x} \union (s \ {x}) /\ {x} \intersect (s \ {x}) = {}
  OBVIOUS
<1> QED BY <1>1, <1>2, <1>3, GrainsOfOne, GrainsSplit, FS_CardinalityType

LEMMA GrainsSolve ==
    ASSUME NEW f, Tally(f)
    PROVE  Adds(f, DOMAIN f, [s \in SUBSET (DOMAIN f) |-> Cardinality(GrainsOn(f, s))])
<1> DEFINE D == DOMAIN f
           g == [s \in SUBSET D |-> Cardinality(GrainsOn(f, s))]
           h == [s \in SUBSET D |-> IF s = {} THEN 0
                    ELSE LET x == CHOOSE y \in s : TRUE IN f[x] + g[s \ {x}]]
<1>1. ASSUME NEW s \in SUBSET D PROVE g[s] = h[s]
  <2>1. CASE s = {}
    <3>1. GrainsOn(f, {}) = {}
      BY DEF GrainsOn
    <3> QED BY <2>1, <3>1, FS_EmptySet
  <2>2. CASE s # {}
    <3> DEFINE x == CHOOSE y \in s : TRUE
    <3>1. x \in s
      BY <2>2
    <3>2. g[s] = f[x] + g[s \ {x}]
      <4>1. s \ {x} \in SUBSET D
        OBVIOUS
      <4>2. Cardinality(GrainsOn(f, s)) = f[x] + Cardinality(GrainsOn(f, s \ {x}))
        <5> HIDE DEF x
        <5> QED BY <3>1, GrainsAdd
      <4> QED BY <4>1, <4>2
    <3> QED BY <2>2, <3>2
  <2> QED BY <2>1, <2>2
<1>2. g = h
  BY <1>1
<1> QED BY <1>2 DEF Adds

LEMMA AddsOnce ==
    ASSUME NEW f, Tally(f), NEW g, Adds(f, DOMAIN f, g), NEW s \in SUBSET (DOMAIN f)
    PROVE  g[s] = Cardinality(GrainsOn(f, s))
<1> DEFINE D == DOMAIN f
           Bad == {Cardinality(t) : t \in {r \in SUBSET D : g[r] # Cardinality(GrainsOn(f, r))}}
<1>1. \A t \in SUBSET D : IsFiniteSet(t) /\ Cardinality(t) \in Nat
  BY FS_Subset, FS_CardinalityType DEF Tally
<1>2. SUFFICES ASSUME Bad # {} PROVE FALSE
  OBVIOUS
<1>3. Bad \subseteq Nat
  BY <1>1
<1>4. PICK m \in Bad : \A k \in Bad : m <= k
  BY <1>2, <1>3, LeastOf
<1>5. PICK t \in SUBSET D : g[t] # Cardinality(GrainsOn(f, t)) /\ Cardinality(t) = m
  BY <1>4
<1>6. t # {}
  <2>1. GrainsOn(f, {}) = {}
    BY DEF GrainsOn
  <2>2. g[{}] = 0
    BY DEF Adds
  <2> QED BY <2>1, <2>2, <1>5, FS_EmptySet
<1> DEFINE x == CHOOSE y \in t : TRUE
<1>7. x \in t
  BY <1>6
<1>8. Cardinality(t \ {x}) = m - 1 /\ t \ {x} \in SUBSET D
  BY <1>1, <1>5, <1>7, FS_RemoveElement
<1>9. g[t \ {x}] = Cardinality(GrainsOn(f, t \ {x}))
  <2>1. m \in Nat
    BY <1>3
  <2>2. m - 1 \notin Bad
    BY <2>1, <1>4
  <2> QED BY <1>8, <2>2
<1>10. g[t] = f[x] + g[t \ {x}]
  BY <1>6 DEF Adds
<1>11. Cardinality(GrainsOn(f, t)) = f[x] + Cardinality(GrainsOn(f, t \ {x}))
  <2> HIDE DEF x, Bad
  <2> QED BY <1>7, GrainsAdd
<1> QED BY <1>5, <1>9, <1>10, <1>11

\* A sum is the number of grains.
LEMMA SumIs ==
    ASSUME NEW f, Tally(f)
    PROVE  /\ SumFunction(f) = Cardinality(Grains(f))
           /\ SumFunction(f) \in Nat
           /\ IsFiniteSet(Grains(f))
<1> DEFINE g == CHOOSE e : Adds(f, DOMAIN f, e)
<1>1. Adds(f, DOMAIN f, g)
  BY GrainsSolve
<1>2. g[DOMAIN f] = Cardinality(GrainsOn(f, DOMAIN f))
  <2> HIDE DEF g
  <2> QED BY <1>1, AddsOnce
<1>3. IsFiniteSet(GrainsOn(f, DOMAIN f))
  BY GrainsFinite
<1> QED BY <1>2, <1>3, SumUnfolds, FS_CardinalityType DEF Grains

LEMMA SumEmpty == ASSUME NEW f, Tally(f), DOMAIN f = {} PROVE SumFunction(f) = 0
<1>1. Grains(f) = {}
  BY DEF Grains, GrainsOn
<1> QED BY <1>1, SumIs, FS_EmptySet

\* A sum does not decrease when its terms move, apart, to places that hold more.
LEMMA SumInject ==
    ASSUME NEW f, Tally(f), NEW g, Tally(g), NEW h \in [DOMAIN f -> DOMAIN g],
           \A x, y \in DOMAIN f : h[x] = h[y] => x = y,
           \A x \in DOMAIN f : f[x] <= g[h[x]]
    PROVE  SumFunction(f) <= SumFunction(g)
<1> DEFINE move == [u \in Grains(f) |-> <<h[u[1]], u[2]>>]
<1>1. \A u \in Grains(f) : u = <<u[1], u[2]>> /\ u[1] \in DOMAIN f /\ u[2] \in Nat \ {0} /\ u[2] <= f[u[1]]
  BY DEF Grains, GrainsOn
<1>2. \A x \in DOMAIN f : f[x] \in Nat /\ h[x] \in DOMAIN g /\ g[h[x]] \in Nat
  BY DEF Tally
<1>3. ASSUME NEW u \in Grains(f) PROVE move[u] \in Grains(g)
  <2>1. u[2] <= g[h[u[1]]]
    BY <1>1, <1>2
  <2>2. <<h[u[1]], u[2]>> \in (DOMAIN g) \X (Nat \ {0})
    BY <1>1, <1>2
  <2> QED BY <2>1, <2>2 DEF Grains, GrainsOn
<1>4. ASSUME NEW u \in Grains(f), NEW v \in Grains(f), move[u] = move[v] PROVE u = v
  <2>1. h[u[1]] = h[v[1]] /\ u[2] = v[2]
    BY <1>4
  <2> QED BY <1>1, <2>1
<1>5. move \in Injection(Grains(f), Grains(g))
  BY <1>3, <1>4 DEF Injection, IsInjective
<1>6. Cardinality(Grains(f)) <= Cardinality(Grains(g))
  <2> HIDE DEF move
  <2> QED BY <1>5, SumIs, FS_Injection
<1> QED BY <1>6, SumIs

\* A sum stays as it is when its terms move one to one.
LEMMA SumBiject ==
    ASSUME NEW f, Tally(f), NEW g, Tally(g), NEW h \in [DOMAIN f -> DOMAIN g],
           \A x, y \in DOMAIN f : h[x] = h[y] => x = y,
           \A y \in DOMAIN g : \E x \in DOMAIN f : h[x] = y,
           \A x \in DOMAIN f : f[x] = g[h[x]]
    PROVE  SumFunction(f) = SumFunction(g)
<1> DEFINE back == [y \in DOMAIN g |-> CHOOSE x \in DOMAIN f : h[x] = y]
<1>1. \A y \in DOMAIN g : back[y] \in DOMAIN f /\ h[back[y]] = y
  OBVIOUS
<1>2. \A x \in DOMAIN f : f[x] \in Nat
  BY DEF Tally
<1>3. \A y \in DOMAIN g : g[y] \in Nat
  BY DEF Tally
<1>4. SumFunction(f) <= SumFunction(g)
  <2>1. \A x \in DOMAIN f : f[x] <= g[h[x]]
    BY <1>2
  <2> QED BY <2>1, SumInject
<1>5. SumFunction(g) <= SumFunction(f)
  <2>1. back \in [DOMAIN g -> DOMAIN f]
    BY <1>1
  <2>2. \A x, y \in DOMAIN g : back[x] = back[y] => x = y
    BY <1>1
  <2>3. \A y \in DOMAIN g : g[y] <= f[back[y]]
    BY <1>1, <1>3
  <2> HIDE DEF back
  <2> QED BY <2>1, <2>2, <2>3, SumInject
<1> QED BY <1>4, <1>5, SumIs

LEMMA SumOrder ==
    ASSUME NEW f, Tally(f), NEW g, Tally(g), DOMAIN f \subseteq DOMAIN g,
           \A x \in DOMAIN f : f[x] <= g[x]
    PROVE  SumFunction(f) <= SumFunction(g)
<1> DEFINE h == [x \in DOMAIN f |-> x]
<1>1. h \in [DOMAIN f -> DOMAIN g]
  OBVIOUS
<1>2. \A x, y \in DOMAIN f : h[x] = h[y] => x = y
  OBVIOUS
<1>3. \A x \in DOMAIN f : f[x] <= g[h[x]]
  OBVIOUS
<1> HIDE DEF h
<1> QED BY <1>1, <1>2, <1>3, SumInject

LEMMA SumPart ==
    ASSUME NEW f, Tally(f), NEW A \in SUBSET (DOMAIN f)
    PROVE  /\ Tally([x \in A |-> f[x]])
           /\ SumFunction([x \in A |-> f[x]]) = Cardinality(GrainsOn(f, A))
<1> DEFINE g == [x \in A |-> f[x]]
<1>1. Tally(g)
  BY FS_Subset DEF Tally
<1>2. Grains(g) = GrainsOn(f, A)
  BY DEF Grains, GrainsOn
<1> QED BY <1>1, <1>2, SumIs

LEMMA SumSplit ==
    ASSUME NEW f, Tally(f), NEW A, NEW B, A \intersect B = {}, A \union B = DOMAIN f
    PROVE  SumFunction(f) = SumFunction([x \in A |-> f[x]]) + SumFunction([x \in B |-> f[x]])
<1>1. A \in SUBSET (DOMAIN f) /\ B \in SUBSET (DOMAIN f)
  OBVIOUS
<1>2. IsFiniteSet(GrainsOn(f, A)) /\ IsFiniteSet(GrainsOn(f, B))
  BY <1>1, GrainsFinite
<1>3. Cardinality(GrainsOn(f, A \union B)) = Cardinality(GrainsOn(f, A)) + Cardinality(GrainsOn(f, B))
  BY <1>2, GrainsSplit
<1> QED BY <1>1, <1>3, SumPart, SumIs DEF Grains

LEMMA SumOne ==
    ASSUME NEW f, NEW x, DOMAIN f = {x}, f[x] \in Nat, f = [y \in {x} |-> f[y]]
    PROVE  Tally(f) /\ SumFunction(f) = f[x]
<1>1. Tally(f)
  <2>1. f \in [{x} -> Nat]
    OBVIOUS
  <2> QED BY <2>1, FS_Singleton DEF Tally
<1> QED BY <1>1, SumIs, GrainsOfOne DEF Grains

\* Two tallies that differ at one point.
LEMMA SumPoint ==
    ASSUME NEW f, Tally(f), NEW g, Tally(g), DOMAIN g = DOMAIN f, NEW x \in DOMAIN f,
           \A y \in DOMAIN f \ {x} : f[y] = g[y]
    PROVE  SumFunction(f) + g[x] = SumFunction(g) + f[x]
<1> DEFINE D == DOMAIN f \ {x}
           rest == SumFunction([y \in D |-> f[y]])
<1>1. f[x] \in Nat /\ g[x] \in Nat
  BY DEF Tally
<1>2. {x} \intersect D = {} /\ {x} \union D = DOMAIN f /\ {x} \union D = DOMAIN g
  OBVIOUS
<1>3. [y \in D |-> f[y]] = [y \in D |-> g[y]]
  OBVIOUS
<1>4. SumFunction([y \in {x} |-> f[y]]) = f[x]
  <2> DEFINE s == [y \in {x} |-> f[y]]
  <2>1. DOMAIN s = {x} /\ s[x] = f[x] /\ s = [y \in {x} |-> s[y]]
    OBVIOUS
  <2> HIDE DEF s
  <2>2. SumFunction(s) = f[x]
    BY <1>1, <2>1, SumOne
  <2> QED BY <2>2 DEF s
<1>5. SumFunction([y \in {x} |-> g[y]]) = g[x]
  <2> DEFINE s == [y \in {x} |-> g[y]]
  <2>1. DOMAIN s = {x} /\ s[x] = g[x] /\ s = [y \in {x} |-> s[y]]
    OBVIOUS
  <2> HIDE DEF s
  <2>2. SumFunction(s) = g[x]
    BY <1>1, <2>1, SumOne
  <2> QED BY <2>2 DEF s
<1>6. rest \in Nat
  BY SumPart, SumIs
<1>7. SumFunction(f) = SumFunction([y \in {x} |-> f[y]]) + rest
  BY <1>2, SumSplit
<1>8. SumFunction(g) = SumFunction([y \in {x} |-> g[y]]) + rest
  <2>1. SumFunction(g) = SumFunction([y \in {x} |-> g[y]]) + SumFunction([y \in D |-> g[y]])
    BY <1>2, SumSplit
  <2> QED BY <1>3, <2>1
<1> HIDE DEF rest
<1> QED BY <1>1, <1>4, <1>5, <1>6, <1>7, <1>8

LEMMA SumSame ==
    ASSUME NEW f, NEW g, f = g PROVE SumFunction(f) = SumFunction(g)
OBVIOUS

\* A sum is the sum of the sums over the parts that h makes of it.
LEMMA SumFibres ==
    ASSUME NEW f, Tally(f), NEW g, Tally(g), NEW h \in [DOMAIN f -> DOMAIN g],
           \A t \in DOMAIN g :
              g[t] = SumFunction([x \in {y \in DOMAIN f : h[y] = t} |-> f[x]])
    PROVE  SumFunction(f) = SumFunction(g)
<1> DEFINE Part(t) == GrainsOn(f, {y \in DOMAIN f : h[y] = t})
           count == [t \in DOMAIN g |-> CHOOSE b : b \in Bijection(1..g[t], Part(t))]
           move == [u \in Grains(g) |-> count[u[1]][u[2]]]
<1>1. ASSUME NEW t \in DOMAIN g PROVE count[t] \in Bijection(1..g[t], Part(t))
  <2>1. g[t] = Cardinality(Part(t)) /\ IsFiniteSet(Part(t))
    BY SumPart, GrainsFinite
  <2>2. ExistsBijection(1..g[t], Part(t))
    <3> HIDE DEF Part
    <3> QED BY <2>1, FS_CardinalityType
  <2> QED BY <2>2 DEF ExistsBijection
<1> HIDE DEF count
<1>2. \A u \in Grains(g) : u = <<u[1], u[2]>> /\ u[1] \in DOMAIN g /\ u[2] \in 1..g[u[1]]
  <2>1. \A t \in DOMAIN g : g[t] \in Nat
    BY DEF Tally
  <2> QED BY <2>1 DEF Grains, GrainsOn
<1>3. ASSUME NEW t \in DOMAIN g, NEW v \in Part(t) PROVE v \in Grains(f) /\ h[v[1]] = t
  BY <1>3 DEF Grains, GrainsOn
<1>4. ASSUME NEW u \in Grains(g) PROVE move[u] \in Part(u[1]) /\ move[u] = count[u[1]][u[2]]
  BY <1>1, <1>2 DEF Bijection, Injection
<1>5. ASSUME NEW u \in Grains(g), NEW v \in Grains(g), move[u] = move[v] PROVE u = v
  <2>1. u[1] = v[1]
    <3>1. h[move[u][1]] = u[1] /\ h[move[v][1]] = v[1]
      BY <1>2, <1>3, <1>4
    <3> QED BY <1>5, <3>1
  <2>2. count[u[1]][u[2]] = count[u[1]][v[2]]
    BY <1>4, <1>5, <2>1
  <2>3. u[2] = v[2]
    BY <1>1, <1>2, <2>1, <2>2 DEF Bijection, Injection, IsInjective
  <2> QED BY <1>2, <2>1, <2>3
<1>6. ASSUME NEW v \in Grains(f) PROVE \E u \in Grains(g) : move[u] = v
  <2> DEFINE t == h[v[1]]
  <2>1. v[1] \in DOMAIN f /\ t \in DOMAIN g /\ v \in Part(t)
    BY DEF Grains, GrainsOn
  <2>2. PICK n \in 1..g[t] : count[t][n] = v
    <3>1. count[t] \in Surjection(1..g[t], Part(t))
      BY <1>1, <2>1 DEF Bijection
    <3> QED BY <2>1, <3>1 DEF Surjection
  <2>3. g[t] \in Nat
    BY <2>1 DEF Tally
  <2>4. <<t, n>> \in Grains(g)
    BY <2>1, <2>3 DEF Grains, GrainsOn
  <2>5. move[<<t, n>>] = v
    BY <2>2, <2>4
  <2> QED BY <2>4, <2>5
<1>7. move \in Bijection(Grains(g), Grains(f))
  <2>1. ASSUME NEW u \in Grains(g) PROVE move[u] \in Grains(f)
    <3>1. u[1] \in DOMAIN g /\ move[u] \in Part(u[1])
      BY <1>2, <1>4
    <3> HIDE DEF Part, move
    <3> QED BY <1>3, <3>1
  <2> QED BY <1>5, <1>6, <2>1 DEF Bijection, Injection, Surjection, IsInjective
<1>8. ExistsBijection(Grains(g), Grains(f))
  BY <1>7 DEF ExistsBijection
<1> HIDE DEF move
<1> QED BY <1>8, SumIs, FS_Bijection
(***************************************************************************)
(* Order.                                                                  *)
(***************************************************************************)
LEMMA FirstIn ==
    ASSUME NEW C, C \subseteq Nat, C # {}
    PROVE  First(C) \in C /\ \A d \in C : First(C) <= d
BY LeastOf DEF First

\* Pairs of numbers, each in its place.
LEMMA InOrderIs ==
    ASSUME NEW S, IsFiniteSet(S), S \subseteq Nat \X Nat
    PROVE  /\ InOrder(S) \in [1..Cardinality(S) -> S]
           /\ \A m, n \in 1..Cardinality(S) : InOrder(S)[m] = InOrder(S)[n] => m = n
           /\ \A u \in S : \E n \in 1..Cardinality(S) : InOrder(S)[n] = u
<1> DEFINE below(u) == {v \in S : Precedes(v, u)}
           size(u) == Cardinality(below(u))
           rank == [u \in S |-> size(u) + 1]
           N == 1..Cardinality(S)
<1>1. Cardinality(S) \in Nat
  BY FS_CardinalityType
<1>2. \A u \in S : u = <<u[1], u[2]>> /\ u[1] \in Nat /\ u[2] \in Nat
  OBVIOUS
<1>3. ASSUME NEW u \in S
      PROVE  /\ IsFiniteSet(below(u)) /\ Cardinality(below(u)) \in Nat
             /\ Cardinality(below(u)) < Cardinality(S)
  <2>1. below(u) \in SUBSET S /\ u \notin below(u)
    BY <1>2 DEF Precedes
  <2>2. IsFiniteSet(below(u)) /\ Cardinality(below(u)) <= Cardinality(S)
        /\ (Cardinality(below(u)) = Cardinality(S) => below(u) = S)
    <3> HIDE DEF below
    <3> QED BY <2>1, FS_Subset
  <2>3. Cardinality(below(u)) \in Nat
    BY <2>2, FS_CardinalityType
  <2> QED BY <1>1, <2>1, <2>2, <2>3
<1>4. ASSUME NEW u \in S, NEW v \in S, Precedes(v, u)
      PROVE  Cardinality(below(v)) < Cardinality(below(u))
  <2>1. below(v) \in SUBSET below(u)
    BY <1>2, <1>4 DEF Precedes
  <2>2. v \in below(u) /\ v \notin below(v)
    BY <1>2, <1>4 DEF Precedes
  <2>3. IsFiniteSet(below(u)) /\ Cardinality(below(u)) \in Nat /\ Cardinality(below(v)) \in Nat
    BY <1>3
  <2>4. Cardinality(below(v)) <= Cardinality(below(u))
        /\ (Cardinality(below(u)) = Cardinality(below(v)) => below(u) = below(v))
    <3> HIDE DEF below
    <3> QED BY <2>1, <2>3, FS_Subset
  <2> QED BY <2>2, <2>3, <2>4
<1>5. ASSUME NEW u \in S, NEW v \in S, rank[u] = rank[v] PROVE u = v
  <2>1. Precedes(u, v) \/ Precedes(v, u) \/ u = v
    BY <1>2 DEF Precedes
  <2>2. Cardinality(below(u)) = Cardinality(below(v))
    <3>1. size(u) \in Nat /\ size(v) \in Nat
      BY <1>3
    <3>2. rank[u] = size(u) + 1 /\ rank[v] = size(v) + 1
      OBVIOUS
    <3> HIDE DEF size, rank
    <3>3. size(u) + 1 = size(v) + 1
      BY <1>5, <3>2
    <3>4. size(u) = size(v)
      BY <3>1, <3>3
    <3> QED BY <3>4 DEF size
  <2>3. Cardinality(below(u)) \in Nat
    BY <1>3
  <2> HIDE DEF below, rank
  <2> QED BY <1>4, <2>1, <2>2, <2>3
<1>6. ASSUME NEW u \in S PROVE rank[u] \in N
  <2>1. size(u) \in Nat /\ size(u) < Cardinality(S) /\ rank[u] = size(u) + 1
    BY <1>3
  <2> HIDE DEF size, rank
  <2> QED BY <1>1, <2>1
<1>7. rank \in Injection(S, N)
  BY <1>5, <1>6 DEF Injection, IsInjective
<1>8. IsFiniteSet(N) /\ Cardinality(N) = Cardinality(S)
  <2>1. IsFiniteSet(1..Cardinality(S))
        /\ Cardinality(1..Cardinality(S)) =
              IF 1 > Cardinality(S) THEN 0 ELSE Cardinality(S) - 1 + 1
    BY <1>1, FS_Interval
  <2> QED BY <1>1, <2>1
<1>9. rank \in Surjection(S, N)
  <2> HIDE DEF rank, N
  <2> QED BY <1>7, <1>8, FS_Injection
<1>10. ASSUME NEW n \in N
       PROVE  InOrder(S)[n] \in S /\ rank[InOrder(S)[n]] = n
  <2>1. PICK u \in S : rank[u] = n
    BY <1>9 DEF Surjection
  <2>0. size(u) \in Nat /\ rank[u] = size(u) + 1
    BY <1>3
  <2>2. \E w \in S : size(w) = n - 1
    <3> HIDE DEF size, rank
    <3> QED BY <1>1, <2>0, <2>1
  <2>3. InOrder(S)[n] \in S /\ Cardinality(below(InOrder(S)[n])) = n - 1
    BY <2>2 DEF InOrder
  <2> QED BY <1>1, <2>3
<1>11. InOrder(S) \in [N -> S]
  <2> DEFINE e(n) == CHOOSE u \in S : Cardinality({v \in S : Precedes(v, u)}) = n - 1
  <2>1. InOrder(S) = [n \in N |-> e(n)]
    BY DEF InOrder
  <2> HIDE DEF N, e, rank, below, size
  <2>2. \A n \in N : InOrder(S)[n] = e(n)
    BY <2>1
  <2>3. \A n \in N : e(n) \in S
    BY <1>10, <2>2
  <2> QED BY <2>1, <2>3
<1>12. ASSUME NEW u \in S PROVE \E n \in N : InOrder(S)[n] = u
  <2>1. rank[u] \in N /\ InOrder(S)[rank[u]] \in S /\ rank[InOrder(S)[rank[u]]] = rank[u]
    BY <1>6, <1>10
  <2> HIDE DEF rank, N
  <2> QED BY <1>5, <2>1
<1>13. ASSUME NEW m \in N, NEW n \in N, InOrder(S)[m] = InOrder(S)[n] PROVE m = n
  <2> HIDE DEF rank, N
  <2> QED BY <1>10, <1>13
<1> QED BY <1>11, <1>12, <1>13

\* What is lined up is a sequence of what was there.
LEMMA LineIs ==
    ASSUME NEW f, IsFiniteSet(DOMAIN f), DOMAIN f \subseteq Nat \X Nat, NEW T,
           \A u \in DOMAIN f : f[u] \in T
    PROVE  Line(f) \in Seq(T)
<1> DEFINE D == DOMAIN f
           e(n) == f[InOrder(D)[n]]
<1>1. Cardinality(D) \in Nat
  BY FS_CardinalityType
<1>2. \A n \in 1..Cardinality(D) : e(n) \in T
  BY InOrderIs
<1>3. Line(f) = [n \in 1..Cardinality(D) |-> e(n)]
  BY DEF Line
<1>4. Line(f) \in [1..Cardinality(D) -> T]
  BY <1>2, <1>3
<1> QED BY <1>1, <1>4, SeqDef

(***************************************************************************)
(* Things and sequences of them.                                           *)
(***************************************************************************)
Maybe(S) == S \union {None}

LEMMA Apart ==
    /\ None \notin Kind /\ None \notin Things /\ None \notin Seq(Things) /\ None \notin OpenBoxes
BY ItemsAssumption

LEMMA ThingIs ==
    ASSUME NEW x \in Things
    PROVE  /\ x.kind \in Kind /\ x.count \in 1..Cap /\ x.count \in Nat /\ Cap \in Nat
           /\ x = [kind |-> x.kind, count |-> x.count]
           /\ x.kind \notin Stackable => x.count = 1
BY ItemsAssumption DEF Things

LEMMA ThingMade ==
    ASSUME NEW k \in Kind, NEW n \in 1..Cap, k \notin Stackable => n = 1
    PROVE  [kind |-> k, count |-> n] \in Things
BY DEF Things

LEMMA SingleMade ==
    ASSUME NEW k \in Kind PROVE [kind |-> k, count |-> 1] \in Things
<1>1. 1 \in 1..Cap
  BY ItemsAssumption
<1> QED BY <1>1, ThingMade

LEMMA SeqIs ==
    ASSUME NEW s \in Seq(Things)
    PROVE  /\ Len(s) \in Nat /\ DOMAIN s = 1..Len(s) /\ s \in [1..Len(s) -> Things]
           /\ \A i \in DOMAIN s : s[i] \in Things /\ i \in Nat /\ i >= 1 /\ i <= Len(s)
BY LenProperties

LEMMA PartIs ==
    ASSUME NEW s \in Seq(Things), NEW m \in Nat \ {0}, NEW n \in Int, n <= Len(s)
    PROVE  /\ SubSeq(s, m, n) \in Seq(Things)
           /\ Len(SubSeq(s, m, n)) = IF m <= n THEN n - m + 1 ELSE 0
<1>1. \A i \in m..n : s[i] \in Things
  BY SeqIs
<1> QED BY <1>1, SubSeqProperties

LEMMA JoinIs ==
    ASSUME NEW s \in Seq(Things), NEW t \in Seq(Things)
    PROVE  /\ s \o t \in Seq(Things) /\ Len(s \o t) = Len(s) + Len(t)
           /\ Len(s) \in Nat /\ Len(t) \in Nat
BY ConcatProperties, LenProperties

LEMMA RemoveIs ==
    ASSUME NEW s \in Seq(Things), NEW i \in DOMAIN s
    PROVE  RemoveAt(s, i) \in Seq(Things) /\ Len(RemoveAt(s, i)) = Len(s) - 1
<1>1. i \in Nat /\ i >= 1 /\ i <= Len(s) /\ Len(s) \in Nat
  BY SeqIs
<1>2. SubSeq(s, 1, i - 1) \in Seq(Things) /\ Len(SubSeq(s, 1, i - 1)) = i - 1
  BY <1>1, PartIs
<1>3. SubSeq(s, i + 1, Len(s)) \in Seq(Things) /\ Len(SubSeq(s, i + 1, Len(s))) = Len(s) - i
  BY <1>1, PartIs
<1> DEFINE a == SubSeq(s, 1, i - 1)
           z == SubSeq(s, i + 1, Len(s))
<1>4. RemoveAt(s, i) = a \o z
  BY DEF RemoveAt
<1>5. a \in Seq(Things) /\ z \in Seq(Things) /\ Len(a) = i - 1 /\ Len(z) = Len(s) - i
  BY <1>2, <1>3
<1> HIDE DEF a, z
<1>6. a \o z \in Seq(Things) /\ Len(a \o z) = Len(a) + Len(z)
  BY <1>5, JoinIs
<1> QED BY <1>1, <1>4, <1>5, <1>6

LEMMA InsertIs ==
    ASSUME NEW s \in Seq(Things), NEW i \in 1..(Len(s) + 1), NEW x \in Things
    PROVE  InsertAt(s, i, x) \in Seq(Things) /\ Len(InsertAt(s, i, x)) = Len(s) + 1
<1>1. i \in Nat /\ i >= 1 /\ i <= Len(s) + 1 /\ Len(s) \in Nat
  BY SeqIs
<1>2. SubSeq(s, 1, i - 1) \in Seq(Things) /\ Len(SubSeq(s, 1, i - 1)) = i - 1
  BY <1>1, PartIs
<1>3. SubSeq(s, i, Len(s)) \in Seq(Things) /\ Len(SubSeq(s, i, Len(s))) = Len(s) - i + 1
  BY <1>1, PartIs
<1>4. <<x>> \in Seq(Things) /\ Len(<<x>>) = 1
  OBVIOUS
<1>5. SubSeq(s, 1, i - 1) \o <<x>> \in Seq(Things) /\ Len(SubSeq(s, 1, i - 1) \o <<x>>) = i
  BY <1>1, <1>2, <1>4, ConcatProperties
<1> DEFINE a == SubSeq(s, 1, i - 1) \o <<x>>
           z == SubSeq(s, i, Len(s))
<1>6. InsertAt(s, i, x) = a \o z
  BY DEF InsertAt
<1>7. a \in Seq(Things) /\ z \in Seq(Things) /\ Len(a) = i /\ Len(z) = Len(s) - i + 1
  BY <1>3, <1>5
<1> HIDE DEF a, z
<1>8. a \o z \in Seq(Things) /\ Len(a \o z) = Len(a) + Len(z)
  BY <1>7, JoinIs
<1> QED BY <1>1, <1>6, <1>7, <1>8

\* A thing of a sequence is counted anew, or turned into another kind.
LEMMA Recount ==
    ASSUME NEW s \in Seq(Things), NEW i \in DOMAIN s, NEW n \in 1..Cap,
           s[i].kind \notin Stackable => n = 1
    PROVE  /\ [s EXCEPT ![i].count = n] = [s EXCEPT ![i] = [kind |-> s[i].kind, count |-> n]]
           /\ [s EXCEPT ![i].count = n] \in Seq(Things)
           /\ [kind |-> s[i].kind, count |-> n] \in Things
<1>1. s[i] \in Things /\ i \in 1..Len(s)
  BY SeqIs
<1>2. [kind |-> s[i].kind, count |-> n] \in Things
  BY <1>1, ThingIs, ThingMade
<1>3. [s[i] EXCEPT !.count = n] = [kind |-> s[i].kind, count |-> n]
  BY <1>1 DEF Things
<1>4. [s EXCEPT ![i].count = n] = [s EXCEPT ![i] = [kind |-> s[i].kind, count |-> n]]
  BY <1>3
<1>5. [s EXCEPT ![i] = [kind |-> s[i].kind, count |-> n]] \in Seq(Things)
  BY <1>1, <1>2, ExceptSeq
<1> QED BY <1>2, <1>4, <1>5

LEMMA Rekind ==
    ASSUME NEW x \in Things, x.kind \in Toggled
    PROVE  /\ [x EXCEPT !.kind = Toggle[@]] = [kind |-> Toggle[x.kind], count |-> 1]
           /\ [x EXCEPT !.kind = Toggle[@]] \in Things
           /\ x.count = 1
<1>1. x.kind \notin Stackable /\ Toggle[x.kind] \in Kind
  BY ItemsAssumption
<1>2. x.count = 1
  BY <1>1, ThingIs
<1>3. [x EXCEPT !.kind = Toggle[@]] = [kind |-> Toggle[x.kind], count |-> 1]
  BY <1>2 DEF Things
<1> QED BY <1>1, <1>2, <1>3, SingleMade

LEMMA PileIs ==
    ASSUME NEW st \in Piles
    PROVE  st.pre \in Nat /\ st.stack \in Seq(Things) /\ st = [pre |-> st.pre, stack |-> st.stack]
BY DEF Piles

LEMMA StackSet ==
    ASSUME NEW st \in Piles, NEW q
    PROVE  [st EXCEPT !.stack = q] = [pre |-> st.pre, stack |-> q]
BY DEF Piles

\* How many are taken, and as what they go.
LEMMA TakenIs ==
    ASSUME NEW st \in Piles, NEW i \in DOMAIN st.stack, NEW n \in Nat
    PROVE  /\ Taken(st, i, n) \in 1..Cap /\ Taken(st, i, n) <= st.stack[i].count
           /\ [st.stack[i] EXCEPT !.count = Taken(st, i, n)]
                = [kind |-> st.stack[i].kind, count |-> Taken(st, i, n)]
           /\ [kind |-> st.stack[i].kind, count |-> Taken(st, i, n)] \in Things
           /\ st.stack[i].kind \notin Stackable => Taken(st, i, n) = st.stack[i].count
<1>1. st.stack[i] \in Things
  BY PileIs, SeqIs
<1> DEFINE x == st.stack[i]
<1>2. /\ x.kind \in Kind /\ x.count \in 1..Cap /\ x.count \in Nat /\ Cap \in Nat
      /\ x.kind \notin Stackable => x.count = 1
  BY <1>1, ThingIs
<1>3. /\ Taken(st, i, n) \in 1..Cap /\ Taken(st, i, n) <= x.count
      /\ x.kind \notin Stackable => Taken(st, i, n) = 1
  BY <1>2 DEF Taken, Least, Most
<1>4. [x EXCEPT !.count = Taken(st, i, n)] = [kind |-> x.kind, count |-> Taken(st, i, n)]
  BY <1>1 DEF Things
<1> QED BY <1>2, <1>3, <1>4, ThingMade

\* What is left of the stack: the thing with a smaller count, or the stack without it.
LEMMA TakeIs ==
    ASSUME NEW st \in Piles, NEW i \in DOMAIN st.stack, NEW n \in Nat
    PROVE  /\ Take(st, i, n) \in Piles
           /\ \/ /\ st.stack[i].count > Taken(st, i, n)
                 /\ Take(st, i, n).stack = [st.stack EXCEPT ![i] =
                        [kind |-> st.stack[i].kind, count |-> st.stack[i].count - Taken(st, i, n)]]
                 /\ [kind |-> st.stack[i].kind, count |-> st.stack[i].count - Taken(st, i, n)] \in Things
              \/ /\ st.stack[i].count = Taken(st, i, n)
                 /\ Take(st, i, n).stack = RemoveAt(st.stack, i)
<1>1. st.stack[i] \in Things /\ st.pre \in Nat /\ st.stack \in Seq(Things) /\ i \in Nat /\ i >= 1
  BY PileIs, SeqIs
<1>2. /\ Taken(st, i, n) \in 1..Cap /\ Taken(st, i, n) <= st.stack[i].count
      /\ st.stack[i].count \in 1..Cap
      /\ st.stack[i].kind \notin Stackable => Taken(st, i, n) = st.stack[i].count
  <2>1. st.stack[i].count \in 1..Cap
    BY <1>1, ThingIs
  <2> QED BY <2>1, TakenIs
<1>3. CASE st.stack[i].count > Taken(st, i, n)
  <2> DEFINE c == st.stack[i].count - Taken(st, i, n)
  <2>1. c \in 1..Cap /\ (st.stack[i].kind \notin Stackable => c = 1)
    BY <1>2, <1>3, ItemsAssumption
  <2>2. Take(st, i, n) = [st EXCEPT !.stack = [st.stack EXCEPT ![i].count = c]]
    BY <1>3 DEF Take
  <2>3. Take(st, i, n) = [pre |-> st.pre, stack |-> [st.stack EXCEPT ![i].count = c]]
    BY <2>2, PileIs
  <2> HIDE DEF c
  <2>4. /\ [st.stack EXCEPT ![i].count = c] = [st.stack EXCEPT ![i] = [kind |-> st.stack[i].kind, count |-> c]]
        /\ [st.stack EXCEPT ![i].count = c] \in Seq(Things)
        /\ [kind |-> st.stack[i].kind, count |-> c] \in Things
    BY <1>1, <2>1, Recount
  <2> QED BY <1>1, <1>3, <2>3, <2>4 DEF Piles, c
<1>4. CASE ~(st.stack[i].count > Taken(st, i, n))
  <2>1. Take(st, i, n) = [pre |-> IF i <= st.pre THEN st.pre - 1 ELSE st.pre,
                          stack |-> RemoveAt(st.stack, i)]
    BY <1>4 DEF Take
  <2>2. RemoveAt(st.stack, i) \in Seq(Things)
    BY <1>1, RemoveIs
  <2> QED BY <1>1, <1>2, <1>4, <2>1, <2>2 DEF Piles
<1> QED BY <1>3, <1>4

LEMMA InsertedIs ==
    ASSUME NEW st \in Piles, Sound(st), NEW x \in Things
    PROVE  Insert(st, x) \in Piles /\ Insert(st, x).stack = InsertAt(st.stack, st.pre + 1, x)
<1>1. st.pre \in Nat /\ st.stack \in Seq(Things) /\ Len(st.stack) \in Nat
  BY PileIs, SeqIs
<1>2. st.pre + 1 \in 1..(Len(st.stack) + 1)
  BY <1>1 DEF Sound
<1>3. InsertAt(st.stack, st.pre + 1, x) \in Seq(Things)
  BY <1>1, <1>2, InsertIs
<1>4. Insert(st, x) = [pre |-> st.pre, stack |-> InsertAt(st.stack, st.pre + 1, x)]
  BY PileIs DEF Insert
<1> QED BY <1>1, <1>3, <1>4 DEF Piles

\* What is put down is merged, merged and spilled, or inserted.
LEMMA PutIs ==
    ASSUME NEW st \in Piles, Sound(st), NEW x \in Things
    PROVE  LET f == st.pre + 1
               total == st.stack[f].count + x.count
               merged(n) == [st.stack EXCEPT ![f] = [kind |-> x.kind, count |-> n]]
           IN  /\ Put(st, x) \in Piles
               /\ \/ Put(st, x).stack = InsertAt(st.stack, f, x)
                  \/ /\ f \in DOMAIN st.stack /\ st.stack[f].kind = x.kind /\ total \in 1..Cap
                     /\ Put(st, x).stack = merged(total)
                     /\ [kind |-> x.kind, count |-> total] \in Things
                  \/ /\ f \in DOMAIN st.stack /\ st.stack[f].kind = x.kind /\ total - Cap \in 1..Cap
                     /\ merged(Cap) \in Seq(Things) /\ Len(merged(Cap)) = Len(st.stack)
                     /\ Put(st, x).stack =
                            InsertAt(merged(Cap), f, [kind |-> x.kind, count |-> total - Cap])
                     /\ [kind |-> x.kind, count |-> total - Cap] \in Things
                     /\ [kind |-> x.kind, count |-> Cap] \in Things
<1> DEFINE f == st.pre + 1
           total == st.stack[f].count + x.count
           merged(n) == [st.stack EXCEPT ![f] = [kind |-> x.kind, count |-> n]]
           joins == x.kind \in Stackable /\ f \in DOMAIN st.stack /\ st.stack[f].kind = x.kind
<1>1. /\ st.pre \in Nat /\ st.stack \in Seq(Things) /\ Len(st.stack) \in Nat
      /\ st = [pre |-> st.pre, stack |-> st.stack]
  BY PileIs, SeqIs
<1>2. Cap \in Nat /\ Cap \in 1..Cap
  BY ItemsAssumption
<1>3. CASE ~joins
  <2>1. Put(st, x) = Insert(st, x)
    BY <1>3 DEF Put
  <2> QED BY <2>1, InsertedIs
<1>4. CASE joins
  <2>1. st.stack[f] \in Things /\ f \in 1..Len(st.stack)
    BY <1>1, <1>4, SeqIs
  <2>2. st.stack[f].count \in 1..Cap /\ x.count \in 1..Cap /\ x.kind \in Kind
    BY <2>1, ThingIs
  <2>3. ASSUME NEW n \in 1..Cap
        PROVE  /\ [st EXCEPT !.stack[f].count = n] = [pre |-> st.pre, stack |-> merged(n)]
               /\ merged(n) \in Seq(Things) /\ Len(merged(n)) = Len(st.stack)
               /\ [kind |-> x.kind, count |-> n] \in Things
    <3>1. [st EXCEPT !.stack[f].count = n] = [pre |-> st.pre, stack |-> [st.stack EXCEPT ![f].count = n]]
      BY StackSet
    <3> DEFINE s == st.stack
    <3>4. /\ [s EXCEPT ![f].count = n] = [s EXCEPT ![f] = [kind |-> s[f].kind, count |-> n]]
          /\ [s EXCEPT ![f].count = n] \in Seq(Things)
      <4>1. s \in Seq(Things) /\ f \in 1..Len(s) /\ s[f] \in Things
        BY <1>1, <2>1
      <4>2. [kind |-> s[f].kind, count |-> n] \in Things
        BY <1>4, <2>2, ThingMade
      <4>3. [s[f] EXCEPT !.count = n] = [kind |-> s[f].kind, count |-> n]
        BY <4>1 DEF Things
      <4>4. [s EXCEPT ![f] = [kind |-> s[f].kind, count |-> n]] \in Seq(Things)
        BY <4>1, <4>2, ExceptSeq
      <4> HIDE DEF s, f
      <4> QED BY <4>3, <4>4
    <3>2. [st.stack EXCEPT ![f].count = n] = merged(n) /\ merged(n) \in Seq(Things)
      BY <1>4, <3>4
    <3>3. [kind |-> x.kind, count |-> n] \in Things
      BY <1>4, <2>2, ThingMade
    <3> QED BY <1>1, <2>1, <3>1, <3>2, <3>3, ExceptSeq
  <2>4. CASE total <= Cap
    <3>1. total \in 1..Cap
      BY <1>2, <2>2, <2>4
    <3>2. Put(st, x) = [st EXCEPT !.stack[f].count = total]
      BY <1>4, <2>4 DEF Put
    <3>3. Put(st, x) = [pre |-> st.pre, stack |-> merged(total)] /\ merged(total) \in Seq(Things)
          /\ [kind |-> x.kind, count |-> total] \in Things
      BY <2>3, <3>1, <3>2
    <3> QED BY <1>1, <1>4, <3>1, <3>3 DEF Piles
  <2>5. CASE ~(total <= Cap)
    <3> DEFINE y == [kind |-> x.kind, count |-> total - Cap]
    <3>1. total - Cap \in 1..Cap
      BY <1>2, <2>2, <2>5
    <3>2. Put(st, x) = Insert([st EXCEPT !.stack[f].count = Cap], [x EXCEPT !.count = total - Cap])
      BY <1>4, <2>5 DEF Put
    <3>3. [x EXCEPT !.count = total - Cap] = y
      BY DEF Things
    <3>4. y \in Things
      BY <2>3, <3>1
    <3>5. [st EXCEPT !.stack[f].count = Cap] = [pre |-> st.pre, stack |-> merged(Cap)]
          /\ merged(Cap) \in Seq(Things) /\ Len(merged(Cap)) = Len(st.stack)
          /\ [kind |-> x.kind, count |-> Cap] \in Things
      BY <1>2, <2>3
    <3> DEFINE st2 == [pre |-> st.pre, stack |-> merged(Cap)]
    <3>6. st2 \in Piles /\ Sound(st2) /\ st2.pre + 1 = f /\ st2.stack = merged(Cap)
      BY <1>1, <3>5 DEF Piles, Sound
    <3>7. Put(st, x) = Insert(st2, y)
      BY <3>2, <3>3, <3>5
    <3> HIDE DEF st2, y, merged, total, f
    <3>8. Put(st, x) \in Piles /\ Put(st, x).stack = InsertAt(merged(Cap), f, y)
      BY <3>4, <3>6, <3>7, InsertedIs
    <3> QED BY <1>4, <3>1, <3>4, <3>5, <3>8 DEF y, merged, total, f
  <2> QED BY <2>4, <2>5
<1> QED BY <1>3, <1>4

(***************************************************************************)
(* Boxes.                                                                  *)
(***************************************************************************)
BoxMaps == [Cid -> OpenBoxes \union {None}]

LEMMA SourceIs ==
    /\ \A s \in Slot : InSlot(s) \in Source
    /\ \A t \in Tile : OnGround(t) \in Source
    /\ \A c \in Cid, i \in Nat : Nested(c, i) \in Source
BY ItemsAssumption DEF Source, InSlot, OnGround, Nested

LEMMA BoxIs ==
    ASSUME NEW kind \in Kind, NEW source \in Source, NEW things \in Seq(Things), NEW open \in BOOLEAN
    PROVE  /\ Box(kind, source, things, open) \in OpenBoxes
           /\ Box(kind, source, things, open).items = things
           /\ Box(kind, source, things, open).source = source
           /\ Box(kind, source, things, open).open = open
BY ItemsAssumption DEF Box, OpenBoxes

LEMMA OpenBoxIs ==
    ASSUME NEW x \in OpenBoxes
    PROVE  /\ x = [items |-> x.items, source |-> x.source, open |-> x.open, capacity |-> x.capacity]
           /\ x.items \in Seq(Things) /\ x.source \in Source /\ x.open \in BOOLEAN /\ x.capacity \in Nat
           /\ \A y : [x EXCEPT !.items = y] =
                        [items |-> y, source |-> x.source, open |-> x.open, capacity |-> x.capacity]
           /\ \A y : [x EXCEPT !.source = y] =
                        [items |-> x.items, source |-> y, open |-> x.open, capacity |-> x.capacity]
           /\ \A y : [x EXCEPT !.open = y] =
                        [items |-> x.items, source |-> x.source, open |-> y, capacity |-> x.capacity]
BY DEF OpenBoxes

LEMMA SourceParts ==
    ASSUME NEW s \in Source
    PROVE  /\ s = [in |-> s.in, at |-> s.at, idx |-> s.idx] /\ s.at \in Int /\ s.idx \in Nat
           /\ \A n : [s EXCEPT !.idx = n] = [in |-> s.in, at |-> s.at, idx |-> n]
BY DEF Source

LEMMA OpenBoxMade ==
    ASSUME NEW items \in Seq(Things), NEW source \in Source, NEW open \in BOOLEAN, NEW capacity \in Nat
    PROVE  [items |-> items, source |-> source, open |-> open, capacity |-> capacity] \in OpenBoxes
BY DEF OpenBoxes

LEMMA UsedIs ==
    ASSUME NEW b \in BoxMaps
    PROVE  /\ Used(b) \subseteq Cid /\ Cid \subseteq Nat
           /\ \A c \in Cid : c \in Used(b) <=> b[c] \in OpenBoxes
           /\ \A c \in Cid : c \notin Used(b) <=> b[c] = None
           /\ \A source : From(b, source) \subseteq Cid
           /\ \A c : Children(b, c) \subseteq Cid
BY ItemsAssumption, Apart DEF BoxMaps, Used, From, Children

LEMMA FreeIs ==
    ASSUME NEW b \in BoxMaps, NEW d \in Free(b)
    PROVE  /\ d \in Cid /\ Free(b) = {d} /\ First(Free(b)) = d
           /\ d \in Used(b) => Used(b) = Cid
<1>1. Cid \subseteq Nat
  BY ItemsAssumption
<1>2. CASE Cid \ Used(b) # {}
  <2>1. First(Cid \ Used(b)) \in Cid \ Used(b)
    BY <1>1, <1>2, FirstIn
  <2>2. Free(b) = {First(Cid \ Used(b))}
    BY <1>2 DEF Free
  <2>3. First({d}) = d
    <3>1. d \in Nat
      BY <1>1, <2>1, <2>2
    <3> QED BY <3>1, FirstIn
  <2> QED BY <2>1, <2>2, <2>3
<1>3. CASE Cid \ Used(b) = {}
  <2>1. Opened(b) # Cid /\ Free(b) = {First(Cid \ Opened(b))}
    BY <1>3 DEF Free
  <2>2. Cid \ Opened(b) # {}
    BY <2>1 DEF Opened, Used
  <2>3. First(Cid \ Opened(b)) \in Cid
    BY <1>1, <2>2, FirstIn
  <2>4. First({d}) = d
    <3>1. d \in Nat
      BY <1>1, <2>1, <2>3
    <3> QED BY <3>1, FirstIn
  <2>5. Used(b) = Cid
    BY <1>3 DEF Used
  <2> QED BY <2>1, <2>3, <2>4, <2>5
<1> QED BY <1>2, <1>3

LEMMA TreeIs ==
    ASSUME NEW b, NEW C, C \subseteq Cid
    PROVE  C \subseteq Tree(b, C) /\ Tree(b, C) \subseteq Cid
BY DEF Tree

\* What a change to the boxes may do to one of them, and what it leaves alone.
LEMMA CloseTreeIs ==
    ASSUME NEW b \in BoxMaps, NEW C, C \subseteq Cid
    PROVE  /\ CloseTree(b, C) \in BoxMaps
           /\ Used(CloseTree(b, C)) = Used(b)
           /\ \A c \in Used(b) : /\ CloseTree(b, C)[c].items = b[c].items
                                 /\ CloseTree(b, C)[c].source = b[c].source
                                 /\ CloseTree(b, C)[c].capacity = b[c].capacity
                                 /\ CloseTree(b, C)[c].open => b[c].open /\ c \notin C
<1> DEFINE e == CloseTree(b, C)
<1>1. ASSUME NEW c \in Cid, c \in Tree(b, C), b[c] # None
      PROVE  e[c] = [items |-> b[c].items, source |-> b[c].source, open |-> FALSE,
                     capacity |-> b[c].capacity]
             /\ e[c] \in OpenBoxes
  <2>1. b[c] \in OpenBoxes
    BY <1>1 DEF BoxMaps
  <2>2. e[c] = [b[c] EXCEPT !.open = FALSE]
    BY <1>1 DEF CloseTree
  <2>3. b[c].items \in Seq(Things) /\ b[c].source \in Source /\ b[c].capacity \in Nat
    BY <2>1, OpenBoxIs
  <2>4. [items |-> b[c].items, source |-> b[c].source, open |-> FALSE,
         capacity |-> b[c].capacity] \in OpenBoxes
    BY <2>3, OpenBoxMade
  <2>5. [b[c] EXCEPT !.open = FALSE] = [items |-> b[c].items, source |-> b[c].source, open |-> FALSE,
                     capacity |-> b[c].capacity]
    BY <2>1, OpenBoxIs
  <2> HIDE DEF e
  <2> QED BY <2>2, <2>4, <2>5
<1>2. \A c \in Cid : ~(c \in Tree(b, C) /\ b[c] # None) => e[c] = b[c]
  BY DEF CloseTree
<1>3. \A c \in Cid : e[c] \in OpenBoxes \union {None}
  BY <1>1, <1>2 DEF BoxMaps
<1>4. e \in BoxMaps
  <2>1. e = [c \in Cid |-> e[c]]
    BY DEF CloseTree
  <2> HIDE DEF e
  <2> QED BY <1>3, <2>1 DEF BoxMaps
<1>5. \A c \in Cid : e[c] = None <=> b[c] = None
  BY <1>1, <1>2, Apart
<1>6. Used(e) = Used(b)
  BY <1>5 DEF Used
<1>7. ASSUME NEW c \in Used(b)
      PROVE  /\ e[c].items = b[c].items /\ e[c].source = b[c].source
             /\ e[c].capacity = b[c].capacity
             /\ e[c].open => b[c].open /\ c \notin C
  <2>1. c \in Cid /\ b[c] # None /\ (c \in C => c \in Tree(b, C))
    BY TreeIs DEF Used
  <2> HIDE DEF e
  <2>2. CASE c \in Tree(b, C)
    <3>1. e[c] = [items |-> b[c].items, source |-> b[c].source, open |-> FALSE,
                  capacity |-> b[c].capacity]
      BY <1>1, <2>1, <2>2
    <3>2. e[c].items = b[c].items /\ e[c].source = b[c].source /\ e[c].open = FALSE
          /\ e[c].capacity = b[c].capacity
      BY <3>1
    <3> QED BY <3>2
  <2>3. CASE c \notin Tree(b, C)
    BY <1>2, <2>1, <2>3
  <2> QED BY <2>2, <2>3
<1> QED BY <1>4, <1>6, <1>7

LEMMA PushIs ==
    ASSUME NEW b \in BoxMaps, NEW c \in Cid, NEW x \in Things
    PROVE  /\ Push(b, c, x) \in BoxMaps
           /\ Used(Push(b, c, x)) = Used(b)
           /\ \A d \in Used(b) :
                /\ Push(b, c, x)[d].items = IF d = c /\ ~Full(b, c) THEN <<x>> \o b[d].items
                                            ELSE b[d].items
                /\ Push(b, c, x)[d].open = b[d].open
                /\ Push(b, c, x)[d].capacity = b[d].capacity
                /\ Push(b, c, x)[d].source.in = b[d].source.in
                /\ b[d].source.in # "nested" => Push(b, c, x)[d].source = b[d].source
<1>1. CASE b[c] = None \/ Full(b, c)
  <2>1. Push(b, c, x) = b
    BY <1>1 DEF Push
  <2>2. c \in Used(b) => Full(b, c)
    BY <1>1 DEF Used
  <2> QED BY <2>1, <2>2
<1>2. CASE ~(b[c] = None \/ Full(b, c))
  <2> DEFINE e == Push(b, c, x)
             o(d) == IF d = c THEN [b[d] EXCEPT !.items = <<x>> \o @] ELSE b[d]
             things(d) == IF d = c THEN <<x>> \o b[d].items ELSE b[d].items
             source(d) == IF d \in Children(b, c) THEN [b[d].source EXCEPT !.idx = @ + 1]
                          ELSE b[d].source
  <2>1. ASSUME NEW d \in Cid
        PROVE  e[d] = IF d \in Children(b, c) THEN [o(d) EXCEPT !.source.idx = @ + 1] ELSE o(d)
    BY <1>2 DEF Push
  <2>2. ASSUME NEW d \in Cid, b[d] = None PROVE e[d] = None
    <3>1. d # c /\ d \notin Children(b, c)
      BY <1>2, <2>2 DEF Children, Used
    <3> QED BY <2>1, <2>2, <3>1
  <2>3. ASSUME NEW d \in Used(b)
        PROVE  /\ e[d] = [items |-> things(d), source |-> source(d), open |-> b[d].open,
                          capacity |-> b[d].capacity]
               /\ things(d) \in Seq(Things) /\ source(d) \in Source
               /\ source(d).in = b[d].source.in
               /\ b[d].source.in # "nested" => source(d) = b[d].source
               /\ b[d].open \in BOOLEAN /\ b[d].capacity \in Nat
    <3>1. d \in Cid /\ b[d] \in OpenBoxes
      BY UsedIs
    <3>2. b[d].items \in Seq(Things) /\ b[d].source \in Source /\ b[d].open \in BOOLEAN
          /\ b[d].capacity \in Nat
      BY <3>1, OpenBoxIs
    <3>3. things(d) \in Seq(Things)
      <4>1. <<x>> \in Seq(Things)
        OBVIOUS
      <4> QED BY <3>2, <4>1, JoinIs
    <3>4. o(d) = [items |-> things(d), source |-> b[d].source, open |-> b[d].open,
                  capacity |-> b[d].capacity]
      <4>1. CASE d = c
        <5>1. o(d) = [b[d] EXCEPT !.items = <<x>> \o b[d].items]
          BY <4>1
        <5> QED BY <3>1, <4>1, <5>1, OpenBoxIs
      <4>2. CASE d # c
        BY <3>1, <4>2, OpenBoxIs
      <4> QED BY <4>1, <4>2
    <3> HIDE DEF o, things
    <3>5. o(d) \in OpenBoxes /\ o(d).source = b[d].source
      BY <3>2, <3>3, <3>4, OpenBoxMade
    <3>6. CASE d \in Children(b, c)
      <4>1. e[d] = [o(d) EXCEPT !.source = [o(d).source EXCEPT !.idx = @ + 1]]
        BY <2>1, <3>1, <3>6
      <4>2. source(d) = [in |-> b[d].source.in, at |-> b[d].source.at, idx |-> b[d].source.idx + 1]
        BY <3>2, <3>6, SourceParts
      <4>3. source(d) \in Source /\ source(d).in = b[d].source.in /\ b[d].source.in = "nested"
        BY <3>2, <3>6, <4>2 DEF Source, Children
      <4>4. e[d] = [o(d) EXCEPT !.source = source(d)]
        BY <3>5, <3>6, <4>1
      <4>5. e[d] = [items |-> o(d).items, source |-> source(d), open |-> o(d).open,
                    capacity |-> o(d).capacity]
        BY <3>5, <4>4, OpenBoxIs
      <4> HIDE DEF source
      <4> QED BY <3>2, <3>3, <3>4, <4>3, <4>5
    <3>7. CASE d \notin Children(b, c)
      <4>1. e[d] = o(d) /\ source(d) = b[d].source
        BY <2>1, <3>1, <3>7
      <4> QED BY <3>2, <3>3, <3>4, <4>1
    <3> QED BY <3>6, <3>7
  <2> HIDE DEF o, things, source
  <2>4. e \in BoxMaps
    <3>1. ASSUME NEW d \in Cid PROVE e[d] \in OpenBoxes \union {None}
      <4>1. CASE d \in Used(b)
        <5> HIDE DEF e
        <5>1. /\ e[d] = [items |-> things(d), source |-> source(d), open |-> b[d].open,
                         capacity |-> b[d].capacity]
              /\ things(d) \in Seq(Things) /\ source(d) \in Source
              /\ b[d].open \in BOOLEAN /\ b[d].capacity \in Nat
          BY <2>3, <4>1
        <5>2. [items |-> things(d), source |-> source(d), open |-> b[d].open,
               capacity |-> b[d].capacity] \in OpenBoxes
          BY <5>1, OpenBoxMade
        <5> QED BY <5>1, <5>2
      <4>2. CASE d \notin Used(b)
        BY <2>2, <4>2 DEF Used
      <4> QED BY <4>1, <4>2
    <3>2. e = [d \in Cid |-> e[d]]
      BY <1>2 DEF Push
    <3> HIDE DEF e
    <3> QED BY <3>1, <3>2 DEF BoxMaps
  <2>5. Used(e) = Used(b)
    <3>1. ASSUME NEW d \in Used(b) PROVE e[d] # None /\ d \in Cid
      <4> HIDE DEF e
      <4>1. /\ e[d] = [items |-> things(d), source |-> source(d), open |-> b[d].open,
                       capacity |-> b[d].capacity]
            /\ things(d) \in Seq(Things) /\ source(d) \in Source
            /\ b[d].open \in BOOLEAN /\ b[d].capacity \in Nat
        BY <2>3
      <4>2. [items |-> things(d), source |-> source(d), open |-> b[d].open,
             capacity |-> b[d].capacity] \in OpenBoxes
        BY <4>1, OpenBoxMade
      <4> QED BY <4>1, <4>2, Apart, UsedIs
    <3> HIDE DEF e
    <3> QED BY <2>2, <3>1 DEF Used
  <2>6. ASSUME NEW d \in Used(b)
        PROVE  /\ e[d].items = IF d = c /\ ~Full(b, c) THEN <<x>> \o b[d].items ELSE b[d].items
               /\ e[d].open = b[d].open
               /\ e[d].capacity = b[d].capacity
               /\ e[d].source.in = b[d].source.in
               /\ b[d].source.in # "nested" => e[d].source = b[d].source
    <3> HIDE DEF e
    <3>0. e[d] = [items |-> things(d), source |-> source(d), open |-> b[d].open,
                  capacity |-> b[d].capacity]
      BY <2>3
    <3>1. e[d].items = things(d) /\ e[d].source = source(d) /\ e[d].open = b[d].open
          /\ e[d].capacity = b[d].capacity
      BY <3>0
    <3>2. things(d) = IF d = c /\ ~Full(b, c) THEN <<x>> \o b[d].items ELSE b[d].items
      BY <1>2 DEF things
    <3>3. source(d).in = b[d].source.in /\ (b[d].source.in # "nested" => source(d) = b[d].source)
      BY <2>3
    <3>4. e[d].items = IF d = c /\ ~Full(b, c) THEN <<x>> \o b[d].items ELSE b[d].items
      BY <3>1, <3>2
    <3> QED BY <3>1, <3>3, <3>4
  <2> QED BY <2>4, <2>5, <2>6
<1> QED BY <1>1, <1>2

\* Boxes e that are those of b, none opened, none that is not nested opened elsewhere.
Sits(b, e) ==
    /\ e \in BoxMaps
    /\ Used(e) = Used(b)
    /\ \A d \in Used(b) : /\ e[d].capacity = b[d].capacity
                          /\ e[d].open => b[d].open
                          /\ e[d].source.in = b[d].source.in
                          /\ b[d].source.in # "nested" => e[d].source = b[d].source

SameItems(b, e) == \A d \in Used(b) : e[d].items = b[d].items

LEMMA SitsOn ==
    ASSUME NEW b, NEW e, NEW f, Sits(b, e), Sits(e, f)
    PROVE  Sits(b, f) /\ (SameItems(b, e) /\ SameItems(e, f) => SameItems(b, f))
BY DEF Sits, SameItems

LEMMA PushSits ==
    ASSUME NEW b \in BoxMaps, NEW c \in Cid, NEW x \in Things
    PROVE  Sits(b, Push(b, c, x))
BY PushIs DEF Sits

LEMMA CloseTreeSits ==
    ASSUME NEW b \in BoxMaps, NEW C, C \subseteq Cid
    PROVE  Sits(b, CloseTree(b, C)) /\ SameItems(b, CloseTree(b, C))
BY CloseTreeIs DEF Sits, SameItems

LEMMA PopIs ==
    ASSUME NEW b \in BoxMaps, NEW c \in Used(b), NEW i \in DOMAIN b[c].items
    PROVE  /\ Pop(b, c, i) \in BoxMaps /\ Used(Pop(b, c, i)) = Used(b)
           /\ \A d \in Cid \ {c} : Pop(b, c, i)[d] = b[d]
           /\ Pop(b, c, i)[c] = [items |-> RemoveAt(b[c].items, i), source |-> b[c].source,
                                 open |-> b[c].open, capacity |-> b[c].capacity]
           /\ RemoveAt(b[c].items, i) \in Seq(Things)
           /\ Len(RemoveAt(b[c].items, i)) = Len(b[c].items) - 1
           /\ Sits(b, Pop(b, c, i))
<1> DEFINE e == Pop(b, c, i)
           q == RemoveAt(b[c].items, i)
           r == [items |-> q, source |-> b[c].source, open |-> b[c].open, capacity |-> b[c].capacity]
<1>1. c \in Cid /\ b[c] \in OpenBoxes
  BY UsedIs
<1>2. b[c].items \in Seq(Things) /\ b[c].source \in Source /\ b[c].open \in BOOLEAN
      /\ b[c].capacity \in Nat
  BY <1>1, OpenBoxIs
<1>3. q \in Seq(Things) /\ Len(q) = Len(b[c].items) - 1
  BY <1>2, RemoveIs
<1>4. e = [b EXCEPT ![c] = [b[c] EXCEPT !.items = q]]
  BY DEF Pop
<1>5. [b[c] EXCEPT !.items = q] = r
  BY <1>1, OpenBoxIs
<1>6. e = [b EXCEPT ![c] = r]
  BY <1>4, <1>5
<1>7. r \in OpenBoxes /\ r # None
  BY <1>2, <1>3, OpenBoxMade, Apart
<1>8. r.items = q /\ r.source = b[c].source /\ r.open = b[c].open /\ r.capacity = b[c].capacity
  OBVIOUS
<1> HIDE DEF r, e
<1>9. e \in BoxMaps /\ e[c] = r /\ \A d \in Cid \ {c} : e[d] = b[d]
  BY <1>1, <1>6, <1>7 DEF BoxMaps
<1>10. Used(e) = Used(b)
  BY <1>1, <1>7, <1>9 DEF Used
<1>11. Sits(b, e)
  <2>1. ASSUME NEW d \in Used(b)
        PROVE  e[d].capacity = b[d].capacity /\ e[d].open = b[d].open /\ e[d].source = b[d].source
    <3>1. CASE d = c
      BY <1>8, <1>9, <3>1
    <3>2. CASE d # c
      BY <1>9, <3>2 DEF Used
    <3> QED BY <3>1, <3>2
  <2> QED BY <1>9, <1>10, <2>1 DEF Sits
<1> QED BY <1>3, <1>9, <1>10, <1>11 DEF e, r

\* The boxes nested behind a place move up.
MovedUp(b, c, i) ==
    [d \in Cid |-> IF d \in Children(b, c) /\ b[d].source.idx > i
                   THEN [b[d] EXCEPT !.source.idx = @ - 1] ELSE b[d]]

LEMMA MovedUpIs ==
    ASSUME NEW b \in BoxMaps, NEW c, NEW i \in Nat \ {0}
    PROVE  Sits(b, MovedUp(b, c, i)) /\ SameItems(b, MovedUp(b, c, i))
<1> DEFINE e == MovedUp(b, c, i)
<1>1. ASSUME NEW d \in Cid, d \in Children(b, c), b[d].source.idx > i
      PROVE  /\ e[d] \in OpenBoxes /\ d \in Used(b)
             /\ e[d].items = b[d].items /\ e[d].capacity = b[d].capacity /\ e[d].open = b[d].open
             /\ e[d].source.in = b[d].source.in /\ b[d].source.in = "nested"
  <2>1. d \in Used(b) /\ b[d] \in OpenBoxes /\ b[d].source.in = "nested"
    BY <1>1, UsedIs DEF Children
  <2>2. b[d].items \in Seq(Things) /\ b[d].source \in Source /\ b[d].open \in BOOLEAN
        /\ b[d].capacity \in Nat
    BY <2>1, OpenBoxIs
  <2> DEFINE s == [in |-> b[d].source.in, at |-> b[d].source.at, idx |-> b[d].source.idx - 1]
  <2>3. [b[d].source EXCEPT !.idx = @ - 1] = s
    BY <2>2, SourceParts
  <2>4. s \in Source /\ s.in = b[d].source.in
    <3>1. b[d].source.idx \in Nat /\ b[d].source.idx - 1 \in Nat
      BY <1>1, <2>2, SourceParts
    <3> QED BY <2>2, <3>1 DEF Source
  <2>5. e[d] = [b[d] EXCEPT !.source = [b[d].source EXCEPT !.idx = @ - 1]]
    BY <1>1 DEF MovedUp
  <2> HIDE DEF s
  <2>6. e[d] = [items |-> b[d].items, source |-> s, open |-> b[d].open, capacity |-> b[d].capacity]
    BY <2>1, <2>3, <2>5, OpenBoxIs
  <2>7. [items |-> b[d].items, source |-> s, open |-> b[d].open, capacity |-> b[d].capacity]
          \in OpenBoxes
    BY <2>2, <2>4, OpenBoxMade
  <2> HIDE DEF e
  <2>8. e[d].items = b[d].items /\ e[d].capacity = b[d].capacity /\ e[d].open = b[d].open
        /\ e[d].source = s
    BY <2>6
  <2> QED BY <2>1, <2>4, <2>6, <2>7, <2>8
<1>2. \A d \in Cid : ~(d \in Children(b, c) /\ b[d].source.idx > i) => e[d] = b[d]
  BY DEF MovedUp
<1>3. e = [d \in Cid |-> e[d]]
  BY DEF MovedUp
<1> HIDE DEF e
<1>4. \A d \in Cid : e[d] \in OpenBoxes \union {None} /\ (e[d] = None <=> b[d] = None)
  <2>1. \A d \in Cid : b[d] \in OpenBoxes \union {None} /\ (d \in Used(b) <=> b[d] # None)
    BY DEF BoxMaps, Used
  <2> QED BY <1>1, <1>2, <2>1, Apart
<1>5. e \in BoxMaps /\ Used(e) = Used(b)
  BY <1>3, <1>4 DEF BoxMaps, Used
<1>6. ASSUME NEW d \in Used(b)
      PROVE  /\ e[d].items = b[d].items /\ e[d].capacity = b[d].capacity
             /\ e[d].open => b[d].open
             /\ e[d].source.in = b[d].source.in
             /\ b[d].source.in # "nested" => e[d].source = b[d].source
  <2>1. d \in Cid
    BY UsedIs
  <2>2. CASE d \in Children(b, c) /\ b[d].source.idx > i
    BY <1>1, <2>1, <2>2
  <2>3. CASE ~(d \in Children(b, c) /\ b[d].source.idx > i)
    BY <1>2, <2>1, <2>3
  <2> QED BY <2>2, <2>3
<1> QED BY <1>5, <1>6 DEF Sits, SameItems, e

LEMMA UnnestIs ==
    ASSUME NEW b \in BoxMaps, NEW c, NEW i \in Nat \ {0}
    PROVE  Sits(b, Unnest(b, c, i)) /\ SameItems(b, Unnest(b, c, i))
<1> DEFINE C == Orphan(b, c, i)
           m == MovedUp(b, c, i)
<1>1. Unnest(b, c, i) = CloseTree(m, C)
  BY DEF Unnest, MovedUp
<1>2. C \subseteq Cid
  BY UsedIs DEF Orphan
<1>3. Sits(b, m) /\ SameItems(b, m) /\ m \in BoxMaps
  BY MovedUpIs DEF Sits
<1> HIDE DEF C, m
<1>4. Sits(m, CloseTree(m, C)) /\ SameItems(m, CloseTree(m, C))
  BY <1>2, <1>3, CloseTreeSits
<1> QED BY <1>1, <1>3, <1>4, SitsOn

\* What is left after a pop: the same boxes, one with a thing less.
LEMMA PoppedIs ==
    ASSUME NEW b \in BoxMaps, NEW c \in Used(b), NEW i \in DOMAIN b[c].items
    PROVE  /\ Sits(b, Popped(b, c, i))
           /\ \A d \in Used(b) : Popped(b, c, i)[d].items =
                                    IF d = c THEN RemoveAt(b[c].items, i) ELSE b[d].items
           /\ Len(RemoveAt(b[c].items, i)) = Len(b[c].items) - 1
           /\ RemoveAt(b[c].items, i) \in Seq(Things)
<1> DEFINE e == Pop(b, c, i)
<1>1. /\ e \in BoxMaps /\ Used(e) = Used(b)
      /\ \A d \in Cid \ {c} : e[d] = b[d]
      /\ e[c] = [items |-> RemoveAt(b[c].items, i), source |-> b[c].source,
                 open |-> b[c].open, capacity |-> b[c].capacity]
      /\ Len(RemoveAt(b[c].items, i)) = Len(b[c].items) - 1
      /\ RemoveAt(b[c].items, i) \in Seq(Things)
      /\ Sits(b, e)
  BY PopIs
<1>2. i \in Nat \ {0}
  <2>1. b[c].items \in Seq(Things)
    BY UsedIs, OpenBoxIs
  <2> QED BY <2>1, SeqIs
<1>3. Popped(b, c, i) = Unnest(e, c, i)
  BY DEF Popped
<1> HIDE DEF e
<1>4. Sits(e, Unnest(e, c, i)) /\ SameItems(e, Unnest(e, c, i))
  BY <1>1, <1>2, UnnestIs
<1>5. ASSUME NEW d \in Used(b)
      PROVE  e[d].items = IF d = c THEN RemoveAt(b[c].items, i) ELSE b[d].items
  <2>1. d \in Cid
    BY UsedIs
  <2>2. e[c].items = RemoveAt(b[c].items, i)
    BY <1>1
  <2>3. d # c => e[d] = b[d]
    BY <1>1, <2>1
  <2> QED BY <2>2, <2>3
<1>6. Sits(b, Unnest(e, c, i))
  BY <1>1, <1>4, SitsOn
<1>7. \A d \in Used(b) : Unnest(e, c, i)[d].items = e[d].items
  BY <1>1, <1>4 DEF SameItems
<1> QED BY <1>1, <1>3, <1>5, <1>6, <1>7

\* A box that follows its container.
LEMMA RekeyIs ==
    ASSUME NEW b \in BoxMaps, NEW old, NEW new \in Source
    PROVE  /\ Rekey(b, old, new) \in BoxMaps /\ Used(Rekey(b, old, new)) = Used(b)
           /\ SameItems(b, Rekey(b, old, new))
           /\ \A d \in Used(b) : /\ Rekey(b, old, new)[d].open = b[d].open
                                 /\ Rekey(b, old, new)[d].capacity = b[d].capacity
                                 /\ Rekey(b, old, new)[d].source \in {new, b[d].source}
<1>1. CASE From(b, old) = {}
  <2>1. Rekey(b, old, new) = b
    BY <1>1 DEF Rekey
  <2> QED BY <2>1 DEF SameItems
<1>2. CASE From(b, old) # {}
  <2> DEFINE f == First(From(b, old))
             e == Rekey(b, old, new)
             r == [items |-> b[f].items, source |-> new, open |-> b[f].open, capacity |-> b[f].capacity]
  <2>1. f \in From(b, old)
    <3>1. From(b, old) \subseteq Nat
      BY UsedIs
    <3> QED BY <1>2, <3>1, FirstIn
  <2>2. f \in Used(b) /\ f \in Cid /\ b[f] \in OpenBoxes
    BY <2>1, UsedIs DEF From
  <2>3. b[f].items \in Seq(Things) /\ b[f].open \in BOOLEAN /\ b[f].capacity \in Nat
    BY <2>2, OpenBoxIs
  <2>4. e = [b EXCEPT ![f] = [b[f] EXCEPT !.source = new]]
    BY <1>2 DEF Rekey
  <2>5. [b[f] EXCEPT !.source = new] = r
    BY <2>2, OpenBoxIs
  <2>6. r \in OpenBoxes /\ r # None
    BY <2>3, OpenBoxMade, Apart
  <2>7. r.items = b[f].items /\ r.source = new /\ r.open = b[f].open /\ r.capacity = b[f].capacity
    OBVIOUS
  <2> HIDE DEF e, f, r
  <2>8. e = [b EXCEPT ![f] = r]
    BY <2>4, <2>5
  <2>9. e \in BoxMaps /\ e[f] = r /\ \A d \in Cid \ {f} : e[d] = b[d]
    BY <2>2, <2>6, <2>8 DEF BoxMaps
  <2>10. Used(e) = Used(b)
    BY <2>2, <2>6, <2>9 DEF Used
  <2>11. ASSUME NEW d \in Used(b)
         PROVE  /\ e[d].items = b[d].items /\ e[d].open = b[d].open
                /\ e[d].capacity = b[d].capacity /\ e[d].source \in {new, b[d].source}
    <3>1. CASE d = f
      BY <2>7, <2>9, <3>1
    <3>2. CASE d # f
      BY <2>9, <3>2 DEF Used
    <3> QED BY <3>1, <3>2
  <2> QED BY <2>9, <2>10, <2>11 DEF e, SameItems
<1> QED BY <1>1, <1>2

LEMMA WalkedAwayIs ==
    ASSUME NEW b \in BoxMaps, NEW t
    PROVE  /\ Sits(b, WalkedAway(b, t)) /\ SameItems(b, WalkedAway(b, t))
           /\ \A c \in Opened(WalkedAway(b, t)) :
                WalkedAway(b, t)[c].source.in = "ground" => Near(WalkedAway(b, t)[c].source.at, t)
<1> DEFINE C == Distant(b, t)
           e == CloseTree(b, C)
<1>1. C \subseteq Cid
  BY UsedIs DEF Distant, Opened
<1>2. WalkedAway(b, t) = e
  BY DEF WalkedAway
<1>3. Sits(b, e) /\ SameItems(b, e)
  BY <1>1, CloseTreeSits
<1>4. ASSUME NEW c \in Opened(e), e[c].source.in = "ground" PROVE Near(e[c].source.at, t)
  <2>1. c \in Used(b)
    BY <1>3 DEF Opened, Sits
  <2>2. e[c].source = b[c].source /\ (e[c].open => b[c].open /\ c \notin C)
    BY <1>1, <2>1, CloseTreeIs
  <2>3. b[c].open /\ c \notin C
    BY <2>2, <1>4 DEF Opened
  <2> HIDE DEF e
  <2> QED BY <1>4, <2>1, <2>2, <2>3 DEF Distant, Opened
<1> QED BY <1>2, <1>3, <1>4

(***************************************************************************)
(* Destinations, saves and what is restored from them.                     *)
(***************************************************************************)
Destined(b, c, r) ==
    \/ /\ r.boxes = b
       /\ r.cid \in {c} \union Used(b)
    \/ \E d \in Free(b), x \in OpenBoxes :
          /\ r.cid = d
          /\ r.boxes = [b EXCEPT ![d] = x]
          /\ x.items = <<>> /\ x.open = FALSE

LEMMA DestinationIs ==
    ASSUME NEW b \in BoxMaps, NEW c \in Cid, NEW i
    PROVE  /\ Destination(b, c, i).boxes \in BoxMaps
           /\ Destination(b, c, i).cid \in Cid
           /\ Destined(b, c, Destination(b, c, i))
<1> USE DEF Destined
<1>1. CASE b[c] = None \/ i \notin DOMAIN b[c].items \/ b[c].items[i].kind \notin Container
  <2>1. Destination(b, c, i) = [boxes |-> b, cid |-> c]
    BY <1>1 DEF Destination
  <2> QED BY <2>1
<1>2. CASE ~(b[c] = None \/ i \notin DOMAIN b[c].items \/ b[c].items[i].kind \notin Container)
  <2>1. CASE From(b, Nested(c, i)) # {}
    <3>1. First(From(b, Nested(c, i))) \in From(b, Nested(c, i))
      <4>1. From(b, Nested(c, i)) \subseteq Nat
        BY UsedIs
      <4> QED BY <2>1, <4>1, FirstIn
    <3>2. Destination(b, c, i) = [boxes |-> b, cid |-> First(From(b, Nested(c, i)))]
      BY <1>2, <2>1 DEF Destination
    <3>3. First(From(b, Nested(c, i))) \in Used(b) /\ First(From(b, Nested(c, i))) \in Cid
      BY <3>1, UsedIs DEF From
    <3> QED BY <3>2, <3>3
  <2>2. CASE From(b, Nested(c, i)) = {} /\ Free(b) = {}
    <3>1. Destination(b, c, i) = [boxes |-> b, cid |-> c]
      BY <1>2, <2>2 DEF Destination
    <3> QED BY <3>1
  <2>3. CASE From(b, Nested(c, i)) = {} /\ Free(b) # {}
    <3>1. PICK d \in Free(b) : TRUE
      BY <2>3
    <3>2. d \in Cid /\ First(Free(b)) = d
      BY FreeIs
    <3>3. b[c] \in OpenBoxes /\ b[c].items \in Seq(Things)
      BY <1>2, OpenBoxIs DEF BoxMaps
    <3>4. b[c].items[i].kind \in Kind /\ i \in Nat
      BY <1>2, <3>3, SeqIs, ThingIs
    <3> DEFINE x == Box(b[c].items[i].kind, Nested(c, i), <<>>, FALSE)
    <3>5. x \in OpenBoxes /\ x.items = <<>> /\ x.open = FALSE
      <4>1. Nested(c, i) \in Source /\ <<>> \in Seq(Things)
        BY <3>4, SourceIs
      <4> QED BY <3>4, <4>1, BoxIs, ZenonT(30)
    <3>6. Destination(b, c, i) = [boxes |-> [b EXCEPT ![d] = x], cid |-> d]
      BY <1>2, <2>3, <3>2 DEF Destination
    <3>7. [b EXCEPT ![d] = x] \in BoxMaps
      BY <3>2, <3>5 DEF BoxMaps
    <3> HIDE DEF x
    <3>8. Destination(b, c, i).boxes = [b EXCEPT ![d] = x] /\ Destination(b, c, i).cid = d
      BY <3>6
    <3>9. \E y \in OpenBoxes : /\ Destination(b, c, i).boxes = [b EXCEPT ![d] = y]
                               /\ y.items = <<>> /\ y.open = FALSE
      BY <3>5, <3>8
    <3> QED BY <3>1, <3>2, <3>7, <3>8, <3>9
  <2> QED BY <2>1, <2>2, <2>3
<1> QED BY <1>1, <1>2

LEMMA FiniteUnion ==
    ASSUME NEW C, IsFiniteSet(C), NEW F, \A c \in C : IsFiniteSet(F[c])
    PROVE  IsFiniteSet(UNION {F[c] : c \in C})
<1> DEFINE T == {F[c] : c \in C}
           g == [c \in C |-> F[c]]
<1>1. g \in Surjection(C, T)
  BY DEF Surjection
<1>2. IsFiniteSet(T)
  <2> HIDE DEF g, T
  <2> QED BY <1>1, FS_Surjection
<1> QED BY <1>2, FS_UNION

\* The places in some boxes, as pairs of a box and an index or the other way round.
PlacesOf(b, C) == UNION {{c} \X DOMAIN b[c].items : c \in C}
SpotsOf(b, C) == UNION {(DOMAIN b[c].items) \X {c} : c \in C}

LEMMA PlacesFinite ==
    ASSUME NEW b \in BoxMaps, NEW C, C \subseteq Used(b)
    PROVE  /\ IsFiniteSet(PlacesOf(b, C)) /\ PlacesOf(b, C) \subseteq Nat \X Nat
           /\ IsFiniteSet(SpotsOf(b, C)) /\ SpotsOf(b, C) \subseteq Nat \X Nat
           /\ \A c, i : <<c, i>> \in PlacesOf(b, C) <=> c \in C /\ i \in DOMAIN b[c].items
           /\ \A c, i : <<i, c>> \in SpotsOf(b, C) <=> c \in C /\ i \in DOMAIN b[c].items
           /\ \A u \in PlacesOf(b, C) : /\ u = <<u[1], u[2]>> /\ u[1] \in C /\ u[2] \in DOMAIN b[u[1]].items
                                        /\ b[u[1]].items[u[2]] \in Things
           /\ \A u \in SpotsOf(b, C) : /\ u = <<u[1], u[2]>> /\ u[2] \in C /\ u[1] \in DOMAIN b[u[2]].items
                                       /\ b[u[2]].items[u[1]] \in Things
<1>1. ASSUME NEW c \in C
      PROVE  /\ c \in Nat /\ b[c].items \in Seq(Things) /\ DOMAIN b[c].items \subseteq Nat
             /\ IsFiniteSet(DOMAIN b[c].items) /\ IsFiniteSet({c})
             /\ \A i \in DOMAIN b[c].items : b[c].items[i] \in Things
  <2>1. c \in Nat /\ b[c].items \in Seq(Things)
    BY UsedIs, OpenBoxIs
  <2>2. DOMAIN b[c].items = 1..Len(b[c].items) /\ Len(b[c].items) \in Nat
    BY <2>1, SeqIs
  <2>3. IsFiniteSet(1..Len(b[c].items))
    BY <2>2, FS_Interval
  <2> QED BY <2>1, <2>2, <2>3, SeqIs, FS_Singleton
<1>2. IsFiniteSet(C)
  <2>1. IsFiniteSet(Cid) /\ C \in SUBSET Cid
    BY UsedIs, ItemsAssumption
  <2> QED BY <2>1, FS_Subset
<1>3. IsFiniteSet(PlacesOf(b, C))
  <2> DEFINE F == [c \in C |-> {c} \X DOMAIN b[c].items]
  <2>1. \A c \in C : F[c] = {c} \X DOMAIN b[c].items
    OBVIOUS
  <2>2. ASSUME NEW c \in C PROVE IsFiniteSet(F[c])
    <3>1. IsFiniteSet({c} \X DOMAIN b[c].items)
      BY <1>1, FS_Product
    <3> QED BY <2>1, <3>1
  <2>3. PlacesOf(b, C) = UNION {F[c] : c \in C}
    BY <2>1 DEF PlacesOf
  <2> HIDE DEF F
  <2> QED BY <1>2, <2>2, <2>3, FiniteUnion
<1>4. IsFiniteSet(SpotsOf(b, C))
  <2> DEFINE F == [c \in C |-> (DOMAIN b[c].items) \X {c}]
  <2>1. \A c \in C : F[c] = (DOMAIN b[c].items) \X {c}
    OBVIOUS
  <2>2. ASSUME NEW c \in C PROVE IsFiniteSet(F[c])
    <3>1. IsFiniteSet((DOMAIN b[c].items) \X {c})
      BY <1>1, FS_Product
    <3> QED BY <2>1, <3>1
  <2>3. SpotsOf(b, C) = UNION {F[c] : c \in C}
    BY <2>1 DEF SpotsOf
  <2> HIDE DEF F
  <2> QED BY <1>2, <2>2, <2>3, FiniteUnion
<1>5. \A u \in PlacesOf(b, C) : u = <<u[1], u[2]>> /\ u[1] \in C /\ u[2] \in DOMAIN b[u[1]].items
  BY DEF PlacesOf
<1>6. \A u \in SpotsOf(b, C) : u = <<u[1], u[2]>> /\ u[2] \in C /\ u[1] \in DOMAIN b[u[2]].items
  BY DEF SpotsOf
<1>7. PlacesOf(b, C) \subseteq Nat \X Nat
  <2>1. ASSUME NEW u \in PlacesOf(b, C) PROVE u \in Nat \X Nat
    <3>1. u = <<u[1], u[2]>> /\ u[1] \in Nat /\ u[2] \in Nat
      BY <1>1, <1>5
    <3> QED BY <3>1
  <2> QED BY <2>1
<1>8. SpotsOf(b, C) \subseteq Nat \X Nat
  <2>1. ASSUME NEW u \in SpotsOf(b, C) PROVE u \in Nat \X Nat
    <3>1. u = <<u[1], u[2]>> /\ u[1] \in Nat /\ u[2] \in Nat
      BY <1>1, <1>6
    <3> QED BY <3>1
  <2> QED BY <2>1
<1>9. \A c, i : <<c, i>> \in PlacesOf(b, C) <=> c \in C /\ i \in DOMAIN b[c].items
  BY DEF PlacesOf
<1>10. \A c, i : <<i, c>> \in SpotsOf(b, C) <=> c \in C /\ i \in DOMAIN b[c].items
  BY DEF SpotsOf
<1> QED BY <1>1, <1>3, <1>4, <1>5, <1>6, <1>7, <1>8, <1>9, <1>10

Saves == [worn : [Slot -> Things \union {None}], rows : [Slot -> Seq(Things)]]
RowOf(b, s) == [u \in SpotsOf(b, From(b, InSlot(s))) |-> b[u[2]].items[u[1]]]

LEMMA RowsAre ==
    ASSUME NEW b \in BoxMaps
    PROVE  /\ Rows(b) \in [Slot -> Seq(Things)]
           /\ Rows(b) = [s \in Slot |-> Line(RowOf(b, s))]
<1>1. Rows(b) = [s \in Slot |-> Line(RowOf(b, s))]
  BY DEF Rows, RowOf, SpotsOf
<1>2. ASSUME NEW s \in Slot PROVE Line(RowOf(b, s)) \in Seq(Things)
  <2> DEFINE f == RowOf(b, s)
             C == From(b, InSlot(s))
  <2>1. C \subseteq Used(b)
    BY DEF From
  <2>2. DOMAIN f = SpotsOf(b, C) /\ \A u \in DOMAIN f : f[u] = b[u[2]].items[u[1]]
    BY DEF RowOf
  <2> HIDE DEF f, C
  <2>3. IsFiniteSet(DOMAIN f) /\ DOMAIN f \subseteq Nat \X Nat /\ \A u \in DOMAIN f : f[u] \in Things
    BY <2>1, <2>2, PlacesFinite
  <2>4. Line(f) \in Seq(Things)
    BY <2>3, LineIs
  <2> QED BY <2>4 DEF f
<1> QED BY <1>1, <1>2

Below(S, x) == {z \in S : z < x}

LEMMA RankOnce ==
    ASSUME NEW S, IsFiniteSet(S), S \subseteq Nat, NEW x \in S, NEW y \in S,
           Cardinality(Below(S, x)) = Cardinality(Below(S, y))
    PROVE  x = y
<1>1. ASSUME NEW v \in S, NEW w \in S, v < w
      PROVE  Cardinality(Below(S, v)) # Cardinality(Below(S, w))
  <2>0. \A z \in S : z \in Nat
    OBVIOUS
  <2>4. ASSUME NEW z \in Below(S, v) PROVE z \in Below(S, w)
    <3>1. z \in S /\ z < v /\ z \in Nat /\ v \in Nat /\ w \in Nat
      BY <2>0 DEF Below
    <3>2. z < w
      BY <1>1, <3>1
    <3> QED BY <3>1, <3>2 DEF Below
  <2>5. v \in Below(S, w)
    BY <1>1 DEF Below
  <2>6. v \notin Below(S, v)
    <3>1. v \in Nat /\ ~(v < v)
      BY <2>0
    <3> QED BY <3>1 DEF Below
  <2>7. Below(S, w) \in SUBSET S
    BY DEF Below
  <2>1. Below(S, v) \in SUBSET Below(S, w) /\ v \in Below(S, w) /\ v \notin Below(S, v)
        /\ Below(S, w) \in SUBSET S
    BY <2>4, <2>5, <2>6, <2>7
  <2>2. IsFiniteSet(Below(S, w))
    BY <2>1, FS_Subset
  <2> QED BY <2>1, <2>2, FS_Subset
<1>2. x < y \/ y < x \/ x = y
  OBVIOUS
<1> QED BY <1>1, <1>2

\* The restored boxes are closed, and each holds what was saved of a slot of its own.
LEMMA RestoredIs ==
    ASSUME NEW save \in Saves
    PROVE  /\ Restored(save) \in BoxMaps
           /\ Opened(Restored(save)) = {}
           /\ \E h \in [Used(Restored(save)) -> Slot] :
                /\ \A c, d \in Used(Restored(save)) : h[c] = h[d] => c = d
                /\ \A c \in Used(Restored(save)) : Restored(save)[c].items = save.rows[h[c]]
<1> DEFINE R == Restored(save)
           bags == {s \in Slot : save.worn[s] # None /\ save.worn[s].kind \in Container}
           rank(x, S) == Cardinality(Below(S, x))
           held(c) == {s \in bags : rank(s, bags) = rank(c, Cid)}
           slot(c) == First(held(c))
<1>1. Slot \subseteq Nat /\ IsFiniteSet(Cid) /\ Cid \subseteq Nat
  BY ItemsAssumption
<1>2. ASSUME NEW c \in Cid, held(c) # {}
      PROVE  slot(c) \in Slot /\ save.worn[slot(c)].kind \in Kind /\ rank(slot(c), bags) = rank(c, Cid)
  <2>1. slot(c) \in held(c)
    <3>1. held(c) \subseteq Nat
      BY <1>1
    <3> HIDE DEF held
    <3> QED BY <1>2, <3>1, FirstIn
  <2>2. slot(c) \in Slot /\ save.worn[slot(c)].kind \in Container /\ rank(slot(c), bags) = rank(c, Cid)
    BY <2>1
  <2> HIDE DEF slot, held, rank, bags
  <2> QED BY <2>2, ItemsAssumption
<1>3. ASSUME NEW c \in Cid
      PROVE  R[c] = IF held(c) = {} THEN None
                    ELSE Box(save.worn[slot(c)].kind, InSlot(slot(c)), save.rows[slot(c)], FALSE)
  BY DEF Restored, Below
<1>4. ASSUME NEW c \in Cid, held(c) # {}
      PROVE  R[c] \in OpenBoxes /\ R[c].items = save.rows[slot(c)] /\ R[c].open = FALSE
  <2>1. save.rows[slot(c)] \in Seq(Things) /\ InSlot(slot(c)) \in Source /\ save.worn[slot(c)].kind \in Kind
    <3>1. slot(c) \in Slot /\ save.worn[slot(c)].kind \in Kind
      BY <1>2, <1>4
    <3> HIDE DEF slot, held
    <3> QED BY <3>1, SourceIs DEF Saves
  <2>2. R[c] = Box(save.worn[slot(c)].kind, InSlot(slot(c)), save.rows[slot(c)], FALSE)
    BY <1>3, <1>4
  <2> DEFINE k == save.worn[slot(c)].kind
             o == InSlot(slot(c))
             t == save.rows[slot(c)]
  <2>3. k \in Kind /\ o \in Source /\ t \in Seq(Things) /\ R[c] = Box(k, o, t, FALSE)
    BY <2>1, <2>2
  <2> HIDE DEF slot, held, R, k, o, t
  <2>4. Capacity[k] \in Nat /\ Box(k, o, t, FALSE)
            = [items |-> t, source |-> o, open |-> FALSE, capacity |-> Capacity[k]]
    BY <2>3, ItemsAssumption DEF Box
  <2>5. Box(k, o, t, FALSE) \in OpenBoxes
    BY <2>3, <2>4, OpenBoxMade
  <2>7. R[c] = [items |-> t, source |-> o, open |-> FALSE, capacity |-> Capacity[k]]
    BY <2>3, <2>4
  <2>8. R[c].items = t /\ R[c].open = FALSE
    BY <2>7
  <2>6. R[c] \in OpenBoxes /\ R[c].items = t /\ R[c].open = FALSE
    BY <2>3, <2>5, <2>8
  <2> QED BY <2>6 DEF t
<1>5. R = [c \in Cid |-> R[c]]
  BY DEF Restored
<1> HIDE DEF R
<1>6. \A c \in Cid : R[c] \in OpenBoxes \union {None}
  <2> HIDE DEF held, slot
  <2> QED BY <1>3, <1>4
<1>7. R \in BoxMaps
  BY <1>5, <1>6 DEF BoxMaps
<1>8. \A c \in Used(R) : c \in Cid /\ held(c) # {}
  <2> HIDE DEF held, slot
  <2> QED BY <1>3 DEF Used
<1> DEFINE h == [c \in Used(R) |-> slot(c)]
<1>9. h \in [Used(R) -> Slot]
  <2> HIDE DEF held, slot
  <2> QED BY <1>2, <1>8
<1>10. ASSUME NEW c \in Used(R), NEW d \in Used(R), h[c] = h[d] PROVE c = d
  <2>1. rank(slot(c), bags) = rank(c, Cid) /\ rank(slot(d), bags) = rank(d, Cid) /\ c \in Cid /\ d \in Cid
    <3> HIDE DEF held, slot, rank
    <3> QED BY <1>2, <1>8
  <2>2. slot(c) = slot(d)
    BY <1>10
  <2>3. rank(c, Cid) = rank(d, Cid)
    <3> HIDE DEF slot, rank, bags
    <3> QED BY <2>1, <2>2
  <2> QED BY <1>1, <2>1, <2>3, RankOnce
<1>11. ASSUME NEW c \in Used(R) PROVE R[c].items = save.rows[h[c]]
  <2> HIDE DEF held, slot
  <2> QED BY <1>4, <1>8
<1>12. Opened(R) = {}
  <2>1. ASSUME NEW c \in Used(R) PROVE R[c].open = FALSE
    <3> HIDE DEF held, slot
    <3> QED BY <1>4, <1>8
  <2> QED BY <2>1 DEF Opened
<1> HIDE DEF h
<1> QED BY <1>7, <1>9, <1>10, <1>11, <1>12 DEF R

(***************************************************************************)
(* The inductive invariant: types, and windows within reach.               *)
(***************************************************************************)
Wear == [Slot -> Things \union {None}]
Windows(b, t) == \A c \in Opened(b) : b[c].source.in = "ground" => Near(b[c].source.at, t)
Good(x) == x \in [at : Tile, worn : Wear, boxes : BoxMaps] /\ Windows(x.boxes, x.at)

GroundOK == ground \in [Tile -> Piles]
PlayersOK == Here \subseteq Player /\ \A p \in Here : Good(players[p])
SavedOK == saved \in [Player -> Saves]
LootOK == loot \in [Tile -> Seq(Things) \union {None}]
CorpsesOK == corpses \in [Tile -> {HumanCorpse, MonsterCorpse, None}]
DecayingOK == decaying \subseteq [tile : Tile, sp : Nat, kind : {Splash, HumanCorpse, MonsterCorpse}]
MadeOK == made \in [Kind -> Nat] /\ doubled \in [Kind -> Nat]

Inv == /\ GroundOK /\ PlayersOK /\ SavedOK /\ LootOK /\ CorpsesOK /\ DecayingOK /\ MadeOK
       /\ up \in BOOLEAN

LEMMA InvIs == Inv <=> TypeOK /\ GroundWindowsNear
BY DEF Inv, TypeOK, GroundWindowsNear, GroundOK, PlayersOK, SavedOK, LootOK, CorpsesOK, DecayingOK,
       MadeOK, Good, Windows, Wear, BoxMaps, Saves, At, Boxes

LEMMA GoodIs ==
    ASSUME NEW x, Good(x)
    PROVE  /\ x.at \in Tile /\ x.worn \in Wear /\ x.boxes \in BoxMaps /\ Windows(x.boxes, x.at)
           /\ x = [at |-> x.at, worn |-> x.worn, boxes |-> x.boxes]
BY DEF Good

LEMMA GoodMade ==
    ASSUME NEW t \in Tile, NEW worn \in Wear, NEW b \in BoxMaps, Windows(b, t)
    PROVE  Good([at |-> t, worn |-> worn, boxes |-> b])
BY DEF Good

LEMMA PlayerIs ==
    ASSUME PlayersOK, NEW p \in Here
    PROVE  /\ p \in Player /\ At(p) \in Tile /\ Worn(p) \in Wear /\ Boxes(p) \in BoxMaps
           /\ Windows(Boxes(p), At(p))
           /\ \A s \in Slot : Worn(p)[s] # None => Worn(p)[s] \in Things
BY GoodIs DEF PlayersOK, At, Worn, Boxes, Wear

\* Boxes that sit leave the windows where they are.
LEMMA SitsNear ==
    ASSUME NEW b, NEW e, NEW t, Sits(b, e), Windows(b, t)
    PROVE  Windows(e, t)
<1>1. ASSUME NEW c \in Opened(e), e[c].source.in = "ground" PROVE Near(e[c].source.at, t)
  <2>1. c \in Used(b) /\ e[c].open
    BY DEF Opened, Sits
  <2>2. b[c].open /\ b[c].source.in = "ground" /\ e[c].source = b[c].source
    BY <1>1, <2>1 DEF Sits
  <2> QED BY <2>1, <2>2 DEF Windows, Opened
<1> QED BY <1>1 DEF Windows

LEMMA HasIs ==
    ASSUME PlayersOK, NEW p \in Here, NEW worn, NEW b, Has(p, worn, b)
    PROVE  /\ saved' = saved /\ Here' = Here
           /\ players'[p] = [at |-> At(p), worn |-> worn, boxes |-> b]
           /\ \A q \in Here \ {p} : players'[q] = players[q]
<1> DEFINE x == [at |-> At(p), worn |-> worn, boxes |-> b]
<1>1. Good(players[p])
  BY DEF PlayersOK
<1>2. players[p] = [at |-> players[p].at, worn |-> players[p].worn, boxes |-> players[p].boxes]
  BY <1>1, GoodIs
<1>3. [[players[p] EXCEPT !.worn = worn] EXCEPT !.boxes = b] = x
  <2> DEFINE r == players[p]
             y == [at |-> r.at, worn |-> worn, boxes |-> r.boxes]
  <2>1. [r EXCEPT !.worn = worn] = y
    <3>1. r \in [at : Tile, worn : Wear, boxes : BoxMaps]
      BY <1>1 DEF Good
    <3> HIDE DEF r
    <3> QED BY <3>1
  <2>2. [y EXCEPT !.boxes = b] = [at |-> r.at, worn |-> worn, boxes |-> b]
    <3> HIDE DEF r
    <3> QED OBVIOUS
  <2> HIDE DEF y
  <2> QED BY <2>1, <2>2 DEF At
<1>4. players' = [players EXCEPT ![p] = [[players[p] EXCEPT !.worn = worn] EXCEPT !.boxes = b]]
  BY DEF Has, Here
<1>5. players' = [players EXCEPT ![p] = x]
  BY <1>3, <1>4
<1> HIDE DEF x
<1>6. DOMAIN players' = DOMAIN players /\ players'[p] = x /\ \A q \in Here \ {p} : players'[q] = players[q]
  BY <1>5 DEF Here
<1> QED BY <1>6 DEF Has, Here, x

LEMMA HasKeeps ==
    ASSUME PlayersOK, NEW p \in Here, NEW worn \in Wear, NEW b \in BoxMaps, Windows(b, At(p)),
           Has(p, worn, b)
    PROVE  PlayersOK' /\ saved' = saved
<1>1. /\ saved' = saved /\ Here' = Here
      /\ players'[p] = [at |-> At(p), worn |-> worn, boxes |-> b]
      /\ \A q \in Here \ {p} : players'[q] = players[q]
  BY HasIs
<1>2. Good(players'[p])
  <2>1. At(p) \in Tile
    BY PlayerIs
  <2> QED BY <1>1, <2>1, GoodMade
<1>3. \A q \in Here' : Good(players'[q])
  BY <1>1, <1>2 DEF PlayersOK
<1>4. \A q \in Here' : Good(players[q])'
  BY <1>3 DEF Good, Windows, Opened, Used, Near
<1> QED BY <1>1, <1>4 DEF PlayersOK

LEMMA LeavesWithIs ==
    ASSUME NEW p \in Here, SavedOK, PlayersOK, NEW worn, NEW b, LeavesWith(p, worn, b)
    PROVE  /\ Here' = Here \ {p}
           /\ \A q \in Here \ {p} : players'[q] = players[q]
           /\ saved' = [saved EXCEPT ![p] = [worn |-> worn, rows |-> Rows(b)]]
           /\ saved'[p] = [worn |-> worn, rows |-> Rows(b)]
           /\ \A q \in Player \ {p} : saved'[q] = saved[q]
<1>1. p \in DOMAIN saved
  BY PlayerIs DEF SavedOK
<1>2. Here' = Here \ {p} /\ \A q \in Here \ {p} : players'[q] = players[q]
  BY DEF LeavesWith, Without, Here
<1>3. saved' = [saved EXCEPT ![p] = [worn |-> worn, rows |-> Rows(b)]]
  BY DEF LeavesWith
<1> QED BY <1>1, <1>2, <1>3 DEF SavedOK

LEMMA LeavesWithKeeps ==
    ASSUME PlayersOK, SavedOK, NEW p \in Here, NEW worn \in Wear, NEW b \in BoxMaps,
           LeavesWith(p, worn, b)
    PROVE  PlayersOK' /\ SavedOK'
<1>1. /\ Here' = Here \ {p}
      /\ \A q \in Here \ {p} : players'[q] = players[q]
      /\ saved' = [saved EXCEPT ![p] = [worn |-> worn, rows |-> Rows(b)]]
  BY LeavesWithIs
<1>2. \A q \in Here' : Good(players'[q])
  BY <1>1 DEF PlayersOK
<1>3. \A q \in Here' : Good(players[q])'
  BY <1>2 DEF Good, Windows, Opened, Used, Near
<1>4. [worn |-> worn, rows |-> Rows(b)] \in Saves
  BY RowsAre DEF Saves, Wear
<1>5. SavedOK'
  BY <1>1, <1>4 DEF SavedOK
<1> QED BY <1>1, <1>3, <1>5 DEF PlayersOK

LEMMA LeavesIs ==
    ASSUME NEW p, Leaves(p)
    PROVE  LeavesWith(p, Worn(p), Boxes(p))
BY DEF Leaves, LeavesWith, SaveOf

LEMMA LeavesKeeps ==
    ASSUME PlayersOK, SavedOK, NEW p \in Here, Leaves(p)
    PROVE  PlayersOK' /\ SavedOK'
BY LeavesIs, LeavesWithKeeps, PlayerIs

LEMMA SameKeeps ==
    ASSUME PlayersOK, SavedOK, UNCHANGED <<players, saved>>
    PROVE  PlayersOK' /\ SavedOK'
BY DEF PlayersOK, SavedOK, Here, Good, Windows, Opened, Used, Near

LEMMA EndsKeeps ==
    ASSUME PlayersOK, SavedOK, NEW p \in Here, NEW cut, NEW worn \in Wear, NEW b \in BoxMaps,
           Windows(b, At(p)), Ends(p, cut, worn, b)
    PROVE  PlayersOK' /\ SavedOK'
<1>1. CASE cut
  BY <1>1, LeavesWithKeeps DEF Ends
<1>2. CASE ~cut
  BY <1>2, HasKeeps DEF Ends, SavedOK
<1> QED BY <1>1, <1>2

(***************************************************************************)
(* Every action keeps the invariant.                                       *)
(***************************************************************************)
LEMMA RestKeeps ==
    ASSUME Inv, UNCHANGED <<loot, corpses, decaying, made, doubled, up>>, GroundOK', PlayersOK', SavedOK'
    PROVE  Inv'
<1>1. LootOK' /\ CorpsesOK' /\ DecayingOK' /\ MadeOK' /\ up' \in BOOLEAN
  BY DEF Inv, LootOK, CorpsesOK, DecayingOK, MadeOK
<1> QED BY <1>1 DEF Inv

LEMMA BoxesKeep ==
    ASSUME Inv, UNCHANGED <<ground, loot, corpses, decaying, made, doubled, up>>, PlayersOK', SavedOK'
    PROVE  Inv'
<1>1. GroundOK'
  BY DEF Inv, GroundOK
<1> QED BY <1>1, RestKeeps

LEMMA TileIs ==
    ASSUME GroundOK, NEW t \in Tile
    PROVE  /\ ground[t] \in Piles /\ ground[t].stack \in Seq(Things)
           /\ \A i \in Items(t) : ground[t].stack[i] \in Things /\ ground[t].stack[i].kind \in Kind
BY PileIs, SeqIs, ThingIs DEF GroundOK, Items

LEMMA InitKeeps == Init => Inv
<1>1. ASSUME Init PROVE Inv
  <2>1. GroundOK
    BY <1>1, ItemsAssumption DEF Init, GroundOK
  <2>2. PlayersOK
    BY <1>1 DEF Init, PlayersOK, Here
  <2>3. SavedOK
    BY <1>1 DEF Init, SavedOK, Saves
  <2>4. LootOK /\ CorpsesOK /\ DecayingOK /\ MadeOK /\ up \in BOOLEAN
    BY <1>1 DEF Init, LootOK, CorpsesOK, DecayingOK, MadeOK
  <2> QED BY <2>1, <2>2, <2>3, <2>4 DEF Inv
<1> QED BY <1>1

LEMMA LoginKeeps == ASSUME Inv, NEW p \in Player, NEW t \in Tile, Login(p, t) PROVE Inv'
<1> DEFINE x == [at |-> t, worn |-> saved[p].worn, boxes |-> Restored(saved[p])]
<1>1. saved[p] \in Saves /\ saved[p].worn \in Wear
  BY DEF Inv, SavedOK, Saves, Wear
<1>2. Restored(saved[p]) \in BoxMaps /\ Windows(Restored(saved[p]), t)
  BY <1>1, RestoredIs DEF Windows
<1>3. Good(x)
  BY <1>1, <1>2, GoodMade
<1> HIDE DEF x
<1>4. Here' = Here \union {p} /\ players'[p] = x /\ \A q \in Here : players'[q] = players[q]
  BY DEF Login, Here, x
<1>5. \A q \in Here' : Good(players'[q])
  BY <1>3, <1>4 DEF Inv, PlayersOK
<1>6. \A q \in Here' : Good(players[q])'
  BY <1>5 DEF Good, Windows, Opened, Used, Near
<1>7. PlayersOK'
  BY <1>4, <1>6 DEF Inv, PlayersOK
<1>8. SavedOK' /\ UNCHANGED <<ground, loot, corpses, decaying, made, doubled, up>>
  BY DEF Login, Inv, SavedOK
<1> QED BY <1>7, <1>8, BoxesKeep

LEMMA LogoutKeeps == ASSUME Inv, NEW p, Logout(p) PROVE Inv'
<1>1. p \in Here /\ Leaves(p) /\ UNCHANGED <<ground, loot, corpses, decaying, made, doubled, up>>
  BY DEF Logout
<1>2. PlayersOK /\ SavedOK
  BY DEF Inv
<1> QED BY <1>1, <1>2, LeavesKeeps, BoxesKeep

LEMMA StepKeeps == ASSUME Inv, NEW p, NEW t \in Tile, Step(p, t) PROVE Inv'
<1> DEFINE b == WalkedAway(Boxes(p), t)
           x == [at |-> t, worn |-> Worn(p), boxes |-> b]
<1>1. p \in Here /\ PlayersOK /\ SavedOK
  BY DEF Step, Inv
<1>2. Worn(p) \in Wear /\ Boxes(p) \in BoxMaps
  BY <1>1, PlayerIs
<1>3. b \in BoxMaps /\ Windows(b, t)
  <2>1. Sits(Boxes(p), b) /\ \A c \in Opened(b) : b[c].source.in = "ground" => Near(b[c].source.at, t)
    BY <1>2, WalkedAwayIs
  <2> HIDE DEF b
  <2> QED BY <2>1 DEF Sits, Windows
<1>4. Good(x)
  BY <1>2, <1>3, GoodMade
<1>5. players' = [players EXCEPT ![p] = [[players[p] EXCEPT !.at = t] EXCEPT !.boxes = b]]
  BY DEF Step, Boxes
<1>6. [[players[p] EXCEPT !.at = t] EXCEPT !.boxes = b] = x
  <2> DEFINE r == players[p]
             y == [at |-> t, worn |-> r.worn, boxes |-> r.boxes]
  <2>1. [r EXCEPT !.at = t] = y
    <3>1. r \in [at : Tile, worn : Wear, boxes : BoxMaps]
      BY <1>1 DEF Good, PlayersOK
    <3> HIDE DEF r
    <3> QED BY <3>1
  <2>2. [y EXCEPT !.boxes = b] = [at |-> t, worn |-> r.worn, boxes |-> b]
    <3> HIDE DEF r, b
    <3> QED OBVIOUS
  <2> HIDE DEF y, b
  <2> QED BY <2>1, <2>2 DEF Worn
<1> HIDE DEF x, b
<1>7. Here' = Here /\ players'[p] = x /\ \A q \in Here \ {p} : players'[q] = players[q]
  BY <1>1, <1>5, <1>6 DEF Here
<1>8. \A q \in Here' : Good(players'[q])
  BY <1>1, <1>4, <1>7 DEF PlayersOK
<1>9. \A q \in Here' : Good(players[q])'
  BY <1>8 DEF Good, Windows, Opened, Used, Near
<1>10. PlayersOK'
  BY <1>1, <1>7, <1>9 DEF PlayersOK
<1>11. SavedOK' /\ UNCHANGED <<ground, loot, corpses, decaying, made, doubled, up>>
  BY <1>1 DEF Step, SavedOK
<1> QED BY <1>10, <1>11, BoxesKeep

LEMMA TakenHere ==
    ASSUME GroundOK, NEW a \in Tile, NEW i \in Items(a), NEW n \in Nat
    PROVE  [ground[a].stack[i] EXCEPT !.count = Taken(ground[a], i, n)] \in Things
<1> DEFINE st == ground[a]
<1>1. st \in Piles /\ i \in DOMAIN st.stack
  BY DEF GroundOK, Items
<1> HIDE DEF st
<1>2. [st.stack[i] EXCEPT !.count = Taken(st, i, n)] \in Things
  <2>1. /\ [st.stack[i] EXCEPT !.count = Taken(st, i, n)]
             = [kind |-> st.stack[i].kind, count |-> Taken(st, i, n)]
        /\ [kind |-> st.stack[i].kind, count |-> Taken(st, i, n)] \in Things
    BY <1>1, TakenIs
  <2> QED BY <2>1
<1> QED BY <1>2 DEF st

\* What is taken from a tile, and what is put on one.
LEMMA TakeKeeps ==
    ASSUME GroundOK, NEW a \in Tile, NEW i \in Items(a), NEW n \in Nat,
           ground' = [ground EXCEPT ![a] = Take(@, i, n)]
    PROVE  /\ GroundOK'
           /\ [ground[a].stack[i] EXCEPT !.count = Taken(ground[a], i, n)] \in Things
<1>1. ground[a] \in Piles
  BY DEF GroundOK
<1>2. Take(ground[a], i, n) \in Piles
  BY <1>1, TakeIs DEF Items
<1>3. ground' = [ground EXCEPT ![a] = Take(ground[a], i, n)]
  OBVIOUS
<1>4. GroundOK'
  BY <1>2, <1>3 DEF GroundOK
<1>5. [ground[a].stack[i] EXCEPT !.count = Taken(ground[a], i, n)] \in Things
  BY TakenHere
<1> QED BY <1>4, <1>5

LEMMA PutKeeps ==
    ASSUME GroundOK, NEW b \in Tile, Sound(ground[b]), NEW x \in Things,
           ground' = [ground EXCEPT ![b] = Put(@, x)]
    PROVE  GroundOK'
<1>1. Put(ground[b], x) \in Piles
  BY PutIs DEF GroundOK
<1>2. ground' = [ground EXCEPT ![b] = Put(ground[b], x)]
  OBVIOUS
<1> QED BY <1>1, <1>2 DEF GroundOK

\* A window that follows its container, and is closed when out of reach.
LEMMA FollowedKeeps ==
    ASSUME NEW b \in BoxMaps, NEW old, NEW new \in Source, NEW t
    PROVE  /\ WalkedAway(Rekey(b, old, new), t) \in BoxMaps
           /\ Windows(WalkedAway(Rekey(b, old, new), t), t)
           /\ Rekey(b, old, new) \in BoxMaps
           /\ new.in # "ground" /\ Windows(b, t) => Windows(Rekey(b, old, new), t)
<1> DEFINE r == Rekey(b, old, new)
           e == WalkedAway(r, t)
<1>1. /\ r \in BoxMaps /\ Used(r) = Used(b)
      /\ \A d \in Used(b) : r[d].open = b[d].open /\ r[d].source \in {new, b[d].source}
  BY RekeyIs
<1> HIDE DEF r
<1>2. Sits(r, e) /\ \A c \in Opened(e) : e[c].source.in = "ground" => Near(e[c].source.at, t)
  BY <1>1, WalkedAwayIs
<1> HIDE DEF e
<1>3. e \in BoxMaps /\ Windows(e, t)
  BY <1>2 DEF Sits, Windows
<1>4. ASSUME new.in # "ground", Windows(b, t) PROVE Windows(r, t)
  <2>1. ASSUME NEW c \in Opened(r), r[c].source.in = "ground" PROVE Near(r[c].source.at, t)
    <3>1. c \in Used(b) /\ r[c].open
      BY <1>1 DEF Opened
    <3>2. b[c].open
      BY <1>1, <3>1
    <3>3. r[c].source = b[c].source
      BY <1>1, <1>4, <2>1, <3>1
    <3> QED BY <1>4, <2>1, <3>1, <3>2, <3>3 DEF Windows, Opened
  <2> QED BY <2>1 DEF Windows
<1> QED BY <1>1, <1>3, <1>4 DEF r, e

LEMMA GroundToGroundKeeps ==
    ASSUME Inv, NEW p, NEW a \in Tile, NEW b \in Tile, NEW n \in Nat, NEW i \in Items(a),
           GroundToGround(p, a, i, b, n)
    PROVE  Inv'
<1> DEFINE thing == [ground[a].stack[i] EXCEPT !.count = Taken(ground[a], i, n)]
           followed == Rekey(Boxes(p), OnGround(a), OnGround(b))
<1>1. /\ p \in Here /\ a # b /\ Sound(ground[b])
      /\ ground' = [ground EXCEPT ![a] = Take(@, i, n), ![b] = Put(@, thing)]
      /\ \/ Has(p, Worn(p), WalkedAway(followed, At(p)))
         \/ UNCHANGED <<players, saved>>
      /\ UNCHANGED <<loot, corpses, decaying, made, doubled, up>>
  BY DEF GroundToGround
<1>2. PlayersOK /\ SavedOK /\ GroundOK
  BY DEF Inv
<1>3. thing \in Things
  BY <1>2, TakenHere
<1> HIDE DEF thing
<1>4. Take(ground[a], i, n) \in Piles /\ Put(ground[b], thing) \in Piles
  BY <1>1, <1>2, <1>3, TakeIs, PutIs DEF GroundOK, Items
<1>5. GroundOK'
  <2>1. ground' = [ground EXCEPT ![a] = Take(ground[a], i, n), ![b] = Put(ground[b], thing)]
    BY <1>1, <1>2 DEF GroundOK
  <2> QED BY <1>2, <1>4, <2>1 DEF GroundOK
<1>6. PlayersOK' /\ SavedOK'
  <2>1. CASE Has(p, Worn(p), WalkedAway(followed, At(p)))
    <3>1. WalkedAway(followed, At(p)) \in BoxMaps /\ Windows(WalkedAway(followed, At(p)), At(p))
      BY <1>1, <1>2, PlayerIs, SourceIs, FollowedKeeps
    <3>2. Worn(p) \in Wear
      BY <1>1, <1>2, PlayerIs
    <3> HIDE DEF followed
    <3>3. PlayersOK' /\ saved' = saved
      BY <1>1, <1>2, <2>1, <3>1, <3>2, HasKeeps
    <3> QED BY <1>2, <3>3 DEF SavedOK
  <2>2. CASE UNCHANGED <<players, saved>>
    BY <1>2, <2>2, SameKeeps
  <2> QED BY <1>1, <2>1, <2>2
<1> QED BY <1>1, <1>5, <1>6, RestKeeps

LEMMA EquipKeeps ==
    ASSUME Inv, NEW p, NEW a \in Tile, NEW n \in Nat, NEW i \in Items(a), NEW s \in Slot, NEW cut,
           Equip(p, a, i, s, n, cut)
    PROVE  Inv'
<1> DEFINE thing == [ground[a].stack[i] EXCEPT !.count = Taken(ground[a], i, n)]
           worn == [Worn(p) EXCEPT ![s] = thing]
           b == Rekey(Boxes(p), OnGround(a), InSlot(s))
<1>1. /\ p \in Here /\ ground' = [ground EXCEPT ![a] = Take(@, i, n)]
      /\ Leaves(p) \/ Has(p, worn, b)
      /\ UNCHANGED <<loot, corpses, decaying, made, doubled, up>>
  BY DEF Equip
<1>2. PlayersOK /\ SavedOK /\ GroundOK
  BY DEF Inv
<1>3. GroundOK' /\ thing \in Things
  BY <1>1, <1>2, TakeKeeps
<1>4. worn \in Wear
  <2>1. Worn(p) \in Wear
    BY <1>1, <1>2, PlayerIs
  <2> HIDE DEF thing
  <2> QED BY <1>3, <2>1 DEF Wear
<1>5. b \in BoxMaps /\ Windows(b, At(p))
  <2>1. InSlot(s) \in Source /\ InSlot(s).in # "ground"
    BY SourceIs DEF InSlot
  <2>2. Boxes(p) \in BoxMaps /\ Windows(Boxes(p), At(p))
    BY <1>1, <1>2, PlayerIs
  <2> QED BY <2>1, <2>2, FollowedKeeps
<1>6. PlayersOK' /\ SavedOK'
  <2>1. CASE Leaves(p)
    BY <1>1, <1>2, <2>1, LeavesKeeps
  <2>2. CASE Has(p, worn, b)
    <3> HIDE DEF worn, b
    <3>1. PlayersOK' /\ saved' = saved
      BY <1>1, <1>2, <1>4, <1>5, <2>2, HasKeeps
    <3> QED BY <1>2, <3>1 DEF SavedOK
  <2> QED BY <1>1, <2>1, <2>2
<1> QED BY <1>1, <1>3, <1>6, RestKeeps

LEMMA Bared ==
    ASSUME PlayersOK, NEW p \in Here, NEW s \in Slot
    PROVE  [Worn(p) EXCEPT ![s] = None] \in Wear
BY PlayerIs DEF Wear

LEMMA UnequipKeeps ==
    ASSUME Inv, NEW p, NEW s \in Slot, NEW b \in Tile, NEW cut, Unequip(p, s, b, cut)
    PROVE  Inv'
<1> DEFINE bare == [Worn(p) EXCEPT ![s] = None]
           e == WalkedAway(Rekey(Boxes(p), InSlot(s), OnGround(b)), At(p))
<1>1. /\ p \in Here /\ Worn(p)[s] # None /\ Sound(ground[b])
      /\ ground' = [ground EXCEPT ![b] = Put(@, Worn(p)[s])]
      /\ LeavesWith(p, bare, Boxes(p)) \/ Has(p, bare, e)
      /\ UNCHANGED <<loot, corpses, decaying, made, doubled, up>>
  BY DEF Unequip
<1>2. PlayersOK /\ SavedOK /\ GroundOK
  BY DEF Inv
<1>3. Worn(p)[s] \in Things /\ bare \in Wear /\ Boxes(p) \in BoxMaps
  BY <1>1, <1>2, PlayerIs, Bared
<1>4. GroundOK'
  BY <1>1, <1>2, <1>3, PutKeeps
<1>5. e \in BoxMaps /\ Windows(e, At(p))
  BY <1>3, SourceIs, FollowedKeeps
<1>6. PlayersOK' /\ SavedOK'
  <2> HIDE DEF bare, e
  <2>1. CASE LeavesWith(p, bare, Boxes(p))
    BY <1>1, <1>2, <1>3, <2>1, LeavesWithKeeps
  <2>2. CASE Has(p, bare, e)
    <3>1. PlayersOK' /\ saved' = saved
      BY <1>1, <1>2, <1>3, <1>5, <2>2, HasKeeps
    <3> QED BY <1>2, <3>1 DEF SavedOK
  <2> QED BY <1>1, <2>1, <2>2
<1> QED BY <1>1, <1>4, <1>6, RestKeeps

LEMMA SwapKeeps == ASSUME Inv, NEW p, NEW s \in Slot, NEW d \in Slot, Swap(p, s, d) PROVE Inv'
<1> DEFINE worn == [Worn(p) EXCEPT ![s] = Worn(p)[d], ![d] = Worn(p)[s]]
<1>1. p \in Here /\ Has(p, worn, Boxes(p)) /\ UNCHANGED <<ground, loot, corpses, decaying, made, doubled, up>>
  BY DEF Swap
<1>2. PlayersOK /\ SavedOK
  BY DEF Inv
<1>3. Worn(p) \in Wear /\ Boxes(p) \in BoxMaps /\ Windows(Boxes(p), At(p))
  BY <1>1, <1>2, PlayerIs
<1>4. worn \in Wear
  BY <1>3 DEF Wear
<1> HIDE DEF worn
<1>5. PlayersOK' /\ saved' = saved
  BY <1>1, <1>2, <1>3, <1>4, HasKeeps
<1>6. SavedOK'
  BY <1>2, <1>5 DEF SavedOK
<1> QED BY <1>1, <1>5, <1>6, BoxesKeep

LEMMA SetBox ==
    ASSUME NEW b \in BoxMaps, NEW d \in Cid, NEW x \in OpenBoxes \union {None}
    PROVE  /\ [b EXCEPT ![d] = x] \in BoxMaps
           /\ [b EXCEPT ![d] = x][d] = x
           /\ \A c \in Cid \ {d} : [b EXCEPT ![d] = x][c] = b[c]
           /\ \A t : /\ Windows(b, t)
                     /\ x # None /\ x.open => x.source.in # "ground" \/ Near(x.source.at, t)
                     => Windows([b EXCEPT ![d] = x], t)
<1> DEFINE e == [b EXCEPT ![d] = x]
<1>1. e \in BoxMaps /\ e[d] = x /\ \A c \in Cid \ {d} : e[c] = b[c]
  BY DEF BoxMaps
<1> HIDE DEF e
<1>2. ASSUME NEW t, Windows(b, t),
             x # None /\ x.open => x.source.in # "ground" \/ Near(x.source.at, t)
      PROVE  Windows(e, t)
  <2>1. ASSUME NEW c \in Opened(e), e[c].source.in = "ground" PROVE Near(e[c].source.at, t)
    <3>1. c \in Cid /\ e[c] # None /\ e[c].open
      BY DEF Opened, Used
    <3>2. CASE c = d
      BY <1>1, <1>2, <2>1, <3>1, <3>2
    <3>3. CASE c # d
      BY <1>1, <1>2, <2>1, <3>1, <3>3 DEF Windows, Opened, Used
    <3> QED BY <3>2, <3>3
  <2> QED BY <2>1 DEF Windows
<1> QED BY <1>1, <1>2 DEF e

LEMMA InBox ==
    ASSUME PlayersOK, NEW p \in Here, NEW c \in Used(Boxes(p)), NEW i \in DOMAIN Boxes(p)[c].items
    PROVE  /\ c \in Cid /\ Boxes(p)[c] \in OpenBoxes /\ Boxes(p)[c].items \in Seq(Things)
           /\ Boxes(p)[c].items[i] \in Things /\ i \in Nat \ {0}
<1>1. Boxes(p) \in BoxMaps
  BY PlayerIs
<1>2. c \in Cid /\ Boxes(p)[c] \in OpenBoxes
  BY <1>1, UsedIs
<1>3. Boxes(p)[c].items \in Seq(Things)
  BY <1>2, OpenBoxIs
<1> QED BY <1>2, <1>3, SeqIs

LEMMA PushedKeeps ==
    ASSUME PlayersOK, NEW p \in Here, NEW b \in BoxMaps, Windows(b, At(p)), NEW c \in Cid,
           NEW x \in Things
    PROVE  Push(b, c, x) \in BoxMaps /\ Windows(Push(b, c, x), At(p))
<1>1. Sits(b, Push(b, c, x))
  BY PushSits
<1> QED BY <1>1, SitsNear DEF Sits

LEMMA BoxToBoxKeeps ==
    ASSUME Inv, NEW p, NEW c, NEW i, NEW d \in Cid, NEW j, NEW cut, BoxToBox(p, c, i, d, j, cut)
    PROVE  Inv'
<1> DEFINE thing == Boxes(p)[c].items[i]
           dest == IF thing.kind \in Container THEN [boxes |-> Boxes(p), cid |-> d]
                   ELSE Destination(Boxes(p), d, j)
           b == dest.boxes
           left == Popped(b, c, i)
           back == left[dest.cid] # None /\ Full(left, dest.cid)
           e == IF back THEN c ELSE dest.cid
<1>1. /\ p \in Here /\ c \in Used(Boxes(p)) /\ i \in DOMAIN Boxes(p)[c].items
      /\ \/ i \notin DOMAIN b[c].items /\ Has(p, Worn(p), b)
         \/ i \in DOMAIN b[c].items /\ LeavesWith(p, Worn(p), Pop(b, c, i))
         \/ i \in DOMAIN b[c].items /\ Has(p, Worn(p), Push(left, e, b[c].items[i]))
      /\ UNCHANGED <<ground, loot, corpses, decaying, made, doubled, up>>
  BY DEF BoxToBox
<1>2. PlayersOK /\ SavedOK
  BY DEF Inv
<1>3. Worn(p) \in Wear /\ Boxes(p) \in BoxMaps /\ Windows(Boxes(p), At(p)) /\ c \in Cid
  BY <1>1, <1>2, PlayerIs, InBox
<1>4. b \in BoxMaps /\ Windows(b, At(p)) /\ dest.cid \in Cid /\ c \in Used(b)
  <2>1. CASE thing.kind \in Container
    <3>1. dest = [boxes |-> Boxes(p), cid |-> d]
      BY <2>1
    <3> QED BY <1>1, <1>3, <3>1
  <2>2. CASE thing.kind \notin Container
    <3> DEFINE r == Destination(Boxes(p), d, j)
    <3>1. dest = r
      BY <2>2
    <3> HIDE DEF dest, r
    <3>2. /\ r.boxes \in BoxMaps /\ r.cid \in Cid
          /\ \/ r.boxes = Boxes(p)
             \/ \E f \in Free(Boxes(p)), x \in OpenBoxes :
                    r.boxes = [Boxes(p) EXCEPT ![f] = x] /\ x.open = FALSE
      <4>1. r.boxes \in BoxMaps /\ r.cid \in Cid /\ Destined(Boxes(p), d, r)
        BY <1>3, DestinationIs DEF r
      <4> QED BY <4>1 DEF Destined
    <3>3. CASE r.boxes = Boxes(p)
      BY <1>1, <1>3, <3>1, <3>2, <3>3
    <3>4. ASSUME NEW f \in Free(Boxes(p)), NEW x \in OpenBoxes,
                 r.boxes = [Boxes(p) EXCEPT ![f] = x], x.open = FALSE
          PROVE  Windows(r.boxes, At(p)) /\ c \in Used(r.boxes)
      <4>1. f \in Cid /\ x \in OpenBoxes \union {None}
        BY <1>3, FreeIs
      <4>2. Windows([Boxes(p) EXCEPT ![f] = x], At(p))
        BY <1>3, <3>4, <4>1, SetBox
      <4>3. r.boxes[f] = x /\ \A y \in Cid \ {f} : r.boxes[y] = Boxes(p)[y]
        BY <1>3, <3>4, <4>1, SetBox
      <4>4. c \in Used(r.boxes)
        BY <1>1, <1>3, <4>3, Apart DEF Used
      <4> QED BY <3>4, <4>2, <4>4
    <3> QED BY <3>1, <3>2, <3>3, <3>4
  <2> QED BY <2>1, <2>2
<1> HIDE DEF thing, dest, b, back
<1>5. CASE i \notin DOMAIN b[c].items /\ Has(p, Worn(p), b)
  <2>1. PlayersOK' /\ saved' = saved
    BY <1>1, <1>2, <1>3, <1>4, <1>5, HasKeeps
  <2> QED BY <1>1, <1>2, <2>1, BoxesKeep DEF SavedOK
<1>6. CASE i \in DOMAIN b[c].items /\ LeavesWith(p, Worn(p), Pop(b, c, i))
  <2>1. Pop(b, c, i) \in BoxMaps
    BY <1>4, <1>6, PopIs
  <2> QED BY <1>1, <1>2, <1>3, <1>6, <2>1, LeavesWithKeeps, BoxesKeep
<1>7. CASE i \in DOMAIN b[c].items /\ Has(p, Worn(p), Push(left, e, b[c].items[i]))
  <2>1. Sits(b, left)
    BY <1>4, <1>7, PoppedIs
  <2>2. left \in BoxMaps /\ Windows(left, At(p))
    BY <1>4, <2>1, SitsNear DEF Sits
  <2>3. b[c].items[i] \in Things
    <3>1. b[c].items \in Seq(Things)
      BY <1>4, UsedIs, OpenBoxIs
    <3> QED BY <1>7, <3>1, SeqIs
  <2>4. e \in Cid
    BY <1>3, <1>4
  <2> HIDE DEF left, e
  <2>5. Push(left, e, b[c].items[i]) \in BoxMaps /\ Windows(Push(left, e, b[c].items[i]), At(p))
    BY <1>1, <1>2, <2>2, <2>3, <2>4, PushedKeeps
  <2>6. PlayersOK' /\ saved' = saved
    BY <1>1, <1>2, <1>3, <1>7, <2>5, HasKeeps
  <2> QED BY <1>1, <1>2, <2>6, BoxesKeep DEF SavedOK
<1> QED BY <1>1, <1>5, <1>6, <1>7

LEMMA GroundToBoxKeeps ==
    ASSUME Inv, NEW p, NEW a \in Tile, NEW i \in Items(a), NEW c \in Cid, NEW n \in Nat, NEW cut,
           GroundToBox(p, a, i, c, n, cut)
    PROVE  Inv'
<1> DEFINE thing == [ground[a].stack[i] EXCEPT !.count = Taken(ground[a], i, n)]
           e == Push(Boxes(p), c, thing)
<1>1. /\ p \in Here /\ ground' = [ground EXCEPT ![a] = Take(@, i, n)]
      /\ Leaves(p) \/ Has(p, Worn(p), e)
      /\ UNCHANGED <<loot, corpses, decaying, made, doubled, up>>
  BY DEF GroundToBox
<1>2. PlayersOK /\ SavedOK /\ GroundOK
  BY DEF Inv
<1>3. GroundOK' /\ thing \in Things
  BY <1>1, <1>2, TakeKeeps
<1> HIDE DEF thing
<1>4. Worn(p) \in Wear /\ Boxes(p) \in BoxMaps /\ Windows(Boxes(p), At(p))
  BY <1>1, <1>2, PlayerIs
<1>5. e \in BoxMaps /\ Windows(e, At(p))
  BY <1>1, <1>2, <1>3, <1>4, PushedKeeps
<1> HIDE DEF e
<1>6. PlayersOK' /\ SavedOK'
  <2>1. CASE Leaves(p)
    BY <1>1, <1>2, <2>1, LeavesKeeps
  <2>2. CASE Has(p, Worn(p), e)
    <3>1. PlayersOK' /\ saved' = saved
      BY <1>1, <1>2, <1>4, <1>5, <2>2, HasKeeps
    <3> QED BY <1>2, <3>1 DEF SavedOK
  <2> QED BY <1>1, <2>1, <2>2
<1> QED BY <1>1, <1>3, <1>6, RestKeeps

LEMMA BoxToGroundKeeps ==
    ASSUME Inv, NEW p, NEW c, NEW i, NEW t \in Tile, BoxToGround(p, c, i, t)
    PROVE  Inv'
<1> DEFINE e == Popped(Boxes(p), c, i)
           thing == Boxes(p)[c].items[i]
<1>1. /\ p \in Here /\ c \in Used(Boxes(p)) /\ i \in DOMAIN Boxes(p)[c].items /\ Sound(ground[t])
      /\ ground' = [ground EXCEPT ![t] = Put(@, thing)]
      /\ Has(p, Worn(p), e)
      /\ UNCHANGED <<loot, corpses, decaying, made, doubled, up>>
  BY DEF BoxToGround
<1>2. PlayersOK /\ SavedOK /\ GroundOK
  BY DEF Inv
<1>3. Worn(p) \in Wear /\ Boxes(p) \in BoxMaps /\ Windows(Boxes(p), At(p)) /\ thing \in Things
  BY <1>1, <1>2, PlayerIs, InBox
<1> HIDE DEF thing
<1>4. GroundOK'
  BY <1>1, <1>2, <1>3, PutKeeps
<1>5. Sits(Boxes(p), e)
  BY <1>1, <1>3, PoppedIs
<1>6. e \in BoxMaps /\ Windows(e, At(p))
  BY <1>3, <1>5, SitsNear DEF Sits
<1> HIDE DEF e
<1>7. PlayersOK' /\ saved' = saved
  BY <1>1, <1>2, <1>3, <1>6, HasKeeps
<1> QED BY <1>1, <1>2, <1>4, <1>7, RestKeeps DEF SavedOK

LEMMA SlotToBoxKeeps ==
    ASSUME Inv, NEW p, NEW s \in Slot, NEW c \in Cid, NEW cut, SlotToBox(p, s, c, cut)
    PROVE  Inv'
<1> DEFINE bare == [Worn(p) EXCEPT ![s] = None]
           e == Push(Boxes(p), c, Worn(p)[s])
<1>1. /\ p \in Here /\ Worn(p)[s] # None
      /\ LeavesWith(p, bare, Boxes(p)) \/ Has(p, bare, e)
      /\ UNCHANGED <<ground, loot, corpses, decaying, made, doubled, up>>
  BY DEF SlotToBox
<1>2. PlayersOK /\ SavedOK
  BY DEF Inv
<1>3. Worn(p)[s] \in Things /\ bare \in Wear /\ Boxes(p) \in BoxMaps /\ Windows(Boxes(p), At(p))
  BY <1>1, <1>2, PlayerIs, Bared
<1>4. e \in BoxMaps /\ Windows(e, At(p))
  BY <1>1, <1>2, <1>3, PushedKeeps
<1> HIDE DEF bare, e
<1>5. PlayersOK' /\ SavedOK'
  <2>1. CASE LeavesWith(p, bare, Boxes(p))
    BY <1>1, <1>2, <1>3, <2>1, LeavesWithKeeps
  <2>2. CASE Has(p, bare, e)
    <3>1. PlayersOK' /\ saved' = saved
      BY <1>1, <1>2, <1>3, <1>4, <2>2, HasKeeps
    <3> QED BY <1>2, <3>1 DEF SavedOK
  <2> QED BY <1>1, <2>1, <2>2
<1> QED BY <1>1, <1>5, BoxesKeep

LEMMA BoxToSlotKeeps ==
    ASSUME Inv, NEW p, NEW c, NEW i, NEW s \in Slot, NEW cut, BoxToSlot(p, c, i, s, cut)
    PROVE  Inv'
<1> DEFINE thing == Boxes(p)[c].items[i]
           worn == IF s \in Fits[thing.kind] /\ ~cut THEN [Worn(p) EXCEPT ![s] = thing] ELSE Worn(p)
           e == IF cut THEN Pop(Boxes(p), c, i) ELSE Popped(Boxes(p), c, i)
<1>1. /\ p \in Here /\ c \in Used(Boxes(p)) /\ i \in DOMAIN Boxes(p)[c].items
      /\ Ends(p, cut, worn, e)
      /\ UNCHANGED <<ground, loot, corpses, decaying, made, doubled, up>>
  BY DEF BoxToSlot
<1>2. PlayersOK /\ SavedOK
  BY DEF Inv
<1>3. Worn(p) \in Wear /\ Boxes(p) \in BoxMaps /\ Windows(Boxes(p), At(p)) /\ thing \in Things
  BY <1>1, <1>2, PlayerIs, InBox
<1>4. worn \in Wear
  <2> HIDE DEF thing
  <2> QED BY <1>3 DEF Wear
<1>5. Sits(Boxes(p), e)
  <2>1. Sits(Boxes(p), Pop(Boxes(p), c, i)) /\ Sits(Boxes(p), Popped(Boxes(p), c, i))
    BY <1>1, <1>3, PopIs, PoppedIs
  <2> QED BY <2>1
<1> HIDE DEF worn, e
<1>6. e \in BoxMaps /\ Windows(e, At(p))
  BY <1>3, <1>5, SitsNear DEF Sits
<1>7. PlayersOK' /\ SavedOK'
  BY <1>1, <1>2, <1>4, <1>6, EndsKeeps
<1> QED BY <1>1, <1>7, BoxesKeep

LEMMA TogglesKeep ==
    ASSUME Inv, NEW p \in Here, NEW source \in Source, NEW kind \in Kind, NEW hint,
           source.in # "ground" \/ Near(source.at, At(p)), Toggles(p, source, kind, hint)
    PROVE  PlayersOK' /\ SavedOK'
<1> DEFINE b == Boxes(p)
<1>1. PlayersOK /\ SavedOK
  BY DEF Inv
<1>2. Worn(p) \in Wear /\ b \in BoxMaps /\ Windows(b, At(p))
  BY <1>1, PlayerIs
<1>3. ASSUME NEW e \in BoxMaps, Windows(e, At(p)), Has(p, Worn(p), e) PROVE PlayersOK' /\ SavedOK'
  <2>1. PlayersOK' /\ saved' = saved
    BY <1>1, <1>2, <1>3, HasKeeps
  <2> QED BY <1>1, <2>1 DEF SavedOK
<1>4. CASE From(b, source) # {}
  <2> DEFINE c == First(From(b, source))
             open == ~b[c].open
             room == IF b[c].open THEN b[c].capacity ELSE Capacity[kind]
             x == [items |-> b[c].items, source |-> b[c].source, open |-> open, capacity |-> room]
             e == [b EXCEPT ![c] = x]
  <2>1. c \in From(b, source)
    <3>1. From(b, source) \subseteq Nat
      BY <1>2, UsedIs
    <3> QED BY <1>4, <3>1, FirstIn
  <2>2. c \in Cid /\ b[c] \in OpenBoxes /\ b[c].source = source
    BY <1>2, <2>1, UsedIs DEF From
  <2>3. Has(p, Worn(p), [b EXCEPT ![c].open = ~@,
                                   ![c].capacity = IF b[c].open THEN @ ELSE Capacity[kind]])
    BY <1>4 DEF Toggles
  <2> HIDE DEF b, c
  <2>4. [b EXCEPT ![c].open = ~@, ![c].capacity = IF b[c].open THEN @ ELSE Capacity[kind]] = e
    <3>1. [b EXCEPT ![c].open = ~@, ![c].capacity = IF b[c].open THEN @ ELSE Capacity[kind]]
            = [b EXCEPT ![c] = [[b[c] EXCEPT !.open = open] EXCEPT !.capacity = room]]
      BY <1>2, <2>2 DEF BoxMaps, OpenBoxes
    <3>2. [[b[c] EXCEPT !.open = open] EXCEPT !.capacity = room] = x
      <4> DEFINE r == b[c]
                 y == [items |-> r.items, source |-> r.source, open |-> open, capacity |-> r.capacity]
      <4> HIDE DEF open, room, r
      <4>1. [r EXCEPT !.open = open] = y
        BY <2>2, OpenBoxIs DEF r
      <4>2. [y EXCEPT !.capacity = room] = [items |-> r.items, source |-> r.source, open |-> open,
                                            capacity |-> room]
        OBVIOUS
      <4> HIDE DEF y
      <4> QED BY <4>1, <4>2 DEF r
    <3> QED BY <3>1, <3>2
  <2>5. x \in OpenBoxes
    <3>1. b[c].items \in Seq(Things) /\ b[c].capacity \in Nat
      BY <2>2, OpenBoxIs
    <3>2. open \in BOOLEAN /\ room \in Nat
      BY <3>1, ItemsAssumption
    <3> HIDE DEF open, room
    <3> QED BY <2>2, <3>1, <3>2, OpenBoxMade
  <2>6. x.source = source
    BY <2>2
  <2> HIDE DEF x
  <2>7. e \in BoxMaps /\ Windows(e, At(p))
    BY <1>2, <2>2, <2>5, <2>6, SetBox
  <2> QED BY <1>3, <2>3, <2>4, <2>7 DEF b, c
<1>5. CASE From(b, source) = {}
  <2> DEFINE x == Box(kind, source, <<>>, TRUE)
  <2>1. PICK d \in IF hint \in Cid \ Used(b) THEN {hint} ELSE Free(b) :
            Has(p, Worn(p), [b EXCEPT ![d] = x])
    BY <1>5 DEF Toggles
  <2>2. d \in Cid
    BY <1>2, FreeIs
  <2>3. x \in OpenBoxes /\ x.source = source
    <3>1. <<>> \in Seq(Things) /\ TRUE \in BOOLEAN
      OBVIOUS
    <3> QED BY <3>1, BoxIs
  <2> HIDE DEF x
  <2>4. [b EXCEPT ![d] = x] \in BoxMaps /\ Windows([b EXCEPT ![d] = x], At(p))
    BY <1>2, <2>2, <2>3, SetBox
  <2> QED BY <1>3, <2>1, <2>4
<1> QED BY <1>4, <1>5

\* What a player carries is worn or lies in a box.
LEMMA CarriedIs ==
    ASSUME NEW p, NEW source \in Carried(p)
    PROVE  \/ \E s \in Slot : source = InSlot(s)
           \/ \E c \in Used(Boxes(p)) : \E i \in DOMAIN Boxes(p)[c].items : source = Nested(c, i)
BY DEF Carried, Places

LEMMA UsableIs ==
    ASSUME PlayersOK, NEW p \in Here, NEW source \in Carried(p), NEW thing \in UsableAt(p, source)
    PROVE  /\ thing \in Things /\ source \in Source /\ source.in # "ground"
           /\ \/ /\ source.in = "slot" /\ source.at \in Slot
                 /\ thing = Worn(p)[source.at]
              \/ /\ source.in = "nested" /\ source.at \in Used(Boxes(p)) /\ source.at \in Cid
                 /\ Boxes(p)[source.at].items \in Seq(Things)
                 /\ source.idx \in DOMAIN Boxes(p)[source.at].items
                 /\ thing = Boxes(p)[source.at].items[source.idx]
<1>1. CASE \E s \in Slot : source = InSlot(s)
  <2>1. PICK s \in Slot : source = InSlot(s)
    BY <1>1
  <2>2. source.in = "slot" /\ source.at = s
    BY <2>1 DEF InSlot
  <2>3. thing = Worn(p)[s] /\ thing # None
    BY <2>2 DEF UsableAt
  <2> QED BY <2>1, <2>2, <2>3, PlayerIs, SourceIs
<1>2. CASE \E c \in Used(Boxes(p)) : \E i \in DOMAIN Boxes(p)[c].items : source = Nested(c, i)
  <2>1. PICK c \in Used(Boxes(p)) : \E i \in DOMAIN Boxes(p)[c].items : source = Nested(c, i)
    BY <1>2
  <2>2. PICK i \in DOMAIN Boxes(p)[c].items : source = Nested(c, i)
    BY <2>1
  <2>3. source.in = "nested" /\ source.at = c /\ source.idx = i
    BY <2>2 DEF Nested
  <2>4. thing = Boxes(p)[c].items[i]
    BY <2>3 DEF UsableAt
  <2>5. c \in Cid /\ Boxes(p)[c].items \in Seq(Things) /\ thing \in Things /\ i \in Nat
    BY <2>4, InBox
  <2> QED BY <2>2, <2>3, <2>4, <2>5, SourceIs
<1> QED BY <1>1, <1>2, CarriedIs

LEMMA UseCarriedContainerKeeps ==
    ASSUME Inv, NEW p, NEW source \in Carried(p), NEW hint, UseCarriedContainer(p, source, hint)
    PROVE  Inv'
<1>1. p \in Here /\ PlayersOK
  BY DEF UseCarriedContainer, Inv
<1>2. PICK thing \in UsableAt(p, source) :
          thing.kind \in Container /\ Toggles(p, source, thing.kind, hint)
  BY DEF UseCarriedContainer
<1>3. thing.kind \in Kind /\ source \in Source /\ source.in # "ground"
  BY <1>1, UsableIs, ThingIs
<1>4. PlayersOK' /\ SavedOK'
  BY <1>1, <1>2, <1>3, TogglesKeep
<1> QED BY <1>4, BoxesKeep DEF UseCarriedContainer

LEMMA UseGroundContainerKeeps ==
    ASSUME Inv, NEW p, NEW t \in Tile, NEW i \in Items(t), NEW hint, UseGroundContainer(p, t, i, hint)
    PROVE  Inv'
<1>1. p \in Here /\ GroundOK /\ PlayersOK /\ Near(At(p), t)
  BY DEF UseGroundContainer, Inv
<1>2. ground[t].stack[i].kind \in Kind
  BY <1>1, TileIs
<1>3. OnGround(t) \in Source /\ OnGround(t).at = t
  BY SourceIs DEF OnGround
<1>4. Near(t, At(p))
  <2>1. At(p) \in Int /\ t \in Int /\ At(p) - t \in {-1, 0, 1}
    <3>1. At(p) \in Tile
      BY <1>1, PlayerIs
    <3> QED BY <1>1, <3>1, ItemsAssumption DEF Near
  <2> QED BY <2>1 DEF Near
<1>5. Toggles(p, OnGround(t), ground[t].stack[i].kind, hint)
  BY DEF UseGroundContainer
<1>6. PlayersOK' /\ SavedOK'
  BY <1>1, <1>2, <1>3, <1>4, <1>5, TogglesKeep
<1> QED BY <1>6, BoxesKeep DEF UseGroundContainer

\* A thing changed or removed where it lies.
LEMMA ItemSet ==
    ASSUME PlayersOK, NEW p \in Here, NEW c \in Used(Boxes(p)), NEW q \in Seq(Things)
    PROVE  /\ [Boxes(p) EXCEPT ![c].items = q] \in BoxMaps
           /\ Windows([Boxes(p) EXCEPT ![c].items = q], At(p))
           /\ Used([Boxes(p) EXCEPT ![c].items = q]) = Used(Boxes(p))
           /\ [Boxes(p) EXCEPT ![c].items = q][c].items = q
           /\ \A d \in Cid \ {c} : [Boxes(p) EXCEPT ![c].items = q][d] = Boxes(p)[d]
<1> DEFINE b == Boxes(p)
           x == [items |-> q, source |-> b[c].source, open |-> b[c].open, capacity |-> b[c].capacity]
           e == [b EXCEPT ![c] = x]
<1>1. b \in BoxMaps /\ Windows(b, At(p))
  BY PlayerIs
<1>2. c \in Cid /\ b[c] \in OpenBoxes
  BY <1>1, UsedIs
<1> HIDE DEF b
<1>3. [b EXCEPT ![c].items = q] = e
  <2>1. [b EXCEPT ![c].items = q] = [b EXCEPT ![c] = [b[c] EXCEPT !.items = q]]
    OBVIOUS
  <2>2. [b[c] EXCEPT !.items = q] = x
    BY <1>2, OpenBoxIs
  <2> QED BY <2>1, <2>2
<1>4. x \in OpenBoxes
  BY <1>2, OpenBoxIs, OpenBoxMade
<1>5. x.items = q /\ x.source = b[c].source /\ x.open = b[c].open
  OBVIOUS
<1> HIDE DEF x
<1>6. x.open => x.source.in # "ground" \/ Near(x.source.at, At(p))
  BY <1>1, <1>2, <1>5, c \in Used(b) DEF Windows, Opened, b
<1>7. /\ e \in BoxMaps /\ Windows(e, At(p)) /\ e[c] = x /\ \A d \in Cid \ {c} : e[d] = b[d]
  BY <1>1, <1>2, <1>4, <1>6, SetBox
<1> HIDE DEF e
<1>8. Used(e) = Used(b)
  BY <1>2, <1>4, <1>7, Apart DEF Used
<1> QED BY <1>3, <1>5, <1>7, <1>8 DEF b

LEMMA OpenCorpseKeeps ==
    ASSUME Inv, NEW p, NEW t \in Tile, NEW i \in Items(t), OpenCorpse(p, t, i)
    PROVE  Inv'
<1> DEFINE kind == IF corpses[t] = None THEN ground[t].stack[i].kind ELSE corpses[t]
           box == Box(kind, OnGround(t), loot[t], TRUE)
           b == Boxes(p)
<1>1. /\ p \in Here /\ Near(At(p), t) /\ loot[t] # None
      /\ \/ UNCHANGED <<players, saved>>
         \/ Free(b) # {} /\ Has(p, Worn(p), [b EXCEPT ![First(Free(b))] = box])
      /\ loot' = [loot EXCEPT ![t] = None]
      /\ UNCHANGED <<ground, corpses, decaying, made, doubled, up>>
  BY DEF OpenCorpse
<1>2. PlayersOK /\ SavedOK /\ GroundOK /\ LootOK /\ CorpsesOK /\ MadeOK /\ DecayingOK
  BY DEF Inv
<1>3. Worn(p) \in Wear /\ b \in BoxMaps /\ Windows(b, At(p)) /\ At(p) \in Tile
  BY <1>1, <1>2, PlayerIs
<1>4. kind \in Kind /\ loot[t] \in Seq(Things)
  BY <1>1, <1>2, TileIs, ItemsAssumption DEF LootOK, CorpsesOK
<1> HIDE DEF kind
<1>5. box \in OpenBoxes /\ box.source = OnGround(t)
  <2>1. TRUE \in BOOLEAN /\ OnGround(t) \in Source
    BY SourceIs
  <2> QED BY <1>4, <2>1, BoxIs
<1> HIDE DEF box
<1>6. PlayersOK' /\ SavedOK'
  <2>1. CASE UNCHANGED <<players, saved>>
    BY <1>2, <2>1, SameKeeps
  <2>2. CASE Free(b) # {} /\ Has(p, Worn(p), [b EXCEPT ![First(Free(b))] = box])
    <3>1. PICK d \in Free(b) : TRUE
      BY <2>2
    <3>2. d \in Cid /\ First(Free(b)) = d
      BY <1>3, FreeIs
    <3>3. box.source.at = t
      BY <1>5 DEF OnGround
    <3>4. Near(t, At(p))
      <4>1. At(p) \in Int /\ t \in Int /\ At(p) - t \in {-1, 0, 1}
        BY <1>1, <1>3, ItemsAssumption DEF Near
      <4> QED BY <4>1 DEF Near
    <3> DEFINE e == [b EXCEPT ![d] = box]
    <3>5. e \in BoxMaps /\ Windows(e, At(p))
      BY <1>3, <1>5, <3>2, <3>3, <3>4, SetBox
    <3>6. Has(p, Worn(p), e)
      BY <2>2, <3>2
    <3> HIDE DEF e
    <3>7. PlayersOK' /\ saved' = saved
      BY <1>1, <1>2, <1>3, <3>5, <3>6, HasKeeps
    <3> QED BY <1>2, <3>7 DEF SavedOK
  <2> QED BY <1>1, <2>1, <2>2
<1>7. LootOK'
  BY <1>1, <1>2 DEF LootOK
<1>8. GroundOK' /\ CorpsesOK' /\ DecayingOK' /\ MadeOK' /\ up' \in BOOLEAN
  BY <1>1, <1>2 DEF Inv, GroundOK, CorpsesOK, DecayingOK, MadeOK
<1> QED BY <1>6, <1>7, <1>8 DEF Inv

LEMMA ToggleCarriedKeeps ==
    ASSUME Inv, NEW p, NEW source \in Carried(p), ToggleCarried(p, source)
    PROVE  Inv'
<1> DEFINE s == source.at
           i == source.idx
           b == Boxes(p)
<1>1. p \in Here /\ PlayersOK /\ SavedOK /\ UNCHANGED <<ground, loot, corpses, decaying, made, doubled, up>>
  BY DEF ToggleCarried, Inv
<1>2. PICK thing \in UsableAt(p, source) :
          /\ thing.kind \in Toggled
          /\ IF source.in = "slot"
             THEN Has(p, [Worn(p) EXCEPT ![s].kind = Toggle[@]], b)
             ELSE Has(p, Worn(p), [b EXCEPT ![s].items[i].kind = Toggle[@]])
  BY DEF ToggleCarried
<1>3. Worn(p) \in Wear /\ b \in BoxMaps /\ Windows(b, At(p))
  BY <1>1, PlayerIs
<1> DEFINE y == [thing EXCEPT !.kind = Toggle[@]]
<1>4. y \in Things
  BY <1>1, <1>2, UsableIs, Rekind
<1>5. CASE source.in = "slot"
  <2>1. s \in Slot /\ thing = Worn(p)[s]
    BY <1>1, <1>5, UsableIs
  <2>2. [Worn(p) EXCEPT ![s].kind = Toggle[@]] = [Worn(p) EXCEPT ![s] = y]
    BY <2>1
  <2> HIDE DEF y
  <2>3. [Worn(p) EXCEPT ![s] = y] \in Wear
    BY <1>3, <1>4 DEF Wear
  <2>4. PlayersOK' /\ saved' = saved
    BY <1>1, <1>2, <1>3, <1>5, <2>2, <2>3, HasKeeps
  <2> QED BY <1>1, <2>4, BoxesKeep DEF SavedOK
<1>6. CASE source.in # "slot"
  <2>1. s \in Used(b) /\ b[s].items \in Seq(Things) /\ i \in DOMAIN b[s].items /\ thing = b[s].items[i]
    BY <1>1, <1>6, UsableIs
  <2> DEFINE q == [b[s].items EXCEPT ![i] = y]
  <2>2. q \in Seq(Things)
    <3> HIDE DEF y
    <3> QED BY <1>4, <2>1, SeqIs
  <2>3. [b EXCEPT ![s].items[i].kind = Toggle[@]] = [b EXCEPT ![s].items = q]
    BY <2>1
  <2> HIDE DEF q
  <2>4. [b EXCEPT ![s].items = q] \in BoxMaps /\ Windows([b EXCEPT ![s].items = q], At(p))
    BY <1>1, <2>1, <2>2, ItemSet
  <2>5. Has(p, Worn(p), [b EXCEPT ![s].items = q])
    BY <1>2, <1>6, <2>3
  <2> DEFINE e == [b EXCEPT ![s].items = q]
  <2> HIDE DEF e
  <2>6. PlayersOK' /\ saved' = saved
    BY <1>1, <1>3, <2>4, <2>5, HasKeeps DEF e
  <2> QED BY <1>1, <2>6, BoxesKeep DEF SavedOK
<1> QED BY <1>5, <1>6

\* A stack that is changed, and nothing else.
LEMMA StackKeeps ==
    ASSUME Inv, NEW t \in Tile, NEW st \in Piles, ground' = [ground EXCEPT ![t] = st],
           UNCHANGED <<players, saved, loot, corpses, decaying, made, doubled, up>>
    PROVE  Inv'
<1>1. GroundOK'
  BY DEF Inv, GroundOK
<1>2. PlayersOK' /\ SavedOK'
  BY SameKeeps DEF Inv
<1> QED BY <1>1, <1>2, RestKeeps

LEMMA ToggleOnGroundKeeps ==
    ASSUME Inv, NEW p, NEW t \in Tile, NEW i \in Items(t), ToggleOnGround(p, t, i)
    PROVE  Inv'
<1> DEFINE st == ground[t]
           y == [st.stack[i] EXCEPT !.kind = Toggle[@]]
           q == [st.stack EXCEPT ![i] = y]
<1>1. /\ st.stack[i].kind \in Toggled /\ ground' = [ground EXCEPT ![t].stack[i].kind = Toggle[@]]
      /\ UNCHANGED <<players, saved, loot, corpses, decaying, made, doubled, up>>
  BY DEF ToggleOnGround
<1>2. GroundOK /\ t \in DOMAIN ground
  BY DEF Inv, GroundOK
<1>3. st \in Piles /\ st.stack \in Seq(Things) /\ st.stack[i] \in Things /\ i \in DOMAIN st.stack
  BY <1>2, TileIs DEF Items
<1>4. y \in Things
  BY <1>1, <1>3, Rekind
<1>5. ground' = [ground EXCEPT ![t] = [st EXCEPT !.stack = q]]
  BY <1>1, <1>2
<1> HIDE DEF st, y
<1>6. q \in Seq(Things)
  BY <1>3, <1>4, SeqIs
<1> HIDE DEF q
<1>7. [st EXCEPT !.stack = q] \in Piles
  BY <1>3, <1>6, StackSet, PileIs DEF Piles
<1> QED BY <1>1, <1>5, <1>7, StackKeeps

LEMMA EatenIs ==
    ASSUME NEW x \in Things
    PROVE  /\ Eaten(x) \in Seq(Things)
           /\ \/ x.count = 1 /\ Eaten(x) = <<>>
              \/ /\ [kind |-> x.kind, count |-> x.count - 1] \in Things
                 /\ Eaten(x) = <<[kind |-> x.kind, count |-> x.count - 1]>>
<1>1. x.count \in Nat /\ x.count >= 1 /\ x.count <= Cap /\ Cap \in Nat
  BY ThingIs
<1>2. CASE x.count = 1
  BY <1>2 DEF Eaten
<1>3. CASE x.count > 1
  <2>1. x.count - 1 \in 1..Cap /\ x.kind \in Stackable /\ x.kind \in Kind
    BY <1>1, <1>3, ThingIs
  <2>2. [kind |-> x.kind, count |-> x.count - 1] \in Things
    BY <2>1, ThingMade
  <2>3. [x EXCEPT !.count = @ - 1] = [kind |-> x.kind, count |-> x.count - 1]
    BY ThingIs DEF Things
  <2>4. Eaten(x) = <<[kind |-> x.kind, count |-> x.count - 1]>>
    BY <1>3, <2>3 DEF Eaten
  <2> QED BY <2>2, <2>4
<1> QED BY <1>1, <1>2, <1>3

LEMMA EatCarriedKeeps ==
    ASSUME Inv, NEW p, NEW source \in Carried(p), EatCarried(p, source)
    PROVE  Inv'
<1> DEFINE s == source.at
           i == source.idx
           b == Boxes(p)
<1>1. p \in Here /\ PlayersOK /\ SavedOK /\ UNCHANGED <<ground, loot, corpses, decaying, made, doubled, up>>
  BY DEF EatCarried, Inv
<1>2. PICK thing \in UsableAt(p, source) :
          IF source.in = "slot"
          THEN Has(p, [Worn(p) EXCEPT ![s] = IF Eaten(thing) = <<>> THEN None ELSE Head(Eaten(thing))], b)
          ELSE Has(p, Worn(p), [b EXCEPT ![s].items =
                    SubSeq(@, 1, i - 1) \o Eaten(thing) \o SubSeq(@, i + 1, Len(@))])
  BY DEF EatCarried
<1>3. Worn(p) \in Wear /\ b \in BoxMaps /\ Windows(b, At(p))
  BY <1>1, PlayerIs
<1>4. /\ thing \in Things /\ Eaten(thing) \in Seq(Things)
      /\ (IF Eaten(thing) = <<>> THEN None ELSE Head(Eaten(thing))) \in Things \union {None}
  <2>1. thing \in Things
    BY <1>1, UsableIs
  <2>2. CASE Eaten(thing) = <<>>
    BY <2>1, <2>2, EatenIs
  <2>3. CASE Eaten(thing) # <<>>
    <3> DEFINE y == [kind |-> thing.kind, count |-> thing.count - 1]
    <3>1. y \in Things /\ Eaten(thing) = <<y>>
      BY <2>1, <2>3, EatenIs
    <3> HIDE DEF y
    <3>2. Head(Eaten(thing)) = y
      BY <3>1
    <3> QED BY <2>1, <2>3, <3>1, <3>2, EatenIs
  <2> QED BY <2>2, <2>3
<1>5. CASE source.in = "slot"
  <2> DEFINE y == IF Eaten(thing) = <<>> THEN None ELSE Head(Eaten(thing))
             worn == [Worn(p) EXCEPT ![s] = y]
  <2>1. s \in Slot
    BY <1>1, <1>5, UsableIs
  <2>2. Has(p, worn, b)
    BY <1>2, <1>5
  <2> HIDE DEF y
  <2>3. worn \in Wear
    BY <1>3, <1>4, <2>1 DEF Wear, y
  <2> HIDE DEF worn
  <2>4. PlayersOK' /\ saved' = saved
    BY <1>1, <1>3, <2>2, <2>3, HasKeeps
  <2> QED BY <1>1, <2>4, BoxesKeep DEF SavedOK
<1>6. CASE source.in # "slot"
  <2> DEFINE r == b[s].items
             q == SubSeq(r, 1, i - 1) \o Eaten(thing) \o SubSeq(r, i + 1, Len(r))
             e == [b EXCEPT ![s].items = q]
  <2>1. s \in Used(b) /\ r \in Seq(Things) /\ i \in DOMAIN r
    BY <1>1, <1>6, UsableIs
  <2>2. e = [b EXCEPT ![s].items = SubSeq(@, 1, i - 1) \o Eaten(thing) \o SubSeq(@, i + 1, Len(@))]
    BY <2>1
  <2>3. Has(p, Worn(p), e)
    BY <1>2, <1>6, <2>2
  <2> HIDE DEF r
  <2>4. q \in Seq(Things)
    <3>1. i \in Nat /\ i >= 1 /\ i <= Len(r) /\ Len(r) \in Nat
      BY <2>1, SeqIs
    <3>2. SubSeq(r, 1, i - 1) \in Seq(Things) /\ SubSeq(r, i + 1, Len(r)) \in Seq(Things)
      BY <2>1, <3>1, PartIs
    <3>3. SubSeq(r, 1, i - 1) \o Eaten(thing) \in Seq(Things)
      BY <1>4, <3>2, JoinIs
    <3> QED BY <3>2, <3>3, JoinIs
  <2> HIDE DEF q
  <2>5. e \in BoxMaps /\ Windows(e, At(p))
    BY <1>1, <2>1, <2>4, ItemSet
  <2> HIDE DEF e
  <2>6. PlayersOK' /\ saved' = saved
    BY <1>1, <1>3, <2>3, <2>5, HasKeeps
  <2> QED BY <1>1, <2>6, BoxesKeep DEF SavedOK
<1> QED BY <1>5, <1>6

LEMMA EatOnGroundKeeps ==
    ASSUME Inv, NEW p, NEW t \in Tile, NEW i \in Items(t), EatOnGround(p, t, i)
    PROVE  Inv'
<1> DEFINE same == {j \in Items(t) : ground[t].stack[j].kind = ground[t].stack[i].kind}
           f == First(same)
<1>1. /\ ground' = [ground EXCEPT ![t] = Take(@, f, 1)]
      /\ UNCHANGED <<players, saved, loot, corpses, decaying, made, doubled, up>>
  BY DEF EatOnGround
<1>2. GroundOK /\ ground[t] \in Piles /\ ground[t].stack \in Seq(Things)
  BY TileIs DEF Inv
<1>3. f \in Items(t)
  <2>1. same \subseteq Nat /\ same # {} /\ same \subseteq Items(t)
    BY <1>2, SeqIs DEF Items
  <2> HIDE DEF same
  <2> QED BY <2>1, FirstIn
<1> HIDE DEF f
<1>4. Take(ground[t], f, 1) \in Piles
  BY <1>2, <1>3, TakeIs DEF Items
<1>5. ground' = [ground EXCEPT ![t] = Take(ground[t], f, 1)]
  BY <1>1
<1> QED BY <1>1, <1>4, <1>5, StackKeeps

LEMMA CloseContainerKeeps ==
    ASSUME Inv, NEW p, NEW c, CloseContainer(p, c)
    PROVE  Inv'
<1> DEFINE b == Boxes(p)
           x == [items |-> b[c].items, source |-> b[c].source, open |-> FALSE,
                 capacity |-> b[c].capacity]
           e == [b EXCEPT ![c] = x]
<1>1. /\ p \in Here /\ c \in Used(b) /\ Has(p, Worn(p), [b EXCEPT ![c].open = FALSE])
      /\ PlayersOK /\ SavedOK /\ UNCHANGED <<ground, loot, corpses, decaying, made, doubled, up>>
  BY DEF CloseContainer, Inv
<1>2. Worn(p) \in Wear /\ b \in BoxMaps /\ Windows(b, At(p))
  BY <1>1, PlayerIs
<1>3. c \in Cid /\ b[c] \in OpenBoxes
  BY <1>1, <1>2, UsedIs
<1> HIDE DEF b
<1>4. [b EXCEPT ![c].open = FALSE] = e
  <2>1. [b EXCEPT ![c].open = FALSE] = [b EXCEPT ![c] = [b[c] EXCEPT !.open = FALSE]]
    OBVIOUS
  <2>2. [b[c] EXCEPT !.open = FALSE] = x
    BY <1>3, OpenBoxIs
  <2> QED BY <2>1, <2>2
<1>5. x \in OpenBoxes /\ x.open = FALSE
  <2>1. b[c].items \in Seq(Things) /\ b[c].source \in Source /\ b[c].capacity \in Nat
    BY <1>3, OpenBoxIs
  <2> QED BY <2>1, OpenBoxMade
<1> HIDE DEF x
<1>6. e \in BoxMaps /\ Windows(e, At(p))
  BY <1>2, <1>3, <1>5, SetBox
<1>7. Has(p, Worn(p), e)
  BY <1>1, <1>4
<1> HIDE DEF e
<1>8. PlayersOK' /\ saved' = saved
  BY <1>1, <1>2, <1>6, <1>7, HasKeeps
<1> QED BY <1>1, <1>8, BoxesKeep DEF SavedOK

LEMMA UpArrowKeeps ==
    ASSUME Inv, NEW p, NEW c, UpArrow(p, c)
    PROVE  Inv'
<1> DEFINE b == Boxes(p)
           e == [b EXCEPT ![c] = None]
<1>1. /\ p \in Here /\ c \in Used(b) /\ Has(p, Worn(p), e)
      /\ PlayersOK /\ SavedOK /\ UNCHANGED <<ground, loot, corpses, decaying, made, doubled, up>>
  BY DEF UpArrow, Inv
<1>2. Worn(p) \in Wear /\ b \in BoxMaps /\ Windows(b, At(p))
  BY <1>1, PlayerIs
<1>3. c \in Cid
  BY <1>1, <1>2, UsedIs
<1> HIDE DEF b
<1>4. e \in BoxMaps /\ Windows(e, At(p))
  BY <1>2, <1>3, SetBox
<1> HIDE DEF e
<1>5. PlayersOK' /\ saved' = saved
  BY <1>1, <1>2, <1>4, HasKeeps
<1> QED BY <1>1, <1>5, BoxesKeep DEF SavedOK

(***************************************************************************)
(* Deaths, decay, gamemasters.                                             *)
(***************************************************************************)
LEMMA AmountIs ==
    ASSUME NEW q \in Seq(Things), NEW k
    PROVE  /\ Amount(q, k) \in Nat
           /\ Tally([i \in DOMAIN q |-> IF q[i].kind = k THEN q[i].count ELSE 0])
<1> DEFINE f == [i \in DOMAIN q |-> IF q[i].kind = k THEN q[i].count ELSE 0]
<1>1. IsFiniteSet(DOMAIN q)
  <2>1. DOMAIN q = 1..Len(q) /\ Len(q) \in Nat
    BY SeqIs
  <2> QED BY <2>1, FS_Interval
<1>2. \A i \in DOMAIN q : f[i] \in Nat
  BY SeqIs, ThingIs
<1>3. Tally(f)
  <2>1. f \in [DOMAIN q -> Nat] /\ DOMAIN f = DOMAIN q
    BY <1>2
  <2> HIDE DEF f
  <2> QED BY <1>1, <2>1 DEF Tally
<1> QED BY <1>3, SumIs DEF Amount

LEMMA MakesKeeps ==
    ASSUME MadeOK, NEW q \in Seq(Things), Makes(q)
    PROVE  made' \in [Kind -> Nat] /\ \A k \in Kind : made'[k] = made[k] + Amount(q, k)
<1>1. made' = [k \in Kind |-> made[k] + Amount(q, k)]
  BY DEF Makes
<1> DEFINE n(k) == Amount(q, k)
<1>2. \A k \in Kind : n(k) \in Nat
  BY AmountIs
<1> HIDE DEF n
<1>3. made' = [k \in Kind |-> made[k] + n(k)]
  BY <1>1 DEF n
<1>4. made' \in [Kind -> Nat] /\ \A k \in Kind : made'[k] = made[k] + n(k)
  BY <1>2, <1>3 DEF MadeOK
<1> QED BY <1>4 DEF n

LEMMA DoublesKeeps ==
    ASSUME MadeOK, NEW q \in Seq(Things), Doubles(q)
    PROVE  doubled' \in [Kind -> Nat] /\ \A k \in Kind : doubled'[k] = doubled[k] + Amount(q, k)
<1>1. doubled' = [k \in Kind |-> doubled[k] + Amount(q, k)]
  BY DEF Doubles
<1> DEFINE n(k) == Amount(q, k)
<1>2. \A k \in Kind : n(k) \in Nat
  BY AmountIs
<1> HIDE DEF n
<1>3. doubled' = [k \in Kind |-> doubled[k] + n(k)]
  BY <1>1 DEF n
<1>4. doubled' \in [Kind -> Nat] /\ \A k \in Kind : doubled'[k] = doubled[k] + n(k)
  BY <1>2, <1>3 DEF MadeOK
<1> QED BY <1>4 DEF n

LEMMA CorpseIs ==
    ASSUME NEW st \in Piles, NEW kind \in Kind
    PROVE  /\ WithCorpse(st, kind) \in Piles
           /\ WithCorpse(st, kind).stack = st.stack \o <<[kind |-> kind, count |-> 1]>>
<1> DEFINE x == [kind |-> kind, count |-> 1]
<1>1. x \in Things /\ st.stack \in Seq(Things) /\ st.pre \in Nat
  BY SingleMade, PileIs
<1> HIDE DEF x
<1>2. Append(st.stack, x) \in Seq(Things) /\ Append(st.stack, x) = st.stack \o <<x>>
  BY <1>1
<1>3. WithCorpse(st, kind) = [pre |-> st.pre, stack |-> Append(st.stack, x)]
  BY StackSet DEF WithCorpse, x
<1> HIDE DEF WithCorpse
<1>4. WithCorpse(st, kind).stack = Append(st.stack, x)
  BY <1>3
<1> QED BY <1>1, <1>2, <1>3, <1>4 DEF Piles, x

LEMMA FittingIs ==
    ASSUME LootOK, NEW t \in Tile, NEW q \in Seq(Things)
    PROVE  Lying(t) \in Seq(Things) /\ Fitting(t, q) \in Seq(Things)
<1> DEFINE n == Least(Len(q), Most(LootMax - Len(Lying(t)), 0))
<1>1. Lying(t) \in Seq(Things)
  BY DEF LootOK, Lying
<1>2. Len(q) \in Nat /\ Len(Lying(t)) \in Nat /\ LootMax \in Nat
  BY <1>1, SeqIs, ItemsAssumption
<1>3. n \in Nat /\ n <= Len(q)
  BY <1>2 DEF Least, Most
<1>4. Fitting(t, q) = SubSeq(q, 1, n)
  BY DEF Fitting
<1> HIDE DEF n
<1>5. SubSeq(q, 1, n) \in Seq(Things)
  BY <1>2, <1>3, PartIs
<1> QED BY <1>1, <1>4, <1>5

LEMMA AddedIs ==
    ASSUME LootOK, NEW t \in Tile, NEW q \in Seq(Things)
    PROVE  Added(t, q) \in Seq(Things)
<1>1. Lying(t) \in Seq(Things) /\ Fitting(t, q) \in Seq(Things)
  BY FittingIs
<1> QED BY <1>1, JoinIs DEF Added

LEMMA LootOfIs ==
    ASSUME PlayersOK, NEW p \in Here
    PROVE  LootOf(p) \in Seq(Things)
<1> DEFINE worn == {s \in Slot : Worn(p)[s] # None}
           b == Boxes(p)
           bags == UNION {From(b, InSlot(s)) : s \in Slot}
           f == [u \in worn \X {0} |-> Worn(p)[u[1]]]
           g == [u \in PlacesOf(b, bags) |-> b[u[1]].items[u[2]]]
<1>1. LootOf(p) = Line(f) \o Line(g)
  BY DEF LootOf, PlacesOf
<1>2. b \in BoxMaps /\ \A s \in worn : Worn(p)[s] \in Things
  BY PlayerIs
<1>3. DOMAIN f = worn \X {0} /\ \A u \in DOMAIN f : f[u] = Worn(p)[u[1]]
  OBVIOUS
<1>4. IsFiniteSet(worn \X {0}) /\ worn \X {0} \subseteq Nat \X Nat
  <2>1. IsFiniteSet(worn) /\ worn \subseteq Nat
    BY ItemsAssumption, FS_Subset
  <2> HIDE DEF worn
  <2>2. IsFiniteSet({0})
    BY FS_Singleton
  <2>3. IsFiniteSet(worn \X {0})
    BY <2>1, <2>2, FS_Product
  <2>4. ASSUME NEW u \in worn \X {0} PROVE u \in Nat \X Nat
    <3>1. PICK s \in worn, n \in {0} : u = <<s, n>>
      BY <2>4
    <3>2. s \in Nat /\ n \in Nat
      BY <2>1
    <3> QED BY <3>1, <3>2
  <2>5. worn \X {0} \subseteq Nat \X Nat
    BY <2>4
  <2> QED BY <2>3, <2>5
<1> HIDE DEF f
<1>5. Line(f) \in Seq(Things)
  <2>1. \A u \in DOMAIN f : f[u] \in Things
    BY <1>2, <1>3
  <2> HIDE DEF worn
  <2> QED BY <1>3, <1>4, <2>1, LineIs
<1>6. bags \subseteq Used(b)
  BY DEF From
<1>7. DOMAIN g = PlacesOf(b, bags) /\ \A u \in DOMAIN g : g[u] = b[u[1]].items[u[2]]
  OBVIOUS
<1> HIDE DEF g, bags, b
<1>8. Line(g) \in Seq(Things)
  <2>1. /\ IsFiniteSet(PlacesOf(b, bags)) /\ PlacesOf(b, bags) \subseteq Nat \X Nat
        /\ \A u \in PlacesOf(b, bags) : b[u[1]].items[u[2]] \in Things
    BY <1>2, <1>6, PlacesFinite
  <2> QED BY <1>7, <2>1, LineIs
<1> QED BY <1>1, <1>5, <1>8, JoinIs

LEMMA DecayIs ==
    ASSUME NEW t \in Tile, NEW sp \in Nat, NEW kind \in {Splash, HumanCorpse, MonsterCorpse}
    PROVE  Decay(t, sp, kind) \in [tile : Tile, sp : Nat, kind : {Splash, HumanCorpse, MonsterCorpse}]
<1>1. Least(sp, Shown + 1) \in Nat
  BY ItemsAssumption DEF Least
<1> QED BY <1>1 DEF Decay

LEMMA BloodyIs ==
    ASSUME NEW st \in Piles, Sound(st), NEW kind \in Kind
    PROVE  /\ Insert(st, [kind |-> kind, count |-> 1]) \in Piles
           /\ [kind |-> kind, count |-> 1] \in Things
           /\ Len(Insert(st, [kind |-> kind, count |-> 1]).stack) \in Nat
<1>1. [kind |-> kind, count |-> 1] \in Things
  BY SingleMade
<1>2. Insert(st, [kind |-> kind, count |-> 1]) \in Piles
  BY <1>1, InsertedIs
<1> QED BY <1>1, <1>2, PileIs, SeqIs

LEMMA PlayerDiesKeeps ==
    ASSUME Inv, NEW p, PlayerDies(p)
    PROVE  Inv'
<1> DEFINE t == At(p)
           blood == [kind |-> Splash, count |-> 1]
           bloody == Insert(ground[t], blood)
           body == [kind |-> HumanCorpse, count |-> 1]
           drops == LootOf(p)
           d == Decay(t, Len(bloody.stack) + 1, HumanCorpse)
<1>1. /\ p \in Here /\ Sound(ground[t])
      /\ ground' = [ground EXCEPT ![t] = WithCorpse(bloody, HumanCorpse)]
      /\ decaying' = decaying \union {d}
      /\ corpses' = [corpses EXCEPT ![t] = HumanCorpse]
      /\ loot' = IF drops = <<>> THEN loot ELSE [loot EXCEPT ![t] = Added(t, drops)]
      /\ Makes(<<body, blood>>) /\ Doubles(Fitting(t, drops))
      /\ Leaves(p) /\ up' = up
  BY DEF PlayerDies
<1>2. GroundOK /\ PlayersOK /\ SavedOK /\ LootOK /\ CorpsesOK /\ DecayingOK /\ MadeOK /\ up \in BOOLEAN
  BY DEF Inv
<1>3. t \in Tile /\ ground[t] \in Piles
  BY <1>1, <1>2, PlayerIs DEF GroundOK
<1>4. bloody \in Piles /\ blood \in Things /\ Len(bloody.stack) \in Nat
  BY <1>1, <1>3, BloodyIs, ItemsAssumption
<1>5. body \in Things
  BY SingleMade, ItemsAssumption
<1>6. WithCorpse(bloody, HumanCorpse) \in Piles
  BY <1>4, CorpseIs, ItemsAssumption
<1>7. drops \in Seq(Things)
  BY <1>1, <1>2, LootOfIs
<1>8. d \in [tile : Tile, sp : Nat, kind : {Splash, HumanCorpse, MonsterCorpse}]
  <2>1. Len(bloody.stack) + 1 \in Nat
    BY <1>4
  <2> QED BY <1>3, <2>1, DecayIs
<1> HIDE DEF t, blood, bloody, body, drops, d
<1>9. GroundOK'
  BY <1>1, <1>2, <1>3, <1>6 DEF GroundOK
<1>10. DecayingOK'
  BY <1>1, <1>2, <1>8 DEF DecayingOK
<1>11. CorpsesOK'
  BY <1>1, <1>2 DEF CorpsesOK
<1>12. LootOK'
  <2>1. Added(t, drops) \in Seq(Things)
    BY <1>2, <1>3, <1>7, AddedIs
  <2> QED BY <1>1, <1>2, <2>1 DEF LootOK
<1>13. MadeOK'
  <2>1. <<body, blood>> \in Seq(Things)
    BY <1>4, <1>5
  <2>2. Fitting(t, drops) \in Seq(Things)
    BY <1>2, <1>3, <1>7, FittingIs
  <2>3. made' \in [Kind -> Nat]
    BY <1>1, <1>2, <2>1, MakesKeeps
  <2>4. doubled' \in [Kind -> Nat]
    BY <1>1, <1>2, <2>2, DoublesKeeps
  <2> QED BY <2>3, <2>4 DEF MadeOK
<1>14. PlayersOK' /\ SavedOK'
  BY <1>1, <1>2, LeavesKeeps
<1> QED BY <1>1, <1>2, <1>9, <1>10, <1>11, <1>12, <1>13, <1>14 DEF Inv

LEMMA MonsterDiesKeeps ==
    ASSUME Inv, NEW t \in Tile, NEW bleeds \in BOOLEAN, NEW things \in Drops,
           NEW corpse \in {MonsterCorpse, None}, MonsterDies(t, bleeds, corpse, things)
    PROVE  Inv'
<1> DEFINE blood == [kind |-> Splash, count |-> 1]
           body == [kind |-> corpse, count |-> 1]
           st == IF bleeds THEN Insert(ground[t], blood) ELSE ground[t]
           after == IF corpse = None THEN st ELSE WithCorpse(st, corpse)
           d == IF bleeds THEN {Decay(t, st.pre + 1, Splash)} ELSE {}
           e == IF corpse = None THEN {} ELSE {Decay(t, Len(st.stack) + 1, corpse)}
           fits == Fitting(t, things)
           new == fits \o (IF bleeds THEN <<blood>> ELSE <<>>)
                       \o (IF corpse = None THEN <<>> ELSE <<body>>)
<1>1. /\ bleeds => Sound(ground[t])
      /\ ground' = [ground EXCEPT ![t] = after]
      /\ decaying' = decaying \union d \union e
      /\ Makes(new)
      /\ corpses' = IF corpse = None THEN corpses ELSE [corpses EXCEPT ![t] = corpse]
      /\ loot' = [loot EXCEPT ![t] = Added(t, things)]
      /\ UNCHANGED <<players, saved, doubled, up>>
  BY DEF MonsterDies
<1>2. GroundOK /\ PlayersOK /\ SavedOK /\ LootOK /\ CorpsesOK /\ DecayingOK /\ MadeOK /\ up \in BOOLEAN
  BY DEF Inv
<1>3. ground[t] \in Piles /\ things \in Seq(Things) /\ blood \in Things
  BY <1>2, ItemsAssumption, SingleMade DEF GroundOK
<1>4. st \in Piles
  BY <1>1, <1>3, BloodyIs, ItemsAssumption
<1> HIDE DEF st, blood
<1>5. corpse # None => corpse = MonsterCorpse /\ corpse \in Kind
  BY ItemsAssumption
<1>6. after \in Piles
  BY <1>4, <1>5, CorpseIs
<1>7. st.pre \in Nat /\ Len(st.stack) \in Nat
  BY <1>4, PileIs, SeqIs
<1> HIDE DEF after
<1>8. GroundOK'
  BY <1>1, <1>2, <1>6 DEF GroundOK
<1>9. DecayingOK'
  <2> DEFINE D == [tile : Tile, sp : Nat, kind : {Splash, HumanCorpse, MonsterCorpse}]
  <2>1. d \subseteq D
    <3>1. st.pre + 1 \in Nat /\ Splash \in {Splash, HumanCorpse, MonsterCorpse}
      BY <1>7
    <3>2. Decay(t, st.pre + 1, Splash) \in D
      BY <3>1, DecayIs
    <3> QED BY <3>2
  <2>2. e \subseteq D
    <3>1. CASE corpse # None
      <4>1. Len(st.stack) + 1 \in Nat /\ corpse \in {Splash, HumanCorpse, MonsterCorpse}
        BY <1>5, <1>7, <3>1
      <4>2. Decay(t, Len(st.stack) + 1, corpse) \in D
        BY <4>1, DecayIs
      <4> QED BY <4>2
    <3>2. CASE corpse = None
      BY <3>2
    <3> QED BY <3>1, <3>2
  <2> HIDE DEF d, e
  <2> QED BY <1>1, <1>2, <2>1, <2>2 DEF DecayingOK
<1> HIDE DEF d, e
<1>10. CorpsesOK'
  BY <1>1, <1>2 DEF CorpsesOK
<1>11. LootOK'
  <2>1. Added(t, things) \in Seq(Things)
    BY <1>2, <1>3, AddedIs
  <2> QED BY <1>1, <1>2, <2>1 DEF LootOK
<1>12. MadeOK'
  <2> DEFINE u == IF bleeds THEN <<blood>> ELSE <<>>
             v == IF corpse = None THEN <<>> ELSE <<body>>
  <2>1. u \in Seq(Things)
    BY <1>3
  <2>2. v \in Seq(Things)
    <3>1. corpse # None => body \in Things
      BY <1>5, SingleMade
    <3> HIDE DEF body
    <3> QED BY <3>1
  <2>3. new = fits \o u \o v
    OBVIOUS
  <2>4. fits \in Seq(Things)
    BY <1>2, <1>3, FittingIs
  <2> HIDE DEF u, v, new, fits
  <2>5. fits \o u \in Seq(Things)
    BY <2>1, <2>4, JoinIs
  <2>6. new \in Seq(Things)
    BY <2>2, <2>3, <2>5, JoinIs
  <2>7. made' \in [Kind -> Nat]
    BY <1>1, <1>2, <2>6, MakesKeeps
  <2> QED BY <1>1, <1>2, <2>7 DEF MadeOK
<1> HIDE DEF new
<1>13. PlayersOK' /\ SavedOK'
  BY <1>1, <1>2, SameKeeps
<1> QED BY <1>1, <1>2, <1>8, <1>9, <1>10, <1>11, <1>12, <1>13 DEF Inv

LEMMA DecaysKeeps ==
    ASSUME Inv, NEW d, Decays(d)
    PROVE  Inv'
<1> DEFINE st == ground[d.tile]
           i == IF d.sp <= st.pre THEN d.sp ELSE Most(d.sp - 1 - CreaturesOn(d.tile), 0) + 1
<1>1. /\ d \in decaying /\ decaying' = decaying \ {d}
      /\ ground' = IF i \in DOMAIN st.stack
                   THEN [ground EXCEPT ![d.tile].stack = RemoveAt(@, i)] ELSE ground
      /\ loot' = [loot EXCEPT ![d.tile] = None]
      /\ corpses' = [corpses EXCEPT ![d.tile] = None]
      /\ UNCHANGED <<players, saved, made, doubled, up>>
  BY DEF Decays
<1>2. GroundOK /\ PlayersOK /\ SavedOK /\ LootOK /\ CorpsesOK /\ DecayingOK /\ MadeOK /\ up \in BOOLEAN
  BY DEF Inv
<1>3. d.tile \in Tile
  BY <1>1, <1>2 DEF DecayingOK
<1>4. st \in Piles /\ st.stack \in Seq(Things)
  BY <1>2, <1>3, PileIs DEF GroundOK
<1> HIDE DEF i
<1>5. GroundOK'
  <2>1. CASE i \in DOMAIN st.stack
    <3> DEFINE q == RemoveAt(st.stack, i)
    <3>1. q \in Seq(Things)
      BY <1>4, <2>1, RemoveIs
    <3>2. ground' = [ground EXCEPT ![d.tile] = [st EXCEPT !.stack = q]]
      BY <1>1, <2>1
    <3> HIDE DEF q, st
    <3>3. [st EXCEPT !.stack = q] \in Piles
      BY <1>4, <3>1, StackSet, PileIs DEF Piles
    <3> QED BY <1>2, <3>2, <3>3 DEF GroundOK
  <2>2. CASE i \notin DOMAIN st.stack
    BY <1>1, <1>2, <2>2 DEF GroundOK
  <2> QED BY <2>1, <2>2
<1> HIDE DEF st
<1>6. LootOK' /\ CorpsesOK' /\ DecayingOK' /\ MadeOK'
  BY <1>1, <1>2 DEF LootOK, CorpsesOK, DecayingOK, MadeOK
<1>7. PlayersOK' /\ SavedOK'
  BY <1>1, <1>2, SameKeeps
<1> QED BY <1>1, <1>2, <1>5, <1>6, <1>7 DEF Inv

LEMMA SpawnItemKeeps ==
    ASSUME Inv, NEW t \in Tile, NEW kind \in Kind, NEW n \in Nat, SpawnItem(t, kind, n)
    PROVE  Inv'
<1> DEFINE m == IF kind \in Stackable THEN Least(Most(n, 1), Cap) ELSE 1
           thing == [kind |-> kind, count |-> m]
<1>1. /\ Sound(ground[t]) /\ ground' = [ground EXCEPT ![t] = Insert(@, thing)]
      /\ Makes(<<thing>>)
      /\ UNCHANGED <<players, saved, loot, corpses, decaying, doubled, up>>
  BY DEF SpawnItem
<1>2. GroundOK /\ PlayersOK /\ SavedOK /\ LootOK /\ CorpsesOK /\ DecayingOK /\ MadeOK /\ up \in BOOLEAN
  BY DEF Inv
<1>3. thing \in Things
  <2>1. m \in 1..Cap /\ (kind \notin Stackable => m = 1)
    BY ItemsAssumption DEF Least, Most
  <2> HIDE DEF m
  <2> QED BY <2>1, ThingMade
<1> HIDE DEF thing
<1>4. GroundOK'
  <2>1. ground[t] \in Piles
    BY <1>2 DEF GroundOK
  <2>2. Insert(ground[t], thing) \in Piles
    BY <1>1, <1>3, <2>1, InsertedIs
  <2>3. ground' = [ground EXCEPT ![t] = Insert(ground[t], thing)]
    BY <1>1
  <2> QED BY <1>2, <2>2, <2>3 DEF GroundOK
<1>5. MadeOK'
  <2>1. <<thing>> \in Seq(Things)
    BY <1>3
  <2>2. made' \in [Kind -> Nat]
    BY <1>1, <1>2, <2>1, MakesKeeps
  <2> QED BY <1>1, <1>2, <2>2 DEF MadeOK
<1>6. LootOK' /\ CorpsesOK' /\ DecayingOK' /\ up' \in BOOLEAN
  BY <1>1, <1>2 DEF LootOK, CorpsesOK, DecayingOK
<1>7. PlayersOK' /\ SavedOK'
  BY <1>1, <1>2, SameKeeps
<1> QED BY <1>4, <1>5, <1>6, <1>7 DEF Inv

LEMMA PanicKeeps ==
    ASSUME Inv, Panic
    PROVE  Inv'
<1>1. up' = FALSE /\ UNCHANGED <<ground, players, saved, loot, corpses, decaying, made, doubled>>
  BY DEF Panic
<1>2. GroundOK' /\ LootOK' /\ CorpsesOK' /\ DecayingOK' /\ MadeOK' /\ up' \in BOOLEAN
  BY <1>1 DEF Inv, GroundOK, LootOK, CorpsesOK, DecayingOK, MadeOK
<1>3. PlayersOK' /\ SavedOK'
  BY <1>1, SameKeeps DEF Inv
<1> QED BY <1>2, <1>3 DEF Inv

LEMMA MovesKeep ==
    ASSUME Inv, NEW p, NEW cut, Moves(p, cut)
    PROVE  Inv'
<1>0. \A n \in Amounts : n \in Nat
  BY ItemsAssumption DEF Amounts
<1>1. ASSUME NEW a \in Tile, NEW b \in Tile, NEW n \in Amounts, NEW i \in Items(a),
             GroundToGround(p, a, i, b, n)
      PROVE  Inv'
  BY <1>0, <1>1, GroundToGroundKeeps
<1>2. ASSUME NEW a \in Tile, NEW s \in Slot, NEW n \in Amounts, NEW i \in Items(a),
             Equip(p, a, i, s, n, cut)
      PROVE  Inv'
  BY <1>0, <1>2, EquipKeeps
<1>3. ASSUME NEW s \in Slot, NEW b \in Tile, Unequip(p, s, b, cut) PROVE Inv'
  BY <1>3, UnequipKeeps
<1>4. ASSUME NEW s \in Slot, NEW d \in Slot, Swap(p, s, d) PROVE Inv'
  BY <1>4, SwapKeeps
<1>5. ASSUME NEW c \in Used(Boxes(p)), NEW d \in Cid, NEW i \in Places(p, c), NEW j \in 1..LootMax,
             BoxToBox(p, c, i, d, j, cut)
      PROVE  Inv'
  BY <1>5, BoxToBoxKeeps
<1>6. ASSUME NEW a \in Tile, NEW c \in Cid, NEW n \in Amounts, NEW i \in Items(a),
             GroundToBox(p, a, i, c, n, cut)
      PROVE  Inv'
  BY <1>0, <1>6, GroundToBoxKeeps
<1>7. ASSUME NEW c \in Used(Boxes(p)), NEW t \in Tile, NEW i \in Places(p, c), BoxToGround(p, c, i, t)
      PROVE  Inv'
  BY <1>7, BoxToGroundKeeps
<1>8. ASSUME NEW s \in Slot, NEW c \in Cid, SlotToBox(p, s, c, cut) PROVE Inv'
  BY <1>8, SlotToBoxKeeps
<1>9. ASSUME NEW c \in Used(Boxes(p)), NEW s \in Slot, NEW i \in Places(p, c),
             BoxToSlot(p, c, i, s, cut)
      PROVE  Inv'
  BY <1>9, BoxToSlotKeeps
<1> QED BY <1>1, <1>2, <1>3, <1>4, <1>5, <1>6, <1>7, <1>8, <1>9 DEF Moves

LEMMA UsesKeep ==
    ASSUME Inv, NEW p, Uses(p)
    PROVE  Inv'
<1>1. ASSUME NEW source \in Carried(p), NEW hint \in Cid, UseCarriedContainer(p, source, hint)
      PROVE  Inv'
  BY <1>1, UseCarriedContainerKeeps
<1>2. ASSUME NEW t \in Tile, NEW hint \in Cid, NEW i \in Items(t), UseGroundContainer(p, t, i, hint)
      PROVE  Inv'
  BY <1>2, UseGroundContainerKeeps
<1>3. ASSUME NEW t \in Tile, NEW i \in Items(t), OpenCorpse(p, t, i) PROVE Inv'
  BY <1>3, OpenCorpseKeeps
<1>4. ASSUME NEW source \in Carried(p), ToggleCarried(p, source) PROVE Inv'
  BY <1>4, ToggleCarriedKeeps
<1>5. ASSUME NEW t \in Tile, NEW i \in Items(t), ToggleOnGround(p, t, i) PROVE Inv'
  BY <1>5, ToggleOnGroundKeeps
<1>6. ASSUME NEW source \in Carried(p), EatCarried(p, source) PROVE Inv'
  BY <1>6, EatCarriedKeeps
<1>7. ASSUME NEW t \in Tile, NEW i \in Items(t), EatOnGround(p, t, i) PROVE Inv'
  BY <1>7, EatOnGroundKeeps
<1>8. ASSUME NEW c \in Cid, CloseContainer(p, c) \/ UpArrow(p, c) PROVE Inv'
  BY <1>8, CloseContainerKeeps, UpArrowKeeps
<1> QED BY <1>1, <1>2, <1>3, <1>4, <1>5, <1>6, <1>7, <1>8 DEF Uses

LEMMA NextKeeps ==
    ASSUME Inv, Next
    PROVE  Inv'
<1>0. \A n \in Amounts : n \in Nat
  BY ItemsAssumption DEF Amounts
<1>1. ASSUME NEW p \in Player, NEW t \in Tile, Login(p, t) \/ Step(p, t) PROVE Inv'
  BY <1>1, LoginKeeps, StepKeeps
<1>2. ASSUME NEW p \in Here, Logout(p) \/ PlayerDies(p) \/ Uses(p) PROVE Inv'
  BY <1>2, LogoutKeeps, PlayerDiesKeeps, UsesKeep
<1>3. ASSUME NEW p \in Here, NEW cut \in BOOLEAN, Moves(p, cut) PROVE Inv'
  BY <1>3, MovesKeep
<1>4. ASSUME NEW t \in Tile, NEW bleeds \in BOOLEAN, NEW things \in Drops,
             NEW corpse \in {MonsterCorpse, None}, MonsterDies(t, bleeds, corpse, things)
      PROVE  Inv'
  BY <1>4, MonsterDiesKeeps
<1>5. ASSUME NEW d \in decaying, Decays(d) PROVE Inv'
  BY <1>5, DecaysKeeps
<1>6. ASSUME NEW t \in Tile, NEW k \in Wanted, NEW n \in Amounts, SpawnItem(t, k, n) PROVE Inv'
  <2>1. k \in Kind /\ n \in Nat
    BY <1>0, ItemsAssumption
  <2> QED BY <1>6, <2>1, SpawnItemKeeps
<1>7. ASSUME Panic PROVE Inv'
  BY <1>7, PanicKeeps
<1> QED BY <1>1, <1>2, <1>3, <1>4, <1>5, <1>6, <1>7 DEF Next

LEMMA StutterKeeps ==
    ASSUME Inv, UNCHANGED vars
    PROVE  Inv'
<1>1. UNCHANGED <<ground, players, saved, loot, corpses, decaying, made, doubled, up>>
  BY DEF vars
<1>2. GroundOK' /\ LootOK' /\ CorpsesOK' /\ DecayingOK' /\ MadeOK' /\ up' \in BOOLEAN
  BY <1>1 DEF Inv, GroundOK, LootOK, CorpsesOK, DecayingOK, MadeOK
<1>3. PlayersOK' /\ SavedOK'
  BY <1>1, SameKeeps DEF Inv
<1> QED BY <1>2, <1>3 DEF Inv

LEMMA InvHolds == Spec => []Inv
<1>1. Inv /\ [Next]_vars => Inv'
  BY NextKeeps, StutterKeeps
<1> QED BY InitKeeps, <1>1, PTL DEF Spec

\* Things are one to Cap of a kind that may be stacked, or single, wherever moves,
\* merges, spills, pops, meals, deaths, decay, saves and logins leave them, and every box
\* has a place it was opened from (containers.rs, items.rs, restore_containers).
THEOREM TypesHold == Spec => []TypeOK
<1>1. Inv => TypeOK
  BY InvIs
<1> QED BY InvHolds, <1>1, PTL

\* Whatever a player has open on the ground is within its reach
\* (auto_close_ground_containers), with any number of players and boxes.
THEOREM WindowsNear == Spec => []GroundWindowsNear
<1>1. Inv => GroundWindowsNear
  BY InvIs
<1> QED BY InvHolds, <1>1, PTL
=============================================================================
