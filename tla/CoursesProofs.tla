--------------------------- MODULE CoursesProofs ---------------------------
(***************************************************************************)
(* That paths lead and sight is mutual, for any map and any question.      *)
(*                                                                         *)
(* What a recursive definition computes is shown by two facts that need no *)
(* operator as a parameter: a set of naturals that holds 0 and, with n-1,  *)
(* n, holds all (Climb), and a function defined by recursion over 0..n     *)
(* exists (Unwinds).                                                       *)
(*                                                                         *)
(* The path search: the table is a tree (Rooted) whose costs grow from the *)
(* root, so the way back from a node ends, enters no tile twice and meets  *)
(* no tile that would have done before (WayBack, PathLeads).               *)
(* The lines of sight: LineClear looks at the tiles nearest to the true    *)
(* line (LineInside, OnStraight), from the same end whichever of the two   *)
(* asks (SameLine).                                                        *)
(***************************************************************************)
EXTENDS Courses, NaturalsInduction, WellFoundedInduction, TLAPS

(***************************************************************************)
(* Recursion over the naturals.                                            *)
(***************************************************************************)
LEMMA LeastOf ==
    ASSUME NEW S, S \subseteq Nat, S # {}
    PROVE  \E m \in S : \A k \in S : m <= k
<1>1. PICK m \in S : \A k \in S : ~ (<<k, m>> \in OpToRel(<, Nat))
  <2>1. \E m \in S : \A k \in S : ~ (<<k, m>> \in OpToRel(<, Nat))
    BY WFMin, NatLessThanWellFounded
  <2> QED BY <2>1
<1>2. ASSUME NEW k \in S PROVE m <= k
  <2>1. k \in Nat /\ m \in Nat
    OBVIOUS
  <2>2. k < m => <<k, m>> \in OpToRel(<, Nat)
    BY <2>1 DEF OpToRel
  <2>3. ~ (k < m)
    BY <1>1, <2>2
  <2> QED BY <2>1, <2>3
<1> QED BY <1>2

\* What holds of 0, and of n if it holds of n-1, holds of all.
LEMMA Climb ==
    ASSUME NEW n \in Nat, NEW S, 0 \in S, \A k \in 1..n : k - 1 \in S => k \in S
    PROVE  \A k \in 0..n : k \in S
<1> DEFINE Bad == {k \in 0..n : k \notin S}
<1>1. SUFFICES ASSUME Bad # {} PROVE FALSE
  OBVIOUS
<1>2. PICK m \in Bad : \A k \in Bad : m <= k
  <2>1. Bad \subseteq Nat
    OBVIOUS
  <2> HIDE DEF Bad
  <2> QED BY <1>1, <2>1, LeastOf
<1>3. m \in 1..n /\ m - 1 \in 0..n
  OBVIOUS
<1>4. m - 1 \notin Bad
  BY <1>2, <1>3
<1> QED BY <1>3, <1>4

\* Steps between n+1 stages: G gives from the k-th step and the stage before
\* it the stage after it.
StepsIn(n, V, G) == \A k \in 1..n : \A v \in V : G[<<k, v>>] \in V
Stages(n, V, a, G, f) ==
    f \in [0..n -> V] /\ f[0] = a /\ \A k \in 1..n : f[k] = G[<<k, f[k-1]>>]

LEMMA Unwinds ==
    ASSUME NEW n \in Nat, NEW V, NEW a \in V, NEW G, StepsIn(n, V, G)
    PROVE  \E f : Stages(n, V, a, G, f)
<1> DEFINE Solves(m, f) == f[0] = a /\ \A k \in 1..m : f[k] = G[<<k, f[k-1]>>]
           S == {m \in Nat : m <= n => \E f \in [0..m -> V] : Solves(m, f)}
<1>1. 0 \in S
  <2> DEFINE f == [k \in 0..0 |-> a]
  <2>1. f \in [0..0 -> V] /\ Solves(0, f)
    OBVIOUS
  <2> QED BY <2>1
<1>2. ASSUME NEW m \in 1..n, m - 1 \in S PROVE m \in S
  <2>1. m - 1 <= n /\ m \in Nat /\ m - 1 \in Nat
    OBVIOUS
  <2>2. PICK f \in [0..m-1 -> V] : Solves(m - 1, f)
    BY <1>2, <2>1
  <2> DEFINE h == [k \in 0..m |-> IF k = m THEN G[<<m, f[m-1]>>] ELSE f[k]]
  <2>3. f[m-1] \in V
    BY <2>1
  <2>5. G[<<m, f[m-1]>>] \in V
    BY <2>3 DEF StepsIn
  <2> DEFINE v == G[<<m, f[m-1]>>]
  <2>6. h \in [0..m -> V]
    <3>1. \A k \in 0..m : k # m => k \in 0..m-1 /\ f[k] \in V
      BY <2>1
    <3>2. v \in V
      BY <2>5
    <3>3. h = [k \in 0..m |-> IF k = m THEN v ELSE f[k]]
      OBVIOUS
    <3> HIDE DEF v, h
    <3> QED BY <3>1, <3>2, <3>3
  <2>0. \A k \in 0..m : h[k] = IF k = m THEN v ELSE f[k]
    OBVIOUS
  <2> HIDE DEF h
  <2>7. Solves(m, h)
    <3>1. h[0] = a
      BY <2>0, <2>1, <2>2
    <3>2. ASSUME NEW k \in 1..m PROVE h[k] = G[<<k, h[k-1]>>]
      <4>1. k - 1 \in 0..m /\ k - 1 # m /\ k \in 0..m
        BY <2>1
      <4>2. h[k-1] = f[k-1]
        BY <2>0, <4>1
      <4>3. CASE k = m
        BY <2>0, <4>1, <4>2, <4>3
      <4>4. CASE k # m
        <5>1. k \in 1..m-1
          BY <2>1, <4>4
        <5>2. h[k] = f[k] /\ f[k] = G[<<k, f[k-1]>>]
          BY <2>0, <2>2, <4>1, <4>4, <5>1
        <5> QED BY <4>2, <5>2
      <4> QED BY <4>3, <4>4
    <3> QED BY <3>1, <3>2
  <2> HIDE DEF Solves
  <2> QED BY <2>1, <2>6, <2>7
<1>3. n \in S
  <2> HIDE DEF S
  <2>1. \A k \in 0..n : k \in S
    BY <1>1, <1>2, Climb
  <2> QED BY <2>1
<1> QED BY <1>3 DEF Stages

(***************************************************************************)
(* Sift.                                                                   *)
(***************************************************************************)
Keeps(q, S, g) ==
    g = [n \in 0..Len(q) |->
            IF n = 0 THEN << >> ELSE IF n \in S THEN Append(g[n-1], q[n]) ELSE g[n-1]]

\* What is kept up to n is at places that grow with it.
Placed(q, S, n, r) ==
    \E h \in [1..Len(r) -> 1..n] :
        /\ \A k \in 1..Len(r) : h[k] \in S /\ r[k] = q[h[k]]
        /\ \A k, l \in 1..Len(r) : h[k] = h[l] => k = l

LEMMA KeepsStep ==
    ASSUME NEW T, NEW q \in Seq(T), NEW S, NEW n \in 1..Len(q), NEW r \in Seq(T), Placed(q, S, n - 1, r)
    PROVE  /\ n \in S => Append(r, q[n]) \in Seq(T) /\ Placed(q, S, n, Append(r, q[n]))
           /\ n \notin S => Placed(q, S, n, r)
<1>1. PICK h \in [1..Len(r) -> 1..n-1] :
          /\ \A k \in 1..Len(r) : h[k] \in S /\ r[k] = q[h[k]]
          /\ \A k, l \in 1..Len(r) : h[k] = h[l] => k = l
  BY DEF Placed
<1>2. n \in Nat /\ Len(r) \in Nat /\ q[n] \in T
  OBVIOUS
<1>3. CASE n \notin S
  <2>1. h \in [1..Len(r) -> 1..n]
    BY <1>2
  <2> QED BY <1>1, <1>3, <2>1 DEF Placed
<1>4. CASE n \in S
  <2> DEFINE e == Append(r, q[n])
             j == [k \in 1..Len(e) |-> IF k = Len(e) THEN n ELSE h[k]]
  <2>1. e \in Seq(T) /\ Len(e) = Len(r) + 1 /\ e[Len(e)] = q[n] /\ \A k \in 1..Len(r) : e[k] = r[k]
    BY <1>2
  <2> HIDE DEF e
  <2>2. \A k \in 1..Len(e) : k # Len(e) => k \in 1..Len(r)
    BY <1>2, <2>1
  <2>3. \A k \in 1..Len(r) : h[k] \in 1..n-1
    OBVIOUS
  <2>4. j \in [1..Len(e) -> 1..n]
    BY <1>2, <2>2, <2>3
  <2>5. \A k \in 1..Len(e) : j[k] \in S /\ e[k] = q[j[k]]
    BY <1>1, <1>4, <2>1, <2>2
  <2>6. ASSUME NEW k \in 1..Len(e), NEW l \in 1..Len(e), j[k] = j[l] PROVE k = l
    <3>1. CASE k = Len(e) \/ l = Len(e)
      BY <1>2, <2>2, <2>3, <2>6, <3>1
    <3>2. CASE k # Len(e) /\ l # Len(e)
      BY <1>1, <2>2, <2>6, <3>2
    <3> QED BY <3>1, <3>2
  <2>7. Placed(q, S, n, e)
    <3> HIDE DEF j
    <3> QED BY <2>4, <2>5, <2>6 DEF Placed
  <2> QED BY <1>4, <2>1, <2>7 DEF e
<1> QED BY <1>3, <1>4

LEMMA KeepsSolved ==
    ASSUME NEW T, NEW q \in Seq(T), NEW S
    PROVE  \E g : Keeps(q, S, g)
<1> DEFINE n == Len(q)
           V == Seq(T)
           U == (1..n) \X V
           G == [u \in U |-> IF u[1] \in S THEN Append(u[2], q[u[1]]) ELSE u[2]]
           a == << >>
<1>1. n \in Nat /\ a \in V
  OBVIOUS
<1>2. ASSUME NEW k \in 1..n, NEW v \in V PROVE G[<<k, v>>] = (IF k \in S THEN Append(v, q[k]) ELSE v) /\ G[<<k, v>>] \in V
  <2>1. <<k, v>> \in U /\ q[k] \in T
    OBVIOUS
  <2>2. G[<<k, v>>] = IF k \in S THEN Append(v, q[k]) ELSE v
    BY <2>1
  <2>3. Append(v, q[k]) \in V
    BY <2>1
  <2> HIDE DEF G
  <2> QED BY <2>2, <2>3
<1>3. PICK f : Stages(n, V, a, G, f)
  <2> HIDE DEF n, V, U, G, a
  <2>1. StepsIn(n, V, G)
    BY <1>2 DEF StepsIn
  <2> QED BY <1>1, <2>1, Unwinds
<1>4. ASSUME NEW k \in 1..n PROVE f[k] = IF k \in S THEN Append(f[k-1], q[k]) ELSE f[k-1]
  <2>1. k - 1 \in 0..n
    BY <1>1
  <2>2. f[k-1] \in V
    <3> HIDE DEF V, U, n, G, a
    <3> QED BY <1>3, <2>1 DEF Stages
  <2> HIDE DEF V, U, n, G, a
  <2> QED BY <1>2, <1>3, <2>2 DEF Stages
<1>5. \A k \in 0..n : k # 0 => k \in 1..n
  BY <1>1
<1>6. f = [k \in 0..n |-> IF k = 0 THEN << >> ELSE IF k \in S THEN Append(f[k-1], q[k]) ELSE f[k-1]]
  <2>1. f[0] = a
    <3> HIDE DEF n, V, U, G, a
    <3> QED BY <1>3 DEF Stages
  <2>2. DOMAIN f = 0..n /\ f = [k \in 0..n |-> f[k]]
    <3> HIDE DEF n, V, U, G, a
    <3> QED BY <1>3 DEF Stages
  <2>3. f[0] = << >>
    BY <2>1
  <2> HIDE DEF n, V, U, G, a
  <2> QED BY <1>4, <1>5, <2>2, <2>3
<1> QED BY <1>6 DEF Keeps

\* What sifting keeps comes from the places it is to keep, from another
\* place each.
LEMMA SiftIs ==
    ASSUME NEW T, NEW q \in Seq(T), NEW S
    PROVE  Sift(q, S) \in Seq(T) /\ Placed(q, S, Len(q), Sift(q, S))
<1> DEFINE g == CHOOSE f : Keeps(q, S, f)
<1>1. Sift(q, S) = g[Len(q)]
  BY DEF Sift, Keeps
<1>2. Keeps(q, S, g)
  BY KeepsSolved
<1> HIDE DEF g
<1> DEFINE Ok(n) == g[n] \in Seq(T) /\ Placed(q, S, n, g[n])
           R == {n \in Nat : n <= Len(q) => Ok(n)}
<1>3. 0 \in R
  <2>1. g[0] = << >>
    BY <1>2 DEF Keeps
  <2>2. Placed(q, S, 0, << >>)
    <3> DEFINE r == << >>
               h == [k \in 1..Len(r) |-> k]
    <3>1. 1..Len(r) = {}
      OBVIOUS
    <3>2. h \in [1..Len(r) -> 1..0]
      BY <3>1
    <3> HIDE DEF h, r
    <3>3. Placed(q, S, 0, r)
      BY <3>1, <3>2 DEF Placed
    <3> QED BY <3>3 DEF r
  <2>3. << >> \in Seq(T)
    OBVIOUS
  <2>4. Ok(0)
    BY <2>1, <2>2, <2>3
  <2> HIDE DEF Ok
  <2> QED BY <2>4
<1>4. ASSUME NEW n \in 1..Len(q), n - 1 \in R PROVE n \in R
  <2>1. n \in Nat /\ n - 1 \in Nat /\ n - 1 <= Len(q) /\ n \in 0..Len(q) /\ n # 0
    OBVIOUS
  <2>2. Ok(n - 1)
    BY <1>4, <2>1
  <2>3. g[n] = IF n \in S THEN Append(g[n-1], q[n]) ELSE g[n-1]
    BY <1>2, <2>1 DEF Keeps
  <2>4. Ok(n)
    BY <2>2, <2>3, KeepsStep
  <2> QED BY <2>1, <2>4
<1>5. Ok(Len(q))
  <2> HIDE DEF Ok
  <2>1. Len(q) \in Nat
    OBVIOUS
  <2>2. \A n \in 0..Len(q) : n \in R
    <3> HIDE DEF R
    <3> QED BY <1>3, <1>4, <2>1, Climb
  <2>3. Len(q) \in R
    BY <2>1, <2>2
  <2> QED BY <2>1, <2>3
<1> QED BY <1>1, <1>5

(***************************************************************************)
(* The tiles around a node.                                                *)
(***************************************************************************)
Pairs == Int \X Int
Neighbor(p, q) == \E d \in Direction : Delta[d] = <<q[1] - p[1], q[2] - p[2]>>

LEMMA DirectionsAre ==
    /\ Direction = {"North", "East", "South", "West", "NorthEast", "SouthEast", "SouthWest", "NorthWest"}
    /\ \A d \in Direction : Delta[d] \in Pairs /\ Delta[d] # <<0, 0>>
BY DEF Direction, Delta, Pairs

LEMMA DirToIs ==
    ASSUME NEW p, NEW q, Neighbor(p, q)
    PROVE  DirTo(p, q) \in Direction /\ Delta[DirTo(p, q)] = <<q[1] - p[1], q[2] - p[2]>>
BY DEF DirTo, Neighbor

LEMMA NeighborsAre ==
    ASSUME NEW e \in Direction \cup {"Start"}
    PROVE  /\ Neighbors[e] \in Seq(Pairs)
           /\ \A k \in 1..Len(Neighbors[e]) : \E d \in Direction : Delta[d] = Neighbors[e][k]
           /\ \A k, l \in 1..Len(Neighbors[e]) : Neighbors[e][k] = Neighbors[e][l] => k = l
<1>1. CASE e = "Start"
  BY <1>1 DEF Neighbors, Delta, Direction, Pairs
<1>2. CASE e = "East"
  BY <1>2 DEF Neighbors, Delta, Direction, Pairs
<1>3. CASE e = "West"
  BY <1>3 DEF Neighbors, Delta, Direction, Pairs
<1>4. CASE e = "South"
  BY <1>4 DEF Neighbors, Delta, Direction, Pairs
<1>5. CASE e = "North"
  BY <1>5 DEF Neighbors, Delta, Direction, Pairs
<1>6. CASE e = "SouthEast"
  BY <1>6 DEF Neighbors, Delta, Direction, Pairs
<1>7. CASE e = "SouthWest"
  BY <1>7 DEF Neighbors, Delta, Direction, Pairs
<1>8. CASE e = "NorthEast"
  BY <1>8 DEF Neighbors, Delta, Direction, Pairs
<1>9. CASE e = "NorthWest"
  BY <1>9 DEF Neighbors, Delta, Direction, Pairs
<1> QED BY <1>1, <1>2, <1>3, <1>4, <1>5, <1>6, <1>7, <1>8, <1>9, DirectionsAre

LEMMA PlaneIs ==
    ASSUME NEW p \in Plane
    PROVE  p = <<p[1], p[2]>> /\ p[1] \in 0..Extent /\ p[2] \in 0..Extent /\ p[1] \in Int /\ p[2] \in Int
<1>1. PICK x \in 0..Extent, y \in 0..Extent : p = <<x, y>>
  BY DEF Plane
<1> QED BY <1>1, TerrainAssumption

Node == [at : Plane, g : Nat, f : Nat, parent : Nat]

LEMMA NodeIs ==
    ASSUME NEW b \in Node
    PROVE  b.at \in Plane /\ b.g \in Nat /\ b.f \in Nat /\ b.parent \in Nat
BY DEF Node

\* Where the steps from p lead that one looks at who came by e.
NextTo(p, e) ==
    [k \in DOMAIN Neighbors[e] |-> <<p[1] + Neighbors[e][k][1], p[2] + Neighbors[e][k][2]>>]

LEMMA NextToIs ==
    ASSUME NEW p \in Plane, NEW e \in Direction \cup {"Start"}
    PROVE  /\ NextTo(p, e) \in Seq(Pairs)
           /\ \A k \in 1..Len(NextTo(p, e)) : Neighbor(p, NextTo(p, e)[k])
           /\ \A k, l \in 1..Len(NextTo(p, e)) : NextTo(p, e)[k] = NextTo(p, e)[l] => k = l
<1> DEFINE u == Neighbors[e]
           n == Len(u)
           q == NextTo(p, e)
<1>1. /\ u \in Seq(Pairs)
      /\ \A k \in 1..n : \E d \in Direction : Delta[d] = u[k]
      /\ \A k, l \in 1..n : u[k] = u[l] => k = l
  BY NeighborsAre
<1>2. p[1] \in Int /\ p[2] \in Int
  BY PlaneIs
<1> HIDE DEF u
<1>3. n \in Nat /\ DOMAIN u = 1..n
  BY <1>1
<1>4. ASSUME NEW k \in 1..n PROVE u[k] \in Pairs /\ u[k] = <<u[k][1], u[k][2]>> /\ u[k][1] \in Int /\ u[k][2] \in Int
  <2>1. u[k] \in Pairs
    BY <1>1
  <2>2. PICK x \in Int, y \in Int : u[k] = <<x, y>>
    BY <2>1 DEF Pairs
  <2> QED BY <2>1, <2>2
<1> DEFINE v(k) == <<p[1] + u[k][1], p[2] + u[k][2]>>
<1>5. q = [k \in 1..n |-> v(k)]
  <2>1. q = [k \in DOMAIN u |-> v(k)]
    BY DEF u, NextTo
  <2> HIDE DEF v
  <2> QED BY <1>3, <2>1
<1>6. \A k \in 1..n : v(k) \in Pairs /\ v(k)[1] = p[1] + u[k][1] /\ v(k)[2] = p[2] + u[k][2]
  <2>1. ASSUME NEW k \in 1..n PROVE p[1] + u[k][1] \in Int /\ p[2] + u[k][2] \in Int
    BY <1>2, <1>4
  <2> QED BY <2>1 DEF Pairs
<1> HIDE DEF v, q
<1>7. q \in Seq(Pairs) /\ Len(q) = n /\ \A k \in 1..n : q[k] = v(k)
  BY <1>3, <1>5, <1>6
<1>8. ASSUME NEW k \in 1..n PROVE Neighbor(p, q[k])
  <2>1. PICK d \in Direction : Delta[d] = u[k]
    BY <1>1
  <2>2. q[k][1] - p[1] = u[k][1] /\ q[k][2] - p[2] = u[k][2]
    <3>1. q[k][1] = p[1] + u[k][1] /\ q[k][2] = p[2] + u[k][2]
      BY <1>6, <1>7
    <3>2. u[k][1] \in Int /\ u[k][2] \in Int
      BY <1>4
    <3> QED BY <1>2, <3>1, <3>2
  <2>3. Delta[d] = <<q[k][1] - p[1], q[k][2] - p[2]>>
    BY <1>4, <2>1, <2>2
  <2> QED BY <2>3 DEF Neighbor
<1>9. ASSUME NEW k \in 1..n, NEW l \in 1..n, q[k] = q[l] PROVE k = l
  <2>1. p[1] + u[k][1] = p[1] + u[l][1] /\ p[2] + u[k][2] = p[2] + u[l][2]
    BY <1>6, <1>7, <1>9
  <2>2. u[k][1] = u[l][1] /\ u[k][2] = u[l][2]
    <3>1. u[k][1] \in Int /\ u[k][2] \in Int /\ u[l][1] \in Int /\ u[l][2] \in Int
      BY <1>4
    <3>2. ASSUME NEW x \in Int, NEW y \in Int, NEW z \in Int, x + y = x + z PROVE y = z
      BY <3>2
    <3>3. u[k][1] = u[l][1]
      BY <1>2, <2>1, <3>1, <3>2
    <3>4. u[k][2] = u[l][2]
      BY <1>2, <2>1, <3>1, <3>2
    <3> QED BY <3>3, <3>4
  <2>3. u[k] = u[l]
    BY <1>4, <2>2
  <2> QED BY <1>1, <2>3
<1> QED BY <1>7, <1>8, <1>9 DEF q

\* A node is the start or was reached by a step from another.
Reachable(N, i) ==
    \/ N[i].parent = 0
    \/ N[i].parent \in 1..Len(N) /\ Neighbor(N[N[i].parent].at, N[i].at)

\* The tiles one goes to from a node are free, next to it and distinct.
Around(s, p, w) ==
    /\ w \in Seq(Pairs)
    /\ \A k \in 1..Len(w) : w[k] \in Plane /\ w[k] \in s.free /\ Neighbor(p, w[k])
    /\ \A k, l \in 1..Len(w) : w[k] = w[l] => k = l

\* All of r is found in q at the places in S.
Within(r, q, S) == \A k \in 1..Len(r) : \E j \in 1..Len(q) : j \in S /\ r[k] = q[j]

LEMMA SiftAround ==
    ASSUME NEW s, NEW p, NEW q \in Seq(Pairs), NEW S,
           \A k \in 1..Len(q) : k \in S => q[k] \in Plane /\ q[k] \in s.free /\ Neighbor(p, q[k]),
           \A k, l \in 1..Len(q) : q[k] = q[l] => k = l
    PROVE  Around(s, p, Sift(q, S)) /\ Within(Sift(q, S), q, S)
<1> DEFINE r == Sift(q, S)
<1>1. r \in Seq(Pairs) /\ Placed(q, S, Len(q), r)
  BY SiftIs
<1> HIDE DEF r
<1>2. PICK h \in [1..Len(r) -> 1..Len(q)] :
          /\ \A k \in 1..Len(r) : h[k] \in S /\ r[k] = q[h[k]]
          /\ \A k, l \in 1..Len(r) : h[k] = h[l] => k = l
  BY <1>1 DEF Placed
<1>3. ASSUME NEW k \in 1..Len(r) PROVE h[k] \in 1..Len(q) /\ h[k] \in S /\ r[k] = q[h[k]]
  BY <1>2
<1>4. ASSUME NEW k \in 1..Len(r), NEW l \in 1..Len(r), r[k] = r[l] PROVE k = l
  BY <1>2, <1>3, <1>4
<1>5. Around(s, p, r)
  BY <1>1, <1>3, <1>4 DEF Around
<1>6. Within(r, q, S)
  BY <1>3 DEF Within
<1> QED BY <1>5, <1>6 DEF r

LEMMA WaysAre ==
    ASSUME NEW s, NEW N \in Seq(Node), NEW i \in 1..Len(N), Reachable(N, i)
    PROVE  Around(s, N[i].at, Ways(s, N, i))
<1> DEFINE p == N[i].at
           e == IF N[i].parent = 0 THEN "Start" ELSE DirTo(N[N[i].parent].at, N[i].at)
           q == NextTo(p, e)
           S == {k \in DOMAIN q : q[k] \in Plane /\ Open(s, q[k])}
<1>1. Ways(s, N, i) = Sift(q, S)
  BY DEF Ways, NextTo
<1>2. e \in Direction \cup {"Start"}
  BY DirToIs DEF Reachable
<1>3. p \in Plane
  BY NodeIs
<1>4. /\ q \in Seq(Pairs)
      /\ \A k \in 1..Len(q) : Neighbor(p, q[k])
      /\ \A k, l \in 1..Len(q) : q[k] = q[l] => k = l
  <2> HIDE DEF p, e
  <2> QED BY <1>2, <1>3, NextToIs
<1> HIDE DEF p, e, q
<1>5. \A k \in 1..Len(q) : k \in S => q[k] \in Plane /\ q[k] \in s.free /\ Neighbor(p, q[k])
  BY <1>4 DEF Open
<1> HIDE DEF S
<1>6. Around(s, p, Sift(q, S))
  BY <1>4, <1>5, SiftAround
<1> QED BY <1>1, <1>6 DEF p

\* Those unseen are among them, in none of the nodes.
LEMMA UnseenAre ==
    ASSUME NEW s, NEW N \in Seq(Node), NEW p, NEW w, Around(s, p, w)
    PROVE  /\ Around(s, p, Unseen(s, N, w))
           /\ \A k \in 1..Len(Unseen(s, N, w)) : \A j \in 1..Len(N) : N[j].at # Unseen(s, N, w)[k]
<1> DEFINE S == {k \in DOMAIN w : /\ Far(w[k], s.start) <= MaxDist
                                  /\ \A j \in DOMAIN N : N[j].at # w[k]}
           r == Sift(w, S)
<1>1. Unseen(s, N, w) = r
  BY DEF Unseen
<1>2. w \in Seq(Pairs) /\ \A k, l \in 1..Len(w) : w[k] = w[l] => k = l
  BY DEF Around
<1>3. \A k \in 1..Len(w) : k \in S => w[k] \in Plane /\ w[k] \in s.free /\ Neighbor(p, w[k])
  BY DEF Around
<1>4. \A k \in S : \A j \in 1..Len(N) : N[j].at # w[k]
  <2>1. DOMAIN N = 1..Len(N)
    OBVIOUS
  <2> QED BY <2>1
<1> HIDE DEF S
<1>5. Around(s, p, Sift(w, S)) /\ Within(Sift(w, S), w, S)
  BY <1>2, <1>3, SiftAround
<1>6. \A k \in 1..Len(r) : \A j \in 1..Len(N) : N[j].at # r[k]
  <2>1. Within(r, w, S)
    BY <1>5
  <2> HIDE DEF r
  <2> QED BY <1>4, <2>1 DEF Within
<1> HIDE DEF r
<1> QED BY <1>1, <1>5, <1>6 DEF r

(***************************************************************************)
(* The table is a tree.                                                    *)
(***************************************************************************)
Asked(s) == s.start \in Plane /\ s.target \in Plane /\ s.free \subseteq Plane

\* A node was reached by a step, at a higher cost, from one that will not do.
Follows(s, N, i) ==
    /\ N[i].parent \in 1..Len(N)
    /\ N[N[i].parent].g < N[i].g
    /\ Neighbor(N[N[i].parent].at, N[i].at)
    /\ N[i].at \in s.free
    /\ ~ Reached(s, N[N[i].parent].at)

Estimated(s, b) == b.f # Closed => b.f = b.g + Heuristic(b.at, s.target)

\* The table of a search: the start, and nodes that follow from others.
Rooted(s, N) ==
    /\ N \in Seq(Node) /\ Len(N) >= 1
    /\ N[1].at = s.start /\ N[1].g = 0 /\ N[1].parent = 0
    /\ \A i \in 1..Len(N) : Estimated(s, N[i])
    /\ \A i, j \in 1..Len(N) : N[i].at = N[j].at => i = j
    /\ \A i \in 2..Len(N) : Follows(s, N, i)

LEMMA HeuristicIs ==
    ASSUME NEW p \in Plane, NEW q \in Plane
    PROVE  Heuristic(p, q) \in Nat
<1> DEFINE dx == Abs(p[1] - q[1])
           dy == Abs(p[2] - q[2])
<1>1. dx \in Nat /\ dy \in Nat
  BY PlaneIs DEF Abs
<1>2. Heuristic(p, q) = Lesser(dx, dy) * 2 * Cardinal + (Greater(dx, dy) - Lesser(dx, dy)) * Cardinal
  BY DEF Heuristic
<1> HIDE DEF dx, dy
<1>3. Lesser(dx, dy) \in Nat /\ Greater(dx, dy) - Lesser(dx, dy) \in Nat
  BY <1>1 DEF Lesser, Greater
<1> QED BY <1>2, <1>3 DEF Cardinal

\* To relax an edge costs more than the node it starts from.
LEMMA RelaxIs ==
    ASSUME NEW s, Asked(s), NEW b \in Node, b.f # Closed, Estimated(s, b), NEW i \in Nat, NEW at \in Plane
    PROVE  LET r == Relax(s, b, i, at)
           IN  r \in Node /\ r.at = at /\ r.parent = i /\ r.g > b.g /\ Estimated(s, r)
<1> DEFINE r == Relax(s, b, i, at)
           step == IF at[1] # b.at[1] /\ at[2] # b.at[2] THEN Sidelong ELSE Cardinal
           cost == step + IF at \in s.taken THEN Penalty ELSE 0
           H == Heuristic(b.at, s.target)
           h == Heuristic(at, s.target)
           g == Greater(b.f - H, 0) + cost
<1>1. b.at \in Plane /\ b.g \in Nat /\ b.f \in Nat
  BY NodeIs
<1>2. H \in Nat /\ h \in Nat
  BY <1>1, HeuristicIs DEF Asked
<1>3. b.f = b.g + H
  BY DEF Estimated
<1>4. cost \in Nat /\ cost > 0
  BY DEF Sidelong, Cardinal, Penalty
<1>5. r = [at |-> at, g |-> g, f |-> g + h, parent |-> i]
  BY DEF Relax
<1> HIDE DEF cost, H, h
<1>6. g = b.g + cost
  BY <1>1, <1>2, <1>3 DEF Greater
<1> HIDE DEF g, r
<1>7. g \in Nat /\ g > b.g /\ g + h \in Nat
  BY <1>1, <1>2, <1>4, <1>6
<1>8. r \in Node
  BY <1>5, <1>7 DEF Node
<1>9. r.at = at /\ r.parent = i /\ r.g = g /\ r.f = g + h
  BY <1>5
<1>10. Estimated(s, r)
  BY <1>9 DEF Estimated, h
<1> QED BY <1>7, <1>8, <1>9, <1>10 DEF r

LEMMA RootedFirst ==
    ASSUME NEW s, Asked(s)
    PROVE  Rooted(s, FirstNode(s))
<1> DEFINE h == Heuristic(s.start, s.target)
           b == [at |-> s.start, g |-> 0, f |-> h, parent |-> 0]
           N == FirstNode(s)
<1>1. h \in Nat
  BY HeuristicIs DEF Asked
<1>2. N = <<b>>
  BY DEF FirstNode
<1>3. b \in Node /\ Estimated(s, b)
  <2>1. s.start \in Plane
    BY DEF Asked
  <2>2. b.g = 0 /\ b.at = s.start /\ b.f = h
    OBVIOUS
  <2>3. b \in Node
    <3> HIDE DEF h
    <3> QED BY <1>1, <2>1 DEF Node
  <2>4. b.f = b.g + Heuristic(b.at, s.target)
    <3> HIDE DEF b
    <3> QED BY <1>1, <2>2
  <2> QED BY <2>3, <2>4 DEF Estimated
<1>4. b.at = s.start /\ b.g = 0 /\ b.parent = 0
  OBVIOUS
<1> HIDE DEF b
<1>5. N \in Seq(Node) /\ Len(N) = 1 /\ N[1] = b
  BY <1>2, <1>3
<1> HIDE DEF N
<1>6. \A i \in 1..Len(N) : i = 1
  BY <1>5
<1>7. 2..Len(N) = {}
  BY <1>5
<1>8. Rooted(s, N)
  BY <1>3, <1>4, <1>5, <1>6, <1>7 DEF Rooted
<1> QED BY <1>8 DEF N

LEMMA BestIs ==
    ASSUME NEW N \in Seq(Node), NEW i \in BestNode(N)
    PROVE  i \in 1..Len(N) /\ N[i].f # Closed
BY DEF BestNode

LEMMA RootedNode ==
    ASSUME NEW s, NEW N, Rooted(s, N), NEW i \in 1..Len(N)
    PROVE  Reachable(N, i) /\ N \in Seq(Node) /\ N[i] \in Node /\ Estimated(s, N[i])
<1>1. CASE i = 1
  BY <1>1 DEF Rooted, Reachable
<1>2. CASE i # 1
  <2>1. i \in 2..Len(N)
    BY <1>2
  <2>2. Follows(s, N, i)
    BY <2>1 DEF Rooted
  <2> QED BY <2>2 DEF Rooted, Reachable, Follows
<1> QED BY <1>1, <1>2

\* A table of the same tiles in which no cost has grown, each node as it was
\* or following from another, is a tree.
Aged(s, N, M, j) ==
    /\ M[j] \in Node /\ Estimated(s, M[j])
    /\ M[j].at = N[j].at /\ M[j].g <= N[j].g
    /\ (M[j].parent = N[j].parent /\ M[j].g = N[j].g) \/ Follows(s, M, j)

LEMMA StillFollows ==
    ASSUME NEW s, NEW N, Rooted(s, N), NEW M, Len(M) \in Nat, Len(N) <= Len(M),
           \A j \in 1..Len(N) : Aged(s, N, M, j),
           NEW j \in 2..Len(N)
    PROVE  Follows(s, M, j)
<1>1. CASE Follows(s, M, j)
  BY <1>1
<1>2. CASE ~ Follows(s, M, j)
  <2> DEFINE p == N[j].parent
  <2>1. N \in Seq(Node) /\ Len(N) \in Nat /\ j \in 1..Len(N)
    BY DEF Rooted
  <2>2. Follows(s, N, j)
    BY DEF Rooted
  <2>3. p \in 1..Len(N) /\ p \in 1..Len(M)
    BY <2>1, <2>2 DEF Follows
  <2>4. M[j].at = N[j].at /\ M[j].g = N[j].g /\ M[j].parent = p
    BY <1>2, <2>1 DEF Aged
  <2>5. M[p].at = N[p].at /\ M[p].g <= N[p].g /\ M[p] \in Node
    BY <2>3 DEF Aged
  <2>6. N[p].g \in Nat /\ N[j].g \in Nat /\ M[p].g \in Nat
    BY <2>1, <2>3, <2>5, NodeIs
  <2>7. M[p].g < M[j].g
    BY <2>2, <2>4, <2>5, <2>6 DEF Follows
  <2> QED BY <2>2, <2>3, <2>4, <2>5, <2>7 DEF Follows
<1> QED BY <1>1, <1>2

LEMMA ShutIs ==
    ASSUME NEW s, NEW b \in Node
    PROVE  /\ Shut(b) \in Node /\ Estimated(s, Shut(b))
           /\ Shut(b).at = b.at /\ Shut(b).g = b.g /\ Shut(b).parent = b.parent
<1> DEFINE c == Shut(b)
<1>1. b.at \in Plane /\ b.g \in Nat /\ b.f \in Nat /\ b.parent \in Nat
  BY NodeIs
<1>2. b = [at |-> b.at, g |-> b.g, f |-> b.f, parent |-> b.parent]
  BY DEF Node
<1>3. c = [at |-> b.at, g |-> b.g, f |-> Closed, parent |-> b.parent]
  BY <1>2 DEF Shut
<1>4. Closed \in Nat
  BY DEF Closed
<1> HIDE DEF c
<1>5. c.at = b.at /\ c.g = b.g /\ c.f = Closed /\ c.parent = b.parent
  BY <1>3
<1>6. c \in Node
  BY <1>1, <1>3, <1>4 DEF Node
<1>7. Estimated(s, c)
  BY <1>5 DEF Estimated
<1> QED BY <1>5, <1>6, <1>7 DEF c

LEMMA NotNextToItself ==
    ASSUME NEW p \in Plane, NEW q, Neighbor(p, q)
    PROVE  p # q
<1>1. PICK d \in Direction : Delta[d] = <<q[1] - p[1], q[2] - p[2]>>
  BY DEF Neighbor
<1>2. Delta[d] # <<0, 0>>
  BY DirectionsAre
<1>3. p = q => q[1] - p[1] = 0 /\ q[2] - p[2] = 0
  BY PlaneIs
<1> QED BY <1>1, <1>2, <1>3

\* A table whose old nodes have aged and whose new ones are of other tiles
\* and follow is a tree.
LEMMA RootedGrown ==
    ASSUME NEW s, NEW N, Rooted(s, N), NEW M \in Seq(Node), Len(N) <= Len(M),
           \A j \in 1..Len(N) : Aged(s, N, M, j),
           \A j \in Len(N)+1..Len(M) : Follows(s, M, j) /\ Estimated(s, M[j]),
           \A j \in Len(N)+1..Len(M) : \A k \in 1..Len(M) : M[j].at = M[k].at => j = k
    PROVE  Rooted(s, M)
<1>1. N \in Seq(Node) /\ Len(N) \in Nat /\ Len(N) >= 1 /\ Len(M) \in Nat
  BY DEF Rooted
<1>2. M[1].at = s.start /\ M[1].g = 0 /\ M[1].parent = 0
  <2>1. 1 \in 1..Len(N)
    BY <1>1
  <2>2. Aged(s, N, M, 1)
    BY <2>1
  <2>3. M[1].g \in Nat /\ M[1].g <= 0 /\ M[1].at = s.start
    BY <2>2, NodeIs DEF Aged, Rooted
  <2>4. M[1].g = 0
    BY <2>3
  <2>5. ~ Follows(s, M, 1)
    <3> SUFFICES ASSUME Follows(s, M, 1) PROVE FALSE
      OBVIOUS
    <3> DEFINE p == M[1].parent
    <3>1. p \in 1..Len(M) /\ M[p].g < 0
      BY <2>4 DEF Follows
    <3>2. M[p].g \in Nat
      BY <3>1, NodeIs
    <3> QED BY <3>1, <3>2
  <2> QED BY <2>2, <2>3, <2>4, <2>5 DEF Aged, Rooted
<1>3. \A j \in 1..Len(M) : j \in 1..Len(N) \/ j \in Len(N)+1..Len(M)
  BY <1>1
<1>4. \A j \in 1..Len(M) : Estimated(s, M[j])
  BY <1>3 DEF Aged
<1>5. ASSUME NEW j \in 1..Len(M), NEW k \in 1..Len(M), M[j].at = M[k].at PROVE j = k
  <2>1. CASE j \in 1..Len(N) /\ k \in 1..Len(N)
    <3>1. N[j].at = N[k].at
      BY <1>5, <2>1 DEF Aged
    <3> QED BY <2>1, <3>1 DEF Rooted
  <2>2. CASE j \in Len(N)+1..Len(M)
    BY <1>5, <2>2
  <2>3. CASE k \in Len(N)+1..Len(M)
    BY <1>5, <2>3
  <2> QED BY <1>3, <2>1, <2>2, <2>3
<1>6. ASSUME NEW j \in 2..Len(M) PROVE Follows(s, M, j)
  <2>1. CASE j \in 2..Len(N)
    BY <1>1, <2>1, StillFollows
  <2>2. CASE j \in Len(N)+1..Len(M)
    BY <2>2
  <2>3. j \in 2..Len(N) \/ j \in Len(N)+1..Len(M)
    BY <1>1
  <2> QED BY <2>1, <2>2, <2>3
<1>7. Len(M) >= 1
  BY <1>1
<1> QED BY <1>2, <1>4, <1>5, <1>6, <1>7 DEF Rooted

\* Turning the loop keeps the table a tree.
Fitting(s, N, p, w, u) ==
    /\ Around(s, p, w) /\ Around(s, p, u)
    /\ \A k \in 1..Len(u) : \A j \in 1..Len(N) : N[j].at # u[k]

LEMMA GrownRooted ==
    ASSUME NEW s, Asked(s), NEW N, Rooted(s, N), NEW i \in 1..Len(N), N[i].f # Closed,
           ~ Reached(s, N[i].at), NEW w, NEW u, Fitting(s, N, N[i].at, w, u)
    PROVE  Rooted(s, Grown(s, N, i, w, u))
<1> DEFINE b == N[i]
           n == Len(N)
           shut(j) == IF j = i THEN Shut(N[j]) ELSE N[j]
           met(j) == \E k \in DOMAIN w : w[k] = N[j].at
           age(j) == IF met(j) THEN TryReopen(shut(j), Relax(s, b, i, N[j].at)) ELSE shut(j)
           old == [j \in 1..n |-> age(j)]
           new == [k \in 1..Len(u) |-> Relax(s, b, i, u[k])]
           M == Grown(s, N, i, w, u)
<1>1. N \in Seq(Node) /\ n \in Nat /\ i \in Nat /\ b \in Node /\ b.f # Closed /\ Estimated(s, b) /\ b.at \in Plane
  BY RootedNode, NodeIs DEF Rooted
<1>2. w \in Seq(Pairs) /\ u \in Seq(Pairs) /\ Len(u) \in Nat /\ DOMAIN N = 1..n
  BY <1>1 DEF Fitting, Around
<1>3. M = old \o new
  <2>1. M = [j \in DOMAIN N |-> age(j)] \o [k \in DOMAIN u |-> Relax(s, b, i, u[k])]
    BY Zenon DEF Grown
  <2>2. DOMAIN u = 1..Len(u)
    BY <1>2
  <2> HIDE DEF M, age, b
  <2> QED BY <1>2, <2>1, <2>2
<1>4. ASSUME NEW at \in Plane
      PROVE  LET r == Relax(s, b, i, at)
             IN  r \in Node /\ r.at = at /\ r.parent = i /\ r.g > b.g /\ Estimated(s, r)
  <2> HIDE DEF b
  <2> QED BY <1>1, RelaxIs
<1>5. ASSUME NEW j \in 1..n
      PROVE  /\ shut(j) \in Node /\ Estimated(s, shut(j))
             /\ shut(j).at = N[j].at /\ shut(j).g = N[j].g /\ shut(j).parent = N[j].parent
  <2>1. N[j] \in Node /\ Estimated(s, N[j])
    BY <1>1 DEF Rooted
  <2> QED BY <2>1, ShutIs
<1>6. ASSUME NEW j \in 1..n, met(j) PROVE j # i /\ N[j].at \in s.free /\ N[j].at \in Plane /\ Neighbor(b.at, N[j].at)
  <2>1. PICK k \in 1..Len(w) : w[k] = N[j].at
    BY <1>2, <1>6
  <2>2. w[k] \in Plane /\ w[k] \in s.free /\ Neighbor(b.at, w[k])
    BY DEF Fitting, Around
  <2>3. b.at # w[k]
    BY <1>1, <2>2, NotNextToItself
  <2> QED BY <2>1, <2>2, <2>3
<1>7. ~ met(i)
  BY <1>6
<1>8. age(i) = Shut(b) /\ age(i).g = b.g /\ age(i).at = b.at
  BY <1>1, <1>7, ShutIs
\* A node reached again follows from the one that was expanded.
<1>9. ASSUME NEW j \in 1..n, age(j) # shut(j)
      PROVE  met(j) /\ age(j) = Relax(s, b, i, N[j].at) /\ age(j).g <= N[j].g
  <2> DEFINE r == Relax(s, b, i, N[j].at)
  <2>1. met(j) /\ age(j) = TryReopen(shut(j), r)
    BY <1>9
  <2>2. shut(j).g = N[j].g
    BY <1>5
  <2> HIDE DEF r, shut, met, age
  <2>3. age(j) = r /\ r.g <= shut(j).g
    BY <1>9, <2>1 DEF TryReopen
  <2> QED BY <2>1, <2>2, <2>3 DEF r
<1> HIDE DEF age, shut, met
<1>10. ASSUME NEW j \in 1..n
       PROVE  /\ age(j) \in Node /\ Estimated(s, age(j)) /\ age(j).at = N[j].at /\ age(j).g <= N[j].g
              /\ \/ age(j).parent = N[j].parent /\ age(j).g = N[j].g
                 \/ /\ age(j).parent = i /\ age(j).g > b.g
                    /\ Neighbor(b.at, age(j).at) /\ age(j).at \in s.free
  <2>1. CASE age(j) = shut(j)
    <3>1. N[j].g \in Nat
      BY <1>1, NodeIs
    <3> QED BY <1>5, <2>1, <3>1
  <2>2. CASE age(j) # shut(j)
    <3> DEFINE r == Relax(s, b, i, N[j].at)
    <3>1. age(j) = r /\ age(j).g <= N[j].g /\ met(j)
      BY <1>9, <2>2
    <3>2. N[j].at \in Plane /\ N[j].at \in s.free /\ Neighbor(b.at, N[j].at)
      BY <1>6, <3>1
    <3>3. r \in Node /\ r.at = N[j].at /\ r.parent = i /\ r.g > b.g /\ Estimated(s, r)
      BY <1>4, <3>2
    <3> HIDE DEF r
    <3> QED BY <3>1, <3>2, <3>3
  <2> QED BY <2>1, <2>2
<1>11. ASSUME NEW k \in 1..Len(u)
       PROVE  /\ u[k] \in s.free /\ Neighbor(b.at, u[k])
              /\ new[k] \in Node /\ new[k].at = u[k] /\ new[k].parent = i /\ new[k].g > b.g /\ Estimated(s, new[k])
  <2>1. u[k] \in Plane /\ u[k] \in s.free /\ Neighbor(b.at, u[k])
    BY DEF Fitting, Around
  <2>2. new[k] = Relax(s, b, i, u[k])
    OBVIOUS
  <2> HIDE DEF new, b
  <2> QED BY <1>4, <2>1, <2>2
<1>12. old \in Seq(Node) /\ Len(old) = n /\ \A j \in 1..n : old[j] = age(j)
  BY <1>1, <1>10
<1>13. new \in Seq(Node) /\ Len(new) = Len(u)
  <2>1. \A k \in 1..Len(u) : new[k] \in Node
    BY <1>11
  <2>2. new = [k \in 1..Len(u) |-> new[k]]
    OBVIOUS
  <2> HIDE DEF new
  <2> QED BY <1>2, <2>1, <2>2
<1> HIDE DEF old, new, M
<1>14. /\ M \in Seq(Node) /\ Len(M) = n + Len(u)
       /\ \A j \in 1..n : M[j] = age(j)
       /\ \A j \in n+1..Len(M) : j - n \in 1..Len(u) /\ M[j] = new[j - n]
  <2>1. M \in Seq(Node) /\ Len(M) = n + Len(u)
    <3>1. old \o new \in Seq(Node) /\ Len(old \o new) = Len(old) + Len(new)
      <4>1. ASSUME NEW x \in Seq(Node), NEW y \in Seq(Node)
            PROVE  x \o y \in Seq(Node) /\ Len(x \o y) = Len(x) + Len(y)
        OBVIOUS
      <4> QED BY <1>12, <1>13, <4>1
    <3> QED BY <1>3, <1>12, <1>13, <3>1
  <2>2. \A j \in 1..n : M[j] = age(j)
    BY <1>1, <1>3, <1>12, <1>13
  <2>3. ASSUME NEW j \in n+1..Len(M) PROVE j - n \in 1..Len(u) /\ M[j] = new[j - n]
    BY <1>1, <1>2, <1>3, <1>12, <1>13, <2>1
  <2> QED BY <2>1, <2>2, <2>3
<1>15. M[i].g = b.g /\ M[i].at = b.at /\ i \in 1..Len(M)
  <2>1. i \in 1..Len(M)
    BY <1>1, <1>2, <1>14
  <2> QED BY <1>8, <1>14, <2>1
<1>16. ASSUME NEW j \in 1..n PROVE Aged(s, N, M, j)
  <2>1. M[j] = age(j)
    BY <1>14
  <2>2. CASE age(j).parent = N[j].parent /\ age(j).g = N[j].g
    BY <1>10, <2>1, <2>2 DEF Aged
  <2>3. CASE ~ (age(j).parent = N[j].parent /\ age(j).g = N[j].g)
    <3>1. age(j).parent = i /\ age(j).g > b.g /\ Neighbor(b.at, age(j).at) /\ age(j).at \in s.free
      BY <1>10, <2>3
    <3>2. Follows(s, M, j)
      BY <1>15, <2>1, <3>1 DEF Follows
    <3> QED BY <1>10, <2>1, <3>2 DEF Aged
  <2> QED BY <2>2, <2>3
<1>17. ASSUME NEW j \in n+1..Len(M) PROVE Follows(s, M, j) /\ Estimated(s, M[j]) /\ M[j].at = u[j - n]
  <2>1. j - n \in 1..Len(u) /\ M[j] = new[j - n]
    BY <1>14
  <2>2. Follows(s, M, j)
    BY <1>11, <1>15, <2>1 DEF Follows
  <2> QED BY <1>11, <2>1, <2>2
<1>18. ASSUME NEW j \in n+1..Len(M), NEW k \in 1..Len(M), M[j].at = M[k].at PROVE j = k
  <2>1. j - n \in 1..Len(u) /\ M[j].at = u[j - n]
    BY <1>14, <1>17
  <2>2. CASE k \in 1..n
    <3>1. M[k].at = N[k].at
      BY <1>16, <2>2 DEF Aged
    <3> QED BY <1>18, <2>1, <2>2, <3>1 DEF Fitting
  <2>3. CASE k \in n+1..Len(M)
    <3>1. k - n \in 1..Len(u) /\ M[k].at = u[k - n]
      BY <1>14, <1>17, <2>3
    <3>2. j - n = k - n
      BY <1>18, <2>1, <3>1 DEF Fitting, Around
    <3> QED BY <1>1, <2>3, <3>2
  <2> QED BY <1>1, <2>2, <2>3
<1>19. Len(N) <= Len(M)
  BY <1>1, <1>2, <1>14
<1>20. Rooted(s, M)
  BY <1>14, <1>16, <1>17, <1>18, <1>19, RootedGrown
<1> QED BY <1>20 DEF M

(***************************************************************************)
(* The way back from a node.                                               *)
(***************************************************************************)
Costs(N, m) == m \in Nat /\ \A i \in 1..Len(N) : N[i].g <= m

LEMMA CostsBounded ==
    ASSUME NEW N \in Seq(Node)
    PROVE  \E m : Costs(N, m)
<1> DEFINE S == {n \in Nat : n <= Len(N) => \E m \in Nat : \A i \in 1..n : N[i].g <= m}
<1>1. 0 \in S
  BY 0 \in Nat
<1>2. ASSUME NEW n \in 1..Len(N), n - 1 \in S PROVE n \in S
  <2>1. n \in Nat /\ n - 1 \in Nat /\ n - 1 <= Len(N)
    OBVIOUS
  <2>2. PICK m \in Nat : \A i \in 1..n-1 : N[i].g <= m
    BY <1>2, <2>1
  <2>3. N[n] \in Node
    OBVIOUS
  <2>4. N[n].g \in Nat
    BY <2>3, NodeIs
  <2>5. \A i \in 1..n : N[i].g \in Nat /\ (i = n \/ i \in 1..n-1)
    BY <2>1, NodeIs
  <2>6. \A i \in 1..n : N[i].g <= m + N[n].g
    BY <2>2, <2>4, <2>5
  <2>7. m + N[n].g \in Nat
    BY <2>4
  <2> QED BY <2>1, <2>6, <2>7
<1>3. Len(N) \in Nat
  OBVIOUS
<1>4. \A n \in 0..Len(N) : n \in S
  <2> HIDE DEF S
  <2> QED BY <1>1, <1>2, <1>3, Climb
<1>5. Len(N) \in S
  <2>1. Len(N) \in 0..Len(N)
    BY <1>3
  <2> HIDE DEF S
  <2> QED BY <1>4, <2>1
<1>6. PICK m \in Nat : \A i \in 1..Len(N) : N[i].g <= m
  BY <1>3, <1>5
<1>7. Costs(N, m)
  BY <1>6 DEF Costs
<1> QED BY <1>7

\* What the directions to each node are, by those to its parent.
Back(N, v, i) ==
    IF N[i].parent = 0 THEN << >> ELSE Append(v[N[i].parent], DirTo(N[N[i].parent].at, N[i].at))
Backs(N, v) == v = [i \in DOMAIN N |-> Back(N, v, i)]

\* The parent of a node, if it has one, costs less.
LEMMA ParentIs ==
    ASSUME NEW s, NEW N, Rooted(s, N), NEW i \in 1..Len(N)
    PROVE  /\ N[i].g \in Nat
           /\ i = 1 => N[i].parent = 0 /\ N[i].g = 0
           /\ i # 1 => /\ N[i].parent \in 1..Len(N) /\ N[i].parent # 0
                       /\ N[N[i].parent].g \in Nat /\ N[N[i].parent].g < N[i].g
                       /\ DirTo(N[N[i].parent].at, N[i].at) \in Direction
                       /\ Follows(s, N, i)
<1>1. N \in Seq(Node) /\ Len(N) \in Nat
  BY DEF Rooted
<1>2. N[i] \in Node
  BY <1>1
<1>3. ASSUME i # 1 PROVE Follows(s, N, i) /\ N[i].parent \in 1..Len(N) /\ N[N[i].parent] \in Node
  <2>1. i \in 2..Len(N)
    BY <1>1, <1>3
  <2>2. Follows(s, N, i)
    BY <2>1 DEF Rooted
  <2> QED BY <1>1, <2>2 DEF Follows
<1>4. i # 1 => DirTo(N[N[i].parent].at, N[i].at) \in Direction
  BY <1>3, DirToIs DEF Follows
<1> QED BY <1>2, <1>3, <1>4, NodeIs DEF Follows, Rooted

LEMMA BackIs ==
    ASSUME NEW s, NEW N, Rooted(s, N), NEW v \in [1..Len(N) -> Seq(Direction)], NEW i \in 1..Len(N)
    PROVE  Back(N, v, i) \in Seq(Direction)
<1>1. CASE i = 1
  <2>1. Back(N, v, i) = << >>
    BY <1>1, ParentIs DEF Back
  <2>2. << >> \in Seq(Direction)
    OBVIOUS
  <2> QED BY <2>1, <2>2
<1>2. CASE i # 1
  <2> DEFINE p == N[i].parent
             d == DirTo(N[p].at, N[i].at)
  <2>1. p \in 1..Len(N) /\ p # 0 /\ d \in Direction
    BY <1>2, ParentIs
  <2>2. Back(N, v, i) = Append(v[p], d)
    BY <2>1 DEF Back
  <2> HIDE DEF p, d
  <2>3. v[p] \in Seq(Direction)
    BY <2>1
  <2> QED BY <2>1, <2>2, <2>3
<1> QED BY <1>1, <1>2

\* As costs grow from a parent to its children, the directions to all nodes
\* are known after as many rounds as there are costs.
LEMMA BacksSolved ==
    ASSUME NEW s, NEW N, Rooted(s, N)
    PROVE  \E v : Backs(N, v)
<1>0. N \in Seq(Node) /\ DOMAIN N = 1..Len(N)
  BY DEF Rooted
<1>1. PICK m : Costs(N, m)
  BY <1>0, CostsBounded
<1> DEFINE I == 1..Len(N)
           V == [I -> Seq(Direction)]
           n == m + 1
           U == (1..n) \X V
           G == [u \in U |-> [i \in I |-> Back(N, u[2], i)]]
           a == [i \in I |-> << >>]
<1>2. m \in Nat /\ n \in Nat /\ \A i \in I : N[i].g <= m
  BY <1>1 DEF Costs
<1>3. ASSUME NEW k \in 1..n, NEW v \in V PROVE G[<<k, v>>] = [i \in I |-> Back(N, v, i)] /\ G[<<k, v>>] \in V
  <2>1. <<k, v>> \in U
    OBVIOUS
  <2>2. G[<<k, v>>] = [i \in I |-> Back(N, v, i)]
    BY <2>1
  <2>3. \A i \in I : Back(N, v, i) \in Seq(Direction)
    BY BackIs
  <2> HIDE DEF G, U
  <2> QED BY <2>2, <2>3
<1>4. a \in V
  <2>1. << >> \in Seq(Direction)
    OBVIOUS
  <2> QED BY <2>1
<1>5. PICK f : Stages(n, V, a, G, f)
  <2> HIDE DEF n, V, G, a
  <2>1. StepsIn(n, V, G)
    BY <1>3 DEF StepsIn
  <2> QED BY <1>2, <1>4, <2>1, Unwinds
<1> HIDE DEF G, U
<1>6. ASSUME NEW k \in 1..n PROVE f[k] = [i \in I |-> Back(N, f[k-1], i)] /\ k - 1 \in 0..n
  <2>1. k - 1 \in 0..n
    BY <1>2
  <2>2. f[k-1] \in V
    <3> HIDE DEF V, n, a
    <3> QED BY <1>5, <2>1 DEF Stages
  <2>3. f[k] = G[<<k, f[k-1]>>]
    <3> HIDE DEF V, n, a
    <3> QED BY <1>5 DEF Stages
  <2> HIDE DEF V, n, a, I
  <2> QED BY <1>3, <2>1, <2>2, <2>3
<1>7. f[0] = a
  <2> HIDE DEF V, n, a
  <2> QED BY <1>5 DEF Stages
<1> DEFINE S == {k \in Nat : k <= m => \A i \in I : N[i].g <= k => f[k][i] = f[k+1][i]}
<1>8. 0 \in S
  <2>1. ASSUME NEW i \in I, N[i].g <= 0 PROVE f[0][i] = f[0+1][i]
    <3>1. i = 1
      BY <2>1, ParentIs
    <3>2. Back(N, f[0], i) = << >>
      BY <3>1, ParentIs DEF Back
    <3>3. 1 \in 1..n /\ 1 - 1 = 0 /\ 0 + 1 = 1
      BY <1>2
    <3>4. f[1] = [j \in I |-> Back(N, f[0], j)]
      BY <1>6, <3>3
    <3> QED BY <1>7, <3>2, <3>3, <3>4
  <2> QED BY <2>1
<1>9. ASSUME NEW k \in 1..m, k - 1 \in S PROVE k \in S
  <2>1. k \in Nat /\ k - 1 \in Nat /\ k - 1 <= m /\ k \in 1..n /\ k + 1 \in 1..n /\ (k + 1) - 1 = k /\ (k - 1) + 1 = k
    BY <1>2
  <2>2. \A i \in I : N[i].g <= k - 1 => f[k-1][i] = f[k][i]
    BY <1>9, <2>1
  <2>3. f[k] = [i \in I |-> Back(N, f[k-1], i)] /\ f[k+1] = [i \in I |-> Back(N, f[k], i)]
    BY <1>6, <2>1
  <2>4. ASSUME NEW i \in I, N[i].g <= k PROVE f[k][i] = f[k+1][i]
    <3>1. CASE i = 1
      <4>1. Back(N, f[k-1], i) = Back(N, f[k], i)
        BY <3>1, ParentIs DEF Back
      <4> QED BY <2>3, <4>1
    <3>2. CASE i # 1
      <4> DEFINE p == N[i].parent
      <4>1. p \in I /\ N[p].g \in Nat /\ N[p].g < N[i].g /\ N[i].g \in Nat
        BY <3>2, ParentIs
      <4>2. N[p].g <= k - 1
        BY <2>1, <2>4, <4>1
      <4>3. f[k-1][p] = f[k][p]
        BY <2>2, <4>1, <4>2
      <4>4. Back(N, f[k-1], i) = Back(N, f[k], i)
        BY <4>3 DEF Back
      <4> QED BY <2>3, <4>4
    <3> QED BY <3>1, <3>2
  <2> QED BY <2>1, <2>4
<1>10. m \in S
  <2> HIDE DEF S
  <2>1. \A k \in 0..m : k \in S
    BY <1>2, <1>8, <1>9, Climb
  <2> QED BY <1>2, <2>1
<1>11. n \in 1..n /\ n - 1 = m /\ m \in 0..n
  BY <1>2
<1>12. \A i \in I : f[m][i] = Back(N, f[m], i)
  <2>1. f[n] = [i \in I |-> Back(N, f[m], i)]
    BY <1>6, <1>11
  <2>2. \A i \in I : f[m][i] = f[n][i]
    BY <1>2, <1>10
  <2> QED BY <2>1, <2>2
<1>13. f[m] \in V
  <2> HIDE DEF V, n, a
  <2> QED BY <1>5, <1>11 DEF Stages
<1>14. Backs(N, f[m])
  <2>1. f[m] = [i \in I |-> f[m][i]]
    BY <1>13
  <2> DEFINE v == f[m]
  <2>2. v = [i \in I |-> Back(N, v, i)]
    BY <1>12, <2>1
  <2> HIDE DEF v
  <2>3. Backs(N, v)
    BY <1>0, <2>2 DEF Backs
  <2> QED BY <2>3 DEF v
<1> QED BY <1>14

\* The nodes along a path, from the start to i.
Chain(N, i, p, c) ==
    /\ c \in [0..Len(p) -> 1..Len(N)]
    /\ c[0] = 1 /\ c[Len(p)] = i
    /\ \A k \in 1..Len(p) : /\ c[k] # 1 /\ N[c[k]].parent = c[k-1]
                            /\ p[k] = DirTo(N[c[k-1]].at, N[c[k]].at)
Chained(N, i, p) == p \in Seq(Direction) /\ \E c : Chain(N, i, p, c)

LEMMA ChainGrows ==
    ASSUME NEW s, NEW N, Rooted(s, N), NEW i \in 1..Len(N), i # 1, NEW p, Chained(N, N[i].parent, p)
    PROVE  Chained(N, i, Append(p, DirTo(N[N[i].parent].at, N[i].at)))
<1> DEFINE d == DirTo(N[N[i].parent].at, N[i].at)
           q == Append(p, d)
<1>1. p \in Seq(Direction) /\ d \in Direction
  BY ParentIs DEF Chained
<1>2. PICK c : Chain(N, N[i].parent, p, c)
  BY DEF Chained
<1> HIDE DEF d
<1>3. q \in Seq(Direction) /\ Len(q) = Len(p) + 1 /\ Len(p) \in Nat /\ q[Len(q)] = d /\ \A k \in 1..Len(p) : q[k] = p[k]
  BY <1>1
<1> HIDE DEF q
<1> DEFINE e == [k \in 0..Len(q) |-> IF k = Len(q) THEN i ELSE c[k]]
<1>4. \A k \in 0..Len(q) : k # Len(q) => k \in 0..Len(p)
  BY <1>3
<1>5. \A k \in 0..Len(p) : c[k] \in 1..Len(N)
  BY <1>2 DEF Chain
<1>6. e \in [0..Len(q) -> 1..Len(N)]
  BY <1>4, <1>5
<1>7. e[0] = 1 /\ e[Len(q)] = i
  BY <1>2, <1>3 DEF Chain
<1>8. ASSUME NEW k \in 1..Len(q)
      PROVE  e[k] # 1 /\ N[e[k]].parent = e[k-1] /\ q[k] = DirTo(N[e[k-1]].at, N[e[k]].at)
  <2>1. k - 1 \in 0..Len(q) /\ k - 1 # Len(q) /\ k \in 0..Len(q)
    BY <1>3
  <2>2. e[k-1] = c[k-1]
    BY <2>1
  <2>3. CASE k = Len(q)
    <3>1. k - 1 = Len(p) /\ e[k] = i
      BY <1>3, <2>3
    <3>2. c[k-1] = N[i].parent
      BY <1>2, <3>1 DEF Chain
    <3> HIDE DEF e
    <3> QED BY <1>3, <2>2, <2>3, <3>1, <3>2 DEF d
  <2>4. CASE k # Len(q)
    <3>1. k \in 1..Len(p) /\ e[k] = c[k]
      BY <1>3, <2>1, <2>4
    <3>2. c[k] # 1 /\ N[c[k]].parent = c[k-1] /\ p[k] = DirTo(N[c[k-1]].at, N[c[k]].at)
      BY <1>2, <3>1 DEF Chain
    <3> HIDE DEF e
    <3> QED BY <1>3, <2>2, <3>1, <3>2
  <2> QED BY <2>3, <2>4
<1> HIDE DEF e
<1>9. Chain(N, i, q, e)
  BY <1>6, <1>7, <1>8 DEF Chain
<1>10. Chained(N, i, q)
  BY <1>3, <1>9 DEF Chained
<1> QED BY <1>10 DEF q, d

LEMMA WayBack ==
    ASSUME NEW s, NEW N, Rooted(s, N), NEW i \in 1..Len(N)
    PROVE  Chained(N, i, CalculatePath(N, i))
<1> DEFINE v == CHOOSE f : Backs(N, f)
<1>1. CalculatePath(N, i) = v[i]
  BY DEF CalculatePath, Backs, Back
<1>2. Backs(N, v)
  BY BacksSolved
<1> HIDE DEF v
<1>3. N \in Seq(Node) /\ DOMAIN N = 1..Len(N)
  BY DEF Rooted
<1>4. \A j \in 1..Len(N) : v[j] = Back(N, v, j)
  BY <1>2, <1>3 DEF Backs
<1>5. PICK m : Costs(N, m)
  BY <1>3, CostsBounded
<1>6. m \in Nat /\ \A j \in 1..Len(N) : N[j].g <= m
  BY <1>5 DEF Costs
<1> DEFINE S == {k \in Nat : \A j \in 1..Len(N) : N[j].g <= k => Chained(N, j, v[j])}
<1>7. ASSUME NEW j \in 1..Len(N), j = 1 PROVE Chained(N, j, v[j])
  <2> DEFINE p == << >>
             c == [k \in 0..0 |-> 1]
  <2>1. v[j] = p
    BY <1>4, <1>7, ParentIs DEF Back
  <2>2. p \in Seq(Direction) /\ Len(p) = 0
    OBVIOUS
  <2> HIDE DEF p
  <2>3. c \in [0..Len(p) -> 1..Len(N)] /\ c[0] = 1 /\ c[Len(p)] = j
    BY <1>7, <2>2
  <2>4. 1..Len(p) = {}
    BY <2>2
  <2> HIDE DEF c
  <2>5. Chain(N, j, p, c)
    BY <2>3, <2>4 DEF Chain
  <2> QED BY <2>1, <2>2, <2>5 DEF Chained
<1>8. 0 \in S
  <2>1. ASSUME NEW j \in 1..Len(N), N[j].g <= 0 PROVE j = 1
    BY <2>1, ParentIs
  <2> QED BY <1>7, <2>1
<1>9. ASSUME NEW k \in 1..m, k - 1 \in S PROVE k \in S
  <2>1. k \in Nat /\ k - 1 \in Nat
    BY <1>6
  <2>2. ASSUME NEW j \in 1..Len(N), N[j].g <= k, j # 1 PROVE Chained(N, j, v[j])
    <3> DEFINE p == N[j].parent
    <3>1. p \in 1..Len(N) /\ p # 0 /\ N[p].g \in Nat /\ N[p].g < N[j].g /\ N[j].g \in Nat
      BY <2>2, ParentIs
    <3>2. N[p].g <= k - 1
      BY <2>1, <2>2, <3>1
    <3>3. Chained(N, p, v[p])
      BY <1>9, <3>1, <3>2
    <3>4. Chained(N, j, Append(v[p], DirTo(N[p].at, N[j].at)))
      BY <2>2, <3>3, ChainGrows
    <3> QED BY <1>4, <3>1, <3>4 DEF Back
  <2> QED BY <1>7, <2>1, <2>2
<1>10. m \in S
  <2> HIDE DEF S
  <2>1. \A k \in 0..m : k \in S
    BY <1>6, <1>8, <1>9, Climb
  <2> QED BY <1>6, <2>1
<1> QED BY <1>1, <1>6, <1>10

\* A place on the map and a step from it to a neighbor.
LEMMA StepIs ==
    ASSUME NEW p \in Plane, NEW q \in Plane, NEW d \in Direction, Delta[d] = <<q[1] - p[1], q[2] - p[2]>>
    PROVE  <<p[1] + Delta[d][1], p[2] + Delta[d][2]>> = q
<1>1. Delta[d][1] = q[1] - p[1] /\ Delta[d][2] = q[2] - p[2]
  OBVIOUS
<1>2. p[1] \in Int /\ p[2] \in Int /\ q[1] \in Int /\ q[2] \in Int /\ q = <<q[1], q[2]>>
  BY PlaneIs
<1>3. p[1] + (q[1] - p[1]) = q[1] /\ p[2] + (q[2] - p[2]) = q[2]
  BY <1>2
<1> QED BY <1>1, <1>2, <1>3

\* The tiles along a path (see Leads).
Tile(s, path, v, i) ==
    IF i = 0 THEN s.start
    ELSE <<v[i-1][1] + Delta[path[i]][1], v[i-1][2] + Delta[path[i]][2]>>
Tiles(s, path, v) == v = [i \in 0..Len(path) |-> Tile(s, path, v, i)]

\* A path back to a node that will do leads.
LEMMA PathLeads ==
    ASSUME NEW s, NEW N, Rooted(s, N), NEW i \in 1..Len(N), Reached(s, N[i].at),
           NEW p, Chained(N, i, p)
    PROVE  Leads(s, p)
<1>1. p \in Seq(Direction) /\ Len(p) \in Nat /\ N \in Seq(Node) /\ Len(N) \in Nat
  BY DEF Chained, Rooted
<1>2. PICK c : Chain(N, i, p, c)
  BY DEF Chained
<1>3. \A k \in 0..Len(p) : c[k] \in 1..Len(N) /\ N[c[k]] \in Node /\ N[c[k]].at \in Plane /\ N[c[k]].g \in Nat
  <2>1. \A k \in 0..Len(p) : c[k] \in 1..Len(N)
    BY <1>2 DEF Chain
  <2> QED BY <1>1, <2>1, NodeIs
<1>4. c[0] = 1 /\ c[Len(p)] = i
  BY <1>2 DEF Chain
<1>5. ASSUME NEW k \in 1..Len(p)
      PROVE  /\ k - 1 \in 0..Len(p) /\ k \in 0..Len(p) /\ k # 0
             /\ N[c[k-1]].g < N[c[k]].g /\ N[c[k]].at \in s.free
             /\ ~ Reached(s, N[c[k-1]].at)
             /\ <<N[c[k-1]].at[1] + Delta[p[k]][1], N[c[k-1]].at[2] + Delta[p[k]][2]>> = N[c[k]].at
  <2>1. k - 1 \in 0..Len(p) /\ k \in 0..Len(p) /\ k # 0
    BY <1>1
  <2> DEFINE a == c[k-1]
             b == c[k]
  <2>2. b # 1 /\ N[b].parent = a /\ p[k] = DirTo(N[a].at, N[b].at)
    BY <1>2 DEF Chain
  <2>3. a \in 1..Len(N) /\ b \in 1..Len(N) /\ N[a].at \in Plane /\ N[b].at \in Plane
    BY <1>3, <2>1
  <2> HIDE DEF a, b
  <2>4. Follows(s, N, b) /\ N[a].g < N[b].g
    BY <2>2, <2>3, ParentIs
  <2>5. Neighbor(N[a].at, N[b].at) /\ N[b].at \in s.free /\ ~ Reached(s, N[a].at)
    BY <2>2, <2>4 DEF Follows
  <2>6. p[k] \in Direction /\ Delta[p[k]] = <<N[b].at[1] - N[a].at[1], N[b].at[2] - N[a].at[2]>>
    BY <2>2, <2>5, DirToIs
  <2>7. <<N[a].at[1] + Delta[p[k]][1], N[a].at[2] + Delta[p[k]][2]>> = N[b].at
    BY <2>3, <2>6, StepIs
  <2> QED BY <2>1, <2>4, <2>5, <2>7 DEF a, b
<1>6. N[1].at = s.start
  BY DEF Rooted
<1> DEFINE v == [k \in 0..Len(p) |-> N[c[k]].at]
           tile == CHOOSE f : Tiles(s, p, f)
<1>7. Tiles(s, p, v)
  <2>1. ASSUME NEW k \in 0..Len(p) PROVE v[k] = Tile(s, p, v, k)
    <3>1. CASE k = 0
      BY <1>4, <1>6, <3>1 DEF Tile
    <3>2. CASE k # 0
      <4>1. k \in 1..Len(p)
        BY <3>2
      <4>2. v[k-1] = N[c[k-1]].at /\ v[k] = N[c[k]].at
        BY <1>5, <4>1
      <4> HIDE DEF v
      <4> QED BY <1>5, <3>2, <4>1, <4>2 DEF Tile
    <3> QED BY <3>1, <3>2
  <2>2. v = [k \in 0..Len(p) |-> v[k]]
    OBVIOUS
  <2> HIDE DEF v
  <2> QED BY <2>1, <2>2 DEF Tiles
<1>8. Tiles(s, p, tile)
  BY <1>7
<1> HIDE DEF v, tile
<1>9. \A k \in 0..Len(p) : tile[k] = N[c[k]].at
  <2> DEFINE S == {k \in 0..Len(p) : tile[k] = N[c[k]].at}
  <2>1. 0 \in S
    BY <1>1, <1>4, <1>6, <1>8 DEF Tiles, Tile
  <2>2. ASSUME NEW k \in 1..Len(p), k - 1 \in S PROVE k \in S
    <3>1. k \in 0..Len(p) /\ k # 0
      BY <1>5
    <3>2. tile[k-1] = N[c[k-1]].at
      BY <2>2
    <3>3. tile[k] = <<tile[k-1][1] + Delta[p[k]][1], tile[k-1][2] + Delta[p[k]][2]>>
      BY <1>8, <3>1 DEF Tiles, Tile
    <3>4. tile[k] = N[c[k]].at
      BY <1>5, <3>2, <3>3
    <3> QED BY <3>1, <3>4
  <2> HIDE DEF S
  <2>3. \A k \in 0..Len(p) : k \in S
    BY <1>1, <2>1, <2>2, Climb
  <2> QED BY <2>3 DEF S
\* The costs grow along the path, so no node is on it twice.
<1>10. ASSUME NEW k \in 1..Len(p), NEW j \in 0..k-1 PROVE N[c[j]].g < N[c[k]].g
  <2> DEFINE S == {n \in Nat : n <= Len(p) => \A l \in 0..n-1 : N[c[l]].g < N[c[n]].g}
  <2>1. 0 \in S
    <3>1. 0..0-1 = {}
      OBVIOUS
    <3> QED BY <3>1
  <2>2. ASSUME NEW n \in 1..Len(p), n - 1 \in S PROVE n \in S
    <3>1. n \in Nat /\ n - 1 \in Nat /\ n - 1 <= Len(p) /\ N[c[n-1]].g < N[c[n]].g
      BY <1>1, <1>5
    <3>2. \A l \in 0..(n-1)-1 : N[c[l]].g < N[c[n-1]].g
      BY <2>2, <3>1
    <3>3. ASSUME NEW l \in 0..n-1 PROVE N[c[l]].g < N[c[n]].g
      <4>1. CASE l = n - 1
        BY <3>1, <4>1
      <4>2. CASE l # n - 1
        <5>1. l \in 0..(n-1)-1 /\ l \in 0..Len(p) /\ n \in 0..Len(p) /\ n - 1 \in 0..Len(p)
          BY <1>1, <3>1, <4>2
        <5>2. N[c[l]].g \in Nat /\ N[c[n]].g \in Nat /\ N[c[n-1]].g \in Nat
          BY <1>3, <5>1
        <5>3. N[c[l]].g < N[c[n-1]].g
          BY <3>2, <5>1
        <5> DEFINE x == N[c[l]].g
                   y == N[c[n-1]].g
                   z == N[c[n]].g
        <5>4. x < y /\ y < z /\ x \in Nat /\ y \in Nat /\ z \in Nat
          BY <3>1, <5>2, <5>3
        <5> HIDE DEF x, y, z
        <5>5. x < z
          BY <5>4
        <5> QED BY <5>5 DEF x, z
      <4> QED BY <4>1, <4>2
    <3> QED BY <3>1, <3>3
  <2>3. \A n \in 0..Len(p) : n \in S
    <3> HIDE DEF S
    <3> QED BY <1>1, <2>1, <2>2, Climb
  <2>4. k \in 0..Len(p) /\ k <= Len(p)
    BY <1>1
  <2>5. k \in S
    <3> HIDE DEF S
    <3> QED BY <2>3, <2>4
  <2> QED BY <2>4, <2>5
<1>11. ASSUME NEW k \in 1..Len(p) PROVE tile[k] \in s.free /\ \A j \in 0..k-1 : tile[k] # tile[j]
  <2>1. tile[k] = N[c[k]].at /\ c[k] \in 1..Len(N) /\ N[c[k]].g \in Nat
    BY <1>3, <1>5, <1>9
  <2>2. ASSUME NEW j \in 0..k-1 PROVE tile[k] # tile[j]
    <3>1. j \in 0..Len(p)
      BY <1>1
    <3>2. tile[j] = N[c[j]].at /\ c[j] \in 1..Len(N) /\ N[c[j]].g \in Nat
      BY <1>3, <1>9, <3>1
    <3>3. N[c[j]].g < N[c[k]].g
      BY <1>10
    <3>4. c[j] # c[k]
      BY <2>1, <3>2, <3>3
    <3> QED BY <2>1, <3>2, <3>4 DEF Rooted
  <2> QED BY <1>5, <2>1, <2>2
<1>12. ASSUME NEW k \in 0..Len(p) PROVE Reached(s, tile[k]) <=> k = Len(p)
  <2>1. CASE k = Len(p)
    BY <1>4, <1>9, <2>1
  <2>2. CASE k # Len(p)
    <3>1. k + 1 \in 1..Len(p) /\ (k + 1) - 1 = k
      BY <1>1, <2>2
    <3>2. ~ Reached(s, N[c[k]].at)
      BY <1>5, <3>1
    <3> QED BY <1>9, <2>2, <3>2
  <2> QED BY <2>1, <2>2
<1>13. Leads(s, p) <=> /\ \A k \in 1..Len(p) : tile[k] \in s.free /\ \A j \in 0..k-1 : tile[k] # tile[j]
                       /\ \A k \in 0..Len(p) : Reached(s, tile[k]) <=> k = Len(p)
  BY Zenon DEF Leads, tile, Tiles, Tile
<1> QED BY <1>11, <1>12, <1>13

LEMMA RootedClosed ==
    ASSUME NEW s, NEW N, Rooted(s, N), NEW i \in 1..Len(N)
    PROVE  LET M == [N EXCEPT ![i] = Shut(@)]
           IN  Rooted(s, M) /\ Len(M) = Len(N) /\ M[i].at = N[i].at
<1> DEFINE M == [N EXCEPT ![i] = Shut(@)]
<1>1. N \in Seq(Node) /\ Len(N) \in Nat
  BY DEF Rooted
<1>2. \A j \in 1..Len(N) : N[j] \in Node /\ Estimated(s, N[j]) /\ N[j].g \in Nat
  BY <1>1, NodeIs DEF Rooted
<1>3. /\ Shut(N[i]) \in Node /\ Estimated(s, Shut(N[i]))
      /\ Shut(N[i]).at = N[i].at /\ Shut(N[i]).g = N[i].g /\ Shut(N[i]).parent = N[i].parent
  BY <1>2, ShutIs
<1>4. M \in Seq(Node) /\ Len(M) = Len(N) /\ \A j \in 1..Len(N) : M[j] = IF j = i THEN Shut(N[i]) ELSE N[j]
  BY <1>1, <1>3
<1> HIDE DEF M
<1>5. \A j \in 1..Len(N) : Aged(s, N, M, j)
  BY <1>2, <1>3, <1>4 DEF Aged
<1>6. Len(N)+1..Len(M) = {}
  BY <1>1, <1>4
<1>7. Rooted(s, M)
  BY <1>1, <1>4, <1>5, <1>6, RootedGrown
<1> QED BY <1>3, <1>4, <1>7 DEF M

\* A turn of the loop keeps the tree, or ends the search with a path that
\* leads or none.
LEMMA TurnIs ==
    ASSUME NEW s, Asked(s), NEW N, Rooted(s, N), NEW i \in BestNode(N)
    PROVE  LET w == Ways(s, N, i)
               turn == Turn(s, N, i, w, Unseen(s, N, w))
           IN  /\ turn.over => turn.path = << >> \/ Leads(s, turn.path)
               /\ ~ turn.over => Rooted(s, turn.nodes)
<1> DEFINE w == Ways(s, N, i)
           u == Unseen(s, N, w)
           p == N[i].at
           M == [N EXCEPT ![i] = Shut(@)]
           turn == Turn(s, N, i, w, u)
<1>1. N \in Seq(Node)
  BY DEF Rooted
<1>2. i \in 1..Len(N) /\ N[i].f # Closed
  BY <1>1, BestIs
<1>3. Around(s, p, w)
  BY <1>1, <1>2, RootedNode, WaysAre
<1> HIDE DEF w
<1>4. Fitting(s, N, p, w, u)
  BY <1>1, <1>3, UnseenAre DEF Fitting
<1> HIDE DEF u
<1>5. Rooted(s, M) /\ i \in 1..Len(M) /\ M[i].at = p
  BY <1>2, RootedClosed
<1> HIDE DEF M
<1>6. CASE Far(p, s.start) > MaxDist
  <2>1. turn = [nodes |-> N, over |-> TRUE, path |-> << >>]
    BY <1>6 DEF Turn
  <2> QED BY <2>1 DEF w, u
<1>7. CASE ~ (Far(p, s.start) > MaxDist) /\ Reached(s, p)
  <2>1. turn = [nodes |-> M, over |-> TRUE, path |-> CalculatePath(M, i)]
    BY <1>7 DEF Turn, M
  <2>2. Chained(M, i, CalculatePath(M, i))
    BY <1>5, WayBack
  <2>3. Leads(s, CalculatePath(M, i))
    BY <1>5, <1>7, <2>2, PathLeads
  <2>4. turn.over /\ turn.path = CalculatePath(M, i)
    BY <2>1
  <2> HIDE DEF turn
  <2>5. Leads(s, turn.path)
    BY <2>3, <2>4
  <2> QED BY <2>4, <2>5 DEF turn, w, u
<1>8. CASE ~ (Far(p, s.start) > MaxDist) /\ ~ Reached(s, p) /\ Len(N) + Len(u) > MaxNodes
  <2>1. turn = [nodes |-> M, over |-> TRUE, path |-> << >>]
    BY <1>8 DEF Turn, M
  <2> QED BY <2>1 DEF w, u
<1>9. CASE ~ (Far(p, s.start) > MaxDist) /\ ~ Reached(s, p) /\ ~ (Len(N) + Len(u) > MaxNodes)
  <2>1. turn = [nodes |-> Grown(s, N, i, w, u), over |-> FALSE, path |-> << >>]
    BY <1>9 DEF Turn, M
  <2>2. Rooted(s, Grown(s, N, i, w, u))
    BY <1>2, <1>4, <1>9, GrownRooted
  <2>3. ~ turn.over /\ turn.nodes = Grown(s, N, i, w, u)
    BY <2>1
  <2> QED BY <2>2, <2>3 DEF w, u
<1> QED BY <1>6, <1>7, <1>8, <1>9

LEMMA ExpandIs ==
    ASSUME NEW s, Asked(s), NEW N, Rooted(s, N), NEW turn \in Expand(s, N)
    PROVE  /\ turn.over => turn.path = << >> \/ Leads(s, turn.path)
           /\ ~ turn.over => Rooted(s, turn.nodes)
<1>1. CASE BestNode(N) = {}
  <2>1. turn = [nodes |-> N, over |-> TRUE, path |-> << >>]
    BY <1>1 DEF Expand
  <2> QED BY <2>1
<1>2. CASE BestNode(N) # {}
  <2>1. PICK i \in BestNode(N) :
            turn \in UNION {{Turn(s, N, i, ways, unseen) : unseen \in {Unseen(s, N, ways)}} : ways \in {Ways(s, N, i)}}
    BY <1>2 DEF Expand
  <2>2. turn = Turn(s, N, i, Ways(s, N, i), Unseen(s, N, Ways(s, N, i)))
    BY <2>1
  <2> QED BY <2>2, TurnIs
<1> QED BY <1>1, <1>2

(***************************************************************************)
(* Lines of sight.                                                         *)
(***************************************************************************)
\* What the quotient by a positive number is.
LEMMA DivIs ==
    ASSUME NEW d \in Nat, d > 0, NEW x \in Int, NEW q \in Int, q * d <= x, x < q * d + d
    PROVE  x \div d = q
OBVIOUS

LEMMA DivIn ==
    ASSUME NEW d \in Nat, d > 0, NEW x \in Int, NEW l \in Int, NEW h \in Int, l * d <= x, x < h * d + d
    PROVE  x \div d \in l..h
OBVIOUS

\* The tile of the k-th step of a line that goes by n along and m across.
LEMMA NearestIn ==
    ASSUME NEW n \in Nat, NEW k \in 1..n-1, NEW y \in Int, NEW m \in Int
    PROVE  LET q == (10 * (y * n + k * m) + n) \div (10 * n)
           IN  q \in Int /\ (m >= 0 => q \in y..(y+m)) /\ (m <= 0 => q \in (y+m)..y)
<1> DEFINE x == 10 * (y * n + k * m) + n
           d == 10 * n
           q == x \div d
<1>1. n > 0 /\ k \in Int /\ k >= 0 /\ k <= n /\ n \in Int
  OBVIOUS
<1>2. y * n \in Int /\ k * m \in Int /\ m * n \in Int
  BY <1>1
<1>3. d \in Nat /\ d > 0 /\ x \in Int
  BY <1>1, <1>2
<1>4. y * d = 10 * (y * n) /\ (y + m) * d = 10 * (y * n) + 10 * (m * n)
  BY <1>1
<1>5. m >= 0 => 0 <= k * m /\ k * m <= m * n
  BY <1>1
<1>6. m <= 0 => k * m <= 0 /\ m * n <= k * m
  BY <1>1
<1>7. y + m \in Int
  OBVIOUS
<1> HIDE DEF q
<1>8. q \in Int
  BY <1>3 DEF q
<1>9. ASSUME m >= 0 PROVE q \in y..(y+m)
  <2>1. y * d <= x /\ x < (y + m) * d + d
    BY <1>1, <1>2, <1>4, <1>5, <1>9
  <2> HIDE DEF x, d
  <2> QED BY <1>3, <1>7, <2>1, DivIn DEF q
<1>10. ASSUME m <= 0 PROVE q \in (y+m)..y
  <2>1. (y + m) * d <= x /\ x < y * d + d
    BY <1>1, <1>2, <1>4, <1>6, <1>10
  <2> HIDE DEF x, d
  <2> QED BY <1>3, <1>7, <2>1, DivIn DEF q
<1> QED BY <1>8, <1>9, <1>10 DEF q

\* A line that goes as far across as along, or not at all, meets its tiles.
LEMMA NearestOn ==
    ASSUME NEW n \in Nat, NEW k \in 1..n-1, NEW y \in Int, NEW e \in {-1, 0, 1}
    PROVE  (10 * (y * n + k * (e * n)) + n) \div (10 * n) = y + e * k
<1> DEFINE x == 10 * (y * n + k * (e * n)) + n
           d == 10 * n
<1>1. n > 0 /\ k \in Int /\ n \in Int /\ e \in Int
  OBVIOUS
<1>2. y * n \in Int /\ k * n \in Int /\ e * k \in Int
  BY <1>1
<1>3. d \in Nat /\ d > 0 /\ y + e * k \in Int
  BY <1>1, <1>2
<1>4. k * (e * n) = e * (k * n) /\ k * (e * n) \in Int
  BY <1>1
<1>5. (y + e * k) * d = 10 * (y * n) + 10 * (e * (k * n))
  BY <1>1
<1>6. x \in Int /\ (y + e * k) * d <= x /\ x < (y + e * k) * d + d
  BY <1>1, <1>2, <1>4, <1>5
<1> HIDE DEF x, d
<1> DEFINE q == y + e * k
<1>7. q \in Int /\ q * d <= x /\ x < q * d + d
  BY <1>3, <1>6
<1> HIDE DEF q
<1>8. x \div d = q
  BY <1>3, <1>6, <1>7, DivIs
<1> QED BY <1>8 DEF x, d, q

LEMMA PositionIs ==
    ASSUME NEW p \in Position
    PROVE  p = <<p[1], p[2], p[3]>> /\ p[1] \in Int /\ p[2] \in Int /\ p[3] \in Int
<1>1. PICK x \in 0..Extent, y \in 0..Extent, z \in 0..255 : p = <<x, y, z>>
  BY DEF Position
<1> QED BY <1>1, TerrainAssumption

\* The k-th tile of a line.
Along(a, b) == b[1] - a[1]
Across(a, b, k) ==
    (10 * (a[2] * (b[1] - a[1]) + k * (b[2] - a[2])) + (b[1] - a[1])) \div (10 * (b[1] - a[1]))
At(steep, a, b, z, k) ==
    IF steep THEN <<Across(a, b, k), a[1] + k, z>> ELSE <<a[1] + k, Across(a, b, k), z>>

LEMMA LineClearIs ==
    ASSUME NEW t, NEW steep, NEW a, NEW b, NEW z
    PROVE  LineClear(t, steep, a, b, z) <=>
               \A k \in 1..Along(a, b)-1 : IsTileClear(t, At(steep, a, b, z, k), FALSE)
BY DEF LineClear, Along, Across, At

\* The ends of a line from P to Q, by its direction.
Ends(steep, P, Q, a, b) ==
    /\ a = (IF steep THEN <<P[2], P[1]>> ELSE <<P[1], P[2]>>)
    /\ b = (IF steep THEN <<Q[2], Q[1]>> ELSE <<Q[1], Q[2]>>)
    /\ b[1] > a[1] /\ b[2] - a[2] <= b[1] - a[1] /\ a[2] - b[2] <= b[1] - a[1]

LEMMA EndsAre ==
    ASSUME NEW steep \in BOOLEAN, NEW P \in Position, NEW Q \in Position, NEW a, NEW b, Ends(steep, P, Q, a, b)
    PROVE  /\ a[1] \in Int /\ a[2] \in Int /\ b[1] \in Int /\ b[2] \in Int
           /\ Along(a, b) \in Nat /\ Along(a, b) > 0
           /\ steep => a[1] = P[2] /\ a[2] = P[1] /\ b[1] = Q[2] /\ b[2] = Q[1]
           /\ ~ steep => a[1] = P[1] /\ a[2] = P[2] /\ b[1] = Q[1] /\ b[2] = Q[2]
<1>1. P[1] \in Int /\ P[2] \in Int /\ Q[1] \in Int /\ Q[2] \in Int
  BY PositionIs
<1>2. CASE steep
  <2>1. a = <<P[2], P[1]>> /\ b = <<Q[2], Q[1]>> /\ b[1] > a[1]
    BY <1>2 DEF Ends
  <2>2. a[1] = P[2] /\ a[2] = P[1] /\ b[1] = Q[2] /\ b[2] = Q[1]
    BY <2>1
  <2> QED BY <1>1, <1>2, <2>1, <2>2 DEF Along
<1>3. CASE ~ steep
  <2>1. a = <<P[1], P[2]>> /\ b = <<Q[1], Q[2]>> /\ b[1] > a[1]
    BY <1>3 DEF Ends
  <2>2. a[1] = P[1] /\ a[2] = P[2] /\ b[1] = Q[1] /\ b[2] = Q[2]
    BY <2>1
  <2> QED BY <1>1, <1>3, <2>1, <2>2 DEF Along
<1> QED BY <1>2, <1>3

\* No tile of a line is outside the rectangle of its ends.
LEMMA LineInside ==
    ASSUME NEW steep \in BOOLEAN, NEW P \in Position, NEW Q \in Position, NEW a, NEW b, Ends(steep, P, Q, a, b),
           NEW z, NEW k \in 1..Along(a, b)-1
    PROVE  Inside(P, Q, At(steep, a, b, z, k))
<1> DEFINE n == Along(a, b)
           m == b[2] - a[2]
           q == Across(a, b, k)
           p == At(steep, a, b, z, k)
<1>1. /\ a[1] \in Int /\ a[2] \in Int /\ b[1] \in Int /\ b[2] \in Int /\ n \in Nat /\ n > 0
      /\ steep => a[1] = P[2] /\ a[2] = P[1] /\ b[1] = Q[2] /\ b[2] = Q[1]
      /\ ~ steep => a[1] = P[1] /\ a[2] = P[2] /\ b[1] = Q[1] /\ b[2] = Q[2]
  BY EndsAre
<1>2. q = (10 * (a[2] * n + k * m) + n) \div (10 * n)
  BY DEF Across, Along
<1>3. m \in Int /\ a[2] + m = b[2]
  BY <1>1
<1>4. k \in 1..n-1
  OBVIOUS
<1>5. n = b[1] - a[1]
  BY DEF Along
<1>6. p = IF steep THEN <<q, a[1] + k, z>> ELSE <<a[1] + k, q, z>>
  BY DEF At
<1> HIDE DEF n, m, q, p
<1>7. q \in Int /\ (m >= 0 => q \in a[2]..(a[2]+m)) /\ (m <= 0 => q \in (a[2]+m)..a[2])
  BY <1>1, <1>2, <1>3, <1>4, NearestIn
<1>8. Lesser(a[2], b[2]) <= q /\ q <= Greater(a[2], b[2])
  BY <1>1, <1>3, <1>7 DEF Lesser, Greater
<1>9. Lesser(a[1], b[1]) <= a[1] + k /\ a[1] + k <= Greater(a[1], b[1])
  BY <1>1, <1>4, <1>5 DEF Lesser, Greater
<1>10. CASE steep
  <2>1. p[1] = q /\ p[2] = a[1] + k
    BY <1>6, <1>10
  <2> QED BY <1>1, <1>8, <1>9, <1>10, <2>1 DEF Inside, p
<1>11. CASE ~ steep
  <2>1. p[1] = a[1] + k /\ p[2] = q
    BY <1>6, <1>11
  <2> QED BY <1>1, <1>8, <1>9, <1>11, <2>1 DEF Inside, p
<1> QED BY <1>10, <1>11

\* A terrain that is opaque only where t is in the rectangle of two tiles.
Narrow(t, P, Q) == [t EXCEPT !.opaque = {p \in @ : Inside(P, Q, p)}]
TerrainRecord(t) ==
    t = [held |-> t.held, ground |-> t.ground, blocked |-> t.blocked, opaque |-> t.opaque, zone |-> t.zone,
         change |-> t.change, height |-> t.height]

LEMMA NarrowClear ==
    ASSUME NEW t, TerrainRecord(t), NEW P, NEW Q, NEW p, Inside(P, Q, p)
    PROVE  IsTileClear(t, p, FALSE) <=> IsTileClear(Narrow(t, P, Q), p, FALSE)
<1> DEFINE u == Narrow(t, P, Q)
<1>1. u = [held |-> t.held, ground |-> t.ground, blocked |-> t.blocked,
           opaque |-> {q \in t.opaque : Inside(P, Q, q)}, zone |-> t.zone,
           change |-> t.change, height |-> t.height]
  BY DEF Narrow, TerrainRecord
<1>2. u.held = t.held /\ u.opaque = {q \in t.opaque : Inside(P, Q, q)}
  BY <1>1
<1> HIDE DEF u
<1>3. p \in u.opaque <=> p \in t.opaque
  BY <1>2
<1>4. Holds(u, p) <=> Holds(t, p)
  BY <1>2 DEF Holds
<1>5. IsOpaque(u, p) <=> IsOpaque(t, p)
  BY <1>3, <1>4 DEF IsOpaque
<1> QED BY <1>5 DEF IsTileClear, u

LEMMA LineNarrow ==
    ASSUME NEW t, TerrainRecord(t), NEW steep \in BOOLEAN, NEW P \in Position, NEW Q \in Position,
           NEW a, NEW b, Ends(steep, P, Q, a, b), NEW z
    PROVE  LineClear(t, steep, a, b, z) <=> LineClear(Narrow(t, P, Q), steep, a, b, z)
<1>1. ASSUME NEW k \in 1..Along(a, b)-1
      PROVE  IsTileClear(t, At(steep, a, b, z, k), FALSE)
                 <=> IsTileClear(Narrow(t, P, Q), At(steep, a, b, z, k), FALSE)
  <2>1. Inside(P, Q, At(steep, a, b, z, k))
    BY LineInside
  <2> QED BY <2>1, NarrowClear
<1> DEFINE u == Narrow(t, P, Q)
<1>2. \A k \in 1..Along(a, b)-1 :
          IsTileClear(t, At(steep, a, b, z, k), FALSE) <=> IsTileClear(u, At(steep, a, b, z, k), FALSE)
  BY <1>1
<1> HIDE DEF u
<1>3. LineClear(t, steep, a, b, z) <=> LineClear(u, steep, a, b, z)
  BY <1>2, LineClearIs
<1> QED BY <1>3 DEF u

\* The tiles of a straight line are those on it.
Opaque(t) == t.opaque \subseteq Position

LEMMA OnStraight ==
    ASSUME NEW steep \in BOOLEAN, NEW P \in Position, NEW Q \in Position, NEW a, NEW b, Ends(steep, P, Q, a, b),
           NEW e \in {-1, 0, 1}, b[2] - a[2] = e * Along(a, b), P[3] = Q[3], NEW p \in Position
    PROVE  OnLine(P, Q, p) <=> \E k \in 1..Along(a, b)-1 : p = At(steep, a, b, P[3], k)
<1> DEFINE n == Along(a, b)
           m == b[2] - a[2]
           x == IF steep THEN p[2] ELSE p[1]
           y == IF steep THEN p[1] ELSE p[2]
<1>1. /\ a[1] \in Int /\ a[2] \in Int /\ b[1] \in Int /\ b[2] \in Int /\ n \in Nat /\ n > 0
      /\ steep => a[1] = P[2] /\ a[2] = P[1] /\ b[1] = Q[2] /\ b[2] = Q[1]
      /\ ~ steep => a[1] = P[1] /\ a[2] = P[2] /\ b[1] = Q[1] /\ b[2] = Q[2]
  BY EndsAre
<1>2. /\ p = <<p[1], p[2], p[3]>> /\ p[1] \in Int /\ p[2] \in Int
      /\ P = <<P[1], P[2], P[3]>> /\ Q = <<Q[1], Q[2], Q[3]>>
  BY PositionIs
<1>3. n = b[1] - a[1] /\ b[1] = a[1] + n /\ m = e * n /\ m \in Int /\ b[2] = a[2] + m
  <2>1. n = b[1] - a[1]
    BY DEF Along
  <2> QED BY <1>1, <2>1
<1>11. e \in Int /\ ((e = 0 /\ m = 0) \/ (e = 1 /\ m = n) \/ (e = -1 /\ m = -n))
  <2>1. 0 * n = 0 /\ 1 * n = n /\ (-1) * n = -n
    BY <1>1
  <2> QED BY <1>3, <2>1
<1>12. \A k \in Int : (e = 0 => e * k = 0) /\ (e = 1 => e * k = k) /\ (e = -1 => e * k = -k)
  OBVIOUS
<1>4. x \in Int /\ y \in Int
  BY <1>2
<1> DEFINE tile(k) == IF steep THEN <<a[2] + e * k, a[1] + k, P[3]>> ELSE <<a[1] + k, a[2] + e * k, P[3]>>
<1>5. ASSUME NEW k \in 1..n-1 PROVE At(steep, a, b, P[3], k) = tile(k)
  <2>1. Across(a, b, k) = (10 * (a[2] * n + k * m) + n) \div (10 * n)
    BY DEF Across, Along
  <2>2. m = e * n
    BY <1>3
  <2> HIDE DEF n, m
  <2>3. (10 * (a[2] * n + k * (e * n)) + n) \div (10 * n) = a[2] + e * k
    BY <1>1, NearestOn
  <2>4. Across(a, b, k) = a[2] + e * k
    BY <2>1, <2>2, <2>3
  <2> QED BY <2>4 DEF At
<1>6. ASSUME NEW k \in Int PROVE p = tile(k) <=> x = a[1] + k /\ y = a[2] + e * k /\ p[3] = P[3]
  <2>1. CASE steep
    <3>1. tile(k) = <<a[2] + e * k, a[1] + k, P[3]>> /\ x = p[2] /\ y = p[1]
      BY <2>1
    <3> HIDE DEF tile, x, y
    <3> QED BY <1>2, <3>1
  <2>2. CASE ~ steep
    <3>1. tile(k) = <<a[1] + k, a[2] + e * k, P[3]>> /\ x = p[1] /\ y = p[2]
      BY <2>2
    <3> HIDE DEF tile, x, y
    <3> QED BY <1>2, <3>1
  <2> QED BY <2>1, <2>2
\* On the line, in the coordinates along and across it.
<1>7. OnLine(P, Q, p) <=>
          /\ Lesser(a[1], b[1]) <= x /\ x <= Greater(a[1], b[1])
          /\ Lesser(a[2], b[2]) <= y /\ y <= Greater(a[2], b[2])
          /\ p[3] = P[3] /\ ~ (x = a[1] /\ y = a[2]) /\ ~ (x = b[1] /\ y = b[2])
          /\ (x - a[1]) * m = (y - a[2]) * n
  <2>1. p[3] = P[3] => (p = P <=> p[1] = P[1] /\ p[2] = P[2]) /\ (p = Q <=> p[1] = Q[1] /\ p[2] = Q[2])
    BY <1>2
  <2>2. CASE steep
    <3>1. x = p[2] /\ y = p[1] /\ a[1] = P[2] /\ a[2] = P[1] /\ b[1] = Q[2] /\ b[2] = Q[1]
      BY <1>1, <2>2
    <3>2. m = Q[1] - P[1] /\ n = Q[2] - P[2]
      BY <1>3, <3>1
    <3> HIDE DEF x, y, m, n
    <3>3. (p[1] - P[1]) * (Q[2] - P[2]) = (y - a[2]) * n /\ (p[2] - P[2]) * (Q[1] - P[1]) = (x - a[1]) * m
      BY <3>1, <3>2
    <3> QED BY <2>1, <3>1, <3>3 DEF OnLine, Inside
  <2>3. CASE ~ steep
    <3>1. x = p[1] /\ y = p[2] /\ a[1] = P[1] /\ a[2] = P[2] /\ b[1] = Q[1] /\ b[2] = Q[2]
      BY <1>1, <2>3
    <3>2. m = Q[2] - P[2] /\ n = Q[1] - P[1]
      BY <1>3, <3>1
    <3> HIDE DEF x, y, m, n
    <3>3. (p[1] - P[1]) * (Q[2] - P[2]) = (x - a[1]) * m /\ (p[2] - P[2]) * (Q[1] - P[1]) = (y - a[2]) * n
      BY <3>1, <3>2
    <3> QED BY <2>1, <3>1, <3>3 DEF OnLine, Inside
  <2> QED BY <2>2, <2>3
<1> HIDE DEF tile, x, y, n, m
<1>8. (x - a[1]) * m = (y - a[2]) * n <=> y - a[2] = e * (x - a[1])
  <2> DEFINE h == x - a[1]
             c == e * h
             d == y - a[2]
  <2>0. h \in Int
    BY <1>1, <1>4
  <2> HIDE DEF h
  <2>2. c \in Int /\ d \in Int
    BY <1>1, <1>4, <1>11, <2>0
  <2>1. h * m = c * n
    <3>1. CASE e = 0
      BY <1>1, <1>11, <2>0, <3>1
    <3>2. CASE e = 1
      BY <1>1, <1>11, <2>0, <3>2
    <3>3. CASE e = -1
      <4>1. c = -h /\ m = -n
        BY <1>11, <1>12, <2>0, <3>3
      <4> HIDE DEF c
      <4> QED BY <1>1, <2>0, <4>1
    <3> QED BY <1>11, <3>1, <3>2, <3>3
  <2> HIDE DEF c, d
  <2>3. c * n = d * n <=> d = c
    BY <1>1, <2>2
  <2> QED BY <2>1, <2>3 DEF c, d, h
<1>9. ASSUME OnLine(P, Q, p) PROVE \E k \in 1..n-1 : p = At(steep, a, b, P[3], k)
  <2> DEFINE k == x - a[1]
  <2>1. k \in Int /\ x = a[1] + k /\ y = a[2] + e * k /\ p[3] = P[3]
    BY <1>1, <1>4, <1>7, <1>8, <1>9
  <2>2. 0 <= k /\ k <= n
    BY <1>1, <1>3, <1>4, <1>7, <1>9 DEF Lesser, Greater
  <2>3. k # 0
    <3>1. k = 0 => x = a[1] /\ y = a[2]
      <4>1. k = 0 => e * k = 0
        BY <1>11, <2>1
      <4> HIDE DEF k
      <4> QED BY <1>1, <2>1, <4>1
    <3> QED BY <1>7, <1>9, <3>1
  <2>4. k # n
    <3>1. k = n => x = b[1] /\ y = b[2]
      BY <1>1, <1>3, <2>1
    <3> QED BY <1>7, <1>9, <3>1
  <2> HIDE DEF k
  <2>5. k \in 1..n-1
    BY <1>1, <2>1, <2>2, <2>3, <2>4
  <2>6. p = tile(k)
    BY <1>6, <2>1
  <2> QED BY <1>5, <2>5, <2>6
<1>10. ASSUME NEW k \in 1..n-1, p = At(steep, a, b, P[3], k) PROVE OnLine(P, Q, p)
  <2>1. k \in Int /\ k > 0 /\ k < n
    BY <1>1
  <2>2. x = a[1] + k /\ y = a[2] + e * k /\ p[3] = P[3]
    BY <1>5, <1>6, <1>10, <2>1
  <2>3. x # a[1] /\ x # b[1] /\ Lesser(a[1], b[1]) <= x /\ x <= Greater(a[1], b[1])
    BY <1>1, <1>3, <2>1, <2>2 DEF Lesser, Greater
  <2>4. y - a[2] = e * (x - a[1])
    BY <1>1, <2>1, <2>2
  <2>5. Lesser(a[2], b[2]) <= y /\ y <= Greater(a[2], b[2])
    <3>1. CASE e = 0
      <4>1. y = a[2] /\ b[2] = a[2]
        BY <1>1, <1>3, <1>11, <1>12, <2>1, <2>2, <3>1
      <4> QED BY <1>1, <4>1 DEF Lesser, Greater
    <3>2. CASE e = 1
      <4>1. y = a[2] + k /\ b[2] = a[2] + n
        BY <1>1, <1>3, <1>11, <1>12, <2>1, <2>2, <3>2
      <4> QED BY <1>1, <2>1, <4>1 DEF Lesser, Greater
    <3>3. CASE e = -1
      <4>1. y = a[2] - k /\ b[2] = a[2] - n
        BY <1>1, <1>3, <1>11, <1>12, <2>1, <2>2, <3>3
      <4> QED BY <1>1, <2>1, <4>1 DEF Lesser, Greater
    <3> QED BY <3>1, <3>2, <3>3
  <2> QED BY <1>7, <1>8, <2>2, <2>3, <2>4, <2>5
<1> QED BY <1>9, <1>10 DEF n

LEMMA LineStraight ==
    ASSUME NEW t, Opaque(t), NEW steep \in BOOLEAN, NEW P \in Position, NEW Q \in Position,
           NEW a, NEW b, Ends(steep, P, Q, a, b), Straight(P, Q), P[3] = Q[3]
    PROVE  LineClear(t, steep, a, b, P[3]) <=> ~ \E p \in t.opaque : Holds(t, p) /\ OnLine(P, Q, p)
<1> DEFINE n == Along(a, b)
           m == b[2] - a[2]
<1>1. /\ a[1] \in Int /\ a[2] \in Int /\ b[1] \in Int /\ b[2] \in Int /\ n \in Nat /\ n > 0
      /\ steep => a[1] = P[2] /\ a[2] = P[1] /\ b[1] = Q[2] /\ b[2] = Q[1]
      /\ ~ steep => a[1] = P[1] /\ a[2] = P[2] /\ b[1] = Q[1] /\ b[2] = Q[2]
  BY EndsAre
<1>2. n = b[1] - a[1] /\ m \in Int
  BY <1>1 DEF Along
<1>3. m = 0 \/ m = n \/ m = -n
  <2>1. a[1] = b[1] \/ a[2] = b[2] \/ Abs(a[1] - b[1]) = Abs(a[2] - b[2])
    BY <1>1 DEF Straight
  <2> QED BY <1>1, <1>2, <2>1 DEF Abs
<1>4. PICK e \in {-1, 0, 1} : m = e * n
  <2>1. 0 * n = 0 /\ 1 * n = n /\ (-1) * n = -n
    BY <1>1
  <2> QED BY <1>3, <2>1
<1>5. ASSUME NEW p \in t.opaque
      PROVE  OnLine(P, Q, p) <=> \E k \in 1..n-1 : p = At(steep, a, b, P[3], k)
  <2>1. p \in Position
    BY DEF Opaque
  <2> QED BY <1>4, <2>1, OnStraight
<1>6. LineClear(t, steep, a, b, P[3]) <=> \A k \in 1..n-1 : IsTileClear(t, At(steep, a, b, P[3], k), FALSE)
  BY LineClearIs
<1>7. \A p : IsTileClear(t, p, FALSE) <=> ~ (Holds(t, p) /\ p \in t.opaque)
  BY DEF IsTileClear, IsOpaque
<1> HIDE DEF n, m
<1> QED BY <1>5, <1>6, <1>7

(***************************************************************************)
(* The line of check_sight_line, whichever end asks.                       *)
(***************************************************************************)
\* The line from P to Q is walked from Q if it is turned.
Turned(steep, P, Q) == IF steep THEN P[2] > Q[2] ELSE P[1] > Q[1]
Steep(P, Q) == Abs(Q[2] - P[2]) > Abs(Q[1] - P[1])
Aimed(P, Q) == IF Turned(Steep(P, Q), P, Q) THEN <<Q, P>> ELSE <<P, Q>>
Outset(P, Q) == LET r == Aimed(P, Q)[1] IN IF Steep(P, Q) THEN <<r[2], r[1]>> ELSE <<r[1], r[2]>>
Finish(P, Q) == LET r == Aimed(P, Q)[2] IN IF Steep(P, Q) THEN <<r[2], r[1]>> ELSE <<r[1], r[2]>>
Apart(P, Q) == ~ (P[1] = Q[1] /\ P[2] = Q[2])
CheckLine(t, P, Q, z) == CheckSightLine(t, P[1], P[2], Q[1], Q[2], z)

LEMMA CheckIs ==
    ASSUME NEW t, NEW P \in Position, NEW Q \in Position, Apart(P, Q), NEW z
    PROVE  CheckLine(t, P, Q, z) <=> LineClear(t, Steep(P, Q), Outset(P, Q), Finish(P, Q), z)
<1>1. P[1] \in Int /\ P[2] \in Int /\ Q[1] \in Int /\ Q[2] \in Int
  BY PositionIs
<1>2. CASE Steep(P, Q)
  <2>1. P[2] # Q[2]
    BY <1>1, <1>2 DEF Steep, Abs
  <2>2. CASE Q[2] > P[2]
    <3>1. Aimed(P, Q) = <<P, Q>>
      BY <1>1, <1>2, <2>2 DEF Aimed, Turned
    <3>2. Outset(P, Q) = <<P[2], P[1]>> /\ Finish(P, Q) = <<Q[2], Q[1]>>
      BY <1>2, <3>1 DEF Outset, Finish
    <3>3. CheckLine(t, P, Q, z) <=> LineClear(t, TRUE, <<P[2], P[1]>>, <<Q[2], Q[1]>>, z)
      BY <1>2, <2>2 DEF CheckLine, CheckSightLine, Steep, Apart
    <3> QED BY <1>2, <3>2, <3>3 DEF Steep
  <2>3. CASE ~ (Q[2] > P[2])
    <3>1. Aimed(P, Q) = <<Q, P>>
      BY <1>1, <1>2, <2>1, <2>3 DEF Aimed, Turned
    <3>2. Outset(P, Q) = <<Q[2], Q[1]>> /\ Finish(P, Q) = <<P[2], P[1]>>
      BY <1>2, <3>1 DEF Outset, Finish
    <3>3. CheckLine(t, P, Q, z) <=> LineClear(t, TRUE, <<Q[2], Q[1]>>, <<P[2], P[1]>>, z)
      BY <1>2, <2>3 DEF CheckLine, CheckSightLine, Steep, Apart
    <3> QED BY <1>2, <3>2, <3>3 DEF Steep
  <2> QED BY <2>2, <2>3
<1>3. CASE ~ Steep(P, Q)
  <2>1. CASE P[1] > Q[1]
    <3>1. Aimed(P, Q) = <<Q, P>>
      BY <1>3, <2>1 DEF Aimed, Turned
    <3>2. Outset(P, Q) = <<Q[1], Q[2]>> /\ Finish(P, Q) = <<P[1], P[2]>>
      BY <1>3, <3>1 DEF Outset, Finish
    <3>3. CheckLine(t, P, Q, z) <=> LineClear(t, FALSE, <<Q[1], Q[2]>>, <<P[1], P[2]>>, z)
      BY <1>3, <2>1 DEF CheckLine, CheckSightLine, Steep, Apart
    <3>4. Steep(P, Q) = FALSE
      BY <1>3 DEF Steep
    <3> QED BY <3>2, <3>3, <3>4
  <2>2. CASE ~ (P[1] > Q[1])
    <3>1. Aimed(P, Q) = <<P, Q>>
      BY <1>3, <2>2 DEF Aimed, Turned
    <3>2. Outset(P, Q) = <<P[1], P[2]>> /\ Finish(P, Q) = <<Q[1], Q[2]>>
      BY <1>3, <3>1 DEF Outset, Finish
    <3>3. CheckLine(t, P, Q, z) <=> LineClear(t, FALSE, <<P[1], P[2]>>, <<Q[1], Q[2]>>, z)
      BY <1>3, <2>2 DEF CheckLine, CheckSightLine, Steep, Apart
    <3>4. Steep(P, Q) = FALSE
      BY <1>3 DEF Steep
    <3> QED BY <3>2, <3>3, <3>4
  <2> QED BY <2>1, <2>2
<1> QED BY <1>2, <1>3

\* Both ends ask for the same line.
LEMMA SameLine ==
    ASSUME NEW P \in Position, NEW Q \in Position, Apart(P, Q)
    PROVE  /\ Steep(P, Q) \in BOOLEAN /\ (Steep(P, Q) <=> Steep(Q, P))
           /\ Steep(P, Q) = Steep(Q, P) /\ Outset(P, Q) = Outset(Q, P) /\ Finish(P, Q) = Finish(Q, P)
           /\ \/ Aimed(P, Q) = <<P, Q>> /\ Ends(Steep(P, Q), P, Q, Outset(P, Q), Finish(P, Q))
              \/ Aimed(P, Q) = <<Q, P>> /\ Ends(Steep(P, Q), Q, P, Outset(P, Q), Finish(P, Q))
<1>1. P[1] \in Int /\ P[2] \in Int /\ Q[1] \in Int /\ Q[2] \in Int
  BY PositionIs
<1>2. Steep(P, Q) <=> Steep(Q, P)
  BY <1>1 DEF Steep, Abs
<1>3. Steep(P, Q) \in BOOLEAN /\ Steep(P, Q) = Steep(Q, P)
  BY <1>2 DEF Steep
<1>4. Steep(P, Q) => P[2] # Q[2]
  BY <1>1 DEF Steep, Abs
<1>5. ~ Steep(P, Q) => P[1] # Q[1]
  BY <1>1 DEF Steep, Abs, Apart
<1>6. Turned(Steep(P, Q), P, Q) <=> ~ Turned(Steep(Q, P), Q, P)
  BY <1>1, <1>2, <1>4, <1>5 DEF Turned
<1>7. Aimed(P, Q) = Aimed(Q, P)
  BY <1>6 DEF Aimed
<1>8. Outset(P, Q) = Outset(Q, P) /\ Finish(P, Q) = Finish(Q, P)
  BY <1>2, <1>7 DEF Outset, Finish
<1>9. ASSUME NEW R \in {P, Q}, NEW S \in {P, Q}, Aimed(P, Q) = <<R, S>>, R # S,
             Steep(P, Q) => S[2] > R[2], ~ Steep(P, Q) => S[1] > R[1]
      PROVE  Ends(Steep(P, Q), R, S, Outset(P, Q), Finish(P, Q))
  <2>0. R[1] \in Int /\ R[2] \in Int /\ S[1] \in Int /\ S[2] \in Int
    BY <1>1
  <2>1. Steep(P, Q) <=> Abs(S[2] - R[2]) > Abs(S[1] - R[1])
    BY <1>1, <1>9 DEF Steep, Abs
  <2>2. CASE Steep(P, Q)
    <3>1. Outset(P, Q) = <<R[2], R[1]>> /\ Finish(P, Q) = <<S[2], S[1]>>
      BY <1>9, <2>2 DEF Outset, Finish
    <3>2. S[2] > R[2] /\ S[1] - R[1] <= S[2] - R[2] /\ R[1] - S[1] <= S[2] - R[2]
      BY <1>9, <2>0, <2>1, <2>2 DEF Abs
    <3> QED BY <2>2, <3>1, <3>2 DEF Ends
  <2>3. CASE ~ Steep(P, Q)
    <3>1. Outset(P, Q) = <<R[1], R[2]>> /\ Finish(P, Q) = <<S[1], S[2]>>
      BY <1>9, <2>3 DEF Outset, Finish
    <3>2. S[1] > R[1] /\ S[2] - R[2] <= S[1] - R[1] /\ R[2] - S[2] <= S[1] - R[1]
      BY <1>9, <2>0, <2>1, <2>3 DEF Abs
    <3> QED BY <2>3, <3>1, <3>2 DEF Ends
  <2> QED BY <2>2, <2>3
<1>10. P # Q
  BY DEF Apart
<1>11. CASE Turned(Steep(P, Q), P, Q)
  <2>1. Aimed(P, Q) = <<Q, P>>
    BY <1>11 DEF Aimed
  <2>2. Ends(Steep(P, Q), Q, P, Outset(P, Q), Finish(P, Q))
    BY <1>9, <1>10, <1>11, <2>1 DEF Turned
  <2> QED BY <1>2, <1>3, <1>8, <2>1, <2>2
<1>12. CASE ~ Turned(Steep(P, Q), P, Q)
  <2>1. Aimed(P, Q) = <<P, Q>>
    BY <1>12 DEF Aimed
  <2>2. (Steep(P, Q) => Q[2] > P[2]) /\ (~ Steep(P, Q) => Q[1] > P[1])
    BY <1>1, <1>4, <1>5, <1>12 DEF Turned
  <2>3. Ends(Steep(P, Q), P, Q, Outset(P, Q), Finish(P, Q))
    BY <1>9, <1>10, <2>1, <2>2
  <2> QED BY <1>2, <1>3, <1>8, <2>1, <2>3
<1> QED BY <1>11, <1>12

LEMMA CheckMutual ==
    ASSUME NEW t, NEW P \in Position, NEW Q \in Position, NEW z
    PROVE  CheckLine(t, P, Q, z) <=> CheckLine(t, Q, P, z)
<1>1. CASE Apart(P, Q)
  <2>1. Apart(Q, P)
    BY <1>1 DEF Apart
  <2> QED BY <1>1, <2>1, CheckIs, SameLine
<1>2. CASE ~ Apart(P, Q)
  BY <1>2 DEF Apart, CheckLine, CheckSightLine
<1> QED BY <1>1, <1>2

\* The rectangle of two tiles, and the line between them, are the same from
\* either end.
LEMMA InsideTurned ==
    ASSUME NEW P \in Position, NEW Q \in Position, NEW p \in Position
    PROVE  (Inside(P, Q, p) <=> Inside(Q, P, p)) /\ (P[3] = Q[3] => (OnLine(P, Q, p) <=> OnLine(Q, P, p)))
<1> DEFINE u1 == p[1] - P[1]
           u2 == p[2] - P[2]
           w1 == Q[1] - P[1]
           w2 == Q[2] - P[2]
<1>1. P[1] \in Int /\ P[2] \in Int /\ Q[1] \in Int /\ Q[2] \in Int /\ p[1] \in Int /\ p[2] \in Int
  BY PositionIs
<1>2. Inside(P, Q, p) <=> Inside(Q, P, p)
  BY <1>1 DEF Inside, Lesser, Greater
<1>3. u1 \in Int /\ u2 \in Int /\ w1 \in Int /\ w2 \in Int
  BY <1>1
<1>4. p[1] - Q[1] = u1 - w1 /\ p[2] - Q[2] = u2 - w2 /\ P[1] - Q[1] = -w1 /\ P[2] - Q[2] = -w2
  BY <1>1
<1> HIDE DEF u1, u2, w1, w2
<1>5. (u1 - w1) * (-w2) = w1 * w2 - u1 * w2 /\ (u2 - w2) * (-w1) = w1 * w2 - u2 * w1
  BY <1>3
<1>6. u1 * w2 \in Int /\ u2 * w1 \in Int /\ w1 * w2 \in Int
  BY <1>3
<1>7. u1 * w2 = u2 * w1 <=> (u1 - w1) * (-w2) = (u2 - w2) * (-w1)
  BY <1>5, <1>6
<1>8. OnLine(P, Q, p) <=> Inside(P, Q, p) /\ p[3] = P[3] /\ p \notin {P, Q} /\ u1 * w2 = u2 * w1
  BY DEF OnLine, u1, u2, w1, w2
<1>9. OnLine(Q, P, p) <=> Inside(Q, P, p) /\ p[3] = Q[3] /\ p \notin {P, Q} /\ (u1 - w1) * (-w2) = (u2 - w2) * (-w1)
  BY <1>4 DEF OnLine
<1> QED BY <1>2, <1>7, <1>8, <1>9

LEMMA NarrowTurned ==
    ASSUME NEW t, TerrainRecord(t), Opaque(t), NEW P \in Position, NEW Q \in Position
    PROVE  Narrow(t, P, Q) = Narrow(t, Q, P)
<1>1. {p \in t.opaque : Inside(P, Q, p)} = {p \in t.opaque : Inside(Q, P, p)}
  BY InsideTurned DEF Opaque
<1> QED BY <1>1 DEF Narrow

LEMMA CheckNarrow ==
    ASSUME NEW t, TerrainRecord(t), Opaque(t), NEW P \in Position, NEW Q \in Position, NEW z
    PROVE  CheckLine(t, P, Q, z) <=> CheckLine(Narrow(t, P, Q), P, Q, z)
<1>1. CASE ~ Apart(P, Q)
  BY <1>1 DEF Apart, CheckLine, CheckSightLine
<1>2. CASE Apart(P, Q)
  <2> DEFINE d == Steep(P, Q)
             a == Outset(P, Q)
             b == Finish(P, Q)
  <2>1. d \in BOOLEAN /\ (Ends(d, P, Q, a, b) \/ Ends(d, Q, P, a, b))
    BY <1>2, SameLine
  <2>2. \A u : CheckLine(u, P, Q, z) <=> LineClear(u, d, a, b, z)
    BY <1>2, CheckIs
  <2> HIDE DEF d, a, b
  <2>3. LineClear(t, d, a, b, z) <=> LineClear(Narrow(t, P, Q), d, a, b, z)
    <3>1. CASE Ends(d, P, Q, a, b)
      BY <2>1, <3>1, LineNarrow
    <3>2. CASE Ends(d, Q, P, a, b)
      BY <2>1, <3>2, LineNarrow, NarrowTurned
    <3> QED BY <2>1, <3>1, <3>2
  <2> QED BY <2>2, <2>3
<1> QED BY <1>1, <1>2

LEMMA CheckStraight ==
    ASSUME NEW t, Opaque(t), NEW P \in Position, NEW Q \in Position, Straight(P, Q), P[3] = Q[3]
    PROVE  CheckLine(t, P, Q, P[3]) <=> ~ \E p \in t.opaque : Holds(t, p) /\ OnLine(P, Q, p)
<1>1. CASE ~ Apart(P, Q)
  <2>1. CheckLine(t, P, Q, P[3])
    BY <1>1 DEF Apart, CheckLine, CheckSightLine
  <2>2. ASSUME NEW p \in t.opaque, OnLine(P, Q, p) PROVE FALSE
    <3>1. p \in Position
      BY DEF Opaque
    <3>2. /\ p = <<p[1], p[2], p[3]>> /\ p[1] \in Int /\ p[2] \in Int
          /\ P = <<P[1], P[2], P[3]>> /\ P[1] \in Int /\ P[2] \in Int
      BY <3>1, PositionIs
    <3>3. p[1] = P[1] /\ p[2] = P[2]
      BY <1>1, <2>2, <3>2 DEF OnLine, Inside, Lesser, Greater, Apart
    <3>4. p[3] = P[3] /\ p # P
      BY <2>2 DEF OnLine
    <3> QED BY <3>2, <3>3, <3>4
  <2> QED BY <2>1, <2>2
<1>2. CASE Apart(P, Q)
  <2> DEFINE d == Steep(P, Q)
             a == Outset(P, Q)
             b == Finish(P, Q)
  <2>1. d \in BOOLEAN /\ (Ends(d, P, Q, a, b) \/ Ends(d, Q, P, a, b))
    BY <1>2, SameLine
  <2>2. CheckLine(t, P, Q, P[3]) <=> LineClear(t, d, a, b, P[3])
    BY <1>2, CheckIs
  <2> HIDE DEF d, a, b
  <2>3. CASE Ends(d, P, Q, a, b)
    BY <2>1, <2>2, <2>3, LineStraight
  <2>4. CASE Ends(d, Q, P, a, b)
    <3>1. Straight(Q, P)
      <4>1. P[1] \in Int /\ P[2] \in Int /\ Q[1] \in Int /\ Q[2] \in Int
        BY PositionIs
      <4> QED BY <4>1 DEF Straight, Abs
    <3>2. LineClear(t, d, a, b, Q[3]) <=> ~ \E p \in t.opaque : Holds(t, p) /\ OnLine(Q, P, p)
      BY <2>1, <2>4, <3>1, LineStraight
    <3>3. \A p \in t.opaque : OnLine(P, Q, p) <=> OnLine(Q, P, p)
      BY InsideTurned DEF Opaque
    <3> QED BY <2>2, <3>2, <3>3
  <2> QED BY <2>1, <2>3, <2>4
<1> QED BY <1>1, <1>2

\* Tiles next to each other have none between them.
LEMMA CheckNear ==
    ASSUME NEW t, NEW P \in Position, NEW Q \in Position, NEW z,
           Abs(P[1] - Q[1]) < 2, Abs(P[2] - Q[2]) < 2
    PROVE  CheckLine(t, P, Q, z)
<1>1. CASE ~ Apart(P, Q)
  BY <1>1 DEF Apart, CheckLine, CheckSightLine
<1>2. CASE Apart(P, Q)
  <2> DEFINE d == Steep(P, Q)
             a == Outset(P, Q)
             b == Finish(P, Q)
  <2>1. d \in BOOLEAN /\ (Ends(d, P, Q, a, b) \/ Ends(d, Q, P, a, b))
    BY <1>2, SameLine
  <2>2. CheckLine(t, P, Q, z) <=> LineClear(t, d, a, b, z)
    BY <1>2, CheckIs
  <2> HIDE DEF d, a, b
  <2>3. P[1] \in Int /\ P[2] \in Int /\ Q[1] \in Int /\ Q[2] \in Int
    BY PositionIs
  <2>4. Along(a, b) \in Nat /\ Along(a, b) < 2
    <3>1. CASE Ends(d, P, Q, a, b)
      <4>1. /\ Along(a, b) \in Nat
            /\ d => a[1] = P[2] /\ b[1] = Q[2]
            /\ ~ d => a[1] = P[1] /\ b[1] = Q[1]
        BY <2>1, <3>1, EndsAre
      <4> QED BY <2>3, <4>1 DEF Along, Abs
    <3>2. CASE Ends(d, Q, P, a, b)
      <4>1. /\ Along(a, b) \in Nat
            /\ d => a[1] = Q[2] /\ b[1] = P[2]
            /\ ~ d => a[1] = Q[1] /\ b[1] = P[1]
        BY <2>1, <3>2, EndsAre
      <4> QED BY <2>3, <4>1 DEF Along, Abs
    <3> QED BY <2>1, <3>1, <3>2
  <2>5. 1..Along(a, b)-1 = {}
    BY <2>4
  <2>6. LineClear(t, d, a, b, z)
    BY <2>5, LineClearIs
  <2> QED BY <2>2, <2>6
<1> QED BY <1>1, <1>2

LEMMA SightBoolean ==
    ASSUME NEW t, NEW P, NEW Q, NEW f
    PROVE  IsSightClear(t, P, Q, f) \in BOOLEAN /\ CanThrowObjectTo(t, P, Q) \in BOOLEAN
BY DEF IsSightClear, LevelSight, CanThrowObjectTo

\* What one sees of one's own floor is what the line lets through.
LEMMA LevelIs ==
    ASSUME NEW t, NEW P \in Position, NEW Q \in Position, P[3] = Q[3]
    PROVE  IsSightClear(t, P, Q, TRUE) <=> CheckLine(t, P, Q, P[3])
<1>1. IsSightClear(t, P, Q, TRUE) <=>
          (Abs(P[1] - Q[1]) < 2 /\ Abs(P[2] - Q[2]) < 2) \/ CheckLine(t, P, Q, P[3])
  BY DEF IsSightClear, LevelSight, CheckLine
<1> QED BY <1>1, CheckNear

LEMMA LevelMutual ==
    ASSUME NEW t, NEW P \in Position, NEW Q \in Position, P[3] = Q[3], NEW f \in BOOLEAN
    PROVE  IsSightClear(t, P, Q, f) = IsSightClear(t, Q, P, f)
<1> DEFINE Next2(p, q) == Abs(p[1] - q[1]) < 2 /\ Abs(p[2] - q[2]) < 2
           Over(p, q) == \/ p[3] = 0
                         \/ /\ IsTileClear(t, <<p[1], p[2], p[3] - 1>>, TRUE)
                            /\ IsTileClear(t, <<q[1], q[2], p[3] - 1>>, TRUE)
                            /\ CheckLine(t, p, q, p[3] - 1)
<1>1. IsSightClear(t, P, Q, f) <=> Next2(P, Q) \/ CheckLine(t, P, Q, P[3]) \/ (~ f /\ Over(P, Q))
  BY DEF IsSightClear, LevelSight, CheckLine
<1>2. IsSightClear(t, Q, P, f) <=> Next2(Q, P) \/ CheckLine(t, Q, P, Q[3]) \/ (~ f /\ Over(Q, P))
  BY DEF IsSightClear, LevelSight, CheckLine
<1>3. Next2(P, Q) <=> Next2(Q, P)
  <2>1. P[1] \in Int /\ P[2] \in Int /\ Q[1] \in Int /\ Q[2] \in Int
    BY PositionIs
  <2> QED BY <2>1 DEF Abs
<1>4. CheckLine(t, P, Q, P[3]) <=> CheckLine(t, Q, P, Q[3])
  BY CheckMutual
<1>5. Over(P, Q) <=> Over(Q, P)
  <2>1. CheckLine(t, P, Q, P[3] - 1) <=> CheckLine(t, Q, P, Q[3] - 1)
    BY CheckMutual
  <2> QED BY <2>1
<1> HIDE DEF Next2, Over
<1>6. IsSightClear(t, P, Q, f) <=> IsSightClear(t, Q, P, f)
  BY <1>1, <1>2, <1>3, <1>4, <1>5
<1> QED BY <1>6, SightBoolean

LEMMA ThrowMutual ==
    ASSUME NEW t, NEW P \in Position, NEW Q \in Position, P[3] = Q[3]
    PROVE  CanThrowObjectTo(t, P, Q) = CanThrowObjectTo(t, Q, P)
<1>1. P[1] \in Int /\ P[2] \in Int /\ Q[1] \in Int /\ Q[2] \in Int
  BY PositionIs
<1>2. Abs(P[1] - Q[1]) = Abs(Q[1] - P[1]) /\ Abs(P[2] - Q[2]) = Abs(Q[2] - P[2])
  BY <1>1 DEF Abs
<1>3. IsSightClear(t, P, Q, FALSE) = IsSightClear(t, Q, P, FALSE)
  BY LevelMutual
<1> QED BY <1>2, <1>3 DEF CanThrowObjectTo

\* Up by a floor at most, and never through the surface.
LEMMA OtherFloor ==
    ASSUME NEW t, NEW P \in Position, NEW Q \in Position, P[3] # Q[3]
    PROVE  /\ ~ IsSightClear(t, P, Q, TRUE)
           /\ CanThrowObjectTo(t, P, Q) => P[3] - Q[3] <= 1 /\ (P[3] > Surface <=> Q[3] > Surface)
<1>1. P[3] \in Int /\ Q[3] \in Int /\ Surface \in Int
  BY PositionIs, TerrainAssumption
<1>2. ~ IsSightClear(t, P, Q, TRUE)
  BY DEF IsSightClear
<1>3. ASSUME IsSightClear(t, P, Q, FALSE)
      PROVE  P[3] - Q[3] <= 1 /\ (P[3] > Surface <=> Q[3] > Surface)
  <2>1. (P[3] <= Surface <=> Q[3] <= Surface) /\ (P[3] > Q[3] => P[3] - Q[3] = 1)
    BY <1>3 DEF IsSightClear
  <2> QED BY <1>1, <2>1
<1> QED BY <1>2, <1>3 DEF CanThrowObjectTo

(***************************************************************************)
(* The answers.                                                            *)
(***************************************************************************)
Sights(q) == [level |-> IsSightClear(q.t, q.from, q.to, TRUE), thrown |-> CanThrowObjectTo(q.t, q.from, q.to)]

\* What holds of a question and its answer, while a path is looked for too.
CoursesInv ==
    /\ kind = "path" => /\ question \in Paths
                        /\ answer = Unanswered => Rooted(question, nodes)
                        /\ PathsLead
    /\ kind = "sight" => /\ question \in Views
                         /\ answer = Unanswered \/ answer = <<Sights(question)>>

LEMMA AskedPath ==
    ASSUME NEW s \in Paths
    PROVE  Asked(s)
BY CoursesAssumption DEF Asked

LEMMA AskedView ==
    ASSUME NEW v \in Views
    PROVE  v.from \in Position /\ v.to \in Position /\ TerrainRecord(v.t) /\ Opaque(v.t)
BY CoursesAssumption DEF TerrainRecord, Opaque

LEMMA CoursesInit ==
    ASSUME Fresh, PathAsked \/ SightAsked \/ Other
    PROVE  CoursesInv
<1>1. CASE PathAsked
  <2>1. kind = "path" /\ question \in Paths /\ answer = Unanswered /\ nodes = FirstNode(question)
    BY <1>1 DEF PathAsked, Fresh
  <2>2. Rooted(question, nodes)
    BY <2>1, AskedPath, RootedFirst
  <2> QED BY <2>1, <2>2 DEF CoursesInv, PathsLead, Answered
<1>2. CASE SightAsked
  BY <1>2 DEF SightAsked, Fresh, CoursesInv
<1>3. CASE Other
  BY <1>3 DEF Other, CoursesInv
<1> QED BY <1>1, <1>2, <1>3

LEMMA CoursesStep ==
    ASSUME CoursesInv, [SearchStep \/ LookAlong \/ Elsewhere]_vars
    PROVE  CoursesInv'
<1>1. CASE SearchStep
  <2>1. kind = "path" /\ kind' = kind /\ question' = question /\ answer = Unanswered /\ question \in Paths /\ Rooted(question, nodes)
    BY <1>1 DEF SearchStep, CoursesInv
  <2>2. PICK turn \in Expand(question, nodes) :
            nodes' = turn.nodes /\ answer' = IF turn.over THEN <<turn.path>> ELSE Unanswered
    BY <1>1 DEF SearchStep
  <2>3. /\ turn.over => turn.path = << >> \/ Leads(question, turn.path)
        /\ ~ turn.over => Rooted(question, turn.nodes)
    BY <2>1, AskedPath, ExpandIs
  <2>4. CASE turn.over
    <3>1. answer' = <<turn.path>>
      BY <2>2, <2>4
    <3>2. answer' # Unanswered /\ answer'[1] = turn.path
      BY <3>1 DEF Unanswered
    <3> QED BY <2>1, <2>3, <2>4, <3>2 DEF CoursesInv, PathsLead, Answered, Got
  <2>5. CASE ~ turn.over
    <3>1. answer' = Unanswered /\ Rooted(question, nodes')
      BY <2>2, <2>3, <2>5
    <3> QED BY <2>1, <3>1 DEF CoursesInv, PathsLead, Answered
  <2> QED BY <2>4, <2>5
<1>2. CASE LookAlong
  <2>1. kind = "sight" /\ kind' = kind /\ question' = question /\ answer' = <<Sights(question)>>
    BY <1>2 DEF LookAlong, Answer, Sights
  <2> QED BY <2>1 DEF CoursesInv
<1>3. CASE Elsewhere
  BY <1>3 DEF Elsewhere, Other, CoursesInv
<1>4. CASE UNCHANGED vars
  BY <1>4 DEF vars, CoursesInv, PathsLead, Answered, Got
<1> QED BY <1>1, <1>2, <1>3, <1>4

LEMMA CoursesHold == CourseSpec => []CoursesInv
<1>1. Fresh /\ (PathAsked \/ SightAsked \/ Other) => CoursesInv
  BY CoursesInit
<1>2. CoursesInv /\ [SearchStep \/ LookAlong \/ Elsewhere]_vars => CoursesInv'
  BY CoursesStep
<1> QED BY <1>1, <1>2, PTL DEF CourseSpec

\* get_path_matching: whatever the map, the creatures on it, the start and
\* the target are, a path the search gives leads over walkable tiles from
\* the start to the first tile that will do, and enters none twice.
THEOREM PathsAlwaysLead == CourseSpec => []PathsLead
<1>1. CoursesInv => PathsLead
  BY DEF CoursesInv, PathsLead, Answered
<1> QED BY <1>1, CoursesHold, PTL

LEMMA SightFromInv ==
    ASSUME CoursesInv
    PROVE  SightIsMutual
<1> SUFFICES ASSUME Answered("sight") PROVE SightIsMutual
  BY DEF SightIsMutual
<1> DEFINE t == question.t
           a == question.from
           b == question.to
           u == [t EXCEPT !.opaque = {p \in @ : Inside(a, b, p)}]
<1>1. question \in Views /\ answer = <<Sights(question)>>
  BY DEF CoursesInv, Answered
<1>2. a \in Position /\ b \in Position /\ TerrainRecord(t) /\ Opaque(t)
  BY <1>1, AskedView
<1>3. Got.level = IsSightClear(t, a, b, TRUE) /\ Got.thrown = CanThrowObjectTo(t, a, b)
  BY <1>1 DEF Got, Sights
<1>4. u = Narrow(t, a, b)
  BY DEF Narrow
<1> HIDE DEF t, a, b, u
<1>5. ASSUME a[3] = b[3]
      PROVE  /\ Got.level = IsSightClear(t, b, a, TRUE)
             /\ Got.thrown = CanThrowObjectTo(t, b, a)
             /\ Straight(a, b) => (Got.level <=> ~ \E p \in t.opaque : Holds(t, p) /\ OnLine(a, b, p))
             /\ Got.level = IsSightClear(u, a, b, TRUE)
  <2>1. IsSightClear(t, a, b, TRUE) = IsSightClear(t, b, a, TRUE)
    BY <1>2, <1>5, LevelMutual
  <2>2. CanThrowObjectTo(t, a, b) = CanThrowObjectTo(t, b, a)
    BY <1>2, <1>5, ThrowMutual
  <2>3. Straight(a, b) => (IsSightClear(t, a, b, TRUE) <=> ~ \E p \in t.opaque : Holds(t, p) /\ OnLine(a, b, p))
    BY <1>2, <1>5, LevelIs, CheckStraight
  <2>4. IsSightClear(t, a, b, TRUE) = IsSightClear(u, a, b, TRUE)
    <3>1. IsSightClear(t, a, b, TRUE) <=> IsSightClear(u, a, b, TRUE)
      BY <1>2, <1>4, <1>5, LevelIs, CheckNarrow
    <3>2. IsSightClear(t, a, b, TRUE) \in BOOLEAN /\ IsSightClear(u, a, b, TRUE) \in BOOLEAN
      BY SightBoolean
    <3>3. ASSUME NEW x \in BOOLEAN, NEW y \in BOOLEAN, x <=> y PROVE x = y
      BY <3>3
    <3> QED BY <3>1, <3>2, <3>3
  <2>5. Straight(a, b) => (Got.level <=> ~ \E p \in t.opaque : Holds(t, p) /\ OnLine(a, b, p))
    BY <1>3, <2>3
  <2>6. Got.level = IsSightClear(t, b, a, TRUE) /\ Got.thrown = CanThrowObjectTo(t, b, a) /\ Got.level = IsSightClear(u, a, b, TRUE)
    BY <1>3, <2>1, <2>2, <2>4
  <2> QED BY <2>5, <2>6
<1>6. a[3] # b[3] => ~ Got.level
  BY <1>2, <1>3, OtherFloor
<1>7. Got.thrown => a[3] - b[3] <= 1 /\ (a[3] > Surface <=> b[3] > Surface)
  <2>1. CASE a[3] # b[3]
    BY <1>2, <1>3, <2>1, OtherFloor
  <2>2. CASE a[3] = b[3]
    <3>1. a[3] \in Int /\ b[3] \in Int
      BY <1>2, PositionIs
    <3> QED BY <2>2, <3>1
  <2> QED BY <2>1, <2>2
<1> QED BY <1>5, <1>6, <1>7 DEF SightIsMutual, t, a, b, u

\* is_sight_clear, can_throw_object_to: whatever the map and the two ends
\* are, on one floor each end sees the other or neither does; a straight
\* line is clear when nothing opaque that is loaded is on it, and a tile
\* outside the rectangle of a line never matters.
THEOREM SightAlwaysMutual == CourseSpec => []SightIsMutual
<1>1. CoursesInv => SightIsMutual
  BY SightFromInv
<1> QED BY <1>1, CoursesHold, PTL

=============================================================================
