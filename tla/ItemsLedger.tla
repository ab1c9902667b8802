----------------------------- MODULE ItemsLedger -----------------------------
(***************************************************************************)
(* That handlers keep the books: no step of Items leaves more of a kind    *)
(* than there was, was made and was copied by a death, and a move that     *)
(* meets no refusal keeps all there is.                                    *)
(*                                                                         *)
(* Units(k) is split into what lies on the tiles, Lay(k), and what the     *)
(* players have, here or saved, Kept(k).  Both are sums over a finite set, *)
(* and each handler changes one or two of their terms: OneTile, TwoTiles   *)
(* and OnePlayer give the change of the sum, and the lemmas on sequences,  *)
(* boxes, slots and rows the change of a term.  The handlers' lemmas need  *)
(* the invariant of ItemsProofs before and after the step.                 *)
(***************************************************************************)
EXTENDS ItemsProofs

(***************************************************************************)
(* What sequences of things amount to.                                     *)
(***************************************************************************)
One(x, k) == IF x.kind = k THEN x.count ELSE 0
Weights(q, k) == [i \in DOMAIN q |-> One(q[i], k)]

LEMMA OneIs == ASSUME NEW x \in Things, NEW k PROVE One(x, k) \in Nat
BY ThingIs DEF One

LEMMA WeightsAre ==
    ASSUME NEW q \in Seq(Things), NEW k
    PROVE  /\ Amount(q, k) = SumFunction(Weights(q, k)) /\ Amount(q, k) \in Nat
           /\ Tally(Weights(q, k)) /\ DOMAIN Weights(q, k) = 1..Len(q)
           /\ \A i \in 1..Len(q) : Weights(q, k)[i] = One(q[i], k)
<1>1. DOMAIN q = 1..Len(q)
  BY SeqIs
<1>2. Weights(q, k) = [i \in DOMAIN q |-> IF q[i].kind = k THEN q[i].count ELSE 0]
  BY DEF Weights, One
<1>3. Amount(q, k) = SumFunction(Weights(q, k))
  BY <1>2 DEF Amount
<1>4. Amount(q, k) \in Nat /\ Tally(Weights(q, k))
  BY <1>2, AmountIs
<1> QED BY <1>1, <1>3, <1>4 DEF Weights

LEMMA AmountNone == ASSUME NEW k PROVE Amount(<<>>, k) = 0
<1> DEFINE q == <<>>
           w == Weights(q, k)
<1>1. q \in Seq(Things) /\ Len(q) = 0
  OBVIOUS
<1> HIDE DEF q
<1>2. DOMAIN w = 1..Len(q) /\ Amount(q, k) = SumFunction(w) /\ Tally(w)
  BY <1>1, WeightsAre
<1> HIDE DEF w
<1>3. DOMAIN w = {}
  <2>1. 1..0 = {}
    OBVIOUS
  <2> QED BY <1>1, <1>2, <2>1
<1>4. Amount(q, k) = 0
  BY <1>2, <1>3, SumEmpty
<1> QED BY <1>4 DEF q

LEMMA AmountOne == ASSUME NEW x \in Things, NEW k PROVE Amount(<<x>>, k) = One(x, k)
<1> DEFINE q == <<x>>
           w == Weights(q, k)
<1>1. q \in Seq(Things) /\ Len(q) = 1 /\ q[1] = x
  OBVIOUS
<1> HIDE DEF q
<1>2. DOMAIN w = {1} /\ w[1] = One(x, k) /\ Amount(q, k) = SumFunction(w) /\ Tally(w)
  <2>1. /\ DOMAIN w = 1..Len(q) /\ Amount(q, k) = SumFunction(w) /\ Tally(w)
        /\ \A i \in 1..Len(q) : w[i] = One(q[i], k)
    BY <1>1, WeightsAre
  <2>2. 1..1 = {1}
    OBVIOUS
  <2> HIDE DEF w
  <2> QED BY <1>1, <2>1, <2>2
<1> HIDE DEF w
<1>3. w[1] \in Nat
  BY <1>2, OneIs
<1>4. w = [y \in {1} |-> w[y]]
  BY <1>2 DEF Tally
<1>5. SumFunction(w) = w[1]
  BY <1>2, <1>3, <1>4, SumOne
<1> QED BY <1>2, <1>5 DEF q

LEMMA AmountJoin ==
    ASSUME NEW s \in Seq(Things), NEW t \in Seq(Things), NEW k
    PROVE  Amount(s \o t, k) = Amount(s, k) + Amount(t, k)
<1> DEFINE m == Len(s)
           n == Len(t)
           q == s \o t
           f == Weights(q, k)
           g == Weights(s, k)
           h == Weights(t, k)
           A == 1..m
           B == (m + 1)..(m + n)
           fA == [x \in A |-> f[x]]
           fB == [x \in B |-> f[x]]
           move == [x \in 1..n |-> x + m]
<1>1. m \in Nat /\ n \in Nat /\ q \in Seq(Things) /\ Len(q) = m + n
  BY JoinIs
<1>2. \A i \in 1..(m + n) : q[i] = IF i <= m THEN s[i] ELSE t[i - m]
  BY ConcatProperties
<1>3. /\ Amount(q, k) = SumFunction(f) /\ Tally(f) /\ DOMAIN f = 1..(m + n)
      /\ \A i \in 1..(m + n) : f[i] = One(q[i], k)
  BY <1>1, WeightsAre
<1>4. /\ Amount(s, k) = SumFunction(g) /\ Tally(g) /\ DOMAIN g = 1..m
      /\ \A i \in 1..m : g[i] = One(s[i], k)
  BY WeightsAre
<1>5. /\ Amount(t, k) = SumFunction(h) /\ Tally(h) /\ DOMAIN h = 1..n
      /\ \A i \in 1..n : h[i] = One(t[i], k)
  BY WeightsAre
<1> HIDE DEF f, g, h, q, m, n
<1>6. A \intersect B = {} /\ A \union B = DOMAIN f
  BY <1>1, <1>3
<1>7. SumFunction(f) = SumFunction(fA) + SumFunction(fB)
  <2> HIDE DEF A, B
  <2> QED BY <1>3, <1>6, SumSplit
<1>8. fA = g
  <2>1. \A i \in A : f[i] = g[i]
    BY <1>1, <1>2, <1>3, <1>4
  <2>2. g = [x \in A |-> g[x]]
    BY <1>4 DEF Tally
  <2> QED BY <2>1, <2>2
<1>9. SumFunction(h) = SumFunction(fB)
  <2>1. A \in SUBSET (DOMAIN f) /\ B \in SUBSET (DOMAIN f)
    BY <1>6
  <2>2. Tally(fB)
    <3> HIDE DEF A, B
    <3> QED BY <1>3, <2>1, SumPart
  <2>3. move \in [1..n -> B]
    BY <1>1
  <2>4. \A x, y \in 1..n : move[x] = move[y] => x = y
    BY <1>1
  <2>5. \A y \in B : \E x \in 1..n : move[x] = y
    <3>1. ASSUME NEW y \in B PROVE y - m \in 1..n /\ move[y - m] = y
      BY <1>1
    <3> QED BY <3>1
  <2>6. \A x \in 1..n : h[x] = fB[move[x]]
    <3>1. ASSUME NEW x \in 1..n PROVE h[x] = fB[move[x]]
      <4>1. x + m \in 1..(m + n) /\ ~(x + m <= m) /\ (x + m) - m = x /\ x + m \in B
        BY <1>1
      <4>2. f[x + m] = One(t[x], k)
        BY <1>2, <1>3, <4>1
      <4>3. fB[move[x]] = f[x + m]
        BY <4>1
      <4> QED BY <1>5, <4>2, <4>3
    <3> QED BY <3>1
  <2>7. DOMAIN fB = B
    OBVIOUS
  <2> HIDE DEF fB, move, B
  <2>8. move \in [DOMAIN h -> DOMAIN fB]
    BY <1>5, <2>3, <2>7
  <2>9. \A x, y \in DOMAIN h : move[x] = move[y] => x = y
    BY <1>5, <2>4
  <2>10. \A y \in DOMAIN fB : \E x \in DOMAIN h : move[x] = y
    BY <1>5, <2>5, <2>7
  <2>11. \A x \in DOMAIN h : h[x] = fB[move[x]]
    BY <1>5, <2>6
  <2>12. Tally(h)
    BY <1>5
  <2> QED BY <2>2, <2>8, <2>9, <2>10, <2>11, <2>12, SumBiject
<1> QED BY <1>3, <1>4, <1>5, <1>7, <1>8, <1>9 DEF q

\* A sequence is what comes up to a place, and what comes after it.
LEMMA Cut ==
    ASSUME NEW s \in Seq(Things), NEW m \in 0..Len(s)
    PROVE  /\ SubSeq(s, 1, m) \in Seq(Things) /\ SubSeq(s, m + 1, Len(s)) \in Seq(Things)
           /\ SubSeq(s, 1, m) \o SubSeq(s, m + 1, Len(s)) = s
<1> DEFINE a == SubSeq(s, 1, m)
           z == SubSeq(s, m + 1, Len(s))
<1>1. m \in Nat /\ Len(s) \in Nat /\ m <= Len(s)
  BY SeqIs
<1>2. \A i \in 1..m : s[i] \in Things
  BY <1>1, SeqIs
<1>3. \A i \in (m + 1)..Len(s) : s[i] \in Things
  BY <1>1, SeqIs
<1>4. a \in Seq(Things) /\ Len(a) = m /\ \A i \in 1..m : a[i] = s[i]
  <2>1. a \in Seq(Things) /\ Len(a) = (IF 1 <= m THEN m - 1 + 1 ELSE 0)
        /\ \A i \in 1..(m - 1 + 1) : a[i] = s[1 + i - 1]
    BY <1>1, <1>2, SubSeqProperties
  <2> HIDE DEF a
  <2> QED BY <1>1, <2>1
<1>5. z \in Seq(Things) /\ Len(z) = Len(s) - m /\ \A i \in 1..(Len(s) - m) : z[i] = s[m + i]
  <2>1. z \in Seq(Things) /\ Len(z) = (IF m + 1 <= Len(s) THEN Len(s) - (m + 1) + 1 ELSE 0)
        /\ \A i \in 1..(Len(s) - (m + 1) + 1) : z[i] = s[(m + 1) + i - 1]
    BY <1>1, <1>3, SubSeqProperties
  <2> HIDE DEF z
  <2> QED BY <1>1, <2>1
<1> HIDE DEF a, z
<1>6. /\ a \o z \in Seq(Things) /\ Len(a \o z) = Len(s)
      /\ \A i \in 1..Len(s) : (a \o z)[i] = IF i <= m THEN a[i] ELSE z[i - m]
  <2>1. /\ a \o z \in Seq(Things) /\ Len(a \o z) = Len(a) + Len(z)
        /\ \A i \in 1..(Len(a) + Len(z)) : (a \o z)[i] = IF i <= Len(a) THEN a[i] ELSE z[i - Len(a)]
    BY <1>4, <1>5, ConcatProperties
  <2> QED BY <1>1, <1>4, <1>5, <2>1
<1>7. \A i \in 1..Len(s) : (a \o z)[i] = s[i]
  <2>1. ASSUME NEW i \in 1..Len(s) PROVE (a \o z)[i] = s[i]
    <3>1. CASE i <= m
      BY <1>1, <1>4, <1>6, <3>1
    <3>2. CASE ~(i <= m)
      <4>1. i - m \in 1..(Len(s) - m) /\ m + (i - m) = i
        BY <1>1, <3>2
      <4> QED BY <1>5, <1>6, <3>2, <4>1
    <3> QED BY <3>1, <3>2
  <2> QED BY <2>1
<1>8. a \o z = s
  BY <1>6, <1>7, SeqEqual
<1> QED BY <1>4, <1>5, <1>8 DEF a, z

LEMMA AmountCut ==
    ASSUME NEW s \in Seq(Things), NEW m \in 0..Len(s), NEW k
    PROVE  Amount(SubSeq(s, 1, m), k) + Amount(SubSeq(s, m + 1, Len(s)), k) = Amount(s, k)
<1> DEFINE a == SubSeq(s, 1, m)
           z == SubSeq(s, m + 1, Len(s))
<1>1. a \in Seq(Things) /\ z \in Seq(Things) /\ a \o z = s
  BY Cut
<1> HIDE DEF a, z
<1>2. Amount(a \o z, k) = Amount(a, k) + Amount(z, k)
  BY <1>1, AmountJoin, ZenonT(30)
<1>3. Amount(s, k) = Amount(a, k) + Amount(z, k)
  BY <1>1, <1>2
<1> QED BY <1>3 DEF a, z

\* One thing of it.
LEMMA AmountPart ==
    ASSUME NEW s \in Seq(Things), NEW i \in DOMAIN s, NEW k
    PROVE  /\ Amount(SubSeq(s, i, Len(s)), k)
                = One(s[i], k) + Amount(SubSeq(s, i + 1, Len(s)), k)
           /\ SubSeq(s, i, Len(s)) \in Seq(Things) /\ SubSeq(s, i + 1, Len(s)) \in Seq(Things)
<1> DEFINE z == SubSeq(s, i, Len(s))
           y == SubSeq(s, i + 1, Len(s))
           x == s[i]
           n == Len(s) - i
<1>1. i \in Nat /\ i >= 1 /\ i <= Len(s) /\ Len(s) \in Nat /\ n \in Nat /\ x \in Things
  BY SeqIs
<1>2. \A j \in i..Len(s) : s[j] \in Things
  BY <1>1, SeqIs
<1>3. z \in Seq(Things) /\ Len(z) = n + 1 /\ \A j \in 1..(n + 1) : z[j] = s[i + j - 1]
  <2>1. /\ z \in Seq(Things) /\ Len(z) = IF i <= Len(s) THEN Len(s) - i + 1 ELSE 0
        /\ \A j \in 1..(Len(s) - i + 1) : z[j] = s[i + j - 1]
    BY <1>1, <1>2, SubSeqProperties
  <2> HIDE DEF z
  <2> QED BY <1>1, <2>1
<1>4. \A j \in (i + 1)..Len(s) : s[j] \in Things
  BY <1>1, SeqIs
<1>5. y \in Seq(Things) /\ Len(y) = n /\ \A j \in 1..n : y[j] = s[i + j]
  <2>1. /\ y \in Seq(Things) /\ Len(y) = IF i + 1 <= Len(s) THEN Len(s) - (i + 1) + 1 ELSE 0
        /\ \A j \in 1..(Len(s) - (i + 1) + 1) : y[j] = s[(i + 1) + j - 1]
    BY <1>1, <1>4, SubSeqProperties
  <2> HIDE DEF y
  <2> QED BY <1>1, <2>1
<1>6. x = s[i]
  OBVIOUS
<1> HIDE DEF z, y, x, n
<1> DEFINE w == <<x>> \o y
<1>7. w \in Seq(Things) /\ Len(w) = n + 1 /\ \A j \in 1..(n + 1) : w[j] = IF j <= 1 THEN x ELSE y[j - 1]
  <2>1. <<x>> \in Seq(Things) /\ Len(<<x>>) = 1 /\ <<x>>[1] = x
    BY <1>1
  <2>2. /\ w \in Seq(Things) /\ Len(w) = Len(<<x>>) + Len(y)
        /\ \A j \in 1..(Len(<<x>>) + Len(y)) :
              w[j] = IF j <= Len(<<x>>) THEN <<x>>[j] ELSE y[j - Len(<<x>>)]
    BY <1>5, <2>1, ConcatProperties
  <2> HIDE DEF w
  <2>3. Len(w) = n + 1
    BY <1>1, <1>5, <2>1, <2>2
  <2>4. ASSUME NEW j \in 1..(n + 1) PROVE w[j] = IF j <= 1 THEN x ELSE y[j - 1]
    <3>1. j \in 1..(Len(<<x>>) + Len(y))
      BY <1>1, <1>5, <2>1
    <3>2. w[j] = IF j <= Len(<<x>>) THEN <<x>>[j] ELSE y[j - Len(<<x>>)]
      BY <2>2, <3>1
    <3>3. j <= 1 => j = 1
      BY <1>1
    <3> QED BY <2>1, <3>2, <3>3
  <2> QED BY <2>2, <2>3, <2>4
<1>8. \A j \in 1..(n + 1) : z[j] = w[j]
  <2>1. ASSUME NEW j \in 1..(n + 1) PROVE z[j] = w[j]
    <3>1. CASE j = 1
      <4>1. i + j - 1 = i
        BY <1>1, <3>1
      <4> QED BY <1>3, <1>6, <1>7, <3>1, <4>1
    <3>2. CASE j # 1
      <4>1. j - 1 \in 1..n /\ i + (j - 1) = i + j - 1 /\ ~(j <= 1)
        BY <1>1, <3>2
      <4> QED BY <1>3, <1>5, <1>7, <4>1
    <3> QED BY <3>1, <3>2
  <2> QED BY <2>1
<1>9. z = w
  <2> HIDE DEF w
  <2>1. Len(z) = Len(w) /\ \A j \in 1..Len(z) : z[j] = w[j]
    BY <1>3, <1>7, <1>8
  <2> QED BY <1>3, <1>7, <2>1, SeqEqual
<1>10. <<x>> \in Seq(Things) /\ Amount(<<x>>, k) = One(x, k)
  BY <1>1, AmountOne
<1>11. Amount(z, k) = One(x, k) + Amount(y, k)
  <2> DEFINE v == <<x>>
  <2>1. v \in Seq(Things) /\ Amount(v, k) = One(x, k) /\ z = v \o y
    BY <1>9, <1>10
  <2> HIDE DEF v, w
  <2>2. Amount(v \o y, k) = Amount(v, k) + Amount(y, k)
    BY <1>5, <2>1, AmountJoin
  <2> QED BY <2>1, <2>2
<1> QED BY <1>3, <1>5, <1>11 DEF z, y, x

LEMMA AmountRemove ==
    ASSUME NEW s \in Seq(Things), NEW i \in DOMAIN s, NEW k
    PROVE  /\ Amount(RemoveAt(s, i), k) + One(s[i], k) = Amount(s, k)
           /\ Amount(RemoveAt(s, i), k) \in Nat /\ One(s[i], k) \in Nat /\ Amount(s, k) \in Nat
<1> DEFINE a == SubSeq(s, 1, i - 1)
           z == SubSeq(s, i, Len(s))
           y == SubSeq(s, i + 1, Len(s))
<1>1. i - 1 \in 0..Len(s) /\ (i - 1) + 1 = i /\ s[i] \in Things
  BY SeqIs
<1>2. a \in Seq(Things)
  BY <1>1, Cut
<1>3. Amount(a, k) + Amount(z, k) = Amount(s, k)
  <2>1. Amount(SubSeq(s, 1, i - 1), k) + Amount(SubSeq(s, (i - 1) + 1, Len(s)), k) = Amount(s, k)
    BY <1>1, AmountCut
  <2> QED BY <1>1, <2>1
<1>4. Amount(z, k) = One(s[i], k) + Amount(y, k) /\ y \in Seq(Things) /\ z \in Seq(Things)
  BY AmountPart
<1>5. RemoveAt(s, i) = a \o y
  BY DEF RemoveAt
<1> HIDE DEF a, z, y
<1>6. Amount(a \o y, k) = Amount(a, k) + Amount(y, k)
  BY <1>2, <1>4, AmountJoin
<1>7. Amount(a, k) \in Nat /\ Amount(y, k) \in Nat /\ Amount(s, k) \in Nat
  BY <1>2, <1>4, AmountIs
<1>8. One(s[i], k) \in Nat
  BY <1>1, OneIs
<1>9. Amount(RemoveAt(s, i), k) = Amount(a, k) + Amount(y, k)
  BY <1>5, <1>6
<1> QED BY <1>3, <1>4, <1>7, <1>8, <1>9

LEMMA AmountInsert ==
    ASSUME NEW s \in Seq(Things), NEW i \in 1..(Len(s) + 1), NEW x \in Things, NEW k
    PROVE  /\ Amount(InsertAt(s, i, x), k) = Amount(s, k) + One(x, k)
           /\ Amount(s, k) \in Nat /\ One(x, k) \in Nat
<1> DEFINE a == SubSeq(s, 1, i - 1)
           z == SubSeq(s, i, Len(s))
           v == <<x>>
<1>1. i - 1 \in 0..Len(s) /\ (i - 1) + 1 = i
  BY SeqIs
<1>2. a \in Seq(Things) /\ z \in Seq(Things)
  <2>1. SubSeq(s, 1, i - 1) \in Seq(Things) /\ SubSeq(s, (i - 1) + 1, Len(s)) \in Seq(Things)
    BY <1>1, Cut
  <2> QED BY <1>1, <2>1
<1>3. Amount(a, k) + Amount(z, k) = Amount(s, k)
  <2>1. Amount(SubSeq(s, 1, i - 1), k) + Amount(SubSeq(s, (i - 1) + 1, Len(s)), k) = Amount(s, k)
    BY <1>1, AmountCut
  <2> QED BY <1>1, <2>1
<1>4. v \in Seq(Things) /\ Amount(v, k) = One(x, k)
  BY AmountOne
<1>5. InsertAt(s, i, x) = a \o v \o z
  BY DEF InsertAt
<1> HIDE DEF a, z, v
<1>6. a \o v \in Seq(Things)
  BY <1>2, <1>4, JoinIs
<1>7. Amount(a \o v, k) = Amount(a, k) + Amount(v, k)
  BY <1>2, <1>4, AmountJoin
<1>8. Amount(a \o v \o z, k) = Amount(a \o v, k) + Amount(z, k)
  BY <1>2, <1>6, AmountJoin
<1>9. Amount(a, k) \in Nat /\ Amount(z, k) \in Nat /\ Amount(s, k) \in Nat
  BY <1>2, AmountIs
<1>10. One(x, k) \in Nat
  BY OneIs
<1> QED BY <1>3, <1>4, <1>5, <1>7, <1>8, <1>9, <1>10

LEMMA AmountSet ==
    ASSUME NEW s \in Seq(Things), NEW i \in DOMAIN s, NEW x \in Things, NEW k
    PROVE  /\ [s EXCEPT ![i] = x] \in Seq(Things)
           /\ Amount([s EXCEPT ![i] = x], k) + One(s[i], k) = Amount(s, k) + One(x, k)
           /\ Amount([s EXCEPT ![i] = x], k) \in Nat /\ Amount(s, k) \in Nat
           /\ One(s[i], k) \in Nat /\ One(x, k) \in Nat
<1> DEFINE t == [s EXCEPT ![i] = x]
           f == Weights(s, k)
           g == Weights(t, k)
<1>1. DOMAIN s = 1..Len(s) /\ i \in 1..Len(s) /\ s[i] \in Things
  BY SeqIs
<1>2. t \in Seq(Things) /\ Len(t) = Len(s) /\ t[i] = x /\ \A j \in 1..Len(s) : j # i => t[j] = s[j]
  BY <1>1
<1> HIDE DEF t
<1>3. /\ Amount(s, k) = SumFunction(f) /\ Tally(f) /\ DOMAIN f = 1..Len(s)
      /\ \A j \in 1..Len(s) : f[j] = One(s[j], k)
  BY WeightsAre
<1>4. /\ Amount(t, k) = SumFunction(g) /\ Tally(g) /\ DOMAIN g = 1..Len(t)
      /\ \A j \in 1..Len(t) : g[j] = One(t[j], k)
  BY <1>2, WeightsAre
<1> HIDE DEF f, g
<1>5. /\ DOMAIN g = DOMAIN f /\ i \in DOMAIN f
      /\ \A j \in DOMAIN f \ {i} : f[j] = g[j]
  BY <1>1, <1>2, <1>3, <1>4
<1>6. SumFunction(f) + g[i] = SumFunction(g) + f[i]
  BY <1>3, <1>4, <1>5, SumPoint
<1>7. g[i] = One(x, k) /\ f[i] = One(s[i], k)
  BY <1>1, <1>2, <1>3, <1>4
<1>8. Amount(s, k) \in Nat /\ Amount(t, k) \in Nat
  BY <1>2, AmountIs
<1>9. One(x, k) \in Nat /\ One(s[i], k) \in Nat
  BY <1>1, OneIs
<1>10. Amount(t, k) + One(s[i], k) = Amount(s, k) + One(x, k)
  BY <1>3, <1>4, <1>6, <1>7, <1>8, <1>9
<1> QED BY <1>2, <1>8, <1>9, <1>10 DEF t

\* The first things of a sequence.
LEMMA AmountFirst ==
    ASSUME NEW s \in Seq(Things), NEW m \in 0..Len(s), NEW k
    PROVE  /\ Amount(SubSeq(s, 1, m), k) <= Amount(s, k)
           /\ Amount(SubSeq(s, 1, m), k) \in Nat /\ Amount(s, k) \in Nat
<1> DEFINE a == SubSeq(s, 1, m)
           z == SubSeq(s, m + 1, Len(s))
<1>1. a \in Seq(Things) /\ z \in Seq(Things) /\ Amount(a, k) + Amount(z, k) = Amount(s, k)
  BY Cut, AmountCut
<1> HIDE DEF a, z
<1>2. Amount(a, k) \in Nat /\ Amount(z, k) \in Nat /\ Amount(s, k) \in Nat
  BY <1>1, AmountIs
<1>3. Amount(a, k) <= Amount(s, k)
  BY <1>1, <1>2
<1> QED BY <1>2, <1>3 DEF a

\* A line holds what its places hold.
Spread(f, k) == [u \in DOMAIN f |-> One(f[u], k)]

LEMMA AmountLine ==
    ASSUME NEW f, IsFiniteSet(DOMAIN f), DOMAIN f \subseteq Nat \X Nat,
           \A u \in DOMAIN f : f[u] \in Things, NEW k
    PROVE  /\ Tally(Spread(f, k)) /\ Amount(Line(f), k) = SumFunction(Spread(f, k))
           /\ Line(f) \in Seq(Things)
<1> DEFINE S == DOMAIN f
           n == Cardinality(S)
           h == InOrder(S)
           q == Line(f)
           w == Weights(q, k)
           g == Spread(f, k)
<1>1. /\ h \in [1..n -> S]
      /\ \A x, y \in 1..n : h[x] = h[y] => x = y
      /\ \A u \in S : \E x \in 1..n : h[x] = u
  BY InOrderIs
<1>2. q \in Seq(Things)
  BY LineIs
<1>3. q = [x \in 1..n |-> f[h[x]]]
  BY DEF Line
<1>4. Tally(g) /\ DOMAIN g = S /\ \A u \in S : g[u] = One(f[u], k)
  BY OneIs DEF Spread, Tally
<1> HIDE DEF q, h, g, S, n
<1>5. DOMAIN q = 1..n /\ \A x \in 1..n : q[x] = f[h[x]]
  BY <1>3
<1>6. /\ Amount(q, k) = SumFunction(w) /\ Tally(w) /\ DOMAIN w = DOMAIN q
      /\ \A x \in DOMAIN q : w[x] = One(q[x], k)
  BY <1>2, WeightsAre, SeqIs
<1> HIDE DEF w
<1>7. h \in [DOMAIN w -> DOMAIN g]
  BY <1>1, <1>4, <1>5, <1>6
<1>8. \A x, y \in DOMAIN w : h[x] = h[y] => x = y
  BY <1>1, <1>5, <1>6
<1>9. \A u \in DOMAIN g : \E x \in DOMAIN w : h[x] = u
  BY <1>1, <1>4, <1>5, <1>6
<1>10. \A x \in DOMAIN w : w[x] = g[h[x]]
  BY <1>1, <1>4, <1>5, <1>6
<1>11. SumFunction(w) = SumFunction(g)
  BY <1>4, <1>6, <1>7, <1>8, <1>9, <1>10, SumBiject
<1> QED BY <1>2, <1>4, <1>6, <1>11 DEF q, g

(***************************************************************************)
(* Stacks on the ground.                                                   *)
(***************************************************************************)
TakenOff(st, i, n) == [st.stack[i] EXCEPT !.count = Taken(st, i, n)]

LEMMA OneOf ==
    ASSUME NEW x, NEW n \in Nat, NEW k
    PROVE  One([kind |-> x, count |-> n], k) = IF x = k THEN n ELSE 0
BY DEF One

LEMMA AmountTake ==
    ASSUME NEW st \in Piles, NEW i \in DOMAIN st.stack, NEW n \in Nat, NEW k
    PROVE  /\ Amount(Take(st, i, n).stack, k) + One(TakenOff(st, i, n), k) = Amount(st.stack, k)
           /\ Take(st, i, n) \in Piles /\ TakenOff(st, i, n) \in Things
           /\ Amount(Take(st, i, n).stack, k) \in Nat /\ One(TakenOff(st, i, n), k) \in Nat
           /\ Amount(st.stack, k) \in Nat
<1> DEFINE s == st.stack
           m == Taken(st, i, n)
           y == TakenOff(st, i, n)
           q == Take(st, i, n).stack
           z == [kind |-> s[i].kind, count |-> s[i].count - m]
<1>1. s \in Seq(Things) /\ s[i] \in Things /\ Take(st, i, n) \in Piles /\ q \in Seq(Things)
  BY PileIs, SeqIs, TakeIs
<1>2. /\ m \in 1..Cap /\ m <= s[i].count /\ y = [kind |-> s[i].kind, count |-> m] /\ y \in Things
  BY TakenIs DEF TakenOff
<1>3. \/ s[i].count > m /\ q = [s EXCEPT ![i] = z] /\ z \in Things
      \/ s[i].count = m /\ q = RemoveAt(s, i)
  BY TakeIs
<1>4. s[i] = [kind |-> s[i].kind, count |-> s[i].count] /\ s[i].count \in Nat /\ m \in Nat
  BY <1>1, <1>2, ThingIs
<1>5. One(y, k) \in Nat /\ One(s[i], k) \in Nat
  BY <1>1, <1>2, OneIs
<1>6. One(y, k) = (IF s[i].kind = k THEN m ELSE 0) /\ One(s[i], k) = IF s[i].kind = k THEN s[i].count ELSE 0
  BY <1>2, <1>4, OneOf DEF One
<1>7. Amount(s, k) \in Nat /\ Amount(q, k) \in Nat
  BY <1>1, AmountIs
<1>8. Amount(q, k) + One(y, k) = Amount(s, k)
  <2>1. CASE s[i].count > m /\ q = [s EXCEPT ![i] = z] /\ z \in Things
    <3>1. s[i].count - m \in Nat
      BY <1>4, <2>1
    <3>2. One(z, k) = IF s[i].kind = k THEN s[i].count - m ELSE 0
      BY <3>1, OneOf
    <3>3. One(z, k) + One(y, k) = One(s[i], k) /\ One(z, k) \in Nat
      BY <1>4, <1>6, <3>1, <3>2
    <3>4. Amount([s EXCEPT ![i] = z], k) + One(s[i], k) = Amount(s, k) + One(z, k)
      <4> HIDE DEF s, z
      <4> QED BY <1>1, <2>1, AmountSet DEF s
    <3> HIDE DEF s, m, y, q, z
    <3> QED BY <1>5, <1>7, <2>1, <3>3, <3>4
  <2>2. CASE s[i].count = m /\ q = RemoveAt(s, i)
    <3>1. Amount(RemoveAt(s, i), k) + One(s[i], k) = Amount(s, k)
      BY <1>1, AmountRemove
    <3>2. One(y, k) = One(s[i], k)
      BY <1>6, <2>2
    <3> QED BY <2>2, <3>1, <3>2
  <2> QED BY <1>3, <2>1, <2>2
<1> QED BY <1>1, <1>2, <1>5, <1>7, <1>8

LEMMA AmountInserted ==
    ASSUME NEW st \in Piles, Sound(st), NEW x \in Things, NEW k
    PROVE  /\ Amount(Insert(st, x).stack, k) = Amount(st.stack, k) + One(x, k)
           /\ Insert(st, x) \in Piles
           /\ Amount(st.stack, k) \in Nat /\ One(x, k) \in Nat
<1>1. st.stack \in Seq(Things) /\ st.pre + 1 \in 1..(Len(st.stack) + 1)
  <2>1. st.stack \in Seq(Things) /\ st.pre \in Nat
    BY PileIs
  <2>2. Len(st.stack) \in Nat
    BY <2>1, SeqIs
  <2> QED BY <2>1, <2>2 DEF Sound
<1>2. Insert(st, x) \in Piles /\ Insert(st, x).stack = InsertAt(st.stack, st.pre + 1, x)
  BY InsertedIs
<1> DEFINE s == st.stack
           i == st.pre + 1
<1>3. s \in Seq(Things) /\ i \in 1..(Len(s) + 1) /\ Insert(st, x).stack = InsertAt(s, i, x)
  BY <1>1, <1>2
<1> HIDE DEF s, i
<1>4. /\ Amount(InsertAt(s, i, x), k) = Amount(s, k) + One(x, k)
      /\ Amount(s, k) \in Nat /\ One(x, k) \in Nat
  BY <1>3, AmountInsert
<1> QED BY <1>2, <1>3, <1>4 DEF s

LEMMA AmountPut ==
    ASSUME NEW st \in Piles, Sound(st), NEW x \in Things, NEW k
    PROVE  /\ Amount(Put(st, x).stack, k) = Amount(st.stack, k) + One(x, k)
           /\ Put(st, x) \in Piles
           /\ Amount(st.stack, k) \in Nat /\ One(x, k) \in Nat
<1> DEFINE s == st.stack
           f == st.pre + 1
           total == s[f].count + x.count
           thing(n) == [kind |-> x.kind, count |-> n]
           merged(n) == [s EXCEPT ![f] = thing(n)]
           q == Put(st, x).stack
<1>1. s \in Seq(Things) /\ f \in 1..(Len(s) + 1)
  <2>1. st.stack \in Seq(Things) /\ st.pre \in Nat
    BY PileIs
  <2>2. Len(st.stack) \in Nat
    BY <2>1, SeqIs
  <2> QED BY <2>1, <2>2 DEF Sound
<1>2. /\ Put(st, x) \in Piles
      /\ \/ q = InsertAt(s, f, x)
         \/ /\ f \in DOMAIN s /\ s[f].kind = x.kind /\ total \in 1..Cap
            /\ q = merged(total) /\ thing(total) \in Things
         \/ /\ f \in DOMAIN s /\ s[f].kind = x.kind /\ total - Cap \in 1..Cap
            /\ merged(Cap) \in Seq(Things) /\ Len(merged(Cap)) = Len(s)
            /\ q = InsertAt(merged(Cap), f, thing(total - Cap))
            /\ thing(total - Cap) \in Things /\ thing(Cap) \in Things
  BY PutIs
<1>3. q \in Seq(Things)
  BY <1>2, PileIs
<1>4. Amount(s, k) \in Nat /\ Amount(q, k) \in Nat /\ One(x, k) \in Nat
  BY <1>1, <1>3, AmountIs, OneIs
<1>5. x.count \in Nat /\ Cap \in Nat /\ One(x, k) = (IF x.kind = k THEN x.count ELSE 0)
  BY ThingIs DEF One
<1>6. ASSUME f \in DOMAIN s, s[f].kind = x.kind
      PROVE  /\ s[f].count \in Nat /\ total \in Nat
             /\ One(s[f], k) = (IF x.kind = k THEN s[f].count ELSE 0)
  <2>1. s[f] \in Things
    BY <1>1, <1>6, SeqIs
  <2>2. s[f].count \in Nat
    BY <2>1, ThingIs
  <2> QED BY <1>5, <1>6, <2>2 DEF One
<1>7. \A n \in Nat : One(thing(n), k) = IF x.kind = k THEN n ELSE 0
  BY DEF One
<1>8. ASSUME f \in DOMAIN s, NEW n \in Nat, thing(n) \in Things
      PROVE  Amount(merged(n), k) + One(s[f], k) = Amount(s, k) + One(thing(n), k)
  <2> HIDE DEF s, f, thing
  <2> QED BY <1>1, <1>8, AmountSet
<1>9. CASE q = InsertAt(s, f, x)
  <2>1. Amount(InsertAt(s, f, x), k) = Amount(s, k) + One(x, k)
    <3> HIDE DEF s, f
    <3> QED BY <1>1, AmountInsert
  <2> QED BY <1>2, <1>4, <1>9, <2>1
<1>10. CASE /\ f \in DOMAIN s /\ s[f].kind = x.kind /\ total \in 1..Cap
            /\ q = merged(total) /\ thing(total) \in Things
  <2>1. s[f].count \in Nat /\ total \in Nat /\ One(s[f], k) = (IF x.kind = k THEN s[f].count ELSE 0)
    BY <1>6, <1>10
  <2>2. Amount(merged(total), k) + One(s[f], k) = Amount(s, k) + One(thing(total), k)
    <3> HIDE DEF total, merged, thing
    <3> QED BY <1>8, <1>10, <2>1
  <2>3. One(thing(total), k) = One(s[f], k) + One(x, k)
    <3>1. One(thing(total), k) = IF x.kind = k THEN total ELSE 0
      BY <1>7, <2>1
    <3>2. total = s[f].count + x.count
      OBVIOUS
    <3> HIDE DEF total, thing, s, f
    <3> QED BY <1>5, <2>1, <3>1, <3>2
  <2>4. Amount(q, k) + One(s[f], k) = Amount(s, k) + One(thing(total), k)
    BY <1>10, <2>2
  <2>5. One(s[f], k) \in Nat
    BY <2>1
  <2>6. Amount(q, k) = Amount(s, k) + One(x, k)
    <3> HIDE DEF q, s, f, total, thing
    <3> QED BY <1>4, <2>3, <2>4, <2>5
  <2> QED BY <1>2, <1>4, <2>6
<1>11. CASE /\ f \in DOMAIN s /\ s[f].kind = x.kind /\ total - Cap \in 1..Cap
            /\ merged(Cap) \in Seq(Things) /\ Len(merged(Cap)) = Len(s)
            /\ q = InsertAt(merged(Cap), f, thing(total - Cap))
            /\ thing(total - Cap) \in Things /\ thing(Cap) \in Things
  <2>1. s[f].count \in Nat /\ total \in Nat /\ One(s[f], k) = (IF x.kind = k THEN s[f].count ELSE 0)
    BY <1>6, <1>11
  <2>2. Amount(merged(Cap), k) + One(s[f], k) = Amount(s, k) + One(thing(Cap), k)
    <3> HIDE DEF total, merged, thing
    <3> QED BY <1>5, <1>8, <1>11
  <2> DEFINE t == merged(Cap)
             y == thing(total - Cap)
  <2>3. t \in Seq(Things) /\ f \in 1..(Len(t) + 1) /\ y \in Things /\ q = InsertAt(t, f, y)
    BY <1>1, <1>11
  <2>4. One(thing(Cap), k) = (IF x.kind = k THEN Cap ELSE 0)
    BY <1>5, <1>7
  <2>5. total - Cap \in Nat
    BY <1>11
  <2>6. One(y, k) = (IF x.kind = k THEN total - Cap ELSE 0)
    BY <1>7, <2>5
  <2>7. One(thing(Cap), k) + One(y, k) = One(s[f], k) + One(x, k)
    <3>1. total = s[f].count + x.count
      OBVIOUS
    <3> HIDE DEF total, thing, s, f, y
    <3> QED BY <1>5, <2>1, <2>4, <2>5, <2>6, <3>1
  <2>8. Amount(t, k) + One(s[f], k) = Amount(s, k) + One(thing(Cap), k)
    BY <2>2
  <2>9. One(s[f], k) \in Nat /\ One(y, k) \in Nat /\ One(thing(Cap), k) \in Nat
    BY <1>5, <2>1, <2>4, <2>5, <2>6
  <2> HIDE DEF t, y
  <2>10. Amount(InsertAt(t, f, y), k) = Amount(t, k) + One(y, k) /\ Amount(t, k) \in Nat
    <3> HIDE DEF f
    <3> QED BY <2>3, AmountInsert
  <2>11. Amount(q, k) = Amount(t, k) + One(y, k)
    BY <2>3, <2>10
  <2>12. Amount(q, k) = Amount(s, k) + One(x, k)
    <3> HIDE DEF q, s, f, total, thing
    <3> QED BY <1>4, <2>7, <2>8, <2>9, <2>10, <2>11
  <2> QED BY <1>2, <1>4, <2>12
<1> QED BY <1>2, <1>9, <1>10, <1>11

(***************************************************************************)
(* Boxes.                                                                  *)
(***************************************************************************)
Holds(x, k) == IF x = None THEN 0 ELSE Amount(x.items, k)
Contents(b, k) == [c \in Cid |-> Holds(b[c], k)]

LEMMA HoldsIs ==
    ASSUME NEW x \in OpenBoxes \union {None}, NEW k
    PROVE  /\ Holds(x, k) \in Nat
           /\ x # None => Holds(x, k) = Amount(x.items, k)
           /\ x = None => Holds(x, k) = 0
<1>1. CASE x = None
  BY <1>1 DEF Holds
<1>2. CASE x # None
  <2>1. x.items \in Seq(Things)
    BY <1>2, OpenBoxIs
  <2>2. Amount(x.items, k) \in Nat
    BY <2>1, AmountIs
  <2> QED BY <1>2, <2>2 DEF Holds
<1> QED BY <1>1, <1>2

LEMMA InBoxesIs ==
    ASSUME NEW b \in BoxMaps, NEW k
    PROVE  /\ InBoxes(b, k) = SumFunction(Contents(b, k)) /\ InBoxes(b, k) \in Nat
           /\ Tally(Contents(b, k)) /\ DOMAIN Contents(b, k) = Cid
           /\ \A c \in Cid : Contents(b, k)[c] = Holds(b[c], k) /\ Holds(b[c], k) \in Nat
<1>1. Contents(b, k) = [c \in Cid |-> IF b[c] = None THEN 0 ELSE Amount(b[c].items, k)]
  BY DEF Contents, Holds
<1>2. InBoxes(b, k) = SumFunction(Contents(b, k))
  BY <1>1 DEF InBoxes
<1>3. \A c \in Cid : Contents(b, k)[c] = Holds(b[c], k) /\ Holds(b[c], k) \in Nat
  <2>1. ASSUME NEW c \in Cid PROVE Holds(b[c], k) \in Nat
    <3>1. b[c] \in OpenBoxes \union {None}
      BY DEF BoxMaps
    <3> QED BY <3>1, HoldsIs
  <2> QED BY <2>1 DEF Contents
<1>4. DOMAIN Contents(b, k) = Cid
  BY DEF Contents
<1>5. Tally(Contents(b, k))
  BY <1>3, ItemsAssumption DEF Tally, Contents
<1>6. InBoxes(b, k) \in Nat
  BY <1>2, <1>5, SumIs
<1> QED BY <1>2, <1>3, <1>4, <1>5, <1>6

LEMMA InBoxesSame ==
    ASSUME NEW b \in BoxMaps, NEW e \in BoxMaps, Used(e) = Used(b), SameItems(b, e), NEW k
    PROVE  InBoxes(e, k) = InBoxes(b, k)
<1>1. ASSUME NEW c \in Cid PROVE Holds(e[c], k) = Holds(b[c], k)
  <2>1. CASE c \in Used(b)
    <3>1. e[c] # None /\ b[c] # None /\ e[c].items = b[c].items
      BY <2>1 DEF Used, SameItems
    <3> QED BY <3>1 DEF Holds
  <2>2. CASE c \notin Used(b)
    <3>1. e[c] = None /\ b[c] = None
      BY <2>2 DEF Used
    <3> QED BY <3>1
  <2> QED BY <2>1, <2>2
<1>2. Contents(e, k) = Contents(b, k)
  BY <1>1 DEF Contents
<1> QED BY <1>2, InBoxesIs

\* One box differs.
LEMMA InBoxesAt ==
    ASSUME NEW b \in BoxMaps, NEW e \in BoxMaps, NEW c \in Cid, NEW k,
           \A d \in Cid \ {c} : Holds(e[d], k) = Holds(b[d], k)
    PROVE  /\ InBoxes(e, k) + Holds(b[c], k) = InBoxes(b, k) + Holds(e[c], k)
           /\ InBoxes(e, k) \in Nat /\ InBoxes(b, k) \in Nat
           /\ Holds(b[c], k) \in Nat /\ Holds(e[c], k) \in Nat
<1> DEFINE f == Contents(e, k)
           g == Contents(b, k)
<1>1. /\ InBoxes(e, k) = SumFunction(f) /\ InBoxes(e, k) \in Nat /\ Tally(f) /\ DOMAIN f = Cid
      /\ \A d \in Cid : f[d] = Holds(e[d], k) /\ Holds(e[d], k) \in Nat
  BY InBoxesIs
<1>2. /\ InBoxes(b, k) = SumFunction(g) /\ InBoxes(b, k) \in Nat /\ Tally(g) /\ DOMAIN g = Cid
      /\ \A d \in Cid : g[d] = Holds(b[d], k) /\ Holds(b[d], k) \in Nat
  BY InBoxesIs
<1> HIDE DEF f, g
<1>3. DOMAIN g = DOMAIN f /\ c \in DOMAIN f /\ \A d \in DOMAIN f \ {c} : f[d] = g[d]
  BY <1>1, <1>2
<1>4. SumFunction(f) + g[c] = SumFunction(g) + f[c]
  BY <1>1, <1>2, <1>3, SumPoint
<1> QED BY <1>1, <1>2, <1>4

\* One box is set anew, to what holds no more.
LEMMA InBoxesSet ==
    ASSUME NEW b \in BoxMaps, NEW d \in Cid, NEW x \in OpenBoxes \union {None}, NEW k
    PROVE  /\ [b EXCEPT ![d] = x] \in BoxMaps
           /\ InBoxes([b EXCEPT ![d] = x], k) + Holds(b[d], k) = InBoxes(b, k) + Holds(x, k)
           /\ InBoxes([b EXCEPT ![d] = x], k) \in Nat /\ InBoxes(b, k) \in Nat
           /\ Holds(b[d], k) \in Nat /\ Holds(x, k) \in Nat
<1> DEFINE e == [b EXCEPT ![d] = x]
<1>1. e \in BoxMaps /\ e[d] = x /\ \A c \in Cid \ {d} : e[c] = b[c]
  BY SetBox
<1> HIDE DEF e
<1>2. /\ InBoxes(e, k) + Holds(b[d], k) = InBoxes(b, k) + Holds(e[d], k)
      /\ InBoxes(e, k) \in Nat /\ InBoxes(b, k) \in Nat
      /\ Holds(b[d], k) \in Nat /\ Holds(e[d], k) \in Nat
  BY <1>1, InBoxesAt
<1> QED BY <1>1, <1>2 DEF e

\* The items of one box differ.
LEMMA InBoxesItems ==
    ASSUME NEW b \in BoxMaps, NEW e \in BoxMaps, Used(e) = Used(b), NEW c \in Used(b), NEW k,
           \A d \in Used(b) \ {c} : e[d].items = b[d].items
    PROVE  /\ InBoxes(e, k) + Amount(b[c].items, k) = InBoxes(b, k) + Amount(e[c].items, k)
           /\ InBoxes(e, k) \in Nat /\ InBoxes(b, k) \in Nat
           /\ Amount(b[c].items, k) \in Nat /\ Amount(e[c].items, k) \in Nat
           /\ b[c].items \in Seq(Things) /\ e[c].items \in Seq(Things)
<1>1. c \in Cid /\ b[c] \in OpenBoxes /\ e[c] \in OpenBoxes /\ b[c] # None /\ e[c] # None
  BY UsedIs DEF Used
<1>2. b[c].items \in Seq(Things) /\ e[c].items \in Seq(Things)
  BY <1>1, OpenBoxIs
<1>3. Holds(b[c], k) = Amount(b[c].items, k) /\ Holds(e[c], k) = Amount(e[c].items, k)
  BY <1>1 DEF Holds
<1>4. ASSUME NEW d \in Cid \ {c} PROVE Holds(e[d], k) = Holds(b[d], k)
  <2>1. CASE d \in Used(b)
    <3>1. e[d] # None /\ b[d] # None /\ e[d].items = b[d].items
      BY <2>1 DEF Used
    <3> QED BY <3>1 DEF Holds
  <2>2. CASE d \notin Used(b)
    <3>1. e[d] = None /\ b[d] = None
      BY <2>2 DEF Used
    <3> QED BY <3>1
  <2> QED BY <2>1, <2>2
<1>5. /\ InBoxes(e, k) + Holds(b[c], k) = InBoxes(b, k) + Holds(e[c], k)
      /\ InBoxes(e, k) \in Nat /\ InBoxes(b, k) \in Nat
      /\ Holds(b[c], k) \in Nat /\ Holds(e[c], k) \in Nat
  BY <1>1, <1>4, InBoxesAt
<1> QED BY <1>2, <1>3, <1>5

\* Pushing adds a thing, unless the box is full or none.
LEMMA InBoxesPush ==
    ASSUME NEW b \in BoxMaps, NEW c \in Cid, NEW x \in Things, NEW k
    PROVE  /\ Push(b, c, x) \in BoxMaps
           /\ InBoxes(Push(b, c, x), k) <= InBoxes(b, k) + One(x, k)
           /\ c \in Used(b) /\ ~Full(b, c) => InBoxes(Push(b, c, x), k) = InBoxes(b, k) + One(x, k)
           /\ InBoxes(Push(b, c, x), k) \in Nat /\ InBoxes(b, k) \in Nat /\ One(x, k) \in Nat
<1> DEFINE e == Push(b, c, x)
<1>1. /\ e \in BoxMaps /\ Used(e) = Used(b)
      /\ \A d \in Used(b) : e[d].items = IF d = c /\ ~Full(b, c) THEN <<x>> \o b[d].items
                                         ELSE b[d].items
  BY PushIs
<1>2. One(x, k) \in Nat
  BY OneIs
<1> HIDE DEF e
<1>3. InBoxes(e, k) \in Nat /\ InBoxes(b, k) \in Nat
  BY <1>1, InBoxesIs
<1>4. CASE c \in Used(b) /\ ~Full(b, c)
  <2>1. e[c].items = <<x>> \o b[c].items /\ \A d \in Used(b) \ {c} : e[d].items = b[d].items
    BY <1>1, <1>4
  <2>2. /\ InBoxes(e, k) + Amount(b[c].items, k) = InBoxes(b, k) + Amount(e[c].items, k)
        /\ Amount(b[c].items, k) \in Nat /\ Amount(e[c].items, k) \in Nat
        /\ b[c].items \in Seq(Things)
    BY <1>1, <1>4, <2>1, InBoxesItems
  <2>3. Amount(e[c].items, k) = One(x, k) + Amount(b[c].items, k)
    <3> DEFINE v == <<x>>
               s == b[c].items
    <3>1. v \in Seq(Things) /\ Amount(v, k) = One(x, k) /\ e[c].items = v \o s /\ s \in Seq(Things)
      BY <2>1, <2>2, AmountOne
    <3> HIDE DEF v, s
    <3>2. Amount(v \o s, k) = Amount(v, k) + Amount(s, k)
      BY <3>1, AmountJoin
    <3>3. Amount(e[c].items, k) = One(x, k) + Amount(s, k)
      BY <3>1, <3>2
    <3> QED BY <3>3 DEF s
  <2>4. InBoxes(e, k) = InBoxes(b, k) + One(x, k)
    BY <1>2, <1>3, <2>2, <2>3
  <2> QED BY <1>1, <1>2, <1>3, <2>4 DEF e
<1>5. CASE ~(c \in Used(b) /\ ~Full(b, c))
  <2>1. SameItems(b, e)
    BY <1>1, <1>5 DEF SameItems
  <2>2. InBoxes(e, k) = InBoxes(b, k)
    BY <1>1, <2>1, InBoxesSame
  <2>3. InBoxes(e, k) <= InBoxes(b, k) + One(x, k)
    BY <1>2, <1>3, <2>2
  <2> QED BY <1>1, <1>2, <1>3, <1>5, <2>3 DEF e
<1> QED BY <1>4, <1>5

LEMMA InBoxesPop ==
    ASSUME NEW b \in BoxMaps, NEW c \in Used(b), NEW i \in DOMAIN b[c].items, NEW k
    PROVE  /\ Pop(b, c, i) \in BoxMaps /\ Popped(b, c, i) \in BoxMaps
           /\ InBoxes(Pop(b, c, i), k) + One(b[c].items[i], k) = InBoxes(b, k)
           /\ InBoxes(Popped(b, c, i), k) + One(b[c].items[i], k) = InBoxes(b, k)
           /\ InBoxes(Pop(b, c, i), k) \in Nat /\ InBoxes(Popped(b, c, i), k) \in Nat
           /\ InBoxes(b, k) \in Nat /\ One(b[c].items[i], k) \in Nat
<1> DEFINE s == b[c].items
           x == s[i]
<1>1. s \in Seq(Things) /\ i \in DOMAIN s
  <2>1. b[c] \in OpenBoxes
    BY UsedIs
  <2> QED BY <2>1, OpenBoxIs
<1>2. /\ Amount(RemoveAt(s, i), k) + One(x, k) = Amount(s, k)
      /\ Amount(RemoveAt(s, i), k) \in Nat /\ One(x, k) \in Nat /\ Amount(s, k) \in Nat
  BY <1>1, AmountRemove
<1>3. ASSUME NEW e \in BoxMaps, Used(e) = Used(b), e[c].items = RemoveAt(s, i),
             \A d \in Used(b) \ {c} : e[d].items = b[d].items
      PROVE  InBoxes(e, k) + One(x, k) = InBoxes(b, k) /\ InBoxes(e, k) \in Nat /\ InBoxes(b, k) \in Nat
  <2>1. /\ InBoxes(e, k) + Amount(s, k) = InBoxes(b, k) + Amount(e[c].items, k)
        /\ InBoxes(e, k) \in Nat /\ InBoxes(b, k) \in Nat
    BY <1>3, InBoxesItems
  <2>2. Amount(e[c].items, k) = Amount(RemoveAt(s, i), k)
    BY <1>3
  <2> DEFINE r == Amount(RemoveAt(s, i), k)
             y == One(x, k)
             w == Amount(s, k)
  <2>3. r + y = w /\ r \in Nat /\ y \in Nat /\ w \in Nat
    BY <1>2
  <2>4. InBoxes(e, k) + w = InBoxes(b, k) + r /\ InBoxes(e, k) \in Nat /\ InBoxes(b, k) \in Nat
    BY <2>1, <2>2
  <2> HIDE DEF s, x, r, y, w
  <2>5. InBoxes(e, k) + y = InBoxes(b, k) /\ InBoxes(e, k) \in Nat /\ InBoxes(b, k) \in Nat
    BY <2>3, <2>4
  <2> QED BY <2>5 DEF y
<1>4. /\ Pop(b, c, i) \in BoxMaps
      /\ InBoxes(Pop(b, c, i), k) + One(x, k) = InBoxes(b, k)
      /\ InBoxes(Pop(b, c, i), k) \in Nat /\ InBoxes(b, k) \in Nat
  <2> DEFINE e == Pop(b, c, i)
  <2>1. /\ e \in BoxMaps /\ Used(e) = Used(b) /\ \A d \in Cid \ {c} : e[d] = b[d]
        /\ e[c] = [items |-> RemoveAt(s, i), source |-> b[c].source,
                   open |-> b[c].open, capacity |-> b[c].capacity]
    BY PopIs
  <2>2. Used(b) \subseteq Cid
    BY DEF Used
  <2> HIDE DEF e, s, x
  <2>3. e[c].items = RemoveAt(s, i) /\ \A d \in Used(b) \ {c} : e[d].items = b[d].items
    BY <2>1, <2>2
  <2>4. InBoxes(e, k) + One(x, k) = InBoxes(b, k) /\ InBoxes(e, k) \in Nat /\ InBoxes(b, k) \in Nat
    BY <1>3, <2>1, <2>3
  <2> QED BY <2>1, <2>4 DEF e
<1>5. /\ Popped(b, c, i) \in BoxMaps
      /\ InBoxes(Popped(b, c, i), k) + One(x, k) = InBoxes(b, k)
      /\ InBoxes(Popped(b, c, i), k) \in Nat
  <2> DEFINE e == Popped(b, c, i)
  <2>1. Sits(b, e) /\ \A d \in Used(b) : e[d].items = IF d = c THEN RemoveAt(s, i) ELSE b[d].items
    BY PoppedIs
  <2> HIDE DEF e, s, x
  <2>2. e \in BoxMaps /\ Used(e) = Used(b)
    BY <2>1 DEF Sits
  <2>3. e[c].items = RemoveAt(s, i) /\ \A d \in Used(b) \ {c} : e[d].items = b[d].items
    BY <2>1
  <2>4. InBoxes(e, k) + One(x, k) = InBoxes(b, k) /\ InBoxes(e, k) \in Nat
    BY <1>3, <2>2, <2>3
  <2> QED BY <2>2, <2>4 DEF e
<1> QED BY <1>2, <1>4, <1>5

\* Setting a box up from nothing gives nothing, and takes only where none is unused.
LEMMA InBoxesDestination ==
    ASSUME NEW b \in BoxMaps, NEW c \in Cid, NEW i, NEW k
    PROVE  LET r == Destination(b, c, i)
           IN  /\ r.boxes \in BoxMaps /\ r.cid \in Cid
               /\ InBoxes(r.boxes, k) <= InBoxes(b, k)
               /\ Used(b) \subseteq Used(r.boxes)
               /\ Used(b) # Cid \/ r.boxes = b =>
                    /\ InBoxes(r.boxes, k) = InBoxes(b, k)
                    /\ c \in Used(b) => r.cid \in Used(r.boxes)
                    /\ \A d \in Used(b) : r.boxes[d] = b[d]
               /\ InBoxes(r.boxes, k) \in Nat /\ InBoxes(b, k) \in Nat
<1> DEFINE r == Destination(b, c, i)
<1>1. r.boxes \in BoxMaps /\ r.cid \in Cid /\ Destined(b, c, r)
  BY DestinationIs
<1> HIDE DEF r
<1>2. InBoxes(r.boxes, k) \in Nat /\ InBoxes(b, k) \in Nat
  BY <1>1, InBoxesIs
<1>3. CASE r.boxes = b /\ r.cid \in {c} \union Used(b)
  <2>1. InBoxes(r.boxes, k) <= InBoxes(b, k)
    BY <1>2, <1>3
  <2> QED BY <1>1, <1>2, <1>3, <2>1 DEF r
<1>4. CASE \E d \in Free(b), x \in OpenBoxes :
              /\ r.cid = d /\ r.boxes = [b EXCEPT ![d] = x] /\ x.items = <<>> /\ x.open = FALSE
  <2>1. PICK d \in Free(b), x \in OpenBoxes :
              r.cid = d /\ r.boxes = [b EXCEPT ![d] = x] /\ x.items = <<>>
    BY <1>4
  <2>2. d \in Cid /\ (d \in Used(b) => Used(b) = Cid)
    BY FreeIs
  <2>3. x \in OpenBoxes \union {None} /\ x # None
    BY Apart
  <2>4. Holds(x, k) = 0
    BY <2>1, <2>3, AmountNone DEF Holds
  <2> DEFINE e == [b EXCEPT ![d] = x]
  <2>5. e \in BoxMaps /\ e[d] = x /\ \A g \in Cid \ {d} : e[g] = b[g]
    BY <2>2, <2>3, SetBox
  <2>6. /\ InBoxes(e, k) + Holds(b[d], k) = InBoxes(b, k) + Holds(x, k)
        /\ InBoxes(e, k) \in Nat /\ Holds(b[d], k) \in Nat
    BY <2>2, <2>3, InBoxesSet
  <2>7. r.boxes = e
    BY <2>1
  <2> HIDE DEF e
  <2>8. Used(b) \subseteq Used(e) /\ d \in Used(e)
    BY <2>2, <2>3, <2>5 DEF Used
  <2>9. InBoxes(e, k) <= InBoxes(b, k)
    BY <1>2, <2>4, <2>6
  <2>10. Used(b) # Cid => InBoxes(e, k) = InBoxes(b, k) /\ \A g \in Used(b) : e[g] = b[g]
    <3>1. SUFFICES ASSUME Used(b) # Cid
                   PROVE  InBoxes(e, k) = InBoxes(b, k) /\ \A g \in Used(b) : e[g] = b[g]
      OBVIOUS
    <3>2. d \notin Used(b)
      BY <2>2, <3>1
    <3>3. b[d] = None
      BY <2>2, <3>2 DEF Used
    <3>4. Holds(b[d], k) = 0
      BY <3>3 DEF Holds
    <3>5. InBoxes(e, k) = InBoxes(b, k)
      BY <1>2, <2>4, <2>6, <3>4
    <3>6. \A g \in Used(b) : e[g] = b[g]
      BY <2>5, <3>2 DEF Used
    <3> QED BY <3>5, <3>6
  <2>11. r.boxes = b => InBoxes(e, k) = InBoxes(b, k) /\ \A g \in Used(b) : e[g] = b[g]
    BY <2>7
  <2> QED BY <1>1, <1>2, <2>1, <2>7, <2>8, <2>9, <2>10, <2>11 DEF r
<1> QED BY <1>1, <1>3, <1>4 DEF Destined

(***************************************************************************)
(* What is worn.                                                           *)
(***************************************************************************)
Bears(x, k) == IF x = None \/ x.kind # k THEN 0 ELSE x.count
Outfit(worn, k) == [s \in Slot |-> Bears(worn[s], k)]

LEMMA BearsIs ==
    ASSUME NEW x \in Things \union {None}, NEW k
    PROVE  /\ Bears(x, k) \in Nat
           /\ x = None => Bears(x, k) = 0
           /\ x # None => Bears(x, k) = One(x, k) /\ x \in Things
<1>1. CASE x = None
  BY <1>1 DEF Bears
<1>2. CASE x # None
  <2>1. x \in Things
    BY <1>2
  <2>2. One(x, k) \in Nat
    BY <2>1, OneIs
  <2>3. Bears(x, k) = One(x, k)
    BY <1>2 DEF Bears, One
  <2> QED BY <1>2, <2>1, <2>2, <2>3
<1> QED BY <1>1, <1>2

LEMMA InSlotsIs ==
    ASSUME NEW worn \in Wear, NEW k
    PROVE  /\ InSlots(worn, k) = SumFunction(Outfit(worn, k)) /\ InSlots(worn, k) \in Nat
           /\ Tally(Outfit(worn, k)) /\ DOMAIN Outfit(worn, k) = Slot
           /\ \A s \in Slot : Outfit(worn, k)[s] = Bears(worn[s], k) /\ Bears(worn[s], k) \in Nat
<1>1. Outfit(worn, k) = [s \in Slot |-> IF worn[s] = None \/ worn[s].kind # k THEN 0 ELSE worn[s].count]
  BY DEF Outfit, Bears
<1>2. InSlots(worn, k) = SumFunction(Outfit(worn, k))
  BY <1>1 DEF InSlots
<1>3. \A s \in Slot : Outfit(worn, k)[s] = Bears(worn[s], k) /\ Bears(worn[s], k) \in Nat
  <2>1. ASSUME NEW s \in Slot PROVE Bears(worn[s], k) \in Nat
    <3>1. worn[s] \in Things \union {None}
      BY DEF Wear
    <3> QED BY <3>1, BearsIs
  <2> QED BY <2>1 DEF Outfit
<1>4. DOMAIN Outfit(worn, k) = Slot
  BY DEF Outfit
<1>5. Tally(Outfit(worn, k))
  BY <1>3, ItemsAssumption DEF Tally, Outfit
<1>6. InSlots(worn, k) \in Nat
  BY <1>2, <1>5, SumIs
<1> QED BY <1>2, <1>3, <1>4, <1>5, <1>6

\* One slot is set anew.
LEMMA InSlotsSet ==
    ASSUME NEW worn \in Wear, NEW s \in Slot, NEW x \in Things \union {None}, NEW k
    PROVE  /\ [worn EXCEPT ![s] = x] \in Wear
           /\ InSlots([worn EXCEPT ![s] = x], k) + Bears(worn[s], k) = InSlots(worn, k) + Bears(x, k)
           /\ InSlots([worn EXCEPT ![s] = x], k) \in Nat /\ InSlots(worn, k) \in Nat
           /\ Bears(worn[s], k) \in Nat /\ Bears(x, k) \in Nat
<1> DEFINE e == [worn EXCEPT ![s] = x]
           f == Outfit(e, k)
           g == Outfit(worn, k)
<1>1. e \in Wear /\ e[s] = x /\ \A d \in Slot \ {s} : e[d] = worn[d]
  BY DEF Wear
<1> HIDE DEF e
<1>2. /\ InSlots(e, k) = SumFunction(f) /\ InSlots(e, k) \in Nat /\ Tally(f) /\ DOMAIN f = Slot
      /\ \A d \in Slot : f[d] = Bears(e[d], k) /\ Bears(e[d], k) \in Nat
  BY <1>1, InSlotsIs
<1>3. /\ InSlots(worn, k) = SumFunction(g) /\ InSlots(worn, k) \in Nat /\ Tally(g) /\ DOMAIN g = Slot
      /\ \A d \in Slot : g[d] = Bears(worn[d], k) /\ Bears(worn[d], k) \in Nat
  BY InSlotsIs
<1> HIDE DEF f, g
<1>4. DOMAIN g = DOMAIN f /\ s \in DOMAIN f /\ \A d \in DOMAIN f \ {s} : f[d] = g[d]
  BY <1>1, <1>2, <1>3
<1>5. SumFunction(f) + g[s] = SumFunction(g) + f[s]
  BY <1>2, <1>3, <1>4, SumPoint
<1>6. Bears(e[s], k) = Bears(x, k)
  BY <1>1
<1>7. InSlots(e, k) + Bears(worn[s], k) = InSlots(worn, k) + Bears(x, k)
  BY <1>2, <1>3, <1>5, <1>6
<1>8. Bears(worn[s], k) \in Nat /\ Bears(x, k) \in Nat
  BY <1>2, <1>3, <1>6
<1> QED BY <1>1, <1>2, <1>3, <1>7, <1>8 DEF e

LEMMA InSlotsSwap ==
    ASSUME NEW worn \in Wear, NEW s \in Slot, NEW d \in Slot, s # d, NEW k
    PROVE  InSlots([worn EXCEPT ![s] = worn[d], ![d] = worn[s]], k) = InSlots(worn, k)
<1> DEFINE x == worn[s]
           y == worn[d]
           e == [worn EXCEPT ![s] = y]
           f == [e EXCEPT ![d] = x]
<1>1. x \in Things \union {None} /\ y \in Things \union {None}
  BY DEF Wear
<1>2. /\ e \in Wear /\ InSlots(e, k) + Bears(x, k) = InSlots(worn, k) + Bears(y, k)
      /\ InSlots(e, k) \in Nat /\ InSlots(worn, k) \in Nat /\ Bears(x, k) \in Nat /\ Bears(y, k) \in Nat
  <2> DEFINE z == y
  <2>1. z \in Things \union {None}
    BY <1>1
  <2> HIDE DEF z
  <2>2. /\ [worn EXCEPT ![s] = z] \in Wear
        /\ InSlots([worn EXCEPT ![s] = z], k) + Bears(worn[s], k) = InSlots(worn, k) + Bears(z, k)
        /\ InSlots([worn EXCEPT ![s] = z], k) \in Nat /\ InSlots(worn, k) \in Nat
        /\ Bears(worn[s], k) \in Nat /\ Bears(z, k) \in Nat
    BY <2>1, InSlotsSet
  <2> QED BY <2>2 DEF z
<1>3. e[d] = y
  BY DEF Wear
<1>4. [worn EXCEPT ![s] = worn[d], ![d] = worn[s]] = f
  OBVIOUS
<1> HIDE DEF e, x, y
<1>5. InSlots(f, k) + Bears(y, k) = InSlots(e, k) + Bears(x, k) /\ InSlots(f, k) \in Nat
  <2>1. /\ InSlots([e EXCEPT ![d] = x], k) + Bears(e[d], k) = InSlots(e, k) + Bears(x, k)
        /\ InSlots([e EXCEPT ![d] = x], k) \in Nat
    BY <1>1, <1>2, InSlotsSet
  <2> QED BY <1>3, <2>1
<1> HIDE DEF f
<1>6. InSlots(f, k) = InSlots(worn, k)
  BY <1>2, <1>5
<1> QED BY <1>4, <1>6

(***************************************************************************)
(* What is saved of the boxes, and what comes back.                        *)
(***************************************************************************)
Packed(rows, k) == [s \in Slot |-> Amount(rows[s], k)]

LEMMA InRowsIs ==
    ASSUME NEW rows \in [Slot -> Seq(Things)], NEW k
    PROVE  /\ InRows(rows, k) = SumFunction(Packed(rows, k)) /\ InRows(rows, k) \in Nat
           /\ Tally(Packed(rows, k)) /\ DOMAIN Packed(rows, k) = Slot
           /\ \A s \in Slot : Packed(rows, k)[s] = Amount(rows[s], k) /\ Amount(rows[s], k) \in Nat
<1>1. InRows(rows, k) = SumFunction(Packed(rows, k))
  BY DEF InRows, Packed
<1>2. \A s \in Slot : Packed(rows, k)[s] = Amount(rows[s], k) /\ Amount(rows[s], k) \in Nat
  BY AmountIs DEF Packed
<1>3. DOMAIN Packed(rows, k) = Slot
  BY DEF Packed
<1>4. Tally(Packed(rows, k))
  BY <1>2, ItemsAssumption DEF Tally, Packed
<1>5. InRows(rows, k) \in Nat
  BY <1>1, <1>4, SumIs
<1> QED BY <1>1, <1>2, <1>3, <1>4, <1>5

LEMMA SumZero ==
    ASSUME NEW f, Tally(f), \A x \in DOMAIN f : f[x] = 0
    PROVE  SumFunction(f) = 0
<1>1. Grains(f) = {}
  BY DEF Grains, GrainsOn
<1> QED BY <1>1, SumIs, FS_EmptySet

\* The items of some boxes, each by itself.
Apiece(b, C, k) == [u \in SpotsOf(b, C) |-> One(b[u[2]].items[u[1]], k)]

LEMMA ApieceIs ==
    ASSUME NEW b \in BoxMaps, NEW C, C \subseteq Used(b), NEW k
    PROVE  /\ Tally(Apiece(b, C, k)) /\ DOMAIN Apiece(b, C, k) = SpotsOf(b, C)
           /\ \A u \in SpotsOf(b, C) : /\ Apiece(b, C, k)[u] = One(b[u[2]].items[u[1]], k)
                                       /\ u[2] \in C /\ u[1] \in DOMAIN b[u[2]].items
<1>1. /\ IsFiniteSet(SpotsOf(b, C))
      /\ \A u \in SpotsOf(b, C) : /\ u[2] \in C /\ u[1] \in DOMAIN b[u[2]].items
                                  /\ b[u[2]].items[u[1]] \in Things
  BY PlacesFinite
<1>2. \A u \in SpotsOf(b, C) : One(b[u[2]].items[u[1]], k) \in Nat
  BY <1>1, OneIs
<1> DEFINE S == SpotsOf(b, C)
           v(u) == One(b[u[2]].items[u[1]], k)
<1>3. Apiece(b, C, k) = [u \in S |-> v(u)] /\ IsFiniteSet(S) /\ \A u \in S : v(u) \in Nat
  BY <1>1, <1>2 DEF Apiece
<1>4. \A u \in S : u[2] \in C /\ u[1] \in DOMAIN b[u[2]].items
  BY <1>1
<1> HIDE DEF S
<1>5. DOMAIN Apiece(b, C, k) = S /\ \A u \in S : Apiece(b, C, k)[u] = v(u)
  BY <1>3
<1>6. Apiece(b, C, k) \in [S -> Nat]
  BY <1>3
<1>7. Tally(Apiece(b, C, k))
  BY <1>3, <1>5, <1>6 DEF Tally
<1> QED BY <1>4, <1>5, <1>7 DEF S

LEMMA ApieceOfOne ==
    ASSUME NEW b \in BoxMaps, NEW c \in Used(b), NEW k
    PROVE  SumFunction(Apiece(b, {c}, k)) = Amount(b[c].items, k)
<1> DEFINE s == b[c].items
           w == Weights(s, k)
           g == Apiece(b, {c}, k)
           h == [i \in DOMAIN s |-> <<i, c>>]
<1>1. s \in Seq(Things)
  <2>1. b[c] \in OpenBoxes
    BY UsedIs
  <2> QED BY <2>1, OpenBoxIs
<1>2. /\ Amount(s, k) = SumFunction(w) /\ Tally(w) /\ DOMAIN w = DOMAIN s
      /\ \A i \in DOMAIN s : w[i] = One(s[i], k)
  BY <1>1, WeightsAre, SeqIs
<1>3. /\ Tally(g) /\ DOMAIN g = SpotsOf(b, {c})
      /\ \A u \in SpotsOf(b, {c}) : g[u] = One(b[u[2]].items[u[1]], k)
  <2>1. {c} \subseteq Used(b)
    OBVIOUS
  <2> QED BY <2>1, ApieceIs
<1>4. SpotsOf(b, {c}) = (DOMAIN s) \X {c}
  BY DEF SpotsOf
<1> HIDE DEF w, g
<1>5. \A i \in DOMAIN s : <<i, c>> \in DOMAIN g /\ g[<<i, c>>] = One(s[i], k)
  <2>1. ASSUME NEW i \in DOMAIN s PROVE <<i, c>> \in DOMAIN g /\ g[<<i, c>>] = One(s[i], k)
    <3>1. <<i, c>> \in SpotsOf(b, {c})
      BY <1>4
    <3>2. <<i, c>>[1] = i /\ <<i, c>>[2] = c
      OBVIOUS
    <3>3. g[<<i, c>>] = One(b[<<i, c>>[2]].items[<<i, c>>[1]], k)
      BY <1>3, <3>1
    <3> QED BY <1>3, <3>1, <3>2, <3>3
  <2> QED BY <2>1
<1> HIDE DEF s
<1>6. h \in [DOMAIN w -> DOMAIN g]
  BY <1>2, <1>5
<1>7. \A x, y \in DOMAIN w : h[x] = h[y] => x = y
  BY <1>2
<1>8. \A u \in DOMAIN g : \E x \in DOMAIN w : h[x] = u
  <2>1. ASSUME NEW u \in DOMAIN g PROVE \E x \in DOMAIN w : h[x] = u
    <3>1. u \in (DOMAIN s) \X {c}
      BY <1>3, <1>4
    <3>2. u[1] \in DOMAIN s /\ u = <<u[1], c>>
      BY <3>1
    <3>3. h[u[1]] = u
      BY <3>2
    <3> QED BY <1>2, <3>2, <3>3
  <2> QED BY <2>1
<1>9. \A x \in DOMAIN w : w[x] = g[h[x]]
  BY <1>2, <1>5
<1> HIDE DEF h
<1>10. Tally(w) /\ Tally(g)
  BY <1>2, <1>3
<1>11. SumFunction(w) = SumFunction(g)
  BY <1>6, <1>7, <1>8, <1>9, <1>10, SumBiject
<1> QED BY <1>2, <1>11 DEF g, s

LEMMA InBoxesApiece ==
    ASSUME NEW b \in BoxMaps, NEW k
    PROVE  InBoxes(b, k) = SumFunction(Apiece(b, Used(b), k))
<1> DEFINE f == Apiece(b, Used(b), k)
           g == Contents(b, k)
           S == SpotsOf(b, Used(b))
           h == [u \in S |-> u[2]]
           Fibre(t) == {y \in DOMAIN f : h[y] = t}
<1>1. /\ Tally(f) /\ DOMAIN f = S
      /\ \A u \in S : f[u] = One(b[u[2]].items[u[1]], k) /\ u[2] \in Used(b)
  BY ApieceIs
<1>2. /\ InBoxes(b, k) = SumFunction(g) /\ Tally(g) /\ DOMAIN g = Cid
      /\ \A c \in Cid : g[c] = Holds(b[c], k)
  BY InBoxesIs
<1>3. Used(b) \subseteq Cid
  BY DEF Used
<1>4. \A u : u \in S <=> u = <<u[1], u[2]>> /\ u[2] \in Used(b) /\ u[1] \in DOMAIN b[u[2]].items
  BY DEF SpotsOf
<1> HIDE DEF f, g, S
<1>5. h \in [DOMAIN f -> DOMAIN g]
  BY <1>1, <1>2, <1>3
<1>6. ASSUME NEW t \in DOMAIN g PROVE g[t] = SumFunction([x \in Fibre(t) |-> f[x]])
  <2> DEFINE e == [x \in Fibre(t) |-> f[x]]
  <2>1. Fibre(t) \in SUBSET (DOMAIN f)
    OBVIOUS
  <2>2. Tally(e)
    <3> HIDE DEF Fibre
    <3> QED BY <1>1, <2>1, SumPart
  <2>3. CASE t \in Used(b)
    <3>1. Fibre(t) = SpotsOf(b, {t})
      <4>1. ASSUME NEW u PROVE u \in Fibre(t) <=> u \in SpotsOf(b, {t})
        <5>1. u \in SpotsOf(b, {t}) <=> u = <<u[1], u[2]>> /\ u[2] = t /\ u[1] \in DOMAIN b[u[2]].items
          BY DEF SpotsOf
        <5>2. u \in Fibre(t) <=> u \in S /\ u[2] = t
          BY <1>1
        <5> HIDE DEF Fibre
        <5> QED BY <1>4, <2>3, <5>1, <5>2
      <4> QED BY <4>1
    <3>2. e = Apiece(b, {t}, k)
      <4>1. \A x \in Fibre(t) : x \in S
        BY <1>1
      <4>2. e = [x \in SpotsOf(b, {t}) |-> One(b[x[2]].items[x[1]], k)]
        <5> HIDE DEF Fibre
        <5> QED BY <1>1, <3>1, <4>1
      <4> QED BY <4>2 DEF Apiece
    <3>3. SumFunction(e) = Amount(b[t].items, k)
      BY <2>3, <3>2, ApieceOfOne
    <3>4. b[t] # None
      BY <2>3 DEF Used
    <3>5. g[t] = Amount(b[t].items, k)
      BY <1>2, <3>4 DEF Holds
    <3> QED BY <3>3, <3>5
  <2>4. CASE t \notin Used(b)
    <3>1. Fibre(t) = {}
      BY <1>1, <2>4
    <3>2. DOMAIN e = {}
      BY <3>1
    <3>3. SumFunction(e) = 0
      <4> HIDE DEF e
      <4> QED BY <2>2, <3>2, SumEmpty
    <3>4. b[t] = None
      BY <1>2, <2>4 DEF Used
    <3>5. g[t] = 0
      BY <1>2, <3>4 DEF Holds
    <3> QED BY <3>3, <3>5
  <2> QED BY <2>3, <2>4
<1> HIDE DEF h
<1>7. SumFunction(f) = SumFunction(g)
  BY <1>1, <1>2, <1>5, <1>6, SumFibres
<1> QED BY <1>2, <1>7 DEF f

\* A save holds no more than the boxes did: a row is what is in the boxes of a slot.
LEMMA InRowsLess ==
    ASSUME NEW b \in BoxMaps, NEW k
    PROVE  /\ Rows(b) \in [Slot -> Seq(Things)]
           /\ InRows(Rows(b), k) <= InBoxes(b, k)
           /\ InRows(Rows(b), k) \in Nat /\ InBoxes(b, k) \in Nat
<1> DEFINE rows == Rows(b)
           C == UNION {From(b, InSlot(s)) : s \in Slot}
           f == Apiece(b, C, k)
           g == Packed(rows, k)
           S == SpotsOf(b, C)
           h == [u \in S |-> b[u[2]].source.at]
           Fibre(t) == {y \in DOMAIN f : h[y] = t}
<1>1. rows \in [Slot -> Seq(Things)] /\ \A s \in Slot : rows[s] = Line(RowOf(b, s))
  BY RowsAre
<1>2. C \subseteq Used(b) /\ \A c \in C : b[c].source.at \in Slot
  <2>1. \A s \in Slot : \A c \in From(b, InSlot(s)) : c \in Used(b) /\ b[c].source.at = s
    BY DEF From, InSlot
  <2> QED BY <2>1
<1>3. /\ Tally(f) /\ DOMAIN f = S
      /\ \A u \in S : f[u] = One(b[u[2]].items[u[1]], k) /\ u[2] \in C
  <2> HIDE DEF C
  <2> QED BY <1>2, ApieceIs
<1>4. /\ InRows(rows, k) = SumFunction(g) /\ InRows(rows, k) \in Nat /\ Tally(g) /\ DOMAIN g = Slot
      /\ \A s \in Slot : g[s] = Amount(rows[s], k)
  BY <1>1, InRowsIs
<1>5. \A u : u \in S <=> u = <<u[1], u[2]>> /\ u[2] \in C /\ u[1] \in DOMAIN b[u[2]].items
  BY DEF SpotsOf
<1>6. ASSUME NEW s \in Slot PROVE \A c : c \in From(b, InSlot(s)) <=> c \in C /\ b[c].source.at = s
  <2>1. ASSUME NEW c, c \in C, b[c].source.at = s PROVE c \in From(b, InSlot(s))
    <3>1. PICK d \in Slot : c \in From(b, InSlot(d))
      BY <2>1
    <3>2. b[c].source.at = d
      BY <3>1 DEF From, InSlot
    <3> QED BY <2>1, <3>1, <3>2
  <2>2. ASSUME NEW c, c \in From(b, InSlot(s)) PROVE c \in C /\ b[c].source.at = s
    BY <2>2 DEF From, InSlot
  <2> QED BY <2>1, <2>2
<1> HIDE DEF f, g, S, C
<1>7. h \in [DOMAIN f -> DOMAIN g]
  BY <1>2, <1>3, <1>4
<1>8. ASSUME NEW t \in DOMAIN g PROVE g[t] = SumFunction([x \in Fibre(t) |-> f[x]])
  <2> DEFINE e == [x \in Fibre(t) |-> f[x]]
             D == From(b, InSlot(t))
  <2>1. t \in Slot /\ D \subseteq Used(b)
    BY <1>4 DEF From
  <2>2. Fibre(t) = SpotsOf(b, D)
    <3>1. ASSUME NEW u PROVE u \in Fibre(t) <=> u \in SpotsOf(b, D)
      <4>1. u \in SpotsOf(b, D) <=> u = <<u[1], u[2]>> /\ u[2] \in D /\ u[1] \in DOMAIN b[u[2]].items
        BY DEF SpotsOf
      <4>2. u \in Fibre(t) <=> u \in S /\ b[u[2]].source.at = t
        BY <1>3
      <4>3. u[2] \in D <=> u[2] \in C /\ b[u[2]].source.at = t
        BY <1>6, <2>1
      <4> HIDE DEF Fibre, D
      <4> QED BY <1>5, <4>1, <4>2, <4>3
    <3> QED BY <3>1
  <2>3. \A u \in SpotsOf(b, D) : b[u[2]].items[u[1]] \in Things
    <3> HIDE DEF D
    <3> QED BY <2>1, PlacesFinite
  <2>4. IsFiniteSet(SpotsOf(b, D)) /\ SpotsOf(b, D) \subseteq Nat \X Nat
    <3> HIDE DEF D
    <3> QED BY <2>1, PlacesFinite
  <2> DEFINE r == RowOf(b, t)
  <2>5. DOMAIN r = SpotsOf(b, D) /\ \A u \in SpotsOf(b, D) : r[u] = b[u[2]].items[u[1]]
    BY DEF RowOf
  <2> HIDE DEF r, D
  <2>6. Amount(Line(r), k) = SumFunction(Spread(r, k))
    <3>1. IsFiniteSet(DOMAIN r) /\ DOMAIN r \subseteq Nat \X Nat /\ \A u \in DOMAIN r : r[u] \in Things
      BY <2>3, <2>4, <2>5
    <3> QED BY <3>1, AmountLine
  <2>7. Spread(r, k) = e
    <3>1. \A u \in SpotsOf(b, D) : u \in S
      BY <1>3, <2>2
    <3>2. \A u \in SpotsOf(b, D) : f[u] = One(r[u], k)
      BY <1>3, <2>5, <3>1
    <3>3. e = [u \in SpotsOf(b, D) |-> f[u]]
      BY <2>2
    <3> HIDE DEF e
    <3>4. Spread(r, k) = [u \in SpotsOf(b, D) |-> One(r[u], k)]
      BY <2>5 DEF Spread
    <3> QED BY <3>2, <3>3, <3>4
  <2>8. g[t] = Amount(Line(r), k)
    BY <1>1, <1>4, <2>1 DEF r
  <2> QED BY <2>6, <2>7, <2>8
<1>9. SumFunction(f) = SumFunction(g)
  <2>1. Tally(f) /\ Tally(g)
    BY <1>3, <1>4
  <2> HIDE DEF h
  <2> QED BY <1>7, <1>8, <2>1, SumFibres
<1> DEFINE w == Apiece(b, Used(b), k)
<1>10. /\ Tally(w) /\ DOMAIN w = SpotsOf(b, Used(b))
       /\ \A u \in SpotsOf(b, Used(b)) : w[u] = One(b[u[2]].items[u[1]], k)
  BY ApieceIs
<1>11. InBoxes(b, k) = SumFunction(w) /\ InBoxes(b, k) \in Nat
  BY InBoxesApiece, InBoxesIs
<1> HIDE DEF w
<1>12. DOMAIN f \subseteq DOMAIN w /\ \A u \in DOMAIN f : f[u] = w[u]
  <2>1. ASSUME NEW u \in S PROVE u \in SpotsOf(b, Used(b))
    BY <1>2, <1>5 DEF SpotsOf
  <2> QED BY <1>3, <1>10, <2>1
<1>13. SumFunction(f) <= SumFunction(w)
  <2>1. Tally(f) /\ Tally(w)
    BY <1>3, <1>10
  <2>2. \A u \in DOMAIN f : f[u] <= w[u]
    <3>1. \A u \in DOMAIN f : f[u] \in Nat
      BY <2>1 DEF Tally
    <3> QED BY <1>12, <3>1
  <2> QED BY <1>12, <2>1, <2>2, SumOrder
<1> QED BY <1>1, <1>4, <1>9, <1>11, <1>13

\* What is restored is no more than what was saved.
LEMMA RestoredLess ==
    ASSUME NEW save \in Saves, NEW k
    PROVE  /\ Restored(save) \in BoxMaps
           /\ InBoxes(Restored(save), k) <= InRows(save.rows, k)
           /\ InBoxes(Restored(save), k) \in Nat /\ InRows(save.rows, k) \in Nat
<1> DEFINE b == Restored(save)
           rows == save.rows
           U == Used(b)
           f == Contents(b, k)
           g == Packed(rows, k)
           fU == [c \in U |-> f[c]]
           fN == [c \in Cid \ U |-> f[c]]
<1>1. rows \in [Slot -> Seq(Things)] /\ b \in BoxMaps
  BY RestoredIs DEF Saves
<1>2. PICK h \in [U -> Slot] :
        /\ \A c, d \in U : h[c] = h[d] => c = d
        /\ \A c \in U : b[c].items = rows[h[c]]
  BY RestoredIs
<1> HIDE DEF b, rows
<1>3. U \subseteq Cid /\ (\A c \in U : b[c] # None) /\ \A c \in Cid \ U : b[c] = None
  BY DEF Used
<1> HIDE DEF U
<1>4. /\ InBoxes(b, k) = SumFunction(f) /\ InBoxes(b, k) \in Nat /\ Tally(f) /\ DOMAIN f = Cid
      /\ \A c \in Cid : f[c] = Holds(b[c], k)
  BY <1>1, InBoxesIs
<1>5. /\ InRows(rows, k) = SumFunction(g) /\ InRows(rows, k) \in Nat /\ Tally(g) /\ DOMAIN g = Slot
      /\ \A s \in Slot : g[s] = Amount(rows[s], k) /\ Amount(rows[s], k) \in Nat
  BY <1>1, InRowsIs
<1> HIDE DEF f, g
<1>6. SumFunction(f) = SumFunction(fU) + SumFunction(fN)
  <2> DEFINE N == Cid \ U
  <2>1. U \intersect N = {} /\ U \union N = DOMAIN f
    BY <1>3, <1>4
  <2>2. Tally(f)
    BY <1>4
  <2> HIDE DEF N
  <2>3. SumFunction(f) = SumFunction([x \in U |-> f[x]]) + SumFunction([x \in N |-> f[x]])
    BY <2>1, <2>2, SumSplit
  <2> QED BY <2>3 DEF N
<1>7. Tally(fU) /\ Tally(fN)
  <2>1. U \in SUBSET (DOMAIN f) /\ (Cid \ U) \in SUBSET (DOMAIN f) /\ Tally(f)
    BY <1>3, <1>4
  <2> QED BY <2>1, SumPart
<1>8. SumFunction(fN) = 0
  <2>1. \A c \in DOMAIN fN : fN[c] = 0
    BY <1>3, <1>4 DEF Holds
  <2> HIDE DEF fN
  <2> QED BY <1>7, <2>1, SumZero
<1>9. SumFunction(fU) <= SumFunction(g)
  <2>1. h \in [DOMAIN fU -> DOMAIN g]
    BY <1>2, <1>5
  <2>2. \A x, y \in DOMAIN fU : h[x] = h[y] => x = y
    BY <1>2
  <2>3. ASSUME NEW c \in DOMAIN fU PROVE fU[c] <= g[h[c]]
    <3>1. c \in U /\ c \in Cid /\ h[c] \in Slot /\ fU[c] = f[c] /\ b[c] # None
      BY <1>2, <1>3
    <3>2. fU[c] = Amount(b[c].items, k)
      BY <1>4, <3>1 DEF Holds
    <3>3. fU[c] = Amount(rows[h[c]], k)
      BY <1>2, <3>1, <3>2
    <3>4. g[h[c]] = Amount(rows[h[c]], k) /\ Amount(rows[h[c]], k) \in Nat
      BY <1>5, <3>1
    <3> QED BY <3>3, <3>4
  <2>4. Tally(fU) /\ Tally(g)
    BY <1>5, <1>7
  <2> HIDE DEF fU
  <2> QED BY <2>1, <2>2, <2>3, <2>4, SumInject
<1>10. SumFunction(fU) \in Nat /\ SumFunction(g) \in Nat
  <2>1. Tally(fU) /\ Tally(g)
    BY <1>5, <1>7
  <2> HIDE DEF fU
  <2> QED BY <2>1, SumIs
<1>11. InBoxes(b, k) <= InRows(rows, k)
  BY <1>4, <1>5, <1>6, <1>8, <1>9, <1>10
<1> QED BY <1>1, <1>4, <1>5, <1>11 DEF b, rows

(***************************************************************************)
(* All there is of a kind: what lies on the tiles, and what is kept by the *)
(* players.                                                                *)
(***************************************************************************)
InCorpse(l, k) == IF l = None THEN 0 ELSE Amount(l, k)
Piled(g, l, k) == [t \in Tile |-> Amount(g[t].stack, k) + InCorpse(l[t], k)]
Lands(g, l) == g \in [Tile -> Piles] /\ l \in [Tile -> Seq(Things) \union {None}]

Purse(pl, sv, p, k) ==
    IF p \in DOMAIN pl THEN InSlots(pl[p].worn, k) + InBoxes(pl[p].boxes, k)
    ELSE InSlots(sv[p].worn, k) + InRows(sv[p].rows, k)
Purses(pl, sv, k) == [p \in Player |-> Purse(pl, sv, p, k)]
Folk(pl, sv) == DOMAIN pl \subseteq Player /\ (\A p \in DOMAIN pl : Good(pl[p])) /\ sv \in [Player -> Saves]

Lay(k) == SumFunction(Piled(ground, loot, k))
Kept(k) == SumFunction(Purses(players, saved, k))

LEMMA UnitsAre ==
    ASSUME NEW k
    PROVE  Units(k) = Lay(k) + Kept(k) /\ Units(k)' = Lay(k)' + Kept(k)'
<1>1. Piled(ground, loot, k) = [t \in Tile |-> OnTile(t, k)]
  BY DEF Piled, OnTile, InCorpse
<1>2. Purses(players, saved, k) = [p \in Player |-> Carries(p, k)]
  BY DEF Purses, Purse, Carries, Here, Worn, Boxes
<1>3. Units(k) = Lay(k) + Kept(k)
  BY <1>1, <1>2 DEF Units, Lay, Kept
<1>4. Piled(ground', loot', k) = [t \in Tile |-> OnTile(t, k)']
  BY DEF Piled, OnTile, InCorpse
<1>5. Purses(players', saved', k) = [p \in Player |-> Carries(p, k)']
  BY DEF Purses, Purse, Carries, Here, Worn, Boxes
<1>6. Units(k)' = Lay(k)' + Kept(k)'
  BY <1>4, <1>5 DEF Units, Lay, Kept
<1> QED BY <1>3, <1>6

LEMMA InvFolk ==
    /\ GroundOK /\ LootOK => Lands(ground, loot)
    /\ GroundOK' /\ LootOK' => Lands(ground', loot')
    /\ PlayersOK /\ SavedOK => Folk(players, saved)
    /\ PlayersOK' /\ SavedOK' => Folk(players', saved')
<1>1. GroundOK /\ LootOK => Lands(ground, loot)
  BY DEF Lands, GroundOK, LootOK
<1>2. GroundOK' /\ LootOK' => Lands(ground', loot')
  BY DEF Lands, GroundOK, LootOK
<1>3. PlayersOK /\ SavedOK => Folk(players, saved)
  BY DEF Folk, PlayersOK, SavedOK, Here
<1>4. PlayersOK' /\ SavedOK' => Folk(players', saved')
  BY DEF Folk, PlayersOK, SavedOK, Here
<1> QED BY <1>1, <1>2, <1>3, <1>4

LEMMA InCorpseIs ==
    ASSUME NEW l \in Seq(Things) \union {None}, NEW k
    PROVE  /\ InCorpse(l, k) \in Nat
           /\ l = None => InCorpse(l, k) = 0
           /\ l # None => l \in Seq(Things) /\ InCorpse(l, k) = Amount(l, k)
<1>1. CASE l = None
  BY <1>1 DEF InCorpse
<1>2. CASE l # None
  <2>1. l \in Seq(Things)
    BY <1>2
  <2>2. Amount(l, k) \in Nat
    BY <2>1, AmountIs
  <2> QED BY <1>2, <2>1, <2>2 DEF InCorpse
<1> QED BY <1>1, <1>2

LEMMA PiledIs ==
    ASSUME NEW g, NEW l, Lands(g, l), NEW k
    PROVE  /\ Tally(Piled(g, l, k)) /\ DOMAIN Piled(g, l, k) = Tile
           /\ SumFunction(Piled(g, l, k)) \in Nat
           /\ \A t \in Tile : /\ Piled(g, l, k)[t] = Amount(g[t].stack, k) + InCorpse(l[t], k)
                              /\ Amount(g[t].stack, k) \in Nat /\ InCorpse(l[t], k) \in Nat
<1>1. \A t \in Tile : Amount(g[t].stack, k) \in Nat /\ InCorpse(l[t], k) \in Nat
  <2>1. ASSUME NEW t \in Tile PROVE Amount(g[t].stack, k) \in Nat /\ InCorpse(l[t], k) \in Nat
    <3>1. g[t] \in Piles /\ l[t] \in Seq(Things) \union {None}
      BY DEF Lands
    <3>2. g[t].stack \in Seq(Things)
      BY <3>1, PileIs
    <3> QED BY <3>1, <3>2, AmountIs, InCorpseIs
  <2> QED BY <2>1
<1>2. DOMAIN Piled(g, l, k) = Tile /\ \A t \in Tile : Piled(g, l, k)[t] = Amount(g[t].stack, k) + InCorpse(l[t], k)
  BY DEF Piled
<1>3. Piled(g, l, k) \in [Tile -> Nat]
  BY <1>1 DEF Piled
<1>4. Tally(Piled(g, l, k))
  BY <1>2, <1>3, ItemsAssumption DEF Tally
<1>5. SumFunction(Piled(g, l, k)) \in Nat
  BY <1>4, SumIs
<1> QED BY <1>1, <1>2, <1>4, <1>5

LEMMA PursesAre ==
    ASSUME NEW pl, NEW sv, Folk(pl, sv), NEW k
    PROVE  /\ Tally(Purses(pl, sv, k)) /\ DOMAIN Purses(pl, sv, k) = Player
           /\ SumFunction(Purses(pl, sv, k)) \in Nat
           /\ \A p \in Player : Purses(pl, sv, k)[p] = Purse(pl, sv, p, k) /\ Purse(pl, sv, p, k) \in Nat
<1>1. ASSUME NEW p \in Player PROVE Purse(pl, sv, p, k) \in Nat
  <2>1. CASE p \in DOMAIN pl
    <3>1. Good(pl[p])
      BY <2>1 DEF Folk
    <3>2. pl[p].worn \in Wear /\ pl[p].boxes \in BoxMaps
      BY <3>1, GoodIs
    <3>3. InSlots(pl[p].worn, k) \in Nat /\ InBoxes(pl[p].boxes, k) \in Nat
      BY <3>2, InSlotsIs, InBoxesIs
    <3> QED BY <2>1, <3>3 DEF Purse
  <2>2. CASE p \notin DOMAIN pl
    <3>1. sv[p] \in Saves
      BY DEF Folk
    <3>2. sv[p].worn \in Wear /\ sv[p].rows \in [Slot -> Seq(Things)]
      BY <3>1 DEF Saves, Wear
    <3>3. InSlots(sv[p].worn, k) \in Nat /\ InRows(sv[p].rows, k) \in Nat
      BY <3>2, InSlotsIs, InRowsIs
    <3> QED BY <2>2, <3>3 DEF Purse
  <2> QED BY <2>1, <2>2
<1>2. DOMAIN Purses(pl, sv, k) = Player /\ \A p \in Player : Purses(pl, sv, k)[p] = Purse(pl, sv, p, k)
  BY DEF Purses
<1>3. Purses(pl, sv, k) \in [Player -> Nat]
  BY <1>1 DEF Purses
<1>4. Tally(Purses(pl, sv, k))
  BY <1>2, <1>3, ItemsAssumption DEF Tally
<1>5. SumFunction(Purses(pl, sv, k)) \in Nat
  BY <1>4, SumIs
<1> QED BY <1>1, <1>2, <1>4, <1>5

\* Two tallies that differ at two points.
LEMMA SumTwo ==
    ASSUME NEW f, Tally(f), NEW g, Tally(g), DOMAIN g = DOMAIN f,
           NEW x \in DOMAIN f, NEW y \in DOMAIN f, x # y,
           \A z \in DOMAIN f \ {x, y} : f[z] = g[z]
    PROVE  SumFunction(f) + g[x] + g[y] = SumFunction(g) + f[x] + f[y]
<1> DEFINE e == [f EXCEPT ![x] = g[x]]
<1>1. f \in [DOMAIN f -> Nat] /\ g \in [DOMAIN f -> Nat]
  BY DEF Tally
<1>2. DOMAIN e = DOMAIN f /\ e \in [DOMAIN f -> Nat]
  BY <1>1
<1>3. e[x] = g[x] /\ e[y] = f[y] /\ \A z \in DOMAIN f \ {x} : e[z] = f[z]
  BY <1>1
<1> HIDE DEF e
<1>4. Tally(e)
  BY <1>2 DEF Tally
<1>5. SumFunction(f) + e[x] = SumFunction(e) + f[x]
  <2>1. \A z \in DOMAIN f \ {x} : f[z] = e[z]
    BY <1>3
  <2> QED BY <1>2, <1>4, <2>1, SumPoint
<1>6. SumFunction(e) + g[y] = SumFunction(g) + e[y]
  <2>1. y \in DOMAIN e /\ DOMAIN g = DOMAIN e /\ \A z \in DOMAIN e \ {y} : e[z] = g[z]
    BY <1>2, <1>3
  <2> QED BY <1>4, <2>1, SumPoint
<1>7. SumFunction(f) \in Nat /\ SumFunction(g) \in Nat /\ SumFunction(e) \in Nat
  BY <1>4, SumIs
<1>8. f[x] \in Nat /\ f[y] \in Nat /\ g[x] \in Nat /\ g[y] \in Nat
  BY <1>1
<1> QED BY <1>3, <1>5, <1>6, <1>7, <1>8

LEMMA OneTile ==
    ASSUME GroundOK, LootOK, GroundOK', LootOK', NEW t \in Tile, NEW k,
           \A u \in Tile \ {t} : ground'[u] = ground[u] /\ loot'[u] = loot[u]
    PROVE  /\ Lay(k)' + Amount(ground[t].stack, k) + InCorpse(loot[t], k)
                = Lay(k) + Amount(ground'[t].stack, k) + InCorpse(loot'[t], k)
           /\ Lay(k) \in Nat /\ Lay(k)' \in Nat
           /\ Amount(ground[t].stack, k) \in Nat /\ InCorpse(loot[t], k) \in Nat
           /\ Amount(ground'[t].stack, k) \in Nat /\ InCorpse(loot'[t], k) \in Nat
<1> DEFINE f == Piled(ground', loot', k)
           g == Piled(ground, loot, k)
<1>1. Lands(ground, loot) /\ Lands(ground', loot')
  BY InvFolk
<1>2. /\ Tally(g) /\ DOMAIN g = Tile /\ SumFunction(g) \in Nat
      /\ \A u \in Tile : /\ g[u] = Amount(ground[u].stack, k) + InCorpse(loot[u], k)
                         /\ Amount(ground[u].stack, k) \in Nat /\ InCorpse(loot[u], k) \in Nat
  BY <1>1, PiledIs
<1>3. /\ Tally(f) /\ DOMAIN f = Tile /\ SumFunction(f) \in Nat
      /\ \A u \in Tile : /\ f[u] = Amount(ground'[u].stack, k) + InCorpse(loot'[u], k)
                         /\ Amount(ground'[u].stack, k) \in Nat /\ InCorpse(loot'[u], k) \in Nat
  BY <1>1, PiledIs
<1>4. Lay(k) = SumFunction(g) /\ Lay(k)' = SumFunction(f)
  BY DEF Lay
<1> HIDE DEF f, g
<1>5. ASSUME NEW u \in DOMAIN f \ {t} PROVE f[u] = g[u]
  <2>1. u \in Tile /\ ground'[u] = ground[u] /\ loot'[u] = loot[u]
    BY <1>3
  <2> QED BY <1>2, <1>3, <2>1
<1>6. SumFunction(f) + g[t] = SumFunction(g) + f[t]
  <2>1. Tally(f) /\ Tally(g) /\ DOMAIN g = DOMAIN f /\ t \in DOMAIN f
    BY <1>2, <1>3
  <2> QED BY <1>5, <2>1, SumPoint
<1> QED BY <1>2, <1>3, <1>4, <1>6

LEMMA TwoTiles ==
    ASSUME GroundOK, LootOK, GroundOK', UNCHANGED loot, NEW a \in Tile, NEW b \in Tile, a # b, NEW k,
           \A u \in Tile \ {a, b} : ground'[u] = ground[u]
    PROVE  /\ Lay(k)' + Amount(ground[a].stack, k) + Amount(ground[b].stack, k)
                = Lay(k) + Amount(ground'[a].stack, k) + Amount(ground'[b].stack, k)
           /\ Lay(k) \in Nat /\ Lay(k)' \in Nat
           /\ Amount(ground[a].stack, k) \in Nat /\ Amount(ground[b].stack, k) \in Nat
           /\ Amount(ground'[a].stack, k) \in Nat /\ Amount(ground'[b].stack, k) \in Nat
<1> DEFINE f == Piled(ground', loot, k)
           g == Piled(ground, loot, k)
<1>1. Lands(ground, loot) /\ Lands(ground', loot)
  BY DEF Lands, GroundOK, LootOK
<1>2. /\ Tally(g) /\ DOMAIN g = Tile /\ SumFunction(g) \in Nat
      /\ \A u \in Tile : /\ g[u] = Amount(ground[u].stack, k) + InCorpse(loot[u], k)
                         /\ Amount(ground[u].stack, k) \in Nat /\ InCorpse(loot[u], k) \in Nat
  BY <1>1, PiledIs
<1>3. /\ Tally(f) /\ DOMAIN f = Tile /\ SumFunction(f) \in Nat
      /\ \A u \in Tile : /\ f[u] = Amount(ground'[u].stack, k) + InCorpse(loot[u], k)
                         /\ Amount(ground'[u].stack, k) \in Nat /\ InCorpse(loot[u], k) \in Nat
  BY <1>1, PiledIs
<1>4. Lay(k) = SumFunction(g) /\ Lay(k)' = SumFunction(f)
  BY DEF Lay
<1> HIDE DEF f, g
<1>5. ASSUME NEW u \in DOMAIN f \ {a, b} PROVE f[u] = g[u]
  <2>1. u \in Tile /\ ground'[u] = ground[u]
    BY <1>3
  <2> QED BY <1>2, <1>3, <2>1
<1>6. SumFunction(f) + g[a] + g[b] = SumFunction(g) + f[a] + f[b]
  <2>1. Tally(f) /\ Tally(g) /\ DOMAIN g = DOMAIN f /\ a \in DOMAIN f /\ b \in DOMAIN f
    BY <1>2, <1>3
  <2> QED BY <1>5, <2>1, SumTwo
<1> QED BY <1>2, <1>3, <1>4, <1>6

LEMMA OnePlayer ==
    ASSUME PlayersOK, SavedOK, PlayersOK', SavedOK', NEW p \in Player, NEW k,
           \A q \in Player \ {p} : Purse(players', saved', q, k) = Purse(players, saved, q, k)
    PROVE  /\ Kept(k)' + Purse(players, saved, p, k) = Kept(k) + Purse(players', saved', p, k)
           /\ Kept(k) \in Nat /\ Kept(k)' \in Nat
           /\ Purse(players, saved, p, k) \in Nat /\ Purse(players', saved', p, k) \in Nat
<1> DEFINE f == Purses(players', saved', k)
           g == Purses(players, saved, k)
<1>1. Folk(players, saved) /\ Folk(players', saved')
  BY InvFolk
<1>2. /\ Tally(g) /\ DOMAIN g = Player /\ SumFunction(g) \in Nat
      /\ \A q \in Player : g[q] = Purse(players, saved, q, k) /\ Purse(players, saved, q, k) \in Nat
  BY <1>1, PursesAre
<1>3. /\ Tally(f) /\ DOMAIN f = Player /\ SumFunction(f) \in Nat
      /\ \A q \in Player : f[q] = Purse(players', saved', q, k) /\ Purse(players', saved', q, k) \in Nat
  BY <1>1, PursesAre
<1>4. Kept(k) = SumFunction(g) /\ Kept(k)' = SumFunction(f)
  BY DEF Kept
<1> HIDE DEF f, g
<1>5. ASSUME NEW q \in DOMAIN f \ {p} PROVE f[q] = g[q]
  <2>1. q \in Player \ {p}
    BY <1>3
  <2> QED BY <1>2, <1>3, <2>1
<1>6. SumFunction(f) + g[p] = SumFunction(g) + f[p]
  <2>1. Tally(f) /\ Tally(g) /\ DOMAIN g = DOMAIN f /\ p \in DOMAIN f
    BY <1>2, <1>3
  <2> QED BY <1>5, <2>1, SumPoint
<1> QED BY <1>2, <1>3, <1>4, <1>6

LEMMA PurseIs ==
    ASSUME PlayersOK, SavedOK, NEW p \in Player, NEW k
    PROVE  /\ p \in Here => /\ Purse(players, saved, p, k) = InSlots(Worn(p), k) + InBoxes(Boxes(p), k)
                            /\ InSlots(Worn(p), k) \in Nat /\ InBoxes(Boxes(p), k) \in Nat
           /\ p \notin Here => /\ saved[p] \in Saves
                               /\ Purse(players, saved, p, k)
                                    = InSlots(saved[p].worn, k) + InRows(saved[p].rows, k)
<1>1. ASSUME p \in Here
      PROVE  /\ Purse(players, saved, p, k) = InSlots(Worn(p), k) + InBoxes(Boxes(p), k)
             /\ InSlots(Worn(p), k) \in Nat /\ InBoxes(Boxes(p), k) \in Nat
  <2>1. Worn(p) \in Wear /\ Boxes(p) \in BoxMaps
    BY <1>1, PlayerIs
  <2>2. InSlots(Worn(p), k) \in Nat /\ InBoxes(Boxes(p), k) \in Nat
    BY <2>1, InSlotsIs, InBoxesIs
  <2>3. Purse(players, saved, p, k) = InSlots(Worn(p), k) + InBoxes(Boxes(p), k)
    BY <1>1 DEF Purse, Here, Worn, Boxes
  <2> QED BY <2>2, <2>3
<1>2. ASSUME p \notin Here
      PROVE  /\ saved[p] \in Saves
             /\ Purse(players, saved, p, k) = InSlots(saved[p].worn, k) + InRows(saved[p].rows, k)
  BY <1>2 DEF Purse, Here, SavedOK
<1> QED BY <1>1, <1>2

\* What a player has changes by what it is given and loses.
LEMMA HasLedger ==
    ASSUME Inv, Inv', NEW p \in Here, NEW worn, NEW b, Has(p, worn, b), NEW k
    PROVE  /\ Kept(k)' + InSlots(Worn(p), k) + InBoxes(Boxes(p), k)
                = Kept(k) + InSlots(worn, k) + InBoxes(b, k)
           /\ Kept(k) \in Nat /\ Kept(k)' \in Nat
           /\ InSlots(Worn(p), k) \in Nat /\ InBoxes(Boxes(p), k) \in Nat
           /\ InSlots(worn, k) \in Nat /\ InBoxes(b, k) \in Nat
<1>1. PlayersOK /\ SavedOK /\ PlayersOK' /\ SavedOK'
  BY DEF Inv
<1>2. /\ saved' = saved /\ Here' = Here
      /\ players'[p] = [at |-> At(p), worn |-> worn, boxes |-> b]
      /\ \A q \in Here \ {p} : players'[q] = players[q]
  BY <1>1, HasIs
<1>3. p \in Player
  BY <1>1, PlayerIs
<1>4. ASSUME NEW q \in Player \ {p} PROVE Purse(players', saved', q, k) = Purse(players, saved, q, k)
  <2>1. DOMAIN players' = DOMAIN players
    BY <1>2 DEF Here
  <2>2. q \in DOMAIN players => players'[q] = players[q]
    BY <1>2 DEF Here
  <2> QED BY <1>2, <2>1, <2>2 DEF Purse
<1>5. /\ Kept(k)' + Purse(players, saved, p, k) = Kept(k) + Purse(players', saved', p, k)
      /\ Kept(k) \in Nat /\ Kept(k)' \in Nat
  BY <1>1, <1>3, <1>4, OnePlayer
<1>6. /\ Purse(players, saved, p, k) = InSlots(Worn(p), k) + InBoxes(Boxes(p), k)
      /\ InSlots(Worn(p), k) \in Nat /\ InBoxes(Boxes(p), k) \in Nat
  BY <1>1, <1>3, PurseIs
<1>7. worn \in Wear /\ b \in BoxMaps
  <2>1. Good(players'[p])
    BY <1>1, <1>2 DEF PlayersOK
  <2> DEFINE x == players'[p]
  <2>2. x.worn = worn /\ x.boxes = b
    BY <1>2
  <2> HIDE DEF x
  <2>3. Good(x)
    BY <2>1 DEF x
  <2> QED BY <2>2, <2>3, GoodIs
<1>8. InSlots(worn, k) \in Nat /\ InBoxes(b, k) \in Nat
  BY <1>7, InSlotsIs, InBoxesIs
<1>9. Purse(players', saved', p, k) = InSlots(worn, k) + InBoxes(b, k)
  <2>1. p \in DOMAIN players' /\ players'[p].worn = worn /\ players'[p].boxes = b
    BY <1>2 DEF Here
  <2> QED BY <2>1 DEF Purse
<1> QED BY <1>5, <1>6, <1>8, <1>9

\* Who leaves is saved with no more than it had.
LEMMA LeavesLedger ==
    ASSUME Inv, Inv', NEW p \in Here, NEW worn \in Wear, NEW b \in BoxMaps, LeavesWith(p, worn, b), NEW k
    PROVE  /\ Kept(k)' + InSlots(Worn(p), k) + InBoxes(Boxes(p), k)
                <= Kept(k) + InSlots(worn, k) + InBoxes(b, k)
           /\ Kept(k) \in Nat /\ Kept(k)' \in Nat
           /\ InSlots(Worn(p), k) \in Nat /\ InBoxes(Boxes(p), k) \in Nat
           /\ InSlots(worn, k) \in Nat /\ InBoxes(b, k) \in Nat
<1>1. PlayersOK /\ SavedOK /\ PlayersOK' /\ SavedOK'
  BY DEF Inv
<1>2. /\ Here' = Here \ {p}
      /\ \A q \in Here \ {p} : players'[q] = players[q]
      /\ saved'[p] = [worn |-> worn, rows |-> Rows(b)]
      /\ \A q \in Player \ {p} : saved'[q] = saved[q]
  BY <1>1, LeavesWithIs
<1>3. p \in Player
  BY <1>1, PlayerIs
<1>4. ASSUME NEW q \in Player \ {p} PROVE Purse(players', saved', q, k) = Purse(players, saved, q, k)
  <2>1. q \in DOMAIN players' <=> q \in DOMAIN players
    BY <1>2 DEF Here
  <2>2. q \in DOMAIN players => players'[q] = players[q]
    BY <1>2 DEF Here
  <2>3. saved'[q] = saved[q]
    BY <1>2
  <2> QED BY <2>1, <2>2, <2>3 DEF Purse
<1>5. /\ Kept(k)' + Purse(players, saved, p, k) = Kept(k) + Purse(players', saved', p, k)
      /\ Kept(k) \in Nat /\ Kept(k)' \in Nat
  BY <1>1, <1>3, <1>4, OnePlayer
<1>6. /\ Purse(players, saved, p, k) = InSlots(Worn(p), k) + InBoxes(Boxes(p), k)
      /\ InSlots(Worn(p), k) \in Nat /\ InBoxes(Boxes(p), k) \in Nat
  BY <1>1, <1>3, PurseIs
<1>7. InSlots(worn, k) \in Nat /\ InBoxes(b, k) \in Nat
  BY InSlotsIs, InBoxesIs
<1>8. Purse(players', saved', p, k) = InSlots(worn, k) + InRows(Rows(b), k)
  <2>1. p \notin DOMAIN players' /\ saved'[p].worn = worn /\ saved'[p].rows = Rows(b)
    BY <1>2 DEF Here
  <2> QED BY <2>1 DEF Purse
<1>9. InRows(Rows(b), k) <= InBoxes(b, k) /\ InRows(Rows(b), k) \in Nat
  BY InRowsLess
<1> QED BY <1>5, <1>6, <1>7, <1>8, <1>9

LEMMA LeavesLess ==
    ASSUME Inv, Inv', NEW p \in Here, Leaves(p), NEW k
    PROVE  Kept(k)' <= Kept(k) /\ Kept(k) \in Nat /\ Kept(k)' \in Nat
<1> DEFINE w == InSlots(Worn(p), k)
           b == InBoxes(Boxes(p), k)
<1>1. Worn(p) \in Wear /\ Boxes(p) \in BoxMaps
  BY PlayerIs DEF Inv
<1>2. LeavesWith(p, Worn(p), Boxes(p))
  BY LeavesIs
<1>3. /\ Kept(k)' + w + b <= Kept(k) + w + b
      /\ Kept(k) \in Nat /\ Kept(k)' \in Nat /\ w \in Nat /\ b \in Nat
  BY <1>1, <1>2, LeavesLedger
<1> HIDE DEF w, b
<1> QED BY <1>3

LEMMA LaySame ==
    ASSUME Inv, UNCHANGED <<ground, loot>>, NEW k PROVE Lay(k)' = Lay(k) /\ Lay(k) \in Nat
<1>1. Piled(ground', loot', k) = Piled(ground, loot, k)
  OBVIOUS
<1>2. Lands(ground, loot)
  BY InvFolk DEF Inv
<1> QED BY <1>1, <1>2, PiledIs DEF Lay

LEMMA KeptSame ==
    ASSUME Inv, UNCHANGED <<players, saved>>, NEW k PROVE Kept(k)' = Kept(k) /\ Kept(k) \in Nat
<1>1. Purses(players', saved', k) = Purses(players, saved, k)
  OBVIOUS
<1>2. Folk(players, saved)
  BY InvFolk DEF Inv
<1> QED BY <1>1, <1>2, PursesAre DEF Kept

(***************************************************************************)
(* The handlers, one by one.                                               *)
(***************************************************************************)
LEMMA TileTake ==
    ASSUME Inv, Inv', NEW a \in Tile, NEW i \in Items(a), NEW n \in Nat, NEW k,
           ground' = [ground EXCEPT ![a] = Take(@, i, n)], UNCHANGED loot
    PROVE  /\ Lay(k)' + One(TakenOff(ground[a], i, n), k) = Lay(k)
           /\ Lay(k) \in Nat /\ Lay(k)' \in Nat /\ One(TakenOff(ground[a], i, n), k) \in Nat
           /\ TakenOff(ground[a], i, n) \in Things
<1> DEFINE st == ground[a]
           x == TakenOff(st, i, n)
<1>1. GroundOK /\ LootOK /\ GroundOK' /\ LootOK'
  BY DEF Inv
<1>2. st \in Piles /\ i \in DOMAIN st.stack
  BY <1>1, TileIs DEF Items
<1>3. ground'[a] = Take(st, i, n) /\ \A u \in Tile \ {a} : ground'[u] = ground[u] /\ loot'[u] = loot[u]
  BY <1>1 DEF GroundOK
<1>4. /\ Amount(Take(st, i, n).stack, k) + One(x, k) = Amount(st.stack, k)
      /\ x \in Things /\ One(x, k) \in Nat
  BY <1>2, AmountTake
<1>5. /\ Lay(k)' + Amount(st.stack, k) + InCorpse(loot[a], k)
            = Lay(k) + Amount(ground'[a].stack, k) + InCorpse(loot'[a], k)
      /\ Lay(k) \in Nat /\ Lay(k)' \in Nat
      /\ Amount(st.stack, k) \in Nat /\ InCorpse(loot[a], k) \in Nat
      /\ Amount(ground'[a].stack, k) \in Nat /\ InCorpse(loot'[a], k) \in Nat
  BY <1>1, <1>3, OneTile
<1>6. Amount(ground'[a].stack, k) = Amount(Take(st, i, n).stack, k) /\ InCorpse(loot'[a], k) = InCorpse(loot[a], k)
  BY <1>3
<1> HIDE DEF st, x
<1>7. Lay(k)' + One(x, k) = Lay(k)
  BY <1>4, <1>5, <1>6
<1> QED BY <1>4, <1>5, <1>7 DEF x, st

\* A tile's stack becomes another one.
LEMMA TileSet ==
    ASSUME Inv, Inv', NEW t \in Tile, NEW st \in Piles, NEW k,
           ground' = [ground EXCEPT ![t] = st], UNCHANGED loot
    PROVE  /\ Lay(k)' + Amount(ground[t].stack, k) = Lay(k) + Amount(st.stack, k)
           /\ Lay(k) \in Nat /\ Lay(k)' \in Nat
           /\ Amount(ground[t].stack, k) \in Nat /\ Amount(st.stack, k) \in Nat
<1>1. GroundOK /\ LootOK /\ GroundOK' /\ LootOK'
  BY DEF Inv
<1>2. ground'[t] = st /\ \A u \in Tile \ {t} : ground'[u] = ground[u] /\ loot'[u] = loot[u]
  BY <1>1 DEF GroundOK
<1>3. /\ Lay(k)' + Amount(ground[t].stack, k) + InCorpse(loot[t], k)
            = Lay(k) + Amount(ground'[t].stack, k) + InCorpse(loot'[t], k)
      /\ Lay(k) \in Nat /\ Lay(k)' \in Nat
      /\ Amount(ground[t].stack, k) \in Nat /\ InCorpse(loot[t], k) \in Nat
      /\ Amount(ground'[t].stack, k) \in Nat /\ InCorpse(loot'[t], k) \in Nat
  BY <1>1, <1>2, OneTile
<1>4. Amount(ground'[t].stack, k) = Amount(st.stack, k) /\ InCorpse(loot'[t], k) = InCorpse(loot[t], k)
  BY <1>2
<1> QED BY <1>3, <1>4

LEMMA TilePut ==
    ASSUME Inv, Inv', NEW b \in Tile, Sound(ground[b]), NEW x \in Things, NEW k,
           ground' = [ground EXCEPT ![b] = Put(@, x)], UNCHANGED loot
    PROVE  /\ Lay(k)' = Lay(k) + One(x, k)
           /\ Lay(k) \in Nat /\ Lay(k)' \in Nat /\ One(x, k) \in Nat
<1> DEFINE st == Put(ground[b], x)
<1>1. ground[b] \in Piles /\ ground' = [ground EXCEPT ![b] = st]
  BY TileIs DEF Inv, GroundOK
<1>2. /\ Amount(st.stack, k) = Amount(ground[b].stack, k) + One(x, k)
      /\ st \in Piles /\ One(x, k) \in Nat
  BY <1>1, AmountPut
<1> HIDE DEF st
<1>3. /\ Lay(k)' + Amount(ground[b].stack, k) = Lay(k) + Amount(st.stack, k)
      /\ Lay(k) \in Nat /\ Lay(k)' \in Nat
      /\ Amount(ground[b].stack, k) \in Nat /\ Amount(st.stack, k) \in Nat
  BY <1>1, <1>2, TileSet
<1> QED BY <1>2, <1>3

LEMMA SlotGain ==
    ASSUME NEW worn \in Wear, NEW s \in Slot, worn[s] = None, NEW x \in Things, NEW k
    PROVE  InSlots([worn EXCEPT ![s] = x], k) = InSlots(worn, k) + One(x, k)
<1>1. x \in Things \union {None} /\ x # None
  BY Apart
<1>2. Bears(x, k) = One(x, k) /\ Bears(worn[s], k) = 0
  BY <1>1 DEF Bears, One
<1>3. /\ InSlots([worn EXCEPT ![s] = x], k) + Bears(worn[s], k) = InSlots(worn, k) + Bears(x, k)
      /\ InSlots([worn EXCEPT ![s] = x], k) \in Nat /\ InSlots(worn, k) \in Nat
      /\ Bears(worn[s], k) \in Nat /\ Bears(x, k) \in Nat
  BY <1>1, InSlotsSet
<1> QED BY <1>2, <1>3

LEMMA SlotLoss ==
    ASSUME NEW worn \in Wear, NEW s \in Slot, worn[s] # None, NEW k
    PROVE  /\ InSlots([worn EXCEPT ![s] = None], k) + One(worn[s], k) = InSlots(worn, k)
           /\ worn[s] \in Things /\ One(worn[s], k) \in Nat
           /\ InSlots([worn EXCEPT ![s] = None], k) \in Nat /\ InSlots(worn, k) \in Nat
<1> DEFINE x == worn[s]
<1>1. x \in Things
  BY DEF Wear
<1>2. Bears(x, k) = One(x, k) /\ Bears(None, k) = 0
  BY <1>1 DEF Bears, One
<1>3. None \in Things \union {None}
  OBVIOUS
<1>4. /\ InSlots([worn EXCEPT ![s] = None], k) + Bears(x, k) = InSlots(worn, k) + Bears(None, k)
      /\ InSlots([worn EXCEPT ![s] = None], k) \in Nat /\ InSlots(worn, k) \in Nat
      /\ Bears(x, k) \in Nat
  BY <1>3, InSlotsSet
<1>5. InSlots([worn EXCEPT ![s] = None], k) + One(x, k) = InSlots(worn, k)
  <2> HIDE DEF x
  <2> QED BY <1>2, <1>4
<1> QED BY <1>1, <1>2, <1>4, <1>5

LEMMA FollowedSame ==
    ASSUME NEW b \in BoxMaps, NEW old, NEW new \in Source, NEW t, NEW k
    PROVE  /\ InBoxes(Rekey(b, old, new), k) = InBoxes(b, k)
           /\ InBoxes(WalkedAway(Rekey(b, old, new), t), k) = InBoxes(b, k)
<1> DEFINE e == Rekey(b, old, new)
           f == WalkedAway(e, t)
<1>1. e \in BoxMaps /\ Used(e) = Used(b) /\ SameItems(b, e)
  BY RekeyIs
<1> HIDE DEF e
<1>2. Sits(e, f) /\ SameItems(e, f)
  BY <1>1, WalkedAwayIs
<1> HIDE DEF f
<1>3. f \in BoxMaps /\ Used(f) = Used(e)
  BY <1>2 DEF Sits
<1>4. InBoxes(e, k) = InBoxes(b, k)
  BY <1>1, InBoxesSame
<1>5. InBoxes(f, k) = InBoxes(e, k)
  BY <1>1, <1>2, <1>3, InBoxesSame
<1> QED BY <1>4, <1>5 DEF f, e

LEMMA WalkedAwaySame ==
    ASSUME NEW b \in BoxMaps, NEW t, NEW k
    PROVE  InBoxes(WalkedAway(b, t), k) = InBoxes(b, k)
<1> DEFINE f == WalkedAway(b, t)
<1>1. Sits(b, f) /\ SameItems(b, f)
  BY WalkedAwayIs
<1> HIDE DEF f
<1>2. f \in BoxMaps /\ Used(f) = Used(b)
  BY <1>1 DEF Sits
<1>3. InBoxes(f, k) = InBoxes(b, k)
  BY <1>1, <1>2, InBoxesSame
<1> QED BY <1>3 DEF f

LEMMA GroundToGroundLedger ==
    ASSUME Inv, Inv', NEW p, NEW a \in Tile, NEW b \in Tile, NEW n \in Nat, NEW i \in Items(a), NEW k,
           GroundToGround(p, a, i, b, n)
    PROVE  Units(k)' = Units(k)
<1> DEFINE x == TakenOff(ground[a], i, n)
           e == WalkedAway(Rekey(Boxes(p), OnGround(a), OnGround(b)), At(p))
<1>1. /\ p \in Here /\ a # b /\ Sound(ground[b])
      /\ ground' = [ground EXCEPT ![a] = Take(@, i, n), ![b] = Put(@, x)]
      /\ \/ Has(p, Worn(p), e)
         \/ UNCHANGED <<players, saved>>
      /\ UNCHANGED loot
  BY DEF GroundToGround, TakenOff
<1>2. PlayersOK /\ SavedOK /\ GroundOK /\ LootOK /\ GroundOK'
  BY DEF Inv
<1>3. /\ ground[a] \in Piles /\ i \in DOMAIN ground[a].stack /\ ground[b] \in Piles
  BY <1>2, TileIs DEF Items
<1>4. /\ Amount(Take(ground[a], i, n).stack, k) + One(x, k) = Amount(ground[a].stack, k)
      /\ x \in Things /\ One(x, k) \in Nat
  BY <1>3, AmountTake
<1> HIDE DEF x
<1>5. Amount(Put(ground[b], x).stack, k) = Amount(ground[b].stack, k) + One(x, k)
  BY <1>1, <1>3, <1>4, AmountPut
<1>6. /\ ground'[a] = Take(ground[a], i, n) /\ ground'[b] = Put(ground[b], x)
      /\ \A u \in Tile \ {a, b} : ground'[u] = ground[u]
  BY <1>1, <1>2 DEF GroundOK
<1>7. /\ Lay(k)' + Amount(ground[a].stack, k) + Amount(ground[b].stack, k)
            = Lay(k) + Amount(ground'[a].stack, k) + Amount(ground'[b].stack, k)
      /\ Lay(k) \in Nat /\ Lay(k)' \in Nat
      /\ Amount(ground[a].stack, k) \in Nat /\ Amount(ground[b].stack, k) \in Nat
      /\ Amount(ground'[a].stack, k) \in Nat /\ Amount(ground'[b].stack, k) \in Nat
  BY <1>1, <1>2, <1>6, TwoTiles
<1>8. /\ Amount(ground'[a].stack, k) = Amount(Take(ground[a], i, n).stack, k)
      /\ Amount(ground'[b].stack, k) = Amount(Put(ground[b], x).stack, k)
  BY <1>6
<1>9. Lay(k)' = Lay(k)
  BY <1>4, <1>5, <1>7, <1>8
<1>10. Kept(k)' = Kept(k)
  <2>1. CASE Has(p, Worn(p), e)
    <3>1. InBoxes(e, k) = InBoxes(Boxes(p), k)
      BY <1>1, <1>2, PlayerIs, SourceIs, FollowedSame
    <3> HIDE DEF e
    <3>2. /\ Kept(k)' + InSlots(Worn(p), k) + InBoxes(Boxes(p), k)
                = Kept(k) + InSlots(Worn(p), k) + InBoxes(e, k)
          /\ Kept(k) \in Nat /\ Kept(k)' \in Nat
          /\ InSlots(Worn(p), k) \in Nat /\ InBoxes(Boxes(p), k) \in Nat
      BY <1>1, <2>1, HasLedger
    <3> QED BY <3>1, <3>2
  <2>2. CASE UNCHANGED <<players, saved>>
    BY <2>2, KeptSame
  <2> QED BY <1>1, <2>1, <2>2
<1> QED BY <1>9, <1>10, UnitsAre

LEMMA EquipLedger ==
    ASSUME Inv, Inv', NEW p, NEW a \in Tile, NEW n \in Nat, NEW i \in Items(a), NEW s \in Slot,
           NEW cut \in BOOLEAN, NEW k, Equip(p, a, i, s, n, cut)
    PROVE  Units(k)' <= Units(k) /\ (cut = FALSE => Units(k)' = Units(k))
<1> DEFINE x == TakenOff(ground[a], i, n)
           worn == [Worn(p) EXCEPT ![s] = x]
           b == Rekey(Boxes(p), OnGround(a), InSlot(s))
<1>1. /\ p \in Here /\ Worn(p)[s] = None /\ ground' = [ground EXCEPT ![a] = Take(@, i, n)]
      /\ UNCHANGED loot
      /\ cut = TRUE => Leaves(p)
      /\ cut = FALSE => Has(p, worn, b)
  BY DEF Equip, TakenOff
<1>2. PlayersOK
  BY DEF Inv
<1>3. /\ Lay(k)' + One(x, k) = Lay(k) /\ x \in Things
      /\ Lay(k) \in Nat /\ Lay(k)' \in Nat /\ One(x, k) \in Nat
  BY <1>1, TileTake
<1>4. CASE cut = TRUE
  <2>1. Kept(k)' <= Kept(k) /\ Kept(k) \in Nat /\ Kept(k)' \in Nat
    BY <1>1, <1>4, LeavesLess
  <2> HIDE DEF x
  <2> QED BY <1>3, <1>4, <2>1, UnitsAre
<1>5. CASE cut = FALSE
  <2> HIDE DEF x
  <2>1. InSlots(worn, k) = InSlots(Worn(p), k) + One(x, k)
    BY <1>1, <1>2, <1>3, PlayerIs, SlotGain
  <2>2. InBoxes(b, k) = InBoxes(Boxes(p), k)
    BY <1>1, <1>2, PlayerIs, SourceIs, FollowedSame
  <2> HIDE DEF worn, b
  <2>3. /\ Kept(k)' + InSlots(Worn(p), k) + InBoxes(Boxes(p), k)
              = Kept(k) + InSlots(worn, k) + InBoxes(b, k)
        /\ Kept(k) \in Nat /\ Kept(k)' \in Nat
        /\ InSlots(Worn(p), k) \in Nat /\ InBoxes(Boxes(p), k) \in Nat
    BY <1>1, <1>5, HasLedger
  <2>4. Kept(k)' = Kept(k) + One(x, k)
    <3> DEFINE w == InSlots(Worn(p), k)
               m == InBoxes(Boxes(p), k)
               o == One(x, k)
    <3>1. /\ Kept(k)' + w + m = Kept(k) + (w + o) + m
          /\ w \in Nat /\ m \in Nat /\ o \in Nat
      BY <1>3, <2>1, <2>2, <2>3
    <3> HIDE DEF w, m, o
    <3>2. Kept(k)' = Kept(k) + o
      BY <2>3, <3>1
    <3> QED BY <3>2 DEF o
  <2>5. Units(k)' = Units(k) /\ Units(k) \in Nat
    BY <1>3, <2>3, <2>4, UnitsAre
  <2> QED BY <2>5
<1> QED BY <1>4, <1>5

LEMMA UnequipLedger ==
    ASSUME Inv, Inv', NEW p, NEW s \in Slot, NEW b \in Tile, NEW cut \in BOOLEAN, NEW k,
           Unequip(p, s, b, cut)
    PROVE  Units(k)' <= Units(k) /\ (cut = FALSE => Units(k)' = Units(k))
<1> DEFINE bare == [Worn(p) EXCEPT ![s] = None]
           e == WalkedAway(Rekey(Boxes(p), InSlot(s), OnGround(b)), At(p))
           x == Worn(p)[s]
<1>1. /\ p \in Here /\ Worn(p)[s] # None /\ Sound(ground[b])
      /\ ground' = [ground EXCEPT ![b] = Put(@, x)] /\ UNCHANGED loot
      /\ cut = TRUE => LeavesWith(p, bare, Boxes(p))
      /\ cut = FALSE => Has(p, bare, e)
  BY DEF Unequip
<1>2. PlayersOK
  BY DEF Inv
<1>3. Worn(p) \in Wear /\ Boxes(p) \in BoxMaps /\ bare \in Wear
  BY <1>1, <1>2, PlayerIs, Bared
<1>4. /\ InSlots(bare, k) + One(x, k) = InSlots(Worn(p), k)
      /\ x \in Things /\ One(x, k) \in Nat
      /\ InSlots(bare, k) \in Nat /\ InSlots(Worn(p), k) \in Nat
  BY <1>1, <1>3, SlotLoss
<1>5. InBoxes(e, k) = InBoxes(Boxes(p), k)
  BY <1>3, SourceIs, FollowedSame
<1> HIDE DEF x, bare, e
<1>6. Lay(k)' = Lay(k) + One(x, k) /\ Lay(k) \in Nat /\ Lay(k)' \in Nat
  BY <1>1, <1>4, TilePut
<1>7. CASE cut = TRUE
  <2>1. /\ Kept(k)' + InSlots(Worn(p), k) + InBoxes(Boxes(p), k)
              <= Kept(k) + InSlots(bare, k) + InBoxes(Boxes(p), k)
        /\ Kept(k) \in Nat /\ Kept(k)' \in Nat /\ InBoxes(Boxes(p), k) \in Nat
    BY <1>1, <1>3, <1>7, LeavesLedger
  <2>2. Kept(k)' + One(x, k) <= Kept(k)
    BY <1>4, <2>1
  <2> QED BY <1>4, <1>6, <1>7, <2>1, <2>2, UnitsAre
<1>8. CASE cut = FALSE
  <2>1. /\ Kept(k)' + InSlots(Worn(p), k) + InBoxes(Boxes(p), k)
              = Kept(k) + InSlots(bare, k) + InBoxes(e, k)
        /\ Kept(k) \in Nat /\ Kept(k)' \in Nat /\ InBoxes(Boxes(p), k) \in Nat
    BY <1>1, <1>8, HasLedger
  <2>2. Kept(k)' + One(x, k) = Kept(k)
    BY <1>4, <1>5, <2>1
  <2>3. Units(k)' = Units(k) /\ Units(k) \in Nat
    BY <1>4, <1>6, <2>1, <2>2, UnitsAre
  <2> QED BY <2>3
<1> QED BY <1>7, <1>8

LEMMA SwapLedger ==
    ASSUME Inv, Inv', NEW p, NEW s \in Slot, NEW d \in Slot, NEW k, Swap(p, s, d)
    PROVE  Units(k)' = Units(k)
<1> DEFINE worn == [Worn(p) EXCEPT ![s] = Worn(p)[d], ![d] = Worn(p)[s]]
<1>1. p \in Here /\ s # d /\ Has(p, worn, Boxes(p)) /\ UNCHANGED <<ground, loot>>
  BY DEF Swap
<1>2. PlayersOK
  BY DEF Inv
<1>3. InSlots(worn, k) = InSlots(Worn(p), k)
  BY <1>1, <1>2, PlayerIs, InSlotsSwap
<1> HIDE DEF worn
<1>4. /\ Kept(k)' + InSlots(Worn(p), k) + InBoxes(Boxes(p), k)
            = Kept(k) + InSlots(worn, k) + InBoxes(Boxes(p), k)
      /\ Kept(k) \in Nat /\ Kept(k)' \in Nat
      /\ InSlots(Worn(p), k) \in Nat /\ InBoxes(Boxes(p), k) \in Nat
  BY <1>1, HasLedger
<1>5. Kept(k)' = Kept(k)
  BY <1>3, <1>4
<1>6. Lay(k)' = Lay(k)
  BY <1>1, LaySame
<1> QED BY <1>5, <1>6, UnitsAre

\* A handler that changes nothing but the boxes.
LEMMA BoxesLedger ==
    ASSUME Inv, Inv', NEW p \in Here, NEW b, Has(p, Worn(p), b), UNCHANGED <<ground, loot>>, NEW k
    PROVE  /\ InBoxes(b, k) <= InBoxes(Boxes(p), k) => Units(k)' <= Units(k)
           /\ InBoxes(b, k) = InBoxes(Boxes(p), k) => Units(k)' = Units(k)
           /\ Units(k)' + InBoxes(Boxes(p), k) = Units(k) + InBoxes(b, k)
           /\ InBoxes(b, k) \in Nat /\ InBoxes(Boxes(p), k) \in Nat
           /\ Units(k) \in Nat /\ Units(k)' \in Nat
<1> DEFINE w == InSlots(Worn(p), k)
           m == InBoxes(Boxes(p), k)
           n == InBoxes(b, k)
<1>1. /\ Kept(k)' + w + m = Kept(k) + w + n
      /\ Kept(k) \in Nat /\ Kept(k)' \in Nat /\ w \in Nat /\ m \in Nat /\ n \in Nat
  BY HasLedger
<1>2. Lay(k)' = Lay(k) /\ Lay(k) \in Nat
  BY LaySame
<1> HIDE DEF w, m, n
<1>3. Units(k)' + m = Units(k) + n /\ Units(k) \in Nat /\ Units(k)' \in Nat
  BY <1>1, <1>2, UnitsAre
<1>4. (n <= m => Units(k)' <= Units(k)) /\ (n = m => Units(k)' = Units(k))
  BY <1>1, <1>3
<1> QED BY <1>1, <1>3, <1>4 DEF m, n

LEMMA BoxToBoxLedger ==
    ASSUME Inv, Inv', NEW p, NEW c, NEW i, NEW d \in Cid, NEW j, NEW cut \in BOOLEAN, NEW k,
           BoxToBox(p, c, i, d, j, cut)
    PROVE  /\ Units(k)' <= Units(k)
           /\ cut = FALSE /\ Spares(p, d, j) /\ d \in Used(Boxes(p)) => Units(k)' = Units(k)
<1> DEFINE B == Boxes(p)
           thing == B[c].items[i]
           dest == IF thing.kind \in Container THEN [boxes |-> B, cid |-> d]
                   ELSE Destination(B, d, j)
           b == dest.boxes
           left == Popped(b, c, i)
           back == left[dest.cid] # None /\ Full(left, dest.cid)
           e == IF back THEN c ELSE dest.cid
           x == b[c].items[i]
           Sure == cut = FALSE /\ Spares(p, d, j) /\ d \in Used(B)
<1>1. /\ p \in Here /\ c \in Used(B) /\ i \in DOMAIN B[c].items
      /\ \/ i \notin DOMAIN b[c].items /\ Has(p, Worn(p), b)
         \/ i \in DOMAIN b[c].items /\ cut = TRUE /\ LeavesWith(p, Worn(p), Pop(b, c, i))
         \/ i \in DOMAIN b[c].items /\ Has(p, Worn(p), Push(left, e, x))
      /\ UNCHANGED <<ground, loot>>
  BY DEF BoxToBox
<1>2. Worn(p) \in Wear /\ B \in BoxMaps /\ c \in Cid
  BY <1>1, PlayerIs, InBox DEF Inv
<1>3. InBoxes(B, k) \in Nat /\ InSlots(Worn(p), k) \in Nat
  BY <1>2, InBoxesIs, InSlotsIs
<1>4. /\ b \in BoxMaps /\ dest.cid \in Cid /\ c \in Used(b)
      /\ InBoxes(b, k) <= InBoxes(B, k) /\ InBoxes(b, k) \in Nat
      /\ Used(B) # Cid \/ b = B => /\ InBoxes(b, k) = InBoxes(B, k)
                                   /\ d \in Used(B) => dest.cid \in Used(b)
                                   /\ b[c] = B[c]
  <2>1. CASE thing.kind \in Container
    <3>1. b = B /\ dest.cid = d
      BY <2>1
    <3> HIDE DEF b, B, dest
    <3> QED BY <1>1, <1>2, <1>3, <3>1
  <2>2. CASE thing.kind \notin Container
    <3> DEFINE r == Destination(B, d, j)
    <3>1. b = r.boxes /\ dest.cid = r.cid
      BY <2>2
    <3>2. /\ r.boxes \in BoxMaps /\ r.cid \in Cid
          /\ InBoxes(r.boxes, k) <= InBoxes(B, k) /\ InBoxes(r.boxes, k) \in Nat
          /\ Used(B) \subseteq Used(r.boxes)
          /\ Used(B) # Cid \/ r.boxes = B => /\ InBoxes(r.boxes, k) = InBoxes(B, k)
                                             /\ d \in Used(B) => r.cid \in Used(r.boxes)
                                             /\ \A f \in Used(B) : r.boxes[f] = B[f]
      <4> HIDE DEF B
      <4> QED BY <1>2, InBoxesDestination
    <3> HIDE DEF b, B, dest, r
    <3> QED BY <1>1, <3>1, <3>2
  <2> QED BY <2>1, <2>2
<1>5. Sure => /\ cut = FALSE /\ (Used(B) # Cid \/ b = B) /\ d \in Used(B)
              /\ Len(B[c].items) <= B[c].capacity
  BY <1>1 DEF Spares
<1> HIDE DEF thing, dest, b, Sure
<1>6. Sure => /\ InBoxes(b, k) = InBoxes(B, k) /\ dest.cid \in Used(b) /\ b[c] = B[c]
              /\ cut = FALSE /\ Len(B[c].items) <= B[c].capacity
  <2> HIDE DEF B
  <2> QED BY <1>4, <1>5
<1>7. ASSUME i \in DOMAIN b[c].items
      PROVE  /\ Pop(b, c, i) \in BoxMaps /\ left \in BoxMaps
             /\ InBoxes(Pop(b, c, i), k) + One(x, k) = InBoxes(b, k)
             /\ InBoxes(left, k) + One(x, k) = InBoxes(b, k)
             /\ InBoxes(Pop(b, c, i), k) \in Nat /\ InBoxes(left, k) \in Nat /\ One(x, k) \in Nat
  BY <1>4, <1>7, InBoxesPop
<1>8. CASE i \notin DOMAIN b[c].items /\ Has(p, Worn(p), b)
  <2>1. /\ InBoxes(b, k) <= InBoxes(B, k) => Units(k)' <= Units(k)
        /\ InBoxes(b, k) = InBoxes(B, k) => Units(k)' = Units(k)
    BY <1>1, <1>8, BoxesLedger
  <2> QED BY <1>4, <1>6, <2>1 DEF Sure
<1>9. CASE i \in DOMAIN b[c].items /\ cut = TRUE /\ LeavesWith(p, Worn(p), Pop(b, c, i))
  <2> DEFINE q == Pop(b, c, i)
  <2>1. q \in BoxMaps /\ InBoxes(q, k) <= InBoxes(b, k) /\ InBoxes(q, k) \in Nat
    BY <1>4, <1>7, <1>9
  <2> HIDE DEF q
  <2>2. LeavesWith(p, Worn(p), q)
    BY <1>9 DEF q
  <2>3. /\ Kept(k)' + InSlots(Worn(p), k) + InBoxes(B, k)
              <= Kept(k) + InSlots(Worn(p), k) + InBoxes(q, k)
        /\ Kept(k) \in Nat /\ Kept(k)' \in Nat
    BY <1>1, <1>2, <2>1, <2>2, LeavesLedger
  <2>4. Lay(k)' = Lay(k) /\ Lay(k) \in Nat
    BY <1>1, LaySame
  <2>5. Kept(k)' <= Kept(k)
    <3> HIDE DEF B
    <3> QED BY <1>3, <1>4, <2>1, <2>3
  <2> QED BY <1>9, <2>3, <2>4, <2>5, UnitsAre
<1>10. CASE i \in DOMAIN b[c].items /\ Has(p, Worn(p), Push(left, e, x))
  <2>1. left \in BoxMaps
    BY <1>7, <1>10
  <2>2. x \in Things
    <3>1. b[c].items \in Seq(Things)
      BY <1>4, UsedIs, OpenBoxIs
    <3> QED BY <1>10, <3>1, SeqIs
  <2>3. e \in Cid
    BY <1>2, <1>4
  <2>4. Sure => e \in Used(left) /\ ~Full(left, e)
    <3>1. SUFFICES ASSUME Sure PROVE e \in Used(left) /\ ~Full(left, e)
      OBVIOUS
    <3>2. dest.cid \in Used(b) /\ b[c] = B[c] /\ Len(B[c].items) <= B[c].capacity
      BY <1>6, <3>1
    <3>3. /\ Sits(b, left) /\ left[c].items = RemoveAt(b[c].items, i)
          /\ Len(RemoveAt(b[c].items, i)) = Len(b[c].items) - 1
      BY <1>4, <1>10, PoppedIs
    <3> HIDE DEF left
    <3>4. Used(left) = Used(b) /\ left[c].capacity = b[c].capacity
      BY <1>4, <3>3 DEF Sits
    <3>5. CASE back
      <4>1. e = c
        BY <3>5
      <4>2. Len(left[c].items) = Len(b[c].items) - 1
        BY <3>3
      <4>3. Len(b[c].items) \in Nat /\ b[c].capacity \in Nat
        <5>1. b[c] \in OpenBoxes
          BY <1>4, UsedIs
        <5>2. b[c].items \in Seq(Things) /\ b[c].capacity \in Nat
          BY <5>1, OpenBoxIs
        <5> QED BY <5>2, SeqIs
      <4>4. Len(b[c].items) <= b[c].capacity
        BY <3>2
      <4>5. ~(Len(left[c].items) >= left[c].capacity)
        BY <3>4, <4>2, <4>3, <4>4
      <4> QED BY <1>4, <3>4, <4>1, <4>5 DEF Full
    <3>6. CASE ~back
      <4>1. e = dest.cid /\ left[dest.cid] # None
        BY <3>2, <3>4, <3>6 DEF Used
      <4> QED BY <3>2, <3>4, <3>6, <4>1
    <3> QED BY <3>5, <3>6
  <2> HIDE DEF e
  <2>5. /\ InBoxes(Push(left, e, x), k) <= InBoxes(left, k) + One(x, k)
        /\ Sure => InBoxes(Push(left, e, x), k) = InBoxes(left, k) + One(x, k)
        /\ InBoxes(Push(left, e, x), k) \in Nat
    <3> HIDE DEF left, x
    <3> QED BY <2>1, <2>2, <2>3, <2>4, InBoxesPush
  <2> DEFINE f == Push(left, e, x)
  <2>6. /\ InBoxes(f, k) <= InBoxes(B, k) => Units(k)' <= Units(k)
        /\ InBoxes(f, k) = InBoxes(B, k) => Units(k)' = Units(k)
    <3>1. Has(p, Worn(p), f)
      BY <1>10
    <3> HIDE DEF f
    <3> QED BY <1>1, <3>1, BoxesLedger
  <2>7. InBoxes(left, k) + One(x, k) = InBoxes(b, k) /\ InBoxes(left, k) \in Nat /\ One(x, k) \in Nat
    BY <1>7, <1>10
  <2>8. InBoxes(f, k) <= InBoxes(B, k)
    <3> HIDE DEF left, x, B
    <3> QED BY <1>3, <1>4, <2>5, <2>7
  <2>9. Sure => InBoxes(f, k) = InBoxes(B, k)
    <3> HIDE DEF left, x, B
    <3> QED BY <1>4, <1>6, <2>5, <2>7
  <2> QED BY <2>6, <2>8, <2>9 DEF Sure
<1> QED BY <1>1, <1>8, <1>9, <1>10

LEMMA GroundToBoxLedger ==
    ASSUME Inv, Inv', NEW p, NEW a \in Tile, NEW i \in Items(a), NEW c \in Cid, NEW n \in Nat,
           NEW cut \in BOOLEAN, NEW k, GroundToBox(p, a, i, c, n, cut)
    PROVE  Units(k)' <= Units(k) /\ (cut = FALSE => Units(k)' = Units(k))
<1> DEFINE x == TakenOff(ground[a], i, n)
           e == Push(Boxes(p), c, x)
<1>1. /\ p \in Here /\ c \in Used(Boxes(p)) /\ ~Full(Boxes(p), c)
      /\ ground' = [ground EXCEPT ![a] = Take(@, i, n)] /\ UNCHANGED loot
      /\ cut = TRUE => Leaves(p)
      /\ cut = FALSE => Has(p, Worn(p), e)
  BY DEF GroundToBox, TakenOff
<1>2. /\ Lay(k)' + One(x, k) = Lay(k) /\ x \in Things
      /\ Lay(k) \in Nat /\ Lay(k)' \in Nat /\ One(x, k) \in Nat
  BY <1>1, TileTake
<1> HIDE DEF x
<1>3. CASE cut = TRUE
  <2>1. Kept(k)' <= Kept(k) /\ Kept(k) \in Nat /\ Kept(k)' \in Nat
    BY <1>1, <1>3, LeavesLess
  <2> QED BY <1>2, <1>3, <2>1, UnitsAre
<1>4. CASE cut = FALSE
  <2>1. Boxes(p) \in BoxMaps
    BY <1>1, PlayerIs DEF Inv
  <2>2. InBoxes(e, k) = InBoxes(Boxes(p), k) + One(x, k)
    BY <1>1, <1>2, <2>1, InBoxesPush
  <2> HIDE DEF e
  <2>3. /\ Kept(k)' + InSlots(Worn(p), k) + InBoxes(Boxes(p), k)
              = Kept(k) + InSlots(Worn(p), k) + InBoxes(e, k)
        /\ Kept(k) \in Nat /\ Kept(k)' \in Nat
        /\ InSlots(Worn(p), k) \in Nat /\ InBoxes(Boxes(p), k) \in Nat
    BY <1>1, <1>4, HasLedger
  <2>4. Kept(k)' = Kept(k) + One(x, k)
    <3> DEFINE w == InSlots(Worn(p), k)
               m == InBoxes(Boxes(p), k)
               o == One(x, k)
    <3>1. /\ Kept(k)' + w + m = Kept(k) + w + (m + o)
          /\ w \in Nat /\ m \in Nat /\ o \in Nat
      BY <1>2, <2>2, <2>3
    <3> HIDE DEF w, m, o
    <3>2. Kept(k)' = Kept(k) + o
      BY <2>3, <3>1
    <3> QED BY <3>2 DEF o
  <2>5. Units(k)' = Units(k) /\ Units(k) \in Nat
    BY <1>2, <2>3, <2>4, UnitsAre
  <2> QED BY <2>5
<1> QED BY <1>3, <1>4

LEMMA BoxToGroundLedger ==
    ASSUME Inv, Inv', NEW p, NEW c, NEW i, NEW t \in Tile, NEW k, BoxToGround(p, c, i, t)
    PROVE  Units(k)' = Units(k)
<1> DEFINE e == Popped(Boxes(p), c, i)
           x == Boxes(p)[c].items[i]
<1>1. /\ p \in Here /\ c \in Used(Boxes(p)) /\ i \in DOMAIN Boxes(p)[c].items /\ Sound(ground[t])
      /\ ground' = [ground EXCEPT ![t] = Put(@, x)] /\ UNCHANGED loot
      /\ Has(p, Worn(p), e)
  BY DEF BoxToGround
<1>2. Boxes(p) \in BoxMaps /\ x \in Things
  BY <1>1, PlayerIs, InBox DEF Inv
<1>3. InBoxes(e, k) + One(x, k) = InBoxes(Boxes(p), k) /\ InBoxes(e, k) \in Nat /\ One(x, k) \in Nat
  BY <1>1, <1>2, InBoxesPop
<1> HIDE DEF x, e
<1>4. Lay(k)' = Lay(k) + One(x, k) /\ Lay(k) \in Nat /\ Lay(k)' \in Nat
  BY <1>1, <1>2, TilePut
<1>5. /\ Kept(k)' + InSlots(Worn(p), k) + InBoxes(Boxes(p), k)
            = Kept(k) + InSlots(Worn(p), k) + InBoxes(e, k)
      /\ Kept(k) \in Nat /\ Kept(k)' \in Nat
      /\ InSlots(Worn(p), k) \in Nat /\ InBoxes(Boxes(p), k) \in Nat
  BY <1>1, HasLedger
<1>6. Kept(k)' + One(x, k) = Kept(k)
  BY <1>3, <1>5
<1> QED BY <1>3, <1>4, <1>5, <1>6, UnitsAre

LEMMA SlotToBoxLedger ==
    ASSUME Inv, Inv', NEW p, NEW s \in Slot, NEW c \in Cid, NEW cut \in BOOLEAN, NEW k,
           SlotToBox(p, s, c, cut)
    PROVE  Units(k)' <= Units(k) /\ (cut = FALSE => Units(k)' = Units(k))
<1> DEFINE bare == [Worn(p) EXCEPT ![s] = None]
           x == Worn(p)[s]
           e == Push(Boxes(p), c, x)
           w == InSlots(Worn(p), k)
           v == InSlots(bare, k)
           m == InBoxes(Boxes(p), k)
           n == InBoxes(e, k)
           o == One(x, k)
<1>1. /\ p \in Here /\ x # None /\ c \in Used(Boxes(p)) /\ ~Full(Boxes(p), c)
      /\ UNCHANGED <<ground, loot>>
      /\ cut = TRUE => LeavesWith(p, bare, Boxes(p))
      /\ cut = FALSE => Has(p, bare, e)
  BY DEF SlotToBox
<1>2. Worn(p) \in Wear /\ Boxes(p) \in BoxMaps /\ bare \in Wear
  BY <1>1, PlayerIs, Bared DEF Inv
<1>3. v + o = w /\ x \in Things /\ o \in Nat /\ v \in Nat /\ w \in Nat
  BY <1>1, <1>2, SlotLoss
<1> HIDE DEF x
<1>4. n = m + o /\ m \in Nat
  BY <1>1, <1>2, <1>3, InBoxesPush
<1>5. Lay(k)' = Lay(k) /\ Lay(k) \in Nat
  BY <1>1, LaySame
<1>6. CASE cut = TRUE
  <2>1. /\ Kept(k)' + w + m <= Kept(k) + v + m
        /\ Kept(k) \in Nat /\ Kept(k)' \in Nat
    BY <1>1, <1>2, <1>6, LeavesLedger
  <2> HIDE DEF w, v, m, n, o
  <2>2. Kept(k)' <= Kept(k)
    BY <1>3, <1>4, <2>1
  <2> QED BY <1>5, <1>6, <2>1, <2>2, UnitsAre
<1>7. CASE cut = FALSE
  <2> HIDE DEF bare, e
  <2>1. /\ Kept(k)' + w + m = Kept(k) + v + n
        /\ Kept(k) \in Nat /\ Kept(k)' \in Nat
    BY <1>1, <1>7, HasLedger
  <2> HIDE DEF w, v, m, n, o
  <2>2. Kept(k)' + (v + o) + m = Kept(k) + v + (m + o)
    BY <1>3, <1>4, <2>1
  <2>3. v \in Nat /\ o \in Nat /\ m \in Nat
    BY <1>3, <1>4
  <2>4. Kept(k)' = Kept(k)
    BY <2>1, <2>2, <2>3
  <2>5. Units(k)' = Units(k) /\ Units(k) \in Nat
    BY <1>5, <2>1, <2>4, UnitsAre
  <2> QED BY <2>5
<1> QED BY <1>6, <1>7

LEMMA BoxToSlotLedger ==
    ASSUME Inv, Inv', NEW p, NEW c, NEW i, NEW s \in Slot, NEW cut \in BOOLEAN, NEW k,
           BoxToSlot(p, c, i, s, cut)
    PROVE  Units(k)' <= Units(k)
<1> DEFINE x == Boxes(p)[c].items[i]
           worn == IF s \in Fits[x.kind] /\ ~cut THEN [Worn(p) EXCEPT ![s] = x] ELSE Worn(p)
           e == IF cut THEN Pop(Boxes(p), c, i) ELSE Popped(Boxes(p), c, i)
           w == InSlots(Worn(p), k)
           v == InSlots(worn, k)
           m == InBoxes(Boxes(p), k)
           n == InBoxes(e, k)
           o == One(x, k)
<1>1. /\ p \in Here /\ c \in Used(Boxes(p)) /\ i \in DOMAIN Boxes(p)[c].items /\ Worn(p)[s] = None
      /\ Ends(p, cut, worn, e)
      /\ UNCHANGED <<ground, loot>>
  BY DEF BoxToSlot
<1>2. Worn(p) \in Wear /\ Boxes(p) \in BoxMaps /\ x \in Things
  BY <1>1, PlayerIs, InBox DEF Inv
<1>3. n + o = m /\ n \in Nat /\ o \in Nat /\ m \in Nat /\ e \in BoxMaps
  <2>1. /\ Pop(Boxes(p), c, i) \in BoxMaps /\ Popped(Boxes(p), c, i) \in BoxMaps
        /\ InBoxes(Pop(Boxes(p), c, i), k) + One(x, k) = InBoxes(Boxes(p), k)
        /\ InBoxes(Popped(Boxes(p), c, i), k) + One(x, k) = InBoxes(Boxes(p), k)
        /\ InBoxes(Pop(Boxes(p), c, i), k) \in Nat /\ InBoxes(Popped(Boxes(p), c, i), k) \in Nat
        /\ InBoxes(Boxes(p), k) \in Nat /\ One(x, k) \in Nat
    BY <1>1, <1>2, InBoxesPop
  <2> QED BY <2>1
<1> HIDE DEF x
<1>4. worn \in Wear /\ v <= w + o /\ w \in Nat /\ v \in Nat
  <2>1. w \in Nat
    BY <1>2, InSlotsIs
  <2>2. CASE s \in Fits[x.kind] /\ ~cut
    <3>1. worn = [Worn(p) EXCEPT ![s] = x]
      BY <2>2
    <3>2. InSlots([Worn(p) EXCEPT ![s] = x], k) = w + o
      BY <1>1, <1>2, SlotGain
    <3>3. [Worn(p) EXCEPT ![s] = x] \in Wear
      BY <1>2 DEF Wear
    <3>4. v = w + o /\ worn \in Wear
      BY <3>1, <3>2, <3>3
    <3> HIDE DEF w, v, o, worn
    <3> QED BY <1>3, <2>1, <3>4
  <2>3. CASE ~(s \in Fits[x.kind] /\ ~cut)
    <3>1. worn = Worn(p)
      BY <2>3
    <3>2. v = w /\ worn \in Wear
      BY <1>2, <3>1
    <3> HIDE DEF w, v, o, worn
    <3> QED BY <1>3, <2>1, <3>2
  <2> QED BY <2>2, <2>3
<1>5. Lay(k)' = Lay(k) /\ Lay(k) \in Nat
  BY <1>1, LaySame
<1> HIDE DEF worn, e
<1>6. Kept(k)' + w + m <= Kept(k) + v + n /\ Kept(k) \in Nat /\ Kept(k)' \in Nat
  <2>1. CASE cut = TRUE
    <3>1. LeavesWith(p, worn, e)
      BY <1>1, <2>1 DEF Ends
    <3> QED BY <1>1, <1>3, <1>4, <3>1, LeavesLedger
  <2>2. CASE cut = FALSE
    <3>1. Has(p, worn, e)
      BY <1>1, <2>2 DEF Ends
    <3>2. Kept(k)' + w + m = Kept(k) + v + n /\ Kept(k) \in Nat /\ Kept(k)' \in Nat
      BY <1>1, <3>1, HasLedger
    <3> HIDE DEF w, v, m, n
    <3> QED BY <1>3, <1>4, <3>2
  <2> QED BY <2>1, <2>2
<1> HIDE DEF w, v, m, n, o
<1>7. Kept(k)' <= Kept(k)
  BY <1>3, <1>4, <1>6
<1> QED BY <1>5, <1>6, <1>7, UnitsAre

LEMMA LoginLedger ==
    ASSUME Inv, Inv', NEW p \in Player, NEW t \in Tile, NEW k, Login(p, t)
    PROVE  Units(k)' <= Units(k)
<1> DEFINE x == [at |-> t, worn |-> saved[p].worn, boxes |-> Restored(saved[p])]
<1>1. p \notin Here /\ UNCHANGED <<ground, loot, saved>>
  BY DEF Login
<1>2. Here' = Here \union {p} /\ players'[p] = x /\ \A q \in Here : players'[q] = players[q]
  BY DEF Login, Here
<1>3. PlayersOK /\ SavedOK /\ PlayersOK' /\ SavedOK'
  BY DEF Inv
<1>4. ASSUME NEW q \in Player \ {p} PROVE Purse(players', saved', q, k) = Purse(players, saved, q, k)
  <2>1. q \in DOMAIN players' <=> q \in DOMAIN players
    BY <1>2 DEF Here
  <2>2. q \in DOMAIN players => players'[q] = players[q]
    BY <1>2 DEF Here
  <2> QED BY <1>1, <2>1, <2>2 DEF Purse
<1>5. /\ Kept(k)' + Purse(players, saved, p, k) = Kept(k) + Purse(players', saved', p, k)
      /\ Kept(k) \in Nat /\ Kept(k)' \in Nat
  BY <1>3, <1>4, OnePlayer
<1> DEFINE w == InSlots(saved[p].worn, k)
           r == InRows(saved[p].rows, k)
           b == InBoxes(Restored(saved[p]), k)
<1>6. Purse(players, saved, p, k) = w + r /\ saved[p] \in Saves
  BY <1>1, <1>3, PurseIs
<1>7. Purse(players', saved', p, k) = w + b
  <2>1. p \in DOMAIN players' /\ players'[p].worn = saved[p].worn /\ players'[p].boxes = Restored(saved[p])
    BY <1>2 DEF Here
  <2> QED BY <2>1 DEF Purse
<1>8. b <= r /\ b \in Nat /\ r \in Nat
  BY <1>6, RestoredLess
<1>9. w \in Nat
  <2>1. saved[p].worn \in Wear
    BY <1>6 DEF Saves, Wear
  <2> QED BY <2>1, InSlotsIs
<1> HIDE DEF w, r, b
<1>10. Kept(k)' <= Kept(k)
  BY <1>5, <1>6, <1>7, <1>8, <1>9
<1>11. Lay(k)' = Lay(k) /\ Lay(k) \in Nat
  BY <1>1, LaySame
<1> QED BY <1>5, <1>10, <1>11, UnitsAre

LEMMA LogoutLedger ==
    ASSUME Inv, Inv', NEW p, NEW k, Logout(p)
    PROVE  Units(k)' <= Units(k)
<1>1. p \in Here /\ Leaves(p) /\ UNCHANGED <<ground, loot>>
  BY DEF Logout
<1>2. Kept(k)' <= Kept(k) /\ Kept(k) \in Nat /\ Kept(k)' \in Nat
  BY <1>1, LeavesLess
<1>3. Lay(k)' = Lay(k) /\ Lay(k) \in Nat
  BY <1>1, LaySame
<1> QED BY <1>2, <1>3, UnitsAre

LEMMA StepLedger ==
    ASSUME Inv, Inv', NEW p, NEW t \in Tile, NEW k, Step(p, t)
    PROVE  Units(k)' <= Units(k)
<1> DEFINE b == WalkedAway(Boxes(p), t)
<1>1. p \in Here /\ UNCHANGED <<ground, loot, saved>>
  BY DEF Step
<1>2. PlayersOK /\ SavedOK /\ PlayersOK' /\ SavedOK'
  BY DEF Inv
<1>3. p \in Player /\ Boxes(p) \in BoxMaps /\ players[p] \in [at : Tile, worn : Wear, boxes : BoxMaps]
  BY <1>1, <1>2, PlayerIs DEF PlayersOK, Good
<1>4. players' = [players EXCEPT ![p] = [[players[p] EXCEPT !.at = t] EXCEPT !.boxes = b]]
  BY DEF Step, Boxes
<1>5. InBoxes(b, k) = InBoxes(Boxes(p), k)
  BY <1>3, WalkedAwaySame
<1> HIDE DEF b
<1> DEFINE x == [[players[p] EXCEPT !.at = t] EXCEPT !.boxes = b]
<1>6. x.worn = Worn(p) /\ x.boxes = b
  BY <1>3 DEF Worn
<1>7. Here' = Here /\ players'[p] = x /\ \A q \in Here \ {p} : players'[q] = players[q]
  <2> HIDE DEF x
  <2>1. players' = [players EXCEPT ![p] = x]
    BY <1>4 DEF x
  <2> QED BY <1>1, <2>1 DEF Here
<1> HIDE DEF x
<1>8. ASSUME NEW q \in Player \ {p} PROVE Purse(players', saved', q, k) = Purse(players, saved, q, k)
  <2>1. DOMAIN players' = DOMAIN players
    BY <1>7 DEF Here
  <2>2. q \in DOMAIN players => players'[q] = players[q]
    BY <1>7 DEF Here
  <2> QED BY <1>1, <2>1, <2>2 DEF Purse
<1>9. /\ Kept(k)' + Purse(players, saved, p, k) = Kept(k) + Purse(players', saved', p, k)
      /\ Kept(k) \in Nat /\ Kept(k)' \in Nat
      /\ Purse(players, saved, p, k) \in Nat
  BY <1>2, <1>3, <1>8, OnePlayer
<1>10. Purse(players, saved, p, k) = InSlots(Worn(p), k) + InBoxes(Boxes(p), k)
  BY <1>1, <1>2, <1>3, PurseIs
<1>11. Purse(players', saved', p, k) = InSlots(Worn(p), k) + InBoxes(b, k)
  <2>1. p \in DOMAIN players' /\ players'[p].worn = Worn(p) /\ players'[p].boxes = b
    BY <1>1, <1>6, <1>7 DEF Here
  <2> QED BY <2>1 DEF Purse
<1>12. Purse(players', saved', p, k) = Purse(players, saved, p, k)
  BY <1>5, <1>10, <1>11
<1>13. Kept(k)' = Kept(k)
  BY <1>9, <1>12
<1>14. Lay(k)' = Lay(k) /\ Lay(k) \in Nat
  BY <1>1, LaySame
<1>15. Units(k)' = Units(k) /\ Units(k) \in Nat
  BY <1>9, <1>13, <1>14, UnitsAre
<1> QED BY <1>15

\* A box given up for a new one that holds nothing, and one opened or closed.
LEMMA TogglesLedger ==
    ASSUME Inv, Inv', NEW p \in Here, NEW source \in Source, NEW kind \in Kind, NEW hint,
           Toggles(p, source, kind, hint), UNCHANGED <<ground, loot>>, NEW k
    PROVE  Units(k)' <= Units(k)
<1> DEFINE b == Boxes(p)
<1>1. b \in BoxMaps
  BY PlayerIs DEF Inv
<1>2. CASE From(b, source) # {}
  <2> DEFINE c == First(From(b, source))
             e == [b EXCEPT ![c].open = ~@, ![c].capacity = IF b[c].open THEN @ ELSE Capacity[kind]]
  <2>1. c \in From(b, source)
    <3>1. From(b, source) \subseteq Nat
      BY <1>1, UsedIs
    <3> QED BY <1>2, <3>1, FirstIn
  <2>2. c \in Cid /\ b[c] \in OpenBoxes
    BY <1>1, <2>1, UsedIs DEF From
  <2>3. Has(p, Worn(p), e)
    BY <1>2 DEF Toggles
  <2> HIDE DEF b, c
  <2>4. e[c].items = b[c].items /\ \A d \in Cid \ {c} : e[d] = b[d]
    BY <1>1, <2>2 DEF BoxMaps, OpenBoxes
  <2> HIDE DEF e
  <2>5. e \in BoxMaps
    <3>1. PlayersOK /\ PlayersOK'
      BY DEF Inv
    <3>2. Here' = Here /\ players'[p] = [at |-> At(p), worn |-> Worn(p), boxes |-> e]
      BY <2>3, <3>1, HasIs
    <3>3. Good(players'[p])
      BY <3>1, <3>2 DEF PlayersOK
    <3> DEFINE x == players'[p]
    <3>4. x.boxes = e
      BY <3>2
    <3> HIDE DEF x
    <3>5. Good(x)
      BY <3>3 DEF x
    <3> QED BY <3>4, <3>5, GoodIs
  <2>6. InBoxes(e, k) <= InBoxes(b, k)
    <3>1. b[c] # None /\ Holds(b[c], k) \in Nat
      BY <2>2, Apart, HoldsIs
    <3>2. Holds(e[c], k) = 0 \/ Holds(e[c], k) = Holds(b[c], k)
      BY <2>4, <3>1 DEF Holds
    <3>3. \A d \in Cid \ {c} : Holds(e[d], k) = Holds(b[d], k)
      BY <2>4
    <3>4. /\ InBoxes(e, k) + Holds(b[c], k) = InBoxes(b, k) + Holds(e[c], k)
          /\ InBoxes(e, k) \in Nat /\ InBoxes(b, k) \in Nat
      BY <1>1, <2>2, <2>5, <3>3, InBoxesAt
    <3> QED BY <3>1, <3>2, <3>4
  <2>7. InBoxes(e, k) <= InBoxes(b, k) => Units(k)' <= Units(k)
    BY <2>3, BoxesLedger DEF b
  <2> QED BY <2>6, <2>7
<1>3. CASE From(b, source) = {}
  <2> DEFINE x == Box(kind, source, <<>>, TRUE)
  <2>1. PICK d \in IF hint \in Cid \ Used(b) THEN {hint} ELSE Free(b) :
            Has(p, Worn(p), [b EXCEPT ![d] = x])
    BY <1>3 DEF Toggles
  <2>2. d \in Cid
    BY <1>1, FreeIs
  <2>3. x \in OpenBoxes /\ x.items = <<>>
    <3>1. <<>> \in Seq(Things) /\ TRUE \in BOOLEAN
      OBVIOUS
    <3> QED BY <3>1, BoxIs
  <2> HIDE DEF x, b
  <2>4. Holds(x, k) = 0
    BY <2>3, AmountNone DEF Holds
  <2> DEFINE e == [b EXCEPT ![d] = x]
  <2>5. /\ InBoxes(e, k) + Holds(b[d], k) = InBoxes(b, k) + Holds(x, k)
        /\ InBoxes(e, k) \in Nat /\ InBoxes(b, k) \in Nat /\ Holds(b[d], k) \in Nat
    BY <1>1, <2>2, <2>3, InBoxesSet
  <2> HIDE DEF e
  <2>6. InBoxes(e, k) <= InBoxes(b, k)
    BY <2>4, <2>5
  <2>7. InBoxes(e, k) <= InBoxes(b, k) => Units(k)' <= Units(k)
    BY <2>1, BoxesLedger DEF b, e
  <2> QED BY <2>6, <2>7
<1> QED BY <1>2, <1>3

LEMMA UseCarriedContainerLedger ==
    ASSUME Inv, Inv', NEW p, NEW source \in Carried(p), NEW hint, NEW k,
           UseCarriedContainer(p, source, hint)
    PROVE  Units(k)' <= Units(k)
<1>1. p \in Here /\ PlayersOK /\ UNCHANGED <<ground, loot>>
  BY DEF UseCarriedContainer, Inv
<1>2. PICK thing \in UsableAt(p, source) :
          thing.kind \in Container /\ Toggles(p, source, thing.kind, hint)
  BY DEF UseCarriedContainer
<1>3. thing.kind \in Kind /\ source \in Source
  BY <1>1, UsableIs, ThingIs
<1> QED BY <1>1, <1>2, <1>3, TogglesLedger

LEMMA UseGroundContainerLedger ==
    ASSUME Inv, Inv', NEW p, NEW t \in Tile, NEW i \in Items(t), NEW hint, NEW k,
           UseGroundContainer(p, t, i, hint)
    PROVE  Units(k)' <= Units(k)
<1>1. p \in Here /\ GroundOK /\ UNCHANGED <<ground, loot>>
  BY DEF UseGroundContainer, Inv
<1>2. ground[t].stack[i].kind \in Kind
  BY <1>1, TileIs
<1>3. OnGround(t) \in Source
  BY SourceIs
<1>4. Toggles(p, OnGround(t), ground[t].stack[i].kind, hint)
  BY DEF UseGroundContainer
<1> QED BY <1>1, <1>2, <1>3, <1>4, TogglesLedger

\* What was in the corpse is in the box, or nowhere.
LEMMA OpenCorpseLedger ==
    ASSUME Inv, Inv', NEW p, NEW t \in Tile, NEW i \in Items(t), NEW k, OpenCorpse(p, t, i)
    PROVE  Units(k)' <= Units(k)
<1> DEFINE kind == IF corpses[t] = None THEN ground[t].stack[i].kind ELSE corpses[t]
           l == loot[t]
           box == Box(kind, OnGround(t), l, TRUE)
           b == Boxes(p)
<1>1. /\ p \in Here /\ l # None
      /\ \/ UNCHANGED <<players, saved>>
         \/ Free(b) # {} /\ Has(p, Worn(p), [b EXCEPT ![First(Free(b))] = box])
      /\ loot' = [loot EXCEPT ![t] = None]
      /\ UNCHANGED <<ground>>
  BY DEF OpenCorpse
<1>2. /\ PlayersOK /\ SavedOK /\ GroundOK /\ LootOK /\ CorpsesOK
      /\ PlayersOK' /\ SavedOK' /\ GroundOK' /\ LootOK'
  BY DEF Inv
<1>3. kind \in Kind /\ l \in Seq(Things)
  BY <1>1, <1>2, TileIs, ItemsAssumption DEF LootOK, CorpsesOK
<1> HIDE DEF kind, l
<1>4. box \in OpenBoxes /\ box.items = l
  <2>1. TRUE \in BOOLEAN /\ OnGround(t) \in Source
    BY SourceIs
  <2> QED BY <1>3, <2>1, BoxIs
<1> HIDE DEF box, b
<1>5. Lay(k)' + Amount(l, k) = Lay(k) /\ Amount(l, k) \in Nat /\ Lay(k) \in Nat /\ Lay(k)' \in Nat
  <2>1. \A u \in Tile \ {t} : ground'[u] = ground[u] /\ loot'[u] = loot[u]
    BY <1>1, <1>2 DEF LootOK
  <2>2. /\ Lay(k)' + Amount(ground[t].stack, k) + InCorpse(loot[t], k)
            = Lay(k) + Amount(ground'[t].stack, k) + InCorpse(loot'[t], k)
        /\ Lay(k) \in Nat /\ Lay(k)' \in Nat
        /\ Amount(ground[t].stack, k) \in Nat /\ InCorpse(loot[t], k) \in Nat
    BY <1>2, <2>1, OneTile
  <2>3. Amount(ground'[t].stack, k) = Amount(ground[t].stack, k)
    BY <1>1
  <2>4. InCorpse(loot[t], k) = Amount(l, k)
    BY <1>1 DEF InCorpse, l
  <2>5. InCorpse(loot'[t], k) = 0
    BY <1>1, <1>2 DEF InCorpse, LootOK
  <2> QED BY <2>2, <2>3, <2>4, <2>5
<1>6. Kept(k)' <= Kept(k) + Amount(l, k) /\ Kept(k) \in Nat /\ Kept(k)' \in Nat
  <2>1. CASE UNCHANGED <<players, saved>>
    <3>1. Kept(k)' = Kept(k) /\ Kept(k) \in Nat
      BY <2>1, KeptSame
    <3> QED BY <1>5, <3>1
  <2>2. CASE Free(b) # {} /\ Has(p, Worn(p), [b EXCEPT ![First(Free(b))] = box])
    <3>1. b \in BoxMaps
      BY <1>1, <1>2, PlayerIs DEF b
    <3>2. PICK d \in Free(b) : TRUE
      BY <2>2
    <3>3. d \in Cid /\ First(Free(b)) = d
      BY <3>1, <3>2, FreeIs
    <3> DEFINE e == [b EXCEPT ![d] = box]
               w == InSlots(Worn(p), k)
    <3>4. Has(p, Worn(p), e)
      BY <2>2, <3>3
    <3>5. /\ InBoxes(e, k) + Holds(b[d], k) = InBoxes(b, k) + Holds(box, k)
          /\ InBoxes(e, k) \in Nat /\ InBoxes(b, k) \in Nat /\ Holds(b[d], k) \in Nat
      BY <1>4, <3>1, <3>3, InBoxesSet
    <3> HIDE DEF e
    <3>6. Holds(box, k) = Amount(l, k)
      BY <1>4, Apart DEF Holds
    <3>7. /\ Kept(k)' + w + InBoxes(b, k) = Kept(k) + w + InBoxes(e, k)
          /\ Kept(k) \in Nat /\ Kept(k)' \in Nat /\ w \in Nat
      BY <1>1, <3>4, HasLedger DEF b
    <3> HIDE DEF w
    <3>8. Kept(k)' + InBoxes(b, k) = Kept(k) + InBoxes(e, k)
      BY <3>5, <3>7
    <3> QED BY <1>5, <3>5, <3>6, <3>7, <3>8
  <2> QED BY <1>1, <2>1, <2>2
<1> QED BY <1>5, <1>6, UnitsAre

\* A torch lit or put out is one of a kind less and one of another more.
Relit(x, y) ==
    /\ x \in Things /\ x.kind \in Toggled /\ y = [kind |-> Toggle[x.kind], count |-> x.count]
    /\ \A k : Units(k)' + One(x, k) = Units(k) + One(y, k)

LEMMA RelitIs ==
    ASSUME NEW x \in Things, x.kind \in Toggled
    PROVE  /\ [x EXCEPT !.kind = Toggle[@]] = [kind |-> Toggle[x.kind], count |-> x.count]
           /\ [kind |-> Toggle[x.kind], count |-> x.count] \in Things
           /\ [kind |-> Toggle[x.kind], count |-> x.count] # None
<1>1. [x EXCEPT !.kind = Toggle[@]] = [kind |-> Toggle[x.kind], count |-> x.count]
  BY DEF Things
<1>2. [x EXCEPT !.kind = Toggle[@]] \in Things
  BY Rekind
<1>3. [kind |-> Toggle[x.kind], count |-> x.count] \in Things
  BY <1>1, <1>2
<1> DEFINE y == [kind |-> Toggle[x.kind], count |-> x.count]
<1> HIDE DEF y
<1>4. y \in Things
  BY <1>3 DEF y
<1>5. y # None
  BY <1>4, Apart
<1> QED BY <1>1, <1>3, <1>5 DEF y

\* The boxes when the contents of one of them become another sequence.
LEMMA ItemsLedgered ==
    ASSUME Inv, NEW p \in Here, NEW c \in Used(Boxes(p)), NEW q \in Seq(Things), NEW k
    PROVE  /\ InBoxes([Boxes(p) EXCEPT ![c].items = q], k) + Amount(Boxes(p)[c].items, k)
                = InBoxes(Boxes(p), k) + Amount(q, k)
           /\ InBoxes([Boxes(p) EXCEPT ![c].items = q], k) \in Nat /\ InBoxes(Boxes(p), k) \in Nat
           /\ Amount(Boxes(p)[c].items, k) \in Nat /\ Amount(q, k) \in Nat
<1> DEFINE b == Boxes(p)
           e == [b EXCEPT ![c].items = q]
<1>1. b \in BoxMaps
  BY PlayerIs DEF Inv
<1>2. /\ e \in BoxMaps /\ Used(e) = Used(b) /\ e[c].items = q
      /\ \A d \in Cid \ {c} : e[d] = b[d]
  BY ItemSet DEF Inv
<1> HIDE DEF e, b
<1>3. c \in Used(b)
  BY DEF b
<1>4. \A d \in Used(b) \ {c} : e[d].items = b[d].items
  BY <1>2 DEF Used
<1>5. /\ InBoxes(e, k) + Amount(b[c].items, k) = InBoxes(b, k) + Amount(e[c].items, k)
      /\ InBoxes(e, k) \in Nat /\ InBoxes(b, k) \in Nat
      /\ Amount(b[c].items, k) \in Nat /\ Amount(e[c].items, k) \in Nat
  BY <1>1, <1>2, <1>3, <1>4, InBoxesItems
<1> QED BY <1>2, <1>5 DEF e, b

LEMMA ToggleCarriedLedger ==
    ASSUME Inv, Inv', NEW p, NEW source \in Carried(p), ToggleCarried(p, source)
    PROVE  \E x, y : Relit(x, y)
<1> DEFINE s == source.at
           i == source.idx
           b == Boxes(p)
<1>1. p \in Here /\ PlayersOK /\ UNCHANGED <<ground, loot>>
  BY DEF ToggleCarried, Inv
<1>2. PICK thing \in UsableAt(p, source) :
          /\ thing.kind \in Toggled
          /\ IF source.in = "slot"
             THEN Has(p, [Worn(p) EXCEPT ![s].kind = Toggle[@]], b)
             ELSE Has(p, Worn(p), [b EXCEPT ![s].items[i].kind = Toggle[@]])
  BY DEF ToggleCarried
<1>3. Worn(p) \in Wear /\ b \in BoxMaps
  BY <1>1, PlayerIs
<1>4. thing \in Things
  BY <1>1, UsableIs
<1> DEFINE y == [kind |-> Toggle[thing.kind], count |-> thing.count]
<1>5. [thing EXCEPT !.kind = Toggle[@]] = y /\ y \in Things /\ y # None
  BY <1>2, <1>4, RelitIs
<1>6. ASSUME NEW k PROVE Units(k)' + One(thing, k) = Units(k) + One(y, k)
  <2>0. One(thing, k) \in Nat /\ One(y, k) \in Nat
    <3> HIDE DEF y
    <3> QED BY <1>4, <1>5, OneIs
  <2>1. CASE source.in = "slot"
    <3>1. s \in Slot /\ thing = Worn(p)[s]
      BY <1>1, <2>1, UsableIs
    <3> DEFINE worn == [Worn(p) EXCEPT ![s] = y]
    <3>2. [Worn(p) EXCEPT ![s].kind = Toggle[@]] = worn
      <4>1. [Worn(p) EXCEPT ![s].kind = Toggle[@]]
              = [Worn(p) EXCEPT ![s] = [thing EXCEPT !.kind = Toggle[@]]]
        BY <3>1
      <4> HIDE DEF y
      <4> QED BY <1>5, <4>1
    <3>3. Has(p, worn, b)
      BY <1>2, <2>1, <3>2
    <3> HIDE DEF y
    <3>4. /\ InSlots(worn, k) + Bears(thing, k) = InSlots(Worn(p), k) + Bears(y, k)
          /\ InSlots(worn, k) \in Nat /\ InSlots(Worn(p), k) \in Nat
      BY <1>3, <1>5, <3>1, InSlotsSet
    <3>5. Bears(thing, k) = One(thing, k) /\ Bears(y, k) = One(y, k)
      BY <1>4, <1>5, Apart DEF Bears, One
    <3> DEFINE v == InSlots(worn, k)
               w == InSlots(Worn(p), k)
               m == InBoxes(b, k)
    <3>6. /\ Kept(k)' + w + m = Kept(k) + v + m
          /\ Kept(k) \in Nat /\ Kept(k)' \in Nat /\ m \in Nat
      <4> HIDE DEF worn
      <4> QED BY <1>1, <3>3, HasLedger
    <3>7. Lay(k)' = Lay(k) /\ Lay(k) \in Nat
      BY <1>1, LaySame
    <3> DEFINE o == One(thing, k)
               u == One(y, k)
    <3>8. v + o = w + u /\ v \in Nat /\ w \in Nat /\ o \in Nat /\ u \in Nat
      BY <2>0, <3>4, <3>5
    <3> HIDE DEF v, w, m, o, u
    <3>9. Kept(k)' + o = Kept(k) + u
      BY <3>6, <3>8
    <3>10. Units(k)' + o = Units(k) + u
      BY <3>6, <3>7, <3>8, <3>9, UnitsAre
    <3> QED BY <3>10 DEF o, u
  <2>2. CASE source.in # "slot"
    <3>1. s \in Used(b) /\ b[s].items \in Seq(Things) /\ i \in DOMAIN b[s].items /\ thing = b[s].items[i]
      BY <1>1, <2>2, UsableIs
    <3> DEFINE q == [b[s].items EXCEPT ![i] = y]
    <3>2. [b EXCEPT ![s].items[i].kind = Toggle[@]] = [b EXCEPT ![s].items = q]
      <4>1. [b EXCEPT ![s].items[i].kind = Toggle[@]]
              = [b EXCEPT ![s].items = [b[s].items EXCEPT ![i] = [thing EXCEPT !.kind = Toggle[@]]]]
        BY <3>1
      <4> HIDE DEF y
      <4> QED BY <1>5, <4>1
    <3> HIDE DEF y
    <3>3. /\ q \in Seq(Things)
          /\ Amount(q, k) + One(thing, k) = Amount(b[s].items, k) + One(y, k)
          /\ Amount(q, k) \in Nat /\ Amount(b[s].items, k) \in Nat
      <4> DEFINE l == b[s].items
      <4>1. l \in Seq(Things) /\ i \in DOMAIN l /\ thing = l[i] /\ y \in Things
        BY <1>5, <3>1
      <4> HIDE DEF l, i
      <4>2. /\ [l EXCEPT ![i] = y] \in Seq(Things)
            /\ Amount([l EXCEPT ![i] = y], k) + One(l[i], k) = Amount(l, k) + One(y, k)
            /\ Amount([l EXCEPT ![i] = y], k) \in Nat /\ Amount(l, k) \in Nat
        BY <4>1, AmountSet
      <4> QED BY <4>1, <4>2 DEF l
    <3> HIDE DEF q
    <3> DEFINE e == [b EXCEPT ![s].items = q]
    <3>4. /\ InBoxes(e, k) + Amount(b[s].items, k) = InBoxes(b, k) + Amount(q, k)
          /\ InBoxes(e, k) \in Nat /\ InBoxes(b, k) \in Nat
      BY <1>1, <3>1, <3>3, ItemsLedgered
    <3>5. Has(p, Worn(p), e)
      BY <1>2, <2>2, <3>2
    <3> HIDE DEF e
    <3>6. /\ Units(k)' + InBoxes(b, k) = Units(k) + InBoxes(e, k)
          /\ Units(k) \in Nat /\ Units(k)' \in Nat
      BY <1>1, <3>5, BoxesLedger
    <3> DEFINE m == InBoxes(b, k)
               n == InBoxes(e, k)
               o == One(thing, k)
               u == One(y, k)
               r == Amount(b[s].items, k)
               z == Amount(q, k)
    <3>7. /\ Units(k)' + m = Units(k) + n /\ n + r = m + z /\ z + o = r + u
          /\ m \in Nat /\ n \in Nat /\ o \in Nat /\ u \in Nat /\ r \in Nat /\ z \in Nat
          /\ Units(k) \in Nat /\ Units(k)' \in Nat
      BY <2>0, <3>3, <3>4, <3>6
    <3> HIDE DEF m, n, o, u, r, z
    <3>8. Units(k)' + o = Units(k) + u
      BY <3>7
    <3> QED BY <3>8 DEF o, u
  <2> QED BY <2>1, <2>2
<1>7. Relit(thing, y)
  BY <1>2, <1>4, <1>6 DEF Relit
<1> QED BY <1>7

LEMMA ToggleOnGroundLedger ==
    ASSUME Inv, Inv', NEW p, NEW t \in Tile, NEW i \in Items(t), ToggleOnGround(p, t, i)
    PROVE  \E x, y : Relit(x, y)
<1> DEFINE st == ground[t]
           x == st.stack[i]
           y == [kind |-> Toggle[x.kind], count |-> x.count]
           q == [st.stack EXCEPT ![i] = y]
           after == [st EXCEPT !.stack = q]
<1>1. /\ x.kind \in Toggled /\ ground' = [ground EXCEPT ![t].stack[i].kind = Toggle[@]]
      /\ UNCHANGED <<players, saved, loot>>
  BY DEF ToggleOnGround
<1>2. GroundOK /\ t \in DOMAIN ground
  BY DEF Inv, GroundOK
<1>3. st \in Piles /\ st.stack \in Seq(Things) /\ x \in Things /\ i \in DOMAIN st.stack
  BY <1>2, TileIs DEF Items
<1>4. [x EXCEPT !.kind = Toggle[@]] = y /\ y \in Things
  BY <1>1, <1>3, RelitIs
<1>5. ground' = [ground EXCEPT ![t] = after]
  <2>1. ground' = [ground EXCEPT ![t] = [st EXCEPT !.stack =
                      [st.stack EXCEPT ![i] = [x EXCEPT !.kind = Toggle[@]]]]]
    BY <1>1, <1>2
  <2> HIDE DEF st, x, y
  <2> QED BY <1>4, <2>1
<1>6. ASSUME NEW k PROVE Units(k)' + One(x, k) = Units(k) + One(y, k)
  <2> HIDE DEF st, x, y
  <2>1. /\ q \in Seq(Things)
        /\ Amount(q, k) + One(x, k) = Amount(st.stack, k) + One(y, k)
        /\ Amount(q, k) \in Nat /\ Amount(st.stack, k) \in Nat
        /\ One(x, k) \in Nat /\ One(y, k) \in Nat
    BY <1>3, <1>4, AmountSet DEF x
  <2> HIDE DEF q
  <2>2. after \in Piles /\ after.stack = q
    BY <1>3, <2>1, StackSet, PileIs DEF Piles
  <2> HIDE DEF after
  <2>3. /\ Lay(k)' + Amount(st.stack, k) = Lay(k) + Amount(after.stack, k)
        /\ Lay(k) \in Nat /\ Lay(k)' \in Nat
    BY <1>1, <1>5, <2>2, TileSet DEF st
  <2>4. Kept(k)' = Kept(k) /\ Kept(k) \in Nat
    BY <1>1, KeptSame
  <2>5. Lay(k)' + Amount(st.stack, k) = Lay(k) + Amount(q, k)
    BY <2>2, <2>3
  <2>6. Lay(k)' + One(x, k) = Lay(k) + One(y, k)
    BY <2>1, <2>3, <2>5
  <2>7. Units(k)' = Lay(k)' + Kept(k) /\ Units(k) = Lay(k) + Kept(k)
    BY <2>4, UnitsAre
  <2>8. One(x, k) \in Nat /\ One(y, k) \in Nat
    BY <2>1
  <2>9. Lay(k) \in Nat /\ Lay(k)' \in Nat
    BY <2>3
  <2> QED BY <2>4, <2>6, <2>7, <2>8, <2>9
<1>7. Relit(x, y)
  <2> HIDE DEF st
  <2> QED BY <1>1, <1>3, <1>6 DEF Relit
<1> QED BY <1>7

LEMMA EatenLess ==
    ASSUME NEW x \in Things, NEW k
    PROVE  /\ Amount(Eaten(x), k) <= One(x, k) /\ Amount(Eaten(x), k) \in Nat /\ One(x, k) \in Nat
           /\ Eaten(x) \in Seq(Things)
           /\ Eaten(x) # <<>> => /\ Head(Eaten(x)) \in Things /\ Head(Eaten(x)) # None
                                 /\ One(Head(Eaten(x)), k) = Amount(Eaten(x), k)
<1>1. Eaten(x) \in Seq(Things) /\ One(x, k) \in Nat /\ x.count \in Nat
  BY EatenIs, OneIs, ThingIs
<1>2. CASE Eaten(x) = <<>>
  BY <1>1, <1>2, AmountNone
<1>3. CASE Eaten(x) # <<>>
  <2> DEFINE y == [kind |-> x.kind, count |-> x.count - 1]
  <2>1. y \in Things /\ Eaten(x) = <<y>>
    BY <1>3, EatenIs
  <2>2. y.kind = x.kind /\ y.count = x.count - 1
    OBVIOUS
  <2> HIDE DEF y
  <2>3. Head(Eaten(x)) = y /\ y # None
    BY <2>1, Apart
  <2>4. Amount(Eaten(x), k) = One(y, k) /\ One(y, k) \in Nat
    BY <2>1, AmountOne, OneIs
  <2>5. One(y, k) <= One(x, k)
    BY <1>1, <2>2 DEF One
  <2> QED BY <1>1, <2>1, <2>3, <2>4, <2>5
<1> QED BY <1>2, <1>3

LEMMA EatCarriedLedger ==
    ASSUME Inv, Inv', NEW p, NEW source \in Carried(p), NEW k, EatCarried(p, source)
    PROVE  Units(k)' <= Units(k)
<1> DEFINE s == source.at
           i == source.idx
           b == Boxes(p)
<1>1. p \in Here /\ PlayersOK /\ UNCHANGED <<ground, loot>>
  BY DEF EatCarried, Inv
<1>2. PICK thing \in UsableAt(p, source) :
          IF source.in = "slot"
          THEN Has(p, [Worn(p) EXCEPT ![s] = IF Eaten(thing) = <<>> THEN None ELSE Head(Eaten(thing))], b)
          ELSE Has(p, Worn(p), [b EXCEPT ![s].items =
                    SubSeq(@, 1, i - 1) \o Eaten(thing) \o SubSeq(@, i + 1, Len(@))])
  BY DEF EatCarried
<1>3. Worn(p) \in Wear /\ b \in BoxMaps
  BY <1>1, PlayerIs
<1> DEFINE o == One(thing, k)
           u == Amount(Eaten(thing), k)
<1>4. /\ thing \in Things /\ Eaten(thing) \in Seq(Things)
      /\ u <= o /\ u \in Nat /\ o \in Nat
      /\ Eaten(thing) # <<>> => /\ Head(Eaten(thing)) \in Things /\ Head(Eaten(thing)) # None
                                /\ One(Head(Eaten(thing)), k) = u
  BY <1>1, UsableIs, EatenLess
<1>5. CASE source.in = "slot"
  <2> DEFINE y == IF Eaten(thing) = <<>> THEN None ELSE Head(Eaten(thing))
             worn == [Worn(p) EXCEPT ![s] = y]
             w == InSlots(Worn(p), k)
             v == InSlots(worn, k)
             m == InBoxes(b, k)
  <2>1. s \in Slot /\ thing = Worn(p)[s]
    BY <1>1, <1>5, UsableIs
  <2>2. Has(p, worn, b)
    BY <1>2, <1>5
  <2>3. y \in Things \union {None} /\ Bears(y, k) = u
    <3>1. CASE Eaten(thing) = <<>>
      <4>1. u = 0
        BY <3>1, AmountNone
      <4> HIDE DEF u
      <4> QED BY <3>1, <4>1 DEF Bears
    <3>2. CASE Eaten(thing) # <<>>
      <4>1. y = Head(Eaten(thing))
        BY <3>2
      <4> HIDE DEF y, u
      <4>2. y \in Things /\ y # None /\ One(y, k) = u
        BY <1>4, <3>2, <4>1
      <4> QED BY <4>2 DEF Bears, One
    <3> QED BY <3>1, <3>2
  <2>4. Bears(thing, k) = o
    BY <1>4, Apart DEF Bears, One
  <2> HIDE DEF y
  <2>5. v + Bears(thing, k) = w + Bears(y, k) /\ v \in Nat /\ w \in Nat
    BY <1>3, <2>1, <2>3, InSlotsSet
  <2> HIDE DEF worn
  <2>6. /\ Kept(k)' + w + m = Kept(k) + v + m
        /\ Kept(k) \in Nat /\ Kept(k)' \in Nat /\ m \in Nat
    BY <1>1, <2>2, HasLedger
  <2>7. Lay(k)' = Lay(k) /\ Lay(k) \in Nat
    BY <1>1, LaySame
  <2> HIDE DEF o, u, v, w, m
  <2>8. v <= w
    BY <1>4, <2>3, <2>4, <2>5
  <2>9. Kept(k)' <= Kept(k)
    BY <2>5, <2>6, <2>8
  <2> QED BY <2>6, <2>7, <2>9, UnitsAre
<1>6. CASE source.in # "slot"
  <2> DEFINE r == b[s].items
             q == SubSeq(r, 1, i - 1) \o Eaten(thing) \o SubSeq(r, i + 1, Len(r))
             e == [b EXCEPT ![s].items = q]
  <2>1. s \in Used(b) /\ r \in Seq(Things) /\ i \in DOMAIN r /\ thing = r[i]
    BY <1>1, <1>6, UsableIs
  <2>2. e = [b EXCEPT ![s].items = SubSeq(@, 1, i - 1) \o Eaten(thing) \o SubSeq(@, i + 1, Len(@))]
    BY <2>1
  <2>3. Has(p, Worn(p), e)
    BY <1>2, <1>6, <2>2
  <2> HIDE DEF r
  <2>4. /\ q \in Seq(Things) /\ Amount(q, k) + o = Amount(r, k) + u
        /\ Amount(q, k) \in Nat /\ Amount(r, k) \in Nat
    <3> DEFINE before == SubSeq(r, 1, i - 1)
               after == SubSeq(r, i + 1, Len(r))
               rest == SubSeq(r, i, Len(r))
    <3>1. i \in Nat /\ i >= 1 /\ i <= Len(r) /\ Len(r) \in Nat
      BY <2>1, SeqIs
    <3>2. before \in Seq(Things)
      BY <2>1, <3>1, PartIs
    <3>3. after \in Seq(Things) /\ rest \in Seq(Things) /\ Amount(rest, k) = o + Amount(after, k)
      BY <2>1, AmountPart
    <3>4. Amount(before, k) + Amount(rest, k) = Amount(r, k)
      <4>1. i - 1 \in 0..Len(r) /\ (i - 1) + 1 = i
        BY <3>1
      <4> DEFINE n == i - 1
      <4> HIDE DEF n, i
      <4>2. n \in 0..Len(r) /\ n + 1 = i
        BY <4>1 DEF n
      <4>3. Amount(SubSeq(r, 1, n), k) + Amount(SubSeq(r, n + 1, Len(r)), k) = Amount(r, k)
        BY <2>1, <4>2, AmountCut
      <4> QED BY <4>2, <4>3 DEF n
    <3> HIDE DEF before, after, rest
    <3>5. before \o Eaten(thing) \in Seq(Things)
      BY <1>4, <3>2, JoinIs
    <3>6. Amount(before \o Eaten(thing), k) = Amount(before, k) + u
      BY <1>4, <3>2, AmountJoin
    <3>7. q = (before \o Eaten(thing)) \o after
      BY DEF before, after
    <3> DEFINE z == before \o Eaten(thing)
    <3> HIDE DEF z, q
    <3>8. z \in Seq(Things) /\ q = z \o after /\ Amount(z, k) = Amount(before, k) + u
      BY <3>5, <3>6, <3>7 DEF z
    <3>9. q \in Seq(Things) /\ Amount(q, k) = Amount(z, k) + Amount(after, k)
      BY <3>3, <3>8, AmountJoin, JoinIs
    <3>10. /\ Amount(before, k) \in Nat /\ Amount(after, k) \in Nat /\ Amount(r, k) \in Nat
           /\ Amount(q, k) \in Nat
      BY <2>1, <3>2, <3>3, <3>9, WeightsAre
    <3> HIDE DEF o, u
    <3>11. Amount(q, k) + o = Amount(r, k) + u
      BY <1>4, <3>3, <3>4, <3>8, <3>9, <3>10
    <3> QED BY <3>9, <3>10, <3>11
  <2> HIDE DEF q
  <2>5. /\ InBoxes(e, k) + Amount(r, k) = InBoxes(b, k) + Amount(q, k)
        /\ InBoxes(e, k) \in Nat /\ InBoxes(b, k) \in Nat
    BY <1>1, <2>1, <2>4, ItemsLedgered DEF r
  <2> HIDE DEF e
  <2>6. InBoxes(e, k) <= InBoxes(b, k)
    <3> DEFINE n == InBoxes(e, k)
               m == InBoxes(b, k)
    <3>1. n + Amount(r, k) = m + Amount(q, k) /\ n \in Nat /\ m \in Nat
      BY <2>5
    <3> HIDE DEF n, m, o, u
    <3>2. n <= m
      BY <1>4, <2>4, <3>1
    <3> QED BY <3>2 DEF n, m
  <2>7. InBoxes(e, k) <= InBoxes(b, k) => Units(k)' <= Units(k)
    BY <1>1, <2>3, BoxesLedger
  <2> QED BY <2>6, <2>7
<1> QED BY <1>5, <1>6

LEMMA EatOnGroundLedger ==
    ASSUME Inv, Inv', NEW p, NEW t \in Tile, NEW i \in Items(t), NEW k, EatOnGround(p, t, i)
    PROVE  Units(k)' <= Units(k)
<1> DEFINE same == {j \in Items(t) : ground[t].stack[j].kind = ground[t].stack[i].kind}
           f == First(same)
<1>1. ground' = [ground EXCEPT ![t] = Take(@, f, 1)] /\ UNCHANGED <<players, saved, loot>>
  BY DEF EatOnGround
<1>2. f \in Items(t)
  <2>1. same \subseteq Nat /\ same # {} /\ same \subseteq Items(t)
    BY TileIs, SeqIs DEF Items, Inv
  <2> HIDE DEF same
  <2> QED BY <2>1, FirstIn
<1> HIDE DEF f
<1> DEFINE n == 1
           x == TakenOff(ground[t], f, n)
<1>3. Lay(k)' + One(x, k) = Lay(k) /\ Lay(k) \in Nat /\ Lay(k)' \in Nat /\ One(x, k) \in Nat
  <2>1. ground' = [ground EXCEPT ![t] = Take(@, f, n)] /\ n \in Nat /\ UNCHANGED loot
    BY <1>1
  <2> HIDE DEF n
  <2> QED BY <1>2, <2>1, TileTake
<1> HIDE DEF x
<1>4. Kept(k)' = Kept(k) /\ Kept(k) \in Nat
  BY <1>1, KeptSame
<1>5. Lay(k)' <= Lay(k)
  BY <1>3
<1> QED BY <1>3, <1>4, <1>5, UnitsAre

LEMMA CloseContainerLedger ==
    ASSUME Inv, Inv', NEW p, NEW c, NEW k, CloseContainer(p, c)
    PROVE  Units(k)' <= Units(k)
<1> DEFINE b == Boxes(p)
           x == [b[c] EXCEPT !.open = FALSE]
           e == [b EXCEPT ![c] = x]
<1>1. p \in Here /\ c \in Used(b) /\ Has(p, Worn(p), e) /\ UNCHANGED <<ground, loot>>
  BY DEF CloseContainer
<1>2. b \in BoxMaps /\ c \in Cid /\ b[c] \in OpenBoxes /\ b[c] # None
  BY <1>1, PlayerIs, UsedIs, Apart DEF Inv
<1>3. x \in OpenBoxes /\ x.items = b[c].items
  <2>1. x = [items |-> b[c].items, source |-> b[c].source, open |-> FALSE, capacity |-> b[c].capacity]
    BY <1>2, OpenBoxIs
  <2>2. b[c].items \in Seq(Things) /\ b[c].source \in Source /\ b[c].capacity \in Nat
    BY <1>2, OpenBoxIs
  <2> QED BY <2>1, <2>2, OpenBoxMade
<1> HIDE DEF x, b
<1>4. Holds(x, k) = Holds(b[c], k)
  BY <1>2, <1>3, Apart DEF Holds
<1>5. /\ InBoxes(e, k) + Holds(b[c], k) = InBoxes(b, k) + Holds(x, k)
      /\ InBoxes(e, k) \in Nat /\ InBoxes(b, k) \in Nat /\ Holds(b[c], k) \in Nat
  BY <1>2, <1>3, InBoxesSet
<1> HIDE DEF e
<1>6. InBoxes(e, k) <= InBoxes(b, k)
  BY <1>4, <1>5
<1>7. InBoxes(e, k) <= InBoxes(b, k) => Units(k)' <= Units(k)
  BY <1>1, BoxesLedger DEF b
<1> QED BY <1>6, <1>7

LEMMA UpArrowLedger ==
    ASSUME Inv, Inv', NEW p, NEW c, NEW k, UpArrow(p, c)
    PROVE  Units(k)' <= Units(k)
<1> DEFINE b == Boxes(p)
           e == [b EXCEPT ![c] = None]
<1>1. p \in Here /\ c \in Used(b) /\ Has(p, Worn(p), e) /\ UNCHANGED <<ground, loot>>
  BY DEF UpArrow
<1>2. b \in BoxMaps /\ c \in Cid
  BY <1>1, PlayerIs, UsedIs DEF Inv
<1> HIDE DEF b
<1>3. Holds(None, k) = 0 /\ None \in OpenBoxes \union {None}
  BY DEF Holds
<1>4. /\ InBoxes(e, k) + Holds(b[c], k) = InBoxes(b, k) + Holds(None, k)
      /\ InBoxes(e, k) \in Nat /\ InBoxes(b, k) \in Nat /\ Holds(b[c], k) \in Nat
  BY <1>2, <1>3, InBoxesSet
<1> HIDE DEF e
<1>5. InBoxes(e, k) <= InBoxes(b, k)
  BY <1>3, <1>4
<1>6. InBoxes(e, k) <= InBoxes(b, k) => Units(k)' <= Units(k)
  BY <1>1, BoxesLedger DEF b
<1> QED BY <1>5, <1>6

(***************************************************************************)
(* Deaths, decay, gamemasters: what comes to be is what they make, or copy *)
(* of what a player dies with.                                             *)
(***************************************************************************)
Booked(k) == made[k] + doubled[k]

LEMMA BookedAdds ==
    ASSUME MadeOK, NEW k \in Kind, NEW m \in Nat, NEW n \in Nat,
           made'[k] = made[k] + m, doubled'[k] = doubled[k] + n
    PROVE  Booked(k)' = Booked(k) + (n + m) /\ Booked(k) \in Nat
BY DEF Booked, MadeOK

LEMMA AddedMore ==
    ASSUME LootOK, NEW t \in Tile, NEW q \in Seq(Things), NEW k
    PROVE  /\ Amount(Added(t, q), k) = InCorpse(loot[t], k) + Amount(Fitting(t, q), k)
           /\ Added(t, q) \in Seq(Things) /\ Fitting(t, q) \in Seq(Things)
           /\ InCorpse(loot[t], k) \in Nat /\ Amount(Fitting(t, q), k) \in Nat
<1>1. Lying(t) \in Seq(Things) /\ Fitting(t, q) \in Seq(Things)
  BY FittingIs
<1>2. Amount(Lying(t), k) = InCorpse(loot[t], k)
  <2>1. CASE loot[t] = None
    BY <2>1, AmountNone DEF InCorpse, Lying
  <2>2. CASE loot[t] # None
    BY <2>2 DEF InCorpse, Lying
  <2> QED BY <2>1, <2>2
<1>3. Amount(Lying(t), k) \in Nat /\ Amount(Fitting(t, q), k) \in Nat
  BY <1>1, WeightsAre
<1>4. Amount(Added(t, q), k) = Amount(Lying(t), k) + Amount(Fitting(t, q), k)
  BY <1>1, AmountJoin DEF Added
<1> QED BY <1>1, <1>2, <1>3, <1>4, AddedIs

LEMMA AmountTwo ==
    ASSUME NEW x \in Things, NEW y \in Things, NEW k
    PROVE  Amount(<<x, y>>, k) = One(x, k) + One(y, k) /\ <<x, y>> \in Seq(Things)
<1> DEFINE q == <<x, y>>
           a == <<x>>
           b == <<y>>
<1>1. /\ q \in Seq(Things) /\ Len(q) = 2 /\ q[1] = x /\ q[2] = y
      /\ a \in Seq(Things) /\ Len(a) = 1 /\ a[1] = x
      /\ b \in Seq(Things) /\ Len(b) = 1 /\ b[1] = y
  OBVIOUS
<1>2. Amount(a, k) = One(x, k) /\ Amount(b, k) = One(y, k)
  BY AmountOne
<1> HIDE DEF q, a, b
<1>3. /\ a \o b \in Seq(Things) /\ Len(a \o b) = 2
      /\ \A i \in 1..2 : (a \o b)[i] = IF i <= 1 THEN a[i] ELSE b[i - 1]
  <2>1. /\ a \o b \in Seq(Things) /\ Len(a \o b) = Len(a) + Len(b)
        /\ \A i \in 1..(Len(a) + Len(b)) : (a \o b)[i] = IF i <= Len(a) THEN a[i] ELSE b[i - Len(a)]
    BY <1>1, ConcatProperties
  <2> QED BY <1>1, <2>1
<1>4. (a \o b)[1] = q[1] /\ (a \o b)[2] = q[2]
  BY <1>1, <1>3
<1>5. ASSUME NEW i \in 1..2 PROVE (a \o b)[i] = q[i]
  <2>1. i = 1 \/ i = 2
    OBVIOUS
  <2> QED BY <1>4, <2>1, Zenon
<1>6. a \o b = q
  BY <1>1, <1>3, <1>5, SeqEqual
<1>7. Amount(a \o b, k) = Amount(a, k) + Amount(b, k)
  BY <1>1, AmountJoin
<1> QED BY <1>1, <1>2, <1>6, <1>7 DEF q

LEMMA CorpseAdds ==
    ASSUME NEW st \in Piles, NEW kind \in Kind, NEW k
    PROVE  /\ Amount(WithCorpse(st, kind).stack, k)
                = Amount(st.stack, k) + One([kind |-> kind, count |-> 1], k)
           /\ WithCorpse(st, kind) \in Piles
           /\ Amount(st.stack, k) \in Nat
           /\ One([kind |-> kind, count |-> 1], k) \in Nat
<1> DEFINE x == [kind |-> kind, count |-> 1]
<1>1. x \in Things /\ st.stack \in Seq(Things)
  BY SingleMade, PileIs
<1>2. WithCorpse(st, kind) \in Piles /\ WithCorpse(st, kind).stack = st.stack \o <<x>>
  BY CorpseIs
<1> HIDE DEF x
<1>3. <<x>> \in Seq(Things) /\ Amount(<<x>>, k) = One(x, k)
  BY <1>1, AmountOne
<1>4. Amount(st.stack \o <<x>>, k) = Amount(st.stack, k) + Amount(<<x>>, k)
  BY <1>1, <1>3, AmountJoin
<1>5. Amount(st.stack, k) \in Nat /\ One(x, k) \in Nat
  BY <1>1, WeightsAre, OneIs
<1> QED BY <1>2, <1>3, <1>4, <1>5 DEF x

LEMMA PlayerDiesLedger ==
    ASSUME Inv, Inv', NEW p, NEW k \in Kind, PlayerDies(p)
    PROVE  Units(k)' + Booked(k) <= Units(k) + Booked(k)'
<1> DEFINE t == At(p)
           blood == [kind |-> Splash, count |-> 1]
           bloody == Insert(ground[t], blood)
           body == [kind |-> HumanCorpse, count |-> 1]
           after == WithCorpse(bloody, HumanCorpse)
           drops == LootOf(p)
<1>1. /\ p \in Here /\ Sound(ground[t])
      /\ ground' = [ground EXCEPT ![t] = after]
      /\ loot' = IF drops = <<>> THEN loot ELSE [loot EXCEPT ![t] = Added(t, drops)]
      /\ Makes(<<body, blood>>) /\ Doubles(Fitting(t, drops))
      /\ Leaves(p)
  BY DEF PlayerDies
<1>2. GroundOK /\ PlayersOK /\ LootOK /\ MadeOK /\ GroundOK' /\ LootOK'
  BY DEF Inv
<1>3. t \in Tile /\ ground[t] \in Piles /\ drops \in Seq(Things)
  BY <1>1, <1>2, PlayerIs, LootOfIs DEF GroundOK
<1>4. blood \in Things /\ body \in Things
  BY SingleMade, ItemsAssumption
<1> HIDE DEF t, blood, drops
<1>5. /\ Amount(bloody.stack, k) = Amount(ground[t].stack, k) + One(blood, k)
      /\ bloody \in Piles /\ Amount(ground[t].stack, k) \in Nat /\ One(blood, k) \in Nat
  BY <1>1, <1>3, <1>4, AmountInserted
<1> HIDE DEF bloody
<1>6. Amount(after.stack, k) = Amount(bloody.stack, k) + One(body, k) /\ One(body, k) \in Nat
  BY <1>5, CorpseAdds, ItemsAssumption
<1> HIDE DEF body, after
<1> DEFINE fits == Fitting(t, drops)
<1>7. /\ fits \in Seq(Things) /\ Amount(fits, k) \in Nat /\ InCorpse(loot[t], k) \in Nat
      /\ Amount(Added(t, drops), k) = InCorpse(loot[t], k) + Amount(fits, k)
      /\ Added(t, drops) \in Seq(Things)
  BY <1>2, <1>3, AddedMore
<1> HIDE DEF fits
<1>8. /\ Booked(k)' = Booked(k) + (Amount(fits, k) + (One(body, k) + One(blood, k)))
      /\ Booked(k) \in Nat
  <2> DEFINE two == <<body, blood>>
  <2>1. two \in Seq(Things) /\ Amount(two, k) = One(body, k) + One(blood, k)
    BY <1>4, AmountTwo
  <2>2. Makes(two) /\ Doubles(fits)
    BY <1>1 DEF fits
  <2> HIDE DEF two
  <2>3. made'[k] = made[k] + Amount(two, k)
    BY <1>2, <2>1, <2>2, MakesKeeps
  <2>4. doubled'[k] = doubled[k] + Amount(fits, k)
    BY <1>2, <1>7, <2>2, DoublesKeeps
  <2>5. Amount(two, k) \in Nat
    BY <1>5, <1>6, <2>1
  <2>6. Booked(k)' = Booked(k) + (Amount(fits, k) + Amount(two, k)) /\ Booked(k) \in Nat
    BY <1>2, <1>7, <2>3, <2>4, <2>5, BookedAdds
  <2> QED BY <2>1, <2>6
<1>9. InCorpse(loot'[t], k) <= InCorpse(loot[t], k) + Amount(fits, k)
  <2>1. CASE drops = <<>>
    <3>1. loot' = loot
      BY <1>1, <2>1
    <3> QED BY <1>7, <3>1
  <2>2. CASE drops # <<>>
    <3>1. loot'[t] = Added(t, drops)
      BY <1>1, <1>2, <1>3, <2>2 DEF LootOK
    <3>2. Added(t, drops) # None
      BY <1>7, Apart
    <3>3. InCorpse(loot'[t], k) = Amount(Added(t, drops), k)
      BY <3>1, <3>2 DEF InCorpse
    <3> QED BY <1>7, <3>3
  <2> QED BY <2>1, <2>2
<1>10. /\ Lay(k)' + Amount(ground[t].stack, k) + InCorpse(loot[t], k)
            = Lay(k) + Amount(after.stack, k) + InCorpse(loot'[t], k)
      /\ Lay(k) \in Nat /\ Lay(k)' \in Nat /\ InCorpse(loot'[t], k) \in Nat
  <2>1. ground'[t] = after /\ \A u \in Tile \ {t} : ground'[u] = ground[u] /\ loot'[u] = loot[u]
    BY <1>1, <1>2, <1>3 DEF GroundOK, LootOK
  <2>2. /\ Lay(k)' + Amount(ground[t].stack, k) + InCorpse(loot[t], k)
            = Lay(k) + Amount(ground'[t].stack, k) + InCorpse(loot'[t], k)
        /\ Lay(k) \in Nat /\ Lay(k)' \in Nat /\ InCorpse(loot'[t], k) \in Nat
    BY <1>2, <1>3, <2>1, OneTile
  <2> QED BY <2>1, <2>2
<1>11. Kept(k)' <= Kept(k) /\ Kept(k) \in Nat /\ Kept(k)' \in Nat
  BY <1>1, LeavesLess
<1> DEFINE n == Amount(ground[t].stack, k)
           l == InCorpse(loot[t], k)
           m == InCorpse(loot'[t], k)
           d == Amount(fits, k)
           o == One(blood, k)
           b == One(body, k)
<1>12. /\ Lay(k)' + n + l = Lay(k) + (n + o + b) + m /\ m <= l + d
       /\ n \in Nat /\ l \in Nat /\ m \in Nat /\ d \in Nat /\ o \in Nat /\ b \in Nat
       /\ Lay(k) \in Nat /\ Lay(k)' \in Nat
  BY <1>5, <1>6, <1>7, <1>10, <1>9
<1>13. Booked(k)' = Booked(k) + (d + (b + o)) /\ Booked(k) \in Nat
  BY <1>8
<1> HIDE DEF n, l, m, d, o, b
<1>14. Lay(k)' <= Lay(k) + (d + (b + o))
  BY <1>12
<1> QED BY <1>11, <1>12, <1>13, <1>14, UnitsAre

LEMMA MonsterDiesLedger ==
    ASSUME Inv, Inv', NEW t \in Tile, NEW bleeds \in BOOLEAN, NEW things \in Drops, NEW k \in Kind,
           NEW corpse \in {MonsterCorpse, None}, MonsterDies(t, bleeds, corpse, things)
    PROVE  Units(k)' + Booked(k) <= Units(k) + Booked(k)'
<1> DEFINE blood == [kind |-> Splash, count |-> 1]
           body == [kind |-> corpse, count |-> 1]
           st == IF bleeds THEN Insert(ground[t], blood) ELSE ground[t]
           after == IF corpse = None THEN st ELSE WithCorpse(st, corpse)
           u == IF bleeds THEN <<blood>> ELSE <<>>
           v == IF corpse = None THEN <<>> ELSE <<body>>
           o == Amount(u, k)
           b == Amount(v, k)
           fits == Fitting(t, things)
<1>1. /\ bleeds => Sound(ground[t])
      /\ ground' = [ground EXCEPT ![t] = after]
      /\ Makes(fits \o u \o v)
      /\ loot' = [loot EXCEPT ![t] = Added(t, things)]
      /\ UNCHANGED <<players, saved, doubled>>
  BY DEF MonsterDies
<1>2. GroundOK /\ LootOK /\ MadeOK /\ GroundOK' /\ LootOK'
  BY DEF Inv
<1>3. ground[t] \in Piles /\ ground[t].stack \in Seq(Things) /\ things \in Seq(Things) /\ blood \in Things
  BY <1>2, TileIs, ItemsAssumption, SingleMade DEF GroundOK
<1>4. /\ Amount(st.stack, k) = Amount(ground[t].stack, k) + o /\ st \in Piles
      /\ u \in Seq(Things) /\ o \in Nat /\ Amount(ground[t].stack, k) \in Nat
  <2> HIDE DEF blood
  <2>1. Amount(ground[t].stack, k) \in Nat
    BY <1>3, WeightsAre
  <2>2. CASE bleeds = TRUE
    <3>1. st = Insert(ground[t], blood) /\ u = <<blood>> /\ u \in Seq(Things)
      BY <1>3, <2>2
    <3>2. /\ Amount(Insert(ground[t], blood).stack, k) = Amount(ground[t].stack, k) + One(blood, k)
          /\ Insert(ground[t], blood) \in Piles /\ One(blood, k) \in Nat
      BY <1>1, <1>3, <2>2, AmountInserted
    <3>3. Amount(<<blood>>, k) = One(blood, k)
      BY <1>3, AmountOne
    <3> QED BY <2>1, <3>1, <3>2, <3>3
  <2>3. CASE bleeds = FALSE
    <3>1. st = ground[t] /\ u = <<>> /\ u \in Seq(Things)
      BY <2>3
    <3>2. o = 0
      BY <3>1, AmountNone
    <3> QED BY <1>3, <2>1, <3>1, <3>2
  <2> QED BY <2>2, <2>3
<1> HIDE DEF st, u
<1>5. Amount(after.stack, k) = Amount(st.stack, k) + b /\ v \in Seq(Things) /\ b \in Nat
  <2>1. CASE corpse = None
    <3>1. after = st /\ v = <<>> /\ v \in Seq(Things)
      BY <2>1
    <3>2. Amount(v, k) = 0
      BY <3>1, AmountNone
    <3>3. Amount(st.stack, k) \in Nat
      BY <1>4
    <3> QED BY <3>1, <3>2, <3>3
  <2>2. CASE corpse # None
    <3>1. corpse \in Kind
      BY <2>2, ItemsAssumption
    <3>2. /\ Amount(WithCorpse(st, corpse).stack, k) = Amount(st.stack, k) + One(body, k)
          /\ One(body, k) \in Nat /\ body \in Things
      BY <1>4, <3>1, CorpseAdds, SingleMade
    <3>3. after = WithCorpse(st, corpse) /\ v = <<body>>
      BY <2>2
    <3> HIDE DEF body, after, v
    <3>4. Amount(v, k) = One(body, k) /\ v \in Seq(Things)
      BY <3>2, <3>3, AmountOne
    <3> QED BY <3>2, <3>3, <3>4
  <2> QED BY <2>1, <2>2
<1> HIDE DEF after, v
<1>6. /\ fits \in Seq(Things) /\ Amount(fits, k) \in Nat /\ InCorpse(loot[t], k) \in Nat
      /\ Amount(Added(t, things), k) = InCorpse(loot[t], k) + Amount(fits, k)
      /\ Added(t, things) \in Seq(Things)
  BY <1>2, <1>3, AddedMore
<1> HIDE DEF fits
<1>7. Booked(k)' = Booked(k) + (Amount(fits, k) + o + b) /\ Booked(k) \in Nat
  <2> DEFINE z == fits \o u
             q == z \o v
  <2>1. z \in Seq(Things) /\ Amount(z, k) = Amount(fits, k) + o
    BY <1>4, <1>6, JoinIs, AmountJoin
  <2>2. Makes(q)
    BY <1>1
  <2> HIDE DEF z
  <2>3. q \in Seq(Things) /\ Amount(q, k) = Amount(z, k) + b
    BY <1>5, <2>1, JoinIs, AmountJoin
  <2> HIDE DEF q
  <2>4. made'[k] = made[k] + Amount(q, k)
    BY <1>2, <2>2, <2>3, MakesKeeps
  <2>5. made'[k] = made[k] + (Amount(fits, k) + o + b)
    BY <2>1, <2>3, <2>4
  <2> DEFINE m == Amount(fits, k) + o + b
  <2>6. m \in Nat /\ made'[k] = made[k] + m
    BY <1>4, <1>5, <1>6, <2>5
  <2>7. doubled'[k] = doubled[k] + 0
    BY <1>1, <1>2 DEF MadeOK
  <2> HIDE DEF m
  <2>8. Booked(k)' = Booked(k) + (0 + m) /\ Booked(k) \in Nat
    BY <1>2, <2>6, <2>7, BookedAdds
  <2>9. Booked(k)' = Booked(k) + m
    BY <2>6, <2>8
  <2> QED BY <2>8, <2>9 DEF m
<1>8. InCorpse(loot'[t], k) = InCorpse(loot[t], k) + Amount(fits, k)
  <2>1. loot'[t] = Added(t, things) /\ Added(t, things) # None
    BY <1>1, <1>2, <1>6, Apart DEF LootOK
  <2>2. InCorpse(loot'[t], k) = Amount(Added(t, things), k)
    BY <2>1 DEF InCorpse
  <2> QED BY <1>6, <2>2
<1>9. /\ Lay(k)' + Amount(ground[t].stack, k) + InCorpse(loot[t], k)
            = Lay(k) + Amount(after.stack, k) + InCorpse(loot'[t], k)
      /\ Lay(k) \in Nat /\ Lay(k)' \in Nat /\ InCorpse(loot'[t], k) \in Nat
  <2>1. ground'[t] = after /\ \A w \in Tile \ {t} : ground'[w] = ground[w] /\ loot'[w] = loot[w]
    BY <1>1, <1>2 DEF GroundOK, LootOK
  <2>2. /\ Lay(k)' + Amount(ground[t].stack, k) + InCorpse(loot[t], k)
            = Lay(k) + Amount(ground'[t].stack, k) + InCorpse(loot'[t], k)
        /\ Lay(k) \in Nat /\ Lay(k)' \in Nat /\ InCorpse(loot'[t], k) \in Nat
    BY <1>2, <2>1, OneTile
  <2> QED BY <2>1, <2>2
<1>10. Kept(k)' = Kept(k) /\ Kept(k) \in Nat
  BY <1>1, KeptSame
<1> DEFINE n == Amount(ground[t].stack, k)
           l == InCorpse(loot[t], k)
           m == InCorpse(loot'[t], k)
           d == Amount(fits, k)
<1>11. /\ Lay(k)' + n + l = Lay(k) + (n + o + b) + m /\ m = l + d
       /\ n \in Nat /\ l \in Nat /\ m \in Nat /\ d \in Nat /\ o \in Nat /\ b \in Nat
       /\ Lay(k) \in Nat /\ Lay(k)' \in Nat
  BY <1>4, <1>5, <1>6, <1>8, <1>9
<1>12. Booked(k)' = Booked(k) + (d + o + b) /\ Booked(k) \in Nat
  BY <1>7
<1> HIDE DEF n, l, m, d, o, b
<1>13. Lay(k)' <= Lay(k) + (d + o + b)
  BY <1>11
<1> QED BY <1>10, <1>11, <1>12, <1>13, UnitsAre

LEMMA DecaysLedger ==
    ASSUME Inv, Inv', NEW d, NEW k, Decays(d)
    PROVE  Units(k)' <= Units(k)
<1> DEFINE t == d.tile
           st == ground[t]
           i == IF d.sp <= st.pre THEN d.sp ELSE Most(d.sp - 1 - CreaturesOn(t), 0) + 1
<1>1. /\ d \in decaying
      /\ ground' = IF i \in DOMAIN st.stack
                   THEN [ground EXCEPT ![t].stack = RemoveAt(@, i)] ELSE ground
      /\ loot' = [loot EXCEPT ![t] = None]
      /\ UNCHANGED <<players, saved>>
  BY DEF Decays
<1>2. GroundOK /\ LootOK /\ GroundOK' /\ LootOK' /\ DecayingOK
  BY DEF Inv
<1>3. t \in Tile /\ st \in Piles /\ st.stack \in Seq(Things)
  BY <1>1, <1>2, PileIs DEF DecayingOK, GroundOK
<1> HIDE DEF i
<1>4. /\ Amount(ground'[t].stack, k) <= Amount(st.stack, k)
      /\ \A u \in Tile \ {t} : ground'[u] = ground[u] /\ loot'[u] = loot[u]
  <2>1. CASE i \in DOMAIN st.stack
    <3> DEFINE q == RemoveAt(st.stack, i)
    <3>1. /\ Amount(q, k) + One(st.stack[i], k) = Amount(st.stack, k)
          /\ Amount(q, k) \in Nat /\ One(st.stack[i], k) \in Nat
      BY <1>3, <2>1, AmountRemove
    <3>2. ground' = [ground EXCEPT ![t] = [st EXCEPT !.stack = q]]
      BY <1>1, <2>1
    <3> HIDE DEF q, st, t
    <3>3. ground'[t] = [st EXCEPT !.stack = q] /\ \A u \in Tile \ {t} : ground'[u] = ground[u]
      BY <1>2, <1>3, <3>2 DEF GroundOK
    <3>4. ground'[t].stack = q
      BY <1>3, <3>3, StackSet
    <3>5. \A u \in Tile \ {t} : loot'[u] = loot[u]
      BY <1>1, <1>2 DEF LootOK, t
    <3>6. Amount(q, k) <= Amount(st.stack, k)
      BY <3>1
    <3> QED BY <3>3, <3>4, <3>5, <3>6
  <2>2. CASE i \notin DOMAIN st.stack
    <3>1. ground' = ground
      BY <1>1, <2>2
    <3>2. Amount(st.stack, k) \in Nat
      BY <1>3, WeightsAre
    <3> HIDE DEF t
    <3>3. \A u \in Tile \ {t} : loot'[u] = loot[u]
      BY <1>1, <1>2 DEF LootOK, t
    <3> QED BY <3>1, <3>2, <3>3
  <2> QED BY <2>1, <2>2
<1>5. InCorpse(loot'[t], k) = 0
  BY <1>1, <1>2, <1>3 DEF InCorpse, LootOK
<1>6. /\ Lay(k)' + Amount(st.stack, k) + InCorpse(loot[t], k)
            = Lay(k) + Amount(ground'[t].stack, k) + InCorpse(loot'[t], k)
      /\ Lay(k) \in Nat /\ Lay(k)' \in Nat
      /\ Amount(st.stack, k) \in Nat /\ InCorpse(loot[t], k) \in Nat
      /\ Amount(ground'[t].stack, k) \in Nat
  <2> HIDE DEF t
  <2> QED BY <1>2, <1>3, <1>4, OneTile
<1> DEFINE n == Amount(st.stack, k)
           m == Amount(ground'[t].stack, k)
           l == InCorpse(loot[t], k)
<1>7. /\ Lay(k)' + n + l = Lay(k) + m + 0 /\ m <= n /\ n \in Nat /\ m \in Nat /\ l \in Nat
      /\ Lay(k) \in Nat /\ Lay(k)' \in Nat
  BY <1>4, <1>5, <1>6
<1> HIDE DEF n, m, l
<1>8. Lay(k)' <= Lay(k)
  BY <1>7
<1>9. Kept(k)' = Kept(k) /\ Kept(k) \in Nat
  BY <1>1, KeptSame
<1> QED BY <1>7, <1>8, <1>9, UnitsAre

LEMMA SpawnItemLedger ==
    ASSUME Inv, Inv', NEW t \in Tile, NEW kind \in Kind, NEW n \in Nat, NEW k \in Kind,
           SpawnItem(t, kind, n)
    PROVE  Units(k)' + Booked(k) <= Units(k) + Booked(k)'
<1> DEFINE m == IF kind \in Stackable THEN Least(Most(n, 1), Cap) ELSE 1
           x == [kind |-> kind, count |-> m]
           st == Insert(ground[t], x)
<1>1. /\ Sound(ground[t]) /\ ground' = [ground EXCEPT ![t] = Insert(@, x)]
      /\ Makes(<<x>>) /\ UNCHANGED <<players, saved, loot, doubled>>
  BY DEF SpawnItem
<1>2. GroundOK /\ MadeOK
  BY DEF Inv
<1>3. x \in Things
  <2>1. m \in 1..Cap /\ (kind \notin Stackable => m = 1)
    BY ItemsAssumption DEF Least, Most
  <2> HIDE DEF m
  <2> QED BY <2>1, ThingMade
<1> HIDE DEF x
<1>4. ground[t] \in Piles /\ ground' = [ground EXCEPT ![t] = st]
  BY <1>1, <1>2 DEF GroundOK
<1>5. Amount(st.stack, k) = Amount(ground[t].stack, k) + One(x, k) /\ st \in Piles /\ One(x, k) \in Nat
  BY <1>1, <1>3, <1>4, AmountInserted
<1> HIDE DEF st
<1>6. /\ Lay(k)' + Amount(ground[t].stack, k) = Lay(k) + Amount(st.stack, k)
      /\ Lay(k) \in Nat /\ Lay(k)' \in Nat
      /\ Amount(ground[t].stack, k) \in Nat /\ Amount(st.stack, k) \in Nat
  BY <1>1, <1>4, <1>5, TileSet
<1>7. Lay(k)' = Lay(k) + One(x, k)
  BY <1>5, <1>6
<1>8. Booked(k)' = Booked(k) + One(x, k) /\ Booked(k) \in Nat
  <2>1. <<x>> \in Seq(Things) /\ Amount(<<x>>, k) = One(x, k)
    BY <1>3, AmountOne
  <2>2. made'[k] = made[k] + Amount(<<x>>, k)
    BY <1>1, <1>2, <2>1, MakesKeeps
  <2>3. doubled'[k] = doubled[k] + 0
    BY <1>1, <1>2 DEF MadeOK
  <2>4. made'[k] = made[k] + One(x, k)
    BY <2>1, <2>2
  <2>5. Booked(k)' = Booked(k) + (0 + One(x, k)) /\ Booked(k) \in Nat
    BY <1>2, <1>5, <2>3, <2>4, BookedAdds
  <2> QED BY <1>5, <2>5
<1>9. Kept(k)' = Kept(k) /\ Kept(k) \in Nat
  BY <1>1, KeptSame
<1>10. One(x, k) \in Nat /\ Lay(k) \in Nat
  BY <1>5, <1>6
<1>11. Units(k)' = Lay(k) + One(x, k) + Kept(k) /\ Units(k) = Lay(k) + Kept(k)
  BY <1>7, <1>9, UnitsAre
<1> QED BY <1>8, <1>9, <1>10, <1>11

(***************************************************************************)
(* The balance of every step.                                              *)
(***************************************************************************)
LEMMA UnitsNatural ==
    ASSUME NEW k
    PROVE  (Inv => Units(k) \in Nat) /\ (Inv' => Units(k)' \in Nat)
<1>1. ASSUME Inv PROVE Units(k) \in Nat
  <2>1. Lands(ground, loot) /\ Folk(players, saved)
    BY <1>1, InvFolk DEF Inv
  <2>2. Lay(k) \in Nat /\ Kept(k) \in Nat
    BY <2>1, PiledIs, PursesAre DEF Lay, Kept
  <2> QED BY <2>2, UnitsAre
<1>2. ASSUME Inv' PROVE Units(k)' \in Nat
  <2>1. Lands(ground', loot') /\ Folk(players', saved')
    BY <1>2, InvFolk DEF Inv
  <2>2. SumFunction(Piled(ground', loot', k)) \in Nat /\ SumFunction(Purses(players', saved', k)) \in Nat
    BY <2>1, PiledIs, PursesAre
  <2>3. Lay(k)' \in Nat /\ Kept(k)' \in Nat
    BY <2>2 DEF Lay, Kept
  <2> QED BY <2>3, UnitsAre
<1> QED BY <1>1, <1>2

LEMMA BookedIs ==
    ASSUME NEW k \in Kind
    PROVE  (Inv => Booked(k) \in Nat) /\ (Inv' => Booked(k)' \in Nat)
BY DEF Booked, Inv, MadeOK

\* Moves make nothing, and no more is there after one than before.
LEMMA MovesLedger ==
    ASSUME Inv, Inv', NEW p, NEW cut \in BOOLEAN, NEW k, Moves(p, cut)
    PROVE  Units(k)' <= Units(k) /\ UNCHANGED <<made, doubled>>
<1> DEFINE Less == Units(k)' <= Units(k) /\ UNCHANGED <<made, doubled>>
<1>0. (\A n \in Amounts : n \in Nat) /\ Units(k) \in Nat
  BY ItemsAssumption, UnitsNatural DEF Amounts
<1>1. ASSUME NEW a \in Tile, NEW b \in Tile, NEW n \in Amounts, NEW i \in Items(a),
             GroundToGround(p, a, i, b, n)
      PROVE  Less
  <2>1. Units(k)' = Units(k)
    BY <1>0, <1>1, GroundToGroundLedger
  <2>2. UNCHANGED <<made, doubled>>
    BY <1>1 DEF GroundToGround
  <2> QED BY <1>0, <2>1, <2>2
<1>2. ASSUME NEW a \in Tile, NEW s \in Slot, NEW n \in Amounts, NEW i \in Items(a),
             Equip(p, a, i, s, n, cut)
      PROVE  Less
  <2>1. UNCHANGED <<made, doubled>>
    BY <1>2 DEF Equip
  <2> QED BY <1>0, <1>2, <2>1, EquipLedger
<1>3. ASSUME NEW s \in Slot, NEW b \in Tile, Unequip(p, s, b, cut) PROVE Less
  <2>1. UNCHANGED <<made, doubled>>
    BY <1>3 DEF Unequip
  <2> QED BY <1>3, <2>1, UnequipLedger
<1>4. ASSUME NEW s \in Slot, NEW d \in Slot, Swap(p, s, d) PROVE Less
  <2>1. Units(k)' = Units(k)
    BY <1>4, SwapLedger
  <2>2. UNCHANGED <<made, doubled>>
    BY <1>4 DEF Swap
  <2> QED BY <1>0, <2>1, <2>2
<1>5. ASSUME NEW c \in Used(Boxes(p)), NEW d \in Cid, NEW i \in Places(p, c), NEW j \in 1..LootMax,
             BoxToBox(p, c, i, d, j, cut)
      PROVE  Less
  <2>1. UNCHANGED <<made, doubled>>
    BY <1>5 DEF BoxToBox
  <2> QED BY <1>5, <2>1, BoxToBoxLedger
<1>6. ASSUME NEW a \in Tile, NEW c \in Cid, NEW n \in Amounts, NEW i \in Items(a),
             GroundToBox(p, a, i, c, n, cut)
      PROVE  Less
  <2>1. UNCHANGED <<made, doubled>>
    BY <1>6 DEF GroundToBox
  <2> QED BY <1>0, <1>6, <2>1, GroundToBoxLedger
<1>7. ASSUME NEW c \in Used(Boxes(p)), NEW t \in Tile, NEW i \in Places(p, c), BoxToGround(p, c, i, t)
      PROVE  Less
  <2>1. Units(k)' = Units(k)
    BY <1>7, BoxToGroundLedger
  <2>2. UNCHANGED <<made, doubled>>
    BY <1>7 DEF BoxToGround
  <2> QED BY <1>0, <2>1, <2>2
<1>8. ASSUME NEW s \in Slot, NEW c \in Cid, SlotToBox(p, s, c, cut) PROVE Less
  <2>1. UNCHANGED <<made, doubled>>
    BY <1>8 DEF SlotToBox
  <2> QED BY <1>8, <2>1, SlotToBoxLedger
<1>9. ASSUME NEW c \in Used(Boxes(p)), NEW s \in Slot, NEW i \in Places(p, c),
             BoxToSlot(p, c, i, s, cut)
      PROVE  Less
  <2>1. UNCHANGED <<made, doubled>>
    BY <1>9 DEF BoxToSlot
  <2> QED BY <1>9, <2>1, BoxToSlotLedger
<1>10. Less
  <2> HIDE DEF Less
  <2> QED BY <1>1, <1>2, <1>3, <1>4, <1>5, <1>6, <1>7, <1>8, <1>9 DEF Moves
<1> QED BY <1>10

\* So do uses, but for a torch.
LEMMA UsesLedger ==
    ASSUME Inv, Inv', NEW p, Uses(p)
    PROVE  UNCHANGED <<made, doubled>> /\ ((\E x, y : Relit(x, y)) \/ (\A k : Units(k)' <= Units(k)))
<1> DEFINE Fine == UNCHANGED <<made, doubled>> /\ ((\E x, y : Relit(x, y)) \/ (\A k : Units(k)' <= Units(k)))
<1>1. ASSUME NEW source \in Carried(p), NEW hint \in Cid, UseCarriedContainer(p, source, hint)
      PROVE  Fine
  <2>1. UNCHANGED <<made, doubled>>
    BY <1>1 DEF UseCarriedContainer
  <2>2. \A k : Units(k)' <= Units(k)
    BY <1>1, UseCarriedContainerLedger
  <2> QED BY <2>1, <2>2
<1>2. ASSUME NEW t \in Tile, NEW hint \in Cid, NEW i \in Items(t), UseGroundContainer(p, t, i, hint)
      PROVE  Fine
  <2>1. UNCHANGED <<made, doubled>>
    BY <1>2 DEF UseGroundContainer
  <2>2. \A k : Units(k)' <= Units(k)
    BY <1>2, UseGroundContainerLedger
  <2> QED BY <2>1, <2>2
<1>3. ASSUME NEW t \in Tile, NEW i \in Items(t), OpenCorpse(p, t, i) PROVE Fine
  <2>1. UNCHANGED <<made, doubled>>
    BY <1>3 DEF OpenCorpse
  <2>2. \A k : Units(k)' <= Units(k)
    BY <1>3, OpenCorpseLedger
  <2> QED BY <2>1, <2>2
<1>4. ASSUME NEW source \in Carried(p), ToggleCarried(p, source) PROVE Fine
  <2>1. UNCHANGED <<made, doubled>>
    BY <1>4 DEF ToggleCarried
  <2> QED BY <1>4, <2>1, ToggleCarriedLedger
<1>5. ASSUME NEW t \in Tile, NEW i \in Items(t), ToggleOnGround(p, t, i) PROVE Fine
  <2>1. UNCHANGED <<made, doubled>>
    BY <1>5 DEF ToggleOnGround
  <2> QED BY <1>5, <2>1, ToggleOnGroundLedger
<1>6. ASSUME NEW source \in Carried(p), EatCarried(p, source) PROVE Fine
  <2>1. UNCHANGED <<made, doubled>>
    BY <1>6 DEF EatCarried
  <2>2. \A k : Units(k)' <= Units(k)
    BY <1>6, EatCarriedLedger
  <2> QED BY <2>1, <2>2
<1>7. ASSUME NEW t \in Tile, NEW i \in Items(t), EatOnGround(p, t, i) PROVE Fine
  <2>1. UNCHANGED <<made, doubled>>
    BY <1>7 DEF EatOnGround
  <2>2. \A k : Units(k)' <= Units(k)
    BY <1>7, EatOnGroundLedger
  <2> QED BY <2>1, <2>2
<1>8. ASSUME NEW c \in Cid, CloseContainer(p, c) PROVE Fine
  <2>1. UNCHANGED <<made, doubled>>
    BY <1>8 DEF CloseContainer
  <2>2. \A k : Units(k)' <= Units(k)
    BY <1>8, CloseContainerLedger
  <2> QED BY <2>1, <2>2
<1>9. ASSUME NEW c \in Cid, UpArrow(p, c) PROVE Fine
  <2>1. UNCHANGED <<made, doubled>>
    BY <1>9 DEF UpArrow
  <2>2. \A k : Units(k)' <= Units(k)
    BY <1>9, UpArrowLedger
  <2> QED BY <2>1, <2>2
<1>10. Fine
  <2> HIDE DEF Fine
  <2> QED BY <1>1, <1>2, <1>3, <1>4, <1>5, <1>6, <1>7, <1>8, <1>9 DEF Uses
<1> QED BY <1>10

\* A step relights a torch, or leaves no more than there was and was made or copied.
Balanced ==
    \/ UNCHANGED <<made, doubled>> /\ \E x, y : Relit(x, y)
    \/ \A k \in Kind : Units(k)' + Booked(k) <= Units(k) + Booked(k)'

LEMMA LessBalances ==
    ASSUME Inv, Inv', UNCHANGED <<made, doubled>>, \A k : Units(k)' <= Units(k)
    PROVE  Balanced
<1>1. ASSUME NEW k \in Kind PROVE Units(k)' + Booked(k) <= Units(k) + Booked(k)'
  <2>1. Units(k)' <= Units(k) /\ Booked(k)' = Booked(k)
    BY DEF Booked
  <2>2. Units(k) \in Nat /\ Units(k)' \in Nat /\ Booked(k) \in Nat
    BY UnitsNatural, BookedIs
  <2> QED BY <2>1, <2>2
<1> QED BY <1>1 DEF Balanced

LEMMA NextBalances ==
    ASSUME Inv, Inv', Next
    PROVE  Balanced
<1>0. \A n \in Amounts : n \in Nat
  BY ItemsAssumption DEF Amounts
<1>1. ASSUME NEW p \in Player, NEW t \in Tile, Login(p, t) PROVE Balanced
  <2>1. UNCHANGED <<made, doubled>>
    BY <1>1 DEF Login
  <2>2. \A k : Units(k)' <= Units(k)
    BY <1>1, LoginLedger
  <2> QED BY <2>1, <2>2, LessBalances
<1>2. ASSUME NEW p \in Player, NEW t \in Tile, Step(p, t) PROVE Balanced
  <2>1. UNCHANGED <<made, doubled>>
    BY <1>2 DEF Step
  <2>2. \A k : Units(k)' <= Units(k)
    BY <1>2, StepLedger
  <2> QED BY <2>1, <2>2, LessBalances
<1>3. ASSUME NEW p \in Here, Logout(p) PROVE Balanced
  <2>1. UNCHANGED <<made, doubled>>
    BY <1>3 DEF Logout
  <2>2. \A k : Units(k)' <= Units(k)
    BY <1>3, LogoutLedger
  <2> QED BY <2>1, <2>2, LessBalances
<1>4. ASSUME NEW p \in Here, PlayerDies(p) PROVE Balanced
  BY <1>4, PlayerDiesLedger DEF Balanced
<1>5. ASSUME NEW p \in Here, Uses(p) PROVE Balanced
  <2>1. UNCHANGED <<made, doubled>>
    BY <1>5, UsesLedger
  <2>2. CASE \E x, y : Relit(x, y)
    BY <2>1, <2>2 DEF Balanced
  <2>3. CASE \A k : Units(k)' <= Units(k)
    BY <2>1, <2>3, LessBalances
  <2> QED BY <1>5, <2>2, <2>3, UsesLedger
<1>6. ASSUME NEW p \in Here, NEW cut \in BOOLEAN, Moves(p, cut) PROVE Balanced
  <2>1. UNCHANGED <<made, doubled>> /\ \A k : Units(k)' <= Units(k)
    BY <1>6, MovesLedger
  <2> QED BY <2>1, LessBalances
<1>7. ASSUME NEW t \in Tile, NEW bleeds \in BOOLEAN, NEW things \in Drops,
             NEW corpse \in {MonsterCorpse, None}, MonsterDies(t, bleeds, corpse, things)
      PROVE  Balanced
  <2>1. ASSUME NEW k \in Kind PROVE Units(k)' + Booked(k) <= Units(k) + Booked(k)'
    BY <1>7, MonsterDiesLedger
  <2> QED BY <2>1 DEF Balanced
<1>8. ASSUME NEW d \in decaying, Decays(d) PROVE Balanced
  <2>1. UNCHANGED <<made, doubled>>
    BY <1>8 DEF Decays
  <2>2. \A k : Units(k)' <= Units(k)
    BY <1>8, DecaysLedger
  <2> QED BY <2>1, <2>2, LessBalances
<1>9. ASSUME NEW t \in Tile, NEW l \in Wanted, NEW n \in Amounts, SpawnItem(t, l, n) PROVE Balanced
  <2>1. l \in Kind /\ n \in Nat
    BY <1>0, ItemsAssumption
  <2>2. ASSUME NEW k \in Kind PROVE Units(k)' + Booked(k) <= Units(k) + Booked(k)'
    BY <1>9, <2>1, SpawnItemLedger
  <2> QED BY <2>2 DEF Balanced
<1>10. ASSUME Panic PROVE Balanced
  <2>1. UNCHANGED <<ground, loot, players, saved, made, doubled>>
    BY <1>10 DEF Panic
  <2>2. ASSUME NEW k PROVE Units(k)' <= Units(k)
    <3>1. Lay(k)' = Lay(k) /\ Kept(k)' = Kept(k) /\ Lay(k) \in Nat /\ Kept(k) \in Nat
      BY <2>1, LaySame, KeptSame
    <3> QED BY <3>1, UnitsAre
  <2> QED BY <2>1, <2>2, LessBalances
<1> QED BY <1>1, <1>2, <1>3, <1>4, <1>5, <1>6, <1>7, <1>8, <1>9, <1>10 DEF Next

(***************************************************************************)
(* Against what was made, and copied.                                      *)
(***************************************************************************)
Given(k) == SumFunction([t \in Tile |-> Amount(Start[t].stack, k)])

LEMMA GivenIs ==
    ASSUME NEW k
    PROVE  Given(k) \in Nat /\ Tally([t \in Tile |-> Amount(Start[t].stack, k)])
<1> DEFINE f == [t \in Tile |-> Amount(Start[t].stack, k)]
<1>1. \A t \in Tile : Amount(Start[t].stack, k) \in Nat
  BY ItemsAssumption, PileIs, WeightsAre
<1>2. f \in [Tile -> Nat] /\ DOMAIN f = Tile
  BY <1>1
<1>3. Tally(f)
  <2> HIDE DEF f
  <2> QED BY <1>2, ItemsAssumption DEF Tally
<1> QED BY <1>3, SumIs DEF Given

Entered(k) == Booked(k) + Given(k)

LEMMA EnteredIs ==
    ASSUME Inv, NEW k \in Kind
    PROVE  /\ Made(k) + Doubled(k) =
                 IF k \in Toggled THEN Entered(k) + Entered(Toggle[k]) ELSE Entered(k)
           /\ Entered(k) \in Nat
<1>1. ASSUME NEW l \in Kind
      PROVE  made[l] \in Nat /\ doubled[l] \in Nat /\ Given(l) \in Nat
  BY GivenIs DEF Inv, MadeOK
<1>2. CASE k \in Toggled
  <2> DEFINE m == Toggle[k]
  <2>1. m \in Kind
    BY <1>2, ItemsAssumption
  <2>2. Made(k) = (made[k] + Given(k)) + (made[m] + Given(m)) /\ Doubled(k) = doubled[k] + doubled[m]
    BY <1>2 DEF Made, Doubled, Given
  <2> HIDE DEF m
  <2>3. Made(k) + Doubled(k) = Entered(k) + Entered(m) /\ Entered(k) \in Nat
    BY <1>1, <2>1, <2>2 DEF Entered, Booked
  <2> QED BY <1>2, <2>3 DEF m
<1>3. CASE k \notin Toggled
  <2>1. Made(k) = made[k] + Given(k) /\ Doubled(k) = doubled[k]
    BY <1>3 DEF Made, Doubled, Given
  <2>2. Made(k) + Doubled(k) = Entered(k) /\ Entered(k) \in Nat
    BY <1>1, <2>1 DEF Entered, Booked
  <2> QED BY <1>3, <2>2
<1> QED BY <1>2, <1>3

LEMMA EnteredNext ==
    ASSUME Inv', NEW k \in Kind
    PROVE  /\ Made(k)' + Doubled(k)' =
                 IF k \in Toggled THEN Entered(k)' + Entered(Toggle[k])' ELSE Entered(k)'
           /\ Entered(k)' \in Nat
<1>1. ASSUME NEW l \in Kind
      PROVE  made'[l] \in Nat /\ doubled'[l] \in Nat /\ Given(l) \in Nat
  BY GivenIs DEF Inv, MadeOK
<1>2. CASE k \in Toggled
  <2> DEFINE m == Toggle[k]
  <2>1. m \in Kind
    BY <1>2, ItemsAssumption
  <2>2. /\ Made(k)' = (made'[k] + Given(k)) + (made'[m] + Given(m))
        /\ Doubled(k)' = doubled'[k] + doubled'[m]
    BY <1>2 DEF Made, Doubled, Given
  <2>3. Entered(Toggle[k])' = (made'[m] + doubled'[m]) + Given(m)
    BY DEF Entered, Booked, Given
  <2>4. Entered(k)' = (made'[k] + doubled'[k]) + Given(k)
    BY DEF Entered, Booked, Given
  <2> HIDE DEF m
  <2>5. Made(k)' + Doubled(k)' = Entered(k)' + Entered(Toggle[k])' /\ Entered(k)' \in Nat
    BY <1>1, <2>1, <2>2, <2>3, <2>4
  <2> QED BY <1>2, <2>5
<1>3. CASE k \notin Toggled
  <2>1. Made(k)' = made'[k] + Given(k) /\ Doubled(k)' = doubled'[k]
    BY <1>3 DEF Made, Doubled, Given
  <2>2. Entered(k)' = (made'[k] + doubled'[k]) + Given(k)
    BY DEF Entered, Booked, Given
  <2> QED BY <1>1, <1>3, <2>1, <2>2
<1> QED BY <1>2, <1>3

\* The torch that was there is gone, the other is there, and both count.
LEMMA RelitTotals ==
    ASSUME Inv, Inv', NEW x, NEW y, Relit(x, y), NEW k \in Kind
    PROVE  Total(k)' = Total(k)
<1> DEFINE a == x.kind
           b == Toggle[a]
           n == x.count
<1>1. /\ a \in Toggled /\ b \in Toggled /\ Toggle[b] = a /\ n \in Nat
      /\ \A l : One(x, l) = IF a = l THEN n ELSE 0
      /\ \A l : One(y, l) = IF b = l THEN n ELSE 0
  <2>1. a \in Toggled /\ x \in Things
    BY DEF Relit
  <2>2. b \in Toggled /\ Toggle[b] = a /\ n \in Nat
    BY <2>1, ItemsAssumption, ThingIs
  <2>3. y.kind = b /\ y.count = n
    BY DEF Relit
  <2> QED BY <2>1, <2>2, <2>3 DEF One
<1>2. ASSUME NEW l
      PROVE  /\ Units(l)' + (IF a = l THEN n ELSE 0) = Units(l) + (IF b = l THEN n ELSE 0)
             /\ Units(l) \in Nat /\ Units(l)' \in Nat
  <2>1. Units(l)' + One(x, l) = Units(l) + One(y, l)
    BY DEF Relit
  <2> QED BY <1>1, <2>1, UnitsNatural
<1> HIDE DEF a, b, n
<1>3. CASE k \in Toggled
  <2> DEFINE m == Toggle[k]
  <2>1. (a = k <=> b = m) /\ (b = k <=> a = m)
    <3>1. Toggle[m] = k
      BY <1>3, ItemsAssumption
    <3> QED BY <1>1, <3>1 DEF b
  <2>2. /\ Units(k)' + (IF a = k THEN n ELSE 0) = Units(k) + (IF b = k THEN n ELSE 0)
        /\ Units(k) \in Nat /\ Units(k)' \in Nat
    BY <1>2
  <2> HIDE DEF m
  <2>3. /\ Units(m)' + (IF a = m THEN n ELSE 0) = Units(m) + (IF b = m THEN n ELSE 0)
        /\ Units(m) \in Nat /\ Units(m)' \in Nat
    BY <1>2
  <2>4. Units(k)' + Units(m)' = Units(k) + Units(m)
    BY <1>1, <2>1, <2>2, <2>3
  <2>5. Total(k) = Units(k) + Units(m) /\ Total(k)' = Units(k)' + Units(m)'
    BY <1>3 DEF Total, m
  <2> QED BY <2>4, <2>5
<1>4. CASE k \notin Toggled
  <2>1. a # k /\ b # k
    BY <1>1, <1>4
  <2>2. Units(k)' + 0 = Units(k) + 0 /\ Units(k) \in Nat /\ Units(k)' \in Nat
    BY <1>2, <2>1
  <2>3. Total(k) = Units(k) /\ Total(k)' = Units(k)'
    BY <1>4 DEF Total
  <2> QED BY <2>2, <2>3
<1> QED BY <1>3, <1>4

LEMMA Accounts ==
    ASSUME Inv, Inv', Balanced, NEW k \in Kind, Total(k) <= Made(k) + Doubled(k)
    PROVE  Total(k)' <= Made(k)' + Doubled(k)'
<1>1. CASE UNCHANGED <<made, doubled>> /\ \E x, y : Relit(x, y)
  <2>1. PICK x, y : Relit(x, y)
    BY <1>1
  <2>2. Total(k)' = Total(k)
    BY <2>1, RelitTotals
  <2>3. Made(k)' = Made(k) /\ Doubled(k)' = Doubled(k)
    BY <1>1 DEF Made, Doubled
  <2> QED BY <2>2, <2>3
<1>2. CASE \A l \in Kind : Units(l)' + Booked(l) <= Units(l) + Booked(l)'
  <2>1. ASSUME NEW l \in Kind
        PROVE  /\ Units(l)' + Entered(l) <= Units(l) + Entered(l)'
               /\ Units(l) \in Nat /\ Units(l)' \in Nat /\ Entered(l) \in Nat /\ Entered(l)' \in Nat
    <3>1. Units(l)' + Booked(l) <= Units(l) + Booked(l)'
      BY <1>2
    <3>2. Units(l) \in Nat /\ Units(l)' \in Nat /\ Booked(l) \in Nat /\ Booked(l)' \in Nat
      BY UnitsNatural, BookedIs
    <3>3. Entered(l) = Booked(l) + Given(l) /\ Entered(l)' = Booked(l)' + Given(l) /\ Given(l) \in Nat
      BY GivenIs DEF Entered, Given
    <3> QED BY <3>1, <3>2, <3>3
  <2>2. CASE k \in Toggled
    <3> DEFINE m == Toggle[k]
    <3>1. m \in Kind
      BY <2>2, ItemsAssumption
    <3>2. Total(k) = Units(k) + Units(m) /\ Total(k)' = Units(k)' + Units(m)'
      BY <2>2 DEF Total
    <3>3. /\ Made(k) + Doubled(k) = Entered(k) + Entered(m)
          /\ Made(k)' + Doubled(k)' = Entered(k)' + Entered(m)'
      BY <2>2, EnteredIs, EnteredNext
    <3> HIDE DEF m
    <3>4. /\ Units(k)' + Entered(k) <= Units(k) + Entered(k)'
          /\ Units(k) \in Nat /\ Units(k)' \in Nat /\ Entered(k) \in Nat /\ Entered(k)' \in Nat
      BY <2>1
    <3>5. /\ Units(m)' + Entered(m) <= Units(m) + Entered(m)'
          /\ Units(m) \in Nat /\ Units(m)' \in Nat /\ Entered(m) \in Nat /\ Entered(m)' \in Nat
      BY <2>1, <3>1
    <3>6. Units(k) + Units(m) <= Entered(k) + Entered(m)
      BY <3>2, <3>3
    <3>7. Units(k)' + Units(m)' <= Entered(k)' + Entered(m)'
      BY <3>4, <3>5, <3>6
    <3> QED BY <3>2, <3>3, <3>7
  <2>3. CASE k \notin Toggled
    <3>1. Total(k) = Units(k) /\ Total(k)' = Units(k)'
      BY <2>3 DEF Total
    <3>2. Made(k) + Doubled(k) = Entered(k) /\ Made(k)' + Doubled(k)' = Entered(k)'
      BY <2>3, EnteredIs, EnteredNext
    <3>3. Units(k) <= Entered(k)
      BY <3>1, <3>2
    <3>4. Units(k)' <= Entered(k)'
      BY <2>1, <3>3
    <3> QED BY <3>1, <3>2, <3>4
  <2> QED BY <2>2, <2>3
<1> QED BY <1>1, <1>2 DEF Balanced

\* In the beginning there is the map.
LEMMA InitUnits ==
    ASSUME Init, NEW k
    PROVE  Units(k) = Given(k)
<1>1. Inv
  BY InitKeeps
<1>2. Lay(k) = Given(k)
  <2> DEFINE f == [t \in Tile |-> Amount(Start[t].stack, k)]
  <2>1. Lands(ground, loot)
    BY <1>1, InvFolk DEF Inv
  <2>2. /\ Tally(Piled(ground, loot, k)) /\ DOMAIN Piled(ground, loot, k) = Tile
        /\ \A t \in Tile : /\ Piled(ground, loot, k)[t] = Amount(ground[t].stack, k) + InCorpse(loot[t], k)
                           /\ Amount(ground[t].stack, k) \in Nat
    BY <2>1, PiledIs
  <2>3. ground = Start /\ \A t \in Tile : InCorpse(loot[t], k) = 0
    BY DEF Init, InCorpse
  <2>4. Tally(f) /\ DOMAIN f = Tile /\ \A t \in Tile : f[t] = Amount(Start[t].stack, k)
    BY GivenIs
  <2> DEFINE g == Piled(ground, loot, k)
  <2>5. \A t \in Tile : g[t] = f[t]
    <3> HIDE DEF f, g
    <3>1. ASSUME NEW t \in Tile PROVE g[t] = f[t]
      <4>1. g[t] = Amount(Start[t].stack, k) + 0 /\ Amount(Start[t].stack, k) \in Nat
        BY <2>2, <2>3 DEF g
      <4> QED BY <2>4, <4>1
    <3> QED BY <3>1
  <2> HIDE DEF f, g
  <2>6. SumFunction(g) = SumFunction(f)
    <3>1. Tally(g) /\ DOMAIN g = Tile
      BY <2>2 DEF g
    <3>2. DOMAIN g = DOMAIN f /\ \A t \in DOMAIN g : g[t] = f[t]
      BY <2>4, <2>5, <3>1
    <3>3. f \in [Tile -> Nat] /\ g \in [Tile -> Nat]
      BY <2>4, <3>1 DEF Tally
    <3>4. g = f
      BY <2>4, <3>1, <3>2, <3>3
    <3> QED BY <3>4
  <2> QED BY <2>6 DEF Lay, Given, f, g
<1>3. Kept(k) = 0
  <2> DEFINE g == Purses(players, saved, k)
  <2>1. Folk(players, saved)
    BY <1>1, InvFolk DEF Inv
  <2>2. /\ Tally(g) /\ DOMAIN g = Player
        /\ \A p \in Player : g[p] = Purse(players, saved, p, k)
    BY <2>1, PursesAre
  <2> DEFINE worn == [s \in Slot |-> None]
             rows == [s \in Slot |-> <<>>]
  <2>3. InSlots(worn, k) = 0
    <3>1. worn \in Wear
      BY DEF Wear
    <3>2. \A s \in Slot : worn[s] = None
      OBVIOUS
    <3> HIDE DEF worn
    <3>3. /\ InSlots(worn, k) = SumFunction(Outfit(worn, k)) /\ Tally(Outfit(worn, k))
          /\ DOMAIN Outfit(worn, k) = Slot /\ \A s \in Slot : Outfit(worn, k)[s] = Bears(worn[s], k)
      BY <3>1, InSlotsIs
    <3>4. \A s \in Slot : Outfit(worn, k)[s] = 0
      BY <3>2, <3>3 DEF Bears
    <3> DEFINE f == Outfit(worn, k)
    <3> HIDE DEF f
    <3>5. Tally(f) /\ \A s \in DOMAIN f : f[s] = 0
      BY <3>3, <3>4 DEF f
    <3>6. SumFunction(f) = 0
      BY <3>5, SumZero
    <3> QED BY <3>3, <3>6 DEF f
  <2>4. InRows(rows, k) = 0
    <3>1. rows \in [Slot -> Seq(Things)]
      OBVIOUS
    <3>2. \A s \in Slot : rows[s] = <<>>
      OBVIOUS
    <3> HIDE DEF rows
    <3>3. /\ InRows(rows, k) = SumFunction(Packed(rows, k)) /\ Tally(Packed(rows, k))
          /\ DOMAIN Packed(rows, k) = Slot /\ \A s \in Slot : Packed(rows, k)[s] = Amount(rows[s], k)
      BY <3>1, InRowsIs
    <3>4. \A s \in Slot : Packed(rows, k)[s] = 0
      BY <3>2, <3>3, AmountNone
    <3> DEFINE f == Packed(rows, k)
    <3> HIDE DEF f
    <3>5. Tally(f) /\ \A s \in DOMAIN f : f[s] = 0
      BY <3>3, <3>4 DEF f
    <3>6. SumFunction(f) = 0
      BY <3>5, SumZero
    <3> QED BY <3>3, <3>6 DEF f
  <2>5. ASSUME NEW p \in Player PROVE Purse(players, saved, p, k) = 0
    <3>1. p \notin DOMAIN players
      BY DEF Init
    <3>2. saved[p].worn = worn /\ saved[p].rows = rows
      BY DEF Init
    <3> HIDE DEF worn, rows
    <3>3. Purse(players, saved, p, k) = InSlots(worn, k) + InRows(rows, k)
      BY <3>1, <3>2 DEF Purse
    <3> QED BY <2>3, <2>4, <3>3
  <2> HIDE DEF g
  <2>6. \A p \in DOMAIN g : g[p] = 0
    BY <2>2, <2>5
  <2>7. SumFunction(g) = 0
    BY <2>2, <2>6, SumZero
  <2> QED BY <2>7 DEF Kept, g
<1>4. Given(k) \in Nat
  BY GivenIs
<1> QED BY <1>2, <1>3, <1>4, UnitsAre

LEMMA InitAccounts ==
    ASSUME Init
    PROVE  NothingFromNothing
<1>1. Inv
  BY InitKeeps
<1>2. ASSUME NEW l \in Kind PROVE Units(l) = Entered(l) /\ Units(l) \in Nat
  <2>1. made[l] = 0 /\ doubled[l] = 0
    BY DEF Init
  <2>2. Units(l) = Given(l) /\ Given(l) \in Nat
    BY InitUnits, GivenIs
  <2> QED BY <2>1, <2>2 DEF Entered, Booked
<1>3. ASSUME NEW k \in Kind PROVE Total(k) <= Made(k) + Doubled(k)
  <2>1. CASE k \in Toggled
    <3> DEFINE m == Toggle[k]
    <3>1. m \in Kind
      BY <2>1, ItemsAssumption
    <3>2. Total(k) = Units(k) + Units(m) /\ Made(k) + Doubled(k) = Entered(k) + Entered(m)
      BY <1>1, <2>1, EnteredIs DEF Total
    <3> HIDE DEF m
    <3>3. Units(k) = Entered(k) /\ Units(m) = Entered(m) /\ Units(k) \in Nat /\ Units(m) \in Nat
      BY <1>2, <3>1
    <3>4. Total(k) = Made(k) + Doubled(k) /\ Total(k) \in Nat
      BY <3>2, <3>3
    <3> QED BY <3>4
  <2>2. CASE k \notin Toggled
    <3>1. Total(k) = Units(k) /\ Made(k) + Doubled(k) = Entered(k)
      BY <1>1, <2>2, EnteredIs DEF Total
    <3>2. Units(k) = Entered(k) /\ Units(k) \in Nat
      BY <1>2
    <3>3. Total(k) = Made(k) + Doubled(k) /\ Total(k) \in Nat
      BY <3>1, <3>2
    <3> QED BY <3>3
  <2> QED BY <2>1, <2>2
<1> QED BY <1>3 DEF NothingFromNothing

\* Nothing is there that the map, a gamemaster or a monster did not bring, or the death of
\* its owner copy, with any number of players, tiles and boxes, wherever a handler is cut
\* short (do_move_thing, do_move_inventory, do_move_container, do_use_item, logout,
\* restore_containers).
THEOREM NothingAppears == Spec => []NothingFromNothing
<1>1. Init => NothingFromNothing
  BY InitAccounts
<1>2. NothingFromNothing /\ Inv /\ Inv' /\ [Next]_vars => NothingFromNothing'
  <2> SUFFICES ASSUME NothingFromNothing, Inv, Inv', [Next]_vars PROVE NothingFromNothing'
    OBVIOUS
  <2>1. CASE Next
    <3>1. Balanced
      BY <2>1, NextBalances
    <3>2. ASSUME NEW k \in Kind PROVE Total(k)' <= Made(k)' + Doubled(k)'
      <4>1. Total(k) <= Made(k) + Doubled(k)
        BY DEF NothingFromNothing
      <4> QED BY <3>1, <4>1, Accounts
    <3> QED BY <3>2 DEF NothingFromNothing
  <2>2. CASE UNCHANGED vars
    BY <2>2 DEF vars, NothingFromNothing, Total, Made, Doubled, Units, OnTile, Carries, Here, Worn, Boxes
  <2> QED BY <2>1, <2>2
<1>3. Inv /\ [Next]_vars => Inv'
  BY NextKeeps, StutterKeeps
<1> QED BY InvHolds, <1>1, <1>2, <1>3, PTL DEF Spec

\* A move that does not give a box away or meet a refusal keeps all there is.
LEMMA ConservingLedger ==
    ASSUME Inv, Inv', NEW p, Conserving(p), NEW k
    PROVE  Units(k)' = Units(k)
<1>0. (\A n \in Amounts : n \in Nat) /\ FALSE \in BOOLEAN /\ Used(Boxes(p)) \subseteq Cid
  BY ItemsAssumption DEF Amounts, Used
<1>1. ASSUME NEW a \in Tile, NEW b \in Tile, NEW n \in Amounts, NEW i \in Items(a),
             GroundToGround(p, a, i, b, n)
      PROVE  Units(k)' = Units(k)
  BY <1>0, <1>1, GroundToGroundLedger
<1>2. ASSUME NEW a \in Tile, NEW s \in Slot, NEW n \in Amounts, NEW i \in Items(a),
             Equip(p, a, i, s, n, FALSE)
      PROVE  Units(k)' = Units(k)
  BY <1>0, <1>2, EquipLedger
<1>3. ASSUME NEW s \in Slot, NEW b \in Tile, Unequip(p, s, b, FALSE) PROVE Units(k)' = Units(k)
  BY <1>0, <1>3, UnequipLedger
<1>4. ASSUME NEW s \in Slot, NEW d \in Slot, Swap(p, s, d) PROVE Units(k)' = Units(k)
  BY <1>4, SwapLedger
<1>5. ASSUME NEW c \in Used(Boxes(p)), NEW d \in Used(Boxes(p)), NEW i \in Places(p, c),
             NEW j \in 1..LootMax, Spares(p, d, j), BoxToBox(p, c, i, d, j, FALSE)
      PROVE  Units(k)' = Units(k)
  BY <1>0, <1>5, BoxToBoxLedger
<1>6. ASSUME NEW a \in Tile, NEW c \in Cid, NEW n \in Amounts, NEW i \in Items(a),
             GroundToBox(p, a, i, c, n, FALSE)
      PROVE  Units(k)' = Units(k)
  BY <1>0, <1>6, GroundToBoxLedger
<1>7. ASSUME NEW c \in Used(Boxes(p)), NEW t \in Tile, NEW i \in Places(p, c), BoxToGround(p, c, i, t)
      PROVE  Units(k)' = Units(k)
  BY <1>7, BoxToGroundLedger
<1>8. ASSUME NEW s \in Slot, NEW c \in Cid, SlotToBox(p, s, c, FALSE) PROVE Units(k)' = Units(k)
  BY <1>0, <1>8, SlotToBoxLedger
<1> QED BY <1>1, <1>2, <1>3, <1>4, <1>5, <1>6, <1>7, <1>8 DEF Conserving

\* Through splits, merges, spills and full boxes, a move whose player stays in the world
\* keeps everything (do_move_thing, do_move_inventory, do_move_container).
THEOREM MovesConserve == Spec => MovesKeepThings
<1> DEFINE Keeps == \A p \in Here \intersect DOMAIN players' : Alters => ~Conserving(p)
<1>1. Inv /\ Inv' /\ [Next]_vars => [Keeps]_vars
  <2> SUFFICES ASSUME Inv, Inv', NEW p \in Here, NEW k \in Kind, Total(k)' # Total(k), Conserving(p)
               PROVE  FALSE
    BY DEF Alters
  <2>1. \A l : Units(l)' = Units(l)
    BY ConservingLedger
  <2>2. Total(k)' = Total(k)
    BY <2>1 DEF Total
  <2> QED BY <2>2
<1>2. Inv /\ [Next]_vars => Inv'
  BY NextKeeps, StutterKeeps
<1> QED BY InvHolds, <1>1, <1>2, PTL DEF Spec, MovesKeepThings
=============================================================================
