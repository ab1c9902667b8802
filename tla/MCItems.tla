------------------------------- MODULE MCItems -------------------------------
EXTENDS Items

CONSTANTS p1, grass, meat, bag, unlit, lit, body, splash

Of(kind, n) == [kind |-> kind, count |-> n]
CorpseKinds == {grass, meat, unlit, lit, body, splash}
BagKinds == {grass, bag, meat}
Torches == {unlit, lit}
NoTorch == [k \in {} |-> k]
OtherTorch == [k \in Torches |-> IF k = lit THEN unlit ELSE lit]
Rooms == [k \in CorpseKinds \union BagKinds |-> IF k = bag THEN 2 ELSE 1]
Throws == {1, 3} \X {1, 3}
OnTheSpot == {<<1, 1>>}

\* A bag may be worn on the back (1) or in a hand (2).
Wear == [k \in BagKinds |-> IF k = bag THEN {1, 2} ELSE {}]

TwoBags == [t \in {1, 3} |-> [pre |-> 1, stack |-> IF t = 1 THEN <<Of(grass, 1), Of(bag, 1)>>
               ELSE <<Of(grass, 1), Of(bag, 1), Of(meat, 1)>>]]
Meals == {<<Of(meat, 2)>>}
Meadow == [t \in {1} |-> [pre |-> 1, stack |-> <<Of(grass, 1), Of(lit, 1)>>]]
OnBelt == [k \in CorpseKinds |-> IF k = meat THEN {1} ELSE {}]
=============================================================================
