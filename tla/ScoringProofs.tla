--------------------------- MODULE ScoringProofs ---------------------------
(***************************************************************************)
(* What the score formula does for every latency, speed and event count.   *)
(***************************************************************************)
EXTENDS Scoring, TLAPS

\* A quotient lies between two bounds when the dividend lies between the
\* bounds' products with the divisor.
LEMMA QuotientBetween ==
    ASSUME NEW a \in Int, NEW n \in Int, NEW lo \in Int, NEW hi \in Int, n > 0,
           lo * n <= a, a <= hi * n
    PROVE  a \div n \in Int /\ lo <= a \div n /\ a \div n <= hi
<1> DEFINE q == a \div n
<1>1. q \in Int /\ q * n <= a /\ a < (q + 1) * n
  BY Z3
<1> HIDE DEF q
<1>2. lo <= q
  <2> SUFFICES ASSUME q + 1 <= lo PROVE FALSE
    BY <1>1
  <2>1. (q + 1) * n <= lo * n
    BY <1>1
  <2> QED
    BY <1>1, <2>1
<1>3. q <= hi
  <2> SUFFICES ASSUME hi + 1 <= q PROVE FALSE
    BY <1>1
  <2>1. (hi + 1) * n <= q * n
    BY <1>1
  <2>2. hi * n < (hi + 1) * n
    OBVIOUS
  <2> QED
    BY <1>1, <2>1, <2>2
<1> QED
  BY <1>1, <1>2, <1>3 DEF q

\* A factor between 0 and a bound gives a product between 0 and the bound's.
LEMMA ProductBetween ==
    ASSUME NEW x \in Int, NEW hi \in Int, NEW t \in Nat, 0 <= x, x <= hi
    PROVE  x * t \in Int /\ 0 <= x * t /\ x * t <= hi * t
<1>1. 0 <= x * t
  OBVIOUS
<1>2. 0 <= (hi - x) * t
  OBVIOUS
<1>3. (hi - x) * t = hi * t - x * t
  OBVIOUS
<1> QED
  BY <1>1, <1>2, <1>3

\* The score of a node that is not failing.
IsWorkingScore(s) == s \in Int /\ 1500 <= s /\ s <= 10000

\* The parts of the weighted sum, named so that a proof can speak of them
\* without their coefficients.
IsLatencyShare(L) == L \in Nat /\ L <= 1000
IsSpeedShare(S)   == S \in Nat /\ S <= 102400
Terms(L, S, total, succ) ==
    3584 * L * total + 25 * S * total + 2560000 * succ + 1536000 * total
Denominator(total) == 1024 * total

\* The weights add up to 1, of which the load term is 0.15: the sum is at least
\* 1500 and at most 10000 times the denominator.
LEMMA TermsBetween ==
    ASSUME NEW L, IsLatencyShare(L), NEW S, IsSpeedShare(S),
           NEW total \in Nat, total > 0, NEW succ \in Nat, succ <= total
    PROVE  /\ Terms(L, S, total, succ) \in Int
           /\ Denominator(total) \in Int /\ Denominator(total) > 0
           /\ 1500 * Denominator(total) <= Terms(L, S, total, succ)
           /\ Terms(L, S, total, succ) <= 10000 * Denominator(total)
<1>1. PICK P : P = (3584 * L) * total
  OBVIOUS
<1>2. PICK Q : Q = (25 * S) * total
  OBVIOUS
<1>3. P \in Int /\ 0 <= P /\ P <= 3584000 * total
  <2>1. 3584 * L \in Int /\ 0 <= 3584 * L /\ 3584 * L <= 3584000
    BY SMT DEF IsLatencyShare
  <2> QED
    BY <1>1, <2>1, ProductBetween, SMT
<1>4. Q \in Int /\ 0 <= Q /\ Q <= 2560000 * total
  <2>1. 25 * S \in Int /\ 0 <= 25 * S /\ 25 * S <= 2560000
    BY SMT DEF IsSpeedShare
  <2> QED
    BY <1>2, <2>1, ProductBetween, SMT
<1>5. Terms(L, S, total, succ) = P + Q + 2560000 * succ + 1536000 * total
  BY <1>1, <1>2, SMT DEF Terms, IsLatencyShare, IsSpeedShare
<1>6. Denominator(total) = 1024 * total
  BY SMT DEF Denominator
<1>7. P \in Int /\ Q \in Int /\ 0 <= P /\ 0 <= Q
  BY <1>3, <1>4, SMT
<1>8. Terms(L, S, total, succ) \in Int
  BY <1>5, <1>7, SMT
<1>9. 1500 * Denominator(total) <= Terms(L, S, total, succ)
  <2>1. 1500 * (1024 * total) = 1536000 * total
    BY SMT
  <2>2. 0 <= 2560000 * succ
    BY SMT
  <2> QED
    BY <1>5, <1>6, <1>7, <2>1, <2>2, SMT
<1>10. Terms(L, S, total, succ) <= 10000 * Denominator(total)
  <2>1. 10000 * (1024 * total) = 10240000 * total
    BY SMT
  <2>2. P <= 3584000 * total /\ Q <= 2560000 * total
    BY <1>3, <1>4, SMT
  <2>3. 2560000 * succ <= 2560000 * total
    BY SMT
  <2> QED
    BY <1>5, <1>6, <1>7, <2>1, <2>2, <2>3, SMT
<1>11. Denominator(total) \in Int /\ Denominator(total) > 0
  BY <1>6, SMT
<1> QED
  BY <1>8, <1>9, <1>10, <1>11, SMT

\* The quotient of the two is a score of a working node.
LEMMA QuotientInRange ==
    ASSUME NEW L, IsLatencyShare(L), NEW S, IsSpeedShare(S),
           NEW total \in Nat, total > 0, NEW succ \in Nat, succ <= total
    PROVE  IsWorkingScore(Terms(L, S, total, succ) \div Denominator(total))
<1>1. PICK a : a = Terms(L, S, total, succ)
  OBVIOUS
<1>2. PICK n : n = Denominator(total)
  OBVIOUS
<1>3. a \in Int /\ n \in Int /\ n > 0 /\ 1500 * n <= a /\ a <= 10000 * n
  BY <1>1, <1>2, TermsBetween
<1>4. IsWorkingScore(a \div n)
  BY <1>3, QuotientBetween, SMT DEF IsWorkingScore
<1> QED
  BY <1>1, <1>2, <1>4, Zenon

\* Both parts are shares, whatever the latency and the speed.
LEMMA LatencyShare ==
    ASSUME NEW lat \in Nat
    PROVE  IsLatencyShare(LatencyPart(lat))
<1>1. CASE lat = 0
  BY <1>1, SMT DEF LatencyPart, IsLatencyShare
<1>2. CASE lat # 0
  BY <1>2, SMT DEF LatencyPart, Capped, IsLatencyShare
<1> QED
  BY <1>1, <1>2, Zenon

\* The same for the capped speed.
LEMMA SpeedShare ==
    ASSUME NEW spd \in Nat
    PROVE  IsSpeedShare(SpeedPart(spd))
<1>1. \A cap \in Nat : Capped(spd, cap) \in Nat /\ Capped(spd, cap) <= cap
  BY SMT DEF Capped
<1>2. 102400 \in Nat
  BY SMT
<1>3. Capped(spd, 102400) \in Nat /\ Capped(spd, 102400) <= 102400
  BY <1>1, <1>2, SMT
<1> QED
  BY <1>3, SMT DEF SpeedPart, IsSpeedShare

\* The weighted sum of any figures of a node that is not failing.
LEMMA WeightedInRange ==
    ASSUME NEW lat \in Nat, NEW spd \in Nat, NEW total \in Nat, total > 0,
           NEW succ \in Nat, succ <= total
    PROVE  IsWorkingScore(Weighted(lat, spd, total, succ))
<1>1. Weighted(lat, spd, total, succ)
        = Terms(LatencyPart(lat), SpeedPart(spd), total, succ) \div Denominator(total)
  BY SMT DEF Weighted, Terms, Denominator
<1> QED
  BY <1>1, LatencyShare, SpeedShare, QuotientInRange, Zenon

\* db.go on ScoreSnapshot.Score, 0~10000: true of every figure, as long as the
\* two counts agree; and only a failing or untried node has less than 1500.
THEOREM ScoreRange ==
    ASSUME NEW lat \in Nat, NEW spd \in Nat, NEW total \in Nat, NEW succ \in Nat,
           succ <= total, NEW lastLat \in Nat, NEW lastSpd \in Nat
    PROVE  IF lastLat = 0 /\ lastSpd = 0
           THEN Score(lat, spd, total, succ, lastLat, lastSpd) = 0
           ELSE IsWorkingScore(Score(lat, spd, total, succ, lastLat, lastSpd))
<1>1. CASE lastLat = 0 /\ lastSpd = 0
  BY <1>1 DEF Score
<1>2. CASE ~ (lastLat = 0 /\ lastSpd = 0) /\ total = 0
  <2>1. 1 \in Nat /\ 0 \in Nat /\ 1 > 0 /\ 0 <= 1
    BY SMT
  <2>2. IsWorkingScore(Weighted(lat, spd, 1, 0))
    BY <2>1, WeightedInRange, Zenon
  <2> QED
    BY <1>2, <2>2, Zenon DEF Score
<1>3. CASE ~ (lastLat = 0 /\ lastSpd = 0) /\ total # 0
  <2>1. total > 0
    BY <1>3, SMT
  <2>2. IsWorkingScore(Weighted(lat, spd, total, succ))
    BY <2>1, WeightedInRange, Zenon
  <2> QED
    BY <1>3, <2>2, Zenon DEF Score
<1> QED
  BY <1>1, <1>2, <1>3, Zenon

-----------------------------------------------------------------------------
\* What is rounded down keeps its order, also over different denominators.
LEMMA QuotientsInOrder ==
    ASSUME NEW a \in Int, NEW n \in Int, NEW b \in Int, NEW m \in Int,
           n > 0, m > 0, a * m <= b * n
    PROVE  a \div n <= b \div m
<1> DEFINE q == a \div n
           r == b \div m
<1>1. q \in Int /\ q * n <= a
  BY Z3
<1>2. r \in Int /\ b < (r + 1) * m
  BY Z3
<1> HIDE DEF q, r
<1>3. q <= r
  <2> SUFFICES ASSUME r + 1 <= q PROVE FALSE
    BY <1>1, <1>2
  <2>1. (q * n) * m <= a * m
    BY <1>1
  <2>2. b * n < ((r + 1) * m) * n
    BY <1>2
  <2>3. PICK k : k = n * m
    OBVIOUS
  <2>4. k \in Int /\ k > 0
    BY <2>3
  <2>5. (r + 1) * k <= q * k
    BY <1>1, <1>2, <2>4
  <2>6. (q * n) * m = q * k /\ ((r + 1) * m) * n = (r + 1) * k
    BY <1>1, <1>2, <2>3
  <2>7. q * k \in Int /\ (r + 1) * k \in Int /\ a * m \in Int /\ b * n \in Int
    BY <1>1, <1>2, <2>4
  <2> QED
    BY <2>1, <2>2, <2>5, <2>6, <2>7
<1> QED
  BY <1>3 DEF q, r

\* Better shares and a rate of success s2 / t2 that is not below s / t give a
\* sum that is not below, over a common denominator.
LEMMA TermsInOrder ==
    ASSUME NEW L \in Nat, NEW L2 \in Nat, NEW S \in Nat, NEW S2 \in Nat,
           NEW t \in Nat, NEW t2 \in Nat, NEW s \in Nat, NEW s2 \in Nat,
           L <= L2, S <= S2, s * t2 <= s2 * t
    PROVE  Terms(L, S, t, s) * Denominator(t2) <= Terms(L2, S2, t2, s2) * Denominator(t)
<1>1. PICK c : c = 3584 * L + 25 * S + 1536000
  OBVIOUS
<1>2. PICK c2 : c2 = 3584 * L2 + 25 * S2 + 1536000
  OBVIOUS
<1>3. c \in Nat /\ c2 \in Nat /\ c <= c2
  BY <1>1, <1>2
<1>4. Terms(L, S, t, s) = c * t + 2560000 * s
  BY <1>1 DEF Terms
<1>5. Terms(L2, S2, t2, s2) = c2 * t2 + 2560000 * s2
  BY <1>2 DEF Terms
<1>6. PICK k : k = t * t2
  OBVIOUS
<1>7. k \in Nat
  BY <1>6
<1>8. c * k <= c2 * k
  BY <1>3, <1>7
<1>9. (c * t + 2560000 * s) * (1024 * t2) = 1024 * (c * k) + 1024 * 2560000 * (s * t2)
  BY <1>3, <1>6
<1>10. (c2 * t2 + 2560000 * s2) * (1024 * t) = 1024 * (c2 * k) + 1024 * 2560000 * (s2 * t)
  BY <1>3, <1>6
<1>11. c * k \in Int /\ c2 * k \in Int /\ s * t2 \in Int /\ s2 * t \in Int
  BY <1>3, <1>7
<1>12. (c * t + 2560000 * s) * (1024 * t2) <= (c2 * t2 + 2560000 * s2) * (1024 * t)
  BY <1>8, <1>9, <1>10, <1>11
<1> QED
  BY <1>4, <1>5, <1>12 DEF Denominator

\* The events a score counts: with none, it is that of one failure.
Events(total)          == IF total = 0 THEN 1 ELSE total
Successes(total, succ) == IF total = 0 THEN 0 ELSE succ

\* A latency is better than another when it is known and not above it.
NotFurther(lat, lat2) == lat2 = lat \/ (0 < lat2 /\ lat2 <= lat)

Figures(lat, spd, total, succ, lastLat, lastSpd) ==
    /\ lat \in Nat /\ spd \in Nat /\ total \in Nat /\ succ \in Nat
    /\ lastLat \in Nat /\ lastSpd \in Nat

\* The second six figures are those of a node that does as well or better.
NoWorse(lat, spd, total, succ, lastLat, lastSpd,
        lat2, spd2, total2, succ2, lastLat2, lastSpd2) ==
    /\ NotFurther(lat, lat2) /\ spd <= spd2
    /\ Successes(total, succ) * Events(total2) <= Successes(total2, succ2) * Events(total)
    /\ lastLat2 = 0 /\ lastSpd2 = 0 => lastLat = 0 /\ lastSpd = 0

\* The score never falls for a node that is closer, faster or more reliable,
\* or no longer failing: whatever the figures, which need not even agree.
THEOREM ScoreMonotone ==
    ASSUME NEW lat, NEW spd, NEW total, NEW succ, NEW lastLat, NEW lastSpd,
           NEW lat2, NEW spd2, NEW total2, NEW succ2, NEW lastLat2, NEW lastSpd2,
           Figures(lat, spd, total, succ, lastLat, lastSpd),
           Figures(lat2, spd2, total2, succ2, lastLat2, lastSpd2),
           NoWorse(lat, spd, total, succ, lastLat, lastSpd,
                   lat2, spd2, total2, succ2, lastLat2, lastSpd2)
    PROVE  /\ Score(lat, spd, total, succ, lastLat, lastSpd) \in Nat
           /\ Score(lat, spd, total, succ, lastLat, lastSpd)
                <= Score(lat2, spd2, total2, succ2, lastLat2, lastSpd2)
<1>0. /\ lat \in Nat /\ spd \in Nat /\ total \in Nat /\ succ \in Nat
      /\ lastLat \in Nat /\ lastSpd \in Nat
      /\ lat2 \in Nat /\ spd2 \in Nat /\ total2 \in Nat /\ succ2 \in Nat
      /\ lastLat2 \in Nat /\ lastSpd2 \in Nat
      /\ NotFurther(lat, lat2) /\ spd <= spd2
      /\ Successes(total, succ) * Events(total2) <= Successes(total2, succ2) * Events(total)
      /\ lastLat2 = 0 /\ lastSpd2 = 0 => lastLat = 0 /\ lastSpd = 0
  BY DEF Figures, NoWorse
<1>1. /\ LatencyPart(lat) \in Nat /\ LatencyPart(lat2) \in Nat
      /\ SpeedPart(spd) \in Nat /\ SpeedPart(spd2) \in Nat
  BY <1>0, LatencyShare, SpeedShare DEF IsLatencyShare, IsSpeedShare
<1>2. LatencyPart(lat) <= LatencyPart(lat2)
  BY <1>0 DEF NotFurther, LatencyPart, Capped
<1>3. SpeedPart(spd) <= SpeedPart(spd2)
  BY <1>0 DEF SpeedPart, Capped
<1>4. /\ Events(total) \in Nat \ {0} /\ Events(total2) \in Nat \ {0}
      /\ Successes(total, succ) \in Nat /\ Successes(total2, succ2) \in Nat
  BY <1>0 DEF Events, Successes
<1> DEFINE a  == Terms(LatencyPart(lat), SpeedPart(spd), Events(total), Successes(total, succ))
           n  == Denominator(Events(total))
           a2 == Terms(LatencyPart(lat2), SpeedPart(spd2), Events(total2), Successes(total2, succ2))
           n2 == Denominator(Events(total2))
<1>5. a * n2 <= a2 * n
  BY <1>0, <1>1, <1>2, <1>3, <1>4, TermsInOrder
<1>6. a \in Nat /\ a2 \in Nat
  BY <1>1, <1>4 DEF Terms
<1>7. n \in Nat \ {0} /\ n2 \in Nat \ {0}
  BY <1>4 DEF Denominator
<1>8. Weighted(lat, spd, Events(total), Successes(total, succ)) = a \div n
  BY DEF Weighted, Terms, Denominator
<1>9. Weighted(lat2, spd2, Events(total2), Successes(total2, succ2)) = a2 \div n2
  BY DEF Weighted, Terms, Denominator
<1> HIDE DEF a, n, a2, n2
<1>10. a \div n \in Nat /\ a2 \div n2 \in Nat
  BY <1>6, <1>7, Z3
<1>11. a \div n <= a2 \div n2
  BY <1>5, <1>6, <1>7, QuotientsInOrder
<1>12. Score(lat, spd, total, succ, lastLat, lastSpd) =
         IF lastLat = 0 /\ lastSpd = 0 THEN 0
         ELSE Weighted(lat, spd, Events(total), Successes(total, succ))
  BY DEF Score, Events, Successes
<1>13. Score(lat2, spd2, total2, succ2, lastLat2, lastSpd2) =
         IF lastLat2 = 0 /\ lastSpd2 = 0 THEN 0
         ELSE Weighted(lat2, spd2, Events(total2), Successes(total2, succ2))
  BY DEF Score, Events, Successes
<1> QED
  BY <1>0, <1>8, <1>9, <1>10, <1>11, <1>12, <1>13

\* A score is a natural number even when the two counts disagree.
LEMMA ScoreIsNatural ==
    ASSUME NEW lat, NEW spd, NEW total, NEW succ, NEW lastLat, NEW lastSpd,
           Figures(lat, spd, total, succ, lastLat, lastSpd)
    PROVE  Score(lat, spd, total, succ, lastLat, lastSpd) \in Nat
<1>1. Successes(total, succ) \in Nat /\ Events(total) \in Nat /\ spd \in Nat
  BY DEF Figures, Events, Successes
<1>2. NoWorse(lat, spd, total, succ, lastLat, lastSpd, lat, spd, total, succ, lastLat, lastSpd)
  BY <1>1 DEF NoWorse, NotFurther
<1> QED
  BY <1>2, ScoreMonotone, Zenon
=============================================================================
