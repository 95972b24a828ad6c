------------------------------ MODULE Scoring ------------------------------
(***************************************************************************)
(* The score of a node, as store.ComputeScore derives it from four figures *)
(* (average latency in ms, average speed in KB/s, success events and how   *)
(* many of them were successes) and the latest latency and speed.  The     *)
(* code adds fractions and truncates their sum times 10000 to an int32;    *)
(* here the sum is an exact fraction over 1024 * total.  An operator whose  *)
(* name has an underscore is the next one with a programming error in it.  *)
(***************************************************************************)
EXTENDS Integers

Capped(v, cap) == IF v < cap THEN v ELSE cap

\* Thousandths of the latency score; 500 when no latency is known.
LatencyPart_uncapped(lat) == IF lat = 0 THEN 500 ELSE 1000 - lat
LatencyPart(lat)          == IF lat = 0 THEN 500 ELSE 1000 - Capped(lat, 1000)

\* Parts of 102400 of the speed score.
SpeedPart_wraps(spd) == spd % 102400
SpeedPart(spd)       == Capped(spd, 102400)

\* 0.35 latency + 0.25 speed + 0.25 success + 0.15, in units of 1/10000.
Weighted(lat, spd, total, succ) ==
    (3584 * LatencyPart(lat) * total + 25 * SpeedPart(spd) * total
        + 2560000 * succ + 1536000 * total) \div (1024 * total)

\* With no success event the success rate is 0; with the latest latency and
\* the latest speed both 0 the node has failed, or was never tried.
Score(lat, spd, total, succ, lastLat, lastSpd) ==
    IF lastLat = 0 /\ lastSpd = 0 THEN 0
    ELSE IF total = 0 THEN Weighted(lat, spd, 1, 0)
    ELSE Weighted(lat, spd, total, succ)
=============================================================================
