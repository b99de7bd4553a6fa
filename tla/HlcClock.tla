------------------------------ MODULE HlcClock ------------------------------
(* The hybrid logical clock of heraclitus-core/src/hlc.rs: the last stamp it *)
(* gave or saw, and the wall clock, whose readings come in any order.        *)
EXTENDS Naturals

\* (mutant: no logical tick when the wall clock does not advance)
HlcNow_wall(h, p) == IF p > h THEN p ELSE h

\* Hlc::now for a wall clock reading p (saturation at u64::MAX is left out).
HlcNow(h, p) == IF p > h THEN p ELSE h + 1
HlcObserve(h, ts) == IF ts > h THEN ts ELSE h
=============================================================================
