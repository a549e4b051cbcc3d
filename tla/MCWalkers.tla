----------------------------- MODULE MCWalkers ------------------------------
(* Instances of Walkers for TLC.  WalkersView is the view of MCStairway;   *)
(* CountingView leaves out the LEDs, the stamps of events and test mode,   *)
(* which have no influence on people and on how long an animation runs.    *)
EXTENDS Walkers, MCStairway

WalkReadings == CleanReadings \union {R("error", "far"), R("far", "error")}

WalkersView == <<StairwayView, walker, inside, lost>>

CountingView ==
    << pc,
       IF pc \in {"UP", "DOWN"} THEN <<sens, err>> ELSE <<>>,
       IF pc \in {"sense", "refresh"} THEN 0 ELSE now - ts,
       block_by_light,
       det,
       [d \in Detector |-> IF det[d] = "IDLE" THEN 0 ELSE Age(det_ts[d], Debounce)],
       people_count, prev_people_count,
       IF people_count > 0 THEN <<last_det, Age(people_ts, OffTimeout)>> ELSE <<>>,
       run, cnt, led_count,
       Smaller((IF pc \in {"sense", "refresh"} THEN now ELSE ts) - tick_ts, LedInterval + 1),
       walker, inside, lost >>
=============================================================================
