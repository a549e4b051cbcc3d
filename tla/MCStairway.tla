----------------------------- MODULE MCStairway -----------------------------
(***************************************************************************)
(* Instances of Stairway for TLC.  The clock of the specification never    *)
(* wraps and never stops; StairwayView identifies states that differ only  *)
(* in the absolute value of the clock: an age is kept up to the limit it   *)
(* is compared with, the stamps of events and LEDs up to their order.      *)
(***************************************************************************)
EXTENDS Stairway, FiniteSetsExt

R(f, s) == [first |-> f, second |-> s]

\* Everything two sensors of one detector can report without an error.
CleanReadings == {R(f, s) : f \in {"near", "far"}, s \in {"near", "far"}}

\* A FIRST sensor may have a fault; which one makes no difference to the detector.
FaultReadings == CleanReadings \union {R("error", "far")}

NoEmergency == [d \in Detector |-> 0]
UpEmergency == [d \in Detector |-> IF d = "UP" THEN 1 ELSE 0]

Age(t, limit) == Smaller(now - t, limit + 1)

Stamps == {ev_ts[a] : a \in {b \in Anim : run[b]}} \union {leds[i].ts : i \in DOMAIN leds}

\* The position of a stamp among the ones in use; now comes last or ties.
Rank(t) == Cardinality({u \in Stamps : u < t})

StairwayView ==
    << pc,
       IF pc \in {"UP", "DOWN"} THEN <<sens, err>> ELSE <<>>,
       IF pc \in {"sense", "refresh"} THEN 0 ELSE now - ts,
       block_by_light,
       det,
       [d \in Detector |-> IF det[d] = "IDLE" THEN 0 ELSE Age(det_ts[d], Debounce)],
       people_count, prev_people_count,
       IF people_count > 0 THEN <<last_det, Age(people_ts, OffTimeout)>> ELSE <<>>,
       run, cnt,
       [a \in Anim |-> IF run[a] THEN Rank(ev_ts[a]) ELSE 0],
       [i \in DOMAIN leds |-> <<leds[i].state, Rank(leds[i].ts)>>],
       Rank(now), now \in Stamps,
       Smaller((IF pc \in {"sense", "refresh"} THEN now ELSE ts) - tick_ts, LedInterval + 1),
       Age(refresh_ts, RefreshPeriod),
       led_count, test_request, test_mode, covered >>
=============================================================================
